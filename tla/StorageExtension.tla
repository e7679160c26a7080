-------------------------- MODULE StorageExtension --------------------------
(***************************************************************************)
(* Prolonging the storage of a file in the front end: ExtendFileStorage-   *)
(* DurationStore, its dialog, and the two dialogs that open it: the        *)
(* details of a data owner and the details of a sale.                      *)
(*                                                                         *)
(* The PATCH of the backend (DataValidatorFiles) is one step here: it      *)
(* records the new date or fails; when the connection is lost it goes on   *)
(* in the backend, which the store does not learn.  While the store waits  *)
(* for the reply the user may close the dialogs, open others and choose    *)
(* another wallet, and the reply is applied to the store as it is then.    *)
(*                                                                         *)
(* The lists of data owners, one per wallet, are fetched when the wallets  *)
(* change and after every upload (DataOwnersAccountsStore), the sales of   *)
(* the selected wallet with the pages of the application that show them    *)
(* (TransactionsStore, whose paging is the subject of TransactionsHistory: *)
(* here all sales of a wallet are one page).  A date is a number of months *)
(* from now, and a file has at most one sale.                              *)
(***************************************************************************)
EXTENDS Integers, Sequences, FiniteSets

CONSTANTS
    FileId,
    Wallet,
    WalletOf,     \* the wallet each file belongs to
    Sold,         \* files that have a sale
    Null,         \* undefined
    MaxDate,      \* bound: dates
    MaxReplies,   \* bound: lists and pages on their way
    MaxFaults     \* bound: requests that fail

ASSUME ExtensionAssumption ==
    /\ WalletOf \in [FileId -> Wallet]
    /\ Sold \subseteq FileId
    /\ Null \notin FileId /\ Null \notin Nat
    /\ MaxDate \in Nat \ {0}
    /\ MaxReplies \in Nat
    /\ MaxFaults \in Nat

VARIABLES
    recorded,    \* keepUntil in the backend's records of each file
    owners,      \* keepUntil in DataOwnersAccountsStore.dataOwners, or Null
                 \* while the list of the wallet has never been fetched
    list,        \* keepUntil as read for a reply with the list that is on its
                 \* way, or Null
    sales,       \* keepUntil in TransactionsStore.transactions, or Null without
                 \* a row of the file
    page,        \* keepUntil as read for a reply with sales that is on its way,
                 \* or Null
    selected,    \* selectedDataValidatorAccount
    details,     \* the file of the details dialog that is open
    file, keepUntil, pending, error, response, showSnackbar,
    requests,    \* PATCH requests and their replies
    late,        \* PATCH requests without an answer: the backend may go on
    outcome,     \* history: how the last reply ended
    snack,       \* the last snackbar, and the outcome it was about
    uncertain,   \* history: files whose rows may be wrong, since a PATCH failed,
                 \* its reply met another file, date or wallet, or a list or
                 \* page that was read before it was on its way
    faults

store == <<file, keepUntil, pending, error, response, showSnackbar>>
backend == <<recorded, late>>
rows == <<owners, sales>>
replies == <<list, page>>
history == <<outcome, uncertain>>
vars == <<backend, rows, replies, selected, details, store, requests, history,
          snack, faults>>

Date == 1..MaxDate
Request == [file : FileId, date : Date, status : {"sent", "ok", "failed"}]
Late == [file : FileId, date : Date, done : BOOLEAN]
Outcome == {"none", "ok", "failed"}
Dates == [FileId -> Date \cup {Null}]

TypeOK ==
    /\ recorded \in [FileId -> Date]
    /\ owners \in Dates /\ list \in Dates
    /\ sales \in Dates /\ page \in Dates
    /\ selected \in Wallet
    /\ details \in FileId \cup {Null}
    /\ file \in FileId \cup {Null}
    /\ keepUntil \in Date
    /\ pending \in BOOLEAN
    /\ error \in BOOLEAN
    /\ response \in BOOLEAN
    /\ showSnackbar \in BOOLEAN
    /\ requests \in Seq(Request)
    /\ late \in SUBSET Late
    /\ outcome \in Outcome
    /\ snack \in [kind : {"none", "extended", "error"}, about : Outcome]
    /\ uncertain \in SUBSET FileId
    /\ faults \in 0..MaxFaults

NoDates == [f \in FileId |-> Null]

Init ==
    /\ recorded = [f \in FileId |-> 1]
    /\ owners = NoDates /\ list = NoDates
    /\ sales = NoDates /\ page = NoDates
    /\ selected \in Wallet
    /\ details = Null
    /\ file = Null
    /\ keepUntil = 1
    /\ pending = FALSE
    /\ error = FALSE
    /\ response = FALSE
    /\ showSnackbar = FALSE
    /\ requests = <<>>
    /\ late = {}
    /\ outcome = "none"
    /\ snack = [kind |-> "none", about |-> "none"]
    /\ uncertain = {}
    /\ faults = 0

-----------------------------------------------------------------------------
(* The dialogs                                                             *)

\* What the dialog does when it is rendered with showSnackbar: an earlier
\* response, which nothing clears, comes before the error.
Announcement(r, o) ==
    [kind |-> IF r THEN "extended" ELSE "error", about |-> o]

\* The details dialog of a row renders the dialog of the extension, which then
\* sees showSnackbar.
OpenDetails(f) ==
    /\ details = Null
    /\ details' = f
    /\ snack' = IF showSnackbar THEN Announcement(response, outcome) ELSE snack
    /\ showSnackbar' = FALSE
    /\ UNCHANGED <<backend, rows, replies, selected, file, keepUntil, pending,
                   error, response, requests, history, faults>>

OpenDataOwner(f) ==
    /\ WalletOf[f] = selected /\ owners[f] # Null
    /\ OpenDetails(f)

\* A sale of another wallet is shown as well, if its reply came late.
OpenSale(f) == sales[f] # Null /\ OpenDetails(f)

CloseDetails ==
    /\ details # Null /\ file = Null
    /\ details' = Null
    /\ UNCHANGED <<backend, rows, replies, selected, store, requests, history,
                   snack, faults>>

\* setFile, and the reaction on the file: one month more than the dialog shows,
\* which keeps the object of its row also when the row is replaced by another.
SetFile ==
    /\ details # Null /\ file = Null
    /\ file' = details
    /\ \E shown \in Date :
        keepUntil' = IF shown < MaxDate THEN shown + 1 ELSE MaxDate
    /\ UNCHANGED <<backend, rows, replies, selected, details, pending, error,
                   response, showSnackbar, requests, history, snack, faults>>

SetKeepUntil(d) ==
    /\ file # Null
    /\ keepUntil' = d
    /\ UNCHANGED <<backend, rows, replies, selected, details, file, pending,
                   error, response, showSnackbar, requests, history, snack,
                   faults>>

\* Mutant: closing the dialog ends the wait for the reply.
Close_NotPending ==
    /\ file # Null
    /\ file' = Null
    /\ pending' = FALSE
    /\ UNCHANGED <<backend, rows, replies, selected, details, keepUntil, error,
                   response, showSnackbar, requests, history, snack, faults>>

\* setFile(undefined)
Close ==
    /\ file # Null
    /\ file' = Null
    /\ UNCHANGED <<backend, rows, replies, selected, details, keepUntil,
                   pending, error, response, showSnackbar, requests, history,
                   snack, faults>>

-----------------------------------------------------------------------------
(* The lists of data owners and the sales.  A request may wait for any     *)
(* time before the backend reads its records, so that when and from which  *)
(* page it was sent is not part of the state: it begins with the reading.  *)

FilesOf(w) == {f \in FileId : WalletOf[f] = w}

OnTheirWay(dates) == {w \in Wallet : \E f \in FilesOf(w) : dates[f] # Null}

\* Bound: one list and one page of a wallet at a time, and MaxReplies of all.
Room(w, dates) ==
    /\ w \notin OnTheirWay(dates)
    /\ Cardinality(OnTheirWay(list)) + Cardinality(OnTheirWay(page)) < MaxReplies

Without(dates, w) ==
    [f \in FileId |-> IF f \in FilesOf(w) THEN Null ELSE dates[f]]

\* fetchDataOwners: the backend reads the data owners of w.
GetDataOwners(w) ==
    /\ Room(w, list)
    /\ list' = [f \in FileId |-> IF f \in FilesOf(w) THEN recorded[f]
                                                   ELSE list[f]]
    /\ UNCHANGED <<backend, rows, page, selected, details, store, requests,
                   history, snack, faults>>

\* The reply replaces the list of its wallet.
DataOwnersFetched(w) ==
    /\ w \in OnTheirWay(list)
    /\ owners' = [f \in FileId |-> IF f \in FilesOf(w) THEN list[f]
                                                     ELSE owners[f]]
    /\ list' = Without(list, w)
    /\ UNCHANGED <<backend, sales, page, selected, details, store, requests,
                   history, snack, faults>>

\* fetchTransactions: mapTransactionsAndDataOwners reads the data owner of one
\* sale after the other, here of f.
GetSale(f) ==
    /\ f \in Sold /\ page[f] = Null
    /\ WalletOf[f] \in OnTheirWay(page) \/ Room(WalletOf[f], page)
    /\ page' = [page EXCEPT ![f] = recorded[f]]
    /\ UNCHANGED <<backend, rows, list, selected, details, store, requests,
                   history, snack, faults>>

\* The reply is pushed, and uniqBy keeps the rows that are there already.
SalesFetched(w) ==
    /\ w \in OnTheirWay(page)
    /\ \A f \in FilesOf(w) \cap Sold : page[f] # Null
    /\ sales' = [f \in FileId |-> IF f \in FilesOf(w) /\ sales[f] = Null
                                    THEN page[f] ELSE sales[f]]
    /\ page' = Without(page, w)
    /\ UNCHANGED <<backend, owners, list, selected, details, store, requests,
                   history, snack, faults>>

\* A reply that is an error, or lost: the rows stay as they are, or missing.
FetchFails(w) ==
    /\ faults < MaxFaults
    /\ faults' = faults + 1
    /\ \/ w \in OnTheirWay(list) /\ list' = Without(list, w) /\ UNCHANGED page
       \/ w \in OnTheirWay(page) /\ page' = Without(page, w) /\ UNCHANGED list
    /\ UNCHANGED <<backend, rows, selected, details, store, requests, history,
                   snack>>

\* reset, when the page of the application that shows the sales is left.
LeaveSales ==
    /\ details = Null
    /\ sales' = NoDates
    /\ UNCHANGED <<backend, owners, replies, selected, details, store,
                   requests, history, snack, faults>>

\* The select of the wallet is behind the dialogs while one of them is open.  Its
\* reaction drops the sales if a page shows them.
SelectWallet(w) ==
    /\ details = Null /\ w # selected
    /\ selected' = w
    /\ sales' \in {sales, NoDates}
    /\ UNCHANGED <<backend, owners, replies, details, store, requests, history,
                   snack, faults>>

-----------------------------------------------------------------------------
(* extendFileStorageDuration                                               *)

\* The button is disabled while pending.
ExtendFileStorageDuration ==
    /\ file # Null
    /\ ~pending
    /\ pending' = TRUE
    /\ error' = FALSE
    /\ requests' = Append(requests, [file |-> file, date |-> keepUntil,
                                     status |-> "sent"])
    /\ UNCHANGED <<backend, rows, replies, selected, details, file, keepUntil,
                   response, showSnackbar, history, snack, faults>>

\* A list or a page is on its way for which the record of f has been read.
Overtaken(f) == list[f] # Null \/ page[f] # Null

BackendExtends(i) ==
    /\ requests[i].status = "sent"
    /\ recorded' = [recorded EXCEPT ![requests[i].file] = requests[i].date]
    /\ requests' = [requests EXCEPT ![i].status = "ok"]
    /\ uncertain' = uncertain \cup {f \in {requests[i].file} : Overtaken(f)}
    /\ UNCHANGED <<rows, replies, late, selected, details, store, outcome,
                   snack, faults>>

\* The request ends without success for the store.
EndsBadly(i) ==
    /\ requests[i].status = "sent"
    /\ faults < MaxFaults
    /\ faults' = faults + 1
    /\ requests' = [requests EXCEPT ![i].status = "failed"]

\* The backend answers with an error, before it has recorded the date.
BackendFails(i) ==
    /\ EndsBadly(i)
    /\ UNCHANGED <<backend, rows, replies, selected, details, store, history,
                   snack>>

\* The browser gets no answer, while the request goes on in the backend.
ConnectionLost(i) ==
    /\ EndsBadly(i)
    /\ late' = late \cup {[file |-> requests[i].file, date |-> requests[i].date,
                           done |-> FALSE]}
    /\ uncertain' = uncertain \cup {requests[i].file}
    /\ UNCHANGED <<recorded, rows, replies, selected, details, store, outcome,
                   snack>>

\* Such a request is carried out, possibly after later ones.
ExtendsLate(r) ==
    /\ ~r.done
    /\ recorded' = [recorded EXCEPT ![r.file] = r.date]
    /\ late' = (late \ {r}) \cup {[r EXCEPT !.done = TRUE]}
    /\ UNCHANGED <<rows, replies, selected, details, store, requests, history,
                   snack, faults>>

\* Mutant: the sales are not updated.
UpdateRows_NoSales(f, d) ==
    /\ owners' = IF WalletOf[f] = selected THEN [owners EXCEPT ![f] = d]
                                           ELSE owners
    /\ UNCHANGED sales

\* updateFileStorageDuration looks for the file under the selected wallet,
\* updateStorageDuration in all transactions.
UpdateRows(f, d) ==
    /\ owners' = IF WalletOf[f] = selected THEN [owners EXCEPT ![f] = d]
                                           ELSE owners
    /\ sales' = [sales EXCEPT ![f] = IF sales[f] = Null THEN Null ELSE d]

\* The list of the selected wallet has not been fetched.
ListMissing == \E f \in FilesOf(selected) : owners[f] = Null

\* finally: the snackbar is shown at once if the dialog is rendered.
Settled(r, o) ==
    /\ pending' = FALSE
    /\ outcome' = o
    /\ showSnackbar' = (details = Null)
    /\ snack' = IF details = Null THEN snack ELSE Announcement(r, o)
    /\ requests' = Tail(requests)

\* The reply of r meets the dialog it was sent from.
MeetsItsDialog(r) ==
    file = r.file /\ keepUntil = r.date /\ WalletOf[file] = selected

\* Files with a request that was not answered.
Unanswered == {r.file : r \in late}

Doubted(r) ==
    IF ~MeetsItsDialog(r) \/ ListMissing
      THEN uncertain \cup ({r.file, file} \ {Null})
      ELSE uncertain \ {f \in {r.file} \ Unanswered : ~Overtaken(f)}

\* With the dialog closed `this.file!.id` throws, and so does the update of a
\* list that is missing: the rows stay as they are.  Otherwise the rows of the
\* file of the dialog get the date of the dialog.
RowsUpdated ==
    \/ /\ file = Null \/ ListMissing
       /\ error' = TRUE
       /\ UNCHANGED <<rows, file>>
    \/ /\ file # Null /\ ~ListMissing
       /\ UpdateRows(file, keepUntil)
       /\ file' = Null
       /\ UNCHANGED error

\* Mutant: the response is set after the rows.
ExtensionSucceeded_ResponseLast ==
    /\ requests # <<>> /\ Head(requests).status = "ok"
    /\ RowsUpdated
    /\ response' = (response \/ ~error')
    /\ uncertain' = Doubted(Head(requests))
    /\ Settled(response', "ok")
    /\ UNCHANGED <<backend, replies, selected, details, keepUntil, faults>>

ExtensionSucceeded ==
    /\ requests # <<>> /\ Head(requests).status = "ok"
    /\ response' = TRUE
    /\ RowsUpdated
    /\ uncertain' = Doubted(Head(requests))
    /\ Settled(TRUE, "ok")
    /\ UNCHANGED <<backend, replies, selected, details, keepUntil, faults>>

ExtensionFailed ==
    /\ requests # <<>> /\ Head(requests).status = "failed"
    /\ error' = TRUE
    /\ uncertain' = uncertain \cup {Head(requests).file}
    /\ Settled(response, "failed")
    /\ UNCHANGED <<backend, rows, replies, selected, details, file, keepUntil,
                   response, faults>>

-----------------------------------------------------------------------------
Next ==
    \/ \E f \in FileId : OpenDataOwner(f) \/ OpenSale(f)
    \/ CloseDetails
    \/ SetFile
    \/ \E d \in Date : SetKeepUntil(d)
    \/ Close
    \/ \E w \in Wallet : GetDataOwners(w) \/ DataOwnersFetched(w)
    \/ \E f \in FileId : GetSale(f)
    \/ \E w \in Wallet : SalesFetched(w) \/ FetchFails(w)
    \/ LeaveSales
    \/ \E w \in Wallet : SelectWallet(w)
    \/ ExtendFileStorageDuration
    \/ \E i \in DOMAIN requests : BackendExtends(i)
    \/ \E i \in DOMAIN requests : BackendFails(i) \/ ConnectionLost(i)
    \/ \E r \in late : ExtendsLate(r)
    \/ ExtensionSucceeded
    \/ ExtensionFailed

Spec == Init /\ [][Next]_vars

-----------------------------------------------------------------------------
(* Properties                                                              *)

\* The lists and the sales show the date the backend has recorded, or nothing yet,
\* whatever lists and pages are fetched and dialogs closed and opened meanwhile.
\* Excepted are a file while its reply is on its way, or a list or page for which
\* it was read, and a file in doubt: after a failed request, after a reply that
\* met another dialog, after an extension that a list or page on its way had
\* missed (each until an extension succeeds and its reply meets the dialog it was
\* sent from), and for good after a request without an answer, which the backend
\* may carry out after later ones.
ListsShowRecordedDate ==
    \A f \in FileId \ uncertain :
        /\ \A i \in DOMAIN requests : requests[i].file # f
        /\ ~Overtaken(f)
        => {owners[f], sales[f]} \subseteq {recorded[f], Null}

\* The store never waits for two extensions, however dialogs are closed and opened
\* meanwhile.  In the backend two may still be in progress, when one of them got
\* no answer or when there are two browsers.
OneExtensionAtATime == Len(requests) <= 1

\* An extension that succeeded is never announced as failed, whenever and in
\* whatever dialog the snackbar is shown.
SuccessIsNotDenied == snack.kind = "error" => snack.about = "failed"

\* "Storage duration has been extended" is only said of an extension that
\* succeeded ("It allows to prolong file storage duration", README.md).
SuccessIsTrue == snack.kind = "extended" => snack.about = "ok"

-----------------------------------------------------------------------------
(* The inductive invariant behind all of them but SuccessIsTrue, which does *)
(* not hold.                                                               *)

\* The store waits exactly while there is a request or its reply.
QueueInv ==
    /\ pending <=> requests # <<>>
    /\ Len(requests) \in {0, 1}

\* What a dialog that is rendered now would announce.
SnackInv ==
    /\ showSnackbar => outcome # "none"
    /\ outcome = "ok" => response
    /\ SuccessIsNotDenied

Answered(f, status) ==
    \E i \in DOMAIN requests :
        requests[i].file = f /\ requests[i].status \in status

\* The rows of f have the recorded date, but for the file whose reply is on its
\* way; and so have a list and a page on their way.
RowInv(f) ==
    /\ \/ Answered(f, {"ok", "failed"})
       \/ {owners[f], sales[f]} \subseteq {recorded[f], Null}
    /\ \/ Answered(f, {"failed"})
       \/ {list[f], page[f]} \subseteq {recorded[f], Null}

\* A request that ended well has recorded its date.
RecordedInv ==
    \A i \in DOMAIN requests :
        requests[i].status = "ok" /\ requests[i].file \notin Unanswered =>
            recorded[requests[i].file] = requests[i].date

RowsInv ==
    /\ RecordedInv
    /\ Unanswered \subseteq uncertain
    /\ \A f \in FileId \ uncertain : RowInv(f)

IInv ==
    /\ TypeOK
    /\ QueueInv
    /\ SnackInv
    /\ RowsInv
=============================================================================

----------------------- MODULE StorageExtension_proofs -----------------------
(***************************************************************************)
(* Proofs about StorageExtension, for every set of files and wallets:      *)
(* the store waits for one extension, a success is never denied, and rows  *)
(* that are not in doubt show the recorded date.                           *)
(***************************************************************************)
EXTENDS StorageExtension, SequenceTheorems, TLAPS

-----------------------------------------------------------------------------
(* The queue of requests, which is empty or has one                        *)

LEMMA OneRequest ==
    ASSUME TypeOK, QueueInv, requests # <<>>
    PROVE  /\ requests[1] \in Request
           /\ DOMAIN requests = {1} /\ Len(requests) = 1
           /\ Head(requests) = requests[1]
           /\ Tail(requests) = <<>>
<1>1. requests \in Seq(Request) /\ Len(requests) \in {0, 1}
  BY DEF TypeOK, QueueInv
<1>2. Len(requests) \in Nat \ {0}
  BY <1>1, EmptySeq
<1>3. Len(requests) = 1
  BY <1>1, <1>2
<1>4. DOMAIN requests = {1}
  BY <1>1, <1>3, LenProperties
<1>5. Head(requests) = requests[1] /\ requests[1] \in Request
  BY <1>1, <1>3
<1>6. Tail(requests) = <<>>
  <2>1. Tail(requests) \in Seq(Request) /\ Len(Tail(requests)) = 0
    BY <1>1, <1>3, HeadTailProperties
  <2> QED
    BY <2>1, EmptySeq
<1> QED
  BY <1>3, <1>4, <1>5, <1>6

\* A reply changes the status of the only request.
LEMMA RequestAnswered ==
    ASSUME TypeOK, QueueInv, NEW i \in DOMAIN requests,
           NEW s \in {"sent", "ok", "failed"},
           requests' = [requests EXCEPT ![i].status = s]
    PROVE  /\ i = 1
           /\ requests' \in Seq(Request)
           /\ DOMAIN requests' = {1} /\ Len(requests') = 1
           /\ requests' # <<>> /\ requests # <<>>
           /\ requests'[1].file = requests[1].file
           /\ requests'[1].date = requests[1].date
           /\ requests'[1].status = s
<1>1. requests # <<>>
  BY EmptySeq
<1>2. /\ requests[1] \in Request
      /\ DOMAIN requests = {1} /\ Len(requests) = 1 /\ i = 1
  BY <1>1, OneRequest
<1>3. requests \in Seq(Request)
  BY DEF TypeOK
<1> DEFINE r == [requests[1] EXCEPT !.status = s]
<1>4. /\ r \in Request
      /\ r.file = requests[1].file /\ r.date = requests[1].date /\ r.status = s
  BY <1>2 DEF Request
<1> HIDE DEF r
<1>5. requests' = [requests EXCEPT ![1] = r]
  BY <1>2 DEF r
<1>6. requests' \in Seq(Request) /\ Len(requests') = 1 /\ requests'[1] = r
  BY <1>2, <1>3, <1>4, <1>5, ExceptSeq
<1> QED
  BY <1>1, <1>2, <1>4, <1>6

\* The first request is sent while there is none.
LEMMA RequestSent ==
    ASSUME TypeOK, QueueInv, ExtendFileStorageDuration
    PROVE  /\ requests = <<>>
           /\ requests' \in Seq(Request)
           /\ DOMAIN requests' = {1} /\ Len(requests') = 1 /\ requests' # <<>>
           /\ requests'[1] = [file |-> file, date |-> keepUntil, status |-> "sent"]
<1> DEFINE r == [file |-> file, date |-> keepUntil, status |-> "sent"]
<1>1. requests = <<>> /\ requests' = Append(requests, r)
  BY DEF ExtendFileStorageDuration, QueueInv
<1>2. r \in Request
  BY DEF ExtendFileStorageDuration, TypeOK, Request
<1> HIDE DEF r
<1>3. requests' \in Seq(Request) /\ Len(requests') = 1 /\ requests'[1] = r
  BY <1>1, <1>2
<1> QED
  BY <1>1, <1>3 DEF r

-----------------------------------------------------------------------------
(* Steps                                                                   *)

\* Steps of the user and of the lists, which no request is part of.
Browsing ==
    \/ \E f \in FileId : OpenDataOwner(f) \/ OpenSale(f)
    \/ CloseDetails
    \/ SetFile
    \/ \E d \in Date : SetKeepUntil(d)
    \/ Close
    \/ \E w \in Wallet : GetDataOwners(w) \/ DataOwnersFetched(w)
    \/ \E f \in FileId : GetSale(f)
    \/ \E w \in Wallet : SalesFetched(w) \/ FetchFails(w)
    \/ LeaveSales
    \/ \E w \in Wallet : SelectWallet(w)

LEMMA BrowsingKeeps ==
    ASSUME Browsing
    PROVE  UNCHANGED <<recorded, late, pending, error, response, requests, outcome,
                       uncertain>>
BY DEF Browsing, OpenDataOwner, OpenSale, OpenDetails, CloseDetails, SetFile,
       SetKeepUntil, Close, SelectWallet, GetDataOwners, DataOwnersFetched, GetSale,
       SalesFetched, FetchFails, LeaveSales, backend, store, history

LEMMA Settling ==
    ASSUME TypeOK, QueueInv, requests # <<>>, NEW r \in BOOLEAN,
           NEW o \in {"ok", "failed"}, Settled(r, o)
    PROVE  /\ requests' = <<>> /\ requests' \in Seq(Request)
           /\ QueueInv'
<1>1. requests' = <<>> /\ pending' = FALSE
  BY OneRequest DEF Settled
<1> QED
  BY <1>1 DEF QueueInv

LEMMA QueueStep ==
    TypeOK /\ QueueInv /\ [Next]_vars => QueueInv' /\ requests' \in Seq(Request)
<1> SUFFICES ASSUME TypeOK, QueueInv, [Next]_vars
             PROVE  QueueInv' /\ requests' \in Seq(Request)
  OBVIOUS
<1>s. requests \in Seq(Request)
  BY DEF TypeOK
<1>1. CASE Browsing \/ UNCHANGED vars
  <2>1. UNCHANGED <<pending, requests>>
    BY <1>1, BrowsingKeeps DEF vars, store
  <2> QED
    BY <1>s, <2>1 DEF QueueInv
<1>2. CASE ExtendFileStorageDuration
  BY <1>2, RequestSent DEF ExtendFileStorageDuration, QueueInv
<1>3. ASSUME NEW i \in DOMAIN requests,
             BackendExtends(i) \/ BackendFails(i) \/ ConnectionLost(i)
      PROVE  QueueInv' /\ requests' \in Seq(Request)
  <2>1. PICK s \in {"sent", "ok", "failed"} :
           requests' = [requests EXCEPT ![i].status = s]
    BY <1>3 DEF BackendExtends, BackendFails, ConnectionLost, EndsBadly
  <2>2. UNCHANGED pending
    BY <1>3 DEF BackendExtends, BackendFails, ConnectionLost, store
  <2> QED
    BY <2>1, <2>2, RequestAnswered DEF QueueInv
<1>4. CASE ExtensionSucceeded \/ ExtensionFailed
  <2>1. PICK r \in BOOLEAN, o \in {"ok", "failed"} :
           requests # <<>> /\ Settled(r, o)
    BY <1>4 DEF ExtensionSucceeded, ExtensionFailed, TypeOK
  <2> QED
    BY <2>1, Settling
<1>5. ASSUME NEW r \in late, ExtendsLate(r)
      PROVE  QueueInv' /\ requests' \in Seq(Request)
  BY <1>s, <1>5 DEF ExtendsLate, QueueInv, store
<1> QED
  BY <1>1, <1>2, <1>3, <1>4, <1>5 DEF Next, Browsing

\* Types, where the requests are those of QueueStep.
LEMMA TypeStep == TypeOK /\ QueueInv /\ [Next]_vars => TypeOK'
<1> SUFFICES ASSUME TypeOK, QueueInv, [Next]_vars PROVE TypeOK'
  OBVIOUS
<1>q. requests' \in Seq(Request)
  BY QueueStep
<1>a. MaxDate \in Nat \ {0} /\ MaxFaults \in Nat /\ WalletOf \in [FileId -> Wallet]
  BY ExtensionAssumption
<1>1. ASSUME NEW f \in FileId, OpenDataOwner(f) \/ OpenSale(f) PROVE TypeOK'
  <2>1. OpenDetails(f)
    BY <1>1 DEF OpenDataOwner, OpenSale
  <2>2. snack' \in [kind : {"none", "extended", "error"}, about : Outcome]
    BY <2>1 DEF OpenDetails, Announcement, TypeOK
  <2>3. details' \in FileId \cup {Null} /\ showSnackbar' \in BOOLEAN
    BY <2>1 DEF OpenDetails
  <2> QED
    BY <1>q, <2>1, <2>2, <2>3
    DEF OpenDetails, TypeOK, backend, rows, replies, history
<1>3. CASE CloseDetails
  BY <1>3, <1>q DEF CloseDetails, TypeOK, backend, rows, replies, store, history
<1>4. CASE SetFile
  <2>1. keepUntil' \in Date
    <3>1. PICK shown \in Date :
             keepUntil' = IF shown < MaxDate THEN shown + 1 ELSE MaxDate
      BY <1>4 DEF SetFile
    <3> QED
      BY <1>a, <3>1 DEF Date
  <2>2. file' \in FileId \cup {Null}
    BY <1>4 DEF SetFile, TypeOK
  <2> QED
    BY <1>4, <1>q, <2>1, <2>2
    DEF SetFile, TypeOK, backend, rows, replies, history
<1>5. ASSUME NEW d \in Date, SetKeepUntil(d) PROVE TypeOK'
  BY <1>5, <1>q DEF SetKeepUntil, TypeOK, backend, rows, replies, history
<1>6. CASE Close
  BY <1>6, <1>q DEF Close, TypeOK, backend, rows, replies, history
\* Steps of the lists and the sales.
<1>f. ASSUME owners' \in Dates, list' \in Dates, sales' \in Dates, page' \in Dates,
             selected' \in Wallet, faults' \in 0..MaxFaults,
             UNCHANGED <<backend, details, store, history, snack>>
      PROVE  TypeOK'
  BY <1>f, <1>q DEF TypeOK, backend, store, history
<1>d. /\ NoDates \in Dates
      /\ \A dates \in Dates, w \in Wallet : Without(dates, w) \in Dates
  BY DEF NoDates, Without, Dates
<1>7. ASSUME NEW w \in Wallet, SelectWallet(w) PROVE TypeOK'
  <2>1. sales' \in Dates
    BY <1>7, <1>d DEF SelectWallet, TypeOK
  <2>2. owners' \in Dates /\ list' \in Dates /\ page' \in Dates
    BY <1>7 DEF SelectWallet, TypeOK, replies
  <2>3. faults' \in 0..MaxFaults /\ selected' \in Wallet
    BY <1>7 DEF SelectWallet, TypeOK
  <2> QED
    BY <1>7, <1>f, <2>1, <2>2, <2>3 DEF SelectWallet
<1>8. CASE LeaveSales
  <2>1. sales' \in Dates
    BY <1>8, <1>d DEF LeaveSales
  <2>2. owners' \in Dates /\ list' \in Dates /\ page' \in Dates
    BY <1>8 DEF LeaveSales, TypeOK, replies
  <2>3. faults' \in 0..MaxFaults /\ selected' \in Wallet
    BY <1>8 DEF LeaveSales, TypeOK
  <2> QED
    BY <1>8, <1>f, <2>1, <2>2, <2>3 DEF LeaveSales
<1>9. ASSUME NEW w \in Wallet, GetDataOwners(w) PROVE TypeOK'
  <2>1. list' \in Dates
    BY <1>9 DEF GetDataOwners, TypeOK, Dates
  <2>2. owners' \in Dates /\ sales' \in Dates /\ page' \in Dates
    BY <1>9 DEF GetDataOwners, TypeOK, rows
  <2>3. faults' \in 0..MaxFaults /\ selected' \in Wallet
    BY <1>9 DEF GetDataOwners, TypeOK
  <2> QED
    BY <1>9, <1>f, <2>1, <2>2, <2>3 DEF GetDataOwners
<1>10. ASSUME NEW w \in Wallet, DataOwnersFetched(w) PROVE TypeOK'
  <2>1. owners' \in Dates
    BY <1>10 DEF DataOwnersFetched, TypeOK, Dates
  <2>2. list' \in Dates /\ sales' \in Dates /\ page' \in Dates
    BY <1>10, <1>d DEF DataOwnersFetched, TypeOK
  <2>3. faults' \in 0..MaxFaults /\ selected' \in Wallet
    BY <1>10 DEF DataOwnersFetched, TypeOK
  <2> QED
    BY <1>10, <1>f, <2>1, <2>2, <2>3 DEF DataOwnersFetched
<1>11. ASSUME NEW f \in FileId, GetSale(f) PROVE TypeOK'
  <2>1. page' \in Dates
    BY <1>11 DEF GetSale, TypeOK, Dates
  <2>2. owners' \in Dates /\ list' \in Dates /\ sales' \in Dates
    BY <1>11 DEF GetSale, TypeOK, rows
  <2>3. faults' \in 0..MaxFaults /\ selected' \in Wallet
    BY <1>11 DEF GetSale, TypeOK
  <2> QED
    BY <1>11, <1>f, <2>1, <2>2, <2>3 DEF GetSale
<1>12. ASSUME NEW w \in Wallet, SalesFetched(w) PROVE TypeOK'
  <2>1. sales' \in Dates
    BY <1>12 DEF SalesFetched, TypeOK, Dates
  <2>2. owners' \in Dates /\ list' \in Dates /\ page' \in Dates
    BY <1>12, <1>d DEF SalesFetched, TypeOK
  <2>3. faults' \in 0..MaxFaults /\ selected' \in Wallet
    BY <1>12 DEF SalesFetched, TypeOK
  <2> QED
    BY <1>12, <1>f, <2>1, <2>2, <2>3 DEF SalesFetched
<1>13. ASSUME NEW w \in Wallet, FetchFails(w) PROVE TypeOK'
  <2>1. list' \in Dates /\ page' \in Dates
    BY <1>13, <1>d DEF FetchFails, TypeOK
  <2>2. owners' \in Dates /\ sales' \in Dates /\ selected' \in Wallet
    BY <1>13 DEF FetchFails, TypeOK, rows
  <2>3. faults' \in 0..MaxFaults
    BY <1>13, <1>a DEF FetchFails, TypeOK
  <2> QED
    BY <1>13, <1>f, <2>1, <2>2, <2>3 DEF FetchFails
\* Steps of the request.
<1>14. CASE ExtendFileStorageDuration
  BY <1>14, <1>q
  DEF ExtendFileStorageDuration, TypeOK, backend, rows, replies, history
<1>15. ASSUME NEW i \in DOMAIN requests,
              BackendExtends(i) \/ BackendFails(i) \/ ConnectionLost(i)
       PROVE  TypeOK'
  <2>1. requests[i] \in Request
    BY <1>15, OneRequest, EmptySeq DEF TypeOK
  <2>2. requests[i].file \in FileId /\ requests[i].date \in Date
    BY <2>1 DEF Request
  <2>3. recorded' \in [FileId -> Date]
    BY <1>15, <2>2
    DEF BackendExtends, BackendFails, ConnectionLost, TypeOK, backend
  <2>4. uncertain' \in SUBSET FileId
    BY <1>15, <2>2
    DEF BackendExtends, BackendFails, ConnectionLost, TypeOK, history
  <2>5. faults' \in 0..MaxFaults
    BY <1>15, <1>a
    DEF BackendExtends, BackendFails, ConnectionLost, EndsBadly, TypeOK
  <2>6. late' \in SUBSET Late
    <3>1. [file |-> requests[i].file, date |-> requests[i].date, done |-> FALSE]
             \in Late
      BY <2>2 DEF Late
    <3>2. late \in SUBSET Late
      BY DEF TypeOK
    <3>3. ConnectionLost(i) => late' \in SUBSET Late
      BY <3>1, <3>2 DEF ConnectionLost
    <3>4. BackendExtends(i) \/ BackendFails(i) => late' = late
      BY DEF BackendExtends, BackendFails, backend
    <3> QED
      BY <1>15, <3>2, <3>3, <3>4
  <2> QED
    BY <1>15, <1>q, <2>3, <2>4, <2>5, <2>6
    DEF BackendExtends, BackendFails, ConnectionLost, TypeOK, rows, replies, store,
        history
<1>16. ASSUME NEW r \in late, ExtendsLate(r) PROVE TypeOK'
  <2>1. r \in Late /\ r.file \in FileId /\ r.date \in Date
    BY DEF TypeOK, Late
  <2>2. recorded' \in [FileId -> Date]
    BY <1>16, <2>1 DEF ExtendsLate, TypeOK
  <2>3. [r EXCEPT !.done = TRUE] \in Late
    BY <2>1 DEF Late
  <2>4. late' \in SUBSET Late
    BY <1>16, <2>3 DEF ExtendsLate, TypeOK
  <2> QED
    BY <1>16, <1>q, <2>2, <2>4
    DEF ExtendsLate, TypeOK, rows, replies, store, history
<1>s. ASSUME NEW r \in BOOLEAN, NEW o \in {"ok", "failed"}, Settled(r, o)
      PROVE  /\ pending' \in BOOLEAN /\ outcome' \in Outcome
             /\ showSnackbar' \in BOOLEAN
             /\ snack' \in [kind : {"none", "extended", "error"}, about : Outcome]
  BY <1>s DEF Settled, Announcement, TypeOK, Outcome
<1>17. CASE ExtensionSucceeded
  <2>1. Head(requests).file \in FileId
    BY <1>17, OneRequest DEF ExtensionSucceeded, Request
  <2>2. uncertain' \in SUBSET FileId
    <3>1. uncertain' = Doubted(Head(requests))
      BY <1>17 DEF ExtensionSucceeded
    <3> QED
      BY <2>1, <3>1 DEF Doubted, TypeOK
  <2>3. /\ owners' \in Dates /\ sales' \in Dates
        /\ file' \in FileId \cup {Null} /\ error' \in BOOLEAN
    <3>1. CASE UNCHANGED <<rows, file>> /\ error' = TRUE
      BY <3>1 DEF TypeOK, rows
    <3>2. CASE UpdateRows(file, keepUntil) /\ file' = Null /\ UNCHANGED error
      <4>1. owners \in Dates /\ sales \in Dates /\ keepUntil \in Date
        BY DEF TypeOK
      <4>2. owners' \in Dates
        BY <3>2, <4>1 DEF UpdateRows, Dates
      <4>3. sales' \in Dates
        BY <3>2, <4>1 DEF UpdateRows, Dates
      <4> QED
        BY <3>2, <4>2, <4>3 DEF TypeOK
    <3> QED
      BY <1>17, <3>1, <3>2 DEF ExtensionSucceeded, RowsUpdated
  <2>4. /\ Settled(TRUE, "ok") /\ response' = TRUE
        /\ UNCHANGED <<backend, replies, selected, details, keepUntil, faults>>
    BY <1>17 DEF ExtensionSucceeded
  <2> QED
    BY <1>q, <1>s, <2>2, <2>3, <2>4 DEF TypeOK, backend, replies
<1>18. CASE ExtensionFailed
  <2>1. Head(requests).file \in FileId
    BY <1>18, OneRequest DEF ExtensionFailed, Request
  <2>2. response \in BOOLEAN /\ Settled(response, "failed")
    BY <1>18 DEF ExtensionFailed, TypeOK
  <2> QED
    BY <1>18, <1>q, <1>s, <2>1, <2>2
    DEF ExtensionFailed, TypeOK, backend, rows, replies
<1>19. CASE UNCHANGED vars
  BY <1>19, <1>q DEF vars, TypeOK, backend, rows, replies, store, history
<1> QED
  BY <1>1, <1>3, <1>4, <1>5, <1>6, <1>7, <1>8, <1>9, <1>10, <1>11, <1>12, <1>13,
     <1>14, <1>15, <1>16, <1>17, <1>18, <1>19 DEF Next

\* Whatever is announced as an error is the outcome of a request that failed.
LEMMA SnackStep ==
    TypeOK /\ QueueInv /\ SnackInv /\ [Next]_vars => SnackInv'
<1> SUFFICES ASSUME TypeOK, SnackInv, [Next]_vars PROVE SnackInv'
  OBVIOUS
<1>o. outcome \in {"none", "ok", "failed"}
  BY DEF TypeOK, Outcome
<1>u. ASSUME UNCHANGED <<showSnackbar, outcome, response, snack>> PROVE SnackInv'
  BY <1>u DEF SnackInv, SuccessIsNotDenied
<1>1. ASSUME NEW f \in FileId, OpenDataOwner(f) \/ OpenSale(f) PROVE SnackInv'
  <2>1. OpenDetails(f)
    BY <1>1 DEF OpenDataOwner, OpenSale
  <2> QED
    BY <1>o, <2>1
    DEF OpenDetails, Announcement, SnackInv, SuccessIsNotDenied, history
<1>2. CASE ExtensionSucceeded
  BY <1>2
  DEF ExtensionSucceeded, Settled, Announcement, SnackInv, SuccessIsNotDenied
<1>3. CASE ExtensionFailed
  BY <1>3
  DEF ExtensionFailed, Settled, Announcement, SnackInv, SuccessIsNotDenied
<1> QED
  BY <1>u, <1>1, <1>2, <1>3
  DEF Next, CloseDetails, SetFile, SetKeepUntil, Close, SelectWallet, GetDataOwners,
      DataOwnersFetched, GetSale, SalesFetched, FetchFails, LeaveSales,
      ExtendFileStorageDuration, BackendExtends, BackendFails, ConnectionLost,
      ExtendsLate, vars, store, history

-----------------------------------------------------------------------------
(* Rows                                                                    *)

LEMMA NothingAnswered ==
    ASSUME requests = <<>>, NEW f, NEW S PROVE ~Answered(f, S)
<1>1. DOMAIN requests = {}
  BY EmptySeq
<1> QED
  BY <1>1 DEF Answered

\* A step that keeps records and requests, and gives the rows, the list and the
\* page of f nothing but what they had, keeps RowInv.
LEMMA RowKept ==
    ASSUME NEW f, RowInv(f), UNCHANGED <<recorded, requests>>,
           owners'[f] \in {owners[f], list[f], Null},
           sales'[f] \in {sales[f], page[f], Null},
           list'[f] \in {list[f], recorded[f], Null},
           page'[f] \in {page[f], recorded[f], Null}
    PROVE  RowInv(f)'
<1>1. \A S : Answered(f, S)' <=> Answered(f, S)
  BY DEF Answered
<1>2. Answered(f, {"failed"}) => Answered(f, {"ok", "failed"})
  BY DEF Answered
<1>3. CASE Answered(f, {"failed"})
  BY <1>1, <1>2, <1>3 DEF RowInv
<1>4. CASE ~Answered(f, {"failed"})
  <2>1. {list[f], page[f]} \subseteq {recorded[f], Null}
    BY <1>4 DEF RowInv
  <2>2. {list'[f], page'[f]} \subseteq {recorded'[f], Null}
    BY <2>1
  <2>3. CASE Answered(f, {"ok", "failed"})
    BY <1>1, <2>2, <2>3 DEF RowInv
  <2>4. CASE {owners[f], sales[f]} \subseteq {recorded[f], Null}
    <3>1. {owners'[f], sales'[f]} \subseteq {recorded'[f], Null}
      BY <2>1, <2>4
    <3> QED
      BY <2>2, <3>1 DEF RowInv
  <2> QED
    BY <2>3, <2>4 DEF RowInv
<1> QED
  BY <1>3, <1>4

\* Browsing does not disturb a file that is not in doubt: lists and pages give its
\* rows the recorded date.
LEMMA RowsBrowsing ==
    ASSUME TypeOK, RowsInv, Browsing
    PROVE  RowsInv'
<1>k. UNCHANGED <<recorded, late, requests, uncertain>>
  BY BrowsingKeeps
<1>t. /\ owners \in Dates /\ list \in Dates /\ sales \in Dates /\ page \in Dates
      /\ recorded \in [FileId -> Date]
  BY DEF TypeOK
<1>1. ASSUME NEW f \in FileId
      PROVE  /\ owners'[f] \in {owners[f], list[f], Null}
             /\ sales'[f] \in {sales[f], page[f], Null}
             /\ list'[f] \in {list[f], recorded[f], Null}
             /\ page'[f] \in {page[f], recorded[f], Null}
  <2>1. CASE UNCHANGED <<rows, replies>>
    BY <2>1 DEF rows, replies
  <2>2. ASSUME NEW w \in Wallet, GetDataOwners(w) \/ DataOwnersFetched(w)
        PROVE  /\ owners'[f] \in {owners[f], list[f], Null}
               /\ sales'[f] \in {sales[f], page[f], Null}
               /\ list'[f] \in {list[f], recorded[f], Null}
               /\ page'[f] \in {page[f], recorded[f], Null}
    BY <2>2 DEF GetDataOwners, DataOwnersFetched, Without, rows
  <2>3. ASSUME NEW g \in FileId, GetSale(g) PROVE page'[f] \in {page[f], recorded[f], Null}
    BY <1>t, <2>3 DEF GetSale, Dates
  <2>4. ASSUME NEW w \in Wallet, SalesFetched(w) \/ FetchFails(w)
        PROVE  /\ owners'[f] \in {owners[f], list[f], Null}
               /\ sales'[f] \in {sales[f], page[f], Null}
               /\ list'[f] \in {list[f], recorded[f], Null}
               /\ page'[f] \in {page[f], recorded[f], Null}
    BY <2>4 DEF SalesFetched, FetchFails, Without, rows
  <2>5. CASE LeaveSales \/ \E w \in Wallet : SelectWallet(w)
    BY <2>5 DEF LeaveSales, SelectWallet, NoDates, replies
  <2>6. ASSUME NEW g \in FileId, GetSale(g) PROVE UNCHANGED <<owners, sales, list>>
    BY <2>6 DEF GetSale, rows
  <2> QED
    BY <2>1, <2>2, <2>3, <2>4, <2>5, <2>6
    DEF Browsing, OpenDataOwner, OpenSale, OpenDetails, CloseDetails, SetFile,
        SetKeepUntil, Close
<1>2. ASSUME NEW f \in FileId \ uncertain PROVE RowInv(f)'
  BY <1>k, <1>1, <1>2, RowKept DEF RowsInv
<1>3. \A f \in FileId \ uncertain' : RowInv(f)'
  BY <1>k, <1>2
<1>4. RecordedInv' /\ Unanswered' \subseteq uncertain'
  BY <1>k DEF RowsInv, RecordedInv, Unanswered
<1> QED
  BY <1>3, <1>4 DEF RowsInv

\* With one request, Answered speaks of it.
LEMMA AnsweredIsFirst ==
    ASSUME DOMAIN requests = {1}, NEW f, NEW S
    PROVE  Answered(f, S) <=> requests[1].file = f /\ requests[1].status \in S
BY DEF Answered

LEMMA AnsweredIsFirstNext ==
    ASSUME DOMAIN requests' = {1}, NEW f, NEW S
    PROVE  Answered(f, S)' <=> requests'[1].file = f /\ requests'[1].status \in S
BY DEF Answered

\* A PATCH changes the record of its file only, and doubts a list or a page that
\* overtook it, and the file if there is no answer.
LEMMA RowsPatched ==
    ASSUME TypeOK, QueueInv, RowsInv, NEW i \in DOMAIN requests,
           BackendExtends(i) \/ BackendFails(i) \/ ConnectionLost(i)
    PROVE  RowsInv'
<1> DEFINE g == requests[1].file
<1>1. PICK s \in {"ok", "failed"} :
         /\ requests' = [requests EXCEPT ![i].status = s]
         /\ s = "ok" => BackendExtends(i)
         /\ s = "failed" => recorded' = recorded
  BY DEF BackendExtends, BackendFails, ConnectionLost, EndsBadly, backend
<1>2. /\ i = 1 /\ requests # <<>> /\ DOMAIN requests' = {1}
      /\ requests'[1].file = g
      /\ requests'[1].date = requests[1].date
      /\ requests'[1].status = s
  <2>1. s \in {"sent", "ok", "failed"}
    OBVIOUS
  <2> QED
    BY <1>1, <2>1, RequestAnswered
<1>3. DOMAIN requests = {1} /\ requests[1] \in Request
  BY <1>2, OneRequest
<1>4. g \in FileId /\ requests[1].status = "sent"
  BY <1>2, <1>3 DEF Request, BackendExtends, BackendFails, ConnectionLost, EndsBadly
<1>5. /\ recorded' \in {recorded, [recorded EXCEPT ![g] = requests[1].date]}
      /\ UNCHANGED <<owners, sales, list, page>>
      /\ uncertain \subseteq uncertain'
  BY <1>1, <1>2
  DEF BackendExtends, BackendFails, ConnectionLost, rows, replies, history
<1>6. RecordedInv'
  <2>1. s = "ok" => recorded'[g] = requests[1].date
    BY <1>1, <1>2, <1>4 DEF BackendExtends, TypeOK
  <2> QED
    BY <1>2, <2>1 DEF RecordedInv
<1>7. Unanswered' \subseteq uncertain'
  <2>0. Unanswered \subseteq uncertain
    BY DEF RowsInv
  <2>1. CASE late' = late
    BY <1>5, <2>0, <2>1 DEF Unanswered
  <2>2. CASE ConnectionLost(i)
    <3>1. \A r \in late' : r \in late \/ r.file = g
      BY <1>2, <2>2 DEF ConnectionLost
    <3>2. g \in uncertain'
      BY <1>2, <2>2 DEF ConnectionLost
    <3> QED
      BY <1>5, <2>0, <3>1, <3>2 DEF Unanswered
  <2> QED
    BY <2>1, <2>2 DEF BackendExtends, BackendFails, backend
<1>8. ASSUME NEW f \in FileId \ uncertain' PROVE RowInv(f)'
  <2>1. CASE f # g
    <3>1. \A S : ~Answered(f, S)
      BY <1>3, <2>1, AnsweredIsFirst
    <3>2. recorded'[f] = recorded[f]
      BY <1>5, <2>1 DEF TypeOK
    <3>3. RowInv(f)
      BY <1>5, <1>8 DEF RowsInv
    <3> QED
      BY <1>5, <3>1, <3>2, <3>3 DEF RowInv
  <2>2. CASE f = g /\ s = "failed"
    <3>1. Answered(f, {"failed"})' /\ Answered(f, {"ok", "failed"})'
      BY <1>2, <2>2, AnsweredIsFirstNext
    <3> QED
      BY <3>1 DEF RowInv
  <2>3. CASE f = g /\ s = "ok"
    <3>1. Answered(f, {"ok", "failed"})'
      BY <1>2, <2>3, AnsweredIsFirstNext
    <3>2. ~Overtaken(f)
      BY <1>1, <1>2, <1>8, <2>3 DEF BackendExtends
    <3>3. list'[f] = Null /\ page'[f] = Null
      BY <1>5, <3>2 DEF Overtaken
    <3> QED
      BY <3>1, <3>3 DEF RowInv
  <2> QED
    BY <2>1, <2>2, <2>3
<1> QED
  BY <1>6, <1>7, <1>8 DEF RowsInv

\* A request without an answer changes the record of a file that is in doubt.
LEMMA RowsLate ==
    ASSUME TypeOK, RowsInv, NEW r \in late, ExtendsLate(r)
    PROVE  RowsInv'
<1>1. r.file \in Unanswered /\ Unanswered' = Unanswered
  <2> DEFINE d == [r EXCEPT !.done = TRUE]
  <2>1. d.file = r.file
    BY DEF TypeOK, Late
  <2> HIDE DEF d
  <2>2. late' = (late \ {r}) \cup {d}
    BY DEF ExtendsLate, d
  <2> QED
    BY <2>1, <2>2 DEF Unanswered
<1>2. /\ UNCHANGED <<owners, sales, list, page, requests, uncertain>>
      /\ recorded' = [recorded EXCEPT ![r.file] = r.date]
  BY DEF ExtendsLate, rows, replies, history
<1>3. \A f \in FileId \ Unanswered : recorded'[f] = recorded[f]
  BY <1>1, <1>2 DEF TypeOK
<1>4. RecordedInv'
  <2>1. \A i \in DOMAIN requests : requests[i].file \in FileId
    <3>1. requests \in Seq(Request) /\ DOMAIN requests = 1..Len(requests)
      BY LenProperties DEF TypeOK
    <3>2. \A i \in DOMAIN requests : requests[i] \in Request
      BY <3>1, ElementOfSeq
    <3> QED
      BY <3>2 DEF Request
  <2> QED
    BY <1>1, <1>2, <1>3, <2>1 DEF RowsInv, RecordedInv
<1>5. ASSUME NEW f \in FileId \ uncertain PROVE RowInv(f)'
  <2>1. f \in FileId \ Unanswered /\ RowInv(f)
    BY <1>5 DEF RowsInv
  <2> QED
    BY <1>2, <1>3, <2>1 DEF RowInv, Answered
<1> QED
  BY <1>1, <1>2, <1>4, <1>5 DEF RowsInv

\* A reply that meets its dialog gives the rows the recorded date; any other one
\* brings the files it touches in doubt.
LEMMA RowsReplied ==
    ASSUME TypeOK, QueueInv, RowsInv, ExtensionSucceeded \/ ExtensionFailed
    PROVE  RowsInv'
<1> DEFINE r == requests[1]
<1>1. /\ requests # <<>> /\ DOMAIN requests = {1} /\ r \in Request
      /\ Head(requests) = r /\ requests' = <<>>
  BY OneRequest DEF ExtensionSucceeded, ExtensionFailed, Settled
<1>2. UNCHANGED <<recorded, late, list, page, selected, keepUntil>>
  BY DEF ExtensionSucceeded, ExtensionFailed, backend, replies
<1>3. DOMAIN requests' = {}
  BY <1>1, EmptySeq
<1>5. /\ \A f \in FileId \ uncertain : RowInv(f)
      /\ RecordedInv /\ Unanswered \subseteq uncertain
  BY DEF RowsInv
\* Another file keeps its rows.
<1>o. ASSUME NEW f \in FileId \ uncertain, f # r.file,
             owners'[f] = owners[f], sales'[f] = sales[f]
      PROVE  RowInv(f)'
  <2>1. \A S : ~Answered(f, S)
    BY <1>1, <1>o, AnsweredIsFirst
  <2> QED
    BY <1>2, <1>5, <1>o, <2>1 DEF RowInv
<1>6. ASSUME NEW f \in FileId \ uncertain' PROVE RowInv(f)'
  <2>1. CASE ExtensionFailed
    <3>1. uncertain' = uncertain \cup {r.file} /\ UNCHANGED <<owners, sales>>
      BY <1>1, <2>1 DEF ExtensionFailed, rows
    <3> QED
      BY <1>6, <1>o, <3>1
  <2>2. CASE ExtensionSucceeded /\ (~MeetsItsDialog(r) \/ ListMissing)
    <3>1. f \in FileId \ uncertain /\ f # r.file /\ f # file
      BY <1>1, <1>6, <2>2, ExtensionAssumption DEF ExtensionSucceeded, Doubted
    <3>2. owners'[f] = owners[f] /\ sales'[f] = sales[f]
      BY <2>2, <3>1
      DEF ExtensionSucceeded, RowsUpdated, UpdateRows, TypeOK, rows, Dates
    <3> QED
      BY <1>o, <3>1, <3>2
  <2>3. CASE ExtensionSucceeded /\ MeetsItsDialog(r) /\ ~ListMissing
    <3>1. /\ file = r.file /\ keepUntil = r.date /\ WalletOf[file] = selected
          /\ file \in FileId /\ file # Null
      BY <1>1, <2>3, ExtensionAssumption DEF MeetsItsDialog, Request
    <3>2. UpdateRows(file, keepUntil)
      BY <2>3, <3>1 DEF ExtensionSucceeded, RowsUpdated
    <3>a. /\ \A x \in FileId : owners'[x] = IF x = file THEN keepUntil ELSE owners[x]
          /\ \A x \in FileId : sales'[x] = IF x # file THEN sales[x]
                                           ELSE IF sales[x] = Null THEN Null
                                           ELSE keepUntil
      BY <3>1, <3>2 DEF UpdateRows, TypeOK, Dates
    <3>3. uncertain' = uncertain \ {x \in {r.file} \ Unanswered : ~Overtaken(x)}
      BY <1>1, <2>3 DEF ExtensionSucceeded, Doubted
    <3>4. CASE f # r.file
      BY <1>6, <1>o, <3>1, <3>a, <3>3, <3>4
    <3>5. CASE f = r.file
      <4>1. r.status = "ok"
        BY <1>1, <2>3 DEF ExtensionSucceeded
      <4>2. f \notin Unanswered
        BY <1>5, <1>6, <3>3
      <4>3. recorded[f] = keepUntil
        BY <1>1, <1>5, <3>1, <3>5, <4>1, <4>2 DEF RecordedInv
      <4>4. {owners'[f], sales'[f]} \subseteq {recorded'[f], Null}
        BY <1>2, <3>1, <3>a, <3>5, <4>3
      <4>5. ASSUME Overtaken(f) PROVE {list[f], page[f]} \subseteq {recorded[f], Null}
        <5>1. f \notin uncertain
          BY <1>6, <3>3, <4>5
        <5>2. ~Answered(f, {"failed"})
          BY <1>1, <4>1, AnsweredIsFirst
        <5> QED
          BY <1>5, <5>1, <5>2 DEF RowInv
      <4>6. {list'[f], page'[f]} \subseteq {recorded'[f], Null}
        BY <1>2, <4>5 DEF Overtaken
      <4> QED
        BY <4>4, <4>6 DEF RowInv
    <3> QED
      BY <3>4, <3>5
  <2> QED
    BY <2>1, <2>2, <2>3
<1>7. Unanswered' \subseteq uncertain'
  <2>1. Unanswered' = Unanswered
    BY <1>2 DEF Unanswered
  <2>2. CASE ExtensionFailed
    BY <1>5, <2>1, <2>2 DEF ExtensionFailed
  <2>3. CASE ExtensionSucceeded
    BY <1>5, <2>1, <2>3 DEF ExtensionSucceeded, Doubted
  <2> QED
    BY <2>2, <2>3
<1>8. RecordedInv'
  BY <1>3 DEF RecordedInv
<1> QED
  BY <1>6, <1>7, <1>8 DEF RowsInv

LEMMA RowsStep == TypeOK /\ QueueInv /\ RowsInv /\ [Next]_vars => RowsInv'
<1> SUFFICES ASSUME TypeOK, QueueInv, RowsInv, [Next]_vars PROVE RowsInv'
  OBVIOUS
<1>1. CASE Browsing
  BY <1>1, RowsBrowsing
<1>2. CASE ExtendFileStorageDuration
  <2>1. UNCHANGED <<recorded, late, owners, sales, list, page, uncertain>>
    BY <1>2 DEF ExtendFileStorageDuration, backend, rows, replies, history
  <2>2. /\ requests = <<>> /\ DOMAIN requests' = {1}
        /\ requests'[1].status = "sent"
    BY <1>2, RequestSent
  <2>3. \A f, S : ~Answered(f, S)
    BY <2>2, NothingAnswered
  <2>4. RecordedInv' /\ Unanswered' \subseteq uncertain'
    BY <2>1, <2>2 DEF RowsInv, RecordedInv, Unanswered
  <2>5. ASSUME NEW f \in FileId \ uncertain' PROVE RowInv(f)'
    BY <2>1, <2>3, <2>5 DEF RowsInv, RowInv
  <2> QED
    BY <2>4, <2>5 DEF RowsInv
<1>3. ASSUME NEW i \in DOMAIN requests,
             BackendExtends(i) \/ BackendFails(i) \/ ConnectionLost(i)
      PROVE  RowsInv'
  BY <1>3, RowsPatched
<1>4. CASE ExtensionSucceeded \/ ExtensionFailed
  BY <1>4, RowsReplied
<1>5. ASSUME NEW r \in late, ExtendsLate(r) PROVE RowsInv'
  BY <1>5, RowsLate
<1>6. CASE UNCHANGED vars
  BY <1>6
  DEF vars, backend, rows, replies, history, RowsInv, RowInv, RecordedInv, Unanswered,
      Answered
<1> QED
  BY <1>1, <1>2, <1>3, <1>4, <1>5, <1>6 DEF Next, Browsing

-----------------------------------------------------------------------------
(* The theorems                                                            *)

\* The invariant of the extension, for all files, wallets, dates and failures.
THEOREM ExtensionInvariant == Spec => []IInv
<1>1. Init => IInv
  <2> SUFFICES ASSUME Init PROVE IInv
    OBVIOUS
  <2>1. DOMAIN requests = {} /\ Len(requests) = 0 /\ requests \in Seq(Request)
    BY EmptySeq DEF Init
  <2>2. 1 \in Date /\ 0 \in 0..MaxFaults
    BY ExtensionAssumption DEF Date
  <2>3. NoDates \in Dates
    BY DEF NoDates, Dates
  <2>4. TypeOK
    BY <2>1, <2>2, <2>3 DEF Init, TypeOK, Outcome
  <2>5. QueueInv
    BY <2>1 DEF Init, QueueInv
  <2>6. SnackInv
    BY DEF Init, SnackInv, SuccessIsNotDenied
  <2>7. \A f \in FileId : RowInv(f)
    BY DEF Init, RowInv, NoDates
  <2>8. RowsInv
    BY <2>1, <2>7 DEF Init, RowsInv, RecordedInv, Unanswered
  <2> QED
    BY <2>4, <2>5, <2>6, <2>8 DEF IInv
<1>2. IInv /\ [Next]_vars => IInv'
  BY TypeStep, QueueStep, SnackStep, RowsStep DEF IInv
<1> QED
  BY <1>1, <1>2, PTL DEF Spec

\* The store never waits for two extensions.
THEOREM ExtensionsDoNotRace == Spec => []OneExtensionAtATime
<1>1. ASSUME IInv PROVE OneExtensionAtATime
  <2>1. Len(requests) = 0 \/ Len(requests) = 1
    BY <1>1 DEF IInv, QueueInv
  <2>2. CASE Len(requests) = 0
    BY <2>2 DEF OneExtensionAtATime
  <2>3. CASE Len(requests) = 1
    BY <2>3 DEF OneExtensionAtATime
  <2> QED
    BY <2>1, <2>2, <2>3
<1> QED
  BY <1>1, ExtensionInvariant, PTL

\* No dialog ever announces an extension that succeeded as a failure.
THEOREM SuccessesAreNotDenied == Spec => []SuccessIsNotDenied
<1>1. IInv => SuccessIsNotDenied
  BY DEF IInv, SnackInv
<1> QED
  BY <1>1, ExtensionInvariant, PTL

\* Rows that no failure, closed dialog or older reply has brought in doubt show the
\* date the backend has recorded, also those that were fetched meanwhile.
THEOREM RowsShowRecordedDate == Spec => []ListsShowRecordedDate
<1>1. ASSUME IInv, NEW f \in FileId \ uncertain,
             \A i \in DOMAIN requests : requests[i].file # f
      PROVE  {owners[f], sales[f]} \subseteq {recorded[f], Null}
  <2>1. \A S : ~Answered(f, S)
    BY <1>1 DEF Answered
  <2> QED
    BY <1>1, <2>1 DEF IInv, RowsInv, RowInv
<1>2. IInv => ListsShowRecordedDate
  BY <1>1 DEF ListsShowRecordedDate
<1> QED
  BY <1>2, ExtensionInvariant, PTL
=============================================================================

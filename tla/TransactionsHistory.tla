------------------------- MODULE TransactionsHistory -------------------------
(***************************************************************************)
(* The transactions history: TransactionsStore of the front end and the    *)
(* pages that show it, with TransactionsService of the backend.            *)
(*                                                                         *)
(* Pages of the history of the selected account are requested one by one,  *)
(* when a page of the application is entered, when the selected account    *)
(* changes and when the user presses "Load more".  Several requests may be *)
(* in flight; their replies are applied in any order to the store as it is *)
(* then.  The backend asks a service node for the page, looks up the data  *)
(* owner of each transaction and keeps those it knows.  Meanwhile new      *)
(* transactions move the pages and the backend comes to know data owners.  *)
(*                                                                         *)
(* The store is the set of the hashes it shows (uniqBy); their order on    *)
(* the screen is left out.                                                 *)
(*                                                                         *)
(* mobx-router runs beforeEnter of the new route before onExit of the old. *)
(***************************************************************************)
EXTENDS Integers, FiniteSets

CONSTANTS
    Account,          \* accounts of the data validator
    NumTransactions,  \* transactions, numbered as the service node lists them
    AccountOf,        \* the account of each transaction
    Purchases,        \* the transactions of type DATA_PURCHASE
    DataOwner,        \* data owners
    OwnerOf,          \* the data owner of each transaction
    LocalOwners,      \* data owners whose files this backend uploads
    InitialOwners,    \* those it has recorded at the start
    InitialLedger,    \* the transactions made before the start
    PageSize,         \* PAGE_SIZE
    MaxInFlight,      \* bound: requests in flight
    MaxFaults,        \* bound: failed calls
    Null

Transaction == 1..NumTransactions

ASSUME HistoryAssumption ==
    /\ NumTransactions \in Nat
    /\ AccountOf \in [Transaction -> Account]
    /\ Purchases \subseteq Transaction
    /\ OwnerOf \in [Transaction -> DataOwner]
    /\ LocalOwners \subseteq DataOwner
    /\ InitialOwners \subseteq LocalOwners
    /\ InitialLedger \subseteq Transaction
    /\ PageSize \in Nat \ {0}
    /\ MaxInFlight \in Nat
    /\ MaxFaults \in Nat

VARIABLES
    view,                     \* the page of the application
    selectedAccount,          \* SettingsStore.selectedDataValidatorAccount
    transactions, page, pending, transactionType, refreshOnAccountChange,
    requests,                 \* GET transactions requests in flight
    ledger,                   \* the transactions made so far
    known,                    \* data owners the backend has recorded
    recent,                   \* history: transactions made since the history
                              \* of the account was begun
    mixed,                    \* history: the store has the reply to a request
                              \* that was not meant for what it shows now
    unanswered,               \* history: a request will never be answered
    faults

store == <<transactions, page, pending, transactionType, refreshOnAccountChange>>
backend == <<ledger, known>>
vars == <<view, selectedAccount, store, requests, backend, recent, mixed, unanswered,
          faults>>

View == {"home", "wallets", "sales"}
HistoryView == {"wallets", "sales"}
Type == {"any", "purchase"}
Slot == 1..MaxInFlight

\* A request, with the page the service node gave, the transactions of it that
\* are still to be looked up and those that are kept.  It is stale when the store
\* was reset since it was sent.
Request == [account : Account, type : Type, page : Nat, status : {"sent", "read"},
            found : SUBSET Transaction, rest : SUBSET Transaction,
            data : SUBSET Transaction, stale : BOOLEAN]

TypeOK ==
    /\ view \in View
    /\ selectedAccount \in Account
    /\ transactions \subseteq Transaction
    /\ page \in Nat
    /\ pending \in BOOLEAN
    /\ transactionType \in Type
    /\ refreshOnAccountChange \in BOOLEAN
    /\ requests \in [Slot -> Request \cup {Null}]
    /\ ledger \subseteq Transaction
    /\ known \subseteq LocalOwners
    /\ recent \subseteq Transaction
    /\ mixed \in BOOLEAN
    /\ unanswered \in BOOLEAN
    /\ faults \in 0..MaxFaults

Init ==
    /\ view = "home"
    /\ selectedAccount \in Account
    /\ transactions = {}
    /\ page = 0
    /\ pending = FALSE
    /\ transactionType = "any"
    /\ refreshOnAccountChange = FALSE
    /\ requests = [s \in Slot |-> Null]
    /\ ledger = InitialLedger
    /\ known = InitialOwners
    /\ recent = {}
    /\ mixed = FALSE
    /\ unanswered = FALSE
    /\ faults = 0

Fault ==
    /\ faults < MaxFaults
    /\ faults' = faults + 1

InFlight == {s \in Slot : requests[s] # Null}

-----------------------------------------------------------------------------
(* The backend and the service node                                        *)

\* A transaction is made; it may come anywhere in the list.
Arrive(t) ==
    /\ t \notin ledger
    /\ ledger' = ledger \cup {t}
    /\ recent' = recent \cup {t}
    /\ UNCHANGED <<view, selectedAccount, store, requests, known, mixed, unanswered,
                   faults>>

\* The save job of an upload records the data owner.
RecordOwner(o) ==
    /\ o \in LocalOwners \ known
    /\ known' = known \cup {o}
    /\ UNCHANGED <<view, selectedAccount, store, requests, ledger, recent, mixed,
                   unanswered, faults>>

\* The history of an account at the service node.
History(account, type) ==
    {t \in ledger : /\ AccountOf[t] = account
                    /\ type = "purchase" => t \in Purchases}

\* How many of a list come up to one of its elements.
Rank(list, t) == Cardinality({u \in list : u <= t})

PageOf(list, p) ==
    {t \in list : /\ p * PageSize < Rank(list, t)
                  /\ Rank(list, t) <= (p + 1) * PageSize}

\* existsByAddress: documents of data owners are only ever added.
Known(t) == OwnerOf[t] \in known

\* The service node answers the backend.
ReadPage(s) ==
    LET r == requests[s]
        found == PageOf(History(r.account, r.type), r.page)
    IN  /\ s \in InFlight /\ r.status = "sent"
        /\ requests' = [requests EXCEPT ![s] =
                          [r EXCEPT !.status = "read", !.found = found, !.rest = found]]
        /\ UNCHANGED <<view, selectedAccount, store, backend, recent, mixed, unanswered,
                       faults>>

\* mapTransactionsAndDataOwners drops a transaction without a local data owner.
MapTransaction(s) ==
    LET r == requests[s] IN
    /\ s \in InFlight
    /\ \E t \in r.rest :
          /\ \A u \in r.rest : t <= u
          /\ requests' = [requests EXCEPT ![s] =
                            [r EXCEPT !.rest = r.rest \ {t},
                                      !.data = IF Known(t) THEN r.data \cup {t}
                                               ELSE r.data]]
    /\ UNCHANGED <<view, selectedAccount, store, backend, recent, mixed, unanswered,
                   faults>>

\* The call of the service node fails inside `new Promise(async resolve ...)`:
\* the promise is never settled and the request never answered.
ServiceNodeFails(s) ==
    /\ s \in InFlight /\ requests[s].status = "sent"
    /\ Fault
    /\ requests' = [requests EXCEPT ![s] = Null]
    /\ unanswered' = TRUE
    /\ UNCHANGED <<view, selectedAccount, store, backend, recent, mixed>>

-----------------------------------------------------------------------------
(* TransactionsStore                                                       *)

TypeShown(v) == IF v = "sales" THEN "purchase" ELSE "any"

\* The requests rs, seen after a reset of the store.
Stale(rs) ==
    [s \in Slot |-> IF rs[s] = Null THEN Null ELSE [rs[s] EXCEPT !.stale = TRUE]]

NewRequest(account, type, p) ==
    [account |-> account, type |-> type, page |-> p, status |-> "sent",
     found |-> {}, rest |-> {}, data |-> {}, stale |-> FALSE]

\* The requests rs with a new one: fetchTransactions with the given fields of the
\* store.
WithRequest(rs, account, type, p) ==
    [rs EXCEPT ![CHOOSE s \in Slot : rs[s] = Null] = NewRequest(account, type, p)]

CanFetch == InFlight # Slot

\* The request is the one for the next page of what the store shows.
Expected(r) ==
    /\ ~r.stale
    /\ r.type = TypeShown(view)
    /\ r.page = page

\* Mutant: any page that is not empty is turned.
FetchSucceeds_AnyPage(s) ==
    LET r == requests[s] IN
    /\ s \in InFlight /\ r.status = "read" /\ r.rest = {}
    /\ requests' = [requests EXCEPT ![s] = Null]
    /\ transactions' = transactions \cup r.data
    /\ page' = IF r.data # {} THEN page + 1 ELSE page
    /\ pending' = FALSE
    /\ mixed' = (mixed \/ ~Expected(r))
    /\ UNCHANGED <<view, selectedAccount, transactionType, refreshOnAccountChange,
                   backend, recent, unanswered, faults>>

\* What is not shown yet is added; a full page is turned.
FetchSucceeds(s) ==
    LET r == requests[s] IN
    /\ s \in InFlight /\ r.status = "read" /\ r.rest = {}
    /\ requests' = [requests EXCEPT ![s] = Null]
    /\ transactions' = transactions \cup r.data
    /\ page' = IF Cardinality(r.data) = PageSize THEN page + 1 ELSE page
    /\ pending' = FALSE
    /\ mixed' = (mixed \/ ~Expected(r))
    /\ UNCHANGED <<view, selectedAccount, transactionType, refreshOnAccountChange,
                   backend, recent, unanswered, faults>>

\* Mutant: only a reply with transactions ends the wait.
FetchFails_Pending(s) ==
    /\ s \in InFlight
    /\ Fault
    /\ requests' = [requests EXCEPT ![s] = Null]
    /\ UNCHANGED <<view, selectedAccount, store, backend, recent, mixed, unanswered>>

\* The connection is lost, or the backend answers with an error.
FetchFails(s) ==
    /\ s \in InFlight
    /\ Fault
    /\ requests' = [requests EXCEPT ![s] = Null]
    /\ pending' = FALSE
    /\ UNCHANGED <<view, selectedAccount, transactions, page, transactionType,
                   refreshOnAccountChange, backend, recent, mixed, unanswered>>

\* Mutant: the transactions stay in the store.
Reset_KeepsTransactions ==
    /\ UNCHANGED transactions
    /\ page' = 0
    /\ transactionType' = "any"
    /\ refreshOnAccountChange' = FALSE

\* reset, and setRefreshOnAccountChange(false), which follows it.
Reset ==
    /\ transactions' = {}
    /\ page' = 0
    /\ transactionType' = "any"
    /\ refreshOnAccountChange' = FALSE

-----------------------------------------------------------------------------
(* The user                                                                *)

LoadMore ==
    /\ view \in HistoryView
    /\ ~pending
    /\ CanFetch
    /\ requests' = WithRequest(requests, selectedAccount, transactionType, page)
    /\ pending' = TRUE
    /\ UNCHANGED <<view, selectedAccount, transactions, page, transactionType,
                   refreshOnAccountChange, backend, recent, mixed, unanswered, faults>>

\* The reaction of the store on the selected account begins its history.
SelectAccount(a) ==
    /\ a # selectedAccount
    /\ selectedAccount' = a
    /\ refreshOnAccountChange
    /\ CanFetch
    /\ transactions' = {}
    /\ page' = 0
    /\ requests' = WithRequest(Stale(requests), a, transactionType, 0)
    /\ pending' = TRUE
    /\ mixed' = FALSE
    /\ recent' = {}
    /\ UNCHANGED <<view, transactionType, refreshOnAccountChange, backend, unanswered,
                   faults>>

\* Without the reaction, a history page goes on with the store as it is.
SelectAccountUnnoticed(a) ==
    /\ a # selectedAccount
    /\ selectedAccount' = a
    /\ ~refreshOnAccountChange
    /\ requests' = Stale(requests)
    /\ mixed' = (mixed \/ view \in HistoryView)
    /\ UNCHANGED <<view, store, backend, recent, unanswered, faults>>

\* beforeEnter, coming from a page without a history.
Enter(v) ==
    /\ view \notin HistoryView
    /\ view' = v
    /\ CanFetch
    /\ transactionType' = TypeShown(v)
    /\ requests' = WithRequest(requests, selectedAccount, TypeShown(v), page)
    /\ pending' = TRUE
    /\ refreshOnAccountChange' = TRUE
    /\ recent' = {}
    /\ UNCHANGED <<selectedAccount, transactions, page, backend, mixed, unanswered,
                   faults>>

\* onExit, going to a page without a history.
Exit ==
    /\ view \in HistoryView
    /\ view' = "home"
    /\ Reset
    /\ requests' = Stale(requests)
    /\ mixed' = FALSE
    /\ recent' = {}
    /\ UNCHANGED <<selectedAccount, pending, backend, unanswered, faults>>

\* From one history page to the other: beforeEnter, then onExit undoes it, so
\* that the request it sent is not meant for what is shown now either.
Switch(v) ==
    /\ view \in HistoryView /\ v # view
    /\ view' = v
    /\ CanFetch
    /\ requests' = Stale(WithRequest(requests, selectedAccount, TypeShown(v), page))
    /\ pending' = TRUE
    /\ Reset
    /\ mixed' = FALSE
    /\ recent' = {}
    /\ UNCHANGED <<selectedAccount, backend, unanswered, faults>>

-----------------------------------------------------------------------------
Next ==
    \/ \E t \in Transaction : Arrive(t)
    \/ \E o \in DataOwner : RecordOwner(o)
    \/ \E s \in Slot : ReadPage(s) \/ MapTransaction(s) \/ ServiceNodeFails(s)
    \/ \E s \in Slot : FetchSucceeds(s) \/ FetchFails(s)
    \/ LoadMore
    \/ \E a \in Account : SelectAccount(a) \/ SelectAccountUnnoticed(a)
    \/ \E v \in HistoryView : Enter(v) \/ Switch(v)
    \/ Exit

Spec == Init /\ [][Next]_vars

\* What the backend, the service node and the browser do to answer a request.
Answer(s) == ReadPage(s) \/ MapTransaction(s) \/ FetchSucceeds(s)

\* A request whose calls do not fail is answered; the user need not do anything.
FairSpec == Spec /\ \A s \in Slot : WF_vars(Answer(s))

-----------------------------------------------------------------------------
(* Properties                                                              *)

\* A history page shows nothing but transactions of the selected account, of the
\* type of the page, with a data owner the backend knows, although replies to
\* requests for other accounts and types are on their way, the account and the
\* page of the application change between request and reply, and the backend
\* records data owners meanwhile.  It holds until the reply to a request that was
\* sent before the last reset, for another type or for another page is applied:
\* fetchTransactions does not look at what the store shows by then.
ShowsOwnHistory ==
    view \in HistoryView /\ ~mixed =>
        \A t \in transactions : t \in History(selectedAccount, TypeShown(view)) /\ Known(t)

\* The spinner goes away and "Load more" can be pressed again, also after errors
\* and when pages of the application are left and entered while requests are in
\* flight; only a request the backend never answers leaves them as they are.
LoadingEnds == pending ~> (~pending \/ unanswered)

\* "Load more" would bring nothing new and would not turn the page.
NothingMore ==
    LET history == History(selectedAccount, TypeShown(view))
        data == {t \in PageOf(history, page) : Known(t)}
    IN  Cardinality(data) < PageSize /\ data \subseteq transactions

\* When "Load more" has nothing more to bring then every transaction that the
\* account had when its history was begun is shown ("Here you can see any sales",
\* test.md), although pages were asked for one by one while new transactions moved
\* them and the backend came to know data owners it had filtered out before.  It
\* needs all data owners to be known in the end: a page that loses one to the
\* filter is shorter than PAGE_SIZE and is never turned.
LoadMoreReachesAll ==
    LET history == History(selectedAccount, TypeShown(view)) IN
    (/\ refreshOnAccountChange /\ ~mixed
     /\ InFlight = {} /\ NothingMore
     /\ \A t \in history : Known(t)) =>
        history \ recent \subseteq transactions
=============================================================================

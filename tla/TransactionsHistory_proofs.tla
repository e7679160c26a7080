---------------------- MODULE TransactionsHistory_proofs ----------------------
(***************************************************************************)
(* Proofs about TransactionsHistory, for every history, every page size    *)
(* and every number of requests in flight and failures.                    *)
(***************************************************************************)
EXTENDS TransactionsHistory, FiniteSetTheorems, FunctionTheorems, TLAPS

-----------------------------------------------------------------------------
(* The elements of a list, counted off.                                    *)

Nth(I, k) == CHOOSE i \in I : Rank(I, i) = k

LEMMA RankType ==
    ASSUME NEW n \in Nat, NEW I \in SUBSET (1..n), NEW i
    PROVE  /\ IsFiniteSet(I) /\ Cardinality(I) \in 0..n
           /\ Cardinality(I) = n => I = 1..n
           /\ Rank(I, i) \in 0..Cardinality(I)
           /\ i \in I => Rank(I, i) >= 1
<1>1. IsFiniteSet(1..n) /\ Cardinality(1..n) = n
  BY FS_Interval
<1>2. IsFiniteSet(I) /\ Cardinality(I) <= n /\ (Cardinality(I) = n => I = 1..n)
  BY <1>1, FS_Subset
<1>3. Cardinality(I) \in Nat
  BY <1>2, FS_CardinalityType
<1> DEFINE J == {j \in I : j <= i}
<1>4. IsFiniteSet(J) /\ Cardinality(J) <= Cardinality(I)
  BY <1>2, FS_Subset
<1>5. Cardinality(J) \in Nat
  BY <1>4, FS_CardinalityType
<1>6. i \in I => i \in J
  OBVIOUS
<1>7. i \in I => Cardinality(J) # 0
  BY <1>4, <1>6, FS_EmptySet
<1> QED
  BY <1>2, <1>3, <1>4, <1>5, <1>7 DEF Rank

LEMMA RankIncreases ==
    ASSUME NEW n \in Nat, NEW I \in SUBSET (1..n), NEW i \in I, NEW j \in I, i < j
    PROVE  Rank(I, i) < Rank(I, j)
<1> DEFINE A == {x \in I : x <= i}
           B == {x \in I : x <= j}
<1>1. IsFiniteSet(I)
  BY RankType
<1>0. \A x \in I : x \in 1..n
  OBVIOUS
<1>a. \A x \in A : x \in B
  BY <1>0
<1>b. j \in B /\ j \notin A
  BY <1>0
<1> HIDE DEF A, B
<1>2. A \in SUBSET B /\ j \in B /\ j \notin A
  BY <1>a, <1>b
<1>3. IsFiniteSet(B)
  BY <1>1, FS_Subset DEF B
<1>4. Cardinality(A) <= Cardinality(B) /\ Cardinality(A) # Cardinality(B)
  BY <1>2, <1>3, FS_Subset
<1>5. Cardinality(A) \in Nat /\ Cardinality(B) \in Nat
  BY <1>2, <1>3, FS_Subset, FS_CardinalityType
<1> QED
  BY <1>4, <1>5 DEF Rank, A, B

\* The positions are counted off: each has its rank, and each rank its position.
LEMMA NthProperties ==
    ASSUME NEW n \in Nat, NEW I \in SUBSET (1..n)
    PROVE  /\ \A k \in 1..Cardinality(I) : Nth(I, k) \in I /\ Rank(I, Nth(I, k)) = k
           /\ \A i \in I : Rank(I, i) \in 1..Cardinality(I) /\ Nth(I, Rank(I, i)) = i
           /\ \A k, l \in 1..Cardinality(I) : k < l => Nth(I, k) < Nth(I, l)
<1> DEFINE m == Cardinality(I)
           f == [i \in I |-> Rank(I, i)]
<1>0. /\ \A i \in I : i \in Int
      /\ \A i, j \in I : i < j => Rank(I, i) < Rank(I, j)
  BY RankIncreases
<1>1. IsFiniteSet(I) /\ m \in Nat
  BY RankType
<1>2. \A i \in I : Rank(I, i) \in 1..m
  <2> TAKE i \in I
  <2>1. Rank(I, i) \in 0..m /\ Rank(I, i) >= 1
    BY RankType
  <2> QED
    BY <1>1, <2>1
<1>3. \A i, j \in I : Rank(I, i) = Rank(I, j) => i = j
  <2> SUFFICES ASSUME NEW i \in I, NEW j \in I, i # j
               PROVE  Rank(I, i) # Rank(I, j)
    OBVIOUS
  <2>1. Rank(I, i) \in Nat /\ Rank(I, j) \in Nat
    BY <1>2
  <2>2. i < j \/ j < i
    BY <1>0
  <2> QED
    BY <1>0, <2>1, <2>2
<1>4. IsFiniteSet(1..m) /\ Cardinality(1..m) = m
  BY <1>1, FS_Interval
<1>5. f \in Injection(I, 1..m)
  <2>1. f \in [I -> 1..m]
    BY <1>2
  <2>2. \A i, j \in I : f[i] = f[j] => i = j
    BY <1>3
  <2> QED
    BY <2>1, <2>2, Fun_IsInj
<1>f. \A i \in I : f[i] = Rank(I, i)
  OBVIOUS
<1> HIDE DEF f
<1>6. f \in Surjection(I, 1..m)
  BY <1>1, <1>4, <1>5, FS_Injection
<1>7. \A k \in 1..m : \E i \in I : Rank(I, i) = k
  <2>1. \A k \in 1..m : \E i \in I : f[i] = k
    BY <1>6, Fun_SurjectionProperties
  <2> QED
    BY <1>f, <2>1
<1>8. \A k \in 1..m : Nth(I, k) \in I /\ Rank(I, Nth(I, k)) = k
  BY <1>7 DEF Nth
<1>9. \A i \in I : Nth(I, Rank(I, i)) = i
  BY <1>2, <1>3, <1>8
<1>10. ASSUME NEW k \in 1..m, NEW l \in 1..m, k < l PROVE Nth(I, k) < Nth(I, l)
  <2>1. /\ Nth(I, k) \in I /\ Rank(I, Nth(I, k)) = k
        /\ Nth(I, l) \in I /\ Rank(I, Nth(I, l)) = l
    BY <1>8
  <2>2. ~(Nth(I, l) < Nth(I, k))
    <3>1. k \in Int /\ l \in Int /\ ~(l < k)
      BY <1>1, <1>10
    <3>2. Nth(I, l) < Nth(I, k) => Rank(I, Nth(I, l)) < Rank(I, Nth(I, k))
      BY <1>0, <2>1
    <3> QED
      BY <2>1, <3>1, <3>2
  <2>3. Nth(I, k) # Nth(I, l)
    BY <2>1, <1>10
  <2>4. Nth(I, k) \in Int /\ Nth(I, l) \in Int
    BY <1>0, <2>1
  <2> QED
    BY <2>2, <2>3, <2>4
<1> QED
  BY <1>2, <1>8, <1>9, <1>10

\* Nobody moves forward when a list grows.
LEMMA RankGrows ==
    ASSUME NEW n \in Nat, NEW J \in SUBSET (1..n), NEW I \in SUBSET J, NEW i
    PROVE  /\ Rank(I, i) \in Nat /\ Rank(J, i) \in Nat
           /\ Rank(I, i) <= Rank(J, i)
<1> DEFINE A == {x \in I : x <= i}
           B == {x \in J : x <= i}
<1>1. IsFiniteSet(J)
  BY RankType
<1>2. A \in SUBSET B /\ B \in SUBSET J
  OBVIOUS
<1> HIDE DEF A, B
<1>3. IsFiniteSet(B) /\ IsFiniteSet(A) /\ Cardinality(A) <= Cardinality(B)
  BY <1>1, <1>2, FS_Subset
<1>4. Cardinality(A) \in Nat /\ Cardinality(B) \in Nat
  BY <1>3, FS_CardinalityType
<1> QED
  BY <1>3, <1>4 DEF Rank, A, B

-----------------------------------------------------------------------------
(* Pages                                                                   *)

LEMMA PageBounds ==
    ASSUME NEW p \in Nat
    PROVE  /\ PageSize \in Nat /\ PageSize >= 1
           /\ p * PageSize \in Nat
           /\ (p + 1) * PageSize = p * PageSize + PageSize
<1>1. PageSize \in Nat /\ PageSize >= 1
  BY HistoryAssumption
<1> QED
  BY <1>1

\* A page has no more than PAGE_SIZE transactions.
LEMMA PageIsBounded ==
    ASSUME NEW n \in Nat, NEW L \in SUBSET (1..n), NEW p \in Nat
    PROVE  /\ IsFiniteSet(PageOf(L, p))
           /\ Cardinality(PageOf(L, p)) \in Nat
           /\ Cardinality(PageOf(L, p)) <= PageSize
<1> DEFINE b == p * PageSize
           P == PageOf(L, p)
           f == [t \in P |-> Rank(L, t)]
<1>1. PageSize \in Nat /\ b \in Nat /\ (p + 1) * PageSize = b + PageSize
  BY PageBounds
<1>2. \A t \in P : t \in L /\ b < Rank(L, t) /\ Rank(L, t) <= b + PageSize
  BY <1>1 DEF PageOf
<1> HIDE DEF b, P
<1>3. \A t \in P : Rank(L, t) \in (b + 1)..(b + PageSize)
  <2> TAKE t \in P
  <2>1. Rank(L, t) \in Nat
    <3>1. Cardinality(L) \in 0..n /\ Rank(L, t) \in 0..Cardinality(L)
      BY RankType
    <3> QED
      BY <3>1
  <2> QED
    BY <1>1, <1>2, <2>1
<1>4. ASSUME NEW t \in P, NEW u \in P, Rank(L, t) = Rank(L, u) PROVE t = u
  <2>1. Nth(L, Rank(L, t)) = t /\ Nth(L, Rank(L, u)) = u
    BY <1>2, NthProperties
  <2> QED
    BY <1>4, <2>1
<1>5. f \in Injection(P, (b + 1)..(b + PageSize))
  <2>1. f \in [P -> (b + 1)..(b + PageSize)]
    BY <1>3
  <2>2. \A t, u \in P : f[t] = f[u] => t = u
    BY <1>4
  <2> HIDE DEF f
  <2> QED
    BY <2>1, <2>2, Fun_IsInj
<1>6. /\ IsFiniteSet((b + 1)..(b + PageSize))
      /\ Cardinality((b + 1)..(b + PageSize)) = PageSize
  <2>1. /\ IsFiniteSet((b + 1)..(b + PageSize))
        /\ Cardinality((b + 1)..(b + PageSize))
             = IF b + 1 > b + PageSize THEN 0 ELSE (b + PageSize) - (b + 1) + 1
    BY <1>1, FS_Interval
  <2> QED
    BY <1>1, <2>1
<1>7. IsFiniteSet(P) /\ Cardinality(P) <= PageSize
  BY <1>5, <1>6, FS_Injection
<1>8. Cardinality(P) \in Nat
  BY <1>7, FS_CardinalityType
<1> QED
  BY <1>7, <1>8 DEF P

\* After a page that is not full the list has no more transactions.
LEMMA ShortPageIsLast ==
    ASSUME NEW n \in Nat, NEW L \in SUBSET (1..n), NEW p \in Nat,
           Cardinality(PageOf(L, p)) < PageSize,
           NEW t \in L
    PROVE  Rank(L, t) <= (p + 1) * PageSize
<1> DEFINE b == p * PageSize
           P == PageOf(L, p)
           m == Cardinality(L)
           f == [k \in (b + 1)..(b + PageSize) |-> Nth(L, k)]
<1>1. PageSize \in Nat /\ PageSize >= 1 /\ b \in Nat
      /\ (p + 1) * PageSize = b + PageSize
  BY PageBounds
<1>2. \A u \in L : b < Rank(L, u) /\ Rank(L, u) <= b + PageSize => u \in P
  BY <1>1 DEF PageOf
<1>3. IsFiniteSet(P) /\ Cardinality(P) \in Nat
  BY PageIsBounded
<1>4. m \in Nat /\ Rank(L, t) \in 1..m
  <2>1. m \in 0..n
    BY RankType
  <2>2. Rank(L, t) \in 1..m
    BY NthProperties
  <2> QED
    BY <2>1, <2>2
<1>5. Cardinality(P) < PageSize
  OBVIOUS
<1> HIDE DEF b, P, m
<1>6. SUFFICES ASSUME Rank(L, t) > b + PageSize PROVE FALSE
  BY <1>1, <1>4
<1>7. ASSUME NEW k \in (b + 1)..(b + PageSize)
      PROVE  k \in 1..m /\ Nth(L, k) \in P /\ Rank(L, Nth(L, k)) = k
  <2>1. k \in 1..m
    BY <1>1, <1>4, <1>6
  <2>2. Nth(L, k) \in L /\ Rank(L, Nth(L, k)) = k
    BY <2>1, NthProperties DEF m
  <2>3. b < k /\ k <= b + PageSize
    BY <1>1
  <2> QED
    BY <1>2, <2>1, <2>2, <2>3
<1>8. f \in Injection((b + 1)..(b + PageSize), P)
  <2>1. f \in [(b + 1)..(b + PageSize) -> P]
    BY <1>7
  <2>2. \A k, l \in (b + 1)..(b + PageSize) : f[k] = f[l] => k = l
    <3> TAKE k, l \in (b + 1)..(b + PageSize)
    <3>1. f[k] = Nth(L, k) /\ f[l] = Nth(L, l)
      OBVIOUS
    <3> HIDE DEF f
    <3> QED
      BY <1>7, <3>1
  <2> HIDE DEF f
  <2> QED
    BY <2>1, <2>2, Fun_IsInj
<1>9. Cardinality((b + 1)..(b + PageSize)) <= Cardinality(P)
  BY <1>3, <1>8, FS_Injection
<1>10. Cardinality((b + 1)..(b + PageSize)) = PageSize
  <2>1. Cardinality((b + 1)..(b + PageSize))
          = IF b + 1 > b + PageSize THEN 0 ELSE (b + PageSize) - (b + 1) + 1
    BY <1>1, FS_Interval
  <2> QED
    BY <1>1, <2>1
<1> QED
  BY <1>1, <1>3, <1>5, <1>9, <1>10

-----------------------------------------------------------------------------
(* The inductive invariant                                                 *)

OwnHistory == History(selectedAccount, TypeShown(view))

\* With Load more and with the reaction on the account, the store asks for the
\* type of the page.
RouteInv ==
    refreshOnAccountChange => view \in HistoryView /\ transactionType = TypeShown(view)

\* Between two history pages the store is empty, and nothing that is on its way
\* is meant for the next one.
HomeInv ==
    view = "home" =>
        /\ \A s \in InFlight : requests[s].stale
        /\ ~mixed => transactions = {} /\ page = 0

\* What the backend has read and kept for a request, and for which page of what
\* the store shows it was asked.
RequestInv ==
    \A s \in InFlight :
        /\ requests[s].status = "sent" => requests[s].found = {}
        /\ requests[s].rest \subseteq requests[s].found
        /\ requests[s].data \subseteq requests[s].found
        /\ Cardinality(requests[s].found) <= PageSize
        /\ requests[s].found \subseteq History(requests[s].account, requests[s].type)
        /\ \A t \in requests[s].data : Known(t)
        /\ ~requests[s].stale => /\ requests[s].account = selectedAccount
                                 /\ requests[s].page <= page

\* The shown transactions are the account's own, the pages that were turned are
\* shown, and the reply that is awaited brings the rest of the next page.
OwnInv ==
    ~mixed /\ view \in HistoryView =>
        /\ transactions \subseteq OwnHistory
        /\ \A t \in transactions : Known(t)
        /\ \A t \in OwnHistory \ recent :
              Rank(OwnHistory, t) <= page * PageSize => t \in transactions
        /\ \A s \in InFlight :
              Expected(requests[s]) /\ requests[s].status = "read" =>
                \A t \in OwnHistory \ recent :
                    Rank(OwnHistory, t) <= (page + 1) * PageSize =>
                        t \in transactions \cup requests[s].found

HistoryInv == TypeOK /\ RouteInv /\ HomeInv /\ RequestInv /\ OwnInv

-----------------------------------------------------------------------------
(* Requests                                                                *)

Requests == [Slot -> Request \cup {Null}]

LEMMA NewRequestType ==
    ASSUME NEW a \in Account, NEW type \in Type, NEW p \in Nat
    PROVE  NewRequest(a, type, p) \in Request
BY DEF NewRequest, Request

\* A new request takes a slot that is free.
LEMMA WithRequestTakesFree ==
    ASSUME NEW rs \in Requests, \E s \in Slot : rs[s] = Null,
           NEW a \in Account, NEW type \in Type, NEW p \in Nat
    PROVE  /\ WithRequest(rs, a, type, p) \in Requests
           /\ \A s \in Slot : WithRequest(rs, a, type, p)[s]
                                \in {rs[s], NewRequest(a, type, p)}
<1> DEFINE n == CHOOSE s \in Slot : rs[s] = Null
           q == NewRequest(a, type, p)
<1>1. n \in Slot
  OBVIOUS
<1>2. q \in Request
  BY NewRequestType
<1>3. WithRequest(rs, a, type, p) = [rs EXCEPT ![n] = q]
  BY DEF WithRequest
<1> HIDE DEF n, q
<1>4. [rs EXCEPT ![n] = q] \in Requests
  BY <1>1, <1>2 DEF Requests
<1>5. \A s \in Slot : [rs EXCEPT ![n] = q][s] \in {rs[s], q}
  BY <1>1 DEF Requests
<1> QED
  BY <1>3, <1>4, <1>5 DEF q

LEMMA StaleRequests ==
    ASSUME NEW rs \in Requests
    PROVE  /\ Stale(rs) \in Requests
           /\ \A s \in Slot : rs[s] = Null => Stale(rs)[s] = Null
           /\ \A s \in Slot : Stale(rs)[s] # Null =>
                 /\ rs[s] # Null /\ rs[s] \in Request
                 /\ Stale(rs)[s] = [rs[s] EXCEPT !.stale = TRUE]
<1>1. \A s \in Slot : rs[s] = Null \/ rs[s] \in Request
  BY DEF Requests
<1>2. \A r \in Request : [r EXCEPT !.stale = TRUE] \in Request
  BY DEF Request
<1>3. \A s \in Slot : Stale(rs)[s] =
         IF rs[s] = Null THEN Null ELSE [rs[s] EXCEPT !.stale = TRUE]
  BY DEF Stale
<1>4. Stale(rs) = [s \in Slot |-> Stale(rs)[s]]
  BY DEF Stale
<1>5. \A s \in Slot : Stale(rs)[s] \in Request \cup {Null}
  BY <1>1, <1>2, <1>3
<1>6. Stale(rs) \in Requests
  BY <1>4, <1>5 DEF Requests
<1>7. \A s \in Slot : rs[s] = Null => Stale(rs)[s] = Null
  BY <1>3
<1> QED
  BY <1>1, <1>3, <1>6, <1>7

LEMMA FreeSlot ==
    ASSUME CanFetch PROVE \E s \in Slot : requests[s] = Null
BY DEF CanFetch, InFlight

LEMMA InFlightIsRequest ==
    ASSUME TypeOK, NEW s \in InFlight
    PROVE  s \in Slot /\ requests[s] # Null /\ requests[s] \in Request
BY DEF TypeOK, InFlight

-----------------------------------------------------------------------------
(* Types                                                                   *)

LEMMA HistoryType ==
    ASSUME TypeOK, NEW a, NEW type
    PROVE  History(a, type) \in SUBSET Transaction
BY DEF TypeOK, History

LEMMA TypeInit == Init => TypeOK
<1> SUFFICES ASSUME Init PROVE TypeOK
  OBVIOUS
<1>1. requests \in Requests
  BY DEF Init, Requests
<1>2. ledger \subseteq Transaction /\ known \subseteq LocalOwners /\ 0 \in 0..MaxFaults
  BY HistoryAssumption DEF Init
<1>3. view \in View /\ transactionType \in Type
  BY DEF Init, View, Type
<1> QED
  BY <1>1, <1>2, <1>3 DEF Init, TypeOK, Requests

\* The page that is read, what is kept of it, and the end of a request.
LEMMA RequestType ==
    ASSUME TypeOK, NEW s \in Slot,
           \/ ReadPage(s) \/ MapTransaction(s) \/ ServiceNodeFails(s)
           \/ FetchSucceeds(s) \/ FetchFails(s)
    PROVE  TypeOK'
<1> DEFINE r == requests[s]
<1>1. requests \in Requests /\ s \in InFlight /\ r \in Request
  BY InFlightIsRequest
     DEF TypeOK, Requests, ReadPage, MapTransaction, ServiceNodeFails, FetchSucceeds,
         FetchFails
<1> HIDE DEF r
<1>2. /\ \A q \in Request \cup {Null} : [requests EXCEPT ![s] = q] \in Requests
      /\ [requests EXCEPT ![s] = Null] \in Requests
  BY <1>1 DEF Requests
<1>3. CASE ReadPage(s)
  <2> DEFINE found == PageOf(History(r.account, r.type), r.page)
             q == [r EXCEPT !.status = "read", !.found = found, !.rest = found]
  <2>1. History(r.account, r.type) \in SUBSET Transaction
    BY HistoryType
  <2>2. found \in SUBSET Transaction
    BY <2>1 DEF PageOf
  <2>3. requests' = [requests EXCEPT ![s] = q]
    BY <1>3 DEF ReadPage, r
  <2> HIDE DEF found
  <2>4. q \in Request
    BY <1>1, <2>2 DEF Request
  <2> HIDE DEF q
  <2>5. requests' \in Requests
    BY <1>2, <2>3, <2>4
  <2>6. UNCHANGED <<view, selectedAccount, store, backend, recent, mixed, unanswered,
                    faults>>
    BY <1>3 DEF ReadPage
  <2> QED
    BY <2>5, <2>6 DEF TypeOK, Requests, store, backend
<1>4. CASE MapTransaction(s)
  <2>1. PICK t \in r.rest :
          requests' = [requests EXCEPT ![s] =
                         [r EXCEPT !.rest = r.rest \ {t},
                                   !.data = IF Known(t) THEN r.data \cup {t}
                                            ELSE r.data]]
    BY <1>4 DEF MapTransaction, r
  <2> DEFINE d == IF Known(t) THEN r.data \cup {t} ELSE r.data
             q == [r EXCEPT !.rest = r.rest \ {t}, !.data = d]
  <2>2. r.rest \in SUBSET Transaction /\ r.data \in SUBSET Transaction
    BY <1>1 DEF Request
  <2>3. d \in SUBSET Transaction
    BY <2>1, <2>2
  <2>a. requests' = [requests EXCEPT ![s] = q]
    BY <2>1
  <2> HIDE DEF d
  <2>4. q \in Request
    BY <1>1, <2>2, <2>3 DEF Request
  <2> HIDE DEF q
  <2>5. requests' \in Requests
    BY <1>2, <2>a, <2>4
  <2>6. UNCHANGED <<view, selectedAccount, store, backend, recent, mixed, unanswered,
                    faults>>
    BY <1>4 DEF MapTransaction
  <2> QED
    BY <2>5, <2>6 DEF TypeOK, Requests, store, backend
<1>5. CASE ServiceNodeFails(s)
  <2>1. /\ requests' = [requests EXCEPT ![s] = Null] /\ unanswered' = TRUE
        /\ faults' = faults + 1 /\ faults < MaxFaults
        /\ UNCHANGED <<view, selectedAccount, store, backend, recent, mixed>>
    BY <1>5 DEF ServiceNodeFails, Fault
  <2>2. requests' \in Requests
    BY <1>2, <2>1
  <2>3. faults' \in 0..MaxFaults
    BY <2>1, HistoryAssumption DEF TypeOK
  <2> QED
    BY <2>1, <2>2, <2>3 DEF TypeOK, Requests, store, backend
<1>6. CASE FetchSucceeds(s)
  <2>1. /\ requests' = [requests EXCEPT ![s] = Null]
        /\ transactions' = transactions \cup r.data
        /\ page' \in {page, page + 1}
        /\ pending' = FALSE /\ mixed' \in BOOLEAN
        /\ UNCHANGED <<view, selectedAccount, transactionType, refreshOnAccountChange,
                       backend, recent, unanswered, faults>>
    BY <1>6 DEF FetchSucceeds, r
  <2>2. requests' \in Requests
    BY <1>2, <2>1
  <2>3. page' \in Nat
    BY <2>1 DEF TypeOK
  <2>4. transactions' \subseteq Transaction
    BY <1>1, <2>1 DEF TypeOK, Request
  <2> QED
    BY <2>1, <2>2, <2>3, <2>4 DEF TypeOK, Requests, backend
<1>7. CASE FetchFails(s)
  <2>1. /\ requests' = [requests EXCEPT ![s] = Null] /\ pending' = FALSE
        /\ faults' = faults + 1 /\ faults < MaxFaults
        /\ UNCHANGED <<view, selectedAccount, transactions, page, transactionType,
                       refreshOnAccountChange, backend, recent, mixed, unanswered>>
    BY <1>7 DEF FetchFails, Fault
  <2>2. requests' \in Requests
    BY <1>2, <2>1
  <2>3. faults' \in 0..MaxFaults
    BY <2>1, HistoryAssumption DEF TypeOK
  <2> QED
    BY <2>1, <2>2, <2>3 DEF TypeOK, Requests, backend
<1> QED
  BY <1>3, <1>4, <1>5, <1>6, <1>7

\* What the user does.
LEMMA TypeShownType == \A v \in View : TypeShown(v) \in Type
BY DEF TypeShown, Type

LEMMA UserType ==
    ASSUME TypeOK,
           \/ LoadMore \/ Exit
           \/ \E a \in Account : SelectAccount(a) \/ SelectAccountUnnoticed(a)
           \/ \E v \in HistoryView : Enter(v) \/ Switch(v)
    PROVE  TypeOK'
<1>1. requests \in Requests /\ selectedAccount \in Account /\ transactionType \in Type
      /\ page \in Nat /\ view \in View
  BY DEF TypeOK, Requests
<1>2. HistoryView \subseteq View /\ "home" \in View /\ "any" \in Type
  BY DEF HistoryView, View, Type
<1>3. Stale(requests) \in Requests
  BY <1>1, StaleRequests
<1>4. CASE LoadMore
  <2>1. requests' \in Requests
    BY <1>1, <1>4, FreeSlot, WithRequestTakesFree DEF LoadMore
  <2> QED
    BY <1>4, <2>1 DEF LoadMore, TypeOK, Requests, backend
<1>5. CASE Exit
  <2> QED
    BY <1>2, <1>3, <1>5 DEF Exit, Reset, TypeOK, Requests, backend
<1>6. ASSUME NEW a \in Account, SelectAccount(a) PROVE TypeOK'
  <2>1. \E s \in Slot : Stale(requests)[s] = Null
    BY <1>1, <1>6, FreeSlot, StaleRequests DEF SelectAccount
  <2>2. WithRequest(Stale(requests), a, transactionType, 0) \in Requests
    BY <1>1, <1>3, <2>1, WithRequestTakesFree
  <2>3. requests' \in Requests
    BY <1>6, <2>2 DEF SelectAccount
  <2> QED
    BY <1>6, <2>3 DEF SelectAccount, TypeOK, Requests, backend
<1>7. ASSUME NEW a \in Account, SelectAccountUnnoticed(a) PROVE TypeOK'
  <2>1. requests' \in Requests
    BY <1>3, <1>7 DEF SelectAccountUnnoticed
  <2>2. mixed' \in BOOLEAN
    BY <1>7 DEF SelectAccountUnnoticed
  <2> QED
    BY <1>7, <2>1, <2>2 DEF SelectAccountUnnoticed, TypeOK, Requests, store, backend
<1>8. ASSUME NEW v \in HistoryView, Enter(v) \/ Switch(v) PROVE TypeOK'
  <2>1. TypeShown(v) \in Type /\ v \in View
    BY <1>2, TypeShownType
  <2>2. WithRequest(requests, selectedAccount, TypeShown(v), page) \in Requests
    BY <1>1, <1>8, <2>1, FreeSlot, WithRequestTakesFree DEF Enter, Switch
  <2>3. Stale(WithRequest(requests, selectedAccount, TypeShown(v), page)) \in Requests
    BY <2>2, StaleRequests
  <2>4. CASE Enter(v)
    BY <2>1, <2>2, <2>4 DEF Enter, TypeOK, Requests, backend
  <2>5. CASE Switch(v)
    BY <1>2, <2>1, <2>3, <2>5 DEF Switch, Reset, TypeOK, Requests, backend
  <2> QED
    BY <1>8, <2>4, <2>5
<1> QED
  BY <1>4, <1>5, <1>6, <1>7, <1>8

LEMMA TypeStep == TypeOK /\ [Next]_vars => TypeOK'
<1> SUFFICES ASSUME TypeOK, [Next]_vars PROVE TypeOK'
  OBVIOUS
<1>1. ASSUME NEW t \in Transaction, Arrive(t) PROVE TypeOK'
  BY <1>1 DEF Arrive, TypeOK, store
<1>2. ASSUME NEW o \in DataOwner, RecordOwner(o) PROVE TypeOK'
  BY <1>2 DEF RecordOwner, TypeOK, store
<1>3. CASE UNCHANGED vars
  BY <1>3 DEF vars, TypeOK, store, backend
<1> QED
  BY <1>1, <1>2, <1>3, RequestType, UserType DEF Next

-----------------------------------------------------------------------------
(* Steps                                                                   *)

\* A step that starts, ends or forgets requests, but reads nothing for them.
LEMMA RequestsGoOn ==
    ASSUME RequestInv,
           ledger \subseteq ledger', known \subseteq known',
           \A s \in InFlight' :
              \/ /\ s \in InFlight
                 /\ requests'[s].account = requests[s].account
                 /\ requests'[s].type = requests[s].type
                 /\ requests'[s].status = requests[s].status
                 /\ requests'[s].found = requests[s].found
                 /\ requests'[s].rest = requests[s].rest
                 /\ requests'[s].data = requests[s].data
              \/ /\ requests'[s].found = {}
                 /\ requests'[s].rest = {}
                 /\ requests'[s].data = {},
           \A s \in InFlight' : ~requests'[s].stale =>
              requests'[s].account = selectedAccount' /\ requests'[s].page <= page'
    PROVE  RequestInv'
<1>1. Cardinality({}) = 0 /\ PageSize \in Nat
  BY FS_EmptySet, HistoryAssumption
<1>4. ASSUME NEW s \in InFlight'
      PROVE  /\ requests'[s].status = "sent" => requests'[s].found = {}
             /\ requests'[s].rest \subseteq requests'[s].found
             /\ requests'[s].data \subseteq requests'[s].found
             /\ Cardinality(requests'[s].found) <= PageSize
             /\ \A t \in requests'[s].found :
                   /\ t \in ledger' /\ AccountOf[t] = requests'[s].account
                   /\ requests'[s].type = "purchase" => t \in Purchases
             /\ \A t \in requests'[s].data : OwnerOf[t] \in known'
  <2>1. CASE /\ s \in InFlight
             /\ requests'[s].account = requests[s].account
             /\ requests'[s].type = requests[s].type
             /\ requests'[s].status = requests[s].status
             /\ requests'[s].found = requests[s].found
             /\ requests'[s].rest = requests[s].rest
             /\ requests'[s].data = requests[s].data
    <3>1. /\ \A t \in requests[s].found :
                /\ t \in ledger /\ AccountOf[t] = requests[s].account
                /\ requests[s].type = "purchase" => t \in Purchases
          /\ \A t \in requests[s].data : OwnerOf[t] \in known
          /\ requests[s].status = "sent" => requests[s].found = {}
          /\ requests[s].rest \subseteq requests[s].found
          /\ requests[s].data \subseteq requests[s].found
          /\ Cardinality(requests[s].found) <= PageSize
      BY <2>1 DEF RequestInv, History, Known
    <3> QED
      BY <2>1, <3>1
  <2>2. CASE /\ requests'[s].found = {}
             /\ requests'[s].rest = {}
             /\ requests'[s].data = {}
    BY <1>1, <2>2
  <2> QED
    BY <2>1, <2>2
<1> QED
  BY <1>4 DEF RequestInv, History, Known

LEMMA OwnIsList ==
    TypeOK => OwnHistory \in SUBSET (1..NumTransactions) /\ NumTransactions \in Nat
BY HistoryType, HistoryAssumption DEF OwnHistory, Transaction

\* A store that was reset, and for which no page has been read.
Fresh ==
    /\ transactions = {} /\ page = 0
    /\ \A s \in InFlight : requests[s].stale \/ requests[s].status # "read"

LEMMA FreshIsOwn == TypeOK /\ Fresh => OwnInv
<1> SUFFICES ASSUME TypeOK, Fresh PROVE OwnInv
  OBVIOUS
<1>1. \A t \in OwnHistory : Rank(OwnHistory, t) \in Nat /\ Rank(OwnHistory, t) >= 1
  <2> TAKE t \in OwnHistory
  <2>1. /\ Rank(OwnHistory, t) \in 0..Cardinality(OwnHistory)
        /\ Rank(OwnHistory, t) >= 1
    BY OwnIsList, RankType
  <2> QED
    BY <2>1
<1>2. page * PageSize = 0
  BY HistoryAssumption DEF Fresh
<1>3. \A t \in OwnHistory : ~(Rank(OwnHistory, t) <= page * PageSize)
  BY <1>1, <1>2
<1>4. \A s \in InFlight : ~(Expected(requests[s]) /\ requests[s].status = "read")
  BY DEF Fresh, Expected
<1> QED
  BY <1>3, <1>4 DEF OwnInv, Fresh

\* A step that shows nothing new and reads nothing: new transactions and data
\* owners do not disturb what is shown.
LEMMA OwnGoesOn ==
    ASSUME TypeOK, TypeOK', OwnInv,
           ledger \subseteq ledger', known \subseteq known',
           ledger' \ recent' \subseteq ledger \ recent,
           UNCHANGED <<view, selectedAccount, transactions, page>>,
           mixed => mixed',
           \A s \in InFlight' : requests'[s].status = "read" =>
              /\ s \in InFlight
              /\ requests[s].status = "read"
              /\ requests'[s].type = requests[s].type
              /\ requests'[s].page = requests[s].page
              /\ requests'[s].stale = requests[s].stale
              /\ requests'[s].found = requests[s].found
    PROVE  OwnInv'
<1> DEFINE own == OwnHistory
           own2 == OwnHistory'
<1>1. own \subseteq own2 /\ own2 \ recent' \subseteq own \ recent
  BY DEF OwnHistory, History
<1>2. own2 \in SUBSET (1..NumTransactions) /\ NumTransactions \in Nat
  <2>1. (OwnHistory \in SUBSET (1..NumTransactions) /\ NumTransactions \in Nat)'
    BY OwnIsList, PTL
  <2> QED
    BY <2>1
<1> HIDE DEF own, own2
<1>3. \A t : /\ Rank(own, t) \in Nat /\ Rank(own2, t) \in Nat
             /\ Rank(own, t) <= Rank(own2, t)
  BY <1>1, <1>2, RankGrows
<1>4. page \in Nat /\ page * PageSize \in Nat /\ (page + 1) * PageSize \in Nat
  <2>1. page \in Nat /\ page + 1 \in Nat
    BY DEF TypeOK
  <2>2. page * PageSize \in Nat
    BY <2>1, PageBounds
  <2>3. (page + 1) * PageSize \in Nat
    BY <2>1, PageBounds
  <2> QED
    BY <2>1, <2>2, <2>3
<1>5. SUFFICES ASSUME ~mixed', view' \in HistoryView
               PROVE  /\ transactions' \subseteq own2
                      /\ \A t \in transactions' : Known(t)'
                      /\ \A t \in own2 \ recent' :
                            Rank(own2, t) <= page' * PageSize => t \in transactions'
                      /\ \A s \in InFlight' :
                            Expected(requests[s])' /\ requests'[s].status = "read" =>
                              \A t \in own2 \ recent' :
                                  Rank(own2, t) <= (page' + 1) * PageSize =>
                                      t \in transactions' \cup requests'[s].found
  BY DEF OwnInv, own2
<1>6. /\ transactions \subseteq own
      /\ \A t \in transactions : Known(t)
      /\ \A t \in own \ recent : Rank(own, t) <= page * PageSize => t \in transactions
      /\ \A s \in InFlight :
            Expected(requests[s]) /\ requests[s].status = "read" =>
              \A t \in own \ recent :
                  Rank(own, t) <= (page + 1) * PageSize =>
                      t \in transactions \cup requests[s].found
  BY <1>5 DEF OwnInv, own
<1>7. transactions' \subseteq own2 /\ \A t \in transactions' : Known(t)'
  BY <1>1, <1>6 DEF Known
<1>8. ASSUME NEW t \in own2 \ recent', Rank(own2, t) <= page' * PageSize
      PROVE  t \in transactions'
  <2>1. t \in own \ recent /\ Rank(own, t) <= page * PageSize
    BY <1>1, <1>3, <1>4, <1>8
  <2> QED
    BY <1>6, <2>1
<1>9. ASSUME NEW s \in InFlight', Expected(requests[s])', requests'[s].status = "read",
             NEW t \in own2 \ recent', Rank(own2, t) <= (page' + 1) * PageSize
      PROVE  t \in transactions' \cup requests'[s].found
  <2>1. /\ s \in InFlight /\ requests[s].status = "read" /\ Expected(requests[s])
        /\ requests'[s].found = requests[s].found
    BY <1>9 DEF Expected
  <2>2. t \in own \ recent /\ Rank(own, t) <= (page + 1) * PageSize
    BY <1>1, <1>3, <1>4, <1>9
  <2> QED
    BY <1>6, <2>1, <2>2
<1> QED
  BY <1>7, <1>8, <1>9

\* The other slots keep their requests.
LEMMA OtherSlots ==
    ASSUME TypeOK, NEW s \in Slot, NEW q, requests' = [requests EXCEPT ![s] = q]
    PROVE  /\ requests'[s] = q
           /\ \A u \in Slot : u # s => requests'[u] = requests[u]
           /\ \A u \in InFlight' : u # s => u \in InFlight /\ requests'[u] = requests[u]
<1>1. requests'[s] = q /\ \A u \in Slot : u # s => requests'[u] = requests[u]
  BY DEF TypeOK
<1> QED
  BY <1>1 DEF InFlight

\* The page that is read is the next one of what the store shows, if the request
\* is expected.
LEMMA ReadPageStep ==
    ASSUME TypeOK, TypeOK', RequestInv, OwnInv, NEW s \in Slot, ReadPage(s)
    PROVE  RequestInv' /\ OwnInv'
<1> DEFINE r == requests[s]
           list == History(r.account, r.type)
           found == PageOf(list, r.page)
           q == [r EXCEPT !.status = "read", !.found = found, !.rest = found]
<1>1. s \in InFlight /\ r \in Request /\ r.status = "sent"
  BY InFlightIsRequest DEF ReadPage
<1>2. requests' = [requests EXCEPT ![s] = q]
  BY DEF ReadPage
<1>3. UNCHANGED <<view, selectedAccount, store, backend, recent, mixed>>
  BY DEF ReadPage
<1>4. /\ q.account = r.account /\ q.type = r.type /\ q.page = r.page
      /\ q.stale = r.stale /\ q.data = r.data /\ q.found = found /\ q.rest = found
      /\ q.status = "read"
  BY <1>1 DEF Request
<1> HIDE DEF q
<1>5. /\ requests'[s] = q
      /\ \A u \in InFlight' : u # s => u \in InFlight /\ requests'[u] = requests[u]
  BY <1>2, OtherSlots
<1>6. /\ list \in SUBSET (1..NumTransactions) /\ NumTransactions \in Nat
      /\ r.page \in Nat
  BY <1>1, HistoryType, HistoryAssumption DEF Transaction, Request
<1>7. found \subseteq list /\ Cardinality(found) <= PageSize
  <2>1. found \subseteq list
    BY DEF PageOf
  <2> HIDE DEF list
  <2>2. Cardinality(found) <= PageSize
    BY <1>6, PageIsBounded
  <2> QED
    BY <2>1, <2>2
<1> HIDE DEF found
<1>8. RequestInv'
  <2>1. UNCHANGED <<ledger, known, selectedAccount, page>>
    BY <1>3 DEF store, backend
  <2>2. ASSUME NEW u \in InFlight'
        PROVE  /\ requests'[u].status = "sent" => requests'[u].found = {}
               /\ requests'[u].rest \subseteq requests'[u].found
               /\ requests'[u].data \subseteq requests'[u].found
               /\ Cardinality(requests'[u].found) <= PageSize
               /\ requests'[u].found
                    \subseteq History(requests'[u].account, requests'[u].type)
               /\ \A t \in requests'[u].data : Known(t)
               /\ ~requests'[u].stale => /\ requests'[u].account = selectedAccount
                                         /\ requests'[u].page <= page
    <3>1. CASE u # s
      BY <1>5, <3>1 DEF RequestInv
    <3>2. CASE u = s
      BY <1>1, <1>4, <1>5, <1>7, <3>2 DEF RequestInv
    <3> QED
      BY <3>1, <3>2
  <2> QED
    BY <2>1, <2>2 DEF RequestInv, History, Known
<1>9. OwnInv'
  <2>1. UNCHANGED <<ledger, known, recent, view, selectedAccount, transactions, page>>
        /\ mixed' = mixed
    BY <1>3 DEF store, backend
  <2> SUFFICES ASSUME ~mixed, view \in HistoryView PROVE OwnInv'
    BY <2>1 DEF OwnInv
  <2>2. /\ transactions \subseteq OwnHistory
        /\ \A t \in transactions : Known(t)
        /\ \A t \in OwnHistory \ recent :
              Rank(OwnHistory, t) <= page * PageSize => t \in transactions
    BY DEF OwnInv
  <2>3. ASSUME NEW u \in InFlight', Expected(requests'[u]), requests'[u].status = "read",
               NEW t \in OwnHistory \ recent,
               Rank(OwnHistory, t) <= (page + 1) * PageSize
        PROVE  t \in transactions \cup requests'[u].found
    <3>1. CASE u # s
      <4>1. u \in InFlight /\ requests'[u] = requests[u]
        BY <1>5, <3>1
      <4> QED
        BY <2>3, <4>1 DEF OwnInv
    <3>2. CASE u = s
      <4>1. requests'[u] = q
        BY <1>5, <3>2
      <4>2. ~r.stale /\ r.type = TypeShown(view) /\ r.page = page
        BY <1>4, <2>3, <4>1 DEF Expected
      <4>3. r.account = selectedAccount
        BY <1>1, <4>2 DEF RequestInv
      <4>4. list = OwnHistory
        BY <4>2, <4>3 DEF OwnHistory
      <4>5. CASE Rank(list, t) <= page * PageSize
        BY <2>2, <4>4, <4>5
      <4>6. CASE page * PageSize < Rank(list, t)
        BY <1>4, <2>3, <4>1, <4>2, <4>4, <4>6 DEF found, PageOf
      <4>7. Rank(list, t) \in Nat /\ page * PageSize \in Nat
        <5> HIDE DEF list
        <5>1. Rank(list, t) \in Nat
          BY <1>6, RankGrows
        <5>2. page * PageSize \in Nat
          BY <1>6, <4>2, PageBounds
        <5> QED
          BY <5>1, <5>2
      <4> QED
        BY <4>5, <4>6, <4>7
    <3> QED
      BY <3>1, <3>2
  <2>4. OwnHistory' = OwnHistory /\ \A t : Known(t)' <=> Known(t)
    BY <2>1 DEF OwnHistory, History, Known
  <2>5. \A u \in InFlight' : Expected(requests[u])' => Expected(requests'[u])
    BY <2>1 DEF Expected
  <2> QED
    BY <2>1, <2>2, <2>3, <2>4, <2>5 DEF OwnInv
<1> QED
  BY <1>8, <1>9

LEMMA MapTransactionStep ==
    ASSUME TypeOK, TypeOK', RequestInv, OwnInv, NEW s \in Slot, MapTransaction(s)
    PROVE  RequestInv' /\ OwnInv'
<1> DEFINE r == requests[s]
<1>1. s \in InFlight /\ r \in Request
  BY InFlightIsRequest DEF MapTransaction
<1>2. PICK t \in r.rest :
        requests' = [requests EXCEPT ![s] =
                       [r EXCEPT !.rest = r.rest \ {t},
                                 !.data = IF Known(t) THEN r.data \cup {t} ELSE r.data]]
  BY DEF MapTransaction
<1> DEFINE d == IF Known(t) THEN r.data \cup {t} ELSE r.data
           q == [r EXCEPT !.rest = r.rest \ {t}, !.data = d]
<1>3. UNCHANGED <<view, selectedAccount, store, ledger, known, recent, mixed>>
  BY DEF MapTransaction, backend
<1>4. requests' = [requests EXCEPT ![s] = q]
  BY <1>2
<1>5. d \subseteq r.data \cup {t} /\ \A u \in d : u \in r.data \/ Known(u)
  OBVIOUS
<1> HIDE DEF d
<1>6. /\ q.account = r.account /\ q.type = r.type /\ q.page = r.page
      /\ q.stale = r.stale /\ q.data = d /\ q.found = r.found /\ q.rest = r.rest \ {t}
      /\ q.status = r.status
  BY <1>1 DEF Request
<1> HIDE DEF q
<1>7. /\ requests'[s] = q
      /\ \A u \in InFlight' : u # s => u \in InFlight /\ requests'[u] = requests[u]
  BY <1>4, OtherSlots
<1>8. RequestInv'
  <2>1. UNCHANGED <<ledger, known, selectedAccount, page>>
    BY <1>3 DEF store
  <2>2. /\ r.status = "sent" => r.found = {}
        /\ r.rest \subseteq r.found /\ r.data \subseteq r.found
        /\ Cardinality(r.found) <= PageSize
        /\ r.found \subseteq History(r.account, r.type)
        /\ \A u \in r.data : Known(u)
        /\ ~r.stale => r.account = selectedAccount /\ r.page <= page
    BY <1>1 DEF RequestInv
  <2>3. ASSUME NEW u \in InFlight'
        PROVE  /\ requests'[u].status = "sent" => requests'[u].found = {}
               /\ requests'[u].rest \subseteq requests'[u].found
               /\ requests'[u].data \subseteq requests'[u].found
               /\ Cardinality(requests'[u].found) <= PageSize
               /\ requests'[u].found
                    \subseteq History(requests'[u].account, requests'[u].type)
               /\ \A v \in requests'[u].data : Known(v)
               /\ ~requests'[u].stale => /\ requests'[u].account = selectedAccount
                                         /\ requests'[u].page <= page
    <3>1. CASE u # s
      BY <1>7, <3>1 DEF RequestInv
    <3>2. CASE u = s
      <4>1. requests'[u] = q
        BY <1>7, <3>2
      <4>2. d \subseteq r.found /\ \A v \in d : Known(v)
        BY <1>2, <1>5, <2>2
      <4> QED
        BY <1>6, <2>2, <4>1, <4>2
    <3> QED
      BY <3>1, <3>2
  <2> QED
    BY <2>1, <2>3 DEF RequestInv, History, Known
<1>9. OwnInv'
  <2>1. UNCHANGED <<view, selectedAccount, transactions, page, ledger, known, recent,
                    mixed>>
    BY <1>3 DEF store
  <2>2. \A u \in InFlight' : requests'[u].status = "read" =>
              /\ u \in InFlight
              /\ requests[u].status = "read"
              /\ requests'[u].type = requests[u].type
              /\ requests'[u].page = requests[u].page
              /\ requests'[u].stale = requests[u].stale
              /\ requests'[u].found = requests[u].found
    BY <1>1, <1>6, <1>7
  <2> QED
    BY <2>1, <2>2, OwnGoesOn
<1> QED
  BY <1>8, <1>9

\* The reply to the expected request shows the rest of the next page, and turns it
\* only if nothing of it was filtered out.
LEMMA FetchSucceedsStep ==
    ASSUME TypeOK, TypeOK', HomeInv, RequestInv, OwnInv,
           NEW s \in Slot, FetchSucceeds(s)
    PROVE  HomeInv' /\ RequestInv' /\ OwnInv'
<1> DEFINE r == requests[s]
<1>1. s \in InFlight /\ r \in Request /\ r.status = "read"
  BY InFlightIsRequest DEF FetchSucceeds
<1>2. /\ requests' = [requests EXCEPT ![s] = Null]
      /\ transactions' = transactions \cup r.data
      /\ page' = IF Cardinality(r.data) = PageSize THEN page + 1 ELSE page
      /\ mixed' = (mixed \/ ~Expected(r))
      /\ UNCHANGED <<view, selectedAccount, ledger, known, recent>>
  BY DEF FetchSucceeds, backend
<1>3. \A u \in InFlight' : u # s /\ u \in InFlight /\ requests'[u] = requests[u]
  BY <1>2, OtherSlots DEF InFlight
<1>4. page \in Nat /\ page' \in Nat /\ page <= page'
  BY <1>2 DEF TypeOK
<1>5. /\ r.data \subseteq r.found /\ Cardinality(r.found) <= PageSize
      /\ r.found \subseteq History(r.account, r.type)
      /\ \A t \in r.data : Known(t)
      /\ ~r.stale => r.account = selectedAccount
  BY <1>1 DEF RequestInv
<1>6. ASSUME NEW u \in InFlight'
      PROVE  ~requests'[u].stale =>
               /\ requests'[u].account = selectedAccount
               /\ requests'[u].page \in Nat
               /\ requests'[u].page <= page /\ requests'[u].page <= page'
  <2>1. u \in InFlight /\ requests'[u] = requests[u]
    BY <1>3
  <2>2. requests[u].page \in Nat
    BY <2>1, InFlightIsRequest DEF Request
  <2> QED
    BY <1>4, <2>1, <2>2 DEF RequestInv
<1>7. RequestInv'
  BY <1>2, <1>3, <1>6, RequestsGoOn
<1>8. HomeInv'
  <2>1. view = "home" => ~Expected(r)
    BY <1>1 DEF HomeInv, Expected
  <2> QED
    BY <1>2, <1>3, <2>1 DEF HomeInv
<1>9. OwnInv'
  <2> SUFFICES ASSUME ~mixed, Expected(r), view \in HistoryView PROVE OwnInv'
    BY <1>2 DEF OwnInv
  <2>1. /\ transactions \subseteq OwnHistory
        /\ \A t \in transactions : Known(t)
        /\ \A t \in OwnHistory \ recent :
              Rank(OwnHistory, t) <= page * PageSize => t \in transactions
        /\ \A t \in OwnHistory \ recent :
              Rank(OwnHistory, t) <= (page + 1) * PageSize =>
                  t \in transactions \cup r.found
    BY <1>1 DEF OwnInv
  <2>2. r.found \subseteq OwnHistory
    <3>1. ~r.stale /\ r.type = TypeShown(view)
      BY DEF Expected
    <3> QED
      BY <1>5, <3>1 DEF OwnHistory
  <2>3. transactions' \subseteq OwnHistory /\ \A t \in transactions' : Known(t)
    BY <1>2, <1>5, <2>1, <2>2
  <2>4. CASE Cardinality(r.data) = PageSize
    <3>1. r.data = r.found
      <4>1. IsFiniteSet(r.found)
        <5>1. OwnHistory \in SUBSET (1..NumTransactions) /\ NumTransactions \in Nat
          BY OwnIsList
        <5>2. IsFiniteSet(OwnHistory)
          BY <5>1, RankType
        <5> QED
          BY <2>2, <5>2, FS_Subset
      <4>2. /\ Cardinality(r.data) <= Cardinality(r.found)
            /\ Cardinality(r.data) = Cardinality(r.found) => r.data = r.found
        BY <1>5, <4>1, FS_Subset
      <4>3. Cardinality(r.found) \in Nat /\ PageSize \in Nat
        BY <4>1, FS_CardinalityType, HistoryAssumption
      <4> QED
        BY <1>5, <2>4, <4>2, <4>3
    <3>2. page' = page + 1
      BY <1>2, <2>4
    <3>3. \A t \in OwnHistory \ recent :
              Rank(OwnHistory, t) <= page' * PageSize => t \in transactions'
      BY <1>2, <2>1, <3>1, <3>2
    <3>4. \A u \in InFlight' : requests'[u].stale \/ requests'[u].page # page'
      BY <1>4, <1>6, <3>2
    <3> QED
      BY <1>2, <2>3, <3>3, <3>4 DEF OwnInv, OwnHistory, History, Known, Expected
  <2>5. CASE Cardinality(r.data) # PageSize
    <3>1. page' = page
      BY <1>2, <2>5
    <3>2. ASSUME NEW u \in InFlight', Expected(requests'[u]),
                 requests'[u].status = "read",
                 NEW t \in OwnHistory \ recent,
                 Rank(OwnHistory, t) <= (page + 1) * PageSize
          PROVE  t \in transactions' \cup requests'[u].found
      <4>1. u \in InFlight /\ requests'[u] = requests[u]
        BY <1>3
      <4> QED
        BY <1>2, <3>2, <4>1 DEF OwnInv
    <3>3. \A u \in InFlight' : Expected(requests[u])' => Expected(requests'[u])
      BY <1>2, <3>1 DEF Expected
    <3>4. \A t \in OwnHistory \ recent :
              Rank(OwnHistory, t) <= page * PageSize => t \in transactions'
      BY <1>2, <2>1
    <3>5. OwnHistory' = OwnHistory /\ \A t : Known(t)' <=> Known(t)
      BY <1>2 DEF OwnHistory, History, Known
    <3> QED
      BY <1>2, <2>3, <3>1, <3>2, <3>3, <3>4, <3>5 DEF OwnInv
  <2> QED
    BY <2>4, <2>5
<1> QED
  BY <1>7, <1>8, <1>9

\* A step that may end requests and start one for the next page.
LEMMA QuietStep ==
    ASSUME TypeOK, TypeOK', HomeInv, RequestInv, OwnInv,
           ledger \subseteq ledger', known \subseteq known',
           ledger' \ recent' \subseteq ledger \ recent,
           UNCHANGED <<view, selectedAccount, transactions, page, mixed>>,
           \A u \in InFlight' :
              \/ u \in InFlight /\ requests'[u] = requests[u]
              \/ /\ view \in HistoryView
                 /\ \E type \in Type :
                       requests'[u] = NewRequest(selectedAccount, type, page)
    PROVE  HomeInv' /\ RequestInv' /\ OwnInv'
<1>1. \A type \in Type :
        LET r == NewRequest(selectedAccount, type, page)
        IN  /\ r.account = selectedAccount /\ r.page = page /\ r.status = "sent"
            /\ r.found = {} /\ r.rest = {} /\ r.data = {}
  BY DEF NewRequest
<1>2. page \in Nat
  BY DEF TypeOK
<1>3. HomeInv'
  BY DEF HomeInv, HistoryView
<1>4. RequestInv'
  <2>1. ASSUME NEW u \in InFlight', ~requests'[u].stale
        PROVE  requests'[u].account = selectedAccount' /\ requests'[u].page <= page'
    <3>1. CASE u \in InFlight /\ requests'[u] = requests[u]
      BY <2>1, <3>1 DEF RequestInv
    <3>2. CASE \E type \in Type :
                  requests'[u] = NewRequest(selectedAccount, type, page)
      BY <1>1, <1>2, <3>2
    <3> QED
      BY <3>1, <3>2
  <2> QED
    BY <1>1, <2>1, RequestsGoOn
<1>5. OwnInv'
  <2>1. \A u \in InFlight' : requests'[u].status = "read" =>
           u \in InFlight /\ requests'[u] = requests[u]
    BY <1>1
  <2> QED
    BY <2>1, OwnGoesOn
<1> QED
  BY <1>3, <1>4, <1>5

\* A step after which every older request is stale, and of the younger ones only
\* one for the next page is not.
LEMMA AllStaleStep ==
    ASSUME TypeOK, TypeOK', RequestInv, ledger' = ledger, known' = known,
           \A u \in InFlight' :
              \/ /\ u \in InFlight
                 /\ requests'[u] = [requests[u] EXCEPT !.stale = TRUE]
              \/ /\ requests'[u].status = "sent"
                 /\ requests'[u].found = {}
                 /\ requests'[u].rest = {}
                 /\ requests'[u].data = {}
                 /\ ~requests'[u].stale => /\ requests'[u].account = selectedAccount'
                                           /\ requests'[u].page = page'
    PROVE  /\ RequestInv'
           /\ transactions' = {} /\ page' = 0 => OwnInv'
<1>1. \A u \in InFlight :
        LET r == [requests[u] EXCEPT !.stale = TRUE]
        IN  /\ r.account = requests[u].account /\ r.type = requests[u].type
            /\ r.status = requests[u].status /\ r.found = requests[u].found
            /\ r.rest = requests[u].rest /\ r.data = requests[u].data /\ r.stale
  <2> TAKE u \in InFlight
  <2>1. requests[u] \in Request
    BY InFlightIsRequest
  <2> QED
    BY <2>1 DEF Request
<1>2. page' \in Nat
  BY DEF TypeOK
<1>3. RequestInv'
  <2>1. ASSUME NEW u \in InFlight', ~requests'[u].stale
        PROVE  requests'[u].account = selectedAccount' /\ requests'[u].page <= page'
    <3>1. requests'[u].account = selectedAccount' /\ requests'[u].page = page'
      BY <1>1, <2>1
    <3> QED
      BY <1>2, <3>1
  <2>2. \A u \in InFlight' :
          \/ /\ u \in InFlight
             /\ requests'[u].account = requests[u].account
             /\ requests'[u].type = requests[u].type
             /\ requests'[u].status = requests[u].status
             /\ requests'[u].found = requests[u].found
             /\ requests'[u].rest = requests[u].rest
             /\ requests'[u].data = requests[u].data
          \/ /\ requests'[u].found = {}
             /\ requests'[u].rest = {}
             /\ requests'[u].data = {}
    <3> TAKE u \in InFlight'
    <3>1. CASE u \in InFlight /\ requests'[u] = [requests[u] EXCEPT !.stale = TRUE]
      BY <1>1, <3>1
    <3>2. CASE ~(u \in InFlight /\ requests'[u] = [requests[u] EXCEPT !.stale = TRUE])
      BY <3>2
    <3> QED
      BY <3>1, <3>2
  <2> QED
    BY <2>1, <2>2, RequestsGoOn
<1>4. \A u \in InFlight' : requests'[u].stale \/ requests'[u].status # "read"
  BY <1>1
<1>5. transactions' = {} /\ page' = 0 => OwnInv'
  <2>1. transactions' = {} /\ page' = 0 => Fresh'
    BY <1>4 DEF Fresh
  <2> QED
    BY <2>1, FreshIsOwn, PTL
<1> QED
  BY <1>3, <1>5

\* The requests after the reaction on the account, and after a change from one
\* history page to the other.
LEMMA SlotsAfterSelect ==
    ASSUME TypeOK, CanFetch, NEW a \in Account, NEW type \in Type, NEW p \in Nat,
           NEW u \in Slot, WithRequest(Stale(requests), a, type, p)[u] # Null
    PROVE  \/ /\ u \in InFlight
              /\ WithRequest(Stale(requests), a, type, p)[u]
                   = [requests[u] EXCEPT !.stale = TRUE]
           \/ WithRequest(Stale(requests), a, type, p)[u] = NewRequest(a, type, p)
<1> DEFINE new == NewRequest(a, type, p)
           st == Stale(requests)
           ws == WithRequest(st, a, type, p)
<1>1. /\ st \in Requests
      /\ \A s \in Slot : requests[s] = Null => st[s] = Null
      /\ st[u] # Null => u \in InFlight /\ st[u] = [requests[u] EXCEPT !.stale = TRUE]
  BY StaleRequests DEF InFlight, TypeOK, Requests
<1>2. \E s \in Slot : requests[s] = Null
  BY FreeSlot
<1>n. ws[u] # Null
  OBVIOUS
<1> HIDE DEF st
<1>3. ws[u] \in {st[u], new}
  BY <1>1, <1>2, WithRequestTakesFree
<1> HIDE DEF ws, new
<1>4. \/ u \in InFlight /\ ws[u] = [requests[u] EXCEPT !.stale = TRUE]
      \/ ws[u] = new
  BY <1>1, <1>3, <1>n
<1> QED
  BY <1>4 DEF st, ws, new

LEMMA SlotsAfterSwitch ==
    ASSUME TypeOK, CanFetch, NEW a \in Account, NEW type \in Type, NEW p \in Nat,
           NEW u \in Slot, Stale(WithRequest(requests, a, type, p))[u] # Null
    PROVE  \/ /\ u \in InFlight
              /\ Stale(WithRequest(requests, a, type, p))[u]
                   = [requests[u] EXCEPT !.stale = TRUE]
           \/ Stale(WithRequest(requests, a, type, p))[u]
                = [NewRequest(a, type, p) EXCEPT !.stale = TRUE]
<1> DEFINE new == NewRequest(a, type, p)
           wi == WithRequest(requests, a, type, p)
           sw == Stale(wi)
<1>1. \E s \in Slot : requests[s] = Null
  BY FreeSlot
<1>2. requests \in Requests
  BY DEF TypeOK, Requests
<1>n. sw[u] # Null
  OBVIOUS
<1>3. wi \in Requests /\ wi[u] \in {requests[u], new}
  BY <1>1, <1>2, WithRequestTakesFree
<1> HIDE DEF wi, new
<1>4. wi[u] # Null /\ sw[u] = [wi[u] EXCEPT !.stale = TRUE]
  BY <1>3, <1>n, StaleRequests
<1> HIDE DEF sw
<1>5. wi[u] = requests[u] \/ wi[u] = new
  BY <1>3
<1>6. \/ u \in InFlight /\ sw[u] = [requests[u] EXCEPT !.stale = TRUE]
      \/ sw[u] = [new EXCEPT !.stale = TRUE]
  BY <1>4, <1>5 DEF InFlight
<1> QED
  BY <1>6 DEF wi, sw, new

LEMMA HistoryInit == Init => HistoryInv
<1> SUFFICES ASSUME Init PROVE HistoryInv
  OBVIOUS
<1>1. TypeOK
  BY TypeInit
<1>2. ~refreshOnAccountChange /\ view \notin HistoryView /\ InFlight = {}
      /\ transactions = {} /\ page = 0
  BY DEF Init, HistoryView, InFlight
<1> QED
  BY <1>1, <1>2 DEF HistoryInv, RouteInv, HomeInv, RequestInv, OwnInv

\* The store is begun anew by the routes and by the reaction on the account.
LEMMA BeginStep ==
    ASSUME HistoryInv, TypeOK',
           \/ Exit
           \/ \E a \in Account : SelectAccount(a)
           \/ \E v \in HistoryView : Enter(v) \/ Switch(v)
    PROVE  HistoryInv'
<1> USE DEF HistoryInv
<1>1. requests \in Requests /\ selectedAccount \in Account /\ transactionType \in Type
      /\ page \in Nat /\ view \in View
  BY DEF TypeOK, Requests
<1>2. View = HistoryView \cup {"home"} /\ "home" \notin HistoryView
  BY DEF View, HistoryView
<1>3. \A a, type, p :
        /\ NewRequest(a, type, p).account = a /\ NewRequest(a, type, p).page = p
        /\ NewRequest(a, type, p).status = "sent"
        /\ NewRequest(a, type, p).found = {} /\ NewRequest(a, type, p).rest = {}
        /\ NewRequest(a, type, p).data = {}
  BY DEF NewRequest
<1>4. \A a, type, p :
        LET r == [NewRequest(a, type, p) EXCEPT !.stale = TRUE]
        IN  /\ r.status = "sent" /\ r.stale
            /\ r.found = {} /\ r.rest = {} /\ r.data = {}
  BY DEF NewRequest
<1>5. ASSUME Exit PROVE HistoryInv'
  <2>1. /\ view' = "home" /\ ~refreshOnAccountChange' /\ transactions' = {} /\ page' = 0
        /\ requests' = Stale(requests) /\ UNCHANGED <<ledger, known>>
    BY <1>5 DEF Exit, Reset, backend
  <2>2. \A u \in InFlight' :
            u \in InFlight /\ requests'[u] = [requests[u] EXCEPT !.stale = TRUE]
    BY <1>1, <2>1, StaleRequests DEF InFlight
  <2>3. RequestInv' /\ OwnInv'
    BY <2>1, <2>2, AllStaleStep
  <2>4. HomeInv'
    <3>1. \A u \in InFlight' : requests'[u].stale
      <4> TAKE u \in InFlight'
      <4>1. requests[u] \in Request /\ requests'[u] = [requests[u] EXCEPT !.stale = TRUE]
        BY <2>2, InFlightIsRequest
      <4> QED
        BY <4>1 DEF Request
    <3> QED
      BY <2>1, <3>1 DEF HomeInv
  <2> QED
    BY <1>2, <2>1, <2>3, <2>4 DEF RouteInv
<1>6. ASSUME NEW a \in Account, SelectAccount(a) PROVE HistoryInv'
  <2>1. /\ view' = view /\ refreshOnAccountChange /\ selectedAccount' = a
        /\ UNCHANGED <<refreshOnAccountChange, transactionType, ledger, known>>
        /\ transactions' = {} /\ page' = 0 /\ CanFetch
        /\ requests' = WithRequest(Stale(requests), a, transactionType, 0)
    BY <1>6 DEF SelectAccount, backend
  <2>2. \A u \in InFlight' :
           \/ u \in InFlight /\ requests'[u] = [requests[u] EXCEPT !.stale = TRUE]
           \/ requests'[u] = NewRequest(a, transactionType, 0)
    <3> TAKE u \in InFlight'
    <3> DEFINE rs == WithRequest(Stale(requests), a, transactionType, 0)
    <3>1. requests' = rs /\ u \in Slot /\ rs[u] # Null /\ 0 \in Nat
      BY <2>1 DEF InFlight
    <3>2. \/ u \in InFlight /\ rs[u] = [requests[u] EXCEPT !.stale = TRUE]
          \/ rs[u] = NewRequest(a, transactionType, 0)
      BY <1>1, <2>1, <3>1, SlotsAfterSelect
    <3> HIDE DEF rs
    <3> QED
      BY <3>1, <3>2
  <2>3. RequestInv' /\ OwnInv'
    BY <1>3, <2>1, <2>2, AllStaleStep
  <2>4. view \in HistoryView /\ transactionType = TypeShown(view)
    BY <2>1 DEF RouteInv
  <2> QED
    BY <1>2, <2>1, <2>3, <2>4 DEF RouteInv, HomeInv, TypeShown
<1>7. ASSUME NEW v \in HistoryView, Switch(v) PROVE HistoryInv'
  <2>1. /\ view' = v /\ ~refreshOnAccountChange' /\ transactions' = {} /\ page' = 0
        /\ UNCHANGED <<selectedAccount, ledger, known>> /\ CanFetch
        /\ requests' = Stale(WithRequest(requests, selectedAccount, TypeShown(v), page))
    BY <1>7 DEF Switch, Reset, backend
  <2>2. TypeShown(v) \in Type
    BY <1>2, TypeShownType
  <2>3. \A u \in InFlight' :
           \/ u \in InFlight /\ requests'[u] = [requests[u] EXCEPT !.stale = TRUE]
           \/ requests'[u] = [NewRequest(selectedAccount, TypeShown(v), page)
                                EXCEPT !.stale = TRUE]
    <3> TAKE u \in InFlight'
    <3> DEFINE rs == Stale(WithRequest(requests, selectedAccount, TypeShown(v), page))
    <3>1. requests' = rs /\ u \in Slot /\ rs[u] # Null
      BY <2>1 DEF InFlight
    <3>2. \/ u \in InFlight /\ rs[u] = [requests[u] EXCEPT !.stale = TRUE]
          \/ rs[u] = [NewRequest(selectedAccount, TypeShown(v), page)
                        EXCEPT !.stale = TRUE]
      BY <1>1, <2>1, <2>2, <3>1, SlotsAfterSwitch
    <3> HIDE DEF rs
    <3> QED
      BY <3>1, <3>2
  <2>4. RequestInv' /\ OwnInv'
    <3> DEFINE new == [NewRequest(selectedAccount, TypeShown(v), page)
                         EXCEPT !.stale = TRUE]
    <3>1. /\ new.status = "sent" /\ new.stale
          /\ new.found = {} /\ new.rest = {} /\ new.data = {}
      BY <1>4
    <3>2. \A u \in InFlight' :
             \/ u \in InFlight /\ requests'[u] = [requests[u] EXCEPT !.stale = TRUE]
             \/ requests'[u] = new
      BY <2>3
    <3> HIDE DEF new
    <3> QED
      BY <2>1, <3>1, <3>2, AllStaleStep
  <2> QED
    BY <1>2, <2>1, <2>4 DEF RouteInv, HomeInv
<1>8. ASSUME NEW v \in HistoryView, Enter(v) PROVE HistoryInv'
  <2>1. /\ view = "home" /\ view' = v /\ transactionType' = TypeShown(v) /\ CanFetch
        /\ requests' = WithRequest(requests, selectedAccount, TypeShown(v), page)
        /\ UNCHANGED <<selectedAccount, transactions, page, ledger, known, mixed>>
    BY <1>1, <1>2, <1>8 DEF Enter, backend
  <2>2. \A u \in InFlight : requests[u].stale
    BY <2>1 DEF HomeInv
  <2>3. \A u \in InFlight' :
           \/ u \in InFlight /\ requests'[u] = requests[u]
           \/ requests'[u] = NewRequest(selectedAccount, TypeShown(v), page)
    <3>1. TypeShown(v) \in Type
      BY <1>2, TypeShownType
    <3>2. \A u \in Slot : WithRequest(requests, selectedAccount, TypeShown(v), page)[u]
             \in {requests[u], NewRequest(selectedAccount, TypeShown(v), page)}
      BY <1>1, <2>1, <3>1, FreeSlot, WithRequestTakesFree
    <3> QED
      BY <2>1, <3>2 DEF InFlight
  <2>4. \A u \in InFlight' :
           \/ /\ u \in InFlight
              /\ requests'[u] = [requests[u] EXCEPT !.stale = TRUE]
           \/ requests'[u] = NewRequest(selectedAccount, TypeShown(v), page)
    <3> SUFFICES ASSUME NEW u \in InFlight, requests'[u] = requests[u]
                 PROVE  requests[u] = [requests[u] EXCEPT !.stale = TRUE]
      BY <2>3
    <3>1. requests[u] \in Request /\ requests[u].stale = TRUE
      BY <2>2, InFlightIsRequest DEF Request
    <3> QED
      BY <3>1 DEF Request
  <2>5. /\ RequestInv'
        /\ transactions' = {} /\ page' = 0 => OwnInv'
    BY <1>3, <2>1, <2>4, AllStaleStep
  <2>6. OwnInv'
    <3>1. CASE mixed
      BY <2>1, <3>1 DEF OwnInv
    <3>2. CASE ~mixed
      BY <2>1, <2>5, <3>2 DEF HomeInv
    <3> QED
      BY <3>1, <3>2
  <2> QED
    BY <1>2, <2>1, <2>5, <2>6 DEF RouteInv, HomeInv
<1> QED
  BY <1>5, <1>6, <1>7, <1>8

LEMMA HistoryStep ==
    ASSUME HistoryInv, [Next]_vars
    PROVE  HistoryInv'
<1> USE DEF HistoryInv
<1>1. TypeOK'
  BY TypeStep
<1>2. requests \in Requests /\ selectedAccount \in Account /\ transactionType \in Type
      /\ page \in Nat
  BY DEF TypeOK, Requests
<1>3. ASSUME NEW t \in Transaction, Arrive(t) PROVE HistoryInv'
  <2>1. /\ UNCHANGED <<view, selectedAccount, store, requests, known, mixed>>
        /\ ledger' = ledger \cup {t} /\ recent' = recent \cup {t}
    BY <1>3 DEF Arrive
  <2>2. HomeInv' /\ RequestInv' /\ OwnInv'
    BY <1>1, <2>1, QuietStep DEF InFlight, store
  <2> QED
    BY <1>1, <2>1, <2>2 DEF RouteInv, store
<1>4. ASSUME NEW o \in DataOwner, RecordOwner(o) PROVE HistoryInv'
  <2>1. /\ UNCHANGED <<view, selectedAccount, store, requests, ledger, recent, mixed>>
        /\ known' = known \cup {o}
    BY <1>4 DEF RecordOwner
  <2>2. HomeInv' /\ RequestInv' /\ OwnInv'
    BY <1>1, <2>1, QuietStep DEF InFlight, store
  <2> QED
    BY <1>1, <2>1, <2>2 DEF RouteInv, store
<1>5. ASSUME NEW s \in Slot, ReadPage(s) \/ MapTransaction(s) PROVE HistoryInv'
  <2>1. UNCHANGED <<view, store, mixed>> /\ s \in InFlight
    BY <1>5 DEF ReadPage, MapTransaction
  <2>2. RequestInv' /\ OwnInv'
    BY <1>1, <1>5, ReadPageStep, MapTransactionStep
  <2>3. HomeInv'
    <3>1. \E q : requests' = [requests EXCEPT ![s] = q] /\ q.stale = requests[s].stale
      <4>1. requests[s] \in Request
        BY <2>1, InFlightIsRequest
      <4> DEFINE r == requests[s]
      <4>2. ASSUME NEW status, NEW found
            PROVE  [r EXCEPT !.status = status, !.found = found, !.rest = found].stale
                     = r.stale
        BY <4>1 DEF Request
      <4>3. ASSUME NEW rest, NEW data
            PROVE  [r EXCEPT !.rest = rest, !.data = data].stale = r.stale
        BY <4>1 DEF Request
      <4> HIDE DEF r
      <4>4. CASE ReadPage(s)
        BY <4>2, <4>4 DEF ReadPage, r
      <4>5. CASE MapTransaction(s)
        <5>1. PICK t \in r.rest : requests' =
                 [requests EXCEPT ![s] =
                    [r EXCEPT !.rest = r.rest \ {t},
                              !.data = IF Known(t) THEN r.data \cup {t} ELSE r.data]]
          BY <4>5 DEF MapTransaction, r
        <5> DEFINE d == IF Known(t) THEN r.data \cup {t} ELSE r.data
        <5>2. requests' = [requests EXCEPT ![s] = [r EXCEPT !.rest = r.rest \ {t},
                                                            !.data = d]]
          BY <5>1
        <5> HIDE DEF d
        <5>3. [r EXCEPT !.rest = r.rest \ {t}, !.data = d].stale = r.stale
          BY <4>3
        <5> QED
          BY <5>2, <5>3 DEF r
      <4> QED
        BY <1>5, <4>4, <4>5
    <3>2. \A u \in InFlight' : u \in InFlight /\ requests'[u].stale = requests[u].stale
      BY <2>1, <3>1, OtherSlots
    <3> QED
      BY <2>1, <3>2 DEF HomeInv, store
  <2> QED
    BY <1>1, <2>1, <2>2, <2>3 DEF RouteInv, store
<1>6. ASSUME NEW s \in Slot, ServiceNodeFails(s) \/ FetchFails(s) PROVE HistoryInv'
  <2>1. /\ UNCHANGED <<view, selectedAccount, transactions, page, transactionType,
                       refreshOnAccountChange, ledger, known, recent, mixed>>
        /\ requests' = [requests EXCEPT ![s] = Null]
    BY <1>6 DEF ServiceNodeFails, FetchFails, store, backend
  <2>2. \A u \in InFlight' : u \in InFlight /\ requests'[u] = requests[u]
    BY <2>1, OtherSlots DEF InFlight
  <2>3. HomeInv' /\ RequestInv' /\ OwnInv'
    BY <1>1, <2>1, <2>2, QuietStep
  <2> QED
    BY <1>1, <2>1, <2>3 DEF RouteInv
<1>7. ASSUME NEW s \in Slot, FetchSucceeds(s) PROVE HistoryInv'
  <2>1. UNCHANGED <<view, transactionType, refreshOnAccountChange>>
    BY <1>7 DEF FetchSucceeds
  <2> QED
    BY <1>1, <1>7, <2>1, FetchSucceedsStep DEF RouteInv
<1>8. ASSUME LoadMore PROVE HistoryInv'
  <2>1. /\ view \in HistoryView /\ CanFetch
        /\ UNCHANGED <<view, selectedAccount, transactions, page, transactionType,
                       refreshOnAccountChange, ledger, known, recent, mixed>>
        /\ requests' = WithRequest(requests, selectedAccount, transactionType, page)
    BY <1>8 DEF LoadMore, backend
  <2>2. \A u \in InFlight' :
           \/ u \in InFlight /\ requests'[u] = requests[u]
           \/ requests'[u] = NewRequest(selectedAccount, transactionType, page)
    <3>1. \A u \in Slot : WithRequest(requests, selectedAccount, transactionType, page)[u]
             \in {requests[u], NewRequest(selectedAccount, transactionType, page)}
      BY <1>2, <2>1, FreeSlot, WithRequestTakesFree
    <3> QED
      BY <2>1, <3>1 DEF InFlight
  <2>3. HomeInv' /\ RequestInv' /\ OwnInv'
    BY <1>1, <1>2, <2>1, <2>2, QuietStep
  <2> QED
    BY <1>1, <2>1, <2>3 DEF RouteInv
<1>9. ASSUME NEW a \in Account, SelectAccountUnnoticed(a) PROVE HistoryInv'
  <2>1. /\ ~refreshOnAccountChange /\ requests' = Stale(requests)
        /\ mixed' = (mixed \/ view \in HistoryView)
        /\ UNCHANGED <<view, transactions, page, refreshOnAccountChange, ledger, known>>
    BY <1>9 DEF SelectAccountUnnoticed, store, backend
  <2>2. \A u \in InFlight' :
            u \in InFlight /\ requests'[u] = [requests[u] EXCEPT !.stale = TRUE]
    BY <1>2, <2>1, StaleRequests DEF InFlight
  <2>3. RequestInv'
    BY <1>1, <2>1, <2>2, AllStaleStep
  <2>4. \A u \in InFlight' : requests'[u].stale
    <3> TAKE u \in InFlight'
    <3>1. requests[u] \in Request /\ requests'[u] = [requests[u] EXCEPT !.stale = TRUE]
      BY <2>2, InFlightIsRequest
    <3> QED
      BY <3>1 DEF Request
  <2>5. HomeInv' /\ OwnInv' /\ RouteInv'
    BY <2>1, <2>4 DEF HomeInv, OwnInv, RouteInv
  <2> QED
    BY <1>1, <2>3, <2>5
<1>10. CASE UNCHANGED vars
  <2>1. UNCHANGED <<view, selectedAccount, transactions, page, transactionType, requests,
                    refreshOnAccountChange, ledger, known, recent, mixed>>
    BY <1>10 DEF vars, store, backend
  <2>2. HomeInv' /\ RequestInv' /\ OwnInv'
    BY <1>1, <2>1, QuietStep DEF InFlight
  <2> QED
    BY <1>1, <2>1, <2>2 DEF RouteInv
<1> QED
  BY <1>1, <1>3, <1>4, <1>5, <1>6, <1>7, <1>8, <1>9, <1>10, BeginStep DEF Next

\* The store, its requests and what the backend has read for them fit together.
THEOREM HistoryInvariant == Spec => []HistoryInv
BY HistoryInit, HistoryStep, PTL DEF Spec

\* A history page shows nothing but transactions of the account that is selected,
\* of its type and with a data owner the backend knows, until a reply is applied
\* that was not meant for what the store shows, although transactions and data
\* owners come while pages are read.
THEOREM ShownIsOwnHistory == Spec => []ShowsOwnHistory
<1>1. HistoryInv => ShowsOwnHistory
  BY DEF HistoryInv, OwnInv, OwnHistory, ShowsOwnHistory
<1> QED
  BY <1>1, HistoryInvariant, PTL

\* If the backend knows all data owners of a history in the end, then "Load more"
\* brings something new until all of it is shown that was there at its beginning.
THEOREM AllIsReached == Spec => []LoadMoreReachesAll
<1>1. ASSUME HistoryInv PROVE LoadMoreReachesAll
  <2> SUFFICES ASSUME refreshOnAccountChange, ~mixed, NothingMore,
                      \A t \in OwnHistory : Known(t),
                      NEW t \in OwnHistory \ recent
               PROVE  t \in transactions
    BY DEF LoadMoreReachesAll, OwnHistory
  <2>1. /\ TypeOK /\ page \in Nat /\ view \in HistoryView
        /\ Rank(OwnHistory, t) <= page * PageSize => t \in transactions
    BY <1>1 DEF HistoryInv, TypeOK, RouteInv, OwnInv
  <2>2. /\ Cardinality(PageOf(OwnHistory, page)) < PageSize
        /\ PageOf(OwnHistory, page) \subseteq transactions
    <3>1. {u \in PageOf(OwnHistory, page) : Known(u)} = PageOf(OwnHistory, page)
      BY DEF PageOf
    <3> QED
      BY <3>1 DEF NothingMore, OwnHistory
  <2>3. OwnHistory \in SUBSET (1..NumTransactions) /\ NumTransactions \in Nat
    BY <2>1, OwnIsList
  <2>4. /\ Rank(OwnHistory, t) \in Nat
        /\ Rank(OwnHistory, t) <= (page + 1) * PageSize
    BY <2>1, <2>2, <2>3, RankGrows, ShortPageIsLast
  <2>5. CASE page * PageSize < Rank(OwnHistory, t)
    BY <2>2, <2>4, <2>5 DEF PageOf
  <2>6. page * PageSize \in Nat
    BY <2>1, PageBounds
  <2> QED
    BY <2>1, <2>4, <2>5, <2>6
<1> QED
  BY <1>1, HistoryInvariant, PTL
=============================================================================

------------------------ MODULE MCTransactionsHistory ------------------------
(* Two accounts with three and one transactions, pages of two.              *)
EXTENDS TransactionsHistory
CONSTANTS a1, a2, o1, o2
MCAccountOf == [t \in Transaction |-> IF t = 3 THEN a2 ELSE a1]
MCPurchases == {2, 3}
\* Data owner o2 is recorded later.
MCOwnerOf == [t \in Transaction |-> IF t = 2 THEN o2 ELSE o1]
\* The first transaction of the list is made while pages are read.
MCInitialLedger == 2..NumTransactions
=============================================================================

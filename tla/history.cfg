\* Requests overlap, fail and are overtaken by the user's clicks, by new
\* transactions and by a data owner that is recorded.
SPECIFICATION FairSpec
CONSTANTS
    a1 = a1
    a2 = a2
    o1 = o1
    o2 = o2
    Null = Null
    Account = {a1, a2}
    NumTransactions = 4
    AccountOf <- MCAccountOf
    Purchases <- MCPurchases
    DataOwner = {o1, o2}
    OwnerOf <- MCOwnerOf
    LocalOwners = {o1, o2}
    InitialOwners = {o1}
    InitialLedger <- MCInitialLedger
    PageSize = 2
    MaxInFlight = 2
    MaxFaults = 1
INVARIANTS
    ShowsOwnHistory
    LoadMoreReachesAll
PROPERTIES
    LoadingEnds

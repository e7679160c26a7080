\* Calls, uploads, refreshes to any list, failures and restarts.
SPECIFICATION FairRoutingSpec
CONSTANTS
    MaxNodes = 3
    InitialKey = TRUE
    MaxFaults = 2
    Upload = {u1}
    Node = {n1, n2, n3}
    Chunks = 2
    NoNode = NoNode
INVARIANTS
    NoStarvation
    ListensWithAccount
    RoutingInv
    HandedOverWhole
PROPERTIES
    StartupEnds
    UploadArrives

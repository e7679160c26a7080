\* Extensions one after the other, each of which runs to its end.
SPECIFICATION FairSpec
CONSTANTS
    LocalFile = {l1}
    Upload = {u1}
    Check = {c1}
    Extend = {e1, e2}
    FileId = {f1}
    Date = {d1, d2, d3}
    DocId = {1, 2}
    Null = Null
    MaxChunks = 1
    MaxFaults = 0
    MaxActiveExtends = 1
INVARIANTS
    CopiesAgreeAtRest
PROPERTIES
    ReportedThenListed
    ExtendIsAnswered
CHECK_DEADLOCK FALSE

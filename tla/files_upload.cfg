\* Two uploads of one local file, with a failure or a crash.
SPECIFICATION Spec
CONSTANTS
    LocalFile = {l1}
    Upload = {u1, u2}
    Check = {c1}
    Extend = {}
    FileId = {f1, f2}
    Date = {d1}
    DocId = {1, 2}
    Null = Null
    MaxChunks = 2
    MaxFaults = 1
    MaxActiveExtends = 0
INVARIANTS
    IInv
    KeyStoredBeforeData
    FileDocHasKeyOfContent
    SentToDdsWhole
PROPERTIES
    ImplementsCustody
CHECK_DEADLOCK FALSE

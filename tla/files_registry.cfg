\* Two status checks and two extensions of one file at the same time, with a
\* failure or a crash.
SPECIFICATION Spec
CONSTANTS
    LocalFile = {l1}
    Upload = {u1}
    Check = {c1, c2}
    Extend = {e1, e2}
    FileId = {f1}
    Date = {d1, d2}
    DocId = {1, 2, 3, 4}
    Null = Null
    MaxChunks = 1
    MaxFaults = 1
    MaxActiveExtends = 2
SYMMETRY MCSymmetry
INVARIANTS
    RecordedFilesAreStored
    OwnerRefersToFile
    DatesWereAccepted
PROPERTIES
    RecordsAreKept
CHECK_DEADLOCK FALSE

\* Two uploads; the user attaches, describes, resets and closes meanwhile.
SPECIFICATION ClientSpec
CONSTANTS
    LocalFile = {l1, l2}
    Upload = {u1, u2}
    Check = {c1, c2}
    Extend = {}
    FileId = {f1, f2}
    Date = {d1}
    DocId = {1, 2, 3, 4}
    Null = Null
    MaxChunks = 1
    MaxFaults = 0
    MaxActiveExtends = 0
    doc1 = doc1
    doc2 = doc2
    Document = {doc1}
    ChunksOf <- MCChunksOf
    MaxLost = 1
SYMMETRY MCSymmetry
INVARIANTS
    OneUploadAtATime
    SuccessIsStored
CHECK_DEADLOCK FALSE

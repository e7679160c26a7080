\* One upload with a lost call and a failure or crash of the backend.
SPECIFICATION FairClientSpec
CONSTANTS
    LocalFile = {l1}
    Upload = {u1}
    Check = {c1, c2}
    Extend = {}
    FileId = {f1}
    Date = {d1}
    DocId = {1, 2}
    Null = Null
    MaxChunks = 2
    MaxFaults = 1
    MaxActiveExtends = 0
    doc1 = doc1
    doc2 = doc2
    Document = {doc1, doc2}
    ChunksOf <- MCChunksOf
    MaxLost = 1
INVARIANTS
    ClientTypeOK
    UploadIsOneDocument
    OneRecordPerFile
    CopyOutlivesUpload
PROPERTIES
    UploadFinishes
CHECK_DEADLOCK FALSE

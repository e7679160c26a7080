\* Every document around the chunk boundaries, two at a time; metadata of two
\* keys that is edited until it is sent.
SPECIFICATION FormSpec
CONSTANTS
    ChunkSize = 6
    MaxBytes = 20
    Key = {"briefDescription", "hashTags"}
    MaxLength = 2
INVARIANTS
    ContentArrivesWhole
    MetadataFitsKeys
CHECK_DEADLOCK FALSE

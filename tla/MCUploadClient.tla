--------------------------- MODULE MCUploadClient ---------------------------
(* Instances of UploadClient: documents cut in one or two chunks.          *)
EXTENDS UploadClient, TLC
CONSTANTS doc1, doc2
MCChunksOf == [x \in Document |-> IF x = doc2 THEN 2 ELSE 1]
\* No definition orders the requests or the files of the service node.
MCSymmetry ==
    UNION {Permutations(S) : S \in {LocalFile, Upload, Check, FileId}}
=============================================================================

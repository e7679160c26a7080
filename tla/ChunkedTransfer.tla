--------------------------- MODULE ChunkedTransfer ---------------------------
(***************************************************************************)
(* How the content of a file gets to the service node: the front end cuts  *)
(* it in chunks, encodes each in Base64 and appends it to the local file   *)
(* (UploadDataStore.uploadFileByChunks); the backend has the local file    *)
(* encrypted and sends the result in chunks again (FilesService.upload-    *)
(* FileToServiceNodeByChunks).  Both strip the padding off every chunk but *)
(* the last one.                                                           *)
(*                                                                         *)
(* Bytes are named by their positions in the file.  A character of an      *)
(* encoding is named by what determines it: its place in a group of four   *)
(* and the bytes its six bits come from.  The encryptor is external: its   *)
(* result is Base64 text of any length.                                    *)
(***************************************************************************)
EXTENDS Integers, Sequences

CONSTANTS
    ChunkSize,   \* CHUNK_SIZE and chunkSize, 5242878 in both
    MaxBytes     \* bound: bytes of a file, before and after encryption

\* 5242878 = 6 * 873813
ASSUME ChunkAssumption ==
    /\ ChunkSize \in Nat \ {0} /\ ChunkSize % 6 = 0
    /\ MaxBytes \in Nat

VARIABLES
    phase,
    size,           \* of the attached file
    currentChunk,   \* of the loop that is running
    local,          \* the local file
    text,           \* what the encryptor returned
    received        \* what the service node has

vars == <<phase, size, currentChunk, local, text, received>>

Pad == [place |-> 4, bytes |-> {}]

\* The character at place r of the group that starts with byte b, of bytes
\* up to last: the third and fourth one may be padding.
Character(b, r, last) ==
    LET bytes == CASE r = 0 -> {b}
                   [] r = 1 -> {b, b + 1}
                   [] r = 2 -> {b + 1, b + 2}
                   [] r = 3 -> {b + 2}
    IN  IF (r = 2 /\ b + 1 > last) \/ (r = 3 /\ b + 2 > last) THEN Pad
        ELSE [place |-> r, bytes |-> bytes \cap (b..last)]

\* Base64 of the bytes from (included) to (excluded).
Base64(from, to) ==
    [i \in 1..4 * ((to - from + 2) \div 3) |->
        Character(from + 3 * ((i - 1) \div 4), (i - 1) % 4, to - 1)]

Min(a, b) == IF a < b THEN a ELSE b

\* slice(offset, offset + ChunkSize) of a text.
Slice(s, offset) == SubSeq(s, offset + 1, Min(offset + ChunkSize, Len(s)))

\* substring(0, indexOf("=")) of a chunk that ends with one.
StripPadding(s) ==
    IF s # <<>> /\ s[Len(s)] = Pad
      THEN SubSeq(s, 1, (CHOOSE i \in DOMAIN s :
                            s[i] = Pad /\ \A j \in 1..(i - 1) : s[j] # Pad) - 1)
      ELSE s

\* Mutant: the last chunk loses its padding too.
Chunk_AllStripped(s, offset, total) == StripPadding(s)

\* Only the last chunk keeps its padding.
Chunk(s, offset, total) ==
    IF offset + ChunkSize < total THEN StripPadding(s) ELSE s

Offset == currentChunk * ChunkSize

-----------------------------------------------------------------------------
Init ==
    /\ phase = "cutting"
    /\ size \in 0..MaxBytes
    /\ currentChunk = 0
    /\ local = <<>>
    /\ text = <<>>
    /\ received = <<>>

SendFileChunk ==
    /\ phase = "cutting"
    /\ Offset < size
    /\ local' = local \o Chunk(Base64(Offset, Min(Offset + ChunkSize, size)),
                               Offset, size)
    /\ currentChunk' = currentChunk + 1
    /\ UNCHANGED <<phase, size, text, received>>

\* uploadLocalFileToServiceNode reads the local file and has it encrypted.
EncryptLocalFile ==
    /\ phase = "cutting"
    /\ Offset >= size
    /\ phase' = "sending"
    /\ \E n \in 0..MaxBytes : text' = Base64(0, n)
    /\ currentChunk' = 0
    /\ UNCHANGED <<size, local, received>>

UploadFileChunk ==
    /\ phase = "sending"
    /\ Offset < Len(text)
    /\ received' = received \o Chunk(Slice(text, Offset), Offset, Len(text))
    /\ currentChunk' = currentChunk + 1
    /\ UNCHANGED <<phase, size, local, text>>

UploadDone ==
    /\ phase = "sending"
    /\ Offset >= Len(text)
    /\ phase' = "done"
    /\ UNCHANGED <<size, currentChunk, local, text, received>>

Next ==
    \/ SendFileChunk
    \/ EncryptLocalFile
    \/ UploadFileChunk
    \/ UploadDone

Spec == Init /\ [][Next]_vars

-----------------------------------------------------------------------------
Symbol == [place : 0..4, bytes : SUBSET (0..MaxBytes - 1)]

TypeOK ==
    /\ phase \in {"cutting", "sending", "done"}
    /\ size \in 0..MaxBytes
    /\ currentChunk \in Nat
    /\ local \in Seq(Symbol)
    /\ text \in Seq(Symbol)
    /\ received \in Seq(Symbol)

\* The local file the backend encrypts is the Base64 text of the whole file, as
\* if it had been encoded at once, and the service node receives exactly what the
\* encryptor returned.  No chunk of the front end but the last one is padded,
\* because CHUNK_SIZE is a multiple of three; a boundary of the backend never
\* falls between two padding characters, because chunkSize is even and the length
\* of the text a multiple of four.
ContentArrivesWhole ==
    /\ phase # "cutting" => local = Base64(0, size)
    /\ phase = "done" => received = text
=============================================================================

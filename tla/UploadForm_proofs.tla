--------------------------- MODULE UploadForm_proofs ---------------------------
(***************************************************************************)
(* Theorems about the form of an upload and the transfer of its content,   *)
(* for files of any size, chunks of any size that is a multiple of six,    *)
(* and any keys of metadata.                                               *)
(***************************************************************************)
EXTENDS UploadForm, TLAPS

-----------------------------------------------------------------------------
(* Metadata                                                                *)

LEMMA FormStart == FormInit => FormInv
<1>1. Undefined \in Value
  BY DEF Undefined, Value
<1>2. ASSUME FormInit PROVE FormInv
  BY <1>1, <1>2, FormAssumption
  DEF FormInit, FormInv, Cleared, Fits, MetadataFitsKeys
<1>. QED  BY <1>2

\* A dialog as Cancel leaves it.
LEMMA ClearedIsSound ==
    /\ Cleared \in [open : BOOLEAN, key : Key, value : Value]
    /\ Fits(Cleared.key, Cleared.value)
BY FormAssumption DEF Cleared, Fits, Undefined, Value

LEMMA DialogStepPreserves ==
    ASSUME FormInv, DialogStep
    PROVE  FormInv'
<1>. DEFINE Dialog == [open : BOOLEAN, key : Key, value : Value]
<1>1. /\ dialog \in Dialog
      /\ Fits(dialog.key, dialog.value)
      /\ dialog.value.length \in Nat
  BY DEF FormInv, Value
<1>2. ASSUME NEW d \in Dialog, EditDialog(d), Fits(d.key, d.value)
      PROVE  FormInv'
  BY <1>2 DEF EditDialog, FormInv, MetadataFitsKeys, Fits
<1>3. ASSUME NEW k \in Key, SetKey(k) PROVE FormInv'
  <2>. DEFINE d == [dialog EXCEPT
                      !.key = k, !.value = IF k = dialog.key THEN @ ELSE Undefined]
  <2>1. d \in Dialog /\ Fits(d.key, d.value)
    BY <1>1 DEF Fits, Undefined, Value
  <2>. QED  BY <1>2, <1>3, <2>1 DEF SetKey
<1>4. ASSUME NEW n \in 0..MaxLength, SetValue(n) PROVE FormInv'
  <2>. DEFINE d == [dialog EXCEPT !.value = Text(n)]
  <2>1. d \in Dialog /\ Fits(d.key, d.value)
    BY <1>1, <1>4, FormAssumption DEF SetValue, Fits, Text, Value
  <2>. QED  BY <1>2, <1>4, <2>1 DEF SetValue
<1>5. CASE HashTagAdded
  <2>. DEFINE d == [dialog EXCEPT !.value = HashTags(@.length + 1)]
  <2>1. d \in Dialog /\ Fits(d.key, d.value)
    BY <1>1, <1>5 DEF HashTagAdded, Fits, HashTags, Value
  <2>. QED  BY <1>2, <1>5, <2>1 DEF HashTagAdded
<1>6. CASE HashTagRemoved
  <2>. DEFINE d == [dialog EXCEPT !.value = HashTags(@.length - 1)]
  <2>1. d \in Dialog /\ Fits(d.key, d.value)
    BY <1>1, <1>6 DEF HashTagRemoved, Fits, HashTags, Value
  <2>. QED  BY <1>2, <1>6, <2>1 DEF HashTagRemoved
<1>7. CASE CloseOutside
  <2>. DEFINE d == [dialog EXCEPT !.open = FALSE]
  <2>1. d \in Dialog /\ Fits(d.key, d.value)
    BY <1>1
  <2>. QED  BY <1>2, <1>7, <2>1 DEF CloseOutside
<1>8. CASE Cancel
  BY <1>2, <1>8, ClearedIsSound DEF Cancel
<1>9. CASE AddMetadata
  <2>1. Fits(dialog.key, dialog.value) /\ dialog.value \in Value \ {Text(0)}
    BY <1>1, <1>9 DEF AddMetadata, IsMetadataValid
  <2>2. \A k \in DOMAIN additional' :
           /\ additional'[k] \in Value \ {Text(0)}
           /\ Fits(k, additional'[k])
    BY <1>9, <2>1 DEF AddMetadata, FormInv
  <2>3. dialog' = Cleared /\ posted' = posted
    BY <1>9 DEF AddMetadata
  <2>. QED  BY <2>2, <2>3, ClearedIsSound DEF FormInv, MetadataFitsKeys, Fits
<1>. QED  BY <1>3, <1>4, <1>5, <1>6, <1>7, <1>8, <1>9 DEF DialogStep

LEMMA FormStepPreserves ==
    ASSUME FormInv, FormStep
    PROVE  FormInv'
<1>1. CASE SetDialogOpen
  BY <1>1 DEF SetDialogOpen, FormInv, MetadataFitsKeys, Fits
<1>2. ASSUME NEW k \in Key, RemoveAdditionalField(k) PROVE FormInv'
  BY <1>2 DEF RemoveAdditionalField, FormInv, MetadataFitsKeys, Fits
<1>3. ASSUME NEW n \in 0..MaxBytes, SetAttachedFile(n) PROVE FormInv'
  BY <1>3 DEF SetAttachedFile, FormInv, MetadataFitsKeys, Fits
<1>4. CASE Reset
  BY <1>4 DEF Reset, FormInv, MetadataFitsKeys, Fits, vars
<1>5. CASE UploadData
  BY <1>5 DEF UploadData, FormInv, MetadataFitsKeys, Fits
<1>. QED  BY <1>1, <1>2, <1>3, <1>4, <1>5 DEF FormStep

\* What is left out of the POST are the values JSON does not have; the others
\* are of the kind of their keys.
LEMMA PostPreserves ==
    ASSUME FormInv, PostUpload
    PROVE  FormInv'
<1>1. /\ posted' = Sent(additional)
      /\ UNCHANGED <<dialog, additional>>
  BY DEF PostUpload
<1>2. ASSUME NEW k \in DOMAIN posted'
      PROVE  \/ k = "hashTags" /\ posted'[k].kind = "hashTags"
             \/ k # "hashTags" /\ posted'[k].kind = "text"
                               /\ posted'[k].length > 0
  <2>1. /\ k \in DOMAIN additional
        /\ posted'[k] = additional[k]
        /\ additional[k] # Undefined
    BY <1>1, <1>2 DEF Sent
  <2>2. additional[k] \in Value \ {Text(0)} /\ Fits(k, additional[k])
    BY <2>1 DEF FormInv
  <2>. QED  BY <2>1, <2>2 DEF Fits, Value, Text
<1>. QED  BY <1>1, <1>2 DEF FormInv, MetadataFitsKeys, Fits

LEMMA FormStepsPreserve == FormInv /\ [FormNext]_allVars => FormInv'
<1>. SUFFICES ASSUME FormInv, [FormNext]_allVars PROVE FormInv'
  OBVIOUS
<1>1. CASE TransferStep
  BY <1>1 DEF TransferStep, formVars, FormInv, MetadataFitsKeys, Fits
<1>2. CASE UNCHANGED allVars
  BY <1>2 DEF allVars, formVars, FormInv, MetadataFitsKeys, Fits
<1>. QED
  BY <1>1, <1>2, DialogStepPreserves, FormStepPreserves, PostPreserves DEF FormNext

\* MetadataFitsKeys is not inductive: the metadata is posted from the entries of
\* the form, which come from the dialog, whose value outlives it.  For all keys
\* and lengths, the entries and the dialog's value are of the kind of their keys
\* because the reaction on the key of AddMetadataDialogStore forgets the value.
THEOREM MetadataArrivesTyped == FormSpec => []MetadataFitsKeys
<1>1. FormInv => MetadataFitsKeys
  BY DEF FormInv
<1>. QED  BY <1>1, FormStart, FormStepsPreserve, PTL DEF FormSpec

-----------------------------------------------------------------------------
(* Base64 in chunks                                                        *)

Sym == [place : 0..4, bytes : SUBSET Int]

LEMMA CharacterIsSym ==
    ASSUME NEW b \in Int, NEW r \in 0..3, NEW last \in Int
    PROVE  Character(b, r, last) \in Sym
<1>1. CASE r = 0  BY <1>1 DEF Character, Pad, Sym
<1>2. CASE r = 1  BY <1>2 DEF Character, Pad, Sym
<1>3. CASE r = 2  BY <1>3 DEF Character, Pad, Sym
<1>4. CASE r = 3  BY <1>4 DEF Character, Pad, Sym
<1>. QED  BY <1>1, <1>2, <1>3, <1>4

LEMMA PadIsAfterTheEnd ==
    ASSUME NEW b \in Int, NEW r \in 0..3, NEW last \in Int,
           ~(r = 2 /\ b + 1 > last), ~(r = 3 /\ b + 2 > last)
    PROVE  Character(b, r, last) # Pad
BY DEF Character, Pad

\* A group that is complete does not depend on what comes after it.
LEMMA CompleteGroup ==
    ASSUME NEW b \in Int, NEW r \in 0..3, NEW last \in Int, NEW more \in Int,
           b + 2 <= last, b + 2 <= more
    PROVE  Character(b, r, last) = Character(b, r, more)
<1>1. \A c \in {b, b + 1, b + 2} : c \in b..last /\ c \in b..more
  OBVIOUS
<1>2. CASE r = 0  BY <1>1, <1>2 DEF Character
<1>3. CASE r = 1  BY <1>1, <1>3 DEF Character
<1>4. CASE r = 2  BY <1>1, <1>4 DEF Character
<1>5. CASE r = 3  BY <1>1, <1>5 DEF Character
<1>. QED  BY <1>2, <1>3, <1>4, <1>5

IsText(from, to) ==
    /\ Base64(from, to) \in Seq(Sym)
    /\ Len(Base64(from, to)) = 4 * ((to - from + 2) \div 3)
    /\ \A i \in 1..Len(Base64(from, to)) :
          Base64(from, to)[i] =
             Character(from + 3 * ((i - 1) \div 4), (i - 1) % 4, to - 1)

LEMMA Base64IsText ==
    ASSUME NEW from \in Nat, NEW to \in Nat, from <= to
    PROVE  IsText(from, to)
<1>. DEFINE n == 4 * ((to - from + 2) \div 3)
            C(i) == Character(from + 3 * ((i - 1) \div 4), (i - 1) % 4, to - 1)
<1>1. n \in Nat
  OBVIOUS
<1>2. ASSUME NEW i \in 1..n PROVE C(i) \in Sym
  <2>1. (i - 1) % 4 \in 0..3 /\ from + 3 * ((i - 1) \div 4) \in Int
    OBVIOUS
  <2>. QED  BY <2>1, CharacterIsSym
<1>3. Base64(from, to) = [i \in 1..n |-> C(i)]
  BY DEF Base64
<1>. HIDE DEF n, C
<1>4. [i \in 1..n |-> C(i)] \in [1..n -> Sym]
  BY <1>2
<1>5. Base64(from, to) \in Seq(Sym)
  BY <1>1, <1>3, <1>4
<1>6. Len(Base64(from, to)) = n
  BY <1>1, <1>3, <1>5
<1>7. \A i \in 1..n : Base64(from, to)[i] = C(i)
  BY <1>3
<1>. QED  BY <1>5, <1>6, <1>7 DEF n, C, IsText

\* Encoded in two parts, the first of whole groups, is encoded at once.
LEMMA EncodedInParts ==
    ASSUME NEW b \in Nat, NEW to \in Nat, b <= to, b % 3 = 0
    PROVE  Base64(0, b) \o Base64(b, to) = Base64(0, to)
<1>. DEFINE q == b \div 3
            s == Base64(0, b) \o Base64(b, to)
            t == Base64(0, to)
<1>1. q \in Nat /\ b = 3 * q
  OBVIOUS
<1>0. IsText(0, b) /\ IsText(b, to) /\ IsText(0, to)
  <2>1. 0 \in Nat /\ 0 <= b /\ 0 <= to
    OBVIOUS
  <2>. QED  BY <2>1, Base64IsText
<1>2. /\ Base64(0, b) \in Seq(Sym) /\ Base64(b, to) \in Seq(Sym)
      /\ t \in Seq(Sym)
  BY <1>0 DEF IsText
<1>3. /\ Len(Base64(0, b)) = 4 * q
      /\ Len(Base64(b, to)) = 4 * ((to - b + 2) \div 3)
      /\ Len(t) = 4 * ((to + 2) \div 3)
  <2>1. (b - 0 + 2) \div 3 = q
    BY <1>1
  <2>. QED  BY <1>0, <2>1 DEF IsText
<1>4. Len(t) = Len(Base64(0, b)) + Len(Base64(b, to))
  <2>1. (to + 2) \div 3 = q + ((to - b + 2) \div 3)
    BY <1>1
  <2>. QED  BY <1>3, <2>1
<1>5. s \in Seq(Sym) /\ Len(s) = Len(t)
  BY <1>2, <1>4
<1>6. ASSUME NEW i \in 1..Len(t), i <= 4 * q PROVE s[i] = t[i]
  <2>. DEFINE c == 3 * ((i - 1) \div 4)
              r == (i - 1) % 4
  <2>1. s[i] = Base64(0, b)[i]
    BY <1>2, <1>3, <1>6
  <2>2. Base64(0, b)[i] = Character(0 + c, r, b - 1)
    BY <1>0, <1>3, <1>6 DEF IsText
  <2>3. t[i] = Character(0 + c, r, to - 1)
    BY <1>0, <1>6 DEF IsText
  <2>4. c \in Int /\ r \in 0..3 /\ c + 2 <= b - 1 /\ 0 + c = c
    BY <1>1, <1>6
  <2>5. c + 2 <= to - 1 /\ b - 1 \in Int /\ to - 1 \in Int
    BY <2>4
  <2>. HIDE DEF c, r
  <2>6. Character(c, r, b - 1) = Character(c, r, to - 1)
    BY <2>4, <2>5, CompleteGroup
  <2>. QED  BY <2>1, <2>2, <2>3, <2>4, <2>6
<1>7. ASSUME NEW i \in 1..Len(t), i > 4 * q PROVE s[i] = t[i]
  <2>. DEFINE j == i - 4 * q
  <2>1. j \in 1..Len(Base64(b, to))
    BY <1>1, <1>3, <1>4, <1>7
  <2>2. s[i] = Base64(b, to)[j]
    BY <1>1, <1>2, <1>3, <1>5, <1>7, <2>1
  <2>3. Base64(b, to)[j] =
           Character(b + 3 * ((j - 1) \div 4), (j - 1) % 4, to - 1)
    BY <1>0, <2>1 DEF IsText
  <2>4. t[i] = Character(0 + 3 * ((i - 1) \div 4), (i - 1) % 4, to - 1)
    BY <1>0, <1>7 DEF IsText
  <2>5. /\ 0 + 3 * ((i - 1) \div 4) = b + 3 * ((j - 1) \div 4)
        /\ (i - 1) % 4 = (j - 1) % 4
    <3>1. i \in Int
      BY <1>3, <1>7
    <3>2. /\ 3 * ((i - 1) \div 4) = 3 * q + 3 * ((i - 4 * q - 1) \div 4)
          /\ (i - 1) % 4 = (i - 4 * q - 1) % 4
      BY <1>1, <1>7, <3>1
    <3>. QED  BY <1>1, <3>1, <3>2
  <2>. QED  BY <2>2, <2>3, <2>4, <2>5
<1>. HIDE DEF s, t
<1>8. \A i \in 1..Len(t) : s[i] = t[i]
  <2>. SUFFICES ASSUME NEW i \in 1..Len(t) PROVE s[i] = t[i]
    OBVIOUS
  <2>1. i <= 4 * q \/ i > 4 * q
    BY <1>1
  <2>. QED  BY <1>6, <1>7, <2>1
<1>9. s = t
  BY <1>2, <1>5, <1>8
<1>. QED  BY <1>9 DEF s, t

-----------------------------------------------------------------------------
(* Chunks                                                                  *)

LEMMA Offsets ==
    ASSUME NEW c \in Nat
    PROVE  /\ c * ChunkSize \in Nat
           /\ (c * ChunkSize) % 6 = 0
           /\ (c + 1) * ChunkSize = c * ChunkSize + ChunkSize
<1>. DEFINE k == ChunkSize \div 6
<1>1. ChunkSize \in Nat /\ k \in Nat /\ ChunkSize = 6 * k
  BY ChunkAssumption
<1>. HIDE DEF k
<1>2. c * k \in Nat /\ c * ChunkSize = 6 * (c * k)
  BY <1>1
<1>3. (6 * (c * k)) % 6 = 0
  <2>. DEFINE m == c * k
  <2>1. m \in Nat
    BY <1>2
  <2>. HIDE DEF m
  <2>2. (6 * m) % 6 = 0
    BY <2>1
  <2>. QED  BY <2>2 DEF m
<1>. QED  BY <1>1, <1>2, <1>3

LEMMA NothingToStrip ==
    ASSUME NEW s, s = <<>> \/ s[Len(s)] # Pad
    PROVE  StripPadding(s) = s
BY DEF StripPadding

\* A chunk of whole groups of three bytes is encoded without padding.
LEMMA WholeGroupsArePlain ==
    ASSUME NEW from \in Nat, NEW to \in Nat, from < to, (to - from) % 3 = 0
    PROVE  StripPadding(Base64(from, to)) = Base64(from, to)
<1>. DEFINE q == (to - from) \div 3
            i == 4 * q
            s == Base64(from, to)
<1>1. q \in Nat \ {0} /\ to = from + 3 * q /\ (to - from + 2) \div 3 = q
  OBVIOUS
<1>2. IsText(from, to)
  BY Base64IsText
<1>3. Len(s) = i /\ i \in 1..Len(s)
  BY <1>1, <1>2 DEF IsText
<1>4. s[i] = Character(from + 3 * ((i - 1) \div 4), (i - 1) % 4, to - 1)
  BY <1>2, <1>3 DEF IsText
<1>5. (i - 1) \div 4 = q - 1 /\ (i - 1) % 4 = 3
  BY <1>1
<1>6. Character(from + 3 * (q - 1), 3, to - 1) # Pad
  <2>1. from + 3 * (q - 1) + 2 <= to - 1
    BY <1>1
  <2>. QED  BY <1>1, <2>1, PadIsAfterTheEnd
<1>. QED  BY <1>3, <1>4, <1>5, <1>6, NothingToStrip

\* Padding is in the last two places of a text; an even place before the last
\* one is not among them.
LEMMA EvenPlacesArePlain ==
    ASSUME NEW n \in Nat, NEW p \in Nat \ {0},
           p % 2 = 0, p < Len(Base64(0, n))
    PROVE  Base64(0, n)[p] # Pad
<1>. DEFINE q == (n + 2) \div 3
            b == 3 * ((p - 1) \div 4)
            r == (p - 1) % 4
<1>1. IsText(0, n)
  <2>1. 0 \in Nat /\ 0 <= n
    OBVIOUS
  <2>. QED  BY <2>1, Base64IsText
<1>2. Len(Base64(0, n)) = 4 * q /\ q \in Nat
  BY <1>1 DEF IsText
<1>3. p \in 1..4 * q /\ p <= 4 * q - 2
  BY <1>2
<1>4. Base64(0, n)[p] = Character(0 + b, r, n - 1)
  BY <1>1, <1>2, <1>3 DEF IsText
<1>5. b \in Int /\ r \in {1, 3} /\ n - 1 \in Int /\ 0 + b = b
  BY <1>3
<1>6. r = 3 => b + 2 <= n - 1
  BY <1>2, <1>3
<1>. HIDE DEF b, r
<1>. QED  BY <1>4, <1>5, <1>6, PadIsAfterTheEnd

LEMMA EmptyText == Base64(0, 0) = <<>>
<1>1. 0 \in Nat /\ 0 <= 0
  OBVIOUS
<1>2. IsText(0, 0)
  BY <1>1, Base64IsText
<1>. QED  BY <1>2 DEF IsText

-----------------------------------------------------------------------------
(* The transfer                                                            *)

LEMMA TransferStart == FormInit => TransferInv
<1>1. ASSUME FormInit PROVE TransferInv
  <2>1. Offset = 0 /\ Min(0, 0) = 0
    BY <1>1, ChunkAssumption DEF FormInit, Init, Offset, Min
  <2>. QED
    BY <1>1, <2>1, EmptyText, ChunkAssumption DEF FormInit, Init, TransferInv
<1>. QED  BY <1>1

LEMMA SendFileChunkPreserves ==
    ASSUME TransferInv, SendFileChunk, pending, UNCHANGED pending
    PROVE  TransferInv'
<1>. DEFINE b == Offset
            e == Min(b + ChunkSize, size)
<1>1. /\ phase = "cutting" /\ phase' = "cutting"
      /\ b < size /\ size \in 0..MaxBytes /\ size' = size
      /\ currentChunk \in Nat /\ currentChunk' = currentChunk + 1
      /\ received = <<>> /\ received' = received
      /\ local = Base64(0, Min(b, size))
      /\ local' = local \o Chunk(Base64(b, e), b, size)
      /\ pending'
  BY DEF TransferInv, SendFileChunk
<1>2. b \in Nat /\ b % 6 = 0 /\ Offset' = b + ChunkSize
  BY <1>1, Offsets DEF Offset
<1>3. ChunkSize \in Nat \ {0} /\ ChunkSize % 6 = 0 /\ size \in Nat
  BY <1>1, ChunkAssumption
<1>. HIDE DEF b
<1>4. e \in Nat /\ b < e /\ e <= size /\ Min(b, size) = b
  BY <1>1, <1>2, <1>3 DEF Min
<1>5. Chunk(Base64(b, e), b, size) = Base64(b, e)
  <2>1. CASE b + ChunkSize < size
    <3>1. e = b + ChunkSize
      BY <2>1 DEF Min
    <3>2. (e - b) % 3 = 0
      BY <1>2, <1>3, <3>1
    <3>. QED  BY <1>2, <1>4, <3>2, WholeGroupsArePlain DEF Chunk
  <2>2. CASE ~(b + ChunkSize < size)
    BY <2>2 DEF Chunk
  <2>. QED  BY <2>1, <2>2
<1>6. local' = Base64(0, e)
  <2>1. b % 3 = 0
    BY <1>2
  <2>2. b <= e
    BY <1>2, <1>4
  <2>. QED  BY <1>1, <1>2, <1>4, <1>5, <2>1, <2>2, EncodedInParts
<1>7. local' = Base64(0, Min(Offset', size'))
  BY <1>1, <1>2, <1>6 DEF Min
<1>8. currentChunk' \in Nat
  BY <1>1
<1>. QED  BY <1>1, <1>7, <1>8, Zenon DEF TransferInv

LEMMA EncryptPreserves ==
    ASSUME TransferInv, EncryptLocalFile, pending, UNCHANGED pending
    PROVE  TransferInv'
<1>1. /\ phase = "cutting" /\ phase' = "sending"
      /\ Offset >= size /\ size \in 0..MaxBytes /\ size' = size
      /\ currentChunk \in Nat /\ currentChunk' = 0
      /\ received = <<>> /\ received' = received
      /\ local = Base64(0, Min(Offset, size)) /\ local' = local
      /\ \E n \in 0..MaxBytes : text' = Base64(0, n)
      /\ pending'
  BY DEF TransferInv, EncryptLocalFile
<1>2. Offset \in Nat /\ size \in Nat
  BY <1>1, Offsets, ChunkAssumption DEF Offset
<1>3. Min(Offset, size) = size
  BY <1>1, <1>2 DEF Min
<1>4. PICK n \in 0..MaxBytes : text' = Base64(0, n)
  BY <1>1
<1>5. n \in Nat /\ 0 \in Nat /\ 0 <= n
  BY <1>4, ChunkAssumption
<1>6. IsText(0, n)
  BY <1>5, Base64IsText
<1>7. text' \in Seq(Sym) /\ Len(text') \in Nat
  BY <1>4, <1>6 DEF IsText
<1>8. Offset' = 0
  BY <1>1, ChunkAssumption DEF Offset
<1>9. SubSeq(text', 1, Min(Offset', Len(text'))) = <<>>
  <2>1. Min(Offset', Len(text')) = 0
    BY <1>7, <1>8 DEF Min
  <2>. QED  BY <1>7, <2>1
<1>. QED  BY <1>1, <1>3, <1>9 DEF TransferInv

LEMMA UploadFileChunkPreserves ==
    ASSUME TransferInv, UploadFileChunk, pending, UNCHANGED pending
    PROVE  TransferInv'
<1>. DEFINE b == Offset
            e == Min(b + ChunkSize, Len(text))
            s == Slice(text, b)
<1>1. /\ phase = "sending" /\ phase' = "sending"
      /\ b < Len(text) /\ text' = text
      /\ size \in 0..MaxBytes /\ size' = size
      /\ currentChunk \in Nat /\ currentChunk' = currentChunk + 1
      /\ local = Base64(0, size) /\ local' = local
      /\ received = SubSeq(text, 1, Min(b, Len(text)))
      /\ received' = received \o Chunk(s, b, Len(text))
      /\ \E n \in 0..MaxBytes : text = Base64(0, n)
      /\ pending'
  BY DEF TransferInv, UploadFileChunk
<1>2. b \in Nat /\ b % 6 = 0 /\ Offset' = b + ChunkSize
  BY <1>1, Offsets DEF Offset
<1>3. ChunkSize \in Nat \ {0} /\ ChunkSize % 6 = 0
  BY ChunkAssumption
<1>4. PICK n \in 0..MaxBytes : text = Base64(0, n)
  BY <1>1
<1>5. n \in Nat /\ 0 \in Nat /\ 0 <= n
  BY <1>4, ChunkAssumption
<1>6. IsText(0, n)
  BY <1>5, Base64IsText
<1>7. text \in Seq(Sym) /\ Len(text) \in Nat
  BY <1>4, <1>6 DEF IsText
<1>. HIDE DEF b
<1>8. e \in Nat /\ b < e /\ e <= Len(text) /\ Min(b, Len(text)) = b
  BY <1>1, <1>2, <1>3, <1>7 DEF Min
<1>9. s = SubSeq(text, b + 1, e)
  BY DEF Slice
<1>. HIDE DEF e, s
<1>10. s \in Seq(Sym) /\ Len(s) = e - b /\ \A i \in 1..(e - b) : s[i] = text[b + i]
  BY <1>2, <1>7, <1>8, <1>9
<1>11. Chunk(s, b, Len(text)) = s
  <2>1. CASE b + ChunkSize < Len(text)
    <3>1. e = b + ChunkSize
      BY <2>1 DEF Min, e
    <3>2. s[Len(s)] = text[e]
      BY <1>2, <1>8, <1>10
    <3>3. e \in Nat \ {0} /\ e % 2 = 0 /\ e < Len(text)
      BY <1>2, <1>3, <2>1, <3>1
    <3>4. text[e] # Pad
      BY <1>4, <1>5, <3>3, EvenPlacesArePlain
    <3>. QED  BY <3>2, <3>4, NothingToStrip DEF Chunk
  <2>2. CASE ~(b + ChunkSize < Len(text))
    BY <2>2 DEF Chunk
  <2>. QED  BY <2>1, <2>2
<1>12. received' = SubSeq(text, 1, e)
  <2>. DEFINE r == SubSeq(text, 1, b)
              t == SubSeq(text, 1, e)
  <2>1. r \in Seq(Sym) /\ Len(r) = b /\ \A i \in 1..b : r[i] = text[i]
    BY <1>2, <1>7, <1>8
  <2>2. t \in Seq(Sym) /\ Len(t) = e /\ \A i \in 1..e : t[i] = text[i]
    BY <1>2, <1>7, <1>8
  <2>3. received' = r \o s
    BY <1>1, <1>8, <1>11
  <2>. HIDE DEF r, t
  <2>4. r \o s \in Seq(Sym) /\ Len(r \o s) = e
    <3>1. b + (e - b) = e
      BY <1>2, <1>8
    <3>. QED  BY <1>10, <2>1, <3>1
  <2>5. \A i \in 1..e : (r \o s)[i] = t[i]
    <3>1. ASSUME NEW i \in 1..b PROVE (r \o s)[i] = text[i]
      <4>1. (r \o s)[i] = r[i]
        BY <1>2, <1>10, <2>1
      <4>. QED  BY <2>1, <4>1
    <3>2. ASSUME NEW i \in (b + 1)..e PROVE (r \o s)[i] = text[i]
      <4>1. (r \o s)[i] = s[i - b] /\ i - b \in 1..(e - b)
        BY <1>2, <1>8, <1>10, <2>1
      <4>2. b + (i - b) = i
        BY <1>2
      <4>. QED  BY <1>10, <4>1, <4>2
    <3>3. \A i \in 1..e : i \in 1..b \/ i \in (b + 1)..e
      BY <1>2, <1>8
    <3>. QED  BY <2>2, <3>1, <3>2, <3>3
  <2>6. r \o s = t
    BY <2>2, <2>4, <2>5
  <2>. QED  BY <2>3, <2>6 DEF t
<1>13. received' = SubSeq(text', 1, Min(Offset', Len(text')))
  BY <1>1, <1>2, <1>12 DEF Min, e
<1>14. currentChunk' \in Nat
  BY <1>1
<1>15. /\ phase' # "cutting" /\ phase' # "done"
       /\ phase' \in {"cutting", "sending", "done"}
       /\ size' \in 0..MaxBytes
       /\ local' = Base64(0, size')
       /\ \E m \in 0..MaxBytes : text' = Base64(0, m)
       /\ pending'
  BY <1>1
<1>. QED  BY <1>13, <1>14, <1>15, Zenon DEF TransferInv

LEMMA UploadDonePreserves ==
    ASSUME TransferInv, UploadDone, pending, UNCHANGED pending
    PROVE  TransferInv'
<1>1. /\ phase = "sending" /\ phase' = "done"
      /\ Offset >= Len(text)
      /\ size \in 0..MaxBytes /\ currentChunk \in Nat
      /\ local = Base64(0, size)
      /\ received = SubSeq(text, 1, Min(Offset, Len(text)))
      /\ \E n \in 0..MaxBytes : text = Base64(0, n)
      /\ UNCHANGED <<size, currentChunk, local, text, received>>
      /\ pending'
  BY DEF TransferInv, UploadDone
<1>2. PICK n \in 0..MaxBytes : text = Base64(0, n)
  BY <1>1
<1>3. n \in Nat /\ 0 \in Nat /\ 0 <= n
  BY <1>2, ChunkAssumption
<1>4. IsText(0, n)
  BY <1>3, Base64IsText
<1>5. text \in Seq(Sym) /\ Len(text) \in Nat
  BY <1>2, <1>4 DEF IsText
<1>6. Offset \in Nat
  BY <1>1, Offsets DEF Offset
<1>7. Min(Offset, Len(text)) = Len(text)
  BY <1>1, <1>5, <1>6 DEF Min
<1>8. received = text
  BY <1>1, <1>5, <1>7
<1>. QED  BY <1>1, <1>8 DEF TransferInv

\* Nothing is appended before an upload has started, whatever file is attached.
LEMMA AttachPreserves ==
    ASSUME TransferInv, NEW n \in 0..MaxBytes, SetAttachedFile(n)
    PROVE  TransferInv'
<1>1. /\ phase = "cutting" /\ ~pending /\ currentChunk = 0
      /\ size \in 0..MaxBytes /\ size' = n
      /\ local = Base64(0, Min(Offset, size)) /\ received = <<>>
      /\ UNCHANGED <<phase, currentChunk, local, text, received, pending>>
  BY DEF TransferInv, SetAttachedFile, FormShown
<1>2. Offset = 0 /\ Offset' = 0
  BY <1>1, ChunkAssumption DEF Offset
<1>3. Min(0, size) = 0 /\ Min(0, n) = 0
  BY <1>1, ChunkAssumption DEF Min
<1>. QED  BY <1>1, <1>2, <1>3 DEF TransferInv

LEMMA TransferStepsPreserve == TransferInv /\ [FormNext]_allVars => TransferInv'
<1>. SUFFICES ASSUME TransferInv, [FormNext]_allVars PROVE TransferInv'
  OBVIOUS
<1>1. ASSUME UNCHANGED vars, pending => pending' PROVE TransferInv'
  BY <1>1 DEF vars, TransferInv, Offset
<1>2. CASE DialogStep
  <2>1. UNCHANGED <<vars, pending>>
    BY <1>2 DEF DialogStep, SetKey, SetValue, HashTagAdded, HashTagRemoved,
                CloseOutside, Cancel, EditDialog, AddMetadata
  <2>. QED  BY <1>1, <2>1
<1>3. CASE FormStep
  <2>1. ASSUME NEW n \in 0..MaxBytes, SetAttachedFile(n) PROVE TransferInv'
    BY <2>1, AttachPreserves
  <2>2. CASE ~\E n \in 0..MaxBytes : SetAttachedFile(n)
    <3>1. UNCHANGED vars
      BY <1>3, <2>2
      DEF FormStep, SetDialogOpen, RemoveAdditionalField, Reset, UploadData
    <3>2. pending' = pending \/ pending' = TRUE
      BY <1>3, <2>2
      DEF FormStep, SetDialogOpen, RemoveAdditionalField, Reset, UploadData
    <3>. QED  BY <1>1, <3>1, <3>2
  <2>. QED  BY <2>1, <2>2
<1>4. CASE PostUpload
  BY <1>4, EncryptPreserves DEF PostUpload
<1>5. CASE TransferStep
  BY <1>5, SendFileChunkPreserves, UploadFileChunkPreserves, UploadDonePreserves
  DEF TransferStep, formVars
<1>6. CASE UNCHANGED allVars
  BY <1>1, <1>6 DEF allVars, formVars
<1>. QED  BY <1>2, <1>3, <1>4, <1>5, <1>6 DEF FormNext

\* For files of every size, encrypted texts of every length and every chunk size
\* that is a multiple of six: the local file is the Base64 text of the attached
\* file and the service node receives what the encryptor returned.  The factor
\* three keeps padding out of the chunks of the front end, the factor two keeps
\* the chunks of the backend from ending in the first padding character.
THEOREM ContentIsTransferred == FormSpec => []ContentArrivesWhole
<1>1. TransferInv => ContentArrivesWhole
  BY DEF TransferInv, ContentArrivesWhole
<1>. QED  BY <1>1, TransferStart, TransferStepsPreserve, PTL DEF FormSpec

=============================================================================

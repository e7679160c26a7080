------------------------------ MODULE UploadForm ------------------------------
(***************************************************************************)
(* From the form of an upload to its requests: the dialog that adds        *)
(* metadata (AddMetadataDialogStore), the table of entries, the attached   *)
(* file (UploadDataStore), and then the transfer of the content            *)
(* (ChunkedTransfer).  The metadata goes with the POST that comes after    *)
(* the chunks and before the encryption; until then the user may edit it.  *)
(*                                                                         *)
(* A value is a text or a list of hash tags, by the key it is for; only    *)
(* its kind and its length matter.  The casts of the dialog ("as           *)
(* string[]") check nothing at run time.  Errors are messages next to the  *)
(* fields; that of the price does not keep anybody from uploading.  What   *)
(* happens when the user attaches another file or resets the form          *)
(* meanwhile is in UploadClient.                                           *)
(***************************************************************************)
EXTENDS ChunkedTransfer

CONSTANTS
    Key,        \* keys of metadata the user chooses
    MaxLength   \* bound: length of a text, hash tags in a list

VARIABLES
    dialog,      \* AddMetadataDialogStore
    additional,  \* uploadDataForm.additional
    attached,    \* whether a file is attached
    pending,     \* uploadData is running
    posted       \* the metadata of the POST

formVars == <<dialog, additional, attached, pending, posted>>
allVars == <<vars, formVars>>

MetadataKey ==
    {"briefDescription", "fullDescription", "hashTags", "userComment", "author"}

ASSUME FormAssumption ==
    /\ {"briefDescription", "hashTags"} \subseteq Key
    /\ Key \subseteq MetadataKey
    /\ MaxLength \in Nat

Undefined == [kind |-> "undefined", length |-> 0]
Text(n) == [kind |-> "text", length |-> n]
HashTags(n) == [kind |-> "hashTags", length |-> n]

\* The dialog as it is closed by Cancel and "Add metadata".
Cleared ==
    [open |-> FALSE, key |-> "briefDescription", value |-> Undefined]

FormInit ==
    /\ Init
    /\ size = 0
    /\ dialog = Cleared
    /\ additional = <<>>
    /\ attached = FALSE
    /\ pending = FALSE
    /\ posted = <<>>

\* The form is there until the POST is on its way; its buttons are behind the
\* dialog while that is open.
FormShown == phase = "cutting" /\ ~dialog.open

-----------------------------------------------------------------------------
(* The dialog                                                              *)

SetDialogOpen ==
    /\ FormShown
    /\ dialog' = [dialog EXCEPT !.open = TRUE]
    /\ UNCHANGED <<vars, additional, attached, pending, posted>>

EditDialog(d) ==
    /\ phase = "cutting" /\ dialog.open
    /\ dialog' = d
    /\ UNCHANGED <<vars, additional, attached, pending, posted>>

\* Mutant: the value stays when the key is changed.
SetKey_KeepsValue(k) == EditDialog([dialog EXCEPT !.key = k])

\* The reaction on the key forgets the value; it runs when the key changes.
SetKey(k) ==
    EditDialog([dialog EXCEPT
        !.key = k, !.value = IF k = dialog.key THEN @ ELSE Undefined])

\* The text field is there for all keys but hashTags.
SetValue(n) ==
    /\ dialog.key # "hashTags"
    /\ EditDialog([dialog EXCEPT !.value = Text(n)])

\* [...metaDataValue, hashTag] of a text is the list of its characters.
HashTagAdded ==
    /\ dialog.key = "hashTags"
    /\ dialog.value.length < MaxLength
    /\ EditDialog([dialog EXCEPT !.value = HashTags(@.length + 1)])

\* The chips of a text are not rendered.
HashTagRemoved ==
    /\ dialog.key = "hashTags" /\ dialog.value.kind = "hashTags"
    /\ dialog.value.length > 0
    /\ EditDialog([dialog EXCEPT !.value = HashTags(@.length - 1)])

\* A click outside closes the dialog and keeps the draft.
CloseOutside == EditDialog([dialog EXCEPT !.open = FALSE])

Cancel == EditDialog(Cleared)

\* isFormValid: an empty text is refused; a field that was never touched and an
\* empty list of tags are not.
IsMetadataValid(d) == d.value # Text(0)

\* handleAdd, and setAdditionalField of the form: the key gets the value.
AddMetadata ==
    /\ phase = "cutting" /\ dialog.open
    /\ IsMetadataValid(dialog)
    /\ additional' = [k \in DOMAIN additional \cup {dialog.key} |->
                        IF k = dialog.key THEN dialog.value ELSE additional[k]]
    /\ dialog' = Cleared
    /\ UNCHANGED <<vars, attached, pending, posted>>

-----------------------------------------------------------------------------
(* The form                                                                *)

RemoveAdditionalField(k) ==
    /\ FormShown
    /\ k \in DOMAIN additional
    /\ additional' = [j \in DOMAIN additional \ {k} |-> additional[j]]
    /\ UNCHANGED <<vars, dialog, attached, pending, posted>>

SetAttachedFile(n) ==
    /\ FormShown /\ ~pending
    /\ attached' = TRUE
    /\ size' = n
    /\ UNCHANGED <<phase, currentChunk, local, text, received, dialog,
                   additional, pending, posted>>

\* The draft of the dialog is not part of the form.
Reset ==
    /\ FormShown /\ ~pending
    /\ attached' = FALSE
    /\ additional' = <<>>
    /\ UNCHANGED <<vars, dialog, pending, posted>>

\* A file must be attached, which also sets the name; the price is checked but
\* does not count.
IsFormValid == attached

UploadData ==
    /\ FormShown /\ ~pending
    /\ IsFormValid
    /\ pending' = TRUE
    /\ UNCHANGED <<vars, dialog, additional, attached, posted>>

-----------------------------------------------------------------------------
(* The requests                                                            *)

\* JSON has no undefined: such an entry is not sent.
Sent(a) ==
    LET defined == {k \in DOMAIN a : a[k] # Undefined}
    IN  [k \in defined |-> a[k]]

\* POST to-service-node, which has the local file encrypted.
PostUpload ==
    /\ pending
    /\ EncryptLocalFile
    /\ posted' = Sent(additional)
    /\ UNCHANGED <<dialog, additional, attached, pending>>

TransferStep ==
    /\ pending
    /\ SendFileChunk \/ UploadFileChunk \/ UploadDone
    /\ UNCHANGED formVars

DialogStep ==
    \/ \E k \in Key : SetKey(k)
    \/ \E n \in 0..MaxLength : SetValue(n)
    \/ HashTagAdded
    \/ HashTagRemoved
    \/ CloseOutside
    \/ Cancel
    \/ AddMetadata

FormStep ==
    \/ SetDialogOpen
    \/ \E k \in Key : RemoveAdditionalField(k)
    \/ \E n \in 0..MaxBytes : SetAttachedFile(n)
    \/ Reset
    \/ UploadData

FormNext ==
    \/ DialogStep
    \/ FormStep
    \/ PostUpload
    \/ TransferStep

FormSpec == FormInit /\ [][FormNext]_allVars

-----------------------------------------------------------------------------
(* Properties                                                              *)

\* The metadata a service node gets is a list of tags for hashTags and a text
\* that is not empty for every other key, although the dialog has one value for
\* all keys, keeps it when it is closed by a click outside and opened again, and
\* casts it without a check.
MetadataFitsKeys ==
    \A k \in DOMAIN posted :
        \/ k = "hashTags" /\ posted[k].kind = "hashTags"
        \/ k # "hashTags" /\ posted[k].kind = "text" /\ posted[k].length > 0

-----------------------------------------------------------------------------
(* Why they hold: inductive invariants                                     *)

Value == [kind : {"undefined", "text", "hashTags"}, length : Nat]

\* The reaction on the key keeps the value of the dialog of the kind of its key.
Fits(k, v) ==
    \/ v = Undefined
    \/ k = "hashTags" /\ v.kind = "hashTags"
    \/ k # "hashTags" /\ v.kind = "text"

FormInv ==
    /\ dialog \in [open : BOOLEAN, key : Key, value : Value]
    /\ Fits(dialog.key, dialog.value)
    /\ \A k \in DOMAIN additional :
           /\ additional[k] \in Value \ {Text(0)}
           /\ Fits(k, additional[k])
    /\ MetadataFitsKeys

\* What has been appended is the encoding, or the text, up to the offset.
TransferInv ==
    /\ phase \in {"cutting", "sending", "done"}
    /\ size \in 0..MaxBytes
    /\ currentChunk \in Nat
    /\ ~pending => phase = "cutting" /\ currentChunk = 0
    /\ phase = "cutting" =>
           local = Base64(0, Min(Offset, size)) /\ received = <<>>
    /\ phase # "cutting" =>
           /\ local = Base64(0, size)
           /\ \E n \in 0..MaxBytes : text = Base64(0, n)
    /\ phase = "sending" =>
           received = SubSeq(text, 1, Min(Offset, Len(text)))
    /\ phase = "done" => received = text
=============================================================================

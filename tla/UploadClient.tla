---------------------------- MODULE UploadClient ----------------------------
(***************************************************************************)
(* The front end creating data owners: UploadDataStore, CreateDataOwner-   *)
(* Store and their dialog, together with the backend they call             *)
(* (DataValidatorFiles).                                                   *)
(*                                                                         *)
(* uploadData is one async function.  While it waits for a reply the       *)
(* browser handles the user's clicks, and its next segment reads the store *)
(* as it is then.  One run of it is named by the local file it creates.  A *)
(* request and its reply are one step here, except POST to-service-node,   *)
(* which the backend answers after steps of its own.                       *)
(*                                                                         *)
(* A browser file is a member of Document and is sent in ChunksOf chunks.  *)
(* Metadata is named by the document it describes.                         *)
(***************************************************************************)
EXTENDS DataValidatorFiles, Sequences

CONSTANTS
    Document,   \* files the user may attach
    ChunksOf,   \* chunks each document is cut in
    MaxLost     \* bound: requests or replies of the browser that are lost

ASSUME ClientAssumption ==
    /\ ChunksOf \in [Document -> 0..MaxChunks]
    /\ MaxLost \in Nat
    /\ Null \notin Document \cup Upload

VARIABLES
    ui,        \* observable fields of the stores
    job,       \* runs of uploadData
    content,   \* pieces of documents appended to each local file
    posted,    \* history: what each upload request carried
    lost       \* requests or replies of the browser lost so far

clientVars == <<ui, job, content, posted, lost>>
allVars == <<vars, clientVars>>

Piece == [of : Document, at : Nat]
\* name and size come from the attached file, the rest from the form.
Metadata == [name : Document, about : Document \cup {Null}]
JobPc == {"idle", "creating", "sending", "posting", "waiting", "sleeping",
          "deleting", "done"}
Job == [pc : JobPc, next : Nat, total : Nat, piece : Piece \cup {Null},
        metadata : Metadata \cup {Null}, request : Upload \cup {Null},
        file : FileId \cup {Null},
        alone : BOOLEAN]  \* history: the user left the dialog alone meanwhile
Snack == [kind : {"none", "created", "error"}, file : FileId \cup {Null}]
Ui == [attached : Document \cup {Null}, form : Document \cup {Null},
       pending : BOOLEAN, submissionError : BOOLEAN,
       response : FileId \cup {Null}, dataOwnerCreationPending : BOOLEAN,
       snack : Snack, fetching : BOOLEAN, dataOwners : SUBSET FileId]

ClientTypeOK ==
    /\ TypeOK
    /\ ui \in Ui
    /\ job \in [LocalFile -> Job]
    /\ content \in [LocalFile -> Seq(Piece)]
    /\ posted \in [Upload -> [content : Seq(Piece), metadata : Metadata,
                            alone : BOOLEAN] \cup {Null}]
    /\ lost \in 0..MaxLost

ClientInit ==
    /\ Init
    /\ ui = [attached |-> Null, form |-> Null, pending |-> FALSE,
             submissionError |-> FALSE, response |-> Null,
             dataOwnerCreationPending |-> FALSE,
             snack |-> [kind |-> "none", file |-> Null],
             fetching |-> TRUE, dataOwners |-> {}]
    /\ job = [l \in LocalFile |->
                [pc |-> "idle", next |-> 0, total |-> 0, piece |-> Null,
                 metadata |-> Null, request |-> Null, file |-> Null,
                 alone |-> TRUE]]
    /\ content = [l \in LocalFile |-> <<>>]
    /\ posted = [u \in Upload |-> Null]
    /\ lost = 0

Running(l) == job[l].pc \notin {"idle", "done"}

-----------------------------------------------------------------------------
(* What the user does in the dialog.  It shows the form, or the response.  *)

\* The dialog is not left alone while a run of uploadData waits.
Disturb == job' = [l \in LocalFile |->
                     [job[l] EXCEPT !.alone = @ /\ ~Running(l)]]

SetAttachedFile(x) ==
    /\ ui.response = Null
    /\ ui' = [ui EXCEPT !.attached = x]
    /\ Disturb
    /\ UNCHANGED <<vars, content, posted, lost>>

SetAdditionalField(x) ==
    /\ ui.response = Null
    /\ ui' = [ui EXCEPT !.form = x]
    /\ Disturb
    /\ UNCHANGED <<vars, content, posted, lost>>

\* "Close" and "Create another data owner".
Reset ==
    /\ ui' = [ui EXCEPT !.attached = Null, !.form = Null, !.pending = FALSE,
                        !.submissionError = FALSE, !.response = Null]
    /\ Disturb
    /\ UNCHANGED <<vars, content, posted, lost>>

\* Mutant: only UploadDataStore.pending disables the button.
ButtonEnabled_Unlocked == ~ui.pending /\ ui.response = Null

\* The button is disabled while CreateDataOwnerStore.pending.
ButtonEnabled ==
    ~ui.pending /\ ~ui.dataOwnerCreationPending /\ ui.response = Null

\* The user presses the button when the form describes the attached file.
CreateNewDataOwner(l) ==
    /\ ButtonEnabled
    /\ ui.attached # Null /\ ui.form = ui.attached
    /\ job[l].pc = "idle"
    /\ \E u \in Upload : up[u].pc = "idle"
    /\ ui' = [ui EXCEPT !.pending = TRUE, !.dataOwnerCreationPending = TRUE,
                        !.submissionError = FALSE]
    /\ job' = [job EXCEPT ![l].pc = "creating"]
    /\ UNCHANGED <<vars, content, posted, lost>>

-----------------------------------------------------------------------------
(* uploadData                                                              *)

Announced(failed) == IF failed THEN "error" ELSE "created"

\* The promise resolves: createNewDataOwner shows a snackbar and fetches.
Resolved(l, after) ==
    /\ ui' = [after EXCEPT
                !.dataOwnerCreationPending = FALSE, !.fetching = TRUE,
                !.snack = [kind |-> Announced(after.submissionError),
                           file |-> job[l].file]]
    /\ job' = [job EXCEPT ![l].pc = "done"]

\* The catch block.
Fail(l) ==
    Resolved(l, [ui EXCEPT !.pending = FALSE, !.submissionError = TRUE])

\* Mutant: the last chunk is not sent.
ChunkLeft_OneLess(r) == r.next < r.total - 1

ChunkLeft(r) == r.next < r.total

\* The code between two awaits, of the run r of l: the next piece is cut from
\* the file attached now, and after the last one the request is built from the
\* form as it is now.  With nothing attached it throws.
Continue(l, r) ==
    CASE ui.attached = Null -> Fail(l)
      [] ui.attached # Null /\ ChunkLeft(r) ->
            /\ job' = [job EXCEPT ![l] =
                 [r EXCEPT !.pc = "sending",
                           !.piece = [of |-> ui.attached, at |-> r.next]]]
            /\ UNCHANGED ui
      [] OTHER ->
            /\ job' = [job EXCEPT ![l] =
                 [r EXCEPT !.pc = "posting",
                           !.metadata = [name |-> ui.attached,
                                         about |-> ui.form]]]
            /\ UNCHANGED ui

LocalFileCreated(l) ==
    /\ job[l].pc = "creating"
    /\ CreateLocalFile(l)
    /\ Continue(l, [job[l] EXCEPT
                      !.total = IF ui.attached = Null THEN 0
                                ELSE ChunksOf[ui.attached]])
    /\ UNCHANGED <<content, posted, lost>>

AppendPiece(l) == content' = [content EXCEPT ![l] = Append(@, job[l].piece)]

ChunkSaved(l) ==
    /\ job[l].pc = "sending"
    /\ UploadLocalFileChunk(l)
    /\ AppendPiece(l)
    /\ Continue(l, [job[l] EXCEPT !.next = @ + 1])
    /\ UNCHANGED <<posted, lost>>

Posted(u, l) ==
    /\ ReadLocalFile(u, l)
    /\ posted' = [posted EXCEPT ![u] = [content |-> content[l],
                                        metadata |-> job[l].metadata,
                                        alone |-> job[l].alone]]

UploadRequested(l) ==
    /\ job[l].pc = "posting"
    /\ \E u \in Upload :
        /\ Posted(u, l)
        /\ job' = [job EXCEPT ![l].pc = "waiting", ![l].request = u]
    /\ UNCHANGED <<ui, content, lost>>

\* Mutant: the local id is taken for the id at the service node.
AnsweredFile_LocalId(l) == l

\* serviceNodeFileRecord.id
AnsweredFile(l) == up[job[l].request].file

UploadAnswered(l) ==
    /\ job[l].pc = "waiting"
    /\ \/ /\ up[job[l].request].reply = "ok"
          /\ job' = [job EXCEPT ![l].pc = "sleeping", ![l].file = AnsweredFile(l)]
          /\ UNCHANGED ui
       \/ up[job[l].request].reply = "error" /\ Fail(l)
    /\ UNCHANGED <<vars, content, posted, lost>>

StopPolling(l) == job' = [job EXCEPT ![l].pc = "deleting"]

\* Mutant: the copy is deleted while the file is still uploading.
PollAgain_Deletes(l) == StopPolling(l) /\ UNCHANGED ui

PollAgain(l) == UNCHANGED <<ui, job>>

\* Mutant: a failed upload is shown as a response.
FailureShown_AsResponse(l) ==
    /\ ui' = [ui EXCEPT !.pending = FALSE, !.response = job[l].file]
    /\ StopPolling(l)

\* Mutant: polling goes on after the upload failed.
FailureShown_PollsOn(l) == UNCHANGED <<ui, job>>

FailureShown(l) ==
    /\ ui' = [ui EXCEPT !.pending = FALSE, !.submissionError = TRUE]
    /\ StopPolling(l)

\* Mutant: polling goes on after the file was uploaded.
ResponseShown_PollsOn(l) ==
    /\ ui' = [ui EXCEPT !.pending = FALSE, !.response = job[l].file]
    /\ UNCHANGED job

ResponseShown(l) ==
    /\ ui' = [ui EXCEPT !.pending = FALSE, !.response = job[l].file]
    /\ StopPolling(l)

\* After five seconds of sleep.
StatusChecked(l) ==
    /\ job[l].pc = "sleeping"
    /\ \E c \in Check :
        /\ CheckStatus(c, job[l].file)
        /\ \/ chk'[c].reply = "uploading" /\ PollAgain(l)
           \/ chk'[c].reply = "error" /\ Fail(l)
           \/ chk'[c].reply = "failed" /\ FailureShown(l)
           \/ chk'[c].reply = "uploaded" /\ ResponseShown(l)
    /\ UNCHANGED <<content, posted, lost>>

CopyDeleted(l) ==
    /\ job[l].pc = "deleting"
    /\ DeleteServiceNodeFile(job[l].file)
    /\ Resolved(l, ui)
    /\ UNCHANGED <<content, posted, lost>>

\* A request or its reply is lost: with or without its effect.
CallLost(l) ==
    /\ lost < MaxLost
    /\ lost' = lost + 1
    /\ Running(l)
    /\ Fail(l)
    /\ \/ UNCHANGED <<vars, content, posted>>
       \/ /\ job[l].pc = "creating" /\ CreateLocalFile(l)
          /\ UNCHANGED <<content, posted>>
       \/ /\ job[l].pc = "sending" /\ UploadLocalFileChunk(l) /\ AppendPiece(l)
          /\ UNCHANGED posted
       \/ /\ job[l].pc = "posting" /\ \E u \in Upload : Posted(u, l)
          /\ UNCHANGED content
       \/ /\ job[l].pc = "sleeping"
          /\ \E c \in Check : CheckStatus(c, job[l].file)
          /\ UNCHANGED <<content, posted>>
       \/ /\ job[l].pc = "deleting" /\ DeleteServiceNodeFile(job[l].file)
          /\ UNCHANGED <<content, posted>>

\* fetchDataOwners: the reply replaces the list, an error is swallowed.
DataOwnersFetched ==
    /\ ui.fetching
    /\ ui' = [ui EXCEPT !.fetching = FALSE,
                        !.dataOwners = {o.file.id : o \in ownerDb}]
    /\ UNCHANGED <<vars, job, content, posted, lost>>

FetchLost ==
    /\ ui.fetching
    /\ lost < MaxLost
    /\ lost' = lost + 1
    /\ ui' = [ui EXCEPT !.fetching = FALSE]
    /\ UNCHANGED <<vars, job, content, posted>>

-----------------------------------------------------------------------------
UserStep ==
    \/ \E x \in Document : SetAttachedFile(x) \/ SetAdditionalField(x)
    \/ Reset
    \/ \E l \in LocalFile : CreateNewDataOwner(l)

JobStep(l) ==
    \/ LocalFileCreated(l)
    \/ ChunkSaved(l)
    \/ UploadRequested(l)
    \/ UploadAnswered(l)
    \/ StatusChecked(l)
    \/ CopyDeleted(l)

BackendStep ==
    /\ \/ \E u \in Upload : UploadStep(u) \/ UploadFault(u)
       \/ \E f \in FileId : DdsAnswers(f)
       \/ \E c \in Check : SaveJobStep(c)
       \/ Crash
    /\ UNCHANGED clientVars

ClientNext ==
    \/ UserStep
    \/ \E l \in LocalFile : JobStep(l) \/ CallLost(l)
    \/ DataOwnersFetched
    \/ FetchLost
    \/ BackendStep

ClientSpec == ClientInit /\ [][ClientNext]_allVars

\* Requests that are not lost are answered; the backend runs its callbacks; the
\* service node and DDS decide about every file they are asked to take.
ClientFairness ==
    /\ \A l \in LocalFile : WF_allVars(JobStep(l))
    /\ \A u \in Upload : WF_allVars(UploadStep(u) /\ UNCHANGED clientVars)
    /\ \A f \in FileId : WF_allVars(DdsAnswers(f) /\ UNCHANGED clientVars)
    /\ \A c \in Check : WF_allVars(SaveJobStep(c) /\ UNCHANGED clientVars)
    /\ WF_allVars(DataOwnersFetched)

FairClientSpec == ClientSpec /\ ClientFairness

-----------------------------------------------------------------------------
(* Properties                                                              *)

\* The first n pieces of document x.
Pieces(x, n) == [i \in 1..n |-> [of |-> x, at |-> i - 1]]

\* What is uploaded is one document, whole and in order, with its own name,
\* size and metadata: chunks that are cut from the store one reply after the
\* other belong together.  It needs a user who leaves the dialog alone from the
\* click on: a file attached meanwhile continues the local file of the first one.
UploadIsOneDocument ==
    \A u \in Upload : posted[u] # Null /\ posted[u].alone =>
        LET x == posted[u].metadata.name IN
        /\ posted[u].metadata.about = x
        /\ posted[u].content = Pieces(x, ChunksOf[x])

\* However the user resets, closes and reopens the dialog while a request is in
\* flight, a second uploadData never runs beside the first one, so the two never
\* share the attached file and the form (CreateDataOwnerStore.pending).
OneUploadAtATime ==
    Cardinality({l \in LocalFile : Running(l)}) <= 1

\* checkServiceFileUploadStatus... saves a new File and a new DataOwner at every
\* call that finds the file uploaded.  Behind this client there is at most one
\* of each per file, also when replies are lost and the backend crashes.
OneRecordPerFile ==
    /\ \A d, e \in fileDb : d.id = e.id => d = e
    /\ \A o, p \in ownerDb : o.file.id = p.file.id => o = p

\* The result dialog is only shown for a file DDS has stored, and "Data owner has
\* been created" is only said of such a file, if the user left the dialog alone
\* until the upload had finished.
SuccessIsStored ==
    /\ ui.response # Null => sn[ui.response].state = "stored"
    /\ ui.snack.kind = "created" =>
        \A l \in LocalFile :
            job[l].file = ui.snack.file /\ job[l].pc = "done" /\ job[l].alone =>
                ui.snack.file # Null /\ sn[ui.snack.file].state = "stored"

\* The service node's copy is deleted only after DDS has decided about the file,
\* so the background upload of the backend never loses the file it is sending.
CopyOutlivesUpload ==
    \A f \in FileId :
        sn[f].state \in {"created", "sentToDds"} => sn[f].copy

\* The progress indicator goes away: every upload ends in a response or an
\* error, also when DDS refuses the file or calls of the browser are lost (test.md:
\* "It can take up to few minutes to complete"), unless the backend crashes or one
\* of its calls fails: then the client may poll for ever.
UploadFinishes ==
    ui.dataOwnerCreationPending ~> ~ui.dataOwnerCreationPending \/ faults > 0

-----------------------------------------------------------------------------
(* The inductive invariant behind the safety properties, together with the *)
(* one of DataValidatorFiles.                                              *)

\* The button stays disabled while a run waits.
RunInv ==
    /\ \A l \in LocalFile : Running(l) => ui.dataOwnerCreationPending
    /\ \A l, m \in LocalFile : Running(l) /\ Running(m) => l = m

Unposted == {"idle", "creating", "sending", "posting"}

\* A run has a request of its own, and the file the backend answered for it.
RequestInv ==
    /\ \A l \in LocalFile :
        /\ job[l].pc \in Unposted => job[l].request = Null
        /\ job[l].pc \in Unposted \cup {"waiting"} => job[l].file = Null
        /\ job[l].pc = "waiting" => job[l].request \in Upload
        /\ job[l].pc \in {"sleeping", "deleting"} => job[l].file # Null
        /\ job[l].request # Null => up[job[l].request].pc # "idle"
        /\ job[l].file # Null => /\ job[l].request # Null
                                 /\ job[l].file = up[job[l].request].file
    /\ \A l, m \in LocalFile :
        job[l].request = job[m].request /\ job[l].request # Null => l = m

\* How far the local file of a run is, while the dialog is left alone.
PiecesOK(l) ==
    LET x == ui.attached
        r == job[l]
    IN  /\ x # Null /\ ui.form = x
        /\ r.pc = "creating" => r.next = 0
        /\ r.pc \in {"sending", "posting"} =>
            /\ r.next <= r.total /\ r.total = ChunksOf[x]
            /\ content[l] = Pieces(x, r.next)
        /\ r.pc = "sending" => r.next < r.total /\ r.piece = [of |-> x, at |-> r.next]
        /\ r.pc = "posting" => r.next = r.total
                               /\ r.metadata = [name |-> x, about |-> x]

PiecesInv ==
    /\ \A l \in LocalFile :
        /\ job[l].pc = "idle" => job[l].next = 0
        /\ job[l].pc \in {"idle", "creating"} => content[l] = <<>>
        /\ Running(l) /\ job[l].alone /\ job[l].pc \in Unposted => PiecesOK(l)
        /\ job[l].pc = "sending" => job[l].piece \in Piece
        /\ job[l].pc = "posting" => job[l].metadata \in Metadata
    /\ UploadIsOneDocument

\* DDS has decided about a file whose copy is deleted; if it refused the file
\* then the error is shown until the user touches the dialog.
DecidedInv ==
    /\ CopyOutlivesUpload
    /\ \A l \in LocalFile : job[l].pc = "deleting" =>
        /\ sn[job[l].file].state \in {"stored", "failed"}
        /\ job[l].alone /\ ~ui.submissionError => sn[job[l].file].state = "stored"

AnnouncedInv ==
    /\ ui.snack.kind = "created" => ui.snack.file # Null
    /\ SuccessIsStored

\* One save job per file, which is the only one that writes its records.
SavedOnceInv ==
    /\ \A c, d \in Check : chk[c].file = chk[d].file /\ chk[c].file # Null => c = d
    /\ \A c \in Check : chk[c].file # Null =>
        \E l \in LocalFile :
            job[l].file = chk[c].file /\ job[l].pc \in {"deleting", "done"}
    /\ \A c \in Check : chk[c].pc = "saveOwner" => chk[c].doc.id = chk[c].file
    /\ \A d \in fileDb : \E c \in Check :
        chk[c].file = d.id /\ chk[c].pc \in {"saveOwner", "saved", "stopped"}
    /\ \A o \in ownerDb : \E c \in Check :
        chk[c].file = o.file.id /\ chk[c].pc = "saved"
    /\ OneRecordPerFile

ClientInv ==
    /\ ClientTypeOK
    /\ IInv
    /\ RunInv
    /\ RequestInv
    /\ PiecesInv
    /\ DecidedInv
    /\ AnnouncedInv
    /\ SavedOnceInv
=============================================================================

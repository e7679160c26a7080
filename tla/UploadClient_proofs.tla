------------------------- MODULE UploadClient_proofs -------------------------
(***************************************************************************)
(* Proofs about UploadClient, for every number of documents, runs,         *)
(* requests, lost calls, failures and crashes.  The client drives the      *)
(* backend of DataValidatorFiles, whose invariant and lemmas are used.     *)
(***************************************************************************)
EXTENDS UploadClient, DataValidatorFiles_proofs, SequenceTheorems,
        FiniteSetTheorems

\* What the steps below start from.
Good == ClientTypeOK /\ IInv /\ RequestInv /\ PiecesInv

JobType == [LocalFile -> Job]

-----------------------------------------------------------------------------
(* What a step does to the runs                                            *)

\* A run that ends with an error.
LEMMA FailEffect ==
    ASSUME ClientTypeOK, NEW l \in LocalFile, Fail(l)
    PROVE  /\ ui' \in Ui /\ job' \in JobType
           /\ ui'.attached = ui.attached /\ ui'.form = ui.form
           /\ ui'.dataOwnerCreationPending = FALSE
           /\ ui'.submissionError = TRUE
           /\ ui'.response = ui.response
           /\ ui'.snack = [kind |-> "error", file |-> job[l].file]
           /\ job' = [job EXCEPT ![l] = [job[l] EXCEPT !.pc = "done"]]
<1>1. ui \in Ui /\ job \in JobType
  BY DEF ClientTypeOK, JobType
<1>2. job[l].file \in FileId \cup {Null}
  BY <1>1 DEF JobType, Job
<1>3. [kind |-> "error", file |-> job[l].file] \in Snack
  BY <1>2 DEF Snack
<1>4. ui' = [[ui EXCEPT !.pending = FALSE, !.submissionError = TRUE]
               EXCEPT !.dataOwnerCreationPending = FALSE, !.fetching = TRUE,
                      !.snack = [kind |-> "error", file |-> job[l].file]]
  BY <1>1 DEF Fail, Resolved, Announced, Ui
<1>5. job' = [job EXCEPT ![l].pc = "done"]
  BY DEF Fail, Resolved
<1>6. ui' \in Ui
  BY <1>1, <1>3, <1>4 DEF Ui
<1>7. job' \in JobType
  BY <1>1, <1>5 DEF JobType, Job, JobPc
<1> QED
  BY <1>1, <1>4, <1>5, <1>6, <1>7 DEF Ui

\* A run that ends without one, or with the error that is shown already.
LEMMA ResolvedEffect ==
    ASSUME ClientTypeOK, NEW l \in LocalFile, Resolved(l, ui)
    PROVE  /\ ui' \in Ui /\ job' \in JobType
           /\ ui'.attached = ui.attached /\ ui'.form = ui.form
           /\ ui'.dataOwnerCreationPending = FALSE
           /\ ui'.submissionError = ui.submissionError
           /\ ui'.response = ui.response
           /\ ui'.snack.file = job[l].file
           /\ ui'.snack.kind = "created" => ~ui.submissionError
           /\ job' = [job EXCEPT ![l] = [job[l] EXCEPT !.pc = "done"]]
<1>1. ui \in Ui /\ job \in JobType
  BY DEF ClientTypeOK, JobType
<1>2. job[l].file \in FileId \cup {Null}
  BY <1>1 DEF JobType, Job
<1> DEFINE s == [kind |-> Announced(ui.submissionError), file |-> job[l].file]
<1>3. s \in Snack /\ s.file = job[l].file
      /\ (s.kind = "created" => ~ui.submissionError)
  BY <1>2 DEF Snack, Announced
<1> HIDE DEF s
<1>4. ui' = [ui EXCEPT !.dataOwnerCreationPending = FALSE, !.fetching = TRUE,
                       !.snack = s]
  BY DEF Resolved, s
<1>5. job' = [job EXCEPT ![l].pc = "done"]
  BY DEF Resolved
<1>6. ui' \in Ui
  BY <1>1, <1>3, <1>4 DEF Ui
<1>7. job' \in JobType
  BY <1>1, <1>5 DEF JobType, Job, JobPc
<1> QED
  BY <1>1, <1>3, <1>4, <1>5, <1>6, <1>7 DEF Ui

\* What the code between two awaits does: it throws, sends the next piece, or
\* builds the request.
NextPiece(l, r) ==
    /\ UNCHANGED ui
    /\ ui.attached \in Document
    /\ r.next < r.total
    /\ job' = [job EXCEPT ![l] =
          [r EXCEPT !.pc = "sending",
                    !.piece = [of |-> ui.attached, at |-> r.next]]]

Request(l, r) ==
    /\ UNCHANGED ui
    /\ ui.attached \in Document
    /\ ~(r.next < r.total)
    /\ job' = [job EXCEPT ![l] =
          [r EXCEPT !.pc = "posting",
                    !.metadata = [name |-> ui.attached, about |-> ui.form]]]

LEMMA ContinueEffect ==
    ASSUME ClientTypeOK, NEW l \in LocalFile, NEW r \in Job, Continue(l, r)
    PROVE  \/ ui.attached = Null /\ Fail(l)
           \/ NextPiece(l, r) /\ job' \in JobType
           \/ Request(l, r) /\ job' \in JobType
<1>1. ui.attached \in Document \cup {Null} /\ ui.form \in Document \cup {Null}
  BY DEF ClientTypeOK, Ui
<1>2. job \in JobType
  BY DEF ClientTypeOK, JobType
<1>3. CASE ui.attached = Null
  BY <1>3 DEF Continue
<1>4. CASE ui.attached # Null /\ r.next < r.total
  <2>1. NextPiece(l, r)
    BY <1>1, <1>4 DEF Continue, ChunkLeft, NextPiece
  <2>2. [of |-> ui.attached, at |-> r.next] \in Piece
    BY <1>1, <1>4 DEF Piece, Job
  <2>3. [r EXCEPT !.pc = "sending",
                  !.piece = [of |-> ui.attached, at |-> r.next]] \in Job
    BY <2>2 DEF Job, JobPc
  <2> QED
    BY <1>2, <2>1, <2>3 DEF NextPiece, JobType
<1>5. CASE ui.attached # Null /\ ~(r.next < r.total)
  <2>1. Request(l, r)
    BY <1>1, <1>5 DEF Continue, ChunkLeft, Request
  <2>2. [name |-> ui.attached, about |-> ui.form] \in Metadata
    BY <1>1, <1>5 DEF Metadata
  <2>3. [r EXCEPT !.pc = "posting",
                  !.metadata = [name |-> ui.attached, about |-> ui.form]] \in Job
    BY <2>2 DEF Job, JobPc
  <2> QED
    BY <1>2, <2>1, <2>3 DEF Request, JobType
<1> QED
  BY <1>3, <1>4, <1>5

\* The run that goes on after the reply to a local file, or to a chunk.
Counted(l) == [job[l] EXCEPT !.total = IF ui.attached = Null THEN 0
                                       ELSE ChunksOf[ui.attached]]
Advanced(l) == [job[l] EXCEPT !.next = @ + 1]

LEMMA ContinuedTypes ==
    ASSUME ClientTypeOK, NEW l \in LocalFile
    PROVE  Counted(l) \in Job /\ Advanced(l) \in Job
<1>1. job[l] \in Job /\ ui.attached \in Document \cup {Null}
  BY DEF ClientTypeOK, Ui
<1>2. ChunksOf \in [Document -> 0..MaxChunks] /\ MaxChunks \in Nat
  BY ClientAssumption, BoundsAssumption
<1>3. (IF ui.attached = Null THEN 0 ELSE ChunksOf[ui.attached]) \in Nat
  BY <1>1, <1>2
<1> QED
  BY <1>1, <1>3 DEF Counted, Advanced, Job

\* A run that waits moves alone, keeps its history and leaves the form as it is.
Moves(l) ==
    /\ ui' \in Ui /\ job' \in JobType
    /\ ui'.attached = ui.attached /\ ui'.form = ui.form
    /\ \A m \in LocalFile \ {l} : job'[m] = job[m]
    /\ Running(l)
    /\ job'[l].alone = job[l].alone
    /\ \/ job'[l].pc = "done" /\ ~ui'.dataOwnerCreationPending
       \/ /\ job'[l].pc \notin {"idle", "creating", "done"}
          /\ ui'.dataOwnerCreationPending = ui.dataOwnerCreationPending

\* The run is replaced by one that waits further on, or by one that is done.
LEMMA RunMoves ==
    ASSUME job \in JobType, NEW l \in LocalFile, NEW r \in Job, Running(l),
           job' = [job EXCEPT ![l] = r], r.alone = job[l].alone,
           ui' \in Ui, ui'.attached = ui.attached, ui'.form = ui.form,
           \/ r.pc = "done" /\ ~ui'.dataOwnerCreationPending
           \/ /\ r.pc \notin {"idle", "creating", "done"}
              /\ ui'.dataOwnerCreationPending = ui.dataOwnerCreationPending
    PROVE  Moves(l)
<1>1. job' \in JobType /\ job'[l] = r /\ \A m \in LocalFile \ {l} : job'[m] = job[m]
  BY DEF JobType
<1> QED
  BY <1>1 DEF Moves

LEMMA FailMoves ==
    ASSUME ClientTypeOK, NEW l \in LocalFile, Fail(l), Running(l)
    PROVE  Moves(l)
<1>1. job \in JobType
  BY DEF ClientTypeOK, JobType
<1>2. /\ ui' \in Ui /\ job' \in JobType
      /\ ui'.attached = ui.attached /\ ui'.form = ui.form
      /\ ui'.dataOwnerCreationPending = FALSE
      /\ job' = [job EXCEPT ![l] = [job[l] EXCEPT !.pc = "done"]]
  BY FailEffect
<1>3. [job[l] EXCEPT !.pc = "done"] \in Job
  BY <1>1 DEF JobType, Job, JobPc
<1>4. [job[l] EXCEPT !.pc = "done"].alone = job[l].alone
      /\ [job[l] EXCEPT !.pc = "done"].pc = "done"
  BY <1>1 DEF JobType, Job
<1> QED
  BY <1>1, <1>2, <1>3, <1>4, RunMoves

LEMMA ContinueMoves ==
    ASSUME ClientTypeOK, NEW l \in LocalFile, NEW r \in Job, Continue(l, r),
           Running(l), r.alone = job[l].alone
    PROVE  Moves(l)
<1>1. job \in JobType /\ ui \in Ui
  BY DEF ClientTypeOK, JobType
<1>2. CASE Fail(l)
  BY <1>2, FailMoves
\* The run is replaced by one that waits for the next reply.
<1>3. ASSUME NEW s \in Job, UNCHANGED ui, job' = [job EXCEPT ![l] = s],
             s.alone = r.alone, s.pc \in {"sending", "posting"}
      PROVE  Moves(l)
  BY <1>1, <1>3 DEF Moves, JobType
<1>4. CASE NextPiece(l, r) /\ job' \in JobType
  <2>1. job'[l] = [r EXCEPT !.pc = "sending",
                            !.piece = [of |-> ui.attached, at |-> r.next]]
    BY <1>1, <1>4 DEF NextPiece, JobType
  <2>2. job'[l].alone = r.alone /\ job'[l].pc = "sending" /\ job'[l] \in Job
    BY <1>4, <2>1 DEF Job, JobType
  <2>3. job' = [job EXCEPT ![l] = job'[l]]
    BY <1>4, <2>1 DEF NextPiece
  <2> QED
    BY <1>3, <1>4, <2>2, <2>3 DEF NextPiece
<1>5. CASE Request(l, r) /\ job' \in JobType
  <2>1. job'[l] = [r EXCEPT !.pc = "posting",
                            !.metadata = [name |-> ui.attached, about |-> ui.form]]
    BY <1>1, <1>5 DEF Request, JobType
  <2>2. job'[l].alone = r.alone /\ job'[l].pc = "posting" /\ job'[l] \in Job
    BY <1>5, <2>1 DEF Job, JobType
  <2>3. job' = [job EXCEPT ![l] = job'[l]]
    BY <1>5, <2>1 DEF Request
  <2> QED
    BY <1>3, <1>5, <2>2, <2>3 DEF Request
<1> QED
  BY <1>2, <1>4, <1>5, ContinueEffect

LEMMA MovesAlone ==
    ASSUME Good, NEW l \in LocalFile, JobStep(l) \/ CallLost(l)
    PROVE  Moves(l)
<1>t. ClientTypeOK /\ job \in JobType /\ ui \in Ui /\ RequestInv
  BY DEF Good, ClientTypeOK, JobType
<1>1. CASE LocalFileCreated(l)
  <2>1. Continue(l, Counted(l)) /\ Running(l)
    BY <1>1 DEF LocalFileCreated, Counted, Running
  <2>2. Counted(l) \in Job /\ Counted(l).alone = job[l].alone
    BY <1>t, ContinuedTypes DEF Counted, JobType, Job
  <2> QED
    BY <1>t, <2>1, <2>2, ContinueMoves
<1>2. CASE ChunkSaved(l)
  <2>1. Continue(l, Advanced(l)) /\ Running(l)
    BY <1>2 DEF ChunkSaved, Advanced, Running
  <2>2. Advanced(l) \in Job /\ Advanced(l).alone = job[l].alone
    BY <1>t, ContinuedTypes DEF Advanced, JobType, Job
  <2> QED
    BY <1>t, <2>1, <2>2, ContinueMoves
<1>3. CASE UploadRequested(l)
  <2>1. PICK u \in Upload :
           job' = [job EXCEPT ![l] = [job[l] EXCEPT !.pc = "waiting",
                                                    !.request = u]]
    BY <1>3 DEF UploadRequested
  <2>2. UNCHANGED ui /\ Running(l)
    BY <1>3 DEF UploadRequested, Running
  <2> DEFINE r == [job[l] EXCEPT !.pc = "waiting", !.request = u]
  <2>3. r \in Job /\ r.pc = "waiting" /\ r.alone = job[l].alone
    BY <1>t DEF JobType, Job, JobPc
  <2> HIDE DEF r
  <2> QED
    BY <1>t, <2>1, <2>2, <2>3, RunMoves DEF r
<1>4. CASE UploadAnswered(l)
  <2>1. Running(l)
    BY <1>4 DEF UploadAnswered, Running
  <2>2. CASE Fail(l)
    BY <1>t, <2>1, <2>2, FailMoves
  <2> DEFINE r == [job[l] EXCEPT !.pc = "sleeping", !.file = AnsweredFile(l)]
  <2>3. CASE job' = [job EXCEPT ![l] = r] /\ UNCHANGED ui
    <3>1. job[l].request \in Upload
      BY <1>4, <1>t DEF UploadAnswered, RequestInv
    <3>2. AnsweredFile(l) \in FileId \cup {Null}
      BY <3>1 DEF AnsweredFile, Good, IInv, TypeOK, UploadJob
    <3>3. r \in Job /\ r.pc = "sleeping" /\ r.alone = job[l].alone
      BY <1>t, <3>2 DEF JobType, Job, JobPc
    <3> HIDE DEF r
    <3> QED
      BY <1>t, <2>1, <2>3, <3>3, RunMoves
  <2> QED
    BY <1>4, <2>2, <2>3 DEF UploadAnswered
<1>5. CASE StatusChecked(l)
  <2>1. Running(l)
    BY <1>5 DEF StatusChecked, Running
  <2>2. CASE PollAgain(l)
    BY <1>5, <1>t, <2>1, <2>2 DEF PollAgain, Moves, StatusChecked, JobType
  <2>3. CASE Fail(l)
    BY <1>t, <2>1, <2>3, FailMoves
  <2>4. CASE FailureShown(l) \/ ResponseShown(l)
    <3>1. job[l].file \in FileId \cup {Null}
      BY <1>t DEF JobType, Job
    <3>2. ui' \in Ui /\ ui'.attached = ui.attached /\ ui'.form = ui.form
          /\ ui'.dataOwnerCreationPending = ui.dataOwnerCreationPending
      BY <1>t, <2>4, <3>1 DEF FailureShown, ResponseShown, Ui
    <3> DEFINE r == [job[l] EXCEPT !.pc = "deleting"]
    <3>3. job' = [job EXCEPT ![l] = r]
      BY <2>4 DEF FailureShown, ResponseShown, StopPolling
    <3>4. r \in Job /\ r.pc = "deleting" /\ r.alone = job[l].alone
      BY <1>t DEF JobType, Job, JobPc
    <3> HIDE DEF r
    <3> QED
      BY <1>t, <2>1, <3>2, <3>3, <3>4, RunMoves
  <2> QED
    BY <1>5, <2>2, <2>3, <2>4 DEF StatusChecked
<1>6. CASE CopyDeleted(l)
  <2>1. Running(l) /\ Resolved(l, ui)
    BY <1>6 DEF CopyDeleted, Running
  <2> DEFINE r == [job[l] EXCEPT !.pc = "done"]
  <2>2. /\ ui' \in Ui /\ ui'.attached = ui.attached /\ ui'.form = ui.form
        /\ ui'.dataOwnerCreationPending = FALSE
        /\ job' = [job EXCEPT ![l] = r]
    BY <1>t, <2>1, ResolvedEffect
  <2>3. r \in Job /\ r.pc = "done" /\ r.alone = job[l].alone
    BY <1>t DEF JobType, Job, JobPc
  <2> HIDE DEF r
  <2> QED
    BY <1>t, <2>1, <2>2, <2>3, RunMoves
<1>7. CASE CallLost(l)
  BY <1>7, <1>t, FailMoves DEF CallLost
<1> QED
  BY <1>1, <1>2, <1>3, <1>4, <1>5, <1>6, <1>7 DEF JobStep

\* The user touches the dialog: runs only learn that they are not left alone.
LEMMA UserTouches ==
    ASSUME ClientTypeOK,
           \/ \E x \in Document : SetAttachedFile(x) \/ SetAdditionalField(x)
           \/ Reset
    PROVE  /\ ui' \in Ui /\ job' \in JobType
           /\ ui'.dataOwnerCreationPending = ui.dataOwnerCreationPending
           /\ ui'.snack = ui.snack
           /\ ui'.response \in {ui.response, Null}
           /\ \A m \in LocalFile :
                 /\ ~Running(m) => job'[m] = job[m]
                 /\ job'[m] = [job[m] EXCEPT !.alone = job'[m].alone]
                 /\ Running(m) => job'[m].alone = FALSE
<1>1. ui \in Ui /\ job \in JobType
  BY DEF ClientTypeOK, JobType
<1>2. /\ ui' \in Ui
      /\ ui'.dataOwnerCreationPending = ui.dataOwnerCreationPending
      /\ ui'.snack = ui.snack
      /\ ui'.response \in {ui.response, Null}
  BY <1>1 DEF SetAttachedFile, SetAdditionalField, Reset, Ui
<1>3. Disturb
  BY DEF SetAttachedFile, SetAdditionalField, Reset
<1>4. ASSUME NEW m \in LocalFile
      PROVE  /\ job'[m] = [job[m] EXCEPT !.alone = @ /\ ~Running(m)]
             /\ job'[m] \in Job
             /\ ~Running(m) => job'[m] = job[m]
             /\ job'[m] = [job[m] EXCEPT !.alone = job'[m].alone]
             /\ Running(m) => job'[m].alone = FALSE
  <2>1. job'[m] = [job[m] EXCEPT !.alone = @ /\ ~Running(m)]
    BY <1>3 DEF Disturb
  <2>2. job[m] \in Job
    BY <1>1 DEF JobType
  <2>3. CASE Running(m)
    <3>1. job'[m] = [job[m] EXCEPT !.alone = FALSE]
      BY <2>1, <2>3
    <3> QED
      BY <2>1, <2>2, <2>3, <3>1 DEF Job
  <2>4. CASE ~Running(m)
    <3>1. job'[m] = [job[m] EXCEPT !.alone = job[m].alone]
      BY <2>1, <2>2, <2>4 DEF Job
    <3>2. job'[m] = job[m]
      BY <2>2, <3>1 DEF Job
    <3> QED
      BY <2>1, <2>2, <2>4, <3>1, <3>2
  <2> QED
    BY <2>3, <2>4
<1>5. job' \in JobType
  <2>1. job' = [m \in LocalFile |-> job'[m]]
    BY <1>3 DEF Disturb
  <2> QED
    BY <1>4, <2>1 DEF JobType
<1> QED
  BY <1>2, <1>4, <1>5

-----------------------------------------------------------------------------
(* The client only does what clients of the backend may do                 *)

LEMMA BackendNext ==
    ASSUME NEW l \in LocalFile,
           \/ CreateLocalFile(l) \/ UploadLocalFileChunk(l)
           \/ \E u \in Upload : ReadLocalFile(u, l)
           \/ \E c \in Check, f \in FileId : CheckStatus(c, f)
           \/ \E f \in FileId : DeleteServiceNodeFile(f)
    PROVE  Next
BY DEF Next

LEMMA FileAnswered ==
    ASSUME ClientTypeOK, RequestInv, NEW l \in LocalFile,
           job[l].pc \in {"sleeping", "deleting"}
    PROVE  job[l].file \in FileId
BY DEF ClientTypeOK, RequestInv, Job

LEMMA ClientIsBackend == Good /\ [ClientNext]_allVars => [Next]_vars
<1> SUFFICES ASSUME Good, [ClientNext]_allVars PROVE [Next]_vars
  OBVIOUS
<1>t. ClientTypeOK /\ RequestInv
  BY DEF Good
<1>1. CASE UserStep \/ DataOwnersFetched \/ FetchLost \/ UNCHANGED allVars
  BY <1>1 DEF UserStep, SetAttachedFile, SetAdditionalField, Reset,
              CreateNewDataOwner, DataOwnersFetched, FetchLost, allVars
<1>2. ASSUME NEW l \in LocalFile, JobStep(l) PROVE [Next]_vars
  <2>1. CASE LocalFileCreated(l) \/ ChunkSaved(l) \/ UploadRequested(l)
    BY <2>1, BackendNext DEF LocalFileCreated, ChunkSaved, UploadRequested, Posted
  <2>2. CASE UploadAnswered(l)
    BY <2>2 DEF UploadAnswered
  <2>3. CASE StatusChecked(l) \/ CopyDeleted(l)
    <3>1. job[l].file \in FileId
      BY <1>t, <2>3, FileAnswered DEF StatusChecked, CopyDeleted
    <3> QED
      BY <2>3, <3>1, BackendNext DEF StatusChecked, CopyDeleted
  <2> QED
    BY <1>2, <2>1, <2>2, <2>3 DEF JobStep
<1>3. ASSUME NEW l \in LocalFile, CallLost(l) PROVE [Next]_vars
  <2>1. CASE job[l].pc \in {"sleeping", "deleting"}
    <3>1. job[l].file \in FileId
      BY <1>t, <2>1, FileAnswered
    <3> QED
      BY <1>3, <2>1, <3>1, BackendNext DEF CallLost
  <2>2. CASE job[l].pc \notin {"sleeping", "deleting"}
    BY <1>3, <2>2, BackendNext DEF CallLost, Posted
  <2> QED
    BY <2>1, <2>2
<1>4. CASE BackendStep
  BY <1>4 DEF BackendStep, Next
<1> QED
  BY <1>1, <1>2, <1>3, <1>4 DEF ClientNext

\* So the invariant of the backend holds behind this client.
LEMMA BackendInvStep == Good /\ [ClientNext]_allVars => IInv'
BY ClientIsBackend, InvStep DEF Good

-----------------------------------------------------------------------------
(* Types, and one run at a time                                            *)

LEMMA PostedType ==
    ASSUME ClientTypeOK, PiecesInv, NEW l \in LocalFile, job[l].pc = "posting",
           NEW u \in Upload, Posted(u, l)
    PROVE  posted' \in [Upload -> [content : Seq(Piece), metadata : Metadata,
                                   alone : BOOLEAN] \cup {Null}]
<1> DEFINE r == [content |-> content[l], metadata |-> job[l].metadata,
                 alone |-> job[l].alone]
<1>1. job[l].metadata \in Metadata
  BY DEF PiecesInv
<1>2. content[l] \in Seq(Piece) /\ job[l].alone \in BOOLEAN
  BY DEF ClientTypeOK, Job
<1>3. r \in [content : Seq(Piece), metadata : Metadata, alone : BOOLEAN]
  BY <1>1, <1>2
<1> HIDE DEF r
<1>4. posted' = [posted EXCEPT ![u] = r]
  BY DEF Posted, r
<1> QED
  BY <1>3, <1>4 DEF ClientTypeOK

LEMMA ContentType ==
    ASSUME ClientTypeOK, PiecesInv, NEW l \in LocalFile, job[l].pc = "sending",
           AppendPiece(l)
    PROVE  content' \in [LocalFile -> Seq(Piece)]
<1>1. job[l].piece \in Piece
  BY DEF PiecesInv
<1>2. content[l] \in Seq(Piece)
  BY DEF ClientTypeOK
<1>3. Append(content[l], job[l].piece) \in Seq(Piece)
  BY <1>1, <1>2, AppendProperties
<1> QED
  BY <1>3 DEF AppendPiece, ClientTypeOK

LEMMA ClientTypeStep == Good /\ [ClientNext]_allVars => ClientTypeOK'
<1> SUFFICES ASSUME Good, [ClientNext]_allVars PROVE ClientTypeOK'
  OBVIOUS
<1>t. ClientTypeOK /\ PiecesInv
  BY DEF Good
<1>b. TypeOK'
  BY BackendInvStep DEF IInv
<1>a. MaxLost \in Nat
  BY ClientAssumption
<1>u. ASSUME ui' \in Ui, job' \in JobType, UNCHANGED <<content, posted, lost>>
      PROVE  ClientTypeOK'
  BY <1>t, <1>b, <1>u DEF ClientTypeOK, JobType
<1>1. CASE \/ \E x \in Document : SetAttachedFile(x) \/ SetAdditionalField(x)
           \/ Reset
  BY <1>1, <1>t, <1>u, UserTouches DEF SetAttachedFile, SetAdditionalField, Reset
<1>2. ASSUME NEW l \in LocalFile, CreateNewDataOwner(l) PROVE ClientTypeOK'
  <2> DEFINE r == [job[l] EXCEPT !.pc = "creating"]
  <2>1. ui' \in Ui
    BY <1>2, <1>t DEF CreateNewDataOwner, ClientTypeOK, Ui
  <2>2. job' = [job EXCEPT ![l] = r] /\ r \in Job
    BY <1>2, <1>t DEF CreateNewDataOwner, ClientTypeOK, Job, JobPc
  <2> HIDE DEF r
  <2>3. job' \in JobType
    BY <1>t, <2>2 DEF ClientTypeOK, JobType
  <2> QED
    BY <1>2, <1>u, <2>1, <2>3 DEF CreateNewDataOwner
<1>3. CASE DataOwnersFetched \/ FetchLost
  <2>1. {o.file.id : o \in ownerDb} \in SUBSET FileId
    BY <1>t DEF ClientTypeOK, TypeOK, OwnerDoc, FileDoc
  <2>2. ui' \in Ui /\ job' \in JobType
    BY <1>3, <1>t, <2>1 DEF DataOwnersFetched, FetchLost, ClientTypeOK, JobType, Ui
  <2>3. lost' \in 0..MaxLost /\ UNCHANGED <<content, posted>>
    BY <1>3, <1>t, <1>a DEF DataOwnersFetched, FetchLost, ClientTypeOK
  <2> QED
    BY <1>t, <1>b, <2>2, <2>3 DEF ClientTypeOK, JobType
<1>4. ASSUME NEW l \in LocalFile, JobStep(l) \/ CallLost(l) PROVE ClientTypeOK'
  <2>1. ui' \in Ui /\ job' \in JobType
    BY <1>4, MovesAlone DEF Moves
  <2>2. lost' \in 0..MaxLost
    <3>1. \/ UNCHANGED lost
          \/ lost < MaxLost /\ lost' = lost + 1
      <4>1. CASE JobStep(l)
        BY <4>1
        DEF JobStep, LocalFileCreated, ChunkSaved, UploadRequested,
            UploadAnswered, StatusChecked, CopyDeleted
      <4>2. CASE CallLost(l)
        BY <4>2 DEF CallLost
      <4> QED
        BY <1>4, <4>1, <4>2
    <3> QED
      BY <1>t, <1>a, <3>1 DEF ClientTypeOK
  <2>3. content' \in [LocalFile -> Seq(Piece)]
    <3>1. \/ UNCHANGED content
          \/ job[l].pc = "sending" /\ AppendPiece(l)
      <4>1. CASE JobStep(l)
        BY <4>1
        DEF JobStep, LocalFileCreated, ChunkSaved, UploadRequested,
            UploadAnswered, StatusChecked, CopyDeleted
      <4>2. CASE CallLost(l)
        BY <4>2 DEF CallLost
      <4> QED
        BY <1>4, <4>1, <4>2
    <3> QED
      BY <1>t, <3>1, ContentType DEF ClientTypeOK
  <2>4. posted' \in [Upload -> [content : Seq(Piece), metadata : Metadata,
                                alone : BOOLEAN] \cup {Null}]
    <3>1. \/ UNCHANGED posted
          \/ job[l].pc = "posting" /\ \E u \in Upload : Posted(u, l)
      <4>1. CASE JobStep(l)
        BY <4>1
        DEF JobStep, LocalFileCreated, ChunkSaved, UploadRequested,
            UploadAnswered, StatusChecked, CopyDeleted
      <4>2. CASE CallLost(l)
        BY <4>2 DEF CallLost
      <4> QED
        BY <1>4, <4>1, <4>2
    <3> QED
      BY <1>t, <3>1, PostedType DEF ClientTypeOK
  <2> QED
    BY <1>b, <2>1, <2>2, <2>3, <2>4 DEF ClientTypeOK, JobType
<1>5. CASE BackendStep \/ UNCHANGED allVars
  BY <1>5, <1>t, <1>b DEF BackendStep, allVars, clientVars, ClientTypeOK
<1> QED
  BY <1>1, <1>2, <1>3, <1>4, <1>5 DEF ClientNext, UserStep

LEMMA RunStep == Good /\ RunInv /\ [ClientNext]_allVars => RunInv'
<1> SUFFICES ASSUME Good, RunInv, [ClientNext]_allVars PROVE RunInv'
  OBVIOUS
<1>t. ClientTypeOK
  BY DEF Good
<1>1. CASE \/ \E x \in Document : SetAttachedFile(x) \/ SetAdditionalField(x)
           \/ Reset
  <2>1. /\ ui'.dataOwnerCreationPending = ui.dataOwnerCreationPending
        /\ \A m \in LocalFile :
              job'[m] = [job[m] EXCEPT !.alone = job'[m].alone]
    BY <1>1, <1>t, UserTouches
  <2>2. \A m \in LocalFile : [job[m] EXCEPT !.alone = job'[m].alone].pc = job[m].pc
    BY <1>t DEF ClientTypeOK, Job
  <2>3. \A m \in LocalFile : job'[m].pc = job[m].pc
    BY <2>1, <2>2
  <2> QED
    BY <2>1, <2>3 DEF RunInv, Running
<1>2. ASSUME NEW l \in LocalFile, CreateNewDataOwner(l) PROVE RunInv'
  <2>1. /\ ~ui.dataOwnerCreationPending /\ ui'.dataOwnerCreationPending
        /\ \A m \in LocalFile \ {l} : job'[m] = job[m]
    BY <1>2, <1>t DEF CreateNewDataOwner, ButtonEnabled, ClientTypeOK, Ui
  <2> QED
    BY <2>1 DEF RunInv, Running
<1>3. ASSUME NEW l \in LocalFile, JobStep(l) \/ CallLost(l) PROVE RunInv'
  <2>1. Moves(l)
    BY <1>3, MovesAlone
  <2> QED
    BY <2>1 DEF Moves, RunInv, Running
<1>4. CASE DataOwnersFetched \/ FetchLost
  <2>1. /\ ui'.dataOwnerCreationPending = ui.dataOwnerCreationPending
        /\ UNCHANGED job
    BY <1>4, <1>t DEF DataOwnersFetched, FetchLost, ClientTypeOK, Ui
  <2> QED
    BY <2>1 DEF RunInv, Running
<1>5. CASE BackendStep \/ UNCHANGED allVars
  BY <1>5 DEF BackendStep, allVars, clientVars, RunInv, Running
<1> QED
  BY <1>1, <1>2, <1>3, <1>4, <1>5 DEF ClientNext, UserStep

-----------------------------------------------------------------------------
(* Every run has a request and a file of its own                           *)

\* An upload request stays, and keeps the file that was created for it.
UploadsStay ==
    \A u \in Upload :
        /\ up[u].pc # "idle" => up'[u].pc # "idle"
        /\ up[u].file # Null => up'[u].file = up[u].file

LEMMA UploadsStayStep == IInv /\ [Next]_vars => UploadsStay
<1> SUFFICES ASSUME IInv, [Next]_vars PROVE UploadsStay
  OBVIOUS
<1>t. up \in [Upload -> UploadJob] /\ UploadInv
  BY DEF IInv, TypeOK
<1>u. ASSUME UNCHANGED up PROVE UploadsStay
  BY <1>u DEF UploadsStay
<1>p. ASSUME NEW u \in Upload, NEW pc, UpdateUp(u, pc), pc # "idle"
      PROVE  UploadsStay
  BY <1>t, <1>p DEF UpdateUp, UploadJob, UploadsStay
<1>f. ASSUME NEW u \in Upload, FailUp(u) PROVE UploadsStay
  BY <1>t, <1>f DEF FailUp, UploadJob, UploadsStay
<1>1. ASSUME NEW u \in Upload, NEW l \in LocalFile, ReadLocalFile(u, l)
      PROVE  UploadsStay
  <2>1. CASE FailUp(u)
    BY <1>f, <2>1
  <2>2. CASE up' = [up EXCEPT ![u].pc = "encrypting", ![u].total = local[l]]
    BY <1>t, <2>2 DEF UploadJob, UploadsStay
  <2> QED
    BY <1>1, <2>1, <2>2 DEF ReadLocalFile
<1>2. ASSUME NEW u \in Upload, NEW f \in FileId, NEW d \in Date,
             CreateAtServiceNode(u, f, d)
      PROVE  UploadsStay
  <2>1. up[u].file = Null
    BY <1>2, <1>t DEF CreateAtServiceNode, UploadInv
  <2> QED
    BY <1>2, <1>t, <2>1 DEF CreateAtServiceNode, UploadJob, UploadsStay
<1>3. ASSUME NEW u \in Upload,
             \/ EncryptWithAes(u) \/ AllChunksSent(u) \/ UploadFileToDds(u)
             \/ ChunkReplyLost(u) \/ BackgroundJobStops(u)
      PROVE  UploadsStay
  BY <1>3, <1>p DEF EncryptWithAes, AllChunksSent, UploadFileToDds,
                    ChunkReplyLost, BackgroundJobStops
<1>4. ASSUME NEW u \in Upload, SaveTemporaryFile(u) \/ SendChunk(u)
      PROVE  UploadsStay
  BY <1>4, <1>t DEF SaveTemporaryFile, SendChunk, UploadJob, UploadsStay
<1>5. ASSUME NEW u \in Upload,
             \/ UploadFails(u)
             \/ \E f \in FileId, d \in Date : CreateReplyLost(u, f, d)
      PROVE  UploadsStay
  BY <1>5, <1>f DEF UploadFails, CreateReplyLost
<1>6. CASE Crash
  BY <1>6, <1>t DEF Crash, UploadJob, UpActive, UploadsStay
<1>7. ASSUME NEW l \in LocalFile, CreateLocalFile(l) \/ UploadLocalFileChunk(l)
      PROVE  UploadsStay
  BY <1>7, <1>u DEF CreateLocalFile, UploadLocalFileChunk
<1>8. ASSUME NEW f \in FileId, DdsAnswers(f) \/ DeleteServiceNodeFile(f)
      PROVE  UploadsStay
  BY <1>8, <1>u DEF DdsAnswers, DeleteServiceNodeFile
<1>9. ASSUME NEW c \in Check,
             SaveJobStep(c) \/ \E f \in FileId : CheckStatus(c, f)
      PROVE  UploadsStay
  BY <1>9, <1>u DEF SaveJobStep, CheckStatus, GetFileInfo, FindFileKey,
                    SaveJobStops, SaveFile, SaveDataOwner
<1>10. ASSUME NEW e \in Extend,
              ExtendStep(e) \/ \E f \in FileId, d \in Date : BeginExtend(e, f, d)
       PROVE  UploadsStay
  BY <1>10, <1>u DEF ExtendStep, BeginExtend, FindFile, ServiceNodeExtends,
                     ExtendFails, NothingToUpdate, FindDataOwner, FindSavedFile,
                     UpdateFile, SaveExtendedOwner
<1>11. CASE UNCHANGED vars
  BY <1>11, <1>u DEF vars
<1> QED
  BY <1>1, <1>2, <1>3, <1>4, <1>5, <1>6, <1>7, <1>8, <1>9, <1>10, <1>11
  DEF Next, UploadStep, UploadFault

\* RequestInv for one run.
RequestOK(l) ==
    /\ job[l].pc \in Unposted => job[l].request = Null
    /\ job[l].pc \in Unposted \cup {"waiting"} => job[l].file = Null
    /\ job[l].pc = "waiting" => job[l].request \in Upload
    /\ job[l].pc \in {"sleeping", "deleting"} => job[l].file # Null
    /\ job[l].request # Null => up[job[l].request].pc # "idle"
    /\ job[l].file # Null => /\ job[l].request # Null
                             /\ job[l].file = up[job[l].request].file

LEMMA RequestInvParts ==
    RequestInv <=>
        /\ \A l \in LocalFile : RequestOK(l)
        /\ \A l, m \in LocalFile :
            job[l].request = job[m].request /\ job[l].request # Null => l = m
BY DEF RequestInv, RequestOK

\* A run that keeps its request and its file, or got the file of its request.
LEMMA RequestKept ==
    ASSUME ClientTypeOK, UploadsStay, NEW l \in LocalFile, RequestOK(l),
           job'[l].request = job[l].request,
           \/ job'[l].file = job[l].file
           \/ /\ job[l].pc = "waiting" /\ job'[l].pc = "sleeping"
              /\ job'[l].file = up[job[l].request].file
              /\ job'[l].file # Null,
           \/ job'[l].pc = job[l].pc
           \/ job'[l].pc = "done"
           \/ job[l].pc \in Unposted /\ job'[l].pc \in Unposted
           \/ job[l].pc = "waiting" /\ job'[l].pc = "sleeping"
              /\ job'[l].file # Null
           \/ job[l].pc = "sleeping" /\ job'[l].pc = "deleting"
    PROVE  RequestOK(l)'
<1>1. job[l].request \in Upload \cup {Null}
  BY DEF ClientTypeOK, Job
<1>2. job[l].request # Null =>
         /\ up[job[l].request].pc # "idle" => up'[job[l].request].pc # "idle"
         /\ up[job[l].request].file # Null =>
              up'[job[l].request].file = up[job[l].request].file
  BY <1>1 DEF UploadsStay
<1>3. job[l].pc = "waiting" => job[l].request # Null
  BY ClientAssumption DEF RequestOK
<1> QED
  BY <1>2, <1>3 DEF RequestOK, Unposted

\* Requests stay with their runs unless one is posted.
LEMMA RequestsKept ==
    ASSUME ClientTypeOK, RequestInv, UploadsStay,
           \A m \in LocalFile : job'[m].request = job[m].request,
           \A m \in LocalFile : RequestOK(m) => RequestOK(m)'
    PROVE  RequestInv'
BY RequestInvParts DEF RequestInv, RequestOK

LEMMA RequestStep == Good /\ [ClientNext]_allVars => RequestInv'
<1> SUFFICES ASSUME Good, [ClientNext]_allVars PROVE RequestInv'
  OBVIOUS
<1>t. ClientTypeOK /\ RequestInv /\ job \in JobType
  BY DEF Good, ClientTypeOK, JobType
<1>s. UploadsStay
  BY ClientIsBackend, UploadsStayStep DEF Good
\* Only run l changes, and keeps its request.
<1>l. ASSUME NEW l \in LocalFile, \A m \in LocalFile \ {l} : job'[m] = job[m],
             job'[l].request = job[l].request,
             \/ job'[l].file = job[l].file
             \/ /\ job[l].pc = "waiting" /\ job'[l].pc = "sleeping"
                /\ job'[l].file = up[job[l].request].file
                /\ job'[l].file # Null,
             \/ job'[l].pc = job[l].pc
             \/ job'[l].pc = "done"
             \/ job[l].pc \in Unposted /\ job'[l].pc \in Unposted
             \/ job[l].pc = "waiting" /\ job'[l].pc = "sleeping"
                /\ job'[l].file # Null
             \/ job[l].pc = "sleeping" /\ job'[l].pc = "deleting"
      PROVE  RequestInv'
  <2>1. RequestOK(l) => RequestOK(l)'
    BY <1>t, <1>s, <1>l, RequestKept
  <2>2. \A m \in LocalFile \ {l} : RequestOK(m) => RequestOK(m)'
    BY <1>t, <1>s, <1>l, RequestKept
  <2> QED
    BY <1>t, <1>s, <1>l, <2>1, <2>2, RequestsKept
<1>u. ASSUME \A m \in LocalFile : /\ job'[m].pc = job[m].pc
                                  /\ job'[m].request = job[m].request
                                  /\ job'[m].file = job[m].file
      PROVE  RequestInv'
  <2>1. \A m \in LocalFile : RequestOK(m) => RequestOK(m)'
    BY <1>t, <1>s, <1>u, RequestKept
  <2> QED
    BY <1>t, <1>s, <1>u, <2>1, RequestsKept
<1>f. ASSUME NEW l \in LocalFile, job' = [job EXCEPT ![l] = [job[l] EXCEPT !.pc = "done"]]
      PROVE  RequestInv'
  <2>1. /\ \A m \in LocalFile \ {l} : job'[m] = job[m]
        /\ job'[l].request = job[l].request /\ job'[l].file = job[l].file
        /\ job'[l].pc = "done"
    BY <1>t, <1>f DEF JobType, Job
  <2> QED
    BY <1>l, <2>1
<1>c. ASSUME NEW l \in LocalFile, NEW r \in Job, Continue(l, r),
             job[l].pc \in Unposted,
             r.request = job[l].request, r.file = job[l].file
      PROVE  RequestInv'
  <2>1. CASE Fail(l)
    BY <1>t, <1>f, <2>1, FailEffect
  <2>2. CASE NextPiece(l, r)
    <3>1. /\ \A m \in LocalFile \ {l} : job'[m] = job[m]
          /\ job'[l].request = job[l].request /\ job'[l].file = job[l].file
          /\ job'[l].pc = "sending"
      BY <1>t, <1>c, <2>2 DEF NextPiece, JobType, Job
    <3> QED
      BY <1>c, <1>l, <3>1 DEF Unposted
  <2>3. CASE Request(l, r)
    <3>1. /\ \A m \in LocalFile \ {l} : job'[m] = job[m]
          /\ job'[l].request = job[l].request /\ job'[l].file = job[l].file
          /\ job'[l].pc = "posting"
      BY <1>t, <1>c, <2>3 DEF Request, JobType, Job
    <3> QED
      BY <1>c, <1>l, <3>1 DEF Unposted
  <2> QED
    BY <1>t, <1>c, <2>1, <2>2, <2>3, ContinueEffect
<1>1. CASE \/ \E x \in Document : SetAttachedFile(x) \/ SetAdditionalField(x)
           \/ Reset
  <2>1. \A m \in LocalFile : job'[m] = [job[m] EXCEPT !.alone = job'[m].alone]
    BY <1>1, <1>t, UserTouches
  <2>2. ASSUME NEW m \in LocalFile
        PROVE  /\ job'[m].pc = job[m].pc /\ job'[m].request = job[m].request
               /\ job'[m].file = job[m].file
    <3>1. job[m] \in Job
      BY <1>t DEF JobType
    <3>2. \A b : LET r == [job[m] EXCEPT !.alone = b] IN
                /\ r.pc = job[m].pc /\ r.request = job[m].request
                /\ r.file = job[m].file
      BY <3>1 DEF Job
    <3> QED
      BY <2>1, <3>2
  <2> QED
    BY <1>u, <2>2
<1>2. ASSUME NEW l \in LocalFile, CreateNewDataOwner(l) PROVE RequestInv'
  <2>1. /\ job[l].pc = "idle" /\ job'[l].pc = "creating"
        /\ \A m \in LocalFile \ {l} : job'[m] = job[m]
        /\ job'[l].request = job[l].request /\ job'[l].file = job[l].file
    BY <1>2, <1>t DEF CreateNewDataOwner, JobType, Job
  <2> QED
    BY <1>l, <2>1 DEF Unposted
<1>3. ASSUME NEW l \in LocalFile, LocalFileCreated(l) PROVE RequestInv'
  <2>1. /\ Continue(l, Counted(l)) /\ job[l].pc \in Unposted
        /\ Counted(l) \in Job
        /\ Counted(l).request = job[l].request /\ Counted(l).file = job[l].file
    BY <1>3, <1>t, ContinuedTypes DEF LocalFileCreated, Counted, Unposted, JobType, Job
  <2> QED
    BY <1>c, <2>1
<1>4. ASSUME NEW l \in LocalFile, ChunkSaved(l) PROVE RequestInv'
  <2>1. /\ Continue(l, Advanced(l)) /\ job[l].pc \in Unposted
        /\ Advanced(l) \in Job
        /\ Advanced(l).request = job[l].request /\ Advanced(l).file = job[l].file
    BY <1>4, <1>t, ContinuedTypes DEF ChunkSaved, Advanced, Unposted, JobType, Job
  <2> QED
    BY <1>c, <2>1
\* The request that is posted was no request of another run.
<1>5. ASSUME NEW l \in LocalFile, UploadRequested(l) PROVE RequestInv'
  <2>1. PICK u \in Upload :
           /\ Posted(u, l)
           /\ job' = [job EXCEPT ![l].pc = "waiting", ![l].request = u]
    BY <1>5 DEF UploadRequested
  <2>2. /\ up[u].pc = "idle" /\ up'[u].pc # "idle"
    BY <2>1, <1>t DEF Posted, ReadLocalFile, FailUp, ClientTypeOK, TypeOK, UploadJob
  <2>3. /\ \A m \in LocalFile \ {l} : job'[m] = job[m]
        /\ job'[l].pc = "waiting" /\ job'[l].request = u
        /\ job'[l].file = job[l].file
    BY <1>t, <2>1 DEF JobType, Job
  <2>4. RequestOK(l)'
    BY <1>5, <1>t, <2>2, <2>3, ClientAssumption
    DEF UploadRequested, RequestInv, RequestOK, Unposted
  <2>5. \A m \in LocalFile \ {l} : RequestOK(m)' /\ job'[m].request # u
    <3>1. ASSUME NEW m \in LocalFile \ {l} PROVE RequestOK(m)' /\ job'[m].request # u
      <4>1. RequestOK(m)
        BY <1>t, RequestInvParts
      <4>2. RequestOK(m)'
        BY <1>t, <1>s, <2>3, <4>1, RequestKept
      <4> QED
        BY <2>2, <2>3, <4>1, <4>2, ClientAssumption DEF RequestOK
    <3> QED
      BY <3>1
  <2> QED
    BY <1>t, <2>3, <2>4, <2>5 DEF RequestInv, RequestOK
<1>6. ASSUME NEW l \in LocalFile, UploadAnswered(l) PROVE RequestInv'
  <2>1. CASE Fail(l)
    BY <1>t, <1>f, <2>1, FailEffect
  <2>2. CASE /\ up[job[l].request].reply = "ok"
             /\ job' = [job EXCEPT ![l].pc = "sleeping", ![l].file = AnsweredFile(l)]
    <3>1. job[l].pc = "waiting" /\ job[l].request \in Upload
      BY <1>6, <1>t DEF UploadAnswered, RequestInv
    <3>2. up[job[l].request].file \in FileId
      BY <2>2, <3>1 DEF Good, IInv, UploadInv
    <3>3. up[job[l].request].file # Null
      BY <3>2, NullAssumption
    <3>4. /\ \A m \in LocalFile \ {l} : job'[m] = job[m]
          /\ job'[l].pc = "sleeping" /\ job'[l].request = job[l].request
          /\ job'[l].file = up[job[l].request].file
      BY <1>t, <2>2 DEF AnsweredFile, JobType, Job
    <3> QED
      BY <1>l, <3>1, <3>3, <3>4
  <2> QED
    BY <1>6, <2>1, <2>2 DEF UploadAnswered
<1>7. ASSUME NEW l \in LocalFile, StatusChecked(l) PROVE RequestInv'
  <2>1. CASE PollAgain(l)
    BY <1>u, <2>1 DEF PollAgain
  <2>2. CASE Fail(l)
    BY <1>t, <1>f, <2>2, FailEffect
  <2>3. CASE FailureShown(l) \/ ResponseShown(l)
    <3>1. job' = [job EXCEPT ![l].pc = "deleting"] /\ job[l].pc = "sleeping"
      BY <1>7, <2>3 DEF FailureShown, ResponseShown, StopPolling, StatusChecked
    <3>2. /\ \A m \in LocalFile \ {l} : job'[m] = job[m]
          /\ job'[l].pc = "deleting" /\ job'[l].request = job[l].request
          /\ job'[l].file = job[l].file
      BY <1>t, <3>1 DEF JobType, Job
    <3> QED
      BY <1>l, <3>1, <3>2
  <2> QED
    BY <1>7, <2>1, <2>2, <2>3 DEF StatusChecked
<1>8. ASSUME NEW l \in LocalFile, CopyDeleted(l) PROVE RequestInv'
  BY <1>8, <1>t, <1>f, ResolvedEffect DEF CopyDeleted
<1>9. ASSUME NEW l \in LocalFile, CallLost(l) PROVE RequestInv'
  BY <1>9, <1>t, <1>f, FailEffect DEF CallLost
<1>10. CASE \/ DataOwnersFetched \/ FetchLost \/ BackendStep
            \/ UNCHANGED allVars
  <2>1. UNCHANGED job
    BY <1>10 DEF DataOwnersFetched, FetchLost, BackendStep, allVars, clientVars
  <2> QED
    BY <1>u, <2>1
<1> QED
  BY <1>1, <1>2, <1>3, <1>4, <1>5, <1>6, <1>7, <1>8, <1>9, <1>10
  DEF ClientNext, UserStep, JobStep

-----------------------------------------------------------------------------
(* What is uploaded is one document                                        *)

LEMMA PiecesGrow ==
    ASSUME NEW x \in Document, NEW n \in Nat
    PROVE  /\ Pieces(x, 0) = <<>>
           /\ Append(Pieces(x, n), [of |-> x, at |-> n]) = Pieces(x, n + 1)
<1>1. ASSUME NEW k \in Nat
      PROVE  /\ Pieces(x, k) \in Seq(Piece) /\ Len(Pieces(x, k)) = k
             /\ \A i \in 1..k : Pieces(x, k)[i] = [of |-> x, at |-> i - 1]
  <2>1. \A i \in 1..k : [of |-> x, at |-> i - 1] \in Piece
    BY DEF Piece
  <2>2. Pieces(x, k) \in [1..k -> Piece]
    BY <2>1 DEF Pieces
  <2>3. Pieces(x, k) \in Seq(Piece)
    BY <2>2, SeqDef
  <2>4. DOMAIN Pieces(x, k) = 1..k
    BY <2>2
  <2>5. Len(Pieces(x, k)) \in Nat /\ 1..Len(Pieces(x, k)) = 1..k
    BY <2>3, <2>4, LenProperties
  <2>6. Len(Pieces(x, k)) = k
    <3> DEFINE n1 == Len(Pieces(x, k))
    <3>1. n1 \in Nat /\ 1..n1 = 1..k
      BY <2>5
    <3> HIDE DEF n1
    <3>2. n1 \in 1..n1 \/ n1 = 0
      BY <3>1
    <3>3. k \in 1..k \/ k = 0
      OBVIOUS
    <3>4. n1 = k
      BY <3>1, <3>2, <3>3
    <3> QED
      BY <3>4 DEF n1
  <2> QED
    BY <2>3, <2>6 DEF Pieces
<1>2. Pieces(x, 0) = <<>>
  <2>1. Pieces(x, 0) \in Seq(Piece) /\ Len(Pieces(x, 0)) = 0
    BY <1>1
  <2> QED
    BY <2>1, EmptySeq
<1>3. Append(Pieces(x, n), [of |-> x, at |-> n]) = Pieces(x, n + 1)
  <2> DEFINE e == [of |-> x, at |-> n]
             s == Append(Pieces(x, n), e)
             t == Pieces(x, n + 1)
  <2>1. e \in Piece
    BY DEF Piece
  <2>2. /\ s \in Seq(Piece) /\ Len(s) = n + 1
        /\ \A i \in 1..n : s[i] = Pieces(x, n)[i]
        /\ s[n + 1] = e
    <3>1. Pieces(x, n) \in Seq(Piece) /\ Len(Pieces(x, n)) = n
      BY <1>1
    <3> HIDE DEF e
    <3> QED
      BY <2>1, <3>1, AppendProperties
  <2>3. /\ t \in Seq(Piece) /\ Len(t) = n + 1
        /\ \A i \in 1..n + 1 : t[i] = [of |-> x, at |-> i - 1]
    <3>1. n + 1 \in Nat
      OBVIOUS
    <3> QED
      BY <1>1, <3>1
  <2>4. \A i \in 1..n : Pieces(x, n)[i] = [of |-> x, at |-> i - 1]
    BY <1>1
  <2>5. t[n + 1] = e
    <3>1. n + 1 \in 1..n + 1 /\ (n + 1) - 1 = n
      OBVIOUS
    <3>2. t[n + 1] = [of |-> x, at |-> (n + 1) - 1]
      BY <2>3, <3>1
    <3> QED
      BY <3>1, <3>2
  <2> HIDE DEF s, t, e
  <2>6. \A i \in 1..n + 1 : s[i] = t[i]
    <3>1. ASSUME NEW i \in 1..n + 1 PROVE s[i] = t[i]
      <4>1. CASE i = n + 1
        BY <4>1, <2>2, <2>5
      <4>2. CASE i # n + 1
        <5>1. i \in 1..n
          BY <4>2
        <5> QED
          BY <5>1, <2>2, <2>3, <2>4
      <4> QED
        BY <4>1, <4>2
    <3> QED
      BY <3>1
  <2>7. s = t
    BY <2>2, <2>3, <2>6, SeqEqual
  <2> QED
    BY <2>7 DEF s, t, e
<1> QED
  BY <1>2, <1>3

\* PiecesInv for one run.
RunPieces(l) ==
    /\ job[l].pc = "idle" => job[l].next = 0
    /\ job[l].pc \in {"idle", "creating"} => content[l] = <<>>
    /\ Running(l) /\ job[l].alone /\ job[l].pc \in Unposted => PiecesOK(l)
    /\ job[l].pc = "sending" => job[l].piece \in Piece
    /\ job[l].pc = "posting" => job[l].metadata \in Metadata

LEMMA PiecesInvParts ==
    PiecesInv <=> (\A l \in LocalFile : RunPieces(l)) /\ UploadIsOneDocument
BY DEF PiecesInv, RunPieces

\* A run that does not move, while the dialog stays as it is.
LEMMA PiecesKept ==
    ASSUME NEW l \in LocalFile, RunPieces(l),
           job'[l] = job[l], content'[l] = content[l],
           ui'.attached = ui.attached, ui'.form = ui.form
    PROVE  RunPieces(l)'
BY DEF RunPieces, PiecesOK, Running

\* A run that has posted its request has nothing left to cut.
LEMMA PiecesDone ==
    ASSUME NEW l \in LocalFile, job'[l].pc \notin Unposted
    PROVE  RunPieces(l)'
BY DEF RunPieces, Unposted

\* A step of run l leaves the pieces of the other runs alone.
LEMMA OtherPieces ==
    ASSUME Good, NEW l \in LocalFile, JobStep(l) \/ CallLost(l),
           NEW m \in LocalFile \ {l}
    PROVE  RunPieces(m)'
<1>1. /\ job'[m] = job[m]
      /\ ui'.attached = ui.attached /\ ui'.form = ui.form
  BY MovesAlone DEF Moves
<1>2. UNCHANGED content \/ AppendPiece(l)
  <2>1. CASE JobStep(l)
    BY <2>1
    DEF JobStep, LocalFileCreated, ChunkSaved, UploadRequested,
        UploadAnswered, StatusChecked, CopyDeleted
  <2>2. CASE CallLost(l)
    BY <2>2 DEF CallLost
  <2> QED
    BY <2>1, <2>2
<1>3. content'[m] = content[m]
  BY <1>2 DEF AppendPiece, Good, ClientTypeOK
<1> QED
  BY <1>1, <1>3, PiecesInvParts, PiecesKept DEF Good

\* A run goes on to the next piece of the document, or has all of them.
LEMMA ContinuePieces ==
    ASSUME Good, NEW l \in LocalFile, NEW r \in Job, Continue(l, r),
           r.alone = job[l].alone,
           content' \in [LocalFile -> Seq(Piece)],
           job[l].alone /\ ui.attached # Null =>
              /\ ui.form = ui.attached
              /\ r.next <= r.total /\ r.total = ChunksOf[ui.attached]
              /\ content'[l] = Pieces(ui.attached, r.next)
    PROVE  RunPieces(l)'
<1>t. ClientTypeOK /\ job \in JobType /\ ui \in Ui
  BY DEF Good, ClientTypeOK, JobType
<1>a. ui.attached \in Document => ui.attached # Null
  BY ClientAssumption
<1>n. r.next \in Nat /\ r.total \in Nat
  BY DEF Job
<1>1. CASE Fail(l)
  <2>1. job' = [job EXCEPT ![l] = [job[l] EXCEPT !.pc = "done"]]
    BY <1>1, <1>t, FailEffect
  <2>2. job'[l].pc = "done"
    BY <1>t, <2>1 DEF JobType, Job
  <2> QED
    BY <2>2, PiecesDone DEF Unposted
<1>2. CASE NextPiece(l, r)
  <2> DEFINE s == [r EXCEPT !.pc = "sending",
                            !.piece = [of |-> ui.attached, at |-> r.next]]
  <2>1. /\ s.pc = "sending" /\ s.piece = [of |-> ui.attached, at |-> r.next]
        /\ s.alone = r.alone /\ s.next = r.next /\ s.total = r.total
    BY DEF Job
  <2>2. job'[l] = s
    BY <1>2, <1>t DEF NextPiece, JobType
  <2> HIDE DEF s
  <2>3. ui' = ui /\ ui.attached \in Document /\ r.next < r.total
    BY <1>2 DEF NextPiece
  <2>4. job'[l].piece \in Piece
    BY <2>1, <2>2, <2>3, <1>n DEF Piece
  <2>5. job'[l].alone => PiecesOK(l)'
    BY <1>a, <2>1, <2>2, <2>3 DEF PiecesOK
  <2> QED
    BY <2>1, <2>2, <2>4, <2>5 DEF RunPieces
<1>3. CASE Request(l, r)
  <2> DEFINE s == [r EXCEPT !.pc = "posting",
                            !.metadata = [name |-> ui.attached, about |-> ui.form]]
  <2>1. /\ s.pc = "posting"
        /\ s.metadata = [name |-> ui.attached, about |-> ui.form]
        /\ s.alone = r.alone /\ s.next = r.next /\ s.total = r.total
    BY DEF Job
  <2>2. job'[l] = s
    BY <1>3, <1>t DEF Request, JobType
  <2> HIDE DEF s
  <2>3. ui' = ui /\ ui.attached \in Document /\ ~(r.next < r.total)
    BY <1>3 DEF Request
  <2>4. job'[l].metadata \in Metadata
    BY <1>t, <2>1, <2>2, <2>3 DEF Metadata, Ui
  <2>5. job'[l].alone => r.next = r.total
    BY <1>a, <1>n, <2>1, <2>2, <2>3
  <2>6. job'[l].alone => PiecesOK(l)'
    BY <1>a, <1>n, <2>1, <2>2, <2>3, <2>5 DEF PiecesOK
  <2> QED
    BY <2>1, <2>2, <2>4, <2>6 DEF RunPieces
<1> QED
  BY <1>t, <1>1, <1>2, <1>3, ContinueEffect

LEMMA PostedWhole ==
    ASSUME Good, NEW l \in LocalFile, job[l].pc = "posting",
           NEW u \in Upload, Posted(u, l)
    PROVE  UploadIsOneDocument'
<1>t. ClientTypeOK /\ PiecesInv
  BY DEF Good
<1> DEFINE r == [content |-> content[l], metadata |-> job[l].metadata,
                 alone |-> job[l].alone]
<1>1. posted' = [posted EXCEPT ![u] = r]
  BY DEF Posted
<1>2. r.alone => r.metadata.about = r.metadata.name
                 /\ r.content = Pieces(r.metadata.name, ChunksOf[r.metadata.name])
  <2>1. r.alone => PiecesOK(l)
    BY <1>t DEF PiecesInv, Running, Unposted
  <2> QED
    BY <2>1 DEF PiecesOK
<1> HIDE DEF r
<1>3. ASSUME NEW v \in Upload, posted'[v] # Null, posted'[v].alone
      PROVE  /\ posted'[v].metadata.about = posted'[v].metadata.name
             /\ posted'[v].content = Pieces(posted'[v].metadata.name,
                                            ChunksOf[posted'[v].metadata.name])
  <2>1. CASE v = u
    BY <1>1, <1>2, <1>3, <1>t, <2>1 DEF ClientTypeOK
  <2>2. CASE v # u
    <3>1. posted'[v] = posted[v]
      BY <1>1, <1>t, <2>2 DEF ClientTypeOK
    <3> QED
      BY <1>3, <1>t, <3>1 DEF PiecesInv, UploadIsOneDocument
  <2> QED
    BY <2>1, <2>2
<1> QED
  BY <1>3 DEF UploadIsOneDocument

LEMMA PiecesStep == Good /\ [ClientNext]_allVars => PiecesInv'
<1> SUFFICES ASSUME Good, [ClientNext]_allVars PROVE PiecesInv'
  OBVIOUS
<1>t. ClientTypeOK /\ PiecesInv /\ job \in JobType /\ ui \in Ui
  BY DEF Good, ClientTypeOK, JobType
<1>o. \A m \in LocalFile : RunPieces(m)
  BY <1>t, PiecesInvParts
<1>q. ASSUME \A m \in LocalFile : RunPieces(m)', UploadIsOneDocument'
      PROVE  PiecesInv'
  BY <1>q DEF PiecesInv, RunPieces
<1>p. ASSUME UNCHANGED posted PROVE UploadIsOneDocument'
  BY <1>p, <1>t DEF PiecesInv, UploadIsOneDocument
<1>c. content' \in [LocalFile -> Seq(Piece)]
  BY ClientTypeStep DEF ClientTypeOK
<1>1. CASE \/ \E x \in Document : SetAttachedFile(x) \/ SetAdditionalField(x)
           \/ Reset
  <2>1. UNCHANGED <<content, posted>>
    BY <1>1 DEF SetAttachedFile, SetAdditionalField, Reset
  <2>2. ASSUME NEW m \in LocalFile PROVE RunPieces(m)'
    <3>1. /\ job'[m] = [job[m] EXCEPT !.alone = job'[m].alone]
          /\ Running(m) => job'[m].alone = FALSE
      BY <1>1, <1>t, UserTouches
    <3>2. /\ job'[m].pc = job[m].pc /\ job'[m].next = job[m].next
          /\ job'[m].piece = job[m].piece
          /\ job'[m].metadata = job[m].metadata
      BY <1>t, <3>1 DEF JobType, Job
    <3> QED
      BY <1>o, <2>1, <3>1, <3>2 DEF RunPieces, Running
  <2> QED
    BY <1>p, <1>q, <2>1, <2>2
<1>2. ASSUME NEW l \in LocalFile, CreateNewDataOwner(l) PROVE PiecesInv'
  <2>1. /\ UNCHANGED <<content, posted>>
        /\ ui'.attached = ui.attached /\ ui'.form = ui.form
        /\ ui.attached # Null /\ ui.form = ui.attached
        /\ job[l].pc = "idle"
        /\ \A m \in LocalFile \ {l} : job'[m] = job[m]
        /\ job'[l].pc = "creating" /\ job'[l].next = job[l].next
    BY <1>2, <1>t DEF CreateNewDataOwner, JobType, Job, Ui
  <2>2. RunPieces(l)'
    BY <1>o, <2>1 DEF RunPieces, PiecesOK
  <2>3. \A m \in LocalFile \ {l} : RunPieces(m)'
    BY <1>o, <2>1, PiecesKept
  <2> QED
    BY <1>p, <1>q, <2>1, <2>2, <2>3
<1>3. ASSUME NEW l \in LocalFile, LocalFileCreated(l) PROVE PiecesInv'
  <2>1. /\ Continue(l, Counted(l)) /\ job[l].pc = "creating"
        /\ UNCHANGED <<content, posted>> /\ Counted(l) \in Job
    BY <1>3, <1>t, ContinuedTypes DEF LocalFileCreated, Counted
  <2>2. /\ Counted(l).alone = job[l].alone /\ Counted(l).next = job[l].next
        /\ ui.attached # Null => Counted(l).total = ChunksOf[ui.attached]
    BY <1>t DEF Counted, JobType, Job
  <2>3. content[l] = <<>>
    BY <1>o, <2>1 DEF RunPieces
  <2>4. ASSUME job[l].alone, ui.attached # Null
        PROVE  /\ ui.form = ui.attached
               /\ Counted(l).next <= Counted(l).total
               /\ Counted(l).total = ChunksOf[ui.attached]
               /\ content'[l] = Pieces(ui.attached, Counted(l).next)
    <3>1. PiecesOK(l)
      BY <1>o, <2>1, <2>4 DEF RunPieces, Running, Unposted
    <3>2. ui.form = ui.attached /\ job[l].next = 0
      BY <2>1, <3>1 DEF PiecesOK
    <3>3. ui.attached \in Document
      BY <1>t, <2>4 DEF Ui
    <3>4. ChunksOf[ui.attached] \in Nat
      BY <3>3, ClientAssumption, BoundsAssumption
    <3>5. Pieces(ui.attached, 0) = <<>>
      BY <3>3, PiecesGrow
    <3> QED
      BY <2>1, <2>2, <2>3, <2>4, <3>2, <3>4, <3>5
  <2>5. RunPieces(l)'
    BY <1>c, <2>1, <2>2, <2>4, ContinuePieces
  <2>6. \A m \in LocalFile \ {l} : RunPieces(m)'
    BY <1>3, OtherPieces DEF JobStep
  <2> QED
    BY <1>p, <1>q, <2>1, <2>5, <2>6
<1>4. ASSUME NEW l \in LocalFile, ChunkSaved(l) PROVE PiecesInv'
  <2>1. /\ Continue(l, Advanced(l)) /\ job[l].pc = "sending"
        /\ AppendPiece(l) /\ UNCHANGED posted /\ Advanced(l) \in Job
    BY <1>4, <1>t, ContinuedTypes DEF ChunkSaved, Advanced
  <2>2. /\ Advanced(l).alone = job[l].alone /\ Advanced(l).next = job[l].next + 1
        /\ Advanced(l).total = job[l].total
    BY <1>t DEF Advanced, JobType, Job
  <2>3. content'[l] = Append(content[l], job[l].piece)
    BY <1>t, <2>1 DEF AppendPiece, ClientTypeOK
  <2>4. ASSUME job[l].alone, ui.attached # Null
        PROVE  /\ ui.form = ui.attached
               /\ Advanced(l).next <= Advanced(l).total
               /\ Advanced(l).total = ChunksOf[ui.attached]
               /\ content'[l] = Pieces(ui.attached, Advanced(l).next)
    <3>1. PiecesOK(l)
      BY <1>o, <2>1, <2>4 DEF RunPieces, Running, Unposted
    <3>2. /\ ui.form = ui.attached /\ job[l].total = ChunksOf[ui.attached]
          /\ content[l] = Pieces(ui.attached, job[l].next)
          /\ job[l].next < job[l].total
          /\ job[l].piece = [of |-> ui.attached, at |-> job[l].next]
      BY <2>1, <3>1 DEF PiecesOK
    <3>3. ui.attached \in Document /\ job[l].next \in Nat /\ job[l].total \in Nat
      BY <1>t, <2>4 DEF Ui, JobType, Job
    <3>4. Append(Pieces(ui.attached, job[l].next),
                 [of |-> ui.attached, at |-> job[l].next])
            = Pieces(ui.attached, job[l].next + 1)
      BY <3>3, PiecesGrow
    <3>5. job[l].next + 1 <= job[l].total
      BY <3>2, <3>3
    <3> QED
      BY <2>2, <2>3, <3>2, <3>4, <3>5
  <2>5. RunPieces(l)'
    BY <1>c, <2>1, <2>2, <2>4, ContinuePieces
  <2>6. \A m \in LocalFile \ {l} : RunPieces(m)'
    BY <1>4, OtherPieces DEF JobStep
  <2> QED
    BY <1>p, <1>q, <2>1, <2>5, <2>6
<1>5. ASSUME NEW l \in LocalFile, UploadRequested(l) PROVE PiecesInv'
  <2>1. PICK u \in Upload :
           /\ Posted(u, l)
           /\ job' = [job EXCEPT ![l].pc = "waiting", ![l].request = u]
    BY <1>5 DEF UploadRequested
  <2>2. job[l].pc = "posting" /\ job'[l].pc = "waiting"
    BY <1>5, <1>t, <2>1 DEF UploadRequested, JobType, Job
  <2>3. UploadIsOneDocument' /\ RunPieces(l)'
    BY <2>1, <2>2, PostedWhole, PiecesDone DEF Unposted
  <2>4. \A m \in LocalFile \ {l} : RunPieces(m)'
    BY <1>5, OtherPieces DEF JobStep
  <2> QED
    BY <1>q, <2>3, <2>4
<1>6. ASSUME NEW l \in LocalFile,
             UploadAnswered(l) \/ StatusChecked(l) \/ CopyDeleted(l)
      PROVE  PiecesInv'
  <2>1. UNCHANGED posted
    BY <1>6 DEF UploadAnswered, StatusChecked, CopyDeleted
  <2>2. job'[l].pc \in {"sleeping", "deleting", "done"}
    <3>1. CASE Fail(l)
      <4>1. job' = [job EXCEPT ![l] = [job[l] EXCEPT !.pc = "done"]]
        BY <1>t, <3>1, FailEffect
      <4> QED
        BY <1>t, <4>1 DEF JobType, Job
    <3>2. CASE UploadAnswered(l) /\ ~Fail(l)
      BY <1>t, <3>2 DEF UploadAnswered, JobType, Job
    <3>3. CASE StatusChecked(l) /\ ~Fail(l)
      BY <1>t, <3>3 DEF StatusChecked, PollAgain, FailureShown, ResponseShown,
                        StopPolling, JobType, Job
    <3>4. CASE CopyDeleted(l)
      <4>1. job' = [job EXCEPT ![l] = [job[l] EXCEPT !.pc = "done"]]
        BY <1>t, <3>4, ResolvedEffect DEF CopyDeleted
      <4> QED
        BY <1>t, <4>1 DEF JobType, Job
    <3> QED
      BY <1>6, <3>1, <3>2, <3>3, <3>4
  <2>3. RunPieces(l)'
    BY <2>2, PiecesDone DEF Unposted
  <2>4. \A m \in LocalFile \ {l} : RunPieces(m)'
    BY <1>6, OtherPieces DEF JobStep
  <2> QED
    BY <1>p, <1>q, <2>1, <2>3, <2>4
<1>7. ASSUME NEW l \in LocalFile, CallLost(l) PROVE PiecesInv'
  <2>1. UploadIsOneDocument'
    <3>1. CASE UNCHANGED posted
      BY <1>p, <3>1
    <3>2. CASE job[l].pc = "posting" /\ \E u \in Upload : Posted(u, l)
      BY <3>2, PostedWhole
    <3> QED
      BY <1>7, <3>1, <3>2 DEF CallLost
  <2>2. job'[l].pc = "done"
    <3>1. job' = [job EXCEPT ![l] = [job[l] EXCEPT !.pc = "done"]]
      BY <1>7, <1>t, FailEffect DEF CallLost
    <3> QED
      BY <1>t, <3>1 DEF JobType, Job
  <2>3. RunPieces(l)'
    BY <2>2, PiecesDone DEF Unposted
  <2>4. \A m \in LocalFile \ {l} : RunPieces(m)'
    BY <1>7, OtherPieces
  <2> QED
    BY <1>q, <2>1, <2>3, <2>4
<1>8. CASE \/ DataOwnersFetched \/ FetchLost \/ BackendStep
           \/ UNCHANGED allVars
  <2>1. /\ UNCHANGED <<job, content, posted>>
        /\ ui'.attached = ui.attached /\ ui'.form = ui.form
    BY <1>8, <1>t
    DEF DataOwnersFetched, FetchLost, BackendStep, allVars, clientVars, Ui
  <2>2. \A m \in LocalFile : RunPieces(m)'
    BY <1>o, <2>1, PiecesKept
  <2> QED
    BY <1>p, <1>q, <2>1, <2>2
<1> QED
  BY <1>1, <1>2, <1>3, <1>4, <1>5, <1>6, <1>7, <1>8
  DEF ClientNext, UserStep, JobStep

-----------------------------------------------------------------------------
(* Files the service node has decided about                                *)

\* The steps of the backend behind this client that delete no copy.
Forward ==
    \/ \E l \in LocalFile : CreateLocalFile(l) \/ UploadLocalFileChunk(l)
    \/ \E u \in Upload, l \in LocalFile : ReadLocalFile(u, l)
    \/ \E u \in Upload : UploadStep(u) \/ UploadFault(u)
    \/ \E f \in FileId : DdsAnswers(f)
    \/ \E c \in Check, f \in FileId : CheckStatus(c, f)
    \/ \E c \in Check : SaveJobStep(c)
    \/ Crash
    \/ UNCHANGED vars

\* The client has a copy deleted only at the end of a run.
LEMMA ClientEffect ==
    ASSUME Good, [ClientNext]_allVars
    PROVE  \/ Forward
           \/ \E l \in LocalFile :
                job[l].pc = "deleting" /\ DeleteServiceNodeFile(job[l].file)
<1>t. ClientTypeOK /\ RequestInv
  BY DEF Good
<1>1. CASE UserStep \/ DataOwnersFetched \/ FetchLost \/ UNCHANGED allVars
  <2>1. UNCHANGED vars
    BY <1>1 DEF UserStep, SetAttachedFile, SetAdditionalField, Reset,
                CreateNewDataOwner, DataOwnersFetched, FetchLost, allVars
  <2> QED
    BY <2>1 DEF Forward
<1>2. ASSUME NEW l \in LocalFile, JobStep(l)
      PROVE  Forward \/ (job[l].pc = "deleting" /\ DeleteServiceNodeFile(job[l].file))
  <2>1. CASE LocalFileCreated(l) \/ ChunkSaved(l) \/ UploadRequested(l)
    BY <2>1 DEF LocalFileCreated, ChunkSaved, UploadRequested, Posted, Forward
  <2>2. CASE UploadAnswered(l)
    BY <2>2 DEF UploadAnswered, Forward
  <2>3. CASE StatusChecked(l)
    <3>1. job[l].file \in FileId
      BY <1>t, <2>3, FileAnswered DEF StatusChecked
    <3> QED
      BY <2>3, <3>1 DEF StatusChecked, Forward
  <2>4. CASE CopyDeleted(l)
    BY <2>4 DEF CopyDeleted
  <2> QED
    BY <1>2, <2>1, <2>2, <2>3, <2>4 DEF JobStep
<1>3. ASSUME NEW l \in LocalFile, CallLost(l)
      PROVE  Forward \/ (job[l].pc = "deleting" /\ DeleteServiceNodeFile(job[l].file))
  <2>1. job[l].pc = "sleeping" => job[l].file \in FileId
    BY <1>t, FileAnswered
  <2> QED
    BY <1>3, <2>1 DEF CallLost, Posted, Forward
<1>4. CASE BackendStep
  BY <1>4 DEF BackendStep, Forward
<1> QED
  BY <1>1, <1>2, <1>3, <1>4 DEF ClientNext

Undecided == {"created", "sentToDds"}
Decided == {"stored", "failed"}

\* The service node keeps the copy of a file until DDS has decided about it, and
\* the decision stands.
FileStays(f) ==
    /\ sn[f].state \in Decided => sn'[f].state = sn[f].state
    /\ (sn[f].state \in Undecided => sn[f].copy)
         => (sn'[f].state \in Undecided => sn'[f].copy)

LEMMA FileKept ==
    ASSUME IInv, Forward, NEW f \in FileId
    PROVE  FileStays(f)
<1>t. sn \in [FileId -> SnFile] /\ up \in [Upload -> UploadJob]
  BY DEF IInv, TypeOK
<1>u. ASSUME sn'[f].state = sn[f].state, sn'[f].copy = sn[f].copy PROVE FileStays(f)
  BY <1>u DEF FileStays
<1>v. ASSUME UNCHANGED sn PROVE FileStays(f)
  BY <1>v DEF FileStays
<1>1. ASSUME NEW u \in Upload, NEW g \in FileId, NEW d \in Date,
             CreateAtServiceNode(u, g, d) \/ CreateReplyLost(u, g, d)
      PROVE  FileStays(f)
  <2>1. /\ sn[g].state = "absent"
        /\ sn' = [sn EXCEPT ![g].state = "created", ![g].copy = TRUE,
                            ![g].keepUntil = d]
    BY <1>1 DEF CreateAtServiceNode, CreateReplyLost
  <2> QED
    BY <1>t, <2>1 DEF SnFile, Decided, FileStays
<1>2. ASSUME NEW u \in Upload, SendChunk(u) \/ ChunkReplyLost(u) PROVE FileStays(f)
  <2>1. sn'[f].state = sn[f].state /\ sn'[f].copy = sn[f].copy
    BY <1>2, <1>t DEF SendChunk, ChunkReplyLost, SnFile
  <2> QED
    BY <1>u, <2>1
<1>3. ASSUME NEW u \in Upload, UploadFileToDds(u) PROVE FileStays(f)
  <2>1. up[u].file \in FileId /\ sn[up[u].file].state \notin AtDds
    BY <1>3, NullAssumption
    DEF IInv, UploadInv, ContentInv, UploadFileToDds, Keyed
  <2>2. sn[up[u].file].copy /\ sn' = [sn EXCEPT ![up[u].file].state = "sentToDds"]
    BY <1>3 DEF UploadFileToDds, Serves
  <2> QED
    BY <1>t, <2>1, <2>2 DEF SnFile, Decided, AtDds, FileStays
<1>4. ASSUME NEW g \in FileId, DdsAnswers(g) PROVE FileStays(f)
  <2>1. PICK s \in {"stored", "failed"} :
           sn[g].state = "sentToDds" /\ sn' = [sn EXCEPT ![g].state = s]
    BY <1>4 DEF DdsAnswers
  <2> QED
    BY <1>t, <2>1 DEF SnFile, Decided, Undecided, FileStays
<1>5. ASSUME NEW u \in Upload,
             \/ EncryptWithAes(u) \/ SaveTemporaryFile(u) \/ AllChunksSent(u)
             \/ UploadFails(u) \/ BackgroundJobStops(u)
      PROVE  FileStays(f)
  BY <1>5, <1>v DEF EncryptWithAes, SaveTemporaryFile, AllChunksSent,
                    UploadFails, BackgroundJobStops
<1>6. ASSUME NEW l \in LocalFile,
             \/ CreateLocalFile(l) \/ UploadLocalFileChunk(l)
             \/ \E u \in Upload : ReadLocalFile(u, l)
      PROVE  FileStays(f)
  BY <1>6, <1>v DEF CreateLocalFile, UploadLocalFileChunk, ReadLocalFile
<1>7. ASSUME NEW c \in Check,
             SaveJobStep(c) \/ \E g \in FileId : CheckStatus(c, g)
      PROVE  FileStays(f)
  BY <1>7, <1>v DEF SaveJobStep, GetFileInfo, FindFileKey, SaveJobStops,
                    SaveFile, SaveDataOwner, CheckStatus
<1>8. CASE Crash \/ UNCHANGED vars
  <2>1. UNCHANGED sn
    BY <1>8 DEF Crash, vars
  <2> QED
    BY <1>v, <2>1
<1>9. ASSUME NEW u \in Upload, UploadStep(u) \/ UploadFault(u) PROVE FileStays(f)
  BY <1>1, <1>2, <1>3, <1>5, <1>9 DEF UploadStep, UploadFault
<1> QED
  BY <1>4, <1>6, <1>7, <1>8, <1>9 DEF Forward

\* The answer to a status request is true when it is given.
LEMMA StatusIsTrue ==
    ASSUME IInv, NEW c \in Check, NEW f \in FileId, CheckStatus(c, f)
    PROVE  /\ UNCHANGED sn
           /\ chk'[c].reply = "uploaded" => sn[f].state = "stored"
           /\ chk'[c].reply = "failed" => sn[f].state = "failed"
<1>1. chk'[c].reply = StatusReply(f)
  BY DEF CheckStatus, IInv, TypeOK, SaveJob
<1>2. StatusReply(f) = "uploaded" => sn[f].state = "stored"
  BY DEF StatusReply
<1>3. StatusReply(f) = "failed" => sn[f].state = "failed"
  BY DEF StatusReply
<1> QED
  BY <1>1, <1>2, <1>3 DEF CheckStatus

\* What a step of a run does to the error and the response that are shown, and
\* how a run comes to have its copy deleted.
LEMMA ShownByRun ==
    ASSUME Good, NEW l \in LocalFile, JobStep(l) \/ CallLost(l)
    PROVE  /\ ui'.submissionError \in {ui.submissionError, TRUE}
           /\ \/ ui'.response = ui.response
              \/ /\ ui'.response = job[l].file /\ job[l].file \in FileId
                 /\ sn[job[l].file].state = "stored" /\ UNCHANGED sn
           /\ \/ ui'.snack.kind = "error"
              \/ CopyDeleted(l)
              \/ ui'.snack = ui.snack /\ job'[l].pc # "done"
           /\ job'[l].pc = "deleting" =>
                 /\ job'[l].file = job[l].file /\ job[l].file \in FileId
                 /\ UNCHANGED sn
                 /\ \/ sn[job[l].file].state = "stored"
                    \/ sn[job[l].file].state = "failed" /\ ui'.submissionError = TRUE
<1>t. ClientTypeOK /\ IInv /\ RequestInv /\ job \in JobType /\ ui \in Ui
  BY DEF Good, ClientTypeOK, JobType
<1>f. ASSUME job' = [job EXCEPT ![l] = [job[l] EXCEPT !.pc = "done"]]
      PROVE  job'[l].pc = "done"
  BY <1>t, <1>f DEF JobType, Job
<1>1. CASE Fail(l)
  <2>1. /\ ui'.submissionError = TRUE /\ ui'.response = ui.response
        /\ ui'.snack = [kind |-> "error", file |-> job[l].file]
        /\ job' = [job EXCEPT ![l] = [job[l] EXCEPT !.pc = "done"]]
    BY <1>1, <1>t, FailEffect
  <2>2. ui'.snack.kind = "error"
    BY <2>1
  <2> QED
    BY <1>f, <2>1, <2>2
<1>c. ASSUME NEW r \in Job, Continue(l, r), ~Fail(l)
      PROVE  UNCHANGED ui /\ job'[l].pc \in {"sending", "posting"}
  <2>1. NextPiece(l, r) \/ Request(l, r)
    BY <1>c, <1>t, ContinueEffect
  <2>2. CASE NextPiece(l, r)
    BY <1>t, <2>2 DEF NextPiece, JobType, Job
  <2>3. CASE Request(l, r)
    BY <1>t, <2>3 DEF Request, JobType, Job
  <2> QED
    BY <2>1, <2>2, <2>3
<1>2. CASE LocalFileCreated(l) /\ ~Fail(l)
  <2>1. Continue(l, Counted(l)) /\ Counted(l) \in Job
    BY <1>2, <1>t, ContinuedTypes DEF LocalFileCreated, Counted
  <2> QED
    BY <1>2, <1>c, <2>1
<1>3. CASE ChunkSaved(l) /\ ~Fail(l)
  <2>1. Continue(l, Advanced(l)) /\ Advanced(l) \in Job
    BY <1>3, <1>t, ContinuedTypes DEF ChunkSaved, Advanced
  <2> QED
    BY <1>3, <1>c, <2>1
<1>4. CASE UploadRequested(l)
  <2>1. UNCHANGED ui /\ job'[l].pc = "waiting"
    BY <1>4, <1>t DEF UploadRequested, JobType, Job
  <2> QED
    BY <2>1
<1>5. CASE UploadAnswered(l) /\ ~Fail(l)
  <2>1. UNCHANGED ui /\ job'[l].pc = "sleeping"
    BY <1>5, <1>t DEF UploadAnswered, JobType, Job
  <2> QED
    BY <2>1
<1>6. CASE StatusChecked(l) /\ ~Fail(l)
  <2>1. job[l].pc = "sleeping" /\ job[l].file \in FileId
    BY <1>6, <1>t, FileAnswered DEF StatusChecked
  <2>2. PICK c \in Check :
           /\ CheckStatus(c, job[l].file)
           /\ \/ PollAgain(l)
              \/ chk'[c].reply = "failed" /\ FailureShown(l)
              \/ chk'[c].reply = "uploaded" /\ ResponseShown(l)
    BY <1>6 DEF StatusChecked
  <2>3. /\ UNCHANGED sn
        /\ chk'[c].reply = "uploaded" => sn[job[l].file].state = "stored"
        /\ chk'[c].reply = "failed" => sn[job[l].file].state = "failed"
    BY <1>t, <2>1, <2>2, StatusIsTrue
  <2>4. CASE PollAgain(l)
    BY <2>1, <2>4 DEF PollAgain
  <2>d. ASSUME job' = [job EXCEPT ![l].pc = "deleting"]
        PROVE  job'[l].file = job[l].file /\ job'[l].pc = "deleting"
    BY <1>t, <2>d DEF JobType, Job
  <2>5. CASE chk'[c].reply = "failed" /\ FailureShown(l)
    <3>1. /\ ui'.submissionError = TRUE /\ ui'.response = ui.response
          /\ ui'.snack = ui.snack
      BY <1>t, <2>5 DEF FailureShown, Ui
    <3> QED
      BY <2>1, <2>3, <2>5, <2>d, <3>1 DEF FailureShown, StopPolling
  <2>6. CASE chk'[c].reply = "uploaded" /\ ResponseShown(l)
    <3>1. /\ ui'.submissionError = ui.submissionError
          /\ ui'.response = job[l].file /\ ui'.snack = ui.snack
      BY <1>t, <2>6 DEF ResponseShown, Ui
    <3> QED
      BY <2>1, <2>3, <2>6, <2>d, <3>1 DEF ResponseShown, StopPolling
  <2> QED
    BY <2>2, <2>4, <2>5, <2>6
<1>7. CASE CopyDeleted(l)
  <2>1. /\ ui'.submissionError = ui.submissionError /\ ui'.response = ui.response
        /\ job' = [job EXCEPT ![l] = [job[l] EXCEPT !.pc = "done"]]
    BY <1>7, <1>t, ResolvedEffect DEF CopyDeleted
  <2> QED
    BY <1>7, <1>f, <2>1
<1> QED
  BY <1>1, <1>2, <1>3, <1>4, <1>5, <1>6, <1>7 DEF JobStep, CallLost

LEMMA Decisions ==
    ASSUME Good, DecidedInv, [ClientNext]_allVars
    PROVE  /\ CopyOutlivesUpload'
           /\ \A f \in FileId :
                sn[f].state \in Decided => sn'[f].state = sn[f].state
<1>t. IInv /\ ClientTypeOK /\ RequestInv /\ sn \in [FileId -> SnFile]
  BY DEF Good, IInv, TypeOK
<1>1. CASE Forward
  <2>1. \A f \in FileId : FileStays(f)
    BY <1>1, <1>t, FileKept
  <2> QED
    BY <2>1 DEF FileStays, DecidedInv, CopyOutlivesUpload, Undecided
<1>2. ASSUME NEW l \in LocalFile, job[l].pc = "deleting",
             DeleteServiceNodeFile(job[l].file)
      PROVE  /\ CopyOutlivesUpload'
             /\ \A f \in FileId :
                  sn[f].state \in Decided => sn'[f].state = sn[f].state
  <2>1. job[l].file \in FileId
    BY <1>t, <1>2, FileAnswered
  <2>2. sn' = [sn EXCEPT ![job[l].file].copy = FALSE]
    BY <1>2 DEF DeleteServiceNodeFile
  <2>3. \A f \in FileId : /\ sn'[f].state = sn[f].state
                          /\ f # job[l].file => sn'[f].copy = sn[f].copy
    BY <1>t, <2>1, <2>2 DEF SnFile
  <2>4. sn[job[l].file].state \in {"stored", "failed"}
    BY <1>2 DEF DecidedInv
  <2> QED
    BY <2>3, <2>4 DEF DecidedInv, CopyOutlivesUpload
<1> QED
  BY <1>1, <1>2, ClientEffect

\* DecidedInv for one run.
DeletingOK(l) ==
    job[l].pc = "deleting" =>
        /\ sn[job[l].file].state \in {"stored", "failed"}
        /\ job[l].alone /\ ~ui.submissionError => sn[job[l].file].state = "stored"

LEMMA DecidedStep ==
    Good /\ RunInv /\ DecidedInv /\ [ClientNext]_allVars => DecidedInv'
<1> SUFFICES ASSUME Good, RunInv, DecidedInv, [ClientNext]_allVars
             PROVE  DecidedInv'
  OBVIOUS
<1>t. ClientTypeOK /\ RequestInv /\ job \in JobType /\ ui \in Ui
  BY DEF Good, ClientTypeOK, JobType
<1>s. CopyOutlivesUpload'
      /\ \A f \in FileId : sn[f].state \in Decided => sn'[f].state = sn[f].state
  BY Decisions
<1>q. ASSUME \A l \in LocalFile : DeletingOK(l)' PROVE DecidedInv'
  BY <1>q, <1>s DEF DecidedInv, DeletingOK
\* A run that goes on deleting, while no error disappears behind its back.
<1>k. ASSUME NEW l \in LocalFile,
             job[l].pc = "deleting" => job'[l].file = job[l].file,
             job'[l].pc = job[l].pc,
             job'[l].alone => job[l].alone,
             \/ ui'.submissionError \in {ui.submissionError, TRUE}
             \/ ~Running(l)
             \/ ~job'[l].alone
      PROVE  DeletingOK(l)'
  <2>1. CASE job[l].pc = "deleting"
    <3>1. job[l].file \in FileId /\ DeletingOK(l) /\ Running(l)
      BY <1>t, <2>1, FileAnswered DEF DecidedInv, DeletingOK, Running
    <3>2. sn'[job[l].file].state = sn[job[l].file].state
      BY <1>s, <2>1, <3>1 DEF DeletingOK, Decided
    <3>3. ui.submissionError \in BOOLEAN
      BY <1>t DEF Ui
    <3> QED
      BY <1>k, <2>1, <3>1, <3>2, <3>3 DEF DeletingOK
  <2>2. CASE job[l].pc # "deleting"
    BY <1>k, <2>2 DEF DeletingOK
  <2> QED
    BY <2>1, <2>2
<1>1. CASE \/ \E x \in Document : SetAttachedFile(x) \/ SetAdditionalField(x)
           \/ Reset
  <2>1. ASSUME NEW m \in LocalFile PROVE DeletingOK(m)'
    <3>1. /\ ~Running(m) => job'[m] = job[m]
          /\ job'[m] = [job[m] EXCEPT !.alone = job'[m].alone]
          /\ Running(m) => job'[m].alone = FALSE
      BY <1>1, <1>t, UserTouches
    <3>2. job'[m].pc = job[m].pc /\ job'[m].file = job[m].file
      BY <1>t, <3>1 DEF JobType, Job
    <3> QED
      BY <1>k, <3>1, <3>2
  <2> QED
    BY <1>q, <2>1
<1>2. ASSUME NEW l \in LocalFile, CreateNewDataOwner(l) PROVE DecidedInv'
  <2>1. /\ ~ui.dataOwnerCreationPending /\ job'[l].pc = "creating"
        /\ \A m \in LocalFile \ {l} : job'[m] = job[m]
    BY <1>2, <1>t DEF CreateNewDataOwner, ButtonEnabled, JobType, Job
  <2>2. \A m \in LocalFile : ~Running(m)
    BY <2>1 DEF RunInv
  <2>3. DeletingOK(l)'
    BY <2>1 DEF DeletingOK
  <2>4. \A m \in LocalFile \ {l} : DeletingOK(m)'
    BY <1>k, <2>1, <2>2
  <2> QED
    BY <1>q, <2>3, <2>4
<1>3. ASSUME NEW l \in LocalFile, JobStep(l) \/ CallLost(l) PROVE DecidedInv'
  <2>1. \A m \in LocalFile \ {l} : job'[m] = job[m]
    BY <1>3, MovesAlone DEF Moves
  <2>2. /\ ui'.submissionError \in {ui.submissionError, TRUE}
        /\ job'[l].pc = "deleting" =>
              /\ job'[l].file = job[l].file
              /\ UNCHANGED sn
              /\ \/ sn[job[l].file].state = "stored"
                 \/ sn[job[l].file].state = "failed" /\ ui'.submissionError = TRUE
    BY <1>3, ShownByRun
  <2>3. \A m \in LocalFile \ {l} : DeletingOK(m)'
    BY <1>k, <2>1, <2>2
  <2>4. DeletingOK(l)'
    BY <2>2 DEF DeletingOK
  <2> QED
    BY <1>q, <2>3, <2>4
<1>4. CASE \/ DataOwnersFetched \/ FetchLost \/ BackendStep
           \/ UNCHANGED allVars
  <2>1. UNCHANGED job /\ ui'.submissionError = ui.submissionError
    BY <1>4, <1>t
    DEF DataOwnersFetched, FetchLost, BackendStep, allVars, clientVars, Ui
  <2> QED
    BY <1>k, <1>q, <2>1
<1> QED
  BY <1>1, <1>2, <1>3, <1>4 DEF ClientNext, UserStep

-----------------------------------------------------------------------------
(* What is announced                                                       *)

\* No two runs were answered the same file.
LEMMA OwnFile ==
    ASSUME Good, NEW l \in LocalFile, NEW m \in LocalFile,
           job[l].file = job[m].file, job[l].file # Null
    PROVE  l = m
<1>1. /\ job[l].request # Null /\ job[l].file = up[job[l].request].file
      /\ job[m].request # Null /\ job[m].file = up[job[m].request].file
  BY DEF Good, RequestInv
<1>2. job[l].request \in Upload /\ job[m].request \in Upload
  BY <1>1 DEF Good, ClientTypeOK, Job
<1>3. job[l].request = job[m].request
  BY <1>1, <1>2 DEF Good, IInv, UploadInv
<1> QED
  BY <1>1, <1>3 DEF Good, RequestInv

LEMMA AnnouncedStep ==
    Good /\ RunInv /\ DecidedInv /\ AnnouncedInv /\ [ClientNext]_allVars
        => AnnouncedInv'
<1> SUFFICES ASSUME Good, DecidedInv, AnnouncedInv, [ClientNext]_allVars
             PROVE  AnnouncedInv'
  OBVIOUS
<1>t. ClientTypeOK /\ RequestInv /\ job \in JobType /\ ui \in Ui
  BY DEF Good, ClientTypeOK, JobType
<1>s. \A f \in FileId : sn[f].state = "stored" => sn'[f].state = "stored"
  BY Decisions DEF Decided
<1>f. ui.response \in FileId \cup {Null} /\ ui.snack.file \in FileId \cup {Null}
  BY <1>t DEF Ui, Snack
\* The response that is shown is kept or closed.
<1>r. ASSUME ui'.response \in {ui.response, Null}
      PROVE  ui'.response # Null => sn'[ui'.response].state = "stored"
  BY <1>s, <1>f, <1>r DEF AnnouncedInv, SuccessIsStored
\* The snackbar is kept, and no run is over that was not.
<1>k. ASSUME ui'.snack = ui.snack,
             \A m \in LocalFile : job'[m].pc = "done" => job'[m] = job[m]
      PROVE  ui'.snack.kind = "created" =>
               /\ ui'.snack.file # Null
               /\ \A m \in LocalFile :
                    job'[m].file = ui'.snack.file /\ job'[m].pc = "done"
                      /\ job'[m].alone
                    => sn'[ui'.snack.file].state = "stored"
  BY <1>s, <1>f, <1>k DEF AnnouncedInv, SuccessIsStored
<1>q. ASSUME ui'.response # Null => sn'[ui'.response].state = "stored",
             ui'.snack.kind = "created" =>
               /\ ui'.snack.file # Null
               /\ \A m \in LocalFile :
                    job'[m].file = ui'.snack.file /\ job'[m].pc = "done"
                      /\ job'[m].alone
                    => sn'[ui'.snack.file].state = "stored"
      PROVE  AnnouncedInv'
  BY <1>q DEF AnnouncedInv, SuccessIsStored
<1>1. CASE \/ \E x \in Document : SetAttachedFile(x) \/ SetAdditionalField(x)
           \/ Reset
  <2>1. /\ ui'.snack = ui.snack /\ ui'.response \in {ui.response, Null}
        /\ \A m \in LocalFile :
              /\ ~Running(m) => job'[m] = job[m]
              /\ job'[m] = [job[m] EXCEPT !.alone = job'[m].alone]
    BY <1>1, <1>t, UserTouches
  <2>2. \A m \in LocalFile : job'[m].pc = job[m].pc
    BY <1>t, <2>1 DEF JobType, Job
  <2> QED
    BY <1>r, <1>k, <1>q, <2>1, <2>2 DEF Running
<1>2. ASSUME NEW l \in LocalFile, CreateNewDataOwner(l) PROVE AnnouncedInv'
  <2>1. /\ ui'.snack = ui.snack /\ ui'.response = ui.response
        /\ job'[l].pc = "creating"
        /\ \A m \in LocalFile \ {l} : job'[m] = job[m]
    BY <1>2, <1>t DEF CreateNewDataOwner, JobType, Job, Ui
  <2> QED
    BY <1>r, <1>k, <1>q, <2>1
<1>3. ASSUME NEW l \in LocalFile, JobStep(l) \/ CallLost(l) PROVE AnnouncedInv'
  <2>m. \A m \in LocalFile \ {l} : job'[m] = job[m]
    BY <1>3, MovesAlone DEF Moves
  <2>e. /\ \/ ui'.response = ui.response
           \/ /\ ui'.response = job[l].file
              /\ sn[job[l].file].state = "stored" /\ UNCHANGED sn
        /\ \/ ui'.snack.kind = "error"
           \/ CopyDeleted(l)
           \/ ui'.snack = ui.snack /\ job'[l].pc # "done"
    BY <1>3, ShownByRun
  <2>r. ui'.response # Null => sn'[ui'.response].state = "stored"
    BY <1>r, <2>e
  <2>1. CASE ui'.snack.kind = "error"
    BY <1>q, <2>r, <2>1
  <2>2. CASE ui'.snack = ui.snack /\ job'[l].pc # "done"
    BY <1>q, <1>k, <2>m, <2>r, <2>2
  <2>3. CASE CopyDeleted(l)
    <3>1. /\ ui'.snack.file = job[l].file
          /\ ui'.snack.kind = "created" => ~ui.submissionError
          /\ job' = [job EXCEPT ![l] = [job[l] EXCEPT !.pc = "done"]]
      BY <1>t, <2>3, ResolvedEffect DEF CopyDeleted
    <3>2. job[l].pc = "deleting" /\ job[l].file \in FileId /\ job[l].file # Null
      BY <1>t, <2>3, FileAnswered DEF CopyDeleted, RequestInv
    <3>3. job'[l].alone = job[l].alone
      BY <1>t, <3>1 DEF JobType, Job
    <3>4. ASSUME ~ui.submissionError, job[l].alone
          PROVE  sn'[job[l].file].state = "stored"
      BY <1>s, <3>2, <3>4 DEF DecidedInv
    <3>5. \A m \in LocalFile \ {l} : job'[m].file # job[l].file
      BY <2>m, <3>2, OwnFile
    <3> QED
      BY <1>q, <2>r, <3>1, <3>2, <3>3, <3>4, <3>5
  <2> QED
    BY <2>e, <2>1, <2>2, <2>3
<1>4. CASE \/ DataOwnersFetched \/ FetchLost \/ BackendStep
           \/ UNCHANGED allVars
  <2>1. /\ UNCHANGED job
        /\ ui'.snack = ui.snack /\ ui'.response = ui.response
    BY <1>4, <1>t
    DEF DataOwnersFetched, FetchLost, BackendStep, allVars, clientVars, Ui
  <2> QED
    BY <1>r, <1>k, <1>q, <2>1
<1> QED
  BY <1>1, <1>2, <1>3, <1>4 DEF ClientNext, UserStep

-----------------------------------------------------------------------------
(* One save job, and one record, per file                                  *)

Finished == {"deleting", "done"}

\* A run that stopped polling never polls again, and keeps its file.
LEMMA FinishedStays ==
    ASSUME Good, [ClientNext]_allVars, NEW l \in LocalFile, job[l].pc \in Finished
    PROVE  job'[l].pc \in Finished /\ job'[l].file = job[l].file
<1>t. ClientTypeOK /\ job \in JobType
  BY DEF Good, ClientTypeOK, JobType
<1>f. ASSUME job' = [job EXCEPT ![l] = [job[l] EXCEPT !.pc = "done"]]
      PROVE  job'[l].pc \in Finished /\ job'[l].file = job[l].file
  BY <1>t, <1>f DEF JobType, Job, Finished
<1>1. CASE \/ \E x \in Document : SetAttachedFile(x) \/ SetAdditionalField(x)
           \/ Reset
  <2>1. job'[l] = [job[l] EXCEPT !.alone = job'[l].alone]
    BY <1>1, <1>t, UserTouches
  <2> QED
    BY <1>t, <2>1 DEF JobType, Job
<1>2. ASSUME NEW m \in LocalFile, CreateNewDataOwner(m)
      PROVE  job'[l].pc \in Finished /\ job'[l].file = job[l].file
  BY <1>2, <1>t DEF CreateNewDataOwner, JobType, Finished
<1>3. ASSUME NEW m \in LocalFile, JobStep(m) \/ CallLost(m), m # l
      PROVE  job'[l].pc \in Finished /\ job'[l].file = job[l].file
  BY <1>3, MovesAlone DEF Moves
<1>4. CASE JobStep(l)
  <2>1. CopyDeleted(l)
    BY <1>4 DEF JobStep, LocalFileCreated, ChunkSaved, UploadRequested,
                UploadAnswered, StatusChecked, Finished
  <2> QED
    BY <1>f, <1>t, <2>1, ResolvedEffect DEF CopyDeleted
<1>5. CASE CallLost(l)
  BY <1>f, <1>t, <1>5, FailEffect DEF CallLost
<1>6. CASE \/ DataOwnersFetched \/ FetchLost \/ BackendStep
           \/ UNCHANGED allVars
  BY <1>6 DEF DataOwnersFetched, FetchLost, BackendStep, allVars, clientVars
<1> QED
  BY <1>1, <1>2, <1>3, <1>4, <1>5, <1>6 DEF ClientNext, UserStep

\* A save job behind the records it wrote stays there.
Writing == {"saveOwner", "saved", "stopped"}

\* Every save job goes on with its file, and nothing is written.
LEMMA SavedKept ==
    ASSUME Good, SavedOnceInv, [ClientNext]_allVars,
           UNCHANGED <<fileDb, ownerDb>>,
           \A c \in Check :
              /\ chk'[c].file = chk[c].file
              /\ chk[c].pc \in Writing => chk'[c].pc \in Writing
              /\ chk[c].pc = "saved" => chk'[c].pc = "saved"
              /\ chk'[c].pc = "saveOwner" =>
                    chk[c].pc = "saveOwner" /\ chk'[c].doc = chk[c].doc
    PROVE  SavedOnceInv'
<1>1. \A l \in LocalFile : job[l].pc \in Finished =>
         job'[l].pc \in Finished /\ job'[l].file = job[l].file
  BY FinishedStays
<1>2. \A c \in Check : chk'[c].file # Null =>
        \E l \in LocalFile : job'[l].file = chk'[c].file /\ job'[l].pc \in Finished
  BY <1>1 DEF SavedOnceInv, Finished
<1>3. \A d \in fileDb' : \E c \in Check :
        chk'[c].file = d.id /\ chk'[c].pc \in Writing
  BY DEF SavedOnceInv, Writing
<1>4. \A o \in ownerDb' : \E c \in Check :
        chk'[c].file = o.file.id /\ chk'[c].pc = "saved"
  BY DEF SavedOnceInv
<1>5. \A c \in Check : chk'[c].pc = "saveOwner" => chk'[c].doc.id = chk'[c].file
  BY DEF SavedOnceInv
<1> QED
  BY <1>2, <1>3, <1>4, <1>5 DEF SavedOnceInv, OneRecordPerFile, Finished, Writing

\* The file a run polls for has no save job yet.
LEMMA NotSavedYet ==
    ASSUME Good, SavedOnceInv, NEW l \in LocalFile, job[l].pc = "sleeping",
           NEW c \in Check
    PROVE  chk[c].file # job[l].file
<1>1. job[l].file # Null
  BY DEF Good, RequestInv
<1>2. SUFFICES ASSUME chk[c].file = job[l].file PROVE FALSE
  OBVIOUS
<1>3. PICK m \in LocalFile :
         job[m].file = chk[c].file /\ job[m].pc \in {"deleting", "done"}
  BY <1>1, <1>2 DEF SavedOnceInv
<1>4. m = l
  BY <1>1, <1>2, <1>3, OwnFile
<1> QED
  BY <1>3, <1>4

LEMMA SavedByCheck ==
    ASSUME Good, SavedOnceInv, [ClientNext]_allVars,
           NEW l \in LocalFile, job[l].pc = "sleeping",
           NEW c \in Check, CheckStatus(c, job[l].file),
           chk'[c].reply = "uploaded" =>
              job'[l].pc \in Finished /\ job'[l].file = job[l].file
    PROVE  SavedOnceInv'
<1>t. chk \in [Check -> SaveJob] /\ ClientTypeOK
  BY DEF Good, IInv, TypeOK
<1>d. UNCHANGED <<fileDb, ownerDb>>
  BY DEF CheckStatus
<1>1. CASE StatusReply(job[l].file) = "uploaded"
  <2>1. /\ chk[c].pc = "idle"
        /\ chk'[c].pc = "info" /\ chk'[c].file = job[l].file
        /\ chk'[c].reply = "uploaded"
        /\ \A e \in Check \ {c} : chk'[e] = chk[e]
    BY <1>1, <1>t DEF CheckStatus, SaveJob
  <2>2. \A e \in Check : chk[e].file # job[l].file
    BY NotSavedYet
  <2>3. \A m \in LocalFile : job[m].pc \in Finished =>
           job'[m].pc \in Finished /\ job'[m].file = job[m].file
    BY FinishedStays
  <2>4. \A e \in Check : chk'[e].file # Null =>
          \E m \in LocalFile : job'[m].file = chk'[e].file /\ job'[m].pc \in Finished
    <3>1. ASSUME NEW e \in Check, chk'[e].file # Null
          PROVE  \E m \in LocalFile :
                    job'[m].file = chk'[e].file /\ job'[m].pc \in Finished
      <4>1. CASE e = c
        BY <2>1, <4>1
      <4>2. CASE e # c
        <5>1. chk'[e] = chk[e]
          BY <2>1, <4>2
        <5>2. PICK m \in LocalFile :
                 job[m].file = chk[e].file /\ job[m].pc \in {"deleting", "done"}
          BY <3>1, <5>1 DEF SavedOnceInv
        <5> QED
          BY <2>3, <5>1, <5>2 DEF Finished
      <4> QED
        BY <4>1, <4>2
    <3> QED
      BY <3>1
  <2>5. \A e, g \in Check : chk'[e].file = chk'[g].file /\ chk'[e].file # Null => e = g
    BY <2>1, <2>2 DEF SavedOnceInv
  <2>6. \A d \in fileDb' : \E e \in Check :
          chk'[e].file = d.id /\ chk'[e].pc \in Writing
    <3>1. ASSUME NEW d \in fileDb
          PROVE  \E e \in Check : chk'[e].file = d.id /\ chk'[e].pc \in Writing
      <4>1. PICK e \in Check : chk[e].file = d.id /\ chk[e].pc \in Writing
        BY DEF SavedOnceInv, Writing
      <4>2. e # c
        BY <2>1, <4>1 DEF Writing
      <4> QED
        BY <2>1, <4>1, <4>2
    <3> QED
      BY <1>d, <3>1
  <2>7. \A o \in ownerDb' : \E e \in Check :
          chk'[e].file = o.file.id /\ chk'[e].pc = "saved"
    <3>1. ASSUME NEW o \in ownerDb
          PROVE  \E e \in Check : chk'[e].file = o.file.id /\ chk'[e].pc = "saved"
      <4>1. PICK e \in Check : chk[e].file = o.file.id /\ chk[e].pc = "saved"
        BY DEF SavedOnceInv
      <4>2. e # c
        BY <2>1, <4>1
      <4> QED
        BY <2>1, <4>1, <4>2
    <3> QED
      BY <1>d, <3>1
  <2>8. \A e \in Check : chk'[e].pc = "saveOwner" => chk'[e].doc.id = chk'[e].file
    BY <2>1 DEF SavedOnceInv
  <2> QED
    BY <1>d, <2>4, <2>5, <2>6, <2>7, <2>8
    DEF SavedOnceInv, OneRecordPerFile, Finished, Writing
<1>2. CASE StatusReply(job[l].file) # "uploaded"
  <2>1. \A e \in Check : /\ chk'[e].file = chk[e].file
                         /\ chk'[e].pc = chk[e].pc /\ chk'[e].doc = chk[e].doc
    BY <1>2, <1>t DEF CheckStatus, SaveJob
  <2> QED
    BY <1>d, <2>1, SavedKept
<1> QED
  BY <1>1, <1>2

LEMMA SavedByFile ==
    ASSUME Good, SavedOnceInv, [ClientNext]_allVars, NEW c \in Check, SaveFile(c)
    PROVE  SavedOnceInv'
<1>t. chk \in [Check -> SaveJob]
  BY DEF Good, IInv, TypeOK
<1>1. chk[c].pc = "saveFile" /\ chk[c].file \in FileId /\ chk[c].file # Null
  BY NullAssumption DEF SaveFile, Good, IInv, SaveJobInv, SaveJobOK
<1>2. PICK i \in DocId :
         /\ fileDb' = fileDb \cup {NewFile(c, i)}
         /\ chk' = [chk EXCEPT ![c].pc = "saveOwner", ![c].doc = NewFile(c, i)]
  BY DEF SaveFile
<1>3. NewFile(c, i).id = chk[c].file
  BY DEF NewFile
<1> DEFINE n == NewFile(c, i)
<1> HIDE DEF n
<1>4. /\ chk'[c].pc = "saveOwner" /\ chk'[c].file = chk[c].file
      /\ chk'[c].doc = n
      /\ \A e \in Check \ {c} : chk'[e] = chk[e]
      /\ fileDb' = fileDb \cup {n} /\ n.id = chk[c].file
  BY <1>t, <1>2, <1>3 DEF SaveJob, n
<1>5. UNCHANGED ownerDb
  BY DEF SaveFile
<1>6. \A d \in fileDb : d.id # chk[c].file
  <2>1. SUFFICES ASSUME NEW d \in fileDb, d.id = chk[c].file PROVE FALSE
    OBVIOUS
  <2>2. PICK e \in Check : chk[e].file = d.id /\ chk[e].pc \in Writing
    BY DEF SavedOnceInv, Writing
  <2>3. e = c
    BY <1>1, <2>1, <2>2 DEF SavedOnceInv
  <2> QED
    BY <1>1, <2>2, <2>3 DEF Writing
<1>7. \A d, e \in fileDb' : d.id = e.id => d = e
  BY <1>4, <1>6 DEF SavedOnceInv, OneRecordPerFile
<1>8. \A m \in LocalFile : job[m].pc \in Finished =>
         job'[m].pc \in Finished /\ job'[m].file = job[m].file
  BY FinishedStays
<1>9. \A e \in Check : chk'[e].file = chk[e].file
  BY <1>4
<1>10. \A e \in Check : chk'[e].file # Null =>
        \E l \in LocalFile : job'[l].file = chk'[e].file /\ job'[l].pc \in Finished
  BY <1>8, <1>9 DEF SavedOnceInv, Finished
<1>11. \A d \in fileDb' : \E e \in Check :
        chk'[e].file = d.id /\ chk'[e].pc \in Writing
  <2>1. ASSUME NEW d \in fileDb
        PROVE  \E e \in Check : chk'[e].file = d.id /\ chk'[e].pc \in Writing
    <3>1. PICK e \in Check : chk[e].file = d.id /\ chk[e].pc \in Writing
      BY DEF SavedOnceInv, Writing
    <3> QED
      BY <1>1, <1>4, <3>1 DEF Writing
  <2> QED
    BY <1>4, <2>1 DEF Writing
<1>12. \A o \in ownerDb' : \E e \in Check :
        chk'[e].file = o.file.id /\ chk'[e].pc = "saved"
  <2>1. ASSUME NEW o \in ownerDb
        PROVE  \E e \in Check : chk'[e].file = o.file.id /\ chk'[e].pc = "saved"
    <3>1. PICK e \in Check : chk[e].file = o.file.id /\ chk[e].pc = "saved"
      BY DEF SavedOnceInv
    <3> QED
      BY <1>1, <1>4, <3>1
  <2> QED
    BY <1>5, <2>1
<1>13. \A e \in Check : chk'[e].pc = "saveOwner" => chk'[e].doc.id = chk'[e].file
  BY <1>4 DEF SavedOnceInv
<1> QED
  BY <1>5, <1>7, <1>9, <1>10, <1>11, <1>12, <1>13
  DEF SavedOnceInv, OneRecordPerFile, Finished, Writing

LEMMA SavedByOwner ==
    ASSUME Good, SavedOnceInv, [ClientNext]_allVars, NEW c \in Check,
           SaveDataOwner(c)
    PROVE  SavedOnceInv'
<1>t. chk \in [Check -> SaveJob]
  BY DEF Good, IInv, TypeOK
<1>1. chk[c].pc = "saveOwner" /\ chk[c].file \in FileId /\ chk[c].file # Null
  BY NullAssumption DEF SaveDataOwner, Good, IInv, SaveJobInv, SaveJobOK
<1>2. PICK i \in DocId : ownerDb' = ownerDb \cup {NewOwner(c, i)}
  BY DEF SaveDataOwner
<1>3. NewOwner(c, i).file.id = chk[c].file
  BY <1>1 DEF NewOwner, SavedOnceInv
<1> DEFINE n == NewOwner(c, i)
<1> HIDE DEF n
<1>4. /\ chk'[c].pc = "saved" /\ chk'[c].file = chk[c].file
      /\ \A e \in Check \ {c} : chk'[e] = chk[e]
      /\ ownerDb' = ownerDb \cup {n} /\ n.file.id = chk[c].file
  BY <1>t, <1>2, <1>3 DEF SaveDataOwner, SaveJob, n
<1>5. UNCHANGED fileDb
  BY DEF SaveDataOwner
<1>6. \A o \in ownerDb : o.file.id # chk[c].file
  <2>1. SUFFICES ASSUME NEW o \in ownerDb, o.file.id = chk[c].file PROVE FALSE
    OBVIOUS
  <2>2. PICK e \in Check : chk[e].file = o.file.id /\ chk[e].pc = "saved"
    BY DEF SavedOnceInv
  <2>3. e = c
    BY <1>1, <2>1, <2>2 DEF SavedOnceInv
  <2> QED
    BY <1>1, <2>2, <2>3
<1>7. \A o, p \in ownerDb' : o.file.id = p.file.id => o = p
  BY <1>4, <1>6 DEF SavedOnceInv, OneRecordPerFile
<1>8. \A m \in LocalFile : job[m].pc \in Finished =>
         job'[m].pc \in Finished /\ job'[m].file = job[m].file
  BY FinishedStays
<1>9. \A e \in Check : chk'[e].file = chk[e].file
  BY <1>4
<1>10. \A e \in Check : chk'[e].file # Null =>
        \E l \in LocalFile : job'[l].file = chk'[e].file /\ job'[l].pc \in Finished
  BY <1>8, <1>9 DEF SavedOnceInv, Finished
<1>11. \A d \in fileDb' : \E e \in Check :
        chk'[e].file = d.id /\ chk'[e].pc \in Writing
  <2>1. ASSUME NEW d \in fileDb
        PROVE  \E e \in Check : chk'[e].file = d.id /\ chk'[e].pc \in Writing
    <3>1. PICK e \in Check : chk[e].file = d.id /\ chk[e].pc \in Writing
      BY DEF SavedOnceInv, Writing
    <3> QED
      BY <1>4, <3>1 DEF Writing
  <2> QED
    BY <1>5, <2>1
<1>12. \A o \in ownerDb' : \E e \in Check :
        chk'[e].file = o.file.id /\ chk'[e].pc = "saved"
  <2>1. ASSUME NEW o \in ownerDb
        PROVE  \E e \in Check : chk'[e].file = o.file.id /\ chk'[e].pc = "saved"
    <3>1. PICK e \in Check : chk[e].file = o.file.id /\ chk[e].pc = "saved"
      BY DEF SavedOnceInv
    <3> QED
      BY <1>1, <1>4, <3>1
  <2> QED
    BY <1>4, <2>1
<1>13. \A e \in Check : chk'[e].pc = "saveOwner" => chk'[e].doc.id = chk'[e].file
  BY <1>4 DEF SavedOnceInv
<1> QED
  BY <1>5, <1>7, <1>9, <1>10, <1>11, <1>12, <1>13
  DEF SavedOnceInv, OneRecordPerFile, Finished, Writing

LEMMA SavedOnceStep ==
    Good /\ SavedOnceInv /\ [ClientNext]_allVars => SavedOnceInv'
<1> SUFFICES ASSUME Good, SavedOnceInv, [ClientNext]_allVars PROVE SavedOnceInv'
  OBVIOUS
<1>t. chk \in [Check -> SaveJob] /\ job \in JobType /\ ClientTypeOK
  BY DEF Good, ClientTypeOK, IInv, TypeOK, JobType
<1>k. ASSUME UNCHANGED <<chk, fileDb, ownerDb>> PROVE SavedOnceInv'
  BY <1>k, SavedKept
<1>1. CASE UserStep \/ DataOwnersFetched \/ FetchLost \/ UNCHANGED allVars
  <2>1. UNCHANGED vars
    BY <1>1 DEF UserStep, SetAttachedFile, SetAdditionalField, Reset,
                CreateNewDataOwner, DataOwnersFetched, FetchLost, allVars
  <2> QED
    BY <1>k, <2>1 DEF vars
<1>2. ASSUME NEW l \in LocalFile, JobStep(l) PROVE SavedOnceInv'
  <2>1. CASE StatusChecked(l)
    <3>1. PICK c \in Check :
             /\ CheckStatus(c, job[l].file)
             /\ \/ chk'[c].reply = "uploading" /\ PollAgain(l)
                \/ chk'[c].reply = "error" /\ Fail(l)
                \/ chk'[c].reply = "failed" /\ FailureShown(l)
                \/ chk'[c].reply = "uploaded" /\ ResponseShown(l)
      BY <2>1 DEF StatusChecked
    <3>2. chk'[c].reply = "uploaded" =>
             job'[l].pc \in Finished /\ job'[l].file = job[l].file
      <4>1. chk'[c].reply = "uploaded" => job' = [job EXCEPT ![l].pc = "deleting"]
        BY <3>1 DEF ResponseShown, StopPolling
      <4> QED
        BY <1>t, <4>1 DEF JobType, Job, Finished
    <3> QED
      BY <2>1, <3>1, <3>2, SavedByCheck DEF StatusChecked
  <2>2. CASE \/ LocalFileCreated(l) \/ ChunkSaved(l) \/ UploadRequested(l)
             \/ UploadAnswered(l) \/ CopyDeleted(l)
    <3>1. UNCHANGED <<chk, fileDb, ownerDb>>
      BY <2>2 DEF LocalFileCreated, ChunkSaved, UploadRequested, UploadAnswered,
                  CopyDeleted, CreateLocalFile, UploadLocalFileChunk, Posted,
                  ReadLocalFile, DeleteServiceNodeFile, vars
    <3> QED
      BY <1>k, <3>1
  <2> QED
    BY <1>2, <2>1, <2>2 DEF JobStep
<1>3. ASSUME NEW l \in LocalFile, CallLost(l) PROVE SavedOnceInv'
  <2>1. CASE job[l].pc = "sleeping" /\ \E c \in Check : CheckStatus(c, job[l].file)
    <3>1. job' = [job EXCEPT ![l] = [job[l] EXCEPT !.pc = "done"]]
      BY <1>3, <1>t, FailEffect DEF CallLost
    <3>2. job'[l].pc \in Finished /\ job'[l].file = job[l].file
      BY <1>t, <3>1 DEF JobType, Job, Finished
    <3> QED
      BY <2>1, <3>2, SavedByCheck
  <2>2. CASE ~(job[l].pc = "sleeping" /\ \E c \in Check : CheckStatus(c, job[l].file))
    <3>1. UNCHANGED <<chk, fileDb, ownerDb>>
      BY <1>3, <2>2 DEF CallLost, CreateLocalFile, UploadLocalFileChunk, Posted,
                        ReadLocalFile, DeleteServiceNodeFile, vars
    <3> QED
      BY <1>k, <3>1
  <2> QED
    BY <2>1, <2>2
<1>4. ASSUME NEW u \in Upload, UploadStep(u) \/ UploadFault(u) PROVE SavedOnceInv'
  <2>1. UNCHANGED <<chk, fileDb, ownerDb>>
    BY <1>4
    DEF UploadStep, UploadFault, EncryptWithAes, CreateAtServiceNode,
        SaveTemporaryFile, SendChunk, AllChunksSent, UploadFileToDds,
        UploadFails, CreateReplyLost, ChunkReplyLost, BackgroundJobStops
  <2> QED
    BY <1>k, <2>1
<1>5. ASSUME NEW f \in FileId, DdsAnswers(f) PROVE SavedOnceInv'
  BY <1>5, <1>k DEF DdsAnswers
<1>6. ASSUME NEW c \in Check, GetFileInfo(c) \/ FindFileKey(c) \/ SaveJobStops(c)
      PROVE  SavedOnceInv'
  <2>1. /\ UNCHANGED <<fileDb, ownerDb>>
        /\ chk[c].pc \in {"info", "key"}
        /\ \A e \in Check \ {c} : chk'[e] = chk[e]
        /\ chk'[c].pc \in {"key", "saveFile", "stopped"}
        /\ chk'[c].file = chk[c].file
    BY <1>6, <1>t DEF GetFileInfo, FindFileKey, SaveJobStops, SaveJob
  <2>2. \A e \in Check :
          /\ chk'[e].file = chk[e].file
          /\ chk[e].pc \in Writing => chk'[e].pc \in Writing
          /\ chk[e].pc = "saved" => chk'[e].pc = "saved"
          /\ chk'[e].pc = "saveOwner" =>
                chk[e].pc = "saveOwner" /\ chk'[e].doc = chk[e].doc
    BY <2>1 DEF Writing
  <2> QED
    BY <2>1, <2>2, SavedKept
<1>7. ASSUME NEW c \in Check, SaveFile(c) \/ SaveDataOwner(c) PROVE SavedOnceInv'
  BY <1>7, SavedByFile, SavedByOwner
<1>8. CASE Crash
  <2>1. UNCHANGED <<fileDb, ownerDb>>
    BY <1>8 DEF Crash
  <2>2. \A e \in Check :
          /\ chk'[e].file = chk[e].file
          /\ \/ chk'[e].pc = chk[e].pc /\ chk'[e].doc = chk[e].doc
             \/ chk[e].pc \in ChkActive /\ chk'[e].pc = "stopped"
    BY <1>8, <1>t DEF Crash, SaveJob
  <2>3. \A e \in Check :
          /\ chk'[e].file = chk[e].file
          /\ chk[e].pc \in Writing => chk'[e].pc \in Writing
          /\ chk[e].pc = "saved" => chk'[e].pc = "saved"
          /\ chk'[e].pc = "saveOwner" =>
                chk[e].pc = "saveOwner" /\ chk'[e].doc = chk[e].doc
    BY <2>2 DEF ChkActive, Writing
  <2> QED
    BY <2>1, <2>3, SavedKept
<1> QED
  BY <1>1, <1>2, <1>3, <1>4, <1>5, <1>6, <1>7, <1>8
  DEF ClientNext, BackendStep, SaveJobStep

-----------------------------------------------------------------------------
(* The invariant, and what follows from it                                 *)

LEMMA ClientInitInv == ClientInit => ClientInv
<1> SUFFICES ASSUME ClientInit PROVE ClientInv
  OBVIOUS
<1> USE DEF ClientInit
<1>1. IInv
  BY InvInit
<1>2. ClientTypeOK
  <2>1. <<>> \in Seq(Piece)
    BY EmptySeq
  <2>2. content \in [LocalFile -> Seq(Piece)]
    BY <2>1
  <2>3. ui \in Ui
    BY DEF Ui, Snack
  <2>4. job \in [LocalFile -> Job]
    BY DEF Job, JobPc
  <2>5. lost \in 0..MaxLost
    BY ClientAssumption
  <2> QED
    BY <1>1, <2>2, <2>3, <2>4, <2>5 DEF ClientTypeOK, IInv
<1>3. \A l \in LocalFile : /\ job[l].pc = "idle" /\ job[l].next = 0
                           /\ job[l].request = Null /\ job[l].file = Null
                           /\ content[l] = <<>> /\ ~Running(l)
  BY DEF Running
<1>4. RunInv
  BY <1>3 DEF RunInv
<1>5. RequestInv
  BY <1>3 DEF RequestInv, Unposted
<1>6. PiecesInv
  BY <1>3 DEF PiecesInv, UploadIsOneDocument
<1>7. DecidedInv
  BY <1>3 DEF DecidedInv, CopyOutlivesUpload, Init
<1>8. AnnouncedInv
  BY DEF AnnouncedInv, SuccessIsStored
<1>9. SavedOnceInv
  BY DEF SavedOnceInv, OneRecordPerFile, Init
<1> QED
  BY <1>1, <1>2, <1>4, <1>5, <1>6, <1>7, <1>8, <1>9 DEF ClientInv

LEMMA ClientInvStep == ClientInv /\ [ClientNext]_allVars => ClientInv'
BY BackendInvStep, ClientTypeStep, RunStep, RequestStep, PiecesStep,
   DecidedStep, AnnouncedStep, SavedOnceStep
DEF ClientInv, Good

\* The invariant of the client and its backend.
THEOREM ClientInvariant == ClientSpec => []ClientInv
BY ClientInitInv, ClientInvStep, PTL DEF ClientSpec

\* The variables of the stores, the runs and the backend keep their types.
THEOREM ClientTypeCorrect == ClientSpec => []ClientTypeOK
BY ClientInvariant, PTL DEF ClientInv

\* The front end asks nothing of the backend that DataValidatorFiles does not
\* allow its clients, so all that is proved there holds behind this client too.
THEOREM ClientUsesBackend == ClientSpec => Spec
<1>1. ClientInit => Init
  BY DEF ClientInit
<1>2. ClientInv /\ [ClientNext]_allVars => [Next]_vars
  BY ClientIsBackend DEF ClientInv, Good
<1> QED
  BY <1>1, <1>2, ClientInvariant, PTL DEF ClientSpec, Spec

\* A second uploadData never runs beside the first one.
THEOREM OneUploadRuns == ClientSpec => []OneUploadAtATime
<1>1. RunInv => OneUploadAtATime
  <2> SUFFICES ASSUME RunInv PROVE OneUploadAtATime
    OBVIOUS
  <2> DEFINE R == {l \in LocalFile : Running(l)}
  <2>1. CASE R = {}
    BY <2>1, FS_EmptySet DEF OneUploadAtATime
  <2>2. CASE R # {}
    <3>1. PICK l \in R : TRUE
      BY <2>2
    <3>2. R = {l}
      BY <3>1 DEF RunInv
    <3>3. Cardinality(R) = 1
      BY <3>2, FS_Singleton
    <3> QED
      BY <3>3 DEF OneUploadAtATime
  <2> QED
    BY <2>1, <2>2
<1> QED
  BY <1>1, ClientInvariant, PTL DEF ClientInv

\* What a user who leaves the dialog alone uploads is one document, whole.
THEOREM UploadsAreOneDocument == ClientSpec => []UploadIsOneDocument
BY ClientInvariant, PTL DEF ClientInv, PiecesInv

\* The copy of the service node is not deleted under the background upload.
THEOREM CopiesOutliveUploads == ClientSpec => []CopyOutlivesUpload
BY ClientInvariant, PTL DEF ClientInv, DecidedInv

\* What is announced as created, or shown as a result, has been stored.
THEOREM SuccessesAreStored == ClientSpec => []SuccessIsStored
BY ClientInvariant, PTL DEF ClientInv, AnnouncedInv

\* Behind this client every file is recorded once.
THEOREM RecordsAreUnique == ClientSpec => []OneRecordPerFile
BY ClientInvariant, PTL DEF ClientInv, SavedOnceInv
=============================================================================

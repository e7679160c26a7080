------------------------- MODULE DataValidatorFiles -------------------------
(***************************************************************************)
(* The files component of the backend: FilesService, FilesController and   *)
(* the three NeDB repositories they write.  A data validator's HTTP client *)
(* writes a local file chunk by chunk, asks the backend to upload it to a  *)
(* service node, polls the status of that upload and, later, prolongs the  *)
(* storage of the file.                                                    *)
(*                                                                         *)
(* One request is one member of Upload, Check or Extend.  The handlers are *)
(* async functions of one Node.js process, so a request runs without       *)
(* interruption between two awaits: an action below is the code between    *)
(* two awaits, and other requests interleave at every await.  NeDB runs    *)
(* one operation (find, insert, update) at a time, so each is one step.    *)
(*                                                                         *)
(* A service node and the DDS network behind it are one external service.  *)
(* It gives a file an id at creation; the DDS id it reports after the      *)
(* upload names the same file, and one FileId stands for both.             *)
(* Which service node a call reaches is the subject of UploadRouting.      *)
(***************************************************************************)
EXTENDS Integers, FiniteSets

CONSTANTS
    LocalFile,        \* ids createLocalFile may return (uuid4)
    Upload,           \* POST local/:localFileId/to-service-node requests
    Check,            \* GET service-node/:id/status requests
    Extend,           \* PATCH :fileId requests
    FileId,           \* ids the service node gives to files
    Date,             \* values of keepUntil
    DocId,            \* values NeDB draws for _id, ordered as its _id index
    Null,             \* null or undefined
    MaxChunks,        \* bound: chunks of one local file
    MaxFaults,        \* bound: failed calls and crashes of the backend
    MaxActiveExtends  \* bound: PATCH requests in progress at one time

ASSUME BoundsAssumption ==
    /\ MaxChunks \in Nat \ {0}
    /\ MaxFaults \in Nat
    /\ MaxActiveExtends \in Nat
    /\ DocId \subseteq Nat

VARIABLES
    local,     \* LOCAL_FILES_DIRECTORY: chunks in each local file, or Missing
    sn,        \* what the service node holds under each file id
    accepted,  \* history: every keepUntil the service node has had for a file
    temp,      \* NeDB: ServiceNodeTemporaryFile documents
    fileDb,    \* NeDB: File documents
    ownerDb,   \* NeDB: DataOwner documents, each with a copy of its File
    up,        \* upload requests and the background job each one starts
    chk,       \* status requests and the save job each one may start
    ext,       \* requests to prolong the storage of a file
    faults     \* failed calls and crashes so far

backendVars == <<local, temp, fileDb, ownerDb>>
snVars == <<sn, accepted>>
vars == <<local, sn, accepted, temp, fileDb, ownerDb, up, chk, ext, faults>>

Missing == -1

SnState == {"absent", "created", "sentToDds", "stored", "failed"}
\* The files of which DDS has been asked to take the content.
AtDds == {"sentToDds", "stored", "failed"}

UpPc == {"idle", "encrypting", "creating", "created", "sending", "signing",
         "done", "error", "stopped"}
ChkPc == {"idle", "info", "key", "saveFile", "saveOwner", "saved", "stopped"}
ExtPc == {"idle", "find", "patch", "patched", "saveFile", "updateFile",
          "saveOwner", "ok", "error", "orphan"}
ChkReply == {"none", "uploading", "uploaded", "failed", "error"}
UpActive == {"encrypting", "creating", "created", "sending", "signing"}
ChkActive == {"info", "key", "saveFile", "saveOwner"}
ExtActive == {"find", "patch", "patched", "saveFile", "updateFile", "saveOwner"}

\* A key is drawn by the encryptor for every upload: key u is the one of u.
Key == Upload

FileDoc == [_id : DocId, id : FileId, keepUntil : Date, key : Key]
OwnerDoc == [_id : DocId, file : FileDoc]
TempDoc == [id : FileId, key : Key]

ASSUME NullAssumption == Null \notin FileId /\ Null \notin FileDoc

SnFile == [state : SnState, copy : BOOLEAN, chunks : Nat, keys : SUBSET Key,
           keepUntil : Date \cup {Null}]
UploadJob == [pc : UpPc, reply : {"none", "ok", "error"},
              file : FileId \cup {Null}, total : Nat, sent : Nat]
SaveJob == [pc : ChkPc, reply : ChkReply, file : FileId \cup {Null},
            keepUntil : Date \cup {Null}, key : Key \cup {Null},
            doc : FileDoc \cup {Null}]
ExtendJob == [pc : ExtPc, file : FileId \cup {Null}, date : Date \cup {Null},
              doc : FileDoc \cup {Null}, cur : FileDoc \cup {Null},
              owner : OwnerDoc \cup {Null}]

TypeOK ==
    /\ local \in [LocalFile -> Missing..MaxChunks]
    /\ sn \in [FileId -> SnFile]
    /\ accepted \in [FileId -> SUBSET Date]
    /\ temp \in SUBSET TempDoc
    /\ fileDb \in SUBSET FileDoc
    /\ ownerDb \in SUBSET OwnerDoc
    /\ up \in [Upload -> UploadJob]
    /\ chk \in [Check -> SaveJob]
    /\ ext \in [Extend -> ExtendJob]
    /\ faults \in 0..MaxFaults

-----------------------------------------------------------------------------
Init ==
    /\ local = [l \in LocalFile |-> Missing]
    /\ sn = [f \in FileId |-> [state |-> "absent", copy |-> FALSE, chunks |-> 0,
                               keys |-> {}, keepUntil |-> Null]]
    /\ accepted = [f \in FileId |-> {}]
    /\ temp = {}
    /\ fileDb = {}
    /\ ownerDb = {}
    /\ up = [u \in Upload |-> [pc |-> "idle", reply |-> "none", file |-> Null,
                               total |-> 0, sent |-> 0]]
    /\ chk = [c \in Check |-> [pc |-> "idle", reply |-> "none", file |-> Null,
                               keepUntil |-> Null, key |-> Null, doc |-> Null]]
    /\ ext = [e \in Extend |-> [pc |-> "idle", file |-> Null, date |-> Null,
                                doc |-> Null, cur |-> Null, owner |-> Null]]
    /\ faults = 0

-----------------------------------------------------------------------------
(* What NeDB and the service node do for a handler.                        *)

\* findOne without an index on the queried field walks the _id index.
FirstOf(docs) == {d \in docs : \A e \in docs : d._id <= e._id}
FilesWithId(f) == {d \in fileDb : d.id = f}
OwnersOfFile(f) == {o \in ownerDb : o.file.id = f}
SameFile(d, e) == d._id = e._id /\ d.id = e.id /\ d.key = e.key
SameOwner(o, p) ==
    o._id = p._id /\ o.file.id = p.file.id /\ o.file.key = p.file.key
UsedIds == {d._id : d \in fileDb} \cup {o._id : o \in ownerDb}

\* The service node answers requests about f while it has its own copy of f.
Serves(f) == sn[f].state # "absent" /\ sn[f].copy

\* A call of u, c or e that fails without a change of state anywhere.
Fault ==
    /\ faults < MaxFaults
    /\ faults' = faults + 1

-----------------------------------------------------------------------------
(* POST local, POST local/:localFileId/chunk                               *)

CreateLocalFile(l) ==
    /\ local[l] = Missing
    /\ local' = [local EXCEPT ![l] = 0]
    /\ UNCHANGED <<sn, accepted, temp, fileDb, ownerDb, up, chk, ext, faults>>

\* appendFileSync creates the file when it does not exist.
UploadLocalFileChunk(l) ==
    /\ local[l] < MaxChunks
    /\ local' = [local EXCEPT ![l] = IF @ = Missing THEN 1 ELSE @ + 1]
    /\ UNCHANGED <<sn, accepted, temp, fileDb, ownerDb, up, chk, ext, faults>>

-----------------------------------------------------------------------------
(* POST local/:localFileId/to-service-node                                 *)

UpdateUp(u, pc) == up' = [up EXCEPT ![u].pc = pc]
FailUp(u) == up' = [up EXCEPT ![u].pc = "error", ![u].reply = "error"]

\* readFileSync, then the call of the encryptor.  Its result is cut anew; it
\* counts as many chunks here as the local file has.
ReadLocalFile(u, l) ==
    /\ up[u].pc = "idle"
    /\ IF local[l] = Missing
         THEN FailUp(u)
         ELSE up' = [up EXCEPT ![u].pc = "encrypting", ![u].total = local[l]]
    /\ UNCHANGED <<local, sn, accepted, temp, fileDb, ownerDb, chk, ext, faults>>

EncryptWithAes(u) ==
    /\ up[u].pc = "encrypting"
    /\ UpdateUp(u, "creating")
    /\ UNCHANGED <<local, sn, accepted, temp, fileDb, ownerDb, chk, ext, faults>>

\* The service node creates a file and answers with its id.
CreateAtServiceNode(u, f, d) ==
    /\ up[u].pc = "creating"
    /\ sn[f].state = "absent"
    /\ sn' = [sn EXCEPT ![f].state = "created", ![f].copy = TRUE,
                        ![f].keepUntil = d]
    /\ accepted' = [accepted EXCEPT ![f] = @ \cup {d}]
    /\ up' = [up EXCEPT ![u].pc = "created", ![u].file = f]
    /\ UNCHANGED <<local, temp, fileDb, ownerDb, chk, ext, faults>>

\* Mutant: the key is not stored.
SaveTemporaryFile_NoKey(u) ==
    /\ up[u].pc = "created"
    /\ up' = [up EXCEPT ![u].pc = "sending", ![u].reply = "ok"]
    /\ UNCHANGED <<local, sn, accepted, temp, fileDb, ownerDb, chk, ext, faults>>

\* The key is stored, the background job starts, the client gets its reply.
SaveTemporaryFile(u) ==
    /\ up[u].pc = "created"
    /\ temp' = temp \cup {[id |-> up[u].file, key |-> u]}
    /\ up' = [up EXCEPT ![u].pc = "sending", ![u].reply = "ok"]
    /\ UNCHANGED <<local, sn, accepted, fileDb, ownerDb, chk, ext, faults>>

\* The calls before the reply may fail; the client gets an error status.
UploadFails(u) ==
    /\ up[u].pc \in {"encrypting", "creating"}
    /\ Fault
    /\ FailUp(u)
    /\ UNCHANGED <<local, sn, accepted, temp, fileDb, ownerDb, chk, ext>>

\* The service node created the file, its answer did not arrive.
CreateReplyLost(u, f, d) ==
    /\ up[u].pc = "creating"
    /\ sn[f].state = "absent"
    /\ Fault
    /\ sn' = [sn EXCEPT ![f].state = "created", ![f].copy = TRUE,
                        ![f].keepUntil = d]
    /\ accepted' = [accepted EXCEPT ![f] = @ \cup {d}]
    /\ FailUp(u)
    /\ UNCHANGED <<local, temp, fileDb, ownerDb, chk, ext>>

-----------------------------------------------------------------------------
(* The background job: chunks one after the other, then the hand-over to   *)
(* DDS.  Nobody waits for it and nobody catches its errors.                *)

SendChunk(u) ==
    LET f == up[u].file IN
    /\ up[u].pc = "sending"
    /\ up[u].sent < up[u].total
    /\ Serves(f)
    /\ sn' = [sn EXCEPT ![f].chunks = @ + 1, ![f].keys = @ \cup {u}]
    /\ up' = [up EXCEPT ![u].sent = @ + 1]
    /\ UNCHANGED <<local, accepted, temp, fileDb, ownerDb, chk, ext, faults>>

\* Mutant: the chunks are not awaited.
AllChunksSent_NotAwaited(u) ==
    /\ up[u].pc = "sending"
    /\ UpdateUp(u, "signing")
    /\ UNCHANGED <<local, sn, accepted, temp, fileDb, ownerDb, chk, ext, faults>>

AllChunksSent(u) ==
    /\ up[u].pc = "sending"
    /\ up[u].sent = up[u].total
    /\ UpdateUp(u, "signing")
    /\ UNCHANGED <<local, sn, accepted, temp, fileDb, ownerDb, chk, ext, faults>>

\* The stored record names the account that signs the request.
UploadFileToDds(u) ==
    LET f == up[u].file IN
    /\ up[u].pc = "signing"
    /\ \E t \in temp : t.id = f
    /\ Serves(f)
    /\ sn' = [sn EXCEPT ![f].state = "sentToDds"]
    /\ UpdateUp(u, "done")
    /\ UNCHANGED <<local, accepted, temp, fileDb, ownerDb, chk, ext, faults>>

\* A call fails, the file was deleted, or the account of the request is not
\* one of this node: the promise is rejected and the job is over.
BackgroundJobStops(u) ==
    /\ up[u].pc \in {"sending", "signing"}
    /\ \/ Fault
       \/ ~Serves(up[u].file) /\ UNCHANGED faults
    /\ UpdateUp(u, "stopped")
    /\ UNCHANGED <<local, sn, accepted, temp, fileDb, ownerDb, chk, ext>>

ChunkReplyLost(u) ==
    LET f == up[u].file IN
    /\ up[u].pc = "sending"
    /\ up[u].sent < up[u].total
    /\ Serves(f)
    /\ Fault
    /\ sn' = [sn EXCEPT ![f].chunks = @ + 1, ![f].keys = @ \cup {u}]
    /\ UpdateUp(u, "stopped")
    /\ UNCHANGED <<local, accepted, temp, fileDb, ownerDb, chk, ext>>

\* The network stores the file, or refuses it (storage fee, time limit).
DdsAnswers(f) ==
    /\ sn[f].state = "sentToDds"
    /\ \E s \in {"stored", "failed"} : sn' = [sn EXCEPT ![f].state = s]
    /\ UNCHANGED <<local, accepted, temp, fileDb, ownerDb, up, chk, ext, faults>>

-----------------------------------------------------------------------------
(* GET service-node/:id/status and the save job of a stored file;          *)
(* DELETE service-node/:id                                                 *)

\* Mutant: a file that was handed over to DDS is reported as uploaded.
StatusReply_Early(f) ==
    CASE ~Serves(f)                              -> "error"
      [] sn[f].state \in {"sentToDds", "stored"} -> "uploaded"
      [] sn[f].state = "failed"                  -> "failed"
      [] OTHER                                   -> "uploading"

StatusReply(f) ==
    CASE ~Serves(f)                -> "error"
      [] sn[f].state = "stored"    -> "uploaded"
      [] sn[f].state = "failed"    -> "failed"
      [] OTHER                     -> "uploading"

\* Mutant: the save job is not started.
CheckStatus_NoJob(c, f) ==
    /\ chk[c].pc = "idle"
    /\ chk' = [chk EXCEPT ![c].reply = StatusReply(f), ![c].file = f]
    /\ UNCHANGED <<local, sn, accepted, temp, fileDb, ownerDb, up, ext, faults>>

CheckStatus(c, f) ==
    /\ chk[c].pc = "idle"
    /\ chk' = IF StatusReply(f) = "uploaded"
                THEN [chk EXCEPT ![c].pc = "info", ![c].reply = "uploaded",
                                 ![c].file = f]
                ELSE [chk EXCEPT ![c].reply = StatusReply(f)]
    /\ UNCHANGED <<local, sn, accepted, temp, fileDb, ownerDb, up, ext, faults>>

GetFileInfo(c) ==
    /\ chk[c].pc = "info"
    /\ chk' = [chk EXCEPT ![c].pc = "key",
                          ![c].keepUntil = sn[chk[c].file].keepUntil]
    /\ UNCHANGED <<local, sn, accepted, temp, fileDb, ownerDb, up, ext, faults>>

\* Mutant: the temporary file is looked up without its id.
FindFileKey_AnyFile(c) ==
    /\ chk[c].pc = "key"
    /\ \E t \in temp :
        chk' = [chk EXCEPT ![c].pc = "saveFile", ![c].key = t.key]
    /\ UNCHANGED <<local, sn, accepted, temp, fileDb, ownerDb, up, ext, faults>>

FindFileKey(c) ==
    /\ chk[c].pc = "key"
    /\ \E t \in temp :
        /\ t.id = chk[c].file
        /\ chk' = [chk EXCEPT ![c].pc = "saveFile", ![c].key = t.key]
    /\ UNCHANGED <<local, sn, accepted, temp, fileDb, ownerDb, up, ext, faults>>

\* getFileInfo fails, or there is no record of the file (a file of another
\* backend, or of a request whose record was not stored).
SaveJobStops(c) ==
    /\ \/ chk[c].pc = "info" /\ Fault
       \/ /\ chk[c].pc = "key"
          /\ \A t \in temp : t.id # chk[c].file
          /\ UNCHANGED faults
    /\ chk' = [chk EXCEPT ![c].pc = "stopped"]
    /\ UNCHANGED <<local, sn, accepted, temp, fileDb, ownerDb, up, ext>>

NewFile(c, i) == [_id |-> i, id |-> chk[c].file,
                  keepUntil |-> chk[c].keepUntil, key |-> chk[c].key]
NewOwner(c, i) == [_id |-> i, file |-> chk[c].doc]

\* Mutant: the file is not saved before the data owner is.
SaveFile_Skipped(c) ==
    /\ chk[c].pc = "saveFile"
    /\ \E i \in DocId \ UsedIds :
        chk' = [chk EXCEPT ![c].pc = "saveOwner", ![c].doc = NewFile(c, i)]
    /\ UNCHANGED <<local, sn, accepted, temp, fileDb, ownerDb, up, ext, faults>>

\* The object has no _id, so findOne finds nothing and save always inserts.
SaveFile(c) ==
    /\ chk[c].pc = "saveFile"
    /\ \E i \in DocId \ UsedIds :
        /\ fileDb' = fileDb \cup {NewFile(c, i)}
        /\ chk' = [chk EXCEPT ![c].pc = "saveOwner", ![c].doc = NewFile(c, i)]
    /\ UNCHANGED <<local, sn, accepted, temp, ownerDb, up, ext, faults>>

SaveDataOwner(c) ==
    /\ chk[c].pc = "saveOwner"
    /\ \E i \in DocId \ UsedIds :
        ownerDb' = ownerDb \cup {NewOwner(c, i)}
    /\ chk' = [chk EXCEPT ![c].pc = "saved"]
    /\ UNCHANGED <<local, sn, accepted, temp, fileDb, up, ext, faults>>

DeleteServiceNodeFile(f) ==
    /\ Serves(f)
    /\ sn' = [sn EXCEPT ![f].copy = FALSE]
    /\ UNCHANGED <<local, accepted, temp, fileDb, ownerDb, up, chk, ext, faults>>

-----------------------------------------------------------------------------
(* PATCH :fileId                                                           *)

UpdateExt(e, pc) == ext' = [ext EXCEPT ![e].pc = pc]

BeginExtend(e, f, d) ==
    /\ ext[e].pc = "idle"
    /\ Cardinality({x \in Extend : ext[x].pc \in ExtActive}) < MaxActiveExtends
    /\ ext' = [ext EXCEPT ![e].pc = "find", ![e].file = f, ![e].date = d]
    /\ UNCHANGED <<local, sn, accepted, temp, fileDb, ownerDb, up, chk, faults>>

\* Mutant: the records are updated without the service node's consent.
FindFile_NoPatch(e) ==
    /\ ext[e].pc = "find"
    /\ \/ /\ FilesWithId(ext[e].file) = {}
          /\ UpdateExt(e, "patch")
       \/ \E doc \in FirstOf(FilesWithId(ext[e].file)) :
            ext' = [ext EXCEPT ![e].pc = "patched", ![e].doc = doc]
    /\ UNCHANGED <<local, sn, accepted, temp, fileDb, ownerDb, up, chk, faults>>

FindFile(e) ==
    /\ ext[e].pc = "find"
    /\ \/ /\ FilesWithId(ext[e].file) = {}
          /\ UpdateExt(e, "patch")
       \/ \E doc \in FirstOf(FilesWithId(ext[e].file)) :
            ext' = [ext EXCEPT ![e].pc = "patch", ![e].doc = doc]
    /\ UNCHANGED <<local, sn, accepted, temp, fileDb, ownerDb, up, chk, faults>>

\* The service node prolongs the file.  It does so too for a request that was
\* on its way when the backend crashed: then nobody reads the answer.
ServiceNodeExtends(e) ==
    LET f == ext[e].file IN
    /\ ext[e].pc \in {"patch", "orphan"}
    /\ sn[f].state = "stored"
    /\ sn' = [sn EXCEPT ![f].keepUntil = ext[e].date]
    /\ accepted' = [accepted EXCEPT ![f] = @ \cup {ext[e].date}]
    /\ UpdateExt(e, IF ext[e].pc = "patch" THEN "patched" ELSE "error")
    /\ UNCHANGED <<local, temp, fileDb, ownerDb, up, chk, faults>>

\* Mutant: only a missing answer ends the request, an error status does not.
ExtendFails_NoAnswer(e) ==
    /\ ext[e].pc \in {"patch", "patched"}
    /\ Fault
    /\ UpdateExt(e, "error")
    /\ UNCHANGED <<local, sn, accepted, temp, fileDb, ownerDb, up, chk>>

\* 404, another error status, no answer, or an answer that is lost.
ExtendFails(e) ==
    /\ \/ /\ ext[e].pc = "patch"
          /\ sn[ext[e].file].state # "stored"
          /\ UNCHANGED faults
       \/ ext[e].pc \in {"patch", "patched"} /\ Fault
    /\ UpdateExt(e, "error")
    /\ UNCHANGED <<local, sn, accepted, temp, fileDb, ownerDb, up, chk>>

\* A file of which the backend has no record needs no local update.
NothingToUpdate(e) ==
    /\ ext[e].pc = "patched"
    /\ ext[e].doc = Null
    /\ UpdateExt(e, "ok")
    /\ UNCHANGED <<local, sn, accepted, temp, fileDb, ownerDb, up, chk, faults>>

\* Mutant: the data owner keeps its old copy of the file.
FindDataOwner_OldCopy(e) ==
    LET owners == OwnersOfFile(ext[e].file)
        file == [ext[e].doc EXCEPT !.keepUntil = ext[e].date]
    IN  /\ ext[e].pc = "patched"
        /\ ext[e].doc # Null
        /\ \/ owners = {} /\ UpdateExt(e, "error")
           \/ \E o \in FirstOf(owners) :
                ext' = [ext EXCEPT ![e].pc = "saveFile", ![e].doc = file,
                                   ![e].owner = o]
        /\ UNCHANGED <<local, sn, accepted, temp, fileDb, ownerDb, up, chk,
                       faults>>

\* Without a data owner `dataOwner.file = file` throws: "error" is answered
\* although the service node has prolonged the file.
FindDataOwner(e) ==
    LET owners == OwnersOfFile(ext[e].file)
        file == [ext[e].doc EXCEPT !.keepUntil = ext[e].date]
    IN  /\ ext[e].pc = "patched"
        /\ ext[e].doc # Null
        /\ \/ owners = {} /\ UpdateExt(e, "error")
           \/ \E o \in FirstOf(owners) :
                ext' = [ext EXCEPT ![e].pc = "saveFile", ![e].doc = file,
                                   ![e].owner = [o EXCEPT !.file = file]]
        /\ UNCHANGED <<local, sn, accepted, temp, fileDb, ownerDb, up, chk,
                       faults>>

\* filesRepository.save reads the document it will replace ...
FindSavedFile(e) ==
    /\ ext[e].pc = "saveFile"
    /\ \E cur \in fileDb :
        /\ cur._id = ext[e].doc._id
        /\ ext' = [ext EXCEPT ![e].pc = "updateFile", ![e].cur = cur]
    /\ UNCHANGED <<local, sn, accepted, temp, fileDb, ownerDb, up, chk, faults>>

\* Mutant: the document is removed before the new one is inserted.
UpdateFile_Removes(e) ==
    /\ ext[e].pc = "updateFile"
    /\ fileDb' = fileDb \ {ext[e].cur}
    /\ UpdateExt(e, "saveOwner")
    /\ UNCHANGED <<local, sn, accepted, temp, ownerDb, up, chk, faults>>

\* ... and replaces it only if it is still the one it has read: the whole
\* document is the query of the update.
UpdateFile(e) ==
    /\ ext[e].pc = "updateFile"
    /\ fileDb' = IF ext[e].cur \in fileDb
                   THEN (fileDb \ {ext[e].cur}) \cup {ext[e].doc}
                   ELSE fileDb
    /\ UpdateExt(e, "saveOwner")
    /\ UNCHANGED <<local, sn, accepted, temp, ownerDb, up, chk, faults>>

\* dataOwnersRepository.save replaces the document with this _id.
SaveExtendedOwner(e) ==
    /\ ext[e].pc = "saveOwner"
    /\ ownerDb' = {IF o._id = ext[e].owner._id THEN ext[e].owner ELSE o :
                   o \in ownerDb}
    /\ UpdateExt(e, "ok")
    /\ UNCHANGED <<local, sn, accepted, temp, fileDb, up, chk, faults>>

-----------------------------------------------------------------------------
\* The process is killed and started again: its requests and jobs are gone,
\* the local files and the NeDB documents are kept.
Crash ==
    /\ Fault
    /\ up' = [u \in Upload |->
                IF up[u].pc \notin UpActive THEN up[u]
                ELSE IF up[u].reply = "ok"
                       THEN [up[u] EXCEPT !.pc = "stopped"]
                       ELSE [up[u] EXCEPT !.pc = "error", !.reply = "error"]]
    /\ chk' = [c \in Check |->
                IF chk[c].pc \in ChkActive THEN [chk[c] EXCEPT !.pc = "stopped"]
                ELSE chk[c]]
    /\ ext' = [e \in Extend |->
                IF ext[e].pc = "patch" THEN [ext[e] EXCEPT !.pc = "orphan"]
                ELSE IF ext[e].pc \in ExtActive
                       THEN [ext[e] EXCEPT !.pc = "error"]
                ELSE ext[e]]
    /\ UNCHANGED <<local, sn, accepted, temp, fileDb, ownerDb>>

-----------------------------------------------------------------------------
UploadStep(u) ==
    \/ EncryptWithAes(u)
    \/ \E f \in FileId, d \in Date : CreateAtServiceNode(u, f, d)
    \/ SaveTemporaryFile(u)
    \/ SendChunk(u)
    \/ AllChunksSent(u)
    \/ UploadFileToDds(u)

UploadFault(u) ==
    \/ UploadFails(u)
    \/ \E f \in FileId, d \in Date : CreateReplyLost(u, f, d)
    \/ ChunkReplyLost(u)
    \/ BackgroundJobStops(u)

SaveJobStep(c) ==
    \/ GetFileInfo(c)
    \/ FindFileKey(c)
    \/ SaveJobStops(c)
    \/ SaveFile(c)
    \/ SaveDataOwner(c)

ExtendStep(e) ==
    \/ FindFile(e)
    \/ ServiceNodeExtends(e)
    \/ ExtendFails(e)
    \/ NothingToUpdate(e)
    \/ FindDataOwner(e)
    \/ FindSavedFile(e)
    \/ UpdateFile(e)
    \/ SaveExtendedOwner(e)

Next ==
    \/ \E l \in LocalFile : CreateLocalFile(l) \/ UploadLocalFileChunk(l)
    \/ \E u \in Upload, l \in LocalFile : ReadLocalFile(u, l)
    \/ \E u \in Upload : UploadStep(u) \/ UploadFault(u)
    \/ \E f \in FileId : DdsAnswers(f) \/ DeleteServiceNodeFile(f)
    \/ \E c \in Check, f \in FileId : CheckStatus(c, f)
    \/ \E c \in Check : SaveJobStep(c)
    \/ \E e \in Extend, f \in FileId, d \in Date : BeginExtend(e, f, d)
    \/ \E e \in Extend : ExtendStep(e)
    \/ Crash

Spec == Init /\ [][Next]_vars

\* A callback that is due is eventually run by the event loop of Node.js, NeDB
\* calls back after every operation, and a service node that does not fail
\* answers: every step of a save job and of a PATCH in progress is taken.
Fairness ==
    /\ \A c \in Check : WF_vars(SaveJobStep(c))
    /\ \A e \in Extend : WF_vars(ExtendStep(e))

FairSpec == Spec /\ Fairness

-----------------------------------------------------------------------------
(* Safety                                                                  *)

\* Whatever the service node holds of a file is encrypted with a key that is
\* stored in a ServiceNodeTemporaryFile under the id of that file, also after
\* a crash or a lost answer: no content is ever out without its key
\* (createServiceNodeFile awaits the save before the chunks are sent).
KeyStoredBeforeData ==
    \A f \in FileId : \A k \in sn[f].keys :
        \E t \in temp : t.id = f /\ t.key = k

\* The key a File document carries, the one GET :fileId/key hands out, is the
\* key of every chunk the service node received for that file, however uploads
\* and status requests interleave.
FileDocHasKeyOfContent == \A d \in fileDb : sn[d.id].keys \subseteq {d.key}

\* DDS is asked to take a file only when the service node has every chunk of
\* the local file: uploadFileToDds runs after the awaits of all chunks.
SentToDdsWhole ==
    \A u \in Upload :
        up[u].file # Null /\ sn[up[u].file].state \in AtDds
            => sn[up[u].file].chunks = up[u].total

\* Only files that DDS has stored are recorded as File documents.
RecordedFilesAreStored == \A d \in fileDb : sn[d.id].state = "stored"

\* The copy of the file inside a DataOwner always has its File document: same
\* document, same file, same key.
OwnerRefersToFile == \A o \in ownerDb : \E d \in fileDb : SameFile(d, o.file)

\* No date is shown that the service node has not accepted at some time, for
\* all interleavings of extensions, save jobs and crashes: the local documents
\* are written after the answer of the service node.
DatesWereAccepted ==
    /\ \A d \in fileDb : d.keepUntil \in accepted[d.id]
    /\ \A o \in ownerDb : o.file.keepUntil \in accepted[o.file.id]

\* A File or DataOwner document is never lost and never becomes one of another
\* file or key: updates, also the compare-and-swap one that lost its race and
\* those cut short by a crash, replace a document by a version of itself.
RecordsAreKept ==
    [][/\ \A d \in fileDb : \E n \in fileDb' : SameFile(n, d)
       /\ \A o \in ownerDb : \E n \in ownerDb' : SameOwner(n, o)]_vars

AtRest == \A e \in Extend : ext[e].pc \notin ExtActive

\* One PATCH at a time, one record of a file, no crash: when no PATCH is in
\* progress the DataOwner shows exactly the File document, and if every PATCH of
\* a file updated its records and succeeded then the recorded date is the one the
\* service node has.
CopiesAgreeAtRest ==
    AtRest =>
        /\ \A o \in ownerDb : o.file \in fileDb
        /\ \A d \in fileDb :
            (\A e \in Extend :
                ext[e].file = d.id => ext[e].pc = "ok" /\ ext[e].owner # Null)
            => d.keepUntil = sn[d.id].keepUntil

-----------------------------------------------------------------------------
(* Liveness                                                                *)

\* When no call fails, a file that was once reported as uploaded gets its data
\* owner: the save job nobody waits for comes to its end.
ReportedThenListed ==
    \A c \in Check :
        chk[c].reply = "uploaded" ~> \E o \in ownerDb : o.file.id = chk[c].file

\* Every PATCH is answered, whatever other requests do in between.
ExtendIsAnswered ==
    \A e \in Extend :
        ext[e].pc = "find" ~> ext[e].pc \in {"ok", "error"}

-----------------------------------------------------------------------------
(* The inductive invariant behind the safety properties, by component.     *)

Keyed == {"sending", "signing", "done", "stopped"}

\* A file the service node created for a request belongs to that request.
UploadInv ==
    /\ \A u \in Upload :
        /\ up[u].pc \in {"idle", "encrypting", "creating"} => up[u].file = Null
        /\ up[u].pc \in Keyed \cup {"created"} => up[u].file \in FileId
        /\ up[u].file # Null => sn[up[u].file].state # "absent"
        /\ up[u].reply = "ok" <=> up[u].pc \in Keyed
    /\ \A u, v \in Upload :
        up[u].file = up[v].file /\ up[u].file # Null => u = v

\* Keys are stored exactly for the requests that came so far.
TempInv ==
    /\ \A t \in temp : up[t.key].file = t.id /\ up[t.key].pc \in Keyed
    /\ \A u \in Upload :
        up[u].pc \in Keyed => [id |-> up[u].file, key |-> u] \in temp

\* What the service node holds came from the request that created the file.
ContentInv ==
    /\ \A f \in FileId :
        /\ \A k \in sn[f].keys : up[k].file = f /\ up[k].pc \in Keyed
        /\ sn[f].state = "absent" => sn[f].chunks = 0
        /\ sn[f].state # "absent" => sn[f].keepUntil \in accepted[f]
    /\ \A u \in Upload : up[u].file # Null =>
        /\ up[u].pc = "created" => sn[up[u].file].chunks = 0
        /\ up[u].pc = "sending" => sn[up[u].file].chunks = up[u].sent
        /\ up[u].pc \in {"signing", "done"}
             => sn[up[u].file].chunks = up[u].total
        /\ sn[up[u].file].state \in AtDds => up[u].pc = "done"
    /\ \A u \in Upload :
        up[u].pc \in {"idle", "encrypting", "creating", "created"}
            => up[u].sent = 0

\* A document about file f: stored, dated and keyed as f is.
Genuine(d) ==
    /\ sn[d.id].state = "stored"
    /\ d.keepUntil \in accepted[d.id]
    /\ [id |-> d.id, key |-> d.key] \in temp

RecordInv ==
    /\ \A d \in fileDb : Genuine(d)
    /\ \A d, e \in fileDb : d._id = e._id => SameFile(d, e)
    /\ \A o \in ownerDb : Genuine(o.file) /\ \E d \in fileDb : SameFile(d, o.file)
    /\ \A o, p \in ownerDb : o._id = p._id => SameOwner(o, p)

\* What a save job carries is still true of the file it saves.
SaveJobOK(c) ==
    /\ chk[c].pc # "idle" => /\ chk[c].file \in FileId
                             /\ sn[chk[c].file].state = "stored"
    /\ chk[c].pc \in {"key", "saveFile"}
         => chk[c].keepUntil \in accepted[chk[c].file]
    /\ chk[c].pc = "saveFile"
         => [id |-> chk[c].file, key |-> chk[c].key] \in temp
    /\ chk[c].pc = "saveOwner"
         => /\ chk[c].doc \in FileDoc
            /\ Genuine(chk[c].doc)
            /\ \E d \in fileDb : SameFile(d, chk[c].doc)

SaveJobInv == \A c \in Check : SaveJobOK(c)

\* The account that signs for a file given to DDS was found in its record.
DdsInv == \A f \in FileId : sn[f].state \in AtDds => \E t \in temp : t.id = f

ExtUpdating == {"saveFile", "updateFile", "saveOwner"}

\* The documents a PATCH has read are still versions of stored ones.
ExtendOK(e) ==
    /\ ext[e].pc # "idle" => ext[e].file \in FileId /\ ext[e].date \in Date
    /\ ext[e].pc = "idle" => ext[e].doc \notin FileDoc
    /\ ext[e].doc \in FileDoc
         => /\ ext[e].doc.id = ext[e].file
            /\ \E d \in fileDb : SameFile(d, ext[e].doc)
    /\ ext[e].pc \in {"patched"} \cup ExtUpdating
         => /\ ext[e].date \in accepted[ext[e].file]
            /\ sn[ext[e].file].state = "stored"
    /\ ext[e].pc \in ExtUpdating
         => /\ ext[e].doc \in FileDoc
            /\ ext[e].doc.keepUntil = ext[e].date
            /\ ext[e].owner \in OwnerDoc
            /\ ext[e].owner.file = ext[e].doc
            /\ \E o \in ownerDb : SameOwner(o, ext[e].owner)
    /\ ext[e].pc = "updateFile"
         => ext[e].cur \in FileDoc /\ SameFile(ext[e].cur, ext[e].doc)

ExtendInv == \A e \in Extend : ExtendOK(e)

\* What the safety properties follow from: who owns which file and key, and
\* that every copy of a record a job carries is still one of a document.
IInv ==
    /\ TypeOK
    /\ UploadInv
    /\ TempInv
    /\ ContentInv
    /\ DdsInv
    /\ RecordInv
    /\ SaveJobInv
    /\ ExtendInv

-----------------------------------------------------------------------------
(* The backend keeps custody of the keys of the data owners' files.        *)

Custody == INSTANCE DataCustody WITH
    escrow   <- [f \in FileId |-> {t.key : t \in {x \in temp : x.id = f}}],
    sent     <- [f \in FileId |-> sn[f].keys],
    stored   <- {f \in FileId : sn[f].state = "stored"},
    recorded <- [f \in FileId |-> {d.key : d \in FilesWithId(f)}],
    listed   <- {o.file.id : o \in ownerDb}

\* Uploads, save jobs, extensions, failures and crashes together do no more
\* than the abstract custody of keys allows.
ImplementsCustody == Custody!Spec
=============================================================================

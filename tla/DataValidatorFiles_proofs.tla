--------------------- MODULE DataValidatorFiles_proofs ---------------------
(***************************************************************************)
(* Proofs about DataValidatorFiles, for every number of requests, files,   *)
(* dates, chunks, failures and crashes.                                    *)
(***************************************************************************)
EXTENDS DataValidatorFiles, TLAPS

\* The initial state has the types.
LEMMA TypeInit == Init => TypeOK
<1> SUFFICES ASSUME Init PROVE TypeOK
    OBVIOUS
<1>1. Missing \in Missing..MaxChunks /\ 0 \in 0..MaxFaults
    BY BoundsAssumption DEF Missing
<1> QED
    BY <1>1 DEF Init, TypeOK, SnFile, UploadJob, SaveJob, ExtendJob,
                SnState, UpPc, ChkPc, ExtPc, ChkReply, AtDds

\* A failed call is counted within the bound.
LEMMA FaultType == ASSUME TypeOK, Fault PROVE faults' \in 0..MaxFaults
    BY BoundsAssumption DEF TypeOK, Fault

\* A chunk added to what the service node holds.
LEMMA ChunkType ==
    ASSUME TypeOK, NEW u \in Upload, NEW f,
           sn' = [sn EXCEPT ![f].chunks = @ + 1, ![f].keys = @ \cup {u}]
    PROVE  sn' \in [FileId -> SnFile]
<1> DEFINE r == [[sn[f] EXCEPT !.chunks = @ + 1] EXCEPT !.keys = @ \cup {u}]
<1>1. ASSUME f \in FileId PROVE r \in SnFile
    <2>1. sn[f] \in SnFile
        BY <1>1 DEF TypeOK
    <2>2. sn[f].chunks + 1 \in Nat /\ sn[f].keys \cup {u} \in SUBSET Key
        BY <2>1 DEF SnFile, Key
    <2> QED BY <2>1, <2>2 DEF SnFile
<1>2. sn' = [sn EXCEPT ![f] = r]
    OBVIOUS
<1> QED BY <1>1, <1>2 DEF TypeOK

\* One job of a table is replaced by a job.
LEMMA UploadJobChange ==
    ASSUME up \in [Upload -> UploadJob], NEW u \in Upload, NEW r \in UploadJob,
           up' = [up EXCEPT ![u] = r]
    PROVE  up' \in [Upload -> UploadJob]
    OBVIOUS

LEMMA SnFileChange ==
    ASSUME sn \in [FileId -> SnFile], NEW f \in FileId, NEW r \in SnFile,
           sn' = [sn EXCEPT ![f] = r]
    PROVE  sn' \in [FileId -> SnFile]
    OBVIOUS

LEMMA ExtendJobChange ==
    ASSUME ext \in [Extend -> ExtendJob], NEW e \in Extend, NEW r \in ExtendJob,
           ext' = [ext EXCEPT ![e] = r]
    PROVE  ext' \in [Extend -> ExtendJob]
    OBVIOUS

LEMMA SaveJobChange ==
    ASSUME chk \in [Check -> SaveJob], NEW c \in Check, NEW r \in SaveJob,
           chk' = [chk EXCEPT ![c] = r]
    PROVE  chk' \in [Check -> SaveJob]
    OBVIOUS

\* The upload of a request moves on, or fails before its reply.
LEMMA UpdateUpType ==
    ASSUME up \in [Upload -> UploadJob], NEW u \in Upload, NEW pc \in UpPc,
           UpdateUp(u, pc)
    PROVE  up' \in [Upload -> UploadJob]
<1>1. up' = [up EXCEPT ![u] = [up[u] EXCEPT !.pc = pc]]
    BY DEF UpdateUp
<1>2. [up[u] EXCEPT !.pc = pc] \in UploadJob
    BY DEF UploadJob
<1> QED BY <1>1, <1>2, UploadJobChange

LEMMA FailUpType ==
    ASSUME up \in [Upload -> UploadJob], NEW u \in Upload, FailUp(u)
    PROVE  up' \in [Upload -> UploadJob]
<1>1. up' = [up EXCEPT ![u] = [up[u] EXCEPT !.pc = "error", !.reply = "error"]]
    BY DEF FailUp
<1>2. [up[u] EXCEPT !.pc = "error", !.reply = "error"] \in UploadJob
    BY DEF UploadJob, UpPc
<1> QED BY <1>1, <1>2, UploadJobChange

\* A file the service node creates.
LEMMA CreateType ==
    ASSUME TypeOK, NEW f \in FileId, NEW d \in Date,
           sn' = [sn EXCEPT ![f].state = "created", ![f].copy = TRUE,
                            ![f].keepUntil = d],
           accepted' = [accepted EXCEPT ![f] = @ \cup {d}]
    PROVE  sn' \in [FileId -> SnFile] /\ accepted' \in [FileId -> SUBSET Date]
<1>1. sn[f] \in SnFile
    BY DEF TypeOK
<1>2. sn' \in [FileId -> SnFile]
    BY <1>1 DEF TypeOK, SnFile, SnState
<1>3. accepted' \in [FileId -> SUBSET Date]
    BY DEF TypeOK
<1> QED BY <1>2, <1>3

\* Documents that are found are documents of the store.
LEMMA FoundFile == ASSUME TypeOK, NEW f, NEW doc \in FirstOf(FilesWithId(f))
                   PROVE  doc \in fileDb /\ doc.id = f /\ doc \in FileDoc
    BY DEF FirstOf, FilesWithId, TypeOK

LEMMA FoundOwner == ASSUME TypeOK, NEW f, NEW o \in FirstOf(OwnersOfFile(f))
                    PROVE  o \in ownerDb /\ o.file.id = f /\ o \in OwnerDoc
    BY DEF FirstOf, OwnersOfFile, TypeOK

\* The document a save job inserts.
LEMMA NewFileType ==
    ASSUME IInv, NEW c \in Check, chk[c].pc = "saveFile", NEW i \in DocId
    PROVE  NewFile(c, i) \in FileDoc
<1>1. chk[c].file \in FileId
    BY DEF IInv, SaveJobInv, SaveJobOK
<1>2. chk[c].keepUntil \in Date
    BY <1>1 DEF IInv, SaveJobInv, SaveJobOK, TypeOK
<1>3. chk[c].key \in Key
    <2>1. [id |-> chk[c].file, key |-> chk[c].key] \in TempDoc
        BY DEF IInv, SaveJobInv, SaveJobOK, TypeOK
    <2> QED BY <2>1 DEF TempDoc
<1> QED BY <1>1, <1>2, <1>3 DEF NewFile, FileDoc

\* Every step keeps the types.
LEMMA TypeStep == IInv /\ [Next]_vars => TypeOK'
<1> SUFFICES ASSUME IInv, [Next]_vars PROVE TypeOK'
    OBVIOUS
<1>t. TypeOK
    BY DEF IInv
<1>local. local \in [LocalFile -> Missing..MaxChunks]
    BY <1>t DEF TypeOK
<1>sn. sn \in [FileId -> SnFile] /\ accepted \in [FileId -> SUBSET Date]
    BY <1>t DEF TypeOK
<1>db. temp \in SUBSET TempDoc /\ fileDb \in SUBSET FileDoc /\ ownerDb \in SUBSET OwnerDoc
    BY <1>t DEF TypeOK
<1>up. up \in [Upload -> UploadJob]
    BY <1>t DEF TypeOK
<1>chk. chk \in [Check -> SaveJob]
    BY <1>t DEF TypeOK
<1>ext. ext \in [Extend -> ExtendJob]
    BY <1>t DEF TypeOK
<1>1. ASSUME NEW l \in LocalFile, CreateLocalFile(l) PROVE TypeOK'
    <2>1. local' \in [LocalFile -> Missing..MaxChunks]
        BY <1>1, <1>local, BoundsAssumption DEF CreateLocalFile, Missing
    <2> QED BY <1>t, <1>1, <2>1 DEF CreateLocalFile, TypeOK
<1>2. ASSUME NEW l \in LocalFile, UploadLocalFileChunk(l) PROVE TypeOK'
    <2>1. local' \in [LocalFile -> Missing..MaxChunks]
        BY <1>2, <1>local, BoundsAssumption DEF UploadLocalFileChunk, Missing
    <2> QED BY <1>t, <1>2, <2>1 DEF UploadLocalFileChunk, TypeOK
<1>3. ASSUME NEW u \in Upload, NEW l \in LocalFile, ReadLocalFile(u, l) PROVE TypeOK'
    <2>1. up' \in [Upload -> UploadJob]
      <3>1. CASE local[l] = Missing
        BY <1>3, <1>up, <3>1, FailUpType DEF ReadLocalFile
      <3>2. CASE local[l] # Missing
        <4>1. up' = [up EXCEPT ![u] = [up[u] EXCEPT !.pc = "encrypting",
                                                    !.total = local[l]]]
            BY <1>3, <3>2 DEF ReadLocalFile
        <4>2. local[l] \in Nat
            BY <1>local, <3>2, BoundsAssumption DEF Missing
        <4>3. [up[u] EXCEPT !.pc = "encrypting", !.total = local[l]]
                \in UploadJob
            BY <1>up, <4>2 DEF UploadJob, UpPc
        <4> QED BY <1>up, <4>1, <4>3, UploadJobChange
      <3> QED BY <3>1, <3>2
    <2> QED BY <1>t, <1>3, <2>1 DEF ReadLocalFile, TypeOK
<1>4. ASSUME NEW u \in Upload, EncryptWithAes(u) PROVE TypeOK'
    <2>1. up' \in [Upload -> UploadJob]
        BY <1>4, <1>up, UpdateUpType DEF EncryptWithAes, UpPc
    <2> QED BY <1>t, <1>4, <2>1 DEF EncryptWithAes, TypeOK
<1>5. ASSUME NEW u \in Upload, NEW f \in FileId, NEW d \in Date, CreateAtServiceNode(u, f, d) PROVE TypeOK'
    <2>1. up' \in [Upload -> UploadJob]
      <3>1. up' = [up EXCEPT ![u] = [up[u] EXCEPT !.pc = "created", !.file = f]]
        BY <1>5 DEF CreateAtServiceNode
      <3>2. [up[u] EXCEPT !.pc = "created", !.file = f] \in UploadJob
        BY <1>up DEF UploadJob, UpPc
      <3> QED BY <1>up, <3>1, <3>2, UploadJobChange
    <2>2. sn' \in [FileId -> SnFile] /\ accepted' \in [FileId -> SUBSET Date]
        BY <1>t, <1>5, CreateType DEF CreateAtServiceNode
    <2> QED BY <1>t, <1>5, <2>1, <2>2 DEF CreateAtServiceNode, TypeOK
<1>6. ASSUME NEW u \in Upload, SaveTemporaryFile(u) PROVE TypeOK'
    <2>1. up' \in [Upload -> UploadJob]
      <3>1. up' = [up EXCEPT ![u] = [up[u] EXCEPT !.pc = "sending",
                                                  !.reply = "ok"]]
        BY <1>6 DEF SaveTemporaryFile
      <3>2. [up[u] EXCEPT !.pc = "sending", !.reply = "ok"] \in UploadJob
        BY <1>up DEF UploadJob, UpPc
      <3> QED BY <1>up, <3>1, <3>2, UploadJobChange
    <2>2. temp' \in SUBSET TempDoc
      <3>1. up[u].file \in FileId
        BY <1>6 DEF IInv, UploadInv, SaveTemporaryFile
      <3> QED BY <3>1, <1>6, <1>db DEF SaveTemporaryFile, TempDoc, Key
    <2> QED BY <1>t, <1>6, <2>1, <2>2 DEF SaveTemporaryFile, TypeOK
<1>7. ASSUME NEW u \in Upload, SendChunk(u) PROVE TypeOK'
    <2>1. up' \in [Upload -> UploadJob]
      <3>1. up' = [up EXCEPT ![u] = [up[u] EXCEPT !.sent = @ + 1]]
        BY <1>7 DEF SendChunk
      <3>2. [up[u] EXCEPT !.sent = @ + 1] \in UploadJob
        BY <1>up DEF UploadJob
      <3> QED BY <1>up, <3>1, <3>2, UploadJobChange
    <2>2. sn' \in [FileId -> SnFile]
        BY <1>t, <1>7, ChunkType DEF SendChunk
    <2> QED BY <1>t, <1>7, <2>1, <2>2 DEF SendChunk, TypeOK
<1>8. ASSUME NEW u \in Upload, AllChunksSent(u) PROVE TypeOK'
    <2>1. up' \in [Upload -> UploadJob]
        BY <1>8, <1>up, UpdateUpType DEF AllChunksSent, UpPc
    <2> QED BY <1>t, <1>8, <2>1 DEF AllChunksSent, TypeOK
<1>9. ASSUME NEW u \in Upload, UploadFileToDds(u) PROVE TypeOK'
    <2>1. up' \in [Upload -> UploadJob]
        BY <1>9, <1>up, UpdateUpType DEF UploadFileToDds, UpPc
    <2>2. sn' \in [FileId -> SnFile]
      <3> DEFINE f == up[u].file
      <3>1. f \in FileId
        BY <1>9 DEF IInv, UploadInv, UploadFileToDds, Keyed
      <3>2. sn' = [sn EXCEPT ![f] = [sn[f] EXCEPT !.state = "sentToDds"]]
        BY <1>9 DEF UploadFileToDds
      <3>3. [sn[f] EXCEPT !.state = "sentToDds"] \in SnFile
        BY <1>sn, <3>1 DEF SnFile, SnState, AtDds
      <3> QED BY <1>sn, <3>1, <3>2, <3>3, SnFileChange
    <2> QED BY <1>t, <1>9, <2>1, <2>2 DEF UploadFileToDds, TypeOK
<1>10. ASSUME NEW u \in Upload, UploadFails(u) PROVE TypeOK'
    <2>1. up' \in [Upload -> UploadJob]
        BY <1>10, <1>up, FailUpType DEF UploadFails
    <2>2. faults' \in 0..MaxFaults
        BY <1>t, <1>10, FaultType DEF UploadFails
    <2> QED BY <1>t, <1>10, <2>1, <2>2 DEF UploadFails, TypeOK
<1>11. ASSUME NEW u \in Upload, NEW f \in FileId, NEW d \in Date, CreateReplyLost(u, f, d) PROVE TypeOK'
    <2>1. up' \in [Upload -> UploadJob]
        BY <1>11, <1>up, FailUpType DEF CreateReplyLost
    <2>2. faults' \in 0..MaxFaults
        BY <1>t, <1>11, FaultType DEF CreateReplyLost
    <2>3. sn' \in [FileId -> SnFile] /\ accepted' \in [FileId -> SUBSET Date]
        BY <1>t, <1>11, CreateType DEF CreateReplyLost
    <2> QED BY <1>t, <1>11, <2>1, <2>2, <2>3 DEF CreateReplyLost, TypeOK
<1>12. ASSUME NEW u \in Upload, ChunkReplyLost(u) PROVE TypeOK'
    <2>1. up' \in [Upload -> UploadJob]
        BY <1>12, <1>up, UpdateUpType DEF ChunkReplyLost, UpPc
    <2>2. faults' \in 0..MaxFaults
        BY <1>t, <1>12, FaultType DEF ChunkReplyLost
    <2>3. sn' \in [FileId -> SnFile]
        BY <1>t, <1>12, ChunkType DEF ChunkReplyLost
    <2> QED BY <1>t, <1>12, <2>1, <2>2, <2>3 DEF ChunkReplyLost, TypeOK
<1>13. ASSUME NEW u \in Upload, BackgroundJobStops(u) PROVE TypeOK'
    <2>1. up' \in [Upload -> UploadJob]
        BY <1>13, <1>up, UpdateUpType DEF BackgroundJobStops, UpPc
    <2>2. faults' \in 0..MaxFaults
      <3>1. Fault \/ UNCHANGED faults
        BY <1>13 DEF BackgroundJobStops
      <3> QED BY <1>t, <3>1, FaultType DEF TypeOK
    <2> QED BY <1>t, <1>13, <2>1, <2>2 DEF BackgroundJobStops, TypeOK
<1>14. ASSUME NEW f \in FileId, DdsAnswers(f) PROVE TypeOK'
    <2>1. sn' \in [FileId -> SnFile]
        BY <1>14, <1>sn DEF DdsAnswers, SnFile, SnState, AtDds
    <2> QED BY <1>t, <1>14, <2>1 DEF DdsAnswers, TypeOK
<1>15. ASSUME NEW f \in FileId, DeleteServiceNodeFile(f) PROVE TypeOK'
    <2>1. sn' \in [FileId -> SnFile]
        BY <1>15, <1>sn DEF DeleteServiceNodeFile, SnFile, SnState, AtDds
    <2> QED BY <1>t, <1>15, <2>1 DEF DeleteServiceNodeFile, TypeOK
<1>16. ASSUME NEW c \in Check, NEW f \in FileId, CheckStatus(c, f) PROVE TypeOK'
    <2>1. chk' \in [Check -> SaveJob]
      <3>1. StatusReply(f) \in ChkReply
        BY DEF StatusReply, ChkReply
      <3>2. CASE StatusReply(f) = "uploaded"
        <4>1. chk' = [chk EXCEPT ![c] = [chk[c] EXCEPT !.pc = "info",
                                         !.reply = "uploaded", !.file = f]]
            BY <1>16, <3>2 DEF CheckStatus
        <4>2. [chk[c] EXCEPT !.pc = "info", !.reply = "uploaded", !.file = f]
                \in SaveJob
            BY <1>chk DEF SaveJob, ChkPc, ChkReply
        <4> QED BY <1>chk, <4>1, <4>2, SaveJobChange
      <3>3. CASE StatusReply(f) # "uploaded"
        <4>1. chk' = [chk EXCEPT ![c] = [chk[c] EXCEPT !.reply = StatusReply(f)]]
            BY <1>16, <3>3 DEF CheckStatus
        <4>2. [chk[c] EXCEPT !.reply = StatusReply(f)] \in SaveJob
            BY <1>chk, <3>1 DEF SaveJob
        <4> QED BY <1>chk, <4>1, <4>2, SaveJobChange
      <3> QED BY <3>2, <3>3
    <2> QED BY <1>t, <1>16, <2>1 DEF CheckStatus, TypeOK
<1>17. ASSUME NEW c \in Check, GetFileInfo(c) PROVE TypeOK'
    <2>1. chk' \in [Check -> SaveJob]
      <3>1. chk[c].file \in FileId
        BY <1>17 DEF IInv, SaveJobInv, SaveJobOK, GetFileInfo
      <3>2. sn[chk[c].file].keepUntil \in Date \cup {Null}
        BY <1>sn, <3>1 DEF SnFile
      <3> DEFINE r == [chk[c] EXCEPT !.pc = "key",
                                     !.keepUntil = sn[chk[c].file].keepUntil]
      <3>3. chk' = [chk EXCEPT ![c] = r]
        BY <1>17 DEF GetFileInfo
      <3>4. r \in SaveJob
        BY <1>chk, <3>2 DEF SaveJob, ChkPc
      <3> QED BY <1>chk, <3>3, <3>4, SaveJobChange
    <2> QED BY <1>t, <1>17, <2>1 DEF GetFileInfo, TypeOK
<1>18. ASSUME NEW c \in Check, FindFileKey(c) PROVE TypeOK'
    <2>1. chk' \in [Check -> SaveJob]
      <3>1. PICK t \in temp :
                chk' = [chk EXCEPT ![c] = [chk[c] EXCEPT !.pc = "saveFile",
                                                         !.key = t.key]]
        BY <1>18 DEF FindFileKey
      <3>2. t.key \in Key
        BY <1>db DEF TempDoc
      <3>3. [chk[c] EXCEPT !.pc = "saveFile", !.key = t.key] \in SaveJob
        BY <1>chk, <3>2 DEF SaveJob, ChkPc
      <3> QED BY <1>chk, <3>1, <3>3, SaveJobChange
    <2> QED BY <1>t, <1>18, <2>1 DEF FindFileKey, TypeOK
<1>19. ASSUME NEW c \in Check, SaveJobStops(c) PROVE TypeOK'
    <2>1. chk' \in [Check -> SaveJob]
      <3>1. chk' = [chk EXCEPT ![c] = [chk[c] EXCEPT !.pc = "stopped"]]
        BY <1>19 DEF SaveJobStops
      <3>2. [chk[c] EXCEPT !.pc = "stopped"] \in SaveJob
        BY <1>chk DEF SaveJob, ChkPc
      <3> QED BY <1>chk, <3>1, <3>2, SaveJobChange
    <2>2. faults' \in 0..MaxFaults
      <3>1. Fault \/ UNCHANGED faults
        BY <1>19 DEF SaveJobStops
      <3> QED BY <1>t, <3>1, FaultType DEF TypeOK
    <2> QED BY <1>t, <1>19, <2>1, <2>2 DEF SaveJobStops, TypeOK
<1>20. ASSUME NEW c \in Check, SaveFile(c) PROVE TypeOK'
    <2>1. PICK i \in DocId \ UsedIds :
            /\ fileDb' = fileDb \cup {NewFile(c, i)}
            /\ chk' = [chk EXCEPT ![c] = [chk[c] EXCEPT !.pc = "saveOwner",
                                                        !.doc = NewFile(c, i)]]
        BY <1>20 DEF SaveFile
    <2>2. NewFile(c, i) \in FileDoc
        BY <1>20, NewFileType DEF SaveFile
    <2>3. chk' \in [Check -> SaveJob]
      <3>1. [chk[c] EXCEPT !.pc = "saveOwner", !.doc = NewFile(c, i)] \in SaveJob
        BY <1>chk, <2>2 DEF SaveJob, ChkPc
      <3> QED BY <1>chk, <2>1, <3>1, SaveJobChange
    <2>4. fileDb' \in SUBSET FileDoc
        BY <1>db, <2>1, <2>2
    <2> QED BY <1>t, <1>20, <2>3, <2>4 DEF SaveFile, TypeOK
<1>21. ASSUME NEW c \in Check, SaveDataOwner(c) PROVE TypeOK'
    <2>1. chk' \in [Check -> SaveJob]
      <3>1. chk' = [chk EXCEPT ![c] = [chk[c] EXCEPT !.pc = "saved"]]
        BY <1>21 DEF SaveDataOwner
      <3>2. [chk[c] EXCEPT !.pc = "saved"] \in SaveJob
        BY <1>chk DEF SaveJob, ChkPc
      <3> QED BY <1>chk, <3>1, <3>2, SaveJobChange
    <2>2. ownerDb' \in SUBSET OwnerDoc
      <3>1. chk[c].doc \in FileDoc
        BY <1>21, <1>chk DEF IInv, SaveJobInv, SaveJobOK, SaveDataOwner, SaveJob
      <3>2. \A i \in DocId : NewOwner(c, i) \in OwnerDoc
        BY <3>1 DEF NewOwner, OwnerDoc
      <3> QED BY <1>21, <1>db, <3>2 DEF SaveDataOwner
    <2> QED BY <1>t, <1>21, <2>1, <2>2 DEF SaveDataOwner, TypeOK
<1>22. ASSUME NEW e \in Extend, NEW f \in FileId, NEW d \in Date, BeginExtend(e, f, d) PROVE TypeOK'
    <2>1. ext' \in [Extend -> ExtendJob]
      <3>1. ext' = [ext EXCEPT ![e].pc = "find", ![e].file = f, ![e].date = d]
        BY <1>22 DEF BeginExtend
      <3>2. [ext[e] EXCEPT !.pc = "find", !.file = f, !.date = d] \in ExtendJob
        BY <1>ext DEF ExtendJob, ExtPc
      <3> QED BY <1>ext, <3>1, <3>2
    <2> QED BY <1>t, <1>22, <2>1 DEF BeginExtend, TypeOK
<1>23. ASSUME NEW e \in Extend, FindFile(e) PROVE TypeOK'
    <2>1. ext' \in [Extend -> ExtendJob]
        BY <1>23, <1>ext, <1>db DEF FindFile, UpdateExt, ExtendJob, ExtPc
    <2> QED BY <1>t, <1>23, <2>1 DEF FindFile, TypeOK
<1>24. ASSUME NEW e \in Extend, ServiceNodeExtends(e) PROVE TypeOK'
    <2>date. ext[e].date \in Date
        BY <1>24 DEF IInv, ExtendInv, ExtendOK, ServiceNodeExtends
    <2>1. ext' \in [Extend -> ExtendJob]
        BY <1>24, <1>ext, <1>db DEF ServiceNodeExtends, UpdateExt, ExtendJob, ExtPc
    <2>2. sn' \in [FileId -> SnFile]
        BY <1>24, <1>sn, <2>date DEF ServiceNodeExtends, SnFile
    <2>3. accepted' \in [FileId -> SUBSET Date]
        BY <1>24, <1>sn, <2>date DEF ServiceNodeExtends
    <2> QED BY <1>t, <1>24, <2>1, <2>2, <2>3 DEF ServiceNodeExtends, TypeOK
<1>25. ASSUME NEW e \in Extend, ExtendFails(e) PROVE TypeOK'
    <2>1. ext' \in [Extend -> ExtendJob]
        BY <1>25, <1>ext, <1>db DEF ExtendFails, UpdateExt, ExtendJob, ExtPc
    <2>2. faults' \in 0..MaxFaults
      <3>1. Fault \/ UNCHANGED faults
        BY <1>25 DEF ExtendFails
      <3> QED BY <1>t, <3>1, FaultType DEF TypeOK
    <2> QED BY <1>t, <1>25, <2>1, <2>2 DEF ExtendFails, TypeOK
<1>26. ASSUME NEW e \in Extend, NothingToUpdate(e) PROVE TypeOK'
    <2>1. ext' \in [Extend -> ExtendJob]
        BY <1>26, <1>ext, <1>db DEF NothingToUpdate, UpdateExt, ExtendJob, ExtPc
    <2> QED BY <1>t, <1>26, <2>1 DEF NothingToUpdate, TypeOK
<1>27. ASSUME NEW e \in Extend, FindDataOwner(e) PROVE TypeOK'
    <2>1. ext' \in [Extend -> ExtendJob]
        BY <1>27, <1>ext, <1>db DEF FindDataOwner, UpdateExt, ExtendJob, ExtPc
    <2> QED BY <1>t, <1>27, <2>1 DEF FindDataOwner, TypeOK
<1>28. ASSUME NEW e \in Extend, FindSavedFile(e) PROVE TypeOK'
    <2>1. ext' \in [Extend -> ExtendJob]
      <3>1. PICK cur \in fileDb :
                ext' = [ext EXCEPT ![e] = [ext[e] EXCEPT !.pc = "updateFile",
                                                         !.cur = cur]]
        BY <1>28 DEF FindSavedFile
      <3>2. cur \in FileDoc
        BY <1>db
      <3>3. [ext[e] EXCEPT !.pc = "updateFile", !.cur = cur] \in ExtendJob
        BY <1>ext, <3>2 DEF ExtendJob, ExtPc
      <3> QED BY <1>ext, <3>1, <3>3, ExtendJobChange
    <2> QED BY <1>t, <1>28, <2>1 DEF FindSavedFile, TypeOK
<1>29. ASSUME NEW e \in Extend, UpdateFile(e) PROVE TypeOK'
    <2>1. ext' \in [Extend -> ExtendJob]
        BY <1>29, <1>ext, <1>db DEF UpdateFile, UpdateExt, ExtendJob, ExtPc
    <2>2. fileDb' \in SUBSET FileDoc
      <3>1. ext[e].doc \in FileDoc
        BY <1>29, <1>ext DEF IInv, ExtendInv, ExtendOK, UpdateFile, ExtendJob, ExtUpdating
      <3> QED BY <1>29, <1>db, <3>1 DEF UpdateFile
    <2> QED BY <1>t, <1>29, <2>1, <2>2 DEF UpdateFile, TypeOK
<1>30. ASSUME NEW e \in Extend, SaveExtendedOwner(e) PROVE TypeOK'
    <2>1. ext' \in [Extend -> ExtendJob]
        BY <1>30, <1>ext, <1>db DEF SaveExtendedOwner, UpdateExt, ExtendJob, ExtPc
    <2>2. ownerDb' \in SUBSET OwnerDoc
      <3>1. ext[e].owner \in OwnerDoc
        BY <1>30, <1>ext DEF IInv, ExtendInv, ExtendOK, SaveExtendedOwner, ExtendJob, ExtUpdating
      <3> QED BY <1>30, <1>db, <3>1 DEF SaveExtendedOwner
    <2> QED BY <1>t, <1>30, <2>1, <2>2 DEF SaveExtendedOwner, TypeOK
<1>31. ASSUME Crash PROVE TypeOK'
    <2>1. up' \in [Upload -> UploadJob]
      <3>1. \A u \in Upload :
                /\ [up[u] EXCEPT !.pc = "stopped"] \in UploadJob
                /\ [up[u] EXCEPT !.pc = "error", !.reply = "error"] \in UploadJob
        BY <1>up DEF UploadJob, UpPc
      <3> QED BY <1>31, <1>up, <3>1 DEF Crash
    <2>2. chk' \in [Check -> SaveJob]
      <3>1. \A c \in Check : [chk[c] EXCEPT !.pc = "stopped"] \in SaveJob
        BY <1>chk DEF SaveJob, ChkPc
      <3> QED BY <1>31, <1>chk, <3>1 DEF Crash
    <2>3. ext' \in [Extend -> ExtendJob]
      <3>1. \A e \in Extend : /\ [ext[e] EXCEPT !.pc = "orphan"] \in ExtendJob
                             /\ [ext[e] EXCEPT !.pc = "error"] \in ExtendJob
        BY <1>ext DEF ExtendJob, ExtPc
      <3> QED BY <1>31, <1>ext, <3>1 DEF Crash
    <2>4. faults' \in 0..MaxFaults
        BY <1>t, <1>31, FaultType DEF Crash
    <2> QED BY <1>t, <1>31, <2>1, <2>2, <2>3, <2>4 DEF Crash, TypeOK
<1>32. CASE UNCHANGED vars
    BY <1>t, <1>32 DEF vars, TypeOK
<1> QED
    BY <1>1, <1>2, <1>3, <1>4, <1>5, <1>6, <1>7, <1>8, <1>9, <1>10, <1>11, <1>12, <1>13, <1>14, <1>15, <1>16, <1>17, <1>18, <1>19, <1>20, <1>21, <1>22, <1>23, <1>24, <1>25, <1>26, <1>27, <1>28, <1>29, <1>30, <1>31, <1>32 DEF Next, UploadStep, UploadFault, SaveJobStep, ExtendStep

\* A crash ends the active uploads and leaves their files and counters alone.
LEMMA CrashUp ==
    ASSUME IInv, Crash, NEW u \in Upload
    PROVE  /\ up'[u].file = up[u].file
           /\ up'[u].total = up[u].total
           /\ up'[u].sent = up[u].sent
           /\ up'[u].reply = "ok" <=> up[u].reply = "ok"
           /\ \/ up'[u].pc = up[u].pc /\ up[u].pc \notin UpActive
              \/ up'[u].pc = "stopped" /\ up[u].reply = "ok"
              \/ up'[u].pc = "error" /\ up[u].reply # "ok"
<1>1. up[u] \in UploadJob
    BY DEF IInv, TypeOK
<1>2. up'[u] = IF up[u].pc \notin UpActive THEN up[u]
               ELSE IF up[u].reply = "ok"
                 THEN [up[u] EXCEPT !.pc = "stopped"]
                 ELSE [up[u] EXCEPT !.pc = "error", !.reply = "error"]
    BY DEF Crash
<1> QED BY <1>1, <1>2 DEF UploadJob

\* A request owns the file it got from the service node.
LEMMA UploadStepInv == IInv /\ [Next]_vars => UploadInv'
<1> SUFFICES ASSUME IInv, [Next]_vars PROVE UploadInv'
    OBVIOUS
<1>up. up \in [Upload -> UploadJob]
    BY DEF IInv, TypeOK
<1>sn. sn \in [FileId -> SnFile]
    BY DEF IInv, TypeOK
<1>i. UploadInv
    BY DEF IInv
<1> USE NullAssumption DEF UploadInv, UploadJob, Keyed
<1>1. ASSUME UNCHANGED <<up, sn>> PROVE UploadInv'
    BY <1>1, <1>i
\* The files of the requests are kept, and none of them disappears.
<1>kept. ASSUME \A f \in FileId : sn'[f].state = "absent" => sn[f].state = "absent",
                \A u \in Upload :
                    /\ up'[u].file = up[u].file
                    /\ up'[u].pc \in {"idle", "encrypting", "creating"}
                         => up[u].pc \in {"idle", "encrypting", "creating"}
                    /\ up'[u].pc \in Keyed \cup {"created"}
                         => up[u].pc \in Keyed \cup {"created"}
                    /\ up'[u].reply = "ok" <=> up'[u].pc \in Keyed
         PROVE  UploadInv'
    <2>1. \A u \in Upload : up[u].file # Null => up[u].file \in FileId
        BY <1>up
    <2> QED BY <1>kept, <1>i, <2>1
<1>2. ASSUME NEW u \in Upload, NEW l \in LocalFile, ReadLocalFile(u, l)
      PROVE  UploadInv'
    BY <1>2, <1>i, <1>up DEF ReadLocalFile, FailUp
<1>3. ASSUME NEW u \in Upload, EncryptWithAes(u) PROVE UploadInv'
    <2>1. /\ up' = [up EXCEPT ![u].pc = "creating"] /\ up[u].pc = "encrypting"
          /\ UNCHANGED sn
        BY <1>3 DEF EncryptWithAes, UpdateUp
    <2> QED BY <1>i, <1>up, <1>kept, <2>1
<1>4. ASSUME NEW u \in Upload, NEW f \in FileId, NEW d \in Date,
             CreateAtServiceNode(u, f, d)
      PROVE  UploadInv'
    <2>1. /\ up' = [up EXCEPT ![u].pc = "created", ![u].file = f]
          /\ up[u].pc = "creating" /\ sn[f].state = "absent"
          /\ sn' = [sn EXCEPT ![f].state = "created", ![f].copy = TRUE,
                              ![f].keepUntil = d]
        BY <1>4 DEF CreateAtServiceNode
    <2>2. \A g \in FileId : sn'[g].state = "absent" => sn[g].state = "absent" /\ g # f
        BY <1>sn, <2>1 DEF SnFile
    <2>3. /\ \A v \in Upload \ {u} : up'[v] = up[v] /\ up[v].file # f
          /\ up'[u].pc = "created" /\ up'[u].file = f
          /\ up'[u].reply = up[u].reply
        BY <1>i, <1>up, <2>1
    <2>4. \A v \in Upload : up[v].file # Null => up[v].file \in FileId
        BY <1>up
    <2>5. up[u].reply # "ok"
        BY <1>i, <2>1
    <2> QED BY <1>i, <2>2, <2>3, <2>4, <2>5
<1>5. ASSUME NEW u \in Upload, SaveTemporaryFile(u) PROVE UploadInv'
    <2>1. /\ up' = [up EXCEPT ![u].pc = "sending", ![u].reply = "ok"]
          /\ up[u].pc = "created" /\ UNCHANGED sn
        BY <1>5 DEF SaveTemporaryFile
    <2>2. \A v \in Upload :
            /\ up'[v].file = up[v].file
            /\ IF v = u THEN up'[v].pc = "sending" /\ up'[v].reply = "ok"
                        ELSE up'[v].pc = up[v].pc /\ up'[v].reply = up[v].reply
        BY <1>up, <2>1
    <2>3. \A v \in Upload :
            /\ up'[v].file = up[v].file
            /\ up'[v].pc \in {"idle", "encrypting", "creating"}
                 => up[v].pc \in {"idle", "encrypting", "creating"}
            /\ up'[v].pc \in Keyed \cup {"created"}
                 => up[v].pc \in Keyed \cup {"created"}
            /\ up'[v].reply = "ok" <=> up'[v].pc \in Keyed
        BY <1>i, <2>1, <2>2
    <2> HIDE DEF UploadInv, Keyed
    <2> QED BY <1>kept, <2>1, <2>3
<1>6. ASSUME NEW u \in Upload, UploadFails(u) PROVE UploadInv'
    <2>1. /\ up' = [up EXCEPT ![u].pc = "error", ![u].reply = "error"]
          /\ up[u].pc \in {"encrypting", "creating"} /\ UNCHANGED sn
        BY <1>6 DEF UploadFails, FailUp
    <2> QED BY <1>i, <1>up, <2>1
<1>7. ASSUME NEW u \in Upload, NEW f \in FileId, NEW d \in Date,
             CreateReplyLost(u, f, d)
      PROVE  UploadInv'
    <2>1. /\ up' = [up EXCEPT ![u].pc = "error", ![u].reply = "error"]
          /\ up[u].pc = "creating"
        BY <1>7 DEF CreateReplyLost, FailUp
    <2>2. sn' = [sn EXCEPT ![f].state = "created", ![f].copy = TRUE,
                           ![f].keepUntil = d]
        BY <1>7 DEF CreateReplyLost
    <2>3. \A g \in FileId : sn'[g].state = "absent" => sn[g].state = "absent"
        BY <2>2, <1>sn DEF SnFile
    <2>4. \A v \in Upload :
            /\ up'[v].file = up[v].file
            /\ IF v = u THEN up'[v].pc = "error" /\ up'[v].reply = "error"
                        ELSE up'[v].pc = up[v].pc /\ up'[v].reply = up[v].reply
        BY <1>up, <2>1
    <2> QED BY <1>i, <1>kept, <2>3, <2>4
<1>8. ASSUME NEW u \in Upload, SendChunk(u) PROVE UploadInv'
    <2>1. \A f \in FileId : sn'[f].state = sn[f].state
        BY <1>8, <1>sn DEF SendChunk, SnFile
    <2>2. \A v \in Upload : /\ up'[v].file = up[v].file
                            /\ up'[v].pc = up[v].pc /\ up'[v].reply = up[v].reply
        BY <1>8, <1>up DEF SendChunk
    <2> QED BY <1>i, <1>kept, <2>1, <2>2
<1>9. ASSUME NEW u \in Upload, ChunkReplyLost(u) PROVE UploadInv'
    <2>1. \A f \in FileId : sn'[f].state = sn[f].state
        BY <1>9, <1>sn DEF ChunkReplyLost, SnFile
    <2>2. up' = [up EXCEPT ![u].pc = "stopped"] /\ up[u].pc = "sending"
        BY <1>9 DEF ChunkReplyLost, UpdateUp
    <2> QED BY <1>i, <1>up, <1>kept, <2>1, <2>2
<1>10. ASSUME NEW u \in Upload, AllChunksSent(u) PROVE UploadInv'
    BY <1>10, <1>i, <1>up DEF AllChunksSent, UpdateUp
<1>11. ASSUME NEW u \in Upload, BackgroundJobStops(u) PROVE UploadInv'
    BY <1>11, <1>i, <1>up DEF BackgroundJobStops, UpdateUp
<1>12. ASSUME NEW u \in Upload, UploadFileToDds(u) PROVE UploadInv'
    BY <1>12, <1>i, <1>up, <1>sn DEF UploadFileToDds, UpdateUp, SnFile
<1>13. ASSUME NEW f \in FileId, DdsAnswers(f) PROVE UploadInv'
    BY <1>13, <1>i, <1>up, <1>sn DEF DdsAnswers, SnFile
<1>14. ASSUME NEW f \in FileId, DeleteServiceNodeFile(f) PROVE UploadInv'
    BY <1>14, <1>i, <1>up, <1>sn DEF DeleteServiceNodeFile, SnFile
<1>15. ASSUME NEW e \in Extend, ServiceNodeExtends(e) PROVE UploadInv'
    BY <1>15, <1>i, <1>up, <1>sn DEF ServiceNodeExtends, SnFile
<1>16. ASSUME Crash PROVE UploadInv'
    <2>1. sn' = sn
        BY <1>16 DEF Crash
    <2>2. \A u \in Upload :
            /\ up'[u].file = up[u].file
            /\ up'[u].reply = "ok" <=> up[u].reply = "ok"
            /\ \/ up'[u].pc = up[u].pc
               \/ up'[u].pc = "stopped" /\ up[u].reply = "ok"
               \/ up'[u].pc = "error" /\ up[u].reply # "ok"
        BY <1>16, CrashUp
    <2> QED BY <1>i, <1>up, <2>1, <2>2
<1>17. ASSUME NEW l \in LocalFile, CreateLocalFile(l) \/ UploadLocalFileChunk(l)
       PROVE  UNCHANGED <<up, sn>>
    BY <1>17 DEF CreateLocalFile, UploadLocalFileChunk
<1>18. ASSUME NEW c \in Check, NEW f \in FileId, CheckStatus(c, f)
       PROVE  UNCHANGED <<up, sn>>
    BY <1>18 DEF CheckStatus
<1>19. ASSUME NEW c \in Check, SaveJobStep(c) PROVE UNCHANGED <<up, sn>>
    BY <1>19 DEF SaveJobStep, GetFileInfo, FindFileKey, SaveJobStops, SaveFile,
                 SaveDataOwner
<1>20. ASSUME NEW e \in Extend, NEW f \in FileId, NEW d \in Date,
              BeginExtend(e, f, d)
       PROVE  UNCHANGED <<up, sn>>
    BY <1>20 DEF BeginExtend
<1>21. ASSUME NEW e \in Extend, ExtendStep(e), ~ServiceNodeExtends(e)
       PROVE  UNCHANGED <<up, sn>>
    BY <1>21 DEF ExtendStep, FindFile, ExtendFails, NothingToUpdate,
                 FindDataOwner, FindSavedFile, UpdateFile, SaveExtendedOwner
<1>22. CASE UNCHANGED vars
    BY <1>22, <1>1 DEF vars
<1> QED
    BY <1>1, <1>2, <1>3, <1>4, <1>5, <1>6, <1>7, <1>8, <1>9, <1>10, <1>11,
       <1>12, <1>13, <1>14, <1>15, <1>16, <1>17, <1>18, <1>19, <1>20, <1>21,
       <1>22 DEF Next, UploadStep, UploadFault

\* A key is in the store exactly for the requests that stored one.
LEMMA TempStepInv == IInv /\ [Next]_vars => TempInv'
<1> SUFFICES ASSUME IInv, [Next]_vars PROVE TempInv'
    OBVIOUS
<1>up. up \in [Upload -> UploadJob]
    BY DEF IInv, TypeOK
<1>db. temp \in SUBSET TempDoc
    BY DEF IInv, TypeOK
<1>i. TempInv /\ UploadInv
    BY DEF IInv
<1> USE DEF TempInv, UploadJob, Keyed, TempDoc, Key
<1>1. ASSUME UNCHANGED <<up, temp>> PROVE TempInv'
    BY <1>1, <1>i
<1>2. ASSUME NEW u \in Upload, NEW l \in LocalFile, ReadLocalFile(u, l)
      PROVE  TempInv'
    BY <1>2, <1>i, <1>up, <1>db DEF ReadLocalFile, FailUp
<1>3. ASSUME NEW u \in Upload, EncryptWithAes(u) PROVE TempInv'
    BY <1>3, <1>i, <1>up, <1>db DEF EncryptWithAes, UpdateUp
<1>4. ASSUME NEW u \in Upload, NEW f \in FileId, NEW d \in Date,
             CreateAtServiceNode(u, f, d)
      PROVE  TempInv'
    BY <1>4, <1>i, <1>up, <1>db DEF CreateAtServiceNode
<1>5. ASSUME NEW u \in Upload, SaveTemporaryFile(u) PROVE TempInv'
    BY <1>5, <1>i, <1>up, <1>db DEF SaveTemporaryFile
<1>6. ASSUME NEW u \in Upload, UploadFails(u) PROVE TempInv'
    BY <1>6, <1>i, <1>up, <1>db DEF UploadFails, FailUp
<1>7. ASSUME NEW u \in Upload, NEW f \in FileId, NEW d \in Date,
             CreateReplyLost(u, f, d)
      PROVE  TempInv'
    BY <1>7, <1>i, <1>up, <1>db DEF CreateReplyLost, FailUp
<1>8. ASSUME NEW u \in Upload, SendChunk(u) PROVE TempInv'
    BY <1>8, <1>i, <1>up, <1>db DEF SendChunk
<1>9. ASSUME NEW u \in Upload, ChunkReplyLost(u) PROVE TempInv'
    BY <1>9, <1>i, <1>up, <1>db DEF ChunkReplyLost, UpdateUp
<1>10. ASSUME NEW u \in Upload, AllChunksSent(u) PROVE TempInv'
    BY <1>10, <1>i, <1>up, <1>db DEF AllChunksSent, UpdateUp
<1>11. ASSUME NEW u \in Upload, BackgroundJobStops(u) PROVE TempInv'
    BY <1>11, <1>i, <1>up, <1>db DEF BackgroundJobStops, UpdateUp
<1>12. ASSUME NEW u \in Upload, UploadFileToDds(u) PROVE TempInv'
    BY <1>12, <1>i, <1>up, <1>db DEF UploadFileToDds, UpdateUp
<1>13. ASSUME Crash PROVE TempInv'
    <2>1. temp' = temp
        BY <1>13 DEF Crash
    <2>2. \A u \in Upload :
            /\ up'[u].file = up[u].file
            /\ up'[u].pc \in Keyed <=> up[u].pc \in Keyed
        BY <1>13, <1>i, CrashUp DEF UploadInv
    <2> QED BY <1>i, <1>up, <1>db, <2>1, <2>2
<1>14. ASSUME NEW l \in LocalFile, CreateLocalFile(l) \/ UploadLocalFileChunk(l)
       PROVE  UNCHANGED <<up, temp>>
    BY <1>14 DEF CreateLocalFile, UploadLocalFileChunk
<1>15. ASSUME NEW f \in FileId, DdsAnswers(f) \/ DeleteServiceNodeFile(f)
       PROVE  UNCHANGED <<up, temp>>
    BY <1>15 DEF DdsAnswers, DeleteServiceNodeFile
<1>16. ASSUME NEW c \in Check, NEW f \in FileId, CheckStatus(c, f)
       PROVE  UNCHANGED <<up, temp>>
    BY <1>16 DEF CheckStatus
<1>17. ASSUME NEW c \in Check, SaveJobStep(c) PROVE UNCHANGED <<up, temp>>
    BY <1>17 DEF SaveJobStep, GetFileInfo, FindFileKey, SaveJobStops, SaveFile,
                 SaveDataOwner
<1>18. ASSUME NEW e \in Extend, NEW f \in FileId, NEW d \in Date,
              BeginExtend(e, f, d)
       PROVE  UNCHANGED <<up, temp>>
    BY <1>18 DEF BeginExtend
<1>19. ASSUME NEW e \in Extend, ExtendStep(e) PROVE UNCHANGED <<up, temp>>
    BY <1>19 DEF ExtendStep, FindFile, ServiceNodeExtends, ExtendFails,
                 NothingToUpdate, FindDataOwner, FindSavedFile, UpdateFile,
                 SaveExtendedOwner
<1>20. CASE UNCHANGED vars
    BY <1>20, <1>1 DEF vars
<1> QED
    BY <1>1, <1>2, <1>3, <1>4, <1>5, <1>6, <1>7, <1>8, <1>9, <1>10, <1>11,
       <1>12, <1>13, <1>14, <1>15, <1>16, <1>17, <1>18, <1>19, <1>20
    DEF Next, UploadStep, UploadFault

\* What the service node holds came from the request that created the file.
LEMMA ContentStepInv == IInv /\ [Next]_vars => ContentInv'
<1> SUFFICES ASSUME IInv, [Next]_vars PROVE ContentInv'
    OBVIOUS
<1>up. up \in [Upload -> UploadJob]
    BY DEF IInv, TypeOK
<1>sn. sn \in [FileId -> SnFile] /\ accepted \in [FileId -> SUBSET Date]
    BY DEF IInv, TypeOK
<1>i. UploadInv /\ ContentInv
    BY DEF IInv
<1> USE NullAssumption DEF ContentInv, UploadJob, SnFile, Keyed, Key, AtDds
<1>1. ASSUME UNCHANGED <<up, sn, accepted>> PROVE ContentInv'
    BY <1>1, <1>i
\* The contents of the files are kept, and those at DDS were at DDS.
<1>kept. ASSUME UNCHANGED up,
                \A f \in FileId :
                    /\ sn'[f].keys = sn[f].keys /\ sn'[f].chunks = sn[f].chunks
                    /\ sn'[f].state = "absent" <=> sn[f].state = "absent"
                    /\ sn'[f].state \in AtDds => sn[f].state \in AtDds
                    /\ \/ /\ sn'[f].keepUntil = sn[f].keepUntil
                          /\ accepted'[f] = accepted[f]
                       \/ sn'[f].keepUntil \in accepted'[f]
         PROVE  ContentInv'
    <2>1. \A u \in Upload : up[u].file # Null => up[u].file \in FileId
        BY <1>up
    <2> QED BY <1>i, <1>kept, <2>1
\* The service node is not called, and a request goes on before its chunks.
<1>calm. ASSUME UNCHANGED <<sn, accepted>>, NEW u \in Upload,
                \A v \in Upload : v # u => up'[v] = up[v],
                up'[u].file = up[u].file, up'[u].sent = up[u].sent,
                \/ /\ up[u].pc \in {"idle", "encrypting", "creating"}
                   /\ up'[u].pc \in {"encrypting", "creating", "error"}
                \/ up[u].pc = "created" /\ up'[u].pc = "sending"
         PROVE  ContentInv'
    <2>1. up[u].pc = "created" \/ up[u].file = Null
        BY <1>calm, <1>i DEF UploadInv
    <2>2. /\ up'[u].file = up[u].file /\ up'[u].sent = up[u].sent
          /\ sn' = sn /\ accepted' = accepted
        BY <1>calm
    <2>3. up[u].pc \notin Keyed
        BY <1>calm
    <2>4. \A f \in FileId :
            /\ \A k \in sn'[f].keys : up'[k].file = f /\ up'[k].pc \in Keyed
            /\ sn'[f].state = "absent" => sn'[f].chunks = 0
            /\ sn'[f].state # "absent" => sn'[f].keepUntil \in accepted'[f]
        BY <1>calm, <2>2, <2>3, <1>i, <1>sn
    <2>5. ASSUME NEW v \in Upload, v # u, up'[v].file # Null
          PROVE  /\ up'[v].pc = "created" => sn'[up'[v].file].chunks = 0
                 /\ up'[v].pc = "sending"
                      => sn'[up'[v].file].chunks = up'[v].sent
                 /\ up'[v].pc \in {"signing", "done"}
                      => sn'[up'[v].file].chunks = up'[v].total
                 /\ sn'[up'[v].file].state \in AtDds => up'[v].pc = "done"
        BY <1>calm, <2>5, <1>i
    <2>6. ASSUME up'[u].file # Null
          PROVE  /\ up'[u].pc = "sending"
                 /\ sn'[up'[u].file].chunks = up'[u].sent
                 /\ sn'[up'[u].file].state \notin AtDds
        <3>1. up[u].pc = "created" /\ up'[u].pc = "sending"
            BY <1>calm, <2>1, <2>2, <2>6
        <3>2. up[u].sent = 0 /\ sn[up[u].file].chunks = 0
            BY <2>2, <2>6, <3>1, <1>i
        <3>3. sn[up[u].file].state \notin AtDds
            BY <2>2, <2>6, <3>1, <1>i
        <3> QED BY <2>2, <3>1, <3>2, <3>3
    <2>7. \A v \in Upload :
            up'[v].pc \in {"idle", "encrypting", "creating", "created"}
                => up'[v].sent = 0
        BY <1>calm, <1>i
    <2> QED BY <2>4, <2>5, <2>6, <2>7
<1>2. ASSUME NEW u \in Upload, NEW l \in LocalFile, ReadLocalFile(u, l)
      PROVE  ContentInv'
    <2>1. up' = [up EXCEPT ![u].pc = "error", ![u].reply = "error"]
            \/ up' = [up EXCEPT ![u].pc = "encrypting", ![u].total = local[l]]
        BY <1>2 DEF ReadLocalFile, FailUp
    <2>2. up[u].pc = "idle" /\ UNCHANGED <<sn, accepted>>
        BY <1>2 DEF ReadLocalFile
    <2>3. /\ \A v \in Upload : v # u => up'[v] = up[v]
          /\ up'[u].file = up[u].file /\ up'[u].sent = up[u].sent
          /\ up'[u].pc \in {"encrypting", "error"}
        BY <1>up, <2>1
    <2> QED BY <1>calm, <2>2, <2>3
<1>3. ASSUME NEW u \in Upload, EncryptWithAes(u) PROVE ContentInv'
    <2>1. /\ up' = [up EXCEPT ![u].pc = "creating"] /\ up[u].pc = "encrypting"
          /\ UNCHANGED <<sn, accepted>>
        BY <1>3 DEF EncryptWithAes, UpdateUp
    <2>2. /\ \A v \in Upload : v # u => up'[v] = up[v]
          /\ up'[u].file = up[u].file /\ up'[u].sent = up[u].sent
          /\ up'[u].pc = "creating"
        BY <1>up, <2>1
    <2> QED BY <1>calm, <2>1, <2>2
\* The service node creates the file of a request, which may not learn of it.
<1>create. ASSUME NEW u \in Upload, NEW f \in FileId, NEW d \in Date,
                  up[u].pc = "creating", sn[f].state = "absent",
                  sn' = [sn EXCEPT ![f].state = "created", ![f].copy = TRUE,
                                   ![f].keepUntil = d],
                  accepted' = [accepted EXCEPT ![f] = @ \cup {d}],
                  \A v \in Upload : v # u => up'[v] = up[v],
                  up'[u].sent = up[u].sent,
                  \/ up'[u].pc = "created" /\ up'[u].file = f
                  \/ up'[u].pc = "error" /\ up'[u].file = Null
           PROVE  ContentInv'
    <2>0. /\ \A v \in Upload : v # u => up'[v] = up[v]
          /\ up[u].pc = "creating" /\ up'[u].sent = up[u].sent
          /\ \/ up'[u].pc = "created" /\ up'[u].file = f
             \/ up'[u].pc = "error" /\ up'[u].file = Null
        BY <1>create
    <2>1. /\ \A g \in FileId : sn'[g].keys = sn[g].keys /\ sn'[g].chunks = sn[g].chunks
          /\ \A g \in FileId \ {f} : sn'[g] = sn[g] /\ accepted'[g] = accepted[g]
          /\ sn'[f].state = "created"
        BY <1>sn, <1>create
    <2>2. sn'[f].keepUntil \in accepted'[f]
        BY <1>sn, <1>create
    <2>3. \A v \in Upload : up[v].file # Null => up[v].file \in FileId \ {f}
        BY <1>up, <1>create, <1>i DEF UploadInv
    <2>4. ASSUME NEW g \in FileId, NEW k \in sn'[g].keys
          PROVE  up'[k].file = g /\ up'[k].pc \in Keyed
        <3>1. k \in Upload /\ up[k].file = g /\ up[k].pc \in Keyed
            BY <1>sn, <1>i, <2>1, <2>4
        <3>2. k # u
            BY <2>0, <3>1
        <3> QED BY <2>0, <3>1, <3>2
    <2>5. ASSUME NEW g \in FileId
          PROVE  /\ sn'[g].state = "absent" => sn'[g].chunks = 0
                 /\ sn'[g].state # "absent" => sn'[g].keepUntil \in accepted'[g]
        BY <1>i, <2>1, <2>2
    <2>6. ASSUME NEW v \in Upload, v # u, up'[v].file # Null
          PROVE  /\ up'[v].pc = "created" => sn'[up'[v].file].chunks = 0
                 /\ up'[v].pc = "sending"
                      => sn'[up'[v].file].chunks = up'[v].sent
                 /\ up'[v].pc \in {"signing", "done"}
                      => sn'[up'[v].file].chunks = up'[v].total
                 /\ sn'[up'[v].file].state \in AtDds => up'[v].pc = "done"
        <3>1. up'[v] = up[v] /\ sn'[up[v].file] = sn[up[v].file]
            BY <2>0, <2>1, <2>3, <2>6
        <3> QED BY <1>i, <2>6, <3>1
    <2>7. up'[u].file # Null => /\ up'[u].pc = "created"
                               /\ sn'[up'[u].file].chunks = 0
                               /\ sn'[up'[u].file].state \notin AtDds
        <3>1. sn[f].chunks = 0
            BY <1>create, <1>i
        <3>2. sn'[f].chunks = 0 /\ sn'[f].state \notin AtDds
            BY <2>1, <3>1
        <3> QED BY <2>0, <3>2
    <2>8. ASSUME NEW v \in Upload,
                 up'[v].pc \in {"idle", "encrypting", "creating", "created"}
          PROVE  up'[v].sent = 0
        BY <2>0, <1>i, <2>8
    <2> QED BY <2>4, <2>5, <2>6, <2>7, <2>8
<1>4. ASSUME NEW u \in Upload, NEW f \in FileId, NEW d \in Date,
             CreateAtServiceNode(u, f, d)
      PROVE  ContentInv'
    <2>1. /\ up[u].pc = "creating" /\ sn[f].state = "absent"
          /\ sn' = [sn EXCEPT ![f].state = "created", ![f].copy = TRUE,
                              ![f].keepUntil = d]
          /\ accepted' = [accepted EXCEPT ![f] = @ \cup {d}]
          /\ up' = [up EXCEPT ![u].pc = "created", ![u].file = f]
        BY <1>4 DEF CreateAtServiceNode
    <2>2. /\ \A v \in Upload : v # u => up'[v] = up[v]
          /\ up'[u].sent = up[u].sent
          /\ up'[u].pc = "created" /\ up'[u].file = f
        BY <1>up, <2>1
    <2> QED BY <1>create, <2>1, <2>2
<1>5. ASSUME NEW u \in Upload, SaveTemporaryFile(u) PROVE ContentInv'
    <2>1. /\ up' = [up EXCEPT ![u].pc = "sending", ![u].reply = "ok"]
          /\ up[u].pc = "created" /\ UNCHANGED <<sn, accepted>>
        BY <1>5 DEF SaveTemporaryFile
    <2>2. /\ \A v \in Upload : v # u => up'[v] = up[v]
          /\ up'[u].file = up[u].file /\ up'[u].sent = up[u].sent
          /\ up'[u].pc = "sending"
        BY <1>up, <2>1
    <2> QED BY <1>calm, <2>1, <2>2
<1>6. ASSUME NEW u \in Upload, UploadFails(u) PROVE ContentInv'
    <2>1. /\ up' = [up EXCEPT ![u].pc = "error", ![u].reply = "error"]
          /\ up[u].pc \in {"encrypting", "creating"}
          /\ UNCHANGED <<sn, accepted>>
        BY <1>6 DEF UploadFails, FailUp
    <2>2. /\ \A v \in Upload : v # u => up'[v] = up[v]
          /\ up'[u].file = up[u].file /\ up'[u].sent = up[u].sent
          /\ up'[u].pc = "error"
        BY <1>up, <2>1
    <2> QED BY <1>calm, <2>1, <2>2
<1>7. ASSUME NEW u \in Upload, NEW f \in FileId, NEW d \in Date,
             CreateReplyLost(u, f, d)
      PROVE  ContentInv'
    <2>1. /\ up' = [up EXCEPT ![u].pc = "error", ![u].reply = "error"]
          /\ up[u].pc = "creating" /\ sn[f].state = "absent"
          /\ sn' = [sn EXCEPT ![f].state = "created", ![f].copy = TRUE,
                              ![f].keepUntil = d]
          /\ accepted' = [accepted EXCEPT ![f] = @ \cup {d}]
        BY <1>7 DEF CreateReplyLost, FailUp
    <2>2. up[u].file = Null
        BY <1>up, <1>i, <2>1 DEF UploadInv
    <2>3. /\ \A v \in Upload : v # u => up'[v] = up[v]
          /\ up'[u].sent = up[u].sent
          /\ up'[u].pc = "error" /\ up'[u].file = Null
        BY <1>up, <2>1, <2>2
    <2> QED BY <1>create, <2>1, <2>3
<1>8. ASSUME NEW u \in Upload, SendChunk(u) PROVE ContentInv'
    <2> DEFINE g == up[u].file
    <2>1. g \in FileId /\ up[u].pc = "sending" /\ sn[g].chunks = up[u].sent
      <3>1. up[u].pc = "sending"
        BY <1>8 DEF SendChunk
      <3>2. g \in FileId
        BY <1>i, <3>1 DEF UploadInv
      <3> QED BY <1>i, <3>1, <3>2
    <2>2. sn' = [sn EXCEPT ![g].chunks = @ + 1, ![g].keys = @ \cup {u}]
        BY <1>8 DEF SendChunk
    <2>3. up' = [up EXCEPT ![u].sent = @ + 1] /\ accepted' = accepted
        BY <1>8 DEF SendChunk
    <2>4. \A f \in FileId :
            /\ sn'[f].state = sn[f].state /\ sn'[f].keepUntil = sn[f].keepUntil
            /\ f # g => sn'[f] = sn[f]
            /\ sn'[g].chunks = sn[g].chunks + 1
            /\ sn'[g].keys = sn[g].keys \cup {u}
        BY <2>1, <2>2, <1>sn
    <2>5. \A v \in Upload : up'[v].file = up[v].file /\ (v # u => up'[v] = up[v])
        BY <2>3, <1>up
    <2>6. up'[u].pc = "sending" /\ up'[u].sent = up[u].sent + 1
        BY <2>1, <2>3, <1>up
    <2>7. \A v \in Upload : v # u /\ up[v].file # Null => up[v].file # g
        BY <2>1, <1>i DEF UploadInv
    <2>8. \A v \in Upload : up[v].file # Null => up[v].file \in FileId
        BY <1>up
    <2>k. ASSUME NEW f \in FileId, NEW k \in sn'[f].keys
          PROVE  up'[k].file = f /\ up'[k].pc \in Keyed
        <3>1. CASE k = u
            BY <2>1, <2>4, <2>5, <2>6, <2>k, <3>1, <1>i, <1>sn
        <3>2. CASE k # u
            <4>1. k \in sn[f].keys
                BY <2>4, <2>k, <3>2
            <4> QED BY <2>5, <3>2, <4>1, <1>i, <1>sn
        <3> QED BY <3>1, <3>2
    <2>s. sn[g].state # "absent" /\ accepted' = accepted
        BY <2>1, <2>3, <1>i DEF UploadInv
    <2>9. \A f \in FileId :
            /\ \A k \in sn'[f].keys : up'[k].file = f /\ up'[k].pc \in Keyed
            /\ sn'[f].state = "absent" => sn'[f].chunks = 0
            /\ sn'[f].state # "absent" => sn'[f].keepUntil \in accepted'[f]
        BY <2>k, <2>s, <2>4, <1>i
    <2>10. \A v \in Upload : up'[v].file # Null =>
            /\ up'[v].pc = "created" => sn'[up'[v].file].chunks = 0
            /\ up'[v].pc = "sending" => sn'[up'[v].file].chunks = up'[v].sent
            /\ up'[v].pc \in {"signing", "done"}
                 => sn'[up'[v].file].chunks = up'[v].total
            /\ sn'[up'[v].file].state \in AtDds => up'[v].pc = "done"
        <3> SUFFICES ASSUME NEW v \in Upload, up'[v].file # Null
                     PROVE  /\ up'[v].pc = "created" => sn'[up'[v].file].chunks = 0
                            /\ up'[v].pc = "sending"
                                 => sn'[up'[v].file].chunks = up'[v].sent
                            /\ up'[v].pc \in {"signing", "done"}
                                 => sn'[up'[v].file].chunks = up'[v].total
                            /\ sn'[up'[v].file].state \in AtDds
                                 => up'[v].pc = "done"
            OBVIOUS
        <3>1. CASE v = u
            BY <3>1, <2>1, <2>4, <2>5, <2>6, <1>i, <1>up
        <3>2. CASE v # u
            BY <3>2, <2>4, <2>5, <2>7, <2>8, <1>i
        <3> QED BY <3>1, <3>2
    <2>11. \A v \in Upload :
            up'[v].pc \in {"idle", "encrypting", "creating", "created"}
                => up'[v].sent = 0
        BY <2>5, <2>6, <1>i
    <2> QED BY <2>9, <2>10, <2>11
<1>9. ASSUME NEW u \in Upload, ChunkReplyLost(u) PROVE ContentInv'
    <2> DEFINE g == up[u].file
    <2>1. g \in FileId /\ up[u].pc = "sending" /\ sn[g].chunks = up[u].sent
      <3>1. up[u].pc = "sending"
        BY <1>9 DEF ChunkReplyLost
      <3>2. g \in FileId
        BY <1>i, <3>1 DEF UploadInv
      <3> QED BY <1>i, <3>1, <3>2
    <2>2. sn' = [sn EXCEPT ![g].chunks = @ + 1, ![g].keys = @ \cup {u}]
        BY <1>9 DEF ChunkReplyLost
    <2>3. up' = [up EXCEPT ![u].pc = "stopped"] /\ accepted' = accepted
        BY <1>9 DEF ChunkReplyLost, UpdateUp
    <2>4. \A f \in FileId :
            /\ sn'[f].state = sn[f].state /\ sn'[f].keepUntil = sn[f].keepUntil
            /\ f # g => sn'[f] = sn[f]
            /\ sn'[g].chunks = sn[g].chunks + 1
            /\ sn'[g].keys = sn[g].keys \cup {u}
        BY <2>1, <2>2, <1>sn
    <2>5. \A v \in Upload : up'[v].file = up[v].file /\ (v # u => up'[v] = up[v])
        BY <2>3, <1>up
    <2>6. up'[u].pc = "stopped"
        BY <2>1, <2>3, <1>up
    <2>7. \A v \in Upload : v # u /\ up[v].file # Null => up[v].file # g
        BY <2>1, <1>i DEF UploadInv
    <2>8. \A v \in Upload : up[v].file # Null => up[v].file \in FileId
        BY <1>up
    <2>k. ASSUME NEW f \in FileId, NEW k \in sn'[f].keys
          PROVE  up'[k].file = f /\ up'[k].pc \in Keyed
        <3>1. CASE k = u
            BY <2>1, <2>4, <2>5, <2>6, <2>k, <3>1, <1>i, <1>sn
        <3>2. CASE k # u
            <4>1. k \in sn[f].keys
                BY <2>4, <2>k, <3>2
            <4> QED BY <2>5, <3>2, <4>1, <1>i, <1>sn
        <3> QED BY <3>1, <3>2
    <2>s. sn[g].state # "absent" /\ accepted' = accepted
        BY <2>1, <2>3, <1>i DEF UploadInv
    <2>9. \A f \in FileId :
            /\ \A k \in sn'[f].keys : up'[k].file = f /\ up'[k].pc \in Keyed
            /\ sn'[f].state = "absent" => sn'[f].chunks = 0
            /\ sn'[f].state # "absent" => sn'[f].keepUntil \in accepted'[f]
        BY <2>k, <2>s, <2>4, <1>i
    <2>10. \A v \in Upload : up'[v].file # Null =>
            /\ up'[v].pc = "created" => sn'[up'[v].file].chunks = 0
            /\ up'[v].pc = "sending" => sn'[up'[v].file].chunks = up'[v].sent
            /\ up'[v].pc \in {"signing", "done"}
                 => sn'[up'[v].file].chunks = up'[v].total
            /\ sn'[up'[v].file].state \in AtDds => up'[v].pc = "done"
        <3> SUFFICES ASSUME NEW v \in Upload, up'[v].file # Null
                     PROVE  /\ up'[v].pc = "created" => sn'[up'[v].file].chunks = 0
                            /\ up'[v].pc = "sending"
                                 => sn'[up'[v].file].chunks = up'[v].sent
                            /\ up'[v].pc \in {"signing", "done"}
                                 => sn'[up'[v].file].chunks = up'[v].total
                            /\ sn'[up'[v].file].state \in AtDds
                                 => up'[v].pc = "done"
            OBVIOUS
        <3>1. CASE v = u
            BY <3>1, <2>1, <2>4, <2>5, <2>6, <1>i, <1>up
        <3>2. CASE v # u
            BY <3>2, <2>4, <2>5, <2>7, <2>8, <1>i
        <3> QED BY <3>1, <3>2
    <2>11. \A v \in Upload :
            up'[v].pc \in {"idle", "encrypting", "creating", "created"}
                => up'[v].sent = 0
        BY <2>5, <2>6, <1>i
    <2> QED BY <2>9, <2>10, <2>11
<1>10. ASSUME NEW u \in Upload, AllChunksSent(u) PROVE ContentInv'
    <2>1. /\ up' = [up EXCEPT ![u].pc = "signing"] /\ up[u].pc = "sending"
          /\ up[u].sent = up[u].total /\ UNCHANGED <<sn, accepted>>
        BY <1>10 DEF AllChunksSent, UpdateUp
    <2>2. /\ \A v \in Upload : up'[v].file = up[v].file /\ (v # u => up'[v] = up[v])
          /\ up'[u].pc = "signing" /\ up'[u].total = up[u].total
        BY <1>up, <2>1
    <2>3. up[u].file # Null => /\ sn[up[u].file].chunks = up[u].total
                              /\ sn[up[u].file].state \notin AtDds
        BY <1>i, <2>1
    <2>4. \A f \in FileId : \A k \in sn[f].keys : up'[k].file = f /\ up'[k].pc \in Keyed
        BY <1>i, <1>sn, <2>2
    <2>5. \A f \in FileId :
            /\ sn[f].state = "absent" => sn[f].chunks = 0
            /\ sn[f].state # "absent" => sn[f].keepUntil \in accepted[f]
        BY <1>i
    <2>6. sn' = sn /\ accepted' = accepted
        BY <2>1
    <2>7. ASSUME NEW v \in Upload, up'[v].file # Null
          PROVE  /\ up'[v].pc = "created" => sn[up'[v].file].chunks = 0
                 /\ up'[v].pc = "sending" => sn[up'[v].file].chunks = up'[v].sent
                 /\ up'[v].pc \in {"signing", "done"}
                      => sn[up'[v].file].chunks = up'[v].total
                 /\ sn[up'[v].file].state \in AtDds => up'[v].pc = "done"
        BY <1>i, <2>2, <2>3, <2>7
    <2>8. \A v \in Upload :
            up'[v].pc \in {"idle", "encrypting", "creating", "created"}
                => up'[v].sent = 0
        BY <1>i, <2>2
    <2> QED BY <2>4, <2>5, <2>6, <2>7, <2>8
<1>11. ASSUME NEW u \in Upload, BackgroundJobStops(u) PROVE ContentInv'
    BY <1>11, <1>i, <1>up, <1>sn DEF BackgroundJobStops, UpdateUp, UploadInv
<1>12. ASSUME NEW u \in Upload, UploadFileToDds(u) PROVE ContentInv'
    <2> DEFINE g == up[u].file
    <2>1. /\ sn' = [sn EXCEPT ![g].state = "sentToDds"]
          /\ up' = [up EXCEPT ![u].pc = "done"]
          /\ up[u].pc = "signing" /\ UNCHANGED accepted
        BY <1>12 DEF UploadFileToDds, UpdateUp
    <2>2. g \in FileId /\ sn[g].state # "absent" /\ sn[g].chunks = up[u].total
        BY <1>up, <1>i, <2>1 DEF UploadInv
    <2>3. \A f \in FileId :
            /\ sn'[f].keys = sn[f].keys /\ sn'[f].chunks = sn[f].chunks
            /\ sn'[f].keepUntil = sn[f].keepUntil
            /\ sn'[f].state = "absent" <=> sn[f].state = "absent"
            /\ f # g => sn'[f].state = sn[f].state
        BY <1>sn, <2>1, <2>2
    <2>4. \A v \in Upload : up'[v].file = up[v].file /\ up'[v].total = up[v].total
                             /\ (v # u => up'[v] = up[v])
        BY <1>up, <2>1
    <2>5. up'[u].pc = "done"
        BY <1>up, <2>1
    <2>6. \A v \in Upload : v # u /\ up[v].file # Null
            => up[v].file \in FileId \ {g}
        BY <1>up, <1>i, <2>2 DEF UploadInv
    <2>7. \A f \in FileId :
            /\ \A k \in sn'[f].keys : up'[k].file = f /\ up'[k].pc \in Keyed
            /\ sn'[f].state = "absent" => sn'[f].chunks = 0
            /\ sn'[f].state # "absent" => sn'[f].keepUntil \in accepted'[f]
        BY <1>i, <1>sn, <2>1, <2>3, <2>4, <2>5
    <2> QED BY <1>i, <2>2, <2>3, <2>4, <2>5, <2>6, <2>7
<1>13. ASSUME NEW f \in FileId, DdsAnswers(f) PROVE ContentInv'
    <2>1. PICK s \in {"stored", "failed"} : sn' = [sn EXCEPT ![f].state = s]
        BY <1>13 DEF DdsAnswers
    <2>2. sn[f].state = "sentToDds" /\ UNCHANGED <<up, accepted>>
        BY <1>13 DEF DdsAnswers
    <2>3. \A g \in FileId :
            /\ sn'[g].keys = sn[g].keys /\ sn'[g].chunks = sn[g].chunks
            /\ sn'[g].keepUntil = sn[g].keepUntil
            /\ sn'[g].state = "absent" <=> sn[g].state = "absent"
            /\ sn'[g].state \in AtDds <=> sn[g].state \in AtDds
        BY <1>sn, <2>1, <2>2
    <2> QED BY <1>kept, <2>2, <2>3
<1>14. ASSUME NEW f \in FileId, DeleteServiceNodeFile(f) PROVE ContentInv'
    <2>1. sn' = [sn EXCEPT ![f].copy = FALSE] /\ UNCHANGED <<up, accepted>>
        BY <1>14 DEF DeleteServiceNodeFile
    <2>2. \A g \in FileId :
            /\ sn'[g].keys = sn[g].keys /\ sn'[g].chunks = sn[g].chunks
            /\ sn'[g].keepUntil = sn[g].keepUntil
            /\ sn'[g].state = sn[g].state
        BY <1>sn, <2>1
    <2> QED BY <1>kept, <2>1, <2>2
<1>15. ASSUME NEW e \in Extend, ServiceNodeExtends(e) PROVE ContentInv'
    <2> DEFINE g == ext[e].file
    <2>1. /\ sn' = [sn EXCEPT ![g].keepUntil = ext[e].date]
          /\ accepted' = [accepted EXCEPT ![g] = @ \cup {ext[e].date}]
          /\ UNCHANGED up
        BY <1>15 DEF ServiceNodeExtends
    <2>2. \A f \in FileId :
            /\ sn'[f].keys = sn[f].keys /\ sn'[f].chunks = sn[f].chunks
            /\ sn'[f].state = sn[f].state
            /\ f # g => sn'[f] = sn[f] /\ accepted'[f] = accepted[f]
        BY <1>sn, <2>1
    <2>3. g \in FileId => sn'[g].keepUntil \in accepted'[g]
        BY <1>sn, <2>1
    <2> QED BY <1>kept, <2>1, <2>2, <2>3
<1>16. ASSUME Crash PROVE ContentInv'
    <2>1. sn' = sn /\ accepted' = accepted
        BY <1>16 DEF Crash
    <2>2. \A u \in Upload :
            /\ up'[u].file = up[u].file
            /\ up'[u].total = up[u].total
            /\ up'[u].sent = up[u].sent
            /\ up'[u].pc \in Keyed <=> up[u].pc \in Keyed
            /\ up'[u].pc # up[u].pc => up'[u].pc \in {"stopped", "error"}
            /\ up[u].pc = "done" => up'[u].pc = "done"
      <3> SUFFICES ASSUME NEW u \in Upload
                   PROVE  /\ up'[u].file = up[u].file
                          /\ up'[u].total = up[u].total
                          /\ up'[u].sent = up[u].sent
                          /\ up'[u].pc \in Keyed <=> up[u].pc \in Keyed
                          /\ up'[u].pc # up[u].pc
                               => up'[u].pc \in {"stopped", "error"}
                          /\ up[u].pc = "done" => up'[u].pc = "done"
        OBVIOUS
      <3>1. /\ up'[u].file = up[u].file
            /\ up'[u].total = up[u].total
            /\ up'[u].sent = up[u].sent
            /\ \/ up'[u].pc = up[u].pc /\ up[u].pc \notin UpActive
               \/ up'[u].pc = "stopped" /\ up[u].reply = "ok"
               \/ up'[u].pc = "error" /\ up[u].reply # "ok"
        BY <1>16, CrashUp
      <3>2. up[u].pc = "done" => up'[u].pc = "done"
        BY <1>16, <1>up DEF Crash, UpActive
      <3>3. up[u].reply = "ok" <=> up[u].pc \in Keyed
        BY <1>i DEF UploadInv
      <3> QED BY <3>1, <3>2, <3>3
    <2> QED BY <1>i, <1>up, <1>sn, <2>1, <2>2
<1>17. ASSUME NEW l \in LocalFile, CreateLocalFile(l) \/ UploadLocalFileChunk(l)
       PROVE  UNCHANGED <<up, sn, accepted>>
    BY <1>17 DEF CreateLocalFile, UploadLocalFileChunk
<1>18. ASSUME NEW c \in Check, NEW f \in FileId, CheckStatus(c, f)
       PROVE  UNCHANGED <<up, sn, accepted>>
    BY <1>18 DEF CheckStatus
<1>19. ASSUME NEW c \in Check, SaveJobStep(c) PROVE UNCHANGED <<up, sn, accepted>>
    BY <1>19 DEF SaveJobStep, GetFileInfo, FindFileKey, SaveJobStops, SaveFile,
                 SaveDataOwner
<1>20. ASSUME NEW e \in Extend, NEW f \in FileId, NEW d \in Date,
              BeginExtend(e, f, d)
       PROVE  UNCHANGED <<up, sn, accepted>>
    BY <1>20 DEF BeginExtend
<1>21. ASSUME NEW e \in Extend, ExtendStep(e), ~ServiceNodeExtends(e)
       PROVE  UNCHANGED <<up, sn, accepted>>
    BY <1>21 DEF ExtendStep, FindFile, ExtendFails, NothingToUpdate,
                 FindDataOwner, FindSavedFile, UpdateFile, SaveExtendedOwner
<1>22. CASE UNCHANGED vars
    BY <1>22, <1>1 DEF vars
<1> QED
    BY <1>1, <1>2, <1>3, <1>4, <1>5, <1>6, <1>7, <1>8, <1>9, <1>10, <1>11,
       <1>12, <1>13, <1>14, <1>15, <1>16, <1>17, <1>18, <1>19, <1>20, <1>21,
       <1>22 DEF Next, UploadStep, UploadFault

\* DDS does not give a stored file back, whatever the requests do.
LEMMA StoredStays ==
    ASSUME IInv, [Next]_vars, NEW f \in FileId, sn[f].state = "stored"
    PROVE  sn'[f].state = "stored"
<1>sn. sn \in [FileId -> SnFile]
    BY DEF IInv, TypeOK
<1> USE DEF SnFile
<1>1. ASSUME NEW u \in Upload, NEW g \in FileId, NEW d \in Date,
             CreateAtServiceNode(u, g, d) \/ CreateReplyLost(u, g, d)
      PROVE  sn'[f].state = "stored"
    BY <1>1, <1>sn DEF CreateAtServiceNode, CreateReplyLost
<1>2. ASSUME NEW u \in Upload, SendChunk(u) \/ ChunkReplyLost(u)
      PROVE  sn'[f].state = "stored"
    BY <1>2, <1>sn DEF SendChunk, ChunkReplyLost
<1>3. ASSUME NEW u \in Upload, UploadFileToDds(u)
      PROVE  sn'[f].state = "stored"
    <2>1. up[u].file \in FileId /\ sn[up[u].file].state \notin AtDds
        BY <1>3, NullAssumption
        DEF IInv, UploadInv, ContentInv, UploadFileToDds, Keyed
    <2>2. up[u].file # f
        BY <2>1 DEF AtDds
    <2> QED BY <1>3, <1>sn, <2>2 DEF UploadFileToDds
<1>4. ASSUME NEW g \in FileId, DdsAnswers(g)
      PROVE  sn'[f].state = "stored"
    BY <1>4, <1>sn DEF DdsAnswers
<1>5. ASSUME NEW g \in FileId, DeleteServiceNodeFile(g)
      PROVE  sn'[f].state = "stored"
    BY <1>5, <1>sn DEF DeleteServiceNodeFile
<1>6. ASSUME NEW e \in Extend, ServiceNodeExtends(e)
      PROVE  sn'[f].state = "stored"
    BY <1>6, <1>sn DEF ServiceNodeExtends
<1>7. ASSUME NEW l \in LocalFile, CreateLocalFile(l) \/ UploadLocalFileChunk(l)
      PROVE  sn' = sn
    BY <1>7 DEF CreateLocalFile, UploadLocalFileChunk
<1>8. ASSUME NEW u \in Upload, NEW l \in LocalFile, ReadLocalFile(u, l)
      PROVE  sn' = sn
    BY <1>8 DEF ReadLocalFile
<1>9. ASSUME NEW u \in Upload,
             \/ EncryptWithAes(u) \/ SaveTemporaryFile(u) \/ AllChunksSent(u)
             \/ UploadFails(u) \/ BackgroundJobStops(u)
      PROVE  sn' = sn
    BY <1>9 DEF EncryptWithAes, SaveTemporaryFile, AllChunksSent, UploadFails,
                BackgroundJobStops
<1>10. ASSUME NEW c \in Check, NEW g \in FileId, CheckStatus(c, g)
       PROVE  sn' = sn
    BY <1>10 DEF CheckStatus
<1>11. ASSUME NEW c \in Check, SaveJobStep(c) PROVE sn' = sn
    BY <1>11 DEF SaveJobStep, GetFileInfo, FindFileKey, SaveJobStops, SaveFile,
                 SaveDataOwner
<1>12. ASSUME NEW e \in Extend, NEW g \in FileId, NEW d \in Date,
              BeginExtend(e, g, d)
       PROVE  sn' = sn
    BY <1>12 DEF BeginExtend
<1>13. ASSUME NEW e \in Extend, ExtendStep(e), ~ServiceNodeExtends(e)
       PROVE  sn' = sn
    BY <1>13 DEF ExtendStep, FindFile, ExtendFails, NothingToUpdate,
                 FindDataOwner, FindSavedFile, UpdateFile, SaveExtendedOwner
<1>14. ASSUME Crash \/ UNCHANGED vars PROVE sn' = sn
    BY <1>14 DEF Crash, vars
<1> QED
    BY <1>1, <1>2, <1>3, <1>4, <1>5, <1>6, <1>7, <1>8, <1>9, <1>10, <1>11,
       <1>12, <1>13, <1>14 DEF Next, UploadStep, UploadFault

\* Stored keys and accepted dates are never taken back.
LEMMA HistoryGrows ==
    ASSUME IInv, [Next]_vars
    PROVE  temp \subseteq temp' /\ \A f \in FileId : accepted[f] \subseteq accepted'[f]
<1>acc. accepted \in [FileId -> SUBSET Date]
    BY DEF IInv, TypeOK
<1>1. ASSUME NEW u \in Upload, UploadStep(u) \/ UploadFault(u)
      PROVE  temp \subseteq temp' /\ \A f \in FileId : accepted[f] \subseteq accepted'[f]
    BY <1>1, <1>acc
    DEF UploadStep, UploadFault, EncryptWithAes, CreateAtServiceNode,
        SaveTemporaryFile, SendChunk, AllChunksSent, UploadFileToDds,
        UploadFails, CreateReplyLost, ChunkReplyLost, BackgroundJobStops
<1>2. ASSUME NEW e \in Extend, ExtendStep(e)
      PROVE  temp \subseteq temp' /\ \A f \in FileId : accepted[f] \subseteq accepted'[f]
    BY <1>2, <1>acc
    DEF ExtendStep, FindFile, ServiceNodeExtends, ExtendFails, NothingToUpdate,
        FindDataOwner, FindSavedFile, UpdateFile, SaveExtendedOwner
<1>3. ASSUME NEW l \in LocalFile, CreateLocalFile(l) \/ UploadLocalFileChunk(l)
      PROVE  UNCHANGED <<temp, accepted>>
    BY <1>3 DEF CreateLocalFile, UploadLocalFileChunk
<1>4. ASSUME NEW u \in Upload, NEW l \in LocalFile, ReadLocalFile(u, l)
      PROVE  UNCHANGED <<temp, accepted>>
    BY <1>4 DEF ReadLocalFile
<1>5. ASSUME NEW f \in FileId, DdsAnswers(f) \/ DeleteServiceNodeFile(f)
      PROVE  UNCHANGED <<temp, accepted>>
    BY <1>5 DEF DdsAnswers, DeleteServiceNodeFile
<1>6. ASSUME NEW c \in Check, NEW f \in FileId, CheckStatus(c, f)
      PROVE  UNCHANGED <<temp, accepted>>
    BY <1>6 DEF CheckStatus
<1>7. ASSUME NEW c \in Check, SaveJobStep(c) PROVE UNCHANGED <<temp, accepted>>
    BY <1>7 DEF SaveJobStep, GetFileInfo, FindFileKey, SaveJobStops, SaveFile,
                SaveDataOwner
<1>8. ASSUME NEW e \in Extend, NEW f \in FileId, NEW d \in Date,
             BeginExtend(e, f, d)
      PROVE  UNCHANGED <<temp, accepted>>
    BY <1>8 DEF BeginExtend
<1>9. ASSUME Crash \/ UNCHANGED vars PROVE UNCHANGED <<temp, accepted>>
    BY <1>9 DEF Crash, vars
<1> QED
    BY <1>1, <1>2, <1>3, <1>4, <1>5, <1>6, <1>7, <1>8, <1>9 DEF Next

\* A document that is genuine stays genuine.
LEMMA GenuineStays ==
    ASSUME IInv, [Next]_vars, NEW d, d.id \in FileId, Genuine(d)
    PROVE  Genuine(d)'
    BY StoredStays, HistoryGrows DEF Genuine

\* Only save jobs and extensions write File and DataOwner documents.
LEMMA DbFrame ==
    ASSUME [Next]_vars,
           ~(\E c \in Check : SaveFile(c) \/ SaveDataOwner(c)),
           ~(\E e \in Extend : UpdateFile(e) \/ SaveExtendedOwner(e))
    PROVE  UNCHANGED <<fileDb, ownerDb>>
<1>1. ASSUME NEW u \in Upload, UploadStep(u) \/ UploadFault(u)
      PROVE  UNCHANGED <<fileDb, ownerDb>>
    BY <1>1
    DEF UploadStep, UploadFault, EncryptWithAes, CreateAtServiceNode,
        SaveTemporaryFile, SendChunk, AllChunksSent, UploadFileToDds,
        UploadFails, CreateReplyLost, ChunkReplyLost, BackgroundJobStops
<1>2. ASSUME NEW e \in Extend, ExtendStep(e), ~UpdateFile(e), ~SaveExtendedOwner(e)
      PROVE  UNCHANGED <<fileDb, ownerDb>>
    BY <1>2 DEF ExtendStep, FindFile, ServiceNodeExtends, ExtendFails,
                NothingToUpdate, FindDataOwner, FindSavedFile
<1>3. ASSUME NEW l \in LocalFile, CreateLocalFile(l) \/ UploadLocalFileChunk(l)
      PROVE  UNCHANGED <<fileDb, ownerDb>>
    BY <1>3 DEF CreateLocalFile, UploadLocalFileChunk
<1>4. ASSUME NEW u \in Upload, NEW l \in LocalFile, ReadLocalFile(u, l)
      PROVE  UNCHANGED <<fileDb, ownerDb>>
    BY <1>4 DEF ReadLocalFile
<1>5. ASSUME NEW f \in FileId, DdsAnswers(f) \/ DeleteServiceNodeFile(f)
      PROVE  UNCHANGED <<fileDb, ownerDb>>
    BY <1>5 DEF DdsAnswers, DeleteServiceNodeFile
<1>6. ASSUME NEW c \in Check, NEW f \in FileId, CheckStatus(c, f)
      PROVE  UNCHANGED <<fileDb, ownerDb>>
    BY <1>6 DEF CheckStatus
<1>7. ASSUME NEW c \in Check, GetFileInfo(c) \/ FindFileKey(c) \/ SaveJobStops(c)
      PROVE UNCHANGED <<fileDb, ownerDb>>
    BY <1>7 DEF GetFileInfo, FindFileKey, SaveJobStops
<1>8. ASSUME NEW e \in Extend, NEW f \in FileId, NEW d \in Date,
             BeginExtend(e, f, d)
      PROVE  UNCHANGED <<fileDb, ownerDb>>
    BY <1>8 DEF BeginExtend
<1>9. ASSUME Crash \/ UNCHANGED vars PROVE UNCHANGED <<fileDb, ownerDb>>
    BY <1>9 DEF Crash, vars
<1> QED
    BY <1>1, <1>2, <1>3, <1>4, <1>5, <1>6, <1>7, <1>8, <1>9
    DEF Next, SaveJobStep

\* Every document is replaced, if at all, by a version of itself.
LEMMA FilesAreKept ==
    ASSUME IInv, [Next]_vars, NEW d \in fileDb
    PROVE  \E n \in fileDb' : SameFile(n, d)
<1>0. SameFile(d, d)
    BY DEF SameFile
<1>1. ASSUME NEW c \in Check, SaveFile(c) \/ SaveDataOwner(c)
      PROVE  fileDb \subseteq fileDb'
    BY <1>1 DEF SaveFile, SaveDataOwner
<1>2. ASSUME NEW e \in Extend, UpdateFile(e)
      PROVE  \E n \in fileDb' : SameFile(n, d)
    <2>1. SameFile(ext[e].cur, ext[e].doc)
        BY <1>2 DEF IInv, ExtendInv, ExtendOK, UpdateFile
    <2>2. CASE d = ext[e].cur
        <3>1. ext[e].doc \in fileDb'
            BY <1>2, <2>2 DEF UpdateFile
        <3>2. SameFile(ext[e].doc, d)
            BY <2>1, <2>2 DEF SameFile
        <3> QED BY <3>1, <3>2
    <2>3. CASE d # ext[e].cur
        BY <1>0, <1>2, <2>3 DEF UpdateFile
    <2> QED BY <2>2, <2>3
<1>3. ASSUME NEW e \in Extend, SaveExtendedOwner(e)
      PROVE  fileDb' = fileDb
    BY <1>3 DEF SaveExtendedOwner
<1> QED BY <1>0, <1>1, <1>2, <1>3, DbFrame

\* The same for the DataOwner documents.
LEMMA OwnersAreKept ==
    ASSUME IInv, [Next]_vars, NEW o \in ownerDb
    PROVE  \E n \in ownerDb' : SameOwner(n, o)
<1>0. SameOwner(o, o)
    BY DEF SameOwner
<1>1. ASSUME NEW c \in Check, SaveFile(c) \/ SaveDataOwner(c)
      PROVE  ownerDb \subseteq ownerDb'
    BY <1>1 DEF SaveFile, SaveDataOwner
<1>2. ASSUME NEW e \in Extend, UpdateFile(e)
      PROVE  ownerDb' = ownerDb
    BY <1>2 DEF UpdateFile
<1>3. ASSUME NEW e \in Extend, SaveExtendedOwner(e)
      PROVE  \E n \in ownerDb' : SameOwner(n, o)
    <2>1. PICK p \in ownerDb : SameOwner(p, ext[e].owner)
        BY <1>3 DEF IInv, ExtendInv, ExtendOK, ExtUpdating, SaveExtendedOwner
    <2>2. CASE o._id = ext[e].owner._id
        <3>1. SameOwner(p, o)
            BY <2>1, <2>2 DEF IInv, RecordInv, SameOwner
        <3>2. SameOwner(ext[e].owner, o)
            BY <2>1, <3>1 DEF SameOwner
        <3>3. ext[e].owner \in ownerDb'
            BY <1>3, <2>2 DEF SaveExtendedOwner
        <3> QED BY <3>2, <3>3
    <2>3. CASE o._id # ext[e].owner._id
        BY <1>0, <1>3, <2>3 DEF SaveExtendedOwner
    <2> QED BY <2>2, <2>3
<1> QED BY <1>0, <1>1, <1>2, <1>3, DbFrame

\* The documents are genuine, and an _id names one of them.
LEMMA RecordStepInv == IInv /\ [Next]_vars => RecordInv'
<1> SUFFICES ASSUME IInv, [Next]_vars PROVE RecordInv'
    OBVIOUS
<1>t. /\ fileDb \in SUBSET FileDoc
      /\ ownerDb \in SUBSET OwnerDoc
      /\ chk \in [Check -> SaveJob]
      /\ ext \in [Extend -> ExtendJob]
    BY DEF IInv, TypeOK
<1>i. RecordInv
    BY DEF IInv
<1>f. \A d \in fileDb : Genuine(d)'
    <2> SUFFICES ASSUME NEW d \in fileDb PROVE Genuine(d)'
        OBVIOUS
    <2>1. d.id \in FileId /\ Genuine(d)
        BY <1>t, <1>i DEF FileDoc, RecordInv
    <2> QED BY <2>1, GenuineStays
<1>o. \A o \in ownerDb :
        Genuine(o.file)' /\ \E d \in fileDb' : SameFile(d, o.file)
    <2> SUFFICES ASSUME NEW o \in ownerDb
                 PROVE  Genuine(o.file)' /\ \E d \in fileDb' : SameFile(d, o.file)
        OBVIOUS
    <2>1. o.file.id \in FileId /\ Genuine(o.file)
        BY <1>t, <1>i DEF OwnerDoc, FileDoc, RecordInv
    <2>2. PICK d \in fileDb : SameFile(d, o.file)
        BY <1>i DEF RecordInv
    <2>3. PICK n \in fileDb' : SameFile(n, d)
        BY FilesAreKept
    <2>4. SameFile(n, o.file)
        BY <2>2, <2>3 DEF SameFile
    <2> QED BY <2>1, <2>4, GenuineStays
<1>1. ASSUME NEW c \in Check, SaveFile(c) PROVE RecordInv'
    <2>1. PICK i \in DocId \ UsedIds, n \in FileDoc :
            n = NewFile(c, i) /\ fileDb' = fileDb \cup {n}
        BY <1>1, NewFileType DEF SaveFile
    <2>2. ownerDb' = ownerDb
        BY <1>1 DEF SaveFile
    <2>3. n.id \in FileId /\ n._id = i
        BY <2>1 DEF FileDoc, NewFile
    <2>4. Genuine(n)
        BY <1>1, <2>1 DEF IInv, SaveJobInv, SaveJobOK, SaveFile, Genuine, NewFile
    <2>5. Genuine(n)'
        BY <2>3, <2>4, GenuineStays
    <2>6. \A d \in fileDb : d._id # n._id
        BY <2>1, <2>3 DEF UsedIds
    <2>7. (\A d, e \in fileDb : d._id = e._id => SameFile(d, e))'
        BY <1>i, <2>1, <2>6 DEF RecordInv, SameFile
    <2> QED
        BY <1>i, <1>f, <1>o, <2>1, <2>2, <2>5, <2>7 DEF RecordInv
<1>2. ASSUME NEW c \in Check, SaveDataOwner(c) PROVE RecordInv'
    <2>0. PICK i \in DocId \ UsedIds : ownerDb' = ownerDb \cup {NewOwner(c, i)}
        BY <1>2 DEF SaveDataOwner
    <2>1. PICK n : n = NewOwner(c, i) /\ ownerDb' = ownerDb \cup {n}
        BY <2>0
    <2>2. fileDb' = fileDb
        BY <1>2 DEF SaveDataOwner
    <2>3. n.file = chk[c].doc /\ n._id = i
        BY <2>1 DEF NewOwner
    <2>4. Genuine(n.file) /\ \E d \in fileDb : SameFile(d, n.file)
        BY <1>2, <2>3 DEF IInv, SaveJobInv, SaveJobOK, SaveDataOwner
    <2>5. n.file.id \in FileId
        BY <1>t, <2>4 DEF FileDoc, SameFile
    <2>6. Genuine(n.file)'
        BY <2>4, <2>5, GenuineStays
    <2>7. \A o \in ownerDb : o._id # n._id
        BY <2>1, <2>3 DEF UsedIds
    <2>8. (\A o, p \in ownerDb : o._id = p._id => SameOwner(o, p))'
        BY <1>i, <2>1, <2>7 DEF RecordInv, SameOwner
    <2> QED
        BY <1>i, <1>f, <1>o, <2>1, <2>2, <2>4, <2>6, <2>8 DEF RecordInv
<1>3. ASSUME NEW e \in Extend, UpdateFile(e) PROVE RecordInv'
    <2>1. PICK n : n = ext[e].doc
        OBVIOUS
    <2>2. PICK d \in fileDb : SameFile(d, n)
        BY <1>3, <2>1 DEF IInv, ExtendInv, ExtendOK, UpdateFile, ExtUpdating
    <2>3. Genuine(n) /\ n.id \in FileId
        <3>1. Genuine(d) /\ d.id \in FileId
            BY <1>t, <1>i DEF RecordInv, FileDoc
        <3>2. n.id = ext[e].file /\ n.keepUntil \in accepted[ext[e].file]
            BY <1>3, <2>1 DEF IInv, ExtendInv, ExtendOK, UpdateFile, ExtUpdating
        <3> QED BY <2>2, <3>1, <3>2 DEF Genuine, SameFile
    <2>4. Genuine(n)'
        BY <2>3, GenuineStays
    <2>5. fileDb' \subseteq fileDb \cup {n} /\ ownerDb' = ownerDb
        BY <1>3, <2>1 DEF UpdateFile
    <2>6. \A x \in fileDb : x._id = n._id => SameFile(x, n)
        BY <1>i, <2>2 DEF RecordInv, SameFile
    <2>7. (\A x, y \in fileDb : x._id = y._id => SameFile(x, y))'
        BY <1>i, <2>5, <2>6 DEF RecordInv, SameFile
    <2> QED
        BY <1>i, <1>f, <1>o, <2>4, <2>5, <2>7 DEF RecordInv
<1>4. ASSUME NEW e \in Extend, SaveExtendedOwner(e) PROVE RecordInv'
    <2>1. PICK n : n = ext[e].owner
        OBVIOUS
    <2>2. PICK p \in ownerDb : SameOwner(p, n)
        BY <1>4, <2>1 DEF IInv, ExtendInv, ExtendOK, SaveExtendedOwner, ExtUpdating
    <2>3. n.file = ext[e].doc /\ \E d \in fileDb : SameFile(d, n.file)
        BY <1>4, <2>1 DEF IInv, ExtendInv, ExtendOK, SaveExtendedOwner, ExtUpdating
    <2>4. Genuine(n.file) /\ n.file.id \in FileId
        <3>1. PICK d \in fileDb : SameFile(d, n.file)
            BY <2>3
        <3>2. Genuine(d) /\ d.id \in FileId
            BY <1>t, <1>i DEF RecordInv, FileDoc
        <3>3. n.file.id = ext[e].file /\ n.file.keepUntil \in accepted[ext[e].file]
            BY <1>4, <2>3 DEF IInv, ExtendInv, ExtendOK, SaveExtendedOwner, ExtUpdating
        <3> QED BY <3>1, <3>2, <3>3 DEF Genuine, SameFile
    <2>5. Genuine(n.file)'
        BY <2>4, GenuineStays
    <2>6. ownerDb' \subseteq ownerDb \cup {n} /\ fileDb' = fileDb
        BY <1>4, <2>1 DEF SaveExtendedOwner
    <2>7. \A x \in ownerDb : x._id = n._id => SameOwner(x, n)
        BY <1>i, <2>2 DEF RecordInv, SameOwner
    <2>8. (\A x, y \in ownerDb : x._id = y._id => SameOwner(x, y))'
        BY <1>i, <2>6, <2>7 DEF RecordInv, SameOwner
    <2> QED
        BY <1>i, <1>f, <1>o, <2>3, <2>5, <2>6, <2>8 DEF RecordInv
<1>5. ASSUME UNCHANGED <<fileDb, ownerDb>> PROVE RecordInv'
    BY <1>5, <1>i, <1>f, <1>o DEF RecordInv
<1> QED BY <1>1, <1>2, <1>3, <1>4, <1>5, DbFrame


\* What a save job carries is true of the file it saves.
LEMMA SaveJobStepInv == IInv /\ [Next]_vars => SaveJobInv'
<1> SUFFICES ASSUME IInv, [Next]_vars, NEW c \in Check PROVE SaveJobOK(c)'
    BY DEF SaveJobInv
<1>chk. chk \in [Check -> SaveJob]
    BY DEF IInv, TypeOK
<1>i. SaveJobOK(c)
    BY DEF IInv, SaveJobInv
<1>keep. ASSUME chk'[c] = chk[c] PROVE SaveJobOK(c)'
    <2>1. chk[c].file \in FileId /\ sn[chk[c].file].state = "stored"
            => sn'[chk[c].file].state = "stored"
        BY StoredStays
    <2>2. temp \subseteq temp' /\ \A f \in FileId : accepted[f] \subseteq accepted'[f]
        BY HistoryGrows
    <2>3. ASSUME chk[c].pc = "saveOwner"
          PROVE  Genuine(chk[c].doc)' /\ \E d \in fileDb' : SameFile(d, chk[c].doc)
        <3>1. PICK n : n = chk[c].doc
            OBVIOUS
        <3>2. n \in FileDoc /\ Genuine(n)
            BY <1>chk, <1>i, <2>3, <3>1 DEF SaveJobOK, SaveJob
        <3>3. Genuine(n)'
            BY <3>2, GenuineStays DEF FileDoc
        <3>4. PICK d \in fileDb : SameFile(d, n)
            BY <1>i, <2>3, <3>1 DEF SaveJobOK
        <3>5. PICK m \in fileDb' : SameFile(m, d)
            BY FilesAreKept
        <3>6. SameFile(m, n)
            BY <3>4, <3>5 DEF SameFile
        <3>7. n = chk'[c].doc
            BY <1>keep, <3>1
        <3> QED BY <3>1, <3>3, <3>6, <3>7, <1>keep
    <2> QED BY <1>keep, <1>i, <2>1, <2>2, <2>3 DEF SaveJobOK
<1>1. ASSUME NEW f \in FileId, CheckStatus(c, f) PROVE SaveJobOK(c)'
    <2>1. CASE StatusReply(f) = "uploaded"
        <3>1. chk' = [chk EXCEPT ![c].pc = "info", ![c].reply = "uploaded",
                                 ![c].file = f]
            BY <1>1, <2>1 DEF CheckStatus
        <3>2. chk'[c].pc = "info" /\ chk'[c].file = f
            BY <1>chk, <3>1 DEF SaveJob
        <3>3. sn'[f].state = "stored"
            BY <1>1, <2>1 DEF CheckStatus, StatusReply
        <3> QED BY <3>2, <3>3 DEF SaveJobOK
    <2>2. CASE StatusReply(f) # "uploaded"
        <3>1. chk'[c].pc = "idle"
            BY <1>1, <1>chk, <2>2 DEF CheckStatus, SaveJob
        <3> QED BY <3>1 DEF SaveJobOK
    <2> QED BY <2>1, <2>2
<1>2. ASSUME GetFileInfo(c) PROVE SaveJobOK(c)'
    <2>1. /\ chk'[c].pc = "key"
          /\ chk'[c].file = chk[c].file
          /\ chk'[c].keepUntil = sn[chk[c].file].keepUntil
        BY <1>2, <1>chk DEF GetFileInfo, SaveJob
    <2>2. chk[c].file \in FileId /\ sn[chk[c].file].state = "stored"
        BY <1>2, <1>i DEF GetFileInfo, SaveJobOK
    <2>3. sn[chk[c].file].keepUntil \in accepted[chk[c].file]
        BY <2>2 DEF IInv, ContentInv
    <2>4. sn' = sn /\ accepted' = accepted
        BY <1>2 DEF GetFileInfo
    <2> QED BY <2>1, <2>2, <2>3, <2>4 DEF SaveJobOK
<1>3. ASSUME FindFileKey(c) PROVE SaveJobOK(c)'
    <2>1. PICK t \in temp :
            /\ t.id = chk[c].file
            /\ chk' = [chk EXCEPT ![c].pc = "saveFile", ![c].key = t.key]
        BY <1>3 DEF FindFileKey
    <2>2. /\ chk'[c].pc = "saveFile"
          /\ chk'[c].file = chk[c].file
          /\ chk'[c].keepUntil = chk[c].keepUntil
          /\ chk'[c].key = t.key
        BY <1>chk, <2>1 DEF SaveJob
    <2>3. t = [id |-> chk[c].file, key |-> t.key]
        BY <2>1 DEF IInv, TypeOK, TempDoc
    <2>4. sn' = sn /\ accepted' = accepted /\ temp' = temp
        BY <1>3 DEF FindFileKey
    <2> QED BY <1>3, <1>i, <2>1, <2>2, <2>3, <2>4 DEF SaveJobOK, FindFileKey
<1>4. ASSUME SaveJobStops(c) PROVE SaveJobOK(c)'
    <2>1. chk'[c].pc = "stopped" /\ chk'[c].file = chk[c].file /\ sn' = sn
        BY <1>4, <1>chk DEF SaveJobStops, SaveJob
    <2> QED BY <1>4, <1>i, <2>1 DEF SaveJobOK, SaveJobStops
<1>5. ASSUME SaveFile(c) PROVE SaveJobOK(c)'
    <2>1. PICK i \in DocId \ UsedIds, n \in FileDoc :
            /\ n = NewFile(c, i)
            /\ fileDb' = fileDb \cup {n}
            /\ chk' = [chk EXCEPT ![c].pc = "saveOwner", ![c].doc = n]
        BY <1>5, NewFileType DEF SaveFile
    <2>2. chk'[c].pc = "saveOwner" /\ chk'[c].file = chk[c].file /\ chk'[c].doc = n
        BY <1>chk, <2>1 DEF SaveJob
    <2>3. Genuine(n) /\ n.id \in FileId
        BY <1>5, <1>i, <2>1 DEF SaveJobOK, SaveFile, Genuine, NewFile
    <2>4. Genuine(n)'
        BY <2>3, GenuineStays
    <2>6. sn' = sn
        BY <1>5 DEF SaveFile
    <2> QED BY <1>5, <1>i, <2>1, <2>2, <2>4, <2>6
            DEF SaveJobOK, SaveFile, SameFile
<1>6. ASSUME SaveDataOwner(c) PROVE SaveJobOK(c)'
    <2>1. chk'[c].pc = "saved" /\ chk'[c].file = chk[c].file /\ sn' = sn
        BY <1>6, <1>chk DEF SaveDataOwner, SaveJob
    <2> QED BY <1>6, <1>i, <2>1 DEF SaveJobOK, SaveDataOwner
<1>7. ASSUME NEW b \in Check, b # c,
             \/ \E f \in FileId : CheckStatus(b, f)
             \/ SaveJobStep(b)
      PROVE  chk'[c] = chk[c]
    <2>1. ASSUME NEW f \in FileId, CheckStatus(b, f) PROVE chk'[c] = chk[c]
        BY <2>1, <1>7, <1>chk DEF CheckStatus
    <2>2. ASSUME GetFileInfo(b) \/ FindFileKey(b) \/ SaveJobStops(b)
                 \/ SaveFile(b) \/ SaveDataOwner(b)
          PROVE  chk'[c] = chk[c]
        BY <2>2, <1>7, <1>chk
        DEF GetFileInfo, FindFileKey, SaveJobStops, SaveFile, SaveDataOwner
    <2> QED BY <2>1, <2>2, <1>7 DEF SaveJobStep
<1>8. ASSUME Crash PROVE SaveJobOK(c)'
    <2>1. CASE chk[c].pc \in ChkActive
        <3>1. /\ chk'[c].pc = "stopped"
              /\ chk'[c].file = chk[c].file
              /\ sn' = sn
            BY <1>8, <1>chk, <2>1 DEF Crash, SaveJob
        <3> QED BY <1>i, <2>1, <3>1 DEF SaveJobOK, ChkActive
    <2>2. CASE chk[c].pc \notin ChkActive
        BY <1>8, <1>keep, <2>2 DEF Crash
    <2> QED BY <2>1, <2>2
<1>9. ASSUME NEW u \in Upload, UploadStep(u) \/ UploadFault(u)
      PROVE  chk' = chk
    BY <1>9
    DEF UploadStep, UploadFault, EncryptWithAes, CreateAtServiceNode,
        SaveTemporaryFile, SendChunk, AllChunksSent, UploadFileToDds,
        UploadFails, CreateReplyLost, ChunkReplyLost, BackgroundJobStops
<1>10. ASSUME NEW e \in Extend, ExtendStep(e) PROVE chk' = chk
    BY <1>10
    DEF ExtendStep, FindFile, ServiceNodeExtends, ExtendFails, NothingToUpdate,
        FindDataOwner, FindSavedFile, UpdateFile, SaveExtendedOwner
<1>11. ASSUME NEW l \in LocalFile, CreateLocalFile(l) \/ UploadLocalFileChunk(l)
       PROVE  chk' = chk
    BY <1>11 DEF CreateLocalFile, UploadLocalFileChunk
<1>12. ASSUME NEW u \in Upload, NEW l \in LocalFile, ReadLocalFile(u, l)
       PROVE  chk' = chk
    BY <1>12 DEF ReadLocalFile
<1>13. ASSUME NEW f \in FileId, DdsAnswers(f) \/ DeleteServiceNodeFile(f)
       PROVE  chk' = chk
    BY <1>13 DEF DdsAnswers, DeleteServiceNodeFile
<1>14. ASSUME NEW e \in Extend, NEW f \in FileId, NEW d \in Date,
              BeginExtend(e, f, d)
       PROVE  chk' = chk
    BY <1>14 DEF BeginExtend
<1>15. CASE UNCHANGED vars
    BY <1>15, <1>keep DEF vars
<1> QED
    BY <1>keep, <1>1, <1>2, <1>3, <1>4, <1>5, <1>6, <1>7, <1>8, <1>9, <1>10,
       <1>11, <1>12, <1>13, <1>14, <1>15 DEF Next, SaveJobStep

\* Two keys stored for one file are the same key.
LEMMA OneKeyPerFile ==
    ASSUME IInv, NEW f \in FileId, NEW k, NEW m,
           [id |-> f, key |-> k] \in temp, [id |-> f, key |-> m] \in temp
    PROVE  k = m
<1>1. k \in Upload /\ m \in Upload
    BY DEF IInv, TypeOK, TempDoc, Key
<1>2. up[k].file = f /\ up[m].file = f
    BY DEF IInv, TempInv
<1> QED BY <1>1, <1>2, NullAssumption DEF IInv, UploadInv

\* The documents a PATCH carries are versions of stored ones.
LEMMA ExtendStepInv == IInv /\ [Next]_vars => ExtendInv'
<1> SUFFICES ASSUME IInv, [Next]_vars, NEW e \in Extend PROVE ExtendOK(e)'
    BY DEF ExtendInv
<1>ext. ext \in [Extend -> ExtendJob]
    BY DEF IInv, TypeOK
<1>i. ExtendOK(e)
    BY DEF IInv, ExtendInv
<1> DEFINE Same(x) == \E d \in fileDb : SameFile(d, x)
           SameO(x) == \E o \in ownerDb : SameOwner(o, x)
<1>file. \A x : Same(x) => Same(x)'
    <2> SUFFICES ASSUME NEW x, Same(x) PROVE \E n \in fileDb' : SameFile(n, x)
        OBVIOUS
    <2>1. PICK d \in fileDb : SameFile(d, x)
        OBVIOUS
    <2>2. PICK n \in fileDb' : SameFile(n, d)
        BY FilesAreKept
    <2> QED BY <2>1, <2>2 DEF SameFile
<1>owner. \A x : SameO(x) => SameO(x)'
    <2> SUFFICES ASSUME NEW x, SameO(x) PROVE \E n \in ownerDb' : SameOwner(n, x)
        OBVIOUS
    <2>1. PICK o \in ownerDb : SameOwner(o, x)
        OBVIOUS
    <2>2. PICK n \in ownerDb' : SameOwner(n, o)
        BY OwnersAreKept
    <2> QED BY <2>1, <2>2 DEF SameOwner
<1>hist. \A f \in FileId :
            /\ accepted[f] \subseteq accepted'[f]
            /\ sn[f].state = "stored" => sn'[f].state = "stored"
    BY HistoryGrows, StoredStays
<1> HIDE DEF Same, SameO
\* A request that changes no more than its pc, and not to a stricter one.
<1>pc. ASSUME /\ ext'[e].file = ext[e].file
              /\ ext'[e].date = ext[e].date
              /\ ext'[e].doc = ext[e].doc
              /\ ext'[e].cur = ext[e].cur
              /\ ext'[e].owner = ext[e].owner,
              \/ ext'[e].pc = ext[e].pc
              \/ /\ ext[e].pc # "idle"
                 /\ ext'[e].pc \in {"patch", "ok", "error", "orphan"}
              \/ ext[e].pc = "updateFile" /\ ext'[e].pc = "saveOwner"
       PROVE  ExtendOK(e)'
    <2>1. ext'[e].pc # "idle" => ext'[e].file \in FileId /\ ext'[e].date \in Date
        BY <1>pc, <1>i DEF ExtendOK
    <2>2. ext'[e].pc = "idle" => ext'[e].doc \notin FileDoc
        BY <1>pc, <1>i DEF ExtendOK
    <2>3. ext'[e].doc \in FileDoc
            => /\ ext'[e].doc.id = ext'[e].file
               /\ \E d \in fileDb' : SameFile(d, ext'[e].doc)
        <3>1. ASSUME ext[e].doc \in FileDoc
              PROVE  \E d \in fileDb' : SameFile(d, ext[e].doc)
            <4>1. PICK n : n = ext[e].doc
                OBVIOUS
            <4>2. Same(n)
                BY <1>i, <3>1, <4>1 DEF ExtendOK, Same
            <4>3. \E d \in fileDb' : SameFile(d, n)
                BY <4>2, <1>file DEF Same
            <4> QED BY <4>1, <4>3
        <3> QED BY <1>pc, <1>i, <3>1 DEF ExtendOK
    <2>4. ext'[e].pc \in {"patched"} \cup ExtUpdating
            => /\ ext'[e].date \in accepted'[ext'[e].file]
               /\ sn'[ext'[e].file].state = "stored"
        BY <1>pc, <1>i, <1>hist DEF ExtendOK, ExtUpdating
    <2>5. ext'[e].pc \in ExtUpdating
            => /\ ext'[e].doc \in FileDoc
               /\ ext'[e].doc.keepUntil = ext'[e].date
               /\ ext'[e].owner \in OwnerDoc
               /\ ext'[e].owner.file = ext'[e].doc
               /\ \E o \in ownerDb' : SameOwner(o, ext'[e].owner)
        <3>1. ASSUME ext[e].pc \in ExtUpdating
              PROVE  \E o \in ownerDb' : SameOwner(o, ext[e].owner)
            <4>1. PICK n : n = ext[e].owner
                OBVIOUS
            <4>2. SameO(n)
                BY <1>i, <3>1, <4>1 DEF ExtendOK, SameO
            <4>3. \E o \in ownerDb' : SameOwner(o, n)
                BY <4>2, <1>owner DEF SameO
            <4> QED BY <4>1, <4>3
        <3> QED BY <1>pc, <1>i, <3>1 DEF ExtendOK, ExtUpdating
    <2>6. ext'[e].pc = "updateFile"
            => ext'[e].cur \in FileDoc /\ SameFile(ext'[e].cur, ext'[e].doc)
        BY <1>pc, <1>i DEF ExtendOK
    <2> QED BY <2>1, <2>2, <2>3, <2>4, <2>5, <2>6 DEF ExtendOK
<1>keep. ASSUME ext'[e] = ext[e] PROVE ExtendOK(e)'
    BY <1>keep, <1>pc
<1>1. ASSUME NEW f \in FileId, NEW d \in Date, BeginExtend(e, f, d)
      PROVE  ExtendOK(e)'
    <2>1. ext' = [ext EXCEPT ![e].pc = "find", ![e].file = f, ![e].date = d]
        BY <1>1 DEF BeginExtend
    <2>2. /\ ext'[e].pc = "find" /\ ext'[e].file = f /\ ext'[e].date = d
          /\ ext'[e].doc = ext[e].doc
        BY <1>ext, <2>1 DEF ExtendJob
    <2>3. ext[e].doc \notin FileDoc
        BY <1>1, <1>i DEF BeginExtend, ExtendOK
    <2> QED BY <2>2, <2>3 DEF ExtendOK, ExtUpdating
<1>2. ASSUME FindFile(e) PROVE ExtendOK(e)'
    <2>1. CASE UpdateExt(e, "patch")
        <3>1. ext[e].pc = "find"
            BY <1>2 DEF FindFile
        <3>2. ext' = [ext EXCEPT ![e].pc = "patch"]
            BY <2>1 DEF UpdateExt
        <3>3. /\ ext'[e].pc = "patch"
              /\ ext'[e].file = ext[e].file /\ ext'[e].date = ext[e].date
              /\ ext'[e].doc = ext[e].doc /\ ext'[e].cur = ext[e].cur
              /\ ext'[e].owner = ext[e].owner
            BY <1>ext, <3>2 DEF ExtendJob
        <3> QED BY <1>pc, <3>1, <3>3
    <2>2. ASSUME NEW doc \in FirstOf(FilesWithId(ext[e].file)),
                 ext' = [ext EXCEPT ![e].pc = "patch", ![e].doc = doc]
          PROVE  ExtendOK(e)'
        <3>1. doc \in fileDb /\ doc.id = ext[e].file
            BY <2>2, FoundFile DEF IInv
        <3>2. /\ ext'[e].pc = "patch" /\ ext'[e].doc = doc
              /\ ext'[e].file = ext[e].file /\ ext'[e].date = ext[e].date
            BY <1>ext, <2>2 DEF ExtendJob
        <3>3. SameFile(doc, doc) /\ fileDb' = fileDb
            BY <1>2 DEF SameFile, FindFile
        <3>4. ext[e].file \in FileId /\ ext[e].date \in Date
            BY <1>2, <1>i DEF FindFile, ExtendOK
        <3> QED BY <3>1, <3>2, <3>3, <3>4 DEF ExtendOK, ExtUpdating
    <2> QED BY <1>2, <2>1, <2>2 DEF FindFile
<1>3. ASSUME ServiceNodeExtends(e) PROVE ExtendOK(e)'
    <2>1. /\ ext'[e].pc \in {"patched", "error"}
          /\ ext'[e].doc = ext[e].doc
          /\ ext'[e].file = ext[e].file /\ ext'[e].date = ext[e].date
        BY <1>3, <1>ext DEF ServiceNodeExtends, UpdateExt, ExtendJob
    <2>2. /\ ext[e].file \in FileId /\ ext[e].date \in Date
          /\ sn[ext[e].file].state = "stored"
        BY <1>3, <1>i DEF ServiceNodeExtends, ExtendOK
    <2>3. ext[e].date \in accepted'[ext[e].file]
        BY <1>3, <2>2 DEF ServiceNodeExtends, IInv, TypeOK
    <2>4. sn'[ext[e].file].state = "stored"
        BY <1>hist, <2>2
    <2>5. fileDb' = fileDb
        BY <1>3 DEF ServiceNodeExtends
    <2> QED BY <1>i, <2>1, <2>2, <2>3, <2>4, <2>5 DEF ExtendOK, ExtUpdating
<1>4. ASSUME ExtendFails(e) \/ NothingToUpdate(e) \/ SaveExtendedOwner(e)
             \/ UpdateFile(e)
      PROVE  ExtendOK(e)'
    BY <1>4, <1>pc, <1>ext
    DEF ExtendFails, NothingToUpdate, SaveExtendedOwner, UpdateFile, UpdateExt,
        ExtendJob
<1>5. ASSUME FindDataOwner(e) PROVE ExtendOK(e)'
    <2>1. CASE UpdateExt(e, "error")
        <3>1. ext[e].pc = "patched"
            BY <1>5 DEF FindDataOwner
        <3>2. ext' = [ext EXCEPT ![e].pc = "error"]
            BY <2>1 DEF UpdateExt
        <3>3. /\ ext'[e].pc = "error"
              /\ ext'[e].file = ext[e].file /\ ext'[e].date = ext[e].date
              /\ ext'[e].doc = ext[e].doc /\ ext'[e].cur = ext[e].cur
              /\ ext'[e].owner = ext[e].owner
            BY <1>ext, <3>2 DEF ExtendJob
        <3> QED BY <1>pc, <3>1, <3>3
    <2>2. ASSUME NEW o \in FirstOf(OwnersOfFile(ext[e].file)), NEW n, NEW p,
                 n = [ext[e].doc EXCEPT !.keepUntil = ext[e].date],
                 p = [o EXCEPT !.file = n],
                 ext' = [ext EXCEPT ![e].pc = "saveFile", ![e].doc = n,
                                    ![e].owner = p]
          PROVE  ExtendOK(e)'
        <3>1. o \in ownerDb /\ o.file.id = ext[e].file /\ o \in OwnerDoc
            BY <2>2, FoundOwner DEF IInv
        <3>2. ext[e].doc \in FileDoc
            BY <1>5, <1>ext DEF FindDataOwner, ExtendJob
        <3>3. /\ ext[e].file \in FileId /\ ext[e].date \in Date
              /\ ext[e].date \in accepted[ext[e].file]
              /\ sn[ext[e].file].state = "stored"
              /\ ext[e].doc.id = ext[e].file
            BY <1>5, <1>i, <3>2 DEF FindDataOwner, ExtendOK
        <3>4. PICK d \in fileDb : SameFile(d, ext[e].doc)
            BY <1>i, <3>2 DEF ExtendOK
        <3>5. /\ n \in FileDoc /\ n.keepUntil = ext[e].date
              /\ n.id = ext[e].file /\ SameFile(d, n)
            BY <2>2, <3>2, <3>3, <3>4 DEF FileDoc, SameFile
        <3>6. p \in OwnerDoc /\ p.file = n /\ p._id = o._id
            BY <2>2, <3>1, <3>5 DEF OwnerDoc
        <3>7. Genuine(o.file) /\ Genuine(d)
            BY <3>1 DEF IInv, RecordInv
        <3>8. o.file.key = d.key
            <4>1. [id |-> ext[e].file, key |-> o.file.key] \in temp
                BY <3>1, <3>7 DEF Genuine
            <4>2. d.id = ext[e].file
                BY <3>3, <3>4 DEF SameFile
            <4>3. [id |-> ext[e].file, key |-> d.key] \in temp
                BY <3>7, <4>2 DEF Genuine
            <4> QED BY <3>3, <4>1, <4>3, OneKeyPerFile
        <3>9. SameOwner(o, p)
            BY <3>1, <3>5, <3>6, <3>8 DEF SameOwner, SameFile
        <3>10. UNCHANGED <<sn, accepted, fileDb, ownerDb>>
            BY <1>5 DEF FindDataOwner
        <3>11. /\ ext'[e].pc = "saveFile" /\ ext'[e].doc = n /\ ext'[e].owner = p
               /\ ext'[e].file = ext[e].file /\ ext'[e].date = ext[e].date
            BY <1>ext, <2>2 DEF ExtendJob
        <3> QED
            BY <3>1, <3>3, <3>5, <3>6, <3>9, <3>10, <3>11
            DEF ExtendOK, ExtUpdating
    <2> QED BY <1>5, <2>1, <2>2 DEF FindDataOwner
<1>6. ASSUME FindSavedFile(e) PROVE ExtendOK(e)'
    <2>1. PICK cur \in fileDb :
            /\ cur._id = ext[e].doc._id
            /\ ext' = [ext EXCEPT ![e].pc = "updateFile", ![e].cur = cur]
        BY <1>6 DEF FindSavedFile
    <2>2. /\ ext'[e].pc = "updateFile" /\ ext'[e].cur = cur
          /\ ext'[e].doc = ext[e].doc /\ ext'[e].owner = ext[e].owner
          /\ ext'[e].file = ext[e].file /\ ext'[e].date = ext[e].date
        BY <1>ext, <2>1 DEF ExtendJob
    <2>3. cur \in FileDoc
        BY DEF IInv, TypeOK
    <2>4. ext[e].pc = "saveFile"
        BY <1>6 DEF FindSavedFile
    <2>5. PICK d \in fileDb : SameFile(d, ext[e].doc)
        BY <1>i, <2>4 DEF ExtendOK, ExtUpdating
    <2>6. SameFile(cur, ext[e].doc)
        BY <2>1, <2>5 DEF IInv, RecordInv, SameFile
    <2>7. UNCHANGED <<sn, accepted, fileDb, ownerDb>>
        BY <1>6 DEF FindSavedFile
    <2> QED BY <1>i, <2>2, <2>3, <2>4, <2>6, <2>7 DEF ExtendOK, ExtUpdating
<1>7. ASSUME NEW b \in Extend, b # e,
             \/ \E f \in FileId, d \in Date : BeginExtend(b, f, d)
             \/ ExtendStep(b)
      PROVE  ext'[e] = ext[e]
    <2>1. ASSUME NEW f \in FileId, NEW d \in Date, BeginExtend(b, f, d)
          PROVE  ext'[e] = ext[e]
        BY <1>7, <1>ext, <2>1 DEF BeginExtend
    <2>2. ASSUME FindFile(b) \/ ServiceNodeExtends(b) \/ ExtendFails(b)
                 \/ NothingToUpdate(b)
          PROVE  ext'[e] = ext[e]
        BY <1>7, <1>ext, <2>2
        DEF FindFile, ServiceNodeExtends, ExtendFails, NothingToUpdate, UpdateExt
    <2>3. ASSUME FindDataOwner(b) \/ FindSavedFile(b) \/ UpdateFile(b)
                 \/ SaveExtendedOwner(b)
          PROVE  ext'[e] = ext[e]
        BY <1>7, <1>ext, <2>3
        DEF FindDataOwner, FindSavedFile, UpdateFile, SaveExtendedOwner, UpdateExt
    <2> QED BY <1>7, <2>1, <2>2, <2>3 DEF ExtendStep
<1>8. ASSUME Crash PROVE ExtendOK(e)'
    <2>1. ext'[e] = IF ext[e].pc = "patch" THEN [ext[e] EXCEPT !.pc = "orphan"]
                    ELSE IF ext[e].pc \in ExtActive
                           THEN [ext[e] EXCEPT !.pc = "error"]
                    ELSE ext[e]
        BY <1>8 DEF Crash
    <2> QED BY <1>ext, <1>pc, <2>1 DEF ExtendJob, ExtActive
<1>9. ASSUME NEW u \in Upload, UploadStep(u) \/ UploadFault(u)
      PROVE  ext' = ext
    BY <1>9
    DEF UploadStep, UploadFault, EncryptWithAes, CreateAtServiceNode,
        SaveTemporaryFile, SendChunk, AllChunksSent, UploadFileToDds,
        UploadFails, CreateReplyLost, ChunkReplyLost, BackgroundJobStops
<1>10. ASSUME NEW c \in Check, SaveJobStep(c) PROVE ext' = ext
    BY <1>10 DEF SaveJobStep, GetFileInfo, FindFileKey, SaveJobStops, SaveFile,
                 SaveDataOwner
<1>11. ASSUME NEW l \in LocalFile, CreateLocalFile(l) \/ UploadLocalFileChunk(l)
       PROVE  ext' = ext
    BY <1>11 DEF CreateLocalFile, UploadLocalFileChunk
<1>12. ASSUME NEW u \in Upload, NEW l \in LocalFile, ReadLocalFile(u, l)
       PROVE  ext' = ext
    BY <1>12 DEF ReadLocalFile
<1>13. ASSUME NEW f \in FileId, DdsAnswers(f) \/ DeleteServiceNodeFile(f)
       PROVE  ext' = ext
    BY <1>13 DEF DdsAnswers, DeleteServiceNodeFile
<1>14. ASSUME NEW c \in Check, NEW f \in FileId, CheckStatus(c, f)
       PROVE  ext' = ext
    BY <1>14 DEF CheckStatus
<1>15. CASE UNCHANGED vars
    BY <1>15, <1>keep DEF vars
<1> QED
    BY <1>keep, <1>1, <1>2, <1>3, <1>4, <1>5, <1>6, <1>7, <1>8, <1>9, <1>10,
       <1>11, <1>12, <1>13, <1>14, <1>15 DEF Next, ExtendStep

\* A file given to DDS has its record.
LEMMA DdsStepInv == IInv /\ [Next]_vars => DdsInv'
<1> SUFFICES ASSUME IInv, [Next]_vars, NEW f \in FileId, sn'[f].state \in AtDds
             PROVE  \E t \in temp' : t.id = f
    BY DEF DdsInv
<1>sn. sn \in [FileId -> SnFile]
    BY DEF IInv, TypeOK
<1>kept. (\E t \in temp : t.id = f) => \E t \in temp' : t.id = f
    BY HistoryGrows
<1>old. sn[f].state \in AtDds => \E t \in temp' : t.id = f
    BY <1>kept DEF IInv, DdsInv
<1> USE DEF SnFile
<1>1. ASSUME NEW u \in Upload, NEW g \in FileId, NEW d \in Date,
             CreateAtServiceNode(u, g, d) \/ CreateReplyLost(u, g, d)
      PROVE  sn[f].state \in AtDds
    <2>1. sn' = [sn EXCEPT ![g].state = "created", ![g].copy = TRUE,
                           ![g].keepUntil = d]
        BY <1>1 DEF CreateAtServiceNode, CreateReplyLost
    <2>2. f # g => sn'[f] = sn[f]
        BY <1>sn, <2>1
    <2>3. f = g => sn'[f].state = "created"
        BY <1>sn, <2>1
    <2> QED BY <2>2, <2>3 DEF AtDds
<1>2. ASSUME NEW u \in Upload, SendChunk(u) \/ ChunkReplyLost(u)
      PROVE  sn[f].state \in AtDds
    BY <1>sn, <1>2 DEF SendChunk, ChunkReplyLost
<1>3. ASSUME NEW u \in Upload, UploadFileToDds(u)
      PROVE  \E t \in temp' : t.id = f
    <2>1. CASE f = up[u].file
        BY <1>3, <1>kept, <2>1 DEF UploadFileToDds
    <2>2. CASE f # up[u].file
        BY <1>3, <1>sn, <1>old, <2>2 DEF UploadFileToDds
    <2> QED BY <2>1, <2>2
<1>4. ASSUME NEW g \in FileId, DdsAnswers(g) PROVE sn[f].state \in AtDds
    <2>1. sn[g].state \in AtDds
        BY <1>4 DEF DdsAnswers, AtDds
    <2>2. f # g => sn'[f] = sn[f]
        BY <1>sn, <1>4 DEF DdsAnswers
    <2> QED BY <2>1, <2>2
<1>5. ASSUME NEW g \in FileId, DeleteServiceNodeFile(g)
      PROVE  sn[f].state \in AtDds
    BY <1>sn, <1>5 DEF DeleteServiceNodeFile
<1>6. ASSUME NEW e \in Extend, ServiceNodeExtends(e)
      PROVE  sn[f].state \in AtDds
    BY <1>sn, <1>6 DEF ServiceNodeExtends
<1>7. ASSUME UNCHANGED sn PROVE sn[f].state \in AtDds
    BY <1>7
<1>8. CASE UNCHANGED vars
    BY <1>7, <1>8, <1>old DEF vars
<1>9. ASSUME NEW u \in Upload, UploadStep(u) \/ UploadFault(u)
      PROVE  \E t \in temp' : t.id = f
    <2>1. CASE \/ EncryptWithAes(u) \/ SaveTemporaryFile(u) \/ AllChunksSent(u)
               \/ UploadFails(u) \/ BackgroundJobStops(u)
        BY <1>7, <1>old, <2>1
        DEF EncryptWithAes, SaveTemporaryFile, AllChunksSent, UploadFails,
            BackgroundJobStops
    <2> QED BY <1>1, <1>2, <1>3, <1>9, <1>old, <2>1 DEF UploadStep, UploadFault
<1>10. ASSUME NEW c \in Check, SaveJobStep(c) PROVE UNCHANGED sn
    BY <1>10 DEF SaveJobStep, GetFileInfo, FindFileKey, SaveJobStops, SaveFile,
                 SaveDataOwner
<1>11. ASSUME NEW e \in Extend, ExtendStep(e), ~ServiceNodeExtends(e)
       PROVE  UNCHANGED sn
    BY <1>11 DEF ExtendStep, FindFile, ExtendFails, NothingToUpdate,
                 FindDataOwner, FindSavedFile, UpdateFile, SaveExtendedOwner
<1>12. ASSUME NEW l \in LocalFile,
              \/ CreateLocalFile(l) \/ UploadLocalFileChunk(l)
              \/ \E u \in Upload : ReadLocalFile(u, l)
       PROVE  UNCHANGED sn
    BY <1>12 DEF CreateLocalFile, UploadLocalFileChunk, ReadLocalFile
<1>13. ASSUME NEW c \in Check, NEW g \in FileId, CheckStatus(c, g)
       PROVE  UNCHANGED sn
    BY <1>13 DEF CheckStatus
<1>14. ASSUME NEW e \in Extend, NEW g \in FileId, NEW d \in Date,
              BeginExtend(e, g, d)
       PROVE  UNCHANGED sn
    BY <1>14 DEF BeginExtend
<1>15. Crash => UNCHANGED sn
    BY DEF Crash
<1> QED
    BY <1>4, <1>5, <1>6, <1>7, <1>8, <1>9, <1>10, <1>11, <1>12, <1>13, <1>14,
       <1>15, <1>old DEF Next

\* The initial state satisfies every part of the invariant.
LEMMA InvInit == Init => IInv
<1> SUFFICES ASSUME Init PROVE IInv
    OBVIOUS
<1>1. TypeOK
    BY TypeInit
<1>2. UploadInv
    BY DEF Init, UploadInv, Keyed
<1>3. TempInv
    BY DEF Init, TempInv, Keyed
<1>4. ContentInv
    BY DEF Init, ContentInv
<1>5. DdsInv
    BY DEF Init, DdsInv, AtDds
<1>6. RecordInv
    BY DEF Init, RecordInv
<1>7. SaveJobInv
    BY DEF Init, SaveJobInv, SaveJobOK
<1>8. ExtendInv
    BY NullAssumption DEF Init, ExtendInv, ExtendOK, ExtUpdating
<1> QED BY <1>1, <1>2, <1>3, <1>4, <1>5, <1>6, <1>7, <1>8 DEF IInv

\* Every step keeps every part of it.
LEMMA InvStep == IInv /\ [Next]_vars => IInv'
    BY TypeStep, UploadStepInv, TempStepInv, ContentStepInv, DdsStepInv,
       RecordStepInv, SaveJobStepInv, ExtendStepInv
    DEF IInv

\* IInv holds in every reachable state, whatever requests, failures and
\* crashes of the backend there are.
THEOREM Inductive == Spec => []IInv
    BY InvInit, InvStep, PTL DEF Spec

\* Every variable has its type in every reachable state.
THEOREM TypeCorrect == Spec => []TypeOK
<1>1. IInv => TypeOK
    BY DEF IInv
<1> QED BY Inductive, <1>1, PTL

\* No content reaches a service node before the key it is encrypted with is
\* stored by createServiceNodeFile.
THEOREM KeysAreNeverLost == Spec => []KeyStoredBeforeData
<1>1. ASSUME IInv PROVE KeyStoredBeforeData
    <2> SUFFICES ASSUME NEW f \in FileId, NEW k \in sn[f].keys
                 PROVE  \E t \in temp : t.id = f /\ t.key = k
        BY DEF KeyStoredBeforeData
    <2>1. k \in Upload
        BY <1>1 DEF IInv, TypeOK, SnFile, Key
    <2>2. up[k].file = f /\ up[k].pc \in Keyed
        BY <1>1 DEF IInv, ContentInv
    <2>3. [id |-> f, key |-> k] \in temp
        BY <1>1, <2>1, <2>2 DEF IInv, TempInv
    <2> QED BY <2>3
<1> QED BY Inductive, <1>1, PTL

\* The key a File document carries decrypts every chunk the service node has.
THEOREM RecordedKeyDecrypts == Spec => []FileDocHasKeyOfContent
<1>1. ASSUME IInv PROVE FileDocHasKeyOfContent
    <2> SUFFICES ASSUME NEW d \in fileDb, NEW k \in sn[d.id].keys
                 PROVE  k = d.key
        BY DEF FileDocHasKeyOfContent
    <2>1. d \in FileDoc /\ d.id \in FileId
        BY <1>1 DEF IInv, TypeOK, FileDoc
    <2>2. [id |-> d.id, key |-> d.key] \in temp
        BY <1>1 DEF IInv, RecordInv, Genuine
    <2>3. k \in Upload
        BY <1>1, <2>1 DEF IInv, TypeOK, SnFile, Key
    <2>4. up[k].file = d.id /\ up[k].pc \in Keyed
        BY <1>1, <2>1 DEF IInv, ContentInv
    <2>5. [id |-> d.id, key |-> k] \in temp
        BY <1>1, <2>3, <2>4 DEF IInv, TempInv
    <2> QED BY <1>1, <2>1, <2>2, <2>5, OneKeyPerFile
<1> QED BY Inductive, <1>1, PTL

\* uploadFileToDds is only called for a file whose every chunk was received.
THEOREM OnlyWholeFilesAreSentToDds == Spec => []SentToDdsWhole
<1>1. IInv => SentToDdsWhole
    BY DEF IInv, ContentInv, SentToDdsWhole
<1> QED BY Inductive, <1>1, PTL

\* A File document is only saved for a file the network has stored, with an
\* owner's address and a name: postFile runs after the network confirmed.
THEOREM RecordsAreSound == Spec => []RecordedFilesAreStored
<1>1. IInv => RecordedFilesAreStored
    BY DEF IInv, RecordInv, Genuine, RecordedFilesAreStored
<1> QED BY Inductive, <1>1, PTL

\* Every DataOwner refers to a File document of the same file and key, whatever
\* fails between the two saves: the file is saved first.
THEOREM OwnersHaveTheirFile == Spec => []OwnerRefersToFile
<1>1. IInv => OwnerRefersToFile
    BY DEF IInv, RecordInv, OwnerRefersToFile
<1> QED BY Inductive, <1>1, PTL

\* Every recorded date is one the service node has accepted for that file, for
\* any number of extensions that race or fail.
THEOREM RecordedDatesWereAccepted == Spec => []DatesWereAccepted
<1>1. IInv => DatesWereAccepted
    BY DEF IInv, RecordInv, Genuine, DatesWereAccepted
<1> QED BY Inductive, <1>1, PTL

\* No request, failure or crash makes a document disappear or become one of
\* another file.
THEOREM NothingIsLost == Spec => RecordsAreKept
<1>1. IInv /\ [Next]_vars =>
        [/\ \A d \in fileDb : \E n \in fileDb' : SameFile(n, d)
         /\ \A o \in ownerDb : \E n \in ownerDb' : SameOwner(n, o)]_vars
    BY FilesAreKept, OwnersAreKept
<1> QED BY Inductive, <1>1, PTL DEF Spec, RecordsAreKept
-----------------------------------------------------------------------------
(* The files component implements the custody of keys (DataCustody).       *)

\* The keys stored for a file are the one of the request that created it.
LEMMA EscrowOf ==
    ASSUME IInv, NEW u \in Upload, up[u].file \in FileId
    PROVE  \A t \in temp : t.id = up[u].file => t.key = u
<1> SUFFICES ASSUME NEW t \in temp, t.id = up[u].file PROVE t.key = u
    OBVIOUS
<1>1. t.key \in Upload
    BY DEF IInv, TypeOK, TempDoc, Key
<1>2. up[t.key].file = up[u].file
    BY DEF IInv, TempInv
<1> QED BY <1>1, <1>2, NullAssumption DEF IInv, UploadInv

\* Every step of the files component is a step of the custody, or changes
\* nothing the custody shows.
LEMMA CustodyStep == IInv /\ [Next]_vars => [Custody!Next]_Custody!vars
<1> SUFFICES ASSUME IInv, [Next]_vars PROVE [Custody!Next]_Custody!vars
    OBVIOUS
<1>sn. sn \in [FileId -> SnFile]
    BY DEF IInv, TypeOK
<1>up. up \in [Upload -> UploadJob]
    BY DEF IInv, TypeOK
<1> DEFINE Escrow == [f \in FileId |-> {t.key : t \in {x \in temp : x.id = f}}]
           Sent == [f \in FileId |-> sn[f].keys]
           Stored == {f \in FileId : sn[f].state = "stored"}
           Recorded == [f \in FileId |-> {d.key : d \in FilesWithId(f)}]
           Listed == {o.file.id : o \in ownerDb}
\* What each part of the mapping reads.
<1>escrow. temp' = temp => Escrow' = Escrow
    OBVIOUS
<1>sent. (\A f \in FileId : sn'[f].keys = sn[f].keys) => Sent' = Sent
    OBVIOUS
<1>stored. (\A f \in FileId : sn'[f].state = "stored" <=> sn[f].state = "stored")
              => Stored' = Stored
    OBVIOUS
<1>recorded. fileDb' = fileDb => Recorded' = Recorded
    BY DEF FilesWithId
<1>listed. ownerDb' = ownerDb => Listed' = Listed
    OBVIOUS
<1>same. ASSUME UNCHANGED <<Escrow, Sent, Stored, Recorded, Listed>>
         PROVE  UNCHANGED Custody!vars
    BY <1>same DEF Custody!vars
<1>inEscrow. \A f \in FileId, t \in temp : t.id = f => t.key \in Escrow[f]
    OBVIOUS
<1>step. \A f \in FileId :
            \/ \E k \in Key : Custody!Escrow(f, k)
            \/ Custody!Send(f)
            \/ Custody!Store(f)
            \/ Custody!Record(f)
            \/ Custody!List(f)
            => Custody!Next
    BY DEF Custody!Next
\* SaveTemporaryFile stores the key of a file for the first time.
<1>1. ASSUME NEW u \in Upload, SaveTemporaryFile(u) PROVE Custody!Next
    <2>1. PICK f \in FileId : f = up[u].file
        BY <1>1 DEF SaveTemporaryFile, IInv, UploadInv
    <2>2. \A t \in temp : t.id # f /\ t.key # u
        BY <1>1, <2>1, EscrowOf DEF SaveTemporaryFile, IInv, TempInv, Keyed
    <2>3. Escrow[f] = {} /\ \A g \in FileId : u \notin Escrow[g]
        BY <2>2
    <2>4. temp' = temp \cup {[id |-> f, key |-> u]}
        BY <1>1, <2>1 DEF SaveTemporaryFile
    <2>5. Escrow' = [Escrow EXCEPT ![f] = {u}]
        <3>1. Escrow'[f] = {u}
            <4>1. [id |-> f, key |-> u] \in temp'
                BY <2>4
            <4>2. \A t \in temp' : t.id = f => t.key = u
                BY <2>2, <2>4
            <4> QED BY <4>1, <4>2
        <3>2. \A g \in FileId : g # f => Escrow'[g] = Escrow[g]
            BY <2>4
        <3> QED BY <3>1, <3>2
    <2>6. UNCHANGED <<Sent, Stored, Recorded, Listed>>
        BY <1>1, <1>recorded DEF SaveTemporaryFile
    <2>7. Custody!Escrow(f, u)
        BY <2>3, <2>5, <2>6 DEF Custody!Escrow
    <2> QED BY <1>step, <2>7 DEF Key
\* A chunk is encrypted with the stored key of a file DDS does not have yet.
<1>2. ASSUME NEW u \in Upload, SendChunk(u) \/ ChunkReplyLost(u)
      PROVE  Custody!Next
    <2>1. up[u].pc = "sending"
        BY <1>2 DEF SendChunk, ChunkReplyLost
    <2>2. PICK f \in FileId : f = up[u].file
        BY <2>1 DEF IInv, UploadInv, Keyed
    <2>3. sn' = [sn EXCEPT ![f].chunks = @ + 1, ![f].keys = @ \cup {u}]
        BY <1>2, <2>2 DEF SendChunk, ChunkReplyLost
    <2>4. Escrow[f] = {u}
        <3>1. [id |-> f, key |-> u] \in temp
            BY <2>1, <2>2 DEF IInv, TempInv, Keyed
        <3>2. \A t \in temp : t.id = f => t.key = u
            BY <2>2, EscrowOf
        <3> QED BY <3>1, <3>2
    <2>5. sn[f].state # "stored"
        BY <2>1, <2>2, NullAssumption DEF IInv, ContentInv, AtDds
    <2>6. \A k \in sn[f].keys : k = u
        <3> SUFFICES ASSUME NEW k \in sn[f].keys PROVE k = u
            OBVIOUS
        <3>1. k \in Upload
            BY <1>sn DEF SnFile, Key
        <3>2. up[k].file = f
            BY DEF IInv, ContentInv
        <3> QED BY <2>2, <3>1, <3>2, NullAssumption DEF IInv, UploadInv
    <2>7. /\ sn'[f].keys = {u}
          /\ sn'[f].state = sn[f].state
          /\ \A g \in FileId : g # f => sn'[g] = sn[g]
        BY <1>sn, <2>3, <2>6 DEF SnFile
    <2>8. Sent' = [Sent EXCEPT ![f] = Escrow[f]]
        <3>1. Sent'[f] = {u} /\ \A g \in FileId : g # f => Sent'[g] = Sent[g]
            BY <2>7
        <3> QED BY <2>4, <3>1
    <2>9. Stored' = Stored
        BY <1>stored, <2>7
    <2>10. UNCHANGED <<Escrow, Recorded, Listed>>
        BY <1>2, <1>recorded DEF SendChunk, ChunkReplyLost
    <2>11. Custody!Send(f)
        BY <2>4, <2>5, <2>8, <2>9, <2>10 DEF Custody!Send
    <2> QED BY <1>step, <2>11
\* The network stores a file whose key is kept.
<1>3. ASSUME NEW f \in FileId, DdsAnswers(f)
      PROVE  [Custody!Next]_Custody!vars
    <2>1. PICK s \in {"stored", "failed"} : sn' = [sn EXCEPT ![f].state = s]
        BY <1>3 DEF DdsAnswers
    <2>2. /\ sn'[f].state = s /\ sn'[f].keys = sn[f].keys
          /\ \A g \in FileId : g # f => sn'[g] = sn[g]
        BY <1>sn, <2>1 DEF SnFile
    <2>3. sn[f].state = "sentToDds"
        BY <1>3 DEF DdsAnswers
    <2>4. UNCHANGED <<Escrow, Recorded, Listed>>
        BY <1>3, <1>recorded DEF DdsAnswers
    <2>5. Sent' = Sent
        BY <1>sent, <2>2
    <2>6. CASE s = "stored"
        <3>1. Escrow[f] # {}
            BY <2>3, <1>inEscrow DEF IInv, DdsInv, AtDds
        <3>2. Stored' = Stored \cup {f}
            BY <2>2, <2>6
        <3>3. Custody!Store(f)
            BY <2>4, <2>5, <3>1, <3>2 DEF Custody!Store
        <3> QED BY <1>step, <3>3
    <2>7. CASE s = "failed"
        <3>1. Stored' = Stored
            BY <1>stored, <2>2, <2>3, <2>7
        <3> QED BY <1>same, <2>4, <2>5, <3>1
    <2> QED BY <2>6, <2>7
\* A File document is saved for a stored file, with its key.
<1>4. ASSUME NEW c \in Check, SaveFile(c) PROVE Custody!Next
    <2>1. chk[c].pc = "saveFile"
        BY <1>4 DEF SaveFile
    <2>2. PICK i \in DocId : fileDb' = fileDb \cup {NewFile(c, i)}
        BY <1>4 DEF SaveFile
    <2>3. PICK f \in FileId : f = chk[c].file
        BY <2>1 DEF IInv, SaveJobInv, SaveJobOK
    <2>4. PICK k : k = chk[c].key
        OBVIOUS
    <2>5. NewFile(c, i).id = f /\ NewFile(c, i).key = k
        BY <2>3, <2>4 DEF NewFile
    <2>6. f \in Stored /\ [id |-> f, key |-> k] \in temp
        BY <2>1, <2>3, <2>4 DEF IInv, SaveJobInv, SaveJobOK
    <2>7. Escrow[f] = {k}
        <3>1. ASSUME NEW t \in temp, t.id = f PROVE t.key = k
            <4>1. t = [id |-> f, key |-> t.key]
                BY <3>1 DEF IInv, TypeOK, TempDoc
            <4> QED BY <2>6, <4>1, OneKeyPerFile
        <3> QED BY <2>6, <3>1
    <2>8. \A d \in fileDb : d.id = f => d.key = k
        <3> SUFFICES ASSUME NEW d \in fileDb, d.id = f PROVE d.key = k
            OBVIOUS
        <3>1. [id |-> f, key |-> d.key] \in temp
            BY DEF IInv, RecordInv, Genuine
        <3> QED BY <2>6, <3>1, OneKeyPerFile
    <2>9. Recorded' = [Recorded EXCEPT ![f] = {k}]
        <3>1. Recorded'[f] = {k}
            BY <2>2, <2>5, <2>8 DEF FilesWithId
        <3>2. \A g \in FileId : g # f => Recorded'[g] = Recorded[g]
            BY <2>2, <2>5 DEF FilesWithId
        <3> QED BY <3>1, <3>2
    <2>10. UNCHANGED <<Escrow, Sent, Stored, Listed>>
        BY <1>4 DEF SaveFile
    <2>11. Custody!Record(f)
        BY <2>6, <2>7, <2>9, <2>10 DEF Custody!Record
    <2> QED BY <1>step, <2>11
\* A DataOwner is saved for a recorded file.
<1>5. ASSUME NEW c \in Check, SaveDataOwner(c) PROVE Custody!Next
    <2>1. chk[c].pc = "saveOwner"
        BY <1>5 DEF SaveDataOwner
    <2>2. PICK n \in FileDoc : n = chk[c].doc
        BY <2>1 DEF IInv, SaveJobInv, SaveJobOK
    <2>3. PICK f \in FileId : f = n.id
        BY DEF FileDoc
    <2>4. PICK d \in fileDb : SameFile(d, n)
        BY <2>1, <2>2 DEF IInv, SaveJobInv, SaveJobOK
    <2>5. Recorded[f] # {}
        BY <2>3, <2>4 DEF SameFile, FilesWithId
    <2>6. PICK i \in DocId : ownerDb' = ownerDb \cup {NewOwner(c, i)}
        BY <1>5 DEF SaveDataOwner
    <2>7. NewOwner(c, i).file.id = f
        BY <2>2, <2>3 DEF NewOwner
    <2>8. Listed' = Listed \cup {f}
        BY <2>6, <2>7
    <2>9. UNCHANGED <<Escrow, Sent, Stored, Recorded>>
        BY <1>5, <1>recorded DEF SaveDataOwner
    <2>10. Custody!List(f)
        BY <2>5, <2>8, <2>9 DEF Custody!List
    <2> QED BY <1>step, <2>10
\* The other steps leave the custody as it is.
<1>6. ASSUME NEW u \in Upload, NEW g \in FileId, NEW d \in Date,
             CreateAtServiceNode(u, g, d) \/ CreateReplyLost(u, g, d)
      PROVE  UNCHANGED Custody!vars
    <2>1. /\ sn' = [sn EXCEPT ![g].state = "created", ![g].copy = TRUE,
                              ![g].keepUntil = d]
          /\ sn[g].state = "absent"
          /\ UNCHANGED <<temp, fileDb, ownerDb>>
        BY <1>6 DEF CreateAtServiceNode, CreateReplyLost
    <2>2. \A f \in FileId : /\ sn'[f].keys = sn[f].keys
                            /\ sn'[f].state = "stored" <=> sn[f].state = "stored"
        BY <1>sn, <2>1 DEF SnFile
    <2> QED BY <1>same, <1>sent, <1>stored, <1>recorded, <2>1, <2>2
<1>7. ASSUME NEW u \in Upload, UploadFileToDds(u) PROVE UNCHANGED Custody!vars
    <2>1. up[u].pc = "signing"
        BY <1>7 DEF UploadFileToDds
    <2>2. PICK f \in FileId : f = up[u].file
        BY <2>1 DEF IInv, UploadInv, Keyed
    <2>3. sn' = [sn EXCEPT ![f].state = "sentToDds"]
        BY <1>7, <2>2 DEF UploadFileToDds
    <2>4. sn[f].state # "stored"
        BY <2>1, <2>2, NullAssumption DEF IInv, ContentInv, AtDds
    <2>5. \A g \in FileId : /\ sn'[g].keys = sn[g].keys
                            /\ sn'[g].state = "stored" <=> sn[g].state = "stored"
        BY <1>sn, <2>3, <2>4 DEF SnFile
    <2>6. UNCHANGED <<temp, fileDb, ownerDb>>
        BY <1>7 DEF UploadFileToDds
    <2> QED BY <1>same, <1>sent, <1>stored, <1>recorded, <2>5, <2>6
<1>8. ASSUME NEW f \in FileId, DeleteServiceNodeFile(f)
      PROVE  UNCHANGED Custody!vars
    <2>1. \A g \in FileId : /\ sn'[g].keys = sn[g].keys
                            /\ sn'[g].state = "stored" <=> sn[g].state = "stored"
        BY <1>sn, <1>8 DEF DeleteServiceNodeFile, SnFile
    <2>2. UNCHANGED <<temp, fileDb, ownerDb>>
        BY <1>8 DEF DeleteServiceNodeFile
    <2> QED BY <1>same, <1>sent, <1>stored, <1>recorded, <2>1, <2>2
<1>9. ASSUME NEW e \in Extend, ServiceNodeExtends(e)
      PROVE  UNCHANGED Custody!vars
    <2>1. \A g \in FileId : /\ sn'[g].keys = sn[g].keys
                            /\ sn'[g].state = "stored" <=> sn[g].state = "stored"
        BY <1>sn, <1>9 DEF ServiceNodeExtends, SnFile
    <2>2. UNCHANGED <<temp, fileDb, ownerDb>>
        BY <1>9 DEF ServiceNodeExtends
    <2> QED BY <1>same, <1>sent, <1>stored, <1>recorded, <2>1, <2>2
\* A document is replaced by one of the same file and key.
<1>10. ASSUME NEW e \in Extend, UpdateFile(e) PROVE UNCHANGED Custody!vars
    <2>1. ext[e].pc = "updateFile"
        BY <1>10 DEF UpdateFile
    <2>2. PICK old : old = ext[e].cur
        OBVIOUS
    <2>3. PICK new : new = ext[e].doc
        OBVIOUS
    <2>4. SameFile(old, new)
        BY <2>1, <2>2, <2>3 DEF IInv, ExtendInv, ExtendOK
    <2>5. fileDb' = IF old \in fileDb THEN (fileDb \ {old}) \cup {new} ELSE fileDb
        BY <1>10, <2>2, <2>3 DEF UpdateFile
    <2>6. \A f \in FileId :
            {d.key : d \in {x \in fileDb' : x.id = f}}
                = {d.key : d \in {x \in fileDb : x.id = f}}
        BY <2>4, <2>5 DEF SameFile
    <2>7. Recorded' = Recorded
        BY <2>6 DEF FilesWithId
    <2>8. UNCHANGED <<Escrow, Sent, Stored, Listed>>
        BY <1>10 DEF UpdateFile
    <2> QED BY <1>same, <2>7, <2>8
<1>11. ASSUME NEW e \in Extend, SaveExtendedOwner(e)
       PROVE  UNCHANGED Custody!vars
    <2>1. ext[e].pc = "saveOwner"
        BY <1>11 DEF SaveExtendedOwner
    <2>2. PICK n : n = ext[e].owner
        OBVIOUS
    <2>3. PICK o \in ownerDb : SameOwner(o, n)
        BY <2>1, <2>2 DEF IInv, ExtendInv, ExtendOK, ExtUpdating
    <2>4. \A p \in ownerDb : p._id = n._id => p.file.id = n.file.id
        BY <2>3 DEF IInv, RecordInv, SameOwner
    <2>5. ownerDb' = {IF p._id = n._id THEN n ELSE p : p \in ownerDb}
        BY <1>11, <2>2 DEF SaveExtendedOwner
    <2>6. Listed' = Listed
        BY <2>4, <2>5
    <2>7. UNCHANGED <<Escrow, Sent, Stored, Recorded>>
        BY <1>11, <1>recorded DEF SaveExtendedOwner
    <2> QED BY <1>same, <2>6, <2>7
<1>12. ASSUME UNCHANGED <<sn, temp, fileDb, ownerDb>>
       PROVE  UNCHANGED Custody!vars
    BY <1>same, <1>recorded, <1>12
<1> HIDE DEF Escrow, Sent, Stored, Recorded, Listed
<1>13. ASSUME NEW u \in Upload, UploadStep(u) \/ UploadFault(u)
       PROVE  [Custody!Next]_Custody!vars
    <2>1. CASE \/ EncryptWithAes(u) \/ AllChunksSent(u) \/ UploadFails(u)
               \/ BackgroundJobStops(u)
        BY <1>12, <2>1
        DEF EncryptWithAes, AllChunksSent, UploadFails, BackgroundJobStops
    <2> QED BY <1>1, <1>2, <1>6, <1>7, <1>13, <2>1 DEF UploadStep, UploadFault
<1>14. ASSUME NEW c \in Check, SaveJobStep(c)
       PROVE  [Custody!Next]_Custody!vars
    <2>1. CASE GetFileInfo(c) \/ FindFileKey(c) \/ SaveJobStops(c)
        BY <1>12, <2>1 DEF GetFileInfo, FindFileKey, SaveJobStops
    <2> QED BY <1>4, <1>5, <1>14, <2>1 DEF SaveJobStep
<1>15. ASSUME NEW e \in Extend, ExtendStep(e) PROVE UNCHANGED Custody!vars
    <2>1. CASE \/ FindFile(e) \/ ExtendFails(e) \/ NothingToUpdate(e)
               \/ FindDataOwner(e) \/ FindSavedFile(e)
        BY <1>12, <2>1 DEF FindFile, ExtendFails, NothingToUpdate, FindDataOwner,
                           FindSavedFile
    <2> QED BY <1>9, <1>10, <1>11, <1>15, <2>1 DEF ExtendStep
<1>16. ASSUME NEW l \in LocalFile,
              \/ CreateLocalFile(l) \/ UploadLocalFileChunk(l)
              \/ \E u \in Upload : ReadLocalFile(u, l)
       PROVE  UNCHANGED Custody!vars
    BY <1>12, <1>16 DEF CreateLocalFile, UploadLocalFileChunk, ReadLocalFile
<1>17. ASSUME NEW c \in Check, NEW f \in FileId, CheckStatus(c, f)
       PROVE  UNCHANGED Custody!vars
    BY <1>12, <1>17 DEF CheckStatus
<1>18. ASSUME NEW e \in Extend, NEW f \in FileId, NEW d \in Date,
              BeginExtend(e, f, d)
       PROVE  UNCHANGED Custody!vars
    BY <1>12, <1>18 DEF BeginExtend
<1>19. Crash => UNCHANGED Custody!vars
    BY <1>12 DEF Crash
<1>20. CASE UNCHANGED vars
    BY <1>12, <1>20 DEF vars
<1> QED
    BY <1>3, <1>8, <1>13, <1>14, <1>15, <1>16, <1>17, <1>18, <1>19, <1>20
    DEF Next

\* The files component keeps the custody DataCustody promises: every request,
\* failure and crash is a step of it or leaves it as it is.
THEOREM FilesImplementCustody == Spec => ImplementsCustody
<1>1. Init => Custody!Init
    BY DEF Init, Custody!Init, FilesWithId
<1>2. IInv /\ [Next]_vars => [Custody!Next]_Custody!vars
    BY CustodyStep
<1> QED BY Inductive, <1>1, <1>2, PTL DEF Spec, ImplementsCustody, Custody!Spec

-----------------------------------------------------------------------------
(* The records agree when nothing disturbs them                            *)

\* One PATCH at a time, and a file is recorded once.
OneExtend ==
    \A e, x \in Extend : ext[e].pc \in ExtActive /\ ext[x].pc \in ExtActive => e = x
RecordedOnce == \A d, e \in fileDb : d.id = e.id => d = e

\* No call fails and nothing crashes either.
Undisturbed == faults = 0 /\ OneExtend /\ RecordedOnce

\* From the answer of the service node to the update of the File document.
Ahead == {"patched", "saveFile", "updateFile"}

\* Every PATCH of the file has updated its records, or is about to.
SettledBy(e, f) ==
    ext[e].file = f =>
        \/ ext[e].pc = "ok" /\ ext[e].owner # Null
        \/ ext[e].pc = "find"
        \/ ext[e].pc \in {"patch", "saveOwner"} \cup Ahead /\ ext[e].doc # Null
Settled(f) == \A e \in Extend : SettledBy(e, f)

\* A DataOwner has the copy that is stored, or a PATCH is about to give it.
OwnerCopies ==
    /\ \A o \in ownerDb :
        \/ o.file \in fileDb
        \/ \E e \in Extend : ext[e].pc = "saveOwner" /\ ext[e].owner._id = o._id
    /\ \A o, p \in ownerDb : o.file.id = p.file.id => o = p

\* A save job that has saved the File is the only one to add its DataOwner.
SavedCopies ==
    /\ \A c \in Check : chk[c].pc = "saveOwner" =>
        /\ chk[c].doc \in fileDb
        /\ \A o \in ownerDb : o.file.id # chk[c].doc.id
    /\ \A c, b \in Check :
        /\ chk[c].pc = "saveOwner" /\ chk[b].pc = "saveOwner"
        /\ chk[c].doc.id = chk[b].doc.id
        => c = b

\* What a PATCH has read has not been changed since.
ReadOK(e) ==
    /\ ext[e].pc = "idle" => ext[e].file = Null
    /\ ext[e].pc \in {"idle", "find", "patch", "patched"} => ext[e].owner = Null
    /\ ext[e].pc \in {"patch", "patched"} /\ ext[e].doc # Null
         => ext[e].doc \in fileDb
    /\ ext[e].pc = "updateFile" => ext[e].cur \in fileDb
    /\ ext[e].pc = "saveOwner" => ext[e].doc \in fileDb
    /\ ext[e].pc # "orphan"
ReadCopies == \A e \in Extend : ReadOK(e)

\* The recorded date is the one of the service node but for a PATCH under way.
DateCopies ==
    \A d \in fileDb : Settled(d.id) =>
        \/ /\ d.keepUntil = sn[d.id].keepUntil
           /\ \A e \in Extend : ext[e].file = d.id => ext[e].pc \notin Ahead
        \/ \E e \in Extend : /\ ext[e].file = d.id /\ ext[e].pc \in Ahead
                             /\ ext[e].date = sn[d.id].keepUntil

\* So is the date a save job has fetched for a file that is not recorded yet.
FetchedDates ==
    \A c \in Check : chk[c].pc \in {"key", "saveFile"} /\ Settled(chk[c].file) =>
        \/ chk[c].keepUntil = sn[chk[c].file].keepUntil
        \/ \E d \in fileDb : d.id = chk[c].file

CopyInv ==
    /\ OwnerCopies
    /\ SavedCopies
    /\ ReadCopies
    /\ DateCopies
    /\ FetchedDates

\* Only a PATCH changes the date of a stored file.
LEMMA DatesStay ==
    ASSUME IInv, [Next]_vars, NEW f \in FileId, sn[f].state = "stored",
           ~(\E e \in Extend : ServiceNodeExtends(e))
    PROVE  sn'[f].keepUntil = sn[f].keepUntil
<1>sn. sn \in [FileId -> SnFile]
    BY DEF IInv, TypeOK
<1> USE DEF SnFile
<1>1. ASSUME NEW u \in Upload, NEW g \in FileId, NEW d \in Date,
             CreateAtServiceNode(u, g, d) \/ CreateReplyLost(u, g, d)
      PROVE  sn'[f].keepUntil = sn[f].keepUntil
    BY <1>1, <1>sn DEF CreateAtServiceNode, CreateReplyLost
<1>2. ASSUME NEW u \in Upload, SendChunk(u) \/ ChunkReplyLost(u)
      PROVE  sn'[f].keepUntil = sn[f].keepUntil
    BY <1>2, <1>sn DEF SendChunk, ChunkReplyLost
<1>3. ASSUME NEW u \in Upload, UploadFileToDds(u)
      PROVE  sn'[f].keepUntil = sn[f].keepUntil
    BY <1>3, <1>sn DEF UploadFileToDds
<1>4. ASSUME NEW g \in FileId, DdsAnswers(g) \/ DeleteServiceNodeFile(g)
      PROVE  sn'[f].keepUntil = sn[f].keepUntil
    BY <1>4, <1>sn DEF DdsAnswers, DeleteServiceNodeFile
<1>5. ASSUME NEW l \in LocalFile, CreateLocalFile(l) \/ UploadLocalFileChunk(l)
      PROVE  sn' = sn
    BY <1>5 DEF CreateLocalFile, UploadLocalFileChunk
<1>6. ASSUME NEW u \in Upload, NEW l \in LocalFile, ReadLocalFile(u, l)
      PROVE  sn' = sn
    BY <1>6 DEF ReadLocalFile
<1>7. ASSUME NEW u \in Upload,
             \/ EncryptWithAes(u) \/ SaveTemporaryFile(u) \/ AllChunksSent(u)
             \/ UploadFails(u) \/ BackgroundJobStops(u)
      PROVE  sn' = sn
    BY <1>7 DEF EncryptWithAes, SaveTemporaryFile, AllChunksSent, UploadFails,
                BackgroundJobStops
<1>8. ASSUME NEW c \in Check, NEW g \in FileId, CheckStatus(c, g)
      PROVE  sn' = sn
    BY <1>8 DEF CheckStatus
<1>9. ASSUME NEW c \in Check, SaveJobStep(c) PROVE sn' = sn
    BY <1>9 DEF SaveJobStep, GetFileInfo, FindFileKey, SaveJobStops, SaveFile,
                SaveDataOwner
<1>10. ASSUME NEW e \in Extend, NEW g \in FileId, NEW d \in Date,
              BeginExtend(e, g, d)
       PROVE  sn' = sn
    BY <1>10 DEF BeginExtend
<1>11. ASSUME NEW e \in Extend, ExtendStep(e), ~ServiceNodeExtends(e)
       PROVE  sn' = sn
    BY <1>11 DEF ExtendStep, FindFile, ExtendFails, NothingToUpdate,
                 FindDataOwner, FindSavedFile, UpdateFile, SaveExtendedOwner
<1>12. ASSUME Crash \/ UNCHANGED vars PROVE sn' = sn
    BY <1>12 DEF Crash, vars
<1> QED
    BY <1>1, <1>2, <1>3, <1>4, <1>5, <1>6, <1>7, <1>8, <1>9, <1>10, <1>11, <1>12
    DEF Next, UploadStep, UploadFault

\* Without a failure the jobs are only changed by steps of their own.
LEMMA JobsFrame ==
    ASSUME [Next]_vars, ~Crash
    PROVE  /\ ~(\E e \in Extend : ExtendStep(e) \/
                    \E f \in FileId, d \in Date : BeginExtend(e, f, d))
                => ext' = ext
           /\ ~(\E c \in Check : SaveJobStep(c) \/
                    \E f \in FileId : CheckStatus(c, f))
                => chk' = chk
<1>1. ASSUME NEW u \in Upload, UploadStep(u) \/ UploadFault(u)
      PROVE  UNCHANGED <<ext, chk>>
    BY <1>1
    DEF UploadStep, UploadFault, EncryptWithAes, CreateAtServiceNode,
        SaveTemporaryFile, SendChunk, AllChunksSent, UploadFileToDds,
        UploadFails, CreateReplyLost, ChunkReplyLost, BackgroundJobStops
<1>2. ASSUME NEW l \in LocalFile, CreateLocalFile(l) \/ UploadLocalFileChunk(l)
      PROVE  UNCHANGED <<ext, chk>>
    BY <1>2 DEF CreateLocalFile, UploadLocalFileChunk
<1>3. ASSUME NEW u \in Upload, NEW l \in LocalFile, ReadLocalFile(u, l)
      PROVE  UNCHANGED <<ext, chk>>
    BY <1>3 DEF ReadLocalFile
<1>4. ASSUME NEW f \in FileId, DdsAnswers(f) \/ DeleteServiceNodeFile(f)
      PROVE  UNCHANGED <<ext, chk>>
    BY <1>4 DEF DdsAnswers, DeleteServiceNodeFile
<1>5. ASSUME NEW e \in Extend,
             ExtendStep(e) \/ \E f \in FileId, d \in Date : BeginExtend(e, f, d)
      PROVE  chk' = chk
    BY <1>5 DEF ExtendStep, FindFile, ServiceNodeExtends, ExtendFails,
                NothingToUpdate, FindDataOwner, FindSavedFile, UpdateFile,
                SaveExtendedOwner, BeginExtend
<1>6. ASSUME NEW c \in Check,
             SaveJobStep(c) \/ \E f \in FileId : CheckStatus(c, f)
      PROVE  ext' = ext
    BY <1>6 DEF SaveJobStep, GetFileInfo, FindFileKey, SaveJobStops, SaveFile,
                SaveDataOwner, CheckStatus
<1>7. ASSUME UNCHANGED vars PROVE UNCHANGED <<ext, chk>>
    BY <1>7 DEF vars
<1> QED
    BY <1>1, <1>2, <1>3, <1>4, <1>5, <1>6, <1>7 DEF Next

\* The documents and their files, as far as the copies are about them.
LEMMA CopyFacts ==
    ASSUME IInv
    PROVE  /\ ext \in [Extend -> ExtendJob] /\ chk \in [Check -> SaveJob]
           /\ sn \in [FileId -> SnFile]
           /\ \A d \in fileDb : /\ d \in FileDoc /\ d.id \in FileId
                                /\ sn[d.id].state = "stored"
           /\ \A o \in ownerDb : o \in OwnerDoc
           /\ \A c \in Check : chk[c].pc # "idle" =>
                chk[c].file \in FileId /\ sn[chk[c].file].state = "stored"
           /\ \A e \in Extend : ext[e].doc # Null =>
                ext[e].doc \in FileDoc /\ ext[e].doc.id = ext[e].file
<1>1. /\ ext \in [Extend -> ExtendJob] /\ chk \in [Check -> SaveJob]
      /\ sn \in [FileId -> SnFile] /\ fileDb \in SUBSET FileDoc
      /\ ownerDb \in SUBSET OwnerDoc
    BY DEF IInv, TypeOK
<1>2. \A d \in fileDb : d \in FileDoc /\ d.id \in FileId /\ sn[d.id].state = "stored"
    BY <1>1 DEF IInv, RecordInv, Genuine, FileDoc
<1>3. \A c \in Check : chk[c].pc # "idle" =>
            chk[c].file \in FileId /\ sn[chk[c].file].state = "stored"
    BY DEF IInv, SaveJobInv, SaveJobOK
<1>4. ASSUME NEW e \in Extend, ext[e].doc # Null
      PROVE  ext[e].doc \in FileDoc /\ ext[e].doc.id = ext[e].file
    <2>1. ext[e].doc \in FileDoc
        BY <1>1, <1>4 DEF ExtendJob
    <2> QED BY <2>1 DEF IInv, ExtendInv, ExtendOK
<1> QED BY <1>1, <1>2, <1>3, <1>4

\* A save job does no more than fetch the date of its file, or go on with it.
JobReads(c) ==
    \/ chk'[c] = chk[c]
    \/ chk'[c].pc \notin {"key", "saveFile", "saveOwner"}
    \/ /\ chk[c].pc = "key" /\ chk'[c].pc = "saveFile"
       /\ chk'[c].file = chk[c].file
       /\ chk'[c].keepUntil = chk[c].keepUntil
    \/ /\ chk[c].pc = "info" /\ chk'[c].pc = "key"
       /\ chk'[c].file = chk[c].file
       /\ chk'[c].keepUntil = sn[chk[c].file].keepUntil

\* A step that leaves the records and the extensions alone, and lets a save job
\* do no more than fetch the date of its file or go on with it.
LEMMA CopyFrame ==
    ASSUME IInv, CopyInv, [Next]_vars, UNCHANGED <<fileDb, ownerDb, ext>>,
           \A c \in Check : JobReads(c),
           \A f \in FileId : sn[f].state = "stored" =>
                sn'[f].keepUntil = sn[f].keepUntil
    PROVE  CopyInv'
<1>1. OwnerCopies'
    BY DEF CopyInv, OwnerCopies
<1>2. SavedCopies'
    <2>1. \A c \in Check : chk'[c].pc = "saveOwner" =>
            chk'[c] = chk[c] /\ chk[c].pc = "saveOwner"
        BY DEF JobReads
    <2> QED BY <2>1 DEF CopyInv, SavedCopies
<1>3. ReadCopies'
    BY DEF CopyInv, ReadCopies, ReadOK
<1>4. \A f : Settled(f)' <=> Settled(f)
    BY DEF Settled, SettledBy
<1>5. DateCopies'
    <2> SUFFICES ASSUME NEW d \in fileDb, Settled(d.id)
                 PROVE  \/ /\ d.keepUntil = sn'[d.id].keepUntil
                           /\ \A e \in Extend : ext[e].file = d.id => ext[e].pc \notin Ahead
                        \/ \E e \in Extend : /\ ext[e].file = d.id /\ ext[e].pc \in Ahead
                                             /\ ext[e].date = sn'[d.id].keepUntil
        BY <1>4 DEF DateCopies
    <2>1. sn'[d.id].keepUntil = sn[d.id].keepUntil
        BY CopyFacts
    <2> QED BY <2>1 DEF CopyInv, DateCopies
<1>6. FetchedDates'
    <2> SUFFICES ASSUME NEW c \in Check, chk'[c].pc \in {"key", "saveFile"},
                        Settled(chk'[c].file)
                 PROVE  \/ chk'[c].keepUntil = sn'[chk'[c].file].keepUntil
                        \/ \E d \in fileDb : d.id = chk'[c].file
        BY <1>4 DEF FetchedDates
    <2>1. /\ chk'[c].file = chk[c].file /\ chk[c].pc # "idle"
          /\ \/ /\ chk[c].pc \in {"key", "saveFile"}
                /\ chk'[c].keepUntil = chk[c].keepUntil
             \/ chk'[c].keepUntil = sn[chk[c].file].keepUntil
        BY DEF JobReads
    <2>2. sn'[chk[c].file].keepUntil = sn[chk[c].file].keepUntil
        BY <2>1, CopyFacts
    <2> QED BY <2>1, <2>2 DEF CopyInv, FetchedDates
<1> QED BY <1>1, <1>2, <1>3, <1>5, <1>6 DEF CopyInv

\* The File of a save job is the only one of its file and has the date of the
\* service node, unless a PATCH has been there in between.
LEMMA SaveFileCopies ==
    ASSUME IInv, CopyInv, RecordedOnce', NEW c \in Check, SaveFile(c)
    PROVE  CopyInv'
<1>t. /\ ext \in [Extend -> ExtendJob] /\ chk \in [Check -> SaveJob]
      /\ \A d \in fileDb : d \in FileDoc
      /\ \A o \in ownerDb : o \in OwnerDoc
      /\ \A e \in Extend : ext[e].doc # Null =>
            ext[e].doc \in FileDoc /\ ext[e].doc.id = ext[e].file
    BY CopyFacts
<1>1. PICK i \in DocId \ UsedIds :
            /\ fileDb' = fileDb \cup {NewFile(c, i)}
            /\ chk' = [chk EXCEPT ![c].pc = "saveOwner", ![c].doc = NewFile(c, i)]
    BY DEF SaveFile
<1>2. UNCHANGED <<sn, ownerDb, ext>> /\ chk[c].pc = "saveFile"
    BY DEF SaveFile
<1> DEFINE n == NewFile(c, i)
<1>3. n._id = i /\ n.id = chk[c].file /\ n.keepUntil = chk[c].keepUntil
    BY DEF NewFile
<1> HIDE DEF n
<1>4. fileDb' = fileDb \cup {n} /\ n \in fileDb'
    BY <1>1 DEF n
<1>5. \A d \in fileDb : d.id # n.id
    <2>1. \A d \in fileDb : d._id # n._id
        BY <1>1, <1>3 DEF UsedIds
    <2> QED BY <1>4, <2>1 DEF RecordedOnce
<1>6. \A b \in Check : /\ b # c => chk'[b] = chk[b]
                       /\ chk'[c].pc = "saveOwner" /\ chk'[c].doc = n
    BY <1>1, <1>t DEF n, SaveJob
<1>7. \A d \in fileDb : \A f : SameFile(d, f) => f.id = d.id
    BY DEF SameFile
<1>8. \A o \in ownerDb : o.file.id # n.id
    BY <1>5, <1>7 DEF IInv, RecordInv
<1>9. OwnerCopies'
    BY <1>2, <1>4 DEF CopyInv, OwnerCopies
<1>10. SavedCopies'
    <2>1. ASSUME NEW b \in Check, chk'[b].pc = "saveOwner"
          PROVE  /\ chk'[b].doc \in fileDb'
                 /\ \A o \in ownerDb : o.file.id # chk'[b].doc.id
                 /\ b # c => chk[b].pc = "saveOwner" /\ chk[b].doc \in fileDb
        BY <1>4, <1>6, <1>8, <2>1 DEF CopyInv, SavedCopies
    <2>2. ASSUME NEW a \in Check, NEW b \in Check, chk'[a].pc = "saveOwner",
                 chk'[b].pc = "saveOwner", chk'[a].doc.id = chk'[b].doc.id
          PROVE  a = b
        <3>1. CASE a # c /\ b # c
            BY <1>6, <2>1, <2>2, <3>1 DEF CopyInv, SavedCopies
        <3>2. CASE a = c \/ b = c
            BY <1>5, <1>6, <2>1, <2>2, <3>2
        <3> QED BY <3>1, <3>2
    <2> QED BY <1>2, <2>1, <2>2 DEF SavedCopies
<1>11. ReadCopies'
    BY <1>2, <1>4 DEF CopyInv, ReadCopies, ReadOK
<1>12. \A f : Settled(f)' <=> Settled(f)
    BY <1>2 DEF Settled, SettledBy
<1>13. DateCopies'
    <2> SUFFICES ASSUME NEW d \in fileDb', Settled(d.id)
                 PROVE  \/ /\ d.keepUntil = sn[d.id].keepUntil
                           /\ \A e \in Extend : ext[e].file = d.id => ext[e].pc \notin Ahead
                        \/ \E e \in Extend : /\ ext[e].file = d.id /\ ext[e].pc \in Ahead
                                             /\ ext[e].date = sn[d.id].keepUntil
        BY <1>2, <1>12 DEF DateCopies
    <2>1. CASE d \in fileDb
        BY <2>1 DEF CopyInv, DateCopies
    <2>2. CASE d = n
        <3>1. d.keepUntil = sn[d.id].keepUntil
            BY <1>2, <1>3, <1>5, <2>2 DEF CopyInv, FetchedDates
        <3>2. ASSUME NEW e \in Extend, ext[e].file = d.id, ext[e].pc \in Ahead
              PROVE  FALSE
            <4>1. ext[e].doc # Null
                BY <3>2 DEF Settled, SettledBy, Ahead
            <4>2. ext[e].doc \in FileDoc /\ ext[e].doc.id = d.id
                BY <1>t, <3>2, <4>1
            <4>3. \E x \in fileDb : SameFile(x, ext[e].doc)
                BY <4>2 DEF IInv, ExtendInv, ExtendOK
            <4> QED BY <1>5, <1>7, <2>2, <4>2, <4>3
        <3> QED BY <3>1, <3>2
    <2> QED BY <1>4, <2>1, <2>2
<1>14. FetchedDates'
    BY <1>2, <1>4, <1>6, <1>12 DEF CopyInv, FetchedDates
<1> QED BY <1>9, <1>10, <1>11, <1>13, <1>14 DEF CopyInv

\* The DataOwner of a save job is the only one of its file.
LEMMA SaveDataOwnerCopies ==
    ASSUME IInv, CopyInv, NEW c \in Check, SaveDataOwner(c)
    PROVE  CopyInv'
<1>t. chk \in [Check -> SaveJob]
    BY CopyFacts
<1>1. PICK i : ownerDb' = ownerDb \cup {NewOwner(c, i)}
    BY DEF SaveDataOwner
<1>2. UNCHANGED <<sn, fileDb, ext>> /\ chk[c].pc = "saveOwner"
    BY DEF SaveDataOwner
<1>3. \A b \in Check : /\ b # c => chk'[b] = chk[b]
                       /\ chk'[c].pc = "saved"
    BY <1>t DEF SaveDataOwner, SaveJob
<1> DEFINE n == NewOwner(c, i)
<1>4. n.file = chk[c].doc
    BY DEF NewOwner
<1> HIDE DEF n
<1>5. ownerDb' = ownerDb \cup {n}
    BY <1>1 DEF n
<1>6. OwnerCopies'
    <2>1. n.file \in fileDb /\ \A o \in ownerDb : o.file.id # n.file.id
        BY <1>2, <1>4 DEF CopyInv, SavedCopies
    <2>2. \A o, p \in ownerDb' : o.file.id = p.file.id => o = p
        BY <1>5, <2>1 DEF CopyInv, OwnerCopies
    <2> QED BY <1>2, <1>5, <2>1, <2>2 DEF CopyInv, OwnerCopies
<1>7. SavedCopies'
    <2>1. ASSUME NEW b \in Check, chk'[b].pc = "saveOwner"
          PROVE  /\ b # c /\ chk'[b] = chk[b] /\ chk[b].doc \in fileDb
                 /\ \A o \in ownerDb' : o.file.id # chk[b].doc.id
        <3>1. b # c /\ chk'[b] = chk[b]
            BY <1>3, <2>1
        <3>2. n.file.id # chk[b].doc.id
            BY <1>2, <1>4, <2>1, <3>1 DEF CopyInv, SavedCopies
        <3> QED BY <1>5, <2>1, <3>1, <3>2 DEF CopyInv, SavedCopies
    <2> QED BY <1>2, <2>1 DEF CopyInv, SavedCopies
<1>8. ReadCopies'
    BY <1>2 DEF CopyInv, ReadCopies, ReadOK
<1>9. DateCopies'
    BY <1>2 DEF CopyInv, DateCopies, Settled, SettledBy
<1>10. FetchedDates'
    <2>1. \A f : Settled(f)' <=> Settled(f)
        BY <1>2 DEF Settled, SettledBy
    <2> QED BY <1>2, <1>3, <2>1 DEF CopyInv, FetchedDates
<1> QED BY <1>6, <1>7, <1>8, <1>9, <1>10 DEF CopyInv

\* A step of one PATCH that only reads the records.
LEMMA ReadingCopies ==
    ASSUME IInv, CopyInv, NEW e \in Extend,
           UNCHANGED <<sn, fileDb, ownerDb, chk>>,
           \A x \in Extend \ {e} : ext'[x] = ext[x],
           ext[e].pc # "saveOwner",
           ReadOK(e)',
           \A f \in FileId : SettledBy(e, f)' =>
                /\ SettledBy(e, f)
                /\ ext'[e].file = f /\ ext'[e].pc \in Ahead
                     <=> ext[e].file = f /\ ext[e].pc \in Ahead,
           ext'[e].pc \in Ahead => ext'[e].date = ext[e].date
    PROVE  CopyInv'
<1>1. OwnerCopies'
    BY DEF CopyInv, OwnerCopies
<1>2. SavedCopies'
    BY DEF CopyInv, SavedCopies
<1>3. ReadCopies'
    <2> SUFFICES ASSUME NEW x \in Extend, x # e PROVE ReadOK(x)'
        BY DEF ReadCopies
    <2>1. ReadOK(x) /\ ext'[x] = ext[x]
        BY DEF CopyInv, ReadCopies
    <2> QED BY <2>1 DEF ReadOK
<1>4. ASSUME NEW f \in FileId, Settled(f)'
      PROVE  /\ Settled(f)
             /\ \A x \in Extend : ext'[x].file = f /\ ext'[x].pc \in Ahead
                                    <=> ext[x].file = f /\ ext[x].pc \in Ahead
    <2>1. \A x \in Extend : SettledBy(x, f)'
        BY <1>4 DEF Settled
    <2>2. ASSUME NEW x \in Extend, x # e
          PROVE  SettledBy(x, f) /\ ext'[x] = ext[x]
        BY <2>1, <2>2 DEF SettledBy
    <2>3. /\ SettledBy(e, f)
          /\ ext'[e].file = f /\ ext'[e].pc \in Ahead
               <=> ext[e].file = f /\ ext[e].pc \in Ahead
        BY <2>1
    <2>4. Settled(f)
        BY <2>2, <2>3 DEF Settled
    <2> QED BY <2>2, <2>3, <2>4
<1>5. DateCopies'
    <2> SUFFICES ASSUME NEW d \in fileDb, Settled(d.id)'
                 PROVE  \/ /\ d.keepUntil = sn[d.id].keepUntil
                           /\ \A x \in Extend : ext'[x].file = d.id => ext'[x].pc \notin Ahead
                        \/ \E x \in Extend : /\ ext'[x].file = d.id /\ ext'[x].pc \in Ahead
                                             /\ ext'[x].date = sn[d.id].keepUntil
        BY DEF DateCopies
    <2>1. d.id \in FileId
        BY CopyFacts
    <2>2. Settled(d.id) /\ \A x \in Extend : ext'[x].file = d.id /\ ext'[x].pc \in Ahead
                                    <=> ext[x].file = d.id /\ ext[x].pc \in Ahead
        BY <1>4, <2>1
    <2>3. CASE /\ d.keepUntil = sn[d.id].keepUntil
               /\ \A x \in Extend : ext[x].file = d.id => ext[x].pc \notin Ahead
        BY <2>2, <2>3
    <2>4. ASSUME NEW x \in Extend, ext[x].file = d.id, ext[x].pc \in Ahead,
                 ext[x].date = sn[d.id].keepUntil
          PROVE  ext'[x].file = d.id /\ ext'[x].pc \in Ahead
                 /\ ext'[x].date = sn[d.id].keepUntil
        BY <2>2, <2>4
    <2> QED BY <2>2, <2>3, <2>4 DEF CopyInv, DateCopies
<1>6. FetchedDates'
    <2> SUFFICES ASSUME NEW c \in Check, chk[c].pc \in {"key", "saveFile"},
                        Settled(chk[c].file)'
                 PROVE  \/ chk[c].keepUntil = sn[chk[c].file].keepUntil
                        \/ \E d \in fileDb : d.id = chk[c].file
        BY DEF FetchedDates, Settled, SettledBy
    <2>1. chk[c].file \in FileId
        BY CopyFacts
    <2>2. Settled(chk[c].file)
        BY <1>4, <2>1
    <2> QED BY <2>2 DEF CopyInv, FetchedDates
<1> QED BY <1>1, <1>2, <1>3, <1>5, <1>6 DEF CopyInv

\* The beginning of a PATCH, and its steps that only read the records.
LEMMA ReadingSteps ==
    ASSUME IInv, CopyInv, NEW e \in Extend,
           \/ \E f \in FileId, d \in Date : BeginExtend(e, f, d)
           \/ FindFile(e) \/ ExtendFails(e) \/ NothingToUpdate(e)
           \/ FindDataOwner(e) \/ FindSavedFile(e)
    PROVE  CopyInv'
<1>t. /\ ext \in [Extend -> ExtendJob] /\ Null \notin FileId
      /\ \A d \in fileDb : d \in FileDoc
    BY CopyFacts, NullAssumption
<1>r. ReadOK(e)
    BY DEF CopyInv, ReadCopies
<1> USE DEF ExtendJob, Ahead
<1>1. ASSUME NEW f \in FileId, NEW d \in Date, BeginExtend(e, f, d) PROVE CopyInv'
    <2>1. ext[e].pc = "idle" /\ ext' = [ext EXCEPT ![e].pc = "find", ![e].file = f,
                                                  ![e].date = d]
        BY <1>1 DEF BeginExtend
    <2>2. /\ ext'[e].pc = "find" /\ ext'[e].owner = ext[e].owner
          /\ \A x \in Extend \ {e} : ext'[x] = ext[x]
        BY <1>t, <2>1
    <2>3. ReadOK(e)'
        BY <1>r, <2>1, <2>2 DEF ReadOK
    <2>4. \A g \in FileId : SettledBy(e, g)
        BY <1>r, <1>t, <2>1 DEF SettledBy, ReadOK
    <2>5. UNCHANGED <<sn, fileDb, ownerDb, chk>>
        BY <1>1 DEF BeginExtend
    <2> QED BY <2>1, <2>2, <2>3, <2>4, <2>5, ReadingCopies
<1>2. ASSUME FindFile(e) PROVE CopyInv'
    <2>1. /\ ext[e].pc = "find" /\ UNCHANGED <<sn, fileDb, ownerDb, chk>>
          /\ \/ ext' = [ext EXCEPT ![e].pc = "patch"]
             \/ \E doc \in fileDb : ext' = [ext EXCEPT ![e].pc = "patch", ![e].doc = doc]
        BY <1>2 DEF FindFile, FirstOf, FilesWithId, UpdateExt
    <2>2. /\ ext'[e].pc = "patch" /\ ext'[e].owner = ext[e].owner
          /\ ext'[e].doc = ext[e].doc \/ ext'[e].doc \in fileDb
          /\ \A x \in Extend \ {e} : ext'[x] = ext[x]
        BY <1>t, <2>1
    <2>n. ext'[e].doc # Null => ext'[e].doc \in fileDb
        <3>1. ASSUME FilesWithId(ext[e].file) = {}, ext[e].doc # Null PROVE FALSE
            <4>1. ext[e].doc \in FileDoc /\ ext[e].doc.id = ext[e].file
                BY <3>1, CopyFacts
            <4>2. \E d \in fileDb : SameFile(d, ext[e].doc)
                BY <4>1 DEF IInv, ExtendInv, ExtendOK
            <4> QED BY <3>1, <4>1, <4>2 DEF SameFile, FilesWithId
        <3> QED BY <1>2, <1>t, <3>1 DEF FindFile, FirstOf, FilesWithId, UpdateExt
    <2>3. ReadOK(e)'
        BY <1>r, <2>1, <2>2, <2>n DEF ReadOK
    <2>4. \A g \in FileId : SettledBy(e, g)
        BY <2>1 DEF SettledBy
    <2> QED BY <2>1, <2>2, <2>3, <2>4, ReadingCopies
<1>3. ASSUME ExtendFails(e) PROVE CopyInv'
    <2>1. /\ ext[e].pc \in {"patch", "patched"} /\ UNCHANGED <<sn, fileDb, ownerDb, chk>>
          /\ ext' = [ext EXCEPT ![e].pc = "error"]
        BY <1>3 DEF ExtendFails, UpdateExt
    <2>2. /\ ext'[e].pc = "error" /\ ext'[e].file = ext[e].file
          /\ \A x \in Extend \ {e} : ext'[x] = ext[x]
        BY <1>t, <2>1
    <2>3. ReadOK(e)'
        BY <2>2 DEF ReadOK
    <2>4. \A g \in FileId : SettledBy(e, g)' => ext[e].file # g
        BY <2>2 DEF SettledBy
    <2>5. \A g \in FileId : ext[e].file # g => SettledBy(e, g)
        BY DEF SettledBy
    <2> QED BY <2>1, <2>2, <2>3, <2>4, <2>5, ReadingCopies
<1>4. ASSUME NothingToUpdate(e) PROVE CopyInv'
    <2>1. /\ ext[e].pc = "patched" /\ UNCHANGED <<sn, fileDb, ownerDb, chk>>
          /\ ext' = [ext EXCEPT ![e].pc = "ok"]
        BY <1>4 DEF NothingToUpdate, UpdateExt
    <2>2. /\ ext'[e].pc = "ok" /\ ext'[e].file = ext[e].file
          /\ ext'[e].owner = ext[e].owner
          /\ \A x \in Extend \ {e} : ext'[x] = ext[x]
        BY <1>t, <2>1
    <2>3. ReadOK(e)' /\ ext[e].owner = Null
        BY <1>r, <2>1, <2>2 DEF ReadOK
    <2>4. \A g \in FileId : SettledBy(e, g)' => ext[e].file # g
        BY <2>2, <2>3 DEF SettledBy
    <2>5. \A g \in FileId : ext[e].file # g => SettledBy(e, g)
        BY DEF SettledBy
    <2> QED BY <2>1, <2>2, <2>3, <2>4, <2>5, ReadingCopies
<1>5. ASSUME FindDataOwner(e) PROVE CopyInv'
    <2>1. /\ ext[e].pc = "patched" /\ ext[e].doc # Null
          /\ UNCHANGED <<sn, fileDb, ownerDb, chk>>
          /\ \/ ext' = [ext EXCEPT ![e].pc = "error"]
             \/ \E doc, o : ext' = [ext EXCEPT ![e].pc = "saveFile", ![e].doc = doc,
                                              ![e].owner = o]
        BY <1>5 DEF FindDataOwner, UpdateExt
    <2>2. /\ ext'[e].pc \in {"error", "saveFile"} /\ ext'[e].file = ext[e].file
          /\ ext'[e].date = ext[e].date
          /\ \A x \in Extend \ {e} : ext'[x] = ext[x]
        <3>1. CASE ext' = [ext EXCEPT ![e].pc = "error"]
            BY <1>t, <3>1
        <3>2. ASSUME NEW doc, NEW o,
                     ext' = [ext EXCEPT ![e].pc = "saveFile", ![e].doc = doc,
                                        ![e].owner = o]
              PROVE  /\ ext'[e].pc = "saveFile" /\ ext'[e].file = ext[e].file
                     /\ ext'[e].date = ext[e].date
                     /\ \A x \in Extend \ {e} : ext'[x] = ext[x]
            BY <1>t, <3>2
        <3> QED BY <2>1, <3>1, <3>2
    <2>3. ReadOK(e)'
        BY <2>2 DEF ReadOK
    <2>4. \A g \in FileId : SettledBy(e, g)
        BY <2>1 DEF SettledBy
    <2>5. ASSUME NEW g \in FileId, SettledBy(e, g)'
          PROVE  ext'[e].file = g /\ ext'[e].pc \in Ahead
                     <=> ext[e].file = g /\ ext[e].pc \in Ahead
        BY <2>1, <2>2, <2>5 DEF SettledBy
    <2> QED BY <2>1, <2>2, <2>3, <2>4, <2>5, ReadingCopies
<1>6. ASSUME FindSavedFile(e) PROVE CopyInv'
    <2>1. PICK cur \in fileDb :
            /\ ext[e].pc = "saveFile" /\ UNCHANGED <<sn, fileDb, ownerDb, chk>>
            /\ ext' = [ext EXCEPT ![e].pc = "updateFile", ![e].cur = cur]
        BY <1>6 DEF FindSavedFile
    <2>2. /\ ext'[e].pc = "updateFile" /\ ext'[e].cur = cur
          /\ ext'[e].file = ext[e].file /\ ext'[e].date = ext[e].date
          /\ ext'[e].doc = ext[e].doc
          /\ \A x \in Extend \ {e} : ext'[x] = ext[x]
        BY <1>t, <2>1
    <2>3. ReadOK(e)'
        BY <2>1, <2>2 DEF ReadOK
    <2>4. \A g \in FileId : SettledBy(e, g)' => SettledBy(e, g)
        BY <2>1, <2>2 DEF SettledBy
    <2> QED BY <2>1, <2>2, <2>3, <2>4, ReadingCopies
<1> QED BY <1>1, <1>2, <1>3, <1>4, <1>5, <1>6

\* The service node has a new date, the PATCH has the File that will get it.
LEMMA ServiceNodeExtendsCopies ==
    ASSUME IInv, CopyInv, NEW e \in Extend, ServiceNodeExtends(e)
    PROVE  CopyInv'
<1>t. /\ ext \in [Extend -> ExtendJob] /\ sn \in [FileId -> SnFile]
      /\ \A d \in fileDb : d.id \in FileId
      /\ \A c \in Check : chk[c].pc # "idle" => chk[c].file \in FileId
      /\ ext[e].doc # Null => ext[e].doc.id = ext[e].file
    BY CopyFacts
<1>r. ReadOK(e)
    BY DEF CopyInv, ReadCopies
<1> DEFINE f == ext[e].file
<1>1. ext[e].pc = "patch" /\ ext' = [ext EXCEPT ![e].pc = "patched"]
    BY <1>r DEF ServiceNodeExtends, ReadOK, UpdateExt
<1>2. UNCHANGED <<fileDb, ownerDb, chk>>
    BY DEF ServiceNodeExtends
<1>3. f \in FileId
    BY <1>1 DEF IInv, ExtendInv, ExtendOK
<1>4. /\ sn'[f].keepUntil = ext[e].date
      /\ \A g \in FileId \ {f} : sn'[g] = sn[g]
    BY <1>t, <1>3 DEF ServiceNodeExtends, SnFile
<1>5. /\ ext'[e].pc = "patched" /\ ext'[e].file = f
      /\ ext'[e].doc = ext[e].doc /\ ext'[e].date = ext[e].date
      /\ ext'[e].owner = ext[e].owner
      /\ \A x \in Extend \ {e} : ext'[x] = ext[x]
    BY <1>1, <1>t DEF ExtendJob
<1> HIDE DEF f
<1>6. ASSUME NEW g, Settled(g)' PROVE Settled(g)
    <2>1. ASSUME NEW x \in Extend, x # e PROVE SettledBy(x, g)
        BY <1>5, <1>6, <2>1 DEF Settled, SettledBy
    <2>2. SettledBy(e, g)
        BY <1>1, <1>5, <1>6 DEF Settled, SettledBy, f
    <2> QED BY <2>1, <2>2 DEF Settled
<1>7. OwnerCopies'
    <2>1. \A x \in Extend : ext[x].pc = "saveOwner" => ext'[x] = ext[x]
        BY <1>1, <1>5
    <2> QED BY <1>2, <2>1 DEF CopyInv, OwnerCopies
<1>8. SavedCopies'
    BY <1>2 DEF CopyInv, SavedCopies
<1>9. ReadCopies'
    <2>1. ReadOK(e)'
        BY <1>1, <1>2, <1>5, <1>r DEF ReadOK
    <2>2. ASSUME NEW x \in Extend, x # e PROVE ReadOK(x)'
        <3>1. ReadOK(x) /\ ext'[x] = ext[x]
            BY <1>5, <2>2 DEF CopyInv, ReadCopies
        <3> QED BY <1>2, <3>1 DEF ReadOK
    <2> QED BY <2>1, <2>2 DEF ReadCopies
<1>10. DateCopies'
    <2> SUFFICES ASSUME NEW d \in fileDb, Settled(d.id)'
                 PROVE  \/ /\ d.keepUntil = sn'[d.id].keepUntil
                           /\ \A x \in Extend : ext'[x].file = d.id => ext'[x].pc \notin Ahead
                        \/ \E x \in Extend : /\ ext'[x].file = d.id /\ ext'[x].pc \in Ahead
                                             /\ ext'[x].date = sn'[d.id].keepUntil
        BY <1>2 DEF DateCopies
    <2>1. CASE d.id = f
        BY <1>4, <1>5, <2>1 DEF Ahead
    <2>2. CASE d.id # f
        <3>1. Settled(d.id) /\ sn'[d.id] = sn[d.id]
            BY <1>4, <1>6, <1>t, <2>2
        <3>2. \A x \in Extend : x = e => ext[x].file # d.id /\ ext'[x].file # d.id
            BY <1>5, <2>2 DEF f
        <3>3. \A x \in Extend : \/ ext'[x] = ext[x]
                                \/ ext[x].file # d.id /\ ext'[x].file # d.id
            BY <1>5, <3>2
        <3> QED BY <3>1, <3>3 DEF CopyInv, DateCopies
    <2> QED BY <2>1, <2>2
<1>11. FetchedDates'
    <2> SUFFICES ASSUME NEW c \in Check, chk[c].pc \in {"key", "saveFile"},
                        Settled(chk[c].file)'
                 PROVE  \/ chk[c].keepUntil = sn'[chk[c].file].keepUntil
                        \/ \E d \in fileDb : d.id = chk[c].file
        BY <1>2 DEF FetchedDates, Settled, SettledBy
    <2>1. CASE chk[c].file = f
        <3>1. ext[e].doc # Null
            BY <1>2, <1>5, <2>1 DEF Settled, SettledBy, Ahead
        <3>2. ext[e].doc \in fileDb /\ ext[e].doc.id = f
            BY <1>1, <1>r, <1>t, <3>1 DEF ReadOK, f
        <3> QED BY <2>1, <3>2
    <2>2. CASE chk[c].file # f
        <3>1. Settled(chk[c].file) /\ sn'[chk[c].file] = sn[chk[c].file]
            BY <1>2, <1>4, <1>6, <1>t, <2>2
        <3> QED BY <3>1 DEF CopyInv, FetchedDates
    <2> QED BY <2>1, <2>2
<1> QED BY <1>7, <1>8, <1>9, <1>10, <1>11 DEF CopyInv

\* What a PATCH that updates the records relies on: it is the only one, and the
\* documents it carries are the ones of its file.
LEMMA UpdatingFacts ==
    ASSUME IInv, OneExtend, NEW e \in Extend, ext[e].pc \in ExtUpdating
    PROVE  /\ \A x \in Extend \ {e} : ext[x].pc \notin ExtActive
           /\ ext[e].doc \in FileDoc /\ ext[e].doc # Null
           /\ ext[e].doc.id = ext[e].file
           /\ ext[e].doc.keepUntil = ext[e].date
           /\ ext[e].owner.file = ext[e].doc
           /\ \E p \in ownerDb : /\ p._id = ext[e].owner._id
                                 /\ p.file.id = ext[e].file
<1>1. \A x \in Extend \ {e} : ext[x].pc \notin ExtActive
    BY DEF OneExtend, ExtActive, ExtUpdating
<1>2. /\ ext[e].doc \in FileDoc /\ ext[e].doc.id = ext[e].file
      /\ ext[e].doc.keepUntil = ext[e].date
      /\ ext[e].owner.file = ext[e].doc
      /\ \E p \in ownerDb : SameOwner(p, ext[e].owner)
    BY DEF IInv, ExtendInv, ExtendOK
<1>3. \E p \in ownerDb : p._id = ext[e].owner._id /\ p.file.id = ext[e].file
    BY <1>2 DEF SameOwner
<1> QED BY <1>1, <1>2, <1>3, NullAssumption

\* The File gets the date of the service node; the DataOwner is the next.
LEMMA UpdateFileCopies ==
    ASSUME IInv, CopyInv, OneExtend, RecordedOnce, NEW e \in Extend, UpdateFile(e)
    PROVE  CopyInv'
<1> DEFINE f == ext[e].file
           cur == ext[e].cur
           doc == ext[e].doc
<1>r. ReadOK(e)
    BY DEF CopyInv, ReadCopies
<1>1. /\ ext[e].pc = "updateFile" /\ UNCHANGED <<sn, ownerDb, chk>>
      /\ ext' = [ext EXCEPT ![e].pc = "saveOwner"]
    BY DEF UpdateFile, UpdateExt
<1>2. cur \in fileDb /\ cur.id = doc.id
    BY <1>1, <1>r DEF ReadOK, IInv, ExtendInv, ExtendOK, SameFile
<1>3. fileDb' = (fileDb \ {cur}) \cup {doc}
    BY <1>2 DEF UpdateFile
<1>4. /\ ext'[e].pc = "saveOwner" /\ ext'[e].file = f /\ ext'[e].doc = doc
      /\ ext'[e].owner = ext[e].owner
      /\ \A x \in Extend \ {e} : ext'[x] = ext[x]
    BY <1>1, CopyFacts DEF ExtendJob
<1>5. /\ \A x \in Extend \ {e} : ext[x].pc \notin ExtActive
      /\ doc # Null /\ doc.id = f /\ doc.keepUntil = ext[e].date
      /\ \E p \in ownerDb : p._id = ext[e].owner._id /\ p.file.id = f
    BY <1>1, UpdatingFacts DEF ExtUpdating
<1>6. \A x \in Extend : ext'[x].pc \notin Ahead
    BY <1>4, <1>5 DEF Ahead, ExtActive
<1> HIDE DEF f, cur, doc
<1>7. \A d \in fileDb : d.id = f <=> d = cur
    BY <1>2, <1>5 DEF RecordedOnce
<1>8. ASSUME NEW g, Settled(g)' PROVE Settled(g)
    <2>1. ASSUME NEW x \in Extend, x # e PROVE SettledBy(x, g)
        BY <1>4, <1>8, <2>1 DEF Settled, SettledBy
    <2>2. SettledBy(e, g)
        BY <1>1, <1>5 DEF SettledBy, Ahead, doc
    <2> QED BY <2>1, <2>2 DEF Settled
<1>9. OwnerCopies'
    <2>1. ASSUME NEW o \in ownerDb, o.file \notin fileDb'
          PROVE  \E x \in Extend : ext'[x].pc = "saveOwner" /\ ext'[x].owner._id = o._id
        <3>1. \A x \in Extend : ext[x].pc # "saveOwner"
            BY <1>1, <1>5 DEF ExtActive
        <3>2. o.file \in fileDb
            BY <3>1 DEF CopyInv, OwnerCopies
        <3>3. o.file.id = f
            BY <1>3, <1>7, <2>1, <3>2
        <3>4. o._id = ext[e].owner._id
            BY <1>5, <3>3 DEF CopyInv, OwnerCopies
        <3> QED BY <1>4, <3>4
    <2> QED BY <1>1, <2>1 DEF CopyInv, OwnerCopies
<1>10. SavedCopies'
    <2>1. ASSUME NEW c \in Check, chk[c].pc = "saveOwner"
          PROVE  chk[c].doc \in fileDb'
        <3>1. chk[c].doc \in fileDb /\ \A o \in ownerDb : o.file.id # chk[c].doc.id
            BY <2>1 DEF CopyInv, SavedCopies
        <3> QED BY <1>3, <1>5, <1>7, <3>1
    <2> QED BY <1>1, <2>1 DEF CopyInv, SavedCopies
<1>11. ReadCopies'
    <2>1. ReadOK(e)'
        BY <1>3, <1>4 DEF ReadOK
    <2>2. ASSUME NEW x \in Extend, x # e PROVE ReadOK(x)'
        <3>1. ReadOK(x) /\ ext'[x] = ext[x] /\ ext[x].pc \notin ExtActive
            BY <1>4, <1>5, <2>2 DEF CopyInv, ReadCopies
        <3> QED BY <3>1 DEF ReadOK, ExtActive
    <2> QED BY <2>1, <2>2 DEF ReadCopies
<1>12. DateCopies'
    <2> SUFFICES ASSUME NEW d \in fileDb', Settled(d.id)'
                 PROVE  d.keepUntil = sn[d.id].keepUntil
        BY <1>1, <1>6 DEF DateCopies
    <2>1. ASSUME NEW x \in Extend, ext[x].pc \in Ahead PROVE x = e
        BY <1>5, <2>1 DEF Ahead, ExtActive
    <2>2. CASE d.id = f
        <3>1. d = doc
            BY <1>3, <1>7, <2>2
        <3>2. Settled(cur.id) /\ cur.id = f
            BY <1>2, <1>5, <1>8, <2>2
        <3>3. ext[e].date = sn[f].keepUntil
            <4>1. ext[e].file = cur.id /\ ext[e].pc \in Ahead
                BY <1>1, <3>2 DEF f, Ahead
            <4>2. \E x \in Extend : /\ ext[x].pc \in Ahead
                                    /\ ext[x].date = sn[cur.id].keepUntil
                BY <1>2, <3>2, <4>1 DEF CopyInv, DateCopies
            <4> QED BY <2>1, <3>2, <4>2
        <3> QED BY <1>5, <2>2, <3>1, <3>3
    <2>3. CASE d.id # f
        <3>1. d \in fileDb /\ Settled(d.id)
            BY <1>3, <1>5, <1>8, <2>3
        <3>2. \A x \in Extend : ext[x].file = d.id => ext[x].pc \notin Ahead
            BY <2>1, <2>3 DEF f
        <3> QED BY <3>1, <3>2 DEF CopyInv, DateCopies
    <2> QED BY <2>2, <2>3
<1>13. FetchedDates'
    <2> SUFFICES ASSUME NEW c \in Check, chk[c].pc \in {"key", "saveFile"},
                        Settled(chk[c].file)'
                 PROVE  \/ chk[c].keepUntil = sn[chk[c].file].keepUntil
                        \/ \E d \in fileDb' : d.id = chk[c].file
        BY <1>1 DEF FetchedDates, Settled, SettledBy
    <2>1. Settled(chk[c].file)
        BY <1>1, <1>8
    <2>2. \A d \in fileDb : \E n \in fileDb' : n.id = d.id
        BY <1>2, <1>3
    <2> QED BY <2>1, <2>2 DEF CopyInv, FetchedDates
<1> QED BY <1>9, <1>10, <1>11, <1>12, <1>13 DEF CopyInv

\* The DataOwner gets the File that is stored.
LEMMA SaveExtendedOwnerCopies ==
    ASSUME IInv, CopyInv, OneExtend, NEW e \in Extend, SaveExtendedOwner(e)
    PROVE  CopyInv'
<1> DEFINE f == ext[e].file
           own == ext[e].owner
<1>r. ReadOK(e)
    BY DEF CopyInv, ReadCopies
<1>1. /\ ext[e].pc = "saveOwner" /\ UNCHANGED <<sn, fileDb, chk>>
      /\ ext' = [ext EXCEPT ![e].pc = "ok"]
      /\ ownerDb' = {IF o._id = own._id THEN own ELSE o : o \in ownerDb}
    BY DEF SaveExtendedOwner, UpdateExt
<1>2. /\ ext'[e].pc = "ok" /\ \A x \in Extend \ {e} : ext'[x] = ext[x]
    BY <1>1, CopyFacts DEF ExtendJob
<1>3. /\ \A x \in Extend \ {e} : ext[x].pc \notin ExtActive
      /\ ext[e].doc # Null /\ ext[e].doc \in fileDb
      /\ own.file = ext[e].doc /\ own.file.id = f
    BY <1>1, <1>r, UpdatingFacts DEF ExtUpdating, ReadOK
<1>q. PICK q \in ownerDb : q._id = own._id /\ q.file.id = f
    BY <1>1, UpdatingFacts DEF ExtUpdating
<1> HIDE DEF f, own
<1>4. \A o \in ownerDb' : o = own \/ (o \in ownerDb /\ o._id # own._id)
    BY <1>1
<1>5. ASSUME NEW g, Settled(g)' PROVE Settled(g)
    <2>1. ASSUME NEW x \in Extend, x # e PROVE SettledBy(x, g)
        BY <1>2, <1>5, <2>1 DEF Settled, SettledBy
    <2>2. SettledBy(e, g)
        BY <1>1, <1>3 DEF SettledBy
    <2> QED BY <2>1, <2>2 DEF Settled
<1>6. OwnerCopies'
    <2>1. ASSUME NEW o \in ownerDb' PROVE o.file \in fileDb
        <3>1. CASE o = own
            BY <1>3, <3>1
        <3>2. CASE o \in ownerDb /\ o._id # own._id
            <4>1. \A x \in Extend : ext[x].pc = "saveOwner" => x = e
                BY <1>3 DEF ExtActive
            <4> QED BY <3>2, <4>1 DEF CopyInv, OwnerCopies, own
        <3> QED BY <1>4, <3>1, <3>2
    <2>2. ASSUME NEW o \in ownerDb', NEW p \in ownerDb', o.file.id = p.file.id
          PROVE  o = p
        <3>1. \A x \in ownerDb : x._id # own._id => x.file.id # f
            BY <1>q DEF CopyInv, OwnerCopies
        <3>2. CASE o = own \/ p = own
            BY <1>3, <1>4, <2>2, <3>1, <3>2
        <3>3. CASE o # own /\ p # own
            BY <1>4, <2>2, <3>3 DEF CopyInv, OwnerCopies
        <3> QED BY <3>2, <3>3
    <2> QED BY <1>1, <2>1, <2>2 DEF OwnerCopies
<1>7. SavedCopies'
    <2>1. ASSUME NEW c \in Check, chk[c].pc = "saveOwner", NEW o \in ownerDb'
          PROVE  o.file.id # chk[c].doc.id
        <3>1. \A p \in ownerDb : p.file.id # chk[c].doc.id
            BY <2>1 DEF CopyInv, SavedCopies
        <3> QED BY <1>3, <1>4, <1>q, <3>1
    <2> QED BY <1>1, <2>1 DEF CopyInv, SavedCopies
<1>8. ReadCopies'
    <2>1. ReadOK(e)'
        BY <1>2 DEF ReadOK
    <2>2. ASSUME NEW x \in Extend, x # e PROVE ReadOK(x)'
        <3>1. ReadOK(x) /\ ext'[x] = ext[x]
            BY <1>2, <2>2 DEF CopyInv, ReadCopies
        <3> QED BY <1>1, <3>1 DEF ReadOK
    <2> QED BY <2>1, <2>2 DEF ReadCopies
<1>9. DateCopies'
    <2> SUFFICES ASSUME NEW d \in fileDb, Settled(d.id)'
                 PROVE  \/ /\ d.keepUntil = sn[d.id].keepUntil
                           /\ \A x \in Extend : ext'[x].file = d.id => ext'[x].pc \notin Ahead
                        \/ \E x \in Extend : /\ ext'[x].file = d.id /\ ext'[x].pc \in Ahead
                                             /\ ext'[x].date = sn[d.id].keepUntil
        BY <1>1 DEF DateCopies
    <2>1. Settled(d.id)
        BY <1>5
    <2>2. \A x \in Extend : \/ ext'[x] = ext[x]
                            \/ ext[x].pc \notin Ahead /\ ext'[x].pc \notin Ahead
        BY <1>1, <1>2 DEF Ahead
    <2> QED BY <2>1, <2>2 DEF CopyInv, DateCopies
<1>10. FetchedDates'
    <2> SUFFICES ASSUME NEW c \in Check, chk[c].pc \in {"key", "saveFile"},
                        Settled(chk[c].file)'
                 PROVE  \/ chk[c].keepUntil = sn[chk[c].file].keepUntil
                        \/ \E d \in fileDb : d.id = chk[c].file
        BY <1>1 DEF FetchedDates, Settled, SettledBy
    <2>1. Settled(chk[c].file)
        BY <1>1, <1>5
    <2> QED BY <2>1 DEF CopyInv, FetchedDates
<1> QED BY <1>6, <1>7, <1>8, <1>9, <1>10 DEF CopyInv

\* The steps of a save job that only read, and the status request before it.
LEMMA SaveJobReads ==
    ASSUME chk \in [Check -> SaveJob], NEW c \in Check,
           \/ \E f \in FileId : CheckStatus(c, f)
           \/ GetFileInfo(c) \/ FindFileKey(c) \/ SaveJobStops(c)
    PROVE  \A b \in Check : JobReads(b)
<1> USE DEF SaveJob, JobReads
<1>1. ASSUME NEW f \in FileId, CheckStatus(c, f)
      PROVE  /\ chk'[c].pc \in {chk[c].pc, "info"} /\ chk[c].pc = "idle"
             /\ \A b \in Check \ {c} : chk'[b] = chk[b]
    BY <1>1 DEF CheckStatus
<1>2. ASSUME GetFileInfo(c)
      PROVE  /\ chk[c].pc = "info" /\ chk'[c].pc = "key"
             /\ chk'[c].file = chk[c].file
             /\ chk'[c].keepUntil = sn[chk[c].file].keepUntil
             /\ \A b \in Check \ {c} : chk'[b] = chk[b]
    BY <1>2 DEF GetFileInfo
<1>3. ASSUME FindFileKey(c)
      PROVE  /\ chk[c].pc = "key" /\ chk'[c].pc = "saveFile"
             /\ chk'[c].file = chk[c].file
             /\ chk'[c].keepUntil = chk[c].keepUntil
             /\ \A b \in Check \ {c} : chk'[b] = chk[b]
    <2>1. PICK t \in temp : chk' = [chk EXCEPT ![c].pc = "saveFile", ![c].key = t.key]
        BY <1>3 DEF FindFileKey
    <2>2. chk[c].pc = "key"
        BY <1>3 DEF FindFileKey
    <2> HIDE DEF JobReads
    <2> QED BY <2>1, <2>2
<1>4. ASSUME SaveJobStops(c)
      PROVE  /\ chk'[c].pc = "stopped"
             /\ \A b \in Check \ {c} : chk'[b] = chk[b]
    BY <1>4 DEF SaveJobStops
<1> QED BY <1>1, <1>2, <1>3, <1>4

\* Every step keeps the copies in agreement while nothing disturbs them.
LEMMA CopyStep ==
    IInv /\ CopyInv /\ Undisturbed /\ Undisturbed' /\ [Next]_vars => CopyInv'
<1> SUFFICES ASSUME IInv, CopyInv, Undisturbed, Undisturbed', [Next]_vars
             PROVE  CopyInv'
    OBVIOUS
<1>u. OneExtend /\ RecordedOnce /\ RecordedOnce'
    BY DEF Undisturbed
<1>1. ~Crash
    BY DEF Crash, Fault, Undisturbed
<1>2. ASSUME NEW c \in Check, SaveFile(c) \/ SaveDataOwner(c) PROVE CopyInv'
    BY <1>u, <1>2, SaveFileCopies, SaveDataOwnerCopies
<1>3. ASSUME NEW e \in Extend,
             ExtendStep(e) \/ \E f \in FileId, d \in Date : BeginExtend(e, f, d)
      PROVE  CopyInv'
    <2>1. CASE \/ \E f \in FileId, d \in Date : BeginExtend(e, f, d)
               \/ FindFile(e) \/ ExtendFails(e) \/ NothingToUpdate(e)
               \/ FindDataOwner(e) \/ FindSavedFile(e)
        BY <2>1, ReadingSteps
    <2>2. CASE ServiceNodeExtends(e)
        BY <2>2, ServiceNodeExtendsCopies
    <2>3. CASE UpdateFile(e)
        BY <1>u, <2>3, UpdateFileCopies
    <2>4. CASE SaveExtendedOwner(e)
        BY <1>u, <2>4, SaveExtendedOwnerCopies
    <2> QED BY <1>3, <2>1, <2>2, <2>3, <2>4 DEF ExtendStep
<1>4. ASSUME ~(\E c \in Check : SaveFile(c) \/ SaveDataOwner(c)),
             ~(\E e \in Extend : ExtendStep(e) \/
                    \E f \in FileId, d \in Date : BeginExtend(e, f, d))
      PROVE  CopyInv'
    <2>1. /\ ~(\E e \in Extend : UpdateFile(e) \/ SaveExtendedOwner(e))
          /\ ~(\E e \in Extend : ServiceNodeExtends(e))
        BY <1>4 DEF ExtendStep
    <2>2. UNCHANGED <<fileDb, ownerDb>>
        BY <1>4, <2>1, DbFrame
    <2>3. UNCHANGED ext
        BY <1>1, <1>4, JobsFrame
    <2>4. \A f \in FileId : sn[f].state = "stored" =>
                sn'[f].keepUntil = sn[f].keepUntil
        BY <2>1, DatesStay
    <2>5. \/ chk' = chk
          \/ \E c \in Check : \/ \E f \in FileId : CheckStatus(c, f)
                              \/ GetFileInfo(c) \/ FindFileKey(c) \/ SaveJobStops(c)
        BY <1>1, <1>4, JobsFrame DEF SaveJobStep
    <2>6. chk \in [Check -> SaveJob]
        BY CopyFacts
    <2>7. \A b \in Check : JobReads(b)
        <3>1. CASE chk' = chk
            BY <3>1 DEF JobReads
        <3>2. ASSUME NEW c \in Check,
                     \/ \E f \in FileId : CheckStatus(c, f)
                     \/ GetFileInfo(c) \/ FindFileKey(c) \/ SaveJobStops(c)
              PROVE  \A b \in Check : JobReads(b)
            BY <2>6, <3>2, SaveJobReads
        <3> QED BY <2>5, <3>1, <3>2
    <2> QED BY <2>2, <2>3, <2>4, <2>7, CopyFrame
<1> QED BY <1>2, <1>3, <1>4

LEMMA CopyInit == Init => CopyInv
<1> SUFFICES ASSUME Init PROVE CopyInv
    OBVIOUS
<1>1. fileDb = {} /\ ownerDb = {} /\ \A c \in Check : chk[c].pc = "idle"
    BY DEF Init
<1>2. \A e \in Extend : /\ ext[e].pc = "idle" /\ ext[e].file = Null
                        /\ ext[e].owner = Null
    BY DEF Init
<1>3. ReadCopies
    BY <1>2 DEF ReadCopies, ReadOK
<1> QED BY <1>1, <1>3 DEF CopyInv, OwnerCopies, SavedCopies, DateCopies, FetchedDates

\* While no call fails, a file is recorded once and no two PATCHes overlap, the
\* DataOwner shows exactly the File document whenever no PATCH is in progress,
\* and the File shows the date of the service node if every PATCH of the file
\* has updated its records.
THEOREM CopiesAgree == Spec /\ []Undisturbed => []CopiesAgreeAtRest
<1>1. ASSUME IInv, CopyInv PROVE CopiesAgreeAtRest
    <2> SUFFICES ASSUME AtRest
                 PROVE  /\ \A o \in ownerDb : o.file \in fileDb
                        /\ \A d \in fileDb :
                            (\A e \in Extend :
                                ext[e].file = d.id => ext[e].pc = "ok" /\ ext[e].owner # Null)
                            => d.keepUntil = sn[d.id].keepUntil
        BY DEF CopiesAgreeAtRest
    <2>1. \A e \in Extend : ext[e].pc # "saveOwner" /\ ext[e].pc \notin Ahead
        BY DEF AtRest, ExtActive, Ahead
    <2>2. \A o \in ownerDb : o.file \in fileDb
        BY <1>1, <2>1 DEF CopyInv, OwnerCopies
    <2>3. ASSUME NEW d \in fileDb,
                 \A e \in Extend :
                    ext[e].file = d.id => ext[e].pc = "ok" /\ ext[e].owner # Null
          PROVE  d.keepUntil = sn[d.id].keepUntil
        <3>1. Settled(d.id)
            BY <2>3 DEF Settled, SettledBy
        <3> QED BY <1>1, <2>1, <3>1 DEF CopyInv, DateCopies
    <2> QED BY <2>2, <2>3
<1> QED BY <1>1, Inductive, CopyInit, CopyStep, PTL DEF Spec
=============================================================================

------------------------- MODULE UploadRouting_proofs -------------------------
(***************************************************************************)
(* Proofs about UploadRouting, for every number of uploads, service nodes  *)
(* and chunks: the balancer keeps its invariant while uploads call through *)
(* it, and no upload hands over a file of which a chunk went elsewhere.    *)
(***************************************************************************)
EXTENDS UploadRouting, ServiceNodeBalancer_proofs

\* What the uploads need of each other: nothing.  The progress of one upload.
Progress(u) ==
    /\ received[u] = sent[u]
    /\ job[u] \in {"signing", "handedOver"} => sent[u] = Chunks

\* The part of the invariant that calls of the balancer can disturb.
CallerInv ==
    /\ IInv
    /\ instances \in Injection(Positions(serviceNodes), Node)

\* The part only the uploads can disturb.
UploadInv ==
    /\ home \in [Upload -> Node \cup {NoNode}]
    /\ received \in [Upload -> 0..Chunks]
    /\ sent \in [Upload -> 0..Chunks]
    /\ job \in [Upload -> JobPc]
    /\ disturbed \in SUBSET Upload
    /\ \A u \in Upload : Progress(u)

LEMMA RoutingInvParts == RoutingInv <=> CallerInv /\ UploadInv
BY DEF RoutingInv, RoutingTypeOK, CallerInv, UploadInv, Progress, IInv

-----------------------------------------------------------------------------
(* The balancer below the uploads                                          *)

\* A call that leaves the start of the process alone keeps the invariant,
\* whether it counts as a failed one or not.
LEMMA CallKeepsCaller ==
    ASSUME CallerInv, GetServiceNodeInstance, UNCHANGED <<bootVars, instances>>,
           Fault \/ UNCHANGED faults
    PROVE  CallerInv'
<1>1. TypeOK /\ WaitInv /\ AccountInv
  BY DEF CallerInv, IInv
<1>2. /\ serviceNodes' \in 0..MaxNodes
      /\ selectedNodeIndex' \in 0..MaxNodes
      /\ waits' \in [Positions(serviceNodes') -> Nat]
      /\ refreshing' \in BOOLEAN
      /\ WaitInv'
  BY <1>1, ChoiceKeepsWaits
<1>3. faults' \in 0..MaxFaults
  BY <1>1, BalancerAssumption DEF TypeOK, Fault
<1>4. TypeOK' /\ AccountInv'
  BY <1>1, <1>2, <1>3 DEF TypeOK, AccountInv, bootVars
<1>5. serviceNodes' = serviceNodes
  BY DEF GetServiceNodeInstance
<1> QED
  BY <1>2, <1>4, <1>5 DEF CallerInv, IInv

\* The service node a call goes to is one of the list.
LEMMA CalledIsNode ==
    ASSUME CallerInv, Call
    PROVE  Called \in Node
<1>1. serviceNodes \in Nat /\ selectedNodeIndex \in Nat /\ serviceNodes > 0
  BY BalancerAssumption DEF CallerInv, IInv, TypeOK, Call
<1>2. Chosen \in Positions(serviceNodes)
  BY <1>1 DEF Chosen, InRange, Positions
<1>3. instances \in [Positions(serviceNodes) -> Node]
  BY DEF CallerInv, Injection, IsInjective
<1> QED
  BY <1>2, <1>3 DEF Called

\* Every step keeps what the balancer promises to the uploads.
LEMMA CallerStep == CallerInv /\ [RoutingNext]_allVars => CallerInv'
<1> SUFFICES ASSUME CallerInv, [RoutingNext]_allVars PROVE CallerInv'
  OBVIOUS
<1>i. IInv /\ instances \in Injection(Positions(serviceNodes), Node)
  BY DEF CallerInv
\* A step of the balancer alone, that leaves the list alone.
<1>n. ASSUME [Next]_vars, UNCHANGED <<serviceNodes, instances>>
      PROVE  CallerInv'
  BY <1>i, <1>n, BalancerStep DEF CallerInv
<1>1. ASSUME NEW u \in Upload,
             \/ CreateServiceNodeFile(u) \/ UploadFileChunk(u)
             \/ UploadFileToDds(u)
      PROVE  CallerInv'
  BY <1>1, CallKeepsCaller
  DEF CreateServiceNodeFile, UploadFileChunk, UploadFileToDds, Call
<1>2. ASSUME NEW u \in Upload, AllChunksSent(u) PROVE CallerInv'
  BY <1>2, <1>n DEF AllChunksSent, vars, balancerVars
<1>3. ASSUME NEW u \in Upload, JobStops(u) PROVE CallerInv'
  BY <1>3, CallKeepsCaller DEF JobStops
<1>4. ASSUME InstancesReplaced PROVE CallerInv'
  <2>1. PICK n \in 0..MaxNodes :
           /\ InstancesRefreshed(n)
           /\ instances' \in Injection(Positions(n), Node)
    BY <1>4 DEF InstancesReplaced
  <2>2. Next
    BY <2>1 DEF Next, Refreshed
  <2>3. IInv'
    BY <1>i, <2>2, BalancerStep
  <2> QED
    BY <2>1, <2>3 DEF InstancesRefreshed, CallerInv
<1>5. ASSUME OtherStep PROVE CallerInv'
  <2>1. Next /\ UNCHANGED instances
    BY <1>5 DEF OtherStep, Next
  <2>2. UNCHANGED serviceNodes
    BY <1>5
    DEF OtherStep, RefreshInstances, RefreshFails, BootStep, HookCallFails,
        ServeRequest, AccountCreated, RunHook, CheckInitialAccount,
        InitialAccountChecked, InitialAccountRegistered, RegisterSelf,
        AnnounceSelf, SelfAnnounced, Listen, CallServiceNode,
        GetServiceNodeInstance, balancerVars
  <2> QED
    BY <1>n, <2>1, <2>2
<1>6. ASSUME RestartAll PROVE CallerInv'
  <2>1. Restart /\ instances' \in [Positions(0) -> Node]
    BY <1>6 DEF RestartAll
  <2>2. IInv'
    BY <1>i, <2>1, BalancerStep DEF Next
  <2>3. serviceNodes' = 0 /\ Positions(0) = {}
    BY <2>1 DEF Restart, Positions
  <2>4. instances' \in Injection(Positions(serviceNodes'), Node)
    BY <2>1, <2>3 DEF Injection, IsInjective
  <2> QED
    BY <2>2, <2>4 DEF CallerInv
<1>7. CASE UNCHANGED allVars
  BY <1>7, <1>n DEF allVars, vars, balancerVars
<1> QED
  BY <1>1, <1>2, <1>3, <1>4, <1>5, <1>6, <1>7 DEF RoutingNext, JobStep

-----------------------------------------------------------------------------
(* The uploads                                                             *)

LEMMA UploadStep ==
    CallerInv /\ UploadInv /\ [RoutingNext]_allVars => UploadInv'
<1> SUFFICES ASSUME CallerInv, UploadInv, [RoutingNext]_allVars PROVE UploadInv'
  OBVIOUS
<1>a. Chunks \in Nat
  BY RoutingAssumption
<1>1. ASSUME NEW u \in Upload, CreateServiceNodeFile(u) PROVE UploadInv'
  <2>1. Called \in Node
    BY <1>1, CalledIsNode DEF CreateServiceNodeFile
  <2>2. /\ home' = [home EXCEPT ![u] = Called]
        /\ job' = [job EXCEPT ![u] = "sending"]
        /\ disturbed' \subseteq disturbed \cup {u}
        /\ UNCHANGED <<received, sent>>
    BY <1>1 DEF CreateServiceNodeFile, GoTo
  <2> QED
    BY <2>1, <2>2 DEF UploadInv, Progress, JobPc
\* A chunk counts as sent exactly when the service node that has the file got it.
<1>2. ASSUME NEW u \in Upload, UploadFileChunk(u) PROVE UploadInv'
  <2>1. sent[u] \in 0..Chunks /\ sent[u] < Chunks /\ received[u] = sent[u]
        /\ job[u] = "sending"
    BY <1>2 DEF UploadFileChunk, UploadInv, Progress
  <2>2. CASE Called = home[u]
    BY <1>2, <1>a, <2>1, <2>2 DEF UploadFileChunk, UploadInv, Progress, JobPc
  <2>3. CASE Called # home[u]
    BY <1>2, <2>1, <2>3 DEF UploadFileChunk, GoTo, UploadInv, Progress, JobPc
  <2> QED
    BY <2>2, <2>3
<1>3. ASSUME NEW u \in Upload, AllChunksSent(u) PROVE UploadInv'
  BY <1>3 DEF AllChunksSent, GoTo, UploadInv, Progress, JobPc
<1>4. ASSUME NEW u \in Upload, UploadFileToDds(u) PROVE UploadInv'
  BY <1>4 DEF UploadFileToDds, GoTo, UploadInv, Progress, JobPc
<1>5. ASSUME NEW u \in Upload, JobStops(u) PROVE UploadInv'
  BY <1>5 DEF JobStops, GoTo, UploadInv, Progress, JobPc
<1>6. ASSUME InstancesReplaced PROVE UploadInv'
  BY <1>6 DEF InstancesReplaced, Active, UploadInv, Progress
<1>7. ASSUME RestartAll PROVE UploadInv'
  BY <1>7 DEF RestartAll, Active, UploadInv, Progress, JobPc
<1>8. ASSUME OtherStep \/ UNCHANGED allVars PROVE UploadInv'
  BY <1>8 DEF OtherStep, allVars, uploadVars, UploadInv, Progress
<1> QED
  BY <1>1, <1>2, <1>3, <1>4, <1>5, <1>6, <1>7, <1>8 DEF RoutingNext, JobStep

-----------------------------------------------------------------------------
(* The theorems                                                            *)

\* The invariant of the uploads and of the balancer they call through, for any
\* number of service nodes, refreshes, failed calls and restarts.
THEOREM RoutingInvariant == RoutingSpec => []RoutingInv
<1>1. RoutingInit => CallerInv /\ UploadInv
  <2> SUFFICES ASSUME RoutingInit PROVE CallerInv /\ UploadInv
    OBVIOUS
  <2>1. IInv /\ serviceNodes = 0 /\ Positions(0) = {}
    BY BalancerInit DEF RoutingInit, Init, Positions
  <2>2. CallerInv
    BY <2>1 DEF RoutingInit, CallerInv, Injection, IsInjective
  <2>3. UploadInv
    BY RoutingAssumption DEF RoutingInit, UploadInv, Progress, JobPc
  <2> QED
    BY <2>2, <2>3
<1>2. CallerInv /\ UploadInv /\ [RoutingNext]_allVars
        => (CallerInv /\ UploadInv)'
  BY CallerStep, UploadStep
<1> QED
  BY <1>1, <1>2, RoutingInvParts, PTL DEF RoutingSpec

\* Types of the composition.
THEOREM RoutingTypeCorrect == RoutingSpec => []RoutingTypeOK
<1>1. RoutingInv => RoutingTypeOK
  BY DEF RoutingInv
<1> QED
  BY <1>1, RoutingInvariant, PTL

\* A file is handed over to DDS only when the service node that created it has
\* every chunk of it, wherever the calls of the upload went in the meantime.
THEOREM HandedOverFilesAreWhole == RoutingSpec => []HandedOverWhole
<1>1. RoutingInv => HandedOverWhole
  BY DEF RoutingInv, HandedOverWhole
<1> QED
  BY <1>1, RoutingInvariant, PTL

\* Below the uploads the balancer still serves every service node in turn.
THEOREM EveryNodeIsServedInUploads == RoutingSpec => []NoStarvation
<1>1. RoutingInv => IInv
  BY DEF RoutingInv
<1> QED
  BY <1>1, InvServes, RoutingInvariant, PTL
=============================================================================

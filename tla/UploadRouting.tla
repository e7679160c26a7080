---------------------------- MODULE UploadRouting ----------------------------
(***************************************************************************)
(* Uploads behind the load balancer.  ServiceNodeApiClient asks the        *)
(* balancer for an instance at every call, so the calls of one upload      *)
(* (create the file, its chunks, hand over to DDS) each go to the service  *)
(* node whose turn it is, whichever one created the file.                  *)
(*                                                                         *)
(* Service nodes are external.  They are taken to know only the files that *)
(* were created at them: the routes are .../files/local/:id and the reply  *)
(* has a field deletedLocally.  A refresh may list any of them, in any     *)
(* order.                                                                  *)
(***************************************************************************)
EXTENDS ServiceNodeBalancer, Functions

CONSTANTS
    Upload,      \* POST local/:localFileId/to-service-node requests
    Node,        \* service nodes
    Chunks,      \* chunks of an encrypted file
    NoNode       \* no file yet

ASSUME RoutingAssumption ==
    /\ Chunks \in Nat
    /\ NoNode \notin Node

VARIABLES
    instances,  \* the service nodes of nodeInstances, by position
    home,       \* the service node that created the file of an upload
    received,   \* chunks it has received
    sent,       \* currentChunk of the background job
    job,        \* the upload and its background job
    disturbed   \* history: uploads that met a failed call, a restart, or a list
                \* of other service nodes than the one that created the file

uploadVars == <<home, received, sent, job, disturbed>>
allVars == <<vars, instances, uploadVars>>

JobPc == {"idle", "sending", "signing", "handedOver", "stopped"}

RoutingTypeOK ==
    /\ TypeOK
    /\ instances \in Injection(Positions(serviceNodes), Node)
    /\ home \in [Upload -> Node \cup {NoNode}]
    /\ received \in [Upload -> 0..Chunks]
    /\ sent \in [Upload -> 0..Chunks]
    /\ job \in [Upload -> JobPc]
    /\ disturbed \in SUBSET Upload

RoutingInit ==
    /\ Init
    /\ instances \in [Positions(0) -> Node]
    /\ home = [u \in Upload |-> NoNode]
    /\ received = [u \in Upload |-> 0]
    /\ sent = received
    /\ job = [u \in Upload |-> "idle"]
    /\ disturbed = {}

-----------------------------------------------------------------------------
\* getUrl: the next instance, for every call.
Call ==
    /\ boot = "listening"
    /\ serviceNodes > 0
    /\ GetServiceNodeInstance
    /\ UNCHANGED <<instances, bootVars, faults>>

Called == instances[Chosen]

GoTo(u, pc) == job' = [job EXCEPT ![u] = pc]

Active == {u \in Upload : job[u] \in {"sending", "signing"}}

CreateServiceNodeFile(u) ==
    /\ job[u] = "idle"
    /\ Call
    /\ home' = [home EXCEPT ![u] = Called]
    /\ GoTo(u, "sending")
    /\ disturbed' = disturbed \cup {v \in {u} : Range(instances) # {Called}}
    /\ UNCHANGED <<received, sent>>

\* Mutant: a stray chunk is counted as sent.
UploadFileChunk_StrayCounted(u) ==
    /\ job[u] = "sending"
    /\ sent[u] < Chunks
    /\ Call
    /\ sent' = [sent EXCEPT ![u] = @ + 1]
    /\ received' = IF Called = home[u] THEN [received EXCEPT ![u] = @ + 1]
                                       ELSE received
    /\ UNCHANGED <<home, job, disturbed>>

\* Another service node answers 404, which nobody catches.
UploadFileChunk(u) ==
    /\ job[u] = "sending"
    /\ sent[u] < Chunks
    /\ Call
    /\ IF Called = home[u]
         THEN /\ received' = [received EXCEPT ![u] = @ + 1]
              /\ sent' = [sent EXCEPT ![u] = @ + 1]
              /\ UNCHANGED job
         ELSE GoTo(u, "stopped") /\ UNCHANGED <<received, sent>>
    /\ UNCHANGED <<home, disturbed>>

\* Mutant: the loop waits for one more chunk.
AllChunksSent_OneMore(u) ==
    /\ job[u] = "sending"
    /\ sent[u] = Chunks + 1
    /\ GoTo(u, "signing")
    /\ UNCHANGED <<vars, instances, home, received, sent, disturbed>>

AllChunksSent(u) ==
    /\ job[u] = "sending"
    /\ sent[u] = Chunks
    /\ GoTo(u, "signing")
    /\ UNCHANGED <<vars, instances, home, received, sent, disturbed>>

UploadFileToDds(u) ==
    /\ job[u] = "signing"
    /\ Call
    /\ GoTo(u, IF Called = home[u] THEN "handedOver" ELSE "stopped")
    /\ UNCHANGED <<home, received, sent, disturbed>>

\* A call fails, or there is no service node to call.
JobStops(u) ==
    /\ u \in Active
    /\ GetServiceNodeInstance
    /\ \/ Fault /\ disturbed' = disturbed \cup {u}
       \/ serviceNodes = 0 /\ UNCHANGED <<faults, disturbed>>
    /\ GoTo(u, "stopped")
    /\ UNCHANGED <<bootVars, instances, home, received, sent>>

\* The background jobs die with the process.
RestartAll ==
    /\ Restart
    /\ instances' \in [Positions(0) -> Node]
    /\ job' = [u \in Upload |-> IF u \in Active THEN "stopped" ELSE job[u]]
    /\ disturbed' = disturbed \cup Active
    /\ UNCHANGED <<home, received, sent>>

\* The list is replaced while uploads go on.
InstancesReplaced ==
    /\ \E n \in 0..MaxNodes :
        /\ InstancesRefreshed(n)
        /\ instances' \in Injection(Positions(n), Node)
    /\ disturbed' =
          disturbed \cup {u \in Active : Range(instances') # {home[u]}}
    /\ UNCHANGED <<home, received, sent, job>>

\* The rest of the backend goes on.
OtherStep ==
    /\ \/ RefreshInstances
       \/ RefreshFails
       \/ BootStep
       \/ HookCallFails
       \/ ServeRequest
       \/ AccountCreated
    /\ UNCHANGED <<instances, uploadVars>>

JobStep(u) ==
    \/ UploadFileChunk(u)
    \/ AllChunksSent(u)
    \/ UploadFileToDds(u)

RoutingNext ==
    \/ \E u \in Upload : CreateServiceNodeFile(u) \/ JobStep(u) \/ JobStops(u)
    \/ InstancesReplaced
    \/ OtherStep
    \/ RestartAll

RoutingSpec == RoutingInit /\ [][RoutingNext]_allVars

\* The background jobs go on: calls that do not fail are answered.
FairRoutingSpec ==
    RoutingSpec /\ Fairness /\ \A u \in Upload : WF_allVars(JobStep(u))

-----------------------------------------------------------------------------
\* When a file is handed over the service node that created it has all of it,
\* although every chunk went to the service node whose turn it was and lists were
\* replaced meanwhile: a stray chunk stops the job, it is never counted as sent.
HandedOverWhole ==
    \A u \in Upload : job[u] = "handedOver" => received[u] = Chunks

\* While the only service node in the list is the one that created the file, and
\* no call fails, every upload arrives at DDS, whatever other calls take turns
\* and however often the list is refreshed in between.
UploadArrives ==
    \A u \in Upload :
        job[u] = "sending" ~> (job[u] = "handedOver" \/ u \in disturbed)

\* The inductive invariant behind HandedOverWhole.
RoutingInv ==
    /\ RoutingTypeOK
    /\ IInv
    /\ \A u \in Upload :
        /\ received[u] = sent[u]
        /\ job[u] \in {"signing", "handedOver"} => sent[u] = Chunks
=============================================================================

------------------------- MODULE ServiceNodeBalancer -------------------------
(***************************************************************************)
(* Discovery in the backend: RoundRobinLoadBalancerClient, which every     *)
(* call of a service node asks for an instance, and the start of the       *)
(* process, whose bootstrap hooks (InitialAccountRegistrationHandler,      *)
(* SelfRegistrationService) are the first to ask.                          *)
(*                                                                         *)
(* The list of instances is replaced every ten minutes by the answer of a  *)
(* bootstrap node, the first time right at the start; the hooks do not     *)
(* wait for it.  Of the list only the number of service nodes matters: an  *)
(* instance is named by its position among them, from 0.  app.listen runs  *)
(* the hooks one after the other, in the order of the modules, and opens   *)
(* the port after the last one.                                            *)
(***************************************************************************)
EXTENDS Integers

CONSTANTS
    MaxNodes,     \* bound: service nodes in one list
    InitialKey,   \* whether INITIAL_ACCOUNT_PRIVATE_KEY is set
    MaxFaults     \* bound: failed calls and restarts

ASSUME BalancerAssumption ==
    /\ MaxNodes \in Nat
    /\ InitialKey \in BOOLEAN
    /\ MaxFaults \in Nat

VARIABLES
    serviceNodes,        \* service nodes in nodeInstances
    selectedNodeIndex,   \* position the next call may get
    waits,               \* history: calls since a position was last chosen
    refreshing,          \* the answer of a bootstrap node is awaited
    boot,                \* what app.listen is doing
    hooks,               \* bootstrap hooks still to run
    accounts,            \* NeDB: whether there is an Account document
    faults

balancerVars == <<serviceNodes, selectedNodeIndex, waits, refreshing>>
bootVars == <<boot, hooks, accounts>>
vars == <<balancerVars, bootVars, faults>>

Hook == {"initialAccount", "registerSelf"}
\* "rejected": the promise of app.listen is rejected, nothing opens the port.
Boot == Hook \cup {"starting", "isRegistered", "registering", "getIp",
                   "announcing", "listening", "rejected"}
\* A reply of another host is awaited.
Awaiting == {"isRegistered", "registering", "getIp", "announcing"}

Positions(n) == 0..(n - 1)

TypeOK ==
    /\ serviceNodes \in 0..MaxNodes
    /\ selectedNodeIndex \in 0..MaxNodes
    /\ waits \in [Positions(serviceNodes) -> Nat]
    /\ refreshing \in BOOLEAN
    /\ boot \in Boot
    /\ hooks \in SUBSET Hook
    /\ accounts \in BOOLEAN
    /\ faults \in 0..MaxFaults

Init ==
    /\ serviceNodes = 0
    /\ selectedNodeIndex = 0
    /\ waits = [k \in Positions(0) |-> 0]
    /\ refreshing = TRUE
    /\ boot = "starting"
    /\ hooks = Hook
    /\ accounts \in BOOLEAN
    /\ faults = 0

Fault ==
    /\ faults < MaxFaults
    /\ faults' = faults + 1

-----------------------------------------------------------------------------
(* The load balancer                                                       *)

InRange == selectedNodeIndex < serviceNodes
Chosen == IF InRange THEN selectedNodeIndex ELSE 0

\* Mutant: the index stays behind the last service node.
GetServiceNodeInstance_NoReset ==
    /\ selectedNodeIndex' = IF InRange THEN selectedNodeIndex + 1
                                       ELSE selectedNodeIndex
    /\ waits' = [k \in Positions(serviceNodes) |->
                    IF k = Chosen THEN 0 ELSE waits[k] + 1]
    /\ UNCHANGED <<serviceNodes, refreshing>>

\* With no service node the result is undefined, which the caller dereferences.
GetServiceNodeInstance ==
    /\ selectedNodeIndex' = IF InRange THEN selectedNodeIndex + 1 ELSE 0
    /\ waits' = [k \in Positions(serviceNodes) |->
                    IF k = Chosen THEN 0 ELSE waits[k] + 1]
    /\ UNCHANGED <<serviceNodes, refreshing>>

\* Every ten minutes, not before the last refresh has ended.
RefreshInstances ==
    /\ ~refreshing
    /\ refreshing' = TRUE
    /\ UNCHANGED <<serviceNodes, selectedNodeIndex, waits, bootVars, faults>>

\* selectedNodeIndex stays where it was in the old list.
InstancesRefreshed(n) ==
    /\ refreshing
    /\ refreshing' = FALSE
    /\ serviceNodes' = n
    /\ waits' = [k \in Positions(n) |-> 0]
    /\ UNCHANGED <<selectedNodeIndex, bootVars, faults>>

RefreshFails ==
    /\ refreshing
    /\ Fault
    /\ refreshing' = FALSE
    /\ UNCHANGED <<serviceNodes, selectedNodeIndex, waits, bootVars>>

-----------------------------------------------------------------------------
(* The start                                                               *)

\* A hook calls a service node and goes on to pc, or throws.
CallServiceNode(pc) ==
    /\ GetServiceNodeInstance
    /\ boot' = IF serviceNodes = 0 THEN "rejected" ELSE pc

RunHook(h) ==
    /\ boot = "starting"
    /\ h \in hooks
    /\ hooks' = hooks \ {h}
    /\ boot' = h
    /\ UNCHANGED <<balancerVars, accounts, faults>>

CheckInitialAccount ==
    /\ boot = "initialAccount"
    /\ \/ /\ accounts \/ ~InitialKey
          /\ boot' = "starting"
          /\ UNCHANGED balancerVars
       \/ /\ ~accounts /\ InitialKey
          /\ CallServiceNode("isRegistered")
    /\ UNCHANGED <<hooks, accounts, faults>>

\* Mutant: an account of another role is passed over.
InitialAccountChecked_RoleIgnored ==
    /\ boot = "isRegistered"
    /\ \/ /\ accounts' \in {accounts, TRUE}
          /\ boot' = "starting"
          /\ UNCHANGED balancerVars
       \/ /\ CallServiceNode("registering")
          /\ UNCHANGED accounts
    /\ UNCHANGED <<hooks, faults>>

\* The address is one of a data validator, of another role, or not registered.
InitialAccountChecked ==
    /\ boot = "isRegistered"
    /\ \/ /\ accounts' = TRUE
          /\ boot' = "starting"
          /\ UNCHANGED balancerVars
       \/ /\ boot' = "rejected"
          /\ UNCHANGED <<balancerVars, accounts>>
       \/ /\ CallServiceNode("registering")
          /\ UNCHANGED accounts
    /\ UNCHANGED <<hooks, faults>>

InitialAccountRegistered ==
    /\ boot = "registering"
    /\ accounts' = TRUE
    /\ boot' = "starting"
    /\ UNCHANGED <<balancerVars, hooks, faults>>

\* Mutant: the hook waits for an account.
RegisterSelf_Waits ==
    /\ boot = "registerSelf"
    /\ accounts
    /\ boot' = "getIp"
    /\ UNCHANGED <<balancerVars, hooks, accounts, faults>>

RegisterSelf ==
    /\ boot = "registerSelf"
    /\ boot' = IF accounts THEN "getIp" ELSE "starting"
    /\ UNCHANGED <<balancerVars, hooks, accounts, faults>>

AnnounceSelf ==
    /\ boot = "getIp"
    /\ CallServiceNode("announcing")
    /\ UNCHANGED <<hooks, accounts, faults>>

SelfAnnounced ==
    /\ boot = "announcing"
    /\ boot' = "starting"
    /\ UNCHANGED <<balancerVars, hooks, accounts, faults>>

HookCallFails ==
    /\ boot \in Awaiting
    /\ Fault
    /\ boot' = "rejected"
    /\ UNCHANGED <<balancerVars, hooks, accounts>>

Listen ==
    /\ boot = "starting"
    /\ hooks = {}
    /\ boot' = "listening"
    /\ UNCHANGED <<balancerVars, hooks, accounts, faults>>

\* A request that calls a service node; without one it is answered an error.
ServeRequest ==
    /\ boot = "listening"
    /\ GetServiceNodeInstance
    /\ UNCHANGED <<bootVars, faults>>

\* POST accounts: the account is saved after calls of a service node.
AccountCreated ==
    /\ boot = "listening"
    /\ serviceNodes > 0
    /\ ~accounts
    /\ GetServiceNodeInstance
    /\ accounts' = TRUE
    /\ UNCHANGED <<boot, hooks, faults>>

\* The process is killed and started again; only NeDB is kept.
Restart ==
    /\ Fault
    /\ serviceNodes' = 0
    /\ selectedNodeIndex' = 0
    /\ waits' = [k \in Positions(0) |-> 0]
    /\ refreshing' = TRUE
    /\ boot' = "starting"
    /\ hooks' = Hook
    /\ UNCHANGED accounts

-----------------------------------------------------------------------------
BootStep ==
    \/ \E h \in Hook : RunHook(h)
    \/ CheckInitialAccount
    \/ InitialAccountChecked
    \/ InitialAccountRegistered
    \/ RegisterSelf
    \/ AnnounceSelf
    \/ SelfAnnounced
    \/ Listen

Refreshed == \E n \in 0..MaxNodes : InstancesRefreshed(n)

Next ==
    \/ RefreshInstances
    \/ Refreshed
    \/ RefreshFails
    \/ BootStep
    \/ HookCallFails
    \/ ServeRequest
    \/ AccountCreated
    \/ Restart

Spec == Init /\ [][Next]_vars

\* Calls that do not fail are answered, and the cron job runs.
Fairness ==
    /\ WF_vars(BootStep)
    /\ WF_vars(Refreshed)
    /\ WF_vars(RefreshInstances)

FairSpec == Spec /\ Fairness

-----------------------------------------------------------------------------
(* Properties                                                              *)

\* Between two refreshes no service node waits for more calls than there are
\* service nodes, although the turn of position 0 comes twice in every round
\* (after a wrap selectedNodeIndex stays 0) and the index of a longer list is
\* kept when a refresh makes it shorter.
NoStarvation == \A k \in Positions(serviceNodes) : waits[k] <= serviceNodes

\* A node with an initial account never serves requests without having it, in
\* whatever order the hooks run and after whatever failures and restarts.
ListensWithAccount == boot = "listening" /\ InitialKey => accounts

\* "After startup, Data Validator node exposes RESTful API" (README.md): where no
\* call fails and every list that arrives has a service node, the port is opened.
StartupExposesApi ==
    [](~refreshing => serviceNodes > 0) => <>(boot = "listening")

\* The promise of app.listen is settled, whatever hook fails at whatever call.
StartupEnds == <>(boot \in {"listening", "rejected"})

-----------------------------------------------------------------------------
(* The inductive invariant behind NoStarvation and ListensWithAccount      *)

\* How long position k has waited, by where the index is in the round.
WaitInv ==
    \A k \in Positions(serviceNodes) :
        /\ k < selectedNodeIndex /\ selectedNodeIndex <= serviceNodes
             => waits[k] <= selectedNodeIndex - k - 1
        /\ selectedNodeIndex <= k
             => waits[k] <= serviceNodes - k + selectedNodeIndex
        /\ serviceNodes < selectedNodeIndex => waits[k] = 0

\* The hook for the initial account has run, is running, or found one.
AccountInv ==
    InitialKey /\ ~accounts =>
        \/ "initialAccount" \in hooks
        \/ boot \in {"initialAccount", "isRegistered", "registering", "rejected"}

IInv ==
    /\ TypeOK
    /\ WaitInv
    /\ AccountInv
=============================================================================

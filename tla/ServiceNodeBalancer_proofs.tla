--------------------- MODULE ServiceNodeBalancer_proofs ---------------------
(***************************************************************************)
(* Proofs about ServiceNodeBalancer, for every number of service nodes,    *)
(* calls, refreshes, failures and restarts.                                *)
(***************************************************************************)
EXTENDS ServiceNodeBalancer, TLAPS

\* The initial state satisfies the invariant.
LEMMA BalancerInit == Init => IInv
    BY BalancerAssumption
    DEF Init, IInv, TypeOK, WaitInv, AccountInv, Positions, Hook, Boot

\* One call of getServiceNodeInstance keeps the types and the bounds on waiting.
LEMMA ChoiceKeepsWaits ==
    ASSUME TypeOK, WaitInv, GetServiceNodeInstance
    PROVE  /\ serviceNodes' \in 0..MaxNodes
           /\ selectedNodeIndex' \in 0..MaxNodes
           /\ waits' \in [Positions(serviceNodes') -> Nat]
           /\ refreshing' \in BOOLEAN
           /\ WaitInv'
<1>1. serviceNodes \in 0..MaxNodes /\ selectedNodeIndex \in 0..MaxNodes
    BY DEF TypeOK
<1>2. waits \in [Positions(serviceNodes) -> Nat]
    BY DEF TypeOK
<1>3. serviceNodes' = serviceNodes /\ refreshing' = refreshing
    BY DEF GetServiceNodeInstance
<1>4. waits' = [k \in Positions(serviceNodes) |->
                    IF k = Chosen THEN 0 ELSE waits[k] + 1]
    BY DEF GetServiceNodeInstance
<1>5. selectedNodeIndex' = IF selectedNodeIndex < serviceNodes
                             THEN selectedNodeIndex + 1 ELSE 0
    BY DEF GetServiceNodeInstance, InRange
<1>6. Chosen = IF selectedNodeIndex < serviceNodes THEN selectedNodeIndex ELSE 0
    BY DEF Chosen, InRange
<1>7. selectedNodeIndex' \in 0..MaxNodes
    BY <1>1, <1>5, BalancerAssumption
<1>8. waits' \in [Positions(serviceNodes') -> Nat]
    BY <1>2, <1>3, <1>4
<1>9. WaitInv'
    <2> SUFFICES ASSUME NEW k \in Positions(serviceNodes)
                 PROVE  /\ k < selectedNodeIndex' /\ selectedNodeIndex' <= serviceNodes
                             => waits'[k] <= selectedNodeIndex' - k - 1
                        /\ selectedNodeIndex' <= k
                             => waits'[k] <= serviceNodes - k + selectedNodeIndex'
                        /\ serviceNodes < selectedNodeIndex' => waits'[k] = 0
        BY <1>3 DEF WaitInv
    <2>1. k \in 0..(serviceNodes - 1) /\ waits[k] \in Nat
        BY <1>2 DEF Positions
    <2>2. /\ k < selectedNodeIndex /\ selectedNodeIndex <= serviceNodes
               => waits[k] <= selectedNodeIndex - k - 1
          /\ selectedNodeIndex <= k
               => waits[k] <= serviceNodes - k + selectedNodeIndex
          /\ serviceNodes < selectedNodeIndex => waits[k] = 0
        BY DEF WaitInv
    <2>3. waits'[k] = IF k = Chosen THEN 0 ELSE waits[k] + 1
        BY <1>4
    <2>4. CASE selectedNodeIndex < serviceNodes
        BY <1>1, <1>5, <1>6, <2>1, <2>2, <2>3, <2>4, BalancerAssumption
    <2>5. CASE ~(selectedNodeIndex < serviceNodes)
        BY <1>1, <1>5, <1>6, <2>1, <2>2, <2>3, <2>5, BalancerAssumption
    <2> QED BY <2>4, <2>5
<1> QED BY <1>1, <1>3, <1>7, <1>8, <1>9 DEF TypeOK

\* A step of the load balancer or of the start keeps the invariant.
LEMMA BalancerStep == IInv /\ [Next]_vars => IInv'
<1> SUFFICES ASSUME IInv, [Next]_vars PROVE IInv'
    OBVIOUS
<1>t. TypeOK /\ WaitInv /\ AccountInv
    BY DEF IInv
<1>fault. Fault => faults' \in 0..MaxFaults
    BY <1>t, BalancerAssumption DEF TypeOK, Fault
\* The parts of the invariant, for steps that leave the other part alone.
<1>same. ASSUME UNCHANGED balancerVars
         PROVE  /\ serviceNodes' \in 0..MaxNodes
                /\ selectedNodeIndex' \in 0..MaxNodes
                /\ waits' \in [Positions(serviceNodes') -> Nat]
                /\ refreshing' \in BOOLEAN
                /\ WaitInv'
    BY <1>t, <1>same DEF balancerVars, TypeOK, WaitInv
<1>hook. ASSUME NEW pc \in Boot, CallServiceNode(pc)
         PROVE  /\ serviceNodes' \in 0..MaxNodes
                /\ selectedNodeIndex' \in 0..MaxNodes
                /\ waits' \in [Positions(serviceNodes') -> Nat]
                /\ refreshing' \in BOOLEAN
                /\ WaitInv'
                /\ boot' \in {pc, "rejected"}
    BY <1>t, <1>hook, ChoiceKeepsWaits DEF CallServiceNode
<1>1. ASSUME RefreshInstances \/ RefreshFails PROVE IInv'
    <2>1. UNCHANGED <<serviceNodes, selectedNodeIndex, waits, bootVars>>
        BY <1>1 DEF RefreshInstances, RefreshFails
    <2>2. refreshing' \in BOOLEAN /\ faults' \in 0..MaxFaults
        BY <1>1, <1>t, <1>fault DEF RefreshInstances, RefreshFails, TypeOK
    <2> QED BY <1>t, <2>1, <2>2
            DEF IInv, TypeOK, WaitInv, AccountInv, bootVars
<1>2. ASSUME NEW n \in 0..MaxNodes, InstancesRefreshed(n) PROVE IInv'
    <2>1. /\ serviceNodes' = n /\ waits' = [k \in Positions(n) |-> 0]
          /\ refreshing' = FALSE
          /\ UNCHANGED <<selectedNodeIndex, boot, hooks, accounts, faults>>
        BY <1>2 DEF InstancesRefreshed, bootVars
    <2>2. TypeOK'
        BY <1>t, <2>1 DEF TypeOK
    <2>3. WaitInv'
        BY <1>t, <2>1, BalancerAssumption DEF WaitInv, TypeOK, Positions
    <2> QED BY <1>t, <2>1, <2>2, <2>3 DEF IInv, AccountInv
<1>3. ASSUME NEW h \in Hook, RunHook(h) PROVE IInv'
    BY <1>3, <1>t, <1>same DEF RunHook, IInv, TypeOK, AccountInv, Boot, Hook
<1>4. ASSUME CheckInitialAccount PROVE IInv'
    <2>1. CASE accounts \/ ~InitialKey
        BY <1>4, <1>t, <1>same, <2>1, "isRegistered" \in Boot, <1>hook
        DEF CheckInitialAccount, IInv, TypeOK, AccountInv, Boot
    <2>2. CASE ~accounts /\ InitialKey
        BY <1>4, <1>t, <2>2, "isRegistered" \in Boot, <1>hook
        DEF CheckInitialAccount, IInv, TypeOK, AccountInv, Boot
    <2> QED BY <2>1, <2>2
<1>5. ASSUME InitialAccountChecked PROVE IInv'
    <2>1. UNCHANGED <<hooks, faults>>
        BY <1>5 DEF InitialAccountChecked
    <2>2. CASE UNCHANGED balancerVars
        BY <1>5, <1>t, <1>same, <2>1, <2>2, "registering" \in Boot, <1>hook
        DEF InitialAccountChecked, IInv, TypeOK, AccountInv, Boot
    <2>3. CASE CallServiceNode("registering") /\ UNCHANGED accounts
        BY <1>t, <2>1, <2>3, "registering" \in Boot, <1>hook
        DEF IInv, TypeOK, AccountInv, Boot
    <2> QED BY <1>5, <2>2, <2>3 DEF InitialAccountChecked
<1>6. ASSUME \/ InitialAccountRegistered \/ RegisterSelf \/ SelfAnnounced
             \/ Listen
      PROVE  IInv'
    BY <1>6, <1>t, <1>same
    DEF InitialAccountRegistered, RegisterSelf, SelfAnnounced, Listen, IInv,
        TypeOK, AccountInv, Boot
<1>7. ASSUME AnnounceSelf PROVE IInv'
    BY <1>7, <1>t, "announcing" \in Boot, <1>hook
    DEF AnnounceSelf, IInv, TypeOK, AccountInv, Boot
<1>8. ASSUME HookCallFails PROVE IInv'
    BY <1>8, <1>t, <1>same, <1>fault
    DEF HookCallFails, IInv, TypeOK, AccountInv, Boot
<1>9. ASSUME ServeRequest \/ AccountCreated PROVE IInv'
    <2>1. GetServiceNodeInstance
        BY <1>9 DEF ServeRequest, AccountCreated
    <2> QED
        BY <1>9, <1>t, <2>1, ChoiceKeepsWaits
        DEF ServeRequest, AccountCreated, IInv, TypeOK, AccountInv, bootVars
<1>10. ASSUME Restart PROVE IInv'
    BY <1>10, <1>t, <1>fault, BalancerAssumption
    DEF Restart, IInv, TypeOK, WaitInv, AccountInv, Positions, Boot, Hook
<1>11. CASE UNCHANGED vars
    BY <1>11, <1>t, <1>same
    DEF vars, bootVars, IInv, TypeOK, AccountInv
<1> QED
    BY <1>1, <1>2, <1>3, <1>4, <1>5, <1>6, <1>7, <1>8, <1>9, <1>10, <1>11
    DEF Next, BootStep, Refreshed

\* The invariant holds in every reachable state.
THEOREM BalancerInvariant == Spec => []IInv
    BY BalancerInit, BalancerStep, PTL DEF Spec

\* The position of the index in the round bounds every wait.
LEMMA InvServes == IInv => NoStarvation
<1> SUFFICES ASSUME IInv PROVE NoStarvation
    OBVIOUS
<1> SUFFICES ASSUME NEW k \in Positions(serviceNodes)
             PROVE  waits[k] <= serviceNodes
    BY DEF NoStarvation
<1>1. /\ serviceNodes \in Nat /\ selectedNodeIndex \in Nat
      /\ waits[k] \in Nat
    BY BalancerAssumption DEF IInv, TypeOK
<1>2. k \in 0..(serviceNodes - 1)
    BY DEF Positions
<1>3. /\ k < selectedNodeIndex /\ selectedNodeIndex <= serviceNodes
           => waits[k] <= selectedNodeIndex - k - 1
      /\ selectedNodeIndex <= k
           => waits[k] <= serviceNodes - k + selectedNodeIndex
      /\ serviceNodes < selectedNodeIndex => waits[k] = 0
    BY DEF IInv, WaitInv
<1> QED BY <1>1, <1>2, <1>3

\* Between two refreshes every service node is chosen again after at most as
\* many calls of getServiceNodeInstance as there are service nodes.
THEOREM EveryNodeIsServed == Spec => []NoStarvation
    BY BalancerInvariant, InvServes, PTL

\* A node with an initial account never listens without an Account document.
THEOREM NoServiceWithoutAccount == Spec => []ListensWithAccount
<1>1. ASSUME IInv, [Next]_vars, ListensWithAccount PROVE ListensWithAccount'
    BY <1>1
    DEF IInv, AccountInv, ListensWithAccount, Next, vars, BootStep, Refreshed,
        RefreshInstances, InstancesRefreshed, RefreshFails, RunHook,
        CheckInitialAccount, InitialAccountChecked, InitialAccountRegistered,
        RegisterSelf, AnnounceSelf, SelfAnnounced, HookCallFails, Listen,
        ServeRequest, AccountCreated, Restart, CallServiceNode, bootVars, Hook
<1>2. Init => ListensWithAccount
    BY DEF Init, ListensWithAccount
<1> QED BY BalancerInvariant, <1>1, <1>2, PTL DEF Spec
=============================================================================

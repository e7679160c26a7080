---------------------------- MODULE WalletBalances ----------------------------
(***************************************************************************)
(* The two reactions on the list of wallets (WalletRegistration): the      *)
(* choice of a default wallet in SettingsStore, and AccountsBalanceStore,  *)
(* which asks for the balances of all wallets when the list is assigned    *)
(* and every ten seconds.  A wallet that addAccount pushes to the list     *)
(* runs neither reaction.                                                  *)
(*                                                                         *)
(* The backend asks a service node for the balance of every Account        *)
(* document and answers all of them or none.  Of a balance only whether it *)
(* is known matters.  Bound: one request for the balances at a time; one   *)
(* sent while another is on its way is left to the next tick.              *)
(***************************************************************************)
EXTENDS WalletRegistration

VARIABLES
    balances,   \* the addresses AccountsBalanceStore.accountsBalances has
    poll,       \* GET balances: what the front end waits for
    reply,      \* the addresses the reply carries
    pushed      \* history: wallets pushed by addAccount since the list was
                \* last assigned

pollVars == <<balances, poll, reply>>
balanceVars == <<pollVars, pushed>>
allVars == <<vars, balanceVars>>

BalanceInit ==
    /\ Init
    /\ balances = {}
    /\ poll = "no"
    /\ reply = {}
    /\ pushed = {}

-----------------------------------------------------------------------------
(* AccountsBalanceStore                                                    *)

\* fetchBalancesOfAllAccounts
FetchBalances == poll' = (IF poll = "no" THEN "asked" ELSE poll)

\* Mutant: the timer stops once a balance has been shown.
Tick_Once ==
    /\ poll = "no"
    /\ balances = {}
    /\ FetchBalances
    /\ UNCHANGED <<vars, balances, reply, pushed>>

\* setInterval
Tick ==
    /\ poll = "no"
    /\ FetchBalances
    /\ UNCHANGED <<vars, balances, reply, pushed>>

\* The backend reads the documents and gets the balance of each.
GetBalancesOfAllAccounts ==
    /\ poll = "asked"
    /\ poll' = "answered"
    /\ reply' = Saved
    /\ UNCHANGED <<vars, balances, pushed>>

\* The reply is merged into the balances that are known.
BalancesFetched ==
    /\ poll = "answered"
    /\ poll' = "no"
    /\ balances' = balances \cup reply
    /\ reply' = {}
    /\ UNCHANGED <<vars, pushed>>

\* The call for one account fails, the backend dies or the reply is lost: there
\* is no balance at all, and the error is ignored.
BalancesFail ==
    /\ poll # "no"
    /\ Fault
    /\ poll' = "no"
    /\ reply' = {}
    /\ UNCHANGED <<backendVars, registrationVars, walletVars, balances, pushed>>

-----------------------------------------------------------------------------
(* Steps of WalletRegistration                                             *)

WalletPushed ==
    /\ Registered
    /\ pushed' = pushed \cup (accounts' \ accounts)
    /\ UNCHANGED pollVars

\* Mutant: no reaction chooses a default wallet.
WalletsAssigned_NoDefault ==
    /\ fetching = "answered"
    /\ fetching' = "no"
    /\ accounts' = fetched
    /\ misread' = misread \cap {selected}
    /\ fetched' = {}
    /\ UNCHANGED <<backendVars, registrationVars, selected, faults>>
    /\ pushed' = {}
    /\ FetchBalances
    /\ UNCHANGED <<balances, reply>>

\* AccountsFetched chooses the default wallet; the other reaction asks for the
\* balances.
WalletsAssigned ==
    /\ AccountsFetched
    /\ pushed' = {}
    /\ FetchBalances
    /\ UNCHANGED <<balances, reply>>

PageLoaded ==
    /\ Reload
    /\ balances' = {}
    /\ poll' = "no"
    /\ reply' = {}
    /\ pushed' = {}

OtherStep ==
    /\ \/ \E p \in Post : PostStep(p) \/ ServiceNodeCallFails(p) \/ Register(p)
       \/ \E p \in Post, a \in Address : PostOfOthers(p, a)
       \/ \E a \in Address : RegisteredElsewhere(a) \/ SetAddress(a)
       \/ \E a \in Address : SelectDataValidatorAccount(a)
       \/ Crash
       \/ NotRegistered
       \/ GetAllAccounts
       \/ FetchFails
    /\ UNCHANGED balanceVars

BalanceNext ==
    \/ Tick
    \/ GetBalancesOfAllAccounts
    \/ BalancesFetched
    \/ BalancesFail
    \/ WalletPushed
    \/ WalletsAssigned
    \/ PageLoaded
    \/ OtherStep

BalanceSpec == BalanceInit /\ [][BalanceNext]_allVars

\* The timer of the browser ticks, the backend runs its callbacks, and calls
\* that do not fail are answered.
FairBalanceSpec ==
    /\ BalanceSpec
    /\ \A p \in Post : WF_allVars(PostStep(p) /\ UNCHANGED balanceVars)
    /\ WF_allVars(GetAllAccounts /\ UNCHANGED balanceVars)
    /\ WF_allVars(WalletsAssigned)
    /\ WF_allVars(Tick)
    /\ WF_allVars(GetBalancesOfAllAccounts)
    /\ WF_allVars(BalancesFetched)

-----------------------------------------------------------------------------
(* Properties                                                              *)

\* Without a default wallet no wallet is listed but those registered in this
\* page since the list was last assigned: a list that comes from the backend
\* always brings a default wallet, however reloads, failures and registrations
\* interleave with it.
DefaultIsChosen == selected = Null => accounts \subseteq pushed

\* Every listed wallet the backend has gets its balance, also one that was pushed
\* by addAccount, which runs no reaction, or registered while an older request was
\* on its way, and although one failing call hides the balances of all.
BalanceAppears ==
    \A a \in Address :
        (a \in accounts /\ a \in Saved) ~> (a \in balances \/ a \notin accounts)
=============================================================================

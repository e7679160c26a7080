------------------------- MODULE WalletRegistration -------------------------
(***************************************************************************)
(* Registration of the data validator's wallets: AccountsService in the    *)
(* backend, and in the front end AccountRegistrationStore, AccountsStore   *)
(* and SettingsStore, which share the list of wallets.                     *)
(*                                                                         *)
(* A POST of an account asks a service node for the role of the address,   *)
(* registers it when it has none and saves an Account document.  The role  *)
(* of an address never changes.  Posts come from this front end and from   *)
(* other clients of the backend.  A typed address stands for the address   *)
(* and its private key; saved documents are named by the post they come    *)
(* from.  Of the list of wallets only its members matter.                  *)
(***************************************************************************)
EXTENDS Integers

CONSTANTS
    Address,
    Post,        \* POST accounts requests
    Null,        \* undefined
    MaxFaults    \* bound: failed calls, crashes and lost replies

ASSUME WalletAssumption ==
    /\ Null \notin Address /\ Null \notin Post
    /\ MaxFaults \in Nat

VARIABLES
    roles,       \* what the service node knows of each address
    accountDb,   \* NeDB: Account documents
    post,        \* POST requests
    form,        \* registrationForm.address
    edited,      \* history: the form was edited while a registration was pending
    pending,     \* the error of a refused one, which is only shown, is left out
    request,     \* the POST this front end waits for
    accounts,    \* AccountsStore.accounts
    fetching,    \* GET accounts: what the front end waits for
    fetched,     \* the addresses that reply carries
    selected,    \* selectedDataValidatorAccount, also in localStorage
    misread,     \* history: addresses added from a form that was edited while its
                 \* registration was pending, as far as they may be shown
    faults

backendVars == <<roles, accountDb, post>>
registrationVars == <<form, edited, pending, request>>
walletVars == <<accounts, fetching, fetched, selected, misread>>
vars == <<backendVars, registrationVars, walletVars, faults>>

Role == {"none", "dataValidator", "other"}
PostPc == {"idle", "checking", "registering", "saving", "ok", "conflict",
           "badRequest", "error"}
PostActive == {"checking", "registering", "saving"}
Refused == {"conflict", "badRequest", "error"}
Account == [_id : Post, address : Address]
Saved == {d.address : d \in accountDb}

TypeOK ==
    /\ roles \in [Address -> Role]
    /\ accountDb \in SUBSET Account
    /\ post \in [Post -> [pc : PostPc, address : Address \cup {Null}]]
    /\ form \in Address \cup {Null}
    /\ edited \in BOOLEAN
    /\ pending \in BOOLEAN
    /\ request \in Post \cup {Null}
    /\ accounts \in SUBSET Address
    /\ fetching \in {"no", "asked", "answered"}
    /\ fetched \in SUBSET Address
    /\ selected \in Address \cup {Null}
    /\ misread \in SUBSET Address
    /\ faults \in 0..MaxFaults

Init ==
    /\ roles \in [Address -> Role]
    /\ accountDb = {}
    /\ post = [p \in Post |-> [pc |-> "idle", address |-> Null]]
    /\ form = Null
    /\ edited = FALSE
    /\ pending = FALSE
    /\ request = Null
    /\ accounts = {}
    /\ fetching = "asked"
    /\ fetched = {}
    /\ selected = Null
    /\ misread = {}
    /\ faults = 0

Fault ==
    /\ faults < MaxFaults
    /\ faults' = faults + 1

-----------------------------------------------------------------------------
(* createDataValidatorAccount                                              *)

\* Posts differ in nothing but their name: one that has not begun is taken.
BeginPost(p, a) ==
    /\ post[p].pc = "idle"
    /\ p = CHOOSE q \in Post : post[q].pc = "idle"
    /\ post' = [post EXCEPT ![p].pc = "checking", ![p].address = a]

GoTo(p, pc) == post' = [post EXCEPT ![p].pc = pc]

\* Mutant: the role of a registered address is not looked at.
AfterCheck_AnyRole(role) == IF role = "none" THEN "registering" ELSE "saving"

\* Mutant: a registered data validator is not saved.
AfterCheck_NotSaved(role) ==
    CASE role = "dataValidator" -> "ok"
      [] role = "other"         -> "conflict"
      [] role = "none"          -> "registering"

\* Mutant: a registered data validator is refused.
AfterCheck_Refused(role) == IF role = "none" THEN "registering" ELSE "badRequest"

AfterCheck(role) ==
    CASE role = "dataValidator" -> "saving"
      [] role = "other"         -> "conflict"
      [] role = "none"          -> "registering"

IsAccountRegistered(p) ==
    /\ post[p].pc = "checking"
    /\ GoTo(p, AfterCheck(roles[post[p].address]))
    /\ UNCHANGED <<roles, accountDb, registrationVars, walletVars, faults>>

\* Mutant: an address that was registered meanwhile is a conflict.
RegisterAccount_Conflict(p) ==
    LET a == post[p].address IN
    /\ post[p].pc = "registering"
    /\ \/ /\ roles[a] = "none"
          /\ roles' = [roles EXCEPT ![a] = "dataValidator"]
          /\ GoTo(p, "saving")
       \/ roles[a] # "none" /\ GoTo(p, "conflict") /\ UNCHANGED roles
    /\ UNCHANGED <<accountDb, registrationVars, walletVars, faults>>

\* The service node answers 400 for an address that was registered meanwhile.
RegisterAccount(p) ==
    LET a == post[p].address IN
    /\ post[p].pc = "registering"
    /\ \/ /\ roles[a] = "none"
          /\ roles' = [roles EXCEPT ![a] = "dataValidator"]
          /\ GoTo(p, "saving")
       \/ roles[a] # "none" /\ GoTo(p, "badRequest") /\ UNCHANGED roles
    /\ UNCHANGED <<accountDb, registrationVars, walletVars, faults>>

\* The object has no _id, so every post inserts a document of its own.
SaveAccount(p) ==
    /\ post[p].pc = "saving"
    /\ accountDb' = accountDb \cup {[_id |-> p, address |-> post[p].address]}
    /\ GoTo(p, "ok")
    /\ UNCHANGED <<roles, registrationVars, walletVars, faults>>

\* A call of the service node fails; registration may have taken effect.
ServiceNodeCallFails(p) ==
    LET a == post[p].address IN
    /\ post[p].pc \in {"checking", "registering"}
    /\ Fault
    /\ \/ UNCHANGED roles
       \/ /\ post[p].pc = "registering" /\ roles[a] = "none"
          /\ roles' = [roles EXCEPT ![a] = "dataValidator"]
    /\ GoTo(p, "error")
    /\ UNCHANGED <<accountDb, registrationVars, walletVars>>

Crash ==
    /\ Fault
    /\ post' = [p \in Post |-> IF post[p].pc \in PostActive
                                 THEN [post[p] EXCEPT !.pc = "error"]
                                 ELSE post[p]]
    /\ UNCHANGED <<roles, accountDb, registrationVars, walletVars>>

\* Another client of this backend, or its start with an initial account.
PostOfOthers(p, a) ==
    /\ BeginPost(p, a)
    /\ UNCHANGED <<roles, accountDb, registrationVars, walletVars, faults>>

\* Another node of the network registers the address.
RegisteredElsewhere(a) ==
    /\ roles[a] = "none"
    /\ \E r \in Role \ {"none"} : roles' = [roles EXCEPT ![a] = r]
    /\ UNCHANGED <<accountDb, post, registrationVars, walletVars, faults>>

-----------------------------------------------------------------------------
(* AccountRegistrationStore                                                *)

\* The fields of the dialog stay enabled while a registration is pending.
SetAddress(a) ==
    /\ form' = a
    /\ edited' = pending
    /\ UNCHANGED <<backendVars, pending, request, walletVars,
                   faults>>

\* An address must have been typed; the error of the private key does not count.
IsFormValid == form # Null

\* The button is disabled while pending, whether the dialog was closed or not.
Register(p) ==
    /\ ~pending
    /\ IsFormValid
    /\ BeginPost(p, form)
    /\ pending' = TRUE
    /\ request' = p
    /\ UNCHANGED <<roles, accountDb, form, edited, walletVars, faults>>

\* addAccount takes the address from the form, as it is now.
Registered ==
    /\ request # Null
    /\ post[request].pc = "ok"
    /\ accounts' = accounts \cup {form}
    /\ misread' = IF edited THEN misread \cup {form} ELSE misread
    /\ edited' = FALSE
    /\ pending' = FALSE
    /\ request' = Null
    /\ UNCHANGED <<backendVars, form, fetching, fetched,
                   selected, faults>>

NotRegistered ==
    /\ request # Null
    /\ \/ post[request].pc \in Refused /\ UNCHANGED faults
       \/ Fault
    /\ edited' = FALSE
    /\ pending' = FALSE
    /\ request' = Null
    /\ UNCHANGED <<backendVars, form, walletVars>>

-----------------------------------------------------------------------------
(* AccountsStore, SettingsStore                                            *)

\* The backend reads the documents; the reply is on its way.
GetAllAccounts ==
    /\ fetching = "asked"
    /\ fetching' = "answered"
    /\ fetched' = Saved
    /\ UNCHANGED <<backendVars, registrationVars, accounts, selected, misread,
                   faults>>

\* The reaction of SettingsStore runs when the list is replaced, not when
\* addAccount pushes to it.
AccountsFetched ==
    /\ fetching = "answered"
    /\ fetching' = "no"
    /\ accounts' = fetched
    /\ \/ (fetched = {} \/ selected # Null) /\ UNCHANGED selected
       \/ selected = Null /\ selected' \in fetched
    /\ misread' = misread \cap {selected}
    /\ fetched' = {}
    /\ UNCHANGED <<backendVars, registrationVars, faults>>

FetchFails ==
    /\ fetching # "no"
    /\ Fault
    /\ fetching' = "no"
    /\ fetched' = {}
    /\ UNCHANGED <<backendVars, registrationVars, accounts, selected, misread>>

\* The user chooses a default wallet.
SelectDataValidatorAccount(a) ==
    /\ a \in accounts
    /\ selected' = a
    /\ UNCHANGED <<backendVars, registrationVars, accounts, fetching, fetched,
                   misread, faults>>

\* The browser loads the page again; localStorage keeps the default wallet.
Reload ==
    /\ form' = Null
    /\ edited' = FALSE
    /\ pending' = FALSE
    /\ request' = Null
    /\ accounts' = {}
    /\ fetching' = "asked"
    /\ misread' = misread \cap {selected}
    /\ fetched' = {}
    /\ UNCHANGED <<backendVars, selected, faults>>

-----------------------------------------------------------------------------
PostStep(p) ==
    \/ IsAccountRegistered(p)
    \/ RegisterAccount(p)
    \/ SaveAccount(p)

Next ==
    \/ \E p \in Post : PostStep(p) \/ ServiceNodeCallFails(p) \/ Register(p)
    \/ \E p \in Post, a \in Address : PostOfOthers(p, a)
    \/ \E a \in Address : RegisteredElsewhere(a) \/ SetAddress(a)
    \/ \E a \in Address : SelectDataValidatorAccount(a)
    \/ Crash
    \/ Registered
    \/ NotRegistered
    \/ GetAllAccounts
    \/ AccountsFetched
    \/ FetchFails
    \/ Reload

Spec == Init /\ [][Next]_vars

\* The backend runs its callbacks, and calls that do not fail are answered.
FairSpec ==
    /\ Spec
    /\ \A p \in Post : WF_vars(PostStep(p))
    /\ WF_vars(GetAllAccounts)
    /\ WF_vars(AccountsFetched)

-----------------------------------------------------------------------------
(* Properties                                                              *)

\* Every account the backend signs with is a data validator's one at the
\* service nodes, whichever posts race and whichever calls fail: an address of
\* another role is never adopted.
SavedAreValidators == \A a \in Saved : roles[a] = "dataValidator"

\* A post is refused as registered only when the address really is registered,
\* and as a conflict only when it has another role.
RefusalsAreTrue ==
    \A p \in Post :
        /\ post[p].pc = "conflict" => roles[post[p].address] = "other"
        /\ post[p].pc = "badRequest" => roles[post[p].address] # "none"

\* The list of wallets and the default wallet only name wallets the backend has
\* the key of, while fetches, registrations, edits of the form, reloads and crashes
\* interleave.  The one way for another address to come in is that addAccount takes
\* it from a form that was edited while its registration was pending; such an
\* address is gone with the next list that is fetched, unless it was chosen as the
\* default wallet.
ListedAreSaved ==
    /\ accounts \subseteq Saved \cup misread
    /\ selected # Null => selected \in Saved \cup misread

\* A registration that was lost between the service node and the database is
\* not lost for ever: the next post that meets no failure adopts the address.
RegistrationIsResumed ==
    \A p \in Post, a \in Address :
        (/\ post[p] = [pc |-> "checking", address |-> a]
         /\ roles[a] = "dataValidator"
         /\ faults = MaxFaults)
            ~> post[p].pc = "ok"

-----------------------------------------------------------------------------
(* The inductive invariant behind SavedAreValidators and ListedAreSaved.   *)

\* What is saved, or about to be, is a data validator's; a post that ended well
\* has its document.
PostInv ==
    /\ \A d \in accountDb : roles[d.address] = "dataValidator"
    /\ \A p \in Post :
        /\ post[p].pc # "idle" => post[p].address \in Address
        /\ post[p].pc = "saving" => roles[post[p].address] = "dataValidator"
        /\ post[p].pc = "ok" => post[p].address \in Saved

\* The front end waits for the post of the address in its form, unless the form
\* was edited.
FormInv ==
    /\ pending <=> request # Null
    /\ request # Null => /\ post[request].pc # "idle"
                         /\ edited \/ form = post[request].address

IInv ==
    /\ TypeOK
    /\ PostInv
    /\ FormInv
    /\ fetched \subseteq Saved
    /\ ListedAreSaved
=============================================================================

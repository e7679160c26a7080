------------------------ MODULE WalletBalances_proofs ------------------------
(***************************************************************************)
(* Proofs about WalletRegistration and WalletBalances, for all sets of     *)
(* addresses and posts.                                                    *)
(*                                                                         *)
(* Of the registration: no account of another role is ever adopted,        *)
(* whatever is typed, and the front end lists no wallet but saved ones and *)
(* those it took from a form that was edited during its registration.      *)
(* Beside the reactions all of it still holds, and a list of wallets       *)
(* brings a default wallet.                                                *)
(***************************************************************************)
EXTENDS WalletBalances, TLAPS

\* The part of the invariant that does not depend on the user.
BackendInv == TypeOK /\ PostInv

PostType == [Post -> [pc : PostPc, address : Address \cup {Null}]]

\* While the front end waits for a post its form is filled.
FormFilled == request # Null => form # Null

\* Nothing in the system ends or changes a registration.
RolesStay ==
    \A a \in Address : roles[a] # "none" => roles'[a] = roles[a]

\* No document leaves the database.
AccountsStay == accountDb \subseteq accountDb'

-----------------------------------------------------------------------------
(* The steps of a post                                                     *)

\* A post that moves on keeps its address, and the other posts stay.
LEMMA GoToPost ==
    ASSUME TypeOK, NEW p \in Post, NEW pc \in PostPc, GoTo(p, pc)
    PROVE  /\ post' \in PostType
           /\ post'[p].pc = pc
           /\ \A q \in Post : post'[q].address = post[q].address
           /\ \A q \in Post \ {p} : post'[q] = post[q]
BY DEF TypeOK, GoTo, PostType

LEMMA BeginPostPost ==
    ASSUME TypeOK, NEW p \in Post, NEW a \in Address, BeginPost(p, a)
    PROVE  /\ post' \in PostType
           /\ post[p].pc = "idle"
           /\ post'[p] = [pc |-> "checking", address |-> a]
           /\ \A q \in Post \ {p} : post'[q] = post[q]
<1>1. post' = [post EXCEPT ![p].pc = "checking", ![p].address = a]
  BY DEF BeginPost
<1>2. "checking" \in PostPc
  BY DEF PostPc
<1>3. post \in PostType
  BY DEF TypeOK, PostType
<1>4. post[p].pc = "idle"
  BY DEF BeginPost
<1> QED
  BY <1>1, <1>2, <1>3, <1>4 DEF PostType

\* What PostInv says of a post that changed, together with the stability of
\* roles and documents, gives PostInv.
LEMMA PostInvFromChange ==
    ASSUME BackendInv, RolesStay, AccountsStay,
           \A d \in accountDb' \ accountDb : roles'[d.address] = "dataValidator",
           NEW p \in Post,
           \A q \in Post \ {p} : post'[q] = post[q],
           post'[p].pc # "idle" => post'[p].address \in Address,
           post'[p].pc = "saving" => roles'[post'[p].address] = "dataValidator",
           post'[p].pc = "ok" => post'[p].address \in Saved'
    PROVE  PostInv'
<1>1. ASSUME NEW d \in accountDb' PROVE roles'[d.address] = "dataValidator"
  <2>1. CASE d \in accountDb
    <3>1. d.address \in Address
      BY <2>1 DEF BackendInv, TypeOK, Account
    <3>2. roles[d.address] = "dataValidator"
      BY <2>1 DEF BackendInv, PostInv
    <3> QED
      BY <3>1, <3>2 DEF RolesStay
  <2> QED
    BY <2>1
<1>2. ASSUME NEW q \in Post
      PROVE  /\ post'[q].pc # "idle" => post'[q].address \in Address
             /\ post'[q].pc = "saving" => roles'[post'[q].address] = "dataValidator"
             /\ post'[q].pc = "ok" => post'[q].address \in Saved'
  <2>1. CASE q # p
    <3>1. post'[q] = post[q]
      BY <2>1
    <3>2. /\ post[q].pc # "idle" => post[q].address \in Address
          /\ post[q].pc = "saving" => roles[post[q].address] = "dataValidator"
          /\ post[q].pc = "ok" => post[q].address \in Saved
      BY DEF BackendInv, PostInv
    <3>3. Saved \subseteq Saved'
      BY DEF Saved, AccountsStay
    <3>4. post[q].pc = "saving" => roles'[post[q].address] = "dataValidator"
      BY <3>2 DEF RolesStay
    <3> QED
      BY <3>1, <3>2, <3>3, <3>4
  <2> QED
    BY <2>1
<1> QED
  BY <1>1, <1>2 DEF PostInv

-----------------------------------------------------------------------------
(* The backend's invariant                                                 *)

LEMMA BackendInit == Init => BackendInv
<1> SUFFICES ASSUME Init PROVE BackendInv
  OBVIOUS
<1>1. TypeOK
  <2>1. post \in [Post -> [pc : PostPc, address : Address \cup {Null}]]
    BY DEF Init, PostPc
  <2>2. fetching \in {"no", "asked", "answered"}
    BY DEF Init
  <2>3. faults \in 0..MaxFaults
    BY WalletAssumption DEF Init
  <2> QED
    BY <2>1, <2>2, <2>3 DEF Init, TypeOK
<1>2. PostInv
  BY DEF Init, PostInv
<1> QED
  BY <1>1, <1>2 DEF BackendInv

LEMMA FormFilledStep == FormFilled /\ [Next]_vars => FormFilled'
BY WalletAssumption DEF FormFilled, Next, vars, registrationVars, walletVars,
    PostStep, IsAccountRegistered, AfterCheck, RegisterAccount, SaveAccount,
    ServiceNodeCallFails, Crash, PostOfOthers, RegisteredElsewhere, SetAddress,
    Register, IsFormValid, Registered, NotRegistered, GetAllAccounts,
    AccountsFetched,
    FetchFails, SelectDataValidatorAccount, Reload

LEMMA BackendStep ==
    BackendInv /\ FormFilled /\ [Next]_vars => BackendInv' /\ RolesStay /\ AccountsStay
<1> SUFFICES ASSUME BackendInv, FormFilled, [Next]_vars
             PROVE  BackendInv' /\ RolesStay /\ AccountsStay
  OBVIOUS
<1> USE DEF registrationVars, walletVars
<1>t. TypeOK /\ PostInv
  BY DEF BackendInv
<1>roles. roles \in [Address -> Role]
  BY <1>t DEF TypeOK
<1>f. Fault => faults' \in 0..MaxFaults
  BY <1>t, WalletAssumption DEF TypeOK, Fault
\* Steps that leave roles, documents and posts alone.
<1>u. ASSUME UNCHANGED backendVars, TypeOK'
      PROVE  BackendInv' /\ RolesStay /\ AccountsStay
  <2>1. PostInv'
    BY <1>t, <1>u DEF backendVars, PostInv, Saved
  <2> QED
    BY <1>u, <2>1 DEF backendVars, BackendInv, RolesStay, AccountsStay
<1>1. ASSUME NEW p \in Post, IsAccountRegistered(p)
      PROVE  BackendInv' /\ RolesStay /\ AccountsStay
  <2>1. PICK pc \in PostPc : /\ GoTo(p, pc)
                             /\ pc \in {"saving", "conflict", "registering"}
                             /\ pc = "saving" => roles[post[p].address] = "dataValidator"
    <3>1. post[p].address \in Address
      BY <1>1, <1>t DEF IsAccountRegistered, AfterCheck, PostInv
    <3> QED
      BY <1>1, <1>roles, <3>1 DEF IsAccountRegistered, AfterCheck, PostPc, Role
  <2>2. /\ post' \in PostType
        /\ post'[p].pc = pc
        /\ \A q \in Post : post'[q].address = post[q].address
        /\ \A q \in Post \ {p} : post'[q] = post[q]
    BY <1>t, <2>1, GoToPost
  <2>3. UNCHANGED <<roles, accountDb, registrationVars, walletVars, faults>>
    BY <1>1 DEF IsAccountRegistered, AfterCheck
  <2>4. TypeOK'
    BY <1>t, <2>2, <2>3 DEF TypeOK, PostType
  <2>5. RolesStay /\ AccountsStay
    BY <2>3 DEF RolesStay, AccountsStay
  <2>6. post[p].address \in Address
    BY <1>1, <1>t DEF IsAccountRegistered, AfterCheck, PostInv
  <2>7. PostInv'
    BY <2>1, <2>2, <2>3, <2>5, <2>6, PostInvFromChange
  <2> QED
    BY <2>4, <2>5, <2>7 DEF BackendInv
<1>2. ASSUME NEW p \in Post, RegisterAccount(p)
      PROVE  BackendInv' /\ RolesStay /\ AccountsStay
  <2>a. post[p].address \in Address
    BY <1>2, <1>t DEF RegisterAccount, PostInv
  <2>1. PICK pc \in PostPc : /\ GoTo(p, pc)
                             /\ pc \in {"saving", "badRequest"}
                             /\ pc = "saving" => roles'[post[p].address] = "dataValidator"
    BY <1>2, <1>roles, <2>a DEF RegisterAccount, PostPc
  <2>2. /\ post' \in PostType
        /\ post'[p].pc = pc
        /\ \A q \in Post : post'[q].address = post[q].address
        /\ \A q \in Post \ {p} : post'[q] = post[q]
    BY <1>t, <2>1, GoToPost
  <2>3. UNCHANGED <<accountDb, registrationVars, walletVars, faults>>
    BY <1>2 DEF RegisterAccount
  <2>r. roles' \in [Address -> Role] /\ RolesStay
    BY <1>2, <1>roles, <2>a DEF RegisterAccount, Role, RolesStay
  <2>4. TypeOK'
    BY <1>t, <2>2, <2>3, <2>r DEF TypeOK, PostType
  <2>5. AccountsStay
    BY <2>3 DEF AccountsStay
  <2>7. PostInv'
    BY <2>1, <2>2, <2>3, <2>5, <2>a, <2>r, PostInvFromChange
  <2> QED
    BY <2>4, <2>5, <2>7, <2>r DEF BackendInv
<1>3. ASSUME NEW p \in Post, SaveAccount(p)
      PROVE  BackendInv' /\ RolesStay /\ AccountsStay
  <2>a. /\ post[p].address \in Address
        /\ roles[post[p].address] = "dataValidator"
    BY <1>3, <1>t DEF SaveAccount, PostInv
  <2>1. GoTo(p, "ok") /\ "ok" \in PostPc
    BY <1>3 DEF SaveAccount, PostPc
  <2>2. /\ post' \in PostType
        /\ post'[p].pc = "ok"
        /\ \A q \in Post : post'[q].address = post[q].address
        /\ \A q \in Post \ {p} : post'[q] = post[q]
    BY <1>t, <2>1, GoToPost
  <2>3. /\ UNCHANGED <<roles, registrationVars, walletVars, faults>>
        /\ accountDb' = accountDb \cup {[_id |-> p, address |-> post[p].address]}
    BY <1>3 DEF SaveAccount
  <2>d. accountDb' \in SUBSET Account
    BY <1>t, <2>3, <2>a DEF TypeOK, Account
  <2>4. TypeOK'
    BY <1>t, <2>2, <2>3, <2>d DEF TypeOK, PostType
  <2>5. RolesStay /\ AccountsStay
    BY <2>3 DEF RolesStay, AccountsStay
  <2>s. post'[p].address \in Saved'
    <3>1. [_id |-> p, address |-> post[p].address] \in accountDb'
      BY <2>3
    <3>2. post[p].address \in Saved'
      BY <3>1 DEF Saved
    <3> QED
      BY <2>2, <3>2
  <2>6. \A d \in accountDb' \ accountDb : roles'[d.address] = "dataValidator"
    BY <2>3, <2>a
  <2>7. PostInv'
    BY <2>2, <2>5, <2>6, <2>a, <2>s, PostInvFromChange
  <2> QED
    BY <2>4, <2>5, <2>7 DEF BackendInv
<1>4. ASSUME NEW p \in Post, ServiceNodeCallFails(p)
      PROVE  BackendInv' /\ RolesStay /\ AccountsStay
  <2>a. post[p].address \in Address
    BY <1>4, <1>t DEF ServiceNodeCallFails, PostInv
  <2>1. GoTo(p, "error") /\ "error" \in PostPc
    BY <1>4 DEF ServiceNodeCallFails, PostPc
  <2>2. /\ post' \in PostType
        /\ post'[p].pc = "error"
        /\ \A q \in Post : post'[q].address = post[q].address
        /\ \A q \in Post \ {p} : post'[q] = post[q]
    BY <1>t, <2>1, GoToPost
  <2>3. UNCHANGED <<accountDb, registrationVars, walletVars>> /\ Fault
    BY <1>4 DEF ServiceNodeCallFails
  <2>r. roles' \in [Address -> Role] /\ RolesStay
    BY <1>4, <1>roles, <2>a DEF ServiceNodeCallFails, Role, RolesStay
  <2>4. TypeOK'
    BY <1>t, <1>f, <2>2, <2>3, <2>r DEF TypeOK, PostType
  <2>5. AccountsStay
    BY <2>3 DEF AccountsStay
  <2>7. PostInv'
    BY <2>2, <2>3, <2>5, <2>a, <2>r, PostInvFromChange
  <2> QED
    BY <2>4, <2>5, <2>7, <2>r DEF BackendInv
<1>5. ASSUME Crash
      PROVE  BackendInv' /\ RolesStay /\ AccountsStay
  <2>1. /\ UNCHANGED <<roles, accountDb, registrationVars, walletVars>>
        /\ Fault
        /\ post' = [p \in Post |-> IF post[p].pc \in PostActive
                                     THEN [post[p] EXCEPT !.pc = "error"]
                                     ELSE post[p]]
    BY <1>5 DEF Crash
  <2>2. /\ post' \in PostType
        /\ \A q \in Post : /\ post'[q].address = post[q].address
                           /\ post'[q].pc = "error" \/ post'[q].pc = post[q].pc
                           /\ post'[q].pc = "error" =>
                                post[q].pc \in PostActive \cup {"error"}
    <3>1. post \in PostType /\ "error" \in PostPc
      BY <1>t DEF TypeOK, PostType, PostPc
    <3> QED
      BY <2>1, <3>1 DEF PostType
  <2>3. TypeOK'
    BY <1>t, <1>f, <2>1, <2>2 DEF TypeOK, PostType
  <2>4. RolesStay /\ AccountsStay
    BY <2>1 DEF RolesStay, AccountsStay
  <2>5. PostInv'
    <3>1. Saved' = Saved /\ roles' = roles /\ accountDb' = accountDb
      BY <2>1 DEF Saved
    <3>2. \A q \in Post : post'[q].pc # "idle" => post[q].pc # "idle"
      BY <2>2 DEF PostActive
    <3> QED
      BY <1>t, <2>2, <3>1, <3>2 DEF PostInv
  <2> QED
    BY <2>3, <2>4, <2>5 DEF BackendInv
\* A post that begins, of this front end or of another client.
<1>b. ASSUME NEW p \in Post, NEW a \in Address, BeginPost(p, a),
             UNCHANGED <<roles, accountDb>>, TypeOK'
      PROVE  BackendInv' /\ RolesStay /\ AccountsStay
  <2>1. /\ post'[p] = [pc |-> "checking", address |-> a]
        /\ \A q \in Post \ {p} : post'[q] = post[q]
    BY <1>t, <1>b, BeginPostPost
  <2>2. RolesStay /\ AccountsStay
    BY <1>b DEF RolesStay, AccountsStay
  <2>3. PostInv'
    BY <1>b, <2>1, <2>2, PostInvFromChange
  <2> QED
    BY <1>b, <2>2, <2>3 DEF BackendInv
<1>6. ASSUME NEW p \in Post, NEW a \in Address, PostOfOthers(p, a)
      PROVE  BackendInv' /\ RolesStay /\ AccountsStay
  <2>1. BeginPost(p, a) /\ UNCHANGED <<roles, accountDb, registrationVars, walletVars, faults>>
    BY <1>6 DEF PostOfOthers
  <2>2. post' \in PostType
    BY <1>t, <2>1, BeginPostPost
  <2>3. TypeOK'
    BY <1>t, <2>1, <2>2 DEF TypeOK, PostType
  <2> QED
    BY <1>b, <2>1, <2>3
<1>7. ASSUME NEW a \in Address, RegisteredElsewhere(a)
      PROVE  BackendInv' /\ RolesStay /\ AccountsStay
  <2>1. UNCHANGED <<accountDb, post, registrationVars, walletVars, faults>>
    BY <1>7 DEF RegisteredElsewhere
  <2>2. roles' \in [Address -> Role] /\ RolesStay
    BY <1>7, <1>roles DEF RegisteredElsewhere, Role, RolesStay
  <2>3. TypeOK' /\ AccountsStay
    BY <1>t, <2>1, <2>2 DEF TypeOK, AccountsStay
  <2>4. PostInv'
    <3>1. \A b \in Address : roles[b] = "dataValidator" => roles'[b] = "dataValidator"
      BY <2>2 DEF RolesStay
    <3>2. \A d \in accountDb : d.address \in Address
      BY <1>t DEF TypeOK, Account
    <3>3. Saved' = Saved
      BY <2>1 DEF Saved
    <3> QED
      BY <1>t, <2>1, <3>1, <3>2, <3>3 DEF PostInv
  <2> QED
    BY <2>2, <2>3, <2>4 DEF BackendInv
<1>8. ASSUME NEW p \in Post, Register(p)
      PROVE  BackendInv' /\ RolesStay /\ AccountsStay
  <2>1. /\ BeginPost(p, form)
        /\ form \in Address
        /\ pending' = TRUE /\ request' = p
        /\ UNCHANGED <<roles, accountDb, form, edited, walletVars, faults>>
    BY <1>8, <1>t DEF Register, IsFormValid, TypeOK
  <2>2. post' \in PostType
    BY <1>t, <2>1, BeginPostPost
  <2>3. TypeOK'
    BY <1>t, <2>1, <2>2 DEF TypeOK, PostType
  <2> QED
    BY <1>b, <2>1, <2>3
<1>9. ASSUME NEW a \in Address, SetAddress(a)
      PROVE  BackendInv' /\ RolesStay /\ AccountsStay
  <2>1. TypeOK' /\ UNCHANGED backendVars
    BY <1>9, <1>t DEF SetAddress, TypeOK, backendVars
  <2> QED
    BY <1>u, <2>1
<1>10. ASSUME NEW a \in Address, SelectDataValidatorAccount(a)
       PROVE  BackendInv' /\ RolesStay /\ AccountsStay
  <2>1. TypeOK' /\ UNCHANGED backendVars
    BY <1>10, <1>t DEF SelectDataValidatorAccount, TypeOK, backendVars
  <2> QED
    BY <1>u, <2>1
<1>11. ASSUME Registered
       PROVE  BackendInv' /\ RolesStay /\ AccountsStay
  <2>1. /\ accounts' = accounts \cup {form}
        /\ misread' \subseteq misread \cup {form}
        /\ edited' = FALSE /\ pending' = FALSE /\ request' = Null
        /\ UNCHANGED <<backendVars, form, fetching, fetched, selected, faults>>
        /\ form # Null
    BY <1>11 DEF Registered, FormFilled
  <2>2. TypeOK'
    BY <1>t, <2>1 DEF TypeOK, backendVars
  <2> QED
    BY <1>u, <2>1, <2>2
<1>12. ASSUME NotRegistered
       PROVE  BackendInv' /\ RolesStay /\ AccountsStay
  <2>1. /\ edited' = FALSE /\ pending' = FALSE /\ request' = Null
        /\ UNCHANGED <<backendVars, form, walletVars>>
        /\ Fault \/ UNCHANGED faults
    BY <1>12 DEF NotRegistered
  <2>2. TypeOK'
    BY <1>t, <1>f, <2>1 DEF TypeOK, backendVars
  <2> QED
    BY <1>u, <2>1, <2>2
<1>13. ASSUME GetAllAccounts
       PROVE  BackendInv' /\ RolesStay /\ AccountsStay
  <2>1. Saved \in SUBSET Address
    BY <1>t DEF TypeOK, Saved, Account
  <2>2. TypeOK' /\ UNCHANGED backendVars
    BY <1>13, <1>t, <2>1 DEF GetAllAccounts, TypeOK, backendVars
  <2> QED
    BY <1>u, <2>2
<1>14. ASSUME AccountsFetched
       PROVE  BackendInv' /\ RolesStay /\ AccountsStay
  <2>1. TypeOK' /\ UNCHANGED backendVars
    BY <1>14, <1>t DEF AccountsFetched, TypeOK, backendVars
  <2> QED
    BY <1>u, <2>1
<1>15. ASSUME FetchFails
       PROVE  BackendInv' /\ RolesStay /\ AccountsStay
  <2>1. TypeOK' /\ UNCHANGED backendVars
    BY <1>15, <1>t, <1>f DEF FetchFails, TypeOK, backendVars
  <2> QED
    BY <1>u, <2>1
<1>16. ASSUME Reload
       PROVE  BackendInv' /\ RolesStay /\ AccountsStay
  <2>1. TypeOK' /\ UNCHANGED backendVars
    BY <1>16, <1>t DEF Reload, TypeOK, backendVars
  <2> QED
    BY <1>u, <2>1
<1>17. ASSUME UNCHANGED vars
       PROVE  BackendInv' /\ RolesStay /\ AccountsStay
  <2>1. TypeOK' /\ UNCHANGED backendVars
    BY <1>17, <1>t DEF vars, TypeOK, backendVars
  <2> QED
    BY <1>u, <2>1
<1> QED
  BY <1>1, <1>2, <1>3, <1>4, <1>5, <1>6, <1>7, <1>8, <1>9, <1>10, <1>11, <1>12,
     <1>13, <1>14, <1>15, <1>16, <1>17 DEF Next, PostStep

-----------------------------------------------------------------------------
(* The front end's invariant                                               *)

\* A post that began is never forgotten and keeps its address.
PostsStay ==
    \A q \in Post : post[q].pc # "idle" =>
        post'[q].pc # "idle" /\ post'[q].address = post[q].address

LEMMA PostsStayStep == BackendInv /\ [Next]_vars => PostsStay
<1> SUFFICES ASSUME BackendInv, [Next]_vars PROVE PostsStay
  OBVIOUS
<1>t. TypeOK /\ PostInv
  BY DEF BackendInv
<1>g. ASSUME NEW p \in Post, NEW pc \in PostPc, GoTo(p, pc), pc # "idle"
      PROVE  PostsStay
  <2>1. /\ post'[p].pc = pc
        /\ \A q \in Post : post'[q].address = post[q].address
        /\ \A q \in Post \ {p} : post'[q] = post[q]
    BY <1>t, <1>g, GoToPost
  <2> QED
    BY <1>g, <2>1 DEF PostsStay
<1>b. ASSUME NEW p \in Post, NEW a \in Address, BeginPost(p, a)
      PROVE  PostsStay
  <2>1. post[p].pc = "idle" /\ \A q \in Post \ {p} : post'[q] = post[q]
    BY <1>t, <1>b, BeginPostPost
  <2> QED
    BY <2>1 DEF PostsStay
<1>u. ASSUME UNCHANGED post PROVE PostsStay
  BY <1>u DEF PostsStay
<1>1. ASSUME NEW p \in Post, IsAccountRegistered(p) PROVE PostsStay
  <2>1. post[p].address \in Address /\ roles \in [Address -> Role]
    BY <1>1, <1>t DEF IsAccountRegistered, AfterCheck, PostInv, TypeOK
  <2>2. PICK pc \in PostPc : GoTo(p, pc) /\ pc # "idle"
    BY <1>1, <2>1 DEF IsAccountRegistered, AfterCheck, PostPc, Role
  <2> QED
    BY <1>g, <2>2
<1>2. ASSUME NEW p \in Post,
             RegisterAccount(p) \/ SaveAccount(p) \/ ServiceNodeCallFails(p)
      PROVE  PostsStay
  <2>1. PICK pc \in PostPc : GoTo(p, pc) /\ pc # "idle"
    BY <1>2 DEF RegisterAccount, SaveAccount, ServiceNodeCallFails, PostPc
  <2> QED
    BY <1>g, <2>1
<1>3. ASSUME Crash PROVE PostsStay
  <2>1. post \in PostType
    BY <1>t DEF TypeOK, PostType
  <2>2. post' = [p \in Post |-> IF post[p].pc \in PostActive
                                  THEN [post[p] EXCEPT !.pc = "error"]
                                  ELSE post[p]]
    BY <1>3 DEF Crash
  <2> QED
    BY <2>1, <2>2 DEF PostType, PostsStay
<1>4. ASSUME NEW p \in Post, Register(p) PROVE PostsStay
  <2>1. form \in Address /\ BeginPost(p, form)
    BY <1>4, <1>t DEF Register, IsFormValid, TypeOK
  <2> QED
    BY <1>b, <2>1
<1>5. ASSUME NEW p \in Post, NEW a \in Address, PostOfOthers(p, a) PROVE PostsStay
  BY <1>5, <1>b DEF PostOfOthers
<1>6. CASE UNCHANGED post
  BY <1>6, <1>u
<1> QED
  BY <1>1, <1>2, <1>3, <1>4, <1>5, <1>6
  DEF Next, PostStep, vars, backendVars, RegisteredElsewhere, SetAddress,
      Registered, NotRegistered, GetAllAccounts, AccountsFetched, FetchFails,
      SelectDataValidatorAccount, Reload

\* What is left of IInv once BackendInv is taken out.
FrontEndInv == FormInv /\ fetched \subseteq Saved /\ ListedAreSaved

LEMMA FrontEndStep ==
    BackendInv /\ FrontEndInv /\ BackendInv' /\ AccountsStay /\ PostsStay
      /\ [Next]_vars => FrontEndInv'
<1> SUFFICES ASSUME BackendInv, FrontEndInv, BackendInv', AccountsStay, PostsStay,
                    [Next]_vars
             PROVE  FrontEndInv'
  OBVIOUS
<1>t. TypeOK /\ PostInv
  BY DEF BackendInv
<1>i. FormInv /\ fetched \subseteq Saved /\ ListedAreSaved
  BY DEF FrontEndInv
<1>s. Saved \subseteq Saved'
  BY DEF Saved, AccountsStay
<1>r. request \in Post \cup {Null}
  BY <1>t DEF TypeOK
\* The two halves, for steps that leave one of them alone.
<1>form. ASSUME UNCHANGED registrationVars PROVE FormInv'
  BY <1>i, <1>r, <1>form DEF FormInv, PostsStay, registrationVars
<1>list. ASSUME UNCHANGED <<accounts, fetched, selected, misread>>
         PROVE  fetched' \subseteq Saved' /\ ListedAreSaved'
  BY <1>i, <1>s, <1>list DEF ListedAreSaved
<1>1. CASE UNCHANGED <<registrationVars, accounts, fetched, selected, misread>>
  BY <1>1, <1>form, <1>list DEF FrontEndInv
<1>2. ASSUME NEW a \in Address, SetAddress(a) PROVE FrontEndInv'
  <2>1. FormInv'
    BY <1>2, <1>i, <1>r DEF SetAddress, FormInv, PostsStay, backendVars
  <2> QED
    BY <1>2, <1>list, <2>1 DEF SetAddress, walletVars, FrontEndInv
<1>3. ASSUME NEW p \in Post, Register(p) PROVE FrontEndInv'
  <2>1. form \in Address /\ BeginPost(p, form)
    BY <1>3, <1>t DEF Register, IsFormValid, TypeOK
  <2>2. post'[p] = [pc |-> "checking", address |-> form]
    BY <1>t, <2>1, BeginPostPost
  <2>3. FormInv'
    BY <1>3, <2>2, WalletAssumption DEF Register, FormInv
  <2> QED
    BY <1>3, <1>list, <2>3 DEF Register, walletVars, FrontEndInv
<1>4. CASE Registered
  <2>1. FormInv'
    BY <1>4 DEF Registered, FormInv
  <2>2. misread \subseteq misread' /\ form \in Saved \cup misread'
    <3>1. CASE edited
      BY <1>4, <3>1 DEF Registered
    <3>2. CASE ~edited
      BY <1>4, <1>i, <1>r, <1>t, <3>2 DEF Registered, FormInv, PostInv
    <3> QED
      BY <3>1, <3>2
  <2>3. fetched' \subseteq Saved' /\ ListedAreSaved'
    BY <1>4, <1>i, <1>s, <2>2 DEF Registered, ListedAreSaved
  <2> QED
    BY <2>1, <2>3 DEF FrontEndInv
<1>5. CASE NotRegistered
  BY <1>5, <1>list DEF NotRegistered, FormInv, walletVars, FrontEndInv
<1>6. CASE GetAllAccounts
  BY <1>6, <1>form, <1>i, <1>s
  DEF GetAllAccounts, registrationVars, backendVars, ListedAreSaved, FrontEndInv
<1>7. CASE AccountsFetched
  <2>1. FormInv'
    BY <1>7, <1>form DEF AccountsFetched
  <2>2. /\ accounts' = fetched /\ fetched' = {}
        /\ misread' = misread \cap {selected}
        /\ selected' = selected \/ selected' \in fetched
    BY <1>7 DEF AccountsFetched
  <2>3. fetched' \subseteq Saved' /\ ListedAreSaved'
    BY <1>i, <1>s, <2>2 DEF ListedAreSaved
  <2> QED
    BY <2>1, <2>3 DEF FrontEndInv
<1>8. ASSUME NEW a \in Address, SelectDataValidatorAccount(a) PROVE FrontEndInv'
  <2>1. FormInv'
    BY <1>8, <1>form DEF SelectDataValidatorAccount, registrationVars
  <2>2. fetched' \subseteq Saved' /\ ListedAreSaved'
    BY <1>8, <1>i, <1>s DEF SelectDataValidatorAccount, ListedAreSaved
  <2> QED
    BY <2>1, <2>2 DEF FrontEndInv
<1>9. CASE Reload
  <2>1. FormInv'
    BY <1>9 DEF Reload, FormInv
  <2>2. fetched' \subseteq Saved' /\ ListedAreSaved'
    BY <1>9, <1>i, <1>s DEF Reload, ListedAreSaved
  <2> QED
    BY <2>1, <2>2 DEF FrontEndInv
<1>10. CASE FetchFails
  <2>1. FormInv'
    BY <1>10, <1>form DEF FetchFails
  <2>2. fetched' \subseteq Saved' /\ ListedAreSaved'
    BY <1>10, <1>i, <1>s DEF FetchFails, ListedAreSaved
  <2> QED
    BY <2>1, <2>2 DEF FrontEndInv
<1>11. ASSUME NEW p \in Post, PostStep(p) \/ ServiceNodeCallFails(p)
       PROVE  FrontEndInv'
  BY <1>1, <1>11
  DEF PostStep, IsAccountRegistered, RegisterAccount, SaveAccount,
      ServiceNodeCallFails, walletVars
<1>12. ASSUME NEW p \in Post, NEW a \in Address, PostOfOthers(p, a)
       PROVE  FrontEndInv'
  BY <1>1, <1>12 DEF PostOfOthers, walletVars
<1>13. ASSUME NEW a \in Address, RegisteredElsewhere(a) PROVE FrontEndInv'
  BY <1>1, <1>13 DEF RegisteredElsewhere, walletVars
<1>14. CASE Crash \/ UNCHANGED vars
  BY <1>1, <1>14 DEF Crash, vars, walletVars
<1> QED
  BY <1>2, <1>3, <1>4, <1>5, <1>6, <1>7, <1>8, <1>9, <1>10, <1>11, <1>12, <1>13,
     <1>14
  DEF Next

WalletsInv == BackendInv /\ FormFilled /\ FrontEndInv

LEMMA FrontEndHolds ==
    WalletsInv /\ [Next]_vars => WalletsInv'
<1> SUFFICES ASSUME WalletsInv, [Next]_vars
             PROVE  WalletsInv'
  OBVIOUS
<1>i. BackendInv /\ FormFilled /\ FrontEndInv
  BY DEF WalletsInv
<1>1. BackendInv' /\ AccountsStay /\ PostsStay
  BY <1>i, BackendStep, PostsStayStep
<1>2. FormFilled' /\ FrontEndInv'
  BY <1>i, <1>1, FormFilledStep, FrontEndStep
<1> QED
  BY <1>1, <1>2 DEF WalletsInv

LEMMA FrontEndInit == Init => WalletsInv
BY BackendInit DEF WalletsInv, FormFilled, Init, FrontEndInv, FormInv, ListedAreSaved

-----------------------------------------------------------------------------
(* Refusals                                                                *)

\* A refusal stays true: the roles of addresses and the addresses of posts stay,
\* and the step that refuses has just read the role.
LEMMA RefusalsStep ==
    BackendInv /\ RolesStay /\ RefusalsAreTrue /\ [Next]_vars => RefusalsAreTrue'
<1> SUFFICES ASSUME BackendInv, RolesStay, RefusalsAreTrue, [Next]_vars
             PROVE  RefusalsAreTrue'
  OBVIOUS
<1>t. TypeOK /\ PostInv
  BY DEF BackendInv
<1>r. ASSUME NEW q \in Post, post[q].pc \in Refused, UNCHANGED post[q]
      PROVE  /\ post'[q].pc = "conflict" => roles'[post'[q].address] = "other"
             /\ post'[q].pc = "badRequest" => roles'[post'[q].address] # "none"
  <2>1. post[q].address \in Address
    BY <1>r, <1>t DEF PostInv, Refused
  <2> QED
    BY <1>r, <2>1 DEF RefusalsAreTrue, RolesStay
<1>s. ASSUME NEW q \in Post, UNCHANGED post[q]
      PROVE  /\ post'[q].pc = "conflict" => roles'[post'[q].address] = "other"
             /\ post'[q].pc = "badRequest" => roles'[post'[q].address] # "none"
  BY <1>s, <1>r DEF Refused
<1>g. ASSUME NEW p \in Post, NEW pc \in PostPc, GoTo(p, pc),
             pc = "conflict" => roles'[post[p].address] = "other",
             pc = "badRequest" => roles'[post[p].address] # "none"
      PROVE  RefusalsAreTrue'
  <2>1. /\ post'[p].pc = pc
        /\ post'[p].address = post[p].address
        /\ \A q \in Post \ {p} : post'[q] = post[q]
    BY <1>t, <1>g, GoToPost
  <2> QED
    BY <1>g, <1>s, <2>1 DEF RefusalsAreTrue
<1>b. ASSUME NEW p \in Post, NEW a \in Address, BeginPost(p, a)
      PROVE  RefusalsAreTrue'
  <2>1. /\ post'[p] = [pc |-> "checking", address |-> a]
        /\ \A q \in Post \ {p} : post'[q] = post[q]
    BY <1>t, <1>b, BeginPostPost
  <2> QED
    BY <1>s, <2>1 DEF RefusalsAreTrue
<1>u. ASSUME UNCHANGED post PROVE RefusalsAreTrue'
  BY <1>u, <1>s DEF RefusalsAreTrue
<1>1. ASSUME NEW p \in Post, IsAccountRegistered(p) PROVE RefusalsAreTrue'
  <2>1. post[p].address \in Address /\ roles \in [Address -> Role]
    BY <1>1, <1>t DEF IsAccountRegistered, PostInv, TypeOK
  <2>2. /\ GoTo(p, AfterCheck(roles[post[p].address]))
        /\ UNCHANGED roles
        /\ roles[post[p].address] \in {"none", "dataValidator", "other"}
    BY <1>1, <2>1 DEF IsAccountRegistered, Role
  <2> DEFINE pc == AfterCheck(roles[post[p].address])
  <2>3. pc \in PostPc /\ pc # "badRequest"
    BY <2>2 DEF AfterCheck, PostPc
  <2>4. pc = "conflict" => roles'[post[p].address] = "other"
    BY <2>2 DEF AfterCheck
  <2> HIDE DEF pc
  <2>5. GoTo(p, pc)
    BY <2>2 DEF pc
  <2> QED
    BY <1>g, <2>3, <2>4, <2>5
<1>2. ASSUME NEW p \in Post, RegisterAccount(p) PROVE RefusalsAreTrue'
  <2>1. CASE GoTo(p, "saving")
    BY <1>g, <2>1, "saving" \in PostPc DEF PostPc
  <2>2. CASE /\ roles[post[p].address] # "none"
             /\ GoTo(p, "badRequest") /\ UNCHANGED roles
    BY <1>g, <2>2, "badRequest" \in PostPc DEF PostPc
  <2> QED
    BY <1>2, <2>1, <2>2 DEF RegisterAccount
<1>3. ASSUME NEW p \in Post, SaveAccount(p) \/ ServiceNodeCallFails(p)
      PROVE  RefusalsAreTrue'
  <2>1. PICK pc \in {"ok", "error"} : GoTo(p, pc)
    BY <1>3 DEF SaveAccount, ServiceNodeCallFails
  <2>2. pc \in PostPc
    BY DEF PostPc
  <2> QED
    BY <1>g, <2>1, <2>2
<1>4. ASSUME Crash PROVE RefusalsAreTrue'
  <2>1. post \in PostType
    BY <1>t DEF TypeOK, PostType
  <2>2. \A q \in Post : post'[q] = post[q] \/ post'[q].pc = "error"
    BY <1>4, <2>1 DEF Crash, PostType
  <2> QED
    BY <1>s, <2>2 DEF RefusalsAreTrue
<1>5. ASSUME NEW p \in Post, Register(p) PROVE RefusalsAreTrue'
  <2>1. form \in Address /\ BeginPost(p, form)
    BY <1>5, <1>t DEF Register, IsFormValid, TypeOK
  <2> QED
    BY <1>b, <2>1
<1>6. ASSUME NEW p \in Post, NEW a \in Address, PostOfOthers(p, a)
      PROVE  RefusalsAreTrue'
  BY <1>6, <1>b DEF PostOfOthers
<1>7. CASE UNCHANGED post
  BY <1>7, <1>u
<1> QED
  BY <1>1, <1>2, <1>3, <1>4, <1>5, <1>6, <1>7
  DEF Next, PostStep, vars, backendVars, RegisteredElsewhere, SetAddress,
      Registered, NotRegistered, GetAllAccounts, AccountsFetched, FetchFails,
      SelectDataValidatorAccount, Reload

-----------------------------------------------------------------------------
(* The theorems                                                            *)

\* Every account the backend signs with belongs to a data validator, for any
\* number of wallets, posts and failures, and whatever the user types.
THEOREM AdoptedAreValidators == Spec => []SavedAreValidators
<1>1. Init => BackendInv /\ FormFilled
  BY BackendInit DEF Init, FormFilled
<1>2. BackendInv /\ FormFilled /\ [Next]_vars => (BackendInv /\ FormFilled)'
  BY BackendStep, FormFilledStep
<1>3. BackendInv => SavedAreValidators
  BY DEF BackendInv, PostInv, SavedAreValidators, Saved
<1> QED
  BY <1>1, <1>2, <1>3, PTL DEF Spec

\* No post is ever answered "registered already" for an address without a role,
\* nor as a conflict for one that is not of another role, for any race of posts.
THEOREM RefusalsStayTrue == Spec => []RefusalsAreTrue
<1>1. Init => BackendInv /\ FormFilled /\ RefusalsAreTrue
  BY BackendInit DEF Init, FormFilled, RefusalsAreTrue
<1>2. BackendInv /\ FormFilled /\ RefusalsAreTrue /\ [Next]_vars
        => (BackendInv /\ FormFilled /\ RefusalsAreTrue)'
  BY BackendStep, FormFilledStep, RefusalsStep
<1> QED
  BY <1>1, <1>2, PTL DEF Spec

\* The invariant holds in every reachable state, with the form edited at any time,
\* also while its registration is pending.
THEOREM WalletsInvariant == Spec => []IInv
<1>1. WalletsInv => IInv
  BY DEF WalletsInv, BackendInv, FrontEndInv, IInv
<1> QED
  BY <1>1, FrontEndInit, FrontEndHolds, PTL DEF Spec

\* So the list of wallets and the default wallet name no address but saved ones and
\* those that came from a form edited during its registration, which leave with the
\* next list that is assigned, the default wallet excepted.
THEOREM ListedWalletsAreSaved == Spec => []ListedAreSaved
<1>1. IInv => ListedAreSaved
  BY DEF IInv
<1> QED
  BY <1>1, WalletsInvariant, PTL

-----------------------------------------------------------------------------
(* The reactions beside WalletRegistration                                 *)

\* The reactions only watch, but for the calls for balances that fail.
LEMMA BalanceStep == [BalanceNext]_allVars => [Next]_vars \/ BalancesFail
<1> SUFFICES ASSUME [BalanceNext]_allVars, ~BalancesFail PROVE [Next]_vars
  OBVIOUS
<1>1. CASE Tick \/ GetBalancesOfAllAccounts \/ BalancesFetched
  BY <1>1 DEF Tick, GetBalancesOfAllAccounts, BalancesFetched
<1>2. CASE WalletPushed \/ WalletsAssigned \/ PageLoaded
  BY <1>2 DEF WalletPushed, WalletsAssigned, PageLoaded, Next
<1>3. CASE OtherStep
  BY <1>3 DEF OtherStep, Next
<1>4. CASE UNCHANGED allVars
  BY <1>4 DEF allVars
<1> QED
  BY <1>1, <1>2, <1>3, <1>4 DEF BalanceNext

\* Such a call changes nothing the invariants are about.
LEMMA BalancesFailKeeps ==
    ASSUME BalancesFail
    PROVE  /\ BackendInv => BackendInv'
           /\ FormFilled => FormFilled'
           /\ FrontEndInv => FrontEndInv'
           /\ RefusalsAreTrue => RefusalsAreTrue'
<1>1. UNCHANGED <<roles, accountDb, post, form, edited, pending, request,
                  accounts, fetching, fetched, selected, misread>>
  BY DEF BalancesFail, backendVars, registrationVars, walletVars
<1>2. Fault
  BY DEF BalancesFail
<1>3. TypeOK => TypeOK'
  BY <1>1, <1>2, WalletAssumption DEF TypeOK, Fault
<1>4. PostInv => PostInv'
  BY <1>1 DEF PostInv, Saved
<1>5. FormFilled => FormFilled'
  BY <1>1 DEF FormFilled
<1>6. FrontEndInv => FrontEndInv'
  BY <1>1 DEF FrontEndInv, FormInv, ListedAreSaved, Saved
<1>7. RefusalsAreTrue => RefusalsAreTrue'
  BY <1>1 DEF RefusalsAreTrue
<1> QED
  BY <1>3, <1>4, <1>5, <1>6, <1>7 DEF BackendInv

\* What holds whatever the user does.
SharedInv == BackendInv /\ FormFilled /\ RefusalsAreTrue

LEMMA SharedStep == SharedInv /\ [BalanceNext]_allVars => SharedInv'
<1>1. SharedInv /\ [Next]_vars => SharedInv'
  BY BackendStep, FormFilledStep, RefusalsStep DEF SharedInv
<1>2. SharedInv /\ BalancesFail => SharedInv'
  BY BalancesFailKeeps DEF SharedInv
<1> QED
  BY <1>1, <1>2, BalanceStep

-----------------------------------------------------------------------------
(* The default wallet                                                      *)

\* The reply that carries the list names addresses, so a wallet is chosen of it.
ChosenInv == SharedInv /\ fetched \subseteq Address /\ DefaultIsChosen

\* Neither the list nor the default wallet changes.
LEMMA ChosenKept ==
    ASSUME DefaultIsChosen,
           accounts' = accounts, selected' = selected, pushed' = pushed
    PROVE  DefaultIsChosen'
BY DEF DefaultIsChosen

LEMMA ChosenStep == ChosenInv /\ [BalanceNext]_allVars => ChosenInv'
<1> SUFFICES ASSUME ChosenInv, [BalanceNext]_allVars PROVE ChosenInv'
  OBVIOUS
<1> USE DEF backendVars, registrationVars, walletVars, balanceVars
<1>t. SharedInv /\ fetched \subseteq Address /\ DefaultIsChosen
  BY DEF ChosenInv
<1>s. SharedInv'
  BY <1>t, SharedStep
<1>f. fetched' \subseteq Address
  BY <1>s DEF SharedInv, BackendInv, TypeOK
<1> SUFFICES DefaultIsChosen'
  BY <1>s, <1>f DEF ChosenInv
<1>k. ASSUME accounts' = accounts, selected' = selected, pushed' = pushed
      PROVE  DefaultIsChosen'
  BY <1>t, <1>k, ChosenKept
<1>1. CASE Tick \/ GetBalancesOfAllAccounts \/ BalancesFetched \/ BalancesFail
  BY <1>1, <1>k DEF Tick, GetBalancesOfAllAccounts, BalancesFetched, BalancesFail, vars
<1>2. CASE WalletPushed
  <2>1. /\ UNCHANGED selected
        /\ pushed' = pushed \cup (accounts' \ accounts)
    BY <1>2 DEF WalletPushed, Registered
  <2> QED
    BY <1>t, <2>1 DEF DefaultIsChosen
<1>3. CASE WalletsAssigned
  <2>1. /\ accounts' = fetched
        /\ \/ fetched = {}
           \/ selected # Null /\ UNCHANGED selected
           \/ selected' \in fetched
    BY <1>3 DEF WalletsAssigned, AccountsFetched
  <2>2. fetched = {} \/ selected' # Null
    BY <1>t, <2>1, WalletAssumption
  <2> QED
    BY <2>1, <2>2 DEF DefaultIsChosen
<1>4. CASE PageLoaded
  BY <1>4 DEF PageLoaded, Reload, DefaultIsChosen
<1>5. CASE OtherStep
  <2>1. UNCHANGED pushed
    BY <1>5 DEF OtherStep
  <2>2. ASSUME NEW p \in Post,
               \/ PostStep(p) \/ ServiceNodeCallFails(p) \/ Register(p)
               \/ \E a \in Address : PostOfOthers(p, a)
        PROVE  DefaultIsChosen'
    BY <1>k, <2>1, <2>2
    DEF PostStep, IsAccountRegistered, RegisterAccount, SaveAccount,
        ServiceNodeCallFails, Register, PostOfOthers
  <2>3. ASSUME NEW a \in Address, RegisteredElsewhere(a) \/ SetAddress(a)
        PROVE  DefaultIsChosen'
    BY <1>k, <2>1, <2>3 DEF RegisteredElsewhere, SetAddress
  <2>4. ASSUME NEW a \in Address, SelectDataValidatorAccount(a)
        PROVE  DefaultIsChosen'
    BY <2>4, WalletAssumption DEF SelectDataValidatorAccount, DefaultIsChosen
  <2>5. CASE Crash \/ NotRegistered \/ GetAllAccounts \/ FetchFails
    BY <1>k, <2>1, <2>5 DEF Crash, NotRegistered, GetAllAccounts, FetchFails
  <2> QED
    BY <1>5, <2>2, <2>3, <2>4, <2>5 DEF OtherStep
<1>6. CASE UNCHANGED allVars
  BY <1>6, <1>k DEF allVars, vars
<1> QED
  BY <1>1, <1>2, <1>3, <1>4, <1>5, <1>6 DEF BalanceNext

LEMMA ChosenInit == BalanceInit => ChosenInv
<1>1. Init => BackendInv
  BY BackendInit
<1>2. Init => FormFilled /\ RefusalsAreTrue /\ fetched = {} /\ accounts = {}
  BY DEF Init, FormFilled, RefusalsAreTrue
<1> QED
  BY <1>1, <1>2 DEF BalanceInit, ChosenInv, SharedInv, DefaultIsChosen

\* A list of wallets that comes from the backend brings a default wallet, however
\* it interleaves with registrations, reloads, failures and edits of the form.
THEOREM ListsBringDefault == BalanceSpec => []DefaultIsChosen
<1>1. ChosenInv => DefaultIsChosen
  BY DEF ChosenInv
<1> QED
  BY <1>1, ChosenInit, ChosenStep, PTL DEF BalanceSpec

\* The safety of the registration holds beside the reactions and their timer.
THEOREM RegistrationIsSafe ==
    BalanceSpec => [](SavedAreValidators /\ RefusalsAreTrue)
<1>1. ChosenInv => SavedAreValidators /\ RefusalsAreTrue
  BY DEF ChosenInv, SharedInv, BackendInv, PostInv, SavedAreValidators, Saved
<1> QED
  BY <1>1, ChosenInit, ChosenStep, PTL DEF BalanceSpec

\* And so does what it says of the list of wallets and the default wallet.
THEOREM ListedAreSavedBesides == BalanceSpec => []ListedAreSaved
<1>1. BalanceInit => WalletsInv
  BY FrontEndInit DEF BalanceInit
<1>2. WalletsInv /\ [BalanceNext]_allVars => WalletsInv'
  <2>1. WalletsInv /\ BalancesFail => WalletsInv'
    BY BalancesFailKeeps DEF WalletsInv
  <2> QED
    BY <2>1, FrontEndHolds, BalanceStep
<1>3. WalletsInv => ListedAreSaved
  BY DEF WalletsInv, FrontEndInv
<1> QED
  BY <1>1, <1>2, <1>3, PTL DEF BalanceSpec
=============================================================================

----------------------------- MODULE DataCustody -----------------------------
(***************************************************************************)
(* What the files component of the backend promises about a data owner's   *)
(* file, whatever its requests and failures: the key is in escrow before   *)
(* any content is sent, one key per file and one file per key; only a file *)
(* the network stores is recorded, with the key of its content; and only a *)
(* recorded file is listed with a data owner.  Nothing is ever taken back. *)
(***************************************************************************)
CONSTANTS FileId, Key

VARIABLES
    escrow,    \* keys kept for a file
    sent,      \* keys the content held by the service node is encrypted with
    stored,    \* files the network stores
    recorded,  \* keys in the records of a file
    listed     \* files shown with a data owner

vars == <<escrow, sent, stored, recorded, listed>>

Init ==
    /\ escrow = [f \in FileId |-> {}]
    /\ sent = [f \in FileId |-> {}]
    /\ stored = {}
    /\ recorded = [f \in FileId |-> {}]
    /\ listed = {}

Escrow(f, k) ==
    /\ escrow[f] = {}
    /\ \A g \in FileId : k \notin escrow[g]
    /\ escrow' = [escrow EXCEPT ![f] = {k}]
    /\ UNCHANGED <<sent, stored, recorded, listed>>

Send(f) ==
    /\ escrow[f] # {}
    /\ f \notin stored
    /\ sent' = [sent EXCEPT ![f] = escrow[f]]
    /\ UNCHANGED <<escrow, stored, recorded, listed>>

Store(f) ==
    /\ escrow[f] # {}
    /\ stored' = stored \cup {f}
    /\ UNCHANGED <<escrow, sent, recorded, listed>>

Record(f) ==
    /\ f \in stored
    /\ recorded' = [recorded EXCEPT ![f] = escrow[f]]
    /\ UNCHANGED <<escrow, sent, stored, listed>>

List(f) ==
    /\ recorded[f] # {}
    /\ listed' = listed \cup {f}
    /\ UNCHANGED <<escrow, sent, stored, recorded>>

Next ==
    \E f \in FileId :
        \/ \E k \in Key : Escrow(f, k)
        \/ Send(f)
        \/ Store(f)
        \/ Record(f)
        \/ List(f)

Spec == Init /\ [][Next]_vars
=============================================================================

------------------------------ MODULE LwwStore ------------------------------
(***************************************************************************)
(* What the server's bottle table promises, with no client, cursor or      *)
(* message in sight: versions of a bottle row are created somewhere, and   *)
(* the table holds for each id the newest of the versions that were        *)
(* offered to it so far.  A stored row is never removed, never replaced by *)
(* a version that is not strictly newer, and never made up.                *)
(***************************************************************************)
EXTENDS Integers

CONSTANTS Id,       \* bottle ids
          Version,  \* the rows that can be created, records with id and at
          Nothing   \* no row stored

VARIABLES minted,   \* the versions created so far, anywhere
          stored    \* for each id, the version the table holds

vars == <<minted, stored>>

Init ==
    /\ minted = {}
    /\ stored = [i \in Id |-> Nothing]

Newer(v) == stored[v.id] = Nothing \/ v.at > stored[v.id].at

\* A version is created off the server.
Mint(v) ==
    /\ v \notin minted
    /\ minted' = minted \cup {v}
    /\ UNCHANGED stored

\* A version reaches the table and is newer than what the table holds.
Store(v) ==
    /\ v \in minted
    /\ Newer(v)
    /\ stored' = [stored EXCEPT ![v.id] = v]
    /\ UNCHANGED minted

\* The server creates a row of its own, under an id it never used.
MintStored(v) ==
    /\ v \notin minted
    /\ stored[v.id] = Nothing
    /\ minted' = minted \cup {v}
    /\ stored' = [stored EXCEPT ![v.id] = v]

Next == \E v \in Version : Mint(v) \/ Store(v) \/ MintStored(v)

Spec == Init /\ [][Next]_vars
=============================================================================

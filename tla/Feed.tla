-------------------------------- MODULE Feed --------------------------------
(***************************************************************************)
(* What following a change feed promises its reader, with no statement,    *)
(* transaction or message in sight: rows are published under rising        *)
(* stamps, and a reader whose cursor is n holds every row published with a *)
(* stamp up to n, in the version it was published in.  A version is named  *)
(* by its stamp.                                                           *)
(***************************************************************************)
EXTENDS Naturals

CONSTANT Row

VARIABLES rows,    \* the stamp each row was published with last, or 0
          held,    \* the version of each row the reader holds, or 0
          cursor   \* how far the reader says it has followed

vars == <<rows, held, cursor>>

Init ==
    /\ rows = [i \in Row |-> 0]
    /\ held = [i \in Row |-> 0]
    /\ cursor = 0

\* A row is published, with a stamp above all others.
Publish(i) ==
    /\ rows' = [rows EXCEPT ![i] = rows'[i]]
    /\ \A j \in Row : rows[j] < rows'[i]
    /\ UNCHANGED <<held, cursor>>

\* The reader gets newer versions, and all of them up to its new cursor.
Receive ==
    /\ held' \in [Row -> Nat]
    /\ cursor' \in Nat
    /\ cursor' >= cursor
    /\ \A i \in Row :
           /\ held[i] <= held'[i] /\ held'[i] <= rows[i]
           /\ rows[i] <= cursor' => held'[i] = rows[i]
    /\ UNCHANGED rows

Next == (\E i \in Row : Publish(i)) \/ Receive

Spec == Init /\ [][Next]_vars
=============================================================================

---------------------------- MODULE WorkerCalls -----------------------------
(***************************************************************************)
(* What a page may assume of its calls to the worker, with no message,     *)
(* queue or start-up in sight: they are run once each, one after the other *)
(* in the order they were made, and answered in that order.  The n-th call *)
(* of a page is n.                                                         *)
(***************************************************************************)
EXTENDS Naturals, Sequences

CONSTANT Tab

VARIABLES made,     \* calls made by the page of each tab
          ran,      \* those run, in the order they were run in
          settled   \* those answered, in the order of the answers

vars == <<made, ran, settled>>

Init ==
    /\ made = [t \in Tab |-> 0]
    /\ ran = [t \in Tab |-> <<>>]
    /\ settled = [t \in Tab |-> <<>>]

Call(t) ==
    /\ made' = [made EXCEPT ![t] = @ + 1]
    /\ UNCHANGED <<ran, settled>>

Run(t) ==
    /\ Len(ran[t]) < made[t]
    /\ ran' = [ran EXCEPT ![t] = Append(@, Len(@) + 1)]
    /\ UNCHANGED <<made, settled>>

Answer(t) ==
    /\ Len(settled[t]) < Len(ran[t])
    /\ settled' = [settled EXCEPT ![t] = Append(@, Len(@) + 1)]
    /\ UNCHANGED <<made, ran>>

\* The page is left.
Leave(t) ==
    /\ made' = [made EXCEPT ![t] = 0]
    /\ ran' = [ran EXCEPT ![t] = <<>>]
    /\ settled' = [settled EXCEPT ![t] = <<>>]

Next == \E t \in Tab : Call(t) \/ Run(t) \/ Answer(t) \/ Leave(t)

Spec == Init /\ [][Next]_vars
=============================================================================

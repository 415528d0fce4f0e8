---------------------------- MODULE MCRackPreview ----------------------------
(***************************************************************************)
(* Two wines in a rack of two columns and two rows, one slot of it open; the *)
(* storage form makes a rack of one slot of it.                             *)
(***************************************************************************)
EXTENDS RackPreview

TwoByTwo == [rows |-> 2, columns |-> 2, empty |-> FALSE]
OneSlot == {[rows |-> 1, columns |-> 1, empty |-> TRUE]}
A1A2 == {<<0, 1>>, <<0, 2>>}
B1 == {<<1, 1>>}
B2 == {<<1, 2>>}
OneOrTwo == {1, 2}
\* Keep is what SelectSeq gives.
KeepsInOrder ==
    \A seq \in UNION {[1 .. n -> 1 .. 3] : n \in 0 .. 5} : \A S \in SUBSET (1 .. 3) :
        Keep(seq, S) = SelectSeq(seq, LAMBDA x : x \in S)

ASSUME KeepsInOrder

Visited == Places \ {<<"inventory", NoWine>>}
=============================================================================

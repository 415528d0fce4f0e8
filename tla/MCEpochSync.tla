----------------------------- MODULE MCEpochSync -----------------------------
(***************************************************************************)
(* Instances of EpochSync for TLC.                                         *)
(***************************************************************************)
EXTENDS EpochSync

CONSTANTS lotA, lotB, old, new

OneLot == {lotA}
TwoLots == {lotA, lotB}
OldOrNew == {old, new}
=============================================================================

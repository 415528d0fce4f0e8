---------------------------- MODULE MCBottleSync ----------------------------
(***************************************************************************)
(* Instances of BottleSync for TLC.                                        *)
(***************************************************************************)
EXTENDS BottleSync, TLC

CONSTANTS b1, b2

OneBrowser == {b1}
TwoBrowsers == {b1, b2}
Interchangeable == Permutations(TwoBrowsers)
=============================================================================

----------------------------- MODULE MCAppStart -----------------------------
(***************************************************************************)
(* An instance of AppStart for TLC: one tab makes calls, the other contends *)
(* for the pool.                                                           *)
(***************************************************************************)
EXTENDS AppStart

CONSTANTS t1, t2

TwoTabs == {t1, t2}
OneCalls == [t \in TwoTabs |-> IF t = t1 THEN 2 ELSE 0]
=============================================================================

---------------------------- MODULE MCTaskLedger ----------------------------
(* Finite instances of TaskLedger.  Each configuration opens one part of   *)
(* the interface wide and keeps the others small.                          *)
EXTENDS TaskLedger, TLC

CONSTANTS h1, h2, t1, t2, t3

NoLimits == {[m \in Meter |-> None]}
NoAmounts == {}
OneUnitPerMeter == {[m \in Meter |-> IF m = n THEN 1 ELSE 0] : n \in Meter}
SomeLimits == {[m \in Meter |-> IF m = n THEN 1 ELSE None] : n \in Meter}

HolderSymmetry == Permutations(Holder)
TaskSymmetry == Permutations(Task)
=============================================================================

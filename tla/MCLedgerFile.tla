---------------------------- MODULE MCLedgerFile ----------------------------
(* Finite instances of LedgerFile: two workers, one task. *)
EXTENDS LedgerFile, TLC

CONSTANTS h1, h2, t1

NoLimits == {[m \in Meter |-> None]}
NoAmounts == {}
HolderSymmetry == Permutations(Holder)
=============================================================================

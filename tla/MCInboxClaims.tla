--------------------------- MODULE MCInboxClaims ----------------------------
(* Finite instances of InboxClaims: two workers and one task. *)
EXTENDS InboxClaims, TLC

CONSTANTS h1, h2

NoLimits == {[m \in Meter |-> None]}
NoAmounts == {}
HolderSymmetry == Permutations(Holder)
=============================================================================

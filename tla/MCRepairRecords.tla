-------------------------- MODULE MCRepairRecords ---------------------------
(* A finite instance of RepairRecords, whose processes and whose result     *)
(* documents are interchangeable.                                           *)
EXTENDS RepairRecords, TLC

Symmetry == Permutations(Callers) \cup Permutations(Results)
=============================================================================

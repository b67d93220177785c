------------------------- MODULE MCSolutionLibrary --------------------------
(* A finite instance of SolutionLibrary, whose authors are interchangeable. *)
EXTENDS SolutionLibrary, TLC

Symmetry == Permutations(Authors)
=============================================================================

-------------------------- MODULE MCSidecarServer --------------------------
(* A finite instance of SidecarServer, whose ports are interchangeable.     *)
EXTENDS SidecarServer, TLC

Symmetry == Permutations(Ports) \cup Permutations(Pids)
=============================================================================

------------------------- MODULE MCParallelDispatch -------------------------
(* A finite instance of ParallelDispatch.                                   *)
EXTENDS ParallelDispatch

OneToThree == {<<"e1">>, <<"e1", "e2">>, <<"e1", "e2", "e3">>}
=============================================================================

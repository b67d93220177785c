-------------------------- MODULE MCDurableWorker ---------------------------
(* Finite instances of DurableWorker. *)
EXTENDS DurableWorker, TLC

Notes == {"last_attempt_holder", "attempt_key"}
TaskSymmetry == Permutations(Task)
=============================================================================

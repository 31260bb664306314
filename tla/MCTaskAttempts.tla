--------------------------- MODULE MCTaskAttempts ---------------------------
(* TaskAttempts on small instances; the bounds are in the cfg files. *)
EXTENDS TaskAttempts, TLC

\* Task ids and idempotency keys are only ever compared for equality.
IdSymmetry == Permutations(Keys) \cup Permutations(Tasks)
=============================================================================

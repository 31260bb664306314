---------------------------- MODULE MCRunService ----------------------------
(* RunService on small instances; the bounds are in the cfg files. *)
EXTENDS RunService
=============================================================================

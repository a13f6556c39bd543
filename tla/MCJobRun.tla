------------------------------ MODULE MCJobRun ------------------------------
(***************************************************************************)
(* JobRun on a small instance: three accounts for at most two loops, so    *)
(* that a loop takes a second account while the other one still has its    *)
(* first; a pipeline of two workflows; one retry.                          *)
(***************************************************************************)
EXTENDS JobRun
=============================================================================

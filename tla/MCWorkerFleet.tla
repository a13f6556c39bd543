---------------------------- MODULE MCWorkerFleet ----------------------------
(***************************************************************************)
(* WorkerFleet on a small instance: a server and two worker processes,     *)
(* started at most three times in all, so that a worker also comes back    *)
(* after its end, over one item: items meet in nothing but the order of    *)
(* the claims.  Two ticks let a lease run out, and a worker go stale.      *)
(***************************************************************************)
EXTENDS WorkerFleet, TLC

WorkerSymmetry == Permutations(Workers)
=============================================================================

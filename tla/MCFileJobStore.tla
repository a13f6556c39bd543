--------------------------- MODULE MCFileJobStore ---------------------------
(***************************************************************************)
(* FileJobStore on a small instance: three jobs for a cache of one or two, *)
(* so that the job being changed can be the one that is pushed out.  The   *)
(* jobs differ in nothing but their creation time, hence the symmetry.     *)
(***************************************************************************)
EXTENDS FileJobStore, TLC

JobSymmetry == Permutations(JobIds)
=============================================================================

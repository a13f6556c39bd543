--------------------------- MODULE MCProgressFile ---------------------------
(***************************************************************************)
(* ProgressFile on a small instance.  Two loops suffice for every          *)
(* collision of two writes; two runs for everything that is about the next *)
(* run.                                                                    *)
(***************************************************************************)
EXTENDS ProgressFile
=============================================================================

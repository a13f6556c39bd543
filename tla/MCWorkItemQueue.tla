--------------------------- MODULE MCWorkItemQueue ---------------------------
(***************************************************************************)
(* WorkItemQueue on a small instance: one job of two accounts and a clock  *)
(* of two ticks, so that a lease and a retry delay both run out.  One      *)
(* worker id is enough: the store never compares the id of a caller with   *)
(* the one on record.  A maximum of 0 is what a careless caller asks for.  *)
(***************************************************************************)
EXTENDS WorkItemQueue
=============================================================================

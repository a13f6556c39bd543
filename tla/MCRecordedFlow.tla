--------------------------- MODULE MCRecordedFlow ---------------------------
(***************************************************************************)
(* Every flow of the repository, live and dry, on accounts with nothing up *)
(* to more than the target.                                                *)
(***************************************************************************)
EXTENDS RecordedFlow, Workflows
=============================================================================

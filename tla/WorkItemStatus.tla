---------------------------- MODULE WorkItemStatus ----------------------------
(***************************************************************************)
(* The statuses of a work item (WorkItemStatus of types.ts) and the        *)
(* statuses each transition of workItemStateMachine.ts accepts: from any   *)
(* other status the transition throws.  "absent" stands for a job account  *)
(* that has no work item.                                                  *)
(***************************************************************************)

ItemStatus ==
    {"absent", "new", "leased", "running", "succeeded", "skipped", "failed",
     "retrying", "deferred", "abandoned", "cancelled"}

TerminalItem == {"succeeded", "skipped", "failed", "abandoned", "cancelled"}

\* A worker may be processing an item in these statuses.
HeldItem == {"leased", "running"}

\* Mutations of the sets below, which TLC must find out.
CancelFromFinished == ItemStatus \ {"absent"}
FinishFromCancelled == {"leased", "running", "retrying", "new", "cancelled"}
FinishFromNotRunning == {"leased", "retrying", "new"}

LeaseFrom   == {"new", "retrying", "deferred"}
RunFrom     == {"leased", "new", "retrying"}
CancelFrom  == ItemStatus \ (TerminalItem \cup {"absent"})
RequeueFrom == {"failed", "abandoned", "cancelled"}

\* Succeeding, skipping and failing accept the same statuses.
FinishFrom  == {"leased", "running", "retrying", "new"}
=============================================================================

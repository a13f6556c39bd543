------------------------------- MODULE JobRun -------------------------------
(***************************************************************************)
(* One job from the HTTP request that creates it to the end of its run:    *)
(* startAutomationJob and runAutomationJob of jobRunner.ts, the            *)
(* AutomationRunner that works through the accounts (runner.ts, retry.ts), *)
(* the progress adapter that records every account in the job store and in *)
(* the work item store, the cancel route and the webhook watcher (app.ts), *)
(* and a crash of the server.                                              *)
(*                                                                         *)
(* The server is one JavaScript event loop.  What a handler does between   *)
(* two awaited I/O operations is one step; promise continuations ("micro"  *)
(* stages) run before the next I/O completion, timer or request is served. *)
(*                                                                         *)
(* Both stores write through synchronously (WorkItemQueue and FileJobStore *)
(* model them), so a status here is in memory and on disk at once; a crash *)
(* may strike between the two writes of one step.                          *)
(***************************************************************************)
EXTENDS Integers, Sequences, WorkItemStatus

CONSTANTS
    NAccounts,      \* accounts of the job, in the order they were selected
    MaxWorkflows,   \* longest pipeline
    MaxConcurrency, \* most accounts processed at a time
    RetryAttempts   \* retryAttempts of the job

ASSUME JobRunAssumption ==
    /\ NAccounts \in Nat \ {0}
    /\ MaxWorkflows \in Nat \ {0}
    /\ MaxConcurrency \in Nat \ {0}
    /\ RetryAttempts \in Nat \ {0}

VARIABLES
    cfg,            \* the request: concurrency, workflows, live, delay
    jobStatus,      \* job.status, "none" before the job exists
    acct,           \* job.accounts[a].status
    item,           \* status of the work item of the job and account
    cancelled,      \* cancellation.cancelled
    token,          \* activeJobCancellations has the job
    watching,       \* the webhook watcher is subscribed
    notices,        \* the statuses webhooks were sent for
    main,           \* where runAutomationJob is
    wf,             \* pipeline steps begun
    error,          \* what made runAutomationJob reject
    total,          \* totalCompleted, totalSkipped, totalFailed
    next,           \* the account index the loops share
    loop,           \* the processing loops of the runner
    refreshing,     \* a session refresh is in flight
    lateStarts      \* accounts started after the cancellation (history)

runVars  == <<cfg, main, wf, error>>
jobVars  == <<jobStatus, watching, notices>>
stopVars == <<cancelled, token>>
loopVars == <<next, loop, refreshing, lateStarts>>
vars == <<runVars, jobVars, stopVars, loopVars, acct, item, total>>

Accounts == 1..NAccounts
Loops == 1..MaxConcurrency

Config == [loops: Loops, workflows: 1..MaxWorkflows, live: BOOLEAN, delay: BOOLEAN]

Terminal == {"completed", "failed", "cancelled"}
Outcome == {"completed", "skipped", "failed"}
AccountStatus == {"queued", "running"} \cup Outcome
JobStatus == {"queued", "running"} \cup Terminal
Stage ==
    {"idle", "preflight", "launch", "login", "step", "running", "closing",
     "rejected", "settled", "dead"}
LoopStage == {"idle", "pick", "refresh", "start", "flow", "backoff", "delay"}

IdleLoop == [pc |-> "idle", acct |-> 1, attempt |-> 1]

TypeOK ==
    /\ cfg \in Config
    /\ jobStatus \in JobStatus \cup {"none"}
    /\ acct \in [Accounts -> AccountStatus]
    /\ item \in [Accounts -> ItemStatus]
    /\ cancelled \in BOOLEAN /\ token \in BOOLEAN
    /\ watching \in BOOLEAN /\ notices \in Seq(Terminal)
    /\ main \in Stage
    /\ wf \in 0..cfg.workflows
    /\ error \in {"none", "infra", "run", "close"}
    /\ total \in [Outcome -> Nat]
    /\ next \in 1..(NAccounts + 1)
    /\ loop \in [Loops -> [pc: LoopStage, acct: Accounts, attempt: 1..RetryAttempts]]
    /\ refreshing \in BOOLEAN
    /\ lateStarts \in Nat

Init ==
    /\ cfg \in Config
    /\ jobStatus = "none" /\ main = "idle" /\ wf = 0 /\ error = "none"
    /\ acct = [a \in Accounts |-> "queued"]
    /\ item = [a \in Accounts |-> "absent"]
    /\ cancelled = FALSE /\ token = FALSE
    /\ watching = FALSE /\ notices = <<>>
    /\ total = [o \in Outcome |-> 0]
    /\ next = 1
    /\ loop = [l \in Loops |-> IdleLoop]
    /\ refreshing = FALSE /\ lateStarts = 0

-----------------------------------------------------------------------------
(* Shared helpers.                                                         *)

\* Promise.all over the loops.
LoopsEnded == \A l \in Loops : loop[l].pc = "idle"

\* Some promise continuation is ready to run: no I/O event is served before it.
Micro ==
    \/ main \in {"step", "rejected"}
    \/ main = "running" /\ (error # "none" \/ LoopsEnded)
    \/ \E l \in Loops : loop[l].pc \in {"pick", "start"}

\* store.markJob and the watcher it triggers, which unsubscribes itself.
MarkJob(status) ==
    /\ jobStatus' = status
    /\ IF watching /\ status \in Terminal
       THEN notices' = Append(notices, status) /\ watching' = FALSE
       ELSE UNCHANGED <<notices, watching>>

ItemsCreated(accts) ==
    [a \in Accounts |-> IF a \in accts /\ item[a] = "absent" THEN "new" ELSE item[a]]

\* The status an outcome gives the work item.
ItemOutcome(o) == IF o = "completed" THEN "succeeded" ELSE o

\* The progress adapter leaves an item that has the status already alone; any
\* other item must be in a status the transition accepts.
Accepts(a, o) == item[a] \in FinishFrom \cup {ItemOutcome(o)}

CancelledItems(accts) ==
    [a \in Accounts |-> IF a \in accts /\ item[a] \in CancelFrom THEN "cancelled" ELSE item[a]]

-----------------------------------------------------------------------------
(* runAutomationJob.                                                       *)

\* The request is answered when runAutomationJob first awaits.  A dry run gets
\* as far as launching the browser, a live run awaits the document check; an
\* unknown workflow or a bad configuration rejects at once.
Start ==
    /\ main = "idle"
    /\ token' = TRUE
    /\ watching' = TRUE
    /\ \/ /\ main' = "rejected" /\ error' = "infra" /\ jobStatus' = "queued"
          /\ UNCHANGED item
       \/ /\ cfg.live
          /\ main' = "preflight" /\ jobStatus' = "queued"
          /\ UNCHANGED <<error, item>>
       \/ /\ ~cfg.live
          /\ main' = "launch" /\ jobStatus' = "running"
          /\ item' = ItemsCreated(Accounts)
          /\ UNCHANGED error
    /\ UNCHANGED <<cfg, wf, notices, cancelled, acct, total, loopVars>>

PreflightPasses ==
    /\ main = "preflight" /\ ~Micro
    /\ item' = ItemsCreated(Accounts)
    /\ MarkJob("running")
    /\ main' = "launch"
    /\ UNCHANGED <<cfg, wf, error, stopVars, loopVars, acct, total>>

BrowserLaunched ==
    /\ main = "launch" /\ ~Micro
    /\ main' = "login"
    /\ UNCHANGED <<cfg, wf, error, jobVars, stopVars, loopVars, acct, item, total>>

LoggedIn ==
    /\ main = "login" /\ ~Micro
    /\ main' = "step"
    /\ UNCHANGED <<cfg, wf, error, jobVars, stopVars, loopVars, acct, item, total>>

\* The document check, the launch or the login fails; after the launch the
\* browser is closed first.
SetupFails ==
    /\ main \in {"preflight", "launch", "login"} /\ ~Micro
    /\ main' = IF main = "login" THEN "closing" ELSE "rejected"
    /\ error' = "infra"
    /\ UNCHANGED <<cfg, wf, jobVars, stopVars, loopVars, acct, item, total>>

MoreWorkflows == wf < cfg.workflows

\* One workflow of the pipeline: a fresh runner over all accounts.
StepBegins ==
    /\ main = "step" /\ ~cancelled /\ MoreWorkflows
    /\ wf' = wf + 1
    /\ MarkJob("running")
    /\ next' = 1
    /\ loop' = [l \in Loops |-> IF l <= cfg.loops THEN [IdleLoop EXCEPT !.pc = "pick"]
                                ELSE IdleLoop]
    /\ main' = "running"
    /\ UNCHANGED <<cfg, error, stopVars, refreshing, lateStarts, acct, item, total>>

\* Mutations: the failures, or the cancellation, are not looked at.
FinalStatusNoFailures == IF cancelled THEN "cancelled" ELSE "completed"
FinalStatusNoCancel == IF total["failed"] > 0 THEN "failed" ELSE "completed"

FinalStatus ==
    IF cancelled THEN "cancelled" ELSE IF total["failed"] > 0 THEN "failed" ELSE "completed"

PipelineEnds ==
    /\ main = "step" /\ (cancelled \/ ~MoreWorkflows)
    /\ MarkJob(FinalStatus)
    /\ main' = "closing"
    /\ UNCHANGED <<cfg, wf, error, stopVars, loopVars, acct, item, total>>

\* Promise.all over the loops resolves when all have ended, and rejects as soon
\* as one does; the others are not stopped.
RunReturns ==
    /\ main = "running" /\ error = "none"
    /\ LoopsEnded
    /\ main' = "step"
    /\ UNCHANGED <<cfg, wf, error, jobVars, stopVars, loopVars, acct, item, total>>

RunRejects ==
    /\ main = "running" /\ error = "run"
    /\ main' = "closing"
    /\ UNCHANGED <<cfg, wf, error, jobVars, stopVars, loopVars, acct, item, total>>

\* browser.close() of the finally block.  Without an error the job has its final
\* status and the token is deleted.
BrowserClosed ==
    /\ main = "closing" /\ ~Micro
    /\ IF error = "none" THEN main' = "settled" /\ token' = FALSE
                         ELSE main' = "rejected" /\ UNCHANGED token
    /\ UNCHANGED <<cfg, wf, error, jobVars, cancelled, loopVars, acct, item, total>>

\* browser.close() fails: the run rejects, though it may have ended well and told
\* so.  What it rejected for before is lost to the error of the close.
CloseFails ==
    /\ main = "closing" /\ ~Micro
    /\ error' = IF error = "none" THEN "close" ELSE error
    /\ main' = "rejected"
    /\ UNCHANGED <<cfg, wf, jobVars, stopVars, loopVars, acct, item, total>>

\* The catch and finally handlers of startAutomationJob.
Rejected ==
    /\ main = "rejected"
    /\ MarkJob("failed")
    /\ main' = "settled"
    /\ token' = FALSE
    /\ UNCHANGED <<cfg, wf, error, cancelled, loopVars, acct, item, total>>

-----------------------------------------------------------------------------
(* The loops of the runner.  A loop of a runner that rejected goes on: it  *)
(* reads the same cancellation flag and writes to the same stores.         *)

\* The cancellation token, read before every account.
StopRequestedNever == FALSE    \* mutation: the loops do not look at the token
StopRequested == cancelled

PickNone(l) ==
    /\ loop[l].pc = "pick"
    /\ StopRequested \/ next > NAccounts
    /\ loop' = [loop EXCEPT ![l].pc = "idle"]
    /\ UNCHANGED <<next, refreshing, lateStarts, runVars, jobVars, stopVars, acct, item, total>>

\* shouldSkip: an earlier workflow of the pipeline failed for the account.
ShouldSkipNone(a) == FALSE    \* mutation: every workflow runs
ShouldSkip(a) == acct[a] = "failed"

TakeNextNot == UNCHANGED next    \* mutation: the shared index is not advanced
TakeNext == next' = next + 1

PickSkipped(l) ==
    /\ loop[l].pc = "pick" /\ ~StopRequested
    /\ next <= NAccounts /\ ShouldSkip(next)
    /\ TakeNext
    /\ total' = [total EXCEPT !["skipped"] = total["skipped"] + 1]
    /\ UNCHANGED <<loop, refreshing, lateStarts, runVars, jobVars, stopVars, acct, item>>

\* The account is taken; beforeEachAccount joins or begins a refresh when the
\* master session is stale, and it stays stale while a refresh is in flight.
Pick(l) ==
    /\ loop[l].pc = "pick" /\ ~StopRequested
    /\ next <= NAccounts /\ ~ShouldSkip(next)
    /\ TakeNext
    /\ \E stale \in IF refreshing THEN {TRUE} ELSE BOOLEAN :
          /\ refreshing' = stale
          /\ loop' = [loop EXCEPT ![l].acct = next,
                                  ![l].pc = IF stale THEN "refresh" ELSE "start"]
    /\ UNCHANGED <<lateStarts, runVars, jobVars, stopVars, acct, item, total>>

\* The refresh ends, well or badly: a failure is swallowed.
RefreshSettles ==
    /\ refreshing /\ ~Micro
    /\ refreshing' = FALSE
    /\ loop' = [l \in Loops |-> IF loop[l].pc = "refresh"
                                THEN [loop[l] EXCEPT !.pc = "start"] ELSE loop[l]]
    /\ UNCHANGED <<next, lateStarts, runVars, jobVars, stopVars, acct, item, total>>

\* progress.markRunning, then the first attempt of the flow.
ItemStarted(a) == IF item[a] \in RunFrom THEN "running" ELSE item[a]

StartAccount(l) ==
    LET a == loop[l].acct
    IN  /\ loop[l].pc = "start"
        /\ item' = [item EXCEPT ![a] = ItemStarted(a)]
        /\ acct' = [acct EXCEPT ![a] = "running"]
        /\ loop' = [loop EXCEPT ![l].pc = "flow", ![l].attempt = 1]
        /\ lateStarts' = IF cancelled THEN lateStarts + 1 ELSE lateStarts
        /\ UNCHANGED <<next, refreshing, runVars, jobVars, stopVars, total>>

\* A sequential runner moves on from a skipped account without the delay.
AfterAccount(o) ==
    IF cfg.delay /\ ~(cfg.loops = 1 /\ o = "skipped") THEN "delay" ELSE "pick"

\* Recording the outcome of an account.  The transition of the item throws when
\* the item is finished otherwise; the runner then tries markFailed, which the
\* item refuses for the same reason, and the loop rejects.
RecordOutcome(l, o) ==
    LET a == loop[l].acct
    IN  IF Accepts(a, o)
        THEN /\ item' = [item EXCEPT ![a] = ItemOutcome(o)]
             /\ acct' = [acct EXCEPT ![a] = o]
             /\ total' = [total EXCEPT ![o] = total[o] + 1]
             /\ loop' = [loop EXCEPT ![l].pc = AfterAccount(o)]
             /\ UNCHANGED error
        ELSE /\ error' = "run"
             /\ loop' = [loop EXCEPT ![l].pc = "idle"]
             /\ UNCHANGED <<item, acct, total>>

\* The flow returns, or fails for good: not retryable, or no attempt is left.
FlowEnds(l) ==
    /\ loop[l].pc = "flow" /\ ~Micro
    /\ \E o \in Outcome : RecordOutcome(l, o)
    /\ UNCHANGED <<cfg, main, wf, next, refreshing, lateStarts, jobVars, stopVars>>

FlowRetries(l) ==
    /\ loop[l].pc = "flow" /\ ~Micro
    /\ loop[l].attempt < RetryAttempts
    /\ loop' = [loop EXCEPT ![l].pc = "backoff"]
    /\ UNCHANGED <<next, refreshing, lateStarts, runVars, jobVars, stopVars, acct, item, total>>

\* Mutation: the attempts are not counted.
BackoffEndsUncounted(l) ==
    /\ loop[l].pc = "backoff" /\ ~Micro
    /\ loop' = [loop EXCEPT ![l].pc = "flow"]
    /\ UNCHANGED <<next, refreshing, lateStarts, runVars, jobVars, stopVars, acct, item, total>>

BackoffEnds(l) ==
    /\ loop[l].pc = "backoff" /\ ~Micro
    /\ loop' = [loop EXCEPT ![l].pc = "flow", ![l].attempt = loop[l].attempt + 1]
    /\ UNCHANGED <<next, refreshing, lateStarts, runVars, jobVars, stopVars, acct, item, total>>

DelayEnds(l) ==
    /\ loop[l].pc = "delay" /\ ~Micro
    /\ loop' = [loop EXCEPT ![l].pc = "pick"]
    /\ UNCHANGED <<next, refreshing, lateStarts, runVars, jobVars, stopVars, acct, item, total>>

-----------------------------------------------------------------------------
(* The cancel route and the server process.                                *)

Cancel ==
    /\ jobStatus \in {"queued", "running"} /\ ~Micro
    /\ cancelled' = (cancelled \/ token)
    /\ item' = CancelledItems(Accounts)
    /\ MarkJob("cancelled")
    /\ UNCHANGED <<token, runVars, loopVars, acct, total>>

\* What a crash inside a step may leave of its writes: the step creates, starts,
\* finishes or cancels work items before it writes to the job.
ItemsAtCrash ==
    \/ UNCHANGED item
    \/ /\ main = "preflight"
       /\ \E accts \in SUBSET Accounts : item' = ItemsCreated(accts)
    \/ /\ jobStatus \in {"queued", "running"}
       /\ \E accts \in SUBSET Accounts : item' = CancelledItems(accts)
    \/ \E l \in Loops :
          /\ loop[l].pc = "start"
          /\ item' = [item EXCEPT ![loop[l].acct] = ItemStarted(loop[l].acct)]
    \/ \E l \in Loops, o \in Outcome :
          /\ loop[l].pc = "flow" /\ Accepts(loop[l].acct, o)
          /\ item' = [item EXCEPT ![loop[l].acct] = ItemOutcome(o)]

\* The process is gone with everything it had in memory.  Nothing restarts the
\* run: a new server can only show the job and cancel it.
Crash ==
    /\ main \notin {"idle", "dead"}
    /\ main' = "dead"
    /\ ItemsAtCrash
    /\ cancelled' = FALSE /\ token' = FALSE /\ watching' = FALSE
    /\ loop' = [l \in Loops |-> IdleLoop]
    /\ refreshing' = FALSE
    /\ UNCHANGED <<cfg, wf, error, jobStatus, notices, next, lateStarts, acct, total>>

-----------------------------------------------------------------------------
MainStep ==
    \/ PreflightPasses \/ BrowserLaunched \/ LoggedIn \/ SetupFails
    \/ StepBegins \/ PipelineEnds \/ RunReturns \/ RunRejects
    \/ BrowserClosed \/ CloseFails \/ Rejected

LoopStep(l) ==
    \/ PickNone(l) \/ PickSkipped(l) \/ Pick(l) \/ StartAccount(l)
    \/ FlowEnds(l) \/ FlowRetries(l) \/ BackoffEnds(l) \/ DelayEnds(l)

Next ==
    \/ Start
    \/ MainStep
    \/ \E l \in Loops : LoopStep(l)
    \/ RefreshSettles
    \/ Cancel
    \/ Crash

Spec == Init /\ [][Next]_vars

\* Promise continuations always run, timers fire, and every awaited browser call
\* ends, the flow's own timeouts seeing to it.  Nobody has to cancel or crash.
FairSpec ==
    /\ Spec
    /\ WF_vars(MainStep)
    /\ WF_vars(RefreshSettles)
    /\ \A l \in Loops : WF_vars(LoopStep(l))

-----------------------------------------------------------------------------
(* Properties.                                                             *)

Busy(l) == loop[l].pc \in {"refresh", "start", "flow", "backoff"}

AllIdle == \A l \in Loops : loop[l].pc = "idle"

\* A job that is still queued or running in a live server can be cancelled for
\* real: its run has a token on record until the job has its final status.
CancelReachable ==
    jobStatus \in {"queued", "running"} /\ main # "dead" => token

\* Two loops never process one account at a time, although they share the index
\* and suspend between taking an account and starting it.
NoAccountTwice ==
    \A l, k \in Loops : l # k /\ Busy(l) /\ Busy(k) => loop[l].acct # loop[k].acct

\* A finished pipeline that was neither cancelled nor aborted, and whose browser
\* closed, has an outcome for every account in every workflow, and the job has
\* failed exactly if some account has.
PipelineAccountsForAll ==
    main = "settled" /\ error = "none" /\ jobStatus # "cancelled" =>
       /\ total["completed"] + total["skipped"] + total["failed"] = cfg.workflows * NAccounts
       /\ \A a \in Accounts : acct[a] \in Outcome
       /\ jobStatus = IF \E a \in Accounts : acct[a] = "failed" THEN "failed" ELSE "completed"

\* An account with an outcome has a work item with the same outcome, however the
\* pipeline goes on, whoever cancels and wherever the process dies.
OutcomesAgree ==
    \A a \in Accounts : acct[a] \in Outcome => item[a] = ItemOutcome(acct[a])

\* An account that failed one workflow is not touched by a later one, not even by
\* a loop that outlives its runner.
FailedAccountStops ==
    [][\A a \in Accounts : acct[a] = "failed" => acct'[a] = "failed"]_vars

\* After a cancellation each loop starts at most one more account, the one it had
\* taken before it waited for a session refresh.
LateStartsBounded == lateStarts <= cfg.loops

\* Webhooks are sent once for a run that ends, although the status of a job may
\* become terminal twice.
WebhookOnce ==
    /\ Len(notices) <= 1
    /\ main = "settled" => Len(notices) = 1

\* What a webhook reported is what the job says in the end, with two exceptions, in
\* which the job says it has failed: it was cancelled and then aborted, or its browser
\* did not close; or all its workflows were done, without a failure, and the browser
\* did not close.
WebhookTellsOutcome ==
    main = "settled" /\ notices # <<jobStatus>> =>
       /\ jobStatus = "failed"
       /\ \/ notices = <<"cancelled">>
          \/ /\ notices = <<"completed">> /\ error = "close"
             /\ wf = cfg.workflows /\ total["failed"] = 0

\* A run over one workflow is never aborted by the bookkeeping of one account,
\* unless somebody cancelled it.
OneWorkflowNotAborted == error = "run" => cancelled \/ wf > 1 \/ main = "dead"

\* Loops outlive the run only if it was aborted.
OrphansOnlyAfterAbort == main \in {"step", "closing", "settled"} /\ ~AllIdle => error = "run"

\* A job that was started ends, and no loop goes on for ever: the retries, the
\* refreshes and the orphaned loops all come to an end.
JobEnds == token ~> main \in {"settled", "dead"} /\ AllIdle

\* jobRunner.ts on the end of a run: "Respect a cancellation requested mid-run:
\* don't overwrite cancelled with completed/failed."
CancellationRespected ==
    main = "settled" /\ cancelled /\ error \in {"none", "run"} => jobStatus = "cancelled"
=============================================================================

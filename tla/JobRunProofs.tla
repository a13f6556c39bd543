---------------------------- MODULE JobRunProofs ----------------------------
(***************************************************************************)
(* Proofs about JobRun, for any number of accounts, workflows, loops and   *)
(* attempts.                                                               *)
(***************************************************************************)
EXTENDS JobRun, FiniteSets, FiniteSetTheorems, TLAPS

USE JobRunAssumption

-----------------------------------------------------------------------------
(* Type correctness.                                                       *)

\* The values of one loop.
LoopRecord == [pc: LoopStage, acct: Accounts, attempt: 1..RetryAttempts]

\* There is a first account and a first attempt.
LEMMA AccountsType == 1 \in Accounts /\ 1 \in 1..RetryAttempts
BY DEF Accounts

\* The idle loop is a loop.
LEMMA IdleLoopType == IdleLoop \in LoopRecord
BY AccountsType DEF IdleLoop, LoopRecord, LoopStage

\* Marking the job keeps the types of the job and of the watcher.
LEMMA MarkJobType ==
    ASSUME TypeOK, NEW status \in JobStatus, MarkJob(status)
    PROVE  /\ jobStatus' \in JobStatus \cup {"none"}
           /\ watching' \in BOOLEAN
           /\ notices' \in Seq(Terminal)
<1>1. CASE watching /\ status \in Terminal
  <2>1. notices \in Seq(Terminal) /\ notices' = Append(notices, status)
    BY <1>1 DEF TypeOK, MarkJob
  <2>2. notices' \in Seq(Terminal)
    BY <1>1, <2>1
  <2> QED
    BY <1>1, <2>2 DEF MarkJob
<1>2. CASE ~(watching /\ status \in Terminal)
  BY <1>2 DEF TypeOK, MarkJob
<1> QED
  BY <1>1, <1>2

\* Creating work items gives work items.
LEMMA ItemsCreatedType ==
    ASSUME TypeOK, NEW S
    PROVE  ItemsCreated(S) \in [Accounts -> ItemStatus]
BY DEF TypeOK, ItemsCreated, ItemStatus

\* Cancelling work items gives work items.
LEMMA CancelledItemsType ==
    ASSUME TypeOK, NEW S
    PROVE  CancelledItems(S) \in [Accounts -> ItemStatus]
BY DEF TypeOK, CancelledItems, ItemStatus

\* The outcome of an account is a status of its work item.
LEMMA ItemOutcomeType ==
    ASSUME NEW o \in Outcome
    PROVE  ItemOutcome(o) \in ItemStatus
BY DEF Outcome, ItemOutcome, ItemStatus

\* Starting an account leaves a status of its work item.
LEMMA ItemStartedType ==
    ASSUME TypeOK, NEW a \in Accounts
    PROVE  ItemStarted(a) \in ItemStatus
BY DEF TypeOK, ItemStarted, ItemStatus

\* Whatever a crash leaves of a step, the work items keep their type.
LEMMA CrashType ==
    ASSUME TypeOK, ItemsAtCrash
    PROVE  item' \in [Accounts -> ItemStatus]
<1>1. item \in [Accounts -> ItemStatus] /\ \A l \in Loops : loop[l].acct \in Accounts
  BY DEF TypeOK
<1> QED
  BY <1>1, ItemsCreatedType, CancelledItemsType, ItemStartedType, ItemOutcomeType DEF ItemsAtCrash

\* A loop backs off only if an attempt is left: the types alone are not inductive.
BackoffHasAttempt ==
    \A l \in Loops : loop[l].pc = "backoff" => loop[l].attempt < RetryAttempts

\* TypeOK with what makes it inductive.
TypeInv == TypeOK /\ BackoffHasAttempt

\* The types hold at first.
LEMMA TypeInit == Init => TypeInv
<1> SUFFICES ASSUME Init PROVE TypeInv
  OBVIOUS
<1>1. loop \in [Loops -> LoopRecord]
  BY IdleLoopType DEF Init
<1>2. cfg \in Config /\ wf \in 0..cfg.workflows /\ next \in 1..(NAccounts + 1)
  BY DEF Init, Config
<1>3. acct \in [Accounts -> AccountStatus] /\ item \in [Accounts -> ItemStatus]
  BY DEF Init, AccountStatus, ItemStatus
<1>4. jobStatus \in JobStatus \cup {"none"} /\ main \in Stage
  BY DEF Init, Stage
<1>5. notices \in Seq(Terminal) /\ total \in [Outcome -> Nat]
  BY DEF Init
<1>6. BackoffHasAttempt
  BY DEF Init, BackoffHasAttempt, IdleLoop
<1> QED
  BY <1>1, <1>2, <1>3, <1>4, <1>5, <1>6 DEF Init, TypeInv, TypeOK, LoopRecord

\* Every step keeps the types; one step of the proof per action.
LEMMA TypeNext == TypeInv /\ [Next]_vars => TypeOK'
<1> SUFFICES ASSUME TypeOK, BackoffHasAttempt, [Next]_vars
             PROVE  TypeOK'
  BY DEF TypeInv
<1> USE DEF runVars, jobVars, stopVars, loopVars
<1>1. CASE Start
  <2>1. /\ main' \in Stage /\ error' \in {"none", "infra", "run", "close"}
        /\ jobStatus' \in JobStatus \cup {"none"}
    BY <1>1 DEF Start, TypeOK, Stage, JobStatus
  <2>2. item' \in [Accounts -> ItemStatus]
    BY <1>1, ItemsCreatedType DEF Start, TypeOK
  <2> QED
    BY <1>1, <2>1, <2>2 DEF Start, TypeOK
<1>2. CASE PreflightPasses
  <2>1. /\ jobStatus' \in JobStatus \cup {"none"} /\ watching' \in BOOLEAN
        /\ notices' \in Seq(Terminal)
    BY <1>2, MarkJobType DEF PreflightPasses, JobStatus
  <2> QED
    BY <1>2, <2>1, ItemsCreatedType DEF PreflightPasses, TypeOK, Stage
<1>3. CASE BrowserLaunched \/ LoggedIn \/ SetupFails \/ RunReturns \/ RunRejects
  BY <1>3 DEF BrowserLaunched, LoggedIn, SetupFails, RunReturns, RunRejects, TypeOK, Stage
<1>4. CASE StepBegins
  <2>1. /\ jobStatus' \in JobStatus \cup {"none"} /\ watching' \in BOOLEAN
        /\ notices' \in Seq(Terminal)
    BY <1>4, MarkJobType DEF StepBegins, JobStatus
  <2>2. loop' \in [Loops -> LoopRecord]
    BY <1>4, IdleLoopType DEF StepBegins, LoopRecord, LoopStage
  <2>3. wf' \in 0..cfg'.workflows /\ next' \in 1..(NAccounts + 1)
    BY <1>4 DEF StepBegins, MoreWorkflows, TypeOK, Config
  <2> QED
    BY <1>4, <2>1, <2>2, <2>3 DEF StepBegins, TypeOK, LoopRecord, Stage
<1>5. CASE PipelineEnds \/ Rejected
  <2>1. /\ jobStatus' \in JobStatus \cup {"none"} /\ watching' \in BOOLEAN
        /\ notices' \in Seq(Terminal)
    BY <1>5, MarkJobType DEF PipelineEnds, Rejected, FinalStatus, JobStatus, Terminal
  <2> QED
    BY <1>5, <2>1 DEF PipelineEnds, Rejected, TypeOK, Stage
<1>6. CASE BrowserClosed \/ CloseFails
  BY <1>6 DEF BrowserClosed, CloseFails, TypeOK, Stage
<1>7. ASSUME NEW l \in Loops, LoopStep(l)
      PROVE  TypeOK'
  <2>0. loop \in [Loops -> LoopRecord]
    BY DEF TypeOK, LoopRecord
  <2>1. CASE PickNone(l)
    <3>1. loop' \in [Loops -> LoopRecord]
      BY <2>0, <2>1 DEF PickNone, LoopRecord, LoopStage
    <3> QED
      BY <2>1, <3>1 DEF PickNone, TypeOK, LoopRecord
  <2>2. CASE PickSkipped(l)
    <3>1. next' \in 1..(NAccounts + 1)
      BY <2>2 DEF PickSkipped, TakeNext, TypeOK
    <3>2. total' \in [Outcome -> Nat]
      BY <2>2 DEF PickSkipped, TypeOK, Outcome
    <3> QED
      BY <2>2, <3>1, <3>2 DEF PickSkipped, TypeOK
  <2>3. CASE Pick(l)
    <3>1. next' \in 1..(NAccounts + 1) /\ next \in Accounts
      BY <2>3 DEF Pick, TakeNext, TypeOK, Accounts
    <3>2. loop' \in [Loops -> LoopRecord] /\ refreshing' \in BOOLEAN
      BY <2>0, <2>3, <3>1 DEF Pick, LoopRecord, LoopStage
    <3> QED
      BY <2>3, <3>1, <3>2 DEF Pick, TypeOK, LoopRecord
  <2>4. CASE StartAccount(l)
    <3>1. loop' \in [Loops -> LoopRecord]
      BY <2>0, <2>4, AccountsType DEF StartAccount, LoopRecord, LoopStage
    <3>2. loop[l].acct \in Accounts
      BY DEF TypeOK
    <3>3. item' \in [Accounts -> ItemStatus] /\ acct' \in [Accounts -> AccountStatus]
      BY <2>4, <3>2, ItemStartedType DEF StartAccount, TypeOK, AccountStatus
    <3>4. lateStarts' \in Nat
      BY <2>4 DEF StartAccount, TypeOK
    <3> QED
      BY <2>4, <3>1, <3>3, <3>4 DEF StartAccount, TypeOK, LoopRecord
  <2>5. CASE FlowEnds(l)
    <3>1. PICK o \in Outcome : RecordOutcome(l, o)
      BY <2>5 DEF FlowEnds
    <3>2. loop[l].acct \in Accounts
      BY DEF TypeOK
    <3>3. loop' \in [Loops -> LoopRecord]
      BY <2>0, <3>1 DEF RecordOutcome, AfterAccount, LoopRecord, LoopStage
    <3>4. /\ item' \in [Accounts -> ItemStatus] /\ acct' \in [Accounts -> AccountStatus]
          /\ total' \in [Outcome -> Nat] /\ error' \in {"none", "infra", "run", "close"}
      <4>1. CASE Accepts(loop[l].acct, o)
        <5>1. total[o] + 1 \in Nat /\ ItemOutcome(o) \in ItemStatus
          BY ItemOutcomeType DEF TypeOK
        <5>2. /\ total' = [total EXCEPT ![o] = total[o] + 1] /\ error' = error
              /\ item' = [item EXCEPT ![loop[l].acct] = ItemOutcome(o)]
              /\ acct' = [acct EXCEPT ![loop[l].acct] = o]
          BY <3>1, <4>1 DEF RecordOutcome
        <5> QED
          BY <5>1, <5>2, <3>2 DEF TypeOK, AccountStatus
      <4>2. CASE ~Accepts(loop[l].acct, o)
        BY <3>1, <4>2 DEF RecordOutcome, TypeOK
      <4> QED
        BY <4>1, <4>2
    <3> QED
      BY <2>5, <3>3, <3>4 DEF FlowEnds, TypeOK, LoopRecord
  <2>6. CASE FlowRetries(l) \/ DelayEnds(l)
    <3>1. loop' \in [Loops -> LoopRecord]
      BY <2>0, <2>6 DEF FlowRetries, DelayEnds, LoopRecord, LoopStage
    <3> QED
      BY <2>6, <3>1 DEF FlowRetries, DelayEnds, TypeOK, LoopRecord
  <2>7. CASE BackoffEnds(l)
    <3>1. loop[l].attempt + 1 \in 1..RetryAttempts
      BY <2>7 DEF BackoffEnds, BackoffHasAttempt, TypeOK
    <3>2. loop' \in [Loops -> LoopRecord]
      BY <2>0, <2>7, <3>1 DEF BackoffEnds, LoopRecord, LoopStage
    <3> QED
      BY <2>7, <3>2 DEF BackoffEnds, TypeOK, LoopRecord
  <2> QED
    BY <1>7, <2>1, <2>2, <2>3, <2>4, <2>5, <2>6, <2>7 DEF LoopStep
<1>8. CASE RefreshSettles
  <2>1. loop' \in [Loops -> LoopRecord]
    BY <1>8 DEF RefreshSettles, TypeOK, LoopRecord, LoopStage
  <2> QED
    BY <1>8, <2>1 DEF RefreshSettles, TypeOK, LoopRecord
<1>9. CASE Cancel
  <2>1. /\ jobStatus' \in JobStatus \cup {"none"} /\ watching' \in BOOLEAN
        /\ notices' \in Seq(Terminal)
    BY <1>9, MarkJobType DEF Cancel, JobStatus, Terminal
  <2> QED
    BY <1>9, <2>1, CancelledItemsType DEF Cancel, TypeOK
<1>10. CASE Crash
  BY <1>10, CrashType, IdleLoopType DEF Crash, TypeOK, LoopRecord, Stage
<1>11. CASE UNCHANGED vars
  BY <1>11 DEF vars, TypeOK
<1> QED
  BY <1>1, <1>2, <1>3, <1>4, <1>5, <1>6, <1>7, <1>8, <1>9, <1>10, <1>11 DEF Next, MainStep

\* What the steps of a loop do to the loops, with the record updates carried out.
LEMMA LoopEffect ==
    ASSUME TypeOK, NEW l \in Loops
    PROVE  /\ LoopStep(l) => \A k \in Loops \ {l} : loop'[k] = loop[k]
           /\ PickNone(l) => loop'[l].pc = "idle"
           /\ Pick(l) => loop'[l].pc \in {"refresh", "start"} /\ loop'[l].acct = next
           /\ StartAccount(l) => loop'[l].pc = "flow" /\ loop'[l].acct = loop[l].acct
           /\ FlowEnds(l) => loop'[l].pc \in {"idle", "delay", "pick"}
           /\ FlowRetries(l) => /\ loop'[l].pc = "backoff" /\ loop'[l].acct = loop[l].acct
                                /\ loop'[l].attempt = loop[l].attempt
           /\ BackoffEnds(l) => loop'[l].pc = "flow" /\ loop'[l].acct = loop[l].acct
           /\ DelayEnds(l) => loop'[l].pc = "pick"
<1>0. loop \in [Loops -> LoopRecord]
  BY DEF TypeOK, LoopRecord
<1>2. PickNone(l) => (\A k \in Loops \ {l} : loop'[k] = loop[k]) /\ loop'[l].pc = "idle"
  BY <1>0 DEF PickNone, LoopRecord
<1>3. PickSkipped(l) => \A k \in Loops \ {l} : loop'[k] = loop[k]
  BY DEF PickSkipped
<1>4. Pick(l) => /\ \A k \in Loops \ {l} : loop'[k] = loop[k]
                 /\ loop'[l].pc \in {"refresh", "start"} /\ loop'[l].acct = next
  BY <1>0 DEF Pick, LoopRecord
<1>5. StartAccount(l) => /\ \A k \in Loops \ {l} : loop'[k] = loop[k]
                         /\ loop'[l].pc = "flow" /\ loop'[l].acct = loop[l].acct
  BY <1>0 DEF StartAccount, LoopRecord
<1>6. FlowEnds(l) => /\ \A k \in Loops \ {l} : loop'[k] = loop[k]
                     /\ loop'[l].pc \in {"idle", "delay", "pick"}
  BY <1>0 DEF FlowEnds, RecordOutcome, AfterAccount, LoopRecord
<1>7. FlowRetries(l) => /\ \A k \in Loops \ {l} : loop'[k] = loop[k]
                        /\ loop'[l].pc = "backoff" /\ loop'[l].acct = loop[l].acct
                        /\ loop'[l].attempt = loop[l].attempt
  BY <1>0 DEF FlowRetries, LoopRecord
<1>8. BackoffEnds(l) => /\ \A k \in Loops \ {l} : loop'[k] = loop[k]
                        /\ loop'[l].pc = "flow" /\ loop'[l].acct = loop[l].acct
  BY <1>0 DEF BackoffEnds, LoopRecord
<1>9. DelayEnds(l) => (\A k \in Loops \ {l} : loop'[k] = loop[k]) /\ loop'[l].pc = "pick"
  BY <1>0 DEF DelayEnds, LoopRecord
<1> QED
  BY <1>2, <1>3, <1>4, <1>5, <1>6, <1>7, <1>8, <1>9 DEF LoopStep

\* A loop backs off only after an attempt that was not the last.
LEMMA BackoffNext == TypeInv /\ [Next]_vars => BackoffHasAttempt'
<1> SUFFICES ASSUME TypeOK, BackoffHasAttempt, [Next]_vars
             PROVE  BackoffHasAttempt'
  BY DEF TypeInv
<1>1. CASE UNCHANGED loop
  BY <1>1 DEF BackoffHasAttempt
<1>2. CASE StepBegins \/ Crash
  BY <1>2 DEF StepBegins, Crash, IdleLoop, BackoffHasAttempt
<1>3. CASE RefreshSettles
  BY <1>3 DEF RefreshSettles, BackoffHasAttempt, TypeOK
<1>4. ASSUME NEW l \in Loops, LoopStep(l)
      PROVE  BackoffHasAttempt'
  <2>1. \A k \in Loops \ {l} : loop'[k] = loop[k]
    BY <1>4, LoopEffect
  <2>2. loop'[l].pc = "backoff" => loop'[l].attempt < RetryAttempts
    <3>1. CASE FlowRetries(l)
      BY <3>1, LoopEffect DEF FlowRetries
    <3>2. CASE PickSkipped(l)
      BY <3>2 DEF PickSkipped, BackoffHasAttempt
    <3> QED
      BY <1>4, <3>1, <3>2, LoopEffect DEF LoopStep
  <2> QED
    BY <2>1, <2>2 DEF BackoffHasAttempt
<1> QED
  BY <1>1, <1>2, <1>3, <1>4 DEF Next, MainStep, vars, loopVars, Start, PreflightPasses,
     BrowserLaunched, LoggedIn, SetupFails, PipelineEnds, RunReturns, RunRejects, BrowserClosed,
     CloseFails,
     Rejected, Cancel

\* The variables keep their types (TypeOK).
THEOREM TypeCorrect == Spec => []TypeOK
<1>1. TypeInv /\ [Next]_vars => TypeInv'
  BY TypeNext, BackoffNext DEF TypeInv
<1>2. TypeInv => TypeOK
  BY DEF TypeInv
<1> QED
  BY TypeInit, <1>1, <1>2, PTL DEF Spec

-----------------------------------------------------------------------------
(* The stages of the run: where it has a token, a final status, and loops.  *)

\* Before the loops start nothing has failed but the setup, and nothing runs; a
\* run that is not over has its token; one that rejected has failed in the end.
RunInv ==
    /\ main = "idle" => jobStatus = "none"
    /\ main \in {"idle", "preflight", "launch", "login", "step"} => error = "none"
    /\ main \notin {"idle", "settled", "dead"} => token
    /\ main = "settled" \/ (main = "closing" /\ error = "none") => jobStatus \in Terminal
    /\ main = "settled" /\ error # "none" => jobStatus = "failed"
    /\ error = "close" => main \in {"rejected", "settled", "dead"}
    /\ main # "running" /\ error # "run" => AllIdle

\* The stages hold at first.
LEMMA RunInit == Init => RunInv
BY DEF Init, RunInv, AllIdle, IdleLoop

\* Every step keeps the stages in order.
LEMMA RunNext == TypeOK /\ RunInv /\ [Next]_vars => RunInv'
<1> SUFFICES ASSUME TypeOK, RunInv, [Next]_vars
             PROVE  RunInv'
  OBVIOUS
<1> USE DEF runVars, jobVars, stopVars, loopVars
<1>1. CASE Start
  BY <1>1 DEF Start, RunInv, AllIdle
<1>2. CASE PreflightPasses \/ BrowserLaunched \/ LoggedIn \/ SetupFails
  BY <1>2 DEF PreflightPasses, BrowserLaunched, LoggedIn, SetupFails, MarkJob, RunInv, AllIdle
<1>3. CASE StepBegins
  BY <1>3 DEF StepBegins, MarkJob, RunInv
<1>4. CASE PipelineEnds \/ Rejected
  BY <1>4 DEF PipelineEnds, Rejected, FinalStatus, MarkJob, RunInv, AllIdle, Terminal
<1>5. CASE RunReturns \/ RunRejects
  BY <1>5 DEF RunReturns, RunRejects, LoopsEnded, RunInv, AllIdle
<1>6. CASE BrowserClosed \/ CloseFails
  BY <1>6 DEF BrowserClosed, CloseFails, RunInv, AllIdle
<1>7. ASSUME NEW l \in Loops, LoopStep(l)
      PROVE  RunInv'
  <2>1. UNCHANGED <<main, jobStatus, token>>
    BY <1>7 DEF LoopStep, PickNone, PickSkipped, Pick, StartAccount, FlowEnds, FlowRetries,
                BackoffEnds, DelayEnds
  <2>2. loop[l].pc # "idle"
    BY <1>7 DEF LoopStep, PickNone, PickSkipped, Pick, StartAccount, FlowEnds, FlowRetries,
                BackoffEnds, DelayEnds
  <2>3. main = "running" \/ error = "run"
    BY <2>2 DEF RunInv, AllIdle
  <2>4. error' = error \/ error' = "run"
    BY <1>7 DEF LoopStep, PickNone, PickSkipped, Pick, StartAccount, FlowEnds, RecordOutcome,
                FlowRetries, BackoffEnds, DelayEnds
  <2> QED
    BY <2>1, <2>3, <2>4 DEF RunInv
<1>8. CASE RefreshSettles
  BY <1>8 DEF RefreshSettles, RunInv, AllIdle
<1>9. CASE Cancel
  BY <1>9 DEF Cancel, MarkJob, RunInv, AllIdle, Terminal
<1>10. CASE Crash
  BY <1>10 DEF Crash, RunInv, AllIdle, IdleLoop
<1>11. CASE UNCHANGED vars
  BY <1>11 DEF vars, RunInv, AllIdle
<1> QED
  BY <1>1, <1>2, <1>3, <1>4, <1>5, <1>6, <1>7, <1>8, <1>9, <1>10, <1>11 DEF Next, MainStep

-----------------------------------------------------------------------------
(* The webhooks: one notice at most, and what it says.                     *)

\* A run that was started in a server that has not crashed.
Live == main \notin {"idle", "dead"}

\* The run has marked the job for what it came to.
Final ==
    \/ main = "settled"
    \/ main = "closing" /\ error = "none"
    \/ main = "rejected" /\ error = "close"

\* What webhooks were sent for, against the watcher and the status of the job.
NoticeInv ==
    /\ main = "idle" => notices = <<>>
    /\ ~Live => ~watching
    /\ notices = <<>> \/ \E s \in Terminal : notices = <<s>>
    /\ Live => (watching <=> notices = <<>>)
    /\ Live /\ jobStatus \in Terminal => notices # <<>>
    /\ Live /\ notices = <<"cancelled">> => cancelled
    /\ Live /\ notices \in {<<"completed">>, <<"failed">>} =>
          Final /\ (notices = <<jobStatus>> \/ error = "close")
    /\ Final /\ notices = <<"cancelled">> => jobStatus \in {"cancelled", "failed"}

\* Marking the job with a status that is not terminal tells the watcher nothing,
\* and a terminal one is told if nothing was told before.
LEMMA MarkJobNotice ==
    ASSUME NoticeInv, Live, NEW s \in JobStatus, MarkJob(s)
    PROVE  /\ s \notin Terminal => UNCHANGED <<notices, watching>>
           /\ s \in Terminal => /\ ~watching' /\ notices' # <<>>
                                /\ notices' = IF notices = <<>> THEN <<s>> ELSE notices
<1>1. ASSUME notices = <<>> PROVE Append(notices, s) = <<s>>
  BY <1>1
<1>2. watching <=> notices = <<>>
  BY DEF NoticeInv
<1>3. s \notin Terminal => UNCHANGED <<notices, watching>>
  BY DEF MarkJob
<1>4. CASE notices = <<>> /\ s \in Terminal
  <2>1. notices' = Append(notices, s) /\ watching' = FALSE
    BY <1>2, <1>4 DEF MarkJob
  <2>2. notices' = <<s>> /\ <<s>> # <<>>
    BY <1>1, <1>4, <2>1
  <2> QED
    BY <1>4, <2>1, <2>2
<1>5. CASE notices # <<>> /\ s \in Terminal
  <2>1. UNCHANGED <<notices, watching>>
    BY <1>2, <1>5 DEF MarkJob
  <2> QED
    BY <1>2, <1>5, <2>1
<1> QED
  BY <1>3, <1>4, <1>5

\* No webhook is sent at first.
LEMMA NoticeInit == Init => NoticeInv
BY DEF Init, NoticeInv, Live, Final

\* Every step keeps the webhooks in line with the job.
LEMMA NoticeNext == TypeOK /\ RunInv /\ NoticeInv /\ [Next]_vars => NoticeInv'
<1> SUFFICES ASSUME TypeOK, RunInv, NoticeInv, [Next]_vars
             PROVE  NoticeInv'
  OBVIOUS
<1> USE DEF runVars, jobVars, stopVars, loopVars
<1>1. CASE Start
  BY <1>1 DEF Start, NoticeInv, Live, Final, Terminal
<1>2. CASE PreflightPasses
  <2>1. UNCHANGED <<notices, watching>>
    BY <1>2 DEF PreflightPasses, MarkJob, Terminal
  <2> QED
    BY <1>2, <2>1 DEF PreflightPasses, MarkJob, NoticeInv, Live, Final, Terminal
<1>3. CASE BrowserLaunched \/ LoggedIn \/ SetupFails
  BY <1>3 DEF BrowserLaunched, LoggedIn, SetupFails, NoticeInv, Live, Final
<1>4. CASE StepBegins
  <2>1. UNCHANGED <<notices, watching>>
    BY <1>4 DEF StepBegins, MarkJob, Terminal
  <2> QED
    BY <1>4, <2>1 DEF StepBegins, MarkJob, NoticeInv, Live, Final, Terminal
<1>5. CASE PipelineEnds
  <2>1. Live /\ FinalStatus \in Terminal /\ FinalStatus \in JobStatus
    BY <1>5 DEF PipelineEnds, Live, FinalStatus, Terminal, JobStatus
  <2>2. ~watching' /\ notices' # <<>> /\ jobStatus' = FinalStatus
        /\ notices' = IF notices = <<>> THEN <<FinalStatus>> ELSE notices
    BY <1>5, <2>1, MarkJobNotice DEF PipelineEnds, MarkJob
  <2>3. /\ main = "step" /\ main' = "closing" /\ UNCHANGED <<cancelled, error>>
        /\ error = "none"
    BY <1>5 DEF PipelineEnds, RunInv
  <2>4. FinalStatus = "cancelled" <=> cancelled
    BY DEF FinalStatus
  <2> QED
    BY <2>1, <2>2, <2>3, <2>4 DEF NoticeInv, Live, Final
<1>6. CASE Rejected
  <2>1. Live /\ "failed" \in Terminal /\ "failed" \in JobStatus
    BY <1>6 DEF Rejected, Live, Terminal, JobStatus
  <2>2. ~watching' /\ notices' # <<>> /\ jobStatus' = "failed"
        /\ notices' = IF notices = <<>> THEN <<"failed">> ELSE notices
    BY <1>6, <2>1, MarkJobNotice DEF Rejected, MarkJob
  <2>3. main = "rejected" /\ main' = "settled" /\ UNCHANGED <<cancelled, error>>
    BY <1>6 DEF Rejected
  <2> QED
    BY <2>1, <2>2, <2>3 DEF NoticeInv, Live, Final
<1>7. CASE RunReturns \/ RunRejects \/ BrowserClosed \/ CloseFails
  BY <1>7 DEF RunReturns, RunRejects, BrowserClosed, CloseFails, RunInv, NoticeInv, Live, Final
<1>8. ASSUME NEW l \in Loops, LoopStep(l)
      PROVE  NoticeInv'
  <2>1. UNCHANGED <<main, jobStatus, notices, watching, cancelled>>
    BY <1>8 DEF LoopStep, PickNone, PickSkipped, Pick, StartAccount, FlowEnds, FlowRetries,
                BackoffEnds, DelayEnds
  <2>2. loop[l].pc # "idle"
    BY <1>8 DEF LoopStep, PickNone, PickSkipped, Pick, StartAccount, FlowEnds, FlowRetries,
                BackoffEnds, DelayEnds
  <2>3. main = "running" \/ error = "run"
    BY <2>2 DEF RunInv, AllIdle
  <2>4. error' = error \/ error' = "run"
    BY <1>8 DEF LoopStep, PickNone, PickSkipped, Pick, StartAccount, FlowEnds, RecordOutcome,
                FlowRetries, BackoffEnds, DelayEnds
  <2> QED
    BY <2>1, <2>3, <2>4 DEF NoticeInv, Live, Final
<1>9. CASE RefreshSettles
  BY <1>9 DEF RefreshSettles, NoticeInv, Live, Final
<1>10. CASE Cancel
  <2>1. ~Final /\ main # "idle"
    BY <1>10 DEF Cancel, Micro, RunInv, Final, Terminal
  <2>2. /\ UNCHANGED <<main, error>> /\ jobStatus' = "cancelled"
        /\ cancelled' = (cancelled \/ token)
    BY <1>10 DEF Cancel, MarkJob
  <2>3. CASE main = "dead"
    BY <1>10, <2>2, <2>3 DEF Cancel, MarkJob, NoticeInv, Live, Final
  <2>4. CASE main # "dead"
    <3>1. Live /\ cancelled'
      BY <2>1, <2>2, <2>4 DEF Live, RunInv, Final
    <3>2. "cancelled" \in Terminal /\ "cancelled" \in JobStatus
      BY DEF Terminal, JobStatus
    <3>3. ~watching' /\ notices' # <<>>
          /\ notices' = IF notices = <<>> THEN <<"cancelled">> ELSE notices
      BY <1>10, <3>1, <3>2, MarkJobNotice DEF Cancel
    <3> QED
      BY <2>1, <2>2, <3>1, <3>2, <3>3 DEF NoticeInv, Live, Final
  <2> QED
    BY <2>3, <2>4
<1>11. CASE Crash
  BY <1>11 DEF Crash, NoticeInv, Live, Final
<1>12. CASE UNCHANGED vars
  BY <1>12 DEF vars, NoticeInv, Live, Final
<1> QED
  BY <1>1, <1>2, <1>3, <1>4, <1>5, <1>6, <1>7, <1>8, <1>9, <1>10, <1>11, <1>12 DEF Next, MainStep

-----------------------------------------------------------------------------
(* The accounts the loops hold: taken below the shared index, each by one   *)
(* loop.                                                                   *)

\* An account a loop holds was taken, and by no other loop.
TakenInv ==
    /\ \A l \in Loops : Busy(l) => loop[l].acct < next
    /\ NoAccountTwice

\* No loop holds an account at first.
LEMMA TakenInit == Init => TakenInv
BY DEF Init, TakenInv, NoAccountTwice, Busy, IdleLoop

\* Every step leaves each account to one loop.
LEMMA TakenNext == TypeOK /\ TakenInv /\ [Next]_vars => TakenInv'
<1> SUFFICES ASSUME TypeOK, TakenInv, [Next]_vars
             PROVE  TakenInv'
  OBVIOUS
<1>1. CASE UNCHANGED <<loop, next>>
  BY <1>1 DEF TakenInv, NoAccountTwice, Busy
<1>2. CASE StepBegins \/ Crash
  BY <1>2 DEF StepBegins, Crash, IdleLoop, TakenInv, NoAccountTwice, Busy
<1>3. CASE RefreshSettles
  BY <1>3 DEF RefreshSettles, TypeOK, TakenInv, NoAccountTwice, Busy
<1>4. ASSUME NEW l \in Loops, LoopStep(l)
      PROVE  TakenInv'
  <2>1. next \in Nat /\ next' \in Nat /\ next <= next'
    <3>1. next' = next \/ next' = next + 1
      BY <1>4 DEF LoopStep, PickNone, PickSkipped, Pick, TakeNext, StartAccount, FlowEnds,
                  FlowRetries, BackoffEnds, DelayEnds
    <3> QED
      BY <3>1 DEF TypeOK
  <2>2. \A k \in Loops : loop[k].acct \in Nat
    BY DEF TypeOK, Accounts
  <2>3. \A k \in Loops \ {l} : loop'[k] = loop[k]
    BY <1>4, LoopEffect
  <2>4. CASE Pick(l)
    <3>1. next' = next + 1 /\ loop'[l].acct = next
      BY <2>4, LoopEffect DEF Pick, TakeNext
    <3> QED
      BY <2>1, <2>2, <2>3, <3>1 DEF TakenInv, NoAccountTwice, Busy
  <2>5. CASE ~Pick(l)
    <3>1. Busy(l)' => Busy(l) /\ loop'[l].acct = loop[l].acct
      BY <1>4, <2>5, LoopEffect DEF LoopStep, PickSkipped, StartAccount, FlowRetries, BackoffEnds, Busy
    <3> QED
      BY <2>1, <2>2, <2>3, <3>1 DEF TakenInv, NoAccountTwice, Busy
  <2> QED
    BY <2>4, <2>5
<1> QED
  BY <1>1, <1>2, <1>3, <1>4 DEF Next, MainStep, vars, loopVars, Start, PreflightPasses,
     BrowserLaunched, LoggedIn, SetupFails, PipelineEnds, RunReturns, RunRejects, BrowserClosed,
     CloseFails,
     Rejected, Cancel

-----------------------------------------------------------------------------
(* What is on record for the account a loop holds, and for a finished one.  *)

\* A loop that runs a flow has its account marked as running, and takes no
\* account that failed.
RecordInv ==
    /\ \A l \in Loops :
          /\ loop[l].pc \in {"flow", "backoff"} => acct[loop[l].acct] = "running"
          /\ loop[l].pc \in {"refresh", "start"} => acct[loop[l].acct] # "failed"
    /\ OutcomesAgree

\* The item of an account with an outcome can be neither cancelled nor started.
LEMMA OutcomeStatus ==
    ASSUME NEW o \in Outcome
    PROVE  ItemOutcome(o) \in ItemStatus \ (CancelFrom \cup RunFrom \cup {"absent"})
BY DEF Outcome, ItemOutcome, ItemStatus, CancelFrom, RunFrom, TerminalItem

\* No account has an outcome at first.
LEMMA RecordInit == Init => RecordInv
BY DEF Init, RecordInv, OutcomesAgree, Outcome, IdleLoop

\* Every step records an outcome in both stores, or in neither.
LEMMA RecordNext == TypeOK /\ TakenInv /\ RecordInv /\ [Next]_vars => RecordInv'
<1> SUFFICES ASSUME TypeOK, TakenInv, RecordInv, [Next]_vars
             PROVE  RecordInv'
  OBVIOUS
<1> USE DEF runVars, jobVars, stopVars, loopVars
<1>1. ASSUME NEW S, OutcomesAgree
      PROVE  \A a \in Accounts : acct[a] \in Outcome =>
                ItemsCreated(S)[a] = ItemOutcome(acct[a]) /\ CancelledItems(S)[a] = ItemOutcome(acct[a])
  BY <1>1, OutcomeStatus DEF OutcomesAgree, ItemsCreated, CancelledItems
<1>2. CASE UNCHANGED <<loop, acct, item>>
  BY <1>2 DEF RecordInv, OutcomesAgree
<1>3. CASE Start \/ PreflightPasses \/ Cancel
  <2>1. UNCHANGED <<loop, acct>>
    BY <1>3 DEF Start, PreflightPasses, Cancel
  <2>2. OutcomesAgree'
    BY <1>1, <1>3 DEF Start, PreflightPasses, Cancel, RecordInv, OutcomesAgree
  <2> QED
    BY <2>1, <2>2 DEF RecordInv
<1>4. CASE StepBegins
  BY <1>4 DEF StepBegins, IdleLoop, RecordInv, OutcomesAgree
<1>5. CASE RefreshSettles
  BY <1>5 DEF RefreshSettles, TypeOK, RecordInv, OutcomesAgree
<1>6. ASSUME NEW l \in Loops, LoopStep(l)
      PROVE  RecordInv'
  <2>1. \A k \in Loops : loop[k].acct \in Accounts
    BY DEF TypeOK
  <2>2. \A k \in Loops \ {l} : loop'[k] = loop[k]
    BY <1>6, LoopEffect
  <2>3. CASE PickNone(l) \/ PickSkipped(l) \/ FlowRetries(l) \/ BackoffEnds(l) \/ DelayEnds(l)
    <3>1. UNCHANGED <<acct, item>>
      BY <2>3 DEF PickNone, PickSkipped, FlowRetries, BackoffEnds, DelayEnds
    <3>2. \/ loop' = loop
          \/ loop'[l].pc \notin {"refresh", "start", "flow", "backoff"}
          \/ /\ loop[l].pc \in {"flow", "backoff"} /\ loop'[l].pc \in {"flow", "backoff"}
             /\ loop'[l].acct = loop[l].acct
      BY <2>3, LoopEffect DEF PickSkipped, FlowRetries, BackoffEnds
    <3> QED
      BY <2>2, <3>1, <3>2 DEF RecordInv, OutcomesAgree
  <2>4. CASE Pick(l)
    <3>1. /\ UNCHANGED <<acct, item>>
          /\ loop'[l].acct = next /\ acct[next] # "failed"
          /\ loop'[l].pc \in {"refresh", "start"}
      BY <2>4, LoopEffect DEF Pick, ShouldSkip
    <3> QED
      BY <2>2, <3>1 DEF RecordInv, OutcomesAgree
  <2>5. CASE StartAccount(l) \/ FlowEnds(l)
    <3> DEFINE a == loop[l].acct
    <3>1. Busy(l) /\ \A b \in Accounts \ {a} : acct'[b] = acct[b] /\ item'[b] = item[b]
      BY <2>5, <2>1 DEF StartAccount, FlowEnds, RecordOutcome, Busy, TypeOK
    <3>2. \A k \in Loops \ {l} : Busy(k) => acct'[loop[k].acct] = acct[loop[k].acct]
      BY <2>1, <3>1 DEF TakenInv, NoAccountTwice
    <3>3. acct'[a] \in Outcome => item'[a] = ItemOutcome(acct'[a])
      <4>1. CASE StartAccount(l)
        BY <2>1, <4>1 DEF StartAccount, TypeOK, Outcome
      <4>2. CASE FlowEnds(l)
        BY <2>1, <4>2 DEF FlowEnds, RecordOutcome, TypeOK, RecordInv, OutcomesAgree
      <4> QED
        BY <2>5, <4>1, <4>2
    <3>4. \/ loop'[l].pc = "flow" /\ loop'[l].acct = a /\ acct'[a] = "running"
          \/ loop'[l].pc \notin {"refresh", "start", "flow", "backoff"}
      <4>1. CASE StartAccount(l)
        <5>1. loop'[l].pc = "flow" /\ loop'[l].acct = a
          BY <4>1, LoopEffect
        <5>2. acct'[a] = "running"
          BY <2>1, <4>1 DEF StartAccount, TypeOK
        <5> QED
          BY <5>1, <5>2
      <4>2. CASE FlowEnds(l)
        BY <4>2, LoopEffect
      <4> QED
        BY <2>5, <4>1, <4>2
    <3>5. OutcomesAgree'
      BY <3>1, <3>3 DEF RecordInv, OutcomesAgree
    <3> QED
      BY <2>2, <3>2, <3>4, <3>5 DEF RecordInv, Busy
  <2> QED
    BY <1>6, <2>3, <2>4, <2>5 DEF LoopStep
<1>7. CASE Crash
  <2>1. acct' = acct /\ \A k \in Loops : loop'[k].pc = "idle"
    BY <1>7 DEF Crash, IdleLoop
  <2>2. ASSUME NEW a \in Accounts, acct[a] \in Outcome
        PROVE  item'[a] = ItemOutcome(acct[a])
    <3>1. item[a] = ItemOutcome(acct[a]) /\ item[a] \notin RunFrom
      BY <2>2, OutcomeStatus DEF RecordInv, OutcomesAgree
    <3>2. \A l \in Loops : loop[l].pc = "flow" => loop[l].acct # a
      BY <2>2 DEF RecordInv, Outcome
    <3>3. ItemsAtCrash
      BY <1>7 DEF Crash
    <3> QED
      BY <1>1, <2>2, <3>1, <3>2, <3>3 DEF ItemsAtCrash, ItemStarted, TypeOK, RecordInv
  <2> QED
    BY <2>1, <2>2 DEF RecordInv, OutcomesAgree
<1> QED
  BY <1>2, <1>3, <1>4, <1>5, <1>6, <1>7 DEF Next, MainStep, vars, BrowserLaunched, LoggedIn,
     SetupFails, PipelineEnds, RunReturns, RunRejects, BrowserClosed, CloseFails, Rejected

-----------------------------------------------------------------------------
(* The first workflow: as long as nobody cancels, every item is where the   *)
(* loops expect it, so that recording an outcome cannot throw.              *)

\* Until the second workflow, or a cancellation, the items of the accounts not
\* taken are new and those of the accounts held are running.
FirstInv ==
    /\ main = "idle" => \A a \in Accounts : item[a] = "absent"
    /\ main = "running" => wf >= 1
    /\ Live /\ ~cancelled /\ wf <= 1 =>
          /\ error # "run"
          /\ main = "preflight" => \A a \in Accounts : item[a] = "absent"
          /\ main \in {"launch", "login", "step"} /\ wf = 0 => \A a \in Accounts : item[a] = "new"
          /\ main = "running" => \A a \in Accounts : a >= next => item[a] = "new"
          /\ \A l \in Loops :
                /\ loop[l].pc \in {"refresh", "start"} => item[loop[l].acct] = "new"
                /\ loop[l].pc \in {"flow", "backoff"} => item[loop[l].acct] = "running"

\* There are no items at first.
LEMMA FirstInit == Init => FirstInv
BY DEF Init, FirstInv, Live

\* Every step of the first workflow finds the items it expects.
LEMMA FirstNext ==
    TypeOK /\ RunInv /\ TakenInv /\ FirstInv /\ [Next]_vars => FirstInv'
<1> SUFFICES ASSUME TypeOK, RunInv, TakenInv, FirstInv, [Next]_vars
             PROVE  FirstInv'
  OBVIOUS
<1> USE DEF runVars, jobVars, stopVars, loopVars
<1>0. ASSUME \A a \in Accounts : item[a] = "absent"
      PROVE  \A a \in Accounts : ItemsCreated(Accounts)[a] = "new"
  BY <1>0 DEF ItemsCreated
<1>1. CASE Start
  <2>1. AllIdle /\ error = "none"
    BY <1>1 DEF Start, RunInv
  <2> QED
    BY <1>0, <1>1, <2>1 DEF Start, FirstInv, Live, AllIdle
<1>2. CASE PreflightPasses
  <2>1. AllIdle
    BY <1>2 DEF PreflightPasses, RunInv
  <2> QED
    BY <1>0, <1>2, <2>1 DEF PreflightPasses, FirstInv, Live, AllIdle
<1>3. CASE BrowserLaunched \/ LoggedIn \/ SetupFails
  BY <1>3 DEF BrowserLaunched, LoggedIn, SetupFails, FirstInv, Live
<1>4. CASE StepBegins
  <2>1. wf \in Nat /\ wf' = wf + 1
    BY <1>4 DEF StepBegins, TypeOK
  <2>2. wf' >= 1 /\ (wf' <= 1 => wf = 0)
    BY <2>1
  <2> QED
    BY <1>4, <2>2 DEF StepBegins, IdleLoop, FirstInv, Live
<1>5. CASE PipelineEnds \/ RunReturns \/ RunRejects \/ BrowserClosed \/ CloseFails \/ Rejected
  <2>1. CASE RunReturns
    <3>1. AllIdle
      BY <2>1 DEF RunReturns, LoopsEnded, AllIdle
    <3>2. wf >= 1 /\ wf \in Nat
      BY <2>1 DEF RunReturns, FirstInv, TypeOK
    <3> QED
      BY <2>1, <3>1, <3>2 DEF RunReturns, FirstInv, Live, AllIdle
  <2>2. CASE PipelineEnds \/ RunRejects \/ BrowserClosed \/ CloseFails \/ Rejected
    BY <2>2 DEF PipelineEnds, RunRejects, BrowserClosed, CloseFails, Rejected, FirstInv, Live
  <2> QED
    BY <1>5, <2>1, <2>2
<1>6. ASSUME NEW l \in Loops, LoopStep(l)
      PROVE  FirstInv'
  <2>0. UNCHANGED <<main, wf, cancelled>>
    BY <1>6 DEF LoopStep, PickNone, PickSkipped, Pick, StartAccount, FlowEnds, FlowRetries,
                BackoffEnds, DelayEnds
  <2>1. loop[l].pc # "idle" /\ main # "idle"
    <3>1. loop[l].pc # "idle"
      BY <1>6 DEF LoopStep, PickNone, PickSkipped, Pick, StartAccount, FlowEnds, FlowRetries,
                  BackoffEnds, DelayEnds
    <3> QED
      BY <3>1 DEF RunInv, AllIdle
  <2> SUFFICES ASSUME Live, ~cancelled, wf <= 1
               PROVE  FirstInv'
    BY <2>0, <2>1 DEF FirstInv, Live
  <2>2. error # "run" /\ main = "running"
    BY <2>1 DEF FirstInv, RunInv, AllIdle
  <2>3. \A k \in Loops : loop[k].acct \in Accounts /\ loop[k].acct \in Nat
    BY DEF TypeOK, Accounts
  <2>4. \A k \in Loops \ {l} : loop'[k] = loop[k]
    BY <1>6, LoopEffect
  <2>5. next \in Nat
    BY DEF TypeOK
  <2>6. CASE PickNone(l) \/ PickSkipped(l) \/ FlowRetries(l) \/ BackoffEnds(l) \/ DelayEnds(l)
    <3>0. next' = next \/ next' = next + 1
      BY <2>6 DEF PickNone, PickSkipped, TakeNext, FlowRetries, BackoffEnds, DelayEnds
    <3>1. UNCHANGED <<error, item>> /\ next' \in Nat /\ next' >= next
      BY <2>5, <2>6, <3>0 DEF PickNone, PickSkipped, FlowRetries, BackoffEnds, DelayEnds
    <3>2. \/ loop' = loop
          \/ loop'[l].pc \notin {"refresh", "start", "flow", "backoff"}
          \/ /\ loop[l].pc \in {"flow", "backoff"} /\ loop'[l].pc \in {"flow", "backoff"}
             /\ loop'[l].acct = loop[l].acct
      BY <2>6, LoopEffect DEF PickSkipped, FlowRetries, BackoffEnds
    <3>3. \A a \in Accounts : a >= next' => item'[a] = "new"
      BY <2>2, <2>5, <3>1 DEF FirstInv, Accounts
    <3> QED
      BY <2>0, <2>2, <2>4, <3>1, <3>2, <3>3 DEF FirstInv
  <2>7. CASE Pick(l)
    <3>1. /\ UNCHANGED <<error, item>> /\ next' = next + 1
          /\ loop'[l].acct = next /\ next \in Accounts
          /\ loop'[l].pc \in {"refresh", "start"}
      <4>1. next <= NAccounts /\ next >= 1
        BY <2>7 DEF Pick, TypeOK
      <4>2. UNCHANGED <<error, item>> /\ next' = next + 1
        BY <2>7 DEF Pick, TakeNext
      <4>3. loop'[l].acct = next /\ loop'[l].pc \in {"refresh", "start"}
        BY <2>7, LoopEffect
      <4> QED
        BY <2>5, <4>1, <4>2, <4>3 DEF Accounts
    <3>2. \A a \in Accounts : a >= next' => item'[a] = "new"
      BY <2>2, <2>5, <3>1 DEF FirstInv, Accounts
    <3>3. item[next] = "new"
      BY <2>2, <2>5, <3>1 DEF FirstInv
    <3> QED
      BY <2>0, <2>2, <2>4, <3>1, <3>2, <3>3 DEF FirstInv
  <2>8. CASE StartAccount(l) \/ FlowEnds(l)
    <3> DEFINE a == loop[l].acct
    <3>1. Busy(l) /\ next' = next
      BY <2>8 DEF StartAccount, FlowEnds, Busy
    <3>2. a < next /\ \A k \in Loops \ {l} : Busy(k) => loop[k].acct # a
      BY <3>1 DEF TakenInv, NoAccountTwice
    <3>3. /\ error' = error
          /\ \A b \in Accounts \ {a} : item'[b] = item[b]
          /\ \/ loop'[l].pc = "flow" /\ loop'[l].acct = a /\ item'[a] = "running"
             \/ loop'[l].pc \notin {"refresh", "start", "flow", "backoff"}
      <4>1. CASE StartAccount(l)
        <5>1. ItemStarted(a) = "running"
          BY <4>1 DEF StartAccount, FirstInv, ItemStarted, RunFrom
        <5> QED
          BY <2>3, <4>1, <5>1, LoopEffect DEF StartAccount, TypeOK
      <4>2. CASE FlowEnds(l)
        <5>1. \A o : Accepts(a, o)
          BY <4>2 DEF FlowEnds, FirstInv, Accepts, FinishFrom
        <5>2. PICK o \in Outcome : RecordOutcome(l, o)
          BY <4>2 DEF FlowEnds
        <5>3. error' = error /\ item' = [item EXCEPT ![a] = ItemOutcome(o)]
          BY <5>1, <5>2 DEF RecordOutcome
        <5>4. loop'[l].pc \notin {"refresh", "start", "flow", "backoff"}
          BY <4>2, LoopEffect
        <5> QED
          BY <2>3, <5>3, <5>4 DEF TypeOK
      <4> QED
        BY <2>8, <4>1, <4>2
    <3>4. \A b \in Accounts : b >= next' => item'[b] = "new"
      BY <2>2, <2>3, <2>5, <3>1, <3>2, <3>3 DEF FirstInv, Accounts
    <3>5. \A k \in Loops \ {l} : Busy(k) => item'[loop[k].acct] = item[loop[k].acct]
      BY <2>3, <3>2, <3>3
    <3> QED
      BY <2>0, <2>2, <2>4, <3>3, <3>4, <3>5 DEF FirstInv, Busy
  <2> QED
    BY <1>6, <2>6, <2>7, <2>8 DEF LoopStep
<1>7. CASE RefreshSettles
  BY <1>7 DEF RefreshSettles, FirstInv, Live, TypeOK
<1>8. CASE Cancel
  <2>1. main # "idle" /\ (Live => cancelled')
    BY <1>8 DEF Cancel, RunInv, Live, Terminal
  <2> QED
    BY <1>8, <2>1 DEF Cancel, FirstInv, Live
<1>9. CASE Crash
  BY <1>9 DEF Crash, FirstInv, Live
<1>10. CASE UNCHANGED vars
  BY <1>10 DEF vars, FirstInv, Live
<1> QED
  BY <1>1, <1>2, <1>3, <1>4, <1>5, <1>6, <1>7, <1>8, <1>9, <1>10 DEF Next, MainStep

-----------------------------------------------------------------------------
(* Late starts: one for each loop that was waiting for a refresh when the   *)
(* run was cancelled.                                                       *)

\* The loops that took an account and did not start it yet.
Waiting == {l \in Loops : loop[l].pc \in {"refresh", "start"}}

\* What was started late and what is still waiting are at most one per loop.
LateInv ==
    /\ \A l \in Loops : l > cfg.loops => loop[l].pc = "idle"
    /\ lateStarts <= cfg.loops
    /\ ~cancelled /\ main # "dead" => lateStarts = 0
    /\ cancelled => lateStarts + Cardinality(Waiting) <= cfg.loops
    /\ main = "dead" => ~token /\ ~cancelled
    /\ main = "dead" => AllIdle

\* The waiting loops can be counted, and there are no more than loops.
LEMMA WaitingFinite ==
    ASSUME TypeOK, LateInv
    PROVE  /\ IsFiniteSet(Waiting) /\ Cardinality(Waiting) \in Nat
           /\ Cardinality(Waiting) <= cfg.loops
<1>1. cfg.loops \in Loops /\ cfg.loops \in Nat
  BY DEF TypeOK, Config, Loops
<1>2. Waiting \subseteq 1..cfg.loops
  BY <1>1 DEF Waiting, LateInv, Loops
<1>3. IsFiniteSet(1..cfg.loops) /\ Cardinality(1..cfg.loops) = cfg.loops
  BY <1>1, FS_Interval
<1> QED
  BY <1>2, <1>3, FS_Subset, FS_CardinalityType

\* Nothing is started late at first.
LEMMA LateInit == Init => LateInv
<1> SUFFICES ASSUME Init PROVE LateInv
  OBVIOUS
<1>1. cfg.loops \in Nat
  BY DEF Init, Config, Loops
<1> QED
  BY <1>1 DEF Init, LateInv, IdleLoop

\* A step that adds nobody to the waiting loops and starts nobody late.
LEMMA LateKept ==
    ASSUME TypeOK, LateInv, Waiting' \subseteq Waiting,
           UNCHANGED <<lateStarts, cancelled, cfg>>
    PROVE  cancelled' => lateStarts' + Cardinality(Waiting') <= cfg'.loops
<1>1. IsFiniteSet(Waiting) /\ Cardinality(Waiting) \in Nat
  BY WaitingFinite
<1>2. Cardinality(Waiting') \in Nat /\ Cardinality(Waiting') <= Cardinality(Waiting)
  BY <1>1, FS_Subset, FS_CardinalityType
<1> QED
  BY <1>1, <1>2 DEF LateInv, TypeOK, Config, Loops

\* A late start is the start of a loop that was waiting at the cancellation.
LEMMA LateNext == TypeOK /\ RunInv /\ LateInv /\ [Next]_vars => LateInv'
<1> SUFFICES ASSUME TypeOK, RunInv, LateInv, [Next]_vars
             PROVE  LateInv'
  OBVIOUS
<1> USE DEF runVars, jobVars, stopVars, loopVars
<1>0. cfg.loops \in Nat /\ lateStarts \in Nat /\ \A l \in Loops : l \in Nat
  BY DEF TypeOK, Config, Loops
<1>1. CASE UNCHANGED <<cfg, loop, lateStarts, cancelled>> /\ main # "dead" /\ main' # "dead"
  BY <1>1 DEF LateInv, Waiting
<1>2. CASE StepBegins
  <2>1. ~cancelled' /\ main' # "dead" /\ UNCHANGED <<cfg, lateStarts>>
    BY <1>2 DEF StepBegins
  <2>2. \A l \in Loops : l > cfg.loops => loop'[l].pc = "idle"
    BY <1>0, <1>2 DEF StepBegins, IdleLoop
  <2> QED
    BY <1>2, <2>1, <2>2 DEF StepBegins, LateInv
<1>3. CASE RefreshSettles
  <2>1. Waiting' = Waiting /\ UNCHANGED <<cfg, lateStarts, cancelled, main, token>>
    BY <1>3 DEF RefreshSettles, Waiting, TypeOK
  <2>2. \A l \in Loops : loop[l].pc = "idle" => loop'[l].pc = "idle"
    BY <1>3 DEF RefreshSettles
  <2> QED
    BY <2>1, <2>2 DEF LateInv, AllIdle
<1>4. ASSUME NEW l \in Loops, LoopStep(l)
      PROVE  LateInv'
  <2>1. loop[l].pc # "idle" /\ UNCHANGED <<cfg, main, cancelled, token>>
    BY <1>4 DEF LoopStep, PickNone, PickSkipped, Pick, StartAccount, FlowEnds, FlowRetries,
                BackoffEnds, DelayEnds
  <2>2. main # "dead" /\ l <= cfg.loops
    BY <1>0, <2>1 DEF LateInv, AllIdle
  <2>3. \A k \in Loops \ {l} : loop'[k] = loop[k]
    BY <1>4, LoopEffect
  <2>4. \A k \in Loops : k > cfg'.loops => loop'[k].pc = "idle"
    BY <1>0, <2>1, <2>2, <2>3 DEF LateInv
  <2>5. CASE StartAccount(l)
    <3>1. Waiting' = Waiting \ {l} /\ l \in Waiting
      BY <2>3, <2>5, LoopEffect DEF StartAccount, Waiting
    <3>2. Cardinality(Waiting') = Cardinality(Waiting) - 1 /\ Cardinality(Waiting) \in Nat
      BY <3>1, WaitingFinite, FS_RemoveElement
    <3>3. lateStarts' = IF cancelled THEN lateStarts + 1 ELSE lateStarts
      BY <2>5 DEF StartAccount
    <3>4. Cardinality(Waiting) >= 1
      BY <3>1, <3>2, WaitingFinite, FS_EmptySet
    <3> QED
      BY <1>0, <2>1, <2>2, <2>4, <3>2, <3>3, <3>4 DEF LateInv
  <2>6. CASE Pick(l)
    <3>1. ~cancelled /\ UNCHANGED lateStarts
      BY <2>6 DEF Pick, StopRequested
    <3> QED
      BY <2>1, <2>2, <2>4, <3>1 DEF LateInv
  <2>7. CASE ~StartAccount(l) /\ ~Pick(l)
    <3>1. UNCHANGED lateStarts
      BY <1>4, <2>7 DEF LoopStep, PickNone, PickSkipped, FlowEnds, FlowRetries, BackoffEnds, DelayEnds
    <3>2. loop'[l] = loop[l] \/ loop'[l].pc \notin {"refresh", "start"}
      BY <1>4, <2>7, LoopEffect DEF LoopStep, PickSkipped
    <3>3. Waiting' \subseteq Waiting
      BY <2>3, <3>2 DEF Waiting
    <3>4. cancelled' => lateStarts' + Cardinality(Waiting') <= cfg'.loops
      BY <2>1, <3>1, <3>3, LateKept
    <3> QED
      BY <2>1, <2>2, <2>4, <3>1, <3>4 DEF LateInv
  <2> QED
    BY <2>5, <2>6, <2>7
<1>5. CASE Cancel
  <2>1. UNCHANGED <<cfg, loop, lateStarts, main, token>> /\ cancelled' = (cancelled \/ token)
    BY <1>5 DEF Cancel
  <2>2. Waiting' = Waiting /\ Cardinality(Waiting) \in Nat /\ Cardinality(Waiting) <= cfg.loops
    BY <2>1, WaitingFinite DEF Waiting
  <2>3. cancelled' => lateStarts' + Cardinality(Waiting') <= cfg'.loops
    <3>1. CASE cancelled
      BY <2>1, <2>2, <3>1 DEF LateInv
    <3>2. CASE ~cancelled /\ main # "dead"
      BY <1>0, <2>1, <2>2, <3>2 DEF LateInv
    <3>3. CASE ~cancelled /\ main = "dead"
      BY <2>1, <3>3 DEF LateInv
    <3> QED
      BY <3>1, <3>2, <3>3
  <2> QED
    BY <2>1, <2>3 DEF LateInv, AllIdle
<1>6. CASE Crash
  BY <1>6 DEF Crash, LateInv, AllIdle, IdleLoop
<1>7. CASE UNCHANGED vars
  BY <1>7 DEF vars, LateInv, Waiting, AllIdle
<1>8. CASE Start \/ PreflightPasses \/ BrowserLaunched \/ LoggedIn \/ SetupFails \/ PipelineEnds
           \/ RunReturns \/ RunRejects \/ BrowserClosed \/ CloseFails \/ Rejected
  BY <1>1, <1>8 DEF Start, PreflightPasses, BrowserLaunched, LoggedIn, SetupFails, PipelineEnds,
                    RunReturns, RunRejects, BrowserClosed, CloseFails, Rejected
<1> QED
  BY <1>2, <1>3, <1>4, <1>5, <1>6, <1>7, <1>8 DEF Next, MainStep

-----------------------------------------------------------------------------
(* The outcomes: what the totals and the accounts say of a run that no      *)
(* error ended.                                                            *)

\* The loops that hold an account, and the outcomes counted.
Held == {l \in Loops : Busy(l)}
Counted == total["completed"] + total["skipped"] + total["failed"]

\* Each workflow has counted an outcome for every account that was taken and is
\* no longer held.
Sum == /\ wf = 0 => Counted = 0
       /\ wf > 0 => Counted + Cardinality(Held) + NAccounts + 1 = wf * NAccounts + next

\* An account that was taken has an outcome or a loop that holds it.
Covered == \A a \in Accounts :
    a < next => acct[a] \in Outcome \/ \E l \in Loops : Busy(l) /\ loop[l].acct = a

\* A loop ends when no account is left, or at a cancellation.
Exhausted == ~cancelled /\ wf > 0 =>
    \A l \in Loops : l <= cfg.loops /\ loop[l].pc = "idle" => next = NAccounts + 1

\* All of this until an error or a crash ends the run.
CountInv == error = "none" /\ main # "dead" => Sum /\ Covered /\ Exhausted

\* A failure is counted exactly if an account shows it; a run that is over without
\* an error was cancelled, or has run every workflow and told what they came to; so
\* had one whose browser did not close, if it told of a completion.
EndInv ==
    /\ main = "running" => wf > 0
    /\ main = "rejected" => error # "none"
    /\ total["failed"] > 0 <=> \E a \in Accounts : acct[a] = "failed"
    /\ main \in {"closing", "settled"} /\ error = "none" =>
          IF cancelled THEN jobStatus = "cancelled"
          ELSE /\ wf = cfg.workflows
               /\ jobStatus = IF total["failed"] > 0 THEN "failed" ELSE "completed"
    /\ error = "close" /\ main # "dead" /\ notices = <<"completed">> =>
          wf = cfg.workflows /\ total["failed"] = 0

\* The loops that hold an account can be counted.
LEMMA HeldFinite == IsFiniteSet(Held) /\ Cardinality(Held) \in Nat
<1>1. IsFiniteSet(Loops)
  BY FS_Interval DEF Loops
<1> QED
  BY <1>1, FS_Subset, FS_CardinalityType DEF Held

\* One such loop more or less counts one.
LEMMA HeldChanges ==
    ASSUME NEW l \in Loops, \A k \in Loops \ {l} : loop'[k] = loop[k]
    PROVE  /\ ~Busy(l) /\ Busy(l)' => Cardinality(Held') = Cardinality(Held) + 1
           /\ Busy(l) /\ ~Busy(l)' => Cardinality(Held') = Cardinality(Held) - 1
           /\ (Busy(l) <=> Busy(l)') => Held' = Held
<1>1. ASSUME ~Busy(l), Busy(l)'
      PROVE  Cardinality(Held') = Cardinality(Held) + 1
  <2>1. Held' = Held \cup {l} /\ l \notin Held
    BY <1>1 DEF Held, Busy
  <2> QED
    BY <2>1, HeldFinite, FS_AddElement
<1>2. ASSUME Busy(l), ~Busy(l)'
      PROVE  Cardinality(Held') = Cardinality(Held) - 1
  <2>1. Held' = Held \ {l} /\ l \in Held
    BY <1>2 DEF Held, Busy
  <2> QED
    BY <2>1, HeldFinite, FS_RemoveElement
<1>3. (Busy(l) <=> Busy(l)') => Held' = Held
  BY DEF Held, Busy
<1> QED
  BY <1>1, <1>2, <1>3

\* An outcome adds one to what is counted.
LEMMA CountedOne ==
    ASSUME TypeOK, NEW o \in Outcome, total' = [total EXCEPT ![o] = total[o] + 1]
    PROVE  /\ Counted' = Counted + 1
           /\ total'["failed"] > 0 <=> total["failed"] > 0 \/ o = "failed"
<1>1. total \in [Outcome -> Nat]
  BY DEF TypeOK
<1>2. o = "completed" \/ o = "skipped" \/ o = "failed"
  BY DEF Outcome
<1> QED
  BY <1>1, <1>2 DEF Counted, Outcome

\* Nothing is counted at first.
LEMMA CountInit == Init => CountInv /\ EndInv
<1> SUFFICES ASSUME Init PROVE CountInv /\ EndInv
  OBVIOUS
<1>1. Sum /\ Exhausted
  BY DEF Init, Sum, Exhausted, Counted, Outcome
<1>2. Covered
  BY DEF Init, Covered, Accounts
<1>3. EndInv
  BY DEF Init, EndInv, Outcome
<1> QED
  BY <1>1, <1>2, <1>3 DEF CountInv

\* What a step of a loop does to the sum.
LEMMA SumLoop ==
    ASSUME TypeOK, Sum, wf > 0, NEW l \in Loops, LoopStep(l), error' = "none", error = "none"
    PROVE  Sum'
<1>0. /\ Counted \in Nat /\ next \in Nat /\ wf \in Nat /\ NAccounts \in Nat
      /\ wf * NAccounts \in Nat /\ Cardinality(Held) \in Nat
  <2>1. cfg.workflows \in Nat /\ total \in [Outcome -> Nat] /\ wf \in 0..cfg.workflows
    BY DEF TypeOK, Config
  <2>2. Counted \in Nat
    BY <2>1 DEF Counted, Outcome
  <2> QED
    BY <2>1, <2>2, HeldFinite DEF TypeOK
<1>1. \A k \in Loops \ {l} : loop'[k] = loop[k]
  BY LoopEffect
<1>2. wf' = wf
  BY DEF LoopStep, PickNone, PickSkipped, Pick, StartAccount, FlowEnds, FlowRetries, BackoffEnds,
         DelayEnds, runVars
<1>3. SUFFICES Counted' + Cardinality(Held') + next = Counted + Cardinality(Held) + next'
               /\ Counted' \in Nat /\ Cardinality(Held') \in Nat /\ next' \in Nat
  BY <1>0, <1>2, <1>3 DEF Sum
<1>4. CASE PickNone(l) \/ StartAccount(l) \/ FlowRetries(l) \/ BackoffEnds(l) \/ DelayEnds(l)
  <2>1. Busy(l) <=> Busy(l)'
    BY <1>4, LoopEffect DEF PickNone, StartAccount, FlowRetries, BackoffEnds, DelayEnds, Busy
  <2>2. UNCHANGED <<total, next>>
    BY <1>4 DEF PickNone, StartAccount, FlowRetries, BackoffEnds, DelayEnds
  <2>3. Counted' = Counted /\ Held' = Held
    BY <1>1, <2>1, <2>2, HeldChanges DEF Counted
  <2> QED
    BY <1>0, <2>2, <2>3
<1>5. CASE PickSkipped(l)
  <2>1. next' = next + 1 /\ Held' = Held
    BY <1>5 DEF PickSkipped, TakeNext, Held, Busy
  <2>2. "skipped" \in Outcome /\ total' = [total EXCEPT !["skipped"] = total["skipped"] + 1]
    BY <1>5 DEF PickSkipped, Outcome
  <2>3. Counted' = Counted + 1
    BY <2>2, CountedOne
  <2> QED
    BY <1>0, <2>1, <2>3
<1>6. CASE Pick(l)
  <2>1. next' = next + 1 /\ Counted' = Counted
    BY <1>6 DEF Pick, TakeNext, Counted
  <2>2. ~Busy(l) /\ Busy(l)'
    BY <1>6, LoopEffect DEF Pick, Busy
  <2>3. Cardinality(Held') = Cardinality(Held) + 1
    BY <1>1, <2>2, HeldChanges
  <2> QED
    BY <1>0, <2>1, <2>3
<1>7. CASE FlowEnds(l)
  <2>1. PICK o \in Outcome : RecordOutcome(l, o)
    BY <1>7 DEF FlowEnds
  <2>2. total' = [total EXCEPT ![o] = total[o] + 1]
    BY <2>1 DEF RecordOutcome
  <2>3. Counted' = Counted + 1 /\ next' = next
    BY <1>7, <2>2, CountedOne DEF FlowEnds
  <2>4. Busy(l) /\ ~Busy(l)'
    BY <1>7, LoopEffect DEF FlowEnds, Busy
  <2>5. Cardinality(Held') = Cardinality(Held) - 1 /\ Cardinality(Held) # 0
    <3>1. l \in Held
      BY <2>4 DEF Held
    <3> QED
      BY <1>1, <2>4, <3>1, HeldChanges, HeldFinite, FS_EmptySet
  <2> QED
    BY <1>0, <2>3, <2>5
<1> QED
  BY <1>4, <1>5, <1>6, <1>7 DEF LoopStep

\* An account does not slip through a step of a loop.
LEMMA CoveredLoop ==
    ASSUME TypeOK, Covered, NEW l \in Loops, LoopStep(l), error' = "none", error = "none"
    PROVE  Covered'
<1>0. next \in Nat /\ \A k \in Loops : loop[k].acct \in Accounts
  BY DEF TypeOK
<1>1. \A k \in Loops \ {l} : loop'[k] = loop[k]
  BY LoopEffect
<1>2. CASE PickNone(l) \/ FlowRetries(l) \/ BackoffEnds(l) \/ DelayEnds(l)
  <2>1. Busy(l) => Busy(l)' /\ loop'[l].acct = loop[l].acct
    BY <1>2, LoopEffect DEF PickNone, FlowRetries, BackoffEnds, DelayEnds, Busy
  <2>2. UNCHANGED <<acct, next>>
    BY <1>2 DEF PickNone, FlowRetries, BackoffEnds, DelayEnds
  <2> QED
    BY <1>1, <2>1, <2>2 DEF Covered, Busy
<1>3. CASE PickSkipped(l)
  <2>1. next' = next + 1 /\ acct[next] \in Outcome /\ UNCHANGED <<acct, loop>>
    BY <1>3 DEF PickSkipped, TakeNext, ShouldSkip, Outcome
  <2> QED
    BY <1>0, <2>1 DEF Covered, Busy, Accounts
<1>4. CASE Pick(l)
  <2>1. next' = next + 1 /\ UNCHANGED acct
    BY <1>4 DEF Pick, TakeNext
  <2>2. ~Busy(l) /\ Busy(l)' /\ loop'[l].acct = next
    BY <1>4, LoopEffect DEF Pick, Busy
  <2> QED
    BY <1>0, <1>1, <2>1, <2>2 DEF Covered, Busy, Accounts
<1>5. CASE StartAccount(l)
  <2>1. next' = next /\ \A a \in Accounts \ {loop[l].acct} : acct'[a] = acct[a]
    BY <1>0, <1>5 DEF StartAccount, TypeOK
  <2>2. Busy(l) /\ Busy(l)' /\ loop'[l].acct = loop[l].acct
    BY <1>5, LoopEffect DEF StartAccount, Busy
  <2> QED
    BY <1>0, <1>1, <2>1, <2>2 DEF Covered, Busy
<1>6. CASE FlowEnds(l)
  <2>1. PICK o \in Outcome : RecordOutcome(l, o)
    BY <1>6 DEF FlowEnds
  <2>2. acct' = [acct EXCEPT ![loop[l].acct] = o] /\ next' = next
    BY <1>6, <2>1 DEF RecordOutcome, FlowEnds
  <2>3. acct'[loop[l].acct] \in Outcome
        /\ \A a \in Accounts \ {loop[l].acct} : acct'[a] = acct[a]
    BY <1>0, <2>2 DEF TypeOK
  <2> QED
    BY <1>0, <1>1, <2>2, <2>3 DEF Covered, Busy
<1> QED
  BY <1>2, <1>3, <1>4, <1>5, <1>6 DEF LoopStep

\* A loop comes to its end only when nothing is left.
LEMMA ExhaustedLoop ==
    ASSUME TypeOK, Exhausted, NEW l \in Loops, LoopStep(l), error' = "none", error = "none"
    PROVE  Exhausted'
<1>0. next \in 1..(NAccounts + 1) /\ next \in Nat
  BY DEF TypeOK
<1>1. \A k \in Loops \ {l} : loop'[k] = loop[k]
  BY LoopEffect
<1>2. UNCHANGED <<cfg, wf, cancelled>>
  BY DEF LoopStep, PickNone, PickSkipped, Pick, StartAccount, FlowEnds, FlowRetries, BackoffEnds,
         DelayEnds, runVars, stopVars
<1>3. next = NAccounts + 1 => next' = next
  <2>1. Pick(l) \/ PickSkipped(l) => next <= NAccounts
    BY DEF Pick, PickSkipped
  <2>2. ~Pick(l) /\ ~PickSkipped(l) => next' = next
    BY DEF LoopStep, PickNone, StartAccount, FlowEnds, FlowRetries, BackoffEnds, DelayEnds
  <2> QED
    BY <1>0, <2>1, <2>2
<1>4. CASE PickNone(l)
  <2>1. ~cancelled => next = NAccounts + 1
    BY <1>0, <1>4 DEF PickNone, StopRequested
  <2> QED
    BY <1>2, <1>3, <2>1 DEF Exhausted
<1>5. CASE ~PickNone(l)
  <2>1. loop[l].pc # "idle" /\ loop'[l].pc # "idle"
    <3>1. CASE PickSkipped(l)
      BY <3>1 DEF PickSkipped
    <3>2. CASE FlowEnds(l)
      <4>1. PICK o \in Outcome : RecordOutcome(l, o)
        BY <3>2 DEF FlowEnds
      <4>2. loop' = [loop EXCEPT ![l].pc = AfterAccount(o)]
        BY <4>1 DEF RecordOutcome
      <4> QED
        BY <3>2, <4>2 DEF FlowEnds, AfterAccount, TypeOK
    <3> QED
      BY <1>5, <3>1, <3>2, LoopEffect DEF LoopStep, Pick, StartAccount, FlowRetries, BackoffEnds,
         DelayEnds
  <2> QED
    BY <1>1, <1>2, <1>3, <2>1 DEF Exhausted
<1> QED
  BY <1>4, <1>5

\* Every step keeps account of the accounts.
LEMMA CountNext ==
    ASSUME TypeOK, RunInv, EndInv, CountInv, [Next]_vars
    PROVE  CountInv'
<1> USE DEF runVars, jobVars, stopVars, loopVars
<1> SUFFICES ASSUME error' = "none", main' # "dead"
             PROVE  Sum' /\ Covered' /\ Exhausted'
  BY DEF CountInv
<1>1. main # "dead" => error = "none"
  BY DEF Next, MainStep, LoopStep, vars, Start, PreflightPasses, BrowserLaunched, LoggedIn,
     SetupFails, StepBegins, PipelineEnds, RunReturns, RunRejects, BrowserClosed, CloseFails,
     Rejected,
     PickNone, PickSkipped, Pick, StartAccount, FlowEnds, RecordOutcome, FlowRetries, BackoffEnds,
     DelayEnds, RefreshSettles, Cancel, Crash, RunInv
<1>2. main # "dead"
  BY DEF Next, MainStep, LoopStep, vars, Start, PreflightPasses, BrowserLaunched, LoggedIn,
     SetupFails, StepBegins, PipelineEnds, RunReturns, RunRejects, BrowserClosed, CloseFails,
     Rejected,
     PickNone, PickSkipped, Pick, StartAccount, FlowEnds, FlowRetries, BackoffEnds, DelayEnds,
     RefreshSettles, Cancel, Crash
<1>3. error = "none" /\ Sum /\ Covered /\ Exhausted
  BY <1>1, <1>2 DEF CountInv
<1>4. CASE UNCHANGED <<cfg, wf, cancelled, next, loop, acct, total>>
  BY <1>3, <1>4 DEF Sum, Counted, Held, Covered, Exhausted, Busy
<1>5. CASE StepBegins
  <2>1. AllIdle
    BY <1>5, <1>3 DEF StepBegins, RunInv
  <2>2. Held = {} /\ Held' = {} /\ \A l \in Loops : l <= cfg'.loops => loop'[l].pc = "pick"
    BY <1>5, <2>1 DEF StepBegins, Held, Busy, AllIdle, IdleLoop
  <2>3. cfg.loops \in Loops /\ cfg.loops <= cfg.loops /\ ~cancelled
    BY <1>5 DEF StepBegins, TypeOK, Config, Loops
  <2>4. wf > 0 => next = NAccounts + 1
    BY <1>3, <2>1, <2>3 DEF Exhausted, AllIdle
  <2>5. Cardinality(Held) = 0 /\ Cardinality(Held') = 0
    BY <2>2, FS_EmptySet
  <2>6. wf' = wf + 1 /\ next' = 1 /\ Counted' = Counted /\ wf \in Nat /\ NAccounts \in Nat
    BY <1>5 DEF StepBegins, Counted, TypeOK
  <2>7. Counted = wf * NAccounts
    <3>1. CASE wf = 0
      BY <1>3, <2>6, <3>1 DEF Sum
    <3>2. CASE wf > 0
      <4>1. Counted \in Nat
        BY DEF TypeOK, Counted, Outcome
      <4>2. wf * NAccounts \in Nat
        BY <2>6
      <4>3. Counted + 0 + NAccounts + 1 = wf * NAccounts + (NAccounts + 1)
        BY <1>3, <2>4, <2>5, <3>2 DEF Sum
      <4> QED
        BY <2>6, <4>1, <4>2, <4>3
    <3> QED
      BY <2>6, <3>1, <3>2
  <2>8. Sum'
    <3>1. wf * NAccounts \in Nat /\ (wf + 1) * NAccounts = wf * NAccounts + NAccounts
      BY <2>6
    <3> QED
      BY <2>5, <2>6, <2>7, <3>1 DEF Sum
  <2>9. Covered' /\ Exhausted'
    BY <2>2, <2>6 DEF Covered, Exhausted, Accounts
  <2> QED
    BY <2>8, <2>9
<1>6. ASSUME NEW l \in Loops, LoopStep(l)
      PROVE  Sum' /\ Covered' /\ Exhausted'
  <2>1. loop[l].pc # "idle"
    BY <1>6 DEF LoopStep, PickNone, PickSkipped, Pick, StartAccount, FlowEnds, FlowRetries,
                BackoffEnds, DelayEnds
  <2>2. wf > 0
    BY <1>3, <2>1 DEF RunInv, AllIdle, EndInv
  <2> QED
    BY <1>3, <1>6, <2>2, SumLoop, CoveredLoop, ExhaustedLoop
<1>7. CASE RefreshSettles
  <2>1. /\ UNCHANGED <<cfg, wf, cancelled, next, acct, total>>
        /\ \A l \in Loops : /\ Busy(l) <=> Busy(l)'
                            /\ loop'[l].acct = loop[l].acct
                            /\ loop'[l].pc = "idle" <=> loop[l].pc = "idle"
    BY <1>7 DEF RefreshSettles, TypeOK, Busy
  <2>2. Held' = Held /\ Counted' = Counted
    BY <2>1 DEF Held, Counted
  <2> QED
    BY <1>3, <2>1, <2>2 DEF Sum, Covered, Exhausted
<1>8. CASE Cancel
  BY <1>3, <1>8 DEF Cancel, Sum, Counted, Held, Covered, Exhausted, Busy
<1>9. CASE Start \/ PreflightPasses \/ BrowserLaunched \/ LoggedIn \/ SetupFails \/ PipelineEnds
           \/ RunReturns \/ RunRejects \/ BrowserClosed \/ CloseFails \/ Rejected \/ UNCHANGED vars
  BY <1>4, <1>9 DEF Start, PreflightPasses, BrowserLaunched, LoggedIn, SetupFails, PipelineEnds,
                    RunReturns, RunRejects, BrowserClosed, CloseFails, Rejected, vars
<1> QED
  BY <1>5, <1>6, <1>7, <1>8, <1>9 DEF Next, MainStep, Crash

\* Every step keeps what the end of a run rests on.
LEMMA EndNext ==
    ASSUME TypeOK, RunInv, NoticeInv, RecordInv, EndInv, [Next]_vars
    PROVE  EndInv'
<1> USE DEF runVars, jobVars, stopVars, loopVars
<1> DEFINE Failures == total["failed"] > 0 <=> \E a \in Accounts : acct[a] = "failed"
           Told == main \in {"closing", "settled"} /\ error = "none" =>
                      IF cancelled THEN jobStatus = "cancelled"
                      ELSE /\ wf = cfg.workflows
                           /\ jobStatus = IF total["failed"] > 0 THEN "failed" ELSE "completed"
           Staged == (main = "running" => wf > 0) /\ (main = "rejected" => error # "none")
           Unclosed == error = "close" /\ main # "dead" /\ notices = <<"completed">> =>
                          wf = cfg.workflows /\ total["failed"] = 0
<1>0. /\ Failures /\ Told /\ Staged /\ Unclosed
      /\ Failures' /\ Told' /\ Staged' /\ Unclosed' => EndInv'
  BY DEF EndInv
<1> HIDE DEF Failures, Told, Staged, Unclosed
<1>1. Staged'
  <2>1. CASE StepBegins
    BY <2>1 DEF StepBegins, Staged, TypeOK
  <2>2. CASE Start \/ SetupFails \/ BrowserClosed \/ CloseFails \/ RunReturns \/ RunRejects
             \/ Rejected
    BY <1>0, <2>2 DEF Start, SetupFails, BrowserClosed, CloseFails, RunReturns, RunRejects,
       Rejected, Staged
  <2>3. CASE \E l \in Loops : LoopStep(l)
    BY <1>0, <2>3 DEF LoopStep, PickNone, PickSkipped, Pick, StartAccount, FlowEnds, RecordOutcome,
       FlowRetries, BackoffEnds, DelayEnds, Staged
  <2>4. CASE PreflightPasses \/ BrowserLaunched \/ LoggedIn \/ PipelineEnds \/ RefreshSettles
             \/ Cancel \/ Crash \/ UNCHANGED vars
    BY <1>0, <2>4 DEF PreflightPasses, BrowserLaunched, LoggedIn, PipelineEnds, RefreshSettles,
       Cancel, Crash, vars, Staged
  <2> QED
    BY <2>1, <2>2, <2>3, <2>4 DEF Next, MainStep
<1>2. Failures'
  <2>1. CASE UNCHANGED <<acct, total>>
    BY <1>0, <2>1 DEF Failures
  <2>2. ASSUME NEW l \in Loops, PickSkipped(l)
        PROVE  Failures'
    <3>1. "skipped" \in Outcome /\ total' = [total EXCEPT !["skipped"] = total["skipped"] + 1]
          /\ acct' = acct
      BY <2>2 DEF PickSkipped, Outcome
    <3>2. total'["failed"] > 0 <=> total["failed"] > 0
      BY <3>1, CountedOne
    <3> QED
      BY <1>0, <3>1, <3>2 DEF Failures
  <2>3. ASSUME NEW l \in Loops, StartAccount(l)
        PROVE  Failures'
    <3>1. loop[l].acct \in Accounts /\ acct[loop[l].acct] # "failed" /\ total' = total
      BY <2>3 DEF StartAccount, RecordInv, TypeOK
    <3>2. \A a \in Accounts : acct'[a] = "failed" <=> acct[a] = "failed"
      BY <2>3, <3>1 DEF StartAccount, TypeOK
    <3> QED
      BY <1>0, <3>1, <3>2 DEF Failures
  <2>4. ASSUME NEW l \in Loops, FlowEnds(l), ~UNCHANGED <<acct, total>>
        PROVE  Failures'
    <3>1. PICK o \in Outcome : RecordOutcome(l, o)
      BY <2>4 DEF FlowEnds
    <3>2. /\ acct' = [acct EXCEPT ![loop[l].acct] = o]
          /\ total' = [total EXCEPT ![o] = total[o] + 1]
      BY <2>4, <3>1 DEF RecordOutcome
    <3>3. loop[l].acct \in Accounts /\ acct[loop[l].acct] # "failed"
      BY <2>4 DEF FlowEnds, RecordInv, TypeOK
    <3>4. total'["failed"] > 0 <=> total["failed"] > 0 \/ o = "failed"
      BY <3>2, CountedOne
    <3>5. acct'[loop[l].acct] = o /\ \A a \in Accounts \ {loop[l].acct} : acct'[a] = acct[a]
      BY <3>2, <3>3 DEF TypeOK
    <3> QED
      BY <1>0, <3>3, <3>4, <3>5 DEF Failures
  <2> QED
    BY <2>1, <2>2, <2>3, <2>4 DEF Next, MainStep, LoopStep, vars, Start, PreflightPasses,
       BrowserLaunched, LoggedIn, SetupFails, StepBegins, PipelineEnds, RunReturns, RunRejects,
       BrowserClosed, CloseFails, Rejected, PickNone, Pick, FlowRetries, BackoffEnds, DelayEnds,
       RefreshSettles, Cancel, Crash
<1>3. Told'
  <2>1. CASE PipelineEnds
    <3>1. jobStatus' = FinalStatus /\ UNCHANGED <<cfg, wf, cancelled, total>>
      BY <2>1 DEF PipelineEnds, MarkJob
    <3>2. ~cancelled => wf = cfg.workflows
      BY <2>1 DEF PipelineEnds, MoreWorkflows, TypeOK, Config
    <3> QED
      BY <3>1, <3>2 DEF FinalStatus, Told
  <2>2. CASE BrowserClosed \/ CloseFails
    BY <1>0, <2>2 DEF BrowserClosed, CloseFails, Told
  <2>3. CASE SetupFails \/ RunRejects \/ Rejected
    BY <1>0, <2>3 DEF SetupFails, RunRejects, Rejected, Told, Staged
  <2>4. CASE Start \/ PreflightPasses \/ BrowserLaunched \/ LoggedIn \/ StepBegins \/ RunReturns
             \/ Crash
    BY <2>4 DEF Start, PreflightPasses, BrowserLaunched, LoggedIn, StepBegins, RunReturns, Crash, Told
  <2>5. CASE Cancel
    <3>1. UNCHANGED <<main, error>> /\ jobStatus \in {"queued", "running"}
      BY <2>5 DEF Cancel
    <3> QED
      BY <3>1 DEF RunInv, Terminal, Told
  <2>6. CASE RefreshSettles \/ UNCHANGED vars
    BY <1>0, <2>6 DEF RefreshSettles, vars, Told
  <2>7. ASSUME NEW l \in Loops, LoopStep(l)
        PROVE  Told'
    <3>1. loop[l].pc # "idle" /\ main' = main /\ (error' = error \/ error' = "run")
      BY <2>7 DEF LoopStep, PickNone, PickSkipped, Pick, StartAccount, FlowEnds, RecordOutcome,
                  FlowRetries, BackoffEnds, DelayEnds
    <3>2. main = "running" \/ error = "run"
      BY <3>1 DEF RunInv, AllIdle
    <3> QED
      BY <3>1, <3>2 DEF Told
  <2> QED
    BY <2>1, <2>2, <2>3, <2>4, <2>5, <2>6, <2>7 DEF Next, MainStep
<1>4. Unclosed'
  <2>1. CASE CloseFails
    <3>1. UNCHANGED <<cfg, wf, cancelled, total, notices, jobStatus>> /\ main = "closing"
          /\ (error = "none" \/ error' = error)
      BY <2>1 DEF CloseFails
    <3>2. ASSUME error = "none", notices = <<"completed">>
          PROVE  wf = cfg.workflows /\ total["failed"] = 0
      <4>1. jobStatus = "completed"
        BY <3>1, <3>2 DEF NoticeInv, Live
      <4>2. wf = cfg.workflows /\ ~(total["failed"] > 0)
        BY <1>0, <3>1, <3>2, <4>1 DEF Told
      <4> QED
        BY <4>2 DEF TypeOK, Outcome
    <3> QED
      BY <1>0, <3>1, <3>2 DEF RunInv, Unclosed
  <2>2. CASE Rejected
    <3>1. Live /\ "failed" \in Terminal /\ "failed" \in JobStatus
      BY <2>2 DEF Rejected, Live, Terminal, JobStatus
    <3>2. notices' = IF notices = <<>> THEN <<"failed">> ELSE notices
      BY <2>2, <3>1, MarkJobNotice DEF Rejected
    <3>3. main = "rejected" /\ UNCHANGED <<cfg, wf, error, total>>
      BY <2>2 DEF Rejected
    <3> QED
      BY <1>0, <3>2, <3>3 DEF Unclosed
  <2>3. ASSUME NEW l \in Loops, LoopStep(l)
        PROVE  Unclosed'
    <3>1. loop[l].pc # "idle" /\ main' = main /\ (error' = error \/ error' = "run")
      BY <2>3 DEF LoopStep, PickNone, PickSkipped, Pick, StartAccount, FlowEnds, RecordOutcome,
                  FlowRetries, BackoffEnds, DelayEnds
    <3>2. error # "close"
      BY <3>1 DEF RunInv, AllIdle
    <3> QED
      BY <3>1, <3>2 DEF Unclosed
  <2>4. CASE Start \/ SetupFails
    BY <2>4 DEF Start, SetupFails, RunInv, Unclosed
  <2>5. CASE PreflightPasses \/ BrowserLaunched \/ LoggedIn \/ StepBegins \/ PipelineEnds
             \/ RunReturns \/ RunRejects \/ BrowserClosed
    BY <2>5 DEF PreflightPasses, BrowserLaunched, LoggedIn, StepBegins, PipelineEnds, RunReturns,
                RunRejects, BrowserClosed, RunInv, Unclosed
  <2>6. CASE Cancel
    BY <2>6 DEF Cancel, Micro, RunInv, Terminal, Unclosed
  <2>7. CASE RefreshSettles \/ Crash \/ UNCHANGED vars
    BY <1>0, <2>7 DEF RefreshSettles, Crash, vars, Unclosed
  <2> QED
    BY <2>1, <2>2, <2>3, <2>4, <2>5, <2>6, <2>7 DEF Next, MainStep
<1> QED
  BY <1>0, <1>1, <1>2, <1>3, <1>4

-----------------------------------------------------------------------------
(* The inductive invariant, and what follows from it.                      *)

\* The inductive invariant.
IInv ==
    /\ TypeInv
    /\ RunInv
    /\ NoticeInv
    /\ TakenInv
    /\ RecordInv
    /\ FirstInv
    /\ LateInv
    /\ CountInv
    /\ EndInv

\* The inductive invariant holds in every reachable state.
THEOREM Invariance == Spec => []IInv
<1>1. Init => IInv
  BY TypeInit, RunInit, NoticeInit, TakenInit, RecordInit, FirstInit, LateInit, CountInit
  DEF IInv
<1>2. IInv /\ [Next]_vars => IInv'
  BY TypeNext, BackoffNext, RunNext, NoticeNext, TakenNext, RecordNext, FirstNext, LateNext,
     CountNext, EndNext
  DEF IInv, TypeInv
<1> QED
  BY <1>1, <1>2, PTL DEF Spec

\* A queued or running job of a live server has a token, so that a cancellation
\* reaches its run (CancelReachable).
THEOREM CancellationReaches == Spec => []CancelReachable
<1>1. IInv => CancelReachable
  BY DEF IInv, RunInv, CancelReachable, Terminal
<1> QED
  BY <1>1, Invariance, PTL

\* No account is processed by two loops at a time (NoAccountTwice).
THEOREM AccountsExclusive == Spec => []NoAccountTwice
<1>1. IInv => NoAccountTwice
  BY DEF IInv, TakenInv
<1> QED
  BY <1>1, Invariance, PTL

\* A pipeline that was neither cancelled nor aborted has counted an outcome for every
\* account in every workflow, each account shows one, and the job failed exactly if
\* an account has (PipelineAccountsForAll).
THEOREM AllAccountedFor == Spec => []PipelineAccountsForAll
<1>1. ASSUME TypeOK, RunInv, CountInv, EndInv,
             main = "settled", error = "none", jobStatus # "cancelled"
      PROVE  /\ Counted = cfg.workflows * NAccounts
             /\ \A a \in Accounts : acct[a] \in Outcome
             /\ jobStatus = IF \E a \in Accounts : acct[a] = "failed" THEN "failed" ELSE "completed"
  <2>1. AllIdle /\ Sum /\ Covered /\ Exhausted
    BY <1>1 DEF RunInv, CountInv
  <2>2. /\ ~cancelled /\ wf = cfg.workflows
        /\ jobStatus = IF total["failed"] > 0 THEN "failed" ELSE "completed"
        /\ total["failed"] > 0 <=> \E a \in Accounts : acct[a] = "failed"
    BY <1>1 DEF EndInv
  <2>3. wf \in Nat /\ wf > 0 /\ NAccounts \in Nat
    BY <1>1, <2>2 DEF TypeOK, Config
  <2>4. cfg.loops \in Loops /\ cfg.loops <= cfg.loops
    BY <1>1 DEF TypeOK, Config, Loops
  <2>5. next = NAccounts + 1
    BY <2>1, <2>2, <2>3, <2>4 DEF Exhausted, AllIdle
  <2>6. Held = {} /\ Cardinality(Held) = 0
    <3>1. Held = {}
      BY <2>1 DEF Held, Busy, AllIdle
    <3> QED
      BY <3>1, FS_EmptySet
  <2>7. Counted = wf * NAccounts
    <3>1. Counted \in Nat /\ wf * NAccounts \in Nat
      BY <1>1, <2>3 DEF TypeOK, Counted, Outcome
    <3>2. Counted + 0 + NAccounts + 1 = wf * NAccounts + (NAccounts + 1)
      BY <2>1, <2>3, <2>5, <2>6 DEF Sum
    <3> QED
      BY <2>3, <3>1, <3>2
  <2>8. \A a \in Accounts : acct[a] \in Outcome
    BY <2>1, <2>3, <2>5 DEF Covered, Busy, AllIdle, Accounts
  <2> QED
    BY <2>2, <2>7, <2>8
<1>2. IInv => PipelineAccountsForAll
  BY <1>1 DEF IInv, TypeInv, PipelineAccountsForAll, Counted
<1> QED
  BY <1>2, Invariance, PTL

\* The job and the work item of an account agree on its outcome (OutcomesAgree).
THEOREM StoresAgree == Spec => []OutcomesAgree
<1>1. IInv => OutcomesAgree
  BY DEF IInv, RecordInv
<1> QED
  BY <1>1, Invariance, PTL

\* Webhooks are sent exactly once for a run that ends (WebhookOnce).
THEOREM WebhooksOnce == Spec => []WebhookOnce
<1>1. ASSUME NoticeInv, RunInv PROVE WebhookOnce
  <2>1. main = "settled" => notices # <<>>
    BY <1>1 DEF NoticeInv, RunInv, Live
  <2>2. CASE notices = <<>>
    <3>1. Len(<<>>) <= 1
      OBVIOUS
    <3> QED
      BY <2>1, <2>2, <3>1 DEF WebhookOnce
  <2>3. ASSUME NEW s \in Terminal, notices = <<s>>
        PROVE  WebhookOnce
    <3>1. Len(<<s>>) = 1 /\ Len(<<s>>) <= 1
      OBVIOUS
    <3> QED
      BY <2>3, <3>1 DEF WebhookOnce
  <2> QED
    BY <1>1, <2>2, <2>3 DEF NoticeInv
<1>2. IInv => WebhookOnce
  BY <1>1 DEF IInv
<1> QED
  BY <1>2, Invariance, PTL

\* A webhook told the final status, or a cancellation or a completion that gave way
\* to a failure, the completion only where the browser did not close after all
\* workflows were done without one (WebhookTellsOutcome).
THEOREM WebhooksTell == Spec => []WebhookTellsOutcome
<1>1. ASSUME NoticeInv, RunInv, EndInv, main = "settled", notices # <<jobStatus>>
      PROVE  /\ jobStatus = "failed"
             /\ \/ notices = <<"cancelled">>
                \/ /\ notices = <<"completed">> /\ error = "close"
                   /\ wf = cfg.workflows /\ total["failed"] = 0
  <2>1. Live /\ Final /\ jobStatus \in Terminal
    BY <1>1 DEF Live, Final, RunInv
  <2>2. notices = <<"completed">> \/ notices = <<"failed">> \/ notices = <<"cancelled">>
    BY <1>1, <2>1 DEF NoticeInv, Terminal
  <2>3. CASE notices = <<"cancelled">>
    BY <1>1, <2>1, <2>3 DEF NoticeInv
  <2>4. CASE notices = <<"completed">> \/ notices = <<"failed">>
    <3>1. error = "close"
      BY <1>1, <2>1, <2>4 DEF NoticeInv
    <3>2. jobStatus = "failed" /\ notices = <<"completed">>
      BY <1>1, <2>4, <3>1 DEF RunInv
    <3> QED
      BY <1>1, <3>1, <3>2 DEF EndInv
  <2> QED
    BY <2>2, <2>3, <2>4
<1>2. IInv => WebhookTellsOutcome
  BY <1>1 DEF IInv, WebhookTellsOutcome
<1> QED
  BY <1>2, Invariance, PTL

\* After a cancellation at most one more account is started per loop
\* (LateStartsBounded).
THEOREM LateStartsAreFew == Spec => []LateStartsBounded
<1>1. IInv => LateStartsBounded
  BY DEF IInv, LateInv, LateStartsBounded
<1> QED
  BY <1>1, Invariance, PTL

\* Only a cancellation can make a run over one workflow reject
\* (OneWorkflowNotAborted).
THEOREM OneWorkflowRuns == Spec => []OneWorkflowNotAborted
<1>1. ASSUME TypeOK, RunInv, FirstInv PROVE OneWorkflowNotAborted
  <2>1. main = "idle" => error = "none"
    BY <1>1 DEF RunInv
  <2>2. wf \in Nat
    BY <1>1 DEF TypeOK
  <2> QED
    BY <1>1, <2>1, <2>2 DEF FirstInv, Live, OneWorkflowNotAborted
<1>2. IInv => OneWorkflowNotAborted
  BY <1>1 DEF IInv, TypeInv
<1> QED
  BY <1>2, Invariance, PTL

\* Loops outlive their runner only in an aborted run (OrphansOnlyAfterAbort).
THEOREM OrphansExplained == Spec => []OrphansOnlyAfterAbort
<1>1. IInv => OrphansOnlyAfterAbort
  BY DEF IInv, RunInv, OrphansOnlyAfterAbort
<1> QED
  BY <1>1, Invariance, PTL

\* A failed account stays failed, whatever loop still runs (FailedAccountStops).
THEOREM FailedStops == Spec => FailedAccountStops
<1>1. ASSUME TypeOK, RecordInv, [Next]_vars, NEW a \in Accounts, acct[a] = "failed"
      PROVE  acct'[a] = "failed"
  <2>1. CASE UNCHANGED acct
    BY <1>1, <2>1
  <2>2. ASSUME NEW l \in Loops, StartAccount(l) \/ FlowEnds(l)
        PROVE  acct'[a] = "failed"
    <3>1. loop[l].acct # a
      BY <1>1, <2>2 DEF StartAccount, FlowEnds, RecordInv
    <3>2. acct'[a] = acct[a]
      BY <1>1, <2>2, <3>1 DEF StartAccount, FlowEnds, RecordOutcome, TypeOK
    <3> QED
      BY <1>1, <3>2
  <2> QED
    BY <1>1, <2>1, <2>2 DEF Next, MainStep, LoopStep, vars, Start, PreflightPasses, BrowserLaunched,
       LoggedIn, SetupFails, StepBegins, PipelineEnds, RunReturns, RunRejects, BrowserClosed,
       CloseFails,
       Rejected, PickNone, PickSkipped, Pick, FlowRetries, BackoffEnds, DelayEnds, RefreshSettles,
       Cancel, Crash
<1>2. IInv /\ [Next]_vars => \A a \in Accounts : acct[a] = "failed" => acct'[a] = "failed"
  BY <1>1 DEF IInv, TypeInv
<1>3. IInv /\ [Next]_vars => [\A a \in Accounts : acct[a] = "failed" => acct'[a] = "failed"]_vars
  BY <1>2
<1> QED
  BY <1>3, Invariance, PTL DEF Spec, FailedAccountStops
=============================================================================

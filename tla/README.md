# Formal models of the Zoom automation server

This directory holds TLA+ models of the program in `src/`, the TLC
configurations that model-check them on small instances, and theorems about
them that TLAPS checks for every value of their constants.

Paths in this document are relative to the repository, `jobRunner.ts:38` being
line 38 of a file that the inventory names in full. Run from this directory:

    tlasany M.tla                             parse a module
    tlc -workers 2 -config X.cfg M            model-check a configuration
    tlapm P.tla                               check the proofs of a module

`PROJECT.json` lists, for every definition, the lines it models; for every
property, a mutation of the code that the property catches; the hazards of the
code; and the theorems.

## 1. The system

The program applies a browser workflow (a business address form, or a workflow
recorded with the extension) to many Zoom sub-accounts. It runs as a command
line program, as a web server with a job queue, or, in part, as separate worker
processes. A browser extension records workflows and executes debug commands
the server hands out.

| Part | Source (under `src/`) | State | Operations |
|---|---|---|---|
| Work item queue | `src/server/queues/` | one JSON file per item, loaded into a map at start | create, claim, mark running / succeeded / skipped / failed / cancelled, release expired leases, requeue |
| Job run | `src/server/services/jobRunner.ts`, `src/automation/runner.ts`, `retry.ts` | cancellation tokens, shared account index, totals, browser | start a job, run each workflow over all accounts, retry, refresh the session, record outcomes, cancel |
| Web server | `src/server/app.ts`, `src/server/services/jobEvents.ts` | none of its own beyond subscriptions | job creation, cancel, retry, query, schedules, webhooks |
| Job store | `src/server/services/fileJobStore.ts`, `inMemoryJobStore.ts` | one JSON file per job and a bounded cache | create, get, list, mark job, mark account, log |
| Command line run | `src/main.ts`, `src/automation/progressStore.ts` | `output/progress.json` | should-skip, mark running / completed / skipped / failed |
| Worker processes | `src/worker/index.ts`, `src/server/workers/` | private copies of the items and of the worker registry file | register, heartbeat, mark stale workers offline, claim |
| Zoom client | `src/zoom/oauth.ts`, `rateLimiter.ts`, `masterSession.ts`, `sessionHealth.ts` | access token, token bucket, stored session | get token, acquire, refresh |
| Browser flows | `src/zoom/*Flow.ts`, `impersonation.ts`, `auth.ts`, `src/workflows/recorded/*/flow.ts` | the page, and what an attempt remembers of it | open, look, click, fill, choose, tick rows, assert, save |
| Scheduler, webhooks | `src/server/services/scheduler.ts`, `webhooks.ts`, `app.ts:55-202, 577-594` | schedules file, minutes fired, subscriptions | tick, trigger, deliver |
| Workflow governance | `src/server/governance/workflowLifecycle.ts`, `src/server/routes/workflowRoutes.ts`, `workflowRegistry.ts` | lifecycle record and compiled files per workflow | promote, check, import, save, duplicate |
| Recorder debug store | `src/server/services/recorderDebugStore.ts` | commands and their results | enqueue, next, result |
| Extension | `extension/background/`, `extension/content/`, `extension/shared/` | recording state, draft, running test, debouncer of the page | record, describe an element, pause, stop, poll, replay a step, run test |
| Workflow core, compiler | `packages/workflow-core/src/`, `src/compiler/` | none (pure) | harden, score selectors, translate |
| Read models and small stores | `src/server/routes/operationsRoutes.ts`, `src/server/audit/`, ... | files | append, query |
| User interfaces | `src/ui/`, `extension/sidepanel/`, `extension/popup/` | presentation | |

How they interact. A request to create a job writes a job to the job store,
starts `runAutomationJob` without waiting for it and subscribes a watcher that
sends webhooks on the first terminal status. The run creates the work items of
the job and works through the accounts; every account is recorded in the job
store and in the work item store by one progress adapter. The cancel route sets
the token of the run, cancels the items and marks the job, while the run goes
on. The command line program uses the same runner with the progress file as its
adapter. Worker processes claim from the same directory of work items as the
server writes to, each through its own copy loaded at start.

A workflow goes through the repository like this: the recorder in the page
describes each element it sees acted on by several selectors; the service worker
of the extension keeps the steps; the compiler writes a `flow.ts` from them; the
server imports it, and a job runs it on accounts if its lifecycle allows. The
seven flows in the repository come from three generations of the compiler, and
each has its own copy of the helpers that find elements and act on them; the
extension replays steps by helpers of its own.

What is hard. The server is one JavaScript event loop: handlers interleave at
every `await`, so a cancellation, a second loop or a timer acts between a check
and the use of its result. The command line program interleaves file operations
of its own loops on one file. Processes share files with no lock. All of them
can be killed between two writes. Leases and retry delays run against a clock.
The service worker of the extension is stopped by the browser when it likes, and
its handlers interleave at their awaits. A page is redrawn between the look that
finds an element and the click on it; Zoom accepts an order at a click and
carries it out later, or in part.

What makes each part correct:

- queue: attempts bounded, a claim never takes what somebody holds, finished
  work stays finished, an expired lease comes free;
- job run: no account processed twice at a time, outcomes complete and equal in
  both stores, the final status true, a cancellation effective, webhooks sent
  once and truthful, the run ends;
- job store: callers cannot tell it from a map, whatever the cache does;
- progress file: readable after a kill, completed accounts not done again, none
  skipped that was not done, the run ends;
- worker processes: an item is assigned to one worker, a live worker is online;
- Zoom client: one token refresh at a time, no request before a backoff is over;
- scheduler and webhooks: a schedule fires once per matching minute, a delivery
  is retried a bounded number of times;
- governance: a live run is of a workflow that was approved when the job was made;
- browser flows: an account is never given more than it should have, what an
  account is reported as is what was done, a dry run changes nothing, a step acts
  on the element it was recorded on;
- extension: every recorded action is in the workflow, a debug command is carried
  out once, one test runs at a time, what was recorded as found is found again.

## 2. The plan

Done, in this order:

1. `WorkItemQueue` (with `WorkItemStatus`, `WorkItems`), checked and proved;
2. `JobRun`, the core: job runner, account runner, adapter, cancel route and
   watcher composed, checked and proved;
3. `JobStore` (abstract) and `FileJobStore` (detailed), the refinement checked
   and proved;
4. `ProgressFile`, checked and proved;
5. `WorkerFleet`, which composes the transitions of `WorkItems` with the worker
   program, the lease service, the registry and the heartbeat, checked and
   proved, and shown to implement `WorkItemQueue` as long as processes do not
   overlap;
6. `ScheduledRuns`, which composes `Governance` and `ZoomAccounts` with the ways
   jobs are made, the scheduler and webhook delivery, checked and proved;
7. `RecorderSession` and `RecorderDebug`, the second composing the first with the
   debug bridge, checked and proved;
8. `RecordedFlow` with the tables of `Workflows`, checked and proved;
9. `RecordedStep` with `ElementSearch`, `SelectorCapture` and `Runners`, and
   `RecordedPage` on top of it, checked and proved.

Left: disks that fail; the hardener of workflow core as operators.

## 3. The modules

### WorkItemStatus, WorkItems, WorkItemQueue

`WorkItems` translates the state machine (`workItemStateMachine.ts`): each
transition is the record the code returns, and `WorkItemStatus` has the sets of
statuses each accepts. `WorkItemQueue` is one instance of the store
(`fileWorkItemStore.ts`): `items` is its map (and directory, written through in
the same synchronous step), `now` the clock the callers pass. One action per
operation; `ClaimNext` includes the `releaseExpiredLeases` it begins with, the
filter and the sort. Two items with equal sort keys may come in either order,
because after a restart the map has the order of random file names. Callers are
free: any worker may report any item, as neither store nor lease service
compares the caller with the worker on record. Messages, history, artifacts and
failure categories are left out.

### JobRun

One job from its request to its end. `main` is where `runAutomationJob` is,
`loop` the processing loops of the runner with the account, the attempt and the
point each is at, `next` the index they share, `acct` and `item` the two stores'
records of each account, `token` the entry in `activeJobCancellations`,
`cancelled` its flag, `watching` and `notices` the webhook watcher, `total` the
counters the final status is computed from.

An action is what the event loop does between two awaited I/O operations.
Promise continuations run before the next I/O completion, timer or request is
served: the predicate `Micro` says that one is ready, and every action that
stands for I/O, a timer or a request has `~Micro` in its guard. The request
itself, from `createJob` to the first real suspension of the run, is `Start`.
A flow is the time from `StartAccount` to `FlowEnds` and has an outcome, or
throws an error that is retryable (`FlowRetries`, `BackoffEnds`) or not.

`RecordOutcome` carries the detail that matters most: the adapter records an
outcome in the work item first, whose transition throws if the item was finished
otherwise meanwhile (cancelled, or finished by an earlier workflow of the
pipeline); the runner then tries to record a failure, which is refused too, and
the loop rejects. `Promise.all` rejects with it, the run is marked failed and
the other loops go on as orphans of a run that is over.

The browser is closed in a `finally`, after the final status was set and told
(`BrowserClosed`); a close that fails (`CloseFails`) rejects the run all the same,
and the job is marked failed. `Crash` may strike between the two writes of a step
(`ItemsAtCrash`). Nothing resumes a job after a crash. History variable: `lateStarts`.

Left out: what a flow does, log lines, events other than the one the watcher
uses, what a dry run does differently within a flow, the summary of a job.

### JobStore and FileJobStore

`JobStore` is the store as a caller of the server sees it: a map of jobs, and
`reply`, what the last call returned, a sequence of jobs or an error. A list has
the newest job first (`NewestFirst`; jobs of one instant in any order), as the file
store sorts it and `tests/fileJobStore.test.ts:90-112` expects. The in-memory store
of the tests has the same operations but lists jobs in the order of their creation
(`inMemoryJobStore.ts:107-109`): callers can tell the two apart by that, and it is
the file store that is shown to implement `JobStore`. `FileJobStore` has the files
(`disk`), the bounded `cache` and the same `reply`. `AfterLookup` is the look-up
of `getMutableJob` and `getJob`, which reads a file into the cache and cuts the
cache, the job just read included; `UpdateInPlace` is the change of the object
found, which the cache may no longer have. A file is replaced by a rename, so a
crash and the following start are one step, `Restart`. Writes succeed.

`ImplementsJobStore` is `Abstract!Spec`, with `jobs <- disk`: the refinement
mapping takes the files for the map.

### ProgressFile

The command line run (`main.ts`, `runner.ts`) over `progressStore.ts`, file
operation by file operation: `file` and `tmp` are the progress file and its
temporary file, `loop` the loops with the snapshot each has loaded and what it
has open. `Load` reads and patches, `Open` truncates the temporary file, `Write`
fills it, `Rename` puts it in place; other loops act between any two. A file
that is renamed while another loop has it open goes on being written under its
new name (`Moved`), and two snapshots written over each other may leave a file
that is no JSON (`Garbled`). `Shutdown` is the signal handler, `Kill` a kill,
`Rerun` the next run over the same file. History variables: `kills`, `done`,
`recorded`. Retries and session refreshes leave the file alone and belong to the
flow.

### WorkerFleet

The server and the worker processes over the files they share. `disk` and
`regFile` are the item files and the registry file, `copy[p]` and `reg[w]` what
each process has in memory: it reads the files when it starts (`StartServer`,
`StartWorker`) and never again. Every persist writes whole records, the registry
as a whole. `ClaimItem` and `ClaimNothing` are `claimOnce` of the worker program
with all it calls: the check that the worker is available, the heartbeat, the
release of expired leases, the lease and the busy mark; `DiesReleasing` and
`DiesClaiming` end the process between those writes. A worker process never
reports on an item, so the reports are those of the job runner in the server.
History variables: `overlapped` (two processes have run at a time) and `claims`.
`Life(i)` is `WorkItemQueue` with one job and one account, whose store is the file
of item `i`: `ItemsAreQueued` says that without overlap every step is one of its
operations, so that the processes, one after the other, are one store to the item.
Left out: labels and registration times, the server's own copy of the registry,
which it only displays, the temporary files, and the order in which two
processes touch the files of different items.

### Governance, ZoomAccounts, ScheduledRuns

How jobs come about on the server and who is told of their end.

`Governance` has the record of a workflow's lifecycle (`status`), the version of
its files (`content`) and the compilations so far (`edits`): transitions,
import, save and duplication, and the two gates that decide whether a workflow
may run live.

`ZoomAccounts` has the queries for sub accounts: `fresh` (the cached token),
`refreshes` in flight, `shared` (`refreshPromise`), each `query` with its page,
attempt and the refresh it waits for, and `micro`, the continuations to run
before the event loop takes anything else. A query is `Ask`ed, waits for the
token, lists page after page, backs off and tries again.

`ScheduledRuns` extends both. `clock` counts half minutes, as a timer of a minute
that is a little late looks at a different half each time; `fired` is the
scheduler's guard, `schedules` its store, `asks` what a query in progress is for
(a job by hand, a schedule's run), `jobs` the jobs with their source, their
accounts, the number of their workflows (`steps`) and their last told status, `hooks` and `deliveries` the webhooks. The
tick, the patches of schedules, manual runs, the three ways to make a job with
the gate each passes, cancellation, the retry route, delivery with its retries,
restarts and a clock set back are actions. The body of a patch is spread over the
schedule unfiltered, so it may bring a last status of its own (`Patch`, `Updated`);
a schedule remembers that in `patched`. What `JobRun` has of a job in detail is
an account at a time here: a job whose run was rejected keeps the accounts its
other loops go on to take (`JobFails`); a cancelled one those that loops past
their look at the cancellation still take, any of them (`CancelJob`). History:
`before`, `twice`, `restarted`, `setBack`, `refused`. Left out: day and month fields of a cron expression, which a few
minutes cannot tell from `*`, the signing of deliveries, and the routes that
only read.

### RecorderSession, RecorderDebug

`RecorderSession` has the extension. The service worker's memory is `recording`,
`paused`, `steps`, `tab`; `tasks` are its handlers in progress, each at the await
it is in, with the list of steps it had read before it; `draft`, `lastSteps` and
`enabled` are in the browser's storage, `page` is the recorder in the page with
its debouncer, `mail` what it has sent, `running` and `loops` the test runner.
Starting, stopping, pausing, clearing, importing, restoring, switching off,
capturing an action with its screenshot, keys, navigation and tests are actions,
one per stretch between two awaits; `Restart` of the worker loses its memory and
its handlers, and comes up from the draft. A step is the number of the user's input.
Inputs may be duplicates of each other (`Twins`), as `areSameNavigationDestination`
and `areSameFillTargetAndValue` see them, any relation at all; `Near` has those
that are also within the code's windows of 1.5 and 5 seconds. An insertion asks for
`Near`, the preparation of a workflow for `Twins` with the last step kept.
A fill that waits in the page when a pause begins is sent only then, and the worker
drops it, being paused (`PagePauses`, `ActionDropped`): it is not `accepted`, which
counts what the worker took. History: `accepted`, `mixed` (a handler assigned a
list that another had changed meanwhile) and `overtaken`.

`RecorderDebug` extends it with the server's store of debug commands and the
extension's polls: `commands`, `polls`, the flag `polling`, and `runs`, how often
each command was carried out. `DebugSpec` is the composition: a command carries
out the operation of the session that the panel would have asked for.
`RELOAD_EXTENSION` leaves a timer behind that reloads the extension
(`ExtensionReloads`): the draft is in the session's storage and goes, the
recording ends, the last workflow in local storage stays. Left out:
network capture, upload, debug sessions and snapshots.

### RecordedFlow, Workflows

A flow on one account, with the attempts the runner gives it. `Workflows` has
every flow as a table of steps: whether the step clicks the button that orders,
what holds it back in a dry run, where its assertion stands (inside the repeated
part or after it), what it looks for first, and how often it is repeated. The
account is `before`, `have` and `ordered`; the flow is at step `at` with `pc` at
the opening, the check, the act or the assertion; `need` is what the look at the
account found missing, `held` that a dry run left a step out, `result` what the
runner records. Zoom takes an order at the click and carries it out later, in
part or not at all (`CarriedOut`), and takes one order in one pass through a wizard:
a repeated click on the same button does not order again. A look may miss
something, which is what `sure` remembers.

### ElementSearch, SelectorCapture, Runners, RecordedStep, RecordedPage

How a step finds its element. `ElementSearch` has the searches, as ways to look
(a kind of selector, in the anchor's box or not, which of the matches) on a page
of a few items: the plain loop of older flows, the one with the label of a form,
the ranking of candidates by score and resolver, and the queries of the replay.
`SelectorCapture` has what the recorder writes down: from a small document it
derives kinds of selector, anchor, number and candidates, and whether each finds
the element when it is recorded. What the recorder's own search in the document
takes for an answer (`Matched`: lists of tags and classes for a role, `<label>`s
before `aria-label`s, both attributes of a test id) and what answers to the
locators of a flow (`Answers`: the roles, names and labels of the browser, the
one attribute, the innermost of a text) are two operators over the same document.
A test id may be that of a container up to three elements up (`TestId`), and the
recorder takes what contains the element, or is in it, for the element
(`SameControl`). `Runners` tells the eleven ways the repository
carries out a step apart, by what each does where they differ.

`RecordedStep` carries out one step (a click, a fill or the like, a choice, the
ticking of rows) by one runner on a page that is redrawn between any two looks.
`search` is the list of stages of its search, `stage`, `k`, `tries`, `clicks` its
place in it; `drawn`, `on` and `value` are what the page shows; `told` and `row`
what the step has counted, `spot` where a trusted click aims. A click looks its
element up again, and may go through and be reported as failed, or fail and reach
nothing. A select is native, and chosen by label or value (`SelectNative`), or has a
popup. There a flow tries the candidates recorded of the option before its text, or
after it (`recalls`, `NextRecalled`), each for the first option that answers,
whatever it reads. A condition passes over the step or the account
(`SkipStep`, `SkipAccount`), as step and guard say. History: `acted`,
`steady` (the first choice of the search, as long as it means the same element),
`sure` (nothing slipped between a look and its click).

`RecordedPage` is about steps that meet the page they were recorded on: the scene of
such a step names the document and the element it was recorded from
(`RecordedFrom`), its recording is what `SelectorCapture` makes of them, and its page
answers as the document does.

## 4. The runs

| Run | Configuration | States | What it shows |
|---|---|---|---|
| `queue` | `MCWorkItemQueue.cfg` | 49,677 | attempts stay bounded (`AttemptsBounded`); a claim takes neither a leased item nor one whose delay runs (`ClaimsOnlyFreeItems`); finished work is not done again (`FinishedStaysFinished`); an expired lease is taken away (`LeaseReclaimed`) |
| `jobrun` | `MCJobRun.cfg` | 446,068 | see below |
| `jobrun_cancel` | `MCJobRunCancel.cfg` | | violated: a cancelled job ends as failed |
| `jobstore` | `MCFileJobStore.cfg` | 6,350 | the file store implements the map that lists the newest job first (`ImplementsJobStore`) |
| `progress` | `MCProgressFile.cfg` | 581,848 | no account is skipped that was not done, and every run ends, whatever the loops do to each other's writes; a sequential run leaves a readable file wherever it is killed, keeps its records and does at most one account again per kill |
| `progress_parallel` | `MCProgressFileParallel.cfg` | | violated: with two loops a recorded completion is overwritten and the account done again |
| `fleet` | `MCWorkerFleet.cfg` | 1,765,124 | processes that do not overlap are one queue to an item, wherever one died, and the attempts on file count every claim; overlapping ones may each use up all attempts; a running worker never takes itself for offline |
| `schedule` | `MCScheduledRuns.cfg` | 3,079,662 | see below |
| `recorder` | `MCRecorderSession.cfg` | 1,872,610 | see below |
| `flow` | `MCRecordedFlow.cfg` | 72,369 | every flow, live and dry: an account never gets more than the target (`TopUpBounded`) and is reported truly (`ResultTold`) |
| `flow_dryrun` | `MCRecordedFlowDryRun.cfg` | | violated: a dry run of the Sydney flow orders the numbers |
| `step` | `MCRecordedStep.cfg` | 1,619,877 | see below |

`jobrun` checks: no account is in two loops (`NoAccountTwice`); a pipeline that
was neither cancelled nor aborted has counted an outcome for each account in each
workflow and reports the right status (`PipelineAccountsForAll`); the stores agree
on outcomes (`OutcomesAgree`); a failed account is left alone by later workflows
(`FailedAccountStops`); each loop starts at most one account after a cancellation
(`LateStartsBounded`); a webhook tells the truth, but for two cases in which the
job is failed in the end (`WebhookTellsOutcome`: it was cancelled and then aborted
or its browser did not close, or it was completed and its browser did not close); only a cancellation can abort a run over one workflow
(`OneWorkflowNotAborted`); and everything ends (`JobEnds`).

`schedule` checks: one token refresh at a time, and nobody waits for one that is
over, although every waiter clears the shared promise (`SingleRefresh`); a
schedule fires once a minute unless the clock was set back and the guard has
forgotten, by a restart or since it was full and cleared (`FiresOncePerMinute`); the
last status of a schedule is that of one of its runs, unless a request wrote another
since (`LastStatusIsOfARun`); a delivery has a bounded number of attempts and one line in the log (`DeliveryBounded`); a live job was allowed when
it was made, whatever happened while its accounts were fetched
(`LiveRunsGated`); and an account that failed in a job is never worked on by the job
and its retry at a time, although loops of the job may go on after it failed or was
cancelled, and later steps begin (`RetryDisjoint`).

`recorder` checks: a worker that was terminated finds the recording as it was, but
for three escapes that the property names (`RecordingSurvives`); inputs the worker
took are recorded, or a twin of theirs is, unless a handler assigned a list it had
read before another changed it (`SpacedInputsKept`); a debug command is carried out once at most
and an answer belongs to one that was (`CommandOnce`); the flags that keep a
second test and a second poll out always have an owner who takes them back
(`FlagsHaveOwners`).

`step` checks: a flow never acts outside a row with the anchor's text
(`ActsOnTheAnchored`); as long as the first choice of a search is shown and means
the same element, no other is acted on, nor the search given up
(`FirstChoiceWins`); a toggle is left as recorded (`ToggleAsRecorded`); the exact
option is taken before a longer one, by runners that look for the exact text before
others, unless a candidate recorded of the option answers to another
(`ExactOptionWins`); the rows a step tells of are ticked (`RowsTold`); and an
element that the recorder's best candidate finds alone is what the compiled flow
acts on, on the page it was recorded on (`RecordedIsReached`), or a container of it
whose test id was recorded. Alone means without hidden matches too, of which the
flow would take the first, and a checkbox in a row is left out, which the flow looks
for by its row and not by the candidate (`Vouched`). The browser must read the
selector as the recorder did (`Agreed`): it does not for a test id in
`data-test-id`, for a role that an element has by a class, or by its tag where the
recorder's list has none for it, and for a label of several elements. The run has
documents for each of these, and finds the property violated without the
conditions.

Conditions in these properties name what the code does not promise: a look that
missed something, a click that came through after the page had changed, a
number applied twice by the ranked search, a row clicked by the condition of its
step, two handlers over one list.

### Findings

- `jobrun_cancel`: the comment at the end of `runAutomationJob` says "Respect a
  cancellation requested mid-run: don't overwrite cancelled with
  completed/failed." A flow under way when the job is cancelled ends with an
  outcome its cancelled item refuses; the run rejects and is marked `failed`.
- `progress_parallel`: `README.md` says that completed accounts are skipped on
  later runs. With `CONCURRENCY` above 1, loops overwrite each other's records.
- `flow_dryrun`: `packages/workflow-core/src/types.ts` says a dry run validates the
  flow without making changes. The click on "Done" that orders the Sydney numbers
  is in no list of mutating labels and is not held back.

### Bounds, and why they are enough

- `queue`: two items of one job, one worker id, a clock of two ticks with a
  lease and a delay of one, `maxAttempts` of 0 (raised to 1) and 2. Items are
  independent but for the order of claims, which two items show. Two worker ids
  add nothing, since no operation compares them; the theorems hold for any set.
  Two attempts are the least that have a retry and a last attempt. Two ticks let
  a lease run out, be taken again and run out once more.
- `jobrun`: three accounts for at most two loops, so that a loop can take a
  further account while the other holds one, two workflows, two attempts, with
  and without a delay between accounts, live or dry (a live run checks the
  document first). Two workflows are the least for which an item meets a second
  outcome. The violation run needs no more than two accounts, one workflow, one
  loop and one attempt.
- `jobstore`: three jobs for a cache of two, one account, two statuses, two
  creation times. Jobs differ only in their creation time, hence the symmetry;
  the run has no liveness property. With a cache of two a look-up can push out
  the other job or the one just read.
- `progress`: two accounts, one loop or two, two runs. Two loops are the least
  for a race, and the second run reads what the first one left. `kills` is
  bounded by the number of runs.
- `fleet`: a server and two workers, three starts of worker processes, so that
  one comes back after its end while the other runs; one item, with two attempts,
  as items meet in nothing but the order of the claims; two ticks, so that a
  lease runs out and a worker goes stale. The workers are symmetric, and the run
  has no liveness property.
- `schedule`: the run has two shares (`MCNext`). In the first, jobs have one workflow
  and one account, and there are one schedule and webhook, as none meets another of its
  kind; two jobs, so that a second run of a schedule overlaps; two queries, which share a refresh, two pages, two attempts; four
  half minutes around the end of an hour, with an expression that matches each; three requests or faults,
  counted together, which is enough for a clock set back, a restart
  and a job. The clock is set back by one minute, once. The guard is cleared at one
  entry instead of at 500: a second minute then finds it full, which 500 entries
  would keep out of the run's reach. The theorem holds for any limit.
  In the second share nothing goes on but dry jobs made by hand and their retries:
  over two accounts, one that failed and one that is in work or that a loop may still
  take; of up to two steps; with five requests or faults, enough for a failure, a
  cancellation and an outcome that is not booked around the retry.
- `recorder`: three inputs, of which two are twins and close, and one is distinct
  from both, so that inputs can be overtaken, be duplicates, or be lost; one
  restart, one debug command, two polls, which are symmetric; four events in all.
  Each kind of handler is in progress once, captures as often as there are
  inputs.
- `flow`: every flow of the repository, the built-in ones too, with its own target
  (four numbers, or one of anything else), an account with nothing up to one more
  than that, three attempts.
- `step`: pages of three items with up to three changes, drawn from those where a
  step is easily misled (`MCScenes`), with a step that has no selector but its path,
  and rows under a condition that clicks among them: an item more, a change more add no
  new order of look, change and click within one try and its repetition.
  Recordings are taken from documents of three elements out of eleven kinds, some in
  others (a button in containers with and without a test id, an icon in a button), in
  four placements and two depths, two of them alike unless one contains another that
  contains a third; and replayed on the unchanged page.

Deadlock is checked in `queue`, `jobstore`, `fleet` and `step`. It is not checked
in the others, where a run, a flow or a session is meant to come to an end, or
where the bound on events stops it.

### Fairness

- `WorkItemQueue!FairSpec`: the clock advances and some worker keeps polling, as
  a worker process does with `setInterval`. `LeaseReclaimed` is about leases that
  run out within the horizon of the clock.
- `JobRun!FairSpec`: promise continuations run, timers fire, and awaited browser
  operations end, each having a timeout. Weak fairness on the main function, on
  each loop and on the refresh; none on cancelling or crashing.
- `ProgressFile!FairSpec`: weak fairness on each loop: file operations complete
  and flows end. None on shutting down, killing or running again.

The other specifications state no fairness and their runs check safety only: a
receiver, a page, a user and the browser that stops a service worker owe nothing.

## 5. The proofs

| Module | Theorems | Inductive invariant |
|---|---|---|
| `StoreProofs` | `ItemsTyped`, `BoundedAttempts`, `ClaimableItems`, `LeasesOnRecord`, `ClaimsAreFree`, `FinishedIsFinal` (of `WorkItemQueue`) | `ItemsInv`: `ItemInv` of every item |
| | `CacheIsTrue`, `CacheIsBounded`, `Refinement` (of `FileJobStore`) | `CacheInv`: the cache equals the disk, holds jobs of the store, and is bounded |
| `JobRunProofs` | `TypeCorrect`, `CancellationReaches`, `AccountsExclusive`, `StoresAgree`, `WebhooksOnce`, `WebhooksTell`, `LateStartsAreFew`, `OneWorkflowRuns`, `OrphansExplained`, `FailedStops`, `AllAccountedFor` | `IInv`: type, run, notices, taken, records, first workflow, late starts, counts, end |
| `ProgressFileProofs` | `TypeCorrect`, `SkipsAreEarned`, `FileStaysReadable`, `RecordsStay`, `OutcomesOnFile`, `KillsCostOneEach` | `HonestInv` for any number of loops, `SequentialInv` and `RedoneInv` for one |
| `WorkerFleetProofs` | `TypeCorrect`, `NeverRefused`, `HandedOver`, `EveryClaimCounts`, `FilesAreQueues`, `ImplementsQueues` | `TypeInv` (types and the workers' own records), `AloneInv`, `ClaimsInv` |
| `ScheduledRunsProofs` | `OneRefreshAtATime`, `RetriesAreDisjoint`, `LiveRunsAreGated`, `DeliveriesAreBounded`, `MinutesAreFiredOnce`, `SchedulesShowTheirRuns` | `ZoomInv`, `JobsInv`, `DeliveriesInv`, `ClockInv`, `SourcesInv` |
| `RecorderDebugProofs` | `TypeCorrect`, `CommandsCarriedOutOnce`, `FlagsAreOwned`, `RecordingsSurvive`, `InputsAreKept` | `BridgeInv`, `TestOwned`, `PollOwned`, `KeepInv` |
| `RecordedFlowProofs` | `TypeCorrect`, `NeverMoreThanTarget`, `ResultsAreTrue` | `IInv`: type, `Told`, `NeedIsTrue` and the bound itself |
| `RecordedStepProofs` | `TypeCorrect`, `FlowsStayInTheRow`, `TogglesAreLeft`, `ExactOptionIsChosen`, `RowsAreTold`, `FirstChoiceIsTaken`, `RecordedElementIsReached` (of `RecordedPage`) | `TypeInv` (types and `PlaceInv`), `ToggleInv`, `OptionInv`, `RowsInv`, `FirstInv`, `ReachedInv` |

The assumptions are the named ASSUMEs of the modules: positive bounds, distinct
model values, for `FileJobStore` a finite set of job ids and integer times, for
`RecordedFlow` what the tables of steps have in common, and for `RecordedStep` what
runners and recordings do: only the extension clicks to find out whether something
is visible, or holds the rows it has read, and it looks at no ARIA state (`RunnersAssumption`,
`replayConditions.ts`, `replayRunner.ts`); the candidates of a step carry the
anchor of the step, and the built-in flow has no anchors (`ScenesAssumption`,
`recorder.ts:548-561`, `candidates.ts`). `RecordedPage` adds that a step which
says what element is meant was recorded from its page as `SelectorCapture` has it
(`RecordingsAssumption`), for any document. TLC evaluates them in the runs. Some
theorems (`ClaimableItems`, `LeasesOnRecord`, `HandedOver`, `CancellationReaches`,
`WebhooksOnce`, `OrphansExplained`, `CacheIsTrue`, `CacheIsBounded`, and the
types) are about invariants that no run checks any more, being proved.

*Queue.* `AttemptsBounded` is not inductive: a claim adds an attempt, so an item
that can be claimed must have one left. That is `ClaimableHasAttempt`, which
needs in turn that the local runner, which starts an item without claiming it,
leaves the count alone. `ItemInv` also says when a retry time is on record,
which the action property `ClaimsOnlyFreeItems` rests on. One lemma per
transition shows that it keeps `ItemInv`; an action of the store then changes
items by transitions only.

*Job run.* `RunInv` ties the stage of the run to token, error and loops;
`NoticeInv` says how many notices there are while the watcher is subscribed and
after it, and that the job shows what was told unless the browser did not close
(`error = "close"`); `TakenInv`, that the accounts in work are different and below the
shared index, which gives `NoAccountTwice`; `RecordInv`, that an account with an
outcome has an item with the same outcome, for which an account in work must not
have failed before; `FirstInv`, how far items can have got in a run of one
workflow that nobody cancelled, so that no transition is refused; `LateInv`,
that late starts and the loops that can still add one are at most as many as the
loops, a count over a finite set. `CountInv`: outcomes counted and accounts held by
loops are together the accounts taken so far, an account taken has an outcome or a
loop, and unless cancelled a loop ends only when no account is left; `EndInv` ties
the counted failures to the accounts and says what the final status is, and of a
completion told before a failing close, that it was one. The last two
give `PipelineAccountsForAll`. Each is kept by every action, given the ones before
it.

*File job store.* Every operation maps to the operation of the same name of
`JobStore`, and a restart to a stutter. What makes it work is that the object a
look-up finds equals the file (`LookupFindsDisk`), whether it was cached, or read
and pushed out again.

*Progress file.* `HonestInv`: a good mark in the file, the temporary file or a
loaded snapshot belongs to an account for which a flow has ended well; it holds
through every interleaving, since no operation invents a mark. `SeqInv` describes
the single loop of a sequential run at each of its stages: what it has loaded,
what the temporary file contains, what must be in the file for every account it
has passed. `RedoneInv` counts: the flows that have ended well, a set of pairs of
account and number, are at most the accounts on record, one more while a flow that
ended waits for its record, and one for each kill. A flow ends for an account that
is not on record, recording it gives the one back, and a kill pays for the
one it cuts off.

*Worker fleet.* Types depend on a worker having a record of its own, since a
heartbeat of an unregistered worker has no type: `TypeInv` has both.
`MarkStaleSpares` is why a worker survives its own check for stale workers: it
has just recorded a heartbeat. `AloneInv` says that without overlap at most one
process runs and its memory is what the files have (`HandedOver`). Then what it makes of
an item in memory it makes of the file: a claim is `ClaimNext` of the claimed item's
queue and `ReleaseExpiredLeases` of every other, a worker that dies releasing has released
some items and left others at rest, and so on (`StepQueued`); the two theorems of
refinement follow. Queues are per item, since a worker that dies in the middle of a
claim leaves the files of several items as no single operation would. `ClaimsInv` follows from it that
a claim counts on from what is on file. With overlap the bound on claims needs a
count of what is still to spend: a running worker may claim an item as often as its
copy has attempts left (`Spares`, a finite set), a claim takes one of these away, and
a start, which raises the bound by the maximum, adds no more than that.

*Scheduled runs.* `ZoomInv`: the only refresh in flight is the shared one, whoever
waits for one waits for it or goes on at once, and while waiters go on nothing is
in flight, so that the promise each of them clears is the one that has settled.
`JobsInv`: jobs keep their accounts, a failed account stays failed, and a retry
was made from failed accounts of its job, whence the two are disjoint while they
run; that only the gate makes jobs gives `LiveRunsGated`. `DeliveriesInv` says at
each point of a delivery how often the receiver can have had it. `ClockInv`: unless
the clock was set back, every minute fired for is over when the next tick comes; and
the guard knows all of them unless it was restarted or cleared, so that a second
firing takes both. `SourcesInv`: a query or a job was made for a schedule that was
created, and no schedule is created twice, so that its status cannot be that of
jobs of a predecessor; a status that a request wrote into it is the exception the
property states.

*Recorder debug.* `BridgeInv`: a poll about to carry a command out has its lease
and is the only one, and a command that ran was leased. `TestOwned` and
`PollOwned` follow the two flags through every action that touches them; all
other actions of the session leave the runner alone. `KeepInv` is about the
recording, its draft and its inputs: unless lists were mixed, a handler in progress
holds the list as it is (`StaleInv`, `RestoreInv`); nobody is about to remove the
draft of a recording, and it is the recording's state but for handlers that will save
it (`DraftInv`); an input taken is recorded, a twin of a recorded one, or awaits its
picture (`KeptInv`), and a recorded one is in the draft or awaits its picture
(`StoredInv`). The steps of the session fall into a few kinds (quiet, saving,
ending, removing the draft), with a lemma for each. `Twins` is any relation, and need
not be transitive: a step may be a twin of one that has itself given way to a twin,
so that what stands for an input does so along a chain of twins (`Alike`, the
smallest transitive relation with them). A step that a preparation leaves out was
a twin of the one kept before it, which prolongs the chain (`PreparedCovers`).

*Recorded flow.* That an account never gets more than the target needs that what a
sure look found missing is still missing at the click (`NeedIsTrue`), for which
in turn the click must come once and after the check: an assumption on the
tables, `StepsAssumption`, which TLC evaluates for all flows. `Told` says
what `clicked` and `held` mean at each place of the flow.

*Recorded step.* The searches are sequences built from a recording, so the first
lemmas are about operators: which ways a list consists of (`WaysOf`, `HealingOf`,
`ReplayOf`, `PlanOf`), that a ranking lists candidates and leaves no rank empty
(`RankedOf`, `RankExists`), that in a flow every way of an anchored step keeps to the anchor's box
(`SearchOf`), and that what such a way finds is in one (`LocatedIn`, `QueriedIn`, `FoundIn`); from these
`FlowsStayInTheRow`. `PlaceInv` says what a place in the step implies for its kind.
`ToggleInv`: while nothing has slipped, whatever was clicked is as recorded, and at a
click the element found is not, so that the click sets it right; that the
repetition after a click reported as failed looks again is what keeps the second
click away. `OptionInv`: while the step chooses, the exact option stays the one it was, and a
runner that looks for it first among the texts has it once it has chosen, unless a
recorded candidate answers to another option (`NoOtherRecalled`) or a replay set a
native select. `RowsInv`: what is told is ticked, the
others are as they were, and a row that is ticked is the one that was read. `FirstInv`: the first
choice, while it stays, is what the search is at (a flow has not gone past it; a
replay takes it in the same step), from which the action property follows.

*Recorded page.* `RecordedElementIsReached` joins the recorder's scores to the
flow's search. Candidates are recorded in the order of their scores and no selector
of the element is missing among them (`CaptureOf`), so that in the plan of
resolveSelector, which scores them again together with the selectors of the step,
nothing comes before the best one but selectors by number (`PlanBegins`): a
selector without a number repeats a candidate, and is ranked only once. The
resolver does not take a match by number, and goes on to the second stage, which
begins with the best candidate again (`SearchLeads`). Where the browser reads the
selector as the recorder did (`Agreed`), that candidate finds what the recorder saw
(`BestIsFound`): in the box of the anchor, which is in the document as
the element is (`InItsBox`), one element is shown, and none is hidden or hidden ones
do not count. `ReachedInv` carries this along the search and its repetitions.

Only model-checked: the liveness properties (`LeaseReclaimed`, `JobEnds`,
`RunEnds`), liveness being out of the prover's reach.

## 6. Not modelled

- The login (`auth.ts`), popups of a page and the session monitor's timer: what a
  third-party page shows. A refresh is an outcome in `JobRun`.
- The rate limiter (`rateLimiter.ts`), which no program uses, and `complete` and
  `fail` of the worker lease service, which no program calls; as reports on items
  they are in `WorkItemQueue`.
- Writes that fail. Every store is taken to reach its disk.
- Workflow core's hardener, analysis, schemas and preflight planning, and the text
  the compiler writes: pure functions over recorded workflows. What the written
  code does is in `RecordedFlow` and `RecordedStep`.
- The texts selectors consist of: of a selector, `SelectorCapture` has what it
  matches.
- Read models, audit log, cohorts, exports, credentials, debug sessions and
  snapshots, network capture and uploads: append-only records and small stores on
  which no decision of the modelled parts depends.
- The web UI, side panel and popup: presentation.

### Observations

Things seen in the code while it was translated, which no run is about:

- a browser that does not close makes a job failed whose completion was told
  (`jobRunner.ts:188` in the `try` of `42`): `WebhookTellsOutcome` states it;
- a request may write any status into a scheduled run, as its body is taken
  unfiltered (`app.ts:533`, `scheduler.ts:88`): `LastStatusIsOfARun` states it;
- after a failed job its other loops go on taking accounts (`runner.ts:78`), also
  while a retry of it runs: `RetryDisjoint` holds with them, as a failed account is
  behind them all;
- an extension that reloads takes its draft along, as that is in the session's
  storage (`recordingStorage.ts:69`);
- a recorded test id may be that of a container, which the recorder takes for the
  element (`selectors.ts:361`, `selectorCandidates.ts:230`), and the flow clicks it;
- recorded candidates of an option are tried before its exact text, and decide
  alone (`selectorHealingTemplate.ts:274`);
- a write that fails leaves the cache of the file job store ahead of its file
  (`fileJobStore.ts:37`), and two worker processes may lease the same item, each
  from its own copy (`worker/index.ts:16`);
- an import overwrites the files of a published workflow
  (`workflowRoutes.ts:85` against `142-172`);
- the Sydney flow returns without a result when the account has its numbers
  (`flow.ts:273`), and the runner takes that for a failure;
- of text and Enter typed in one turn one is lost when an awaited screenshot lies
  between (`service-worker.ts:101`; the comment at `recorder.ts:407` relies on the
  order): `SpacedInputsKept` excludes it by `mixed`;
- the ranked resolver applies the number of the match twice
  (`selectorResolver.ts:52` and `66`) and does not wait, so that a weaker
  candidate wins when the recorded one is drawn a moment later;
- the recorder stores a number counted over the whole document together with an
  anchor (`recorder.ts:548-561`), and flows count inside the anchor's box: the
  selectors of a second row match only through candidates without a number;
- the recorder vouches for a selector by its visible matches alone
  (`selectorCandidates.ts:32-37`), and the flow takes the first in the document,
  hidden or not (`selectorResolver.ts:49-56`, `112-114`), does not find it shown and goes on to
  weaker candidates;
- a checkbox in a row with an anchor is looked for by its row alone
  (`selectorHealingTemplate.ts:51-58`): the second checkbox of a row is never
  reached;
- a CSS path counts elements of the same tag but is written with `:nth-child`
  (`selectors.ts:396-402`), and inside an anchor the replay tries it before the
  role (`replayRunner.ts:153-160`);
- a single match scores the same whether it is the recorded element or not
  (`scoring.ts`);
- the replay's condition "if element visible, click" clicks twice
  (`replayConditions.ts:21-28`) and skips every step with an entity state guard
  (`49-55`); the trusted test ignores conditions and clicks at coordinates it read
  before; the replay leaves the anchor's box for the whole page;
- the selection of rows of the Sydney flow may tick a row twice, and addresses
  rows by position; its options, and those of the plain flows, are taken in the
  order of the list, so that a longer one listed first wins;
- `businessAddressAppearsInPageText` matches words anywhere, so that two
  addresses on a page may pass for a third;
- the session monitor starts its check without waiting for it
  (`sessionHealth.ts`), so that a failed login there is an unhandled rejection.

----------------------------- MODULE ScheduledRuns -----------------------------
(***************************************************************************)
(* How jobs come about on the server (src/server/app.ts): by hand, as the  *)
(* retry of a job, and by schedules (src/server/services/scheduler.ts)     *)
(* that a timer looks at once a minute; the gate for live runs; who is     *)
(* told of the end of a job: its schedule and the webhooks                 *)
(* (src/server/services/webhooks.ts).                                      *)
(*                                                                         *)
(* A job runs a pipeline of some workflows over its accounts, the first    *)
(* of them recorded, the others built in.  What module JobRun has of it in *)
(* detail is here an account at a time.                                    *)
(***************************************************************************)
EXTENDS Governance, ZoomAccounts, Sequences

CONSTANTS Schedules, Accounts, Hooks,
          Crons,        \* cron expressions, by their fields for minute and hour
          StartsAt,     \* clock at the start, in half minutes
          Recorded,     \* the recorded workflow of every pipeline
          Steps,        \* bound: workflows of a pipeline
          MaxRetries,   \* maxRetries of a webhook
          FiredLimit,   \* entries of the guard before it is cleared
          NoSchedule,   \* the source of a job that no schedule asked for
          MaxClock, MaxJobs, MaxEvents  \* bounds: clock, jobs; requests, events, faults

ASSUME RunsAssumption ==
    /\ Steps \in Nat \ {0} /\ MaxRetries \in Nat /\ FiredLimit \in Nat
    /\ StartsAt \in Nat /\ MaxClock \in Nat /\ MaxJobs \in Nat /\ MaxEvents \in Nat
    /\ NoSchedule \notin Schedules /\ Recorded \in Workflows

VARIABLES
    clock,       \* wall clock, in half minutes
    fired,       \* firedThisMinute: schedule and minute
    schedules,   \* the stored schedules
    asks,        \* what a query in progress is for
    jobs,        \* jobs by order of their creation
    hooks,       \* registered webhooks
    deliveries,  \* of a job to a hook: [pc, attempt, received, logged]
    events,      \* requests, events from outside and faults so far
    before, twice,        \* history: minutes fired for, and whether one was again
    restarted, setBack,   \* history: the process, the clock
    refused               \* history: schedules with a run that was refused

history == <<before, twice, restarted, setBack, refused>>
vars == <<governance, zoom, clock, fired, schedules, asks, jobs, hooks,
          deliveries, events, history>>

Absent == [state |-> "absent"]
Scheduled(cron, enabled, live) ==
    [state |-> "stored", cron |-> cron, enabled |-> enabled, live |-> live, last |-> "none",
     patched |-> FALSE]  \* history: a request has written the last status
Stored(s) == schedules[s].state = "stored"
Ended == {"completed", "failed", "cancelled"}
Nothing == [for |-> "nothing", schedule |-> NoSchedule, live |-> FALSE]
Off == [pc |-> "off", attempt |-> 0, received |-> 0, logged |-> 0]
Begun == [pc |-> "sending", attempt |-> 1, received |-> 0, logged |-> 0]

Init == /\ GovernanceInit /\ ZoomInit
        /\ clock = StartsAt /\ fired = {}
        /\ \/ schedules = [s \in Schedules |-> Absent]
           \/ \E cron \in Crons :
                 schedules = [s \in Schedules |-> Scheduled(cron, TRUE, TRUE)]
        /\ asks = [q \in Queries |-> Nothing] /\ jobs = <<>>
        /\ hooks = {} /\ deliveries = [d \in (1 .. MaxJobs) \X Hooks |-> Off]
        /\ events = 0 /\ before = {} /\ twice = FALSE /\ restarted = FALSE
        /\ setBack = FALSE /\ refused = {}

(* Bound: what is asked of the server, and what does not go well, counts.  *)
Goes(ok) == /\ events' = (IF ok THEN events ELSE events + 1)
            /\ events' <= MaxEvents

-----------------------------------------------------------------------------
(* Cron.  A field is any, at a value, a range, a list or a step; what a    *)
(* test is too short to see, the day and the month, is any.                *)
MatchesCronField(spec, value) ==
    \/ spec[1] = "any"
    \/ spec[1] = "at" /\ value = spec[2]
    \/ spec[1] = "range" /\ spec[2] <= value /\ value <= spec[3]
    \/ spec[1] = "list" /\ value \in {spec[2], spec[3]}
    \/ spec[1] = "step" /\ value % spec[2] = 0
ShouldRunNow(cron, minute) == /\ MatchesCronField(cron.minute, minute % 60)
                              /\ MatchesCronField(cron.hour, (minute \div 60) % 24)

(* The store of schedules; a run is marked only on one that is there.      *)
MarkRun(s, outcome) ==
    schedules' = IF s # NoSchedule /\ Stored(s)
                 THEN [schedules EXCEPT ![s].last = outcome, ![s].patched = FALSE]
                 ELSE schedules

CreateSchedule(s) == /\ schedules[s] = Absent
                     /\ \E cron \in Crons, live \in BOOLEAN :
                           schedules' = [schedules EXCEPT ![s] = Scheduled(cron, TRUE, live)]

(* The body of a PATCH is spread over the schedule as it comes, and may    *)
(* bring a last status of its own, or take it away.                        *)
Patch == [cron : Crons, enabled : BOOLEAN, live : BOOLEAN, last : Ended \union {"none"}]
UpdatedAnew(s, patch) == Scheduled(patch.cron, patch.enabled, patch.live)
Updated(s, patch) ==
    [schedules[s] EXCEPT !.cron = patch.cron, !.enabled = patch.enabled, !.live = patch.live,
        !.last = patch.last,
        !.patched = schedules[s].patched \/ patch.last # schedules[s].last]
UpdateSchedule(s) ==
    Stored(s) /\ \E patch \in Patch : schedules' = [schedules EXCEPT ![s] = Updated(s, patch)]
(* Its id is not given to another.                                         *)
DeleteSchedule(s) == Stored(s) /\ schedules' = [schedules EXCEPT ![s] = [state |-> "deleted"]]

-----------------------------------------------------------------------------
(* Jobs.                                                                   *)
Job(from, of, by, live, steps, accounts) ==
    [schedule |-> from, of |-> of, by |-> by, live |-> live, steps |-> steps, step |-> 1,
     todo |-> accounts, acc |-> [a \in accounts |-> "queued"], status |-> "running", told |-> "none",
     alive |-> TRUE]
(* unsafeLiveWorkflows: workflows that are not there are not looked at.    *)
Unsafe(live) == live /\ content[Recorded] # 0 /\ ~LiveRunnable(status[Recorded])
CreateJob(from, of, by, live, steps, accounts) ==
    Len(jobs) < MaxJobs /\ jobs' = Append(jobs, Job(from, of, by, live, steps, accounts))
AccountsOf(j) == DOMAIN jobs[j].acc

(* The first terminal status is told to the webhooks and to the schedule.  *)
Ends(j, job, told) ==
    /\ jobs' = [jobs EXCEPT ![j] = [job EXCEPT !.told = IF job.told = "none" THEN told
                                                        ELSE job.told]]
    /\ IF jobs[j].told = "none"
       THEN /\ MarkRun(job.schedule, told)
            /\ deliveries' = [d \in DOMAIN deliveries |->
                                 IF d[1] = j /\ d[2] \in hooks
                                 THEN Begun
                                 ELSE deliveries[d]]
       ELSE UNCHANGED <<schedules, deliveries>>

ShouldSkipNone(job, a) == FALSE
ShouldSkip(job, a) == job.acc[a] = "failed"
AccountStarts(j) ==
    /\ jobs[j].alive
    /\ \E a \in jobs[j].todo :
          /\ jobs[j].acc[a] # "running" /\ ~ShouldSkip(jobs[j], a)
          /\ jobs' = [jobs EXCEPT ![j].todo = jobs[j].todo \ {a}, ![j].acc[a] = "running"]
    /\ UNCHANGED <<schedules, deliveries>>
AccountEnds(j, ok) ==
    /\ jobs[j].alive
    /\ \E a \in AccountsOf(j), outcome \in {"completed", "skipped", "failed"} :
          (outcome = "completed") = ok /\ jobs[j].acc[a] = "running" /\ jobs' = [jobs EXCEPT ![j].acc[a] = outcome]
    /\ UNCHANGED <<schedules, deliveries>>
StepOver(job) == /\ \A a \in DOMAIN job.acc : job.acc[a] # "running"
                 /\ \A a \in job.todo : ShouldSkip(job, a)
NextStep(j) ==
    /\ jobs[j].alive /\ jobs[j].status = "running" /\ StepOver(jobs[j])
    /\ jobs[j].step < jobs[j].steps
    /\ jobs' = [jobs EXCEPT ![j].step = jobs[j].step + 1, ![j].todo = AccountsOf(j)]
    /\ UNCHANGED <<schedules, deliveries>>
(* The end is told before the browser is closed; if it does not close, the *)
(* run is rejected yet.                                                    *)
JobEnds(j, closes) ==
    /\ jobs[j].alive /\ jobs[j].status = "running" /\ StepOver(jobs[j])
    /\ jobs[j].step = jobs[j].steps
    /\ LET told == IF \E a \in AccountsOf(j) : jobs[j].acc[a] = "failed"
                   THEN "failed" ELSE "completed"
       IN  Ends(j, [jobs[j] EXCEPT !.alive = FALSE, !.status = IF closes THEN told ELSE "failed"],
                told)
(* A run is rejected: there is no browser or no login, and no account is   *)
(* taken; or an outcome cannot be booked, after a cancellation or an       *)
(* earlier step, and the other loops go on; or the browser does not close. *)
JobFails(j) ==
    /\ jobs[j].alive /\ jobs[j].status \in {"running", "cancelled"}
    /\ \/ /\ jobs[j].step = 1 /\ \A a \in AccountsOf(j) : jobs[j].acc[a] = "queued"
          /\ Ends(j, [jobs[j] EXCEPT !.todo = {}, !.status = "failed"], "failed")
       \/ /\ \/ jobs[j].status = "cancelled"
             \/ jobs[j].step > 1 /\ \E a \in AccountsOf(j) : jobs[j].acc[a] = "running"
          /\ Ends(j, [jobs[j] EXCEPT !.status = "failed"], "failed")
(* POST /jobs/:id/cancel: every loop that has looked at the cancellation   *)
(* already takes one more account.                                         *)
CancelJob(j) ==
    /\ jobs[j].status = "running"
    /\ \E late \in SUBSET jobs[j].todo :
          Ends(j, [jobs[j] EXCEPT !.todo = late, !.status = "cancelled"], "cancelled")

(* POST /jobs.  The accounts come with the request, or are those of the    *)
(* last query; a retry that lacks some of them is refused.                 *)
PostJob == \E live \in BOOLEAN, steps \in 1 .. Steps, accounts \in SUBSET Accounts \ {{}} :
              /\ content[Recorded] # 0
              /\ ~Unsafe(live) /\ CreateJob(NoSchedule, 0, "none", live, steps, accounts)
(* POST /jobs/:id/retry: of the failed accounts, or of the skipped ones;   *)
(* of the same workflows, dry or live as is asked.                         *)
RetryAccounts(j, outcome) == {a \in AccountsOf(j) : jobs[j].acc[a] = outcome}
RetryJob(j) == \E live \in BOOLEAN, outcome \in {"failed", "skipped"} :
                  /\ RetryAccounts(j, outcome) # {} /\ ~Unsafe(live)
                  /\ CreateJob(NoSchedule, j, outcome, live, jobs[j].steps, RetryAccounts(j, outcome))

-----------------------------------------------------------------------------
(* The timer and the queries for accounts.                                 *)

(* A query slot takes up what is asked for, with the schedule as it is.    *)
AskFor(q, for, s, live) ==
    Begin(q) /\ asks' = [asks EXCEPT ![q] = [for |-> for, schedule |-> s, live |-> live]]
Key(s, now) == <<s, now \div 2>>
FireAlways(s, now) == Stored(s) /\ schedules[s].enabled /\ ShouldRunNow(schedules[s].cron, now \div 2)
Fires(s, now) == /\ Stored(s) /\ schedules[s].enabled
                 /\ ShouldRunNow(schedules[s].cron, now \div 2)
                 /\ Key(s, now) \notin fired

(* The timer fires 60 s after it last did, or later.  Bound: of the        *)
(* schedules due at a tick the model starts one.                           *)
TickAt(now) ==
    \/ /\ \A s \in Schedules : ~Fires(s, now)
       /\ UNCHANGED <<fired, zoom, asks, before, twice>>
    \/ \E s \in Schedules, q \in Queries :
          /\ Fires(s, now) /\ \A t \in Schedules \ {s} : ~Fires(t, now)
          /\ fired' = (IF Cardinality(fired) >= FiredLimit THEN {} ELSE fired \union {Key(s, now)})
          /\ before' = before \union {Key(s, now)}
          /\ twice' = (twice \/ Key(s, now) \in before)
          /\ AskFor(q, "schedule", s, schedules[s].live)
Tick == /\ Turn
        /\ \E late \in {0, 1} : /\ clock + 2 + late <= MaxClock /\ clock' = clock + 2 + late
                                /\ TickAt(clock')
        /\ UNCHANGED <<governance, schedules, jobs, hooks, deliveries, events,
                       restarted, setBack, refused>>

(* POST /schedules/:id/run, enabled or not, and POST /accounts/query.      *)
RunSchedule(s) == Stored(s) /\ \E q \in Queries : AskFor(q, "schedule", s, schedules[s].live)
QueryAccounts == \E q \in Queries : AskFor(q, "query", NoSchedule, FALSE)

(* triggerScheduledRun goes on when the accounts are there: those that     *)
(* pass the schedule's filters, for the workflows of the schedule.         *)
Refuses(s) == MarkRun(s, "failed") /\ refused' = refused \union {s} /\ UNCHANGED jobs
Triggered(ask, got) ==
    \/ /\ got = "error" /\ UNCHANGED <<schedules, refused, jobs>>
    \/ /\ got = "none" /\ Refuses(ask.schedule)
    \/ /\ got = "accounts" /\ Unsafe(ask.live) /\ Refuses(ask.schedule)
    \/ /\ got = "accounts" /\ ~Unsafe(ask.live)
       /\ \E steps \in 1 .. Steps, accounts \in SUBSET Accounts \ {{}} :
             CreateJob(ask.schedule, 0, "none", ask.live, steps, accounts)
       /\ UNCHANGED <<schedules, refused>>
Got(q) ==
    /\ \E m \in micro :
          /\ m.query = q /\ m.got \in Outcomes /\ micro' = micro \ {m}
          /\ \/ asks[q].for = "schedule" /\ Triggered(asks[q], m.got)
             \/ asks[q].for = "query" /\ UNCHANGED <<schedules, refused, jobs>>
    /\ asks' = [asks EXCEPT ![q] = Nothing]
    /\ UNCHANGED <<governance, fresh, refreshes, shared, query, clock, fired, hooks,
                   deliveries, events, before, twice, restarted, setBack>>

-----------------------------------------------------------------------------
(* Webhooks.  deliver(): answers are success, rejection (a redirect or an  *)
(* error of the client), or error of the server; or none, whether the      *)
(* receiver got it or not.                                                 *)
More(d) == deliveries[d].attempt <= MaxRetries
AnswerLogged(d, pc, got) ==
    deliveries' = [deliveries EXCEPT ![d] =
        [pc |-> pc, attempt |-> deliveries[d].attempt,
         received |-> deliveries[d].received + got, logged |-> deliveries[d].logged + 1]]
Answer(d, pc, got) ==
    deliveries' = [deliveries EXCEPT ![d] =
        [pc |-> pc, attempt |-> deliveries[d].attempt,
         received |-> deliveries[d].received + got,
         logged |-> deliveries[d].logged + (IF pc = "sleeping" THEN 0 ELSE 1)]]
Delivered(d, ok) ==
    /\ deliveries[d].pc = "sending"
    /\ \/ ok /\ Answer(d, "success", 1)
       \/ ~ok /\ Answer(d, "failed", 1)
       \/ ~ok /\ \E got \in {0, 1} : Answer(d, IF More(d) THEN "sleeping" ELSE "failed", got)
Redelivers(d) ==
    /\ deliveries[d].pc = "sleeping"
    /\ deliveries' = [deliveries EXCEPT ![d].pc = "sending",
                                        ![d].attempt = deliveries[d].attempt + 1]

-----------------------------------------------------------------------------
(* The process ends and starts again: jobs and schedules are left as they  *)
(* are on disk, nothing runs the jobs and nobody is told of their ends;    *)
(* webhooks and their log are gone.                                        *)
Restart ==
    /\ fresh' = FALSE /\ refreshes' = {} /\ shared' = NoRefresh
    /\ query' = [q \in Queries |-> Idle] /\ micro' = {}
    /\ fired' = {} /\ asks' = [q \in Queries |-> Nothing]
    /\ hooks' = {} /\ deliveries' = [d \in DOMAIN deliveries |-> Off]
    /\ jobs' = [j \in DOMAIN jobs |->
                   [jobs[j] EXCEPT !.alive = FALSE,
                                   !.told = IF jobs[j].told = "none" THEN "nobody"
                                            ELSE jobs[j].told]]
    /\ restarted' = TRUE
    /\ UNCHANGED <<governance, clock, schedules, before, twice, setBack, refused>>

(* The wall clock is put right, by a minute.                               *)
SetBack == /\ ~setBack /\ clock > StartsAt + 1 /\ clock' = clock - 2 /\ setBack' = TRUE
           /\ UNCHANGED <<governance, zoom, fired, schedules, asks, jobs, hooks,
                          deliveries, before, twice, restarted, refused>>

Request ==
    \/ /\ Govern
       /\ UNCHANGED <<zoom, clock, fired, schedules, asks, jobs, hooks, deliveries,
                      history>>
    \/ /\ \E s \in Schedules : CreateSchedule(s) \/ UpdateSchedule(s) \/ DeleteSchedule(s)
       /\ UNCHANGED <<governance, zoom, clock, fired, asks, jobs, hooks, deliveries,
                      history>>
    \/ /\ QueryAccounts \/ \E s \in Schedules : RunSchedule(s)
       /\ UNCHANGED <<governance, clock, fired, schedules, jobs, hooks, deliveries,
                      history>>
    \/ /\ PostJob \/ \E j \in DOMAIN jobs : RetryJob(j)
       /\ UNCHANGED <<governance, zoom, clock, fired, schedules, asks, hooks,
                      deliveries, history>>
    \/ /\ \E j \in DOMAIN jobs : CancelJob(j)
       /\ UNCHANGED <<governance, zoom, clock, fired, asks, hooks, history>>
    \/ /\ \E h \in Hooks : hooks' = hooks \union {h} \/ hooks' = hooks \ {h}
       /\ UNCHANGED <<governance, zoom, clock, fired, schedules, asks, jobs,
                      deliveries, history>>
Outside == Restart \/ SetBack
           \/ /\ TokenExpires
              /\ UNCHANGED <<governance, clock, fired, schedules, asks, jobs, hooks,
                             deliveries, history>>
Running(j, ok) == \/ AccountEnds(j, ok) \/ JobEnds(j, ok)
                  \/ ok /\ (AccountStarts(j) \/ NextStep(j))
                  \/ ~ok /\ JobFails(j)
Delivering(d, ok) == Delivered(d, ok) \/ (ok /\ Redelivers(d))
Next ==
    \/ Turn /\ Goes(FALSE) /\ (Request \/ Outside)
    \/ Tick
    \/ \E q \in Queries : Got(q)
    \/ \E ok \in BOOLEAN :
          /\ Goes(ok) /\ ZoomStep(ok)
          /\ UNCHANGED <<governance, clock, fired, schedules, asks, jobs, hooks,
                         deliveries, history>>
    \/ \E ok \in BOOLEAN, j \in DOMAIN jobs :
          /\ Turn /\ Goes(ok) /\ Running(j, ok)
          /\ UNCHANGED <<governance, zoom, clock, fired, asks, hooks, history>>
    \/ \E ok \in BOOLEAN, d \in DOMAIN deliveries :
          /\ Turn /\ Goes(ok) /\ Delivering(d, ok)
          /\ UNCHANGED <<governance, zoom, clock, fired, schedules, asks, jobs, hooks,
                         history>>
Spec == Init /\ [][Next]_vars

-----------------------------------------------------------------------------
TypeOK ==
    /\ GovernanceTypeOK /\ ZoomTypeOK
    /\ clock \in Nat /\ fired \subseteq Schedules \X Nat /\ before \subseteq Schedules \X Nat
    /\ schedules \in [Schedules ->
            [state : {"absent", "deleted"}]
            \union [state : {"stored"}, cron : Crons, enabled : BOOLEAN, live : BOOLEAN,
                    last : Ended \union {"none"}, patched : BOOLEAN]]
    /\ asks \in [Queries -> [for : {"nothing", "schedule", "query"},
                             schedule : Schedules \union {NoSchedule}, live : BOOLEAN]]
    /\ Len(jobs) <= MaxJobs
    /\ \A j \in DOMAIN jobs :
          /\ jobs[j].schedule \in Schedules \union {NoSchedule} /\ jobs[j].of \in 0 .. MaxJobs
          /\ jobs[j].steps \in 1 .. Steps /\ jobs[j].step \in 1 .. jobs[j].steps
          /\ jobs[j].todo \subseteq AccountsOf(j)
          /\ AccountsOf(j) \subseteq Accounts
          /\ jobs[j].status \in Ended \union {"running"}
          /\ jobs[j].told \in Ended \union {"none", "nobody"}
    /\ hooks \subseteq Hooks /\ events \in 0 .. MaxEvents /\ refused \subseteq Schedules
    /\ twice \in BOOLEAN /\ restarted \in BOOLEAN /\ setBack \in BOOLEAN

(* app.ts:462: "Live runs require approved or published workflows", at the *)
(* time the job is made, by whichever of the three ways, and whatever      *)
(* happened to the workflow while the accounts were fetched.               *)
LiveRunsGated ==
    [][\A j \in DOMAIN jobs' \ DOMAIN jobs : jobs'[j].live =>
          content[Recorded] = 0 \/ status[Recorded] \in {"approved", "published"}]_vars

(* A schedule fires once in a minute, with a late timer, a clock set back  *)
(* or a restart.  To fire it again takes a clock set back, and a guard     *)
(* that has forgotten: by a restart, or since it was full and cleared,     *)
(* which also forgets the minute that has just been fired for.             *)
FiresOncePerMinute ==
    twice => setBack /\ (restarted \/ Cardinality(before) > FiredLimit)

(* What a schedule shows as its last status was told of a run of it, or is *)
(* what a request wrote since; and it shows one once a run has ended:      *)
(* through runs of it that overlap, cancellations, patches of its other    *)
(* fields and restarts.                                                    *)
RunsOf(s) == {j \in DOMAIN jobs : jobs[j].schedule = s /\ jobs[j].told \in Ended}
LastStatusIsOfARun ==
    \A s \in Schedules : Stored(s) /\ ~schedules[s].patched =>
        /\ RunsOf(s) # {} => schedules[s].last # "none"
        /\ schedules[s].last # "none" =>
              \/ schedules[s].last = "failed" /\ s \in refused
              \/ \E j \in RunsOf(s) : jobs[j].told = schedules[s].last

(* An account that failed in a job is never worked on by that job and its  *)
(* retry at a time, although a job may be retried that still runs, or has  *)
(* ended with loops that go on.  (One that was skipped may be: the next    *)
(* step of the pipeline takes it.)                                         *)
RetryDisjoint ==
    \A j, k \in DOMAIN jobs : jobs[k].of = j /\ jobs[k].by = "failed" =>
        \A a \in AccountsOf(k) : ~(jobs[j].acc[a] = "running" /\ jobs[k].acc[a] = "running")

(* A webhook is sent at most 1 + maxRetries times for a job, ends in the   *)
(* log once, as a success only if the receiver had it; and the sending     *)
(* goes on until it does.                                                  *)
DeliveryBounded ==
    \A d \in DOMAIN deliveries :
        /\ deliveries[d].received <= MaxRetries + 1 /\ deliveries[d].logged <= 1
        /\ deliveries[d].pc = "success" => deliveries[d].received > 0
        /\ (deliveries[d].logged = 1) = (deliveries[d].pc \in {"success", "failed"})
=============================================================================

-------------------------- MODULE ScheduledRunsProofs --------------------------
(***************************************************************************)
(* Proofs about ScheduledRuns, for any workflows, schedules, accounts,     *)
(* webhooks and queries, and any number of retries.                        *)
(***************************************************************************)
EXTENDS ScheduledRuns, SequenceTheorems, FiniteSetTheorems, TLAPS

-----------------------------------------------------------------------------
(* The token of the Zoom API.                                              *)
Settled(m) == m.got \in {"token", "refused"}

QueryType == [pc : {"idle", "waiting", "listing", "backoff"}, page : Nat, attempt : Nat,
              on : Queries \union {NoRefresh}]

ZoomTyped == /\ refreshes \subseteq Queries /\ shared \in Queries \union {NoRefresh}
             /\ query \in [Queries -> QueryType]
             /\ micro \subseteq [query : Queries, got : Outcomes \union {"token", "refused"}]

(* The only request in flight is the shared one, and whoever waits waits   *)
(* for it, or goes on at once.  While waiters go on nothing is in flight:  *)
(* so a waiter that clears the shared promise clears the one that settled. *)
OnlyShared == refreshes \subseteq {shared}
SharedLives == shared # NoRefresh => shared \in refreshes \/ \E m \in micro : Settled(m)
WaitersServed == \A q \in Queries : query[q].pc = "waiting" =>
    query[q].on \in refreshes \/ \E m \in micro : m.query = q /\ Settled(m)
RefreshHasWaiter == \A r \in refreshes : \E q \in Queries :
    query[q].pc = "waiting" /\ query[q].on = r
QuietWhileSettling == (\E m \in micro : Settled(m)) => refreshes = {}

ZoomInv == /\ ZoomTyped /\ OnlyShared /\ SharedLives /\ WaitersServed
           /\ RefreshHasWaiter /\ QuietWhileSettling

LEMMA ZoomInvUnchanged == ZoomInv /\ UNCHANGED zoom => ZoomInv'
BY DEF ZoomInv, zoom, ZoomTyped, OnlyShared, SharedLives, WaitersServed, RefreshHasWaiter,
       QuietWhileSettling, Settled, QueryType

LEMMA QueryTyped ==
    ASSUME NEW pc \in {"idle", "waiting", "listing", "backoff"}, NEW page \in Nat,
           NEW attempt \in Nat, NEW on \in Queries \union {NoRefresh}
    PROVE  Query(pc, page, attempt, on) \in QueryType
BY DEF Query, QueryType

(* A request for a page that begins while no continuation is due.          *)
LEMMA AskKeeps ==
    ASSUME ZoomInv, NEW q \in Queries, NEW page \in Nat, NEW attempt \in Nat,
           query[q].pc # "waiting", Turn, Ask(q, page, attempt), UNCHANGED micro
    PROVE  ZoomInv'
<1>1. NoRefresh \notin Queries
  BY ZoomAssumption
<1>2. CASE fresh
  <2>1. /\ query' = [query EXCEPT ![q] = Query("listing", page, attempt, NoRefresh)]
        /\ UNCHANGED <<refreshes, shared, micro>>
    BY <1>2 DEF Ask
  <2>2. Query("listing", page, attempt, NoRefresh) \in QueryType
    BY QueryTyped
  <2>3. ZoomTyped' /\ \A p \in Queries : query'[p].pc = "waiting" <=> query[p].pc = "waiting"
    BY <2>1, <2>2 DEF ZoomInv, ZoomTyped, Query
  <2>4. \A p \in Queries : query[p].pc = "waiting" => query'[p] = query[p]
    BY <2>1 DEF ZoomInv, ZoomTyped
  <2> QED
    BY <2>1, <2>3, <2>4 DEF ZoomInv, OnlyShared, SharedLives, WaitersServed,
                            RefreshHasWaiter, QuietWhileSettling
<1>3. CASE ~fresh
  <2> DEFINE on == IF shared = NoRefresh THEN q ELSE shared
  <2>1. /\ shared' = on /\ refreshes' = refreshes \union {on} /\ micro' = micro /\ micro = {}
        /\ query' = [query EXCEPT ![q] = Query("waiting", page, attempt, on)]
    BY <1>3 DEF Ask, Turn
  <2>2. on \in Queries /\ refreshes' = {on}
    BY <1>1, <2>1 DEF ZoomInv, ZoomTyped, OnlyShared
  <2> HIDE DEF on
  <2>3. Query("waiting", page, attempt, on) \in QueryType
    BY <2>2, QueryTyped
  <2>4. ZoomTyped'
    BY <2>1, <2>2, <2>3 DEF ZoomInv, ZoomTyped
  <2>5. query'[q].pc = "waiting" /\ query'[q].on = on
    BY <2>1 DEF ZoomInv, ZoomTyped, Query
  <2>6. \A p \in Queries \ {q} : query'[p] = query[p]
    BY <2>1 DEF ZoomInv, ZoomTyped
  <2>7. WaitersServed'
    <3>1. \A p \in Queries : query[p].pc = "waiting" => query[p].on \in refreshes
      BY <2>1 DEF ZoomInv, WaitersServed
    <3> QED
      BY <2>1, <2>5, <2>6, <3>1 DEF WaitersServed
  <2> QED
    BY <2>1, <2>2, <2>4, <2>5, <2>7 DEF ZoomInv, OnlyShared, SharedLives, RefreshHasWaiter,
                                        QuietWhileSettling
<1> QED
  BY <1>2, <1>3

LEMMA SettlesKeeps ==
    ASSUME ZoomInv, NEW r, NEW ok \in BOOLEAN, RefreshSettles(r, ok)
    PROVE  ZoomInv'
<1> DEFINE got == IF ok THEN "token" ELSE "refused"
<1>1. /\ r \in refreshes /\ refreshes' = refreshes \ {r} /\ UNCHANGED <<shared, query>>
      /\ micro' = {Wakes(q, got) : q \in Waiting(r)} /\ micro = {}
  BY DEF RefreshSettles, Turn
<1>2. refreshes' = {}
  BY <1>1 DEF ZoomInv, OnlyShared
<1>3. got \in {"token", "refused"}
  OBVIOUS
<1> HIDE DEF got
<1>4. micro' \subseteq [query : Queries, got : Outcomes \union {"token", "refused"}]
  BY <1>1, <1>3 DEF Wakes, Waiting
<1>5. \A q \in Queries : query[q].pc = "waiting" => query[q].on = r
  BY <1>1 DEF ZoomInv, WaitersServed, OnlyShared
<1>6. \A q \in Queries : query[q].pc = "waiting" =>
        \E m \in micro' : m.query = q /\ Settled(m)
  <2> SUFFICES ASSUME NEW q \in Queries, query[q].pc = "waiting"
               PROVE  \E m \in micro' : m.query = q /\ Settled(m)
    OBVIOUS
  <2>1. Wakes(q, got) \in micro'
    BY <1>1, <1>5 DEF Waiting
  <2> QED
    BY <1>3, <2>1 DEF Wakes, Settled
<1>7. \E m \in micro' : Settled(m)
  <2>1. PICK q \in Queries : query[q].pc = "waiting"
    BY <1>1 DEF ZoomInv, RefreshHasWaiter
  <2> QED
    BY <1>6, <2>1
<1> QED
  BY <1>1, <1>2, <1>4, <1>6, <1>7
     DEF ZoomInv, ZoomTyped, OnlyShared, SharedLives, WaitersServed, RefreshHasWaiter,
         QuietWhileSettling

(* A query leaves off without waiting: what it was woken with is consumed. *)
LEMMA ResumeKeeps ==
    ASSUME ZoomInv, NEW q \in Queries, Resume(q)
    PROVE  ZoomInv'
<1>1. shared' = NoRefresh /\ UNCHANGED refreshes
  BY DEF Resume
<1>2. refreshes = {}
  <2>1. \E m \in micro : Settled(m)
    BY DEF Resume, Wakes, Settled
  <2> QED
    BY <2>1 DEF ZoomInv, QuietWhileSettling
<1>3. query'[q].pc # "waiting" /\ query' \in [Queries -> QueryType]
      /\ \A p \in Queries \ {q} : query'[p] = query[p]
  <2>1. query[q] \in QueryType
    BY DEF ZoomInv, ZoomTyped
  <2>2. [query[q] EXCEPT !.pc = "listing", !.on = NoRefresh] \in QueryType
        /\ [query[q] EXCEPT !.pc = "backoff", !.on = NoRefresh] \in QueryType
    BY <2>1 DEF QueryType
  <2>3. Idle \in QueryType /\ Idle.pc = "idle"
    BY QueryTyped DEF Idle, Query
  <2>4. \/ query' = [query EXCEPT ![q] = [query[q] EXCEPT !.pc = "listing", !.on = NoRefresh]]
        \/ query' = [query EXCEPT ![q] = [query[q] EXCEPT !.pc = "backoff", !.on = NoRefresh]]
        \/ query' = [query EXCEPT ![q] = Idle]
    BY <2>1 DEF Resume, Retried, GivenUp, ZoomInv, ZoomTyped, QueryType
  <2>5. query \in [Queries -> QueryType]
    BY DEF ZoomInv, ZoomTyped
  <2>6. [query[q] EXCEPT !.pc = "listing", !.on = NoRefresh].pc # "waiting"
        /\ [query[q] EXCEPT !.pc = "backoff", !.on = NoRefresh].pc # "waiting"
    BY <2>1 DEF QueryType
  <2> QED
    BY <2>2, <2>3, <2>4, <2>5, <2>6
<1>4. \A m \in micro : m.query # q => m \in micro'
  BY DEF Resume, Wakes
<1>5. micro' \subseteq [query : Queries, got : Outcomes \union {"token", "refused"}]
  BY DEF Resume, Wakes, ZoomInv, ZoomTyped, Outcomes
<1>6. WaitersServed'
  BY <1>1, <1>3, <1>4 DEF ZoomInv, WaitersServed
<1> QED
  BY <1>1, <1>2, <1>3, <1>5, <1>6
     DEF ZoomInv, ZoomTyped, OnlyShared, SharedLives, RefreshHasWaiter, QuietWhileSettling

(* A query that does not wait goes to sleep or ends, with nothing due.     *)
LEMMA LeaveKeeps ==
    ASSUME ZoomInv, NEW q \in Queries, Turn, query[q].pc # "waiting",
           Retried(q) \/ GivenUp(q), UNCHANGED <<refreshes, shared>>,
           NEW M \in SUBSET [query : Queries, got : Outcomes], micro' = M
    PROVE  ZoomInv'
<1>1. query[q] \in QueryType /\ query \in [Queries -> QueryType]
  BY DEF ZoomInv, ZoomTyped
<1>2. [query[q] EXCEPT !.pc = "backoff", !.on = NoRefresh] \in QueryType
      /\ [query[q] EXCEPT !.pc = "backoff", !.on = NoRefresh].pc # "waiting"
  BY <1>1 DEF QueryType
<1>3. Idle \in QueryType /\ Idle.pc = "idle"
  BY QueryTyped DEF Idle, Query
<1>4. \/ query' = [query EXCEPT ![q] = [query[q] EXCEPT !.pc = "backoff", !.on = NoRefresh]]
      \/ query' = [query EXCEPT ![q] = Idle]
  BY <1>1 DEF Retried, GivenUp, QueryType
<1>5. query'[q].pc # "waiting" /\ query' \in [Queries -> QueryType]
      /\ \A p \in Queries \ {q} : query'[p] = query[p]
  BY <1>1, <1>2, <1>3, <1>4
<1>6. micro = {} /\ \A m \in micro' : ~Settled(m)
  BY DEF Turn, Settled, Outcomes
<1>7. WaitersServed' /\ RefreshHasWaiter'
  BY <1>5, <1>6 DEF ZoomInv, WaitersServed, RefreshHasWaiter
<1> QED
  BY <1>5, <1>6, <1>7
     DEF ZoomInv, ZoomTyped, OnlyShared, SharedLives, QuietWhileSettling

LEMMA AnsweredKeeps ==
    ASSUME ZoomInv, NEW q \in Queries, NEW ok \in BOOLEAN, Answered(q, ok)
    PROVE  ZoomInv'
<1>1. Turn /\ query[q].pc # "waiting" /\ query[q] \in QueryType
  BY DEF Answered, ZoomInv, ZoomTyped
<1>2. CASE Ask(q, query[q].page + 1, 1) /\ UNCHANGED micro
  <2>1. query[q].page + 1 \in Nat
    BY <1>1 DEF QueryType
  <2> QED
    BY <1>1, <1>2, <2>1, AskKeeps
<1>3. CASE Retried(q) /\ UNCHANGED <<refreshes, shared, micro>>
  <2>1. {} \in SUBSET [query : Queries, got : Outcomes] /\ micro' = {}
    BY <1>1, <1>3 DEF Turn
  <2> QED
    BY <1>1, <1>3, <2>1, LeaveKeeps
<1>4. CASE /\ GivenUp(q) /\ UNCHANGED <<refreshes, shared>>
           /\ \E got \in Outcomes : micro' = {Wakes(q, got)}
  <2>1. micro' \in SUBSET [query : Queries, got : Outcomes]
    BY <1>4 DEF Wakes
  <2> QED
    BY <1>1, <1>4, <2>1, LeaveKeeps
<1> QED
  BY <1>2, <1>3, <1>4 DEF Answered

LEMMA ZoomStepKeeps ==
    ASSUME ZoomInv, NEW ok \in BOOLEAN, ZoomStep(ok)
    PROVE  ZoomInv'
<1>1. ASSUME NEW q \in Queries, BackoffEnds(q)
      PROVE  ZoomInv'
  <2>1. query[q] \in QueryType /\ query[q].pc # "waiting"
    BY <1>1 DEF BackoffEnds, ZoomInv, ZoomTyped
  <2>2. query[q].page \in Nat /\ query[q].attempt + 1 \in Nat
    BY <2>1 DEF QueryType
  <2> QED
    BY <1>1, <2>1, <2>2, AskKeeps DEF BackoffEnds
<1> QED
  BY <1>1, SettlesKeeps, AnsweredKeeps, ResumeKeeps DEF ZoomStep

LEMMA BeginKeeps ==
    ASSUME ZoomInv, NEW q \in Queries, Turn, Begin(q)
    PROVE  ZoomInv'
<1>1. query[q].pc # "waiting"
  BY DEF Begin, Idle, Query
<1> QED
  BY <1>1, AskKeeps DEF Begin

(* The outcome of a query is taken up.                                     *)
LEMMA GotKeeps ==
    ASSUME ZoomInv, NEW q \in Queries, Got(q)
    PROVE  ZoomInv'
<1>1. PICK m \in micro : m.got \in Outcomes /\ micro' = micro \ {m}
  BY DEF Got
<1>2. ~Settled(m) /\ UNCHANGED <<refreshes, shared, query>>
  BY <1>1 DEF Got, Settled, Outcomes
<1>3. \A k \in micro : Settled(k) => k \in micro'
  BY <1>1, <1>2
<1>4. micro' \subseteq micro
  BY <1>1
<1> QED
  BY <1>2, <1>3, <1>4
     DEF ZoomInv, ZoomTyped, OnlyShared, SharedLives, WaitersServed, RefreshHasWaiter,
         QuietWhileSettling

LEMMA ForgottenKeeps ==
    ASSUME refreshes' = {}, shared' = NoRefresh, query' = [q \in Queries |-> Idle], micro' = {}
    PROVE  ZoomInv'
<1>1. Idle \in QueryType /\ Idle.pc = "idle"
  BY QueryTyped DEF Idle, Query
<1> QED
  BY <1>1 DEF ZoomInv, ZoomTyped, OnlyShared, SharedLives, WaitersServed, RefreshHasWaiter,
              QuietWhileSettling

LEMMA ZoomInvInit == Init => ZoomInv
<1>1. Idle \in QueryType /\ Idle.pc = "idle"
  BY QueryTyped DEF Idle, Query
<1> QED
  BY <1>1 DEF Init, ZoomInit, ZoomInv, ZoomTyped, OnlyShared, SharedLives, WaitersServed,
              RefreshHasWaiter, QuietWhileSettling

LEMMA ZoomInvStep == ZoomInv /\ [Next]_vars => ZoomInv'
<1> SUFFICES ASSUME ZoomInv, [Next]_vars PROVE ZoomInv'
  OBVIOUS
<1>1. CASE Turn /\ Request
  <2>1. CASE UNCHANGED zoom
    BY <2>1, ZoomInvUnchanged
  <2>2. CASE \E q \in Queries : Begin(q)
    BY <1>1, <2>2, BeginKeeps
  <2> QED
    BY <1>1, <2>1, <2>2 DEF Request, QueryAccounts, RunSchedule, AskFor
<1>2. CASE Turn /\ Outside
  <2>1. CASE Restart
    BY <2>1, ForgottenKeeps DEF Restart
  <2>2. CASE SetBack
    BY <2>2, ZoomInvUnchanged DEF SetBack
  <2>3. CASE TokenExpires
    BY <2>3 DEF TokenExpires, ZoomInv, ZoomTyped, OnlyShared, SharedLives, WaitersServed,
                RefreshHasWaiter, QuietWhileSettling
  <2> QED
    BY <1>2, <2>1, <2>2, <2>3 DEF Outside
<1>3. CASE Tick
  <2>1. \/ UNCHANGED zoom \/ \E q \in Queries : Begin(q)
    BY <1>3 DEF Tick, TickAt, AskFor
  <2> QED
    BY <1>3, <2>1, BeginKeeps, ZoomInvUnchanged DEF Tick
<1>4. CASE \E q \in Queries : Got(q)
  BY <1>4, GotKeeps
<1>5. CASE \E ok \in BOOLEAN : ZoomStep(ok)
  BY <1>5, ZoomStepKeeps
<1>6. CASE UNCHANGED zoom
  BY <1>6, ZoomInvUnchanged
<1> QED
  BY <1>1, <1>2, <1>3, <1>4, <1>5, <1>6 DEF Next, vars

(* However queries overlap and fail, the token of the Zoom API is asked    *)
(* for once at a time, and nobody waits for a request that is over         *)
(* (oauth.ts:89-108; ZoomAccounts.tla, SingleRefresh).                     *)
THEOREM OneRefreshAtATime == Spec => []SingleRefresh
<1>1. ZoomInv => SingleRefresh
  <2> SUFFICES ASSUME ZoomInv PROVE SingleRefresh
    OBVIOUS
  <2>1. refreshes = {} \/ refreshes = {shared}
    BY DEF ZoomInv, OnlyShared
  <2>2. Cardinality(refreshes) <= 1
    <3>1. CASE refreshes = {}
      BY <3>1, FS_EmptySet
    <3>2. CASE refreshes = {shared}
      BY <3>2, FS_Singleton
    <3> QED
      BY <2>1, <3>1, <3>2
  <2>3. \A q \in Queries : query[q].pc = "waiting" =>
          query[q].on \in refreshes \/ \E m \in micro : m.query = q
    BY DEF ZoomInv, WaitersServed
  <2> QED
    BY <2>2, <2>3 DEF SingleRefresh
<1> QED
  BY <1>1, ZoomInvInit, ZoomInvStep, PTL DEF Spec

-----------------------------------------------------------------------------
(* The jobs are a sequence, and a step adds one at the end, or none.       *)
IsSequence(s) == \E n \in Nat : DOMAIN s = 1 .. n /\ s = [i \in 1 .. n |-> s[i]]

LEMMA IsAFunction ==
    ASSUME NEW A, NEW B, NEW f \in [A -> B]
    PROVE  DOMAIN f = A /\ f = [x \in A |-> f[x]]
OBVIOUS

LEMMA AppendToSequence ==
    ASSUME NEW s, IsSequence(s), NEW e
    PROVE  /\ IsSequence(Append(s, e)) /\ DOMAIN s \subseteq DOMAIN Append(s, e)
           /\ \A i \in DOMAIN s : Append(s, e)[i] = s[i]
           /\ \A i \in DOMAIN Append(s, e) \ DOMAIN s : Append(s, e)[i] = e
<1>1. PICK n \in Nat : DOMAIN s = 1 .. n /\ s = [i \in 1 .. n |-> s[i]]
  BY DEF IsSequence
<1> DEFINE E == {s[i] : i \in 1 .. n} \union {e}
<1>2. s \in [1 .. n -> E]
  BY <1>1
<1>3. s \in Seq(E) /\ e \in E
  BY <1>1, <1>2, SeqDef
<1>4. Len(s) = n
  BY <1>1, <1>3, LenProperties
<1> HIDE DEF E
<1>5. /\ Append(s, e) \in Seq(E) /\ Len(Append(s, e)) = n + 1
      /\ \A i \in 1 .. n : Append(s, e)[i] = s[i]
      /\ Append(s, e)[n + 1] = e
  BY <1>3, <1>4, AppendProperties
<1>6. DOMAIN Append(s, e) = 1 .. n + 1
      /\ Append(s, e) = [i \in 1 .. n + 1 |-> Append(s, e)[i]]
  <2>1. Append(s, e) \in [1 .. n + 1 -> E]
    BY <1>5, LenProperties
  <2> QED
    BY <2>1, IsAFunction
<1>7. IsSequence(Append(s, e))
  <2> DEFINE m == n + 1
  <2>1. m \in Nat
    OBVIOUS
  <2>2. DOMAIN Append(s, e) = 1 .. m /\ Append(s, e) = [i \in 1 .. m |-> Append(s, e)[i]]
    BY <1>6
  <2> HIDE DEF m
  <2> QED
    BY <2>1, <2>2, Zenon DEF IsSequence
<1>8. \A i \in DOMAIN Append(s, e) \ DOMAIN s : i = n + 1
  BY <1>1, <1>6
<1> QED
  BY <1>1, <1>5, <1>6, <1>7, <1>8

(* A job keeps what it was made from and what was told of its end, and a   *)
(* failed account of it failed.                                            *)
Fields == {"schedule", "of", "by", "live", "steps", "step", "todo", "acc", "status", "told", "alive"}
Shape(job) == /\ DOMAIN job = Fields /\ job = [f \in Fields |-> job[f]]
              /\ job.acc = [a \in DOMAIN job.acc |-> job.acc[a]]
Continues(job, next) ==
    /\ Shape(next) /\ next.of = job.of /\ next.by = job.by /\ next.schedule = job.schedule
    /\ job.told # "none" => next.told = job.told
    /\ DOMAIN next.acc = DOMAIN job.acc
    /\ \A a \in DOMAIN job.acc : job.acc[a] = "failed" => next.acc[a] = "failed"
Continue == /\ IsSequence(jobs') /\ DOMAIN jobs' = DOMAIN jobs
            /\ \A j \in DOMAIN jobs : Continues(jobs[j], jobs'[j])

(* A job is made by the gate, and a retry of failed accounts from those.   *)
Makes == \E from, of, by, live, steps, accounts :
            /\ CreateJob(from, of, by, live, steps, accounts) /\ ~Unsafe(live)
            /\ from = NoSchedule \/ \E q \in Queries : from = asks[q].schedule /\ Got(q)
            /\ UNCHANGED <<schedules, refused>>
            /\ by = "failed" => of \in DOMAIN jobs /\ accounts = RetryAccounts(of, "failed")

RetriesFailed == \A k \in DOMAIN jobs : jobs[k].by = "failed" =>
    /\ jobs[k].of \in DOMAIN jobs
    /\ \A a \in AccountsOf(k) : /\ a \in AccountsOf(jobs[k].of)
                                /\ jobs[jobs[k].of].acc[a] = "failed"
JobsInv == IsSequence(jobs) /\ (\A j \in DOMAIN jobs : Shape(jobs[j])) /\ RetriesFailed

LEMMA ReplacedContinues ==
    ASSUME JobsInv, NEW j \in DOMAIN jobs, NEW r, Continues(jobs[j], r),
           jobs' = [jobs EXCEPT ![j] = r]
    PROVE  Continue
<1>1. PICK n \in Nat : DOMAIN jobs = 1 .. n /\ jobs = [i \in 1 .. n |-> jobs[i]]
  BY DEF JobsInv, IsSequence
<1>2. DOMAIN jobs' = 1 .. n /\ jobs' = [i \in 1 .. n |-> jobs'[i]]
  BY <1>1
<1>3. \A i \in DOMAIN jobs : jobs'[i] = IF i = j THEN r ELSE jobs[i]
  BY <1>1
<1>4. \A i \in DOMAIN jobs : Continues(jobs[i], jobs[i])
  BY DEF JobsInv, Continues
<1> QED
  BY <1>1, <1>2, <1>3, <1>4 DEF Continue, IsSequence

LEMMA UnchangedContinues == JobsInv /\ jobs' = jobs => Continue
BY DEF JobsInv, Continue, Continues

(* A job that changes in other fields, or in one account not failed yet.   *)
LEMMA EndsContinues ==
    ASSUME JobsInv, NEW j \in DOMAIN jobs, NEW job, NEW told,
           Continues(jobs[j], job), Ends(j, job, told)
    PROVE  Continue
<1> DEFINE t == IF job.told = "none" THEN told ELSE job.told
<1>1. jobs' = [jobs EXCEPT ![j] = [job EXCEPT !.told = t]]
  BY DEF Ends
<1>3. job.told # "none" => t = job.told
  OBVIOUS
<1> HIDE DEF t
<1>2. Continues(jobs[j], [job EXCEPT !.told = t])
  BY <1>3 DEF Continues, Shape, Fields
<1> QED
  BY <1>1, <1>2, ReplacedContinues

LEMMA AccountContinues ==
    ASSUME NEW job, Shape(job), NEW a \in DOMAIN job.acc, job.acc[a] # "failed",
           NEW todo, NEW outcome
    PROVE  /\ Continues(job, [job EXCEPT !.todo = todo,
                                         !.acc = [job.acc EXCEPT ![a] = outcome]])
           /\ Continues(job, [job EXCEPT !.acc = [job.acc EXCEPT ![a] = outcome]])
BY DEF Continues, Shape, Fields

LEMMA RunningContinues ==
    ASSUME JobsInv, NEW j \in DOMAIN jobs, NEW ok \in BOOLEAN, Running(j, ok)
    PROVE  Continue
<1>1. Shape(jobs[j])
  BY DEF JobsInv
<1>2. CASE AccountStarts(j)
  <2>1. PICK a \in jobs[j].todo :
          /\ jobs[j].acc[a] # "failed"
          /\ jobs' = [jobs EXCEPT ![j].todo = jobs[j].todo \ {a}, ![j].acc[a] = "running"]
    BY <1>2 DEF AccountStarts, ShouldSkip
  <2> DEFINE r == [jobs[j] EXCEPT !.todo = jobs[j].todo \ {a},
                                  !.acc = [jobs[j].acc EXCEPT ![a] = "running"]]
  <2>2. jobs' = [jobs EXCEPT ![j] = r]
    BY <1>1, <2>1 DEF Shape, Fields
  <2>3. Continues(jobs[j], r)
    BY <1>1, <2>1 DEF Continues, Shape, Fields
  <2> HIDE DEF r
  <2> QED
    BY <2>2, <2>3, ReplacedContinues
<1>3. CASE AccountEnds(j, ok)
  <2>1. PICK a \in AccountsOf(j), outcome \in {"completed", "skipped", "failed"} :
          jobs[j].acc[a] = "running" /\ jobs' = [jobs EXCEPT ![j].acc[a] = outcome]
    BY <1>3 DEF AccountEnds
  <2> DEFINE r == [jobs[j] EXCEPT !.acc = [jobs[j].acc EXCEPT ![a] = outcome]]
  <2>2. jobs' = [jobs EXCEPT ![j] = r]
    BY <1>1, <2>1 DEF Shape, Fields
  <2>3. Continues(jobs[j], r)
    BY <1>1, <2>1, AccountContinues DEF AccountsOf
  <2> HIDE DEF r
  <2> QED
    BY <2>2, <2>3, ReplacedContinues
<1>4. CASE NextStep(j)
  <2> DEFINE r == [jobs[j] EXCEPT !.step = jobs[j].step + 1, !.todo = AccountsOf(j)]
  <2>1. jobs' = [jobs EXCEPT ![j] = r]
    BY <1>4 DEF NextStep
  <2>2. Continues(jobs[j], r)
    BY <1>1 DEF Continues, Shape, Fields
  <2> HIDE DEF r
  <2> QED
    BY <2>1, <2>2, ReplacedContinues
<1>5. CASE JobEnds(j, ok)
  <2>1. PICK s, told : Ends(j, [jobs[j] EXCEPT !.alive = FALSE, !.status = s], told)
    BY <1>5 DEF JobEnds
  <2>2. Continues(jobs[j], [jobs[j] EXCEPT !.alive = FALSE, !.status = s])
    BY <1>1 DEF Continues, Shape, Fields
  <2> QED
    BY <2>1, <2>2, EndsContinues
<1>6. CASE JobFails(j)
  <2>1. /\ Continues(jobs[j], [jobs[j] EXCEPT !.todo = {}, !.status = "failed"])
        /\ Continues(jobs[j], [jobs[j] EXCEPT !.status = "failed"])
    BY <1>1 DEF Continues, Shape, Fields
  <2> QED
    BY <1>6, <2>1, EndsContinues DEF JobFails
<1> QED
  BY <1>2, <1>3, <1>4, <1>5, <1>6 DEF Running

LEMMA RestartContinues == JobsInv /\ Restart => Continue
<1> SUFFICES ASSUME JobsInv, Restart PROVE Continue
  OBVIOUS
<1>1. PICK n \in Nat : DOMAIN jobs = 1 .. n /\ jobs = [i \in 1 .. n |-> jobs[i]]
  BY DEF JobsInv, IsSequence
<1> DEFINE told(j) == IF jobs[j].told = "none" THEN "nobody" ELSE jobs[j].told
<1>2. jobs' = [j \in DOMAIN jobs |-> [jobs[j] EXCEPT !.alive = FALSE, !.told = told(j)]]
  BY DEF Restart
<1>3. DOMAIN jobs' = 1 .. n /\ jobs' = [i \in 1 .. n |-> jobs'[i]]
  BY <1>1, <1>2
<1>4. \A j \in DOMAIN jobs : Continues(jobs[j], [jobs[j] EXCEPT !.alive = FALSE, !.told = told(j)])
  <2> TAKE j \in DOMAIN jobs
  <2>1. jobs[j].told # "none" => told(j) = jobs[j].told
    OBVIOUS
  <2> HIDE DEF told
  <2> QED
    BY <2>1 DEF JobsInv, Continues, Shape, Fields
<1>5. \A j \in DOMAIN jobs : jobs'[j] = [jobs[j] EXCEPT !.alive = FALSE, !.told = told(j)]
  BY <1>2
<1> HIDE DEF told
<1> QED
  BY <1>1, <1>3, <1>4, <1>5 DEF Continue, IsSequence

LEMMA CancelContinues ==
    ASSUME JobsInv, NEW j \in DOMAIN jobs, CancelJob(j)
    PROVE  Continue
<1>1. PICK late : Ends(j, [jobs[j] EXCEPT !.todo = late, !.status = "cancelled"], "cancelled")
  BY DEF CancelJob
<1>2. Continues(jobs[j], [jobs[j] EXCEPT !.todo = late, !.status = "cancelled"])
  BY DEF JobsInv, Continues, Shape, Fields
<1> QED
  BY <1>1, <1>2, EndsContinues

(* Every step makes one job, through the gate, or lets the jobs go on.     *)
LEMMA JobsMove == JobsInv /\ [Next]_vars => Continue \/ Makes
<1> SUFFICES ASSUME JobsInv, [Next]_vars PROVE Continue \/ Makes
  OBVIOUS
<1>1. CASE jobs' = jobs
  BY <1>1, UnchangedContinues
<1>2. CASE Request
  <2>1. CASE PostJob /\ UNCHANGED <<schedules, refused>>
    <3>1. PICK live, steps, accounts : ~Unsafe(live) /\ CreateJob(NoSchedule, 0, "none", live, steps, accounts)
      BY <2>1 DEF PostJob
    <3> QED
      BY <2>1, <3>1 DEF Makes
  <2>2. ASSUME NEW j \in DOMAIN jobs, RetryJob(j), UNCHANGED <<schedules, refused>>
        PROVE  Makes
    <3>1. PICK live, outcome :
            ~Unsafe(live) /\ CreateJob(NoSchedule, j, outcome, live, jobs[j].steps, RetryAccounts(j, outcome))
      BY <2>2 DEF RetryJob
    <3> QED
      BY <2>2, <3>1 DEF Makes
  <2>3. \/ jobs' = jobs
        \/ /\ PostJob \/ \E j \in DOMAIN jobs : RetryJob(j)
           /\ UNCHANGED <<schedules, refused>>
        \/ \E j \in DOMAIN jobs : CancelJob(j)
    BY <1>2 DEF Request, history
  <2> QED
    BY <1>1, <2>1, <2>2, <2>3, CancelContinues
<1>3. CASE Outside
  BY <1>1, <1>3, RestartContinues DEF Outside, SetBack
<1>4. ASSUME NEW q \in Queries, Got(q)
      PROVE  Continue \/ Makes
  <2> DEFINE made == /\ ~Unsafe(asks[q].live) /\ UNCHANGED <<schedules, refused>>
                     /\ \E steps, accounts : CreateJob(asks[q].schedule, 0, "none", asks[q].live, steps, accounts)
  <2>1. jobs' = jobs \/ made
    BY <1>4 DEF Got, Triggered, Refuses
  <2>2. CASE made
    BY <1>4, <2>2 DEF Makes
  <2> QED
    BY <1>1, <2>1, <2>2
<1>5. CASE \E ok \in BOOLEAN, j \in DOMAIN jobs : Running(j, ok)
  BY <1>5, RunningContinues
<1>6. \/ jobs' = jobs \/ Request \/ Outside \/ \E q \in Queries : Got(q)
      \/ \E ok \in BOOLEAN, j \in DOMAIN jobs : Running(j, ok)
  BY DEF Next, vars, Tick
<1> QED
  BY <1>1, <1>2, <1>3, <1>4, <1>5, <1>6

LEMMA JobsInvContinues == JobsInv /\ Continue => JobsInv'
BY DEF JobsInv, Continue, Continues, RetriesFailed, AccountsOf

LEMMA MadeShape ==
    ASSUME NEW from, NEW of, NEW by, NEW live, NEW steps, NEW accounts
    PROVE  LET job == Job(from, of, by, live, steps, accounts)
           IN  /\ Shape(job) /\ job.of = of /\ job.by = by /\ job.live = live
               /\ DOMAIN job.acc = accounts
BY DEF Job, Shape, Fields

LEMMA JobsInvMakes == JobsInv /\ Makes => JobsInv'
<1> SUFFICES ASSUME JobsInv, NEW from, NEW of, NEW by, NEW live, NEW steps, NEW accounts,
                    jobs' = Append(jobs, Job(from, of, by, live, steps, accounts)),
                    by = "failed" => of \in DOMAIN jobs /\ accounts = RetryAccounts(of, "failed")
             PROVE  JobsInv'
  BY DEF Makes, CreateJob
<1> DEFINE job == Job(from, of, by, live, steps, accounts)
<1>1. Shape(job) /\ job.of = of /\ job.by = by /\ DOMAIN job.acc = accounts
  BY MadeShape
<1> HIDE DEF job
<1>2. /\ IsSequence(jobs') /\ DOMAIN jobs \subseteq DOMAIN jobs'
      /\ \A i \in DOMAIN jobs : jobs'[i] = jobs[i]
      /\ \A i \in DOMAIN jobs' \ DOMAIN jobs : jobs'[i] = job
  BY AppendToSequence DEF JobsInv, job
<1>3. \A j \in DOMAIN jobs' : Shape(jobs'[j])
  BY <1>1, <1>2 DEF JobsInv
<1>4. ASSUME NEW k \in DOMAIN jobs', jobs'[k].by = "failed"
      PROVE  /\ jobs'[k].of \in DOMAIN jobs'
             /\ \A a \in DOMAIN jobs'[k].acc : /\ a \in DOMAIN jobs'[jobs'[k].of].acc
                                               /\ jobs'[jobs'[k].of].acc[a] = "failed"
  <2>1. CASE k \in DOMAIN jobs
    BY <1>2, <1>4, <2>1 DEF JobsInv, RetriesFailed, AccountsOf
  <2>2. CASE k \notin DOMAIN jobs
    BY <1>1, <1>2, <1>4, <2>2 DEF RetryAccounts, AccountsOf
  <2> QED
    BY <2>1, <2>2
<1>5. RetriesFailed'
  BY <1>4 DEF RetriesFailed, AccountsOf
<1> QED
  BY <1>2, <1>3, <1>5 DEF JobsInv

LEMMA JobsInvInit == Init => JobsInv
<1> SUFFICES ASSUME jobs = <<>> PROVE JobsInv
  BY DEF Init
<1>1. 0 \in Nat /\ DOMAIN jobs = 1 .. 0 /\ jobs = [i \in 1 .. 0 |-> jobs[i]]
  OBVIOUS
<1> QED
  BY <1>1 DEF JobsInv, IsSequence, RetriesFailed

LEMMA JobsInvStep == JobsInv /\ [Next]_vars => JobsInv'
BY JobsMove, JobsInvContinues, JobsInvMakes

(* No account that failed is worked on by a job and its retry at a time    *)
(* (app.ts:355-421, jobRunner.ts:200-209; ScheduledRuns.tla,               *)
(* RetryDisjoint).                                                         *)
THEOREM RetriesAreDisjoint == Spec => []RetryDisjoint
<1>1. JobsInv => RetryDisjoint
  BY DEF JobsInv, RetriesFailed, RetryDisjoint
<1> QED
  BY <1>1, JobsInvInit, JobsInvStep, PTL DEF Spec

(* No job is made to run live while its workflow is there and neither      *)
(* approved nor published (app.ts:94-102; ScheduledRuns.tla,               *)
(* LiveRunsGated).                                                         *)
THEOREM LiveRunsAreGated == Spec => LiveRunsGated
<1>1. ASSUME JobsInv, [Next]_vars
      PROVE  [\A j \in DOMAIN jobs' \ DOMAIN jobs : jobs'[j].live =>
                 content[Recorded] = 0 \/ status[Recorded] \in {"approved", "published"}]_vars
  <2>1. CASE Continue
    BY <2>1 DEF Continue
  <2>2. CASE Makes
    <3>1. PICK from, of, by, live, steps, accounts :
            jobs' = Append(jobs, Job(from, of, by, live, steps, accounts)) /\ ~Unsafe(live)
      BY <2>2 DEF Makes, CreateJob
    <3>2. \A i \in DOMAIN jobs' \ DOMAIN jobs : jobs'[i] = Job(from, of, by, live, steps, accounts)
      BY <1>1, <3>1, AppendToSequence DEF JobsInv
    <3> QED
      BY <3>1, <3>2, MadeShape DEF Unsafe, LiveRunnable
  <2> QED
    BY <1>1, <2>1, <2>2, JobsMove
<1> QED
  BY <1>1, JobsInvInit, JobsInvStep, PTL DEF Spec, LiveRunsGated

-----------------------------------------------------------------------------
(* The deliveries.                                                         *)
Places == (1 .. MaxJobs) \X Hooks
DeliveryType == [pc : {"off", "sending", "sleeping", "success", "failed"}, attempt : Nat,
                 received : Nat, logged : Nat]

(* Each attempt reaches the receiver once at most, and the log is written  *)
(* after the last.                                                         *)
WellDelivered(d) ==
    /\ d.pc \in {"off", "sending", "sleeping"} => d.logged = 0
    /\ d.pc \in {"success", "failed"} => d.logged = 1 /\ d.received <= MaxRetries + 1
    /\ d.pc = "off" => d.received = 0
    /\ d.pc = "sending" => d.attempt <= MaxRetries + 1 /\ d.received < d.attempt
    /\ d.pc = "sleeping" => d.attempt <= MaxRetries /\ d.received <= d.attempt
    /\ d.pc = "success" => d.received > 0
DeliveriesInv == /\ deliveries \in [Places -> DeliveryType]
                 /\ \A d \in Places : WellDelivered(deliveries[d])

LEMMA DeliveryReplaced ==
    ASSUME DeliveriesInv, NEW d \in Places, NEW r \in DeliveryType, WellDelivered(r),
           deliveries' = [deliveries EXCEPT ![d] = r]
    PROVE  DeliveriesInv'
BY DEF DeliveriesInv, WellDelivered

LEMMA OffWell == /\ Off \in DeliveryType /\ WellDelivered(Off)
                 /\ Begun \in DeliveryType /\ WellDelivered(Begun)
BY RunsAssumption DEF Off, Begun, DeliveryType, WellDelivered

LEMMA SentAgain ==
    ASSUME NEW d \in DeliveryType, WellDelivered(d), d.pc = "sleeping", NEW n \in Nat,
           n = d.attempt + 1
    PROVE  /\ [d EXCEPT !.pc = "sending", !.attempt = n] \in DeliveryType
           /\ WellDelivered([d EXCEPT !.pc = "sending", !.attempt = n])
<1>1. [d EXCEPT !.pc = "sending", !.attempt = n] \in DeliveryType
  BY DEF DeliveryType
<1>2. MaxRetries \in Nat
  BY RunsAssumption
<1> QED
  BY <1>1, <1>2 DEF DeliveryType, WellDelivered

LEMMA AnswerKeeps ==
    ASSUME DeliveriesInv, NEW d \in Places, deliveries[d].pc = "sending",
           NEW pc \in {"sleeping", "success", "failed"}, NEW got \in {0, 1},
           pc = "success" => got = 1, pc = "sleeping" => More(d), Answer(d, pc, got)
    PROVE  DeliveriesInv'
<1> DEFINE r == [pc |-> pc, attempt |-> deliveries[d].attempt,
                 received |-> deliveries[d].received + got,
                 logged |-> deliveries[d].logged + (IF pc = "sleeping" THEN 0 ELSE 1)]
<1>1. deliveries[d] \in DeliveryType /\ WellDelivered(deliveries[d]) /\ MaxRetries \in Nat
  BY RunsAssumption DEF DeliveriesInv
<1>2. r \in DeliveryType
  BY <1>1 DEF DeliveryType
<1>3. WellDelivered(r)
  BY <1>1 DEF DeliveryType, WellDelivered, More
<1>4. deliveries' = [deliveries EXCEPT ![d] = r]
  BY DEF Answer
<1> HIDE DEF r
<1> QED
  BY <1>2, <1>3, <1>4, DeliveryReplaced

LEMMA DeliveringKeeps ==
    ASSUME DeliveriesInv, NEW d \in Places, NEW ok \in BOOLEAN, Delivering(d, ok)
    PROVE  DeliveriesInv'
<1>1. CASE Delivered(d, ok)
  <2>1. deliveries[d].pc = "sending"
    BY <1>1 DEF Delivered
  <2>2. CASE Answer(d, "success", 1) \/ Answer(d, "failed", 1)
    BY <2>1, <2>2, AnswerKeeps
  <2>3. ASSUME NEW got \in {0, 1}, Answer(d, IF More(d) THEN "sleeping" ELSE "failed", got)
        PROVE  DeliveriesInv'
    <3>1. CASE More(d) /\ Answer(d, "sleeping", got)
      BY <2>1, <3>1, AnswerKeeps
    <3>2. CASE ~More(d) /\ Answer(d, "failed", got)
      BY <2>1, <3>2, AnswerKeeps
    <3> QED
      BY <2>3, <3>1, <3>2
  <2> QED
    BY <1>1, <2>2, <2>3 DEF Delivered
<1>2. CASE Redelivers(d)
  <2> DEFINE n == deliveries[d].attempt + 1
             r == [deliveries[d] EXCEPT !.pc = "sending", !.attempt = n]
  <2>1. deliveries[d] \in DeliveryType /\ WellDelivered(deliveries[d])
        /\ deliveries[d].pc = "sleeping"
    BY <1>2 DEF DeliveriesInv, Redelivers
  <2>2. n \in Nat
    BY <2>1 DEF DeliveryType
  <2>3. r \in DeliveryType /\ WellDelivered(r)
    BY <2>1, <2>2, SentAgain
  <2>4. deliveries' = [deliveries EXCEPT ![d] = r]
    BY <1>2, <2>1 DEF Redelivers
  <2> HIDE DEF r
  <2> QED
    BY <2>3, <2>4, DeliveryReplaced
<1> QED
  BY <1>1, <1>2 DEF Delivering

LEMMA EndsDelivers ==
    ASSUME DeliveriesInv, NEW j, NEW job, NEW told, Ends(j, job, told)
    PROVE  DeliveriesInv'
<1>1. deliveries' = deliveries \/
      deliveries' = [d \in DOMAIN deliveries |-> IF d[1] = j /\ d[2] \in hooks
                       THEN Begun ELSE deliveries[d]]
  BY DEF Ends
<1> QED
  BY <1>1, OffWell DEF DeliveriesInv, WellDelivered

LEMMA DeliveriesInvInit == Init => DeliveriesInv
<1> SUFFICES ASSUME deliveries = [d \in Places |-> Off] PROVE DeliveriesInv
  BY DEF Init, Places
<1> QED
  BY OffWell DEF DeliveriesInv

LEMMA DeliveriesInvStep == DeliveriesInv /\ [Next]_vars => DeliveriesInv'
<1> SUFFICES ASSUME DeliveriesInv, [Next]_vars PROVE DeliveriesInv'
  OBVIOUS
<1>1. CASE deliveries' = deliveries
  BY <1>1 DEF DeliveriesInv, WellDelivered
<1>2. CASE \E j, job, told : Ends(j, job, told)
  BY <1>2, EndsDelivers
<1>3. CASE Restart
  BY <1>3, OffWell DEF Restart, DeliveriesInv, WellDelivered
<1>4. CASE \E ok \in BOOLEAN, d \in DOMAIN deliveries : Delivering(d, ok)
  BY <1>4, DeliveringKeeps DEF DeliveriesInv
<1>5. CASE Turn /\ (Request \/ Outside)
  BY <1>1, <1>2, <1>3, <1>5 DEF Request, CancelJob, Outside, SetBack
<1>6. CASE \E ok \in BOOLEAN, j \in DOMAIN jobs : Running(j, ok)
  BY <1>1, <1>2, <1>6 DEF Running, AccountStarts, AccountEnds, NextStep, JobEnds, JobFails
<1> QED
  BY <1>1, <1>4, <1>5, <1>6 DEF Next, vars, Tick, Got

(* A webhook is sent 1 + maxRetries times at most for a job, and logged    *)
(* once, truly (webhooks.ts:114-185; ScheduledRuns.tla, DeliveryBounded).  *)
THEOREM DeliveriesAreBounded == Spec => []DeliveryBounded
<1>1. DeliveriesInv => DeliveryBounded
  <2> SUFFICES ASSUME DeliveriesInv, NEW d \in Places
               PROVE  /\ deliveries[d].received <= MaxRetries + 1 /\ deliveries[d].logged <= 1
                      /\ deliveries[d].pc = "success" => deliveries[d].received > 0
                      /\ (deliveries[d].logged = 1)
                           = (deliveries[d].pc \in {"success", "failed"})
    BY DEF DeliveryBounded, DeliveriesInv
  <2>1. deliveries[d] \in DeliveryType /\ WellDelivered(deliveries[d]) /\ MaxRetries \in Nat
    BY RunsAssumption DEF DeliveriesInv
  <2> QED
    BY <2>1 DEF DeliveryType, WellDelivered
<1> QED
  BY <1>1, DeliveriesInvInit, DeliveriesInvStep, PTL DEF Spec

-----------------------------------------------------------------------------
(* The guard of the timer.  As long as the clock is not set back, a tick   *)
(* comes at a later minute than all that have been fired for; and as long  *)
(* as the guard has not been cleared it has all of those.                  *)
ClockInv ==
    /\ clock \in Nat
    /\ before \subseteq Schedules \X Nat /\ IsFiniteSet(before) /\ fired \subseteq before
    /\ ~setBack => \A k \in before : 2 * k[2] <= clock
    /\ ~restarted /\ Cardinality(before) <= FiredLimit => fired = before
    /\ FiresOncePerMinute

LEMMA ClockInvInit == Init => ClockInv
<1> SUFFICES ASSUME Init PROVE ClockInv
  OBVIOUS
<1>1. clock \in Nat /\ before = {} /\ fired = {} /\ ~twice
  BY RunsAssumption DEF Init
<1>2. IsFiniteSet(before)
  BY <1>1, FS_EmptySet
<1> QED
  BY <1>1, <1>2 DEF ClockInv, FiresOncePerMinute

(* The half minutes of a clock and the minute it shows.                    *)
LEMMA MinuteOf ==
    ASSUME NEW now \in Nat
    PROVE  now \div 2 \in Nat /\ 2 * (now \div 2) <= now /\ now <= 2 * (now \div 2) + 1
OBVIOUS

(* A schedule is fired for a minute for which it was fired before only if  *)
(* the clock was set back and the guard has lost that minute.              *)
LEMMA FiringKeeps ==
    ASSUME ClockInv, Tick, NEW s \in Schedules, Fires(s, clock'),
           fired' = (IF Cardinality(fired) >= FiredLimit THEN {}
                     ELSE fired \union {Key(s, clock')}),
           before' = before \union {Key(s, clock')},
           twice' = (twice \/ Key(s, clock') \in before)
    PROVE  ClockInv'
<1> DEFINE k == Key(s, clock')
<1>1. clock' \in Nat /\ clock + 2 <= clock' /\ UNCHANGED <<restarted, setBack>>
  BY DEF Tick, ClockInv
<1>2. k \in Schedules \X Nat /\ 2 * k[2] <= clock' /\ clock' <= 2 * k[2] + 1
  BY <1>1, MinuteOf DEF Key
<1>3. k \notin fired
  BY DEF Fires
<1> HIDE DEF k
<1>4. before' \subseteq Schedules \X Nat /\ IsFiniteSet(before') /\ fired' \subseteq before'
  BY <1>2, FS_AddElement DEF ClockInv, k
<1>5. Cardinality(before') = IF k \in before THEN Cardinality(before) ELSE Cardinality(before) + 1
  BY FS_AddElement DEF ClockInv, k
<1>6. Cardinality(before) \in Nat /\ Cardinality(before') \in Nat /\ FiredLimit \in Nat
  BY <1>4, FS_CardinalityType, RunsAssumption DEF ClockInv
<1>7. ~setBack => k \notin before
  BY <1>1, <1>2 DEF ClockInv
<1>8. ~setBack' => \A i \in before' : 2 * i[2] <= clock'
  <2>1. \A i \in before : 2 * i[2] \in Nat
    BY DEF ClockInv
  <2>2. ~setBack => \A i \in before : 2 * i[2] <= clock'
    BY <1>1, <2>1 DEF ClockInv
  <2> QED
    BY <1>1, <1>2, <2>2 DEF k
<1>9. ~restarted' /\ Cardinality(before') <= FiredLimit => fired' = before'
  <2> SUFFICES ASSUME ~restarted, Cardinality(before') <= FiredLimit PROVE fired' = before'
    BY <1>1
  <2>1. fired = before
    BY <1>5, <1>6 DEF ClockInv
  <2>2. Cardinality(before') = Cardinality(before) + 1
    BY <1>3, <1>5, <2>1
  <2> QED
    BY <1>6, <2>1, <2>2 DEF k
<1>10. k \in before => setBack /\ (restarted \/ Cardinality(before) > FiredLimit)
  BY <1>3, <1>6, <1>7 DEF ClockInv
<1>11. FiresOncePerMinute'
  <2> SUFFICES ASSUME twice'
               PROVE  setBack /\ (restarted \/ Cardinality(before') > FiredLimit)
    BY <1>1 DEF FiresOncePerMinute
  <2>1. setBack /\ (restarted \/ Cardinality(before) > FiredLimit)
    BY <1>10 DEF ClockInv, FiresOncePerMinute, k
  <2> QED
    BY <1>5, <1>6, <2>1
<1> QED
  BY <1>1, <1>4, <1>8, <1>9, <1>11 DEF ClockInv

LEMMA ClockInvStep == ClockInv /\ [Next]_vars => ClockInv'
<1> SUFFICES ASSUME ClockInv, [Next]_vars PROVE ClockInv'
  OBVIOUS
<1> DEFINE Guard == <<clock, fired, before, twice, restarted, setBack>>
<1>1. CASE UNCHANGED Guard
  BY <1>1 DEF ClockInv, FiresOncePerMinute
<1>2. CASE Tick
  <2>1. clock' \in Nat /\ clock <= clock' /\ UNCHANGED <<restarted, setBack>>
    BY <1>2 DEF Tick, ClockInv
  <2>2. CASE UNCHANGED <<fired, before, twice>>
    <3>1. \A k \in before : 2 * k[2] \in Nat
      BY DEF ClockInv
    <3> QED
      BY <2>1, <2>2, <3>1 DEF ClockInv, FiresOncePerMinute
  <2>3. \/ UNCHANGED <<fired, before, twice>>
        \/ \E s \in Schedules :
              /\ Fires(s, clock')
              /\ fired' = (IF Cardinality(fired) >= FiredLimit THEN {}
                           ELSE fired \union {Key(s, clock')})
              /\ before' = before \union {Key(s, clock')}
              /\ twice' = (twice \/ Key(s, clock') \in before)
    BY <1>2, Zenon DEF Tick, TickAt
  <2> QED
    BY <1>2, <2>2, <2>3, FiringKeeps
<1>3. CASE Restart
  BY <1>3 DEF Restart, ClockInv, FiresOncePerMinute
<1>4. CASE SetBack
  <2>1. clock' \in Nat
    BY <1>4, RunsAssumption DEF SetBack, ClockInv
  <2> QED
    BY <1>4, <2>1 DEF SetBack, ClockInv, FiresOncePerMinute
<1>5. CASE Turn /\ (Request \/ Outside)
  BY <1>1, <1>3, <1>4, <1>5 DEF Request, Outside, history
<1>6. CASE \E q \in Queries : Got(q)
  <2>1. UNCHANGED Guard
    BY <1>6 DEF Got
  <2> QED
    BY <1>1, <2>1
<1> QED
  BY <1>1, <1>2, <1>5, <1>6 DEF Next, vars, history

(* A schedule is not fired twice for a minute, unless the clock was set    *)
(* back and the guard was lost or full (app.ts:576-595, scheduler.ts;      *)
(* ScheduledRuns.tla, FiresOncePerMinute).                                 *)
THEOREM MinutesAreFiredOnce == Spec => []FiresOncePerMinute
<1>1. ClockInv => FiresOncePerMinute
  BY DEF ClockInv
<1> QED
  BY <1>1, ClockInvInit, ClockInvStep, PTL DEF Spec

-----------------------------------------------------------------------------
(* What a schedule shows of its runs.                                      *)
ScheduleType == [state : {"absent", "deleted"}]
                \union [state : {"stored"}, cron : Crons, enabled : BOOLEAN, live : BOOLEAN,
                        last : Ended \union {"none"}, patched : BOOLEAN]
AskType == [for : {"nothing", "schedule", "query"},
            schedule : Schedules \union {NoSchedule}, live : BOOLEAN]

(* Who is the source of a query or a job was created, and may be deleted   *)
(* since, but is not created again.                                        *)
CreatedIn(all, s) == s \in Schedules => all[s].state # "absent"
SourcesInv ==
    /\ schedules \in [Schedules -> ScheduleType] /\ asks \in [Queries -> AskType]
    /\ \A q \in Queries : /\ CreatedIn(schedules, asks[q].schedule)
                          /\ asks[q].for = "schedule" => asks[q].schedule \in Schedules
    /\ \A j \in DOMAIN jobs : /\ jobs[j].schedule \in Schedules \union {NoSchedule}
                              /\ CreatedIn(schedules, jobs[j].schedule)

(* The kinds of step that schedules see: an edit, the refusal of a run, an *)
(* end that is told; or none of these.                                     *)
Edit(s) == CreateSchedule(s) \/ UpdateSchedule(s) \/ DeleteSchedule(s)
Edits == (\E s \in Schedules : Edit(s)) /\ UNCHANGED <<jobs, asks, refused>>
Refusal == \E q \in Queries : /\ asks[q].for = "schedule" /\ Refuses(asks[q].schedule)
                              /\ asks' = [asks EXCEPT ![q] = Nothing]
Tells(j) == /\ jobs[j].told = "none" /\ jobs'[j].told \in Ended
            /\ \A i \in DOMAIN jobs \ {j} : jobs'[i].told = jobs[i].told
            /\ MarkRun(jobs[j].schedule, jobs'[j].told) /\ UNCHANGED <<asks, refused>>
Silent == /\ \A j \in DOMAIN jobs : jobs'[j].told \in Ended => jobs'[j].told = jobs[j].told
          /\ UNCHANGED <<schedules, refused>>

LEMMA EndsTells ==
    ASSUME JobsInv, NEW j \in DOMAIN jobs, NEW job, Shape(job),
           job.told = jobs[j].told, job.schedule = jobs[j].schedule, NEW told \in Ended,
           Ends(j, job, told), UNCHANGED <<asks, refused>>
    PROVE  Tells(j) \/ Silent
<1> DEFINE t == IF job.told = "none" THEN told ELSE job.told
<1>1. jobs' = [jobs EXCEPT ![j] = [job EXCEPT !.told = t]]
  BY DEF Ends
<1>2. jobs[j].told # "none" => t = job.told /\ UNCHANGED schedules
  BY DEF Ends
<1>3. jobs[j].told = "none" => t = told /\ MarkRun(job.schedule, t)
  BY DEF Ends
<1> HIDE DEF t
<1>4. PICK n \in Nat : DOMAIN jobs = 1 .. n /\ jobs = [i \in 1 .. n |-> jobs[i]]
  BY DEF JobsInv, IsSequence
<1>5. [job EXCEPT !.told = t].told = t
  BY DEF Shape, Fields
<1>6. jobs'[j].told = t /\ \A i \in DOMAIN jobs \ {j} : jobs'[i] = jobs[i]
  BY <1>1, <1>4, <1>5
<1>7. CASE jobs[j].told = "none"
  BY <1>3, <1>6, <1>7 DEF Tells
<1>8. CASE jobs[j].told # "none"
  BY <1>2, <1>6, <1>8 DEF Silent
<1> QED
  BY <1>7, <1>8

(* A step inside a job changes no more than that job, and not its end.     *)
LEMMA InsideIsSilent ==
    ASSUME JobsInv, NEW j \in DOMAIN jobs, NEW r, r.told = jobs[j].told,
           jobs' = [jobs EXCEPT ![j] = r], UNCHANGED <<schedules, refused>>
    PROVE  Silent
<1>1. PICK n \in Nat : DOMAIN jobs = 1 .. n /\ jobs = [i \in 1 .. n |-> jobs[i]]
  BY DEF JobsInv, IsSequence
<1> QED
  BY <1>1 DEF Silent

LEMMA RunningTells ==
    ASSUME JobsInv, NEW j \in DOMAIN jobs, NEW ok \in BOOLEAN, Running(j, ok),
           UNCHANGED <<asks, refused>>
    PROVE  Tells(j) \/ Silent
<1>1. Shape(jobs[j])
  BY DEF JobsInv
<1>2. CASE AccountStarts(j)
  <2>1. PICK a \in jobs[j].todo :
          jobs' = [jobs EXCEPT ![j].todo = jobs[j].todo \ {a}, ![j].acc[a] = "running"]
    BY <1>2 DEF AccountStarts
  <2> DEFINE r == [jobs[j] EXCEPT !.todo = jobs[j].todo \ {a},
                                  !.acc = [jobs[j].acc EXCEPT ![a] = "running"]]
  <2>2. jobs' = [jobs EXCEPT ![j] = r] /\ r.told = jobs[j].told
    BY <1>1, <2>1 DEF Shape, Fields
  <2> HIDE DEF r
  <2> QED
    BY <1>2, <2>2, InsideIsSilent DEF AccountStarts
<1>3. CASE AccountEnds(j, ok)
  <2>1. PICK a, outcome : jobs' = [jobs EXCEPT ![j].acc[a] = outcome]
    BY <1>3 DEF AccountEnds
  <2> DEFINE r == [jobs[j] EXCEPT !.acc = [jobs[j].acc EXCEPT ![a] = outcome]]
  <2>2. jobs' = [jobs EXCEPT ![j] = r] /\ r.told = jobs[j].told
    BY <1>1, <2>1 DEF Shape, Fields
  <2> HIDE DEF r
  <2> QED
    BY <1>3, <2>2, InsideIsSilent DEF AccountEnds
<1>4. CASE NextStep(j)
  <2> DEFINE r == [jobs[j] EXCEPT !.step = jobs[j].step + 1, !.todo = AccountsOf(j)]
  <2>1. jobs' = [jobs EXCEPT ![j] = r] /\ r.told = jobs[j].told
    BY <1>1, <1>4 DEF NextStep, Shape, Fields
  <2> HIDE DEF r
  <2> QED
    BY <1>4, <2>1, InsideIsSilent DEF NextStep
<1>5. CASE JobEnds(j, ok)
  <2>1. PICK s, told \in Ended : Ends(j, [jobs[j] EXCEPT !.alive = FALSE, !.status = s], told)
    BY <1>5 DEF JobEnds, Ended
  <2> DEFINE r == [jobs[j] EXCEPT !.alive = FALSE, !.status = s]
  <2>2. Shape(r) /\ r.told = jobs[j].told /\ r.schedule = jobs[j].schedule
    BY <1>1 DEF Shape, Fields
  <2> HIDE DEF r
  <2>3. Ends(j, r, told)
    BY <2>1 DEF r
  <2> QED
    BY <2>2, <2>3, EndsTells
<1>6. CASE JobFails(j)
  <2>1. PICK todo : Ends(j, [jobs[j] EXCEPT !.todo = todo, !.status = "failed"], "failed")
    <3>1. jobs[j] = [jobs[j] EXCEPT !.todo = jobs[j].todo]
      BY <1>1 DEF Shape, Fields
    <3>2. [jobs[j] EXCEPT !.status = "failed"]
          = [jobs[j] EXCEPT !.todo = jobs[j].todo, !.status = "failed"]
      BY <3>1
    <3> QED
      BY <1>6, <3>2 DEF JobFails
  <2> DEFINE r == [jobs[j] EXCEPT !.todo = todo, !.status = "failed"]
  <2>2. Shape(r) /\ r.told = jobs[j].told /\ r.schedule = jobs[j].schedule /\ "failed" \in Ended
    BY <1>1 DEF Shape, Fields, Ended
  <2>3. Ends(j, r, "failed")
    BY <2>1
  <2> HIDE DEF r
  <2> QED
    BY <2>2, <2>3, EndsTells
<1> QED
  BY <1>2, <1>3, <1>4, <1>5, <1>6 DEF Running

LEMMA CancelTells ==
    ASSUME JobsInv, NEW j \in DOMAIN jobs, CancelJob(j), UNCHANGED <<asks, refused>>
    PROVE  Tells(j) \/ Silent
<1>1. PICK late : Ends(j, [jobs[j] EXCEPT !.todo = late, !.status = "cancelled"], "cancelled")
  BY DEF CancelJob
<1> DEFINE r == [jobs[j] EXCEPT !.todo = late, !.status = "cancelled"]
<1>2. Shape(r) /\ r.told = jobs[j].told /\ r.schedule = jobs[j].schedule /\ "cancelled" \in Ended
  BY DEF JobsInv, Shape, Fields, Ended
<1>3. Ends(j, r, "cancelled")
  BY <1>1
<1> HIDE DEF r
<1> QED
  BY <1>2, <1>3, EndsTells

LEMMA RestartIsSilent == JobsInv /\ Restart => Silent
<1> SUFFICES ASSUME JobsInv, Restart, NEW j \in DOMAIN jobs, jobs'[j].told \in Ended
             PROVE  jobs'[j].told = jobs[j].told
  BY DEF Silent, Restart
<1> DEFINE t == IF jobs[j].told = "none" THEN "nobody" ELSE jobs[j].told
<1>1. jobs'[j] = [jobs[j] EXCEPT !.alive = FALSE, !.told = t]
  BY DEF Restart
<1>2. t # jobs[j].told => t = "nobody"
  OBVIOUS
<1> HIDE DEF t
<1>3. jobs'[j].told = t
  BY <1>1 DEF JobsInv, Shape, Fields
<1> QED
  BY <1>2, <1>3 DEF Ended

(* What a step does to the schedules, and to what they may show.           *)
LEMMA SchedulesMove ==
    JobsInv /\ [Next]_vars =>
        \/ Makes
        \/ Edits
        \/ Refusal
        \/ Continue /\ (Silent \/ \E j \in DOMAIN jobs : Tells(j))
<1> SUFFICES ASSUME JobsInv, [Next]_vars, ~Makes
             PROVE  Edits \/ Refusal \/ Silent \/ \E j \in DOMAIN jobs : Tells(j)
  BY JobsMove
<1>1. CASE UNCHANGED <<jobs, schedules, refused>>
  BY <1>1 DEF Silent
<1>2. CASE Request
  <2>1. \/ UNCHANGED <<jobs, schedules, refused>>
        \/ Edits
        \/ jobs' # jobs /\ UNCHANGED <<schedules, refused>> /\ (PostJob \/ \E j \in DOMAIN jobs : RetryJob(j))
        \/ UNCHANGED <<asks, refused>> /\ \E j \in DOMAIN jobs : CancelJob(j)
    BY <1>2 DEF Request, history, Edits, Edit
  <2>2. ASSUME UNCHANGED <<schedules, refused>>, PostJob \/ \E j \in DOMAIN jobs : RetryJob(j)
        PROVE  Makes
    <3>1. CASE PostJob
      <4>1. PICK live, steps, accounts : ~Unsafe(live) /\ CreateJob(NoSchedule, 0, "none", live, steps, accounts)
        BY <3>1 DEF PostJob
      <4> QED
        BY <2>2, <4>1 DEF Makes
    <3>2. ASSUME NEW j \in DOMAIN jobs, RetryJob(j)
          PROVE  Makes
      <4>1. PICK live, outcome :
              ~Unsafe(live) /\ CreateJob(NoSchedule, j, outcome, live, jobs[j].steps, RetryAccounts(j, outcome))
        BY <3>2 DEF RetryJob
      <4> QED
        BY <2>2, <3>2, <4>1 DEF Makes
    <3> QED
      BY <2>2, <3>1, <3>2
  <2> QED
    BY <1>1, <2>1, <2>2, CancelTells
<1>3. CASE Outside
  BY <1>1, <1>3, RestartIsSilent DEF Outside, SetBack, history
<1>4. ASSUME NEW q \in Queries, Got(q)
      PROVE  Refusal \/ Silent
  <2> DEFINE made == /\ ~Unsafe(asks[q].live) /\ UNCHANGED <<schedules, refused>>
                     /\ \E steps, accounts : CreateJob(asks[q].schedule, 0, "none", asks[q].live, steps, accounts)
  <2>1. \/ UNCHANGED <<jobs, schedules, refused>>
        \/ asks[q].for = "schedule" /\ Refuses(asks[q].schedule)
        \/ made
    BY <1>4 DEF Got, Triggered
  <2>2. CASE made
    BY <1>4, <2>2 DEF Makes
  <2>3. CASE asks[q].for = "schedule" /\ Refuses(asks[q].schedule)
    BY <1>4, <2>3 DEF Got, Refusal
  <2>4. CASE UNCHANGED <<jobs, schedules, refused>>
    BY <2>4 DEF Silent
  <2> HIDE DEF made
  <2> QED
    BY <2>1, <2>2, <2>3, <2>4
<1>5. ASSUME NEW ok \in BOOLEAN, NEW j \in DOMAIN jobs, Running(j, ok), UNCHANGED <<asks, history>>
      PROVE  Tells(j) \/ Silent
  BY <1>5, RunningTells DEF history
<1>6. \/ UNCHANGED <<jobs, schedules, refused>> \/ Request \/ Outside \/ \E q \in Queries : Got(q)
      \/ \E ok \in BOOLEAN, j \in DOMAIN jobs : Running(j, ok) /\ UNCHANGED <<asks, history>>
  BY DEF Next, vars, Tick, history
<1> QED
  BY <1>1, <1>2, <1>3, <1>4, <1>5, <1>6

(* A record of a schedule that is marked keeps its other fields.           *)
LEMMA MarkedType ==
    ASSUME NEW r \in ScheduleType, r.state = "stored", NEW o \in Ended
    PROVE  LET m == [r EXCEPT !.last = o, !.patched = FALSE]
           IN  m \in ScheduleType /\ m.state = "stored" /\ m.last = o
BY DEF ScheduleType

LEMMA Marked ==
    ASSUME schedules \in [Schedules -> ScheduleType], NEW s, NEW o \in Ended, MarkRun(s, o),
           s \in Schedules \union {NoSchedule}
    PROVE  /\ schedules' \in [Schedules -> ScheduleType]
           /\ \A t \in Schedules : /\ schedules'[t].state = schedules[t].state
                                   /\ t # s => schedules'[t] = schedules[t]
           /\ s \in Schedules /\ Stored(s) => schedules'[s].last = o
<1>1. CASE s # NoSchedule /\ Stored(s)
  <2> DEFINE r == [schedules[s] EXCEPT !.last = o, !.patched = FALSE]
  <2>1. schedules' = [schedules EXCEPT ![s] = r]
    BY <1>1 DEF MarkRun
  <2>2. r \in ScheduleType /\ r.state = "stored" /\ r.last = o /\ schedules[s].state = "stored"
    BY <1>1, MarkedType DEF Stored
  <2> HIDE DEF r
  <2> QED
    BY <1>1, <2>1, <2>2
<1>2. CASE ~(s # NoSchedule /\ Stored(s))
  <2>1. schedules' = schedules
    BY <1>2 DEF MarkRun
  <2> QED
    BY <1>2, <2>1, RunsAssumption
<1> QED
  BY <1>1, <1>2

(* An edit touches one schedule, which shows what it showed before, unless *)
(* it is marked as patched; one that is created did not exist.             *)
LEMMA EditEffect ==
    ASSUME SourcesInv, NEW s \in Schedules, Edit(s)
    PROVE  /\ schedules' \in [Schedules -> ScheduleType] /\ schedules'[s].state # "absent"
           /\ \A t \in Schedules \ {s} : schedules'[t] = schedules[t]
           /\ schedules'[s].state = "stored" =>
                 \/ schedules[s].state = "absent" /\ schedules'[s].last = "none"
                 \/ /\ schedules[s].state = "stored"
                    /\ \/ schedules'[s].patched
                       \/ /\ schedules'[s].last = schedules[s].last
                          /\ schedules'[s].patched = schedules[s].patched
<1>1. schedules \in [Schedules -> ScheduleType]
  BY DEF SourcesInv
<1>2. CASE CreateSchedule(s)
  <2>1. PICK cron \in Crons, live \in BOOLEAN :
          schedules' = [schedules EXCEPT ![s] = Scheduled(cron, TRUE, live)]
    BY <1>2 DEF CreateSchedule
  <2>2. Scheduled(cron, TRUE, live) \in ScheduleType
    BY DEF Scheduled, ScheduleType
  <2>3. schedules[s].state = "absent"
    BY <1>2 DEF CreateSchedule, Absent
  <2> QED
    BY <1>1, <2>1, <2>2, <2>3 DEF Scheduled
<1>3. CASE UpdateSchedule(s)
  <2>1. PICK patch \in Patch : schedules' = [schedules EXCEPT ![s] = Updated(s, patch)]
    BY <1>3 DEF UpdateSchedule
  <2>2. schedules[s] \in ScheduleType /\ schedules[s].state = "stored"
    BY <1>1, <1>3 DEF UpdateSchedule, Stored
  <2> DEFINE marked == schedules[s].patched \/ patch.last # schedules[s].last
  <2>3. marked \in BOOLEAN /\ (~marked => schedules[s].patched = FALSE /\ patch.last = schedules[s].last)
    BY <2>2 DEF ScheduleType
  <2>4. Updated(s, patch) = [schedules[s] EXCEPT !.cron = patch.cron, !.enabled = patch.enabled,
                               !.live = patch.live, !.last = patch.last, !.patched = marked]
    BY DEF Updated
  <2> HIDE DEF marked
  <2>5. /\ Updated(s, patch) \in ScheduleType /\ Updated(s, patch).state = "stored"
        /\ Updated(s, patch).last = patch.last /\ Updated(s, patch).patched = marked
    BY <2>2, <2>3, <2>4 DEF ScheduleType, Patch
  <2>6. schedules'[s] = Updated(s, patch)
    BY <1>1, <2>1
  <2>7. \/ schedules'[s].patched
        \/ schedules'[s].last = schedules[s].last /\ schedules'[s].patched = schedules[s].patched
    BY <2>3, <2>5, <2>6
  <2> QED
    BY <1>1, <2>1, <2>2, <2>5, <2>6, <2>7
<1>4. CASE DeleteSchedule(s)
  <2>1. [state |-> "deleted"] \in ScheduleType
    BY DEF ScheduleType
  <2> QED
    BY <1>1, <1>4, <2>1 DEF DeleteSchedule
<1> QED
  BY <1>2, <1>3, <1>4 DEF Edit

(* What was created stays so.                                              *)
LEMMA CreatedStays ==
    ASSUME SourcesInv, JobsInv, [Next]_vars
    PROVE  /\ schedules' \in [Schedules -> ScheduleType]
           /\ \A s : CreatedIn(schedules, s) => CreatedIn(schedules', s)
<1>1. schedules \in [Schedules -> ScheduleType]
  BY DEF SourcesInv
<1>2. CASE UNCHANGED schedules
  BY <1>1, <1>2 DEF CreatedIn
<1>3. CASE Edits
  BY <1>1, <1>3, EditEffect DEF Edits, CreatedIn
<1>4. CASE Refusal
  <2>1. PICK q \in Queries : asks[q].for = "schedule" /\ MarkRun(asks[q].schedule, "failed")
    BY <1>4 DEF Refusal, Refuses
  <2>2. asks[q].schedule \in Schedules /\ "failed" \in Ended
    BY <2>1 DEF SourcesInv, Ended
  <2> QED
    BY <1>1, <2>1, <2>2, Marked DEF CreatedIn
<1>5. ASSUME NEW j \in DOMAIN jobs, Tells(j)
      PROVE  /\ schedules' \in [Schedules -> ScheduleType]
             /\ \A s : CreatedIn(schedules, s) => CreatedIn(schedules', s)
  <2>1. jobs[j].schedule \in Schedules \union {NoSchedule}
    BY DEF SourcesInv
  <2> QED
    BY <1>1, <1>5, <2>1, Marked DEF Tells, CreatedIn
<1> QED
  BY <1>2, <1>3, <1>4, <1>5, SchedulesMove DEF Makes, Silent

LEMMA SourcesInvInit == Init => SourcesInv
<1> SUFFICES ASSUME Init PROVE SourcesInv
  OBVIOUS
<1>1. Absent \in ScheduleType
  BY DEF Absent, ScheduleType
<1>2. \A cron \in Crons : Scheduled(cron, TRUE, TRUE) \in ScheduleType
  BY DEF Scheduled, ScheduleType
<1>3. schedules \in [Schedules -> ScheduleType]
  BY <1>1, <1>2 DEF Init
<1>4. Nothing \in AskType /\ Nothing.schedule = NoSchedule /\ Nothing.for = "nothing"
  BY DEF Nothing, AskType
<1>5. asks \in [Queries -> AskType] /\ \A q \in Queries : asks[q] = Nothing
  BY <1>4 DEF Init
<1>6. jobs = <<>>
  BY DEF Init
<1> QED
  BY <1>3, <1>4, <1>5, <1>6, RunsAssumption DEF SourcesInv, CreatedIn

(* What a query in progress is for: it is over, it stays, or it begins for *)
(* a schedule that is stored, or for none.                                 *)
LEMMA AsksMove ==
    [Next]_vars =>
        \/ UNCHANGED asks
        \/ asks' = [q \in Queries |-> Nothing]
        \/ \E q \in Queries : asks' = [asks EXCEPT ![q] = Nothing]
        \/ \E q \in Queries : asks' = [asks EXCEPT ![q] =
              [for |-> "query", schedule |-> NoSchedule, live |-> FALSE]]
        \/ \E q \in Queries, s \in Schedules :
              /\ Stored(s) /\ UNCHANGED schedules
              /\ asks' = [asks EXCEPT ![q] =
                    [for |-> "schedule", schedule |-> s, live |-> schedules[s].live]]
<1> SUFFICES ASSUME [Next]_vars, asks' # asks
             PROVE  \/ asks' = [q \in Queries |-> Nothing]
                    \/ \E q \in Queries : asks' = [asks EXCEPT ![q] = Nothing]
                    \/ \E q \in Queries : asks' = [asks EXCEPT ![q] =
                          [for |-> "query", schedule |-> NoSchedule, live |-> FALSE]]
                    \/ \E q \in Queries, s \in Schedules :
                          /\ Stored(s) /\ UNCHANGED schedules
                          /\ asks' = [asks EXCEPT ![q] =
                                [for |-> "schedule", schedule |-> s, live |-> schedules[s].live]]
  OBVIOUS
<1>1. \/ Restart
      \/ \E q \in Queries : Got(q)
      \/ QueryAccounts
      \/ UNCHANGED schedules /\ \E s \in Schedules : RunSchedule(s)
      \/ Tick
  BY DEF Next, vars, Request, Outside, SetBack
<1>2. CASE Tick
  BY <1>2 DEF Tick, TickAt, AskFor, Fires
<1> QED
  BY <1>1, <1>2 DEF Restart, Got, QueryAccounts, RunSchedule, AskFor

LEMMA SourcesInvStep == SourcesInv /\ JobsInv /\ [Next]_vars => SourcesInv'
<1> SUFFICES ASSUME SourcesInv, JobsInv, [Next]_vars PROVE SourcesInv'
  OBVIOUS
<1>1. schedules' \in [Schedules -> ScheduleType] /\ \A s : CreatedIn(schedules, s) => CreatedIn(schedules', s)
  BY CreatedStays
<1>2. Nothing \in AskType /\ Nothing.schedule = NoSchedule /\ Nothing.for = "nothing"
  BY DEF Nothing, AskType
<1>3. CreatedIn(schedules', NoSchedule)
  BY RunsAssumption DEF CreatedIn
<1>4. /\ asks' \in [Queries -> AskType]
      /\ \A q \in Queries : /\ CreatedIn(schedules', asks'[q].schedule)
                            /\ asks'[q].for = "schedule" => asks'[q].schedule \in Schedules
  <2>1. asks \in [Queries -> AskType]
    BY DEF SourcesInv
  <2>2. \A q \in Queries : CreatedIn(schedules', asks[q].schedule)
    BY <1>1 DEF SourcesInv
  <2>3. ASSUME NEW q \in Queries, NEW a \in AskType, asks' = [asks EXCEPT ![q] = a],
               CreatedIn(schedules', a.schedule), a.for = "schedule" => a.schedule \in Schedules
        PROVE  <1>4
    <3>1. \A p \in Queries : asks'[p] = IF p = q THEN a ELSE asks[p]
      BY <2>1, <2>3
    <3> QED
      BY <2>1, <2>2, <2>3, <3>1 DEF SourcesInv
  <2>4. CASE UNCHANGED asks
    BY <2>1, <2>2, <2>4 DEF SourcesInv
  <2>5. CASE asks' = [q \in Queries |-> Nothing]
    BY <1>2, <1>3, <2>5
  <2>6. CASE \E q \in Queries : asks' = [asks EXCEPT ![q] = Nothing]
    BY <1>2, <1>3, <2>3, <2>6
  <2>7. CASE \E q \in Queries : asks' = [asks EXCEPT ![q] =
               [for |-> "query", schedule |-> NoSchedule, live |-> FALSE]]
    <3>1. [for |-> "query", schedule |-> NoSchedule, live |-> FALSE] \in AskType
      BY DEF AskType
    <3> QED
      BY <1>3, <2>3, <2>7, <3>1
  <2>8. ASSUME NEW q \in Queries, NEW s \in Schedules, Stored(s), UNCHANGED schedules,
               asks' = [asks EXCEPT ![q] =
                  [for |-> "schedule", schedule |-> s, live |-> schedules[s].live]]
        PROVE  <1>4
    <3>1. schedules[s] \in ScheduleType /\ schedules[s].state = "stored"
      BY <2>8 DEF SourcesInv, Stored
    <3>2. schedules[s].live \in BOOLEAN
      BY <3>1 DEF ScheduleType
    <3>3. [for |-> "schedule", schedule |-> s, live |-> schedules[s].live] \in AskType
      BY <3>2 DEF AskType
    <3>4. CreatedIn(schedules', s)
      BY <2>8, <3>1 DEF CreatedIn
    <3> QED
      BY <2>3, <2>8, <3>3, <3>4
  <2> QED
    BY <2>4, <2>5, <2>6, <2>7, <2>8, AsksMove
<1>5. \A j \in DOMAIN jobs' : /\ jobs'[j].schedule \in Schedules \union {NoSchedule}
                              /\ CreatedIn(schedules', jobs'[j].schedule)
  <2>1. \A j \in DOMAIN jobs : /\ jobs[j].schedule \in Schedules \union {NoSchedule}
                               /\ CreatedIn(schedules', jobs[j].schedule)
    BY <1>1 DEF SourcesInv
  <2>2. CASE Continue
    BY <2>1, <2>2 DEF Continue, Continues
  <2>3. CASE Makes
    <3>1. PICK from, of, by, live, steps, accounts :
            /\ jobs' = Append(jobs, Job(from, of, by, live, steps, accounts))
            /\ from = NoSchedule \/ \E q \in Queries : from = asks[q].schedule
      BY <2>3 DEF Makes, CreateJob
    <3>2. from \in Schedules \union {NoSchedule} /\ CreatedIn(schedules', from)
      BY <1>1, <1>3, <3>1 DEF SourcesInv, AskType
    <3>3. Job(from, of, by, live, steps, accounts).schedule = from
      BY DEF Job
    <3>4. /\ \A i \in DOMAIN jobs : jobs'[i] = jobs[i]
          /\ \A i \in DOMAIN jobs' \ DOMAIN jobs : jobs'[i] = Job(from, of, by, live, steps, accounts)
      BY <3>1, AppendToSequence DEF JobsInv
    <3> QED
      BY <2>1, <3>2, <3>3, <3>4
  <2> QED
    BY <2>2, <2>3, JobsMove
<1> QED
  BY <1>1, <1>4, <1>5 DEF SourcesInv

(* A run whose end was told stays a run of its schedule.                   *)
IsRun(js, j, s) == j \in DOMAIN js /\ js[j].schedule = s /\ js[j].told \in Ended

LEMMA RunsStay ==
    ASSUME JobsInv, [Next]_vars, NEW j, NEW s, IsRun(jobs, j, s)
    PROVE  IsRun(jobs', j, s) /\ jobs'[j].told = jobs[j].told
<1>1. CASE Continue
  BY <1>1 DEF Continue, Continues, IsRun, Ended
<1>2. CASE Makes
  <2>1. PICK from, of, by, live, steps, accounts :
          jobs' = Append(jobs, Job(from, of, by, live, steps, accounts))
    BY <1>2 DEF Makes, CreateJob
  <2>2. DOMAIN jobs \subseteq DOMAIN jobs' /\ \A i \in DOMAIN jobs : jobs'[i] = jobs[i]
    BY <2>1, AppendToSequence DEF JobsInv
  <2> QED
    BY <2>2 DEF IsRun
<1> QED
  BY <1>1, <1>2, JobsMove

(* A job that is made has not ended.                                       *)
LEMMA MadeIsNoRun ==
    ASSUME JobsInv, Makes, NEW j, NEW s, IsRun(jobs', j, s)
    PROVE  IsRun(jobs, j, s)
<1>1. PICK from, of, by, live, steps, accounts :
        jobs' = Append(jobs, Job(from, of, by, live, steps, accounts))
  BY DEF Makes, CreateJob
<1>2. /\ \A i \in DOMAIN jobs : jobs'[i] = jobs[i]
      /\ \A i \in DOMAIN jobs' \ DOMAIN jobs : jobs'[i] = Job(from, of, by, live, steps, accounts)
  BY <1>1, AppendToSequence DEF JobsInv
<1>3. Job(from, of, by, live, steps, accounts).told = "none"
  BY DEF Job
<1> QED
  BY <1>2, <1>3 DEF IsRun, Ended

(* The last status, of one schedule.                                       *)
ShowsARun(js, all, refusals, s) ==
    \/ all[s].patched
    \/ /\ (\E j : IsRun(js, j, s)) => all[s].last # "none"
       /\ all[s].last # "none" =>
             \/ all[s].last = "failed" /\ s \in refusals
             \/ \E j : IsRun(js, j, s) /\ js[j].told = all[s].last

LEMMA LastStatusByJob ==
    LastStatusIsOfARun <=>
        \A s \in Schedules : Stored(s) => ShowsARun(jobs, schedules, refused, s)
BY DEF LastStatusIsOfARun, RunsOf, ShowsARun, IsRun

(* Nothing that a schedule shows has changed.                              *)
LEMMA SameShown ==
    ASSUME JobsInv, [Next]_vars, NEW s \in Schedules,
           ShowsARun(jobs, schedules, refused, s), schedules'[s].last = schedules[s].last,
           schedules'[s].patched = schedules[s].patched, refused \subseteq refused', \A j : IsRun(jobs', j, s) => IsRun(jobs, j, s)
    PROVE  ShowsARun(jobs', schedules', refused', s)
BY RunsStay DEF ShowsARun

LEMMA LastStatusStep ==
    ASSUME SourcesInv, JobsInv, LastStatusIsOfARun, [Next]_vars, NEW s \in Schedules,
           schedules'[s].state = "stored"
    PROVE  ShowsARun(jobs', schedules', refused', s)
<1>1. \A t \in Schedules : Stored(t) => ShowsARun(jobs, schedules, refused, t)
  BY LastStatusByJob
<1>2. CASE Makes
  <2>1. schedules' = schedules /\ refused' = refused
    BY <1>2 DEF Makes
  <2>2. ShowsARun(jobs, schedules, refused, s)
    BY <1>1, <2>1 DEF Stored
  <2> QED
    BY <1>2, <2>1, <2>2, MadeIsNoRun, SameShown
<1>3. CASE Edits
  <2>1. PICK e \in Schedules : Edit(e)
    BY <1>3 DEF Edits
  <2>2. jobs' = jobs /\ refused' = refused
    BY <1>3 DEF Edits
  <2>3. CASE s # e \/ schedules[e].state = "stored"
    <3>1. /\ Stored(s)
          /\ \/ schedules'[s].patched
             \/ schedules'[s].last = schedules[s].last /\ schedules'[s].patched = schedules[s].patched
      BY <2>1, <2>3, EditEffect DEF Stored
    <3>2. CASE schedules'[s].patched
      BY <3>2 DEF ShowsARun
    <3>3. CASE schedules'[s].last = schedules[s].last /\ schedules'[s].patched = schedules[s].patched
      BY <1>1, <2>2, <3>1, <3>3, SameShown
    <3> QED
      BY <3>1, <3>2, <3>3
  <2>4. CASE s = e /\ schedules[e].state # "stored"
    <3>1. schedules[s].state = "absent" /\ schedules'[s].last = "none"
      BY <2>1, <2>4, EditEffect
    <3>2. ~ \E j : IsRun(jobs, j, s)
      BY <3>1 DEF SourcesInv, CreatedIn, IsRun
    <3> QED
      BY <2>2, <3>1, <3>2 DEF ShowsARun
  <2> QED
    BY <2>3, <2>4
<1>4. CASE Refusal
  <2>1. PICK q \in Queries : asks[q].for = "schedule" /\ Refuses(asks[q].schedule)
    BY <1>4 DEF Refusal
  <2> DEFINE r == asks[q].schedule
  <2>2. /\ r \in Schedules /\ MarkRun(r, "failed") /\ "failed" \in Ended
        /\ refused' = refused \union {r} /\ jobs' = jobs
    BY <2>1 DEF SourcesInv, Refuses, Ended
  <2> HIDE DEF r
  <2>3. /\ \A t \in Schedules : /\ schedules'[t].state = schedules[t].state
                                /\ t # r => schedules'[t] = schedules[t]
        /\ Stored(r) => schedules'[r].last = "failed"
    BY <2>2, Marked DEF SourcesInv
  <2>4. Stored(s)
    BY <2>3 DEF Stored
  <2>5. CASE s = r
    BY <2>2, <2>3, <2>4, <2>5 DEF ShowsARun
  <2>6. CASE s # r
    BY <1>1, <2>2, <2>3, <2>4, <2>6, SameShown
  <2> QED
    BY <2>5, <2>6
<1>5. CASE Continue /\ Silent
  <2>1. schedules' = schedules /\ refused' = refused
    BY <1>5 DEF Silent
  <2>2. ShowsARun(jobs, schedules, refused, s)
    BY <1>1, <2>1 DEF Stored
  <2>3. \A j : IsRun(jobs', j, s) => IsRun(jobs, j, s)
    BY <1>5 DEF IsRun, Continue, Continues, Silent
  <2> QED
    BY <2>1, <2>2, <2>3, SameShown
<1>6. ASSUME NEW k \in DOMAIN jobs, Continue, Tells(k)
      PROVE  ShowsARun(jobs', schedules', refused', s)
  <2> DEFINE r == jobs[k].schedule
  <2>1. /\ r \in Schedules \union {NoSchedule} /\ MarkRun(r, jobs'[k].told)
        /\ jobs'[k].told \in Ended /\ refused' = refused
        /\ jobs'[k].schedule = r /\ DOMAIN jobs' = DOMAIN jobs
    BY <1>6 DEF SourcesInv, Tells, Continue, Continues
  <2> HIDE DEF r
  <2>2. /\ \A t \in Schedules : /\ schedules'[t].state = schedules[t].state
                                /\ t # r => schedules'[t] = schedules[t]
        /\ r \in Schedules /\ Stored(r) => schedules'[r].last = jobs'[k].told
    BY <2>1, Marked DEF SourcesInv
  <2>3. Stored(s)
    BY <2>2 DEF Stored
  <2>4. CASE s = r
    <3>1. IsRun(jobs', k, s) /\ schedules'[s].last = jobs'[k].told
      BY <1>6, <2>1, <2>2, <2>3, <2>4 DEF IsRun
    <3> QED
      BY <2>1, <3>1 DEF ShowsARun, Ended
  <2>5. CASE s # r
    <3>1. \A j : IsRun(jobs', j, s) => IsRun(jobs, j, s)
      BY <1>6, <2>1, <2>5 DEF IsRun, Tells, Continue, Continues
    <3> QED
      BY <1>1, <2>1, <2>2, <2>3, <2>5, <3>1, SameShown
  <2> QED
    BY <2>4, <2>5
<1> QED
  BY <1>2, <1>3, <1>4, <1>5, <1>6, SchedulesMove

(* What a schedule shows as its last status was told of a run of it, and   *)
(* it shows one once a run has ended, as long as no request has written    *)
(* another one since (scheduler.ts:88-121, app.ts:85-147, 532-539;         *)
(* ScheduledRuns.tla, LastStatusIsOfARun).                                 *)
THEOREM SchedulesShowTheirRuns == Spec => []LastStatusIsOfARun
<1>1. Init => LastStatusIsOfARun
  <2> SUFFICES ASSUME Init PROVE \A s \in Schedules : Stored(s) => ShowsARun(jobs, schedules, refused, s)
    BY LastStatusByJob
  <2>1. jobs = <<>> /\ \A s \in Schedules : Stored(s) => schedules[s].last = "none"
    BY DEF Init, Stored, Absent, Scheduled
  <2> QED
    BY <2>1 DEF ShowsARun, IsRun
<1>2. SourcesInv /\ JobsInv /\ LastStatusIsOfARun /\ [Next]_vars => LastStatusIsOfARun'
  <2> SUFFICES ASSUME SourcesInv, JobsInv, LastStatusIsOfARun, [Next]_vars
               PROVE  LastStatusIsOfARun'
    OBVIOUS
  <2>1. \A s \in Schedules : Stored(s)' => ShowsARun(jobs', schedules', refused', s)
    BY LastStatusStep DEF Stored
  <2> QED
    BY <2>1 DEF LastStatusIsOfARun, RunsOf, ShowsARun, IsRun, Stored
<1> QED
  BY <1>1, <1>2, JobsInvInit, JobsInvStep, SourcesInvInit, SourcesInvStep, PTL DEF Spec
=============================================================================

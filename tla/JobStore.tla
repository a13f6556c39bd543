------------------------------ MODULE JobStore ------------------------------
(***************************************************************************)
(* What a job store promises its callers (the JobStore interface): one map *)
(* of jobs, and every operation answers with a copy of what it did or      *)
(* read.  inMemoryJobStore.ts is the source of all operations but the      *)
(* list, which it gives in the order of creation calls: the list here is   *)
(* that of the file store, newest first.  FileJobStore is shown to         *)
(* implement this module.                                                  *)
(*                                                                         *)
(* Events, logs and messages of a job are left out, and so is the summary, *)
(* which both stores compute from the accounts before they answer.         *)
(***************************************************************************)
EXTENDS Integers, Sequences, FiniteSets

CONSTANTS
    JobIds,         \* the random ids of jobs
    Accounts,
    JobStatus,      \* the statuses are opaque to a store, but for "queued"
    AccountStatus,
    Times,          \* what the wall clock may show when a job is created
    NoJob           \* undefined, where a job is looked for and not found

\* "none" marks an account that is not part of the job.
Job ==
    [status: JobStatus,
     accts: [Accounts -> AccountStatus \cup {"none"}],
     createdAt: Times]

Reply == [ok: BOOLEAN, jobs: Seq(JobIds \X Job)]

Answer(js) == [ok |-> TRUE, jobs |-> js]
Thrown == [ok |-> FALSE, jobs |-> <<>>]

\* The lists of a set of jobs, with their ids, by descending createdAt.  Jobs of
\* one instant may come in any order: it depends on maps and directories.
NewestFirst(js) ==
    {s \in [1..Cardinality(js) -> js] :
        \A i, k \in DOMAIN s : i < k => s[i] # s[k] /\ s[k][2].createdAt <= s[i][2].createdAt}

CreatedJob(accts, t) ==
    [status |-> "queued",
     accts |-> [a \in Accounts |-> IF a \in accts THEN "queued" ELSE "none"],
     createdAt |-> t]

JobMarked(job, s) == [job EXCEPT !.status = s]
AccountMarked(job, a, s) == [job EXCEPT !.accts[a] = s]
AccountInJob(job, a) == job.accts[a] # "none"

VARIABLES
    jobs,           \* the map of the store
    reply           \* what the last call returned

storeVars == <<jobs, reply>>

TypeOK ==
    /\ jobs \in [JobIds -> Job \cup {NoJob}]
    /\ reply \in Reply

Init ==
    /\ jobs = [id \in JobIds |-> NoJob]
    /\ reply = Answer(<<>>)

CreateJob(id, accts, t) ==
    /\ jobs[id] = NoJob
    /\ jobs' = [jobs EXCEPT ![id] = CreatedJob(accts, t)]
    /\ reply' = Answer(<< <<id, CreatedJob(accts, t)>> >>)

GetJob(id) ==
    /\ reply' = Answer(IF jobs[id] = NoJob THEN <<>> ELSE << <<id, jobs[id]>> >>)
    /\ UNCHANGED jobs

ListJobs ==
    /\ \E s \in NewestFirst({<<id, jobs[id]>> : id \in {i \in JobIds : jobs[i] # NoJob}}) :
          reply' = Answer(s)
    /\ UNCHANGED jobs

\* An operation on a job the store does not have throws.
MutateMissing(id) ==
    /\ jobs[id] = NoJob
    /\ reply' = Thrown
    /\ UNCHANGED jobs

Mutate(id, job) ==
    /\ jobs' = [jobs EXCEPT ![id] = job]
    /\ reply' = Answer(<< <<id, job>> >>)

MarkJob(id, s) ==
    /\ jobs[id] # NoJob
    /\ Mutate(id, JobMarked(jobs[id], s))

MarkAccount(id, a, s) ==
    /\ jobs[id] # NoJob /\ AccountInJob(jobs[id], a)
    /\ Mutate(id, AccountMarked(jobs[id], a, s))

LogAccountStep(id, a) ==
    /\ jobs[id] # NoJob /\ AccountInJob(jobs[id], a)
    /\ Mutate(id, jobs[id])

MutateStranger(id, a) ==
    /\ jobs[id] # NoJob /\ ~AccountInJob(jobs[id], a)
    /\ reply' = Thrown
    /\ UNCHANGED jobs

Next ==
    \/ ListJobs
    \/ \E id \in JobIds :
          \/ \E accts \in SUBSET Accounts, t \in Times : CreateJob(id, accts, t)
          \/ GetJob(id)
          \/ MutateMissing(id)
          \/ \E s \in JobStatus : MarkJob(id, s)
          \/ \E a \in Accounts :
                \/ \E s \in AccountStatus : MarkAccount(id, a, s)
                \/ LogAccountStep(id, a)
                \/ MutateStranger(id, a)

Spec == Init /\ [][Next]_storeVars
=============================================================================

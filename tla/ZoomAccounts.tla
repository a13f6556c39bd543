----------------------------- MODULE ZoomAccounts -----------------------------
(***************************************************************************)
(* Queries for the sub accounts over the Zoom API (src/zoom/api.ts), which *)
(* share a token and its refresh (src/zoom/oauth.ts), with retries         *)
(* (src/automation/retry.ts).                                              *)
(*                                                                         *)
(* The event loop runs one callback and then the continuations it woke,    *)
(* which are in micro, before anything else happens.                       *)
(***************************************************************************)
EXTENDS Naturals, FiniteSets

CONSTANTS Queries,       \* queries in progress at a time
          NoRefresh,     \* no shared promise
          ApiAttempts,   \* attempts at a page
          MaxPages       \* bound: pages of the list of accounts

ASSUME ZoomAssumption == /\ ApiAttempts \in Nat \ {0} /\ MaxPages \in Nat \ {0}
                         /\ NoRefresh \notin Queries /\ IsFiniteSet(Queries)

VARIABLES fresh,      \* there is a token that is not about to expire
          refreshes,  \* requests for a token in flight, by who began them
          shared,     \* refreshPromise: one of those, or NoRefresh
          query,      \* [pc, page, attempt, on]; on is the refresh it awaits
          micro       \* continuations to run: [query, got]

zoom == <<fresh, refreshes, shared, query, micro>>

Query(pc, page, attempt, on) == [pc |-> pc, page |-> page, attempt |-> attempt, on |-> on]
Idle == Query("idle", 1, 1, NoRefresh)
Outcomes == {"accounts", "none", "error"}
Waiting(r) == {q \in Queries : query[q].pc = "waiting" /\ query[q].on = r}
Wakes(q, got) == [query |-> q, got |-> got]
Turn == micro = {}

ZoomInit == /\ fresh = FALSE /\ refreshes = {} /\ shared = NoRefresh
            /\ query = [q \in Queries |-> Idle] /\ micro = {}

(* getAccessToken, and the request that follows at once when it has one.   *)
AskAlone(q, page, attempt) ==
    /\ refreshes' = (IF fresh THEN refreshes ELSE refreshes \union {q})
    /\ query' = [query EXCEPT ![q] = Query(IF fresh THEN "listing" ELSE "waiting", page,
                                           attempt, IF fresh THEN NoRefresh ELSE q)]
    /\ UNCHANGED <<shared, fresh>>
Ask(q, page, attempt) ==
    IF fresh
    THEN /\ query' = [query EXCEPT ![q] = Query("listing", page, attempt, NoRefresh)]
         /\ UNCHANGED <<refreshes, shared, fresh>>
    ELSE LET on == IF shared = NoRefresh THEN q ELSE shared
         IN /\ shared' = on /\ refreshes' = refreshes \union {on}
            /\ query' = [query EXCEPT ![q] = Query("waiting", page, attempt, on)]
            /\ UNCHANGED fresh

Begin(q) == query[q] = Idle /\ Ask(q, 1, 1) /\ UNCHANGED micro

(* A token request ends, its own retries included, and wakes all who wait. *)
RefreshSettles(r, ok) ==
    /\ Turn /\ r \in refreshes /\ refreshes' = refreshes \ {r}
    /\ fresh' = (fresh \/ ok)
    /\ micro' = {Wakes(q, IF ok THEN "token" ELSE "refused") : q \in Waiting(r)}
    /\ UNCHANGED <<shared, query>>

(* retry(): the attempt failed, and another is made after a delay, or none *)
(* is made: the error is not worth it or the attempts are used up.         *)
Retried(q) == /\ query[q].attempt < ApiAttempts
              /\ query' = [query EXCEPT ![q].pc = "backoff", ![q].on = NoRefresh]
GivenUp(q) == query' = [query EXCEPT ![q] = Idle]

(* A waiter goes on: each clears the shared promise in its finally.        *)
Resume(q) ==
    /\ shared' = NoRefresh /\ UNCHANGED <<fresh, refreshes>>
    /\ \/ /\ Wakes(q, "token") \in micro /\ micro' = micro \ {Wakes(q, "token")}
          /\ query' = [query EXCEPT ![q].pc = "listing", ![q].on = NoRefresh]
       \/ /\ Wakes(q, "refused") \in micro
          /\ \/ Retried(q) /\ micro' = micro \ {Wakes(q, "refused")}
             \/ /\ GivenUp(q)
                /\ micro' = (micro \ {Wakes(q, "refused")}) \union {Wakes(q, "error")}

(* The answer to a request for a page: another page, or the end of a list  *)
(* that has accounts; or the end of one that has none, or an error.        *)
Answered(q, ok) ==
    /\ Turn /\ query[q].pc = "listing"
    /\ \/ ok /\ query[q].page < MaxPages /\ Ask(q, query[q].page + 1, 1) /\ UNCHANGED micro
       \/ ~ok /\ Retried(q) /\ UNCHANGED <<fresh, refreshes, shared, micro>>
       \/ /\ GivenUp(q) /\ UNCHANGED <<fresh, refreshes, shared>>
          /\ \E got \in Outcomes : (got = "accounts") = ok /\ micro' = {Wakes(q, got)}

BackoffEnds(q) == /\ Turn /\ query[q].pc = "backoff"
                  /\ Ask(q, query[q].page, query[q].attempt + 1) /\ UNCHANGED micro

TokenExpires == /\ Turn /\ fresh /\ fresh' = FALSE
                /\ UNCHANGED <<refreshes, shared, query, micro>>

(* ok: it goes well.                                                       *)
ZoomStep(ok) == \E q \in Queries :
                   \/ RefreshSettles(q, ok)
                   \/ Answered(q, ok)
                   \/ ok /\ (Resume(q) \/ BackoffEnds(q))

ZoomTypeOK ==
    /\ fresh \in BOOLEAN /\ refreshes \subseteq Queries
    /\ shared \in Queries \union {NoRefresh}
    /\ query \in [Queries -> [pc : {"idle", "waiting", "listing", "backoff"},
                              page : 1 .. MaxPages, attempt : 1 .. ApiAttempts,
                              on : Queries \union {NoRefresh}]]
    /\ micro \subseteq [query : Queries, got : Outcomes \union {"token", "refused"}]

-----------------------------------------------------------------------------
(* However queries, retries and pages overlap and however refreshes fail,  *)
(* the token is requested by one of them at a time, and nobody waits for a *)
(* request that is over: although every waiter clears the shared promise.  *)
SingleRefresh ==
    /\ Cardinality(refreshes) <= 1
    /\ \A q \in Queries : query[q].pc = "waiting" =>
          query[q].on \in refreshes \/ \E m \in micro : m.query = q
=============================================================================

---------------------------- MODULE MCScheduledRuns ----------------------------
(* The schedule is due at minutes 0 and 1 of the hour after the start.     *)
EXTENDS ScheduledRuns, TLC
CONSTANT TheAccount
DraftOrApproved == {[w \in Workflows |-> IF w = Recorded THEN s ELSE NoRecord] :
                       s \in {"draft", "approved"}}
EachMinute == [minute |-> <<"range", 0, 1>>, hour |-> <<"step", 2>>]
QuerySymmetry == Permutations(Queries)
MCCrons == {EachMinute}

(* Bound: of two questions the run asks, each has its share of the states. *)
(* How jobs come about and are told of, with one workflow over one account;*)
(* and how the loops of a job and its retry overlap, with an event more,    *)
(* dry jobs made by hand over all accounts, and nothing else going on.     *)
OneAccount == \A j \in DOMAIN jobs : AccountsOf(j) = {TheAccount} /\ jobs[j].steps = 1
JobsAlone == /\ \A s \in Schedules : schedules[s] = Absent
             /\ \A q \in Queries : asks[q] = Nothing
             /\ clock = StartsAt /\ hooks = {} /\ ~restarted
             /\ status[Recorded] = "draft" /\ edits = 1 /\ ~fresh
             /\ \A j \in DOMAIN jobs : /\ ~jobs[j].live /\ jobs[j].steps = Steps
                                    /\ jobs[j].of = 0 => AccountsOf(j) = Accounts
Share == IF JobsAlone THEN MaxEvents ELSE MaxEvents - 1
MCNext == /\ events' \in {events, events + 1} \intersect (0 .. Share)
          /\ Next
          /\ (OneAccount' /\ events' < MaxEvents) \/ JobsAlone'
MCSpec == Init /\ [][MCNext]_vars
=============================================================================

---------------------------- MODULE RecordedFlow ----------------------------
(***************************************************************************)
(* A workflow in the browser, for one account: the steps of a flow.ts      *)
(* (src/workflows/recorded) or of the built-in flows (src/zoom), and the   *)
(* attempts the runner gives it (src/automation/runner.ts).                *)
(*                                                                         *)
(* A flow adds things to an account: phone numbers, an address, an         *)
(* administrator.  Zoom accepts an order at a click and carries it out     *)
(* later, in full, in part or not at all.  What a page shows is known to   *)
(* the flow only as far as it manages to read it.                          *)
(***************************************************************************)
EXTENDS Naturals, Sequences

CONSTANTS Steps,        \* the steps of every flow
          Target,       \* how many things each flow wants an account to have
          MaxAttempts,  \* FLOW_RETRY_ATTEMPTS
          MaxInitial    \* bound: things an account has at first

Flows == DOMAIN Steps
Checks == {"no", "count", "find"}
Asserts == {"no", "inside", "outside", "target"}
Step == [orders : BOOLEAN, dry : {"runs", "held", "ends"}, asserts : Asserts,
         check : Checks, retries : Nat]

(* A flow clicks one button that orders, once and after its check, and one *)
(* that holds a step back in a dry run holds back that one as well.        *)
ASSUME StepsAssumption ==
    /\ \A f \in Flows : Steps[f] \in Seq(Step) /\ Steps[f] # <<>> /\ Target[f] \in Nat \ {0}
    /\ \A f \in Flows : \A i, j \in DOMAIN Steps[f] :
        Steps[f][i].orders =>
            /\ Steps[f][i].retries = 0
            /\ Steps[f][j].orders => i = j
            /\ Steps[f][j].check # "no" => j <= i
            /\ Steps[f][j].dry # "runs" => Steps[f][i].dry # "runs"
ASSUME BoundsAssumption == MaxAttempts \in Nat \ {0} /\ MaxInitial \in Nat

VARIABLES flow, dry,   \* what runs, and config.runtime.dryRun
          before,      \* things the account had at first
          have,        \* things it has
          ordered,     \* things ordered and not carried out yet
          attempt, pc, at, tries,   \* of the runner; the place in run; of the step
          held,        \* dryRunSkipped
          need,        \* requiredSydneyNumbersToAdd
          clicked,     \* this attempt clicked the button that orders
          sure,        \* no look at the account missed anything it has or will have
          result       \* of the account: "none" while the flow runs

account == <<before, have, ordered>>
vars == <<flow, dry, account, attempt, pc, at, tries, held, need, clicked, sure, result>>

S == Steps[flow][at]
Orders(f) == \E i \in DOMAIN Steps[f] : Steps[f][i].orders
HasCheck(f) == \E i \in DOMAIN Steps[f] : Steps[f][i].check # "no"
Enters(f, i) == IF Steps[f][i].check = "no" THEN "act" ELSE "check"

Init == /\ flow \in Flows /\ dry \in BOOLEAN
        /\ before \in 0..MaxInitial /\ have = before /\ ordered = 0
        /\ attempt = 1 /\ pc = "opening" /\ at = 1 /\ tries = 0
        /\ held = FALSE /\ need = Target[flow] /\ clicked = FALSE
        /\ sure = TRUE /\ result = "none"

Ends(r) == /\ result' = r /\ pc' = "over"
           /\ UNCHANGED <<flow, dry, before, have, attempt, at, tries>>

(* run throws: the runner repeats a flow whose error is retryable.         *)
Throws(again) ==
    IF again /\ attempt < MaxAttempts
    THEN /\ attempt' = attempt + 1 /\ pc' = "opening" /\ at' = 1 /\ tries' = 0
         /\ held' = FALSE /\ need' = Target[flow] /\ clicked' = FALSE
         /\ UNCHANGED <<flow, dry, before, have, result>>
    ELSE Ends("failed") /\ UNCHANGED <<held, need, clicked>>

TellCompleted(h) == "completed"
Tell(h) == IF h THEN "skipped" ELSE "completed"

(* On to the next step, or the end of run, with dryRunSkipped now h.       *)
Advance(h) ==
    /\ held' = h
    /\ IF at = Len(Steps[flow])
       THEN Ends(Tell(h))
       ELSE /\ at' = at + 1 /\ pc' = Enters(flow, at + 1) /\ tries' = 0
            /\ UNCHANGED <<flow, dry, before, have, attempt, result>>

Assert(h) == /\ pc' = "assert" /\ held' = h
             /\ UNCHANGED <<flow, dry, before, have, attempt, at, tries, result>>

StepDone == IF S.asserts = "no" THEN Advance(held) ELSE Assert(held)

(* A new context, impersonation of the account, and away with the popups.  *)
Open == /\ pc = "opening" /\ pc' = Enters(flow, 1)
        /\ UNCHANGED <<flow, dry, account, attempt, at, tries, held, need, clicked, sure, result>>

NotOpened(again) == pc = "opening" /\ Throws(again) /\ UNCHANGED <<ordered, sure>>

(* A list that was not filtered, or not drawn yet, hides what it has.      *)
NumbersSeen == 0..have
AddressSeen == IF have = 0 THEN {0} ELSE {0, 1}
Seen == IF S.check = "find" THEN AddressSeen ELSE NumbersSeen

NeedAll(seen) == Target[flow]
Need(seen) == Target[flow] - seen

Check(seen) ==
    /\ pc = "check" /\ seen \in Seen
    /\ IF seen >= Target[flow]
       THEN Ends("skipped") /\ UNCHANGED <<need, sure>>
       ELSE /\ pc' = "act" /\ need' = Need(seen) /\ sure' = (sure /\ seen = have + ordered)
            /\ UNCHANGED <<flow, dry, before, have, attempt, at, tries, result>>
    /\ UNCHANGED <<ordered, held, clicked>>

HoldsBack == dry /\ S.dry # "runs"

(* A step that changes the account is left out of a dry run, its assertion *)
(* only where it stands inside.                                            *)
HoldBack == /\ pc = "act" /\ HoldsBack
            /\ \/ S.dry = "ends" /\ Ends("skipped") /\ UNCHANGED held
               \/ S.dry = "held" /\ S.asserts = "outside" /\ Assert(TRUE)
               \/ S.dry = "held" /\ S.asserts # "outside" /\ Advance(TRUE)
            /\ UNCHANGED <<ordered, need, clicked, sure>>

Act == /\ pc = "act" /\ ~HoldsBack /\ ~S.orders
       /\ StepDone /\ UNCHANGED <<ordered, need, clicked, sure>>

(* The click reaches Zoom, whether or not the step hears of it.            *)
Click == /\ pc = "act" /\ ~HoldsBack /\ S.orders
         /\ clicked' = TRUE /\ ordered' = ordered + need
         /\ StepDone /\ UNCHANGED <<need, sure>>

ClickUnheard(again) == /\ pc = "act" /\ ~HoldsBack /\ S.orders
                       /\ ordered' = ordered + need /\ Throws(again) /\ UNCHANGED sure

StepFails(again) ==
    /\ \/ pc = "check"
       \/ pc = "act" /\ ~HoldsBack /\ tries = S.retries
    /\ Throws(again) /\ UNCHANGED <<ordered, sure>>

RetryStep == /\ pc = "act" /\ ~HoldsBack /\ tries < S.retries /\ tries' = tries + 1
             /\ UNCHANGED <<flow, dry, account, attempt, pc, at, held, need, clicked, sure, result>>

AssertionHolds == /\ pc = "assert" /\ Advance(held)
                  /\ UNCHANGED <<ordered, need, clicked, sure>>

AssertionFails(again) == /\ pc = "assert" /\ S.asserts # "target" /\ Throws(again)
                         /\ UNCHANGED <<ordered, sure>>

(* The purchase is not confirmed: the numbers are counted again.  run      *)
(* returns nothing when there are enough, and the runner, which reads the  *)
(* status of what it returns, fails the account without another attempt.   *)
CountAgain(seen) == /\ pc = "assert" /\ S.asserts = "target" /\ seen \in NumbersSeen
                    /\ Throws(seen < Target[flow]) /\ UNCHANGED <<ordered, sure>>

CannotCount(again) == /\ pc = "assert" /\ S.asserts = "target" /\ Throws(again)
                      /\ UNCHANGED <<ordered, sure>>

(* Zoom carries an order out, as far as it can.                            *)
CarriedOut(n) == /\ ordered > 0 /\ n <= ordered /\ have' = have + n /\ ordered' = 0
                 /\ UNCHANGED <<flow, dry, before, attempt, pc, at, tries, held, need,
                                clicked, sure, result>>

Next == \/ Open \/ HoldBack \/ Act \/ Click \/ RetryStep \/ AssertionHolds
        \/ \E again \in BOOLEAN : \/ NotOpened(again) \/ StepFails(again)
                                  \/ ClickUnheard(again) \/ AssertionFails(again)
                                  \/ CannotCount(again)
        \/ \E n \in 0..have : Check(n) \/ CountAgain(n)
        \/ \E n \in 0..ordered : CarriedOut(n)

Spec == Init /\ [][Next]_vars

TypeOK == /\ flow \in Flows /\ dry \in BOOLEAN
          /\ before \in Nat /\ have \in Nat /\ ordered \in Nat
          /\ attempt \in 1..MaxAttempts /\ tries \in Nat
          /\ pc \in {"opening", "check", "act", "assert", "over"}
          /\ at \in DOMAIN Steps[flow] /\ need \in 1..Target[flow]
          /\ held \in BOOLEAN /\ clicked \in BOOLEAN /\ sure \in BOOLEAN
          /\ result \in {"none", "completed", "skipped", "failed"}

-----------------------------------------------------------------------------
(* A flow that looks before it adds never gives an account more than its   *)
(* target, whatever is carried out in part, or repeated after an error, as *)
(* long as no look missed something, an order that is still to be carried  *)
(* out included (flow.ts:84-97,744-762).                                   *)
TopUpBounded == HasCheck(flow) /\ sure =>
    \/ have + ordered <= Target[flow]
    \/ have = before /\ ordered = 0

(* What an account is reported as is true of the last attempt: completed   *)
(* if it submitted what the flow is for, skipped if it submitted nothing   *)
(* (flow.ts:284-286), in a dry run too.                                    *)
ResultTold == /\ result = "completed" /\ Orders(flow) => clicked
              /\ result = "skipped" => ~clicked

(* types.ts:312: a dry run validates the flow without making changes.      *)
DryRunChangesNothing == dry => have = before /\ ordered = 0
=============================================================================

-------------------------- MODULE RecordedFlowProofs --------------------------
(***************************************************************************)
(* Proofs about RecordedFlow, for any flows that satisfy StepsAssumption,  *)
(* any number of attempts and any account.                                 *)
(***************************************************************************)
EXTENDS RecordedFlow, TLAPS

(* Where run has been: past the act of step i, past the check of step j.   *)
Acted(i) == i < at \/ (i = at /\ pc \in {"assert", "over"})
Looked(j) == j < at \/ (j = at /\ pc \in {"act", "assert", "over"})
LookedOnce == \E j \in DOMAIN Steps[flow] : Steps[flow][j].check # "no" /\ Looked(j)

(* The button was clicked only where it stands, and not held back there.   *)
ClickedThere == clicked => \E i \in DOMAIN Steps[flow] :
    Steps[flow][i].orders /\ Acted(i) /\ ~(dry /\ Steps[flow][i].dry # "runs")
HeldInDryRun == held => dry /\ \E j \in DOMAIN Steps[flow] : Steps[flow][j].dry # "runs"
NotMissed == pc # "over" => \A i \in DOMAIN Steps[flow] :
    Steps[flow][i].orders /\ Acted(i) => clicked \/ held
NoResultYet == pc # "over" => result = "none"
CheckThere == /\ pc = "opening" => at = 1
              /\ pc = "check" => S.check # "no"

(* Until it is clicked, what a sure look found missing is still missing.   *)
NeedIsTrue == sure /\ LookedOnce /\ ~clicked /\ pc # "over" =>
    have + ordered + need <= Target[flow]

Told == ClickedThere /\ HeldInDryRun /\ NotMissed /\ NoResultYet /\ CheckThere /\ ResultTold
IInv == TypeOK /\ Told /\ NeedIsTrue /\ TopUpBounded

-----------------------------------------------------------------------------
LEMMA StepsTyped ==
    ASSUME NEW f \in Flows
    PROVE  /\ Steps[f] \in Seq(Step) /\ Len(Steps[f]) \in Nat \ {0}
           /\ DOMAIN Steps[f] = 1..Len(Steps[f]) /\ 1 \in DOMAIN Steps[f]
           /\ \A i \in DOMAIN Steps[f] : Steps[f][i] \in Step
           /\ Target[f] \in Nat \ {0}
<1>1. Steps[f] \in Seq(Step) /\ Steps[f] # <<>> /\ Target[f] \in Nat \ {0}
  BY StepsAssumption
<1> QED
  BY <1>1

LEMMA EntersTyped ==
    ASSUME NEW f, NEW i
    PROVE  Enters(f, i) \in {"act", "check"}
BY DEF Enters

(* What the common parts of the actions do.                                *)
LEMMA AdvanceEffect ==
    ASSUME TypeOK, NEW h, Advance(h)
    PROVE  /\ held' = h /\ UNCHANGED <<flow, dry, before, have, attempt>>
           /\ \/ /\ at = Len(Steps[flow]) /\ at' = at /\ tries' = tries /\ pc' = "over"
                 /\ result' = IF h THEN "skipped" ELSE "completed"
              \/ /\ at < Len(Steps[flow]) /\ at' = at + 1 /\ tries' = 0
                 /\ pc' \in {"act", "check"} /\ result' = result
                 /\ pc' = "check" <=> Steps[flow][at + 1].check # "no"
<1>1. flow \in Flows /\ at \in 1..Len(Steps[flow]) /\ Len(Steps[flow]) \in Nat
  BY StepsTyped DEF TypeOK
<1> QED
  BY <1>1 DEF Advance, Ends, Tell, Enters

LEMMA ThrowsEffect ==
    ASSUME TypeOK, NEW again \in BOOLEAN, Throws(again)
    PROVE  /\ UNCHANGED <<flow, dry, before, have>>
           /\ \/ /\ attempt < MaxAttempts /\ attempt' = attempt + 1 /\ pc' = "opening"
                 /\ at' = 1 /\ tries' = 0 /\ held' = FALSE /\ need' = Target[flow]
                 /\ clicked' = FALSE /\ result' = result
              \/ /\ result' = "failed" /\ pc' = "over"
                 /\ UNCHANGED <<attempt, at, tries, held, need, clicked>>
BY DEF Throws, Ends

LEMMA StepDoneEffect ==
    ASSUME TypeOK, StepDone
    PROVE  Advance(held) \/ Assert(held)
BY DEF StepDone

LEMMA CountAgainEffect ==
    ASSUME NEW seen, CountAgain(seen)
    PROVE  \E again \in BOOLEAN : Throws(again)
<1>1. CASE seen < Target[flow]
  <2>1. Throws(TRUE)
    BY <1>1 DEF CountAgain, Throws
  <2> QED
    BY <2>1
<1>2. CASE ~(seen < Target[flow])
  <2>1. Throws(FALSE)
    BY <1>2 DEF CountAgain, Throws
  <2> QED
    BY <2>1
<1> QED
  BY <1>1, <1>2

-----------------------------------------------------------------------------
(* Types.                                                                  *)
LEMMA TypeInit == Init => TypeOK
<1> SUFFICES ASSUME Init PROVE TypeOK
  OBVIOUS
<1>1. flow \in Flows /\ Target[flow] \in Nat \ {0} /\ 1 \in DOMAIN Steps[flow]
  BY StepsTyped DEF Init
<1>2. attempt \in 1..MaxAttempts /\ need \in 1..Target[flow] /\ before \in Nat
  BY <1>1, BoundsAssumption DEF Init
<1>3. at \in DOMAIN Steps[flow]
  BY <1>1 DEF Init
<1> QED
  BY <1>2, <1>3 DEF Init, TypeOK

LEMMA AdvanceTyped ==
    ASSUME TypeOK, NEW h \in BOOLEAN, Advance(h),
           ordered' \in Nat, need' = need, clicked' \in BOOLEAN, sure' = sure
    PROVE  TypeOK'
<1>1. flow \in Flows /\ DOMAIN Steps[flow] = 1..Len(Steps[flow]) /\ Len(Steps[flow]) \in Nat
  BY StepsTyped DEF TypeOK
<1>2. at' \in DOMAIN Steps[flow] /\ tries' \in Nat
      /\ pc' \in {"opening", "check", "act", "assert", "over"}
      /\ result' \in {"none", "completed", "skipped", "failed"}
  BY <1>1, AdvanceEffect DEF TypeOK
<1> QED
  BY <1>2, AdvanceEffect DEF TypeOK

LEMMA ThrowsTyped ==
    ASSUME TypeOK, NEW again \in BOOLEAN, Throws(again), ordered' \in Nat, sure' = sure
    PROVE  TypeOK'
<1>1. 1 \in DOMAIN Steps[flow] /\ Target[flow] \in Nat \ {0}
  BY StepsTyped DEF TypeOK
<1>2. attempt' \in 1..MaxAttempts /\ need' \in 1..Target[flow] /\ tries' \in Nat
  <2>1. CASE /\ attempt < MaxAttempts /\ attempt' = attempt + 1
             /\ tries' = 0 /\ need' = Target[flow]
    <3>1. attempt \in 1..MaxAttempts /\ MaxAttempts \in Nat
      BY BoundsAssumption DEF TypeOK
    <3> QED
      BY <1>1, <2>1, <3>1
  <2>2. CASE UNCHANGED <<attempt, tries, need>>
    BY <2>2 DEF TypeOK
  <2> QED
    BY <2>1, <2>2, ThrowsEffect
<1>3. at' \in DOMAIN Steps[flow] /\ flow' = flow
  BY <1>1, ThrowsEffect DEF TypeOK
<1> QED
  BY <1>2, <1>3, ThrowsEffect DEF TypeOK

LEMMA TypeStep == TypeOK /\ [Next]_vars => TypeOK'
<1> SUFFICES ASSUME TypeOK, [Next]_vars PROVE TypeOK'
  OBVIOUS
<1>1. CASE Open
  BY <1>1, EntersTyped DEF Open, account, TypeOK
<1>2. CASE HoldBack
  <2>1. CASE S.dry = "ends" /\ Ends("skipped") /\ UNCHANGED held
    BY <1>2, <2>1 DEF HoldBack, Ends, TypeOK
  <2>2. CASE Assert(TRUE)
    BY <1>2, <2>2 DEF HoldBack, Assert, TypeOK
  <2>3. CASE Advance(TRUE)
    BY <1>2, <2>3, AdvanceTyped DEF HoldBack, TypeOK
  <2> QED
    BY <1>2, <2>1, <2>2, <2>3 DEF HoldBack
<1>3. CASE Act
  <2>1. CASE Advance(held)
    BY <1>3, <2>1, AdvanceTyped DEF Act, TypeOK
  <2>2. CASE Assert(held)
    BY <1>3, <2>2 DEF Act, Assert, TypeOK
  <2> QED
    BY <1>3, <2>1, <2>2, StepDoneEffect DEF Act
<1>4. CASE Click
  <2>1. CASE Advance(held)
    BY <1>4, <2>1, AdvanceTyped DEF Click, TypeOK
  <2>2. CASE Assert(held)
    BY <1>4, <2>2 DEF Click, Assert, TypeOK
  <2> QED
    BY <1>4, <2>1, <2>2, StepDoneEffect DEF Click
<1>5. CASE RetryStep
  BY <1>5 DEF RetryStep, account, TypeOK
<1>6. CASE AssertionHolds
  BY <1>6, AdvanceTyped DEF AssertionHolds, TypeOK
<1>7. ASSUME NEW again \in BOOLEAN,
             \/ NotOpened(again) \/ StepFails(again) \/ ClickUnheard(again)
             \/ AssertionFails(again) \/ CannotCount(again)
      PROVE  TypeOK'
  <2>1. Throws(again) /\ sure' = sure /\ (ordered' = ordered \/ ordered' = ordered + need)
    BY <1>7 DEF NotOpened, StepFails, ClickUnheard, AssertionFails, CannotCount
  <2>2. ordered' \in Nat
    <3>1. ordered \in Nat /\ need \in Nat
      BY StepsTyped DEF TypeOK
    <3> QED
      BY <2>1, <3>1
  <2> QED
    BY <2>1, <2>2, ThrowsTyped
<1>8. ASSUME NEW n \in 0..have, Check(n)
      PROVE  TypeOK'
  <2>1. Target[flow] \in Nat \ {0} /\ n \in Nat
    BY StepsTyped DEF TypeOK
  <2> QED
    <3>1. CASE n >= Target[flow]
      BY <1>8, <3>1 DEF Check, Ends, TypeOK
    <3>2. CASE ~(n >= Target[flow])
      <4>1. Target[flow] - n \in 1..Target[flow]
        BY <2>1, <3>2
      <4> QED
        BY <1>8, <3>2, <4>1 DEF Check, Need, TypeOK
    <3> QED
      BY <3>1, <3>2
<1>9. ASSUME NEW n \in 0..have, CountAgain(n)
      PROVE  TypeOK'
  <2>1. PICK again \in BOOLEAN : Throws(again)
    BY <1>9, CountAgainEffect
  <2> QED
    BY <1>9, <2>1, ThrowsTyped DEF CountAgain, TypeOK
<1>10. ASSUME NEW n \in 0..ordered, CarriedOut(n)
       PROVE  TypeOK'
  BY <1>10 DEF CarriedOut, TypeOK
<1>11. CASE UNCHANGED vars
  BY <1>11 DEF vars, account, TypeOK
<1> QED
  BY <1>1, <1>2, <1>3, <1>4, <1>5, <1>6, <1>7, <1>8, <1>9, <1>10, <1>11 DEF Next

(* The variables of a run of a flow keep their types, for any flows        *)
(* (RecordedFlow.tla, TypeOK).                                             *)
THEOREM TypeCorrect == Spec => []TypeOK
BY TypeInit, TypeStep, PTL DEF Spec

-----------------------------------------------------------------------------
(* What is told of an account.                                             *)
LEMMA NotClickedYet ==
    ASSUME TypeOK, Told
    PROVE  /\ pc = "check" => ~clicked
           /\ pc = "act" /\ S.orders => ~clicked
           /\ dry /\ (\E j \in DOMAIN Steps[flow] : Steps[flow][j].dry # "runs") => ~clicked
           /\ held => ~clicked
<1>1. flow \in Flows /\ at \in DOMAIN Steps[flow] /\ DOMAIN Steps[flow] = 1..Len(Steps[flow])
      /\ Len(Steps[flow]) \in Nat
  BY StepsTyped DEF TypeOK
<1> SUFFICES ASSUME clicked,
                    NEW i \in DOMAIN Steps[flow], Steps[flow][i].orders, Acted(i),
                    ~(dry /\ Steps[flow][i].dry # "runs")
             PROVE  /\ pc # "check"
                    /\ ~(pc = "act" /\ S.orders)
                    /\ ~(dry /\ \E j \in DOMAIN Steps[flow] : Steps[flow][j].dry # "runs")
                    /\ ~held
  BY DEF Told, ClickedThere
<1>2. \A j \in DOMAIN Steps[flow] :
        /\ Steps[flow][j].orders => i = j
        /\ Steps[flow][j].check # "no" => j <= i
        /\ Steps[flow][j].dry # "runs" => Steps[flow][i].dry # "runs"
  BY <1>1, StepsAssumption
<1>3. pc # "check"
  <2> SUFFICES ASSUME pc = "check" PROVE FALSE
    OBVIOUS
  <2>1. at <= i
    BY <1>1, <1>2 DEF Told, CheckThere, S
  <2> QED
    BY <1>1, <2>1 DEF Acted
<1>4. ~(pc = "act" /\ S.orders)
  <2> SUFFICES ASSUME pc = "act", S.orders PROVE FALSE
    OBVIOUS
  <2>1. i = at
    BY <1>1, <1>2 DEF S
  <2> QED
    BY <1>1, <2>1 DEF Acted
<1>5. ~(dry /\ \E j \in DOMAIN Steps[flow] : Steps[flow][j].dry # "runs")
  BY <1>2
<1>6. ~held
  BY <1>5 DEF Told, HeldInDryRun
<1> QED
  BY <1>3, <1>4, <1>5, <1>6

(* The act or the assertion of a step is over, and perhaps it clicked.     *)
LEMMA ToldAdvance ==
    ASSUME TypeOK, Told, NEW h \in BOOLEAN, Advance(h), pc \in {"act", "assert"},
           h => dry /\ \E j \in DOMAIN Steps[flow] : Steps[flow][j].dry # "runs",
           held => h,
           \/ clicked' = clicked /\ (pc = "act" /\ S.orders => h)
           \/ clicked' = TRUE /\ ~HoldsBack /\ S.orders /\ pc = "act"
    PROVE  Told'
<1>1. flow \in Flows /\ at \in DOMAIN Steps[flow] /\ DOMAIN Steps[flow] = 1..Len(Steps[flow])
      /\ Len(Steps[flow]) \in Nat
  BY StepsTyped DEF TypeOK
<1>2. \A i \in DOMAIN Steps[flow] : Acted(i)' <=> i <= at
  BY <1>1, AdvanceEffect DEF Acted
<1>3. \A i \in DOMAIN Steps[flow] : Acted(i) => i <= at
  BY <1>1 DEF Acted
<1>4. ClickedThere'
  <2> SUFFICES ASSUME clicked'
               PROVE  \E i \in DOMAIN Steps[flow] :
                        Steps[flow][i].orders /\ i <= at /\ ~(dry /\ Steps[flow][i].dry # "runs")
    BY <1>2, AdvanceEffect DEF ClickedThere
  <2>1. CASE clicked
    BY <1>3, <2>1 DEF Told, ClickedThere
  <2>2. CASE ~HoldsBack /\ S.orders
    BY <1>1, <2>2 DEF HoldsBack, S
  <2> QED
    BY <2>1, <2>2
<1>5. HeldInDryRun'
  BY AdvanceEffect DEF HeldInDryRun
<1>6. \A i \in DOMAIN Steps[flow] : Steps[flow][i].orders /\ i <= at => clicked' \/ h
  <2> SUFFICES ASSUME NEW i \in DOMAIN Steps[flow], Steps[flow][i].orders, i <= at,
                      ~clicked', ~h
               PROVE  FALSE
    OBVIOUS
  <2>1. ~clicked /\ ~held /\ ~(pc = "act" /\ S.orders)
    OBVIOUS
  <2>2. ~Acted(i)
    BY <2>1 DEF Told, NotMissed
  <2> QED
    BY <1>1, <2>1, <2>2 DEF Acted, S
<1>7. NotMissed'
  BY <1>2, <1>6, AdvanceEffect DEF NotMissed
<1>8. NoResultYet' /\ CheckThere'
  BY AdvanceEffect DEF Told, NoResultYet, CheckThere, S
<1>9. ResultTold'
  <2>1. h => ~clicked'
    <3>1. dry /\ (\E j \in DOMAIN Steps[flow] : Steps[flow][j].dry # "runs") /\ S.orders
            => HoldsBack
      BY <1>1, StepsAssumption DEF HoldsBack, S
    <3> QED
      BY <3>1, NotClickedYet
  <2>2. CASE at = Len(Steps[flow])
    <3>1. Orders(flow) => clicked' \/ h
      BY <1>1, <1>6, <2>2 DEF Orders
    <3>2. flow' = flow /\ result' = IF h THEN "skipped" ELSE "completed"
      BY <1>1, <2>2, AdvanceEffect
    <3> QED
      BY <2>1, <3>1, <3>2 DEF ResultTold, Orders
  <2>3. CASE at # Len(Steps[flow])
    <3>1. result' = "none"
      BY <1>1, <2>3, AdvanceEffect DEF Told, NoResultYet
    <3> QED
      BY <3>1 DEF ResultTold
  <2> QED
    BY <2>2, <2>3
<1> QED
  BY <1>4, <1>5, <1>7, <1>8, <1>9 DEF Told

LEMMA ToldAssert ==
    ASSUME TypeOK, Told, NEW h \in BOOLEAN, Assert(h), pc = "act",
           h => dry /\ \E j \in DOMAIN Steps[flow] : Steps[flow][j].dry # "runs",
           held => h,
           \/ clicked' = clicked /\ (S.orders => h)
           \/ clicked' = TRUE /\ ~HoldsBack /\ S.orders
    PROVE  Told'
<1>1. flow \in Flows /\ at \in DOMAIN Steps[flow] /\ DOMAIN Steps[flow] = 1..Len(Steps[flow])
      /\ Len(Steps[flow]) \in Nat
  BY StepsTyped DEF TypeOK
<1>2. /\ pc' = "assert" /\ held' = h
      /\ UNCHANGED <<flow, dry, at, result>>
  BY DEF Assert
<1>3. \A i \in DOMAIN Steps[flow] : (Acted(i)' <=> i <= at) /\ (Acted(i) => i <= at)
                                    /\ (i <= at => Acted(i) \/ i = at)
  BY <1>1, <1>2 DEF Acted
<1>4. ClickedThere'
  <2> SUFFICES ASSUME clicked'
               PROVE  \E i \in DOMAIN Steps[flow] :
                        Steps[flow][i].orders /\ i <= at /\ ~(dry /\ Steps[flow][i].dry # "runs")
    BY <1>2, <1>3 DEF ClickedThere
  <2>1. CASE clicked
    BY <1>3, <2>1 DEF Told, ClickedThere
  <2>2. CASE ~HoldsBack /\ S.orders
    BY <1>1, <2>2 DEF HoldsBack, S
  <2> QED
    BY <2>1, <2>2
<1>5. HeldInDryRun'
  BY <1>2 DEF HeldInDryRun
<1>6. NotMissed'
  <2> SUFFICES ASSUME NEW i \in DOMAIN Steps[flow], Steps[flow][i].orders, i <= at,
                      ~clicked', ~h
               PROVE  FALSE
    BY <1>2, <1>3 DEF NotMissed
  <2>1. ~clicked /\ ~held /\ ~S.orders
    OBVIOUS
  <2>2. ~Acted(i)
    BY <2>1 DEF Told, NotMissed
  <2> QED
    BY <1>3, <2>1, <2>2 DEF S
<1>7. NoResultYet' /\ CheckThere' /\ ResultTold'
  BY <1>2 DEF Told, NoResultYet, CheckThere, ResultTold
<1> QED
  BY <1>4, <1>5, <1>6, <1>7 DEF Told

LEMMA ToldThrows ==
    ASSUME TypeOK, Told, pc # "over", NEW again \in BOOLEAN, Throws(again)
    PROVE  Told'
<1>1. flow \in Flows /\ at \in DOMAIN Steps[flow] /\ DOMAIN Steps[flow] = 1..Len(Steps[flow])
      /\ Len(Steps[flow]) \in Nat
  BY StepsTyped DEF TypeOK
<1>2. CASE /\ pc' = "opening" /\ at' = 1 /\ held' = FALSE /\ clicked' = FALSE
           /\ result' = result /\ UNCHANGED <<flow, dry>>
  <2>1. \A i \in DOMAIN Steps[flow] : ~Acted(i)'
    BY <1>1, <1>2 DEF Acted
  <2>2. ResultTold'
    BY <1>2 DEF Told, NoResultYet, ResultTold
  <2> QED
    BY <1>2, <2>1, <2>2 DEF Told, ClickedThere, HeldInDryRun, NotMissed, NoResultYet, CheckThere
<1>3. CASE /\ result' = "failed" /\ pc' = "over"
           /\ UNCHANGED <<flow, dry, at, held, clicked>>
  <2>1. \A i \in DOMAIN Steps[flow] : Acted(i) => Acted(i)'
    BY <1>3 DEF Acted
  <2> QED
    BY <1>3, <2>1 DEF Told, ClickedThere, HeldInDryRun, NotMissed, NoResultYet, CheckThere,
                      ResultTold
<1> QED
  BY <1>2, <1>3, ThrowsEffect

LEMMA ToldStep == TypeOK /\ Told /\ [Next]_vars => Told'
<1> SUFFICES ASSUME TypeOK, Told, [Next]_vars PROVE Told'
  OBVIOUS
<1>0. flow \in Flows /\ at \in DOMAIN Steps[flow] /\ DOMAIN Steps[flow] = 1..Len(Steps[flow])
      /\ Len(Steps[flow]) \in Nat
  BY StepsTyped DEF TypeOK
<1>a. HoldsBack => dry /\ \E j \in DOMAIN Steps[flow] : Steps[flow][j].dry # "runs"
  BY <1>0 DEF HoldsBack, S
<1>b. held => dry /\ \E j \in DOMAIN Steps[flow] : Steps[flow][j].dry # "runs"
  BY DEF Told, HeldInDryRun
<1>1. CASE Open
  <2>1. UNCHANGED <<flow, dry, at, held, clicked, result>> /\ pc = "opening"
        /\ pc' = Enters(flow, 1)
    BY <1>1 DEF Open
  <2>2. pc' \in {"act", "check"} /\ (pc' = "check" => Steps[flow][1].check # "no")
    BY <2>1 DEF Enters
  <2>3. at = 1 /\ \A i \in DOMAIN Steps[flow] : Acted(i)' <=> Acted(i)
    BY <2>1, <2>2 DEF Told, CheckThere, Acted
  <2> QED
    BY <2>1, <2>2, <2>3 DEF Told, ClickedThere, HeldInDryRun, NotMissed, NoResultYet,
                            CheckThere, ResultTold, S
<1>2. CASE HoldBack
  <2>1. CASE Ends("skipped") /\ UNCHANGED held
    <3>1. ~clicked /\ UNCHANGED <<flow, dry, at, held, clicked>>
          /\ pc' = "over" /\ result' = "skipped"
      BY <1>2, <1>a, <2>1, NotClickedYet DEF HoldBack, Ends
    <3> QED
      BY <3>1 DEF Told, ClickedThere, HeldInDryRun, NotMissed, NoResultYet, CheckThere,
                  ResultTold
  <2>2. CASE Assert(TRUE)
    BY <1>2, <1>a, <2>2, ToldAssert DEF HoldBack
  <2>3. CASE Advance(TRUE)
    BY <1>2, <1>a, <2>3, ToldAdvance DEF HoldBack
  <2> QED
    BY <1>2, <2>1, <2>2, <2>3 DEF HoldBack
<1>3. CASE Act
  BY <1>3, <1>b, StepDoneEffect, ToldAdvance, ToldAssert DEF Act, TypeOK
<1>4. CASE Click
  BY <1>4, <1>b, StepDoneEffect, ToldAdvance, ToldAssert DEF Click, TypeOK
<1>5. CASE RetryStep
  <2>1. UNCHANGED <<flow, dry, at, pc, held, clicked, result>>
    BY <1>5 DEF RetryStep
  <2> QED
    BY <2>1 DEF Told, ClickedThere, HeldInDryRun, NotMissed, NoResultYet, CheckThere,
                ResultTold, Acted, S
<1>6. CASE AssertionHolds
  BY <1>6, <1>b, ToldAdvance DEF AssertionHolds, TypeOK
<1>7. ASSUME NEW again \in BOOLEAN,
             \/ NotOpened(again) \/ StepFails(again) \/ ClickUnheard(again)
             \/ AssertionFails(again) \/ CannotCount(again)
      PROVE  Told'
  <2>1. Throws(again) /\ pc # "over"
    BY <1>7 DEF NotOpened, StepFails, ClickUnheard, AssertionFails, CannotCount
  <2> QED
    BY <2>1, ToldThrows
<1>8. ASSUME NEW n \in 0..have, Check(n)
      PROVE  Told'
  <2>1. pc = "check" /\ ~clicked /\ UNCHANGED <<flow, dry, at, held, clicked>>
    BY <1>8, NotClickedYet DEF Check, Ends
  <2>2. \/ pc' = "over" /\ result' = "skipped"
        \/ pc' = "act" /\ result' = result
    BY <1>8 DEF Check, Ends
  <2>3. pc' = "act" => NotMissed'
    BY <1>0, <2>1 DEF Told, NotMissed, Acted
  <2> QED
    BY <2>1, <2>2, <2>3 DEF Told, ClickedThere, HeldInDryRun, NotMissed, NoResultYet,
                            CheckThere, ResultTold
<1>9. ASSUME NEW n \in 0..have, CountAgain(n)
      PROVE  Told'
  <2>1. PICK again \in BOOLEAN : Throws(again)
    BY <1>9, CountAgainEffect
  <2> QED
    BY <1>9, <2>1, ToldThrows DEF CountAgain
<1>10. ASSUME NEW n \in 0..ordered, CarriedOut(n)
       PROVE  Told'
  <2>1. UNCHANGED <<flow, dry, at, pc, held, clicked, result>>
    BY <1>10 DEF CarriedOut
  <2> QED
    BY <2>1 DEF Told, ClickedThere, HeldInDryRun, NotMissed, NoResultYet, CheckThere,
                ResultTold, Acted, S
<1>11. CASE UNCHANGED vars
  <2>1. UNCHANGED <<flow, dry, at, pc, held, clicked, result>>
    BY <1>11 DEF vars
  <2> QED
    BY <2>1 DEF Told, ClickedThere, HeldInDryRun, NotMissed, NoResultYet, CheckThere,
                ResultTold, Acted, S
<1> QED
  BY <1>1, <1>2, <1>3, <1>4, <1>5, <1>6, <1>7, <1>8, <1>9, <1>10, <1>11 DEF Next

-----------------------------------------------------------------------------
(* What is still missing, and the bound.                                   *)
LEMMA NeedAdvance ==
    ASSUME TypeOK, NeedIsTrue, NEW h, Advance(h), pc \in {"act", "assert"},
           UNCHANGED <<need, sure>>,
           clicked' = TRUE \/ UNCHANGED <<clicked, ordered>>
    PROVE  NeedIsTrue'
<1>1. flow \in Flows /\ at \in DOMAIN Steps[flow] /\ DOMAIN Steps[flow] = 1..Len(Steps[flow])
      /\ Len(Steps[flow]) \in Nat
  BY StepsTyped DEF TypeOK
<1> SUFFICES ASSUME sure', LookedOnce', ~clicked', pc' # "over"
             PROVE  have' + ordered' + need' <= Target[flow']
  BY DEF NeedIsTrue
<1>2. UNCHANGED <<flow, have, ordered, need, sure, clicked>> /\ at' = at + 1
      /\ pc' \in {"act", "check"} /\ (pc' = "check" <=> Steps[flow][at + 1].check # "no")
  BY <1>1, AdvanceEffect
<1>3. PICK j \in DOMAIN Steps[flow] : Steps[flow][j].check # "no" /\ Looked(j)'
  BY <1>2 DEF LookedOnce
<1>4. j < at + 1 \/ (j = at + 1 /\ pc' = "act")
  BY <1>2, <1>3 DEF Looked
<1>5. j <= at
  BY <1>1, <1>2, <1>3, <1>4
<1>6. LookedOnce
  BY <1>1, <1>3, <1>5 DEF LookedOnce, Looked
<1> QED
  BY <1>2, <1>6 DEF NeedIsTrue

LEMMA NeedAssert ==
    ASSUME TypeOK, NeedIsTrue, NEW h, Assert(h), pc = "act",
           UNCHANGED <<need, sure>>,
           clicked' = TRUE \/ UNCHANGED <<clicked, ordered>>
    PROVE  NeedIsTrue'
<1>1. pc' = "assert" /\ UNCHANGED <<flow, have, at>>
  BY DEF Assert
<1>2. \A j \in DOMAIN Steps[flow] : Looked(j)' <=> Looked(j)
  BY <1>1 DEF Looked
<1> QED
  BY <1>1, <1>2 DEF NeedIsTrue, LookedOnce

LEMMA NeedThrows ==
    ASSUME TypeOK, NEW again \in BOOLEAN, Throws(again)
    PROVE  NeedIsTrue'
<1>1. flow \in Flows /\ DOMAIN Steps[flow] = 1..Len(Steps[flow]) /\ Len(Steps[flow]) \in Nat
  BY StepsTyped DEF TypeOK
<1>2. CASE pc' = "opening" /\ at' = 1 /\ flow' = flow
  <2>1. \A j \in DOMAIN Steps[flow] : ~Looked(j)'
    BY <1>1, <1>2 DEF Looked
  <2> QED
    BY <1>2, <2>1 DEF NeedIsTrue, LookedOnce
<1>3. CASE pc' = "over"
  BY <1>3 DEF NeedIsTrue
<1> QED
  BY <1>2, <1>3, ThrowsEffect

LEMMA NeedStep == TypeOK /\ Told /\ NeedIsTrue /\ [Next]_vars => NeedIsTrue'
<1> SUFFICES ASSUME TypeOK, Told, NeedIsTrue, [Next]_vars PROVE NeedIsTrue'
  OBVIOUS
<1>0. flow \in Flows /\ at \in DOMAIN Steps[flow] /\ DOMAIN Steps[flow] = 1..Len(Steps[flow])
      /\ Len(Steps[flow]) \in Nat /\ Target[flow] \in Nat /\ have \in Nat /\ ordered \in Nat
      /\ need \in Nat
  BY StepsTyped DEF TypeOK
<1>1. CASE Open
  <2>1. UNCHANGED flow /\ at' = 1 /\ pc' = Enters(flow, 1)
    BY <1>1 DEF Open, Told, CheckThere
  <2>2. pc' \in {"act", "check"} /\ (pc' = "act" => Steps[flow][1].check = "no")
    BY <2>1 DEF Enters
  <2>3. ~LookedOnce'
    BY <1>0, <2>1, <2>2 DEF LookedOnce, Looked
  <2> QED
    BY <2>3 DEF NeedIsTrue
<1>2. CASE HoldBack
  <2>1. CASE Ends("skipped")
    BY <2>1 DEF Ends, NeedIsTrue
  <2>2. CASE Assert(TRUE)
    BY <1>2, <2>2, NeedAssert DEF HoldBack
  <2>3. CASE Advance(TRUE)
    BY <1>2, <2>3, NeedAdvance DEF HoldBack
  <2> QED
    BY <1>2, <2>1, <2>2, <2>3 DEF HoldBack
<1>3. CASE Act
  BY <1>3, StepDoneEffect, NeedAdvance, NeedAssert DEF Act
<1>4. CASE Click
  BY <1>4, StepDoneEffect, NeedAdvance, NeedAssert DEF Click
<1>5. CASE RetryStep
  BY <1>5 DEF RetryStep, account, NeedIsTrue, LookedOnce, Looked
<1>6. CASE AssertionHolds
  BY <1>6, NeedAdvance DEF AssertionHolds
<1>7. ASSUME NEW again \in BOOLEAN,
             \/ NotOpened(again) \/ StepFails(again) \/ ClickUnheard(again)
             \/ AssertionFails(again) \/ CannotCount(again)
      PROVE  NeedIsTrue'
  <2>1. Throws(again)
    BY <1>7 DEF NotOpened, StepFails, ClickUnheard, AssertionFails, CannotCount
  <2> QED
    BY <2>1, NeedThrows
<1>8. ASSUME NEW n \in 0..have, Check(n)
      PROVE  NeedIsTrue'
  <2>1. CASE pc' = "over"
    BY <2>1 DEF NeedIsTrue
  <2>2. CASE pc' # "over"
    <3>1. /\ UNCHANGED <<flow, have, ordered>> /\ need' = Target[flow] - n
          /\ sure' => n = have + ordered
      BY <1>8, <2>2 DEF Check, Ends, Need
    <3> QED
      BY <1>0, <3>1 DEF NeedIsTrue
  <2> QED
    BY <2>1, <2>2
<1>9. ASSUME NEW n \in 0..have, CountAgain(n)
      PROVE  NeedIsTrue'
  BY <1>9, CountAgainEffect, NeedThrows
<1>10. ASSUME NEW n \in 0..ordered, CarriedOut(n)
       PROVE  NeedIsTrue'
  <2>1. UNCHANGED <<flow, at, pc, need, clicked, sure>> /\ have' = have + n /\ ordered' = 0
        /\ n <= ordered /\ n \in Nat
    BY <1>0, <1>10 DEF CarriedOut
  <2>2. LookedOnce' => LookedOnce
    BY <2>1 DEF LookedOnce, Looked
  <2>3. have' + ordered' + need' <= have + ordered + need
    BY <1>0, <2>1
  <2>4. have' + ordered' + need' \in Nat /\ have + ordered + need \in Nat
    BY <1>0, <2>1
  <2> QED
    BY <1>0, <2>1, <2>2, <2>3, <2>4 DEF NeedIsTrue
<1>11. CASE UNCHANGED vars
  BY <1>11 DEF vars, account, NeedIsTrue, LookedOnce, Looked
<1> QED
  BY <1>1, <1>2, <1>3, <1>4, <1>5, <1>6, <1>7, <1>8, <1>9, <1>10, <1>11 DEF Next

(* Every click orders what is missing at most.                             *)
LEMMA OrderWithinNeed ==
    ASSUME TypeOK, Told, NeedIsTrue, pc = "act", S.orders, HasCheck(flow), sure
    PROVE  have + ordered + need <= Target[flow]
<1>1. flow \in Flows /\ at \in DOMAIN Steps[flow] /\ DOMAIN Steps[flow] = 1..Len(Steps[flow])
      /\ Len(Steps[flow]) \in Nat
  BY StepsTyped DEF TypeOK
<1>2. PICK j \in DOMAIN Steps[flow] : Steps[flow][j].check # "no"
  BY DEF HasCheck
<1>3. j <= at
  BY <1>1, <1>2, StepsAssumption DEF S
<1>4. LookedOnce
  BY <1>1, <1>2, <1>3 DEF LookedOnce, Looked
<1> QED
  BY <1>4, NotClickedYet DEF NeedIsTrue

LEMMA BoundedStep ==
    TypeOK /\ Told /\ NeedIsTrue /\ TopUpBounded /\ [Next]_vars => TopUpBounded'
<1> SUFFICES ASSUME TypeOK, Told, NeedIsTrue, TopUpBounded, [Next]_vars,
                    HasCheck(flow)', sure'
             PROVE  \/ have' + ordered' <= Target[flow']
                    \/ have' = before' /\ ordered' = 0
  BY DEF TopUpBounded
<1>0. have \in Nat /\ ordered \in Nat /\ need \in Nat /\ Target[flow] \in Nat
  BY StepsTyped DEF TypeOK
<1>1. flow' = flow /\ before' = before /\ (sure' => sure)
  BY AdvanceEffect, StepDoneEffect, ThrowsEffect, CountAgainEffect
     DEF Next, vars, account, Open, HoldBack, Act, Click, RetryStep, AssertionHolds,
         NotOpened, StepFails, ClickUnheard, AssertionFails, CannotCount, Check, CountAgain,
         CarriedOut, Ends, Assert
<1>2. HasCheck(flow) /\ sure
  BY <1>1 DEF HasCheck
<1>3. have + ordered <= Target[flow] \/ (have = before /\ ordered = 0)
  BY <1>2 DEF TopUpBounded
<1>4. CASE UNCHANGED <<have, ordered>>
  BY <1>1, <1>3, <1>4
<1>5. CASE Click \/ \E again \in BOOLEAN : ClickUnheard(again)
  <2>1. pc = "act" /\ S.orders /\ ordered' = ordered + need /\ have' = have
    BY <1>5, AdvanceEffect, StepDoneEffect, ThrowsEffect DEF Click, ClickUnheard, Assert
  <2>2. have + ordered + need <= Target[flow]
    BY <1>2, <2>1, OrderWithinNeed
  <2> QED
    BY <1>0, <1>1, <2>1, <2>2
<1>6. ASSUME NEW n \in 0..ordered, CarriedOut(n)
      PROVE  have' + ordered' <= Target[flow]
  <2>1. have' = have + n /\ ordered' = 0 /\ n <= ordered /\ n \in Nat /\ ordered > 0
    BY <1>0, <1>6 DEF CarriedOut
  <2> QED
    BY <1>0, <1>3, <2>1
<1>7. \/ UNCHANGED <<have, ordered>> \/ Click \/ \E again \in BOOLEAN : ClickUnheard(again)
      \/ \E n \in 0..ordered : CarriedOut(n)
  BY AdvanceEffect, StepDoneEffect, ThrowsEffect, CountAgainEffect
     DEF Next, vars, account, Open, HoldBack, Act, RetryStep, AssertionHolds,
         NotOpened, StepFails, AssertionFails, CannotCount, Check, CountAgain, Ends, Assert
<1> QED
  BY <1>1, <1>4, <1>5, <1>6, <1>7

LEMMA InvInit == Init => IInv
<1> SUFFICES ASSUME Init PROVE IInv
  OBVIOUS
<1>1. TypeOK /\ flow \in Flows
  BY TypeInit DEF Init
<1>2. DOMAIN Steps[flow] = 1..Len(Steps[flow]) /\ Len(Steps[flow]) \in Nat
  BY <1>1, StepsTyped
<1>3. \A i \in DOMAIN Steps[flow] : ~Acted(i) /\ ~Looked(i)
  BY <1>2 DEF Init, Acted, Looked
<1>4. Told
  BY <1>3 DEF Init, Told, ClickedThere, HeldInDryRun, NotMissed, NoResultYet, CheckThere,
              ResultTold
<1>5. NeedIsTrue /\ TopUpBounded
  BY <1>3 DEF Init, NeedIsTrue, LookedOnce, TopUpBounded
<1> QED
  BY <1>1, <1>4, <1>5 DEF IInv

LEMMA InvStep == IInv /\ [Next]_vars => IInv'
BY TypeStep, ToldStep, NeedStep, BoundedStep DEF IInv

(* No account is given more than the target by a flow that looks first,    *)
(* as long as its looks miss nothing (RecordedFlow.tla, TopUpBounded).     *)
THEOREM NeverMoreThanTarget == Spec => []TopUpBounded
<1>1. IInv => TopUpBounded
  BY DEF IInv
<1> QED
  BY <1>1, InvInit, InvStep, PTL DEF Spec

(* Completed means submitted, skipped means that nothing was, in the last  *)
(* attempt at an account (RecordedFlow.tla, ResultTold).                   *)
THEOREM ResultsAreTrue == Spec => []ResultTold
<1>1. IInv => ResultTold
  BY DEF IInv, Told
<1> QED
  BY <1>1, InvInit, InvStep, PTL DEF Spec
=============================================================================

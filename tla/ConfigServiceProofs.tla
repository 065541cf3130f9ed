------------------------- MODULE ConfigServiceProofs -------------------------
(***************************************************************************)
(* Theorems about ConfigService, for every dictionary, every set of step   *)
(* lists and every value of the two limits.                                *)
(***************************************************************************)
EXTENDS ConfigService, FiniteSetTheorems, TLAPS

\* While a transfer runs the server has not been silent for too long yet.
StillHopeful == Busy => unanswered < MaxUnanswered

\* The inductive invariant: the type, the order of the verdicts, what the
\* outcome says of them and what a request outstanding implies.
IInv ==
  /\ TypeOK
  /\ InOrder
  /\ OutcomeTruthful
  /\ AttemptsOfCurrentStep
  /\ StillHopeful

Settling == {"done", "refused", "timed_out"}

\* A step that `step` may become: the same request, with a verdict.
Verdict(old, step) ==
  /\ step \in ConfigStep
  /\ step.status \in Settling
  /\ step.entry = old.entry
  /\ step.write_value = old.write_value

LEMMA CurrentIsPending ==
  ASSUME IInv, Busy
  PROVE  /\ step_idx + 1 \in DOMAIN steps
         /\ Current \in ConfigStep
         /\ Current.status = "pending"
  BY DEF IInv, TypeOK, InOrder, Busy, Current

\* A fresh list of steps is well-typed and waits for its verdicts.
LEMMA FreshSteps ==
  ASSUME NEW plan \in Seq(PlannedStep)
  PROVE  LET fresh == [i \in DOMAIN plan |-> Fresh(plan[i])] IN
         /\ fresh \in Seq(ConfigStep)
         /\ Len(fresh) = Len(plan)
         /\ DOMAIN fresh = 1 .. Len(plan)
         /\ \A i \in DOMAIN fresh : fresh[i].status = "pending"
<1>1. plan \in Seq(PlannedStep)
  OBVIOUS
<1>2. \A i \in 1 .. Len(plan) : Fresh(plan[i]) \in ConfigStep
  <2>1. \A i \in 1 .. Len(plan) : plan[i] \in PlannedStep
    BY <1>1
  <2>2. ASSUME NEW planned \in PlannedStep PROVE Fresh(planned) \in ConfigStep
    BY <2>2 DEF Fresh, ConfigStep, PlannedStep, Status, AbortCode
  <2> QED
    BY <2>1, <2>2
<1>3. \A i \in 1 .. Len(plan) : Fresh(plan[i]).status = "pending"
  BY DEF Fresh
<1>4. DOMAIN plan = 1 .. Len(plan) /\ Len(plan) \in Nat
  BY <1>1
<1> QED
  BY <1>2, <1>3, <1>4

\* _advance with a verdict keeps the type and the order of the steps.
LEMMA AdvanceKeeps ==
  ASSUME IInv, Busy, NEW step, Verdict(Current, step), Advance(step)
  PROVE  /\ steps' \in Seq(ConfigStep)
         /\ Len(steps') = Len(steps)
         /\ step_idx' \in 0 .. Len(steps')
         /\ awaiting' \in BOOLEAN /\ attempts' \in 0 .. MaxAttempts /\ outcome' \in Outcome
         /\ InOrder'
         /\ OutcomeTruthful'
         /\ AttemptsOfCurrentStep'
<1> DEFINE n == step_idx + 1
<1>1. n \in DOMAIN steps /\ n \in 1 .. Len(steps) /\ Len(steps) \in Nat /\ step_idx \in Nat
  BY CurrentIsPending DEF IInv, TypeOK
<1>2. /\ steps' = [steps EXCEPT ![n] = step]
      /\ steps' \in Seq(ConfigStep)
      /\ Len(steps') = Len(steps)
      /\ DOMAIN steps' = DOMAIN steps
      /\ DOMAIN steps = 1 .. Len(steps)
  BY <1>1 DEF Advance, Verdict, IInv, TypeOK
<1>3. steps'[n].status \in Settling
  BY <1>1, <1>2 DEF Verdict, IInv, TypeOK
<1>4. \A i \in DOMAIN steps : i # n => steps'[i] = steps[i]
  BY <1>2
<1>5. step_idx' = n /\ awaiting' = FALSE /\ attempts' = 0
  BY DEF Advance
<1>6. \A i \in DOMAIN steps : i < n => steps[i].status \in Settling
  BY <1>1, <1>2 DEF IInv, InOrder, Busy, Settling
<1>7. \A i \in DOMAIN steps : i > n => steps[i].status = "pending"
  BY <1>1, <1>2 DEF IInv, InOrder, Busy
<1>8. \A i \in DOMAIN steps' : i <= n => steps'[i].status \in Settling
  BY <1>1, <1>2, <1>3, <1>4, <1>6
<1>9. \A i \in DOMAIN steps' : i > n => steps'[i].status = "pending"
  BY <1>1, <1>2, <1>4, <1>7
<1>10. InOrder'
  <2>1. \A i \in DOMAIN steps' : steps'[i].status # "cancelled"
    BY <1>1, <1>2, <1>8, <1>9 DEF Settling
  <2>2. Busy' => \A i \in DOMAIN steps' : (steps'[i].status \in Settling) <=> (i <= step_idx')
    BY <1>1, <1>2, <1>5, <1>8, <1>9 DEF Settling
  <2>3. Busy' => \A i \in DOMAIN steps' : (steps'[i].status = "pending") <=> (i > step_idx')
    BY <1>1, <1>2, <1>5, <1>8, <1>9 DEF Settling
  <2>4. ~Busy' => \A i \in DOMAIN steps' : steps'[i].status # "pending"
    BY <1>1, <1>2, <1>5, <1>8 DEF Settling, Busy
  <2> QED
    BY <2>1, <2>2, <2>3, <2>4 DEF InOrder, Settling
<1>11. outcome' = IF n = Len(steps) THEN "completed" ELSE outcome
  BY DEF Advance
<1>12. outcome = "none"
  BY DEF IInv, OutcomeTruthful
<1>13. OutcomeTruthful'
  <2>1. Busy' <=> n # Len(steps)
    <3>1. Len(steps') = Len(steps) /\ step_idx' = n
      BY <1>2, <1>5
    <3>2. n \in Nat /\ n <= Len(steps) /\ Len(steps) \in Nat
      BY <1>1
    <3>3. Busy' <=> step_idx' < Len(steps')
      BY DEF Busy
    <3> QED
      BY <3>1, <3>2, <3>3
  <2>2. \A i \in DOMAIN steps' : n = Len(steps) => steps'[i].status \in Settling
    BY <1>1, <1>2, <1>8
  <2> QED
    BY <1>11, <1>12, <2>1, <2>2 DEF OutcomeTruthful, Settling
<1>14. AttemptsOfCurrentStep'
  BY <1>5 DEF AttemptsOfCurrentStep
<1>15. step_idx' \in 0 .. Len(steps') /\ awaiting' \in BOOLEAN /\ attempts' \in 0 .. MaxAttempts
  <2>1. step_idx' \in 0 .. Len(steps')
    BY <1>1, <1>2, <1>5
  <2>2. attempts' \in 0 .. MaxAttempts
    BY <1>5, ConfigAssumption
  <2>3. awaiting' \in BOOLEAN
    BY <1>5
  <2> QED
    BY <2>1, <2>2, <2>3
<1>16. outcome' \in Outcome
  BY <1>11, <1>12 DEF Outcome
<1> QED
  BY <1>2, <1>10, <1>13, <1>14, <1>15, <1>16

\* _finish keeps them too, from the steps as they are or from those with the
\* current one timed out.
LEMMA FinishKeeps ==
  ASSUME IInv, Busy, NEW upTo, NEW how \in {"cancelled", "no_response"},
         \/ upTo = steps /\ how = "cancelled"
         \/ /\ upTo = [steps EXCEPT ![step_idx + 1] = [Current EXCEPT !.status = "timed_out"]]
            /\ how = "no_response",
         Finish(upTo, how)
  PROVE  /\ steps' \in Seq(ConfigStep)
         /\ Len(steps') = Len(steps)
         /\ step_idx' = Len(steps')
         /\ awaiting' \in BOOLEAN /\ attempts' \in 0 .. MaxAttempts /\ outcome' \in Outcome
         /\ InOrder'
         /\ OutcomeTruthful'
         /\ AttemptsOfCurrentStep'
<1> DEFINE n == step_idx + 1
<1>1. /\ n \in DOMAIN steps /\ n \in 1 .. Len(steps) /\ Len(steps) \in Nat /\ step_idx \in Nat
      /\ DOMAIN steps = 1 .. Len(steps)
      /\ steps \in Seq(ConfigStep)
  BY CurrentIsPending DEF IInv, TypeOK
<1>2. Current \in ConfigStep /\ [Current EXCEPT !.status = "timed_out"] \in ConfigStep
  BY CurrentIsPending DEF ConfigStep, Status
<1>3. /\ upTo \in Seq(ConfigStep) /\ Len(upTo) = Len(steps) /\ DOMAIN upTo = DOMAIN steps
      /\ \A i \in DOMAIN steps : i # n => upTo[i] = steps[i]
      /\ upTo[n].status = IF how = "cancelled" THEN "pending" ELSE "timed_out"
  <2>1. CASE upTo = steps /\ how = "cancelled"
    BY <2>1, <1>1, CurrentIsPending DEF Current
  <2>2. CASE /\ upTo = [steps EXCEPT ![n] = [Current EXCEPT !.status = "timed_out"]]
             /\ how = "no_response"
    <3>1. [Current EXCEPT !.status = "timed_out"].status = "timed_out"
      BY <1>2 DEF ConfigStep
    <3> QED
      BY <2>2, <3>1, <1>1, <1>2
  <2> QED
    BY <2>1, <2>2
<1>4. \A i \in 1 .. Len(steps) : upTo[i] \in ConfigStep
  BY <1>1, <1>3
<1>5. \A i \in 1 .. Len(steps) : [upTo[i] EXCEPT !.status = "cancelled"] \in ConfigStep
  BY <1>4 DEF ConfigStep, Status
<1>6. steps' = [i \in 1 .. Len(steps) |->
                  IF upTo[i].status = "pending"
                  THEN [upTo[i] EXCEPT !.status = "cancelled"] ELSE upTo[i]]
  BY <1>1, <1>3 DEF Finish
<1>7. steps' \in Seq(ConfigStep) /\ Len(steps') = Len(steps) /\ DOMAIN steps' = 1 .. Len(steps)
  BY <1>1, <1>4, <1>5, <1>6
<1>8. /\ step_idx' = Len(steps') /\ awaiting' = FALSE /\ attempts' = 0 /\ outcome' = how
  BY <1>3, <1>7 DEF Finish
<1>9. \A i \in DOMAIN steps : i < n => steps[i].status \in Settling
  BY <1>1 DEF IInv, InOrder, Busy, Settling
<1>10. \A i \in DOMAIN steps : i > n => steps[i].status = "pending"
  BY <1>1 DEF IInv, InOrder, Busy
<1>11. \A i \in 1 .. Len(steps) :
         steps'[i].status = IF upTo[i].status = "pending" THEN "cancelled" ELSE upTo[i].status
  BY <1>4, <1>6 DEF ConfigStep
<1>12. /\ \A i \in 1 .. Len(steps) : i < n => steps'[i].status \in Settling
       /\ \A i \in 1 .. Len(steps) : i > n => steps'[i].status = "cancelled"
       /\ steps'[n].status = IF how = "cancelled" THEN "cancelled" ELSE "timed_out"
  BY <1>1, <1>3, <1>9, <1>10, <1>11 DEF Settling
<1>13. ~Busy'
  BY <1>1, <1>7, <1>8 DEF Busy
<1>14. InOrder'
  <2>1. \A i \in DOMAIN steps' : steps'[i].status # "pending"
    BY <1>1, <1>7, <1>12 DEF Settling
  <2>2. \A i \in DOMAIN steps' : steps'[i].status = "cancelled" => i >= n
    BY <1>1, <1>7, <1>12 DEF Settling
  <2>3. \A i, j \in DOMAIN steps' :
          i < j /\ steps'[i].status = "cancelled" => steps'[j].status = "cancelled"
    BY <2>2, <1>1, <1>7, <1>12
  <2> QED
    BY <2>1, <2>3, <1>13 DEF InOrder
<1>15. OutcomeTruthful'
  <2>1. how = "no_response" =>
          /\ steps'[n].status = "timed_out"
          /\ \A j \in DOMAIN steps' : j > n => steps'[j].status = "cancelled"
    BY <1>7, <1>12
  <2>2. n \in DOMAIN steps'
    BY <1>1, <1>7
  <2> QED
    BY <2>1, <2>2, <1>8, <1>13 DEF OutcomeTruthful
<1>16. AttemptsOfCurrentStep'
  BY <1>8 DEF AttemptsOfCurrentStep
<1>17. attempts' \in 0 .. MaxAttempts /\ awaiting' \in BOOLEAN /\ outcome' \in Outcome
  <2>1. attempts' \in 0 .. MaxAttempts
    BY <1>8, ConfigAssumption
  <2>2. awaiting' \in BOOLEAN /\ outcome' \in Outcome
    BY <1>8 DEF Outcome
  <2> QED
    BY <2>1, <2>2
<1> QED
  BY <1>7, <1>8, <1>14, <1>15, <1>16, <1>17

-----------------------------------------------------------------------------
LEMMA InitEstablishes == Init => IInv
<1> SUFFICES ASSUME Init PROVE IInv
  OBVIOUS
<1>1. steps = << >> /\ Len(steps) = 0 /\ DOMAIN steps = {} /\ steps \in Seq(ConfigStep)
  BY DEF Init
<1>2. ~Busy
  BY <1>1 DEF Init, Busy
<1>3. TypeOK
  <2>1. step_idx \in 0 .. Len(steps) /\ attempts \in 0 .. MaxAttempts
        /\ unanswered \in 0 .. MaxUnanswered
    BY <1>1, ConfigAssumption DEF Init
  <2>2. awaiting \in BOOLEAN /\ expired \in BOOLEAN /\ outcome \in Outcome
    BY DEF Init, Outcome
  <2> QED
    BY <1>1, <2>1, <2>2 DEF TypeOK
<1>4. InOrder /\ OutcomeTruthful /\ AttemptsOfCurrentStep /\ StillHopeful
  BY <1>1, <1>2 DEF Init, InOrder, OutcomeTruthful, AttemptsOfCurrentStep, StillHopeful
<1> QED
  BY <1>3, <1>4 DEF IInv

LEMMA StartPreserves ==
  ASSUME IInv, NEW plan \in Seq(PlannedStep), Start(plan)
  PROVE  IInv'
<1> DEFINE fresh == [i \in DOMAIN plan |-> Fresh(plan[i])]
<1>1. /\ steps' = fresh /\ step_idx' = 0 /\ awaiting' = FALSE /\ attempts' = 0
      /\ unanswered' = 0 /\ expired' = expired
      /\ outcome' = IF plan = << >> THEN "completed" ELSE "none"
  BY DEF Start
<1>2. /\ steps' \in Seq(ConfigStep)
      /\ Len(steps') = Len(plan)
      /\ DOMAIN steps' = 1 .. Len(plan)
      /\ \A i \in DOMAIN steps' : steps'[i].status = "pending"
  BY <1>1, FreshSteps
<1>3. plan \in Seq(PlannedStep) /\ Len(plan) \in Nat
  BY ConfigAssumption
<1>4. TypeOK'
  <2>1. step_idx' \in 0 .. Len(steps') /\ attempts' \in 0 .. MaxAttempts
        /\ unanswered' \in 0 .. MaxUnanswered
    BY <1>1, <1>2, <1>3, ConfigAssumption
  <2>2. outcome' \in Outcome /\ awaiting' \in BOOLEAN /\ expired' \in BOOLEAN
    BY <1>1 DEF Outcome, IInv, TypeOK
  <2> QED
    BY <1>2, <2>1, <2>2 DEF TypeOK
<1>5. Busy' <=> 0 < Len(plan)
  BY <1>1, <1>2 DEF Busy
<1>6. InOrder'
  BY <1>1, <1>2, <1>3, <1>5 DEF InOrder
<1>7. OutcomeTruthful'
  <2>1. CASE plan = << >>
    <3>1. Len(plan) = 0 /\ DOMAIN steps' = {} /\ outcome' = "completed" /\ ~Busy'
      BY <2>1, <1>1, <1>2, <1>5
    <3>2. steps' = << >>
      BY <3>1, <1>2
    <3> QED
      BY <3>1, <3>2 DEF OutcomeTruthful
  <2>2. CASE plan # << >>
    <3>1. Len(plan) > 0
      BY <2>2, <1>3
    <3> QED
      BY <2>2, <3>1, <1>1, <1>5 DEF OutcomeTruthful
  <2> QED
    BY <2>1, <2>2
<1>8. AttemptsOfCurrentStep' /\ StillHopeful'
  BY <1>1, ConfigAssumption DEF AttemptsOfCurrentStep, StillHopeful
<1> QED
  BY <1>4, <1>6, <1>7, <1>8 DEF IInv

LEMMA CancelPreserves ==
  ASSUME IInv, Cancel
  PROVE  IInv'
<1>1. Busy /\ Finish(steps, "cancelled") /\ UNCHANGED <<unanswered, expired>>
  BY DEF Cancel
<1>2. /\ steps' \in Seq(ConfigStep) /\ step_idx' = Len(steps') /\ awaiting' \in BOOLEAN
      /\ attempts' \in 0 .. MaxAttempts /\ outcome' \in Outcome
      /\ InOrder' /\ OutcomeTruthful' /\ AttemptsOfCurrentStep'
  BY <1>1, FinishKeeps
<1>3. step_idx' \in 0 .. Len(steps') /\ ~Busy'
  BY <1>2 DEF Busy
<1>4. TypeOK'
  BY <1>1, <1>2, <1>3 DEF TypeOK, IInv
<1> QED
  BY <1>2, <1>3, <1>4 DEF IInv, StillHopeful

LEMMA RequestPreserves ==
  ASSUME IInv, Request
  PROVE  IInv'
<1>1. /\ Busy /\ Allowed(Current)
      /\ awaiting' = TRUE /\ expired' = FALSE /\ attempts' = attempts + 1
      /\ UNCHANGED <<steps, step_idx, unanswered, outcome>>
      /\ awaiting => attempts < MaxAttempts
  BY DEF Request, Due
<1>2. attempts < MaxAttempts /\ attempts \in Nat
  BY <1>1, ConfigAssumption DEF IInv, TypeOK, AttemptsOfCurrentStep
<1>3. TypeOK'
  <2>1. attempts' \in 0 .. MaxAttempts
    BY <1>1, <1>2, ConfigAssumption
  <2>2. awaiting' \in BOOLEAN /\ expired' \in BOOLEAN
    BY <1>1
  <2> QED
    BY <1>1, <2>1, <2>2 DEF IInv, TypeOK
<1>4. InOrder' /\ OutcomeTruthful' /\ StillHopeful'
  BY <1>1 DEF IInv, InOrder, OutcomeTruthful, StillHopeful, Busy
<1>5. AttemptsOfCurrentStep'
  BY <1>1, <1>2 DEF AttemptsOfCurrentStep, Busy, Current, Allowed, IsWrite
<1> QED
  BY <1>3, <1>4, <1>5 DEF IInv

\* What is common to every step that settles the current parameter.
LEMMA SettlingPreserves ==
  ASSUME IInv, Busy, NEW step, Verdict(Current, step), Advance(step),
         unanswered' \in 0 .. (MaxUnanswered - 1), expired' = expired
  PROVE  IInv'
<1>1. /\ steps' \in Seq(ConfigStep) /\ step_idx' \in 0 .. Len(steps') /\ awaiting' \in BOOLEAN
      /\ attempts' \in 0 .. MaxAttempts /\ outcome' \in Outcome
      /\ InOrder' /\ OutcomeTruthful' /\ AttemptsOfCurrentStep'
  BY AdvanceKeeps
<1>2. unanswered' \in 0 .. MaxUnanswered /\ unanswered' < MaxUnanswered
  BY ConfigAssumption
<1>3. expired' \in BOOLEAN
  BY DEF IInv, TypeOK
<1>4. TypeOK'
  BY <1>1, <1>2, <1>3 DEF TypeOK
<1> QED
  BY <1>1, <1>2, <1>4 DEF IInv, StillHopeful

LEMMA RefuseLocallyPreserves ==
  ASSUME IInv, RefuseLocally
  PROVE  IInv'
<1> DEFINE step == [Current EXCEPT
              !.status = "refused",
              !.abort_code = IF IsWrite(Current) THEN "write_access_ro" ELSE "read_access_wo"]
<1>1. Busy /\ Advance(step) /\ UNCHANGED <<unanswered, expired>>
  BY DEF RefuseLocally, Due
<1>2. Verdict(Current, step)
  BY <1>1, CurrentIsPending DEF Verdict, ConfigStep, Status, AbortCode, Settling
<1>3. unanswered' \in 0 .. (MaxUnanswered - 1)
  BY <1>1, ConfigAssumption DEF IInv, TypeOK, StillHopeful
<1> QED
  BY <1>1, <1>2, <1>3, SettlingPreserves

LEMMA HandleSdoPreserves ==
  ASSUME IInv, NEW entry \in Entry, NEW type \in AnswerType, NEW data \in Data,
         HandleSdo(entry, type, data)
  PROVE  IInv'
<1> DEFINE step == Settled(Current, type, data)
<1>1. Busy /\ Advance(step) /\ unanswered' = 0 /\ expired' = expired
  BY DEF HandleSdo, Concerns
<1>2. Verdict(Current, step)
  BY <1>1, CurrentIsPending DEF Verdict, Settled, ConfigStep, Status, AbortCode, Settling
<1>3. unanswered' \in 0 .. (MaxUnanswered - 1)
  BY <1>1, ConfigAssumption
<1> QED
  BY <1>1, <1>2, <1>3, SettlingPreserves

LEMMA TimeOutPreserves ==
  ASSUME IInv, TimeOut
  PROVE  IInv'
<1> DEFINE step == [Current EXCEPT !.status = "timed_out"]
<1>1. /\ Busy /\ unanswered' = unanswered + 1 /\ expired' = expired
      /\ IF unanswered + 1 = MaxUnanswered
         THEN Finish([steps EXCEPT ![step_idx + 1] = step], "no_response")
         ELSE Advance(step)
  BY DEF TimeOut
<1>2. unanswered \in Nat /\ unanswered < MaxUnanswered /\ MaxUnanswered \in Nat
  BY <1>1, ConfigAssumption DEF IInv, TypeOK, StillHopeful
<1>3. CASE unanswered + 1 = MaxUnanswered
  <2>1. Finish([steps EXCEPT ![step_idx + 1] = step], "no_response")
    BY <1>1, <1>3
  <2>2. /\ steps' \in Seq(ConfigStep) /\ step_idx' = Len(steps') /\ awaiting' \in BOOLEAN
        /\ attempts' \in 0 .. MaxAttempts /\ outcome' \in Outcome
        /\ InOrder' /\ OutcomeTruthful' /\ AttemptsOfCurrentStep'
    BY <1>1, <2>1, FinishKeeps
  <2>3. step_idx' \in 0 .. Len(steps') /\ ~Busy'
    BY <2>2 DEF Busy
  <2>4. unanswered' \in 0 .. MaxUnanswered
    BY <1>1, <1>2
  <2>5. TypeOK'
    BY <1>1, <2>2, <2>3, <2>4 DEF TypeOK, IInv
  <2> QED
    BY <2>2, <2>3, <2>5 DEF IInv, StillHopeful
<1>4. CASE unanswered + 1 # MaxUnanswered
  <2>1. Advance(step) /\ unanswered' \in 0 .. (MaxUnanswered - 1)
    BY <1>1, <1>2, <1>4
  <2>2. Verdict(Current, step)
    BY <1>1, CurrentIsPending DEF Verdict, ConfigStep, Status, Settling
  <2> QED
    BY <1>1, <2>1, <2>2, SettlingPreserves
<1> QED
  BY <1>3, <1>4

LEMMA ExpirePreserves ==
  ASSUME IInv, Expire
  PROVE  IInv'
<1>1. /\ expired' = TRUE
      /\ UNCHANGED <<steps, step_idx, awaiting, attempts, unanswered, outcome>>
  BY DEF Expire
<1>2. TypeOK'
  BY <1>1 DEF IInv, TypeOK
<1>3. InOrder' /\ OutcomeTruthful' /\ AttemptsOfCurrentStep' /\ StillHopeful'
  BY <1>1 DEF IInv, InOrder, OutcomeTruthful, AttemptsOfCurrentStep, StillHopeful,
              Busy, Current, Allowed, IsWrite
<1> QED
  BY <1>2, <1>3 DEF IInv

LEMMA StutterPreserves ==
  ASSUME IInv, UNCHANGED vars
  PROVE  IInv'
  BY DEF vars, IInv, TypeOK, InOrder, OutcomeTruthful, AttemptsOfCurrentStep, StillHopeful,
         Busy, Current, Allowed, IsWrite

LEMMA NextPreserves == IInv /\ [Next]_vars => IInv'
<1> SUFFICES ASSUME IInv, [Next]_vars PROVE IInv'
  OBVIOUS
<1>1. CASE \E plan \in Plans : Start(plan)
  BY <1>1, StartPreserves, ConfigAssumption
<1>2. CASE Cancel
  BY <1>2, CancelPreserves
<1>3. CASE Send
  BY <1>3, RequestPreserves, RefuseLocallyPreserves, TimeOutPreserves DEF Send
<1>4. CASE \E entry \in Entry, type \in AnswerType, data \in Data : HandleSdo(entry, type, data)
  BY <1>4, HandleSdoPreserves
<1>5. CASE Expire
  BY <1>5, ExpirePreserves
<1>6. CASE UNCHANGED vars
  BY <1>6, StutterPreserves
<1> QED
  BY <1>1, <1>2, <1>3, <1>4, <1>5, <1>6 DEF Next

LEMMA SafeInvariance == SafeSpec => []IInv
  BY InitEstablishes, NextPreserves, PTL DEF SafeSpec

LEMMA Invariance == Spec => []IInv
  BY SafeInvariance, PTL DEF Spec

\* Every variable of the service keeps its type.
THEOREM TypeCorrect == Spec => []TypeOK
<1>1. IInv => TypeOK
  BY DEF IInv
<1> QED
  BY Invariance, <1>1, PTL

\* The steps are worked off in order, and a transfer that has ended leaves
\* none without a verdict, however answers, timeouts, cancels and new
\* transfers interleave.
THEOREM WorkedOffInOrder == Spec => []InOrder
<1>1. IInv => InOrder
  BY DEF IInv
<1> QED
  BY Invariance, <1>1, PTL

\* outcome() never says more than the steps do.
THEOREM OutcomeIsTruthful == Spec => []OutcomeTruthful
<1>1. IInv => OutcomeTruthful
  BY DEF IInv
<1> QED
  BY Invariance, <1>1, PTL

-----------------------------------------------------------------------------
(***************************************************************************)
(* A verdict stands: the step relation itself, under the invariant.        *)
(***************************************************************************)
SameRequest(i) ==
  /\ i \in DOMAIN steps'
  /\ steps[i].status # "pending" => steps'[i] = steps[i]
  /\ <<steps'[i].entry, steps'[i].write_value>> = <<steps[i].entry, steps[i].write_value>>

LEMMA AdvanceKeepsVerdicts ==
  ASSUME IInv, Busy, NEW step, Verdict(Current, step), Advance(step)
  PROVE  \A i \in DOMAIN steps : SameRequest(i)
<1> DEFINE n == step_idx + 1
<1>1. n \in DOMAIN steps /\ steps[n].status = "pending"
  BY CurrentIsPending DEF Current
<1>2. steps' = [steps EXCEPT ![n] = step]
  BY DEF Advance
<1>3. DOMAIN steps' = DOMAIN steps
  BY <1>2
<1>4. steps'[n] = step /\ \A i \in DOMAIN steps : i # n => steps'[i] = steps[i]
  BY <1>1, <1>2
<1>5. step.entry = steps[n].entry /\ step.write_value = steps[n].write_value
  BY DEF Verdict, Current
<1> QED
  BY <1>1, <1>3, <1>4, <1>5 DEF SameRequest

LEMMA FinishKeepsVerdicts ==
  ASSUME IInv, Busy, NEW upTo, NEW how, Finish(upTo, how),
         \/ upTo = steps
         \/ upTo = [steps EXCEPT ![step_idx + 1] = [Current EXCEPT !.status = "timed_out"]]
  PROVE  \A i \in DOMAIN steps : SameRequest(i)
<1> DEFINE n == step_idx + 1
<1>1. n \in DOMAIN steps /\ steps[n].status = "pending" /\ steps[n] \in ConfigStep
  BY CurrentIsPending DEF Current
<1>2. DOMAIN upTo = DOMAIN steps /\ \A i \in DOMAIN steps : i # n => upTo[i] = steps[i]
  BY <1>1
<1>3. /\ upTo[n].entry = steps[n].entry /\ upTo[n].write_value = steps[n].write_value
      /\ upTo[n] \in ConfigStep
  <2>1. CASE upTo = steps
    BY <2>1, <1>1
  <2>2. CASE upTo = [steps EXCEPT ![n] = [Current EXCEPT !.status = "timed_out"]]
    <3>1. upTo[n] = [Current EXCEPT !.status = "timed_out"]
      BY <2>2, <1>1
    <3> QED
      BY <3>1, <1>1 DEF Current, ConfigStep, Status
  <2> QED
    BY <2>1, <2>2
<1>4. \A i \in DOMAIN steps : upTo[i] \in ConfigStep
  BY <1>2, <1>3 DEF IInv, TypeOK
<1>5. DOMAIN steps' = DOMAIN steps
  BY <1>2 DEF Finish
<1>6. \A i \in DOMAIN steps :
        steps'[i] = IF upTo[i].status = "pending"
                    THEN [upTo[i] EXCEPT !.status = "cancelled"] ELSE upTo[i]
  BY <1>2 DEF Finish
<1>7. \A i \in DOMAIN steps : steps'[i].entry = upTo[i].entry
                             /\ steps'[i].write_value = upTo[i].write_value
  BY <1>4, <1>6 DEF ConfigStep
<1> QED
  BY <1>1, <1>2, <1>3, <1>5, <1>6, <1>7 DEF SameRequest

\* Once a step has its verdict nothing changes it, nor the value read with it,
\* before the next transfer, and no transfer replaces one under way.
THEOREM VerdictsAreFinal == Spec => VerdictsStand
<1> DEFINE Stands == (\A i \in DOMAIN steps : SameRequest(i)) \/ ~Busy
<1>1. ASSUME IInv, [Next]_vars PROVE [Stands]_vars
  <2>1. CASE \E plan \in Plans : Start(plan)
    BY <2>1 DEF Start
  <2>2. CASE Cancel
    BY <1>1, <2>2, FinishKeepsVerdicts DEF Cancel
  <2>3. CASE Request
    BY <2>3 DEF Request, SameRequest
  <2>4. CASE RefuseLocally
    <3> DEFINE step == [Current EXCEPT
          !.status = "refused",
          !.abort_code = IF IsWrite(Current) THEN "write_access_ro" ELSE "read_access_wo"]
    <3>1. Busy /\ Advance(step)
      BY <2>4 DEF RefuseLocally, Due
    <3>2. Verdict(Current, step)
      BY <1>1, <3>1, CurrentIsPending DEF Verdict, ConfigStep, Status, AbortCode, Settling
    <3> QED
      BY <1>1, <3>1, <3>2, AdvanceKeepsVerdicts
  <2>5. CASE TimeOut
    <3> DEFINE step == [Current EXCEPT !.status = "timed_out"]
    <3>1. /\ Busy
          /\ \/ Finish([steps EXCEPT ![step_idx + 1] = step], "no_response")
             \/ Advance(step)
      BY <2>5 DEF TimeOut
    <3>2. Verdict(Current, step)
      BY <1>1, <3>1, CurrentIsPending DEF Verdict, ConfigStep, Status, Settling
    <3> QED
      BY <1>1, <3>1, <3>2, AdvanceKeepsVerdicts, FinishKeepsVerdicts
  <2>6. CASE \E entry \in Entry, type \in AnswerType, data \in Data : HandleSdo(entry, type, data)
    <3>1. PICK entry \in Entry, type \in AnswerType, data \in Data : HandleSdo(entry, type, data)
      BY <2>6
    <3> DEFINE step == Settled(Current, type, data)
    <3>2. Busy /\ Advance(step)
      BY <3>1 DEF HandleSdo, Concerns
    <3>3. Verdict(Current, step)
      BY <1>1, <3>2, CurrentIsPending DEF Verdict, Settled, ConfigStep, Status, AbortCode, Settling
    <3> QED
      BY <1>1, <3>2, <3>3, AdvanceKeepsVerdicts
  <2>7. CASE Expire
    BY <2>7 DEF Expire, SameRequest
  <2> QED
    BY <1>1, <2>1, <2>2, <2>3, <2>4, <2>5, <2>6, <2>7 DEF Next, Send
<1>2. ASSUME IInv, [Next]_vars
      PROVE  [ \/ \A i \in DOMAIN steps :
                    /\ i \in DOMAIN steps'
                    /\ steps[i].status # "pending" => steps'[i] = steps[i]
                    /\ <<steps'[i].entry, steps'[i].write_value>>
                         = <<steps[i].entry, steps[i].write_value>>
              \/ ~Busy ]_vars
  BY <1>1, <1>2 DEF SameRequest
<1> QED
  BY Invariance, <1>2, PTL DEF Spec, SafeSpec, VerdictsStand

-----------------------------------------------------------------------------
(***************************************************************************)
(* The service implements the bulk transfer: every step of it is one of    *)
(* the abstract steps on the list of verdicts, or changes none of them.    *)
(***************************************************************************)
verdicts == [i \in DOMAIN steps |-> steps[i].status]

LEMMA VerdictsOfSteps ==
  ASSUME IInv
  PROVE  /\ DOMAIN verdicts = DOMAIN steps /\ DOMAIN steps = 1 .. Len(steps)
         /\ Len(verdicts) = Len(steps)
         /\ Len(steps) \in Nat
         /\ Promise!Running <=> Busy
         /\ Busy => Promise!IsCurrent(step_idx + 1)
<1>1. DOMAIN steps = 1 .. Len(steps) /\ Len(steps) \in Nat /\ step_idx \in 0 .. Len(steps)
  BY DEF IInv, TypeOK
<1>2. DOMAIN verdicts = DOMAIN steps /\ Len(verdicts) = Len(steps)
  BY <1>1 DEF verdicts
<1>3. Promise!Running <=> Busy
  <2>1. Busy => step_idx + 1 \in DOMAIN steps /\ steps[step_idx + 1].status = "pending"
    BY CurrentIsPending DEF Current
  <2>2. ~Busy => \A i \in DOMAIN steps : steps[i].status # "pending"
    BY DEF IInv, InOrder
  <2> QED
    BY <1>1, <2>1, <2>2 DEF Promise!Running
<1>4. Busy => Promise!IsCurrent(step_idx + 1)
  <2> SUFFICES ASSUME Busy PROVE Promise!IsCurrent(step_idx + 1)
    OBVIOUS
  <2>1. step_idx + 1 \in DOMAIN steps /\ steps[step_idx + 1].status = "pending"
    BY CurrentIsPending DEF Current
  <2>2. \A j \in 1 .. (step_idx + 1 - 1) : j \in DOMAIN steps /\ steps[j].status # "pending"
    BY <1>1 DEF IInv, InOrder
  <2> QED
    BY <2>1, <2>2, <1>1 DEF Promise!IsCurrent
<1> QED
  BY <1>1, <1>2, <1>3, <1>4

LEMMA AdvanceSettles ==
  ASSUME IInv, Busy, NEW step, Verdict(Current, step), Advance(step),
         \/ step.status = "done" /\ unanswered' = 0
         \/ step.status = "refused" /\ unanswered' \in {0, unanswered}
         \/ step.status = "timed_out" /\ unanswered' = unanswered + 1 /\ unanswered' # MaxUnanswered
  PROVE  Promise!Next
<1> DEFINE n == step_idx + 1
<1>1. n \in DOMAIN steps /\ Promise!IsCurrent(n)
  BY CurrentIsPending, VerdictsOfSteps
<1>2. verdicts' = [verdicts EXCEPT ![n] = step.status]
  <2>1. steps' = [steps EXCEPT ![n] = step]
    BY DEF Advance
  <2>2. DOMAIN steps' = DOMAIN steps /\ steps'[n] = step
        /\ \A i \in DOMAIN steps : i # n => steps'[i] = steps[i]
    BY <1>1, <2>1
  <2> QED
    BY <1>1, <2>2 DEF verdicts
<1>3. outcome' = IF n = Len(verdicts) THEN "completed" ELSE outcome
  BY VerdictsOfSteps DEF Advance
<1>4. Promise!Settle(n, step.status)
  BY <1>1, <1>2, <1>3 DEF Promise!Settle, verdicts
<1>5. step.status \in Promise!Verdicts
  BY DEF Verdict, Settling, Promise!Verdicts
<1> QED
  BY <1>1, <1>4, <1>5 DEF Promise!Next, Promise!Step

LEMMA FinishEnds ==
  ASSUME IInv, Busy, NEW upTo, NEW how, Finish(upTo, how),
         upTo \in Seq(ConfigStep), DOMAIN upTo = DOMAIN steps
  PROVE  /\ verdicts' = Promise!WithoutPending([i \in DOMAIN steps |-> upTo[i].status])
         /\ outcome' = how
<1>1. \A i \in DOMAIN steps : upTo[i] \in ConfigStep
  BY DEF IInv, TypeOK
<1>2. DOMAIN steps' = DOMAIN steps
  BY DEF Finish
<1>3. \A i \in DOMAIN steps :
        steps'[i] = IF upTo[i].status = "pending"
                    THEN [upTo[i] EXCEPT !.status = "cancelled"] ELSE upTo[i]
  BY DEF Finish
<1>4. \A i \in DOMAIN steps :
        steps'[i].status = IF upTo[i].status = "pending" THEN "cancelled" ELSE upTo[i].status
  BY <1>1, <1>3 DEF ConfigStep
<1> QED
  BY <1>2, <1>4 DEF Finish, verdicts, Promise!WithoutPending

LEMMA GiveUpIsAbstract ==
  ASSUME NEW i \in DOMAIN steps, Promise!GiveUp(i)
  PROVE  Promise!Next
<1>1. i \in DOMAIN [j \in DOMAIN steps |-> steps[j].status]
  OBVIOUS
<1>2. Promise!Step
  BY <1>1 DEF Promise!Step
<1> QED
  BY <1>2 DEF Promise!Next

LEMMA TimeOutIsAbstract ==
  ASSUME IInv, TimeOut
  PROVE  Promise!Next
<1> DEFINE n == step_idx + 1
           step == [Current EXCEPT !.status = "timed_out"]
           upTo == [steps EXCEPT ![n] = step]
<1>1. /\ Busy /\ unanswered' = unanswered + 1
      /\ IF unanswered + 1 = MaxUnanswered
         THEN Finish(upTo, "no_response")
         ELSE Advance(step)
  BY DEF TimeOut
<1>2. n \in DOMAIN steps /\ Promise!IsCurrent(n) /\ Current \in ConfigStep
  BY <1>1, CurrentIsPending, VerdictsOfSteps
<1>3. step \in ConfigStep /\ step.status = "timed_out" /\ Verdict(Current, step)
  BY <1>2 DEF Verdict, ConfigStep, Status, Settling
<1>4. CASE unanswered + 1 = MaxUnanswered
  <2>1. Finish(upTo, "no_response")
    BY <1>1, <1>4
  <2>2. upTo \in Seq(ConfigStep) /\ DOMAIN upTo = DOMAIN steps /\ upTo[n] = step
        /\ \A i \in DOMAIN steps : i # n => upTo[i] = steps[i]
    BY <1>2, <1>3 DEF IInv, TypeOK
  <2>3. [i \in DOMAIN steps |-> upTo[i].status] = [verdicts EXCEPT ![n] = "timed_out"]
    BY <1>2, <1>3, <2>2 DEF verdicts
  <2>4. verdicts' = Promise!WithoutPending([verdicts EXCEPT ![n] = "timed_out"])
        /\ outcome' = "no_response"
    <3>1. PICK new : new = upTo
      OBVIOUS
    <3>2. /\ Finish(new, "no_response") /\ new \in Seq(ConfigStep) /\ DOMAIN new = DOMAIN steps
          /\ [i \in DOMAIN steps |-> new[i].status] = [verdicts EXCEPT ![n] = "timed_out"]
      BY <2>1, <2>2, <2>3, <3>1
    <3>3. /\ verdicts' = Promise!WithoutPending([i \in DOMAIN steps |-> new[i].status])
          /\ outcome' = "no_response"
      BY <1>1, <3>2, FinishEnds
    <3> QED
      BY <3>2, <3>3
  <2>5. PICK m \in DOMAIN steps : m = n
    BY <1>2
  <2>6. Promise!GiveUp(m)
    BY <1>1, <1>2, <1>4, <2>4, <2>5 DEF Promise!GiveUp, verdicts
  <2> QED
    BY <2>6, GiveUpIsAbstract
<1>5. CASE unanswered + 1 # MaxUnanswered
  BY <1>1, <1>3, <1>5, AdvanceSettles
<1> QED
  BY <1>4, <1>5

LEMMA StepIsAbstract ==
  ASSUME IInv, [Next]_vars
  PROVE  [Promise!Next]_Promise!btvars
<1>1. CASE \E plan \in Plans : Start(plan)
  <2>1. PICK plan \in Plans : Start(plan)
    BY <1>1
  <2> DEFINE fresh == [i \in DOMAIN plan |-> Fresh(plan[i])]
  <2>2. plan \in Seq(PlannedStep) /\ Len(plan) \in Nat
    BY ConfigAssumption
  <2>3. steps' = fresh /\ DOMAIN steps' = 1 .. Len(plan)
        /\ \A i \in DOMAIN steps' : steps'[i].status = "pending"
    BY <2>1, FreshSteps, ConfigAssumption DEF Start
  <2>4. verdicts' = [i \in 1 .. Len(plan) |-> "pending"]
    BY <2>3 DEF verdicts
  <2>5. verdicts' \in Seq({"pending"}) /\ Len(verdicts') = Len(plan)
    BY <2>2, <2>4
  <2>6. (verdicts' = << >>) <=> (plan = << >>)
    BY <2>2, <2>5
  <2>7. ~Promise!Running
    BY <2>1, VerdictsOfSteps DEF Start
  <2>8. Promise!Begin
    BY <2>1, <2>5, <2>6, <2>7 DEF Start, Promise!Begin, verdicts
  <2> QED
    BY <2>8 DEF Promise!Next
<1>2. CASE Cancel
  <2>1. Busy /\ Finish(steps, "cancelled") /\ unanswered' = unanswered
    BY <1>2 DEF Cancel
  <2>2. verdicts' = Promise!WithoutPending(verdicts) /\ outcome' = "cancelled"
    BY <2>1, FinishEnds DEF IInv, TypeOK, verdicts
  <2>3. Promise!Stop
    BY <2>1, <2>2, VerdictsOfSteps DEF Promise!Stop, verdicts
  <2> QED
    BY <2>3 DEF Promise!Next
<1>3. CASE Request
  BY <1>3 DEF Request, Promise!btvars
<1>4. CASE RefuseLocally
  <2> DEFINE step == [Current EXCEPT
        !.status = "refused",
        !.abort_code = IF IsWrite(Current) THEN "write_access_ro" ELSE "read_access_wo"]
  <2>1. Busy /\ Advance(step) /\ unanswered' = unanswered
    BY <1>4 DEF RefuseLocally, Due
  <2>2. Verdict(Current, step) /\ step.status = "refused"
    BY <2>1, CurrentIsPending DEF Verdict, ConfigStep, Status, AbortCode, Settling
  <2> QED
    BY <2>1, <2>2, AdvanceSettles
<1>5. CASE TimeOut
  BY <1>5, TimeOutIsAbstract
<1>6. CASE \E entry \in Entry, type \in AnswerType, data \in Data : HandleSdo(entry, type, data)
  <2>1. PICK entry \in Entry, type \in AnswerType, data \in Data : HandleSdo(entry, type, data)
    BY <1>6
  <2> DEFINE step == Settled(Current, type, data)
  <2>2. Busy /\ Advance(step) /\ unanswered' = 0
    BY <2>1 DEF HandleSdo, Concerns
  <2>3. Verdict(Current, step) /\ step.status \in {"done", "refused"}
    BY <2>2, CurrentIsPending DEF Verdict, Settled, ConfigStep, Status, AbortCode, Settling
  <2> QED
    BY <2>2, <2>3, AdvanceSettles
<1>7. CASE Expire
  BY <1>7 DEF Expire, Promise!btvars
<1>8. CASE UNCHANGED vars
  BY <1>8 DEF vars, Promise!btvars
<1> QED
  BY <1>1, <1>2, <1>3, <1>4, <1>5, <1>6, <1>7, <1>8 DEF Next, Send

\* The service keeps the safety part of what a bulk transfer promises; that a
\* transfer is carried on is left to the model checker.
THEOREM Refinement == Spec => Promise!SafeSpec
<1>1. Init => Promise!Init
  BY DEF Init, Promise!Init
<1>2. IInv /\ [Next]_vars => [Promise!Next]_Promise!btvars
  BY StepIsAbstract
<1> QED
  BY Invariance, <1>1, <1>2, PTL DEF Spec, SafeSpec, Promise!SafeSpec

-----------------------------------------------------------------------------
(***************************************************************************)
(* The count of silence.  _unanswered is a number the service keeps; what  *)
(* it stands for is a property of the whole list of verdicts.  SilenceInv  *)
(* says it without the CHOOSE of the property, so that a step can hand the *)
(* position of the last answer on.                                         *)
(***************************************************************************)
\* The last step the server answered, and the steps it was silent about since.
IsLastAnswer(k) ==
  /\ k > 0 => Answered(steps[k])
  /\ \A i \in (k + 1) .. Len(steps) : ~Answered(steps[i])
SilentSince(k) == {i \in DOMAIN steps : i > k /\ steps[i].status = "timed_out"}

SilenceInv ==
  /\ \E k \in 0 .. Len(steps) : IsLastAnswer(k) /\ unanswered = Cardinality(SilentSince(k))
  /\ (unanswered = MaxUnanswered) <=> (outcome = "no_response")

\* There is one last answer.
LEMMA OneLastAnswer ==
  ASSUME steps \in Seq(ConfigStep), NEW j \in 0 .. Len(steps), NEW k \in 0 .. Len(steps),
         IsLastAnswer(j), IsLastAnswer(k)
  PROVE  j = k
<1>1. Len(steps) \in Nat
  OBVIOUS
<1>2. ~(j < k)
  <2> SUFFICES ASSUME j < k PROVE FALSE
    OBVIOUS
  <2>1. k \in (j + 1) .. Len(steps) /\ k > 0
    BY <1>1
  <2> QED
    BY <2>1 DEF IsLastAnswer
<1>3. ~(k < j)
  <2> SUFFICES ASSUME k < j PROVE FALSE
    OBVIOUS
  <2>1. j \in (k + 1) .. Len(steps) /\ j > 0
    BY <1>1
  <2> QED
    BY <2>1 DEF IsLastAnswer
<1> QED
  BY <1>1, <1>2, <1>3

\* So the invariant is what the property says of the one chosen.
LEMMA SilenceIsCounted == IInv /\ SilenceInv => SilenceCounted
<1> SUFFICES ASSUME IInv, SilenceInv PROVE SilenceCounted
  OBVIOUS
<1> DEFINE Last(k) == /\ k > 0 => Answered(steps[k])
                      /\ \A i \in (k + 1) .. Len(steps) : ~Answered(steps[i])
<1>1. steps \in Seq(ConfigStep)
  BY DEF IInv, TypeOK
<1>2. PICK k \in 0 .. Len(steps) : Last(k) /\ unanswered = Cardinality(SilentSince(k))
  BY DEF SilenceInv, IsLastAnswer
<1>3. PICK last : last = CHOOSE j \in 0 .. Len(steps) : Last(j)
  OBVIOUS
<1>4. last \in 0 .. Len(steps) /\ Last(last)
  BY <1>2, <1>3
<1>5. last = k
  BY <1>1, <1>2, <1>4, OneLastAnswer DEF IsLastAnswer
<1>6. GivesUpOnSilence
  BY <1>2, <1>3, <1>5 DEF GivesUpOnSilence, SilenceInv, SilentSince
<1> QED
  BY <1>6 DEF SilenceCounted, IInv

\* Verdicts that are neither answers nor silence do not count.
LEMMA NothingToCount ==
  ASSUME SilenceInv, UNCHANGED unanswered, Len(steps') = Len(steps), DOMAIN steps' = DOMAIN steps,
         DOMAIN steps = 1 .. Len(steps), Len(steps) \in Nat,
         \A i \in DOMAIN steps :
           /\ Answered(steps'[i]) <=> Answered(steps[i])
           /\ (steps'[i].status = "timed_out") <=> (steps[i].status = "timed_out")
  PROVE  \E k \in 0 .. Len(steps') : IsLastAnswer(k)' /\ unanswered' = Cardinality(SilentSince(k)')
<1>1. PICK k \in 0 .. Len(steps) : IsLastAnswer(k) /\ unanswered = Cardinality(SilentSince(k))
  BY DEF SilenceInv
<1>2. SilentSince(k)' = SilentSince(k)
  BY DEF SilentSince
<1>3. IsLastAnswer(k)'
  <2>1. k > 0 => k \in DOMAIN steps
    OBVIOUS
  <2>2. \A i \in (k + 1) .. Len(steps) : i \in DOMAIN steps
    OBVIOUS
  <2> QED
    BY <1>1, <2>1, <2>2 DEF IsLastAnswer
<1> QED
  BY <1>1, <1>2, <1>3


\* The step at hand gets its verdict, and the others none but "cancelled".
SettlesAs(step) ==
  /\ Len(steps') = Len(steps) /\ DOMAIN steps' = DOMAIN steps
  /\ steps'[step_idx + 1] = step
  /\ \A i \in DOMAIN steps :
       i # step_idx + 1 =>
         steps'[i] = steps[i] \/ (steps[i].status = "pending" /\ steps'[i].status = "cancelled")

LEMMA OneSettled ==
  ASSUME IInv, Busy, NEW step \in ConfigStep, Advance(step)
  PROVE  SettlesAs(step)
<1>0. step_idx + 1 \in DOMAIN steps
  BY CurrentIsPending
<1>1. PICK n \in DOMAIN steps : n = step_idx + 1
  BY ONLY <1>0
<1>2. steps \in Seq(ConfigStep) /\ steps' = [steps EXCEPT ![n] = step]
  BY <1>1 DEF IInv, TypeOK, Advance
<1>3. /\ Len(steps') = Len(steps) /\ DOMAIN steps' = DOMAIN steps /\ steps'[n] = step
      /\ \A i \in DOMAIN steps : i # n => steps'[i] = steps[i]
  BY <1>1, <1>2
<1> QED
  BY <1>1, <1>3 DEF SettlesAs

\* _finish after the step at hand timed out.
LEMMA LastSettled ==
  ASSUME IInv, Busy, NEW step \in ConfigStep, step.status # "pending", NEW how,
         Finish([steps EXCEPT ![step_idx + 1] = step], how)
  PROVE  SettlesAs(step)
<1>1. PICK n \in DOMAIN steps : n = step_idx + 1
  BY CurrentIsPending
<1>2. steps \in Seq(ConfigStep) /\ DOMAIN steps = 1 .. Len(steps) /\ Len(steps) \in Nat
  BY DEF IInv, TypeOK
<1>3. PICK upTo : upTo = [steps EXCEPT ![n] = step] /\ Finish(upTo, how)
  BY <1>1
<1>4. /\ upTo \in Seq(ConfigStep) /\ DOMAIN upTo = DOMAIN steps /\ upTo[n] = step
      /\ \A i \in DOMAIN steps : i # n => upTo[i] = steps[i]
  BY <1>1, <1>2, <1>3
<1>5. steps' = [i \in DOMAIN steps |-> IF upTo[i].status = "pending"
                                       THEN [upTo[i] EXCEPT !.status = "cancelled"] ELSE upTo[i]]
  BY <1>3, <1>4 DEF Finish
<1>6. DOMAIN steps' = 1 .. Len(steps) /\ steps'[n] = step
  BY <1>2, <1>4, <1>5
<1>7. ASSUME NEW i \in DOMAIN steps, i # n
      PROVE  steps'[i] = steps[i] \/ (steps[i].status = "pending" /\ steps'[i].status = "cancelled")
  <2>1. PICK s \in ConfigStep : s = steps[i]
    BY <1>2
  <2>2. steps'[i] = IF s.status = "pending" THEN [s EXCEPT !.status = "cancelled"] ELSE s
    BY <1>4, <1>5, <1>7, <2>1
  <2>3. [s EXCEPT !.status = "cancelled"].status = "cancelled"
    BY DEF ConfigStep
  <2> QED
    BY <2>1, <2>2, <2>3
<1>8. Len(steps') = Len(steps)
  BY <1>2, <1>5, <1>6
<1> QED
  BY <1>1, <1>2, <1>6, <1>7, <1>8 DEF SettlesAs

\* The steps before the one at hand have been counted, those behind it wait.
LEMMA SilentBefore ==
  ASSUME IInv, Busy, SilenceInv
  PROVE  \E k \in 0 .. step_idx :
           /\ IsLastAnswer(k) /\ unanswered = Cardinality(SilentSince(k))
           /\ SilentSince(k) \subseteq 1 .. step_idx
<1>1. /\ steps \in Seq(ConfigStep) /\ DOMAIN steps = 1 .. Len(steps) /\ Len(steps) \in Nat
      /\ step_idx \in 0 .. Len(steps)
  BY DEF IInv, TypeOK
<1>2. \A i \in DOMAIN steps : i > step_idx => steps[i].status = "pending"
  BY DEF IInv, InOrder
<1>3. PICK k \in 0 .. Len(steps) : IsLastAnswer(k) /\ unanswered = Cardinality(SilentSince(k))
  BY DEF SilenceInv
<1>4. k <= step_idx
  <2>1. k > step_idx => k \in DOMAIN steps /\ k > 0
    BY <1>1
  <2> QED
    BY <1>1, <1>2, <1>3, <2>1 DEF IsLastAnswer, Answered
<1>5. SilentSince(k) \subseteq 1 .. step_idx
  BY <1>1, <1>2 DEF SilentSince
<1> QED
  BY <1>1, <1>3, <1>4, <1>5

\* An answer, whichever it is, begins the count anew.
LEMMA AnswerCounts ==
  ASSUME IInv, Busy, NEW step \in ConfigStep, SettlesAs(step), Answered(step), unanswered' = 0,
         \A i \in DOMAIN steps : i > step_idx + 1 => steps'[i] = steps[i]
  PROVE  \E k \in 0 .. Len(steps') : IsLastAnswer(k)' /\ unanswered' = Cardinality(SilentSince(k)')
<1>1. /\ steps \in Seq(ConfigStep) /\ DOMAIN steps = 1 .. Len(steps) /\ Len(steps) \in Nat
      /\ step_idx \in 0 .. Len(steps)
  BY DEF IInv, TypeOK
<1>2. \A i \in DOMAIN steps : i > step_idx => steps[i].status = "pending"
  BY DEF IInv, InOrder
<1>3. PICK n \in DOMAIN steps : n = step_idx + 1 /\ n \in Nat /\ n > 0
  BY <1>1, CurrentIsPending
<1>4. steps'[n] = step /\ DOMAIN steps' = DOMAIN steps /\ Len(steps') = Len(steps)
  BY <1>3 DEF SettlesAs
<1>5. \A i \in DOMAIN steps : i > n => steps'[i].status = "pending"
  BY <1>1, <1>2, <1>3
<1>6. IsLastAnswer(n)'
  <2>1. \A i \in (n + 1) .. Len(steps') : i \in DOMAIN steps /\ i > n
    BY <1>1, <1>3, <1>4
  <2> QED
    BY <1>4, <1>5, <2>1 DEF IsLastAnswer, Answered
<1>7. SilentSince(n)' = {}
  BY <1>4, <1>5 DEF SilentSince
<1>8. n \in 0 .. Len(steps')
  BY <1>1, <1>3, <1>4
<1> QED
  BY <1>6, <1>7, <1>8, FS_EmptySet

\* A parameter that timed out is one more.
LEMMA TimeOutCounts ==
  ASSUME IInv, Busy, SilenceInv, NEW step \in ConfigStep, SettlesAs(step),
         step.status = "timed_out", unanswered' = unanswered + 1
  PROVE  \E k \in 0 .. Len(steps') : IsLastAnswer(k)' /\ unanswered' = Cardinality(SilentSince(k)')
<1>1. /\ steps \in Seq(ConfigStep) /\ DOMAIN steps = 1 .. Len(steps) /\ Len(steps) \in Nat
      /\ step_idx \in 0 .. Len(steps)
  BY DEF IInv, TypeOK
<1>2. \A i \in DOMAIN steps : i > step_idx => steps[i].status = "pending"
  BY DEF IInv, InOrder
<1>3. PICK n \in DOMAIN steps : n = step_idx + 1 /\ n \in Nat /\ n > 0
  BY <1>1, CurrentIsPending
<1>4. PICK k \in 0 .. step_idx :
        /\ IsLastAnswer(k) /\ unanswered = Cardinality(SilentSince(k))
        /\ SilentSince(k) \subseteq 1 .. step_idx
  BY SilentBefore
<1>5. /\ steps'[n] = step /\ DOMAIN steps' = DOMAIN steps /\ Len(steps') = Len(steps)
      /\ \A i \in DOMAIN steps :
           i # n => steps'[i] = steps[i]
                    \/ (steps[i].status = "pending" /\ steps'[i].status = "cancelled")
  BY <1>3 DEF SettlesAs
<1>6. \A i \in DOMAIN steps : Answered(steps'[i]) <=> Answered(steps[i])
  <2> TAKE i \in DOMAIN steps
  <2>1. CASE i = n
    BY <1>1, <1>2, <1>3, <1>5, <2>1 DEF Answered
  <2>2. CASE i # n
    BY <1>5, <2>2 DEF Answered
  <2> QED
    BY <2>1, <2>2
<1>7. IsLastAnswer(k)'
  <2>1. k > 0 => k \in DOMAIN steps
    BY <1>1
  <2>2. \A i \in (k + 1) .. Len(steps') : i \in DOMAIN steps
    BY <1>1, <1>5
  <2> QED
    BY <1>4, <1>5, <1>6, <2>1, <2>2 DEF IsLastAnswer
<1>8. SilentSince(k)' = SilentSince(k) \cup {n}
  <2>1. n > k /\ n \notin SilentSince(k)
    BY <1>1, <1>3, <1>4
  <2>2. \A i \in DOMAIN steps : i # n => ((steps'[i].status = "timed_out") <=> (steps[i].status = "timed_out"))
    BY <1>5
  <2> QED
    BY <1>3, <1>5, <2>1, <2>2 DEF SilentSince
<1>9. Cardinality(SilentSince(k) \cup {n}) = Cardinality(SilentSince(k)) + 1
  <2>1. IsFiniteSet(SilentSince(k))
    <3>1. IsFiniteSet(1 .. step_idx)
      BY <1>1, FS_Interval
    <3> QED
      BY <1>4, <3>1, FS_Subset
  <2>2. n \notin SilentSince(k)
    BY <1>1, <1>3, <1>4
  <2> QED
    BY <2>1, <2>2, FS_AddElement
<1>10. k \in 0 .. Len(steps')
  BY <1>1, <1>4, <1>5
<1> QED
  BY <1>4, <1>7, <1>8, <1>9, <1>10

\* A new transfer starts the count at zero.
LEMMA StartCounts ==
  ASSUME IInv, NEW plan \in Seq(PlannedStep), Start(plan)
  PROVE  SilenceInv'
<1>1. /\ Len(steps') = Len(plan) /\ DOMAIN steps' = 1 .. Len(plan) /\ Len(plan) \in Nat
      /\ \A i \in DOMAIN steps' : steps'[i].status = "pending"
  BY FreshSteps DEF Start
<1>2. unanswered' = 0 /\ outcome' # "no_response"
  BY DEF Start
<1>3. IsLastAnswer(0)'
  BY <1>1 DEF IsLastAnswer, Answered
<1>4. SilentSince(0)' = {}
  BY <1>1 DEF SilentSince
<1>5. \E k \in 0 .. Len(steps') : IsLastAnswer(k)' /\ unanswered' = Cardinality(SilentSince(k)')
  <2>1. 0 \in 0 .. Len(steps')
    BY <1>1
  <2> QED
    BY <1>2, <1>3, <1>4, <2>1, FS_EmptySet
<1> QED
  BY <1>2, <1>5, ConfigAssumption DEF SilenceInv

\* The list of steps is a sequence.
LEMMA SizesOfSteps ==
  ASSUME IInv
  PROVE  DOMAIN steps = 1 .. Len(steps) /\ Len(steps) \in Nat
  BY DEF IInv, TypeOK

\* A step that leaves the list alone leaves the count alone.
LEMMA SameStepsCount ==
  ASSUME IInv, SilenceInv, UNCHANGED <<steps, unanswered, outcome>>
  PROVE  SilenceInv'
<1>1. \E k \in 0 .. Len(steps') : IsLastAnswer(k)' /\ unanswered' = Cardinality(SilentSince(k)')
  BY SizesOfSteps, NothingToCount
<1> QED
  BY <1>1 DEF SilenceInv

LEMMA CancelCounts ==
  ASSUME IInv, SilenceInv, Cancel
  PROVE  SilenceInv'
<1>1. Busy /\ Finish(steps, "cancelled") /\ unanswered' = unanswered
  BY DEF Cancel
<1>2. steps \in Seq(ConfigStep) /\ DOMAIN steps = 1 .. Len(steps) /\ Len(steps) \in Nat
  BY DEF IInv, TypeOK
<1>3. steps' = [i \in DOMAIN steps |-> IF steps[i].status = "pending"
                                       THEN [steps[i] EXCEPT !.status = "cancelled"] ELSE steps[i]]
  BY <1>1 DEF Finish
<1>4. DOMAIN steps' = DOMAIN steps /\ Len(steps') = Len(steps)
  BY <1>2, <1>3
<1>5. ASSUME NEW i \in DOMAIN steps
      PROVE  /\ Answered(steps'[i]) <=> Answered(steps[i])
             /\ (steps'[i].status = "timed_out") <=> (steps[i].status = "timed_out")
  <2>1. PICK s \in ConfigStep : s = steps[i]
    BY <1>2
  <2>2. steps'[i] = IF s.status = "pending" THEN [s EXCEPT !.status = "cancelled"] ELSE s
    BY <1>3, <2>1
  <2>3. [s EXCEPT !.status = "cancelled"].status = "cancelled"
    BY DEF ConfigStep
  <2> QED
    BY <2>1, <2>2, <2>3 DEF Answered
<1>6. \E k \in 0 .. Len(steps') : IsLastAnswer(k)' /\ unanswered' = Cardinality(SilentSince(k)')
  BY ONLY SilenceInv, <1>1, <1>2, <1>4, <1>5, NothingToCount
<1>7. outcome = "none" /\ outcome' = "cancelled"
  BY <1>1 DEF IInv, OutcomeTruthful, Finish
<1> QED
  BY <1>1, <1>6, <1>7 DEF SilenceInv

\* The dictionary's refusal is not an answer of the server.
LEMMA RefuseLocallyCounts ==
  ASSUME IInv, SilenceInv, RefuseLocally
  PROVE  SilenceInv'
<1> DEFINE code == IF IsWrite(Current) THEN "write_access_ro" ELSE "read_access_wo"
<1>1. /\ Busy /\ ~Allowed(Current) /\ unanswered' = unanswered
      /\ Advance([Current EXCEPT !.status = "refused", !.abort_code = code])
  BY DEF RefuseLocally, Due
<1>2. PICK s \in ConfigStep : s = Current
  BY <1>1, CurrentIsPending
<1>3. PICK step : step = [s EXCEPT !.status = "refused", !.abort_code = code]
  OBVIOUS
<1>4. /\ step \in ConfigStep /\ step.status = "refused"
      /\ step.entry = s.entry /\ step.write_value = s.write_value
  BY <1>3 DEF ConfigStep, Status, AbortCode
<1>5. SettlesAs(step)
  BY <1>1, <1>2, <1>3, <1>4, OneSettled
<1>6. ~Allowed(step)
  BY <1>1, <1>2, <1>4 DEF Allowed, IsWrite
<1>7. PICK n \in DOMAIN steps : n = step_idx + 1
  BY <1>1, CurrentIsPending
<1>8. steps[n].status = "pending" /\ steps'[n] = step
  BY <1>1, <1>5, <1>7, CurrentIsPending DEF SettlesAs, Current
<1>9. ASSUME NEW i \in DOMAIN steps
      PROVE  /\ Answered(steps'[i]) <=> Answered(steps[i])
             /\ (steps'[i].status = "timed_out") <=> (steps[i].status = "timed_out")
  <2>1. CASE i = n
    BY <1>4, <1>6, <1>8, <2>1 DEF Answered
  <2>2. CASE i # n
    BY <1>5, <1>7, <2>2 DEF SettlesAs, Answered
  <2> QED
    BY <2>1, <2>2
<1>10. DOMAIN steps' = DOMAIN steps /\ Len(steps') = Len(steps)
  BY <1>5 DEF SettlesAs
<1>11. \E k \in 0 .. Len(steps') : IsLastAnswer(k)' /\ unanswered' = Cardinality(SilentSince(k)')
  <2>1. DOMAIN steps = 1 .. Len(steps) /\ Len(steps) \in Nat
    BY SizesOfSteps
  <2> QED
    BY ONLY SilenceInv, <1>1, <1>9, <1>10, <2>1, NothingToCount
<1>12. outcome' \in {"none", "completed"} /\ unanswered # MaxUnanswered
  BY <1>1 DEF Advance, IInv, OutcomeTruthful, SilenceInv
<1> QED
  BY <1>1, <1>11, <1>12 DEF SilenceInv

LEMMA HandleSdoCounts ==
  ASSUME IInv, SilenceInv, NEW entry \in Entry, NEW type \in AnswerType, NEW data \in Data,
         HandleSdo(entry, type, data)
  PROVE  SilenceInv'
<1>1. /\ Busy /\ awaiting /\ Advance(Settled(Current, type, data)) /\ unanswered' = 0
  BY DEF HandleSdo, Concerns
<1>2. PICK s \in ConfigStep : s = Current
  BY <1>1, CurrentIsPending
<1>3. PICK step : step = Settled(s, type, data)
  OBVIOUS
<1>4. Allowed(s)
  BY <1>1, <1>2 DEF IInv, AttemptsOfCurrentStep
<1>5. /\ step \in ConfigStep /\ step.status \in {"refused", "done"}
      /\ step.entry = s.entry /\ step.write_value = s.write_value
  BY <1>3 DEF Settled, ConfigStep, Status, AbortCode
<1>6. Answered(step)
  BY <1>4, <1>5 DEF Answered, Allowed, IsWrite
<1>7. SettlesAs(step)
  BY <1>1, <1>2, <1>3, <1>5, OneSettled
<1>8. \A i \in DOMAIN steps : i > step_idx + 1 => steps'[i] = steps[i]
  BY <1>1, CurrentIsPending, SizesOfSteps DEF Advance
<1>9. \E k \in 0 .. Len(steps') : IsLastAnswer(k)' /\ unanswered' = Cardinality(SilentSince(k)')
  BY <1>1, <1>5, <1>6, <1>7, <1>8, AnswerCounts
<1>10. outcome' \in {"none", "completed"}
  BY <1>1 DEF Advance, IInv, OutcomeTruthful
<1> QED
  BY <1>1, <1>9, <1>10, ConfigAssumption DEF SilenceInv

LEMMA TimeOutKeepsCount ==
  ASSUME IInv, SilenceInv, TimeOut
  PROVE  SilenceInv'
<1>1. PICK step : step = [Current EXCEPT !.status = "timed_out"]
  OBVIOUS
<1>2. /\ Busy /\ unanswered' = unanswered + 1
      /\ IF unanswered + 1 = MaxUnanswered
         THEN Finish([steps EXCEPT ![step_idx + 1] = step], "no_response")
         ELSE Advance(step)
  BY <1>1 DEF TimeOut
<1>3. step \in ConfigStep /\ step.status = "timed_out"
  BY <1>1, <1>2, CurrentIsPending DEF ConfigStep, Status
<1>4. SettlesAs(step)
  <2>1. CASE unanswered + 1 = MaxUnanswered
    BY <1>2, <1>3, <2>1, LastSettled
  <2>2. CASE unanswered + 1 # MaxUnanswered
    BY <1>2, <1>3, <2>2, OneSettled
  <2> QED
    BY <2>1, <2>2
<1>5. \E k \in 0 .. Len(steps') : IsLastAnswer(k)' /\ unanswered' = Cardinality(SilentSince(k)')
  BY <1>2, <1>3, <1>4, TimeOutCounts
<1>6. (unanswered' = MaxUnanswered) <=> (outcome' = "no_response")
  <2>1. outcome = "none"
    BY <1>2 DEF IInv, OutcomeTruthful
  <2>2. CASE unanswered + 1 = MaxUnanswered
    BY <1>2, <2>2 DEF Finish
  <2>3. CASE unanswered + 1 # MaxUnanswered
    BY <1>2, <2>1, <2>3 DEF Advance
  <2> QED
    BY <2>2, <2>3
<1> QED
  BY <1>5, <1>6 DEF SilenceInv

LEMMA InitCounts == Init => SilenceInv
<1> SUFFICES ASSUME Init PROVE SilenceInv
  OBVIOUS
<1>1. steps = << >> /\ Len(steps) = 0 /\ DOMAIN steps = {} /\ unanswered = 0 /\ outcome = "none"
  BY DEF Init
<1>2. IsLastAnswer(0) /\ SilentSince(0) = {} /\ 0 \in 0 .. Len(steps)
  BY <1>1 DEF IsLastAnswer, SilentSince
<1> QED
  BY <1>1, <1>2, FS_EmptySet, ConfigAssumption DEF SilenceInv

LEMMA NextCounts == IInv /\ SilenceInv /\ [Next]_vars => SilenceInv'
<1> SUFFICES ASSUME IInv, SilenceInv, [Next]_vars PROVE SilenceInv'
  OBVIOUS
<1>1. CASE \E plan \in Plans : Start(plan)
  BY <1>1, StartCounts, ConfigAssumption
<1>2. CASE Cancel
  BY <1>2, CancelCounts
<1>3. CASE Request
  BY <1>3, SameStepsCount DEF Request
<1>4. CASE RefuseLocally
  BY <1>4, RefuseLocallyCounts
<1>5. CASE TimeOut
  BY <1>5, TimeOutKeepsCount
<1>6. CASE \E entry \in Entry, type \in AnswerType, data \in Data : HandleSdo(entry, type, data)
  BY <1>6, HandleSdoCounts
<1>7. CASE Expire
  BY <1>7, SameStepsCount DEF Expire
<1>8. CASE UNCHANGED vars
  BY <1>8, SameStepsCount DEF vars
<1> QED
  BY <1>1, <1>2, <1>3, <1>4, <1>5, <1>6, <1>7, <1>8 DEF Next, Send

\* _unanswered is the silence since the last answer, and exactly the
\* MaxUnanswered-th parameter in a row that stays unanswered ends a transfer.
THEOREM SilenceCountedAlways == Spec => []SilenceCounted
<1>1. IInv /\ SilenceInv => SilenceCounted
  BY SilenceIsCounted
<1> QED
  BY Invariance, InitCounts, NextCounts, <1>1, PTL DEF Spec, SafeSpec
=============================================================================

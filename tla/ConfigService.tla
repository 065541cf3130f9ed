---------------------------- MODULE ConfigService ----------------------------
(***************************************************************************)
(* ServerConfigService: reads or writes a list of parameters of a CANopen  *)
(* server one SDO request at a time.  The UI thread calls start and        *)
(* cancel; the CAN thread calls send on every turn of its loop and         *)
(* handle_sdo for every SDO answer.  Each of the four runs under _mtx from *)
(* its first to its last line, so each is one step here.                   *)
(*                                                                         *)
(* The environment is the most general one: any answer about any object    *)
(* may arrive at any moment.  ConfigOnBus says what a real node sends.     *)
(***************************************************************************)
EXTENDS Integers, Sequences, FiniteSets

CONSTANTS
  Entry,          \* objects of the server's dictionary
  Data,           \* values an object can hold
  NoData,         \* an empty std::optional<ExpeditedSdoData>, a default one too
  Readable,       \* objects with read permission
  Writable,       \* objects with write permission
  Plans,          \* the step lists the UI submits, each a sequence of PlannedStep
  MaxAttempts,    \* _max_attempts
  MaxUnanswered   \* _max_unanswered

PlannedStep == [entry : Entry, write_value : Data \cup {NoData}]

ASSUME ConfigAssumption ==
  /\ NoData \notin Data
  /\ Readable \subseteq Entry
  /\ Writable \subseteq Entry
  /\ Plans \subseteq Seq(PlannedStep)
  /\ MaxAttempts \in Nat \ {0}
  /\ MaxUnanswered \in Nat \ {0}

VARIABLES
  steps,       \* _steps
  step_idx,    \* _step_idx, the number of steps settled
  awaiting,    \* _awaiting
  attempts,    \* _attempts
  unanswered,  \* _unanswered
  outcome,     \* _outcome
  expired      \* now - _request_timepoint >= _timeout

vars == <<steps, step_idx, awaiting, attempts, unanswered, outcome, expired>>

Status == {"pending", "done", "refused", "timed_out", "cancelled"}
Outcome == {"none", "completed", "cancelled", "no_response"}

\* The codes a step can be refused with: the dictionary's own two, or
\* whatever the server aborts with.  object_not_found cannot be the
\* dictionary's: a step's entry is an iterator into it.
AbortCode == {"no_error", "read_access_wo", "write_access_ro", "by_server"}

AnswerType == {"response_to_read", "response_to_write", "response_to_exec", "abort"}

ConfigStep ==
  [entry : Entry, write_value : Data \cup {NoData}, status : Status,
   value : Data \cup {NoData}, abort_code : AbortCode]

\* A step as the UI hands it over, not asked for yet.
Fresh(planned) ==
  [entry |-> planned.entry, write_value |-> planned.write_value,
   status |-> "pending", value |-> NoData, abort_code |-> "no_error"]

Busy == step_idx < Len(steps)
Current == steps[step_idx + 1]
IsWrite(step) == step.write_value # NoData
Allowed(step) == step.entry \in (IF IsWrite(step) THEN Writable ELSE Readable)
Answer(step) == IF IsWrite(step) THEN "response_to_write" ELSE "response_to_read"

-----------------------------------------------------------------------------
\* Mutants, for the mutation runs only.
AdvanceKeepsAttempts(step) ==
  /\ steps' = [steps EXCEPT ![step_idx + 1] = step]
  /\ step_idx' = step_idx + 1
  /\ awaiting' = FALSE
  /\ attempts' = attempts
  /\ outcome' = IF step_idx + 1 = Len(steps) THEN "completed" ELSE outcome
AdvanceMissesTheEnd(step) ==
  /\ steps' = [steps EXCEPT ![step_idx + 1] = step]
  /\ step_idx' = step_idx + 1
  /\ awaiting' = FALSE
  /\ attempts' = 0
  /\ outcome' = IF step_idx = Len(steps) THEN "completed" ELSE outcome
FinishLeavesPending(upTo, how) ==
  /\ steps' = upTo
  /\ step_idx' = Len(upTo)
  /\ awaiting' = FALSE
  /\ attempts' = 0
  /\ outcome' = how

\* _advance, after the current step became `step`.
Advance(step) ==
  /\ steps' = [steps EXCEPT ![step_idx + 1] = step]
  /\ step_idx' = step_idx + 1
  /\ awaiting' = FALSE
  /\ attempts' = 0
  /\ outcome' = IF step_idx + 1 = Len(steps) THEN "completed" ELSE outcome

\* _finish, from the steps `upTo`.
Finish(upTo, how) ==
  /\ steps' = [i \in DOMAIN upTo |->
                 IF upTo[i].status = "pending"
                 THEN [upTo[i] EXCEPT !.status = "cancelled"]
                 ELSE upTo[i]]
  /\ step_idx' = Len(upTo)
  /\ awaiting' = FALSE
  /\ attempts' = 0
  /\ outcome' = how

Init ==
  /\ steps = << >>
  /\ step_idx = 0
  /\ awaiting = FALSE
  /\ attempts = 0
  /\ unanswered = 0
  /\ outcome = "none"
  /\ expired = TRUE

\* Mutant: a transfer under way is replaced.
StartWhileBusy(plan) ==
  /\ steps' = [i \in DOMAIN plan |-> Fresh(plan[i])]
  /\ step_idx' = 0
  /\ awaiting' = FALSE
  /\ attempts' = 0
  /\ unanswered' = 0
  /\ outcome' = IF plan = << >> THEN "completed" ELSE "none"
  /\ UNCHANGED expired

\* start, when no transfer runs; while one does it returns false and changes
\* nothing.
Start(plan) ==
  /\ ~Busy
  /\ steps' = [i \in DOMAIN plan |-> Fresh(plan[i])]
  /\ step_idx' = 0
  /\ awaiting' = FALSE
  /\ attempts' = 0
  /\ unanswered' = 0
  /\ outcome' = IF plan = << >> THEN "completed" ELSE "none"
  /\ UNCHANGED expired

Cancel ==
  /\ Busy
  /\ Finish(steps, "cancelled")
  /\ UNCHANGED <<unanswered, expired>>

\* send has something to ask: a new step, or the current one once more.
Due ==
  /\ Busy
  /\ awaiting => expired /\ attempts < MaxAttempts

\* send -> _request: the request goes out.
Request ==
  /\ Due
  /\ Allowed(Current)
  /\ awaiting' = TRUE
  /\ expired' = FALSE
  /\ attempts' = attempts + 1
  /\ UNCHANGED <<steps, step_idx, unanswered, outcome>>

\* send -> _request: the dictionary does not allow it, nothing goes out.
RefuseLocally ==
  /\ Due
  /\ ~Allowed(Current)
  /\ Advance([Current EXCEPT
       !.status = "refused",
       !.abort_code = IF IsWrite(Current) THEN "write_access_ro" ELSE "read_access_wo"])
  /\ UNCHANGED <<unanswered, expired>>

TimeOutNever ==
  /\ Busy
  /\ awaiting
  /\ expired
  /\ attempts > MaxAttempts
  /\ LET step == [Current EXCEPT !.status = "timed_out"] IN
       IF unanswered + 1 = MaxUnanswered
       THEN Finish([steps EXCEPT ![step_idx + 1] = step], "no_response")
       ELSE Advance(step)
  /\ unanswered' = unanswered + 1
  /\ UNCHANGED expired

\* send: the last attempt went unanswered too.
TimeOut ==
  /\ Busy
  /\ awaiting
  /\ expired
  /\ attempts >= MaxAttempts
  /\ LET step == [Current EXCEPT !.status = "timed_out"] IN
       IF unanswered + 1 = MaxUnanswered
       THEN Finish([steps EXCEPT ![step_idx + 1] = step], "no_response")
       ELSE Advance(step)
  /\ unanswered' = unanswered + 1
  /\ UNCHANGED expired

ConcernsAnyType(entry, type) ==
  /\ Busy
  /\ awaiting
  /\ entry = Current.entry
  /\ type \in AnswerType

\* Mutant: a step is settled before it has asked.
ConcernsUnasked(entry, type) ==
  /\ Busy
  /\ entry = Current.entry
  /\ type \in {"abort", Answer(Current)}

\* What handle_sdo makes of an answer: whether it is about the step in flight ...
Concerns(entry, type) ==
  /\ Busy
  /\ awaiting
  /\ entry = Current.entry
  /\ type \in {"abort", Answer(Current)}

SettledByAbort(step, type, data) ==
  [step EXCEPT !.status = "done", !.value = IF IsWrite(step) THEN @ ELSE data]

\* ... and if so, what becomes of the step.
Settled(step, type, data) ==
  IF type = "abort"
  THEN [step EXCEPT !.status = "refused", !.abort_code = "by_server"]
  ELSE [step EXCEPT !.status = "done",
                    !.value = IF IsWrite(step) THEN @ ELSE data]

HandleSdoKeepsUnanswered(entry, type, data) ==
  /\ Concerns(entry, type)
  /\ Advance(Settled(Current, type, data))
  /\ UNCHANGED <<unanswered, expired>>

\* An answer that does not concern the step in flight changes nothing.
HandleSdo(entry, type, data) ==
  /\ Concerns(entry, type)
  /\ Advance(Settled(Current, type, data))
  /\ unanswered' = 0
  /\ UNCHANGED expired

\* _timeout has passed since the request.
Expire ==
  /\ ~expired
  /\ expired' = TRUE
  /\ UNCHANGED <<steps, step_idx, awaiting, attempts, unanswered, outcome>>

Send == Request \/ RefuseLocally \/ TimeOut

Next ==
  \/ \E plan \in Plans : Start(plan)
  \/ Cancel
  \/ Send
  \/ \E entry \in Entry, type \in AnswerType, data \in Data : HandleSdo(entry, type, data)
  \/ Expire

\* The CAN thread turns its loop for as long as the program runs, and calls
\* send on every turn; the clock advances.  Nothing obliges the operator to
\* do anything, nor the server to answer.
Fairness == WF_vars(Send) /\ WF_vars(Expire)

SafeSpec == Init /\ [][Next]_vars
Spec == SafeSpec /\ Fairness
-----------------------------------------------------------------------------
TypeOK ==
  /\ steps \in Seq(ConfigStep)
  /\ step_idx \in 0 .. Len(steps)
  /\ awaiting \in BOOLEAN
  /\ attempts \in 0 .. MaxAttempts
  /\ unanswered \in 0 .. MaxUnanswered
  /\ outcome \in Outcome
  /\ expired \in BOOLEAN

\* The steps before _step_idx have their verdict and the others wait for
\* theirs while a transfer runs; once it has ended none waits, and only a
\* transfer that was broken off leaves cancelled steps, all of them at the end
\* of the list.  The panel counts on it when it takes the results over row by
\* row (_take_read_all, _take_write).
InOrder ==
  /\ Busy => \A i \in DOMAIN steps :
               (steps[i].status \in {"done", "refused", "timed_out"}) <=> (i <= step_idx)
  /\ Busy => \A i \in DOMAIN steps : (steps[i].status = "pending") <=> (i > step_idx)
  /\ ~Busy => \A i \in DOMAIN steps : steps[i].status # "pending"
  /\ \A i, j \in DOMAIN steps :
       i < j /\ steps[i].status = "cancelled" => steps[j].status = "cancelled"

\* outcome() is none exactly while a transfer runs (or before the first one),
\* completed only if every step was worked off, and no_response only if the
\* last step that was asked for timed out.
OutcomeTruthful ==
  /\ Busy => outcome = "none"
  /\ (~Busy /\ steps # << >>) => outcome # "none"
  /\ outcome = "completed" => \A i \in DOMAIN steps : steps[i].status # "cancelled"
  /\ outcome = "no_response" =>
       \E i \in DOMAIN steps : /\ steps[i].status = "timed_out"
                               /\ \A j \in DOMAIN steps : j > i => steps[j].status = "cancelled"

\* The server answered this step, if only to refuse it.
Answered(step) == step.status = "done" \/ (step.status = "refused" /\ Allowed(step))

\* _unanswered is the number of parameters that timed out since the last
\* answer, and the transfer gives up at the MaxUnanswered-th of them and not
\* before ("several parameters in a row went unanswered").
GivesUpOnSilence ==
  LET lastAnswer ==
        CHOOSE k \in 0 .. Len(steps) :
          /\ k > 0 => Answered(steps[k])
          /\ \A i \in (k + 1) .. Len(steps) : ~Answered(steps[i])
      silentSteps == {i \in DOMAIN steps : i > lastAnswer /\ steps[i].status = "timed_out"}
  IN /\ unanswered = Cardinality(silentSteps)
     /\ (unanswered = MaxUnanswered) <=> (outcome = "no_response")

\* A retry stays a retry: a request is outstanding only for a step without a
\* verdict, and between two steps the count of attempts starts afresh.
AttemptsOfCurrentStep ==
  /\ awaiting => Busy /\ attempts > 0 /\ Allowed(Current)
  /\ ~awaiting => attempts = 0

\* The limits count what they are for: the silence since the last answer, and
\* the requests of the step at hand alone.
SilenceCounted == GivesUpOnSilence /\ AttemptsOfCurrentStep

\* A step's verdict, and the value read back with it, stay as they are until
\* the next transfer begins; a transfer under way is not replaced by another.
VerdictsStand ==
  [][ \/ \A i \in DOMAIN steps :
            /\ i \in DOMAIN steps'
            /\ steps[i].status # "pending" => steps'[i] = steps[i]
            /\ <<steps'[i].entry, steps'[i].write_value>> = <<steps[i].entry, steps[i].write_value>>
      \/ ~Busy
    ]_vars

\* ServerConfigService keeps the promises of a bulk transfer, that whatever the
\* server does one that was begun ends among them.
Promise == INSTANCE BulkTransfer WITH
  results <- [i \in DOMAIN steps |-> steps[i].status],
  silent <- unanswered,
  ended <- outcome

ImplementsBulkTransfer == Promise!Spec
=============================================================================

----------------------------- MODULE ConfigOnBus -----------------------------
(***************************************************************************)
(* The bulk transfer where it lives: ConfigService asks through            *)
(* ServerSdoService, which marks the quiet requests, over the CAN bus, of  *)
(* a node that serves them one after the other, while the operator reads   *)
(* and writes single parameters aloud, starts transfers and cancels them.  *)
(*                                                                         *)
(* Two threads run.  The CAN thread asks (mark, then send, both under the  *)
(* service's _mtx), and handles answers (take the mark, then notify).  The *)
(* UI thread starts and cancels transfers and asks aloud (mark, then       *)
(* send).  _quiet_mtx covers a mark alone, so the steps of the two threads *)
(* interleave.                                                             *)
(*                                                                         *)
(* Frames of one CAN identifier are never reordered; they may be lost, and *)
(* the node may take any time over them.                                   *)
(***************************************************************************)
EXTENDS ConfigService

CONSTANTS
  MaxLoud,      \* bound: requests made aloud in flight
  MaxInFlight   \* bound: frames in flight

ASSUME BusAssumption ==
  /\ MaxLoud \in Nat
  /\ MaxInFlight \in Nat \ {0}

VARIABLES
  quiet,     \* _quiet_requests
  requests,  \* rsdo frames under way to the node
  answers,   \* tsdo frames under way from the node
  od,        \* the node's dictionary
  can,       \* where the CAN thread stands
  ui,        \* where the UI thread stands
  executed,  \* history: the node executed the write of the step in flight
  overtaken, \* history: the kinds of the frames about its object, and not its own, that were
             \* under way when the step in flight asked
  muddled,   \* history: objects asked for with another frame about them under way, so that
             \* their one mark does not tell which answer it is for
  log        \* history: what the log line of the last answer, or its absence, amounts to

busvars == <<vars, quiet, requests, answers, od, can, ui, executed,
             overtaken, muddled, log>>
sdovars == <<quiet, requests, answers, od, ui, muddled, log>>

\* A request or an answer.  `by` and `loud` are not on the wire: the step of
\* the present transfer it belongs to (0 if none), and whether it was made
\* aloud.
Frame(entry, type, data, by, loud) ==
  [entry |-> entry, type |-> type, data |-> data, by |-> by, loud |-> loud]

Idle == [at |-> "idle"]

\* The frames on the bus and the answer in the CAN thread's hands.
InFlight ==
  {requests[i] : i \in DOMAIN requests} \cup {answers[i] : i \in DOMAIN answers}
    \cup (IF can.at = "notifying" THEN {can.frame} ELSE {})

\* The frames about an object that have not been handled yet.
Queued(entry) ==
  {frame \in {requests[i] : i \in DOMAIN requests} \cup {answers[i] : i \in DOMAIN answers} :
     frame.entry = entry}

\* What a frame asks for or answers, unless it refuses.
Kind(type) ==
  IF type \in {"read", "response_to_read"} THEN "read"
  ELSE IF type \in {"write", "response_to_write"} THEN "write"
  ELSE "abort"

\* The frames under way that the step in flight may take for its own.
Strays == {frame \in InFlight : frame.entry = Current.entry /\ frame.by # step_idx + 1}

Loud(frames) == {i \in DOMAIN frames : frames[i].loud}
LoudInFlight == Cardinality(Loud(requests)) + Cardinality(Loud(answers))

\* _mtx is held by the CAN thread from the mark to the end of the request.
Unlocked == can.at # "asking"

\* With a new transfer the frames of the last one belong to no step.
Disown(frames) == [i \in DOMAIN frames |-> [frames[i] EXCEPT !.by = 0]]

\* The histories of the step in flight end with it.
StepSettled == executed' = FALSE /\ overtaken' = {}

BusInit ==
  /\ Init
  /\ quiet = {}
  /\ requests = << >>
  /\ answers = << >>
  /\ od \in [Entry -> Data]
  /\ can = Idle
  /\ ui = Idle
  /\ executed = FALSE
  /\ overtaken = {}
  /\ muddled = {}
  /\ log = "right"

-----------------------------------------------------------------------------
(* The CAN thread.                                                         *)

\* Mutant: the request is not marked.
CanMarkNothing ==
  /\ can = Idle
  /\ Len(requests) + Len(answers) < MaxInFlight
  /\ Due
  /\ Allowed(Current)
  /\ muddled' = IF Queued(Current.entry) # {} THEN muddled \cup {Current.entry}
                                             ELSE muddled \ {Current.entry}
  /\ can' = [at |-> "asking"]
  /\ UNCHANGED <<vars, quiet, requests, answers, od, ui, executed, overtaken, log>>

\* send -> _request -> read or write: the mark comes first ...
CanMark ==
  /\ can = Idle
  /\ Len(requests) + Len(answers) < MaxInFlight
  /\ Due
  /\ Allowed(Current)
  /\ quiet' = quiet \cup {Current.entry}
  /\ muddled' = IF Queued(Current.entry) # {} THEN muddled \cup {Current.entry}
                                             ELSE muddled \ {Current.entry}
  /\ can' = [at |-> "asking"]
  /\ UNCHANGED <<vars, requests, answers, od, ui, executed, overtaken, log>>

\* ... then the frame.
CanSend ==
  /\ can.at = "asking"
  /\ Request
  /\ requests' = Append(requests,
       Frame(Current.entry, IF IsWrite(Current) THEN "write" ELSE "read",
             Current.write_value, step_idx + 1, FALSE))
  /\ overtaken' = overtaken \cup {Kind(frame.type) : frame \in Strays}
  /\ can' = Idle
  /\ UNCHANGED <<quiet, answers, od, ui, executed, muddled, log>>

\* send, when nothing goes out.
CanGoOn ==
  /\ can = Idle
  /\ RefuseLocally \/ TimeOut
  /\ StepSettled
  /\ UNCHANGED <<sdovars, can>>

\* A line for an answer that was asked for quietly, or none for one that was
\* asked for aloud, is wrong, if the mark could tell.  A refusal is worth a line
\* even so.
LogLine(frame, logged) ==
  IF frame.type = "abort" \/ logged = frame.loud \/ frame.entry \in muddled THEN "right"
  ELSE IF logged THEN "quiet answer logged" ELSE "loud answer not logged"

\* handle_frame -> _handle_read_expedited, _handle_write_expedited or
\* _handle_abort: the mark is taken ...
CanReceive ==
  /\ can = Idle
  /\ answers # << >>
  /\ LET frame == Head(answers) IN
       /\ quiet' = quiet \ {frame.entry}
       /\ log' = LogLine(frame, frame.entry \notin quiet)
       /\ can' = [at |-> "notifying", frame |-> frame]
  /\ answers' = Tail(answers)
  /\ UNCHANGED <<vars, requests, od, ui, executed, overtaken, muddled>>

\* ... then the subscribers are told, ServerConfigService among them.
CanNotify ==
  /\ can.at = "notifying"
  /\ LET frame == can.frame IN
       \/ /\ HandleSdo(frame.entry, frame.type, frame.data)
          /\ StepSettled
       \/ /\ ~Concerns(frame.entry, frame.type)
          /\ UNCHANGED <<vars, executed, overtaken>>
  /\ can' = Idle
  /\ UNCHANGED sdovars

-----------------------------------------------------------------------------
(* The UI thread.                                                          *)

\* start looks at _step_idx alone: answers to a transfer that was cancelled or
\* given up, and to requests made aloud, may still be to come.
UiStart(plan) ==
  /\ ui = Idle
  /\ Unlocked
  /\ Start(plan)
  /\ requests' = Disown(requests)
  /\ answers' = Disown(answers)
  /\ can' = IF can.at = "notifying" THEN [can EXCEPT !.frame.by = 0] ELSE can
  /\ StepSettled
  /\ log' = "right"
  /\ UNCHANGED <<quiet, od, ui, muddled>>

UiCancel ==
  /\ ui = Idle
  /\ Unlocked
  /\ Cancel
  /\ StepSettled
  /\ UNCHANGED <<sdovars, can>>

\* Mutant: a request made aloud leaves the mark.
UiMarkLeavesMark(entry, type, data) ==
  /\ ui = Idle
  /\ ~Busy
  /\ LoudInFlight < MaxLoud
  /\ Len(requests) + Len(answers) < MaxInFlight
  /\ ui' = [at |-> "asking", frame |-> Frame(entry, type, data, 0, TRUE)]
  /\ muddled' = IF \E frame \in Queued(entry) : ~frame.loud THEN muddled \cup {entry}
                                                            ELSE muddled \ {entry}
  /\ UNCHANGED <<vars, quiet, requests, answers, od, can, executed, overtaken, log>>

\* The setup section is disabled while a transfer runs (_draw_setup).
UiMark(entry, type, data) ==
  /\ ui = Idle
  /\ ~Busy
  /\ LoudInFlight < MaxLoud
  /\ Len(requests) + Len(answers) < MaxInFlight
  /\ quiet' = quiet \ {entry}
  /\ muddled' = IF \E frame \in Queued(entry) : ~frame.loud THEN muddled \cup {entry}
                                                            ELSE muddled \ {entry}
  /\ ui' = [at |-> "asking", frame |-> Frame(entry, type, data, 0, TRUE)]
  /\ UNCHANGED <<vars, requests, answers, od, can, executed, overtaken, log>>

UiSend ==
  /\ ui.at = "asking"
  /\ requests' = Append(requests, ui.frame)
  /\ ui' = Idle
  /\ UNCHANGED <<vars, quiet, answers, od, can, executed, overtaken, muddled, log>>

UiAskAloud ==
  \/ \E entry \in Readable : UiMark(entry, "read", NoData)
  \/ \E entry \in Writable, data \in Data : UiMark(entry, "write", data)

-----------------------------------------------------------------------------
(* The node and the bus.                                                   *)

\* The node serves a request: a write may be refused, or be clamped, and is
\* acknowledged with what was sent.  A refusal's code is shown and no more, so
\* one stands for all.
Serve ==
  /\ requests # << >>
  /\ LET frame == Head(requests)
         answer(type, data) == Append(answers, Frame(frame.entry, type, data, frame.by, frame.loud))
     IN \/ /\ frame.type = "read"
           /\ answers' = answer("response_to_read", od[frame.entry])
           /\ UNCHANGED <<od, executed>>
        \/ /\ frame.type = "write"
           /\ \E stored \in Data : od' = [od EXCEPT ![frame.entry] = stored]
           /\ answers' = answer("response_to_write", frame.data)
           /\ executed' = (executed \/ frame.by = step_idx + 1)
        \/ /\ answers' = answer("abort", CHOOSE code \in Data : TRUE)
           /\ UNCHANGED <<od, executed>>
  /\ requests' = Tail(requests)
  /\ UNCHANGED <<vars, quiet, can, ui, overtaken, muddled, log>>

LoseRequest ==
  /\ requests # << >>
  /\ requests' = Tail(requests)
  /\ UNCHANGED <<vars, quiet, answers, od, can, ui, executed, overtaken, muddled, log>>

LoseAnswer ==
  /\ answers # << >>
  /\ answers' = Tail(answers)
  /\ UNCHANGED <<vars, quiet, requests, od, can, ui, executed, overtaken, muddled, log>>

\* The timeout passes, be it that the request or its answer was lost, or that
\* the node takes its time.
Elapse ==
  /\ Expire
  /\ UNCHANGED <<sdovars, can, executed, overtaken>>

BusNext ==
  \/ CanMark \/ CanSend \/ CanGoOn \/ CanReceive \/ CanNotify
  \/ (\E plan \in Plans : UiStart(plan)) \/ UiCancel \/ UiAskAloud \/ UiSend
  \/ Serve \/ LoseRequest \/ LoseAnswer \/ Elapse

BusSpec == BusInit /\ [][BusNext]_busvars
-----------------------------------------------------------------------------
\* "One request in flight keeps the server's answers in order": the answer a
\* step is about to take its verdict from is the answer to its own request.
AnswersInOrder ==
  can.at = "notifying" /\ Concerns(can.frame.entry, can.frame.type)
    => can.frame.by = step_idx + 1

\* So it is for a step that asked when no other frame about its object was under
\* way, whatever comes late from transfers that were cancelled or given up, from
\* steps that timed out, and of requests made aloud.
InOrderUnlessOvertaken == overtaken = {} => AnswersInOrder

\* "neither the request nor the answer is logged" of an object asked for
\* quietly, unless the answer is a refusal, and what was asked for aloud is: the
\* mark of a quiet request whose answer never came swallows no line and loses
\* none.  (An object asked for with another frame about it under way has two
\* answers to come and one mark.)
LogTellsTheTruth == log = "right"

\* A step becomes done in this step of the system.
Done(i) == i \in DOMAIN steps' /\ steps[i].status = "pending" /\ steps'[i].status = "done"

\* A parameter shown as written was written by the node, on this step's own
\* request, unless someone else's write of it was under way when the step asked.
WrittenWasExecuted ==
  [][ \A i \in DOMAIN steps :
        Done(i) /\ IsWrite(steps[i]) /\ "write" \notin overtaken => executed
    ]_busvars

\* The value a read step ends up with is the one the node holds at that
\* moment, whatever writes are still on their way, unless an older read of the
\* object was under way when the step asked: a read-back is of no use if it
\* can show an older value.
ReadIsCurrent ==
  [][ \A i \in DOMAIN steps :
        Done(i) /\ ~IsWrite(steps[i]) /\ "read" \notin overtaken
          => steps'[i].value = od[steps[i].entry]
    ]_busvars
=============================================================================

-------------------------- MODULE ConfigOnBusProofs --------------------------
(***************************************************************************)
(* The composition keeps what is proved of ConfigService: whatever the     *)
(* bus, the node, the marks and the two threads do, the service only takes *)
(* steps of its own.  Answers are to the step that takes them, unless it   *)
(* asked with another frame about its object under way; so what is shown   *)
(* as written was executed, and what is shown as read is what the node     *)
(* holds at that moment.  The log tells what was asked for aloud.          *)
(***************************************************************************)
EXTENDS ConfigOnBus, ConfigServiceProofs

\* What the frames under way carry, whoever sent them.
SoundRequest == [entry : Entry, type : {"read"}, data : {NoData}, by : Nat, loud : BOOLEAN]
           \cup [entry : Entry, type : {"write"}, data : Data, by : Nat, loud : BOOLEAN]
SoundAnswer == [entry : Entry, type : AnswerType, data : Data, by : Nat, loud : BOOLEAN]

\* What is under way, and in the two threads' hands, is sound.
FramesSound ==
  /\ requests \in Seq(SoundRequest)
  /\ answers \in Seq(SoundAnswer)
  /\ od \in [Entry -> Data]
  /\ can.at = "notifying" => can.frame \in SoundAnswer
  /\ ui.at = "asking" => ui.frame \in SoundRequest

\* The inductive invariant of the composition.
BusIInv == IInv /\ FramesSound

LEMMA RequestIsSound ==
  ASSUME NEW entry \in Entry, NEW by \in Nat, NEW loud \in BOOLEAN
  PROVE  /\ Frame(entry, "read", NoData, by, loud) \in SoundRequest
         /\ \A data \in Data : Frame(entry, "write", data, by, loud) \in SoundRequest
  BY DEF Frame, SoundRequest

LEMMA AnswerIsSound ==
  ASSUME NEW frame \in SoundRequest, NEW type \in AnswerType, NEW data \in Data
  PROVE  Frame(frame.entry, type, data, frame.by, frame.loud) \in SoundAnswer
  BY DEF Frame, SoundRequest, SoundAnswer

LEMMA DisownKeepsSound ==
  ASSUME NEW S, S = SoundRequest \/ S = SoundAnswer, NEW frames \in Seq(S)
  PROVE  Disown(frames) \in Seq(S)
<1>1. \A frame \in S : [frame EXCEPT !.by = 0] \in S
  <2>1. \A frame \in SoundAnswer : [frame EXCEPT !.by = 0] \in SoundAnswer
    BY DEF SoundAnswer
  <2>2. ASSUME NEW frame \in SoundRequest PROVE [frame EXCEPT !.by = 0] \in SoundRequest
    <3>1. CASE frame.type = "read"
      BY <3>1 DEF SoundRequest
    <3>2. CASE frame.type # "read"
      BY <3>2 DEF SoundRequest
    <3> QED
      BY <3>1, <3>2
  <2> QED
    BY <2>1, <2>2
<1>2. \A i \in 1 .. Len(frames) : frames[i] \in S
  OBVIOUS
<1> QED
  BY <1>1, <1>2 DEF Disown

LEMMA BusInitEstablishes == BusInit => BusIInv
  BY InitEstablishes DEF BusInit, BusIInv, FramesSound, Idle

\* Every step of the composition is a step of the service, or leaves it alone.
LEMMA ServiceStep ==
  ASSUME BusIInv, [BusNext]_busvars
  PROVE  [Next]_vars
<1>1. CASE CanMark
  BY <1>1 DEF CanMark
<1>2. CASE CanSend
  BY <1>2 DEF CanSend, Next, Send
<1>3. CASE CanGoOn
  BY <1>3 DEF CanGoOn, Next, Send
<1>4. CASE CanReceive
  BY <1>4 DEF CanReceive
<1>5. CASE CanNotify
  <2>1. can.frame \in SoundAnswer
    BY <1>5 DEF CanNotify, BusIInv, FramesSound
  <2>2. can.frame.entry \in Entry /\ can.frame.type \in AnswerType /\ can.frame.data \in Data
    BY <2>1 DEF SoundAnswer
  <2> QED
    BY <1>5, <2>2 DEF CanNotify, Next
<1>6. CASE \E plan \in Plans : UiStart(plan)
  BY <1>6 DEF UiStart, Next
<1>7. CASE UiCancel
  BY <1>7 DEF UiCancel, Next
<1>8. CASE UiAskAloud
  BY <1>8 DEF UiAskAloud, UiMark
<1>9. CASE UiSend \/ Serve \/ LoseRequest \/ LoseAnswer
  BY <1>9 DEF UiSend, Serve, LoseRequest, LoseAnswer
<1>10. CASE Elapse
  BY <1>10 DEF Elapse, Next
<1>11. CASE UNCHANGED busvars
  BY <1>11 DEF busvars
<1> QED
  BY <1>1, <1>2, <1>3, <1>4, <1>5, <1>6, <1>7, <1>8, <1>9, <1>10, <1>11 DEF BusNext

\* A request that goes out is sound, and about the step in flight.
LEMMA SentIsSound ==
  ASSUME BusIInv, CanSend
  PROVE  \E frame \in SoundRequest :
           /\ requests' = Append(requests, frame)
           /\ frame.entry = Current.entry
           /\ frame.by = step_idx + 1
           /\ frame.type = IF IsWrite(Current) THEN "write" ELSE "read"
           /\ ~frame.loud
<1>1. Busy
  BY DEF CanSend, Request, Due
<1>2. Current \in ConfigStep /\ step_idx + 1 \in Nat
  BY <1>1, CurrentIsPending DEF BusIInv, IInv, TypeOK
<1> DEFINE frame == Frame(Current.entry, IF IsWrite(Current) THEN "write" ELSE "read",
                          Current.write_value, step_idx + 1, FALSE)
<1>3. Current.entry \in Entry /\ Current.write_value \in Data \cup {NoData}
  BY <1>2 DEF ConfigStep
<1>4. frame \in SoundRequest
  <2>1. CASE IsWrite(Current)
    BY <1>2, <1>3, <2>1, RequestIsSound DEF IsWrite
  <2>2. CASE ~IsWrite(Current)
    BY <1>2, <1>3, <2>2, RequestIsSound DEF IsWrite
  <2> QED
    BY <2>1, <2>2
<1>5. /\ frame.entry = Current.entry /\ frame.by = step_idx + 1 /\ frame.loud = FALSE
      /\ frame.type = IF IsWrite(Current) THEN "write" ELSE "read"
  BY DEF Frame
<1>6. requests' = Append(requests, frame)
  BY DEF CanSend
<1> QED
  BY <1>4, <1>5, <1>6

LEMMA FramesStaySound ==
  ASSUME BusIInv, [BusNext]_busvars
  PROVE  FramesSound'
<1> USE DEF FramesSound
<1>0. /\ requests \in Seq(SoundRequest) /\ answers \in Seq(SoundAnswer) /\ od \in [Entry -> Data]
      /\ can.at = "notifying" => can.frame \in SoundAnswer
      /\ ui.at = "asking" => ui.frame \in SoundRequest
  BY DEF BusIInv
<1>1. CASE CanMark
  BY <1>0, <1>1 DEF CanMark
<1>2. CASE CanSend
  <2>1. PICK frame \in SoundRequest : requests' = Append(requests, frame)
    BY <1>2, SentIsSound
  <2>2. requests' \in Seq(SoundRequest)
    BY <1>0, <2>1
  <2> QED
    BY <1>0, <1>2, <2>2 DEF CanSend, Idle
<1>3. CASE CanGoOn
  BY <1>0, <1>3 DEF CanGoOn, sdovars
<1>4. CASE CanReceive
  <2>1. Head(answers) \in SoundAnswer /\ Tail(answers) \in Seq(SoundAnswer)
    BY <1>0, <1>4 DEF CanReceive
  <2> QED
    BY <1>0, <1>4, <2>1 DEF CanReceive
<1>5. CASE CanNotify
  BY <1>0, <1>5 DEF CanNotify, sdovars, Idle
<1>6. CASE \E plan \in Plans : UiStart(plan)
  <2>1. PICK plan \in Plans : UiStart(plan)
    BY <1>6
  <2>2. requests' \in Seq(SoundRequest) /\ answers' \in Seq(SoundAnswer)
    BY <1>0, <2>1, DisownKeepsSound DEF UiStart
  <2>3. can'.at = "notifying" => can'.frame \in SoundAnswer
    <3>1. CASE can.at = "notifying"
      <4>1. can.frame \in SoundAnswer /\ can' = [can EXCEPT !.frame.by = 0]
        BY <1>0, <2>1, <3>1 DEF UiStart
      <4>2. [can.frame EXCEPT !.by = 0] \in SoundAnswer
        BY <4>1 DEF SoundAnswer
      <4>3. can'.frame = [can.frame EXCEPT !.by = 0] \/ can'.at # "notifying"
        BY <4>1
      <4> QED
        BY <4>2, <4>3
    <3>2. CASE can.at # "notifying"
      BY <2>1, <3>2 DEF UiStart
    <3> QED
      BY <3>1, <3>2
  <2> QED
    BY <1>0, <2>1, <2>2, <2>3 DEF UiStart
<1>7. CASE UiCancel
  BY <1>0, <1>7 DEF UiCancel, sdovars
<1>8. CASE UiAskAloud
  <2>1. PICK entry \in Entry, type \in {"read", "write"}, data \in Data \cup {NoData} :
          /\ type = "read" => data = NoData
          /\ type = "write" => data \in Data
          /\ UiMark(entry, type, data)
    BY <1>8, ConfigAssumption DEF UiAskAloud
  <2>2. Frame(entry, type, data, 0, TRUE) \in SoundRequest
    BY <2>1, RequestIsSound
  <2>3. ui' = [at |-> "asking", frame |-> Frame(entry, type, data, 0, TRUE)]
        /\ UNCHANGED <<requests, answers, od, can>>
    BY <2>1 DEF UiMark
  <2> QED
    BY <1>0, <2>2, <2>3
<1>9. CASE UiSend
  <2>1. requests' = Append(requests, ui.frame) /\ ui' = Idle /\ UNCHANGED <<answers, od, can>>
        /\ ui.frame \in SoundRequest
    BY <1>0, <1>9 DEF UiSend
  <2>2. requests' \in Seq(SoundRequest)
    BY <1>0, <2>1
  <2> QED
    BY <1>0, <2>1, <2>2 DEF Idle
<1>10. CASE Serve
  <2> DEFINE frame == Head(requests)
             answer(type, data) == Append(answers, Frame(frame.entry, type, data, frame.by, frame.loud))
  <2>1. frame \in SoundRequest /\ Tail(requests) \in Seq(SoundRequest)
    BY <1>0, <1>10 DEF Serve
  <2>2. ASSUME NEW type \in AnswerType, NEW data \in Data
        PROVE  answer(type, data) \in Seq(SoundAnswer)
    <3>1. Frame(frame.entry, type, data, frame.by, frame.loud) \in SoundAnswer
      BY <2>1, AnswerIsSound
    <3> QED
      BY <1>0, <3>1
  <2>3. requests' = Tail(requests) /\ UNCHANGED <<can, ui>>
    BY <1>10 DEF Serve
  <2>4. answers' \in Seq(SoundAnswer) /\ od' \in [Entry -> Data]
    <3>1. CASE /\ frame.type = "read"
               /\ answers' = answer("response_to_read", od[frame.entry])
               /\ UNCHANGED <<od, executed>>
      <4>1. od[frame.entry] \in Data
        BY <1>0, <2>1 DEF SoundRequest
      <4> QED
        BY <1>0, <3>1, <4>1, <2>2 DEF AnswerType
    <3>2. CASE /\ frame.type = "write"
               /\ \E stored \in Data : od' = [od EXCEPT ![frame.entry] = stored]
               /\ answers' = answer("response_to_write", frame.data)
               /\ executed' = (executed \/ frame.by = step_idx + 1)
      <4>1. frame.data \in Data
        BY <2>1, <3>2 DEF SoundRequest
      <4>2. od' \in [Entry -> Data]
        BY <1>0, <3>2
      <4> QED
        BY <3>2, <4>1, <4>2, <2>2 DEF AnswerType
    <3>3. CASE /\ answers' = answer("abort", CHOOSE code \in Data : TRUE)
               /\ UNCHANGED <<od, executed>>
      <4>1. od[frame.entry] \in Data
        BY <1>0, <2>1 DEF SoundRequest
      <4>2. PICK code \in Data : code = CHOOSE any \in Data : TRUE
        BY <4>1
      <4> QED
        BY <1>0, <3>3, <4>2, <2>2 DEF AnswerType
    <3> QED
      BY <1>10, <3>1, <3>2, <3>3 DEF Serve
  <2> QED
    BY <1>0, <2>1, <2>3, <2>4
<1>11. CASE LoseRequest
  <2>1. Tail(requests) \in Seq(SoundRequest)
    BY <1>0, <1>11 DEF LoseRequest
  <2> QED
    BY <1>0, <1>11, <2>1 DEF LoseRequest
<1>12. CASE LoseAnswer
  <2>1. Tail(answers) \in Seq(SoundAnswer)
    BY <1>0, <1>12 DEF LoseAnswer
  <2> QED
    BY <1>0, <1>12, <2>1 DEF LoseAnswer
<1>13. CASE Elapse
  BY <1>0, <1>13 DEF Elapse, sdovars
<1>14. CASE UNCHANGED busvars
  BY <1>0, <1>14 DEF busvars
<1> QED
  BY <1>1, <1>2, <1>3, <1>4, <1>5, <1>6, <1>7, <1>8, <1>9, <1>10, <1>11, <1>12, <1>13, <1>14
     DEF BusNext

LEMMA BusNextPreserves == BusIInv /\ [BusNext]_busvars => BusIInv'
<1> SUFFICES ASSUME BusIInv, [BusNext]_busvars PROVE BusIInv'
  OBVIOUS
<1>1. IInv'
  BY ServiceStep, NextPreserves DEF BusIInv
<1>2. FramesSound'
  BY FramesStaySound
<1> QED
  BY <1>1, <1>2 DEF BusIInv

\* On the bus the service behaves as ConfigService says.
THEOREM BusImplementsService == BusSpec => SafeSpec
<1>1. BusInit => Init
  BY DEF BusInit
<1>2. BusIInv /\ [BusNext]_busvars => [Next]_vars
  BY ServiceStep
<1> QED
  BY BusInitEstablishes, BusNextPreserves, <1>1, <1>2, PTL DEF BusSpec, SafeSpec

\* Late, lost and foreign answers, aborts and cancelled transfers do not bring
\* the steps out of order, nor leave one without a verdict.
THEOREM InOrderOnBus == BusSpec => []InOrder
<1>1. IInv => InOrder
  BY DEF IInv
<1> QED
  BY BusImplementsService, SafeInvariance, <1>1, PTL

-----------------------------------------------------------------------------
(* What the answers are to.                                                *)

Elements(seq) == {seq[i] : i \in DOMAIN seq}

\* The answer the CAN thread is about to hand on.
Hands == IF can.at = "notifying" THEN {can.frame} ELSE {}

\* A frame that belongs to the step in flight: it asked, and an answer says what
\* the node did, or what it holds still.
OfTheStep(frame) ==
  /\ awaiting
  /\ Kind(frame.type) \in {IF IsWrite(Current) THEN "write" ELSE "read", "abort"}
  /\ frame.type = "response_to_write" => executed
  /\ frame.type = "response_to_read" => frame.data = od[frame.entry]

\* A frame under way is of the step in flight or an older one; one about the
\* step's object that is not its own was there when it asked.
FrameTells(frame) ==
  /\ frame.by <= step_idx + 1
  /\ frame.by = step_idx + 1 => OfTheStep(frame)
  /\ (awaiting /\ frame.by # step_idx + 1 /\ frame.entry = Current.entry) =>
       /\ overtaken # {}
       /\ Kind(frame.type) = "abort" \/ Kind(frame.type) \in overtaken

Own == Busy => ui = Idle /\ \A frame \in InFlight : FrameTells(frame)

\* The requests of the step in flight are behind all others, so with one of them
\* answered no other request is left.
Line ==
  Busy =>
    /\ \A i, j \in DOMAIN requests :
         i < j /\ requests[i].by = step_idx + 1 => requests[j].by = step_idx + 1
    /\ \A frame \in Elements(answers) \cup Hands :
         frame.by = step_idx + 1 => \A i \in DOMAIN requests : requests[i].by = step_idx + 1

OrderInv == BusIInv /\ Own /\ Line

-----------------------------------------------------------------------------
(* Frames in line.                                                         *)

LEMMA TailFacts ==
  ASSUME NEW S, NEW seq \in Seq(S), seq # << >>
  PROVE  /\ 1 \in DOMAIN seq /\ Head(seq) = seq[1]
         /\ Head(seq) \in Elements(seq)
         /\ Elements(Tail(seq)) \subseteq Elements(seq)
         /\ \A i \in DOMAIN Tail(seq) :
              i + 1 \in DOMAIN seq /\ Tail(seq)[i] = seq[i + 1] /\ i \in Nat /\ i # 0
<1>1. /\ Len(seq) \in Nat /\ Len(seq) # 0 /\ DOMAIN seq = 1 .. Len(seq)
      /\ DOMAIN Tail(seq) = 1 .. (Len(seq) - 1)
      /\ \A i \in 1 .. (Len(seq) - 1) : Tail(seq)[i] = seq[i + 1]
  OBVIOUS
<1>2. 1 \in DOMAIN seq /\ Head(seq) = seq[1]
  BY <1>1
<1>3. \A i \in DOMAIN Tail(seq) :
        i + 1 \in DOMAIN seq /\ Tail(seq)[i] = seq[i + 1] /\ i \in Nat /\ i # 0
  BY <1>1
<1> QED
  BY <1>2, <1>3 DEF Elements

LEMMA AppendFacts ==
  ASSUME NEW S, NEW seq \in Seq(S), NEW x \in S
  PROVE  /\ DOMAIN Append(seq, x) = DOMAIN seq \cup {Len(seq) + 1}
         /\ Append(seq, x)[Len(seq) + 1] = x
         /\ \A i \in DOMAIN seq : Append(seq, x)[i] = seq[i] /\ i \in Nat /\ i < Len(seq) + 1
         /\ Elements(Append(seq, x)) = Elements(seq) \cup {x}
<1>1. /\ Len(seq) \in Nat /\ DOMAIN seq = 1 .. Len(seq)
      /\ DOMAIN Append(seq, x) = 1 .. (Len(seq) + 1)
      /\ Append(seq, x)[Len(seq) + 1] = x
      /\ \A i \in 1 .. Len(seq) : Append(seq, x)[i] = seq[i]
  OBVIOUS
<1>2. 1 .. (Len(seq) + 1) = (1 .. Len(seq)) \cup {Len(seq) + 1}
  BY <1>1
<1> QED
  BY <1>1, <1>2 DEF Elements

LEMMA InFlightIs == InFlight = Elements(requests) \cup Elements(answers) \cup Hands
  BY DEF InFlight, Elements, Hands

LEMMA StepIsNumber ==
  ASSUME BusIInv
  PROVE  /\ step_idx \in Nat
         /\ requests \in Seq(SoundRequest) /\ answers \in Seq(SoundAnswer)
         /\ \A frame \in InFlight : frame.by \in Nat /\ frame.entry \in Entry
<1>1. step_idx \in Nat
  BY DEF BusIInv, IInv, TypeOK
<1>2. requests \in Seq(SoundRequest) /\ answers \in Seq(SoundAnswer)
  BY DEF BusIInv, FramesSound
<1>3. \A frame \in SoundRequest \cup SoundAnswer : frame.by \in Nat /\ frame.entry \in Entry
  BY DEF SoundRequest, SoundAnswer
<1>4. Elements(requests) \subseteq SoundRequest /\ Elements(answers) \subseteq SoundAnswer
  BY <1>2 DEF Elements
<1>5. Hands \subseteq SoundAnswer
  BY DEF Hands, BusIInv, FramesSound
<1> QED
  BY <1>1, <1>2, <1>3, <1>4, <1>5, InFlightIs

-----------------------------------------------------------------------------
(* What the steps of the system do to frames and steps.                    *)

\* Frames are handled or lost, and the step in flight stays what it is.
LEMMA FramesLeave ==
  ASSUME Own, Line, BusIInv,
         UNCHANGED <<steps, step_idx, awaiting, ui, od, executed, overtaken>>,
         \/ requests' = requests
         \/ requests # << >> /\ requests' = Tail(requests),
         (Elements(answers) \cup Hands)' \subseteq Elements(answers) \cup Hands
  PROVE  Own' /\ Line'
<1>1. Elements(requests)' \subseteq Elements(requests)
  BY StepIsNumber, TailFacts
<1>2. InFlight' \subseteq InFlight
  <2>1. InFlight' = (Elements(requests) \cup Elements(answers) \cup Hands)'
    BY InFlightIs DEF InFlight, Elements, Hands
  <2> QED
    BY <1>1, <2>1, InFlightIs
<1>3. /\ Busy' <=> Busy
      /\ \A frame \in InFlight : FrameTells(frame) => FrameTells(frame)'
  BY DEF Busy, FrameTells, OfTheStep, Current
<1>4. Own'
  BY <1>2, <1>3 DEF Own
<1>5. Line'
  <2> SUFFICES ASSUME Busy' PROVE Line'
    BY DEF Line
  <2>1. /\ \A i, j \in DOMAIN requests :
             i < j /\ requests[i].by = step_idx + 1 => requests[j].by = step_idx + 1
        /\ \A frame \in Elements(answers) \cup Hands :
             frame.by = step_idx + 1 => \A i \in DOMAIN requests : requests[i].by = step_idx + 1
    BY <1>3 DEF Line
  <2>2. CASE requests' = requests
    BY <2>1, <2>2 DEF Line
  <2>3. CASE requests # << >> /\ requests' = Tail(requests)
    <3>1. \A i \in DOMAIN requests' :
            i + 1 \in DOMAIN requests /\ requests'[i] = requests[i + 1] /\ i \in Nat
      BY <2>3, StepIsNumber, TailFacts
    <3>2. ASSUME NEW i \in DOMAIN requests', NEW j \in DOMAIN requests',
                 i < j, requests'[i].by = step_idx + 1
          PROVE  requests'[j].by = step_idx + 1
      <4>1. i + 1 < j + 1
        BY <3>1, <3>2
      <4> QED
        BY <2>1, <3>1, <3>2, <4>1
    <3>3. \A frame \in (Elements(answers) \cup Hands)' :
            frame.by = step_idx + 1 => \A i \in DOMAIN requests' : requests'[i].by = step_idx + 1
      BY <2>1, <3>1
    <3> QED
      BY <3>2, <3>3 DEF Line
  <2> QED
    BY <2>2, <2>3
<1> QED
  BY <1>4, <1>5

\* With the next step the frames under way are all older ones.
LEMMA NextStep ==
  ASSUME Own, BusIInv, Busy, step_idx' = step_idx + 1, ~awaiting',
         UNCHANGED <<requests, answers, ui>>,
         Hands' \subseteq Hands
  PROVE  Own' /\ Line'
<1>1. /\ step_idx \in Nat
      /\ \A frame \in InFlight : frame.by \in Nat /\ frame.by <= step_idx + 1
  BY StepIsNumber DEF Own, FrameTells
<1>2. InFlight' \subseteq InFlight
  <2>1. InFlight' = (Elements(requests) \cup Elements(answers) \cup Hands)'
    BY InFlightIs DEF InFlight, Elements, Hands
  <2> QED
    BY <2>1, InFlightIs DEF Elements
<1>3. \A frame \in InFlight' : frame.by <= step_idx' + 1 /\ frame.by # step_idx' + 1
  BY <1>1, <1>2
<1>4. Own'
  BY <1>3 DEF Own, FrameTells
<1>5. \A i \in DOMAIN requests' : requests'[i] \in InFlight'
  BY DEF InFlight
<1>6. (Elements(answers) \cup Hands)' \subseteq InFlight'
  BY DEF InFlight, Elements, Hands
<1>7. Line'
  BY <1>3, <1>5, <1>6 DEF Line
<1> QED
  BY <1>4, <1>7

LEMMA NotBusy ==
  ASSUME ~Busy'
  PROVE  Own' /\ Line'
  BY DEF Own, Line

\* A transfer is broken off.
LEMMA BreakOff ==
  ASSUME IInv, Busy, NEW upTo, NEW how \in {"cancelled", "no_response"},
         \/ upTo = steps /\ how = "cancelled"
         \/ /\ upTo = [steps EXCEPT ![step_idx + 1] = [Current EXCEPT !.status = "timed_out"]]
            /\ how = "no_response",
         Finish(upTo, how)
  PROVE  ~Busy' /\ \A i \in DOMAIN steps : ~Done(i)
<1>1. ~Busy'
  <2>1. step_idx' = Len(steps') /\ steps' \in Seq(ConfigStep)
    BY FinishKeeps
  <2>2. Len(steps') \in Nat
    BY <2>1
  <2> QED
    BY <2>1, <2>2 DEF Busy
<1>2. /\ step_idx + 1 \in DOMAIN steps
      /\ Current \in ConfigStep /\ steps \in Seq(ConfigStep)
  BY CurrentIsPending DEF IInv, TypeOK
<1>3. /\ DOMAIN upTo = DOMAIN steps
      /\ \A i \in DOMAIN steps : upTo[i] = steps[i] \/ upTo[i].status = "timed_out"
  BY <1>2 DEF Current, ConfigStep
<1>4. steps' = [i \in DOMAIN steps |->
                  IF upTo[i].status = "pending"
                  THEN [upTo[i] EXCEPT !.status = "cancelled"] ELSE upTo[i]]
  BY <1>3 DEF Finish
<1>5. ASSUME NEW i \in DOMAIN steps, steps[i].status = "pending" PROVE steps'[i].status # "done"
  <2>1. PICK old \in ConfigStep : old = steps[i]
    BY <1>2
  <2>2. [old EXCEPT !.status = "cancelled"].status = "cancelled"
    BY <2>1 DEF ConfigStep
  <2> QED
    BY <1>3, <1>4, <1>5, <2>1, <2>2
<1> QED
  BY <1>1, <1>5 DEF Done

\* A step gets its verdict.
LEMMA AdvanceGoesOn ==
  ASSUME IInv, Busy, NEW step, Advance(step)
  PROVE  /\ step_idx' = step_idx + 1 /\ ~awaiting'
         /\ \A i \in DOMAIN steps : Done(i) => i = step_idx + 1 /\ steps'[i] = step
<1>1. step_idx + 1 \in DOMAIN steps
  BY CurrentIsPending
<1> QED
  BY <1>1 DEF Advance, Done

LEMMA GoOnGoesOn ==
  ASSUME BusIInv, CanGoOn
  PROVE  /\ Busy
         /\ \A i \in DOMAIN steps : ~Done(i)
         /\ ~Busy' \/ (step_idx' = step_idx + 1 /\ ~awaiting')
<1>0. IInv /\ Busy
  BY DEF BusIInv, CanGoOn, RefuseLocally, TimeOut, Due
<1>1. Current \in ConfigStep
  BY <1>0, CurrentIsPending
<1>2. CASE RefuseLocally
  <2>1. PICK step : /\ Advance(step)
                    /\ step = [Current EXCEPT
                         !.status = "refused",
                         !.abort_code = IF IsWrite(Current) THEN "write_access_ro" ELSE "read_access_wo"]
    BY <1>2 DEF RefuseLocally
  <2>2. step.status = "refused"
    BY <1>1, <2>1 DEF ConfigStep
  <2> QED
    BY <1>0, <2>1, <2>2, AdvanceGoesOn DEF Done
<1>3. CASE TimeOut
  <2>1. PICK step : /\ step = [Current EXCEPT !.status = "timed_out"]
                    /\ IF unanswered + 1 = MaxUnanswered
                       THEN Finish([steps EXCEPT ![step_idx + 1] = step], "no_response")
                       ELSE Advance(step)
    BY <1>3 DEF TimeOut
  <2>2. step.status = "timed_out"
    BY <1>1, <2>1 DEF ConfigStep
  <2>3. CASE unanswered + 1 = MaxUnanswered
    BY <1>0, <2>1, <2>3, BreakOff
  <2>4. CASE unanswered + 1 # MaxUnanswered
    BY <1>0, <2>1, <2>2, <2>4, AdvanceGoesOn DEF Done
  <2> QED
    BY <2>3, <2>4
<1> QED
  BY <1>0, <1>2, <1>3 DEF CanGoOn

-----------------------------------------------------------------------------
(* Every step keeps the order.                                             *)

\* A request goes out behind all others: what is under way about its object and
\* is not its own is known from now on.
LEMMA SendKeeps ==
  ASSUME OrderInv, CanSend
  PROVE  Own' /\ Line'
<1> DEFINE n == step_idx + 1
<1>1. /\ Busy /\ n \in Nat
      /\ UNCHANGED <<steps, step_idx, answers, od, ui, executed>>
      /\ awaiting'
      /\ overtaken' = overtaken \cup {Kind(stray.type) : stray \in Strays}
      /\ can' = Idle /\ can.at = "asking"
  BY StepIsNumber DEF CanSend, Request, Due, OrderInv
<1>2. PICK frame \in SoundRequest :
        /\ requests' = Append(requests, frame)
        /\ frame.by = n
        /\ frame.type = IF IsWrite(Current) THEN "write" ELSE "read"
  BY SentIsSound DEF OrderInv
<1>3. /\ DOMAIN requests' = DOMAIN requests \cup {Len(requests) + 1}
      /\ requests'[Len(requests) + 1] = frame
      /\ \A i \in DOMAIN requests :
           requests'[i] = requests[i] /\ i \in Nat /\ i < Len(requests) + 1
      /\ Elements(requests') = Elements(requests) \cup {frame}
  BY <1>2, StepIsNumber, AppendFacts DEF OrderInv
<1>4. Len(requests) \in Nat
  BY StepIsNumber DEF OrderInv
<1>5. Hands = {} /\ Hands' = {}
  BY <1>1 DEF Hands, Idle
<1>6. InFlight' = InFlight \cup {frame}
  <2>1. InFlight' = (Elements(requests) \cup Elements(answers) \cup Hands)'
    BY InFlightIs DEF InFlight, Elements, Hands
  <2> QED
    BY <1>1, <1>3, <1>5, <2>1, InFlightIs DEF Elements
<1>7. Current' = Current /\ (Busy' <=> Busy)
  BY <1>1 DEF Current, Busy
<1>9. FrameTells(frame)'
  <2>1. frame.by = n /\ step_idx' = step_idx /\ awaiting' /\ n <= n
    BY <1>1, <1>2
  <2>2. Kind(frame.type) = IF IsWrite(Current) THEN "write" ELSE "read"
    BY <1>2 DEF Kind
  <2>3. frame.type # "response_to_write" /\ frame.type # "response_to_read"
    BY <1>2
  <2>4. OfTheStep(frame)'
    BY <2>1, <2>2, <2>3, <1>7 DEF OfTheStep, IsWrite
  <2> QED
    BY <2>1, <2>4 DEF FrameTells
<1>10. ASSUME NEW other \in InFlight PROVE FrameTells(other)'
  <2>1. FrameTells(other)
    BY <1>1 DEF OrderInv, Own
  <2>2. other.by <= step_idx' + 1 /\ (other.by = step_idx' + 1 => OfTheStep(other)')
    BY <1>1, <1>7, <2>1 DEF FrameTells, OfTheStep
  <2>3. ASSUME other.by # step_idx' + 1, other.entry = Current'.entry
        PROVE  Kind(other.type) \in overtaken'
    <3>1. other \in Strays
      BY <1>1, <1>7, <2>3 DEF Strays
    <3> QED
      BY <1>1, <3>1
  <2> QED
    BY <2>2, <2>3 DEF FrameTells
<1>11. Own'
  BY <1>1, <1>6, <1>7, <1>9, <1>10 DEF OrderInv, Own
<1>12. Line'
  <2>1. /\ \A i, j \in DOMAIN requests :
             i < j /\ requests[i].by = n => requests[j].by = n
        /\ \A other \in Elements(answers) \cup Hands :
             other.by = n => \A i \in DOMAIN requests : requests[i].by = n
    BY <1>1 DEF OrderInv, Line
  <2>2. ASSUME NEW i \in DOMAIN requests', NEW j \in DOMAIN requests', i < j, requests'[i].by = n
        PROVE  requests'[j].by = n
    <3>1. CASE j = Len(requests) + 1
      BY <1>2, <1>3, <3>1
    <3>2. CASE j \in DOMAIN requests
      <4>1. i # Len(requests) + 1
        BY <1>3, <1>4, <2>2, <3>2
      <4> QED
        BY <1>3, <2>1, <2>2, <3>2, <4>1
    <3> QED
      BY <1>3, <3>1, <3>2
  <2>3. ASSUME NEW other \in (Elements(answers) \cup Hands)', other.by = n, NEW i \in DOMAIN requests'
        PROVE  requests'[i].by = n
    <3>1. other \in Elements(answers)
      BY <1>1, <1>5, <2>3 DEF Elements
    <3> QED
      BY <1>2, <1>3, <2>1, <2>3, <3>1
  <2> QED
    BY <1>1, <2>2, <2>3 DEF Line
<1> QED
  BY <1>11, <1>12

\* The node answers the request at the head: what it reads stands until the step
\* takes it, since no write is left behind it.
LEMMA ServeKeeps ==
  ASSUME OrderInv, Serve
  PROVE  Own' /\ Line'
<1> DEFINE frame == Head(requests)
           n == step_idx + 1
<1>0. /\ requests # << >> /\ requests' = Tail(requests)
      /\ UNCHANGED <<steps, step_idx, awaiting, can, ui, overtaken>>
      /\ n \in Nat /\ requests \in Seq(SoundRequest) /\ answers \in Seq(SoundAnswer)
  BY StepIsNumber DEF Serve, OrderInv, vars
<1> SUFFICES ASSUME Busy PROVE Own' /\ Line'
  BY <1>0, NotBusy DEF Busy
<1>1. PICK type, data :
        /\ answers' = Append(answers, Frame(frame.entry, type, data, frame.by, frame.loud))
        /\ \/ /\ frame.type = "read" /\ type = "response_to_read" /\ data = od[frame.entry]
              /\ UNCHANGED <<od, executed>>
           \/ /\ frame.type = "write" /\ type = "response_to_write"
              /\ executed' = (executed \/ frame.by = n)
           \/ type = "abort" /\ UNCHANGED <<od, executed>>
  BY DEF Serve
<1>2. PICK answer \in SoundAnswer :
        /\ answers' = Append(answers, answer)
        /\ answer.by = frame.by /\ answer.entry = frame.entry
        /\ answer.type = type /\ answer.data = data
  <2> DEFINE a == Frame(frame.entry, type, data, frame.by, frame.loud)
  <2>1. FramesSound'
    BY FramesStaySound DEF OrderInv, BusNext
  <2>2. answers' \in Seq(SoundAnswer)
    BY <2>1 DEF FramesSound
  <2>3. Len(answers) + 1 \in 1 .. Len(answers') /\ answers'[Len(answers) + 1] = a
    BY <1>0, <1>1, <2>2
  <2>4. a \in SoundAnswer
    BY <2>2, <2>3
  <2>5. a.by = frame.by /\ a.entry = frame.entry /\ a.type = type /\ a.data = data
    BY DEF Frame
  <2> QED
    BY <1>1, <2>4, <2>5
<1>3. Elements(answers)' = Elements(answers) \cup {answer}
  BY <1>0, <1>2, AppendFacts DEF Elements
<1>4. /\ frame \in Elements(requests) /\ Elements(requests)' \subseteq Elements(requests)
      /\ 1 \in DOMAIN requests /\ frame = requests[1]
      /\ \A i \in DOMAIN requests' :
           i + 1 \in DOMAIN requests /\ requests'[i] = requests[i + 1] /\ i \in Nat /\ i # 0
  <2>1. Elements(requests)' = Elements(requests')
    BY DEF Elements
  <2> QED
    BY <1>0, <2>1, TailFacts
<1>5. Hands' = Hands
  BY <1>0 DEF Hands
<1>6. InFlight' \subseteq InFlight \cup {answer} /\ frame \in InFlight
  <2>1. InFlight' = (Elements(requests) \cup Elements(answers) \cup Hands)'
    BY InFlightIs DEF InFlight, Elements, Hands
  <2> QED
    BY <1>3, <1>4, <1>5, <2>1, InFlightIs
<1>7. Current' = Current /\ (Busy' <=> Busy)
  BY <1>0 DEF Current, Busy
<1>8. /\ ui = Idle
      /\ \A other \in InFlight : FrameTells(other)
      /\ \A i, j \in DOMAIN requests : i < j /\ requests[i].by = n => requests[j].by = n
      /\ \A other \in Elements(answers) \cup Hands :
           other.by = n => \A i \in DOMAIN requests : requests[i].by = n
  BY DEF OrderInv, Own, Line
<1>10. Kind(type) = Kind(frame.type) \/ Kind(type) = "abort"
  BY <1>1 DEF Kind
<1>11. FrameTells(answer)'
  <2>1. FrameTells(frame)
    BY <1>6, <1>8
  <2>2. answer.by <= n /\ step_idx' = step_idx
    BY <1>0, <1>2, <2>1 DEF FrameTells
  <2>3. ASSUME frame.by = n PROVE OfTheStep(answer)'
    <3>1. OfTheStep(frame)
      BY <2>1, <2>3 DEF FrameTells
    <3>2. awaiting' /\ Kind(type) \in {IF IsWrite(Current) THEN "write" ELSE "read", "abort"}
      BY <1>0, <1>10, <3>1 DEF OfTheStep
    <3>3. type = "response_to_write" => executed'
      BY <1>1, <2>3
    <3>4. type = "response_to_read" => data = od'[frame.entry]
      BY <1>1
    <3> QED
      BY <1>2, <1>7, <3>2, <3>3, <3>4 DEF OfTheStep, IsWrite
  <2>4. ASSUME awaiting', frame.by # n, frame.entry = Current.entry
        PROVE  /\ overtaken' # {}
               /\ Kind(type) = "abort" \/ Kind(type) \in overtaken'
    BY <1>0, <1>10, <2>1, <2>4 DEF FrameTells
  <2> QED
    BY <1>2, <1>7, <2>2, <2>3, <2>4 DEF FrameTells
<1>12. ASSUME NEW other \in InFlight PROVE FrameTells(other)'
  <2>1. FrameTells(other)
    BY <1>8
  <2>2. ASSUME other.by = n PROVE OfTheStep(other)'
    <3>1. OfTheStep(other)
      BY <2>1, <2>2 DEF FrameTells
    <3>2. executed => executed'
      BY <1>1
    <3>3. ASSUME other.type = "response_to_read" PROVE od' = od
      <4>1. other \notin Elements(requests)
        <5>1. \A request \in SoundRequest : request.type # "response_to_read"
          BY DEF SoundRequest
        <5>2. Elements(requests) \subseteq SoundRequest
          BY <1>0 DEF Elements
        <5> QED
          BY <3>3, <5>1, <5>2
      <4>2. other \in Elements(answers) \cup Hands
        BY <4>1, InFlightIs
      <4>3. frame.by = n
        BY <1>4, <1>8, <2>2, <4>2
      <4>4. OfTheStep(frame)
        BY <1>6, <1>8, <4>3 DEF FrameTells
      <4>5. ~IsWrite(Current)
        BY <3>1, <3>3 DEF OfTheStep, Kind
      <4>6. frame.type # "write"
        BY <4>4, <4>5 DEF OfTheStep, Kind
      <4> QED
        BY <1>1, <4>6
    <3> QED
      BY <1>0, <1>7, <3>1, <3>2, <3>3 DEF OfTheStep, IsWrite
  <2> QED
    BY <1>0, <1>7, <2>1, <2>2 DEF FrameTells
<1>13. Own'
  BY <1>0, <1>6, <1>8, <1>11, <1>12 DEF Own
<1>14. Line'
  <2>1. ASSUME NEW i \in DOMAIN requests', NEW j \in DOMAIN requests', i < j, requests'[i].by = n
        PROVE  requests'[j].by = n
    <3>1. i + 1 < j + 1
      BY <1>4, <2>1
    <3> QED
      BY <1>4, <1>8, <2>1, <3>1
  <2>2. ASSUME NEW other \in (Elements(answers) \cup Hands)', other.by = n, NEW i \in DOMAIN requests'
        PROVE  requests'[i].by = n
    <3>1. CASE other = answer
      <4>1. requests[1].by = n
        BY <1>2, <1>4, <2>2, <3>1
      <4>2. 1 < i + 1
        BY <1>4
      <4> QED
        BY <1>4, <1>8, <4>1, <4>2
    <3>2. CASE other \in Elements(answers) \cup Hands
      BY <1>4, <1>8, <2>2, <3>2
    <3> QED
      BY <1>3, <1>5, <3>1, <3>2
  <2> QED
    BY <1>0, <2>1, <2>2 DEF Line
<1> QED
  BY <1>13, <1>14

\* A new transfer knows of no frame under way.
LEMMA StartKeeps ==
  ASSUME OrderInv, NEW plan \in Plans, UiStart(plan)
  PROVE  Own' /\ Line'
<1>1. /\ ui' = Idle /\ step_idx' = 0 /\ ~awaiting'
      /\ requests' = Disown(requests) /\ answers' = Disown(answers)
      /\ can' = IF can.at = "notifying" THEN [can EXCEPT !.frame.by = 0] ELSE can
  BY DEF UiStart, Start
<1>2. /\ \A i \in DOMAIN requests' : requests'[i].by = 0
      /\ \A i \in DOMAIN answers' : answers'[i].by = 0
  <2>1. \A frame \in SoundRequest \cup SoundAnswer : [frame EXCEPT !.by = 0].by = 0
    BY DEF SoundRequest, SoundAnswer
  <2>2. /\ \A i \in DOMAIN requests : requests[i] \in SoundRequest
        /\ \A i \in DOMAIN answers : answers[i] \in SoundAnswer
    BY StepIsNumber DEF OrderInv
  <2> QED
    BY <1>1, <2>1, <2>2 DEF Disown
<1>3. can'.at = "notifying" => can'.frame.by = 0
  <2>1. CASE can.at = "notifying"
    <3>1. can.frame \in SoundAnswer /\ can' = [can EXCEPT !.frame.by = 0]
      BY <1>1, <2>1 DEF OrderInv, BusIInv, FramesSound
    <3>2. [can.frame EXCEPT !.by = 0].by = 0
      BY <3>1 DEF SoundAnswer
    <3>3. can'.frame = [can.frame EXCEPT !.by = 0] \/ can'.at # "notifying"
      BY <3>1
    <3> QED
      BY <3>2, <3>3
  <2>2. CASE can.at # "notifying"
    BY <1>1, <2>2
  <2> QED
    BY <2>1, <2>2
<1>4. \A frame \in InFlight' : frame.by = 0
  BY <1>2, <1>3 DEF InFlight
<1>5. Own'
  BY <1>1, <1>4 DEF Own, FrameTells
<1>6. /\ \A i \in DOMAIN requests' : requests'[i].by # step_idx' + 1
      /\ \A frame \in (Elements(answers) \cup Hands)' : frame.by # step_idx' + 1
  <2>1. 0 # step_idx' + 1
    BY <1>1
  <2>2. \A frame \in (Elements(answers) \cup Hands)' : frame.by = 0
    BY <1>2, <1>3 DEF Elements, Hands
  <2> QED
    BY <1>2, <2>1, <2>2
<1>7. Line'
  BY <1>6 DEF Line
<1> QED
  BY <1>5, <1>7

-----------------------------------------------------------------------------
LEMMA OrderInitEstablishes == BusInit => OrderInv
<1> SUFFICES ASSUME BusInit PROVE OrderInv
  OBVIOUS
<1>1. BusIInv
  BY BusInitEstablishes
<1>2. ~Busy
  BY DEF BusInit, Init, Busy
<1> QED
  BY <1>1, <1>2 DEF OrderInv, Own, Line

LEMMA OrderNextPreserves == OrderInv /\ [BusNext]_busvars => OrderInv'
<1> SUFFICES ASSUME OrderInv, [BusNext]_busvars PROVE Own' /\ Line'
  BY BusNextPreserves DEF OrderInv
<1>0. Own /\ Line /\ BusIInv
  BY DEF OrderInv
<1>1. CASE CanMark
  <2>1. UNCHANGED <<steps, step_idx, awaiting, ui, od, executed, overtaken, requests, answers>>
        /\ can = Idle /\ can' = [at |-> "asking"]
    BY <1>1 DEF CanMark, vars
  <2>2. (Elements(answers) \cup Hands)' \subseteq Elements(answers) \cup Hands
    BY <2>1 DEF Elements, Hands, Idle
  <2> QED
    BY <1>0, <2>1, <2>2, FramesLeave
<1>2. CASE CanSend
  BY <1>2, SendKeeps
<1>3. CASE CanGoOn
  <2>1. UNCHANGED <<requests, answers, ui, can>>
    BY <1>3 DEF CanGoOn, sdovars
  <2>2. Hands' \subseteq Hands
    BY <2>1 DEF Hands
  <2> QED
    BY <1>0, <1>3, <2>1, <2>2, GoOnGoesOn, NextStep, NotBusy
<1>4. CASE CanReceive
  <2>1. /\ UNCHANGED <<steps, step_idx, awaiting, ui, od, executed, overtaken, requests>>
        /\ answers # << >> /\ answers' = Tail(answers)
        /\ can = Idle /\ can' = [at |-> "notifying", frame |-> Head(answers)]
    BY <1>4 DEF CanReceive, vars
  <2>2. Hands' = {Head(answers)} /\ Elements(answers)' = Elements(Tail(answers))
    BY <2>1 DEF Hands, Elements
  <2>3. Head(answers) \in Elements(answers) /\ Elements(Tail(answers)) \subseteq Elements(answers)
    BY <1>0, <2>1, StepIsNumber, TailFacts
  <2> QED
    BY <1>0, <2>1, <2>2, <2>3, FramesLeave
<1>5. CASE CanNotify
  <2>1. UNCHANGED <<requests, answers, ui, od>> /\ can' = Idle
    BY <1>5 DEF CanNotify, sdovars
  <2>2. Hands' \subseteq Hands /\ Elements(answers)' = Elements(answers)
    BY <2>1 DEF Hands, Idle, Elements
  <2>3. CASE UNCHANGED <<vars, executed, overtaken>>
    BY <1>0, <2>1, <2>2, <2>3, FramesLeave DEF vars
  <2>4. CASE HandleSdo(can.frame.entry, can.frame.type, can.frame.data)
    <3>1. Busy /\ Advance(Settled(Current, can.frame.type, can.frame.data))
      BY <2>4 DEF HandleSdo, Concerns
    <3>2. step_idx' = step_idx + 1 /\ ~awaiting'
      BY <3>1 DEF Advance
    <3> QED
      BY <1>0, <2>1, <2>2, <3>1, <3>2, NextStep
  <2> QED
    BY <1>5, <2>3, <2>4 DEF CanNotify
<1>6. CASE \E plan \in Plans : UiStart(plan)
  BY <1>6, StartKeeps
<1>7. CASE UiCancel
  <2>1. IInv /\ Busy /\ Finish(steps, "cancelled")
    BY <1>0, <1>7 DEF UiCancel, Cancel, BusIInv
  <2> QED
    BY <2>1, BreakOff, NotBusy
<1>8. CASE UiAskAloud
  BY <1>8, NotBusy DEF UiAskAloud, UiMark, Busy, vars
<1>9. CASE UiSend
  <2>1. ~Busy
    BY <1>0, <1>9 DEF UiSend, Own, Idle
  <2> QED
    BY <1>9, <2>1, NotBusy DEF UiSend, Busy, vars
<1>10. CASE Serve
  BY <1>10, ServeKeeps
<1>11. CASE LoseRequest
  <2>1. /\ UNCHANGED <<steps, step_idx, awaiting, ui, od, executed, overtaken, answers, can>>
        /\ requests # << >> /\ requests' = Tail(requests)
    BY <1>11 DEF LoseRequest, vars
  <2>2. (Elements(answers) \cup Hands)' \subseteq Elements(answers) \cup Hands
    BY <2>1 DEF Elements, Hands
  <2> QED
    BY <1>0, <2>1, <2>2, FramesLeave
<1>12. CASE LoseAnswer
  <2>1. /\ UNCHANGED <<steps, step_idx, awaiting, ui, od, executed, overtaken, requests, can>>
        /\ answers # << >> /\ answers' = Tail(answers)
    BY <1>12 DEF LoseAnswer, vars
  <2>2. Elements(answers)' = Elements(Tail(answers)) /\ Hands' = Hands
    BY <2>1 DEF Hands, Elements
  <2>3. Elements(Tail(answers)) \subseteq Elements(answers)
    BY <1>0, <2>1, StepIsNumber, TailFacts
  <2> QED
    BY <1>0, <2>1, <2>2, <2>3, FramesLeave
<1>13. CASE Elapse \/ UNCHANGED busvars
  <2>1. UNCHANGED <<steps, step_idx, awaiting, ui, od, executed, overtaken, requests, answers, can>>
    BY <1>13 DEF Elapse, Expire, sdovars, busvars, vars
  <2>2. (Elements(answers) \cup Hands)' \subseteq Elements(answers) \cup Hands
    BY <2>1 DEF Elements, Hands
  <2> QED
    BY <1>0, <2>1, <2>2, FramesLeave
<1> QED
  BY <1>1, <1>2, <1>3, <1>4, <1>5, <1>6, <1>7, <1>8, <1>9, <1>10, <1>11, <1>12, <1>13 DEF BusNext

LEMMA OrderInvariance == BusSpec => []OrderInv
  BY OrderInitEstablishes, OrderNextPreserves, PTL DEF BusSpec

\* The answer a step is about to take is to its own request, if it asked with no
\* other frame about its object under way: late answers to former transfers, to
\* steps given up and to requests made aloud settle none but such a step.
THEOREM InOrderUnlessOvertakenAlways == BusSpec => []InOrderUnlessOvertaken
<1>1. OrderInv => InOrderUnlessOvertaken
  <2> SUFFICES ASSUME OrderInv, overtaken = {}, can.at = "notifying",
                      Concerns(can.frame.entry, can.frame.type)
               PROVE  can.frame.by = step_idx + 1
    BY DEF InOrderUnlessOvertaken, AnswersInOrder
  <2>1. Busy /\ awaiting /\ can.frame.entry = Current.entry
    BY DEF Concerns
  <2>2. can.frame \in InFlight
    BY DEF InFlight
  <2>3. FrameTells(can.frame)
    BY <2>1, <2>2 DEF OrderInv, Own
  <2> QED
    BY <2>1, <2>3 DEF FrameTells
<1> QED
  BY <1>1, OrderInvariance, PTL

\* Steps become done by an answer alone.
LEMMA DoneByAnswer ==
  ASSUME BusIInv, [BusNext]_busvars, NEW i \in DOMAIN steps, Done(i)
  PROVE  /\ can.at = "notifying" /\ Concerns(can.frame.entry, can.frame.type)
         /\ steps[i] = Current /\ can.frame.type = Answer(Current)
         /\ steps'[i].value = IF IsWrite(Current) THEN Current.value ELSE can.frame.data
<1>1. CASE UNCHANGED steps
  BY <1>1 DEF Done
<1>2. CASE CanGoOn
  BY <1>2, GoOnGoesOn
<1>3. CASE \E plan \in Plans : UiStart(plan)
  <2>1. ~Busy
    BY <1>3 DEF UiStart, Start
  <2> QED
    BY <2>1 DEF Done, BusIInv, IInv, InOrder
<1>4. CASE UiCancel
  BY <1>4, BreakOff DEF UiCancel, Cancel, BusIInv
<1>5. CASE can.at = "notifying" /\ HandleSdo(can.frame.entry, can.frame.type, can.frame.data)
  <2>1. /\ Concerns(can.frame.entry, can.frame.type) /\ Busy
        /\ Advance(Settled(Current, can.frame.type, can.frame.data))
    BY <1>5 DEF HandleSdo, Concerns
  <2>2. i = step_idx + 1 /\ steps'[i] = Settled(Current, can.frame.type, can.frame.data)
    BY <2>1, AdvanceGoesOn DEF BusIInv
  <2>3. PICK old \in ConfigStep : old = Current
    BY <2>1, CurrentIsPending DEF BusIInv
  <2>4. can.frame.type # "abort"
    BY <2>2, <2>3 DEF Settled, Done, ConfigStep
  <2>5. steps'[i].value = IF IsWrite(Current) THEN Current.value ELSE can.frame.data
    BY <2>2, <2>3, <2>4 DEF Settled, ConfigStep
  <2> QED
    BY <1>5, <2>1, <2>2, <2>4, <2>5 DEF Concerns, Current
<1>6. CASE CanSend \/ Elapse
  BY <1>1, <1>6 DEF CanSend, Request, Elapse, Expire
<1> QED
  BY <1>1, <1>2, <1>3, <1>4, <1>5, <1>6
     DEF BusNext, CanMark, CanReceive, CanNotify, UiAskAloud, UiMark, UiSend, Serve, LoseRequest,
         LoseAnswer, busvars, vars

\* What the answer that settles a step says is true.
LEMMA AnswerTells ==
  ASSUME OrderInv, [BusNext]_busvars, NEW i \in DOMAIN steps, Done(i)
  PROVE  /\ IsWrite(steps[i]) /\ "write" \notin overtaken => executed
         /\ ~IsWrite(steps[i]) /\ "read" \notin overtaken => steps'[i].value = od[steps[i].entry]
<1>1. /\ can.at = "notifying" /\ Busy /\ awaiting /\ can.frame.entry = Current.entry
      /\ steps[i] = Current /\ can.frame.type = Answer(Current)
      /\ steps'[i].value = IF IsWrite(Current) THEN Current.value ELSE can.frame.data
  BY DoneByAnswer DEF OrderInv, Concerns
<1>2. FrameTells(can.frame)
  BY <1>1 DEF OrderInv, Own, InFlight
<1>3. /\ can.frame.type = IF IsWrite(Current) THEN "response_to_write" ELSE "response_to_read"
      /\ Kind(can.frame.type) = IF IsWrite(Current) THEN "write" ELSE "read"
  BY <1>1 DEF Answer, Kind
<1> QED
  BY <1>1, <1>2, <1>3 DEF FrameTells, OfTheStep

\* A step is shown as written only if the node executed its own write, unless
\* another write of the object was under way when it asked; the request may have
\* been repeated, and its answers late or lost.
THEOREM WrittenWasExecutedAlways == BusSpec => WrittenWasExecuted
<1>1. OrderInv /\ [BusNext]_busvars =>
        [\A i \in DOMAIN steps :
           Done(i) /\ IsWrite(steps[i]) /\ "write" \notin overtaken => executed]_busvars
  BY AnswerTells
<1> QED
  BY <1>1, OrderInvariance, PTL DEF BusSpec, WrittenWasExecuted

\* A value read is the one the node holds when the step takes it, unless another
\* read of the object was under way when it asked: every write that was has been
\* served before the step's own request is.
THEOREM ReadIsCurrentAlways == BusSpec => ReadIsCurrent
<1>1. OrderInv /\ [BusNext]_busvars =>
        [\A i \in DOMAIN steps :
           Done(i) /\ ~IsWrite(steps[i]) /\ "read" \notin overtaken
             => steps'[i].value = od[steps[i].entry]]_busvars
  BY AnswerTells
<1> QED
  BY <1>1, OrderInvariance, PTL DEF BusSpec, ReadIsCurrent

-----------------------------------------------------------------------------
(* What the log says.                                                      *)

\* A mark that can tell says of every frame about its object how it was asked for.
MarksTell ==
  \A frame \in Elements(requests) \cup Elements(answers) :
    frame.entry \notin muddled => (frame.loud <=> frame.entry \notin quiet)

\* One frame at most is under way about an object that is marked, if the mark can
\* tell.
OneQuiet ==
  \A entry \in quiet \ muddled :
    /\ \A i, j \in DOMAIN requests :
         requests[i].entry = entry /\ requests[j].entry = entry => i = j
    /\ \A i, j \in DOMAIN answers :
         answers[i].entry = entry /\ answers[j].entry = entry => i = j
    /\ \A request \in Elements(requests), answer \in Elements(answers) :
         request.entry # entry \/ answer.entry # entry

\* Between the mark and the frame.
MarkedFirst ==
  /\ ui.at = "asking" => ui.frame.loud /\ ui.frame.entry \notin quiet
  /\ can.at = "asking" =>
       /\ Busy /\ Current.entry \in quiet
       /\ Current.entry \notin muddled => Queued(Current.entry) = {}

MarkInv == MarksTell /\ OneQuiet /\ MarkedFirst /\ LogTellsTheTruth

LEMMA QueuedIs ==
  ASSUME NEW entry
  PROVE  Queued(entry) = {frame \in Elements(requests) \cup Elements(answers) : frame.entry = entry}
  BY DEF Queued, Elements

\* Frames are handled or lost, or a mark is taken that was of no frame left.
LEMMA MarksLeave ==
  ASSUME BusIInv, MarkInv, muddled' = muddled, quiet' \subseteq quiet,
         \/ requests' = requests
         \/ requests # << >> /\ requests' = Tail(requests),
         \/ answers' = answers
         \/ answers # << >> /\ answers' = Tail(answers),
         \A frame \in (Elements(requests) \cup Elements(answers))' :
           frame.entry \in quiet \ muddled => frame.entry \in quiet'
  PROVE  MarksTell' /\ OneQuiet'
<1>1. requests \in Seq(SoundRequest) /\ answers \in Seq(SoundAnswer)
  BY StepIsNumber
<1>2. /\ Elements(requests)' \subseteq Elements(requests)
      /\ Elements(answers)' \subseteq Elements(answers)
  <2>1. Elements(requests)' = Elements(requests') /\ Elements(answers)' = Elements(answers')
    BY DEF Elements
  <2> QED
    BY <1>1, <2>1, TailFacts
<1>3. MarksTell'
  BY <1>2 DEF MarkInv, MarksTell
<1>4. ASSUME NEW entry \in quiet' \ muddled'
      PROVE  /\ \A i, j \in DOMAIN requests' :
                  requests'[i].entry = entry /\ requests'[j].entry = entry => i = j
             /\ \A i, j \in DOMAIN answers' :
                  answers'[i].entry = entry /\ answers'[j].entry = entry => i = j
             /\ \A request \in Elements(requests)', answer \in Elements(answers)' :
                  request.entry # entry \/ answer.entry # entry
  <2>1. entry \in quiet \ muddled
    BY <1>4
  <2>2. /\ \A i, j \in DOMAIN requests :
             requests[i].entry = entry /\ requests[j].entry = entry => i = j
        /\ \A i, j \in DOMAIN answers :
             answers[i].entry = entry /\ answers[j].entry = entry => i = j
        /\ \A request \in Elements(requests), answer \in Elements(answers) :
             request.entry # entry \/ answer.entry # entry
    BY <2>1 DEF MarkInv, OneQuiet
  <2>3. ASSUME NEW S, NEW seq \in Seq(S), seq # << >>,
               \A i, j \in DOMAIN seq : seq[i].entry = entry /\ seq[j].entry = entry => i = j
        PROVE  \A i, j \in DOMAIN Tail(seq) :
                 Tail(seq)[i].entry = entry /\ Tail(seq)[j].entry = entry => i = j
    <3>1. \A i \in DOMAIN Tail(seq) :
            i + 1 \in DOMAIN seq /\ Tail(seq)[i] = seq[i + 1] /\ i \in Nat
      BY <2>3, TailFacts
    <3>2. ASSUME NEW i \in DOMAIN Tail(seq), NEW j \in DOMAIN Tail(seq),
                 Tail(seq)[i].entry = entry, Tail(seq)[j].entry = entry
          PROVE  i = j
      <4>1. i + 1 = j + 1
        BY <2>3, <3>1, <3>2
      <4> QED
        BY <3>1, <4>1
    <3> QED
      BY <3>2
  <2>4. \A i, j \in DOMAIN requests' :
          requests'[i].entry = entry /\ requests'[j].entry = entry => i = j
    BY <1>1, <2>2, <2>3
  <2>5. \A i, j \in DOMAIN answers' :
          answers'[i].entry = entry /\ answers'[j].entry = entry => i = j
    BY <1>1, <2>2, <2>3
  <2> QED
    BY <1>2, <2>2, <2>4, <2>5
<1>5. OneQuiet'
  BY <1>4 DEF OneQuiet
<1> QED
  BY <1>3, <1>5

\* The mark of a request comes before it, and tells if no other frame about the
\* object is under way.
LEMMA CanMarkTells ==
  ASSUME OrderInv, MarkInv, CanMark
  PROVE  MarkInv'
<1> DEFINE entry == Current.entry
<1>1. /\ Busy /\ can' = [at |-> "asking"] /\ ui = Idle
      /\ quiet' = quiet \cup {entry}
      /\ muddled' = IF Queued(entry) # {} THEN muddled \cup {entry} ELSE muddled \ {entry}
      /\ UNCHANGED <<vars, requests, answers, ui, log>>
  BY DEF CanMark, Due, OrderInv, Own
<1>2. /\ Current' = Current /\ Busy' /\ Queued(entry)' = Queued(entry)
      /\ Elements(requests)' = Elements(requests) /\ Elements(answers)' = Elements(answers)
  BY <1>1 DEF Current, Busy, Queued, Elements, vars
<1>3. entry \notin muddled' => \A frame \in Elements(requests) \cup Elements(answers) : frame.entry # entry
  BY <1>1, QueuedIs
<1>4. MarksTell'
  BY <1>1, <1>2, <1>3 DEF MarkInv, MarksTell
<1>5. ASSUME NEW e \in quiet' \ muddled'
      PROVE  /\ \A i, j \in DOMAIN requests : requests[i].entry = e /\ requests[j].entry = e => i = j
             /\ \A i, j \in DOMAIN answers : answers[i].entry = e /\ answers[j].entry = e => i = j
             /\ \A request \in Elements(requests), answer \in Elements(answers) :
                  request.entry # e \/ answer.entry # e
  <2>1. CASE e = entry
    BY <1>3, <1>5, <2>1 DEF Elements
  <2>2. CASE e # entry
    <3>1. e \in quiet \ muddled
      BY <1>1, <1>5, <2>2
    <3> QED
      BY <3>1 DEF MarkInv, OneQuiet
  <2> QED
    BY <2>1, <2>2
<1>6. OneQuiet'
  BY <1>1, <1>2, <1>5 DEF OneQuiet
<1>7. MarkedFirst'
  <2>1. entry \notin muddled' => Queued(entry) = {}
    BY <1>1
  <2> QED
    BY <1>1, <1>2, <2>1 DEF MarkedFirst, Idle
<1> QED
  BY <1>1, <1>4, <1>6, <1>7 DEF MarkInv, LogTellsTheTruth

\* A frame joins the requests that its object's mark tells of.
LEMMA RequestTells ==
  ASSUME BusIInv, MarkInv, NEW frame \in SoundRequest,
         requests' = Append(requests, frame), UNCHANGED <<answers, quiet, muddled>>,
         frame.entry \notin muddled => (frame.loud <=> frame.entry \notin quiet),
         frame.entry \in quiet \ muddled => Queued(frame.entry) = {}
  PROVE  MarksTell' /\ OneQuiet'
<1>1. /\ requests \in Seq(SoundRequest)
      /\ DOMAIN requests' = DOMAIN requests \cup {Len(requests) + 1}
      /\ requests'[Len(requests) + 1] = frame
      /\ \A i \in DOMAIN requests : requests'[i] = requests[i]
      /\ Elements(requests') = Elements(requests) \cup {frame}
  BY StepIsNumber, AppendFacts
<1>2. Elements(requests)' = Elements(requests) \cup {frame} /\ Elements(answers)' = Elements(answers)
  BY <1>1 DEF Elements
<1>3. MarksTell'
  BY <1>2 DEF MarkInv, MarksTell
<1>4. ASSUME NEW entry \in quiet \ muddled
      PROVE  /\ \A i, j \in DOMAIN requests' :
                  requests'[i].entry = entry /\ requests'[j].entry = entry => i = j
             /\ \A request \in Elements(requests)', answer \in Elements(answers) :
                  request.entry # entry \/ answer.entry # entry
  <2>1. /\ \A i, j \in DOMAIN requests : requests[i].entry = entry /\ requests[j].entry = entry => i = j
        /\ \A request \in Elements(requests), answer \in Elements(answers) :
             request.entry # entry \/ answer.entry # entry
    BY <1>4 DEF MarkInv, OneQuiet
  <2>2. frame.entry = entry =>
          /\ \A i \in DOMAIN requests : requests[i].entry # entry
          /\ \A answer \in Elements(answers) : answer.entry # entry
    BY <1>4, QueuedIs DEF Elements
  <2> QED
    BY <1>1, <1>2, <2>1, <2>2
<1>5. OneQuiet'
  <2>1. \A entry \in quiet \ muddled :
          \A i, j \in DOMAIN answers : answers[i].entry = entry /\ answers[j].entry = entry => i = j
    BY DEF MarkInv, OneQuiet
  <2> QED
    BY <1>2, <1>4, <2>1 DEF OneQuiet
<1> QED
  BY <1>3, <1>5

\* An answer is taken with its object's mark, which told how it was asked for.
LEMMA ReceiveTells ==
  ASSUME OrderInv, MarkInv, CanReceive
  PROVE  MarkInv'
<1> DEFINE frame == Head(answers)
<1>0. BusIInv /\ requests \in Seq(SoundRequest) /\ answers \in Seq(SoundAnswer)
  BY StepIsNumber DEF OrderInv
<1>1. /\ answers # << >> /\ answers' = Tail(answers)
      /\ quiet' = quiet \ {frame.entry}
      /\ log' = LogLine(frame, frame.entry \notin quiet)
      /\ can' = [at |-> "notifying", frame |-> frame]
      /\ UNCHANGED <<requests, ui, muddled>>
  BY DEF CanReceive
<1>2. /\ 1 \in DOMAIN answers /\ frame = answers[1] /\ frame \in Elements(answers)
      /\ \A i \in DOMAIN Tail(answers) :
           i + 1 \in DOMAIN answers /\ Tail(answers)[i] = answers[i + 1] /\ i \in Nat /\ i # 0
  BY <1>0, <1>1, TailFacts
<1>3. frame.entry \in quiet \ muddled =>
        \A other \in (Elements(requests) \cup Elements(answers))' : other.entry # frame.entry
  <2> SUFFICES ASSUME frame.entry \in quiet \ muddled
               PROVE  \A other \in (Elements(requests) \cup Elements(answers))' : other.entry # frame.entry
    OBVIOUS
  <2>1. /\ \A i, j \in DOMAIN answers :
             answers[i].entry = frame.entry /\ answers[j].entry = frame.entry => i = j
        /\ \A request \in Elements(requests), answer \in Elements(answers) :
             request.entry # frame.entry \/ answer.entry # frame.entry
    BY DEF MarkInv, OneQuiet
  <2>2. \A request \in Elements(requests) : request.entry # frame.entry
    BY <1>2, <2>1
  <2>3. ASSUME NEW i \in DOMAIN Tail(answers) PROVE Tail(answers)[i].entry # frame.entry
    <3>1. i + 1 # 1
      BY <1>2
    <3> QED
      BY <1>2, <2>1, <3>1
  <2> QED
    BY <1>1, <2>2, <2>3 DEF Elements
<1>4. MarksTell' /\ OneQuiet'
  <2>1. \A other \in (Elements(requests) \cup Elements(answers))' :
          other.entry \in quiet \ muddled => other.entry \in quiet'
    BY <1>1, <1>3
  <2> QED
    BY <1>0, <1>1, <2>1, MarksLeave
<1>5. log' = "right"
  <2>1. frame.entry \notin muddled => (frame.loud <=> frame.entry \notin quiet)
    BY <1>2 DEF MarkInv, MarksTell
  <2>2. frame.loud \in BOOLEAN
    <3>1. frame \in SoundAnswer
      BY <1>0, <1>2
    <3> QED
      BY <3>1 DEF SoundAnswer
  <2>3. PICK logged \in BOOLEAN : logged = (frame.entry \notin quiet)
    OBVIOUS
  <2>4. frame.entry \notin muddled => logged = frame.loud
    BY <2>1, <2>2, <2>3, Zenon
  <2>5. log' = LogLine(frame, logged)
    BY <1>1, <2>3
  <2> QED
    BY <2>4, <2>5 DEF LogLine
<1>6. MarkedFirst'
  BY <1>1 DEF MarkInv, MarkedFirst
<1> QED
  BY <1>4, <1>5, <1>6 DEF MarkInv, LogTellsTheTruth

\* A request made aloud takes the mark away; all that is left is loud, if the mark
\* is to tell.
LEMMA AskTells ==
  ASSUME OrderInv, MarkInv, UiAskAloud
  PROVE  MarkInv'
<1>1. PICK entry, type, data : UiMark(entry, type, data)
  BY DEF UiAskAloud
<1>2. /\ ~Busy /\ quiet' = quiet \ {entry}
      /\ muddled' = IF \E frame \in Queued(entry) : ~frame.loud THEN muddled \cup {entry}
                                                               ELSE muddled \ {entry}
      /\ ui' = [at |-> "asking", frame |-> Frame(entry, type, data, 0, TRUE)]
      /\ UNCHANGED <<requests, answers, can, log>>
  BY <1>1 DEF UiMark
<1>3. Elements(requests)' = Elements(requests) /\ Elements(answers)' = Elements(answers)
  BY <1>2 DEF Elements
<1>4. entry \notin muddled' =>
        \A frame \in Elements(requests) \cup Elements(answers) : frame.entry = entry => frame.loud
  BY <1>2, QueuedIs
<1>5. MarksTell'
  BY <1>2, <1>3, <1>4 DEF MarkInv, MarksTell
<1>6. \A e \in quiet' \ muddled' : e \in quiet \ muddled
  BY <1>2
<1>7. OneQuiet'
  BY <1>2, <1>3, <1>6 DEF MarkInv, OneQuiet
<1>8. ui'.frame.loud /\ ui'.frame.entry = entry
  BY <1>2 DEF Frame
<1>9. can'.at # "asking"
  BY <1>2 DEF MarkInv, MarkedFirst
<1>10. MarkedFirst'
  BY <1>2, <1>8, <1>9 DEF MarkedFirst
<1> QED
  BY <1>2, <1>5, <1>7, <1>10 DEF MarkInv, LogTellsTheTruth

\* An answer takes the place of its request.
LEMMA ServeTells ==
  ASSUME OrderInv, MarkInv, Serve
  PROVE  MarkInv'
<1> DEFINE frame == Head(requests)
<1>0. /\ BusIInv /\ requests \in Seq(SoundRequest) /\ answers \in Seq(SoundAnswer)
      /\ requests # << >> /\ requests' = Tail(requests)
      /\ UNCHANGED <<vars, quiet, muddled, can, ui, log>>
  BY StepIsNumber DEF OrderInv, Serve
<1>1. PICK type, data : answers' = Append(answers, Frame(frame.entry, type, data, frame.by, frame.loud))
  BY DEF Serve
<1>2. PICK answer \in SoundAnswer :
        answers' = Append(answers, answer) /\ answer.entry = frame.entry /\ answer.loud = frame.loud
  <2> DEFINE a == Frame(frame.entry, type, data, frame.by, frame.loud)
  <2>1. FramesSound'
    BY <1>0, FramesStaySound DEF BusNext
  <2>2. answers' \in Seq(SoundAnswer)
    BY <2>1 DEF FramesSound
  <2>3. Len(answers) + 1 \in 1 .. Len(answers') /\ answers'[Len(answers) + 1] = a
    BY <1>0, <1>1, <2>2
  <2>4. a \in SoundAnswer
    BY <2>2, <2>3
  <2>5. a.entry = frame.entry /\ a.loud = frame.loud
    BY DEF Frame
  <2> QED
    BY <1>1, <2>4, <2>5
<1>3. /\ DOMAIN answers' = DOMAIN answers \cup {Len(answers) + 1}
      /\ answers'[Len(answers) + 1] = answer
      /\ \A i \in DOMAIN answers : answers'[i] = answers[i]
      /\ Elements(answers') = Elements(answers) \cup {answer}
  BY <1>0, <1>2, AppendFacts
<1>4. /\ 1 \in DOMAIN requests /\ frame = requests[1] /\ frame \in Elements(requests)
      /\ Elements(requests') \subseteq Elements(requests)
      /\ \A i \in DOMAIN requests' :
           i + 1 \in DOMAIN requests /\ requests'[i] = requests[i + 1] /\ i \in Nat /\ i # 0
  BY <1>0, TailFacts
<1>5. Elements(requests)' = Elements(requests') /\ Elements(answers)' = Elements(answers')
  BY DEF Elements
<1>6. MarksTell'
  BY <1>0, <1>2, <1>3, <1>4, <1>5 DEF MarkInv, MarksTell
<1>7. ASSUME NEW entry \in quiet \ muddled
      PROVE  /\ \A i, j \in DOMAIN requests' :
                  requests'[i].entry = entry /\ requests'[j].entry = entry => i = j
             /\ \A i, j \in DOMAIN answers' :
                  answers'[i].entry = entry /\ answers'[j].entry = entry => i = j
             /\ \A request \in Elements(requests'), other \in Elements(answers') :
                  request.entry # entry \/ other.entry # entry
  <2>1. /\ \A i, j \in DOMAIN requests : requests[i].entry = entry /\ requests[j].entry = entry => i = j
        /\ \A i, j \in DOMAIN answers : answers[i].entry = entry /\ answers[j].entry = entry => i = j
        /\ \A request \in Elements(requests), other \in Elements(answers) :
             request.entry # entry \/ other.entry # entry
    BY <1>7 DEF MarkInv, OneQuiet
  <2>2. ASSUME NEW i \in DOMAIN requests', NEW j \in DOMAIN requests',
               requests'[i].entry = entry, requests'[j].entry = entry
        PROVE  i = j
    <3>1. i + 1 = j + 1
      BY <1>4, <2>1, <2>2
    <3> QED
      BY <1>4, <3>1
  <2>3. frame.entry = entry =>
          /\ \A i \in DOMAIN requests' : requests'[i].entry # entry
          /\ \A i \in DOMAIN answers : answers[i].entry # entry
    <3>1. ASSUME NEW i \in DOMAIN requests', frame.entry = entry PROVE requests'[i].entry # entry
      <4>1. i + 1 # 1
        BY <1>4
      <4> QED
        BY <1>4, <2>1, <3>1, <4>1
    <3>2. frame.entry = entry => \A i \in DOMAIN answers : answers[i].entry # entry
      BY <1>4, <2>1 DEF Elements
    <3> QED
      BY <3>1, <3>2
  <2>4. \A i, j \in DOMAIN answers' : answers'[i].entry = entry /\ answers'[j].entry = entry => i = j
    BY <1>2, <1>3, <2>1, <2>3
  <2>5. \A request \in Elements(requests'), other \in Elements(answers') :
          request.entry # entry \/ other.entry # entry
    BY <1>2, <1>3, <1>4, <2>1, <2>3 DEF Elements
  <2> QED
    BY <2>2, <2>4, <2>5
<1>8. OneQuiet'
  BY <1>0, <1>5, <1>7 DEF OneQuiet
<1>9. MarkedFirst'
  <2>1. Current' = Current /\ (Busy' <=> Busy)
    BY <1>0 DEF Current, Busy, vars
  <2>2. ASSUME NEW entry, Queued(entry) = {} PROVE Queued(entry)' = {}
    <3>1. Queued(entry)' = {other \in Elements(requests') \cup Elements(answers') : other.entry = entry}
      BY <1>5, QueuedIs DEF Queued, Elements
    <3>2. \A other \in Elements(requests) \cup Elements(answers) : other.entry # entry
      BY <2>2, QueuedIs
    <3> QED
      BY <1>2, <1>3, <1>4, <3>1, <3>2
  <2>3. PICK entry : entry = Current.entry
    OBVIOUS
  <2> QED
    BY <1>0, <2>1, <2>2, <2>3 DEF MarkInv, MarkedFirst
<1> QED
  BY <1>0, <1>6, <1>8, <1>9 DEF MarkInv, LogTellsTheTruth

LEMMA SendTells ==
  ASSUME OrderInv, MarkInv, CanSend \/ UiSend
  PROVE  MarkInv'
<1>1. BusIInv
  BY DEF OrderInv
<1>2. CASE CanSend
  <2>1. PICK frame \in SoundRequest :
          requests' = Append(requests, frame) /\ frame.entry = Current.entry /\ ~frame.loud
    BY <1>1, <1>2, SentIsSound
  <2>2. /\ Busy /\ can.at = "asking" /\ can' = Idle
        /\ UNCHANGED <<answers, quiet, muddled, ui, log>>
    BY <1>2 DEF CanSend, Request, Due
  <2>3. Current.entry \in quiet /\ (Current.entry \notin muddled => Queued(Current.entry) = {})
    BY <2>2 DEF MarkInv, MarkedFirst
  <2>4. MarksTell' /\ OneQuiet'
    BY <1>1, <2>1, <2>2, <2>3, RequestTells
  <2> QED
    BY <2>2, <2>4 DEF MarkInv, MarkedFirst, LogTellsTheTruth, Idle
<1>3. CASE UiSend
  <2>1. /\ ui.frame \in SoundRequest /\ requests' = Append(requests, ui.frame)
        /\ ui.at = "asking" /\ ui' = Idle
        /\ UNCHANGED <<vars, answers, quiet, muddled, can, log>>
    BY <1>1, <1>3 DEF UiSend, BusIInv, FramesSound
  <2>2. ui.frame.loud /\ ui.frame.entry \notin quiet
    BY <2>1 DEF MarkInv, MarkedFirst
  <2>3. MarksTell' /\ OneQuiet'
    BY <1>1, <2>1, <2>2, RequestTells
  <2>4. can.at # "asking"
    BY <2>1 DEF OrderInv, Own, MarkInv, MarkedFirst, Idle
  <2> QED
    BY <2>1, <2>3, <2>4 DEF MarkInv, MarkedFirst, LogTellsTheTruth, Idle
<1> QED
  BY <1>2, <1>3

\* A new transfer changes neither the frames' objects nor how they were asked for.
LEMMA StartTells ==
  ASSUME OrderInv, MarkInv, NEW plan \in Plans, UiStart(plan)
  PROVE  MarkInv'
<1>1. /\ requests' = Disown(requests) /\ answers' = Disown(answers)
      /\ ui = Idle /\ can'.at # "asking" /\ log' = "right" /\ UNCHANGED <<quiet, muddled, ui>>
  <2>1. can.at # "asking" /\ can' = IF can.at = "notifying" THEN [can EXCEPT !.frame.by = 0] ELSE can
    BY DEF UiStart, Unlocked
  <2>2. [can EXCEPT !.frame.by = 0].at = can.at
    OBVIOUS
  <2> QED
    BY <2>1, <2>2 DEF UiStart
<1>2. /\ requests \in Seq(SoundRequest) /\ answers \in Seq(SoundAnswer)
  BY StepIsNumber DEF OrderInv
<1>3. \A frame \in SoundRequest \cup SoundAnswer :
        [frame EXCEPT !.by = 0].entry = frame.entry /\ [frame EXCEPT !.by = 0].loud = frame.loud
  BY DEF SoundRequest, SoundAnswer
<1>4. /\ DOMAIN requests' = DOMAIN requests
      /\ \A i \in DOMAIN requests :
           requests'[i].entry = requests[i].entry /\ requests'[i].loud = requests[i].loud
  <2>1. \A i \in DOMAIN requests : requests[i] \in SoundRequest
    BY <1>2
  <2> QED
    BY <1>1, <1>3, <2>1 DEF Disown
<1>5. /\ DOMAIN answers' = DOMAIN answers
      /\ \A i \in DOMAIN answers :
           answers'[i].entry = answers[i].entry /\ answers'[i].loud = answers[i].loud
  <2>1. \A i \in DOMAIN answers : answers[i] \in SoundAnswer
    BY <1>2
  <2> QED
    BY <1>1, <1>3, <2>1 DEF Disown
<1>6. /\ \A frame \in Elements(requests)' :
           \E old \in Elements(requests) : frame.entry = old.entry /\ frame.loud = old.loud
      /\ \A frame \in Elements(answers)' :
           \E old \in Elements(answers) : frame.entry = old.entry /\ frame.loud = old.loud
  BY <1>4, <1>5 DEF Elements
<1>7. MarksTell'
  BY <1>1, <1>6 DEF MarkInv, MarksTell
<1>8. ASSUME NEW entry \in quiet \ muddled
      PROVE  /\ \A i, j \in DOMAIN requests' :
                  requests'[i].entry = entry /\ requests'[j].entry = entry => i = j
             /\ \A i, j \in DOMAIN answers' :
                  answers'[i].entry = entry /\ answers'[j].entry = entry => i = j
             /\ \A request \in Elements(requests)', answer \in Elements(answers)' :
                  request.entry # entry \/ answer.entry # entry
  <2>1. /\ \A i, j \in DOMAIN requests : requests[i].entry = entry /\ requests[j].entry = entry => i = j
        /\ \A i, j \in DOMAIN answers : answers[i].entry = entry /\ answers[j].entry = entry => i = j
        /\ \A request \in Elements(requests), answer \in Elements(answers) :
             request.entry # entry \/ answer.entry # entry
    BY <1>8 DEF MarkInv, OneQuiet
  <2> QED
    BY <1>4, <1>5, <1>6, <2>1
<1>9. OneQuiet'
  BY <1>1, <1>8 DEF OneQuiet
<1>10. MarkedFirst'
  BY <1>1 DEF MarkInv, MarkedFirst, Idle
<1> QED
  BY <1>1, <1>7, <1>9, <1>10 DEF MarkInv, LogTellsTheTruth

LEMMA MarkInitEstablishes == BusInit => MarkInv
<1> SUFFICES ASSUME BusInit PROVE MarkInv
  OBVIOUS
<1>1. requests = << >> /\ answers = << >> /\ quiet = {} /\ can = Idle /\ ui = Idle /\ log = "right"
  BY DEF BusInit
<1>2. Elements(requests) = {} /\ Elements(answers) = {}
  BY <1>1 DEF Elements
<1> QED
  BY <1>1, <1>2 DEF MarkInv, MarksTell, OneQuiet, MarkedFirst, LogTellsTheTruth, Idle

LEMMA MarkNextPreserves == OrderInv /\ MarkInv /\ [BusNext]_busvars => MarkInv'
<1> SUFFICES ASSUME OrderInv, MarkInv, [BusNext]_busvars PROVE MarkInv'
  OBVIOUS
<1>0. BusIInv
  BY DEF OrderInv
<1>1. CASE CanMark
  BY <1>1, CanMarkTells
<1>2. CASE CanSend \/ UiSend
  BY <1>2, SendTells
<1>3. CASE CanReceive
  BY <1>3, ReceiveTells
<1>4. CASE \E plan \in Plans : UiStart(plan)
  BY <1>4, StartTells
<1>5. CASE UiAskAloud
  BY <1>5, AskTells
<1>6. CASE Serve
  BY <1>6, ServeTells
<1>7. CASE CanGoOn \/ CanNotify \/ UiCancel
  <2>1. /\ UNCHANGED <<requests, answers, quiet, muddled, ui, log>>
        /\ can.at # "asking" /\ can'.at # "asking"
    BY <1>7 DEF CanGoOn, CanNotify, UiCancel, Unlocked, sdovars, Idle
  <2>2. MarksTell' /\ OneQuiet'
    BY <1>0, <2>1, MarksLeave DEF Elements
  <2> QED
    BY <2>1, <2>2 DEF MarkInv, MarkedFirst, LogTellsTheTruth
<1>8. CASE LoseRequest \/ LoseAnswer
  <2>1. /\ UNCHANGED <<vars, quiet, muddled, ui, can, log>>
        /\ \/ requests' = requests
           \/ requests # << >> /\ requests' = Tail(requests)
        /\ \/ answers' = answers
           \/ answers # << >> /\ answers' = Tail(answers)
    BY <1>8 DEF LoseRequest, LoseAnswer
  <2>2. MarksTell' /\ OneQuiet'
    BY <1>0, <2>1, MarksLeave
  <2>3. Current' = Current /\ (Busy' <=> Busy)
    BY <2>1 DEF Current, Busy, vars
  <2>4. ASSUME NEW entry, Queued(entry) = {} PROVE Queued(entry)' = {}
    <3>1. /\ Elements(requests)' = Elements(requests') /\ Elements(answers)' = Elements(answers')
      BY DEF Elements
    <3>2. /\ Elements(requests)' \subseteq Elements(requests)
          /\ Elements(answers)' \subseteq Elements(answers)
      BY <1>0, <2>1, <3>1, StepIsNumber, TailFacts
    <3>3. Queued(entry)' = {frame \in Elements(requests') \cup Elements(answers') : frame.entry = entry}
      BY <3>1, QueuedIs DEF Queued, Elements
    <3> QED
      BY <2>4, <3>1, <3>2, <3>3, QueuedIs
  <2>5. PICK entry : entry = Current.entry
    OBVIOUS
  <2> QED
    BY <2>1, <2>2, <2>3, <2>4, <2>5 DEF MarkInv, MarkedFirst, LogTellsTheTruth
<1>9. CASE Elapse \/ UNCHANGED busvars
  <2>1. UNCHANGED <<steps, step_idx, requests, answers, quiet, muddled, ui, can, log>>
    BY <1>9 DEF Elapse, Expire, sdovars, busvars, vars
  <2>2. MarksTell' /\ OneQuiet'
    BY <1>0, <2>1, MarksLeave DEF Elements
  <2>3. Current' = Current /\ (Busy' <=> Busy) /\ Queued(Current.entry)' = Queued(Current.entry)
    BY <2>1 DEF Current, Busy, Queued
  <2> QED
    BY <2>1, <2>2, <2>3 DEF MarkInv, MarkedFirst, LogTellsTheTruth
<1> QED
  BY <1>1, <1>2, <1>3, <1>4, <1>5, <1>6, <1>7, <1>8, <1>9 DEF BusNext

\* Every answer to a request made aloud gets its line and no quiet answer does,
\* however marks and requests of the two threads interleave and whatever a former
\* transfer left under way, unless an object was asked for with another frame
\* about it under way.
THEOREM LogIsRight == BusSpec => []LogTellsTheTruth
<1>1. MarkInv => LogTellsTheTruth
  BY DEF MarkInv
<1> QED
  BY OrderInitEstablishes, OrderNextPreserves, MarkInitEstablishes, MarkNextPreserves, <1>1, PTL
     DEF BusSpec
=============================================================================

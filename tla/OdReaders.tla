------------------------------- MODULE OdReaders -------------------------------
(***************************************************************************)
(* The blocking reads of server_od_utils as ServerSetupPanel uses them: a  *)
(* read_string, read_scalar or read_expdata puts a reader on the UI        *)
(* thread's stack, which subscribes to the SDO service, sends a request    *)
(* and is polled until it is ready or the timeout passes.  The CAN thread  *)
(* hands every answer to the subscribers; a string comes in pieces of four *)
(* characters, each asked for by the handler of the piece before it.       *)
(*                                                                         *)
(* A reader is subscribed exactly as long as it lives, and there is one at *)
(* a time.  Nothing keeps the CAN thread out of a reader that goes away:   *)
(* what it does then, it does to the next reader at the same place of the  *)
(* stack, or to nothing.  A request or an answer may be lost, and an       *)
(* answer may come after the reader has given up.                          *)
(***************************************************************************)
EXTENDS Naturals, Sequences

CONSTANTS
  Texts,        \* the string objects of the section "about"
  Numbers,      \* its scalar objects
  About,        \* both, in the order of _draw_about
  Param,        \* the objects of the section "setup"
  Missing,      \* objects the server's dictionary does not have
  Pieces,       \* per string, the pieces it comes in
  Blank,        \* strings whose last piece holds the terminator alone
  Data,         \* the values of a scalar
  Default,      \* what restore_default_parameter sets
  NoData, NoObject,
  MaxInFlight   \* bound: requests and answers under way

ASSUME ReadersAssumption ==
  /\ About \in Seq(Texts \cup Numbers)
  /\ Texts \cap (Numbers \cup Param) = {} /\ Numbers \cap Param = {}
  /\ Missing \subseteq Texts \cup Numbers
  /\ Pieces \in [Texts -> Nat \ {0}]
  /\ Blank \subseteq Texts
  /\ Default \in Data /\ NoData \notin Data
  /\ NoObject \notin Texts \cup Numbers \cup Param
  /\ MaxInFlight \in Nat \ {0}

VARIABLES
  shown,        \* _device_name, ..., _device_sn: pieces, <<value>>, "n/a" or nothing
  selected,     \* the object of the section "setup"
  value,        \* _parameter_value
  should_read,  \* _should_read
  ui,           \* where the UI thread stands in _draw_about and _draw_setup
  call,         \* the object a reader is alive for, or NoObject
  charbuf,      \* the reader's _charbuf, as pieces
  result,       \* its _result, or NoData
  ready,        \* its _ready
  can,          \* where the CAN thread stands in handle_sdo
  requests,     \* what is under way to the node ...
  answers,      \* ... and from it
  held,         \* the node's values of the scalars in the dictionary
  cursor,       \* per string, the piece the node gives next
  stale,        \* history: when the call began, an earlier read of its object was under way,
                \* or the CAN thread was still in a former reader, of whatever object
  acks,         \* history: ... or the answer to an earlier write was
  refused,      \* history: the node refused a request for the object during the call
  disturbed     \* history: strings a call for which gave up or was cut short, until a call
                \* for it begins afresh

uivars == <<shown, selected, value, should_read, ui>>
readervars == <<call, charbuf, result, ready>>
nodevars == <<held, cursor>>
callhistory == <<stale, acks, refused>>
readersvars ==
  <<uivars, readervars, can, requests, answers, nodevars, callhistory, disturbed>>

NotThere == <<NoData>>   \* "n/a"
Nothing == << >>
Idle == [at |-> "idle"]

\* What a string of these pieces reads: the terminator ends it.
Text(o, pieces) == IF o \in Blank THEN SubSeq(pieces, 1, Len(pieces) - 1) ELSE pieces
Whole(o) == Text(o, [i \in 1 .. Pieces[o] |-> i])

\* A string is a value: the optional a reader returns tells it from nothing.
ASSUME ReadersValues == \A o \in Texts : Whole(o) # NoData

\* There is room on the bus, for requests and answers together (a bound of the
\* model).
Room == Len(requests) + Len(answers) < MaxInFlight

\* A request is sent, and may be lost.
Sent(request) ==
  \/ requests' = requests
  \/ Room /\ requests' = Append(requests, request)

\* Something of this kind about the object is under way, or an answer to it.
UnderWay(o, kind) ==
  \/ \E i \in DOMAIN requests : requests[i].object = o /\ requests[i].kind = kind
  \/ \E i \in DOMAIN answers : answers[i].object = o /\ answers[i].kind \in {kind, "abort"}

\* A call that begins on the string now has nothing of an earlier one before it:
\* the node is at the string's beginning, nothing about it is under way, and the
\* CAN thread is in no reader.
Afresh(o) ==
  /\ o \in Texts
  /\ cursor[o] = 1
  /\ \A i \in DOMAIN requests : requests[i].object # o
  /\ \A i \in DOMAIN answers : answers[i].object # o
  /\ can = Idle

ReadersInit ==
  /\ shown = [o \in Texts \cup Numbers |-> Nothing]
  /\ selected \in Param
  /\ value = NoData
  /\ should_read = TRUE
  /\ ui = 1
  /\ call = NoObject
  /\ charbuf = << >>
  /\ result = NoData
  /\ ready = FALSE
  /\ can = Idle
  /\ requests = << >>
  /\ answers = << >>
  /\ held \in [(Numbers \ Missing) \cup Param -> Data]
  /\ cursor = [o \in Texts |-> 1]
  /\ stale = FALSE
  /\ acks = FALSE
  /\ refused = FALSE
  /\ disturbed = {}

-----------------------------------------------------------------------------
(* The UI thread: a frame of ServerSetupPanel::draw, as far as it reads.   *)

\* A reader's constructor: it subscribes, looks the object up and asks for it.
\* If the CAN thread is still in a reader that is gone, whatever its object, what
\* it stores there may end up in this one.
Begin(o) ==
  /\ call' = o
  /\ charbuf' = << >>
  /\ result' = NoData
  /\ ready' = (o \in Missing)
  /\ IF o \in Missing THEN UNCHANGED requests ELSE Sent([kind |-> "read", object |-> o])
  /\ stale' = (can # Idle \/ UnderWay(o, "read"))
  /\ acks' = UnderWay(o, "write")
  /\ refused' = FALSE
  /\ disturbed' = (disturbed \ (IF Afresh(o) THEN {o} ELSE {}))
                    \cup (IF can # Idle THEN {o} \cap Texts ELSE {})

\* The refresh button of _draw_about.
UiRefresh ==
  /\ call = NoObject
  /\ ui = 1
  /\ shown' = [o \in Texts \cup Numbers |-> Nothing]
  /\ UNCHANGED <<selected, value, should_read, ui, readervars, can, requests, answers,
                 nodevars, callhistory, disturbed>>

\* _draw_about: what is not known is asked for.
UiAbout ==
  /\ call = NoObject
  /\ ui \in DOMAIN About
  /\ IF shown[About[ui]] = Nothing
     THEN Begin(About[ui]) /\ UNCHANGED ui
     ELSE ui' = ui + 1 /\ UNCHANGED <<readervars, requests, callhistory, disturbed>>
  /\ UNCHANGED <<shown, selected, value, should_read, can, answers, nodevars>>

\* _draw_setup up to the reading: the refresh button and the two combo boxes.
UiSetup ==
  /\ call = NoObject
  /\ ui = Len(About) + 1
  /\ \E o \in Param, refresh \in BOOLEAN :
       /\ selected' = o
       /\ should_read' = (should_read \/ refresh \/ o # selected)
       /\ IF should_read'
          THEN Begin(o) /\ UNCHANGED ui
          ELSE ui' = ui + 1 /\ UNCHANGED <<readervars, requests, callhistory, disturbed>>
  /\ UNCHANGED <<shown, value, can, answers, nodevars>>

\* ... and the rest: a value is entered, or the default one restored; either
\* way the object is read again in the next frame.
UiEdit ==
  /\ call = NoObject
  /\ ui = Len(About) + 2
  /\ ui' = 1
  /\ \/ UNCHANGED <<should_read, requests>>
     \/ /\ value # NoData
        /\ \E data \in Data : Sent([kind |-> "write", object |-> selected, data |-> data])
        /\ should_read' = TRUE
     \/ /\ Sent([kind |-> "restore", object |-> selected])
        /\ should_read' = TRUE
  /\ UNCHANGED <<shown, selected, value, readervars, can, answers, nodevars, callhistory, disturbed>>

\* Server::read_string and the others return what get() found, and the reader
\* is gone, wherever the CAN thread is.
Return ==
  /\ IF call \in Param
     THEN value' = result /\ should_read' = FALSE /\ UNCHANGED shown
     ELSE /\ shown' = [shown EXCEPT ![call] =
                         IF result = NoData THEN NotThere
                         ELSE IF call \in Texts THEN result ELSE <<result>>]
          /\ UNCHANGED <<value, should_read>>
  /\ ui' = ui + 1
  /\ call' = NoObject
  /\ can' = IF can = Idle THEN Idle ELSE [can EXCEPT !.mine = FALSE]
  /\ disturbed' = disturbed \cup
                    (IF (ready /\ can = Idle) \/ call \in Missing THEN {} ELSE {call} \cap Texts)
  /\ charbuf' = << >>
  /\ result' = NoData
  /\ ready' = FALSE
  /\ stale' = FALSE
  /\ acks' = FALSE
  /\ refused' = FALSE
  /\ UNCHANGED <<selected, requests, answers, nodevars>>

\* get() sees _ready ...
UiReturns == call # NoObject /\ ready /\ Return

\* ... or the timeout passes, and it is told to terminate.
UiGivesUp == call # NoObject /\ ~ready /\ Return

UiStep == UiRefresh \/ UiAbout \/ UiSetup \/ UiEdit \/ UiReturns \/ UiGivesUp

-----------------------------------------------------------------------------
(* The CAN thread: ServerSdoService::handle_frame walks the subscribers.   *)

\* Mutant: an answer about any object will do.
ConcernsAny(answer) == call # NoObject /\ (call \in Texts => answer.kind = "read")

\* handle_sdo's first look: a string takes answers to reads only.
Concerns(answer) == call = answer.object /\ (call \in Texts => answer.kind = "read")

CanTakes ==
  /\ can = Idle
  /\ answers # << >>
  /\ answers' = Tail(answers)
  /\ can' = IF Concerns(Head(answers))
            THEN [at |-> "result", answer |-> Head(answers), mine |-> TRUE]
            ELSE Idle
  /\ UNCHANGED <<uivars, readervars, requests, nodevars, callhistory, disturbed>>

\* Readers of one class are put at one place of the stack.
SamePlace(o) ==
  \/ o \in Texts /\ call \in Texts
  \/ o \in Numbers /\ call \in Numbers
  \/ o \in Param /\ call \in Param

Ends(o, piece) == piece = Pieces[o]

\* What handle_sdo stores first: the piece and, with the terminator, _result;
\* or the value.
StoreResult(answer) ==
  IF answer.object \in Texts
  THEN /\ charbuf' = Append(charbuf, answer.data)
       /\ result' = IF Ends(answer.object, answer.data) /\ result = NoData
                    THEN Text(answer.object, charbuf') ELSE result
  ELSE /\ result' = IF answer.kind = "read" THEN answer.data ELSE result
       /\ UNCHANGED charbuf

\* ... and last: _ready.
StoreReady(answer) ==
  ready' = (ready \/ answer.object \notin Texts \/ Ends(answer.object, answer.data))

\* Mutant: _ready is set before _result.
CanReadyFirst ==
  /\ can # Idle
  /\ can.at = "result"
  /\ \/ can.mine /\ StoreReady(can.answer)
     \/ ~can.mine /\ SamePlace(can.answer.object) /\ StoreReady(can.answer)
     \/ ~can.mine /\ UNCHANGED ready
  /\ can' = [can EXCEPT !.at = "ready"]
  /\ refused' = (refused \/ can.answer.kind = "abort")
  /\ UNCHANGED <<uivars, call, charbuf, result, requests, answers, nodevars, stale, acks, disturbed>>

CanResult ==
  /\ can # Idle
  /\ can.at = "result"
  /\ \/ can.mine /\ StoreResult(can.answer)
     \/ ~can.mine /\ SamePlace(can.answer.object) /\ StoreResult(can.answer)
     \/ ~can.mine /\ UNCHANGED <<charbuf, result>>
  /\ can' = [can EXCEPT !.at = "ready"]
  /\ refused' = (refused \/ can.answer.kind = "abort")
  /\ UNCHANGED <<uivars, call, ready, requests, answers, nodevars, stale, acks, disturbed>>

CanReady ==
  /\ can # Idle
  /\ can.at = "ready"
  /\ \/ can.mine /\ StoreReady(can.answer)
     \/ ~can.mine /\ SamePlace(can.answer.object) /\ StoreReady(can.answer)
     \/ ~can.mine /\ UNCHANGED ready
  /\ can' = IF can.answer.object \in Texts THEN [can EXCEPT !.at = "ask"] ELSE Idle
  /\ UNCHANGED <<uivars, call, charbuf, result, requests, answers, nodevars, callhistory, disturbed>>

\* Mutant: the next piece is asked for after the last one, too.
CanAsksOn ==
  /\ can # Idle
  /\ can.at = "ask"
  /\ Sent([kind |-> "read", object |-> can.answer.object])
  /\ can' = Idle
  /\ UNCHANGED <<uivars, readervars, answers, nodevars, callhistory, disturbed>>

\* A string that has not ended is asked for its next piece.
CanAsk ==
  /\ can # Idle
  /\ can.at = "ask"
  /\ \/ /\ IF can.mine THEN ~ready ELSE TRUE
        /\ \E o \in {can.answer.object} \cup (IF can.mine THEN {} ELSE {call} \cap (Texts \ Missing)) :
             Sent([kind |-> "read", object |-> o])
     \/ (can.mine => ready) /\ UNCHANGED requests
  /\ can' = Idle
  /\ UNCHANGED <<uivars, readervars, answers, nodevars, callhistory, disturbed>>

CanStep == CanTakes \/ CanResult \/ CanReady \/ CanAsk

-----------------------------------------------------------------------------
(* The node: it takes requests in turn, and refuses what it likes.         *)

\* An answer is put on the bus, and may be lost.
Answered(answer) ==
  \/ answers' = answers
  \/ answers' = Append(answers, answer)

Refuse(o) == Answered([kind |-> "abort", object |-> o, data |-> NoData]) /\ UNCHANGED nodevars

NodeReads(o) ==
  IF o \in Texts
  THEN /\ Answered([kind |-> "read", object |-> o, data |-> cursor[o]])
       /\ cursor' = [cursor EXCEPT ![o] = IF Ends(o, @) THEN 1 ELSE @ + 1]
       /\ UNCHANGED held
  ELSE /\ Answered([kind |-> "read", object |-> o, data |-> held[o]])
       /\ UNCHANGED nodevars

NodeWrites(o, data) ==
  /\ Answered([kind |-> "write", object |-> o, data |-> NoData])
  /\ held' = [held EXCEPT ![o] = data]
  /\ UNCHANGED cursor

\* restore_default_parameter: the answer is about another object.
NodeRestores(o) ==
  /\ held' \in {held, [held EXCEPT ![o] = Default]}
  /\ UNCHANGED <<answers, cursor>>

NodeStep ==
  /\ requests # << >>
  /\ requests' = Tail(requests)
  /\ LET request == Head(requests) IN
       CASE request.kind = "read" -> NodeReads(request.object) \/ Refuse(request.object)
         [] request.kind = "write" -> NodeWrites(request.object, request.data) \/ Refuse(request.object)
         [] request.kind = "restore" -> NodeRestores(request.object)
  /\ UNCHANGED <<uivars, readervars, can, callhistory, disturbed>>

ReadersNext == UiStep \/ CanStep \/ NodeStep

ReadersSpec == ReadersInit /\ [][ReadersNext]_readersvars
-----------------------------------------------------------------------------
\* A string that is shown is the node's: not a part of it, nor pieces of two
\* answers mixed, unless a call for it gave up half way or was cut short with the
\* CAN thread in its reader and none has begun afresh since: on the string's
\* beginning, with nothing of the former call on the bus or in the CAN thread's
\* hands.
WholeString ==
  \A o \in Texts \ disturbed : shown[o] \in {Nothing, NotThere, Whole(o)}

\* The value shown after a read is the one the node has now that it carried out
\* what was written before, unless an earlier read of the object was still
\* under way when the call began, or the CAN thread was still in a former reader.
ParamIsCurrent ==
  [][ (call \in Param /\ call' = NoObject /\ value' # NoData /\ ~stale)
        => value' = held[selected] ]_readersvars

\* A call that was answered comes back with a value, unless the node refused
\* it, or the answer was one to an earlier request: the acknowledgement of the
\* write the value is read back after, say.
NothingForAReason ==
  [][ (call # NoObject /\ call' = NoObject /\ ready /\ result = NoData)
        => (refused \/ acks \/ stale \/ call \in Missing \cup disturbed') ]_readersvars
=============================================================================

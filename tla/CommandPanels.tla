---------------------------- MODULE CommandPanels ----------------------------
(***************************************************************************)
(* The command panels of the other devices and the creators of their       *)
(* RPDOs.  All are made one way: a panel keeps switches, references and    *)
(* the mode they belong to, and at the end of a frame of the UI thread     *)
(* _update_refs stores them into the server's atomics one by one, from     *)
(* which the CAN thread's creators load them one by one.  What tells the   *)
(* devices apart is in the tables: what is stored in which order, which    *)
(* RPDO carries what, what a mode has of its own, what goes in trouble.    *)
(*                                                                         *)
(* A reference is off (zero) or on.  What no other part depends on         *)
(* (power, emergency, the control loop's references) is left out.  A       *)
(* window that is closed is not drawn; nothing here makes the UI draw.     *)
(* Nor does anything here make the CAN thread send or yield, so the        *)
(* options window's switch of the service as a whole adds nothing.         *)
(***************************************************************************)
EXTENDS Naturals, Sequences

\* Of the panels made alike one stands for all: "sevpress" for the two of the
\* ADPT inverters as well.
Device == {"cshpp", "chss", "shm80", "sevpress", "psfb", "loco", "srmdrive", "brkdrive"}

\* The h2-hess panels command only when told to: their RPDOs are off at first.
Guest == {"cshpp", "chss"}

VARIABLES
  device,       \* whose panel it is
  picked,       \* _mode_v, _ctlmode_v: the radio button
  drawn_mode,   \* _mode, _ctlmode: the mode of the last frame
  working,      \* _opmode is the one whose widgets are drawn
  lit,          \* the switches that are on, the references that are not zero
  cells,        \* the server's atomics: the mode and what is on
  trouble,      \* TPDO1 is missing, or the node reports an error
  master,       \* CSHPP's heartbeat is good
  aired,        \* the RPDOs that are enabled
  draw,         \* where the UI thread is
  frame,        \* where the CAN thread is, with the frame at hand
  bus_mode,     \* the mode of the last frame sent that carries one
  anew,         \* history: set by the operator since it last had to be given up
  asked         \* history: the operator has the commands switched on

cmdvars == <<device, picked, drawn_mode, working, lit, cells, trouble, master, aired, draw,
             frame, bus_mode, anew, asked>>
nodevars == <<trouble, master>>
sendvars == <<frame, bus_mode>>

-----------------------------------------------------------------------------
(* _update_refs: what is stored, in this order, and what goes in trouble.  *)

CshppUpdate == [stores |-> <<"mode", "valve", "contactor">>, cleared |-> {"valve", "contactor"}]
ChssUpdate == [stores |-> <<"mode", "inlet", "outlet">>, cleared |-> {"inlet", "outlet"}]
Shm80Update == [stores |-> <<"start", "mode", "torque", "speed">>, cleared |-> {"start"}]
\* Its speed is as its torque.
SevpressUpdate == [stores |-> <<"start", "mode", "torque", "angle">>, cleared |-> {"start"}]
PsfbUpdate == [stores |-> <<"start", "overlap">>, cleared |-> {"start"}]
LocoUpdate == [stores |-> <<"start", "mode", "torque", "speed">>, cleared |-> {}]
\* It stores while it draws.
SrmdriveUpdate == [stores |-> <<"start", "torque", "speed", "mode">>, cleared |-> {}]
\* The one cell cmd_opstatus is both: "operable" the start, "calibrating".
BrkdriveUpdate == [stores |-> <<"status", "mode", "torque", "speed">>, cleared |-> {"start"}]

Update == [cshpp |-> CshppUpdate, chss |-> ChssUpdate, shm80 |-> Shm80Update,
           sevpress |-> SevpressUpdate, psfb |-> PsfbUpdate, loco |-> LocoUpdate,
           srmdrive |-> SrmdriveUpdate, brkdrive |-> BrkdriveUpdate]

Stores == Update[device].stores
Cleared == Update[device].cleared

(* The creators: what each RPDO carries, in the order it is loaded.        *)

CshppFrames == << <<"mode">>, <<"valve">>, <<"contactor">> >>
ChssFrames == << <<"mode", "inlet", "outlet">> >>
Shm80Frames == << <<"start", "mode", "torque", "speed">> >>
SevpressFrames == << <<"start", "mode", "torque">>, <<"angle">> >>
PsfbFrames == << <<"start", "overlap">> >>
LocoFrames == << <<"start", "mode", "torque", "speed">> >>
SrmdriveFrames == << <<"start", "mode", "torque", "speed">> >>
BrkdriveFrames == << <<"status">>, <<"mode", "torque", "speed">> >>

Frames ==
  [cshpp |-> CshppFrames, chss |-> ChssFrames, shm80 |-> Shm80Frames,
   sevpress |-> SevpressFrames, psfb |-> PsfbFrames, loco |-> LocoFrames,
   srmdrive |-> SrmdriveFrames, brkdrive |-> BrkdriveFrames][device]

(* The modes, the first one first, and the mode a reference belongs to.    *)

CshppModes == [first |-> "idle", of |-> [valve |-> "purge", contactor |-> "purge"]]
ChssModes == [first |-> "storage", of |-> [inlet |-> "purge", outlet |-> "purge"]]
DriveModes == [first |-> "torque", of |-> [torque |-> "torque", speed |-> "speed"]]
SevpressModes == [first |-> "torque", of |-> [torque |-> "torque", angle |-> "angle"]]
PsfbModes == [first |-> "-", of |-> << >>]

Modes ==
  CASE device = "cshpp" -> CshppModes
    [] device = "chss" -> ChssModes
    [] device = "sevpress" -> SevpressModes
    [] device = "psfb" -> PsfbModes
    [] OTHER -> DriveModes

ModeOf == Modes.of
Bound == DOMAIN ModeOf
Pickable == {Modes.first} \cup {ModeOf[ref] : ref \in Bound}

-----------------------------------------------------------------------------
\* Between two frames of the UI; a click is a press and a release, which ImGui
\* takes in two frames: after one comes a frame without.
Resting(clicked) == [at |-> "rest", clicked |-> clicked]
Silent == [at |-> "out"]

\* commanding: RPDO1 stands for the three of CSHPP.
InCommand == 1 \in aired

CommandInit ==
  /\ device \in Device
  /\ picked = Modes.first
  /\ drawn_mode = Modes.first
  /\ working = (device # "brkdrive")
  /\ lit = {}
  /\ cells = [mode |-> Modes.first, on |-> {}]
  /\ trouble = FALSE
  /\ master = FALSE
  /\ aired = IF device \in Guest THEN {} ELSE DOMAIN Frames
  /\ draw = Resting(FALSE)
  /\ frame = Silent
  /\ bus_mode = Modes.first
  /\ anew = {}
  /\ asked = (device \notin Guest)

-----------------------------------------------------------------------------
(* The widgets of a frame; the operator uses one at most.                  *)

\* The widgets that set the references are drawn.
WidgetsDrawn == device \notin {"shm80", "loco", "brkdrive"} \/ working

\* Mutant: a reference outlives its mode.
NothingOutside(ref, pick) == FALSE

\* A reference whose mode is not the one drawn is zeroed with its widget.
\* The SRM drive's radio buttons count at once, speed's drawn after torque.
Outside(ref, pick) ==
  IF device = "srmdrive" THEN ModeOf[ref] # pick /\ (ref = "torque" => picked = "speed")
  ELSE ModeOf[ref] # drawn_mode

\* What the widgets leave of what is on, with this radio button picked.
Drawn(on, pick) ==
  IF device \in Guest \/ ~WidgetsDrawn THEN on
  ELSE {switch \in on : switch \in Bound => ~Outside(switch, pick)}

Rest(clicked) ==
  /\ draw' = [at |-> "update", clicked |-> clicked]
  /\ UNCHANGED <<device, drawn_mode, cells, nodevars, aired, sendvars>>

DrawIdle ==
  /\ draw.at = "rest"
  /\ lit' = Drawn(lit, picked)
  /\ Rest(FALSE)
  /\ UNCHANGED <<picked, working, anew, asked>>

\* A radio button: the mode's references are to be set anew.
DrawPick(mode) ==
  /\ draw = Resting(FALSE)
  /\ IF device \in Guest THEN InCommand ELSE WidgetsDrawn
  /\ picked' = mode
  /\ lit' = Drawn(lit, mode)
  /\ anew' = IF mode = picked THEN anew ELSE {switch \in anew : switch \in Bound => ModeOf[switch] # mode}
  /\ Rest(TRUE)
  /\ UNCHANGED <<working, asked>>

\* What may be switched or entered: references in their mode, the test of the
\* loco drive's phases in any; the start (F4) always.
Offered ==
  IF device \in Guest
  THEN {ref \in Bound : InCommand /\ drawn_mode = ModeOf[ref]}
  ELSE {"start"}
         \cup (IF WidgetsDrawn THEN {ref \in Bound : ModeOf[ref] = drawn_mode} ELSE {})
         \cup (CASE device = "psfb" -> {"overlap"}
                 [] device = "brkdrive" /\ ~working -> {"calibrate"}
                 [] device = "loco" /\ ~working -> {"torque"}
                 [] OTHER -> {})

DrawSwitch(switch) ==
  /\ draw.at = "rest"
  /\ lit' = Drawn(IF switch \in lit THEN lit \ {switch} ELSE lit \cup {switch}, picked)
  /\ anew' = IF switch \in lit THEN anew ELSE anew \cup {switch}
  /\ Rest(FALSE)
  /\ UNCHANGED <<picked, working, asked>>

\* The choice of the operating mode resets the references and the start.
DrawOpmode ==
  /\ draw.at = "rest"
  /\ device \in {"shm80", "loco", "brkdrive"}
  /\ working' = ~working
  /\ lit' = {}
  /\ Rest(FALSE)
  /\ UNCHANGED <<picked, anew, asked>>

\* "Command ...": set_commanding switches the RPDOs one by one.
DrawCommanding ==
  /\ draw.at = "rest"
  /\ device \in Guest
  /\ device = "chss" => ~master
  /\ draw' = [at |-> "switch", to |-> ~InCommand, rpdo |-> 1]
  /\ asked' = TRUE
  /\ UNCHANGED <<device, picked, drawn_mode, working, lit, cells, nodevars, aired, sendvars, anew>>

\* Mutant: switching an RPDO does not wait for the service's mutex.
NotWaiting == TRUE

\* The service's mutex is held while a frame is made and sent.
MutexFree == frame = Silent

\* ... each under the mutex; an interlocked one is not switched on.
UiSwitch ==
  /\ draw.at = "switch"
  /\ MutexFree
  /\ aired' = CASE ~draw.to -> aired \ {draw.rpdo}
                [] draw.to /\ ~master -> aired \cup {draw.rpdo}
                [] OTHER -> aired
  /\ IF draw.rpdo < Len(Frames)
     THEN draw' = [draw EXCEPT !.rpdo = @ + 1] /\ UNCHANGED asked
     ELSE draw' = [at |-> "update", clicked |-> FALSE] /\ asked' = draw.to
  /\ UNCHANGED <<device, picked, drawn_mode, working, lit, cells, nodevars, sendvars, anew>>

-----------------------------------------------------------------------------
(* _update_refs.                                                           *)

\* What goes: in trouble the start or the levels, and levels outside their mode.
InTrouble == IF trouble THEN Cleared ELSE {}
OutOfMode == IF device \in Guest THEN {ref \in Bound : ModeOf[ref] # picked} ELSE {}

\* Mutants: trouble is not looked at; manual levels outlive the purge.
ModeOnly == OutOfMode
TroubleOnly == InTrouble

Goes == InTrouble \cup OutOfMode

UiRefs ==
  /\ draw.at = "update"
  /\ drawn_mode' = picked
  /\ lit' = lit \ Goes
  /\ draw' = [at |-> "store", clicked |-> draw.clicked, next |-> 1, gone |-> InTrouble]
  /\ UNCHANGED <<device, picked, working, cells, nodevars, aired, sendvars, anew, asked>>

\* cmd_opstatus keeps its value while both are switched on.
StoredStatus ==
  IF {"start", "calibrate"} \subseteq lit THEN cells.on
  ELSE (cells.on \ {"start", "calibrate"}) \cup (lit \cap {"start", "calibrate"})

UiStoreCell ==
  /\ draw.at = "store"
  /\ LET cell == Stores[draw.next] IN
       cells' = CASE cell = "mode" -> [cells EXCEPT !.mode = drawn_mode]
                  [] cell = "status" -> [cells EXCEPT !.on = StoredStatus]
                  [] OTHER -> [cells EXCEPT !.on = (@ \ {cell}) \cup (lit \cap {cell})]
  /\ IF draw.next < Len(Stores)
     THEN draw' = [draw EXCEPT !.next = @ + 1] /\ UNCHANGED anew
     ELSE draw' = Resting(draw.clicked) /\ anew' = anew \ draw.gone
  /\ UNCHANGED <<device, picked, drawn_mode, working, lit, nodevars, aired, sendvars, asked>>

UiDraws ==
  \/ DrawIdle \/ DrawOpmode \/ DrawCommanding \/ UiSwitch \/ UiRefs \/ UiStoreCell
  \/ (\E mode \in Pickable : DrawPick(mode))
  \/ (\E switch \in Offered : DrawSwitch(switch))

-----------------------------------------------------------------------------
(* The CAN thread.                                                         *)

\* send finds an RPDO due and calls its creator.
CanMake(rpdo) ==
  /\ frame = Silent
  /\ rpdo \in aired
  /\ ~master
  /\ frame' = [at |-> "load", rpdo |-> rpdo, next |-> 1, mode |-> bus_mode, old |-> {}]
  /\ UNCHANGED <<device, picked, drawn_mode, working, lit, cells, nodevars, aired, draw, bus_mode,
                 anew, asked>>

Loaded == frame.at = "load" /\ frame.next > Len(Frames[frame.rpdo])

\* The creator loads one cell after the other.
CanLoadCell ==
  /\ frame.at = "load"
  /\ ~Loaded
  /\ LET cell == Frames[frame.rpdo][frame.next] IN
       frame' = [frame EXCEPT
                   !.next = @ + 1,
                   !.mode = IF cell = "mode" THEN cells.mode ELSE @,
                   !.old = @ \cup (({cell} \cap cells.on \cap Bound) \ anew)]
  /\ UNCHANGED <<device, picked, drawn_mode, working, lit, cells, nodevars, aired, draw, bus_mode,
                 anew, asked>>

CanSendFrame ==
  /\ Loaded
  /\ bus_mode' = frame.mode
  /\ frame' = Silent
  /\ UNCHANGED <<device, picked, drawn_mode, working, lit, cells, nodevars, aired, draw, anew, asked>>

\* CHSS's commands are interlocked: send switches them off while CSHPP is heard.
CanYield ==
  /\ frame = Silent
  /\ master
  /\ InCommand
  /\ aired' = {}
  /\ asked' = FALSE
  /\ UNCHANGED <<device, picked, drawn_mode, working, lit, cells, nodevars, draw, sendvars, anew>>

\* A TPDO1 that comes, or does not, and the errors it tells of.
NodeChanges ==
  /\ trouble' = ~trouble
  /\ UNCHANGED <<device, picked, drawn_mode, working, lit, cells, master, aired, draw, sendvars,
                 anew, asked>>

MasterChanges ==
  /\ device = "chss"
  /\ frame = Silent
  /\ master' = ~master
  /\ UNCHANGED <<device, picked, drawn_mode, working, lit, cells, trouble, aired, draw, sendvars,
                 anew, asked>>

CommandNext ==
  \/ UiDraws
  \/ (\E rpdo \in DOMAIN Frames : CanMake(rpdo)) \/ CanLoadCell \/ CanSendFrame
  \/ CanYield \/ NodeChanges \/ MasterChanges

CommandSpec == CommandInit /\ [][CommandNext]_cmdvars
-----------------------------------------------------------------------------
\* A start or a level that was on when the panel was drawn in trouble is off in
\* the cells from the end of that frame until the operator sets it anew, though
\* the trouble may be over by then and others are drawn.
OldSwitchesStayOff == cells.on \cap Cleared \subseteq anew

\* A mode begins with references of zero and levels off: with the mode, or
\* after it in an RPDO of its own, none goes out that the operator has not set
\* since he picked the mode, however cells are stored while others are loaded.
ModeBeginsAtZero == Loaded => \A ref \in frame.old : ModeOf[ref] # frame.mode

\* "A monitor started on a bus with the station must not break into it with a
\* single frame": the RPDOs of CSHPP and CHSS go out only between the operator
\* switching them on and the end of set_commanding(false), or the interlock.
NotASingleFrame == frame.at = "load" => asked
=============================================================================

------------------------------- MODULE PduPanel -------------------------------
(***************************************************************************)
(* The PDU's control panel over its RPDO1: what the operator sets on the   *)
(* panel, how it gets to the server's _rpdo1, and what the CAN thread      *)
(* packs into the frames it sends.                                         *)
(*                                                                         *)
(* The UI thread draws the panel once a frame: it reads the keyboard, then *)
(* the widgets, and at the end stores the panel's references into _rpdo1   *)
(* cell by cell.  The CAN thread loads the cells one by one (each is an    *)
(* atomic, the command as a whole is not), holding the service's _mtx but  *)
(* no lock the stores would wait for.                                      *)
(***************************************************************************)
EXTENDS RpdoInterlock, Sequences

CONSTANTS
  Command,      \* CobRpdo::rpdo1, the RPDO that carries the commands
  Mode,         \* the modes of the radio buttons
  idle, purge,  \* the mode at the start, and the one that obeys manual levels
  Contactor,    \* the contactors with a manual level
  Contactors    \* the same in the order of _update_refs

ASSUME PanelAssumption ==
  /\ Command \in Interlocked
  /\ Contactors \in Seq(Contactor)
  /\ \A contactor \in Contactor : \E i \in DOMAIN Contactors : Contactors[i] = contactor
  /\ Contactor \cap {"mode", "inverter"} = {}
  /\ {idle, purge} \subseteq Mode
  /\ idle # purge

VARIABLES
  opened,   \* View::_opened
  mode_v,   \* _mode_v, the radio button
  mode,     \* _mode, the radio button as of the end of the last frame
  refs,     \* the levels that are on: _inverter_request, _fuelcell_main, ...
  rpdo1,    \* the server's _rpdo1: the mode, and the levels that are on
  link,     \* what TPDO1 tells: "good", "lost" (too old) or "fault"
  ui,       \* where the UI thread stands
  can,      \* where the CAN thread stands
  noticed,  \* bounded history: UI frames ended since the link was last good
  skipped,  \* history: no frame was drawn, the window being closed, after the link went bad
  stale,    \* history: levels that were on when the link went bad
  revived   \* history: the last frame sent since the link is good had a stale level

panelvars == <<rpdovars, opened, mode_v, mode, refs, rpdo1, link, ui, can, noticed, skipped, stale, revived>>
refvars == <<mode_v, mode, refs>>
linkvars == <<link, noticed, skipped, stale>>

Level == Contactor \cup {"inverter"}

\* The cells of _rpdo1 in the order _update_refs stores and _create_rpdo1
\* loads them.
Cells == <<"mode", "inverter">> \o Contactors

Idle == [at |-> "idle"]
Commanding == Command \in enabled

\* The service's _mtx is held while the creator runs.
Unlocked == can.at # "create"

PanelInit ==
  /\ RpdoInit
  /\ opened = TRUE
  /\ mode_v = idle
  /\ mode = idle
  /\ refs = {}
  /\ rpdo1 = [mode |-> idle, on |-> {}]
  /\ link = "good"
  /\ ui = Idle
  /\ can = Idle
  /\ noticed = 0
  /\ skipped = FALSE
  /\ stale = {}
  /\ revived = FALSE

Toggled(level) == IF level \in refs THEN refs \ {level} ELSE refs \cup {level}

-----------------------------------------------------------------------------
(* A frame of the UI thread.                                               *)

\* _read_keyboard: F3 counts only while commanding.
UiKeyboard(f3) ==
  /\ ui = Idle
  /\ opened
  /\ ui' = [at |-> "toggle", f3 |-> f3 /\ Commanding]
  /\ UNCHANGED <<rpdovars, opened, refvars, rpdo1, linkvars, can, revived>>

\* ... and toggles the request; then _draw_controls looks who commands.
UiToggle ==
  /\ ui.at = "toggle"
  /\ refs' = IF ui.f3 THEN Toggled("inverter") ELSE refs
  /\ stale' = IF ui.f3 THEN stale \ {"inverter"} ELSE stale
  /\ ui' = [at |-> "controls", commanding |-> Commanding, heard |-> Heard]
  /\ UNCHANGED <<rpdovars, opened, mode_v, mode, rpdo1, link, noticed, skipped, can, revived>>

\* The widgets of _draw_controls: the operator clicks one at most per frame.
Clicked ==
  \/ UNCHANGED <<rpdovars, mode_v, refs, stale>>
  \/ /\ ~ui.heard
     /\ Unlocked
     /\ IF ui.commanding THEN Disable(Command) ELSE Enable(Command)
     /\ UNCHANGED <<mode_v, refs, stale>>
  \/ /\ ui.commanding
     /\ mode_v' \in Mode
     /\ UNCHANGED <<rpdovars, refs, stale>>
  \/ /\ ui.commanding
     /\ \E level \in (IF mode = purge THEN Level ELSE {"inverter"}) :
          /\ refs' = Toggled(level)
          /\ stale' = stale \ {level}
     /\ UNCHANGED <<rpdovars, mode_v>>

UiControls ==
  /\ ui.at = "controls"
  /\ Clicked
  /\ ui' = [at |-> "update"]
  /\ UNCHANGED <<opened, mode, rpdo1, link, noticed, skipped, can, revived>>

\* Mutant: a fault is not looked at.
UiUpdateIgnoresFault ==
  /\ ui.at = "update"
  /\ mode' = mode_v
  /\ refs' = (IF link = "lost" THEN {} ELSE refs) \ (IF mode_v = purge THEN {} ELSE Contactor)
  /\ ui' = [at |-> "store", cell |-> 1]
  /\ UNCHANGED <<rpdovars, opened, mode_v, rpdo1, linkvars, can, revived>>

\* Mutant: manual levels outlive the purge.
UiUpdateKeepsManual ==
  /\ ui.at = "update"
  /\ mode' = mode_v
  /\ refs' = IF link = "good" THEN refs ELSE {}
  /\ ui' = [at |-> "store", cell |-> 1]
  /\ UNCHANGED <<rpdovars, opened, mode_v, rpdo1, linkvars, can, revived>>

\* _update_refs: the levels go when the node is lost or in trouble, and the
\* manual ones outside the purge ...
UiUpdate ==
  /\ ui.at = "update"
  /\ mode' = mode_v
  /\ refs' = (IF link = "good" THEN refs ELSE {}) \ (IF mode_v = purge THEN {} ELSE Contactor)
  /\ ui' = [at |-> "store", cell |-> 1]
  /\ UNCHANGED <<rpdovars, opened, mode_v, rpdo1, linkvars, can, revived>>

\* The panel has been drawn; two frames are enough for one to have begun after
\* the link was lost.
FrameEnds == noticed' = IF noticed < 2 THEN noticed + 1 ELSE 2

\* ... then the cells are stored one by one.
UiStore ==
  /\ ui.at = "store"
  /\ LET cell == Cells[ui.cell] IN
       /\ rpdo1' = CASE cell = "mode" -> [rpdo1 EXCEPT !.mode = mode]
                     [] cell # "mode" /\ cell \in refs -> [rpdo1 EXCEPT !.on = @ \cup {cell}]
                     [] OTHER -> [rpdo1 EXCEPT !.on = @ \ {cell}]
       /\ stale' = IF cell \in refs THEN stale ELSE stale \ {cell}
  /\ IF ui.cell < Len(Cells)
     THEN ui' = [ui EXCEPT !.cell = @ + 1] /\ UNCHANGED noticed
     ELSE ui' = Idle /\ FrameEnds
  /\ UNCHANGED <<rpdovars, opened, refvars, link, skipped, can, revived>>

\* A frame of MainView::draw with the panel's window closed: nothing of it runs.
UiSkip ==
  /\ ui = Idle
  /\ ~opened
  /\ noticed < 2
  /\ FrameEnds
  /\ skipped' = (skipped \/ (link # "good" /\ noticed = 1))
  /\ UNCHANGED <<rpdovars, opened, refvars, rpdo1, link, stale, ui, can, revived>>

\* The window's close button, and the menu of panels.
UiWindow ==
  /\ ui = Idle
  /\ opened' = ~opened
  /\ UNCHANGED <<rpdovars, refvars, rpdo1, linkvars, ui, can, revived>>

\* The options window's switch of the RPDO service as a whole.  Neither the panel
\* nor the creator looks at it, so a click that falls into the creator is as one
\* right after the frame it creates.
UiSwitchAll ==
  /\ ui = Idle
  /\ can = Idle
  /\ SwitchAll
  /\ UNCHANGED <<opened, refvars, rpdo1, linkvars, ui, can, revived>>

UiFrame == (\E f3 \in BOOLEAN : UiKeyboard(f3)) \/ UiToggle \/ UiControls \/ UiUpdate \/ UiStore \/ UiSkip

-----------------------------------------------------------------------------
(* The CAN thread.                                                         *)

\* ServerRpdoService::send finds the command due and calls its creator.
CanCreate ==
  /\ can = Idle
  /\ service_enabled
  /\ Commanding
  /\ ~Engaged(Command)
  /\ Command \in due
  /\ can' = [at |-> "create", mode |-> idle, on |-> {}, old |-> {}, cell |-> 1]
  /\ UNCHANGED <<rpdovars, opened, refvars, rpdo1, linkvars, ui, revived>>

\* _create_rpdo1 loads one cell after the other.
CanLoad ==
  /\ can.at = "create"
  /\ can.cell <= Len(Cells)
  /\ LET cell == Cells[can.cell] IN
       can' = [can EXCEPT !.cell = @ + 1,
                          !.mode = IF cell = "mode" THEN rpdo1.mode ELSE @,
                          !.on = IF cell \in rpdo1.on THEN @ \cup {cell} ELSE @,
                          !.old = IF cell \in rpdo1.on \cap stale THEN @ \cup {cell} ELSE @]
  /\ UNCHANGED <<rpdovars, opened, refvars, rpdo1, linkvars, ui, revived>>

CanSend ==
  /\ can.at = "create"
  /\ can.cell > Len(Cells)
  /\ Send
  /\ revived' = (link = "good" /\ can.old # {})
  /\ can' = Idle
  /\ UNCHANGED <<opened, refvars, rpdo1, linkvars, ui>>

\* A turn in which no command goes out.
CanTurn ==
  /\ can = Idle
  /\ Send
  /\ Command \notin sent'
  /\ UNCHANGED <<opened, refvars, rpdo1, linkvars, ui, can, revived>>

CanHeartbeat ==
  /\ can = Idle
  /\ \E state \in BOOLEAN : Heartbeat(state)
  /\ UNCHANGED <<opened, refvars, rpdo1, linkvars, ui, can, revived>>

LinkGoesBad(how) ==
  /\ link' = how
  /\ noticed' = IF link = "good" THEN 0 ELSE noticed
  /\ skipped' = (link # "good" /\ skipped)
  /\ stale' = IF link = "good" THEN rpdo1.on \cup refs ELSE stale
  /\ revived' = (link # "good" /\ revived)

\* ServerTpdoService::handle_frame, TPDO1: the node is well again, but for
\* less than a frame of the UI it was not ill.
CanTpdo1 ==
  /\ can = Idle
  /\ \/ link # "good" /\ noticed = 2 /\ link' = "good" /\ UNCHANGED <<noticed, skipped, stale, revived>>
     \/ link # "fault" /\ LinkGoesBad("fault")
  /\ UNCHANGED <<rpdovars, opened, refvars, rpdo1, ui, can>>

\* TPDO1 has not come for longer than its timeout.
LinkExpires ==
  /\ link = "good"
  /\ LinkGoesBad("lost")
  /\ UNCHANGED <<rpdovars, opened, refvars, rpdo1, ui, can>>

Clock ==
  /\ HeartbeatExpires \/ \E rpdo \in Rpdo : PeriodPasses(rpdo)
  /\ UNCHANGED <<opened, refvars, rpdo1, linkvars, ui, can, revived>>

PanelNext ==
  \/ UiFrame \/ UiWindow \/ UiSwitchAll
  \/ CanCreate \/ CanLoad \/ CanSend \/ CanTurn \/ CanHeartbeat \/ CanTpdo1
  \/ LinkExpires \/ Clock

PanelSafeSpec == PanelInit /\ [][PanelNext]_panelvars

\* The main loop draws frame after frame.
PanelSpec == PanelSafeSpec /\ WF_panelvars(UiFrame)
-----------------------------------------------------------------------------
\* "The levels are reset, so that the return of the link does not give an old
\* command": once the node was lost or in trouble, no frame sent after its
\* return carries a level the operator has not set since.
OldCommandNotRevived == ~revived

\* It is so if the panel was drawn while the node was lost or in trouble,
\* wherever the link fell into the frame and whenever the window was closed.
OldCommandGoneOnceDrawn == ~skipped => OldCommandNotRevived

\* "Manual levels count only in the purge; outside it they must not pile up":
\* whenever the purge begins in _rpdo1, it begins with every manual level off.
PurgeStartsOpen ==
  [][ (rpdo1.mode # purge /\ rpdo1'.mode = purge)
        => (rpdo1.on \cup rpdo1'.on) \cap Contactor = {} ]_panelvars

\* A node lost or in trouble is not commanded to stay connected: for as long
\* as that lasts, the levels go off, unless the window is closed.
TroubleClearsLevels == (link # "good") ~> (link = "good" \/ ~opened \/ rpdo1.on = {})
=============================================================================

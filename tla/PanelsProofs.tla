----------------------------- MODULE PanelsProofs -----------------------------
(***************************************************************************)
(* Proofs about the panels: RpdoInterlock and PduPanel, TestProgram, and   *)
(* CommandPanels.                                                          *)
(*                                                                         *)
(* An interlocked RPDO stays off once the master was heard, unless the     *)
(* service as a whole was off just then.  The panel, the creator and the   *)
(* threads implement RpdoInterlock, so what is proved of it holds of them; *)
(* the purge begins with every manual level off; and an old command is     *)
(* forgotten if the panel is drawn in the trouble, for any number of       *)
(* contactors.  StaysOffOnceSeen is not inductive: an RPDO may well be on  *)
(* after the master was heard.  It is on only until the next send, though, *)
(* and the master is still heard then, so send switches it off instead of  *)
(* sending it: that is SwitchedOffInTime.                                  *)
(*                                                                         *)
(* A test program is followed, for any files and durations: while it runs  *)
(* nothing but its rows is given, in their order and each for its time.    *)
(* RowsInTurn speaks of what was given and when, and get() looks only at   *)
(* the manager.  The invariant says that the two agree: as long as the     *)
(* manager's clock runs, the row it has come to is the one given last, and *)
(* since when (InStep); once the clock is stopped, a new round begins.     *)
(*                                                                         *)
(* On every device's panel no frame goes out unasked, an old switch stays  *)
(* off, and a mode begins at zero.  The first depends on where the UI is   *)
(* in switching the RPDOs (SingleInv), the second on which cells the store *)
(* under way has passed (OldInv).  The third holds for a simpler reason    *)
(* than it states: no old reference is ever in the cells (ModeInv).        *)
(***************************************************************************)
EXTENDS PduPanel, TestProgram, CommandPanels, SequenceTheorems, TLAPS

-----------------------------------------------------------------------------
(* The interlock.                                                          *)

SwitchedOffInTime ==
  (~missed /\ yielded \cap enabled # {}) => (service_enabled /\ Heard /\ ~turned)

RpdoInv ==
  /\ RpdoTypeOK
  /\ SwitchedOffInTime
  /\ StaysOffOnceSeen

\* The types hold in every state, whatever the operator switches: in
\* particular what send has put on the bus is on, and is not due again.
THEOREM RpdoTypeCorrect == RpdoSafeSpec => []RpdoTypeOK
<1>1. RpdoInit => RpdoTypeOK
  BY RpdoAssumption DEF RpdoInit, RpdoTypeOK
<1>2. RpdoTypeOK /\ [RpdoNext]_rpdovars => RpdoTypeOK'
  <2> SUFFICES ASSUME RpdoTypeOK, [RpdoNext]_rpdovars PROVE RpdoTypeOK'
    OBVIOUS
  <2> USE RpdoAssumption DEF RpdoTypeOK
  <2>1. CASE Send
    BY <2>1 DEF Send, Engaged, Heard
  <2>2. CASE \E state \in BOOLEAN : Heartbeat(state)
    BY <2>2 DEF Heartbeat, Heard
  <2>3. CASE HeartbeatExpires
    BY <2>3 DEF HeartbeatExpires
  <2>4. ASSUME NEW rpdo \in Rpdo, PeriodPasses(rpdo) PROVE RpdoTypeOK'
    BY <2>4 DEF PeriodPasses
  <2>5. ASSUME NEW rpdo \in Rpdo, Enable(rpdo) PROVE RpdoTypeOK'
    BY <2>5 DEF Enable
  <2>6. ASSUME NEW rpdo \in Rpdo, Disable(rpdo) PROVE RpdoTypeOK'
    BY <2>6 DEF Disable
  <2>7. CASE SwitchAll
    BY <2>7 DEF SwitchAll
  <2>8. CASE UNCHANGED rpdovars
    BY <2>8 DEF rpdovars
  <2> QED
    BY <2>1, <2>2, <2>3, <2>4, <2>5, <2>6, <2>7, <2>8 DEF RpdoNext
<1> QED
  BY <1>1, <1>2, PTL DEF RpdoSafeSpec

\* The strengthened invariant is inductive.
LEMMA RpdoInvariance == RpdoSafeSpec => []RpdoInv
<1>1. RpdoInit => RpdoInv
  BY RpdoAssumption DEF RpdoInit, RpdoInv, RpdoTypeOK, SwitchedOffInTime, StaysOffOnceSeen, CommandsStayOff
<1>2. RpdoInv /\ RpdoTypeOK' /\ [RpdoNext]_rpdovars => RpdoInv'
  <2> SUFFICES ASSUME RpdoInv, RpdoTypeOK', [RpdoNext]_rpdovars
               PROVE  SwitchedOffInTime' /\ StaysOffOnceSeen'
    BY DEF RpdoInv
  <2> USE RpdoAssumption DEF RpdoInv, RpdoTypeOK, SwitchedOffInTime, StaysOffOnceSeen, CommandsStayOff, Heard
  <2>1. CASE Send
    <3>1. (~missed /\ service_enabled) => enabled' \cap yielded = {}
      \* Were one of them on, the master would be heard and the RPDO engaged.
      BY <2>1 DEF Send, Engaged
    <3> QED
      BY <2>1, <3>1 DEF Send
  <2>2. ASSUME NEW state \in BOOLEAN, Heartbeat(state)
        PROVE  SwitchedOffInTime' /\ StaysOffOnceSeen'
    \* Between two heartbeats lies a send, so nothing that yielded was on.
    BY <2>2 DEF Heartbeat
  <2>3. CASE HeartbeatExpires
    BY <2>3 DEF HeartbeatExpires
  <2>4. ASSUME NEW rpdo \in Rpdo, PeriodPasses(rpdo)
        PROVE  SwitchedOffInTime' /\ StaysOffOnceSeen'
    BY <2>4 DEF PeriodPasses
  <2>5. ASSUME NEW rpdo \in Rpdo, Enable(rpdo)
        PROVE  SwitchedOffInTime' /\ StaysOffOnceSeen'
    BY <2>5 DEF Enable, Engaged
  <2>6. ASSUME NEW rpdo \in Rpdo, Disable(rpdo)
        PROVE  SwitchedOffInTime' /\ StaysOffOnceSeen'
    BY <2>6 DEF Disable
  <2>7. CASE SwitchAll
    \* Past the next send nothing that yielded is on any more.
    BY <2>7 DEF SwitchAll
  <2>8. CASE UNCHANGED rpdovars
    BY <2>8 DEF rpdovars
  <2> QED
    BY <2>1, <2>2, <2>3, <2>4, <2>5, <2>6, <2>7, <2>8 DEF RpdoNext
<1> QED
  BY <1>1, <1>2, RpdoTypeCorrect, PTL DEF RpdoSafeSpec

\* From the moment the master is heard no interlocked RPDO is sent until the
\* operator switches it on anew, for any set of RPDOs, if the service was on
\* when send should have seen the master.
THEOREM StaysOff == RpdoSafeSpec => []StaysOffOnceSeen
<1>1. RpdoInv => StaysOffOnceSeen
  BY DEF RpdoInv
<1> QED
  BY <1>1, RpdoInvariance, PTL

-----------------------------------------------------------------------------
(* Refinement.                                                             *)

\* Every step of the panel is one of the service, or leaves it alone.
THEOREM PanelImplementsRpdo == PanelSafeSpec => RpdoSafeSpec
<1>1. PanelInit => RpdoInit
  BY DEF PanelInit
<1>2. [PanelNext]_panelvars => [RpdoNext]_rpdovars
  <2> SUFFICES ASSUME [PanelNext]_panelvars PROVE [RpdoNext]_rpdovars
    OBVIOUS
  <2>1. Command \in Rpdo
    BY PanelAssumption, RpdoAssumption
  <2>2. CASE UiFrame
    <3>1. CASE \E f3 \in BOOLEAN : UiKeyboard(f3)
      BY <3>1 DEF UiKeyboard
    <3>2. CASE UiToggle
      BY <3>2 DEF UiToggle
    <3>3. CASE UiControls
      BY <3>3, <2>1 DEF UiControls, Clicked, RpdoNext
    <3>4. CASE UiUpdate
      BY <3>4 DEF UiUpdate
    <3>5. CASE UiStore
      BY <3>5 DEF UiStore
    <3>6. CASE UiSkip
      BY <3>6 DEF UiSkip
    <3> QED
      BY <2>2, <3>1, <3>2, <3>3, <3>4, <3>5, <3>6 DEF UiFrame
  <2>3. CASE UiWindow \/ UiSwitchAll
    BY <2>3 DEF UiWindow, UiSwitchAll, RpdoNext
  <2>4. CASE CanCreate
    BY <2>4 DEF CanCreate
  <2>5. CASE CanLoad
    BY <2>5 DEF CanLoad
  <2>6. CASE CanSend \/ CanTurn
    BY <2>6 DEF CanSend, CanTurn, RpdoNext
  <2>7. CASE CanHeartbeat
    BY <2>7 DEF CanHeartbeat, RpdoNext
  <2>8. CASE CanTpdo1 \/ LinkExpires
    BY <2>8 DEF CanTpdo1, LinkExpires
  <2>9. CASE Clock
    BY <2>9 DEF Clock, RpdoNext
  <2>10. CASE UNCHANGED panelvars
    BY <2>10 DEF panelvars
  <2> QED
    BY <2>2, <2>3, <2>4, <2>5, <2>6, <2>7, <2>8, <2>9, <2>10 DEF PanelNext
<1> QED
  BY <1>1, <1>2, PTL DEF PanelSafeSpec, RpdoSafeSpec

\* The interlock's promise with the panel, the creator and the link around it: if
\* the service as a whole was on when send should have seen the master, no command
\* goes out from then until the operator switches commands on anew, in every
\* interleaving of the panel and of the options window's switch with the sender.
THEOREM PanelStaysOff == PanelSafeSpec => []StaysOffOnceSeen
  BY PanelImplementsRpdo, StaysOff, PTL

-----------------------------------------------------------------------------
(* The purge.                                                              *)

ManualOff(levels) == \A level \in Contactor : level \notin levels

\* Outside the purge the manual levels of _rpdo1 are off between two frames;
\* within one they go off cell by cell after the mode was stored, and the
\* references they are stored from are off.
StoresInv ==
  /\ rpdo1 = [mode |-> rpdo1.mode, on |-> rpdo1.on]
  /\ ui.at # "store" => rpdo1.mode = mode
  /\ ui.at = "store" =>
       /\ ui = [at |-> "store", cell |-> ui.cell]
       /\ ui.cell \in 1 .. Len(Cells)
       /\ mode # purge => ManualOff(refs)
       /\ ui.cell > 1 => rpdo1.mode = mode
  /\ (ui.at # "store" \/ ui.cell = 1) => (rpdo1.mode # purge => ManualOff(rpdo1.on))
  /\ (ui.at = "store" /\ mode # purge) =>
       \A i \in 1 .. (ui.cell - 1) : Cells[i] \in Contactor => Cells[i] \notin rpdo1.on

\* The cells: the mode first, then the levels, the contactors among them.
LEMMA CellFacts ==
  /\ Len(Cells) \in Nat
  /\ Len(Cells) >= 2
  /\ Cells[1] = "mode"
  /\ "mode" \notin Contactor
  /\ \A level \in Contactor : \E i \in 2 .. Len(Cells) : Cells[i] = level
<1> DEFINE S == Contactor \cup {"mode", "inverter"}
           front == <<"mode", "inverter">>
<1>1. Contactors \in Seq(S)
  BY PanelAssumption
<1>2. Len(Contactors) \in Nat /\ DOMAIN Contactors = 1 .. Len(Contactors)
  BY <1>1
<1>3. Cells \in Seq(S) /\ Len(Cells) = Len(Contactors) + 2
  <2>1. front \in Seq(S) /\ Len(front) = 2
    OBVIOUS
  <2> QED
    BY <1>1, <1>2, <2>1, ConcatProperties DEF Cells
<1>4. \A i \in 1 .. Len(Contactors) : Cells[i + 2] = Contactors[i]
  BY <1>1, <1>2 DEF Cells
<1>5. Cells[1] = "mode"
  BY <1>1 DEF Cells
<1>6. "mode" \notin Contactor
  BY PanelAssumption
<1>7. ASSUME NEW level \in Contactor
      PROVE  \E i \in 2 .. Len(Cells) : Cells[i] = level
  <2>1. PICK k \in 1 .. Len(Contactors) : level = Contactors[k]
    BY <1>2, PanelAssumption
  <2>2. k + 2 \in 2 .. Len(Cells) /\ Cells[k + 2] = level
    BY <2>1, <1>2, <1>3, <1>4
  <2> QED
    BY <2>2
<1> QED
  BY <1>2, <1>3, <1>5, <1>6, <1>7

\* A store sets one cell.
LEMMA StoreSetsACell ==
  ASSUME UiStore, rpdo1 = [mode |-> rpdo1.mode, on |-> rpdo1.on]
  PROVE  LET cell == Cells[ui.cell]
         IN /\ rpdo1' = [mode |-> rpdo1'.mode, on |-> rpdo1'.on]
            /\ cell = "mode" => rpdo1'.mode = mode /\ rpdo1'.on = rpdo1.on
            /\ cell # "mode" => rpdo1'.mode = rpdo1.mode
            /\ (cell # "mode" /\ cell \in refs) => rpdo1'.on = rpdo1.on \cup {cell}
            /\ (cell # "mode" /\ cell \notin refs) => rpdo1'.on = rpdo1.on \ {cell}
<1> DEFINE cell == Cells[ui.cell]
<1>1. rpdo1' = CASE cell = "mode" -> [rpdo1 EXCEPT !.mode = mode]
                 [] cell # "mode" /\ cell \in refs -> [rpdo1 EXCEPT !.on = @ \cup {cell}]
                 [] OTHER -> [rpdo1 EXCEPT !.on = @ \ {cell}]
  BY DEF UiStore
<1>2. CASE cell = "mode"
  BY <1>1, <1>2
<1>3. CASE cell # "mode" /\ cell \in refs
  BY <1>1, <1>3
<1>4. CASE cell # "mode" /\ cell \notin refs
  BY <1>1, <1>4
<1> QED
  BY <1>2, <1>3, <1>4

\* What a store does, cell by cell.
LEMMA StorePreserves ==
  ASSUME StoresInv, UiStore
  PROVE  StoresInv'
<1> DEFINE k == ui.cell
           cell == Cells[k]
<1>1. ui.at = "store" /\ ui = [at |-> "store", cell |-> k] /\ k \in 1 .. Len(Cells)
  BY DEF StoresInv, UiStore
<1>2. UNCHANGED <<mode, refs>>
  BY DEF UiStore, refvars
<1>3. /\ rpdo1' = [mode |-> rpdo1'.mode, on |-> rpdo1'.on]
      /\ cell = "mode" => rpdo1'.mode = mode /\ rpdo1'.on = rpdo1.on
      /\ cell # "mode" => rpdo1'.mode = rpdo1.mode
      /\ (cell # "mode" /\ cell \in refs) => rpdo1'.on = rpdo1.on \cup {cell}
      /\ (cell # "mode" /\ cell \notin refs) => rpdo1'.on = rpdo1.on \ {cell}
  BY StoreSetsACell DEF StoresInv
<1>4. rpdo1'.mode = mode
  BY <1>1, <1>3, CellFacts DEF StoresInv
<1>5. ASSUME mode # purge
      PROVE  \A i \in 1 .. k : Cells[i] \in Contactor => Cells[i] \notin rpdo1'.on
  <2>1. \A i \in 1 .. (k - 1) : Cells[i] \in Contactor => Cells[i] \notin rpdo1.on
    BY <1>1, <1>5 DEF StoresInv
  <2>2. \A level \in Contactor : level \notin refs
    BY <1>1, <1>5 DEF StoresInv, ManualOff
  <2>3. SUFFICES ASSUME NEW i \in 1 .. k, Cells[i] \in Contactor
                 PROVE  Cells[i] \notin rpdo1'.on
    OBVIOUS
  <2>4. Cells[i] \notin refs /\ Cells[i] # "mode"
    BY <2>2, <2>3, CellFacts
  <2>5. CASE i = k
    BY <2>4, <2>5, <1>3
  <2>6. CASE i # k
    <3>1. i \in 1 .. (k - 1)
      BY <2>3, <2>6, <1>1
    <3>2. Cells[i] \notin rpdo1.on
      BY <2>1, <2>3, <3>1
    <3>3. cell \in refs => cell # Cells[i]
      BY <2>4
    <3> QED
      BY <3>2, <3>3, <1>3
  <2> QED
    BY <2>5, <2>6
<1>6. CASE k < Len(Cells)
  <2>1. ui' = [at |-> "store", cell |-> k + 1]
    BY <1>1, <1>6 DEF UiStore
  <2>2. ui'.at = "store" /\ ui'.cell = k + 1 /\ k + 1 \in 1 .. Len(Cells)
        /\ k + 1 > 1 /\ k + 1 # 1 /\ (k + 1) - 1 = k
    BY <1>1, <1>6, <2>1, CellFacts
  <2>3. mode' # purge => ManualOff(refs)'
    BY <1>1, <1>2 DEF StoresInv, ManualOff
  <2>4. mode' # purge =>
          \A i \in 1 .. (ui'.cell - 1) : Cells[i] \in Contactor => Cells[i] \notin rpdo1'.on
    BY <1>2, <1>5, <2>2
  <2> QED
    BY <1>2, <1>3, <1>4, <2>1, <2>2, <2>3, <2>4 DEF StoresInv
<1>7. CASE ~(k < Len(Cells))
  <2>1. k = Len(Cells)
    BY <1>1, <1>7, CellFacts
  <2>2. ui'.at = "idle"
    BY <1>7 DEF UiStore, Idle
  <2>3. mode # purge => ManualOff(rpdo1'.on)
    BY <1>5, <2>1, CellFacts DEF ManualOff
  <2> QED
    BY <1>2, <1>3, <1>4, <2>2, <2>3 DEF StoresInv, ManualOff
<1> QED
  BY <1>6, <1>7

\* Every other step that leaves the cells alone leaves StoresInv alone.
LEMMA FramePreserves ==
  ASSUME StoresInv, UNCHANGED <<rpdo1, mode>>, ui.at # "store", ui'.at # "store"
  PROVE  StoresInv'
  BY DEF StoresInv, ManualOff

LEMMA StoresInvariance == PanelSafeSpec => []StoresInv
<1>1. PanelInit => StoresInv
  BY DEF PanelInit, StoresInv, ManualOff, Idle
<1>2. StoresInv /\ [PanelNext]_panelvars => StoresInv'
  <2> SUFFICES ASSUME StoresInv, [PanelNext]_panelvars PROVE StoresInv'
    OBVIOUS
  <2>1. CASE UiFrame
    <3>1. ASSUME NEW f3 \in BOOLEAN, UiKeyboard(f3) PROVE StoresInv'
      BY <3>1, FramePreserves DEF UiKeyboard, refvars, Idle
    <3>2. CASE UiToggle
      BY <3>2, FramePreserves DEF UiToggle
    <3>3. CASE UiControls
      BY <3>3, FramePreserves DEF UiControls
    <3>4. CASE UiUpdate
      <4>1. /\ ui.at = "update"
            /\ ui' = [at |-> "store", cell |-> 1]
            /\ mode' = mode_v
            /\ rpdo1' = rpdo1
            /\ mode' # purge => \A level \in Contactor : level \notin refs'
        BY <3>4 DEF UiUpdate
      <4>2. 1 \in 1 .. Len(Cells) /\ 1 .. (1 - 1) = {}
        BY CellFacts
      <4> QED
        BY <4>1, <4>2 DEF StoresInv, ManualOff
    <3>5. CASE UiStore
      BY <3>5, StorePreserves
    <3>6. CASE UiSkip
      BY <3>6, FramePreserves DEF UiSkip, refvars, Idle
    <3> QED
      BY <2>1, <3>1, <3>2, <3>3, <3>4, <3>5, <3>6 DEF UiFrame
  <2>2. CASE UiWindow
    BY <2>2, FramePreserves DEF UiWindow, refvars, Idle
  <2>3. CASE UiSwitchAll \/ CanCreate \/ CanLoad \/ CanSend \/ CanTurn \/ CanHeartbeat \/ CanTpdo1
               \/ LinkExpires \/ Clock \/ UNCHANGED panelvars
    <3>1. UNCHANGED <<rpdo1, mode_v, mode, refs, ui>>
      BY <2>3 DEF UiSwitchAll, CanCreate, CanLoad, CanSend, CanTurn, CanHeartbeat, CanTpdo1,
                  LinkExpires, Clock, panelvars, refvars
    <3> QED
      BY <3>1 DEF StoresInv, ManualOff
  <2> QED
    BY <2>1, <2>2, <2>3 DEF PanelNext
<1> QED
  BY <1>1, <1>2, PTL DEF PanelSafeSpec

\* Whenever the purge begins in _rpdo1, every manual level is off.
THEOREM PurgeBeginsOpen == PanelSafeSpec => PurgeStartsOpen
<1>1. StoresInv /\ [PanelNext]_panelvars =>
        [ (rpdo1.mode # purge /\ rpdo1'.mode = purge)
            => (rpdo1.on \cup rpdo1'.on) \cap Contactor = {} ]_panelvars
  <2> SUFFICES ASSUME StoresInv, PanelNext, rpdo1.mode # purge, rpdo1'.mode = purge
               PROVE  (rpdo1.on \cup rpdo1'.on) \cap Contactor = {}
    OBVIOUS
  <2>1. UiStore
    BY DEF PanelNext, UiFrame, UiKeyboard, UiToggle, UiControls, UiUpdate, UiSkip, UiWindow,
           UiSwitchAll, CanCreate, CanLoad, CanSend, CanTurn, CanHeartbeat, CanTpdo1, LinkExpires, Clock
  <2>2. Cells[ui.cell] = "mode" /\ rpdo1'.on = rpdo1.on
    <3>1. rpdo1 = [mode |-> rpdo1.mode, on |-> rpdo1.on]
      BY DEF StoresInv
    <3>2. Cells[ui.cell] # "mode" => rpdo1'.mode = rpdo1.mode
      BY <2>1, <3>1 DEF UiStore
    <3>3. Cells[ui.cell] = "mode"
      BY <3>2
    <3> QED
      BY <2>1, <3>1, <3>3 DEF UiStore
  <2>3. rpdo1'.mode = mode
    BY <2>1, <2>2 DEF StoresInv, UiStore
  <2>4. ui.cell = 1
    BY <2>1, <2>3 DEF StoresInv, UiStore
  <2>5. ManualOff(rpdo1.on)
    BY <2>4 DEF StoresInv
  <2> QED
    BY <2>2, <2>5 DEF ManualOff
<1> QED
  BY <1>1, StoresInvariance, PTL DEF PanelSafeSpec, PurgeStartsOpen

-----------------------------------------------------------------------------
(* The old command.                                                        *)

LevelTypes ==
  /\ refs \subseteq Level
  /\ stale \subseteq Level
  /\ rpdo1 = [mode |-> rpdo1.mode, on |-> rpdo1.on]
  /\ rpdo1.on \subseteq Level
  /\ can.at = "create" =>
       can = [at |-> "create", mode |-> can.mode, on |-> can.on, old |-> can.old,
              cell |-> can.cell]

\* No level of before the trouble is on, nor about to be stored.
Forgotten == stale \cap (rpdo1.on \cup refs) = {}

\* A frame drawn in trouble empties the references first and then stores them:
\* so much of _rpdo1 is off already.
Emptying ==
  /\ refs = {}
  /\ \A i \in 1 .. (ui.cell - 1) : Cells[i] \notin rpdo1.on

\* The first whole frame in trouble is the one after that in which it began;
\* when it has ended, what was on before is forgotten.
ForgottenInv ==
  /\ LevelTypes
  /\ (~skipped /\ (link = "good" \/ noticed = 2)) => Forgotten
  /\ (~skipped /\ link # "good" /\ noticed = 1 /\ ui.at = "store") => Emptying
  /\ (~skipped /\ link = "good" /\ can.at = "create") => can.old = {}
  /\ OldCommandGoneOnceDrawn

LEMMA LevelsHaveCells ==
  \A level \in Level : \E i \in 1 .. Len(Cells) : Cells[i] = level
<1>1. Cells[2] = "inverter"
  BY PanelAssumption DEF Cells
<1>2. 2 \in 1 .. Len(Cells)
  BY CellFacts
<1>3. ASSUME NEW level \in Contactor
      PROVE  \E i \in 1 .. Len(Cells) : Cells[i] = level
  <2>1. PICK i \in 2 .. Len(Cells) : Cells[i] = level
    BY CellFacts
  <2>2. i \in 1 .. Len(Cells)
    BY CellFacts
  <2> QED
    BY <2>1, <2>2
<1> QED
  BY <1>1, <1>2, <1>3 DEF Level

\* A click or a key takes the level it is about out of the old ones.
LEMMA TogglingForgets ==
  ASSUME ForgottenInv, NEW level \in Level,
         refs' = Toggled(level), stale' = stale \ {level},
         UNCHANGED <<rpdo1, link, noticed, skipped, can, revived>>,
         ui.at # "store", ui'.at # "store"
  PROVE  ForgottenInv'
<1>1. refs' \subseteq refs \cup {level} /\ refs' \subseteq Level
  BY DEF Toggled, ForgottenInv, LevelTypes
<1>2. Forgotten => Forgotten'
  BY <1>1 DEF Forgotten
<1> QED
  BY <1>1, <1>2 DEF ForgottenInv, LevelTypes, OldCommandGoneOnceDrawn, OldCommandNotRevived

\* What touches neither the levels nor the link.
LEMMA LevelsAlone ==
  ASSUME ForgottenInv,
         UNCHANGED <<refs, stale, rpdo1, link, noticed, skipped, can, revived>>,
         ui'.at # "store"
  PROVE  ForgottenInv'
BY DEF ForgottenInv, LevelTypes, Forgotten, OldCommandGoneOnceDrawn, OldCommandNotRevived

LEMMA UpdateForgets ==
  ASSUME ForgottenInv, UiUpdate
  PROVE  ForgottenInv'
<1>1. /\ UNCHANGED <<stale, rpdo1, link, noticed, skipped, can, revived>>
      /\ ui' = [at |-> "store", cell |-> 1]
      /\ refs' \subseteq refs
      /\ link # "good" => refs' = {}
  BY DEF UiUpdate, linkvars
<1>2. Forgotten => Forgotten'
  BY <1>1 DEF Forgotten
<1>3. link # "good" => Emptying'
  <2>1. 1 .. (ui'.cell - 1) = {}
    BY <1>1
  <2> QED
    BY <1>1, <2>1 DEF Emptying
<1>4. LevelTypes'
  BY <1>1 DEF LevelTypes, ForgottenInv
<1> QED
  BY <1>1, <1>2, <1>3, <1>4 DEF ForgottenInv, OldCommandGoneOnceDrawn, OldCommandNotRevived

LEMMA StoreForgets ==
  ASSUME StoresInv, ForgottenInv, UiStore, noticed \in 0 .. 2
  PROVE  ForgottenInv'
<1> DEFINE k == ui.cell
           cell == Cells[k]
<1>1. /\ ui.at = "store" /\ ui = [at |-> "store", cell |-> k]
      /\ k \in 1 .. Len(Cells) /\ Len(Cells) \in Nat
  BY CellFacts DEF StoresInv, UiStore
<1>2. UNCHANGED <<refs, link, skipped, can, revived>>
  BY DEF UiStore, refvars
<1>3. /\ rpdo1' = [mode |-> rpdo1'.mode, on |-> rpdo1'.on]
      /\ cell = "mode" => rpdo1'.on = rpdo1.on
      /\ (cell # "mode" /\ cell \in refs) => rpdo1'.on = rpdo1.on \cup {cell}
      /\ (cell # "mode" /\ cell \notin refs) => rpdo1'.on = rpdo1.on \ {cell}
  BY StoreSetsACell DEF StoresInv
<1>4. stale' \subseteq stale
  BY DEF UiStore
<1>5. LevelTypes'
  BY <1>2, <1>3, <1>4 DEF LevelTypes, ForgottenInv
<1>6. Forgotten => Forgotten'
  BY <1>2, <1>3, <1>4 DEF Forgotten
<1>7. ASSUME refs = {}, Emptying
      PROVE  \A i \in 1 .. k : Cells[i] \notin rpdo1'.on
  <2> SUFFICES ASSUME NEW i \in 1 .. k PROVE Cells[i] \notin rpdo1'.on
    OBVIOUS
  <2>1. rpdo1'.on \subseteq rpdo1.on /\ (cell # "mode" => cell \notin rpdo1'.on)
    BY <1>3, <1>7
  <2>2. "mode" \notin rpdo1.on
    BY PanelAssumption DEF ForgottenInv, LevelTypes, Level
  <2>3. CASE i = k
    BY <2>1, <2>2, <2>3
  <2>4. CASE i # k
    <3>1. i \in 1 .. (k - 1)
      BY <1>1, <2>4
    <3> QED
      BY <1>7, <2>1, <3>1 DEF Emptying
  <2> QED
    BY <2>3, <2>4
<1>8. CASE k < Len(Cells)
  <2>1. ui' = [at |-> "store", cell |-> k + 1] /\ noticed' = noticed
    BY <1>1, <1>8 DEF UiStore
  <2>2. (k + 1) - 1 = k
    BY <1>1
  <2>3. Emptying => Emptying'
    BY <1>2, <1>7, <2>1, <2>2 DEF Emptying
  <2> QED
    BY <1>1, <1>2, <1>5, <1>6, <2>1, <2>3
       DEF ForgottenInv, OldCommandGoneOnceDrawn, OldCommandNotRevived
<1>9. CASE ~(k < Len(Cells))
  <2>1. k = Len(Cells)
    BY <1>1, <1>9
  <2>2. ui'.at # "store" /\ noticed' = IF noticed < 2 THEN noticed + 1 ELSE 2
    BY <1>9 DEF UiStore, FrameEnds, Idle
  <2>3. (refs = {} /\ Emptying) => Forgotten'
    <3> SUFFICES ASSUME refs = {}, Emptying PROVE Forgotten'
      OBVIOUS
    <3>1. \A level \in Level : level \notin rpdo1'.on
      BY <1>7, <2>1, LevelsHaveCells
    <3> QED
      BY <1>2, <1>5, <3>1 DEF LevelTypes, Forgotten
  <2>4. (~skipped' /\ (link' = "good" \/ noticed' = 2)) => Forgotten'
    <3> SUFFICES ASSUME ~skipped', link' = "good" \/ noticed' = 2 PROVE Forgotten'
      OBVIOUS
    <3>1. CASE link = "good" \/ noticed = 2
      BY <1>2, <1>6, <3>1 DEF ForgottenInv
    <3>2. CASE link # "good" /\ noticed # 2
      <4>1. noticed = 1
        BY <1>2, <2>2, <3>2
      <4> QED
        BY <1>1, <1>2, <2>3, <3>2, <4>1 DEF ForgottenInv, Emptying
    <3> QED
      BY <3>1, <3>2
  <2> QED
    BY <1>2, <1>5, <2>2, <2>4
       DEF ForgottenInv, OldCommandGoneOnceDrawn, OldCommandNotRevived
<1> QED
  BY <1>8, <1>9

\* A window that is closed forgets nothing, and says so.
LEMMA SkipForgets ==
  ASSUME ForgottenInv, UiSkip, noticed \in 0 .. 2
  PROVE  ForgottenInv'
<1>1. /\ UNCHANGED <<refs, rpdo1, link, stale, ui, can, revived>>
      /\ skipped' = (skipped \/ (link # "good" /\ noticed = 1))
      /\ noticed < 2 /\ noticed' = IF noticed < 2 THEN noticed + 1 ELSE 2
      /\ ui.at # "store"
  BY DEF UiSkip, FrameEnds, refvars, Idle
<1>2. ~skipped' => ~skipped /\ (link = "good" \/ noticed # 1)
  BY <1>1, Zenon
<1>3. noticed' = 2 => noticed = 1
  BY <1>1
<1>4. (~skipped' /\ (link' = "good" \/ noticed' = 2)) => ~skipped /\ link = "good"
  BY <1>1, <1>2, <1>3, Zenon
<1> QED
  BY <1>1, <1>2, <1>4
     DEF ForgottenInv, LevelTypes, Forgotten, OldCommandGoneOnceDrawn, OldCommandNotRevived

LEMMA LoadForgets ==
  ASSUME ForgottenInv, CanLoad
  PROVE  ForgottenInv'
<1> DEFINE cell == Cells[can.cell]
<1>1. /\ UNCHANGED <<refs, stale, rpdo1, link, noticed, skipped, ui, revived>>
      /\ can.at = "create"
  BY DEF CanLoad, refvars, linkvars
<1>2. /\ can' = [at |-> "create", mode |-> can'.mode, on |-> can'.on, old |-> can'.old,
                 cell |-> can'.cell]
      /\ can'.old = IF cell \in rpdo1.on \cap stale THEN can.old \cup {cell} ELSE can.old
  <2>1. PICK mode1 : mode1 = IF cell = "mode" THEN rpdo1.mode ELSE can.mode
    OBVIOUS
  <2>2. PICK on : on = IF cell \in rpdo1.on THEN can.on \cup {cell} ELSE can.on
    OBVIOUS
  <2>3. PICK old : old = IF cell \in rpdo1.on \cap stale THEN can.old \cup {cell} ELSE can.old
    OBVIOUS
  <2>4. PICK next : next = can.cell + 1
    OBVIOUS
  <2>5. can' = [can EXCEPT !.cell = next, !.mode = mode1, !.on = on, !.old = old]
    BY <2>1, <2>2, <2>3, <2>4 DEF CanLoad
  <2>6. PICK mode0, on0, old0, cell0 :
          can = [at |-> "create", mode |-> mode0, on |-> on0, old |-> old0, cell |-> cell0]
    BY <1>1 DEF ForgottenInv, LevelTypes
  <2>7. can' = [at |-> "create", mode |-> mode1, on |-> on, old |-> old, cell |-> next]
    BY <2>5, <2>6
  <2> QED
    BY <2>3, <2>7
<1>3. (~skipped /\ link = "good") => can'.old = {}
  BY <1>1, <1>2 DEF ForgottenInv, Forgotten
<1>4. LevelTypes'
  BY <1>1, <1>2 DEF ForgottenInv, LevelTypes
<1> QED
  BY <1>1, <1>3, <1>4
     DEF ForgottenInv, Forgotten, Emptying, OldCommandGoneOnceDrawn, OldCommandNotRevived

\* What the link tells.
LEMMA LinkForgets ==
  ASSUME ForgottenInv, CanTpdo1 \/ LinkExpires
  PROVE  ForgottenInv'
<1>1. UNCHANGED <<refs, rpdo1, ui, can>>
  BY DEF CanTpdo1, LinkExpires, refvars
<1>2. ASSUME NEW how, how # "good", LinkGoesBad(how)
      PROVE  ForgottenInv'
  <2>1. CASE link = "good"
    <3>1. /\ link' # "good" /\ noticed' = 0 /\ skipped' = FALSE /\ revived' = FALSE
          /\ stale' = rpdo1.on \cup refs
      BY <1>2, <2>1 DEF LinkGoesBad
    <3> QED
      BY <1>1, <3>1 DEF ForgottenInv, LevelTypes, OldCommandGoneOnceDrawn, OldCommandNotRevived
  <2>2. CASE link # "good"
    <3>1. /\ link' # "good" /\ noticed' = noticed /\ stale' = stale
          /\ (skipped' <=> skipped) /\ (revived' <=> revived)
      BY <1>2, <2>2 DEF LinkGoesBad
    <3> QED
      BY <1>1, <2>2, <3>1 DEF ForgottenInv, LevelTypes, Forgotten, Emptying,
                              OldCommandGoneOnceDrawn, OldCommandNotRevived
  <2> QED
    BY <2>1, <2>2
<1>3. CASE CanTpdo1 /\ link' = "good" /\ noticed = 2
                     /\ UNCHANGED <<noticed, skipped, stale, revived>>
  <2>1. can.at # "create"
    BY <1>3 DEF CanTpdo1, Idle
  <2> QED
    BY <1>1, <1>3, <2>1 DEF ForgottenInv, LevelTypes, Forgotten, OldCommandGoneOnceDrawn,
                            OldCommandNotRevived
<1> QED
  BY <1>2, <1>3 DEF CanTpdo1, LinkExpires

\* The bound on the frames counted.
NoticedInv == noticed \in 0 .. 2

LEMMA NoticedBounded == PanelSafeSpec => []NoticedInv
<1>1. PanelInit => NoticedInv
  BY DEF PanelInit, NoticedInv
<1>2. NoticedInv /\ [PanelNext]_panelvars => NoticedInv'
  <2> SUFFICES ASSUME noticed \in 0 .. 2, [PanelNext]_panelvars PROVE noticed' \in 0 .. 2
    BY DEF NoticedInv
  <2>1. CASE UiFrame
    BY <2>1 DEF UiFrame, UiKeyboard, UiToggle, UiControls, UiUpdate, UiStore, UiSkip, FrameEnds,
                linkvars
  <2>2. CASE UiWindow \/ UiSwitchAll \/ CanCreate \/ CanLoad \/ CanSend \/ CanTurn
               \/ CanHeartbeat \/ Clock
    BY <2>2 DEF UiWindow, UiSwitchAll, CanCreate, CanLoad, CanSend, CanTurn, CanHeartbeat,
                Clock, linkvars
  <2>3. CASE CanTpdo1 \/ LinkExpires
    BY <2>3 DEF CanTpdo1, LinkExpires, LinkGoesBad
  <2>4. CASE UNCHANGED panelvars
    BY <2>4 DEF panelvars, linkvars
  <2> QED
    BY <2>1, <2>2, <2>3, <2>4 DEF PanelNext
<1> QED
  BY <1>1, <1>2, PTL DEF PanelSafeSpec

\* For any number of contactors: if the panel was drawn while the node was lost
\* or in trouble, no frame sent after its return carries a level that was on
\* before and that the operator has not set since, wherever the link fell into
\* the frames of both threads and whenever the window was closed.
THEOREM OldCommandForgotten == PanelSafeSpec => []OldCommandGoneOnceDrawn
<1>1. PanelInit => ForgottenInv
  BY DEF PanelInit, ForgottenInv, LevelTypes, Forgotten, Idle, OldCommandGoneOnceDrawn,
         OldCommandNotRevived
<1>2. ForgottenInv /\ StoresInv /\ NoticedInv /\ [PanelNext]_panelvars => ForgottenInv'
  <2> SUFFICES ASSUME ForgottenInv, StoresInv, noticed \in 0 .. 2, [PanelNext]_panelvars
               PROVE  ForgottenInv'
    BY DEF NoticedInv
  <2>1. ASSUME NEW f3 \in BOOLEAN, UiKeyboard(f3) PROVE ForgottenInv'
    BY <2>1, LevelsAlone DEF UiKeyboard, refvars, linkvars
  <2>2. CASE UiToggle
    <3>1. /\ UNCHANGED <<rpdo1, link, noticed, skipped, can, revived>>
          /\ ui.at # "store" /\ ui'.at # "store"
      BY <2>2 DEF UiToggle
    <3>2. CASE ui.f3
      BY <2>2, <3>1, <3>2, TogglingForgets DEF UiToggle, Level
    <3>3. CASE ~ui.f3
      BY <2>2, <3>1, <3>3, LevelsAlone DEF UiToggle
    <3> QED
      BY <3>2, <3>3
  <2>3. CASE UiControls
    <3>1. /\ UNCHANGED <<rpdo1, link, noticed, skipped, can, revived>>
          /\ ui.at # "store" /\ ui'.at # "store"
      BY <2>3 DEF UiControls
    <3>2. CASE UNCHANGED <<refs, stale>>
      BY <3>1, <3>2, LevelsAlone
    <3>3. ASSUME NEW level \in Level, refs' = Toggled(level), stale' = stale \ {level}
          PROVE  ForgottenInv'
      BY <3>1, <3>3, TogglingForgets
    <3> QED
      BY <2>3, <3>2, <3>3 DEF UiControls, Clicked, Level
  <2>4. CASE UiUpdate
    BY <2>4, UpdateForgets
  <2>5. CASE UiStore
    BY <2>5, StoreForgets
  <2>6. CASE UiSkip
    BY <2>6, SkipForgets
  <2>7. CASE UiWindow \/ UiSwitchAll
    BY <2>7, LevelsAlone DEF UiWindow, UiSwitchAll, refvars, linkvars, Idle
  <2>8. CASE CanCreate
    <3>1. /\ UNCHANGED <<refs, stale, rpdo1, link, noticed, skipped, ui, revived>>
          /\ can' = [at |-> "create", mode |-> idle, on |-> {}, old |-> {}, cell |-> 1]
      BY <2>8 DEF CanCreate, refvars, linkvars
    <3>2. /\ can'.old = {}
          /\ can' = [at |-> "create", mode |-> can'.mode, on |-> can'.on, old |-> can'.old,
                     cell |-> can'.cell]
      BY <3>1
    <3> QED
      BY <3>1, <3>2 DEF ForgottenInv, LevelTypes, Forgotten, Emptying, OldCommandGoneOnceDrawn,
                        OldCommandNotRevived
  <2>9. CASE CanLoad
    BY <2>9, LoadForgets
  <2>10. CASE CanSend
    <3>1. /\ UNCHANGED <<refs, stale, rpdo1, link, noticed, skipped, ui>>
          /\ can.at = "create" /\ can'.at # "create"
          /\ (revived' <=> (link = "good" /\ can.old # {}))
      BY <2>10 DEF CanSend, refvars, linkvars, Idle
    <3> QED
      BY <3>1 DEF ForgottenInv, LevelTypes, Forgotten, Emptying, OldCommandGoneOnceDrawn,
                  OldCommandNotRevived
  <2>11. CASE CanTurn \/ CanHeartbeat \/ Clock \/ UNCHANGED panelvars
    <3>1. UNCHANGED <<refs, stale, rpdo1, link, noticed, skipped, ui, can, revived>>
      BY <2>11 DEF CanTurn, CanHeartbeat, Clock, panelvars, refvars, linkvars
    <3> QED
      BY <3>1 DEF ForgottenInv, LevelTypes, Forgotten, Emptying, OldCommandGoneOnceDrawn,
                  OldCommandNotRevived
  <2>12. CASE CanTpdo1 \/ LinkExpires
    BY <2>12, LinkForgets
  <2> QED
    BY <2>1, <2>2, <2>3, <2>4, <2>5, <2>6, <2>7, <2>8, <2>9, <2>10, <2>11, <2>12
       DEF PanelNext, UiFrame
<1>3. ForgottenInv => OldCommandGoneOnceDrawn
  BY DEF ForgottenInv
<1> QED
  BY <1>1, <1>2, <1>3, StoresInvariance, NoticedBounded, PTL DEF PanelSafeSpec

-----------------------------------------------------------------------------
(* The test programs.                                                      *)

Managers ==
  [file : File \cup {NoFile}, rows : Nat, idx : Nat, age : 0 .. Longest + 2]

References == {None, Entered, Beyond} \cup {<<file, idx>> : file \in File, idx \in Nat}

Panels ==
  [in_run : BOOLEAN, control : {"manual", "program"}, run : BOOLEAN, repeat : BOOLEAN,
   dialog : BOOLEAN, picked : Drive, drawn : Drive, refs : [Drive -> References]]

Turns == [row : Nat, time : 0 .. Longest + 1]

\* What is loaded are rows of a file.
Sound(manager) ==
  /\ manager \in Managers
  /\ manager.rows # 0 =>
       manager.file \in File /\ manager.rows <= Len(Durations[manager.file])

\* The manager's clock and the history agree on the row and since when.
InStep(manager, t) ==
  IF manager.age = NoTime THEN t.row = 0 ELSE t.row = manager.idx + 1 /\ t.time = manager.age

ProgramsInStep ==
  \A drive \in Drive : Sound(program[drive]) /\ InStep(program[drive], turn[drive])

ProgramInv ==
  /\ panel \in Panels
  /\ program \in [Drive -> Managers]
  /\ turn \in [Drive -> Turns]
  /\ ProgramsInStep
  /\ FollowsTheProgram
  /\ RowsInTurn

-----------------------------------------------------------------------------
\* A row's value is a reference, and not the sign of the end.
LEMMA ValueIsReference ==
  ASSUME NEW manager, Sound(manager), NEW idx \in Nat
  PROVE  Value(manager, idx) \in References /\ Value(manager, idx) # NoRef
<1>1. CASE idx < manager.rows
  <2>1. manager.file \in File
    BY <1>1 DEF Sound, Managers
  <2>2. Value(manager, idx) = <<manager.file, idx>>
    BY <1>1 DEF Value
  <2>. QED
    BY <2>1, <2>2 DEF References, NoRef
<1>2. CASE ~(idx < manager.rows)
  BY <1>2 DEF Value, References, Beyond, NoRef
<1>. QED
  BY <1>1, <1>2

LEMMA NoneIsReference == AllNone \in [Drive -> References]
BY DEF AllNone, References

\* A row lasts a number of ticks.
LEMMA DurationIsNat ==
  ASSUME NEW manager, Sound(manager), NEW idx \in Nat, idx < manager.rows
  PROVE  manager.file \in File /\ Durations[manager.file][idx + 1] \in Nat
<1>1. manager.file \in File /\ idx + 1 \in 1 .. Len(Durations[manager.file])
  <2>1. manager.file \in File /\ manager.rows <= Len(Durations[manager.file]) /\ manager.rows \in Nat
    BY DEF Sound, Managers
  <2>2. Len(Durations[manager.file]) \in Nat
    BY <2>1, ProgramAssumption
  <2>. QED
    BY <2>1, <2>2
<1>2. Durations[manager.file] \in Seq(0 .. Longest)
  BY <1>1, ProgramAssumption
<1>. QED
  BY <1>1, <1>2, ProgramAssumption

\* get(), of a manager that has rows and whose clock is in step with the history.
LEMMA GetInStep ==
  ASSUME NEW manager, Sound(manager), manager.rows # 0,
         NEW t \in Turns, InStep(manager, t),
         NEW given \in Given(manager)
  PROVE  /\ Sound(given.manager)
         /\ given.ref # NoRef =>
              LET row == given.manager.idx + 1
                  since == IF row = t.row THEN t ELSE [row |-> row, time |-> 0]
              IN /\ given.ref = Value(given.manager, given.manager.idx)
                 /\ given.ref \in References
                 /\ ~OutOfTurn(given.manager.file, t, row)
                 /\ InStep(given.manager, since)
<1>. DEFINE row == given.manager.idx + 1
            since == IF row = t.row THEN t ELSE [row |-> row, time |-> 0]
<1>1. /\ Longest \in Nat /\ manager \in Managers /\ t.row \in Nat /\ t.time \in 0 .. Longest + 1
      /\ manager.rows \in Nat /\ manager.idx \in Nat /\ manager.age \in 0 .. Longest + 2
  BY ProgramAssumption DEF Sound, Managers, Turns
<1>b. PICK begun :
        begun = IF manager.age = NoTime THEN [manager EXCEPT !.idx = 0, !.age = 0] ELSE manager
  OBVIOUS
<1>2. /\ begun \in Managers /\ Sound(begun) /\ begun.file = manager.file /\ begun.rows = manager.rows
      /\ begun.age \in 0 .. Longest + 1
      /\ manager.age = NoTime => begun.idx = 0 /\ begun.age = 0 /\ t.row = 0
      /\ manager.age # NoTime => begun = manager /\ t.row = begun.idx + 1 /\ t.time = begun.age
  <2>1. CASE manager.age = NoTime
    <3>1. begun = [manager EXCEPT !.idx = 0, !.age = 0]
      BY <1>b, <2>1
    <3>a. 0 \in Nat /\ 0 \in 0 .. Longest + 2
      BY <1>1
    <3>2. begun \in Managers
      BY ONLY <1>1, <3>1, <3>a DEF Managers
    <3>3. begun.file = manager.file /\ begun.rows = manager.rows /\ begun.idx = 0 /\ begun.age = 0
      BY <1>1, <3>1 DEF Managers
    <3>. QED
      BY <1>1, <2>1, <3>2, <3>3 DEF Sound, InStep
  <2>2. CASE manager.age # NoTime
    <3>1. begun = manager
      BY <1>b, <2>2
    <3>2. manager.age \in 0 .. Longest + 1
      BY <1>1, <2>2 DEF NoTime
    <3>. QED
      BY <1>1, <2>2, <3>1, <3>2 DEF InStep
  <2>. QED
    BY <2>1, <2>2
<1>3. CASE begun.idx >= begun.rows
  <2>1. given = [manager |-> begun, ref |-> NoRef]
    BY <1>3, <1>b DEF Given
  <2>. QED
    BY <1>2, <2>1
<1>4. CASE ~(begun.idx >= begun.rows)
  <2>1. begun.idx \in Nat /\ begun.rows \in Nat /\ begun.idx < begun.rows
    BY <1>2, <1>4 DEF Managers
  <2>2. PICK duration \in Nat : duration = Durations[begun.file][begun.idx + 1]
    BY <1>2, <2>1, DurationIsNat
  <2>3. PICK over \in Over(begun.age, duration) :
          given = [manager |-> IF over THEN NextRow(begun) ELSE begun,
                   ref |-> Value(IF over THEN NextRow(begun) ELSE begun,
                                 (IF over THEN NextRow(begun) ELSE begun).idx)]
    BY <1>4, <1>b, <2>2 DEF Given
  <2>4. CASE over
    <3>1. given.manager = NextRow(begun) /\ given.ref = Value(given.manager, given.manager.idx)
      BY <2>3, <2>4
    <3>2. /\ given.manager \in Managers /\ Sound(given.manager)
          /\ given.manager.idx = begun.idx + 1 /\ given.manager.age = 0
          /\ given.manager.file = begun.file
      <4>1. given.manager = [begun EXCEPT !.idx = begun.idx + 1, !.age = 0]
        BY <3>1 DEF NextRow
      <4>a. 0 \in 0 .. Longest + 2 /\ begun.idx + 1 \in Nat /\ begun \in Managers
        BY <1>1, <1>2, <2>1
      <4>2. given.manager \in Managers
        BY ONLY <4>1, <4>a DEF Managers
      <4>3. /\ given.manager.idx = begun.idx + 1 /\ given.manager.age = 0
            /\ given.manager.file = begun.file /\ given.manager.rows = begun.rows
        BY <1>2, <4>1 DEF Managers
      <4>. QED
        BY <1>2, <4>2, <4>3 DEF Sound
    <3>3. given.ref \in References
      BY <2>1, <3>1, <3>2, ValueIsReference
    <3>4. begun.age >= duration
      <4>1. begun.age > duration \/ begun.age >= duration
        BY <2>3, <2>4, Zenon DEF Over
      <4>. QED
        BY <1>1, <1>2, <4>1
    <3>5. row = begun.idx + 2 /\ row \in Nat /\ row # t.row
      BY <1>1, <1>2, <2>1, <3>2
    <3>6. ~(row < t.row)
      BY <1>1, <1>2, <2>1, <3>5
    <3>7. ASSUME NEW k \in 1 .. row - 1, k >= t.row,
                 Durations[begun.file][k] > IF k = t.row THEN t.time ELSE 0
          PROVE  FALSE
      <4>1. k = begun.idx + 1
        BY <1>1, <1>2, <2>1, <3>5, <3>7
      <4>2. duration > IF k = t.row THEN t.time ELSE 0
        BY <2>2, <3>7, <4>1
      <4>. QED
        BY <1>1, <1>2, <2>1, <2>2, <3>4, <4>1, <4>2
    <3>8. ~OutOfTurn(given.manager.file, t, row)
      BY <3>2, <3>6, <3>7 DEF OutOfTurn
    <3>9. InStep(given.manager, since)
      BY <1>1, <3>2, <3>5 DEF InStep, NoTime
    <3>. QED
      BY <3>1, <3>2, <3>3, <3>8, <3>9
  <2>5. CASE ~over
    <3>1. given.manager = begun /\ given.ref = Value(given.manager, given.manager.idx)
      BY <2>3, <2>5
    <3>2. given.ref \in References
      BY <1>2, <2>1, <3>1, ValueIsReference
    <3>3. row = begun.idx + 1 /\ row \in Nat
      BY <2>1, <3>1
    <3>4. ~(row < t.row)
      BY <1>1, <1>2, <2>1, <3>3
    <3>5. ~ \E k \in 1 .. row - 1 :
              k >= t.row /\ Durations[begun.file][k] > IF k = t.row THEN t.time ELSE 0
      <4>1. CASE manager.age = NoTime
        BY <1>2, <3>3, <4>1
      <4>2. CASE manager.age # NoTime
        BY <1>1, <1>2, <3>3, <4>2
      <4>. QED
        BY <4>1, <4>2
    <3>6. ~OutOfTurn(given.manager.file, t, row)
      BY <3>1, <3>4, <3>5 DEF OutOfTurn
    <3>7. InStep(given.manager, since)
      BY <1>1, <1>2, <3>1, <3>3 DEF InStep, NoTime
    <3>. QED
      BY <1>2, <3>1, <3>2, <3>6, <3>7
  <2>. QED
    BY <2>4, <2>5
<1>. QED
  BY <1>3, <1>4

\* The program's part of a frame, after which the history goes on.
Since(last, row) == IF row = last.row THEN last ELSE [row |-> row, time |-> 0]

LEMMA ProgrammedInStep ==
  ASSUME NEW p \in Panels, NEW manager, Sound(manager),
         NEW last \in Turns, InStep(manager, last),
         NEW drawn \in Programmed(p, manager, last)
  PROVE  /\ drawn.p \in Panels
         /\ drawn.p.in_run = p.in_run /\ drawn.p.control = p.control
         /\ drawn.p.drawn = p.drawn
         /\ Sound(drawn.manager)
         /\ drawn.row \in Nat
         /\ ~OutOfTurn(drawn.manager.file, last, drawn.row)
         /\ InStep(drawn.manager, Since(last, drawn.row))
         /\ (p.in_run /\ p.control = "program" /\ drawn.p.run) =>
              drawn.p.refs[p.drawn] \in {None, Value(drawn.manager, drawn.manager.idx)}
<1>. DEFINE driven == p.in_run /\ p.control = "program"
<1>1. /\ Longest \in Nat /\ manager \in Managers /\ last.row \in Nat
      /\ last.time \in 0 .. Longest + 1
      /\ p.run \in BOOLEAN /\ p.repeat \in BOOLEAN /\ p.drawn \in Drive
      /\ p.refs \in [Drive -> References]
  BY ProgramAssumption DEF Sound, Managers, Turns, Panels
<1>2. PICK start \in BOOLEAN : start = (p.run /\ (driven => manager.rows # 0))
  BY <1>1, Zenon
<1>3. PICK ran : ran = [p EXCEPT !.run = start]
  OBVIOUS
<1>4. /\ ran \in Panels
      /\ ran.run = start /\ ran.in_run = p.in_run /\ ran.control = p.control
      /\ ran.drawn = p.drawn /\ ran.refs = p.refs /\ ran.repeat = p.repeat
  BY <1>2, <1>3 DEF Panels
<1>5. drawn \in IF driven /\ ran.run THEN Taken(ran, manager)
                ELSE {[p |-> ran, manager |-> manager, row |-> last.row]}
  BY <1>2, <1>3 DEF Programmed
<1>6. CASE ~(driven /\ ran.run)
  <2>1. drawn = [p |-> ran, manager |-> manager, row |-> last.row]
    BY <1>5, <1>6
  <2>2. drawn.p = ran /\ drawn.manager = manager /\ drawn.row = last.row
    BY <2>1
  <2>3. ~OutOfTurn(drawn.manager.file, last, drawn.row)
    BY <1>1, <2>2 DEF OutOfTurn
  <2>4. Since(last, drawn.row) = last
    BY <2>2 DEF Since
  <2>. QED
    BY <1>1, <1>4, <1>6, <2>2, <2>3, <2>4
<1>7. CASE driven /\ ran.run
  <2>1. PICK given \in Given(manager) :
          drawn = IF given.ref # NoRef
                  THEN [p |-> [ran EXCEPT !.refs[ran.drawn] = given.ref],
                        manager |-> given.manager, row |-> given.manager.idx + 1]
                  ELSE [p |-> [ran EXCEPT !.refs[ran.drawn] = None, !.run = ran.repeat],
                        manager |-> Restarted(given.manager), row |-> 0]
    BY <1>5, <1>7 DEF Taken
  <2>2. manager.rows # 0
    BY <1>2, <1>4, <1>7
  <2>3. Sound(given.manager) /\ given.manager \in Managers
    BY <2>2, GetInStep DEF Sound
  <2>4. CASE given.ref # NoRef
    <3>1. drawn.p = [ran EXCEPT !.refs[ran.drawn] = given.ref]
          /\ drawn.manager = given.manager /\ drawn.row = given.manager.idx + 1
      BY <2>1, <2>4
    <3>2. /\ given.ref = Value(given.manager, given.manager.idx)
          /\ given.ref \in References
          /\ ~OutOfTurn(given.manager.file, last, given.manager.idx + 1)
          /\ InStep(given.manager, Since(last, given.manager.idx + 1))
      BY <2>2, <2>4, GetInStep DEF Since
    <3>3. [ran.refs EXCEPT ![ran.drawn] = given.ref] \in [Drive -> References]
      BY <1>1, <1>4, <3>2
    <3>4. /\ drawn.p \in Panels
          /\ drawn.p.in_run = p.in_run /\ drawn.p.control = p.control
          /\ drawn.p.drawn = p.drawn
          /\ drawn.p.refs[p.drawn] = given.ref
      BY <1>1, <1>4, <3>1, <3>3 DEF Panels
    <3>5. drawn.row \in Nat
      BY <2>3, <3>1 DEF Managers
    <3>. QED
      BY <2>3, <3>1, <3>2, <3>4, <3>5
  <2>5. CASE given.ref = NoRef
    <3>1. drawn.p = [ran EXCEPT !.refs[ran.drawn] = None, !.run = ran.repeat]
          /\ drawn.manager = Restarted(given.manager) /\ drawn.row = 0
      BY <2>1, <2>5
    <3>2. [ran.refs EXCEPT ![ran.drawn] = None] \in [Drive -> References]
      BY <1>1, <1>4 DEF References
    <3>3. /\ drawn.p \in Panels
          /\ drawn.p.in_run = p.in_run /\ drawn.p.control = p.control
          /\ drawn.p.drawn = p.drawn
          /\ drawn.p.refs[p.drawn] = None
      BY <1>1, <1>4, <3>1, <3>2 DEF Panels
    <3>4. /\ drawn.manager \in Managers /\ drawn.manager.age = NoTime
          /\ drawn.manager.file = given.manager.file
          /\ drawn.manager.rows = given.manager.rows
      <4>1. NoTime \in 0 .. Longest + 2 /\ 0 \in Nat
        BY <1>1 DEF NoTime
      <4>. QED
        BY ONLY <2>3, <3>1, <4>1 DEF Restarted, Managers
    <3>5. Sound(drawn.manager)
      BY <2>3, <3>4 DEF Sound
    <3>6. ~OutOfTurn(drawn.manager.file, last, drawn.row)
      BY <3>1 DEF OutOfTurn
    <3>7. InStep(drawn.manager, Since(last, drawn.row))
      BY <3>1, <3>4 DEF InStep, Since
    <3>. QED
      BY <3>1, <3>3, <3>5, <3>6, <3>7
  <2>. QED
    BY <2>4, <2>5
<1>. QED
  BY <1>6, <1>7

\* The rest of a frame, once the operator has changed the panel and perhaps
\* loaded or forgotten programs.
LEMMA FrameInv ==
  ASSUME ProgramInv, NEW p \in Panels, NEW managers \in [Drive -> Managers],
         \A drive \in Drive :
           /\ Sound(managers[drive])
           /\ managers[drive] # program[drive] => managers[drive].age = NoTime,
         Frame(p, managers)
  PROVE  ProgramInv'
<1>. DEFINE lasts == [drive \in Drive |->
                       IF managers[drive] = program[drive] THEN turn[drive] ELSE NoTurn]
            last == lasts[p.drawn]
<1>1. /\ p.drawn \in Drive /\ p.picked \in Drive /\ Longest \in Nat
      /\ turn \in [Drive -> Turns] /\ NoTurn \in Turns
  BY ProgramAssumption DEF ProgramInv, Panels, Turns, NoTurn
<1>2. \A drive \in Drive : lasts[drive] \in Turns /\ InStep(managers[drive], lasts[drive])
  <2>. TAKE drive \in Drive
  <2>1. CASE managers[drive] = program[drive]
    BY <1>1, <2>1 DEF ProgramInv, ProgramsInStep
  <2>2. CASE managers[drive] # program[drive]
    BY <1>1, <2>2 DEF InStep, NoTurn
  <2>. QED
    BY <2>1, <2>2
<1>3. PICK old : old = last
  OBVIOUS
<1>4. PICK drawn \in Programmed(p, managers[p.drawn], old) :
        /\ panel' = Updated([drawn.p EXCEPT !.refs = OneKept(drawn.p)])
        /\ program' = [managers EXCEPT ![p.drawn] = drawn.manager]
        /\ hurried' = (hurried \/ OutOfTurn(drawn.manager.file, old, drawn.row))
        /\ turn' = [lasts EXCEPT ![p.drawn] = Since(old, drawn.row)]
  <2>1. PICK drawn \in Programmed(p, managers[p.drawn], old) :
        /\ panel' = Updated([drawn.p EXCEPT !.refs = OneKept(drawn.p)])
        /\ program' = [managers EXCEPT ![p.drawn] = drawn.manager]
        /\ hurried' = (hurried \/ OutOfTurn(drawn.manager.file, old, drawn.row))
        /\ turn' = [lasts EXCEPT ![p.drawn] =
                      IF drawn.row = old.row THEN @ ELSE [row |-> drawn.row, time |-> 0]]
    BY <1>3 DEF Frame
  <2>. QED
    BY <1>1, <1>3, <2>1 DEF Since
<1>5. PICK m : m = managers[p.drawn]
  OBVIOUS
<1>6. /\ old \in Turns /\ InStep(m, old) /\ Sound(m) /\ drawn \in Programmed(p, m, old)
  BY <1>1, <1>2, <1>3, <1>4, <1>5
<1>7. /\ drawn.p \in Panels
      /\ drawn.p.in_run = p.in_run /\ drawn.p.control = p.control
      /\ drawn.p.drawn = p.drawn
      /\ Sound(drawn.manager) /\ drawn.manager \in Managers
      /\ drawn.row \in Nat
      /\ ~OutOfTurn(drawn.manager.file, old, drawn.row)
      /\ InStep(drawn.manager, Since(old, drawn.row))
      /\ (p.in_run /\ p.control = "program" /\ drawn.p.run) =>
           drawn.p.refs[p.drawn] \in {None, Value(drawn.manager, drawn.manager.idx)}
  BY <1>6, ProgrammedInStep DEF Sound
<1>8. PICK kept : kept = OneKept(drawn.p)
  OBVIOUS
<1>9. /\ kept \in [Drive -> References]
      /\ p.in_run => kept = [AllNone EXCEPT ![p.drawn] = drawn.p.refs[p.drawn]]
  <2>1. AllNone \in [Drive -> References]
    BY NoneIsReference
  <2>2. drawn.p.refs \in [Drive -> References] /\ drawn.p.refs[p.drawn] \in References
    BY <1>1, <1>7 DEF Panels
  <2>3. kept = IF p.in_run THEN [AllNone EXCEPT ![p.drawn] = drawn.p.refs[p.drawn]]
               ELSE drawn.p.refs
    BY <1>7, <1>8 DEF OneKept
  <2>4. [AllNone EXCEPT ![p.drawn] = drawn.p.refs[p.drawn]] \in [Drive -> References]
    BY ONLY <1>1, <2>1, <2>2
  <2>. QED
    BY <2>2, <2>3, <2>4
<1>10. PICK run \in BOOLEAN : run = (drawn.p.run /\ ~unwell)
  BY Zenon
<1>11. panel' = [drawn.p EXCEPT !.refs = kept, !.run = run, !.drawn = drawn.p.picked]
  BY <1>4, <1>7, <1>8, <1>10 DEF Updated, Panels
<1>12. /\ panel' \in Panels
       /\ panel'.in_run = p.in_run /\ panel'.control = p.control
       /\ panel'.run = run /\ panel'.refs = kept /\ panel'.drawn \in Drive
  BY ONLY <1>7, <1>9, <1>10, <1>11 DEF Panels
<1>13. program' \in [Drive -> Managers] /\ program'[p.drawn] = drawn.manager
  BY <1>1, <1>4, <1>7
<1>14. Since(old, drawn.row) \in Turns
  BY <1>1, <1>6, <1>7 DEF Since, Turns
<1>15. turn' \in [Drive -> Turns]
  BY <1>1, <1>2, <1>4, <1>14
<1>16. ProgramsInStep'
  <2>. SUFFICES ASSUME NEW drive \in Drive
                PROVE  Sound(program'[drive]) /\ InStep(program'[drive], turn'[drive])
    BY DEF ProgramsInStep, Sound, InStep, Value
  <2>1. CASE drive = p.drawn
    BY <1>1, <1>4, <1>7, <1>13, <2>1
  <2>2. CASE drive # p.drawn
    BY <1>1, <1>2, <1>4, <2>2
  <2>. QED
    BY <2>1, <2>2
<1>17. FollowsTheProgram'
  <2>. SUFFICES ASSUME panel'.in_run, panel'.control = "program", panel'.run
                PROVE  panel'.refs[panel'.drawn] \in
                         {None, Value(program'[panel'.drawn], program'[panel'.drawn].idx)}
    BY DEF FollowsTheProgram, ProgramDrawn, Value
  <2>1. drawn.p.run /\ p.in_run /\ p.control = "program"
    BY <1>10, <1>12
  <2>2. drawn.p.refs[p.drawn] \in {None, Value(drawn.manager, drawn.manager.idx)}
    BY <1>7, <2>1
  <2>3. panel'.refs = [AllNone EXCEPT ![p.drawn] = drawn.p.refs[p.drawn]]
    BY <1>9, <1>12, <2>1
  <2>4. CASE panel'.drawn = p.drawn
    BY <1>1, <1>13, <2>2, <2>3, <2>4 DEF AllNone
  <2>5. CASE panel'.drawn # p.drawn
    BY <1>1, <1>12, <2>3, <2>5 DEF AllNone
  <2>. QED
    BY <2>4, <2>5
<1>18. RowsInTurn'
  BY <1>4, <1>7 DEF RowsInTurn, ProgramInv
<1>. QED
  BY <1>12, <1>13, <1>15, <1>16, <1>17, <1>18 DEF ProgramInv

-----------------------------------------------------------------------------
\* A frame in which no program is loaded or forgotten.
LEMMA SameProgramsFrame ==
  ASSUME ProgramInv, NEW p \in Panels, Frame(p, program)
  PROVE  ProgramInv'
<1>1. program \in [Drive -> Managers] /\ \A drive \in Drive : Sound(program[drive])
  BY DEF ProgramInv, ProgramsInStep
<1>. QED
  BY <1>1, FrameInv

\* What the operator has just loaded or forgotten is sound, and its clock stands.
LEMMA JustLoaded ==
  ASSUME NEW file \in File, NEW rows \in 0 .. Len(Durations[file]), NEW manager
  PROVE  /\ Sound(ReadFile(file, manager, rows))
         /\ ReadFile(file, manager, rows).age = NoTime
<1>1. /\ Longest \in Nat /\ Len(Durations[file]) \in Nat
      /\ NoTime \in 0 .. Longest + 2 /\ 0 \in Nat /\ rows \in Nat
  BY ProgramAssumption DEF NoTime
<1>2. PICK empty : empty = [file |-> NoFile, rows |-> 0, idx |-> 0, age |-> NoTime]
  OBVIOUS
<1>3. ReadFile(file, manager, rows) = [empty EXCEPT !.file = file, !.rows = rows]
  BY <1>2 DEF ReadFile, Unloaded
<1>4. empty \in Managers /\ empty.age = NoTime
  BY ONLY <1>1, <1>2 DEF Managers
<1>5. PICK loaded : loaded = [empty EXCEPT !.file = file, !.rows = rows]
  OBVIOUS
<1>6. /\ loaded \in Managers /\ loaded.age = NoTime
      /\ loaded.file = file /\ loaded.rows = rows
  BY <1>1, <1>4, <1>5 DEF Managers
<1>7. Sound(loaded)
  BY <1>1, <1>6 DEF Sound
<1>. QED
  BY <1>3, <1>5, <1>6, <1>7

LEMMA UnloadedIsSound == Sound(Unloaded) /\ Unloaded.age = NoTime
<1>1. Longest \in Nat /\ NoTime \in 0 .. Longest + 2 /\ 0 \in Nat
  BY ProgramAssumption DEF NoTime
<1>. QED
  BY <1>1 DEF Sound, Managers, Unloaded

LEMMA ProgramInitInv == ProgramInit => ProgramInv
<1>. SUFFICES ASSUME ProgramInit PROVE ProgramInv
  OBVIOUS
<1>2. panel \in Panels
  BY NoneIsReference DEF ProgramInit, Panels, Drive
<1>3. program \in [Drive -> Managers]
  BY UnloadedIsSound DEF ProgramInit, Sound
<1>4. turn \in [Drive -> Turns]
  BY ProgramAssumption DEF ProgramInit, Turns, NoTurn
<1>5. ProgramsInStep
  BY UnloadedIsSound DEF ProgramInit, ProgramsInStep, InStep, NoTurn
<1>. QED
  BY <1>2, <1>3, <1>4, <1>5
     DEF ProgramInit, ProgramInv, FollowsTheProgram, ProgramDrawn, RowsInTurn

LEMMA FramesInv ==
  ASSUME ProgramInv, UiFrames
  PROVE  ProgramInv'
<1>1. /\ panel \in Panels /\ panel.drawn \in Drive
      /\ program \in [Drive -> Managers]
      /\ \A drive \in Drive : Sound(program[drive])
  BY DEF ProgramInv, ProgramsInStep, Panels
<1>2. CASE UiLooks
  BY <1>1, <1>2, SameProgramsFrame DEF UiLooks
<1>3. CASE UiRun
  <2>1. PICK p : p = [panel EXCEPT !.run = ~@]
    OBVIOUS
  <2>2. (~panel.run) \in BOOLEAN
    BY Zenon
  <2>3. p \in Panels
    BY <1>1, <2>1, <2>2 DEF Panels
  <2>. QED
    BY <1>3, <2>1, <2>3, SameProgramsFrame DEF UiRun
<1>4. CASE UiChooseMode
  <2>1. PICK p : p = [panel EXCEPT !.in_run = ~@, !.run = FALSE, !.refs = AllNone,
                                   !.control = "manual"]
    OBVIOUS
  <2>2. (~panel.in_run) \in BOOLEAN
    BY Zenon
  <2>3. p \in Panels
    BY <1>1, <2>1, <2>2, NoneIsReference DEF Panels
  <2>. QED
    BY <1>4, <2>1, <2>3, SameProgramsFrame DEF UiChooseMode
<1>5. CASE UiRepeat
  <2>1. PICK p : p = [panel EXCEPT !.repeat = ~@]
    OBVIOUS
  <2>2. (~panel.repeat) \in BOOLEAN
    BY Zenon
  <2>3. p \in Panels
    BY <1>1, <2>1, <2>2 DEF Panels
  <2>. QED
    BY <1>5, <2>1, <2>3, SameProgramsFrame DEF UiRepeat
<1>6. CASE UiOpenDialog
  <2>1. PICK p : p = [panel EXCEPT !.dialog = TRUE]
    OBVIOUS
  <2>2. p \in Panels
    BY <1>1, <2>1 DEF Panels
  <2>. QED
    BY <1>6, <2>1, <2>2, SameProgramsFrame DEF UiOpenDialog
<1>7. CASE UiCloseDialog
  <2>1. PICK p : p = [panel EXCEPT !.dialog = FALSE]
    OBVIOUS
  <2>2. p \in Panels
    BY <1>1, <2>1 DEF Panels
  <2>. QED
    BY <1>7, <2>1, <2>2, SameProgramsFrame DEF UiCloseDialog
<1>8. CASE UiEnter
  <2>1. PICK p : p = [panel EXCEPT !.refs[panel.drawn] = Entered]
    OBVIOUS
  <2>2. [panel.refs EXCEPT ![panel.drawn] = Entered] \in [Drive -> References]
    BY <1>1 DEF Panels, References
  <2>3. p \in Panels
    BY <1>1, <2>1, <2>2 DEF Panels
  <2>. QED
    BY <1>8, <2>1, <2>3, SameProgramsFrame DEF UiEnter
<1>9. ASSUME NEW control \in {"manual", "program"}, UiChooseControl(control)
      PROVE  ProgramInv'
  <2>1. PICK p : p = [panel EXCEPT !.control = control, !.run = FALSE, !.refs = AllNone]
    OBVIOUS
  <2>2. p \in Panels
    BY <1>1, <2>1, NoneIsReference DEF Panels
  <2>3. PICK managers : managers = [drive \in Drive |-> Unloaded]
    OBVIOUS
  <2>4. /\ managers \in [Drive -> Managers]
        /\ \A drive \in Drive : Sound(managers[drive]) /\ managers[drive].age = NoTime
    BY <2>3, UnloadedIsSound DEF Sound
  <2>5. Frame(p, managers)
    BY <1>9, <2>1, <2>3 DEF UiChooseControl
  <2>. QED
    BY <2>2, <2>4, <2>5, FrameInv
<1>10. ASSUME NEW file \in File, NEW rows \in 0 .. Len(Durations[file]),
              UiPickFile(file, rows)
       PROVE  ProgramInv'
  <2>1. PICK p : p = [panel EXCEPT !.dialog = FALSE]
    OBVIOUS
  <2>2. p \in Panels
    BY <1>1, <2>1 DEF Panels
  <2>3. PICK loaded : loaded = ReadFile(file, program[panel.drawn], rows)
    OBVIOUS
  <2>4. Sound(loaded) /\ loaded.age = NoTime /\ loaded \in Managers
    BY <2>3, JustLoaded DEF Sound
  <2>5. PICK managers : managers = [program EXCEPT ![panel.drawn] = loaded]
    OBVIOUS
  <2>6. /\ managers \in [Drive -> Managers]
        /\ \A drive \in Drive :
             /\ Sound(managers[drive])
             /\ managers[drive] # program[drive] => managers[drive].age = NoTime
    BY <1>1, <2>4, <2>5
  <2>7. Frame(p, managers)
    BY <1>1, <1>10, <2>1, <2>3, <2>5 DEF UiPickFile
  <2>. QED
    BY <2>2, <2>6, <2>7, FrameInv
<1>11. ASSUME NEW drive \in Drive, UiPickDrive(drive)
       PROVE  ProgramInv'
  <2>1. PICK p : p = [panel EXCEPT !.picked = drive]
    OBVIOUS
  <2>2. p \in Panels
    BY <1>1, <2>1 DEF Panels
  <2>. QED
    BY <1>11, <2>1, <2>2, SameProgramsFrame DEF UiPickDrive
<1>. QED
  BY <1>2, <1>3, <1>4, <1>5, <1>6, <1>7, <1>8, <1>9, <1>10, <1>11 DEF UiFrames

\* The clocks and the history's go on together.
LEMMA TicksInv ==
  ASSUME ProgramInv, Ticks
  PROVE  ProgramInv'
<1>1. /\ Longest \in Nat /\ panel \in Panels /\ panel.drawn \in Drive
      /\ program \in [Drive -> Managers] /\ turn \in [Drive -> Turns]
      /\ \A drive \in Drive : Sound(program[drive]) /\ InStep(program[drive], turn[drive])
  BY ProgramAssumption DEF ProgramInv, ProgramsInStep, Panels
<1>2. \A drive \in Drive :
        /\ program'[drive] \in Managers /\ turn'[drive] \in Turns
        /\ program'[drive].file = program[drive].file
        /\ program'[drive].rows = program[drive].rows
        /\ program'[drive].idx = program[drive].idx
        /\ InStep(program'[drive], turn'[drive])
  <2>. TAKE drive \in Drive
  <2>1. PICK age : age = program[drive].age
    OBVIOUS
  <2>2. PICK time : time = turn[drive].time
    OBVIOUS
  <2>3. PICK older \in 0 .. Longest + 2 : older = IF age <= Longest THEN age + 1 ELSE age
    BY <1>1, <2>1 DEF Managers
  <2>4. PICK later \in 0 .. Longest + 1 : later = IF time <= Longest THEN time + 1 ELSE time
    BY <1>1, <2>2 DEF Turns
  <2>5. program'[drive] = [program[drive] EXCEPT !.age = older]
    BY <2>1, <2>3 DEF Ticks
  <2>6. turn'[drive] = [turn[drive] EXCEPT !.time = later]
    BY <2>2, <2>4 DEF Ticks
  <2>7. /\ program'[drive] \in Managers /\ program'[drive].age = older
        /\ program'[drive].file = program[drive].file
        /\ program'[drive].rows = program[drive].rows
        /\ program'[drive].idx = program[drive].idx
    BY <1>1, <2>5 DEF Managers
  <2>8. turn'[drive] \in Turns /\ turn'[drive].row = turn[drive].row /\ turn'[drive].time = later
    BY <1>1, <2>6 DEF Turns
  <2>9. age \in 0 .. Longest + 2 /\ time \in 0 .. Longest + 1
    BY <1>1, <2>1, <2>2 DEF Managers, Turns
  <2>10. older = NoTime <=> age = NoTime
    BY <1>1, <2>3, <2>9 DEF NoTime
  <2>11. age = time => older = later
    BY <1>1, <2>3, <2>4, <2>9
  <2>. QED
    BY <1>1, <2>1, <2>2, <2>7, <2>8, <2>10, <2>11 DEF InStep
<1>3. program' \in [Drive -> Managers] /\ turn' \in [Drive -> Turns]
  BY <1>1, <1>2 DEF Ticks
<1>4. ProgramsInStep'
  <2>. SUFFICES ASSUME NEW drive \in Drive
                PROVE  Sound(program'[drive]) /\ InStep(program'[drive], turn'[drive])
    BY DEF ProgramsInStep, Sound, InStep, Value
  <2>. QED
    BY <1>1, <1>2 DEF Sound
<1>5. panel' = panel /\ hurried' = hurried
  BY DEF Ticks
<1>6. FollowsTheProgram'
  BY <1>1, <1>2, <1>5 DEF FollowsTheProgram, ProgramDrawn, Value, ProgramInv
<1>. QED
  BY <1>1, <1>3, <1>4, <1>5, <1>6 DEF ProgramInv, RowsInTurn

LEMMA NothingMovesInv ==
  ASSUME ProgramInv, UNCHANGED <<panel, program, turn, hurried>>
  PROVE  ProgramInv'
BY DEF ProgramInv, ProgramsInStep, FollowsTheProgram, ProgramDrawn, RowsInTurn, Sound, InStep,
       Value

\* While a test program runs the drive, its mode's reference is zero or that of
\* the row the program has come to, and the rows are given in the order of the
\* file, each for its time: for any files, durations and bound on the clock,
\* whatever is loaded, stopped, picked or left closed meanwhile.
THEOREM ProgramIsFollowedAlways == ProgramSpec => []ProgramIsFollowed
<1>1. ProgramInv /\ [ProgramNext]_programvars => ProgramInv'
  <2>. SUFFICES ASSUME ProgramInv, [ProgramNext]_programvars
                PROVE  ProgramInv'
    OBVIOUS
  <2>1. CASE UiFrames
    BY <2>1, FramesInv
  <2>2. CASE Ticks
    BY <2>2, TicksInv
  <2>3. CASE UnwellChanges
    BY <2>3, NothingMovesInv DEF UnwellChanges
  <2>4. CASE UNCHANGED programvars
    BY <2>4, NothingMovesInv DEF programvars
  <2>. QED
    BY <2>1, <2>2, <2>3, <2>4 DEF ProgramNext
<1>2. ProgramInv => ProgramIsFollowed
  BY DEF ProgramInv, ProgramIsFollowed
<1>. QED
  BY ProgramInitInv, <1>1, <1>2, PTL DEF ProgramSpec
-----------------------------------------------------------------------------
(* The command panels.                                                     *)

\* What each table comes to.
Switches ==
  {"valve", "contactor", "inlet", "outlet", "start", "torque", "speed", "angle", "overlap", "calibrate"}

\* Where in _update_refs what goes in trouble is stored.
Place(switch) ==
  IF switch = "start" THEN 1 ELSE IF switch \in {"valve", "inlet"} THEN 2 ELSE 3

LEMMA Tables ==
  ASSUME device \in Device
  PROVE  /\ Len(Stores) \in Nat /\ Len(Stores) > 0
         /\ Len(Frames) \in Nat /\ Len(Frames) > 0 /\ DOMAIN Frames = 1 .. Len(Frames)
         /\ device = "chss" => Len(Frames) = 1
         /\ Cleared \subseteq Switches
         /\ Bound \subseteq Switches
         /\ \A c \in Cleared :
              /\ Place(c) \in Nat /\ Place(c) <= Len(Stores)
              /\ Stores[Place(c)] = c \/ (c = "start" /\ Stores[Place(c)] = "status")
         /\ IF device \in Guest
            THEN Cleared = Bound /\ \A c \in Cleared : ModeOf[c] = "purge"
            ELSE Cleared \cap Bound = {}
<1>1. CASE device = "cshpp"
  <2>1. Stores = <<"mode", "valve", "contactor">> /\ Cleared = {"valve", "contactor"}
    BY <1>1 DEF Stores, Cleared, Update, CshppUpdate
  <2>2. Len(Frames) \in Nat /\ Len(Frames) > 0 /\ DOMAIN Frames = 1 .. Len(Frames)
        /\ (device = "chss" => Len(Frames) = 1)
    BY <1>1 DEF Frames, CshppFrames
  <2>3. ModeOf = [valve |-> "purge", contactor |-> "purge"]
    BY <1>1 DEF Modes, CshppModes, ModeOf
  <2>4. PICK of : of = [valve |-> "purge", contactor |-> "purge"]
    OBVIOUS
  <2>5. DOMAIN of = {"valve", "contactor"} /\ of["valve"] = "purge" /\ of["contactor"] = "purge"
    BY <2>4
  <2>6. Bound = Cleared /\ \A c \in Cleared : ModeOf[c] = "purge"
    BY <2>1, <2>3, <2>4, <2>5 DEF Bound
  <2>7. Place("valve") = 2 /\ Place("contactor") = 3
    BY DEF Place
  <2>8. Len(Stores) = 3 /\ Stores[2] = "valve" /\ Stores[3] = "contactor"
    BY <2>1
  <2> QED
    BY <1>1, <2>1, <2>2, <2>6, <2>7, <2>8 DEF Switches, Guest
<1>2. CASE device = "chss"
  <2>1. Stores = <<"mode", "inlet", "outlet">> /\ Cleared = {"inlet", "outlet"}
    BY <1>2 DEF Stores, Cleared, Update, ChssUpdate
  <2>2. Len(Frames) \in Nat /\ Len(Frames) > 0 /\ DOMAIN Frames = 1 .. Len(Frames)
        /\ (device = "chss" => Len(Frames) = 1)
    BY <1>2 DEF Frames, ChssFrames
  <2>3. ModeOf = [inlet |-> "purge", outlet |-> "purge"]
    BY <1>2 DEF Modes, ChssModes, ModeOf
  <2>4. PICK of : of = [inlet |-> "purge", outlet |-> "purge"]
    OBVIOUS
  <2>5. DOMAIN of = {"inlet", "outlet"} /\ of["inlet"] = "purge" /\ of["outlet"] = "purge"
    BY <2>4
  <2>6. Bound = Cleared /\ \A c \in Cleared : ModeOf[c] = "purge"
    BY <2>1, <2>3, <2>4, <2>5 DEF Bound
  <2>7. Place("inlet") = 2 /\ Place("outlet") = 3
    BY DEF Place
  <2>8. Len(Stores) = 3 /\ Stores[2] = "inlet" /\ Stores[3] = "outlet"
    BY <2>1
  <2> QED
    BY <1>2, <2>1, <2>2, <2>6, <2>7, <2>8 DEF Switches, Guest
<1>3. CASE device = "shm80"
  BY <1>3 DEF Stores, Cleared, Update, Shm80Update, Frames, Shm80Frames, Modes, DriveModes, ModeOf, Bound, Switches, Place, Guest
<1>4. CASE device = "sevpress"
  BY <1>4 DEF Stores, Cleared, Update, SevpressUpdate, Frames, SevpressFrames, Modes, SevpressModes, ModeOf, Bound, Switches, Place, Guest
<1>5. CASE device = "psfb"
  BY <1>5 DEF Stores, Cleared, Update, PsfbUpdate, Frames, PsfbFrames, Modes, PsfbModes, ModeOf, Bound, Switches, Place, Guest
<1>6. CASE device = "loco"
  BY <1>6 DEF Stores, Cleared, Update, LocoUpdate, Frames, LocoFrames, Modes, DriveModes, ModeOf, Bound, Switches, Place, Guest
<1>7. CASE device = "srmdrive"
  BY <1>7 DEF Stores, Cleared, Update, SrmdriveUpdate, Frames, SrmdriveFrames, Modes, DriveModes, ModeOf, Bound, Switches, Place, Guest
<1>8. CASE device = "brkdrive"
  BY <1>8 DEF Stores, Cleared, Update, BrkdriveUpdate, Frames, BrkdriveFrames, Modes, DriveModes, ModeOf, Bound, Switches, Place, Guest
<1> QED
  BY <1>1, <1>2, <1>3, <1>4, <1>5, <1>6, <1>7, <1>8 DEF Device

Drawings ==
  [at : {"rest", "update"}, clicked : BOOLEAN]
    \cup [at : {"switch"}, to : BOOLEAN, rpdo : Nat]
    \cup [at : {"store"}, clicked : BOOLEAN, next : Nat, gone : SUBSET Switches]

CommandShapes ==
  /\ device \in Device
  /\ draw \in Drawings
  /\ draw.at = "switch" => draw.rpdo > 0 /\ draw.rpdo <= Len(Frames)
  /\ draw.at = "store" => draw.next > 0 /\ draw.next <= Len(Stores)
  /\ cells = [mode |-> cells.mode, on |-> cells.on]
  /\ aired \subseteq DOMAIN Frames

\* A step of the operator's widgets, other than to the switching of RPDOs.
Draws == 
  \/ DrawIdle \/ DrawOpmode
  \/ \E to \in Pickable : DrawPick(to)
  \/ \E switch \in Offered : DrawSwitch(switch)

LEMMA DrawsRest ==
  ASSUME CommandShapes, Draws
  PROVE  /\ draw.at = "rest" /\ draw'.at = "update" /\ draw' \in Drawings
         /\ UNCHANGED <<device, drawn_mode, cells, nodevars, aired, sendvars, asked>>
<1>1. /\ draw.at = "rest" /\ \E clicked \in BOOLEAN : Rest(clicked)
      /\ UNCHANGED asked
  <2>1. CASE DrawIdle \/ DrawOpmode \/ \E switch \in Offered : DrawSwitch(switch)
    BY <2>1 DEF DrawIdle, DrawOpmode, DrawSwitch
  <2>2. CASE \E to \in Pickable : DrawPick(to)
    <3>1. PICK to : DrawPick(to)
      BY <2>2
    <3>2. draw = [at |-> "rest", clicked |-> FALSE]
      BY <3>1 DEF DrawPick, Resting
    <3>3. draw.at = "rest"
      BY <3>2
    <3> QED
      BY <3>1, <3>3 DEF DrawPick
  <2> QED
    BY <2>1, <2>2 DEF Draws
<1>2. PICK clicked \in BOOLEAN : Rest(clicked)
  BY <1>1
<1>3. draw' = [at |-> "update", clicked |-> clicked]
      /\ UNCHANGED <<device, drawn_mode, cells, nodevars, aired, sendvars>>
  BY <1>2 DEF Rest
<1> QED
  BY <1>1, <1>3 DEF Drawings

LEMMA Drawing ==
  ASSUME NEW d \in Drawings
  PROVE  /\ d.at \in {"rest", "update", "switch", "store"}
         /\ d.at \in {"rest", "update", "store"} => d.clicked \in BOOLEAN
         /\ d.at = "switch" => d = [at |-> "switch", to |-> d.to, rpdo |-> d.rpdo]
                               /\ d.to \in BOOLEAN /\ d.rpdo \in Nat
         /\ d.at = "store" => d = [at |-> "store", clicked |-> d.clicked, next |-> d.next, gone |-> d.gone]
                              /\ d.next \in Nat /\ d.gone \in SUBSET Switches
<1>1. CASE d \in [at : {"rest", "update"}, clicked : BOOLEAN]
  BY <1>1
<1>2. CASE d \in [at : {"switch"}, to : BOOLEAN, rpdo : Nat]
  BY <1>2
<1>3. CASE d \in [at : {"store"}, clicked : BOOLEAN, next : Nat, gone : SUBSET Switches]
  BY <1>3
<1> QED
  BY <1>1, <1>2, <1>3 DEF Drawings

LEMMA SwitchesNext ==
  ASSUME CommandShapes, UiSwitch
  PROVE  IF draw.rpdo < Len(Frames)
         THEN draw' = [at |-> "switch", to |-> draw.to, rpdo |-> draw.rpdo + 1] /\ asked' = asked
         ELSE draw' = [at |-> "update", clicked |-> FALSE] /\ asked' = draw.to
<1>1. draw = [at |-> "switch", to |-> draw.to, rpdo |-> draw.rpdo]
  BY Drawing DEF CommandShapes, UiSwitch
<1> QED
  BY <1>1 DEF UiSwitch

LEMMA StoresNext ==
  ASSUME CommandShapes, UiStoreCell
  PROVE  IF draw.next < Len(Stores)
         THEN draw' = [at |-> "store", clicked |-> draw.clicked, next |-> draw.next + 1, gone |-> draw.gone]
              /\ anew' = anew
         ELSE draw' = [at |-> "rest", clicked |-> draw.clicked] /\ anew' = anew \ draw.gone
<1>1. draw = [at |-> "store", clicked |-> draw.clicked, next |-> draw.next, gone |-> draw.gone]
  BY Drawing DEF CommandShapes, UiStoreCell
<1> QED
  BY <1>1 DEF UiStoreCell, Resting

\* What a store leaves in the cells.
LEMMA CellStored ==
  ASSUME CommandShapes, UiStoreCell
  PROVE  LET cell == Stores[draw.next] IN
           /\ cells' = [mode |-> cells'.mode, on |-> cells'.on]
           /\ cells'.on = IF cell = "mode" THEN cells.on
                          ELSE IF cell = "status" THEN StoredStatus
                          ELSE (cells.on \ {cell}) \cup (lit \cap {cell})
           /\ cells'.mode = IF cell = "mode" THEN drawn_mode ELSE cells.mode
<1> DEFINE cell == Stores[draw.next]
<1>1. PICK to, on : cells = [mode |-> to, on |-> on] /\ cells.mode = to /\ cells.on = on
  BY DEF CommandShapes
<1>2. cells' = CASE cell = "mode" -> [cells EXCEPT !.mode = drawn_mode]
                 [] cell = "status" -> [cells EXCEPT !.on = StoredStatus]
                 [] OTHER -> [cells EXCEPT !.on = (@ \ {cell}) \cup (lit \cap {cell})]
  BY DEF UiStoreCell
<1> HIDE DEF cell
<1>3. CASE cell = "mode"
  <2>1. cells' = [mode |-> drawn_mode, on |-> on]
    BY <1>1, <1>2, <1>3
  <2> QED
    BY <1>1, <1>3, <2>1 DEF cell
<1>4. CASE cell = "status"
  <2>1. cells' = [mode |-> to, on |-> StoredStatus]
    BY <1>1, <1>2, <1>4
  <2> QED
    BY <1>1, <1>4, <2>1 DEF cell
<1>5. CASE cell \notin {"mode", "status"}
  <2>1. cells' = [mode |-> to, on |-> (on \ {cell}) \cup (lit \cap {cell})]
    BY <1>1, <1>2, <1>5
  <2> QED
    BY <1>1, <1>5, <2>1 DEF cell
<1> QED
  BY <1>3, <1>4, <1>5

-----------------------------------------------------------------------------
LEMMA ShapesBegin == CommandInit => CommandShapes
<1> SUFFICES ASSUME CommandInit PROVE CommandShapes
  OBVIOUS
<1>1. draw = [at |-> "rest", clicked |-> FALSE] /\ draw.at = "rest" /\ draw \in Drawings
  BY DEF CommandInit, Resting, Drawings
<1>2. PICK to : cells = [mode |-> to, on |-> {}]
  BY DEF CommandInit
<1>3. cells = [mode |-> cells.mode, on |-> cells.on]
  BY <1>2
<1>4. device \in Device /\ aired \subseteq DOMAIN Frames
  BY DEF CommandInit
<1> QED
  BY <1>1, <1>3, <1>4 DEF CommandShapes

LEMMA ShapesStay == ASSUME CommandShapes, [CommandNext]_cmdvars PROVE CommandShapes'
<1>0. device' = device => Frames' = Frames /\ Stores' = Stores
  BY DEF Frames, Stores, Update
<1>1. CASE Draws
  BY <1>0, <1>1, DrawsRest DEF CommandShapes
<1>2. CASE DrawCommanding
  <2>0. PICK to \in BOOLEAN : to = ~InCommand
    OBVIOUS
  <2>1. draw' = [at |-> "switch", to |-> to, rpdo |-> 1]
        /\ UNCHANGED <<device, cells, aired>>
    BY <1>2, <2>0 DEF DrawCommanding
  <2>2. draw' \in Drawings /\ draw'.at = "switch" /\ draw'.rpdo = 1
    BY <2>1 DEF Drawings
  <2>3. 1 > 0 /\ 1 <= Len(Frames)
    BY Tables DEF CommandShapes
  <2> QED
    BY <1>0, <2>1, <2>2, <2>3 DEF CommandShapes
<1>3. CASE UiSwitch
  <2>1. UNCHANGED <<device, cells>> /\ aired' \in {aired \ {draw.rpdo}, aired \cup {draw.rpdo}, aired}
    BY <1>3 DEF UiSwitch
  <2>2. draw.to \in BOOLEAN /\ draw.rpdo \in Nat /\ draw.rpdo > 0 /\ draw.rpdo <= Len(Frames)
        /\ Len(Frames) \in Nat /\ DOMAIN Frames = 1 .. Len(Frames)
    BY <1>3, Drawing, Tables DEF CommandShapes, UiSwitch
  <2>3. draw.rpdo \in 1 .. Len(Frames)
    BY ONLY <2>2
  <2>4. aired' \subseteq DOMAIN Frames
    BY <2>1, <2>2, <2>3 DEF CommandShapes
  <2>5. CASE draw.rpdo < Len(Frames)
    <3>1. PICK n \in Nat : n = draw.rpdo + 1 /\ n > 0 /\ n <= Len(Frames)
      BY <2>2, <2>5
    <3>2. draw' = [at |-> "switch", to |-> draw.to, rpdo |-> n]
      BY <1>3, <2>5, <3>1, SwitchesNext
    <3>3. draw' \in Drawings /\ draw'.at = "switch" /\ draw'.rpdo = n
      BY <2>2, <3>2 DEF Drawings
    <3> QED
      BY <1>0, <2>1, <2>4, <3>1, <3>3 DEF CommandShapes
  <2>6. CASE ~(draw.rpdo < Len(Frames))
    <3>1. draw' = [at |-> "update", clicked |-> FALSE]
      BY <1>3, <2>6, SwitchesNext
    <3>2. draw' \in Drawings /\ draw'.at = "update"
      BY <3>1 DEF Drawings
    <3> QED
      BY <1>0, <2>1, <2>4, <3>2 DEF CommandShapes
  <2> QED
    BY <2>5, <2>6
<1>4. CASE UiRefs
  <2>1. UNCHANGED <<device, cells, aired>>
        /\ draw' = [at |-> "store", clicked |-> draw.clicked, next |-> 1, gone |-> InTrouble]
    BY <1>4 DEF UiRefs
  <2>2. draw.clicked \in BOOLEAN /\ InTrouble \in SUBSET Switches
    BY <1>4, Drawing, Tables DEF CommandShapes, UiRefs, InTrouble
  <2>3. draw' \in Drawings /\ draw'.at = "store" /\ draw'.next = 1
    BY <2>1, <2>2 DEF Drawings
  <2>4. 1 > 0 /\ 1 <= Len(Stores)
    BY Tables DEF CommandShapes
  <2> QED
    BY <1>0, <2>1, <2>3, <2>4 DEF CommandShapes
<1>5. CASE UiStoreCell
  <2>1. UNCHANGED <<device, aired>> /\ cells' = [mode |-> cells'.mode, on |-> cells'.on]
    BY <1>5, CellStored DEF UiStoreCell
  <2>2. draw.clicked \in BOOLEAN /\ draw.next \in Nat /\ draw.next > 0 /\ draw.gone \in SUBSET Switches
        /\ Len(Stores) \in Nat
    BY <1>5, Drawing, Tables DEF CommandShapes, UiStoreCell
  <2>3. CASE draw.next < Len(Stores)
    <3>1. PICK n \in Nat : n = draw.next + 1 /\ n > 0 /\ n <= Len(Stores)
      BY <2>2, <2>3
    <3>2. draw' = [at |-> "store", clicked |-> draw.clicked, next |-> n, gone |-> draw.gone]
      BY <1>5, <2>3, <3>1, StoresNext
    <3>3. draw' \in Drawings /\ draw'.at = "store" /\ draw'.next = n
      BY <2>2, <3>2 DEF Drawings
    <3> QED
      BY <1>0, <2>1, <3>1, <3>3 DEF CommandShapes
  <2>4. CASE ~(draw.next < Len(Stores))
    <3>1. draw' = [at |-> "rest", clicked |-> draw.clicked]
      BY <1>5, <2>4, StoresNext
    <3>2. draw' \in Drawings /\ draw'.at = "rest"
      BY <2>2, <3>1 DEF Drawings
    <3> QED
      BY <1>0, <2>1, <3>2 DEF CommandShapes
  <2> QED
    BY <2>3, <2>4
<1>6. CASE CanYield
  BY <1>0, <1>6 DEF CommandShapes, CanYield
<1>7. CASE (\E rpdo \in DOMAIN Frames : CanMake(rpdo)) \/ CanLoadCell \/ CanSendFrame \/ NodeChanges \/ MasterChanges
  BY <1>0, <1>7 DEF CommandShapes, CanMake, CanLoadCell, CanSendFrame, NodeChanges, MasterChanges
<1>8. CASE UNCHANGED cmdvars
  BY <1>0, <1>8 DEF CommandShapes, cmdvars
<1> QED
  BY <1>1, <1>2, <1>3, <1>4, <1>5, <1>6, <1>7, <1>8 DEF CommandNext, UiDraws, Draws

\* Whose RPDOs are on has been told to command.  While they are switched on,
\* that is so already; while they are switched off, those passed are off.
SingleInv ==
  /\ CommandShapes
  /\ aired # {} => asked
  /\ draw.at = "switch" =>
       IF draw.to THEN asked /\ (device = "chss" => aired = {})
       ELSE \A rpdo \in aired : draw.rpdo <= rpdo
  /\ master => device = "chss"
  /\ NotASingleFrame

LEMMA SingleBegins == CommandInit => SingleInv
<1> SUFFICES ASSUME CommandInit PROVE SingleInv
  OBVIOUS
<1>1. draw = [at |-> "rest", clicked |-> FALSE] /\ frame = [at |-> "out"]
  BY DEF CommandInit, Resting, Silent
<1>2. draw.at = "rest" /\ frame.at = "out"
  BY <1>1
<1>3. ~master /\ (aired # {} => asked)
  BY DEF CommandInit
<1> QED
  BY <1>2, <1>3, ShapesBegin DEF SingleInv, NotASingleFrame

LEMMA SingleStays == ASSUME SingleInv, [CommandNext]_cmdvars PROVE SingleInv'
<1>0. CommandShapes /\ CommandShapes'
  BY ShapesStay DEF SingleInv
<1>1. CASE Draws
  <2>1. draw'.at = "update" /\ UNCHANGED <<device, nodevars, aired, sendvars, asked>>
    BY <1>0, <1>1, DrawsRest
  <2> QED
    BY <1>0, <2>1 DEF SingleInv, NotASingleFrame, nodevars, sendvars
<1>2. CASE DrawCommanding
  <2>1. draw' = [at |-> "switch", to |-> ~InCommand, rpdo |-> 1]
        /\ UNCHANGED <<device, nodevars, aired, sendvars>> /\ asked' = TRUE
    BY <1>2 DEF DrawCommanding
  <2>2. PICK to \in BOOLEAN : to = ~InCommand
    OBVIOUS
  <2>3. draw' = [at |-> "switch", to |-> to, rpdo |-> 1]
    BY <2>1, <2>2
  <2>4. draw'.to = to /\ draw'.rpdo = 1
    BY <2>3
  <2>5. to => (device = "chss" => aired = {})
    <3>1. ASSUME to, device = "chss" PROVE aired = {}
      <4>1. 1 \notin aired
        BY <2>2, <3>1 DEF InCommand
      <4>2. aired \subseteq 1 .. 1
        BY <1>0, <3>1, Tables DEF CommandShapes
      <4> QED
        BY <4>1, <4>2
    <3> QED
      BY <3>1
  <2>6. \A rpdo \in aired : 1 <= rpdo
    BY <1>0, Tables DEF CommandShapes
  <2>7. IF draw'.to THEN asked' /\ (device' = "chss" => aired' = {})
        ELSE \A rpdo \in aired' : draw'.rpdo <= rpdo
    BY <2>1, <2>4, <2>5, <2>6
  <2> QED
    BY <1>0, <2>1, <2>7 DEF SingleInv, NotASingleFrame, nodevars, sendvars
<1>3. CASE UiSwitch
  <2>1. UNCHANGED <<device, nodevars, sendvars>> /\ draw.at = "switch" /\ frame = Silent
        /\ aired' \subseteq aired \cup {draw.rpdo}
        /\ (~draw.to => aired' = aired \ {draw.rpdo})
    BY <1>3 DEF UiSwitch, MutexFree
  <2>2. draw.to \in BOOLEAN /\ draw.rpdo \in Nat /\ draw.rpdo <= Len(Frames) /\ Len(Frames) \in Nat
        /\ DOMAIN Frames = 1 .. Len(Frames)
    BY <1>0, <2>1, Drawing, Tables DEF CommandShapes
  <2>3. \A rpdo \in aired : rpdo \in Nat /\ rpdo <= Len(Frames)
    BY <1>0, <2>2 DEF CommandShapes
  <2>4. frame'.at # "load"
    <3>1. frame' = [at |-> "out"]
      BY <2>1 DEF sendvars, Silent
    <3> QED
      BY <3>1
  <2>5. CASE draw.rpdo < Len(Frames)
    <3>1. draw' = [at |-> "switch", to |-> draw.to, rpdo |-> draw.rpdo + 1] /\ asked' = asked
      BY <1>0, <1>3, <2>5, SwitchesNext
    <3>2. draw'.to = draw.to /\ draw'.rpdo = draw.rpdo + 1
      BY <3>1
    <3>3. CASE draw.to
      <4>1. asked
        BY <2>1, <3>3 DEF SingleInv
      <4>2. device # "chss"
        <5>1. device = "chss" => Len(Frames) = 1
          BY <1>0, Tables DEF CommandShapes
        <5>2. draw.rpdo > 0
          BY <1>0, <2>1 DEF CommandShapes
        <5> QED
          BY <2>2, <2>5, <5>1, <5>2
      <4> QED
        BY <1>0, <2>1, <2>4, <3>1, <3>2, <3>3, <4>1, <4>2 DEF SingleInv, NotASingleFrame, nodevars
    <3>4. CASE ~draw.to
      <4>1. \A rpdo \in aired : draw.rpdo <= rpdo
        BY <2>1, <3>4 DEF SingleInv
      <4>2. \A rpdo \in aired' : draw.rpdo + 1 <= rpdo
        BY <2>1, <2>2, <2>3, <3>4, <4>1
      <4>3. aired' # {} => asked
        BY <2>1, <3>4 DEF SingleInv
      <4> QED
        BY <1>0, <2>1, <2>4, <3>1, <3>2, <3>4, <4>2, <4>3 DEF SingleInv, NotASingleFrame, nodevars
    <3> QED
      BY <3>3, <3>4
  <2>6. CASE ~(draw.rpdo < Len(Frames))
    <3>1. draw' = [at |-> "update", clicked |-> FALSE] /\ asked' = draw.to
      BY <1>0, <1>3, <2>6, SwitchesNext
    <3>2. draw'.at = "update"
      BY <3>1
    <3>3. ~draw.to => aired' = {}
      <4> SUFFICES ASSUME ~draw.to PROVE aired' = {}
        OBVIOUS
      <4>1. \A rpdo \in aired : draw.rpdo <= rpdo
        BY <2>1 DEF SingleInv
      <4>2. \A rpdo \in aired : rpdo = draw.rpdo
        BY <2>2, <2>3, <2>6, <4>1
      <4> QED
        BY <2>1, <4>2
    <3> QED
      BY <1>0, <2>1, <2>2, <2>4, <3>1, <3>2, <3>3 DEF SingleInv, NotASingleFrame, nodevars
  <2> QED
    BY <2>5, <2>6
<1>4. CASE UiRefs
  <2>1. draw' = [at |-> "store", clicked |-> draw.clicked, next |-> 1, gone |-> InTrouble]
        /\ UNCHANGED <<device, nodevars, aired, sendvars, asked>>
    BY <1>4 DEF UiRefs
  <2>2. draw'.at = "store"
    BY <2>1
  <2> QED
    BY <1>0, <2>1, <2>2 DEF SingleInv, NotASingleFrame, nodevars, sendvars
<1>5. CASE UiStoreCell
  <2>1. UNCHANGED <<device, nodevars, aired, sendvars, asked>>
    BY <1>5 DEF UiStoreCell
  <2>2. draw'.at # "switch"
    BY <1>0, <1>5, StoresNext
  <2> QED
    BY <1>0, <2>1, <2>2 DEF SingleInv, NotASingleFrame, nodevars, sendvars
<1>6. ASSUME NEW rpdo \in DOMAIN Frames, CanMake(rpdo) PROVE SingleInv'
  <2>1. asked /\ UNCHANGED <<device, nodevars, aired, draw, asked>>
    BY <1>6 DEF SingleInv, CanMake
  <2> QED
    BY <1>0, <2>1 DEF SingleInv, NotASingleFrame, nodevars
<1>7. CASE CanLoadCell
  <2>1. asked /\ UNCHANGED <<device, nodevars, aired, draw, asked>>
    BY <1>7 DEF SingleInv, NotASingleFrame, CanLoadCell
  <2> QED
    BY <1>0, <2>1 DEF SingleInv, NotASingleFrame, nodevars
<1>8. CASE CanSendFrame
  <2>1. frame' = [at |-> "out"] /\ UNCHANGED <<device, nodevars, aired, draw, asked>>
    BY <1>8 DEF CanSendFrame, Silent
  <2>2. frame'.at # "load"
    BY <2>1
  <2> QED
    BY <1>0, <2>1, <2>2 DEF SingleInv, NotASingleFrame, nodevars
<1>9. CASE CanYield
  <2>1. frame = [at |-> "out"] /\ aired' = {} /\ asked' = FALSE /\ master /\ 1 \in aired
        /\ UNCHANGED <<device, nodevars, draw, sendvars>>
    BY <1>9 DEF CanYield, Silent, InCommand
  <2>2. frame'.at # "load"
    BY <2>1 DEF sendvars
  <2>3. device = "chss"
    BY <2>1 DEF SingleInv
  <2>4. draw.at = "switch" => ~draw.to
    BY <2>1, <2>3 DEF SingleInv
  <2> QED
    BY <1>0, <2>1, <2>2, <2>4 DEF SingleInv, NotASingleFrame, nodevars
<1>10. CASE NodeChanges
  BY <1>0, <1>10 DEF SingleInv, NotASingleFrame, NodeChanges, sendvars
<1>11. CASE MasterChanges
  BY <1>0, <1>11 DEF SingleInv, NotASingleFrame, MasterChanges, sendvars
<1>12. CASE UNCHANGED cmdvars
  BY <1>0, <1>12 DEF SingleInv, NotASingleFrame, cmdvars, sendvars, nodevars
<1> QED
  BY <1>1, <1>2, <1>3, <1>4, <1>5, <1>6, <1>7, <1>8, <1>9, <1>10, <1>11, <1>12
  DEF CommandNext, UiDraws, Draws

\* "Must not break into it with a single frame": the CAN thread makes a frame
\* of CSHPP's or CHSS's RPDOs only after the operator has switched them on and
\* before set_commanding(false) or the interlock has ended it, however the
\* switching of the RPDOs, one by one, falls among its sends.
THEOREM NotASingleFrameAlways == CommandSpec => []NotASingleFrame
<1>1. SingleInv => NotASingleFrame
  BY DEF SingleInv
<1>2. SingleInv /\ [CommandNext]_cmdvars => SingleInv'
  BY SingleStays
<1> QED
  BY SingleBegins, <1>1, <1>2, PTL DEF CommandSpec

-----------------------------------------------------------------------------
\* What a guest's panel has given up with the purge.
LeftBehind == IF device \in Guest /\ picked # "purge" THEN Cleared ELSE {}

\* What must go is off in the panel from _update_refs on, and in the cells as
\* far as they are stored.
OldInv ==
  /\ CommandShapes
  /\ lit \cap Cleared \subseteq anew
  /\ OldSwitchesStayOff
  /\ draw.at = "rest" => (lit \cup cells.on) \cap LeftBehind = {}
  /\ draw.at = "store" =>
       /\ draw.gone \subseteq Cleared
       /\ \A switch \in draw.gone \cup LeftBehind :
            switch \notin lit /\ (draw.next > Place(switch) => switch \notin cells.on)
  /\ draw.at \in {"rest", "store"} => drawn_mode = picked

LEMMA OldBegins == CommandInit => OldInv
<1> SUFFICES ASSUME CommandInit PROVE OldInv
  OBVIOUS
<1>1. draw = [at |-> "rest", clicked |-> FALSE] /\ cells = [mode |-> Modes.first, on |-> {}]
      /\ lit = {} /\ drawn_mode = picked
  BY DEF CommandInit, Resting
<1>2. draw.at = "rest" /\ cells.on = {}
  BY <1>1
<1> QED
  BY <1>1, <1>2, ShapesBegin DEF OldInv, OldSwitchesStayOff

LEMMA OldStays == ASSUME OldInv, [CommandNext]_cmdvars PROVE OldInv'
<1>0. /\ CommandShapes /\ CommandShapes' /\ device' = device
      /\ Stores' = Stores /\ Cleared' = Cleared /\ Guest' = Guest
  <2>1. device' = device
    BY DEF CommandNext, UiDraws, DrawIdle, DrawOpmode, DrawCommanding, UiSwitch, UiRefs, UiStoreCell,
           DrawPick, DrawSwitch, Rest, CanMake, CanLoadCell, CanSendFrame, CanYield, NodeChanges,
           MasterChanges, cmdvars
  <2> QED
    BY <2>1, ShapesStay DEF OldInv, Stores, Cleared, Update
<1>1. CASE Draws
  <2>1. draw.at = "rest" /\ draw'.at = "update" /\ cells' = cells
    BY <1>0, <1>1, DrawsRest
  <2>2. \A on, pick : Drawn(on, pick) \subseteq on
    BY DEF Drawn
  <2>3. lit' \cap Cleared \subseteq anew' /\ cells.on \cap Cleared \subseteq anew'
    <3>1. CASE DrawIdle \/ DrawOpmode
      BY <2>2, <3>1 DEF OldInv, OldSwitchesStayOff, DrawIdle, DrawOpmode
    <3>2. ASSUME NEW switch \in Offered, DrawSwitch(switch)
          PROVE  lit' \cap Cleared \subseteq anew' /\ cells.on \cap Cleared \subseteq anew'
      <4>1. lit' \subseteq (IF switch \in lit THEN lit \ {switch} ELSE lit \cup {switch})
            /\ anew' = IF switch \in lit THEN anew ELSE anew \cup {switch}
        BY <2>2, <3>2 DEF DrawSwitch
      <4> QED
        BY <4>1 DEF OldInv, OldSwitchesStayOff
    <3>3. ASSUME NEW to \in Pickable, DrawPick(to)
          PROVE  lit' \cap Cleared \subseteq anew' /\ cells.on \cap Cleared \subseteq anew'
      <4>1. lit' \subseteq lit
            /\ anew' = IF to = picked THEN anew
                       ELSE {switch \in anew : switch \in Bound => ModeOf[switch] # to}
        BY <2>2, <3>3 DEF DrawPick
      <4>2. CASE to = picked
        BY <4>1, <4>2 DEF OldInv, OldSwitchesStayOff
      <4>3. CASE to # picked /\ device \in Guest
        <5>1. Cleared = Bound /\ \A c \in Cleared : ModeOf[c] = "purge"
          BY <1>0, <4>3, Tables DEF CommandShapes
        <5>2. CASE to = "purge"
          <6>1. LeftBehind = Cleared
            BY <4>3, <5>2 DEF LeftBehind
          <6> QED
            BY <2>1, <4>1, <6>1 DEF OldInv
        <5>3. CASE to # "purge"
          BY <4>1, <4>3, <5>1, <5>3 DEF OldInv, OldSwitchesStayOff
        <5> QED
          BY <5>2, <5>3
      <4>4. CASE to # picked /\ device \notin Guest
        <5>1. Cleared \cap Bound = {}
          BY <1>0, <4>4, Tables DEF CommandShapes
        <5> QED
          BY <4>1, <4>4, <5>1 DEF OldInv, OldSwitchesStayOff
      <4> QED
        BY <4>2, <4>3, <4>4
    <3> QED
      BY <1>1, <3>1, <3>2, <3>3 DEF Draws
  <2> QED
    BY <1>0, <2>1, <2>3 DEF OldInv, OldSwitchesStayOff
<1>2. CASE DrawCommanding \/ UiSwitch
  <2>1. UNCHANGED <<picked, drawn_mode, lit, cells, anew>>
    BY <1>2 DEF DrawCommanding, UiSwitch
  <2>2. draw'.at \notin {"rest", "store"}
    <3>1. CASE DrawCommanding
      <4>1. draw' = [at |-> "switch", to |-> ~InCommand, rpdo |-> 1]
        BY <3>1 DEF DrawCommanding
      <4> QED
        BY <4>1
    <3>2. CASE UiSwitch
      BY <1>0, <3>2, SwitchesNext
    <3> QED
      BY <1>2, <3>1, <3>2
  <2> QED
    BY <1>0, <2>1, <2>2 DEF OldInv, OldSwitchesStayOff
<1>3. CASE UiRefs
  <2>1. /\ drawn_mode' = picked /\ lit' = lit \ Goes /\ UNCHANGED <<picked, cells, anew>>
        /\ draw' = [at |-> "store", clicked |-> draw.clicked, next |-> 1, gone |-> InTrouble]
    BY <1>3 DEF UiRefs
  <2>2. draw'.at = "store" /\ draw'.next = 1 /\ draw'.gone = InTrouble
    BY <2>1
  <2>3. LeftBehind' = LeftBehind
    BY <1>0, <2>1 DEF LeftBehind
  <2>4. LeftBehind \subseteq Goes /\ InTrouble \subseteq Goes /\ InTrouble \subseteq Cleared
    <3>1. device \in Guest => (Cleared = Bound /\ \A c \in Cleared : ModeOf[c] = "purge")
      BY <1>0, Tables DEF CommandShapes
    <3> QED
      BY <3>1 DEF LeftBehind, Goes, InTrouble, OutOfMode
  <2>5. LeftBehind \subseteq Cleared
    BY DEF LeftBehind
  <2>6. \A switch \in Cleared : ~(1 > Place(switch))
    BY DEF Place
  <2>7. \A switch \in draw'.gone \cup LeftBehind' :
          switch \notin lit' /\ (draw'.next > Place(switch) => switch \notin cells'.on)
    BY <2>1, <2>2, <2>3, <2>4, <2>5, <2>6
  <2>8. lit' \cap Cleared \subseteq anew' /\ cells'.on \cap Cleared \subseteq anew'
    BY <2>1 DEF OldInv, OldSwitchesStayOff
  <2> QED
    BY <1>0, <2>1, <2>2, <2>4, <2>7, <2>8 DEF OldInv, OldSwitchesStayOff
<1>4. CASE UiStoreCell
  <2>1. draw.at = "store" /\ UNCHANGED <<picked, drawn_mode, lit>> /\ drawn_mode = picked
    BY <1>4 DEF UiStoreCell, OldInv
  <2>2. PICK n, cell, Gone : n = draw.next /\ cell = Stores[n] /\ Gone = draw.gone \cup LeftBehind
    OBVIOUS
  <2>3. n \in Nat /\ n > 0 /\ n <= Len(Stores) /\ Len(Stores) \in Nat
    BY <1>0, <2>1, <2>2, Drawing, Tables DEF CommandShapes
  <2>4. /\ Gone \subseteq Cleared
        /\ \A switch \in Gone : switch \notin lit /\ (n > Place(switch) => switch \notin cells.on)
    BY <2>1, <2>2 DEF OldInv, LeftBehind
  <2>5. cells'.on = IF cell = "mode" THEN cells.on
                    ELSE IF cell = "status" THEN StoredStatus
                    ELSE (cells.on \ {cell}) \cup (lit \cap {cell})
    BY <1>0, <1>4, <2>2, CellStored
  <2>6. cells'.on \subseteq cells.on \cup lit
    BY <2>5 DEF StoredStatus
  <2>7. ASSUME NEW switch \in Gone, n + 1 > Place(switch) PROVE switch \notin cells'.on
    <3>1. Place(switch) \in Nat /\ switch \notin lit /\ (n > Place(switch) => switch \notin cells.on)
      BY <1>0, <2>4, Tables DEF CommandShapes
    <3>2. CASE n > Place(switch)
      BY <2>6, <3>1, <3>2
    <3>3. CASE n = Place(switch)
      <4>1. cell = switch \/ (switch = "start" /\ cell = "status")
        BY <1>0, <2>2, <2>4, <3>3, Tables DEF CommandShapes
      <4>2. "mode" \notin Switches
        BY DEF Switches
      <4>3. switch \in Switches
        BY <1>0, <2>4, Tables DEF CommandShapes
      <4>4. CASE cell = "status" /\ switch = "start"
        BY <2>5, <3>1, <4>4 DEF StoredStatus
      <4>5. CASE cell = switch /\ cell # "status"
        BY <2>5, <3>1, <4>2, <4>3, <4>5
      <4>6. "status" \notin Switches
        BY DEF Switches
      <4> QED
        BY <4>1, <4>3, <4>4, <4>5, <4>6
    <3>4. n > Place(switch) \/ n = Place(switch)
      BY ONLY <2>3, <2>7, <3>1
    <3> QED
      BY <3>2, <3>3, <3>4
  <2>8. LeftBehind' = LeftBehind
    BY <1>0, <2>1 DEF LeftBehind
  <2>9. CASE n < Len(Stores)
    <3>1. draw' = [at |-> "store", clicked |-> draw.clicked, next |-> n + 1, gone |-> draw.gone]
          /\ anew' = anew
      BY <1>0, <1>4, <2>2, <2>9, StoresNext
    <3>2. draw'.at = "store" /\ draw'.next = n + 1 /\ draw'.gone = draw.gone
      BY <3>1
    <3>3. \A switch \in draw'.gone \cup LeftBehind' :
            switch \notin lit' /\ (draw'.next > Place(switch) => switch \notin cells'.on)
      BY <2>1, <2>2, <2>4, <2>7, <2>8, <3>2
    <3>4. lit' \cap Cleared \subseteq anew' /\ cells'.on \cap Cleared \subseteq anew'
      BY <2>1, <2>6, <3>1 DEF OldInv, OldSwitchesStayOff
    <3> QED
      BY <1>0, <2>1, <2>2, <2>4, <3>2, <3>3, <3>4 DEF OldInv, OldSwitchesStayOff
  <2>10. CASE ~(n < Len(Stores))
    <3>1. draw' = [at |-> "rest", clicked |-> draw.clicked] /\ anew' = anew \ draw.gone
      BY <1>0, <1>4, <2>2, <2>10, StoresNext
    <3>2. draw'.at = "rest"
      BY <3>1
    <3>3. \A switch \in Gone : switch \notin cells'.on /\ switch \notin lit
      <4> TAKE switch \in Gone
      <4>1. Place(switch) \in Nat /\ Place(switch) <= Len(Stores)
        BY <1>0, <2>4, Tables DEF CommandShapes
      <4>2. n + 1 > Place(switch)
        BY ONLY <2>3, <2>10, <4>1
      <4> QED
        BY <2>4, <2>7, <4>2
    <3>4. lit' \cap Cleared \subseteq anew' /\ cells'.on \cap Cleared \subseteq anew'
      BY <2>1, <2>2, <2>6, <3>1, <3>3 DEF OldInv, OldSwitchesStayOff
    <3>5. (lit' \cup cells'.on) \cap LeftBehind' = {}
      BY <2>1, <2>2, <2>8, <3>3
    <3> QED
      BY <1>0, <2>1, <3>2, <3>4, <3>5 DEF OldInv, OldSwitchesStayOff
  <2> QED
    BY <2>9, <2>10
<1>5. CASE (\E rpdo \in DOMAIN Frames : CanMake(rpdo)) \/ CanLoadCell \/ CanSendFrame \/ CanYield
           \/ NodeChanges \/ MasterChanges \/ UNCHANGED cmdvars
  <2>1. UNCHANGED <<picked, drawn_mode, lit, cells, draw, anew>>
    BY <1>5 DEF CanMake, CanLoadCell, CanSendFrame, CanYield, NodeChanges, MasterChanges, cmdvars
  <2>2. LeftBehind' = LeftBehind
    BY <1>0, <2>1 DEF LeftBehind
  <2> QED
    BY <1>0, <2>1, <2>2 DEF OldInv, OldSwitchesStayOff
<1> QED
  BY <1>1, <1>2, <1>3, <1>4, <1>5 DEF CommandNext, UiDraws, Draws

\* A start or a level that was on when the panel was drawn in trouble stays off
\* in the server's cells until the operator sets it anew, though the panel
\* stores cell by cell and the trouble may be over before it has done so.
THEOREM OldSwitchesStayOffAlways == CommandSpec => []OldSwitchesStayOff
<1>1. OldInv => OldSwitchesStayOff
  BY DEF OldInv
<1>2. OldInv /\ [CommandNext]_cmdvars => OldInv'
  BY OldStays
<1> QED
  BY OldBegins, <1>1, <1>2, PTL DEF CommandSpec

\* Only references of the mode that is picked are on.
Tidy == \A ref \in lit \cap Bound : ModeOf[ref] = picked

\* In the cells as far as they are stored, only what is on in the panel.
StoredSoFar ==
  CASE draw.at = "rest" -> Bound
    [] draw.at = "store" -> {Stores[n] : n \in 1 .. draw.next - 1} \cap Bound
    [] OTHER -> {}

NothingOld(record) ==
  \E rpdo, next, to :
    record = [at |-> "load", rpdo |-> rpdo, next |-> next, mode |-> to, old |-> {}]

\* No reference is left on that is to be set anew: a mode that is left is
\* tidied up before another can be picked, in the frame in which the button is
\* released at the latest.
ModeInv ==
  /\ OldInv
  /\ picked \in Pickable
  /\ (lit \cup cells.on) \cap Bound \subseteq anew
  /\ cells.on \cap StoredSoFar \subseteq lit
  /\ device \in Guest => (draw.at \in {"rest", "store"} => Tidy)
  /\ device \notin Guest =>
       /\ draw.at # "switch"
       /\ WidgetsDrawn /\ ~draw.clicked => Tidy
  /\ frame.at = "load" => NothingOld(frame)

LEMMA BoundTables ==
  ASSUME device \in Device
  PROVE  /\ \A ref \in Bound : \E n \in 1 .. Len(Stores) : Stores[n] = ref
         /\ Bound \cap {"start", "calibrate", "mode", "status"} = {}
         /\ device = "srmdrive" =>
              /\ Pickable = {"torque", "speed"} /\ Bound = {"torque", "speed"}
              /\ ModeOf["torque"] = "torque" /\ ModeOf["speed"] = "speed"
         /\ Modes.first \in Pickable
<1>1. CASE device = "cshpp"
  <2>1. Stores = <<"mode", "valve", "contactor">>
    BY <1>1 DEF Stores, Update, CshppUpdate
  <2>2. Bound = {"valve", "contactor"}
    BY <1>1 DEF Modes, CshppModes, ModeOf, Bound
  <2>3. Len(Stores) = 3 /\ Stores[2] = "valve" /\ Stores[3] = "contactor"
    BY <2>1
  <2> QED
    BY <1>1, <2>2, <2>3 DEF Pickable
<1>2. CASE device = "chss"
  <2>1. Stores = <<"mode", "inlet", "outlet">>
    BY <1>2 DEF Stores, Update, ChssUpdate
  <2>2. Bound = {"inlet", "outlet"}
    BY <1>2 DEF Modes, ChssModes, ModeOf, Bound
  <2>3. Len(Stores) = 3 /\ Stores[2] = "inlet" /\ Stores[3] = "outlet"
    BY <2>1
  <2> QED
    BY <1>2, <2>2, <2>3 DEF Pickable
<1>3. CASE device \in {"shm80", "loco", "brkdrive"}
  <2>1. Stores \in {<<"start", "mode", "torque", "speed">>, <<"status", "mode", "torque", "speed">>}
    BY <1>3 DEF Stores, Update, Shm80Update, LocoUpdate, BrkdriveUpdate
  <2>2. Bound = {"torque", "speed"}
    BY <1>3 DEF Modes, DriveModes, ModeOf, Bound
  <2>3. Len(Stores) = 4 /\ Stores[3] = "torque" /\ Stores[4] = "speed"
    BY <2>1
  <2> QED
    BY <1>3, <2>2, <2>3 DEF Pickable
<1>4. CASE device = "sevpress"
  <2>1. Stores = <<"start", "mode", "torque", "angle">>
    BY <1>4 DEF Stores, Update, SevpressUpdate
  <2>2. Bound = {"torque", "angle"}
    BY <1>4 DEF Modes, SevpressModes, ModeOf, Bound
  <2>3. Len(Stores) = 4 /\ Stores[3] = "torque" /\ Stores[4] = "angle"
    BY <2>1
  <2> QED
    BY <1>4, <2>2, <2>3 DEF Pickable
<1>5. CASE device = "psfb"
  <2>1. Bound = {}
    BY <1>5 DEF Modes, PsfbModes, ModeOf, Bound
  <2> QED
    BY <1>5, <2>1 DEF Pickable
<1>6. CASE device = "srmdrive"
  <2>1. Stores = <<"start", "torque", "speed", "mode">>
    BY <1>6 DEF Stores, Update, SrmdriveUpdate
  <2>2. Modes = DriveModes
    BY <1>6 DEF Modes
  <2>3. PICK of : of = [torque |-> "torque", speed |-> "speed"]
    OBVIOUS
  <2>4. ModeOf = of /\ Modes.first = "torque"
    BY <2>2, <2>3 DEF DriveModes, ModeOf
  <2>5. DOMAIN of = {"torque", "speed"} /\ of["torque"] = "torque" /\ of["speed"] = "speed"
    BY <2>3
  <2>6. Bound = {"torque", "speed"}
    BY <2>4, <2>5 DEF Bound
  <2>7. Len(Stores) = 4 /\ Stores[2] = "torque" /\ Stores[3] = "speed"
    BY <2>1
  <2>8. Pickable = {"torque", "speed"}
    BY <2>4, <2>5, <2>6 DEF Pickable
  <2> QED
    BY <2>4, <2>5, <2>6, <2>7, <2>8
<1> QED
  BY <1>1, <1>2, <1>3, <1>4, <1>5, <1>6 DEF Device

\* The widgets leave references of the mode alone.
LEMMA WidgetsTidyUp ==
  ASSUME device \in Device \ Guest, WidgetsDrawn, drawn_mode = picked, picked \in Pickable, NEW on
  PROVE  \A ref \in Drawn(on, picked) \cap Bound : ModeOf[ref] = picked
<1> TAKE ref \in Drawn(on, picked) \cap Bound
<1>1. ~Outside(ref, picked)
  BY DEF Drawn
<1>2. CASE device = "srmdrive"
  <2>1. ModeOf[ref] # picked => (ref = "torque" /\ picked # "speed")
    BY <1>1, <1>2 DEF Outside
  <2> QED
    BY <1>2, <2>1, BoundTables
<1>3. CASE device # "srmdrive"
  BY <1>1, <1>3 DEF Outside
<1> QED
  BY <1>2, <1>3

LEMMA ModeBegins == CommandInit => ModeInv
<1> SUFFICES ASSUME CommandInit PROVE ModeInv
  OBVIOUS
<1>1. draw = [at |-> "rest", clicked |-> FALSE] /\ cells = [mode |-> Modes.first, on |-> {}]
      /\ lit = {} /\ frame = [at |-> "out"] /\ picked = Modes.first /\ device \in Device
  BY DEF CommandInit, Resting, Silent
<1>2. draw.at = "rest" /\ cells.on = {} /\ frame.at = "out"
  BY <1>1
<1>3. picked \in Pickable
  BY <1>1, BoundTables
<1>4. Tidy
  BY <1>1 DEF Tidy
<1> QED
  BY <1>1, <1>2, <1>3, <1>4, OldBegins DEF ModeInv

LEMMA ModeStays == ASSUME ModeInv, [CommandNext]_cmdvars PROVE ModeInv'
<1>0. /\ OldInv /\ OldInv' /\ CommandShapes /\ device' = device /\ device \in Device
      /\ Stores' = Stores /\ Bound' = Bound /\ ModeOf' = ModeOf /\ Pickable' = Pickable /\ Guest' = Guest
  <2>1. device' = device
    BY DEF CommandNext, UiDraws, DrawIdle, DrawOpmode, DrawCommanding, UiSwitch, UiRefs, UiStoreCell,
           DrawPick, DrawSwitch, Rest, CanMake, CanLoadCell, CanSendFrame, CanYield, NodeChanges,
           MasterChanges, cmdvars
  <2> QED
    BY <2>1, OldStays
    DEF ModeInv, OldInv, CommandShapes, Stores, Update, Modes, ModeOf, Bound, Pickable
<1>1. CASE Draws
  <2>1. /\ draw.at = "rest" /\ draw'.at = "update" /\ cells' = cells /\ frame' = frame
        /\ drawn_mode = picked
    BY <1>0, <1>1, DrawsRest DEF sendvars, OldInv
  <2>2. \A on, pick : Drawn(on, pick) \subseteq on
    BY DEF Drawn
  <2>3. cells.on \cap Bound \subseteq lit
    BY <2>1 DEF ModeInv, StoredSoFar
  <2>4. StoredSoFar' = {}
    BY <2>1 DEF StoredSoFar
  <2>5. frame'.at = "load" => NothingOld(frame')
    BY <2>1 DEF ModeInv
  <2>6. /\ picked' \in Pickable
        /\ (lit' \cup cells.on) \cap Bound \subseteq anew'
        /\ device \notin Guest => (WidgetsDrawn' /\ ~draw'.clicked => Tidy')
    <3>1. CASE DrawIdle
      <4>1. lit' = Drawn(lit, picked) /\ UNCHANGED <<picked, working, anew>>
        BY <3>1 DEF DrawIdle
      <4>2. WidgetsDrawn' = WidgetsDrawn
        BY <1>0, <4>1 DEF WidgetsDrawn
      <4>3. device \notin Guest => (WidgetsDrawn => Tidy')
        BY <1>0, <2>1, <4>1, WidgetsTidyUp DEF ModeInv, Tidy
      <4> QED
        BY <2>2, <4>1, <4>2, <4>3 DEF ModeInv
    <3>2. CASE DrawOpmode
      BY <3>2 DEF DrawOpmode, Tidy, ModeInv
    <3>3. ASSUME NEW switch \in Offered, DrawSwitch(switch)
          PROVE  /\ picked' \in Pickable
                 /\ (lit' \cup cells.on) \cap Bound \subseteq anew'
                 /\ device \notin Guest => (WidgetsDrawn' /\ ~draw'.clicked => Tidy')
      <4>1. PICK on : on = IF switch \in lit THEN lit \ {switch} ELSE lit \cup {switch}
        OBVIOUS
      <4>2. lit' = Drawn(on, picked) /\ UNCHANGED <<picked, working>>
            /\ anew' = IF switch \in lit THEN anew ELSE anew \cup {switch}
        BY <3>3, <4>1 DEF DrawSwitch
      <4>3. WidgetsDrawn' = WidgetsDrawn
        BY <1>0, <4>2 DEF WidgetsDrawn
      <4>4. device \notin Guest => (WidgetsDrawn => Tidy')
        BY <1>0, <2>1, <4>2, WidgetsTidyUp DEF ModeInv, Tidy
      <4>5. lit' \subseteq on
        BY <2>2, <4>2
      <4> QED
        BY <4>1, <4>2, <4>3, <4>4, <4>5 DEF ModeInv
    <3>4. ASSUME NEW to \in Pickable, DrawPick(to)
          PROVE  /\ picked' \in Pickable
                 /\ (lit' \cup cells.on) \cap Bound \subseteq anew'
                 /\ device \notin Guest => (WidgetsDrawn' /\ ~draw'.clicked => Tidy')
      <4>1. /\ lit' \subseteq lit /\ picked' = to
            /\ anew' = IF to = picked THEN anew
                       ELSE {switch \in anew : switch \in Bound => ModeOf[switch] # to}
            /\ draw' = [at |-> "update", clicked |-> TRUE]
        BY <2>2, <3>4 DEF DrawPick, Rest
      <4>2. draw'.clicked = TRUE
        BY <4>1
      <4>3. Tidy
        <5>1. CASE device \in Guest
          BY <2>1, <5>1 DEF ModeInv
        <5>2. CASE device \notin Guest
          <6>1. draw = [at |-> "rest", clicked |-> FALSE] /\ WidgetsDrawn
            BY <3>4, <5>2 DEF DrawPick, Resting
          <6>2. ~draw.clicked
            BY <6>1
          <6> QED
            BY <5>2, <6>1, <6>2 DEF ModeInv
        <5> QED
          BY <5>1, <5>2
      <4>4. \A ref \in (lit' \cup cells.on) \cap Bound : ref \in anew /\ ModeOf[ref] = picked
        BY <2>3, <4>1, <4>3 DEF ModeInv, Tidy
      <4> QED
        BY <4>1, <4>2, <4>4
    <3> QED
      BY <1>1, <3>1, <3>2, <3>3, <3>4 DEF Draws
  <2> QED
    BY <1>0, <2>1, <2>4, <2>5, <2>6 DEF ModeInv
<1>2. CASE DrawCommanding
  <2>1. /\ UNCHANGED <<picked, lit, cells, anew, frame>>
        /\ draw' = [at |-> "switch", to |-> ~InCommand, rpdo |-> 1] /\ device \in Guest
    BY <1>2 DEF DrawCommanding, sendvars
  <2>2. draw'.at = "switch"
    BY <2>1
  <2> QED
    BY <1>0, <2>1, <2>2 DEF ModeInv, StoredSoFar
<1>3. CASE UiSwitch
  <2>1. UNCHANGED <<picked, lit, cells, anew, frame>> /\ device \in Guest
    BY <1>3 DEF UiSwitch, sendvars, ModeInv
  <2>2. draw'.at \notin {"rest", "store"}
    BY <1>0, <1>3, SwitchesNext
  <2> QED
    BY <1>0, <2>1, <2>2 DEF ModeInv, StoredSoFar
<1>4. CASE UiRefs
  <2>1. /\ lit' = lit \ Goes /\ UNCHANGED <<picked, working, cells, anew, frame>> /\ draw.at = "update"
        /\ draw' = [at |-> "store", clicked |-> draw.clicked, next |-> 1, gone |-> InTrouble]
    BY <1>4 DEF UiRefs, sendvars
  <2>2. draw'.at = "store" /\ draw'.next = 1 /\ draw'.clicked = draw.clicked
    BY <2>1
  <2>3. StoredSoFar' = {}
    <3>1. 1 .. draw'.next - 1 = {}
      BY <2>2
    <3> QED
      BY <2>2, <3>1 DEF StoredSoFar
  <2>4. device \in Guest => Tidy'
    BY <1>0, <2>1 DEF Tidy, Goes, OutOfMode
  <2>5. WidgetsDrawn' = WidgetsDrawn /\ (Tidy => Tidy')
    BY <1>0, <2>1 DEF WidgetsDrawn, Tidy
  <2>6. (lit' \cup cells'.on) \cap Bound' \subseteq anew'
    BY <1>0, <2>1 DEF ModeInv
  <2> QED
    BY <1>0, <2>1, <2>2, <2>3, <2>4, <2>5, <2>6 DEF ModeInv
<1>5. CASE UiStoreCell
  <2>1. draw.at = "store" /\ UNCHANGED <<picked, working, lit, frame>>
    BY <1>5 DEF UiStoreCell, sendvars
  <2>2. PICK n, cell : n = draw.next /\ cell = Stores[n]
    OBVIOUS
  <2>3. n \in Nat /\ n > 0 /\ n <= Len(Stores) /\ Len(Stores) \in Nat
    BY <1>0, <2>1, <2>2, Drawing, Tables DEF CommandShapes
  <2>4. cells'.on = IF cell = "mode" THEN cells.on
                    ELSE IF cell = "status" THEN StoredStatus
                    ELSE (cells.on \ {cell}) \cup (lit \cap {cell})
    BY <1>0, <1>5, <2>2, CellStored
  <2>5. cells'.on \subseteq cells.on \cup lit /\ (cell \in Bound => (cell \in cells'.on => cell \in lit))
    BY <1>0, <2>4, BoundTables DEF StoredStatus
  <2>6. PICK Before : Before = {Stores[k] : k \in 1 .. n - 1} \cap Bound
    OBVIOUS
  <2>7. cells.on \cap Before \subseteq lit
    <3>1. StoredSoFar = Before
      BY <2>1, <2>2, <2>6 DEF StoredSoFar
    <3> QED
      BY <3>1 DEF ModeInv
  <2>8. {Stores[k] : k \in 1 .. n} \cap Bound \subseteq Before \cup {cell}
    <3>1. \A k \in 1 .. n : k = n \/ k \in 1 .. n - 1
      BY <2>3
    <3> QED
      BY <2>2, <2>6, <3>1
  <2>9. \A ref \in {Stores[k] : k \in 1 .. n} \cap Bound : ref \in cells'.on => ref \in lit
    <3> TAKE ref \in {Stores[k] : k \in 1 .. n} \cap Bound
    <3>1. ref \in Before \/ ref = cell
      BY <2>8
    <3> QED
      BY <2>5, <2>7, <3>1
  <2>10. WidgetsDrawn' = WidgetsDrawn /\ Tidy' = Tidy
    BY <1>0, <2>1 DEF WidgetsDrawn, Tidy
  <2>11. (lit' \cup cells'.on) \cap Bound' \subseteq anew'
    <3>1. CASE device \in Guest
      <4>1. Cleared = Bound
        BY <1>0, <3>1, Tables
      <4>2. Cleared' = Cleared
        BY <1>0 DEF Cleared, Update
      <4> QED
        BY <1>0, <4>1, <4>2 DEF OldInv, OldSwitchesStayOff
    <3>2. CASE device \notin Guest
      <4>1. draw.gone \subseteq Cleared /\ Cleared \cap Bound = {}
        BY <1>0, <2>1, <3>2, Tables DEF OldInv
      <4>2. anew' \in {anew, anew \ draw.gone}
        BY <1>0, <1>5, StoresNext
      <4>3. (lit \cup cells.on) \cap Bound \subseteq anew
        BY DEF ModeInv
      <4> QED
        BY <1>0, <2>1, <2>5, <4>1, <4>2, <4>3
    <3> QED
      BY <3>1, <3>2
  <2>12. CASE n < Len(Stores)
    <3>1. draw' = [at |-> "store", clicked |-> draw.clicked, next |-> n + 1, gone |-> draw.gone]
      BY <1>0, <1>5, <2>2, <2>12, StoresNext
    <3>2. draw'.at = "store" /\ draw'.next = n + 1 /\ draw'.clicked = draw.clicked
      BY <3>1
    <3>3. StoredSoFar' = {Stores[k] : k \in 1 .. n} \cap Bound
      <4>1. draw'.next - 1 = n
        BY <2>3, <3>2
      <4> QED
        BY <1>0, <3>2, <4>1 DEF StoredSoFar
    <3> QED
      BY <1>0, <2>1, <2>9, <2>10, <2>11, <3>2, <3>3 DEF ModeInv
  <2>13. CASE ~(n < Len(Stores))
    <3>1. draw' = [at |-> "rest", clicked |-> draw.clicked]
      BY <1>0, <1>5, <2>2, <2>13, StoresNext
    <3>2. draw'.at = "rest" /\ draw'.clicked = draw.clicked
      BY <3>1
    <3>3. StoredSoFar' = Bound
      BY <1>0, <3>2 DEF StoredSoFar
    <3>4. \A ref \in Bound : ref \in {Stores[k] : k \in 1 .. n} \cap Bound
      <4>1. n = Len(Stores)
        BY ONLY <2>3, <2>13
      <4> QED
        BY <1>0, <4>1, BoundTables
    <3> QED
      BY <1>0, <2>1, <2>9, <2>10, <2>11, <3>2, <3>3, <3>4 DEF ModeInv
  <2> QED
    BY <2>12, <2>13
<1>6. ASSUME UNCHANGED <<picked, working, lit, cells, draw, anew>>, frame'.at = "load" => NothingOld(frame')
      PROVE  ModeInv'
  <2>1. WidgetsDrawn' = WidgetsDrawn /\ Tidy' = Tidy /\ StoredSoFar' = StoredSoFar
    BY <1>0, <1>6 DEF WidgetsDrawn, Tidy, StoredSoFar
  <2> QED
    BY <1>0, <1>6, <2>1 DEF ModeInv
<1>7. ASSUME NEW rpdo \in DOMAIN Frames, CanMake(rpdo) PROVE ModeInv'
  <2>1. UNCHANGED <<picked, working, lit, cells, draw, anew>>
        /\ frame' = [at |-> "load", rpdo |-> rpdo, next |-> 1, mode |-> bus_mode, old |-> {}]
    BY <1>7 DEF CanMake
  <2>2. NothingOld(frame')
    BY <2>1 DEF NothingOld
  <2> QED
    BY <1>6, <2>1, <2>2
<1>8. CASE CanLoadCell
  <2>1. PICK rpdo, next, to :
          frame = [at |-> "load", rpdo |-> rpdo, next |-> next, mode |-> to, old |-> {}]
    BY <1>8 DEF CanLoadCell, ModeInv, NothingOld
  <2>2. PICK cell : cell = Frames[frame.rpdo][frame.next]
    OBVIOUS
  <2>3. PICK loaded, old : loaded = (IF cell = "mode" THEN cells.mode ELSE to)
                           /\ old = ({cell} \cap cells.on \cap Bound) \ anew
    OBVIOUS
  <2>4. old = {}
    BY <2>3 DEF ModeInv
  <2>5. frame' = [at |-> "load", rpdo |-> rpdo, next |-> next + 1, mode |-> loaded, old |-> {} \cup old]
    BY <1>8, <2>1, <2>2, <2>3 DEF CanLoadCell
  <2>6. NothingOld(frame')
    BY <2>4, <2>5 DEF NothingOld
  <2>7. UNCHANGED <<picked, working, lit, cells, draw, anew>>
    BY <1>8 DEF CanLoadCell
  <2> QED
    BY <1>6, <2>6, <2>7
<1>9. CASE CanSendFrame
  <2>1. frame' = [at |-> "out"] /\ UNCHANGED <<picked, working, lit, cells, draw, anew>>
    BY <1>9 DEF CanSendFrame, Silent
  <2>2. frame'.at # "load"
    BY <2>1
  <2> QED
    BY <1>6, <2>1, <2>2
<1>10. CASE CanYield \/ NodeChanges \/ MasterChanges \/ UNCHANGED cmdvars
  <2>1. UNCHANGED <<picked, working, lit, cells, draw, anew, frame>>
    BY <1>10 DEF CanYield, NodeChanges, MasterChanges, cmdvars, sendvars
  <2>2. frame.at = "load" => NothingOld(frame)
    BY DEF ModeInv
  <2> QED
    BY <1>6, <2>1, <2>2
<1> QED
  BY <1>1, <1>2, <1>3, <1>4, <1>5, <1>7, <1>8, <1>9, <1>10 DEF CommandNext, UiDraws, Draws

\* A mode begins with references of zero and levels off: whatever cells the
\* panel stores while the CAN thread loads others, no frame carries a reference
\* that the operator has not set since he picked the mode; indeed none that he
\* has not set since it had to be given up, in whatever mode.
THEOREM ModeBeginsAtZeroAlways == CommandSpec => []ModeBeginsAtZero
<1>1. ModeInv => ModeBeginsAtZero
  <2> SUFFICES ASSUME ModeInv, Loaded PROVE \A ref \in frame.old : ModeOf[ref] # frame.mode
    BY DEF ModeBeginsAtZero
  <2>1. NothingOld(frame)
    BY DEF ModeInv, Loaded
  <2>2. frame.old = {}
    BY <2>1 DEF NothingOld
  <2> QED
    BY <2>2
<1>2. ModeInv /\ [CommandNext]_cmdvars => ModeInv'
  BY ModeStays
<1> QED
  BY ModeBegins, <1>1, <1>2, PTL DEF CommandSpec
=============================================================================

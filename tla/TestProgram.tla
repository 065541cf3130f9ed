----------------------------- MODULE TestProgram -----------------------------
(***************************************************************************)
(* BRKDRIVE's test programs: a file of rows, each a duration and a         *)
(* reference, is given row by row while the drive runs, in place of the    *)
(* reference the operator enters.  Torque and speed have a program each, a *)
(* ReferenceManager; only the one of the mode drawn is looked at.          *)
(*                                                                         *)
(* One action is a frame of the UI thread with what the operator does in   *)
(* it, one thing at most.  What the CAN thread makes of the references is  *)
(* in CommandPanels.                                                       *)
(***************************************************************************)
EXTENDS Naturals, Sequences

CONSTANTS
  File,         \* the files with a program
  NoFile,       \* ... none was read
  For,          \* per file, the mode it has a column for
  Durations,    \* per file, how long its rows last
  Longest       \* bound: time is counted up to one more than this

ASSUME ProgramAssumption ==
  /\ For \in [File -> {"torque", "speed"}]
  /\ Durations \in [File -> Seq(0 .. Longest)]
  /\ NoFile \notin File
  /\ Longest \in Nat

VARIABLES
  panel,    \* the panel's fields
  program,  \* per mode, the ReferenceManager
  unwell,   \* TPDO1 is missing, or the node reports an error
  turn,     \* history, per mode: the row given last, from 1, and since when; 0 for none
  hurried   \* history: a row was passed over, cut short, or given out of turn

programvars == <<panel, program, unwell, turn, hurried>>

Drive == {"torque", "speed"}

\* A reference: zero, one entered by hand, a row's, or what lies beyond the last.
None == <<"zero">>
Entered == <<"entered">>
Beyond == <<"beyond">>
AllNone == [drive \in Drive |-> None]

\* reset(): nothing is loaded.  "rows" are those that could be read; "age" is
\* the time since _timepoint, NoTime if it is not set.
NoTime == Longest + 2
Unloaded == [file |-> NoFile, rows |-> 0, idx |-> 0, age |-> NoTime]
Restarted(manager) == [manager EXCEPT !.idx = 0, !.age = NoTime]

NoTurn == [row |-> 0, time |-> 0]

\* What get() reads for a row; rows are counted from 0, as in the code.
Value(manager, idx) == IF idx < manager.rows THEN <<manager.file, idx>> ELSE Beyond

ProgramInit ==
  /\ panel = [in_run |-> FALSE, control |-> "manual", run |-> FALSE, repeat |-> FALSE,
              dialog |-> FALSE, picked |-> "torque", drawn |-> "torque", refs |-> AllNone]
  /\ program = [drive \in Drive |-> Unloaded]
  /\ unwell = FALSE
  /\ turn = [drive \in Drive |-> NoTurn]
  /\ hurried = FALSE

-----------------------------------------------------------------------------
(* ReferenceManager::get.                                                  *)

\* The row's time is over.  Less than a tick may lie between two looks at the
\* clock.
Over(age, duration) == {age > duration, age >= duration}

\* Mutant: a row's time is counted from the beginning of the program.
NextLate(manager) == [manager EXCEPT !.idx = @ + 1]

NextRow(manager) == [manager EXCEPT !.idx = @ + 1, !.age = 0]

\* get(): the manager as it leaves it, and the reference, NoRef at the end.
NoRef == << >>
Given(manager) ==
  LET begun == IF manager.age = NoTime THEN [manager EXCEPT !.idx = 0, !.age = 0] ELSE manager
      Reads(read) == [manager |-> read, ref |-> Value(read, read.idx)]
  IN IF begun.idx >= begun.rows
     THEN {[manager |-> begun, ref |-> NoRef]}
     ELSE {Reads(IF over THEN NextRow(begun) ELSE begun) :
             over \in Over(begun.age, Durations[begun.file][begun.idx + 1])}

-----------------------------------------------------------------------------
(* A frame.                                                                *)

\* The program's part of _draw_run_mode_controls: a reference is taken, and
\* after the last one the start goes off, unless the program is repeated.
Taken(p, manager) ==
  {IF given.ref # NoRef
   THEN [p |-> [p EXCEPT !.refs[p.drawn] = given.ref], manager |-> given.manager,
         row |-> given.manager.idx + 1]
   ELSE [p |-> [p EXCEPT !.refs[p.drawn] = None, !.run = p.repeat],
         manager |-> Restarted(given.manager), row |-> 0] :
     given \in Given(manager)}

\* With no program there is no start.
Programmed(p, manager, last) ==
  LET driven == p.in_run /\ p.control = "program"
      ran == [p EXCEPT !.run = @ /\ (driven => manager.rows # 0)]
  IN IF driven /\ ran.run THEN Taken(ran, manager)
     ELSE {[p |-> ran, manager |-> manager, row |-> last.row]}

\* The widgets zero the reference that is not of the mode drawn.
OneKept(p) == IF p.in_run THEN [AllNone EXCEPT ![p.drawn] = p.refs[p.drawn]] ELSE p.refs

\* _update_refs.
Updated(p) == [p EXCEPT !.run = @ /\ ~unwell, !.drawn = p.picked]

\* A row between the last and this one has lasted too short a time.
OutOfTurn(file, last, row) ==
  /\ row # 0
  /\ \/ row < last.row
     \/ \E k \in 1 .. row - 1 :
          k >= last.row /\ Durations[file][k] > IF k = last.row THEN last.time ELSE 0

\* The rest of the frame, once the operator's keys, combo boxes and files have
\* changed the panel to p and the programs to managers.
Frame(p, managers) ==
  LET lasts == [drive \in Drive |->
                 IF managers[drive] = program[drive] THEN turn[drive] ELSE NoTurn]
      last == lasts[p.drawn]
  IN /\ \E drawn \in Programmed(p, managers[p.drawn], last) :
          /\ panel' = Updated([drawn.p EXCEPT !.refs = OneKept(drawn.p)])
          /\ program' = [managers EXCEPT ![p.drawn] = drawn.manager]
          /\ hurried' = (hurried \/ OutOfTurn(drawn.manager.file, last, drawn.row))
          /\ turn' = [lasts EXCEPT ![p.drawn] =
                        IF drawn.row = last.row THEN @ ELSE [row |-> drawn.row, time |-> 0]]
     /\ UNCHANGED unwell

UiLooks == Frame(panel, program)

\* F4, or the button.
UiRun == Frame([panel EXCEPT !.run = ~@], program)

\* Run mode, or another one: _reset_refs.
UiChooseMode ==
  Frame([panel EXCEPT !.in_run = ~@, !.run = FALSE, !.refs = AllNone, !.control = "manual"],
        program)

\* The combo box "manual, program" forgets both programs.
UiChooseControl(control) ==
  /\ panel.in_run
  /\ Frame([panel EXCEPT !.control = control, !.run = FALSE, !.refs = AllNone],
           [drive \in Drive |-> Unloaded])

ProgramDrawn == panel.in_run /\ panel.control = "program"

UiRepeat ==
  /\ ProgramDrawn
  /\ Frame([panel EXCEPT !.repeat = ~@], program)

\* "Load Test Program" cannot be pressed while the drive runs; the dialog it
\* opens stays, whatever is pressed meanwhile.
UiOpenDialog ==
  /\ ProgramDrawn
  /\ ~panel.run
  /\ ~panel.dialog
  /\ Frame([panel EXCEPT !.dialog = TRUE], program)

\* Mutant: a file is read while the old program goes on.
ReadOver(file, manager, rows) == [manager EXCEPT !.file = file, !.rows = rows]

\* read_file leaves the rows before the first that cannot be read, and none of a
\* file without a column for the mode.
ReadFile(file, manager, rows) == [Unloaded EXCEPT !.file = file, !.rows = rows]

UiPickFile(file, rows) ==
  /\ ProgramDrawn
  /\ panel.dialog
  /\ For[file] # panel.drawn => rows = 0
  /\ Frame([panel EXCEPT !.dialog = FALSE],
           [program EXCEPT ![panel.drawn] = ReadFile(file, @, rows)])

\* The dialog is closed, or the file is none of rows.
UiCloseDialog ==
  /\ ProgramDrawn
  /\ panel.dialog
  /\ Frame([panel EXCEPT !.dialog = FALSE], program)

\* The radio buttons come after the program; they count from the next frame.
UiPickDrive(drive) ==
  /\ panel.in_run
  /\ Frame([panel EXCEPT !.picked = drive], program)

UiEnter ==
  /\ panel.in_run
  /\ panel.control = "manual"
  /\ Frame([panel EXCEPT !.refs[panel.drawn] = Entered], program)

UiFrames ==
  \/ UiLooks \/ UiRun \/ UiChooseMode \/ UiRepeat \/ UiOpenDialog \/ UiCloseDialog \/ UiEnter
  \/ (\E control \in {"manual", "program"} : UiChooseControl(control))
  \/ (\E file \in File : \E rows \in 0 .. Len(Durations[file]) : UiPickFile(file, rows))
  \/ (\E drive \in Drive : UiPickDrive(drive))

\* Time passes; without frames, too, for a window that is closed.
Ticks ==
  /\ \E drive \in Drive : program[drive].age <= Longest
  /\ program' = [drive \in Drive |->
                   [program[drive] EXCEPT !.age = IF @ <= Longest THEN @ + 1 ELSE @]]
  /\ turn' = [drive \in Drive |->
                [turn[drive] EXCEPT !.time = IF @ <= Longest THEN @ + 1 ELSE @]]
  /\ UNCHANGED <<panel, unwell, hurried>>

UnwellChanges == unwell' = ~unwell /\ UNCHANGED <<panel, program, turn, hurried>>

ProgramNext == UiFrames \/ Ticks \/ UnwellChanges

ProgramSpec == ProgramInit /\ [][ProgramNext]_programvars
-----------------------------------------------------------------------------
\* While a program runs the drive, the reference of the mode is that of the row
\* its program has come to, or zero: no value entered by hand, none of a file
\* loaded before and none of the other mode's program, whatever is loaded,
\* picked or stopped meanwhile.  (In the frame after the last row the code reads
\* what lies beyond it.)
FollowsTheProgram ==
  (ProgramDrawn /\ panel.run) =>
    LET manager == program[panel.drawn]
    IN panel.refs[panel.drawn] \in {None, Value(manager, manager.idx)}

\* Rows are given in the order of the file, each for its duration and none passed
\* over, however long the window was closed, the drive stopped or the other mode
\* drawn in between.
RowsInTurn == ~hurried

\* The two together: what is given, and when.
ProgramIsFollowed == FollowsTheProgram /\ RowsInTurn
=============================================================================

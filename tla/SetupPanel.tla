------------------------------ MODULE SetupPanel ------------------------------
(***************************************************************************)
(* ServerSetupPanel: the table of all parameters.  The operator reads them *)
(* all, or loads a file that is compared with the server, picks rows and   *)
(* has them written, each write followed by a read-back.  The work is done *)
(* by ServerConfigService on the CAN thread; the panel looks once a frame  *)
(* whether it has finished, and takes the results over row by row.         *)
(*                                                                         *)
(* The panel's fields belong to the UI thread alone, so a click and the    *)
(* taking of a result are one step each, the service's steps between any   *)
(* two of them.  Dialogs are modal: from the button to the confirmation    *)
(* nothing else can be clicked, and both are one step.                     *)
(***************************************************************************)
EXTENDS ConfigService

CONSTANTS
  Listed,   \* config_service.entries(), in the order of the dictionary
  Manual,   \* the objects of the subcategory "ucanopen"
  Restart,  \* the object restart_required, or none
  Zero,     \* the value that means no restart is required
  Same,     \* same_value, as a set of pairs
  Files     \* what may be loaded: functions from objects to values

ASSUME SetupAssumption ==
  /\ Listed \in Seq(Entry)
  /\ \A i, j \in DOMAIN Listed : Listed[i] = Listed[j] => i = j
  /\ Manual \subseteq Entry
  /\ Restart \notin Writable
  /\ Same \subseteq Data \X Data
  /\ \A file \in Files : DOMAIN file \subseteq Entry /\ \A e \in DOMAIN file : file[e] \in Data

VARIABLES
  opened,        \* View::_opened
  transfer,      \* _transfer
  table,         \* _table
  rows,          \* _rows
  written_rows,  \* _written_rows
  hint,          \* _hint: "", "match", "save" or "restart"
  told,          \* history: what the server acknowledged and answered per object, since
                 \*   the table was filled or the object's row was last to be written
  by_hand        \* history: the node's ids, of this table, whose checkbox was clicked

panelvars == <<opened, transfer, table, rows, written_rows, hint, by_hand>>
setupvars == <<vars, panelvars, told>>

Row(entry, file_value) ==
  [entry |-> entry, server_value |-> NoData, file_value |-> file_value,
   selected |-> FALSE, status |-> ""]

\* Row::differs: the file's value is not the server's, or that is unknown.
Differs(row) ==
  /\ row.file_value # NoData
  /\ row.server_value # NoData => <<row.server_value, row.file_value>> \notin Same

Picked(row) == row.selected /\ Differs(row)

\* Mutant: only a transfer that runs keeps the buttons disabled.
BusyWhileRunning == Busy

\* _busy: also while a result waits to be taken.
PanelBusy == transfer # "none" \/ Busy

Silence == [e \in Entry |-> [written |-> NoData, read |-> NoData]]

ReadStep(entry) == [entry |-> entry, write_value |-> NoData]

SetupInit ==
  /\ Init
  /\ opened = TRUE
  /\ transfer = "none"
  /\ table = "values"
  /\ rows = << >>
  /\ written_rows = << >>
  /\ hint = ""
  /\ told = Silence
  /\ by_hand = {}

\* Places in a list, from the front to the back.
InTableOrder(places) == \A j, k \in DOMAIN places : j < k => places[j] < places[k]

\* The objects of a set, as they are listed: there is one such list.
ListedOf(objects) ==
  LET there == {i \in DOMAIN Listed : Listed[i] \in objects}
      lists == {p \in [1 .. Cardinality(there) -> there] : InTableOrder(p)}
  IN {[i \in DOMAIN p |-> Listed[p[i]]] : p \in lists}

-----------------------------------------------------------------------------
(* What the operator clicks.                                               *)

\* _read_all
ReadAll ==
  /\ opened
  /\ ~PanelBusy
  /\ \E read \in ListedOf(Readable) :
       /\ Start([i \in DOMAIN read |-> ReadStep(read[i])])
       /\ rows' = [i \in DOMAIN read |-> Row(read[i], NoData)]
  /\ table' = "values"
  /\ hint' = ""
  /\ transfer' = "read_all"
  /\ told' = Silence
  /\ by_hand' = {}
  /\ UNCHANGED <<opened, written_rows>>

\* The rows of a file: what the dictionary has of it and lets be written and
\* read back.
FileRows(file) ==
  {[i \in DOMAIN found |-> Row(found[i], file[found[i]])] :
     found \in ListedOf(DOMAIN file \cap Readable \cap Writable)}

\* Mutant: a file with no parameter to write is compared too.
LoadFileUnchecked(file) ==
  /\ opened
  /\ ~PanelBusy
  /\ rows' \in FileRows(file)
  /\ IF rows' = << >>
     THEN UNCHANGED vars
     ELSE Start([i \in DOMAIN rows' |-> ReadStep(rows'[i].entry)])
  /\ transfer' = "compare"
  /\ table' = "file"
  /\ hint' = ""
  /\ told' = Silence
  /\ by_hand' = {}
  /\ UNCHANGED <<opened, written_rows>>

\* _load_file: with nothing to compare no transfer is started.
LoadFile(file) ==
  /\ opened
  /\ ~PanelBusy
  /\ rows' \in FileRows(file)
  /\ IF rows' = << >>
     THEN UNCHANGED <<vars, transfer>>
     ELSE /\ Start([i \in DOMAIN rows' |-> ReadStep(rows'[i].entry)])
          /\ transfer' = "compare"
  /\ table' = "file"
  /\ hint' = ""
  /\ told' = Silence
  /\ by_hand' = {}
  /\ UNCHANGED <<opened, written_rows>>

\* The steps that write the picked rows `w`: a write and a read-back each, and
\* whether a restart is required, where the server can tell.
WriteSteps(w) ==
  [j \in 1 .. 2 * Len(w) |->
     LET row == rows[w[(j + 1) \div 2]]
     IN [entry |-> row.entry, write_value |-> IF j % 2 = 1 THEN row.file_value ELSE NoData]]
  \o (IF Restart \in Readable THEN <<ReadStep(Restart)>> ELSE << >>)

PickedRows == {i \in DOMAIN rows : Picked(rows[i])}

\* _write_selected, from the table of a file
WriteSelected ==
  /\ opened
  /\ ~PanelBusy
  /\ table = "file"
  /\ PickedRows # {}
  /\ \E w \in [1 .. Cardinality(PickedRows) -> PickedRows] :
       /\ InTableOrder(w)
       /\ Start(WriteSteps(w))
       /\ written_rows' = w
  /\ hint' = ""
  /\ transfer' = "write"
  /\ told' = [e \in Entry |->
          IF \E i \in DOMAIN steps' : steps'[i].entry = e THEN Silence[e] ELSE told[e]]
  /\ UNCHANGED <<opened, table, rows, by_hand>>

\* The checkbox of a row, there while it differs (_draw_file_table).
Toggle(i) ==
  /\ opened
  /\ ~PanelBusy
  /\ table = "file"
  /\ Differs(rows[i])
  /\ rows' = [rows EXCEPT ![i].selected = ~@]
  /\ by_hand' = by_hand \cup ({rows[i].entry} \cap Manual)
  /\ UNCHANGED <<vars, opened, transfer, table, written_rows, hint, told>>

CancelTransfer ==
  /\ opened
  /\ Cancel
  /\ UNCHANGED <<panelvars, told>>

\* The window's close button and the menu: a closed panel is not drawn.
Window ==
  /\ opened' = ~opened
  /\ UNCHANGED <<vars, transfer, table, rows, written_rows, hint, told, by_hand>>

-----------------------------------------------------------------------------
(* _take_transfer, at the beginning of draw.                               *)

Result == opened /\ transfer # "none" /\ ~Busy

\* _take_read_all
TakeReadAll ==
  /\ Result
  /\ transfer = "read_all"
  /\ rows' = [i \in DOMAIN rows |->
       IF steps[i].status = "done"
       THEN [rows[i] EXCEPT !.server_value = steps[i].value]
       ELSE [rows[i] EXCEPT !.status = steps[i].status]]
  /\ transfer' = "none"
  /\ UNCHANGED <<vars, opened, table, written_rows, hint, told, by_hand>>

\* Mutant: the node's own ids are picked like everything else.
ComparedPicksAll(row, step) ==
  LET read == [row EXCEPT !.server_value = step.value]
  IN IF step.status # "done" THEN [row EXCEPT !.status = "not read"]
     ELSE IF ~Differs(read) THEN [read EXCEPT !.status = "same"]
     ELSE [read EXCEPT !.selected = TRUE]

\* A row after the comparison: picked if it differs, but for the node's ids.
Compared(row, step) ==
  LET read == [row EXCEPT !.server_value = step.value]
  IN IF step.status # "done" THEN [row EXCEPT !.status = "not read"]
     ELSE IF ~Differs(read) THEN [read EXCEPT !.status = "same"]
     ELSE [read EXCEPT !.selected = row.entry \notin Manual]

\* Mutant: what was not read counts as matching.
MatchesUnlessPicked(row) == ~row.selected

\* Neither different nor unknown.
Matches(row) == row.status = "same"

\* _take_compare
TakeCompare ==
  /\ Result
  /\ transfer = "compare"
  /\ rows' = [i \in DOMAIN rows |-> Compared(rows[i], steps[i])]
  /\ hint' = IF \A i \in DOMAIN rows : Matches(rows'[i]) THEN "match" ELSE hint
  /\ transfer' = "none"
  /\ UNCHANGED <<vars, opened, table, written_rows, told, by_hand>>

\* Mutant: a row is not picked any more once its write was tried.
WrittenUnpicks(row, write, check) ==
  LET checked == [row EXCEPT !.selected = FALSE, !.server_value = check.value]
  IN IF write.status # "done" THEN [row EXCEPT !.selected = FALSE, !.status = write.status]
     ELSE IF check.status # "done"
     THEN [row EXCEPT !.selected = FALSE, !.status = "not checked"]
     ELSE [checked EXCEPT !.status = IF Differs(checked) THEN "returned" ELSE "written"]

\* Mutant: the write alone is looked at.
WrittenUnchecked(row, write, check) ==
  IF write.status # "done" THEN [row EXCEPT !.status = write.status]
  ELSE [row EXCEPT !.selected = FALSE, !.server_value = row.file_value, !.status = "written"]

\* A row after its write and its read-back: left picked if it was not written,
\* to be tried again.
Written(row, write, check) ==
  LET checked == [row EXCEPT !.selected = FALSE, !.server_value = check.value]
  IN IF write.status # "done" THEN [row EXCEPT !.status = write.status]
     ELSE IF check.status # "done"
     THEN [row EXCEPT !.selected = FALSE, !.status = "not checked"]
     ELSE [checked EXCEPT !.status = IF Differs(checked) THEN "returned" ELSE "written"]

\* _take_write
TakeWrite ==
  LET n == Len(written_rows)
      place(i) == CHOOSE k \in 1 .. n : written_rows[k] = i
      restart_required == /\ Len(steps) = 2 * n + 1
                          /\ steps[Len(steps)].status = "done"
                          /\ steps[Len(steps)].value # Zero
  IN /\ Result
     /\ transfer = "write"
     /\ rows' = [i \in DOMAIN rows |->
          IF \E k \in 1 .. n : written_rows[k] = i
          THEN Written(rows[i], steps[2 * place(i) - 1], steps[2 * place(i)])
          ELSE rows[i]]
     /\ hint' = IF \E k \in 1 .. n : steps[2 * k - 1].status = "done"
                THEN IF restart_required THEN "restart" ELSE "save"
                ELSE hint
     /\ written_rows' = << >>
     /\ transfer' = "none"
     /\ UNCHANGED <<vars, opened, table, told, by_hand>>

\* Mutant: the result is taken after a read only.
TakeReadsOnly == TakeReadAll \/ TakeCompare

TakeTransfer == TakeReadAll \/ TakeCompare \/ TakeWrite

-----------------------------------------------------------------------------
(* The CAN thread.                                                         *)

ServerAnswers(entry, type, data) ==
  /\ HandleSdo(entry, type, data)
  /\ told' =
       IF type = "abort" THEN told
       ELSE IF IsWrite(Current)
       THEN [told EXCEPT ![entry] = [written |-> Current.write_value, read |-> NoData]]
       ELSE [told EXCEPT ![entry].read = data]
  /\ UNCHANGED panelvars

ServiceGoesOn == (Send \/ Expire) /\ UNCHANGED <<panelvars, told>>

SetupNext ==
  \/ ReadAll
  \/ \E file \in Files : LoadFile(file)
  \/ WriteSelected
  \/ \E i \in DOMAIN rows : Toggle(i)
  \/ CancelTransfer
  \/ Window
  \/ TakeTransfer
  \/ \E entry \in Entry, type \in AnswerType, data \in Data : ServerAnswers(entry, type, data)
  \/ ServiceGoesOn

SetupSafeSpec == SetupInit /\ [][SetupNext]_setupvars

\* The CAN thread calls send, the clock advances, and the main loop draws the
\* panel for as long as it is open.
SetupFairness ==
  /\ WF_setupvars(Send /\ UNCHANGED <<panelvars, told>>)
  /\ WF_setupvars(Expire /\ UNCHANGED <<panelvars, told>>)
  /\ WF_setupvars(TakeTransfer)

SetupSpec == SetupSafeSpec /\ SetupFairness
-----------------------------------------------------------------------------
\* Results are found by their place alone: the steps of the transfer under way,
\* or done and not yet taken, are those of the panel's rows, one for each when
\* they are read, two for each row written and perhaps one more.
ResultsFitRows ==
  /\ Busy => transfer # "none"
  /\ transfer \in {"read_all", "compare"} =>
       /\ Len(steps) = Len(rows)
       /\ \A i \in DOMAIN rows : steps[i].entry = rows[i].entry
  /\ transfer = "write" =>
       /\ Len(steps) \in {2 * Len(written_rows), 2 * Len(written_rows) + 1}
       /\ \A k \in DOMAIN written_rows :
            {steps[2 * k - 1].entry, steps[2 * k].entry} = {rows[written_rows[k]].entry}

\* A row shown as written is one the server acknowledged the write of, with
\* the file's value, and has given that value back since.
GreenIsProven ==
  \A i \in DOMAIN rows :
    rows[i].status = "written" =>
      LET object == told[rows[i].entry]
      IN object.written = rows[i].file_value /\ <<object.read, object.written>> \in Same

\* "what the last transfer left": once its result was taken, the column of the
\* server's values shows what was read last, unless the object was written
\* since, or the row tells that its write failed.
ShowsLastRead ==
  transfer = "none" =>
    \A i \in DOMAIN rows :
      LET object == told[rows[i].entry]
      IN (object.read # NoData /\ rows[i].status \notin {"refused", "timed_out", "cancelled"})
           => rows[i].server_value = object.read

\* What the operator is told to do next is so: the settings match if all were
\* read and are the file's; a restart is required if the server said so.
HintIsTrue ==
  /\ hint = "match" =>
       \A i \in DOMAIN rows : <<told[rows[i].entry].read, rows[i].file_value>> \in Same
  /\ hint = "restart" => told[Restart].read \notin {NoData, Zero}

\* What the table and the line above it say is so.
TableTellsTheTruth == ShowsLastRead /\ HintIsTrue

\* "Left picked, to be tried again": a write that was refused, not answered or
\* cancelled does not lose the row; it is put down only once acknowledged.
PutDownOnceWritten ==
  [][ transfer = "write" =>
        \A i \in DOMAIN rows :
          (rows[i].selected /\ ~rows'[i].selected)
            => told[rows[i].entry].written = rows[i].file_value
    ]_setupvars

\* "they are loaded only when picked by hand": the node's own id and those it
\* listens to are never written because they were in the file.
IdsWrittenByHand ==
  transfer = "write" =>
    \A k \in DOMAIN written_rows :
      LET entry == rows[written_rows[k]].entry IN entry \in Manual => entry \in by_hand

\* The result of a transfer reaches the table, unless the window is closed.
ResultIsTaken == (transfer # "none") ~> (transfer = "none" \/ ~opened)
=============================================================================

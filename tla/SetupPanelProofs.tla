-------------------------- MODULE SetupPanelProofs --------------------------
(***************************************************************************)
(* Proofs about SetupPanel, for any dictionary, files and answers of the   *)
(* server.                                                                 *)
(*                                                                         *)
(* First, that the node's own ids, and those it listens to, are written    *)
(* only when the operator picked them.  IdsWrittenByHand speaks of the     *)
(* rows being written, so the invariant adds where those come from: a row  *)
(* that is picked has its id in by_hand, at any time, and the rows of a    *)
(* transfer are rows of the table, which no click can replace until its    *)
(* result is taken.                                                        *)
(*                                                                         *)
(* Then, that the table tells the truth.  A result is found by its place   *)
(* alone, so TableInv says which step is about which row while a transfer  *)
(* runs or waits to be taken; that each object is asked for once, and read *)
(* back only after it was written; and that what a step shows is what the  *)
(* server told of its object since the transfer began.  Taking the result  *)
(* then carries the last into the rows.                                    *)
(*                                                                         *)
(* Last, that the panel is a user of ServerConfigService like any other,   *)
(* and which lists it makes: what is proved of the service, alone and on   *)
(* the bus, is said of them too.                                           *)
(***************************************************************************)
EXTENDS SetupPanel, ConfigServiceProofs, FiniteSetTheorems, SequenceTheorems, TLAPS

\* The rows keep their shape, whatever the server answers.
RowsFormed ==
  \A i \in DOMAIN rows :
    /\ rows[i] = [entry |-> rows[i].entry, server_value |-> rows[i].server_value,
                  file_value |-> rows[i].file_value, selected |-> rows[i].selected,
                  status |-> rows[i].status]
    /\ rows[i].selected \in BOOLEAN

PickedByHand ==
  \A i \in DOMAIN rows :
    (rows[i].selected = TRUE /\ rows[i].entry \in Manual) => rows[i].entry \in by_hand

WritesRows ==
  transfer = "write" =>
    \A k \in DOMAIN written_rows : written_rows[k] \in DOMAIN rows

SetupInv ==
  /\ RowsFormed
  /\ PickedByHand
  /\ WritesRows
  /\ IdsWrittenByHand

\* A row after its comparison is still a row of the same object, and is
\* picked only if it was before or the object is none of the node's ids.
LEMMA ComparedRow ==
  ASSUME NEW row, NEW step,
         row = [entry |-> row.entry, server_value |-> row.server_value,
                file_value |-> row.file_value, selected |-> row.selected,
                status |-> row.status],
         row.selected \in BOOLEAN,
         NEW new, new = Compared(row, step)
  PROVE  /\ new = [entry |-> new.entry, server_value |-> new.server_value,
                   file_value |-> new.file_value, selected |-> new.selected,
                   status |-> new.status]
         /\ new.selected \in BOOLEAN
         /\ new.entry = row.entry
         /\ new.selected = TRUE => (row.selected = TRUE \/ row.entry \notin Manual)
<1> DEFINE read == [row EXCEPT !.server_value = step.value]
<1>1. CASE step.status # "done"
  <2>1. new = [row EXCEPT !.status = "not read"]
    BY <1>1 DEF Compared
  <2> QED
    BY <2>1
<1>2. CASE step.status = "done" /\ ~Differs(read)
  <2>1. new = [read EXCEPT !.status = "same"]
    BY <1>2 DEF Compared
  <2> QED
    BY <2>1
<1>3. CASE step.status = "done" /\ Differs(read)
  <2>1. new = [read EXCEPT !.selected = row.entry \notin Manual]
    BY <1>3 DEF Compared
  <2> QED
    BY <2>1
<1> QED
  BY <1>1, <1>2, <1>3

\* A row after its write is still a row of the same object, and is picked
\* only if it was before.
LEMMA WrittenRow ==
  ASSUME NEW row, NEW write, NEW check,
         row = [entry |-> row.entry, server_value |-> row.server_value,
                file_value |-> row.file_value, selected |-> row.selected,
                status |-> row.status],
         row.selected \in BOOLEAN,
         NEW new, new = Written(row, write, check)
  PROVE  /\ new = [entry |-> new.entry, server_value |-> new.server_value,
                   file_value |-> new.file_value, selected |-> new.selected,
                   status |-> new.status]
         /\ new.selected \in BOOLEAN
         /\ new.entry = row.entry
         /\ new.selected = TRUE => row.selected = TRUE
<1> DEFINE checked == [row EXCEPT !.selected = FALSE, !.server_value = check.value]
<1>1. CASE write.status # "done"
  <2>1. new = [row EXCEPT !.status = write.status]
    BY <1>1 DEF Written
  <2> QED
    BY <2>1
<1>2. CASE write.status = "done" /\ check.status # "done"
  <2>1. new = [row EXCEPT !.selected = FALSE, !.status = "not checked"]
    BY <1>2 DEF Written
  <2> QED
    BY <2>1
<1>3. CASE write.status = "done" /\ check.status = "done"
  <2>1. new = [checked EXCEPT !.status = IF Differs(checked) THEN "returned" ELSE "written"]
    BY <1>3 DEF Written
  <2> QED
    BY <2>1
<1> QED
  BY <1>1, <1>2, <1>3

\* The strengthened invariant is inductive.
LEMMA SetupInvariance == SetupSafeSpec => []SetupInv
<1>1. SetupInit => SetupInv
  <2> SUFFICES ASSUME SetupInit PROVE SetupInv
    OBVIOUS
  <2>1. transfer = "none" /\ rows = << >>
    BY DEF SetupInit
  <2> QED
    BY <2>1 DEF SetupInv, RowsFormed, PickedByHand, WritesRows, IdsWrittenByHand
<1>2. SetupInv /\ [SetupNext]_setupvars => SetupInv'
  <2> SUFFICES ASSUME SetupInv, [SetupNext]_setupvars PROVE SetupInv'
    OBVIOUS
  <2> USE DEF SetupInv, RowsFormed, PickedByHand, WritesRows, IdsWrittenByHand
  <2>1. CASE ReadAll
    <3>1. PICK read : /\ rows' = [i \in DOMAIN read |-> Row(read[i], NoData)]
                      /\ transfer' = "read_all"
      BY <2>1 DEF ReadAll
    <3> QED
      BY <3>1 DEF Row
  <2>2. ASSUME NEW file \in Files, LoadFile(file) PROVE SetupInv'
    <3>1. PICK found : rows' = [i \in DOMAIN found |-> Row(found[i], file[found[i]])]
      BY <2>2 DEF LoadFile, FileRows
    <3>2. transfer' # "write"
      BY <2>2 DEF LoadFile, PanelBusy
    <3> QED
      BY <3>1, <3>2 DEF Row
  <2>3. CASE WriteSelected
    <3>1. PICK w \in [1 .. Cardinality(PickedRows) -> PickedRows] : written_rows' = w
      BY <2>3 DEF WriteSelected
    <3>2. \A k \in DOMAIN written_rows' :
            /\ written_rows'[k] \in DOMAIN rows
            /\ rows[written_rows'[k]].selected
      BY <3>1 DEF PickedRows, Picked
    <3>3. UNCHANGED <<rows, by_hand>>
      BY <2>3 DEF WriteSelected
    <3> QED
      BY <3>2, <3>3
  <2>4. ASSUME NEW i \in DOMAIN rows, Toggle(i) PROVE SetupInv'
    <3>1. /\ transfer' # "write"
          /\ rows' = [rows EXCEPT ![i].selected = ~@]
          /\ by_hand' = by_hand \cup ({rows[i].entry} \cap Manual)
      BY <2>4 DEF Toggle, PanelBusy
    <3> DEFINE new == [rows[i] EXCEPT !.selected = ~@]
    <3>2. rows' = [rows EXCEPT ![i] = new]
      BY <3>1
    <3>3. /\ new = [entry |-> rows[i].entry, server_value |-> rows[i].server_value,
                    file_value |-> rows[i].file_value, selected |-> ~rows[i].selected,
                    status |-> rows[i].status]
          /\ new.selected \in BOOLEAN
          /\ new.entry = rows[i].entry
      OBVIOUS
    <3> HIDE DEF new
    <3>4. \A j \in DOMAIN rows' : rows'[j] = IF j = i THEN new ELSE rows[j]
      BY <3>2
    <3>5. DOMAIN rows' = DOMAIN rows
      BY <3>2
    <3>6. RowsFormed'
      BY <3>3, <3>4, <3>5
    <3>7. PickedByHand'
      BY <3>1, <3>3, <3>4, <3>5
    <3> QED
      BY <3>1, <3>6, <3>7
  <2>5. CASE UNCHANGED <<panelvars, told>>
    BY <2>5 DEF panelvars
  <2>6. CASE Window
    BY <2>6 DEF Window
  <2>7. CASE TakeReadAll
    <3>1. /\ transfer' = "none"
          /\ UNCHANGED by_hand
          /\ rows' = [i \in DOMAIN rows |->
               IF steps[i].status = "done"
               THEN [rows[i] EXCEPT !.server_value = steps[i].value]
               ELSE [rows[i] EXCEPT !.status = steps[i].status]]
      BY <2>7 DEF TakeReadAll
    <3>2. ASSUME NEW i \in DOMAIN rows
          PROVE  /\ rows'[i] = [entry |-> rows'[i].entry,
                                server_value |-> rows'[i].server_value,
                                file_value |-> rows'[i].file_value,
                                selected |-> rows'[i].selected, status |-> rows'[i].status]
                 /\ rows'[i].selected = rows[i].selected
                 /\ rows'[i].entry = rows[i].entry
      BY <3>1
    <3> QED
      BY <3>1, <3>2
  <2>8. CASE TakeCompare
    <3>1. /\ transfer' = "none"
          /\ UNCHANGED by_hand
          /\ rows' = [i \in DOMAIN rows |-> Compared(rows[i], steps[i])]
      BY <2>8 DEF TakeCompare
    <3>2. ASSUME NEW i \in DOMAIN rows
          PROVE  /\ rows'[i] = [entry |-> rows'[i].entry,
                                server_value |-> rows'[i].server_value,
                                file_value |-> rows'[i].file_value,
                                selected |-> rows'[i].selected, status |-> rows'[i].status]
                 /\ rows'[i].selected \in BOOLEAN
                 /\ rows'[i].entry = rows[i].entry
                 /\ rows'[i].selected = TRUE =>
                      (rows[i].selected = TRUE \/ rows[i].entry \notin Manual)
      <4>1. rows'[i] = Compared(rows[i], steps[i])
        BY <3>1
      <4> QED
        BY <4>1, ComparedRow
    <3> QED
      BY <3>1, <3>2
  <2>9. CASE TakeWrite
    <3> DEFINE n == Len(written_rows)
               place(i) == CHOOSE k \in 1 .. n : written_rows[k] = i
    <3>1. /\ transfer' = "none"
          /\ UNCHANGED by_hand
          /\ rows' = [i \in DOMAIN rows |->
               IF \E k \in 1 .. n : written_rows[k] = i
               THEN Written(rows[i], steps[2 * place(i) - 1], steps[2 * place(i)])
               ELSE rows[i]]
      BY <2>9 DEF TakeWrite
    <3>2. ASSUME NEW i \in DOMAIN rows
          PROVE  /\ rows'[i] = [entry |-> rows'[i].entry,
                                server_value |-> rows'[i].server_value,
                                file_value |-> rows'[i].file_value,
                                selected |-> rows'[i].selected, status |-> rows'[i].status]
                 /\ rows'[i].selected \in BOOLEAN
                 /\ rows'[i].entry = rows[i].entry
                 /\ rows'[i].selected = TRUE => rows[i].selected = TRUE
      <4>1. PICK write, check : \/ rows'[i] = Written(rows[i], write, check)
                                \/ rows'[i] = rows[i]
        BY <3>1
      <4>2. CASE rows'[i] = rows[i]
        BY <4>2
      <4>3. CASE rows'[i] = Written(rows[i], write, check)
        <5>1. /\ rows[i] = [entry |-> rows[i].entry, server_value |-> rows[i].server_value,
                           file_value |-> rows[i].file_value,
                           selected |-> rows[i].selected, status |-> rows[i].status]
              /\ rows[i].selected \in BOOLEAN
          OBVIOUS
        <5> QED
          BY ONLY <4>3, <5>1, WrittenRow
      <4> QED
        BY <4>1, <4>2, <4>3
    <3> QED
      BY <3>1, <3>2
  <2>10. CASE UNCHANGED setupvars
    BY <2>10 DEF setupvars, panelvars
  <2>11. CASE CancelTransfer
    BY <2>5, <2>11 DEF CancelTransfer
  <2>12. ASSUME NEW entry \in Entry, NEW type \in AnswerType, NEW data \in Data,
                ServerAnswers(entry, type, data)
         PROVE  SetupInv'
    <3>1. UNCHANGED panelvars
      BY <2>12 DEF ServerAnswers
    <3> QED
      BY <3>1 DEF panelvars
  <2>13. CASE ServiceGoesOn
    BY <2>5, <2>13 DEF ServiceGoesOn
  <2> QED
    <3> HIDE DEF SetupInv
    <3> QED
      BY <2>1, <2>2, <2>3, <2>4, <2>6, <2>7, <2>8, <2>9, <2>10, <2>11, <2>12, <2>13
      DEF SetupNext, TakeTransfer
<1> QED
  BY <1>1, <1>2, PTL DEF SetupSafeSpec

\* The node's id and the ids it listens to are never written because a file
\* held them: not by the comparison that picks what differs, and not by rows
\* left picked when a write failed.
THEOREM IdsNeedAHand == SetupSafeSpec => []IdsWrittenByHand
<1>1. SetupInv => IdsWrittenByHand
  BY DEF SetupInv
<1> QED
  BY <1>1, SetupInvariance, PTL

-----------------------------------------------------------------------------
(* The table, the transfer and what the server has told.                   *)

Value == Data \cup {NoData}
RowStatus == Status \cup {"", "not read", "same", "not checked", "returned", "written"}
TableRow ==
  [entry : Entry, server_value : Value, file_value : Value, selected : BOOLEAN,
   status : RowStatus]
Told == [written : Value, read : Value]

\* An object has one row, and a file's rows can be written.
Table ==
  /\ rows \in Seq(TableRow)
  /\ \A i, j \in DOMAIN rows : rows[i].entry = rows[j].entry => i = j
  /\ transfer \in {"none", "read_all", "compare", "write"}
  /\ transfer \in {"compare", "write"} => table = "file"
  /\ table = "file" => \A i \in DOMAIN rows : rows[i].entry \in Writable /\ rows[i].file_value \in Data

\* The steps of a transfer that reads: one for each row.
ReadsRows ==
  /\ Len(steps) = Len(rows)
  /\ \A i \in DOMAIN rows :
       /\ steps[i].entry = rows[i].entry /\ steps[i].write_value = NoData
       /\ rows[i].status = ""

\* The steps of a transfer that writes: two for each row, and one more.
WritesTwice(k) ==
  LET row == rows[written_rows[k]] IN
  /\ steps[2 * k - 1].entry = row.entry /\ steps[2 * k - 1].write_value = row.file_value
  /\ steps[2 * k].entry = row.entry /\ steps[2 * k].write_value = NoData
  /\ row.status # "written"

WritesRowsInTurn ==
  /\ written_rows \in Seq(DOMAIN rows)
  /\ \A j, k \in DOMAIN written_rows : written_rows[j] = written_rows[k] => j = k
  /\ Len(steps) \in {2 * Len(written_rows), 2 * Len(written_rows) + 1}
  /\ \A k \in DOMAIN written_rows : WritesTwice(k)
  /\ Len(steps) = 2 * Len(written_rows) + 1 =>
       steps[Len(steps)].entry = Restart /\ steps[Len(steps)].write_value = NoData
  /\ \A i \in DOMAIN steps :
       \/ \E k \in DOMAIN written_rows : steps[i].entry = rows[written_rows[k]].entry
       \/ steps[i].entry = Restart

\* An object is read once in a transfer, and written once before that.
EachOnce ==
  \A i, j \in DOMAIN steps :
    steps[i].entry = steps[j].entry =>
      /\ (IsWrite(steps[i]) <=> IsWrite(steps[j])) => i = j
      /\ (IsWrite(steps[i]) /\ ~IsWrite(steps[j])) => i < j

\* What the server has told of a step's object is what the step has to show.
StepTold(i) ==
  LET object == told[steps[i].entry] IN
  IF IsWrite(steps[i])
  THEN object.written = IF steps[i].status = "done" THEN steps[i].write_value ELSE NoData
  ELSE /\ object.read = IF steps[i].status = "done" THEN steps[i].value ELSE NoData
       /\ steps[i].status = "done" => steps[i].value \in Data

Transfers ==
  /\ transfer = "none" => ~Busy
  /\ transfer # "none" => hint = "" /\ EachOnce /\ \A i \in DOMAIN steps : StepTold(i)
  /\ transfer \in {"read_all", "compare"} => ReadsRows
  /\ transfer = "write" => WritesRowsInTurn

\* What a row that is not being read or written shows.
Rests(i) == transfer = "write" => \A k \in DOMAIN written_rows : written_rows[k] # i

RowShows(i) ==
  LET object == told[rows[i].entry] IN
  (object.read # NoData /\ rows[i].status \notin {"refused", "timed_out", "cancelled"})
    => rows[i].server_value = object.read

RestingRows ==
  transfer \in {"none", "write"} => \A i \in DOMAIN rows : Rests(i) => RowShows(i)

WrittenIs(i) ==
  LET object == told[rows[i].entry] IN
  rows[i].status = "written" =>
    /\ ~Differs(rows[i])
    /\ object.written = rows[i].file_value /\ <<object.read, object.written>> \in Same

WrittenRows == \A i \in DOMAIN rows : WrittenIs(i)

TableInv ==
  /\ IInv
  /\ told \in [Entry -> Told]
  /\ Table
  /\ Transfers
  /\ RestingRows
  /\ WrittenRows
  /\ HintIsTrue

\* What the service does between two answers: a step that waits gets another
\* verdict than done, or none.
GoesOn ==
  /\ Len(steps') = Len(steps) /\ DOMAIN steps' = DOMAIN steps
  /\ \A i \in DOMAIN steps :
       /\ steps'[i].entry = steps[i].entry /\ steps'[i].write_value = steps[i].write_value
       /\ steps'[i] = steps[i] \/ (steps[i].status = "pending" /\ steps'[i].status # "done")

\* Cancelling and the turns of the CAN thread keep what is proved of the
\* service, and settle no step as done.
LEMMA ServiceStep ==
  ASSUME IInv, Cancel \/ Send \/ Expire
  PROVE  IInv' /\ GoesOn /\ (~Busy => ~Busy')
<1>1. IInv'
  BY CancelPreserves, RequestPreserves, RefuseLocallyPreserves, TimeOutPreserves, ExpirePreserves
  DEF Send
<1>2. steps \in Seq(ConfigStep) /\ step_idx \in 0 .. Len(steps) /\ Len(steps) \in Nat
  BY DEF IInv, TypeOK
<1>3. CASE Expire \/ Request
  <2>1. UNCHANGED <<steps, step_idx>>
    BY <1>3 DEF Expire, Request
  <2> QED
    BY <1>1, <2>1 DEF GoesOn, Busy
<1>4. ASSUME NEW step \in ConfigStep, Busy, Advance(step), step.status # "done",
             step.entry = Current.entry, step.write_value = Current.write_value
      PROVE  GoesOn
  <2>1. PICK n \in DOMAIN steps : n = step_idx + 1 /\ steps[n] = Current /\ Current.status = "pending"
    BY <1>4, CurrentIsPending DEF Current
  <2>2. steps' = [steps EXCEPT ![n] = step]
    BY <1>4, <2>1 DEF Advance
  <2>3. DOMAIN steps' = DOMAIN steps /\ steps'[n] = step /\ Len(steps') = Len(steps)
        /\ \A i \in DOMAIN steps : i # n => steps'[i] = steps[i]
    BY <1>2, <2>1, <2>2
  <2> QED
    BY <1>4, <2>1, <2>3 DEF GoesOn
<1>5. ASSUME NEW upTo \in Seq(ConfigStep), NEW how, Finish(upTo, how), Len(upTo) = Len(steps),
             \A i \in DOMAIN steps :
               /\ upTo[i].entry = steps[i].entry /\ upTo[i].write_value = steps[i].write_value
               /\ upTo[i] = steps[i] \/ (steps[i].status = "pending" /\ upTo[i].status = "timed_out")
      PROVE  GoesOn
  <2>1. DOMAIN upTo = DOMAIN steps /\ DOMAIN steps = 1 .. Len(steps)
    BY <1>2, <1>5
  <2>2. steps' = [i \in DOMAIN steps |-> IF upTo[i].status = "pending"
                                         THEN [upTo[i] EXCEPT !.status = "cancelled"] ELSE upTo[i]]
    BY <1>5, <2>1 DEF Finish
  <2>3. DOMAIN steps' = DOMAIN steps /\ Len(steps') = Len(steps)
    BY <1>1, <1>2, <2>1, <2>2 DEF IInv, TypeOK
  <2>4. ASSUME NEW i \in DOMAIN steps
        PROVE  /\ steps'[i].entry = upTo[i].entry /\ steps'[i].write_value = upTo[i].write_value
               /\ \/ steps'[i] = upTo[i]
                  \/ upTo[i].status = "pending" /\ steps'[i].status = "cancelled"
    <3>1. upTo[i] \in ConfigStep
      BY <2>1
    <3>2. CASE upTo[i].status = "pending"
      <4>1. PICK s \in ConfigStep : s = upTo[i]
        BY <3>1
      <4>2. steps'[i] = [s EXCEPT !.status = "cancelled"]
        BY <2>2, <3>2, <4>1
      <4> QED
        BY <3>2, <4>1, <4>2 DEF ConfigStep
    <3>3. CASE upTo[i].status # "pending"
      BY <2>2, <3>3
    <3> QED
      BY <3>2, <3>3
  <2> QED
    BY <1>5, <2>1, <2>3, <2>4 DEF GoesOn
<1>6. CASE Cancel
  <2>1. Busy /\ Finish(steps, "cancelled")
    BY <1>6 DEF Cancel
  <2> QED
    BY <1>1, <1>2, <1>5, <2>1
<1>7. CASE RefuseLocally
  <2>1. PICK step : /\ step = [Current EXCEPT !.status = "refused",
                         !.abort_code = IF IsWrite(Current) THEN "write_access_ro" ELSE "read_access_wo"]
                    /\ Advance(step)
    BY <1>7 DEF RefuseLocally
  <2>2. Busy
    BY <1>7 DEF RefuseLocally, Due
  <2>3. step \in ConfigStep /\ step.status # "done"
        /\ step.entry = Current.entry /\ step.write_value = Current.write_value
    BY <2>1, <2>2, CurrentIsPending DEF ConfigStep, Status, AbortCode
  <2> QED
    BY <1>1, <1>4, <2>1, <2>2, <2>3
<1>8. CASE TimeOut
  <2>1. PICK step : /\ step = [Current EXCEPT !.status = "timed_out"]
                    /\ \/ Finish([steps EXCEPT ![step_idx + 1] = step], "no_response")
                       \/ Advance(step)
    BY <1>8 DEF TimeOut
  <2>2. Busy
    BY <1>8 DEF TimeOut
  <2>3. step \in ConfigStep /\ step.status = "timed_out"
        /\ step.entry = Current.entry /\ step.write_value = Current.write_value
    BY <2>1, <2>2, CurrentIsPending DEF ConfigStep, Status
  <2>4. CASE Finish([steps EXCEPT ![step_idx + 1] = step], "no_response")
    <3>1. PICK n \in DOMAIN steps : n = step_idx + 1 /\ steps[n] = Current /\ Current.status = "pending"
      BY <2>2, CurrentIsPending DEF Current
    <3>2. PICK upTo : upTo = [steps EXCEPT ![n] = step] /\ Finish(upTo, "no_response")
      BY <2>4, <3>1
    <3>3. /\ upTo \in Seq(ConfigStep) /\ Len(upTo) = Len(steps) /\ upTo[n] = step
          /\ \A i \in DOMAIN steps : i # n => upTo[i] = steps[i]
      BY <1>2, <2>3, <3>1, <3>2
    <3> QED
      BY <1>1, <1>5, <2>2, <2>3, <3>1, <3>2, <3>3
  <2> QED
    BY <1>1, <1>4, <2>1, <2>2, <2>3, <2>4
<1> QED
  BY <1>3, <1>6, <1>7, <1>8 DEF Send

\* The steps of a row that is written are among the steps.
LEMMA Twice ==
  ASSUME NEW l \in Nat, NEW m \in Nat, NEW j \in 1 .. m, l = 2 * m \/ l = 2 * m + 1
  PROVE  2 * j - 1 \in 1 .. l /\ 2 * j \in 1 .. l
  OBVIOUS

\* What the steps are about does not depend on their verdicts.
SameSteps ==
  /\ Len(steps') = Len(steps) /\ DOMAIN steps' = DOMAIN steps
  /\ \A i \in DOMAIN steps :
       steps'[i].entry = steps[i].entry /\ steps'[i].write_value = steps[i].write_value

\* So what relates them to the rows is kept too.
LEMMA SameStepsKeep ==
  ASSUME steps \in Seq(ConfigStep), Table, SameSteps, UNCHANGED <<rows, written_rows>>
  PROVE  /\ EachOnce => EachOnce'
         /\ ReadsRows => ReadsRows'
         /\ WritesRowsInTurn => WritesRowsInTurn'
<1>1. EachOnce => EachOnce'
  BY DEF SameSteps, EachOnce, IsWrite
<1>2. Len(steps) \in Nat /\ DOMAIN steps = 1 .. Len(steps) /\ DOMAIN rows = 1 .. Len(rows)
  BY DEF Table
<1>3. ReadsRows => ReadsRows'
  <2>1. ASSUME ReadsRows, NEW i \in DOMAIN rows
        PROVE  i \in DOMAIN steps
    BY <1>2, <2>1 DEF ReadsRows
  <2> QED
    BY <2>1 DEF SameSteps, ReadsRows
<1>4. ASSUME WritesRowsInTurn
      PROVE  WritesRowsInTurn'
  <2>1. PICK m \in Nat :
          /\ m = Len(written_rows) /\ DOMAIN written_rows = 1 .. m
          /\ (Len(steps) = 2 * m \/ Len(steps) = 2 * m + 1)
    <3>1. written_rows \in Seq(DOMAIN rows)
          /\ Len(steps) \in {2 * Len(written_rows), 2 * Len(written_rows) + 1}
      BY <1>4 DEF WritesRowsInTurn
    <3>2. Len(written_rows) \in Nat /\ DOMAIN written_rows = 1 .. Len(written_rows)
      BY <3>1
    <3> QED
      BY <3>1, <3>2
  <2>2. ASSUME NEW k \in DOMAIN written_rows
        PROVE  WritesTwice(k)'
    <3>1. 2 * k - 1 \in DOMAIN steps /\ 2 * k \in DOMAIN steps
      BY <1>2, <2>1, Twice
    <3>2. WritesTwice(k)
      BY <1>4 DEF WritesRowsInTurn
    <3> QED
      BY <3>1, <3>2 DEF SameSteps, WritesTwice
  <2>3. Len(steps) = 2 * m + 1 => Len(steps) \in DOMAIN steps
    BY <1>2, <2>1
  <2>4. Len(steps') = 2 * Len(written_rows') + 1 =>
          steps'[Len(steps')].entry = Restart /\ steps'[Len(steps')].write_value = NoData
    BY <1>4, <2>1, <2>3 DEF SameSteps, WritesRowsInTurn
  <2>5. ASSUME NEW i \in DOMAIN steps'
        PROVE  \/ \E k \in DOMAIN written_rows' : steps'[i].entry = rows'[written_rows'[k]].entry
               \/ steps'[i].entry = Restart
    <3>1. i \in DOMAIN steps /\ steps'[i].entry = steps[i].entry
      BY DEF SameSteps
    <3> QED
      BY <1>4, <3>1 DEF WritesRowsInTurn
  <2>6. /\ written_rows' \in Seq(DOMAIN rows')
        /\ \A j, k \in DOMAIN written_rows' : written_rows'[j] = written_rows'[k] => j = k
        /\ Len(steps') \in {2 * Len(written_rows'), 2 * Len(written_rows') + 1}
    BY <1>4 DEF SameSteps, WritesRowsInTurn
  <2>7. \A k \in DOMAIN written_rows' : WritesTwice(k)'
    BY <2>2
  <2> QED
    BY <2>4, <2>5, <2>6, <2>7 DEF WritesRowsInTurn
<1> QED
  BY <1>1, <1>3, <1>4

\* With the panel left alone, a step of the service other than an answer's
\* leaves what is told of the steps as it is.
LEMMA GoesOnKeeps ==
  ASSUME TableInv, IInv', GoesOn, ~Busy => ~Busy', UNCHANGED <<panelvars, told>>
  PROVE  TableInv'
<1>1. UNCHANGED <<transfer, table, rows, written_rows, hint, told>>
  BY DEF panelvars
<1>2. Table'
  BY <1>1 DEF TableInv, Table
<1>3. SameSteps /\ steps \in Seq(ConfigStep) /\ Table
  BY DEF GoesOn, SameSteps, TableInv, IInv, TypeOK
<1>4. /\ EachOnce => EachOnce'
      /\ ReadsRows => ReadsRows'
      /\ WritesRowsInTurn => WritesRowsInTurn'
  BY <1>1, <1>3, SameStepsKeep
<1>6. ASSUME NEW i \in DOMAIN steps, StepTold(i)
      PROVE  StepTold(i)'
  <2>1. steps'[i].entry = steps[i].entry /\ steps'[i].write_value = steps[i].write_value
        /\ (steps'[i] = steps[i] \/ (steps[i].status = "pending" /\ steps'[i].status # "done"))
    BY DEF GoesOn
  <2> QED
    BY <1>1, <1>6, <2>1 DEF StepTold, IsWrite
<1>7. Transfers'
  <2>1. DOMAIN steps' = DOMAIN steps
    BY DEF GoesOn
  <2>2. transfer # "none" => EachOnce /\ \A i \in DOMAIN steps : StepTold(i)'
    BY <1>6 DEF TableInv, Transfers
  <2> QED
    <3>1. transfer' = "none" => ~Busy'
      BY <1>1 DEF TableInv, Transfers
    <3>2. transfer' # "none" => hint' = "" /\ EachOnce' /\ \A i \in DOMAIN steps' : StepTold(i)'
      BY <1>1, <1>4, <2>1, <2>2 DEF TableInv, Transfers
    <3>3. /\ transfer' \in {"read_all", "compare"} => ReadsRows'
          /\ transfer' = "write" => WritesRowsInTurn'
      BY <1>1, <1>4 DEF TableInv, Transfers
    <3> QED
      BY <3>1, <3>2, <3>3 DEF Transfers
<1>8. RestingRows' /\ WrittenRows' /\ HintIsTrue'
  BY <1>1 DEF TableInv, RestingRows, Rests, RowShows, WrittenRows, WrittenIs, Differs, HintIsTrue
<1> QED
  BY <1>1, <1>2, <1>7, <1>8 DEF TableInv

\* An answer settles the step that asked for it, and tells the same.
LEMMA AnswerKeeps ==
  ASSUME TableInv, NEW entry \in Entry, NEW type \in AnswerType, NEW data \in Data,
         ServerAnswers(entry, type, data)
  PROVE  TableInv'
<1>1. UNCHANGED <<transfer, table, rows, written_rows, hint>>
  BY DEF panelvars, ServerAnswers
<1>2. /\ Busy /\ entry = Current.entry /\ type \in {"abort", Answer(Current)}
      /\ Advance(Settled(Current, type, data)) /\ IInv'
  BY HandleSdoPreserves DEF TableInv, ServerAnswers, HandleSdo, Concerns
<1>3. PICK n \in DOMAIN steps :
        /\ n = step_idx + 1 /\ steps[n] = Current /\ Current.status = "pending"
        /\ Current \in ConfigStep /\ \A j \in DOMAIN steps : j > n => steps[j].status = "pending"
  <2>1. step_idx + 1 \in DOMAIN steps /\ Current.status = "pending" /\ Current \in ConfigStep
    BY <1>2, CurrentIsPending DEF TableInv
  <2>2. \A j \in DOMAIN steps : j > step_idx + 1 => j > step_idx
    BY DEF TableInv, IInv, TypeOK
  <2> QED
    BY <1>2, <2>1, <2>2 DEF TableInv, IInv, InOrder, Current
<1>4. PICK step \in ConfigStep :
        /\ step = Settled(Current, type, data) /\ steps' = [steps EXCEPT ![n] = step]
        /\ step.entry = entry /\ step.write_value = Current.write_value
        /\ type = "abort" => step.status # "done"
        /\ type # "abort" => step.status = "done" /\ (~IsWrite(Current) => step.value = data)
  <2>1. PICK old \in ConfigStep : old = Current
    BY <1>3
  <2>2. CASE type = "abort"
    <3>1. Settled(Current, type, data)
            = [old EXCEPT !.status = "refused", !.abort_code = "by_server"]
      BY <2>1, <2>2 DEF Settled
    <3> QED
      BY <1>2, <1>3, <2>1, <2>2, <3>1 DEF Advance, ConfigStep, Status, AbortCode
  <2>3. CASE type # "abort"
    <3>1. Settled(Current, type, data)
            = [old EXCEPT !.status = "done", !.value = IF IsWrite(old) THEN old.value ELSE data]
      BY <2>1, <2>3 DEF Settled
    <3> QED
      BY <1>2, <1>3, <2>1, <2>3, <3>1 DEF Advance, ConfigStep, Status, AbortCode
  <2> QED
    BY <2>2, <2>3
<1>5. DOMAIN steps' = DOMAIN steps /\ Len(steps') = Len(steps) /\ steps'[n] = step
      /\ \A j \in DOMAIN steps : j # n => steps'[j] = steps[j]
  <2>1. steps \in Seq(ConfigStep)
    BY DEF TableInv, IInv, TypeOK
  <2> QED
    BY <1>4, <2>1
<1>6. \A i \in DOMAIN steps :
        steps'[i].entry = steps[i].entry /\ steps'[i].write_value = steps[i].write_value
  BY <1>2, <1>3, <1>4, <1>5
<1>7. /\ told' \in [Entry -> Told]
      /\ \A e \in Entry : e # entry => told'[e] = told[e]
      /\ type = "abort" => told' = told
      /\ (type # "abort" /\ IsWrite(step)) =>
           told'[entry].written = step.write_value /\ told'[entry].read = NoData
      /\ (type # "abort" /\ ~IsWrite(step)) =>
           told'[entry].written = told[entry].written /\ told'[entry].read = data
  <2>1. told \in [Entry -> Told] /\ told[entry] \in Told /\ Current.write_value \in Value
    BY <1>3 DEF TableInv, ConfigStep, Value
  <2>2. CASE type = "abort"
    BY <2>1, <2>2 DEF ServerAnswers
  <2>3. CASE type # "abort" /\ IsWrite(Current)
    <3>1. PICK new \in Told : new = [written |-> Current.write_value, read |-> NoData]
      BY <2>1 DEF Told, Value
    <3>2. told' = [told EXCEPT ![entry] = new] /\ new.written = step.write_value /\ new.read = NoData
      BY <1>4, <2>3, <3>1 DEF ServerAnswers
    <3> QED
      BY <1>4, <2>1, <2>3, <3>2 DEF IsWrite
  <2>4. CASE type # "abort" /\ ~IsWrite(Current)
    <3>1. PICK old \in Told : old = told[entry]
      BY <2>1
    <3>2. PICK new \in Told : new = [old EXCEPT !.read = data]
      BY DEF Told, Value
    <3>3. told' = [told EXCEPT ![entry] = new]
      BY <2>4, <3>1, <3>2 DEF ServerAnswers
    <3>4. new.written = old.written /\ new.read = data
      BY <3>2 DEF Told
    <3> QED
      BY <1>4, <2>1, <2>4, <3>1, <3>3, <3>4 DEF IsWrite
  <2> QED
    BY <1>4, <2>2, <2>3, <2>4 DEF IsWrite
<1>8. transfer # "none" /\ EachOnce /\ \A i \in DOMAIN steps : StepTold(i)
  BY <1>2 DEF TableInv, Transfers
<1>9. Table'
  BY <1>1 DEF TableInv, Table
<1>11. ASSUME NEW i \in DOMAIN steps
       PROVE  StepTold(i)'
  <2>0. StepTold(i) /\ steps[i].entry \in Entry /\ steps'[i].entry = steps[i].entry
        /\ steps'[i].write_value = steps[i].write_value
    <3>1. steps[i] \in ConfigStep
      BY DEF TableInv, IInv, TypeOK
    <3> QED
      BY <1>6, <1>8, <3>1 DEF ConfigStep
  <2>1. CASE steps[i].entry # entry
    <3>1. i # n /\ steps'[i] = steps[i]
      BY <1>2, <1>3, <1>5, <2>1
    <3> QED
      BY <1>7, <2>0, <2>1, <3>1 DEF StepTold, IsWrite
  <2>2. CASE i = n
    <3>1. CASE type = "abort"
      BY <1>3, <1>4, <1>5, <1>7, <2>0, <2>2, <3>1 DEF StepTold, IsWrite
    <3>2. CASE type # "abort"
      BY <1>3, <1>4, <1>5, <1>7, <2>0, <2>2, <3>2 DEF StepTold, IsWrite
    <3> QED
      BY <3>1, <3>2
  <2>3. CASE i # n /\ steps[i].entry = entry
    <3>1. steps'[i] = steps[i] /\ steps[n].entry = entry /\ steps[n].write_value = step.write_value
      BY <1>2, <1>3, <1>4, <1>5, <2>3
    <3>2. \/ IsWrite(steps[i]) /\ ~IsWrite(steps[n])
          \/ ~IsWrite(steps[i]) /\ IsWrite(steps[n]) /\ n < i
      BY <1>8, <2>3, <3>1 DEF EachOnce
    <3>3. CASE IsWrite(steps[i]) /\ ~IsWrite(steps[n])
      <4>1. told'[entry].written = told[entry].written
        BY <1>7, <3>1, <3>3 DEF IsWrite
      <4> QED
        BY <2>0, <2>3, <3>1, <3>3, <4>1 DEF StepTold
    <3>4. CASE ~IsWrite(steps[i]) /\ IsWrite(steps[n]) /\ n < i
      <4>1. steps[i].status = "pending"
        BY <1>3, <3>4
      <4>2. told'[entry].read = NoData \/ told' = told
        BY <1>7, <3>1, <3>4 DEF IsWrite
      <4> QED
        BY <2>0, <2>3, <3>1, <3>4, <4>1, <4>2 DEF StepTold
    <3> QED
      BY <3>2, <3>3, <3>4
  <2> QED
    BY <2>1, <2>2, <2>3
<1>12. /\ EachOnce => EachOnce'
       /\ ReadsRows => ReadsRows'
       /\ WritesRowsInTurn => WritesRowsInTurn'
  <2>1. SameSteps /\ steps \in Seq(ConfigStep) /\ Table
    BY <1>5, <1>6 DEF SameSteps, TableInv, IInv, TypeOK
  <2> QED
    BY <1>1, <2>1, SameStepsKeep
<1>14. Transfers'
  BY <1>1, <1>5, <1>8, <1>11, <1>12 DEF TableInv, Transfers
<1>15. transfer = "write" =>
         \A i \in DOMAIN rows : Rests(i) => told'[rows[i].entry] = told[rows[i].entry]
  <2> SUFFICES ASSUME transfer = "write", NEW i \in DOMAIN rows, Rests(i)
               PROVE  told'[rows[i].entry] = told[rows[i].entry]
    OBVIOUS
  <2>1. WritesRowsInTurn /\ rows[i].entry \in Entry /\ rows[i].entry \in Writable
        /\ entry = steps[n].entry
    <3>1. rows \in Seq(TableRow) /\ table = "file" /\ WritesRowsInTurn
      BY DEF TableInv, Transfers, Table
    <3>2. rows[i] \in TableRow
      BY <3>1
    <3> QED
      BY <1>2, <1>3, <3>1, <3>2 DEF TableInv, Table, TableRow
  <2>2. \A k \in DOMAIN written_rows : written_rows[k] \in DOMAIN rows /\ written_rows[k] # i
    BY <2>1 DEF Rests, WritesRowsInTurn
  <2>3. rows[i].entry # Restart
    BY <2>1, SetupAssumption
  <2>4. rows[i].entry # entry
    BY <2>1, <2>2, <2>3 DEF WritesRowsInTurn, TableInv, Table
  <2> QED
    BY <1>7, <2>1, <2>4
<1>16. RestingRows'
  BY <1>1, <1>8, <1>15 DEF TableInv, RestingRows, Rests, RowShows
<1>17. WrittenRows'
  <2> SUFFICES ASSUME NEW i \in DOMAIN rows, rows[i].status = "written"
               PROVE  WrittenIs(i)'
    BY <1>1 DEF WrittenRows, WrittenIs
  <2>1. transfer = "write"
    BY <1>8 DEF TableInv, Transfers, ReadsRows, Table
  <2>2. Rests(i)
    BY <2>1 DEF TableInv, Transfers, WritesRowsInTurn, WritesTwice, Rests
  <2>3. WrittenIs(i) /\ told'[rows[i].entry] = told[rows[i].entry]
    BY <1>15, <2>1, <2>2 DEF TableInv, WrittenRows
  <2> QED
    BY <1>1, <2>3 DEF WrittenIs, Differs
<1>18. HintIsTrue'
  BY <1>1, <1>8 DEF TableInv, Transfers, HintIsTrue
<1> QED
  BY <1>2, <1>7, <1>9, <1>14, <1>16, <1>17, <1>18 DEF TableInv

\* A click on a checkbox changes what is picked, and nothing else that counts.
LEMMA ToggleKeeps ==
  ASSUME TableInv, NEW i \in DOMAIN rows, Toggle(i)
  PROVE  TableInv'
<1>1. /\ transfer = "none" /\ UNCHANGED <<vars, transfer, table, written_rows, hint, told>>
      /\ rows' = [rows EXCEPT ![i].selected = ~@]
  BY DEF Toggle, PanelBusy
<1>2. IInv' /\ ~Busy' /\ transfer' = "none"
  BY <1>1, StutterPreserves DEF TableInv, Transfers, Busy, vars
<1>3. PICK row \in TableRow : row = rows[i]
  BY DEF TableInv, Table
<1>4. PICK new \in TableRow : new = [row EXCEPT !.selected = ~row.selected]
  BY DEF TableRow
<1>5. /\ new.entry = row.entry /\ new.server_value = row.server_value
      /\ new.file_value = row.file_value /\ new.status = row.status
  BY <1>4 DEF TableRow
<1>6. rows' = [rows EXCEPT ![i] = new]
  BY <1>1, <1>3, <1>4
<1>7. /\ rows' \in Seq(TableRow) /\ DOMAIN rows' = DOMAIN rows
      /\ \A j \in DOMAIN rows :
           /\ rows'[j].entry = rows[j].entry /\ rows'[j].server_value = rows[j].server_value
           /\ rows'[j].file_value = rows[j].file_value /\ rows'[j].status = rows[j].status
  <2>1. rows \in Seq(TableRow)
    BY DEF TableInv, Table
  <2> QED
    BY <1>3, <1>5, <1>6, <2>1
<1>8. Table'
  BY <1>1, <1>7 DEF TableInv, Table
<1>9. Transfers'
  BY <1>2 DEF Transfers
<1>10. RestingRows' /\ HintIsTrue'
  BY <1>1, <1>7 DEF TableInv, RestingRows, Rests, RowShows, HintIsTrue
<1>11. WrittenRows'
  BY <1>1, <1>7 DEF TableInv, WrittenRows, WrittenIs, Differs
<1> QED
  BY <1>1, <1>2, <1>8, <1>9, <1>10, <1>11 DEF TableInv

\* A list of objects names each of them once, whichever set it is made of.
LEMMA ListedOfIs ==
  ASSUME NEW objects, NEW list \in ListedOf(objects)
  PROVE  /\ list \in Seq(Entry) /\ \A i \in DOMAIN list : list[i] \in objects
         /\ \A i, j \in DOMAIN list : list[i] = list[j] => i = j
<1> DEFINE there == {i \in DOMAIN Listed : Listed[i] \in objects}
           n == Cardinality(there)
<1>1. Listed \in Seq(Entry) /\ DOMAIN Listed = 1 .. Len(Listed) /\ Len(Listed) \in Nat
  BY SetupAssumption
<1>2. n \in Nat
  <2>1. IsFiniteSet(1 .. Len(Listed))
    BY <1>1, FS_Interval
  <2> QED
    BY <1>1, <2>1, FS_Subset, FS_CardinalityType
<1>3. PICK p \in [1 .. n -> there] : InTableOrder(p) /\ list = [i \in DOMAIN p |-> Listed[p[i]]]
  BY DEF ListedOf
<1> HIDE DEF n
<1>4. /\ DOMAIN list = 1 .. n
      /\ \A i \in 1 .. n : p[i] \in 1 .. Len(Listed) /\ list[i] = Listed[p[i]] /\ list[i] \in objects
                           /\ list[i] \in Entry
  BY <1>1, <1>3
<1>5. ASSUME NEW i \in 1 .. n, NEW j \in 1 .. n, list[i] = list[j]
      PROVE  i = j
  <2>1. p[i] = p[j] /\ p[i] \in Nat
    BY <1>1, <1>4, <1>5, SetupAssumption
  <2>2. ~(i < j) /\ ~(j < i)
    BY <1>2, <1>3, <2>1 DEF InTableOrder
  <2> QED
    BY <1>2, <2>2
<1>6. list \in Seq(Entry)
  <2>1. list = [i \in 1 .. n |-> list[i]]
    BY <1>3, <1>4
  <2> QED
    BY <1>2, <1>4, <2>1
<1> QED
  BY <1>4, <1>5, <1>6

\* A function on the places of a list is a list of its values.
LEMMA ListOfValues ==
  ASSUME NEW S, NEW n \in Nat, NEW f, DOMAIN f = 1 .. n, f = [i \in 1 .. n |-> f[i]],
         \A i \in 1 .. n : f[i] \in S
  PROVE  f \in Seq(S) /\ Len(f) = n
<1>1. [i \in 1 .. n |-> f[i]] \in [1 .. n -> S]
  OBVIOUS
<1>2. f \in [1 .. n -> S]
  BY <1>1
<1> QED
  BY <1>2

\* A transfer that reads begins with rows that show nothing yet.
LEMMA ReadingBegins ==
  ASSUME TableInv, NEW read \in Seq(Entry), \A i, j \in DOMAIN read : read[i] = read[j] => i = j,
         Start([i \in DOMAIN read |-> ReadStep(read[i])]),
         rows' \in Seq(TableRow), DOMAIN rows' = DOMAIN read,
         \A i \in DOMAIN read : rows'[i].entry = read[i] /\ rows'[i].status = "",
         transfer' \in {"read_all", "compare"}, transfer' = "compare" => table' = "file",
         table' = "file" =>
           \A i \in DOMAIN rows' : rows'[i].entry \in Writable /\ rows'[i].file_value \in Data,
         hint' = "", told' = Silence
  PROVE  TableInv'
<1>0. /\ DOMAIN read = 1 .. Len(read) /\ Len(read) \in Nat
      /\ \A i \in DOMAIN read : read[i] \in Entry
  <2>1. read \in Seq(Entry)
    OBVIOUS
  <2> QED
    BY ONLY <2>1
<1>1. PICK plan \in Seq(PlannedStep) :
        /\ plan = [i \in DOMAIN read |-> ReadStep(read[i])] /\ DOMAIN plan = DOMAIN read
        /\ Len(plan) = Len(read)
        /\ \A i \in DOMAIN read : plan[i].entry = read[i] /\ plan[i].write_value = NoData
  <2>1. \A i \in DOMAIN read : ReadStep(read[i]) \in PlannedStep
    BY <1>0 DEF ReadStep, PlannedStep
  <2>2. PICK plan : plan = [i \in DOMAIN read |-> ReadStep(read[i])]
    OBVIOUS
  <2>3. DOMAIN plan = 1 .. Len(read) /\ plan = [i \in 1 .. Len(read) |-> plan[i]]
        /\ \A i \in 1 .. Len(read) : plan[i] \in PlannedStep
    BY <1>0, <2>1, <2>2
  <2>4. plan \in Seq(PlannedStep) /\ Len(plan) = Len(read)
    BY <1>0, <2>3, ListOfValues
  <2>5. \A i \in DOMAIN read : plan[i].entry = read[i] /\ plan[i].write_value = NoData
    BY <2>2 DEF ReadStep
  <2> QED
    BY <1>0, <2>2, <2>3, <2>4, <2>5
<1>2. /\ IInv' /\ DOMAIN steps' = DOMAIN read /\ Len(steps') = Len(read)
      /\ \A i \in DOMAIN read :
           steps'[i].entry = read[i] /\ steps'[i].write_value = NoData /\ steps'[i].status = "pending"
  <2>1. Start(plan)
    BY <1>1
  <2>2. steps' = [i \in DOMAIN plan |-> Fresh(plan[i])]
    BY <2>1 DEF Start
  <2>3. IInv'
    BY <2>1, StartPreserves DEF TableInv
  <2>4. Len(steps') = Len(plan)
    BY <2>2, FreshSteps
  <2> QED
    BY <1>1, <2>2, <2>3, <2>4 DEF Fresh
<1>3. told' \in [Entry -> Told] /\ \A e \in Entry : told'[e].read = NoData /\ told'[e].written = NoData
  BY DEF Silence, Told, Value
<1>4. Len(rows') = Len(read)
  <2>1. rows' \in Seq(TableRow) /\ DOMAIN rows' = DOMAIN read
    OBVIOUS
  <2>2. DOMAIN rows' = 1 .. Len(rows') /\ Len(rows') \in Nat
    BY ONLY <2>1
  <2> QED
    BY ONLY <1>0, <2>1, <2>2
<1>5. Table'
  BY DEF Table
<1>6. EachOnce' /\ ReadsRows' /\ \A i \in DOMAIN steps' : StepTold(i)'
  <2>1. EachOnce'
    <3>1. \A i \in DOMAIN steps' : ~IsWrite(steps'[i]) /\ steps'[i].entry = read[i]
      BY <1>2 DEF IsWrite
    <3>2. \A i, j \in DOMAIN steps' : steps'[i].entry = steps'[j].entry => i = j
      <4>1. \A i, j \in DOMAIN read : read[i] = read[j] => i = j
        OBVIOUS
      <4> QED
        BY ONLY <1>2, <4>1
    <3> QED
      BY <3>1, <3>2 DEF EachOnce
  <2>2. ReadsRows'
    BY <1>2, <1>4 DEF ReadsRows
  <2>3. ASSUME NEW i \in DOMAIN steps'
        PROVE  StepTold(i)'
    <3>1. steps'[i].entry = read[i] /\ read[i] \in Entry /\ ~IsWrite(steps'[i])
          /\ steps'[i].status = "pending"
      BY <1>0, <1>2 DEF IsWrite
    <3> QED
      BY <1>3, <3>1 DEF StepTold
  <2> QED
    BY <2>1, <2>2, <2>3
<1>7. Transfers'
  BY <1>6 DEF Transfers
<1>8. RestingRows' /\ WrittenRows' /\ HintIsTrue'
  BY DEF RestingRows, WrittenRows, WrittenIs, HintIsTrue
<1> QED
  BY <1>2, <1>3, <1>5, <1>7, <1>8 DEF TableInv

\* Every object that can be read gets a row and a step.
LEMMA ReadAllKeeps ==
  ASSUME TableInv, ReadAll
  PROVE  TableInv'
<1>1. PICK read \in ListedOf(Readable) :
        /\ Start([i \in DOMAIN read |-> ReadStep(read[i])])
        /\ rows' = [i \in DOMAIN read |-> Row(read[i], NoData)]
  BY DEF ReadAll
<1>2. read \in Seq(Entry) /\ \A i, j \in DOMAIN read : read[i] = read[j] => i = j
  BY ListedOfIs
<1>3. \A i \in DOMAIN read : Row(read[i], NoData) \in TableRow
  <2>1. \A i \in DOMAIN read : read[i] \in Entry
    BY <1>2
  <2>2. NoData \in Value /\ "" \in RowStatus
    BY DEF Value, RowStatus
  <2> QED
    BY <2>1, <2>2 DEF Row, TableRow
<1>4. rows' \in Seq(TableRow) /\ DOMAIN rows' = DOMAIN read
      /\ \A i \in DOMAIN read : rows'[i].entry = read[i] /\ rows'[i].status = ""
  <2>1. \A i \in DOMAIN read : rows'[i] \in TableRow
    BY <1>1, <1>3
  <2>2. DOMAIN rows' = DOMAIN read /\ rows' = [i \in DOMAIN read |-> rows'[i]]
    BY <1>1
  <2>3. \A i \in DOMAIN read : rows'[i].entry = read[i] /\ rows'[i].status = ""
    BY <1>1 DEF Row
  <2>4. DOMAIN read = 1 .. Len(read) /\ Len(read) \in Nat
    BY <1>2
  <2>5. rows' \in Seq(TableRow)
    BY <2>1, <2>2, <2>4, ListOfValues
  <2> QED
    BY <2>2, <2>3, <2>5
<1>5. transfer' = "read_all" /\ table' = "values" /\ hint' = "" /\ told' = Silence
  BY DEF ReadAll
<1> QED
  BY <1>1, <1>2, <1>4, <1>5, ReadingBegins

\* Every object of the file that can be compared gets a row and a step.
LEMMA LoadFileKeeps ==
  ASSUME TableInv, NEW file \in Files, LoadFile(file)
  PROVE  TableInv'
<1>1. PICK found \in ListedOf(DOMAIN file \cap Readable \cap Writable) :
        rows' = [i \in DOMAIN found |-> Row(found[i], file[found[i]])]
  BY DEF LoadFile, FileRows
<1>2. /\ found \in Seq(Entry) /\ \A i, j \in DOMAIN found : found[i] = found[j] => i = j
      /\ \A i \in DOMAIN found : found[i] \in DOMAIN file \cap Writable
  BY ListedOfIs
<1>3. \A i \in DOMAIN found : file[found[i]] \in Data
  BY <1>2, SetupAssumption
<1>4. /\ rows' \in Seq(TableRow) /\ DOMAIN rows' = DOMAIN found
      /\ \A i \in DOMAIN found :
           /\ rows'[i].entry = found[i] /\ rows'[i].status = ""
           /\ rows'[i].entry \in Writable /\ rows'[i].file_value \in Data
  <2>1. \A i \in DOMAIN found : Row(found[i], file[found[i]]) \in TableRow
    <3>1. \A i \in DOMAIN found : found[i] \in Entry /\ file[found[i]] \in Value
      BY <1>2, <1>3 DEF Value
    <3>2. NoData \in Value /\ "" \in RowStatus
      BY DEF Value, RowStatus
    <3> QED
      BY <3>1, <3>2 DEF Row, TableRow
  <2>2. \A i \in DOMAIN found : rows'[i] \in TableRow
    BY <1>1, <2>1
  <2>3. DOMAIN rows' = DOMAIN found /\ rows' = [i \in DOMAIN found |-> rows'[i]]
    BY <1>1
  <2>4. \A i \in DOMAIN found :
           /\ rows'[i].entry = found[i] /\ rows'[i].status = ""
           /\ rows'[i].file_value = file[found[i]]
    BY <1>1 DEF Row
  <2>5. DOMAIN found = 1 .. Len(found) /\ Len(found) \in Nat
    BY <1>2
  <2>6. rows' \in Seq(TableRow)
    BY <2>2, <2>3, <2>5, ListOfValues
  <2> QED
    BY <1>2, <1>3, <2>3, <2>4, <2>6
<1>5. transfer = "none" /\ table' = "file" /\ hint' = "" /\ told' = Silence
  BY DEF LoadFile, PanelBusy
<1>6. CASE rows' = << >>
  <2>1. UNCHANGED vars /\ transfer' = "none"
    BY <1>5, <1>6 DEF LoadFile
  <2>2. IInv' /\ ~Busy'
    BY <1>5, <2>1, StutterPreserves DEF TableInv, Transfers, Busy, vars
  <2>3. told' \in [Entry -> Told]
    BY <1>5 DEF Silence, Told, Value
  <2>4. DOMAIN rows' = {}
    BY <1>6
  <2>5. Table' /\ Transfers'
    BY <1>4, <1>5, <2>1, <2>2, <2>4 DEF Table, Transfers
  <2>6. RestingRows' /\ WrittenRows' /\ HintIsTrue'
    BY <1>5, <2>4 DEF RestingRows, WrittenRows, HintIsTrue
  <2> QED
    BY <2>2, <2>3, <2>5, <2>6 DEF TableInv
<1>7. CASE rows' # << >>
  <2>1. Start([i \in DOMAIN rows' |-> ReadStep(rows'[i].entry)]) /\ transfer' = "compare"
    BY <1>7 DEF LoadFile
  <2>2. [i \in DOMAIN rows' |-> ReadStep(rows'[i].entry)] = [i \in DOMAIN found |-> ReadStep(found[i])]
    BY <1>4
  <2>3. Start([i \in DOMAIN found |-> ReadStep(found[i])])
    BY <2>1, <2>2
  <2> QED
    BY <1>2, <1>4, <1>5, <2>1, <2>3, ReadingBegins
<1> QED
  BY <1>6, <1>7

\* Which row a step of a writing transfer is about, and which step a row has.
LEMMA HalfOf ==
  ASSUME NEW n \in Nat
  PROVE  /\ \A k \in 1 .. n : /\ (2 * k - 1 + 1) \div 2 = k /\ (2 * k + 1) \div 2 = k
                              /\ (2 * k - 1) % 2 = 1 /\ (2 * k) % 2 = 0
         /\ \A j \in 1 .. 2 * n : /\ (j + 1) \div 2 \in 1 .. n
                                  /\ j = 2 * ((j + 1) \div 2) - 1 \/ j = 2 * ((j + 1) \div 2)
  OBVIOUS

\* Two steps for each of the rows `w`, in turn, and perhaps one more.
TwoStepsEach(plan, w, n) ==
  /\ plan \in Seq(PlannedStep) /\ Len(plan) \in {2 * n, 2 * n + 1}
  /\ \A k \in 1 .. n :
       /\ plan[2 * k - 1].entry = rows[w[k]].entry
       /\ plan[2 * k - 1].write_value = rows[w[k]].file_value
       /\ plan[2 * k].entry = rows[w[k]].entry /\ plan[2 * k].write_value = NoData
  /\ \A i \in DOMAIN plan :
       \/ \E k \in 1 .. n : i = 2 * k - 1 \/ i = 2 * k
       \/ i = 2 * n + 1 /\ i = Len(plan)
  /\ Len(plan) = 2 * n + 1 =>
       plan[Len(plan)].entry = Restart /\ plan[Len(plan)].write_value = NoData

\* The plan that writes the rows `w`: two steps for each, in turn, and
\* perhaps the question whether a restart is required.
LEMMA WriteStepsAre ==
  ASSUME TableInv, table = "file", NEW w \in Seq(DOMAIN rows), NEW n \in Nat, n = Len(w),
         NEW plan, plan = WriteSteps(w)
  PROVE  TwoStepsEach(plan, w, n)
<1> DEFINE step(j) == LET row == rows[w[(j + 1) \div 2]]
                      IN [entry |-> row.entry,
                          write_value |-> IF j % 2 = 1 THEN row.file_value ELSE NoData]
<1>1. PICK front, last :
        /\ plan = front \o last /\ front = [j \in 1 .. 2 * n |-> step(j)]
        /\ last = IF Restart \in Readable THEN <<ReadStep(Restart)>> ELSE << >>
  BY DEF WriteSteps
<1>2. /\ DOMAIN w = 1 .. n /\ 2 * n \in Nat
      /\ \A k \in 1 .. n : rows[w[k]].entry \in Entry /\ rows[w[k]].file_value \in Value
  <2>1. DOMAIN w = 1 .. n /\ \A k \in 1 .. n : w[k] \in DOMAIN rows
    OBVIOUS
  <2>2. \A i \in DOMAIN rows : rows[i] \in TableRow
    BY DEF TableInv, Table
  <2> QED
    BY <2>1, <2>2 DEF TableRow
<1>2a. \A j \in 1 .. 2 * n : front[j] = step(j)
  BY <1>1
<1>3. \A j \in 1 .. 2 * n : step(j) \in PlannedStep
  <2> SUFFICES ASSUME NEW j \in 1 .. 2 * n PROVE step(j) \in PlannedStep
    OBVIOUS
  <2>1. PICK k \in 1 .. n : k = (j + 1) \div 2
    BY HalfOf
  <2>2. step(j) = [entry |-> rows[w[k]].entry,
                   write_value |-> IF j % 2 = 1 THEN rows[w[k]].file_value ELSE NoData]
    BY <2>1
  <2>3. rows[w[k]].entry \in Entry /\ rows[w[k]].file_value \in Data \cup {NoData}
    BY <1>2 DEF Value
  <2> QED
    BY <2>2, <2>3 DEF PlannedStep
<1>4. front \in Seq(PlannedStep) /\ Len(front) = 2 * n
  <2>1. DOMAIN front = 1 .. 2 * n /\ front = [j \in 1 .. 2 * n |-> front[j]]
        /\ \A j \in 1 .. 2 * n : front[j] \in PlannedStep
    BY <1>1, <1>3
  <2> QED
    BY <1>2, <2>1, ListOfValues
<1>5. last \in Seq(PlannedStep) /\ Len(last) \in {0, 1}
      /\ (Len(last) = 1 => last[1].entry = Restart /\ last[1].write_value = NoData)
  <2>1. CASE Restart \in Readable
    <3>1. ReadStep(Restart) \in PlannedStep /\ last = <<ReadStep(Restart)>>
      BY <1>1, <2>1, ConfigAssumption DEF ReadStep, PlannedStep
    <3> QED
      BY <3>1 DEF ReadStep
  <2>2. CASE Restart \notin Readable
    BY <1>1, <2>2
  <2> QED
    BY <2>1, <2>2
<1>6. \A k \in 1 .. n :
        /\ front[2 * k - 1].entry = rows[w[k]].entry
        /\ front[2 * k - 1].write_value = rows[w[k]].file_value
        /\ front[2 * k].entry = rows[w[k]].entry /\ front[2 * k].write_value = NoData
  <2> SUFFICES ASSUME NEW k \in 1 .. n
               PROVE  /\ front[2 * k - 1].entry = rows[w[k]].entry
                      /\ front[2 * k - 1].write_value = rows[w[k]].file_value
                      /\ front[2 * k].entry = rows[w[k]].entry /\ front[2 * k].write_value = NoData
    OBVIOUS
  <2>1. 2 * k - 1 \in 1 .. 2 * n /\ 2 * k \in 1 .. 2 * n
    OBVIOUS
  <2>2. /\ (2 * k - 1 + 1) \div 2 = k /\ (2 * k + 1) \div 2 = k
        /\ (2 * k - 1) % 2 = 1 /\ (2 * k) % 2 = 0
    BY HalfOf
  <2> QED
    <3>1. PICK odd, even : odd = 2 * k - 1 /\ even = 2 * k
      OBVIOUS
    <3>2. /\ odd \in 1 .. 2 * n /\ even \in 1 .. 2 * n /\ odd % 2 = 1 /\ even % 2 = 0
          /\ (odd + 1) \div 2 = k /\ (even + 1) \div 2 = k
      BY <2>1, <2>2, <3>1
    <3>3. front[odd] = step(odd) /\ front[even] = step(even)
      BY <1>2a, <3>2
    <3>4. /\ front[odd].entry = rows[w[k]].entry /\ front[odd].write_value = rows[w[k]].file_value
          /\ front[even].entry = rows[w[k]].entry /\ front[even].write_value = NoData
      BY ONLY <3>2, <3>3
    <3> QED
      BY <3>1, <3>4
<1> HIDE DEF step
<1>7. plan \in Seq(PlannedStep) /\ Len(plan) = 2 * n + Len(last)
      /\ (\A j \in 1 .. 2 * n : plan[j] = front[j])
      /\ (Len(last) = 1 => plan[2 * n + 1] = last[1])
  <2>1. /\ front \o last \in Seq(PlannedStep) /\ Len(front \o last) = Len(front) + Len(last)
        /\ \A i \in 1 .. Len(front) + Len(last) :
             (front \o last)[i] = IF i <= Len(front) THEN front[i] ELSE last[i - Len(front)]
    BY <1>4, <1>5, ConcatProperties
  <2>2. PICK m \in {0, 1} : m = Len(last)
    BY <1>5
  <2>3. \A i \in 1 .. 2 * n + m : plan[i] = IF i <= 2 * n THEN front[i] ELSE last[i - 2 * n]
    BY <1>1, <1>4, <2>1, <2>2
  <2>4. \A j \in 1 .. 2 * n : j \in 1 .. 2 * n + m /\ j <= 2 * n
    OBVIOUS
  <2>5. m = 1 => plan[2 * n + 1] = last[1]
    <3>1. m = 1 => 2 * n + 1 \in 1 .. 2 * n + m /\ ~(2 * n + 1 <= 2 * n) /\ 2 * n + 1 - 2 * n = 1
      OBVIOUS
    <3> QED
      BY <2>3, <3>1
  <2> QED
    BY <1>1, <1>4, <2>1, <2>2, <2>3, <2>4, <2>5
<1>8. \A k \in 1 .. n :
        /\ plan[2 * k - 1].entry = rows[w[k]].entry
        /\ plan[2 * k - 1].write_value = rows[w[k]].file_value
        /\ plan[2 * k].entry = rows[w[k]].entry /\ plan[2 * k].write_value = NoData
  <2>1. \A k \in 1 .. n : 2 * k - 1 \in 1 .. 2 * n /\ 2 * k \in 1 .. 2 * n
    OBVIOUS
  <2> QED
    BY <1>6, <1>7, <2>1
<1>9. \A i \in DOMAIN plan :
        \/ \E k \in 1 .. n : i = 2 * k - 1 \/ i = 2 * k
        \/ i = 2 * n + 1 /\ i = Len(plan)
  <2> SUFFICES ASSUME NEW i \in DOMAIN plan
               PROVE  \/ \E k \in 1 .. n : i = 2 * k - 1 \/ i = 2 * k
                      \/ i = 2 * n + 1 /\ i = Len(plan)
    OBVIOUS
  <2>1. i \in 1 .. 2 * n \/ (i = 2 * n + 1 /\ i = Len(plan))
    <3>1. DOMAIN plan = 1 .. Len(plan)
      BY <1>7
    <3>2. PICK m \in {0, 1} : m = Len(last)
      BY <1>5
    <3>3. Len(plan) = 2 * n + m /\ i \in 1 .. 2 * n + m
      BY <1>7, <3>1, <3>2
    <3> QED
      BY <3>3
  <2> QED
    BY <2>1, HalfOf
<1>10. PICK m \in {0, 1} : m = Len(last) /\ Len(plan) = 2 * n + m
  BY <1>5, <1>7
<1>11. CASE m = 0
  BY <1>7, <1>8, <1>9, <1>10, <1>11 DEF TwoStepsEach
<1>12. CASE m = 1
  <2>1. plan[2 * n + 1].entry = Restart /\ plan[2 * n + 1].write_value = NoData
    BY <1>5, <1>7, <1>10, <1>12
  <2> QED
    BY <1>7, <1>8, <1>9, <1>10, <1>12, <2>1 DEF TwoStepsEach
<1> QED
  BY <1>11, <1>12

\* The picked rows, as the places that are written.
LEMMA PickedInOrder ==
  ASSUME Table, NEW w \in [1 .. Cardinality(PickedRows) -> PickedRows], InTableOrder(w)
  PROVE  /\ w \in Seq(DOMAIN rows) /\ \A k \in DOMAIN w : w[k] \in PickedRows
         /\ \A j, k \in DOMAIN w : w[j] = w[k] => j = k
<1>1. DOMAIN rows = 1 .. Len(rows) /\ Len(rows) \in Nat /\ PickedRows \subseteq DOMAIN rows
  BY DEF Table, PickedRows
<1>2. PICK n \in Nat : n = Cardinality(PickedRows)
  <2>1. IsFiniteSet(1 .. Len(rows))
    BY <1>1, FS_Interval
  <2> QED
    BY <1>1, <2>1, FS_Subset, FS_CardinalityType
<1>3. DOMAIN w = 1 .. n /\ \A k \in 1 .. n : w[k] \in PickedRows /\ w[k] \in DOMAIN rows
  BY <1>1, <1>2
<1>4. ASSUME NEW j \in 1 .. n, NEW k \in 1 .. n, w[j] = w[k]
      PROVE  j = k
  <2>1. w[j] \in Nat /\ w[j] = w[k]
    BY <1>1, <1>3, <1>4
  <2>2. ~(j < k) /\ ~(k < j)
    BY <1>3, <2>1 DEF InTableOrder
  <2> QED
    BY <2>2
<1>5. w \in Seq(DOMAIN rows)
  <2>1. w = [k \in 1 .. n |-> w[k]]
    BY <1>2
  <2> QED
    BY <1>3, <2>1, ListOfValues
<1> QED
  BY <1>3, <1>4, <1>5

\* A transfer that writes begins: what it is about to ask is forgotten, and
\* what rows outside it show is kept.
LEMMA WriteSelectedKeeps ==
  ASSUME TableInv, WriteSelected
  PROVE  TableInv'
<1>1. PICK w \in [1 .. Cardinality(PickedRows) -> PickedRows] :
        InTableOrder(w) /\ Start(WriteSteps(w)) /\ written_rows' = w
  BY DEF WriteSelected
<1>2. /\ transfer = "none" /\ table = "file" /\ transfer' = "write" /\ hint' = ""
      /\ UNCHANGED <<table, rows>>
      /\ told' = [e \in Entry |->
           IF \E i \in DOMAIN steps' : steps'[i].entry = e THEN Silence[e] ELSE told[e]]
  BY DEF WriteSelected, PanelBusy
<1>3. Table /\ Table'
  BY <1>2 DEF TableInv, Table
<1>4. /\ w \in Seq(DOMAIN rows) /\ \A k \in DOMAIN w : w[k] \in PickedRows
      /\ \A j, k \in DOMAIN w : w[j] = w[k] => j = k
  BY <1>1, <1>3, PickedInOrder
<1>5. PICK n \in Nat : n = Len(w) /\ DOMAIN w = 1 .. n
  BY <1>4
<1>6. PICK plan \in Seq(PlannedStep) :
        /\ Start(plan)
        /\ Len(plan) \in {2 * n, 2 * n + 1} /\ DOMAIN plan = 1 .. Len(plan)
        /\ \A k \in 1 .. n :
             /\ plan[2 * k - 1].entry = rows[w[k]].entry
             /\ plan[2 * k - 1].write_value = rows[w[k]].file_value
             /\ plan[2 * k].entry = rows[w[k]].entry /\ plan[2 * k].write_value = NoData
        /\ \A i \in DOMAIN plan :
             \/ \E k \in 1 .. n : i = 2 * k - 1 \/ i = 2 * k
             \/ i = 2 * n + 1 /\ i = Len(plan)
        /\ Len(plan) = 2 * n + 1 =>
             plan[Len(plan)].entry = Restart /\ plan[Len(plan)].write_value = NoData
  <2>1. PICK plan : plan = WriteSteps(w)
    OBVIOUS
  <2>2. TwoStepsEach(plan, w, n)
    BY <1>2, <1>4, <1>5, <2>1, WriteStepsAre
  <2>3. DOMAIN plan = 1 .. Len(plan)
    BY <2>2 DEF TwoStepsEach
  <2>4. Start(plan)
    BY <1>1, <2>1
  <2> QED
    BY <2>2, <2>3, <2>4 DEF TwoStepsEach
<1>7. /\ IInv' /\ Len(steps') = Len(plan) /\ DOMAIN steps' = DOMAIN plan
      /\ \A i \in DOMAIN plan :
           /\ steps'[i].entry = plan[i].entry /\ steps'[i].write_value = plan[i].write_value
           /\ steps'[i].status = "pending" /\ steps'[i].entry \in Entry
  <2>1. steps' = [i \in DOMAIN plan |-> Fresh(plan[i])]
    BY <1>6 DEF Start
  <2>2. IInv'
    BY <1>6, StartPreserves DEF TableInv
  <2>3. Len(steps') = Len(plan)
    BY <2>1, FreshSteps
  <2>4. \A i \in DOMAIN plan : plan[i] \in PlannedStep
    <3>1. plan \in Seq(PlannedStep)
      OBVIOUS
    <3> QED
      BY ONLY <3>1
  <2> QED
    BY <2>1, <2>2, <2>3, <2>4 DEF Fresh, PlannedStep
<1>8. \A i \in DOMAIN rows :
        /\ rows[i].entry \in Entry /\ rows[i].entry \in Writable /\ rows[i].file_value \in Data
        /\ rows[i].file_value # NoData /\ rows[i].entry # Restart
  <2>1. \A i \in DOMAIN rows : rows[i].entry \in Entry
    <3>1. rows \in Seq(TableRow)
      BY <1>3 DEF Table
    <3>2. \A i \in DOMAIN rows : rows[i] \in TableRow
      BY ONLY <3>1
    <3> QED
      BY <3>2 DEF TableRow
  <2> QED
    <3>1. \A i \in DOMAIN rows : rows[i].entry \in Writable /\ rows[i].file_value \in Data
      BY <1>2, <1>3 DEF Table
    <3>2. Restart \notin Writable /\ NoData \notin Data
      BY SetupAssumption, ConfigAssumption
    <3> QED
      BY ONLY <2>1, <3>1, <3>2
<1>9. \A k \in 1 .. n :
        /\ w[k] \in DOMAIN rows /\ Differs(rows[w[k]]) /\ rows[w[k]].status # "written"
        /\ 2 * k - 1 \in DOMAIN steps' /\ 2 * k \in DOMAIN steps'
        /\ steps'[2 * k - 1].entry = rows[w[k]].entry /\ IsWrite(steps'[2 * k - 1])
        /\ steps'[2 * k - 1].write_value = rows[w[k]].file_value
        /\ steps'[2 * k].entry = rows[w[k]].entry /\ ~IsWrite(steps'[2 * k])
        /\ steps'[2 * k].write_value = NoData
  <2> TAKE k \in 1 .. n
  <2>1. w[k] \in DOMAIN rows /\ Differs(rows[w[k]])
    BY <1>4, <1>5 DEF PickedRows, Picked
  <2>2. rows[w[k]].status # "written"
    BY <2>1 DEF TableInv, WrittenRows, WrittenIs
  <2>3. 2 * k - 1 \in DOMAIN steps' /\ 2 * k \in DOMAIN steps'
    <3>1. PICK l \in Nat : l = Len(plan) /\ (l = 2 * n \/ l = 2 * n + 1)
      <4>1. 2 * n \in Nat /\ 2 * n + 1 \in Nat
        OBVIOUS
      <4> QED
        BY <1>6, <4>1
    <3>2. 2 * k - 1 \in 1 .. l /\ 2 * k \in 1 .. l
      BY <3>1, Twice
    <3> QED
      BY <1>6, <1>7, <3>1, <3>2
  <2> QED
    BY <1>6, <1>7, <1>8, <2>1, <2>2, <2>3 DEF IsWrite
<1>10. \A i \in DOMAIN steps' :
         \/ \E k \in 1 .. n : i = 2 * k - 1 \/ i = 2 * k
         \/ i = 2 * n + 1 /\ i = Len(steps') /\ steps'[i].entry = Restart /\ ~IsWrite(steps'[i])
  BY <1>6, <1>7 DEF IsWrite
<1>11. WritesRowsInTurn'
  <2>1. written_rows' \in Seq(DOMAIN rows')
        /\ \A j, k \in DOMAIN written_rows' : written_rows'[j] = written_rows'[k] => j = k
    BY <1>1, <1>2, <1>4
  <2>2. Len(steps') \in {2 * Len(written_rows'), 2 * Len(written_rows') + 1}
    BY <1>1, <1>5, <1>6, <1>7
  <2>3. \A k \in DOMAIN written_rows' : WritesTwice(k)'
    BY <1>1, <1>2, <1>5, <1>9 DEF WritesTwice
  <2>4. Len(steps') = 2 * Len(written_rows') + 1 =>
          steps'[Len(steps')].entry = Restart /\ steps'[Len(steps')].write_value = NoData
    <3>1. Len(steps') = 2 * n + 1 => Len(steps') \in DOMAIN plan
      BY <1>6, <1>7
    <3> QED
      BY <1>1, <1>5, <1>6, <1>7, <3>1
  <2>5. \A i \in DOMAIN steps' :
          \/ \E k \in DOMAIN written_rows' : steps'[i].entry = rows'[written_rows'[k]].entry
          \/ steps'[i].entry = Restart
    <3> TAKE i \in DOMAIN steps'
    <3>1. CASE steps'[i].entry = Restart
      BY <3>1
    <3>2. CASE steps'[i].entry # Restart
      <4>1. PICK k \in 1 .. n : i = 2 * k - 1 \/ i = 2 * k
        BY <1>10, <3>2
      <4>2. steps'[i].entry = rows[w[k]].entry
        BY <1>9, <4>1
      <4>3. k \in DOMAIN written_rows' /\ rows'[written_rows'[k]].entry = rows[w[k]].entry
        BY <1>1, <1>2, <1>5
      <4> QED
        BY <4>2, <4>3
    <3> QED
      BY <3>1, <3>2
  <2> QED
    BY <2>1, <2>2, <2>3, <2>4, <2>5 DEF WritesRowsInTurn
<1>12. EachOnce'
  <2> SUFFICES ASSUME NEW i \in DOMAIN steps', NEW j \in DOMAIN steps',
                      steps'[i].entry = steps'[j].entry
               PROVE  /\ (IsWrite(steps'[i]) <=> IsWrite(steps'[j])) => i = j
                      /\ (IsWrite(steps'[i]) /\ ~IsWrite(steps'[j])) => i < j
    BY DEF EachOnce, IsWrite
  <2>1. CASE steps'[i].entry = Restart
    <3>1. \A h \in DOMAIN steps' :
            steps'[h].entry = Restart => h = 2 * n + 1 /\ ~IsWrite(steps'[h])
      <4> SUFFICES ASSUME NEW h \in DOMAIN steps', steps'[h].entry = Restart
                   PROVE  h = 2 * n + 1 /\ ~IsWrite(steps'[h])
        BY DEF IsWrite
      <4>1. ASSUME NEW k \in 1 .. n, h = 2 * k - 1 \/ h = 2 * k
            PROVE  FALSE
        BY <1>8, <1>9, <4>1
      <4> QED
        BY <1>10, <4>1
    <3> QED
      BY <2>1, <3>1
  <2>2. CASE steps'[i].entry # Restart
    <3>1. PICK k \in 1 .. n, l \in 1 .. n :
            (i = 2 * k - 1 \/ i = 2 * k) /\ (j = 2 * l - 1 \/ j = 2 * l)
      BY <1>10, <2>2
    <3>2. rows[w[k]].entry = rows[w[l]].entry /\ w[k] \in DOMAIN rows /\ w[l] \in DOMAIN rows
      BY <1>9, <3>1
    <3>3. k = l
      BY <1>3, <1>4, <1>5, <3>2 DEF Table
    <3>4. IsWrite(steps'[2 * k - 1]) /\ ~IsWrite(steps'[2 * k])
      BY <1>9
    <3>5. i = j \/ (i = 2 * k - 1 /\ j = 2 * k /\ i < j) \/ (i = 2 * k /\ j = 2 * k - 1)
      BY <3>1, <3>3
    <3> QED
      BY <3>4, <3>5
  <2> QED
    BY <2>1, <2>2
<1>13. /\ told' \in [Entry -> Told]
       /\ \A i \in DOMAIN steps' : /\ told'[steps'[i].entry].written = NoData
                                   /\ told'[steps'[i].entry].read = NoData
       /\ \A e \in Entry : (\A i \in DOMAIN steps' : steps'[i].entry # e) => told'[e] = told[e]
  <2>1. \A e \in Entry : Silence[e] \in Told /\ Silence[e].written = NoData /\ Silence[e].read = NoData
    BY DEF Silence, Told, Value
  <2>2. told \in [Entry -> Told]
    BY DEF TableInv
  <2>3. \A i \in DOMAIN steps' : steps'[i].entry \in Entry
    BY <1>7
  <2>4. told' \in [Entry -> Told]
    BY <1>2, <2>1, <2>2
  <2> QED
    BY <1>2, <2>1, <2>3, <2>4
<1>14. \A i \in DOMAIN steps' : StepTold(i)'
  BY <1>7, <1>13 DEF StepTold
<1>15. Transfers'
  BY <1>2, <1>11, <1>12, <1>14 DEF Transfers
<1>16. ASSUME NEW i \in DOMAIN rows, \A k \in 1 .. n : w[k] # i
       PROVE  told'[rows[i].entry] = told[rows[i].entry]
  <2>1. \A k \in 1 .. n : rows[w[k]].entry # rows[i].entry
    BY <1>3, <1>9, <1>16 DEF Table
  <2>2. ASSUME NEW j \in DOMAIN steps'
        PROVE  steps'[j].entry # rows[i].entry
    <3>1. CASE steps'[j].entry = Restart
      BY <1>8, <3>1
    <3>2. CASE steps'[j].entry # Restart
      <4>1. PICK k \in 1 .. n : j = 2 * k - 1 \/ j = 2 * k
        BY <1>10, <3>2
      <4> QED
        BY <1>9, <2>1, <4>1
    <3> QED
      BY <3>1, <3>2
  <2> QED
    BY <1>8, <1>13, <2>2
<1>17. RestingRows'
  <2> SUFFICES ASSUME NEW i \in DOMAIN rows, Rests(i)'
               PROVE  RowShows(i)'
    BY <1>2 DEF RestingRows
  <2>1. told'[rows[i].entry] = told[rows[i].entry]
    BY <1>1, <1>2, <1>5, <1>16 DEF Rests
  <2>2. RowShows(i)
    BY <1>2 DEF TableInv, RestingRows, Rests
  <2> QED
    BY <1>2, <2>1, <2>2 DEF RowShows
<1>18. WrittenRows'
  <2> SUFFICES ASSUME NEW i \in DOMAIN rows, rows[i].status = "written"
               PROVE  WrittenIs(i)'
    BY <1>2 DEF WrittenRows, WrittenIs
  <2>1. told'[rows[i].entry] = told[rows[i].entry]
    BY <1>9, <1>16
  <2>2. WrittenIs(i)
    BY DEF TableInv, WrittenRows
  <2> QED
    BY <1>2, <2>1, <2>2 DEF WrittenIs, Differs
<1>19. HintIsTrue'
  BY <1>2 DEF HintIsTrue
<1> QED
  BY <1>3, <1>7, <1>13, <1>15, <1>17, <1>18, <1>19 DEF TableInv

\* When a transfer has ended no step of it is left without a verdict.
LEMMA VerdictsReached ==
  ASSUME IInv, ~Busy, NEW i \in DOMAIN steps
  PROVE  steps[i] \in ConfigStep /\ steps[i].status \in {"done", "refused", "timed_out", "cancelled"}
<1>1. /\ steps \in Seq(ConfigStep) /\ step_idx \in 0 .. Len(steps)
      /\ DOMAIN steps = 1 .. Len(steps) /\ Len(steps) \in Nat
  BY DEF IInv, TypeOK
<1>2. steps[i] \in ConfigStep /\ i <= step_idx
  BY <1>1 DEF Busy
<1>3. steps[i].status # "pending"
  BY <1>2 DEF IInv, InOrder
<1> QED
  BY <1>2, <1>3 DEF ConfigStep, Status

\* What is taken over leaves the service alone, and the panel idle.
LEMMA TakenKeeps ==
  ASSUME TableInv, Result, UNCHANGED <<vars, told, table>>, transfer' = "none",
         Table', RestingRows', WrittenRows', HintIsTrue'
  PROVE  TableInv'
<1>1. IInv'
  BY StutterPreserves DEF TableInv
<1>2. ~Busy'
  BY DEF Result, Busy, vars
<1> QED
  BY <1>1, <1>2 DEF TableInv, Transfers

\* The rows keep what they are about.
LEMMA SameRowsTable ==
  ASSUME Table, rows' \in Seq(TableRow), DOMAIN rows' = DOMAIN rows,
         \A i \in DOMAIN rows : rows'[i].entry = rows[i].entry /\ rows'[i].file_value = rows[i].file_value,
         UNCHANGED table, transfer' = "none"
  PROVE  Table'
  BY DEF Table

\* What was read is shown in its row, and what was not read says so.
LEMMA TakeReadAllKeeps ==
  ASSUME TableInv, TakeReadAll
  PROVE  TableInv'
<1>1. /\ Result /\ transfer = "read_all" /\ transfer' = "none" /\ ~Busy
      /\ UNCHANGED <<vars, table, hint, told>>
      /\ rows' = [i \in DOMAIN rows |->
           IF steps[i].status = "done"
           THEN [rows[i] EXCEPT !.server_value = steps[i].value]
           ELSE [rows[i] EXCEPT !.status = steps[i].status]]
  BY DEF TakeReadAll, Result
<1>2. IInv /\ Table /\ ReadsRows /\ hint = "" /\ \A i \in DOMAIN steps : StepTold(i)
  BY <1>1 DEF TableInv, Transfers
<1>3. rows \in Seq(TableRow) /\ DOMAIN rows = 1 .. Len(rows) /\ DOMAIN steps = 1 .. Len(steps)
      /\ Len(rows) \in Nat /\ Len(steps) = Len(rows) /\ \A i \in DOMAIN rows : rows[i] \in TableRow
  <2>1. rows \in Seq(TableRow) /\ steps \in Seq(ConfigStep) /\ Len(steps) = Len(rows)
    BY <1>2 DEF Table, ReadsRows, IInv, TypeOK
  <2> QED
    BY ONLY <2>1
<1>4. ASSUME NEW i \in DOMAIN rows
      PROVE  /\ rows'[i] \in TableRow /\ rows'[i].entry = rows[i].entry
             /\ rows'[i].file_value = rows[i].file_value /\ rows'[i].status # "written"
             /\ RowShows(i)'
  <2>1. /\ i \in DOMAIN steps /\ steps[i].entry = rows[i].entry /\ ~IsWrite(steps[i])
        /\ StepTold(i) /\ rows[i].status = ""
    BY <1>2, <1>3 DEF ReadsRows, IsWrite
  <2>2. steps[i] \in ConfigStep /\ steps[i].status \in {"done", "refused", "timed_out", "cancelled"}
    BY <1>1, <1>2, <2>1, VerdictsReached
  <2>3. PICK row \in TableRow : row = rows[i]
    BY <1>3
  <2>4. CASE steps[i].status = "done"
    <3>1. steps[i].value \in Value
      BY <2>2 DEF ConfigStep, Value
    <3>2. PICK new \in TableRow : new = [row EXCEPT !.server_value = steps[i].value]
      BY <3>1 DEF TableRow
    <3>3. /\ new.entry = row.entry /\ new.file_value = row.file_value /\ new.status = row.status
          /\ new.server_value = steps[i].value
      BY <3>2 DEF TableRow
    <3>4. rows'[i] = new
      BY <1>1, <2>3, <2>4, <3>2
    <3>5. told'[rows'[i].entry].read = rows'[i].server_value
      BY <1>1, <2>1, <2>3, <2>4, <3>3, <3>4 DEF StepTold
    <3> QED
      BY <2>1, <2>3, <3>3, <3>4, <3>5 DEF RowShows
  <2>5. CASE steps[i].status # "done"
    <3>1. steps[i].status \in RowStatus
      BY <2>2 DEF RowStatus, Status
    <3>2. PICK new \in TableRow : new = [row EXCEPT !.status = steps[i].status]
      BY <3>1 DEF TableRow
    <3>3. /\ new.entry = row.entry /\ new.file_value = row.file_value
          /\ new.status \in {"refused", "timed_out", "cancelled"}
      BY <2>2, <2>5, <3>2 DEF TableRow
    <3>4. rows'[i] = new
      BY <1>1, <2>3, <2>5, <3>2
    <3> QED
      BY <2>3, <3>3, <3>4 DEF RowShows
  <2> QED
    BY <2>4, <2>5
<1>5. rows' \in Seq(TableRow) /\ DOMAIN rows' = DOMAIN rows
  <2>1. DOMAIN rows' = 1 .. Len(rows) /\ rows' = [i \in 1 .. Len(rows) |-> rows'[i]]
    BY <1>1, <1>3
  <2> QED
    BY <1>3, <1>4, <2>1, ListOfValues
<1>6. Table'
  BY <1>1, <1>2, <1>4, <1>5, SameRowsTable
<1>7. RestingRows' /\ WrittenRows' /\ HintIsTrue'
  BY <1>1, <1>2, <1>4, <1>5 DEF RestingRows, WrittenRows, WrittenIs, HintIsTrue
<1> QED
  BY <1>1, <1>6, <1>7, TakenKeeps

\* A row after the comparison: it matches only if what was read is the
\* file's value.
LEMMA ComparedIs ==
  ASSUME NEW row \in TableRow, row.file_value \in Data, row.status = "", NEW step \in ConfigStep,
         NEW new, new = Compared(row, step)
  PROVE  /\ new \in TableRow /\ new.entry = row.entry /\ new.file_value = row.file_value
         /\ new.status # "written"
         /\ step.status = "done" => new.server_value = step.value
         /\ new.status = "same" =>
              step.status = "done" /\ <<step.value, row.file_value>> \in Same
<1>1. step.value \in Value
  BY DEF ConfigStep, Value
<1>2. PICK read \in TableRow : read = [row EXCEPT !.server_value = step.value]
  BY <1>1 DEF TableRow
<1>3. /\ read.entry = row.entry /\ read.file_value = row.file_value /\ read.status = ""
      /\ read.server_value = step.value
  BY <1>2 DEF TableRow
<1>4. CASE step.status # "done"
  <2>1. new = [row EXCEPT !.status = "not read"] /\ "not read" \in RowStatus
    BY <1>4 DEF Compared, RowStatus
  <2> QED
    BY <1>4, <2>1 DEF TableRow
<1>5. CASE step.status = "done" /\ ~Differs(read)
  <2>1. new = [read EXCEPT !.status = "same"] /\ "same" \in RowStatus
    BY <1>2, <1>5 DEF Compared, RowStatus
  <2>2. new \in TableRow /\ new.entry = read.entry /\ new.file_value = read.file_value
        /\ new.status = "same" /\ new.server_value = read.server_value
    BY <2>1 DEF TableRow
  <2>3. <<read.server_value, read.file_value>> \in Same
    BY <1>3, <1>5, ConfigAssumption DEF Differs
  <2> QED
    BY <1>3, <1>5, <2>2, <2>3
<1>6. CASE step.status = "done" /\ Differs(read)
  <2>1. new = [read EXCEPT !.selected = row.entry \notin Manual]
    BY <1>2, <1>6 DEF Compared
  <2>2. (row.entry \notin Manual) \in BOOLEAN
    OBVIOUS
  <2>3. new \in TableRow /\ new.entry = read.entry /\ new.file_value = read.file_value
        /\ new.status = read.status /\ new.server_value = read.server_value
    BY <2>1, <2>2 DEF TableRow
  <2> QED
    BY <1>3, <1>6, <2>3
<1> QED
  BY <1>4, <1>5, <1>6

\* Only rows that were read can match, so "match" is said of values read.
LEMMA TakeCompareKeeps ==
  ASSUME TableInv, TakeCompare
  PROVE  TableInv'
<1>1. /\ Result /\ transfer = "compare" /\ transfer' = "none" /\ ~Busy
      /\ UNCHANGED <<vars, table, told>>
      /\ rows' = [i \in DOMAIN rows |-> Compared(rows[i], steps[i])]
      /\ hint' = IF \A i \in DOMAIN rows : Matches(rows'[i]) THEN "match" ELSE hint
  BY DEF TakeCompare, Result
<1>2. /\ IInv /\ Table /\ ReadsRows /\ hint = "" /\ \A i \in DOMAIN steps : StepTold(i)
      /\ \A i \in DOMAIN rows : rows[i].file_value \in Data
  BY <1>1 DEF TableInv, Transfers, Table
<1>3. rows \in Seq(TableRow) /\ DOMAIN rows = 1 .. Len(rows) /\ DOMAIN steps = 1 .. Len(steps)
      /\ Len(rows) \in Nat /\ Len(steps) = Len(rows) /\ \A i \in DOMAIN rows : rows[i] \in TableRow
  <2>1. rows \in Seq(TableRow) /\ steps \in Seq(ConfigStep) /\ Len(steps) = Len(rows)
    BY <1>2 DEF Table, ReadsRows, IInv, TypeOK
  <2> QED
    BY ONLY <2>1
<1>4. ASSUME NEW i \in DOMAIN rows
      PROVE  /\ rows'[i] \in TableRow /\ rows'[i].entry = rows[i].entry
             /\ rows'[i].file_value = rows[i].file_value /\ rows'[i].status # "written"
             /\ RowShows(i)'
             /\ rows'[i].status = "same" =>
                  <<told'[rows'[i].entry].read, rows'[i].file_value>> \in Same
  <2>1. /\ i \in DOMAIN steps /\ steps[i].entry = rows[i].entry /\ ~IsWrite(steps[i])
        /\ StepTold(i) /\ rows[i].status = ""
    BY <1>2, <1>3 DEF ReadsRows, IsWrite
  <2>2. steps[i] \in ConfigStep
    BY <1>1, <1>2, <2>1, VerdictsReached
  <2>3. PICK new : new = Compared(rows[i], steps[i]) /\ rows'[i] = new
    BY <1>1
  <2>4. /\ new \in TableRow /\ new.entry = rows[i].entry /\ new.file_value = rows[i].file_value
        /\ new.status # "written"
        /\ steps[i].status = "done" => new.server_value = steps[i].value
        /\ new.status = "same" =>
             steps[i].status = "done" /\ <<steps[i].value, rows[i].file_value>> \in Same
    BY <1>2, <1>3, <2>1, <2>2, <2>3, ComparedIs
  <2>5. told'[new.entry].read = IF steps[i].status = "done" THEN steps[i].value ELSE NoData
    BY <1>1, <2>1, <2>4 DEF StepTold
  <2>6. RowShows(i)'
    BY <2>3, <2>4, <2>5 DEF RowShows
  <2> QED
    BY <2>3, <2>4, <2>5, <2>6
<1>5. rows' \in Seq(TableRow) /\ DOMAIN rows' = DOMAIN rows
  <2>1. DOMAIN rows' = 1 .. Len(rows) /\ rows' = [i \in 1 .. Len(rows) |-> rows'[i]]
    BY <1>1, <1>3
  <2> QED
    BY <1>3, <1>4, <2>1, ListOfValues
<1>6. Table'
  BY <1>1, <1>2, <1>4, <1>5, SameRowsTable
<1>7. HintIsTrue'
  <2>1. hint' # "restart"
    BY <1>1, <1>2
  <2>2. ASSUME hint' = "match", NEW i \in DOMAIN rows
        PROVE  <<told'[rows'[i].entry].read, rows'[i].file_value>> \in Same
    <3>1. rows'[i].status = "same"
      BY <1>1, <1>2, <2>2 DEF Matches
    <3> QED
      BY <1>4, <3>1
  <2> QED
    BY <1>5, <2>1, <2>2 DEF HintIsTrue
<1>8. RestingRows' /\ WrittenRows'
  BY <1>4, <1>5 DEF RestingRows, WrittenRows, WrittenIs
<1> QED
  BY <1>1, <1>6, <1>7, <1>8, TakenKeeps

\* What a row has become after its write and its read-back.
AfterWrite(new, row, write, check) ==
  /\ new \in TableRow /\ new.entry = row.entry /\ new.file_value = row.file_value
  /\ \/ /\ write.status # "done" /\ new.status = write.status
        /\ new.selected = row.selected
     \/ write.status = "done" /\ check.status # "done" /\ new.status = "not checked"
     \/ /\ write.status = "done" /\ check.status = "done"
        /\ new.server_value = check.value /\ new.status \in {"returned", "written"}
        /\ new.status = "written" =>
             (check.value # NoData /\ row.file_value # NoData
                => <<check.value, row.file_value>> \in Same)

\* A row after its write and its read-back: it stays picked unless the server
\* acknowledged the write, and is shown as written only if the value came back.
LEMMA WrittenIsRow ==
  ASSUME NEW row \in TableRow, NEW write \in ConfigStep, NEW check \in ConfigStep,
         write.status # "pending", NEW new, new = Written(row, write, check)
  PROVE  AfterWrite(new, row, write, check)
<1>1. CASE write.status # "done"
  <2>1. new = [row EXCEPT !.status = write.status] /\ write.status \in RowStatus
    BY <1>1 DEF Written, RowStatus, ConfigStep
  <2> QED
    BY <1>1, <2>1 DEF TableRow, AfterWrite
<1>2. CASE write.status = "done" /\ check.status # "done"
  <2>1. new = [row EXCEPT !.selected = FALSE, !.status = "not checked"] /\ "not checked" \in RowStatus
    BY <1>2 DEF Written, RowStatus
  <2> QED
    BY <1>2, <2>1 DEF TableRow, AfterWrite
<1>3. CASE write.status = "done" /\ check.status = "done"
  <2>1. check.value \in Value
    BY DEF ConfigStep, Value
  <2>2. PICK checked \in TableRow : checked = [row EXCEPT !.selected = FALSE, !.server_value = check.value]
    BY <2>1 DEF TableRow
  <2>3. checked.entry = row.entry /\ checked.file_value = row.file_value
        /\ checked.server_value = check.value
    BY <2>2 DEF TableRow
  <2>4. PICK status \in {"returned", "written"} :
          status = IF Differs(checked) THEN "returned" ELSE "written"
    OBVIOUS
  <2>5. new = [checked EXCEPT !.status = status] /\ status \in RowStatus
    BY <1>3, <2>2, <2>4 DEF Written, RowStatus
  <2>6. /\ new \in TableRow /\ new.entry = checked.entry /\ new.file_value = checked.file_value
        /\ new.server_value = checked.server_value /\ new.status = status
    BY <2>5 DEF TableRow
  <2>7. status = "written" => ~Differs(checked)
    BY <2>4
  <2> QED
    BY <1>3, <2>3, <2>6, <2>7 DEF Differs, AfterWrite
<1> QED
  BY <1>1, <1>2, <1>3

\* The results of a transfer that wrote: each goes to the row it is about.
WriteTaken ==
  /\ \A k \in DOMAIN written_rows :
       /\ written_rows[k] \in DOMAIN rows
       /\ 2 * k - 1 \in DOMAIN steps /\ 2 * k \in DOMAIN steps
       /\ rows'[written_rows[k]] =
            Written(rows[written_rows[k]], steps[2 * k - 1], steps[2 * k])
       /\ WritesTwice(k)
  /\ \A i \in DOMAIN rows : Rests(i) => rows'[i] = rows[i]
  /\ DOMAIN rows' = DOMAIN rows

\* Each written row finds its two steps by its place among the written rows.
LEMMA TakeWriteTakes ==
  ASSUME TableInv, TakeWrite
  PROVE  WriteTaken
<1> DEFINE place(i) == CHOOSE k \in 1 .. Len(written_rows) : written_rows[k] = i
<1>1. /\ transfer = "write"
      /\ rows' = [i \in DOMAIN rows |->
           IF \E k \in 1 .. Len(written_rows) : written_rows[k] = i
           THEN Written(rows[i], steps[2 * place(i) - 1], steps[2 * place(i)])
           ELSE rows[i]]
  BY DEF TakeWrite
<1>2. WritesRowsInTurn /\ steps \in Seq(ConfigStep)
  BY <1>1 DEF TableInv, Transfers, IInv, TypeOK
<1>3. PICK n \in Nat :
        /\ n = Len(written_rows) /\ DOMAIN written_rows = 1 .. n
        /\ (Len(steps) = 2 * n \/ Len(steps) = 2 * n + 1)
        /\ DOMAIN steps = 1 .. Len(steps) /\ Len(steps) \in Nat
  <2>1. written_rows \in Seq(DOMAIN rows) /\ steps \in Seq(ConfigStep)
        /\ Len(steps) \in {2 * Len(written_rows), 2 * Len(written_rows) + 1}
    BY <1>2 DEF WritesRowsInTurn
  <2>2. Len(written_rows) \in Nat /\ DOMAIN written_rows = 1 .. Len(written_rows)
        /\ Len(steps) \in Nat /\ DOMAIN steps = 1 .. Len(steps)
    BY ONLY <2>1
  <2> QED
    BY <2>1, <2>2
<1>4. ASSUME NEW k \in 1 .. n
      PROVE  /\ written_rows[k] \in DOMAIN rows
             /\ 2 * k - 1 \in DOMAIN steps /\ 2 * k \in DOMAIN steps
             /\ rows'[written_rows[k]] =
                  Written(rows[written_rows[k]], steps[2 * k - 1], steps[2 * k])
             /\ WritesTwice(k)
  <2>1. written_rows[k] \in DOMAIN rows /\ WritesTwice(k)
    <3>1. written_rows \in Seq(DOMAIN rows) /\ k \in DOMAIN written_rows /\ WritesTwice(k)
      BY <1>2, <1>3 DEF WritesRowsInTurn
    <3>2. written_rows[k] \in DOMAIN rows
      BY ONLY <3>1
    <3> QED
      BY <3>1, <3>2
  <2>2. 2 * k - 1 \in DOMAIN steps /\ 2 * k \in DOMAIN steps
    BY <1>3, Twice
  <2>3. place(written_rows[k]) = k
    <3>1. \A j \in 1 .. n : written_rows[j] = written_rows[k] => j = k
      BY <1>2, <1>3 DEF WritesRowsInTurn
    <3> QED
      BY <1>3, <3>1
  <2> QED
    BY <1>1, <1>3, <2>1, <2>2, <2>3
<1>5. ASSUME NEW i \in DOMAIN rows, Rests(i)
      PROVE  rows'[i] = rows[i]
  BY <1>1, <1>3, <1>5 DEF Rests
<1>6. DOMAIN rows' = DOMAIN rows
  BY <1>1
<1> QED
  BY <1>3, <1>4, <1>5, <1>6 DEF WriteTaken

\* What a row that was written shows then.
LEMMA RowOfWrite ==
  ASSUME TableInv, WriteTaken, transfer = "write", ~Busy, UNCHANGED told,
         NEW k \in DOMAIN written_rows, NEW i, i = written_rows[k]
  PROVE  /\ i \in DOMAIN rows /\ rows'[i] \in TableRow
         /\ rows'[i].entry = rows[i].entry /\ rows'[i].file_value = rows[i].file_value
         /\ RowShows(i)' /\ WrittenIs(i)'
         /\ \/ rows'[i].selected = rows[i].selected
            \/ told[rows[i].entry].written = rows[i].file_value
<1>1. PICK write, check :
        /\ write = steps[2 * k - 1] /\ check = steps[2 * k]
        /\ rows'[i] = Written(rows[i], write, check)
        /\ i \in DOMAIN rows /\ 2 * k - 1 \in DOMAIN steps /\ 2 * k \in DOMAIN steps
        /\ write.entry = rows[i].entry /\ write.write_value = rows[i].file_value
        /\ check.entry = rows[i].entry /\ check.write_value = NoData
  BY DEF WriteTaken, WritesTwice
<1>2. /\ write \in ConfigStep /\ write.status \in {"done", "refused", "timed_out", "cancelled"}
      /\ check \in ConfigStep
  BY <1>1, VerdictsReached DEF TableInv
<1>3. /\ rows[i] \in TableRow /\ rows[i].file_value \in Data /\ rows[i].file_value # NoData
  <2>1. rows \in Seq(TableRow) /\ rows[i].file_value \in Data
    BY <1>1 DEF TableInv, Table
  <2>2. rows[i] \in TableRow
    BY <1>1, <2>1
  <2> QED
    BY <2>1, <2>2, ConfigAssumption
<1>4. /\ told[rows[i].entry].written = IF write.status = "done" THEN rows[i].file_value ELSE NoData
      /\ told[rows[i].entry].read = IF check.status = "done" THEN check.value ELSE NoData
      /\ check.status = "done" => check.value \in Data /\ check.value # NoData
  <2>1. StepTold(2 * k - 1) /\ StepTold(2 * k)
    BY <1>1 DEF TableInv, Transfers
  <2>2. IsWrite(write) /\ ~IsWrite(check)
    BY <1>1, <1>3 DEF IsWrite
  <2> QED
    BY <1>1, <2>1, <2>2, ConfigAssumption DEF StepTold
<1>5. PICK new :
        /\ new = rows'[i] /\ new \in TableRow
        /\ new.entry = rows[i].entry /\ new.file_value = rows[i].file_value
        /\ \/ /\ write.status # "done" /\ new.status = write.status
              /\ new.selected = rows[i].selected
           \/ write.status = "done" /\ check.status # "done" /\ new.status = "not checked"
           \/ /\ write.status = "done" /\ check.status = "done"
              /\ new.server_value = check.value /\ new.status \in {"returned", "written"}
              /\ new.status = "written" => <<check.value, rows[i].file_value>> \in Same
  <2>1. PICK new : new = Written(rows[i], write, check)
    OBVIOUS
  <2>2. write.status # "pending"
    BY <1>2
  <2>3. AfterWrite(new, rows[i], write, check)
    BY <1>2, <1>3, <2>1, <2>2, WrittenIsRow
  <2> QED
    BY <1>1, <1>3, <1>4, <2>1, <2>3 DEF AfterWrite
<1>6. RowShows(i)'
  BY <1>2, <1>4, <1>5 DEF RowShows
<1>7. WrittenIs(i)'
  <2>1. ASSUME new.status = "written"
        PROVE  /\ ~Differs(new) /\ told[new.entry].written = new.file_value
               /\ <<told[new.entry].read, told[new.entry].written>> \in Same
    <3>1. /\ write.status = "done" /\ check.status = "done" /\ new.server_value = check.value
          /\ <<check.value, rows[i].file_value>> \in Same
      BY <1>2, <1>5, <2>1
    <3> QED
      BY <1>3, <1>4, <1>5, <3>1 DEF Differs
  <2> QED
    BY <1>5, <2>1 DEF WrittenIs, Differs
<1> QED
  BY <1>1, <1>4, <1>5, <1>6, <1>7

\* So green rows are proven, and a restart is asked for if the server said so.
LEMMA TakeWriteKeeps ==
  ASSUME TableInv, TakeWrite
  PROVE  TableInv'
<1>1. /\ Result /\ transfer = "write" /\ transfer' = "none" /\ ~Busy
      /\ UNCHANGED <<vars, table, told>>
  BY DEF TakeWrite, Result
<1>2. WriteTaken
  BY TakeWriteTakes
<1>3. /\ IInv /\ Table /\ WritesRowsInTurn /\ hint = "" /\ \A i \in DOMAIN steps : StepTold(i)
  BY <1>1 DEF TableInv, Transfers
<1>4. ASSUME NEW i \in DOMAIN rows
      PROVE  /\ rows'[i] \in TableRow
             /\ rows'[i].entry = rows[i].entry /\ rows'[i].file_value = rows[i].file_value
             /\ RowShows(i)' /\ WrittenIs(i)'
  <2>1. CASE \E k \in DOMAIN written_rows : written_rows[k] = i
    BY <1>1, <1>2, <2>1, RowOfWrite
  <2>2. CASE ~\E k \in DOMAIN written_rows : written_rows[k] = i
    <3>1. Rests(i) /\ rows'[i] = rows[i]
      BY <1>2, <2>2 DEF Rests, WriteTaken
    <3>2. rows[i] \in TableRow
      <4>1. rows \in Seq(TableRow)
        BY <1>3 DEF Table
      <4> QED
        BY ONLY <4>1, i \in DOMAIN rows
    <3>3. RowShows(i) /\ WrittenIs(i)
      BY <1>1, <3>1 DEF TableInv, RestingRows, WrittenRows
    <3> QED
      BY <1>1, <3>1, <3>2, <3>3 DEF RowShows, WrittenIs, Differs
  <2> QED
    BY <2>1, <2>2
<1>5. rows' \in Seq(TableRow) /\ DOMAIN rows' = DOMAIN rows
  <2>1. DOMAIN rows = 1 .. Len(rows) /\ Len(rows) \in Nat
    <3>1. rows \in Seq(TableRow)
      BY <1>3 DEF Table
    <3> QED
      BY ONLY <3>1
  <2>2. DOMAIN rows' = 1 .. Len(rows) /\ rows' = [i \in 1 .. Len(rows) |-> rows'[i]]
    BY <2>1 DEF TakeWrite
  <2> QED
    BY <1>4, <2>1, <2>2, ListOfValues
<1>6. Table'
  BY <1>1, <1>3, <1>4, <1>5, SameRowsTable
<1>7. RestingRows' /\ WrittenRows'
  BY <1>4, <1>5 DEF RestingRows, WrittenRows
<1>8. HintIsTrue'
  <2>1. hint' # "match"
    BY <1>3 DEF TakeWrite
  <2>2. ASSUME hint' = "restart"
        PROVE  told[Restart].read \notin {NoData, Zero}
    <3>1. /\ Len(steps) = 2 * Len(written_rows) + 1 /\ steps[Len(steps)].status = "done"
          /\ steps[Len(steps)].value # Zero
      BY <1>3, <2>2 DEF TakeWrite
    <3>2. steps[Len(steps)].entry = Restart /\ ~IsWrite(steps[Len(steps)])
      BY <1>3, <3>1 DEF WritesRowsInTurn, IsWrite
    <3>3. Len(steps) \in DOMAIN steps
      <4>1. steps \in Seq(ConfigStep) /\ written_rows \in Seq(DOMAIN rows)
        BY <1>3 DEF IInv, TypeOK, WritesRowsInTurn
      <4>2. Len(written_rows) \in Nat /\ DOMAIN steps = 1 .. Len(steps)
        BY ONLY <4>1
      <4> QED
        BY <3>1, <4>2
    <3>4. StepTold(Len(steps))
      BY <1>3, <3>3
    <3> QED
      BY <3>1, <3>2, <3>4, ConfigAssumption DEF StepTold
  <2> QED
    BY <1>1, <2>1, <2>2 DEF HintIsTrue
<1> QED
  BY <1>1, <1>6, <1>7, <1>8, TakenKeeps

\* The panel begins idle, with an empty table.
LEMMA TableBegins == SetupInit => TableInv
<1> SUFFICES ASSUME SetupInit PROVE TableInv
  OBVIOUS
<1>1. IInv
  BY InitEstablishes DEF SetupInit
<1>2. /\ transfer = "none" /\ table = "values" /\ rows = << >> /\ hint = "" /\ told = Silence
      /\ steps = << >> /\ step_idx = 0
  BY DEF SetupInit, Init
<1>3. told \in [Entry -> Told]
  BY <1>2 DEF Silence, Told, Value
<1>4. rows \in Seq(TableRow) /\ DOMAIN rows = {}
  <2>1. rows = << >>
    BY <1>2
  <2> QED
    BY ONLY <2>1
<1>5. Table
  BY <1>2, <1>4 DEF Table
<1>6. Transfers
  <2>1. Len(steps) = 0
    <3>1. steps = << >>
      BY <1>2
    <3> QED
      BY ONLY <3>1
  <2>2. ~Busy
    <3>1. step_idx = 0
      BY <1>2
    <3> QED
      BY ONLY <2>1, <3>1 DEF Busy
  <2> QED
    BY <1>2, <2>2 DEF Transfers
<1>7. RestingRows /\ WrittenRows /\ HintIsTrue
  BY <1>2, <1>4 DEF RestingRows, WrittenRows, HintIsTrue
<1> QED
  BY <1>1, <1>3, <1>5, <1>6, <1>7 DEF TableInv

\* Every step of the panel and of the service keeps the invariant.
LEMMA TableStep == TableInv /\ [SetupNext]_setupvars => TableInv'
<1> SUFFICES ASSUME TableInv, [SetupNext]_setupvars PROVE TableInv'
  OBVIOUS
<1>1. CASE ReadAll
  BY <1>1, ReadAllKeeps
<1>2. CASE \E file \in Files : LoadFile(file)
  BY <1>2, LoadFileKeeps
<1>3. CASE WriteSelected
  BY <1>3, WriteSelectedKeeps
<1>4. CASE \E i \in DOMAIN rows : Toggle(i)
  BY <1>4, ToggleKeeps
<1>5. CASE CancelTransfer \/ ServiceGoesOn
  <2>1. UNCHANGED <<panelvars, told>> /\ (Cancel \/ Send \/ Expire)
    BY <1>5 DEF CancelTransfer, ServiceGoesOn
  <2>2. IInv' /\ GoesOn /\ (~Busy => ~Busy')
    BY <2>1, ServiceStep DEF TableInv
  <2> QED
    BY <2>1, <2>2, GoesOnKeeps
<1>6. CASE Window \/ UNCHANGED setupvars
  <2>1. UNCHANGED <<vars, transfer, table, rows, written_rows, hint, told>>
    BY <1>6 DEF Window, setupvars, panelvars
  <2>2. IInv'
    BY <2>1, StutterPreserves DEF TableInv
  <2>3. UNCHANGED <<steps, step_idx>>
    BY <2>1 DEF vars
  <2>4. Table'
    BY <2>1 DEF TableInv, Table
  <2>5. /\ EachOnce => EachOnce'
        /\ ReadsRows => ReadsRows'
        /\ WritesRowsInTurn => WritesRowsInTurn'
    <3>1. SameSteps /\ steps \in Seq(ConfigStep) /\ Table
      BY <2>3 DEF SameSteps, TableInv, IInv, TypeOK
    <3> QED
      BY <2>1, <3>1, SameStepsKeep
  <2>6. Busy = Busy' /\ \A i : StepTold(i) = StepTold(i)'
    BY <2>1, <2>3, Zenon DEF Busy, StepTold, IsWrite
  <2>7. Transfers'
    BY <2>1, <2>3, <2>5, <2>6 DEF TableInv, Transfers
  <2>8. RestingRows' /\ WrittenRows' /\ HintIsTrue'
    BY <2>1 DEF TableInv, RestingRows, Rests, RowShows, WrittenRows, WrittenIs, Differs, HintIsTrue
  <2> QED
    BY <2>1, <2>2, <2>4, <2>7, <2>8 DEF TableInv
<1>7. CASE TakeTransfer
  BY <1>7, TakeReadAllKeeps, TakeCompareKeeps, TakeWriteKeeps DEF TakeTransfer
<1>8. CASE \E entry \in Entry, type \in AnswerType, data \in Data : ServerAnswers(entry, type, data)
  BY <1>8, AnswerKeeps
<1> QED
  BY <1>1, <1>2, <1>3, <1>4, <1>5, <1>6, <1>7, <1>8 DEF SetupNext

\* The table, its transfer and the server's answers agree in every state.
THEOREM TableInvariance == SetupSafeSpec => []TableInv
  BY TableBegins, TableStep, PTL DEF SetupSafeSpec

\* Results are found by their place alone: the steps under way, or done and
\* not yet taken, are those of the panel's rows (start, _take_transfer).
THEOREM ResultsFitRowsAlways == SetupSafeSpec => []ResultsFitRows
<1>1. TableInv => ResultsFitRows
  <2> SUFFICES ASSUME TableInv PROVE ResultsFitRows
    OBVIOUS
  <2>1. Busy => transfer # "none"
    BY DEF TableInv, Transfers
  <2>2. transfer \in {"read_all", "compare"} =>
          Len(steps) = Len(rows) /\ \A i \in DOMAIN rows : steps[i].entry = rows[i].entry
    BY DEF TableInv, Transfers, ReadsRows
  <2>3. transfer = "write" =>
          /\ Len(steps) \in {2 * Len(written_rows), 2 * Len(written_rows) + 1}
          /\ \A k \in DOMAIN written_rows :
               {steps[2 * k - 1].entry, steps[2 * k].entry} = {rows[written_rows[k]].entry}
    BY DEF TableInv, Transfers, WritesRowsInTurn, WritesTwice
  <2> QED
    BY <2>1, <2>2, <2>3 DEF ResultsFitRows
<1> QED
  BY TableInvariance, <1>1, PTL

\* A row is green only if the server acknowledged the file's value and has
\* given it back since (_take_write).
THEOREM GreenIsProvenAlways == SetupSafeSpec => []GreenIsProven
<1>1. TableInv => GreenIsProven
  BY DEF TableInv, WrittenRows, WrittenIs, GreenIsProven
<1> QED
  BY TableInvariance, <1>1, PTL

\* The column of the server's values and the line above the table say what
\* the server said (_take_read_all, _take_compare, _take_write).
THEOREM TableTellsTheTruthAlways == SetupSafeSpec => []TableTellsTheTruth
<1>1. TableInv => TableTellsTheTruth
  <2> SUFFICES ASSUME TableInv PROVE TableTellsTheTruth
    OBVIOUS
  <2>1. ShowsLastRead
    BY DEF TableInv, RestingRows, Rests, RowShows, ShowsLastRead
  <2> QED
    BY <2>1 DEF TableInv, TableTellsTheTruth
<1> QED
  BY TableInvariance, <1>1, PTL

\* A row whose write was refused, not answered or cancelled stays picked
\* (_take_write, "left picked, to be tried again").
THEOREM PutDownOnceWrittenAlways == SetupSafeSpec => PutDownOnceWritten
<1> DEFINE PutDown == transfer = "write" =>
             \A i \in DOMAIN rows :
               (rows[i].selected /\ ~rows'[i].selected)
                 => told[rows[i].entry].written = rows[i].file_value
<1>1. TableInv /\ [SetupNext]_setupvars => [PutDown]_setupvars
  <2> SUFFICES ASSUME TableInv, SetupNext, transfer = "write", NEW i \in DOMAIN rows
               PROVE  (rows[i].selected /\ ~rows'[i].selected)
                        => told[rows[i].entry].written = rows[i].file_value
    OBVIOUS
  <2>1. rows' = rows \/ TakeWrite
    BY DEF SetupNext, ReadAll, LoadFile, WriteSelected, Toggle, PanelBusy, CancelTransfer, Window,
           TakeTransfer, TakeReadAll, TakeCompare, ServerAnswers, ServiceGoesOn, panelvars
  <2>2. CASE TakeWrite
    <3>1. WriteTaken /\ ~Busy /\ UNCHANGED told
      BY <2>2, TakeWriteTakes DEF TakeWrite, Result
    <3>2. CASE \E k \in DOMAIN written_rows : written_rows[k] = i
      BY <3>1, <3>2, RowOfWrite
    <3>3. CASE ~\E k \in DOMAIN written_rows : written_rows[k] = i
      BY <3>1, <3>3 DEF WriteTaken, Rests
    <3> QED
      BY <3>2, <3>3
  <2> QED
    BY <2>1, <2>2
<1>2. SetupSafeSpec => [][PutDown]_setupvars
  BY TableInvariance, <1>1, PTL DEF SetupSafeSpec
<1> QED
  BY <1>2 DEF PutDownOnceWritten

-----------------------------------------------------------------------------
(* The service under the panel.                                            *)

\* Every click and every frame of the panel is a call of the service, or none,
\* so that what is proved of ServerConfigService for any lists holds of the
\* lists the panel makes (_read_all, _load_file, _write_selected).
THEOREM PanelImplementsService ==
  ASSUME Plans = Seq(PlannedStep)
  PROVE  SetupSafeSpec => SafeSpec
<1>1. SetupInit => Init
  BY DEF SetupInit
<1>2. TableInv /\ [SetupNext]_setupvars => [Next]_vars
  <2> SUFFICES ASSUME TableInv, [SetupNext]_setupvars PROVE [Next]_vars
    OBVIOUS
  <2>1. \A plan : (plan \in Seq(PlannedStep) /\ Start(plan)) => Next
    BY DEF Next
  <2>2. \A objects : \A list \in ListedOf(objects) :
          /\ list \in Seq(Entry)
          /\ [i \in DOMAIN list |-> ReadStep(list[i])] \in Seq(PlannedStep)
    <3> SUFFICES ASSUME NEW objects, NEW list \in ListedOf(objects)
                 PROVE  /\ list \in Seq(Entry)
                        /\ [i \in DOMAIN list |-> ReadStep(list[i])] \in Seq(PlannedStep)
      OBVIOUS
    <3>1. list \in Seq(Entry)
      BY ListedOfIs
    <3>2. DOMAIN list = 1 .. Len(list) /\ Len(list) \in Nat /\ \A i \in DOMAIN list : list[i] \in Entry
      BY <3>1
    <3>3. \A i \in DOMAIN list : ReadStep(list[i]) \in PlannedStep
      BY <3>2 DEF ReadStep, PlannedStep
    <3>4. PICK reads : reads = [i \in DOMAIN list |-> ReadStep(list[i])]
      OBVIOUS
    <3>5. reads \in Seq(PlannedStep)
      BY <3>2, <3>3, <3>4, ListOfValues
    <3> QED
      BY <3>1, <3>4, <3>5
  <2>3. CASE ReadAll
    <3>1. PICK read \in ListedOf(Readable) : Start([i \in DOMAIN read |-> ReadStep(read[i])])
      BY <2>3 DEF ReadAll
    <3> QED
      BY <2>1, <2>2, <3>1
  <2>4. ASSUME NEW file \in Files, LoadFile(file) PROVE [Next]_vars
    <3>1. PICK found \in ListedOf(DOMAIN file \cap Readable \cap Writable) :
            rows' = [i \in DOMAIN found |-> Row(found[i], file[found[i]])]
      BY <2>4 DEF LoadFile, FileRows
    <3>2. CASE rows' = << >>
      BY <2>4, <3>2 DEF LoadFile
    <3>3. CASE rows' # << >>
      <4>1. Start([i \in DOMAIN rows' |-> ReadStep(rows'[i].entry)])
        BY <2>4, <3>3 DEF LoadFile
      <4>2. [i \in DOMAIN rows' |-> ReadStep(rows'[i].entry)] = [i \in DOMAIN found |-> ReadStep(found[i])]
        BY <3>1 DEF Row
      <4> QED
        BY <2>1, <2>2, <4>1, <4>2
    <3> QED
      BY <3>2, <3>3
  <2>5. CASE WriteSelected
    <3>1. PICK w \in [1 .. Cardinality(PickedRows) -> PickedRows] :
            InTableOrder(w) /\ Start(WriteSteps(w))
      BY <2>5 DEF WriteSelected
    <3>2. w \in Seq(DOMAIN rows)
      BY <3>1, PickedInOrder DEF TableInv
    <3>3. PICK plan : plan = WriteSteps(w)
      OBVIOUS
    <3>4. Len(w) \in Nat /\ table = "file"
      <4>1. Len(w) \in Nat
        BY <3>2
      <4> QED
        BY <2>5, <4>1 DEF WriteSelected
    <3>5. TwoStepsEach(plan, w, Len(w))
      BY <3>2, <3>3, <3>4, WriteStepsAre
    <3>6. plan \in Seq(PlannedStep)
      BY <3>5 DEF TwoStepsEach
    <3> QED
      BY <2>1, <3>1, <3>3, <3>6
  <2>6. CASE (\E i \in DOMAIN rows : Toggle(i)) \/ Window \/ TakeTransfer
    BY <2>6 DEF Toggle, Window, TakeTransfer, TakeReadAll, TakeCompare, TakeWrite
  <2>7. CASE CancelTransfer \/ ServiceGoesOn
    BY <2>7 DEF CancelTransfer, ServiceGoesOn, Next
  <2>8. ASSUME NEW entry \in Entry, NEW type \in AnswerType, NEW data \in Data,
               ServerAnswers(entry, type, data)
        PROVE  [Next]_vars
    BY <2>8 DEF ServerAnswers, Next
  <2>9. CASE UNCHANGED setupvars
    BY <2>9 DEF setupvars, vars
  <2> QED
    BY <2>3, <2>4, <2>5, <2>6, <2>7, <2>8, <2>9 DEF SetupNext
<1> QED
  BY TableInvariance, <1>1, <1>2, PTL DEF SetupSafeSpec, SafeSpec

\* No list of the panel writes an object twice, or once it has read it: a value
\* that a step reads is not made old by a later step of the same list, and an
\* acknowledgement is not that of an earlier step's write.
ReadsBackLast ==
  Busy => \A i, j \in DOMAIN steps :
            (steps[i].entry = steps[j].entry /\ IsWrite(steps[j]) /\ i # j)
              => (i > j /\ ~IsWrite(steps[i]))

\* The panel's lists read everything, or read each row back after writing it,
\* each row once (_read_all, _load_file, _write_selected).
THEOREM ReadsBackLastAlways == SetupSafeSpec => []ReadsBackLast
<1>1. TableInv => ReadsBackLast
  <2> SUFFICES ASSUME TableInv, Busy, NEW i \in DOMAIN steps, NEW j \in DOMAIN steps,
                      steps[i].entry = steps[j].entry, IsWrite(steps[j]), i # j
               PROVE  i > j /\ ~IsWrite(steps[i])
    BY DEF ReadsBackLast
  <2>1. EachOnce
    BY DEF TableInv, Transfers
  <2>2. ~IsWrite(steps[i])
    BY <2>1 DEF EachOnce
  <2>3. j < i
    BY <2>1, <2>2 DEF EachOnce
  <2>4. i \in Int /\ j \in Int
    BY DEF TableInv, IInv, TypeOK
  <2> QED
    BY <2>2, <2>3, <2>4
<1> QED
  BY TableInvariance, <1>1, PTL
=============================================================================

------------------------------ MODULE LogService ------------------------------
(***************************************************************************)
(* What becomes of the answers to the watch service's requests, and of     *)
(* TPDOs: ServerWatchService keeps the last value of each object,          *)
(* ServerLogService a circular buffer of samples for those that are        *)
(* floats, and for the fields of TPDOs that the dictionary maps.  The plot *)
(* draws the buffers, or a copy of them while it is paused, which can be   *)
(* written to a file.                                                      *)
(*                                                                         *)
(* Each handler is a step of the CAN thread, as is each field of a TPDO:   *)
(* the mutexes are held for one object at a time.  The copy is made        *)
(* without the mutex.  The capacity of a log is a static member: the       *)
(* service of another server may change it.                                *)
(***************************************************************************)
EXTENDS Naturals, Sequences, SequencesExt

CONSTANTS
  Watched,     \* the watch objects
  Floats,      \* those that are floats
  Mapped,      \* the fields mapped into a TPDO, in order
  Keys,        \* the keys of _log, in the order of the map: there is something to plot
  Data, NoData,
  Capacity     \* the capacities the operator may choose

ASSUME LogAssumption ==
  /\ Floats \subseteq Watched
  /\ Mapped \in Seq(Range(Mapped))
  /\ Keys # << >>
  /\ Keys \in Seq(Floats \cup Range(Mapped))
  /\ Range(Keys) = Floats \cup Range(Mapped)
  /\ NoData \notin Data
  /\ Capacity \subseteq Nat \ {0}

LogKey == Range(Keys)

VARIABLES
  data,        \* ServerWatchService::_data
  log,         \* _log, each buffer from its oldest sample on
  room,        \* the capacity of these buffers
  capacity,    \* _log_capacity
  can,         \* what the CAN thread has still to hand to the log
  running,     \* the plot's _running
  snapshot,    \* its _log_snapshot
  copying,     \* the copy under way: how many buffers are done, and the next as it was found
  cut,         \* history: the last file since the pause lacks samples of the paused plot
  lowered      \* history: since the pause, the capacity was less than that of the paused buffers

logvars == <<data, log, room, capacity, can, running, snapshot, copying, cut, lowered>>

Idle == << >>
NotCopying == [done |-> Len(Keys), before |-> << >>]
Empty == [k \in LogKey |-> << >>]

LogInit ==
  /\ data = [o \in Watched |-> NoData]
  /\ log = Empty
  /\ room \in Capacity
  /\ capacity = room
  /\ can = Idle
  /\ running = TRUE
  /\ snapshot = Empty
  /\ copying = NotCopying
  /\ cut = FALSE
  /\ lowered = FALSE

\* Mutant: a full buffer takes no more.
PushWhileRoom(buffer, sample) ==
  IF Len(buffer) < room THEN Append(buffer, sample) ELSE buffer

\* circular_buffer::push_back.
Push(buffer, sample) ==
  IF Len(buffer) < room THEN Append(buffer, sample) ELSE Append(Tail(buffer), sample)

-----------------------------------------------------------------------------
(* The CAN thread.                                                         *)

\* An answer to a read: ServerWatchService::handle_sdo comes first.
CanAnswer ==
  /\ can = Idle
  /\ \E o \in Watched, value \in Data :
       /\ data' = [data EXCEPT ![o] = value]
       /\ can' = IF o \in Floats THEN << <<o, value>> >> ELSE Idle
  /\ UNCHANGED <<log, room, capacity, running, snapshot, copying, cut, lowered>>

\* A TPDO, taken apart by _unmap_tpdo.
CanTpdo ==
  /\ can = Idle
  /\ \E values \in [DOMAIN Mapped -> Data] :
       can' = [i \in DOMAIN Mapped |-> <<Mapped[i], values[i]>>]
  /\ UNCHANGED <<data, log, room, capacity, running, snapshot, copying, cut, lowered>>

\* ServerLogService::handle_sdo, and each turn of the loop in handle_tpdo.
CanLog ==
  /\ can # Idle
  /\ log' = [log EXCEPT ![Head(can)[1]] = Push(@, Head(can)[2])]
  /\ can' = Tail(can)
  /\ UNCHANGED <<data, room, capacity, running, snapshot, copying, cut, lowered>>

-----------------------------------------------------------------------------
(* The UI thread.                                                          *)

Copying == copying # NotCopying

\* set_log_capacity: a smaller buffer is cleared first.
UiSetCapacity ==
  /\ ~Copying
  /\ \E c \in Capacity :
       /\ capacity' = c
       /\ log' = IF c < room THEN Empty ELSE log
       /\ room' = c
       /\ lowered' = (lowered \/ (~running /\ c < room))
  /\ UNCHANGED <<data, can, running, snapshot, copying, cut>>

\* The same on another server: its buffers change, and _log_capacity of all.
UiSetOthers ==
  /\ ~Copying
  /\ \E c \in Capacity :
       /\ capacity' = c
       /\ lowered' = (lowered \/ (~running /\ c < room))
  /\ UNCHANGED <<data, log, room, can, running, snapshot, copying, cut>>

\* "Pause": get_log copies one buffer after the other ...
UiPause ==
  /\ running
  /\ ~Copying
  /\ copying' = [done |-> 0, before |-> log[Keys[1]]]
  /\ UNCHANGED <<data, log, room, capacity, can, running, snapshot, cut, lowered>>

\* ... and one that samples come to while it is copied may end up as anything.
Copies(before, now) ==
  IF before = now THEN {now}
  ELSE UNION {[1 .. n -> Data] : n \in {Len(before), Len(now)}}

UiCopy ==
  /\ Copying
  /\ LET key == Keys[copying.done + 1]
         done == copying.done + 1
         last == done = Len(Keys)
     IN /\ \E buffer \in Copies(copying.before, log[key]) :
             snapshot' = [snapshot EXCEPT ![key] = buffer]
        /\ copying' = IF last THEN NotCopying
                      ELSE [done |-> done, before |-> log[Keys[done + 1]]]
        /\ running' = ~last
        /\ lowered' = (last /\ capacity < room)
  /\ UNCHANGED <<data, log, room, capacity, can, cut>>

\* "Continue".
UiResume ==
  /\ ~running
  /\ running' = TRUE
  /\ cut' = FALSE
  /\ lowered' = FALSE
  /\ UNCHANGED <<data, log, room, capacity, can, snapshot, copying>>

\* Mutant: the newest sample of a full buffer is not written.
ExportedShort(buffer) ==
  IF Len(buffer) < capacity THEN buffer ELSE SubSeq(buffer, 1, capacity - 1)

\* The rows of a buffer that _export_to_csv writes.
Exported(buffer) == SubSeq(buffer, 1, IF Len(buffer) < capacity THEN Len(buffer) ELSE capacity)

UiExport ==
  /\ ~running
  /\ cut' = \E k \in LogKey : Exported(snapshot[k]) # snapshot[k]
  /\ UNCHANGED <<data, log, room, capacity, can, running, snapshot, copying, lowered>>

LogNext ==
  \/ CanAnswer \/ CanTpdo \/ CanLog
  \/ UiSetCapacity \/ UiSetOthers \/ UiPause \/ UiCopy \/ UiResume \/ UiExport

LogSpec == LogInit /\ [][LogNext]_logvars
-----------------------------------------------------------------------------
\* Between two frames, the value the watch panel shows of an object is the last
\* sample its plot draws, unless a TPDO has a field of that name as well, or
\* the capacity has been lowered since.
ShownIsDrawn ==
  can = Idle =>
    \A o \in Floats \ Range(Mapped) : log[o] # << >> => data[o] = Last(log[o])

\* A file holds what the paused plot holds, of every object, unless the
\* capacity was lowered, on whichever server.
ExportIsWhole == cut => lowered
=============================================================================

---------------------------- MODULE WatchLogProofs ----------------------------
(***************************************************************************)
(* The cursor of the watch service, for any number of objects: its types,  *)
(* and that it treats them in turn.  The log of what it is answered, for   *)
(* any objects and capacities: what is shown is what is drawn, and what is *)
(* exported is what is drawn, too.                                         *)
(***************************************************************************)
EXTENDS WatchService, LogService, TLAPS

-----------------------------------------------------------------------------
(* The cursor.                                                             *)

\* The indices the cursor passes before it comes to k.
Ahead(k) == IF daq_idx <= k THEN daq_idx .. k - 1 ELSE (daq_idx .. N - 1) \cup (0 .. k - 1)

\* What an object is owed lies before it: the objects that were on when it was
\* asked for were then all ahead of the cursor, and none has been passed that
\* was on.
OwedAhead == \A k \in Index : owed[k] \subseteq Ahead(k)

WatchInv == WatchTypeOK /\ OwedAhead

\* The index that follows another.
LEMMA Successor ==
  ASSUME NEW i \in Index
  PROVE  After(i) = IF i + 1 = N THEN 0 ELSE i + 1
<1>1. i \in Nat /\ N \in Nat /\ N > 0 /\ i < N
  BY WatchAssumption DEF Index
<1>2. CASE i + 1 = N
  BY <1>1, <1>2 DEF After
<1>3. CASE i + 1 # N
  BY <1>1, <1>3 DEF After
<1>. QED  BY <1>2, <1>3

LEMMA InitInv == WatchInit => WatchInv
<1>. SUFFICES ASSUME WatchInit PROVE WatchInv
  OBVIOUS
<1>1. N \in Nat /\ N > 0 /\ MaxPeriod \in Nat /\ MaxPeriod > 0
  BY WatchAssumption
<1>2. WatchTypeOK
  BY <1>1 DEF WatchInit, WatchTypeOK, Index
<1>3. OwedAhead
  BY DEF WatchInit, OwedAhead, Ahead
<1>. QED  BY <1>2, <1>3 DEF WatchInv

\* Switching one object on or off keeps every debt one of an object that is on.
LEMMA ToggleInv ==
  ASSUME WatchInv, NEW i \in Index, NEW value \in BOOLEAN, Toggle(i, value),
         UNCHANGED daq_idx
  PROVE  daq' \subseteq Index /\ owed' \in [Index -> SUBSET daq'] /\ OwedAhead'
<1>1. daq' \subseteq Index
  BY DEF WatchInv, WatchTypeOK, Toggle
<1>2. owed' \in [Index -> SUBSET daq']
  BY DEF WatchInv, WatchTypeOK, Toggle
<1>3. \A k \in Index : owed'[k] \subseteq owed[k]
  BY DEF WatchInv, WatchTypeOK, Toggle
<1>4. \A k \in Index : Ahead(k)' = Ahead(k)
  BY DEF Ahead
<1>5. OwedAhead'
  BY <1>3, <1>4 DEF OwedAhead, WatchInv
<1>. QED  BY <1>1, <1>2, <1>5

\* The cursor moves on: what it passes was asked for, or is off and nothing to
\* anybody.
LEMMA SendInv == WatchInv /\ Send => WatchInv'
<1>. SUFFICES ASSUME WatchInv, Send PROVE WatchInv'
  OBVIOUS
<1>0. PICK i \in Index : i = daq_idx
  BY DEF WatchInv, WatchTypeOK
<1>1. i = daq_idx /\ i \in Index /\ N \in Nat /\ N > 0 /\ MaxPeriod \in Nat
  BY <1>0, WatchAssumption
<1>2. daq_idx' = IF i + 1 = N THEN 0 ELSE i + 1
  BY <1>1, Successor DEF Send, MoveOn
<1>3. daq_idx' \in Index
  BY <1>1, <1>2 DEF Index
<1>4. UNCHANGED <<service_enabled, period, daq, all, clicking>>
  BY DEF Send
<1>6. \A k \in Index : Ahead(k) \ {i} \subseteq Ahead(k)' \/ k = i
  BY <1>1, <1>2 DEF Ahead, Index
<1>7. Index \ {i} \subseteq Ahead(i)'
  BY <1>1, <1>2 DEF Ahead, Index
<1>8. \A k \in Index : owed[k] \subseteq daq /\ owed[k] \subseteq Ahead(k)
  BY DEF WatchInv, WatchTypeOK, OwedAhead
<1>9. CASE i \in daq /\ Ask(i)
  <2>1. elapsed' = 0 /\ owed' = [k \in Index |-> IF k = i THEN daq \ {i} ELSE owed[k] \ {i}]
    BY <1>9 DEF Ask
  <2>2. owed' \in [Index -> SUBSET daq']
    BY <2>1, <1>4, <1>8
  <2>3. WatchTypeOK'
    BY <2>1, <2>2, <1>1, <1>3, <1>4 DEF WatchInv, WatchTypeOK
  <2>4. ASSUME NEW k \in Index PROVE owed'[k] \subseteq Ahead(k)'
    <3>1. CASE k = i
      <4>1. owed'[k] \subseteq Index \ {i}
        BY <3>1, <2>1, <1>1 DEF WatchInv, WatchTypeOK
      <4>. QED  BY <4>1, <1>7, <3>1
    <3>2. CASE k # i
      <4>1. owed'[k] \subseteq Ahead(k) \ {i}
        BY <3>2, <2>1, <1>8
      <4>. QED  BY <4>1, <1>6, <3>2
    <3>. QED  BY <3>1, <3>2
  <2>. QED  BY <2>3, <2>4 DEF WatchInv, OwedAhead
<1>10. CASE i \notin daq /\ UNCHANGED <<elapsed, owed>>
  <2>1. WatchTypeOK'
    BY <1>10, <1>3, <1>4 DEF WatchInv, WatchTypeOK
  <2>2. ASSUME NEW k \in Index PROVE owed'[k] \subseteq Ahead(k)'
    <3>1. CASE k = i
      <4>1. Ahead(k) = {}
        BY <3>1, <1>1 DEF Ahead, Index
      <4>. QED  BY <4>1, <1>8, <1>10
    <3>2. CASE k # i
      <4>1. owed'[k] \subseteq Ahead(k) \ {i}
        BY <1>8, <1>10
      <4>. QED  BY <4>1, <1>6, <3>2
    <3>. QED  BY <3>1, <3>2
  <2>. QED  BY <2>1, <2>2 DEF WatchInv, OwedAhead
<1>. QED  BY <1>1, <1>9, <1>10 DEF Send, Ask

\* A step that leaves the cursor and the debts alone keeps them ahead.
LEMMA OwedStays ==
  ASSUME OwedAhead, UNCHANGED <<daq_idx, owed>>
  PROVE  OwedAhead'
<1>1. \A k \in Index : Ahead(k)' = Ahead(k)
  BY DEF Ahead
<1>. QED  BY <1>1 DEF OwedAhead

LEMMA NextInv == WatchInv /\ [WatchNext]_watchvars => WatchInv'
<1>. SUFFICES ASSUME WatchInv, [WatchNext]_watchvars PROVE WatchInv'
  OBVIOUS
<1>0. N \in Nat /\ N > 0 /\ MaxPeriod \in Nat
  BY WatchAssumption
<1>1. CASE Send
  BY <1>1, SendInv
<1>2. CASE Elapse
  <2>1. WatchTypeOK'
    BY <1>0, <1>2 DEF Elapse, WatchInv, WatchTypeOK
  <2>. QED  BY <2>1, <1>2, OwedStays DEF Elapse, WatchInv
<1>3. CASE UiToggle
  <2>1. PICK i \in Index : Toggle(i, i \notin daq)
    BY <1>3 DEF UiToggle
  <2>2. UNCHANGED <<service_enabled, period, elapsed, daq_idx, clicking>> /\ all' = -1
    BY <1>3 DEF UiToggle
  <2>3. daq' \subseteq Index /\ owed' \in [Index -> SUBSET daq'] /\ OwedAhead'
    BY <2>1, <2>2, ToggleInv
  <2>. QED  BY <2>2, <2>3 DEF WatchInv, WatchTypeOK
<1>4. CASE UiClickAll
  <2>1. WatchTypeOK'
    BY <1>0, <1>4 DEF UiClickAll, WatchInv, WatchTypeOK
  <2>. QED  BY <2>1, <1>4, OwedStays DEF UiClickAll, WatchInv
<1>5. CASE UiToggleNext
  <2>1. clicking \in Index /\ Toggle(clicking, all = 1)
    BY <1>0, <1>5 DEF UiToggleNext, WatchInv, WatchTypeOK, Index
  <2>2. UNCHANGED <<service_enabled, period, elapsed, daq_idx, all>> /\ clicking' \in 0 .. N
    BY <1>0, <1>5 DEF UiToggleNext, WatchInv, WatchTypeOK
  <2>3. daq' \subseteq Index /\ owed' \in [Index -> SUBSET daq'] /\ OwedAhead'
    BY <2>1, <2>2, ToggleInv
  <2>. QED  BY <2>2, <2>3 DEF WatchInv, WatchTypeOK
<1>6. CASE UiOptions
  <2>1. WatchTypeOK'
    BY <1>6 DEF UiOptions, WatchInv, WatchTypeOK
  <2>. QED  BY <2>1, <1>6, OwedStays DEF UiOptions, WatchInv
<1>7. CASE UNCHANGED watchvars
  <2>1. WatchTypeOK'
    BY <1>7 DEF watchvars, WatchInv, WatchTypeOK
  <2>. QED  BY <2>1, <1>7, OwedStays DEF watchvars, WatchInv
<1>. QED  BY <1>1, <1>2, <1>3, <1>4, <1>5, <1>6, <1>7 DEF WatchNext

\* The type invariant of the watch service.
THEOREM WatchTypeCorrect == WatchSpec => []WatchTypeOK
<1>1. WatchInv => WatchTypeOK
  BY DEF WatchInv
<1>. QED  BY InitInv, NextInv, <1>1, PTL DEF WatchSpec

\* When an object gets its turn, none that was on all along has waited since it
\* had its last one, for any number of objects and any switching.
THEOREM TurnsAreTaken == WatchSpec => RoundRobin
<1>1. ASSUME WatchInv, NEW i \in Index, daq_idx = i PROVE owed[i] = {}
  <2>1. i \in Nat
    BY DEF Index
  <2>2. Ahead(i) = {}
    BY <1>1, <2>1 DEF Ahead
  <2>. QED  BY <1>1, <2>2 DEF WatchInv, OwedAhead
<1>2. WatchInv /\ [WatchNext]_watchvars
        => [\A i \in Index : (daq_idx = i /\ Send /\ Ask(i)) => owed[i] = {}]_watchvars
  BY <1>1
<1>. QED  BY InitInv, NextInv, <1>2, PTL DEF WatchSpec, RoundRobin

-----------------------------------------------------------------------------
(* The log: its buffers, and what the CAN thread has still to put there.   *)

Sample == Range(Mapped) \X Data

\* What the CAN thread carries is fields of a TPDO, or the one answer that the
\* watch service has stored already.
Carried ==
  \/ can \in Seq(Sample)
  \/ \E o \in Floats : data[o] \in Data /\ can = << <<o, data[o]>> >>

LogTyped ==
  /\ data \in [Watched -> Data \cup {NoData}]
  /\ log \in [LogKey -> Seq(Data)] /\ snapshot \in [LogKey -> Seq(Data)]
  /\ room \in Capacity /\ capacity \in Capacity
  /\ running \in BOOLEAN /\ cut \in BOOLEAN /\ lowered \in BOOLEAN
  /\ Carried
  /\ \/ copying = NotCopying
     \/ copying \in [done : 0 .. Len(Keys) - 1, before : Seq(Data)] /\ running

\* No buffer is longer than its capacity, nor is a copy of one: while they are
\* made that is the services' room, and afterwards what the file is cut at, too.
Short(buffer) == Len(buffer) <= room

WithinRoom ==
  /\ \A k \in LogKey : Short(log[k])
  /\ Copying => Short(copying.before) /\ \A i \in 1 .. copying.done : Short(snapshot[Keys[i]])
  /\ (~running /\ ~lowered) => room <= capacity /\ \A k \in LogKey : Short(snapshot[k])
  /\ running => ~cut

\* The last sample is the value shown, or the value is on its way to the log.
Drawn ==
  \A o \in Floats \ Range(Mapped) :
    log[o] = << >> \/ data[o] = Last(log[o]) \/ can = << <<o, data[o]>> >>

LogInv == LogTyped /\ WithinRoom /\ Drawn /\ ExportIsWhole

\* A push leaves the sample last, and no more than the room allows.
LEMMA Pushed ==
  ASSUME NEW buffer \in Seq(Data), NEW sample \in Data, room \in Nat \ {0}, Short(buffer)
  PROVE  /\ Push(buffer, sample) \in Seq(Data) /\ Push(buffer, sample) # << >>
         /\ Short(Push(buffer, sample)) /\ Last(Push(buffer, sample)) = sample
<1>1. CASE Len(buffer) < room
  BY <1>1 DEF Push, Short, Last
<1>2. CASE ~(Len(buffer) < room)
  <2>1. buffer # << >> /\ Len(buffer) = room
    BY <1>2 DEF Short
  <2>2. Tail(buffer) \in Seq(Data) /\ Len(Tail(buffer)) = Len(buffer) - 1
    BY <2>1
  <2>3. PICK rest \in Seq(Data) : rest = Tail(buffer) /\ Len(rest) = room - 1
    BY <2>1, <2>2
  <2> QED
    BY <1>2, <2>3 DEF Push, Short, Last
<1> QED
  BY <1>1, <1>2

\* The program starts with empty buffers and the plot running.
LEMMA LogBegin == LogInit => LogInv
<1> SUFFICES ASSUME LogInit
             PROVE  LogInv
  OBVIOUS
<1>1. << >> \in Seq(Data) /\ << >> \in Seq(Sample) /\ Len(<< >>) = 0
  OBVIOUS
<1>2. room \in Nat
  BY LogAssumption DEF LogInit
<1>3. LogTyped
  BY <1>1 DEF LogInit, LogTyped, Carried, Idle, Empty
<1>4. WithinRoom
  BY <1>1, <1>2 DEF LogInit, WithinRoom, Empty, Short, Copying
<1>5. Drawn
  BY LogAssumption DEF LogInit, Drawn, Empty, LogKey
<1> QED
  BY <1>3, <1>4, <1>5 DEF LogInv, ExportIsWhole, LogInit

\* The CAN thread's steps: an answer is stored before its sample is, and the
\* sample is the last one when it comes.
LEMMA CanKeeps ==
  ASSUME LogInv, CanAnswer \/ CanTpdo \/ CanLog
  PROVE  LogInv'
<1>1. UNCHANGED <<room, capacity, running, snapshot, copying, cut, lowered>>
  BY DEF CanAnswer, CanTpdo, CanLog
<1>2. Floats \subseteq LogKey /\ Range(Mapped) \subseteq LogKey /\ room \in Nat \ {0}
  BY LogAssumption DEF LogKey, LogInv, LogTyped
<1>3. /\ data' \in [Watched -> Data \cup {NoData}] /\ log' \in [LogKey -> Seq(Data)]
      /\ Carried' /\ Drawn' /\ \A k \in LogKey : Short(log'[k])
  <2>1. CASE CanAnswer
    <3>1. PICK o \in Watched, value \in Data :
            /\ data' = [data EXCEPT ![o] = value]
            /\ can' = IF o \in Floats THEN << <<o, value>> >> ELSE Idle
      BY <2>1 DEF CanAnswer
    <3>2. can = Idle /\ log' = log
      BY <2>1 DEF CanAnswer
    <3>3. data' \in [Watched -> Data \cup {NoData}] /\ data'[o] = value
          /\ \A q \in Watched : q # o => data'[q] = data[q]
      BY <3>1 DEF LogInv, LogTyped
    <3>4. Carried'
      <4>1. << >> \in Seq(Sample)
        OBVIOUS
      <4> QED
        BY <3>1, <3>3, <4>1 DEF Carried, Idle
    <3>5. Drawn'
      <4> SUFFICES ASSUME NEW q \in Floats \ Range(Mapped)
                   PROVE  log[q] = << >> \/ data'[q] = Last(log[q]) \/ can' = << <<q, data'[q]>> >>
        BY <3>2 DEF Drawn
      <4>1. q \in Watched /\ (log[q] = << >> \/ data[q] = Last(log[q]))
        BY <3>2, LogAssumption DEF LogInv, Drawn, Idle
      <4> QED
        BY <3>1, <3>3, <4>1
    <3> QED
      BY <1>1, <3>2, <3>3, <3>4, <3>5 DEF LogInv, LogTyped, WithinRoom, Short
  <2>2. CASE CanTpdo
    <3>1. PICK values \in [DOMAIN Mapped -> Data] :
            can' = [i \in DOMAIN Mapped |-> <<Mapped[i], values[i]>>]
      BY <2>2 DEF CanTpdo
    <3>2. can = Idle /\ log' = log /\ data' = data
      BY <2>2 DEF CanTpdo
    <3>3. can' \in Seq(Sample)
      <4>1. Mapped \in Seq(Range(Mapped))
        BY LogAssumption
      <4> QED
        BY <3>1, <4>1 DEF Sample
    <3>4. Drawn'
      BY <3>2 DEF LogInv, Drawn, Idle
    <3> QED
      BY <1>1, <3>2, <3>3, <3>4 DEF LogInv, LogTyped, WithinRoom, Short, Carried
  <2>3. CASE CanLog
    <3>1. PICK k, v : k = Head(can)[1] /\ v = Head(can)[2]
      OBVIOUS
    <3>2. can # << >> /\ can' = Tail(can) /\ data' = data
          /\ log' = [log EXCEPT ![k] = Push(@, v)]
      BY <2>3, <3>1 DEF CanLog, Idle
    <3>3. k \in LogKey /\ v \in Data /\ Carried'
          /\ \/ k \in Range(Mapped) /\ can \in Seq(Sample)
             \/ k \in Floats /\ v = data[k] /\ can = << <<k, v>> >>
      <4>1. CASE can \in Seq(Sample)
        <5>1. Head(can) \in Sample /\ Tail(can) \in Seq(Sample)
          BY <3>2, <4>1
        <5> QED
          BY <1>2, <3>1, <3>2, <4>1, <5>1 DEF Sample, Carried
      <4>2. ASSUME NEW o \in Floats, data[o] \in Data, can = << <<o, data[o]>> >>
            PROVE  k = o /\ v = data[o] /\ can' = << >>
        BY <3>1, <3>2, <4>2
      <4>3. << >> \in Seq(Sample)
        OBVIOUS
      <4> QED
        BY <1>2, <4>1, <4>2, <4>3 DEF LogInv, LogTyped, Carried
    <3>4. /\ Push(log[k], v) \in Seq(Data) /\ Push(log[k], v) # << >>
          /\ Short(Push(log[k], v)) /\ Last(Push(log[k], v)) = v
      BY <1>2, <3>3, Pushed DEF LogInv, LogTyped, WithinRoom
    <3>5. log' \in [LogKey -> Seq(Data)] /\ log'[k] = Push(log[k], v)
          /\ \A q \in LogKey : q # k => log'[q] = log[q]
      BY <3>2, <3>3, <3>4 DEF LogInv, LogTyped
    <3>6. Drawn'
      <4> SUFFICES ASSUME NEW q \in Floats \ Range(Mapped)
                   PROVE  log'[q] = << >> \/ data[q] = Last(log'[q])
        BY <3>2 DEF Drawn
      <4>1. CASE q = k
        BY <3>3, <3>4, <3>5, <4>1
      <4>2. CASE q # k
        <5>1. log'[q] = log[q]
          BY <1>2, <3>5, <4>2
        <5>2. can # << <<q, data[q]>> >>
          BY <3>1, <4>2
        <5> QED
          BY <5>1, <5>2 DEF LogInv, Drawn
      <4> QED
        BY <4>1, <4>2
    <3> QED
      BY <1>1, <3>2, <3>3, <3>4, <3>5, <3>6 DEF LogInv, LogTyped, WithinRoom, Short
  <2> QED
    BY <2>1, <2>2, <2>3
<1>4. LogTyped'
  BY <1>1, <1>3 DEF LogInv, LogTyped
<1>5. WithinRoom'
  BY <1>1, <1>3 DEF LogInv, WithinRoom, Copying, Short
<1> QED
  BY <1>1, <1>3, <1>4, <1>5 DEF LogInv, ExportIsWhole

\* A copy is as long as the buffer was at its beginning or is at its end.
LEMMA CopyShort ==
  ASSUME NEW before \in Seq(Data), NEW now \in Seq(Data), Short(before), Short(now),
         NEW buffer \in Copies(before, now)
  PROVE  buffer \in Seq(Data) /\ Short(buffer)
<1>1. CASE before = now
  BY <1>1 DEF Copies
<1>2. CASE before # now
  <2>1. PICK n \in Nat : n \in {Len(before), Len(now)} /\ buffer \in [1 .. n -> Data]
    BY <1>2 DEF Copies
  <2> QED
    BY <2>1 DEF Short
<1> QED
  BY <1>1, <1>2

\* The UI thread's steps: a capacity that cuts a paused buffer short counts as
\* lowered, and a paused buffer is no longer than the room was.
LEMMA PlotKeeps ==
  ASSUME LogInv, UiSetCapacity \/ UiSetOthers \/ UiPause \/ UiCopy \/ UiResume \/ UiExport
  PROVE  LogInv'
<1>1. UNCHANGED <<data, can>>
  BY DEF UiSetCapacity, UiSetOthers, UiPause, UiCopy, UiResume, UiExport
<1>2. /\ Len(Keys) \in Nat \ {0} /\ DOMAIN Keys = 1 .. Len(Keys)
      /\ \A i \in 1 .. Len(Keys) : Keys[i] \in LogKey
      /\ \A k \in LogKey : \E i \in 1 .. Len(Keys) : Keys[i] = k
      /\ 1 \in 1 .. Len(Keys)
  <2>1. Keys \in Seq(LogKey) /\ Keys # << >>
    BY LogAssumption DEF LogKey
  <2>2. DOMAIN Keys = 1 .. Len(Keys) /\ Len(Keys) \in Nat \ {0}
    BY <2>1
  <2>3. LogKey = {Keys[i] : i \in DOMAIN Keys}
    BY DEF LogKey, Range
  <2> QED
    BY <2>2, <2>3
<1>3. room \in Nat /\ capacity \in Nat /\ Capacity \subseteq Nat \ {0}
      /\ (Floats \cup Range(Mapped)) \subseteq LogKey
  BY LogAssumption DEF LogKey, LogInv, LogTyped
<1>4. Carried'
  BY <1>1 DEF LogInv, LogTyped, Carried
<1>5. CASE UiSetCapacity \/ UiSetOthers
  <2>1. PICK c \in Capacity :
          /\ capacity' = c
          /\ lowered' = (lowered \/ (~running /\ c < room))
          /\ \/ room' = c /\ log' = IF c < room THEN Empty ELSE log
             \/ room' = room /\ log' = log
    BY <1>5 DEF UiSetCapacity, UiSetOthers
  <2>2. copying = NotCopying /\ UNCHANGED <<running, snapshot, copying, cut>>
    BY <1>5 DEF UiSetCapacity, UiSetOthers, Copying
  <2>3. log' \in [LogKey -> Seq(Data)] /\ \A k \in LogKey : Short(log[k])'
        /\ \A key \in LogKey : log'[key] = log[key] \/ log'[key] = << >>
    <3>1. << >> \in Seq(Data) /\ Len(<< >>) = 0
      OBVIOUS
    <3>2. CASE log' = Empty /\ room' \in Nat
      BY <3>1, <3>2 DEF Empty, Short
    <3>3. CASE log' = log /\ room' \in Nat /\ room <= room'
      <4> SUFFICES ASSUME NEW k \in LogKey
                   PROVE  Len(log[k]) <= room'
        BY <3>3 DEF LogInv, LogTyped, Short
      <4>1. Len(log[k]) \in Nat /\ Len(log[k]) <= room
        BY DEF LogInv, LogTyped, WithinRoom, Short
      <4> QED
        BY <1>3, <3>3, <4>1
    <3> QED
      BY <1>3, <2>1, <3>2, <3>3
  <2>4. LogTyped'
    BY <1>1, <1>4, <2>1, <2>2, <2>3 DEF LogInv, LogTyped
  <2>5. (~running /\ ~lowered') => room' <= capacity' /\ \A k \in LogKey : Len(snapshot[k]) <= room'
    <3> SUFFICES ASSUME ~running, ~lowered'
                 PROVE  room' <= capacity' /\ \A k \in LogKey : Len(snapshot[k]) <= room'
      OBVIOUS
    <3>0. ~(c < room) /\ ~lowered
      BY <2>1
    <3>1. ~lowered /\ room <= room' /\ room' <= capacity' /\ room' \in Nat
      <4>1. c \in Nat /\ room <= c /\ capacity' = c /\ (room' = c \/ room' = room)
        BY <1>3, <2>1, <3>0
      <4> QED
        BY <1>3, <3>0, <4>1
    <3>2. \A k \in LogKey : Len(snapshot[k]) \in Nat /\ Len(snapshot[k]) <= room
      BY <3>1 DEF LogInv, LogTyped, WithinRoom, Short
    <3> QED
      BY <1>3, <3>1, <3>2
  <2>6. WithinRoom'
    BY <2>2, <2>3, <2>5 DEF LogInv, WithinRoom, Copying, Short
  <2>7. Drawn'
    BY <1>1, <1>3, <2>3 DEF LogInv, Drawn
  <2> QED
    BY <2>1, <2>2, <2>4, <2>6, <2>7 DEF LogInv, ExportIsWhole
<1>6. CASE UiPause
  <2>1. /\ running /\ copying' = [done |-> 0, before |-> log[Keys[1]]]
        /\ UNCHANGED <<log, room, capacity, running, snapshot, cut, lowered>>
    BY <1>6 DEF UiPause
  <2>2. log[Keys[1]] \in Seq(Data) /\ Short(log[Keys[1]])
    BY <1>2 DEF LogInv, LogTyped, WithinRoom
  <2>3. copying' \in [done : 0 .. Len(Keys) - 1, before : Seq(Data)]
        /\ copying'.done = 0 /\ Short(copying'.before)
    BY <1>2, <2>1, <2>2
  <2>4. LogTyped'
    BY <1>1, <1>4, <2>1, <2>3 DEF LogInv, LogTyped
  <2>5. WithinRoom'
    BY <2>1, <2>3 DEF LogInv, WithinRoom, Short
  <2> QED
    BY <1>1, <2>1, <2>4, <2>5 DEF LogInv, ExportIsWhole, Drawn
<1>7. CASE UiCopy
  <2>1. PICK key, done : key = Keys[copying.done + 1] /\ done = copying.done + 1
    OBVIOUS
  <2>2. PICK buffer \in Copies(copying.before, log[key]) : snapshot' = [snapshot EXCEPT ![key] = buffer]
    BY <1>7, <2>1 DEF UiCopy
  <2>3. /\ copying' = IF done = Len(Keys) THEN NotCopying
                      ELSE [done |-> done, before |-> log[Keys[done + 1]]]
        /\ done = Len(Keys) => running' = FALSE /\ (lowered' <=> capacity < room)
        /\ done # Len(Keys) => running' = TRUE /\ lowered' = FALSE
        /\ UNCHANGED <<log, room, capacity, cut>>
    <3>1. CASE done = Len(Keys)
      <4>1. copying.done + 1 = Len(Keys)
        BY <2>1, <3>1
      <4>2. lowered' <=> capacity < room
        BY <1>7, <4>1 DEF UiCopy
      <4>3. copying' = NotCopying /\ running' = FALSE /\ UNCHANGED <<log, room, capacity, cut>>
        BY <1>7, <4>1 DEF UiCopy
      <4> QED
        BY <3>1, <4>2, <4>3
    <3>2. CASE done # Len(Keys)
      <4>1. copying.done + 1 # Len(Keys)
        BY <2>1, <3>2
      <4> QED
        BY <1>7, <2>1, <3>2, <4>1 DEF UiCopy
    <3> QED
      BY <3>1, <3>2
  <2>4. Copying /\ copying.done \in 0 .. Len(Keys) - 1 /\ copying.before \in Seq(Data) /\ running
    BY <1>7 DEF UiCopy, Copying, LogInv, LogTyped
  <2>5. key \in LogKey /\ done \in 1 .. Len(Keys)
    BY <1>2, <2>1, <2>4
  <2>6. buffer \in Seq(Data) /\ Short(buffer)
    BY <2>2, <2>4, <2>5, CopyShort DEF LogInv, LogTyped, WithinRoom
  <2>7. /\ snapshot' \in [LogKey -> Seq(Data)] /\ snapshot'[key] = buffer
        /\ \A k \in LogKey : k # key => snapshot'[k] = snapshot[k]
    BY <2>2, <2>5, <2>6 DEF LogInv, LogTyped
  <2>8. \A i \in 1 .. done : Short(snapshot'[Keys[i]])
    <3> SUFFICES ASSUME NEW i \in 1 .. done
                 PROVE  Short(snapshot'[Keys[i]])
      OBVIOUS
    <3>1. CASE Keys[i] = key
      BY <2>6, <2>7, <3>1
    <3>2. CASE Keys[i] # key
      <4>1. i \in 1 .. copying.done /\ Keys[i] \in LogKey
        BY <1>2, <2>1, <2>4, <2>5, <3>2
      <4> QED
        BY <2>4, <2>7, <3>2, <4>1 DEF LogInv, WithinRoom
    <3> QED
      BY <3>1, <3>2
  <2>9. ~cut /\ cut' = cut
    BY <2>3, <2>4 DEF LogInv, WithinRoom
  <2>10. CASE done = Len(Keys)
    <3>1. copying' = NotCopying /\ running' = FALSE /\ (lowered' <=> capacity < room)
      BY <2>3, <2>10
    <3>2. \A k \in LogKey : Short(snapshot'[k])
      BY <1>2, <2>8, <2>10
    <3>3. LogTyped'
      <4>1. lowered' \in BOOLEAN
        BY <1>7 DEF UiCopy
      <4> QED
        BY <1>1, <1>4, <2>3, <2>7, <2>9, <3>1, <4>1 DEF LogInv, LogTyped
    <3>4. WithinRoom'
      <4>1. ~lowered' => room <= capacity
        <5>1. lowered' \/ ~(capacity < room)
          BY <3>1
        <5> QED
          BY <1>3, <5>1
      <4> QED
        BY <2>3, <3>1, <3>2, <4>1 DEF LogInv, WithinRoom, Short, Copying
    <3> QED
      BY <1>1, <2>3, <2>9, <3>3, <3>4 DEF LogInv, Drawn, ExportIsWhole
  <2>11. CASE done # Len(Keys)
    <3>1. done + 1 \in 1 .. Len(Keys) /\ done \in 0 .. Len(Keys) - 1
      <4>1. Len(Keys) \in Nat
        BY <1>2
      <4> QED
        BY <2>5, <2>11, <4>1
    <3>2. log[Keys[done + 1]] \in Seq(Data) /\ Short(log[Keys[done + 1]])
      BY <1>2, <3>1 DEF LogInv, LogTyped, WithinRoom
    <3>3. /\ copying' = [done |-> done, before |-> log[Keys[done + 1]]]
          /\ running' = TRUE /\ lowered' = FALSE
      BY <2>3, <2>11
    <3>4. copying' \in [done : 0 .. Len(Keys) - 1, before : Seq(Data)]
          /\ copying'.done = done /\ Short(copying'.before)
      BY <3>1, <3>2, <3>3
    <3>5. LogTyped'
      BY <1>1, <1>4, <2>3, <2>7, <2>9, <3>3, <3>4 DEF LogInv, LogTyped
    <3>6. WithinRoom'
      BY <2>3, <2>8, <2>9, <3>3, <3>4 DEF LogInv, WithinRoom, Short
    <3> QED
      BY <1>1, <2>3, <2>9, <3>5, <3>6 DEF LogInv, Drawn, ExportIsWhole
  <2> QED
    BY <2>10, <2>11
<1>8. CASE UiResume
  <2>1. /\ ~running /\ running' = TRUE /\ cut' = FALSE /\ lowered' = FALSE
        /\ UNCHANGED <<log, room, capacity, snapshot, copying>>
    BY <1>8 DEF UiResume
  <2>2. LogTyped'
    BY <1>1, <1>4, <2>1 DEF LogInv, LogTyped
  <2>3. WithinRoom'
    BY <2>1 DEF LogInv, WithinRoom, Short, Copying
  <2> QED
    BY <1>1, <2>1, <2>2, <2>3 DEF LogInv, Drawn, ExportIsWhole
<1>9. CASE UiExport
  <2>1. /\ ~running /\ cut' = \E k \in LogKey : Exported(snapshot[k]) # snapshot[k]
        /\ UNCHANGED <<log, room, capacity, running, snapshot, copying, lowered>>
    BY <1>9 DEF UiExport
  <2>2. cut' \in BOOLEAN
    BY <2>1
  <2>3. ~lowered => ~cut'
    <3> SUFFICES ASSUME ~lowered, NEW k \in LogKey
                 PROVE  Exported(snapshot[k]) = snapshot[k]
      BY <2>1
    <3>1. PICK paused \in Seq(Data) : paused = snapshot[k]
      BY DEF LogInv, LogTyped
    <3>2. Len(paused) <= capacity
      BY <1>3, <2>1, <3>1 DEF LogInv, WithinRoom, Short
    <3>3. Exported(paused) = SubSeq(paused, 1, Len(paused))
      BY <1>3, <3>2 DEF Exported
    <3> QED
      BY <3>1, <3>3
  <2>4. LogTyped'
    BY <1>1, <1>4, <2>1, <2>2 DEF LogInv, LogTyped
  <2>5. WithinRoom'
    BY <2>1 DEF LogInv, WithinRoom, Short, Copying
  <2> QED
    BY <1>1, <2>1, <2>3, <2>4, <2>5 DEF LogInv, Drawn, ExportIsWhole
<1> QED
  BY <1>5, <1>6, <1>7, <1>8, <1>9

\* No buffer outgrows its room, what is shown is the end of its buffer or on its way
\* there, and a cut file is one of a lowered capacity, in every run.
LEMMA LogInvariance == LogSpec => []LogInv
<1>1. ASSUME LogInv, UNCHANGED logvars
      PROVE  LogInv'
  BY <1>1 DEF logvars, LogInv, LogTyped, Carried, WithinRoom, Drawn, ExportIsWhole, Short, Copying
<1> QED
  BY LogBegin, CanKeeps, PlotKeeps, <1>1, PTL DEF LogSpec, LogNext

\* The value the watch panel shows is the last one its plot draws, for any
\* objects and any capacity, unless a TPDO has a field of that name or the
\* buffer has been cleared since.
THEOREM ShownIsDrawnAlways == LogSpec => []ShownIsDrawn
<1>1. ASSUME LogInv
      PROVE  ShownIsDrawn
  <2> SUFFICES ASSUME can = Idle, NEW o \in Floats \ Range(Mapped), log[o] # << >>
               PROVE  data[o] = Last(log[o])
    BY DEF ShownIsDrawn
  <2>1. can # << <<o, data[o]>> >>
    BY DEF Idle
  <2> QED
    BY <1>1, <2>1 DEF LogInv, Drawn
<1> QED
  BY <1>1, LogInvariance, PTL

\* A file written from the paused plot lacks no sample, however the buffers
\* changed while they were copied, unless a capacity was lowered meanwhile.
THEOREM ExportIsWholeAlways == LogSpec => []ExportIsWhole
<1>1. LogInv => ExportIsWhole
  BY DEF LogInv
<1> QED
  BY <1>1, LogInvariance, PTL
=============================================================================

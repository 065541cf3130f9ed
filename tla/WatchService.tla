----------------------------- MODULE WatchService -----------------------------
(***************************************************************************)
(* ServerWatchService::send and the switches it goes by: one cursor goes   *)
(* round the watch objects of a server, and once a period has passed it    *)
(* asks for the object it stands at, if that one is on, or moves on in the *)
(* next turn of the CAN thread's loop, if it is off.                       *)
(*                                                                         *)
(* send holds the lock of the objects from first to last line, so it is    *)
(* one step; the panel's box for all objects takes the lock for each.      *)
(***************************************************************************)
EXTENDS Integers

CONSTANTS
  N,          \* how many watch objects the dictionary has; without one send does nothing
  Period,     \* the periods the operator may choose
  MaxPeriod   \* the longest one: 10 s

ASSUME WatchAssumption ==
  /\ N \in Nat \ {0}
  /\ MaxPeriod \in Nat \ {0}
  /\ Period \subseteq 1 .. MaxPeriod

Index == 0 .. N - 1

VARIABLES
  service_enabled,  \* _enabled
  period,           \* _period
  elapsed,          \* now - _daq_timepoint, as far as periods tell it apart
  daq,              \* the indices with _object_daq_enabled
  daq_idx,          \* _daq_idx
  all,              \* _all_acq_enabled: 1, 0, or -1 for some
  clicking,         \* the rest of a click on the box for all: the index that is next, or N
  owed              \* history: for each index, those on ever since it was asked for, not asked for since

watchvars == <<service_enabled, period, elapsed, daq, daq_idx, all, clicking, owed>>

WatchInit ==
  /\ service_enabled = TRUE
  /\ period \in Period
  /\ elapsed = 0
  /\ daq = Index
  /\ daq_idx = 0
  /\ all = 1
  /\ clicking = N
  /\ owed = [i \in Index |-> {}]

Due == service_enabled /\ elapsed >= period

After(i) == (i + 1) % N

\* Mutant: the cursor stays at an object until it is on.
MoveOnIfAsked(i) == daq_idx' = IF i \in daq THEN After(i) ELSE i

\* Mutant: the cursor goes round one object short.
MoveOnShort(i) == daq_idx' = (i + 1) % (N - 1)

MoveOn(i) == daq_idx' = After(i)

\* The object is on and is asked for.
Ask(i) ==
  /\ i \in daq
  /\ elapsed' = 0
  /\ owed' = [k \in Index |-> IF k = i THEN daq \ {i} ELSE owed[k] \ {i}]

Send ==
  /\ Due
  /\ Ask(daq_idx) \/ (daq_idx \notin daq /\ UNCHANGED <<elapsed, owed>>)
  /\ MoveOn(daq_idx)
  /\ UNCHANGED <<service_enabled, period, daq, all, clicking>>

\* Time passes.
Elapse ==
  /\ elapsed < MaxPeriod
  /\ elapsed' = elapsed + 1
  /\ UNCHANGED <<service_enabled, period, daq, daq_idx, all, clicking, owed>>

\* toggle_daq.
Toggle(i, value) ==
  /\ daq' = IF value THEN daq \cup {i} ELSE daq \ {i}
  /\ owed' = IF value THEN owed ELSE [k \in Index |-> owed[k] \ {i}]

\* A box of the watch panel.
UiToggle ==
  /\ clicking = N
  /\ \E i \in Index : Toggle(i, i \notin daq)
  /\ all' = -1
  /\ UNCHANGED <<service_enabled, period, elapsed, daq_idx, clicking>>

\* The box for all: it shows the new state at once, the objects follow.
UiClickAll ==
  /\ clicking = N
  /\ all' = IF all = 1 THEN 0 ELSE 1
  /\ clicking' = 0
  /\ UNCHANGED <<service_enabled, period, elapsed, daq, daq_idx, owed>>

UiToggleNext ==
  /\ clicking < N
  /\ Toggle(clicking, all = 1)
  /\ clicking' = clicking + 1
  /\ UNCHANGED <<service_enabled, period, elapsed, daq_idx, all>>

\* The options window.
UiOptions ==
  /\ clicking = N
  /\ \/ service_enabled' = ~service_enabled /\ UNCHANGED period
     \/ period' \in Period /\ UNCHANGED service_enabled
  /\ UNCHANGED <<elapsed, daq, daq_idx, all, clicking, owed>>

WatchNext == Send \/ Elapse \/ UiToggle \/ UiClickAll \/ UiToggleNext \/ UiOptions

\* The CAN thread calls send on every turn, and the clock goes on.
WatchFairness == WF_watchvars(Send) /\ WF_watchvars(Elapse)

WatchSpec == WatchInit /\ [][WatchNext]_watchvars /\ WatchFairness
-----------------------------------------------------------------------------
WatchTypeOK ==
  /\ service_enabled \in BOOLEAN
  /\ period \in Period
  /\ elapsed \in 0 .. MaxPeriod
  /\ daq \subseteq Index
  /\ daq_idx \in Index
  /\ all \in {-1, 0, 1}
  /\ clicking \in 0 .. N
  /\ owed \in [Index -> SUBSET daq]

\* No object is asked for a second time while one that was on all along waits
\* for its turn, whatever is switched on and off meanwhile.
RoundRobin == [][ \A i \in Index : (daq_idx = i /\ Send /\ Ask(i)) => owed[i] = {} ]_watchvars

\* An object that is on and stays on is asked for again and again, whichever
\* others are off.
EveryObjectIsAsked ==
  \A i \in Index :
    <>[](i \in daq /\ service_enabled) => []<><<daq_idx = i /\ Ask(i)>>_watchvars
=============================================================================

------------------------------ MODULE MCWatchLog ------------------------------
(***************************************************************************)
(* WatchService with three objects, and LogService with two, one of which  *)
(* a TPDO has a field of the same name for.  They meet in the answers      *)
(* alone, which LogService takes at any time; so a behaviour here is one   *)
(* of either, as the first state decides.                                  *)
(***************************************************************************)
EXTENDS WatchService, LogService

CONSTANTS vDC, speed, low, high

MCFloats == {vDC, speed}
MCMapped == <<vDC>>
MCKeys == <<vDC, speed>>
MCData == {low, high}

VARIABLE asking

Init == WatchInit /\ LogInit /\ asking \in BOOLEAN

WatchSteps == asking /\ WatchNext /\ UNCHANGED <<logvars, asking>>
LogSteps == ~asking /\ LogNext /\ UNCHANGED <<watchvars, asking>>

Spec ==
  /\ Init
  /\ [][WatchSteps \/ LogSteps]_<<watchvars, logvars, asking>>
  /\ asking => WatchFairness

\* The cursor comes round to every object that is on and stays on, in the
\* behaviours in which the watch service takes its steps.
AskedAgainAndAgain == asking => EveryObjectIsAsked
=============================================================================

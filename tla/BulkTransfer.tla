---------------------------- MODULE BulkTransfer ----------------------------
(***************************************************************************)
(* What a bulk parameter transfer promises the operator, whatever the way  *)
(* the requests travel: the parameters of the list are settled one by one  *)
(* from the first to the last; a verdict, once given, stands until the     *)
(* next transfer; the transfer ends by working the list off, by being      *)
(* stopped, or by giving a silent server up, and then no parameter is left *)
(* without a verdict.  Derived from the interface of ServerConfigService   *)
(* (start, cancel, progress, outcome, steps).                              *)
(***************************************************************************)
EXTENDS Integers, Sequences

CONSTANTS MaxUnanswered  \* parameters in a row without an answer before giving up

VARIABLES results,  \* the verdict on each parameter, "pending" until settled
          silent,   \* parameters since the last answer that timed out
          ended     \* how the last transfer ended, "none" while one runs

btvars == <<results, silent, ended>>

Verdicts == {"done", "refused", "timed_out"}

Running == \E i \in DOMAIN results : results[i] = "pending"

\* The first parameter without a verdict: the only one that may get one.
IsCurrent(i) ==
  /\ i \in DOMAIN results
  /\ results[i] = "pending"
  /\ \A j \in 1 .. (i - 1) : results[j] # "pending"

WithoutPending(r) ==
  [i \in DOMAIN r |-> IF r[i] = "pending" THEN "cancelled" ELSE r[i]]

Init ==
  /\ results = << >>
  /\ silent = 0
  /\ ended = "none"

Begin ==
  /\ ~Running
  /\ results' \in Seq({"pending"})
  /\ silent' = 0
  /\ ended' = IF results' = << >> THEN "completed" ELSE "none"

Settle(i, verdict) ==
  /\ IsCurrent(i)
  /\ results' = [results EXCEPT ![i] = verdict]
  /\ \/ verdict = "done" /\ silent' = 0
     \/ verdict = "refused" /\ silent' \in {0, silent}
     \/ verdict = "timed_out" /\ silent' = silent + 1 /\ silent' # MaxUnanswered
  /\ ended' = IF i = Len(results) THEN "completed" ELSE ended

GiveUp(i) ==
  /\ IsCurrent(i)
  /\ silent' = silent + 1
  /\ silent' = MaxUnanswered
  /\ results' = WithoutPending([results EXCEPT ![i] = "timed_out"])
  /\ ended' = "no_response"

Stop ==
  /\ Running
  /\ results' = WithoutPending(results)
  /\ ended' = "cancelled"
  /\ UNCHANGED silent

Step == \E i \in DOMAIN results :
          GiveUp(i) \/ \E verdict \in Verdicts : Settle(i, verdict)

Next == Begin \/ Step \/ Stop

SafeSpec == Init /\ [][Next]_btvars

\* A transfer under way is carried on as long as nobody stops it.
Spec == SafeSpec /\ WF_btvars(Step \/ Stop)
=============================================================================

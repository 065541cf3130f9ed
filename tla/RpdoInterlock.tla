---------------------------- MODULE RpdoInterlock ----------------------------
(***************************************************************************)
(* ServerRpdoService of a node that another master on the bus commands as  *)
(* well: PDU and CHSS of the h2-hess set, whose master is CSHPP.  While    *)
(* CSHPP's heartbeat is good the interlocked RPDOs are switched off.       *)
(*                                                                         *)
(* The CAN thread calls send once per turn of its loop and handles CSHPP's *)
(* heartbeats after it.  The UI thread switches single RPDOs (the control  *)
(* panel) and all of them (the options window).  Time is abstracted to     *)
(* what is compared with it: whether a period has passed since a message   *)
(* was sent, and whether the heartbeat's timeout has.                      *)
(***************************************************************************)
EXTENDS Naturals, FiniteSets

CONSTANTS
  Rpdo,          \* the registered RPDOs
  Interlocked    \* those with an interlock (set_interlock)

ASSUME RpdoAssumption == Interlocked \subseteq Rpdo

VARIABLES
  service_enabled, \* _is_enabled: the service as a whole
  enabled,         \* the RPDOs whose is_enabled is set
  due,             \* the RPDOs whose period has passed
  operational,     \* the master's _nmt_state is operational
  fresh,           \* the master's heartbeat is not older than its timeout
  turned,          \* send has run since the master's last heartbeat
  yielded,         \* history: interlocked RPDOs not switched on since the master was heard
  missed,          \* history: the service was off between hearing the master and the next send
  sent             \* what the last step put on the bus

rpdovars ==
  <<service_enabled, enabled, due, operational, fresh, turned, yielded, missed, sent>>

\* heartbeat_service.good() of the master.
Heard == fresh /\ operational

Engaged(rpdo) == rpdo \in Interlocked /\ Heard

\* The constructor of the node's server switches the interlocked RPDOs off.
RpdoInit ==
  /\ service_enabled = TRUE
  /\ enabled = Rpdo \ Interlocked
  /\ due = {}
  /\ operational = FALSE
  /\ fresh = TRUE
  /\ turned = FALSE
  /\ yielded = {}
  /\ missed = FALSE
  /\ sent = {}

-----------------------------------------------------------------------------
\* Mutant: an interlocked RPDO holds up the others instead of being switched off.
SendBreaksOff ==
  /\ turned' = TRUE
  /\ IF service_enabled /\ \A rpdo \in enabled : ~Engaged(rpdo)
     THEN /\ UNCHANGED enabled
          /\ sent' = enabled \cap due
          /\ due' = due \ sent'
     ELSE /\ sent' = {}
          /\ UNCHANGED <<enabled, due>>
  /\ UNCHANGED <<service_enabled, operational, fresh, yielded, missed>>

\* Mutant: the RPDO is passed over while the master is heard, but not
\* switched off.
SendOnlySkips ==
  /\ turned' = TRUE
  /\ IF service_enabled
     THEN /\ UNCHANGED enabled
          /\ sent' = {rpdo \in enabled \cap due : ~Engaged(rpdo)}
          /\ due' = due \ sent'
     ELSE /\ sent' = {}
          /\ UNCHANGED <<enabled, due>>
  /\ UNCHANGED <<service_enabled, operational, fresh, yielded, missed>>

\* send: under _mtx, but for the look at _is_enabled.
Send ==
  /\ turned' = TRUE
  /\ IF service_enabled
     THEN /\ enabled' = {rpdo \in enabled : ~Engaged(rpdo)}
          /\ sent' = enabled' \cap due
          /\ due' = due \ sent'
     ELSE /\ sent' = {}
          /\ UNCHANGED <<enabled, due>>
  /\ UNCHANGED <<service_enabled, operational, fresh, yielded, missed>>

\* ServerHeartbeatService::handle_frame of the master.  Its heartbeats are
\* far enough apart that a turn of the loop lies between any two of them.
Heartbeat(state) ==
  /\ turned
  /\ operational' = state
  /\ fresh' = TRUE
  /\ turned' = FALSE
  /\ sent' = {}
  /\ yielded' = IF Heard' THEN Interlocked ELSE yielded
  /\ missed' = IF Heard' THEN ~service_enabled ELSE missed
  /\ UNCHANGED <<service_enabled, enabled, due>>

\* The timeout passes since the last heartbeat; a turn of the loop is shorter.
HeartbeatExpires ==
  /\ fresh
  /\ turned
  /\ fresh' = FALSE
  /\ sent' = {}
  /\ UNCHANGED <<service_enabled, enabled, due, operational, turned, yielded, missed>>

PeriodPasses(rpdo) ==
  /\ rpdo \notin due
  /\ due' = due \cup {rpdo}
  /\ sent' = {}
  /\ UNCHANGED <<service_enabled, enabled, operational, fresh, turned, yielded, missed>>

\* enable(rpdo): refused while the interlock holds.
Enable(rpdo) ==
  /\ enabled' = IF Engaged(rpdo) THEN enabled ELSE enabled \cup {rpdo}
  /\ yielded' = IF Engaged(rpdo) THEN yielded ELSE yielded \ {rpdo}
  /\ sent' = {}
  /\ UNCHANGED <<service_enabled, due, operational, fresh, turned, missed>>

Disable(rpdo) ==
  /\ enabled' = enabled \ {rpdo}
  /\ sent' = {}
  /\ UNCHANGED <<service_enabled, due, operational, fresh, turned, yielded, missed>>

\* enable() and disable(): a checkbox of the options window.
SwitchAll ==
  /\ service_enabled' = ~service_enabled
  /\ missed' = (missed \/ (Heard /\ ~turned))
  /\ sent' = {}
  /\ UNCHANGED <<enabled, due, operational, fresh, turned, yielded>>

RpdoNext ==
  \/ Send
  \/ \E state \in BOOLEAN : Heartbeat(state)
  \/ HeartbeatExpires
  \/ \E rpdo \in Rpdo : PeriodPasses(rpdo) \/ Enable(rpdo) \/ Disable(rpdo)
  \/ SwitchAll

RpdoSafeSpec == RpdoInit /\ [][RpdoNext]_rpdovars

\* The CAN thread calls send on every turn of its loop.
RpdoFairness == WF_rpdovars(Send)

RpdoSpec == RpdoSafeSpec /\ RpdoFairness
-----------------------------------------------------------------------------
RpdoTypeOK ==
  /\ service_enabled \in BOOLEAN
  /\ enabled \subseteq Rpdo
  /\ due \subseteq Rpdo
  /\ operational \in BOOLEAN
  /\ fresh \in BOOLEAN
  /\ turned \in BOOLEAN
  /\ yielded \subseteq Interlocked
  /\ missed \in BOOLEAN
  /\ sent \subseteq enabled
  /\ sent \cap due = {}

\* "It stays off once the master is gone": from the moment the master is
\* heard an interlocked RPDO is not sent until the operator switches it on
\* anew, whatever the master does meanwhile.
CommandsStayOff == sent \cap yielded = {}

\* send looks at the interlock only while the service is on as a whole: what it
\* does see, it keeps off, however the operator uses the switches afterwards.
StaysOffOnceSeen == ~missed => CommandsStayOff

\* "While interlock() holds, the RPDO is switched off": an RPDO that is on
\* when the master shows up does not stay on for as long as the master stays.
YieldsToTheMaster ==
  \A rpdo \in Interlocked :
    (service_enabled /\ Heard /\ rpdo \in enabled)
      ~> (~service_enabled \/ ~Heard \/ rpdo \notin enabled)

\* The node declares the link to its master lost when commands come too
\* rarely: one that is due goes out, unless it is switched off.
CommandsFlow ==
  \A rpdo \in Rpdo :
    (service_enabled /\ rpdo \in enabled /\ rpdo \in due)
      ~> (~service_enabled \/ rpdo \in sent \/ rpdo \notin enabled)
=============================================================================

------------------------------ MODULE MCPanels ------------------------------
(***************************************************************************)
(* The RPDO service, as MCRpdoInterlock sets it up, the panels of the      *)
(* devices over their RPDOs, and BRKDRIVE's test programs.  The panels'    *)
(* steps are finer than the service's, whose questions are about its       *)
(* switches and the master alone, and the programs' are whole frames; so a *)
(* behaviour here is one of the three, as the first state decides.         *)
(***************************************************************************)
EXTENDS MCRpdoInterlock, CommandPanels, TestProgram

CONSTANTS slow, short, fast

MCFile == {slow, short, fast}
MCFor == [file \in MCFile |-> IF file = fast THEN "speed" ELSE "torque"]

\* Two rows for torque; one for torque that is over at once; one for speed.
MCDurations ==
  [file \in MCFile |-> IF file = slow THEN <<1, 1>> ELSE IF file = short THEN <<0>> ELSE <<1>>]

VARIABLE part

\* The parts that take no steps begin in one way only.
PanelsInit ==
  /\ RpdoInit
  /\ CommandInit
  /\ ProgramInit
  /\ part \in {"service", "panels", "program"}
  /\ part # "panels" => device = "cshpp"

ServiceSteps == part = "service" /\ RpdoNext /\ UNCHANGED <<cmdvars, programvars, part>>
PanelSteps == part = "panels" /\ CommandNext /\ UNCHANGED <<rpdovars, programvars, part>>
ProgramSteps == part = "program" /\ ProgramNext /\ UNCHANGED <<rpdovars, cmdvars, part>>

PanelsSpec ==
  /\ PanelsInit
  /\ [][ServiceSteps \/ PanelSteps \/ ProgramSteps]_<<rpdovars, cmdvars, programvars, part>>
  /\ part = "service" => RpdoFairness
=============================================================================

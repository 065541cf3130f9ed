----------------------------- MODULE MCSetupPanel -----------------------------
(***************************************************************************)
(* SetupPanel with a parameter, the node's id and restart_required, and    *)
(* SettingsFile.  The panel's model takes a file by the values that are    *)
(* read from it, so the two meet in those alone: a behaviour here is one   *)
(* of either, as the first state decides.                                  *)
(***************************************************************************)
EXTENDS SetupPanel, MCSettingsFile

CONSTANTS gain, node_id, restart, low, high

MCEntry == {gain, node_id, restart}
MCWritable == {gain, node_id}
MCData == {low, high}
MCListed == <<gain, node_id, restart>>
MCManual == {node_id}
MCSame == {<<v, v>> : v \in MCData}
MCFiles ==
  { [e \in {gain, node_id} |-> high], [e \in {restart} |-> low] }

ReadOf(e) == [entry |-> e, write_value |-> NoData]
WriteOf(e, v) == [entry |-> e, write_value |-> v]

\* Every list the panel can build from these files.
Checked(e) == <<WriteOf(e, high), ReadOf(e)>>
MCPlans ==
  { <<ReadOf(gain), ReadOf(node_id), ReadOf(restart)>>,
    <<ReadOf(gain), ReadOf(node_id)>>,
    Checked(gain) \o <<ReadOf(restart)>>,
    Checked(node_id) \o <<ReadOf(restart)>>,
    Checked(gain) \o Checked(node_id) \o <<ReadOf(restart)>> }

\* What SettingsFileProofs asks of the names; those of the other run are not so.
ASSUME NamesAreGood == NamesReadBack

VARIABLE filing

SettingsInit == SetupInit /\ FileInit /\ filing \in BOOLEAN

PanelSteps == ~filing /\ SetupNext /\ UNCHANGED <<filevars, filing>>
FileSteps == filing /\ FileNext /\ UNCHANGED <<setupvars, filing>>

\* Without its steps the panel is in no transfer, and nothing is due.
SettingsSpec ==
  SettingsInit /\ [][PanelSteps \/ FileSteps]_<<setupvars, filevars, filing>> /\ SetupFairness
=============================================================================

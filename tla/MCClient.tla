------------------------------- MODULE MCClient -------------------------------
(***************************************************************************)
(* The client's routes with two servers and room for one to move, and its  *)
(* socket with three descriptors: a socket may be replaced without being   *)
(* closed, and a closed one's descriptor be given to another file.  The    *)
(* routes are looked into whatever the socket does; so a behaviour here is *)
(* one of either, as the first state decides.                              *)
(***************************************************************************)
EXTENDS ClientRouting, CanSocket

CONSTANTS d1, d2, d3

Descriptors == {d1, d2, d3}
MCNodeId == 1 .. 4

VARIABLE routing

\* The part that takes no steps begins in one way only.
ClientInit ==
  /\ RoutingInit
  /\ SocketInit
  /\ routing \in BOOLEAN
  /\ IF routing THEN socket = none
     ELSE client_id = 1 /\ node_id = [server \in Server |-> 2]

RoutingSteps == routing /\ RoutingNext /\ UNCHANGED <<socketvars, routing>>
SocketSteps == ~routing /\ SocketNext /\ UNCHANGED <<routingvars, routing>>

ClientSpec ==
  /\ ClientInit
  /\ [][RoutingSteps \/ SocketSteps]_<<routingvars, socketvars, routing>>
  /\ ~routing => SocketFairness
=============================================================================

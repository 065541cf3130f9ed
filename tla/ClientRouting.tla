---------------------------- MODULE ClientRouting ----------------------------
(***************************************************************************)
(* Client's servers and the routes of received frames to them: the ids of  *)
(* the frames a server listens to are keys of _rxid_to_server, and each of *)
(* the server's services compares the frame with the id it noted itself.   *)
(*                                                                         *)
(* main registers the servers while the CAN thread runs already, and the   *)
(* options window gives a server, or the client, another node id.  Nothing *)
(* is locked: a look into the map while the UI thread rewrites it has no   *)
(* defined outcome, so it may find any server, or end the program (a       *)
(* behaviour that stops).                                                  *)
(***************************************************************************)
EXTENDS Naturals, Sequences

CONSTANTS
  Server,  \* the servers main constructs
  NodeId   \* the node ids in use, valid ones (NodeId::valid)

ASSUME RoutingAssumption == NodeId \subseteq 1 .. 127

VARIABLES
  started,     \* main is past the registrations and runs its loop
  servers,     \* _servers
  node_id,     \* each server's _node_id
  client_id,   \* the client's _node_id
  routes,      \* _rxid_to_server, as pairs of a frame id and a server
  listening,   \* the node id each service of a server computed its id from
  ui,          \* where the UI thread stands
  can,         \* where the CAN thread stands
  accepted     \* the frame a service took in the last step

routingvars == <<started, servers, node_id, client_id, routes, listening, ui, can, accepted>>

\* cob_function_codes of the frames a server is sent.
Code == [tpdo1 |-> 384, tpdo2 |-> 640, tpdo3 |-> 896, tpdo4 |-> 1152,
         tsdo |-> 1408, heartbeat |-> 1792]

\* The same in the order _register_rx_messages inserts them.
RxCobs == <<"tpdo1", "tpdo2", "tpdo3", "tpdo4", "tsdo", "heartbeat">>
Rx == {RxCobs[i] : i \in 1 .. 6}

\* calculate_cob_id
CobId(cob, id) == Code[cob] + id

\* The services in the order _set_node_id updates them, and the one that
\* takes a kind of frame.
Services == <<"heartbeat", "tpdo", "rpdo", "sdo">>
Service == {"heartbeat", "tpdo", "rpdo", "sdo"}
Taker(cob) ==
  CASE cob = "heartbeat" -> "heartbeat" [] cob = "tsdo" -> "sdo" [] OTHER -> "tpdo"

IdleUi == [at |-> "idle"]
IdleCan == [at |-> "idle"]
NoFrame == [cob |-> "none"]

RoutesOf(server, id) == {<<CobId(cob, id), server>> : cob \in Rx}

RoutingInit ==
  /\ started = FALSE
  /\ servers = {}
  /\ node_id \in [Server -> NodeId]
  /\ client_id \in NodeId
  /\ routes = {}
  /\ listening = [server \in Server |-> [service \in Service |-> node_id[server]]]
  /\ ui = IdleUi
  /\ can = IdleCan
  /\ accepted = NoFrame

\* Mutant: the client's own id counts as free.
FreeOfServers(id) == \A server \in servers : node_id[server] # id

IsFree(id) == id # client_id /\ \A server \in servers : node_id[server] # id

-----------------------------------------------------------------------------
(* The UI thread.                                                          *)

\* register_server: refuses an occupied name or id.
UiRegister(server) ==
  /\ ui = IdleUi
  /\ ~started
  /\ server \notin servers
  /\ IsFree(node_id[server])
  /\ servers' = servers \cup {server}
  /\ ui' = [at |-> "register", server |-> server, old |-> node_id[server], next |-> 1]
  /\ accepted' = NoFrame
  /\ UNCHANGED <<started, node_id, client_id, routes, listening, can>>

UiStart ==
  /\ ui = IdleUi
  /\ ~started
  /\ started' = TRUE
  /\ accepted' = NoFrame
  /\ UNCHANGED <<servers, node_id, client_id, routes, listening, ui, can>>

\* Client::set_node_id
UiSetClient(id) ==
  /\ ui = IdleUi
  /\ started
  /\ id # client_id
  /\ IsFree(id)
  /\ client_id' = id
  /\ accepted' = NoFrame
  /\ UNCHANGED <<started, servers, node_id, routes, listening, ui, can>>

\* set_server_node_id: what it refuses changes nothing.
UiSetServer(server, id) ==
  /\ ui = IdleUi
  /\ started
  /\ server \in servers
  /\ id # node_id[server]
  /\ IsFree(id)
  /\ ui' = [at |-> "unregister", server |-> server, old |-> node_id[server], id |-> id]
  /\ accepted' = NoFrame
  /\ UNCHANGED <<started, servers, node_id, client_id, routes, listening, can>>

\* The server's routes in the order of the map's keys.
Erased(rest, server) ==
  {route \in rest : /\ route[2] = server
                    /\ \A other \in rest : other[2] = server => route[1] <= other[1]}

\* Mutant: the old routes stay.
UiUnregisterNothing ==
  /\ ui.at = "unregister"
  /\ node_id' = [node_id EXCEPT ![ui.server] = ui.id]
  /\ ui' = [at |-> "renumber", server |-> ui.server, old |-> ui.old, next |-> 1]
  /\ accepted' = NoFrame
  /\ UNCHANGED <<started, servers, client_id, routes, listening, can>>

\* _unregister_rx_messages erases route by route; then _set_node_id begins.
UiUnregister ==
  /\ ui.at = "unregister"
  /\ IF \E route \in routes : route[2] = ui.server
     THEN /\ routes' = routes \ Erased(routes, ui.server)
          /\ UNCHANGED <<node_id, ui>>
     ELSE /\ node_id' = [node_id EXCEPT ![ui.server] = ui.id]
          /\ ui' = [at |-> "renumber", server |-> ui.server, old |-> ui.old, next |-> 1]
          /\ UNCHANGED routes
  /\ accepted' = NoFrame
  /\ UNCHANGED <<started, servers, client_id, listening, can>>

\* Mutant: the last service is forgotten.
LastButOne == 3

\* The number of the services update_node_id is called on.
LastService == 4

\* update_node_id of one service after the other.
UiRenumber ==
  /\ ui.at = "renumber"
  /\ listening' = [listening EXCEPT ![ui.server][Services[ui.next]] = node_id[ui.server]]
  /\ ui' = IF ui.next < LastService THEN [ui EXCEPT !.next = @ + 1]
           ELSE [at |-> "register", server |-> ui.server, old |-> ui.old, next |-> 1]
  /\ accepted' = NoFrame
  /\ UNCHANGED <<started, servers, node_id, client_id, routes, can>>

\* std::map::insert leaves what is there.
Inserted(id, server) ==
  IF \E other \in Server : <<id, other>> \in routes THEN routes
  ELSE routes \cup {<<id, server>>}

\* _register_rx_messages
UiInsert ==
  /\ ui.at = "register"
  /\ routes' = Inserted(CobId(RxCobs[ui.next], node_id[ui.server]), ui.server)
  /\ ui' = IF ui.next < 6 THEN [ui EXCEPT !.next = @ + 1] ELSE IdleUi
  /\ accepted' = NoFrame
  /\ UNCHANGED <<started, servers, node_id, client_id, listening, can>>

-----------------------------------------------------------------------------
(* The CAN thread, on a frame of a kind from a node.                       *)

Rewriting == ui.at \in {"unregister", "register"}

\* _on_frame_received looks up the route ...
CanFind(cob, id) ==
  /\ can = IdleCan
  /\ \E server \in servers :
       /\ Rewriting \/ <<CobId(cob, id), server>> \in routes
       /\ can' = [at |-> "handle", server |-> server, cob |-> cob, id |-> id]
  /\ accepted' = NoFrame
  /\ UNCHANGED <<started, servers, node_id, client_id, routes, listening, ui>>

\* Mutant: a server takes what it is handed.
TakesAnything(server, cob, id) == TRUE

\* handle_frame of a service compares the frame's id with its own.
Takes(server, cob, id) == CobId(cob, id) = CobId(cob, listening[server][Taker(cob)])

\* ... and hands the frame to the server found there: to any, if the map's
\* element has been erased since.
CanHandle ==
  /\ can.at = "handle"
  /\ \E server \in servers :
       /\ server = can.server \/ <<CobId(can.cob, can.id), can.server>> \notin routes
       /\ accepted' = IF Takes(server, can.cob, can.id)
                      THEN [server |-> server, cob |-> can.cob, id |-> can.id] ELSE NoFrame
  /\ can' = IdleCan
  /\ UNCHANGED <<started, servers, node_id, client_id, routes, listening, ui>>

RoutingNext ==
  \/ \E server \in Server : UiRegister(server)
  \/ UiStart
  \/ \E id \in NodeId : UiSetClient(id) \/ \E server \in Server : UiSetServer(server, id)
  \/ UiUnregister \/ UiRenumber \/ UiInsert
  \/ \E cob \in Rx, id \in NodeId : CanFind(cob, id)
  \/ CanHandle

RoutingSpec == RoutingInit /\ [][RoutingNext]_routingvars
-----------------------------------------------------------------------------
RoutingTypeOK ==
  /\ started \in BOOLEAN
  /\ servers \subseteq Server
  /\ node_id \in [Server -> NodeId]
  /\ client_id \in NodeId
  /\ routes \subseteq Nat \X servers
  /\ listening \in [Server -> [Service -> NodeId]]
  /\ ui.at \in {"idle", "unregister", "renumber", "register"}
  /\ can.at \in {"idle", "handle"}

\* No two servers, nor a server and the client, answer to one node id, at any
\* moment of a change (_is_free, register_server).
IdsDistinct ==
  \A server \in servers :
    /\ node_id[server] # client_id
    /\ \A other \in servers : node_id[other] = node_id[server] => other = server

\* Whenever nothing is being changed, the routes are exactly those of the
\* registered servers under the ids they have: a change leaves no route to an
\* old id and misses none (the loop that used to erase them is commented out).
RoutesExact ==
  ui = IdleUi => routes = UNION {RoutesOf(server, node_id[server]) : server \in servers}

\* ... and every service listens, and sends, under its server's id.
ServicesFollow ==
  ui = IdleUi => \A server \in servers, service \in Service :
                   listening[server][service] = node_id[server]

\* Whatever the look into the map finds, a frame is taken by the server of the
\* node that sent it, or had the node's id until the change under way, and by
\* no other's.
TakenByItsOwner ==
  accepted # NoFrame =>
    /\ \/ accepted.id = node_id[accepted.server]
       \/ ui # IdleUi /\ ui.server = accepted.server /\ ui.old = accepted.id
    /\ \A other \in servers : node_id[other] = accepted.id => other = accepted.server
=============================================================================

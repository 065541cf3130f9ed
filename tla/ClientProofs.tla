----------------------------- MODULE ClientProofs -----------------------------
(***************************************************************************)
(* Theorems about ClientRouting, for any servers and node ids, and about   *)
(* CanSocket, for any descriptors.                                         *)
(*                                                                         *)
(* RoutesExact speaks of the moments between changes only; the inductive   *)
(* invariant says what the map and the services hold while one is under    *)
(* way: everybody else's routes, and the part of the changed server's that *)
(* has not been erased or has been inserted so far.                        *)
(*                                                                         *)
(* DescriptorsKept speaks of the system calls alone; the invariant behind  *)
(* it says who holds which mutex, and that a descriptor read from _socket  *)
(* under one is open until it is let go.                                   *)
(***************************************************************************)
EXTENDS ClientRouting, CanSocket, TLAPS

Unregistering == ui \in [at : {"unregister"}, server : servers, old : NodeId, id : NodeId]
Renumbering == ui \in [at : {"renumber"}, server : servers, old : NodeId, next : 1 .. 4]
Registering == ui \in [at : {"register"}, server : servers, old : NodeId, next : 1 .. 6]

UiOK ==
  \/ ui = IdleUi
  \/ Unregistering /\ ui.old = node_id[ui.server] /\ IsFree(ui.id)
  \/ Renumbering
  \/ Registering

CanOK == can = IdleCan \/ can \in [at : {"handle"}, server : servers, cob : Rx, id : NodeId]

Typed ==
  /\ servers \subseteq Server
  /\ node_id \in [Server -> NodeId]
  /\ client_id \in NodeId
  /\ routes \subseteq Nat \X servers
  /\ listening \in [Server -> [Service -> NodeId]]
  /\ UiOK
  /\ CanOK

\* The id a server is leaving has not been given to another meanwhile.
OldIdUnused ==
  ui # IdleUi => \A server \in servers : node_id[server] = ui.old => server = ui.server

IsRoute(id, server) == \E cob \in Rx : id = CobId(cob, node_id[server])
Settled(server) == ui = IdleUi \/ ui.server # server

\* What the map holds of each server.
RoutesSoFar ==
  \A server \in servers : \A id \in Nat :
    /\ Settled(server) => (<<id, server>> \in routes <=> IsRoute(id, server))
    /\ (~Settled(server) /\ ui.at = "unregister") => (<<id, server>> \in routes => IsRoute(id, server))
    /\ (~Settled(server) /\ ui.at = "renumber") => <<id, server>> \notin routes
    /\ (~Settled(server) /\ ui.at = "register") =>
         (<<id, server>> \in routes
            <=> \E i \in 1 .. ui.next - 1 : id = CobId(RxCobs[i], node_id[server]))

\* Which services of each server listen under its new id.
ServicesSoFar ==
  \A server \in Server : \A i \in 1 .. 4 :
    listening[server][Services[i]] =
      IF ui # IdleUi /\ ui.server = server /\ ui.at = "renumber" /\ ui.next <= i
      THEN ui.old ELSE node_id[server]

RInv == Typed /\ IdsDistinct /\ OldIdUnused /\ RoutesSoFar /\ ServicesSoFar

-----------------------------------------------------------------------------
\* The kinds of frames, and the ids they get, are told apart for valid node
\* ids (calculate_cob_id).
LEMMA RxKinds == /\ Rx = {"tpdo1", "tpdo2", "tpdo3", "tpdo4", "tsdo", "heartbeat"}
                 /\ \A i \in 1 .. 6 : RxCobs[i] \in Rx
<1>1. 1 .. 6 = {1, 2, 3, 4, 5, 6}
  OBVIOUS
<1> QED BY <1>1 DEF Rx, RxCobs

LEMMA RxOrder == /\ \A i, j \in 1 .. 6 : RxCobs[i] = RxCobs[j] => i = j
                 /\ \A cob \in Rx : \E i \in 1 .. 6 : cob = RxCobs[i]
<1>1. 1 .. 6 = {1, 2, 3, 4, 5, 6}
  OBVIOUS
<1> QED BY <1>1 DEF Rx, RxCobs

LEMMA Codes ==
  /\ \A c \in Rx : Code[c] \in {384, 640, 896, 1152, 1408, 1792}
  /\ \A c, d \in Rx : Code[c] = Code[d] => c = d
BY RxKinds DEF Code

LEMMA CobIds ==
  ASSUME NEW c \in Rx, NEW i \in 1 .. 127
  PROVE  /\ CobId(c, i) \in Nat
         /\ \A d \in Rx, j \in 1 .. 127 : CobId(c, i) = CobId(d, j) => c = d /\ i = j
<1>1. PICK x \in {384, 640, 896, 1152, 1408, 1792} : Code[c] = x
  BY Codes
<1>2. ASSUME NEW d \in Rx, NEW j \in 1 .. 127, CobId(c, i) = CobId(d, j)
      PROVE  c = d /\ i = j
  <2>1. PICK y \in {384, 640, 896, 1152, 1408, 1792} : Code[d] = y
    BY Codes
  <2>2. x + i = y + j
    BY <1>1, <1>2, <2>1 DEF CobId
  <2>3. x = y /\ i = j
    BY <2>2
  <2>4. Code[c] = Code[d]
    BY <1>1, <2>1, <2>3
  <2> QED BY <2>3, <2>4, Codes
<1>3. CobId(c, i) \in Nat
  BY <1>1 DEF CobId
<1> QED BY <1>2, <1>3

LEMMA ServiceNames == /\ \A i \in 1 .. 4 : Services[i] \in Service
                      /\ \A service \in Service : \E i \in 1 .. 4 : service = Services[i]
                      /\ \A i, j \in 1 .. 4 : Services[i] = Services[j] => i = j
<1>1. 1 .. 4 = {1, 2, 3, 4}
  OBVIOUS
<1> QED BY <1>1 DEF Services, Service

LEMMA Takers == \A cob \in Rx : Taker(cob) \in Service
BY RxKinds DEF Taker, Service

-----------------------------------------------------------------------------
LEMMA InitRInv == RoutingInit => RInv
<1> SUFFICES ASSUME RoutingInit PROVE RInv
  OBVIOUS
<1>1. Typed
  BY DEF RoutingInit, Typed, UiOK, CanOK
<1>2. IdsDistinct /\ OldIdUnused /\ RoutesSoFar
  BY DEF RoutingInit, IdsDistinct, OldIdUnused, RoutesSoFar
<1>3. ServicesSoFar
  BY ServiceNames DEF RoutingInit, ServicesSoFar
<1> QED BY <1>1, <1>2, <1>3 DEF RInv

LEMMA RegisterRInv ==
  ASSUME RInv, NEW s \in Server, UiRegister(s)
  PROVE  RInv'
<1> USE DEF UiRegister, RInv
<1>1. ui' \in [at : {"register"}, server : servers', old : NodeId, next : 1 .. 6]
  BY DEF Typed
<1>2. Typed'
  BY <1>1 DEF Typed, UiOK, CanOK, Registering
<1>3. IdsDistinct'
  BY DEF IdsDistinct, IsFree
<1>4. OldIdUnused'
  BY DEF OldIdUnused, IsFree
<1>5. RoutesSoFar'
  <2> SUFFICES ASSUME NEW server \in servers', NEW id \in Nat
               PROVE  RoutesSoFar!(server)!(id)'
    BY DEF RoutesSoFar
  <2>1. CASE server = s
    BY <2>1 DEF RoutesSoFar, Settled, IdleUi, Typed
  <2>2. CASE server # s
    BY <2>2 DEF RoutesSoFar, Settled, IdleUi, IsRoute
  <2> QED BY <2>1, <2>2
<1>6. ServicesSoFar'
  BY DEF ServicesSoFar, IdleUi
<1> QED BY <1>2, <1>3, <1>4, <1>5, <1>6

LEMMA SetServerRInv ==
  ASSUME RInv, NEW s \in Server, NEW n \in NodeId, UiSetServer(s, n)
  PROVE  RInv'
<1> USE DEF UiSetServer, RInv
<1>1. ui' \in [at : {"unregister"}, server : servers', old : NodeId, id : NodeId]
  BY DEF Typed
<1>2. Typed'
  BY <1>1 DEF Typed, UiOK, CanOK, Unregistering, IsFree
<1>3. IdsDistinct' /\ OldIdUnused'
  BY DEF IdsDistinct, OldIdUnused
<1>5. RoutesSoFar'
  <2> SUFFICES ASSUME NEW server \in servers, NEW id \in Nat
               PROVE  RoutesSoFar!(server)!(id)'
    BY DEF RoutesSoFar
  <2>1. <<id, server>> \in routes <=> IsRoute(id, server)
    BY DEF RoutesSoFar, Settled
  <2> QED BY <2>1 DEF RoutesSoFar, Settled, IdleUi, IsRoute
<1>6. ServicesSoFar'
  BY DEF ServicesSoFar, IdleUi
<1> QED BY <1>2, <1>3, <1>5, <1>6

LEMMA UnregisterRInv == RInv /\ UiUnregister => RInv'
<1> SUFFICES ASSUME RInv, UiUnregister PROVE RInv'
  OBVIOUS
<1> USE DEF RInv
<1> DEFINE u == ui.server
<1>u. Unregistering /\ ui.old = node_id[u] /\ IsFree(ui.id) /\ u \in servers
  BY DEF UiUnregister, Typed, UiOK, IdleUi, Unregistering, Renumbering, Registering
<1>1. CASE \E route \in routes : route[2] = u
  <2>1. /\ routes' = routes \ Erased(routes, u)
        /\ UNCHANGED <<started, servers, node_id, client_id, listening, ui, can>>
    BY <1>1 DEF UiUnregister
  <2>2. Typed' /\ IdsDistinct' /\ OldIdUnused' /\ ServicesSoFar'
    BY <2>1 DEF Typed, UiOK, CanOK, Unregistering, Renumbering, Registering, IsFree,
       IdsDistinct, OldIdUnused, ServicesSoFar
  <2>3. \A server \in servers : \A id \in Nat :
          /\ <<id, server>> \in routes' => <<id, server>> \in routes
          /\ server # u => (<<id, server>> \in routes <=> <<id, server>> \in routes')
    BY <2>1 DEF Erased
  <2>4. RoutesSoFar'
    <3> SUFFICES ASSUME NEW server \in servers, NEW id \in Nat
                 PROVE  RoutesSoFar!(server)!(id)'
      BY <2>1 DEF RoutesSoFar
    <3>1. ui # IdleUi /\ ui.at = "unregister"
      BY <1>u DEF Unregistering, IdleUi
    <3> QED BY <2>1, <2>3, <3>1 DEF RoutesSoFar, Settled, IsRoute
  <2> QED BY <2>2, <2>4
<1>2. CASE ~ \E route \in routes : route[2] = u
  <2>1. /\ node_id' = [node_id EXCEPT ![u] = ui.id]
        /\ ui' = [at |-> "renumber", server |-> u, old |-> ui.old, next |-> 1]
        /\ UNCHANGED <<started, servers, client_id, listening, can, routes>>
    BY <1>2 DEF UiUnregister
  <2>2. ui' \in [at : {"renumber"}, server : servers', old : NodeId, next : 1 .. 4]
    BY <1>u, <2>1 DEF Unregistering
  <2>3. ui.id \in NodeId /\ u \in Server
    BY <1>u DEF Unregistering, Typed
  <2>4. Typed'
    BY <1>u, <2>1, <2>2, <2>3 DEF Typed, UiOK, CanOK, Renumbering
  <2>5. /\ node_id'[u] = ui.id
        /\ \A server \in Server : server # u => node_id'[server] = node_id[server]
    BY <2>1, <2>3 DEF Typed
  <2>6. IdsDistinct' /\ OldIdUnused'
    <3>1. \A server \in servers : server \in Server
      BY DEF Typed
    <3> QED BY <1>u, <2>1, <2>5, <3>1 DEF IdsDistinct, OldIdUnused, IsFree
  <2>7. RoutesSoFar'
    <3> SUFFICES ASSUME NEW server \in servers, NEW id \in Nat
                 PROVE  RoutesSoFar!(server)!(id)'
      BY <2>1 DEF RoutesSoFar
    <3>0. ui # IdleUi /\ server \in Server
      BY <1>u DEF Unregistering, IdleUi, Typed
    <3>1. CASE server = u
      <4>1. <<id, server>> \notin routes
        BY <1>2, <3>1
      <4> QED BY <2>1, <3>1, <4>1 DEF Settled, IdleUi
    <3>2. CASE server # u
      <4>1. node_id'[server] = node_id[server]
        BY <2>5, <3>0, <3>2
      <4> QED BY <2>1, <3>0, <3>2, <4>1 DEF RoutesSoFar, Settled, IdleUi, IsRoute
    <3> QED BY <3>1, <3>2
  <2>8. ServicesSoFar'
    <3> SUFFICES ASSUME NEW server \in Server, NEW i \in 1 .. 4
                 PROVE  ServicesSoFar!(server)!(i)'
      BY DEF ServicesSoFar
    <3>1. listening[server][Services[i]] = node_id[server]
      BY <1>u DEF ServicesSoFar, Unregistering
    <3> QED BY <1>u, <2>1, <2>5, <3>1 DEF IdleUi
  <2> QED BY <2>4, <2>6, <2>7, <2>8
<1> QED BY <1>1, <1>2

LEMMA RenumberRInv == RInv /\ UiRenumber => RInv'
<1> SUFFICES ASSUME RInv, UiRenumber PROVE RInv'
  OBVIOUS
<1> USE DEF RInv
<1> DEFINE u == ui.server
           new == [listening EXCEPT ![u][Services[ui.next]] = node_id[u]]
<1>u. Renumbering /\ u \in servers /\ u \in Server /\ ui # IdleUi /\ ui.next \in 1 .. 4
  BY DEF UiRenumber, Typed, UiOK, IdleUi, Unregistering, Renumbering, Registering
<1>1. /\ listening' = new
      /\ UNCHANGED <<started, servers, node_id, client_id, routes, can>>
  BY DEF UiRenumber
<1>2. /\ \A server \in Server : server # u => new[server] = listening[server]
      /\ \A service \in Service :
           new[u][service] = IF service = Services[ui.next] THEN node_id[u] ELSE listening[u][service]
      /\ new \in [Server -> [Service -> NodeId]]
  BY <1>u, ServiceNames DEF Typed
<1>3. CASE ui.next < LastService
  <2>1. ui' = [ui EXCEPT !.next = ui.next + 1] /\ ui.next + 1 \in 1 .. 4
    BY <1>u, <1>3 DEF UiRenumber, LastService
  <2>2. /\ ui' \in [at : {"renumber"}, server : servers', old : NodeId, next : 1 .. 4]
        /\ ui'.server = u /\ ui'.old = ui.old /\ ui'.next = ui.next + 1 /\ ui'.at = "renumber"
        /\ ui' # IdleUi
    BY <1>u, <1>1, <2>1 DEF Renumbering, IdleUi
  <2>3. Typed'
    BY <1>u, <1>1, <1>2, <2>2 DEF Typed, UiOK, CanOK, Renumbering
  <2>4. IdsDistinct' /\ OldIdUnused'
    BY <1>u, <1>1, <2>2 DEF IdsDistinct, OldIdUnused
  <2>5. RoutesSoFar'
    <3> SUFFICES ASSUME NEW server \in servers, NEW id \in Nat
                 PROVE  RoutesSoFar!(server)!(id)'
      BY <1>1 DEF RoutesSoFar
    <3>1. ui.at = "renumber"
      BY <1>u DEF Renumbering
    <3> QED BY <1>u, <1>1, <2>2, <3>1 DEF RoutesSoFar, Settled, IsRoute
  <2>6. ServicesSoFar'
    <3> SUFFICES ASSUME NEW server \in Server, NEW i \in 1 .. 4
                 PROVE  ServicesSoFar!(server)!(i)'
      BY DEF ServicesSoFar
    <3>1. CASE server # u
      BY <1>u, <1>1, <1>2, <2>2, <3>1 DEF ServicesSoFar
    <3>2. CASE server = u
      <4>1. Services[i] = Services[ui.next] <=> i = ui.next
        BY <1>u, ServiceNames
      <4>2. listening[u][Services[i]] = IF ui.next <= i THEN ui.old ELSE node_id[u]
        BY <1>u DEF ServicesSoFar, Renumbering
      <4>3. new[u][Services[i]] = IF i = ui.next THEN node_id[u] ELSE listening[u][Services[i]]
        BY <1>2, <4>1, ServiceNames
      <4>4. (ui.next + 1 <= i) <=> (ui.next <= i /\ i # ui.next)
        BY <1>u
      <4> QED BY <1>1, <2>2, <3>2, <4>2, <4>3, <4>4
    <3> QED BY <3>1, <3>2
  <2> QED BY <2>3, <2>4, <2>5, <2>6
<1>4. CASE ~ (ui.next < LastService)
  <2>1. ui' = [at |-> "register", server |-> u, old |-> ui.old, next |-> 1] /\ ui.next = 4
    BY <1>u, <1>4 DEF UiRenumber, LastService
  <2>2. ui' \in [at : {"register"}, server : servers', old : NodeId, next : 1 .. 6] /\ ui' # IdleUi
    BY <1>u, <1>1, <2>1 DEF Renumbering, IdleUi
  <2>3. Typed'
    BY <1>u, <1>1, <1>2, <2>2 DEF Typed, UiOK, CanOK, Registering
  <2>4. IdsDistinct' /\ OldIdUnused'
    BY <1>u, <1>1, <2>1 DEF IdsDistinct, OldIdUnused
  <2>5. RoutesSoFar'
    <3> SUFFICES ASSUME NEW server \in servers, NEW id \in Nat
                 PROVE  RoutesSoFar!(server)!(id)'
      BY <1>1 DEF RoutesSoFar
    <3>1. ui.at = "renumber"
      BY <1>u DEF Renumbering
    <3> QED BY <1>u, <1>1, <2>1, <2>2, <3>1 DEF RoutesSoFar, Settled, IsRoute
  <2>6. ServicesSoFar'
    <3> SUFFICES ASSUME NEW server \in Server, NEW i \in 1 .. 4
                 PROVE  new[server][Services[i]] = node_id[server]
      BY <1>1, <2>1 DEF ServicesSoFar
    <3>1. CASE server # u
      BY <1>u, <1>2, <3>1 DEF ServicesSoFar
    <3>2. CASE server = u
      <4>1. Services[i] = Services[ui.next] <=> i = 4
        BY <1>u, <2>1, ServiceNames
      <4>2. i # 4 => listening[u][Services[i]] = node_id[u]
        BY <1>u, <2>1 DEF ServicesSoFar
      <4>3. new[u][Services[i]] = IF i = 4 THEN node_id[u] ELSE listening[u][Services[i]]
        BY <1>2, <4>1, ServiceNames
      <4> QED BY <3>2, <4>2, <4>3
    <3> QED BY <3>1, <3>2
  <2> QED BY <2>3, <2>4, <2>5, <2>6
<1> QED BY <1>3, <1>4

LEMMA InsertRInv == RInv /\ UiInsert => RInv'
<1> SUFFICES ASSUME RInv, UiInsert PROVE RInv'
  OBVIOUS
<1> USE DEF RInv
<1> DEFINE u == ui.server
           key == CobId(RxCobs[ui.next], node_id[u])
<1>u. /\ Registering /\ u \in servers /\ u \in Server /\ ui # IdleUi /\ ui.at = "register"
      /\ ui.next \in 1 .. 6
  BY DEF UiInsert, Typed, UiOK, IdleUi, Unregistering, Renumbering, Registering
<1>1. /\ routes' = Inserted(key, u)
      /\ UNCHANGED <<started, servers, node_id, client_id, listening, can>>
  BY DEF UiInsert
<1>m. /\ \A server \in servers : node_id[server] \in 1 .. 127
      /\ RxCobs[ui.next] \in Rx
  BY <1>u, RoutingAssumption, RxKinds DEF Typed
<1>n. /\ key \in Nat
      /\ \A d \in Rx, j \in 1 .. 127 : key = CobId(d, j) => RxCobs[ui.next] = d /\ node_id[u] = j
  <2>1. node_id[u] \in 1 .. 127
    BY <1>u, <1>m
  <2>2. PICK c \in Rx : c = RxCobs[ui.next]
    BY <1>m
  <2>3. PICK i \in 1 .. 127 : i = node_id[u]
    BY <2>1
  <2>4. /\ CobId(c, i) \in Nat
        /\ \A d \in Rx, j \in 1 .. 127 : CobId(c, i) = CobId(d, j) => c = d /\ i = j
    BY CobIds
  <2> QED BY <2>2, <2>3, <2>4
<1>2. \A other \in Server : <<key, other>> \notin routes
  <2> SUFFICES ASSUME NEW other \in servers, <<key, other>> \in routes PROVE FALSE
    BY DEF Typed
  <2>1. CASE other # u
    <3>1. IsRoute(key, other)
      BY <1>n, <2>1 DEF RoutesSoFar, Settled
    <3>2. PICK cob \in Rx : key = CobId(cob, node_id[other])
      BY <3>1 DEF IsRoute
    <3>3. node_id[other] = node_id[u]
      BY <1>m, <1>n, <3>2
    <3> QED BY <1>u, <2>1, <3>3 DEF IdsDistinct
  <2>2. CASE other = u
    <3>1. PICK i \in 1 .. ui.next - 1 : key = CobId(RxCobs[i], node_id[u])
      BY <1>n, <1>u, <2>2 DEF RoutesSoFar, Settled
    <3>2. i \in 1 .. 6 /\ i # ui.next
      BY <1>u
    <3>3. RxCobs[i] = RxCobs[ui.next]
      BY <1>m, <1>n, <1>u, <3>1, <3>2, RxKinds
    <3> QED BY <1>u, <3>2, <3>3, RxOrder
  <2> QED BY <2>1, <2>2
<1>3. routes' = routes \cup {<<key, u>>}
  BY <1>1, <1>2 DEF Inserted
<1>4. \A server \in servers, id \in Nat :
        <<id, server>> \in routes' <=> <<id, server>> \in routes \/ (id = key /\ server = u)
  BY <1>3
<1>5. ServicesSoFar'
  BY <1>u, <1>1 DEF ServicesSoFar, UiInsert, IdleUi
<1>6. IdsDistinct'
  BY <1>1 DEF IdsDistinct
<1>7. routes' \subseteq Nat \X servers
  BY <1>3, <1>n, <1>u DEF Typed
<1>8. CASE ui.next < 6
  <2>1. ui' = [ui EXCEPT !.next = ui.next + 1] /\ ui.next + 1 \in 1 .. 6
    BY <1>u, <1>8 DEF UiInsert
  <2>2. /\ ui' \in [at : {"register"}, server : servers', old : NodeId, next : 1 .. 6]
        /\ ui'.server = u /\ ui'.old = ui.old /\ ui'.next = ui.next + 1 /\ ui'.at = "register"
        /\ ui' # IdleUi
    BY <1>u, <1>1, <2>1 DEF Registering, IdleUi
  <2>3. Typed'
    BY <1>u, <1>1, <1>7, <2>2 DEF Typed, UiOK, CanOK, Registering
  <2>4. OldIdUnused'
    BY <1>u, <1>1, <2>2 DEF OldIdUnused
  <2>5. RoutesSoFar'
    <3> SUFFICES ASSUME NEW server \in servers, NEW id \in Nat
                 PROVE  RoutesSoFar!(server)!(id)'
      BY <1>1 DEF RoutesSoFar
    <3>1. CASE server # u
      BY <1>u, <1>1, <1>4, <2>2, <3>1 DEF RoutesSoFar, Settled, IsRoute
    <3>2. CASE server = u
      <4>1. <<id, u>> \in routes <=> \E i \in 1 .. ui.next - 1 : id = CobId(RxCobs[i], node_id[u])
        BY <1>u DEF RoutesSoFar, Settled
      <4>2. <<id, u>> \in routes' <=> \E i \in 1 .. ui.next : id = CobId(RxCobs[i], node_id[u])
        BY <1>4, <1>u, <4>1
      <4>3. ui'.next - 1 = ui.next
        BY <1>u, <2>2
      <4> QED BY <1>1, <2>2, <3>2, <4>2, <4>3 DEF Settled
    <3> QED BY <3>1, <3>2
  <2> QED BY <1>5, <1>6, <2>3, <2>4, <2>5
<1>9. CASE ~ (ui.next < 6)
  <2>1. ui' = IdleUi /\ ui.next = 6
    BY <1>u, <1>9 DEF UiInsert
  <2>2. Typed' /\ OldIdUnused'
    BY <1>1, <1>7, <2>1 DEF Typed, UiOK, CanOK, OldIdUnused
  <2>5. RoutesSoFar'
    <3> SUFFICES ASSUME NEW server \in servers, NEW id \in Nat
                 PROVE  <<id, server>> \in routes' <=> IsRoute(id, server)
      BY <1>1, <2>1 DEF RoutesSoFar, IsRoute, IdleUi
    <3>1. CASE server # u
      BY <1>u, <1>4, <3>1 DEF RoutesSoFar, Settled
    <3>2. CASE server = u
      <4>1. <<id, u>> \in routes <=> \E i \in 1 .. ui.next - 1 : id = CobId(RxCobs[i], node_id[u])
        BY <1>u DEF RoutesSoFar, Settled
      <4>2. <<id, u>> \in routes' <=> \E i \in 1 .. 6 : id = CobId(RxCobs[i], node_id[u])
        BY <1>4, <1>u, <2>1, <4>1
      <4>3. (\E i \in 1 .. 6 : id = CobId(RxCobs[i], node_id[u])) <=> IsRoute(id, u)
        BY RxKinds, RxOrder DEF IsRoute
      <4> QED BY <3>2, <4>2, <4>3
    <3> QED BY <3>1, <3>2
  <2> QED BY <1>5, <1>6, <2>2, <2>5
<1> QED BY <1>8, <1>9

\* Steps that leave the map, the servers' ids and the UI's place alone.
LEMMA OtherRInv ==
  /\ RInv
  /\ UNCHANGED <<servers, node_id, routes, listening, ui>>
  /\ client_id' \in NodeId
  /\ client_id' = client_id \/ (IsFree(client_id') /\ ui = IdleUi)
  /\ CanOK'
  => RInv'
<1> SUFFICES ASSUME RInv,
         UNCHANGED <<servers, node_id, routes, listening, ui>>,
         client_id' \in NodeId,
         client_id' = client_id \/ (IsFree(client_id') /\ ui = IdleUi),
         CanOK'
  PROVE  RInv'
  OBVIOUS
<1> USE DEF RInv
<1>1. UiOK'
  BY DEF Typed, UiOK, IdleUi, Unregistering, Renumbering, Registering, IsFree
<1>2. Typed'
  BY <1>1 DEF Typed
<1>3. IdsDistinct' /\ OldIdUnused'
  BY DEF IdsDistinct, OldIdUnused, IsFree
<1>4. RoutesSoFar' /\ ServicesSoFar'
  BY DEF RoutesSoFar, ServicesSoFar, Settled, IsRoute
<1> QED BY <1>2, <1>3, <1>4

THEOREM RoutingInvariance == RoutingSpec => []RInv
<1>1. RInv /\ [RoutingNext]_routingvars => RInv'
  <2> SUFFICES ASSUME RInv, [RoutingNext]_routingvars PROVE RInv'
    OBVIOUS
  <2>1. CASE \E server \in Server : UiRegister(server)
    BY <2>1, RegisterRInv
  <2>2. CASE UiStart
    <3>1. CanOK'
      BY <2>2 DEF UiStart, RInv, Typed, CanOK
    <3> QED BY <2>2, <3>1, OtherRInv DEF UiStart, RInv, Typed
  <2>3. CASE \E id \in NodeId : UiSetClient(id)
    <3>1. CanOK'
      BY <2>3 DEF UiSetClient, RInv, Typed, CanOK
    <3> QED BY <2>3, <3>1, OtherRInv DEF UiSetClient, RInv, Typed
  <2>4. CASE \E id \in NodeId, server \in Server : UiSetServer(server, id)
    BY <2>4, SetServerRInv
  <2>5. CASE UiUnregister
    BY <2>5, UnregisterRInv
  <2>6. CASE UiRenumber
    BY <2>6, RenumberRInv
  <2>7. CASE UiInsert
    BY <2>7, InsertRInv
  <2>8. CASE \E cob \in Rx, id \in NodeId : CanFind(cob, id)
    <3>1. CanOK'
      BY <2>8 DEF CanFind, CanOK
    <3>2. client_id' = client_id
      BY <2>8 DEF CanFind
    <3>3. client_id' \in NodeId
      BY <3>2 DEF RInv, Typed
    <3>4. UNCHANGED <<servers, node_id, routes, listening, ui>>
      BY <2>8 DEF CanFind
    <3>5. client_id' = client_id \/ (IsFree(client_id') /\ ui = IdleUi)
      BY <3>2
    <3> QED BY <3>1, <3>3, <3>4, <3>5, OtherRInv
  <2>9. CASE CanHandle
    <3>1. CanOK'
      BY <2>9 DEF CanHandle, CanOK
    <3>2. client_id' = client_id
      BY <2>9 DEF CanHandle
    <3>3. client_id' \in NodeId
      BY <3>2 DEF RInv, Typed
    <3>4. UNCHANGED <<servers, node_id, routes, listening, ui>>
      BY <2>9 DEF CanHandle
    <3>5. client_id' = client_id \/ (IsFree(client_id') /\ ui = IdleUi)
      BY <3>2
    <3> QED BY <3>1, <3>3, <3>4, <3>5, OtherRInv
  <2>10. CASE UNCHANGED routingvars
    <3>1. CanOK'
      BY <2>10 DEF routingvars, RInv, Typed, CanOK
    <3>2. client_id' = client_id
      BY <2>10 DEF routingvars
    <3>3. client_id' \in NodeId
      BY <3>2 DEF RInv, Typed
    <3>4. UNCHANGED <<servers, node_id, routes, listening, ui>>
      BY <2>10 DEF routingvars
    <3>5. client_id' = client_id \/ (IsFree(client_id') /\ ui = IdleUi)
      BY <3>2
    <3> QED BY <3>1, <3>3, <3>4, <3>5, OtherRInv
  <2> QED BY <2>1, <2>2, <2>3, <2>4, <2>5, <2>6, <2>7, <2>8, <2>9, <2>10 DEF RoutingNext
<1> QED BY <1>1, InitRInv, PTL DEF RoutingSpec

\* Every state of the model is well typed.
THEOREM RoutingTypeCorrect == RoutingSpec => []RoutingTypeOK
<1> DEFINE Flag == started \in BOOLEAN
<1>1. RoutingInit => Flag
  BY DEF RoutingInit
<1>2. Flag /\ [RoutingNext]_routingvars => Flag'
  BY DEF RoutingNext, routingvars, UiRegister, UiStart, UiSetClient, UiSetServer,
     UiUnregister, UiRenumber, UiInsert, CanFind, CanHandle
<1>3. RInv /\ Flag => RoutingTypeOK
  BY DEF RInv, Typed, UiOK, CanOK, RoutingTypeOK, IdleUi, IdleCan, Unregistering,
     Renumbering, Registering
<1> HIDE DEF Flag
<1> QED BY <1>1, <1>2, <1>3, RoutingInvariance, PTL DEF RoutingSpec

-----------------------------------------------------------------------------
\* At any moment the registered servers and the client have node ids of their
\* own, whatever ids the operator asks for.
THEOREM DistinctIds == RoutingSpec => []IdsDistinct
BY RoutingInvariance, PTL DEF RInv

\* Between changes the map holds exactly the routes of the registered servers.
THEOREM ExactRoutes == RoutingSpec => []RoutesExact
<1>1. RInv => RoutesExact
  <2> SUFFICES ASSUME RInv, ui = IdleUi
               PROVE  routes = UNION {RoutesOf(server, node_id[server]) : server \in servers}
    BY DEF RoutesExact
  <2>1. \A server \in servers, id \in Nat : <<id, server>> \in routes <=> IsRoute(id, server)
    BY DEF RInv, RoutesSoFar, Settled
  <2>2. ASSUME NEW route \in routes
        PROVE  \E server \in servers : route \in RoutesOf(server, node_id[server])
    <3>1. PICK id \in Nat, server \in servers : route = <<id, server>>
      BY <2>2 DEF RInv, Typed
    <3>2. IsRoute(id, server)
      BY <2>1, <3>1
    <3> QED BY <3>1, <3>2 DEF IsRoute, RoutesOf
  <2>3. ASSUME NEW server \in servers, NEW route \in RoutesOf(server, node_id[server])
        PROVE  route \in routes
    <3>1. PICK cob \in Rx : route = <<CobId(cob, node_id[server]), server>>
      BY <2>3 DEF RoutesOf
    <3>2. CobId(cob, node_id[server]) \in Nat
      BY CobIds, RoutingAssumption DEF RInv, Typed
    <3> QED BY <2>1, <3>1, <3>2 DEF IsRoute
  <2> QED BY <2>2, <2>3
<1> QED BY <1>1, RoutingInvariance, PTL

\* Between changes every service listens and sends under its server's id.
THEOREM ServicesListen == RoutingSpec => []ServicesFollow
<1>1. RInv => ServicesFollow
  BY ServiceNames DEF RInv, Typed, ServicesSoFar, ServicesFollow
<1> QED BY <1>1, RoutingInvariance, PTL

\* Whatever an unlocked look into the map finds, a frame is taken by no
\* server but the one its sender is known as.
THEOREM OwnersTake == RoutingSpec => []TakenByItsOwner
<1>1. RoutingInit => TakenByItsOwner
  BY DEF RoutingInit, TakenByItsOwner
<1>2. RInv /\ TakenByItsOwner /\ [RoutingNext]_routingvars => TakenByItsOwner'
  <2> SUFFICES ASSUME RInv, TakenByItsOwner, [RoutingNext]_routingvars PROVE TakenByItsOwner'
    OBVIOUS
  <2>1. CASE accepted' = NoFrame
    BY <2>1 DEF TakenByItsOwner
  <2>2. CASE UNCHANGED routingvars
    BY <2>2 DEF TakenByItsOwner, routingvars
  <2>3. CASE CanHandle /\ accepted' # NoFrame
    <3>1. PICK server \in servers :
            /\ Takes(server, can.cob, can.id)
            /\ accepted' = [server |-> server, cob |-> can.cob, id |-> can.id]
      BY <2>3 DEF CanHandle
    <3>2. /\ can.cob \in Rx /\ can.id \in NodeId /\ server \in Server
          /\ UNCHANGED <<servers, node_id, ui>>
      BY <2>3 DEF CanHandle, RInv, Typed, CanOK, IdleCan
    <3>3. PICK i \in 1 .. 4 : Services[i] = Taker(can.cob)
      BY <3>2, Takers, ServiceNames
    <3>4. listening[server][Taker(can.cob)] \in NodeId
      BY <3>2, Takers DEF RInv, Typed
    <3>5. can.id = listening[server][Taker(can.cob)]
      <4>1. can.id \in 1 .. 127 /\ listening[server][Taker(can.cob)] \in 1 .. 127
        BY <3>2, <3>4, RoutingAssumption
      <4>2. CobId(can.cob, can.id) = CobId(can.cob, listening[server][Taker(can.cob)])
        BY <3>1 DEF Takes
      <4> QED BY <3>2, <4>1, <4>2, CobIds
    <3>6. \/ can.id = node_id[server]
          \/ ui # IdleUi /\ ui.server = server /\ ui.old = can.id
      BY <3>2, <3>3, <3>5 DEF RInv, ServicesSoFar
    <3>7. \A other \in servers : node_id[other] = can.id => other = server
      BY <3>6 DEF RInv, IdsDistinct, OldIdUnused
    <3> QED BY <3>1, <3>2, <3>6, <3>7 DEF TakenByItsOwner
  <2> QED BY <2>1, <2>2, <2>3 DEF RoutingNext, UiRegister, UiStart, UiSetClient, UiSetServer,
         UiUnregister, UiRenumber, UiInsert, CanFind
<1> QED BY <1>1, <1>2, RoutingInvariance, PTL DEF RoutingSpec

-----------------------------------------------------------------------------
(* The socket: who holds which mutex, and what the descriptors are.        *)

UiAt ==
  {"ready", "send_lock", "write", "writing", "connect_send", "connect_recv", "script", "create",
   "bind", "disconnect_send", "disconnect_recv", "close"}
CanAt == {"turn", "send_lock", "write", "writing", "recv", "recv_lock", "poll", "read", "reading"}

SocketTyped ==
  /\ kind \in [Fd -> {"free", "other", "bound", "unbound"}]
  /\ socket \in Fd \cup {none}
  /\ fd \in [Thread -> Fd \cup {none}]
  /\ DOMAIN at = Thread /\ at["ui"] \in UiAt /\ at["can"] \in CanAt

\* Where a thread holds which mutex.
HoldsSend(thread) ==
  at[thread] \in {"write", "writing", "connect_recv", "script", "create", "bind",
                  "disconnect_recv", "close"}
UiHoldsRecv == at["ui"] \in {"script", "create", "bind", "close"}
CanHoldsRecv == at["can"] \in {"poll", "read", "reading"}

Mutexes ==
  /\ \A thread \in Thread : HoldsSend(thread) => send_mtx = thread
  /\ UiHoldsRecv => recv_mtx = "ui"
  /\ CanHoldsRecv => recv_mtx = "can"

IsSocket(d) == d \in Fd => kind[d] \in {"bound", "unbound"}

\* _socket is open, and so is a descriptor a thread has read from it under a
\* mutex; the one that is bound is the one polled.
Descriptors ==
  /\ IsSocket(socket)
  /\ \A thread \in Thread : at[thread] = "writing" => IsSocket(fd[thread])
  /\ at["can"] = "reading" => IsSocket(fd["can"])
  /\ (socket \in Fd /\ kind[socket] = "bound") => recv_fd = socket
  /\ (at["can"] = "reading" /\ fd["can"] \in Fd /\ kind[fd["can"]] = "bound")
       => recv_fd = fd["can"]
  /\ at["ui"] \in {"bind", "disconnect_send", "disconnect_recv", "close"} => Good

SocketInv == SocketTyped /\ Mutexes /\ Descriptors /\ OwnDescriptorsOnly

\* Every step of either thread keeps it: nobody closes what another reads or
\* writes, and only disconnect, with both mutexes, closes the socket at all.
LEMMA SocketStep ==
  ASSUME SocketInv, [SocketNext]_socketvars
  PROVE  SocketInv'
<1> USE SocketAssumption DEF Thread
<1> USE DEF SocketInv, SocketTyped, UiAt, CanAt, Mutexes, HoldsSend, UiHoldsRecv, CanHoldsRecv,
            Descriptors, IsSocket, OwnDescriptorsOnly, Good, kernelvars, lockvars, Goes, Touches,
            Free, Unlocks
<1>1. ASSUME NEW thread \in Thread, Send(thread)
      PROVE  SocketInv'
  <2>1. CASE SendCheck(thread)
    BY <2>1 DEF SendCheck
  <2>2. CASE SendLock(thread)
    BY <2>2 DEF SendLock
  <2>3. CASE SendLoad(thread)
    BY <2>3 DEF SendLoad
  <2>4. CASE SendWrite(thread)
    BY <2>4 DEF SendWrite
  <2> QED
    BY <1>1, <2>1, <2>2, <2>3, <2>4 DEF Send
<1>2. CASE Recv
  <2>1. CASE RecvCheck
    BY <2>1 DEF RecvCheck
  <2>2. CASE RecvLock
    BY <2>2 DEF RecvLock
  <2>3. CASE PollTimeout
    BY <2>3 DEF PollTimeout
  <2>4. CASE PollReady
    BY <2>4 DEF PollReady
  <2>5. CASE ReadLoad
    BY <2>5 DEF ReadLoad
  <2>6. CASE Read
    BY <2>6 DEF Read
  <2> QED
    BY <1>2, <2>1, <2>2, <2>3, <2>4, <2>5, <2>6 DEF Recv
<1>3. CASE Setup
  <2>1. CASE Connect
    BY <2>1 DEF Connect
  <2>2. CASE Disconnect
    BY <2>2 DEF Disconnect
  <2>3. CASE LockSend
    BY <2>3 DEF LockSend
  <2>4. CASE LockRecv
    BY <2>4 DEF LockRecv
  <2>5. CASE Script
    BY <2>5 DEF Script
  <2>6. CASE Create
    BY <2>6 DEF Create
  <2>7. CASE Bind
    BY <2>7 DEF Bind
  <2>8. CASE Close
    BY <2>8 DEF Close
  <2> QED
    BY <1>3, <2>1, <2>2, <2>3, <2>4, <2>5, <2>6, <2>7, <2>8 DEF Setup
<1>4. CASE OtherFile
  BY <1>4 DEF OtherFile
<1>5. CASE UNCHANGED socketvars
  BY <1>5 DEF socketvars
<1> QED
  BY <1>1, <1>2, <1>3, <1>4, <1>5 DEF SocketNext

\* Whatever the operator opens and closes meanwhile, and whatever descriptors
\* other files take: no system call touches a file that is not the client's
\* own, and the socket that is read is the one that poll found readable.
THEOREM DescriptorsKeptAlways == SocketSafeSpec => []DescriptorsKept
<1>1. SocketInit => SocketInv
  BY SocketAssumption DEF SocketInit, SocketInv, SocketTyped, UiAt, CanAt, Mutexes, HoldsSend, UiHoldsRecv,
     CanHoldsRecv, Descriptors, IsSocket, OwnDescriptorsOnly, Good, Thread
<1>2. SocketInv => DescriptorsKept
  BY DEF SocketInv, SocketTyped, Descriptors, IsSocket, DescriptorsKept, PollsWhatItReads, Returns,
     Unbound, Thread
<1> QED
  BY <1>1, <1>2, SocketStep, PTL DEF SocketSafeSpec
=============================================================================

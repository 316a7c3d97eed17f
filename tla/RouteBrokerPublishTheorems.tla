---------------------- MODULE RouteBrokerPublishTheorems ---------------------
(***************************************************************************)
(* The invariant of the route broker that holds whatever is published, and *)
(* what a message (object_broker_publish) does to lists, routes, hash      *)
(* table and what clients have still to read.                              *)
(***************************************************************************)
EXTENDS RouteBroker, BrokerOpsTheorems

\* What holds whatever is published.
SafeInv == /\ TypeOK
           /\ BrokersInOrder
           /\ RoutesFiled
           /\ HashIsLive
           /\ CursorAtEveryLevel

\* There is a most urgent priority, and every priority is a natural number.
LEMMA PrioritiesFacts == /\ 0 \in Priorities
                         /\ Priorities \subseteq Nat
BY RouteBrokerAssumption DEF Priorities

\* The lists, the routes in them and the hash table, in the terms the proofs
\* use.
LEMMA SafeFacts ==
    ASSUME SafeInv
    PROVE  /\ \A p \in Priorities : /\ BrokerOK(route_broker[p])
                                    /\ ClientsOf(route_broker[p]) = Connected
                                    /\ ObjsOf(route_broker[p]) \subseteq Objs
                                    /\ route_broker[p].del \subseteq ObjsOf(route_broker[p])
           /\ DOMAIN route_broker = Priorities
           /\ \A p \in Priorities : \A r \in ObjsOf(route_broker[p]) :
                 /\ r \in Allocated(route_broker)
                 /\ rib[r].pri = p
                 /\ rib[r].topic \in Topics
                 /\ r \in route_broker[p].del <=> rib[r].data = NULL
           /\ \A r \in Allocated(route_broker) :
                 rib[r].pri \in Priorities /\ r \in ObjsOf(route_broker[rib[r].pri])
           /\ Connected \subseteq Clients
<1>1. \A p \in Priorities : BrokerOK(route_broker[p])
  BY DEF SafeInv, TypeOK, BrokersInOrder, BrokerOK
<1>2. \A p \in Priorities : route_broker[p].del \subseteq ObjsOf(route_broker[p])
  BY <1>1, ListOrder DEF BrokerOK
<1>3. \A p \in Priorities : \A r \in ObjsOf(route_broker[p]) :
                 /\ r \in Allocated(route_broker)
                 /\ rib[r].pri = p
                 /\ rib[r].topic \in Topics
                 /\ r \in route_broker[p].del <=> rib[r].data = NULL
  BY DEF SafeInv, RoutesFiled, Allocated, ObjsOf
<1>4. \A r \in Allocated(route_broker) :
                 rib[r].pri \in Priorities /\ r \in ObjsOf(route_broker[rib[r].pri])
  BY <1>3 DEF Allocated
<1> QED
  BY <1>1, <1>2, <1>3, <1>4 DEF SafeInv, TypeOK, CursorAtEveryLevel, Connected, ClientsOf, ObjsOf

\* The brokers, the hash table and the routes agree after route_broker_init.
LEMMA InitSafe == Init => SafeInv
<1> SUFFICES ASSUME Init PROVE SafeInv
  OBVIOUS
<1>1. /\ DOMAIN route_broker = Priorities
      /\ \A p \in Priorities : /\ BrokerOK(route_broker[p])
                               /\ ClientsOf(route_broker[p]) = {}
                               /\ ObjsOf(route_broker[p]) = {}
  BY CreateOK DEF Init, broker_create, ClientsOf, ObjsOf, Elems, Range
<1>2. /\ rib \in [Objs -> [topic : Topics \cup {NULL}, pri : Priorities, data : Data]]
      /\ route_hashtbl \in [Topics -> Objs \cup {NULL}]
      /\ table \in [Topics -> Data]
      /\ view \in [Clients -> [Topics -> Data]]
  BY PrioritiesFacts DEF Init, Unused, Data, NoRoutes
<1>3. HashIsLive
  BY DEF Init, HashIsLive, NoRoutes
<1> QED
  BY <1>1, <1>2, <1>3, PrioritiesFacts, Zenon
     DEF SafeInv, TypeOK, BrokersInOrder, BrokerOK, RoutesFiled, CursorAtEveryLevel, Connected

-----------------------------------------------------------------------------
(***************************************************************************)
(* Publishing.  A message takes the routes of a set gone out of the lists  *)
(* and leaves those of a set add in one of them, with the message as their *)
(* data; both sets have at most one element, and either may be empty.      *)
(***************************************************************************)
\* The operations on objects leave the ids of the clients alone.
LEMMA ObjOpsKeepIds ==
    ASSUME NEW b, b.eid \in [Entries -> Nat], b.id \in Nat,
           NEW o \in Objs, NEW c \in Clients
    PROVE  /\ broker_add_obj(b, o).eid[c] = b.eid[c]
           /\ broker_add_obj(b, o).eid \in [Entries -> Nat]
           /\ broker_add_obj(b, o).id \in Nat
           /\ broker_del_obj_now(b, o).eid[c] = b.eid[c]
           /\ broker_upd_obj(b, o).eid[c] = b.eid[c]
           /\ broker_del_obj(b, o).eid[c] = b.eid[c]
<1>1. o # c /\ o \in Entries /\ c \in Entries
  BY EntriesAssumption DEF Entries
<1>2. /\ broker_add_obj(b, o).eid = [b.eid EXCEPT ![o] = b.id + 1]
      /\ broker_add_obj(b, o).id = b.id + 1
  BY DEF broker_add_obj
<1>3. broker_del_obj_now(b, o).eid = [b.eid EXCEPT ![o] = 0]
  BY DEF broker_del_obj_now
<1>4. broker_upd_obj(b, o).eid = [b.eid EXCEPT ![o] = b.id + 1]
  BY DEF broker_upd_obj, ToTail
<1>5. \/ broker_del_obj(b, o).eid = [b.eid EXCEPT ![o] = 0]
      \/ broker_del_obj(b, o).eid = [b.eid EXCEPT ![o] = b.id + 1]
  BY <1>3 DEF broker_del_obj, ToTail
<1> QED
  BY <1>1, <1>2, <1>3, <1>4, <1>5

\* What becomes of one level: new enters it, or goes to its tail, with the data
\* d, every client has it to read, and no cursor moves.
Level(p, gone, new, d) ==
    /\ BrokerOK(route_broker'[p])
    /\ ClientsOf(route_broker'[p]) = Connected
    /\ ObjsOf(route_broker'[p]) = (ObjsOf(route_broker[p]) \ gone) \cup new
    /\ \A r \in new : r \in route_broker'[p].del <=> d = NULL
    /\ \A r \in Objs \ (gone \cup new) : r \in route_broker'[p].del <=> r \in route_broker[p].del
    /\ \A c \in Connected :
          Unread(route_broker'[p], c) = (Unread(route_broker[p], c) \ gone) \cup new
    /\ \A c \in Clients : route_broker'[p].eid[c] = route_broker[p].eid[c]

\* What becomes of the routes and of the hash table.
Rewritten(t, v, l, gone, add) ==
    /\ rib' \in [Objs -> [topic : Topics \cup {NULL}, pri : Priorities, data : Data]]
    /\ \A r \in add : rib'[r] = [topic |-> t, pri |-> l, data |-> v]
    /\ \A r \in Objs \ (gone \cup add) : rib'[r] = rib[r]
    /\ \A r \in gone \cup add : r \in Allocated(route_broker) => rib[r].topic = t
    /\ route_hashtbl' \in [Topics -> Objs \cup {NULL}]
    /\ \A u \in Topics \ {t} : route_hashtbl'[u] = route_hashtbl[u]
    /\ route_hashtbl[t] \in gone \cup add \cup {NULL}
    /\ route_hashtbl'[t] \in add \/ (route_hashtbl'[t] = NULL /\ v = NULL)
    /\ t \in Steady => add \subseteq {route_hashtbl'[t]}

\* What becomes of the lists, level l being the one of add.
Relisted(v, l, gone, add) ==
    /\ l \in Priorities /\ gone \subseteq Objs /\ add \subseteq Objs
    /\ DOMAIN route_broker' = Priorities
    /\ Level(l, gone, add, v)
    /\ \A p \in Priorities \ {l} : /\ Level(p, gone, {}, v)
                                   /\ add \cap ObjsOf(route_broker[p]) = {}
    /\ gone # {} /\ add = {} => Connected = {}

\* A level that is left alone.
LEMMA LevelSame ==
    ASSUME SafeInv, NEW p \in Priorities, NEW gone, NEW d,
           gone \cap ObjsOf(route_broker[p]) = {}, route_broker'[p] = route_broker[p]
    PROVE  Level(p, gone, {}, d)
<1>1. \A c : Unread(route_broker[p], c) \ gone = Unread(route_broker[p], c)
  BY DEF Unread
<1> QED
  BY <1>1, SafeFacts DEF Level

\* broker_add_obj of a new route.
LEMMA LevelAdd ==
    ASSUME SafeInv, NEW p \in Priorities, NEW gone, NEW v \in Vals, NEW r \in Objs,
           r \notin ObjsOf(route_broker[p]), gone \cap ObjsOf(route_broker[p]) = {},
           route_broker'[p] = broker_add_obj(route_broker[p], r)
    PROVE  Level(p, gone, {r}, v)
<1> DEFINE b == route_broker[p]
<1>1. BrokerOK(b) /\ ClientsOf(b) = Connected /\ b.del \subseteq ObjsOf(b)
  BY SafeFacts
<1>2. b.eid \in [Entries -> Nat] /\ b.id \in Nat
  BY <1>1 DEF BrokerOK, BrokerType
<1>3. \A c \in Clients : broker_add_obj(b, r).eid[c] = b.eid[c]
  BY <1>2, ObjOpsKeepIds, Zenon
<1> HIDE DEF b
<1>4. LET n == broker_add_obj(b, r) IN
      /\ BrokerOK(n)
      /\ ClientsOf(n) = ClientsOf(b)
      /\ ObjsOf(n) = ObjsOf(b) \cup {r}
      /\ n.del = b.del
      /\ \A c \in ClientsOf(b) : Unread(n, c) = Unread(b, c) \cup {r}
  BY <1>1, AddSummary DEF b
<1>5. \A c : Unread(b, c) \ gone = Unread(b, c)
  BY DEF Unread, b
<1> QED
  BY <1>1, <1>3, <1>4, <1>5, RouteBrokerAssumption, Zenon DEF Level, b

\* broker_upd_obj of a route.
LEMMA LevelUpd ==
    ASSUME SafeInv, NEW p \in Priorities, NEW v \in Vals, NEW h \in ObjsOf(route_broker[p]),
           route_broker'[p] = broker_upd_obj(route_broker[p], h)
    PROVE  Level(p, {}, {h}, v)
<1> DEFINE b == route_broker[p]
<1>1. BrokerOK(b) /\ ClientsOf(b) = Connected
  BY SafeFacts
<1>2. b.eid \in [Entries -> Nat] /\ b.id \in Nat
  BY <1>1 DEF BrokerOK, BrokerType
<1>3. \A c \in Clients : broker_upd_obj(b, h).eid[c] = b.eid[c]
  BY <1>2, ObjOpsKeepIds, SafeFacts
<1> HIDE DEF b
<1>4. LET n == broker_upd_obj(b, h) IN
      /\ BrokerOK(n)
      /\ ClientsOf(n) = ClientsOf(b)
      /\ ObjsOf(n) = ObjsOf(b)
      /\ n.del = b.del \ {h}
      /\ \A c \in ClientsOf(b) : Unread(n, c) = Unread(b, c) \cup {h}
  BY <1>1, UpdSummary, Zenon DEF b
<1> QED
  BY <1>1, <1>3, <1>4, RouteBrokerAssumption, Zenon DEF Level, b

\* broker_del_obj_now of a route.
LEMMA LevelDelNow ==
    ASSUME SafeInv, NEW p \in Priorities, NEW d, NEW h \in Objs,
           route_broker'[p] = broker_del_obj_now(route_broker[p], h)
    PROVE  Level(p, {h}, {}, d)
<1> DEFINE b == route_broker[p]
<1>1. BrokerOK(b) /\ ClientsOf(b) = Connected
  BY SafeFacts
<1>2. b.eid \in [Entries -> Nat] /\ b.id \in Nat
  BY <1>1 DEF BrokerOK, BrokerType
<1>3. \A c \in Clients : broker_del_obj_now(b, h).eid[c] = b.eid[c]
  BY <1>2, ObjOpsKeepIds
<1> HIDE DEF b
<1>4. LET n == broker_del_obj_now(b, h) IN
      /\ BrokerOK(n)
      /\ ClientsOf(n) = ClientsOf(b)
      /\ ObjsOf(n) = ObjsOf(b) \ {h}
      /\ n.del = b.del \ {h}
      /\ \A c \in ClientsOf(b) : Unread(n, c) = Unread(b, c) \ {h}
  BY <1>1, DelNowSummary
<1> QED
  BY <1>1, <1>3, <1>4, Zenon DEF Level, b

\* broker_del_obj of a route: with no client it goes at once.
LEMMA LevelDel ==
    ASSUME SafeInv, NEW p \in Priorities, NEW h \in ObjsOf(route_broker[p]),
           route_broker'[p] = broker_del_obj(route_broker[p], h)
    PROVE  IF Connected = {} THEN Level(p, {h}, {}, NULL) ELSE Level(p, {}, {h}, NULL)
<1> DEFINE b == route_broker[p]
<1>1. BrokerOK(b) /\ ClientsOf(b) = Connected
  BY SafeFacts
<1>2. b.eid \in [Entries -> Nat] /\ b.id \in Nat
  BY <1>1 DEF BrokerOK, BrokerType
<1>3. \A c \in Clients : broker_del_obj(b, h).eid[c] = b.eid[c]
  BY <1>2, ObjOpsKeepIds, SafeFacts, Zenon
<1> HIDE DEF b
<1>4. LET n == broker_del_obj(b, h) IN
      /\ BrokerOK(n)
      /\ ClientsOf(n) = ClientsOf(b)
      /\ \/ /\ ClientsOf(b) = {}
            /\ ObjsOf(n) = ObjsOf(b) \ {h}
            /\ n.del = b.del \ {h}
         \/ /\ ClientsOf(b) # {}
            /\ ObjsOf(n) = ObjsOf(b)
            /\ n.del = b.del \cup {h}
      /\ \A c \in ClientsOf(b) : Unread(n, c) = Unread(b, c) \cup {h}
  BY <1>1, DelSummary DEF b
<1>5. CASE Connected = {}
  BY <1>1, <1>3, <1>4, <1>5, Zenon DEF Level, b
<1>6. CASE Connected # {}
  BY <1>1, <1>3, <1>4, <1>6, Zenon DEF Level, b
<1> QED
  BY <1>5, <1>6

\* broker_add_obj of a new route and broker_del_obj of it at once: with no
\* client nothing has changed.
LEMMA LevelAddDel ==
    ASSUME SafeInv, NEW p \in Priorities, NEW gone, NEW r \in Objs,
           r \notin ObjsOf(route_broker[p]), gone \cap ObjsOf(route_broker[p]) = {},
           route_broker'[p] = broker_del_obj(broker_add_obj(route_broker[p], r), r)
    PROVE  Level(p, gone, IF Connected = {} THEN {} ELSE {r}, NULL)
<1> DEFINE b == route_broker[p]
           m == broker_add_obj(b, r)
<1>1. BrokerOK(b) /\ ClientsOf(b) = Connected /\ b.del \subseteq ObjsOf(b)
  BY SafeFacts
<1>2. \A c : Unread(b, c) \ gone = Unread(b, c)
  BY DEF Unread
<1>3. r \notin ObjsOf(b) /\ gone \cap ObjsOf(b) = {}
  OBVIOUS
<1> HIDE DEF b
<1>4. /\ BrokerOK(m)
      /\ ClientsOf(m) = ClientsOf(b)
      /\ ObjsOf(m) = ObjsOf(b) \cup {r}
      /\ m.del = b.del
      /\ \A c \in ClientsOf(b) : Unread(m, c) = Unread(b, c) \cup {r}
  BY <1>1, <1>3, AddSummary
<1>5. b.eid \in [Entries -> Nat] /\ b.id \in Nat
  BY <1>1, Zenon DEF BrokerOK, BrokerType
<1>6. \A c \in Clients : m.eid[c] = b.eid[c]
  BY <1>5, ObjOpsKeepIds, Zenon
<1> HIDE DEF m
<1>7. m.eid \in [Entries -> Nat] /\ m.id \in Nat
  BY <1>4 DEF BrokerOK, BrokerType
<1>8. \A c \in Clients : broker_del_obj(m, r).eid[c] = b.eid[c]
  BY <1>6, <1>7, ObjOpsKeepIds
<1>9. LET n == broker_del_obj(m, r) IN
      /\ BrokerOK(n)
      /\ ClientsOf(n) = ClientsOf(m)
      /\ \/ /\ ClientsOf(m) = {}
            /\ ObjsOf(n) = ObjsOf(m) \ {r}
            /\ n.del = m.del \ {r}
         \/ /\ ClientsOf(m) # {}
            /\ ObjsOf(n) = ObjsOf(m)
            /\ n.del = m.del \cup {r}
      /\ \A c \in ClientsOf(m) : Unread(n, c) = Unread(m, c) \cup {r}
  BY <1>4, DelSummary
<1> DEFINE n == broker_del_obj(m, r)
<1>10. route_broker'[p] = n /\ route_broker[p] = b
  BY DEF b, m
<1> HIDE DEF n
<1>11. /\ BrokerOK(n) /\ ClientsOf(n) = Connected
       /\ \A c \in Connected : Unread(n, c) = Unread(b, c) \cup {r}
       /\ \A c \in Clients : n.eid[c] = b.eid[c]
  BY <1>1, <1>4, <1>8, <1>9, Zenon DEF n
<1>12. CASE Connected = {}
  <2>1. ObjsOf(n) = ObjsOf(b) /\ n.del = b.del
    BY <1>1, <1>3, <1>4, <1>9, <1>12 DEF n
  <2>2. Level(p, gone, {}, NULL)
    BY <1>3, <1>10, <1>11, <1>12, <2>1, Zenon DEF Level
  <2> QED
    BY <1>12, <2>2, Zenon
<1>13. CASE Connected # {}
  <2>1. ObjsOf(n) = ObjsOf(b) \cup {r} /\ n.del = b.del \cup {r}
    BY <1>1, <1>4, <1>9, <1>13, Zenon DEF n
  <2>2. Level(p, gone, {r}, NULL)
    BY <1>2, <1>3, <1>10, <1>11, <2>1, Zenon DEF Level
  <2> QED
    BY <1>13, <2>2, Zenon
<1> QED
  BY <1>12, <1>13, Zenon

\* The routes and what clients have to read, over all levels.
LEMMA RelistedSets ==
    ASSUME SafeInv, NEW v, NEW l, NEW gone, NEW add, Relisted(v, l, gone, add)
    PROVE  /\ Connected' = Connected
           /\ Allocated(route_broker') = (Allocated(route_broker) \ gone) \cup add
           /\ \A c \in Connected :
                 UnreadBy(route_broker', c) = (UnreadBy(route_broker, c) \ gone) \cup add
<1>0. l \in Priorities /\ add \subseteq Objs
  BY DEF Relisted
<1>1. Connected' = Connected
  BY PrioritiesFacts DEF Relisted, Level, Connected
<1>2. \A p \in Priorities :
         ObjsOf(route_broker'[p]) = (ObjsOf(route_broker[p]) \ gone) \cup (IF p = l THEN add ELSE {})
  BY DEF Relisted, Level
<1>3. Allocated(route_broker') = (Allocated(route_broker) \ gone) \cup add
  BY <1>0, <1>2 DEF Allocated
<1>4. ASSUME NEW c \in Connected
      PROVE  UnreadBy(route_broker', c) = (UnreadBy(route_broker, c) \ gone) \cup add
  <2>1. \A p \in Priorities :
           Unread(route_broker'[p], c) =
              (Unread(route_broker[p], c) \ gone) \cup (IF p = l THEN add ELSE {})
    BY DEF Relisted, Level
  <2> QED
    BY <1>0, <2>1, Zenon DEF UnreadBy
<1> QED
  BY <1>1, <1>3, <1>4

\* A message leaves lists, routes and hash table in agreement.
LEMMA RewrittenSafe ==
    ASSUME SafeInv, NEW t \in Topics, NEW v, NEW l, NEW gone, NEW add,
           Relisted(v, l, gone, add), Rewritten(t, v, l, gone, add),
           table' \in [Topics -> Data], view' = view
    PROVE  SafeInv'
<1>1. /\ Connected' = Connected
      /\ Allocated(route_broker') = (Allocated(route_broker) \ gone) \cup add
      /\ \A c \in Connected :
            UnreadBy(route_broker', c) = (UnreadBy(route_broker, c) \ gone) \cup add
  BY RelistedSets
<1>2. \A p \in Priorities : BrokerOK(route_broker'[p]) /\ ClientsOf(route_broker'[p]) = Connected
  BY Zenon DEF Relisted, Level
<1>3. TypeOK'
  BY <1>2 DEF SafeInv, TypeOK, BrokerOK, Relisted, Rewritten
<1>4. BrokersInOrder' /\ CursorAtEveryLevel'
  BY <1>1, <1>2, Zenon DEF BrokersInOrder, BrokerOK, CursorAtEveryLevel
<1>5. RoutesFiled'
  <2> SUFFICES ASSUME NEW p \in Priorities, NEW r \in ObjsOf(route_broker'[p])
               PROVE  /\ rib'[r].pri = p
                      /\ rib'[r].topic \in Topics
                      /\ r \in route_broker'[p].del <=> rib'[r].data = NULL
    BY Zenon DEF RoutesFiled
  <2>1. CASE r \in add
    <3>1. p = l
      BY <2>1 DEF Relisted, Level
    <3> QED
      BY <2>1, <3>1 DEF Relisted, Level, Rewritten
  <2>2. CASE r \notin add
    <3>1. r \in ObjsOf(route_broker[p]) \ gone /\ r \in Objs
      BY <2>2, SafeFacts DEF Relisted, Level
    <3>2. rib'[r] = rib[r]
      BY <2>2, <3>1, Zenon DEF Rewritten
    <3>3. r \in route_broker'[p].del <=> r \in route_broker[p].del
      BY <2>2, <3>1 DEF Relisted, Level
    <3> QED
      BY <3>1, <3>2, <3>3, SafeFacts
  <2> QED
    BY <2>1, <2>2, Zenon
<1>6. HashIsLive'
  <2> SUFFICES ASSUME NEW u \in Topics, route_hashtbl'[u] # NULL
               PROVE  /\ route_hashtbl'[u] \in Allocated(route_broker')
                      /\ rib'[route_hashtbl'[u]].topic = u
    BY Zenon DEF HashIsLive
  <2>1. CASE u = t
    BY <1>1, <2>1 DEF Rewritten
  <2>2. CASE u # t
    <3>1. /\ route_hashtbl'[u] = route_hashtbl[u]
          /\ route_hashtbl[u] \in Allocated(route_broker)
          /\ rib[route_hashtbl[u]].topic = u
      BY <2>2, Zenon DEF Rewritten, SafeInv, HashIsLive
    <3>2. route_hashtbl[u] \in Objs \ (gone \cup add)
      BY <2>2, <3>1, Zenon DEF Rewritten, Allocated
    <3> QED
      BY <1>1, <3>1, <3>2, Zenon DEF Rewritten
  <2> QED
    BY <2>1, <2>2
<1> QED
  BY <1>3, <1>4, <1>5, <1>6, Zenon DEF SafeInv

\* A message about t has been stored.
Published(t, v) ==
    \E l, gone, add : Relisted(v, l, gone, add) /\ Rewritten(t, v, l, gone, add)

\* The route that the hash table has for a topic.
LEMMA HashedRoute ==
    ASSUME SafeInv, NEW t \in Topics, NEW h, h = route_hashtbl[t], h # NULL
    PROVE  /\ h \in Objs /\ h \in Allocated(route_broker)
           /\ rib[h].topic = t /\ rib[h].pri \in Priorities
           /\ h \in ObjsOf(route_broker[rib[h].pri])
           /\ \A p \in Priorities \ {rib[h].pri} : h \notin ObjsOf(route_broker[p])
<1>1. h \in Objs /\ h \in Allocated(route_broker) /\ rib[h].topic = t
  BY DEF SafeInv, HashIsLive, TypeOK
<1> QED
  BY <1>1, SafeFacts

\* rib_route_delete of a route leaves the other topics in the hash table.
LEMMA UnhashedTopic ==
    ASSUME SafeInv, NEW t \in Topics, NEW h \in Objs, rib[h].topic = t
    PROVE  /\ Unhashed({h}) \in [Topics -> Objs \cup {NULL}]
           /\ Unhashed({h})[t] = NULL
           /\ \A u \in Topics \ {t} : Unhashed({h})[u] = route_hashtbl[u]
BY DEF Unhashed, SafeInv, TypeOK

\* PublishNew: the new route r enters level pri.
LEMMA NewStored ==
    ASSUME SafeInv, NEW t \in Topics, NEW v \in Vals, NEW pri \in Priorities,
           PublishNew(t, v, pri)
    PROVE  Published(t, v)
<1>1. PICK r \in Objs \ Allocated(route_broker) :
         /\ route_broker' = [route_broker EXCEPT ![pri] = broker_add_obj(@, r)]
         /\ rib' = [rib EXCEPT ![r] = [topic |-> t, pri |-> pri, data |-> v]]
         /\ route_hashtbl' = [route_hashtbl EXCEPT ![t] = r]
  BY Zenon DEF PublishNew, rib_route_create
<1>2. /\ DOMAIN route_broker' = Priorities
      /\ route_broker'[pri] = broker_add_obj(route_broker[pri], r)
      /\ \A p \in Priorities \ {pri} : route_broker'[p] = route_broker[p]
      /\ \A p \in Priorities : r \notin ObjsOf(route_broker[p])
  BY <1>1, SafeFacts, Zenon
<1>3. Level(pri, {}, {r}, v)
  BY <1>2, LevelAdd, Zenon
<1>4. \A p \in Priorities \ {pri} : Level(p, {}, {}, v)
  BY <1>2, LevelSame, Zenon
<1>5. Relisted(v, pri, {}, {r})
  BY <1>2, <1>3, <1>4, Zenon DEF Relisted
<1>6. Rewritten(t, v, pri, {}, {r})
  BY <1>1 DEF Rewritten, PublishNew, SafeInv, TypeOK, Data
<1> QED
  BY <1>5, <1>6 DEF Published

\* PublishUpdate: the route the topic hashes to goes to the tail of its level.
LEMMA UpdateStored ==
    ASSUME SafeInv, NEW t \in Topics, NEW v \in Vals, NEW pri \in Priorities,
           PublishUpdate(t, v, pri)
    PROVE  Published(t, v)
<1> DEFINE h == route_hashtbl[t]
           l == rib[h].pri
<1>1. /\ h # NULL
      /\ route_broker' = [route_broker EXCEPT ![l] = broker_upd_obj(@, h)]
      /\ rib' = [rib EXCEPT ![h] = [topic |-> t, pri |-> l, data |-> v]]
      /\ route_hashtbl' = route_hashtbl
  BY Zenon DEF PublishUpdate
<1>2. /\ h \in Objs /\ h \in Allocated(route_broker) /\ rib[h].topic = t
      /\ l \in Priorities
      /\ h \in ObjsOf(route_broker[l])
      /\ \A p \in Priorities \ {l} : h \notin ObjsOf(route_broker[p])
  BY <1>1, HashedRoute, Zenon
<1> HIDE DEF h, l
<1>3. /\ DOMAIN route_broker' = Priorities
      /\ route_broker'[l] = broker_upd_obj(route_broker[l], h)
      /\ \A p \in Priorities \ {l} : route_broker'[p] = route_broker[p]
  BY <1>1, <1>2, SafeFacts, Zenon
<1>4. Level(l, {}, {h}, v)
  BY <1>2, <1>3, LevelUpd, Zenon
<1>5. \A p \in Priorities \ {l} : Level(p, {}, {}, v)
  BY <1>3, LevelSame, Zenon
<1>6. Relisted(v, l, {}, {h})
  BY <1>2, <1>3, <1>4, <1>5, Zenon DEF Relisted
<1>7. Rewritten(t, v, l, {}, {h})
  BY <1>1, <1>2, Zenon DEF Rewritten, SafeInv, TypeOK, Data, h
<1> QED
  BY <1>6, <1>7, Zenon DEF Published

\* The structures, once some have been freed.
LEMMA ReleasedType ==
    ASSUME SafeInv, NEW gone
    PROVE  /\ Released(gone) \in [Objs -> [topic : Topics \cup {NULL}, pri : Priorities, data : Data]]
           /\ \A r \in Objs \ gone : Released(gone)[r] = rib[r]
BY PrioritiesFacts DEF SafeInv, TypeOK, Released, Unused, Data

\* PublishRaised: the route the topic hashes to leaves its level, and the new
\* route r enters the more urgent one.
LEMMA RaisedStored ==
    ASSUME SafeInv, NEW t \in Topics, NEW v \in Vals, NEW pri \in Priorities,
           PublishRaised(t, v, pri)
    PROVE  Published(t, v)
<1> DEFINE h == route_hashtbl[t]
           l == rib[h].pri
<1>1. h # NULL /\ l > pri
  BY DEF PublishRaised
<1>2. PICK r \in Objs \ Allocated(route_broker) :
         /\ route_broker' = [route_broker EXCEPT ![l] = broker_del_obj_now(@, h),
                                                 ![pri] = broker_add_obj(@, r)]
         /\ rib' = [Released({h}) EXCEPT ![r] = [topic |-> t, pri |-> pri, data |-> v]]
         /\ route_hashtbl' = [Unhashed({h}) EXCEPT ![t] = r]
  BY Zenon DEF PublishRaised, rib_route_create
<1>3. /\ h \in Objs /\ h \in Allocated(route_broker) /\ rib[h].topic = t
      /\ l \in Priorities
      /\ h \in ObjsOf(route_broker[l])
      /\ \A p \in Priorities \ {l} : h \notin ObjsOf(route_broker[p])
  BY <1>1, HashedRoute
<1>4. /\ Unhashed({h}) \in [Topics -> Objs \cup {NULL}]
      /\ \A u \in Topics \ {t} : Unhashed({h})[u] = route_hashtbl[u]
  BY <1>3, UnhashedTopic, ZenonT(40)
<1> HIDE DEF h, l
<1>5. l # pri
  BY <1>1, <1>3, PrioritiesFacts
<1>6. /\ DOMAIN route_broker' = Priorities
      /\ route_broker'[l] = broker_del_obj_now(route_broker[l], h)
      /\ route_broker'[pri] = broker_add_obj(route_broker[pri], r)
      /\ \A p \in Priorities \ {l, pri} : route_broker'[p] = route_broker[p]
      /\ \A p \in Priorities : r \notin ObjsOf(route_broker[p])
  BY <1>2, <1>3, <1>5, SafeFacts
<1>7. Level(pri, {h}, {r}, v)
  BY <1>3, <1>5, <1>6, LevelAdd, Zenon
<1>8. Level(l, {h}, {}, v)
  BY <1>3, <1>6, LevelDelNow, Zenon
<1>9. \A p \in Priorities \ {l, pri} : Level(p, {h}, {}, v)
  BY <1>3, <1>6, LevelSame, Zenon
<1>10. Relisted(v, pri, {h}, {r})
  BY <1>3, <1>6, <1>7, <1>8, <1>9, Zenon DEF Relisted
<1>11. Rewritten(t, v, pri, {h}, {r})
  BY <1>2, <1>3, <1>4, ReleasedType, Zenon DEF Rewritten, Data, h
<1> QED
  BY <1>10, <1>11, Zenon DEF Published

\* DeleteKnown: the route the topic hashes to is flagged and goes to the tail of
\* its level, or leaves it when there is no client.
LEMMA KnownStored ==
    ASSUME SafeInv, NEW t \in Topics, NEW pri \in Priorities, DeleteKnown(t, pri)
    PROVE  Published(t, NULL)
<1> DEFINE h == route_hashtbl[t]
           l == rib[h].pri
<1>1. /\ h # NULL
      /\ route_broker' = [route_broker EXCEPT ![l] = broker_del_obj(@, h)]
      /\ rib' = IF h \in Freed THEN Released(Freed)
                ELSE [rib EXCEPT ![h] = [topic |-> t, pri |-> l, data |-> NULL]]
      /\ route_hashtbl' = Unhashed(Freed)
  BY Zenon DEF DeleteKnown
<1>2. /\ h \in Objs /\ h \in Allocated(route_broker) /\ rib[h].topic = t
      /\ l \in Priorities
      /\ h \in ObjsOf(route_broker[l])
      /\ \A p \in Priorities \ {l} : h \notin ObjsOf(route_broker[p])
  BY <1>1, HashedRoute
<1>3. /\ Unhashed({h}) \in [Topics -> Objs \cup {NULL}]
      /\ Unhashed({h})[t] = NULL
      /\ \A u \in Topics \ {t} : Unhashed({h})[u] = route_hashtbl[u]
  BY <1>2, UnhashedTopic, Zenon
<1>4. rib \in [Objs -> [topic : Topics \cup {NULL}, pri : Priorities, data : Data]]
      /\ route_hashtbl \in [Topics -> Objs \cup {NULL}]
  BY DEF SafeInv, TypeOK
<1>5. route_hashtbl[t] = h
  BY Zenon
<1> HIDE DEF h, l
<1>6. /\ DOMAIN route_broker' = Priorities
      /\ route_broker'[l] = broker_del_obj(route_broker[l], h)
      /\ \A p \in Priorities \ {l} : route_broker'[p] = route_broker[p]
  BY <1>1, <1>2, SafeFacts, Zenon
<1>7. IF Connected = {} THEN Level(l, {h}, {}, NULL) ELSE Level(l, {}, {h}, NULL)
  BY <1>2, <1>6, LevelDel, Zenon
<1>8. \A p \in Priorities \ {l} : Level(p, {}, {}, NULL) /\ Level(p, {h}, {}, NULL)
  BY <1>2, <1>6, LevelSame
<1>9. CASE Connected = {}
  <2>1. Relisted(NULL, l, {h}, {})
    BY <1>2, <1>6, <1>7, <1>8, <1>9, Zenon DEF Relisted
  <2>2. Allocated(route_broker') = (Allocated(route_broker) \ {h}) \cup {}
    BY <2>1, RelistedSets
  <2>3. Freed = {h}
    BY <1>2, <2>2 DEF Freed
  <2>4. Rewritten(t, NULL, l, {h}, {})
    BY <1>1, <1>2, <1>3, <1>5, <2>3, ReleasedType, Zenon DEF Rewritten
  <2> QED
    BY <2>1, <2>4 DEF Published
<1>10. CASE Connected # {}
  <2>1. Relisted(NULL, l, {}, {h})
    BY <1>2, <1>6, <1>7, <1>8, <1>10, Zenon DEF Relisted
  <2>2. Allocated(route_broker') = (Allocated(route_broker) \ {}) \cup {h}
    BY <2>1, RelistedSets
  <2>3. Freed = {}
    BY <1>2, <2>2 DEF Freed
  <2>4. Unhashed({}) = route_hashtbl
    BY <1>4, Zenon DEF Unhashed
  <2>5. Rewritten(t, NULL, l, {}, {h})
    BY <1>1, <1>2, <1>4, <1>5, <2>3, <2>4, Zenon DEF Rewritten, Data
  <2> QED
    BY <2>1, <2>5, Zenon DEF Published
<1> QED
  BY <1>9, <1>10, Zenon

\* DeleteRaised: the route the topic hashes to leaves its level, and a new one,
\* flagged from the start, enters the more urgent one if there is a client.  The
\* topic does not hash to it, so it is none of the steady ones.
LEMMA DeleteRaisedStored ==
    ASSUME SafeInv, NEW t \in RaisedDeletes, NEW pri \in Priorities, DeleteRaised(t, pri)
    PROVE  Published(t, NULL)
<1> DEFINE h == route_hashtbl[t]
           l == rib[h].pri
<1>0. t \in Topics /\ t \notin Steady
  BY RouteBrokerAssumption, Zenon DEF Steady
<1>1. h # NULL /\ l > pri
  BY DEF DeleteRaised
<1>2. PICK r \in Objs \ Allocated(route_broker) :
         /\ route_broker' = [route_broker EXCEPT
                                ![l] = broker_del_obj_now(@, h),
                                ![pri] = broker_del_obj(broker_add_obj(@, r), r)]
         /\ rib' = IF r \in Allocated(route_broker')
                   THEN [Released({h}) EXCEPT ![r] = [topic |-> t, pri |-> pri, data |-> NULL]]
                   ELSE Released({h})
         /\ route_hashtbl' = Unhashed({h})
  BY Zenon DEF DeleteRaised, rib_route_create
<1>3. /\ h \in Objs /\ h \in Allocated(route_broker) /\ rib[h].topic = t
      /\ l \in Priorities
      /\ h \in ObjsOf(route_broker[l])
      /\ \A p \in Priorities \ {l} : h \notin ObjsOf(route_broker[p])
  BY <1>0, <1>1, HashedRoute, Zenon
<1>4. /\ Unhashed({h}) \in [Topics -> Objs \cup {NULL}]
      /\ Unhashed({h})[t] = NULL
      /\ \A u \in Topics \ {t} : Unhashed({h})[u] = route_hashtbl[u]
  BY <1>0, <1>3, UnhashedTopic
<1>5. /\ route_hashtbl[t] = h /\ route_hashtbl' = Unhashed({h})
      /\ r \in Objs /\ r \notin Allocated(route_broker)
  BY <1>2
<1> HIDE DEF h, l
<1>6. l # pri
  BY <1>1, <1>3, PrioritiesFacts
<1>7. /\ DOMAIN route_broker' = Priorities
      /\ route_broker'[l] = broker_del_obj_now(route_broker[l], h)
      /\ route_broker'[pri] = broker_del_obj(broker_add_obj(route_broker[pri], r), r)
      /\ \A p \in Priorities \ {l, pri} : route_broker'[p] = route_broker[p]
      /\ \A p \in Priorities : r \notin ObjsOf(route_broker[p])
  BY <1>2, <1>3, <1>6, SafeFacts, Zenon
<1>8. Level(pri, {h}, IF Connected = {} THEN {} ELSE {r}, NULL)
  BY <1>3, <1>6, <1>7, LevelAddDel, Zenon
<1>9. Level(l, {h}, {}, NULL)
  BY <1>3, <1>7, LevelDelNow, Zenon
<1>10. \A p \in Priorities \ {l, pri} : Level(p, {h}, {}, NULL)
  BY <1>3, <1>7, LevelSame, Zenon
<1>11. CASE Connected = {}
  <2>1. Relisted(NULL, pri, {h}, {})
    BY <1>3, <1>7, <1>8, <1>9, <1>10, <1>11, Zenon DEF Relisted
  <2>2. Allocated(route_broker') = (Allocated(route_broker) \ {h}) \cup {}
    BY <2>1, RelistedSets
  <2>3. rib' = Released({h})
    BY <1>2, <2>2, Zenon
  <2>4. Rewritten(t, NULL, pri, {h}, {})
    BY <1>0, <1>3, <1>4, <1>5, <2>3, ReleasedType, Zenon DEF Rewritten
  <2> QED
    BY <2>1, <2>4, Zenon DEF Published
<1>12. CASE Connected # {}
  <2>1. Relisted(NULL, pri, {h}, {r})
    BY <1>3, <1>7, <1>8, <1>9, <1>10, <1>12, Zenon DEF Relisted
  <2>2. Allocated(route_broker') = (Allocated(route_broker) \ {h}) \cup {r}
    BY <2>1, RelistedSets
  <2>3. rib' = [Released({h}) EXCEPT ![r] = [topic |-> t, pri |-> pri, data |-> NULL]]
    BY <1>2, <2>2, Zenon
  <2>4. /\ rib' \in [Objs -> [topic : Topics \cup {NULL}, pri : Priorities, data : Data]]
        /\ rib'[r] = [topic |-> t, pri |-> pri, data |-> NULL]
        /\ \A x \in Objs \ {h, r} : rib'[x] = rib[x]
    BY <1>0, <1>5, <2>3, ReleasedType, Zenon DEF Data
  <2>5. Rewritten(t, NULL, pri, {h}, {r})
    BY <1>0, <1>3, <1>4, <1>5, <2>4, Zenon DEF Rewritten
  <2> QED
    BY <2>1, <2>5, Zenon DEF Published
<1> QED
  BY <1>11, <1>12, Zenon

\* DeleteUnknown: nothing changes.
LEMMA UnknownStored ==
    ASSUME SafeInv, NEW t \in Topics, DeleteUnknown(t)
    PROVE  Published(t, NULL)
<1>1. /\ route_hashtbl[t] = NULL
      /\ route_broker' = route_broker /\ rib' = rib /\ route_hashtbl' = route_hashtbl
  BY DEF DeleteUnknown
<1>2. \A p \in Priorities : Level(p, {}, {}, NULL)
  BY <1>1, LevelSame, Zenon
<1>3. Relisted(NULL, 0, {}, {})
  BY <1>1, <1>2, SafeFacts, PrioritiesFacts, Zenon DEF Relisted
<1>4. Rewritten(t, NULL, 0, {}, {})
  BY <1>1 DEF Rewritten, SafeInv, TypeOK
<1> QED
  BY <1>3, <1>4 DEF Published

\* Every way of publishing stores the message, and leaves lists, routes and hash
\* table in agreement.
LEMMA PublishStored ==
    ASSUME SafeInv, NEW t \in Topics, NEW v \in Data, NEW pri \in Priorities,
           object_broker_publish(t, v, pri)
    PROVE  Published(t, v) /\ SafeInv'
<1>1. /\ table' \in [Topics -> Data]
      /\ view' = view
  BY DEF object_broker_publish, SafeInv, TypeOK
<1>2. Published(t, v)
  <2>1. CASE v = NULL
    <3>1. CASE t \in RaisedDeletes /\ DeleteRaised(t, pri)
      BY <2>1, <3>1, DeleteRaisedStored, Zenon
    <3>2. CASE DeleteKnown(t, pri)
      BY <2>1, <3>2, KnownStored, Zenon
    <3>3. CASE DeleteUnknown(t)
      BY <2>1, <3>3, UnknownStored, Zenon
    <3> QED
      BY <2>1, <3>1, <3>2, <3>3, Zenon DEF object_broker_publish
  <2>2. CASE v # NULL
    <3>0. v \in Vals
      BY <2>2 DEF Data
    <3>1. CASE PublishNew(t, v, pri)
      BY <3>0, <3>1, NewStored, Zenon
    <3>2. CASE PublishRaised(t, v, pri)
      BY <3>0, <3>2, RaisedStored, Zenon
    <3>3. CASE PublishUpdate(t, v, pri)
      BY <3>0, <3>3, UpdateStored
    <3> QED
      BY <2>2, <3>1, <3>2, <3>3, Zenon DEF object_broker_publish
  <2> QED
    BY <2>1, <2>2, Zenon
<1>3. PICK l, gone, add : Relisted(v, l, gone, add) /\ Rewritten(t, v, l, gone, add)
  BY <1>2 DEF Published
<1> QED
  BY <1>1, <1>2, <1>3, RewrittenSafe, Zenon
==============================================================================

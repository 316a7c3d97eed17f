------------------------- MODULE RouteBrokerTheorems -------------------------
(***************************************************************************)
(* What holds of the route broker: for any sets of routes, topics and      *)
(* clients, any number of priorities and any number of messages.           *)
(*                                                                         *)
(* First, whatever is published: the lists, the hash table and the cursors *)
(* keep together, what a client gets first, and what the show command      *)
(* meets.  Then, for the topics of which no delete comes at a more urgent  *)
(* priority than the route it deletes: nothing is lost, and the broker     *)
(* implements RouteFeed, whatever happens to the other topics.             *)
(***************************************************************************)
EXTENDS RouteBrokerPublishTheorems

(***************************************************************************)
(* Clients.  One that leaves or reads takes routes out of the lists only   *)
(* when they are deleted, and they are freed.                              *)
(***************************************************************************)
\* What client c leaves of a level.
Trimmed(p, c) ==
    /\ BrokerOK(route_broker'[p])
    /\ ObjsOf(route_broker'[p]) \subseteq ObjsOf(route_broker[p])
    /\ ObjsOf(route_broker[p]) \ ObjsOf(route_broker'[p]) \subseteq route_broker[p].del
    /\ route_broker'[p].del = route_broker[p].del \cap ObjsOf(route_broker'[p])
    /\ \A d \in Connected \ {c} : Unread(route_broker'[p], d) = Unread(route_broker[p], d)

\* What client c leaves of the routes and of the hash table.
Cleaned(c) ==
    /\ Allocated(route_broker') \subseteq Allocated(route_broker)
    /\ \A r \in Freed : rib[r].data = NULL
    /\ \A r \in Objs \ Freed : rib'[r] = rib[r]
    /\ \A t \in Topics : \/ /\ route_hashtbl'[t] = route_hashtbl[t]
                            /\ \A r \in Freed : rib[r].topic # t
                         \/ /\ route_hashtbl'[t] = NULL
                            /\ \E r \in Freed : rib[r].topic = t
    /\ \A d \in Connected \ {c} : UnreadBy(route_broker', d) = UnreadBy(route_broker, d)

\* Freeing what left the lists leaves no trace of it in the hash table.
LEMMA FreedCleaned ==
    ASSUME SafeInv, NEW c, \A p \in Priorities : Trimmed(p, c),
           rib' = Released(Freed), route_hashtbl' = Unhashed(Freed)
    PROVE  Cleaned(c)
<1>1. \A p \in Priorities :
         ObjsOf(route_broker'[p]) \subseteq ObjsOf(route_broker[p])
  BY DEF Trimmed
<1>2. Allocated(route_broker') \subseteq Allocated(route_broker)
  BY <1>1 DEF Allocated
<1>3. ASSUME NEW r \in Freed
      PROVE  rib[r].data = NULL
  <2>1. r \in Allocated(route_broker) /\ r \notin Allocated(route_broker') /\ r \in Objs
    BY DEF Freed, Allocated
  <2>2. PICK p \in Priorities : r \in ObjsOf(route_broker[p]) \ ObjsOf(route_broker'[p])
    BY <2>1 DEF Allocated
  <2>3. r \in route_broker[p].del
    BY <2>2 DEF Trimmed
  <2> QED
    BY <2>2, <2>3, SafeFacts
<1>4. \A r \in Objs \ Freed : rib'[r] = rib[r]
  BY DEF Released
<1>5. \A t \in Topics : \/ /\ route_hashtbl'[t] = route_hashtbl[t]
                           /\ \A r \in Freed : rib[r].topic # t
                        \/ /\ route_hashtbl'[t] = NULL
                           /\ \E r \in Freed : rib[r].topic = t
  BY DEF Unhashed
<1>6. \A d \in Connected \ {c}, p \in Priorities :
         Unread(route_broker'[p], d) = Unread(route_broker[p], d)
  BY DEF Trimmed
<1>7. \A d \in Connected \ {c} : UnreadBy(route_broker', d) = UnreadBy(route_broker, d)
  BY <1>6 DEF UnreadBy
<1> QED
  BY <1>2, <1>3, <1>4, <1>5, <1>7, Zenon DEF Cleaned

\* What the operations of the clients have in common.
LEMMA ReleaseStep ==
    ASSUME SafeInv, NEW c, \A p \in Priorities : Trimmed(p, c),
           CursorAtEveryLevel',
           DOMAIN route_broker' = Priorities,
           rib' = Released(Freed), route_hashtbl' = Unhashed(Freed), table' = table,
           view' \in [Clients -> [Topics -> Data]]
    PROVE  SafeInv' /\ Cleaned(c)
<1>1. Cleaned(c)
  BY FreedCleaned
<1>2. \A p \in Priorities : BrokerOK(route_broker'[p])
  BY DEF Trimmed
<1>3. TypeOK'
  <2>1. Released(Freed) \in [Objs -> [topic : Topics \cup {NULL}, pri : Priorities, data : Data]]
    BY ReleasedType
  <2>2. Unhashed(Freed) \in [Topics -> Objs \cup {NULL}]
    BY DEF SafeInv, TypeOK, Unhashed
  <2> QED
    BY <1>2, <2>1, <2>2 DEF SafeInv, TypeOK, BrokerOK
<1>4. BrokersInOrder'
  BY <1>2 DEF BrokersInOrder, BrokerOK
<1>5. RoutesFiled'
  <2> SUFFICES ASSUME NEW p \in Priorities, NEW x \in ObjsOf(route_broker'[p])
               PROVE  /\ rib'[x].pri = p
                      /\ rib'[x].topic \in Topics
                      /\ x \in route_broker'[p].del <=> rib'[x].data = NULL
    BY DEF RoutesFiled
  <2>1. /\ x \in ObjsOf(route_broker[p])
        /\ x \in route_broker'[p].del <=> x \in route_broker[p].del
    BY DEF Trimmed
  <2>2. x \in Objs
    BY <2>1, SafeFacts
  <2>3. x \notin Freed
    BY <2>2 DEF Freed, Allocated
  <2>4. rib'[x] = rib[x]
    BY <1>1, <2>2, <2>3, Zenon DEF Cleaned
  <2> QED
    BY <2>1, <2>4, SafeFacts
<1>6. HashIsLive'
  <2> SUFFICES ASSUME NEW u \in Topics, route_hashtbl'[u] # NULL
               PROVE  /\ route_hashtbl'[u] \in Allocated(route_broker')
                      /\ rib'[route_hashtbl'[u]].topic = u
    BY DEF HashIsLive
  <2>1. /\ route_hashtbl'[u] = route_hashtbl[u]
        /\ \A r \in Freed : rib[r].topic # u
    BY <1>1 DEF Cleaned
  <2>2. /\ route_hashtbl[u] \in Allocated(route_broker)
        /\ route_hashtbl[u] \in Objs
        /\ rib[route_hashtbl[u]].topic = u
    BY <2>1 DEF SafeInv, HashIsLive, Allocated
  <2>3. route_hashtbl[u] \notin Freed
    BY <2>1, <2>2
  <2>4. rib'[route_hashtbl[u]] = rib[route_hashtbl[u]]
    BY <1>1, <2>2, <2>3 DEF Cleaned
  <2> QED
    BY <2>1, <2>2, <2>3, <2>4, Zenon DEF Freed
<1> QED
  BY <1>1, <1>3, <1>4, <1>5, <1>6, Zenon DEF SafeInv

\* broker_client_create at one level: the client has the whole list to read.
Opened(p, c) ==
    /\ BrokerOK(route_broker'[p])
    /\ ClientsOf(route_broker'[p]) = Connected \cup {c}
    /\ ObjsOf(route_broker'[p]) = ObjsOf(route_broker[p])
    /\ route_broker'[p].del = route_broker[p].del
    /\ Unread(route_broker'[p], c) = ObjsOf(route_broker[p])
    /\ \A d \in Connected : Unread(route_broker'[p], d) = Unread(route_broker[p], d)

\* A new client has everything that is allocated to read.
LEMMA ClientCreateStep ==
    ASSUME SafeInv, NEW c \in Clients, route_broker_client_create(c)
    PROVE  /\ SafeInv'
           /\ c \notin Connected
           /\ Connected' = Connected \cup {c}
           /\ Allocated(route_broker') = Allocated(route_broker)
           /\ UnreadBy(route_broker', c) = Allocated(route_broker)
           /\ \A d \in Connected : UnreadBy(route_broker', d) = UnreadBy(route_broker, d)
<1>1. /\ c \notin Connected
      /\ route_broker' = [p \in Priorities |-> broker_client_create(route_broker[p], c)]
      /\ view' = [view EXCEPT ![c] = NoRoutes]
      /\ rib' = rib /\ route_hashtbl' = route_hashtbl /\ table' = table
  BY DEF route_broker_client_create
<1>2. ASSUME NEW p \in Priorities
      PROVE  Opened(p, c)
  <2> DEFINE b == route_broker[p]
             n == broker_client_create(b, c)
  <2>1. BrokerOK(b) /\ ClientsOf(b) = Connected
    BY SafeFacts
  <2>2. route_broker'[p] = n
    BY <1>1
  <2>3. /\ BrokerOK(n)
        /\ ClientsOf(n) = ClientsOf(b) \cup {c}
        /\ ObjsOf(n) = ObjsOf(b)
        /\ n.del = b.del
        /\ Unread(n, c) = ObjsOf(b)
        /\ \A d \in ClientsOf(b) : Unread(n, d) = Unread(b, d)
    <3> HIDE DEF b
    <3> QED
      BY <1>1, <2>1, ClientCreateSummary, Zenon
  <2> HIDE DEF n
  <2> QED
    BY <2>1, <2>2, <2>3, Zenon DEF Opened
<1>3. /\ \A p \in Priorities : ClientsOf(route_broker'[p]) = Connected \cup {c}
      /\ \A p \in Priorities : ObjsOf(route_broker'[p]) = ObjsOf(route_broker[p])
      /\ \A p \in Priorities : route_broker'[p].del = route_broker[p].del
      /\ \A p \in Priorities : Unread(route_broker'[p], c) = ObjsOf(route_broker[p])
  BY <1>2 DEF Opened
<1>4. Connected' = Connected \cup {c}
  BY <1>3, PrioritiesFacts, Zenon DEF Connected
<1>5. Allocated(route_broker') = Allocated(route_broker)
  BY <1>3, Zenon DEF Allocated
<1>6. UnreadBy(route_broker', c) = Allocated(route_broker)
  BY <1>3 DEF Allocated, UnreadBy
<1>7. \A d \in Connected : UnreadBy(route_broker', d) = UnreadBy(route_broker, d)
  <2>1. \A d \in Connected, p \in Priorities :
           Unread(route_broker'[p], d) = Unread(route_broker[p], d)
    BY <1>2 DEF Opened
  <2> QED
    BY <2>1 DEF UnreadBy
<1>8. \A p \in Priorities : BrokerOK(route_broker'[p])
  BY <1>2 DEF Opened
<1>9. TypeOK'
  BY <1>1, <1>8, Zenon DEF SafeInv, TypeOK, BrokerOK, NoRoutes, Data
<1>10. BrokersInOrder' /\ CursorAtEveryLevel'
  BY <1>3, <1>4, <1>8, Zenon DEF BrokersInOrder, BrokerOK, CursorAtEveryLevel
<1>11. RoutesFiled' /\ HashIsLive'
  BY <1>1, <1>3, <1>5 DEF SafeInv, RoutesFiled, HashIsLive
<1> QED
  BY <1>1, <1>4, <1>5, <1>6, <1>7, <1>9, <1>10, <1>11, Zenon DEF SafeInv

\* What the other clients have to read is left alone.
LEMMA ClientDeleteStep ==
    ASSUME SafeInv, NEW c \in Clients, route_broker_client_delete(c)
    PROVE  /\ SafeInv'
           /\ Connected' = Connected \ {c}
           /\ Cleaned(c)
<1>1. /\ route_broker' = [p \in Priorities |-> broker_client_delete(route_broker[p], c)]
      /\ rib' = Released(Freed) /\ route_hashtbl' = Unhashed(Freed)
      /\ view' = [view EXCEPT ![c] = NoRoutes]
      /\ table' = table
  BY DEF route_broker_client_delete
<1>2. /\ DOMAIN route_broker' = Priorities
      /\ view' \in [Clients -> [Topics -> Data]]
  BY <1>1, Zenon DEF SafeInv, TypeOK, NoRoutes, Data
<1>3. ASSUME NEW p \in Priorities
      PROVE  Trimmed(p, c) /\ ClientsOf(route_broker'[p]) = Connected \ {c}
  <2> DEFINE b == route_broker[p]
             n == broker_client_delete(b, c)
  <2>1. BrokerOK(b) /\ ClientsOf(b) = Connected
    BY SafeFacts
  <2>2. route_broker'[p] = n
    BY <1>1, Zenon
  <2>3. /\ BrokerOK(n)
        /\ ClientsOf(n) = ClientsOf(b) \ {c}
        /\ ObjsOf(n) \subseteq ObjsOf(b)
        /\ ObjsOf(b) \ ObjsOf(n) \subseteq b.del
        /\ n.del = b.del \cap ObjsOf(n)
        /\ \A d \in ClientsOf(n) : Unread(n, d) = Unread(b, d)
    <3> HIDE DEF b
    <3> QED
      BY <2>1, ClientDeleteSummary, Zenon
  <2> HIDE DEF n
  <2> QED
    BY <2>1, <2>2, <2>3, Zenon DEF Trimmed
<1>4. Connected' = Connected \ {c}
  BY <1>3, PrioritiesFacts, Zenon DEF Connected
<1>5. CursorAtEveryLevel'
  BY <1>3, <1>4, Zenon DEF CursorAtEveryLevel
<1> QED
  BY <1>1, <1>2, <1>3, <1>4, <1>5, ReleaseStep, Zenon

\* The level a client reads from is one where it is behind, and the most
\* urgent one.
LEMMA AvailableLevel ==
    ASSUME NEW c, data_available_for_client(c) >= 0
    PROVE  /\ data_available_for_client(c) \in Behind(c)
           /\ data_available_for_client(c) \in Priorities
           /\ \A q \in Behind(c) : data_available_for_client(c) <= q
<1>1. Behind(c) # {}
  BY DEF data_available_for_client
<1>2. Behind(c) \subseteq Nat
  BY PrioritiesFacts, Zenon DEF Behind
<1>3. \E p \in Behind(c) : \A q \in Behind(c) : p <= q
  BY <1>1, <1>2, NatMin
<1>4. data_available_for_client(c) =
         CHOOSE p \in Behind(c) : \A q \in Behind(c) : p <= q
  BY <1>1 DEF data_available_for_client
<1>5. /\ data_available_for_client(c) \in Behind(c)
      /\ \A q \in Behind(c) : data_available_for_client(c) <= q
  BY <1>3, <1>4, Zenon
<1> QED
  BY <1>5 DEF Behind

\* A client whose id is the broker's has nothing to read there.
LEMMA CaughtUp ==
    ASSUME SafeInv, NEW c \in Connected, NEW q \in Priorities,
           route_broker[q].eid[c] = route_broker[q].id
    PROVE  Unread(route_broker[q], c) = {}
<1>1. /\ BrokerOK(route_broker[q])
      /\ c \in ClientsOf(route_broker[q])
  BY SafeFacts
<1>2. ASSUME NEW o \in Unread(route_broker[q], c)
      PROVE  FALSE
  <2>1. o \in ObjsOf(route_broker[q]) /\ Before(route_broker[q].list, c, o)
    BY Zenon DEF Unread
  <2>2. /\ route_broker[q].eid[o] <= route_broker[q].id
        /\ route_broker[q].id < route_broker[q].eid[o]
    BY <1>1, <2>1, Zenon DEF BrokerOK, CursorOrder
  <2>3. route_broker[q].eid[o] \in Nat /\ route_broker[q].id \in Nat
    BY <1>1, <2>1, Zenon DEF BrokerOK, BrokerType, ObjsOf, Entries
  <2> QED  BY <2>2, <2>3
<1> QED  BY <1>2

\* A client reads one route of a level, the next one, or there is none.
LEMMA LevelRead ==
    ASSUME SafeInv, NEW p \in Priorities, NEW c \in Connected,
           route_broker'[p] = broker_client_get_data(route_broker[p], c),
           NEW o, o = broker_get_next_data_obj(route_broker[p], c)
    PROVE  /\ Trimmed(p, c)
           /\ ClientsOf(route_broker'[p]) = Connected
           /\ o = NULL => Unread(route_broker'[p], c) = Unread(route_broker[p], c)
           /\ o # NULL => /\ o \in Unread(route_broker[p], c)
                          /\ Unread(route_broker'[p], c) = Unread(route_broker[p], c) \ {o}
<1> DEFINE b == route_broker[p]
           n == broker_client_get_data(b, c)
<1>1. /\ BrokerOK(b) /\ ClientsOf(b) = Connected /\ b.del \subseteq ObjsOf(b)
      /\ route_broker'[p] = n
      /\ o = broker_get_next_data_obj(b, c)
  BY SafeFacts, Zenon
<1>2. /\ BrokerOK(n)
      /\ ClientsOf(n) = ClientsOf(b)
      /\ \/ /\ o = NULL
            /\ Unread(b, c) = {}
            /\ ObjsOf(n) = ObjsOf(b)
            /\ n.del = b.del
            /\ \A d \in ClientsOf(b) : Unread(n, d) = Unread(b, d)
         \/ /\ o # NULL
            /\ o \in Unread(b, c)
            /\ \/ ObjsOf(n) = ObjsOf(b)
               \/ o \in b.del /\ ObjsOf(n) = ObjsOf(b) \ {o}
            /\ n.del = b.del \cap ObjsOf(n)
            /\ Unread(n, c) = Unread(b, c) \ {o}
            /\ \A d \in ClientsOf(b) \ {c} : Unread(n, d) = Unread(b, d)
  <2> HIDE DEF b
  <2> QED
    BY <1>1, GetDataSummary
<1> HIDE DEF n
<1>3. Trimmed(p, c)
  BY <1>1, <1>2 DEF Trimmed
<1> QED
  BY <1>1, <1>2, <1>3, Zenon

\* Either the cursors had nothing behind them but other cursors, and only the
\* client's id changes, or the client reads one route and it alone.
LEMMA GetDataStep ==
    ASSUME SafeInv, NEW c \in Clients, route_broker_client_get_data(c)
    PROVE  /\ SafeInv'
           /\ c \in Connected
           /\ Connected' = Connected
           /\ table' = table
           /\ Cleaned(c)
           /\ \/ /\ view' = view
                 /\ UnreadBy(route_broker', c) = UnreadBy(route_broker, c)
              \/ \E o \in UnreadBy(route_broker, c) :
                    /\ UnreadBy(route_broker', c) = UnreadBy(route_broker, c) \ {o}
                    /\ view' = [view EXCEPT ![c] = [@ EXCEPT ![rib[o].topic] = rib[o].data]]
<1> DEFINE level == data_available_for_client(c)
           o     == broker_get_next_data_obj(route_broker[level], c)
           b     == broker_client_get_data(route_broker[level], c)
<1>1. /\ c \in Connected
      /\ level >= 0
      /\ route_broker' = [route_broker EXCEPT ![level] = b]
      /\ view' = IF o = NULL THEN view
                 ELSE [view EXCEPT ![c] = [@ EXCEPT ![rib[o].topic] = rib[o].data]]
      /\ rib' = Released(Freed) /\ route_hashtbl' = Unhashed(Freed) /\ table' = table
  BY DEF route_broker_client_get_data
<1>2. level \in Priorities
  BY <1>1, AvailableLevel, Zenon
<1> HIDE DEF level
<1>3. /\ DOMAIN route_broker' = Priorities
      /\ route_broker'[level] = b
      /\ \A p \in Priorities \ {level} : route_broker'[p] = route_broker[p]
  BY <1>1, <1>2, SafeFacts, Zenon
<1>4. /\ Trimmed(level, c)
      /\ ClientsOf(route_broker'[level]) = Connected
      /\ o = NULL => Unread(route_broker'[level], c) = Unread(route_broker[level], c)
      /\ o # NULL => /\ o \in Unread(route_broker[level], c)
                     /\ Unread(route_broker'[level], c) = Unread(route_broker[level], c) \ {o}
  BY <1>1, <1>2, <1>3, LevelRead
<1> HIDE DEF o, b
<1>5. \A p \in Priorities : Trimmed(p, c) /\ ClientsOf(route_broker'[p]) = Connected
  <2>1. \A p \in Priorities \ {level} : Trimmed(p, c) /\ ClientsOf(route_broker'[p]) = Connected
    BY <1>3, SafeFacts DEF Trimmed
  <2> QED
    BY <1>4, <2>1, Zenon
<1>6. Connected' = Connected
  BY <1>5, PrioritiesFacts DEF Connected
<1>7. CursorAtEveryLevel'
  BY <1>5, <1>6 DEF CursorAtEveryLevel
<1>8. view \in [Clients -> [Topics -> Data]]
  BY DEF SafeInv, TypeOK
<1>9. /\ view' \in [Clients -> [Topics -> Data]]
      /\ \/ /\ view' = view
            /\ UnreadBy(route_broker', c) = UnreadBy(route_broker, c)
         \/ \E x \in UnreadBy(route_broker, c) :
               /\ UnreadBy(route_broker', c) = UnreadBy(route_broker, c) \ {x}
               /\ view' = [view EXCEPT ![c] = [@ EXCEPT ![rib[x].topic] = rib[x].data]]
  <2>1. CASE o = NULL
    <3>1. \A p \in Priorities : Unread(route_broker'[p], c) = Unread(route_broker[p], c)
      BY <1>3, <1>4, <2>1, Zenon
    <3>2. UnreadBy(route_broker', c) = UnreadBy(route_broker, c)
      BY <3>1 DEF UnreadBy
    <3>3. view' = view
      BY <1>1, <2>1
    <3> QED
      BY <1>8, <3>2, <3>3, Zenon
  <2>2. CASE o # NULL
    <3>1. o \in ObjsOf(route_broker[level]) /\ o \in Objs
      BY <1>2, <1>4, <2>2, SafeFacts, Zenon DEF Unread
    <3>2. \A p \in Priorities \ {level} : o \notin Unread(route_broker[p], c)
      BY <1>2, <3>1, SafeFacts, Zenon DEF Unread
    <3>3. \A p \in Priorities : Unread(route_broker'[p], c) = Unread(route_broker[p], c) \ {o}
      BY <1>3, <1>4, <2>2, <3>2, Zenon
    <3>4. UnreadBy(route_broker', c) = UnreadBy(route_broker, c) \ {o}
      BY <3>3, Zenon DEF UnreadBy
    <3>5. o \in UnreadBy(route_broker, c)
      BY <1>2, <1>4, <2>2, <3>1, Zenon DEF UnreadBy
    <3>6. rib[o].topic \in Topics /\ rib[o].data \in Data
      BY <1>2, <3>1, SafeFacts, Zenon DEF SafeInv, TypeOK
    <3>7. view' = [view EXCEPT ![c] = [@ EXCEPT ![rib[o].topic] = rib[o].data]]
      BY <1>1, <2>2, Zenon
    <3>8. view' \in [Clients -> [Topics -> Data]]
      BY <1>8, <3>6, <3>7, Zenon
    <3> QED
      BY <3>4, <3>5, <3>7, <3>8, Zenon
  <2> QED
    BY <2>1, <2>2
<1>10. SafeInv' /\ Cleaned(c)
  <2>1. rib' = Released(Freed) /\ route_hashtbl' = Unhashed(Freed) /\ table' = table
    BY <1>1
  <2> QED
    BY <1>3, <1>5, <1>7, <1>9, <2>1, ReleaseStep, Zenon
<1> QED
  BY <1>1, <1>6, <1>9, <1>10, Zenon

\* Every critical section of route_broker.c preserves the agreement of the
\* brokers, the hash table and the routes.
LEMMA NextSafe == SafeInv /\ [Next]_vars => SafeInv'
<1> SUFFICES ASSUME SafeInv, [Next]_vars
             PROVE  SafeInv'
  OBVIOUS
<1>1. ASSUME NEW t \in Topics, NEW v \in Data, NEW pri \in Priorities,
             object_broker_publish(t, v, pri)
      PROVE  SafeInv'
  BY <1>1, PublishStored
<1>2. ASSUME NEW c \in Clients, route_broker_client_create(c)
      PROVE  SafeInv'
  BY <1>2, ClientCreateStep, Zenon
<1>3. ASSUME NEW c \in Clients, route_broker_client_delete(c)
      PROVE  SafeInv'
  BY <1>3, ClientDeleteStep, Zenon
<1>4. ASSUME NEW c \in Clients, route_broker_client_get_data(c)
      PROVE  SafeInv'
  BY <1>4, GetDataStep, SMTT(30)
<1>5. CASE UNCHANGED vars
  BY <1>5, SMTT(30) DEF vars, SafeInv, TypeOK, BrokersInOrder, RoutesFiled, HashIsLive,
              CursorAtEveryLevel, Connected, Allocated
<1> QED
  BY <1>1, <1>2, <1>3, <1>4, <1>5, Zenon DEF Next

\* Whatever is published, at whatever priorities, and however clients come and
\* go: the lists stay in order, the hash table never leads to a freed route
\* and every client has its cursor at every priority.
THEOREM RouteBrokerSafe ==
    Spec => [](TypeOK /\ BrokersInOrder /\ RoutesFiled /\ HashIsLive /\ CursorAtEveryLevel)
<1>1. Spec => []SafeInv
  BY InitSafe, NextSafe, PTL DEF Spec
<1> QED
  BY <1>1, PTL DEF SafeInv

-----------------------------------------------------------------------------
\* The operations of one client leave the ids of the others alone.
LEMMA ClientOpsKeepIds ==
    ASSUME NEW b, BrokerOK(b), NEW d \in Clients, NEW c \in Clients \ {d}
    PROVE  /\ broker_client_create(b, d).eid[c] = b.eid[c]
           /\ broker_client_delete(b, d).eid[c] = b.eid[c]
           /\ broker_client_get_data(b, d).eid[c] = b.eid[c]
<1>1. /\ BrokerType(b)
      /\ b.eid \in [Entries -> Nat]
      /\ b.id \in Nat
      /\ b.del \subseteq Objs
      /\ c \in Entries /\ d \in Entries /\ c \notin Objs
  BY EntriesAssumption DEF BrokerOK, BrokerType, Entries
<1>2. \E x : broker_client_create(b, d).eid = [b.eid EXCEPT ![d] = x]
  BY Zenon DEF broker_client_create
<1>3. broker_client_create(b, d).eid[c] = b.eid[c]
  BY <1>1, <1>2
<1>4. broker_client_delete(b, d).eid[c] = b.eid[c]
  BY <1>1 DEF broker_client_delete
<1>5. broker_client_get_data(b, d).eid[c] = b.eid[c]
  <2> DEFINE o == broker_get_next_data_obj(b, d)
             n == PassObj(b, d, o)
  <2>1. o = NULL \/ o \in Objs
    BY <1>1, NextDataObj, Zenon DEF Unread, ObjsOf
  <2>2. n.eid = [b.eid EXCEPT ![d] = b.eid[o]]
    BY DEF PassObj
  <2> HIDE DEF o
  <2>3. CASE o = NULL
    <3>1. broker_client_get_data(b, d).eid = [b.eid EXCEPT ![d] = b.id]
      BY <2>3, Zenon DEF broker_client_get_data, CatchUp, o
    <3> QED  BY <1>1, <3>1
  <2>4. CASE o # NULL
    <3> HIDE DEF n
    <3>1. \/ broker_client_get_data(b, d) = n
          \/ broker_client_get_data(b, d) = broker_del_obj_now(n, o)
      BY <2>4, Zenon DEF broker_client_get_data, o, n
    <3>2. broker_del_obj_now(n, o).eid = [n.eid EXCEPT ![o] = 0]
      BY DEF broker_del_obj_now
    <3>3. o # c
      BY <1>1, <2>1, <2>4, SMTT(30)
    <3> QED  BY <1>1, <2>2, <3>1, <3>2, <3>3, Zenon
  <2> QED  BY <2>3, <2>4, Zenon
<1> QED
  BY <1>3, <1>4, <1>5, Zenon

\* A message moves no cursor, at any priority.
LEMMA PublishKeepsIds ==
    ASSUME SafeInv, NEW t \in Topics, NEW v \in Data, NEW pri \in Priorities,
           object_broker_publish(t, v, pri),
           NEW c \in Clients, NEW p \in Priorities
    PROVE  route_broker'[p].eid[c] = route_broker[p].eid[c]
<1>1. PICK l, gone, add : Relisted(v, l, gone, add)
  BY PublishStored, Zenon DEF Published
<1>2. \E new : Level(p, gone, new, v)
  BY <1>1, Zenon DEF Relisted
<1> QED
  BY <1>2, Zenon DEF Level

\* The cursor of a client moves at one priority at a time, and only when every
\* more urgent priority has nothing for it.
LEMMA CursorMoves ==
    ASSUME SafeInv, [Next]_vars, NEW c \in Connected, c \in Connected',
           NEW p \in Priorities, route_broker'[p].eid[c] # route_broker[p].eid[c],
           NEW q \in 0 .. p - 1
    PROVE  Unread(route_broker[q], c) = {}
<1>0. /\ c \in Clients
      /\ q \in Priorities /\ q < p
      /\ DOMAIN route_broker = Priorities
      /\ BrokerOK(route_broker[p])
  BY SafeFacts, RouteBrokerAssumption DEF Priorities
<1>1. ASSUME NEW t \in Topics, NEW v \in Data, NEW pri \in Priorities,
             object_broker_publish(t, v, pri)
      PROVE  FALSE
  BY <1>0, <1>1, PublishKeepsIds, Zenon
<1>2. ASSUME NEW d \in Clients, route_broker_client_create(d)
      PROVE  FALSE
  <2>1. /\ d # c
        /\ route_broker'[p] = broker_client_create(route_broker[p], d)
    BY <1>2, Zenon DEF route_broker_client_create
  <2> QED  BY <1>0, <2>1, ClientOpsKeepIds
<1>3. ASSUME NEW d \in Clients, route_broker_client_delete(d)
      PROVE  FALSE
  <2>1. route_broker'[p] = broker_client_delete(route_broker[p], d)
    BY <1>3 DEF route_broker_client_delete
  <2>2. d # c
    BY <1>3, ClientDeleteStep, Zenon
  <2> QED  BY <1>0, <2>1, <2>2, ClientOpsKeepIds
<1>4. ASSUME NEW d \in Clients, route_broker_client_get_data(d)
      PROVE  Unread(route_broker[q], c) = {}
  <2> DEFINE level == data_available_for_client(d)
  <2>1. /\ level >= 0
        /\ route_broker' = [route_broker EXCEPT ![level] = broker_client_get_data(@, d)]
    BY <1>4 DEF route_broker_client_get_data
  <2>2. level \in Priorities /\ \A k \in Behind(d) : level <= k
    BY <2>1, AvailableLevel, Zenon
  <2> HIDE DEF level
  <2>3. p = level /\ route_broker'[p] = broker_client_get_data(route_broker[p], d)
    BY <1>0, <2>1, <2>2, Zenon
  <2>4. d = c
    BY <1>0, <2>3, ClientOpsKeepIds
  <2>5. q \notin Behind(c)
    BY <1>0, <2>2, <2>3, <2>4, PrioritiesFacts
  <2> QED  BY <1>0, <2>5, CaughtUp, Zenon DEF Behind
<1>5. CASE UNCHANGED vars
  BY <1>5 DEF vars
<1> QED
  BY <1>1, <1>2, <1>3, <1>4, <1>5, SMTT(30) DEF Next

\* data_available_for_client serves the priorities in order: whatever is
\* published meanwhile, no client gets a route while one of a more urgent
\* level waits for it.
THEOREM UrgentIsFirst == Spec => UrgentFirst
<1>1. Spec => []SafeInv
  BY InitSafe, NextSafe, PTL DEF Spec
<1>2. SafeInv /\ [Next]_vars =>
         [\A c \in Connected, p \in Priorities :
             route_broker'[p].eid[c] # route_broker[p].eid[c] /\ c \in Connected'
                => \A q \in 0 .. p - 1 : Unread(route_broker[q], c) = {}]_vars
  BY CursorMoves
<1> QED
  BY <1>1, <1>2, PTL DEF Spec, UrgentFirst

\* While a client is connected no list is empty, so the walk of the show
\* command does not end before it has met every route.
THEOREM WalkIsComplete == Spec => []WalkCompleteWithClients
<1>1. Spec => []SafeInv
  BY InitSafe, NextSafe, PTL DEF Spec
<1>2. SafeInv => WalkCompleteWithClients
  <2> SUFFICES ASSUME SafeInv, NEW c \in Connected, NEW r \in Allocated(route_broker)
               PROVE  \E p \in Walked : r \in ObjsOf(route_broker[p])
    BY DEF WalkCompleteWithClients, WalkMeetsEveryRoute
  <2>1. ASSUME NEW p \in Priorities
        PROVE  route_broker[p].list # << >>
    <3>1. c \in Elems(route_broker[p].list)
      BY <2>1, SafeFacts, Zenon DEF ClientsOf
    <3> QED  BY <3>1 DEF Elems, Range
  <2>2. \A p \in Priorities : 0 .. p \subseteq Priorities
    BY RouteBrokerAssumption DEF Priorities
  <2>3. Walked = Priorities
    BY <2>1, <2>2 DEF Walked
  <2> QED  BY <2>3 DEF Allocated
<1> QED
  BY <1>1, <1>2, PTL

(***************************************************************************)
(* The steady topics: nothing is lost, and RouteFeed.                      *)
(***************************************************************************)
\* What holds besides of the steady topics: each has one route, which holds the
\* last message, and clients have read it or have it pending.
SyncInv == SafeInv /\ HoldsTable /\ PendingOrInSync

\* What a client has still to read is allocated, at one of the priorities.
LEMMA UnreadIsAllocated ==
    ASSUME NEW c, NEW r \in UnreadBy(route_broker, c)
    PROVE  r \in Objs /\ r \in Allocated(route_broker)
BY DEF UnreadBy, Allocated, Unread

\* What was published last for each topic.
LEMMA PublishHistory ==
    ASSUME SyncInv, NEW t \in Topics, NEW v \in Data, NEW pri \in Priorities,
           object_broker_publish(t, v, pri)
    PROVE  /\ table' = [table EXCEPT ![t] = v]
           /\ view' = view
           /\ table'[t] = v
           /\ \A u \in Topics \ {t} : table'[u] = table[u]
BY DEF object_broker_publish, SyncInv, SafeInv, TypeOK

\* A message about a topic leaves one route of it, which holds the message, or
\* none if it was a delete.
LEMMA PublishHeld ==
    ASSUME SyncInv, NEW t \in Topics, NEW v \in Data, NEW pri \in Priorities,
           object_broker_publish(t, v, pri)
    PROVE  HoldsTable'
<1>1. PICK l, gone, add : Relisted(v, l, gone, add) /\ Rewritten(t, v, l, gone, add)
  BY PublishStored DEF SyncInv, Published
<1>2. Allocated(route_broker') = (Allocated(route_broker) \ gone) \cup add
  BY <1>1, RelistedSets DEF SyncInv
<1>3. NULL \notin Objs /\ add \subseteq Objs
  BY <1>1, EntriesAssumption DEF Relisted
<1>4. EveryRouteIsHashed'
  <2> SUFFICES ASSUME NEW r \in Allocated(route_broker'), rib'[r].topic \in Steady
               PROVE  route_hashtbl'[rib'[r].topic] = r
    BY DEF EveryRouteIsHashed
  <2>1. CASE r \in add
    BY <1>1, <2>1 DEF Rewritten
  <2>2. CASE r \notin add
    <3>1. r \in Allocated(route_broker) /\ r \notin gone /\ r \in Objs
      BY <1>2, <2>2 DEF Allocated
    <3>2. rib'[r] = rib[r]
      BY <1>1, <2>2, <3>1, Zenon DEF Rewritten
    <3>3. rib[r].topic \in Topics /\ route_hashtbl[rib[r].topic] = r
      BY <3>1, <3>2, Zenon DEF SyncInv, HoldsTable, EveryRouteIsHashed, Steady
    <3>4. rib[r].topic # t
      BY <1>1, <1>3, <2>2, <3>1, <3>3 DEF Rewritten
    <3> QED
      BY <1>1, <3>2, <3>3, <3>4, Zenon DEF Rewritten
  <2> QED
    BY <2>1, <2>2
<1>5. TableIsHeld'
  <2> SUFFICES ASSUME NEW u \in Steady
               PROVE  table'[u] = IF route_hashtbl'[u] = NULL THEN NULL
                                  ELSE rib'[route_hashtbl'[u]].data
    BY DEF TableIsHeld
  <2>0. u \in Topics
    BY DEF Steady
  <2>1. CASE u = t
    <3>1. table'[u] = v
      BY <2>1, PublishHistory, Zenon
    <3> QED
      BY <1>1, <1>3, <2>1, <3>1 DEF Rewritten
  <2>2. CASE u # t
    <3>1. table'[u] = table[u]
      BY <2>0, <2>2, PublishHistory, Zenon
    <3>2. route_hashtbl'[u] = route_hashtbl[u]
      BY <1>1, <2>0, <2>2, Zenon DEF Rewritten
    <3>3. ASSUME route_hashtbl[u] # NULL
          PROVE  rib'[route_hashtbl[u]] = rib[route_hashtbl[u]]
      <4>1. route_hashtbl[u] \in Allocated(route_broker) /\ rib[route_hashtbl[u]].topic = u
        BY <2>0, <3>3, Zenon DEF SyncInv, SafeInv, HashIsLive
      <4> QED
        BY <1>1, <2>2, <4>1, Zenon DEF Rewritten, Allocated
    <3> QED
      BY <3>1, <3>2, <3>3, Zenon DEF SyncInv, HoldsTable, TableIsHeld
  <2> QED
    BY <2>1, <2>2
<1> QED
  BY <1>4, <1>5 DEF HoldsTable

\* A message about a steady topic makes it pending for every client, or changes
\* nothing (the deletion of a topic that is not there).  A message about
\* another topic changes nothing of the steady ones.
LEMMA PublishPending ==
    ASSUME SyncInv, NEW t \in Topics, NEW v \in Data, NEW pri \in Priorities,
           object_broker_publish(t, v, pri)
    PROVE  /\ Connected' = Connected
           /\ \/ /\ t \in Steady
                 /\ \A c \in Connected : Pending(c)' = Pending(c) \cup {t}
              \/ /\ \A u \in Steady : table'[u] = table[u]
                 /\ \A c \in Connected : Pending(c)' = Pending(c)
<1>1. PICK l, gone, add : Relisted(v, l, gone, add) /\ Rewritten(t, v, l, gone, add)
  BY PublishStored DEF SyncInv, Published
<1>2. /\ Connected' = Connected
      /\ \A c \in Connected :
            UnreadBy(route_broker', c) = (UnreadBy(route_broker, c) \ gone) \cup add
  BY <1>1, RelistedSets DEF SyncInv
<1>3. ASSUME NEW c \in Connected
      PROVE  Pending(c)' = Pending(c) \cup (IF add = {} THEN {} ELSE {t} \cap Steady)
  <2>1. \A r \in UnreadBy(route_broker, c) : r \in Objs /\ r \in Allocated(route_broker)
    BY UnreadIsAllocated
  <2>2. \A r \in UnreadBy(route_broker, c) : r \notin gone /\ r \notin add => rib'[r] = rib[r]
    BY <1>1, <2>1, Zenon DEF Rewritten
  <2>3. \A r \in UnreadBy(route_broker, c) : r \in gone \/ r \in add => rib[r].topic = t
    BY <1>1, <2>1, Zenon DEF Rewritten
  <2>4. \A r \in add : rib'[r].topic = t
    BY <1>1 DEF Rewritten
  <2>5. add = {} => gone = {}
    BY <1>1 DEF Relisted
  <2>6. UnreadBy(route_broker', c) = (UnreadBy(route_broker, c) \ gone) \cup add
    BY <1>2
  <2> QED
    BY <2>2, <2>3, <2>4, <2>5, <2>6 DEF Pending
<1>4. CASE t \in Steady /\ add # {}
  BY <1>2, <1>3, <1>4
<1>5. CASE t \notin Steady \/ add = {}
  <2>1. \A c \in Connected : Pending(c)' = Pending(c)
    BY <1>3, <1>5, Zenon
  <2>2. CASE t \in Steady /\ Connected = {}
    BY <1>2, <2>2, Zenon
  <2>3. CASE t \in Steady /\ Connected # {}
    <3>1. add = {} /\ gone = {}
      BY <1>1, <1>5, <2>3, Zenon DEF Relisted
    <3>2. route_hashtbl[t] = NULL /\ v = NULL
      BY <1>1, <3>1, Zenon DEF Rewritten
    <3>3. table[t] = v
      BY <2>3, <3>2, Zenon DEF SyncInv, HoldsTable, TableIsHeld
    <3>4. \A u \in Steady : table'[u] = table[u]
      BY <3>3, PublishHistory, Zenon DEF Steady
    <3> QED
      BY <1>2, <2>1, <3>4, Zenon
  <2>4. CASE t \notin Steady
    <3>1. \A u \in Steady : table'[u] = table[u]
      BY <2>4, PublishHistory, Zenon DEF Steady
    <3> QED
      BY <1>2, <2>1, <3>1
  <2> QED
    BY <2>2, <2>3, <2>4, Zenon
<1> QED
  BY <1>4, <1>5, Zenon

\* Taking deleted routes out of the lists does not disturb what is held.
LEMMA ReleaseHeld ==
    ASSUME SyncInv, NEW e, Cleaned(e), table' = table
    PROVE  /\ HoldsTable'
           /\ \A c : UnreadBy(route_broker', c) \subseteq Allocated(route_broker')
           /\ \A r \in Allocated(route_broker') : rib'[r] = rib[r]
<1>0. /\ Allocated(route_broker') \subseteq Allocated(route_broker)
      /\ Freed = Allocated(route_broker) \ Allocated(route_broker')
      /\ \A r \in Freed : rib[r].data = NULL
      /\ \A r \in Objs \ Freed : rib'[r] = rib[r]
      /\ \A t \in Topics : \/ /\ route_hashtbl'[t] = route_hashtbl[t]
                              /\ \A r \in Freed : rib[r].topic # t
                           \/ /\ route_hashtbl'[t] = NULL
                              /\ \E r \in Freed : rib[r].topic = t
  BY DEF Cleaned, Freed
<1>1. /\ \A x \in Allocated(route_broker) : x \in Objs /\ rib[x].topic \in Topics
      /\ \A x \in Allocated(route_broker) :
            rib[x].topic \in Steady => route_hashtbl[rib[x].topic] = x
      /\ \A u \in Steady :
            table[u] = IF route_hashtbl[u] = NULL THEN NULL ELSE rib[route_hashtbl[u]].data
  BY SafeFacts, Zenon DEF SyncInv, HoldsTable, EveryRouteIsHashed, TableIsHeld, Allocated
<1>2. \A r \in Allocated(route_broker') : rib'[r] = rib[r]
  BY <1>0, <1>1, Zenon
<1>3. EveryRouteIsHashed'
  <2> SUFFICES ASSUME NEW r \in Allocated(route_broker'), rib'[r].topic \in Steady
               PROVE  route_hashtbl'[rib'[r].topic] = r
    BY Zenon DEF EveryRouteIsHashed
  <2>1. \A x \in Freed : rib[x].topic # rib[r].topic
    BY <1>0, <1>1
  <2> QED  BY <1>0, <1>1, <1>2, <2>1
<1>4. TableIsHeld'
  <2> SUFFICES ASSUME NEW u \in Steady
               PROVE  table[u] = IF route_hashtbl'[u] = NULL THEN NULL
                                 ELSE rib'[route_hashtbl'[u]].data
    BY DEF TableIsHeld
  <2>0. u \in Topics
    BY Zenon DEF Steady
  <2>1. CASE /\ route_hashtbl'[u] = NULL
             /\ \E r \in Freed : rib[r].topic = u
    <3>1. PICK r \in Freed : rib[r].topic = u
      BY <2>1, Zenon
    <3> QED  BY <1>0, <1>1, <2>1, <3>1
  <2>2. CASE /\ route_hashtbl'[u] = route_hashtbl[u]
             /\ \A r \in Freed : rib[r].topic # u
    <3>1. route_hashtbl[u] # NULL =>
             /\ route_hashtbl[u] \in Objs \ Freed
             /\ rib[route_hashtbl[u]].topic = u
      BY <1>0, <2>0, <2>2, Zenon DEF SyncInv, SafeInv, HashIsLive, Allocated
    <3> QED  BY <1>0, <1>1, <2>2, <3>1
  <2> QED  BY <1>0, <2>0, <2>1, <2>2, Zenon
<1>5. \A c : UnreadBy(route_broker', c) \subseteq Allocated(route_broker')
  BY DEF UnreadBy, Allocated, Unread
<1> QED
  BY <1>2, <1>3, <1>4, <1>5, Zenon DEF HoldsTable

\* A new client knows nothing: what it has to read covers the whole table.
LEMMA ClientCreateSync ==
    ASSUME SyncInv, NEW c \in Clients, route_broker_client_create(c)
    PROVE  /\ HoldsTable'
           /\ {t \in Steady : table[t] # NULL} \subseteq Pending(c)'
           /\ Pending(c)' \subseteq Steady
           /\ \A d \in Connected : Pending(d)' = Pending(d)
           /\ PendingOrInSync'
<1>1. /\ view' = [view EXCEPT ![c] = NoRoutes]
      /\ rib' = rib /\ route_hashtbl' = route_hashtbl /\ table' = table
  BY DEF route_broker_client_create
<1>2. /\ c \notin Connected
      /\ Connected' = Connected \cup {c}
      /\ Connected \subseteq Clients
      /\ Allocated(route_broker') = Allocated(route_broker)
      /\ UnreadBy(route_broker', c) = Allocated(route_broker)
      /\ \A d \in Connected : UnreadBy(route_broker', d) = UnreadBy(route_broker, d)
  BY ClientCreateStep, SafeFacts, Zenon DEF SyncInv
<1>3. HoldsTable'
  BY <1>1, <1>2, Zenon DEF SyncInv, HoldsTable, EveryRouteIsHashed, TableIsHeld
<1>4. {t \in Steady : table[t] # NULL} \subseteq Pending(c)'
  <2> SUFFICES ASSUME NEW t \in Steady, table[t] # NULL
               PROVE  t \in Pending(c)'
    OBVIOUS
  <2>1. route_hashtbl[t] # NULL
    BY DEF SyncInv, HoldsTable, TableIsHeld
  <2>2. route_hashtbl[t] \in Allocated(route_broker) /\ rib[route_hashtbl[t]].topic = t
    BY <2>1 DEF SyncInv, SafeInv, HashIsLive, Steady
  <2> QED  BY <1>1, <1>2, <2>2, Zenon DEF Pending
<1>5. Pending(c)' \subseteq Steady
  BY DEF Pending
<1>6. \A d \in Connected : Pending(d)' = Pending(d)
  BY <1>1, <1>2, Zenon DEF Pending
<1>7. PendingOrInSync'
  <2> SUFFICES ASSUME NEW d \in Connected', NEW t \in Steady
               PROVE  t \in Pending(d)' \/ view'[d][t] = table'[t]
    BY DEF PendingOrInSync
  <2>1. CASE d = c
    <3>1. view'[c][t] = NULL
      BY <1>1, Zenon DEF SyncInv, SafeInv, TypeOK, NoRoutes, Steady
    <3> QED  BY <1>1, <1>4, <2>1, <3>1, Zenon
  <2>2. CASE d # c
    <3>1. d \in Connected /\ view'[d] = view[d]
      BY <1>1, <1>2, <2>2, Zenon DEF SyncInv, SafeInv, TypeOK
    <3> QED  BY <1>1, <1>6, <3>1, Zenon DEF SyncInv, PendingOrInSync
  <2> QED  BY <2>1, <2>2
<1> QED
  BY <1>3, <1>4, <1>5, <1>6, <1>7, Zenon

\* A client that leaves takes nothing away from the others.
LEMMA ClientDeleteSync ==
    ASSUME SyncInv, NEW c \in Clients, route_broker_client_delete(c)
    PROVE  /\ HoldsTable'
           /\ \A d \in Connected \ {c} : Pending(d)' = Pending(d)
           /\ PendingOrInSync'
<1>1. /\ view' = [view EXCEPT ![c] = NoRoutes]
      /\ table' = table
  BY DEF route_broker_client_delete
<1>2. /\ Connected' = Connected \ {c}
      /\ Cleaned(c)
  BY ClientDeleteStep, Zenon DEF SyncInv
<1>3. /\ HoldsTable'
      /\ \A d : UnreadBy(route_broker', d) \subseteq Allocated(route_broker')
      /\ \A r \in Allocated(route_broker') : rib'[r] = rib[r]
  BY <1>1, <1>2, ReleaseHeld, Zenon
<1>4. ASSUME NEW d \in Connected \ {c}
      PROVE  Pending(d)' = Pending(d)
  <2>1. UnreadBy(route_broker', d) = UnreadBy(route_broker, d)
    BY <1>2, <1>4, Zenon DEF Cleaned
  <2>2. \A r \in UnreadBy(route_broker', d) : rib'[r] = rib[r]
    BY <1>3, Zenon
  <2> QED  BY <2>1, <2>2, Zenon DEF Pending
<1>5. PendingOrInSync'
  <2> SUFFICES ASSUME NEW d \in Connected', NEW t \in Steady
               PROVE  t \in Pending(d)' \/ view'[d][t] = table'[t]
    BY DEF PendingOrInSync
  <2>1. d \in Connected \ {c} /\ d \in Clients
    BY <1>2, SafeFacts, Zenon DEF SyncInv
  <2>2. view'[d] = view[d]
    BY <1>1, <2>1, Zenon DEF SyncInv, SafeInv, TypeOK
  <2> QED  BY <1>1, <1>4, <2>1, <2>2, SMTT(30) DEF SyncInv, PendingOrInSync
<1> QED
  BY <1>3, <1>4, <1>5, Zenon

\* No client reads anything of a steady topic.
SameView == \A d \in Clients, t \in Steady : view'[d][t] = view[d][t]

\* What a client reads of a steady topic is what was published last for it,
\* and leaves nothing of that topic to read.
LEMMA GetDataSync ==
    ASSUME SyncInv, NEW c \in Clients, route_broker_client_get_data(c)
    PROVE  /\ HoldsTable'
           /\ \A d \in Connected \ {c} : Pending(d)' = Pending(d)
           /\ \/ SameView /\ Pending(c)' = Pending(c)
              \/ \E t \in Pending(c) :
                    /\ Pending(c)' = Pending(c) \ {t}
                    /\ view' = [view EXCEPT ![c] = [@ EXCEPT ![t] = table[t]]]
           /\ PendingOrInSync'
<1>1. /\ c \in Connected
      /\ Connected' = Connected
      /\ table' = table
      /\ Cleaned(c)
      /\ \/ /\ view' = view
            /\ UnreadBy(route_broker', c) = UnreadBy(route_broker, c)
         \/ \E o \in UnreadBy(route_broker, c) :
               /\ UnreadBy(route_broker', c) = UnreadBy(route_broker, c) \ {o}
               /\ view' = [view EXCEPT ![c] = [@ EXCEPT ![rib[o].topic] = rib[o].data]]
  BY GetDataStep DEF SyncInv
<1>2. /\ HoldsTable'
      /\ \A d : UnreadBy(route_broker', d) \subseteq Allocated(route_broker')
      /\ \A r \in Allocated(route_broker') : rib'[r] = rib[r]
  BY <1>1, ReleaseHeld, Zenon
<1>3. ASSUME NEW d \in Connected \ {c}
      PROVE  Pending(d)' = Pending(d)
  <2>1. UnreadBy(route_broker', d) = UnreadBy(route_broker, d)
    BY <1>1, <1>3, Zenon DEF Cleaned
  <2>2. \A r \in UnreadBy(route_broker', d) : rib'[r] = rib[r]
    BY <1>2
  <2> QED  BY <2>1, <2>2 DEF Pending
<1>r. \A r \in UnreadBy(route_broker', c) : rib'[r] = rib[r]
  BY <1>2, Zenon
<1>4. \/ SameView /\ Pending(c)' = Pending(c)
      \/ \E t \in Pending(c) :
            /\ Pending(c)' = Pending(c) \ {t}
            /\ view' = [view EXCEPT ![c] = [@ EXCEPT ![t] = table[t]]]
  <2>1. CASE /\ view' = view
             /\ UnreadBy(route_broker', c) = UnreadBy(route_broker, c)
    BY <1>r, <2>1, Zenon DEF Pending, SameView
  <2>2. ASSUME NEW o \in UnreadBy(route_broker, c),
               UnreadBy(route_broker', c) = UnreadBy(route_broker, c) \ {o},
               view' = [view EXCEPT ![c] = [@ EXCEPT ![rib[o].topic] = rib[o].data]]
        PROVE  \/ SameView /\ Pending(c)' = Pending(c)
               \/ \E t \in Pending(c) :
                     /\ Pending(c)' = Pending(c) \ {t}
                     /\ view' = [view EXCEPT ![c] = [@ EXCEPT ![t] = table[t]]]
    <3>1. /\ \A x \in UnreadBy(route_broker, c) :
                x \in Allocated(route_broker) /\ x \in Objs
          /\ \A x \in UnreadBy(route_broker, c) :
                rib[x].topic \in Steady => route_hashtbl[rib[x].topic] = x
          /\ rib[o].topic \in Topics
      BY UnreadIsAllocated, SafeFacts DEF SyncInv, HoldsTable, EveryRouteIsHashed
    <3>c. CASE rib[o].topic \in Steady
      <4>2. table[rib[o].topic] = rib[o].data
        BY <3>1, <3>c, EntriesAssumption, Zenon DEF SyncInv, HoldsTable, TableIsHeld
      <4>3. \A x \in UnreadBy(route_broker, c) \ {o} : rib[x].topic # rib[o].topic
        BY <3>1, <3>c, Zenon
      <4>4. Pending(c)' = Pending(c) \ {rib[o].topic}
        BY <1>r, <2>2, <4>3, Zenon DEF Pending
      <4>5. rib[o].topic \in Pending(c)
        BY <3>c DEF Pending
      <4> QED  BY <2>2, <4>2, <4>4, <4>5, Zenon
    <3>d. CASE rib[o].topic \notin Steady
      <4>1. Pending(c)' = Pending(c)
        BY <1>r, <2>2, <3>d, Zenon DEF Pending
      <4>2. view \in [Clients -> [Topics -> Data]]
        BY DEF SyncInv, SafeInv, TypeOK
      <4>3. ASSUME NEW d \in Clients, NEW t \in Steady
            PROVE  view'[d][t] = view[d][t]
        <5>1. CASE d = c
          BY <2>2, <3>d, <4>2, <5>1, Zenon DEF Steady
        <5>2. CASE d # c
          BY <2>2, <4>2, <5>2, Zenon
        <5> QED  BY <5>1, <5>2, Zenon
      <4> QED  BY <4>1, <4>3, Zenon DEF SameView
    <3> QED  BY <3>c, <3>d
  <2> QED  BY <1>1, <2>1, <2>2, Zenon
<1>5. PendingOrInSync'
  <2> SUFFICES ASSUME NEW d \in Connected', NEW u \in Steady
               PROVE  u \in Pending(d)' \/ view'[d][u] = table'[u]
    BY DEF PendingOrInSync
  <2>0. /\ d \in Connected /\ d \in Clients
        /\ u \in Pending(d) \/ view[d][u] = table[u]
        /\ view \in [Clients -> [Topics -> Data]]
    BY <1>1, SafeFacts, SMTT(30) DEF SyncInv, PendingOrInSync, SafeInv, TypeOK
  <2>1. CASE SameView /\ Pending(c)' = Pending(c)
    BY <1>1, <1>3, <2>0, <2>1, Zenon DEF SameView
  <2>2. ASSUME NEW t \in Pending(c),
               Pending(c)' = Pending(c) \ {t},
               view' = [view EXCEPT ![c] = [@ EXCEPT ![t] = table[t]]]
        PROVE  u \in Pending(d)' \/ view'[d][u] = table'[u]
    <3>1. CASE d = c
      <4>1. view'[c][u] = IF u = t THEN table[t] ELSE view[c][u]
        BY <2>0, <2>2, SMTT(30) DEF Pending, Steady
      <4> QED  BY <1>1, <2>0, <2>2, <3>1, <4>1, Zenon
    <3>2. CASE d # c
      BY <1>1, <1>3, <2>0, <2>2, <3>2, Zenon
    <3> QED  BY <3>1, <3>2, SMTT(30)
  <2> QED  BY <1>4, <2>1, <2>2, Zenon
<1> QED
  BY <1>2, <1>3, <1>4, <1>5, Zenon

\* After route_broker_init the table is empty and nobody has read anything.
LEMMA InitSync == Init => SyncInv
<1> SUFFICES ASSUME Init PROVE SyncInv
  OBVIOUS
<1>1. \A p \in Priorities : ObjsOf(route_broker[p]) = {} /\ ClientsOf(route_broker[p]) = {}
  BY DEF Init, broker_create, ObjsOf, ClientsOf, Elems, Range
<1>2. HoldsTable /\ PendingOrInSync
  BY <1>1, PrioritiesFacts
    , Zenon DEF HoldsTable, EveryRouteIsHashed, TableIsHeld, PendingOrInSync, Allocated, Connected,
         Init, NoRoutes, Steady
<1> QED
  BY <1>2, InitSafe, Zenon DEF SyncInv

\* Every critical section keeps each client in sync with the steady topics of
\* the table, up to what it has still to read.
LEMMA NextSync == SyncInv /\ [Next]_vars => SyncInv'
<1> SUFFICES ASSUME SyncInv, [Next]_vars
             PROVE  HoldsTable' /\ PendingOrInSync'
  BY NextSafe DEF SyncInv
<1>1. ASSUME NEW t \in Topics, NEW v \in Data, NEW pri \in Priorities,
             object_broker_publish(t, v, pri)
      PROVE  HoldsTable' /\ PendingOrInSync'
  <2>1. HoldsTable'
    BY <1>1, PublishHeld, Zenon
  <2>2. /\ view' = view
        /\ \A u \in Topics \ {t} : table'[u] = table[u]
    BY <1>1, PublishHistory, Zenon DEF SyncInv, SafeInv, TypeOK
  <2>3. /\ Connected' = Connected
        /\ \/ /\ t \in Steady
              /\ \A c \in Connected : Pending(c)' = Pending(c) \cup {t}
           \/ /\ \A u \in Steady : table'[u] = table[u]
              /\ \A c \in Connected : Pending(c)' = Pending(c)
    BY <1>1, PublishPending, Zenon
  <2>4. PendingOrInSync'
    <3> SUFFICES ASSUME NEW d \in Connected', NEW u \in Steady
                 PROVE  u \in Pending(d)' \/ view'[d][u] = table'[u]
      BY Zenon DEF PendingOrInSync
    <3>1. d \in Connected /\ (u \in Pending(d) \/ view[d][u] = table[u])
      BY <2>3, Zenon DEF SyncInv, PendingOrInSync
    <3> QED  BY <2>2, <2>3, <3>1, Zenon DEF Steady
  <2> QED  BY <2>1, <2>4, Zenon
<1>2. ASSUME NEW c \in Clients, route_broker_client_create(c)
      PROVE  HoldsTable' /\ PendingOrInSync'
  BY <1>2, ClientCreateSync, Zenon
<1>3. ASSUME NEW c \in Clients, route_broker_client_delete(c)
      PROVE  HoldsTable' /\ PendingOrInSync'
  BY <1>3, ClientDeleteSync, Zenon
<1>4. ASSUME NEW c \in Clients, route_broker_client_get_data(c)
      PROVE  HoldsTable' /\ PendingOrInSync'
  BY <1>4, GetDataSync, Zenon
<1>5. CASE UNCHANGED vars
  BY <1>5 DEF vars, SyncInv, HoldsTable, EveryRouteIsHashed, TableIsHeld, PendingOrInSync,
              Connected, Pending, Allocated, UnreadBy
<1> QED
  BY <1>1, <1>2, <1>3, <1>4, <1>5, Zenon DEF Next

\* Every topic that is never deleted at a more urgent priority than its route
\* has one route, it holds the last message, and each client has it still to
\* read or has read it; raised deletes of other topics do not disturb it.
THEOREM NothingIsLost ==
    Spec => [](HoldsTable /\ PendingOrInSync)
<1>1. Spec => []SyncInv
  BY NextSync, InitSync, PTL DEF Spec
<1> QED
  BY <1>1, PTL DEF SyncInv

\* A client that goes to sleep in route_broker_client_get_data because no
\* priority has data for it has read exactly what was published of these topics.
THEOREM SleepersAreInSync == Spec => []AsleepIsInSync
<1>1. SyncInv => AsleepIsInSync
  <2> SUFFICES ASSUME SyncInv, NEW c \in Connected, data_available_for_client(c) = -1
               PROVE  \A t \in Steady : view[c][t] = table[t]
    BY DEF AsleepIsInSync
  <2>1. Behind(c) = {}
    <3> SUFFICES ASSUME Behind(c) # {} PROVE FALSE
      OBVIOUS
    <3>1. Behind(c) \subseteq Nat
      BY PrioritiesFacts, Zenon DEF Behind
    <3>2. \E p \in Behind(c) : \A q \in Behind(c) : p <= q
      BY <3>1, NatMin, Zenon
    <3>3. data_available_for_client(c) \in Nat
      BY <3>1, <3>2, Zenon DEF data_available_for_client
    <3> QED  BY <3>3
  <2>2. ASSUME NEW p \in Priorities
        PROVE  Unread(route_broker[p], c) = {}
    BY <2>1, <2>2, CaughtUp, Zenon DEF SyncInv, Behind
  <2>3. Pending(c) = {}
    BY <2>2, Zenon DEF Pending, UnreadBy
  <2> QED  BY <2>3, Zenon DEF SyncInv, PendingOrInSync
<1>2. Spec => []SyncInv
  BY NextSync, InitSync, PTL DEF Spec
<1> QED
  BY <1>1, <1>2, PTL

-----------------------------------------------------------------------------
\* The pending topics, as the function that RouteFeed's variable stands for.
PendingOf == [c \in Clients |-> IF c \in Connected THEN Pending(c) ELSE {}]

\* The table and what clients have read of it, likewise.
TableOf == [t \in Steady |-> table[t]]
ViewOf == [c \in Clients |-> [t \in Steady |-> view[c][t]]]

\* The initial state of the broker is an initial state of the feed.
LEMMA FeedInit == Init => Feed!Init
<1> SUFFICES ASSUME Init PROVE Feed!Init
  OBVIOUS
<1>1. Connected = {}
  BY PrioritiesFacts DEF Init, broker_create, ClientsOf, Connected, Elems, Range
<1> QED
  BY <1>1, Zenon DEF Init, Feed!Init, Feed!NoRoutes, NoRoutes, Steady

\* A client that comes or goes has read nothing.
LEMMA EmptyView ==
    ASSUME view \in [Clients -> [Topics -> Data]], NEW c \in Clients,
           view' = [view EXCEPT ![c] = NoRoutes]
    PROVE  ViewOf' = [ViewOf EXCEPT ![c] = [t \in Steady |-> NULL]]
<1>1. Steady \subseteq Topics
  BY DEF Steady
<1>2. ASSUME NEW d \in Clients
      PROVE  ViewOf'[d] = IF d = c THEN [t \in Steady |-> NULL] ELSE ViewOf[d]
  <2>1. CASE d = c
    <3>1. \A t \in Steady : view'[d][t] = NULL
      BY <1>1, <2>1, Zenon DEF NoRoutes
    <3> QED  BY <2>1, <3>1, Zenon DEF ViewOf
  <2>2. CASE d # c
    <3>1. view'[d] = view[d]
      BY <2>2
    <3> QED  BY <2>2, <3>1, Zenon DEF ViewOf
  <2> QED  BY <2>1, <2>2, Zenon
<1>3. ViewOf' = [d \in Clients |-> ViewOf'[d]] /\ ViewOf = [d \in Clients |-> ViewOf[d]]
  BY DEF ViewOf
<1> QED
  BY <1>2, <1>3, Zenon

\* Every operation of the broker is one operation of the feed, or none.
LEMMA FeedNext == SyncInv /\ [Next]_vars => [Feed!Next]_(Feed!vars)
<1> SUFFICES ASSUME SyncInv, [Next]_vars
             PROVE  [Feed!Next]_(Feed!vars)
  BY Zenon
<1>0. /\ Connected \subseteq Clients
      /\ view \in [Clients -> [Topics -> Data]]
      /\ table \in [Topics -> Data]
  BY SafeFacts, Zenon DEF SyncInv, SafeInv, TypeOK
<1>1. ASSUME NEW t \in Topics, NEW v \in Data, NEW pri \in Priorities,
             object_broker_publish(t, v, pri)
      PROVE  [Feed!Next]_(Feed!vars)
  <2>1. /\ table' = [table EXCEPT ![t] = v]
        /\ view' = view
    BY <1>1, PublishHistory, Zenon
  <2>2. /\ Connected' = Connected
        /\ \/ /\ t \in Steady
              /\ \A c \in Connected : Pending(c)' = Pending(c) \cup {t}
           \/ /\ \A u \in Steady : table'[u] = table[u]
              /\ \A c \in Connected : Pending(c)' = Pending(c)
    BY <1>1, PublishPending
  <2>3. CASE t \in Steady /\ \A c \in Connected : Pending(c)' = Pending(c) \cup {t}
    <3>1. PendingOf' = [c \in Clients |-> IF c \in Connected THEN PendingOf[c] \cup {t} ELSE {}]
      BY <2>2, <2>3 DEF PendingOf
    <3>2. TableOf' = [TableOf EXCEPT ![t] = v]
      <4>1. \A u \in Steady : table'[u] = IF u = t THEN v ELSE table[u]
        BY <1>0, <2>1, Zenon DEF Steady
      <4> QED  BY <4>1, Zenon DEF TableOf
    <3>3. ViewOf' = ViewOf
      BY <2>1, Zenon DEF ViewOf
    <3>4. Feed!Publish(t, v)
      BY <2>2, <3>1, <3>2, <3>3, Zenon DEF Feed!Publish, PendingOf, TableOf, ViewOf
    <3> QED  BY <2>3, <3>4, Zenon DEF Feed!Next, Data
  <2>4. CASE /\ \A u \in Steady : table'[u] = table[u]
             /\ \A c \in Connected : Pending(c)' = Pending(c)
    <3>1. PendingOf' = PendingOf
      BY <2>2, <2>4, Zenon DEF PendingOf
    <3>2. TableOf' = TableOf /\ ViewOf' = ViewOf
      BY <2>1, <2>4, Zenon DEF TableOf, ViewOf
    <3> QED  BY <2>2, <3>1, <3>2, Zenon DEF Feed!vars, PendingOf, TableOf, ViewOf
  <2> QED  BY <2>2, <2>3, <2>4, Zenon
<1>2. ASSUME NEW c \in Clients, route_broker_client_create(c)
      PROVE  [Feed!Next]_(Feed!vars)
  <2>1. /\ c \notin Connected
        /\ Connected' = Connected \cup {c}
        /\ view' = [view EXCEPT ![c] = NoRoutes]
        /\ table' = table
    BY <1>2, ClientCreateStep, Zenon DEF SyncInv, route_broker_client_create
  <2>2. /\ {t \in Steady : table[t] # NULL} \subseteq Pending(c)'
        /\ Pending(c)' \subseteq Steady
        /\ \A d \in Connected : Pending(d)' = Pending(d)
    BY <1>2, ClientCreateSync, Zenon
  <2>p. PICK P \in SUBSET Steady : P = Pending(c)'
    BY <2>2
  <2>3. PendingOf' = [PendingOf EXCEPT ![c] = P]
    BY <1>2, <2>1, <2>2, <2>p, Zenon DEF PendingOf
  <2>v. /\ ViewOf' = [ViewOf EXCEPT ![c] = [t \in Steady |-> NULL]]
        /\ TableOf' = TableOf
    <3>1. TableOf' = TableOf
      BY <2>1, Zenon DEF TableOf
    <3> QED  BY <1>0, <1>2, <2>1, <3>1, EmptyView, Zenon
  <2>4. Feed!Join(c, P)
    BY <2>1, <2>2, <2>3, <2>p, <2>v, Zenon DEF Feed!Join, Feed!NoRoutes, PendingOf, TableOf, ViewOf
  <2> QED  BY <1>2, <2>4 DEF Feed!Next
<1>3. ASSUME NEW c \in Clients, route_broker_client_delete(c)
      PROVE  [Feed!Next]_(Feed!vars)
  <2>1. /\ c \in Connected
        /\ Connected' = Connected \ {c}
        /\ view' = [view EXCEPT ![c] = NoRoutes]
        /\ table' = table
    BY <1>3, ClientDeleteStep, Zenon DEF SyncInv, route_broker_client_delete
  <2>2. \A d \in Connected \ {c} : Pending(d)' = Pending(d)
    BY <1>3, ClientDeleteSync
  <2>3. PendingOf' = [PendingOf EXCEPT ![c] = {}]
    BY <1>3, <2>1, <2>2, Zenon DEF PendingOf
  <2>v. /\ ViewOf' = [ViewOf EXCEPT ![c] = [t \in Steady |-> NULL]]
        /\ TableOf' = TableOf
    <3>1. TableOf' = TableOf
      BY <2>1, Zenon DEF TableOf
    <3> QED  BY <1>0, <1>3, <2>1, <3>1, EmptyView, Zenon
  <2>4. Feed!Leave(c)
    BY <2>1, <2>3, <2>v, Zenon DEF Feed!Leave, Feed!NoRoutes, PendingOf, TableOf, ViewOf
  <2> QED  BY <1>3, <2>4, Zenon DEF Feed!Next
<1>4. ASSUME NEW c \in Clients, route_broker_client_get_data(c)
      PROVE  [Feed!Next]_(Feed!vars)
  <2>1. /\ c \in Connected
        /\ Connected' = Connected
        /\ table' = table
    BY <1>4, GetDataStep, Zenon DEF SyncInv
  <2>2. /\ \A d \in Connected \ {c} : Pending(d)' = Pending(d)
        /\ \/ SameView /\ Pending(c)' = Pending(c)
           \/ \E t \in Pending(c) :
                 /\ Pending(c)' = Pending(c) \ {t}
                 /\ view' = [view EXCEPT ![c] = [@ EXCEPT ![t] = table[t]]]
    BY <1>4, GetDataSync, Zenon
  <2>3. CASE SameView /\ Pending(c)' = Pending(c)
    <3>1. PendingOf' = PendingOf
      BY <2>1, <2>2, <2>3, Zenon DEF PendingOf
    <3>2. TableOf' = TableOf /\ ViewOf' = ViewOf
      BY <2>1, <2>3, Zenon DEF TableOf, ViewOf, SameView
    <3> QED  BY <2>1, <3>1, <3>2, Zenon DEF Feed!vars, PendingOf, TableOf, ViewOf
  <2>4. ASSUME NEW t \in Pending(c),
               Pending(c)' = Pending(c) \ {t},
               view' = [view EXCEPT ![c] = [@ EXCEPT ![t] = table[t]]]
        PROVE  [Feed!Next]_(Feed!vars)
    <3>1. /\ PendingOf' = [PendingOf EXCEPT ![c] = @ \ {t}]
          /\ t \in PendingOf[c]
      BY <1>4, <2>1, <2>2, <2>4, Zenon DEF PendingOf
    <3>2. t \in Steady
      BY DEF Pending
    <3>3. TableOf' = TableOf /\ TableOf[t] = table[t]
      BY <2>1, <3>2, Zenon DEF TableOf
    <3>4. ViewOf' = [ViewOf EXCEPT ![c] = [@ EXCEPT ![t] = TableOf[t]]]
      BY <1>0, <1>4, <2>4, <3>2, <3>3, Zenon DEF ViewOf, Steady
    <3>5. Feed!Read(c, t)
      BY <2>1, <3>1, <3>3, <3>4, Zenon DEF Feed!Read, PendingOf, TableOf, ViewOf
    <3> QED  BY <1>4, <3>2, <3>5, Zenon DEF Feed!Next
  <2> QED  BY <2>2, <2>3, <2>4, Zenon
<1>5. CASE UNCHANGED vars
  BY <1>5 DEF vars, Feed!vars, Connected, Pending, UnreadBy
<1> QED
  BY <1>1, <1>2, <1>3, <1>4, <1>5, Zenon DEF Next

\* The route broker implements RouteFeed: through the hash table, the lists of
\* all priorities and the cursors, each client follows one table of the steady
\* topics at its own speed, for any number of routes, topics, clients and
\* priorities.
THEOREM RouteBrokerImplementsFeed == Spec => ImplementsFeed
<1>1. Spec => []SyncInv
  BY NextSync, InitSync, PTL DEF Spec
<1> QED
  BY <1>1, FeedNext, FeedInit, PTL DEF Spec, ImplementsFeed, Feed!Spec
==============================================================================

----------------------------- MODULE RouteBroker -----------------------------
(***************************************************************************)
(* broker/route_broker.c: one broker per priority, presented to the        *)
(* publisher and to the clients as a single table of routes.  A hash table *)
(* finds the object that holds a topic (the key of a route), so that a     *)
(* newer message replaces an older one that some client has not read yet.  *)
(*                                                                         *)
(* Every action is a critical section of route_broker_mutex.  The objects  *)
(* of the brokers are the allocated struct rib_route; the refcount of one  *)
(* is 1 from broker_add_obj until it leaves its list.  A message carries a *)
(* value for its topic; NULL stands for a message that deletes the route.  *)
(* Messages that are ignored (no topic) or dropped (no memory) change no   *)
(* state.                                                                  *)
(***************************************************************************)
EXTENDS BrokerOps, Integers

CONSTANTS Topics,              \* what route_broker_topic_gen returns
          Vals,                \* the routes a message may carry
          ROUTE_PRIORITY_MAX,  \* number of priorities; 0 is the most urgent
          RaisedDeletes,       \* the topics of which a delete may come at a more
                               \* urgent priority than the route it deletes
          MaxId                \* bound on the ids a broker gives

ASSUME RouteBrokerAssumption ==
    /\ NULL \notin Topics \cup Vals
    /\ ROUTE_PRIORITY_MAX \in Nat \ {0}
    /\ RaisedDeletes \subseteq Topics
    /\ MaxId \in Nat

VARIABLES route_broker,   \* the broker of each priority
          rib,            \* topic, pri and data of each struct rib_route
          route_hashtbl,  \* the object that holds each topic, or NULL
          table,          \* history: what was published last for each topic
          view            \* history: what each client read last for each topic

vars == <<route_broker, rib, route_hashtbl, table, view>>

Steady == Topics \ RaisedDeletes

Priorities == 0 .. ROUTE_PRIORITY_MAX - 1

Data == Vals \cup {NULL}

\* A struct rib_route that is not allocated.
Unused == [topic |-> NULL, pri |-> 0, data |-> NULL]

Allocated(rb) == {r \in Objs : \E p \in Priorities : r \in ObjsOf(rb[p])}

\* What client c has still to read, over all priorities.
UnreadBy(rb, c) == {r \in Objs : \E p \in Priorities : r \in Unread(rb[p], c)}

\* The clients; each has a cursor in the broker of every priority.
Connected == ClientsOf(route_broker[0])

NoRoutes == [t \in Topics |-> NULL]

Init ==
    /\ route_broker = [p \in Priorities |-> broker_create]
    /\ rib = [r \in Objs |-> Unused]
    /\ route_hashtbl = NoRoutes
    /\ table = NoRoutes
    /\ view = [c \in Clients |-> NoRoutes]

-----------------------------------------------------------------------------
\* The routes that left their list in this step, and with it lost their last
\* reference.
Freed == Allocated(route_broker) \ Allocated(route_broker')

\* Mutant: the hash table is not told.
NothingUnhashed(gone) == route_hashtbl

\* rib_route_delete takes the TOPIC of a freed route out of the hash table.
Unhashed(gone) ==
    [t \in Topics |-> IF \E r \in gone : rib[r].topic = t
                      THEN NULL ELSE route_hashtbl[t]]

\* The structures, once those in gone have been freed.
Released(gone) == [r \in Objs |-> IF r \in gone THEN Unused ELSE rib[r]]

rib_route_create == Objs \ Allocated(route_broker)

RoomFor(pri) == route_broker[pri].id < MaxId

\* A route that has no entry yet.
PublishNew(t, v, pri) ==
    /\ route_hashtbl[t] = NULL
    /\ \E r \in rib_route_create :
          /\ route_broker' = [route_broker EXCEPT ![pri] = broker_add_obj(@, r)]
          /\ rib' = [rib EXCEPT ![r] = [topic |-> t, pri |-> pri, data |-> v]]
          /\ route_hashtbl' = [route_hashtbl EXCEPT ![t] = r]

\* Mutant: the new route does not get into the hash table.
RaisedNotHashed(t, v, pri) ==
    LET h == route_hashtbl[t] IN
    /\ h # NULL
    /\ rib[h].pri > pri
    /\ \E r \in rib_route_create :
          /\ route_broker' = [route_broker EXCEPT
                                 ![rib[h].pri] = broker_del_obj_now(@, h),
                                 ![pri] = broker_add_obj(@, r)]
          /\ rib' = [Released({h}) EXCEPT
                        ![r] = [topic |-> t, pri |-> pri, data |-> v]]
          /\ route_hashtbl' = Unhashed({h})

\* The new route is more urgent: the old one is forced out of its level.
PublishRaised(t, v, pri) ==
    LET h == route_hashtbl[t] IN
    /\ h # NULL
    /\ rib[h].pri > pri
    /\ \E r \in rib_route_create :
          /\ route_broker' = [route_broker EXCEPT
                                 ![rib[h].pri] = broker_del_obj_now(@, h),
                                 ![pri] = broker_add_obj(@, r)]
          /\ rib' = [Released({h}) EXCEPT
                        ![r] = [topic |-> t, pri |-> pri, data |-> v]]
          /\ route_hashtbl' = [Unhashed({h}) EXCEPT ![t] = r]

\* Mutant: the broker is told, the data stays.
UpdateOldData(t, v, pri) ==
    LET h == route_hashtbl[t] IN
    /\ h # NULL
    /\ rib[h].pri <= pri
    /\ route_broker' = [route_broker EXCEPT ![rib[h].pri] = broker_upd_obj(@, h)]
    /\ UNCHANGED <<rib, route_hashtbl>>

\* Mutant: the data is swapped where it is, the broker is not told.
UpdateInPlace(t, v, pri) ==
    LET h == route_hashtbl[t] IN
    /\ h # NULL
    /\ rib[h].pri <= pri
    /\ rib' = [rib EXCEPT ![h] = [topic |-> t, pri |-> rib[h].pri, data |-> v]]
    /\ UNCHANGED <<route_broker, route_hashtbl>>

\* Same or less urgent: the entry keeps its level and takes the new data.
PublishUpdate(t, v, pri) ==
    LET h == route_hashtbl[t] IN
    /\ h # NULL
    /\ rib[h].pri <= pri
    /\ route_broker' = [route_broker EXCEPT ![rib[h].pri] = broker_upd_obj(@, h)]
    /\ rib' = [rib EXCEPT ![h] = [topic |-> t, pri |-> rib[h].pri, data |-> v]]
    /\ UNCHANGED route_hashtbl

\* Mutant: the old entry is freed, and still found.
DeleteRaisedHashed(t, pri) ==
    LET h == route_hashtbl[t] IN
    /\ h # NULL
    /\ rib[h].pri > pri
    /\ \E r \in rib_route_create :
          /\ route_broker' = [route_broker EXCEPT
                                 ![rib[h].pri] = broker_del_obj_now(@, h),
                                 ![pri] = broker_del_obj(broker_add_obj(@, r), r)]
          /\ rib' = IF r \in Allocated(route_broker')
                    THEN [Released({h}) EXCEPT
                             ![r] = [topic |-> t, pri |-> pri, data |-> NULL]]
                    ELSE Released({h})
          /\ UNCHANGED route_hashtbl

\* Mutant: the new entry is added, and not marked as deleted.
DeleteRaisedAdded(t, pri) ==
    LET h == route_hashtbl[t] IN
    /\ h # NULL
    /\ rib[h].pri > pri
    /\ \E r \in rib_route_create :
          /\ route_broker' = [route_broker EXCEPT
                                 ![rib[h].pri] = broker_del_obj_now(@, h),
                                 ![pri] = broker_add_obj(@, r)]
          /\ rib' = [Released({h}) EXCEPT ![r] = [topic |-> t, pri |-> pri, data |-> NULL]]
          /\ route_hashtbl' = Unhashed({h})

\* A more urgent delete: the entry is forced out, and a new one that is
\* added and deleted at once takes its place in the more urgent level.  It is
\* not put into the hash table.
DeleteRaised(t, pri) ==
    LET h == route_hashtbl[t] IN
    /\ h # NULL
    /\ rib[h].pri > pri
    /\ \E r \in rib_route_create :
          /\ route_broker' = [route_broker EXCEPT
                                 ![rib[h].pri] = broker_del_obj_now(@, h),
                                 ![pri] = broker_del_obj(broker_add_obj(@, r), r)]
          /\ rib' = IF r \in Allocated(route_broker')
                    THEN [Released({h}) EXCEPT
                             ![r] = [topic |-> t, pri |-> pri, data |-> NULL]]
                    ELSE Released({h})
          /\ route_hashtbl' = Unhashed({h})

\* The entry takes the delete message and is flagged; with no client it goes.
DeleteKnown(t, pri) ==
    LET h == route_hashtbl[t] IN
    /\ h # NULL
    /\ rib[h].pri <= pri
    /\ route_broker' = [route_broker EXCEPT ![rib[h].pri] = broker_del_obj(@, h)]
    /\ rib' = IF h \in Freed
              THEN Released(Freed)
              ELSE [rib EXCEPT ![h] = [topic |-> t, pri |-> rib[h].pri, data |-> NULL]]
    /\ route_hashtbl' = Unhashed(Freed)

DeleteUnknown(t) ==
    /\ route_hashtbl[t] = NULL
    /\ UNCHANGED <<route_broker, rib, route_hashtbl>>

object_broker_publish(t, v, pri) ==
    /\ \A p \in Priorities : RoomFor(p)
    /\ IF v = NULL
       THEN \/ t \in RaisedDeletes /\ DeleteRaised(t, pri)
            \/ DeleteKnown(t, pri)
            \/ DeleteUnknown(t)
       ELSE \/ PublishNew(t, v, pri)
            \/ PublishRaised(t, v, pri)
            \/ PublishUpdate(t, v, pri)
    /\ table' = [table EXCEPT ![t] = v]
    /\ UNCHANGED view

-----------------------------------------------------------------------------
route_broker_client_create(c) ==
    /\ c \notin Connected
    /\ route_broker' = [p \in Priorities |-> broker_client_create(route_broker[p], c)]
    /\ view' = [view EXCEPT ![c] = NoRoutes]
    /\ UNCHANGED <<rib, route_hashtbl, table>>

\* Mutant: the loop over the priorities stops one short.
DeleteAllButLast(c) ==
    /\ c \in Connected
    /\ route_broker' = [p \in Priorities |->
                           IF p < ROUTE_PRIORITY_MAX - 1
                           THEN broker_client_delete(route_broker[p], c)
                           ELSE route_broker[p]]
    /\ rib' = Released(Freed)
    /\ route_hashtbl' = Unhashed(Freed)
    /\ view' = [view EXCEPT ![c] = NoRoutes]
    /\ UNCHANGED table

route_broker_client_delete(c) ==
    /\ c \in Connected
    /\ route_broker' = [p \in Priorities |-> broker_client_delete(route_broker[p], c)]
    /\ rib' = Released(Freed)
    /\ route_hashtbl' = Unhashed(Freed)
    /\ view' = [view EXCEPT ![c] = NoRoutes]
    /\ UNCHANGED table

\* The priorities whose broker has given an id the client has not reached.
Behind(c) == {p \in Priorities : route_broker[p].eid[c] # route_broker[p].id}

\* Mutant: the least urgent level first.
LastLevel(c) ==
    IF Behind(c) = {} THEN -1
    ELSE CHOOSE p \in Behind(c) : \A q \in Behind(c) : p >= q

\* Mutant: the loop over the priorities stops one short.
AllButLastLevel(c) ==
    LET levels == Behind(c) \ {ROUTE_PRIORITY_MAX - 1}
    IN  IF levels = {} THEN -1
        ELSE CHOOSE p \in levels : \A q \in levels : p <= q

data_available_for_client(c) ==
    IF Behind(c) = {} THEN -1
    ELSE CHOOSE p \in Behind(c) : \A q \in Behind(c) : p <= q

\* With no data the client waits; RouteBrokerSync models that part.
route_broker_client_get_data(c) ==
    LET level == data_available_for_client(c)
        o     == broker_get_next_data_obj(route_broker[level], c)
    IN  /\ c \in Connected
        /\ level >= 0
        /\ route_broker' = [route_broker EXCEPT ![level] = broker_client_get_data(@, c)]
        /\ view' = IF o = NULL THEN view
                   ELSE [view EXCEPT ![c] = [@ EXCEPT ![rib[o].topic] = rib[o].data]]
        /\ rib' = Released(Freed)
        /\ route_hashtbl' = Unhashed(Freed)
        /\ UNCHANGED table

Next ==
    \/ \E t \in Topics, v \in Data, pri \in Priorities : object_broker_publish(t, v, pri)
    \/ \E c \in Clients : \/ route_broker_client_create(c)
                          \/ route_broker_client_delete(c)
                          \/ route_broker_client_get_data(c)

Spec == Init /\ [][Next]_vars

\* Each client thread loops over route_broker_client_get_data.
FairSpec == Spec /\ \A c \in Clients : WF_vars(route_broker_client_get_data(c))

-----------------------------------------------------------------------------
TypeOK ==
    /\ \A p \in Priorities : BrokerType(route_broker[p])
    /\ DOMAIN route_broker = Priorities
    /\ rib \in [Objs -> [topic : Topics \cup {NULL}, pri : Priorities, data : Data]]
    /\ route_hashtbl \in [Topics -> Objs \cup {NULL}]
    /\ table \in [Topics -> Data]
    /\ view \in [Clients -> [Topics -> Data]]

\* Each priority keeps its cursors in order and frees a deleted route as soon
\* as its last reader has passed it, whatever is published.
BrokersInOrder ==
    \A p \in Priorities : CursorOrder(route_broker[p]) /\ NoGarbage(route_broker[p])

\* An allocated route is in the list of its own priority and in no other, and
\* is flagged as deleted exactly when its data is a delete message.
RoutesFiled ==
    \A p \in Priorities : \A r \in ObjsOf(route_broker[p]) :
        /\ rib[r].pri = p
        /\ rib[r].topic \in Topics
        /\ r \in route_broker[p].del <=> rib[r].data = NULL

\* The hash table never leads to a route that has been freed or that holds
\* another topic (object_broker_publish dereferences what it finds there).
HashIsLive ==
    \A t \in Topics : route_hashtbl[t] # NULL =>
        /\ route_hashtbl[t] \in Allocated(route_broker)
        /\ rib[route_hashtbl[t]].topic = t

\* A client has a cursor in every priority, or in none.
CursorAtEveryLevel ==
    \A p \in Priorities : ClientsOf(route_broker[p]) = Connected

\* Every allocated route is the one its topic hashes to, so no topic is in two
\* lists at once, unless its deletes come at a more urgent priority (the entry
\* of such a delete is not hashed).
EveryRouteIsHashed ==
    \A r \in Allocated(route_broker) :
        rib[r].topic \in Steady => route_hashtbl[rib[r].topic] = r

\* The broker holds, for each of these topics, what was published last.
TableIsHeld ==
    \A t \in Steady :
        table[t] = IF route_hashtbl[t] = NULL THEN NULL ELSE rib[route_hashtbl[t]].data

\* Of these topics lists and hash table hold the table as it was published, and
\* no second route that object_broker_publish would not find.
HoldsTable == EveryRouteIsHashed /\ TableIsHeld

\* The topics client c has still to read something about.
Pending(c) == {rib[r].topic : r \in UnreadBy(route_broker, c)} \cap Steady

\* The broker as a table that clients follow, of these topics.
Feed == INSTANCE RouteFeed WITH
            Topics    <- Steady,
            table     <- [t \in Steady |-> table[t]],
            connected <- Connected,
            pending   <- [c \in Clients |-> IF c \in Connected THEN Pending(c) ELSE {}],
            view      <- [c \in Clients |-> [t \in Steady |-> view[c][t]]]

\* Through the hash table, the three lists and the cursors, a client sees a
\* table it follows at its own speed: every change reaches it, the newest one
\* only, and no older one comes after it, whatever happens to topics whose
\* deletes are raised.
ImplementsFeed == Feed!Spec

\* The same, and the client that keeps asking gets what is pending.
ImplementsFairFeed == Feed!FairSpec

\* What a client has read of a topic is what was published last, unless the
\* broker still holds something for it to read about that topic.
PendingOrInSync ==
    \A c \in Connected, t \in Steady : t \in Pending(c) \/ view[c][t] = table[t]

\* A client for which there is no data available (it goes to sleep) has read
\* exactly the table that was published, across all priorities.
AsleepIsInSync ==
    \A c \in Connected : data_available_for_client(c) = -1 =>
        \A t \in Steady : view[c][t] = table[t]

\* A client never gets a route while one of a more urgent level waits for it.
UrgentFirst ==
    [][\A c \in Connected, p \in Priorities :
          route_broker'[p].eid[c] # route_broker[p].eid[c] /\ c \in Connected'
             => \A q \in 0 .. p - 1 : Unread(route_broker[q], c) = {}]_vars

\* Once nothing more is published, a client that keeps asking gets all of it,
\* less urgent levels included (unless it goes away).
CatchesUp ==
    \A c \in Clients : (c \in Connected) ~>
        (c \notin Connected \/ \A t \in Steady : view[c][t] = table[t])

-----------------------------------------------------------------------------
\* "If we are deleting something it must be there" (route_broker.c:427): what
\* was published and not deleted since is found in the hash table.  With
\* raised deletes it does not hold.
PublishedIsFound == \A t \in Topics : table[t] # NULL => route_hashtbl[t] # NULL

\* "If it gets deleted it will come back at the correct priority"
\* (route_broker.c:491): a route that is published again after it was deleted
\* is filed at the priority of that message.  A client that has not read the
\* delete keeps the old entry in the hash table, and the route comes back in it.
ComesBackAtItsPriority ==
    [][\A t \in Topics, v \in Vals, pri \in Priorities :
          table[t] = NULL /\ object_broker_publish(t, v, pri)
             => rib'[route_hashtbl'[t]].pri = pri]_vars

-----------------------------------------------------------------------------
\* Mutant: the test for another level is off by one.
WalkedButLast ==
    {p \in Priorities : p < ROUTE_PRIORITY_MAX - 1 /\ \A q \in 0 .. p : route_broker[q].list # << >>}

\* The priorities that route_broker_seq_first and _next walk through: the walk
\* ends at the first one whose list is empty.
Walked == {p \in Priorities : \A q \in 0 .. p : route_broker[q].list # << >>}

\* "end of this broker - is there another priority level?"
\* (route_broker.c:143): the walk meets every route.  With no client it need
\* not, because it ends at an empty level.
WalkMeetsEveryRoute ==
    \A r \in Allocated(route_broker) : \E p \in Walked : r \in ObjsOf(route_broker[p])

\* While a client is connected the walk is complete: its cursors keep every
\* list from being empty.
WalkCompleteWithClients == Connected # {} => WalkMeetsEveryRoute
==============================================================================

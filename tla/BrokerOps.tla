------------------------------ MODULE BrokerOps ------------------------------
(***************************************************************************)
(* The operations of broker/broker.c as operators on one broker.           *)
(*                                                                         *)
(* A broker keeps one list that holds its objects and, between them, the   *)
(* cursor of each client: what is behind a cursor the client has read,     *)
(* what is after it is still to be read.  Objects that change move to the  *)
(* tail and get the next id of the broker.  A broker is a record:          *)
(*   list  b_obj_list_head, from the head to the tail                      *)
(*   id    the id given last                                               *)
(*   eid   the id of each entry (0 for what is not in the list: calloc)    *)
(*   del   the objects flagged BROKER_FLAGS_DELETE                         *)
(* The entries flagged BROKER_FLAGS_CLIENT are the elements of Clients.    *)
(* b_client_list_head always holds the clients whose cursor is in the      *)
(* list (both are changed together), so it is ClientsOf(b).                *)
(***************************************************************************)
EXTENDS CircleQ

CONSTANTS Objs,     \* the objects a broker may hold
          Clients,  \* the clients it may have
          NULL

ASSUME EntriesAssumption == /\ Objs \cap Clients = {}
                            /\ NULL \notin Objs \cup Clients

Entries == Objs \cup Clients

ClientsOf(b) == Elems(b.list) \cap Clients

ObjsOf(b) == Elems(b.list) \cap Objs

broker_create ==
    [list |-> << >>, id |-> 0, eid |-> [e \in Entries |-> 0], del |-> {}]

\* Mutant: one client that has passed the object is enough.
SomeClientPassed(b, o) == ClientsOf(b) = {} \/ \E c \in ClientsOf(b) : b.eid[c] >= b.eid[o]

\* Every client has an id at or above the one of the object.
no_clients_need_this(b, o) == \A c \in ClientsOf(b) : b.eid[c] >= b.eid[o]

broker_add_obj(b, o) ==
    [list |-> CIRCLEQ_INSERT_TAIL(b.list, o),
     id   |-> b.id + 1,
     eid  |-> [b.eid EXCEPT ![o] = b.id + 1],
     del  |-> b.del]

\* Unlocking the object drops the only reference: it is freed.
broker_del_obj_now(b, o) ==
    [list |-> CIRCLEQ_REMOVE(b.list, o),
     id   |-> b.id,
     eid  |-> [b.eid EXCEPT ![o] = 0],
     del  |-> b.del \ {o}]

\* Mutant: moved, but the entry keeps its id.
ToTailSameId(b, o, del) ==
    [list |-> CIRCLEQ_INSERT_TAIL(CIRCLEQ_REMOVE(b.list, o), o),
     id   |-> b.id + 1,
     eid  |-> b.eid,
     del  |-> del]

\* Move to the tail under a new id, so that every client reads it again.
ToTail(b, o, del) ==
    [list |-> CIRCLEQ_INSERT_TAIL(CIRCLEQ_REMOVE(b.list, o), o),
     id   |-> b.id + 1,
     eid  |-> [b.eid EXCEPT ![o] = b.id + 1],
     del  |-> del]

broker_del_obj(b, o) ==
    IF ClientsOf(b) = {}
    THEN broker_del_obj_now(b, o)
    ELSE ToTail(b, o, b.del \cup {o})

\* Mutant: the DELETE flag survives the update.
UpdateKeepsFlag(b, o) == ToTail(b, o, b.del)

\* An update of a to-be-deleted object recreates it.
broker_upd_obj(b, o) == ToTail(b, o, b.del \ {o})

\* The objects a walk from the cursor of c to the tail meets.
Unread(b, c) == {o \in ObjsOf(b) : Before(b.list, c, o)}

broker_has_more_data(b, c) == Unread(b, c) # {}

\* Mutant: the walk does not stop at the first object.
LastDataObj(b, c) ==
    IF broker_has_more_data(b, c)
    THEN CHOOSE o \in Unread(b, c) :
            \A p \in Unread(b, c) : p = o \/ Before(b.list, p, o)
    ELSE NULL

broker_get_next_data_obj(b, c) ==
    IF broker_has_more_data(b, c)
    THEN CHOOSE o \in Unread(b, c) :
            \A p \in Unread(b, c) : p = o \/ Before(b.list, o, p)
    ELSE NULL

\* Mutant: the cursor starts at the tail.
CreateAtTail(b, c) ==
    [list |-> CIRCLEQ_INSERT_TAIL(b.list, c),
     id   |-> b.id,
     eid  |-> [b.eid EXCEPT ![c] = b.id],
     del  |-> b.del]

\* Mutant: the client takes the id of the broker although there is data.
CreateUpToDate(b, c) ==
    [list |-> CIRCLEQ_INSERT_HEAD(b.list, c),
     id   |-> b.id,
     eid  |-> [b.eid EXCEPT ![c] = b.id],
     del  |-> b.del]

\* The cursor starts at the head, with the id 0 of calloc.  With no object in
\* the list the client takes the id of the broker, or it would seem to have
\* data to read.
broker_client_create(b, c) ==
    LET new == [b EXCEPT !.list = CIRCLEQ_INSERT_HEAD(@, c)]
    IN  [list |-> new.list,
         id   |-> b.id,
         eid  |-> [b.eid EXCEPT ![c] = IF broker_has_more_data(new, c)
                                       THEN 0 ELSE b.id],
         del  |-> b.del]

\* Mutant: the objects only this client needed stay.
DeleteNoSweep(b, c) ==
    [list |-> CIRCLEQ_REMOVE(b.list, c),
     id   |-> b.id,
     eid  |-> [b.eid EXCEPT ![c] = 0],
     del  |-> b.del]

\* The cursor leaves; so does every deleted object only this client needed.
broker_client_delete(b, c) ==
    LET left  == [b EXCEPT !.list = CIRCLEQ_REMOVE(@, c)]
        swept == {o \in b.del : no_clients_need_this(left, o)}
    IN  [list |-> Keep(left.list, Entries \ swept),
         id   |-> b.id,
         eid  |-> [e \in Entries |-> IF e \in swept \cup {c} THEN 0 ELSE b.eid[e]],
         del  |-> b.del \ swept]

\* The cursor moves behind the object it read and takes its id.
PassObj(b, c, o) ==
    [list |-> CIRCLEQ_INSERT_AFTER(CIRCLEQ_REMOVE(b.list, c), o, c),
     id   |-> b.id,
     eid  |-> [b.eid EXCEPT ![c] = b.eid[o]],
     del  |-> b.del]

\* Mutant: the id is left behind.
NoCatchUp(b, c) == b

\* No more data: the id is brought up to date, so as not to keep asking.
CatchUp(b, c) ==
    [list |-> b.list,
     id   |-> b.id,
     eid  |-> [b.eid EXCEPT ![c] = b.id],
     del  |-> b.del]

\* A deleted object goes once the slowest client has read it.
broker_client_get_data(b, c) ==
    LET o == broker_get_next_data_obj(b, c)
        n == PassObj(b, c, o)
    IN  IF o = NULL
        THEN CatchUp(b, c)
        ELSE IF o \in n.del /\ no_clients_need_this(n, o)
             THEN broker_del_obj_now(n, o)
             ELSE n

(***************************************************************************)
(* What holds of every broker, whatever calls its users make.              *)
(***************************************************************************)
BrokerType(b) ==
    /\ b \in [list : Seq(Entries), id : Nat, eid : [Entries -> Nat],
              del : SUBSET Objs]
    /\ NoDup(b.list)
    /\ b.del \subseteq Elems(b.list)

\* A cursor separates what the client has read from what it has not: ids
\* grow along the objects, those behind a cursor do not exceed the id of the
\* client, those after it do, and none exceeds the id of the broker.
CursorOrder(b) ==
    /\ \A c \in ClientsOf(b) : b.eid[c] <= b.id
    /\ \A o \in ObjsOf(b) : 0 < b.eid[o] /\ b.eid[o] <= b.id
    /\ \A o, p \in ObjsOf(b) : Before(b.list, o, p) => b.eid[o] < b.eid[p]
    /\ \A c \in ClientsOf(b), o \in ObjsOf(b) :
          IF Before(b.list, c, o) THEN b.eid[c] < b.eid[o]
                                  ELSE b.eid[o] <= b.eid[c]

\* A deleted object stays only while some client has still to read it.
NoGarbage(b) == \A o \in b.del : ~ no_clients_need_this(b, o)
==============================================================================

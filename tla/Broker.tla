------------------------------- MODULE Broker --------------------------------
(***************************************************************************)
(* One broker (broker/broker.c) under every sequence of calls its header   *)
(* allows: objects are added, updated and deleted, clients come and go and *)
(* each reads at its own speed.                                            *)
(***************************************************************************)
EXTENDS BrokerOps

CONSTANT MaxId   \* bound: no change once the broker has given this id

ASSUME MaxIdAssumption == MaxId \in Nat

VARIABLES b,     \* the broker
          seen   \* history: the id under which each client last read an object

vars == <<b, seen>>

Init == /\ b = broker_create
        /\ seen = [c \in Clients |-> [o \in Objs |-> 0]]

Add(o) ==
    /\ o \notin ObjsOf(b)
    /\ b.id < MaxId
    /\ b' = broker_add_obj(b, o)
    /\ UNCHANGED seen

Update(o) ==
    /\ o \in ObjsOf(b)
    /\ b.id < MaxId
    /\ b' = broker_upd_obj(b, o)
    /\ UNCHANGED seen

Delete(o) ==
    /\ o \in ObjsOf(b)
    /\ b.id < MaxId
    /\ b' = broker_del_obj(b, o)
    /\ UNCHANGED seen

DeleteNow(o) ==
    /\ o \in ObjsOf(b)
    /\ b' = broker_del_obj_now(b, o)
    /\ UNCHANGED seen

ClientCreate(c) ==
    /\ c \notin ClientsOf(b)
    /\ b' = broker_client_create(b, c)
    /\ seen' = [seen EXCEPT ![c] = [o \in Objs |-> 0]]

ClientDelete(c) ==
    /\ c \in ClientsOf(b)
    /\ b' = broker_client_delete(b, c)
    /\ UNCHANGED seen

ClientGetData(c) ==
    LET o == broker_get_next_data_obj(b, c) IN
    /\ c \in ClientsOf(b)
    /\ b' = broker_client_get_data(b, c)
    /\ seen' = IF o = NULL THEN seen ELSE [seen EXCEPT ![c] = [@ EXCEPT ![o] = b.eid[o]]]

Next == \/ \E o \in Objs : Add(o) \/ Update(o) \/ Delete(o) \/ DeleteNow(o)
        \/ \E c \in Clients : ClientCreate(c) \/ ClientDelete(c) \/ ClientGetData(c)

Spec == Init /\ [][Next]_vars

-----------------------------------------------------------------------------
TypeOK == /\ BrokerType(b)
          /\ seen \in [Clients -> [Objs -> Nat]]

\* The cursor of each client separates what it has read from what it has not,
\* for the list and for the ids alike (broker.c compares ids in some places
\* and walks the list in others).
CursorsInOrder == CursorOrder(b)

\* No deleted object outlives its last reader (broker.c:207, 267).
NothingLeftBehind == NoGarbage(b)

\* A client has read the current version of every object behind its cursor:
\* no update, deletion or removal of another client's cursor makes it skip
\* one.
BehindIsRead == \A c \in ClientsOf(b) : \A o \in ObjsOf(b) \ Unread(b, c) :
                    seen[c][o] = b.eid[o]

\* What may happen to an object flagged as deleted: it stays, or every client
\* that is left has read the deletion, or its user has it removed at once.
DeletionRead(o) ==
    \/ o \in ObjsOf(b')
    \/ \A c \in ClientsOf(b') : seen'[c][o] = b.eid[o]
    \/ DeleteNow(o)

\* An object flagged as deleted is freed only once every client that stays
\* has read the deletion, however the readers overtake each other and come
\* and go (only broker_del_obj_now takes it away unread).
DeletionsAreRead == [][\A o \in b.del : DeletionRead(o)]_vars
==============================================================================

--------------------------- MODULE BrokerTheorems ----------------------------
(***************************************************************************)
(* The properties of one broker, for any sets of objects and clients and   *)
(* any number of changes.                                                  *)
(***************************************************************************)
EXTENDS Broker, BrokerOpsTheorems

\* The inductive invariant.
IInv == /\ BrokerOK(b)
        /\ seen \in [Clients -> [Objs -> Nat]]
        /\ BehindIsRead

\* The inductive invariant holds of a new broker (broker_create).
LEMMA InitIInv == Init => IInv
<1> SUFFICES ASSUME Init PROVE IInv
  OBVIOUS
<1>1. BrokerOK(b)
  BY CreateOK DEF Init
<1>2. ClientsOf(b) = {}
  BY DEF Init, broker_create, ClientsOf, Elems, Range
<1> QED
  BY <1>1, <1>2 DEF Init, IInv, BehindIsRead

\* Every operation of broker.c preserves the inductive invariant.
LEMMA NextIInv == IInv /\ [Next]_vars => IInv'
<1> SUFFICES ASSUME IInv, [Next]_vars PROVE IInv'
  OBVIOUS
<1>1. ASSUME NEW o \in Objs, Add(o) PROVE IInv'
  <2>1. /\ BrokerOK(b')
        /\ ClientsOf(b') = ClientsOf(b)
        /\ ObjsOf(b') = ObjsOf(b) \cup {o}
        /\ \A c \in ClientsOf(b) : Unread(b', c) = Unread(b, c) \cup {o}
        /\ \A p \in ObjsOf(b) : b'.eid[p] = b.eid[p]
    BY <1>1, AddSummary DEF Add, IInv
  <2> QED  BY <1>1, <2>1 DEF Add, IInv, BehindIsRead
<1>2. ASSUME NEW o \in Objs, Update(o) PROVE IInv'
  <2>1. /\ BrokerOK(b')
        /\ ClientsOf(b') = ClientsOf(b)
        /\ ObjsOf(b') = ObjsOf(b)
        /\ \A c \in ClientsOf(b) : Unread(b', c) = Unread(b, c) \cup {o}
        /\ \A p \in ObjsOf(b') \ {o} : b'.eid[p] = b.eid[p]
    BY <1>2, UpdSummary DEF Update, IInv
  <2> QED  BY <1>2, <2>1 DEF Update, IInv, BehindIsRead
<1>3. ASSUME NEW o \in Objs, Delete(o) PROVE IInv'
  <2>1. /\ BrokerOK(b')
        /\ ClientsOf(b') = ClientsOf(b)
        /\ ObjsOf(b') \subseteq ObjsOf(b)
        /\ \A c \in ClientsOf(b) : Unread(b', c) = Unread(b, c) \cup {o}
        /\ \A p \in ObjsOf(b') \ {o} : b'.eid[p] = b.eid[p]
    BY <1>3, DelSummary DEF Delete, IInv
  <2> QED  BY <1>3, <2>1 DEF Delete, IInv, BehindIsRead
<1>4. ASSUME NEW o \in Objs, DeleteNow(o) PROVE IInv'
  <2>1. /\ BrokerOK(b')
        /\ ClientsOf(b') = ClientsOf(b)
        /\ ObjsOf(b') = ObjsOf(b) \ {o}
        /\ \A c \in ClientsOf(b) : Unread(b', c) = Unread(b, c) \ {o}
        /\ \A p \in ObjsOf(b') : b'.eid[p] = b.eid[p]
    BY <1>4, DelNowSummary DEF DeleteNow, IInv
  <2> QED  BY <1>4, <2>1 DEF DeleteNow, IInv, BehindIsRead
<1>5. ASSUME NEW c \in Clients, ClientCreate(c) PROVE IInv'
  <2>1. /\ BrokerOK(b')
        /\ ClientsOf(b') = ClientsOf(b) \cup {c}
        /\ ObjsOf(b') = ObjsOf(b)
        /\ Unread(b', c) = ObjsOf(b)
        /\ \A d \in ClientsOf(b) : Unread(b', d) = Unread(b, d)
        /\ \A p \in ObjsOf(b') : b'.eid[p] = b.eid[p]
    BY <1>5, ClientCreateSummary DEF ClientCreate, IInv
  <2>2. /\ seen' \in [Clients -> [Objs -> Nat]]
        /\ \A d \in Clients \ {c} : seen'[d] = seen[d]
    BY <1>5 DEF ClientCreate, IInv
  <2>3. \A d \in ClientsOf(b) : d \in Clients \ {c}
    BY <1>5 DEF ClientCreate, ClientsOf
  <2> QED  BY <1>5, <2>1, <2>2, <2>3 DEF IInv, BehindIsRead
<1>6. ASSUME NEW c \in Clients, ClientDelete(c) PROVE IInv'
  <2>1. /\ BrokerOK(b')
        /\ ClientsOf(b') = ClientsOf(b) \ {c}
        /\ ObjsOf(b') \subseteq ObjsOf(b)
        /\ \A d \in ClientsOf(b') : Unread(b', d) = Unread(b, d)
        /\ \A p \in ObjsOf(b') : b'.eid[p] = b.eid[p]
    BY <1>6, ClientDeleteSummary DEF ClientDelete, IInv
  <2> QED  BY <1>6, <2>1 DEF ClientDelete, IInv, BehindIsRead
<1>7. ASSUME NEW c \in Clients, ClientGetData(c) PROVE IInv'
  <2> DEFINE o == broker_get_next_data_obj(b, c)
  <2>1. /\ BrokerOK(b')
        /\ ClientsOf(b') = ClientsOf(b)
        /\ \A p \in ObjsOf(b') : b'.eid[p] = b.eid[p]
        /\ \/ /\ o = NULL
              /\ ObjsOf(b') = ObjsOf(b)
              /\ \A d \in ClientsOf(b) : Unread(b', d) = Unread(b, d)
           \/ /\ o # NULL
              /\ o \in Unread(b, c)
              /\ ObjsOf(b') \subseteq ObjsOf(b)
              /\ Unread(b', c) = Unread(b, c) \ {o}
              /\ \A d \in ClientsOf(b) \ {c} : Unread(b', d) = Unread(b, d)
    BY <1>7, GetDataSummary DEF ClientGetData, IInv
  <2>2. seen' = IF o = NULL THEN seen ELSE [seen EXCEPT ![c] = [@ EXCEPT ![o] = b.eid[o]]]
    BY <1>7 DEF ClientGetData
  <2>3. b.eid \in [Entries -> Nat] /\ Unread(b, c) \subseteq Objs /\ Objs \subseteq Entries
    BY ListOrder, Zenon DEF IInv, BrokerOK, Unread, ObjsOf, Entries
  <2> HIDE DEF o
  <2>4. CASE o = NULL
    BY <2>1, <2>2, <2>4 DEF IInv, BehindIsRead
  <2>5. CASE o # NULL
    <3>1. seen' \in [Clients -> [Objs -> Nat]]
      BY <2>1, <2>2, <2>3, <2>5 DEF IInv
    <3>2. /\ seen'[c] = [seen[c] EXCEPT ![o] = b.eid[o]]
          /\ \A d \in Clients \ {c} : seen'[d] = seen[d]
      BY <2>2, <2>5 DEF IInv
    <3>3. \A d \in ClientsOf(b) : d \in Clients
      BY DEF ClientsOf
    <3>4. ASSUME NEW d \in ClientsOf(b'), NEW p \in ObjsOf(b') \ Unread(b', d)
          PROVE  seen'[d][p] = b'.eid[p]
      <4>1. CASE d # c
        BY <2>1, <2>5, <3>2, <3>3, <4>1 DEF IInv, BehindIsRead
      <4>2. CASE d = c /\ p = o
        <5>1. seen'[c][o] = b.eid[o]
          BY <2>1, <2>3, <2>5, <3>2 DEF IInv
        <5> QED  BY <2>1, <4>2, <5>1
      <4>3. CASE d = c /\ p # o
        <5>1. p \in ObjsOf(b) \ Unread(b, c) /\ p \in Objs
          BY <2>1, <2>5, <4>3 DEF ObjsOf
        <5>2. seen'[c][p] = seen[c][p]
          BY <3>2, <4>3, <5>1 DEF IInv
        <5> QED  BY <2>1, <4>3, <5>1, <5>2 DEF IInv, BehindIsRead
      <4> QED  BY <4>1, <4>2, <4>3
    <3> QED  BY <2>1, <3>1, <3>4 DEF IInv, BehindIsRead
  <2> QED  BY <2>4, <2>5
<1>8. CASE UNCHANGED vars
  BY <1>8 DEF vars, IInv, BehindIsRead
<1> QED
  BY <1>1, <1>2, <1>3, <1>4, <1>5, <1>6, <1>7, <1>8 DEF Next

\* A broker is in order, holds no garbage, and each client has read what is
\* behind its cursor, after any sequence of calls to broker.c.
THEOREM BrokerInvariant == Spec => []IInv
BY InitIInv, NextIInv, PTL DEF Spec

(***************************************************************************)
(* Whatever calls its users make, a broker keeps its cursors in order      *)
(* (broker.c relies on ids and on list positions agreeing), ...            *)
(***************************************************************************)
THEOREM CursorsAlwaysInOrder == Spec => []CursorsInOrder
<1>1. IInv => CursorsInOrder
  BY DEF IInv, BrokerOK, CursorsInOrder
<1> QED  BY <1>1, BrokerInvariant, PTL

(***************************************************************************)
(* ... it never keeps a deleted object that no client has to read, ...     *)
(***************************************************************************)
THEOREM NothingEverLeftBehind == Spec => []NothingLeftBehind
<1>1. IInv => NothingLeftBehind
  BY DEF IInv, BrokerOK, NothingLeftBehind
<1> QED  BY <1>1, BrokerInvariant, PTL

(***************************************************************************)
(* ... no client skips a change of an object, ...                          *)
(***************************************************************************)
THEOREM NoChangeSkipped == Spec => [](TypeOK /\ BehindIsRead)
<1>1. IInv => TypeOK /\ BehindIsRead
  BY DEF IInv, BrokerOK, TypeOK
<1> QED  BY <1>1, BrokerInvariant, PTL

(***************************************************************************)
(* ... and no client misses a deletion.                                    *)
(***************************************************************************)
THEOREM NoDeletionMissed == Spec => DeletionsAreRead
<1>1. IInv /\ [Next]_vars => [\A o \in b.del : DeletionRead(o)]_vars
  <2> SUFFICES ASSUME IInv, Next, NEW o \in b.del
               PROVE  DeletionRead(o)
    OBVIOUS
  <2>1. o \in ObjsOf(b)
    BY ListOrder DEF IInv, BrokerOK
  <2>2. ASSUME NEW p \in Objs, Add(p) PROVE DeletionRead(o)
    BY <2>1, <2>2, AddSummary DEF Add, IInv, DeletionRead
  <2>3. ASSUME NEW p \in Objs, Update(p) PROVE DeletionRead(o)
    BY <2>1, <2>3, UpdSummary DEF Update, IInv, DeletionRead
  <2>4. ASSUME NEW p \in Objs, Delete(p) PROVE DeletionRead(o)
    BY <2>1, <2>4, DelSummary DEF Delete, IInv, DeletionRead
  <2>5. ASSUME NEW p \in Objs, DeleteNow(p) PROVE DeletionRead(o)
    <3>1. CASE p = o  BY <2>5, <3>1 DEF DeletionRead
    <3>2. CASE p # o
      BY <2>1, <2>5, <3>2, DelNowSummary DEF DeleteNow, IInv, DeletionRead
    <3> QED  BY <3>1, <3>2
  <2>6. ASSUME NEW c \in Clients, ClientCreate(c) PROVE DeletionRead(o)
    BY <2>1, <2>6, ClientCreateSummary DEF ClientCreate, IInv, DeletionRead
  <2>7. ASSUME NEW c \in Clients, ClientDelete(c) PROVE DeletionRead(o)
    <3>1. /\ ClientsOf(b') = ClientsOf(b) \ {c}
          /\ \A d \in ClientsOf(b') : Unread(b', d) = Unread(b, d)
          /\ seen' = seen
      BY <2>7, ClientDeleteSummary DEF ClientDelete, IInv
    <3>2. o \notin ObjsOf(b') => \A d \in ClientsOf(b') : o \notin Unread(b, d)
      BY <3>1 DEF Unread
    <3> QED  BY <2>1, <3>1, <3>2 DEF IInv, BehindIsRead, DeletionRead
  <2>8. ASSUME NEW c \in Clients, ClientGetData(c) PROVE DeletionRead(o)
    <3> SUFFICES ASSUME o \notin ObjsOf(b'), NEW d \in ClientsOf(b')
                 PROVE  seen'[d][o] = b.eid[o]
      BY DEF DeletionRead
    <3> DEFINE p == broker_get_next_data_obj(b, c)
    <3>1. /\ ClientsOf(b') = ClientsOf(b)
          /\ p # NULL
          /\ p = o
          /\ \A e \in ClientsOf(b) \ {c} : Unread(b', e) = Unread(b, e)
      BY <2>1, <2>8, GetDataSummary DEF ClientGetData, IInv
    <3>2. seen' = [seen EXCEPT ![c] = [@ EXCEPT ![p] = b.eid[p]]]
      BY <2>8, <3>1 DEF ClientGetData
    <3> HIDE DEF p
    <3>3. d \in Clients /\ o \in Objs
      BY <2>1 DEF ClientsOf, ObjsOf
    <3>4. CASE d = c
      BY <3>1, <3>2, <3>3, <3>4 DEF IInv
    <3>5. CASE d # c
      <4>1. seen'[d] = seen[d]
        BY <3>2, <3>3, <3>5 DEF IInv
      <4>2. o \notin Unread(b, d)
        <5>1. Unread(b', d) = Unread(b, d)  BY <3>1, <3>5
        <5> QED  BY <5>1 DEF Unread
      <4> QED  BY <2>1, <3>1, <4>1, <4>2 DEF IInv, BehindIsRead
    <3> QED  BY <3>4, <3>5
  <2> QED
    BY <2>2, <2>3, <2>4, <2>5, <2>6, <2>7, <2>8 DEF Next
<1> QED
  BY <1>1, BrokerInvariant, PTL DEF Spec, DeletionsAreRead
==============================================================================

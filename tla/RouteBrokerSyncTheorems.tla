---------------------- MODULE RouteBrokerSyncTheorems ----------------------
(***************************************************************************)
(* client_list and the clients that sleep, for any number of clients and   *)
(* of changes: as long as one thread at a time uses client_list it is a    *)
(* ring and every sleeping client is woken, and insertions that race lead  *)
(* no walk to a client that has been deleted.                              *)
(***************************************************************************)
EXTENDS RouteBrokerSync, TLAPS


\* Unlinking c: what is left of half a ring.  g and h are f and b, changed in
\* the entry before c and in the one behind it.
LEMMA RemoveHalfRing ==
    ASSUME NEW L, HEAD \notin L, NEW f, NEW b, HalfRing(L, f, b), HalfRing(L, b, f),
           NEW c \in L, NEW g, NEW h,
           g[b[c]] = f[c],
           \A e \in (L \cup {HEAD}) \ {c} : e # b[c] => g[e] = f[e],
           h[f[c]] = b[c],
           \A e \in (L \cup {HEAD}) \ {c} : e # f[c] => h[e] = b[e]
    PROVE  HalfRing(L \ {c}, g, h)
<1>1. /\ \A e \in L \cup {HEAD} : f[e] \in L \cup {HEAD} /\ b[f[e]] = e
      /\ \A e \in L \cup {HEAD} : b[e] \in L \cup {HEAD} /\ f[b[e]] = e
      /\ \A S \in SUBSET L : (\A x \in S : f[x] \in S) => S = {}
  BY DEF HalfRing
<1>2. f[c] # c
  <2>1. (\A x \in {c} : f[x] \in {c}) => {c} = {}
    BY <1>1, {c} \in SUBSET L, Zenon
  <2> QED  BY <2>1
<1>3. ASSUME NEW e \in (L \ {c}) \cup {HEAD}
      PROVE  g[e] \in (L \ {c}) \cup {HEAD} /\ h[g[e]] = e
  <2>1. CASE e = b[c]
    BY <1>1, <1>2, <2>1
  <2>2. CASE e # b[c]
    <3>1. g[e] = f[e] /\ f[e] # c /\ f[e] # f[c]
      BY <1>1, <2>2
    <3> QED  BY <1>1, <3>1
  <2> QED  BY <2>1, <2>2
<1>4. ASSUME NEW S \in SUBSET (L \ {c}), \A x \in S : g[x] \in S
      PROVE  S = {}
  <2>1. CASE b[c] \in S
    <3>1. S \cup {c} \in SUBSET L /\ S \cup {c} # {}
      OBVIOUS
    <3>2. \A x \in S \cup {c} : f[x] \in S \cup {c}
      BY <1>1, <1>4, <2>1
    <3> QED  BY <1>1, <3>1, <3>2, Zenon
  <2>2. CASE b[c] \notin S
    <3>1. \A x \in S : f[x] \in S
      BY <1>4, <2>2
    <3> QED  BY <1>1, <3>1
  <2> QED  BY <2>1, <2>2
<1> QED  BY <1>3, <1>4 DEF HalfRing

\* CIRCLEQ_REMOVE of one entry of a ring leaves a ring.
LEMMA RemoveRing ==
    ASSUME NEW L, HEAD \notin L, NEW f, NEW b, Ring(L, f, b), NEW c \in L, NEW g, NEW h,
           g[b[c]] = f[c],
           \A e \in (L \cup {HEAD}) \ {c} : e # b[c] => g[e] = f[e],
           h[f[c]] = b[c],
           \A e \in (L \cup {HEAD}) \ {c} : e # f[c] => h[e] = b[e]
    PROVE  Ring(L \ {c}, g, h)
<1>1. HalfRing(L, f, b) /\ HalfRing(L, b, f)
  BY DEF Ring
<1>2. HalfRing(L \ {c}, g, h)
  BY <1>1, RemoveHalfRing
<1>3. HalfRing(L \ {c}, h, g)
  BY <1>1, RemoveHalfRing
<1> QED  BY <1>2, <1>3 DEF Ring

\* CIRCLEQ_INSERT_HEAD into a ring leaves a ring.
LEMMA InsertRing ==
    ASSUME NEW L, HEAD \notin L, NEW f, NEW b, Ring(L, f, b), NEW c, c \notin L, c # HEAD,
           NEW g, NEW h,
           g[c] = f[HEAD], g[HEAD] = c, \A e \in L : g[e] = f[e],
           h[c] = HEAD, h[f[HEAD]] = c,
           \A e \in L \cup {HEAD} : e # f[HEAD] => h[e] = b[e]
    PROVE  Ring(L \cup {c}, g, h)
<1>1. /\ \A e \in L \cup {HEAD} : f[e] \in L \cup {HEAD} /\ b[f[e]] = e
      /\ \A e \in L \cup {HEAD} : b[e] \in L \cup {HEAD} /\ f[b[e]] = e
  BY DEF Ring, HalfRing
<1>2. /\ \A S \in SUBSET L : (\A x \in S : f[x] \in S) => S = {}
      /\ \A S \in SUBSET L : (\A x \in S : b[x] \in S) => S = {}
  BY DEF Ring, HalfRing
<1>3. \A e \in L \cup {c} \cup {HEAD} :
          /\ g[e] \in L \cup {c} \cup {HEAD} /\ h[g[e]] = e
          /\ h[e] \in L \cup {c} \cup {HEAD} /\ g[h[e]] = e
  BY <1>1
<1>4. ASSUME NEW S \in SUBSET (L \cup {c}), \A x \in S : g[x] \in S
      PROVE  S = {}
  <2>1. S \ {c} \in SUBSET L
    OBVIOUS
  <2>2. \A x \in S \ {c} : f[x] \in S \ {c}
    BY <1>1, <1>4
  <2>3. S \ {c} = {}
    BY <1>2, <2>1, <2>2, Zenon
  <2> QED  BY <1>1, <1>4, <2>3
<1>5. ASSUME NEW S \in SUBSET (L \cup {c}), \A x \in S : h[x] \in S
      PROVE  S = {}
  <2>1. c \notin S /\ S \in SUBSET L
    BY <1>5
  <2>2. \A x \in S : b[x] \in S
    BY <1>5, <2>1
  <2> QED  BY <1>2, <2>1, <2>2
<1> QED  BY <1>3, <1>4, <1>5 DEF Ring, HalfRing

\* A ring depends only on where its entries lead.
LEMMA SameRing ==
    ASSUME NEW L, NEW f, NEW b, Ring(L, f, b), NEW g, NEW h,
           \A e \in L \cup {HEAD} : g[e] = f[e] /\ h[e] = b[e]
    PROVE  Ring(L, g, h)
BY DEF Ring, HalfRing

\* Everything in a ring is reached from the head.
LEMMA RingReaches ==
    ASSUME NEW L, HEAD \notin L, NEW f, NEW b, Ring(L, f, b),
           NEW S, f[HEAD] \in S, \A e \in S \ {HEAD} : f[e] \in S
    PROVE  L \subseteq S
<1>1. /\ \A e \in L \cup {HEAD} : b[e] \in L \cup {HEAD} /\ f[b[e]] = e
      /\ \A T \in SUBSET L : (\A x \in T : b[x] \in T) => T = {}
  BY DEF Ring, HalfRing
<1>2. L \ S \in SUBSET L
  OBVIOUS
<1>3. \A x \in L \ S : b[x] \in L \ S
  BY <1>1
<1> QED  BY <1>1, <1>2, <1>3, Zenon

-----------------------------------------------------------------------------
\* The clients that are in client_list, and the entries whose cqe_next is used.
Linked == {c \in Clients : pc[c] \in {"loop", "waiting", "remove1", "remove2"}}
Pointing == {HEAD} \cup Linked \cup {c \in Clients : pc[c] \in {"insert2", "insert3"}}

\* While one thread at a time uses client_list it is a ring, or half way from
\* one ring to another.
ListShape ==
    raced = "no" =>
        /\ ~ Crowded
        /\ (\A c \in Clients : pc[c] \notin {"insert3", "remove2"}) => Ring(Linked, next, prev)
        /\ \A c \in Clients :
              /\ pc[c] \in {"insert2", "insert3"} => next[c] = next[HEAD] /\ prev[c] = HEAD
              /\ pc[c] = "insert3" => /\ prev[next[HEAD]] = c
                                      /\ Ring(Linked, next, [prev EXCEPT ![next[HEAD]] = HEAD])
              /\ pc[c] = "remove2" => /\ prev[next[c]] = prev[c]
                                      /\ Ring(Linked, next, [prev EXCEPT ![next[c]] = c])

\* Insertions that race lose clients from client_list, but what is followed
\* leads to clients that are in it, and so does a walk.
LeadsOn ==
    /\ raced # "remove" => \A e \in Pointing : next[e] \in Linked \cup {HEAD}
    /\ raced # "remove" /\ walk # "idle" => cur \in Linked \cup {HEAD}
    /\ raced = "insert" => ~ Removal

\* The walk that wakes the clients has still to come to c: every set of
\* entries that is closed under cqe_next up to the head and contains the entry
\* that is looked at next contains c.
Ahead(c) ==
    \A S \in SUBSET Entries :
        /\ (IF walk = "next" THEN next[cur] ELSE cur) \in S
        /\ \A e \in S \ {HEAD} : next[e] \in S
        => c \in S

\* While no race is recorded, a client that sleeps with something to read has
\* been signalled, or the publisher has the mutex and comes to it.
ToWake ==
    raced = "no" =>
        \A c \in Clients : pc[c] = "waiting" /\ read[c] # id /\ c \notin signalled
                              => ~ MutexFree /\ Ahead(c)

\* No client has read more than was published; only those that wait are
\* signalled; a walk that looks at an entry looks at a client.
Reading ==
    /\ \A c \in Clients : read[c] <= id /\ (c \in signalled => pc[c] = "waiting")
    /\ walk \in {"touch", "showTouch"} => cur \in Clients

SyncTypes == TypeOK /\ Reading

SyncSafe == SyncTypes /\ ListShape /\ LeadsOn /\ ToWake

\* What the history of races says about the step that was made.
LEMMA RecordedFacts ==
    ASSUME Recorded, raced \in {"no", "insert", "remove"}
    PROVE  /\ raced' \in {"no", "insert", "remove"}
           /\ raced' = "no" => raced = "no" /\ ~ Crowded'
           /\ raced' # "remove" => raced # "remove"
           /\ raced' = "insert" => ~ Removal'
           /\ raced' # "remove" /\ Removal' => raced' = "no"
BY DEF Recorded

\* One thread at a time uses client_list.
LEMMA Alone ==
    ASSUME SyncTypes, ~ Crowded
    PROVE  /\ \A c, d \in Clients : pc[c] \in Linking /\ pc[d] \in Linking => c = d
           /\ \A c \in Clients : pc[c] \in Linking => walk = "idle"
<1>1. HEAD \notin Clients
  BY SyncAssumption
<1>2. \A x, y \in Users : x = y
  BY DEF Crowded
<1>3. \A c \in Clients : pc[c] \in Linking => c \in Users
  BY DEF Users
<1>4. walk # "idle" => HEAD \in Users
  BY DEF Users
<1> QED  BY <1>1, <1>2, <1>3, <1>4

\* At the start nobody is in client_list, which is a ring of the head alone.
LEMMA SyncInit == Init => SyncSafe
<1> SUFFICES ASSUME Init PROVE SyncSafe
  OBVIOUS
<1>1. SyncTypes
  BY SyncAssumption DEF Init, SyncTypes, TypeOK, Reading, Entries, Locs, Live, Linking
<1>2. Linked = {} /\ Users = {}
  BY DEF Init, Linked, Users, Linking, Inserting, Removing
<1>3. Ring(Linked, next, prev)
  BY <1>2 DEF Init, Ring, HalfRing, Entries
<1>4. ListShape
  BY <1>2, <1>3 DEF Init, ListShape, Crowded
<1>5. LeadsOn
  BY <1>2 DEF Init, LeadsOn, Pointing, Removal, Removing, Entries
<1> QED  BY <1>1, <1>4, <1>5 DEF Init, SyncSafe, ToWake

\* The steps of the publisher and of the show command, and those of a client.
WalkStep ==
    \/ object_broker_publish \/ Wake
    \/ route_broker_show_internal \/ ShowOn \/ ShowErrors

ClientStep(c) ==
    \/ route_broker_client_create(c)
    \/ Link(c)
    \/ route_broker_client_get_data(c)
    \/ Timeout(c)
    \/ route_broker_client_delete(c)
    \/ Unlink(c)

\* The publisher and the show command keep the types, and a walk that looks at
\* an entry looks at a client.
LEMMA WalkTypes ==
    ASSUME SyncTypes, WalkStep
    PROVE  SyncTypes'
<1>0. raced' \in {"no", "insert", "remove"}
  BY RecordedFacts DEF SyncTypes, TypeOK, WalkStep, Wake, object_broker_publish, WalkOn,
     route_broker_wake_clients, route_broker_show_internal, ShowOn, ShowErrors
<1>1. CASE object_broker_publish
  BY <1>0, <1>1, SyncAssumption DEF object_broker_publish, SyncTypes, TypeOK, Reading, list, Entries
<1>2. CASE WalkOn
  BY <1>0, <1>2 DEF WalkOn, SyncTypes, TypeOK, Reading, list, Entries
<1>3. CASE route_broker_wake_clients
  BY <1>0, <1>3 DEF route_broker_wake_clients, SyncTypes, TypeOK, Reading, list
<1>4. CASE route_broker_show_internal
  BY <1>0, <1>4 DEF route_broker_show_internal, SyncTypes, TypeOK, Reading, list, Entries
<1>5. CASE ShowOn
  BY <1>0, <1>5 DEF ShowOn, SyncTypes, TypeOK, Reading, list, Entries
<1>6. CASE ShowErrors
  BY <1>0, <1>6 DEF ShowErrors, SyncTypes, TypeOK, Reading, list
<1> QED  BY <1>1, <1>2, <1>3, <1>4, <1>5, <1>6 DEF WalkStep, Wake

\* So does a client; it reads no more than was published.
LEMMA ClientTypes ==
    ASSUME SyncTypes, NEW c \in Clients, ClientStep(c)
    PROVE  SyncTypes'
<1> USE DEF Goto, list, Locs, Live, Linking, Inserting, Removing
<1>0. raced' \in {"no", "insert", "remove"}
  BY RecordedFacts DEF SyncTypes, TypeOK, ClientStep, Link, Unlink, route_broker_client_create,
     InsertLink, InsertBack, InsertFirst, route_broker_client_get_data, Timeout,
     route_broker_client_delete, RemoveBack, RemoveNext, Free
<1>1. CASE route_broker_client_create(c)
  BY <1>0, <1>1, SyncAssumption DEF route_broker_client_create, SyncTypes, TypeOK, Reading
<1>2. CASE InsertLink(c)
  BY <1>0, <1>2 DEF InsertLink, SyncTypes, TypeOK, Reading, Entries
<1>3. CASE InsertBack(c)
  BY <1>0, <1>3 DEF InsertBack, SyncTypes, TypeOK, Reading, Entries
<1>4. CASE InsertFirst(c)
  BY <1>0, <1>4 DEF InsertFirst, SyncTypes, TypeOK, Reading, Entries
<1>5. CASE route_broker_client_get_data(c)
  BY <1>0, <1>5, SyncAssumption DEF route_broker_client_get_data, SyncTypes, TypeOK, Reading,
     data_available_for_client
<1>6. CASE Timeout(c)
  BY <1>0, <1>6 DEF Timeout, SyncTypes, TypeOK, Reading
<1>7. CASE route_broker_client_delete(c)
  BY <1>0, <1>7 DEF route_broker_client_delete, SyncTypes, TypeOK, Reading
<1>8. CASE RemoveBack(c)
  BY <1>0, <1>8 DEF RemoveBack, SyncTypes, TypeOK, Reading, Entries
<1>9. CASE RemoveNext(c)
  BY <1>0, <1>9 DEF RemoveNext, SyncTypes, TypeOK, Reading, Entries
<1>10. CASE Free(c)
  BY <1>0, <1>10 DEF Free, SyncTypes, TypeOK, Reading
<1> QED
  BY <1>1, <1>2, <1>3, <1>4, <1>5, <1>6, <1>7, <1>8, <1>9, <1>10 DEF ClientStep, Link, Unlink

\* A step that neither links nor unlinks.
Still ==
    /\ next' = next /\ prev' = prev
    /\ Linked' = Linked
    /\ \A c \in Clients : \A loc \in {"insert2", "insert3", "remove2"} :
          pc'[c] = loc <=> pc[c] = loc

\* Such a step keeps the shape of client_list, if no race is recorded.
LEMMA StillShape ==
    ASSUME SyncTypes, Recorded, Still, ListShape
    PROVE  ListShape'
<1>1. /\ raced' = "no" => raced = "no" /\ ~ Crowded'
  BY RecordedFacts DEF SyncTypes, TypeOK
<1>2. next' = next /\ prev' = prev /\ Linked' = Linked
  BY DEF Still
<1> SUFFICES ASSUME raced = "no" /\ ~ Crowded' PROVE ListShape'
  BY <1>1, Zenon DEF ListShape
<1>3. (\A c \in Clients : pc'[c] \notin {"insert3", "remove2"}) => Ring(Linked, next, prev)
  BY DEF Still, ListShape
<1>4. ASSUME NEW c \in Clients
      PROVE  /\ pc'[c] \in {"insert2", "insert3"} => next[c] = next[HEAD] /\ prev[c] = HEAD
             /\ pc'[c] = "insert3" => /\ prev[next[HEAD]] = c
                                      /\ Ring(Linked, next, [prev EXCEPT ![next[HEAD]] = HEAD])
             /\ pc'[c] = "remove2" => /\ prev[next[c]] = prev[c]
                                      /\ Ring(Linked, next, [prev EXCEPT ![next[c]] = c])
  BY Zenon DEF Still, ListShape
<1> QED  BY <1>2, <1>3, <1>4, Zenon DEF ListShape

\* It leaves every entry leading to one that is in client_list.
LEMMA StillLeads ==
    ASSUME SyncTypes, Recorded, Still, LeadsOn,
           walk' # "idle" => \/ cur' = HEAD
                             \/ walk # "idle" /\ cur' \in {cur, next[cur]}
    PROVE  LeadsOn'
<1>1. /\ raced' # "remove" => raced # "remove"
      /\ raced' = "insert" => ~ Removal'
  BY RecordedFacts DEF SyncTypes, TypeOK
<1>2. next' = next /\ Linked' = Linked /\ Pointing' = Pointing
  BY DEF Still, Pointing
<1>3. Linked \cup {HEAD} \subseteq Pointing
  BY DEF Pointing
<1> QED  BY <1>1, <1>2, <1>3 DEF LeadsOn

\* The publisher and the show command change nothing in client_list.
LEMMA WalkShape ==
    ASSUME SyncTypes, ListShape, LeadsOn, WalkStep
    PROVE  ListShape' /\ LeadsOn'
<1>1. Still /\ Recorded
  BY DEF WalkStep, Wake, object_broker_publish, WalkOn, route_broker_wake_clients,
         route_broker_show_internal, ShowOn, ShowErrors, Still, Linked, list
<1>2. walk' # "idle" => \/ cur' = HEAD
                        \/ walk # "idle" /\ cur' \in {cur, next[cur]}
  BY DEF WalkStep, Wake, object_broker_publish, WalkOn, route_broker_wake_clients,
         route_broker_show_internal, ShowOn, ShowErrors
<1> QED  BY <1>1, <1>2, StillShape, StillLeads

\* Nor does a client but for the memory accesses of the two macros.
LEMMA StillClient ==
    ASSUME SyncTypes, ListShape, LeadsOn, NEW c \in Clients,
           \/ route_broker_client_create(c) \/ route_broker_client_get_data(c) \/ Timeout(c)
           \/ route_broker_client_delete(c) \/ Free(c)
    PROVE  ListShape' /\ LeadsOn'
<1>1. next' = next /\ prev' = prev /\ walk' = walk /\ cur' = cur /\ Recorded
  BY DEF route_broker_client_create, route_broker_client_get_data, Timeout,
         route_broker_client_delete, Free, list
<1>2. PICK loc \in Locs : pc' = [pc EXCEPT ![c] = loc]
                          /\ \/ {pc[c], loc} \subseteq {"new", "insert1", "free"}
                             \/ {pc[c], loc} \subseteq {"loop", "waiting", "remove1"}
  <2>1. CASE route_broker_client_create(c)
    BY <2>1, Zenon DEF route_broker_client_create, Goto, Locs, Live
  <2>2. CASE route_broker_client_get_data(c)
    BY <2>2 DEF route_broker_client_get_data, Goto, Locs, Live, SyncTypes, Reading
  <2>3. CASE Timeout(c)
    BY <2>3, Zenon DEF Timeout, Goto, Locs, Live
  <2>4. CASE route_broker_client_delete(c)
    BY <2>4, Zenon DEF route_broker_client_delete, Goto, Locs, Linking, Removing
  <2>5. CASE Free(c)
    BY <2>5, Zenon DEF Free, Goto, Locs
  <2> QED  BY <2>1, <2>2, <2>3, <2>4, <2>5
<1>3. pc \in [Clients -> Locs]
  BY DEF SyncTypes, TypeOK
<1>4. Linked' = Linked
  BY <1>2, <1>3 DEF Linked
<1>5. Still
  BY <1>1, <1>2, <1>3, <1>4 DEF Still
<1> QED  BY <1>1, <1>5, StillShape, StillLeads

\* If no race is recorded, a thread that links or unlinks c is alone.
LEMMA LinkAlone ==
    ASSUME SyncTypes, ListShape, Recorded, raced' = "no", NEW c \in Clients, pc[c] \in Linking,
           NEW loc, pc' = [pc EXCEPT ![c] = loc]
    PROVE  /\ raced = "no" /\ ~ Crowded'
           /\ walk = "idle"
           /\ pc' \in [Clients -> Locs \cup {loc}] /\ pc'[c] = loc
           /\ \A d \in Clients \ {c} : pc[d] \notin Linking /\ pc'[d] = pc[d]
<1>1. raced = "no" /\ ~ Crowded'
  BY RecordedFacts DEF SyncTypes, TypeOK
<1>2. ~ Crowded
  BY <1>1 DEF ListShape
<1> QED  BY <1>1, <1>2, Alone DEF SyncTypes, TypeOK

\* CIRCLEQ_INSERT_HEAD, the first two assignments: the new entry points into
\* the ring, which does not know of it yet.
LEMMA InsertLinkShape ==
    ASSUME SyncTypes, ListShape, LeadsOn, NEW c \in Clients, InsertLink(c)
    PROVE  ListShape' /\ LeadsOn'
<1>1. /\ pc[c] = "insert1" /\ pc' = [pc EXCEPT ![c] = "insert2"] /\ Recorded
      /\ next' = [next EXCEPT ![c] = next[HEAD]] /\ prev' = [prev EXCEPT ![c] = HEAD]
      /\ walk' = walk /\ cur' = cur
  BY DEF InsertLink, Goto
<1>2. /\ pc \in [Clients -> Locs] /\ next \in [Entries -> Entries] /\ prev \in [Entries -> Entries]
      /\ c \in Entries /\ HEAD \in Entries /\ c # HEAD /\ HEAD \notin Clients
  BY SyncAssumption DEF SyncTypes, TypeOK, Entries
<1>3. Linked' = Linked /\ c \notin Linked /\ Linked \subseteq Clients /\ Pointing' = Pointing \cup {c}
  BY <1>1, <1>2 DEF Linked, Pointing
<1>4. ListShape'
  <2> SUFFICES ASSUME raced' = "no" PROVE ListShape'
    BY Zenon DEF ListShape
  <2>1. /\ raced = "no" /\ ~ Crowded'
        /\ \A d \in Clients \ {c} : pc[d] \notin Linking /\ pc'[d] = pc[d]
    BY <1>1, LinkAlone, Zenon DEF Linking, Inserting
  <2>2. \A d \in Clients : /\ pc[d] \notin {"insert3", "remove2"}
                           /\ pc'[d] \notin {"insert3", "remove2"}
                           /\ pc'[d] = "insert2" => d = c
    BY <1>1, <1>2, <2>1 DEF Linking, Inserting, Removing
  <2>3. Ring(Linked, next, prev)
    BY <2>1, <2>2 DEF ListShape
  <2>4. Ring(Linked, next', prev')
    <3>1. \A e \in Linked \cup {HEAD} : next'[e] = next[e] /\ prev'[e] = prev[e]
      BY <1>1, <1>2, <1>3 DEF Entries
    <3> QED  BY <2>3, <3>1, SameRing
  <2>5. next'[c] = next'[HEAD] /\ prev'[c] = HEAD
    BY <1>1, <1>2
  <2> QED  BY <1>3, <2>1, <2>2, <2>4, <2>5 DEF ListShape
<1>5. LeadsOn'
  <2>1. /\ raced' # "remove" => raced # "remove"
        /\ raced' = "insert" => ~ Removal'
    BY <1>1, RecordedFacts DEF SyncTypes, TypeOK
  <2>2. HEAD \in Pointing /\ Pointing \subseteq Entries
    BY DEF Pointing, Linked, Entries
  <2> QED  BY <1>1, <1>2, <1>3, <2>1, <2>2 DEF LeadsOn
<1> QED  BY <1>4, <1>5

\* CIRCLEQ_INSERT_HEAD, the third: the ring is broken backwards, where the new
\* entry will be.
LEMMA InsertBackShape ==
    ASSUME SyncTypes, ListShape, LeadsOn, NEW c \in Clients, InsertBack(c)
    PROVE  ListShape' /\ LeadsOn'
<1>1. /\ pc[c] = "insert2" /\ pc' = [pc EXCEPT ![c] = "insert3"] /\ Recorded
      /\ next' = next
      /\ prev' = [prev EXCEPT ![IF prev[HEAD] = HEAD THEN HEAD ELSE next[HEAD]] = c]
      /\ walk' = walk /\ cur' = cur
  BY DEF InsertBack, Goto
<1>2. /\ pc \in [Clients -> Locs] /\ next \in [Entries -> Entries] /\ prev \in [Entries -> Entries]
      /\ c \in Entries /\ HEAD \in Entries /\ c # HEAD /\ HEAD \notin Clients
  BY SyncAssumption DEF SyncTypes, TypeOK, Entries
<1>3. Linked' = Linked /\ c \notin Linked /\ Linked \subseteq Clients /\ Pointing' = Pointing
  BY <1>1, <1>2 DEF Linked, Pointing
<1>4. ListShape'
  <2> SUFFICES ASSUME raced' = "no" PROVE ListShape'
    BY Zenon DEF ListShape
  <2>1. /\ raced = "no" /\ ~ Crowded'
        /\ \A d \in Clients \ {c} : pc[d] \notin Linking /\ pc'[d] = pc[d]
    BY <1>1, LinkAlone, Zenon DEF Linking, Inserting
  <2>2. \A d \in Clients : /\ pc[d] \notin {"insert3", "remove2"}
                           /\ pc'[d] \notin {"insert2", "remove2"}
                           /\ pc'[d] = "insert3" <=> d = c
    BY <1>1, <1>2, <2>1 DEF Linking, Inserting, Removing
  <2>3. Ring(Linked, next, prev)
    BY <2>1, <2>2 DEF ListShape
  <2>4. /\ next[HEAD] \in Linked \cup {HEAD} /\ prev[next[HEAD]] = HEAD
        /\ next[prev[HEAD]] = HEAD
    BY <2>3 DEF Ring, HalfRing
  <2>5. prev' = [prev EXCEPT ![next[HEAD]] = c]
    BY <1>1, <2>4, Zenon
  <2>6. [prev' EXCEPT ![next[HEAD]] = HEAD] = prev
    BY <1>2, <2>4, <2>5, Zenon
  <2>7. prev'[next[HEAD]] = c
    BY <1>2, <2>5
  <2>8. next[c] = next[HEAD] /\ prev'[c] = HEAD
    <3>1. next[c] = next[HEAD] /\ prev[c] = HEAD
      BY <1>1, <2>1, Zenon DEF ListShape
    <3> QED  BY <1>2, <1>3, <2>4, <2>5, <3>1
  <2> QED  BY <1>1, <1>3, <2>1, <2>2, <2>3, <2>6, <2>7, <2>8, Zenon DEF ListShape
<1>5. LeadsOn'
  <2>1. /\ raced' # "remove" => raced # "remove"
        /\ raced' = "insert" => ~ Removal'
    BY <1>1, RecordedFacts DEF SyncTypes, TypeOK
  <2> QED  BY <1>1, <1>3, <2>1 DEF LeadsOn
<1> QED  BY <1>4, <1>5

\* CIRCLEQ_INSERT_HEAD, the last one closes the ring around the new entry.
LEMMA InsertFirstShape ==
    ASSUME SyncTypes, ListShape, LeadsOn, NEW c \in Clients, InsertFirst(c)
    PROVE  ListShape' /\ LeadsOn'
<1>1. /\ pc[c] = "insert3" /\ pc' = [pc EXCEPT ![c] = "loop"] /\ Recorded
      /\ next' = [next EXCEPT ![HEAD] = c] /\ prev' = prev
      /\ walk' = walk /\ cur' = cur
  BY DEF InsertFirst, Goto
<1>2. /\ pc \in [Clients -> Locs] /\ next \in [Entries -> Entries] /\ prev \in [Entries -> Entries]
      /\ c \in Entries /\ HEAD \in Entries /\ c # HEAD /\ HEAD \notin Clients
  BY SyncAssumption DEF SyncTypes, TypeOK, Entries
<1>3. /\ Linked' = Linked \cup {c} /\ c \notin Linked /\ HEAD \notin Linked
      /\ Linked \subseteq Entries /\ Pointing' = Pointing
  BY <1>1, <1>2 DEF Linked, Pointing, Entries
<1>4. ListShape'
  <2> SUFFICES ASSUME raced' = "no" PROVE ListShape'
    BY Zenon DEF ListShape
  <2>1. /\ raced = "no" /\ ~ Crowded'
        /\ \A d \in Clients \ {c} : pc[d] \notin Linking /\ pc'[d] = pc[d]
    BY <1>1, LinkAlone, Zenon DEF Linking, Inserting
  <2>2. \A d \in Clients : pc'[d] \notin {"insert2", "insert3", "remove2"}
    BY <1>1, <1>2, <2>1 DEF Linking, Inserting, Removing
  <2>3. /\ next[c] = next[HEAD] /\ prev[c] = HEAD
        /\ prev[next[HEAD]] = c
        /\ Ring(Linked, next, [prev EXCEPT ![next[HEAD]] = HEAD])
    BY <1>1, <2>1, Zenon DEF ListShape
  <2> DEFINE b == [prev EXCEPT ![next[HEAD]] = HEAD]
  <2>4. \A e \in Linked \cup {HEAD} : e # next[HEAD] => prev[e] = b[e]
    BY <1>2, <1>3
  <2>5. /\ next'[c] = next[HEAD] /\ next'[HEAD] = c
        /\ \A e \in Linked : next'[e] = next[e]
    BY <1>1, <1>2, <1>3, <2>3
  <2> HIDE DEF b
  <2>6. Ring(Linked, next, b)
    BY <2>3 DEF b
  <2>7. HEAD \notin Linked /\ c \notin Linked /\ c # HEAD /\ prev[c] = HEAD /\ prev[next[HEAD]] = c
    BY <1>2, <1>3, <2>3
  <2>8. Ring(Linked \cup {c}, next', prev)
    BY <2>4, <2>5, <2>6, <2>7, InsertRing
  <2> QED  BY <1>1, <1>3, <2>1, <2>2, <2>8 DEF ListShape
<1>5. LeadsOn'
  <2>1. /\ raced' # "remove" => raced # "remove"
        /\ raced' = "insert" => ~ Removal'
    BY <1>1, RecordedFacts DEF SyncTypes, TypeOK
  <2>2. Pointing \subseteq Entries
    BY DEF Pointing, Linked, Entries
  <2> QED  BY <1>1, <1>2, <1>3, <2>1, <2>2 DEF LeadsOn
<1> QED  BY <1>4, <1>5

\* CIRCLEQ_REMOVE, the first assignment: the ring leads past the entry backwards.
LEMMA RemoveBackShape ==
    ASSUME SyncTypes, ListShape, LeadsOn, NEW c \in Clients, RemoveBack(c)
    PROVE  ListShape' /\ LeadsOn'
<1>1. /\ pc[c] = "remove1" /\ pc' = [pc EXCEPT ![c] = "remove2"] /\ Recorded
      /\ next' = next /\ prev' = [prev EXCEPT ![next[c]] = prev[c]]
      /\ walk' = walk /\ cur' = cur
  BY DEF RemoveBack, Goto
<1>2. /\ pc \in [Clients -> Locs] /\ next \in [Entries -> Entries] /\ prev \in [Entries -> Entries]
      /\ c \in Entries /\ HEAD \in Entries /\ c # HEAD /\ HEAD \notin Clients
  BY SyncAssumption DEF SyncTypes, TypeOK, Entries
<1>3. Linked' = Linked /\ c \in Linked /\ Pointing' = Pointing
  BY <1>1, <1>2 DEF Linked, Pointing
<1>4. ListShape'
  <2> SUFFICES ASSUME raced' = "no" PROVE ListShape'
    BY Zenon DEF ListShape
  <2>1. /\ raced = "no" /\ ~ Crowded'
        /\ \A d \in Clients \ {c} : pc[d] \notin Linking /\ pc'[d] = pc[d]
    BY <1>1, LinkAlone, Zenon DEF Linking, Removing
  <2>2. \A d \in Clients : /\ pc[d] \notin {"insert3", "remove2"}
                           /\ pc'[d] \notin {"insert2", "insert3"}
                           /\ pc'[d] = "remove2" <=> d = c
    BY <1>1, <1>2, <2>1 DEF Linking, Inserting, Removing
  <2>3. Ring(Linked, next, prev)
    BY <2>1, <2>2 DEF ListShape
  <2>4. next[c] # c /\ prev[next[c]] = c
    <3>1. (\A x \in {c} : next[x] \in {c}) => {c} = {}
      BY <1>3, <2>3, {c} \in SUBSET Linked, Zenon DEF Ring, HalfRing
    <3> QED  BY <1>3, <2>3, <3>1 DEF Ring, HalfRing
  <2>5. /\ prev'[next[c]] = prev'[c]
        /\ [prev' EXCEPT ![next[c]] = c] = prev
    BY <1>1, <1>2, <2>4, Zenon
  <2> QED  BY <1>1, <1>3, <2>1, <2>2, <2>3, <2>5 DEF ListShape
<1>5. LeadsOn'
  <2>1. /\ raced' # "remove" => raced # "remove"
        /\ raced' = "insert" => ~ Removal'
    BY <1>1, RecordedFacts DEF SyncTypes, TypeOK
  <2> QED  BY <1>1, <1>3, <2>1 DEF LeadsOn
<1> QED  BY <1>4, <1>5

\* CIRCLEQ_REMOVE, the second: it leads past the entry, and is a ring without it.
LEMMA RemoveNextShape ==
    ASSUME SyncTypes, ListShape, LeadsOn, NEW c \in Clients, RemoveNext(c)
    PROVE  ListShape' /\ LeadsOn'
<1>1. /\ pc[c] = "remove2" /\ pc' = [pc EXCEPT ![c] = "free"] /\ Recorded
      /\ next' = [next EXCEPT ![prev[c]] = next[c]] /\ prev' = prev
      /\ walk' = walk /\ cur' = cur
  BY DEF RemoveNext, Goto
<1>2. /\ pc \in [Clients -> Locs] /\ next \in [Entries -> Entries] /\ prev \in [Entries -> Entries]
      /\ c \in Entries /\ HEAD \in Entries /\ c # HEAD /\ HEAD \notin Clients
  BY SyncAssumption DEF SyncTypes, TypeOK, Entries
<1>3. /\ Linked' = Linked \ {c} /\ c \in Linked /\ HEAD \notin Linked
      /\ Linked \subseteq Entries
  BY <1>1, <1>2 DEF Linked, Entries
<1>4. /\ raced' = "insert" => ~ Removal'
      /\ raced' # "remove" => raced' = "no"
  <2>1. pc'[c] \in Removing
    BY <1>1, <1>2 DEF Removing
  <2>2. Removal'
    BY <2>1 DEF Removal
  <2> QED  BY <1>1, <2>2, RecordedFacts DEF SyncTypes, TypeOK
<1> SUFFICES ASSUME raced' = "no" PROVE ListShape' /\ LeadsOn'
  BY <1>4, Zenon DEF ListShape, LeadsOn
<1>5. /\ raced = "no" /\ ~ Crowded' /\ walk = "idle"
      /\ \A d \in Clients \ {c} : pc[d] \notin Linking /\ pc'[d] = pc[d]
  BY <1>1, LinkAlone, Zenon DEF Linking, Removing
<1>6. \A d \in Clients : pc'[d] \notin {"insert2", "insert3", "remove2"}
  BY <1>1, <1>2, <1>5 DEF Linking, Inserting, Removing
<1>7. prev[next[c]] = prev[c] /\ Ring(Linked, next, [prev EXCEPT ![next[c]] = c])
  BY <1>1, <1>5, Zenon DEF ListShape
<1> DEFINE b == [prev EXCEPT ![next[c]] = c]
<1>8. next[c] # c
  <2>1. (\A x \in {c} : next[x] \in {c}) => {c} = {}
    BY <1>3, <1>7, {c} \in SUBSET Linked, Zenon DEF Ring, HalfRing
  <2> QED  BY <2>1
<1>9. /\ b[c] = prev[c]
      /\ \A e \in (Linked \cup {HEAD}) \ {c} : e # next[c] => prev[e] = b[e]
      /\ next'[b[c]] = next[c]
      /\ \A e \in (Linked \cup {HEAD}) \ {c} : e # b[c] => next'[e] = next[e]
  BY <1>1, <1>2, <1>3, <1>8
<1> HIDE DEF b
<1>10. Ring(Linked, next, b)
  BY <1>7 DEF b
<1>11. Ring(Linked \ {c}, next', prev)
  BY <1>3, <1>7, <1>9, <1>10, RemoveRing
<1>12. ListShape'
  BY <1>1, <1>3, <1>5, <1>6, <1>11 DEF ListShape
<1>13. Pointing' = Linked' \cup {HEAD}
  BY <1>6 DEF Pointing
<1> QED  BY <1>1, <1>3, <1>4, <1>5, <1>11, <1>12, <1>13 DEF LeadsOn, Ring, HalfRing

\* While the mutex is not held for a walk, nobody is left to be woken.
LEMMA FreeWake ==
    ASSUME SyncTypes, ToWake, Recorded, MutexFree,
           \A c \in Clients : pc'[c] = "waiting" /\ c \notin signalled' =>
              (pc[c] = "waiting" /\ c \notin signalled /\ read'[c] = read[c] /\ id' = id)
              \/ read'[c] = id'
    PROVE  ToWake'
<1>1. raced' = "no" => raced = "no"
  BY RecordedFacts DEF SyncTypes, TypeOK
<1> QED  BY <1>1 DEF ToWake

\* When a change is published all of client_list is ahead of the walk.
LEMMA PublishWake ==
    ASSUME SyncTypes, ListShape, object_broker_publish
    PROVE  ToWake'
<1>1. /\ walk' = "next" /\ cur' = HEAD /\ next' = next /\ prev' = prev /\ pc' = pc /\ Recorded
  BY DEF object_broker_publish, list
<1> SUFFICES ASSUME raced' = "no",
                    NEW c \in Clients, pc[c] = "waiting",
                    NEW S \in SUBSET Entries, next[HEAD] \in S,
                    \A e \in S \ {HEAD} : next[e] \in S
             PROVE  c \in S
  BY <1>1 DEF ToWake, Ahead, MutexFree
<1>2. raced = "no" /\ ~ Crowded'
  BY <1>1, RecordedFacts DEF SyncTypes, TypeOK
<1>4. \A d \in Clients : pc[d] \notin Linking
  <2>1. \A d \in Clients : d \in Users' <=> pc[d] \in Linking
    BY <1>1, SyncAssumption DEF Users
  <2>2. HEAD \in Users' /\ HEAD \notin Clients
    BY <1>1, SyncAssumption DEF Users
  <2> QED  BY <1>2, <2>1, <2>2 DEF Crowded
<1>5. Ring(Linked, next, prev)
  BY <1>2, <1>4 DEF ListShape, Linking, Inserting, Removing
<1>6. c \in Linked /\ HEAD \notin Linked
  BY SyncAssumption DEF Linked
<1> QED  BY <1>5, <1>6, RingReaches

\* The walk does not end while it has somebody to wake.
LEMMA WalkOnWake ==
    ASSUME SyncTypes, ToWake, WalkOn
    PROVE  ToWake'
<1>1. /\ walk = "next" /\ cur' = next[cur] /\ next' = next /\ pc' = pc /\ Recorded
      /\ read' = read /\ id' = id /\ signalled' = signalled
      /\ walk' = IF next[cur] = HEAD THEN "idle" ELSE "touch"
  BY DEF WalkOn, list
<1>2. raced' = "no" => raced = "no"
  BY <1>1, RecordedFacts DEF SyncTypes, TypeOK
<1>3. next[cur] \in Entries /\ HEAD \in Entries /\ HEAD \notin Clients
  BY SyncAssumption DEF SyncTypes, TypeOK, Entries
<1>4. ASSUME raced = "no", NEW c \in Clients, pc[c] = "waiting", read[c] # id, c \notin signalled
      PROVE  walk' = "touch" /\ Ahead(c)'
  <2>1. Ahead(c)
    BY <1>4 DEF ToWake
  <2>2. next[cur] # HEAD
    <3>1. {HEAD} \in SUBSET Entries
      BY <1>3
    <3>2. (next[cur] \in {HEAD} /\ \A e \in {HEAD} \ {HEAD} : next[e] \in {HEAD}) => c \in {HEAD}
      BY <1>1, <2>1, <3>1, Zenon DEF Ahead
    <3> QED  BY <1>3, <3>2
  <2> QED  BY <1>1, <2>1, <2>2 DEF Ahead, Entries
<1> QED  BY <1>1, <1>2, <1>4 DEF ToWake, MutexFree

\* The client that the walk looks at is signalled; the others stay ahead.
LEMMA WakeWake ==
    ASSUME SyncTypes, ToWake, route_broker_wake_clients
    PROVE  ToWake'
<1>1. /\ walk = "touch" /\ walk' = "next" /\ cur' = cur /\ next' = next /\ pc' = pc /\ Recorded
      /\ read' = read /\ id' = id
      /\ signalled' = IF data_available_for_client(cur) /\ pc[cur] = "waiting"
                      THEN signalled \cup {cur} ELSE signalled
  BY DEF route_broker_wake_clients, list
<1>2. raced' = "no" => raced = "no"
  BY <1>1, RecordedFacts DEF SyncTypes, TypeOK
<1>3. ASSUME raced = "no", NEW c \in Clients, pc[c] = "waiting", read[c] # id, c \notin signalled'
      PROVE  Ahead(c)'
  <2>1. c # cur /\ c \notin signalled
    BY <1>1, <1>3 DEF data_available_for_client
  <2>2. Ahead(c)
    BY <1>3, <2>1 DEF ToWake
  <2> SUFFICES ASSUME NEW S \in SUBSET Entries, next[cur] \in S,
                      \A e \in S \ {HEAD} : next[e] \in S
               PROVE  c \in S
    BY <1>1 DEF Ahead, Entries
  <2>3. /\ S \cup {cur} \in SUBSET Entries
        /\ cur \in S \cup {cur}
        /\ \A e \in (S \cup {cur}) \ {HEAD} : next[e] \in S \cup {cur}
    BY DEF SyncTypes, TypeOK
  <2>4. c \in S \cup {cur}
    BY <1>1, <2>2, <2>3, Zenon DEF Ahead
  <2> QED  BY <2>1, <2>4
<1> QED  BY <1>1, <1>2, <1>3 DEF ToWake, MutexFree

\* No step of the publisher or of the show command leaves a client asleep.
LEMMA WalkWakes ==
    ASSUME SyncTypes, ListShape, ToWake, WalkStep
    PROVE  ToWake'
<1>1. CASE route_broker_show_internal \/ ShowOn \/ ShowErrors
  <2>1. /\ MutexFree /\ Recorded
        /\ pc' = pc /\ read' = read /\ id' = id /\ signalled' = signalled
    BY <1>1 DEF route_broker_show_internal, ShowOn, ShowErrors, MutexFree
  <2> QED  BY <2>1, FreeWake
<1> QED  BY <1>1, PublishWake, WalkOnWake, WakeWake DEF WalkStep, Wake

\* While the walk that wakes holds the mutex and no race is recorded, no
\* client takes a step.
LEMMA ClientWakes ==
    ASSUME SyncTypes, ListShape, ToWake, NEW c \in Clients, ClientStep(c)
    PROVE  ToWake'
<1>1. CASE pc[c] \in Linking /\ (Link(c) \/ Unlink(c))
  <2>1. /\ Recorded
        /\ read' = read /\ id' = id /\ signalled' = signalled
        /\ \E loc \in Locs \ {"waiting"} : pc' = [pc EXCEPT ![c] = loc]
    BY <1>1 DEF Link, Unlink, InsertLink, InsertBack, InsertFirst, RemoveBack, RemoveNext, Free,
                Goto, Locs, Live, Linking, Inserting, Removing
  <2> SUFFICES ASSUME raced' = "no" PROVE ToWake'
    BY DEF ToWake
  <2>2. MutexFree
    BY <1>1, <2>1, LinkAlone, Zenon DEF MutexFree
  <2>3. pc \in [Clients -> Locs]
    BY DEF SyncTypes, TypeOK
  <2>4. \A d \in Clients : pc'[d] = "waiting" => pc[d] = "waiting"
    BY <2>1, <2>3
  <2> QED  BY <2>1, <2>2, <2>4, FreeWake
<1>2. CASE route_broker_client_create(c) \/ Timeout(c) \/ route_broker_client_delete(c)
  <2>1. /\ MutexFree /\ Recorded
        /\ id' = id /\ signalled' = signalled
        /\ \E loc \in Locs \ {"waiting"} : pc' = [pc EXCEPT ![c] = loc]
        /\ \A d \in Clients \ {c} : read'[d] = read[d]
    BY <1>2 DEF route_broker_client_create, Timeout, route_broker_client_delete, Goto,
                Locs, Live, Linking, Inserting, Removing, SyncTypes, TypeOK
  <2>2. pc \in [Clients -> Locs]
    BY DEF SyncTypes, TypeOK
  <2>3. \A d \in Clients : pc'[d] = "waiting" => pc[d] = "waiting" /\ d # c
    BY <2>1, <2>2
  <2> QED  BY <2>1, <2>3, FreeWake
<1>3. CASE route_broker_client_get_data(c)
  <2>1. MutexFree /\ Recorded /\ id' = id
    BY <1>3 DEF route_broker_client_get_data
  <2>2. pc \in [Clients -> Locs] /\ read \in [Clients -> 0 .. MaxId]
    BY DEF SyncTypes, TypeOK
  <2>3. /\ \A d \in Clients \ {c} : /\ pc'[d] = pc[d] /\ read'[d] = read[d]
                                    /\ d \in signalled' <=> d \in signalled
        /\ pc'[c] = "waiting" => read'[c] = id
    BY <1>3, <2>2 DEF route_broker_client_get_data, data_available_for_client, Goto
  <2> QED  BY <2>1, <2>3, FreeWake
<1>4. Link(c) \/ Unlink(c) => pc[c] \in Linking
  BY DEF Link, Unlink, InsertLink, InsertBack, InsertFirst, RemoveBack, RemoveNext, Free,
         Linking, Inserting, Removing
<1> QED  BY <1>1, <1>2, <1>3, <1>4 DEF ClientStep

\* Every step keeps the invariant.
LEMMA SyncNext ==
    ASSUME SyncSafe, [Next]_vars
    PROVE  SyncSafe'
<1>1. CASE WalkStep
  BY <1>1, WalkTypes, WalkShape, WalkWakes DEF SyncSafe
<1>2. ASSUME NEW c \in Clients, ClientStep(c)
      PROVE  SyncSafe'
  <2>1. SyncTypes' /\ ToWake'
    BY <1>2, ClientTypes, ClientWakes DEF SyncSafe
  <2>2. ListShape' /\ LeadsOn'
    BY <1>2, StillClient, InsertLinkShape, InsertBackShape, InsertFirstShape, RemoveBackShape,
       RemoveNextShape DEF SyncSafe, ClientStep, Link, Unlink
  <2> QED  BY <2>1, <2>2 DEF SyncSafe
<1>3. CASE UNCHANGED vars
  BY <1>3, Zenon DEF vars, SyncSafe, SyncTypes, TypeOK, Reading, ListShape, LeadsOn, ToWake, Ahead,
              MutexFree, Linked, Pointing, Crowded, Users, Removal
<1>4. Next => WalkStep \/ \E c \in Clients : ClientStep(c)
  BY DEF Next, WalkStep, ClientStep
<1> QED  BY <1>1, <1>2, <1>3, <1>4

\* For every set of clients: TypeOK; CIRCLEQ_INSERT_HEAD and CIRCLEQ_REMOVE,
\* made by one thread at a time, leave one ring (ListIsRing); no walk looks at a
\* deleted client unless a deletion raced (WalksTouchLive); and a client with
\* something to read is not left asleep unless client_list was changed while
\* another thread used it (NoLostWakeup).
THEOREM RouteBrokerSyncSafe == Spec => [](TypeOK /\ ListIsRing /\ WalksTouchLive /\ NoLostWakeup)
<1>1. SyncSafe => TypeOK /\ ListIsRing /\ WalksTouchLive /\ NoLostWakeup
  <2> SUFFICES ASSUME SyncSafe
               PROVE  TypeOK /\ ListIsRing /\ WalksTouchLive /\ NoLostWakeup
    OBVIOUS
  <2>1. pc \in [Clients -> Locs] /\ raced \in {"no", "insert", "remove"}
    BY DEF SyncSafe, SyncTypes, TypeOK
  <2>2. ListIsRing
    <3> SUFFICES ASSUME raced = "no", Users = {}
                 PROVE  Ring({c \in Clients : pc[c] # "new"}, next, prev)
      BY DEF ListIsRing
    <3>1. \A c \in Clients : pc[c] \notin Linking
      BY DEF Users
    <3>2. {c \in Clients : pc[c] # "new"} = Linked
      BY <2>1, <3>1 DEF Linked, Locs, Live, Linking, Inserting
    <3> QED  BY <3>1, <3>2 DEF SyncSafe, ListShape, Linking, Inserting, Removing
  <2>3. WalksTouchLive
    <3> SUFFICES ASSUME walk \in {"touch", "showTouch"}, raced # "remove"
                 PROVE  pc[cur] \in Live
      BY DEF WalksTouchLive
    <3>1. cur \in Linked
      BY SyncAssumption DEF SyncSafe, SyncTypes, Reading, LeadsOn
    <3>2. pc[cur] \notin Removing
      <4>1. CASE raced = "no"
        BY <3>1, <4>1, Alone, Zenon DEF SyncSafe, ListShape, Linking, Linked
      <4>2. CASE raced = "insert"
        BY <3>1, <4>2 DEF SyncSafe, LeadsOn, Removal, Linked
      <4> QED  BY <2>1, <4>1, <4>2
    <3> QED  BY <3>1, <3>2 DEF Linked, Live, Removing
  <2>4. NoLostWakeup
    BY DEF SyncSafe, ToWake, NoLostWakeup, data_available_for_client
  <2> QED  BY <2>2, <2>3, <2>4 DEF SyncSafe, SyncTypes
<1> QED  BY <1>1, SyncInit, SyncNext, PTL DEF Spec
==============================================================================

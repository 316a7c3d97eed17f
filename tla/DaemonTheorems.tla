--------------------------- MODULE DaemonTheorems ----------------------------
(***************************************************************************)
(* brokerd follows its sources, for any routes of the kernel and of zebra, *)
(* any room in the two sockets, and any number of changes, lost            *)
(* notifications and restarts.                                             *)
(*                                                                         *)
(* First, what one message does to the tables.  Then the queues: as long   *)
(* as no notification is lost, the last message about a topic in a socket  *)
(* says what its source has now (Queues).  Then the topics: where the      *)
(* tables differ from the sources, a message about it is under way, or the *)
(* dump has still to come to it or was cut short of it (TopicOk).  When    *)
(* brokerd has caught up nothing is under way, and the tables are right    *)
(* but for what such a dump missed.                                        *)
(***************************************************************************)
EXTENDS Daemon, TLAPS

\* m is a message about r, from either source, with REPLACE or without.
About(m, r) ==
    /\ r \in Routes
    /\ {"cmd", "pid", "replace", "rtm"} \subseteq DOMAIN m
    /\ m.cmd \in {"NEW", "DEL"}
    /\ \/ m.rtm = r
       \/ /\ m.cmd = "DEL" /\ m.pid # 0 /\ r \in ZebraRoutes
          /\ m.rtm = [r EXCEPT !.type = "UNSPEC"]

\* What process_rtnl publishes: the route, with a type that a dataplane does
\* not discard.
LEMMA RewrittenFields ==
    ASSUME NEW m, NEW r, About(m, r)
    PROVE  /\ Rewritten(m).cmd = m.cmd
           /\ Rewritten(m).replace = m.replace
           /\ Rewritten(m).rtm.type # "UNSPEC"
           /\ Rewritten(m).rtm.scope = Scope(r)
           /\ Rewritten(m).rtm.table = Table(r)
           /\ Rewritten(m).rtm.type \in {r.type, "UNICAST"}
           /\ m.rtm = r \/ r \notin ZebraRoutes => Rewritten(m).rtm.type = r.type
           /\ Rewritten(m).rtm.via = r.via
           /\ Rewritten(m).rtm.af = r.af /\ Rewritten(m).rtm.cloned = r.cloned
           /\ Rewritten(m).rtm.dst = r.dst /\ Rewritten(m).rtm.src = r.src
           /\ Rewritten(m).rtm.iif = r.iif /\ Rewritten(m).rtm.oif = r.oif
           /\ Rewritten(m).rtm.rta_table = r.rta_table
           /\ Priority(m.rtm) = Priority(r)
<1>1. DOMAIN r = Fields /\ r.type # "UNSPEC"
  BY DaemonAssumption DEF About, Routes
<1> DEFINE R == [m.rtm EXCEPT !.scope = Scope(m.rtm), !.type = Type(m), !.table = Table(m.rtm)]
<1>2. Rewritten(m) = [m EXCEPT !.rtm = R]
  BY DEF Rewritten
<1>3. Rewritten(m).cmd = m.cmd /\ Rewritten(m).replace = m.replace /\ Rewritten(m).rtm = R
  BY <1>2 DEF About
<1>4. DOMAIN m.rtm = Fields
  BY <1>1 DEF About
<1>5. /\ R.scope = Scope(m.rtm) /\ R.type = Type(m) /\ R.table = Table(m.rtm)
      /\ R.via = m.rtm.via /\ R.af = m.rtm.af /\ R.cloned = m.rtm.cloned
      /\ R.dst = m.rtm.dst /\ R.src = m.rtm.src /\ R.iif = m.rtm.iif /\ R.oif = m.rtm.oif
      /\ R.rta_table = m.rtm.rta_table
  BY <1>4 DEF Fields
<1> HIDE DEF R
<1>6. CASE m.rtm = r
  BY <1>1, <1>3, <1>5, <1>6 DEF Type
<1>7. CASE m.cmd = "DEL" /\ m.pid # 0 /\ r \in ZebraRoutes /\ m.rtm = [r EXCEPT !.type = "UNSPEC"]
  <2>1. /\ m.rtm.type = "UNSPEC" /\ m.rtm.scope = r.scope /\ m.rtm.table = r.table
        /\ m.rtm.proto = r.proto /\ m.rtm.via = r.via /\ m.rtm.af = r.af
        /\ m.rtm.cloned = r.cloned /\ m.rtm.dst = r.dst /\ m.rtm.src = r.src
        /\ m.rtm.iif = r.iif /\ m.rtm.oif = r.oif /\ m.rtm.rta_table = r.rta_table
    BY <1>1, <1>7 DEF Fields
  <2>2. Type(m) = "UNICAST"
    BY <1>7, <2>1 DEF Type
  <2>3. Scope(m.rtm) = Scope(r) /\ Table(m.rtm) = Table(r) /\ Priority(m.rtm) = Priority(r)
    BY <2>1 DEF Scope, Table, Priority
  <2> QED  BY <1>1, <1>3, <1>5, <1>7, <2>1, <2>2, <2>3, Zenon
<1> QED  BY <1>6, <1>7 DEF About

\* A topic depends on the type of the route only as far as it is one of two.
LEMMA TopicByFields ==
    ASSUME NEW a, NEW b,
           a.scope = b.scope, a.table = b.table, a.af = b.af, a.cloned = b.cloned,
           a.dst = b.dst, a.src = b.src, a.iif = b.iif, a.oif = b.oif,
           a.rta_table = b.rta_table,
           a.type = b.type \/ {a.type, b.type} \cap {"MULTICAST", "BROADCAST"} = {}
    PROVE  route_topic(a) = route_topic(b)
BY Zenon DEF route_topic, mplsroute_topic, mroute_topic

\* Every message about a route has the topic of the route.
LEMMA TopicOfMsg ==
    ASSUME NEW m, NEW r, About(m, r)
    PROVE  TopicOf(m) = TopicOfRoute[r] /\ route_topic(Rewritten(m).rtm) = TopicOfRoute[r]
<1> DEFINE k == KernelMsg("NEW", r)
           a == Rewritten(m).rtm
           b == Rewritten(k).rtm
<1>1. About(k, r)
  BY DEF About, KernelMsg
<1>2. TopicOfRoute[r] = route_topic(b)
  BY DEF TopicOfRoute, TopicOf, About
<1>3. b.type = r.type
  <2>1. k.rtm = r
    BY DEF KernelMsg
  <2> QED  BY <1>1, <2>1, RewrittenFields
<1>4. /\ a.scope = b.scope /\ a.table = b.table /\ a.af = b.af /\ a.cloned = b.cloned
      /\ a.dst = b.dst /\ a.src = b.src /\ a.iif = b.iif /\ a.oif = b.oif
      /\ a.rta_table = b.rta_table
      /\ a.type \in {r.type, "UNICAST"}
      /\ r \notin ZebraRoutes => a.type = r.type
  BY <1>1, RewrittenFields
<1>5. a.type = b.type \/ {a.type, b.type} \cap {"MULTICAST", "BROADCAST"} = {}
  BY <1>3, <1>4, DaemonAssumption
<1> HIDE DEF a, b
<1>6. route_topic(a) = route_topic(b)
  BY <1>4, <1>5, TopicByFields
<1> QED  BY <1>2, <1>6 DEF TopicOf, a

\* The messages of both sources are about the route they name.
LEMMA MsgsAbout ==
    /\ \A cmd \in {"NEW", "DEL"}, r \in KernelRoutes : About(KernelMsg(cmd, r), r)
    /\ \A cmd \in {"NEW", "DEL"}, r \in ZebraRoutes : About(ZebraMsg(cmd, r), r)
BY DEF About, KernelMsg, ZebraMsg, Routes

\* The broker and the dataplane after a message about r.
Told(r, cmd, replace) ==
    \A t \in Topics :
        /\ t # TopicOfRoute[r] => rib'[t] = rib[t] /\ fib'[t] = fib[t]
        /\ t = TopicOfRoute[r] /\ cmd = "DEL" => rib'[t] = NULL /\ fib'[t] = NULL
        /\ t = TopicOfRoute[r] /\ cmd = "NEW" =>
              /\ rib'[t] \in {rib[t], Priority(r)} \ {NULL}
              /\ fib'[t] \in {fib[t], r.via} \ {NULL}
              /\ replace => fib'[t] = r.via

\* The types of the two tables.
TableTypes ==
    /\ rib \in [Topics -> {NULL, ROUTE_CONNECTED, ROUTE_OTHER}]
    /\ fib \in [Topics -> {NULL} \cup {r.via : r \in Routes}]

\* What process_rtnl does to the tables of the broker and of a dataplane.
LEMMA ProcessTells ==
    ASSUME TableTypes, NEW m, NEW r, About(m, r), process_rtnl(m)
    PROVE  TableTypes' /\ Told(r, m.cmd, m.replace)
<1> DEFINE w == Rewritten(m)
           t == TopicOfRoute[r]
<1>1. /\ w.cmd = m.cmd /\ w.replace = m.replace /\ w.rtm.via = r.via
      /\ w.rtm.type # "UNSPEC"
      /\ route_topic(w.rtm) = t /\ Priority(m.rtm) = Priority(r)
  BY RewrittenFields, TopicOfMsg
<1>2. r \in Routes /\ r.via # NULL /\ m.cmd \in {"NEW", "DEL"}
  BY DaemonAssumption DEF About, Routes
<1>3. Priority(r) \in {ROUTE_CONNECTED, ROUTE_OTHER} /\ Priority(r) # NULL
  BY DaemonAssumption DEF Priority
<1>4. /\ rib' = object_broker_publish(w, Priority(r), rib)
      /\ fib' = Forward(w, fib)
  BY <1>1 DEF process_rtnl
<1> HIDE DEF w, t
<1>5. CASE t \notin Topics
  <2>1. rib' = rib /\ fib' = fib
    BY <1>1, <1>4, <1>5 DEF object_broker_publish, Forward
  <2> QED  BY <1>5, <2>1 DEF TableTypes, Told, t
<1>6. CASE t \in Topics
  <2>1. rib' = [rib EXCEPT ![t] = CASE m.cmd = "DEL" -> NULL
                                    [] m.cmd = "NEW" /\ rib[t] # NULL /\ rib[t] < Priority(r) -> rib[t]
                                    [] OTHER -> Priority(r)]
    BY <1>1, <1>4, <1>6 DEF object_broker_publish
  <2>2. fib' = [fib EXCEPT ![t] = CASE m.cmd = "DEL" -> NULL
                                    [] m.cmd = "NEW" /\ fib[t] # NULL /\ ~ m.replace -> fib[t]
                                    [] OTHER -> r.via]
    BY <1>1, <1>4, <1>6 DEF Forward
  <2>3. PICK l : /\ rib' = [rib EXCEPT ![t] = l]
                 /\ m.cmd = "DEL" => l = NULL
                 /\ m.cmd = "NEW" => l \in {rib[t], Priority(r)} \ {NULL}
    <3>1. CASE m.cmd = "DEL"
      BY <2>1, <3>1, Zenon
    <3>2. CASE m.cmd = "NEW" /\ rib[t] # NULL /\ rib[t] < Priority(r)
      BY <2>1, <3>2, Zenon
    <3>3. CASE m.cmd = "NEW" /\ ~ (rib[t] # NULL /\ rib[t] < Priority(r))
      <4>1. rib' = [rib EXCEPT ![t] = Priority(r)]
        BY <2>1, <3>3, Zenon
      <4> QED  BY <1>3, <3>3, <4>1, Zenon
    <3> QED  BY <1>2, <3>1, <3>2, <3>3
  <2>4. PICK v : /\ fib' = [fib EXCEPT ![t] = v]
                 /\ m.cmd = "DEL" => v = NULL
                 /\ m.cmd = "NEW" => v \in {fib[t], r.via} \ {NULL}
                 /\ m.cmd = "NEW" /\ m.replace => v = r.via
    BY <1>2, <2>2, Zenon
  <2>5. /\ rib \in [Topics -> {NULL, ROUTE_CONNECTED, ROUTE_OTHER}]
        /\ fib \in [Topics -> {NULL} \cup {x.via : x \in Routes}]
    BY DEF TableTypes
  <2>6. TableTypes'
    BY <1>2, <1>3, <1>6, <2>3, <2>4, <2>5 DEF TableTypes
  <2>7. Told(r, m.cmd, m.replace)
    BY <1>6, <2>3, <2>4, <2>5 DEF Told, t
  <2> QED  BY <2>6, <2>7
<1> QED  BY <1>5, <1>6

\* What process_nlmsg does: a dataplane forwards as the message says.
LEMMA ProcessReplaces ==
    ASSUME TableTypes, NEW m, NEW r, About(m, r), process_nlmsg(m)
    PROVE  TableTypes' /\ Told(r, m.cmd, TRUE)
<1> DEFINE n == [m EXCEPT !.replace = m.cmd = "NEW"]
<1>1. n.cmd = m.cmd /\ n.pid = m.pid /\ n.rtm = m.rtm /\ DOMAIN n = DOMAIN m
  BY DEF About
<1>2. n.replace = (m.cmd = "NEW")
  BY DEF About
<1>3. About(n, r)
  BY <1>1 DEF About
<1>4. process_rtnl(n)
  BY DEF process_nlmsg
<1> HIDE DEF n
<1>5. TableTypes' /\ Told(r, n.cmd, n.replace)
  BY <1>3, <1>4, ProcessTells
<1> QED  BY <1>1, <1>2, <1>5, Zenon DEF Told

-----------------------------------------------------------------------------
\* A message about t is in the queue.
Pending(q, t) == \E i \in DOMAIN q : TopicOf(q[i]) = t

\* The last message of the queue about each topic is one of ok.
Current(q, ok) ==
    \A i \in DOMAIN q :
        (\A j \in DOMAIN q : TopicOf(q[j]) = TopicOf(q[i]) => j <= i) => q[i] \in ok

\* A message that is queued is pending, and the others stay so.
LEMMA AppendQueue ==
    ASSUME NEW S, NEW q \in Seq(S), NEW m \in S
    PROVE  \A t : Pending(Append(q, m), t) <=> Pending(q, t) \/ TopicOf(m) = t
<1> DEFINE a == Append(q, m)
<1>1. /\ Len(q) \in Nat /\ DOMAIN q = 1 .. Len(q) /\ DOMAIN a = 1 .. (Len(q) + 1)
      /\ \A i \in DOMAIN q : a[i] = q[i]
      /\ a[Len(q) + 1] = m
  OBVIOUS
<1> HIDE DEF a
<1>2. DOMAIN a = DOMAIN q \cup {Len(q) + 1}
  BY <1>1
<1> QED  BY <1>1, <1>2 DEF Pending, a

\* A queue stays current when the change of its source is appended.
LEMMA CurrentAppend ==
    ASSUME NEW S, NEW q \in Seq(S), NEW m \in S, NEW ok, NEW ok2,
           Current(q, ok), m \in ok2,
           \A x \in S : x \in ok => TopicOf(x) = TopicOf(m) \/ x \in ok2
    PROVE  Current(Append(q, m), ok2)
<1> DEFINE a == Append(q, m)
<1>1. /\ Len(q) \in Nat /\ DOMAIN q = 1 .. Len(q) /\ DOMAIN a = 1 .. (Len(q) + 1)
      /\ \A i \in DOMAIN q : a[i] = q[i] /\ q[i] \in S
      /\ a[Len(q) + 1] = m
  OBVIOUS
<1> HIDE DEF a
<1>2. SUFFICES ASSUME NEW i \in DOMAIN a,
                      \A j \in DOMAIN a : TopicOf(a[j]) = TopicOf(a[i]) => j <= i
               PROVE  a[i] \in ok2
  BY DEF Current, a
<1>3. CASE i = Len(q) + 1
  BY <1>1, <1>3
<1>4. CASE i # Len(q) + 1
  <2>1. i \in DOMAIN q /\ a[i] = q[i] /\ ~ (Len(q) + 1 <= i)
    BY <1>1, <1>4
  <2>2. TopicOf(m) # TopicOf(q[i])
    BY <1>1, <1>2, <2>1
  <2>3. \A j \in DOMAIN q : TopicOf(q[j]) = TopicOf(q[i]) => j <= i
    BY <1>1, <1>2, <2>1
  <2>4. q[i] \in ok /\ q[i] \in S
    BY <1>1, <2>1, <2>3 DEF Current
  <2> QED  BY <2>1, <2>2, <2>4
<1> QED  BY <1>3, <1>4

\* A queue stays current when nothing in it becomes outdated.
LEMMA CurrentSame ==
    ASSUME NEW S, NEW q \in Seq(S), NEW ok, NEW ok2,
           Current(q, ok), \A x \in S : x \in ok => x \in ok2
    PROVE  Current(q, ok2)
<1>1. \A i \in DOMAIN q : q[i] \in S
  OBVIOUS
<1> QED  BY <1>1 DEF Current

\* Taking the first message leaves the queue current; that message was itself
\* up to date unless another one about its topic is behind it.
LEMMA TailQueue ==
    ASSUME NEW S, NEW q \in Seq(S), q # <<>>
    PROVE  /\ Head(q) \in S /\ Tail(q) \in Seq(S) /\ Len(Tail(q)) <= Len(q)
           /\ \A t : Pending(q, t) <=> Pending(Tail(q), t) \/ TopicOf(Head(q)) = t
           /\ \A ok : Current(q, ok) =>
                /\ Current(Tail(q), ok)
                /\ Pending(Tail(q), TopicOf(Head(q))) \/ Head(q) \in ok
<1> DEFINE b == Tail(q)
<1>1. /\ Head(q) = q[1] /\ q[1] \in S /\ b \in Seq(S) /\ Len(b) = Len(q) - 1
      /\ Len(q) \in Nat /\ Len(q) > 0
      /\ DOMAIN q = 1 .. Len(q) /\ DOMAIN b = 1 .. (Len(q) - 1)
      /\ \A i \in 1 .. (Len(q) - 1) : b[i] = q[i + 1]
  OBVIOUS
<1> HIDE DEF b
<1>2. \A i \in DOMAIN q : i = 1 \/ (i - 1 \in DOMAIN b /\ b[i - 1] = q[i])
  BY <1>1
<1>3. \A i \in DOMAIN b : i + 1 \in DOMAIN q /\ i + 1 # 1 /\ b[i] = q[i + 1]
  BY <1>1
<1>4. 1 \in DOMAIN q
  BY <1>1
<1>5. \A t : Pending(q, t) <=> Pending(b, t) \/ TopicOf(Head(q)) = t
  BY <1>1, <1>2, <1>3, <1>4, Zenon DEF Pending
<1>6. ASSUME NEW ok, Current(q, ok)
      PROVE  Current(b, ok)
  <2>1. SUFFICES ASSUME NEW i \in DOMAIN b,
                        \A j \in DOMAIN b : TopicOf(b[j]) = TopicOf(b[i]) => j <= i
                 PROVE  b[i] \in ok
    BY DEF Current
  <2>2. ASSUME NEW j \in DOMAIN q, TopicOf(q[j]) = TopicOf(q[i + 1])
        PROVE  j <= i + 1
    <3>1. CASE j = 1
      BY <1>1, <3>1
    <3>2. CASE j # 1
      <4>1. j - 1 \in DOMAIN b /\ b[j - 1] = q[j] /\ b[i] = q[i + 1]
        BY <1>2, <1>3, <3>2
      <4>2. j - 1 <= i
        BY <2>1, <2>2, <4>1
      <4> QED  BY <1>1, <4>2
    <3> QED  BY <3>1, <3>2
  <2> QED  BY <1>3, <1>6, <2>2 DEF Current
<1>7. ASSUME NEW ok, Current(q, ok), ~ Pending(b, TopicOf(q[1]))
      PROVE  q[1] \in ok
  <2>1. \A j \in DOMAIN q : TopicOf(q[j]) = TopicOf(q[1]) => j = 1
    BY <1>2, <1>7 DEF Pending
  <2>2. \A j \in DOMAIN q : TopicOf(q[j]) = TopicOf(q[1]) => j <= 1
    BY <2>1
  <2> QED  BY <1>4, <1>7, <2>2 DEF Current
<1> QED  BY <1>1, <1>5, <1>6, <1>7 DEF b

\* What the messages say.
LEMMA MsgFields ==
    /\ \A cmd, r : KernelMsg(cmd, r).cmd = cmd /\ KernelMsg(cmd, r).rtm = r
    /\ \A cmd, r : ZebraMsg(cmd, r).cmd = cmd
    /\ \A r : ZebraMsg("NEW", r).rtm = r
    /\ \A cmd \in {"NEW", "DEL"}, r \in KernelRoutes : TopicOf(KernelMsg(cmd, r)) = TopicOfRoute[r]
    /\ \A cmd \in {"NEW", "DEL"}, r \in ZebraRoutes : TopicOf(ZebraMsg(cmd, r)) = TopicOfRoute[r]
<1>1. /\ \A cmd, r : KernelMsg(cmd, r).cmd = cmd /\ KernelMsg(cmd, r).rtm = r
      /\ \A cmd, r : ZebraMsg(cmd, r).cmd = cmd
      /\ \A r : ZebraMsg("NEW", r).rtm = r
  BY DEF KernelMsg, ZebraMsg
<1>2. /\ \A cmd \in {"NEW", "DEL"}, r \in KernelRoutes : TopicOf(KernelMsg(cmd, r)) = TopicOfRoute[r]
      /\ \A cmd \in {"NEW", "DEL"}, r \in ZebraRoutes : TopicOf(ZebraMsg(cmd, r)) = TopicOfRoute[r]
  BY MsgsAbout, TopicOfMsg
<1> QED  BY <1>1, <1>2

\* zebra's table is sent whole.
LEMMA TableIsSent ==
    ASSUME TypeOK, broker_fpm_socket
    PROVE  \E n \in Nat : \E routes \in [1 .. n -> zebra] :
              /\ \A r \in zebra : \E i \in 1 .. n : routes[i] = r
              /\ fpm' = [i \in 1 .. n |-> ZebraMsg("NEW", routes[i])]
<1>1. zebra \in SUBSET ZebraRoutes
  BY DEF TypeOK, ZebraTables
<1>2. Cardinality(zebra) \in Nat
  BY <1>1, DaemonAssumption
<1>3. PICK routes \in [1 .. Cardinality(zebra) -> zebra] :
         /\ \A r \in zebra : \E i \in DOMAIN routes : routes[i] = r
         /\ fpm' = [i \in DOMAIN routes |-> ZebraMsg("NEW", routes[i])]
  BY Zenon DEF broker_fpm_socket
<1>4. DOMAIN routes = 1 .. Cardinality(zebra)
  OBVIOUS
<1> QED  BY <1>2, <1>3, <1>4

\* poll reports a socket only when there is something to read.
Polled ==
    pc = "serve" => /\ ready # {}
                    /\ "nl" \in ready => nl # <<>>
                    /\ "fpm" \in ready => fpm # <<>>

\* brokerd starts with empty sockets and empty tables.
LEMMA DaemonInit ==
    ASSUME Init
    PROVE  TypeOK /\ Polled
<1>1. nl \in Seq(Msgs) /\ Len(nl) <= MaxNl /\ fpm \in Seq(Msgs)
  BY DaemonAssumption DEF Init
<1> QED  BY <1>1, Zenon DEF Init, TypeOK, Polled

\* Every message is about a route.
LEMMA MsgAbout ==
    ASSUME NEW m \in Msgs
    PROVE  \E r \in Routes : About(m, r)
BY MsgsAbout DEF Msgs, Routes

\* Every step keeps the types, and poll reports no socket in vain.
LEMMA DaemonTypes ==
    ASSUME TypeOK, Polled, [Next]_vars
    PROVE  TypeOK' /\ Polled'
<1> USE DaemonAssumption
<1>1. TableTypes
  BY DEF TypeOK, TableTypes
<1>2. ASSUME NEW m \in Msgs, process_rtnl(m)
      PROVE  TableTypes'
  BY <1>1, <1>2, MsgAbout, ProcessTells
<1>3. ASSUME NEW m \in Msgs, process_nlmsg(m)
      PROVE  TableTypes'
  BY <1>1, <1>3, MsgAbout, ProcessReplaces, Zenon
<1>4. nl # <<>> => Head(nl) \in Msgs /\ Tail(nl) \in Seq(Msgs) /\ Len(Tail(nl)) <= Len(nl)
  BY TailQueue DEF TypeOK
<1>5. fpm # <<>> => Head(fpm) \in Msgs /\ Tail(fpm) \in Seq(Msgs)
  BY TailQueue DEF TypeOK
<1>6. CASE broker_fpm_socket
  <2>1. PICK n \in Nat : \E routes \in [1 .. n -> zebra] :
           fpm' = [i \in 1 .. n |-> ZebraMsg("NEW", routes[i])]
    BY <1>6, TableIsSent, Zenon
  <2>2. PICK routes \in [1 .. n -> zebra] : fpm' = [i \in 1 .. n |-> ZebraMsg("NEW", routes[i])]
    BY <2>1
  <2>3. \A i \in 1 .. n : ZebraMsg("NEW", routes[i]) \in Msgs
    BY DEF Msgs, TypeOK, ZebraTables
  <2>4. fpm' \in Seq(Msgs)
    BY <2>2, <2>3
  <2> QED  BY <1>6, <2>4 DEF broker_fpm_socket, TypeOK, Polled, env, tables
<1>7. CASE Bind
  BY <1>7 DEF Bind, TypeOK, Polled, env, tables
<1>8. CASE AttachFilter
  BY <1>8 DEF AttachFilter, TypeOK, Polled, env, tables
<1>9. ASSUME NEW r \in todo, dump_route(r)
      PROVE  TypeOK' /\ Polled'
  <2>1. KernelMsg("NEW", r) \in Msgs
    BY <1>9 DEF Msgs, TypeOK
  <2>2. TableTypes'
    BY <1>1, <1>2, <1>9, <2>1 DEF dump_route, TableTypes, tables
  <2> QED  BY <1>9, <2>2 DEF dump_route, TypeOK, Polled, TableTypes, env
<1>10. CASE DumpDone
  BY <1>10 DEF DumpDone, TypeOK, Polled, env, tables
<1>11. CASE Poll
  BY <1>11, Zenon DEF Poll, TypeOK, Polled, env, tables
<1>12. CASE broker_process_nl
  <2>1. CASE overrun
    BY <1>12, <2>1, Zenon DEF broker_process_nl, TypeOK, Polled, env, tables
  <2>2. CASE ~ overrun
    <3>1. nl # <<>> /\ process_nlmsg(Head(nl)) /\ nl' = Tail(nl)
      BY <1>12, <2>2 DEF broker_process_nl, Polled
    <3>2. TableTypes'
      BY <1>3, <1>4, <3>1
    <3>3. Len(nl) \in Nat /\ Len(nl') \in Nat /\ nl' \in Seq(Msgs) /\ Len(nl') <= MaxNl
      BY <1>4, <3>1 DEF TypeOK
    <3>4. /\ UNCHANGED <<kernel, zebra, overrun, fpm, todo>>
          /\ missed' = missed \ {Head(nl).rtm}
          /\ pc = "serve" /\ "nl" \in ready /\ ready' = ready \ {"nl"}
          /\ pc' = IF ready = {"nl"} THEN "poll" ELSE pc
      BY <1>12, <2>2, Zenon DEF broker_process_nl, Served, env
    <3>5. TypeOK'
      BY <3>2, <3>3, <3>4 DEF TypeOK, TableTypes
    <3>6. pc' = "serve" => ready' # {}
      BY <3>4
    <3>7. Polled'
      BY <3>4, <3>6 DEF Polled
    <3> QED  BY <3>5, <3>7
  <2> QED  BY <2>1, <2>2
<1>13. CASE broker_process_fpm
  <2>1. "fpm" \in ready /\ fpm # <<>> /\ process_nlmsg(Head(fpm)) /\ fpm' = Tail(fpm)
    BY <1>13, Zenon DEF broker_process_fpm, Polled, TypeOK
  <2>2. TableTypes' /\ fpm' \in Seq(Msgs)
    BY <1>3, <1>5, <2>1
  <2> QED
    BY <1>13, <2>2 DEF broker_process_fpm, Served, TypeOK, Polled, TableTypes, env
<1>14. CASE Restart
  <2>1. nl' \in Seq(Msgs) /\ Len(nl') <= MaxNl /\ fpm' \in Seq(Msgs)
    BY <1>14 DEF Restart
  <2> QED  BY <1>14, <2>1, Zenon DEF Restart, TypeOK, Polled, env
<1>15. CASE DumpFailed
  BY <1>15 DEF DumpFailed, TypeOK, Polled, env, tables
<1>16. CASE FpmLost
  BY <1>16 DEF FpmLost, TypeOK, Polled, env, tables
<1>20. CASE DumpCutShort
  <2>1. todo' \subseteq KernelRoutes /\ missed' \subseteq Own(KernelRoutes)
    BY <1>20 DEF DumpCutShort, TypeOK, Own
  <2> QED  BY <1>20, <2>1 DEF DumpCutShort, TypeOK, Polled, env, tables
<1>17. ASSUME NEW r \in KernelRoutes, KernelChange(r)
       PROVE  TypeOK' /\ Polled'
  <2>1. \A cmd \in {"NEW", "DEL"} : KernelMsg(cmd, r) \in Msgs
    BY DEF Msgs
  <2>2. PICK m \in Msgs : nl' = IF Heard(r) /\ Len(nl) < MaxNl THEN Append(nl, m) ELSE nl
    BY <1>17, <2>1 DEF KernelChange
  <2>3. /\ nl' \in Seq(Msgs) /\ Len(nl') <= MaxNl
        /\ nl # <<>> => nl' # <<>>
    <3>1. nl \in Seq(Msgs) /\ Len(nl) \in Nat /\ Len(nl) <= MaxNl
      BY DEF TypeOK
    <3>2. CASE nl' = nl
      BY <3>1, <3>2
    <3>3. CASE Len(nl) < MaxNl /\ nl' = Append(nl, m)
      BY <3>1, <3>3
    <3> QED  BY <2>2, <3>2, <3>3
  <2>4. kernel' \subseteq KernelRoutes /\ overrun' \in BOOLEAN
    BY <1>17 DEF KernelChange, TypeOK
  <2> QED  BY <1>17, <2>3, <2>4 DEF KernelChange, TypeOK, Polled, tables
<1>18. ASSUME NEW r \in ZebraRoutes, ZebraChange(r)
       PROVE  TypeOK' /\ Polled'
  <2>1. \A cmd \in {"NEW", "DEL"} : ZebraMsg(cmd, r) \in Msgs
    BY DEF Msgs
  <2>2. PICK m \in Msgs : fpm' \in {fpm, Append(fpm, m)}
    BY <1>18, <2>1 DEF ZebraChange
  <2>3. fpm' \in Seq(Msgs) /\ (fpm # <<>> => fpm' # <<>>)
    BY <2>2 DEF TypeOK
  <2>4. zebra' \in ZebraTables
    <3>1. /\ zebra \subseteq ZebraRoutes
          /\ \A x, y \in zebra : TopicOfRoute[x] = TopicOfRoute[y] => x = y
      BY DEF TypeOK, ZebraTables
    <3>2. zebra' = zebra \ {r} \/ zebra' = {s \in zebra : TopicOfRoute[s] # TopicOfRoute[r]} \cup {r}
      BY <1>18 DEF ZebraChange
    <3>3. zebra' \subseteq ZebraRoutes
      BY <3>1, <3>2
    <3>4. \A x, y \in zebra' : TopicOfRoute[x] = TopicOfRoute[y] => x = y
      BY <3>1, <3>2
    <3> QED  BY <3>3, <3>4 DEF ZebraTables
  <2> QED  BY <1>18, <2>3, <2>4 DEF ZebraChange, TypeOK, Polled, tables
<1>19. CASE UNCHANGED vars
  BY <1>19 DEF vars, TypeOK, Polled
<1> QED
  BY <1>6, <1>7, <1>8, <1>9, <1>10, <1>11, <1>12, <1>13, <1>14, <1>15, <1>16, <1>17, <1>18,
     <1>19, <1>20 DEF Next, main

-----------------------------------------------------------------------------
\* What may be in the sockets: of the kernel only its own routes.
KernelMsgs == {KernelMsg(cmd, r) : cmd \in {"NEW", "DEL"}, r \in Own(KernelRoutes)}
ZebraMsgs == {ZebraMsg(cmd, r) : cmd \in {"NEW", "DEL"}, r \in ZebraRoutes}

\* The messages that say what their source has now.
KernelOk == {KernelMsg(IF r \in kernel THEN "NEW" ELSE "DEL", r) : r \in Own(KernelRoutes)}
ZebraOk ==
    {ZebraMsg("NEW", r) : r \in zebra}
    \cup {ZebraMsg("DEL", r) :
            r \in {s \in ZebraRoutes : \A z \in zebra : TopicOfRoute[z] # TopicOfRoute[s]}}

\* The queues end with what the sources have, as long as none is lost.
Queues ==
    /\ nl \in Seq(KernelMsgs) /\ fpm \in Seq(ZebraMsgs)
    /\ pc # "exit" /\ ~ overrun => Current(nl, KernelOk)
    /\ pc # "exit" => Current(fpm, ZebraOk)
    /\ pc \in {"fpm", "bind"} => nl = <<>>
    /\ pc = "fpm" => fpm = <<>>

\* An empty queue is current.
LEMMA NothingQueued ==
    ASSUME NEW S
    PROVE  /\ <<>> \in Seq(S)
           /\ \A ok : Current(<<>>, ok)
BY DEF Current

\* A change in the kernel is queued or lost, and then overrun says so.
LEMMA KernelQueue ==
    ASSUME TypeOK, Queues, ~ EarlyRoutes, NEW r \in KernelRoutes, KernelChange(r)
    PROVE  Queues'
<1> DEFINE m == KernelMsg(IF r \in kernel THEN "DEL" ELSE "NEW", r)
<1>1. UNCHANGED <<zebra, fpm, pc>> /\ ZebraOk' = ZebraOk
  BY DEF KernelChange, ZebraOk
<1>2. kernel' = IF r \in kernel THEN kernel \ {r} ELSE kernel \cup {r}
  BY DEF KernelChange
<1>3. Heard(r) => r \in Own(KernelRoutes) /\ pc \notin {"fpm", "bind"}
  BY DEF KernelChange, Heard, Own
<1>4. r \in Own(KernelRoutes) => m \in KernelMsgs /\ m \in KernelOk'
  <2>1. CASE r \in kernel
    BY <1>2, <2>1 DEF KernelMsgs, KernelOk
  <2>2. CASE r \notin kernel
    BY <1>2, <2>2 DEF KernelMsgs, KernelOk
  <2> QED  BY <2>1, <2>2
<1>5. ASSUME NEW s \in Own(KernelRoutes), s # r
      PROVE  KernelMsg(IF s \in kernel THEN "NEW" ELSE "DEL", s) \in KernelOk'
  <2>1. s \in kernel' <=> s \in kernel
    BY <1>2, <1>5
  <2> QED  BY <2>1 DEF KernelOk
<1>6. ASSUME NEW x \in KernelOk
      PROVE  \/ x \in KernelOk'
             \/ r \in Own(KernelRoutes) /\ TopicOf(x) = TopicOf(m)
  <2>1. PICK s \in Own(KernelRoutes) : x = KernelMsg(IF s \in kernel THEN "NEW" ELSE "DEL", s)
    BY DEF KernelOk
  <2>2. CASE s = r
    <3>1. \A cmd \in {"NEW", "DEL"} : TopicOf(KernelMsg(cmd, r)) = TopicOfRoute[r]
      BY MsgFields
    <3> QED  BY <2>1, <2>2, <3>1
  <2> QED  BY <1>5, <2>1, <2>2
<1> HIDE DEF m
<1>7. CASE Heard(r) /\ Len(nl) < MaxNl
  <2>1. nl' = Append(nl, m) /\ overrun' = overrun
    BY <1>7, DaemonAssumption DEF KernelChange, TypeOK, m
  <2>2. nl' \in Seq(KernelMsgs)
    BY <1>3, <1>4, <1>7, <2>1 DEF Queues
  <2>3. ASSUME pc # "exit", ~ overrun
        PROVE  Current(nl', KernelOk')
    BY <1>3, <1>4, <1>6, <1>7, <2>1, <2>3, CurrentAppend DEF Queues
  <2> QED  BY <1>1, <1>3, <1>7, <2>1, <2>2, <2>3, Zenon DEF Queues
<1>8. CASE ~ Heard(r)
  <2>1. nl' = nl /\ overrun' = overrun
    BY <1>8 DEF KernelChange, TypeOK
  <2>2. ASSUME pc # "exit", ~ overrun
        PROVE  Current(nl, KernelOk')
    <3>1. CASE pc \in {"fpm", "bind"}
      BY <3>1, NothingQueued DEF Queues
    <3>2. CASE pc \notin {"fpm", "bind"}
      <4>1. r \notin Own(KernelRoutes)
        BY <1>8, <2>2, <3>2 DEF Heard, Own, TypeOK
      <4>2. \A x \in KernelMsgs : x \in KernelOk => x \in KernelOk'
        BY <1>6, <4>1
      <4> QED  BY <2>2, <4>2, CurrentSame DEF Queues
    <3> QED  BY <3>1, <3>2
  <2> QED  BY <1>1, <2>1, <2>2 DEF Queues
<1>9. CASE Heard(r) /\ ~ (Len(nl) < MaxNl)
  <2>1. Len(nl) >= MaxNl
    BY <1>9, DaemonAssumption DEF TypeOK
  <2>2. nl' = nl /\ overrun' = TRUE
    BY <1>9, <2>1, Zenon DEF KernelChange
  <2> QED  BY <1>1, <2>2 DEF Queues
<1> QED  BY <1>7, <1>8, <1>9

\* zebra sends every change, or is not connected.
LEMMA ZebraQueue ==
    ASSUME TypeOK, Queues, NEW r \in ZebraRoutes, ZebraChange(r)
    PROVE  Queues'
<1> DEFINE m == ZebraMsg(IF r \in zebra THEN "DEL" ELSE "NEW", r)
<1>1. UNCHANGED <<kernel, nl, overrun, pc>> /\ KernelOk' = KernelOk
  BY DEF ZebraChange, KernelOk
<1>2. /\ zebra' = IF r \in zebra THEN zebra \ {r}
                  ELSE {s \in zebra : TopicOfRoute[s] # TopicOfRoute[r]} \cup {r}
      /\ \A x, y \in zebra : TopicOfRoute[x] = TopicOfRoute[y] => x = y
      /\ zebra \subseteq ZebraRoutes
  BY DEF ZebraChange, TypeOK, ZebraTables
<1>3. m \in ZebraMsgs /\ TopicOf(m) = TopicOfRoute[r]
  <2>1. \A cmd \in {"NEW", "DEL"} : ZebraMsg(cmd, r) \in ZebraMsgs /\ TopicOf(ZebraMsg(cmd, r)) = TopicOfRoute[r]
    BY MsgFields DEF ZebraMsgs
  <2> QED  BY <2>1
<1>4. m \in ZebraOk'
  <2>1. CASE r \in zebra
    <3>1. \A z \in zebra' : TopicOfRoute[z] # TopicOfRoute[r]
      BY <1>2, <2>1
    <3> QED  BY <2>1, <3>1 DEF ZebraOk
  <2>2. CASE r \notin zebra
    BY <1>2, <2>2 DEF ZebraOk
  <2> QED  BY <2>1, <2>2
<1>5. ASSUME NEW x \in ZebraMsgs, x \in ZebraOk
      PROVE  TopicOf(x) = TopicOf(m) \/ x \in ZebraOk'
  <2>1. CASE \E s \in zebra : x = ZebraMsg("NEW", s)
    <3>1. PICK s \in zebra : x = ZebraMsg("NEW", s)
      BY <2>1
    <3>2. TopicOf(x) = TopicOfRoute[s]
      BY <1>2, <3>1, MsgFields
    <3>3. TopicOfRoute[s] = TopicOfRoute[r] \/ s \in zebra'
      BY <1>2
    <3> QED  BY <1>3, <3>1, <3>2, <3>3 DEF ZebraOk
  <2>2. CASE \E s \in ZebraRoutes : /\ x = ZebraMsg("DEL", s)
                                    /\ \A z \in zebra : TopicOfRoute[z] # TopicOfRoute[s]
    <3>1. PICK s \in ZebraRoutes : /\ x = ZebraMsg("DEL", s)
                                   /\ \A z \in zebra : TopicOfRoute[z] # TopicOfRoute[s]
      BY <2>2
    <3>2. TopicOf(x) = TopicOfRoute[s]
      BY <3>1, MsgFields
    <3>3. \/ TopicOfRoute[s] = TopicOfRoute[r]
          \/ \A z \in zebra' : TopicOfRoute[z] # TopicOfRoute[s]
      BY <1>2, <3>1
    <3> QED  BY <1>3, <3>1, <3>2, <3>3 DEF ZebraOk
  <2> QED  BY <1>5, <2>1, <2>2 DEF ZebraOk
<1>6. CASE pc \notin {"fpm", "exit"}
  <2>1. fpm' = Append(fpm, m)
    BY <1>6 DEF ZebraChange
  <2> HIDE DEF m
  <2>2. fpm' \in Seq(ZebraMsgs)
    BY <1>3, <2>1 DEF Queues
  <2>3. Current(fpm', ZebraOk')
    BY <1>3, <1>4, <1>5, <1>6, <2>1, CurrentAppend DEF Queues
  <2> QED  BY <1>1, <1>6, <2>2, <2>3 DEF Queues
<1>7. CASE pc \in {"fpm", "exit"}
  <2>1. fpm' = fpm
    BY <1>7 DEF ZebraChange
  <2>2. pc = "fpm" => Current(fpm, ZebraOk')
    BY NothingQueued DEF Queues
  <2> QED  BY <1>1, <1>7, <2>1, <2>2 DEF Queues
<1> QED  BY <1>6, <1>7

\* The queues are empty when brokerd starts.
LEMMA QueuesInit ==
    ASSUME Init
    PROVE  Queues
BY NothingQueued DEF Init, Queues

\* Every step leaves the queues current.
LEMMA QueuesNext ==
    ASSUME TypeOK, Polled, Queues, ~ EarlyRoutes, [Next]_vars
    PROVE  Queues'
<1>1. UNCHANGED kernel => KernelOk' = KernelOk
  BY DEF KernelOk
<1>2. UNCHANGED zebra => ZebraOk' = ZebraOk
  BY DEF ZebraOk
<1>3. CASE broker_fpm_socket
  <2>1. PICK n \in Nat : \E routes \in [1 .. n -> zebra] :
           fpm' = [i \in 1 .. n |-> ZebraMsg("NEW", routes[i])]
    BY <1>3, TableIsSent, Zenon
  <2>2. PICK routes \in [1 .. n -> zebra] : fpm' = [i \in 1 .. n |-> ZebraMsg("NEW", routes[i])]
    BY <2>1
  <2>3. \A i \in 1 .. n : ZebraMsg("NEW", routes[i]) \in ZebraMsgs /\ ZebraMsg("NEW", routes[i]) \in ZebraOk
    BY DEF ZebraMsgs, ZebraOk, TypeOK, ZebraTables
  <2>5. fpm' \in Seq(ZebraMsgs)
    BY <2>2, <2>3
  <2>6. Current(fpm', ZebraOk)
    BY <2>2, <2>3 DEF Current
  <2> QED  BY <1>1, <1>2, <1>3, <2>5, <2>6 DEF broker_fpm_socket, Queues, env
<1>4. CASE Bind
  BY <1>1, <1>2, <1>4 DEF Bind, Queues, env
<1>5. CASE AttachFilter
  BY <1>1, <1>2, <1>5 DEF AttachFilter, Queues, env
<1>6. ASSUME NEW r \in todo, dump_route(r)
      PROVE  Queues'
  BY <1>1, <1>2, <1>6 DEF dump_route, Queues, env
<1>7. CASE DumpDone
  BY <1>1, <1>2, <1>7 DEF DumpDone, Queues, env
<1>8. CASE Poll
  BY <1>1, <1>2, <1>8 DEF Poll, Queues, env
<1>9. CASE broker_process_nl
  <2>1. CASE overrun
    BY <1>1, <1>2, <1>9, <2>1 DEF broker_process_nl, Queues, env
  <2>2. CASE ~ overrun
    <3>1. nl # <<>> /\ nl' = Tail(nl) /\ pc' \in {"poll", "serve"} /\ pc = "serve"
      BY <1>9, <2>2 DEF broker_process_nl, Served, Polled
    <3>2. nl' \in Seq(KernelMsgs) /\ Current(nl', KernelOk)
      BY <2>2, <3>1, TailQueue DEF Queues
    <3> QED  BY <1>1, <1>2, <1>9, <3>1, <3>2 DEF broker_process_nl, Queues, env
  <2> QED  BY <2>1, <2>2
<1>10. CASE broker_process_fpm
  <2>1. fpm # <<>> /\ fpm' = Tail(fpm) /\ pc' \in {"poll", "serve"} /\ pc = "serve"
    BY <1>10 DEF broker_process_fpm, Served, Polled, TypeOK
  <2>2. fpm' \in Seq(ZebraMsgs) /\ Current(fpm', ZebraOk)
    BY <2>1, TailQueue DEF Queues
  <2> QED  BY <1>1, <1>2, <1>10, <2>1, <2>2 DEF broker_process_fpm, Queues, env
<1>11. CASE Restart
  BY <1>11, NothingQueued DEF Restart, Queues
<1>12. CASE DumpFailed \/ FpmLost
  BY <1>12 DEF DumpFailed, FpmLost, Queues
<1>14. CASE DumpCutShort
  BY <1>1, <1>2, <1>14 DEF DumpCutShort, Queues, env
<1>13. CASE UNCHANGED vars
  BY <1>1, <1>2, <1>13 DEF vars, Queues
<1> QED
  BY <1>3, <1>4, <1>5, <1>6, <1>7, <1>8, <1>9, <1>10, <1>11, <1>12, <1>13, <1>14, KernelQueue, ZebraQueue
  DEF Next, main

-----------------------------------------------------------------------------
\* The sources may have, and have, a route to t.
KernelMay(t) == \E r \in Own(KernelRoutes) : TopicOfRoute[r] = t
ZebraMay(t) == \E r \in ZebraRoutes : TopicOfRoute[r] = t
KernelHas(t) == \E r \in Own(kernel) : TopicOfRoute[r] = t
KernelGave(t) == \E r \in Own(kernel) \ missed : TopicOfRoute[r] = t
ZebraHas(t) == \E r \in zebra : TopicOfRoute[r] = t

\* Why the broker need not have t: a source has not said that it has it.
KernelLate(t) ==
    /\ KernelMay(t)
    /\ \/ ~ KernelGave(t) \/ Pending(nl, t)
       \/ pc \in {"bind", "filter"}
       \/ pc = "dump" /\ \E r \in todo : r \in Own(KernelRoutes) /\ TopicOfRoute[r] = t
ZebraLate(t) == ZebraMay(t) /\ (~ ZebraHas(t) \/ Pending(fpm, t))

\* The level of t is the priority of a route to it; a dataplane forwards to
\* what a source has, or a message that corrects it is on its way.
Listed(t) == \E r \in Own(KernelRoutes) \cup ZebraRoutes : TopicOfRoute[r] = t /\ rib[t] = Priority(r)
Forwards(t) == \E r \in Own(kernel) \cup zebra : TopicOfRoute[r] = t /\ fib[t] = r.via

\* A dataplane forwards t as a source says, or will be told; and t is listed, or
\* it is known why it is not.
Follows(t) == fib[t] # NULL => Pending(nl, t) \/ Pending(fpm, t) \/ Forwards(t)
Explained(t) ==
    rib[t] = NULL /\ pc # "fpm" /\ (KernelMay(t) \/ ZebraMay(t)) => KernelLate(t) \/ ZebraLate(t)

\* What holds of a topic at every step.
TopicOk(t) ==
    /\ fib[t] = NULL <=> rib[t] = NULL
    /\ rib[t] # NULL => Listed(t)
    /\ pc \in {"fpm", "bind", "filter"} => rib[t] = NULL
    /\ pc # "exit" /\ ~ overrun => Follows(t) /\ Explained(t)

\* The kernel has one route of its own to a destination.
OneOwn ==
    \A r, s \in Own(KernelRoutes) :
        TopicOfRoute[r] = TopicOfRoute[s] /\ TopicOfRoute[r] # NULL => r = s

\* Nothing is listed when brokerd starts.
LEMMA TopicInit ==
    ASSUME Init, NEW t \in Topics
    PROVE  TopicOk(t)
BY DEF Init, TopicOk, Follows, Explained

\* A change in the kernel: the tables wait for the notification, unless the
\* route is not one that brokerd takes from the kernel.
LEMMA KernelTopic ==
    ASSUME TypeOK, Queues, ~ EarlyRoutes, NEW t \in Topics, TopicOk(t),
           NEW r \in KernelRoutes, KernelChange(r)
    PROVE  TopicOk(t)'
<1> DEFINE m == KernelMsg(IF r \in kernel THEN "DEL" ELSE "NEW", r)
<1>1. UNCHANGED <<zebra, fpm, pc, todo, missed, rib, fib>>
  BY DEF KernelChange, tables
<1>2. kernel' = IF r \in kernel THEN kernel \ {r} ELSE kernel \cup {r}
  BY DEF KernelChange
<1>3. Heard(r) => r \in Own(KernelRoutes)
  BY DEF KernelChange, Heard, Own
<1>4. ~ (r \in Own(KernelRoutes) /\ TopicOfRoute[r] = t) =>
        (KernelGave(t)' <=> KernelGave(t)) /\ (Forwards(t)' <=> Forwards(t))
  BY <1>1, <1>2 DEF KernelGave, Forwards, Own
<1>5. (KernelMay(t)' <=> KernelMay(t)) /\ (ZebraMay(t)' <=> ZebraMay(t))
      /\ (ZebraHas(t)' <=> ZebraHas(t)) /\ (Listed(t)' <=> Listed(t))
  BY <1>1, Zenon DEF KernelMay, ZebraMay, ZebraHas, Listed
<1>6. SUFFICES ASSUME pc # "exit", ~ overrun'
               PROVE  (Follows(t) /\ Explained(t))'
  BY <1>1, <1>5, Zenon DEF TopicOk
<1>7. ~ overrun /\ (Heard(r) => Len(nl) < MaxNl)
  <2>1. ~ overrun /\ (Heard(r) => ~ (Len(nl) >= MaxNl))
    BY <1>6, Zenon DEF KernelChange
  <2> QED  BY <2>1, DaemonAssumption DEF TypeOK
<1>8. Follows(t) /\ Explained(t)
  BY <1>6, <1>7 DEF TopicOk
<1>9. CASE Heard(r)
  <2>1. nl' = Append(nl, m)
    BY <1>7, <1>9 DEF KernelChange
  <2>2. m \in KernelMsgs /\ TopicOf(m) = TopicOfRoute[r]
    <3>1. \A cmd \in {"NEW", "DEL"} : KernelMsg(cmd, r) \in KernelMsgs /\ TopicOf(KernelMsg(cmd, r)) = TopicOfRoute[r]
      BY <1>3, <1>9, MsgFields DEF KernelMsgs
    <3> QED  BY <3>1
  <2> HIDE DEF m
  <2>3. Pending(nl', t) <=> Pending(nl, t) \/ TopicOfRoute[r] = t
    BY <2>1, <2>2, AppendQueue, Zenon DEF Queues
  <2>4. CASE TopicOfRoute[r] = t
    <3>1. KernelMay(t) /\ Pending(nl', t)
      BY <1>3, <1>9, <2>3, <2>4, Zenon DEF KernelMay
    <3> QED  BY <1>5, <3>1 DEF Follows, Explained, KernelLate
  <2>5. CASE TopicOfRoute[r] # t
    BY <1>1, <1>4, <1>5, <1>8, <2>3, <2>5 DEF Follows, Explained, KernelLate, ZebraLate
  <2> QED  BY <2>4, <2>5
<1>10. CASE ~ Heard(r)
  <2>1. nl' = nl
    BY <1>10, Zenon DEF KernelChange
  <2>2. CASE pc \in {"fpm", "bind"}
    <3>1. rib[t] = NULL /\ fib[t] = NULL
      BY <2>2, Zenon DEF TopicOk
    <3> QED
      BY <1>1, <1>5, <1>8, <2>1, <2>2, <3>1, Zenon DEF Follows, Explained, KernelLate, ZebraLate
  <2>3. CASE pc \notin {"fpm", "bind"}
    <3>1. r \notin Own(KernelRoutes)
      BY <1>6, <1>10, <2>3 DEF Heard, Own, TypeOK
    <3> QED
      BY <1>1, <1>4, <1>5, <1>8, <2>1, <3>1, Zenon DEF Follows, Explained, KernelLate, ZebraLate
  <2> QED  BY <2>2, <2>3
<1> QED  BY <1>9, <1>10

\* A change in zebra: the tables wait for the message.
LEMMA ZebraTopic ==
    ASSUME TypeOK, Queues, NEW t \in Topics, TopicOk(t), NEW r \in ZebraRoutes, ZebraChange(r)
    PROVE  TopicOk(t)'
<1> DEFINE m == ZebraMsg(IF r \in zebra THEN "DEL" ELSE "NEW", r)
<1>1. UNCHANGED <<kernel, nl, overrun, pc, todo, missed, rib, fib>>
  BY DEF ZebraChange, tables
<1>2. zebra' = IF r \in zebra THEN zebra \ {r}
               ELSE {s \in zebra : TopicOfRoute[s] # TopicOfRoute[r]} \cup {r}
  BY Zenon DEF ZebraChange
<1>3. TopicOfRoute[r] # t => (ZebraHas(t)' <=> ZebraHas(t)) /\ (Forwards(t)' <=> Forwards(t))
  BY <1>1, <1>2, Zenon DEF ZebraHas, Forwards, Own
<1>4. (KernelMay(t)' <=> KernelMay(t)) /\ (ZebraMay(t)' <=> ZebraMay(t))
      /\ (KernelGave(t)' <=> KernelGave(t)) /\ (Listed(t)' <=> Listed(t))
  BY <1>1, Zenon DEF KernelMay, ZebraMay, KernelGave, Listed, Own
<1>5. SUFFICES ASSUME pc # "exit", ~ overrun
               PROVE  (Follows(t) /\ Explained(t))'
  BY <1>1, <1>4, Zenon DEF TopicOk
<1>6. Follows(t) /\ Explained(t)
  BY <1>5, Zenon DEF TopicOk
<1>7. CASE pc = "fpm"
  <2>1. rib[t] = NULL /\ fib[t] = NULL
    BY <1>7 DEF TopicOk
  <2> QED  BY <1>1, <1>7, <2>1, Zenon DEF Follows, Explained
<1>8. CASE pc # "fpm"
  <2>1. fpm' = Append(fpm, m)
    BY <1>5, <1>8 DEF ZebraChange
  <2>2. m \in ZebraMsgs /\ TopicOf(m) = TopicOfRoute[r]
    <3>1. \A cmd \in {"NEW", "DEL"} : ZebraMsg(cmd, r) \in ZebraMsgs /\ TopicOf(ZebraMsg(cmd, r)) = TopicOfRoute[r]
      BY MsgFields DEF ZebraMsgs
    <3> QED  BY <3>1
  <2> HIDE DEF m
  <2>3. Pending(fpm', t) <=> Pending(fpm, t) \/ TopicOfRoute[r] = t
    BY <2>1, <2>2, AppendQueue, Zenon DEF Queues
  <2>4. CASE TopicOfRoute[r] = t
    <3>1. ZebraMay(t) /\ Pending(fpm', t)
      BY <2>3, <2>4, Zenon DEF ZebraMay
    <3> QED  BY <1>4, <3>1 DEF Follows, Explained, ZebraLate
  <2>5. CASE TopicOfRoute[r] # t
    BY <1>1, <1>3, <1>4, <1>6, <2>3, <2>5, Zenon DEF Follows, Explained, KernelLate, ZebraLate
  <2> QED  BY <2>4, <2>5
<1> QED  BY <1>7, <1>8

\* The dump comes to a route, and lists it if the kernel still has it.
LEMMA DumpTopic ==
    ASSUME TypeOK, OneOwn, NEW t \in Topics, TopicOk(t), NEW r \in todo, dump_route(r)
    PROVE  TopicOk(t)'
<1>1. /\ UNCHANGED <<kernel, zebra, nl, overrun, fpm, pc, missed>> /\ todo' = todo \ {r} /\ pc = "dump"
      /\ r \in KernelRoutes
  BY Zenon DEF dump_route, env, TypeOK
<1>2. (KernelMay(t)' <=> KernelMay(t)) /\ (ZebraMay(t)' <=> ZebraMay(t))
      /\ (KernelGave(t)' <=> KernelGave(t)) /\ (ZebraHas(t)' <=> ZebraHas(t))
  BY <1>1 DEF KernelMay, ZebraMay, KernelGave, ZebraHas, Own
<1>3. ~ overrun => Follows(t) /\ Explained(t)
  BY <1>1 DEF TopicOk
<1>4. CASE r \in kernel /\ r.proto = "KERNEL"
  <2>1. TableTypes /\ About(KernelMsg("NEW", r), r) /\ process_rtnl(KernelMsg("NEW", r))
    BY <1>1, <1>4, MsgsAbout, Zenon DEF dump_route, TypeOK, TableTypes
  <2>2. Told(r, "NEW", KernelMsg("NEW", r).replace)
    BY <2>1, ProcessTells, MsgFields
  <2>3. r \in Own(kernel) /\ r \in Own(KernelRoutes)
    BY <1>1, <1>4, Zenon DEF Own
  <2>4. CASE TopicOfRoute[r] = t
    <3>1. rib'[t] \in {rib[t], Priority(r)} \ {NULL} /\ fib'[t] \in {fib[t], r.via} \ {NULL}
      BY <2>2, <2>4, Zenon DEF Told
    <3>2. Listed(t)'
      BY <2>3, <2>4, <3>1, Zenon DEF TopicOk, Listed
    <3>3. ~ overrun => Follows(t)'
      BY <1>1, <1>3, <2>3, <2>4, <3>1, Zenon DEF Follows, Forwards, Own
    <3> QED  BY <1>1, <3>1, <3>2, <3>3, Zenon DEF TopicOk, Explained
  <2>5. CASE TopicOfRoute[r] # t
    <3>1. rib'[t] = rib[t] /\ fib'[t] = fib[t]
      BY <2>2, <2>5, Zenon DEF Told
    <3>2. (Listed(t)' <=> Listed(t)) /\ (Forwards(t)' <=> Forwards(t))
      BY <1>1, <3>1, Zenon DEF Listed, Forwards, Own
    <3>3. ~ overrun => (Follows(t) /\ Explained(t))'
      BY <1>1, <1>2, <1>3, <2>5, <3>1, <3>2, Zenon DEF Follows, Explained, KernelLate, ZebraLate
    <3> QED  BY <1>1, <3>1, <3>2, <3>3, Zenon DEF TopicOk
  <2> QED  BY <2>4, <2>5, Zenon
<1>5. CASE ~ (r \in kernel /\ r.proto = "KERNEL")
  <2>1. rib' = rib /\ fib' = fib
    BY <1>5, Zenon DEF dump_route, tables
  <2>2. (Listed(t)' <=> Listed(t)) /\ (Forwards(t)' <=> Forwards(t))
    BY <1>1, <2>1, Zenon DEF Listed, Forwards, Own
  <2>3. r \in Own(KernelRoutes) /\ TopicOfRoute[r] = t => ~ KernelGave(t)
    <3>1. SUFFICES ASSUME r \in Own(KernelRoutes), TopicOfRoute[r] = t,
                          NEW s \in Own(kernel) \ missed, TopicOfRoute[s] = t
                   PROVE  FALSE
      BY DEF KernelGave
    <3>2. s \in Own(KernelRoutes) /\ s \in kernel /\ t # NULL
      BY <3>1 DEF Own, TypeOK, Topics
    <3>3. s = r
      BY <3>1, <3>2, Zenon DEF OneOwn
    <3> QED  BY <1>5, <3>1, <3>2, <3>3 DEF Own
  <2>4. ~ overrun => (Follows(t) /\ Explained(t))'
    BY <1>1, <1>2, <1>3, <2>1, <2>2, <2>3, Zenon DEF Follows, Explained, KernelLate, ZebraLate
  <2> QED  BY <1>1, <2>1, <2>2, <2>4 DEF TopicOk
<1> QED  BY <1>4, <1>5, Zenon

\* A dump is cut short: the routes it skips are missed, or the kernel does not
\* have them.
LEMMA CutTopic ==
    ASSUME TypeOK, OneOwn, NEW t \in Topics, TopicOk(t), DumpCutShort
    PROVE  TopicOk(t)'
<1>1. UNCHANGED <<kernel, zebra, nl, overrun, fpm, pc, rib, fib>> /\ pc = "dump"
  BY DEF DumpCutShort, env, tables
<1>2. PICK skipped \in SUBSET todo :
         /\ todo' = todo \ skipped
         /\ missed' = missed \cup {r \in skipped \cap Own(kernel) : TopicOfRoute[r] # NULL}
  BY DEF DumpCutShort
<1>3. (KernelMay(t)' <=> KernelMay(t)) /\ (ZebraMay(t)' <=> ZebraMay(t))
      /\ (ZebraHas(t)' <=> ZebraHas(t)) /\ (Listed(t)' <=> Listed(t))
      /\ (Forwards(t)' <=> Forwards(t))
  BY <1>1, Zenon DEF KernelMay, ZebraMay, ZebraHas, Listed, Forwards, Own
<1>4. KernelGave(t)' => KernelGave(t)
  BY <1>1, <1>2 DEF KernelGave, Own
<1>5. ASSUME NEW r \in todo, r \in Own(KernelRoutes), TopicOfRoute[r] = t
      PROVE  r \in todo' \/ ~ KernelGave(t)'
  <2>1. SUFFICES ASSUME r \in skipped, NEW s \in Own(kernel), s \notin missed', TopicOfRoute[s] = t
                 PROVE  FALSE
    BY <1>1, <1>2 DEF KernelGave, Own
  <2>2. s \in Own(KernelRoutes) /\ t # NULL
    BY <2>1 DEF Own, TypeOK, Topics
  <2>3. s = r
    BY <1>5, <2>1, <2>2, Zenon DEF OneOwn
  <2> QED  BY <1>2, <2>1, <2>2, <2>3
<1>6. KernelLate(t) => KernelLate(t)'
  BY <1>1, <1>3, <1>4, <1>5, Zenon DEF KernelLate
<1>7. ~ overrun => (Follows(t) /\ Explained(t))'
  BY <1>1, <1>3, <1>6, Zenon DEF TopicOk, Follows, Explained, ZebraLate
<1> QED  BY <1>1, <1>3, <1>7, Zenon DEF TopicOk

\* A notification is published.
LEMMA NlTopic ==
    ASSUME TypeOK, Polled, Queues, OneOwn, NEW t \in Topics, TopicOk(t),
           broker_process_nl, ~ overrun
    PROVE  TopicOk(t)'
<1>1. /\ UNCHANGED <<kernel, zebra, overrun, fpm, todo>>
      /\ pc = "serve" /\ pc' \in {"poll", "serve"}
      /\ nl # <<>> /\ nl' = Tail(nl) /\ process_nlmsg(Head(nl))
      /\ missed' = missed \ {Head(nl).rtm}
  BY DEF broker_process_nl, Served, Polled, env
<1>2. nl \in Seq(KernelMsgs) /\ Current(nl, KernelOk)
  BY <1>1 DEF Queues
<1>3. /\ Head(nl) \in KernelMsgs
      /\ Pending(nl, t) <=> Pending(nl', t) \/ TopicOf(Head(nl)) = t
      /\ Pending(nl', TopicOf(Head(nl))) \/ Head(nl) \in KernelOk
  BY <1>1, <1>2, TailQueue
<1>4. PICK cmd \in {"NEW", "DEL"}, r \in Own(KernelRoutes) : Head(nl) = KernelMsg(cmd, r)
  BY <1>3 DEF KernelMsgs
<1>5. r \in KernelRoutes /\ r.proto = "KERNEL"
  BY Zenon DEF Own
<1>6. /\ About(Head(nl), r) /\ TopicOf(Head(nl)) = TopicOfRoute[r] /\ Head(nl).cmd = cmd
      /\ Head(nl).rtm = r
  BY <1>4, <1>5, MsgsAbout, MsgFields
<1>7. Told(r, cmd, TRUE)
  BY <1>1, <1>6, ProcessReplaces, ZenonT(30) DEF TypeOK, TableTypes
<1>8. /\ (KernelMay(t)' <=> KernelMay(t)) /\ (ZebraMay(t)' <=> ZebraMay(t))
      /\ ZebraHas(t)' <=> ZebraHas(t)
      /\ TopicOfRoute[r] # t => (KernelGave(t)' <=> KernelGave(t))
  BY <1>1, <1>6 DEF KernelMay, ZebraMay, KernelGave, ZebraHas, Own
<1>9. Follows(t) /\ Explained(t)
  BY <1>1 DEF TopicOk
<1>10. CASE TopicOfRoute[r] # t
  <2>1. rib'[t] = rib[t] /\ fib'[t] = fib[t] /\ (Pending(nl', t) <=> Pending(nl, t))
    BY <1>3, <1>6, <1>7, <1>10, Zenon DEF Told
  <2>2. (Listed(t)' <=> Listed(t)) /\ (Forwards(t)' <=> Forwards(t))
    BY <1>1, <2>1, Zenon DEF Listed, Forwards, Own
  <2>3. (Follows(t) /\ Explained(t))'
    BY <1>1, <1>8, <1>9, <1>10, <2>1, <2>2, Zenon DEF Follows, Explained, KernelLate, ZebraLate
  <2> QED  BY <1>1, <2>1, <2>2, <2>3, Zenon DEF TopicOk
<1>11. CASE TopicOfRoute[r] = t
  <2>1. ~ Pending(nl', t) => (cmd = "NEW" <=> r \in kernel)
    <3>1. SUFFICES ASSUME ~ Pending(nl', t)
                   PROVE  cmd = "NEW" <=> r \in kernel
      BY Zenon
    <3>2. PICK s \in Own(KernelRoutes) : Head(nl) = KernelMsg(IF s \in kernel THEN "NEW" ELSE "DEL", s)
      BY <1>3, <1>6, <1>11, <3>1, Zenon DEF KernelOk
    <3>3. s = r /\ cmd = IF s \in kernel THEN "NEW" ELSE "DEL"
      BY <1>6, <3>2, MsgFields
    <3> QED  BY <3>3
  <2>2. CASE cmd = "DEL"
    <3>1. rib'[t] = NULL /\ fib'[t] = NULL
      BY <1>7, <1>11, <2>2 DEF Told
    <3>2. KernelMay(t)
      BY <1>11 DEF KernelMay
    <3>3. ~ Pending(nl', t) => ~ KernelGave(t)'
      <4>1. SUFFICES ASSUME r \notin kernel, NEW s \in Own(kernel), TopicOfRoute[s] = t
                     PROVE  FALSE
        BY <1>1, <2>1, <2>2, Zenon DEF KernelGave, Own
      <4>2. s \in Own(KernelRoutes) /\ s \in kernel /\ t # NULL
        BY <4>1 DEF Own, TypeOK, Topics
      <4>3. s = r
        BY <1>11, <4>1, <4>2 DEF OneOwn
      <4> QED  BY <4>1, <4>2, <4>3
    <3>4. KernelLate(t)'
      BY <1>8, <3>2, <3>3, Zenon DEF KernelLate
    <3> QED  BY <1>1, <3>1, <3>4, Zenon DEF TopicOk, Follows, Explained
  <2>3. CASE cmd = "NEW"
    <3>1. rib'[t] \in {rib[t], Priority(r)} \ {NULL} /\ fib'[t] = r.via /\ fib'[t] # NULL
      BY <1>7, <1>11, <2>3 DEF Told
    <3>2. Listed(t)'
      BY <1>11, <3>1, Zenon DEF TopicOk, Listed
    <3>3. ~ Pending(nl', t) => Forwards(t)'
      BY <1>1, <1>5, <1>11, <2>1, <2>3, <3>1 DEF Forwards, Own
    <3> QED  BY <1>1, <3>1, <3>2, <3>3, Zenon DEF TopicOk, Follows, Explained
  <2> QED  BY <2>2, <2>3
<1> QED  BY <1>10, <1>11

\* A message of zebra is published.
LEMMA FpmTopic ==
    ASSUME TypeOK, Polled, Queues, NEW t \in Topics, TopicOk(t), broker_process_fpm
    PROVE  TopicOk(t)'
<1>1. /\ UNCHANGED <<kernel, zebra, overrun, nl, todo, missed>>
      /\ pc = "serve" /\ pc' \in {"poll", "serve"}
      /\ fpm # <<>> /\ fpm' = Tail(fpm) /\ process_nlmsg(Head(fpm))
  BY Zenon DEF broker_process_fpm, Served, Polled, TypeOK, env
<1>2. fpm \in Seq(ZebraMsgs) /\ Current(fpm, ZebraOk)
  BY <1>1 DEF Queues
<1>3. /\ Head(fpm) \in ZebraMsgs
      /\ Pending(fpm, t) <=> Pending(fpm', t) \/ TopicOf(Head(fpm)) = t
      /\ Pending(fpm', TopicOf(Head(fpm))) \/ Head(fpm) \in ZebraOk
  BY <1>1, <1>2, TailQueue
<1>4. PICK cmd \in {"NEW", "DEL"}, r \in ZebraRoutes : Head(fpm) = ZebraMsg(cmd, r)
  BY <1>3 DEF ZebraMsgs
<1>5. /\ About(Head(fpm), r) /\ TopicOf(Head(fpm)) = TopicOfRoute[r] /\ Head(fpm).cmd = cmd
      /\ cmd = "NEW" => Head(fpm).rtm = r
  BY <1>4, MsgsAbout, MsgFields
<1>6. Told(r, cmd, TRUE)
  BY <1>1, <1>5, ProcessReplaces, Zenon DEF TypeOK, TableTypes
<1>7. (KernelMay(t)' <=> KernelMay(t)) /\ (ZebraMay(t)' <=> ZebraMay(t))
      /\ (KernelGave(t)' <=> KernelGave(t)) /\ (ZebraHas(t)' <=> ZebraHas(t))
  BY <1>1 DEF KernelMay, ZebraMay, KernelGave, ZebraHas, Own
<1>8. ~ overrun => Follows(t) /\ Explained(t)
  BY <1>1 DEF TopicOk
<1>9. CASE TopicOfRoute[r] # t
  <2>1. rib'[t] = rib[t] /\ fib'[t] = fib[t] /\ (Pending(fpm', t) <=> Pending(fpm, t))
    BY <1>3, <1>5, <1>6, <1>9, Zenon DEF Told
  <2>2. (Listed(t)' <=> Listed(t)) /\ (Forwards(t)' <=> Forwards(t))
    BY <1>1, <2>1, Zenon DEF Listed, Forwards, Own
  <2>3. ~ overrun => (Follows(t) /\ Explained(t))'
    BY <1>1, <1>7, <1>8, <2>1, <2>2, Zenon DEF Follows, Explained, KernelLate, ZebraLate
  <2> QED  BY <1>1, <2>1, <2>2, <2>3, Zenon DEF TopicOk
<1>10. CASE TopicOfRoute[r] = t
  <2>1. ~ Pending(fpm', t) => Head(fpm) \in ZebraOk
    BY <1>3, <1>5, <1>10, Zenon
  <2>2. CASE cmd = "DEL"
    <3>1. rib'[t] = NULL /\ fib'[t] = NULL
      BY <1>6, <1>10, <2>2 DEF Told
    <3>2. ZebraMay(t)
      BY <1>10 DEF ZebraMay
    <3>3. ~ Pending(fpm', t) => ~ ZebraHas(t)
      <4>1. SUFFICES ASSUME Head(fpm) \in ZebraOk
                     PROVE  ~ ZebraHas(t)
        BY <2>1, Zenon
      <4>2. \A s \in zebra : Head(fpm) # ZebraMsg("NEW", s)
        BY <1>5, <2>2, MsgFields
      <4>3. PICK s \in ZebraRoutes : /\ Head(fpm) = ZebraMsg("DEL", s)
                                     /\ \A z \in zebra : TopicOfRoute[z] # TopicOfRoute[s]
        BY <4>1, <4>2, Zenon DEF ZebraOk
      <4>4. TopicOfRoute[s] = t
        BY <1>5, <1>10, <4>3, MsgFields
      <4> QED  BY <4>3, <4>4 DEF ZebraHas
    <3>4. ZebraLate(t)'
      BY <1>7, <3>2, <3>3, Zenon DEF ZebraLate
    <3> QED  BY <1>1, <3>1, <3>4, Zenon DEF TopicOk, Follows, Explained
  <2>3. CASE cmd = "NEW"
    <3>1. rib'[t] \in {rib[t], Priority(r)} \ {NULL} /\ fib'[t] = r.via /\ fib'[t] # NULL
      BY <1>6, <1>10, <2>3, Zenon DEF Told
    <3>2. Listed(t)'
      BY <1>10, <3>1, Zenon DEF TopicOk, Listed
    <3>3. ~ Pending(fpm', t) => r \in zebra
      <4>1. SUFFICES ASSUME Head(fpm) \in ZebraOk
                     PROVE  r \in zebra
        BY <2>1, Zenon
      <4>2. \A s : Head(fpm) # ZebraMsg("DEL", s)
        BY <1>5, <2>3, MsgFields
      <4>3. PICK s \in zebra : Head(fpm) = ZebraMsg("NEW", s)
        BY <4>1, <4>2, Zenon DEF ZebraOk
      <4> QED  BY <1>5, <2>3, <4>3, MsgFields
    <3>4. ~ Pending(fpm', t) => Forwards(t)'
      BY <1>1, <1>10, <3>1, <3>3 DEF Forwards
    <3> QED  BY <1>1, <3>1, <3>2, <3>4, Zenon DEF TopicOk, Follows, Explained
  <2> QED  BY <2>2, <2>3, Zenon
<1> QED  BY <1>9, <1>10

\* Every step leaves the differences between tables and sources explained.
LEMMA TopicNext ==
    ASSUME TypeOK, Polled, Queues, ~ EarlyRoutes, OneOwn, NEW t \in Topics, TopicOk(t), [Next]_vars
    PROVE  TopicOk(t)'
<1>1. UNCHANGED <<kernel, zebra, missed, rib, fib>> =>
        /\ (KernelMay(t)' <=> KernelMay(t)) /\ (ZebraMay(t)' <=> ZebraMay(t))
        /\ (KernelGave(t)' <=> KernelGave(t)) /\ (ZebraHas(t)' <=> ZebraHas(t))
        /\ (Listed(t)' <=> Listed(t)) /\ (Forwards(t)' <=> Forwards(t))
  BY Zenon DEF KernelMay, ZebraMay, KernelGave, ZebraHas, Listed, Forwards, Own
<1> DEFINE Apart == UNCHANGED <<kernel, zebra, missed, rib, fib, nl, overrun>>
<1>2. CASE broker_fpm_socket
  <2>1. Apart /\ pc = "fpm" /\ pc' = "bind"
    BY <1>2 DEF broker_fpm_socket, env, tables
  <2>2. rib[t] = NULL /\ fib[t] = NULL
    BY <2>1 DEF TopicOk
  <2>3. ASSUME ZebraHas(t)
        PROVE  Pending(fpm', t)
    <3>1. PICK n \in Nat : \E routes \in [1 .. n -> zebra] :
             /\ \A r \in zebra : \E i \in 1 .. n : routes[i] = r
             /\ fpm' = [i \in 1 .. n |-> ZebraMsg("NEW", routes[i])]
      BY <1>2, TableIsSent, Zenon
    <3>2. PICK r \in zebra : TopicOfRoute[r] = t
      BY <2>3 DEF ZebraHas
    <3>5. PICK i \in DOMAIN fpm' : fpm'[i] = ZebraMsg("NEW", r)
      BY <3>1
    <3>6. TopicOf(ZebraMsg("NEW", r)) = t
      BY <3>2, MsgFields DEF TypeOK, ZebraTables
    <3> QED  BY <3>5, <3>6 DEF Pending
  <2> QED  BY <1>1, <2>1, <2>2, <2>3, Zenon DEF TopicOk, Follows, Explained, KernelLate, ZebraLate
<1>3. CASE Bind
  <2>1. Apart /\ fpm' = fpm /\ pc = "bind" /\ pc' = "filter"
    BY <1>3, Zenon DEF Bind, env, tables
  <2> QED  BY <1>1, <2>1, Zenon DEF TopicOk, Follows, Explained, KernelLate, ZebraLate
<1>4. CASE AttachFilter
  <2>1. Apart /\ fpm' = fpm /\ pc = "filter" /\ pc' = "dump" /\ todo' = KernelRoutes
    BY <1>4 DEF AttachFilter, env, tables
  <2>2. KernelMay(t) => \E r \in todo' : r \in Own(KernelRoutes) /\ TopicOfRoute[r] = t
    BY <2>1, Zenon DEF KernelMay, Own
  <2> QED  BY <1>1, <2>1, <2>2, Zenon DEF TopicOk, Follows, Explained, KernelLate, ZebraLate
<1>5. CASE DumpDone
  <2>1. Apart /\ fpm' = fpm /\ pc = "dump" /\ pc' = "poll" /\ todo = {}
    BY <1>5, Zenon DEF DumpDone, env, tables
  <2> QED  BY <1>1, <2>1, Zenon DEF TopicOk, Follows, Explained, KernelLate, ZebraLate
<1>6. CASE Poll
  <2>1. Apart /\ fpm' = fpm /\ pc = "poll" /\ pc' \in {"serve", "exit"}
    BY <1>6 DEF Poll, env, tables
  <2> QED  BY <1>1, <2>1, Zenon DEF TopicOk, Follows, Explained, KernelLate, ZebraLate
<1>7. CASE broker_process_nl
  <2>1. CASE overrun
    <3>1. Apart /\ pc' = "exit"
      BY <1>7, <2>1, Zenon DEF broker_process_nl, env, tables
    <3> QED  BY <1>1, <3>1, Zenon DEF TopicOk
  <2> QED  BY <1>7, <2>1, NlTopic, Zenon
<1>8. CASE Restart
  BY <1>8, Zenon DEF Restart, TopicOk, Follows, Explained
<1>9. CASE DumpFailed \/ FpmLost
  <2>1. Apart /\ pc' = "exit"
    BY <1>9, Zenon DEF DumpFailed, FpmLost, env, tables
  <2> QED  BY <1>1, <2>1 DEF TopicOk
<1>10. CASE UNCHANGED vars
  <2>1. Apart /\ UNCHANGED <<fpm, pc, todo>>
    BY <1>10, Zenon DEF vars
  <2> QED  BY <1>1, <2>1, Zenon DEF TopicOk, Follows, Explained, KernelLate, ZebraLate
<1> QED
  BY <1>2, <1>3, <1>4, <1>5, <1>6, <1>7, <1>8, <1>9, <1>10,
     DumpTopic, CutTopic, FpmTopic, KernelTopic, ZebraTopic, Zenon DEF Next, main

-----------------------------------------------------------------------------
\* The tables when brokerd has caught up.
LEMMA CaughtUp ==
    ASSUME TypeOK, \A t \in Topics : TopicOk(t)
    PROVE  Converged /\ DataplaneFollows
<1>1. SUFFICES ASSUME Quiet, NEW t \in Topics
               PROVE  /\ AllGave(t) /\ ~ NoneHas(t) =>
                            /\ rib[t] # NULL
                            /\ fib[t] \in {r.via : r \in Has(t).kernel \cup Has(t).zebra}
                      /\ NoneHas(t) => rib[t] = NULL /\ fib[t] = NULL
  BY DEF Converged, DataplaneFollows
<1>2. pc = "poll" /\ ~ overrun /\ ~ Pending(nl, t) /\ ~ Pending(fpm, t) /\ TopicOk(t)
  BY <1>1 DEF Quiet, Pending
<1>3. /\ AllGave(t) <=> (KernelMay(t) => KernelGave(t)) /\ (ZebraMay(t) => ZebraHas(t))
      /\ NoneHas(t) <=> ~ KernelHas(t) /\ ~ ZebraHas(t)
  BY DEF AllGave, NoneHas, May, Has, KernelMay, KernelHas, KernelGave, ZebraMay, ZebraHas
<1>4. (KernelHas(t) \/ ZebraHas(t)) /\ rib[t] = NULL => ~ AllGave(t)
  <2>1. (KernelHas(t) => KernelMay(t)) /\ (ZebraHas(t) => ZebraMay(t))
    BY Zenon DEF TypeOK, ZebraTables, Own, KernelHas, KernelMay, ZebraHas, ZebraMay
  <2> QED  BY <1>2, <1>3, <2>1, Zenon DEF TopicOk, Explained, KernelLate, ZebraLate
<1>5. fib[t] # NULL => Forwards(t)
  BY <1>2, Zenon DEF TopicOk, Follows
<1>6. Forwards(t) => /\ ~ NoneHas(t)
                     /\ fib[t] \in {r.via : r \in Has(t).kernel \cup Has(t).zebra}
  BY <1>3, Zenon DEF Forwards, KernelHas, ZebraHas, Has
<1> QED  BY <1>2, <1>3, <1>4, <1>5, <1>6, Zenon DEF TopicOk

\* The priority of a deletion and the level of its topic.
LEMMA DeletesLevel ==
    ASSUME Queues, \A t \in Topics : TopicOk(t)
    PROVE  DeletesNotRaised
<1>1. SUFFICES ASSUME NEW q \in {nl, fpm}, q # <<>>, Head(q).cmd = "DEL",
                      TopicOf(Head(q)) \in Topics \ Mixed, rib[TopicOf(Head(q))] # NULL
               PROVE  Priority(Head(q).rtm) >= rib[TopicOf(Head(q))]
  BY DEF DeletesNotRaised
<1>2. Head(q) \in KernelMsgs \/ Head(q) \in ZebraMsgs
  BY <1>1, TailQueue DEF Queues
<1>3. PICK r \in Own(KernelRoutes) \cup ZebraRoutes : About(Head(q), r)
  BY <1>2, MsgsAbout DEF KernelMsgs, ZebraMsgs, Own
<1>4. TopicOf(Head(q)) = TopicOfRoute[r] /\ Priority(Head(q).rtm) = Priority(r)
  BY <1>3, TopicOfMsg, RewrittenFields, Zenon
<1>5. PICK s \in Own(KernelRoutes) \cup ZebraRoutes :
        TopicOfRoute[s] = TopicOfRoute[r] /\ rib[TopicOfRoute[r]] = Priority(s)
  BY <1>1, <1>4, Zenon DEF TopicOk, Listed
<1>6. r.proto = "KERNEL" <=> s.proto = "KERNEL"
  BY <1>1, <1>4, <1>5 DEF Mixed
<1>7. Priority(r) = Priority(s)
  BY <1>6, Zenon DEF Priority
<1>8. Priority(s) \in Nat
  BY DEF Priority, ROUTE_CONNECTED, ROUTE_OTHER
<1>9. Priority(s) >= Priority(s)
  BY <1>8
<1> QED  BY <1>4, <1>5, <1>7, <1>9, Zenon

\* The types hold for every set of routes and every size of the sockets: the
\* queue of notifications never outgrows its room, zebra's table never has two
\* routes to a destination, and every level in the broker is one of the two
\* that process_rtnl gives.
THEOREM DaemonTypeOK == Spec => []TypeOK
<1>1. Init => TypeOK /\ Polled
  BY DaemonInit
<1>2. (TypeOK /\ Polled) /\ [Next]_vars => (TypeOK /\ Polled)'
  BY DaemonTypes
<1> QED  BY <1>1, <1>2, PTL DEF Spec

\* brokerd follows its sources: once it has caught up, the broker lists and a
\* dataplane forwards what they have, and no deletion that it publishes is more
\* urgent than the route it deletes, whatever changed during the dump, was lost
\* or was started over.  What a dump cut short did not come to
\* (broker_process.c:380) may be missing until the kernel changes it, and
\* nothing else; of topics that come with two priorities (Mixed) nothing is said.
\* Hypotheses: the kernel has one route of its own to a destination (of two, the
\* removal of one would delete the other's topic), and what changes between bind
\* and SO_ATTACH_FILTER are the kernel's own routes.
THEOREM DaemonFollowsSources ==
    ASSUME ~ EarlyRoutes, OneOwn
    PROVE  Spec => [](Converged /\ DataplaneFollows /\ DeletesNotRaised)
<1> DEFINE Inv == TypeOK /\ Polled /\ Queues /\ \A t \in Topics : TopicOk(t)
<1>1. Init => Inv
  BY DaemonInit, QueuesInit, TopicInit
<1>2. Inv /\ [Next]_vars => Inv'
  <2>1. SUFFICES ASSUME Inv, [Next]_vars
                 PROVE  Inv'
    OBVIOUS
  <2>2. (TypeOK /\ Polled)'
    BY <2>1, DaemonTypes
  <2>3. Queues'
    BY <2>1, QueuesNext
  <2>4. \A t \in Topics : TopicOk(t)'
    BY <2>1, TopicNext
  <2> QED  BY <2>2, <2>3, <2>4
<1>3. Inv => Converged /\ DataplaneFollows /\ DeletesNotRaised
  BY CaughtUp, DeletesLevel
<1> QED  BY <1>1, <1>2, <1>3, PTL DEF Spec

-----------------------------------------------------------------------------
\* The routes that get a topic by destination, and the table one is in.
ByDst(r) == r.af # "MPLS" /\ r.type \notin {"MULTICAST", "BROADCAST"} /\ ~ r.cloned
TableOf(r) == Attr(r.rta_table, IF r.table = "UNSPEC" THEN "MAIN" ELSE r.table)

\* What kernel and zebra give: universe scope, but for the kernel's connected
\* IPv4 routes; and the routes to one destination in one table.
KnownScopes ==
    \A r \in Routes : ByDst(r) =>
        r.scope = "UNIVERSE" \/ (r.scope = "LINK" /\ r.proto = "KERNEL" /\ r.af = "INET")
OneTable ==
    \A r, s \in Routes :
        ByDst(r) /\ ByDst(s) /\ inet_ntop(r.af, r.dst) = inet_ntop(s.af, s.dst) => TableOf(r) = TableOf(s)

\* The topics by destination, in terms of the route as its source gives it.
LEMMA TopicByDst ==
    ASSUME KnownScopes, NEW t \in Topics, t[1] = "r"
    PROVE  \E r \in Routes : /\ ByDst(r)
                             /\ t = <<"r", inet_ntop(r.af, r.dst), "UNIVERSE", TableOf(r)>>
<1>1. PICK r \in Routes : t = TopicOfRoute[r]
  BY DEF Topics
<1> DEFINE m == KernelMsg("NEW", r)
           w == Rewritten(m).rtm
<1>2. About(m, r) /\ m.rtm = r
  BY DEF About, KernelMsg
<1>3. t = route_topic(w)
  BY <1>1, <1>2, TopicOfMsg
<1>4. /\ w.scope = Scope(r) /\ w.table = Table(r) /\ w.type = r.type
      /\ w.af = r.af /\ w.dst = r.dst /\ w.cloned = r.cloned /\ w.rta_table = r.rta_table
  BY <1>2, RewrittenFields
<1> HIDE DEF w, m
<1>5. t # mplsroute_topic(w) /\ t # mroute_topic(w) /\ t # NULL
  <2>1. t # NULL
    BY DEF Topics
  <2> QED  BY <2>1 DEF mplsroute_topic, mroute_topic
<1>6. /\ w.af # "MPLS" /\ w.type \notin {"MULTICAST", "BROADCAST"} /\ ~ w.cloned
      /\ t = <<"r", inet_ntop(w.af, w.dst), w.scope, Attr(w.rta_table, w.table)>>
  BY <1>3, <1>5 DEF route_topic
<1>7. ByDst(r)
  BY <1>4, <1>6 DEF ByDst
<1>8. Scope(r) = "UNIVERSE"
  BY <1>7 DEF KnownScopes, Scope
<1>9. Attr(w.rta_table, w.table) = TableOf(r)
  BY <1>4 DEF TableOf, Table
<1> QED  BY <1>4, <1>6, <1>7, <1>8, <1>9

\* However the two sources describe a route (scope link or universe, the table
\* left out or not, a deletion without a type), process_rtnl brings it to one
\* topic: no destination is in the broker twice, for any routes to a
\* destination that are in one table.
THEOREM DestinationsAreOnce ==
    ASSUME KnownScopes, OneTable
    PROVE  Spec => []NoDuplicates
<1>1. ASSUME NEW t \in Topics, NEW u \in Topics, t[1] = "r", u[1] = "r", t[2] = u[2]
      PROVE  t = u
  <2>1. PICK r \in Routes : ByDst(r) /\ t = <<"r", inet_ntop(r.af, r.dst), "UNIVERSE", TableOf(r)>>
    BY <1>1, TopicByDst
  <2>2. PICK s \in Routes : ByDst(s) /\ u = <<"r", inet_ntop(s.af, s.dst), "UNIVERSE", TableOf(s)>>
    BY <1>1, TopicByDst
  <2>3. inet_ntop(r.af, r.dst) = inet_ntop(s.af, s.dst)
    BY <1>1, <2>1, <2>2
  <2> QED  BY <2>1, <2>2, <2>3 DEF OneTable
<1>2. NoDuplicates
  BY <1>1 DEF NoDuplicates
<1> QED  BY <1>2, PTL
==============================================================================

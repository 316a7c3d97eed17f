------------------------------- MODULE Daemon -------------------------------
(***************************************************************************)
(* daemon/broker_main.c, daemon/broker_process.c and route_topic of        *)
(* broker/topic.c: brokerd.  It merges two streams of route changes, the   *)
(* notifications of the kernel and the FPM messages of zebra, and          *)
(* publishes both to the broker.  When it starts it listens to the kernel  *)
(* first and then dumps the kernel's routes; it exits on any error, and    *)
(* systemd starts it again (Restart=always).                               *)
(*                                                                         *)
(* The broker is abstracted to the priority level at which it holds each   *)
(* topic; RouteBroker is what it does.                                     *)
(***************************************************************************)
EXTENDS Rtnl, Sequences, FiniteSets

CONSTANTS KernelRoutes,  \* the routes the kernel may have
          ZebraRoutes,   \* the routes zebra may announce
          FixedRoutes,   \* the ones among them that do not change
          EarlyRoutes,   \* may routes that are not the kernel's own change
                         \* between bind and SO_ATTACH_FILTER?
          MaxNl,         \* room in the netlink socket
          MaxFpm         \* room in the FPM connection

Fields == {"af", "proto", "scope", "type", "table", "cloned",
           "dst", "src", "iif", "oif", "rta_table", "via"}

ASSUME DaemonAssumption ==
    /\ \A r \in KernelRoutes \cup ZebraRoutes :
          /\ DOMAIN r = Fields
          /\ r.proto \in {"KERNEL", "ZEBRA"}
          /\ r.type # "UNSPEC"
          /\ r.via # NULL
    /\ \A r \in KernelRoutes : r.af \in {"INET", "INET6"}
    /\ \A r \in ZebraRoutes : r.type \notin {"MULTICAST", "BROADCAST"}
    /\ \A S \in SUBSET ZebraRoutes : Cardinality(S) \in Nat
    /\ EarlyRoutes \in BOOLEAN
    /\ MaxNl \in Nat /\ MaxFpm \in Nat
    /\ NULL \notin {ROUTE_CONNECTED, ROUTE_OTHER}

VARIABLES kernel,   \* the kernel's routes
          zebra,    \* zebra's routes
          nl,       \* notifications in the netlink socket
          overrun,  \* one was lost: the next recv fails with ENOBUFS
          fpm,      \* messages in the FPM connection
          pc,       \* where main is
          todo,     \* routes the dump has still to come to
          missed,   \* history: routes with a topic that a dump cut short did not
                    \* come to and that no notification has named since
          ready,    \* the sockets for which poll returned POLLIN
          rib,      \* the level of each topic in the broker, or NULL
          fib       \* where a dataplane forwards each topic that has applied, to
                    \* an empty table, all that this process has published

vars == <<kernel, zebra, nl, overrun, fpm, pc, todo, missed, ready, rib, fib>>
env == <<kernel, zebra>>
tables == <<rib, fib>>

Routes == KernelRoutes \cup ZebraRoutes
Own(S) == {r \in S : r.proto = "KERNEL"}

-----------------------------------------------------------------------------
\* The messages about a route.  The kernel's deletions name the type of the
\* route, zebra's have type UNSPEC.
KernelMsg(cmd, r) == [cmd |-> cmd, pid |-> 0, replace |-> FALSE, rtm |-> r]
ZebraMsg(cmd, r) ==
    [cmd |-> cmd, pid |-> 1, replace |-> FALSE,
     rtm |-> IF cmd = "DEL" THEN [r EXCEPT !.type = "UNSPEC"] ELSE r]

TopicOf(m) == route_topic(Rewritten(m).rtm)
TopicOfRoute == [r \in Routes |-> TopicOf(KernelMsg("NEW", r))]
Topics == {TopicOfRoute[r] : r \in Routes} \ {NULL}

\* The levels after a message: a route moves only to a more urgent level.  A
\* topic that comes with two priorities (Mixed) can drop out of the hash table
\* and then keep its route (PublishedIsFound of RouteBroker); that is not
\* modelled here, and the properties do not speak of those topics.
object_broker_publish(m, p, levels) ==
    LET t == route_topic(m.rtm)
        l == levels[t]
    IN  IF t \notin Topics THEN levels
        ELSE [levels EXCEPT ![t] = CASE m.cmd = "DEL" -> NULL
                                     [] m.cmd = "NEW" /\ l # NULL /\ l < p -> l
                                     [] OTHER -> p]

\* A dataplane discards messages of type UNSPEC, and does not change a route
\* it has unless the message says REPLACE.
Forward(m, routes) ==
    LET t == route_topic(m.rtm)
    IN  IF t \notin Topics \/ m.rtm.type = "UNSPEC" THEN routes
        ELSE [routes EXCEPT ![t] = CASE m.cmd = "DEL" -> NULL
                                     [] m.cmd = "NEW" /\ @ # NULL /\ ~ m.replace -> @
                                     [] OTHER -> m.rtm.via]

process_rtnl(m) ==
    /\ rib' = object_broker_publish(Rewritten(m), Priority(m.rtm), rib)
    /\ fib' = Forward(Rewritten(m), fib)

\* Mutant: the dataplane is not told to replace.
ProcessAsIs(m) == process_rtnl(m)

\* "Must be a replace or dataplane won't update".
process_nlmsg(m) == process_rtnl([m EXCEPT !.replace = m.cmd = "NEW"])

-----------------------------------------------------------------------------
\* zebra has one route to a destination.
ZebraTables ==
    {S \in SUBSET ZebraRoutes :
        \A r, s \in S : TopicOfRoute[r] = TopicOfRoute[s] => r = s}

Init ==
    /\ kernel \in SUBSET KernelRoutes
    /\ zebra \in ZebraTables
    /\ FixedRoutes \subseteq kernel \cup zebra
    /\ nl = <<>>
    /\ overrun = FALSE
    /\ fpm = <<>>
    /\ pc = "fpm"
    /\ todo = {}
    /\ missed = {}
    /\ ready = {}
    /\ rib = [t \in Topics |-> NULL]
    /\ fib = [t \in Topics |-> NULL]

\* Whether the kernel queues a notification about a route.
Heard(r) ==
    \/ pc = "filter"
    \/ pc \in {"dump", "poll", "serve"} /\ r.proto = "KERNEL"

\* The kernel adds the route, or removes it.
KernelChange(r) ==
    /\ pc = "filter" /\ ~ EarlyRoutes => r.proto = "KERNEL"
    /\ kernel' = IF r \in kernel THEN kernel \ {r} ELSE kernel \cup {r}
    /\ nl' = IF Heard(r) /\ Len(nl) < MaxNl
             THEN Append(nl, KernelMsg(IF r \in kernel THEN "DEL" ELSE "NEW", r)) ELSE nl
    /\ overrun' = (overrun \/ (Heard(r) /\ Len(nl) >= MaxNl))
    /\ UNCHANGED <<zebra, fpm, pc, todo, missed, ready, tables>>

\* zebra withdraws the route, or announces it in the place of any other to
\* that destination.  It waits while the connection is full.
ZebraChange(r) ==
    /\ zebra' = IF r \in zebra THEN zebra \ {r}
                ELSE {s \in zebra : TopicOfRoute[s] # TopicOfRoute[r]} \cup {r}
    /\ \/ pc \in {"fpm", "exit"} /\ UNCHANGED fpm
       \/ /\ pc \notin {"fpm", "exit"}
          /\ Len(fpm) < MaxFpm
          /\ fpm' = Append(fpm, ZebraMsg(IF r \in zebra THEN "DEL" ELSE "NEW", r))
    /\ UNCHANGED <<kernel, nl, overrun, pc, todo, missed, ready, tables>>

\* accept: zebra sends what it has, in any order.
broker_fpm_socket ==
    /\ pc = "fpm"
    /\ pc' = "bind"
    /\ \E routes \in [1 .. Cardinality(zebra) -> zebra] :
          /\ \A r \in zebra : \E i \in DOMAIN routes : routes[i] = r
          /\ fpm' = [i \in DOMAIN routes |-> ZebraMsg("NEW", routes[i])]
    /\ UNCHANGED <<env, nl, overrun, todo, missed, ready, tables>>

Bind ==
    /\ pc = "bind"
    /\ pc' = "filter"
    /\ UNCHANGED <<env, nl, overrun, fpm, todo, missed, ready, tables>>

\* SO_ATTACH_FILTER: from now on only the kernel's own routes are heard.
AttachFilter ==
    /\ pc = "filter"
    /\ pc' = "dump"
    /\ todo' = KernelRoutes
    /\ UNCHANGED <<env, nl, overrun, fpm, missed, ready, tables>>

\* broker_dump_routes asks for the IPv4 routes first.
InTurn(r) == r.af = "INET6" => \A s \in todo : s.af # "INET"

\* Mutant: the routes of the dump are not the kernel's own only.
DumpAny(r) ==
    /\ pc = "dump" /\ InTurn(r)
    /\ todo' = todo \ {r}
    /\ IF r \in kernel THEN process_rtnl(KernelMsg("NEW", r)) ELSE UNCHANGED tables
    /\ UNCHANGED <<env, nl, overrun, fpm, pc, missed, ready>>

\* The kernel comes to one route of its dump.
dump_route(r) ==
    /\ pc = "dump" /\ InTurn(r)
    /\ todo' = todo \ {r}
    /\ IF r \in kernel /\ r.proto = "KERNEL"
       THEN process_rtnl(KernelMsg("NEW", r)) ELSE UNCHANGED tables
    /\ UNCHANGED <<env, nl, overrun, fpm, pc, missed, ready>>

DumpDone ==
    /\ pc = "dump"
    /\ todo = {}
    /\ pc' = "poll"
    /\ UNCHANGED <<env, nl, overrun, fpm, todo, missed, ready, tables>>

\* mnl_cb_run finds an error, or the dump marked as interrupted: the loop of
\* dump_af_routes ends and main goes on.  Routes that it had not come to are
\* skipped; the others among them are read by the loop for IPv6, which does not
\* check what it reads is the answer to, and may in turn miss its own.
DumpCutShort ==
    /\ pc = "dump"
    /\ \E skipped \in SUBSET todo :
          /\ todo' = todo \ skipped
          /\ missed' = missed \cup {r \in skipped \cap Own(kernel) : TopicOfRoute[r] # NULL}
    /\ UNCHANGED <<env, nl, overrun, fpm, pc, ready, tables>>

\* A dump that cannot be asked for or received ends the program.
DumpFailed ==
    /\ pc = "dump"
    /\ pc' = "exit"
    /\ UNCHANGED <<env, nl, overrun, fpm, todo, missed, ready, tables>>

\* POLLERR ends the program.
Poll ==
    /\ pc = "poll"
    /\ \/ /\ overrun
          /\ pc' = "exit"
          /\ UNCHANGED ready
       \/ /\ ~ overrun
          /\ ready' = {s \in {"nl", "fpm"} : IF s = "nl" THEN nl # <<>> ELSE fpm # <<>>}
          /\ ready' # {}
          /\ pc' = "serve"
    /\ UNCHANGED <<env, nl, overrun, fpm, todo, missed, tables>>

Served(s) ==
    /\ ready' = ready \ {s}
    /\ pc' = IF ready = {s} THEN "poll" ELSE pc

\* Mutant: a lost notification is not an error.
NlIgnoresError ==
    /\ pc = "serve" /\ "nl" \in ready
    /\ Served("nl")
    /\ process_nlmsg(Head(nl))
    /\ nl' = Tail(nl)
    /\ missed' = missed \ {Head(nl).rtm}
    /\ overrun' = FALSE
    /\ UNCHANGED <<env, fpm, todo>>

broker_process_nl ==
    /\ pc = "serve" /\ "nl" \in ready
    /\ \/ /\ overrun
          /\ pc' = "exit"
          /\ UNCHANGED <<nl, missed, ready, tables>>
       \/ /\ ~ overrun
          /\ Served("nl")
          /\ process_nlmsg(Head(nl))
          /\ nl' = Tail(nl)
          /\ missed' = missed \ {Head(nl).rtm}
    /\ UNCHANGED <<env, overrun, fpm, todo>>

broker_process_fpm ==
    /\ pc = "serve" /\ "nl" \notin ready
    /\ Served("fpm")
    /\ process_nlmsg(Head(fpm))
    /\ fpm' = Tail(fpm)
    /\ UNCHANGED <<env, nl, overrun, todo, missed>>

\* The connection to zebra is closed, or carries a message that is refused.
FpmLost ==
    /\ pc = "poll"
    /\ pc' = "exit"
    /\ UNCHANGED <<env, nl, overrun, fpm, todo, missed, ready, tables>>

\* A new process, with an empty broker that every client reads from the start.
Restart ==
    /\ pc = "exit"
    /\ pc' = "fpm"
    /\ nl' = <<>>
    /\ overrun' = FALSE
    /\ fpm' = <<>>
    /\ todo' = {}
    /\ missed' = {}
    /\ ready' = {}
    /\ rib' = [t \in Topics |-> NULL]
    /\ fib' = [t \in Topics |-> NULL]
    /\ UNCHANGED env

main ==
    \/ broker_fpm_socket \/ Bind \/ AttachFilter
    \/ \E r \in todo : dump_route(r)
    \/ DumpDone \/ Poll \/ broker_process_nl \/ broker_process_fpm \/ Restart

Next ==
    \/ main \/ DumpCutShort \/ DumpFailed \/ FpmLost
    \/ \E r \in KernelRoutes \ FixedRoutes : KernelChange(r)
    \/ \E r \in ZebraRoutes \ FixedRoutes : ZebraChange(r)

Spec == Init /\ [][Next]_vars

\* brokerd and systemd run; zebra connects.
FairSpec == Spec /\ WF_vars(main)

-----------------------------------------------------------------------------
Msgs ==
    {KernelMsg(cmd, r) : cmd \in {"NEW", "DEL"}, r \in KernelRoutes}
    \cup {ZebraMsg(cmd, r) : cmd \in {"NEW", "DEL"}, r \in ZebraRoutes}

TypeOK ==
    /\ kernel \subseteq KernelRoutes
    /\ zebra \in ZebraTables
    /\ nl \in Seq(Msgs) /\ Len(nl) <= MaxNl
    /\ overrun \in BOOLEAN
    /\ fpm \in Seq(Msgs)
    /\ pc \in {"fpm", "bind", "filter", "dump", "poll", "serve", "exit"}
    /\ todo \subseteq KernelRoutes
    /\ missed \subseteq Own(KernelRoutes)
    /\ ready \subseteq {"nl", "fpm"}
    /\ rib \in [Topics -> {NULL, ROUTE_CONNECTED, ROUTE_OTHER}]
    /\ fib \in [Topics -> {NULL} \cup {r.via : r \in Routes}]

\* brokerd has caught up with both of its sources.
Quiet == pc = "poll" /\ nl = <<>> /\ fpm = <<>> /\ ~ overrun

\* The routes a source may have, and the ones it has, for a topic.
May(t) == [kernel |-> {r \in Own(KernelRoutes) : TopicOfRoute[r] = t},
           zebra |-> {r \in ZebraRoutes : TopicOfRoute[r] = t}]
Has(t) == [kernel |-> {r \in Own(kernel) : TopicOfRoute[r] = t},
           zebra |-> {r \in zebra : TopicOfRoute[r] = t}]
\* Every source that may announce t has done so, if nothing is under way.
AllGave(t) ==
    /\ May(t).kernel # {} => Has(t).kernel \ missed # {}
    /\ May(t).zebra # {} => Has(t).zebra # {}
NoneHas(t) == Has(t).kernel = {} /\ Has(t).zebra = {}

\* The topics that may come with two priorities: a destination that is
\* connected for one source and learnt for the other.
Mixed ==
    {t \in Topics : \E r, s \in Own(KernelRoutes) \cup ZebraRoutes :
        TopicOfRoute[r] = t /\ TopicOfRoute[s] = t /\ r.proto = "KERNEL" /\ s.proto # "KERNEL"}

\* When brokerd has caught up, the broker has every route that all the sources
\* that may announce it have, and none that neither has, whatever happened
\* during the dump (broker_dump_routes), after lost notifications or across
\* restarts.  A dump cut short (dump_af_routes) is never made good: what may be
\* missing is the routes that it did not come to and that the kernel has not
\* changed since, and no others.
Converged ==
    Quiet => \A t \in Topics \ Mixed :
        /\ AllGave(t) /\ ~ NoneHas(t) => rib[t] # NULL
        /\ NoneHas(t) => rib[t] = NULL

\* A dataplane that has read everything brokerd published forwards a
\* destination the way one of its sources says now, also after zebra changed
\* or withdrew the route: the rewriting of process_rtnl and the REPLACE flag
\* of process_nlmsg make every message one that it applies.  It may not forward
\* what a dump cut short left out, and never forwards what no source has.
DataplaneFollows ==
    Quiet => \A t \in Topics \ Mixed :
        /\ AllGave(t) /\ ~ NoneHas(t) =>
              fib[t] \in {r.via : r \in Has(t).kernel \cup Has(t).zebra}
        /\ NoneHas(t) => fib[t] = NULL

\* "Just make them all universe scope to avoid duplicates"
\* (broker_process.c:193): no destination is in the broker twice.
NoDuplicates ==
    \A t, u \in {t \in Topics : t[1] = "r" /\ rib[t] # NULL} : t[2] = u[2] => t = u

\* A deletion that brokerd publishes next never has a more urgent priority
\* than the route it deletes (process_rtnl chooses it), unless its topic comes
\* with two priorities: RaisedDeletes of RouteBroker are the topics Mixed.
DeletesNotRaised ==
    \A q \in {nl, fpm} :
        pc = "serve" /\ q # <<>> /\ Head(q).cmd = "DEL" =>
            LET t == TopicOf(Head(q))
            IN  t \in Topics \ Mixed /\ rib[t] # NULL => Priority(Head(q).rtm) >= rib[t]

\* A lost notification is never left at that: brokerd starts over.
Recovers == overrun ~> (pc = "fpm" /\ ~ overrun)
==============================================================================

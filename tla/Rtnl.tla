-------------------------------- MODULE Rtnl --------------------------------
(***************************************************************************)
(* broker/topic.c and process_rtnl of daemon/broker_process.c: what        *)
(* happens to one route message on its way into the broker.  brokerd       *)
(* rewrites it, because the kernel and zebra describe the same route in    *)
(* different ways, and gives it a priority; the broker makes a topic of    *)
(* it, the key under which the newest message is kept.                     *)
(*                                                                         *)
(* A message is a command (cmd), the port of its sender (pid: 0 is the     *)
(* kernel) and a route: the fields of struct rtmsg, and the attributes dst *)
(* (with its length), src, iif, oif, rta_table, each NULL when it is not   *)
(* there.  A topic is the tuple of the values that are printed; its first  *)
(* component is the form of the text, which tells the forms apart.         *)
(***************************************************************************)
EXTENDS Naturals

CONSTANT NULL

ROUTE_CONNECTED == 0
ROUTE_OTHER == 2

\* An attribute, or what stands for it when it is missing.
Attr(a, default) == IF a = NULL THEN default ELSE a

-----------------------------------------------------------------------------
\* Mutants: the priority follows the scope; the one next to it is taken.
PriorityByScope(rtm) == IF rtm.scope = "LINK" THEN ROUTE_CONNECTED ELSE ROUTE_OTHER
PriorityIsNext(rtm) == IF rtm.proto = "KERNEL" THEN ROUTE_CONNECTED + 1 ELSE ROUTE_OTHER

Priority(rtm) == IF rtm.proto = "KERNEL" THEN ROUTE_CONNECTED ELSE ROUTE_OTHER

\* Mutant: the scope is published as it came.
ScopeAsIs(rtm) == rtm.scope

\* The kernel's connected IPv4 routes become universe scope.
Scope(rtm) ==
    IF rtm.proto = "KERNEL" /\ rtm.af = "INET" /\ rtm.scope = "LINK"
    THEN "UNIVERSE" ELSE rtm.scope

\* Mutant: the type is published as it came.
TypeAsIs(m) == m.rtm.type

\* The deletions of zebra, which have no type, become unicast.
Type(m) ==
    IF m.cmd = "DEL" /\ m.pid # 0 /\ m.rtm.type = "UNSPEC" THEN "UNICAST" ELSE m.rtm.type

Table(rtm) == IF rtm.table = "UNSPEC" THEN "MAIN" ELSE rtm.table

\* The message as process_rtnl publishes it.
Rewritten(m) ==
    [m EXCEPT !.rtm = [@ EXCEPT !.scope = Scope(m.rtm),
                                !.type = Type(m),
                                !.table = Table(m.rtm)]]

-----------------------------------------------------------------------------
\* No address is printed as the zero address of the family.
inet_ntop(af, addr) == <<af, Attr(addr, "any")>>

\* Only the families of multicast routing have a text.
mroute_ntop(af, addr) ==
    CASE af = "IPMR" -> inet_ntop("INET", addr)
      [] af = "IP6MR" -> inet_ntop("INET6", addr)
      [] OTHER -> NULL

mroute_topic(rtm) ==
    IF rtm.table = "LOCAL" THEN NULL
    ELSE <<"route", Attr(rtm.iif, 0), Attr(rtm.oif, 0), mroute_ntop(rtm.af, rtm.dst),
           mroute_ntop(rtm.af, rtm.src), Attr(rtm.rta_table, rtm.table)>>

\* The label is the destination.
mplsroute_topic(rtm) == IF rtm.dst = NULL THEN NULL ELSE <<"route-mpls", rtm.dst>>

\* NULL: object_broker_publish drops the message.
route_topic(rtm) ==
    IF rtm.af = "MPLS" THEN mplsroute_topic(rtm)
    ELSE IF rtm.type = "MULTICAST" THEN mroute_topic(rtm)
    ELSE IF rtm.type = "BROADCAST" \/ rtm.cloned THEN NULL
    ELSE <<"r", inet_ntop(rtm.af, rtm.dst), rtm.scope, Attr(rtm.rta_table, rtm.table)>>
==============================================================================

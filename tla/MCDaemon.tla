------------------------------ MODULE MCDaemon ------------------------------
(* A small instance of Daemon. *)
EXTENDS Daemon

Route(dst, af, proto, scope, type, table, rta_table, via) ==
    [dst |-> dst, af |-> af, proto |-> proto, scope |-> scope, type |-> type,
     table |-> table, rta_table |-> rta_table, via |-> via, cloned |-> FALSE,
     src |-> NULL, iif |-> NULL, oif |-> NULL]

\* A connected route as the kernel and as zebra have it, one that only the
\* kernel has, a default route of zebra's through either of two gateways, the
\* first of which is also installed in the kernel, and a route without a topic.
Connected == Route("d1", "INET", "KERNEL", "LINK", "UNICAST", "MAIN", "MAIN", "eth0")
FpmConnected == Route("d1", "INET", "KERNEL", "UNIVERSE", "UNICAST", "UNSPEC", NULL, "eth0")
Local == Route("d2", "INET6", "KERNEL", "UNIVERSE", "UNICAST", "MAIN", "MAIN", "eth0")
Static1 == Route(NULL, "INET6", "ZEBRA", "UNIVERSE", "UNICAST", "UNSPEC", NULL, "gw1")
Static2 == [Static1 EXCEPT !.via = "gw2"]
Installed == [Static1 EXCEPT !.table = "MAIN", !.rta_table = "MAIN"]
Broadcast == Route("d1", "INET", "KERNEL", "LINK", "BROADCAST", "LOCAL", "LOCAL", "eth0")

MCKernelRoutes == {Connected, Local, Installed, Broadcast}
MCZebraRoutes == {FpmConnected, Static1, Static2}
MCFixedRoutes == {Broadcast, Installed}
==============================================================================

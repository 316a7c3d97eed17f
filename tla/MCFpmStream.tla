---------------------------- MODULE MCFpmStream ----------------------------
(* A small instance of FpmStream. *)
EXTENDS FpmStream

Nlmsg(type, nlmsg_len, size) == [nlmsg_type |-> type, nlmsg_len |-> nlmsg_len, size |-> size]
Frame(version, type, msg_len, nlmsgs) ==
    [version |-> version, msg_type |-> type, msg_len |-> msg_len, nlmsgs |-> nlmsgs]

New == Nlmsg("NEWROUTE", 28, 28)
NewPadded == Nlmsg("NEWROUTE", 29, 32)
Del == Nlmsg("DELROUTE", 28, 28)
Short == Nlmsg("NEWROUTE", 16, 16)
Other == Nlmsg("OTHER", 16, 16)
TooLong == Nlmsg("NEWROUTE", 80, 28)

\* Frames that are accepted: without a message, with one or two, with padding,
\* and with messages that are ignored or end the walk.
Good == {Frame(1, "NETLINK", 4, <<>>),
         Frame(1, "NETLINK", 32, <<New>>),
         Frame(1, "NETLINK", 64, <<NewPadded, Del>>),
         Frame(1, "NETLINK", 48, <<Short, New>>),
         Frame(1, "NETLINK", 48, <<Other, Del>>),
         Frame(1, "NETLINK", 60, <<TooLong, New>>)}

\* Frames that are refused.
Refused == {Frame(1, "NETLINK", 33, <<Nlmsg("NEWROUTE", 29, 29)>>),
            Frame(2, "NETLINK", 32, <<New>>),
            Frame(1, "PROTOBUF", 32, <<New>>),
            Frame(1, "NONE", 32, <<New>>),
            Frame(1, "NETLINK", 3, <<>>),
            Frame(1, "NETLINK", 92, <<New, New, NewPadded>>)}

MCFrames == Good \cup Refused
==============================================================================

----------------------------- MODULE DpSessions -----------------------------
(***************************************************************************)
(* broker/route_broker_dp_ctrl.c and broker/route_broker_dp_data.c: the    *)
(* sessions with the dataplanes.  One control thread reads the requests of *)
(* all dataplanes, and for each dataplane that connects starts a data      *)
(* thread (an actor) that binds a socket of its own, returns its endpoint  *)
(* and publishes routes on it until it is told $TERM.  The control thread  *)
(* waits for the actors it starts and stops, as zactor_new, zstr_recv and  *)
(* zactor_destroy do.                                                      *)
(*                                                                         *)
(* A thread stands for the socket it binds and for its endpoint as well.   *)
(***************************************************************************)
EXTENDS Naturals, Sequences

CONSTANTS Uuids,    \* the dataplanes
          Threads,  \* identities of data threads, used again after they end
          NULL,
          MaxInbox  \* bound on the requests that wait in the control socket

ASSUME DpAssumption == /\ NULL \notin Threads \cup Uuids
                       /\ MaxInbox \in Nat

VARIABLES inbox,        \* requests received and not yet read
          url,          \* the endpoint each dataplane was last given, "gone" if it
                        \* has connected again since and got no answer
          dp_uuid_ht,   \* the actor (dp->ipc) of each known dataplane
          ctrl,         \* where the control thread is
          dp,           \* the dataplane it is handling
          ipc,          \* the actor it is waiting for
          shutdown,     \* $TERM has been sent to the control thread
          pc,           \* where each data thread is
          term,         \* data threads with $TERM in their pipe
          open,         \* sockets that are bound
          dp_data_sock  \* the static variable of broker_dp_data_client

vars == <<inbox, url, dp_uuid_ht, ctrl, dp, ipc, shutdown, pc, term, open, dp_data_sock>>
ctrlVars == <<inbox, url, dp_uuid_ht, ctrl, dp, ipc, shutdown>>

Requests == [req : {"CONNECT", "KEEPALIVE", "ERROR"}, uuid : Uuids]

Known == {u \in Uuids : dp_uuid_ht[u] # NULL}

Running == {t \in Threads : pc[t] \notin {"none", "ended"}}

Init ==
    /\ inbox = <<>>
    /\ url = [u \in Uuids |-> NULL]
    /\ dp_uuid_ht = [u \in Uuids |-> NULL]
    /\ ctrl = "init"
    /\ dp = NULL
    /\ ipc = NULL
    /\ shutdown = FALSE
    /\ pc = [t \in Threads |-> "none"]
    /\ term = {}
    /\ open = {}
    /\ dp_data_sock = NULL

-----------------------------------------------------------------------------
(* The dataplanes, and the thread that shuts the broker down. *)

\* "ERROR" is any message that broker_dp_ctrl_msg_parse refuses.
Request(r) ==
    /\ Len(inbox) < MaxInbox
    /\ inbox' = Append(inbox, r)
    /\ UNCHANGED <<url, dp_uuid_ht, ctrl, dp, ipc, shutdown, pc, term, open, dp_data_sock>>

\* A dataplane restarts, or loses the endpoint it was given.
Forget(u) ==
    /\ url[u] # NULL
    /\ url' = [url EXCEPT ![u] = NULL]
    /\ UNCHANGED <<inbox, dp_uuid_ht, ctrl, dp, ipc, shutdown, pc, term, open, dp_data_sock>>

route_broker_dataplane_ctrl_shutdown ==
    /\ ~ shutdown
    /\ shutdown' = TRUE
    /\ UNCHANGED <<inbox, url, dp_uuid_ht, ctrl, dp, ipc, pc, term, open, dp_data_sock>>

-----------------------------------------------------------------------------
(* The control thread. *)

\* The control socket cannot be created, bound or made accessible: the
\* thread returns.
broker_dp_ctrl ==
    /\ ctrl = "init"
    /\ ctrl' \in {"loop", "done"}
    /\ UNCHANGED <<inbox, url, dp_uuid_ht, dp, ipc, shutdown, pc, term, open, dp_data_sock>>

\* The request at the head of the inbox, which the step removes.
process_ctrl_message(req) ==
    /\ ctrl = "loop"
    /\ inbox # <<>>
    /\ Head(inbox).req = req
    /\ inbox' = Tail(inbox)

\* A request without effect: one that is refused, or a KEEPALIVE whose answer
\* cannot be built or sent.
Ignored ==
    /\ process_ctrl_message("ERROR")
    /\ UNCHANGED <<url, dp_uuid_ht, ctrl, dp, ipc, shutdown, pc, term, open, dp_data_sock>>

\* Mutant: an unknown dataplane is not answered.
NoReconnect ==
    /\ process_ctrl_message("KEEPALIVE")
    /\ UNCHANGED <<url, dp_uuid_ht, ctrl, dp, ipc, shutdown, pc, term, open, dp_data_sock>>

\* A known dataplane gets no answer, an unknown one RECONNECT: it drops the
\* endpoint it had.
process_keepalive_message ==
    /\ process_ctrl_message("KEEPALIVE")
    /\ url' = IF Head(inbox).uuid \in Known THEN url
              ELSE [url EXCEPT ![Head(inbox).uuid] = NULL]
    /\ UNCHANGED <<dp_uuid_ht, ctrl, dp, ipc, shutdown, pc, term, open, dp_data_sock>>

\* Mutant: the session stays in the hash table.
CloseKeepsEntry(u, then) ==
    /\ term' = term \cup {dp_uuid_ht[u]}
    /\ ipc' = dp_uuid_ht[u]
    /\ ctrl' = then
    /\ UNCHANGED dp_uuid_ht

\* zhash_delete, then zactor_destroy: send $TERM and wait.
close_dp_session(u, then) ==
    /\ dp_uuid_ht' = [dp_uuid_ht EXCEPT ![u] = NULL]
    /\ term' = term \cup {dp_uuid_ht[u]}
    /\ ipc' = dp_uuid_ht[u]
    /\ ctrl' = then

\* Mutant: the old session is not closed.
ConnectAgain ==
    /\ process_ctrl_message("CONNECT")
    /\ dp' = Head(inbox).uuid
    /\ ctrl' = "create"
    /\ UNCHANGED <<dp_uuid_ht, ipc, term, url, shutdown, pc, open, dp_data_sock>>

process_connect_message ==
    /\ process_ctrl_message("CONNECT")
    /\ dp' = Head(inbox).uuid
    /\ \/ /\ Head(inbox).uuid \in Known
          /\ close_dp_session(Head(inbox).uuid, "closing")
       \/ /\ Head(inbox).uuid \notin Known
          /\ ctrl' = "create"
          /\ UNCHANGED <<dp_uuid_ht, ipc, term>>
    /\ UNCHANGED <<url, shutdown, pc, open, dp_data_sock>>

\* zactor_destroy returns when the actor has.
stop_old_dp_thread ==
    /\ ctrl \in {"closing", "closingAll"}
    /\ pc[ipc] = "ended"
    /\ pc' = [pc EXCEPT ![ipc] = "none"]
    /\ ipc' = NULL
    /\ ctrl' = IF ctrl = "closing" THEN "create" ELSE "closeAll"
    /\ UNCHANGED <<inbox, url, dp_uuid_ht, dp, shutdown, term, open, dp_data_sock>>

\* The session cannot be allocated.
NoMemory ==
    /\ ctrl = "create"
    /\ ctrl' = "loop"
    /\ dp' = NULL
    /\ UNCHANGED <<inbox, url, dp_uuid_ht, ipc, shutdown, pc, term, open, dp_data_sock>>

\* dp_insert, zactor_new.
start_new_dp_data_thread ==
    /\ ctrl = "create"
    /\ \E t \in Threads :
          /\ pc[t] = "none"
          /\ pc' = [pc EXCEPT ![t] = "start"]
          /\ ipc' = t
          /\ dp_uuid_ht' = [dp_uuid_ht EXCEPT ![dp] = t]
    /\ ctrl' = "starting"
    /\ UNCHANGED <<inbox, url, dp, shutdown, term, open, dp_data_sock>>

\* zstr_recv: the actor has sent its endpoint.  ACCEPT is sent, or cannot be
\* built or sent, which process_connect_message ignores: the session stays.
broker_dp_ctrl_msg_accept ==
    /\ ctrl = "starting"
    /\ pc[ipc] # "start"
    /\ \E endpoint \in {ipc, IF url[dp] = NULL THEN NULL ELSE "gone"} :
          url' = [url EXCEPT ![dp] = endpoint]
    /\ ctrl' = "loop"
    /\ dp' = NULL
    /\ ipc' = NULL
    /\ UNCHANGED <<inbox, dp_uuid_ht, shutdown, pc, term, open, dp_data_sock>>

process_actor_message ==
    /\ ctrl = "loop"
    /\ shutdown
    /\ ctrl' = "closeAll"
    /\ UNCHANGED <<inbox, url, dp_uuid_ht, dp, ipc, shutdown, pc, term, open, dp_data_sock>>

close_all_dp_sessions ==
    /\ ctrl = "closeAll"
    /\ \/ \E u \in Known : close_dp_session(u, "closingAll")
       \/ /\ Known = {}
          /\ ctrl' = "done"
          /\ UNCHANGED <<dp_uuid_ht, ipc, term>>
    /\ UNCHANGED <<inbox, url, dp, shutdown, pc, open, dp_data_sock>>

-----------------------------------------------------------------------------
(* The data threads. *)

\* The client is created, the socket bound, the endpoint sent.
broker_dp_data_init(t) ==
    /\ pc[t] = "start"
    /\ pc' = [pc EXCEPT ![t] = "get"]
    /\ open' = open \cup {t}
    /\ dp_data_sock' = t
    /\ UNCHANGED <<ctrlVars, term>>

\* client_needs_restart takes $TERM out of the pipe.
StopOr(t, loc) ==
    /\ pc' = [pc EXCEPT ![t] = IF t \in term THEN "stop" ELSE loc]
    /\ term' = term \ {t}
    /\ UNCHANGED <<ctrlVars, open, dp_data_sock>>

GotData(t) ==
    /\ pc[t] = "get"
    /\ pc' = [pc EXCEPT ![t] = "send"]
    /\ UNCHANGED <<ctrlVars, term, open, dp_data_sock>>

NoData(t) == pc[t] = "get" /\ StopOr(t, "get")

Sent(t) == pc[t] = "send" /\ dp_data_sock # NULL /\ StopOr(t, "get")

\* Mutant: a thread that cannot send does not look at its pipe.
RetryForever(t) == pc[t] = "send" /\ UNCHANGED vars

\* The dataplane does not take the route: try again after 10 ms.
SendFailed(t) == pc[t] = "send" /\ StopOr(t, "send")

\* Mutant: the client is deleted and the socket is not.
StopNoDestroy(t) ==
    /\ pc[t] = "stop"
    /\ pc' = [pc EXCEPT ![t] = "ended"]
    /\ UNCHANGED <<ctrlVars, term, open, dp_data_sock>>

\* zsock_destroy closes the socket of the static variable and clears it.
StopClient(t) ==
    /\ pc[t] = "stop"
    /\ pc' = [pc EXCEPT ![t] = "ended"]
    /\ open' = open \ {dp_data_sock}
    /\ dp_data_sock' = NULL
    /\ UNCHANGED <<ctrlVars, term>>

CtrlStep ==
    \/ broker_dp_ctrl \/ Ignored
    \/ process_keepalive_message
    \/ process_connect_message
    \/ stop_old_dp_thread
    \/ NoMemory \/ start_new_dp_data_thread
    \/ broker_dp_ctrl_msg_accept
    \/ close_all_dp_sessions

DataStep(t) ==
    \/ broker_dp_data_init(t)
    \/ GotData(t) \/ NoData(t)
    \/ Sent(t) \/ SendFailed(t)
    \/ StopClient(t)

Next ==
    \/ \E r \in Requests : Request(r)
    \/ \E u \in Uuids : Forget(u)
    \/ route_broker_dataplane_ctrl_shutdown
    \/ process_actor_message
    \/ CtrlStep
    \/ \E t \in Threads : DataStep(t)

Spec == Init /\ [][Next]_vars

\* What a data thread does whether or not there is data, and whether or not
\* the dataplane takes it.
DataRuns(t) == broker_dp_data_init(t) \/ NoData(t) \/ SendFailed(t) \/ StopClient(t)

-----------------------------------------------------------------------------
TypeOK ==
    /\ inbox \in Seq(Requests) /\ Len(inbox) <= MaxInbox
    /\ url \in [Uuids -> Threads \cup {NULL, "gone"}]
    /\ dp_uuid_ht \in [Uuids -> Threads \cup {NULL}]
    /\ ctrl \in {"init", "loop", "closing", "create", "starting",
                 "closeAll", "closingAll", "done"}
    /\ dp \in Uuids \cup {NULL}
    /\ ipc \in Threads \cup {NULL}
    /\ shutdown \in BOOLEAN
    /\ pc \in [Threads -> {"none", "start", "get", "send", "stop", "ended"}]
    /\ term \in SUBSET Threads
    /\ open \in SUBSET Threads
    /\ dp_data_sock \in Threads \cup {NULL}

\* Every data thread that runs belongs to one known dataplane, or the control
\* thread is waiting for it to end: process_connect_message and
\* close_all_dp_sessions leave no thread behind that nobody can stop.
NoOrphanThread ==
    \A t \in Running :
        \/ \E u \in Known : /\ dp_uuid_ht[u] = t
                            /\ \A v \in Known \ {u} : dp_uuid_ht[v] # t
        \/ ctrl \in {"closing", "closingAll"} /\ ipc = t

\* Between requests, the thread of a known dataplane runs, and the endpoint
\* that the dataplane has, if it has one, is the endpoint of that thread, unless
\* the ACCEPT that names it was not sent (process_connect_message ignores that,
\* and KEEPALIVE does not tell a dataplane that is known).
AcceptedIsServed ==
    ctrl = "loop" =>
        \A u \in Known : dp_uuid_ht[u] \in Running /\ url[u] \in {NULL, "gone", dp_uuid_ht[u]}

\* "Send ep back to ctrl thread so it can send it to DP"
\* (route_broker_dp_data.c:109): a data thread publishes on the socket whose
\* endpoint it returned, and that socket is open.
PublishesOnItsEndpoint ==
    \A t \in Threads : pc[t] = "send" => dp_data_sock = t /\ t \in open

\* After shutdown no data thread runs, so no one uses the broker when
\* object_broker_shutdown_all goes on to destroy it, and no socket is open.
DoneMeansStopped == ctrl = "done" => Running = {} /\ open = {}

\* The control thread never waits for a data thread for ever, even for one
\* whose dataplane has stopped reading.
CtrlNeverStuck == (ctrl \in {"closing", "starting", "closingAll"}) ~> (ctrl \in {"loop", "closeAll"})

\* A dataplane that has an endpoint and is not known, because the broker ran
\* out of memory for its new session, finds out or is connected again, unless
\* the broker shuts down.
ForgottenFindsOut ==
    \A u \in Uuids : (url[u] # NULL /\ u \notin Known) ~> (url[u] = NULL \/ u \in Known \/ shutdown)
==============================================================================

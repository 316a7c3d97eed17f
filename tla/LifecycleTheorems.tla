-------------------------- MODULE LifecycleTheorems --------------------------
(***************************************************************************)
(* The sessions with any number of dataplanes, and the start and end of    *)
(* the library around them: no data thread escapes the control thread, and *)
(* no broker is freed while a thread may use it.                           *)
(***************************************************************************)
EXTENDS Lifecycle, TLAPS

Closing == ctrl \in {"closing", "closingAll"}

\* A data thread exists exactly while a known dataplane has it, or the control
\* thread waits for its end; no two dataplanes have the same.
Owned ==
    /\ \A u, v \in Known : u # v => dp_uuid_ht[u] # dp_uuid_ht[v]
    /\ \A t \in Threads : pc[t] # "none" <=>
          (\E u \in Known : dp_uuid_ht[u] = t) \/ (Closing /\ ipc = t)

\* Only a thread that the control thread waits for has been told $TERM, and it
\* takes $TERM out of its pipe when it stops.
Stopping ==
    /\ \A t \in term : Closing /\ ipc = t
    /\ \A t \in Threads : pc[t] \in {"stop", "ended"} => Closing /\ ipc = t /\ t \notin term

\* What the control thread works on while it waits or connects a dataplane.
AtWork ==
    /\ Closing => ipc \in Threads /\ \A u \in Known : dp_uuid_ht[u] # ipc
    /\ ctrl \in {"closing", "create"} => dp \in Uuids /\ dp_uuid_ht[dp] = NULL
    /\ ctrl = "starting" => dp \in Uuids /\ ipc \in Threads /\ dp_uuid_ht[dp] = ipc
    /\ ctrl \in {"init", "done"} => Known = {}

\* The endpoint of a known dataplane is the one of its thread, or none; not so
\* while its new thread starts.
Served ==
    \A u \in Known : url[u] \in {NULL, "gone", dp_uuid_ht[u]} \/ (ctrl = "starting" /\ u = dp)

DpInv == TypeOK /\ Owned /\ Stopping /\ AtWork /\ Served

\* No thread exists before the first request.
LEMMA DpInit == Init => DpInv
<1> SUFFICES ASSUME Init PROVE DpInv
  OBVIOUS
<1>1. TypeOK
  <2>1. inbox \in Seq(Requests) /\ Len(inbox) = 0
    BY DEF Init
  <2>2. shutdown \in BOOLEAN
    BY Zenon DEF Init
  <2> QED  BY <2>1, <2>2, DpAssumption DEF Init, TypeOK
<1>2. Known = {} /\ ~ Closing
  BY DEF Init, Known, Closing
<1> QED
  BY <1>1, <1>2 DEF Init, DpInv, Owned, Stopping, AtWork, Served

\* What arrives from the dataplanes, and $TERM, touches no thread.
LEMMA OutsideStep ==
    ASSUME DpInv,
           \/ \E r \in Requests : Request(r)
           \/ \E u \in Uuids : Forget(u)
           \/ route_broker_dataplane_ctrl_shutdown
    PROVE  DpInv'
<1>1. CASE \E r \in Requests : Request(r)
  <2>1. PICK r \in Requests : Request(r)
    BY <1>1
  <2>2. TypeOK'
    BY <2>1, DpAssumption DEF DpInv, TypeOK, Request
  <2> QED
    BY <2>1, <2>2 DEF DpInv, Request, Owned, Stopping, AtWork, Served, Closing, Known
<1>2. CASE \E u \in Uuids : Forget(u)
  <2>1. PICK u \in Uuids : Forget(u)
    BY <1>2
  <2>2. TypeOK'
    BY <2>1 DEF DpInv, TypeOK, Forget
  <2>3. Served'
    BY <2>1 DEF DpInv, TypeOK, Forget, Served, Known
  <2> QED
    BY <2>1, <2>2, <2>3 DEF DpInv, Forget, Owned, Stopping, AtWork, Closing, Known
<1>3. CASE route_broker_dataplane_ctrl_shutdown
  BY <1>3 DEF route_broker_dataplane_ctrl_shutdown, DpInv, TypeOK, Owned, Stopping,
              AtWork, Served, Closing, Known
<1> QED
  BY <1>1, <1>2, <1>3

\* Closing a session hands its thread over to the control thread.
LEMMA CloseStep ==
    ASSUME DpInv, ~ Closing, ctrl # "starting",
           NEW u \in Known, NEW then \in {"closing", "closingAll"},
           close_dp_session(u, then), pc' = pc, url' = url
    PROVE  /\ Owned' /\ Stopping' /\ Served'
           /\ ipc' \in Threads
           /\ \A v \in Known' : dp_uuid_ht'[v] # ipc'
           /\ dp_uuid_ht' \in [Uuids -> Threads \cup {NULL}]
           /\ dp_uuid_ht'[u] = NULL
           /\ term' \in SUBSET Threads
<1>1. /\ dp_uuid_ht \in [Uuids -> Threads \cup {NULL}]
      /\ u \in Uuids /\ dp_uuid_ht[u] \in Threads
      /\ term = {}
  BY DEF DpInv, TypeOK, Known, Stopping
<1>2. /\ dp_uuid_ht' = [dp_uuid_ht EXCEPT ![u] = NULL]
      /\ term' = term \cup {dp_uuid_ht[u]}
      /\ ipc' = dp_uuid_ht[u]
      /\ Closing'
  BY DEF close_dp_session, Closing
<1>3. /\ Known' = Known \ {u}
      /\ \A v \in Known' : v \in Uuids /\ v # u /\ dp_uuid_ht'[v] = dp_uuid_ht[v]
  BY <1>1, <1>2 DEF Known
<1>4. \A v \in Known' : dp_uuid_ht'[v] # ipc'
  BY <1>2, <1>3 DEF DpInv, Owned
<1>5. Owned'
  <2>1. \A v, w \in Known' : v # w => dp_uuid_ht'[v] # dp_uuid_ht'[w]
    BY <1>3 DEF DpInv, Owned
  <2>2. ASSUME NEW t \in Threads
        PROVE  pc'[t] # "none" <=>
                  (\E v \in Known' : dp_uuid_ht'[v] = t) \/ (Closing' /\ ipc' = t)
    <3>1. pc[t] # "none" <=> \E v \in Known : dp_uuid_ht[v] = t
      BY DEF DpInv, Owned
    <3> QED  BY <1>2, <1>3, <3>1
  <2> QED  BY <2>1, <2>2 DEF Owned
<1>6. Stopping'
  BY <1>1, <1>2 DEF DpInv, Stopping
<1>7. Served'
  BY <1>3 DEF DpInv, Served
<1> QED
  BY <1>1, <1>2, <1>4, <1>5, <1>6, <1>7

\* Every step of the control thread keeps the threads owned.
LEMMA CtrlStepInv ==
    ASSUME DpInv, CtrlStep \/ process_actor_message
    PROVE  DpInv'
<1>0. ASSUME inbox # <<>>
      PROVE  /\ Head(inbox).uuid \in Uuids
             /\ Tail(inbox) \in Seq(Requests)
             /\ Len(Tail(inbox)) <= MaxInbox
  <2>1. inbox \in Seq(Requests) /\ Len(inbox) <= MaxInbox
    BY DEF DpInv, TypeOK
  <2>2. Head(inbox) \in Requests /\ Tail(inbox) \in Seq(Requests)
    BY <1>0, <2>1
  <2>3. Len(Tail(inbox)) = Len(inbox) - 1 /\ Len(inbox) \in Nat
    BY <1>0, <2>1
  <2> QED  BY <2>1, <2>2, <2>3, DpAssumption DEF Requests
<1>1. CASE broker_dp_ctrl
  BY <1>1 DEF broker_dp_ctrl, DpInv, TypeOK, Owned, Stopping, AtWork, Served, Closing, Known
<1>2. CASE Ignored
  <2>1. TypeOK'
    BY <1>0, <1>2 DEF Ignored, process_ctrl_message, DpInv, TypeOK
  <2> QED
    BY <1>2, <2>1 DEF Ignored, DpInv, Owned, Stopping, AtWork, Served, Closing, Known
<1>3. CASE process_keepalive_message
  <2>1. TypeOK'
    BY <1>0, <1>3 DEF process_keepalive_message, process_ctrl_message, DpInv, TypeOK
  <2>2. Served'
    BY <1>0, <1>3 DEF process_keepalive_message, process_ctrl_message, DpInv, TypeOK, Served, Known
  <2> QED
    BY <1>3, <2>1, <2>2
       DEF process_keepalive_message, DpInv, Owned, Stopping, AtWork, Closing, Known
<1>4. CASE process_connect_message
  <2> DEFINE u == Head(inbox).uuid
  <2>1. /\ ctrl = "loop" /\ dp' = u /\ u \in Uuids
        /\ inbox' = Tail(inbox) /\ inbox' \in Seq(Requests) /\ Len(inbox') <= MaxInbox
        /\ url' = url /\ shutdown' = shutdown /\ pc' = pc
        /\ open' = open /\ dp_data_sock' = dp_data_sock
        /\ \/ u \in Known /\ close_dp_session(u, "closing")
           \/ /\ u \notin Known /\ ctrl' = "create"
              /\ dp_uuid_ht' = dp_uuid_ht /\ ipc' = ipc /\ term' = term
    BY <1>0, <1>4 DEF process_connect_message, process_ctrl_message
  <2> HIDE DEF u
  <2>2. CASE u \in Known /\ close_dp_session(u, "closing")
    <3>1. ~ Closing /\ ctrl # "starting" /\ ctrl' = "closing"
      BY <2>1, <2>2 DEF Closing, close_dp_session
    <3>2. /\ Owned' /\ Stopping' /\ Served'
          /\ ipc' \in Threads
          /\ \A v \in Known' : dp_uuid_ht'[v] # ipc'
          /\ dp_uuid_ht' \in [Uuids -> Threads \cup {NULL}]
          /\ dp_uuid_ht'[u] = NULL
          /\ term' \in SUBSET Threads
      BY <2>1, <2>2, <3>1, CloseStep
    <3>3. TypeOK'
      BY <2>1, <3>1, <3>2 DEF DpInv, TypeOK
    <3>4. AtWork'
      BY <2>1, <3>1, <3>2 DEF AtWork
    <3> QED  BY <3>2, <3>3, <3>4 DEF DpInv
  <2>3. CASE u \notin Known /\ ctrl' = "create"
             /\ dp_uuid_ht' = dp_uuid_ht /\ ipc' = ipc /\ term' = term
    <3>1. TypeOK'
      BY <2>1, <2>3 DEF DpInv, TypeOK
    <3>2. AtWork'
      BY <2>1, <2>3 DEF AtWork, Closing, Known
    <3> QED
      BY <2>1, <2>3, <3>1, <3>2 DEF DpInv, Owned, Stopping, Served, Closing, Known
  <2> QED  BY <2>1, <2>2, <2>3
<1>5. CASE stop_old_dp_thread
  <2>1. /\ Closing /\ ~ Closing' /\ pc[ipc] = "ended"
        /\ ctrl' \in {"create", "closeAll"}
        /\ ctrl' = "create" => ctrl = "closing"
        /\ pc' = [pc EXCEPT ![ipc] = "none"]
        /\ ipc' = NULL /\ Known' = Known
        /\ UNCHANGED <<inbox, url, dp_uuid_ht, dp, shutdown, term, open, dp_data_sock>>
    BY <1>5 DEF stop_old_dp_thread, Closing, Known
  <2>2. /\ ipc \in Threads /\ pc'[ipc] = "none"
        /\ \A t \in Threads \ {ipc} : pc'[t] = pc[t]
        /\ \A u \in Known : dp_uuid_ht[u] # ipc
    BY <2>1 DEF DpInv, TypeOK, AtWork
  <2>3. TypeOK'
    BY <2>1, <2>2 DEF DpInv, TypeOK
  <2>4. Owned'
    BY <2>1, <2>2 DEF DpInv, Owned
  <2>5. Stopping'
    <3>1. term = {}
      BY <2>1, <2>2 DEF DpInv, Stopping
    <3> QED  BY <2>1, <2>2, <3>1 DEF DpInv, Stopping
  <2>6. AtWork' /\ Served'
    BY <2>1 DEF DpInv, AtWork, Served, Closing
  <2> QED  BY <2>3, <2>4, <2>5, <2>6 DEF DpInv
<1>6. CASE NoMemory
  <2>1. /\ ctrl = "create" /\ ctrl' = "loop" /\ dp' = NULL
        /\ ~ Closing /\ ~ Closing' /\ Known' = Known
        /\ UNCHANGED <<inbox, url, dp_uuid_ht, ipc, shutdown, pc, term, open, dp_data_sock>>
    BY <1>6 DEF NoMemory, Closing, Known
  <2>2. TypeOK'
    BY <2>1 DEF DpInv, TypeOK
  <2> QED  BY <2>1, <2>2 DEF DpInv, Owned, Stopping, AtWork, Served
<1>7. CASE start_new_dp_data_thread
  <2>1. PICK t \in Threads :
           /\ pc[t] = "none"
           /\ pc' = [pc EXCEPT ![t] = "start"]
           /\ ipc' = t
           /\ dp_uuid_ht' = [dp_uuid_ht EXCEPT ![dp] = t]
    BY <1>7 DEF start_new_dp_data_thread
  <2>2. /\ ctrl = "create" /\ ctrl' = "starting" /\ ~ Closing /\ ~ Closing'
        /\ UNCHANGED <<inbox, url, dp, shutdown, term, open, dp_data_sock>>
    BY <1>7 DEF start_new_dp_data_thread, Closing
  <2>3. /\ dp \in Uuids /\ dp \notin Known /\ t # NULL
        /\ dp_uuid_ht \in [Uuids -> Threads \cup {NULL}]
    BY <2>2, DpAssumption DEF DpInv, AtWork, TypeOK, Known
  <2>4. /\ Known' = Known \cup {dp}
        /\ dp_uuid_ht'[dp] = t
        /\ \A u \in Known : u # dp /\ dp_uuid_ht'[u] = dp_uuid_ht[u]
    BY <2>1, <2>3 DEF Known
  <2>5. /\ pc'[t] = "start"
        /\ \A x \in Threads \ {t} : pc'[x] = pc[x]
    BY <2>1 DEF DpInv, TypeOK
  <2>6. \A u \in Known : dp_uuid_ht[u] # t
    BY <2>1 DEF DpInv, Owned
  <2>7. TypeOK'
    BY <2>1, <2>2, <2>3 DEF DpInv, TypeOK
  <2>8. Owned'
    <3>1. \A u, v \in Known' : u # v => dp_uuid_ht'[u] # dp_uuid_ht'[v]
      BY <2>4, <2>6 DEF DpInv, Owned
    <3>2. ASSUME NEW x \in Threads
          PROVE  pc'[x] # "none" <=>
                    (\E u \in Known' : dp_uuid_ht'[u] = x) \/ (Closing' /\ ipc' = x)
      <4>1. pc[x] # "none" <=> \E u \in Known : dp_uuid_ht[u] = x
        BY <2>2 DEF DpInv, Owned
      <4> QED  BY <2>2, <2>4, <2>5, <4>1
    <3> QED  BY <3>1, <3>2 DEF Owned
  <2>9. Stopping'
    BY <2>1, <2>2, <2>5 DEF DpInv, Stopping
  <2>10. AtWork'
    BY <2>1, <2>2, <2>3, <2>4 DEF AtWork
  <2>11. Served'
    BY <2>2, <2>4 DEF DpInv, Served
  <2> QED  BY <2>7, <2>8, <2>9, <2>10, <2>11 DEF DpInv
<1>8. CASE broker_dp_ctrl_msg_accept
  <2>1. /\ ctrl = "starting" /\ ctrl' = "loop" /\ dp' = NULL /\ ipc' = NULL
        /\ \E endpoint \in {ipc, NULL, "gone"} : url' = [url EXCEPT ![dp] = endpoint]
        /\ ~ Closing /\ ~ Closing' /\ Known' = Known
        /\ UNCHANGED <<inbox, dp_uuid_ht, shutdown, pc, term, open, dp_data_sock>>
    BY <1>8 DEF broker_dp_ctrl_msg_accept, Closing, Known
  <2>2. /\ dp \in Uuids /\ ipc \in Threads /\ dp_uuid_ht[dp] = ipc
        /\ url \in [Uuids -> Threads \cup {NULL, "gone"}]
    BY <2>1 DEF DpInv, AtWork, TypeOK
  <2>3. TypeOK'
    BY <2>1, <2>2 DEF DpInv, TypeOK
  <2>4. Served'
    BY <2>1, <2>2 DEF DpInv, Served, Known
  <2> QED  BY <2>1, <2>3, <2>4 DEF DpInv, Owned, Stopping, AtWork
<1>9. CASE process_actor_message
  <2>1. /\ ctrl = "loop" /\ ctrl' = "closeAll"
        /\ ~ Closing /\ ~ Closing' /\ Known' = Known
        /\ UNCHANGED <<inbox, url, dp_uuid_ht, dp, ipc, shutdown, pc, term, open, dp_data_sock>>
    BY <1>9 DEF process_actor_message, Closing, Known
  <2>2. TypeOK'
    BY <2>1 DEF DpInv, TypeOK
  <2> QED  BY <2>1, <2>2 DEF DpInv, Owned, Stopping, AtWork, Served
<1>10. CASE close_all_dp_sessions
  <2>1. /\ ctrl = "closeAll" /\ ~ Closing
        /\ UNCHANGED <<inbox, url, dp, shutdown, pc, open, dp_data_sock>>
        /\ \/ \E u \in Known : close_dp_session(u, "closingAll")
           \/ /\ Known = {} /\ ctrl' = "done"
              /\ dp_uuid_ht' = dp_uuid_ht /\ ipc' = ipc /\ term' = term
    BY <1>10 DEF close_all_dp_sessions, Closing
  <2>2. ASSUME NEW u \in Known, close_dp_session(u, "closingAll")
        PROVE  DpInv'
    <3>1. ctrl' = "closingAll"
      BY <2>2 DEF close_dp_session
    <3>2. /\ Owned' /\ Stopping' /\ Served'
          /\ ipc' \in Threads
          /\ \A v \in Known' : dp_uuid_ht'[v] # ipc'
          /\ dp_uuid_ht' \in [Uuids -> Threads \cup {NULL}]
          /\ term' \in SUBSET Threads
      BY <2>1, <2>2, CloseStep
    <3>3. TypeOK'
      BY <2>1, <3>1, <3>2 DEF DpInv, TypeOK
    <3>4. AtWork'
      BY <3>1, <3>2 DEF AtWork
    <3> QED  BY <3>2, <3>3, <3>4 DEF DpInv
  <2>3. CASE /\ Known = {} /\ ctrl' = "done"
             /\ dp_uuid_ht' = dp_uuid_ht /\ ipc' = ipc /\ term' = term
    <3>1. Known' = {} /\ ~ Closing'
      BY <2>3 DEF Known, Closing
    <3>2. TypeOK'
      BY <2>1, <2>3 DEF DpInv, TypeOK
    <3> QED
      BY <2>1, <2>3, <3>1, <3>2 DEF DpInv, Owned, Stopping, AtWork, Served
  <2> QED  BY <2>1, <2>2, <2>3
<1> QED
  BY <1>1, <1>2, <1>3, <1>4, <1>5, <1>6, <1>7, <1>8, <1>9, <1>10 DEF CtrlStep

\* A data thread moves on its own: only its place, its pipe and the socket
\* change, and it stops only when it has been told $TERM.
LEMMA DataStepInv ==
    ASSUME DpInv, NEW t \in Threads, DataStep(t)
    PROVE  DpInv'
<1>1. /\ UNCHANGED ctrlVars
      /\ open' \in SUBSET Threads /\ dp_data_sock' \in Threads \cup {NULL}
      /\ \E l \in {"get", "send", "stop", "ended"} : pc' = [pc EXCEPT ![t] = l]
      /\ term' = term \/ term' = term \ {t}
      /\ pc[t] # "none"
  BY DEF DataStep, broker_dp_data_init, GotData, NoData, Sent, SendFailed, StopClient,
         StopOr, DpInv, TypeOK
<1>2. /\ pc'[t] = "stop" => t \in term /\ t \notin term'
      /\ pc'[t] = "ended" => pc[t] = "stop" /\ term' = term
  BY DEF DataStep, broker_dp_data_init, GotData, NoData, Sent, SendFailed, StopClient,
         StopOr, DpInv, TypeOK
<1>3. /\ Known' = Known /\ (Closing' <=> Closing)
      /\ ipc' = ipc /\ ctrl' = ctrl /\ dp_uuid_ht' = dp_uuid_ht /\ dp' = dp /\ url' = url
  BY <1>1 DEF ctrlVars, Known, Closing
<1>4. /\ pc'[t] # "none"
      /\ \A x \in Threads \ {t} : pc'[x] = pc[x]
  BY <1>1 DEF DpInv, TypeOK
<1>5. TypeOK'
  BY <1>1 DEF ctrlVars, DpInv, TypeOK
<1>6. Owned'
  BY <1>1, <1>3, <1>4 DEF DpInv, Owned
<1>7. Stopping'
  BY <1>1, <1>2, <1>3, <1>4 DEF DpInv, Stopping
<1>8. AtWork' /\ Served'
  BY <1>3 DEF DpInv, AtWork, Served
<1> QED
  BY <1>5, <1>6, <1>7, <1>8 DEF DpInv

\* Every step of the control thread, a data thread or a dataplane keeps DpInv.
LEMMA DpNext == DpInv /\ [Next]_vars => DpInv'
<1> SUFFICES ASSUME DpInv, [Next]_vars PROVE DpInv'
  OBVIOUS
<1>1. CASE UNCHANGED vars
  BY <1>1 DEF vars, DpInv, TypeOK, Owned, Stopping, AtWork, Served, Closing, Known
<1> QED
  BY <1>1, OutsideStep, CtrlStepInv, DataStepInv DEF Next

\* What a reader of the code relies on follows from the invariant.
LEMMA DpInvImplies ==
    ASSUME DpInv
    PROVE  /\ NoOrphanThread
           /\ AcceptedIsServed
           /\ ctrl = "done" => Running = {}
<1>1. NoOrphanThread
  <2> SUFFICES ASSUME NEW t \in Running
               PROVE  \/ \E u \in Known : /\ dp_uuid_ht[u] = t
                                          /\ \A v \in Known \ {u} : dp_uuid_ht[v] # t
                      \/ ctrl \in {"closing", "closingAll"} /\ ipc = t
    BY DEF NoOrphanThread
  <2>1. t \in Threads /\ pc[t] # "none"
    BY DEF Running
  <2> QED  BY <2>1 DEF DpInv, Owned, Closing
<1>2. AcceptedIsServed
  <2> SUFFICES ASSUME ctrl = "loop", NEW u \in Known
               PROVE  dp_uuid_ht[u] \in Running /\ url[u] \in {NULL, "gone", dp_uuid_ht[u]}
    BY DEF AcceptedIsServed
  <2>1. dp_uuid_ht[u] \in Threads
    BY DEF DpInv, TypeOK, Known
  <2>2. pc[dp_uuid_ht[u]] # "none" /\ pc[dp_uuid_ht[u]] # "ended"
    BY <2>1 DEF DpInv, Owned, Stopping, Closing
  <2> QED  BY <2>1, <2>2 DEF DpInv, Served, Running
<1>3. ASSUME ctrl = "done"
      PROVE  Running = {}
  BY <1>3 DEF DpInv, AtWork, Owned, Closing, Running
<1> QED
  BY <1>1, <1>2, <1>3

\* For any number of dataplanes: every data thread that runs is the thread of
\* one known dataplane or is being waited for, so the control thread can stop
\* it.
THEOREM NoThreadEscapes == Spec => []NoOrphanThread
<1>1. Spec => []DpInv
  BY DpInit, DpNext, PTL DEF Spec
<1> QED
  BY <1>1, DpInvImplies, PTL

\* For any number of dataplanes: between requests the thread of every known
\* dataplane runs, and its endpoint is the one the dataplane was given.
THEOREM EveryoneIsServed == Spec => []AcceptedIsServed
<1>1. Spec => []DpInv
  BY DpInit, DpNext, PTL DEF Spec
<1> QED
  BY <1>1, DpInvImplies, PTL

-----------------------------------------------------------------------------
(* A single dataplane: no two data threads share dp_data_sock. *)

SingleDataplane == \A u, v \in Uuids : u = v

\* The session that is being closed was the only one; the socket that is open,
\* if there is one, is the socket of the data thread that has bound it and not
\* destroyed it yet, and the static variable is that socket.
OneSocket ==
    /\ Closing => Known = {}
    /\ \A t \in Threads :
          /\ t \in open <=> pc[t] \in {"get", "send", "stop"}
          /\ t \in open => dp_data_sock = t

\* A single dataplane has at most one data thread.
LEMMA OneThread ==
    ASSUME SingleDataplane, DpInv, OneSocket,
           NEW s \in Threads, NEW t \in Threads, pc[s] # "none", pc[t] # "none"
    PROVE  s = t
<1>1. CASE Closing
  BY <1>1 DEF DpInv, Owned, OneSocket
<1>2. CASE ~ Closing
  <2>1. PICK u \in Known : dp_uuid_ht[u] = s
    BY <1>2 DEF DpInv, Owned
  <2>2. PICK v \in Known : dp_uuid_ht[v] = t
    BY <1>2 DEF DpInv, Owned
  <2> QED  BY <2>1, <2>2 DEF SingleDataplane, Known
<1> QED  BY <1>1, <1>2

\* The control thread opens and closes no socket: it starts a thread that has
\* none and lets go of one that has none any more.
LEMMA CtrlOneSocket ==
    ASSUME SingleDataplane, DpInv, OneSocket,
           CtrlStep \/ process_actor_message
    PROVE  OneSocket'
<1> USE DEF Closing
<1>1. /\ dp_uuid_ht \in [Uuids -> Threads \cup {NULL}]
      /\ pc \in [Threads -> {"none", "start", "get", "send", "stop", "ended"}]
      /\ ipc \in Threads \cup {NULL} /\ dp \in Uuids \cup {NULL}
  BY DEF DpInv, TypeOK
<1>2. /\ open' = open /\ dp_data_sock' = dp_data_sock
      /\ \A t \in Threads : pc'[t] # pc[t] =>
            pc[t] \in {"none", "ended"} /\ pc'[t] \in {"none", "start"}
  BY <1>1 DEF CtrlStep, process_actor_message, broker_dp_ctrl, Ignored, process_keepalive_message,
     process_connect_message, stop_old_dp_thread, NoMemory, start_new_dp_data_thread,
     broker_dp_ctrl_msg_accept, close_all_dp_sessions
<1>3. ASSUME NEW u \in Known, NEW then, close_dp_session(u, then)
      PROVE  Known' = {}
  BY <1>1, <1>3 DEF close_dp_session, Known, SingleDataplane
<1>4. Closing' => Known' = {}
  <2>1. CASE process_connect_message
    BY <1>3, <2>1 DEF process_connect_message, process_ctrl_message, close_dp_session
  <2>2. CASE close_all_dp_sessions
    BY <1>3, <2>2 DEF close_all_dp_sessions, close_dp_session
  <2>3. CASE ~ process_connect_message /\ ~ close_all_dp_sessions
    BY <2>3 DEF CtrlStep, process_actor_message, broker_dp_ctrl, Ignored,
       process_keepalive_message, process_ctrl_message, stop_old_dp_thread, NoMemory,
       start_new_dp_data_thread, broker_dp_ctrl_msg_accept, OneSocket, Known
  <2> QED  BY <2>1, <2>2, <2>3
<1> QED
  BY <1>2, <1>4 DEF OneSocket

\* The only data thread binds the socket and destroys that very socket.
LEMMA DataOneSocket ==
    ASSUME SingleDataplane, DpInv, OneSocket, NEW t \in Threads, DataStep(t)
    PROVE  OneSocket'
<1>1. pc \in [Threads -> {"none", "start", "get", "send", "stop", "ended"}]
  BY DEF DpInv, TypeOK
<1>2. \A s \in Threads \ {t} : pc[s] = "none" /\ s \notin open
  BY OneThread DEF OneSocket, DataStep, broker_dp_data_init, GotData, NoData, Sent, SendFailed,
     StopClient
<1>3. (Closing' <=> Closing) /\ Known' = Known
  BY DEF DataStep, broker_dp_data_init, GotData, NoData, Sent, SendFailed, StopClient, StopOr,
     ctrlVars, Closing, Known
<1>4. CASE broker_dp_data_init(t)
  BY <1>1, <1>2, <1>3, <1>4 DEF broker_dp_data_init, OneSocket
<1>5. CASE GotData(t)
  BY <1>1, <1>2, <1>3, <1>5 DEF GotData, OneSocket
<1>6. CASE NoData(t) \/ Sent(t) \/ SendFailed(t)
  BY <1>1, <1>2, <1>3, <1>6 DEF NoData, Sent, SendFailed, StopOr, OneSocket
<1>7. CASE StopClient(t)
  BY <1>1, <1>2, <1>3, <1>7 DEF StopClient, OneSocket
<1> QED
  BY <1>4, <1>5, <1>6, <1>7 DEF DataStep

\* With a single dataplane a data thread publishes on the socket whose endpoint
\* it returned, and when the control thread has ended no data thread runs and
\* no socket is open.  With two dataplanes neither is true: dp_data_sock is a
\* static variable (route_broker_dp_data.c) that the data threads share.
THEOREM OneDataplaneIsServed ==
    ASSUME SingleDataplane
    PROVE  Spec => [](PublishesOnItsEndpoint /\ DoneMeansStopped)
<1>1. Init => DpInv /\ OneSocket
  <2>1. Init => OneSocket
    BY DEF Init, OneSocket, Closing
  <2> QED  BY <2>1, DpInit
<1>2. DpInv /\ OneSocket /\ [Next]_vars => (DpInv /\ OneSocket)'
  <2> SUFFICES ASSUME DpInv, OneSocket, [Next]_vars PROVE OneSocket'
    BY DpNext
  <2>1. CASE \/ \E r \in Requests : Request(r)
             \/ \E u \in Uuids : Forget(u)
             \/ route_broker_dataplane_ctrl_shutdown
             \/ UNCHANGED vars
    BY <2>1 DEF Request, Forget, route_broker_dataplane_ctrl_shutdown, vars, OneSocket, Closing, Known
  <2> QED  BY <2>1, CtrlOneSocket, DataOneSocket DEF Next
<1>3. DpInv /\ OneSocket => PublishesOnItsEndpoint /\ DoneMeansStopped
  <2> SUFFICES ASSUME DpInv, OneSocket
               PROVE  PublishesOnItsEndpoint /\ DoneMeansStopped
    OBVIOUS
  <2>1. PublishesOnItsEndpoint
    BY DEF OneSocket, PublishesOnItsEndpoint
  <2>2. ASSUME ctrl = "done"
        PROVE  open = {}
    BY <2>2 DEF DpInv, TypeOK, AtWork, Owned, Closing, OneSocket
  <2> QED  BY <2>1, <2>2, DpInvImplies DEF DoneMeansStopped
<1> QED
  BY <1>1, <1>2, <1>3, PTL DEF Spec

-----------------------------------------------------------------------------
(* The library around the sessions. *)

\* What the thread that ends the library has waited for, by the time it is
\* there.
Waited ==
    /\ main \in {"cancel", "crash", "join", "destroy", "done"} => ctrl = "done"
    /\ main \in {"destroy", "done"} => broker_consumer \in {"none", "dead"}
    /\ brokers # Levels => main \in {"init", "destroy", "done"}

LibInv == DpInv /\ LTypeOK /\ Waited

\* The threads of DpSessions do there what they do alone.
LEMMA LStep == [LNext]_allVars => [Next]_vars
<1> SUFFICES ASSUME [LNext]_allVars PROVE [Next]_vars
  OBVIOUS
<1>1. CASE UNCHANGED allVars
  BY <1>1 DEF allVars
<1>2. CASE MainStep
  BY <1>2 DEF MainStep, route_broker_init, route_broker_dataplane_ctrl_init,
              route_broker_kernel_init, CtrlJoined, Cancel, Join, route_broker_destroy
<1>3. CASE Publish \/ ConsumerStep
  BY <1>3 DEF Publish, ConsumerStep, ConsumerCreate, ConsumerGotData, ConsumerNoData,
              ConsumerWait, ConsumerPublish, Consumer
<1>4. CASE StartShutdown
  BY <1>4 DEF StartShutdown, Next
<1>5. CASE LCtrlStep \/ LActorMessage
  BY <1>5 DEF LCtrlStep, LActorMessage, Next
<1>6. CASE \E t \in Threads : LDataStep(t)
  BY <1>6 DEF LDataStep, Next
<1>7. CASE \/ \E r \in Requests : LRequest(r)
           \/ \E u \in Uuids : Forget(u) /\ UNCHANGED libVars
  BY <1>7 DEF LRequest, Next
<1> QED
  BY <1>1, <1>2, <1>3, <1>4, <1>5, <1>6, <1>7 DEF LNext

\* Within the library, the sessions behave as they do alone: what holds of
\* DpSessions holds of them there, however the library is started and ended.
THEOREM SessionsInLibrary == LSpec => Spec
BY LStep, PTL DEF LSpec, LInit, Spec

\* The control thread that has ended does nothing more, and neither does
\* anyone else on its behalf.
LEMMA DoneStays ==
    ASSUME [Next]_vars, ctrl = "done"
    PROVE  ctrl' = "done"
<1>1. CASE CtrlStep \/ process_actor_message
  BY <1>1 DEF CtrlStep, process_actor_message, broker_dp_ctrl, Ignored,
              process_keepalive_message, process_connect_message, process_ctrl_message,
              stop_old_dp_thread, NoMemory, start_new_dp_data_thread,
              broker_dp_ctrl_msg_accept, close_all_dp_sessions
<1>2. ASSUME NEW t \in Threads, DataStep(t)
      PROVE  ctrl' = ctrl
  BY <1>2 DEF DataStep, broker_dp_data_init, GotData, NoData, Sent, SendFailed,
              StopClient, StopOr, ctrlVars
<1>3. CASE \/ \E r \in Requests : Request(r)
           \/ \E u \in Uuids : Forget(u)
           \/ route_broker_dataplane_ctrl_shutdown
           \/ UNCHANGED vars
  BY <1>3 DEF Request, Forget, route_broker_dataplane_ctrl_shutdown, vars
<1> QED
  BY <1>1, <1>2, <1>3 DEF Next

\* Nothing of the library runs at first.
LEMMA LibInit == LInit => LibInv
<1> SUFFICES ASSUME LInit PROVE LibInv
  OBVIOUS
<1>1. DpInv
  BY DpInit DEF LInit
<1>2. LTypeOK
  <2>1. cancelled \in BOOLEAN /\ held \in BOOLEAN /\ kernel_publish \in BOOLEAN
    BY Zenon DEF LInit
  <2> QED  BY <1>1, <2>1, LifecycleAssumption DEF LInit, LTypeOK, DpInv
<1>3. Waited
  BY DEF LInit, Waited
<1> QED
  BY <1>1, <1>2, <1>3 DEF LibInv

\* A step that is not the main thread's or the kernel's leaves the library's
\* variables alone.
LEMMA SessionStepInv ==
    ASSUME LibInv, DpInv', [Next]_vars, UNCHANGED libVars
    PROVE  LibInv'
<1>1. UNCHANGED <<main, kernel_publish, broker_consumer, cancelled, behind, held, brokers>>
  BY DEF libVars, kernelVars
<1>2. LTypeOK'
  BY <1>1 DEF LibInv, LTypeOK, DpInv
<1>3. Waited'
  BY <1>1, DoneStays DEF LibInv, Waited
<1> QED
  BY <1>2, <1>3 DEF LibInv

\* The kernel's thread, and those who publish, leave the main thread alone; a
\* thread that has ended does not start again.
LEMMA ConsumerStepInv ==
    ASSUME LibInv, DpInv', ConsumerStep \/ Publish
    PROVE  LibInv'
<1>1. UNCHANGED <<vars, main, kernel_publish, cancelled, brokers>>
  BY DEF ConsumerStep, ConsumerCreate, ConsumerGotData, ConsumerNoData, ConsumerWait,
         ConsumerPublish, Publish, Consumer
<1>2. broker_consumer' \in {"none", "create", "get", "wait", "publish", "dead"}
  BY DEF ConsumerStep, ConsumerCreate, ConsumerGotData, ConsumerNoData, ConsumerWait,
         ConsumerPublish, Publish, Consumer, LibInv, LTypeOK
<1>3. broker_consumer \in {"none", "dead"} => broker_consumer' = broker_consumer
  BY DEF ConsumerStep, ConsumerCreate, ConsumerGotData, ConsumerNoData, ConsumerWait,
         ConsumerPublish, Publish, Consumer
<1>4. behind' \in 0 .. MaxBehind
  <2>1. behind \in 0 .. MaxBehind
    BY DEF LibInv, LTypeOK
  <2>2. \/ behind' = behind
        \/ behind' \in 0 .. MaxBehind
        \/ behind > 0 /\ behind' = behind - 1
        \/ behind' \in behind + 1 .. MaxBehind
    BY DEF ConsumerStep, ConsumerCreate, ConsumerGotData, ConsumerNoData, ConsumerWait,
           ConsumerPublish, Publish
  <2> QED  BY <2>1, <2>2, LifecycleAssumption
<1>5. held' \in BOOLEAN
  <2>1. held \in BOOLEAN
    BY DEF LibInv, LTypeOK
  <2>2. held' = held \/ held' = TRUE
    BY Zenon DEF ConsumerStep, ConsumerCreate, ConsumerGotData, ConsumerNoData, ConsumerWait,
                 ConsumerPublish, Publish
  <2> QED  BY <2>1, <2>2
<1>6. LTypeOK'
  BY <1>1, <1>2, <1>4, <1>5, Zenon DEF LibInv, LTypeOK, DpInv
<1>7. Waited'
  <2>1. ctrl' = ctrl /\ main' = main /\ brokers' = brokers
    BY <1>1 DEF vars
  <2> QED  BY <1>3, <2>1 DEF LibInv, Waited
<1> QED
  BY <1>6, <1>7 DEF LibInv

\* The thread that starts and ends the library.
LEMMA MainStepInv ==
    ASSUME LibInv, DpInv', MainStep \/ StartShutdown
    PROVE  LibInv'
<1>1. ctrl' = ctrl /\ UNCHANGED <<kernel_publish, behind, held>>
  BY DEF MainStep, route_broker_init, route_broker_dataplane_ctrl_init,
         route_broker_kernel_init, CtrlJoined, Cancel, Join, route_broker_destroy,
         StartShutdown, route_broker_dataplane_ctrl_shutdown, kernelVars, vars
<1>2. /\ main' \in {"init", "ctrlInit", "kernelInit", "failed", "run", "ctrl", "cancel",
                    "crash", "join", "destroy", "done"}
      /\ broker_consumer' \in {"none", "create", "get", "wait", "publish", "dead"}
      /\ brokers' \subseteq Levels
  BY DEF MainStep, route_broker_init, route_broker_dataplane_ctrl_init,
         route_broker_kernel_init, CtrlJoined, Cancel, Join, route_broker_destroy,
         StartShutdown, kernelVars, LibInv, LTypeOK
<1>3. cancelled' \in BOOLEAN
  <2>1. cancelled \in BOOLEAN
    BY DEF LibInv, LTypeOK
  <2>2. cancelled' = cancelled \/ cancelled' = TRUE
    BY Zenon DEF MainStep, route_broker_init, route_broker_dataplane_ctrl_init,
                 route_broker_kernel_init, CtrlJoined, Cancel, Join, route_broker_destroy,
                 StartShutdown, kernelVars
  <2> QED  BY <2>1, <2>2
<1>4. LTypeOK'
  BY <1>1, <1>2, <1>3, Zenon DEF LibInv, LTypeOK, DpInv
<1>5. CASE route_broker_init
  BY <1>1, <1>4, <1>5 DEF route_broker_init, LibInv, Waited, Levels
<1>6. CASE \/ route_broker_dataplane_ctrl_init \/ route_broker_kernel_init
           \/ CtrlJoined \/ Cancel \/ StartShutdown
  <2>1. brokers' = brokers /\ brokers = Levels
    BY <1>6 DEF route_broker_dataplane_ctrl_init, route_broker_kernel_init, CtrlJoined,
                Cancel, StartShutdown, LibInv, Waited
  <2>2. main' \in {"cancel", "crash", "join", "destroy", "done"} => ctrl = "done"
    BY <1>6 DEF route_broker_dataplane_ctrl_init, route_broker_kernel_init, CtrlJoined,
                Cancel, StartShutdown, LibInv, Waited
  <2>3. main' \in {"destroy", "done"} => broker_consumer' \in {"none", "dead"}
    BY <1>6 DEF route_broker_dataplane_ctrl_init, route_broker_kernel_init, CtrlJoined,
                Cancel, StartShutdown, kernelVars
  <2> QED  BY <1>1, <1>4, <2>1, <2>2, <2>3 DEF LibInv, Waited, Levels
<1>7. CASE Join \/ route_broker_destroy
  <2>1. /\ main \in {"join", "destroy"} /\ main' \in {"destroy", "done"}
        /\ broker_consumer' = broker_consumer
        /\ main = "join" => broker_consumer = "dead"
    BY <1>7 DEF Join, route_broker_destroy, kernelVars
  <2> QED  BY <1>1, <1>4, <2>1 DEF LibInv, Waited
<1> QED
  BY <1>4, <1>5, <1>6, <1>7 DEF MainStep, LibInv

\* Every step of every thread of the library preserves the invariant.
LEMMA LibNext == LibInv /\ [LNext]_allVars => LibInv'
<1> SUFFICES ASSUME LibInv, [LNext]_allVars PROVE LibInv'
  OBVIOUS
<1>1. [Next]_vars
  BY LStep
<1>2. DpInv'
  BY <1>1, DpNext DEF LibInv
<1>3. CASE UNCHANGED libVars
  BY <1>1, <1>2, <1>3, SessionStepInv
<1> QED
  BY <1>2, <1>3, ConsumerStepInv, MainStepInv
     DEF LNext, LCtrlStep, LActorMessage, LDataStep, LRequest, allVars

\* The invariant holds from object_broker_init_all on.
LEMMA LibAlways == LSpec => []LibInv
BY LibInit, LibNext, PTL DEF LSpec

\* The threads, the sessions and the library keep to their states.
THEOREM LibraryTyped == LSpec => []LTypeOK
<1>1. LibInv => LTypeOK
  BY DEF LibInv
<1> QED
  BY <1>1, LibAlways, PTL

\* route_broker_destroy frees no broker while a data thread or the kernel's
\* thread is left that uses it or may create a client of it, for any number of
\* dataplanes, data threads and priorities.
THEOREM NothingFreedInUse == LSpec => []FreedIsUnused
<1>1. LibInv => FreedIsUnused
  BY DpInvImplies DEF LibInv, Waited, FreedIsUnused
<1> QED
  BY <1>1, LibAlways, PTL
==============================================================================

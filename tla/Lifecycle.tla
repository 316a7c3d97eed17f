------------------------------ MODULE Lifecycle ------------------------------
(***************************************************************************)
(* Start and end of the library: object_broker_init_all and                *)
(* object_broker_shutdown_all of broker/route_broker.c, with the threads   *)
(* that they start and end: the control thread and its data threads        *)
(* (DpSessions) and the thread of the kernel's client                      *)
(* (broker/route_broker_kernel.c), which is cancelled, not asked to stop.  *)
(*                                                                         *)
(* The mutex is taken for short sections only, with one exception: a       *)
(* thread that is cancelled in pthread_cond_timedwait has the mutex again, *)
(* no cleanup handler releases it, and it stays locked.  Every step that   *)
(* takes the mutex therefore needs it not to be held in that way.          *)
(***************************************************************************)
EXTENDS DpSessions

CONSTANTS ROUTE_PRIORITY_MAX,  \* number of brokers
          MaxBehind            \* bound on the routes the kernel has not got

ASSUME LifecycleAssumption == /\ ROUTE_PRIORITY_MAX \in Nat
                              /\ MaxBehind \in Nat

VARIABLES main,             \* where the thread that starts and ends the library is
          kernel_publish,   \* init->kernel_publish is not NULL
          broker_consumer,  \* where the kernel's thread is
          cancelled,        \* pthread_cancel has been called for it
          behind,           \* routes that its client has not read
          held,             \* it ended with the mutex
          brokers           \* the brokers that exist

kernelVars == <<broker_consumer, cancelled, behind, held>>
libVars == <<main, kernel_publish, kernelVars, brokers>>
allVars == <<vars, libVars>>

Levels == 0 .. ROUTE_PRIORITY_MAX - 1

\* The threads that have a client: its cursors are in every broker.
Clients ==
    {t \in Threads : pc[t] \in {"get", "send", "stop"}}
    \cup {k \in {"kernel"} : broker_consumer \notin {"none", "create"}}

LInit ==
    /\ Init
    /\ main = "init"
    /\ kernel_publish \in BOOLEAN
    /\ broker_consumer = "none"
    /\ cancelled = FALSE
    /\ behind = 0
    /\ held = FALSE
    /\ brokers = {}

-----------------------------------------------------------------------------
(* The thread of the kernel's client. *)

Consumer(from, to) ==
    /\ broker_consumer = from
    /\ broker_consumer' = to
    /\ UNCHANGED <<vars, main, kernel_publish, cancelled, brokers>>

ConsumerCreate ==
    /\ Consumer("create", "get")
    /\ ~ held
    /\ behind' \in 0 .. MaxBehind
    /\ UNCHANGED held

ConsumerGotData ==
    /\ Consumer("get", "publish")
    /\ ~ held
    /\ behind > 0
    /\ behind' = behind - 1
    /\ UNCHANGED held

\* pthread_cond_timedwait: a cancellation that is pending is acted upon.
ConsumerNoData ==
    /\ ~ held
    /\ behind = 0
    /\ \/ ~ cancelled /\ Consumer("get", "wait") /\ UNCHANGED held
       \/ cancelled /\ Consumer("get", "dead") /\ held' = TRUE
    /\ UNCHANGED behind

\* It is woken or times out, or it is cancelled.
ConsumerWait ==
    /\ ~ held
    /\ \/ Consumer("wait", "get") /\ UNCHANGED held
       \/ cancelled /\ Consumer("wait", "dead") /\ held' = TRUE
    /\ UNCHANGED behind

\* The callback returns, with success or not, or is itself a point of
\* cancellation.
ConsumerPublish ==
    /\ \/ Consumer("publish", "get")
       \/ cancelled /\ Consumer("publish", "dead")
    /\ UNCHANGED <<behind, held>>

ConsumerStep ==
    ConsumerCreate \/ ConsumerGotData \/ ConsumerNoData \/ ConsumerWait \/ ConsumerPublish

-----------------------------------------------------------------------------
(* The thread that starts and ends the library. *)

route_broker_init ==
    /\ main = "init"
    /\ main' = "ctrlInit"
    /\ brokers' = Levels
    /\ UNCHANGED <<vars, kernel_publish, kernelVars>>

\* zactor_new: the control thread runs from now on.
route_broker_dataplane_ctrl_init ==
    /\ main = "ctrlInit"
    /\ main' = IF kernel_publish THEN "kernelInit" ELSE "run"
    /\ UNCHANGED <<vars, kernel_publish, kernelVars, brokers>>

\* If the thread cannot be created, the caller is told so.
route_broker_kernel_init ==
    /\ main = "kernelInit"
    /\ \/ main' = "run" /\ broker_consumer' = "create"
       \/ main' = "failed" /\ UNCHANGED broker_consumer
    /\ UNCHANGED <<vars, kernel_publish, cancelled, behind, held, brokers>>

\* Routes are published, as long as the library is not told to end.
Publish ==
    /\ main = "run"
    /\ ~ held
    /\ broker_consumer \notin {"none", "create"}
    /\ behind' \in behind + 1 .. MaxBehind
    /\ UNCHANGED <<vars, main, kernel_publish, broker_consumer, cancelled, held, brokers>>

\* Mutant: the kernel's thread is ended before the control thread has.
KernelFirst ==
    /\ main = "run"
    /\ main' = "ctrl"
    /\ cancelled' = (broker_consumer # "none")
    /\ route_broker_dataplane_ctrl_shutdown
    /\ UNCHANGED <<kernel_publish, broker_consumer, behind, held, brokers>>

\* object_broker_shutdown_all begins: $TERM is sent to the control thread.
StartShutdown ==
    /\ main = "run"
    /\ main' = "ctrl"
    /\ route_broker_dataplane_ctrl_shutdown
    /\ UNCHANGED <<kernel_publish, kernelVars, brokers>>

\* Mutant: the control thread is told to end, and not waited for.
CtrlNotJoined ==
    /\ main = "ctrl"
    /\ main' = "cancel"
    /\ UNCHANGED <<vars, kernel_publish, kernelVars, brokers>>

\* zactor_destroy returns when the control thread has.
CtrlJoined ==
    /\ main = "ctrl"
    /\ ctrl = "done"
    /\ main' = "cancel"
    /\ UNCHANGED <<vars, kernel_publish, kernelVars, brokers>>

\* pthread_cancel.  For a thread that was never created it is undefined: the
\* call crashes, or fails and pthread_join fails as well.
Cancel ==
    /\ main = "cancel"
    /\ \/ broker_consumer # "none" /\ main' = "join" /\ cancelled' = TRUE
       \/ broker_consumer = "none" /\ main' \in {"crash", "destroy"} /\ UNCHANGED cancelled
    /\ UNCHANGED <<vars, kernel_publish, broker_consumer, behind, held, brokers>>

Join ==
    /\ main = "join"
    /\ broker_consumer = "dead"
    /\ main' = "destroy"
    /\ UNCHANGED <<vars, kernel_publish, kernelVars, brokers>>

\* route_broker_destroy: broker_delete of one level after the other, until one
\* has clients or objects.
route_broker_destroy ==
    /\ main = "destroy"
    /\ \/ /\ brokers # {} /\ Clients = {}
          /\ brokers' = brokers \ {CHOOSE p \in brokers : \A q \in brokers : p <= q}
          /\ UNCHANGED main
       \/ main' = "done" /\ UNCHANGED brokers
    /\ UNCHANGED <<vars, kernel_publish, kernelVars>>

MainStep ==
    \/ route_broker_init \/ route_broker_dataplane_ctrl_init \/ route_broker_kernel_init
    \/ CtrlJoined \/ Cancel \/ Join \/ route_broker_destroy

-----------------------------------------------------------------------------
(* The threads of DpSessions, in this library. *)

CtrlStarted == main \notin {"init", "ctrlInit"}

\* What a data thread does without the mutex.
Unlocked(t) == pc[t] = "send"

LCtrlStep == CtrlStarted /\ CtrlStep /\ UNCHANGED libVars
LActorMessage == CtrlStarted /\ process_actor_message /\ UNCHANGED libVars
LDataStep(t) == (~ held \/ Unlocked(t)) /\ DataStep(t) /\ UNCHANGED libVars
LDataRuns(t) == (~ held \/ Unlocked(t)) /\ DataRuns(t) /\ UNCHANGED libVars
LRequest(r) == CtrlStarted /\ Request(r) /\ UNCHANGED libVars

LNext ==
    \/ MainStep \/ Publish \/ StartShutdown
    \/ ConsumerStep
    \/ LCtrlStep \/ LActorMessage
    \/ \E t \in Threads : LDataStep(t)
    \/ \E r \in Requests : LRequest(r)
    \/ \E u \in Uuids : Forget(u) /\ UNCHANGED libVars

LSpec == LInit /\ [][LNext]_allVars

\* The threads run, and zloop serves both of its sockets; a send to a
\* dataplane may fail for ever.  The dataplanes keep sending KEEPALIVE.
LFairSpec ==
    /\ LSpec
    /\ WF_allVars(MainStep)
    /\ WF_allVars(ConsumerStep)
    /\ WF_allVars(LCtrlStep)
    /\ SF_allVars(LActorMessage)
    /\ \A t \in Threads : WF_allVars(LDataRuns(t))
    /\ \A u \in Uuids : SF_allVars(LRequest([req |-> "KEEPALIVE", uuid |-> u]))

-----------------------------------------------------------------------------
LTypeOK ==
    /\ TypeOK
    /\ main \in {"init", "ctrlInit", "kernelInit", "failed", "run", "ctrl", "cancel",
                 "crash", "join", "destroy", "done"}
    /\ kernel_publish \in BOOLEAN
    /\ broker_consumer \in {"none", "create", "get", "wait", "publish", "dead"}
    /\ cancelled \in BOOLEAN
    /\ behind \in 0 .. MaxBehind
    /\ held \in BOOLEAN
    /\ brokers \subseteq Levels

\* No broker is freed (route_broker_destroy) while a thread is left that has a
\* client of it or may yet create one.
FreedIsUnused ==
    brokers # Levels /\ main # "init" =>
        Running = {} /\ broker_consumer \in {"none", "dead"} /\ ctrl = "done"

\* object_broker_shutdown_all comes to an end, although the mutex may be left
\* locked: no thread that is waited for after that needs it.  It returns, or,
\* without a client for the kernel, may crash on cancelling a thread that was
\* never created, which EndsOnlyStarted is about.
ShutdownReturns == (main = "ctrl") ~> (main = "done" \/ (main = "crash" /\ ~ kernel_publish))

\* "NULL if no kernel publish required" (route_broker.h:35): the library can be
\* used without a client for the kernel, and then shutdown ends no thread that
\* was never started.
EndsOnlyStarted == main = "cancel" => broker_consumer # "none"
==============================================================================

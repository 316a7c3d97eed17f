--------------------------- MODULE RouteBrokerSync ---------------------------
(***************************************************************************)
(* broker/route_broker.c: the threads.  A publisher holds                  *)
(* route_broker_mutex while it publishes and then walks client_list to     *)
(* wake the clients that sleep; each client thread is created, loops over  *)
(* route_broker_client_get_data and is deleted.  The mutex is not held     *)
(* while a client is linked into client_list or unlinked from it, so these *)
(* are modelled as the memory accesses that CIRCLEQ_INSERT_HEAD and        *)
(* CIRCLEQ_REMOVE make.                                                    *)
(*                                                                         *)
(* What a client reads is abstracted to how many of the changes it has     *)
(* read; RouteBroker models which.                                         *)
(***************************************************************************)
EXTENDS Naturals

CONSTANTS Clients,
          Leavers,  \* the clients that may be deleted
          HEAD,     \* client_list_head: its next is cqh_first, its prev cqh_last
          MaxId     \* bound on the number of changes published

ASSUME SyncAssumption == /\ Leavers \subseteq Clients
                         /\ HEAD \notin Clients
                         /\ MaxId \in Nat

VARIABLES id,        \* changes published
          read,      \* changes each client has read
          pc,        \* where each client thread is
          signalled, \* clients whose client_cond was signalled while waiting
          next,      \* cqe_next of each entry
          prev,      \* cqe_prev of each entry
          walk,      \* "next", "touch": the publisher holds the mutex and walks
                     \* client_list; "showNext", "showTouch": it walks for the
                     \* show command, without the mutex; "idle"
          cur,       \* where it is in client_list
          raced      \* whether client_list was changed while another thread used
                     \* it: "no"; "insert": by insertions only; "remove": by a
                     \* removal, or one came after such insertions

vars == <<id, read, pc, signalled, next, prev, walk, cur, raced>>
list == <<next, prev>>

Entries == Clients \cup {HEAD}

\* Between the creation of its cursors and their deletion.
Live == {"insert1", "insert2", "insert3", "loop", "waiting"}

\* Changing client_list, without the mutex.
Inserting == {"insert1", "insert2", "insert3"}
Removing == {"remove1", "remove2", "free"}
Linking == Inserting \cup Removing

Locs == Live \cup Linking \cup {"new"}

MutexFree == walk \notin {"next", "touch"}

Init ==
    /\ id = 0
    /\ read = [c \in Clients |-> 0]
    /\ pc = [c \in Clients |-> "new"]
    /\ signalled = {}
    /\ next = [e \in Entries |-> HEAD]
    /\ prev = [e \in Entries |-> HEAD]
    /\ walk = "idle"
    /\ cur = HEAD
    /\ raced = "no"

\* The threads that use client_list.
Users == {c \in Clients : pc[c] \in Linking} \cup {e \in {HEAD} : walk # "idle"}

Crowded == \E x, y \in Users : x # y

Removal == \E c \in Clients : pc[c] \in Removing

\* Part of every step: the history of races.
Recorded ==
    raced' = IF raced = "remove" \/ (Removal' /\ (Crowded' \/ raced = "insert"))
             THEN "remove"
             ELSE IF Crowded' THEN "insert" ELSE raced

Goto(c, loc) == pc' = [pc EXCEPT ![c] = loc]

data_available_for_client(c) == read[c] # id

-----------------------------------------------------------------------------
\* The publisher takes the mutex, publishes and starts to wake the clients.
object_broker_publish ==
    /\ walk = "idle"
    /\ id < MaxId
    /\ id' = id + 1
    /\ walk' = "next"
    /\ cur' = HEAD
    /\ UNCHANGED <<read, pc, signalled, list>>
    /\ Recorded

\* CIRCLEQ_FOREACH: the walk ends, and the mutex is released, at the head.
WalkOn ==
    /\ walk = "next"
    /\ cur' = next[cur]
    /\ walk' = IF next[cur] = HEAD THEN "idle" ELSE "touch"
    /\ UNCHANGED <<id, read, pc, signalled, list>>
    /\ Recorded

\* Mutant: the clients that have data are the ones left asleep.
WakeOthers ==
    /\ walk = "touch"
    /\ walk' = "next"
    /\ signalled' = IF ~ data_available_for_client(cur) /\ pc[cur] = "waiting"
                    THEN signalled \cup {cur} ELSE signalled
    /\ UNCHANGED <<id, read, pc, list, cur>>
    /\ Recorded

\* pthread_cond_signal does nothing for a client that is not waiting.
route_broker_wake_clients ==
    /\ walk = "touch"
    /\ walk' = "next"
    /\ signalled' = IF data_available_for_client(cur) /\ pc[cur] = "waiting"
                    THEN signalled \cup {cur} ELSE signalled
    /\ UNCHANGED <<id, read, pc, list, cur>>
    /\ Recorded

\* The first loop of the show command.
route_broker_show_internal ==
    /\ walk = "idle"
    /\ walk' = "showNext"
    /\ cur' = HEAD
    /\ UNCHANGED <<id, read, pc, signalled, list>>
    /\ Recorded

ShowOn ==
    /\ walk = "showNext"
    /\ cur' = next[cur]
    /\ walk' = IF next[cur] = HEAD THEN "idle" ELSE "showTouch"
    /\ UNCHANGED <<id, read, pc, signalled, list>>
    /\ Recorded

ShowErrors ==
    /\ walk = "showTouch"
    /\ walk' = "showNext"
    /\ UNCHANGED <<id, read, pc, signalled, list, cur>>
    /\ Recorded

-----------------------------------------------------------------------------
route_broker_client_create(c) ==
    /\ pc[c] = "new"
    /\ MutexFree
    /\ read' = [read EXCEPT ![c] = 0]
    /\ Goto(c, "insert1")
    /\ UNCHANGED <<id, signalled, list, walk, cur>>
    /\ Recorded

\* CIRCLEQ_INSERT_HEAD.
InsertLink(c) ==
    /\ pc[c] = "insert1"
    /\ next' = [next EXCEPT ![c] = next[HEAD]]
    /\ prev' = [prev EXCEPT ![c] = HEAD]
    /\ Goto(c, "insert2")
    /\ UNCHANGED <<id, read, signalled, walk, cur>>
    /\ Recorded

\* Mutant: the entry that was first does not lead back.
InsertNoBack(c) ==
    /\ pc[c] = "insert2"
    /\ prev' = [prev EXCEPT ![HEAD] = IF @ = HEAD THEN c ELSE @]
    /\ Goto(c, "insert3")
    /\ UNCHANGED <<id, read, signalled, next, walk, cur>>
    /\ Recorded

InsertBack(c) ==
    /\ pc[c] = "insert2"
    /\ prev' = [prev EXCEPT ![IF prev[HEAD] = HEAD THEN HEAD ELSE next[HEAD]] = c]
    /\ Goto(c, "insert3")
    /\ UNCHANGED <<id, read, signalled, next, walk, cur>>
    /\ Recorded

InsertFirst(c) ==
    /\ pc[c] = "insert3"
    /\ next' = [next EXCEPT ![HEAD] = c]
    /\ Goto(c, "loop")
    /\ UNCHANGED <<id, read, signalled, prev, walk, cur>>
    /\ Recorded

\* Mutant: a route is read without a check that there is one.
ReadAnyway(c) ==
    /\ pc[c] = "loop" \/ c \in signalled
    /\ MutexFree
    /\ signalled' = signalled \ {c}
    /\ read' = [read EXCEPT ![c] = @ + 1]
    /\ Goto(c, "loop")
    /\ UNCHANGED <<id, list, walk, cur>>
    /\ Recorded

\* The mutex, the check and, with no data, the wait are one critical section.
route_broker_client_get_data(c) ==
    /\ pc[c] = "loop" \/ c \in signalled
    /\ MutexFree
    /\ signalled' = signalled \ {c}
    /\ IF data_available_for_client(c)
       THEN read' = [read EXCEPT ![c] = @ + 1] /\ Goto(c, "loop")
       ELSE Goto(c, "waiting") /\ UNCHANGED read
    /\ UNCHANGED <<id, list, walk, cur>>
    /\ Recorded

\* Mutant: the wait has no limit.
WaitOn(c) == pc[c] = "waiting" /\ UNCHANGED vars

\* ETIMEDOUT: the caller gets NULL.
Timeout(c) ==
    /\ pc[c] = "waiting"
    /\ c \notin signalled
    /\ MutexFree
    /\ Goto(c, "loop")
    /\ UNCHANGED <<id, read, signalled, list, walk, cur>>
    /\ Recorded

\* Its thread deletes the client: $TERM.
route_broker_client_delete(c) ==
    /\ c \in Leavers
    /\ pc[c] = "loop"
    /\ MutexFree
    /\ Goto(c, "remove1")
    /\ UNCHANGED <<id, read, signalled, list, walk, cur>>
    /\ Recorded

\* CIRCLEQ_REMOVE.
RemoveBack(c) ==
    /\ pc[c] = "remove1"
    /\ prev' = [prev EXCEPT ![next[c]] = prev[c]]
    /\ Goto(c, "remove2")
    /\ UNCHANGED <<id, read, signalled, next, walk, cur>>
    /\ Recorded

\* Mutant: only the way back is unlinked.
RemoveHalf(c) ==
    /\ pc[c] = "remove2"
    /\ Goto(c, "free")
    /\ UNCHANGED <<id, read, signalled, list, walk, cur>>
    /\ Recorded

RemoveNext(c) ==
    /\ pc[c] = "remove2"
    /\ next' = [next EXCEPT ![prev[c]] = next[c]]
    /\ Goto(c, "free")
    /\ UNCHANGED <<id, read, signalled, prev, walk, cur>>
    /\ Recorded

Free(c) ==
    /\ pc[c] = "free"
    /\ Goto(c, "new")
    /\ UNCHANGED <<id, read, signalled, list, walk, cur>>
    /\ Recorded

Link(c) == InsertLink(c) \/ InsertBack(c) \/ InsertFirst(c)
Unlink(c) == RemoveBack(c) \/ RemoveNext(c) \/ Free(c)
Wake == WalkOn \/ route_broker_wake_clients

Next ==
    \/ object_broker_publish
    \/ Wake
    \/ route_broker_show_internal \/ ShowOn \/ ShowErrors
    \/ \E c \in Clients : \/ route_broker_client_create(c)
                          \/ Link(c)
                          \/ route_broker_client_get_data(c)
                          \/ Timeout(c)
                          \/ route_broker_client_delete(c)
                          \/ Unlink(c)

Spec == Init /\ [][Next]_vars

\* The threads run; the mutex is given to a thread that keeps asking for it;
\* a wait ends after one second.
FairSpec ==
    /\ Spec
    /\ WF_vars(Wake)
    /\ WF_vars(ShowOn \/ ShowErrors)
    /\ \A c \in Clients : /\ WF_vars(Link(c))
                          /\ WF_vars(Unlink(c))
                          /\ SF_vars(route_broker_client_get_data(c))
                          /\ SF_vars(Timeout(c))

-----------------------------------------------------------------------------
TypeOK ==
    /\ id \in 0 .. MaxId
    /\ read \in [Clients -> 0 .. MaxId]
    /\ pc \in [Clients -> Locs]
    /\ signalled \in SUBSET Clients
    /\ next \in [Entries -> Entries]
    /\ prev \in [Entries -> Entries]
    /\ walk \in {"idle", "next", "touch", "showNext", "showTouch"}
    /\ cur \in Entries
    /\ raced \in {"no", "insert", "remove"}

\* The clients in L and the head are one ring: f and b lead from one to the
\* next and back, and no part of it is a ring without the head.
HalfRing(L, f, b) ==
    /\ \A e \in L \cup {HEAD} : f[e] \in L \cup {HEAD} /\ b[f[e]] = e
    /\ \A S \in SUBSET L : (\A c \in S : f[c] \in S) => S = {}

Ring(L, f, b) == HalfRing(L, f, b) /\ HalfRing(L, b, f)

\* While client_list is changed by one thread at a time, CIRCLEQ_INSERT_HEAD
\* and CIRCLEQ_REMOVE leave one ring: from the head it leads over all clients
\* and back, forwards and backwards.
ListIsRing ==
    raced = "no" /\ Users = {} => Ring({c \in Clients : pc[c] # "new"}, next, prev)

\* "Already have the mutex" (route_broker.c:382): the walk that wakes the
\* clients only looks at clients that have not been deleted.
WalkTouchesLive == walk = "touch" => pc[cur] \in Live

\* Neither that walk nor the one of the show command, which does not have the
\* mutex, looks at a client that has been deleted, unless one was being
\* deleted while another thread used client_list, or after insertions raced:
\* of two clients that were inserted before the same one, only one is told
\* when that one goes.
WalksTouchLive ==
    walk \in {"touch", "showTouch"} /\ raced # "remove" => pc[cur] \in Live

\* "If there is no more data sleep until woken by more data"
\* (route_broker.c:299): once the publisher has released the mutex, a client
\* that has something to read is not asleep, or has been signalled, unless
\* client_list was changed while another thread used it.
NoLostWakeup ==
    \A c \in Clients : MutexFree /\ pc[c] = "waiting" /\ data_available_for_client(c)
                          => c \in signalled \/ raced # "no"

\* A client reads every change, whatever the order in which the threads run:
\* insertions that race make it late, as the wait ends after a second.  Only a
\* deletion that races can keep a client from reading.
CatchesUp ==
    \A c \in Clients :
        (pc[c] \in Live) ~> (pc[c] \notin Live \/ read[c] = id \/ raced = "remove")
==============================================================================

------------------------------ MODULE RouteFeed ------------------------------
(***************************************************************************)
(* What the broker promises: a table of routes that a publisher changes    *)
(* and that clients follow, each at its own speed.  For each client there  *)
(* is a set of topics it has still to read; reading one gives it what is   *)
(* in the table at that time, so that changes in between are skipped.      *)
(***************************************************************************)
CONSTANTS Topics, Vals, Clients, NULL

VARIABLES table,      \* what was published last for each topic
          connected,  \* the clients that are there
          pending,    \* the topics each client has still to read
          view        \* what each client has read

vars == <<table, connected, pending, view>>

NoRoutes == [t \in Topics |-> NULL]

Init ==
    /\ table = NoRoutes
    /\ connected = {}
    /\ pending = [c \in Clients |-> {}]
    /\ view = [c \in Clients |-> NoRoutes]

\* A change is pending for every client.
Publish(t, v) ==
    /\ table' = [table EXCEPT ![t] = v]
    /\ pending' = [c \in Clients |-> IF c \in connected THEN pending[c] \cup {t} ELSE {}]
    /\ UNCHANGED <<connected, view>>

\* A new client knows nothing and has every route of the table to read; it
\* may also be told of deletions.
Join(c, P) ==
    /\ c \notin connected
    /\ {t \in Topics : table[t] # NULL} \subseteq P
    /\ connected' = connected \cup {c}
    /\ pending' = [pending EXCEPT ![c] = P]
    /\ view' = [view EXCEPT ![c] = NoRoutes]
    /\ UNCHANGED table

Leave(c) ==
    /\ c \in connected
    /\ connected' = connected \ {c}
    /\ pending' = [pending EXCEPT ![c] = {}]
    /\ view' = [view EXCEPT ![c] = NoRoutes]
    /\ UNCHANGED table

Read(c, t) ==
    /\ c \in connected
    /\ t \in pending[c]
    /\ view' = [view EXCEPT ![c] = [@ EXCEPT ![t] = table[t]]]
    /\ pending' = [pending EXCEPT ![c] = @ \ {t}]
    /\ UNCHANGED <<table, connected>>

Next ==
    \/ \E t \in Topics, v \in Vals \cup {NULL} : Publish(t, v)
    \/ \E c \in Clients : \/ \E P \in SUBSET Topics : Join(c, P)
                          \/ Leave(c)
                          \/ \E t \in Topics : Read(c, t)

Spec == Init /\ [][Next]_vars

FairSpec == Spec /\ \A c \in Clients : WF_vars(\E t \in Topics : Read(c, t))
==============================================================================

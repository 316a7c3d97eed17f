------------------------------- MODULE CircleQ -------------------------------
(***************************************************************************)
(* The doubly linked list of <sys/queue.h> as broker.c uses it: the        *)
(* elements from the head to the tail, as a sequence.  The list head is    *)
(* not an element, so "next of the tail is the head" is "no next".         *)
(***************************************************************************)
EXTENDS Naturals, Sequences, Functions

\* The elements of the list.
Elems(l) == Range(l)

\* No element is linked twice.
NoDup(l) == \A i, j \in DOMAIN l : l[i] = l[j] => i = j

\* A walk from the head meets x before y.
Before(l, x, y) == \E i, j \in DOMAIN l : i < j /\ l[i] = x /\ l[j] = y

\* The list without the elements outside S: a walk that unlinks the others.
Keep(l, S) ==
    LET kept[n \in 0 .. Len(l)] ==
            IF n = 0 THEN << >>
            ELSE IF l[n] \in S THEN Append(kept[n-1], l[n])
                               ELSE kept[n-1]
    IN  kept[Len(l)]

CIRCLEQ_REMOVE(l, e) == Keep(l, Elems(l) \ {e})

CIRCLEQ_INSERT_HEAD(l, e) ==
    [k \in 1 .. Len(l) + 1 |-> IF k = 1 THEN e ELSE l[k-1]]

CIRCLEQ_INSERT_TAIL(l, e) == Append(l, e)

CIRCLEQ_INSERT_AFTER(l, o, e) ==
    LET at == CHOOSE i \in DOMAIN l : l[i] = o
    IN  [k \in 1 .. Len(l) + 1 |->
            IF k <= at THEN l[k] ELSE IF k = at + 1 THEN e ELSE l[k-1]]
==============================================================================

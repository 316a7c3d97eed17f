-------------------------- MODULE BrokerOpsTheorems --------------------------
(***************************************************************************)
(* What each list operation does to the set of elements and to their       *)
(* order, what each operation of broker.c does to a broker, that it keeps  *)
(* the cursors in order and frees deleted objects as soon as no client     *)
(* needs them, and what the users of the broker see of it: the lemmas      *)
(* named after an operation end in Effect, OK and Summary.  Past the list  *)
(* operations the proofs use only the order of the elements, never their   *)
(* positions.                                                              *)
(***************************************************************************)
EXTENDS BrokerOps, WellFoundedInduction, TLAPS

(***************************************************************************)
(* A set of naturals that is not empty has a least element.                *)
(***************************************************************************)
LEMMA NatMin ==
    ASSUME NEW T, T \subseteq Nat, T # {}
    PROVE  \E x \in T : \A y \in T : x <= y
<1>1. PICK x \in T : \A y \in T : ~ (<<y, x>> \in OpToRel(<, Nat))
  BY WFMin, NatLessThanWellFounded, Zenon
<1>2. \A y \in T : ~(y < x)
  BY <1>1, Zenon DEF OpToRel
<1> QED
  BY <1>2

(***************************************************************************)
(* In a list without duplicates, Before is a strict total order.           *)
(***************************************************************************)
LEMMA BeforeOrder ==
    ASSUME NEW E, NEW l \in Seq(E), NoDup(l)
    PROVE  /\ \A x : ~ Before(l, x, x)
           /\ \A x, y : Before(l, x, y) => x \in Elems(l) /\ y \in Elems(l)
           /\ \A x, y : Before(l, x, y) => ~ Before(l, y, x)
           /\ \A x, y, z : Before(l, x, y) /\ Before(l, y, z) => Before(l, x, z)
           /\ \A x, y \in Elems(l) : x = y \/ Before(l, x, y) \/ Before(l, y, x)
<1>1. /\ DOMAIN l = 1 .. Len(l)
      /\ Len(l) \in Nat
  OBVIOUS
<1>2. \A x : ~ Before(l, x, x)
  BY <1>1 DEF NoDup, Before
<1>3. \A x, y : Before(l, x, y) => x \in Elems(l) /\ y \in Elems(l)
  BY <1>1 DEF Before, Elems, Range
<1>4. \A x, y : Before(l, x, y) => ~ Before(l, y, x)
  BY <1>1 DEF NoDup, Before
<1>5. \A x, y, z : Before(l, x, y) /\ Before(l, y, z) => Before(l, x, z)
  BY <1>1 DEF NoDup, Before
<1>6. \A x, y \in Elems(l) : x = y \/ Before(l, x, y) \/ Before(l, y, x)
  BY <1>1 DEF Before, Elems, Range
<1> QED
  BY <1>2, <1>3, <1>4, <1>5, <1>6

(***************************************************************************)
(* A set of elements that is not empty has one that comes before all the   *)
(* others: a walk along the list meets it first.                           *)
(***************************************************************************)
LEMMA FirstExists ==
    ASSUME NEW E, NEW l \in Seq(E), NEW A, A \subseteq Elems(l), A # {}
    PROVE  \E x \in A : \A y \in A : y = x \/ Before(l, x, y)
<1> DEFINE T == {i \in DOMAIN l : l[i] \in A}
<1>1. T \subseteq Nat /\ T # {}
  BY DEF Elems, Range
<1>2. PICK i \in T : \A j \in T : i <= j
  BY <1>1, NatMin, Zenon
<1>3. \A y \in A : y = l[i] \/ Before(l, l[i], y)
  BY <1>2 DEF Elems, Range, Before
<1> QED
  BY <1>2, <1>3

\* Insertion at the tail adds one element, after all the others, and leaves
\* the order of those as it is.
LEMMA InsertTail ==
    ASSUME NEW E, NEW l \in Seq(E), NEW e \in E, e \notin Elems(l)
    PROVE  LET m == CIRCLEQ_INSERT_TAIL(l, e) IN
           /\ m \in Seq(E)
           /\ Elems(m) = Elems(l) \cup {e}
           /\ NoDup(l) => NoDup(m)
           /\ \A x, y : Before(m, x, y) <=>
                           Before(l, x, y) \/ (x \in Elems(l) /\ y = e)
<1> DEFINE m == CIRCLEQ_INSERT_TAIL(l, e)
<1>1. /\ m \in Seq(E)
      /\ DOMAIN l = 1 .. Len(l)
      /\ Len(l) \in Nat
      /\ DOMAIN m = 1 .. Len(l) + 1
      /\ \A i \in 1 .. Len(l) : m[i] = l[i]
      /\ m[Len(l) + 1] = e
  BY DEF CIRCLEQ_INSERT_TAIL
<1> HIDE DEF m
<1>2. Elems(m) = Elems(l) \cup {e}
  <2>1. \A x \in Elems(m) : x \in Elems(l) \cup {e}
    BY <1>1 DEF Elems, Range
  <2>2. \A x \in Elems(l) \cup {e} : x \in Elems(m)
    BY <1>1 DEF Elems, Range
  <2> QED  BY <2>1, <2>2
<1>3. NoDup(l) => NoDup(m)
  BY <1>1 DEF NoDup, Elems, Range
<1>4. ASSUME NEW x, NEW y
      PROVE  Before(m, x, y) <=> Before(l, x, y) \/ (x \in Elems(l) /\ y = e)
  BY <1>1 DEF Before, Elems, Range
<1> QED
  BY <1>1, <1>2, <1>3, <1>4 DEF m

\* Insertion at the head adds one element, before all the others, and leaves
\* the order of those as it is.
LEMMA InsertHead ==
    ASSUME NEW E, NEW l \in Seq(E), NEW e \in E, e \notin Elems(l)
    PROVE  LET m == CIRCLEQ_INSERT_HEAD(l, e) IN
           /\ m \in Seq(E)
           /\ Elems(m) = Elems(l) \cup {e}
           /\ NoDup(l) => NoDup(m)
           /\ \A x, y : Before(m, x, y) <=>
                           Before(l, x, y) \/ (x = e /\ y \in Elems(l))
<1> DEFINE m == CIRCLEQ_INSERT_HEAD(l, e)
<1>1. /\ DOMAIN l = 1 .. Len(l)
      /\ Len(l) \in Nat
      /\ \A i \in 1 .. Len(l) : l[i] \in E
  OBVIOUS
<1>2. m = [k \in 1 .. Len(l) + 1 |-> IF k = 1 THEN e ELSE l[k-1]]
  BY DEF CIRCLEQ_INSERT_HEAD
<1> HIDE DEF m
<1>3. m \in Seq(E) /\ DOMAIN m = 1 .. Len(l) + 1 /\ m[1] = e
  BY <1>1, <1>2
<1> DEFINE up(i) == i + 1
           dn(i) == i - 1
<1>4. \A i \in DOMAIN l : up(i) \in DOMAIN m /\ up(i) # 1 /\ m[up(i)] = l[i]
  BY <1>1, <1>2
<1>5. \A i \in DOMAIN m : i # 1 => dn(i) \in DOMAIN l /\ m[i] = l[dn(i)]
  BY <1>1, <1>2
<1>6. Elems(m) = Elems(l) \cup {e}
  <2>1. \A x \in Elems(m) : x \in Elems(l) \cup {e}
    BY <1>3, <1>5 DEF Elems, Range
  <2>2. \A x \in Elems(l) \cup {e} : x \in Elems(m)
    BY <1>3, <1>4 DEF Elems, Range
  <2> QED  BY <2>1, <2>2
<1>7. NoDup(l) => NoDup(m)
  BY <1>1, <1>2 DEF NoDup, Elems, Range
<1>8. ASSUME NEW x, NEW y
      PROVE  Before(m, x, y) <=> Before(l, x, y) \/ (x = e /\ y \in Elems(l))
  <2>1. Before(l, x, y) => Before(m, x, y)
    BY <1>1, <1>3, <1>4 DEF Before
  <2>2. x = e /\ y \in Elems(l) => Before(m, x, y)
    BY <1>1, <1>3, <1>4 DEF Before, Elems, Range
  <2>3. Before(m, x, y) => Before(l, x, y) \/ (x = e /\ y \in Elems(l))
    BY <1>1, <1>3, <1>5 DEF Before, Elems, Range
  <2> QED  BY <2>1, <2>2, <2>3
<1> QED
  BY <1>3, <1>6, <1>7, <1>8 DEF m

\* Insertion after an element o puts the new one after o and what is before o,
\* and before the rest; the order of the others stays.
LEMMA InsertAfter ==
    ASSUME NEW E, NEW l \in Seq(E), NoDup(l),
           NEW o \in Elems(l), NEW e \in E, e \notin Elems(l)
    PROVE  LET m == CIRCLEQ_INSERT_AFTER(l, o, e) IN
           /\ m \in Seq(E)
           /\ Elems(m) = Elems(l) \cup {e}
           /\ NoDup(m)
           /\ \A x, y : Before(m, x, y) <=>
                           \/ Before(l, x, y)
                           \/ y = e /\ (x = o \/ Before(l, x, o))
                           \/ x = e /\ Before(l, o, y)
<1> DEFINE at == CHOOSE i \in DOMAIN l : l[i] = o
           m  == CIRCLEQ_INSERT_AFTER(l, o, e)
<1>1. at \in DOMAIN l /\ l[at] = o
  BY DEF Elems, Range
<1>2. m = [k \in 1 .. Len(l) + 1 |->
              IF k <= at THEN l[k] ELSE IF k = at + 1 THEN e ELSE l[k-1]]
  BY DEF CIRCLEQ_INSERT_AFTER
<1> HIDE DEF at, m
<1>3. /\ DOMAIN l = 1 .. Len(l)
      /\ Len(l) \in Nat
      /\ at \in 1 .. Len(l)
      /\ \A i \in 1 .. Len(l) : l[i] \in E
  BY <1>1
<1>4. /\ m \in Seq(E)
      /\ DOMAIN m = 1 .. Len(l) + 1
      /\ m[at + 1] = e
  BY <1>2, <1>3
<1> DEFINE up(i) == IF i <= at THEN i ELSE i + 1
           dn(i) == IF i <= at THEN i ELSE i - 1
<1>5. \A i \in DOMAIN l : up(i) \in DOMAIN m /\ m[up(i)] = l[i]
  BY <1>2, <1>3
<1>6. \A i \in DOMAIN m : i # at + 1 => dn(i) \in DOMAIN l /\ m[i] = l[dn(i)]
  BY <1>2, <1>3
<1>7. Elems(m) = Elems(l) \cup {e}
  <2>1. \A x \in Elems(m) : x \in Elems(l) \cup {e}
    BY <1>4, <1>6 DEF Elems, Range
  <2>2. \A x \in Elems(l) \cup {e} : x \in Elems(m)
    BY <1>3, <1>4, <1>5 DEF Elems, Range
  <2> QED  BY <2>1, <2>2
<1>8. NoDup(m)
  BY <1>2, <1>3 DEF NoDup, Elems, Range
<1>9. ASSUME NEW x, NEW y
      PROVE  Before(m, x, y) <=> \/ Before(l, x, y)
                                 \/ y = e /\ (x = o \/ Before(l, x, o))
                                 \/ x = e /\ Before(l, o, y)
  <2>1. Before(l, x, y) => Before(m, x, y)
    BY <1>3, <1>4, <1>5 DEF Before
  <2>2. y = e /\ (x = o \/ Before(l, x, o)) => Before(m, x, y)
    BY <1>1, <1>3, <1>4, <1>5 DEF Before, NoDup
  <2>3. x = e /\ Before(l, o, y) => Before(m, x, y)
    BY <1>1, <1>3, <1>4, <1>5 DEF Before, NoDup
  <2>4. ASSUME NEW i \in DOMAIN m, NEW j \in DOMAIN m, i < j, m[i] = x, m[j] = y
        PROVE  \/ Before(l, x, y)
               \/ y = e /\ (x = o \/ Before(l, x, o))
               \/ x = e /\ Before(l, o, y)
    <3>1. CASE i # at + 1 /\ j # at + 1
      BY <2>4, <3>1, <1>3, <1>4, <1>6 DEF Before
    <3>2. CASE j = at + 1
      BY <2>4, <3>2, <1>1, <1>3, <1>4, <1>6 DEF Before
    <3>3. CASE i = at + 1
      BY <2>4, <3>3, <1>1, <1>3, <1>4, <1>6 DEF Before
    <3> QED  BY <3>1, <3>2, <3>3
  <2> QED
    BY <2>1, <2>2, <2>3, <2>4 DEF Before
<1> QED
  BY <1>4, <1>7, <1>8, <1>9 DEF m

(***************************************************************************)
(* Keep is defined by a recursive function; this one exists.               *)
(***************************************************************************)
LEMMA KeepDef ==
    ASSUME NEW E, NEW l \in Seq(E), NEW S
    PROVE  \E k : /\ Keep(l, S) = k[Len(l)]
                  /\ k[0] = << >>
                  /\ \A n \in 1 .. Len(l) :
                        k[n] = IF l[n] \in S THEN Append(k[n-1], l[n])
                                             ELSE k[n-1]
<1> DEFINE Body(k, n) == IF n = 0 THEN << >>
                         ELSE IF l[n] \in S THEN Append(k[n-1], l[n])
                                            ELSE k[n-1]
           Good(m) == \E k : k = [n \in 0 .. m |-> Body(k, n)]
           T == {m \in 0 .. Len(l) : ~ Good(m)}
<1>1. T = {}
  <2> SUFFICES ASSUME T # {} PROVE FALSE
    OBVIOUS
  <2>1. PICK m \in T : \A i \in T : m <= i
    <3>1. T \subseteq Nat  OBVIOUS
    <3> QED  BY <3>1, NatMin, Zenon
  <2>2. m \in 0 .. Len(l) /\ ~ Good(m)
    OBVIOUS
  <2>3. CASE m = 0
    <3> DEFINE k == [n \in 0 .. 0 |-> << >>]
    <3>1. k = [n \in 0 .. 0 |-> Body(k, n)]  OBVIOUS
    <3> QED  BY <3>1, <2>2, <2>3, Zenon
  <2>4. CASE m # 0
    <3> HIDE DEF T
    <3>1. m - 1 \in 0 .. Len(l) /\ m - 1 \notin T
      <4>1. m - 1 \in 0 .. Len(l)  BY <2>2, <2>4
      <4>2. m - 1 \notin T         BY <2>1, <2>2, <4>1
      <4> QED  BY <4>1, <4>2
    <3> USE DEF T
    <3>2. PICK k : k = [n \in 0 .. m - 1 |-> Body(k, n)]
      BY <3>1, Zenon
    <3> DEFINE last == IF l[m] \in S THEN Append(k[m-1], l[m]) ELSE k[m-1]
               k2 == [n \in 0 .. m |-> IF n = m THEN last ELSE k[n]]
    <3>3. ASSUME NEW n \in 0 .. m
          PROVE  k2[n] = Body(k2, n)
      <4>1. CASE n = 0
        <5>1. k2[0] = k[0]  BY <2>2, <2>4
        <5>2. k[0] = << >>  BY <3>2, <2>2, <2>4
        <5> QED  BY <4>1, <5>1, <5>2
      <4>2. CASE n = m
        <5>1. k2[m-1] = k[m-1]  BY <2>2, <2>4
        <5> QED  BY <4>2, <5>1, <2>2, <2>4
      <4>3. CASE n # 0 /\ n # m
        <5>1. n \in 0 .. m - 1 /\ n - 1 \in 0 .. m - 1
          BY <4>3, <2>2
        <5>2. k2[n] = k[n] /\ k2[n-1] = k[n-1]
          BY <5>1, <2>2, <4>3
        <5>3. k[n] = Body(k, n)
          BY <5>1, <3>2, Zenon
        <5> QED  BY <5>2, <5>3
      <4> QED  BY <4>1, <4>2, <4>3
    <3>4. k2 = [n \in 0 .. m |-> k2[n]]
      OBVIOUS
    <3> HIDE DEF k2
    <3>5. k2 = [n \in 0 .. m |-> Body(k2, n)]
      BY <3>3, <3>4, Zenon
    <3> QED  BY <3>5, <2>2, Zenon
  <2> QED  BY <2>3, <2>4
<1>2. Good(Len(l))
  <2>1. Len(l) \in 0 .. Len(l)  OBVIOUS
  <2> QED  BY <1>1, <2>1, Zenon
<1> DEFINE K == CHOOSE k : k = [n \in 0 .. Len(l) |-> Body(k, n)]
<1>3. K = [n \in 0 .. Len(l) |-> Body(K, n)]
  BY <1>2, Zenon
<1>4. Keep(l, S) = K[Len(l)]
  BY DEF Keep
<1> HIDE DEF K
<1>5. K[0] = << >>
  BY <1>3
<1>6. \A n \in 1 .. Len(l) : K[n] = Body(K, n)
  <2> HIDE DEF Body
  <2>1. \A n \in 0 .. Len(l) : K[n] = Body(K, n)
    BY <1>3, Zenon
  <2> QED  BY <2>1
<1> QED
  BY <1>4, <1>5, <1>6

(***************************************************************************)
(* Keep leaves the elements of S, in their order.                          *)
(***************************************************************************)
LEMMA KeepProperties ==
    ASSUME NEW E, NEW l \in Seq(E), NoDup(l), NEW S
    PROVE  LET m == Keep(l, S) IN
           /\ m \in Seq(E)
           /\ Elems(m) = Elems(l) \cap S
           /\ NoDup(m)
           /\ \A x, y : Before(m, x, y) <=>
                           Before(l, x, y) /\ x \in S /\ y \in S
<1>1. PICK k : /\ Keep(l, S) = k[Len(l)]
               /\ k[0] = << >>
               /\ \A n \in 1 .. Len(l) :
                     k[n] = IF l[n] \in S THEN Append(k[n-1], l[n]) ELSE k[n-1]
  BY KeepDef
<1>2. /\ DOMAIN l = 1 .. Len(l)
      /\ Len(l) \in Nat
      /\ \A i \in 1 .. Len(l) : l[i] \in E
  OBVIOUS
<1> DEFINE Pre(n) == {l[i] : i \in 1 .. n}
           Ord(n, x, y) == \E i, j \in 1 .. n : i < j /\ l[i] = x /\ l[j] = y
           Good(n) == /\ k[n] \in Seq(E)
                      /\ Elems(k[n]) = Pre(n) \cap S
                      /\ NoDup(k[n])
                      /\ \A x, y : Before(k[n], x, y) <=>
                                      Ord(n, x, y) /\ x \in S /\ y \in S
           T == {n \in 0 .. Len(l) : ~ Good(n)}
<1>3. Good(0)
  <2>1. k[0] \in Seq(E) /\ DOMAIN k[0] = {}
    BY <1>1
  <2>2. Pre(0) = {} /\ Elems(k[0]) = {}
    BY <2>1 DEF Elems, Range
  <2> QED
    BY <2>1, <2>2 DEF NoDup, Before
<1>4. ASSUME NEW n \in 1 .. Len(l), Good(n-1)
      PROVE  Good(n)
  <2> DEFINE e == l[n]
  <2>1. /\ n - 1 \in Nat
        /\ 1 .. n = 1 .. n - 1 \cup {n}
        /\ Pre(n) = Pre(n-1) \cup {e}
        /\ e \in E
        /\ e \notin Pre(n-1)
    BY <1>2 DEF NoDup
  <2>2. \A x, y : Ord(n, x, y) <=> Ord(n-1, x, y) \/ (x \in Pre(n-1) /\ y = e)
    BY <1>2, <2>1
  <2>3. CASE e \in S
    <3>1. k[n] = CIRCLEQ_INSERT_TAIL(k[n-1], e)
      BY <1>1, <2>3, Zenon DEF CIRCLEQ_INSERT_TAIL
    <3>2. e \notin Elems(k[n-1])
      BY <1>4, <2>1
    <3>3. /\ k[n] \in Seq(E)
          /\ Elems(k[n]) = Elems(k[n-1]) \cup {e}
          /\ NoDup(k[n])
          /\ \A x, y : Before(k[n], x, y) <=>
                Before(k[n-1], x, y) \/ (x \in Elems(k[n-1]) /\ y = e)
      BY <1>4, <2>1, <3>1, <3>2, InsertTail
    <3> HIDE DEF Pre, Ord
    <3>4. Elems(k[n]) = Pre(n) \cap S
      BY <1>4, <2>1, <2>3, <3>3
    <3>5. \A x, y : Before(k[n], x, y) <=> Ord(n, x, y) /\ x \in S /\ y \in S
      BY <1>4, <2>2, <2>3, <3>3
    <3> QED  BY <3>3, <3>4, <3>5
  <2>4. CASE e \notin S
    <3>1. k[n] = k[n-1]
      BY <1>1, <2>4
    <3> HIDE DEF Pre, Ord
    <3>2. Pre(n) \cap S = Pre(n-1) \cap S
      BY <2>1, <2>4
    <3>3. \A x, y : Ord(n, x, y) /\ y \in S <=> Ord(n-1, x, y) /\ y \in S
      BY <2>2, <2>4
    <3> QED  BY <1>4, <3>1, <3>2, <3>3
  <2> QED  BY <2>3, <2>4
<1> HIDE DEF Good
<1>5. T = {}
  <2> SUFFICES ASSUME T # {} PROVE FALSE
    OBVIOUS
  <2>1. PICK n \in T : \A i \in T : n <= i
    <3>1. T \subseteq Nat  OBVIOUS
    <3> QED  BY <3>1, NatMin, Zenon
  <2>2. n \in 0 .. Len(l) /\ ~ Good(n) /\ n # 0
    BY <1>3
  <2>3. n - 1 \in 0 .. Len(l) /\ n \in 1 .. Len(l)
    BY <2>2
  <2>4. n - 1 \notin T
    <3> HIDE DEF T
    <3> QED  BY <2>1, <2>2, <2>3
  <2> QED  BY <1>4, <2>2, <2>3, <2>4
<1>6. Good(Len(l))
  <2>1. Len(l) \in 0 .. Len(l)  BY <1>2
  <2> QED  BY <1>5, <2>1
<1>7. Pre(Len(l)) = Elems(l)
  BY <1>2 DEF Elems, Range
<1>8. \A x, y : Ord(Len(l), x, y) <=> Before(l, x, y)
  BY <1>2 DEF Before
<1> HIDE DEF Pre, Ord
<1> QED
  BY <1>1, <1>6, <1>7, <1>8 DEF Good

(***************************************************************************)
(* CIRCLEQ_REMOVE takes one element out and leaves the others in order.    *)
(***************************************************************************)
LEMMA Removed ==
    ASSUME NEW E, NEW l \in Seq(E), NoDup(l), NEW e
    PROVE  LET m == CIRCLEQ_REMOVE(l, e) IN
           /\ m \in Seq(E)
           /\ Elems(m) = Elems(l) \ {e}
           /\ NoDup(m)
           /\ \A x, y : Before(m, x, y) <=>
                           Before(l, x, y) /\ x # e /\ y # e
<1>1. \A x, y : Before(l, x, y) => x \in Elems(l) /\ y \in Elems(l)
  BY BeforeOrder
<1> QED
  BY <1>1, KeepProperties DEF CIRCLEQ_REMOVE

-----------------------------------------------------------------------------
\* The inductive invariant of a broker.
BrokerOK(b) == BrokerType(b) /\ CursorOrder(b) /\ NoGarbage(b)

\* The list of a broker orders its entries.
LEMMA ListOrder ==
    ASSUME NEW b, BrokerType(b)
    PROVE  /\ b.list \in Seq(Entries) /\ NoDup(b.list)
           /\ b.id \in Nat
           /\ b.eid \in [Entries -> Nat]
           /\ b.del \subseteq ObjsOf(b)
           /\ Elems(b.list) \subseteq Entries
           /\ \A x : ~ Before(b.list, x, x)
           /\ \A x, y : Before(b.list, x, y) => x \in Elems(b.list) /\ y \in Elems(b.list)
           /\ \A x, y : Before(b.list, x, y) => ~ Before(b.list, y, x)
           /\ \A x, y, z : Before(b.list, x, y) /\ Before(b.list, y, z)
                               => Before(b.list, x, z)
           /\ \A x, y \in Elems(b.list) :
                 x = y \/ Before(b.list, x, y) \/ Before(b.list, y, x)
<1>1. b.list \in Seq(Entries) /\ NoDup(b.list)
  BY DEF BrokerType
<1>2. Elems(b.list) \subseteq Entries
  BY <1>1 DEF Elems, Range
<1>3. b.id \in Nat /\ b.eid \in [Entries -> Nat] /\ b.del \subseteq ObjsOf(b)
  BY DEF BrokerType, ObjsOf
<1> QED
  BY <1>1, <1>2, <1>3, BeforeOrder

\* What broker_add_obj does to the list: the object is last.
LEMMA AddEffect ==
    ASSUME NEW b, BrokerType(b), NEW o \in Objs, o \notin Elems(b.list)
    PROVE  LET n == broker_add_obj(b, o) IN
           /\ BrokerType(n)
           /\ Elems(n.list) = Elems(b.list) \cup {o}
           /\ \A x, y : Before(n.list, x, y) <=>
                           Before(b.list, x, y) \/ (x \in Elems(b.list) /\ y = o)
           /\ n.id = b.id + 1
           /\ n.eid = [b.eid EXCEPT ![o] = b.id + 1]
           /\ n.del = b.del
<1> DEFINE n == broker_add_obj(b, o)
<1>1. /\ b.list \in Seq(Entries)
      /\ o \in Entries
      /\ NoDup(b.list)
  BY DEF BrokerType, Entries
<1>2. n.list = CIRCLEQ_INSERT_TAIL(b.list, o)
  BY DEF broker_add_obj, BrokerType
<1>3. /\ n.list \in Seq(Entries)
      /\ Elems(n.list) = Elems(b.list) \cup {o}
      /\ NoDup(n.list)
      /\ \A x, y : Before(n.list, x, y) <=>
                      Before(b.list, x, y) \/ (x \in Elems(b.list) /\ y = o)
  BY <1>1, <1>2, InsertTail
<1>4. /\ n.id = b.id + 1
      /\ n.eid = [b.eid EXCEPT ![o] = b.id + 1]
      /\ n.del = b.del
  BY DEF broker_add_obj, BrokerType
<1>5. n = [list |-> n.list, id |-> n.id, eid |-> n.eid, del |-> n.del]
  BY DEF broker_add_obj, BrokerType
<1>6. BrokerType(n)
  <2> HIDE DEF n
  <2> QED  BY <1>1, <1>3, <1>4, <1>5 DEF BrokerType
<1> QED
  BY <1>3, <1>4, <1>6

\* broker_add_obj keeps the broker in order: the new id is above every other.
LEMMA AddOK ==
    ASSUME NEW b, BrokerOK(b), NEW o \in Objs, o \notin Elems(b.list)
    PROVE  BrokerOK(broker_add_obj(b, o))
<1> DEFINE n == broker_add_obj(b, o)
<1>1. /\ BrokerType(n)
      /\ Elems(n.list) = Elems(b.list) \cup {o}
      /\ \A x, y : Before(n.list, x, y) <=>
                      Before(b.list, x, y) \/ (x \in Elems(b.list) /\ y = o)
      /\ n.id = b.id + 1
      /\ n.eid = [b.eid EXCEPT ![o] = b.id + 1]
      /\ n.del = b.del
  BY AddEffect DEF BrokerOK
<1> HIDE DEF n
<1>2. /\ b.id \in Nat
      /\ b.eid \in [Entries -> Nat]
      /\ \A x, y : Before(b.list, x, y) => x \in Elems(b.list) /\ y \in Elems(b.list)
  BY ListOrder, Zenon DEF BrokerOK
<1>3. /\ o \in Entries
      /\ ClientsOf(n) = ClientsOf(b)
      /\ ObjsOf(n) = ObjsOf(b) \cup {o}
      /\ \A e \in Entries : n.eid[e] = IF e = o THEN b.id + 1 ELSE b.eid[e]
      /\ \A c \in ClientsOf(b) : c \in Entries /\ c # o
      /\ \A p \in ObjsOf(b) : p \in Entries /\ p # o
  BY <1>1, <1>2, EntriesAssumption DEF ClientsOf, ObjsOf, Entries
<1>4. CursorOrder(n)
  <2>1. \A c \in ClientsOf(n) : n.eid[c] <= n.id
    BY <1>1, <1>2, <1>3 DEF BrokerOK, CursorOrder
  <2>2. \A p \in ObjsOf(n) : 0 < n.eid[p] /\ n.eid[p] <= n.id
    BY <1>1, <1>2, <1>3 DEF BrokerOK, CursorOrder
  <2>3. \A p, q \in ObjsOf(n) : Before(n.list, p, q) => n.eid[p] < n.eid[q]
    BY <1>1, <1>2, <1>3 DEF BrokerOK, CursorOrder
  <2>4. \A c \in ClientsOf(n), p \in ObjsOf(n) :
           IF Before(n.list, c, p) THEN n.eid[c] < n.eid[p]
                                   ELSE n.eid[p] <= n.eid[c]
    BY <1>1, <1>2, <1>3 DEF BrokerOK, CursorOrder, ClientsOf
  <2> QED  BY <2>1, <2>2, <2>3, <2>4 DEF CursorOrder
<1>5. NoGarbage(n)
  BY <1>1, <1>2, <1>3 DEF BrokerOK, BrokerType, NoGarbage, no_clients_need_this, ObjsOf
<1> QED
  BY <1>1, <1>4, <1>5 DEF BrokerOK, n

\* What broker_del_obj_now does to the list: the object is gone.
LEMMA DelNowEffect ==
    ASSUME NEW b, BrokerType(b), NEW o \in Objs
    PROVE  LET n == broker_del_obj_now(b, o) IN
           /\ BrokerType(n)
           /\ Elems(n.list) = Elems(b.list) \ {o}
           /\ \A x, y : Before(n.list, x, y) <=>
                           Before(b.list, x, y) /\ x # o /\ y # o
           /\ n.id = b.id
           /\ n.eid = [b.eid EXCEPT ![o] = 0]
           /\ n.del = b.del \ {o}
<1> DEFINE n == broker_del_obj_now(b, o)
<1>1. /\ b.list \in Seq(Entries)
      /\ o \in Entries
      /\ NoDup(b.list)
  BY DEF BrokerType, Entries
<1>2. n.list = CIRCLEQ_REMOVE(b.list, o)
  BY DEF broker_del_obj_now, BrokerType
<1>3. /\ n.list \in Seq(Entries)
      /\ Elems(n.list) = Elems(b.list) \ {o}
      /\ NoDup(n.list)
      /\ \A x, y : Before(n.list, x, y) <=>
                      Before(b.list, x, y) /\ x # o /\ y # o
  BY <1>1, <1>2, Removed
<1>4. /\ n.id = b.id
      /\ n.eid = [b.eid EXCEPT ![o] = 0]
      /\ n.del = b.del \ {o}
      /\ n = [list |-> n.list, id |-> n.id, eid |-> n.eid, del |-> n.del]
  BY DEF broker_del_obj_now
<1>5. BrokerType(n)
  <2> HIDE DEF n
  <2> QED  BY <1>1, <1>3, <1>4 DEF BrokerType
<1> QED
  BY <1>3, <1>4, <1>5

\* broker_del_obj_now keeps the broker in order.
LEMMA DelNowOK ==
    ASSUME NEW b, BrokerType(b), CursorOrder(b), NEW o \in Objs,
           \A p \in b.del : p # o => ~ no_clients_need_this(b, p)
    PROVE  BrokerOK(broker_del_obj_now(b, o))
<1> DEFINE n == broker_del_obj_now(b, o)
<1>1. /\ BrokerType(n)
      /\ Elems(n.list) = Elems(b.list) \ {o}
      /\ \A x, y : Before(n.list, x, y) <=>
                      Before(b.list, x, y) /\ x # o /\ y # o
      /\ n.id = b.id
      /\ n.eid = [b.eid EXCEPT ![o] = 0]
      /\ n.del = b.del \ {o}
  BY DelNowEffect, Zenon
<1> HIDE DEF n
<1>2. /\ b.id \in Nat
      /\ b.eid \in [Entries -> Nat]
      /\ b.del \subseteq ObjsOf(b)
      /\ Elems(b.list) \subseteq Entries
  BY ListOrder
<1>3. /\ ClientsOf(n) = ClientsOf(b)
      /\ ObjsOf(n) = ObjsOf(b) \ {o}
      /\ \A e \in Elems(b.list) : e # o => n.eid[e] = b.eid[e]
      /\ \A c \in ClientsOf(b) : c \in Elems(b.list) /\ c # o
      /\ \A p \in ObjsOf(b) : p \in Elems(b.list)
  BY <1>1, <1>2, EntriesAssumption DEF ClientsOf, ObjsOf, Entries
<1>4. CursorOrder(n)
  BY <1>1, <1>2, <1>3 DEF CursorOrder
<1>5. NoGarbage(n)
  BY <1>1, <1>2, <1>3, Zenon DEF NoGarbage, no_clients_need_this
<1> QED
  BY <1>1, <1>4, <1>5 DEF BrokerOK, n

\* What moving an object to the tail does to the list.
LEMMA ToTailEffect ==
    ASSUME NEW b, BrokerType(b), NEW o \in ObjsOf(b),
           NEW d, d \subseteq b.del \cup {o}
    PROVE  LET n == ToTail(b, o, d) IN
           /\ BrokerType(n)
           /\ Elems(n.list) = Elems(b.list)
           /\ \A x, y : Before(n.list, x, y) <=>
                 \/ Before(b.list, x, y) /\ x # o /\ y # o
                 \/ x \in Elems(b.list) /\ x # o /\ y = o
           /\ n.id = b.id + 1
           /\ n.eid = [b.eid EXCEPT ![o] = b.id + 1]
           /\ n.del = d
<1> DEFINE n == ToTail(b, o, d)
           m == CIRCLEQ_REMOVE(b.list, o)
<1>1. /\ b.list \in Seq(Entries)
      /\ NoDup(b.list)
      /\ o \in Entries
      /\ o \in Elems(b.list)
      /\ d \subseteq Elems(b.list) /\ d \subseteq Objs
  BY DEF BrokerType, ObjsOf, Entries
<1>2. /\ m \in Seq(Entries)
      /\ Elems(m) = Elems(b.list) \ {o}
      /\ NoDup(m)
      /\ \A x, y : Before(m, x, y) <=> Before(b.list, x, y) /\ x # o /\ y # o
  BY <1>1, Removed
<1>3. n.list = CIRCLEQ_INSERT_TAIL(m, o)
  BY Zenon DEF ToTail
<1> HIDE DEF m
<1>4. /\ n.list \in Seq(Entries)
      /\ Elems(n.list) = Elems(m) \cup {o}
      /\ NoDup(n.list)
      /\ \A x, y : Before(n.list, x, y) <=>
                      Before(m, x, y) \/ (x \in Elems(m) /\ y = o)
  BY <1>1, <1>2, <1>3, InsertTail
<1>5. /\ n.id = b.id + 1
      /\ n.eid = [b.eid EXCEPT ![o] = b.id + 1]
      /\ n.del = d
      /\ n = [list |-> n.list, id |-> n.id, eid |-> n.eid, del |-> n.del]
  BY DEF ToTail
<1> HIDE DEF n
<1>6. Elems(n.list) = Elems(b.list)
  BY <1>1, <1>2, <1>4
<1>7. BrokerType(n)
  <2>1. n.id \in Nat /\ n.eid \in [Entries -> Nat] /\ n.del \in SUBSET Objs
    BY <1>1, <1>5 DEF BrokerType
  <2> QED  BY <1>1, <1>4, <1>5, <1>6, <2>1 DEF BrokerType
<1>8. \A x, y : Before(n.list, x, y) <=>
         \/ Before(b.list, x, y) /\ x # o /\ y # o
         \/ x \in Elems(b.list) /\ x # o /\ y = o
  BY <1>2, <1>4, Zenon
<1> QED
  BY <1>5, <1>6, <1>7, <1>8 DEF n

\* Moving an object to the tail under a new id keeps the broker in order, if
\* some client is there to read it when it is flagged as deleted.
LEMMA ToTailOK ==
    ASSUME NEW b, BrokerOK(b), NEW o \in ObjsOf(b),
           NEW d, d \subseteq b.del \cup {o},
           o \in d => ClientsOf(b) # {}
    PROVE  BrokerOK(ToTail(b, o, d))
<1> DEFINE n == ToTail(b, o, d)
<1>1. /\ BrokerType(n)
      /\ Elems(n.list) = Elems(b.list)
      /\ \A x, y : Before(n.list, x, y) <=>
            \/ Before(b.list, x, y) /\ x # o /\ y # o
            \/ x \in Elems(b.list) /\ x # o /\ y = o
      /\ n.id = b.id + 1
      /\ n.eid = [b.eid EXCEPT ![o] = b.id + 1]
      /\ n.del = d
  <2>1. BrokerType(b) /\ d \subseteq b.del \cup {o}
    BY Zenon DEF BrokerOK
  <2> QED  BY ONLY <2>1, o \in ObjsOf(b), ToTailEffect, Zenon
<1> HIDE DEF n
<1>2. /\ b.id \in Nat
      /\ b.eid \in [Entries -> Nat]
      /\ b.del \subseteq ObjsOf(b)
      /\ Elems(b.list) \subseteq Entries
      /\ \A x, y : Before(b.list, x, y) => x \in Elems(b.list) /\ y \in Elems(b.list)
  BY ListOrder, Zenon DEF BrokerOK
<1>3. /\ o \in Entries
      /\ ClientsOf(n) = ClientsOf(b)
      /\ ObjsOf(n) = ObjsOf(b)
      /\ \A e \in Elems(b.list) : n.eid[e] = IF e = o THEN b.id + 1 ELSE b.eid[e]
      /\ \A c \in ClientsOf(b) : c \in Elems(b.list) /\ c # o
      /\ \A p \in ObjsOf(b) : p \in Elems(b.list)
      /\ \A e \in Elems(b.list) : b.eid[e] \in Nat
  BY <1>1, <1>2, EntriesAssumption DEF ClientsOf, ObjsOf, Entries
<1>4. CursorOrder(n)
  <2>1. \A c \in ClientsOf(n) : n.eid[c] <= n.id
    BY <1>1, <1>2, <1>3 DEF BrokerOK, CursorOrder
  <2>2. \A p \in ObjsOf(n) : 0 < n.eid[p] /\ n.eid[p] <= n.id
    BY <1>1, <1>2, <1>3 DEF BrokerOK, CursorOrder
  <2>3. \A p, q \in ObjsOf(n) : Before(n.list, p, q) => n.eid[p] < n.eid[q]
    BY <1>1, <1>2, <1>3 DEF BrokerOK, CursorOrder
  <2>4. \A c \in ClientsOf(n), p \in ObjsOf(n) :
           IF Before(n.list, c, p) THEN n.eid[c] < n.eid[p]
                                   ELSE n.eid[p] <= n.eid[c]
    BY <1>1, <1>2, <1>3 DEF BrokerOK, CursorOrder
  <2> QED  BY <2>1, <2>2, <2>3, <2>4 DEF CursorOrder
<1>5. NoGarbage(n)
  <2> SUFFICES ASSUME NEW p \in d
               PROVE  \E c \in ClientsOf(n) : ~ (n.eid[c] >= n.eid[p])
    BY <1>1, Zenon DEF NoGarbage, no_clients_need_this
  <2>1. CASE p = o
    BY <2>1, <1>1, <1>2, <1>3 DEF BrokerOK, CursorOrder
  <2>2. CASE p # o
    BY <2>2, <1>1, <1>2, <1>3 DEF BrokerOK, NoGarbage, no_clients_need_this
  <2> QED  BY <2>1, <2>2
<1> QED
  BY <1>1, <1>4, <1>5, Zenon DEF BrokerOK, n

\* What broker_client_create does to the list: every object is after the
\* cursor.
LEMMA ClientCreateEffect ==
    ASSUME NEW b, BrokerType(b), NEW c \in Clients, c \notin Elems(b.list)
    PROVE  LET n == broker_client_create(b, c) IN
           /\ BrokerType(n)
           /\ Elems(n.list) = Elems(b.list) \cup {c}
           /\ \A x, y : Before(n.list, x, y) <=>
                           Before(b.list, x, y) \/ (x = c /\ y \in Elems(b.list))
           /\ n.id = b.id
           /\ n.eid = [b.eid EXCEPT ![c] = IF ObjsOf(b) = {} THEN b.id ELSE 0]
           /\ n.del = b.del
<1> DEFINE n == broker_client_create(b, c)
           new == [b EXCEPT !.list = CIRCLEQ_INSERT_HEAD(b.list, c)]
<1>1. /\ b.list \in Seq(Entries)
      /\ c \in Entries /\ c \notin Objs
      /\ NoDup(b.list)
  BY EntriesAssumption DEF BrokerType, Entries
<1>2. new.list = CIRCLEQ_INSERT_HEAD(b.list, c) /\ n.list = new.list
  BY DEF broker_client_create, BrokerType
<1>3. n.eid = [b.eid EXCEPT ![c] = IF broker_has_more_data(new, c) THEN 0 ELSE b.id]
  BY DEF broker_client_create
<1>4. /\ n.id = b.id
      /\ n.del = b.del
      /\ n = [list |-> n.list, id |-> n.id, eid |-> n.eid, del |-> n.del]
  BY DEF broker_client_create
<1> HIDE DEF n, new
<1>5. /\ n.list \in Seq(Entries)
      /\ Elems(n.list) = Elems(b.list) \cup {c}
      /\ NoDup(n.list)
      /\ \A x, y : Before(n.list, x, y) <=>
                      Before(b.list, x, y) \/ (x = c /\ y \in Elems(b.list))
  BY <1>1, <1>2, InsertHead
<1>6. Unread(new, c) = ObjsOf(b)
  BY <1>1, <1>2, <1>5 DEF Unread, ObjsOf
<1>7. n.eid = [b.eid EXCEPT ![c] = IF ObjsOf(b) = {} THEN b.id ELSE 0]
  BY <1>3, <1>6 DEF broker_has_more_data
<1>8. BrokerType(n)
  <2>1. n.id \in Nat /\ n.eid \in [Entries -> Nat] /\ n.del \in SUBSET Objs
    BY <1>1, <1>4, <1>7 DEF BrokerType
  <2> QED  BY <1>1, <1>4, <1>5, <2>1 DEF BrokerType
<1> QED
  BY <1>4, <1>5, <1>7, <1>8 DEF n

\* broker_client_create keeps the broker in order: with id 0 every object is
\* newer than the client, and with no object there is nothing to compare.
LEMMA ClientCreateOK ==
    ASSUME NEW b, BrokerOK(b), NEW c \in Clients, c \notin Elems(b.list)
    PROVE  BrokerOK(broker_client_create(b, c))
<1> DEFINE n == broker_client_create(b, c)
<1>1. /\ BrokerType(n)
      /\ Elems(n.list) = Elems(b.list) \cup {c}
      /\ \A x, y : Before(n.list, x, y) <=>
                      Before(b.list, x, y) \/ (x = c /\ y \in Elems(b.list))
      /\ n.id = b.id
      /\ n.eid = [b.eid EXCEPT ![c] = IF ObjsOf(b) = {} THEN b.id ELSE 0]
      /\ n.del = b.del
  BY ClientCreateEffect, Zenon DEF BrokerOK
<1> HIDE DEF n
<1>2. /\ b.id \in Nat
      /\ b.eid \in [Entries -> Nat]
      /\ b.del \subseteq ObjsOf(b)
      /\ Elems(b.list) \subseteq Entries
      /\ \A x, y : Before(b.list, x, y) => x \in Elems(b.list) /\ y \in Elems(b.list)
  BY ListOrder, Zenon DEF BrokerOK
<1>3. /\ c \in Entries
      /\ ClientsOf(n) = ClientsOf(b) \cup {c}
      /\ ObjsOf(n) = ObjsOf(b)
      /\ \A e \in Elems(b.list) : n.eid[e] = b.eid[e]
      /\ n.eid[c] = IF ObjsOf(b) = {} THEN b.id ELSE 0
      /\ \A d \in ClientsOf(b) : d \in Elems(b.list) /\ d # c
      /\ \A p \in ObjsOf(b) : p \in Elems(b.list) /\ p # c
      /\ \A e \in Elems(b.list) : b.eid[e] \in Nat
  BY <1>1, <1>2, EntriesAssumption DEF ClientsOf, ObjsOf, Entries
<1>4. CursorOrder(n)
  <2>1. \A d \in ClientsOf(n) : n.eid[d] <= n.id
    BY <1>1, <1>2, <1>3 DEF BrokerOK, CursorOrder
  <2>2. \A p \in ObjsOf(n) : 0 < n.eid[p] /\ n.eid[p] <= n.id
    BY <1>1, <1>2, <1>3, Zenon DEF BrokerOK, CursorOrder
  <2>3. \A p, q \in ObjsOf(n) : Before(n.list, p, q) => n.eid[p] < n.eid[q]
    BY <1>1, <1>2, <1>3, Zenon DEF BrokerOK, CursorOrder
  <2>4. \A d \in ClientsOf(n), p \in ObjsOf(n) :
           IF Before(n.list, d, p) THEN n.eid[d] < n.eid[p]
                                   ELSE n.eid[p] <= n.eid[d]
    BY <1>1, <1>2, <1>3 DEF BrokerOK, CursorOrder
  <2> QED  BY <2>1, <2>2, <2>3, <2>4 DEF CursorOrder
<1>5. NoGarbage(n)
  BY <1>1, <1>2, <1>3, Zenon DEF BrokerOK, NoGarbage, no_clients_need_this
<1> QED
  BY <1>1, <1>4, <1>5, Zenon DEF BrokerOK, n

\* The deleted objects that no client other than c has still to read.
OnlyNeededBy(b, c) ==
    {o \in b.del : \A d \in ClientsOf(b) \ {c} : b.eid[d] >= b.eid[o]}

\* What broker_client_delete does to the list: the cursor and the swept
\* objects are gone, the order of the rest stays.
LEMMA ClientDeleteEffect ==
    ASSUME NEW b, BrokerType(b), NEW c \in Clients
    PROVE  LET n == broker_client_delete(b, c)
               gone == OnlyNeededBy(b, c) \cup {c} IN
           /\ BrokerType(n)
           /\ Elems(n.list) = Elems(b.list) \ gone
           /\ \A x, y : Before(n.list, x, y) <=>
                           Before(b.list, x, y) /\ x \notin gone /\ y \notin gone
           /\ n.id = b.id
           /\ n.eid = [e \in Entries |-> IF e \in gone THEN 0 ELSE b.eid[e]]
           /\ n.del = b.del \ gone
<1> DEFINE n == broker_client_delete(b, c)
           m == CIRCLEQ_REMOVE(b.list, c)
           left == [b EXCEPT !.list = CIRCLEQ_REMOVE(b.list, c)]
           swept == {o \in b.del : no_clients_need_this(left, o)}
           gone == OnlyNeededBy(b, c) \cup {c}
<1>1. /\ b.list \in Seq(Entries)
      /\ NoDup(b.list)
      /\ c \notin Objs
      /\ b.del \subseteq Elems(b.list) /\ b.del \subseteq Objs
      /\ b.id \in Nat
      /\ b.eid \in [Entries -> Nat]
      /\ Elems(b.list) \subseteq Entries
  BY ListOrder, EntriesAssumption DEF BrokerType
<1>2. /\ m \in Seq(Entries)
      /\ Elems(m) = Elems(b.list) \ {c}
      /\ NoDup(m)
      /\ \A x, y : Before(m, x, y) <=> Before(b.list, x, y) /\ x # c /\ y # c
  BY <1>1, Removed
<1>3. left.list = m /\ left.eid = b.eid
  BY DEF BrokerType
<1>4. /\ n.list = Keep(left.list, Entries \ swept)
      /\ n.id = b.id
      /\ n.eid = [e \in Entries |-> IF e \in swept \cup {c} THEN 0 ELSE b.eid[e]]
      /\ n.del = b.del \ swept
      /\ n = [list |-> n.list, id |-> n.id, eid |-> n.eid, del |-> n.del]
  BY DEF broker_client_delete
<1> HIDE DEF n, m, left
<1>5. swept = OnlyNeededBy(b, c)
  <2>1. ClientsOf(left) = ClientsOf(b) \ {c}
    BY <1>2, <1>3, Zenon DEF ClientsOf
  <2> QED
    BY <1>3, <2>1 DEF OnlyNeededBy, no_clients_need_this
<1> HIDE DEF swept
<1>6. /\ n.list \in Seq(Entries)
      /\ Elems(n.list) = Elems(m) \cap (Entries \ swept)
      /\ NoDup(n.list)
      /\ \A x, y : Before(n.list, x, y) <=>
            Before(m, x, y) /\ x \in Entries \ swept /\ y \in Entries \ swept
  BY <1>2, <1>3, <1>4, KeepProperties
<1>7. Elems(n.list) = Elems(b.list) \ gone
  BY <1>1, <1>2, <1>5, <1>6, Zenon
<1>8. \A x, y : Before(n.list, x, y) <=>
                  Before(b.list, x, y) /\ x \notin gone /\ y \notin gone
  <2>1. \A x, y : Before(b.list, x, y) => x \in Elems(b.list) /\ y \in Elems(b.list)
    BY ListOrder, Zenon
  <2> QED  BY <1>1, <1>2, <1>5, <1>6, <2>1
<1>9. n.del = b.del \ gone
  BY <1>1, <1>4, <1>5
<1>10. n.eid = [e \in Entries |-> IF e \in gone THEN 0 ELSE b.eid[e]]
  BY <1>4, <1>5
<1>11. BrokerType(n)
  <2>1. n.id \in Nat /\ n.eid \in [Entries -> Nat] /\ n.del \in SUBSET Objs
    BY <1>1, <1>4
  <2>2. n.del \subseteq Elems(n.list)
    BY <1>1, <1>7, <1>9, Zenon
  <2> QED  BY <1>4, <1>6, <2>1, <2>2, Zenon DEF BrokerType
<1> QED
  BY <1>4, <1>7, <1>8, <1>9, <1>10, <1>11, Zenon DEF n

\* broker_client_delete keeps the broker in order; the sweep leaves no deleted
\* object that no client needs.
LEMMA ClientDeleteOK ==
    ASSUME NEW b, BrokerOK(b), NEW c \in Clients
    PROVE  BrokerOK(broker_client_delete(b, c))
<1> DEFINE n == broker_client_delete(b, c)
           gone == OnlyNeededBy(b, c) \cup {c}
<1>1. /\ BrokerType(n)
      /\ Elems(n.list) = Elems(b.list) \ gone
      /\ \A x, y : Before(n.list, x, y) <=>
                      Before(b.list, x, y) /\ x \notin gone /\ y \notin gone
      /\ n.id = b.id
      /\ n.eid = [e \in Entries |-> IF e \in gone THEN 0 ELSE b.eid[e]]
      /\ n.del = b.del \ gone
  BY ClientDeleteEffect, Zenon DEF BrokerOK
<1> HIDE DEF n
<1>2. /\ b.id \in Nat
      /\ b.eid \in [Entries -> Nat]
      /\ b.del \subseteq ObjsOf(b)
      /\ Elems(b.list) \subseteq Entries
  BY ListOrder, Zenon DEF BrokerOK
<1>3. /\ ClientsOf(n) = ClientsOf(b) \ {c}
      /\ ObjsOf(n) = ObjsOf(b) \ gone
      /\ \A e \in Elems(n.list) : n.eid[e] = b.eid[e]
      /\ \A d \in ClientsOf(n) : d \in Elems(n.list) /\ d \notin gone
      /\ \A p \in ObjsOf(n) : p \in Elems(n.list) /\ p \notin gone
  BY <1>1, <1>2, EntriesAssumption, Zenon DEF ClientsOf, ObjsOf, Entries, OnlyNeededBy
<1>4. CursorOrder(n)
  <2> HIDE DEF gone
  <2> QED  BY <1>1, <1>2, <1>3 DEF BrokerOK, CursorOrder
<1>5. NoGarbage(n)
  <2> SUFFICES ASSUME NEW p \in n.del
               PROVE  \E d \in ClientsOf(n) : ~ (n.eid[d] >= n.eid[p])
    BY Zenon DEF NoGarbage, no_clients_need_this
  <2>1. p \in b.del /\ p \notin OnlyNeededBy(b, c)
    BY <1>1
  <2>2. \E d \in ClientsOf(b) \ {c} : ~ (b.eid[d] >= b.eid[p])
    BY <2>1 DEF OnlyNeededBy
  <2>3. p \in Elems(n.list)
    BY <1>1 DEF BrokerType
  <2> QED  BY <1>3, <2>2, <2>3
<1> QED
  BY <1>1, <1>4, <1>5, Zenon DEF BrokerOK, n

\* The walk from the cursor stops at the first unread object, or at none.
LEMMA NextDataObj ==
    ASSUME NEW b, BrokerType(b), NEW c
    PROVE  LET o == broker_get_next_data_obj(b, c) IN
           \/ o = NULL /\ Unread(b, c) = {}
           \/ /\ o # NULL
              /\ o \in Unread(b, c)
              /\ \A p \in Unread(b, c) : p = o \/ Before(b.list, o, p)
<1>1. b.list \in Seq(Entries) /\ Unread(b, c) \subseteq Elems(b.list)
  BY DEF BrokerType, Unread, ObjsOf
<1>2. NULL \notin Unread(b, c)
  BY EntriesAssumption DEF Unread, ObjsOf
<1>3. CASE Unread(b, c) = {}
  BY <1>3 DEF broker_get_next_data_obj, broker_has_more_data
<1>4. CASE Unread(b, c) # {}
  <2>1. \E o \in Unread(b, c) : \A p \in Unread(b, c) : p = o \/ Before(b.list, o, p)
    BY <1>1, <1>4, FirstExists
  <2> DEFINE o == broker_get_next_data_obj(b, c)
  <2>2. o = CHOOSE x \in Unread(b, c) :
                \A p \in Unread(b, c) : p = x \/ Before(b.list, x, p)
    BY <1>4 DEF broker_get_next_data_obj, broker_has_more_data
  <2>3. o \in Unread(b, c) /\ \A p \in Unread(b, c) : p = o \/ Before(b.list, o, p)
    BY <2>1, <2>2, Zenon
  <2> QED  BY <1>2, <2>3
<1> QED  BY <1>3, <1>4

\* What reading an object does to the list: the cursor is right behind it.
LEMMA PassEffect ==
    ASSUME NEW b, BrokerType(b), NEW c \in ClientsOf(b), NEW o \in Unread(b, c)
    PROVE  LET n == PassObj(b, c, o) IN
           /\ BrokerType(n)
           /\ Elems(n.list) = Elems(b.list)
           /\ \A x, y : Before(n.list, x, y) <=>
                 \/ Before(b.list, x, y) /\ x # c /\ y # c
                 \/ y = c /\ x # c /\ (x = o \/ Before(b.list, x, o))
                 \/ x = c /\ y # c /\ Before(b.list, o, y)
           /\ n.id = b.id
           /\ n.eid = [b.eid EXCEPT ![c] = b.eid[o]]
           /\ n.del = b.del
<1> DEFINE n == PassObj(b, c, o)
           m == CIRCLEQ_REMOVE(b.list, c)
<1>1. /\ b.list \in Seq(Entries)
      /\ NoDup(b.list)
      /\ c \in Entries /\ c \in Elems(b.list)
      /\ o \in Entries /\ o \in Elems(b.list)
      /\ o # c
  BY EntriesAssumption DEF BrokerType, Entries, ClientsOf, Unread, ObjsOf
<1>2. /\ m \in Seq(Entries)
      /\ Elems(m) = Elems(b.list) \ {c}
      /\ NoDup(m)
      /\ \A x, y : Before(m, x, y) <=> Before(b.list, x, y) /\ x # c /\ y # c
  BY <1>1, Removed
<1>3. n.list = CIRCLEQ_INSERT_AFTER(m, o, c)
  BY Zenon DEF PassObj
<1> HIDE DEF m
<1>4. /\ n.list \in Seq(Entries)
      /\ Elems(n.list) = Elems(m) \cup {c}
      /\ NoDup(n.list)
      /\ \A x, y : Before(n.list, x, y) <=>
                      \/ Before(m, x, y)
                      \/ y = c /\ (x = o \/ Before(m, x, o))
                      \/ x = c /\ Before(m, o, y)
  <2>1. o \in Elems(m) /\ c \notin Elems(m)
    BY <1>1, <1>2, Zenon
  <2> QED  BY <1>1, <1>2, <1>3, <2>1, InsertAfter
<1>5. /\ n.id = b.id
      /\ n.eid = [b.eid EXCEPT ![c] = b.eid[o]]
      /\ n.del = b.del
      /\ n = [list |-> n.list, id |-> n.id, eid |-> n.eid, del |-> n.del]
  BY Zenon DEF PassObj
<1> HIDE DEF n
<1>6. Elems(n.list) = Elems(b.list)
  BY <1>1, <1>2, <1>4
<1>7. \A x, y : Before(n.list, x, y) <=>
         \/ Before(b.list, x, y) /\ x # c /\ y # c
         \/ y = c /\ x # c /\ (x = o \/ Before(b.list, x, o))
         \/ x = c /\ y # c /\ Before(b.list, o, y)
  BY <1>1, <1>2, <1>4
<1>8. BrokerType(n)
  <2>1. n.id \in Nat /\ n.eid \in [Entries -> Nat] /\ n.del \in SUBSET Objs
    BY <1>1, <1>5 DEF BrokerType
  <2>2. n.del \subseteq Elems(n.list)
    BY <1>5, <1>6 DEF BrokerType
  <2> QED  BY <1>4, <1>5, <2>1, <2>2, Zenon DEF BrokerType
<1> QED
  BY <1>5, <1>6, <1>7, <1>8 DEF n

\* After the cursor has passed o, only o itself may have become garbage.
LEMMA PassOrder ==
    ASSUME NEW b, BrokerOK(b), NEW c \in ClientsOf(b), NEW o \in Unread(b, c),
           \A p \in Unread(b, c) : p = o \/ Before(b.list, o, p)
    PROVE  LET n == PassObj(b, c, o) IN
           /\ CursorOrder(n)
           /\ \A p \in n.del : p # o => ~ no_clients_need_this(n, p)
<1> DEFINE n == PassObj(b, c, o)
<1>1. /\ BrokerType(n)
      /\ Elems(n.list) = Elems(b.list)
      /\ \A x, y : Before(n.list, x, y) <=>
            \/ Before(b.list, x, y) /\ x # c /\ y # c
            \/ y = c /\ x # c /\ (x = o \/ Before(b.list, x, o))
            \/ x = c /\ y # c /\ Before(b.list, o, y)
      /\ n.id = b.id
      /\ n.eid = [b.eid EXCEPT ![c] = b.eid[o]]
      /\ n.del = b.del
  BY PassEffect DEF BrokerOK
<1> HIDE DEF n
<1>2. /\ b.id \in Nat
      /\ b.eid \in [Entries -> Nat]
      /\ b.del \subseteq ObjsOf(b)
      /\ Elems(b.list) \subseteq Entries
      /\ \A x : ~ Before(b.list, x, x)
      /\ \A x, y : Before(b.list, x, y) => ~ Before(b.list, y, x)
      /\ \A x, y \in Elems(b.list) :
            x = y \/ Before(b.list, x, y) \/ Before(b.list, y, x)
  BY ListOrder, Zenon DEF BrokerOK
<1>3. /\ c \in Elems(b.list) /\ o \in ObjsOf(b) /\ Before(b.list, c, o)
      /\ ClientsOf(n) = ClientsOf(b)
      /\ ObjsOf(n) = ObjsOf(b)
      /\ \A e \in Elems(b.list) : n.eid[e] = IF e = c THEN b.eid[o] ELSE b.eid[e]
      /\ \A d \in ClientsOf(b) : d \in Elems(b.list)
      /\ \A p \in ObjsOf(b) : p \in Elems(b.list) /\ p # c
      /\ \A e \in Elems(b.list) : b.eid[e] \in Nat
  BY <1>1, <1>2, EntriesAssumption DEF ClientsOf, ObjsOf, Entries, Unread
<1>4. CursorOrder(n)
  <2>1. \A d \in ClientsOf(n) : n.eid[d] <= n.id
    BY <1>1, <1>2, <1>3, Zenon DEF BrokerOK, CursorOrder
  <2>2. \A p \in ObjsOf(n) : 0 < n.eid[p] /\ n.eid[p] <= n.id
    BY <1>1, <1>2, <1>3, Zenon DEF BrokerOK, CursorOrder
  <2>3. \A p, q \in ObjsOf(n) : Before(n.list, p, q) => n.eid[p] < n.eid[q]
    BY <1>1, <1>2, <1>3, Zenon DEF BrokerOK, CursorOrder
  <2>4. ASSUME NEW d \in ClientsOf(n), NEW p \in ObjsOf(n)
        PROVE  IF Before(n.list, d, p) THEN n.eid[d] < n.eid[p]
                                       ELSE n.eid[p] <= n.eid[d]
    <3>1. CASE d = c
      <4>1. Before(n.list, c, p) <=> Before(b.list, o, p)
        BY <1>1, <1>3, Zenon
      <4>2. Before(b.list, o, p) => b.eid[o] < b.eid[p]
        BY <1>3, Zenon DEF BrokerOK, CursorOrder
      <4>3. ~ Before(b.list, o, p) => b.eid[p] <= b.eid[o]
        BY <1>2, <1>3 DEF BrokerOK, CursorOrder
      <4> QED  BY <3>1, <4>1, <4>2, <4>3, <1>3, Zenon
    <3>2. CASE d # c
      BY <3>2, <1>1, <1>3, Zenon DEF BrokerOK, CursorOrder
    <3> QED  BY <3>1, <3>2, Zenon
  <2> QED  BY <2>1, <2>2, <2>3, <2>4, Zenon DEF CursorOrder
<1>5. ASSUME NEW p \in n.del, p # o
      PROVE  \E d \in ClientsOf(n) : ~ (n.eid[d] >= n.eid[p])
  <2>1. p \in ObjsOf(b) /\ p \in b.del
    BY <1>1, <1>2
  <2>2. PICK d \in ClientsOf(b) : ~ (b.eid[d] >= b.eid[p])
    BY <2>1 DEF BrokerOK, NoGarbage, no_clients_need_this
  <2>3. CASE d # c
    BY <1>3, <2>1, <2>2, <2>3, Zenon
  <2>4. CASE d = c
    <3>1. Before(b.list, c, p)
      BY <1>3, <2>1, <2>2, <2>4, Zenon DEF BrokerOK, CursorOrder
    <3>2. Before(b.list, o, p)
      BY <3>1, <2>1, <1>5, Zenon DEF Unread
    <3>3. b.eid[o] < b.eid[p]
      BY <3>2, <1>3, <2>1 DEF BrokerOK, CursorOrder
    <3> QED  BY <3>3, <1>3, <2>1
  <2> QED  BY <2>3, <2>4, Zenon
<1> QED
  BY <1>4, <1>5, Zenon DEF no_clients_need_this, n

\* Nothing to read: only the id of the client changes.
LEMMA NoDataOK ==
    ASSUME NEW b, BrokerOK(b), NEW c \in ClientsOf(b), Unread(b, c) = {}
    PROVE  BrokerOK(CatchUp(b, c))
<1> DEFINE n == CatchUp(b, c)
<1>1. /\ b.list \in Seq(Entries) /\ NoDup(b.list)
      /\ b.id \in Nat
      /\ b.eid \in [Entries -> Nat]
      /\ b.del \subseteq ObjsOf(b)
      /\ Elems(b.list) \subseteq Entries
      /\ c \in Entries
  BY ListOrder, Zenon DEF BrokerOK, ClientsOf
<1>2. /\ n.list = b.list /\ n.id = b.id /\ n.del = b.del
      /\ n.eid = [b.eid EXCEPT ![c] = b.id]
      /\ n = [list |-> n.list, id |-> n.id, eid |-> n.eid, del |-> n.del]
  BY DEF CatchUp
<1> HIDE DEF n
<1>3. BrokerType(n)
  <2>1. n.eid \in [Entries -> Nat] /\ n.del \subseteq Elems(n.list) /\ n.del \in SUBSET Objs
    BY <1>1, <1>2 DEF ObjsOf
  <2> QED  BY <1>1, <1>2, <2>1 DEF BrokerType
<1>4. /\ ClientsOf(n) = ClientsOf(b)
      /\ ObjsOf(n) = ObjsOf(b)
      /\ \A e \in Elems(b.list) : n.eid[e] = IF e = c THEN b.id ELSE b.eid[e]
      /\ \A d \in ClientsOf(b) : d \in Elems(b.list)
      /\ \A p \in ObjsOf(b) : p \in Elems(b.list) /\ p # c
      /\ \A p \in ObjsOf(b) : ~ Before(b.list, c, p)
      /\ \A e \in Elems(b.list) : b.eid[e] \in Nat
  BY <1>1, <1>2, EntriesAssumption, Zenon DEF ClientsOf, ObjsOf, Entries, Unread
<1>5. CursorOrder(n)
  BY <1>1, <1>2, <1>4 DEF BrokerOK, CursorOrder
<1>6. NoGarbage(n)
  <2> SUFFICES ASSUME NEW p \in b.del
               PROVE  \E d \in ClientsOf(n) : ~ (n.eid[d] >= n.eid[p])
    BY <1>2 DEF NoGarbage, no_clients_need_this
  <2>1. PICK d \in ClientsOf(b) : ~ (b.eid[d] >= b.eid[p])
    BY Zenon DEF BrokerOK, NoGarbage, no_clients_need_this
  <2>2. d # c
    BY <2>1, <1>1, <1>4 DEF BrokerOK, CursorOrder
  <2> QED  BY <2>1, <2>2, <1>1, <1>4
<1> QED
  BY <1>3, <1>5, <1>6, Zenon DEF BrokerOK, n

\* broker_client_get_data keeps the broker in order, whether it reads an
\* object, frees it, or finds none.
LEMMA GetDataOK ==
    ASSUME NEW b, BrokerOK(b), NEW c \in ClientsOf(b)
    PROVE  BrokerOK(broker_client_get_data(b, c))
<1> DEFINE o == broker_get_next_data_obj(b, c)
           n == PassObj(b, c, o)
<1>1. \/ o = NULL /\ Unread(b, c) = {}
      \/ /\ o # NULL
         /\ o \in Unread(b, c)
         /\ \A p \in Unread(b, c) : p = o \/ Before(b.list, o, p)
  BY NextDataObj DEF BrokerOK
<1> HIDE DEF o
<1>2. CASE o = NULL
  <2>1. Unread(b, c) = {}
    BY <1>1, <1>2
  <2>2. broker_client_get_data(b, c) = CatchUp(b, c)
    BY <1>2, Zenon DEF broker_client_get_data, o
  <2> QED  BY <2>1, <2>2, NoDataOK
<1>3. CASE o # NULL
  <2>1. /\ BrokerType(n)
        /\ CursorOrder(n)
        /\ \A p \in n.del : p # o => ~ no_clients_need_this(n, p)
        /\ o \in Objs
    BY <1>1, <1>3, PassEffect, PassOrder, Zenon DEF BrokerOK, Unread, ObjsOf
  <2> HIDE DEF n
  <2>2. CASE o \in n.del /\ no_clients_need_this(n, o)
    <3>1. broker_client_get_data(b, c) = broker_del_obj_now(n, o)
      BY <1>3, <2>2, Zenon DEF broker_client_get_data, o, n
    <3> QED  BY <2>1, <3>1, DelNowOK
  <2>3. CASE ~ (o \in n.del /\ no_clients_need_this(n, o))
    <3>1. broker_client_get_data(b, c) = n
      BY <1>3, <2>3, Zenon DEF broker_client_get_data, o, n
    <3> QED  BY <2>1, <2>3, <3>1 DEF BrokerOK, NoGarbage
  <2> QED  BY <2>2, <2>3
<1> QED  BY <1>2, <1>3

\* broker_del_obj keeps the broker in order, with and without clients.
LEMMA DelOK ==
    ASSUME NEW b, BrokerOK(b), NEW o \in ObjsOf(b)
    PROVE  BrokerOK(broker_del_obj(b, o))
<1>1. CASE ClientsOf(b) = {}
  <2>1. broker_del_obj(b, o) = broker_del_obj_now(b, o)
    BY <1>1 DEF broker_del_obj
  <2> QED  BY <2>1, DelNowOK DEF BrokerOK, NoGarbage, ObjsOf
<1>2. CASE ClientsOf(b) # {}
  <2>1. broker_del_obj(b, o) = ToTail(b, o, b.del \cup {o})
    BY <1>2 DEF broker_del_obj
  <2> QED  BY <1>2, <2>1, ToTailOK
<1> QED  BY <1>1, <1>2

\* broker_upd_obj keeps the broker in order.
LEMMA UpdOK ==
    ASSUME NEW b, BrokerOK(b), NEW o \in ObjsOf(b)
    PROVE  BrokerOK(broker_upd_obj(b, o))
BY ToTailOK DEF broker_upd_obj

\* A new broker is in order.
LEMMA CreateOK == BrokerOK(broker_create)
<1>1. << >> \in Seq(Entries) /\ Elems(<< >>) = {} /\ NoDup(<< >>)
  BY DEF Elems, Range, NoDup
<1>2. BrokerType(broker_create)
  BY <1>1 DEF BrokerType, broker_create
<1>3. ClientsOf(broker_create) = {} /\ ObjsOf(broker_create) = {} /\ broker_create.del = {}
  BY <1>1, Zenon DEF ClientsOf, ObjsOf, broker_create
<1> QED  BY <1>2, <1>3 DEF BrokerOK, CursorOrder, NoGarbage

-----------------------------------------------------------------------------
(***************************************************************************)
(* The operations as their users see them: which objects and clients there *)
(* are, what each client has still to read, which objects are flagged.     *)
(***************************************************************************)
LEMMA AddSummary ==
    ASSUME NEW b, BrokerOK(b), NEW o \in Objs, o \notin ObjsOf(b)
    PROVE  LET n == broker_add_obj(b, o) IN
           /\ BrokerOK(n)
           /\ ClientsOf(n) = ClientsOf(b)
           /\ ObjsOf(n) = ObjsOf(b) \cup {o}
           /\ n.del = b.del
           /\ \A c \in ClientsOf(b) : Unread(n, c) = Unread(b, c) \cup {o}
           /\ \A p \in ObjsOf(b) : n.eid[p] = b.eid[p]
<1> DEFINE n == broker_add_obj(b, o)
<1>1. o \notin Elems(b.list) /\ BrokerType(b)
  BY DEF ObjsOf, BrokerOK
<1>2. BrokerOK(n)
  BY <1>1, AddOK, Zenon
<1>3. /\ Elems(n.list) = Elems(b.list) \cup {o}
      /\ \A x, y : Before(n.list, x, y) <=>
                      Before(b.list, x, y) \/ (x \in Elems(b.list) /\ y = o)
      /\ n.eid = [b.eid EXCEPT ![o] = b.id + 1]
      /\ n.del = b.del
  BY <1>1, AddEffect, Zenon
<1> HIDE DEF n
<1>4. \A p \in ObjsOf(b) : n.eid[p] = b.eid[p]
  BY <1>1, <1>3, ListOrder, Zenon DEF ObjsOf
<1> QED
  BY <1>1, <1>2, <1>3, <1>4, EntriesAssumption DEF ClientsOf, ObjsOf, Unread, n

\* broker_del_obj_now, for the users of a broker: objects, clients and what
\* each client has still to read.
LEMMA DelNowSummary ==
    ASSUME NEW b, BrokerOK(b), NEW o \in Objs
    PROVE  LET n == broker_del_obj_now(b, o) IN
           /\ BrokerOK(n)
           /\ ClientsOf(n) = ClientsOf(b)
           /\ ObjsOf(n) = ObjsOf(b) \ {o}
           /\ n.del = b.del \ {o}
           /\ \A c \in ClientsOf(b) : Unread(n, c) = Unread(b, c) \ {o}
           /\ \A p \in ObjsOf(n) : n.eid[p] = b.eid[p]
<1> DEFINE n == broker_del_obj_now(b, o)
<1>1. BrokerOK(n)
  BY DelNowOK, Zenon DEF BrokerOK, NoGarbage
<1>2. /\ Elems(n.list) = Elems(b.list) \ {o}
      /\ \A x, y : Before(n.list, x, y) <=>
                      Before(b.list, x, y) /\ x # o /\ y # o
      /\ n.eid = [b.eid EXCEPT ![o] = 0]
      /\ n.del = b.del \ {o}
  BY DelNowEffect, Zenon DEF BrokerOK
<1> HIDE DEF n
<1>3. \A p \in ObjsOf(n) : n.eid[p] = b.eid[p]
  BY <1>2, ListOrder, Zenon DEF ObjsOf, BrokerOK
<1> QED
  BY <1>1, <1>2, <1>3, EntriesAssumption, Zenon DEF ClientsOf, ObjsOf, Unread, n

\* Moving an object to the tail, for the users of a broker: every client has
\* it to read.
LEMMA ToTailSummary ==
    ASSUME NEW b, BrokerType(b), NEW o \in ObjsOf(b),
           NEW d, d \subseteq b.del \cup {o}
    PROVE  LET n == ToTail(b, o, d) IN
           /\ ClientsOf(n) = ClientsOf(b)
           /\ ObjsOf(n) = ObjsOf(b)
           /\ n.del = d
           /\ \A c \in ClientsOf(b) : Unread(n, c) = Unread(b, c) \cup {o}
           /\ \A p \in ObjsOf(n) \ {o} : n.eid[p] = b.eid[p]
<1> DEFINE n == ToTail(b, o, d)
<1>1. /\ BrokerType(n)
      /\ Elems(n.list) = Elems(b.list)
      /\ \A x, y : Before(n.list, x, y) <=>
            \/ Before(b.list, x, y) /\ x # o /\ y # o
            \/ x \in Elems(b.list) /\ x # o /\ y = o
      /\ n.id = b.id + 1
      /\ n.eid = [b.eid EXCEPT ![o] = b.id + 1]
      /\ n.del = d
  BY ToTailEffect, Zenon
<1> HIDE DEF n
<1>2. \A c \in ClientsOf(b) : c \in Elems(b.list) /\ c # o
  BY EntriesAssumption DEF ClientsOf, ObjsOf
<1>3. \A p \in ObjsOf(n) \ {o} : n.eid[p] = b.eid[p]
  BY <1>1, ListOrder, Zenon DEF ObjsOf
<1> QED
  BY <1>1, <1>2, <1>3 DEF ClientsOf, ObjsOf, Unread, n

\* broker_upd_obj, for the users of a broker: the object is no longer deleted
\* and every client has it to read.
LEMMA UpdSummary ==
    ASSUME NEW b, BrokerOK(b), NEW o \in ObjsOf(b)
    PROVE  LET n == broker_upd_obj(b, o) IN
           /\ BrokerOK(n)
           /\ ClientsOf(n) = ClientsOf(b)
           /\ ObjsOf(n) = ObjsOf(b)
           /\ n.del = b.del \ {o}
           /\ \A c \in ClientsOf(b) : Unread(n, c) = Unread(b, c) \cup {o}
           /\ \A p \in ObjsOf(n) \ {o} : n.eid[p] = b.eid[p]
BY UpdOK, ToTailSummary DEF broker_upd_obj, BrokerOK

\* broker_del_obj, for the users of a broker: with no client the object is
\* gone, otherwise it is flagged and every client has it to read.
LEMMA DelSummary ==
    ASSUME NEW b, BrokerOK(b), NEW o \in ObjsOf(b)
    PROVE  LET n == broker_del_obj(b, o) IN
           /\ BrokerOK(n)
           /\ ClientsOf(n) = ClientsOf(b)
           /\ \/ /\ ClientsOf(b) = {}
                 /\ ObjsOf(n) = ObjsOf(b) \ {o}
                 /\ n.del = b.del \ {o}
              \/ /\ ClientsOf(b) # {}
                 /\ ObjsOf(n) = ObjsOf(b)
                 /\ n.del = b.del \cup {o}
           /\ \A c \in ClientsOf(b) : Unread(n, c) = Unread(b, c) \cup {o}
           /\ \A p \in ObjsOf(n) \ {o} : n.eid[p] = b.eid[p]
<1>1. o \in Objs
  BY DEF ObjsOf
<1>2. BrokerOK(broker_del_obj(b, o))
  BY DelOK, Zenon
<1>3. CASE ClientsOf(b) = {}
  <2>1. broker_del_obj(b, o) = broker_del_obj_now(b, o)
    BY <1>3 DEF broker_del_obj
  <2> QED  BY <1>1, <1>2, <1>3, <2>1, DelNowSummary
<1>4. CASE ClientsOf(b) # {}
  <2>1. broker_del_obj(b, o) = ToTail(b, o, b.del \cup {o})
    BY <1>4 DEF broker_del_obj
  <2> QED  BY <1>2, <1>4, <2>1, ToTailSummary DEF BrokerOK
<1> QED  BY <1>3, <1>4

\* broker_client_create, for the users of a broker: the new client has every
\* object to read.
LEMMA ClientCreateSummary ==
    ASSUME NEW b, BrokerOK(b), NEW c \in Clients, c \notin ClientsOf(b)
    PROVE  LET n == broker_client_create(b, c) IN
           /\ BrokerOK(n)
           /\ ClientsOf(n) = ClientsOf(b) \cup {c}
           /\ ObjsOf(n) = ObjsOf(b)
           /\ n.del = b.del
           /\ Unread(n, c) = ObjsOf(b)
           /\ \A d \in ClientsOf(b) : Unread(n, d) = Unread(b, d)
           /\ \A p \in ObjsOf(n) : n.eid[p] = b.eid[p]
<1> DEFINE n == broker_client_create(b, c)
<1>1. c \notin Elems(b.list) /\ BrokerType(b)
  BY DEF ClientsOf, BrokerOK
<1>2. BrokerOK(n)
  BY <1>1, ClientCreateOK
<1>3. /\ Elems(n.list) = Elems(b.list) \cup {c}
      /\ \A x, y : Before(n.list, x, y) <=>
                      Before(b.list, x, y) \/ (x = c /\ y \in Elems(b.list))
      /\ n.eid = [b.eid EXCEPT ![c] = IF ObjsOf(b) = {} THEN b.id ELSE 0]
      /\ n.del = b.del
  BY <1>1, ClientCreateEffect, Zenon
<1> HIDE DEF n
<1>4. \A p \in ObjsOf(n) : n.eid[p] = b.eid[p]
  BY <1>1, <1>3, ListOrder, EntriesAssumption DEF ObjsOf
<1> QED
  BY <1>1, <1>2, <1>3, <1>4, EntriesAssumption DEF ClientsOf, ObjsOf, Unread, n

\* broker_client_delete, for the users of a broker: only deleted objects go,
\* and none that another client has still to read.
LEMMA ClientDeleteSummary ==
    ASSUME NEW b, BrokerOK(b), NEW c \in Clients
    PROVE  LET n == broker_client_delete(b, c) IN
           /\ BrokerOK(n)
           /\ ClientsOf(n) = ClientsOf(b) \ {c}
           /\ ObjsOf(n) \subseteq ObjsOf(b)
           /\ ObjsOf(b) \ ObjsOf(n) \subseteq b.del
           /\ n.del = b.del \cap ObjsOf(n)
           /\ \A d \in ClientsOf(n) : Unread(n, d) = Unread(b, d)
           /\ \A p \in ObjsOf(n) : n.eid[p] = b.eid[p]
<1> DEFINE n == broker_client_delete(b, c)
           gone == OnlyNeededBy(b, c) \cup {c}
<1>1. BrokerOK(n) /\ BrokerType(b)
  BY ClientDeleteOK, Zenon DEF BrokerOK
<1>2. /\ Elems(n.list) = Elems(b.list) \ gone
      /\ \A x, y : Before(n.list, x, y) <=>
                      Before(b.list, x, y) /\ x \notin gone /\ y \notin gone
      /\ n.eid = [e \in Entries |-> IF e \in gone THEN 0 ELSE b.eid[e]]
      /\ n.del = b.del \ gone
  BY ClientDeleteEffect, Zenon DEF BrokerOK
<1> HIDE DEF n
<1>3. b.del \subseteq ObjsOf(b) /\ OnlyNeededBy(b, c) \subseteq b.del /\ c \notin Objs
  BY <1>1, ListOrder, EntriesAssumption, Zenon DEF OnlyNeededBy
<1>4. /\ ClientsOf(n) = ClientsOf(b) \ {c}
      /\ ObjsOf(n) = ObjsOf(b) \ OnlyNeededBy(b, c)
  BY <1>2, <1>3, EntriesAssumption DEF ClientsOf, ObjsOf
<1>5. ASSUME NEW d \in ClientsOf(n), NEW o \in OnlyNeededBy(b, c)
      PROVE  ~ Before(b.list, d, o)
  <2>1. d \in ClientsOf(b) /\ o \in ObjsOf(b) /\ b.eid[d] >= b.eid[o]
    BY <1>3, <1>4, Zenon DEF OnlyNeededBy
  <2>2. b.eid[d] \in Nat /\ b.eid[o] \in Nat
    BY <1>1, <2>1, ListOrder DEF ClientsOf, ObjsOf
  <2> QED  BY <2>1, <2>2 DEF BrokerOK, CursorOrder
<1>6. ASSUME NEW d \in ClientsOf(n)
      PROVE  Unread(n, d) = Unread(b, d)
  <2>1. d \notin gone
    BY <1>2, <1>3, <1>4, EntriesAssumption, Zenon DEF ClientsOf, ObjsOf
  <2> QED  BY <1>2, <1>3, <1>4, <1>5, <2>1, Zenon DEF Unread, ObjsOf
<1>7. /\ ObjsOf(n) \subseteq ObjsOf(b)
      /\ ObjsOf(b) \ ObjsOf(n) \subseteq b.del
      /\ n.del = b.del \cap ObjsOf(n)
  BY <1>2, <1>3, <1>4, Zenon DEF ObjsOf
<1>8. \A p \in ObjsOf(n) : n.eid[p] = b.eid[p]
  BY <1>1, <1>2, ListOrder, SMTT(30) DEF ObjsOf
<1> QED
  BY <1>1, <1>4, <1>6, <1>7, <1>8, Zenon DEF n

\* broker_client_get_data, for the users of a broker: the client has one
\* object less to read, and only that one may go.
LEMMA GetDataSummary ==
    ASSUME NEW b, BrokerOK(b), NEW c \in ClientsOf(b)
    PROVE  LET n == broker_client_get_data(b, c)
               o == broker_get_next_data_obj(b, c) IN
           /\ BrokerOK(n)
           /\ ClientsOf(n) = ClientsOf(b)
           /\ \A p \in ObjsOf(n) : n.eid[p] = b.eid[p]
           /\ \/ /\ o = NULL
                 /\ Unread(b, c) = {}
                 /\ ObjsOf(n) = ObjsOf(b)
                 /\ n.del = b.del
                 /\ \A d \in ClientsOf(b) : Unread(n, d) = Unread(b, d)
              \/ /\ o # NULL
                 /\ o \in Unread(b, c)
                 /\ \/ ObjsOf(n) = ObjsOf(b)
                    \/ o \in b.del /\ ObjsOf(n) = ObjsOf(b) \ {o}
                 /\ n.del = b.del \cap ObjsOf(n)
                 /\ Unread(n, c) = Unread(b, c) \ {o}
                 /\ \A d \in ClientsOf(b) \ {c} : Unread(n, d) = Unread(b, d)
<1> DEFINE n == broker_client_get_data(b, c)
           o == broker_get_next_data_obj(b, c)
           m == PassObj(b, c, o)
           Post ==
           /\ BrokerOK(n)
           /\ ClientsOf(n) = ClientsOf(b)
           /\ \A p \in ObjsOf(n) : n.eid[p] = b.eid[p]
           /\ \/ /\ o = NULL
                 /\ Unread(b, c) = {}
                 /\ ObjsOf(n) = ObjsOf(b)
                 /\ n.del = b.del
                 /\ \A d \in ClientsOf(b) : Unread(n, d) = Unread(b, d)
              \/ /\ o # NULL
                 /\ o \in Unread(b, c)
                 /\ \/ ObjsOf(n) = ObjsOf(b)
                    \/ o \in b.del /\ ObjsOf(n) = ObjsOf(b) \ {o}
                 /\ n.del = b.del \cap ObjsOf(n)
                 /\ Unread(n, c) = Unread(b, c) \ {o}
                 /\ \A d \in ClientsOf(b) \ {c} : Unread(n, d) = Unread(b, d)
<1>1. BrokerOK(n) /\ BrokerType(b)
  BY GetDataOK, Zenon DEF BrokerOK
<1>2. \/ o = NULL /\ Unread(b, c) = {}
      \/ /\ o # NULL
         /\ o \in Unread(b, c)
         /\ \A p \in Unread(b, c) : p = o \/ Before(b.list, o, p)
  BY <1>1, NextDataObj, Zenon
<1>3. b.del \subseteq ObjsOf(b)
  BY <1>1, ListOrder, SMTT(30)
<1> HIDE DEF o
<1>4. ASSUME o = NULL PROVE Post
  <2>1. n = CatchUp(b, c)
    BY <1>4, Zenon DEF broker_client_get_data, o
  <2>2. n.list = b.list /\ n.del = b.del /\ n.eid = [b.eid EXCEPT ![c] = b.id]
    BY <2>1 DEF CatchUp
  <2> HIDE DEF n
  <2>3. \A p \in ObjsOf(n) : n.eid[p] = b.eid[p]
    BY <1>1, <2>2, ListOrder, EntriesAssumption, SMTT(30) DEF ObjsOf, ClientsOf
  <2>4. ClientsOf(n) = ClientsOf(b) /\ ObjsOf(n) = ObjsOf(b)
    BY <2>2 DEF ClientsOf, ObjsOf
  <2>5. \A d : Unread(n, d) = Unread(b, d)
    BY <2>2, <2>4 DEF Unread
  <2> QED  BY <1>1, <1>2, <1>4, <2>2, <2>3, <2>4, <2>5, Zenon
<1>5. ASSUME o # NULL PROVE Post
  <2>1. /\ BrokerType(m)
        /\ Elems(m.list) = Elems(b.list)
        /\ \A x, y : Before(m.list, x, y) <=>
              \/ Before(b.list, x, y) /\ x # c /\ y # c
              \/ y = c /\ x # c /\ (x = o \/ Before(b.list, x, o))
              \/ x = c /\ y # c /\ Before(b.list, o, y)
        /\ m.eid = [b.eid EXCEPT ![c] = b.eid[o]]
        /\ m.del = b.del
        /\ CursorOrder(m)
    BY <1>1, <1>2, <1>5, PassEffect, PassOrder, SMTT(30)
  <2> HIDE DEF m
  <2>2. /\ \A x : ~ Before(b.list, x, x)
        /\ \A x, y, z : Before(b.list, x, y) /\ Before(b.list, y, z)
                            => Before(b.list, x, z)
    BY <1>1, ListOrder, Zenon
  <2>3. /\ ClientsOf(m) = ClientsOf(b)
        /\ ObjsOf(m) = ObjsOf(b)
        /\ o \in Objs /\ o \in ObjsOf(b)
        /\ c \notin Objs
        /\ \A p \in ObjsOf(m) : m.eid[p] = b.eid[p]
    BY <1>2, <1>5, <2>1, ListOrder, EntriesAssumption DEF ClientsOf, ObjsOf, Unread
  <2>4. Unread(m, c) = Unread(b, c) \ {o}
    <3>1. \A p \in ObjsOf(b) : Before(m.list, c, p) <=> Before(b.list, o, p)
      BY <2>1, <2>3, Zenon DEF ObjsOf
    <3>2. \A p \in ObjsOf(b) : Before(b.list, o, p) <=> p \in Unread(b, c) /\ p # o
      BY <1>2, <1>5, <2>2, Zenon DEF Unread
    <3> QED  BY <2>3, <3>1, <3>2, Zenon DEF Unread
  <2>5. \A d \in ClientsOf(b) \ {c} : Unread(m, d) = Unread(b, d)
    BY <2>1, <2>3, SMTT(30) DEF Unread, ObjsOf
  <2>6. CASE o \in m.del /\ no_clients_need_this(m, o)
    <3>1. n = broker_del_obj_now(m, o)
      BY <1>5, <2>6, Zenon DEF broker_client_get_data, o, m
    <3>2. /\ Elems(n.list) = Elems(m.list) \ {o}
          /\ \A x, y : Before(n.list, x, y) <=>
                          Before(m.list, x, y) /\ x # o /\ y # o
          /\ n.eid = [m.eid EXCEPT ![o] = 0]
          /\ n.del = m.del \ {o}
      BY <2>1, <2>3, <3>1, DelNowEffect, ZenonT(30)
    <3>3. ASSUME NEW d \in ClientsOf(m)
          PROVE  o \notin Unread(m, d)
      <4>1. m.eid[d] >= m.eid[o]
        BY <2>6, Zenon DEF no_clients_need_this
      <4>2. m.eid[d] \in Nat /\ m.eid[o] \in Nat
        BY <2>1, <2>3, ListOrder, SMTT(30) DEF ClientsOf, ObjsOf
      <4> QED  BY <2>1, <2>3, <4>1, <4>2 DEF Unread, CursorOrder
    <3> HIDE DEF n
    <3>4. /\ ClientsOf(n) = ClientsOf(m)
          /\ ObjsOf(n) = ObjsOf(m) \ {o}
          /\ n.del = b.del \cap ObjsOf(n)
      BY <1>3, <2>1, <2>3, <3>2, EntriesAssumption, SMTT(30) DEF ClientsOf, ObjsOf
    <3>5. ASSUME NEW d \in ClientsOf(m)
          PROVE  Unread(n, d) = Unread(m, d)
      <4>1. d # o
        BY <2>3, EntriesAssumption, Zenon DEF ClientsOf, ObjsOf
      <4>2. \A x : Before(n.list, d, x) <=> Before(m.list, d, x) /\ x # o
        BY <3>2, <4>1, Zenon
      <4> QED  BY <3>3, <3>4, <4>2, Zenon DEF Unread
    <3>6. \A p \in ObjsOf(n) : n.eid[p] = b.eid[p]
      BY <2>1, <2>3, <3>2, <3>4, ListOrder, Zenon DEF ObjsOf
    <3>7. \A d \in ClientsOf(b) \ {c} : Unread(n, d) = Unread(b, d)
      BY <2>3, <2>5, <3>5, Zenon
    <3>8. Unread(n, c) = Unread(b, c) \ {o}
      BY <2>3, <2>4, <3>5, Zenon
    <3>9. o \in b.del /\ ClientsOf(n) = ClientsOf(b) /\ ObjsOf(n) = ObjsOf(b) \ {o}
      BY <2>1, <2>3, <2>6, <3>4, Zenon
    <3> QED
      BY <1>1, <1>2, <1>5, <3>4, <3>6, <3>7, <3>8, <3>9, Zenon
  <2>7. CASE ~ (o \in m.del /\ no_clients_need_this(m, o))
    <3>1. n = m
      BY <1>5, <2>7, Zenon DEF broker_client_get_data, o, m
    <3> HIDE DEF n
    <3>2. n.del = b.del \cap ObjsOf(n)
      BY <1>3, <2>1, <2>3, <3>1
    <3> QED
      BY <1>1, <1>2, <1>5, <2>3, <2>4, <2>5, <3>1, <3>2, Zenon
  <2> HIDE DEF Post
  <2> QED  BY <2>6, <2>7, Zenon
<1>6. Post
  <2> HIDE DEF Post
  <2> QED  BY <1>4, <1>5, Zenon
<1> QED
  BY <1>6, Zenon DEF Post, n, o
==============================================================================

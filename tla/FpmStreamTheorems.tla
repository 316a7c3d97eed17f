-------------------------- MODULE FpmStreamTheorems --------------------------
(***************************************************************************)
(* For every set of frames, every limit on their length and every length   *)
(* of the stream: the walk of process_nlmsg over a frame stays in the      *)
(* payload of the frame, buf never overflows, broker_process_fpm keeps to  *)
(* the frames, and what is published is what zebra sent, in order.         *)
(*                                                                         *)
(* Where frames and messages begin is a sum of sizes, defined by           *)
(* recursion.  What is needed of it (it exists, each begin is the one      *)
(* before plus a size, so that begins grow) is proved from the least       *)
(* number for which it would fail.                                         *)
(***************************************************************************)
EXTENDS FpmStream, WellFoundedInduction, TLAPS

\* A set of naturals that is not empty has a least element.
LEMMA LeastNat ==
    ASSUME NEW T, T \subseteq Nat, T # {}
    PROVE  \E x \in T : \A y \in T : x <= y
<1>1. PICK x \in T : \A y \in T : ~ (<<y, x>> \in OpToRel(<, Nat))
  BY WFMin, NatLessThanWellFounded, Zenon
<1>2. \A y \in T : ~(y < x)
  BY <1>1, Zenon DEF OpToRel
<1> QED  BY <1>2

\* The first n sums.
SumsTo(size, n, g) ==
    /\ DOMAIN g = 0 .. n
    /\ g[0] = 0
    /\ \A i \in 1 .. n : g[i] = g[i - 1] + size[i]

\* There is such a function for every n.
LEMMA SumsToExist ==
    ASSUME NEW size
    PROVE  \A n \in Nat : \E g : SumsTo(size, n, g)
<1> DEFINE T == {n \in Nat : ~ \E g : SumsTo(size, n, g)}
<1>1. SUFFICES ASSUME T # {} PROVE FALSE
  OBVIOUS
<1>2. T \subseteq Nat
  OBVIOUS
<1>3. PICK n \in T : \A y \in T : n <= y
  BY <1>1, <1>2, LeastNat, Zenon
<1>4. n # 0
  <2>1. SumsTo(size, 0, [i \in 0 .. 0 |-> 0])
    BY DEF SumsTo
  <2> QED  BY <1>3, <2>1
<1>5. n \in Nat /\ n - 1 \in Nat /\ n - 1 \notin T
  BY <1>3, <1>4
<1>6. PICK g : SumsTo(size, n - 1, g)
  BY <1>5
<1> DEFINE h == [i \in 0 .. n |-> IF i = n THEN g[n - 1] + size[n] ELSE g[i]]
<1>7. DOMAIN h = 0 .. n /\ h[0] = 0
  BY <1>4, <1>5, <1>6 DEF SumsTo
<1>8. ASSUME NEW i \in 1 .. n PROVE h[i] = h[i - 1] + size[i]
  <2>1. i - 1 \in 0 .. n /\ i - 1 # n /\ h[i - 1] = g[i - 1]
    BY <1>5
  <2>2. CASE i = n
    BY <1>5, <2>1, <2>2
  <2>3. CASE i # n
    <3>1. i \in 1 .. n - 1 /\ h[i] = g[i]
      BY <1>5, <2>3
    <3> QED  BY <1>6, <2>1, <3>1 DEF SumsTo
  <2> QED  BY <2>2, <2>3
<1>9. SumsTo(size, n, h)
  BY <1>7, <1>8, Zenon DEF SumsTo
<1> QED  BY <1>3, <1>9

\* There is only one.
LEMMA SumsToAgree ==
    ASSUME NEW size, NEW m \in Nat, NEW n \in Nat, NEW g, NEW h,
           SumsTo(size, m, g), SumsTo(size, n, h)
    PROVE  \A i \in 0 .. m : i <= n => g[i] = h[i]
<1> DEFINE T == {i \in 0 .. m : i <= n /\ g[i] # h[i]}
<1>1. SUFFICES ASSUME T # {} PROVE FALSE
  OBVIOUS
<1>2. T \subseteq Nat
  OBVIOUS
<1>3. PICK i \in T : \A y \in T : i <= y
  BY <1>1, <1>2, LeastNat, Zenon
<1>4. i # 0
  BY <1>3 DEF SumsTo
<1>5. i \in 1 .. m /\ i \in 1 .. n /\ i - 1 \in 0 .. m /\ i - 1 <= n /\ ~ (i <= i - 1)
  BY <1>3, <1>4
<1>6. g[i - 1] = h[i - 1]
  BY <1>3, <1>5
<1>7. g[i] = g[i - 1] + size[i] /\ h[i] = h[i - 1] + size[i]
  BY <1>5 DEF SumsTo
<1> QED  BY <1>3, <1>6, <1>7

\* Sums is what its recursion says.
LEMMA SumsAre ==
    ASSUME NEW size
    PROVE  /\ Sums(size)[0] = 0
           /\ \A n \in Nat : Sums(size)[n + 1] = Sums(size)[n] + size[n + 1]
<1> DEFINE G(n) == CHOOSE g : SumsTo(size, n, g)
           F == [n \in Nat |-> G(n)[n]]
           Step(f) == [n \in Nat |-> IF n = 0 THEN 0 ELSE f[n - 1] + size[n]]
<1>1. \A n \in Nat : SumsTo(size, n, G(n))
  BY SumsToExist, Zenon
<1>2. ASSUME NEW n \in Nat, n # 0 PROVE F[n] = F[n - 1] + size[n]
  <2>1. n - 1 \in Nat /\ n \in 1 .. n /\ n - 1 \in 0 .. n - 1 /\ n - 1 <= n
    BY <1>2
  <2>2. SumsTo(size, n, G(n)) /\ SumsTo(size, n - 1, G(n - 1))
    BY <1>1, <2>1
  <2> HIDE DEF G
  <2>3. G(n)[n] = G(n)[n - 1] + size[n]
    BY <2>1, <2>2 DEF SumsTo
  <2>4. G(n - 1)[n - 1] = G(n)[n - 1]
    BY <2>1, <2>2, SumsToAgree
  <2> QED  BY <2>1, <2>3, <2>4
<1>3. F[0] = 0
  BY <1>1, Zenon DEF SumsTo
<1>4. F = Step(F)
  <2> HIDE DEF G
  <2> QED  BY <1>2, <1>3
<1>5. Sums(size) = Step(Sums(size))
  <2>1. \E f : f = Step(f)
    BY <1>4, Zenon
  <2> HIDE DEF F, G
  <2> QED  BY <2>1 DEF Sums
<1> HIDE DEF F, G
<1> QED  BY <1>5

\* Sums of positive sizes grow.
LEMMA SumsGrow ==
    ASSUME NEW N \in Nat, NEW size, \A i \in 1 .. N : size[i] \in Nat \ {0}
    PROVE  /\ \A n \in 0 .. N : Sums(size)[n] \in Nat
           /\ \A m, n \in 0 .. N : m < n => Sums(size)[m] < Sums(size)[n]
<1> DEFINE s == Sums(size)
<1>1. s[0] = 0 /\ \A n \in Nat : s[n + 1] = s[n] + size[n + 1]
  BY SumsAre
<1> HIDE DEF s
<1>2. ASSUME NEW n \in 1 .. N PROVE n - 1 \in Nat /\ s[n] = s[n - 1] + size[n]
  <2>1. n - 1 \in Nat /\ (n - 1) + 1 = n
    OBVIOUS
  <2> QED  BY <1>1, <2>1
<1>3. \A n \in 0 .. N : s[n] \in Nat
  <2> DEFINE T == {n \in 0 .. N : s[n] \notin Nat}
  <2>1. SUFFICES ASSUME T # {} PROVE FALSE
    OBVIOUS
  <2>2. PICK n \in T : \A y \in T : n <= y
    <3>1. T \subseteq Nat
      OBVIOUS
    <3> QED  BY <2>1, <3>1, LeastNat, Zenon
  <2>3. n \in 1 .. N /\ n - 1 \in 0 .. N /\ n - 1 \notin T
    BY <1>1, <2>2
  <2> QED  BY <1>2, <2>2, <2>3
<1>4. ASSUME NEW m \in 0 .. N PROVE \A n \in 0 .. N : m < n => s[m] < s[n]
  <2> DEFINE T == {n \in 0 .. N : m < n /\ ~ (s[m] < s[n])}
  <2>1. SUFFICES ASSUME T # {} PROVE FALSE
    OBVIOUS
  <2>2. PICK n \in T : \A y \in T : n <= y
    <3>1. T \subseteq Nat
      OBVIOUS
    <3> QED  BY <2>1, <3>1, LeastNat, Zenon
  <2>3. n \in 1 .. N /\ n - 1 \in 0 .. N /\ n - 1 \notin T /\ m <= n - 1
    BY <2>2
  <2>4. s[n] = s[n - 1] + size[n] /\ size[n] \in Nat \ {0} /\ s[n - 1] \in Nat /\ s[m] \in Nat
    BY <1>2, <1>3, <2>3
  <2>5. s[m] <= s[n - 1]
    BY <1>3, <2>3
  <2> QED  BY <2>2, <2>4, <2>5
<1> QED  BY <1>3, <1>4 DEF s

\* Where the messages of a frame begin.
LEMMA NlmsgsBegin ==
    ASSUME NEW f \in Frames
    PROVE  /\ Len(f.nlmsgs) \in Nat /\ DOMAIN f.nlmsgs = 1 .. Len(f.nlmsgs)
           /\ NlmsgBegin(f, 1) = 0
           /\ \A j \in 1 .. Len(f.nlmsgs) + 1 : NlmsgBegin(f, j) \in Nat
           /\ \A j \in 1 .. Len(f.nlmsgs) : NlmsgBegin(f, j + 1) = NlmsgBegin(f, j) + f.nlmsgs[j].size
           /\ \A j, k \in 1 .. Len(f.nlmsgs) + 1 : j < k => NlmsgBegin(f, j) < NlmsgBegin(f, k)
           /\ FrameSize(f) \in Nat /\ FrameSize(f) >= 4
<1> DEFINE size == [k \in DOMAIN f.nlmsgs |-> f.nlmsgs[k].size]
           N == Len(f.nlmsgs)
<1>1. N \in Nat /\ DOMAIN f.nlmsgs = 1 .. N /\ \A i \in 1 .. N : size[i] \in Nat \ {0}
  BY FpmAssumption
<1>2. \A i \in 1 .. N : size[i] = f.nlmsgs[i].size
  BY <1>1
<1>3. \A j : NlmsgBegin(f, j) = Sums(size)[j - 1]
  BY DEF NlmsgBegin
<1> HIDE DEF size, N
<1>4. /\ Sums(size)[0] = 0
      /\ \A n \in Nat : Sums(size)[n + 1] = Sums(size)[n] + size[n + 1]
  BY SumsAre
<1>5. /\ \A n \in 0 .. N : Sums(size)[n] \in Nat
      /\ \A m, n \in 0 .. N : m < n => Sums(size)[m] < Sums(size)[n]
  BY <1>1, SumsGrow, Zenon
<1>6. NlmsgBegin(f, 1) = 0
  BY <1>3, <1>4
<1>7. \A j \in 1 .. N + 1 : NlmsgBegin(f, j) \in Nat
  BY <1>1, <1>3, <1>5
<1>8. ASSUME NEW j \in 1 .. N
      PROVE  NlmsgBegin(f, j + 1) = NlmsgBegin(f, j) + f.nlmsgs[j].size
  <2>1. j - 1 \in Nat /\ (j - 1) + 1 = j /\ (j + 1) - 1 = j
    BY <1>1
  <2>2. Sums(size)[j] = Sums(size)[j - 1] + size[j]
    BY <1>4, <2>1
  <2> QED  BY <1>2, <1>3, <2>1, <2>2
<1>9. ASSUME NEW j \in 1 .. N + 1, NEW k \in 1 .. N + 1, j < k
      PROVE  NlmsgBegin(f, j) < NlmsgBegin(f, k)
  <2>1. j - 1 \in 0 .. N /\ k - 1 \in 0 .. N /\ j - 1 < k - 1
    BY <1>1, <1>9
  <2> QED  BY <1>3, <1>5, <2>1
<1>10. FrameSize(f) = 4 + NlmsgBegin(f, N + 1) /\ N + 1 \in 1 .. N + 1
  BY <1>1 DEF FrameSize, N, FPM_MSG_HDR_LEN
<1>11. FrameSize(f) \in Nat /\ FrameSize(f) >= 4
  BY <1>7, <1>10
<1> QED  BY <1>1, <1>6, <1>7, <1>8, <1>9, <1>11 DEF N

\* Where the frames of the stream begin.
LEMMA FramesBegin ==
    ASSUME stream \in Seq(Frames)
    PROVE  /\ Len(stream) \in Nat /\ DOMAIN stream = 1 .. Len(stream)
           /\ FrameBegin(1) = 0
           /\ \A i \in 1 .. Len(stream) + 1 : FrameBegin(i) \in Nat
           /\ \A i \in 1 .. Len(stream) : FrameBegin(i + 1) = FrameBegin(i) + FrameSize(stream[i])
           /\ \A i, k \in 1 .. Len(stream) + 1 : i < k => FrameBegin(i) < FrameBegin(k)
<1> DEFINE size == [k \in DOMAIN stream |-> FrameSize(stream[k])]
           N == Len(stream)
<1>1. N \in Nat /\ DOMAIN stream = 1 .. N /\ \A i \in 1 .. N : stream[i] \in Frames
  OBVIOUS
<1>2. \A i \in 1 .. N : size[i] = FrameSize(stream[i])
  BY <1>1
<1>3. \A i \in 1 .. N : size[i] \in Nat \ {0}
  <2> HIDE DEF size
  <2>1. \A i \in 1 .. N : FrameSize(stream[i]) \in Nat /\ FrameSize(stream[i]) >= 4
    BY <1>1, NlmsgsBegin
  <2> QED  BY <1>2, <2>1
<1>4. \A i : FrameBegin(i) = Sums(size)[i - 1]
  BY DEF FrameBegin
<1> HIDE DEF size, N
<1>5. /\ Sums(size)[0] = 0
      /\ \A n \in Nat : Sums(size)[n + 1] = Sums(size)[n] + size[n + 1]
  BY SumsAre
<1>6. /\ \A n \in 0 .. N : Sums(size)[n] \in Nat
      /\ \A m, n \in 0 .. N : m < n => Sums(size)[m] < Sums(size)[n]
  BY <1>1, <1>3, SumsGrow, Zenon
<1>7. FrameBegin(1) = 0
  BY <1>4, <1>5
<1>8. \A i \in 1 .. N + 1 : FrameBegin(i) \in Nat
  BY <1>1, <1>4, <1>6
<1>9. ASSUME NEW i \in 1 .. N
      PROVE  FrameBegin(i + 1) = FrameBegin(i) + FrameSize(stream[i])
  <2>1. i - 1 \in Nat /\ (i - 1) + 1 = i /\ (i + 1) - 1 = i
    BY <1>1
  <2>2. Sums(size)[i] = Sums(size)[i - 1] + size[i]
    BY <1>5, <2>1
  <2> QED  BY <1>2, <1>4, <2>1, <2>2
<1>10. ASSUME NEW i \in 1 .. N + 1, NEW k \in 1 .. N + 1, i < k
       PROVE  FrameBegin(i) < FrameBegin(k)
  <2>1. i - 1 \in 0 .. N /\ k - 1 \in 0 .. N /\ i - 1 < k - 1
    BY <1>1, <1>10
  <2> QED  BY <1>4, <1>6, <2>1
<1> QED  BY <1>1, <1>7, <1>8, <1>9, <1>10 DEF N

-----------------------------------------------------------------------------
\* What the walk rests on: the frame was accepted, so its payload is made of
\* whole words, and so is what remains of it after every padded message.
WalkInv ==
    /\ pc = "body" => Accepted(fpm)
    /\ pc = "walk" => /\ Accepted(fpm)
                      /\ off \in Nat /\ len \in Nat
                      /\ len % 4 = 0
                      /\ off + len = fpm_msg_data_len(fpm)

\* fpm_msg_align gives the least multiple of a word that is not below len: what
\* is at most a whole number of words stays so when it is padded.
LEMMA AlignFits ==
    ASSUME NEW n \in Nat, NEW room \in Nat, room % 4 = 0, n <= room
    PROVE  /\ fpm_msg_align(n) \in Nat
           /\ n <= fpm_msg_align(n)
           /\ fpm_msg_align(n) <= room
           /\ (room - fpm_msg_align(n)) % 4 = 0
BY DEF fpm_msg_align

\* The payload of an accepted frame is shorter than the frame by the header and
\* made of whole words: fpm_msg_data_len does not wrap around.
LEMMA PayloadIsWords ==
    ASSUME NEW f, f.msg_len \in Nat, Accepted(f)
    PROVE  /\ fpm_msg_data_len(f) = f.msg_len - FPM_MSG_HDR_LEN
           /\ fpm_msg_data_len(f) \in Nat
           /\ fpm_msg_data_len(f) < SizeT
           /\ fpm_msg_data_len(f) % 4 = 0
<1> DEFINE n == f.msg_len
<1>1. /\ n \in Nat /\ n >= 4 /\ n <= FPM_MAX_MSG_LEN
      /\ ((n + 3) \div 4) * 4 = n
  BY FpmAssumption DEF Accepted, fpm_msg_hdr_ok, fpm_msg_align, FPM_MSG_HDR_LEN
<1>2. SizeT \in Nat /\ n < SizeT
  BY <1>1, FpmAssumption
<1> HIDE DEF n
<1>3. (n + SizeT - 4) % SizeT = n - 4
  <2>1. n + SizeT - 4 = (n - 4) + SizeT /\ n - 4 \in 0 .. SizeT - 1
    BY <1>1, <1>2
  <2> QED
    BY <2>1, <1>1, <1>2
<1>4. (n - 4) % 4 = 0
  BY <1>1
<1>5. fpm_msg_data_len(f) = (n + SizeT - 4) % SizeT
  BY DEF fpm_msg_data_len, FPM_MSG_HDR_LEN, n
<1> QED
  BY <1>1, <1>2, <1>3, <1>4, <1>5 DEF FPM_MSG_HDR_LEN, n

\* The frame that buf begins with is one of the frames that zebra may send, or
\* none that is accepted.
LEMMA FpmIsFrame ==
    ASSUME stream \in Seq(Frames), Accepted(fpm)
    PROVE  fpm \in Frames
<1>1. InBuf # {}
  BY DEF Accepted, fpm_msg_hdr_ok, fpm, Garbage
<1>2. PICK i \in DOMAIN stream : fpm = stream[i]
  BY <1>1, Zenon DEF fpm, InBuf
<1> QED
  BY <1>2

\* A step that leaves stream and start alone leaves the frame alone.
LEMMA FpmStays ==
    ASSUME UNCHANGED <<stream, start>>
    PROVE  fpm' = fpm
<1>1. InBuf' = InBuf
  BY DEF InBuf, FrameBegin
<1> QED
  BY <1>1 DEF fpm, Garbage

\* The walk begins at the payload of an accepted frame.
LEMMA WalkBegins ==
    ASSUME stream \in Seq(Frames), Accepted(fpm), ToWalk, UNCHANGED <<stream, start>>
    PROVE  WalkInv'
<1>1. fpm' = fpm
  BY FpmStays
<1>2. fpm.msg_len \in Nat
  BY FpmIsFrame, FpmAssumption
<1>3. fpm_msg_data_len(fpm) \in Nat /\ fpm_msg_data_len(fpm) % 4 = 0
  BY <1>2, PayloadIsWords
<1>4. pc' = "walk" /\ off' = 0 /\ len' = fpm_msg_data_len(fpm)
  BY DEF ToWalk
<1>5. Accepted(fpm)' /\ fpm_msg_data_len(fpm)' = fpm_msg_data_len(fpm)
  BY <1>1 DEF Accepted, fpm_msg_hdr_ok, fpm_msg_data_len
<1> QED
  BY <1>3, <1>4, <1>5 DEF WalkInv

\* A turn of the loop of process_nlmsg: the message and its padding fit in what
\* remains, so that len does not wrap around.
LEMMA TurnStaysInside ==
    ASSUME stream \in Seq(Frames), WalkInv, ProcessNlmsg
    PROVE  WalkInv'
<1>1. pc = "walk" /\ pc' = "walk" /\ UNCHANGED <<stream, start>>
  BY DEF ProcessNlmsg
<1>2. /\ Accepted(fpm) /\ off \in Nat /\ len \in Nat /\ len % 4 = 0
      /\ off + len = fpm_msg_data_len(fpm)
  BY <1>1 DEF WalkInv
<1>3. fpm' = fpm
  BY <1>1, FpmStays
<1>4. fpm \in Frames /\ fpm.msg_len \in Nat
  BY <1>2, FpmIsFrame, FpmAssumption
<1>5. SizeT \in Nat /\ fpm_msg_data_len(fpm) < SizeT
  BY <1>2, <1>4, PayloadIsWords, FpmAssumption
<1>6. PICK j \in NlmsgAt(off) :
        LET m == fpm.nlmsgs[j]
        IN  /\ NLMSG_OK(m)
            /\ off' = off + fpm_msg_align(m.nlmsg_len)
            /\ len' = (len + SizeT - fpm_msg_align(m.nlmsg_len)) % SizeT
  BY DEF ProcessNlmsg
<1> DEFINE n == fpm.nlmsgs[j].nlmsg_len
           a == fpm_msg_align(n)
<1>7. n \in Nat /\ n <= len
  BY <1>2, <1>4, <1>6, FpmAssumption DEF NlmsgAt, NLMSG_OK
<1>8. a \in Nat /\ a <= len /\ (len - a) % 4 = 0
  BY <1>2, <1>7, AlignFits, Zenon
<1>9. off' = off + a /\ len' = (len + SizeT - a) % SizeT
  BY <1>6
<1> HIDE DEF n, a
<1>10. (len + SizeT - a) % SizeT = len - a
  <2>1. len < SizeT
    BY <1>2, <1>5
  <2>2. len + SizeT - a = (len - a) + SizeT /\ len - a \in 0 .. SizeT - 1
    BY <1>2, <1>5, <1>8, <2>1
  <2> QED
    BY <2>2, <1>2, <1>5, <1>8
<1>11. off' \in Nat /\ len' \in Nat /\ len' % 4 = 0 /\ off' + len' = off + len
  BY <1>2, <1>8, <1>9, <1>10
<1>12. Accepted(fpm)' /\ fpm_msg_data_len(fpm)' = fpm_msg_data_len(fpm)
  BY <1>2, <1>3 DEF Accepted, fpm_msg_hdr_ok, fpm_msg_data_len
<1> QED
  BY <1>1, <1>2, <1>11, <1>12, Zenon DEF WalkInv

\* Every step keeps the walk inside.
LEMMA WalkNext ==
    ASSUME stream \in Seq(Frames), WalkInv, [Next]_vars
    PROVE  stream' = stream /\ WalkInv'
<1>1. stream' = stream
  BY DEF Next, broker_process_fpm, RecvHdr, Check, RecvBody, Closed, ProcessNlmsg,
         WalkDone, ToWalk, vars
<1>2. CASE RecvHdr
  BY <1>1, <1>2 DEF RecvHdr, WalkInv
<1>3. CASE Check
  <2>1. CASE ~ Accepted(fpm)
    BY <1>1, <1>3, <2>1 DEF Check, WalkInv
  <2>2. CASE Accepted(fpm) /\ ToWalk
    BY <1>1, <1>3, <2>2, WalkBegins DEF Check
  <2>3. CASE Accepted(fpm) /\ pc' = "body"
    BY <1>1, <1>3, <2>3, FpmStays DEF Check, WalkInv, Accepted, fpm_msg_hdr_ok
  <2> QED
    BY <1>3, <2>1, <2>2, <2>3 DEF Check
<1>4. CASE RecvBody
  <2>1. Accepted(fpm)
    BY <1>4 DEF RecvBody, WalkInv
  <2>2. CASE ToWalk
    BY <1>1, <1>4, <2>1, <2>2, WalkBegins DEF RecvBody
  <2>3. CASE pc' = "body"
    BY <1>1, <1>4, <2>1, <2>3, FpmStays DEF RecvBody, WalkInv, Accepted, fpm_msg_hdr_ok
  <2> QED
    BY <1>4, <2>2, <2>3 DEF RecvBody
<1>5. CASE ProcessNlmsg
  BY <1>1, <1>5, TurnStaysInside
<1>6. CASE WalkDone
  BY <1>1, <1>6 DEF WalkDone, WalkInv
<1>7. CASE Closed
  BY <1>1, <1>7 DEF Closed, WalkInv
<1>8. CASE UNCHANGED vars
  BY <1>1, <1>8, FpmStays DEF vars, WalkInv, Accepted, fpm_msg_hdr_ok, fpm_msg_data_len
<1> QED
  BY <1>2, <1>3, <1>4, <1>5, <1>6, <1>7, <1>8 DEF Next, broker_process_fpm

\* Nothing is read at first.
LEMMA WalkInit ==
    ASSUME Init
    PROVE  stream \in Seq(Frames) /\ Len(stream) <= MaxFrames /\ WalkInv
<1>1. PICK n \in 0 .. MaxFrames : stream \in [1 .. n -> Frames]
  BY DEF Init
<1>2. stream \in Seq(Frames) /\ Len(stream) <= MaxFrames
  BY <1>1, FpmAssumption
<1> QED  BY <1>2 DEF Init, WalkInv

\* What process_nlmsg counts down never wraps around, so that it never reads
\* past the payload: for every set of frames, however their messages are cut
\* and whatever their headers say, and for every way the bytes arrive.
THEOREM WalkStaysInside == Spec => []WalkInside
<1> DEFINE Inv == stream \in Seq(Frames) /\ WalkInv
<1>1. Init => Inv
  BY WalkInit
<1>2. Inv /\ [Next]_vars => Inv'
  BY WalkNext
<1>3. Inv => WalkInside
  BY DEF WalkInv, WalkInside
<1> QED  BY <1>1, <1>2, <1>3, PTL DEF Spec

-----------------------------------------------------------------------------
\* How much of a frame is in buf.
Reads ==
    /\ stream \in Seq(Frames) /\ Len(stream) <= MaxFrames
    /\ start \in Nat /\ l \in Nat /\ start + l <= StreamSize
    /\ pc \in {"hdr", "check", "body", "walk", "exit"}
    /\ pc = "hdr" => l < 4
    /\ pc = "check" => l = 4
    /\ pc = "body" => l < fpm.msg_len
    /\ pc = "walk" => l = fpm.msg_len
    /\ pc = "exit" => l <= FPM_MAX_MSG_LEN
    /\ off \in 0 .. FPM_MAX_MSG_LEN
    /\ len \in 0 .. SizeT - 1

\* buf is empty at first.
LEMMA ReadsInit ==
    ASSUME Init
    PROVE  Reads
<1>1. stream \in Seq(Frames) /\ Len(stream) <= MaxFrames
  BY WalkInit
<1>2. StreamSize \in Nat
  BY <1>1, FramesBegin DEF StreamSize
<1> QED  BY <1>1, <1>2, FpmAssumption DEF Init, Reads

\* An accepted frame is at least a header and fits in buf.
LEMMA AcceptedFits ==
    ASSUME stream \in Seq(Frames), Accepted(fpm)
    PROVE  /\ fpm.msg_len \in 4 .. FPM_MAX_MSG_LEN
           /\ fpm_msg_data_len(fpm) = fpm.msg_len - 4
BY FpmIsFrame, PayloadIsWords, FpmAssumption DEF Accepted, fpm_msg_hdr_ok, FPM_MSG_HDR_LEN

\* No step reads more than was asked for, or more than was sent.
LEMMA ReadsNext ==
    ASSUME Reads, WalkInv, [Next]_vars
    PROVE  Reads'
<1>1. stream' = stream /\ WalkInv' /\ stream \in Seq(Frames)
  BY WalkNext DEF Reads
<1>2. StreamSize' = StreamSize /\ StreamSize \in Nat
  BY <1>1, FramesBegin DEF StreamSize, FrameBegin
<1>3. start' = start => fpm' = fpm
  BY <1>1, FpmStays
<1>4. Accepted(fpm) => /\ fpm.msg_len \in 4 .. FPM_MAX_MSG_LEN
                       /\ fpm_msg_data_len(fpm) = fpm.msg_len - 4
  BY <1>1, AcceptedFits
<1>5. FPM_MAX_MSG_LEN \in Nat /\ 4 <= FPM_MAX_MSG_LEN /\ SizeT \in Nat /\ FPM_MAX_MSG_LEN < SizeT
  BY FpmAssumption DEF FPM_MSG_HDR_LEN
<1>6. ASSUME NEW want \in Nat, recv(want)
      PROVE  l' \in Nat /\ start + l' <= StreamSize /\ l < l' /\ l' <= want
  BY <1>2, <1>6 DEF recv, Reads
<1>7. CASE RecvHdr
  <2>1. l' \in Nat /\ start + l' <= StreamSize /\ l' <= 4
    BY <1>6, <1>7 DEF RecvHdr, FPM_MSG_HDR_LEN
  <2>2. (pc' = "hdr" /\ l' < 4) \/ (pc' = "check" /\ l' = 4)
    BY <1>7, <2>1 DEF RecvHdr, FPM_MSG_HDR_LEN
  <2> QED  BY <1>1, <1>2, <1>7, <2>1, <2>2, Zenon DEF RecvHdr, Reads
<1>8. CASE Check
  <2>1. l = 4 /\ l' = l /\ start' = start /\ fpm' = fpm
    BY <1>3, <1>8 DEF Check, Reads
  <2>2. CASE ~ Accepted(fpm)
    BY <1>1, <1>2, <1>5, <1>8, <2>1, <2>2 DEF Check, Reads
  <2>3. CASE Accepted(fpm) /\ l < fpm.msg_len
    BY <1>1, <1>2, <1>4, <1>8, <2>1, <2>3 DEF Check, Reads
  <2>4. CASE Accepted(fpm) /\ ~ (l < fpm.msg_len)
    BY <1>1, <1>2, <1>4, <1>5, <1>8, <2>1, <2>4 DEF Check, Reads, ToWalk
  <2> QED  BY <2>2, <2>3, <2>4
<1>9. CASE RecvBody
  <2>1. Accepted(fpm) /\ fpm.msg_len \in Nat /\ recv(fpm.msg_len) /\ start' = start /\ fpm' = fpm
    BY <1>3, <1>4, <1>9 DEF RecvBody, WalkInv
  <2>2. l' \in Nat /\ start + l' <= StreamSize /\ l' <= fpm.msg_len
    BY <1>6, <2>1
  <2>3. CASE l' < fpm.msg_len
    BY <1>1, <1>2, <1>9, <2>1, <2>2, <2>3, Zenon DEF RecvBody, Reads
  <2>4. CASE ~ (l' < fpm.msg_len)
    <3>1. /\ pc' = "walk" /\ l' = fpm.msg_len
          /\ off' \in 0 .. FPM_MAX_MSG_LEN /\ len' \in 0 .. SizeT - 1
      BY <1>4, <1>5, <1>9, <2>1, <2>2, <2>4 DEF RecvBody, ToWalk
    <3> QED  BY <1>1, <1>2, <2>1, <2>2, <3>1 DEF Reads
  <2> QED  BY <2>3, <2>4
<1>10. CASE ProcessNlmsg
  <2>1. pc = "walk" /\ pc' = "walk" /\ UNCHANGED <<start, l>> /\ fpm' = fpm
    BY <1>3, <1>10 DEF ProcessNlmsg
  <2>2. Accepted(fpm)' /\ off' \in Nat /\ len' \in Nat /\ off' + len' = fpm_msg_data_len(fpm)'
    BY <1>1, <2>1 DEF WalkInv
  <2>3. Accepted(fpm)' <=> Accepted(fpm)
    BY <2>1 DEF Accepted, fpm_msg_hdr_ok
  <2>4. fpm_msg_data_len(fpm)' = fpm_msg_data_len(fpm)
    BY <2>1 DEF fpm_msg_data_len
  <2>5. off' \in 0 .. FPM_MAX_MSG_LEN /\ len' \in 0 .. SizeT - 1
    BY <1>4, <1>5, <2>2, <2>3, <2>4
  <2> QED  BY <1>1, <1>2, <2>1, <2>5 DEF Reads
<1>11. CASE WalkDone
  BY <1>1, <1>2, <1>11 DEF WalkDone, Reads
<1>12. CASE Closed
  <2>1. l <= FPM_MAX_MSG_LEN
    BY <1>4, <1>5, <1>12 DEF Closed, Reads, WalkInv
  <2> QED  BY <1>1, <1>2, <1>12, <2>1 DEF Closed, Reads
<1>13. CASE UNCHANGED vars
  BY <1>2, <1>3, <1>13 DEF vars, Reads
<1> QED
  BY <1>7, <1>8, <1>9, <1>10, <1>11, <1>12, <1>13 DEF Next, broker_process_fpm

\* buf, which has room for FPM_MAX_MSG_LEN bytes, never overflows and never
\* holds more than was sent, whatever the headers say.
THEOREM FpmTypeOK == Spec => []TypeOK
<1>1. Init => Reads /\ WalkInv
  BY ReadsInit, WalkInit
<1>2. (Reads /\ WalkInv) /\ [Next]_vars => (Reads /\ WalkInv)'
  <2>1. Reads => stream \in Seq(Frames)
    BY DEF Reads
  <2> QED  BY <2>1, ReadsNext, WalkNext
<1>3. Reads /\ WalkInv => TypeOK
  <2>1. SUFFICES ASSUME Reads, WalkInv PROVE TypeOK
    OBVIOUS
  <2>2. StreamSize \in Nat
    BY <2>1, FramesBegin DEF StreamSize, Reads
  <2>3. Accepted(fpm) => fpm.msg_len \in 4 .. FPM_MAX_MSG_LEN
    BY <2>1, AcceptedFits DEF Reads
  <2>4. l <= FPM_MAX_MSG_LEN
    BY <2>1, <2>3, FpmAssumption DEF Reads, WalkInv, FPM_MSG_HDR_LEN
  <2> QED  BY <2>1, <2>2, <2>4 DEF Reads, TypeOK
<1> QED  BY <1>1, <1>2, <1>3, PTL DEF Spec

-----------------------------------------------------------------------------
\* What zebra owes to brokerd: the header of a frame gives its length, and the
\* messages of a frame that can be right are padded.
HeadersRight == \A f \in Frames : Accepted(f) => f.msg_len = FrameSize(f)
Padded ==
    \A f \in Frames : Accepted(f) =>
        \A j \in Sound(f) : fpm_msg_align(f.nlmsgs[j].nlmsg_len) = f.nlmsgs[j].size

\* buf begins with frame i, and the frames before it were not refused.
At(i) ==
    /\ i \in 1 .. Len(stream) + 1
    /\ FrameBegin(i) = start
    /\ \A k \in 1 .. i - 1 : Accepted(stream[k])

\* The frames that end before frame i begins are the ones before it.
LEMMA ReadThrough ==
    ASSUME stream \in Seq(Frames), NEW i \in 1 .. Len(stream) + 1
    PROVE  Through(FrameBegin(i)) = 1 .. i - 1
<1>1. Len(stream) \in Nat /\ DOMAIN stream = 1 .. Len(stream)
  BY FramesBegin
<1>2. \A m, n \in 1 .. Len(stream) + 1 : m < n => FrameBegin(m) < FrameBegin(n)
  BY FramesBegin
<1>3. \A m \in 1 .. Len(stream) + 1 : FrameBegin(m) \in Nat
  BY FramesBegin
<1>4. ASSUME NEW k \in 1 .. Len(stream)
      PROVE  FrameBegin(k + 1) <= FrameBegin(i) <=> k + 1 <= i
  <2>1. k + 1 \in 1 .. Len(stream) + 1
    BY <1>1
  <2>2. k + 1 < i \/ k + 1 = i \/ i < k + 1
    BY <1>1
  <2>3. CASE k + 1 < i
    BY <1>2, <1>3, <2>1, <2>3
  <2>4. CASE k + 1 = i
    BY <1>3, <2>1, <2>4
  <2>5. CASE i < k + 1
    BY <1>2, <1>3, <2>1, <2>5
  <2> QED  BY <2>2, <2>3, <2>4, <2>5
<1>5. \A k \in 1 .. Len(stream) : k + 1 <= i <=> k \in 1 .. i - 1
  BY <1>1
<1>6. 1 .. i - 1 \subseteq 1 .. Len(stream)
  BY <1>1
<1> QED  BY <1>1, <1>4, <1>5, <1>6 DEF Through

\* The frame that is read.
LEMMA FrameRead ==
    ASSUME stream \in Seq(Frames), NEW i, At(i), Accepted(fpm)
    PROVE  /\ i \in 1 .. Len(stream) /\ InBuf = {i} /\ fpm = stream[i] /\ stream[i] \in Frames
           /\ FrameBegin(i + 1) = start + FrameSize(stream[i])
<1>1. Len(stream) \in Nat /\ DOMAIN stream = 1 .. Len(stream)
  BY FramesBegin
<1>2. ASSUME NEW k \in DOMAIN stream, FrameBegin(k) = start PROVE k = i
  <2>1. /\ k \in 1 .. Len(stream) + 1 /\ i \in 1 .. Len(stream) + 1
        /\ FrameBegin(i) = start /\ FrameBegin(i) \in Nat
    BY <1>1, FramesBegin DEF At
  <2>2. ~ (k < i) /\ ~ (i < k)
    <3>1. \A m, n \in 1 .. Len(stream) + 1 : m < n => FrameBegin(m) < FrameBegin(n)
      BY FramesBegin
    <3> QED  BY <1>2, <2>1, <3>1
  <2> QED  BY <1>1, <2>1, <2>2
<1>3. InBuf # {}
  BY DEF Accepted, fpm_msg_hdr_ok, fpm, Garbage
<1>4. InBuf = {i} /\ i \in DOMAIN stream
  BY <1>2, <1>3 DEF InBuf
<1>5. fpm = stream[i] /\ stream[i] \in Frames
  BY <1>1, <1>4 DEF fpm
<1>6. FrameBegin(i + 1) = FrameBegin(i) + FrameSize(stream[i])
  BY <1>1, <1>4, FramesBegin
<1> QED  BY <1>1, <1>4, <1>5, <1>6 DEF At

\* Only one frame begins at a place, so that buf begins with at most one.
LEMMA BeginOne ==
    ASSUME stream \in Seq(Frames), NEW i \in 1 .. Len(stream) + 1, NEW k \in 1 .. Len(stream) + 1,
           FrameBegin(i) = FrameBegin(k)
    PROVE  k = i
<1>1. Len(stream) \in Nat /\ \A m, n \in 1 .. Len(stream) + 1 : m < n => FrameBegin(m) < FrameBegin(n)
  BY FramesBegin
<1>2. \A m \in 1 .. Len(stream) + 1 : FrameBegin(m) \in Nat
  BY FramesBegin
<1>3. ~ (k < i) /\ ~ (i < k)
  BY <1>1, <1>2
<1> QED  BY <1>1, <1>3

\* buf begins with at most one frame.
LEMMA AtOne ==
    ASSUME stream \in Seq(Frames), NEW i, NEW k, At(i), At(k)
    PROVE  k = i
BY BeginOne DEF At

\* What buf begins with changes only with start.
LEMMA AtStays ==
    ASSUME UNCHANGED <<stream, start>>, NEW i
    PROVE  At(i)' <=> At(i)
BY DEF At, FrameBegin

\* process_nlmsg is done with the frame: buf begins with the next.
LEMMA AtNext ==
    ASSUME stream \in Seq(Frames), NEW i, At(i), Accepted(fpm), HeadersRight,
           start' = start + fpm.msg_len, stream' = stream
    PROVE  At(i + 1)' /\ start' = FrameBegin(i + 1) /\ i \in 1 .. Len(stream)
<1>1. /\ i \in 1 .. Len(stream) /\ fpm = stream[i] /\ stream[i] \in Frames
      /\ FrameBegin(i + 1) = start + FrameSize(stream[i])
  BY FrameRead
<1>2. start' = FrameBegin(i + 1)
  BY <1>1 DEF HeadersRight
<1>3. FrameBegin(i + 1)' = FrameBegin(i + 1)
  BY DEF FrameBegin
<1>4. \A k \in 1 .. (i + 1) - 1 : k = i \/ k \in 1 .. i - 1
  BY <1>1
<1>5. i + 1 \in 1 .. Len(stream) + 1
  BY <1>1, FramesBegin
<1>6. \A k \in 1 .. (i + 1) - 1 : Accepted(stream[k])
  BY <1>1, <1>4 DEF At
<1>7. (\A k \in 1 .. (i + 1) - 1 : Accepted(stream[k]))'
  BY <1>6
<1> QED  BY <1>1, <1>2, <1>3, <1>5, <1>7 DEF At

\* A call that is done with a frame leaves buf at the next.
LEMMA KeptNext ==
    ASSUME Reads, WalkInv, HeadersRight, \E i : At(i), [Next]_vars
    PROVE  (\E i : At(i))'
<1>1. PICK i : At(i)
  OBVIOUS
<1>2. stream' = stream /\ stream \in Seq(Frames)
  BY WalkNext DEF Reads
<1>3. CASE WalkDone
  <2>1. Accepted(fpm) /\ start' = start + fpm.msg_len
    BY <1>3 DEF WalkDone, Reads, WalkInv
  <2> QED  BY <1>1, <1>2, <2>1, AtNext
<1>4. CASE ~ WalkDone
  <2>1. start' = start
    BY <1>4 DEF Next, broker_process_fpm, RecvHdr, RecvBody, Check, ProcessNlmsg, Closed, vars
  <2> QED  BY <1>1, <1>2, <2>1, AtStays
<1> QED  BY <1>3, <1>4

\* The first call begins with the first frame.
LEMMA KeptInit ==
    ASSUME Init
    PROVE  At(1)
<1>1. Len(stream) \in Nat /\ FrameBegin(1) = 0
  BY WalkInit, FramesBegin
<1> QED  BY <1>1 DEF Init, At

\* However the bytes arrive, a call of broker_process_fpm takes whole frames,
\* when the header of every frame that is accepted gives its length.  (No reader
\* can keep to frames that are not as long as they say.)
THEOREM FramesAreKept ==
    ASSUME HeadersRight
    PROVE  Spec => []FramesKept
<1> DEFINE Inv == Reads /\ WalkInv /\ \E i : At(i)
<1>1. Init => Inv
  BY ReadsInit, WalkInit, KeptInit
<1>2. Inv /\ [Next]_vars => Inv'
  <2>1. Reads => stream \in Seq(Frames)
    BY DEF Reads
  <2> QED  BY <2>1, ReadsNext, WalkNext, KeptNext
<1>3. Inv => FramesKept
  BY DEF FramesKept, At
<1> QED  BY <1>1, <1>2, <1>3, PTL DEF Spec

-----------------------------------------------------------------------------
\* The routes among the first messages of frame i, up to j.
Sent(i, j) == {<<i, k>> : k \in {k \in 1 .. j - 1 : IsRoute(stream[i].nlmsgs[k])}}

\* The walk over frame i is at its message j, and all before j were right.
WalkAt(i, j) ==
    /\ j \in 1 .. Len(stream[i].nlmsgs) + 1
    /\ NlmsgBegin(stream[i], j) = off
    /\ 1 .. j - 1 \subseteq Sound(stream[i])
    /\ Published = Due(1 .. i - 1) \cup Sent(i, j)

\* What is published: between frames, all routes of the frames before; during a
\* walk, in addition the ones that the walk has passed.
InOrder ==
    /\ published \in Seq(Nat \X Nat)
    /\ \A m, n \in DOMAIN published : m < n => Sooner(published[m], published[n])
    /\ pc # "walk" => \A i : At(i) => Published = Due(1 .. i - 1)
    /\ pc = "walk" => \A i : At(i) => \E j : WalkAt(i, j)

\* What it means that a route is due.
LEMMA DueIs ==
    \A S, r : r \in Due(S) <=>
        \E i \in S : /\ \A k \in 1 .. i : Accepted(stream[k])
                     /\ \E j \in RoutesOf(stream[i]) : r = <<i, j>>
BY DEF Due

\* The routes of one more frame.
LEMMA DueMore ==
    ASSUME stream \in Seq(Frames), NEW i \in 1 .. Len(stream),
           \A k \in 1 .. i : Accepted(stream[k])
    PROVE  /\ Due(1 .. i) = Due(1 .. i - 1) \cup ({i} \X RoutesOf(stream[i]))
           /\ \A r \in Due(1 .. i - 1) : r \in Nat \X Nat /\ r[1] < i
<1>1. Len(stream) \in Nat /\ DOMAIN stream = 1 .. Len(stream)
  BY FramesBegin
<1>2. \A k \in 1 .. i : k = i \/ k \in 1 .. i - 1
  BY <1>1
<1>3. 1 .. i - 1 \subseteq 1 .. i /\ i \in 1 .. i
  BY <1>1
<1>4. \A r : r \in Due(1 .. i) <=> r \in Due(1 .. i - 1) \/ r \in {i} \X RoutesOf(stream[i])
  <2>1. \A r : r \in {i} \X RoutesOf(stream[i]) <=> \E j \in RoutesOf(stream[i]) : r = <<i, j>>
    OBVIOUS
  <2>2. ASSUME NEW r \in Due(1 .. i)
        PROVE  r \in Due(1 .. i - 1) \/ r \in {i} \X RoutesOf(stream[i])
    <3>1. PICK k \in 1 .. i : /\ \A n \in 1 .. k : Accepted(stream[n])
                              /\ \E j \in RoutesOf(stream[k]) : r = <<k, j>>
      BY DueIs
    <3> QED  BY <1>2, <2>1, <3>1, DueIs
  <2>3. ASSUME NEW r \in Due(1 .. i - 1) PROVE r \in Due(1 .. i)
    <3>1. PICK k \in 1 .. i - 1 : /\ \A n \in 1 .. k : Accepted(stream[n])
                                  /\ \E j \in RoutesOf(stream[k]) : r = <<k, j>>
      BY DueIs
    <3> QED  BY <1>3, <3>1, DueIs
  <2>4. ASSUME NEW r \in {i} \X RoutesOf(stream[i]) PROVE r \in Due(1 .. i)
    BY <1>3, <2>1, DueIs
  <2> QED  BY <2>2, <2>3, <2>4
<1>5. ASSUME NEW r \in Due(1 .. i - 1) PROVE r \in Nat \X Nat /\ r[1] < i
  <2>1. PICK k \in 1 .. i - 1 : \E j \in RoutesOf(stream[k]) : r = <<k, j>>
    BY DueIs
  <2>2. PICK j \in RoutesOf(stream[k]) : r = <<k, j>>
    BY <2>1
  <2>3. k \in 1 .. Len(stream) /\ k < i /\ k \in Nat
    BY <1>1
  <2>4. j \in DOMAIN stream[k].nlmsgs
    BY <2>2 DEF RoutesOf, Sound
  <2>5. j \in Nat
    <3>1. stream[k] \in Frames
      BY <1>1, <2>3
    <3> QED  BY <2>4, <3>1, NlmsgsBegin
  <2> QED  BY <2>2, <2>3, <2>5
<1> QED  BY <1>4, <1>5

\* Where the walk is, in terms of the room that is left.
LEMMA RoomLeft ==
    ASSUME Reads, WalkInv, HeadersRight, pc = "walk", NEW i, At(i), NEW j, WalkAt(i, j)
    PROVE  /\ i \in 1 .. Len(stream) /\ fpm = stream[i] /\ stream[i] \in Frames /\ InBuf = {i}
           /\ \A k \in 1 .. i : Accepted(stream[k])
           /\ start + l = FrameBegin(i + 1)
           /\ len = FrameSize(stream[i]) - 4 - NlmsgBegin(stream[i], j)
           /\ NlmsgAt(off) = {j} \cap DOMAIN fpm.nlmsgs
<1>1. Accepted(fpm) /\ stream \in Seq(Frames)
  BY DEF Reads, WalkInv
<1>2. /\ i \in 1 .. Len(stream) /\ fpm = stream[i] /\ stream[i] \in Frames /\ InBuf = {i}
      /\ FrameBegin(i + 1) = start + FrameSize(stream[i])
  BY <1>1, FrameRead
<1>3. fpm.msg_len = FrameSize(fpm) /\ l = fpm.msg_len
  BY <1>1, <1>2 DEF HeadersRight, Reads
<1>4. \A k \in 1 .. i : k = i \/ k \in 1 .. i - 1
  BY <1>2, FramesBegin, <1>1
<1>5. \A k \in 1 .. i : Accepted(stream[k])
  BY <1>1, <1>2, <1>4 DEF At
<1>6. off + len = fpm.msg_len - 4 /\ off \in Nat /\ len \in Nat /\ fpm.msg_len \in Nat
  BY <1>1, AcceptedFits DEF WalkInv
<1>7. len = FrameSize(stream[i]) - 4 - NlmsgBegin(stream[i], j)
  BY <1>2, <1>3, <1>6 DEF WalkAt
<1>8. ASSUME NEW k \in DOMAIN fpm.nlmsgs, NlmsgBegin(fpm, k) = off PROVE k = j
  <2>1. /\ Len(fpm.nlmsgs) \in Nat /\ DOMAIN fpm.nlmsgs = 1 .. Len(fpm.nlmsgs)
        /\ \A m, n \in 1 .. Len(fpm.nlmsgs) + 1 : m < n => NlmsgBegin(fpm, m) < NlmsgBegin(fpm, n)
    BY <1>2, NlmsgsBegin, Zenon
  <2>2. j \in 1 .. Len(fpm.nlmsgs) + 1 /\ k \in 1 .. Len(fpm.nlmsgs) + 1 /\ NlmsgBegin(fpm, j) = off
    BY <1>2, <2>1 DEF WalkAt
  <2>3. ~ (k < j) /\ ~ (j < k)
    BY <1>6, <1>8, <2>1, <2>2
  <2> QED  BY <2>1, <2>2, <2>3
<1>9. NlmsgAt(off) = {j} \cap DOMAIN fpm.nlmsgs
  <2>1. NlmsgBegin(fpm, j) = off
    BY <1>2 DEF WalkAt
  <2> QED  BY <1>8, <2>1 DEF NlmsgAt
<1> QED  BY <1>2, <1>3, <1>5, <1>7, <1>9

\* The message that the walk is at is right when the loop goes on.
LEMMA SoundHere ==
    ASSUME NEW f \in Frames, NEW j \in 1 .. Len(f.nlmsgs), 1 .. j - 1 \subseteq Sound(f),
           len = FrameSize(f) - 4 - NlmsgBegin(f, j)
    PROVE  NLMSG_OK(f.nlmsgs[j]) <=> j \in Sound(f)
<1>1. Len(f.nlmsgs) \in Nat /\ DOMAIN f.nlmsgs = 1 .. Len(f.nlmsgs)
  BY NlmsgsBegin
<1>2. NlmsgBegin(f, j) \in Nat /\ FrameSize(f) \in Nat
  BY <1>1, NlmsgsBegin
<1> DEFINE Right(k) ==
      f.nlmsgs[k].nlmsg_len \in NLMSG_HDRLEN .. (FrameSize(f) - FPM_MSG_HDR_LEN - NlmsgBegin(f, k))
<1>3. \A k \in 1 .. j - 1 : Right(k)
  <2>1. ASSUME NEW k \in 1 .. j - 1 PROVE Right(k)
    <3>1. k \in Sound(f) /\ k \in 1 .. k
      BY <1>1
    <3> QED  BY <3>1 DEF Sound
  <2> QED  BY <2>1
<1>4. NLMSG_OK(f.nlmsgs[j]) <=> Right(j)
  BY <1>1, <1>2, FpmAssumption DEF NLMSG_OK, NLMSG_HDRLEN, FPM_MSG_HDR_LEN
<1>5. \A k \in 1 .. j : k = j \/ k \in 1 .. j - 1
  BY <1>1
<1>6. j \in 1 .. j
  BY <1>1
<1>7. j \in Sound(f) <=> \A k \in 1 .. j : Right(k)
  BY <1>1 DEF Sound
<1> HIDE DEF Right
<1> QED  BY <1>3, <1>4, <1>5, <1>6, <1>7

\* A turn of the loop publishes the message if it is a route, after all others.
LEMMA TurnInOrder ==
    ASSUME Reads, WalkInv, HeadersRight, Padded, InOrder, NEW i, At(i), ProcessNlmsg
    PROVE  InOrder'
<1>1. pc = "walk" /\ pc' = "walk" /\ UNCHANGED <<stream, start, l>> /\ stream \in Seq(Frames)
  BY DEF ProcessNlmsg, Reads
<1>2. PICK j : WalkAt(i, j)
  BY <1>1 DEF InOrder
<1> DEFINE f == stream[i]
<1>3. /\ i \in 1 .. Len(stream) /\ fpm = f /\ f \in Frames /\ InBuf = {i}
      /\ \A k \in 1 .. i : Accepted(stream[k])
      /\ len = FrameSize(f) - 4 - NlmsgBegin(f, j)
      /\ NlmsgAt(off) = {j} \cap DOMAIN f.nlmsgs
  BY <1>1, <1>2, RoomLeft
<1>4. /\ j \in DOMAIN f.nlmsgs /\ NLMSG_OK(f.nlmsgs[j])
      /\ published' = IF IsRoute(f.nlmsgs[j]) THEN Append(published, <<i, j>>) ELSE published
      /\ off' = off + fpm_msg_align(f.nlmsgs[j].nlmsg_len)
  <2>1. PICK n \in NlmsgAt(off) :
           /\ NLMSG_OK(fpm.nlmsgs[n])
           /\ published' = IF IsRoute(fpm.nlmsgs[n])
                           THEN Append(published, <<CHOOSE x \in InBuf : TRUE, n>>) ELSE published
           /\ off' = off + fpm_msg_align(fpm.nlmsgs[n].nlmsg_len)
    BY Zenon DEF ProcessNlmsg
  <2>2. n = j /\ j \in DOMAIN f.nlmsgs
    BY <1>3, <2>1
  <2>3. (CHOOSE x \in InBuf : TRUE) = i
    BY <1>3
  <2> QED  BY <1>3, <2>1, <2>2, <2>3
<1>5. /\ Len(f.nlmsgs) \in Nat /\ DOMAIN f.nlmsgs = 1 .. Len(f.nlmsgs) /\ j \in 1 .. Len(f.nlmsgs)
      /\ NlmsgBegin(f, j + 1) = NlmsgBegin(f, j) + f.nlmsgs[j].size
  BY <1>3, <1>4, NlmsgsBegin, Zenon
<1>6. j \in Sound(f)
  BY <1>2, <1>3, <1>4, <1>5, SoundHere, Zenon DEF WalkAt
<1>7. fpm_msg_align(f.nlmsgs[j].nlmsg_len) = f.nlmsgs[j].size
  <2>1. i \in 1 .. i
    BY <1>1, <1>3, FramesBegin
  <2> QED  BY <1>3, <1>6, <2>1 DEF Padded
<1>8. NlmsgBegin(f, j + 1) = off'
  BY <1>2, <1>4, <1>5, <1>7 DEF WalkAt
<1>9. Published = Due(1 .. i - 1) \cup Sent(i, j)
  BY <1>2 DEF WalkAt
<1>10. 1 .. (j + 1) - 1 \subseteq Sound(f) /\ \A k : k \in 1 .. (j + 1) - 1 <=> k \in 1 .. j - 1 \/ k = j
  <2>1. \A k : k \in 1 .. (j + 1) - 1 <=> k \in 1 .. j - 1 \/ k = j
    BY <1>5
  <2> QED  BY <1>2, <1>6, <2>1 DEF WalkAt
<1>11. Sent(i, j + 1) = Sent(i, j) \cup (IF IsRoute(f.nlmsgs[j]) THEN {<<i, j>>} ELSE {})
  BY <1>10 DEF Sent
<1>12. /\ published' \in Seq(Nat \X Nat)
       /\ \A m, n \in DOMAIN published' : m < n => Sooner(published'[m], published'[n])
       /\ Published' = Published \cup (IF IsRoute(f.nlmsgs[j]) THEN {<<i, j>>} ELSE {})
  <2>1. CASE ~ IsRoute(f.nlmsgs[j])
    BY <1>4, <2>1 DEF InOrder, Published
  <2>2. CASE IsRoute(f.nlmsgs[j])
    <3>1. published \in Seq(Nat \X Nat) /\ <<i, j>> \in Nat \X Nat /\ published' = Append(published, <<i, j>>)
      BY <1>1, <1>3, <1>4, <1>5, <2>2, FramesBegin DEF InOrder
    <3>2. /\ published' \in Seq(Nat \X Nat) /\ Len(published) \in Nat
          /\ DOMAIN published = 1 .. Len(published) /\ DOMAIN published' = 1 .. Len(published) + 1
          /\ \A n \in 1 .. Len(published) : published'[n] = published[n]
          /\ published'[Len(published) + 1] = <<i, j>>
      BY <3>1
    <3>3. \A n : n \in DOMAIN published' <=> n \in DOMAIN published \/ n = Len(published) + 1
      BY <3>2
    <3>4. Published' = Published \cup {<<i, j>>}
      BY <3>2, <3>3, Zenon DEF Published
    <3>5. \A r \in Published : Sooner(r, <<i, j>>)
      <4>1. \A r \in Due(1 .. i - 1) : r[1] < i
        BY <1>1, <1>3, DueMore
      <4>2. \A k \in 1 .. j - 1 : k < j
        BY <1>5
      <4>3. \A r \in Sent(i, j) : r[1] = i /\ r[2] < j
        BY <4>2 DEF Sent
      <4> QED  BY <1>9, <4>1, <4>3 DEF Sooner
    <3>6. ASSUME NEW m \in DOMAIN published', NEW n \in DOMAIN published', m < n
          PROVE  Sooner(published'[m], published'[n])
      <4>1. m \in DOMAIN published /\ published'[m] = published[m]
        BY <3>2, <3>6
      <4>2. CASE n = Len(published) + 1
        BY <3>2, <3>5, <4>1, <4>2, Zenon DEF Published
      <4>3. CASE n # Len(published) + 1
        BY <3>2, <3>3, <3>6, <4>1, <4>3 DEF InOrder
      <4> QED  BY <4>2, <4>3
    <3> QED  BY <2>2, <3>2, <3>4, <3>6, Zenon
  <2> QED  BY <2>1, <2>2
<1>13. Published' = Due(1 .. i - 1) \cup Sent(i, j + 1)
  BY <1>9, <1>11, <1>12
<1>14. j + 1 \in 1 .. Len(f.nlmsgs) + 1
  BY <1>5
<1>15. Due(1 .. i - 1)' = Due(1 .. i - 1) /\ Sent(i, j + 1)' = Sent(i, j + 1)
  BY <1>1 DEF Due, Sent
<1>16. WalkAt(i, j + 1)'
  BY <1>1, <1>8, <1>10, <1>13, <1>14, <1>15 DEF WalkAt
<1>17. \A k : At(k)' => k = i
  BY <1>1, AtStays, AtOne
<1> QED  BY <1>1, <1>12, <1>16, <1>17 DEF InOrder

\* The walk begins at the first message.
LEMMA WalkBeginsInOrder ==
    ASSUME Reads, InOrder, pc # "walk", NEW i, At(i), Accepted(fpm), ToWalk,
           UNCHANGED <<stream, start, published>>
    PROVE  InOrder'
<1>1. pc' = "walk" /\ off' = 0 /\ stream \in Seq(Frames)
  BY DEF ToWalk, Reads
<1>2. Published = Due(1 .. i - 1)
  BY DEF InOrder
<1>3. stream[i] \in Frames
  BY <1>1, FrameRead
<1>4. /\ NlmsgBegin(stream[i], 1) = 0 /\ 1 \in 1 .. Len(stream[i].nlmsgs) + 1
  BY <1>3, NlmsgsBegin
<1>5. 1 .. 1 - 1 = {}
  OBVIOUS
<1>6. Sent(i, 1) = {}
  BY <1>5 DEF Sent
<1>7. /\ Due(1 .. i - 1)' = Due(1 .. i - 1) /\ Sent(i, 1)' = Sent(i, 1)
      /\ Published' = Published
  BY DEF Due, Sent, Published
<1>8. WalkAt(i, 1)'
  BY <1>1, <1>2, <1>4, <1>5, <1>6, <1>7 DEF WalkAt
<1>9. \A k : At(k)' => k = i
  BY <1>1, AtStays, AtOne, Zenon
<1> QED  BY <1>1, <1>8, <1>9 DEF InOrder

\* The walk ends: all routes of the frame are published.
LEMMA FrameDone ==
    ASSUME Reads, WalkInv, HeadersRight, pc = "walk", NEW i, At(i), NEW j, WalkAt(i, j),
           \A k \in NlmsgAt(off) : ~ NLMSG_OK(fpm.nlmsgs[k])
    PROVE  Published = Due(1 .. i)
<1> DEFINE f == stream[i]
<1>1. /\ i \in 1 .. Len(stream) /\ fpm = f /\ f \in Frames
      /\ \A k \in 1 .. i : Accepted(stream[k])
      /\ len = FrameSize(f) - 4 - NlmsgBegin(f, j)
      /\ NlmsgAt(off) = {j} \cap DOMAIN f.nlmsgs
  BY RoomLeft
<1>2. /\ Len(f.nlmsgs) \in Nat /\ DOMAIN f.nlmsgs = 1 .. Len(f.nlmsgs)
      /\ j \in 1 .. Len(f.nlmsgs) + 1 /\ 1 .. j - 1 \subseteq Sound(f)
  BY <1>1, NlmsgsBegin, Zenon DEF WalkAt
<1>3. j \notin Sound(f)
  <2>1. SUFFICES ASSUME j \in DOMAIN f.nlmsgs PROVE j \notin Sound(f)
    BY DEF Sound
  <2> QED  BY <1>1, <1>2, <2>1, SoundHere, Zenon
<1>4. ASSUME NEW k \in Sound(f) PROVE k \in 1 .. j - 1
  <2>1. k \in DOMAIN f.nlmsgs /\ k \in 1 .. Len(f.nlmsgs)
    BY <1>2 DEF Sound
  <2>2. SUFFICES ASSUME j <= k PROVE FALSE
    BY <1>2, <2>1
  <2>3. j \in DOMAIN f.nlmsgs /\ \A n \in 1 .. j : n \in 1 .. k
    BY <1>2, <2>1, <2>2
  <2>4. j \in Sound(f)
    BY <2>3 DEF Sound
  <2> QED  BY <1>3, <2>4, Zenon
<1>5. Sound(f) = 1 .. j - 1
  BY <1>2, <1>4, Zenon
<1>6. Sent(i, j) = {i} \X RoutesOf(f)
  BY <1>5 DEF Sent, RoutesOf
<1> QED  BY <1>1, <1>6, DueMore, Zenon DEF Reads, WalkAt

\* No step publishes out of order, twice, or too little.
LEMMA OrderNext ==
    ASSUME Reads, WalkInv, HeadersRight, Padded, \E i : At(i), InOrder, [Next]_vars
    PROVE  InOrder'
<1>1. PICK i : At(i)
  OBVIOUS
<1>2. stream' = stream /\ stream \in Seq(Frames)
  BY WalkNext DEF Reads
<1>3. ASSUME UNCHANGED <<start, published>>, pc # "walk", pc' # "walk"
      PROVE  InOrder'
  <2>1. Published' = Published /\ \A k : At(k)' <=> At(k)
    BY <1>2, <1>3, AtStays DEF Published
  <2>2. \A k : Due(1 .. k - 1)' = Due(1 .. k - 1)
    BY <1>2 DEF Due
  <2> QED  BY <1>3, <2>1, <2>2 DEF InOrder
<1>4. CASE RecvHdr
  BY <1>3, <1>4 DEF RecvHdr
<1>5. CASE Check
  <2>1. pc # "walk" /\ UNCHANGED <<start, published>>
    BY <1>5 DEF Check
  <2>2. pc' # "walk" \/ (Accepted(fpm) /\ ToWalk)
    BY <1>5 DEF Check
  <2> QED  BY <1>1, <1>2, <1>3, <2>1, <2>2, WalkBeginsInOrder
<1>6. CASE RecvBody
  <2>1. pc = "body" /\ UNCHANGED <<start, published>> /\ (pc' # "walk" \/ ToWalk)
    BY <1>6 DEF RecvBody
  <2>2. Accepted(fpm)
    BY <2>1 DEF WalkInv
  <2> QED  BY <1>1, <1>2, <1>3, <2>1, <2>2, WalkBeginsInOrder
<1>7. CASE ProcessNlmsg
  BY <1>1, <1>7, TurnInOrder
<1>8. CASE WalkDone
  <2>1. /\ pc = "walk" /\ pc' = "hdr" /\ published' = published /\ start' = start + fpm.msg_len
        /\ \A k \in NlmsgAt(off) : ~ NLMSG_OK(fpm.nlmsgs[k])
    BY <1>8 DEF WalkDone, Reads
  <2>2. Accepted(fpm)
    BY <2>1 DEF WalkInv
  <2>3. At(i + 1)' /\ i \in 1 .. Len(stream)
    BY <1>1, <1>2, <2>1, <2>2, AtNext
  <2>4. PICK j : WalkAt(i, j)
    BY <1>1, <2>1 DEF InOrder
  <2>5. Published = Due(1 .. i)
    BY <1>1, <2>1, <2>4, FrameDone
  <2>6. (i + 1) - 1 = i
    BY <1>2, <2>3, FramesBegin
  <2>7. Published' = Due(1 .. (i + 1) - 1)'
    BY <1>2, <2>1, <2>5, <2>6 DEF Published, Due
  <2>8. \A k : At(k)' => k = i + 1
    <3>1. SUFFICES ASSUME NEW k, At(k)' PROVE k = i + 1
      OBVIOUS
    <3>2. FrameBegin(k)' = FrameBegin(k) /\ FrameBegin(i + 1)' = FrameBegin(i + 1)
      BY <1>2 DEF FrameBegin
    <3>3. /\ k \in 1 .. Len(stream) + 1 /\ i + 1 \in 1 .. Len(stream) + 1
          /\ FrameBegin(k) = FrameBegin(i + 1)
      BY <1>2, <2>3, <3>1, <3>2 DEF At
    <3> QED  BY <1>2, <3>3, BeginOne
  <2>9. \A k : At(k)' => Published' = Due(1 .. k - 1)'
    BY <2>7, <2>8
  <2> QED  BY <2>1, <2>9 DEF InOrder
<1>9. CASE Closed
  BY <1>3, <1>9 DEF Closed
<1>10. CASE UNCHANGED vars
  <2>1. UNCHANGED <<stream, start, l, pc, off, len, published>>
    BY <1>10 DEF vars
  <2>2. Published' = Published /\ \A k : At(k)' <=> At(k)
    BY <2>1, AtStays DEF Published
  <2>3. \A k : Due(1 .. k - 1)' = Due(1 .. k - 1)
    BY <2>1, Zenon DEF Due
  <2>4. \A k, j : WalkAt(k, j)' <=> WalkAt(k, j)
    BY <2>1 DEF WalkAt, Published, Due, Sent
  <2> QED  BY <2>1, <2>2, <2>3, <2>4 DEF InOrder
<1> QED
  BY <1>4, <1>5, <1>6, <1>7, <1>8, <1>9, <1>10 DEF Next, broker_process_fpm

\* Between the frames, and in the middle of one, what is published is what the
\* property says.
LEMMA InOrderHolds ==
    ASSUME Reads, WalkInv, HeadersRight, NEW i, At(i), InOrder
    PROVE  PublishedInOrder
<1>1. stream \in Seq(Frames) /\ i \in 1 .. Len(stream) + 1 /\ FrameBegin(i) = start
  BY DEF Reads, At
<1>2. Through(start) = 1 .. i - 1
  BY <1>1, ReadThrough
<1>3. \A m, n \in DOMAIN published : m < n => Sooner(published[m], published[n])
  BY Zenon DEF InOrder
<1>4. CASE pc # "walk"
  BY <1>2, <1>3, <1>4 DEF InOrder, PublishedInOrder
<1>5. CASE pc = "walk"
  <2>1. PICK j : WalkAt(i, j)
    BY <1>5 DEF InOrder
  <2>2. /\ i \in 1 .. Len(stream) /\ InBuf = {i} /\ stream[i] \in Frames
        /\ \A k \in 1 .. i : Accepted(stream[k])
        /\ start + l = FrameBegin(i + 1)
    BY <1>5, <2>1, RoomLeft
  <2>3. i + 1 \in 1 .. Len(stream) + 1 /\ (i + 1) - 1 = i /\ i \in 1 .. i
    BY <1>1, <2>2, FramesBegin
  <2>4. Through(start + l) = 1 .. i
    BY <1>1, <2>2, <2>3, ReadThrough
  <2>5. /\ Due(1 .. i) = Due(1 .. i - 1) \cup ({i} \X RoutesOf(stream[i]))
        /\ \A r \in Due(1 .. i - 1) : r[1] < i
    BY <1>1, <2>2, DueMore, Zenon
  <2>6. /\ Len(stream[i].nlmsgs) \in Nat
        /\ DOMAIN stream[i].nlmsgs = 1 .. Len(stream[i].nlmsgs)
        /\ j \in 1 .. Len(stream[i].nlmsgs) + 1
    BY <2>1, <2>2, NlmsgsBegin DEF WalkAt
  <2>7. Published = Due(1 .. i - 1) \cup Sent(i, j) /\ 1 .. j - 1 \subseteq Sound(stream[i])
    BY <2>1 DEF WalkAt
  <2>8. Sent(i, j) \subseteq {i} \X RoutesOf(stream[i])
    BY <2>7 DEF Sent, RoutesOf
  <2>9. ASSUME NEW r \in Due(1 .. i) \ Published, NEW p \in Published PROVE Sooner(p, r)
    <3>1. r \in {i} \X RoutesOf(stream[i]) /\ r \notin Sent(i, j)
      BY <2>5, <2>7, <2>9
    <3>2. PICK k \in RoutesOf(stream[i]) : r = <<i, k>>
      BY <3>1
    <3>3. k \notin 1 .. j - 1
      BY <3>1, <3>2 DEF Sent, RoutesOf
    <3>4. k \in 1 .. Len(stream[i].nlmsgs)
      BY <2>6 DEF RoutesOf, Sound
    <3>5. \A n \in 1 .. j - 1 : n < k
      BY <2>6, <3>3, <3>4
    <3>6. r[1] = i /\ r[2] = k
      BY <3>2
    <3>7. CASE p \in Due(1 .. i - 1)
      BY <2>5, <3>6, <3>7, Zenon DEF Sooner
    <3>8. CASE p \in Sent(i, j)
      BY <3>5, <3>6, <3>8 DEF Sooner, Sent
    <3> QED  BY <2>7, <3>7, <3>8
  <2>10. InBuf # {} /\ InBuf \subseteq Through(start + l)
    BY <2>2, <2>3, <2>4
  <2>11. Due(Through(start)) \subseteq Published /\ Published \subseteq Due(Through(start + l))
    BY <1>2, <2>4, <2>5, <2>7, <2>8
  <2>12. \A r \in Due(Through(start + l)) \ Published : \A p \in Published : Sooner(p, r)
    BY <2>4, <2>9
  <2> QED  BY <1>3, <1>5, <2>10, <2>11, <2>12 DEF PublishedInOrder
<1> QED  BY <1>4, <1>5

\* Nothing is published, and nothing was read.
LEMMA OrderInit ==
    ASSUME Init
    PROVE  InOrder
<1>1. At(1) /\ stream \in Seq(Frames)
  BY KeptInit, WalkInit
<1>2. \A i : At(i) => i = 1
  BY <1>1, AtOne
<1>3. Due(1 .. 1 - 1) = {}
  BY DEF Due
<1>4. published = <<>> /\ pc = "hdr" /\ Published = {}
  BY DEF Init, Published
<1> QED  BY <1>2, <1>3, <1>4 DEF InOrder

\* When the headers give the lengths of their frames and the messages are
\* padded, the routes that are published are the ones zebra sent, each once and
\* in order, whatever frames there are and however the bytes arrive.
THEOREM RoutesArePublishedInOrder ==
    ASSUME HeadersRight, Padded
    PROVE  Spec => []PublishedInOrder
<1> DEFINE Inv == Reads /\ WalkInv /\ (\E i : At(i)) /\ InOrder
<1>1. Init => Inv
  BY ReadsInit, WalkInit, KeptInit, OrderInit
<1>2. Inv /\ [Next]_vars => Inv'
  <2>1. Reads => stream \in Seq(Frames)
    BY DEF Reads
  <2> QED  BY <2>1, ReadsNext, WalkNext, KeptNext, OrderNext
<1>3. Inv => PublishedInOrder
  BY InOrderHolds
<1> QED  BY <1>1, <1>2, <1>3, PTL DEF Spec
==============================================================================

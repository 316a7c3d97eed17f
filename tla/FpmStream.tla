------------------------------ MODULE FpmStream ------------------------------
(***************************************************************************)
(* daemon/fpm.h, and broker_process_fpm and process_nlmsg of               *)
(* daemon/broker_process.c: how brokerd cuts the bytes that zebra sends    *)
(* into FPM messages (frames), and a frame into netlink messages.  recv    *)
(* returns any part of what was asked for, and zebra may close the         *)
(* connection between any two bytes.                                       *)
(*                                                                         *)
(* A byte is known by its position: `stream' says which frames zebra sends *)
(* one after the other, `start' is the position of the first byte in buf   *)
(* and `l' how many there are.  Lengths are real lengths of the protocols; *)
(* only the limit on a frame and the modulus of size_t are made small.     *)
(* What a route message says is the concern of Rtnl.                       *)
(***************************************************************************)
EXTENDS Naturals, Sequences

CONSTANTS Frames,           \* [version, msg_type, msg_len, nlmsgs]
          MaxFrames,        \* bound on the frames of a stream
          FPM_MAX_MSG_LEN,
          SizeT             \* the modulus of size_t

FPM_MSG_HDR_LEN == 4
NLMSG_HDRLEN == 16
RTMSG_LEN == 12

\* fpm_msg_align, and NLMSG_ALIGN, which is the same.
fpm_msg_align(len) == ((len + 3) \div 4) * 4

ASSUME FpmAssumption ==
    /\ MaxFrames \in Nat /\ FPM_MAX_MSG_LEN \in Nat /\ SizeT \in Nat
    /\ FPM_MSG_HDR_LEN <= FPM_MAX_MSG_LEN /\ FPM_MAX_MSG_LEN < SizeT
    /\ \A f \in Frames :
          /\ f.msg_len \in Nat
          /\ DOMAIN f.nlmsgs = 1 .. Len(f.nlmsgs) /\ Len(f.nlmsgs) \in Nat
          /\ \A i \in DOMAIN f.nlmsgs :
                f.nlmsgs[i].nlmsg_len \in Nat /\ f.nlmsgs[i].size \in Nat \ {0}

VARIABLES stream,     \* the frames that zebra sends
          start, l,   \* what of it is in buf
          pc,         \* where broker_process_fpm is
          off, len,   \* nlh, from the start of the payload, and len of process_nlmsg
          published   \* the route messages published, as <<frame, message>>

vars == <<stream, start, l, pc, off, len, published>>

-----------------------------------------------------------------------------
\* The bytes of a frame.  A message takes the room that its sender gave it
\* (size), whatever its header says.
Sums(size) == LET sum[n \in Nat] == IF n = 0 THEN 0 ELSE sum[n - 1] + size[n] IN sum

NlmsgBegin(f, j) == Sums([k \in DOMAIN f.nlmsgs |-> f.nlmsgs[k].size])[j - 1]
FrameSize(f) == FPM_MSG_HDR_LEN + NlmsgBegin(f, Len(f.nlmsgs) + 1)
FrameBegin(i) == Sums([k \in DOMAIN stream |-> FrameSize(stream[k])])[i - 1]
StreamSize == FrameBegin(Len(stream) + 1)

\* What is read as a header where none begins.
Garbage == [version |-> 0, msg_type |-> "NONE", msg_len |-> 0, nlmsgs |-> <<>>]

\* The frame at the start of buf, and the netlink message at an offset of it.
InBuf == {i \in DOMAIN stream : FrameBegin(i) = start}
fpm == IF InBuf = {} THEN Garbage ELSE stream[CHOOSE i \in InBuf : TRUE]
NlmsgAt(o) == {j \in DOMAIN fpm.nlmsgs : NlmsgBegin(fpm, j) = o}

-----------------------------------------------------------------------------
\* Mutant: the length of a netlink frame need not be aligned.
HdrUnaligned(f) ==
    /\ f.msg_type # "NONE"
    /\ f.msg_len \in FPM_MSG_HDR_LEN .. FPM_MAX_MSG_LEN

fpm_msg_hdr_ok(f) ==
    /\ f.msg_type # "NONE"
    /\ f.msg_len \in FPM_MSG_HDR_LEN .. FPM_MAX_MSG_LEN
    /\ f.msg_type = "NETLINK" => fpm_msg_align(f.msg_len) = f.msg_len

fpm_msg_data_len(f) == (f.msg_len + SizeT - FPM_MSG_HDR_LEN) % SizeT

\* The header checks of broker_process_fpm.
Accepted(f) ==
    /\ fpm_msg_hdr_ok(f)
    /\ f.version = 1
    /\ f.msg_type = "NETLINK"
    /\ f.msg_len <= FPM_MAX_MSG_LEN

Init ==
    /\ stream \in UNION {[1 .. n -> Frames] : n \in 0 .. MaxFrames}
    /\ start = 0
    /\ l = 0
    /\ pc = "hdr"
    /\ off = 0
    /\ len = 0
    /\ published = <<>>

\* recv of any number of the bytes that are missing up to `want'.
recv(want) ==
    \E n \in (1 .. want - l) \cap (1 .. StreamSize - start - l) : l' = l + n

RecvHdr ==
    /\ pc = "hdr"
    /\ recv(FPM_MSG_HDR_LEN)
    /\ pc' = IF l' < FPM_MSG_HDR_LEN THEN "hdr" ELSE "check"
    /\ UNCHANGED <<stream, start, off, len, published>>

\* process_nlmsg begins at the payload.
ToWalk ==
    /\ pc' = "walk"
    /\ off' = 0
    /\ len' = fpm_msg_data_len(fpm)

\* Mutant: a frame is expected to have a payload.
CheckAsksMore ==
    /\ pc = "check"
    /\ IF Accepted(fpm) THEN pc' = "body" ELSE pc' = "exit"
    /\ UNCHANGED <<stream, start, l, off, len, published>>

Check ==
    /\ pc = "check"
    /\ \/ ~ Accepted(fpm) /\ pc' = "exit" /\ UNCHANGED <<off, len>>
       \/ Accepted(fpm) /\ l < fpm.msg_len /\ pc' = "body" /\ UNCHANGED <<off, len>>
       \/ Accepted(fpm) /\ l >= fpm.msg_len /\ ToWalk
    /\ UNCHANGED <<stream, start, l, published>>

\* Mutants: the rest of the frame is asked for once; the header, which is
\* there already, is asked for again.
RecvBodyOnce ==
    /\ pc = "body"
    /\ recv(fpm.msg_len)
    /\ ToWalk
    /\ UNCHANGED <<stream, start, published>>

RecvBodyAll ==
    /\ pc = "body"
    /\ recv(fpm.msg_len + FPM_MSG_HDR_LEN)
    /\ IF l' < fpm.msg_len THEN pc' = "body" /\ UNCHANGED <<off, len>> ELSE ToWalk
    /\ UNCHANGED <<stream, start, published>>

RecvBody ==
    /\ pc = "body"
    /\ recv(fpm.msg_len)
    /\ IF l' < fpm.msg_len THEN pc' = "body" /\ UNCHANGED <<off, len>> ELSE ToWalk
    /\ UNCHANGED <<stream, start, published>>

\* recv returns 0 or fails: brokerd ends.
Closed ==
    /\ pc \in {"hdr", "body"}
    /\ pc' = "exit"
    /\ UNCHANGED <<stream, start, l, off, len, published>>

NLMSG_OK(m) == len >= NLMSG_HDRLEN /\ m.nlmsg_len \in NLMSG_HDRLEN .. len

\* process_rtnl drops what is too short to hold a struct rtmsg.
IsRoute(m) ==
    /\ m.nlmsg_type \in {"NEWROUTE", "DELROUTE"}
    /\ m.nlmsg_len >= NLMSG_HDRLEN + RTMSG_LEN

\* Mutant: the next message follows without padding.
NextUnpadded ==
    /\ pc = "walk"
    /\ \E j \in NlmsgAt(off) :
          LET m == fpm.nlmsgs[j]
          IN  /\ NLMSG_OK(m)
              /\ published' = IF IsRoute(m) THEN Append(published, <<CHOOSE i \in InBuf : TRUE, j>>)
                              ELSE published
              /\ off' = off + m.nlmsg_len
              /\ len' = (len + SizeT - m.nlmsg_len) % SizeT
    /\ UNCHANGED <<stream, start, l, pc>>

\* One turn of the loop of process_nlmsg.
ProcessNlmsg ==
    /\ pc = "walk"
    /\ \E j \in NlmsgAt(off) :
          LET m == fpm.nlmsgs[j]
          IN  /\ NLMSG_OK(m)
              /\ published' = IF IsRoute(m) THEN Append(published, <<CHOOSE i \in InBuf : TRUE, j>>)
                              ELSE published
              /\ off' = off + fpm_msg_align(m.nlmsg_len)
              /\ len' = (len + SizeT - fpm_msg_align(m.nlmsg_len)) % SizeT
    /\ UNCHANGED <<stream, start, l, pc>>

\* The walk ends, and broker_process_fpm returns; main calls it again.
WalkDone ==
    /\ pc = "walk"
    /\ \A j \in NlmsgAt(off) : ~ NLMSG_OK(fpm.nlmsgs[j])
    /\ pc' = "hdr"
    /\ start' = start + l
    /\ l' = 0
    /\ UNCHANGED <<stream, off, len, published>>

broker_process_fpm ==
    \/ RecvHdr \/ RecvBody \/ Check \/ ProcessNlmsg \/ WalkDone

Next == broker_process_fpm \/ Closed

Spec == Init /\ [][Next]_vars

\* brokerd runs, and the bytes that zebra sends arrive.
FairSpec == Spec /\ WF_vars(broker_process_fpm)

-----------------------------------------------------------------------------
TypeOK ==
    /\ stream \in Seq(Frames) /\ Len(stream) <= MaxFrames
    /\ start \in 0 .. StreamSize
    /\ l \in 0 .. FPM_MAX_MSG_LEN
    /\ pc \in {"hdr", "check", "body", "walk", "exit"}
    /\ off \in 0 .. FPM_MAX_MSG_LEN
    /\ len \in 0 .. SizeT - 1

\* What a frame says, read as a whole: its messages up to the first one whose
\* length cannot be right, and of these the routes.
Sound(f) ==
    {j \in DOMAIN f.nlmsgs :
        \A k \in 1 .. j :
            f.nlmsgs[k].nlmsg_len \in NLMSG_HDRLEN .. (FrameSize(f) - FPM_MSG_HDR_LEN - NlmsgBegin(f, k))}
RoutesOf(f) == {j \in Sound(f) : IsRoute(f.nlmsgs[j])}

\* The frames that end before a position, and the routes of some frames that
\* are to be published: none of or behind a frame that is refused.
Through(p) == {i \in DOMAIN stream : FrameBegin(i + 1) <= p}
Due(is) ==
    UNION {{i} \X RoutesOf(stream[i]) : i \in {i \in is : \A k \in 1 .. i : Accepted(stream[k])}}

Published == {published[n] : n \in DOMAIN published}
Sooner(r, s) == r[1] < s[1] \/ (r[1] = s[1] /\ r[2] < s[2])

\* However the bytes arrive, between two calls of broker_process_fpm buf begins
\* where a frame begins: no call leaves bytes of a frame behind or takes bytes
\* of the next one.
FramesKept ==
    pc = "hdr" /\ l = 0 => \E i \in 1 .. Len(stream) + 1 : FrameBegin(i) = start

\* The routes published are the ones zebra sent, each once and in the order in
\* which they were sent, and none comes from a frame that is not there as a
\* whole or that is at or behind a frame that is refused.
PublishedInOrder ==
    /\ \A m, n \in DOMAIN published : m < n => Sooner(published[m], published[n])
    /\ pc # "walk" => Published = Due(Through(start))
    /\ pc = "walk" => /\ InBuf # {} /\ InBuf \subseteq Through(start + l)
                      /\ Due(Through(start)) \subseteq Published
                      /\ Published \subseteq Due(Through(start + l))
                      /\ \A r \in Due(Through(start + l)) \ Published :
                            \A p \in Published : Sooner(p, r)

\* process_nlmsg never goes past the end of the payload: the length that it
\* counts down does not wrap around below zero.
WalkInside == pc = "walk" => off + len = fpm_msg_data_len(fpm)

\* Every route is published that zebra sent before a frame that is refused, or
\* brokerd ends.
AllPublished == <>(pc = "exit" \/ Published = Due(DOMAIN stream))
==============================================================================

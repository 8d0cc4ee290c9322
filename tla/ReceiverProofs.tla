--------------------------- MODULE ReceiverProofs ---------------------------
(***************************************************************************)
(* What receives from a network that loses, repeats and reorders packets:  *)
(* the SRTP receive context, which implements replay protection for every  *)
(* size of the sequence space and of the windows, and the detector of RFC  *)
(* 2833 digits, which reports each digit once.  They share nothing.        *)
(***************************************************************************)
EXTENDS SrtpReceiver, DtmfDetector, TLAPS

----------------------------------------------------------------------------
(* Replay protection: each bitmap is related to the indices that were      *)
(* really taken, bit d is set exactly when index base - d was.             *)

Tracks(w, size, taken) ==
    /\ w \in Windows /\ w.bits \subseteq 0 .. size - 1
    /\ taken \subseteq Nat /\ \A i \in taken : i <= w.base
    /\ \A d \in 0 .. size - 1 : d \in w.bits <=> w.base - d \in taken

RcvOK ==
    /\ rcv \in [roc : Nat, s_l : Nat, started : BOOLEAN, window : Windows,
                ssrc : Ssrcs \union {Nobody}, errors : Nat]
    /\ far \in [Ssrcs -> [first : Nat, last : Int]]
    /\ Tracks(rcv.window, RtpWindow, accepted)
    /\ ~rcv.started => accepted = {}

RtcpOK ==
    /\ rtcp \in [window : Windows, started : BOOLEAN] /\ rtcpSent \in Nat
    /\ Tracks(rtcp.window, RtcpWindow, rtcpTaken)
    /\ ~rtcp.started => rtcpTaken = {}

SrtpInv == RcvOK /\ RtcpOK

\* The constants, without the set of the assumption.
LEMMA SrtpConstants ==
    /\ WireMod \in Nat \ {0} /\ RocMod \in Nat \ {0} /\ ErrorReset \in Nat \ {0}
    /\ RtpWindow \in Nat \ {0} /\ RtcpWindow \in Nat \ {0}
BY SrtpAssumption DEF SrtpAssumption

\* A packet index is a natural number.
LEMMA IndexNat == ASSUME NEW roc \in Nat, NEW seq \in Nat PROVE Index(roc, seq) \in Nat
<1>1. \A a, b \in Nat : a * b \in Nat
  OBVIOUS
<1> QED BY <1>1, SrtpConstants DEF Index

\* The parts of an index are natural numbers.
LEMMA PartsNat == ASSUME NEW i \in Nat PROVE WireSeq(i) \in Nat /\ RocOf(i) \in Nat
BY SrtpConstants DEF WireSeq, RocOf

\* A new window tracks that nothing was taken.
LEMMA NewTracks == ASSUME NEW size \in Nat \ {0} PROVE Tracks(NewWindow, size, {})
BY DEF Tracks, NewWindow, Windows

\* Marking an index keeps the bitmap in step with what was taken.
LEMMA MarkTracks ==
    ASSUME NEW w, NEW size \in Nat \ {0}, NEW taken, NEW index \in Nat, Tracks(w, size, taken)
    PROVE  Tracks(Marked(w, size, index), size, taken \union {index})
<1>0. w.base \in Nat /\ w.bits \subseteq 0 .. size - 1 /\ w \in [base : Nat, bits : SUBSET Nat]
  BY DEF Tracks, Windows
<1>1. CASE index > w.base
  <2> DEFINE m == Marked(w, size, index)
  <2>1. m.base = index
            /\ m.bits = {0} \union {d \in 0 .. size - 1 : d - (index - w.base) \in w.bits}
            /\ m \in Windows /\ m.bits \subseteq 0 .. size - 1
    BY <1>0, <1>1 DEF Marked, Windows
  <2>2. \A i \in taken \union {index} : i \in Nat /\ i <= m.base
    BY <1>0, <1>1, <2>1 DEF Tracks
  <2>3. ASSUME NEW d \in 0 .. size - 1
        PROVE  d \in m.bits <=> m.base - d \in taken \union {index}
    <3>1. CASE d = 0
      BY <2>1, <3>1
    <3>2. CASE d # 0
      <4> DEFINE e == d - (index - w.base)
      <4>1. d \in m.bits <=> e \in w.bits
        BY <2>1, <3>2
      <4>2. m.base - d = w.base - e /\ m.base - d # index
        BY <2>1, <1>0, <3>2
      <4>3. e \in w.bits <=> w.base - e \in taken
        <5>1. CASE e \in 0 .. size - 1
          BY <5>1 DEF Tracks
        <5>2. CASE e < 0
          BY <5>2, <1>0 DEF Tracks
        <5> QED BY <5>1, <5>2, <1>0, <1>1
      <4> QED BY <4>1, <4>2, <4>3
    <3> QED BY <3>1, <3>2
  <2> QED BY <2>1, <2>2, <2>3 DEF Tracks
<1>2. CASE ~(index > w.base)
  <2> DEFINE m == Marked(w, size, index)
  <2>1. m.base = w.base
            /\ m.bits = w.bits \union ({w.base - index} \intersect 0 .. size - 1)
            /\ m \in Windows /\ m.bits \subseteq 0 .. size - 1
    BY <1>0, <1>2 DEF Marked, Windows
  <2>2. \A i \in taken \union {index} : i \in Nat /\ i <= m.base
    BY <1>0, <1>2, <2>1 DEF Tracks
  <2>3. ASSUME NEW d \in 0 .. size - 1
        PROVE  d \in m.bits <=> m.base - d \in taken \union {index}
    <3>1. d \in w.bits <=> w.base - d \in taken
      BY DEF Tracks
    <3>2. d = w.base - index <=> w.base - d = index
      BY <1>0
    <3> QED BY <2>1, <3>1, <3>2
  <2> QED BY <2>1, <2>2, <2>3 DEF Tracks
<1> QED BY <1>1, <1>2

\* What the window lets through may be delivered.
LEMMA FreeIsNew ==
    ASSUME NEW w, NEW size \in Nat \ {0}, NEW taken, NEW index \in Nat,
           Tracks(w, size, taken), Free(w, size, index)
    PROVE  index \notin taken /\ \A j \in taken : j < index + size
<1>1. CASE index > w.base
  BY <1>1 DEF Tracks, Windows
<1>2. CASE w.base - index < size /\ w.base - index \notin w.bits /\ ~(index > w.base)
  <2>1. w.base - index \in 0 .. size - 1 /\ w.base - (w.base - index) = index
    BY <1>2 DEF Tracks, Windows
  <2> QED BY <1>2, <2>1 DEF Tracks, Windows
<1> QED BY <1>1, <1>2 DEF Free

\* The estimate is a ROC.
LEMMA EstimateNat ==
    ASSUME rcv.roc \in Nat, NEW seq \in Nat PROVE EstimateRoc(rcv, seq) \in Nat
BY SrtpConstants DEF EstimateRoc

\* What is taken is a packet index, and it may be delivered or begins an epoch.
LEMMA TakenIsNew ==
    ASSUME RcvOK, NEW ssrc \in Ssrcs, NEW seq \in Nat, NEW roc, Takes(rcv, ssrc, seq, roc)
    PROVE  /\ roc \in Nat /\ Index(roc, seq) \in Nat
           /\ ~SsrcChanged(rcv, ssrc) =>
                /\ Index(roc, seq) \notin accepted
                /\ \A j \in accepted : j < Index(roc, seq) + RtpWindow
<1>1. roc \in Nat
  BY EstimateNat DEF Takes, Authentic, RcvOK
<1>2. Index(roc, seq) \in Nat
  BY <1>1, IndexNat
<1>3. CASE ~SsrcChanged(rcv, ssrc) /\ rcv.started
  <2>1. Free(rcv.window, RtpWindow, Index(roc, seq))
    BY <1>3 DEF Takes, Authentic, IsReplay
  <2> QED BY <1>1, <1>2, <2>1, FreeIsNew, SrtpConstants DEF RcvOK
<1>4. CASE ~rcv.started
  BY <1>1, <1>2, <1>4 DEF RcvOK
<1> QED BY <1>1, <1>2, <1>3, <1>4

\* The context after a packet.
LEMMA ArrivesOK ==
    ASSUME SrtpInv, NEW ssrc \in Ssrcs, NEW seq \in Nat, NEW roc, NEW parses \in BOOLEAN,
           Arrives(ssrc, seq, roc, parses)
    PROVE  SrtpInv'
<1>0. RtcpOK'
  BY DEF SrtpInv, RtcpOK, Arrives, rtcpVars
<1>1. CASE ~Takes(rcv, ssrc, seq, roc)
  <2>1. accepted' = accepted /\ far' = far
    BY <1>1 DEF Arrives
  <2>2. rcv' = rcv \/ rcv' = Erred(rcv)
    BY <1>1 DEF Arrives, Unprotected
  <2> QED BY <1>0, <2>1, <2>2 DEF SrtpInv, RcvOK, Erred
<1>2. CASE Takes(rcv, ssrc, seq, roc)
  <2> DEFINE g == ForSsrc(rcv, ssrc)
             f == Followed(g, roc, seq)
             before == IF SsrcChanged(rcv, ssrc) THEN {} ELSE accepted
             Contexts == [roc : Nat, s_l : Nat, started : BOOLEAN, window : Windows,
                          ssrc : Ssrcs \union {Nobody}, errors : Nat]
  <2>1. roc \in Nat /\ Index(roc, seq) \in Nat
    BY <1>2, TakenIsNew DEF SrtpInv
  <2>2. g \in Contexts /\ Tracks(g.window, RtpWindow, before)
    <3>1. CASE SsrcChanged(rcv, ssrc)
      BY <3>1, NewTracks, SrtpConstants DEF SrtpInv, RcvOK, ForSsrc, NewReceiver, Tracks
    <3>2. CASE ~SsrcChanged(rcv, ssrc)
      BY <3>2 DEF SrtpInv, RcvOK, ForSsrc
    <3> QED BY <3>1, <3>2
  <2>3. f \in Contexts /\ f.window = g.window /\ f.started
    BY <2>1, <2>2 DEF Followed
  <2>4. Tracks(Marked(f.window, RtpWindow, Index(roc, seq)), RtpWindow,
               before \union {Index(roc, seq)})
    BY <2>1, <2>2, <2>3, MarkTracks, SrtpConstants
  <2>5. rcv' = [f EXCEPT !.window = Marked(@, RtpWindow, Index(roc, seq)),
                         !.errors = IF parses THEN 0 ELSE @]
    BY <1>2 DEF Arrives, Unprotected, Takes
  <2>6. rcv' \in Contexts /\ rcv'.started
            /\ rcv'.window = Marked(f.window, RtpWindow, Index(roc, seq))
    BY <2>3, <2>4, <2>5 DEF Tracks
  <2>7. accepted' = before \union {Index(roc, seq)} /\ far' = far
    BY <1>2 DEF Arrives
  <2> QED BY <1>0, <2>4, <2>6, <2>7 DEF SrtpInv, RcvOK
<1> QED BY <1>1, <1>2

\* Every step of the network is the arrival of a packet.
LEMMA NetworkArrives ==
    ASSUME SrtpInv, NEW ssrc \in Ssrcs, Network(ssrc)
    PROVE  \E roc : \E seq \in Nat, parses \in BOOLEAN : Arrives(ssrc, seq, roc, parses)
<1>1. PICK i \in far[ssrc].first .. far[ssrc].last, parses \in BOOLEAN :
          Arrives(ssrc, WireSeq(i), RocOf(i), parses) \/ Arrives(ssrc, WireSeq(i), Forged, parses)
  BY DEF Network
<1>2. i \in Nat
  BY DEF SrtpInv, RcvOK
<1>3. WireSeq(i) \in Nat
  BY <1>2, PartsNat
<1>4. CASE Arrives(ssrc, WireSeq(i), RocOf(i), parses)
  BY <1>3, <1>4
<1>5. CASE Arrives(ssrc, WireSeq(i), Forged, parses)
  BY <1>3, <1>5
<1> QED BY <1>1, <1>4, <1>5

\* The invariant holds in every state (unprotect_rtp and unprotect_rtcp keep their
\* bitmaps in step with the packets they have taken).
THEOREM SrtpInvariant == SrtpSpec => []SrtpInv
<1>1. SrtpInit => SrtpInv
  BY NewTracks, SrtpConstants
  DEF SrtpInit, SrtpInv, RcvOK, RtcpOK, NewReceiver, NewWindow, Windows, Tracks
<1>2. SrtpInv /\ [SrtpNext]_srtpVars => SrtpInv'
  <2> SUFFICES ASSUME SrtpInv, [SrtpNext]_srtpVars PROVE SrtpInv'
    OBVIOUS
  <2>1. ASSUME NEW ssrc \in Ssrcs, FarBegins(ssrc) PROVE SrtpInv'
    BY <2>1, ReceiverAssumption DEF ReceiverAssumption, SeqNums, FarBegins, SrtpInv, RcvOK, RtcpOK, rtcpVars
  <2>2. ASSUME NEW ssrc \in Ssrcs, FarSends(ssrc) PROVE SrtpInv'
    BY <2>2 DEF FarSends, SrtpInv, RcvOK, RtcpOK, rtcpVars
  <2>3. ASSUME NEW ssrc \in Ssrcs, Network(ssrc) PROVE SrtpInv'
    BY <2>3, NetworkArrives, ArrivesOK
  <2>4. CASE RtcpSends
    BY <2>4 DEF RtcpSends, SrtpInv, RcvOK, RtcpOK, rtpVars
  <2>5. CASE RtcpArrives
    <3>1. PICK i \in 0 .. rtcpSent - 1 :
              /\ rtcp' = [window |-> Marked(rtcp.window, RtcpWindow, i), started |-> TRUE]
              /\ rtcpTaken' = rtcpTaken \union {i}
      BY <2>5 DEF RtcpArrives
    <3>2. Tracks(rtcp'.window, RtcpWindow, rtcpTaken')
      BY <3>1, MarkTracks, SrtpConstants DEF SrtpInv, RtcpOK
    <3>3. RtcpOK'
      BY <2>5, <3>1, <3>2 DEF RtcpArrives, SrtpInv, RtcpOK, Tracks
    <3> QED BY <2>5, <3>3 DEF RtcpArrives, SrtpInv, RcvOK, rtpVars
  <2>6. CASE UNCHANGED srtpVars
    BY <2>6 DEF srtpVars, SrtpInv, RcvOK, RtcpOK
  <2> QED BY <2>1, <2>2, <2>3, <2>4, <2>5, <2>6 DEF SrtpNext, RtpNext, RtcpNext
<1> QED BY <1>1, <1>2, PTL DEF SrtpSpec

\* The receive context implements replay protection, for RTP and for SRTCP: no
\* packet of an epoch is taken twice, however the network repeats and reorders.
THEOREM SrtpNoReplay == SrtpSpec => NoReplay
<1>1. SrtpInit => RtpReplay!Init /\ RtcpReplay!Init
  BY DEF SrtpInit, RtpReplay!Init, RtcpReplay!Init
<1>2. SrtpInv /\ [SrtpNext]_srtpVars
          => [RtpReplay!Next]_accepted /\ [RtcpReplay!Next]_rtcpTaken
  <2> SUFFICES ASSUME SrtpInv, [SrtpNext]_srtpVars
               PROVE  [RtpReplay!Next]_accepted /\ [RtcpReplay!Next]_rtcpTaken
    OBVIOUS
  <2>1. ASSUME NEW ssrc \in Ssrcs, FarBegins(ssrc) \/ FarSends(ssrc)
        PROVE  UNCHANGED <<accepted, rtcpTaken>>
    BY <2>1 DEF FarBegins, FarSends, rtcpVars
  <2>2. ASSUME NEW ssrc \in Ssrcs, Network(ssrc)
        PROVE  [RtpReplay!Next]_accepted /\ UNCHANGED rtcpTaken
    <3>1. PICK roc : \E seq \in Nat, parses \in BOOLEAN : Arrives(ssrc, seq, roc, parses)
      BY <2>2, NetworkArrives
    <3>1a. PICK seq \in Nat, parses \in BOOLEAN : Arrives(ssrc, seq, roc, parses)
      BY <3>1
    <3>2. CASE ~Takes(rcv, ssrc, seq, roc)
      BY <3>1a, <3>2 DEF Arrives, rtcpVars
    <3>3. CASE Takes(rcv, ssrc, seq, roc)
      <4>1. CASE SsrcChanged(rcv, ssrc)
        BY <3>1a, <3>3, <4>1
        DEF Arrives, rtcpVars, RtpReplay!Next, RtpReplay!Restart
      <4>2. CASE ~SsrcChanged(rcv, ssrc)
        BY <3>1a, <3>3, <4>2, TakenIsNew
        DEF SrtpInv, Arrives, rtcpVars, RtpReplay!Next, RtpReplay!Deliver, RtpReplay!InWindow
      <4> QED BY <4>1, <4>2
    <3> QED BY <3>2, <3>3
  <2>3. CASE RtcpSends
    BY <2>3 DEF RtcpSends, rtpVars
  <2>4. CASE RtcpArrives
    <3>1. PICK i \in 0 .. rtcpSent - 1 :
              /\ rtcp.started => Free(rtcp.window, RtcpWindow, i)
              /\ rtcpTaken' = rtcpTaken \union {i}
      BY <2>4 DEF RtcpArrives
    <3>2. i \in Nat
      BY DEF SrtpInv, RtcpOK
    <3>3. i \notin rtcpTaken /\ \A j \in rtcpTaken : j < i + RtcpWindow
      BY <3>1, <3>2, FreeIsNew, SrtpConstants DEF SrtpInv, RtcpOK
    <3> QED BY <2>4, <3>1, <3>3
      DEF RtcpArrives, rtpVars, RtcpReplay!Next, RtcpReplay!Deliver, RtcpReplay!InWindow
  <2>5. CASE UNCHANGED srtpVars
    BY <2>5 DEF srtpVars
  <2> QED BY <2>1, <2>2, <2>3, <2>4, <2>5 DEF SrtpNext, RtpNext, RtcpNext
<1> QED BY <1>1, <1>2, SrtpInvariant, PTL DEF SrtpSpec, NoReplay, RtpReplay!Spec, RtcpReplay!Spec

----------------------------------------------------------------------------
(* The estimate of the ROC.                                                *)

\* What the receiver has followed: a sequence number of a stream of the far end; and no
\* stream is longer than the space of the indices.
FollowsInv ==
    /\ rcv \in [roc : Nat, s_l : SeqNums, started : BOOLEAN, window : Windows,
                ssrc : Ssrcs \union {Nobody}, errors : Nat]
    /\ rcv.started => rcv.ssrc \in Ssrcs
    /\ far \in [Ssrcs -> [first : Nat, last : Int]]
    /\ \A s \in Ssrcs : far[s].last < RocMod * WireMod

\* The parts of an index, and that the ROC of an index that is sent fits its width.
LEMMA IndexParts ==
    ASSUME NEW i \in Nat, i < RocMod * WireMod
    PROVE  /\ RocOf(i) \in 0 .. RocMod - 1 /\ WireSeq(i) \in SeqNums
           /\ i = RocOf(i) * WireMod + WireSeq(i)
<1> DEFINE q == i \div WireMod
           r == i % WireMod
<1>1. q \in Int /\ r \in 0 .. WireMod - 1 /\ i = q * WireMod + r
  BY SrtpConstants
<1> HIDE DEF q, r
<1>2. q >= 0
  <2>1. ASSUME q <= -1 PROVE FALSE
    <3>1. q * WireMod <= -WireMod  BY <1>1, <2>1, SrtpConstants
    <3> QED  BY <1>1, <3>1, SrtpConstants
  <2> QED  BY <1>1, <2>1
<1>3. q < RocMod
  <2>1. ASSUME q >= RocMod PROVE FALSE
    <3>1. q * WireMod >= RocMod * WireMod  BY <1>1, <2>1, SrtpConstants
    <3>2. q * WireMod \in Int /\ RocMod * WireMod \in Int  BY <1>1, SrtpConstants
    <3> QED  BY <1>1, <3>1, <3>2, SrtpConstants
  <2> QED  BY <1>1, <2>1, SrtpConstants
<1>4. q \in 0 .. RocMod - 1  BY <1>1, <1>2, <1>3, SrtpConstants
<1> QED  BY <1>1, <1>4 DEF q, r, RocOf, WireSeq, SeqNums

\* estimate_roc is right for what is less than half the sequence space away: on this side
\* of a wrap, before one and after one.
LEMMA EstimateFollows ==
    ASSUME NEW c, c.started, c.roc \in Nat, c.s_l \in SeqNums, NEW i \in Nat, i < RocMod * WireMod,
           i - Index(c.roc, c.s_l) < Half, Index(c.roc, c.s_l) - i < Half
    PROVE  EstimateRoc(c, WireSeq(i)) = RocOf(i)
<1> DEFINE M == WireMod
           q == RocOf(i)
           r == WireSeq(i)
           roc == c.roc
           sl == c.s_l
           k == q - roc
<1>1. M \in Nat \ {0} /\ RocMod \in Nat \ {0} /\ Half \in Nat /\ M = Half + Half
  <2>1. M \in Nat \ {0} /\ RocMod \in Nat \ {0} /\ M % 2 = 0
    BY SrtpAssumption, SrtpConstants
  <2> HIDE DEF M
  <2>2. M \div 2 \in Nat /\ M = (M \div 2) + (M \div 2)  BY <2>1
  <2> QED  BY <2>1, <2>2 DEF Half, M
<1>2. q \in 0 .. RocMod - 1 /\ r \in 0 .. M - 1 /\ i = q * M + r
  BY IndexParts DEF SeqNums
<1>3. roc \in Nat /\ sl \in 0 .. M - 1 /\ Index(roc, sl) = roc * M + sl
  BY DEF SeqNums, Index
<1> HIDE DEF M, q, r, roc, sl, Half
<1>4. k \in Int /\ k * M = q * M - roc * M /\ q * M \in Int /\ roc * M \in Int
  BY <1>1, <1>2, <1>3
<1>5. k * M + r - sl < Half /\ -(k * M + r - sl) < Half
  <2>1. i - Index(roc, sl) < Half /\ Index(roc, sl) - i < Half  BY DEF roc, sl
  <2> QED  BY <1>1, <1>2, <1>3, <1>4, <2>1
<1> HIDE DEF k
<1>6. k \in {-1, 0, 1}
  <2>1. ASSUME k >= 2 PROVE FALSE
    <3>1. k * M >= 2 * M /\ k * M \in Int  BY <1>1, <1>4, <2>1
    <3> QED  BY <1>1, <1>2, <1>3, <1>5, <3>1
  <2>2. ASSUME k <= -2 PROVE FALSE
    <3>1. k * M <= -(2 * M) /\ k * M \in Int  BY <1>1, <1>4, <2>2
    <3> QED  BY <1>1, <1>2, <1>3, <1>5, <3>1
  <2> QED  BY <1>4, <2>1, <2>2
<1>7. /\ k = -1 => r - sl > Half
      /\ k = 0 => ~(r - sl > Half) /\ ~(sl - r > Half)
      /\ k = 1 => ~(r - sl > Half) /\ sl - r > Half
  <2>1. (-1) * M = -M /\ 0 * M = 0 /\ 1 * M = M  BY <1>1
  <2> QED  BY <1>1, <1>2, <1>3, <1>5, <2>1
<1>8. q = roc + k  BY <1>2, <1>3, <1>4 DEF k
<1>9. EstimateRoc(c, r) = IF r - sl > Half THEN (roc + RocMod - 1) % RocMod
                          ELSE IF sl - r > Half THEN (roc + 1) % RocMod ELSE roc
  BY DEF EstimateRoc, roc, sl
<1>10. CASE k = -1
  <2>1. roc + RocMod - 1 = q + RocMod /\ q \in Nat  BY <1>1, <1>2, <1>3, <1>8, <1>10
  <2>2. (q + RocMod) % RocMod = q  BY <1>1, <1>2
  <2> QED  BY <1>7, <1>9, <1>10, <2>1, <2>2 DEF q, r
<1>11. CASE k = 0
  BY <1>3, <1>7, <1>8, <1>9, <1>11 DEF q, r
<1>12. CASE k = 1
  <2>1. roc + 1 = q /\ q % RocMod = q  BY <1>1, <1>2, <1>3, <1>8, <1>12
  <2> QED  BY <1>7, <1>9, <1>12, <2>1 DEF q, r
<1> QED  BY <1>6, <1>10, <1>11, <1>12

\* While the receiver is not half the sequence space away it knows the ROC of every packet
\* of its stream, early and late ones on both sides of a wrap (estimate_roc).
THEOREM RocFollowsHolds == SrtpSpec => []RocFollows
<1>1. SrtpInit => FollowsInv
  <2>1. 0 \in SeqNums  BY SrtpConstants DEF SeqNums
  <2>2. -1 < RocMod * WireMod
    <3>1. \A a, b \in Nat : a * b \in Nat  OBVIOUS
    <3> QED  BY <3>1, SrtpConstants
  <2> QED  BY <2>1, <2>2 DEF SrtpInit, FollowsInv, NewReceiver, NewWindow, Windows
<1>2. SrtpInv /\ SrtpInv' /\ FollowsInv /\ [SrtpNext]_srtpVars => FollowsInv'
  <2> SUFFICES ASSUME SrtpInv, SrtpInv', FollowsInv, [SrtpNext]_srtpVars PROVE FollowsInv'
    OBVIOUS
  <2>1. ASSUME NEW ssrc \in Ssrcs, FarBegins(ssrc) \/ FarSends(ssrc) PROVE FollowsInv'
    <3>1. \A seq \in SeqNums : seq \in Nat /\ seq < RocMod * WireMod
      <4>1. RocMod * WireMod >= WireMod /\ RocMod * WireMod \in Nat  BY SrtpConstants
      <4> QED  BY <4>1, SrtpConstants DEF SeqNums
    <3>2. \A n \in 0 .. MaxIndex - 1 : n + 1 \in Int /\ n + 1 < RocMod * WireMod
      <4>1. MaxIndex \in Nat /\ RocMod * WireMod \in Nat /\ MaxIndex < RocMod * WireMod
        BY ReceiverAssumption, SrtpConstants
      <4> QED  BY <4>1
    <3>3. CASE FarBegins(ssrc)
      <4>1. PICK seq \in FirstSeqs : far' = [far EXCEPT ![ssrc] = [first |-> seq, last |-> seq]]
        BY <3>3 DEF FarBegins
      <4>2. seq \in SeqNums  BY ReceiverAssumption
      <4> QED  BY <3>1, <3>3, <4>1, <4>2 DEF FarBegins, FollowsInv, rtcpVars
    <3>4. CASE FarSends(ssrc)
      <4> DEFINE n == far[ssrc].last + 1
      <4>1. far' = [far EXCEPT ![ssrc].last = n] /\ UNCHANGED rcv  BY <3>4 DEF FarSends
      <4>2. n \in Int /\ n < RocMod * WireMod  BY <3>2, <3>4 DEF FarSends
      <4> HIDE DEF n
      <4>3. far' \in [Ssrcs -> [first : Nat, last : Int]]  BY <4>1, <4>2 DEF FollowsInv
      <4>4. \A s \in Ssrcs : far'[s].last < RocMod * WireMod  BY <4>1, <4>2 DEF FollowsInv
      <4> QED  BY <4>1, <4>3, <4>4 DEF FollowsInv
    <3> QED  BY <2>1, <3>3, <3>4
  <2>2. ASSUME NEW ssrc \in Ssrcs, Network(ssrc) PROVE FollowsInv'
    <3>1. PICK i \in far[ssrc].first .. far[ssrc].last, parses \in BOOLEAN :
            \/ Arrives(ssrc, WireSeq(i), RocOf(i), parses)
            \/ Arrives(ssrc, WireSeq(i), Forged, parses)
      BY <2>2 DEF Network
    <3>2. WireSeq(i) \in SeqNums
      <4>1. i \in Int  BY DEF FollowsInv
      <4> QED  BY <4>1, SrtpConstants DEF WireSeq, SeqNums
    <3>3. \E roc : rcv' = Unprotected(rcv, ssrc, WireSeq(i), roc, parses)
      BY <3>1 DEF Arrives
    <3>4. far' = far  BY <3>1 DEF Arrives
    <3>5. /\ rcv'.s_l \in {rcv.s_l, 0, WireSeq(i)}
          /\ rcv'.ssrc = ssrc \/ (rcv'.ssrc = rcv.ssrc /\ rcv'.started = rcv.started)
      <4>1. PICK roc : rcv' = Unprotected(rcv, ssrc, WireSeq(i), roc, parses)  BY <3>3
      <4> DEFINE g == ForSsrc(rcv, ssrc)
                 f == Followed(g, roc, WireSeq(i))
      <4>2. g.s_l \in {rcv.s_l, 0} /\ g.ssrc = ssrc
        BY DEF ForSsrc, NewReceiver, FollowsInv
      <4>3. f.s_l \in {g.s_l, WireSeq(i)} /\ f.ssrc = ssrc
        BY <4>2 DEF Followed, ForSsrc, NewReceiver, FollowsInv
      <4>4. \/ rcv' = rcv \/ rcv' = Erred(rcv)
            \/ rcv' = [f EXCEPT !.window = Marked(@, RtpWindow, Index(roc, WireSeq(i))),
                                !.errors = IF parses THEN 0 ELSE @]
        BY <4>1 DEF Unprotected
      <4> QED  BY <4>2, <4>3, <4>4 DEF Erred, FollowsInv, Followed, ForSsrc, NewReceiver
    <3>6. 0 \in SeqNums  BY SrtpConstants DEF SeqNums
    <3> QED  BY <3>2, <3>4, <3>5, <3>6 DEF FollowsInv, SrtpInv, RcvOK
  <2>3. CASE RtcpNext \/ UNCHANGED srtpVars
    BY <2>3 DEF RtcpNext, RtcpSends, RtcpArrives, srtpVars, rtpVars, FollowsInv
  <2> QED  BY <2>1, <2>2, <2>3 DEF SrtpNext, RtpNext
<1>3. SrtpInv /\ FollowsInv => RocFollows
  <2> SUFFICES ASSUME SrtpInv, FollowsInv, rcv.started,
                      NEW i \in far[rcv.ssrc].first .. far[rcv.ssrc].last,
                      i - Index(rcv.roc, rcv.s_l) < Half, -(i - Index(rcv.roc, rcv.s_l)) < Half
               PROVE  EstimateRoc(rcv, WireSeq(i)) = RocOf(i)
    BY DEF RocFollows
  <2>1. rcv.ssrc \in Ssrcs /\ rcv.roc \in Nat /\ rcv.s_l \in SeqNums /\ rcv.s_l \in Nat
    BY SrtpConstants DEF FollowsInv, SeqNums
  <2>2. far[rcv.ssrc] \in [first : Nat, last : Int] /\ far[rcv.ssrc].last < RocMod * WireMod
    BY <2>1 DEF FollowsInv
  <2>3. RocMod * WireMod \in Nat /\ Index(rcv.roc, rcv.s_l) \in Nat
    <3>1. \A a, b \in Nat : a * b \in Nat  OBVIOUS
    <3> QED  BY <2>1, <3>1, SrtpConstants, IndexNat
  <2>4. i \in Nat /\ i < RocMod * WireMod /\ Index(rcv.roc, rcv.s_l) - i < Half
    <3>1. Half \in Int  BY SrtpConstants DEF Half
    <3> QED  BY <2>2, <2>3, <3>1
  <2> QED  BY <2>1, <2>4, EstimateFollows
<1> QED  BY <1>1, <1>2, <1>3, SrtpInvariant, PTL DEF SrtpSpec

----------------------------------------------------------------------------
(* The digits: the detector is followed through the packets of the digit   *)
(* the far end sends, which are counted from the one before its first.     *)

DtmfStates ==
    [prev : Nat, stamp : Nat, digitStamp : Nat, sanity : Nat, duration : Nat, flip : Nat,
     current : Keys \union {NoKey}, endStamp : Nat, began : Nat, timeout : EndTimeouts,
     ignore_duration : BOOLEAN]
DigitPackets == [key : Keys, stamp : Nat, seq : Nat, end : BOOLEAN, duration : Nat]
Reports == [key : Keys, duration : Nat]

\* The packets of the far end before the digit it sends, how far into that digit the
\* detector has heard, and the digits the engine has been told of.
Prior == key.seq - key.sent
Heard == det.prev - Prior
Own == key.number # 0 /\ det.digitStamp = key.stamp
IsTold(k) == \E i \in DOMAIN told : told[i].key = k

FarEndInv ==
    /\ key \in [number : Keys \union {0}, length : Nat, sent : Nat, stamp : Nat, seq : Nat]
    /\ now \in Nat \ {0} /\ first \in [Keys -> Nat] /\ \A k \in Keys : first[k] <= now
    /\ key.sent <= key.length /\ key.sent <= key.seq
    /\ key.number = 0 => key.length = 0 /\ key.stamp = 0
    /\ key.number # 0 => key.length \in Lengths /\ key.stamp >= KeyGap
    /\ held \in [Keys -> Nat] /\ (key.number # 0 => held[key.number] = key.length)

\* What the network holds is of the digit the far end sends.
PacketsInv ==
    /\ flight \subseteq DigitPackets
    /\ \A p \in flight :
          /\ p.key = key.number /\ p.stamp = key.stamp /\ p.seq - Prior \in 1 .. key.sent
          /\ p.duration = (p.seq - Prior) % DurMod
          /\ p.end <=> p.seq - Prior = key.length

\* The detector remembers this digit, or one that ended long enough ago.
StampsInv ==
    /\ det \in DtmfStates /\ det.began <= now /\ det.stamp = det.digitStamp
    /\ \A x \in {det.digitStamp, det.endStamp} : x = key.stamp \/ x + KeyGap <= key.stamp

\* Of the digit it follows, the detector counts packets and durations that were sent.
OwnInv == Own =>
    /\ Heard \in 1 .. key.sent /\ det.sanity < Heard
    /\ det.current \in {NoKey, key.number}
    /\ first[key.number] \in 1 .. det.began
    /\ det.duration \in {0, Heard % DurMod} /\ det.flip <= Heard - (Heard % DurMod)

\* Once the engine is told of a digit, no packet of it can begin it again.
ToldInv ==
    /\ told \in Seq(Reports)
    /\ \A i \in DOMAIN told : told[i].key <= key.number
    /\ IsTold(key.number) =>
         /\ Own /\ det.current = NoKey /\ det.endStamp = key.stamp
         /\ Heard = key.length \/ (det.duration = 0 /\ det.flip = 0 /\ det.sanity = 0)

\* Until the engine is told of it, a digit is in progress or given up after its time.
WaitInv == Own /\ ~IsTold(key.number) =>
    /\ ~det.ignore_duration
    /\ key.length <= MaxDuration =>
         \/ det.current = key.number /\ Heard < key.length
         \/ now - first[key.number] > det.timeout

\* What is told of the digits while they do not meet in the network.
AllTold == InOrder /\ NoLonger /\ DueTold

DtmfInv == FarEndInv /\ PacketsInv /\ StampsInv /\ OwnInv /\ ToldInv /\ WaitInv /\ AllTold

LEMMA DtmfConstants ==
    /\ {KeyGap, SanityLimit, MinDuration, MaxDuration, DurMod, FlipAt} \subseteq Nat
    /\ KeyGap > 0 /\ DurMod > 0 /\ DurMod <= MaxDuration + 1 /\ MaxDuration <= SanityLimit + 2
    /\ \A n \in Lengths : n \in Nat /\ n > 0 /\ (n <= MaxDuration => n % DurMod # 0)
    /\ EndTimeouts \subseteq Nat /\ MaxKeys \in Nat
<1>1. {MaxKeys, KeyGap, SanityLimit, MinDuration, MaxDuration, DurMod, FlipAt, InFlight} \subseteq Nat
  BY DtmfAssumption DEF DtmfAssumption
<1>2. /\ {KeyGap, SanityLimit, MinDuration, MaxDuration, DurMod, FlipAt} \subseteq Nat
      /\ MaxKeys \in Nat /\ MaxDuration \in Nat
  BY <1>1
<1>3. KeyGap > 0 /\ DurMod \in 1 .. MaxDuration + 1 /\ MaxDuration <= SanityLimit + 2
  BY DtmfAssumption DEF DtmfAssumption
<1>4. DurMod > 0 /\ DurMod <= MaxDuration + 1  BY <1>2, <1>3
<1>5. \A n \in Lengths : n \in Nat \ {0} /\ (n <= MaxDuration => n % DurMod # 0)
  BY DtmfAssumption DEF DtmfAssumption
<1>6. \A n \in Nat \ {0} : n \in Nat /\ n > 0  OBVIOUS
<1>7. EndTimeouts \subseteq Nat  BY DtmfAssumption DEF DtmfAssumption
<1> QED  BY <1>2, <1>3, <1>4, <1>5, <1>6, <1>7

\* Whole turns of the 16-bit duration are counted up, and a duration that goes back has
\* wrapped once more.
LEMMA TurnsCount ==
    ASSUME NEW m \in Nat, NEW n \in Nat, n <= m
    PROVE  /\ n % DurMod \in 0 .. n /\ m % DurMod \in 0 .. DurMod - 1
           /\ n - (n % DurMod) <= m - (m % DurMod)
           /\ m % DurMod < n % DurMod => n - (n % DurMod) + DurMod <= m - (m % DurMod)
<1> DEFINE D == DurMod
           rm == m % D
           rn == n % D
           qm == m \div D
           qn == n \div D
<1>1. D \in Nat \ {0}  BY DtmfConstants
<1> HIDE DEF D
<1>2. /\ rm \in 0 .. D - 1 /\ rn \in 0 .. D - 1 /\ qm \in Int /\ qn \in Int
      /\ m = qm * D + rm /\ n = qn * D + rn
  BY <1>1
<1> HIDE DEF rm, rn, qm, qn
<1>3. qn >= 0
  <2>1. ASSUME qn <= -1 PROVE FALSE
    <3>1. qn * D <= -D  BY <1>1, <1>2, <2>1
    <3> QED  BY <1>1, <1>2, <3>1
  <2> QED  BY <1>2, <2>1
<1>4. qn * D \in Nat /\ qm * D \in Int  BY <1>1, <1>2, <1>3
<1>5. qn <= qm
  <2>1. ASSUME qm <= qn - 1 PROVE FALSE
    <3>1. qm * D <= qn * D - D  BY <1>1, <1>2, <2>1
    <3> QED  BY <1>1, <1>2, <1>4, <3>1
  <2> QED  BY <1>2, <2>1
<1>6. qn * D <= qm * D  BY <1>1, <1>2, <1>5
<1>7. ASSUME rm < rn PROVE qn * D + D <= qm * D
  <2>1. qn + 1 <= qm
    <3>1. qn # qm  BY <1>1, <1>2, <1>4, <1>7
    <3> QED  BY <1>2, <1>5, <3>1
  <2>2. (qn + 1) * D <= qm * D  BY <1>1, <1>2, <2>1
  <2> QED  BY <1>1, <1>2, <2>2
<1>8. rn \in 0 .. n /\ rm \in 0 .. D - 1 /\ n - rn <= m - rm /\ (rm < rn => n - rn + D <= m - rm)
  BY <1>1, <1>2, <1>4, <1>6, <1>7
<1> QED  BY <1>8 DEF rm, rn, D

\* A detector is a function of the names of its fields, each field of its type.
Fields == {"prev", "stamp", "digitStamp", "sanity", "duration", "flip", "current", "endStamp", "began",
           "timeout", "ignore_duration"}
Fielded(x) == DOMAIN x = Fields /\ x = [f \in Fields |-> x[f]]
FieldsTyped(x) ==
    /\ {x.prev, x.stamp, x.digitStamp, x.sanity, x.duration, x.flip, x.endStamp, x.began} \subseteq Nat
    /\ x.current \in Keys \union {NoKey} /\ x.timeout \in EndTimeouts /\ x.ignore_duration \in BOOLEAN
Spelled(x) ==
    [prev |-> x.prev, stamp |-> x.stamp, digitStamp |-> x.digitStamp, sanity |-> x.sanity,
     duration |-> x.duration, flip |-> x.flip, current |-> x.current, endStamp |-> x.endStamp,
     began |-> x.began, timeout |-> x.timeout, ignore_duration |-> x.ignore_duration]

LEMMA IsDetector == ASSUME NEW x, Fielded(x), FieldsTyped(x) PROVE x \in DtmfStates
<1>1. x = Spelled(x)  BY DEF Spelled, Fielded, Fields
<1>2. Spelled(x) \in DtmfStates  BY DEF Spelled, FieldsTyped, DtmfStates
<1> QED  BY <1>1, <1>2

LEMMA DetectorIs == ASSUME NEW x \in DtmfStates PROVE Fielded(x) /\ FieldsTyped(x)
<1>1. x = Spelled(x) /\ FieldsTyped(x)  BY DEF Spelled, FieldsTyped, DtmfStates
<1>2. Spelled(x) = [f \in DOMAIN Spelled(x) |-> Spelled(x)[f]]  BY DEF Spelled
<1>3. DOMAIN Spelled(x) = Fields  BY DEF Spelled, Fields
<1> QED  BY <1>1, <1>2, <1>3 DEF Fielded

\* What is left of a detector that is reset.
Blank(x, d) ==
    /\ x \in DtmfStates /\ x.timeout = d.timeout /\ x.ignore_duration = d.ignore_duration
    /\ x.prev = 0 /\ x.stamp = 0 /\ x.digitStamp = 0 /\ x.sanity = 0 /\ x.endStamp = 0
    /\ x.current = NoKey /\ x.began = 0

LEMMA ClearedIs == ASSUME NEW d \in DtmfStates PROVE Blank(Cleared(d), d)
<1> DEFINE x == Cleared(d)
<1>1. DOMAIN d = Fields  BY DetectorIs DEF Fielded
<1>2. /\ x.prev = 0 /\ x.stamp = 0 /\ x.digitStamp = 0 /\ x.sanity = 0 /\ x.endStamp = 0
      /\ x.current = NoKey /\ x.began = 0 /\ x.duration = 0 /\ x.flip = 0
      /\ x.timeout = d.timeout /\ x.ignore_duration = d.ignore_duration
  BY <1>1, Zenon DEF Cleared, Fields
<1>3. Fielded(x)  BY <1>1 DEF Cleared, Fielded
<1> HIDE DEF x
<1>4. FieldsTyped(x)  BY <1>2, DetectorIs DEF FieldsTyped
<1> QED  BY <1>2, <1>3, <1>4, IsDetector DEF Blank, x

\* A packet that is counted in, before its digit is looked at.
LEMMA SeenIs ==
    ASSUME NEW d \in DtmfStates, NEW p \in DigitPackets
    PROVE  LET x == Seen(d, p)
           IN  /\ x \in DtmfStates /\ x.prev = p.seq /\ x.stamp = p.stamp
               /\ x.sanity = IF p.stamp = d.stamp THEN d.sanity + 1 ELSE 0
               /\ x.digitStamp = d.digitStamp /\ x.duration = d.duration /\ x.flip = d.flip
               /\ x.current = d.current /\ x.endStamp = d.endStamp /\ x.began = d.began
               /\ x.timeout = d.timeout /\ x.ignore_duration = d.ignore_duration
<1> DEFINE x == Seen(d, p)
           n == IF p.stamp = d.stamp THEN d.sanity + 1 ELSE 0
<1>1. DOMAIN d = Fields  BY DetectorIs DEF Fielded
<1>2. /\ x.prev = p.seq /\ x.stamp = p.stamp /\ x.sanity = n
      /\ x.digitStamp = d.digitStamp /\ x.duration = d.duration /\ x.flip = d.flip
      /\ x.current = d.current /\ x.endStamp = d.endStamp /\ x.began = d.began
      /\ x.timeout = d.timeout /\ x.ignore_duration = d.ignore_duration
  BY <1>1, Zenon DEF Seen, Fields
<1>3. Fielded(x)  BY <1>1 DEF Seen, Fielded
<1>4. p.seq \in Nat /\ p.stamp \in Nat /\ n \in Nat  BY DEF DtmfStates, DigitPackets
<1> HIDE DEF x, n
<1>5. FieldsTyped(x)  BY <1>2, <1>4, DetectorIs DEF FieldsTyped
<1>6. x \in DtmfStates  BY <1>3, <1>5, IsDetector
<1> QED  BY <1>2, <1>6 DEF x, n

\* A digit in progress that is given up.
LEMMA GivenUpIs ==
    ASSUME NEW d \in DtmfStates, NEW p \in DigitPackets
    PROVE  LET x == GivenUp(d, p)
           IN  /\ x \in DtmfStates
               /\ x.prev = d.prev /\ x.stamp = d.stamp /\ x.digitStamp = d.digitStamp /\ x.sanity = d.sanity
               /\ x.began = d.began /\ x.timeout = d.timeout /\ x.ignore_duration = d.ignore_duration
               /\ ~TimedOut(d, p) => x = d
               /\ TimedOut(d, p) => x.current = NoKey /\ x.flip = 0 /\ x.duration = 0 /\ x.endStamp = d.digitStamp
<1>1. CASE ~TimedOut(d, p)  BY <1>1 DEF GivenUp
<1>2. CASE TimedOut(d, p)
  <2> DEFINE x == [d EXCEPT !.current = NoKey, !.flip = 0, !.duration = 0, !.endStamp = d.digitStamp]
  <2>1. DOMAIN d = Fields  BY DetectorIs DEF Fielded
  <2>2. /\ x.prev = d.prev /\ x.stamp = d.stamp /\ x.digitStamp = d.digitStamp /\ x.sanity = d.sanity
        /\ x.began = d.began /\ x.timeout = d.timeout /\ x.ignore_duration = d.ignore_duration
        /\ x.current = NoKey /\ x.flip = 0 /\ x.duration = 0 /\ x.endStamp = d.digitStamp
    BY <2>1, Zenon DEF Fields
  <2>3. Fielded(x)  BY <2>1 DEF Fielded
  <2>4. GivenUp(d, p) = x  BY <1>2 DEF GivenUp
  <2> HIDE DEF x
  <2>5. FieldsTyped(x)  BY <2>2, DetectorIs DEF FieldsTyped
  <2>6. x \in DtmfStates  BY <2>3, <2>5, IsDetector
  <2> QED  BY <1>2, <2>2, <2>4, <2>6
<1> QED  BY <1>1, <1>2

\* A packet of another timestamp begins its digit.
LEMMA OfDigitIs ==
    ASSUME NEW d \in DtmfStates, NEW p \in DigitPackets, d.prev = p.seq, d.stamp = p.stamp, now \in Nat
    PROVE  LET x == OfDigit(d, p)
           IN  /\ x \in DtmfStates
               /\ x.prev = d.prev /\ x.stamp = d.stamp /\ x.sanity = d.sanity
               /\ x.timeout = d.timeout /\ x.ignore_duration = d.ignore_duration /\ x.digitStamp = p.stamp
               /\ ~IsNew(d, p) => x = d
               /\ IsNew(d, p) => /\ x.current = p.key /\ x.duration = 0 /\ x.flip = 0 /\ x.began = now
                                 /\ x.endStamp \in {d.endStamp, d.digitStamp}
<1>1. CASE ~IsNew(d, p)  BY <1>1 DEF OfDigit, IsNew
<1>2. CASE IsNew(d, p)
  <2> DEFINE e == IF d.current # NoKey THEN d.digitStamp ELSE d.endStamp
             x == Begun(d, p)
  <2>1. DOMAIN d = Fields  BY DetectorIs DEF Fielded
  <2>2. /\ x.prev = p.seq /\ x.stamp = d.stamp /\ x.sanity = d.sanity
        /\ x.timeout = d.timeout /\ x.ignore_duration = d.ignore_duration /\ x.digitStamp = p.stamp
        /\ x.current = p.key /\ x.duration = 0 /\ x.flip = 0 /\ x.began = now /\ x.endStamp = e
    BY <2>1, Zenon DEF Begun, Fields
  <2>3. Fielded(x)  BY <2>1 DEF Begun, Fielded
  <2>4. OfDigit(d, p) = x  BY <1>2 DEF OfDigit
  <2>5. /\ p.seq \in Nat /\ p.stamp \in Nat /\ p.key \in Keys /\ e \in Nat /\ e \in {d.endStamp, d.digitStamp}
    BY DEF DtmfStates, DigitPackets
  <2> HIDE DEF x, e
  <2>6. FieldsTyped(x)  BY <2>2, <2>5, DetectorIs DEF FieldsTyped
  <2>7. x \in DtmfStates  BY <2>3, <2>6, IsDetector
  <2> QED  BY <1>2, <2>2, <2>4, <2>5, <2>7
<1> QED  BY <1>1, <1>2

\* The duration of a packet and what its wraps have added up to.
LEMMA TimedIs ==
    ASSUME NEW d \in DtmfStates, NEW p \in DigitPackets
    PROVE  LET x == Timed(d, p)
               wraps == p.duration < d.duration /\ d.duration >= FlipAt
           IN  /\ x \in DtmfStates /\ x.duration = p.duration
               /\ x.flip = IF wraps THEN d.flip + DurMod - 1 ELSE d.flip
               /\ x.prev = d.prev /\ x.stamp = d.stamp /\ x.digitStamp = d.digitStamp /\ x.sanity = d.sanity
               /\ x.current = d.current /\ x.endStamp = d.endStamp /\ x.began = d.began
               /\ x.timeout = d.timeout /\ x.ignore_duration = d.ignore_duration
<1> DEFINE x == Timed(d, p)
           n == IF p.duration < d.duration /\ d.duration >= FlipAt THEN d.flip + DurMod - 1 ELSE d.flip
<1>1. DOMAIN d = Fields  BY DetectorIs DEF Fielded
<1>2. /\ x.duration = p.duration /\ x.flip = n
      /\ x.prev = d.prev /\ x.stamp = d.stamp /\ x.digitStamp = d.digitStamp /\ x.sanity = d.sanity
      /\ x.current = d.current /\ x.endStamp = d.endStamp /\ x.began = d.began
      /\ x.timeout = d.timeout /\ x.ignore_duration = d.ignore_duration
  BY <1>1, Zenon DEF Timed, Fields
<1>3. Fielded(x)  BY <1>1 DEF Timed, Fielded
<1>4. p.duration \in Nat /\ n \in Nat  BY DtmfConstants DEF DtmfStates, DigitPackets
<1> HIDE DEF x, n
<1>5. FieldsTyped(x)  BY <1>2, <1>4, DetectorIs DEF FieldsTyped
<1>6. x \in DtmfStates  BY <1>3, <1>5, IsDetector
<1> QED  BY <1>2, <1>6 DEF x, n

\* How a digit is ended: reported with its first packet, ended without a duration, and
\* reported with its END.
Ended(x, d) ==
    /\ x \in DtmfStates /\ x.current = NoKey
    /\ x.prev = d.prev /\ x.stamp = d.stamp /\ x.digitStamp = d.digitStamp /\ x.sanity = d.sanity
    /\ x.duration = d.duration /\ x.flip \in {0, d.flip} /\ x.began = d.began
    /\ x.timeout = d.timeout /\ x.ignore_duration = d.ignore_duration

LEMMA EagerEnds ==
    ASSUME NEW d \in DtmfStates, NEW e \in Nat
    PROVE  LET x == [d EXCEPT !.current = NoKey, !.endStamp = e] IN Ended(x, d) /\ x.endStamp = e
<1> DEFINE x == [d EXCEPT !.current = NoKey, !.endStamp = e]
<1>1. DOMAIN d = Fields  BY DetectorIs DEF Fielded
<1>2. Fielded(x)  BY <1>1 DEF Fielded
<1>3. /\ x.prev = d.prev /\ x.stamp = d.stamp /\ x.digitStamp = d.digitStamp /\ x.sanity = d.sanity
      /\ x.duration = d.duration /\ x.flip = d.flip /\ x.began = d.began /\ x.current = NoKey
      /\ x.timeout = d.timeout /\ x.ignore_duration = d.ignore_duration /\ x.endStamp = e
  BY <1>1, Zenon DEF Fields
<1> HIDE DEF x
<1>4. FieldsTyped(x)  BY <1>3, DetectorIs DEF FieldsTyped
<1>5. Ended(x, d) /\ x.endStamp = e  BY <1>2, <1>3, <1>4, IsDetector DEF Ended
<1> QED  BY <1>5 DEF x

LEMMA SilentEnds ==
    ASSUME NEW d \in DtmfStates
    PROVE  LET x == [d EXCEPT !.current = NoKey, !.flip = 0] IN Ended(x, d) /\ x.endStamp = d.endStamp
<1> DEFINE x == [d EXCEPT !.current = NoKey, !.flip = 0]
<1>1. DOMAIN d = Fields  BY DetectorIs DEF Fielded
<1>2. Fielded(x)  BY <1>1 DEF Fielded
<1>3. /\ x.prev = d.prev /\ x.stamp = d.stamp /\ x.digitStamp = d.digitStamp /\ x.sanity = d.sanity
      /\ x.duration = d.duration /\ x.flip = 0 /\ x.began = d.began /\ x.current = NoKey
      /\ x.timeout = d.timeout /\ x.ignore_duration = d.ignore_duration /\ x.endStamp = d.endStamp
  BY <1>1, Zenon DEF Fields
<1> HIDE DEF x
<1>4. FieldsTyped(x)  BY <1>3, DetectorIs DEF FieldsTyped
<1>5. Ended(x, d) /\ x.endStamp = d.endStamp  BY <1>2, <1>3, <1>4, IsDetector DEF Ended
<1> QED  BY <1>5 DEF x

LEMMA EndEnds ==
    ASSUME NEW d \in DtmfStates, NEW e \in Nat
    PROVE  LET x == [d EXCEPT !.current = NoKey, !.flip = 0, !.endStamp = e] IN Ended(x, d) /\ x.endStamp = e
<1> DEFINE y == [d EXCEPT !.current = NoKey, !.flip = 0]
           x == [y EXCEPT !.current = NoKey, !.endStamp = e]
<1>1. Ended(y, d)  BY SilentEnds
<1>2. Ended(x, y) /\ x.endStamp = e
  <2> HIDE DEF y
  <2>1. y \in DtmfStates  BY <1>1 DEF Ended
  <2> QED  BY <2>1, EagerEnds
<1>3. x = [d EXCEPT !.current = NoKey, !.flip = 0, !.endStamp = e]
  <2>1. DOMAIN d = Fields  BY DetectorIs DEF Fielded
  <2> QED  BY <2>1
<1> HIDE DEF x, y
<1>4. Ended(x, d)  BY <1>1, <1>2 DEF Ended
<1> QED  BY <1>2, <1>3, <1>4

\* The detector that a packet of the digit reaches, before its duration is looked at.
Reached(b, p) ==
    /\ b \in DtmfStates /\ b.prev = p.seq /\ b.stamp = key.stamp /\ b.digitStamp = key.stamp
    /\ b.timeout = det.timeout /\ b.ignore_duration = det.ignore_duration
    /\ b.current \in {NoKey, key.number} /\ b.endStamp \in {det.endStamp, det.digitStamp}
    /\ ~Own => /\ b.sanity = 0 /\ b.current = key.number
               /\ b.duration = 0 /\ b.flip = 0 /\ b.began = now
    /\ Own => /\ b.sanity = det.sanity + 1 /\ b.began = det.began
              /\ \/ b.current = det.current /\ b.duration = det.duration /\ b.flip = det.flip
                    /\ b.endStamp = det.endStamp
                 \/ /\ det.current # NoKey /\ now - det.began > det.timeout
                    /\ b.current = NoKey /\ b.duration = 0 /\ b.flip = 0

LEMMA FlightIs ==
    ASSUME DtmfInv, NEW p \in flight
    PROVE  /\ p \in DigitPackets /\ p.key = key.number /\ p.stamp = key.stamp
           /\ key.number \in Keys /\ key.number # NoKey /\ key.stamp \in Nat \ {0} /\ key.stamp >= KeyGap
           /\ Prior \in Nat /\ p.seq - Prior \in 1 .. key.length /\ p.seq \in Nat
           /\ p.duration = (p.seq - Prior) % DurMod /\ p.end \in BOOLEAN
           /\ p.end <=> p.seq - Prior = key.length
           /\ key.length \in Lengths /\ key.length \in Nat /\ now \in Nat \ {0} /\ det \in DtmfStates
           /\ held[p.key] = key.length
<1>1. /\ p \in DigitPackets /\ p.key = key.number /\ p.stamp = key.stamp /\ p.seq - Prior \in 1 .. key.sent
      /\ p.duration = (p.seq - Prior) % DurMod /\ (p.end <=> p.seq - Prior = key.length)
      /\ det \in DtmfStates
  BY DEF DtmfInv, PacketsInv, StampsInv
<1>2. p.key \in Keys /\ p.seq \in Nat /\ p.end \in BOOLEAN  BY <1>1 DEF DigitPackets
<1>3. p.key # NoKey  BY <1>2, DtmfConstants DEF Keys, NoKey
<1>4. /\ key.sent \in Nat /\ key.seq \in Nat /\ key.length \in Nat /\ key.stamp \in Nat
      /\ key.sent <= key.length /\ key.sent <= key.seq /\ now \in Nat \ {0}
      /\ key.number # 0 => /\ key.length \in Lengths /\ key.stamp >= KeyGap
                           /\ held[key.number] = key.length
  BY DEF DtmfInv, FarEndInv
<1> QED  BY <1>1, <1>2, <1>3, <1>4, DtmfConstants DEF Prior, NoKey

LEMMA ReachedIs ==
    ASSUME DtmfInv, NEW p \in flight
    PROVE  LET g == GivenUp(Seen(det, p), p)
           IN  /\ Reached(OfDigit(g, p), p) /\ (IsNew(g, p) <=> ~Own) /\ g.ignore_duration = det.ignore_duration
<1> DEFINE e == Seen(det, p)
           g == GivenUp(e, p)
           b == OfDigit(g, p)
<1>1. /\ p \in DigitPackets /\ p.key = key.number /\ p.stamp = key.stamp /\ now \in Nat
      /\ key.number \in Keys /\ key.number # NoKey /\ det \in DtmfStates
  BY FlightIs
<1>2. /\ e \in DtmfStates /\ e.prev = p.seq /\ e.stamp = p.stamp
      /\ e.sanity = IF p.stamp = det.stamp THEN det.sanity + 1 ELSE 0
      /\ e.digitStamp = det.digitStamp /\ e.duration = det.duration /\ e.flip = det.flip
      /\ e.current = det.current /\ e.endStamp = det.endStamp /\ e.began = det.began
      /\ e.timeout = det.timeout /\ e.ignore_duration = det.ignore_duration
  BY <1>1, SeenIs
<1> HIDE DEF e
<1>3. /\ g \in DtmfStates
      /\ g.prev = e.prev /\ g.stamp = e.stamp /\ g.digitStamp = e.digitStamp /\ g.sanity = e.sanity
      /\ g.began = e.began /\ g.timeout = e.timeout /\ g.ignore_duration = e.ignore_duration
      /\ ~TimedOut(e, p) => g = e
      /\ TimedOut(e, p) => g.current = NoKey /\ g.flip = 0 /\ g.duration = 0 /\ g.endStamp = e.digitStamp
  BY <1>1, <1>2, GivenUpIs
<1> HIDE DEF g
<1>4. g.prev = p.seq /\ g.stamp = p.stamp  BY <1>2, <1>3
<1>5. /\ b \in DtmfStates
      /\ b.prev = g.prev /\ b.stamp = g.stamp /\ b.sanity = g.sanity
      /\ b.timeout = g.timeout /\ b.ignore_duration = g.ignore_duration /\ b.digitStamp = p.stamp
      /\ ~IsNew(g, p) => b = g
      /\ IsNew(g, p) => /\ b.current = p.key /\ b.duration = 0 /\ b.flip = 0 /\ b.began = now
                        /\ b.endStamp \in {g.endStamp, g.digitStamp}
  BY <1>1, <1>3, <1>4, OfDigitIs
<1> HIDE DEF b
<1>6. det.stamp = det.digitStamp /\ (Own <=> det.digitStamp = key.stamp)
  BY <1>1 DEF DtmfInv, StampsInv, Own, NoKey
<1>7. IsNew(g, p) <=> ~Own  BY <1>1, <1>2, <1>3, <1>6 DEF IsNew
<1>8. g.endStamp \in {det.endStamp, det.digitStamp}  BY <1>2, <1>3
<1>9. ASSUME ~Own PROVE Reached(b, p)
  <2>1. p.stamp # det.stamp /\ IsNew(g, p)  BY <1>1, <1>6, <1>7, <1>9
  <2> QED  BY <1>1, <1>2, <1>3, <1>5, <1>8, <1>9, <2>1 DEF Reached
<1>10. ASSUME Own PROVE Reached(b, p)
  <2>1. p.stamp = det.stamp /\ b = g  BY <1>1, <1>5, <1>6, <1>7, <1>10
  <2>2. det.current \in {NoKey, key.number}  BY <1>10 DEF DtmfInv, OwnInv
  <2>3. TimedOut(e, p) => det.current # NoKey /\ now - det.began > det.timeout
    <3>1. det.digitStamp \in Nat /\ det.timeout \in Nat /\ p.stamp = det.digitStamp
      BY <1>1, <1>6, <2>1, DtmfConstants DEF DtmfStates
    <3>2. ~(p.stamp - det.digitStamp > det.timeout)  BY <3>1
    <3> QED  BY <1>2, <3>2 DEF TimedOut
  <2> QED  BY <1>1, <1>2, <1>3, <1>5, <1>6, <1>8, <1>10, <2>1, <2>2, <2>3 DEF Reached
<1>11. Reached(b, p) /\ g.ignore_duration = det.ignore_duration  BY <1>2, <1>3, <1>9, <1>10
<1> QED  BY <1>7, <1>11 DEF b, g, e

\* What a packet p of the digit can do to the detector: it is dropped; it resets the
\* detector; it is counted; it makes the detector report the digit.
DroppedPacket(r, p) == r = Only(det) /\ (Overlaps(det, p) \/ OutOfOrder(det, p))
ResetBy(r) ==
    Blank(r.det, det) /\ r.result = <<>> /\ key.length > MaxDuration /\ ~IsTold(key.number)
Moves(x, p) ==
    /\ x \in DtmfStates /\ x.prev = p.seq /\ x.stamp = key.stamp /\ x.digitStamp = key.stamp
    /\ x.timeout = det.timeout /\ x.ignore_duration = det.ignore_duration
    /\ x.current \in {NoKey, key.number} /\ x.endStamp \in {det.endStamp, det.digitStamp, key.stamp}
    /\ x.began = (IF Own THEN det.began ELSE now) /\ x.sanity < p.seq - Prior
    /\ x.duration \in {0, p.duration} /\ x.flip <= p.seq - Prior - p.duration
CountedIn(r, p) ==
    /\ Moves(r.det, p) /\ r.result = <<>> /\ (~Own => ~det.ignore_duration)
    /\ r.det.current # NoKey => ~p.end
    /\ r.det.current = NoKey => \/ p.end /\ key.length > MaxDuration
                                \/ Own /\ (det.current = NoKey \/ now - det.began > det.timeout)
    /\ IsTold(key.number) => p.end /\ r.det.current = NoKey /\ r.det.endStamp = key.stamp
ReportedBy(r, p) ==
    /\ Moves(r.det, p) /\ ~IsTold(key.number) /\ r.det.current = NoKey /\ r.det.endStamp = key.stamp
    /\ p.end \/ (r.det.duration = 0 /\ r.det.flip = 0 /\ r.det.sanity = 0)
    /\ \E u \in Nat : /\ u <= Atleast(key.length, MinDuration)
                      /\ r.result = <<[key |-> key.number, duration |-> u]>>

\* What is told, in order, and heard of a digit that was told.
LEMMA ToldIs ==
    ASSUME DtmfInv, NEW p \in flight, IsTold(key.number), ~Overlaps(det, p), ~OutOfOrder(det, p)
    PROVE  /\ Own /\ det.current = NoKey /\ det.endStamp = key.stamp /\ p.end
           /\ det.duration = 0 /\ det.flip = 0 /\ det.sanity = 0
<1>1. /\ Own /\ det.current = NoKey /\ det.endStamp = key.stamp
      /\ Heard = key.length \/ (det.duration = 0 /\ det.flip = 0 /\ det.sanity = 0)
  BY DEF DtmfInv, ToldInv
<1>2. /\ p.stamp = key.stamp /\ key.stamp \in Nat \ {0} /\ p.end \in BOOLEAN
      /\ p.seq \in Nat /\ Prior \in Nat /\ p.seq - Prior <= key.length /\ key.length \in Nat
  BY FlightIs
<1>3. p.end  BY <1>1, <1>2 DEF Overlaps
<1>4. Heard # key.length
  <2>1. Heard >= 1 /\ det.prev \in Nat /\ det.stamp = key.stamp
    BY <1>1 DEF DtmfInv, OwnInv, StampsInv, DtmfStates, Own
  <2>2. p.seq > det.prev  BY <1>2, <2>1 DEF OutOfOrder, Heard
  <2> QED  BY <1>2, <2>1, <2>2 DEF Heard
<1> QED  BY <1>1, <1>3, <1>4

\* A packet that is not out of order is further on, and its wraps are counted.
LEMMA FurtherOn ==
    ASSUME DtmfInv, NEW p \in flight, ~OutOfOrder(det, p), NEW b, Reached(b, p)
    PROVE  LET t == Timed(b, p)
           IN  /\ Own => Heard \in 1 .. p.seq - Prior - 1
               /\ b.sanity \in Nat /\ b.sanity < p.seq - Prior
               /\ Moves(t, p) /\ t.current = b.current /\ t.endStamp = b.endStamp
               /\ t.sanity = b.sanity /\ t.duration = p.duration
               /\ t.flip \in Nat /\ Total(t) \in Nat /\ Total(t) <= key.length
<1> DEFINE n == p.seq - Prior
           t == Timed(b, p)
<1>1. /\ p \in DigitPackets /\ p.stamp = key.stamp /\ p.seq \in Nat /\ Prior \in Nat /\ n \in 1 .. key.length
      /\ p.duration = n % DurMod /\ key.length \in Nat /\ det \in DtmfStates
  BY FlightIs
<1>2. Own => Heard \in 1 .. n - 1 /\ det.sanity \in Nat /\ det.sanity < Heard
  <2> SUFFICES ASSUME Own PROVE Heard \in 1 .. n - 1 /\ det.sanity \in Nat /\ det.sanity < Heard
    OBVIOUS
  <2>1. Heard \in 1 .. key.sent /\ det.sanity < Heard /\ det.stamp = key.stamp
    BY DEF DtmfInv, OwnInv, StampsInv, Own
  <2>2. det.prev \in Nat /\ det.sanity \in Nat /\ key.sent \in Nat
    BY <1>1 DEF DtmfStates, DtmfInv, FarEndInv
  <2>3. det.prev # 0 /\ p.seq > det.prev  BY <1>1, <2>1, <2>2 DEF Heard, OutOfOrder
  <2> QED  BY <1>1, <2>1, <2>2, <2>3 DEF Heard
<1>3. b.sanity \in Nat /\ b.sanity < n
  <2> HIDE DEF n
  <2>1. n \in Nat /\ n >= 1  BY <1>1
  <2> QED  BY <1>1, <1>2, <2>1 DEF Reached, DtmfStates
<1>4. /\ t \in DtmfStates /\ t.duration = p.duration
      /\ t.flip = IF p.duration < b.duration /\ b.duration >= FlipAt THEN b.flip + DurMod - 1 ELSE b.flip
      /\ t.prev = b.prev /\ t.stamp = b.stamp /\ t.digitStamp = b.digitStamp /\ t.sanity = b.sanity
      /\ t.current = b.current /\ t.endStamp = b.endStamp /\ t.began = b.began
      /\ t.timeout = b.timeout /\ t.ignore_duration = b.ignore_duration
  <2>1. b \in DtmfStates  BY DEF Reached
  <2> QED  BY <1>1, <2>1, TimedIs
<1> HIDE DEF n, t
<1>5. n \in Nat /\ n % DurMod \in 0 .. n /\ DurMod \in Nat \ {0} /\ FlipAt \in Nat
  <2>1. n \in Nat /\ n <= n  BY <1>1
  <2>2. n % DurMod \in 0 .. n  BY <2>1, TurnsCount
  <2> QED  BY <2>1, <2>2, DtmfConstants
<1>6. t.flip \in Nat /\ b.flip \in Nat /\ b.duration \in Nat /\ p.duration \in Nat
  BY <1>1, <1>4 DEF DtmfStates, DigitPackets, Reached
<1>7. t.flip <= n - p.duration
  <2>1. CASE ~Own
    <3>1. b.duration = 0 /\ b.flip = 0  BY <2>1 DEF Reached
    <3>2. t.flip = 0  BY <1>4, <1>6, <3>1
    <3> QED  BY <1>1, <1>5, <3>2
  <2>2. CASE Own
    <3> DEFINE h == Heard
               w == h % DurMod
    <3>1. h \in Nat /\ h <= n  BY <1>2, <1>5, <2>2
    <3>2. det.duration \in {0, w} /\ det.flip <= h - w  BY <2>2 DEF DtmfInv, OwnInv
    <3>3. b.duration \in {0, w} /\ b.flip <= h - w
      <4> HIDE DEF h
      <4>1. w \in 0 .. h  BY <3>1, TurnsCount
      <4> HIDE DEF w
      <4> QED  BY <2>2, <3>1, <3>2, <4>1 DEF Reached
    <3> HIDE DEF h
    <3>4. /\ w \in 0 .. h /\ h - w <= n - (n % DurMod)
          /\ n % DurMod < w => h - w + DurMod <= n - (n % DurMod)
      BY <1>5, <3>1, TurnsCount
    <3> DEFINE m == n % DurMod
    <3>5. m \in Nat /\ p.duration = m /\ w \in Nat  BY <1>1, <1>5, <3>1, <3>4
    <3>6. h - w <= n - m /\ (m < w => h - w + DurMod <= n - m)  BY <3>4
    <3> HIDE DEF m, w
    <3>7. CASE m < b.duration
      <4>1. m < w /\ t.flip <= b.flip + DurMod - 1  BY <1>4, <1>5, <1>6, <3>3, <3>5, <3>7
      <4> QED  BY <1>5, <1>6, <3>1, <3>3, <3>5, <3>6, <4>1
    <3>8. CASE ~(m < b.duration)
      <4>1. t.flip = b.flip  BY <1>4, <3>5, <3>8
      <4> QED  BY <1>5, <1>6, <3>1, <3>3, <3>5, <3>6, <4>1
    <3> QED  BY <3>7, <3>8
  <2> QED  BY <2>1, <2>2
<1>8. Total(t) \in Nat /\ Total(t) <= key.length
  <2>1. Total(t) = p.duration + t.flip /\ n <= key.length  BY <1>1, <1>4 DEF Total
  <2> QED  BY <1>1, <1>5, <1>6, <1>7, <2>1
<1>9. Moves(t, p)
  BY <1>3, <1>4, <1>7 DEF Moves, Reached, n
<1> QED  BY <1>2, <1>3, <1>4, <1>6, <1>8, <1>9 DEF n, t

LEMMA OutcomeIs ==
    ASSUME DtmfInv, NEW p \in flight
    PROVE  LET r == process_rtp(det, p)
           IN  DroppedPacket(r, p) \/ ResetBy(r) \/ CountedIn(r, p) \/ ReportedBy(r, p)
<1> DEFINE r == process_rtp(det, p)
           g == GivenUp(Seen(det, p), p)
           b == OfDigit(g, p)
           t == Timed(b, p)
           n == p.seq - Prior
<1>1. /\ p \in DigitPackets /\ p.key = key.number /\ p.stamp = key.stamp /\ key.number # NoKey
      /\ p.seq \in Nat /\ Prior \in Nat /\ n \in 1 .. key.length /\ p.duration = n % DurMod
      /\ p.end \in BOOLEAN /\ (p.end <=> n = key.length) /\ key.length \in Lengths /\ key.length \in Nat
      /\ det \in DtmfStates /\ key.stamp \in Nat \ {0}
  BY FlightIs
<1>2. Reached(b, p) /\ (IsNew(g, p) <=> ~Own) /\ g.ignore_duration = det.ignore_duration
  BY ReachedIs
<1>3. CASE Overlaps(det, p) \/ OutOfOrder(det, p)
  BY <1>3 DEF process_rtp, DroppedPacket
<1>4. CASE ~Overlaps(det, p) /\ ~OutOfOrder(det, p) /\ Stuck(det, p)
  <2>1. r = Only(Cleared(det))  BY <1>4 DEF process_rtp
  <2>2. det.sanity > SanityLimit /\ Own  BY <1>1, <1>4 DEF Stuck, Own, DtmfInv, StampsInv, NoKey
  <2>3. Heard \in 1 .. n - 1 /\ det.sanity < Heard /\ det.sanity \in Nat
    BY <1>1, <1>2, <1>4, <2>2, FurtherOn DEF DtmfInv, OwnInv, DtmfStates
  <2>4. key.length > MaxDuration
    <3> HIDE DEF n
    <3> QED  BY <1>1, <2>2, <2>3, DtmfConstants
  <2>5. ~IsTold(key.number)
    <3>1. IsTold(key.number) => det.sanity = 0  BY <1>4, ToldIs
    <3> QED  BY <2>2, <2>3, <3>1, DtmfConstants
  <2> QED  BY <1>1, <2>1, <2>4, <2>5, ClearedIs DEF ResetBy, Only
<1> HIDE DEF g, b
<1>5. ASSUME ~Overlaps(det, p), ~OutOfOrder(det, p), ~Stuck(det, p), ~Own, det.ignore_duration
      PROVE  ReportedBy(r, p)
  <2> DEFINE x == [b EXCEPT !.current = NoKey, !.endStamp = p.stamp]
  <2>1. r = [det |-> x, result |-> Result(p, 0)]
    BY <1>2, <1>5 DEF process_rtp, Eager, b, g
  <2>2. b \in DtmfStates /\ b.sanity = 0 /\ b.duration = 0 /\ b.flip = 0 /\ b.current = key.number
    BY <1>2, <1>5 DEF Reached
  <2>3. Ended(x, b) /\ x.endStamp = p.stamp
    <3>1. p.stamp \in Nat  BY <1>1
    <3> QED  BY <2>2, <3>1, EagerEnds
  <2>4. 0 <= n - p.duration /\ b.sanity < n
    <3>1. Moves(t, p) /\ t.flip \in Nat /\ b.sanity < n /\ t.duration = p.duration
      BY <1>2, <1>5, FurtherOn
    <3>2. p.duration \in Nat /\ n \in Nat /\ t.flip <= n - p.duration
      BY <1>1, <3>1 DEF Moves, DigitPackets
    <3> HIDE DEF n, t
    <3> QED  BY <3>1, <3>2
  <2> HIDE DEF x
  <2>5. Moves(x, p)
    BY <1>1, <1>2, <1>5, <2>2, <2>3, <2>4 DEF Moves, Reached, Ended
  <2>6. ~IsTold(key.number)  BY <1>5 DEF DtmfInv, ToldInv
  <2>7. Result(p, 0) = <<[key |-> key.number, duration |-> MinDuration]>>
    <3>1. Atleast(0, MinDuration) = MinDuration  BY DtmfConstants DEF Atleast
    <3> QED  BY <1>1, <3>1 DEF Result
  <2>8. MinDuration \in Nat /\ MinDuration <= Atleast(key.length, MinDuration)
    BY <1>1, DtmfConstants DEF Atleast
  <2>9. r.det = x /\ r.result = <<[key |-> key.number, duration |-> MinDuration]>>  BY <2>1, <2>7
  <2> HIDE DEF r
  <2> QED  BY <1>1, <2>2, <2>3, <2>5, <2>6, <2>8, <2>9 DEF ReportedBy, Ended
<1>6. ASSUME ~Overlaps(det, p), ~OutOfOrder(det, p), ~Stuck(det, p), ~(~Own /\ det.ignore_duration)
      PROVE  ResetBy(r) \/ CountedIn(r, p) \/ ReportedBy(r, p)
  <2>1. r = Concluded(t, p)
    BY <1>1, <1>2, <1>6 DEF process_rtp, Eager, b, g, Reached
  <2>2. /\ Moves(t, p) /\ t.current = b.current /\ t.endStamp = b.endStamp /\ t.duration = p.duration
        /\ t.flip \in Nat /\ Total(t) \in Nat /\ Total(t) <= key.length /\ t \in DtmfStates
    BY <1>2, <1>6, FurtherOn DEF Moves
  <2>3. ASSUME IsTold(key.number)
        PROVE  /\ p.end /\ b.current = NoKey /\ b.endStamp = key.stamp /\ Total(t) <= MaxDuration
    <3>1. /\ Own /\ det.current = NoKey /\ det.endStamp = key.stamp /\ p.end
          /\ det.duration = 0 /\ det.flip = 0
      BY <1>6, <2>3, ToldIs
    <3>2. b.current = NoKey /\ b.duration = 0 /\ b.flip = 0 /\ b.endStamp = det.endStamp /\ b \in DtmfStates
      BY <1>2, <3>1 DEF Reached
    <3>3. t.flip = 0
      <4>1. p.duration \in Nat  BY <1>1 DEF DigitPackets
      <4>2. t.flip = IF p.duration < b.duration /\ b.duration >= FlipAt THEN b.flip + DurMod - 1 ELSE b.flip
        BY <1>1, <3>2, TimedIs
      <4> QED  BY <3>2, <4>1, <4>2
    <3>4. n \in Nat /\ n <= n  BY <1>1
    <3>5. n % DurMod \in 0 .. DurMod - 1  BY <3>4, TurnsCount
    <3>6. Total(t) = n % DurMod  BY <1>1, <2>2, <3>3, <3>5 DEF Total
    <3> QED  BY <3>1, <3>2, <3>5, <3>6, DtmfConstants
  <2> HIDE DEF t, r
  <2>4. CASE Total(t) > MaxDuration
    <3>1. r = Only(Cleared(t))  BY <2>1, <2>4 DEF Concluded
    <3>2. Blank(Cleared(t), det)  BY <2>2, ClearedIs DEF Blank, Moves
    <3>3. key.length > MaxDuration  BY <1>1, <2>2, <2>4, DtmfConstants
    <3>4. ~IsTold(key.number)  BY <2>2, <2>3, <2>4, DtmfConstants
    <3> QED  BY <3>1, <3>2, <3>3, <3>4 DEF ResetBy, Only
  <2>5. CASE ~(Total(t) > MaxDuration) /\ (~p.end \/ t.current = NoKey)
    <3>1. r.det = t /\ r.result = <<>>  BY <2>1, <2>5 DEF Concluded, Only
    <3>2. t.current = NoKey => Own /\ (det.current = NoKey \/ now - det.began > det.timeout)
      BY <1>1, <1>2, <2>2 DEF Reached
    <3> QED  BY <1>6, <2>2, <2>3, <2>5, <3>1, <3>2 DEF CountedIn
  <2>6. CASE ~(Total(t) > MaxDuration) /\ p.end /\ t.current # NoKey /\ Total(t) = 0
    <3> DEFINE x == [t EXCEPT !.current = NoKey, !.flip = 0]
    <3>1. r.det = x /\ r.result = <<>>  BY <2>1, <2>6 DEF Concluded, Only
    <3>2. Ended(x, t) /\ x.endStamp = t.endStamp  BY <2>2, SilentEnds
    <3> HIDE DEF x
    <3>3. Moves(x, p)
      <4>1. p.duration \in Nat /\ n \in Nat  BY <1>1 DEF DigitPackets
      <4> HIDE DEF n
      <4>2. x.flip <= n - p.duration  BY <2>2, <3>2, <4>1 DEF Moves, Ended, n
      <4> QED  BY <2>2, <3>2, <4>2 DEF Moves, Ended, n
    <3>4. key.length > MaxDuration
      <4>1. p.duration = 0
        <5>1. p.duration \in Nat  BY <1>1 DEF DigitPackets
        <5> QED  BY <2>2, <2>6, <5>1 DEF Total
      <4> QED  BY <1>1, <2>6, <4>1, DtmfConstants
    <3>5. ~IsTold(key.number)  BY <2>2, <2>3, <2>6
    <3> QED  BY <1>6, <2>6, <3>1, <3>2, <3>3, <3>4, <3>5 DEF CountedIn, Ended
  <2>7. CASE ~(Total(t) > MaxDuration) /\ p.end /\ t.current # NoKey /\ Total(t) # 0
    <3> DEFINE x == [t EXCEPT !.current = NoKey, !.flip = 0, !.endStamp = p.stamp]
               u == Atleast(Total(t), MinDuration)
    <3>1. r.det = x /\ r.result = <<[key |-> key.number, duration |-> u]>>
      BY <1>1, <2>1, <2>7 DEF Concluded, Result
    <3>2. Ended(x, t) /\ x.endStamp = key.stamp
      <4>1. p.stamp = key.stamp /\ p.stamp \in Nat  BY <1>1
      <4>2. Ended(x, t) /\ x.endStamp = p.stamp  BY <2>2, <4>1, EndEnds
      <4> QED  BY <4>1, <4>2
    <3> HIDE DEF x
    <3>3. Moves(x, p)
      <4>1. p.duration \in Nat /\ n \in Nat  BY <1>1 DEF DigitPackets
      <4> HIDE DEF n
      <4>2. x.flip <= n - p.duration  BY <2>2, <3>2, <4>1 DEF Moves, Ended, n
      <4> QED  BY <2>2, <3>2, <4>2 DEF Moves, Ended, n
    <3>4. u \in Nat /\ u <= Atleast(key.length, MinDuration)
      BY <1>1, <2>2, DtmfConstants DEF Atleast
    <3>5. ~IsTold(key.number)  BY <2>2, <2>3, <2>7
    <3> HIDE DEF u
    <3> QED  BY <2>7, <3>1, <3>2, <3>3, <3>4, <3>5 DEF ReportedBy, Ended
  <2> QED  BY <2>4, <2>5, <2>6, <2>7
<1> QED  BY <1>3, <1>4, <1>5, <1>6

LEMMA DtmfInitial == DtmfInit => DtmfInv
<1> SUFFICES ASSUME DtmfInit PROVE DtmfInv  OBVIOUS
<1>1. /\ key = [number |-> 0, length |-> 0, sent |-> 0, stamp |-> 0, seq |-> 0] /\ flight = {} /\ now = 1
      /\ told = <<>> /\ first = [k \in Keys |-> 0] /\ due = {} /\ held = [k \in Keys |-> 0]
  BY DEF DtmfInit
<1>2. PICK timeout \in EndTimeouts, eager \in BOOLEAN :
        det = [prev |-> 0, stamp |-> 0, digitStamp |-> 0, sanity |-> 0, duration |-> 0, flip |-> 0,
               current |-> NoKey, endStamp |-> 0, began |-> 0,
               timeout |-> timeout, ignore_duration |-> eager]
  BY DEF DtmfInit
<1>3. det \in DtmfStates  BY <1>2 DEF DtmfStates
<1>4. det.stamp = 0 /\ det.digitStamp = 0 /\ det.endStamp = 0 /\ det.began = 0  BY <1>2
<1>5. FarEndInv /\ PacketsInv  BY <1>1 DEF FarEndInv, PacketsInv
<1>6. StampsInv  BY <1>1, <1>3, <1>4 DEF StampsInv
<1>7. ~Own /\ ~IsTold(key.number)  BY <1>1 DEF Own, IsTold
<1>8. ToldInv /\ AllTold
  <2>1. told \in Seq(Reports) /\ DOMAIN told = {}  BY <1>1
  <2> QED  BY <1>1, <1>7, <2>1 DEF ToldInv, AllTold, InOrder, NoLonger, DueTold
<1> QED  BY <1>5, <1>6, <1>7, <1>8 DEF DtmfInv, OwnInv, WaitInv

\* The next digit has a stamp that nothing before it is close to.
LEMMA PressedInv ==
    ASSUME DtmfInv, Apart', NEW length \in Lengths, KeyPressed(length)
    PROVE  DtmfInv'
<1> DEFINE s == Atleast(now, key.stamp + KeyGap)
           k == key.number + 1
<1>1. /\ key.number < MaxKeys
      /\ key' = [key EXCEPT !.number = k, !.length = length, !.sent = 0, !.stamp = s]
      /\ held' = [held EXCEPT ![k] = length]
      /\ UNCHANGED <<flight, now, det, told, first, due>>
  BY DEF KeyPressed
<1>2. /\ key \in [number : Keys \union {0}, length : Nat, sent : Nat, stamp : Nat, seq : Nat]
      /\ now \in Nat \ {0} /\ first \in [Keys -> Nat] /\ \A j \in Keys : first[j] <= now
  BY DEF DtmfInv, FarEndInv
<1>3. /\ key.number \in Nat /\ key.stamp \in Nat /\ key.seq \in Nat /\ length \in Nat /\ k \in Keys /\ k # 0
      /\ k > key.number /\ s \in Nat /\ s >= key.stamp + KeyGap /\ s > 0
  <2>1. key.number \in Nat  BY <1>2, DtmfConstants DEF Keys
  <2>2. k \in Keys /\ k # 0 /\ k > key.number  BY <1>1, <2>1, DtmfConstants DEF Keys
  <2> QED  BY <1>2, <2>1, <2>2, DtmfConstants DEF Atleast
<1> HIDE DEF s, k
<1>4. key'.number = k /\ key'.length = length /\ key'.sent = 0 /\ key'.stamp = s /\ key'.seq = key.seq
      /\ key' \in [number : Keys \union {0}, length : Nat, sent : Nat, stamp : Nat, seq : Nat]
  <2> DEFINE c == [key EXCEPT !.number = k, !.length = length]
  <2>1. c \in [number : Keys \union {0}, length : Nat, sent : Nat, stamp : Nat, seq : Nat]
        /\ c.number = k /\ c.length = length /\ c.seq = key.seq
    BY <1>2, <1>3
  <2>2. key' = [c EXCEPT !.sent = 0, !.stamp = s]  BY <1>1
  <2> HIDE DEF c
  <2> QED  BY <1>3, <2>1, <2>2
<1>5. FarEndInv'
  <2>1. s >= KeyGap  BY <1>3, DtmfConstants
  <2>2. held' \in [Keys -> Nat] /\ held'[k] = length
    BY <1>1, <1>3 DEF DtmfInv, FarEndInv
  <2> QED  BY <1>1, <1>2, <1>3, <1>4, <2>1, <2>2 DEF FarEndInv
<1>6. PacketsInv'
  <2>1. \A p \in flight : p.key = key.number /\ p.key = k
    BY <1>1, <1>4 DEF DtmfInv, PacketsInv, Apart
  <2>2. flight' = {}  BY <1>1, <1>3, <2>1
  <2> QED  BY <2>2 DEF PacketsInv
<1>7. \A x \in {det.digitStamp, det.endStamp} : x \in Nat /\ x + KeyGap <= s /\ x # s
  <2>1. \A x \in {det.digitStamp, det.endStamp} : x \in Nat /\ (x = key.stamp \/ x + KeyGap <= key.stamp)
    BY DEF DtmfInv, StampsInv, DtmfStates
  <2> QED  BY <1>3, <2>1, DtmfConstants
<1>8. StampsInv'
  <2>1. det \in DtmfStates /\ det.began <= now /\ det.stamp = det.digitStamp  BY DEF DtmfInv, StampsInv
  <2> QED  BY <1>1, <1>4, <1>7, <2>1 DEF StampsInv
<1>9. ~Own'  BY <1>1, <1>4, <1>7 DEF Own
<1>10. told \in Seq(Reports) /\ \A i \in DOMAIN told : told[i].key \in Nat /\ told[i].key <= key.number
  <2>1. told \in Seq(Reports) /\ \A i \in DOMAIN told : told[i].key <= key.number  BY DEF DtmfInv, ToldInv
  <2>2. \A i \in DOMAIN told : told[i] \in Reports  BY <2>1
  <2> QED  BY <2>1, <2>2, DtmfConstants DEF Reports, Keys
<1>11. \A i \in DOMAIN told : told[i].key <= k /\ told[i].key # k
  <2> TAKE i \in DOMAIN told
  <2> DEFINE j == told[i].key
  <2>1. j \in Nat /\ j <= key.number  BY <1>10
  <2> HIDE DEF j
  <2>2. j <= k /\ j # k
    <3>1. k \in Nat  BY <1>3, DtmfConstants DEF Keys
    <3> QED  BY <1>3, <2>1, <3>1
  <2> QED  BY <2>2 DEF j
<1>12. ~IsTold(key.number)'  BY <1>1, <1>4, <1>11 DEF IsTold
<1>13. ToldInv'  BY <1>1, <1>4, <1>10, <1>11, <1>12 DEF ToldInv
<1>14. AllTold'
  <2>1. AllTold  BY DEF DtmfInv
  <2>2. InOrder' /\ DueTold'  BY <1>1, <2>1 DEF AllTold, InOrder, DueTold
  <2>3. \A i \in DOMAIN told : held'[told[i].key] = held[told[i].key]
    <3> TAKE i \in DOMAIN told
    <3>1. told[i].key # k /\ held \in [Keys -> Nat]  BY <1>11 DEF DtmfInv, FarEndInv
    <3>2. told[i].key \in Keys
      <4>1. told[i] \in Reports  BY <1>10
      <4> QED  BY <4>1 DEF Reports
    <3> QED  BY <1>1, <3>1, <3>2
  <2>4. NoLonger'  BY <1>1, <2>1, <2>3 DEF AllTold, NoLonger
  <2> QED  BY <2>2, <2>4 DEF AllTold
<1> QED  BY <1>5, <1>6, <1>8, <1>9, <1>13, <1>14 DEF DtmfInv, OwnInv, WaitInv

\* Another packet of the digit; time goes on.
LEMMA PacketInv == ASSUME DtmfInv, KeyPacket PROVE DtmfInv'
<1> DEFINE n == key.sent + 1
           p == [key |-> key.number, stamp |-> key.stamp, seq |-> key.seq + 1,
                 end |-> n = key.length, duration |-> n % DurMod]
<1>1. /\ key.sent < key.length /\ key' = [key EXCEPT !.sent = n, !.seq = key.seq + 1]
      /\ now' = now + 1 /\ flight' = flight \union {p} /\ UNCHANGED <<det, told, held, first, due>>
  BY DEF KeyPacket
<1>2. /\ key \in [number : Keys \union {0}, length : Nat, sent : Nat, stamp : Nat, seq : Nat]
      /\ now \in Nat \ {0} /\ first \in [Keys -> Nat] /\ \A j \in Keys : first[j] <= now
      /\ key.sent <= key.length /\ key.sent <= key.seq /\ (key.number = 0 => key.length = 0)
      /\ key.number # 0 => key.length \in Lengths /\ key.stamp >= KeyGap
      /\ held \in [Keys -> Nat] /\ (key.number # 0 => held[key.number] = key.length)
  BY DEF DtmfInv, FarEndInv
<1>3. /\ n \in Nat /\ n <= key.length /\ n >= 1 /\ key.number \in Keys /\ key.number # 0
      /\ key.seq \in Nat /\ key.sent \in Nat /\ key.stamp \in Nat /\ key.length \in Nat
  BY <1>1, <1>2
<1>4. /\ key'.number = key.number /\ key'.length = key.length /\ key'.sent = n /\ key'.stamp = key.stamp
      /\ key'.seq = key.seq + 1
      /\ key' \in [number : Keys \union {0}, length : Nat, sent : Nat, stamp : Nat, seq : Nat]
  <2> DEFINE c == [key EXCEPT !.sent = n]
             m == key.seq + 1
  <2>1. m \in Nat /\ n \in Nat /\ key' = [c EXCEPT !.seq = m]  BY <1>1, <1>3
  <2> HIDE DEF n, m, p
  <2>2. c \in [number : Keys \union {0}, length : Nat, sent : Nat, stamp : Nat, seq : Nat]
        /\ c.number = key.number /\ c.length = key.length /\ c.sent = n /\ c.stamp = key.stamp
    BY <1>2, <2>1
  <2> HIDE DEF c
  <2> QED  BY <2>1, <2>2 DEF m
<1>5. Prior' = Prior /\ Prior \in Int  BY <1>3, <1>4 DEF Prior
<1>6. FarEndInv'  BY <1>1, <1>2, <1>3, <1>4 DEF FarEndInv
<1>7. PacketsInv'
  <2>1. PacketsInv  BY DEF DtmfInv
  <2>2. p \in DigitPackets
    <3>1. n <= n /\ n \in Nat  BY <1>3
    <3>2. n % DurMod \in Nat  BY <3>1, TurnsCount
    <3> HIDE DEF n
    <3> QED  BY <1>3, <3>2 DEF DigitPackets
  <2>3. /\ p.key = key.number /\ p.stamp = key.stamp /\ p.seq = key.seq + 1 /\ p.duration = n % DurMod
        /\ p.end <=> n = key.length
    OBVIOUS
  <2>4. p.seq - Prior = n  BY <1>3, <2>3 DEF Prior
  <2>5. n \in 1 .. n  BY <1>3
  <2> HIDE DEF p, n
  <2>6. \A q \in flight : q.seq - Prior \in 1 .. n
    <3>1. \A q \in flight : q.seq - Prior \in 1 .. key.sent  BY <2>1 DEF PacketsInv
    <3> QED  BY <1>3, <3>1 DEF n
  <2> QED  BY <1>1, <1>4, <1>5, <2>1, <2>2, <2>3, <2>4, <2>5, <2>6 DEF PacketsInv
<1>8. StampsInv'
  <2>1. StampsInv /\ det.began \in Nat  BY DEF DtmfInv, StampsInv, DtmfStates
  <2> QED  BY <1>1, <1>2, <1>4, <2>1 DEF StampsInv
<1>9. /\ Own' = Own /\ Heard' = Heard /\ IsTold(key.number)' = IsTold(key.number)
  BY <1>1, <1>4, <1>5 DEF Own, Heard, IsTold
<1>10. OwnInv'
  <2> SUFFICES ASSUME Own PROVE OwnInv'  BY <1>9 DEF OwnInv
  <2>1. /\ Heard \in 1 .. key.sent /\ det.sanity < Heard
        /\ det.current \in {NoKey, key.number}
        /\ first[key.number] \in 1 .. det.began
        /\ det.duration \in {0, Heard % DurMod} /\ det.flip <= Heard - (Heard % DurMod)
    BY DEF DtmfInv, OwnInv
  <2>2. Heard \in 1 .. n  BY <1>3, <2>1
  <2> QED  BY <1>1, <1>4, <1>9, <2>1, <2>2 DEF OwnInv
<1>11. ToldInv'  BY <1>1, <1>4, <1>9 DEF DtmfInv, ToldInv
<1>12. WaitInv'
  <2> SUFFICES ASSUME Own, ~IsTold(key.number) PROVE WaitInv'  BY <1>9 DEF WaitInv
  <2>1. /\ ~det.ignore_duration
        /\ key.length <= MaxDuration =>
             \/ det.current = key.number /\ Heard < key.length
             \/ now - first[key.number] > det.timeout
    BY DEF DtmfInv, WaitInv
  <2>2. first[key.number] \in Nat /\ det.timeout \in Nat
    BY <1>2, <1>3, DtmfConstants DEF DtmfInv, StampsInv, DtmfStates
  <2>3. now - first[key.number] > det.timeout => now' - first[key.number] > det.timeout
    BY <1>1, <1>2, <2>2
  <2> QED  BY <1>1, <1>4, <1>9, <2>1, <2>3 DEF WaitInv
<1>13. AllTold'  BY <1>1, <1>4 DEF DtmfInv, AllTold, InOrder, NoLonger, DueTold
<1> QED  BY <1>6, <1>7, <1>8, <1>10, <1>11, <1>12, <1>13 DEF DtmfInv

LEMMA LostInv == ASSUME DtmfInv, KeyLost PROVE DtmfInv'
<1>1. flight' \subseteq flight /\ UNCHANGED <<key, now, det, told, held, first, due>>  BY DEF KeyLost
<1>2. PacketsInv'  BY <1>1 DEF DtmfInv, PacketsInv, Prior
<1>3. (FarEndInv /\ StampsInv /\ OwnInv /\ ToldInv /\ WaitInv /\ AllTold)'
  BY <1>1 DEF DtmfInv, FarEndInv, StampsInv, OwnInv, ToldInv, WaitInv, AllTold, InOrder,
     NoLonger, DueTold, Own, Heard, Prior, IsTold
<1> QED  BY <1>2, <1>3 DEF DtmfInv

\* What an arrival leaves as it was, and when the digit first arrived.
Arrival(p) ==
    /\ key' = key /\ now' = now /\ held' = held /\ flight' \subseteq flight
    /\ det' = process_rtp(det, p).det /\ told' = told \o process_rtp(det, p).result
    /\ first' = [first EXCEPT ![p.key] = IF @ = 0 THEN now ELSE @]
    /\ due' = IF InTime(p) /\ key.length <= MaxDuration THEN due \union {p.key} ELSE due

LEMMA ArrivalKeeps ==
    ASSUME DtmfInv, NEW p \in flight, Arrival(p)
    PROVE  /\ FarEndInv' /\ PacketsInv' /\ Prior' = Prior
           /\ first'[key.number] \in 1 .. now
           /\ Own => first'[key.number] = first[key.number] /\ first[key.number] \in Nat \ {0}
           /\ p.seq - Prior <= key.sent /\ key.sent \in Nat
<1>1. /\ p.key = key.number /\ key.number \in Keys /\ now \in Nat \ {0}  BY FlightIs
<1>2. first \in [Keys -> Nat] /\ \A k \in Keys : first[k] <= now  BY DEF DtmfInv, FarEndInv
<1>3. /\ first' \in [Keys -> Nat] /\ \A k \in Keys : first'[k] <= now
      /\ first'[key.number] = IF first[key.number] = 0 THEN now ELSE first[key.number]
  BY <1>1, <1>2 DEF Arrival
<1>4. Prior' = Prior  BY DEF Arrival, Prior
<1>5. FarEndInv'  BY <1>1, <1>3 DEF DtmfInv, FarEndInv, Arrival
<1>6. PacketsInv'  BY <1>4 DEF DtmfInv, PacketsInv, Arrival
<1>7. Own => first[key.number] \in Nat \ {0}
  <2>1. Own => first[key.number] >= 1  BY DEF DtmfInv, OwnInv
  <2>2. first[key.number] \in Nat  BY <1>1, <1>2
  <2> QED  BY <2>1, <2>2
<1>8. p.seq - Prior <= key.sent /\ key.sent \in Nat  BY DEF DtmfInv, PacketsInv, FarEndInv
<1> QED  BY <1>1, <1>2, <1>3, <1>4, <1>5, <1>6, <1>7, <1>8

\* The END of a digit that is not given up is dropped only when the digit was told.
LEMMA DroppedInv ==
    ASSUME DtmfInv, NEW p \in flight, Arrival(p), DroppedPacket(process_rtp(det, p), p)
    PROVE  DtmfInv'
<1>1. UNCHANGED <<key, now, held, det, told>>
  <2>1. told \o <<>> = told  BY DEF DtmfInv, ToldInv
  <2> QED  BY <2>1 DEF Arrival, DroppedPacket, Only
<1>2. /\ FarEndInv' /\ PacketsInv' /\ Prior' = Prior
      /\ Own => first'[key.number] = first[key.number] /\ first[key.number] \in Nat \ {0}
  BY ArrivalKeeps
<1>3. /\ p.key = key.number /\ p.stamp = key.stamp /\ key.stamp \in Nat \ {0} /\ p.end \in BOOLEAN
      /\ p.seq \in Nat /\ Prior \in Nat /\ (p.end <=> p.seq - Prior = key.length) /\ key.length \in Nat
      /\ key.number # NoKey /\ det \in DtmfStates /\ now \in Nat
  BY FlightIs
<1>4. Own' = Own /\ Heard' = Heard /\ IsTold(key.number)' = IsTold(key.number)
  BY <1>1, <1>2 DEF Own, Heard, IsTold
<1>5. StampsInv' /\ ToldInv'  BY <1>1, <1>4 DEF DtmfInv, StampsInv, ToldInv
<1>6. OwnInv'  BY <1>1, <1>2, <1>4 DEF DtmfInv, OwnInv
<1>7. WaitInv'  BY <1>1, <1>2, <1>4 DEF DtmfInv, WaitInv
<1>8. ASSUME InTime(p), key.length <= MaxDuration PROVE IsTold(key.number)
  <2>1. p.end  BY <1>8 DEF InTime
  <2>2. ~Overlaps(det, p)
    <3>1. det.endStamp = key.stamp \/ det.endStamp + KeyGap <= key.stamp
      BY DEF DtmfInv, StampsInv
    <3>2. det.endStamp \in Nat  BY <1>3 DEF DtmfStates
    <3>3. p.stamp - det.endStamp \notin 1 .. KeyGap - 1  BY <1>3, <3>1, <3>2, DtmfConstants
    <3> QED  BY <2>1, <3>3 DEF Overlaps
  <2>3. det.prev # 0 /\ Own /\ p.seq <= det.prev
    BY <1>3, <2>2 DEF DroppedPacket, OutOfOrder, DtmfInv, StampsInv, Own, NoKey
  <2>4. Heard >= key.length  BY <1>3, <2>1, <2>3 DEF Heard, DtmfStates
  <2>5. SUFFICES ASSUME ~IsTold(key.number) PROVE FALSE  OBVIOUS
  <2>6. now - first[key.number] > det.timeout
    <3>1. Heard \in Int  BY <1>3 DEF Heard, DtmfStates
    <3> QED  BY <1>3, <1>8, <2>3, <2>4, <2>5, <3>1 DEF DtmfInv, WaitInv
  <2>7. first[key.number] \in Nat \ {0} /\ now - first[key.number] <= det.timeout
    BY <1>2, <1>3, <1>8, <2>3 DEF InTime
  <2>8. det.timeout \in Nat  BY <1>3, DtmfConstants DEF DtmfStates
  <2> QED  BY <1>3, <2>6, <2>7, <2>8
<1>9. AllTold'
  <2>1. due' \subseteq due \union {key.number} /\ (key.number \in due' \ due => IsTold(key.number))
    BY <1>3, <1>8 DEF Arrival
  <2> QED  BY <1>1, <2>1 DEF DtmfInv, AllTold, InOrder,
       NoLonger, DueTold, IsTold
<1> QED  BY <1>2, <1>5, <1>6, <1>7, <1>9 DEF DtmfInv

\* Only a digit that lasts too long resets the detector.
LEMMA ResetInv ==
    ASSUME DtmfInv, NEW p \in flight, Arrival(p), ResetBy(process_rtp(det, p))
    PROVE  DtmfInv'
<1>1. UNCHANGED <<key, now, held, told, due>>
  <2>1. told \o <<>> = told  BY DEF DtmfInv, ToldInv
  <2>2. key.length \in Nat  BY FlightIs
  <2>3. ~(key.length <= MaxDuration)  BY <2>2, DtmfConstants DEF ResetBy
  <2> QED  BY <2>1, <2>3 DEF Arrival, ResetBy
<1>2. FarEndInv' /\ PacketsInv'  BY ArrivalKeeps
<1>3. /\ det' \in DtmfStates /\ det'.stamp = 0 /\ det'.digitStamp = 0 /\ det'.endStamp = 0 /\ det'.began = 0
      /\ ~IsTold(key.number)
  BY DEF Arrival, ResetBy, Blank
<1>4. key.stamp \in Nat \ {0} /\ key.stamp >= KeyGap /\ now \in Nat /\ KeyGap \in Nat
  BY FlightIs, DtmfConstants
<1>5. StampsInv'  BY <1>1, <1>3, <1>4 DEF StampsInv
<1>6. ~Own' /\ ~IsTold(key.number)'  BY <1>1, <1>3, <1>4 DEF Own, IsTold
<1>7. ToldInv'  BY <1>1, <1>6 DEF DtmfInv, ToldInv
<1>8. AllTold'  BY <1>1 DEF DtmfInv, AllTold, InOrder, NoLonger, DueTold
<1> QED  BY <1>2, <1>5, <1>6, <1>7, <1>8 DEF DtmfInv, OwnInv, WaitInv

\* What the detector remembers of the digit after a packet of it.
LEMMA MovesKeep ==
    ASSUME DtmfInv, NEW p \in flight, Arrival(p), Moves(process_rtp(det, p).det, p)
    PROVE  /\ FarEndInv' /\ PacketsInv' /\ StampsInv' /\ OwnInv' /\ Own' /\ Heard' = p.seq - Prior
<1> DEFINE x == det'
           n == p.seq - Prior
<1>1. /\ x \in DtmfStates /\ x.prev = p.seq /\ x.stamp = key.stamp /\ x.digitStamp = key.stamp
      /\ x.timeout = det.timeout /\ x.ignore_duration = det.ignore_duration
      /\ x.current \in {NoKey, key.number} /\ x.endStamp \in {det.endStamp, det.digitStamp, key.stamp}
      /\ x.began = (IF Own THEN det.began ELSE now) /\ x.sanity < n
      /\ x.duration \in {0, p.duration} /\ x.flip <= n - p.duration
  BY DEF Moves, Arrival
<1>2. /\ FarEndInv' /\ PacketsInv' /\ Prior' = Prior /\ first'[key.number] \in 1 .. now
      /\ Own => first'[key.number] = first[key.number]
      /\ n <= key.sent /\ key.sent \in Nat /\ UNCHANGED <<key, now>>
  BY ArrivalKeeps DEF Arrival
<1>3. /\ key.number # NoKey /\ n >= 1 /\ n \in Nat /\ p.duration = n % DurMod /\ now \in Nat \ {0}
  BY FlightIs
<1>4. det.began <= now /\ \A y \in {det.digitStamp, det.endStamp} : y = key.stamp \/ y + KeyGap <= key.stamp
  BY DEF DtmfInv, StampsInv
<1>5. Own' /\ Heard' = n  BY <1>1, <1>2, <1>3 DEF Own, Heard, NoKey
<1>6. x.began <= now
  BY <1>1, <1>3, <1>4
<1>7. StampsInv'  BY <1>1, <1>2, <1>4, <1>6 DEF StampsInv
<1>8. first'[key.number] \in 1 .. x.began
  <2>1. CASE Own  BY <1>1, <1>2, <2>1 DEF DtmfInv, OwnInv
  <2>2. CASE ~Own  BY <1>1, <1>2, <2>2
  <2> QED  BY <2>1, <2>2
<1> HIDE DEF n
<1>9. n \in 1 .. key.sent  BY <1>2, <1>3
<1>10. OwnInv'
  BY <1>1, <1>2, <1>3, <1>5, <1>8, <1>9 DEF OwnInv
<1> QED  BY <1>2, <1>5, <1>7, <1>10 DEF n

LEMMA CountedInv ==
    ASSUME DtmfInv, NEW p \in flight, Arrival(p), CountedIn(process_rtp(det, p), p)
    PROVE  DtmfInv'
<1> DEFINE k == key.number
<1>1. /\ FarEndInv' /\ PacketsInv' /\ StampsInv' /\ OwnInv' /\ Own' /\ Heard' = p.seq - Prior
  BY MovesKeep DEF CountedIn
<1>2. UNCHANGED <<key, now, held, told>>
  <2>1. told \o <<>> = told  BY DEF DtmfInv, ToldInv
  <2> QED  BY <2>1 DEF Arrival, CountedIn
<1>3. /\ ~Own => ~det.ignore_duration
      /\ det'.current # NoKey => ~p.end
      /\ det'.current = NoKey => \/ p.end /\ key.length > MaxDuration
                                 \/ Own /\ (det.current = NoKey \/ now - det.began > det.timeout)
      /\ IsTold(k) => p.end /\ det'.current = NoKey /\ det'.endStamp = key.stamp
      /\ det'.timeout = det.timeout /\ det'.ignore_duration = det.ignore_duration
      /\ det'.current \in {NoKey, k}
  BY DEF Arrival, CountedIn, Moves
<1>4. /\ p.key = k /\ k # NoKey /\ p.end \in BOOLEAN /\ (p.end <=> p.seq - Prior = key.length)
      /\ p.seq - Prior \in 1 .. key.length /\ key.length \in Nat /\ now \in Nat \ {0} /\ det \in DtmfStates
  BY FlightIs
<1>5. /\ Own => first'[k] = first[k] /\ first[k] \in Nat \ {0}
  BY ArrivalKeeps
<1>6. IsTold(k)' = IsTold(k)  BY <1>2 DEF IsTold
<1>7. ToldInv'  BY <1>1, <1>2, <1>3, <1>4, <1>6 DEF DtmfInv, ToldInv
<1>8. ASSUME ~IsTold(k), key.length <= MaxDuration, det'.current = NoKey
      PROVE  Own /\ now - first[k] > det.timeout
  <2>1. Own /\ (det.current = NoKey \/ now - det.began > det.timeout)
    BY <1>3, <1>4, <1>8, DtmfConstants
  <2>2. CASE det.current = NoKey
    BY <1>4, <1>8, <2>1, <2>2 DEF DtmfInv, WaitInv
  <2>3. CASE now - det.began > det.timeout
    <3>1. first[k] <= det.began /\ det.began \in Nat /\ det.timeout \in Nat
      <4>1. first[k] \in 1 .. det.began  BY <2>1 DEF DtmfInv, OwnInv
      <4>2. det.began \in Nat /\ det.timeout \in Nat  BY <1>4, DtmfConstants DEF DtmfStates
      <4> QED  BY <4>1, <4>2
    <3>2. first[k] \in Nat  BY <1>5, <2>1
    <3> HIDE DEF k
    <3> QED  BY <1>4, <2>1, <2>3, <3>1, <3>2
  <2> QED  BY <2>1, <2>2, <2>3
<1>9. WaitInv'
  <2> SUFFICES ASSUME ~IsTold(k) PROVE WaitInv'  BY <1>2, <1>6 DEF WaitInv
  <2>1. ~det.ignore_duration  BY <1>3 DEF DtmfInv, WaitInv
  <2>2. CASE det'.current = NoKey
    <3>1. key.length <= MaxDuration => now - first'[k] > det.timeout  BY <1>5, <1>8, <2>2
    <3> QED  BY <1>2, <1>3, <2>1, <3>1 DEF WaitInv
  <2>3. CASE det'.current # NoKey
    <3>1. det'.current = k /\ Heard' < key.length  BY <1>1, <1>3, <1>4, <2>3
    <3> QED  BY <1>2, <1>3, <2>1, <3>1 DEF WaitInv
  <2> QED  BY <2>2, <2>3
<1>10. ASSUME InTime(p), key.length <= MaxDuration PROVE IsTold(k)
  <2>1. SUFFICES ASSUME ~IsTold(k) PROVE FALSE  OBVIOUS
  <2>2. p.end /\ (first[k] = 0 \/ now - first[k] <= det.timeout)  BY <1>4, <1>10 DEF InTime
  <2>3. det'.current = NoKey  BY <1>3, <2>2
  <2>4. Own /\ now - first[k] > det.timeout  BY <1>8, <1>10, <2>1, <2>3
  <2>5. first[k] \in Nat \ {0} /\ det.timeout \in Nat  BY <1>4, <1>5, <2>4, DtmfConstants DEF DtmfStates
  <2> HIDE DEF k
  <2> QED  BY <1>4, <2>2, <2>4, <2>5
<1>11. AllTold'
  <2>1. due' \subseteq due \union {k} /\ (k \in due' \ due => IsTold(k))  BY <1>4, <1>10 DEF Arrival
  <2> QED  BY <1>2, <2>1 DEF DtmfInv, AllTold, InOrder,
       NoLonger, DueTold, IsTold
<1> QED  BY <1>1, <1>7, <1>9, <1>11 DEF DtmfInv

LEMMA ReportedInv ==
    ASSUME DtmfInv, NEW p \in flight, Arrival(p), ReportedBy(process_rtp(det, p), p)
    PROVE  DtmfInv'
<1> DEFINE k == key.number
<1>1. /\ FarEndInv' /\ PacketsInv' /\ StampsInv' /\ OwnInv' /\ Own' /\ Heard' = p.seq - Prior
  BY MovesKeep DEF ReportedBy
<1>2. UNCHANGED <<key, now, held>>  BY DEF Arrival
<1>3. PICK u \in Nat : /\ u <= Atleast(key.length, MinDuration)
                       /\ told' = told \o <<[key |-> k, duration |-> u]>>
  BY DEF Arrival, ReportedBy
<1>4. /\ ~IsTold(k) /\ det'.current = NoKey /\ det'.endStamp = key.stamp
      /\ p.end \/ (det'.duration = 0 /\ det'.flip = 0 /\ det'.sanity = 0)
  BY DEF Arrival, ReportedBy
<1>5. /\ p.key = k /\ k \in Keys /\ (p.end <=> p.seq - Prior = key.length)
  BY FlightIs
<1>6. told \in Seq(Reports) /\ \A i \in DOMAIN told : told[i].key <= k  BY DEF DtmfInv, ToldInv
<1> DEFINE n == Len(told)
           new == [key |-> k, duration |-> u]
<1>7. /\ told' \in Seq(Reports) /\ n \in Nat /\ DOMAIN told = 1 .. n /\ DOMAIN told' = 1 .. n + 1
      /\ told'[n + 1] = new /\ \A i \in 1 .. n : told'[i] = told[i]
  <2>1. new \in Reports  BY <1>3, <1>5 DEF Reports
  <2> HIDE DEF new
  <2> QED  BY <1>3, <1>6, <2>1 DEF new
<1>8. new.key = k /\ new.duration = u  OBVIOUS
<1> HIDE DEF n, new
<1>9. \A i \in DOMAIN told : told[i].key \in Nat /\ told[i].key < k
  <2> TAKE i \in DOMAIN told
  <2> DEFINE j == told[i].key
  <2>1. j \in Nat /\ j <= k /\ j # k /\ k \in Nat
    <3>1. told[i] \in Reports  BY <1>6
    <3> QED  BY <1>4, <1>5, <1>6, <3>1, DtmfConstants DEF Reports, Keys, IsTold
  <2> HIDE DEF j, k
  <2>2. j < k  BY <2>1
  <2> QED  BY <2>1, <2>2 DEF j
<1>10. k \in Nat  BY <1>5, DtmfConstants DEF Keys
<1>11. IsTold(k)'
  <2>1. n + 1 \in DOMAIN told' /\ told'[n + 1].key = k  BY <1>7, <1>8
  <2> QED  BY <1>2, <2>1 DEF IsTold
<1>12. \A i \in DOMAIN told' : told'[i].key <= k
  <2> TAKE i \in DOMAIN told'
  <2>1. CASE i \in 1 .. n  BY <1>6, <1>7, <2>1
  <2>2. CASE i = n + 1  BY <1>7, <1>8, <1>10, <2>2
  <2> QED  BY <1>7, <2>1, <2>2
<1>13. ToldInv'
  <2>1. Heard' = key.length \/ (det'.duration = 0 /\ det'.flip = 0 /\ det'.sanity = 0)
    BY <1>1, <1>4, <1>5
  <2> QED  BY <1>1, <1>2, <1>4, <1>7, <1>12, <2>1 DEF ToldInv
<1>14. WaitInv'  BY <1>2, <1>11 DEF WaitInv
<1>15. AllTold'
  <2>0. AllTold  BY DEF DtmfInv
  <2>1. \A i, j \in DOMAIN told' : i < j => told'[i].key < told'[j].key
    <3> SUFFICES ASSUME NEW i \in DOMAIN told', NEW j \in DOMAIN told', i < j
                 PROVE  told'[i].key < told'[j].key
      OBVIOUS
    <3>1. i \in 1 .. n  BY <1>7
    <3>2. CASE j \in 1 .. n  BY <1>7, <2>0, <3>1, <3>2 DEF AllTold, InOrder
    <3>3. CASE j = n + 1  BY <1>7, <1>8, <1>9, <3>1, <3>3
    <3> QED  BY <1>7, <3>2, <3>3
  <2>2. \A i \in DOMAIN told' : told'[i].duration <= Atleast(held[told'[i].key], MinDuration)
    <3> TAKE i \in DOMAIN told'
    <3>1. CASE i \in 1 .. n  BY <1>7, <2>0, <3>1 DEF AllTold, NoLonger
    <3>2. CASE i = n + 1
      <4>1. held[k] = key.length  BY FlightIs
      <4> QED  BY <1>3, <1>7, <1>8, <3>2, <4>1
    <3> QED  BY <1>7, <3>1, <3>2
  <2>3. \A c \in due' : \E i \in DOMAIN told' : told'[i].key = c
    <3> SUFFICES ASSUME NEW c \in due' PROVE \E i \in DOMAIN told' : told'[i].key = c
      OBVIOUS
    <3>1. CASE c = k  BY <1>2, <1>11, <3>1 DEF IsTold
    <3>2. CASE c \in due
      <4>1. PICK i \in DOMAIN told : told[i].key = c  BY <2>0, <3>2 DEF AllTold, DueTold
      <4>2. i \in DOMAIN told' /\ told'[i].key = c  BY <1>7, <4>1
      <4> QED  BY <4>2
    <3>3. c \in due \union {k}  BY <1>5 DEF Arrival
    <3> QED  BY <3>1, <3>2, <3>3
  <2> QED  BY <1>2, <2>1, <2>2, <2>3 DEF AllTold, InOrder, NoLonger, DueTold
<1> QED  BY <1>1, <1>13, <1>14, <1>15 DEF DtmfInv

\* While the network holds packets of one digit at a time, whatever packets of a digit are
\* lost, repeated and out of order, and however the 16-bit duration wraps, the engine is
\* told of the digit at most once, after those before it and for no longer than it was
\* pressed; one whose END arrives in time is told.  (A packet of a digit that arrives
\* after one of the next can be taken for a digit of its own: NotToldAgain.)
THEOREM ToldOnceHolds == DtmfSpec /\ []Apart => []ToldOnce
<1>1. DtmfInv /\ Apart' /\ [DtmfNext]_dtmfVars => DtmfInv'
  <2> SUFFICES ASSUME DtmfInv, Apart', [DtmfNext]_dtmfVars PROVE DtmfInv'  OBVIOUS
  <2>1. ASSUME NEW length \in Lengths, KeyPressed(length) PROVE DtmfInv'  BY <2>1, PressedInv
  <2>2. CASE KeyPacket  BY <2>2, PacketInv
  <2>3. CASE KeyLost  BY <2>3, LostInv
  <2>4. CASE KeyArrives
    <3>1. PICK p \in flight : Arrival(p)
      <4>1. \A p \in flight : held[p.key] = key.length  BY FlightIs
      <4> QED  BY <2>4, <4>1 DEF KeyArrives, Arrival
    <3>2. LET r == process_rtp(det, p)
          IN  DroppedPacket(r, p) \/ ResetBy(r) \/ CountedIn(r, p) \/ ReportedBy(r, p)
      BY <3>1, OutcomeIs
    <3> QED  BY <3>1, <3>2, DroppedInv, ResetInv, CountedInv, ReportedInv
  <2>5. CASE UNCHANGED dtmfVars
    BY <2>5 DEF dtmfVars, DtmfInv, FarEndInv, PacketsInv, StampsInv, OwnInv, ToldInv, WaitInv,
       AllTold, InOrder, NoLonger, DueTold, Own, Heard, Prior, IsTold
  <2> QED  BY <2>1, <2>2, <2>3, <2>4, <2>5 DEF DtmfNext
<1>2. DtmfInv => ToldOnce  BY DEF DtmfInv, AllTold, ToldOnce
<1> QED  BY <1>1, <1>2, DtmfInitial, PTL DEF DtmfSpec
=============================================================================

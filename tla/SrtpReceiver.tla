---------------------------- MODULE SrtpReceiver ----------------------------
(***************************************************************************)
(* An SRTP receive context (rtp/srtp.rs) at the end of a network that      *)
(* loses, duplicates, delays and corrupts packets, from a far end that may *)
(* restart its stream with another SSRC; and the SRTCP half of the context *)
(* with the sender of its 31-bit indices.                                  *)
(***************************************************************************)
EXTENDS SrtpContext

CONSTANTS
    Ssrcs,      \* SSRCs of the far end, one after the other
    FirstSeqs,  \* sequence numbers its streams begin with
    MaxIndex,   \* bound: the last index it sends, at most the last there is
    MaxRtcp     \* bound: SRTCP packets it sends (TLC)

ASSUME ReceiverAssumption ==
    /\ FirstSeqs \subseteq SeqNums /\ {MaxIndex, MaxRtcp} \subseteq Nat
    /\ MaxIndex < RocMod * WireMod

VARIABLES
    far,        \* of each SSRC the first and the last index sent, an empty range before
    rcv,        \* the RTP receive state of the context
    accepted,   \* indices taken since the stream began (history)
    rtcpSent,   \* srtcp_index of the far end's context
    rtcp,       \* SRTCP receive state
    rtcpTaken   \* SRTCP indices taken (history)

rtpVars == <<far, rcv, accepted>>
rtcpVars == <<rtcpSent, rtcp, rtcpTaken>>
srtpVars == <<far, rcv, accepted, rtcpSent, rtcp, rtcpTaken>>

SrtpInit ==
    /\ far = [s \in Ssrcs |-> [first |-> 0, last |-> -1]]
    /\ rcv = NewReceiver /\ accepted = {}
    /\ rtcpSent = 0 /\ rtcp = [window |-> NewWindow, started |-> FALSE] /\ rtcpTaken = {}

FarBegins(ssrc) ==
    /\ far[ssrc].last = -1
    /\ \E seq \in FirstSeqs : far' = [far EXCEPT ![ssrc] = [first |-> seq, last |-> seq]]
    /\ UNCHANGED <<rcv, accepted, rtcpVars>>

FarSends(ssrc) ==
    /\ far[ssrc].last \in 0 .. MaxIndex - 1
    /\ far' = [far EXCEPT ![ssrc].last = @ + 1]
    /\ UNCHANGED <<rcv, accepted, rtcpVars>>

\* A packet arrives: unprotect_rtp.
Arrives(ssrc, seq, roc, parses) ==
    /\ rcv' = Unprotected(rcv, ssrc, seq, roc, parses)
    /\ accepted' = IF ~Takes(rcv, ssrc, seq, roc) THEN accepted
                   ELSE IF SsrcChanged(rcv, ssrc) THEN {Index(roc, seq)}
                   ELSE accepted \union {Index(roc, seq)}
    /\ UNCHANGED <<far, rtcpVars>>

\* Any packet that was sent, any number of times, or a corrupted one.
Network(ssrc) == \E i \in far[ssrc].first .. far[ssrc].last, parses \in BOOLEAN :
    \/ Arrives(ssrc, WireSeq(i), RocOf(i), parses)
    \/ Arrives(ssrc, WireSeq(i), Forged, parses)

\* protect_rtcp of the far end: an error when the indices are used up.
RtcpSends ==
    /\ rtcpSent < RtcpMod /\ rtcpSent < MaxRtcp
    /\ rtcpSent' = rtcpSent + 1
    /\ UNCHANGED <<rtpVars, rtcp, rtcpTaken>>

\* unprotect_rtcp of an authentic packet.
RtcpArrives == \E i \in 0 .. rtcpSent - 1 :
    /\ rtcp.started => Free(rtcp.window, RtcpWindow, i)
    /\ rtcp' = [window |-> Marked(rtcp.window, RtcpWindow, i), started |-> TRUE]
    /\ rtcpTaken' = rtcpTaken \union {i}
    /\ UNCHANGED <<rtpVars, rtcpSent>>

RtpNext == \E ssrc \in Ssrcs : FarBegins(ssrc) \/ FarSends(ssrc) \/ Network(ssrc)
RtcpNext == RtcpSends \/ RtcpArrives
SrtpNext == RtpNext \/ RtcpNext

SrtpSpec == SrtpInit /\ [][SrtpNext]_srtpVars

----------------------------------------------------------------------------
(* Properties.                                                             *)

Windows == [base : Nat, bits : SUBSET Nat]

SrtpTypeOK ==
    /\ rcv \in [roc : Nat, s_l : Nat, started : BOOLEAN, window : Windows,
                ssrc : Ssrcs \union {Nobody}, errors : Nat]
    /\ rtcp \in [window : Windows, started : BOOLEAN]
    /\ accepted \subseteq Nat /\ rtcpTaken \subseteq Nat
    /\ rtcpSent \in Nat /\ far \in [Ssrcs -> [first : Nat, last : Int]]

RtpReplay == INSTANCE ReplayProtection WITH Window <- RtpWindow, delivered <- accepted
RtcpReplay == INSTANCE ReplayProtection WITH Window <- RtcpWindow, delivered <- rtcpTaken

\* However packets are lost, repeated and reordered, around every wrap of the
\* sequence number and every change of SSRC, the context implements replay
\* protection for RTP (unprotect_rtp with its bitmap) and for SRTCP.
NoReplay == RtpReplay!Spec /\ RtcpReplay!Spec

\* While the receiver is not half the sequence space away from what is sent, it
\* computes the right ROC for every packet of its stream, an early one as well as
\* a late one on the other side of a wrap (estimate_roc): a genuine packet is not
\* taken for a forged one.
RocFollows ==
    rcv.started => \A i \in far[rcv.ssrc].first .. far[rcv.ssrc].last :
        LET ahead == i - Index(rcv.roc, rcv.s_l)
        IN  (ahead < Half /\ -ahead < Half) => EstimateRoc(rcv, WireSeq(i)) = RocOf(i)
=============================================================================

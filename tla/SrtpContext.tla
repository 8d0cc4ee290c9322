---------------------------- MODULE SrtpContext ----------------------------
(***************************************************************************)
(* The two halves of an SRTP context (rtp/srtp.rs) as operators on         *)
(* records: the send side numbers the packets it protects, the receive     *)
(* side estimates the number of a packet from its 16-bit sequence number   *)
(* and rejects replays with a sliding window.  Encryption is abstracted: a *)
(* packet is authentic exactly when the receiver computes its tag with the *)
(* rollover counter (ROC) the sender used.                                 *)
(***************************************************************************)
EXTENDS Integers

CONSTANTS
    WireMod,     \* sequence numbers are u16: 2^16
    RocMod,      \* rollover counters are u32: 2^32
    KeyLifetime, \* KEY_LIFETIME_MAX, packets (2^48)
    RtpWindow,   \* packets of the RTP replay window (128)
    RtcpWindow,  \* of the SRTCP replay window (64)
    RtcpMod,     \* SRTCP indices have 31 bits: 2^31
    ErrorReset   \* SRTP_RESET_THRESHOLD (100)

ASSUME SrtpAssumption ==
    /\ {WireMod, RocMod, KeyLifetime, RtpWindow, RtcpWindow, RtcpMod, ErrorReset} \subseteq Nat \ {0}
    /\ WireMod % 2 = 0

Half == WireMod \div 2
SeqNums == 0 .. WireMod - 1
Index(roc, seq) == roc * WireMod + seq
WireSeq(index) == index % WireMod
RocOf(index) == index \div WireMod

----------------------------------------------------------------------------
(* The send side.                                                          *)

NewSender == [counter |-> 0, started |-> FALSE, last |-> 0, packets |-> 0]

\* The counter after a packet of this sequence number: a gap of more than half
\* the space, downwards, is a wrap.
Counted(c, seq) ==
    IF ~c.started THEN seq
    ELSE IF WireSeq(c.counter) - seq > Half THEN Index(RocOf(c.counter) + 1, seq)
    ELSE Index(RocOf(c.counter), seq)

IndexOf(c, seq) == Counted(c, seq) % (RocMod * WireMod)

MutantProtects(c, seq) == c.packets < KeyLifetime
Protects(c, seq) ==
    /\ c.packets < KeyLifetime
    /\ c.packets > 0 => IndexOf(c, seq) > c.last

\* protect_rtp.  (The counter moves although the packet is refused.)
Protected(c, seq) ==
    IF c.packets >= KeyLifetime THEN c
    ELSE LET moved == [c EXCEPT !.counter = Counted(c, seq), !.started = TRUE]
         IN  IF Protects(c, seq)
             THEN [moved EXCEPT !.last = IndexOf(c, seq), !.packets = @ + 1]
             ELSE moved

----------------------------------------------------------------------------
(* Replay windows: the highest index, and the set bits of the bitmap.      *)

NewWindow == [base |-> 0, bits |-> {}]

\* check_replay, check_srtcp_replay.
MutantFree(w, size, index) == index > w.base \/ w.base - index \notin w.bits
Free(w, size, index) ==
    index > w.base \/ (w.base - index < size /\ w.base - index \notin w.bits)

\* accept_replay, accept_srtcp_replay.
Marked(w, size, index) ==
    IF index > w.base
    THEN [base |-> index,
          bits |-> {0} \union {d \in 0 .. size - 1 : d - (index - w.base) \in w.bits}]
    ELSE [w EXCEPT !.bits = @ \union ({w.base - index} \intersect 0 .. size - 1)]

----------------------------------------------------------------------------
(* The receive side.                                                       *)

Nobody == "nobody"
Forged == -1   \* the ROC of a packet whose tag no ROC explains

NewReceiver == [roc |-> 0, s_l |-> 0, started |-> FALSE, window |-> NewWindow,
                ssrc |-> Nobody, errors |-> 0]

\* estimate_roc.
MutantEstimateRoc(c, seq) ==
    IF ~c.started THEN 0
    ELSE IF c.s_l - seq > Half THEN (c.roc + 1) % RocMod
    ELSE c.roc
EstimateRoc(c, seq) ==
    IF ~c.started THEN 0
    ELSE IF seq - c.s_l > Half THEN (c.roc + RocMod - 1) % RocMod
    ELSE IF c.s_l - seq > Half THEN (c.roc + 1) % RocMod
    ELSE c.roc

\* update_roc_recv.
Followed(c, roc, seq) ==
    IF ~c.started \/ Index(roc, seq) > Index(c.roc, c.s_l)
    THEN [c EXCEPT !.roc = roc, !.s_l = seq, !.started = TRUE]
    ELSE c

\* handle_unprotect_error.
Erred(c) == [c EXCEPT !.errors = IF @ + 1 >= ErrorReset THEN 0 ELSE @ + 1]

SsrcChanged(c, ssrc) == c.ssrc \notin {Nobody, ssrc}

\* The replay check of unprotect_rtp, skipped on the first packet and when the
\* SSRC has changed.
IsReplay(c, ssrc, seq) ==
    /\ c.started /\ ~SsrcChanged(c, ssrc)
    /\ ~Free(c.window, RtpWindow, Index(EstimateRoc(c, seq), seq))

\* The ROC the tag is found right with: the estimate, or 0 after an SSRC change.
Authentic(c, ssrc, seq, roc) ==
    roc = EstimateRoc(c, seq) \/ (SsrcChanged(c, ssrc) /\ roc = 0)

Takes(c, ssrc, seq, roc) == ~IsReplay(c, ssrc, seq) /\ Authentic(c, ssrc, seq, roc)

ForSsrc(c, ssrc) ==
    IF SsrcChanged(c, ssrc) THEN [NewReceiver EXCEPT !.ssrc = ssrc, !.errors = c.errors]
    ELSE [c EXCEPT !.ssrc = ssrc]

\* unprotect_rtp: the context after a packet of this SSRC and sequence number,
\* whose tag was computed with roc.  The errors are forgotten when the header can
\* be parsed.
Unprotected(c, ssrc, seq, roc, parses) ==
    IF IsReplay(c, ssrc, seq) THEN c
    ELSE IF ~Takes(c, ssrc, seq, roc) THEN Erred(c)
    ELSE LET f == Followed(ForSsrc(c, ssrc), roc, seq)
         IN  [f EXCEPT !.window = Marked(@, RtpWindow, Index(roc, seq)),
                       !.errors = IF parses THEN 0 ELSE @]
=============================================================================

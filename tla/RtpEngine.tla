----------------------------- MODULE RtpEngine ------------------------------
(***************************************************************************)
(* The receive side of the RTP engine (rtp/engine.rs): the loop that       *)
(* start() spawns and stop() ends, the checks a packet passes on its way   *)
(* to the jitter buffer, the timestamp normalizer in front of it, and the  *)
(* media timeout.  The jitter buffer itself is JitterBuffer, the learning  *)
(* of the remote address SymmetricRtp, decryption SrtpReceiver.            *)
(***************************************************************************)
EXTENDS Integers

CONSTANTS
    StampMod,      \* 2^32
    MaxDelta,      \* five seconds of samples
    Samples,       \* samples per packet
    RemoteSsrcs,   \* SSRCs of the far end
    Loops,         \* receive loops: one for each start()
    MediaTimeout, HoldTimeout,   \* media_timeout_ms, hold_media_timeout_ms
    MaxStamps      \* bound: packets normalized (TLC)

ASSUME RtpEngineAssumption ==
    /\ {StampMod, MaxDelta, Samples, MediaTimeout, HoldTimeout, MaxStamps} \subseteq Nat
    /\ 2 * MaxDelta < StampMod /\ Samples <= MaxDelta

VARIABLES
    norm,     \* timestamp_normalizer
    played,   \* the normalized timestamp of the last packet of this stream (history)
    engine,   \* running, remote_ssrc, is_on_hold, timeout_fired, last_rtp_received (ticks ago)
    loops,    \* where each receive loop is: not started, in recv, ended
    timeouts,     \* media timeouts told since the last packet (history)
    stamps    \* packets normalized (bounds TLC)

engineVars == <<norm, played, engine, loops, timeouts, stamps>>

Stamps == 0 .. StampMod - 1
NewNormalizer == [mapped |-> FALSE, offset |-> 0, last |-> 0, local |-> 0]
Wrap(x) == x % StampMod

\* normalize: any step back of less than five seconds, and any step ahead of more.
Discontinuous(n, ts) ==
    LET fwd == Wrap(ts - n.last)   bwd == Wrap(n.last - ts)
    IN  n.mapped /\ (IF bwd < MaxDelta /\ bwd < fwd THEN TRUE ELSE fwd > MaxDelta)

\* A bug that would pass the tests: the offset is taken from the last timestamp.
MutantRemapped(n, ts) ==
    LET local == Wrap(n.last + n.offset)
    IN  [n EXCEPT !.local = local, !.offset = local - n.last]

Remapped(n, ts) ==
    LET local == Wrap(Wrap(n.last + n.offset) + Samples)
    IN  [n EXCEPT !.local = local, !.offset = local - ts]

Normalized(n, ts) ==
    IF ~n.mapped THEN [n EXCEPT !.mapped = TRUE, !.offset = n.local - ts, !.last = ts]
    ELSE [(IF Discontinuous(n, ts) THEN Remapped(n, ts) ELSE n) EXCEPT !.last = ts]

NewEngine == [running |-> FALSE, ssrc |-> {}, hold |-> FALSE, fired |-> FALSE, quiet |-> {}]

RtpEngineInit ==
    /\ norm = NewNormalizer /\ played = {} /\ engine = NewEngine
    /\ loops = [l \in Loops |-> "none"] /\ timeouts = 0 /\ stamps = 0

\* start: the flag is swapped, so that a second start finds the engine started.
Start(l) ==
    /\ ~engine.running /\ loops[l] = "none"
    /\ engine' = [engine EXCEPT !.running = TRUE]
    /\ loops' = [loops EXCEPT ![l] = "recv"]
    /\ UNCHANGED <<norm, played, timeouts, stamps>>

\* stop: BYE, the flag, the port; a loop sees the flag when its recv returns.
StopEngine ==
    /\ engine' = [engine EXCEPT !.running = FALSE]
    /\ UNCHANGED <<norm, played, loops, timeouts, stamps>>

SetHoldState(on) ==
    /\ engine' = [engine EXCEPT !.hold = on]
    /\ UNCHANGED <<norm, played, loops, timeouts, stamps>>

\* The loop comes round and looks at the flag.
Around(l) == loops' = [loops EXCEPT ![l] = IF engine.running THEN "recv" ELSE "done"]

\* A packet too short, from another source, refused by SRTP, with our own SSRC, or RTCP.
ArrivesRefused(l) ==
    /\ loops[l] = "recv" /\ Around(l)
    /\ UNCHANGED <<norm, played, engine, timeouts, stamps>>

\* A packet of the stream: last_rtp_received, timeout_fired, and on a new SSRC
\* reset_stream_state.  A DTMF or comfort noise packet, or one of another payload
\* type, goes no further; audio is normalized.
RtpArrives(l, ssrc, ts, audio) ==
    /\ loops[l] = "recv" /\ Around(l)
    /\ engine' = [engine EXCEPT !.ssrc = {ssrc}, !.fired = FALSE, !.quiet = {0}]
    /\ timeouts' = 0
    /\ LET fresh == engine.ssrc # {} /\ engine.ssrc # {ssrc}
           n == IF fresh THEN NewNormalizer ELSE norm
       IN  /\ norm' = IF audio THEN Normalized(n, ts) ELSE n
           /\ played' = IF audio THEN {Wrap(ts + norm'.offset)} ELSE IF fresh THEN {} ELSE played
    /\ audio => stamps < MaxStamps
    /\ stamps' = IF audio THEN stamps + 1 ELSE stamps

EffectiveMediaTimeout == IF engine.hold THEN HoldTimeout ELSE MediaTimeout

\* A bug that would pass the tests: the timeout is told without looking at the flag.
MutantTellsTimeout == \E q \in engine.quiet : q >= EffectiveMediaTimeout

TellsTimeout ==
    /\ \E q \in engine.quiet : q >= EffectiveMediaTimeout
    /\ ~engine.fired

\* recv times out: the media timeout is told when the line becomes silent.
RecvTimesOut(l) ==
    /\ loops[l] = "recv" /\ Around(l)
    /\ engine' = IF TellsTimeout THEN [engine EXCEPT !.fired = TRUE] ELSE engine
    /\ timeouts' = IF TellsTimeout THEN timeouts + 1 ELSE timeouts
    /\ UNCHANGED <<norm, played, stamps>>

Silence ==
    /\ \E q \in engine.quiet : q < HoldTimeout /\ engine' = [engine EXCEPT !.quiet = {q + 1}]
    /\ UNCHANGED <<norm, played, loops, timeouts, stamps>>

RtpEngineNext ==
    \/ \E l \in Loops : Start(l) \/ ArrivesRefused(l) \/ RecvTimesOut(l)
    \/ \E l \in Loops, s \in RemoteSsrcs, ts \in Stamps, audio \in BOOLEAN : RtpArrives(l, s, ts, audio)
    \/ \E on \in BOOLEAN : SetHoldState(on)
    \/ StopEngine \/ Silence

RtpEngineSpec == RtpEngineInit /\ [][RtpEngineNext]_engineVars

----------------------------------------------------------------------------
(* Properties.                                                             *)

RtpEngineTypeOK ==
    /\ norm.last \in Stamps /\ norm.local \in Stamps /\ norm.offset \in 1 - StampMod .. StampMod - 1
    /\ played \subseteq Stamps
    /\ engine.ssrc \subseteq RemoteSsrcs /\ engine.quiet \subseteq 0 .. HoldTimeout
    /\ \A l \in Loops : loops[l] \in {"none", "recv", "done"}

\* Within a stream the timestamps given to the jitter buffer never go back and never
\* jump, whatever the far end does with its own and wherever either of them wraps
\* (TimestampNormalizer).
NormalizedSmooth ==
    [][\A was \in played, is \in played' :
          (norm.mapped /\ engine.ssrc' = engine.ssrc) => Wrap(is - was) <= MaxDelta]_engineVars

\* A silence is told once, however often the line is polled, the call is held and
\* resumed, or the engine is stopped and started (Bug #24).
TimeoutOnce == timeouts <= 1
=============================================================================

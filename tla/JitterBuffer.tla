---------------------------- MODULE JitterBuffer ----------------------------
(***************************************************************************)
(* The adaptive jitter buffer (rtp/jitter.rs) and the receive task that    *)
(* feeds and drains it (start() of rtp/engine.rs).                         *)
(*                                                                         *)
(* The task pushes each RTP packet that arrives and then pops until pop()  *)
(* has nothing, all under the buffer's lock; when no packet arrives for    *)
(* one packet time it pops once.  The network (external) loses, delays and *)
(* repeats packets.  A packet is its index in the sender's stream; the     *)
(* code sees its sequence number, and its timestamp as a multiple of the   *)
(* packet time.  Times are in milliseconds.                                *)
(***************************************************************************)
EXTENDS Integers, FiniteSets

CONSTANTS
    JitterSeqMod,      \* sequence numbers are u16: 2^16, smaller in a model
    FirstSeq,    \* sequence number of the stream's first packet
    Ptime,       \* duration of a packet (20)
    MinDelay, TargetDelay, MaxDelay,   \* of JitterConfig (20, 60, 200)
    MaxPackets,  \* max_packets (50)
    MaxWait,     \* max_wait_before_loss (2)
    AdaptEvery,  \* pops between two adaptations of the delay (250)
    DriftEvery,  \* pops between two looks at the clock drift (500)
    DriftLooks,  \* looks in a row that make one packet skipped (3)
    BigGap,      \* sequence gap taken as a restart of the stream (3000) ...
    BigGapEnd,   \* ... unless it is this large, a late packet (60000)
    JumpPackets, \* timestamp jump taken as a restart: 5 s, in packets (250)
    JitterDelays,\* delays that the jitter estimate may call for
    Markers,     \* packets that carry the marker bit
    Window,      \* bound: how many packets late a packet may arrive
    MaxGap,      \* bound: how many packets are lost in a row
    MaxSent,     \* bound: length of the stream
    MaxReceived, \* bound: packets counted since a reset
    MaxLost      \* bound: losses counted since a reset, at ticks

ASSUME JitterAssumption ==
    /\ JitterSeqMod \in Nat /\ JitterSeqMod % 2 = 0 /\ FirstSeq \in 0 .. (JitterSeqMod - 1)
    /\ {Ptime, MaxPackets, MaxWait, AdaptEvery, DriftEvery, DriftLooks} \subseteq Nat \ {0}
    /\ {MinDelay, TargetDelay, MaxDelay} \subseteq Nat /\ MinDelay <= TargetDelay /\ TargetDelay <= MaxDelay
    /\ 0 < BigGap /\ BigGap < JitterSeqMod \div 2
    /\ JitterSeqMod \div 2 < BigGapEnd /\ BigGapEnd < JitterSeqMod
    /\ JitterDelays \subseteq MinDelay .. MaxDelay
    /\ {BigGap, BigGapEnd, JumpPackets, Window, MaxGap, MaxSent, MaxReceived, MaxLost} \subseteq Nat
    /\ JumpPackets * (MaxPackets + 1) < JitterSeqMod \div 2

VARIABLES
    jb,      \* the JitterBuffer
    stats,   \* JitterStats: packets received and lost
    loop,   \* "free", or "drain" while the task pops after a push
    newest,  \* newest packet that has arrived
    heard,   \* last packet played since the buffer was last reset
    tally    \* what was played and skipped since then, and arrivals since the last play

jitterVars == <<jb, stats, loop, newest, heard, tally>>

None == -1
Packet == 0 .. (MaxSent - 1)
PacketSeq(i) == (FirstSeq + i) % JitterSeqMod

----------------------------------------------------------------------------
(* rtp/jitter.rs.                                                          *)

\* sequence_before: less than half the sequence space ahead.
Before(a, b) == LET d == (b - a) % JitterSeqMod IN d > 0 /\ d < JitterSeqMod \div 2

\* The scan for the oldest packet.  It has one answer because the packets in
\* the buffer are less than half the sequence space apart (WithinHalf).
Oldest(S) == CHOOSE p \in S : \A q \in S : p = q \/ Before(PacketSeq(p), PacketSeq(q))

Millis(S) == Cardinality(S) * Ptime
Larger(a, b) == IF a < b THEN b ELSE a
Smaller(a, b) == IF a < b THEN a ELSE b

Empty ==
    [packets |-> {}, last |-> None, latest |-> None, delay |-> TargetDelay,
     buffered |-> FALSE, started |-> FALSE, miss |-> 0, pops |-> 0, drift |-> 0, high |-> 0]
ZeroStats == [received |-> 0, lost |-> 0]
NewTally(lost) == [from |-> None, played |-> 0, skipped |-> 0, lostAt |-> lost, silent |-> 0]

JitterInit ==
    /\ jb = Empty
    /\ stats = ZeroStats
    /\ loop = "free"
    /\ newest = None
    /\ heard = None
    /\ tally = NewTally(0)

\* reset_initial_buffering(): the packets and the position are forgotten, but
\* playout stays started.
Restart(b) == [b EXCEPT !.packets = {}, !.last = None, !.buffered = FALSE]

TooOld(b, i) == b.last # None /\ (Before(PacketSeq(i), b.last) \/ PacketSeq(i) = b.last)

\* A timestamp more than five seconds away from the newest one.
Jumps(b, i) == b.latest # None /\ (i - b.latest > JumpPackets \/ b.latest - i > JumpPackets)

\* push() of a packet that is neither too old nor in the buffer: evict the
\* oldest packet of a full buffer, and note when enough is buffered to start.
MutantEvict(S) == IF Cardinality(S) > MaxPackets + 1 THEN S \ {Oldest(S)} ELSE S
Evict(S) == IF Cardinality(S) > MaxPackets THEN S \ {Oldest(S)} ELSE S

Stored(b, i) ==
    LET kept == Evict(b.packets \union {i})
    IN  [b EXCEPT !.packets = kept,
                  !.latest = Larger(@, i),
                  !.buffered = @ \/ Millis(kept) >= Smaller(b.delay, TargetDelay)]

\* pop(): a buffer of more than twice the delay loses its oldest packet.
Overfull(b) == b.buffered /\ Millis(b.packets) > 2 * b.delay /\ b.delay > 0
Trim(b) == IF Overfull(b) THEN [b EXCEPT !.packets = @ \ {Oldest(@)}] ELSE b

\* The next sequence number to play.
TargetSeq(b) == IF b.last = None THEN PacketSeq(Oldest(b.packets)) ELSE (b.last + 1) % JitterSeqMod

\* adapt_delay(): towards the delay that the jitter calls for, in steps of 5 ms.
Adapted(b, called) ==
    IF Millis(b.packets) < called - Ptime THEN Smaller(b.delay + 5, MaxDelay)
    ELSE IF Millis(b.packets) > called + Ptime THEN Larger(b.delay - 5, MinDelay)
    ELSE b.delay

\* Clock drift, looked at when a packet is played: after DriftLooks looks
\* in a row at a buffer two packets above its target, one packet is skipped.
DriftDue(b) == b.drift = 0
DriftHigh(b) == Cardinality(b.packets) > TargetDelay \div Ptime + 2
Skips(b) == DriftDue(b) /\ DriftHigh(b) /\ b.high + 1 >= DriftLooks
MutantSkip(b) == [b EXCEPT !.last = (@ + 1) % JitterSeqMod, !.high = 0]
Skip(b) ==
    LET next == (b.last + 1) % JitterSeqMod
    IN  [b EXCEPT !.packets = {q \in @ : PacketSeq(q) # next}, !.last = next, !.high = 0]
AfterDrift(b) ==
    IF Skips(b) THEN Skip(b)
    ELSE IF DriftDue(b) THEN [b EXCEPT !.high = IF DriftHigh(b) THEN @ + 1 ELSE 0]
    ELSE b

\* Is the target worth waiting for: less than half the delay is buffered, or
\* it has not been missed often enough?
HoldsOff(b) == b.buffered /\ Millis(b.packets) < b.delay \div 2
LastMiss(b) == b.miss + 1 >= MaxWait

----------------------------------------------------------------------------
(* The receive task.                                                       *)

Forget(lost) == heard' = None /\ tally' = NewTally(lost)

\* The network delivers packet i; late, repeated and lost packets included.
Delivered(i) ==
    /\ loop = "free"
    /\ i >= newest - Window /\ i <= newest + 1 + MaxGap
    /\ stats.received < MaxReceived
    /\ newest' = Larger(newest, i)

\* A gap of 3000 to 60000 is a restart of the stream: reset().
GapResets(i) ==
    LET gap == (PacketSeq(i) - jb.last) % JitterSeqMod
    IN  jb.last # None /\ gap > BigGap /\ gap < BigGapEnd

\* The buffer that the packet finds, after a reset for a gap and after the
\* reset that a marker bit asks for, which keeps the statistics.
Found(i) ==
    LET b == IF GapResets(i) THEN Empty ELSE jb
    IN  IF i \in Markers THEN Restart(b) ELSE b
FoundStats(i) == IF GapResets(i) THEN ZeroStats ELSE stats
FoundAnew(i) == GapResets(i) \/ i \in Markers

Buffered(b, i) == \E q \in b.packets : PacketSeq(q) = PacketSeq(i)

\* Already buffered: the task goes on to receive.
ArriveDuplicate(i) ==
    /\ Delivered(i)
    /\ Buffered(Found(i), i)
    /\ UNCHANGED <<jb, stats, loop, heard, tally>>

\* Already played or given up: dropped; then pop as usual.
ArriveTooOld(i) ==
    /\ Delivered(i)
    /\ ~Buffered(Found(i), i) /\ TooOld(Found(i), i)
    /\ stats' = [stats EXCEPT !.received = @ + 1]
    /\ loop' = "drain"
    /\ UNCHANGED <<jb, heard, tally>>

\* push() after a jump of the timestamp: reset() and start over with it.
ArriveJump(i) ==
    /\ Delivered(i)
    /\ ~Buffered(Found(i), i) /\ ~TooOld(Found(i), i) /\ Jumps(Found(i), i)
    /\ jb' = [Empty EXCEPT !.packets = {i}, !.latest = i]
    /\ stats' = [ZeroStats EXCEPT !.received = 1]
    /\ loop' = "drain"
    /\ Forget(0)

ArriveStored(i) ==
    /\ Delivered(i)
    /\ ~Buffered(Found(i), i) /\ ~TooOld(Found(i), i) /\ ~Jumps(Found(i), i)
    /\ jb' = Stored(Found(i), i)
    /\ stats' = [FoundStats(i) EXCEPT !.received = @ + 1]
    /\ IF FoundAnew(i) THEN Forget(FoundStats(i).lost)
       ELSE tally' = [tally EXCEPT !.silent = @ + 1] /\ UNCHANGED heard
    /\ loop' = "drain"

\* reset() by the API, by a DTMF event when so configured, by a change of the
\* SSRC or when the timestamp normaliser meets a discontinuity.
Reset ==
    /\ loop = "free"
    /\ jb' = Empty /\ stats' = ZeroStats
    /\ Forget(0)
    /\ UNCHANGED <<loop, newest>>

\* pop() in the drain loop, which ends when it returns None, or at a tick.
Popping == loop = "drain" \/ loop = "free"
is_ready == jb.buffered \/ jb.started

\* What every pop does first.
Popped ==
    Trim([jb EXCEPT !.started = TRUE, !.pops = Smaller(@ + 1, AdaptEvery),
                    !.drift = (@ + 1) % DriftEvery])

\* pop() before anything is to be played.
PopNotReady ==
    /\ loop = "drain" /\ ~is_ready
    /\ loop' = "free"
    /\ UNCHANGED <<jb, stats, newest, heard, tally>>

\* Nothing was played since the reset and nothing is buffered.
PopEmpty ==
    /\ Popping /\ is_ready
    /\ Popped.last = None /\ Popped.packets = {}
    /\ jb' = Popped
    /\ loop' = "free"
    /\ UNCHANGED <<stats, newest, heard, tally>>

CanPlay == Popped.last # None \/ Popped.packets # {}
IsTarget(p) == p \in Popped.packets /\ PacketSeq(p) = TargetSeq(Popped)

\* The target is there: play it, adapt the delay, look at the drift.
PopPlays(p) ==
    /\ Popping /\ is_ready /\ CanPlay /\ IsTarget(p)
    /\ \E called \in JitterDelays :
         LET b == [Popped EXCEPT !.packets = @ \ {p}, !.last = PacketSeq(p), !.miss = 0]
             a == IF b.pops >= AdaptEvery
                  THEN [b EXCEPT !.pops = 0, !.delay = Adapted(b, called)] ELSE b
         IN  /\ jb' = AfterDrift(a)
             /\ tally' = [tally EXCEPT !.from = IF @ = None THEN p ELSE @,
                            !.silent = 0, !.played = @ + 1, !.skipped = IF Skips(a) THEN @ + 1 ELSE @]
    /\ heard' = p
    /\ UNCHANGED <<stats, loop, newest>>

\* The target is missing and is waited for.
PopWaits ==
    /\ Popping /\ is_ready /\ CanPlay
    /\ \A p \in Popped.packets : ~IsTarget(p)
    /\ \/ HoldsOff(Popped) /\ jb' = Popped
       \/ ~HoldsOff(Popped) /\ ~LastMiss(Popped) /\ jb' = [Popped EXCEPT !.miss = @ + 1]
    /\ loop' = "free"
    /\ UNCHANGED <<stats, newest, heard, tally>>

\* The target is given up ...
GivesUp ==
    /\ Popping /\ is_ready /\ CanPlay
    /\ \A p \in Popped.packets : ~IsTarget(p)
    /\ ~HoldsOff(Popped) /\ LastMiss(Popped)

Crowded == Cardinality(Popped.packets) > MaxPackets \div 2

\* ... and that is all ...
PopLoses ==
    /\ GivesUp /\ ~Crowded
    /\ loop = "drain" \/ stats.lost < MaxLost
    /\ jb' = [Popped EXCEPT !.miss = 0, !.last = TargetSeq(Popped)]
    /\ stats' = [stats EXCEPT !.lost = @ + 1]
    /\ loop' = "free"
    /\ UNCHANGED <<newest, heard, tally>>

\* ... or, with more than half the buffer in use, playout catches up with the
\* oldest packet and counts what lies between as lost.
MutantGapLost(p) == 1
GapLost(p) ==
    LET skipped == (PacketSeq(p) - (TargetSeq(Popped) + 1)) % JitterSeqMod
    IN  IF skipped < JitterSeqMod \div 2 THEN 1 + skipped ELSE 1
PopCatchesUp ==
    /\ GivesUp /\ Crowded
    /\ LET p == Oldest(Popped.packets)
       IN  /\ jb' = [Popped EXCEPT !.miss = 0, !.last = PacketSeq(p), !.packets = @ \ {p}]
           /\ stats' = [stats EXCEPT !.lost = @ + GapLost(p)]
           /\ tally' = [tally EXCEPT !.silent = 0, !.played = @ + 1]
           /\ heard' = p
    /\ UNCHANGED <<loop, newest>>

Pop ==
    \/ PopNotReady \/ PopEmpty \/ PopWaits \/ PopLoses \/ PopCatchesUp
    \/ \E p \in jb.packets : PopPlays(p)

JitterNext ==
    \/ \E i \in Packet : ArriveDuplicate(i) \/ ArriveTooOld(i) \/ ArriveJump(i) \/ ArriveStored(i)
    \/ Reset \/ Pop

JitterSpec == JitterInit /\ [][JitterNext]_jitterVars

----------------------------------------------------------------------------
(* Properties.                                                             *)

SeqOrNone == {None} \union 0 .. (JitterSeqMod - 1)

\* Types and bounds of the fields; the buffer never holds more than max_packets
\* when push() is done, however the packets arrived.
JitterTypeOK ==
    /\ jb.packets \subseteq Packet /\ Cardinality(jb.packets) <= MaxPackets
    /\ jb.last \in SeqOrNone /\ jb.latest \in Packet \union {None}
    /\ jb.delay \in MinDelay .. MaxDelay
    /\ jb.buffered \in BOOLEAN /\ jb.started \in BOOLEAN
    /\ jb.miss \in 0 .. (MaxWait - 1) /\ jb.pops \in 0 .. AdaptEvery
    /\ jb.drift \in 0 .. (DriftEvery - 1) /\ jb.high \in 0 .. (DriftLooks - 1)
    /\ \A f \in DOMAIN stats : stats[f] \in Nat
    /\ loop \in {"free", "drain"}
    /\ newest \in Packet \union {None} /\ heard \in Packet \union {None}

\* The comparison of sequence numbers orders the packets in the buffer, and
\* puts them after the last one played: none is half the space or more away,
\* whatever was lost, skipped or late and however often the numbers wrapped.
WithinHalf ==
    /\ \A p, q \in jb.packets : p < q => Before(PacketSeq(p), PacketSeq(q))
    /\ jb.last # None => \A p \in jb.packets : Before(jb.last, PacketSeq(p))

\* Between two resets the packets are played in the order in which they were
\* sent, each at most once: late and repeated packets, catching up, and the
\* packets skipped or dropped on purpose included.
PlayedInOrder == [][heard # None /\ heard' # None /\ heard' # heard => heard' > heard]_jitterVars

\* Every sequence number that playout passed was played, skipped to correct
\* the clock drift, or counted as lost (P1-JB-7: catching up hides no loss).
LossAccounted ==
    tally.from # None =>
        (jb.last - PacketSeq(tally.from)) % JitterSeqMod
            = (tally.played - 1 + tally.skipped + stats.lost - tally.lostAt) % JitterSeqMod

\* A consumer is not starved when packets are available (R18): each lost packet
\* is waited for at MaxWait arrivals, and one arrival more may be held off.
\* Meant for a stream that arrives in order, with half the delay no longer than
\* two packets.
NotStarved ==
    loop = "free" /\ heard # None =>
        tally.silent <= MaxWait * (newest - heard - tally.silent) + 1
=============================================================================

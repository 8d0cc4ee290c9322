---------------------------- MODULE DtmfDetector ----------------------------
(***************************************************************************)
(* The RFC 2833 detector (DtmfDetector::process_rtp of rtp/dtmf.rs) at the *)
(* end of a network that loses, repeats and reorders packets, those of one *)
(* digit and those of a digit and the next.  The far end sends digits one  *)
(* after the other, each with a timestamp of its own, KeyGap or more       *)
(* apart; one unit of time is a packet interval.  The queue inside the     *)
(* detector is left out: nothing reads it, the engine takes the digits     *)
(* process_rtp returns.                                                    *)
(***************************************************************************)
EXTENDS Integers, Sequences, FiniteSets

CONSTANTS
    Lengths,      \* how long digits are held, in packets
    MaxKeys,      \* bound: digits sent (TLC)
    EndTimeouts,  \* values of end_timeout_ms (5 s unless set)
    KeyGap,       \* DTMF_INTERDIGIT_GAP (80 ms)
    SanityLimit,  \* DTMF_SANITY_LIMIT (1500 packets)
    MinDuration,  \* DTMF_MIN_DURATION_MS
    MaxDuration,  \* DTMF_MAX_DURATION (30 s)
    DurMod,       \* durations are u16: 2^16 samples
    FlipAt,       \* 0xFC17: from here on a smaller duration is a wrap
    InFlight,     \* bound: packets in the network (TLC)
    MaxTold       \* bound: digits told (TLC)

ASSUME DtmfAssumption ==
    /\ Lengths \subseteq Nat \ {0} /\ EndTimeouts \subseteq Nat
    /\ {MaxKeys, KeyGap, SanityLimit, MinDuration, MaxDuration, DurMod, FlipAt, InFlight} \subseteq Nat
    /\ MaxTold \in Nat
    /\ KeyGap > 0 /\ DurMod \in 1 .. MaxDuration + 1 /\ MaxDuration <= SanityLimit + 2
    /\ \A n \in Lengths : n <= MaxDuration => n % DurMod # 0

VARIABLES
    key,     \* the far end's digit: number, length, packets sent, stamp
    flight,  \* packets in the network
    now,     \* wall clock
    det,     \* the DtmfDetector
    told,    \* digits process_rtp has returned, with their durations
    held,    \* how long each digit is held (history)
    first,   \* when the first packet of each digit arrived (history), 0 for never
    due,     \* digits whose END arrived before they were given up (history)
    crossed  \* has a packet of a digit arrived after one of a later digit? (history)

dtmfVars == <<key, flight, now, det, told, held, first, due, crossed>>

Keys == 1 .. MaxKeys
NoKey == 0

\* reset_state: timestamps and sequence numbers of 0 mean none.
Cleared(d) == [d EXCEPT !.prev = 0, !.stamp = 0, !.digitStamp = 0, !.sanity = 0, !.duration = 0,
                        !.flip = 0, !.current = NoKey, !.endStamp = 0, !.began = 0]

DtmfInit ==
    /\ key = [number |-> 0, length |-> 0, sent |-> 0, stamp |-> 0, seq |-> 0]
    /\ flight = {} /\ now = 1
    /\ \E timeout \in EndTimeouts, eager \in BOOLEAN :
          det = [prev |-> 0, stamp |-> 0, digitStamp |-> 0, sanity |-> 0, duration |-> 0, flip |-> 0,
                 current |-> NoKey, endStamp |-> 0, began |-> 0,
                 timeout |-> timeout, ignore_duration |-> eager]
    /\ told = <<>> /\ due = {} /\ crossed = FALSE
    /\ held = [k \in Keys |-> 0] /\ first = [k \in Keys |-> 0]

----------------------------------------------------------------------------
(* process_rtp, part by part.                                              *)

Atleast(a, b) == IF a >= b THEN a ELSE b

\* Interdigit protection: what follows an END too closely.
Overlaps(d, p) ==
    /\ d.endStamp # 0
    /\ \/ p.stamp = d.endStamp /\ ~p.end
       \/ p.stamp - d.endStamp \in 1 .. KeyGap - 1

\* A repeated or late packet of the digit.
MutantOutOfOrder(d, p) == d.prev # 0 /\ p.stamp = d.stamp /\ p.seq = d.prev
OutOfOrder(d, p) == d.prev # 0 /\ p.stamp = d.stamp /\ p.seq <= d.prev

Seen(d, p) ==
    [d EXCEPT !.prev = p.seq, !.stamp = p.stamp,
              !.sanity = IF p.stamp = d.stamp THEN @ + 1 ELSE 0]
Stuck(d, p) == p.stamp = d.stamp /\ d.sanity > SanityLimit

\* The digit in progress is given up when its END has not come for too long (it
\* goes to the queue nothing reads).
TimedOut(d, p) ==
    /\ d.current # NoKey
    /\ \/ p.stamp - d.digitStamp > d.timeout
       \/ now - d.began > d.timeout
GivenUp(d, p) ==
    IF TimedOut(d, p)
    THEN [d EXCEPT !.current = NoKey, !.flip = 0, !.duration = 0, !.endStamp = d.digitStamp]
    ELSE d

\* Another timestamp is another digit; the one in progress is given up.
IsNew(d, p) == p.stamp # d.digitStamp
Begun(d, p) ==
    [d EXCEPT !.endStamp = IF d.current # NoKey THEN d.digitStamp ELSE @,
              !.current = p.key, !.digitStamp = p.stamp, !.duration = 0, !.flip = 0,
              !.prev = p.seq, !.began = now]
OfDigit(d, p) == IF IsNew(d, p) THEN Begun(d, p) ELSE d

\* ignore_duration: the digit is reported with its first packet.
Eager(d, p) == IsNew(d, p) /\ d.ignore_duration

\* The 16-bit duration, with what its wraps have added up to.
Timed(d, p) ==
    [d EXCEPT !.duration = p.duration,
              !.flip = IF p.duration < d.duration /\ d.duration >= FlipAt THEN @ + DurMod - 1 ELSE @]
Total(d) == d.duration + d.flip

Result(p, duration) == <<[key |-> p.key, duration |-> Atleast(duration, MinDuration)]>>
Only(d) == [det |-> d, result |-> <<>>]

\* The detector and what it returns, once the packet is known to belong to d's
\* digit.
Concluded(d, p) ==
    IF Total(d) > MaxDuration THEN Only(Cleared(d))
    ELSE IF ~p.end \/ d.current = NoKey THEN Only(d)
    ELSE IF Total(d) = 0 THEN Only([d EXCEPT !.current = NoKey, !.flip = 0])
    ELSE [det |-> [d EXCEPT !.current = NoKey, !.flip = 0, !.endStamp = p.stamp],
          result |-> Result(p, Total(d))]

process_rtp(d, p) ==
    IF Overlaps(d, p) \/ OutOfOrder(d, p) THEN Only(d)
    ELSE IF Stuck(d, p) THEN Only(Cleared(d))
    ELSE LET g == GivenUp(Seen(d, p), p)
             b == OfDigit(g, p)
         IN  IF Eager(g, p)
             THEN [det |-> [b EXCEPT !.current = NoKey, !.endStamp = p.stamp], result |-> Result(p, 0)]
             ELSE IF b.current \notin {NoKey, p.key} THEN Only(b)
             ELSE Concluded(Timed(b, p), p)

----------------------------------------------------------------------------
(* The far end (external), the network and the engine's receive loop.      *)

\* The next digit; packets of the last one may still be under way.
KeyPressed(length) ==
    /\ key.sent = key.length /\ key.number < MaxKeys
    /\ key' = [key EXCEPT !.number = @ + 1, !.length = length, !.sent = 0,
                          !.stamp = Atleast(now, @ + KeyGap)]
    /\ held' = [held EXCEPT ![key.number + 1] = length]
    /\ UNCHANGED <<flight, now, det, told, first, due, crossed>>

\* A packet every interval; the last one has the END bit.
KeyPacket ==
    /\ key.sent < key.length /\ Cardinality(flight) < InFlight
    /\ key' = [key EXCEPT !.sent = @ + 1, !.seq = @ + 1]
    /\ now' = now + 1
    /\ flight' = flight \union
           {[key |-> key.number, stamp |-> key.stamp, seq |-> key.seq + 1,
             end |-> key.sent + 1 = key.length, duration |-> (key.sent + 1) % DurMod]}
    /\ UNCHANGED <<det, told, held, first, due, crossed>>

KeyLost == \E p \in flight :
    /\ flight' = flight \ {p}
    /\ UNCHANGED <<key, now, det, told, held, first, due, crossed>>

\* The packet arrives, for the last time or not.
InTime(p) == p.end /\ (first[p.key] = 0 \/ now - first[p.key] <= det.timeout)
Crosses(p) == \E k \in Keys : k > p.key /\ first[k] # 0
KeyArrives == Len(told) < MaxTold /\ \E p \in flight : \E gone \in {{}, {p}} :
    LET r == process_rtp(det, p)
    IN  /\ det' = r.det
        /\ told' = told \o r.result
        /\ first' = [first EXCEPT ![p.key] = IF @ = 0 THEN now ELSE @]
        /\ due' = IF InTime(p) /\ held[p.key] <= MaxDuration THEN due \union {p.key} ELSE due
        /\ crossed' = (crossed \/ Crosses(p))
        /\ flight' = flight \ gone
        /\ UNCHANGED <<key, now, held>>

DtmfNext == (\E length \in Lengths : KeyPressed(length)) \/ KeyPacket \/ KeyLost \/ KeyArrives

DtmfSpec == DtmfInit /\ [][DtmfNext]_dtmfVars

----------------------------------------------------------------------------
(* Properties.                                                             *)

DtmfTypeOK ==
    /\ det.current \in Keys \union {NoKey} /\ det.flip \in Nat /\ det.sanity <= SanityLimit + 1
    /\ Cardinality(flight) <= InFlight

\* Whatever packets are lost, repeated and out of order, the engine is told of no longer
\* a digit than was pressed, and a digit whose END arrives before it is given up is told;
\* and while no packet of a digit arrives after one of a later digit, each digit is told
\* at most once, in the order in which they were pressed.
InOrder == \A i, j \in DOMAIN told : i < j => told[i].key < told[j].key
NoLonger == \A i \in DOMAIN told : told[i].duration <= Atleast(held[told[i].key], MinDuration)
DueTold == \A k \in due : \E i \in DOMAIN told : told[i].key = k
ToldOnce == (~crossed => InOrder) /\ NoLonger /\ DueTold

\* The network holds packets of one digit at a time.
Apart == \A p \in flight : p.key = key.number

----------------------------------------------------------------------------
(* A statement of the repository's comments that the code does not keep.   *)

\* What arrives around the boundary of two digits makes no second detection of one, when
\* a digit is reported with its END: the purpose of the interdigit overlap protection.
NotToldAgain ==
    ~det.ignore_duration => \A i, j \in DOMAIN told : i # j => told[i].key # told[j].key
=============================================================================

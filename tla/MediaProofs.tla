----------------------------- MODULE MediaProofs -----------------------------
(***************************************************************************)
(* The media of a call: what its sender, its receive loop, its statistics, *)
(* its NAT detection, its jitter buffer and its TURN client promise.  They *)
(* share nothing; each part is about the specification of one of them.     *)
(***************************************************************************)
EXTENDS RtpSender, RtpEngine, RtcpSession, NatDetection, TurnClient, JitterBuffer, FiniteSetTheorems, TLAPS

----------------------------------------------------------------------------
(* NAT detection.                                                          *)

Stages == (NatTypes \ {"Open"}) \union {"none", "I", "II", "III", "IV"}
Managers == [force : ForceModes, stun : BOOLEAN, nat : NatTypes \ {"Open"},
             strategy : {"Direct", "Relay", "HolePunch"}]

\* What an answer tells of the NAT.
Witnessed(verdict) ==
    /\ verdict = "FullCone" => net.filter = "any"
    /\ verdict = "RestrictedCone" => net.filter # "port"
    /\ verdict = "Symmetric" => net.mapping = "per_destination"

\* What makes VerdictsSound inductive: each verdict that waits to be stored is right.
VerdictInv ==
    /\ test \in [Detectors -> Stages] /\ manager \in Managers
    /\ \A d \in Detectors : Witnessed(test[d])
    /\ VerdictsSound

\* A verdict that a detector reaches by an answer is right, whichever answers were lost,
\* and so is the strategy chosen by it; nothing is ever taken for an open address.
THEOREM VerdictsSoundHolds == NatSpec => []VerdictsSound
<1>1. NatInit => VerdictInv
  <2> SUFFICES ASSUME NatInit PROVE VerdictInv  OBVIOUS
  <2>1. test \in [Detectors -> Stages] /\ \A d \in Detectors : test[d] = "none"
    BY DEF NatInit, Stages
  <2>2. PICK f \in ForceModes :
          manager = [force |-> f, stun |-> FALSE, nat |-> "Unknown", strategy |-> Strategies[f]]
    BY DEF NatInit
  <2>3. Strategies[f] \in {"Direct", "Relay", "HolePunch"} /\ (f = "none" => Strategies[f] = "HolePunch")
    BY DetectionAssumption DEF Strategies
  <2>4. manager \in Managers  BY <2>2, <2>3 DEF Managers, NatTypes
  <2> QED  BY <2>1, <2>2, <2>3, <2>4 DEF VerdictInv, Witnessed, VerdictsSound
<1>2. VerdictInv /\ [NatNext]_natVars => VerdictInv'
  <2> SUFFICES ASSUME VerdictInv, [NatNext]_natVars PROVE VerdictInv'  OBVIOUS
  <2> USE DEF VerdictInv
  <2>1. CASE UNCHANGED natVars
    BY <2>1 DEF natVars, Witnessed, VerdictsSound
  <2>2. CASE Resolve \/ StartKeepalive \/ Shutdown
    <3>1. /\ UNCHANGED <<net, test>> /\ manager' \in Managers
          /\ manager'.nat = manager.nat /\ manager'.strategy = manager.strategy
          /\ manager'.force = manager.force
      BY <2>2 DEF Resolve, StartKeepalive, Shutdown, Managers
    <3> QED  BY <3>1 DEF Witnessed, VerdictsSound
  <2>3. ASSUME NEW d \in Detectors,
               \/ Detect(d) \/ TestI(d) \/ TestILost(d) \/ TestII(d) \/ TestIIFails(d)
               \/ TestIII(d) \/ TestIIISame(d) \/ TestIIILost(d) \/ TestIV(d) \/ TestIVFails(d)
        PROVE  VerdictInv'
    <3>1. \E to \in Stages : /\ test' = [test EXCEPT ![d] = to] /\ Witnessed(to)
                             /\ UNCHANGED <<net, manager>>
      BY <2>3 DEF Detect, TestI, TestILost, TestII, TestIIFails, TestIII, TestIIISame, TestIIILost,
         TestIV, TestIVFails, Step, Stages, NatTypes, Witnessed, LetsIn
    <3> QED  BY <3>1 DEF Witnessed, VerdictsSound
  <2>4. ASSUME NEW d \in Detectors, Conclude(d) PROVE VerdictInv'
    <3>1. test[d] \in NatTypes \ {"Open"} /\ Witnessed(test[d])
      BY <2>4 DEF Conclude, Stages
    <3>2. /\ UNCHANGED net /\ test' = [test EXCEPT ![d] = "none"]
          /\ manager' \in Managers /\ manager'.nat = test[d] /\ manager'.force = manager.force
          /\ manager.force = "none" => manager'.strategy = for_nat_type(test[d])
      <4> DEFINE s == IF manager.force = "none" THEN for_nat_type(test[d]) ELSE manager.strategy
      <4>1. s \in {"Direct", "Relay", "HolePunch"}  BY DEF for_nat_type, Managers
      <4>2. manager' = [manager EXCEPT !.nat = test[d], !.strategy = s]  BY <2>4 DEF Conclude
      <4>3. manager.force = "none" => s = for_nat_type(test[d])  OBVIOUS
      <4> HIDE DEF s
      <4> QED  BY <2>4, <3>1, <4>1, <4>2, <4>3 DEF Conclude, Managers
    <3>3. /\ test' \in [Detectors -> Stages]
          /\ \A e \in Detectors : test'[e] = "none" \/ test'[e] = test[e]
      BY <3>2 DEF Stages
    <3>4. \A e \in Detectors : Witnessed(test[e])'  BY <3>2, <3>3 DEF Witnessed
    <3>5. VerdictsSound'
      BY <3>1, <3>2 DEF VerdictsSound, Witnessed, for_nat_type
    <3> QED  BY <3>2, <3>3, <3>4, <3>5
  <2> QED  BY <2>1, <2>2, <2>3, <2>4 DEF NatNext
<1>3. VerdictInv => VerdictsSound  BY DEF VerdictInv
<1> QED  BY <1>1, <1>2, <1>3, PTL DEF NatSpec

----------------------------------------------------------------------------
(* The media timeout.                                                      *)

Receiving == [running : BOOLEAN, ssrc : SUBSET RemoteSsrcs, hold : BOOLEAN, fired : BOOLEAN,
              quiet : SUBSET Nat]

\* What makes TimeoutOnce inductive: the flag is up while the silence has been told.
TimeoutInv ==
    /\ engine \in Receiving
    /\ timeouts \in {0, 1} /\ (timeouts = 1 => engine.fired)

\* A silence is told once, however the call is held, resumed, stopped and started and
\* however often its loops poll the line (Bug #24).
THEOREM TimeoutOnceHolds == RtpEngineSpec => []TimeoutOnce
<1>1. RtpEngineInit => TimeoutInv
  BY DEF RtpEngineInit, NewEngine, TimeoutInv, Receiving
<1>2. TimeoutInv /\ [RtpEngineNext]_engineVars => TimeoutInv'
  <2> SUFFICES ASSUME TimeoutInv, [RtpEngineNext]_engineVars PROVE TimeoutInv'  OBVIOUS
  <2> USE DEF TimeoutInv
  <2>1. CASE UNCHANGED engineVars  BY <2>1 DEF engineVars
  <2>2. ASSUME NEW l \in Loops, Start(l) PROVE TimeoutInv'  BY <2>2 DEF Start, Receiving
  <2>3. ASSUME NEW l \in Loops, ArrivesRefused(l) PROVE TimeoutInv'  BY <2>3 DEF ArrivesRefused
  <2>4. ASSUME NEW l \in Loops, RecvTimesOut(l) PROVE TimeoutInv'
    <3>1. CASE TellsTimeout
      <4>1. timeouts = 0  BY <3>1 DEF TellsTimeout
      <4>2. engine' = [engine EXCEPT !.fired = TRUE] /\ timeouts' = 1
        BY <2>4, <3>1, <4>1 DEF RecvTimesOut
      <4>3. engine' \in Receiving /\ engine'.fired = TRUE  BY <4>2 DEF Receiving
      <4> QED  BY <4>2, <4>3
    <3>2. CASE ~TellsTimeout  BY <2>4, <3>2 DEF RecvTimesOut
    <3> QED  BY <3>1, <3>2
  <2>5. ASSUME NEW l \in Loops, NEW s \in RemoteSsrcs, NEW ts \in Stamps, NEW audio \in BOOLEAN,
               RtpArrives(l, s, ts, audio)
        PROVE  TimeoutInv'
    <3>1. engine' = [engine EXCEPT !.ssrc = {s}, !.fired = FALSE, !.quiet = {0}] /\ timeouts' = 0
      BY <2>5 DEF RtpArrives
    <3>2. {s} \in SUBSET RemoteSsrcs /\ {0} \in SUBSET Nat  OBVIOUS
    <3>3. engine' \in Receiving
      <4> DEFINE from == {s}
                 now == {0}
      <4>1. engine' = [engine EXCEPT !.ssrc = from, !.fired = FALSE, !.quiet = now]
        BY <3>1
      <4>2. from \in SUBSET RemoteSsrcs /\ now \in SUBSET Nat  BY <3>2
      <4> HIDE DEF from, now
      <4> QED  BY <4>1, <4>2 DEF Receiving
    <3> QED  BY <3>1, <3>3
  <2>6. ASSUME NEW on \in BOOLEAN, SetHoldState(on) PROVE TimeoutInv'
    BY <2>6 DEF SetHoldState, Receiving
  <2>7. CASE StopEngine  BY <2>7 DEF StopEngine, Receiving
  <2>8. CASE Silence
    <3>1. PICK q \in engine.quiet : engine' = [engine EXCEPT !.quiet = {q + 1}]
      BY <2>8 DEF Silence
    <3>2. q + 1 \in Nat  BY DEF Receiving
    <3> QED  BY <2>8, <3>1, <3>2 DEF Silence, Receiving
  <2> QED  BY <2>1, <2>2, <2>3, <2>4, <2>5, <2>6, <2>7, <2>8 DEF RtpEngineNext
<1>3. TimeoutInv => TimeoutOnce  BY DEF TimeoutInv, TimeoutOnce
<1> QED  BY <1>1, <1>2, <1>3, PTL DEF RtpEngineSpec

----------------------------------------------------------------------------
(* The keystream of the send path.                                         *)

Contexts == [counter : Nat, started : BOOLEAN, last : Nat, packets : Nat]
Clocks == [seq : SeqNums, stamp : Nat]
Packets == [seq : SeqNums, stamp : Nat, digit : Nat]
Begun == [builder : Clocks, digit : Nat]
OnWire == [packet : Packets, index : Nat]

\* What is numbered: sequence numbers of 16 bits.
NumberedInv ==
    /\ builder \in Clocks /\ calls \in Nat
    /\ queue \in [Senders -> Seq(Packets)] /\ noticed \in [Senders -> SUBSET Begun]

\* What makes KeystreamOnce inductive: the indices on the wire rise, and the context
\* remembers the last.
WireInv ==
    /\ snd \in Contexts /\ wire \in Seq(OnWire)
    /\ Secure => /\ wire # <<>> => snd.packets > 0
                 /\ \A i \in DOMAIN wire : wire[i].index <= snd.last
                 /\ \A i, j \in DOMAIN wire : i < j => wire[i].index < wire[j].index

\* The constants, without the set of the assumption.
LEMMA SendConstants == WireMod \in Nat \ {0} /\ RocMod \in Nat \ {0} /\ Intervals \in Nat \ {0}
BY SrtpAssumption, SenderAssumption

\* The next sequence number is one.
LEMMA LaterIsSeq == ASSUME NEW seq \in SeqNums, NEW n \in Nat PROVE Later(seq, n) \in SeqNums
BY SendConstants DEF Later, SeqNums

\* The extended counter and the packet index are natural numbers, whatever wraps.
LEMMA IndexOfNat ==
    ASSUME NEW c \in Contexts, NEW seq \in SeqNums
    PROVE  Counted(c, seq) \in Nat /\ IndexOf(c, seq) \in Nat
<1>1. \A a, b \in Nat : a * b \in Nat  OBVIOUS
<1>2. c.counter \in Nat /\ seq \in Nat  BY SendConstants DEF Contexts, SeqNums
<1>3. RocOf(c.counter) \in Nat  BY <1>2, SendConstants DEF RocOf
<1>4. Counted(c, seq) \in Nat
  BY <1>1, <1>2, <1>3, SendConstants DEF Counted, Index
<1>5. RocMod * WireMod \in Nat \ {0}  BY SendConstants
<1> QED  BY <1>4, <1>5 DEF IndexOf

\* protect_rtp keeps the context's type; a packet it protects has a greater index than
\* the last, which becomes the last.
LEMMA ProtectedIs ==
    ASSUME NEW c \in Contexts, NEW seq \in SeqNums
    PROVE  /\ Protected(c, seq) \in Contexts
           /\ Protects(c, seq) => /\ Protected(c, seq).last = IndexOf(c, seq)
                                  /\ Protected(c, seq).packets > 0
                                  /\ c.packets > 0 => IndexOf(c, seq) > c.last
           /\ ~Protects(c, seq) => /\ Protected(c, seq).last = c.last
                                   /\ Protected(c, seq).packets = c.packets
<1> DEFINE to == Counted(c, seq)
           moved == [c EXCEPT !.counter = to, !.started = TRUE]
           at == IndexOf(c, seq)
           n == moved.packets + 1
<1>1. to \in Nat /\ at \in Nat  BY IndexOfNat
<1>2. /\ Protected(c, seq) = IF c.packets >= KeyLifetime THEN c
                             ELSE IF Protects(c, seq) THEN [moved EXCEPT !.last = at, !.packets = n]
                             ELSE moved
      /\ Protects(c, seq) => c.packets < KeyLifetime /\ (c.packets > 0 => at > c.last)
  BY DEF Protected, Protects
<1> HIDE DEF to, at
<1>3. moved \in Contexts /\ moved.last = c.last /\ moved.packets = c.packets
  BY <1>1 DEF Contexts
<1>4. c.packets \in Nat /\ KeyLifetime \in Nat  BY SrtpAssumption DEF Contexts
<1> HIDE DEF moved
<1>5. n \in Nat /\ n > 0  BY <1>3, <1>4
<1> HIDE DEF n
<1>6. LET s == [moved EXCEPT !.last = at, !.packets = n]
      IN  s \in Contexts /\ s.last = at /\ s.packets = n
  BY <1>1, <1>3, <1>5 DEF Contexts
<1>7. CASE Protects(c, seq)
  <2>1. Protected(c, seq) = [moved EXCEPT !.last = at, !.packets = n]
    BY <1>2, <1>4, <1>7
  <2> QED  BY <1>2, <1>5, <1>6, <1>7, <2>1 DEF at
<1>8. CASE ~Protects(c, seq)
  BY <1>2, <1>3, <1>8
<1> QED  BY <1>7, <1>8

\* The packets of a digit are numbered.
LEMMA DigitIsNumbered ==
    ASSUME NEW b \in Clocks, NEW digit \in Nat PROVE Digit(b, digit) \in Seq(Packets)
<1>1. Intervals + EndPackets \in Nat  BY SendConstants DEF EndPackets
<1>2. ASSUME NEW i \in 1 .. Intervals + EndPackets
      PROVE  Numbered(Later(b.seq, IF i <= Intervals THEN i - 1 ELSE Intervals), b.stamp, digit) \in Packets
  <2>1. (IF i <= Intervals THEN i - 1 ELSE Intervals) \in Nat  BY <1>1, SendConstants
  <2> QED  BY <2>1, LaterIsSeq DEF Clocks, Packets, Numbered
<1> QED  BY <1>1, <1>2 DEF Digit

\* The steps before a packet is sent: numbers are taken, in whatever order.
LEMMA NumberingSteps ==
    ASSUME NumberedInv, WireInv, NEW t \in Senders,
           SendAudio(t) \/ SendComfortNoise(t) \/ BeginDigit(t) \/ NumberDigit(t)
    PROVE  NumberedInv' /\ WireInv'
<1> USE DEF NumberedInv
<1>0. UNCHANGED <<snd, wire>>
  BY DEF SendAudio, SendComfortNoise, BeginDigit, NumberDigit
<1>1. WireInv'  BY <1>0 DEF WireInv
<1>2. builder.seq \in SeqNums /\ builder.stamp \in Nat  BY DEF Clocks
<1>3. Later(builder.seq, 1) \in SeqNums  BY <1>2, LaterIsSeq
<1>4. CASE SendAudio(t) \/ SendComfortNoise(t)
  <2>1. Numbered(builder.seq, builder.stamp, 0) \in Packets  BY <1>2 DEF Numbered, Packets
  <2> DEFINE taken == <<Numbered(builder.seq, builder.stamp, 0)>>
             next == Later(builder.seq, 1)
  <2>2. taken \in Seq(Packets)  BY <2>1
  <2>3. /\ \/ builder' = [seq |-> next, stamp |-> builder.stamp + 1]
           \/ builder' = [builder EXCEPT !.seq = next]
        /\ queue' = [queue EXCEPT ![t] = taken] /\ calls' = calls + 1 /\ UNCHANGED noticed
    BY <1>4 DEF SendAudio, SendComfortNoise
  <2>4. next \in SeqNums /\ builder.stamp + 1 \in Nat  BY <1>2, <1>3
  <2> HIDE DEF taken, next
  <2>5. builder' \in Clocks  BY <1>2, <2>3, <2>4 DEF Clocks
  <2> QED  BY <1>1, <2>2, <2>3, <2>5
<1>5. CASE BeginDigit(t)
  <2>1. [builder |-> builder, digit |-> calls + 1] \in Begun  BY DEF Begun
  <2> QED  BY <1>1, <1>5, <2>1 DEF BeginDigit
<1>6. CASE NumberDigit(t)
  <2>1. PICK n \in noticed[t] :
          /\ queue' = [queue EXCEPT ![t] = Digit(n.builder, n.digit)]
          /\ builder' = [builder EXCEPT !.seq = Later(n.builder.seq, Intervals + 1)]
          /\ noticed' = [noticed EXCEPT ![t] = {}]
    BY <1>6 DEF NumberDigit
  <2>2. n.builder \in Clocks /\ n.digit \in Nat  BY DEF Begun
  <2>3. Digit(n.builder, n.digit) \in Seq(Packets)  BY <2>2, DigitIsNumbered
  <2>4. n.builder.seq \in SeqNums /\ Intervals + 1 \in Nat  BY <2>2, SendConstants DEF Clocks
  <2>5. Later(n.builder.seq, Intervals + 1) \in SeqNums  BY <2>4, LaterIsSeq
  <2>6. builder' \in Clocks  BY <2>1, <2>5 DEF Clocks
  <2> QED  BY <1>1, <1>6, <2>1, <2>3, <2>6 DEF NumberDigit
<1> QED  BY <1>4, <1>5, <1>6

\* A packet is sent, or refused and with it what is left of its digit.
LEMMA TransmitStep ==
    ASSUME NumberedInv, WireInv, NEW t \in Senders, Transmit(t)
    PROVE  NumberedInv' /\ WireInv'
<1> DEFINE p == Head(queue[t])
<1>1. queue[t] \in Seq(Packets) /\ queue[t] # <<>>  BY DEF Transmit, NumberedInv
<1>2. p \in Packets /\ Tail(queue[t]) \in Seq(Packets)  BY <1>1
<1>3. p.seq \in SeqNums  BY <1>2 DEF Packets
<1>4. NumberedInv'
  <2>1. /\ UNCHANGED <<builder, noticed, calls>>
        /\ \/ queue' = [queue EXCEPT ![t] = Tail(queue[t])]
           \/ queue' = [queue EXCEPT ![t] = <<>>]
    BY DEF Transmit
  <2>2. PICK rest \in Seq(Packets) : queue' = [queue EXCEPT ![t] = rest]
    <3>1. <<>> \in Seq(Packets)  OBVIOUS
    <3> QED  BY <1>2, <2>1, <3>1
  <2> QED  BY <2>1, <2>2 DEF NumberedInv
<1>5. /\ wire \in Seq(OnWire) /\ snd \in Contexts
      /\ Len(wire) \in Nat /\ DOMAIN wire = 1 .. Len(wire)
  BY DEF WireInv
<1>6. CASE ~Secure
  <2>1. wire' = Append(wire, [packet |-> p, index |-> 0]) /\ UNCHANGED snd
    BY <1>6 DEF Transmit
  <2>2. [packet |-> p, index |-> 0] \in OnWire  BY <1>2 DEF OnWire
  <2>3. wire' \in Seq(OnWire)  BY <1>5, <2>1, <2>2
  <2> QED  BY <1>4, <1>5, <1>6, <2>1, <2>3 DEF WireInv
<1>7. CASE Secure /\ ~Protects(snd, p.seq)
  <2>1. snd' = Protected(snd, p.seq) /\ UNCHANGED wire
    BY <1>7 DEF Transmit
  <2>2. snd' \in Contexts /\ snd'.last = snd.last /\ snd'.packets = snd.packets
    BY <1>3, <1>5, <1>7, <2>1, ProtectedIs
  <2> QED  BY <1>4, <2>1, <2>2 DEF WireInv
<1>8. CASE Secure /\ Protects(snd, p.seq)
  <2> DEFINE at == IndexOf(snd, p.seq)
             sent == [packet |-> p, index |-> at]
  <2>1. snd' = Protected(snd, p.seq) /\ wire' = Append(wire, sent)
    BY <1>8 DEF Transmit
  <2>2. /\ snd' \in Contexts /\ snd'.last = at /\ snd'.packets > 0
        /\ snd.packets > 0 => at > snd.last
    BY <1>3, <1>5, <1>8, <2>1, ProtectedIs
  <2>3. at \in Nat  BY <1>3, <1>5, IndexOfNat
  <2> HIDE DEF at
  <2>4. sent \in OnWire /\ sent.index = at  BY <1>2, <2>3 DEF OnWire
  <2> HIDE DEF sent
  <2>5. /\ wire' \in Seq(OnWire)
        /\ Len(wire') = Len(wire) + 1 /\ DOMAIN wire' = 1 .. Len(wire) + 1
        /\ wire'[Len(wire) + 1] = sent
        /\ \A i \in DOMAIN wire : wire'[i] = wire[i]
    BY <1>5, <2>1, <2>4
  <2>6. \A i \in DOMAIN wire : wire[i].index \in Nat /\ wire[i].index < at
    <3> SUFFICES ASSUME NEW i \in DOMAIN wire PROVE wire[i].index \in Nat /\ wire[i].index < at
      OBVIOUS
    <3>1. wire # <<>>  BY <1>5
    <3>2. wire[i].index <= snd.last /\ snd.packets > 0  BY <1>8, <3>1 DEF WireInv
    <3>3. wire[i] \in OnWire  BY <1>5
    <3>4. wire[i].index \in Nat /\ snd.last \in Nat  BY <1>5, <3>3 DEF Contexts, OnWire
    <3> QED  BY <2>2, <2>3, <3>2, <3>4
  <2>7. \A i \in DOMAIN wire' : wire'[i].index <= at
    BY <1>5, <2>3, <2>4, <2>5, <2>6
  <2>8. \A i, j \in DOMAIN wire' : i < j => wire'[i].index < wire'[j].index
    <3> SUFFICES ASSUME NEW i \in DOMAIN wire', NEW j \in DOMAIN wire', i < j
                 PROVE  wire'[i].index < wire'[j].index
      OBVIOUS
    <3>1. i \in DOMAIN wire /\ wire'[i] = wire[i]  BY <1>5, <2>5
    <3>2. CASE j \in DOMAIN wire  BY <1>8, <2>5, <3>1, <3>2 DEF WireInv
    <3>3. CASE j = Len(wire) + 1  BY <2>4, <2>5, <2>6, <3>1, <3>3
    <3> QED  BY <1>5, <2>5, <3>2, <3>3
  <2> QED  BY <1>4, <2>2, <2>5, <2>7, <2>8 DEF WireInv
<1> QED  BY <1>6, <1>7, <1>8

\* No packet index protects two packets, whatever order the tasks number and send in and
\* however far a digit sets the sequence numbers back (protect_rtp, send_dtmf).
THEOREM KeystreamOnceHolds == SendSpec => []KeystreamOnce
<1>1. SendInit => NumberedInv /\ WireInv
  BY SenderAssumption DEF SendInit, NewSender, NumberedInv, WireInv, Contexts, Clocks
<1>2. NumberedInv /\ WireInv /\ [SendNext]_sendVars => NumberedInv' /\ WireInv'
  <2> SUFFICES ASSUME NumberedInv, WireInv, [SendNext]_sendVars PROVE NumberedInv' /\ WireInv'
    OBVIOUS
  <2>1. CASE UNCHANGED sendVars  BY <2>1 DEF sendVars, NumberedInv, WireInv
  <2> QED  BY <2>1, NumberingSteps, TransmitStep DEF SendNext
<1>3. WireInv => KeystreamOnce
  <2> SUFFICES ASSUME WireInv, Secure, NEW i \in DOMAIN wire, NEW j \in DOMAIN wire,
                      wire[i].index = wire[j].index
               PROVE  i = j
    BY DEF KeystreamOnce
  <2>1. i \in Int /\ j \in Int  BY DEF WireInv
  <2>2. wire[i] \in OnWire /\ wire[j] \in OnWire  BY DEF WireInv
  <2>3. wire[i].index \in Nat /\ wire[j].index \in Nat  BY <2>2 DEF OnWire
  <2>4. ~(i < j) /\ ~(j < i)  BY <2>3 DEF WireInv
  <2> QED  BY <2>1, <2>4
<1> QED  BY <1>1, <1>2, <1>3, PTL DEF SendSpec

----------------------------------------------------------------------------
(* The timestamp normalizer.                                               *)

\* A remainder is what is left within the modulus.
LEMMA Remainder ==
    ASSUME NEW m \in Nat \ {0}, NEW q \in Int, NEW r \in 0 .. m - 1
    PROVE  (q * m + r) % m = r
<1> DEFINE x == q * m + r
           k == x \div m
           s == x % m
<1>1. x \in Int  OBVIOUS
<1>2. k \in Int /\ s \in 0 .. m - 1 /\ x = k * m + s
  <2> HIDE DEF x
  <2> QED  BY <1>1
<1>3. (q - k) * m = s - r
  <2>1. (q - k) * m = q * m - k * m  BY <1>2
  <2>2. q * m \in Int /\ k * m \in Int  BY <1>2
  <2> QED  BY <1>2, <2>1, <2>2
<1> HIDE DEF x, k, s
<1>4. q - k = 0
  <2>1. ASSUME q - k >= 1 PROVE FALSE
    <3>1. (q - k) * m >= m  BY <1>2, <2>1
    <3> QED  BY <1>2, <1>3, <3>1
  <2>2. ASSUME q - k <= -1 PROVE FALSE
    <3>1. (q - k) * m <= -m  BY <1>2, <2>2
    <3> QED  BY <1>2, <1>3, <3>1
  <2> QED  BY <1>2, <2>1, <2>2
<1>5. s = r  BY <1>2, <1>3, <1>4
<1> QED  BY <1>5 DEF s, x

\* The step between two remainders is the remainder of the step.
LEMMA RemainderOfStep ==
    ASSUME NEW m \in Nat \ {0}, NEW a \in Int, NEW b \in Int
    PROVE  ((a % m) - (b % m)) % m = (a - b) % m
<1> DEFINE ra == a % m
           rb == b % m
           d == ra - rb
           r == d % m
           qa == a \div m
           qb == b \div m
           qd == d \div m
<1>1. ra \in 0 .. m - 1 /\ rb \in 0 .. m - 1 /\ qa \in Int /\ qb \in Int
      /\ a = qa * m + ra /\ b = qb * m + rb
  OBVIOUS
<1> HIDE DEF ra, rb, qa, qb
<1>2. d \in Int  BY <1>1
<1>3. qd \in Int /\ r \in 0 .. m - 1 /\ d = qd * m + r
  <2> HIDE DEF d
  <2> QED  BY <1>2
<1> HIDE DEF qd, r
<1>4. a - b = (qa - qb + qd) * m + r
  <2>1. (qa - qb + qd) * m = qa * m - qb * m + qd * m  BY <1>1, <1>3
  <2>2. qa * m \in Int /\ qb * m \in Int /\ qd * m \in Int  BY <1>1, <1>3
  <2> QED  BY <1>1, <1>3, <2>1, <2>2
<1>5. qa - qb + qd \in Int  BY <1>1, <1>3
<1>6. (a - b) % m = r  BY <1>3, <1>4, <1>5, Remainder
<1> QED  BY <1>6 DEF r, d, ra, rb

Normalizers == [mapped : BOOLEAN, offset : Int, last : Int, local : Int]

\* What was played last is where the mapping puts the last timestamp.
NormInv ==
    /\ norm \in Normalizers /\ engine \in Receiving
    /\ played \subseteq {Wrap(norm.last + norm.offset)}

\* The step that may not be taken within a stream.
Smooth == \A was \in played, is \in played' :
    (norm.mapped /\ engine.ssrc' = engine.ssrc) => Wrap(is - was) <= MaxDelta

\* The modulus is positive, and a step of nothing is one of five seconds at most.
LEMMA StampConstants ==
    /\ StampMod \in Nat \ {0} /\ MaxDelta \in Nat /\ Samples \in 0 .. StampMod - 1
    /\ \A x \in Int : Wrap(x) \in 0 .. StampMod - 1 /\ Wrap(x - x) = 0
<1>1. StampMod \in Nat /\ MaxDelta \in Nat /\ Samples \in Nat
  BY RtpEngineAssumption
<1>2. StampMod > 0 /\ Samples < StampMod  BY <1>1, RtpEngineAssumption
<1>3. \A x \in Int : Wrap(x) \in 0 .. StampMod - 1  BY <1>1, <1>2 DEF Wrap
<1>4. Wrap(0) = 0
  <2>1. (0 * StampMod + 0) % StampMod = 0  BY <1>1, <1>2, Remainder
  <2> QED  BY <1>1, <2>1 DEF Wrap
<1>5. \A x \in Int : x - x = 0  OBVIOUS
<1> QED  BY <1>1, <1>2, <1>3, <1>4, <1>5

\* Within the modulus wrapping changes nothing, and it keeps the distance of two stamps.
LEMMA Wrapped ==
    /\ \A r \in 0 .. StampMod - 1 : Wrap(r) = r
    /\ \A a, b \in Int : Wrap(Wrap(a) - Wrap(b)) = Wrap(a - b)
<1>1. ASSUME NEW r \in 0 .. StampMod - 1 PROVE Wrap(r) = r
  <2>1. (0 * StampMod + r) % StampMod = r  BY StampConstants, Remainder
  <2>2. 0 * StampMod + r = r  BY StampConstants
  <2> QED  BY <2>1, <2>2 DEF Wrap
<1>2. ASSUME NEW a \in Int, NEW b \in Int PROVE Wrap(Wrap(a) - Wrap(b)) = Wrap(a - b)
  BY StampConstants, RemainderOfStep DEF Wrap
<1> QED  BY <1>1, <1>2

\* One packet after a stamp is one packet away from it, on either side of a wrap.
LEMMA OnePacketOn ==
    ASSUME NEW w \in 0 .. StampMod - 1 PROVE Wrap(Wrap(w + Samples) - w) = Samples
<1> DEFINE next == w + Samples
<1>1. w \in Int /\ next \in Int /\ next - w = Samples  BY StampConstants
<1>2. Wrap(w) = w /\ Wrap(Samples) = Samples  BY StampConstants, Wrapped
<1> HIDE DEF next
<1>3. Wrap(Wrap(next) - Wrap(w)) = Wrap(next - w)  BY <1>1, Wrapped
<1> DEFINE here == Wrap(w)
<1>4. here = w /\ Wrap(Wrap(next) - here) = Wrap(next - w)  BY <1>2, <1>3
<1> HIDE DEF here
<1>5. Wrap(Wrap(next) - w) = Samples  BY <1>1, <1>2, <1>4
<1> QED  BY <1>5 DEF next

\* normalize within a stream: a timestamp that is not discontinuous keeps its distance
\* to the last one, any other is played one packet later.
LEMMA NormalizedIs ==
    ASSUME NEW n \in Normalizers, NEW ts \in Int
    PROVE  /\ Normalized(n, ts) \in Normalizers /\ Normalized(n, ts).last = ts
           /\ n.mapped => Wrap(Wrap(ts + Normalized(n, ts).offset) - Wrap(n.last + n.offset)) <= MaxDelta
<1> USE StampConstants
<1>1. n.last \in Int /\ n.offset \in Int /\ n.local \in Int  BY DEF Normalizers
<1> DEFINE was == Wrap(n.last + n.offset)
           local == Wrap(was + Samples)
           first == n.local - ts
           jumped == local - ts
<1>2. /\ was \in 0 .. StampMod - 1 /\ local \in 0 .. StampMod - 1
      /\ was \in Int /\ local \in Int
  BY <1>1
<1>3. first \in Int /\ jumped \in Int  BY <1>1, <1>2
<1>4. CASE ~n.mapped
  <2>1. Normalized(n, ts) = [n EXCEPT !.mapped = TRUE, !.offset = first, !.last = ts]
    BY <1>4 DEF Normalized
  <2> HIDE DEF first
  <2> QED  BY <1>3, <1>4, <2>1 DEF Normalizers
<1>5. CASE n.mapped /\ Discontinuous(n, ts)
  <2>1. Normalized(n, ts) = [[n EXCEPT !.local = local, !.offset = jumped] EXCEPT !.last = ts]
    BY <1>5 DEF Normalized, Remapped
  <2>2. Wrap(ts + jumped) = local  BY <1>2, Wrapped
  <2>3. Wrap(local - was) <= MaxDelta
    <3>1. Wrap(local - was) = Samples
      <4> HIDE DEF was
      <4> QED  BY <1>2, OnePacketOn
    <3>2. Samples <= MaxDelta  BY RtpEngineAssumption
    <3> QED  BY <3>1, <3>2
  <2> HIDE DEF was, local, jumped
  <2> DEFINE r == [n EXCEPT !.local = local, !.offset = jumped]
  <2>4. r \in Normalizers /\ r.offset = jumped  BY <1>2, <1>3 DEF Normalizers
  <2>5. Normalized(n, ts) = [r EXCEPT !.last = ts]  BY <2>1
  <2> HIDE DEF r
  <2>6. /\ Normalized(n, ts) \in Normalizers /\ Normalized(n, ts).last = ts
        /\ Normalized(n, ts).offset = jumped
    BY <2>4, <2>5 DEF Normalizers
  <2> QED  BY <2>2, <2>3, <2>6 DEF was
<1>6. CASE n.mapped /\ ~Discontinuous(n, ts)
  <2>1. Normalized(n, ts) = [n EXCEPT !.last = ts]  BY <1>6 DEF Normalized
  <2>2. Normalized(n, ts) \in Normalizers /\ Normalized(n, ts).last = ts
        /\ Normalized(n, ts).offset = n.offset
    BY <2>1 DEF Normalizers
  <2>3. Wrap(ts - n.last) <= MaxDelta
    <3>1. Wrap(ts - n.last) \in Int  BY <1>1
    <3>2. ~(Wrap(ts - n.last) > MaxDelta)  BY <1>6 DEF Discontinuous
    <3> QED  BY <3>1, <3>2
  <2>4. Wrap(Wrap(ts + n.offset) - Wrap(n.last + n.offset)) = Wrap(ts - n.last)
    <3> DEFINE a == ts + n.offset
               b == n.last + n.offset
    <3>1. a - b = ts - n.last  BY <1>1
    <3>2. a \in Int /\ b \in Int  BY <1>1
    <3> HIDE DEF a, b
    <3>3. Wrap(Wrap(a) - Wrap(b)) = Wrap(a - b)  BY <3>2, Wrapped
    <3> QED  BY <3>1, <3>3 DEF a, b
  <2> QED  BY <2>2, <2>3, <2>4
<1> QED  BY <1>4, <1>5, <1>6

\* A packet of the stream, or of a new one.
LEMMA ArrivalIsSmooth ==
    ASSUME NormInv, NEW l \in Loops, NEW ssrc \in RemoteSsrcs, NEW ts \in Stamps, NEW audio \in BOOLEAN,
           RtpArrives(l, ssrc, ts, audio)
    PROVE  NormInv' /\ Smooth
<1> DEFINE fresh == engine.ssrc # {} /\ engine.ssrc # {ssrc}
           n == IF fresh THEN NewNormalizer ELSE norm
<1>1. /\ engine' = [engine EXCEPT !.ssrc = {ssrc}, !.fired = FALSE, !.quiet = {0}]
      /\ norm' = IF audio THEN Normalized(n, ts) ELSE n
      /\ played' = IF audio THEN {Wrap(ts + norm'.offset)} ELSE IF fresh THEN {} ELSE played
  BY DEF RtpArrives
<1>2. engine' \in Receiving /\ engine'.ssrc = {ssrc}
  <2> DEFINE from == {ssrc}
             now == {0}
  <2>1. from \in SUBSET RemoteSsrcs /\ now \in SUBSET Nat  OBVIOUS
  <2>2. engine' = [engine EXCEPT !.ssrc = from, !.fired = FALSE, !.quiet = now]  BY <1>1
  <2> HIDE DEF from, now
  <2>3. engine' \in Receiving /\ engine'.ssrc = from  BY <2>1, <2>2 DEF NormInv, Receiving
  <2> QED  BY <2>3 DEF from
<1>3. n \in Normalizers  BY DEF NormInv, NewNormalizer, Normalizers
<1>4. ts \in Int  BY DEF Stamps
<1>5. fresh => engine'.ssrc # engine.ssrc  BY <1>2
<1>6. ~fresh => n = norm  OBVIOUS
<1> HIDE DEF fresh, n
<1>7. CASE audio
  <2>1. /\ norm' \in Normalizers /\ norm'.last = ts /\ played' = {Wrap(ts + norm'.offset)}
        /\ n.mapped => Wrap(Wrap(ts + norm'.offset) - Wrap(n.last + n.offset)) <= MaxDelta
    BY <1>1, <1>3, <1>4, <1>7, NormalizedIs
  <2>2. NormInv'  BY <1>2, <2>1 DEF NormInv
  <2>3. Smooth
    <3> SUFFICES ASSUME NEW was \in played, NEW is \in played',
                        norm.mapped, engine.ssrc' = engine.ssrc
                 PROVE  Wrap(is - was) <= MaxDelta
      BY DEF Smooth
    <3>1. n = norm  BY <1>5, <1>6
    <3> QED  BY <2>1, <3>1 DEF NormInv
  <2> QED  BY <2>2, <2>3
<1>8. CASE ~audio
  <2>1. norm' = n /\ played' = IF fresh THEN {} ELSE played  BY <1>1, <1>8
  <2>2. NormInv'  BY <1>2, <1>3, <1>6, <2>1 DEF NormInv
  <2>3. Smooth
    <3> SUFFICES ASSUME NEW was \in played, NEW is \in played' PROVE Wrap(is - was) <= MaxDelta
      BY DEF Smooth
    <3>1. is = was /\ was = Wrap(norm.last + norm.offset)  BY <2>1 DEF NormInv
    <3>2. norm.last + norm.offset \in Int  BY DEF NormInv, Normalizers
    <3>3. was \in Int  BY <3>1, <3>2, StampConstants
    <3> QED  BY <3>1, <3>3, StampConstants
  <2> QED  BY <2>2, <2>3
<1> QED  BY <1>7, <1>8

\* Within a stream the timestamps that reach the jitter buffer neither go back nor jump,
\* whatever the far end does with its own and wherever they wrap (TimestampNormalizer).
THEOREM NormalizedSmoothHolds == RtpEngineSpec => NormalizedSmooth
<1>1. RtpEngineInit => NormInv
  BY DEF RtpEngineInit, NewEngine, NewNormalizer, NormInv, Normalizers, Receiving
<1>2. NormInv /\ [RtpEngineNext]_engineVars => NormInv' /\ Smooth
  <2> SUFFICES ASSUME NormInv, [RtpEngineNext]_engineVars PROVE NormInv' /\ Smooth  OBVIOUS
  <2>1. ASSUME UNCHANGED <<norm, played>>, engine' \in Receiving PROVE NormInv' /\ Smooth
    <3>1. NormInv'  BY <2>1 DEF NormInv
    <3>2. norm.last + norm.offset \in Int  BY DEF NormInv, Normalizers
    <3>3. Smooth
      <4> SUFFICES ASSUME NEW was \in played, NEW is \in played' PROVE Wrap(is - was) <= MaxDelta
        BY DEF Smooth
      <4>1. is = was /\ was \in Int  BY <2>1, <3>2, StampConstants DEF NormInv
      <4> QED  BY <4>1, StampConstants
    <3> QED  BY <3>1, <3>3
  <2>2. CASE UNCHANGED engineVars  BY <2>1, <2>2 DEF engineVars, NormInv
  <2>3. ASSUME NEW l \in Loops, Start(l) \/ ArrivesRefused(l) \/ RecvTimesOut(l)
        PROVE  NormInv' /\ Smooth
    <3>1. UNCHANGED <<norm, played>> /\ engine' \in Receiving
      BY <2>3 DEF Start, ArrivesRefused, RecvTimesOut, NormInv, Receiving
    <3> QED  BY <2>1, <3>1
  <2>4. ASSUME NEW on \in BOOLEAN, SetHoldState(on) PROVE NormInv' /\ Smooth
    BY <2>1, <2>4 DEF SetHoldState, NormInv, Receiving
  <2>5. CASE StopEngine  BY <2>1, <2>5 DEF StopEngine, NormInv, Receiving
  <2>6. CASE Silence
    <3>1. PICK q \in engine.quiet : engine' = [engine EXCEPT !.quiet = {q + 1}]
      BY <2>6 DEF Silence
    <3>2. q + 1 \in Nat  BY DEF NormInv, Receiving
    <3>3. engine' \in Receiving  BY <3>1, <3>2 DEF NormInv, Receiving
    <3> QED  BY <2>1, <2>6, <3>3 DEF Silence
  <2> QED  BY <2>2, <2>3, <2>4, <2>5, <2>6, ArrivalIsSmooth DEF RtpEngineNext
<1> QED  BY <1>1, <1>2, PTL DEF RtpEngineSpec, NormalizedSmooth, Smooth

----------------------------------------------------------------------------
(* The statistics of a call.                                               *)

RtcpSeqs == 0 .. RtcpSeqMod - 1
Remotes == [ssrc : SUBSET RtcpSsrcs, received : Nat, expected : Nat, ext : Nat, cycles : Nat,
            highest : RtcpSeqs, first : BOOLEAN, base : RtcpSeqs, lastReceived : Nat, lastExpected : Nat]

\* The cycles and the highest sequence number stand for the greatest index heard.
Follows(r, s) ==
    /\ s.base <= s.top /\ r.highest = s.top % RtcpSeqMod
    /\ r.cycles * RtcpSeqMod + r.highest - r.base = s.top - s.base
    /\ r.expected = s.top - s.base + 1

\* What makes ReportsCount inductive.
CountInv ==
    /\ remote \in Remotes /\ span \in [base : Nat, top : Nat]
    /\ remote.first => Follows(remote, span)
    /\ ~remote.first => /\ remote.received = 0 /\ remote.lastReceived = 0
                        /\ remote.expected = 0 /\ remote.lastExpected = 0
    /\ remote.lastExpected <= remote.expected /\ remote.lastReceived <= remote.received

\* The constants, without the set of the assumption.
LEMMA RtcpConstants ==
    /\ RtcpSeqMod \in Nat \ {0} /\ {MaxDropout, MaxMisorder, MaxBurst, MaxLate} \subseteq Nat
    /\ MaxBurst + MaxLate + MaxMisorder < RtcpSeqMod /\ MaxDropout + MaxLate <= RtcpSeqMod
BY RtcpAssumption

\* The sequence number of a packet no cycle ahead, and how far ahead it seems.
LEMMA SeqAhead ==
    ASSUME NEW top \in Nat, NEW d \in 0 .. RtcpSeqMod - 1
    PROVE  /\ (top + d) % RtcpSeqMod = IF (top % RtcpSeqMod) + d < RtcpSeqMod
                                       THEN (top % RtcpSeqMod) + d
                                       ELSE (top % RtcpSeqMod) + d - RtcpSeqMod
           /\ (((top + d) % RtcpSeqMod) - (top % RtcpSeqMod)) % RtcpSeqMod = d
<1> DEFINE M == RtcpSeqMod
           k == top \div M
           h == top % M
<1>1. M \in Nat \ {0}  BY RtcpConstants
<1>2. k \in Int /\ h \in 0 .. M - 1 /\ top = k * M + h /\ k * M \in Int
  BY <1>1
<1> HIDE DEF k, h, M
<1>3. (top + d) % M = IF h + d < M THEN h + d ELSE h + d - M
  <2>1. CASE h + d < M
    <3>1. h + d \in 0 .. M - 1  BY <1>1, <1>2, <2>1 DEF M
    <3>2. (k * M + (h + d)) % M = h + d  BY <1>1, <1>2, <3>1, Remainder
    <3>3. top + d = k * M + (h + d)  BY <1>2
    <3> QED  BY <2>1, <3>2, <3>3
  <2>2. CASE ~(h + d < M)
    <3> DEFINE q == k + 1
               r == h + d - M
    <3>1. q \in Int /\ r \in 0 .. M - 1  BY <1>1, <1>2, <2>2 DEF M
    <3>2. q * M = k * M + M  BY <1>1, <1>2
    <3>3. top + d = q * M + r  BY <1>1, <1>2, <3>2
    <3> HIDE DEF q, r
    <3>4. (q * M + r) % M = r  BY <1>1, <3>1, Remainder
    <3> QED  BY <2>2, <3>3, <3>4 DEF r
  <2> QED  BY <2>1, <2>2
<1>4. (((top + d) % M) - (top % M)) % M = d
  <2> DEFINE i == top + d
  <2>1. i \in Int /\ top \in Int /\ i - top = d /\ d \in 0 .. M - 1 /\ 0 \in Int
    BY <1>1 DEF M
  <2> HIDE DEF i
  <2>2. ((i % M) - (top % M)) % M = (i - top) % M  BY <1>1, <2>1, RemainderOfStep
  <2>3. (0 * M + d) % M = d  BY <1>1, <2>1, Remainder
  <2>4. 0 * M + d = d  BY <1>1, <2>1
  <2>5. ((i % M) - (top % M)) % M = d  BY <2>1, <2>2, <2>3, <2>4
  <2> QED  BY <2>5 DEF i
<1> QED  BY <1>3, <1>4 DEF h, M

\* A packet behind seems almost a cycle ahead.
LEMMA SeqBehind ==
    ASSUME NEW top \in Nat, NEW i \in Nat, NEW e \in 1 .. RtcpSeqMod - 1, i = top - e
    PROVE  ((i % RtcpSeqMod) - (top % RtcpSeqMod)) % RtcpSeqMod = RtcpSeqMod - e
<1> DEFINE M == RtcpSeqMod
<1>1. M \in Nat \ {0} /\ e \in 1 .. M - 1  BY RtcpConstants
<1> HIDE DEF M
<1>2. i \in Int /\ top \in Int  OBVIOUS
<1>3. ((i % M) - (top % M)) % M = (i - top) % M  BY <1>1, <1>2, RemainderOfStep
<1> DEFINE q == -1
           r == M - e
<1>4. q \in Int /\ r \in 0 .. M - 1  BY <1>1
<1>5. q * M + r = i - top  BY <1>1
<1> HIDE DEF q, r
<1>6. (q * M + r) % M = r  BY <1>1, <1>4, Remainder
<1> QED  BY <1>3, <1>5, <1>6 DEF r, M

\* The end of record_rtp_received: what is expected follows from the cycles, the highest
\* number and the base.
LEMMA SpannedIs ==
    ASSUME NEW u \in Remotes
    PROVE  /\ Spanned(u) \in Remotes
           /\ \A f \in {"ssrc", "received", "cycles", "highest", "first", "base", "lastReceived", "lastExpected"} :
                 Spanned(u)[f] = u[f]
           /\ Spanned(u).expected =
                 LET over == u.cycles * RtcpSeqMod + u.highest - u.base IN (IF over > 0 THEN over ELSE 0) + 1
<1> DEFINE e == u.cycles * RtcpSeqMod + u.highest
           n == (IF e > u.base THEN e - u.base ELSE 0) + 1
           over == u.cycles * RtcpSeqMod + u.highest - u.base
<1>1. u.cycles \in Nat /\ u.highest \in Nat /\ u.base \in Nat /\ RtcpSeqMod \in Nat
  BY RtcpConstants DEF Remotes, RtcpSeqs
<1>2. \A a, b \in Nat : a * b \in Nat  OBVIOUS
<1>3. u.cycles * RtcpSeqMod \in Nat  BY <1>1, <1>2
<1>4. e \in Nat /\ n \in Nat /\ n = (IF over > 0 THEN over ELSE 0) + 1  BY <1>1, <1>3
<1>5. Spanned(u) = [u EXCEPT !.ext = e, !.expected = n]  BY DEF Spanned
<1> HIDE DEF e, n, over
<1>6. /\ Spanned(u) \in Remotes /\ Spanned(u).expected = n
      /\ Spanned(u).ssrc = u.ssrc /\ Spanned(u).received = u.received /\ Spanned(u).cycles = u.cycles
      /\ Spanned(u).highest = u.highest /\ Spanned(u).first = u.first /\ Spanned(u).base = u.base
      /\ Spanned(u).lastReceived = u.lastReceived /\ Spanned(u).lastExpected = u.lastExpected
  BY <1>4, <1>5 DEF Remotes
<1> QED  BY <1>4, <1>6 DEF over

\* A stream that begins, or begins again, at packet i.
LEMMA BeginsAt ==
    ASSUME NEW u \in Remotes, NEW i \in Nat, u.first, u.cycles = 0,
           u.highest = i % RtcpSeqMod, u.base = i % RtcpSeqMod
    PROVE  Follows(Spanned(u), [base |-> i, top |-> i])
<1> DEFINE v == Spanned(u)
           s == [base |-> i, top |-> i]
<1>1. i % RtcpSeqMod \in Nat /\ 0 * RtcpSeqMod = 0  BY RtcpConstants
<1>2. /\ v.cycles = 0 /\ v.highest = i % RtcpSeqMod /\ v.base = i % RtcpSeqMod
      /\ v.expected = (LET over == u.cycles * RtcpSeqMod + u.highest - u.base IN IF over > 0 THEN over ELSE 0) + 1
  BY SpannedIs
<1>3. v.expected = 1  BY <1>1, <1>2
<1> HIDE DEF v
<1>4. s.base = i /\ s.top = i  OBVIOUS
<1> HIDE DEF s
<1>5. Follows(v, s)  BY <1>1, <1>2, <1>3, <1>4 DEF Follows
<1> QED  BY <1>5 DEF v, s

\* A packet of the stream that is d packets ahead of the greatest one heard.
LEMMA GoesOn ==
    ASSUME NEW u \in Remotes, NEW s \in [base : Nat, top : Nat], Follows(u, s),
           NEW d \in 0 .. RtcpSeqMod - 1, NEW v \in Remotes,
           v.highest = (s.top + d) % RtcpSeqMod, v.base = u.base,
           v.cycles = IF v.highest < u.highest THEN u.cycles + 1 ELSE u.cycles
    PROVE  /\ Follows(Spanned(v), [s EXCEPT !.top = s.top + d])
           /\ Spanned(v).expected >= u.expected
<1> DEFINE M == RtcpSeqMod
           w == Spanned(v)
           t == [s EXCEPT !.top = s.top + d]
           cu == u.cycles * M
           cv == v.cycles * M
<1>1. M \in Nat \ {0} /\ d \in 0 .. M - 1 /\ s.top \in Nat /\ s.base \in Nat
  BY RtcpConstants
<1>2. /\ u.cycles \in Nat /\ v.cycles \in Nat /\ u.highest \in Nat /\ v.highest \in Nat
      /\ u.base \in Nat /\ v.base \in Nat
  BY DEF Remotes, RtcpSeqs
<1>3. cu \in Nat /\ cv \in Nat /\ cv = IF v.highest < u.highest THEN cu + M ELSE cu
  <2>1. \A a, b \in Nat : a * b \in Nat  OBVIOUS
  <2>2. (u.cycles + 1) * M = u.cycles * M + M  BY <1>1, <1>2
  <2> QED  BY <1>1, <1>2, <2>1, <2>2
<1>4. /\ s.base <= s.top /\ u.highest = s.top % M
      /\ cu + u.highest - u.base = s.top - s.base /\ u.expected = s.top - s.base + 1
  BY DEF Follows
<1>5. v.highest = IF u.highest + d < M THEN u.highest + d ELSE u.highest + d - M
  BY <1>1, <1>4, SeqAhead
<1>6. /\ w.cycles = v.cycles /\ w.highest = v.highest /\ w.base = v.base
      /\ w.expected = (LET over == cv + v.highest - v.base IN IF over > 0 THEN over ELSE 0) + 1
  BY SpannedIs
<1>7. t.base = s.base /\ t.top = s.top + d  OBVIOUS
<1>8. v.highest = (s.top + d) % M  OBVIOUS
<1> HIDE DEF M, w, t, cu
<1>9. cv + v.highest - v.base = s.top + d - s.base
  <2> HIDE DEF cv
  <2> QED  BY <1>1, <1>2, <1>3, <1>4, <1>5
<1>10. w.expected = s.top + d - s.base + 1
  <2> HIDE DEF cv
  <2> QED  BY <1>1, <1>2, <1>3, <1>4, <1>6, <1>9
<1>11. w.expected >= u.expected  BY <1>1, <1>4, <1>10
<1>12. Follows(w, t)
  <2>1. w.cycles * M + w.highest - w.base = t.top - t.base  BY <1>6, <1>7, <1>9
  <2>2. w.highest = t.top % M /\ t.base <= t.top  BY <1>1, <1>4, <1>6, <1>7, <1>8
  <2>3. w.expected = t.top - t.base + 1  BY <1>7, <1>10
  <2> QED  BY <2>1, <2>2, <2>3 DEF Follows, M
<1> QED  BY <1>11, <1>12 DEF w, t

\* A packet counted: it begins a stream, goes on with it, begins it again after a jump,
\* or is late.
LEMMA HeardCounts ==
    ASSUME CountInv, NEW ssrc \in RtcpSsrcs, NEW i \in Nat, RtpHeard(ssrc, i)
    PROVE  CountInv'
<1> DEFINE s == Sourced(remote, ssrc)
           seq == i % RtcpSeqMod
           n == s.received + 1
           t == [s EXCEPT !.received = n]
           begun == [base |-> i, top |-> i]
<1>1. /\ s \in Remotes /\ n \in Nat
      /\ s.lastExpected <= s.expected /\ s.lastReceived <= s.received
      /\ s.first => Follows(s, span)
      /\ ~s.first => s.lastReceived = 0 /\ s.lastExpected = 0 /\ s.received = 0
  <2>1. {ssrc} \in SUBSET RtcpSsrcs /\ 0 \in RtcpSeqs  BY RtcpConstants DEF RtcpSeqs
  <2> DEFINE from == {ssrc}
  <2>2. s = [remote EXCEPT !.ssrc = from] \/ s = [NewRemote EXCEPT !.ssrc = from]
    BY DEF Sourced, ResetRemote
  <2>3. NewRemote \in Remotes /\ NewRemote.first = FALSE /\ NewRemote.lastReceived = 0
        /\ NewRemote.lastExpected = 0 /\ NewRemote.received = 0 /\ NewRemote.expected = 0
    BY <2>1 DEF NewRemote, Remotes
  <2> HIDE DEF s, from
  <2>4. from \in SUBSET RtcpSsrcs  BY <2>1 DEF from
  <2>5. PICK r \in {remote, NewRemote} : s = [r EXCEPT !.ssrc = from]  BY <2>2
  <2>6. r \in Remotes  BY <2>3 DEF CountInv
  <2>7. /\ s \in Remotes /\ s.received = r.received /\ s.expected = r.expected
        /\ s.first = r.first /\ s.cycles = r.cycles /\ s.highest = r.highest /\ s.base = r.base
        /\ s.lastReceived = r.lastReceived /\ s.lastExpected = r.lastExpected
    BY <2>4, <2>5, <2>6 DEF Remotes
  <2>8. CASE r = remote  BY <2>7, <2>8 DEF CountInv, Follows, Remotes
  <2>9. CASE r = NewRemote  BY <2>3, <2>7, <2>9 DEF Remotes
  <2> QED  BY <2>5, <2>8, <2>9
<1>2. /\ s.first => i \in span.top - MaxLate .. span.top + MaxBurst
      /\ remote' = Spanned(Tracked(t, seq))
      /\ span' = IF ~s.first \/ Rebases(s, seq) THEN begun
                 ELSE [span EXCEPT !.top = IF i > span.top THEN i ELSE span.top]
  BY DEF RtpHeard, Heard
<1> HIDE DEF s, n
<1>3. /\ t \in Remotes /\ t.received = n /\ t.first = s.first /\ t.cycles = s.cycles
      /\ t.highest = s.highest /\ t.base = s.base /\ t.expected = s.expected
      /\ t.lastReceived = s.lastReceived /\ t.lastExpected = s.lastExpected
  BY <1>1 DEF Remotes
<1>4. /\ seq \in RtcpSeqs /\ seq \in Nat /\ RtcpSeqMod \in Nat \ {0}
      /\ s.received \in Nat /\ s.lastReceived \in Nat /\ s.lastExpected \in Nat /\ s.expected \in Nat
      /\ s.lastReceived <= n /\ s.highest \in Nat /\ s.base \in Nat
  BY <1>1, RtcpConstants DEF RtcpSeqs, Remotes, n
<1>5. Ahead(t, seq) <=> Ahead(s, seq)  BY <1>3 DEF Ahead
<1>6. Rebases(t, seq) <=> Rebases(s, seq)  BY <1>3, <1>5 DEF Rebases
<1>7. span \in [base : Nat, top : Nat] /\ span.top \in Nat /\ span.base \in Nat  BY DEF CountInv
<1>8. begun \in [base : Nat, top : Nat]  OBVIOUS
<1> HIDE DEF t, begun
<1>9. ASSUME NEW u \in Remotes, remote' = Spanned(u), u.first, Follows(Spanned(u), span'),
             span' \in [base : Nat, top : Nat],
             u.lastExpected <= Spanned(u).expected, u.lastReceived <= u.received
      PROVE  CountInv'
  <2>1. Spanned(u) \in Remotes /\ Spanned(u).first /\ Spanned(u).received = u.received
        /\ Spanned(u).lastReceived = u.lastReceived /\ Spanned(u).lastExpected = u.lastExpected
    BY <1>9, SpannedIs
  <2> QED  BY <1>9, <2>1 DEF CountInv
<1>10. CASE ~s.first
  <2> DEFINE u == Based(t, seq)
  <2>1. /\ u \in Remotes /\ u.first /\ u.cycles = 0 /\ u.highest = seq /\ u.base = seq
        /\ u.received = n /\ u.lastReceived = 0 /\ u.lastExpected = 0
    BY <1>1, <1>3, <1>4, <1>10 DEF Based, Remotes
  <2>2. remote' = Spanned(u) /\ span' = begun
    BY <1>2, <1>3, <1>10 DEF Tracked
  <2> HIDE DEF u
  <2>3. Follows(Spanned(u), begun)  BY <2>1, BeginsAt DEF begun
  <2>4. Spanned(u).expected \in Nat  BY <2>1, SpannedIs DEF Remotes
  <2> QED  BY <1>1, <1>8, <1>9, <2>1, <2>2, <2>3, <2>4
<1>11. CASE s.first /\ Rebases(s, seq)
  <2> DEFINE u == [Based(t, seq) EXCEPT !.received = 1, !.lastReceived = 0, !.lastExpected = 0]
  <2>1. ~Ahead(t, seq)  BY <1>5, <1>11 DEF Rebases
  <2>2. Based(t, seq) \in Remotes /\ Based(t, seq).first /\ Based(t, seq).cycles = 0
        /\ Based(t, seq).highest = seq /\ Based(t, seq).base = seq
    BY <1>3, <1>4 DEF Based, Remotes
  <2>3. /\ u \in Remotes /\ u.first /\ u.cycles = 0 /\ u.highest = seq /\ u.base = seq
        /\ u.received = 1 /\ u.lastReceived = 0 /\ u.lastExpected = 0
    BY <2>2 DEF Remotes
  <2>4. remote' = Spanned(u) /\ span' = begun
    BY <1>2, <1>3, <1>6, <1>11, <2>1 DEF Tracked
  <2> HIDE DEF u
  <2>5. Follows(Spanned(u), begun)  BY <2>3, BeginsAt DEF begun
  <2>6. Spanned(u).expected \in Nat  BY <2>3, SpannedIs DEF Remotes
  <2> QED  BY <1>8, <1>9, <2>3, <2>4, <2>5, <2>6
<1>12. CASE s.first /\ ~Rebases(s, seq)
  <2>1. Follows(s, span) /\ Follows(t, span) /\ t.first
    BY <1>1, <1>3, <1>12 DEF Follows
  <2>2. s.highest = span.top % RtcpSeqMod /\ span.base <= span.top
    BY <2>1 DEF Follows
  <2>3. CASE i >= span.top
    <3> DEFINE d == i - span.top
    <3>1. d \in 0 .. MaxBurst /\ d \in 0 .. RtcpSeqMod - 1 /\ i = span.top + d
      BY <1>2, <1>7, <1>12, <2>3, RtcpConstants
    <3> HIDE DEF d
    <3>2. (seq - s.highest) % RtcpSeqMod = d
      BY <1>7, <2>2, <3>1, SeqAhead
    <3>3. Ahead(t, seq)
      <4>1. d < MaxDropout \/ d <= RtcpSeqMod - 1 - MaxMisorder
        BY <3>1, RtcpConstants
      <4> QED  BY <1>5, <1>12, <3>2, <4>1 DEF Ahead, Rebases
    <3> DEFINE c == IF seq < t.highest THEN t.cycles + 1 ELSE t.cycles
               u == [t EXCEPT !.cycles = c, !.highest = seq]
    <3>4. c \in Nat  BY <1>3 DEF Remotes
    <3>5. Tracked(t, seq) = u  BY <2>1, <3>3 DEF Tracked
    <3>6. u \in Remotes /\ u.first /\ u.cycles = c /\ u.highest = seq /\ u.base = t.base
          /\ u.received = n /\ u.lastReceived = s.lastReceived /\ u.lastExpected = s.lastExpected
      <4> HIDE DEF c
      <4> QED  BY <1>3, <1>4, <2>1, <3>4 DEF Remotes
    <3> HIDE DEF u
    <3>7. /\ Follows(Spanned(u), [span EXCEPT !.top = span.top + d])
          /\ Spanned(u).expected >= t.expected
      BY <1>3, <1>7, <2>1, <3>1, <3>6, GoesOn
    <3>8. span' = [span EXCEPT !.top = span.top + d]
      BY <1>2, <1>7, <1>12, <2>3, <3>1
    <3>9. span' \in [base : Nat, top : Nat]  BY <1>7, <3>1, <3>8
    <3>10. Spanned(u).expected \in Nat  BY <3>6, SpannedIs DEF Remotes
    <3>11. u.lastExpected <= Spanned(u).expected
      BY <1>1, <1>3, <1>4, <3>6, <3>7, <3>10
    <3> QED  BY <1>2, <1>4, <1>9, <3>5, <3>6, <3>7, <3>8, <3>9, <3>11
  <2>4. CASE i < span.top
    <3> DEFINE e == span.top - i
    <3>1. e \in 1 .. MaxLate /\ e \in 1 .. RtcpSeqMod - 1 /\ i = span.top - e
      BY <1>2, <1>7, <1>12, <2>4, RtcpConstants
    <3> HIDE DEF e
    <3>2. (seq - s.highest) % RtcpSeqMod = RtcpSeqMod - e
      BY <1>7, <2>2, <3>1, SeqBehind
    <3>3. ~Ahead(t, seq)
      <4>1. ~(RtcpSeqMod - e < MaxDropout)  BY <3>1, RtcpConstants
      <4> QED  BY <1>5, <3>2, <4>1 DEF Ahead
    <3>4. Tracked(t, seq) = t  BY <1>6, <1>12, <2>1, <3>3 DEF Tracked
    <3>5. span' = span  BY <1>2, <1>7, <1>12, <2>4
    <3>6. /\ Follows(Spanned(t), [span EXCEPT !.top = span.top + 0])
          /\ Spanned(t).expected >= t.expected
      <4>1. 0 \in 0 .. RtcpSeqMod - 1 /\ span.top + 0 = span.top  BY <1>4, <1>7
      <4>2. ~(t.highest < t.highest)  BY <1>3, <1>4
      <4>3. t.highest = (span.top + 0) % RtcpSeqMod  BY <1>3, <2>2, <4>1
      <4> QED  BY <1>3, <1>7, <2>1, <4>1, <4>2, <4>3, GoesOn
    <3>7. [span EXCEPT !.top = span.top + 0] = span  BY <1>7
    <3>8. Spanned(t).expected \in Nat  BY <1>3, SpannedIs DEF Remotes
    <3>9. t.lastExpected <= Spanned(t).expected  BY <1>1, <1>3, <1>4, <3>6, <3>8
    <3> QED  BY <1>2, <1>3, <1>4, <1>7, <1>9, <2>1, <3>4, <3>5, <3>6, <3>7, <3>9
  <2> QED  BY <1>7, <2>3, <2>4
<1> QED  BY <1>10, <1>11, <1>12

\* What a report expects is what lies between the base packet and the greatest heard,
\* across wraps, and no interval of a report is negative (build_report_blocks).
THEOREM ReportsCountHolds == RtcpSessionSpec => []ReportsCount
<1>1. RtcpSessionInit => CountInv
  <2>1. 0 \in RtcpSeqs  BY RtcpConstants DEF RtcpSeqs
  <2>2. NewRemote \in Remotes /\ NewRemote.first = FALSE /\ NewRemote.lastReceived = 0
        /\ NewRemote.lastExpected = 0 /\ NewRemote.received = 0 /\ NewRemote.expected = 0
    BY <2>1 DEF NewRemote, Remotes
  <2> QED  BY <2>2 DEF RtcpSessionInit, CountInv
<1>2. CountInv /\ [RtcpSessionNext]_rtcpSessionVars => CountInv'
  <2> SUFFICES ASSUME CountInv, [RtcpSessionNext]_rtcpSessionVars PROVE CountInv'  OBVIOUS
  <2>1. ASSUME UNCHANGED <<remote, span>> PROVE CountInv'  BY <2>1 DEF CountInv
  <2>2. ASSUME NEW s \in RtcpSsrcs, NEW i \in 0 .. MaxRtpSent, RtpHeard(s, i) PROVE CountInv'
    <3>1. i \in Nat  BY RtcpAssumption
    <3> QED  BY <2>2, <3>1, HeardCounts
  <2>3. ASSUME NEW sender \in BOOLEAN, ReportSent(sender) PROVE CountInv'
    <3>1. remote' = ReportedUpTo(remote) /\ UNCHANGED span  BY <2>3 DEF ReportSent
    <3>2. /\ remote' \in Remotes /\ remote'.received = remote.received
          /\ remote'.expected = remote.expected /\ remote'.first = remote.first
          /\ remote'.cycles = remote.cycles /\ remote'.highest = remote.highest
          /\ remote'.base = remote.base
          /\ remote'.lastReceived = remote.received /\ remote'.lastExpected = remote.expected
      BY <3>1 DEF ReportedUpTo, CountInv, Remotes
    <3>3. remote.received \in Nat /\ remote.expected \in Nat  BY DEF CountInv, Remotes
    <3> QED  BY <3>1, <3>2, <3>3 DEF CountInv, Follows
  <2>4. ASSUME NEW answers \in 1 .. reports.last, ReportHeard(answers) PROVE CountInv'
    BY <2>1, <2>4 DEF ReportHeard
  <2> QED  BY <2>1, <2>2, <2>3, <2>4 DEF RtcpSessionNext, rtcpSessionVars
<1>3. CountInv => ReportsCount  BY DEF CountInv, ReportsCount, Follows
<1> QED  BY <1>1, <1>2, <1>3, PTL DEF RtcpSessionSpec

----------------------------------------------------------------------------
(* The jitter buffer.                                                      *)

Numbers == 0 .. JitterSeqMod - 1
Lead(a, b) == (b - a) % JitterSeqMod

LEMMA JitterConstants ==
    /\ JitterSeqMod \in Nat \ {0} /\ JitterSeqMod \div 2 \in Nat /\ 2 * (JitterSeqMod \div 2) = JitterSeqMod
    /\ {MinDelay, TargetDelay, MaxDelay, BigGap, BigGapEnd, JumpPackets, MaxSent} \subseteq Nat
    /\ {MaxPackets, MaxWait, AdaptEvery, DriftEvery, DriftLooks, Ptime} \subseteq Nat \ {0}
    /\ BigGap < JitterSeqMod \div 2 /\ JitterSeqMod \div 2 < BigGapEnd
    /\ JumpPackets * (MaxPackets + 1) < JitterSeqMod \div 2
    /\ FirstSeq \in Numbers /\ 2 < JitterSeqMod
<1>1. JitterSeqMod \in Nat /\ JitterSeqMod % 2 = 0 /\ BigGap \in Nat /\ 0 < BigGap
      /\ BigGap < JitterSeqMod \div 2
  BY JitterAssumption
<1> DEFINE M == JitterSeqMod
           h == M \div 2
           r == M % 2
<1>2. h \in Int /\ M = 2 * h + r /\ r = 0 /\ M \in Nat /\ h > 1  BY <1>1
<1> HIDE DEF h, r, M
<1>3. h \in Nat /\ M = 2 * h /\ M > 2  BY <1>2
<1> QED  BY <1>3, JitterAssumption DEF M, h, Numbers

\* Numbers that agree modulo m do so when the same is added to both.
LEMMA SameSum ==
    ASSUME NEW m \in Nat \ {0}, NEW x \in Int, NEW y \in Int, NEW u \in Int, x % m = y % m
    PROVE  (x + u) % m = (y + u) % m
<1> DEFINE v == -u
<1>1. v \in Int /\ x - v = x + u /\ y - v = y + u  OBVIOUS
<1> HIDE DEF v
<1>2. ((x % m) - (v % m)) % m = (x - v) % m  BY <1>1, RemainderOfStep
<1>3. ((y % m) - (v % m)) % m = (y - v) % m  BY <1>1, RemainderOfStep
<1> QED  BY <1>1, <1>2, <1>3

\* How far one number is ahead of another.
LEMMA LeadIs ==
    ASSUME NEW a \in Numbers, NEW b \in Numbers
    PROVE  /\ Lead(a, b) = IF a <= b THEN b - a ELSE b - a + JitterSeqMod
           /\ Lead(a, b) \in Numbers
<1> DEFINE M == JitterSeqMod
<1>1. M \in Nat \ {0} /\ a \in 0 .. M - 1 /\ b \in 0 .. M - 1  BY JitterConstants DEF Numbers
<1> HIDE DEF M
<1>2. CASE a <= b
  <2>1. 0 \in Int /\ b - a \in 0 .. M - 1 /\ 0 * M + (b - a) = b - a  BY <1>1, <1>2
  <2>2. (0 * M + (b - a)) % M = b - a  BY <1>1, <2>1, Remainder
  <2>3. (b - a) % M = b - a  BY <2>1, <2>2
  <2> QED  BY <1>2, <2>1, <2>3 DEF Lead, M, Numbers
<1>3. CASE ~(a <= b)
  <2> DEFINE q == -1
             r == b - a + M
  <2>1. q \in Int /\ r \in 0 .. M - 1 /\ q * M + r = b - a  BY <1>1, <1>3
  <2> HIDE DEF q, r
  <2>2. (q * M + r) % M = r  BY <1>1, <2>1, Remainder
  <2>3. (b - a) % M = r  BY <2>1, <2>2
  <2>4. r = b - a + M  BY DEF r
  <2> QED  BY <1>3, <2>1, <2>3, <2>4 DEF Lead, M, Numbers
<1> QED  BY <1>2, <1>3

\* The number after another one.
LEMMA NextIs ==
    ASSUME NEW a \in Numbers
    PROVE  /\ (a + 1) % JitterSeqMod \in Numbers
           /\ (a + 1) % JitterSeqMod = IF a + 1 < JitterSeqMod THEN a + 1 ELSE 0
<1> DEFINE M == JitterSeqMod
<1>1. M \in Nat \ {0} /\ a \in 0 .. M - 1 /\ M > 2  BY JitterConstants DEF Numbers
<1> HIDE DEF M
<1>2. CASE a + 1 < M
  <2>1. 0 \in Int /\ a + 1 \in 0 .. M - 1 /\ 0 * M + (a + 1) = a + 1  BY <1>1, <1>2
  <2>2. (0 * M + (a + 1)) % M = a + 1  BY <1>1, <2>1, Remainder
  <2> QED  BY <1>2, <2>1, <2>2 DEF M, Numbers
<1>3. CASE ~(a + 1 < M)
  <2>1. 1 \in Int /\ 0 \in 0 .. M - 1 /\ 1 * M + 0 = a + 1  BY <1>1, <1>3
  <2>2. (1 * M + 0) % M = 0  BY <1>1, <2>1, Remainder
  <2>3. (a + 1) % M = 0  BY <2>1, <2>2
  <2> QED  BY <1>3, <2>1, <2>3 DEF M, Numbers
<1> QED  BY <1>2, <1>3

\* sequence_before in terms of it.
LEMMA BeforeIs ==
    ASSUME NEW a \in Numbers, NEW b \in Numbers
    PROVE  /\ Before(a, b) <=> Lead(a, b) \in 1 .. (JitterSeqMod \div 2) - 1
           /\ Lead(a, b) = 0 <=> a = b
           /\ Lead(a, b) + Lead(b, a) = IF a = b THEN 0 ELSE JitterSeqMod
<1>1. JitterSeqMod \in Nat /\ JitterSeqMod \div 2 \in Nat /\ a \in Nat /\ b \in Nat
      /\ a < JitterSeqMod /\ b < JitterSeqMod
  BY JitterConstants DEF Numbers
<1>2. Lead(a, b) \in Nat  BY LeadIs DEF Numbers
<1>3. Before(a, b) <=> Lead(a, b) \in 1 .. (JitterSeqMod \div 2) - 1
  <2>1. Before(a, b) <=> Lead(a, b) > 0 /\ Lead(a, b) < JitterSeqMod \div 2  BY DEF Before, Lead
  <2> QED  BY <1>1, <1>2, <2>1
<1>4. /\ Lead(a, b) = IF a <= b THEN b - a ELSE b - a + JitterSeqMod
      /\ Lead(b, a) = IF b <= a THEN a - b ELSE a - b + JitterSeqMod
  BY LeadIs
<1>5. Lead(a, b) = 0 <=> a = b  BY <1>1, <1>4
<1>6. Lead(a, b) + Lead(b, a) = IF a = b THEN 0 ELSE JitterSeqMod  BY <1>1, <1>4
<1> QED  BY <1>3, <1>5, <1>6

\* The numbers of two packets are as far apart as the packets.
LEMMA PacketsLead ==
    ASSUME NEW p \in Packet, NEW q \in Packet, p <= q, q - p < JitterSeqMod
    PROVE  PacketSeq(p) \in Numbers /\ PacketSeq(q) \in Numbers /\ Lead(PacketSeq(p), PacketSeq(q)) = q - p
<1> DEFINE M == JitterSeqMod
           a == FirstSeq + p
           b == FirstSeq + q
<1>1. M \in Nat \ {0} /\ a \in Int /\ b \in Int /\ b - a = q - p /\ q - p \in 0 .. M - 1
  BY JitterConstants DEF Packet, Numbers
<1>2. PacketSeq(p) = a % M /\ PacketSeq(q) = b % M  BY DEF PacketSeq
<1> HIDE DEF a, b, M
<1>3. a % M \in 0 .. M - 1 /\ b % M \in 0 .. M - 1  BY <1>1
<1>4. ((b % M) - (a % M)) % M = (b - a) % M  BY <1>1, RemainderOfStep
<1>5. 0 \in Int /\ 0 * M + (q - p) = q - p  BY <1>1
<1>6. (0 * M + (q - p)) % M = q - p  BY <1>1, <1>5, Remainder
<1>7. (b - a) % M = q - p  BY <1>1, <1>5, <1>6
<1> QED  BY <1>2, <1>3, <1>4, <1>7 DEF Lead, Numbers, M

\* From: the packets of a set from p on.  A set is InReach of its latest packet when each
\* packet is as many jumps behind it, at most, as there are packets on the way.
From(S, p) == {q \in S : q >= p}
InReach(S, latest) == \A p \in S : p <= latest /\ latest - p <= JumpPackets * Cardinality(From(S, p))

LEMMA PacketsFinite ==
    ASSUME NEW S \in SUBSET Packet
    PROVE  /\ IsFiniteSet(S) /\ Cardinality(S) \in Nat
           /\ \A p : IsFiniteSet(From(S, p)) /\ Cardinality(From(S, p)) \in Nat
                     /\ Cardinality(From(S, p)) <= Cardinality(S)
<1>1. IsFiniteSet(Packet)
  <2>1. 0 \in Int /\ MaxSent - 1 \in Int  BY JitterConstants
  <2> QED  BY <2>1, FS_Interval DEF Packet
<1>2. IsFiniteSet(S)  BY <1>1, FS_Subset
<1>3. ASSUME NEW p PROVE IsFiniteSet(From(S, p)) /\ Cardinality(From(S, p)) \in Nat
                         /\ Cardinality(From(S, p)) <= Cardinality(S)
  <2>1. From(S, p) \subseteq S  BY DEF From
  <2> QED  BY <1>2, <2>1, FS_Subset, FS_CardinalityType
<1> QED  BY <1>2, <1>3, FS_CardinalityType

\* A set of packets that is not empty has a first one.
LEMMA FirstOfPackets ==
    ASSUME NEW S \in SUBSET Packet, S # {}
    PROVE  \E m \in S : \A q \in S : m <= q
<1> DEFINE Upto(p) == {q \in S : q <= p}
           T == {Upto(p) : p \in S}
<1>1. IsFiniteSet(S) /\ \A p \in S : p \in Nat
  BY PacketsFinite, JitterConstants DEF Packet
<1>2. T \subseteq FiniteSubsetsOf(S) /\ T # {}
  <2>1. T \subseteq SUBSET S /\ T # {}  OBVIOUS
  <2> QED  BY <1>1, <2>1, FS_FiniteSubsetsOfFinite
<1>3. IsWellFoundedOn(StrictSubsetOrdering(S), FiniteSubsetsOf(S))
  BY FS_StrictSubsetOrderingWellFounded
<1>4. PICK X \in T : \A Y \in T : ~(<<Y, X>> \in StrictSubsetOrdering(S))
  <2> HIDE DEF T
  <2> QED  BY <1>2, <1>3, WFMin
<1>5. PICK m \in S : X = Upto(m)  OBVIOUS
<1>6. ASSUME NEW q \in S, ~(m <= q) PROVE FALSE
  <2>1. q \in Nat /\ m \in Nat /\ q < m  BY <1>1, <1>6
  <2>2. Upto(q) \subseteq X /\ m \in X /\ m \notin Upto(q)
    <3>1. \A x \in S : x <= q => x <= m  BY <1>1, <2>1
    <3>2. m <= m /\ ~(m <= q)  BY <2>1
    <3>3. Upto(q) \subseteq Upto(m)  BY <3>1
    <3>4. m \in Upto(m) /\ m \notin Upto(q)  BY <3>2
    <3> QED  BY <1>5, <3>3, <3>4
  <2>3. Upto(q) \in T /\ Upto(q) \in SUBSET S /\ X \in SUBSET S  BY <1>5
  <2>4. <<Upto(q), X>> \in StrictSubsetOrdering(S)
    <3> DEFINE Y == Upto(q)
    <3>1. Y \in SUBSET S /\ X \in SUBSET S /\ Y \subseteq X /\ Y # X  BY <2>2, <2>3
    <3> HIDE DEF Y
    <3>2. <<Y, X>> \in StrictSubsetOrdering(S)  BY <3>1 DEF StrictSubsetOrdering
    <3> QED  BY <3>2 DEF Y
  <2> QED  BY <1>4, <2>3, <2>4
<1> QED  BY <1>6

\* A set of few packets in reach of its latest one spans less than half the numbers.
LEMMA ReachIsShort ==
    ASSUME NEW S \in SUBSET Packet, NEW l, l \in Packet \union {None}, InReach(S, l),
           Cardinality(S) <= MaxPackets + 1, NEW p \in S
    PROVE  p <= l /\ l - p < JitterSeqMod \div 2
<1> DEFINE c == Cardinality(From(S, p))
           h == JitterSeqMod \div 2
<1>1. /\ p \in Nat /\ l \in Int /\ h \in Nat /\ JumpPackets \in Nat /\ MaxPackets \in Nat
      /\ JumpPackets * (MaxPackets + 1) < h /\ Cardinality(S) \in Nat
      /\ c \in Nat /\ c <= Cardinality(S)
  BY JitterConstants, PacketsFinite DEF Packet, None
<1>2. p <= l /\ l - p <= JumpPackets * c  BY DEF InReach
<1>3. JumpPackets * c <= JumpPackets * (MaxPackets + 1)
  <2> HIDE DEF c
  <2>1. c <= MaxPackets + 1  BY <1>1
  <2>2. \A j, a, b \in Nat : a <= b => j * a <= j * b
    <3> SUFFICES ASSUME NEW j \in Nat, NEW a \in Nat, NEW b \in Nat, a <= b PROVE j * a <= j * b
      OBVIOUS
    <3>1. b - a \in Nat  OBVIOUS
    <3>2. j * (b - a) \in Nat /\ j * (b - a) = j * b - j * a /\ j * a \in Nat /\ j * b \in Nat  BY <3>1
    <3> QED  BY <3>2
  <2> QED  BY <1>1, <2>1, <2>2
<1>4. l - p < h
  <2>1. JumpPackets * c \in Int /\ JumpPackets * (MaxPackets + 1) \in Int
    <3> HIDE DEF c
    <3> QED  BY <1>1
  <2> HIDE DEF c, h
  <2> QED  BY <1>1, <1>2, <1>3, <2>1
<1> QED  BY <1>2, <1>4

\* A buffer of packets in reach of each other is ordered by their numbers.
LEMMA ReachOrders ==
    ASSUME NEW S \in SUBSET Packet, NEW l, l \in Packet \union {None}, InReach(S, l),
           Cardinality(S) <= MaxPackets + 1,
           NEW p \in S, NEW q \in S, p < q
    PROVE  /\ q - p < JitterSeqMod \div 2 /\ Before(PacketSeq(p), PacketSeq(q))
           /\ Lead(PacketSeq(p), PacketSeq(q)) = q - p
           /\ ~Before(PacketSeq(q), PacketSeq(p))
<1> DEFINE h == JitterSeqMod \div 2
<1>1. /\ p \in Packet /\ q \in Packet /\ p \in Nat /\ q \in Nat /\ l \in Int
      /\ h \in Nat /\ 2 * h = JitterSeqMod
  BY JitterConstants DEF Packet, None
<1>2. q <= l /\ l - p < h  BY ReachIsShort
<1>4. q - p < h
  <2> HIDE DEF h
  <2> QED  BY <1>1, <1>2
<1>5. /\ PacketSeq(p) \in Numbers /\ PacketSeq(q) \in Numbers
      /\ Lead(PacketSeq(p), PacketSeq(q)) = q - p
  <2>1. p <= q /\ q - p < JitterSeqMod  BY <1>1, <1>4
  <2> QED  BY <1>1, <2>1, PacketsLead
<1>6. q - p \in 1 .. h - 1  BY <1>1, <1>4
<1>7. Before(PacketSeq(p), PacketSeq(q))  BY <1>5, <1>6, BeforeIs
<1>8. ~Before(PacketSeq(q), PacketSeq(p))
  <2>1. PacketSeq(p) # PacketSeq(q)  BY <1>5, <1>6, BeforeIs
  <2>2. (q - p) + Lead(PacketSeq(q), PacketSeq(p)) = JitterSeqMod  BY <1>5, <2>1, BeforeIs
  <2>3. Lead(PacketSeq(q), PacketSeq(p)) \in Nat  BY <1>5, LeadIs DEF Numbers
  <2>4. ~(Lead(PacketSeq(q), PacketSeq(p)) \in 1 .. h - 1)
    <3> HIDE DEF h
    <3> QED  BY <1>1, <1>6, <2>2, <2>3
  <2> QED  BY <1>5, <2>4, BeforeIs
<1> QED  BY <1>4, <1>5, <1>7, <1>8

\* No two packets of the buffer have the same number.
LEMMA NumbersDiffer ==
    ASSUME NEW S \in SUBSET Packet, NEW l, l \in Packet \union {None}, InReach(S, l),
           Cardinality(S) <= MaxPackets + 1,
           NEW p \in S, NEW q \in S, PacketSeq(p) = PacketSeq(q)
    PROVE  p = q
<1>1. \A a \in Numbers : ~Before(a, a)
  <2> SUFFICES ASSUME NEW a \in Numbers PROVE ~Before(a, a)
    OBVIOUS
  <2>1. Lead(a, a) = 0 /\ (Before(a, a) <=> Lead(a, a) \in 1 .. (JitterSeqMod \div 2) - 1)  BY BeforeIs
  <2> QED  BY <2>1, JitterConstants
<1>2. p \in Int /\ q \in Int /\ p \in Packet /\ p <= p /\ p - p < JitterSeqMod
  BY JitterConstants DEF Packet
<1>3. PacketSeq(p) \in Numbers  BY <1>2, PacketsLead
<1>4. ~(p < q)
  <2>1. p < q => Before(PacketSeq(p), PacketSeq(q))  BY ReachOrders
  <2> QED  BY <1>1, <1>3, <2>1
<1>5. ~(q < p)
  <2>1. q < p => Before(PacketSeq(q), PacketSeq(p))  BY ReachOrders
  <2> QED  BY <1>1, <1>3, <2>1
<1> QED  BY <1>2, <1>4, <1>5

\* What the scan for the oldest packet finds.
LEMMA OldestIs ==
    ASSUME NEW S \in SUBSET Packet, NEW l, l \in Packet \union {None}, InReach(S, l),
           Cardinality(S) <= MaxPackets + 1, S # {}
    PROVE  /\ Oldest(S) \in S
           /\ \A q \in S \ {Oldest(S)} : Oldest(S) < q /\ Before(PacketSeq(Oldest(S)), PacketSeq(q))
<1> DEFINE Is(p) == \A q \in S : p = q \/ Before(PacketSeq(p), PacketSeq(q))
<1>1. PICK m \in S : \A q \in S : m <= q  BY FirstOfPackets
<1>2. \A q \in S : q \in Int  BY DEF Packet
<1>3. \A q \in S \ {m} : m < q  BY <1>1, <1>2
<1>4. Is(m)  BY <1>3, ReachOrders
<1>5. \A p \in S : Is(p) => p = m
  <2> SUFFICES ASSUME NEW p \in S, Is(p), p # m PROVE FALSE
    OBVIOUS
  <2>1. m < p /\ Before(PacketSeq(p), PacketSeq(m))  BY <1>3
  <2> QED  BY <2>1, ReachOrders
<1>6. Oldest(S) = m
  <2>1. Oldest(S) = CHOOSE p \in S : Is(p)  BY DEF Oldest
  <2> HIDE DEF Is
  <2> QED  BY <1>4, <1>5, <2>1
<1>7. \A q \in S \ {m} : Before(PacketSeq(m), PacketSeq(q))  BY <1>4
<1> QED  BY <1>3, <1>6, <1>7

\* Without its first packet a set is in reach all the same.
LEMMA WithoutFirst ==
    ASSUME NEW S \in SUBSET Packet, NEW l, InReach(S, l), NEW m, \A q \in S \ {m} : m < q
    PROVE  /\ InReach(S \ {m}, l) /\ S \ {m} \in SUBSET Packet
           /\ m \in S => Cardinality(S \ {m}) = Cardinality(S) - 1
           /\ Cardinality(S \ {m}) <= Cardinality(S)
<1>1. IsFiniteSet(S) /\ Cardinality(S) \in Nat  BY PacketsFinite
<1>2. InReach(S \ {m}, l)
  <2> SUFFICES ASSUME NEW p \in S \ {m}
               PROVE  p <= l /\ l - p <= JumpPackets * Cardinality(From(S \ {m}, p))
    BY DEF InReach
  <2>1. From(S \ {m}, p) = From(S, p)
    <3>1. CASE m \in S
      <4>1. m < p /\ m \in Int /\ p \in Int  BY <3>1 DEF Packet
      <4>2. ~(m >= p)  BY <4>1
      <4> QED  BY <4>2 DEF From
    <3>2. CASE m \notin S  BY <3>2 DEF From
    <3> QED  BY <3>1, <3>2
  <2> QED  BY <2>1 DEF InReach
<1>3. m \in S => Cardinality(S \ {m}) = Cardinality(S) - 1  BY <1>1, FS_RemoveElement
<1>4. Cardinality(S \ {m}) <= Cardinality(S)  BY <1>1, FS_Subset
<1> QED  BY <1>2, <1>3, <1>4

\* A packet no jump away from the latest one keeps the set in reach.
LEMMA WithPacket ==
    ASSUME NEW S \in SUBSET Packet, NEW l \in Packet \union {None}, InReach(S, l), NEW i \in Packet,
           l = None \/ ~(i - l > JumpPackets \/ l - i > JumpPackets)
    PROVE  /\ InReach(S \union {i}, Larger(l, i)) /\ Larger(l, i) \in Packet
           /\ S \union {i} \in SUBSET Packet
           /\ Cardinality(S \union {i}) <= Cardinality(S) + 1
<1>1. /\ IsFiniteSet(S) /\ Cardinality(S) \in Nat /\ JumpPackets \in Nat /\ i \in Nat /\ l \in Int /\ None = -1
      /\ \A q \in S : q \in Nat
  BY PacketsFinite, JitterConstants DEF Packet, None
<1> DEFINE U == S \union {i}
           top == Larger(l, i)
<1>2. U \in SUBSET Packet  OBVIOUS
<1>3. top \in Packet /\ top \in Nat /\ i <= top /\ l <= top /\ (top = i \/ top = l)
  BY <1>1 DEF Larger, Packet, None
<1>4. l # None => top - i <= JumpPackets /\ top - l <= JumpPackets
  <2> HIDE DEF top
  <2> QED  BY <1>1, <1>3
<1>5. l = None => S = {} /\ top = i
  <2>1. l = None => \A q \in S : FALSE  BY <1>1 DEF InReach
  <2>2. l = None => top = i  BY <1>1 DEF Larger
  <2> QED  BY <2>1, <2>2
<1> HIDE DEF top, U
<1>6. ASSUME NEW p \in U PROVE p <= top /\ top - p <= JumpPackets * Cardinality(From(U, p))
  <2> DEFINE c == Cardinality(From(U, p))
             d == Cardinality(From(S, p))
  <2>1. c \in Nat /\ IsFiniteSet(From(U, p)) /\ d \in Nat /\ IsFiniteSet(From(S, p))
    BY <1>2, PacketsFinite
  <2>2. From(S, p) \subseteq From(U, p)  BY DEF From, U
  <2>3. d <= c  BY <2>1, <2>2, FS_Subset
  <2>4. \A a, b \in Nat : a <= b => JumpPackets * a <= JumpPackets * b
    <3> SUFFICES ASSUME NEW a \in Nat, NEW b \in Nat, a <= b PROVE JumpPackets * a <= JumpPackets * b
      OBVIOUS
    <3>1. b - a \in Nat  OBVIOUS
    <3>2. JumpPackets * (b - a) \in Nat /\ JumpPackets * (b - a) = JumpPackets * b - JumpPackets * a
          /\ JumpPackets * a \in Nat /\ JumpPackets * b \in Nat
      BY <1>1, <3>1
    <3> QED  BY <3>2
  <2>5. JumpPackets * c \in Nat /\ JumpPackets * d \in Nat /\ JumpPackets * 1 = JumpPackets
        /\ JumpPackets * (d + 1) = JumpPackets * d + JumpPackets
    <3> HIDE DEF c, d
    <3> QED  BY <1>1, <2>1
  <2>6. CASE p = i
    <3>1. i \in From(U, p)  BY <1>1, <2>6 DEF From, U
    <3>2. c >= 1
      <4>1. Cardinality({i}) = 1 /\ {i} \subseteq From(U, p)  BY <3>1, FS_Singleton
      <4> QED  BY <2>1, <4>1, FS_Subset
    <3>3. JumpPackets <= JumpPackets * c
      <4> HIDE DEF c, d
      <4> QED  BY <2>1, <2>4, <2>5, <3>2
    <3>4. top - i <= JumpPackets  BY <1>1, <1>4, <1>5
    <3> HIDE DEF c, d
    <3>5. top - p <= JumpPackets * c  BY <1>1, <1>3, <2>5, <2>6, <3>3, <3>4
    <3> QED  BY <1>3, <2>6, <3>5 DEF c
  <2>7. CASE p # i
    <3>1. p \in S /\ p \in Nat /\ p <= l /\ l - p <= JumpPackets * d /\ l # None
      BY <1>1, <1>5, <2>7 DEF U, InReach
    <3>2. CASE top = l
      <4>1. JumpPackets * d <= JumpPackets * c
        <5> HIDE DEF c, d
        <5> QED  BY <2>1, <2>3, <2>4
      <4> HIDE DEF c, d
      <4>2. top - p <= JumpPackets * c  BY <1>1, <2>5, <3>1, <3>2, <4>1
      <4> QED  BY <3>1, <3>2, <4>2 DEF c
    <3>3. CASE top # l
      <4>1. i > l  BY <1>1, <1>3, <3>3
      <4>2. i \notin S /\ i >= p /\ i \notin From(S, p)
        <5>1. \A q \in S : q <= l  BY DEF InReach
        <5> QED  BY <1>1, <3>1, <4>1, <5>1 DEF From
      <4>3. From(U, p) = From(S, p) \union {i}  BY <4>2 DEF From, U
      <4>4. c = d + 1  BY <2>1, <4>2, <4>3, FS_AddElement
      <4> HIDE DEF c, d
      <4>5. top - p <= JumpPackets * d + JumpPackets  BY <1>1, <1>3, <1>4, <2>5, <3>1
      <4>6. top - p <= JumpPackets * c  BY <2>5, <4>4, <4>5
      <4>7. p <= top  BY <1>1, <1>3, <3>1
      <4> QED  BY <4>6, <4>7 DEF c
    <3> QED  BY <3>2, <3>3
  <2> QED  BY <2>6, <2>7
<1>7. Cardinality(U) <= Cardinality(S) + 1
  <2>1. Cardinality(U) = Cardinality(S) \/ Cardinality(U) = Cardinality(S) + 1
    BY <1>1, FS_AddElement DEF U
  <2> QED  BY <1>1, <2>1
<1> QED  BY <1>2, <1>3, <1>6, <1>7 DEF InReach, U, top

\* What holds of the packets of a buffer, the latest packet and the number played last.
InOrder(S, l, last) ==
    /\ S \in SUBSET Packet /\ l \in Packet \union {None} /\ last \in SeqOrNone
    /\ InReach(S, l) /\ Cardinality(S) <= MaxPackets
    /\ last # None => \A p \in S : Before(last, PacketSeq(p))

\* One number on, all that is further ahead comes closer.
LEMMA LeadStep ==
    ASSUME NEW a \in Numbers, NEW next, next = (a + 1) % JitterSeqMod
    PROVE  /\ next \in Numbers /\ Lead(a, next) = 1
           /\ \A b \in Numbers : b # a /\ b # next => Lead(next, b) = Lead(a, b) - 1
<1>1. JitterSeqMod \in Nat /\ a \in Nat /\ a < JitterSeqMod /\ 2 < JitterSeqMod
  BY JitterConstants DEF Numbers
<1>2. next \in Numbers /\ next = IF a + 1 < JitterSeqMod THEN a + 1 ELSE 0  BY NextIs
<1>3. next \in Nat /\ next < JitterSeqMod  BY <1>1, <1>2
<1>4. Lead(a, next) = IF a <= next THEN next - a ELSE next - a + JitterSeqMod  BY <1>2, LeadIs
<1>5. Lead(a, next) = 1  BY <1>1, <1>2, <1>4
<1>6. ASSUME NEW b \in Numbers, b # a, b # next PROVE Lead(next, b) = Lead(a, b) - 1
  <2>1. b \in Nat /\ b < JitterSeqMod  BY <1>1, <1>6 DEF Numbers
  <2>2. /\ Lead(a, b) = IF a <= b THEN b - a ELSE b - a + JitterSeqMod
        /\ Lead(next, b) = IF next <= b THEN b - next ELSE b - next + JitterSeqMod
    BY <1>2, LeadIs
  <2> QED  BY <1>1, <1>2, <1>3, <1>6, <2>1, <2>2
<1> QED  BY <1>2, <1>5, <1>6

\* The position moves on by one: the packet of that number, when it is there, was the
\* first, and the others remain ahead.
LEMMA Advances ==
    ASSUME NEW S, NEW l, NEW last, InOrder(S, l, last), last # None,
           NEW next, next = (last + 1) % JitterSeqMod
    PROVE  /\ next \in Numbers
           /\ InOrder({q \in S : PacketSeq(q) # next}, l, next)
<1> DEFINE T == {q \in S : PacketSeq(q) # next}
           h == JitterSeqMod \div 2
<1>1. /\ S \in SUBSET Packet /\ l \in Packet \union {None} /\ last \in Numbers
      /\ InReach(S, l) /\ Cardinality(S) <= MaxPackets /\ Cardinality(S) \in Nat
      /\ \A p \in S : Before(last, PacketSeq(p))
      /\ h \in Nat /\ JitterSeqMod \in Nat /\ 2 * h = JitterSeqMod /\ MaxPackets \in Nat
  BY PacketsFinite, JitterConstants DEF InOrder, SeqOrNone, Numbers
<1>2. \A p \in S : PacketSeq(p) \in Numbers
  <2> SUFFICES ASSUME NEW p \in S PROVE PacketSeq(p) \in Numbers
    OBVIOUS
  <2>1. p \in Packet /\ p <= p /\ p - p < JitterSeqMod  BY <1>1, JitterConstants DEF Packet
  <2> QED  BY <2>1, PacketsLead
<1>3. next \in Numbers /\ Lead(last, next) = 1
      /\ \A b \in Numbers : b # last /\ b # next => Lead(next, b) = Lead(last, b) - 1
  BY <1>1, LeadStep
<1>4. \A p \in S : Lead(last, PacketSeq(p)) \in 1 .. h - 1 /\ PacketSeq(p) # last
  <2> SUFFICES ASSUME NEW p \in S PROVE Lead(last, PacketSeq(p)) \in 1 .. h - 1 /\ PacketSeq(p) # last
    OBVIOUS
  <2>1. Before(last, PacketSeq(p)) /\ PacketSeq(p) \in Numbers  BY <1>1, <1>2
  <2>2. Lead(last, PacketSeq(p)) \in 1 .. h - 1  BY <1>1, <2>1, BeforeIs
  <2>3. Lead(last, PacketSeq(p)) # 0  BY <1>1, <2>2
  <2> QED  BY <1>1, <2>1, <2>2, <2>3, BeforeIs
<1>5. ASSUME NEW q \in T PROVE Lead(next, PacketSeq(q)) \in 1 .. h - 1 /\ Before(next, PacketSeq(q))
  <2>1. PacketSeq(q) \in Numbers /\ PacketSeq(q) # last /\ PacketSeq(q) # next
        /\ Lead(last, PacketSeq(q)) \in 1 .. h - 1
    BY <1>2, <1>4
  <2>2. Lead(next, PacketSeq(q)) = Lead(last, PacketSeq(q)) - 1  BY <1>3, <2>1
  <2>3. Lead(next, PacketSeq(q)) # 0  BY <1>3, <2>1, BeforeIs
  <2>4. Lead(next, PacketSeq(q)) \in 1 .. h - 1
    <3> HIDE DEF h
    <3> QED  BY <1>1, <2>1, <2>2, <2>3
  <2> QED  BY <1>3, <2>1, <2>4, BeforeIs
<1>6. ASSUME NEW p \in S, PacketSeq(p) = next
      PROVE  T = S \ {p} /\ \A q \in S \ {p} : p < q
  <2>1. ASSUME NEW q \in S \ {p} PROVE p < q /\ PacketSeq(q) # next
    <3>1. p \in Int /\ q \in Int /\ p # q  BY <1>1, <2>1 DEF Packet
    <3>2. Cardinality(S) <= MaxPackets + 1  BY <1>1
    <3>3. CASE q < p
      <4>1. Before(PacketSeq(q), PacketSeq(p))  BY <1>1, <3>2, <3>3, ReachOrders
      <4>2. Lead(PacketSeq(q), PacketSeq(p)) \in 1 .. h - 1 /\ PacketSeq(q) # PacketSeq(p)
        <5>1. Lead(PacketSeq(q), PacketSeq(p)) \in 1 .. h - 1  BY <1>2, <4>1, BeforeIs
        <5>2. Lead(PacketSeq(q), PacketSeq(p)) # 0
          <6> HIDE DEF h
          <6> QED  BY <1>1, <5>1
        <5> QED  BY <1>2, <5>1, <5>2, BeforeIs
      <4>3. q \in T  BY <1>6, <4>2
      <4>4. Lead(PacketSeq(p), PacketSeq(q)) \in 1 .. h - 1  BY <1>5, <1>6, <4>3
      <4>5. Lead(PacketSeq(q), PacketSeq(p)) + Lead(PacketSeq(p), PacketSeq(q)) = JitterSeqMod
        BY <1>2, <4>2, BeforeIs
      <4> HIDE DEF h
      <4> QED  BY <1>1, <4>2, <4>4, <4>5
    <3>4. CASE p < q
      <4>1. Before(PacketSeq(p), PacketSeq(q))  BY <1>1, <3>2, <3>4, ReachOrders
      <4>2. Lead(PacketSeq(p), PacketSeq(q)) \in 1 .. h - 1  BY <1>2, <4>1, BeforeIs
      <4>3. Lead(PacketSeq(p), PacketSeq(q)) # 0
        <5> HIDE DEF h
        <5> QED  BY <1>1, <4>2
      <4>4. PacketSeq(q) # PacketSeq(p)  BY <1>2, <4>3, BeforeIs
      <4> QED  BY <1>6, <3>4, <4>4
    <3> QED  BY <3>1, <3>3, <3>4
  <2> QED  BY <1>6, <2>1
<1>7. InReach(T, l) /\ T \in SUBSET Packet /\ Cardinality(T) <= MaxPackets
  <2>1. CASE \E p \in S : PacketSeq(p) = next
    <3>1. PICK p \in S : PacketSeq(p) = next  BY <2>1
    <3>2. T = S \ {p} /\ \A q \in S \ {p} : p < q  BY <1>6, <3>1
    <3>3. InReach(S \ {p}, l) /\ S \ {p} \in SUBSET Packet /\ Cardinality(S \ {p}) <= Cardinality(S)
      BY <1>1, <3>2, WithoutFirst
    <3>4. Cardinality(S \ {p}) \in Nat  BY <3>3, PacketsFinite
    <3> HIDE DEF T
    <3> QED  BY <1>1, <3>2, <3>3, <3>4
  <2>2. CASE \A p \in S : PacketSeq(p) # next
    <3>1. T = S  BY <2>2
    <3> QED  BY <1>1, <3>1
  <2> QED  BY <2>1, <2>2
<1>8. InOrder(T, l, next)
  <2>1. next \in SeqOrNone  BY <1>3 DEF Numbers, SeqOrNone
  <2>2. \A q \in T : Before(next, PacketSeq(q))  BY <1>5
  <2> HIDE DEF T
  <2> QED  BY <1>1, <1>7, <2>1, <2>2 DEF InOrder
<1> QED  BY <1>3, <1>8

\* The oldest packet is taken out: the others come after it.
LEMMA OldestTaken ==
    ASSUME NEW S, NEW l, NEW last, InOrder(S, l, last)
    PROVE  /\ InOrder(S \ {Oldest(S)}, l, last)
           /\ S # {} => /\ Oldest(S) \in S /\ PacketSeq(Oldest(S)) \in Numbers
                        /\ InOrder(S \ {Oldest(S)}, l, PacketSeq(Oldest(S)))
<1>1. /\ S \in SUBSET Packet /\ l \in Packet \union {None} /\ last \in SeqOrNone
      /\ InReach(S, l) /\ Cardinality(S) <= MaxPackets /\ Cardinality(S) \in Nat /\ MaxPackets \in Nat
      /\ last # None => \A p \in S : Before(last, PacketSeq(p))
  BY PacketsFinite, JitterConstants DEF InOrder
<1>2. CASE S = {}
  <2>1. S \ {Oldest(S)} = S  BY <1>2
  <2> QED  BY <1>2, <2>1
<1>3. CASE S # {}
  <2>1. PICK m \in S : m = Oldest(S) /\ \A q \in S \ {m} : m < q /\ Before(PacketSeq(m), PacketSeq(q))
    <3>1. Cardinality(S) <= MaxPackets + 1  BY <1>1
    <3> QED  BY <1>1, <1>3, <3>1, OldestIs
  <2>2. InReach(S \ {m}, l) /\ S \ {m} \in SUBSET Packet /\ Cardinality(S \ {m}) <= Cardinality(S)
    BY <1>1, <2>1, WithoutFirst
  <2>3. Cardinality(S \ {m}) <= MaxPackets
    <3>1. Cardinality(S \ {m}) \in Nat  BY <2>2, PacketsFinite
    <3> QED  BY <1>1, <2>2, <3>1
  <2>4. PacketSeq(m) \in Numbers /\ PacketSeq(m) \in SeqOrNone
    <3>1. m \in Packet /\ m <= m /\ m - m < JitterSeqMod  BY <1>1, JitterConstants DEF Packet
    <3>2. PacketSeq(m) \in Numbers  BY <3>1, PacketsLead
    <3> QED  BY <3>2 DEF Numbers, SeqOrNone
  <2>5. InOrder(S \ {m}, l, last) /\ InOrder(S \ {m}, l, PacketSeq(m))
    BY <1>1, <2>1, <2>2, <2>3, <2>4 DEF InOrder
  <2> QED  BY <2>1, <2>4, <2>5
<1> QED  BY <1>2, <1>3

\* The buffers, and those whose packets are in order.
Buffers ==
    [packets : SUBSET Packet, last : SeqOrNone, latest : Packet \union {None}, delay : Int,
     buffered : BOOLEAN, started : BOOLEAN, miss : Int, pops : Int, drift : Int, high : Int]
Ordered(b) == b \in Buffers /\ InOrder(b.packets, b.latest, b.last)
Alike(b, c) == b.packets = c.packets /\ b.last = c.last /\ b.latest = c.latest

\* The fields that only time the playout have no part in the order.
LEMMA TimingKeeps ==
    ASSUME NEW b, Ordered(b), NEW n \in Int, NEW t \in BOOLEAN
    PROVE  \A c : \/ c = [b EXCEPT !.delay = n] \/ c = [b EXCEPT !.miss = n]
                  \/ c = [b EXCEPT !.pops = n] \/ c = [b EXCEPT !.drift = n]
                  \/ c = [b EXCEPT !.high = n] \/ c = [b EXCEPT !.started = t]
                  \/ c = [b EXCEPT !.buffered = t]
                  => Ordered(c) /\ Alike(c, b)
<1>1. b \in Buffers /\ InOrder(b.packets, b.latest, b.last)  BY DEF Ordered
<1>2. TAKE c
<1>3. CASE c = [b EXCEPT !.delay = n]
  <2>1. c \in Buffers /\ Alike(c, b)  BY <1>1, <1>3 DEF Buffers, Alike
  <2> QED  BY <1>1, <2>1 DEF Ordered, Alike
<1>4. CASE c = [b EXCEPT !.miss = n]
  <2>1. c \in Buffers /\ Alike(c, b)  BY <1>1, <1>4 DEF Buffers, Alike
  <2> QED  BY <1>1, <2>1 DEF Ordered, Alike
<1>5. CASE c = [b EXCEPT !.pops = n]
  <2>1. c \in Buffers /\ Alike(c, b)  BY <1>1, <1>5 DEF Buffers, Alike
  <2> QED  BY <1>1, <2>1 DEF Ordered, Alike
<1>6. CASE c = [b EXCEPT !.drift = n]
  <2>1. c \in Buffers /\ Alike(c, b)  BY <1>1, <1>6 DEF Buffers, Alike
  <2> QED  BY <1>1, <2>1 DEF Ordered, Alike
<1>7. CASE c = [b EXCEPT !.high = n]
  <2>1. c \in Buffers /\ Alike(c, b)  BY <1>1, <1>7 DEF Buffers, Alike
  <2> QED  BY <1>1, <2>1 DEF Ordered, Alike
<1>8. CASE c = [b EXCEPT !.started = t]
  <2>1. c \in Buffers /\ Alike(c, b)  BY <1>1, <1>8 DEF Buffers, Alike
  <2> QED  BY <1>1, <2>1 DEF Ordered, Alike
<1>9. CASE c = [b EXCEPT !.buffered = t]
  <2>1. c \in Buffers /\ Alike(c, b)  BY <1>1, <1>9 DEF Buffers, Alike
  <2> QED  BY <1>1, <2>1 DEF Ordered, Alike
<1> QED  BY <1>3, <1>4, <1>5, <1>6, <1>7, <1>8, <1>9

\* Other packets, another position, another latest packet.
LEMMA PacketsChange ==
    ASSUME NEW b \in Buffers, NEW S \in SUBSET Packet, NEW c, c = [b EXCEPT !.packets = S]
    PROVE  c \in Buffers /\ c.packets = S /\ c.last = b.last /\ c.latest = b.latest
  BY DEF Buffers

LEMMA LastChanges ==
    ASSUME NEW b \in Buffers, NEW n \in SeqOrNone, NEW c, c = [b EXCEPT !.last = n]
    PROVE  c \in Buffers /\ c.packets = b.packets /\ c.last = n /\ c.latest = b.latest
  BY DEF Buffers

LEMMA LatestChanges ==
    ASSUME NEW b \in Buffers, NEW l \in Packet \union {None}, NEW c, c = [b EXCEPT !.latest = l]
    PROVE  c \in Buffers /\ c.packets = b.packets /\ c.last = b.last /\ c.latest = l
  BY DEF Buffers

\* What a pop does first leaves the position where it is.
LEMMA PoppedIs ==
    ASSUME Ordered(jb)
    PROVE  /\ Ordered(Popped) /\ Popped.last = jb.last
           /\ Popped.packets \subseteq jb.packets /\ Popped.latest = jb.latest
<1> DEFINE n == Smaller(jb.pops + 1, AdaptEvery)
           d == (jb.drift + 1) % DriftEvery
           p == [jb EXCEPT !.started = TRUE]
           q == [p EXCEPT !.pops = n]
           r == [q EXCEPT !.drift = d]
<1>1. Popped = Trim(r)
  <2>1. jb \in Buffers  BY DEF Ordered
  <2>2. jb.pops = jb.pops /\ p.pops = jb.pops /\ p.drift = jb.drift /\ q.drift = jb.drift
    BY <2>1 DEF Buffers
  <2>3. r = [jb EXCEPT !.started = TRUE, !.pops = Smaller(@ + 1, AdaptEvery), !.drift = (@ + 1) % DriftEvery]
    BY <2>2
  <2> HIDE DEF r
  <2> QED  BY <2>3 DEF Popped
<1>2. n \in Int /\ d \in Int
  <2>1. jb.pops \in Int /\ jb.drift \in Int  BY DEF Ordered, Buffers
  <2>2. AdaptEvery \in Int /\ DriftEvery \in Nat \ {0}  BY JitterConstants
  <2> QED  BY <2>1, <2>2 DEF Smaller
<1> HIDE DEF n, d
<1>3. Ordered(p) /\ Alike(p, jb)
  <2>1. TRUE \in BOOLEAN /\ 0 \in Int /\ p = [jb EXCEPT !.started = TRUE]  OBVIOUS
  <2> HIDE DEF p
  <2> QED  BY <2>1, TimingKeeps
<1> HIDE DEF p
<1>4. Ordered(q) /\ Alike(q, p)  BY <1>2, <1>3, TimingKeeps
<1> HIDE DEF q
<1>5. Ordered(r) /\ Alike(r, q)  BY <1>2, <1>4, TimingKeeps
<1> HIDE DEF r
<1>6. r.last = jb.last /\ r.packets = jb.packets /\ r.latest = jb.latest
  BY <1>3, <1>4, <1>5 DEF Alike
<1>7. /\ Ordered(Trim(r)) /\ Trim(r).last = r.last
      /\ Trim(r).packets \subseteq r.packets /\ Trim(r).latest = r.latest
  <2>1. CASE Overfull(r)
    <3> DEFINE S == r.packets \ {Oldest(r.packets)}
    <3>1. InOrder(S, r.latest, r.last)  BY <1>5, OldestTaken DEF Ordered
    <3>2. S \in SUBSET Packet /\ r \in Buffers  BY <1>5, <3>1 DEF Ordered, InOrder
    <3>3. Trim(r) = [r EXCEPT !.packets = S]  BY <2>1, <3>2 DEF Trim
    <3>0. S \subseteq r.packets  OBVIOUS
    <3> HIDE DEF S
    <3> DEFINE e == [r EXCEPT !.packets = S]
    <3>4. e \in Buffers /\ e.packets = S /\ e.last = r.last /\ e.latest = r.latest
      <4>1. e = [r EXCEPT !.packets = S]  OBVIOUS
      <4> HIDE DEF e
      <4> QED  BY <3>2, <4>1, PacketsChange
    <3>5. Trim(r) = e  BY <3>3
    <3> HIDE DEF e
    <3> QED  BY <3>0, <3>1, <3>4, <3>5 DEF Ordered
  <2>2. CASE ~Overfull(r)  BY <1>5, <2>2 DEF Trim
  <2> QED  BY <2>1, <2>2
<1> QED  BY <1>1, <1>6, <1>7

\* Every second look at the drift that finds too much skips one packet, and no more.
LEMMA AfterDriftIs ==
    ASSUME NEW b, Ordered(b), b.last # None
    PROVE  /\ Ordered(AfterDrift(b)) /\ AfterDrift(b).last \in Numbers
           /\ AfterDrift(b).packets \subseteq b.packets /\ AfterDrift(b).latest = b.latest
           /\ Skips(b) => /\ AfterDrift(b).last = (b.last + 1) % JitterSeqMod
                          /\ \A q \in AfterDrift(b).packets :
                                PacketSeq(q) # (b.last + 1) % JitterSeqMod
           /\ ~Skips(b) => AfterDrift(b).last = b.last
<1>1. b \in Buffers /\ InOrder(b.packets, b.latest, b.last) /\ b.last \in Numbers
      /\ b.latest \in Packet \union {None} /\ b.packets \in SUBSET Packet
  BY DEF Ordered, InOrder, SeqOrNone, Numbers
<1>2. CASE Skips(b)
  <2> DEFINE next == (b.last + 1) % JitterSeqMod
             S == {x \in b.packets : PacketSeq(x) # next}
             p == [b EXCEPT !.packets = S]
             q == [p EXCEPT !.last = next]
             r == [q EXCEPT !.high = 0]
  <2>1. AfterDrift(b) = r  BY <1>1, <1>2 DEF AfterDrift, Skip
  <2>2. next \in Numbers /\ next \in SeqOrNone /\ next # None
    BY <1>1, NextIs DEF Numbers, SeqOrNone, None
  <2> HIDE DEF next
  <2>3. next = (b.last + 1) % JitterSeqMod  BY DEF next
  <2>4. InOrder(S, b.latest, next)  BY <1>1, <2>3, Advances
  <2>5. S \in SUBSET Packet /\ S \subseteq b.packets /\ \A x \in S : PacketSeq(x) # next  BY <1>1
  <2> HIDE DEF S
  <2>6. p \in Buffers /\ p.packets = S /\ p.latest = b.latest
    <3>1. p = [b EXCEPT !.packets = S]  OBVIOUS
    <3> HIDE DEF p
    <3> QED  BY <1>1, <2>5, <3>1, PacketsChange
  <2> HIDE DEF p
  <2>7. q \in Buffers /\ q.packets = S /\ q.last = next /\ q.latest = b.latest
    <3>1. q = [p EXCEPT !.last = next]  OBVIOUS
    <3> HIDE DEF q
    <3> QED  BY <2>2, <2>6, <3>1, LastChanges
  <2> HIDE DEF q
  <2>8. Ordered(q)  BY <2>4, <2>7 DEF Ordered
  <2>9. Ordered(r) /\ Alike(r, q)
    <3>1. 0 \in Int /\ TRUE \in BOOLEAN /\ r = [q EXCEPT !.high = 0]  OBVIOUS
    <3> HIDE DEF r
    <3> QED  BY <2>8, <3>1, TimingKeeps
  <2> HIDE DEF r
  <2> QED  BY <1>2, <2>1, <2>2, <2>3, <2>5, <2>7, <2>9 DEF Alike
<1>3. CASE ~Skips(b) /\ DriftDue(b)
  <2> DEFINE n == IF DriftHigh(b) THEN b.high + 1 ELSE 0
             r == [b EXCEPT !.high = n]
  <2>1. AfterDrift(b) = r  BY <1>1, <1>3 DEF AfterDrift
  <2>2. n \in Int  BY <1>1 DEF Buffers
  <2> HIDE DEF n
  <2>3. Ordered(r) /\ Alike(r, b)  BY <2>2, TimingKeeps
  <2> HIDE DEF r
  <2> QED  BY <1>1, <1>3, <2>1, <2>3 DEF Alike
<1>4. CASE ~Skips(b) /\ ~DriftDue(b)
  <2>1. AfterDrift(b) = b  BY <1>4 DEF AfterDrift
  <2> QED  BY <1>1, <1>4, <2>1
<1> QED  BY <1>2, <1>3, <1>4

\* A packet that is neither late nor far away, nor a restart, goes in ahead of the position.
LEMMA StoredIs ==
    ASSUME NEW b, Ordered(b), NEW i \in Packet, ~TooOld(b, i), ~Jumps(b, i),
           b.last # None => LET gap == Lead(b.last, PacketSeq(i)) IN ~(gap > BigGap /\ gap < BigGapEnd)
    PROVE  /\ Ordered(Stored(b, i)) /\ Stored(b, i).last = b.last
           /\ Stored(b, i).packets \subseteq b.packets \union {i}
           /\ Stored(b, i).latest = Larger(b.latest, i)
           /\ b.last # None => Before(b.last, PacketSeq(i))
<1> DEFINE S == b.packets
           U == S \union {i}
           top == Larger(b.latest, i)
           h == JitterSeqMod \div 2
<1>1. /\ b \in Buffers /\ S \in SUBSET Packet /\ b.latest \in Packet \union {None}
      /\ b.last \in SeqOrNone /\ InReach(S, b.latest) /\ Cardinality(S) <= MaxPackets
      /\ Cardinality(S) \in Nat /\ MaxPackets \in Nat /\ h \in Nat /\ JitterSeqMod \in Nat
      /\ 2 * h = JitterSeqMod /\ BigGap < h /\ h < BigGapEnd /\ BigGap \in Nat /\ BigGapEnd \in Nat
      /\ b.last # None => \A q \in S : Before(b.last, PacketSeq(q))
  BY PacketsFinite, JitterConstants DEF Ordered, InOrder
<1>2. PacketSeq(i) \in Numbers
  <2>1. i <= i /\ i - i < JitterSeqMod  BY JitterConstants DEF Packet
  <2> QED  BY <2>1, PacketsLead
<1>3. b.last # None => Before(b.last, PacketSeq(i))
  <2> SUFFICES ASSUME b.last # None PROVE Before(b.last, PacketSeq(i))
    OBVIOUS
  <2> DEFINE d == Lead(b.last, PacketSeq(i))
             e == Lead(PacketSeq(i), b.last)
  <2>1. b.last \in Numbers  BY <1>1 DEF SeqOrNone, Numbers
  <2>2. ~Before(PacketSeq(i), b.last) /\ PacketSeq(i) # b.last  BY DEF TooOld
  <2>3. d \in Nat /\ e \in Nat  BY <1>2, <2>1, LeadIs DEF Numbers
  <2>4. d # 0 /\ d + e = JitterSeqMod  BY <1>2, <2>1, <2>2, BeforeIs
  <2>5. ~(e \in 1 .. h - 1)  BY <1>2, <2>1, <2>2, BeforeIs
  <2>6. e # 0  BY <1>2, <2>1, <2>2, BeforeIs
  <2>7. ~(d > BigGap /\ d < BigGapEnd)  OBVIOUS
  <2> HIDE DEF d, e, h
  <2>8. d \in 1 .. h - 1  BY <1>1, <2>3, <2>4, <2>5, <2>6, <2>7
  <2>9. Lead(b.last, PacketSeq(i)) \in 1 .. (JitterSeqMod \div 2) - 1  BY <2>8 DEF d, h
  <2> QED  BY <1>2, <2>1, <2>9, BeforeIs
<1>4. /\ InReach(U, top) /\ top \in Packet /\ U \in SUBSET Packet /\ Cardinality(U) <= Cardinality(S) + 1
      /\ Cardinality(U) \in Nat
  <2>1. b.latest = None \/ ~(i - b.latest > JumpPackets \/ b.latest - i > JumpPackets)  BY DEF Jumps
  <2>2. InReach(U, top) /\ top \in Packet /\ U \in SUBSET Packet /\ Cardinality(U) <= Cardinality(S) + 1
    BY <1>1, <2>1, WithPacket
  <2> QED  BY <2>2, PacketsFinite
<1>5. b.last # None => \A q \in U : Before(b.last, PacketSeq(q))  BY <1>1, <1>3
<1>0. U \subseteq b.packets \union {i} /\ top = Larger(b.latest, i)  OBVIOUS
<1> HIDE DEF U, top
<1>6. InOrder(Evict(U), top, b.last) /\ Evict(U) \in SUBSET Packet /\ Evict(U) \subseteq U
  <2>1. CASE Cardinality(U) > MaxPackets
    <3>1. U # {}  BY DEF U
    <3>2. Cardinality(U) <= MaxPackets + 1  BY <1>1, <1>4
    <3>3. PICK m \in U : m = Oldest(U) /\ \A q \in U \ {m} : m < q
      BY <1>4, <3>1, <3>2, OldestIs
    <3>4. InReach(U \ {m}, top) /\ U \ {m} \in SUBSET Packet /\ Cardinality(U \ {m}) = Cardinality(U) - 1
      BY <1>4, <3>3, WithoutFirst
    <3>5. Cardinality(U \ {m}) <= MaxPackets  BY <1>1, <1>4, <3>2, <3>4
    <3>6. Evict(U) = U \ {m}  BY <2>1, <3>3 DEF Evict
    <3> QED  BY <1>1, <1>4, <1>5, <3>4, <3>5, <3>6 DEF InOrder
  <2>2. CASE ~(Cardinality(U) > MaxPackets)
    <3>1. Cardinality(U) <= MaxPackets  BY <1>1, <1>4, <2>2
    <3>2. Evict(U) = U  BY <2>2 DEF Evict
    <3> QED  BY <1>1, <1>4, <1>5, <3>1, <3>2 DEF InOrder
  <2> QED  BY <2>1, <2>2
<1> DEFINE kept == Evict(U)
           ready == b.buffered \/ Millis(kept) >= Smaller(b.delay, TargetDelay)
           p == [b EXCEPT !.packets = kept]
           q == [p EXCEPT !.latest = top]
           r == [q EXCEPT !.buffered = ready]
<1>7. Stored(b, i) = r
  <2>1. kept = Evict(b.packets \union {i})  BY DEF U
  <2> HIDE DEF kept
  <2>2. top = Larger(b.latest, i) /\ b \in Buffers  BY <1>1 DEF top
  <2>3. b.latest = p.latest /\ q.buffered = b.buffered  BY <2>2 DEF Buffers
  <2>4. r = [b EXCEPT !.packets = kept, !.latest = Larger(@, i),
                      !.buffered = @ \/ Millis(kept) >= Smaller(b.delay, TargetDelay)]
    BY <2>2, <2>3
  <2> HIDE DEF r
  <2> QED  BY <2>1, <2>4 DEF Stored
<1>8. InOrder(kept, top, b.last) /\ kept \in SUBSET Packet /\ kept \subseteq b.packets \union {i}
  BY <1>0, <1>6
<1>9. ready \in BOOLEAN  BY <1>1 DEF Buffers
<1> HIDE DEF kept, ready
<1>10. p \in Buffers /\ p.packets = kept /\ p.last = b.last
  <2>1. p = [b EXCEPT !.packets = kept]  OBVIOUS
  <2> HIDE DEF p
  <2> QED  BY <1>1, <1>8, <2>1, PacketsChange
<1> HIDE DEF p
<1>11. q \in Buffers /\ q.packets = kept /\ q.last = b.last /\ q.latest = top
  <2>1. q = [p EXCEPT !.latest = top] /\ top \in Packet \union {None}  BY <1>4
  <2> HIDE DEF q
  <2> QED  BY <1>10, <2>1, LatestChanges
<1> HIDE DEF q
<1>12. Ordered(q)  BY <1>8, <1>11 DEF Ordered
<1>13. Ordered(r) /\ Alike(r, q)
  <2>1. r = [q EXCEPT !.buffered = ready] /\ 0 \in Int  OBVIOUS
  <2> HIDE DEF r
  <2> QED  BY <1>9, <1>12, <2>1, TimingKeeps
<1> HIDE DEF r
<1> QED  BY <1>0, <1>3, <1>7, <1>8, <1>11, <1>13 DEF Alike

\* An empty buffer is in order, the restarted one and that of a single packet too.
LEMMA EmptyOrdered ==
    /\ Ordered(Empty) /\ Empty.last = None /\ Empty.latest = None
    /\ \A b : Ordered(b) => Ordered(Restart(b)) /\ Restart(b).last = None /\ Restart(b).latest = b.latest
    /\ \A i \in Packet : LET b == [Empty EXCEPT !.packets = {i}, !.latest = i]
                         IN  Ordered(b) /\ b.last = None /\ b.latest = i
<1>1. Cardinality({}) = 0 /\ MaxPackets \in Nat \ {0} /\ TargetDelay \in Nat
  BY JitterConstants, FS_EmptySet
<1>2. Empty \in Buffers /\ Empty.packets = {} /\ Empty.latest = None /\ Empty.last = None
  BY <1>1 DEF Empty, Buffers, SeqOrNone
<1>3. \A l \in Packet \union {None} : InOrder({}, l, None)
  BY <1>1 DEF InOrder, InReach, SeqOrNone
<1>4. Ordered(Empty)
  <2>1. InOrder({}, None, None)  BY <1>3
  <2> QED  BY <1>2, <2>1 DEF Ordered
<1>5. ASSUME NEW b, Ordered(b) PROVE Ordered(Restart(b)) /\ Restart(b).last = None /\ Restart(b).latest = b.latest
  <2> DEFINE p == [b EXCEPT !.packets = {}]
             q == [p EXCEPT !.last = None]
             r == [q EXCEPT !.buffered = FALSE]
  <2>1. b \in Buffers /\ b.latest \in Packet \union {None}  BY <1>5 DEF Ordered, InOrder
  <2>2. Restart(b) = r  BY DEF Restart
  <2>3. p \in Buffers /\ p.packets = {} /\ p.latest = b.latest  BY <2>1 DEF Buffers
  <2> HIDE DEF p
  <2>4. q \in Buffers /\ q.packets = {} /\ q.latest = b.latest /\ q.last = None
    BY <2>3 DEF Buffers, SeqOrNone
  <2> HIDE DEF q
  <2>5. Ordered(q)  BY <1>3, <2>1, <2>4 DEF Ordered
  <2>6. r = [q EXCEPT !.buffered = FALSE] /\ 0 \in Int /\ FALSE \in BOOLEAN  OBVIOUS
  <2> HIDE DEF r
  <2>7. Ordered(r) /\ Alike(r, q)  BY <2>5, <2>6, TimingKeeps
  <2> QED  BY <2>2, <2>4, <2>7 DEF Alike
<1>6. ASSUME NEW i \in Packet
      PROVE  LET b == [Empty EXCEPT !.packets = {i}, !.latest = i]
             IN  Ordered(b) /\ b.last = None /\ b.latest = i
  <2> DEFINE p == [Empty EXCEPT !.packets = {i}]
             q == [p EXCEPT !.latest = i]
  <2>1. p \in Buffers /\ p.packets = {i} /\ p.last = None  BY <1>2 DEF Buffers
  <2> HIDE DEF p
  <2>2. q \in Buffers /\ q.packets = {i} /\ q.last = None /\ q.latest = i  BY <2>1 DEF Buffers
  <2>3. InReach({i}, i) /\ Cardinality({i}) <= MaxPackets
    <3>1. From({i}, i) = {i} /\ Cardinality({i}) = 1 /\ i \in Int
      <4>1. i \in Int  BY DEF Packet
      <4> QED  BY <4>1, FS_Singleton DEF From
    <3>2. i <= i /\ i - i <= JumpPackets * 1  BY <3>1, JitterConstants
    <3> QED  BY <1>1, <3>1, <3>2 DEF InReach
  <2>4. InOrder({i}, i, None)  BY <2>3 DEF InOrder, SeqOrNone
  <2> HIDE DEF q
  <2>5. Ordered(q)  BY <2>2, <2>4 DEF Ordered
  <2>6. q = [Empty EXCEPT !.packets = {i}, !.latest = i]  BY DEF q, p
  <2> QED  BY <2>2, <2>5, <2>6
<1> QED  BY <1>2, <1>4, <1>5, <1>6

\* The buffer that an arriving packet finds.
LEMMA FoundIs ==
    ASSUME Ordered(jb), NEW i \in Packet
    PROVE  /\ Ordered(Found(i))
           /\ Found(i).latest \in {None, jb.latest}
           /\ FoundAnew(i) => Found(i).last = None
           /\ ~FoundAnew(i) => Found(i) = jb /\ FoundStats(i) = stats /\ ~GapResets(i)
<1> DEFINE b == IF GapResets(i) THEN Empty ELSE jb
<1>1. Ordered(b) /\ (GapResets(i) => b.last = None) /\ b.latest \in {None, jb.latest}
  BY EmptyOrdered
<1>2. Found(i) = IF i \in Markers THEN Restart(b) ELSE b  BY DEF Found
<1>3. ~FoundAnew(i) => b = jb /\ i \notin Markers /\ ~GapResets(i) /\ FoundStats(i) = stats
  BY DEF FoundAnew, FoundStats
<1>4. FoundAnew(i) => i \in Markers \/ GapResets(i)  BY DEF FoundAnew
<1> HIDE DEF b
<1> QED  BY <1>1, <1>2, <1>3, <1>4, EmptyOrdered

\* What playout passed since a reset, and what has become of it.
Counts == [received : Nat, lost : Nat]
Tallies == [from : Packet \union {None}, played : Nat, skipped : Nat, lostAt : Nat, silent : Nat]
Passed(s, t) == t.played - 1 + t.skipped + s.lost - t.lostAt
Accounts(last, s, t) ==
    /\ s \in Counts /\ t \in Tallies
    /\ t.from = None <=> last = None
    /\ t.from = None => t.played = 0 /\ t.skipped = 0 /\ t.lostAt = s.lost
    /\ t.from # None => (last - PacketSeq(t.from)) % JitterSeqMod = Passed(s, t) % JitterSeqMod

\* The position and the counts move on by the same number.
LEMMA MovesOn ==
    ASSUME NEW last, NEW s, NEW t, Accounts(last, s, t), last \in Numbers,
           NEW to \in Numbers, NEW s2 \in Counts, NEW t2 \in Tallies,
           t2.from = t.from, t2.lostAt = t.lostAt,
           NEW d \in Int, (to - last) % JitterSeqMod = d % JitterSeqMod,
           Passed(s2, t2) = Passed(s, t) + d
    PROVE  Accounts(to, s2, t2)
<1> DEFINE M == JitterSeqMod
           a == PacketSeq(t.from)
           x == last - a
           y == Passed(s, t)
           u == to - last
<1>1. /\ s \in Counts /\ t \in Tallies /\ last # None /\ to # None /\ t.from # None
      /\ M \in Nat \ {0} /\ last \in Int /\ to \in Int /\ t.from \in Packet
  BY JitterConstants DEF Accounts, Numbers, None, Tallies
<1>2. a \in Int
  <2>1. t.from <= t.from /\ t.from - t.from < M  BY <1>1 DEF Packet
  <2>2. a \in Numbers  BY <1>1, <2>1, PacketsLead
  <2> QED  BY <1>1, <2>2 DEF Numbers
<1>3. y \in Int  BY <1>1 DEF Passed, Counts, Tallies
<1>4. x % M = y % M  BY <1>1 DEF Accounts
<1>5. u % M = d % M  OBVIOUS
<1> HIDE DEF a, y, M
<1>6. x \in Int /\ u \in Int /\ x + u = to - a  BY <1>1, <1>2
<1> HIDE DEF x, u
<1>7. (x + u) % M = (y + d) % M
  <2>1. M \in Nat \ {0} /\ x \in Int /\ y \in Int /\ u \in Int /\ d \in Int
        /\ x % M = y % M /\ u % M = d % M
    BY <1>1, <1>3, <1>4, <1>5, <1>6
  <2>2. (x + u) % M = (y + u) % M  BY <2>1, SameSum
  <2>3. (u + y) % M = (d + y) % M  BY <2>1, SameSum
  <2>4. y + u = u + y /\ d + y = y + d  BY <2>1
  <2> QED  BY <2>2, <2>3, <2>4
<1>8. (to - a) % M = Passed(s2, t2) % M  BY <1>6, <1>7 DEF y
<1> QED  BY <1>1, <1>8 DEF Accounts, a, M

\* The first packet played since a reset is where the count starts.
LEMMA StartsAt ==
    ASSUME NEW s, NEW t, Accounts(None, s, t), NEW p \in Packet, NEW d \in Nat,
           NEW to \in Numbers, (to - PacketSeq(p)) % JitterSeqMod = d % JitterSeqMod,
           NEW t2 \in Tallies, t2.from = p, t2.lostAt = t.lostAt,
           t2.played = t.played + 1, t2.skipped = t.skipped + d
    PROVE  Accounts(to, s, t2)
<1>1. /\ s \in Counts /\ t \in Tallies /\ t.played = 0 /\ t.skipped = 0 /\ t.lostAt = s.lost
      /\ s.lost \in Nat /\ to # None /\ p # None
  BY DEF Accounts, Numbers, None, Counts, Packet
<1>2. Passed(s, t2) = d  BY <1>1 DEF Passed
<1> QED  BY <1>1, <1>2 DEF Accounts

\* Taking the packet that was to be played next.
LEMMA TargetTaken ==
    ASSUME NEW b, Ordered(b), NEW p \in b.packets, PacketSeq(p) = TargetSeq(b)
    PROVE  /\ InOrder(b.packets \ {p}, b.latest, PacketSeq(p)) /\ PacketSeq(p) \in Numbers
           /\ p \in Packet
           /\ b.last # None => Lead(b.last, PacketSeq(p)) = 1
<1> DEFINE S == b.packets
<1>1. /\ S \in SUBSET Packet /\ b.last \in SeqOrNone /\ InOrder(S, b.latest, b.last)
      /\ InReach(S, b.latest) /\ b.latest \in Packet \union {None} /\ Cardinality(S) <= MaxPackets
      /\ p \in S /\ p \in Packet
  BY DEF Ordered, InOrder
<1>2. PacketSeq(p) \in Numbers
  <2>1. p <= p /\ p - p < JitterSeqMod  BY <1>1, JitterConstants DEF Packet
  <2> QED  BY <1>1, <2>1, PacketsLead
<1>3. CASE b.last # None
  <2>1. PacketSeq(p) = (b.last + 1) % JitterSeqMod  BY <1>3 DEF TargetSeq
  <2>2. b.last \in Numbers  BY <1>1, <1>3 DEF SeqOrNone, Numbers
  <2> DEFINE next == PacketSeq(p)
  <2>3. next = (b.last + 1) % JitterSeqMod /\ PacketSeq(p) = next  BY <2>1
  <2> HIDE DEF next, S
  <2>4. /\ InOrder({q \in S : PacketSeq(q) # next}, b.latest, next)
        /\ {q \in S : PacketSeq(q) # next} = S \ {p}
    <3>1. InOrder({q \in S : PacketSeq(q) # next}, b.latest, next)  BY <1>1, <1>3, <2>3, Advances
    <3>2. Cardinality(S) <= MaxPackets + 1
      <4>1. Cardinality(S) \in Nat /\ MaxPackets \in Nat  BY <1>1, PacketsFinite, JitterConstants
      <4> QED  BY <1>1, <4>1
    <3>3. \A q \in S : PacketSeq(q) = next => q = p  BY <1>1, <2>3, <3>2, NumbersDiffer
    <3> QED  BY <1>1, <2>3, <3>1, <3>3
  <2>5. Lead(b.last, next) = 1  BY <2>2, <2>3, LeadStep
  <2>6. InOrder(S \ {p}, b.latest, next)  BY <2>4
  <2> QED  BY <1>1, <1>2, <2>3, <2>5, <2>6 DEF S
<1>4. CASE b.last = None
  <2>1. PacketSeq(p) = PacketSeq(Oldest(S))  BY <1>4 DEF TargetSeq
  <2> HIDE DEF S
  <2>2. Cardinality(S) <= MaxPackets + 1
    <3>1. Cardinality(S) \in Nat /\ MaxPackets \in Nat  BY <1>1, PacketsFinite, JitterConstants
    <3> QED  BY <1>1, <3>1
  <2>3. Oldest(S) \in S /\ \A q \in S \ {Oldest(S)} : Before(PacketSeq(Oldest(S)), PacketSeq(q))
    BY <1>1, <2>2, OldestIs
  <2>4. p = Oldest(S)
    <3> SUFFICES ASSUME p # Oldest(S) PROVE FALSE
      OBVIOUS
    <3>1. Before(PacketSeq(p), PacketSeq(p))  BY <1>1, <2>1, <2>3
    <3>2. Lead(PacketSeq(p), PacketSeq(p)) \in 1 .. (JitterSeqMod \div 2) - 1  BY <1>2, <3>1, BeforeIs
    <3>3. Lead(PacketSeq(p), PacketSeq(p)) = 0  BY <1>2, BeforeIs
    <3> QED  BY <3>2, <3>3, JitterConstants
  <2>5. InOrder(S \ {p}, b.latest, PacketSeq(p))  BY <1>1, <2>4, OldestTaken
  <2> QED  BY <1>1, <1>2, <1>4, <2>5 DEF S
<1> QED  BY <1>3, <1>4

\* What catching up with the oldest packet counts as lost: all that lies between.
LEMMA GapIs ==
    ASSUME NEW b, Ordered(b), b.last # None, b.packets # {},
           \A p \in b.packets : PacketSeq(p) # TargetSeq(b),
           NEW p, p = Oldest(b.packets),
           NEW n, n = (PacketSeq(p) - (TargetSeq(b) + 1)) % JitterSeqMod
    PROVE  /\ n \in Nat /\ n < JitterSeqMod \div 2
           /\ Lead(b.last, PacketSeq(p)) = n + 2
<1> DEFINE M == JitterSeqMod
           h == M \div 2
           next == (b.last + 1) % M
           d == Lead(b.last, PacketSeq(p))
<1>1. /\ InOrder(b.packets, b.latest, b.last) /\ b.last \in Numbers
      /\ M \in Nat \ {0} /\ h \in Nat /\ 2 * h = M
  BY JitterConstants DEF Ordered, InOrder, SeqOrNone, Numbers
<1>2. p \in b.packets /\ PacketSeq(p) \in Numbers /\ Before(b.last, PacketSeq(p))
  <2>1. Oldest(b.packets) \in b.packets /\ PacketSeq(Oldest(b.packets)) \in Numbers
    BY <1>1, OldestTaken
  <2> QED  BY <1>1, <2>1 DEF InOrder
<1>3. d \in 1 .. h - 1  BY <1>1, <1>2, BeforeIs
<1>4. next \in Numbers /\ TargetSeq(b) = next /\ PacketSeq(p) # next
  <2>1. next \in Numbers /\ TargetSeq(b) = next  BY <1>1, NextIs DEF TargetSeq
  <2> QED  BY <1>2, <2>1
<1>5. PacketSeq(p) # b.last
  <2>1. d # 0
    <3> HIDE DEF d, h
    <3> QED  BY <1>1, <1>3
  <2> QED  BY <1>1, <1>2, <2>1, BeforeIs
<1>6. Lead(next, PacketSeq(p)) = d - 1  BY <1>1, <1>2, <1>4, <1>5, LeadStep
<1>7. Lead(next, PacketSeq(p)) # 0  BY <1>2, <1>4, BeforeIs
<1>8. Lead(next, PacketSeq(p)) = (PacketSeq(p) - next) % M  BY DEF Lead
<1> DEFINE x == PacketSeq(p) - next
<1>9. PacketSeq(p) \in Int /\ next \in Int /\ n = (PacketSeq(p) - (next + 1)) % M
  BY <1>1, <1>2, <1>4 DEF Numbers
<1> HIDE DEF next, d, h
<1>10. x \in Int /\ n = (x + -1) % M
  <2>1. x + -1 = PacketSeq(p) - (next + 1) /\ x \in Int  BY <1>9
  <2> QED  BY <1>9, <2>1
<1>11. d \in Int /\ d - 1 \in Int /\ d - 2 \in 0 .. M - 1 /\ d - 2 < h /\ d - 1 \in 0 .. M - 1
  BY <1>1, <1>3, <1>6, <1>7
<1>12. x % M = (d - 1) % M
  <2>1. 0 * M + (d - 1) = d - 1 /\ 0 \in Int  BY <1>1, <1>11
  <2>2. (0 * M + (d - 1)) % M = d - 1
    <3> HIDE DEF M
    <3> QED  BY <1>1, <1>11, <2>1, Remainder
  <2> HIDE DEF M, x
  <2>3. (d - 1) % M = d - 1  BY <2>1, <2>2
  <2>4. x % M = d - 1  BY <1>6, <1>8 DEF x
  <2> QED  BY <2>3, <2>4
<1> HIDE DEF x, M
<1>13. (x + -1) % M = ((d - 1) + -1) % M
  <2>1. -1 \in Int /\ (-1) % M = (-1) % M  OBVIOUS
  <2> DEFINE m1 == -1
  <2>2. m1 \in Int /\ m1 % M = m1 % M  BY <2>1
  <2> HIDE DEF m1
  <2> DEFINE y == d - 1
  <2>3. y \in Int /\ x \in Int /\ M \in Nat \ {0} /\ x % M = y % M  BY <1>1, <1>10, <1>11, <1>12
  <2> HIDE DEF y
  <2>4. (x + m1) % M = (y + m1) % M  BY <2>2, <2>3, SameSum
  <2> QED  BY <2>4 DEF m1, y
<1>14. n = d - 2
  <2>1. (d - 1) + -1 = d - 2 /\ 0 * M + (d - 2) = d - 2 /\ 0 \in Int  BY <1>1, <1>11
  <2>2. (0 * M + (d - 2)) % M = d - 2  BY <1>1, <1>11, <2>1, Remainder
  <2> QED  BY <1>10, <1>13, <2>1, <2>2
<1>15. n \in Nat /\ n < h /\ d = n + 2  BY <1>1, <1>11, <1>14
<1> QED  BY <1>15 DEF d, h, M

\* Counts that differ in the arrivals only.
LEMMA ArrivalsCount ==
    ASSUME NEW last, NEW s, NEW t, Accounts(last, s, t),
           NEW s2 \in Counts, s2.lost = s.lost,
           NEW t2 \in Tallies, t2.from = t.from, t2.played = t.played,
           t2.skipped = t.skipped, t2.lostAt = t.lostAt
    PROVE  Accounts(last, s2, t2)
<1>1. Passed(s2, t2) = Passed(s, t)  BY DEF Passed
<1> QED  BY <1>1 DEF Accounts

\* After a reset nothing has been played, and what was lost before is left out.
LEMMA AnewCounts ==
    ASSUME NEW s \in Counts
    PROVE  Accounts(None, s, NewTally(s.lost))
<1>1. NewTally(s.lost) \in Tallies  BY DEF NewTally, Tallies, Counts
<1> QED  BY <1>1 DEF Accounts, NewTally

\* The invariant: the buffer is in order, and what it passed is accounted for.
BufferInv == Ordered(jb) /\ Accounts(jb.last, stats, tally)

\* An arriving packet changes the position only where the count starts anew.
LEMMA ArrivalKeeps ==
    ASSUME BufferInv, NEW i \in Packet,
           ArriveDuplicate(i) \/ ArriveTooOld(i) \/ ArriveJump(i) \/ ArriveStored(i)
    PROVE  BufferInv'
<1>1. /\ Ordered(jb) /\ Accounts(jb.last, stats, tally) /\ stats \in Counts /\ tally \in Tallies
      /\ jb.last \in SeqOrNone /\ jb \in Buffers
  BY DEF BufferInv, Accounts, Ordered, InOrder
<1>2. CASE ArriveDuplicate(i)  BY <1>1, <1>2 DEF ArriveDuplicate, BufferInv
<1>3. CASE ArriveTooOld(i)
  <2>1. jb' = jb /\ tally' = tally /\ stats' = [stats EXCEPT !.received = @ + 1]
    BY <1>3 DEF ArriveTooOld
  <2>2. stats' \in Counts /\ stats'.lost = stats.lost  BY <1>1, <2>1 DEF Counts
  <2>3. Accounts(jb.last, stats', tally)  BY <1>1, <2>2, ArrivalsCount
  <2> QED  BY <1>1, <2>1, <2>3 DEF BufferInv
<1>4. CASE ArriveJump(i)
  <2>1. /\ jb' = [Empty EXCEPT !.packets = {i}, !.latest = i]
        /\ stats' = [ZeroStats EXCEPT !.received = 1] /\ tally' = NewTally(0)
    BY <1>4 DEF ArriveJump, Forget
  <2>2. Ordered(jb') /\ jb'.last = None  BY <2>1, EmptyOrdered
  <2>3. stats' \in Counts /\ stats'.lost = 0  BY <2>1 DEF Counts, ZeroStats
  <2>4. Accounts(None, stats', NewTally(stats'.lost))  BY <2>3, AnewCounts
  <2>5. Accounts(jb'.last, stats', tally')  BY <2>1, <2>2, <2>3, <2>4
  <2> QED  BY <2>2, <2>5 DEF BufferInv
<1>5. CASE ArriveStored(i)
  <2>1. /\ ~TooOld(Found(i), i) /\ ~Jumps(Found(i), i) /\ jb' = Stored(Found(i), i)
        /\ stats' = [FoundStats(i) EXCEPT !.received = @ + 1]
    BY <1>5 DEF ArriveStored
  <2>2. /\ Ordered(Found(i)) /\ (FoundAnew(i) => Found(i).last = None)
        /\ (~FoundAnew(i) => Found(i) = jb /\ FoundStats(i) = stats /\ ~GapResets(i))
    BY <1>1, FoundIs
  <2> DEFINE b == Found(i)
             gap == Lead(b.last, PacketSeq(i))
  <2>3. b.last # None => ~(gap > BigGap /\ gap < BigGapEnd)
    <3>1. b.last # None => b = jb /\ ~GapResets(i)  BY <2>2
    <3> QED  BY <3>1 DEF GapResets, Lead
  <2>4. Ordered(Stored(b, i)) /\ Stored(b, i).last = b.last
    <3>1. Ordered(b) /\ ~TooOld(b, i) /\ ~Jumps(b, i)  BY <2>1, <2>2
    <3> HIDE DEF b
    <3> QED  BY <2>3, <3>1, StoredIs
  <2>5. Ordered(jb') /\ jb'.last = b.last  BY <2>1, <2>4
  <2>6. FoundStats(i) \in Counts  BY <1>1 DEF FoundStats, ZeroStats, Counts
  <2>7. stats' \in Counts /\ stats'.lost = FoundStats(i).lost  BY <2>1, <2>6 DEF Counts
  <2>8. CASE FoundAnew(i)
    <3>1. tally' = NewTally(stats'.lost) /\ jb'.last = None
      BY <1>5, <2>2, <2>5, <2>7, <2>8 DEF ArriveStored, Forget
    <3>2. Accounts(None, stats', NewTally(stats'.lost))  BY <2>7, AnewCounts
    <3>3. Accounts(jb'.last, stats', tally')  BY <3>1, <3>2
    <3> QED  BY <2>5, <3>3 DEF BufferInv
  <2>9. CASE ~FoundAnew(i)
    <3>1. tally' = [tally EXCEPT !.silent = @ + 1] /\ jb'.last = jb.last /\ stats'.lost = stats.lost
      BY <1>5, <2>2, <2>5, <2>7, <2>9 DEF ArriveStored
    <3>2. tally' \in Tallies /\ tally'.from = tally.from /\ tally'.played = tally.played
          /\ tally'.skipped = tally.skipped /\ tally'.lostAt = tally.lostAt
      BY <1>1, <3>1 DEF Tallies
    <3>3. Accounts(jb.last, stats', tally')  BY <1>1, <2>7, <3>1, <3>2, ArrivalsCount
    <3>4. Accounts(jb'.last, stats', tally')  BY <3>1, <3>3
    <3> QED  BY <2>5, <3>4 DEF BufferInv
  <2> QED  BY <2>8, <2>9
<1> QED  BY <1>2, <1>3, <1>4, <1>5

\* The buffer once a packet is played and the delay adapted, before the drift is looked at.
Played(b, p, called) ==
    LET c == [b EXCEPT !.packets = @ \ {p}, !.last = PacketSeq(p), !.miss = 0]
    IN  IF c.pops >= AdaptEvery THEN [c EXCEPT !.pops = 0, !.delay = Adapted(c, called)] ELSE c

LEMMA PlayedIs ==
    ASSUME NEW b, Ordered(b), NEW p \in b.packets, PacketSeq(p) = TargetSeq(b), NEW called
    PROVE  /\ Ordered(Played(b, p, called)) /\ Played(b, p, called).last = PacketSeq(p)
           /\ Played(b, p, called).packets = b.packets \ {p}
           /\ Played(b, p, called).latest = b.latest
<1> DEFINE S == b.packets \ {p}
           x == [b EXCEPT !.packets = S]
           y == [x EXCEPT !.last = PacketSeq(p)]
           c == [y EXCEPT !.miss = 0]
           n == Adapted(c, called)
           u == [c EXCEPT !.pops = 0]
           v == [u EXCEPT !.delay = n]
<1>1. /\ InOrder(S, b.latest, PacketSeq(p)) /\ PacketSeq(p) \in SeqOrNone /\ b \in Buffers
      /\ S \in SUBSET Packet
  <2>1. InOrder(b.packets \ {p}, b.latest, PacketSeq(p)) /\ PacketSeq(p) \in Numbers  BY TargetTaken
  <2> QED  BY <2>1 DEF Ordered, InOrder, Numbers, SeqOrNone
<1>2. c = [b EXCEPT !.packets = @ \ {p}, !.last = PacketSeq(p), !.miss = 0]
  BY <1>1 DEF Buffers
<1>3. Played(b, p, called) = IF c.pops >= AdaptEvery THEN v ELSE c
  <2> HIDE DEF c
  <2> QED  BY <1>2 DEF Played
<1>0. S = b.packets \ {p}  OBVIOUS
<1> HIDE DEF S
<1>4. x \in Buffers /\ x.packets = S /\ x.latest = b.latest
  <2>1. x = [b EXCEPT !.packets = S]  OBVIOUS
  <2> HIDE DEF x
  <2> QED  BY <1>1, <2>1, PacketsChange
<1> HIDE DEF x
<1>5. y \in Buffers /\ y.packets = S /\ y.latest = b.latest /\ y.last = PacketSeq(p)
  <2>1. y = [x EXCEPT !.last = PacketSeq(p)]  OBVIOUS
  <2> HIDE DEF y
  <2> QED  BY <1>1, <1>4, <2>1, LastChanges
<1> HIDE DEF y
<1>6. Ordered(y)  BY <1>1, <1>5 DEF Ordered
<1>7. Ordered(c) /\ Alike(c, y)
  <2>1. 0 \in Int /\ TRUE \in BOOLEAN /\ c = [y EXCEPT !.miss = 0]  OBVIOUS
  <2> HIDE DEF c
  <2> QED  BY <1>6, <2>1, TimingKeeps
<1> HIDE DEF c
<1>8. n \in Int
  <2>1. c.delay \in Int /\ MinDelay \in Int /\ MaxDelay \in Int
    BY <1>7, JitterConstants DEF Ordered, Buffers
  <2> QED  BY <2>1 DEF Adapted, Smaller, Larger
<1> HIDE DEF n
<1>9. Ordered(u) /\ Alike(u, c)
  <2>1. 0 \in Int /\ TRUE \in BOOLEAN /\ u = [c EXCEPT !.pops = 0]  OBVIOUS
  <2> HIDE DEF u
  <2> QED  BY <1>7, <2>1, TimingKeeps
<1> HIDE DEF u
<1>10. Ordered(v) /\ Alike(v, u)
  <2>1. TRUE \in BOOLEAN /\ v = [u EXCEPT !.delay = n]  OBVIOUS
  <2> HIDE DEF v
  <2> QED  BY <1>8, <1>9, <2>1, TimingKeeps
<1> HIDE DEF v
<1>11. /\ c.last = PacketSeq(p) /\ c.packets = S /\ c.latest = b.latest
       /\ v.last = PacketSeq(p) /\ v.packets = S /\ v.latest = b.latest
  BY <1>5, <1>7, <1>9, <1>10 DEF Alike
<1> QED  BY <1>0, <1>3, <1>7, <1>10, <1>11

\* A packet played is one number on, and a packet skipped with it another one.
LEMMA PlayingKeeps ==
    ASSUME BufferInv, NEW p, PopPlays(p)
    PROVE  /\ BufferInv' /\ p \in Popped.packets /\ PacketSeq(p) = TargetSeq(Popped)
           /\ tally'.from = (IF tally.from = None THEN p ELSE tally.from)
           /\ jb'.packets \subseteq Popped.packets \ {p} /\ jb'.latest = jb.latest
           /\ \E k \in {0, 1} :
                 /\ Passed(stats', tally') = Passed(stats, tally) + (k + 1)
                 /\ k = 1 => \A q \in jb'.packets : PacketSeq(q) # (PacketSeq(p) + 1) % JitterSeqMod
<1>1. /\ Accounts(jb.last, stats, tally) /\ Ordered(Popped) /\ Popped.last = jb.last
      /\ stats \in Counts /\ tally \in Tallies /\ jb.last \in SeqOrNone
      /\ Popped.latest = jb.latest
  BY PoppedIs DEF BufferInv, Accounts, Ordered, InOrder
<1>2. p \in Popped.packets /\ PacketSeq(p) = TargetSeq(Popped)  BY DEF PopPlays, IsTarget
<1>3. PICK called \in JitterDelays :
         LET a == Played(Popped, p, called)
         IN  /\ jb' = AfterDrift(a)
             /\ tally' = [tally EXCEPT !.from = IF @ = None THEN p ELSE @,
                            !.silent = 0, !.played = @ + 1, !.skipped = IF Skips(a) THEN @ + 1 ELSE @]
  BY DEF PopPlays, Played
<1> DEFINE a == Played(Popped, p, called)
<1>4. /\ Ordered(a) /\ a.last = PacketSeq(p) /\ a.packets = Popped.packets \ {p}
      /\ a.latest = Popped.latest
  BY <1>1, <1>2, PlayedIs
<1>5. p \in Packet /\ PacketSeq(p) \in Numbers
      /\ (jb.last # None => Lead(jb.last, PacketSeq(p)) = 1)
  BY <1>1, <1>2, TargetTaken
<1>6. jb' = AfterDrift(a) /\ stats' = stats  BY <1>3 DEF PopPlays
<1>7. tally' = [tally EXCEPT !.from = IF @ = None THEN p ELSE @,
                            !.silent = 0, !.played = @ + 1, !.skipped = IF Skips(a) THEN @ + 1 ELSE @]
  BY <1>3
<1> HIDE DEF a
<1> DEFINE k == IF Skips(a) THEN 1 ELSE 0
<1>8. /\ tally' \in Tallies /\ tally'.from = (IF tally.from = None THEN p ELSE tally.from)
      /\ tally'.played = tally.played + 1 /\ tally'.skipped = tally.skipped + k
      /\ tally'.lostAt = tally.lostAt
  <2> DEFINE f == IF tally.from = None THEN p ELSE tally.from
  <2>1. tally' = [tally EXCEPT !.from = f, !.silent = 0, !.played = tally.played + 1,
                               !.skipped = tally.skipped + k]
    <3>1. (IF Skips(a) THEN tally.skipped + 1 ELSE tally.skipped) = tally.skipped + k
      BY <1>1 DEF Tallies
    <3> QED  BY <1>7, <3>1
  <2>2. f \in Packet \union {None} /\ k \in Nat /\ tally.played + 1 \in Nat /\ tally.skipped + k \in Nat
    BY <1>1, <1>5 DEF Tallies
  <2> HIDE DEF f, k
  <2>3. /\ tally' \in Tallies /\ tally'.from = f /\ tally'.played = tally.played + 1
        /\ tally'.skipped = tally.skipped + k /\ tally'.lostAt = tally.lostAt
    BY <1>1, <2>1, <2>2 DEF Tallies
  <2> QED  BY <2>3 DEF f
<1>9. /\ Ordered(jb') /\ jb'.last \in Numbers
      /\ (jb'.last - PacketSeq(p)) % JitterSeqMod = k % JitterSeqMod
      /\ jb'.packets \subseteq Popped.packets \ {p} /\ jb'.latest = jb.latest
      /\ k = 1 => \A q \in jb'.packets : PacketSeq(q) # (PacketSeq(p) + 1) % JitterSeqMod
  <2>1. a.last # None  BY <1>4, <1>5 DEF Numbers, None
  <2>2. /\ Ordered(AfterDrift(a)) /\ AfterDrift(a).last \in Numbers
        /\ AfterDrift(a).packets \subseteq a.packets /\ AfterDrift(a).latest = a.latest
        /\ Skips(a) => /\ AfterDrift(a).last = (a.last + 1) % JitterSeqMod
                       /\ \A q \in AfterDrift(a).packets :
                             PacketSeq(q) # (a.last + 1) % JitterSeqMod
        /\ ~Skips(a) => AfterDrift(a).last = a.last
    BY <1>4, <2>1, AfterDriftIs
  <2>3. Lead(PacketSeq(p), jb'.last) = k
    <3>1. CASE Skips(a)
      <4>1. jb'.last = (PacketSeq(p) + 1) % JitterSeqMod  BY <1>4, <1>6, <2>2, <3>1
      <4> QED  BY <1>5, <3>1, <4>1, LeadStep
    <3>2. CASE ~Skips(a)
      <4>1. jb'.last = PacketSeq(p)  BY <1>4, <1>6, <2>2, <3>2
      <4> QED  BY <1>5, <3>2, <4>1, BeforeIs
    <3> QED  BY <3>1, <3>2
  <2>4. k % JitterSeqMod = k
    <3>1. JitterSeqMod \in Nat \ {0} /\ k \in 0 .. JitterSeqMod - 1 /\ 0 \in Int
          /\ 0 * JitterSeqMod + k = k
      BY JitterConstants
    <3> HIDE DEF k
    <3>2. (0 * JitterSeqMod + k) % JitterSeqMod = k  BY <3>1, Remainder
    <3> QED  BY <3>1, <3>2
  <2>5. jb'.packets \subseteq Popped.packets \ {p} /\ jb'.latest = jb.latest
    BY <1>1, <1>4, <1>6, <2>2
  <2>6. k = 1 => \A q \in jb'.packets : PacketSeq(q) # (PacketSeq(p) + 1) % JitterSeqMod
    BY <1>4, <1>6, <2>2
  <2> QED  BY <1>6, <2>2, <2>3, <2>4, <2>5, <2>6 DEF Lead
<1>10. k \in {0, 1} /\ k \in Nat  OBVIOUS
<1> HIDE DEF k
<1>13. Passed(stats', tally') = Passed(stats, tally) + (k + 1)
  BY <1>1, <1>6, <1>8, <1>10 DEF Passed, Tallies, Counts
<1>11. CASE jb.last = None
  <2>1. tally.from = None /\ Accounts(None, stats, tally)  BY <1>1, <1>11 DEF Accounts
  <2>2. tally'.from = p  BY <1>8, <2>1
  <2>3. Accounts(jb'.last, stats, tally')  BY <1>5, <1>8, <1>9, <1>10, <2>1, <2>2, StartsAt
  <2>4. BufferInv'  BY <1>6, <1>9, <2>3 DEF BufferInv
  <2> QED  BY <1>2, <1>8, <1>9, <1>10, <1>13, <2>4
<1>12. CASE jb.last # None
  <2>1. tally'.from = tally.from /\ jb.last \in Numbers
    BY <1>1, <1>8, <1>12 DEF Accounts, SeqOrNone, Numbers
  <2>2. (jb'.last - jb.last) % JitterSeqMod = (k + 1) % JitterSeqMod
    <3> DEFINE M == JitterSeqMod
               x == jb'.last - PacketSeq(p)
               u == PacketSeq(p) - jb.last
               one == 1
    <3>1. M \in Nat \ {0} /\ x \in Int /\ u \in Int /\ x + u = jb'.last - jb.last /\ k + u = u + k
          /\ x % M = k % M /\ one \in Int /\ k \in Int
      BY <1>5, <1>9, <1>10, <2>1, JitterConstants DEF Numbers
    <3>2. u % M = one % M
      <4>1. u % M = 1  BY <1>5, <1>12 DEF Lead
      <4>2. 1 \in 0 .. M - 1 /\ 0 \in Int /\ 0 * M + 1 = 1  BY JitterConstants
      <4> HIDE DEF M, u
      <4>3. (0 * M + 1) % M = 1  BY <3>1, <4>2, Remainder
      <4> QED  BY <4>1, <4>2, <4>3
    <3> HIDE DEF M, x, u, one
    <3>3. (x + u) % M = (k + u) % M  BY <3>1, SameSum
    <3>4. (u + k) % M = (one + k) % M  BY <3>1, <3>2, SameSum
    <3>5. one + k = k + 1  BY <1>10 DEF one
    <3>6. (jb'.last - jb.last) % M = (k + 1) % M  BY <3>1, <3>3, <3>4, <3>5
    <3> QED  BY <3>6 DEF M
  <2>3. Passed(stats, tally') = Passed(stats, tally) + (k + 1)  BY <1>6, <1>13
  <2>4. k + 1 \in Int  BY <1>10
  <2> DEFINE d == k + 1
  <2>5. d \in Int /\ (jb'.last - jb.last) % JitterSeqMod = d % JitterSeqMod
        /\ Passed(stats, tally') = Passed(stats, tally) + d
    BY <2>2, <2>3, <2>4
  <2> HIDE DEF d
  <2>6. Accounts(jb'.last, stats, tally')  BY <1>1, <1>8, <1>9, <2>1, <2>5, MovesOn
  <2>7. BufferInv'  BY <1>6, <1>9, <2>6 DEF BufferInv
  <2> QED  BY <1>2, <1>8, <1>9, <1>10, <1>13, <2>7
<1> QED  BY <1>11, <1>12

\* Giving up happens only once a packet has been played since the reset: before that the
\* oldest packet of the buffer is the target.
LEMMA GivesUpLater ==
    ASSUME BufferInv, GivesUp
    PROVE  /\ Popped.last # None /\ \A p \in Popped.packets : PacketSeq(p) # TargetSeq(Popped)
           /\ TargetSeq(Popped) = (Popped.last + 1) % JitterSeqMod
<1>1. Ordered(Popped)  BY PoppedIs DEF BufferInv
<1>2. \A p \in Popped.packets : PacketSeq(p) # TargetSeq(Popped)  BY DEF GivesUp, IsTarget
<1>3. Popped.last # None
  <2> SUFFICES ASSUME Popped.last = None PROVE FALSE
    OBVIOUS
  <2>1. Popped.packets # {}  BY DEF GivesUp, CanPlay
  <2>2. Oldest(Popped.packets) \in Popped.packets  BY <1>1, <2>1, OldestTaken DEF Ordered
  <2>3. TargetSeq(Popped) = PacketSeq(Oldest(Popped.packets))  BY DEF TargetSeq
  <2> QED  BY <1>2, <2>2, <2>3
<1> QED  BY <1>2, <1>3 DEF TargetSeq

\* A number given up is one number on, and one loss.
LEMMA LosingKeeps ==
    ASSUME BufferInv, PopLoses
    PROVE  /\ BufferInv' /\ jb.last # None /\ tally' = tally
           /\ jb'.packets = Popped.packets /\ jb'.latest = jb.latest
           /\ Passed(stats', tally') = Passed(stats, tally) + 1
           /\ \A p \in Popped.packets : PacketSeq(p) # (jb.last + 1) % JitterSeqMod
<1>1. /\ Accounts(jb.last, stats, tally) /\ Ordered(Popped) /\ Popped.last = jb.last
      /\ stats \in Counts /\ tally \in Tallies /\ jb.last \in SeqOrNone /\ Popped \in Buffers
      /\ InOrder(Popped.packets, Popped.latest, Popped.last) /\ Popped.latest = jb.latest
  BY PoppedIs DEF BufferInv, Accounts, Ordered, InOrder
<1>2. /\ jb.last # None /\ \A p \in Popped.packets : PacketSeq(p) # TargetSeq(Popped)
      /\ TargetSeq(Popped) = (jb.last + 1) % JitterSeqMod
  BY <1>1, GivesUpLater DEF PopLoses
<1>3. /\ jb' = [Popped EXCEPT !.miss = 0, !.last = TargetSeq(Popped)]
      /\ stats' = [stats EXCEPT !.lost = @ + 1] /\ tally' = tally
  BY DEF PopLoses
<1>4. jb.last \in Numbers  BY <1>1, <1>2 DEF SeqOrNone, Numbers
<1> DEFINE next == TargetSeq(Popped)
           S == Popped.packets
           x == [Popped EXCEPT !.miss = 0]
           y == [x EXCEPT !.last = next]
<1>5. jb' = y  BY <1>3
<1>6. next = (jb.last + 1) % JitterSeqMod /\ next \in Numbers /\ next \in SeqOrNone
      /\ Lead(jb.last, next) = 1
  <2>1. next = (jb.last + 1) % JitterSeqMod  BY <1>2
  <2> HIDE DEF next
  <2>2. next \in Numbers /\ Lead(jb.last, next) = 1  BY <1>4, <2>1, LeadStep
  <2> QED  BY <2>1, <2>2 DEF Numbers, SeqOrNone
<1>7. {q \in S : PacketSeq(q) # next} = S  BY <1>2
<1> HIDE DEF next, S
<1>8. InOrder(S, Popped.latest, next)
  <2>1. InOrder({q \in S : PacketSeq(q) # next}, Popped.latest, next)
    BY <1>1, <1>2, <1>6, Advances DEF S
  <2> QED  BY <1>7, <2>1
<1>9. Ordered(x) /\ Alike(x, Popped)
  <2>1. 0 \in Int /\ TRUE \in BOOLEAN /\ x = [Popped EXCEPT !.miss = 0]  OBVIOUS
  <2> HIDE DEF x
  <2> QED  BY <1>1, <2>1, TimingKeeps
<1> HIDE DEF x
<1>10. y \in Buffers /\ y.packets = x.packets /\ y.last = next /\ y.latest = x.latest
  <2>1. y = [x EXCEPT !.last = next] /\ x \in Buffers  BY <1>9 DEF Ordered
  <2> HIDE DEF y
  <2> QED  BY <1>6, <2>1, LastChanges
<1> HIDE DEF y
<1>11. Ordered(jb') /\ jb'.last = next /\ jb'.packets = Popped.packets /\ jb'.latest = jb.latest
  BY <1>1, <1>5, <1>8, <1>9, <1>10 DEF Ordered, Alike, S
<1>12. stats' \in Counts /\ stats'.lost = stats.lost + 1  BY <1>1, <1>3 DEF Counts
<1> DEFINE d == 1
<1>13. d \in Int /\ (next - jb.last) % JitterSeqMod = d % JitterSeqMod
       /\ Passed(stats', tally) = Passed(stats, tally) + d
  <2>1. (next - jb.last) % JitterSeqMod = 1  BY <1>6 DEF Lead
  <2> DEFINE M == JitterSeqMod
  <2>2. M \in Nat \ {0} /\ 1 \in 0 .. M - 1 /\ 0 \in Int /\ 0 * M + 1 = 1  BY JitterConstants
  <2> HIDE DEF M
  <2>3. (0 * M + 1) % M = 1  BY <2>2, Remainder
  <2>4. 1 % M = 1  BY <2>2, <2>3
  <2>5. Passed(stats', tally) = Passed(stats, tally) + 1
    BY <1>1, <1>12 DEF Passed, Counts, Tallies
  <2> QED  BY <2>1, <2>4, <2>5 DEF M
<1> HIDE DEF d
<1>14. Accounts(next, stats', tally)  BY <1>1, <1>4, <1>6, <1>12, <1>13, MovesOn
<1>15. Accounts(jb'.last, stats', tally')  BY <1>3, <1>11, <1>14
<1>16. BufferInv'  BY <1>11, <1>15 DEF BufferInv
<1>17. Passed(stats', tally') = Passed(stats, tally) + 1  BY <1>3, <1>13 DEF d
<1> QED  BY <1>2, <1>3, <1>11, <1>16, <1>17

\* Catching up plays one packet and counts what it jumped over.
LEMMA CatchingUpKeeps ==
    ASSUME BufferInv, PopCatchesUp
    PROVE  /\ BufferInv' /\ jb.last # None /\ tally'.from = tally.from
           /\ Popped.packets # {} /\ heard' = Oldest(Popped.packets)
           /\ jb'.packets = Popped.packets \ {heard'} /\ jb'.latest = jb.latest
           /\ Passed(stats', tally') = Passed(stats, tally) + Lead(jb.last, PacketSeq(heard'))
<1>1. /\ Accounts(jb.last, stats, tally) /\ Ordered(Popped) /\ Popped.last = jb.last
      /\ stats \in Counts /\ tally \in Tallies /\ jb.last \in SeqOrNone /\ Popped \in Buffers
      /\ InOrder(Popped.packets, Popped.latest, Popped.last)
      /\ Popped.packets \in SUBSET Packet /\ Popped.latest \in Packet \union {None}
      /\ Popped.latest = jb.latest
  BY PoppedIs DEF BufferInv, Accounts, Ordered, InOrder
<1>2. jb.last # None /\ \A p \in Popped.packets : PacketSeq(p) # TargetSeq(Popped)
  BY <1>1, GivesUpLater DEF PopCatchesUp
<1>3. Popped.packets # {}
  <2>1. Crowded  BY DEF PopCatchesUp
  <2> DEFINE h == MaxPackets \div 2
  <2>2. Cardinality(Popped.packets) > h  BY <2>1 DEF Crowded
  <2>3. h \in Nat  BY JitterConstants
  <2> HIDE DEF h
  <2>4. Cardinality({}) = 0  BY FS_EmptySet
  <2>5. ~(Cardinality({}) > h)  BY <2>3, <2>4
  <2> QED  BY <2>2, <2>5
<1> DEFINE p == Oldest(Popped.packets)
           n == (PacketSeq(p) - (TargetSeq(Popped) + 1)) % JitterSeqMod
           S == Popped.packets \ {p}
           x == [Popped EXCEPT !.miss = 0]
           y == [x EXCEPT !.last = PacketSeq(p)]
           z == [y EXCEPT !.packets = S]
<1>4. /\ jb' = [Popped EXCEPT !.miss = 0, !.last = PacketSeq(p), !.packets = @ \ {p}]
      /\ stats' = [stats EXCEPT !.lost = @ + GapLost(p)]
      /\ tally' = [tally EXCEPT !.silent = 0, !.played = @ + 1] /\ heard' = p
  BY DEF PopCatchesUp
<1>5. jb' = z
  <2>1. y.packets = Popped.packets  BY <1>1 DEF Buffers
  <2> QED  BY <1>4, <2>1
<1>6. GapLost(p) = IF n < JitterSeqMod \div 2 THEN 1 + n ELSE 1  BY DEF GapLost
<1>7. p \in Popped.packets /\ PacketSeq(p) \in Numbers /\ PacketSeq(p) \in SeqOrNone
      /\ InOrder(S, Popped.latest, PacketSeq(p))
  <2>1. p \in Popped.packets /\ PacketSeq(p) \in Numbers /\ InOrder(S, Popped.latest, PacketSeq(p))
    BY <1>1, <1>3, OldestTaken
  <2> QED  BY <2>1 DEF Numbers, SeqOrNone
<1>8. n \in Nat /\ n < JitterSeqMod \div 2 /\ Lead(jb.last, PacketSeq(p)) = n + 2
  <2>1. /\ n = (PacketSeq(p) - (TargetSeq(Popped) + 1)) % JitterSeqMod
        /\ p = Oldest(Popped.packets)
    OBVIOUS
  <2> HIDE DEF n, p
  <2>2. n \in Nat /\ n < JitterSeqMod \div 2 /\ Lead(Popped.last, PacketSeq(p)) = n + 2
    BY <1>1, <1>2, <1>3, <2>1, GapIs
  <2> QED  BY <1>1, <2>2
<1>9. /\ S \in SUBSET Packet /\ S = Popped.packets \ {p} /\ p = Oldest(Popped.packets)
  BY <1>1
<1> HIDE DEF n, p, S
<1>10. Ordered(x) /\ Alike(x, Popped) /\ x \in Buffers
  <2>1. 0 \in Int /\ TRUE \in BOOLEAN /\ x = [Popped EXCEPT !.miss = 0]  OBVIOUS
  <2> HIDE DEF x
  <2>2. Ordered(x) /\ Alike(x, Popped)  BY <1>1, <2>1, TimingKeeps
  <2> QED  BY <2>2 DEF Ordered
<1> HIDE DEF x
<1>11. y \in Buffers /\ y.last = PacketSeq(p) /\ y.latest = x.latest
  <2>1. y = [x EXCEPT !.last = PacketSeq(p)]  OBVIOUS
  <2> HIDE DEF y
  <2> QED  BY <1>7, <1>10, <2>1, LastChanges
<1> HIDE DEF y
<1>12. z \in Buffers /\ z.packets = S /\ z.last = y.last /\ z.latest = y.latest
  <2>1. z = [y EXCEPT !.packets = S]  OBVIOUS
  <2> HIDE DEF z
  <2> QED  BY <1>9, <1>11, <2>1, PacketsChange
<1> HIDE DEF z
<1>13. Ordered(jb') /\ jb'.last = PacketSeq(p) /\ jb'.packets = S /\ jb'.latest = jb.latest
  BY <1>1, <1>5, <1>7, <1>10, <1>11, <1>12 DEF Ordered, Alike
<1>14. /\ stats' \in Counts /\ stats'.lost = stats.lost + (1 + n)
       /\ tally' \in Tallies /\ tally'.from = tally.from /\ tally'.lostAt = tally.lostAt
       /\ tally'.played = tally.played + 1 /\ tally'.skipped = tally.skipped
  <2>1. GapLost(p) = 1 + n  BY <1>6, <1>8
  <2> HIDE DEF GapLost
  <2>2. stats' \in Counts /\ stats'.lost = stats.lost + (1 + n)  BY <1>1, <1>4, <1>8, <2>1 DEF Counts
  <2>3. /\ tally' \in Tallies /\ tally'.from = tally.from /\ tally'.lostAt = tally.lostAt
        /\ tally'.played = tally.played + 1 /\ tally'.skipped = tally.skipped
    <3> DEFINE m == tally.played + 1
               q == [tally EXCEPT !.silent = 0]
    <3>1. tally' = [q EXCEPT !.played = m]  BY <1>1, <1>4 DEF Tallies
    <3>2. m \in Nat  BY <1>1 DEF Tallies
    <3> HIDE DEF m
    <3>3. /\ q \in Tallies /\ q.from = tally.from /\ q.lostAt = tally.lostAt /\ q.skipped = tally.skipped
      BY <1>1 DEF Tallies
    <3> HIDE DEF q
    <3>4. /\ tally' \in Tallies /\ tally'.from = q.from /\ tally'.lostAt = q.lostAt
          /\ tally'.played = m /\ tally'.skipped = q.skipped
      BY <3>1, <3>2, <3>3 DEF Tallies
    <3> QED  BY <3>3, <3>4 DEF m
  <2> QED  BY <2>2, <2>3
<1>15. jb.last \in Numbers  BY <1>1, <1>2 DEF SeqOrNone, Numbers
<1> DEFINE d == n + 2
<1>16. /\ d \in Int /\ (PacketSeq(p) - jb.last) % JitterSeqMod = d % JitterSeqMod
       /\ Passed(stats', tally') = Passed(stats, tally) + d
  <2>1. d \in Nat /\ Lead(jb.last, PacketSeq(p)) = d  BY <1>8
  <2>2. d \in Numbers  BY <1>7, <1>15, <2>1, LeadIs
  <2>3. Passed(stats', tally') = Passed(stats, tally) + d
    BY <1>1, <1>8, <1>14 DEF Passed, Counts, Tallies
  <2> HIDE DEF d
  <2> DEFINE M == JitterSeqMod
  <2>4. M \in Nat \ {0} /\ d \in 0 .. M - 1 /\ 0 \in Int /\ 0 * M + d = d
    BY <2>1, <2>2, JitterConstants DEF Numbers
  <2> HIDE DEF M
  <2>5. (0 * M + d) % M = d  BY <2>4, Remainder
  <2>6. d % M = d  BY <2>4, <2>5
  <2> QED  BY <2>1, <2>3, <2>6 DEF Lead, M
<1> HIDE DEF d
<1>17. Accounts(PacketSeq(p), stats', tally')  BY <1>1, <1>7, <1>14, <1>15, <1>16, MovesOn
<1>18. BufferInv'  BY <1>13, <1>17 DEF BufferInv
<1>19. d = Lead(jb.last, PacketSeq(p))  BY <1>8 DEF d
<1> QED  BY <1>2, <1>3, <1>4, <1>9, <1>13, <1>14, <1>16, <1>18, <1>19

\* BufferInv is inductive: push(), pop() and reset() in the order the task calls them
\* keep the buffer in order and its losses accounted for.
THEOREM BufferInvariant == JitterSpec => []BufferInv
<1>1. JitterInit => BufferInv
  <2> SUFFICES ASSUME JitterInit PROVE BufferInv
    OBVIOUS
  <2>1. jb = Empty /\ stats = ZeroStats /\ tally = NewTally(0)  BY DEF JitterInit
  <2>2. stats \in Counts /\ stats.lost = 0  BY <2>1 DEF ZeroStats, Counts
  <2>3. Accounts(None, stats, NewTally(stats.lost))  BY <2>2, AnewCounts
  <2>4. Ordered(jb) /\ jb.last = None  BY <2>1, EmptyOrdered
  <2> QED  BY <2>1, <2>2, <2>3, <2>4 DEF BufferInv
<1>2. BufferInv /\ [JitterNext]_jitterVars => BufferInv'
  <2> SUFFICES ASSUME BufferInv, [JitterNext]_jitterVars PROVE BufferInv'
    OBVIOUS
  <2>1. CASE UNCHANGED jitterVars  BY <2>1 DEF jitterVars, BufferInv
  <2>2. ASSUME NEW i \in Packet,
               ArriveDuplicate(i) \/ ArriveTooOld(i) \/ ArriveJump(i) \/ ArriveStored(i)
        PROVE  BufferInv'
    BY <2>2, ArrivalKeeps
  <2>3. CASE Reset
    <3>1. jb' = Empty /\ stats' = ZeroStats /\ tally' = NewTally(0)  BY <2>3 DEF Reset, Forget
    <3>2. stats' \in Counts /\ stats'.lost = 0  BY <3>1 DEF ZeroStats, Counts
    <3>3. Accounts(None, stats', NewTally(stats'.lost))  BY <3>2, AnewCounts
    <3>4. Ordered(jb') /\ jb'.last = None  BY <3>1, EmptyOrdered
    <3>5. Accounts(jb'.last, stats', tally')  BY <3>1, <3>2, <3>3, <3>4
    <3> QED  BY <3>4, <3>5 DEF BufferInv
  <2>4. CASE PopNotReady  BY <2>4 DEF PopNotReady, BufferInv
  <2>5. CASE PopEmpty
    <3>1. jb' = Popped /\ stats' = stats /\ tally' = tally  BY <2>5 DEF PopEmpty
    <3>2. Ordered(Popped) /\ Popped.last = jb.last  BY PoppedIs DEF BufferInv
    <3> HIDE DEF Popped
    <3> QED  BY <3>1, <3>2 DEF BufferInv
  <2>6. CASE PopWaits
    <3>1. stats' = stats /\ tally' = tally /\ (jb' = Popped \/ jb' = [Popped EXCEPT !.miss = @ + 1])
      BY <2>6 DEF PopWaits
    <3>2. Ordered(Popped) /\ Popped.last = jb.last  BY PoppedIs DEF BufferInv
    <3>3. Popped.miss + 1 \in Int  BY <3>2 DEF Ordered, Buffers
    <3> DEFINE n == Popped.miss + 1
               x == [Popped EXCEPT !.miss = n]
    <3>4. n \in Int /\ (jb' = Popped \/ jb' = x)  BY <3>1, <3>3
    <3> HIDE DEF n
    <3>5. Ordered(x) /\ Alike(x, Popped)
      <4>1. TRUE \in BOOLEAN /\ x = [Popped EXCEPT !.miss = n]  OBVIOUS
      <4> HIDE DEF x
      <4> QED  BY <3>2, <3>4, <4>1, TimingKeeps
    <3> HIDE DEF x
    <3>6. Ordered(jb') /\ jb'.last = jb.last  BY <3>2, <3>4, <3>5 DEF Alike
    <3> QED  BY <3>1, <3>6 DEF BufferInv
  <2>7. CASE PopLoses  BY <2>7, LosingKeeps
  <2>8. CASE PopCatchesUp  BY <2>8, CatchingUpKeeps
  <2>9. ASSUME NEW p \in jb.packets, PopPlays(p) PROVE BufferInv'  BY <2>9, PlayingKeeps
  <2> QED  BY <2>1, <2>2, <2>3, <2>4, <2>5, <2>6, <2>7, <2>8, <2>9 DEF JitterNext, Pop
<1> QED  BY <1>1, <1>2, PTL DEF JitterSpec

\* Whatever arrives late, twice or not at all, and wherever the numbers wrap, each number
\* that pop() passes is played, skipped or in packets_lost.  The buffer has to be in order
\* for it, or a gap could not be told from a step back.
THEOREM LossAccountedHolds == JitterSpec => []LossAccounted
<1>1. BufferInv => LossAccounted  BY DEF BufferInv, Accounts, LossAccounted, Passed
<1> QED  BY <1>1, BufferInvariant, PTL

\* The numbers order what is in the buffer, so that the scan of pop() and push() for the
\* oldest packet has one answer whatever its order.
THEOREM WithinHalfHolds == JitterSpec => []WithinHalf
<1>1. BufferInv => WithinHalf
  <2> SUFFICES ASSUME BufferInv PROVE WithinHalf
    OBVIOUS
  <2> DEFINE S == jb.packets
             l == jb.latest
  <2>1. /\ S \in SUBSET Packet /\ l \in Packet \union {None} /\ InReach(S, l)
        /\ Cardinality(S) <= MaxPackets /\ Cardinality(S) \in Nat /\ MaxPackets \in Nat
        /\ (jb.last # None => \A p \in S : Before(jb.last, PacketSeq(p)))
    BY PacketsFinite, JitterConstants DEF BufferInv, Ordered, InOrder
  <2> HIDE DEF S, l
  <2>2. Cardinality(S) <= MaxPackets + 1  BY <2>1
  <2>3. \A p, q \in S : p < q => Before(PacketSeq(p), PacketSeq(q))  BY <2>1, <2>2, ReachOrders
  <2> QED  BY <2>1, <2>3 DEF WithinHalf, S
<1> QED  BY <1>1, BufferInvariant, PTL

----------------------------------------------------------------------------
(* The order of playout.                                                   *)

\* How far playout is: the packet of the stream whose number was passed last.
PositionOf(s, t) == t.from + Passed(s, t)
Position == PositionOf(stats, tally)

\* The position is not half the numbers ahead of what may still arrive.  A silence makes it
\* run ahead only after a marker bit, until enough is buffered again: then pop() gives up a
\* number every max_wait_before_loss packet times, and after 32768 of them, some 20 minutes,
\* it would meet the numbers already played from the other side.
NotFarAhead == tally.from # None => Position + Window - newest <= JitterSeqMod \div 2

\* The packets of the buffer are ahead of the position not only by their numbers, what was
\* heard last is not, and the latest packet is ahead by less than half the numbers.
AheadOf(n, S, l, h) ==
    /\ h <= n /\ l # None /\ l - n < JitterSeqMod \div 2
    /\ \A p \in S : p > n

OrderInv ==
    /\ BufferInv
    /\ newest \in Packet \union {None} /\ jb.latest <= newest
    /\ heard \in Packet \union {None} /\ (heard = None <=> tally.from = None)
    /\ tally.from # None => AheadOf(Position, jb.packets, jb.latest, heard)

\* A number is as far from the one played last as its packet is from the position.
LEMMA LeadOfPosition ==
    ASSUME NEW last, NEW s, NEW t, Accounts(last, s, t), last # None, NEW i \in Packet,
           NEW x, x = i - PositionOf(s, t)
    PROVE  /\ x \in Int /\ PositionOf(s, t) \in Int /\ PacketSeq(i) \in Numbers
           /\ last \in Numbers => Lead(last, PacketSeq(i)) = x % JitterSeqMod
<1> DEFINE M == JitterSeqMod
           f == t.from
           n == Passed(s, t)
           F == FirstSeq
           c == PacketSeq(f)
           e == PacketSeq(i)
<1>1. /\ M \in Nat \ {0} /\ f \in Packet /\ f \in Int /\ i \in Int /\ n \in Int /\ F \in Int
      /\ (last - c) % M = n % M /\ x = i - (f + n)
  <2>1. t.from # None /\ t.from \in Packet /\ s \in Counts /\ t \in Tallies
    BY DEF Accounts, Tallies
  <2>2. n \in Int  BY <2>1 DEF Passed, Counts, Tallies
  <2>3. (last - c) % M = n % M  BY <2>1 DEF Accounts
  <2> QED  BY <2>1, <2>2, <2>3, JitterConstants DEF Packet, Numbers, PositionOf
<1>2. c = (F + f) % M /\ e = (F + i) % M  BY DEF PacketSeq
<1> HIDE DEF n, M, F, f
<1>3. c \in 0 .. M - 1 /\ e \in 0 .. M - 1  BY <1>1, <1>2
<1> DEFINE a == F + i
           b == F + f
           u == i - f
<1>4. a \in Int /\ b \in Int /\ u \in Int /\ a - b = u /\ x = u - n /\ x \in Int  BY <1>1
<1>5. (e - c) % M = u % M
  <2>1. e = a % M /\ c = b % M  BY <1>2
  <2> HIDE DEF a, b, u, e, c
  <2>2. ((a % M) - (b % M)) % M = (a - b) % M  BY <1>1, <1>4, RemainderOfStep
  <2> QED  BY <1>4, <2>1, <2>2
<1>6. ASSUME last \in Numbers PROVE (e - last) % M = x % M
  <2> DEFINE y == e - c
             z == last - c
  <2>1. y \in Int /\ z \in Int /\ y - z = e - last  BY <1>3, <1>6, JitterConstants DEF Numbers
  <2>2. y % M = u % M /\ z % M = n % M  BY <1>1, <1>5
  <2> HIDE DEF y, z, u, e, c
  <2>3. ((y % M) - (z % M)) % M = (y - z) % M  BY <1>1, <2>1, RemainderOfStep
  <2>4. ((u % M) - (n % M)) % M = (u - n) % M  BY <1>1, <1>4, RemainderOfStep
  <2> QED  BY <1>4, <2>1, <2>2, <2>3, <2>4
<1>7. PositionOf(s, t) \in Int  BY <1>1 DEF PositionOf, n, f
<1>8. PacketSeq(i) \in Numbers  BY <1>3 DEF Numbers, M
<1> QED  BY <1>4, <1>6, <1>7, <1>8 DEF Lead, M

\* A lead of less than half the numbers is a distance, when the distance is short.
LEMMA ShortLead ==
    ASSUME NEW x \in Int, x % JitterSeqMod \in 1 .. (JitterSeqMod \div 2) - 1,
           x < JitterSeqMod, -(JitterSeqMod \div 2) <= x
    PROVE  x = x % JitterSeqMod
<1> DEFINE M == JitterSeqMod
           h == M \div 2
<1>1. M \in Nat \ {0} /\ h \in Nat /\ 2 * h = M  BY JitterConstants
<1>2. x % M \in 1 .. h - 1 /\ x < M /\ -h <= x  OBVIOUS
<1> HIDE DEF M, h
<1>3. CASE 0 <= x
  <2>1. 0 \in Int /\ x \in 0 .. M - 1 /\ 0 * M + x = x  BY <1>1, <1>2, <1>3
  <2>2. (0 * M + x) % M = x  BY <1>1, <2>1, Remainder
  <2> QED  BY <2>1, <2>2 DEF M
<1>4. CASE x < 0
  <2> DEFINE q == -1
             r == x + M
  <2>1. q \in Int /\ r \in 0 .. M - 1 /\ q * M + r = x /\ r >= h  BY <1>1, <1>2, <1>4
  <2> HIDE DEF q, r
  <2>2. (q * M + r) % M = r  BY <1>1, <2>1, Remainder
  <2>3. x % M = r  BY <2>1, <2>2
  <2> QED  BY <1>1, <1>2, <2>1, <2>3
<1> QED  BY <1>3, <1>4

\* One ahead by number is the next one.
LEMMA OneAhead ==
    ASSUME NEW a \in Numbers, NEW b \in Numbers
    PROVE  Lead(a, b) = 1 <=> b = (a + 1) % JitterSeqMod
<1> DEFINE next == (a + 1) % JitterSeqMod
<1>1. next \in Numbers /\ Lead(a, next) = 1
      /\ \A c \in Numbers : c # a /\ c # next => Lead(next, c) = Lead(a, c) - 1
  <2>1. next = (a + 1) % JitterSeqMod  OBVIOUS
  <2> HIDE DEF next
  <2> QED  BY <2>1, LeadStep
<1> HIDE DEF next
<1>2. ASSUME Lead(a, b) = 1 PROVE b = next
  <2>1. b # a  BY <1>2, BeforeIs
  <2>2. b # next => Lead(next, b) = 0  BY <1>1, <1>2, <2>1
  <2> QED  BY <1>1, <2>2, BeforeIs
<1> QED  BY <1>1, <1>2 DEF next

\* A packet may arrive late, but one that is stored is ahead of the position.
LEMMA ArrivalKeepsOrder ==
    ASSUME OrderInv, NotFarAhead, NEW i \in Packet,
           ArriveDuplicate(i) \/ ArriveTooOld(i) \/ ArriveJump(i) \/ ArriveStored(i)
    PROVE  OrderInv' /\ (heard' = heard \/ heard' = None)
<1>1. /\ BufferInv /\ BufferInv' /\ i \in Int /\ newest \in Int /\ jb.latest \in Int /\ None = -1
      /\ Window \in Int /\ jb.latest <= newest /\ heard \in Packet \union {None}
      /\ stats \in Counts /\ tally \in Tallies /\ jb.latest \in Packet \union {None}
  <2>1. BufferInv'  BY ArrivalKeeps DEF OrderInv
  <2> QED  BY <2>1, JitterAssumption
           DEF OrderInv, BufferInv, Accounts, Ordered, InOrder, Packet, None
<1>2. /\ newest' \in Packet /\ newest' \in Int /\ newest <= newest' /\ i <= newest'
      /\ i >= newest - Window
  <2>1. newest' = Larger(newest, i) /\ i >= newest - Window
    BY DEF ArriveDuplicate, ArriveTooOld, ArriveJump, ArriveStored, Delivered
  <2>2. newest' = newest \/ newest' = i  BY <2>1 DEF Larger
  <2>3. newest <= newest' /\ i <= newest'  BY <1>1, <2>1 DEF Larger
  <2>4. newest' \in Int  BY <1>1, <2>2
  <2>5. newest' \in Packet
    <3>1. newest \in Packet \union {None}  BY DEF OrderInv
    <3>2. CASE newest' = i  BY <3>2
    <3>3. CASE newest' = newest  BY <1>1, <2>3, <3>1, <3>3 DEF Packet
    <3> QED  BY <2>2, <3>2, <3>3
  <2> QED  BY <2>1, <2>3, <2>4, <2>5
<1>3. ASSUME UNCHANGED <<jb, heard, tally>>, stats'.lost = stats.lost PROVE OrderInv'
  <2>1. Position' = Position  BY <1>3 DEF Position, PositionOf, Passed
  <2>2. jb'.latest <= newest'  BY <1>1, <1>2, <1>3
  <2> QED  BY <1>1, <1>2, <1>3, <2>1, <2>2 DEF OrderInv
<1>4. ASSUME heard' = None, tally'.from = None, jb'.latest <= newest' PROVE OrderInv'
  BY <1>1, <1>2, <1>4 DEF OrderInv
<1>5. CASE ArriveDuplicate(i)  BY <1>3, <1>5 DEF ArriveDuplicate
<1>6. CASE ArriveTooOld(i)
  <2>1. UNCHANGED <<jb, heard, tally>> /\ stats' = [stats EXCEPT !.received = @ + 1]
    BY <1>6 DEF ArriveTooOld
  <2>2. stats'.lost = stats.lost  BY <1>1, <2>1 DEF Counts
  <2> QED  BY <1>3, <2>1, <2>2
<1>7. CASE ArriveJump(i)
  <2>1. heard' = None /\ tally' = NewTally(0) /\ jb' = [Empty EXCEPT !.packets = {i}, !.latest = i]
    BY <1>7 DEF ArriveJump, Forget
  <2>2. tally'.from = None /\ jb'.latest = i  BY <2>1, EmptyOrdered DEF NewTally
  <2> QED  BY <1>2, <1>4, <2>1, <2>2
<1>8. CASE ArriveStored(i)
  <2> DEFINE b == Found(i)
  <2>1. /\ ~TooOld(b, i) /\ ~Jumps(b, i) /\ jb' = Stored(b, i)
        /\ stats' = [FoundStats(i) EXCEPT !.received = @ + 1]
    BY <1>8 DEF ArriveStored
  <2>2. /\ Ordered(b) /\ b.latest \in {None, jb.latest} /\ (FoundAnew(i) => b.last = None)
        /\ (~FoundAnew(i) => b = jb /\ FoundStats(i) = stats /\ ~GapResets(i))
    BY <1>1, FoundIs DEF BufferInv
  <2>3. b.last # None => LET gap == Lead(b.last, PacketSeq(i)) IN ~(gap > BigGap /\ gap < BigGapEnd)
    <3>1. b.last # None => b = jb /\ ~GapResets(i)  BY <2>2
    <3> QED  BY <3>1 DEF GapResets, Lead
  <2> HIDE DEF b
  <2>4. /\ jb'.packets \subseteq b.packets \union {i} /\ jb'.latest = Larger(b.latest, i)
        /\ b.last # None => Before(b.last, PacketSeq(i))
    BY <2>1, <2>2, <2>3, StoredIs
  <2>5. jb'.latest <= newest'
    <3>1. jb'.latest \in {i, b.latest}  BY <2>4 DEF Larger
    <3>2. None <= newest'  BY <1>1, <1>2 DEF Packet
    <3>3. jb.latest <= newest'  BY <1>1, <1>2
    <3> QED  BY <1>2, <2>2, <3>1, <3>2, <3>3
  <2>6. CASE FoundAnew(i)
    <3>1. heard' = None /\ tally'.from = None
      BY <1>8, <2>6 DEF ArriveStored, Forget, NewTally
    <3> QED  BY <1>4, <2>5, <3>1
  <2>7. CASE ~FoundAnew(i)
    <3>1. b = jb /\ heard' = heard /\ tally' = [tally EXCEPT !.silent = @ + 1] /\ stats'.lost = stats.lost
      BY <1>1, <1>8, <2>1, <2>2, <2>7 DEF ArriveStored, Counts
    <3>2. Position' = Position /\ tally'.from = tally.from
      BY <1>1, <3>1 DEF Position, PositionOf, Passed, Tallies
    <3>3. ASSUME tally.from # None PROVE AheadOf(Position, jb'.packets, jb'.latest, heard)
      <4> DEFINE x == i - Position
                 h == JitterSeqMod \div 2
      <4>1. /\ AheadOf(Position, jb.packets, jb.latest, heard) /\ jb.last # None
            /\ jb.last \in Numbers /\ Before(jb.last, PacketSeq(i))
            /\ Accounts(jb.last, stats, tally)
        BY <1>1, <2>4, <3>1, <3>3
           DEF OrderInv, BufferInv, Accounts, Ordered, InOrder, SeqOrNone, Numbers
      <4>2. x \in Int /\ Position \in Int /\ PacketSeq(i) \in Numbers
            /\ Lead(jb.last, PacketSeq(i)) = x % JitterSeqMod
        <5>1. x = i - PositionOf(stats, tally)  BY DEF Position
        <5> HIDE DEF x
        <5> QED  BY <4>1, <5>1, LeadOfPosition DEF Position
      <4>3. h \in Nat /\ 2 * h = JitterSeqMod /\ JumpPackets \in Int /\ JumpPackets < h
        <5>1. /\ h \in Nat /\ 2 * h = JitterSeqMod /\ JumpPackets \in Nat /\ MaxPackets \in Nat
              /\ JumpPackets * (MaxPackets + 1) < h
          BY JitterConstants
        <5>2. JumpPackets * (MaxPackets + 1) = JumpPackets * MaxPackets + JumpPackets
              /\ JumpPackets * MaxPackets \in Nat
          <6>1. \A a, c \in Nat : a * (c + 1) = a * c + a /\ a * c \in Nat  OBVIOUS
          <6> QED  BY <5>1, <6>1
        <5> HIDE DEF h
        <5> QED  BY <5>1, <5>2
      <4>4. jb.latest # None /\ jb.latest - Position < h /\ heard <= Position
            /\ \A p \in jb.packets : p > Position
        BY <4>1 DEF AheadOf
      <4>5. i - jb.latest <= JumpPackets  BY <1>1, <2>1, <3>1, <4>3, <4>4 DEF Jumps
      <4>6. Position + Window - newest <= h  BY <3>3 DEF NotFarAhead
      <4>7. x % JitterSeqMod \in 1 .. h - 1  BY <4>1, <4>2, BeforeIs
      <4>8. x < JitterSeqMod /\ -h <= x
        <5> HIDE DEF h
        <5> QED  BY <1>1, <1>2, <4>2, <4>3, <4>4, <4>5, <4>6
      <4>9. x = x % JitterSeqMod
        <5> HIDE DEF x
        <5> QED  BY <4>2, <4>7, <4>8, ShortLead
      <4>10. x > 0 /\ x < h
        <5> HIDE DEF x, h
        <5> QED  BY <4>2, <4>3, <4>7, <4>9
      <4>11. \A p \in jb'.packets : p > Position  BY <1>1, <2>4, <3>1, <4>2, <4>4, <4>10
      <4>12. jb'.latest - Position < h /\ jb'.latest # None
        <5>1. jb'.latest = i \/ jb'.latest = jb.latest  BY <2>4, <3>1 DEF Larger
        <5> HIDE DEF h
        <5>2. i - Position < h /\ i # None  BY <1>1, <4>2, <4>10 DEF Packet
        <5> QED  BY <4>4, <5>1, <5>2
      <4> QED  BY <4>4, <4>11, <4>12 DEF AheadOf
    <3>4. OrderInv'  BY <1>1, <1>2, <2>5, <3>1, <3>2, <3>3 DEF OrderInv
    <3> QED  BY <3>1, <3>4
  <2> QED  BY <2>6, <2>7
<1>9. heard' = heard \/ heard' = None
  BY DEF ArriveDuplicate, ArriveTooOld, ArriveJump, ArriveStored, Forget
<1> QED  BY <1>5, <1>6, <1>7, <1>8, <1>9

\* What a pop finds is ordered as before, whatever it trims.
LEMMA PoppedAhead ==
    ASSUME OrderInv
    PROVE  /\ Ordered(Popped) /\ Popped.last = jb.last /\ Popped.latest = jb.latest
           /\ BufferInv /\ Accounts(jb.last, stats, tally) /\ (tally.from = None <=> jb.last = None)
           /\ tally.from # None => /\ AheadOf(Position, Popped.packets, Popped.latest, heard)
                                   /\ Position \in Int
<1>1. /\ BufferInv /\ Ordered(jb) /\ Accounts(jb.last, stats, tally)
      /\ tally.from # None => AheadOf(Position, jb.packets, jb.latest, heard)
  BY DEF OrderInv, BufferInv
<1>2. /\ Ordered(Popped) /\ Popped.last = jb.last /\ Popped.latest = jb.latest
      /\ Popped.packets \subseteq jb.packets
  BY <1>1, PoppedIs
<1>3. tally.from = None <=> jb.last = None  BY <1>1 DEF Accounts
<1>4. tally.from # None => Position \in Int
  BY <1>1 DEF Accounts, Tallies, Counts, Packet, Position, PositionOf, Passed
<1> QED  BY <1>1, <1>2, <1>3, <1>4 DEF AheadOf

\* Of the packets of the buffer only the one after the position has the number after it.
LEMMA PoppedNext ==
    ASSUME OrderInv, tally.from # None, NEW p \in Popped.packets
    PROVE  /\ p \in Int /\ p - Position = Lead(jb.last, PacketSeq(p))
           /\ PacketSeq(p) = (jb.last + 1) % JitterSeqMod <=> p = Position + 1
<1> DEFINE b == Popped
           n == Position
           x == p - n
           H == JitterSeqMod \div 2
<1>0. /\ Ordered(b) /\ b.last = jb.last /\ b.last # None /\ Accounts(b.last, stats, tally)
      /\ AheadOf(n, b.packets, b.latest, heard) /\ p \in b.packets
  BY PoppedAhead
<1> HIDE DEF b, n
<1>1. /\ b.packets \in SUBSET Packet /\ b.latest \in Packet \union {None} /\ b.last \in Numbers
      /\ InReach(b.packets, b.latest) /\ p \in Packet /\ p <= b.latest
      /\ p \in Int /\ b.latest \in Int /\ H \in Nat /\ 2 * H = JitterSeqMod
  BY <1>0, JitterConstants DEF Ordered, InOrder, SeqOrNone, Numbers, Packet, None, InReach
<1>2. x \in Int /\ n \in Int /\ PacketSeq(p) \in Numbers
      /\ Lead(b.last, PacketSeq(p)) = x % JitterSeqMod
  <2>1. x = p - PositionOf(stats, tally) /\ n = PositionOf(stats, tally)  BY DEF n, Position
  <2> HIDE DEF x
  <2> QED  BY <1>0, <1>1, <2>1, LeadOfPosition
<1>3. p > n /\ b.latest - n < H  BY <1>0 DEF AheadOf
<1>4. x > 0 /\ x < H  BY <1>1, <1>2, <1>3
<1>5. x = x % JitterSeqMod
  <2> DEFINE M == JitterSeqMod
  <2>1. M \in Nat \ {0} /\ x \in 0 .. M - 1 /\ 0 \in Int /\ 0 * M + x = x
    <3> HIDE DEF x, H
    <3> QED  BY <1>1, <1>2, <1>4, JitterConstants
  <2> HIDE DEF x, M
  <2>2. (0 * M + x) % M = x  BY <2>1, Remainder
  <2> QED  BY <2>1, <2>2 DEF M
<1>6. PacketSeq(p) = (b.last + 1) % JitterSeqMod <=> x = 1
  BY <1>1, <1>2, <1>5, OneAhead
<1> QED  BY <1>0, <1>1, <1>2, <1>5, <1>6 DEF n

\* A number given up was that of no packet of the buffer.
LEMMA LosingKeepsOrder ==
    ASSUME OrderInv, PopLoses
    PROVE  OrderInv' /\ heard' = heard
<1> DEFINE n == Position
           S == Popped.packets
<1>1. /\ BufferInv' /\ jb.last # None /\ tally' = tally
      /\ jb'.packets = S /\ jb'.latest = jb.latest
      /\ Passed(stats', tally') = Passed(stats, tally) + 1
      /\ \A p \in S : PacketSeq(p) # (jb.last + 1) % JitterSeqMod
  BY LosingKeeps DEF OrderInv
<1>2. heard' = heard /\ newest' = newest  BY DEF PopLoses
<1>3. /\ Ordered(Popped) /\ Popped.last = jb.last /\ Popped.latest = jb.latest
      /\ Accounts(Popped.last, stats, tally) /\ tally.from # None
      /\ AheadOf(n, S, jb.latest, heard) /\ n \in Int
  BY <1>1, PoppedAhead
<1>4. \A p \in S : p \in Int /\ p # n + 1
  BY <1>1, <1>3, PoppedNext
<1>5. Position' = n + 1
  <2>1. /\ tally.from \in Int /\ Passed(stats, tally) \in Int
    BY <1>3 DEF Accounts, Tallies, Counts, Packet, Passed
  <2> QED  BY <1>1, <2>1 DEF Position, PositionOf
<1>6. jb.latest \in Int /\ heard \in Int /\ JitterSeqMod \div 2 \in Int
  BY <1>3, JitterConstants DEF OrderInv, Ordered, InOrder, Packet, None
<1> HIDE DEF n, S
<1>7. AheadOf(n + 1, S, jb.latest, heard)  BY <1>3, <1>4, <1>6 DEF AheadOf
<1> QED  BY <1>1, <1>2, <1>3, <1>5, <1>7 DEF OrderInv

\* Catching up goes to the first packet of the buffer, which is ahead of the position.
LEMMA CatchingUpKeepsOrder ==
    ASSUME OrderInv, PopCatchesUp
    PROVE  OrderInv' /\ (heard # None => heard' > heard)
<1> DEFINE n == Position
           S == Popped.packets
           p == heard'
<1>1. /\ BufferInv' /\ jb.last # None /\ tally'.from = tally.from
      /\ S # {} /\ p = Oldest(S)
      /\ jb'.packets = S \ {p} /\ jb'.latest = jb.latest
      /\ Passed(stats', tally') = Passed(stats, tally) + Lead(jb.last, PacketSeq(p))
  BY CatchingUpKeeps DEF OrderInv
<1>2. newest' = newest  BY DEF PopCatchesUp
<1>3. /\ Ordered(Popped) /\ Popped.last = jb.last /\ Popped.latest = jb.latest
      /\ Accounts(Popped.last, stats, tally) /\ tally.from # None
      /\ AheadOf(n, S, jb.latest, heard) /\ n \in Int
  BY <1>1, PoppedAhead
<1>4. /\ p \in S /\ \A q \in S \ {p} : p < q
      /\ S \in SUBSET Packet /\ p \in Packet
  <2>1. /\ S \in SUBSET Packet /\ InReach(S, jb.latest) /\ Cardinality(S) <= MaxPackets
        /\ jb.latest \in Packet \union {None} /\ Cardinality(S) \in Nat /\ MaxPackets \in Nat
    BY <1>3, PacketsFinite, JitterConstants DEF Ordered, InOrder
  <2> HIDE DEF S
  <2>2. Cardinality(S) <= MaxPackets + 1  BY <2>1
  <2> QED  BY <1>1, <2>1, <2>2, OldestIs
<1>5. p \in Int /\ p - n = Lead(jb.last, PacketSeq(p))
  BY <1>1, <1>3, <1>4, PoppedNext
<1>6. Position' = p
  <2>1. /\ tally.from \in Int /\ Passed(stats, tally) \in Int
    BY <1>3 DEF Accounts, Tallies, Counts, Packet, Passed
  <2>2. n = tally.from + Passed(stats, tally)  BY DEF Position, PositionOf
  <2>3. Position' = tally.from + (Passed(stats, tally) + Lead(jb.last, PacketSeq(p)))
    BY <1>1 DEF Position, PositionOf
  <2> HIDE DEF n, p, S
  <2> QED  BY <1>3, <1>5, <2>1, <2>2, <2>3
<1>7. jb.latest \in Int /\ heard \in Int /\ JitterSeqMod \div 2 \in Int
  BY <1>3, JitterConstants DEF OrderInv, Ordered, InOrder, Packet, None
<1> HIDE DEF n, S, p
<1>8. p > n /\ heard <= n  BY <1>3, <1>4 DEF AheadOf
<1>9. AheadOf(p, S \ {p}, jb.latest, p)
  BY <1>3, <1>4, <1>5, <1>7, <1>8 DEF AheadOf
<1>10. p > heard /\ p # None  BY <1>3, <1>4, <1>5, <1>7, <1>8 DEF Packet, None
<1>11. heard' = p  BY DEF p
<1>12. newest \in Packet \union {None} /\ jb.latest <= newest  BY DEF OrderInv
<1> QED  BY <1>1, <1>2, <1>3, <1>4, <1>6, <1>9, <1>10, <1>11, <1>12 DEF OrderInv

\* The packet played is the first of the buffer, or the one after the position; the packet
\* skipped after it, when there is one, is the next.
LEMMA PlayingKeepsOrder ==
    ASSUME OrderInv, NEW p, PopPlays(p)
    PROVE  OrderInv' /\ (heard # None => heard' > heard)
<1> DEFINE n == Position
           S == Popped.packets
           T == jb'.packets
           h == JitterSeqMod \div 2
<1>1. /\ BufferInv' /\ p \in S /\ PacketSeq(p) = TargetSeq(Popped)
      /\ tally'.from = (IF tally.from = None THEN p ELSE tally.from)
      /\ T \subseteq S \ {p} /\ jb'.latest = jb.latest
  BY PlayingKeeps DEF OrderInv
<1>2. PICK k \in {0, 1} :
         /\ Passed(stats', tally') = Passed(stats, tally) + (k + 1)
         /\ k = 1 => \A q \in T : PacketSeq(q) # (PacketSeq(p) + 1) % JitterSeqMod
  BY PlayingKeeps DEF OrderInv
<1>3. heard' = p /\ newest' = newest  BY DEF PopPlays
<1>4. /\ Ordered(Popped) /\ Popped.last = jb.last /\ Popped.latest = jb.latest
      /\ Accounts(jb.last, stats, tally) /\ (tally.from = None <=> jb.last = None)
      /\ tally.from # None => AheadOf(n, S, jb.latest, heard) /\ n \in Int
  BY PoppedAhead
<1>5. /\ S \in SUBSET Packet /\ p \in Packet /\ p \in Int /\ p # None /\ \A q \in S : q \in Int
      /\ jb.latest \in Packet \union {None} /\ jb.latest \in Int /\ h \in Nat
      /\ InReach(S, jb.latest) /\ Cardinality(S) <= MaxPackets + 1 /\ S # {}
      /\ newest \in Packet \union {None} /\ jb.latest <= newest
      /\ heard \in Packet \union {None} /\ heard \in Int /\ (heard = None <=> tally.from = None)
  <2>1. /\ S \in SUBSET Packet /\ jb.latest \in Packet \union {None} /\ InReach(S, jb.latest)
        /\ Cardinality(S) <= MaxPackets /\ Cardinality(S) \in Nat /\ MaxPackets \in Nat /\ h \in Nat
    BY <1>4, PacketsFinite, JitterConstants DEF Ordered, InOrder
  <2>2. /\ newest \in Packet \union {None} /\ jb.latest <= newest
        /\ heard \in Packet \union {None} /\ (heard = None <=> tally.from = None)
    BY DEF OrderInv
  <2> HIDE DEF S, h
  <2>3. Cardinality(S) <= MaxPackets + 1  BY <2>1
  <2> QED  BY <1>1, <2>1, <2>2, <2>3 DEF Packet, None
<1> HIDE DEF n, S, T, h
<1>6. /\ tally'.from + Passed(stats', tally') = p + k
      /\ \A q \in T : q > p
      /\ jb.latest # None /\ jb.latest - p < h
      /\ heard # None => p > heard
  <2>1. CASE tally.from # None
    <3>1. TargetSeq(Popped) = (jb.last + 1) % JitterSeqMod  BY <1>4, <2>1 DEF TargetSeq
    <3>2. p = n + 1  BY <1>1, <2>1, <3>1, PoppedNext DEF n, S
    <3>3. /\ heard <= n /\ jb.latest # None /\ jb.latest - n < h /\ \A q \in S : q > n
          /\ n \in Int
      BY <1>4, <2>1 DEF AheadOf, h
    <3>4. n = tally.from + Passed(stats, tally) /\ tally.from \in Int /\ Passed(stats, tally) \in Int
      BY <1>4, <2>1 DEF n, Position, PositionOf, Accounts, Tallies, Counts, Packet, Passed
    <3>5. \A q \in T : q > p  BY <1>1, <1>5, <3>2, <3>3
    <3>6. tally'.from + Passed(stats', tally') = p + k
      BY <1>1, <1>2, <2>1, <3>2, <3>3, <3>4
    <3> QED  BY <1>5, <3>2, <3>3, <3>5, <3>6
  <2>2. CASE tally.from = None
    <3>1. jb.last = None /\ heard = None /\ tally'.from = p  BY <1>1, <1>4, <1>5, <2>2
    <3>2. Passed(stats, tally) = -1
      BY <1>4, <2>2 DEF Accounts, Tallies, Counts, Passed
    <3>3. PacketSeq(p) = PacketSeq(Oldest(S))  BY <1>1, <1>4, <3>1 DEF TargetSeq, S
    <3>4. Oldest(S) \in S /\ \A q \in S \ {Oldest(S)} : Oldest(S) < q  BY <1>5, OldestIs
    <3>5. p = Oldest(S)  BY <1>1, <1>5, <3>3, <3>4, NumbersDiffer
    <3>6. p <= jb.latest /\ jb.latest - p < h  BY <1>1, <1>5, ReachIsShort DEF h
    <3>7. jb.latest # None  BY <1>5, <3>6 DEF Packet, None
    <3>8. \A q \in T : q > p  BY <1>1, <1>5, <3>4, <3>5
    <3> QED  BY <1>2, <1>5, <3>1, <3>2, <3>6, <3>7, <3>8
  <2> QED  BY <2>1, <2>2
<1>7. ASSUME k = 1, NEW q \in T PROVE q # p + 1
  <2> SUFFICES ASSUME q = p + 1 PROVE FALSE
    OBVIOUS
  <2>1. q \in Packet /\ p <= q /\ q - p = 1 /\ q - p < JitterSeqMod
    BY <1>1, <1>5, <1>7, JitterConstants
  <2>2. PacketSeq(p) \in Numbers /\ PacketSeq(q) \in Numbers /\ Lead(PacketSeq(p), PacketSeq(q)) = 1
    BY <1>5, <2>1, PacketsLead
  <2>3. PacketSeq(q) = (PacketSeq(p) + 1) % JitterSeqMod  BY <2>2, OneAhead
  <2> QED  BY <1>2, <1>7, <2>3
<1>8. Position' = p + k  BY <1>6 DEF Position, PositionOf
<1>9. AheadOf(p + k, T, jb.latest, p)
  <2>1. \A q \in T : q > p + k  BY <1>1, <1>2, <1>5, <1>6, <1>7
  <2>2. p <= p + k /\ jb.latest - (p + k) < h  BY <1>2, <1>5, <1>6
  <2> QED  BY <1>6, <2>1, <2>2 DEF AheadOf, h
<1>10. tally'.from # None  BY <1>1, <1>5
<1>11. OrderInv'  BY <1>1, <1>3, <1>5, <1>8, <1>9, <1>10 DEF OrderInv, T
<1> QED  BY <1>3, <1>6, <1>11

\* Between two resets the packets are played in the order in which they were sent, each at
\* most once, as long as no silence takes the position half the numbers ahead of the sender:
\* late and repeated packets, catching up, dropping and skipping included (pop, push).
THEOREM PlayedInOrderHolds == JitterSpec /\ []NotFarAhead => PlayedInOrder
<1> DEFINE Onward == heard # None /\ heard' # None /\ heard' # heard => heard' > heard
<1>1. JitterInit => OrderInv
  <2> SUFFICES ASSUME JitterInit PROVE OrderInv
    OBVIOUS
  <2>1. /\ jb = Empty /\ stats = ZeroStats /\ tally = NewTally(0)
        /\ newest = None /\ heard = None
    BY DEF JitterInit
  <2>2. stats \in Counts /\ stats.lost = 0  BY <2>1 DEF ZeroStats, Counts
  <2>3. Accounts(None, stats, NewTally(stats.lost))  BY <2>2, AnewCounts
  <2>4. Ordered(jb) /\ jb.last = None /\ jb.latest = None  BY <2>1, EmptyOrdered
  <2>5. tally.from = None  BY <2>1 DEF NewTally
  <2>6. jb.latest <= newest  BY <2>1, <2>4 DEF None
  <2> QED  BY <2>1, <2>2, <2>3, <2>4, <2>5, <2>6 DEF OrderInv, BufferInv
<1>2. OrderInv /\ NotFarAhead /\ [JitterNext]_jitterVars => OrderInv' /\ [Onward]_jitterVars
  <2> SUFFICES ASSUME OrderInv, NotFarAhead, [JitterNext]_jitterVars PROVE OrderInv' /\ Onward
    OBVIOUS
  <2>1. /\ Ordered(Popped) /\ Popped.last = jb.last /\ Popped.latest = jb.latest
        /\ Accounts(jb.last, stats, tally)
        /\ tally.from # None => AheadOf(Position, Popped.packets, Popped.latest, heard)
    BY PoppedAhead
  <2>2. ASSUME UNCHANGED <<stats, newest, heard, tally>>, Ordered(jb'), jb'.last = jb.last,
               jb'.latest = jb.latest, jb'.packets \subseteq jb.packets
        PROVE  OrderInv' /\ Onward
    <3>1. BufferInv'  BY <2>1, <2>2 DEF BufferInv
    <3>2. Position' = Position  BY <2>2 DEF Position
    <3>3. tally.from # None => AheadOf(Position, jb'.packets, jb'.latest, heard)
      BY <2>2 DEF OrderInv, AheadOf
    <3>4. OrderInv'  BY <2>2, <3>1, <3>2, <3>3 DEF OrderInv
    <3> QED  BY <2>2, <3>4
  <2>3. Ordered(jb) /\ Popped.packets \subseteq jb.packets  BY PoppedIs DEF OrderInv, BufferInv
  <2>4. CASE UNCHANGED jitterVars  BY <2>2, <2>3, <2>4 DEF jitterVars
  <2>5. ASSUME NEW i \in Packet,
               ArriveDuplicate(i) \/ ArriveTooOld(i) \/ ArriveJump(i) \/ ArriveStored(i)
        PROVE  OrderInv' /\ Onward
    BY <2>5, ArrivalKeepsOrder
  <2>6. CASE Reset
    <3>1. /\ jb' = Empty /\ stats' = ZeroStats /\ tally' = NewTally(0) /\ heard' = None
          /\ newest' = newest
      BY <2>6 DEF Reset, Forget
    <3>2. stats' \in Counts /\ stats'.lost = 0  BY <3>1 DEF ZeroStats, Counts
    <3>3. Accounts(None, stats', NewTally(stats'.lost))  BY <3>2, AnewCounts
    <3>4. Ordered(jb') /\ jb'.last = None /\ jb'.latest = None  BY <3>1, EmptyOrdered
    <3>5. Accounts(jb'.last, stats', tally')  BY <3>1, <3>2, <3>3, <3>4
    <3>6. tally'.from = None  BY <3>1 DEF NewTally
    <3>7. newest \in Packet \union {None} /\ jb'.latest <= newest
      BY <3>4 DEF OrderInv, Packet, None
    <3>8. OrderInv'  BY <3>1, <3>4, <3>5, <3>6, <3>7 DEF OrderInv, BufferInv
    <3> QED  BY <3>1, <3>8
  <2>7. CASE PopNotReady  BY <2>2, <2>3, <2>7 DEF PopNotReady
  <2>8. CASE PopEmpty  BY <2>1, <2>2, <2>3, <2>8 DEF PopEmpty
  <2>9. CASE PopWaits
    <3>1. UNCHANGED <<stats, newest, heard, tally>>
          /\ (jb' = Popped \/ jb' = [Popped EXCEPT !.miss = @ + 1])
      BY <2>9 DEF PopWaits
    <3> DEFINE n == Popped.miss + 1
               x == [Popped EXCEPT !.miss = n]
    <3>2. n \in Int /\ (jb' = Popped \/ jb' = x)  BY <2>1, <3>1 DEF Ordered, Buffers
    <3> HIDE DEF n
    <3>3. Ordered(x) /\ Alike(x, Popped)
      <4>1. TRUE \in BOOLEAN /\ x = [Popped EXCEPT !.miss = n]  OBVIOUS
      <4> HIDE DEF x
      <4> QED  BY <2>1, <3>2, <4>1, TimingKeeps
    <3> HIDE DEF x
    <3> QED  BY <2>1, <2>2, <2>3, <3>1, <3>2, <3>3 DEF Alike
  <2>10. CASE PopLoses  BY <2>10, LosingKeepsOrder
  <2>11. CASE PopCatchesUp  BY <2>11, CatchingUpKeepsOrder
  <2>12. ASSUME NEW p \in jb.packets, PopPlays(p) PROVE OrderInv' /\ Onward
    BY <2>12, PlayingKeepsOrder
  <2> QED  BY <2>4, <2>5, <2>6, <2>7, <2>8, <2>9, <2>10, <2>11, <2>12 DEF JitterNext, Pop
<1> QED  BY <1>1, <1>2, PTL DEF JitterSpec, PlayedInOrder

----------------------------------------------------------------------------
(* The TURN client.                                                        *)

\* An item outlives its refresh threshold by a sleep of the task and seven exchanges: the
\* one that created it, and all that can come between two looks of the task at it.  With a
\* permission of 300 s, refreshed after 240 s, an exchange may take 4 s.
Outlives == \A i \in Items : ItemRefreshAt[i] + 7 * MaxReply + Round <= ItemLife[i]

\* How long after the current wait the exchange that refreshes an item has ended, at most.
Wait == [perm |-> [off |-> 0, sleep |-> 4 * MaxReply, alloc |-> 3 * MaxReply,
                   alloc2 |-> 2 * MaxReply, perm |-> MaxReply, perm2 |-> 0,
                   bind |-> 5 * MaxReply + Round, bind2 |-> 4 * MaxReply + Round],
         bind |-> [off |-> 0, sleep |-> 6 * MaxReply, alloc |-> 5 * MaxReply,
                   alloc2 |-> 4 * MaxReply, perm |-> 3 * MaxReply, perm2 |-> 2 * MaxReply,
                   bind |-> MaxReply, bind2 |-> 0]]

\* An item of this age at the server and that age in the client is refreshed in time by a
\* task in state pc that has to wait this long.
InTimeFor(i, held, age, pc, left) ==
    /\ held \in Nat /\ age \in 0 .. ItemRefreshAt[i]
    /\ age < ItemRefreshAt[i] => held <= age + MaxReply
    /\ age = ItemRefreshAt[i] => held + left + Wait[i][pc] < ItemRefreshAt[i] + 7 * MaxReply + Round

Exchanges == {"alloc", "alloc2", "perm", "perm2", "bind", "bind2"}
Clients == [state : {"Init", "Allocating", "Allocated", "ChannelBound", "Expired"},
            has : BOOLEAN, nonce : Int, perm : Int, bind : Int]
TurnServers == [held : [alloc : Int, perm : Int, bind : Int], nonce : Int, fails : Int]
TurnTasks == [pc : {"off", "sleep"} \union Exchanges, left : Nat, since : Nat, due : Nat,
              nonce : Int, again : Int, kept : SUBSET {"alloc", "perm", "bind"}]
Asks == [op : {"none", "allocate", "allocate2", "allocate3", "perm", "bind", "refresh",
               "refresh2", "deallocate"}, left : Nat, since : Nat]

\* What makes ItemsKept inductive.  The task cares for items only while the allocation is
\* usable, and an exchange takes MaxReply at most.
TurnTyped == turn \in Clients /\ server \in TurnServers /\ refreshLoop \in TurnTasks /\ api \in Asks
TaskInv ==
    /\ refreshLoop.pc = "off" => refreshLoop.kept = {}
    /\ refreshLoop.pc = "sleep" => refreshLoop.left <= Round
    /\ refreshLoop.pc \in Exchanges => Usable /\ refreshLoop.left + refreshLoop.since = MaxReply
    /\ refreshLoop.kept # {} => Usable
ApiInv ==
    /\ api.op = "none" => api = TurnIdle
    /\ api.op # "none" => api.left + api.since = MaxReply
    /\ api.op \in {"allocate", "allocate2", "allocate3"} => ~Usable
    /\ api.op \in Items /\ refreshLoop.pc # "off" => Usable
    /\ api.op = "deallocate" => refreshLoop.pc = "off"
ItemInv ==
    server.held.alloc # Gone =>
        /\ "perm" \in refreshLoop.kept =>
              InTimeFor("perm", server.held.perm, turn.perm, refreshLoop.pc, refreshLoop.left)
        /\ "bind" \in refreshLoop.kept =>
              InTimeFor("bind", server.held.bind, turn.bind, refreshLoop.pc, refreshLoop.left)
TurnInv == TurnTyped /\ TaskInv /\ ApiInv /\ ItemInv

\* The constants, without the set of the assumption.
LEMMA TurnConstants ==
    /\ {Lifetime, Round, MaxReply, RefreshAt} \subseteq Nat
    /\ \A i \in Items : ItemLife[i] \in Nat /\ ItemRefreshAt[i] \in Nat \ {0}
BY TurnAssumption DEF Items

\* The waits, as numbers.
LEMMA WaitIs ==
    /\ \A i \in Items, pc \in {"off", "sleep"} \union Exchanges : Wait[i][pc] \in Nat
    /\ Wait["perm"]["sleep"] = 4 * MaxReply /\ Wait["bind"]["sleep"] = 6 * MaxReply
    /\ Wait["perm"]["alloc"] = 3 * MaxReply /\ Wait["bind"]["alloc"] = 5 * MaxReply
    /\ Wait["perm"]["alloc2"] = 2 * MaxReply /\ Wait["bind"]["alloc2"] = 4 * MaxReply
    /\ Wait["perm"]["perm"] = MaxReply /\ Wait["bind"]["perm"] = 3 * MaxReply
    /\ Wait["perm"]["perm2"] = 0 /\ Wait["bind"]["perm2"] = 2 * MaxReply
    /\ Wait["perm"]["bind"] = 5 * MaxReply + Round /\ Wait["bind"]["bind"] = MaxReply
    /\ Wait["perm"]["bind2"] = 4 * MaxReply + Round /\ Wait["bind"]["bind2"] = 0
<1>1. MaxReply \in Nat /\ Round \in Nat  BY TurnConstants
<1> QED  BY <1>1 DEF Wait, Items, Exchanges

\* A new item is in time: its age at the server is at most that of its exchange.
LEMMA NewInTime ==
    ASSUME NEW i \in Items, NEW held \in Nat, held <= MaxReply, NEW pc, NEW left
    PROVE  InTimeFor(i, held, 0, pc, left)
<1>1. ItemRefreshAt[i] \in Nat \ {0} /\ MaxReply \in Nat  BY TurnConstants
<1> QED  BY <1>1 DEF InTimeFor

\* An item in time stays so when the task comes closer to it, or is not due when the task
\* looks at it.
LEMMA StaysInTime ==
    ASSUME NEW i \in Items, NEW held, NEW age, NEW pc, NEW left, InTimeFor(i, held, age, pc, left),
           NEW pc2, NEW left2,
           \/ age # ItemRefreshAt[i]
           \/ left + Wait[i][pc] \in Int /\ left2 + Wait[i][pc2] \in Int
              /\ left2 + Wait[i][pc2] <= left + Wait[i][pc] /\ left \in Int /\ left2 \in Int
              /\ Wait[i][pc] \in Int /\ Wait[i][pc2] \in Int
    PROVE  InTimeFor(i, held, age, pc2, left2)
<1> DEFINE w == Wait[i][pc]
           w2 == Wait[i][pc2]
           n == ItemRefreshAt[i]
<1>1. n \in Nat /\ MaxReply \in Nat /\ Round \in Nat  BY TurnConstants
<1>2. /\ held \in Nat /\ age \in 0 .. n
      /\ age < n => held <= age + MaxReply
      /\ age = n => held + left + w < n + 7 * MaxReply + Round
  BY DEF InTimeFor
<1>3. age # n \/ (left \in Int /\ left2 \in Int /\ w \in Int /\ w2 \in Int /\ left2 + w2 <= left + w)
  OBVIOUS
<1> HIDE DEF w, w2, n
<1>4. age = n => held + left2 + w2 < n + 7 * MaxReply + Round  BY <1>1, <1>2, <1>3
<1> QED  BY <1>2, <1>4 DEF InTimeFor, w2, n

\* A tick: an item in time does not lapse, and is in time after it.
LEMMA TickInTime ==
    ASSUME Outlives, NEW i \in Items, NEW held, NEW age, NEW pc \in {"sleep"} \union Exchanges,
           NEW left \in Nat, left > 0, left <= IF pc = "sleep" THEN Round ELSE MaxReply,
           InTimeFor(i, held, age, pc, left)
    PROVE  /\ InTimeFor(i, Lapsing(held, ItemLife[i]), Older(age, ItemRefreshAt[i]), pc, left - 1)
           /\ Lapsing(held, ItemLife[i]) = held + 1
<1> DEFINE w == Wait[i][pc]
           n == ItemRefreshAt[i]
           life == ItemLife[i]
           R == MaxReply
<1>1. n \in Nat \ {0} /\ R \in Nat /\ Round \in Nat /\ life \in Nat /\ n + 7 * R + Round <= life
  BY TurnConstants DEF Outlives
<1>2. /\ held \in Nat /\ age \in 0 .. n
      /\ age < n => held <= age + R
      /\ age = n => held + left + w < n + 7 * R + Round
  BY DEF InTimeFor
<1>3. w \in Nat /\ left + w <= 6 * R + Round
  <2>1. CASE i = "perm"
    <3>1. CASE pc = "sleep"  BY <1>1, <2>1, <3>1, WaitIs
    <3>2. CASE pc = "alloc"  BY <1>1, <2>1, <3>2, WaitIs
    <3>3. CASE pc = "alloc2"  BY <1>1, <2>1, <3>3, WaitIs
    <3>4. CASE pc = "perm"  BY <1>1, <2>1, <3>4, WaitIs
    <3>5. CASE pc = "perm2"  BY <1>1, <2>1, <3>5, WaitIs
    <3>6. CASE pc = "bind"  BY <1>1, <2>1, <3>6, WaitIs
    <3>7. CASE pc = "bind2"  BY <1>1, <2>1, <3>7, WaitIs
    <3> QED  BY <3>1, <3>2, <3>3, <3>4, <3>5, <3>6, <3>7 DEF Exchanges
  <2>2. CASE i = "bind"
    <3>1. CASE pc = "sleep"  BY <1>1, <2>2, <3>1, WaitIs
    <3>2. CASE pc = "alloc"  BY <1>1, <2>2, <3>2, WaitIs
    <3>3. CASE pc = "alloc2"  BY <1>1, <2>2, <3>3, WaitIs
    <3>4. CASE pc = "perm"  BY <1>1, <2>2, <3>4, WaitIs
    <3>5. CASE pc = "perm2"  BY <1>1, <2>2, <3>5, WaitIs
    <3>6. CASE pc = "bind"  BY <1>1, <2>2, <3>6, WaitIs
    <3>7. CASE pc = "bind2"  BY <1>1, <2>2, <3>7, WaitIs
    <3> QED  BY <3>1, <3>2, <3>3, <3>4, <3>5, <3>6, <3>7 DEF Exchanges
  <2> QED  BY <2>1, <2>2 DEF Items
<1>4. 0 < R \/ 0 < Round  BY <1>1
<1> HIDE DEF w, n, life, R
<1>5. held + 1 < life
  <2>1. CASE age < n  BY <1>1, <1>2, <1>4, <2>1
  <2>2. CASE age = n  BY <1>1, <1>2, <1>3, <2>2
  <2> QED  BY <1>1, <1>2, <2>1, <2>2
<1>6. Lapsing(held, life) = held + 1  BY <1>1, <1>2, <1>5 DEF Lapsing, Gone
<1> DEFINE older == Older(age, n)
<1>7. older = IF age < n THEN age + 1 ELSE n
  BY <1>1, <1>2 DEF Older, AtMost, Gone
<1> HIDE DEF older
<1>8. /\ held + 1 \in Nat /\ older \in 0 .. n
      /\ older < n => held + 1 <= older + R
      /\ older = n => held + 1 + (left - 1) + w < n + 7 * R + Round
  <2>1. CASE age < n  BY <1>1, <1>2, <1>3, <1>7, <2>1
  <2>2. CASE age = n  BY <1>1, <1>2, <1>3, <1>7, <2>2
  <2> QED  BY <1>1, <1>2, <2>1, <2>2
<1>9. InTimeFor(i, held + 1, older, pc, left - 1)  BY <1>8 DEF InTimeFor, n, R, w
<1> QED  BY <1>6, <1>9 DEF older, n, life

\* What a stage of a round leads to: the exchange of a later item that is due, a sleep when
\* none is, or the end of the task.
LEMMA AfterIs ==
    ASSUME NEW t \in Clients, NEW l \in TurnTasks, NEW stage \in {"alloc", "perm", "bind"}
    PROVE  LET r == After(t, l, stage)
           IN  /\ r \in TurnTasks /\ r.kept \subseteq l.kept
               /\ r.pc \in {"off", "sleep", "perm", "bind"}
               /\ r.pc = "off" => r.kept = {}
               /\ r.pc = "sleep" => /\ r.left <= Round
                                    /\ stage = "alloc" => ~Due(t, "perm")
                                    /\ stage # "bind" => ~Due(t, "bind")
               /\ r.pc \in {"perm", "bind"} => r.left = MaxReply /\ r.since = 0
               /\ r.pc = "perm" => stage = "alloc"
               /\ r.pc = "bind" => stage # "bind" /\ (stage = "alloc" => ~Due(t, "perm"))
<1> DEFINE r == After(t, l, stage)
           M == MaxReply
           P == Due(t, "perm")
           B == Due(t, "bind")
           due == IF l.due = 0 THEN RefreshAt ELSE l.due
           short == AtMost(Round, due)
<1>1. M \in Nat /\ Round \in Nat /\ RefreshAt \in Nat /\ l.due \in Nat
  BY TurnConstants DEF TurnTasks
<1>2. due \in Nat /\ short \in Nat /\ short <= Round
  <2>1. due \in Nat  BY <1>1
  <2> HIDE DEF due
  <2> QED  BY <1>1, <2>1 DEF AtMost
<1> HIDE DEF M, P, B, due, short
<1>3. l = [pc |-> l.pc, left |-> l.left, since |-> l.since, due |-> l.due, nonce |-> l.nonce,
           again |-> l.again, kept |-> l.kept]
  BY DEF TurnTasks
<1>4. l.nonce \in Int /\ l.kept \in SUBSET {"alloc", "perm", "bind"}  BY DEF TurnTasks
<1>5. CASE stage = "alloc" /\ P
  <2>1. r = [l EXCEPT !.pc = "perm", !.left = M, !.since = 0, !.again = Gone]
    BY <1>5 DEF After, Exchange, P, M
  <2> HIDE DEF r
  <2>2. r = [pc |-> "perm", left |-> M, since |-> 0, due |-> l.due, nonce |-> l.nonce,
             again |-> Gone, kept |-> l.kept]
    BY <1>3, <2>1
  <2>3. r \in TurnTasks /\ r.kept = l.kept /\ r.pc = "perm" /\ r.left = M /\ r.since = 0
    BY <1>1, <1>4, <2>2 DEF TurnTasks, Exchanges, Gone
  <2> QED  BY <1>5, <2>3 DEF r, M
<1>6. CASE stage \in {"alloc", "perm"} /\ ~(stage = "alloc" /\ P) /\ B
  <2>1. r = [l EXCEPT !.pc = "bind", !.left = M, !.since = 0, !.again = Gone]
    BY <1>6 DEF After, Exchange, P, B, M
  <2> HIDE DEF r
  <2>2. r = [pc |-> "bind", left |-> M, since |-> 0, due |-> l.due, nonce |-> l.nonce,
             again |-> Gone, kept |-> l.kept]
    BY <1>3, <2>1
  <2>3. r \in TurnTasks /\ r.kept = l.kept /\ r.pc = "bind" /\ r.left = M /\ r.since = 0
    BY <1>1, <1>4, <2>2 DEF TurnTasks, Exchanges, Gone
  <2> QED  BY <1>6, <2>3 DEF r, M, P
<1>7. CASE ~(stage = "alloc" /\ P) /\ ~(stage \in {"alloc", "perm"} /\ B)
  <2>1. r = Top(t, l)  BY <1>7 DEF After, P, B
  <2>2. CASE ~t.has
    <3>1. r = Off  BY <2>1, <2>2 DEF Top
    <3> HIDE DEF r
    <3>2. r \in TurnTasks /\ r.kept = {} /\ r.pc = "off"  BY <3>1 DEF Off, TurnTasks, Gone
    <3> QED  BY <3>2 DEF r
  <2>3. CASE t.has
    <3>1. r = [l EXCEPT !.pc = "sleep", !.left = short, !.since = 0, !.due = due,
                        !.nonce = t.nonce, !.again = Gone]
      BY <2>1, <2>3 DEF Top, short, due
    <3> HIDE DEF r
    <3>2. t.nonce \in Int  BY DEF Clients
    <3>3. r = [pc |-> "sleep", left |-> short, since |-> 0, due |-> due, nonce |-> t.nonce,
               again |-> Gone, kept |-> l.kept]
      BY <1>3, <3>1
    <3>4. r \in TurnTasks /\ r.kept = l.kept /\ r.pc = "sleep" /\ r.left = short
      BY <1>2, <1>4, <3>2, <3>3 DEF TurnTasks, Gone
    <3> QED  BY <1>2, <1>7, <3>4 DEF r, P, B
  <2> QED  BY <2>2, <2>3
<1> QED  BY <1>5, <1>6, <1>7

\* An item that is not due has not reached its threshold.
LEMMA NotDue ==
    ASSUME NEW t \in Clients, NEW i \in Items, t[i] \in 0 .. ItemRefreshAt[i], ~Due(t, i)
    PROVE  t[i] # ItemRefreshAt[i]
<1>1. ItemRefreshAt[i] \in Nat  BY TurnConstants
<1> QED  BY <1>1 DEF Due, Gone

\* The stage of the round that a state of the task belongs to.
InStage(stage, pc, left) ==
    \/ stage = "alloc" /\ (pc \in {"alloc", "alloc2"} \/ (pc = "sleep" /\ left = 0))
    \/ stage = "perm" /\ pc \in {"perm", "perm2"}
    \/ stage = "bind" /\ pc \in {"bind", "bind2"}

\* After a stage, the permission is still in time when it was before, and the stage was not
\* its own.
LEMMA AfterPerm ==
    ASSUME NEW t \in Clients, NEW l \in TurnTasks, NEW stage \in {"alloc", "bind"},
           NEW pc, NEW left \in Nat, InStage(stage, pc, left), NEW held,
           InTimeFor("perm", held, t.perm, pc, left),
           After(t, l, stage).pc # "off"
    PROVE  InTimeFor("perm", held, t.perm, After(t, l, stage).pc, After(t, l, stage).left)
<1> DEFINE r == After(t, l, stage)
           q == r.pc
           k == r.left
           M == MaxReply
<1>1. M \in Nat /\ Round \in Nat /\ "perm" \in Items  BY TurnConstants DEF Items
<1>2. /\ q \in {"sleep", "perm", "bind"} /\ k \in Nat
      /\ q = "sleep" => k <= Round /\ (stage = "alloc" => ~Due(t, "perm"))
      /\ q \in {"perm", "bind"} => k = M
      /\ q = "perm" => stage = "alloc"
      /\ q = "bind" => stage = "alloc" /\ ~Due(t, "perm")
  <2>1. r \in TurnTasks  BY AfterIs
  <2>2. k \in Nat  BY <2>1 DEF TurnTasks
  <2> QED  BY <2>2, AfterIs
<1>3. ~Due(t, "perm") => t.perm # ItemRefreshAt["perm"]
  <2>1. t.perm \in 0 .. ItemRefreshAt["perm"]  BY DEF InTimeFor
  <2> QED  BY <1>1, <2>1, NotDue
<1> DEFINE w == Wait["perm"][pc]
           v == Wait["perm"][q]
<1>4. pc \in {"off", "sleep"} \union Exchanges  BY DEF InStage, Exchanges
<1>5. w \in Nat /\ v \in Nat  BY <1>1, <1>2, <1>4, WaitIs DEF Exchanges
<1>6. \/ t.perm # ItemRefreshAt["perm"]
      \/ k + v <= left + w
  <2>1. CASE stage = "alloc" /\ q = "perm"
    <3>1. v = M  BY <2>1, WaitIs
    <3>2. left + w >= 2 * M
      <4>1. CASE pc = "alloc"  BY <1>1, <4>1, WaitIs
      <4>2. CASE pc = "alloc2"  BY <1>1, <4>2, WaitIs
      <4>3. CASE pc = "sleep"  BY <1>1, <4>3, WaitIs
      <4> QED  BY <2>1, <4>1, <4>2, <4>3 DEF InStage
    <3> HIDE DEF v, w, q, k, M
    <3> QED  BY <1>1, <1>2, <1>5, <2>1, <3>1, <3>2
  <2>2. CASE stage = "alloc" /\ q # "perm"  BY <1>2, <1>3, <2>2
  <2>3. CASE stage = "bind"
    <3>1. q = "sleep" /\ k <= Round  BY <1>2, <2>3
    <3>2. v = 4 * M  BY <3>1, WaitIs
    <3>3. left + w >= 4 * M + Round
      <4>1. CASE pc = "bind"  BY <1>1, <4>1, WaitIs
      <4>2. CASE pc = "bind2"  BY <1>1, <4>2, WaitIs
      <4> QED  BY <2>3, <4>1, <4>2 DEF InStage
    <3> HIDE DEF v, w, q, k, M
    <3> QED  BY <1>1, <1>2, <1>5, <3>1, <3>2, <3>3
  <2> QED  BY <2>1, <2>2, <2>3
<1> DEFINE before == left + w
           later == k + v
<1>7. before \in Int /\ later \in Int  BY <1>2, <1>5
<1>8. \/ t.perm # ItemRefreshAt["perm"]
      \/ before \in Int /\ later \in Int /\ later <= before /\ left \in Int /\ k \in Int
         /\ w \in Int /\ v \in Int
  BY <1>2, <1>5, <1>6, <1>7
<1> QED  BY <1>1, <1>8, StaysInTime

\* The same for the channel.
LEMMA AfterBind ==
    ASSUME NEW t \in Clients, NEW l \in TurnTasks, NEW stage \in {"alloc", "perm"},
           NEW pc, NEW left \in Nat, InStage(stage, pc, left), NEW held,
           InTimeFor("bind", held, t.bind, pc, left),
           After(t, l, stage).pc # "off"
    PROVE  InTimeFor("bind", held, t.bind, After(t, l, stage).pc, After(t, l, stage).left)
<1> DEFINE r == After(t, l, stage)
           q == r.pc
           k == r.left
           M == MaxReply
<1>1. M \in Nat /\ Round \in Nat /\ "bind" \in Items  BY TurnConstants DEF Items
<1>2. /\ q \in {"sleep", "perm", "bind"} /\ k \in Nat
      /\ q = "sleep" => ~Due(t, "bind")
      /\ q \in {"perm", "bind"} => k = M
      /\ q = "perm" => stage = "alloc"
  <2>1. r \in TurnTasks  BY AfterIs
  <2>2. k \in Nat  BY <2>1 DEF TurnTasks
  <2> QED  BY <2>2, AfterIs
<1>3. ~Due(t, "bind") => t.bind # ItemRefreshAt["bind"]
  <2>1. t.bind \in 0 .. ItemRefreshAt["bind"]  BY DEF InTimeFor
  <2> QED  BY <1>1, <2>1, NotDue
<1> DEFINE w == Wait["bind"][pc]
           v == Wait["bind"][q]
<1>4. pc \in {"off", "sleep"} \union Exchanges  BY DEF InStage, Exchanges
<1>5. w \in Nat /\ v \in Nat  BY <1>1, <1>2, <1>4, WaitIs DEF Exchanges
<1>6. \/ t.bind # ItemRefreshAt["bind"]
      \/ k + v <= left + w
  <2>1. CASE q = "perm"
    <3>1. v = 3 * M  BY <2>1, WaitIs
    <3>2. left + w >= 4 * M
      <4>1. CASE pc = "alloc"  BY <1>1, <4>1, WaitIs
      <4>2. CASE pc = "alloc2"  BY <1>1, <4>2, WaitIs
      <4>3. CASE pc = "sleep"  BY <1>1, <4>3, WaitIs
      <4> QED  BY <1>2, <2>1, <4>1, <4>2, <4>3 DEF InStage
    <3> HIDE DEF v, w, q, k, M
    <3> QED  BY <1>1, <1>2, <1>5, <2>1, <3>1, <3>2
  <2>2. CASE q = "bind"
    <3>1. v = M  BY <2>2, WaitIs
    <3>2. left + w >= 2 * M
      <4>1. CASE pc = "alloc"  BY <1>1, <4>1, WaitIs
      <4>2. CASE pc = "alloc2"  BY <1>1, <4>2, WaitIs
      <4>3. CASE pc = "sleep"  BY <1>1, <4>3, WaitIs
      <4>4. CASE pc = "perm"  BY <1>1, <4>4, WaitIs
      <4>5. CASE pc = "perm2"  BY <1>1, <4>5, WaitIs
      <4> QED  BY <4>1, <4>2, <4>3, <4>4, <4>5 DEF InStage
    <3> HIDE DEF v, w, q, k, M
    <3> QED  BY <1>1, <1>2, <1>5, <2>2, <3>1, <3>2
  <2>3. CASE q = "sleep"  BY <1>2, <1>3, <2>3
  <2> QED  BY <1>2, <2>1, <2>2, <2>3
<1> DEFINE before == left + w
           later == k + v
<1>7. before \in Int /\ later \in Int  BY <1>2, <1>5
<1>8. \/ t.bind # ItemRefreshAt["bind"]
      \/ before \in Int /\ later \in Int /\ later <= before /\ left \in Int /\ k \in Int
         /\ w \in Int /\ v \in Int
  BY <1>2, <1>5, <1>6, <1>7
<1> QED  BY <1>1, <1>8, StaysInTime

\* Initially nothing is held or cared for.
LEMMA TurnInitial == TurnInit => TurnInv
<1> SUFFICES ASSUME TurnInit PROVE TurnInv  OBVIOUS
<1>1. turn \in Clients /\ api \in Asks  BY DEF TurnInit, TurnIdle, Clients, Asks, Gone
<1>2. refreshLoop \in TurnTasks  BY DEF TurnInit, Off, TurnTasks, Gone
<1>3. server.held = [alloc |-> Gone, perm |-> Gone, bind |-> Gone] /\ server.nonce = 0 /\ server.fails = 0
      /\ server = [held |-> server.held, nonce |-> 0, fails |-> 0]
  BY DEF TurnInit, Granted
<1>4. server \in TurnServers /\ server.held.alloc = Gone  BY <1>3 DEF TurnServers, Gone
<1>5. refreshLoop.pc = "off" /\ refreshLoop.kept = {}  BY DEF TurnInit, Off
<1>6. TaskInv  BY <1>5 DEF TaskInv, Exchanges
<1>7. ApiInv  BY <1>5 DEF ApiInv, TurnInit, TurnIdle, Items
<1> QED  BY <1>1, <1>2, <1>4, <1>6, <1>7 DEF TurnInv, TurnTyped, ItemInv

\* A failed exchange, counted or not, leaves what the server holds.
LEMMA FailHolds ==
    ASSUME server \in TurnServers, CountFail \/ UNCHANGED server
    PROVE  server' \in TurnServers /\ server'.held = server.held
<1>1. CASE UNCHANGED server  BY <1>1
<1>2. CASE CountFail
  <2>1. server' = [held |-> server.held, nonce |-> server.nonce, fails |-> server.fails + 1]
    BY <1>2 DEF CountFail, TurnServers
  <2> QED  BY <2>1 DEF TurnServers
<1> QED  BY <1>1, <1>2

\* A step that changes neither the items nor the task, nor grants an allocation, keeps them
\* in time.
LEMMA ItemsUntouched ==
    ASSUME ItemInv, UNCHANGED refreshLoop, server'.held = server.held,
           turn'.perm = turn.perm, turn'.bind = turn.bind
    PROVE  ItemInv'
BY DEF ItemInv, InTimeFor

\* The caller asks: the exchange begins.
LEMMA SendIs ==
    ASSUME NEW op \in {"allocate", "allocate2", "allocate3", "perm", "bind", "refresh",
                       "refresh2", "deallocate"}, Send(op)
    PROVE  api' \in Asks /\ api'.op = op /\ api'.left + api'.since = MaxReply
<1> DEFINE M == MaxReply
<1>1. M \in Nat  BY TurnConstants
<1>2. api' = [op |-> op, left |-> M, since |-> 0]  BY DEF Send
<1> HIDE DEF M
<1>3. api' \in Asks /\ api'.op = op /\ api'.left = M /\ api'.since = 0  BY <1>1, <1>2 DEF Asks
<1> QED  BY <1>1, <1>3 DEF M

\* Nothing is cared for before the allocation.
LEMMA NoneKept ==
    ASSUME TurnInv, api.op \in {"allocate", "allocate2", "allocate3"}
    PROVE  refreshLoop.kept = {} /\ refreshLoop.pc \notin Exchanges /\ ~Usable
BY DEF TurnInv, ApiInv, TaskInv

LEMMA RotatesInv == ASSUME TurnInv, ServerRotates PROVE TurnInv'
<1>1. server' = [held |-> server.held, nonce |-> server.nonce + 1, fails |-> server.fails]
  BY DEF ServerRotates, TurnInv, TurnTyped, TurnServers
<1>2. server' \in TurnServers /\ server'.held = server.held
  BY <1>1 DEF TurnInv, TurnTyped, TurnServers
<1>3. UNCHANGED <<turn, refreshLoop, api>>  BY DEF ServerRotates
<1>4. ItemInv'  BY <1>2, <1>3, ItemsUntouched DEF TurnInv
<1> QED  BY <1>2, <1>3, <1>4 DEF TurnInv, TurnTyped, TaskInv, ApiInv, Usable, TurnIdle

\* The requests that no item depends on.
LEMMA AllocatingInv ==
    ASSUME TurnInv, Allocate \/ Challenged \/ ApiStale
    PROVE  TurnInv'
<1>1. UNCHANGED <<refreshLoop, server>>  BY DEF Allocate, Challenged, ApiStale
<1>2. /\ turn' \in Clients /\ turn'.perm = turn.perm /\ turn'.bind = turn.bind
      /\ turn'.state = turn.state \/ (~Usable /\ turn'.state = "Allocating")
  <2>1. turn \in Clients /\ server.nonce \in Int  BY DEF TurnInv, TurnTyped, TurnServers
  <2>2. CASE Allocate
    <3>1. turn' = [turn EXCEPT !.state = "Allocating"] /\ ~Usable  BY <2>2 DEF Allocate
    <3> QED  BY <2>1, <3>1 DEF Clients
  <2>3. CASE Challenged \/ ApiStale
    <3>1. turn' = [turn EXCEPT !.nonce = server.nonce]  BY <2>3 DEF Challenged, ApiStale
    <3> QED  BY <2>1, <3>1 DEF Clients
  <2> QED  BY <2>2, <2>3
<1>3. Usable' <=> Usable  BY <1>2 DEF Usable
<1>4. /\ api' \in Asks /\ api'.left + api'.since = MaxReply
      /\ \/ api'.op \in {"allocate", "allocate2", "allocate3"} /\ ~Usable
         \/ api'.op = "refresh2"
  <2>1. CASE Allocate
    <3>1. Send("allocate") /\ ~Usable  BY <2>1 DEF Allocate
    <3> QED  BY <3>1, SendIs
  <2>2. CASE Challenged
    <3>1. Send("allocate2") /\ ~Usable  BY <2>2, NoneKept DEF Challenged
    <3> QED  BY <3>1, SendIs
  <2>3. CASE ApiStale /\ api.op = "refresh"
    <3>1. Send("refresh2")  BY <2>3 DEF ApiStale
    <3> QED  BY <3>1, SendIs
  <2>4. CASE ApiStale /\ api.op = "allocate2"
    <3>1. Send("allocate3") /\ ~Usable  BY <2>4, NoneKept DEF ApiStale
    <3> QED  BY <3>1, SendIs
  <2> QED  BY <2>1, <2>2, <2>3, <2>4 DEF ApiStale
<1>5. ItemInv'  BY <1>1, <1>2, ItemsUntouched DEF TurnInv
<1>6. TaskInv'  BY <1>1, <1>3 DEF TurnInv, TaskInv
<1>7. ApiInv'  BY <1>3, <1>4 DEF ApiInv, Items
<1> QED  BY <1>1, <1>2, <1>4, <1>5, <1>6, <1>7 DEF TurnInv, TurnTyped

LEMMA RequestInv ==
    ASSUME TurnInv, NEW op \in Items \union {"refresh"}, Request(op)
    PROVE  TurnInv'
<1>1. UNCHANGED <<turn, refreshLoop, server>> /\ Send(op) /\ Usable  BY DEF Request
<1>2. api' \in Asks /\ api'.op = op /\ api'.left + api'.since = MaxReply
  BY <1>1, SendIs DEF Items
<1>3. ItemInv'  BY <1>1, ItemsUntouched DEF TurnInv
<1>4. TaskInv' /\ Usable'  BY <1>1 DEF TurnInv, TaskInv, Usable
<1>5. ApiInv'  BY <1>2, <1>4 DEF ApiInv, Items
<1> QED  BY <1>1, <1>2, <1>3, <1>4, <1>5 DEF TurnInv, TurnTyped

\* With nothing cared for, nothing can be late.
LEMMA NothingLate == ASSUME refreshLoop'.kept = {} PROVE ItemInv'
BY DEF ItemInv

\* The end of an exchange of the caller.
LEMMA IdleIs == api' = TurnIdle => api' \in Asks /\ ApiInv'
BY DEF TurnIdle, Asks, ApiInv, Items

\* The server grants an allocation, or drops it, and with it all its items.
LEMMA ServerGrants ==
    ASSUME server \in TurnServers, NEW a \in Int,
           server' = [server EXCEPT !.held = [Granted EXCEPT !.alloc = a]]
    PROVE  server' \in TurnServers /\ server'.held.alloc = a
<1> DEFINE held == [alloc |-> a, perm |-> Gone, bind |-> Gone]
<1>1. server' = [held |-> held, nonce |-> server.nonce, fails |-> server.fails]
  BY DEF Granted, TurnServers
<1>2. held \in [alloc : Int, perm : Int, bind : Int]  BY DEF Gone
<1>3. held.alloc = a  OBVIOUS
<1> HIDE DEF held
<1> QED  BY <1>1, <1>2, <1>3 DEF TurnServers

\* The exchange of allocate() ends, whatever comes of it: nothing was cared for.
LEMMA AllocateEndsInv ==
    ASSUME TurnInv,
           \/ AllocateUnreadable \/ AllocateFails
           \/ \E age \in Ages(api.since) : Allocated(age)
    PROVE  TurnInv'
<1>1. api' = TurnIdle /\ api.op \in {"allocate", "allocate2", "allocate3"}
  BY DEF AllocateUnreadable, AllocateFails, Allocated, Grants
<1>2. refreshLoop.kept = {} /\ refreshLoop.pc \notin Exchanges  BY <1>1, NoneKept
<1>3. turn \in Clients /\ server \in TurnServers /\ refreshLoop \in TurnTasks /\ api \in Asks
  BY DEF TurnInv, TurnTyped
<1>4. refreshLoop' = refreshLoop
  <2>1. CASE AllocateUnreadable \/ AllocateFails
    BY <2>1 DEF AllocateUnreadable, AllocateFails
  <2>2. CASE \E age \in Ages(api.since) : Allocated(age)
    <3>1. refreshLoop' = [refreshLoop EXCEPT !.kept = {}]  BY <2>2 DEF Allocated
    <3> QED  BY <1>2, <1>3, <3>1 DEF TurnTasks
  <2> QED  BY <2>1, <2>2
<1>5. turn' \in Clients
  <2>1. CASE AllocateUnreadable  BY <1>3, <2>1 DEF AllocateUnreadable
  <2>2. CASE AllocateFails
    <3>1. turn' = [turn EXCEPT !.state = "Init"]  BY <2>2 DEF AllocateFails
    <3> QED  BY <1>3, <3>1 DEF Clients
  <2>3. CASE \E age \in Ages(api.since) : Allocated(age)
    <3>1. turn' = [turn EXCEPT !.state = "Allocated", !.has = TRUE]  BY <2>3 DEF Allocated
    <3> QED  BY <1>3, <3>1 DEF Clients
  <2> QED  BY <2>1, <2>2, <2>3
<1>6. server' \in TurnServers
  <2>1. CASE AllocateUnreadable
    <3> DEFINE h == IF api.op = "allocate" THEN server.held ELSE Granted
    <3>1. server' = [held |-> h, nonce |-> server.nonce, fails |-> server.fails + 1]
      BY <1>3, <2>1 DEF AllocateUnreadable, TurnServers
    <3>2. h \in [alloc : Int, perm : Int, bind : Int]  BY <1>3 DEF Granted, Gone, TurnServers
    <3>3. server.nonce \in Int /\ server.fails + 1 \in Int  BY <1>3 DEF TurnServers
    <3> HIDE DEF h
    <3> QED  BY <3>1, <3>2, <3>3 DEF TurnServers
  <2>2. CASE AllocateFails
    <3>1. CountFail \/ UNCHANGED server  BY <2>2 DEF AllocateFails
    <3> QED  BY <1>3, <3>1, FailHolds
  <2>3. CASE \E age \in Ages(api.since) : Allocated(age)
    <3>1. PICK age \in Ages(api.since) : Allocated(age)  BY <2>3
    <3>2. age \in Int  BY <1>3, <3>1 DEF Ages, Asks
    <3>3. server' = [server EXCEPT !.held = [Granted EXCEPT !.alloc = age]]
      BY <3>1 DEF Allocated
    <3> QED  BY <1>3, <3>2, <3>3, ServerGrants
  <2> QED  BY <2>1, <2>2, <2>3
<1>7. TaskInv'
  BY <1>2, <1>4 DEF TurnInv, TaskInv
<1>8. ItemInv'  BY <1>2, <1>4, NothingLate
<1> QED  BY <1>1, <1>3, <1>4, <1>5, <1>6, <1>7, <1>8, IdleIs DEF TurnInv, TurnTyped

\* The task that is stopped cares for nothing.
LEMMA OffIs == refreshLoop' = Off => refreshLoop' \in TurnTasks /\ TaskInv' /\ ItemInv'
<1>1. Off \in TurnTasks /\ Off.pc = "off" /\ Off.kept = {}  BY DEF Off, TurnTasks, Gone
<1> QED  BY <1>1, NothingLate DEF TaskInv, Exchanges

LEMMA StopsInv ==
    ASSUME TurnInv, Deallocate \/ StopRefreshLoop
    PROVE  TurnInv'
<1>1. refreshLoop' = Off /\ UNCHANGED <<turn, server>>  BY DEF Deallocate, StopRefreshLoop
<1>2. CASE StopRefreshLoop
  <2>1. api' = TurnIdle  BY <1>2 DEF StopRefreshLoop
  <2> QED  BY <1>1, <2>1, OffIs, IdleIs DEF TurnInv, TurnTyped
<1>3. CASE Deallocate
  <2>1. api' \in Asks /\ api'.op = "deallocate" /\ api'.left + api'.since = MaxReply
    BY <1>3, SendIs DEF Deallocate
  <2>2. refreshLoop'.pc = "off"  BY <1>1 DEF Off
  <2>3. ApiInv'  BY <2>1, <2>2 DEF ApiInv, Items
  <2> QED  BY <1>1, <2>1, <2>3, OffIs DEF TurnInv, TurnTyped
<1> QED  BY <1>2, <1>3

LEMMA DeallocatedInv == ASSUME TurnInv, Deallocated PROVE TurnInv'
<1>1. refreshLoop.pc = "off" /\ refreshLoop.kept = {} /\ UNCHANGED refreshLoop /\ api' = TurnIdle
  BY DEF TurnInv, ApiInv, TaskInv, Deallocated
<1>2. turn' \in Clients
  <2>1. turn' = [turn EXCEPT !.state = "Expired", !.has = FALSE]  BY DEF Deallocated
  <2> QED  BY <2>1 DEF TurnInv, TurnTyped, Clients
<1>3. server' \in TurnServers
  <2>1. server' = [server EXCEPT !.held = [Granted EXCEPT !.alloc = Gone]]  BY DEF Deallocated
  <2> QED  BY <2>1, ServerGrants DEF TurnInv, TurnTyped, Gone
<1>4. TaskInv' /\ ItemInv'  BY <1>1, NothingLate DEF TaskInv, Exchanges
<1> QED  BY <1>1, <1>2, <1>3, <1>4, IdleIs DEF TurnInv, TurnTyped

LEMMA ApiFailsInv == ASSUME TurnInv, ApiFails PROVE TurnInv'
<1>1. UNCHANGED <<turn, refreshLoop>> /\ api' = TurnIdle /\ (CountFail \/ UNCHANGED server)
  BY DEF ApiFails, Fails
<1>2. server' \in TurnServers /\ server'.held = server.held
  BY <1>1, FailHolds DEF TurnInv, TurnTyped
<1>3. ItemInv'  BY <1>1, <1>2, ItemsUntouched DEF TurnInv
<1>4. TaskInv'  BY <1>1 DEF TurnInv, TaskInv, Usable
<1> QED  BY <1>1, <1>2, <1>3, <1>4, IdleIs DEF TurnInv, TurnTyped

\* The server refreshes one thing it holds, and keeps the others.
LEMMA ServerHolds ==
    ASSUME server \in TurnServers, NEW i \in {"alloc", "perm", "bind"}, NEW age \in Int,
           server' = [server EXCEPT !.held[i] = age]
    PROVE  /\ server' \in TurnServers /\ server'.held[i] = age
           /\ \A j \in {"alloc", "perm", "bind"} \ {i} : server'.held[j] = server.held[j]
<1> DEFINE h == server.held
           g == [h EXCEPT ![i] = age]
<1>1. h \in [alloc : Int, perm : Int, bind : Int] /\ server.nonce \in Int /\ server.fails \in Int
  BY DEF TurnServers
<1>2. server' = [held |-> g, nonce |-> server.nonce, fails |-> server.fails]  BY DEF TurnServers
<1> HIDE DEF h
<1>3. /\ g \in [alloc : Int, perm : Int, bind : Int] /\ g[i] = age
      /\ \A j \in {"alloc", "perm", "bind"} \ {i} : g[j] = h[j]
  <2>1. CASE i = "alloc"  BY <1>1, <2>1
  <2>2. CASE i = "perm"  BY <1>1, <2>2
  <2>3. CASE i = "bind"  BY <1>1, <2>3
  <2> QED  BY <2>1, <2>2, <2>3
<1> HIDE DEF g
<1>4. server' \in TurnServers /\ server'.held = g  BY <1>1, <1>2, <1>3 DEF TurnServers
<1> QED  BY <1>3, <1>4 DEF h

LEMMA RefreshedInv ==
    ASSUME TurnInv, NEW age \in Ages(api.since), Refreshed(age)
    PROVE  TurnInv'
<1>1. UNCHANGED <<turn, refreshLoop>> /\ api' = TurnIdle /\ server.held.alloc # Gone
  BY DEF Refreshed, Succeeds
<1>2. server \in TurnServers /\ age \in Int  BY DEF TurnInv, TurnTyped, Ages, Asks
<1>3. server' = [server EXCEPT !.held["alloc"] = age]  BY DEF Refreshed
<1>4. /\ server' \in TurnServers
      /\ server'.held.perm = server.held.perm /\ server'.held.bind = server.held.bind
  BY <1>2, <1>3, ServerHolds
<1>5. ItemInv'  BY <1>1, <1>4 DEF TurnInv, ItemInv, InTimeFor
<1>6. TaskInv'  BY <1>1 DEF TurnInv, TaskInv, Usable
<1> QED  BY <1>1, <1>4, <1>5, <1>6, IdleIs DEF TurnInv, TurnTyped

\* An item is created, or created again: it is new to the server and to the task.
LEMMA ItemCreatedInv ==
    ASSUME TurnInv, NEW i \in Items, NEW age \in Ages(api.since), ItemCreated(i, age)
    PROVE  TurnInv'
<1>1. /\ api.op = i /\ server.held.alloc # Gone /\ api' = TurnIdle
      /\ turn' = [turn EXCEPT ![i] = 0, !.state = IF i = "bind" THEN "ChannelBound" ELSE @]
      /\ server' = [server EXCEPT !.held[i] = age] /\ Care(i)
  BY DEF ItemCreated, Succeeds
<1>2. turn \in Clients /\ server \in TurnServers /\ refreshLoop \in TurnTasks /\ api \in Asks
  BY DEF TurnInv, TurnTyped
<1>3. api.left + api.since = MaxReply /\ (refreshLoop.pc # "off" => Usable)
  BY <1>1 DEF TurnInv, ApiInv, Items
<1>4. age \in Nat /\ age <= MaxReply /\ MaxReply \in Nat
  <2>1. age \in 0 .. api.since /\ api.left \in Nat /\ api.since \in Nat /\ MaxReply \in Nat
    BY <1>2, TurnConstants DEF Ages, Asks
  <2> QED  BY <1>3, <2>1
<1>5. /\ turn' \in Clients /\ turn'[i] = 0 /\ \A j \in Items \ {i} : turn'[j] = turn[j]
      /\ turn'.state = IF i = "bind" THEN "ChannelBound" ELSE turn.state
  <2>1. CASE i = "perm"
    <3>1. turn' = [state |-> turn.state, has |-> turn.has, nonce |-> turn.nonce, perm |-> 0,
                   bind |-> turn.bind]
      BY <1>1, <1>2, <2>1 DEF Clients
    <3> QED  BY <1>2, <2>1, <3>1 DEF Clients, Items
  <2>2. CASE i = "bind"
    <3>1. turn' = [state |-> "ChannelBound", has |-> turn.has, nonce |-> turn.nonce,
                   perm |-> turn.perm, bind |-> 0]
      BY <1>1, <1>2, <2>2 DEF Clients
    <3> QED  BY <1>2, <2>2, <3>1 DEF Clients, Items
  <2> QED  BY <2>1, <2>2 DEF Items
<1>6. /\ server' \in TurnServers /\ server'.held[i] = age
      /\ \A j \in {"alloc", "perm", "bind"} \ {i} : server'.held[j] = server.held[j]
  <2>1. i \in {"alloc", "perm", "bind"} /\ age \in Int  BY <1>4 DEF Items
  <2>2. server' = [server EXCEPT !.held[i] = age]  BY <1>1
  <2> QED  BY ONLY <1>2, <2>1, <2>2, ServerHolds
<1>7. /\ refreshLoop' \in TurnTasks /\ refreshLoop'.pc = refreshLoop.pc
      /\ refreshLoop'.left = refreshLoop.left /\ refreshLoop'.since = refreshLoop.since
      /\ refreshLoop'.kept = IF refreshLoop.pc = "off" THEN refreshLoop.kept ELSE refreshLoop.kept \union {i}
  <2> DEFINE k == IF refreshLoop.pc = "off" THEN refreshLoop.kept ELSE refreshLoop.kept \union {i}
  <2>1. refreshLoop' = [refreshLoop EXCEPT !.kept = k]  BY <1>1 DEF Care
  <2>2. k \in SUBSET {"alloc", "perm", "bind"}  BY <1>2 DEF TurnTasks, Items
  <2> HIDE DEF k
  <2>3. refreshLoop' \in TurnTasks /\ refreshLoop'.pc = refreshLoop.pc
        /\ refreshLoop'.left = refreshLoop.left /\ refreshLoop'.since = refreshLoop.since
        /\ refreshLoop'.kept = k
    BY <1>2, <2>1, <2>2 DEF TurnTasks
  <2> QED  BY <2>3 DEF k
<1>8. Usable => Usable'  BY <1>5 DEF Usable
<1>9. TaskInv'
  BY <1>3, <1>7, <1>8 DEF TurnInv, TaskInv
<1>10. ItemInv'
  <2> SUFFICES ASSUME NEW j \in Items, j \in refreshLoop'.kept
               PROVE  InTimeFor(j, server'.held[j], turn'[j], refreshLoop'.pc, refreshLoop'.left)
    BY DEF ItemInv, Items, InTimeFor
  <2>1. CASE j = i
    BY <1>4, <1>5, <1>6, <2>1, NewInTime
  <2>2. CASE j # i
    <3>1. j \in refreshLoop.kept  BY <1>7, <2>2
    <3>2. InTimeFor(j, server.held[j], turn[j], refreshLoop.pc, refreshLoop.left)
      BY <1>1, <3>1 DEF TurnInv, ItemInv, Items
    <3> QED  BY <1>5, <1>6, <1>7, <2>2, <3>2 DEF Items
  <2> QED  BY <2>1, <2>2
<1> QED  BY <1>1, <1>5, <1>6, <1>7, <1>9, <1>10, IdleIs DEF TurnInv, TurnTyped

\* The states of the task in which a request of its is under way.
LEMMA StageIs ==
    /\ DOMAIN Stage = Exchanges /\ DOMAIN Retry = {"alloc", "perm", "bind"}
    /\ \A pc \in Exchanges, left \in Nat :
          Stage[pc] \in {"alloc", "perm", "bind"} /\ InStage(Stage[pc], pc, left)
BY DEF Stage, Retry, Exchanges, InStage

\* Each exchange is one shorter wait.
LEMMA RetryWaits ==
    \A j \in Items :
        /\ MaxReply + Wait[j]["alloc"] = Wait[j]["sleep"]
        /\ \A pc \in DOMAIN Retry : /\ Retry[pc] \in Exchanges
                                    /\ MaxReply + Wait[j][Retry[pc]] = Wait[j][pc]
<1>1. MaxReply \in Nat /\ Round \in Nat  BY TurnConstants
<1> SUFFICES ASSUME NEW j \in Items
             PROVE  /\ MaxReply + Wait[j]["alloc"] = Wait[j]["sleep"]
                    /\ \A pc \in DOMAIN Retry : /\ Retry[pc] \in Exchanges
                                                /\ MaxReply + Wait[j][Retry[pc]] = Wait[j][pc]
  OBVIOUS
<1>2. CASE j = "perm"  BY <1>1, <1>2, WaitIs, StageIs DEF Retry, Exchanges
<1>3. CASE j = "bind"  BY <1>1, <1>3, WaitIs, StageIs DEF Retry, Exchanges
<1> QED  BY <1>2, <1>3 DEF Items

\* A new exchange of the task, which its waits allowed for.
LEMMA ExchangeItems ==
    ASSUME ItemInv, refreshLoop \in TurnTasks, refreshLoop'.pc \in Exchanges,
           server'.held = server.held, turn'.perm = turn.perm, turn'.bind = turn.bind,
           refreshLoop'.kept = refreshLoop.kept, refreshLoop'.left = MaxReply,
           \A j \in Items : MaxReply + Wait[j][refreshLoop'.pc] = Wait[j][refreshLoop.pc]
    PROVE  ItemInv'
<1> SUFFICES ASSUME server.held.alloc # Gone, NEW j \in Items, j \in refreshLoop.kept
             PROVE  InTimeFor(j, server.held[j], turn[j], refreshLoop'.pc, MaxReply)
  BY DEF ItemInv, Items, InTimeFor
<1> DEFINE pc == refreshLoop.pc
           pc2 == refreshLoop'.pc
           left == refreshLoop.left
           M == MaxReply
           w == Wait[j][pc]
           v == Wait[j][pc2]
<1>1. InTimeFor(j, server.held[j], turn[j], pc, left)  BY DEF ItemInv, Items
<1>2. left \in Nat /\ M \in Nat /\ w \in Nat /\ v \in Nat  BY TurnConstants, WaitIs DEF TurnTasks
<1>3. M + v = w  OBVIOUS
<1> HIDE DEF w, v, left, M
<1>4. left + w \in Int /\ M + v \in Int /\ M + v <= left + w /\ left \in Int /\ M \in Int
      /\ w \in Int /\ v \in Int
  BY <1>2, <1>3
<1> HIDE DEF pc, pc2
<1>5. InTimeFor(j, server.held[j], turn[j], pc2, M)  BY <1>1, <1>4, StaysInTime DEF w, v
<1> QED  BY <1>5 DEF pc2, M

\* What the task does after a stage of its round, while the allocation is usable.
LEMMA AfterTask ==
    ASSUME NEW l \in TurnTasks, NEW stage \in {"alloc", "perm", "bind"}, turn' \in Clients,
           refreshLoop' = After(turn', l, stage), Usable'
    PROVE  refreshLoop' \in TurnTasks /\ TaskInv'
<1> DEFINE r == After(turn', l, stage)
<1>1. /\ r \in TurnTasks /\ r.pc \in {"off", "sleep", "perm", "bind"}
      /\ r.pc = "off" => r.kept = {}
      /\ r.pc = "sleep" => r.left <= Round
      /\ r.pc \in {"perm", "bind"} => r.left = MaxReply /\ r.since = 0
  BY AfterIs
<1> HIDE DEF r
<1>2. refreshLoop' = r  BY DEF r
<1>3. MaxReply + 0 = MaxReply  BY TurnConstants
<1> QED  BY <1>1, <1>2, <1>3 DEF TaskInv, Exchanges

LEMMA AfterItems ==
    ASSUME NEW l \in TurnTasks, NEW stage \in {"alloc", "perm", "bind"}, turn' \in Clients,
           refreshLoop \in TurnTasks, InStage(stage, refreshLoop.pc, refreshLoop.left),
           refreshLoop' = After(turn', l, stage),
           \A j \in Items : j \in l.kept =>
               \/ turn'[j] = 0 /\ server'.held[j] \in Nat /\ server'.held[j] <= MaxReply
               \/ /\ j # stage
                  /\ InTimeFor(j, server'.held[j], turn'[j], refreshLoop.pc, refreshLoop.left)
    PROVE  ItemInv'
<1> DEFINE r == After(turn', l, stage)
<1>1. /\ r \in TurnTasks /\ r.kept \subseteq l.kept /\ (r.pc = "off" => r.kept = {})
  BY AfterIs
<1> SUFFICES ASSUME NEW j \in Items, j \in r.kept
             PROVE  InTimeFor(j, server'.held[j], turn'[j], r.pc, r.left)
  BY DEF ItemInv, Items, InTimeFor
<1>2. j \in l.kept /\ r.pc # "off"  BY <1>1
<1>3. CASE turn'[j] = 0 /\ server'.held[j] \in Nat /\ server'.held[j] <= MaxReply
  <2>1. InTimeFor(j, server'.held[j], 0, r.pc, r.left)
    <3> DEFINE h == server'.held[j]
               pc == r.pc
               left == r.left
    <3>1. h \in Nat /\ h <= MaxReply  BY <1>3
    <3> HIDE DEF h, pc, left, r
    <3>2. InTimeFor(j, h, 0, pc, left)  BY <3>1, NewInTime
    <3> QED  BY <3>2 DEF h, pc, left
  <2> QED  BY <1>3, <2>1
<1>4. CASE j # stage /\ InTimeFor(j, server'.held[j], turn'[j], refreshLoop.pc, refreshLoop.left)
  <2> DEFINE pc == refreshLoop.pc
             left == refreshLoop.left
             t == turn'
             h == server'.held[j]
  <2>1. left \in Nat /\ t \in Clients /\ InStage(stage, pc, left)  BY DEF TurnTasks
  <2>2. InTimeFor(j, h, t[j], pc, left) /\ After(t, l, stage).pc # "off" /\ j # stage
    BY <1>2, <1>4
  <2> HIDE DEF pc, left, t, h
  <2>3. CASE j = "perm"
    <3>1. stage \in {"alloc", "bind"} /\ InTimeFor("perm", h, t.perm, pc, left)
      BY <2>2, <2>3
    <3>2. InTimeFor("perm", h, t.perm, After(t, l, stage).pc, After(t, l, stage).left)
      BY <2>1, <2>2, <3>1, AfterPerm
    <3> QED  BY <2>3, <3>2 DEF t, h
  <2>4. CASE j = "bind"
    <3>1. stage \in {"alloc", "perm"} /\ InTimeFor("bind", h, t.bind, pc, left)
      BY <2>2, <2>4
    <3>2. InTimeFor("bind", h, t.bind, After(t, l, stage).pc, After(t, l, stage).left)
      BY <2>1, <2>2, <3>1, AfterBind
    <3> QED  BY <2>4, <3>2 DEF t, h
  <2> QED  BY <2>3, <2>4 DEF Items
<1> QED  BY <1>2, <1>3, <1>4

\* The caller waits on while the task goes its round.
LEMMA AsksOn ==
    ASSUME ApiInv, UNCHANGED api, refreshLoop.pc # "off", Usable, Usable'
    PROVE  ApiInv'
BY DEF ApiInv, Items, TurnIdle

LEMMA StartsInv == ASSUME TurnInv, StartRefreshLoop PROVE TurnInv'
<1> DEFINE r == After(turn, Off, "bind")
<1>1. UNCHANGED <<turn, api, server>> /\ api = TurnIdle /\ refreshLoop' = r
  BY DEF StartRefreshLoop, After
<1>2. Off \in TurnTasks /\ Off.kept = {}  BY DEF Off, TurnTasks, Gone
<1>3. turn \in Clients  BY DEF TurnInv, TurnTyped
<1>4. /\ r \in TurnTasks /\ r.kept = {} /\ r.pc \in {"off", "sleep"}
      /\ r.pc = "sleep" => r.left <= Round
  <2>1. /\ r \in TurnTasks /\ r.kept \subseteq Off.kept /\ r.pc \in {"off", "sleep", "perm", "bind"}
        /\ r.pc = "sleep" => r.left <= Round
        /\ r.pc # "perm" /\ r.pc # "bind"
    BY <1>2, <1>3, AfterIs
  <2> QED  BY <1>2, <2>1
<1> HIDE DEF r
<1>5. TaskInv'  BY <1>1, <1>4 DEF TaskInv, Exchanges
<1>6. ItemInv'  BY <1>1, <1>4, NothingLate
<1> QED  BY <1>1, <1>4, <1>5, <1>6, IdleIs DEF TurnInv, TurnTyped

\* A request of the task goes out.
LEMMA ExchangeIs ==
    ASSUME refreshLoop \in TurnTasks, NEW pc \in Exchanges, NEW again \in Int,
           refreshLoop' = [Exchange(refreshLoop, pc) EXCEPT !.again = again]
    PROVE  /\ refreshLoop' \in TurnTasks /\ refreshLoop'.pc = pc /\ refreshLoop'.left = MaxReply
           /\ refreshLoop'.since = 0 /\ refreshLoop'.kept = refreshLoop.kept
<1> DEFINE M == MaxReply
           l == refreshLoop
<1>1. M \in Nat  BY TurnConstants
<1>2. l = [pc |-> l.pc, left |-> l.left, since |-> l.since, due |-> l.due, nonce |-> l.nonce,
           again |-> l.again, kept |-> l.kept]
  BY DEF TurnTasks
<1>3. l.nonce \in Int /\ l.kept \in SUBSET {"alloc", "perm", "bind"} /\ l.due \in Nat
  BY DEF TurnTasks
<1> HIDE DEF l, M
<1>4. refreshLoop' = [pc |-> pc, left |-> M, since |-> 0, due |-> l.due, nonce |-> l.nonce,
                      again |-> again, kept |-> l.kept]
  BY <1>2 DEF Exchange, l, M
<1>5. refreshLoop'.pc = pc /\ refreshLoop'.left = M /\ refreshLoop'.since = 0
      /\ refreshLoop'.kept = l.kept
  BY ONLY <1>4
<1>6. pc \in {"off", "sleep"} \union Exchanges /\ again \in Int  OBVIOUS
<1>7. refreshLoop' \in TurnTasks
  BY ONLY <1>1, <1>3, <1>4, <1>6 DEF TurnTasks
<1> QED  BY <1>5, <1>7 DEF l, M

LEMMA WakesInv == ASSUME TurnInv, LoopWakes PROVE TurnInv'
<1>1. /\ refreshLoop.pc = "sleep" /\ refreshLoop.left = 0 /\ UNCHANGED <<turn, api, server>>
      /\ refreshLoop' = IF ~Usable THEN Off
                        ELSE IF refreshLoop.due = 0 THEN Exchange(refreshLoop, "alloc")
                        ELSE After(turn, refreshLoop, "alloc")
  BY DEF LoopWakes
<1>2. turn \in Clients /\ server \in TurnServers /\ refreshLoop \in TurnTasks /\ api \in Asks
      /\ ItemInv /\ ApiInv
  BY DEF TurnInv, TurnTyped
<1>3. CASE ~Usable
  <2>1. refreshLoop' = Off /\ refreshLoop'.pc = "off" /\ ~Usable'  BY <1>1, <1>3 DEF Off, Usable
  <2>2. ApiInv'  BY <1>1, <1>2, <2>1 DEF ApiInv, TurnIdle
  <2> QED  BY <1>1, <1>2, <2>1, <2>2, OffIs DEF TurnInv, TurnTyped
<1>4. CASE Usable /\ refreshLoop.due = 0
  <2>1. refreshLoop' = Exchange(refreshLoop, "alloc")  BY <1>1, <1>4
  <2>2. Exchange(refreshLoop, "alloc") = [Exchange(refreshLoop, "alloc") EXCEPT !.again = Gone]
    BY <1>2 DEF Exchange, TurnTasks
  <2>3. /\ refreshLoop' \in TurnTasks /\ refreshLoop'.pc = "alloc" /\ refreshLoop'.left = MaxReply
        /\ refreshLoop'.since = 0 /\ refreshLoop'.kept = refreshLoop.kept
    BY <1>2, <2>1, <2>2, ExchangeIs DEF Exchanges, Gone
  <2>4. Usable' /\ MaxReply + 0 = MaxReply  BY <1>1, <1>4, TurnConstants DEF Usable
  <2>5. TaskInv'  BY <2>3, <2>4 DEF TaskInv, Exchanges
  <2>6. \A j \in Items : MaxReply + Wait[j][refreshLoop'.pc] = Wait[j][refreshLoop.pc]
    BY <1>1, <2>3, RetryWaits
  <2>7. ItemInv'  BY <1>1, <1>2, <2>3, <2>6, ExchangeItems DEF Exchanges
  <2>8. ApiInv'  BY <1>1, <1>2, <1>4, <2>4, AsksOn
  <2> QED  BY <1>1, <1>2, <2>3, <2>5, <2>7, <2>8 DEF TurnInv, TurnTyped
<1>5. CASE Usable /\ refreshLoop.due # 0
  <2>1. refreshLoop' = After(turn', refreshLoop, "alloc") /\ Usable' /\ turn' \in Clients
    BY <1>1, <1>2, <1>5 DEF Usable
  <2>2. refreshLoop' \in TurnTasks /\ TaskInv'  BY <1>2, <2>1, AfterTask
  <2>3. InStage("alloc", refreshLoop.pc, refreshLoop.left)  BY <1>1 DEF InStage
  <2>4. ItemInv'
    <3>1. CASE server.held.alloc # Gone
      <4>1. \A j \in Items : j \in refreshLoop.kept =>
               j # "alloc"
               /\ InTimeFor(j, server'.held[j], turn'[j], refreshLoop.pc, refreshLoop.left)
        BY <1>1, <1>2, <3>1 DEF ItemInv, Items
      <4> QED  BY <1>2, <2>1, <2>3, <4>1, AfterItems
    <3>2. CASE server.held.alloc = Gone  BY <1>1, <3>2 DEF ItemInv
    <3> QED  BY <3>1, <3>2
  <2>5. ApiInv'  BY <1>1, <1>2, <1>5, <2>1, AsksOn
  <2> QED  BY <1>1, <1>2, <2>1, <2>2, <2>4, <2>5 DEF TurnInv, TurnTyped
<1> QED  BY <1>3, <1>4, <1>5

LEMMA StaleInv == ASSUME TurnInv, LoopStale PROVE TurnInv'
<1>1. /\ refreshLoop.pc \in DOMAIN Retry /\ UNCHANGED <<api, server>>
      /\ turn' = [turn EXCEPT !.nonce = server.nonce]
      /\ refreshLoop' = [Exchange(refreshLoop, Retry[refreshLoop.pc]) EXCEPT !.again = server.nonce]
  BY DEF LoopStale
<1>2. turn \in Clients /\ server \in TurnServers /\ refreshLoop \in TurnTasks /\ api \in Asks
      /\ ItemInv /\ ApiInv
  BY DEF TurnInv, TurnTyped
<1>3. turn' \in Clients /\ turn'.state = turn.state /\ turn'.perm = turn.perm /\ turn'.bind = turn.bind
  <2>1. server.nonce \in Int  BY <1>2 DEF TurnServers
  <2> QED  BY <1>1, <1>2, <2>1 DEF Clients
<1>4. refreshLoop.pc \in Exchanges /\ Usable /\ Usable' /\ refreshLoop.pc # "off"
  BY <1>1, <1>3, StageIs DEF TurnInv, TaskInv, Exchanges, Usable
<1> DEFINE pc == Retry[refreshLoop.pc]
<1>5. pc \in Exchanges /\ \A j \in Items : MaxReply + Wait[j][pc] = Wait[j][refreshLoop.pc]
  BY <1>1, RetryWaits DEF Items
<1>6. /\ refreshLoop' \in TurnTasks /\ refreshLoop'.pc = pc /\ refreshLoop'.left = MaxReply
      /\ refreshLoop'.since = 0 /\ refreshLoop'.kept = refreshLoop.kept
  <2>1. server.nonce \in Int  BY <1>2 DEF TurnServers
  <2>2. refreshLoop' = [Exchange(refreshLoop, pc) EXCEPT !.again = server.nonce]  BY <1>1
  <2> HIDE DEF pc
  <2> QED  BY <1>2, <1>5, <2>1, <2>2, ExchangeIs
<1> HIDE DEF pc
<1>7. MaxReply + 0 = MaxReply /\ pc # "off" /\ pc # "sleep"
  BY <1>5, TurnConstants DEF Exchanges
<1>8. TaskInv'  BY <1>4, <1>6, <1>7 DEF TaskInv
<1>9. ItemInv'  BY <1>1, <1>2, <1>3, <1>5, <1>6, ExchangeItems
<1>10. ApiInv'  BY <1>1, <1>2, <1>4, AsksOn
<1> QED  BY <1>1, <1>2, <1>3, <1>6, <1>8, <1>9, <1>10 DEF TurnInv, TurnTyped

\* A refresh succeeds: what it was for is new, the other item waited for it.
LEMMA SucceedsInv ==
    ASSUME TurnInv, NEW age \in Ages(refreshLoop.since), LoopSucceeds(age)
    PROVE  TurnInv'
<1> DEFINE stage == Stage[refreshLoop.pc]
           k == refreshLoop.kept \union {stage}
           due == IF stage = "alloc" THEN RefreshAt ELSE refreshLoop.due
           l == [refreshLoop EXCEPT !.kept = k, !.due = due]
           t == IF stage = "alloc" THEN turn ELSE [turn EXCEPT ![stage] = 0]
<1>1. /\ refreshLoop.pc \in DOMAIN Stage /\ server.held.alloc # Gone /\ UNCHANGED api
      /\ turn' = t /\ refreshLoop' = After(t, l, stage)
      /\ server' = [server EXCEPT !.held[stage] = age]
  BY DEF LoopSucceeds, Succeeds
<1>2. turn \in Clients /\ server \in TurnServers /\ refreshLoop \in TurnTasks /\ api \in Asks
      /\ ItemInv /\ ApiInv
  BY DEF TurnInv, TurnTyped
<1>3. /\ stage \in {"alloc", "perm", "bind"} /\ refreshLoop.pc # "off" /\ Usable
      /\ InStage(stage, refreshLoop.pc, refreshLoop.left)
      /\ refreshLoop.left + refreshLoop.since = MaxReply
  <2>1. refreshLoop.pc \in Exchanges /\ refreshLoop.left \in Nat
    BY <1>1, <1>2, StageIs DEF TurnTasks
  <2> QED  BY <2>1, StageIs DEF TurnInv, TaskInv, Exchanges
<1>4. age \in Nat /\ age <= MaxReply
  <2>1. age \in 0 .. refreshLoop.since /\ refreshLoop.left \in Nat /\ refreshLoop.since \in Nat
        /\ MaxReply \in Nat
    BY <1>2, TurnConstants DEF Ages, TurnTasks
  <2> QED  BY <1>3, <2>1
<1>5. due \in Nat /\ k \in SUBSET {"alloc", "perm", "bind"}
  BY <1>2, <1>3, TurnConstants DEF TurnTasks
<1>6. l \in TurnTasks /\ l.kept = k
  <2> HIDE DEF due, k
  <2> DEFINE r == refreshLoop
  <2>1. r = [pc |-> r.pc, left |-> r.left, since |-> r.since, due |-> r.due, nonce |-> r.nonce,
             again |-> r.again, kept |-> r.kept]
    BY <1>2 DEF TurnTasks
  <2> HIDE DEF r
  <2> DEFINE l1 == [r EXCEPT !.kept = k]
  <2>2. l1 = [pc |-> r.pc, left |-> r.left, since |-> r.since, due |-> r.due, nonce |-> r.nonce,
              again |-> r.again, kept |-> k]
    BY <2>1
  <2>3. l = [l1 EXCEPT !.due = due]  BY DEF r
  <2> HIDE DEF l, l1
  <2>4. l = [pc |-> r.pc, left |-> r.left, since |-> r.since, due |-> due, nonce |-> r.nonce,
             again |-> r.again, kept |-> k]
    BY <2>2, <2>3
  <2> HIDE DEF l
  <2>5. r \in TurnTasks  BY <1>2 DEF r
  <2> QED  BY <1>5, <2>4, <2>5 DEF TurnTasks
<1> HIDE DEF l, due
<1>7. /\ t \in Clients /\ t.state = turn.state /\ (stage # "alloc" => t[stage] = 0)
      /\ \A j \in Items \ {stage} : t[j] = turn[j]
  <2>1. CASE stage = "alloc"  BY <1>2, <2>1 DEF Clients, Items
  <2>2. CASE stage = "perm"
    <3>1. t = [state |-> turn.state, has |-> turn.has, nonce |-> turn.nonce, perm |-> 0,
               bind |-> turn.bind]
      BY <1>2, <2>2 DEF Clients
    <3> HIDE DEF t
    <3> QED  BY <1>2, <2>2, <3>1 DEF Clients, Items
  <2>3. CASE stage = "bind"
    <3>1. t = [state |-> turn.state, has |-> turn.has, nonce |-> turn.nonce, perm |-> turn.perm,
               bind |-> 0]
      BY <1>2, <2>3 DEF Clients
    <3> HIDE DEF t
    <3> QED  BY <1>2, <2>3, <3>1 DEF Clients, Items
  <2> QED  BY <1>3, <2>1, <2>2, <2>3
<1> HIDE DEF t, stage
<1>8. /\ server' \in TurnServers /\ server'.held[stage] = age
      /\ \A j \in {"alloc", "perm", "bind"} \ {stage} : server'.held[j] = server.held[j]
  <2>1. age \in Int  BY <1>4
  <2>2. server' = [server EXCEPT !.held[stage] = age]  BY <1>1
  <2> QED  BY ONLY <1>2, <1>3, <2>1, <2>2, ServerHolds
<1>9. turn' \in Clients /\ Usable' /\ refreshLoop' = After(turn', l, stage)
  BY <1>1, <1>3, <1>7 DEF Usable
<1>10. refreshLoop' \in TurnTasks /\ TaskInv'  BY <1>3, <1>6, <1>9, AfterTask
<1>11. \A j \in Items : j \in l.kept =>
           \/ turn'[j] = 0 /\ server'.held[j] \in Nat /\ server'.held[j] <= MaxReply
           \/ /\ j # stage
              /\ InTimeFor(j, server'.held[j], turn'[j], refreshLoop.pc, refreshLoop.left)
  <2> SUFFICES ASSUME NEW j \in Items, j \in l.kept
               PROVE  \/ turn'[j] = 0 /\ server'.held[j] \in Nat /\ server'.held[j] <= MaxReply
                      \/ /\ j # stage
                         /\ InTimeFor(j, server'.held[j], turn'[j], refreshLoop.pc, refreshLoop.left)
    OBVIOUS
  <2>1. CASE j = stage  BY <1>1, <1>4, <1>7, <1>8, <2>1 DEF Items
  <2>2. CASE j # stage
    <3>1. j \in refreshLoop.kept  BY <1>6, <2>2
    <3>2. InTimeFor(j, server.held[j], turn[j], refreshLoop.pc, refreshLoop.left)
      BY <1>1, <1>2, <3>1 DEF ItemInv, Items
    <3> QED  BY <1>1, <1>7, <1>8, <2>2, <3>2 DEF Items
  <2> QED  BY <2>1, <2>2
<1>12. ItemInv'  BY <1>2, <1>3, <1>6, <1>9, <1>11, AfterItems
<1>13. ApiInv'  BY <1>1, <1>2, <1>3, <1>9, AsksOn
<1> QED  BY <1>1, <1>2, <1>8, <1>9, <1>10, <1>12, <1>13 DEF TurnInv, TurnTyped

\* A refresh fails: of the allocation, which ends the task, or of an item, which is not
\* cared for any more.
LEMMA LoopFailsInv == ASSUME TurnInv, LoopFails PROVE TurnInv'
<1> DEFINE stage == Stage[refreshLoop.pc]
           k == refreshLoop.kept \ {stage}
           l == [refreshLoop EXCEPT !.kept = k]
<1>1. /\ refreshLoop.pc \in DOMAIN Stage /\ UNCHANGED api
      /\ CountFail \/ UNCHANGED server
      /\ stage = "alloc" => turn' = [turn EXCEPT !.state = "Expired"] /\ refreshLoop' = Off
      /\ stage # "alloc" => refreshLoop' = After(turn, l, stage) /\ UNCHANGED turn
  BY DEF LoopFails, Fails
<1>2. turn \in Clients /\ server \in TurnServers /\ refreshLoop \in TurnTasks /\ api \in Asks
      /\ ItemInv /\ ApiInv
  BY DEF TurnInv, TurnTyped
<1>3. server' \in TurnServers /\ server'.held = server.held  BY <1>1, <1>2, FailHolds
<1>4. /\ stage \in {"alloc", "perm", "bind"} /\ refreshLoop.pc # "off" /\ Usable
      /\ InStage(stage, refreshLoop.pc, refreshLoop.left)
  <2>1. refreshLoop.pc \in Exchanges /\ refreshLoop.left \in Nat
    BY <1>1, <1>2, StageIs DEF TurnTasks
  <2> QED  BY <2>1, StageIs DEF TurnInv, TaskInv, Exchanges
<1>5. k \in SUBSET {"alloc", "perm", "bind"}  BY <1>2 DEF TurnTasks
<1>6. l \in TurnTasks /\ l.kept = k
  <2> HIDE DEF k
  <2> QED  BY <1>2, <1>5 DEF TurnTasks
<1> HIDE DEF l, stage
<1>7. CASE stage = "alloc"
  <2>1. turn' \in Clients /\ ~Usable'
    BY <1>1, <1>2, <1>7 DEF Clients, Usable
  <2>2. refreshLoop' = Off /\ refreshLoop'.pc = "off"  BY <1>1, <1>7 DEF Off
  <2>3. ApiInv'  BY <1>1, <1>2, <2>1, <2>2 DEF ApiInv, TurnIdle
  <2> QED  BY <1>1, <1>2, <1>3, <2>1, <2>2, <2>3, OffIs DEF TurnInv, TurnTyped
<1>8. CASE stage # "alloc"
  <2>1. turn' = turn /\ turn' \in Clients /\ Usable' /\ refreshLoop' = After(turn', l, stage)
    BY <1>1, <1>2, <1>4, <1>8 DEF Usable
  <2>2. refreshLoop' \in TurnTasks /\ TaskInv'  BY <1>4, <1>6, <2>1, AfterTask
  <2>3. ItemInv'
    <3>1. CASE server.held.alloc # Gone
      <4>1. \A j \in Items : j \in l.kept =>
               j # stage
               /\ InTimeFor(j, server'.held[j], turn'[j], refreshLoop.pc, refreshLoop.left)
        BY <1>2, <1>3, <1>6, <2>1, <3>1 DEF ItemInv, Items
      <4> QED  BY <1>2, <1>4, <1>6, <2>1, <4>1, AfterItems
    <3>2. CASE server.held.alloc = Gone  BY <1>3, <3>2 DEF ItemInv
    <3> QED  BY <3>1, <3>2
  <2>4. ApiInv'  BY <1>1, <1>2, <1>4, <2>1, AsksOn
  <2> QED  BY <1>1, <1>2, <1>3, <2>1, <2>2, <2>3, <2>4 DEF TurnInv, TurnTyped
<1> QED  BY <1>7, <1>8

\* Time passes: no longer than the task and the caller wait, and so for no item too long.
LEMMA TurnTickInv == ASSUME Outlives, TurnInv, Tick PROVE TurnInv'
<1> DEFINE l == refreshLoop
           due == IF l.due > 0 THEN l.due - 1 ELSE 0
           perm == Older(turn.perm, ItemRefreshAt["perm"])
           bind == Older(turn.bind, ItemRefreshAt["bind"])
           held == server.held
<1>1. /\ l.pc # "off" => l.left > 0
      /\ api # TurnIdle => api.left > 0
      /\ turn' = [turn EXCEPT !.perm = perm, !.bind = bind]
      /\ refreshLoop' = IF l.pc = "off" THEN l
                        ELSE [l EXCEPT !.left = @ - 1, !.since = @ + 1, !.due = due]
      /\ api' = IF api = TurnIdle THEN api ELSE [api EXCEPT !.left = @ - 1, !.since = @ + 1]
      /\ server' = [server EXCEPT !.held =
             IF Lapsing(held.alloc, Lifetime) = Gone
             THEN [Granted EXCEPT !.alloc = Gone]
             ELSE [alloc |-> held.alloc + 1,
                   perm |-> Lapsing(held.perm, ItemLife["perm"]),
                   bind |-> Lapsing(held.bind, ItemLife["bind"])]]
  BY DEF Tick
<1>2. turn \in Clients /\ server \in TurnServers /\ refreshLoop \in TurnTasks /\ api \in Asks
      /\ ItemInv /\ ApiInv /\ TaskInv
  BY DEF TurnInv, TurnTyped
<1>3. perm \in Int /\ bind \in Int
  <2>1. turn.perm \in Int /\ turn.bind \in Int /\ ItemRefreshAt["perm"] \in Int
        /\ ItemRefreshAt["bind"] \in Int
    BY <1>2, TurnConstants DEF Clients, Items
  <2> QED  BY <2>1 DEF Older, AtMost, Gone
<1>4. turn' \in Clients /\ turn'.perm = perm /\ turn'.bind = bind /\ turn'.state = turn.state
  <2> HIDE DEF perm, bind
  <2> DEFINE t1 == [turn EXCEPT !.perm = perm]
  <2>1. t1 \in Clients /\ t1.perm = perm /\ t1.state = turn.state  BY <1>2, <1>3 DEF Clients
  <2>2. turn' = [t1 EXCEPT !.bind = bind]  BY <1>1
  <2> HIDE DEF t1
  <2> QED  BY <1>3, <2>1, <2>2 DEF Clients
<1>5. /\ refreshLoop' \in TurnTasks /\ refreshLoop'.pc = l.pc /\ refreshLoop'.kept = l.kept
      /\ l.pc # "off" => /\ refreshLoop'.left = l.left - 1 /\ l.left \in Nat /\ l.left > 0
                         /\ refreshLoop'.left + refreshLoop'.since = l.left + l.since
  <2>1. CASE l.pc = "off"  BY <1>1, <1>2, <2>1
  <2>2. CASE l.pc # "off"
    <3> DEFINE m == l.left - 1
               n == l.since + 1
    <3>1. l.left \in Nat /\ l.left > 0 /\ l.since \in Nat /\ l.due \in Nat
      BY <1>1, <1>2, <2>2 DEF TurnTasks
    <3>2. m \in Nat /\ n \in Nat /\ due \in Nat /\ m + n = l.left + l.since  BY <3>1
    <3>3. refreshLoop' = [l EXCEPT !.left = m, !.since = n, !.due = due]  BY <1>1, <2>2
    <3> DEFINE r == refreshLoop'
               l1 == [l EXCEPT !.left = m]
               l2 == [l1 EXCEPT !.since = n]
    <3> HIDE DEF m, n, due
    <3>4. l1 \in TurnTasks /\ l1.pc = l.pc /\ l1.kept = l.kept /\ l1.left = m
      BY <1>2, <3>2 DEF TurnTasks
    <3> HIDE DEF l1
    <3>5. l2 \in TurnTasks /\ l2.pc = l.pc /\ l2.kept = l.kept /\ l2.left = m /\ l2.since = n
      BY <3>2, <3>4 DEF TurnTasks
    <3>6. r = [l2 EXCEPT !.due = due]  BY <3>3 DEF l1
    <3> HIDE DEF l2, r
    <3>7. r \in TurnTasks /\ r.pc = l.pc /\ r.kept = l.kept /\ r.left = m /\ r.since = n
      BY <3>2, <3>5, <3>6 DEF TurnTasks
    <3> QED  BY <2>2, <3>1, <3>2, <3>7 DEF r, m
  <2> QED  BY <2>1, <2>2
<1>6. api' \in Asks /\ ApiInv'
  <2>1. Usable' <=> Usable  BY <1>4 DEF Usable
  <2>2. CASE api = TurnIdle
    <3>1. api' = TurnIdle  BY <1>1, <2>2
    <3> QED  BY <3>1, IdleIs
  <2>3. CASE api # TurnIdle
    <3> DEFINE m == api.left - 1
               n == api.since + 1
    <3>1. api.left \in Nat /\ api.left > 0 /\ api.since \in Nat /\ api.op # "none"
          /\ api.left + api.since = MaxReply
      BY <1>1, <1>2, <2>3 DEF Asks, ApiInv
    <3>2. m \in Nat /\ n \in Nat /\ m + n = MaxReply  BY <3>1
    <3>3. api' = [op |-> api.op, left |-> m, since |-> n]  BY <1>1, <1>2, <2>3 DEF Asks
    <3> HIDE DEF m, n
    <3>4. api' \in Asks /\ api'.op = api.op /\ api'.left = m /\ api'.since = n
      BY <1>2, <3>2, <3>3 DEF Asks
    <3> QED  BY <1>2, <1>5, <2>1, <3>1, <3>2, <3>4 DEF ApiInv
  <2> QED  BY <2>2, <2>3
<1>7. TaskInv'
  <2>1. Usable' <=> Usable  BY <1>4 DEF Usable
  <2>2. l.pc = "sleep" => refreshLoop'.left <= Round
    <3>1. l.pc = "sleep" => l.left <= Round /\ l.pc # "off"  BY <1>2 DEF TaskInv
    <3>2. Round \in Nat  BY TurnConstants
    <3> HIDE DEF l
    <3> QED  BY <1>5, <3>1, <3>2
  <2>3. l.pc \in Exchanges => refreshLoop'.left + refreshLoop'.since = MaxReply
    BY <1>2, <1>5 DEF TaskInv, Exchanges
  <2> QED  BY <1>2, <1>5, <2>1, <2>2, <2>3 DEF TaskInv
<1> DEFINE lapsed == Lapsing(held.alloc, Lifetime) = Gone
           p == Lapsing(held.perm, ItemLife["perm"])
           b == Lapsing(held.bind, ItemLife["bind"])
<1>8. /\ server' \in TurnServers
      /\ lapsed => server'.held.alloc = Gone
      /\ ~lapsed => held.alloc # Gone /\ server'.held.perm = p /\ server'.held.bind = b
  <2>1. CASE lapsed
    <3>1. server' = [server EXCEPT !.held = [Granted EXCEPT !.alloc = Gone]]  BY <1>1, <2>1
    <3> QED  BY <1>2, <2>1, <3>1, ServerGrants DEF Gone
  <2>2. CASE ~lapsed
    <3> DEFINE a == held.alloc + 1
               h == [alloc |-> a, perm |-> p, bind |-> b]
    <3>1. /\ held.alloc \in Int /\ held.perm \in Int /\ held.bind \in Int
          /\ server.nonce \in Int /\ server.fails \in Int
      BY <1>2 DEF TurnServers
    <3>2. a \in Int /\ p \in Int /\ b \in Int  BY <3>1 DEF Lapsing, Gone
    <3>3. held.alloc # Gone  BY <2>2 DEF Lapsing
    <3>4. server' = [server EXCEPT !.held = h]  BY <1>1, <2>2
    <3> HIDE DEF a, p, b
    <3>5. h \in [alloc : Int, perm : Int, bind : Int] /\ h.perm = p /\ h.bind = b  BY <3>2
    <3> HIDE DEF h
    <3>6. server' = [held |-> h, nonce |-> server.nonce, fails |-> server.fails]
      BY <1>2, <3>4 DEF TurnServers
    <3>7. server' \in TurnServers /\ server'.held = h  BY <3>1, <3>5, <3>6 DEF TurnServers
    <3> QED  BY <2>2, <3>3, <3>5, <3>7
  <2> QED  BY <2>1, <2>2
<1>9. ItemInv'
  <2>1. CASE lapsed \/ l.kept = {}  BY <1>5, <1>8, <2>1, NothingLate DEF ItemInv
  <2>2. CASE ~lapsed /\ l.kept # {}
    <3> DEFINE pc == l.pc
               left == l.left
    <3>1. /\ pc \in {"sleep"} \union Exchanges /\ left \in Nat /\ left > 0
          /\ left <= IF pc = "sleep" THEN Round ELSE MaxReply
      <4>1. pc # "off" /\ pc \in {"off", "sleep"} \union Exchanges
        BY <1>2, <2>2 DEF TaskInv, TurnTasks
      <4>2. left \in Nat /\ left > 0 /\ l.since \in Nat  BY <1>2, <1>5, <4>1 DEF TurnTasks
      <4>3. pc = "sleep" => left <= Round  BY <1>2 DEF TaskInv
      <4>4. pc \in Exchanges => left + l.since = MaxReply  BY <1>2 DEF TaskInv
      <4> HIDE DEF pc, left
      <4> QED  BY <4>1, <4>2, <4>3, <4>4, TurnConstants
    <3>2. /\ "perm" \in l.kept => InTimeFor("perm", held.perm, turn.perm, pc, left)
          /\ "bind" \in l.kept => InTimeFor("bind", held.bind, turn.bind, pc, left)
      BY <1>2, <1>8, <2>2 DEF ItemInv
    <3> HIDE DEF pc, left, held, l
    <3>3. "perm" \in l.kept => InTimeFor("perm", p, perm, pc, left - 1)
      <4>1. "perm" \in Items  BY DEF Items
      <4> QED  BY <3>1, <3>2, <4>1, TickInTime
    <3>4. "bind" \in l.kept => InTimeFor("bind", b, bind, pc, left - 1)
      <4>1. "bind" \in Items  BY DEF Items
      <4> QED  BY <3>1, <3>2, <4>1, TickInTime
    <3>5. refreshLoop'.pc = pc /\ refreshLoop'.left = left - 1 /\ refreshLoop'.kept = l.kept
      BY <1>5, <3>1 DEF pc, left, Exchanges
    <3> HIDE DEF p, b, perm, bind
    <3> QED  BY <1>4, <1>8, <2>2, <3>3, <3>4, <3>5 DEF ItemInv
  <2> QED  BY <2>1, <2>2
<1> QED  BY <1>4, <1>5, <1>6, <1>7, <1>8, <1>9 DEF TurnInv, TurnTyped

LEMMA TurnStutters == ASSUME TurnInv, UNCHANGED turnVars PROVE TurnInv'
<1>1. UNCHANGED turn /\ UNCHANGED refreshLoop /\ UNCHANGED api /\ UNCHANGED server
  BY DEF turnVars
<1> QED
  BY <1>1 DEF TurnInv, TurnTyped, TaskInv, ApiInv, ItemInv, InTimeFor, Usable, TurnIdle

\* Every step keeps the items in time.
LEMMA TurnSteps == ASSUME Outlives, TurnInv, [TurnNext]_turnVars PROVE TurnInv'
<1>1. CASE ServerRotates  BY <1>1, RotatesInv
<1>2. CASE Tick  BY <1>2, TurnTickInv
<1>3. CASE Allocate \/ Challenged \/ ApiStale  BY <1>3, AllocatingInv
<1>4. CASE AllocateUnreadable \/ AllocateFails \/ \E age \in Ages(api.since) : Allocated(age)
  BY <1>4, AllocateEndsInv
<1>5. CASE \E op \in Items \union {"refresh"} : Request(op)  BY <1>5, RequestInv
<1>6. CASE \E age \in Ages(api.since) : Refreshed(age)  BY <1>6, RefreshedInv
<1>7. CASE \E age \in Ages(api.since) : \E i \in Items : ItemCreated(i, age)
  BY <1>7, ItemCreatedInv
<1>8. CASE ApiFails  BY <1>8, ApiFailsInv
<1>9. CASE Deallocate \/ StopRefreshLoop  BY <1>9, StopsInv
<1>10. CASE Deallocated  BY <1>10, DeallocatedInv
<1>11. CASE StartRefreshLoop  BY <1>11, StartsInv
<1>12. CASE LoopWakes  BY <1>12, WakesInv
<1>13. CASE LoopStale  BY <1>13, StaleInv
<1>14. CASE LoopFails  BY <1>14, LoopFailsInv
<1>15. CASE \E age \in Ages(refreshLoop.since) : LoopSucceeds(age)  BY <1>15, SucceedsInv
<1>16. CASE UNCHANGED turnVars  BY <1>16, TurnStutters
<1> QED
  BY <1>1, <1>2, <1>3, <1>4, <1>5, <1>6, <1>7, <1>8, <1>9, <1>10, <1>11, <1>12, <1>13, <1>14,
     <1>15, <1>16 DEF TurnNext

\* A permission or channel that the refresh task cares for does not lapse at the server
\* before the allocation does (Bug #33: the task refreshes the items that are due after the
\* allocation, with the nonce of the round, again after a 438), for any lifetimes that leave
\* the task a round and seven exchanges, and whatever nonces go stale meanwhile.
THEOREM ItemsKeptHolds == ASSUME Outlives PROVE TurnSpec => []ItemsKept
<1>1. TurnInit => TurnInv  BY TurnInitial
<1>2. TurnInv /\ [TurnNext]_turnVars => TurnInv'  BY TurnSteps
<1>3. TurnInv => ItemsKept
  <2> SUFFICES ASSUME TurnInv, server.held.alloc # Gone, NEW i \in refreshLoop.kept
               PROVE  server.held[i] # Gone
    BY DEF ItemsKept
  <2>1. i \in {"alloc", "perm", "bind"}  BY DEF TurnInv, TurnTyped, TurnTasks
  <2>2. CASE i = "alloc"  BY <2>2
  <2>3. CASE i \in {"perm", "bind"}  BY <2>3 DEF TurnInv, ItemInv, InTimeFor, Gone
  <2> QED  BY <2>1, <2>2, <2>3
<1> QED  BY <1>1, <1>2, <1>3, PTL DEF TurnSpec
=============================================================================

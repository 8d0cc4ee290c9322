----------------------------- MODULE RtpSender -----------------------------
(***************************************************************************)
(* The send path of the RTP engine (send_audio, send_comfort_noise and     *)
(* send_dtmf of rtp/engine.rs over RtpPacketBuilder and DtmfSender).       *)
(* Several tasks send on one stream: the application, the task that fills  *)
(* gaps with silence, and callers of send_dtmf.  Each takes its sequence   *)
(* numbers under the builder's lock and sends later; with SRTP a packet    *)
(* is protected, under another lock, just before it is sent.               *)
(***************************************************************************)
EXTENDS SrtpContext, Sequences

CONSTANTS
    Senders,      \* tasks that send
    Secure,       \* is SRTP configured?
    FirstSeq0,    \* the builder's random first sequence number
    Intervals,    \* packets of a digit before its end packets
    MaxSends      \* bound: calls of the send methods (TLC)

ASSUME SenderAssumption ==
    /\ Secure \in BOOLEAN /\ FirstSeq0 \in SeqNums
    /\ Intervals \in Nat \ {0} /\ MaxSends \in Nat

VARIABLES
    builder,   \* packet_builder: the next sequence number and timestamp
    snd,       \* srtp_send
    queue,     \* what each task has numbered and not sent
    noticed,   \* what a task inside send_dtmf has read of the builder, and its digit
    calls,     \* calls begun: the number of the last one
    wire       \* packets sent, in order

sendVars == <<builder, snd, queue, noticed, calls, wire>>

EndPackets == 3

SendInit ==
    /\ builder = [seq |-> FirstSeq0, stamp |-> 0]
    /\ snd = NewSender
    /\ queue = [t \in Senders |-> <<>>] /\ noticed = [t \in Senders |-> {}]
    /\ calls = 0 /\ wire = <<>>

Idle(t) == queue[t] = <<>> /\ noticed[t] = {} /\ calls < MaxSends
Numbered(seq, stamp, digit) == [seq |-> seq, stamp |-> stamp, digit |-> digit]
Later(seq, n) == (seq + n) % WireMod

\* send_audio, send_audio_with_marker: build numbers a packet and moves the clock.
SendAudio(t) ==
    /\ Idle(t)
    /\ queue' = [queue EXCEPT ![t] = <<Numbered(builder.seq, builder.stamp, 0)>>]
    /\ builder' = [seq |-> Later(builder.seq, 1), stamp |-> builder.stamp + 1]
    /\ calls' = calls + 1
    /\ UNCHANGED <<snd, noticed, wire>>

\* send_comfort_noise: the clock stays.
SendComfortNoise(t) ==
    /\ Idle(t)
    /\ queue' = [queue EXCEPT ![t] = <<Numbered(builder.seq, builder.stamp, 0)>>]
    /\ builder' = [builder EXCEPT !.seq = Later(@, 1)]
    /\ calls' = calls + 1
    /\ UNCHANGED <<snd, noticed, wire>>

\* send_dtmf, first part: the builder is read and its lock given back.
BeginDigit(t) ==
    /\ Idle(t)
    /\ noticed' = [noticed EXCEPT ![t] = {[builder |-> builder, digit |-> calls + 1]}]
    /\ calls' = calls + 1
    /\ UNCHANGED <<builder, snd, queue, wire>>

\* generate_digit: the packets of a digit share the timestamp and count up from
\* the sequence number that was read; the end packets are one packet three times.
Digit(b, digit) ==
    [i \in 1 .. Intervals + EndPackets |->
        Numbered(Later(b.seq, IF i <= Intervals THEN i - 1 ELSE Intervals), b.stamp, digit)]

\* send_dtmf, second part: set_sequence.
NumberDigit(t) == \E n \in noticed[t] :
    /\ queue' = [queue EXCEPT ![t] = Digit(n.builder, n.digit)]
    /\ builder' = [builder EXCEPT !.seq = Later(n.builder.seq, Intervals + 1)]
    /\ noticed' = [noticed EXCEPT ![t] = {}]
    /\ UNCHANGED <<snd, calls, wire>>

\* A numbered packet is protected and sent; when SRTP refuses it the call returns
\* the error, and what is left of a digit is never sent.
Transmit(t) ==
    /\ queue[t] # <<>>
    /\ LET p == Head(queue[t])
       IN  IF ~Secure
           THEN /\ wire' = Append(wire, [packet |-> p, index |-> 0])
                /\ queue' = [queue EXCEPT ![t] = Tail(@)] /\ UNCHANGED snd
           ELSE /\ snd' = Protected(snd, p.seq)
                /\ IF Protects(snd, p.seq)
                   THEN /\ wire' = Append(wire, [packet |-> p, index |-> IndexOf(snd, p.seq)])
                        /\ queue' = [queue EXCEPT ![t] = Tail(@)]
                   ELSE queue' = [queue EXCEPT ![t] = <<>>] /\ UNCHANGED wire
    /\ UNCHANGED <<builder, noticed, calls>>

SendNext == \E t \in Senders :
    SendAudio(t) \/ SendComfortNoise(t) \/ BeginDigit(t) \/ NumberDigit(t) \/ Transmit(t)

SendSpec == SendInit /\ [][SendNext]_sendVars

----------------------------------------------------------------------------
(* Properties.                                                             *)

SendTypeOK ==
    /\ builder.seq \in SeqNums /\ calls \in 0 .. MaxSends
    /\ \A t \in Senders : Len(queue[t]) <= Intervals + EndPackets

\* No packet index is used for two packets: whatever order the tasks number and
\* send in, and however often a task starts again from an older number, the
\* keystream of protect_rtp is never used twice.
KeystreamOnce ==
    Secure => \A i, j \in DOMAIN wire : wire[i].index = wire[j].index => i = j
=============================================================================

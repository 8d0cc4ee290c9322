-------------------------------- MODULE Sdp ---------------------------------
(***************************************************************************)
(* Session descriptions (sip/sdp.rs): Sdp::parse as the machine it is, one *)
(* line at a time, what is asked of its result, and SdpBuilder.  A line is *)
(* its type and the value that matters: a c= line the address, an m= line  *)
(* the kind of media, the port and the payload types, an a= line a         *)
(* direction or the payload type of an rtpmap; "bad" is a line that does   *)
(* not parse.                                                              *)
(***************************************************************************)
EXTENDS Integers, SequencesExt

CONSTANTS
    Addresses,      \* addresses of c= lines, with Unspecified among them
    Unspecified,    \* 0.0.0.0
    Ports,          \* ports of m= lines, with 0 among them
    PayloadLists,   \* payload types of m= lines
    MaxLines        \* bound: lines of a description read line by line (TLC)

ASSUME SdpAssumption ==
    /\ Unspecified \in Addresses /\ Ports \subseteq Nat /\ MaxLines \in Nat
    /\ \A list \in PayloadLists : list \in Seq(Nat)

VARIABLES
    coming,   \* the lines still to be read, as far as they are known
    lines,    \* the lines read (history)
    parser    \* the variables of parse

sdpVars == <<coming, lines, parser>>

Directions == {"sendrecv", "sendonly", "recvonly", "inactive"}
Mandatory == {"v", "o", "s"}
TelephoneEvent == 101
Line(type, value) == [type |-> type, value |-> value]
MediaLine(kind, port, payloads) == [kind |-> kind, port |-> port, payloads |-> payloads]

DescriptionLines ==
    {Line(t, "any") : t \in Mandatory \union {"t"}}
    \union {Line("c", a) : a \in Addresses} \union {Line("bad", "any")}
    \union {Line("m", MediaLine(k, p, l)) : k \in {"audio", "video"}, p \in Ports, l \in PayloadLists}
    \union {Line("dir", d) : d \in Directions} \union {Line("rtpmap", TelephoneEvent)}

\* parse: what it keeps from line to line.
EmptyParser == [failed |-> FALSE, has |-> {}, connection |-> {}, direction |-> {}, media |-> <<>>, in |-> {}]
NewMedia(m) == [kind |-> m.kind, port |-> m.port, payloads |-> m.payloads, connection |-> {},
                rtpmap |-> {}, direction |-> "sendrecv", explicit |-> FALSE]
Closed(p) == [p EXCEPT !.media = @ \o SetToSeq(p.in), !.in = {}]

\* A line in the media that is open, or for the session when none is.
InMedia(p, f(_)) == [p EXCEPT !.in = {f(m) : m \in @}]

Read(p, line) ==
    IF p.failed THEN p ELSE
    CASE line.type = "bad" -> [p EXCEPT !.failed = TRUE]
      [] line.type \in Mandatory -> [p EXCEPT !.has = @ \union {line.type}]
      [] line.type = "c" -> IF p.in = {} THEN [p EXCEPT !.connection = {line.value}]
                            ELSE InMedia(p, LAMBDA m : [m EXCEPT !.connection = {line.value}])
      [] line.type = "m" -> [Closed(p) EXCEPT !.in = {NewMedia(line.value)}]
      [] line.type = "rtpmap" -> InMedia(p, LAMBDA m : [m EXCEPT !.rtpmap = @ \union {line.value}])
      [] line.type = "dir" -> IF p.in = {} THEN [p EXCEPT !.direction = IF @ = {} THEN {line.value} ELSE @]
                              ELSE InMedia(p, LAMBDA m : [m EXCEPT !.direction = line.value, !.explicit = TRUE])
      [] OTHER -> p

\* A bug that would pass the tests: the direction of the session overrides.
MutantPropagated(p) == [p EXCEPT !.media = [i \in DOMAIN @ |->
    IF p.direction = {} THEN @[i] ELSE [@[i] EXCEPT !.direction = CHOOSE d \in p.direction : TRUE]]]

\* The direction of the session is that of every media without one of its own.
Propagated(p) == [p EXCEPT !.media = [i \in DOMAIN @ |->
    IF @[i].explicit \/ p.direction = {} THEN @[i]
    ELSE [@[i] EXCEPT !.direction = CHOOSE d \in p.direction : TRUE]]]

Finished(p) == Propagated(Closed(p))
Parses(p) == ~p.failed /\ p.has = Mandatory

----------------------------------------------------------------------------
(* What is asked of a description.                                         *)

\* The first element for which something holds, if there is one.
Find(s, Holds(_)) == {s[i] : i \in {k \in DOMAIN s : Holds(s[k]) /\ \A j \in 1 .. k - 1 : ~Holds(s[j])}}

Audio(d) == Find(d.media, LAMBDA m : m.kind = "audio")
ConnectionOf(d, m) == IF m.connection # {} THEN m.connection ELSE d.connection
RtpAddr(d) == UNION {{<<a, m.port>> : a \in ConnectionOf(d, m)} : m \in Audio(d)}
HeldMedia(d, m) == m.direction \in {"sendonly", "inactive"} \/ Unspecified \in ConnectionOf(d, m)
IsOnHold(d) == \E m \in Audio(d) : m.port = 0 \/ HeldMedia(d, m)
AudioDirection(d) == IF Audio(d) = {} THEN "sendrecv" ELSE (CHOOSE m \in Audio(d) : TRUE).direction

AnswerDirection(direction) ==
    CASE direction = "sendonly" -> "recvonly" [] direction = "recvonly" -> "sendonly" [] OTHER -> direction

\* negotiate_codec: the first of our codecs that is offered, whatever the port.
NegotiateCodec(d, prefs) == UNION {Find(prefs, LAMBDA pt : Contains(m.payloads, pt)) : m \in Audio(d)}
TelephoneEventPt(d) == UNION {m.rtpmap : m \in Audio(d)}

\* build: an rtpmap for each codec, the telephone event last.
Build(address, port, codecs, event, direction) ==
    <<Line("v", "any"), Line("o", "any"), Line("s", "any"), Line("c", address), Line("t", "any"),
      Line("m", MediaLine("audio", port, IF event THEN Append(codecs, TelephoneEvent) ELSE codecs))>>
    \o (IF event THEN <<Line("rtpmap", TelephoneEvent)>> ELSE <<>>)
    \o <<Line("dir", direction)>>

----------------------------------------------------------------------------

\* What parse is given: the beginning of a description, complete or with the origin left
\* out, after which any line may follow; or the far end's answer to an offer, as built.
Beginning(second) == <<Line("v", "any"), Line(second, "any"), Line("s", "any")>>
Answers == {Build(a, port, list, event, AnswerDirection(dir)) :
    a \in Addresses, port \in Ports, list \in PayloadLists, event \in BOOLEAN, dir \in Directions}

SdpInit ==
    /\ coming \in {Beginning("o"), Beginning("t")} \union Answers
    /\ lines = <<>> /\ parser = EmptyParser

Parsed(line) == lines' = Append(lines, line) /\ parser' = Read(parser, line)

ReadNext ==
    /\ coming # <<>> /\ Parsed(Head(coming))
    /\ coming' = Tail(coming)

ReadAny ==
    /\ coming = <<>> /\ Len(lines) < MaxLines
    /\ \E line \in DescriptionLines : Parsed(line)
    /\ UNCHANGED coming

SdpNext == ReadNext \/ ReadAny
SdpSpec == SdpInit /\ [][SdpNext]_sdpVars

----------------------------------------------------------------------------
(* Properties.                                                             *)

SdpTypeOK == parser.has \subseteq Mandatory /\ parser.connection \subseteq Addresses

\* The section of a description that a line belongs to: 0 before the first m= line.
Section(i) == Cardinality({j \in 1 .. i : lines[j].type = "m"})
LastOf(S) == IF S = {} THEN {} ELSE {lines[Max(S)].value}
FirstOf(S) == IF S = {} THEN {} ELSE {lines[Min(S)].value}
Of(type, section) == {i \in DOMAIN lines : lines[i].type = type /\ Section(i) = section}
Either(S, T) == IF S # {} THEN S ELSE T

\* What SdpBuilder writes parse reads, for an offer and for the answer to it: codecs are
\* agreed on exactly when one of ours was offered.
BuiltIsRead(d) ==
    \A a \in Addresses, port \in Ports, list \in PayloadLists, event \in BOOLEAN, dir \in Directions :
        lines = Build(a, port, list, event, AnswerDirection(dir)) =>
            LET telephone == IF event THEN {TelephoneEvent} ELSE {} IN
            /\ d.has = Mandatory /\ RtpAddr(d) = {<<a, port>>}
            /\ AnswerDirection(AudioDirection(d)) = dir
            /\ IsOnHold(d) <=> port = 0 \/ a = Unspecified \/ AnswerDirection(dir) \in {"sendonly", "inactive"}
            /\ TelephoneEventPt(d) = telephone
            /\ \A prefs \in PayloadLists :
                  LET common == ToSet(prefs) \intersect (ToSet(list) \union telephone)
                  IN  /\ NegotiateCodec(d, prefs) \subseteq common
                      /\ NegotiateCodec(d, prefs) = {} => common = {}

\* A media section means what its own lines say, else what the session says, wherever
\* the lines stand: its direction, its address, and so whether the call is on hold
\* (Bug #79, RFC 3264); and a description is refused exactly when it has a bad line or
\* lacks a mandatory one.  What SdpBuilder writes is read as it was meant.
ReadAsMeant == LET d == Finished(parser) IN
    /\ Len(lines) >= 7 => BuiltIsRead(d)    \* as long as the shortest that is built
    /\ Parses(parser) <=> /\ Mandatory \subseteq {lines[i].type : i \in DOMAIN lines}
                          /\ \A i \in DOMAIN lines : lines[i].type # "bad"
    /\ ~d.failed => \A i \in DOMAIN d.media :
          LET m == d.media[i] IN
          /\ {m.direction} = Either(LastOf(Of("dir", i)), Either(FirstOf(Of("dir", 0)), {"sendrecv"}))
          /\ ConnectionOf(d, m) = Either(LastOf(Of("c", i)), LastOf(Of("c", 0)))
          /\ HeldMedia(d, m) <=> \/ m.direction \in {"sendonly", "inactive"}
                                 \/ Either(LastOf(Of("c", i)), LastOf(Of("c", 0))) = {Unspecified}
=============================================================================

---------------------------- MODULE SymmetricRtp ----------------------------
(***************************************************************************)
(* Symmetric RTP (nat/symmetric_rtp.rs): the address media is sent to is   *)
(* learned from the packets that arrive, in one of three modes, with a     *)
(* limit on how often it may change.  Each packet of the stream (external) *)
(* has a source and an SSRC.                                               *)
(***************************************************************************)
EXTENDS Naturals, Sequences, FiniteSets

CONSTANTS
    Sources,     \* addresses packets come from
    SymSsrcs,          \* synchronisation sources
    SwitchThreshold,   \* packets needed to accept an address
    MaxSwitches, \* of SwitchRateLimit (5)
    SwitchWindow,\* of SwitchRateLimit (10 s)
    SymModes     \* modes that set_mode() is called with

ASSUME SymAssumption ==
    /\ {SwitchThreshold, MaxSwitches, SwitchWindow} \subseteq Nat /\ SwitchThreshold > 0
    /\ SymModes \subseteq {"Once", "Always", "Disabled"}

VARIABLES
    sym,    \* the SymmetricRtp; switch_times as ages, the newest last
    sent,   \* packets each source has sent since the reset, as far as SwitchThreshold
    moves   \* ages of the changes of address since the reset, in Always mode

symVars == <<sym, sent, moves>>

Nowhere == "nowhere"
LearnWindow == 2 * SwitchThreshold

NewSym(configured, mode) ==
    [configured |-> configured, mode |-> mode, learned |-> Nowhere, candidate |-> Nowhere, tally |-> 0,
     window |-> LearnWindow, ssrc |-> Nowhere, switches |-> <<>>, locked |-> FALSE]
ZeroSent == [s \in Sources |-> 0]

SymInit ==
    /\ sym = NewSym(Nowhere, "Always")
    /\ sent = ZeroSent /\ moves = <<>>

\* process_incoming_with_ssrc: another SSRC starts the learning anew.
OfSsrc(s, ssrc) ==
    IF s.ssrc \in {Nowhere, ssrc} THEN [s EXCEPT !.ssrc = ssrc]
    ELSE [s EXCEPT !.ssrc = ssrc, !.candidate = Nowhere, !.tally = 0]

\* The packets that are looked at at all.
Ignored(s, source) ==
    \/ s.mode = "Disabled" \/ s.locked
    \/ s.mode = "Once" /\ s.window = 0
    \/ source \in {s.configured, s.learned}

MutantTallied(s, source) == [s EXCEPT !.candidate = source, !.tally = @ + 1]
Tallied(s, source) ==
    [s EXCEPT !.candidate = source, !.tally = IF s.candidate = source THEN @ + 1 ELSE 1]

\* record_switch in Always mode: the switches of the window and this one; one
\* too many locks the address, and this one is not made.
Recent(ages) ==
    LET outside == {i \in DOMAIN ages : ages[i] > SwitchWindow}   \* the oldest, which come first
    IN  SubSeq(ages, Cardinality(outside) + 1, Len(ages))
IsSwitch(s) == s.learned # Nowhere /\ s.mode = "Always"
Recorded(s) ==
    IF ~IsSwitch(s) THEN s
    ELSE LET all == Append(Recent(s.switches), 0)
         IN  [s EXCEPT !.switches = all, !.locked = Len(all) > MaxSwitches]

Adopt(s, source) ==
    IF s.locked THEN s
    ELSE [s EXCEPT !.learned = source, !.window = IF s.mode = "Once" THEN 0 ELSE @]

\* process_incoming_with_time.
Process(s, source) ==
    LET t == Tallied(s, source)
    IN  IF Ignored(s, source) THEN s
        ELSE IF t.tally >= SwitchThreshold THEN Adopt(Recorded(t), source)
        ELSE IF t.mode = "Once" THEN [t EXCEPT !.window = @ - 1]
        ELSE t

Incoming(source, ssrc) ==
    /\ sym' = Process(OfSsrc(sym, ssrc), source)
    /\ sent' = [sent EXCEPT ![source] = IF @ < SwitchThreshold THEN @ + 1 ELSE @]
    /\ moves' = IF sym.learned \notin {Nowhere, sym'.learned} /\ sym.mode = "Always"
                THEN Append(moves, 0) ELSE moves

SetMode(mode) ==
    /\ sym' = [sym EXCEPT !.mode = mode, !.window = IF mode = "Disabled" THEN @ ELSE LearnWindow]
    /\ UNCHANGED <<sent, moves>>
SetConfigured(addr) ==
    /\ sym' = [sym EXCEPT !.configured = addr]
    /\ UNCHANGED <<sent, moves>>
Rearm ==
    /\ sym' = [sym EXCEPT !.window = LearnWindow, !.candidate = Nowhere, !.tally = 0]
    /\ UNCHANGED <<sent, moves>>
ResetLearning ==
    /\ sym' = NewSym(sym.configured, sym.mode)
    /\ sent' = ZeroSent /\ moves' = <<>>

\* A second passes.  (Ages past the window stop counting.)
Aged(ages) == [i \in DOMAIN ages |-> IF ages[i] <= SwitchWindow THEN ages[i] + 1 ELSE ages[i]]
SymTick ==
    /\ sym' = [sym EXCEPT !.switches = Aged(@)]
    /\ moves' = Recent(Aged(moves))
    /\ UNCHANGED sent

SymNext ==
    \/ \E source \in Sources, ssrc \in SymSsrcs : Incoming(source, ssrc)
    \/ \E mode \in SymModes : SetMode(mode)
    \/ \E addr \in Sources : SetConfigured(addr)
    \/ Rearm \/ ResetLearning \/ SymTick

SymSpec == SymInit /\ [][SymNext]_symVars

----------------------------------------------------------------------------
(* Properties.                                                             *)

SymTypeOK ==
    /\ {sym.learned, sym.candidate, sym.configured} \subseteq Sources \union {Nowhere}
    /\ sym.window \in 0 .. LearnWindow /\ sym.tally \in Nat /\ Len(sym.switches) <= MaxSwitches + 1

\* Media goes where the far end really is: to an address that has sent as many
\* packets as the threshold asks for, in whatever order sources, SSRCs, rearming
\* and changes of mode come, and in Always mode no more often than the limit
\* allows in any window (Bug #51).
RedirectedWithCause ==
    /\ sym.learned # Nowhere => sent[sym.learned] >= SwitchThreshold
    /\ Len(Recent(moves)) <= MaxSwitches
=============================================================================

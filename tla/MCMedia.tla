------------------------------- MODULE MCMedia -------------------------------
(***************************************************************************)
(* The components whose promise is what never happens, in one run for TLC: *)
(* of the media path the jitter buffer, the SRTP receiver, the senders,    *)
(* the DTMF detector, the RTCP session and the receive loop of the RTP     *)
(* engine; of NAT traversal the TURN client, NAT detection and symmetric   *)
(* RTP; of signalling the registration, the listener, digest               *)
(* authentication, session descriptions, the runner of the Python bindings *)
(* and the provider router.  As in MCServices they share no state, and the *)
(* initial state chooses the one that moves.                               *)
(***************************************************************************)
EXTENDS JitterBuffer, SrtpReceiver, RtpSender, DtmfDetector, RtcpSession, RtpEngine, TurnClient,
        NatDetection, SymmetricRtp, Registration, SipListener, DigestAuth, Sdp, SipRunner, ProviderRouter

VARIABLE part

\* What outlives its refresh by all the exchanges of a round, and not by one more.
MCItemLife == [perm |-> 9, bind |-> 10]
MCItemRefreshAt == [perm |-> 1, bind |-> 2]

\* G.711 A-law alone, and both.
MCPayloads == {<<0>>, <<8, 0>>}

\* One provider for a prefix that takes one call at a time, and one for everything
\* else that must be registered.
MCConfigs ==
    {[match |-> {2}, priority |-> 1, max |-> {1}, register |-> FALSE],
     [match |-> {0}, priority |-> 1, max |-> {}, register |-> TRUE]}

PartNames == {"jitter", "srtp", "sender", "dtmf", "rtcp", "engine", "turn", "nat",
              "symmetric", "registration", "listener", "digest", "sdp", "runner", "router"}
mediaVars == <<part, jitterVars, srtpVars, sendVars, dtmfVars, rtcpSessionVars, engineVars, turnVars, natVars,
                   symVars, regVars, listenVars, digestVars, sdpVars, runnerVars, routerVars>>

Init ==
    /\ part \in PartNames
    /\ JitterInit /\ SrtpInit /\ SendInit /\ RtcpSessionInit /\ RtpEngineInit /\ TurnInit /\ SymInit
    /\ DtmfInit /\ (part # "dtmf" => det.ignore_duration /\ \A t \in EndTimeouts : det.timeout <= t)
    /\ NatInit /\ (part # "nat" => /\ manager.force = "none"
                                   /\ net = [mapping |-> "none", filter |-> "any", changes |-> TRUE, second |-> TRUE])
    /\ RegInit /\ ListenInit /\ DigestInit /\ RunnerInit /\ RouterInit
    /\ SdpInit /\ (part # "sdp" => coming = Beginning("o"))

\* One component moves: the tuple of its variables is left out.
OnlyJitter == UNCHANGED <<part, srtpVars, sendVars, dtmfVars, rtcpSessionVars, engineVars, turnVars, natVars, symVars,
    regVars, listenVars, digestVars, sdpVars, runnerVars, routerVars>>
OnlySrtp == UNCHANGED <<part, jitterVars, sendVars, dtmfVars, rtcpSessionVars, engineVars, turnVars, natVars, symVars,
    regVars, listenVars, digestVars, sdpVars, runnerVars, routerVars>>
OnlySender == UNCHANGED <<part, jitterVars, srtpVars, dtmfVars, rtcpSessionVars, engineVars, turnVars, natVars, symVars,
    regVars, listenVars, digestVars, sdpVars, runnerVars, routerVars>>
OnlyDtmf == UNCHANGED <<part, jitterVars, srtpVars, sendVars, rtcpSessionVars, engineVars, turnVars, natVars, symVars,
    regVars, listenVars, digestVars, sdpVars, runnerVars, routerVars>>
OnlyRtcp == UNCHANGED <<part, jitterVars, srtpVars, sendVars, dtmfVars, engineVars, turnVars, natVars, symVars,
    regVars, listenVars, digestVars, sdpVars, runnerVars, routerVars>>
OnlyEngine == UNCHANGED <<part, jitterVars, srtpVars, sendVars, dtmfVars, rtcpSessionVars, turnVars, natVars, symVars,
    regVars, listenVars, digestVars, sdpVars, runnerVars, routerVars>>
OnlyTurn == UNCHANGED <<part, jitterVars, srtpVars, sendVars, dtmfVars, rtcpSessionVars, engineVars, natVars, symVars,
    regVars, listenVars, digestVars, sdpVars, runnerVars, routerVars>>
OnlyNat == UNCHANGED <<part, jitterVars, srtpVars, sendVars, dtmfVars, rtcpSessionVars, engineVars, turnVars, symVars,
    regVars, listenVars, digestVars, sdpVars, runnerVars, routerVars>>
OnlySymmetric == UNCHANGED <<part, jitterVars, srtpVars, sendVars, dtmfVars, rtcpSessionVars, engineVars, turnVars, natVars,
    regVars, listenVars, digestVars, sdpVars, runnerVars, routerVars>>
OnlyRegistration == UNCHANGED <<part, jitterVars, srtpVars, sendVars, dtmfVars, rtcpSessionVars, engineVars, turnVars, natVars,
    symVars, listenVars, digestVars, sdpVars, runnerVars, routerVars>>
OnlyListener == UNCHANGED <<part, jitterVars, srtpVars, sendVars, dtmfVars, rtcpSessionVars, engineVars, turnVars, natVars,
    symVars, regVars, digestVars, sdpVars, runnerVars, routerVars>>
OnlyDigest == UNCHANGED <<part, jitterVars, srtpVars, sendVars, dtmfVars, rtcpSessionVars, engineVars, turnVars, natVars,
    symVars, regVars, listenVars, sdpVars, runnerVars, routerVars>>
OnlySdp == UNCHANGED <<part, jitterVars, srtpVars, sendVars, dtmfVars, rtcpSessionVars, engineVars, turnVars, natVars,
    symVars, regVars, listenVars, digestVars, runnerVars, routerVars>>
OnlyRunner == UNCHANGED <<part, jitterVars, srtpVars, sendVars, dtmfVars, rtcpSessionVars, engineVars, turnVars, natVars,
    symVars, regVars, listenVars, digestVars, sdpVars, routerVars>>
OnlyRouter == UNCHANGED <<part, jitterVars, srtpVars, sendVars, dtmfVars, rtcpSessionVars, engineVars, turnVars, natVars,
    symVars, regVars, listenVars, digestVars, sdpVars, runnerVars>>

JitterMoves == part = "jitter" /\ JitterNext /\ OnlyJitter
SrtpMoves == part = "srtp" /\ SrtpNext /\ OnlySrtp
SenderMoves == part = "sender" /\ SendNext /\ OnlySender
DtmfMoves == part = "dtmf" /\ DtmfNext /\ OnlyDtmf
RtcpMoves == part = "rtcp" /\ RtcpSessionNext /\ OnlyRtcp
EngineMoves == part = "engine" /\ RtpEngineNext /\ OnlyEngine
TurnMoves == part = "turn" /\ TurnNext /\ OnlyTurn
NatMoves == part = "nat" /\ NatNext /\ OnlyNat
SymmetricMoves == part = "symmetric" /\ SymNext /\ OnlySymmetric
RegistrationMoves == part = "registration" /\ RegNext /\ OnlyRegistration
ListenerMoves == part = "listener" /\ ListenNext /\ OnlyListener
DigestMoves == part = "digest" /\ DigestNext /\ OnlyDigest
SdpMoves == part = "sdp" /\ SdpNext /\ OnlySdp
RunnerMoves == part = "runner" /\ RunnerNext /\ OnlyRunner
RouterMoves == part = "router" /\ RouterNext /\ OnlyRouter

Next ==
    \/ JitterMoves \/ SrtpMoves \/ SenderMoves \/ DtmfMoves \/ RtcpMoves
    \/ EngineMoves \/ TurnMoves \/ NatMoves \/ SymmetricMoves \/ RegistrationMoves
    \/ ListenerMoves \/ DigestMoves \/ SdpMoves \/ RunnerMoves \/ RouterMoves

Spec == Init /\ [][Next]_mediaVars

\* Types of every component's state, and the bounds its fields keep to: the jitter
\* buffer its max_packets, its delay and sequence numbers within half of their range
\* of each other, the TURN client the ages of what it tracks, symmetric RTP its record
\* of switches, the runner the positions of its receivers.
TypesOK ==
    /\ JitterTypeOK /\ WithinHalf /\ SrtpTypeOK /\ SendTypeOK /\ DtmfTypeOK /\ RtcpSessionTypeOK
    /\ RtpEngineTypeOK /\ TurnTypeOK /\ NatTypeOK /\ SymTypeOK
    /\ RegTypeOK /\ ListenTypeOK /\ DigestTypeOK /\ SdpTypeOK /\ RunnerTypeOK /\ RouterTypeOK
=============================================================================

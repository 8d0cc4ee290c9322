--------------------------- MODULE SipCallEndings ---------------------------
(***************************************************************************)
(* How one call ends: its port is given back, its hangup is told once, an  *)
(* answer that is given up is torn down; and its early media is kept until *)
(* the answer.  As in SipCallSafety each theorem rests on an invariant of  *)
(* its own and on lemmas about who changes the variable that matters.      *)
(***************************************************************************)
EXTENDS SipCallSafety

----------------------------------------------------------------------------
(* Who moves the state task, the far end, the port and the events.         *)

\* The dialog-state task is spawned by the set-up, leaves its loop on Terminated
\* only and then goes one way: release, remove, exit.
LEMMA StaskSteps ==
    ASSUME Next, stask' # stask
    PROVE  \/ PlaceCall /\ stask' = "loop"
           \/ RingIncoming /\ stask' = "loop"
           \/ OnTerminated /\ stask = "loop" /\ stask' \in {"release", "remove"}
           \/ TerminatedReleases /\ stask = "release" /\ stask' = "remove"
           \/ TerminatedRemoves /\ stask = "remove" /\ stask' = "exited"
<1>1. CASE Setup
  BY <1>1 DEF Setup, PlaceCall, RefuseInvite, AcceptInvite, RingIncoming
<1>2. CASE StateTask
  BY <1>2 DEF StateTask, OnEarly, OnUpdated, OnNotify, OnTerminated, Receive,
     TerminatedReleases, TerminatedRemoves
<1>3. CASE InviteTask \/ TimerTask \/ Peer
  BY <1>3 DEF InviteTask, InviteCancelled, InviteCancelRemoves, InviteTellsCancelled,
     InviteReturns, InviteFails, InviteAnswered, InviteChecksCancel, InviteSendsBye,
     InviteMarksEnded, InviteAnnounces, TimerTask, TimerLeaves, TimerExpires, TimerRefreshes,
     StartHangup, Peer, PeerProvisional, PeerFinal, PeerReinvites, PeerEnds, PeerNotifies,
     PeerAcceptsRefer, PeerUnchanged
<1>4. ASSUME NEW c \in Apps, AppCalls(c) PROVE FALSE
  BY <1>4 DEF AppCalls, Answer, Reject, Hangup, StartHangup, Cancel, Refer, Modify
<1>5. ASSUME NEW c \in Callers, CallerSteps(c) PROVE FALSE
  BY <1>5 DEF CallerSteps, AnswerAccept, AnswerDone, Lookup, Reject1, Reject2, Reject3,
     Reject4, Reject5, Bye1, Bye2, Cancel1, Cancel2, Cancel3, Cancel4, ReinviteCheck,
     ReinviteSet, ReinviteReturns, ReinviteApply, ReferFails, ReferAccepted
<1> QED  BY <1>1, <1>2, <1>3, <1>4, <1>5 DEF Next

\* Only the set-up and the invite task itself move the invite task.
LEMMA InviteMoves ==
    ASSUME Next, invite' # invite
    PROVE  InviteTask \/ Setup
  BY DEF Next, StateTask, OnEarly, OnUpdated, OnNotify, OnTerminated, TerminatedReleases,
     TerminatedRemoves, TimerTask, TimerLeaves, TimerExpires, TimerRefreshes, StartHangup,
     Peer, PeerProvisional, PeerFinal, PeerReinvites, PeerEnds, PeerNotifies,
     PeerAcceptsRefer, PeerUnchanged, AppCalls, Answer, Reject, Hangup, Cancel, Refer, Modify,
     CallerSteps, AnswerAccept, AnswerDone, Lookup, Reject1, Reject2, Reject3, Reject4,
     Reject5, Bye1, Bye2, Cancel1, Cancel2, Cancel3, Cancel4, ReinviteCheck, ReinviteSet,
     ReinviteReturns, ReinviteApply, ReferFails, ReferAccepted

\* The far end confirms a dialog by the final response to our INVITE or by our
\* own 200 OK, and after the set-up every other change of it is its end.
LEMMA PeerSteps ==
    ASSUME TypeOK, Next, peer' # peer
    PROVE  \/ Setup /\ invite = "start"
           \/ peer' = "terminated"
           \/ peer = "invited" /\ peer' = "confirmed" /\ PeerFinal
           \/ \E c \in Callers : peer = "invited" /\ peer' = "confirmed" /\ AnswerAccept(c)
  BY DEF Next, Setup, PlaceCall, RefuseInvite, AcceptInvite, RingIncoming, InviteTask,
     InviteCancelled, InviteCancelRemoves, InviteTellsCancelled, InviteReturns, InviteFails,
     InviteAnswered, InviteChecksCancel, InviteSendsBye, InviteMarksEnded, InviteAnnounces,
     StateTask, OnEarly, OnUpdated, OnNotify, OnTerminated, TerminatedReleases,
     TerminatedRemoves, TimerTask, TimerLeaves, TimerExpires, TimerRefreshes, StartHangup,
     Peer, PeerProvisional, PeerFinal, PeerReinvites, PeerEnds, PeerNotifies,
     PeerAcceptsRefer, PeerUnchanged, AppCalls, Answer, Reject, Hangup, Cancel, Refer, Modify,
     CallerSteps, AnswerAccept, AnswerDone, Lookup, Reject1, Reject2, Reject3, Reject4,
     Reject5, Bye1, Bye2, Cancel1, Cancel2, Cancel3, Cancel4, ReinviteCheck, ReinviteSet,
     ReinviteReturns, ReinviteApply, ReferFails, ReferAccepted, EndDialog

\* The result of the INVITE is set by the final response to it, once.
LEMMA ResultSteps ==
    ASSUME Next, result' # result
    PROVE  PeerFinal
  BY DEF Next, Setup, PlaceCall, RefuseInvite, AcceptInvite, RingIncoming, InviteTask,
     InviteCancelled, InviteCancelRemoves, InviteTellsCancelled, InviteReturns, InviteFails,
     InviteAnswered, InviteChecksCancel, InviteSendsBye, InviteMarksEnded, InviteAnnounces,
     StateTask, OnEarly, OnUpdated, OnNotify, OnTerminated, TerminatedReleases,
     TerminatedRemoves, TimerTask, TimerLeaves, TimerExpires, TimerRefreshes, StartHangup,
     Peer, PeerProvisional, PeerReinvites, PeerEnds, PeerNotifies, PeerAcceptsRefer,
     PeerUnchanged, AppCalls, Answer, Reject, Hangup, Cancel, Refer, Modify, CallerSteps,
     AnswerAccept, AnswerDone, Lookup, Reject1, Reject2, Reject3, Reject4, Reject5, Bye1,
     Bye2, Cancel1, Cancel2, Cancel3, Cancel4, ReinviteCheck, ReinviteSet, ReinviteReturns,
     ReinviteApply, ReferFails, ReferAccepted

\* A release of the port is never taken back.
LEMMA ReleasesGrow ==
    ASSUME TypeOK, Next
    PROVE  port'.releases \in Nat /\ port'.releases >= port.releases
<1> DEFINE Grows == port'.releases \in Nat /\ port'.releases >= port.releases
<1>0. port \in [taken : BOOLEAN, releases : Nat]  BY DEF TypeOK
<1>1. UNCHANGED port => Grows  BY <1>0
<1>2. Release => Grows  BY <1>0 DEF Release
<1>3. \A b \in BOOLEAN : port' = [port EXCEPT !.taken = b] => Grows  BY <1>0
<1> HIDE DEF Grows
<1>4. UNCHANGED port \/ Release \/ Setup
  BY DEF Next, InviteTask,
     InviteCancelled, InviteCancelRemoves, InviteTellsCancelled, InviteReturns, InviteFails,
     InviteAnswered, InviteChecksCancel, InviteSendsBye, InviteMarksEnded, InviteAnnounces,
     StateTask, OnEarly, OnUpdated, OnNotify, OnTerminated, TerminatedReleases,
     TerminatedRemoves, TimerTask, TimerLeaves, TimerExpires, TimerRefreshes, StartHangup,
     Peer, PeerProvisional, PeerFinal, PeerReinvites, PeerEnds, PeerNotifies,
     PeerAcceptsRefer, PeerUnchanged, AppCalls, Answer, Reject, Hangup, Cancel, Refer, Modify,
     CallerSteps, AnswerAccept, AnswerDone, Lookup, Reject1, Reject2, Reject3, Reject4,
     Reject5, Bye1, Bye2, Cancel1, Cancel2, Cancel3, Cancel4, ReinviteCheck, ReinviteSet,
     ReinviteReturns, ReinviteApply, ReferFails, ReferAccepted
<1>5. Setup => Grows
  BY <1>1, <1>3 DEF Setup, PlaceCall, RefuseInvite, AcceptInvite, RingIncoming
<1> QED  BY <1>1, <1>2, <1>4, <1>5 DEF Grows

\* Releasing the port of a call with an RTP engine counts.
LEMMA ReleaseCounts ==
    ASSUME TypeOK, Release, sess.rtp # "none"
    PROVE  port'.releases > 0
<1>1. port \in [taken : BOOLEAN, releases : Nat]  BY DEF TypeOK
<1> QED  BY <1>1 DEF Release

----------------------------------------------------------------------------
(* The port.                                                               *)

\* What makes PortGivenBack inductive: the Terminated handler and reject() have released
\* the port before they remove the call, and no engine exists before the set-up.
PortInv ==
    /\ PortGivenBack
    /\ stask = "remove" /\ sess.rtp # "none" => port.releases > 0
    /\ \A c \in Callers : op[c].pc = "reject4" /\ sess.rtp # "none" => port.releases > 0
    /\ invite = "start" => sess.rtp = "none"

\* Every step keeps PortInv: each of the four paths of removal releases the port of
\* the engine it finds, before or in the step that removes the call.
LEMMA PortStep == ASSUME TypeOK, StopInv, PortInv, Next PROVE PortInv'
<1>1. CASE invite = "start"
  <2>1. ~inMap /\ stask = "none" /\ sess.rtp = "none" /\ \A c \in Callers : op[c].pc = "idle"
    BY <1>1 DEF StopInv, PortInv
  <2>2. stask' # "remove"
    BY <2>1, StaskSteps
  <2>3. PlaceCall \/ AcceptInvite \/ (sess' = sess /\ inMap' = inMap)
    <3>1. ~InviteTask /\ ~StateTask
      BY <1>1, <2>1 DEF InviteTask, InviteCancelled, InviteCancelRemoves,
         InviteTellsCancelled, InviteReturns, InviteFails, InviteAnswered, InviteChecksCancel,
         InviteSendsBye, InviteMarksEnded, InviteAnnounces, StateTask, OnEarly, OnUpdated,
         OnNotify, OnTerminated, Receive, TerminatedReleases, TerminatedRemoves
    <3>2. \A c \in Callers : ~CallerSteps(c)
      BY <2>1 DEF CallerSteps, AnswerAccept, AnswerDone, Lookup, Reject1, Reject2, Reject3,
         Reject4, Reject5, Bye1, Bye2, Cancel1, Cancel2, Cancel3, Cancel4, ReinviteCheck,
         ReinviteSet, ReinviteReturns, ReinviteApply, ReferFails, ReferAccepted
    <3>3. \A c \in Apps : ~AppCalls(c)
      BY <2>1 DEF AppCalls, Answer, Reject, Hangup, StartHangup, Cancel, Refer, Modify
    <3>4. TimerTask \/ Peer => sess' = sess /\ inMap' = inMap
      BY DEF TimerTask, TimerLeaves, TimerExpires, TimerRefreshes, StartHangup, Peer,
         PeerProvisional, PeerFinal, PeerReinvites, PeerEnds, PeerNotifies, PeerAcceptsRefer,
         PeerUnchanged
    <3>5. Setup => PlaceCall \/ AcceptInvite \/ (sess' = sess /\ inMap' = inMap)
      BY <1>1 DEF Setup, RefuseInvite, RingIncoming
    <3> QED  BY <3>1, <3>2, <3>3, <3>4, <3>5 DEF Next
  <2>4. PlaceCall \/ AcceptInvite => inMap' /\ invite' # "start"
    BY DEF PlaceCall, AcceptInvite
  <2>5. \A c \in Callers : op'[c].pc # "reject4"
    <3>1. \A c \in Callers : ~Reject3(c)  BY <2>1 DEF Reject3
    <3> QED  BY <2>1, <3>1, PcSteps DEF Enters, Watched
  <2> QED  BY <2>1, <2>2, <2>3, <2>4, <2>5 DEF PortInv, PortGivenBack
<1>2. CASE invite # "start"
  <2>1. invite' # "start"  BY <1>2, InviteSteps
  <2>2. sess'.rtp # "none" => sess.rtp # "none"
    BY <1>2, RtpOnlyStops DEF RtpLater
  <2>3. port.releases > 0 => port'.releases > 0
    <3>1. port.releases \in Nat  BY DEF TypeOK
    <3> QED  BY <3>1, ReleasesGrow
  <2>4. ASSUME sess.rtp # "none", stask' = "remove" PROVE port'.releases > 0
    <3>1. CASE stask = "remove"  BY <2>3, <2>4, <3>1 DEF PortInv
    <3>2. CASE OnTerminated /\ stask # "remove"
      <4>1. ~inMap  BY <2>4, <3>2 DEF OnTerminated
      <4> QED  BY <2>3, <2>4, <4>1 DEF PortInv, PortGivenBack
    <3>3. CASE TerminatedReleases
      BY <2>4, <3>3, ReleaseCounts DEF TerminatedReleases
    <3> QED  BY <2>4, <3>1, <3>2, <3>3, StaskSteps
  <2>5. ASSUME sess.rtp # "none", ~inMap' PROVE port'.releases > 0
    <3>1. CASE ~inMap  BY <2>3, <2>5, <3>1 DEF PortInv, PortGivenBack
    <3>2. CASE inMap
      <4>1. InviteCancelRemoves \/ InviteFails => Release
        BY <3>2 DEF InviteCancelRemoves, InviteFails
      <4>2. \A c \in Callers : Reject4(c) => port.releases > 0
        BY <2>5 DEF Reject4, PortInv
      <4>3. TerminatedRemoves => port.releases > 0
        BY <2>5 DEF TerminatedRemoves, PortInv
      <4> QED  BY <2>3, <2>5, <3>2, <4>1, <4>2, <4>3, MapLeave, ReleaseCounts
    <3> QED  BY <3>1, <3>2
  <2>6. ASSUME NEW c \in Callers, op'[c].pc = "reject4", sess.rtp # "none"
        PROVE  port'.releases > 0
    <3>1. op[c].pc = "reject4" \/ Reject3(c)  BY <2>6, PcSteps DEF Enters, Watched
    <3>2. Reject3(c) => Release  BY DEF Reject3
    <3> QED  BY <2>3, <2>6, <3>1, <3>2, ReleaseCounts DEF PortInv
  <2> QED  BY <2>1, <2>2, <2>4, <2>5, <2>6 DEF PortInv, PortGivenBack
<1> QED  BY <1>1, <1>2

\* A call that has left the map has given its RTP port back, whichever of the four
\* paths removed it and whatever the others were doing.
THEOREM PortGivenBackHolds == Spec => []PortGivenBack
<1>1. Init => PortInv
  <2>1. ASSUME Init PROVE sess.rtp = "none" /\ \A c \in Callers : op[c].pc = "idle"
    BY <2>1 DEF Init, NewSession, Idle
  <2> QED  BY <2>1 DEF Init, PortInv, PortGivenBack
<1>2. TypeOK /\ StopInv /\ PortInv /\ [Next]_vars => PortInv'
  <2>1. UNCHANGED vars /\ PortInv => PortInv'  BY DEF PortInv, PortGivenBack, vars
  <2> QED  BY <2>1, PortStep
<1>3. PortInv => PortGivenBack  BY DEF PortInv
<1> QED  BY <1>1, <1>2, <1>3, TypeCorrect, StopInvariant, PTL DEF Spec

----------------------------------------------------------------------------
(* The events.                                                             *)

\* Who sends Hangup: the Terminated handler at its end, and reject() at its end.
TellsHangup == TerminatedRemoves \/ \E c \in Callers : Reject5(c)

\* No event is taken back; Hangup has two senders and Ringing one, and the invite
\* task reports Answered when it announces.
LEMMA EventSteps ==
    ASSUME TypeOK, Next
    PROVE  /\ emitted \subseteq emitted'
           /\ "Hangup" \in emitted' => "Hangup" \in emitted \/ TellsHangup
           /\ "Hangup" \in repeated' =>
                "Hangup" \in repeated \/ ("Hangup" \in emitted /\ TellsHangup)
           /\ "Ringing" \in emitted' => "Ringing" \in emitted \/ OnEarly
           /\ InviteAnnounces => "Answered" \in emitted'
<1> DEFINE Others == \/ Silent
                     \/ \E k \in EventKinds \ {"Hangup", "Ringing"} : Emit({k})
                     \/ Emit({})
<1>0. emitted \subseteq emitted'
        /\ (Others => /\ "Hangup" \in emitted' => "Hangup" \in emitted
                      /\ "Hangup" \in repeated' => "Hangup" \in repeated
                      /\ "Ringing" \in emitted' => "Ringing" \in emitted)
  <2>1. Silent \/ \E kinds \in SUBSET EventKinds : Emit(kinds)
    <3>1. CASE Setup \/ InviteTask
      <4>1. FailureEvents(result.kind) \in SUBSET EventKinds
        BY DEF FailureEvents, EventKinds
      <4> QED
        BY <3>1, <4>1 DEF Setup, PlaceCall, RefuseInvite, AcceptInvite, RingIncoming,
           InviteTask, InviteCancelled, InviteCancelRemoves, InviteTellsCancelled,
           InviteReturns, InviteFails, InviteAnswered, InviteChecksCancel, InviteSendsBye,
           InviteMarksEnded, InviteAnnounces, EventKinds
    <3>2. CASE StateTask
      BY <3>2 DEF StateTask, OnEarly, OnUpdated, OnNotify, OnTerminated,
         TerminatedReleases, TerminatedRemoves, EventKinds
    <3>3. CASE TimerTask \/ Peer
      BY <3>3 DEF TimerTask, TimerLeaves, TimerExpires, TimerRefreshes, StartHangup, Peer,
         PeerProvisional, PeerFinal, PeerReinvites, PeerEnds, PeerNotifies, PeerAcceptsRefer,
         PeerUnchanged
    <3>4. ASSUME NEW c \in Apps, AppCalls(c) PROVE Silent
      BY <3>4 DEF AppCalls, Answer, Reject, Hangup, StartHangup, Cancel, Refer, Modify
    <3>5. ASSUME NEW c \in Callers, CallerSteps(c)
          PROVE  Silent \/ \E kinds \in SUBSET EventKinds : Emit(kinds)
      BY <3>5 DEF CallerSteps, AnswerAccept, AnswerDone, Lookup, Reject1, Reject2, Reject3,
         Reject4, Reject5, Bye1, Bye2, Cancel1, Cancel2, Cancel3, Cancel4, ReinviteCheck,
         ReinviteSet, ReinviteReturns, ReinviteApply, ReferFails, ReferAccepted, EventKinds
    <3> QED  BY <3>1, <3>2, <3>3, <3>4, <3>5 DEF Next
  <2>2. emitted \subseteq emitted'  BY <2>1 DEF Silent, Emit
  <2> QED  BY <2>2 DEF Silent, Emit
<1> DEFINE Conclusion == /\ "Hangup" \in emitted' => "Hangup" \in emitted \/ TellsHangup
                         /\ "Hangup" \in repeated' =>
                              "Hangup" \in repeated \/ ("Hangup" \in emitted /\ TellsHangup)
                         /\ "Ringing" \in emitted' => "Ringing" \in emitted \/ OnEarly
                         /\ InviteAnnounces => "Answered" \in emitted'
<1>a. InviteAnnounces => "Answered" \in emitted'  BY DEF InviteAnnounces, Emit
<1>b. Others => Conclusion  BY <1>0, <1>a
<1>1. CASE Setup \/ InviteTask
  <2>1. Others
    BY <1>1 DEF Setup, PlaceCall, RefuseInvite, AcceptInvite, RingIncoming,
       InviteTask, InviteCancelled, InviteCancelRemoves, InviteTellsCancelled, InviteReturns,
       InviteFails, InviteAnswered, InviteChecksCancel, InviteSendsBye, InviteMarksEnded,
       InviteAnnounces, EventKinds, FailureEvents
  <2> QED  BY <1>0, <1>b, <2>1
<1>2. CASE StateTask
  <2>1. OnEarly \/ TerminatedRemoves \/ Others
    BY <1>2 DEF StateTask, OnUpdated, OnNotify, OnTerminated, TerminatedReleases, EventKinds
  <2>2. TerminatedRemoves => Conclusion
    BY <1>a DEF TerminatedRemoves, Emit, TellsHangup
  <2>3. OnEarly => Conclusion
    <3>1. OnEarly => \E kinds \in SUBSET {"EarlyMedia", "Ringing"} : Emit(kinds)
      BY DEF OnEarly
    <3> QED  BY <1>a, <3>1 DEF Emit
  <2> QED  BY <1>0, <1>b, <2>1, <2>2, <2>3
<1>3. CASE TimerTask \/ Peer
  <2>1. Silent
    BY <1>3 DEF TimerTask, TimerLeaves, TimerExpires, TimerRefreshes, StartHangup, Peer,
       PeerProvisional, PeerFinal, PeerReinvites, PeerEnds, PeerNotifies, PeerAcceptsRefer,
       PeerUnchanged
  <2> QED  BY <1>0, <1>b, <2>1
<1>4. ASSUME NEW c \in Apps, AppCalls(c) PROVE Conclusion
  <2>1. Silent
    BY <1>4 DEF AppCalls, Answer, Reject, Hangup, StartHangup, Cancel, Refer, Modify
  <2> QED  BY <1>b, <2>1
<1>5. ASSUME NEW c \in Callers, CallerSteps(c) PROVE Conclusion
  <2>1. Reject5(c) \/ Others
    BY <1>5 DEF CallerSteps, AnswerAccept, AnswerDone, Lookup, Reject1, Reject2, Reject3,
       Reject4, Bye1, Bye2, Cancel1, Cancel2, Cancel3, Cancel4, ReinviteCheck, ReinviteSet,
       ReinviteReturns, ReinviteApply, ReferFails, ReferAccepted, EventKinds
  <2>2. Reject5(c) => Conclusion
    BY <1>a DEF Reject5, Emit, TellsHangup
  <2> QED  BY <1>b, <2>1, <2>2
<1> QED  BY <1>0, <1>1, <1>2, <1>3, <1>4, <1>5 DEF Next

\* Inside reject(), past the look at the call's state.
RejectPcs == {"reject2", "reject3", "reject4", "reject5"}

\* What makes HangupOnce inductive for an outbound call: whoever tells the hangup is
\* the state task on its way out, and nobody is inside reject().
HangupInv ==
    direction = "Outbound" =>
        /\ HangupOnce
        /\ "Hangup" \in emitted => stask = "exited"
        /\ \A c \in Callers : op[c].pc \notin RejectPcs

\* Every step keeps HangupInv: the state task does not run again after its exit.
LEMMA HangupStep ==
    ASSUME TypeOK, StopInv, AnswerInv, HangupInv, Next
    PROVE  HangupInv'
<1> SUFFICES ASSUME direction' = "Outbound"
             PROVE  /\ HangupOnce'
                    /\ "Hangup" \in emitted' => stask' = "exited"
                    /\ \A c \in Callers : op'[c].pc \notin RejectPcs
  BY DEF HangupInv
<1>1. /\ direction = "Outbound" /\ HangupOnce
      /\ "Hangup" \in emitted => stask = "exited"
      /\ \A c \in Callers : op[c].pc \notin RejectPcs
  BY InviteSteps DEF HangupInv
<1>2. TellsHangup => TerminatedRemoves /\ stask = "remove" /\ stask' = "exited"
  BY <1>1 DEF TellsHangup, TerminatedRemoves, Reject5, RejectPcs
<1>3. stask = "exited" => stask' = "exited"
  <2>1. PlaceCall => stask = "none"  BY DEF PlaceCall, StopInv
  <2>2. ~RingIncoming  BY <1>1 DEF RingIncoming, AnswerInv
  <2> QED  BY <2>1, <2>2, StaskSteps
<1>4. HangupOnce'  BY <1>1, <1>2, EventSteps DEF HangupOnce
<1>5. "Hangup" \in emitted' => stask' = "exited"
  BY <1>1, <1>2, <1>3, EventSteps
<1>6. ASSUME NEW c \in Callers, op'[c].pc \in RejectPcs PROVE FALSE
  <2>1. Reject1(c) \/ Reject2(c) \/ Reject3(c) \/ Reject4(c)
    BY <1>1, <1>6, PcSteps DEF Enters, Watched, RejectPcs
  <2>2. Reject1(c) => op'[c].pc \in {"idle", "sleep"}
    BY <1>1, ReturnType DEF Reject1, TypeOK, Moved
  <2> QED  BY <1>1, <1>6, <2>1, <2>2 DEF Reject2, Reject3, Reject4, RejectPcs
<1> QED  BY <1>4, <1>5, <1>6

\* The hangup of an outbound call is told once: the Terminated handler is its only
\* source and runs once, whatever hangup and cancel calls race with it.
THEOREM HangupOnceHolds == Spec => [](direction = "Outbound" => HangupOnce)
<1>1. Init => HangupInv
  <2>1. ASSUME Init PROVE \A c \in Callers : op[c].pc = "idle"
    BY <2>1 DEF Init, Idle
  <2> QED  BY <2>1 DEF Init, HangupInv, HangupOnce, RejectPcs
<1>2. TypeOK /\ StopInv /\ AnswerInv /\ HangupInv /\ [Next]_vars => HangupInv'
  <2>1. UNCHANGED vars /\ HangupInv => HangupInv'  BY DEF HangupInv, HangupOnce, vars
  <2> QED  BY <2>1, HangupStep
<1>3. HangupInv => (direction = "Outbound" => HangupOnce)  BY DEF HangupInv
<1> QED
  BY <1>1, <1>2, <1>3, TypeCorrect, StopInvariant, AnswerInvariant, PTL DEF Spec

----------------------------------------------------------------------------
(* An answer that is given up.                                             *)

\* What makes UnannouncedIsTornDown inductive when messages can be sent: the invite
\* task has ended the dialog before it marks or removes the call, and only an INVITE of
\* ours has a result.
Ending == {"ended", "cancelled", "untold"}
TornInv ==
    /\ UnannouncedIsTornDown
    /\ direction = "Inbound" => result = NoResult
    /\ invite \in Ending => peer = "terminated"

\* Every step keeps TornInv: the invite task leaves a 2xx with the event or with the
\* dialog ended, and nothing confirms the dialog afterwards.
LEMMA TornStep ==
    ASSUME TypeOK, AnswerInv, TornInv, Next, ~Faults
    PROVE  TornInv'
<1>1. direction' = direction /\ direction \in {"Inbound", "Outbound"}
  BY InviteSteps DEF TypeOK
<1>2. direction = "Inbound" => result' = NoResult
  <2>1. PeerFinal => direction = "Outbound"  BY DEF PeerFinal
  <2> QED  BY <2>1, ResultSteps DEF TornInv
\* Nothing confirms the dialog of our INVITE but the final response to it.
<1>3. direction = "Outbound" /\ invite \notin {"start", "select"} /\ peer # "confirmed"
        => peer' # "confirmed" /\ result' = result
  <2>1. PeerFinal => invite = "select"  BY DEF PeerFinal
  <2>2. \A c \in Callers : direction = "Outbound" => ~AnswerAccept(c)
    BY CallerGuards DEF AnswerInv, Answering
  <2> QED  BY <2>1, <2>2, PeerSteps, ResultSteps
<1>4. invite' \in Ending => peer' = "terminated"
  <2> SUFFICES ASSUME invite' \in Ending PROVE peer' = "terminated"  OBVIOUS
  <2>1. CASE invite \in Ending
    <3>1. direction = "Outbound"  BY <1>1, <2>1 DEF AnswerInv, Ending
    <3>2. \A c \in Callers : ~AnswerAccept(c)
      BY <3>1, CallerGuards DEF AnswerInv, Answering
    <3>3. ~PeerFinal  BY <2>1 DEF PeerFinal, Ending
    <3> QED  BY <2>1, <3>2, <3>3, PeerSteps DEF TornInv, Ending
  <2>2. CASE invite \notin Ending
    <3>1. InviteSendsBye \/ InviteCancelled
      <4>1. InviteTask \/ Setup  BY <2>2, InviteMoves
      <4>2. Setup => invite' \notin Ending  BY InviteSteps DEF Ending
      <4>3. InviteTask /\ ~InviteSendsBye /\ ~InviteCancelled => invite' \notin Ending
        BY <2>2 DEF InviteTask, InviteCancelRemoves, InviteTellsCancelled, InviteReturns,
           InviteFails, InviteAnswered, InviteChecksCancel, InviteMarksEnded,
           InviteAnnounces, Ending
      <4> QED  BY <2>2, <4>1, <4>2, <4>3
    <3> QED  BY <3>1 DEF InviteSendsBye, InviteCancelled, EndDialog
  <2> QED  BY <2>1, <2>2
<1>5. UnannouncedIsTornDown'
  <2> SUFFICES ASSUME invite' = "done", result'.kind = "2xx", "Answered" \notin emitted'
               PROVE  peer' # "confirmed"
    BY DEF UnannouncedIsTornDown
  <2>1. direction = "Outbound"  BY <1>1, <1>2 DEF NoResult
  <2>2. "Answered" \notin emitted /\ ~InviteAnnounces  BY EventSteps
  <2>3. CASE invite = "done"
    <3>1. ~PeerFinal  BY <2>3 DEF PeerFinal
    <3>2. result' = result  BY <3>1, ResultSteps
    <3>3. peer # "confirmed"  BY <2>2, <2>3, <3>2 DEF TornInv, UnannouncedIsTornDown
    <3> QED  BY <1>3, <2>1, <2>3, <3>3
  <2>4. CASE invite # "done"
    <3>1. InviteTask \/ Setup  BY <2>4, InviteMoves
    <3>2. ~Setup
      BY <2>1, InviteSteps DEF AnswerInv
    <3>3. InviteTellsCancelled \/ InviteFails \/ InviteMarksEnded
      BY <2>2, <3>1, <3>2 DEF InviteTask, InviteCancelled, InviteCancelRemoves, InviteReturns,
         InviteAnswered, InviteChecksCancel, InviteSendsBye
    <3>4. InviteTellsCancelled => peer' = "terminated"
      BY DEF InviteTellsCancelled, TornInv, Ending
    <3>5. InviteFails => result'.kind # "2xx"  BY DEF InviteFails
    <3>6. InviteMarksEnded => peer' = "terminated"
      BY DEF InviteMarksEnded, TornInv, Ending
    <3> QED  BY <3>3, <3>4, <3>5, <3>6
  <2> QED  BY <2>3, <2>4
<1> QED  BY <1>1, <1>2, <1>4, <1>5 DEF TornInv

\* A 2xx that the invite task gives up because of a cancel is followed by the end of
\* the far end's dialog, as long as rsipstack can send: the one failure that the code
\* only logs is that of this BYE.
THEOREM UnannouncedIsTornDownHolds == ASSUME ~Faults PROVE Spec => []UnannouncedIsTornDown
<1>1. Init => TornInv
  BY DEF Init, TornInv, Ending, UnannouncedIsTornDown
<1>2. TypeOK /\ AnswerInv /\ TornInv /\ [Next]_vars => TornInv'
  <2>1. UNCHANGED vars /\ TornInv => TornInv'  BY DEF TornInv, UnannouncedIsTornDown, vars
  <2> QED  BY <2>1, TornStep
<1>3. TornInv => UnannouncedIsTornDown  BY DEF TornInv
<1> QED  BY <1>1, <1>2, <1>3, TypeCorrect, AnswerInvariant, PTL DEF Spec

----------------------------------------------------------------------------
(* Early media.                                                            *)

\* What makes EarlyMediaKept follow: early media is shown only while the far end plays it.
EarlyInv == sess.state = "EarlyMedia" => sess.early \in RemoteMedia

\* Every step but the set-up, a provisional response and the answer leaves the
\* early-media state alone.
LEMMA EarlyKept ==
    ASSUME TypeOK, Next, ~Setup, ~OnEarly, ~InviteAnswered
    PROVE  sess'.early = sess.early
<1> USE DEF TypeOK
<1>s. /\ StopRtp(sess).early = sess.early /\ EndSession(sess).early = sess.early
      /\ [StopRtp(sess) EXCEPT !.state = "Ended"].early = sess.early
  BY DEF StopRtp, EndSession, Session
<1>1. CASE InviteTask
  BY <1>1, <1>s DEF InviteTask, InviteCancelled, InviteCancelRemoves, InviteTellsCancelled,
     InviteReturns, InviteFails, InviteChecksCancel, InviteSendsBye, InviteMarksEnded,
     InviteAnnounces
<1>2. CASE StateTask
  <2>1. CASE OnUpdated
    <3>1. Head(chan).sdp \in Sdp  BY <2>1, ReceiveType DEF OnUpdated, Receive
    <3> QED  BY <2>1, <3>1, ApplySdpType DEF OnUpdated
  <2>2. CASE OnTerminated
    <3>1. StopRtp(sess) \in Session  BY StopRtpType
    <3> QED  BY <1>s, <2>2, <3>1 DEF OnTerminated, Session
  <2>3. CASE OnNotify  BY <2>3 DEF OnNotify, Session
  <2> QED
    BY <1>2, <2>1, <2>2, <2>3 DEF StateTask, TerminatedReleases, TerminatedRemoves
<1>3. CASE TimerTask \/ Peer
  BY <1>3 DEF TimerTask, TimerLeaves, TimerExpires, TimerRefreshes, StartHangup, Peer,
     PeerProvisional, PeerFinal, PeerReinvites, PeerEnds, PeerNotifies, PeerAcceptsRefer,
     PeerUnchanged
<1>4. ASSUME NEW c \in Apps, AppCalls(c) PROVE sess'.early = sess.early
  BY <1>4 DEF AppCalls, Answer, Reject, Hangup, StartHangup, Cancel, Refer, Modify, Session
<1>5. ASSUME NEW c \in Callers, CallerSteps(c) PROVE sess'.early = sess.early
  <2>1. CASE Reject1(c) \/ Bye1(c) \/ Cancel4(c)
    BY <1>s, <2>1 DEF Reject1, Bye1, Cancel4
  <2>2. CASE Cancel1(c) \/ Cancel2(c) \/ ReinviteSet(c) \/ ReinviteReturns(c)
               \/ ReinviteApply(c) \/ ReferAccepted(c)
    BY <2>2 DEF Cancel1, Cancel2, ReinviteSet, ReinviteReturns, ClearPending, ReinviteApply,
       ReferAccepted, Session
  <2> QED
    BY <1>5, <2>1, <2>2 DEF CallerSteps, AnswerAccept, AnswerDone, Lookup, Reject2, Reject3,
       Reject4, Reject5, Bye2, Cancel3, ReinviteCheck, ReferFails
<1> QED  BY <1>1, <1>2, <1>3, <1>4, <1>5 DEF Next

\* A provisional response: a 180 never takes the call back to ringing, and rings only
\* when the far end plays no media.
LEMMA ProvisionalEarly ==
    ASSUME TypeOK, EarlyInv, OnEarly
    PROVE  /\ EarlyInv'
           /\ sess.state = "EarlyMedia" => sess'.state # "Ringing"
           /\ "Ringing" \in emitted' => "Ringing" \in emitted \/ sess'.early \notin RemoteMedia
<1> USE DEF TypeOK
<1> DEFINE m == Head(chan)
           s == ApplySdp(sess, m.sdp)
           new == IF m.code = 183 THEN Process183(s, m.sdp # "none") ELSE Process180(s)
<1>1. m.sdp \in Sdp  BY ReceiveType DEF OnEarly, Receive
<1>2. /\ s \in Session /\ s.early = sess.early
      /\ s.state = "EarlyMedia" => sess.state = "EarlyMedia"
      /\ sess.state = "EarlyMedia" => s.state = "EarlyMedia"
  <2>1. s \in Session /\ s.early = sess.early  BY <1>1, ApplySdpType
  <2>2. s.state # sess.state => s.state \in Established /\ sess.state \in Established
    BY DEF ApplySdp, UpdateFromRemoteSdp, Session, Established
  <2> QED  BY <2>1, <2>2 DEF Established
<1> HIDE DEF s
<1>3. Process180(s).state = "EarlyMedia" => Process180(s).early \in RemoteMedia
  BY <1>2 DEF EarlyInv, Process180, Session, RemoteMedia, EarlyStates
<1>4. sess.state = "EarlyMedia" => Process180(s).state # "Ringing"
  BY <1>2 DEF EarlyInv, Process180, Session, RemoteMedia, EarlyStates
<1>5. \A has_sdp \in BOOLEAN :
        /\ Process183(s, has_sdp).state = "EarlyMedia" =>
             Process183(s, has_sdp).early \in RemoteMedia
        /\ sess.state = "EarlyMedia" => Process183(s, has_sdp).state # "Ringing"
  BY <1>2 DEF EarlyInv, Process183, Session, RemoteMedia, EarlyStates
<1>6. /\ new.state = "EarlyMedia" => new.early \in RemoteMedia
      /\ sess.state = "EarlyMedia" => new.state # "Ringing"
  BY <1>3, <1>4, <1>5
<1>7. "Ringing" \in emitted' => "Ringing" \in emitted \/ (inMap /\ new.early \notin RemoteMedia)
  BY DEF OnEarly, Emit, s
<1>8. sess' = IF inMap THEN new ELSE sess  BY DEF OnEarly, s
<1> HIDE DEF new
<1> QED  BY <1>6, <1>7, <1>8 DEF EarlyInv

\* The answer either leaves the session alone or establishes the call.
LEMMA AnsweredEstablishes ==
    ASSUME TypeOK, InviteAnswered
    PROVE  sess' = sess \/ sess'.state \in Established
<1> USE DEF TypeOK
<1> DEFINE s == [sess EXCEPT !.state = "Active", !.client_dialog = TRUE, !.early = "None"]
<1>1. CASE UNCHANGED sess  BY <1>1
<1>2. CASE ~UNCHANGED sess
  <2>1. PICK timer \in TimerUse :
          sess' = [ApplySdp(s, result.sdp) EXCEPT !.timer = IF timer THEN "active" ELSE "none"]
    BY <1>2 DEF InviteAnswered
  <2>2. s \in Session /\ s.state = "Active"  BY DEF Session, Established, EarlyStates
  <2>3. result.sdp \in Sdp  BY DEF InviteAnswered, Response, NoResult, Sdp
  <2> HIDE DEF s
  <2>4. ApplySdp(s, result.sdp) \in Session  BY <2>2, <2>3, ApplySdpType
  <2>5. ApplySdp(s, result.sdp).state \in Established
    BY <2>2, <2>3 DEF ApplySdp, UpdateFromRemoteSdp, Established, Session
  <2> QED  BY <2>1, <2>4, <2>5 DEF Session
<1> QED  BY <1>1, <1>2

\* While the far end plays media before the answer the call stays in early media, and
\* no ringback is asked for, whatever provisional responses follow each other.
THEOREM EarlyMediaKeptHolds == Spec => EarlyMediaKept
<1> DEFINE Kept == /\ sess.state = "EarlyMedia" => sess'.state # "Ringing"
                   /\ sess.early \in RemoteMedia /\ sess'.early \in RemoteMedia
                        => ("Ringing" \in emitted' => "Ringing" \in emitted)
<1>1. Init => EarlyInv
  BY DEF Init, NewSession, EarlyInv
<1>2. TypeOK /\ AnswerInv /\ EarlyInv /\ [Next]_vars => EarlyInv' /\ [Kept]_vars
  <2> SUFFICES ASSUME TypeOK, AnswerInv, EarlyInv, [Next]_vars PROVE EarlyInv' /\ [Kept]_vars
    OBVIOUS
  <2>1. CASE UNCHANGED vars  BY <2>1 DEF EarlyInv, vars
  <2>2. CASE Next
    <3>1. CASE OnEarly  BY <3>1, ProvisionalEarly
    <3>2. CASE ~OnEarly
      <4>1. "Ringing" \in emitted' => "Ringing" \in emitted  BY <2>2, <3>2, EventSteps
      <4>2. CASE Setup
        <5>1. PlaceCall \/ AcceptInvite => sess'.state = "Trying"
          BY NewSessionType, AcceptedSession DEF PlaceCall
        <5>2. RefuseInvite => sess' = sess  BY DEF RefuseInvite
        <5>3. RingIncoming => sess'.state = "Ringing" /\ sess.state # "EarlyMedia"
          <6>1. RingIncoming => sess'.state = "Ringing"  BY DEF RingIncoming, TypeOK, Session
          <6>2. RingIncoming => direction = "Inbound" /\ invite # "done"
            BY DEF RingIncoming, TypeOK, AnswerInv
          <6> QED  BY <6>1, <6>2 DEF AnswerInv
        <5>4. EarlyInv' /\ (sess.state = "EarlyMedia" => sess'.state # "Ringing")
          BY <4>2, <5>1, <5>2, <5>3 DEF Setup, EarlyInv
        <5> QED  BY <4>1, <5>4
      <4>3. CASE ~Setup
        <5>1. sess'.state \in PreAnswer => sess'.state = sess.state
          BY <2>2, <3>2, <4>3, SessionSteps
        <5>2. sess'.state = "EarlyMedia" => sess'.early = sess.early
          BY <2>2, <3>2, <4>3, EarlyKept, AnsweredEstablishes DEF Established
        <5>3. EarlyInv' /\ (sess.state = "EarlyMedia" => sess'.state # "Ringing")
          BY <5>1, <5>2 DEF EarlyInv, PreAnswer
        <5> QED  BY <4>1, <5>3
      <4> QED  BY <4>2, <4>3
    <3> QED  BY <3>1, <3>2
  <2> QED  BY <2>1, <2>2
<1> QED  BY <1>1, <1>2, TypeCorrect, AnswerInvariant, PTL DEF Spec, EarlyMediaKept

----------------------------------------------------------------------------
(* The life of a call.                                                     *)

\* Before the call is set up, and for good once it is refused, there is nothing.
Nothing ==
    /\ ~inMap /\ sess.rtp = "none" /\ port.releases = 0 /\ emitted = {} /\ stask = "none"
    /\ \A c \in Callers : op[c].pc = "idle"

\* What CallLife needs of the states: no port is back whose engine is not stopped, and no
\* call is gone without an event that says so or a task that is about to send it.
LifeInv ==
    /\ invite \in {"start", "refused"} => Nothing
    /\ port.releases > 0 => sess.rtp = "stopped"
    /\ ~inMap /\ invite \notin {"start", "refused"} => Told \/ Owed

\* The two ways into the map.
LEMMA MapEnter ==
    ASSUME Next, ~inMap, inMap'
    PROVE  PlaceCall \/ AcceptInvite
  BY DEF Next, Setup, RefuseInvite, RingIncoming, InviteTask,
     InviteCancelled, InviteCancelRemoves, InviteTellsCancelled, InviteReturns, InviteFails,
     InviteAnswered, InviteChecksCancel, InviteSendsBye, InviteMarksEnded, InviteAnnounces,
     StateTask, OnEarly, OnUpdated, OnNotify, OnTerminated, TerminatedReleases,
     TerminatedRemoves, TimerTask, TimerLeaves, TimerExpires, TimerRefreshes, StartHangup,
     Peer, PeerProvisional, PeerFinal, PeerReinvites, PeerEnds, PeerNotifies,
     PeerAcceptsRefer, PeerUnchanged, AppCalls, Answer, Reject, Hangup, Cancel, Refer, Modify,
     CallerSteps, AnswerAccept, AnswerDone, Lookup, Reject1, Reject2, Reject3, Reject4,
     Reject5, Bye1, Bye2, Cancel1, Cancel2, Cancel3, Cancel4, ReinviteCheck, ReinviteSet,
     ReinviteReturns, ReinviteApply, ReferFails, ReferAccepted

\* Out of nothing comes a call, a refusal, or nothing.
LEMMA OutOfNothing ==
    ASSUME TypeOK, Next, invite \in {"start", "refused"}, Nothing
    PROVE  \/ PlaceCall \/ AcceptInvite \/ RefuseInvite
           \/ UNCHANGED <<sess, inMap, port, emitted, stask, op, invite>>
<1>1. ~InviteTask /\ ~StateTask /\ ~TimerTask /\ ~RingIncoming
  BY DEF Nothing, InviteTask, InviteCancelled, InviteCancelRemoves, InviteTellsCancelled,
     InviteReturns, InviteFails, InviteAnswered, InviteChecksCancel, InviteSendsBye,
     InviteMarksEnded, InviteAnnounces, StateTask, OnEarly, OnUpdated, OnNotify, OnTerminated,
     Receive, TerminatedReleases, TerminatedRemoves, TimerTask, TimerLeaves, TimerExpires,
     TimerRefreshes, Callers, RingIncoming
<1>2. \A c \in Callers : ~CallerSteps(c)
  BY DEF Nothing, CallerSteps, AnswerAccept, AnswerDone, Lookup, Reject1, Reject2, Reject3,
     Reject4, Reject5, Bye1, Bye2, Cancel1, Cancel2, Cancel3, Cancel4, ReinviteCheck,
     ReinviteSet, ReinviteReturns, ReinviteApply, ReferFails, ReferAccepted
<1>3. \A c \in Apps : ~AppCalls(c)
  BY DEF Nothing, AppCalls, Answer, Reject, Hangup, StartHangup, Cancel, Refer, Modify
<1>4. \A c \in Apps : ~PeerAcceptsRefer(c)  BY DEF Nothing, Callers, PeerAcceptsRefer
<1>5. Peer => UNCHANGED <<sess, inMap, port, emitted, stask, op, invite>>
  BY <1>4 DEF Peer, PeerProvisional, PeerFinal, PeerReinvites, PeerEnds, PeerNotifies,
     PeerUnchanged, Silent
<1> QED  BY <1>1, <1>2, <1>3, <1>5 DEF Next, Setup

\* A port that comes back is that of an engine which is stopped by then.
LEMMA BackWhenStopped ==
    ASSUME TypeOK, StopInv, Next, port'.releases # port.releases
    PROVE  sess'.rtp = "stopped"
<1> USE DEF TypeOK
<1>1. \A b \in BOOLEAN : [port EXCEPT !.taken = b].releases = port.releases  OBVIOUS
<1>2. ~Setup
  BY <1>1 DEF Setup, PlaceCall, RefuseInvite, AcceptInvite, RingIncoming
<1>3. \/ InviteCancelRemoves \/ InviteFails \/ TerminatedReleases
      \/ \E c \in Callers : Cancel4(c) \/ Reject3(c)
  BY <1>2 DEF Next, InviteTask, InviteCancelled, InviteTellsCancelled, InviteReturns,
     InviteAnswered, InviteChecksCancel, InviteSendsBye, InviteMarksEnded, InviteAnnounces,
     StateTask,
     OnEarly, OnUpdated, OnNotify, OnTerminated, TerminatedRemoves, TimerTask,
     TimerLeaves, TimerExpires, TimerRefreshes, StartHangup, Peer, PeerProvisional, PeerFinal,
     PeerReinvites, PeerEnds, PeerNotifies, PeerAcceptsRefer, PeerUnchanged, AppCalls,
     Answer, Reject, Hangup, Cancel, Refer, Modify, CallerSteps, AnswerAccept, AnswerDone,
     Lookup, Reject1, Reject2, Reject4, Reject5, Bye1, Bye2, Cancel1, Cancel2, Cancel3,
     ReinviteCheck, ReinviteSet, ReinviteReturns, ReinviteApply, ReferFails, ReferAccepted
<1>4. Release => sess.rtp # "none"  BY DEF Release
<1>5. sess.rtp # "none" =>
        /\ StopRtp(sess).rtp = "stopped" /\ EndSession(sess).rtp = "stopped"
        /\ [StopRtp(sess) EXCEPT !.state = "Ended"].rtp = "stopped"
  BY DEF StopRtp, EndSession, Session
<1>6. CASE InviteCancelRemoves  BY <1>4, <1>5, <1>6 DEF InviteCancelRemoves
<1>7. CASE InviteFails  BY <1>4, <1>5, <1>7 DEF InviteFails
<1>8. CASE TerminatedReleases
  BY <1>4, <1>8 DEF TerminatedReleases, StopInv, Session
<1>9. ASSUME NEW c \in Callers, Cancel4(c) PROVE sess'.rtp = "stopped"
  BY <1>4, <1>5, <1>9 DEF Cancel4
<1>10. ASSUME NEW c \in Callers, Reject3(c) PROVE sess'.rtp = "stopped"
  BY <1>4, <1>10 DEF Reject3, StopInv, Session
<1> QED  BY <1>3, <1>6, <1>7, <1>8, <1>9, <1>10

\* Whoever removes the call has told the application of its end by then, or owes it.
LEMMA LeavesTold ==
    ASSUME TypeOK, Next, inMap, ~inMap'
    PROVE  Told' \/ Owed'
<1>1. InviteCancelRemoves => Owed'  BY DEF InviteCancelRemoves, Owed
<1>2. InviteFails => "Redirected" \in emitted' \/ "Error" \in emitted'
  BY DEF InviteFails, FailureEvents, Emit
<1>3. TerminatedRemoves => "Hangup" \in emitted'  BY DEF TerminatedRemoves, Emit
<1>4. ASSUME NEW c \in Callers, Reject4(c) PROVE Owed'
  <2>1. op'[c].pc = "reject5"  BY <1>4 DEF Reject4, TypeOK, Caller
  <2> QED  BY <2>1 DEF Owed
<1> QED  BY <1>1, <1>2, <1>3, <1>4, MapLeave DEF FinalEvents, Told

\* Who owes the event sends it: no step makes it forget.
LEMMA OwedIsTold ==
    ASSUME TypeOK, AnswerInv, Next, Owed
    PROVE  Told' \/ Owed'
<1>1. CASE invite = "untold"
  <2>1. invite' = "untold" \/ InviteTellsCancelled
    <3>1. invite' # invite => InviteTask \/ Setup  BY InviteMoves
    <3>2. ~Setup  BY <1>1, InviteSteps
    <3> QED
      BY <1>1, <3>1, <3>2 DEF InviteTask, InviteCancelled, InviteCancelRemoves, InviteReturns,
         InviteFails, InviteAnswered, InviteChecksCancel, InviteSendsBye, InviteMarksEnded,
         InviteAnnounces
  <2>2. InviteTellsCancelled => "Cancelled" \in emitted'  BY DEF InviteTellsCancelled, Emit
  <2> QED  BY <2>1, <2>2 DEF Told, Owed, FinalEvents
<1>2. ASSUME NEW c \in Callers, op[c].pc = "reject5" PROVE Told' \/ Owed'
  <2>1. Reject5(c) => "Hangup" \in emitted'  BY DEF Reject5, Emit
  <2>2. c = "timer" => ~Starts
    <3> SUFFICES ASSUME c = "timer", Starts PROVE FALSE  OBVIOUS
    <3>1. invite = "announce" \/ Answering # {}
      BY InviteSteps, CallerGuards DEF Starts, Answering
    <3> QED  BY <1>2, <3>1 DEF AnswerInv
  <2>3. op'[c].pc = "reject5" \/ Reject5(c)  BY <1>2, <2>2, PcSteps
  <2> QED  BY <2>1, <2>3 DEF Told, Owed, FinalEvents
<1> QED  BY <1>1, <1>2 DEF Owed

\* Every step keeps LifeInv: a call that is gone is told, or its report is on the way.
LEMMA LifeStep == ASSUME TypeOK, StopInv, AnswerInv, LifeInv, Next PROVE LifeInv'
<1>1. CASE invite \in {"start", "refused"}
  <2>1. Nothing  BY <1>1 DEF LifeInv
  <2>2. CASE UNCHANGED <<sess, inMap, port, emitted, stask, op, invite>>
    BY <1>1, <2>1, <2>2 DEF LifeInv, Nothing
  <2>3. CASE RefuseInvite
    <3>1. port'.releases = 0  BY <2>1, <2>3 DEF RefuseInvite, Nothing, TypeOK
    <3> QED  BY <2>1, <2>3, <3>1 DEF RefuseInvite, Nothing, LifeInv, Silent
  <2>4. CASE PlaceCall \/ AcceptInvite
    <3>1. inMap' /\ invite' \notin {"start", "refused"}  BY <2>4 DEF PlaceCall, AcceptInvite
    <3>2. port'.releases = 0  BY <2>1, <2>4 DEF PlaceCall, AcceptInvite, Nothing, TypeOK
    <3> QED  BY <3>1, <3>2 DEF LifeInv
  <2> QED  BY <1>1, <2>1, <2>2, <2>3, <2>4, OutOfNothing
<1>2. CASE invite \notin {"start", "refused"}
  <2>1. invite' \notin {"start", "refused"}  BY <1>2, InviteSteps
  <2>2. port'.releases > 0 => sess'.rtp = "stopped"
    <3>1. CASE port'.releases # port.releases  BY <3>1, BackWhenStopped
    <3>2. CASE port'.releases = port.releases  BY <1>2, <3>2, RtpOnlyStops DEF LifeInv, RtpLater
    <3> QED  BY <3>1, <3>2
  <2>3. ~inMap' => Told' \/ Owed'
    <3>1. Told => Told'  BY EventSteps DEF Told
    <3> QED  BY <1>2, <3>1, LeavesTold, OwedIsTold DEF LifeInv
  <2> QED  BY <2>1, <2>2, <2>3 DEF LifeInv
<1> QED  BY <1>1, <1>2

\* Every step of the call is one of its life.
LEMMA LifeMoves ==
    ASSUME TypeOK, StopInv, AnswerInv, PortInv, LifeInv, StopInv', PortInv', LifeInv', Next
    PROVE  [Life!Next]_(Life!lifeVars)
<1> USE DEF Life!Next, Life!lifeVars
<1>1. CASE invite \in {"start", "refused"}
  <2>1. Nothing  BY <1>1 DEF LifeInv
  <2>2. CASE UNCHANGED <<sess, inMap, port, emitted, stask, op, invite>>
    BY <2>2 DEF Told, Owed
  <2>3. CASE RefuseInvite
    <3>1. port'.releases = 0  BY <2>1, <2>3 DEF RefuseInvite, Nothing, TypeOK
    <3>2. Life!Refuse
      BY <2>1, <2>3, <3>1 DEF RefuseInvite, Nothing, Silent, Told, Owed, Life!Refuse
    <3> QED  BY <3>2
  <2>4. CASE PlaceCall \/ AcceptInvite
    <3>1. ~inMap /\ inMap' /\ invite = "start" /\ emitted' = emitted
      BY <2>1, <2>4 DEF PlaceCall, AcceptInvite, Silent, Nothing
    <3>2. port.releases = 0 /\ port'.releases = 0
      BY <2>1, <2>4 DEF PlaceCall, AcceptInvite, Nothing, TypeOK
    <3>3. sess'.rtp \in {"none", "up"}
      <4>1. PlaceCall => sess'.rtp = "up"  BY DEF PlaceCall, NewSession
      <4>2. AcceptInvite => sess'.rtp \in {"none", "up"}  BY DEF AcceptInvite, NewSession
      <4> QED  BY <2>4, <4>1, <4>2
    <3>4. ~Told /\ ~Told' /\ ~Owed /\ ~Owed'
      BY <2>1, <2>4, <3>1 DEF Nothing, Told, Owed, PlaceCall, AcceptInvite
    <3>5. Life!Begin  BY <3>1, <3>2, <3>3, <3>4 DEF Life!Begin
    <3> QED  BY <3>5
  <2> QED  BY <1>1, <2>1, <2>2, <2>3, <2>4, OutOfNothing
<1>2. CASE invite \notin {"start", "refused"}
  <2>1. invite' \notin {"start", "refused"}  BY <1>2, InviteSteps
  <2>2. inMap' => inMap
    <3>1. PlaceCall \/ AcceptInvite => invite = "start"  BY DEF PlaceCall, AcceptInvite
    <3> QED  BY <1>2, <3>1, MapEnter
  <2>3. sess'.rtp = sess.rtp \/ (sess.rtp = "up" /\ sess'.rtp = "stopped")
    BY <1>2, RtpOnlyStops DEF RtpLater, TypeOK, Session
  <2>4. port.releases > 0 => port'.releases > 0
    <3>1. port.releases \in Nat  BY DEF TypeOK
    <3> QED  BY <3>1, ReleasesGrow
  <2>5. port'.releases > 0 => sess'.rtp = "stopped"  BY DEF LifeInv
  <2>6. (Told => Told') /\ (Owed => Told' \/ Owed')
    BY EventSteps, OwedIsTold DEF Told
  <2>7. ~inMap' => /\ sess'.rtp # "up" /\ (sess'.rtp = "stopped" => port'.releases > 0)
                   /\ Told' \/ Owed'
    BY <2>1 DEF StopInv, RemovedIsStopped, PortInv, PortGivenBack, LifeInv
  <2>8. Life!WindDown
    <3> DEFINE life == IF inMap THEN "listed" ELSE IF invite = "start" THEN "new"
                       ELSE IF invite = "refused" THEN "refused" ELSE "gone"
    <3>1. life \in {"listed", "gone"} /\ life' \in {life, "gone"} /\ (life' = "gone" => ~inMap')
      BY <1>2, <2>1, <2>2
    <3> DEFINE told == IF Told THEN "yes" ELSE IF Owed THEN "owed" ELSE "no"
    <3>2. told' \in Life!Later[told] /\ (~inMap' => told' # "no")
      BY <2>6, <2>7 DEF Life!Later
    <3> QED  BY <2>3, <2>4, <2>5, <2>7, <3>1, <3>2 DEF Life!WindDown, Life!AtRest
  <2> QED  BY <2>8
<1> QED  BY <1>1, <1>2

\* A call implements CallLife: whichever paths race to end it, it is listed once, its
\* engine runs once, its port comes back once that has stopped, and it is gone only when
\* all of this is done and its end is told or, between reject()'s or the cancelled invite
\* task's removal and its event, about to be told by the task that removed it.
THEOREM CallLives == Spec => LivesOnce
<1>1. Init => LifeInv /\ PortInv /\ Life!Init
  <2> SUFFICES ASSUME Init PROVE LifeInv /\ PortInv /\ Life!Init  OBVIOUS
  <2>1. sess.rtp = "none"  BY DEF Init, NewSession
  <2>2. ~inMap /\ port.releases = 0 /\ invite = "start" /\ stask = "none" /\ emitted = {}
    BY DEF Init
  <2>3. \A c \in Callers : op[c].pc = "idle"  BY DEF Init, Idle
  <2> QED
    BY <2>1, <2>2, <2>3 DEF LifeInv, Nothing, PortInv, PortGivenBack, Told, Owed, Life!Init
<1>2. TypeOK /\ StopInv /\ AnswerInv /\ LifeInv /\ [Next]_vars => LifeInv'
  <2>1. UNCHANGED vars /\ LifeInv => LifeInv'  BY DEF LifeInv, Nothing, Told, Owed, vars
  <2> QED  BY <2>1, LifeStep
<1>3. TypeOK /\ StopInv /\ PortInv /\ [Next]_vars => PortInv'
  <2>1. UNCHANGED vars /\ PortInv => PortInv'  BY DEF PortInv, PortGivenBack, vars
  <2> QED  BY <2>1, PortStep
<1>4. /\ TypeOK /\ StopInv /\ AnswerInv /\ PortInv /\ LifeInv /\ StopInv' /\ PortInv' /\ LifeInv'
      /\ [Next]_vars
      => [Life!Next]_(Life!lifeVars)
  <2>1. UNCHANGED vars => UNCHANGED Life!lifeVars
    BY DEF vars, Told, Owed, Life!lifeVars
  <2> QED  BY <2>1, LifeMoves
<1> QED
  BY <1>1, <1>2, <1>3, <1>4, TypeCorrect, StopInvariant, AnswerInvariant, PTL
  DEF Spec, LivesOnce, Life!Spec
=============================================================================

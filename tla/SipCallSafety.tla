--------------------------- MODULE SipCallSafety ---------------------------
(***************************************************************************)
(* The safety of one call: no removed call keeps its RTP engine running,   *)
(* the glare flag is never left set, and the state shown to the            *)
(* application agrees with the hold flags.  Each theorem rests on an       *)
(* invariant of SipCall (StopInv, AnswerInv) and on lemmas about what a    *)
(* step may change, one per variable that matters.                         *)
(***************************************************************************)
EXTENDS SipCallProofs

----------------------------------------------------------------------------
(* Removed calls are stopped.                                              *)

\* No step after the set-up starts an RTP engine: a handler either leaves it
\* alone or stops it, and gives none to a call that has none.
RtpLater(t) == t = sess.rtp \/ (sess.rtp # "none" /\ t = "stopped")

\* Every step after the set-up leaves the RTP engine as it is or stops it.
LEMMA RtpOnlyStops ==
    ASSUME TypeOK, Next, invite # "start"
    PROVE  RtpLater(sess'.rtp)
<1> USE DEF TypeOK, RtpLater
<1>1. CASE Setup
  BY <1>1 DEF Setup, PlaceCall, RefuseInvite, AcceptInvite, RingIncoming, Session
<1>2. CASE InviteTask
  <2> DEFINE s == [sess EXCEPT !.state = "Active", !.client_dialog = TRUE, !.early = "None"]
  <2>1. CASE InviteAnswered
    <3>1. s \in Session /\ s.rtp = sess.rtp  BY DEF Session, Established, EarlyStates
    <3>2. result.sdp \in Sdp  BY <2>1 DEF InviteAnswered, Response, NoResult, Sdp
    <3>3. ApplySdp(s, result.sdp) \in Session /\ ApplySdp(s, result.sdp).rtp = sess.rtp
      BY <3>1, <3>2, ApplySdpType
    <3> HIDE DEF s
    <3> QED  BY <2>1, <3>3 DEF InviteAnswered, Session, s
  <2>2. CASE ~InviteAnswered
    BY <1>2, <2>2, StopRtpType, StopAndEndType
    DEF InviteTask, InviteCancelled, InviteCancelRemoves, InviteTellsCancelled, InviteReturns,
        InviteFails, InviteChecksCancel, InviteSendsBye, InviteMarksEnded, InviteAnnounces
  <2> QED  BY <2>1, <2>2
<1>3. CASE StateTask
  <2>1. CASE OnEarly
    <3> DEFINE m == Head(chan)
               s == ApplySdp(sess, m.sdp)
               new == IF m.code = 183 THEN Process183(s, m.sdp # "none") ELSE Process180(s)
    <3>1. m.sdp \in Sdp  BY <2>1, ReceiveType DEF OnEarly, Receive
    <3>2. s \in Session /\ s.rtp = sess.rtp  BY <3>1, ApplySdpType
    <3>3. new.rtp = sess.rtp  BY <3>2, ProvisionalType
    <3> QED  BY <2>1, <3>3 DEF OnEarly
  <2>2. CASE OnUpdated
    <3>1. Head(chan).sdp \in Sdp  BY <2>2, ReceiveType DEF OnUpdated, Receive
    <3> QED  BY <2>2, <3>1, ApplySdpType DEF OnUpdated
  <2>3. CASE OnNotify  BY <2>3 DEF OnNotify, Session
  <2>4. CASE OnTerminated
    BY <2>4, StopRtpType DEF OnTerminated, Session
  <2> QED
    BY <1>3, <2>1, <2>2, <2>3, <2>4 DEF StateTask, TerminatedReleases, TerminatedRemoves
<1>4. CASE TimerTask \/ Peer
  BY <1>4 DEF TimerTask, TimerLeaves, TimerExpires, TimerRefreshes, StartHangup, Peer,
     PeerProvisional, PeerFinal, PeerReinvites, PeerEnds, PeerNotifies, PeerAcceptsRefer,
     PeerUnchanged
<1>5. ASSUME NEW c \in Apps, AppCalls(c) PROVE sess'.rtp = sess.rtp
  BY <1>5 DEF AppCalls, Answer, Reject, Hangup, StartHangup, Cancel, Refer, Modify, Session
<1>6. ASSUME NEW c \in Callers, CallerSteps(c) PROVE RtpLater(sess'.rtp)
  <2>1. CASE Reject1(c) \/ Bye1(c) \/ Cancel4(c)
    BY <2>1, StopAndEndType, EndSessionType DEF Reject1, Bye1, Cancel4
  <2>2. CASE ReinviteApply(c)
    BY <2>2 DEF ReinviteApply, Session
  <2>3. CASE Cancel1(c) \/ Cancel2(c) \/ ReinviteSet(c) \/ ReinviteReturns(c) \/ ReferAccepted(c)
    BY <2>3 DEF Cancel1, Cancel2, ReinviteSet, ReinviteReturns, ClearPending, ReferAccepted,
       Session
  <2> QED
    BY <1>6, <2>1, <2>2, <2>3 DEF CallerSteps, AnswerAccept, AnswerDone, Lookup, Reject2,
       Reject3, Reject4, Reject5, Bye2, Cancel3, ReinviteCheck, ReferFails
<1> QED  BY <1>1, <1>2, <1>3, <1>4, <1>5, <1>6 DEF Next

\* The four paths on which a call leaves the map.
LEMMA MapLeave ==
    ASSUME TypeOK, Next, inMap, ~inMap'
    PROVE  \/ InviteCancelRemoves \/ InviteFails \/ TerminatedRemoves
           \/ \E c \in Callers : Reject4(c)
<1>1. CASE Setup \/ InviteTask \/ StateTask
  BY <1>1 DEF Setup, PlaceCall, RefuseInvite, AcceptInvite, RingIncoming,
     InviteTask, InviteCancelled, InviteTellsCancelled, InviteReturns, InviteAnswered,
     InviteChecksCancel, InviteSendsBye, InviteMarksEnded, InviteAnnounces, StateTask, OnEarly, OnUpdated, OnNotify, OnTerminated,
     TerminatedReleases
<1>4. CASE TimerTask \/ Peer
  BY <1>4 DEF TimerTask, TimerLeaves, TimerExpires, TimerRefreshes, StartHangup, Peer,
     PeerProvisional, PeerFinal, PeerReinvites, PeerEnds, PeerNotifies, PeerAcceptsRefer,
     PeerUnchanged
<1>5. ASSUME NEW c \in Apps, AppCalls(c) PROVE FALSE
  BY <1>5 DEF AppCalls, Answer, Reject, Hangup, StartHangup, Cancel, Refer, Modify
<1>6. ASSUME NEW c \in Callers, CallerSteps(c) PROVE Reject4(c)
  BY <1>6 DEF CallerSteps, AnswerAccept, AnswerDone, Lookup, Reject1, Reject2, Reject3,
     Reject5, Bye1, Bye2, Cancel1, Cancel2, Cancel3, Cancel4, ReinviteCheck, ReinviteSet,
     ReinviteReturns, ReinviteApply, ReferFails, ReferAccepted
<1> QED  BY <1>1, <1>4, <1>5, <1>6 DEF Next

----------------------------------------------------------------------------
(* Where a caller can come from.                                           *)

\* A caller's step moves no other caller, but answer() spawns the timer task.
LEMMA OthersStay ==
    ASSUME TypeOK, NEW d \in Callers, CallerSteps(d), NEW c \in Callers, c # d
    PROVE  op'[c] = op[c] \/ (c = "timer" /\ AnswerDone(d))
<1> USE DEF TypeOK
<1>r. Return(d) => op'[c] = op[c]  BY ReturnType DEF Moved
<1> QED
  BY <1>r DEF CallerSteps, AnswerAccept, AnswerDone, Lookup, Reject1, Reject2, Reject3,
     Reject4, Reject5, Bye1, Bye2, Cancel1, Cancel2, Cancel3, Cancel4, ReinviteCheck,
     ReinviteSet, ReinviteReturns, Retry, ReinviteApply, ReferFails, ReferAccepted

\* The steps that lead to the places the invariants speak of.
Watched == {"answer2", "answer3", "reject2", "reject3", "reject4", "reject5",
            "ri_set", "ri_wait", "ri_ok"}
Enters(c) ==
    \/ op'[c].pc \notin Watched
    \/ Answer(c) /\ op'[c].pc = "answer2"
    \/ AnswerAccept(c) /\ op'[c].pc = "answer3"
    \/ Reject1(c) /\ op'[c].pc = "reject2"
    \/ Reject2(c) /\ op'[c].pc = "reject3"
    \/ Reject3(c) /\ op'[c].pc = "reject4"
    \/ Reject4(c) /\ op'[c].pc = "reject5"
    \/ ReinviteCheck(c) /\ sess.state \in Established /\ op'[c].pc = "ri_set"
    \/ ReinviteSet(c) /\ op'[c].pc = "ri_wait"
    \/ ReinviteReturns(c) /\ op'[c].pc = "ri_ok"

\* Which step of a caller leads to which, with what it saw of the session on the way.
LEMMA CallerEnters ==
    ASSUME TypeOK, NEW c \in Callers, CallerSteps(c)
    PROVE  Enters(c)
<1> USE DEF TypeOK
<1>r. Return(c) => op'[c].pc \notin Watched  BY ReturnType DEF Moved, Watched
<1>g. \A p \in Pcs : [op EXCEPT ![c].pc = p][c].pc = p  BY Goto DEF Moved
<1>1. CASE AnswerAccept(c)
  <2>1. [op EXCEPT ![c] = Idle][c].pc = "idle"  BY IdleType
  <2> QED  BY <1>1, <1>g, <2>1 DEF AnswerAccept, Enters, Watched, Pcs
<1>2. CASE AnswerDone(c)
  <2>1. op'[c].pc \in {"idle", "sleep"}  BY <1>2, IdleType DEF AnswerDone, Caller
  <2> QED  BY <2>1 DEF Enters, Watched
<1>3. CASE Lookup(c)
  BY <1>3, <1>r, <1>g DEF Lookup, Enters, Watched, Pcs
<1>4. CASE Reject1(c)
  BY <1>4, <1>r, <1>g DEF Reject1, Enters, Watched, Pcs
<1>5. CASE Reject2(c)
  BY <1>5, <1>r, <1>g DEF Reject2, Enters, Watched, Pcs
<1>6. CASE Bye1(c) \/ Cancel1(c) \/ Cancel2(c)
  <2>1. op'[c].pc \in {"bye2", "cancel2", "cancel3"} \/ Return(c)
    BY <1>6 DEF Bye1, Cancel1, Cancel2, Caller
  <2> QED  BY <1>r, <2>1 DEF Enters, Watched
<1>7. CASE Cancel3(c)
  BY <1>7, <1>r, <1>g DEF Cancel3, Enters, Watched, Pcs
<1>8. CASE ReinviteCheck(c)
  BY <1>8, <1>r, <1>g DEF ReinviteCheck, Enters, Watched, Pcs
<1>9. CASE ReinviteSet(c)
  BY <1>9 DEF ReinviteSet, Enters, Caller
<1>10. CASE ReinviteReturns(c)
  <2>1. op[c].tries < MaxRetries => Retry(c)[c].pc = "ri_lookup"  BY RetryType DEF Moved
  <2> QED  BY <1>10, <1>r, <1>g, <2>1 DEF ReinviteReturns, Enters, Watched, Pcs
<1>11. CASE Reject3(c) \/ Reject4(c)
  BY <1>11, <1>g DEF Reject3, Reject4, Enters, Watched, Pcs
<1>12. CASE Reject5(c) \/ Bye2(c) \/ Cancel4(c) \/ ReinviteApply(c) \/ ReferFails(c)
              \/ ReferAccepted(c)
  BY <1>12, <1>r DEF Reject5, Bye2, Cancel4, ReinviteApply, ReferFails,
     ReferAccepted, Enters
<1> QED
  BY <1>1, <1>2, <1>3, <1>4, <1>5, <1>6, <1>7, <1>8, <1>9, <1>10, <1>11, <1>12
  DEF CallerSteps

\* In every step of the call, a caller that changes its place does it itself,
\* enters the watched places only as Enters says, and leaves a re-INVITE only
\* by its return; the timer task is started by an answer.
Starts == InviteAnnounces \/ \E d \in Callers : AnswerDone(d)

\* The same over all steps of the engine: who moves a caller, and where to.
LEMMA PcSteps ==
    ASSUME TypeOK, Next, NEW c \in Callers
    PROVE  /\ op'[c].pc = op[c].pc \/ Enters(c)
           /\ op[c].pc = "ri_wait" =>
                op'[c].pc = "ri_wait" \/ ReinviteReturns(c) \/ (c = "timer" /\ Starts)
           /\ op[c].pc = "reject5" =>
                op'[c].pc = "reject5" \/ Reject5(c) \/ (c = "timer" /\ Starts)
           /\ c = "timer" /\ op[c].pc = "idle" => op'[c].pc = "idle" \/ Starts
<1> USE DEF TypeOK
<1>1. CASE Setup \/ StateTask
  <2>1. op' = op
    BY <1>1 DEF Setup, PlaceCall, RefuseInvite, AcceptInvite, RingIncoming, StateTask,
       OnEarly, OnUpdated, OnNotify, OnTerminated, TerminatedReleases, TerminatedRemoves
  <2> QED  BY <2>1
<1>2. CASE InviteTask
  <2>1. CASE InviteAnnounces
    <3>1. op' \in {op, [op EXCEPT !["timer"].pc = "sleep"]}  BY <2>1 DEF InviteAnnounces
    <3>2. op'[c].pc \in {op[c].pc, "sleep"} /\ (c # "timer" => op'[c].pc = op[c].pc)
      BY <3>1 DEF Caller
    <3> QED  BY <2>1, <3>2 DEF Enters, Watched, Starts
  <2>2. CASE ~InviteAnnounces
    <3>1. op' = op
      BY <1>2, <2>2 DEF InviteTask, InviteCancelled, InviteCancelRemoves,
         InviteTellsCancelled, InviteReturns, InviteFails, InviteAnswered, InviteChecksCancel,
         InviteSendsBye, InviteMarksEnded
    <3> QED  BY <3>1
  <2> QED  BY <2>1, <2>2
<1>3. CASE TimerTask
  <2>1. /\ op["timer"].pc = "sleep"
        /\ op'["timer"].pc \in {"idle", "ri_lookup", "reject0", "cancel0", "bye0"}
        /\ c # "timer" => op'[c] = op[c]
    BY <1>3, IdleType DEF TimerTask, TimerLeaves, TimerExpires, TimerRefreshes, StartHangup,
       Callers, Caller
  <2> QED  BY <2>1 DEF Enters, Watched
<1>4. CASE Peer
  <2>1. CASE op' = op  BY <2>1
  <2>2. CASE op' # op
    <3>1. PICK d \in Apps : PeerAcceptsRefer(d)
      BY <1>4, <2>2 DEF Peer, PeerProvisional, PeerFinal, PeerReinvites, PeerEnds, PeerNotifies
    <3>2. op[d].pc = "refer_wait" /\ op' = [op EXCEPT ![d].pc = "refer_ok"]
      BY <3>1 DEF PeerAcceptsRefer
    <3>3. op'[c].pc \in {op[c].pc, "refer_ok"} /\ (c # d => op'[c] = op[c]) /\ d # "timer"
      BY <3>2, CallAssumption DEF Caller
    <3> QED  BY <3>2, <3>3 DEF Enters, Watched
  <2> QED  BY <2>1, <2>2
<1>5. ASSUME NEW d \in Apps, AppCalls(d)
      PROVE  /\ op[d].pc = "idle" /\ d # "timer" /\ Enters(d)
             /\ c # d => op'[c] = op[c]
  <2>1. d \in Callers /\ d # "timer"  BY CallAssumption DEF Callers
  <2>2. /\ op[d].pc = "idle"
        /\ c # d => op'[c] = op[c]
    BY <1>5 DEF AppCalls, Answer, Reject, Hangup, StartHangup, Cancel, Refer, Modify
  <2>3. CASE Answer(d)  BY <2>1, <2>3 DEF Answer, Enters, Caller
  <2>4. CASE ~Answer(d)
    <3>m. \A p \in Pcs, g \in Goals :
             /\ [op EXCEPT ![d].pc = p, ![d].goal = g][d].pc = p
             /\ [op EXCEPT ![d].goal = g, ![d].pc = p][d].pc = p
      <4> TAKE p \in Pcs, g \in Goals
      <4>1. /\ Moved([op EXCEPT ![d].pc = p, ![d].goal = g], d, p)
            /\ Moved([op EXCEPT ![d].goal = g, ![d].pc = p], d, p)
        BY <2>1, GotoWith
      <4> QED  BY <4>1 DEF Moved
    <3>1. CASE Hangup(d)
      <4>1. PICK p \in {"reject0", "cancel0", "bye0"} :
              op' = [op EXCEPT ![d].goal = "hangup", ![d].pc = p]
        BY <3>1 DEF Hangup, StartHangup
      <4>2. p \in Pcs /\ "hangup" \in Goals /\ p \notin Watched
        BY DEF Pcs, Goals, AllOps, Watched
      <4> QED  BY <2>1, <2>2, <3>m, <4>1, <4>2 DEF Enters
    <3>2. CASE Reject(d) \/ Cancel(d) \/ Refer(d)
      <4>1. /\ {"reject1", "cancel1", "refer_wait"} \subseteq Pcs \ Watched
            /\ {"reject", "cancel", "refer"} \subseteq Goals
        BY DEF Pcs, Goals, AllOps, Watched
      <4>2. \/ op' = [op EXCEPT ![d].pc = "reject1", ![d].goal = "reject"]
            \/ op' = [op EXCEPT ![d].pc = "cancel1", ![d].goal = "cancel"]
            \/ op' = [op EXCEPT ![d].pc = "refer_wait", ![d].goal = "refer"]
        BY <3>2 DEF Reject, Cancel, Refer
      <4>3. CASE op' = [op EXCEPT ![d].pc = "reject1", ![d].goal = "reject"]
        BY <2>1, <2>2, <3>m, <4>1, <4>3 DEF Enters
      <4>4. CASE op' = [op EXCEPT ![d].pc = "cancel1", ![d].goal = "cancel"]
        BY <2>1, <2>2, <3>m, <4>1, <4>4 DEF Enters
      <4>5. CASE op' = [op EXCEPT ![d].pc = "refer_wait", ![d].goal = "refer"]
        BY <2>1, <2>2, <3>m, <4>1, <4>5 DEF Enters
      <4> QED  BY <4>2, <4>3, <4>4, <4>5
    <3>3. ASSUME NEW goal \in {"hold", "unhold", "reinvite"}, Modify(d, goal) PROVE Enters(d)
      <4>1. "ri_lookup" \in Pcs \ Watched /\ goal \in Goals
        BY DEF Pcs, Goals, AllOps, Watched
      <4>2. op' = [op EXCEPT ![d].pc = "ri_lookup", ![d].goal = goal]  BY <3>3 DEF Modify
      <4>3. op'[d].pc = "ri_lookup"  BY <3>m, <4>1, <4>2
      <4> QED  BY <4>1, <4>3 DEF Enters
    <3> QED  BY <1>5, <2>1, <2>2, <2>4, <3>1, <3>2, <3>3 DEF AppCalls
  <2> QED  BY <2>1, <2>2, <2>3, <2>4
<1>6. ASSUME NEW d \in Callers, CallerSteps(d), d # c
      PROVE  op'[c] = op[c] \/ (c = "timer" /\ AnswerDone(d) /\ op'[c].pc \notin Watched)
  <2>1. CASE op'[c] = op[c]  BY <2>1
  <2>2. CASE op'[c] # op[c]
    <3>1. c = "timer" /\ AnswerDone(d)  BY <1>6, <2>2, OthersStay
    <3>2. op'[c].pc = "sleep"  BY <1>6, <2>2, <3>1, IdleType DEF AnswerDone, Caller
    <3> QED  BY <3>1, <3>2 DEF Watched
  <2> QED  BY <2>1, <2>2
<1>7. ASSUME CallerSteps(c)
      PROVE  /\ Enters(c) /\ op[c].pc # "idle"
             /\ op[c].pc = "ri_wait" => ReinviteReturns(c)
             /\ op[c].pc = "reject5" => Reject5(c)
  <2>1. Enters(c)  BY <1>7, CallerEnters
  <2>2. /\ op[c].pc # "idle"
        /\ op[c].pc = "ri_wait" => ReinviteReturns(c)
        /\ op[c].pc = "reject5" => Reject5(c)
    BY <1>7 DEF CallerSteps, AnswerAccept, AnswerDone, Lookup, Reject1, Reject2, Reject3,
       Reject4, Reject5, Bye1, Bye2, Cancel1, Cancel2, Cancel3, Cancel4, ReinviteCheck,
       ReinviteSet, ReinviteReturns, ReinviteApply, ReferFails, ReferAccepted
  <2> QED  BY <2>1, <2>2
<1> QED
  <2>1. CASE \E d \in Apps : AppCalls(d)
    BY <1>5, <2>1
  <2>2. CASE \E d \in Callers : CallerSteps(d)
    BY <1>6, <1>7, <2>2 DEF Starts, Enters
  <2> QED  BY <1>1, <1>2, <1>3, <1>4, <2>1, <2>2 DEF Next

----------------------------------------------------------------------------
(* The invariant StopInv and its theorem.                                  *)

\* Every step keeps StopInv: whoever goes on to remove a call has stopped its RTP engine.
LEMMA StopStep == ASSUME TypeOK, StopInv, Next PROVE StopInv'
<1> USE DEF TypeOK, StopInv, RemovedIsStopped
<1>1. CASE invite = "start"
  <2>0. \A c \in Callers : op[c].pc = "idle"  BY <1>1
  <2>1. CASE Setup
    <3>1. op' = op /\ invite' # "start" /\ stask' \in {"none", "loop"} /\ (inMap' \/ sess' = sess)
      BY <1>1, <2>1 DEF Setup, PlaceCall, RefuseInvite, AcceptInvite, RingIncoming
    <3>2. sess.rtp # "up"  BY <1>1
    <3> QED  BY <2>0, <3>1, <3>2
  <2>2. CASE ~Setup
    <3>1. UNCHANGED <<sess, inMap, stask, invite>> /\ Peer
      <4>1. ~InviteTask /\ ~StateTask
        BY <1>1 DEF InviteTask, InviteCancelled, InviteCancelRemoves, InviteTellsCancelled,
           InviteReturns, InviteFails, InviteAnswered, InviteChecksCancel, InviteSendsBye,
           InviteMarksEnded, InviteAnnounces, StateTask, OnEarly, OnUpdated, OnNotify,
           OnTerminated, Receive, TerminatedReleases, TerminatedRemoves
      <4>2. ~TimerTask
        BY <2>0 DEF TimerTask, TimerLeaves, TimerExpires, TimerRefreshes, Callers
      <4>3. \A c \in Apps : ~AppCalls(c)
        BY <1>1 DEF AppCalls, Answer, Reject, Hangup, StartHangup, Cancel, Refer, Modify
      <4>4. \A c \in Callers : ~CallerSteps(c)
        BY <2>0 DEF CallerSteps, AnswerAccept, AnswerDone, Lookup, Reject1, Reject2, Reject3,
           Reject4, Reject5, Bye1, Bye2, Cancel1, Cancel2, Cancel3, Cancel4, ReinviteCheck,
           ReinviteSet, ReinviteReturns, ReinviteApply, ReferFails, ReferAccepted
      <4> QED
        BY <2>2, <4>1, <4>2, <4>3, <4>4 DEF Next, Peer, PeerProvisional, PeerFinal,
           PeerReinvites, PeerEnds, PeerNotifies, PeerAcceptsRefer, PeerUnchanged
    <3>2. op' = op
      BY <2>0, <3>1 DEF Peer, PeerProvisional, PeerFinal, PeerReinvites, PeerEnds,
         PeerNotifies, PeerAcceptsRefer, Callers
    <3> QED  BY <3>1, <3>2
  <2> QED  BY <2>1, <2>2
<1>2. CASE invite # "start"
  <2>0. sess'.rtp = sess.rtp \/ sess'.rtp # "up"  BY <1>2, RtpOnlyStops DEF RtpLater
  <2>1. invite' # "start"
    BY <1>2 DEF Next, Setup, PlaceCall, RefuseInvite, AcceptInvite, RingIncoming, InviteTask,
       InviteCancelled, InviteCancelRemoves, InviteTellsCancelled, InviteReturns, InviteFails,
       InviteAnswered, InviteChecksCancel, InviteSendsBye, InviteMarksEnded, InviteAnnounces,
       StateTask, OnEarly, OnUpdated, OnNotify, OnTerminated, TerminatedReleases,
       TerminatedRemoves, TimerTask, TimerLeaves, TimerExpires, TimerRefreshes, StartHangup,
       Peer, PeerProvisional, PeerFinal, PeerReinvites, PeerEnds, PeerNotifies,
       PeerAcceptsRefer, PeerUnchanged, AppCalls, Answer, Reject, Hangup, Cancel, Refer,
       Modify, CallerSteps, AnswerAccept, AnswerDone, Lookup, Reject1, Reject2, Reject3,
       Reject4, Reject5, Bye1, Bye2, Cancel1, Cancel2, Cancel3, Cancel4, ReinviteCheck,
       ReinviteSet, ReinviteReturns, ReinviteApply, ReferFails, ReferAccepted
  <2>2. ~inMap' => sess'.rtp # "up"
    <3>1. CASE ~inMap  BY <2>0, <3>1
    <3>2. CASE inMap /\ ~inMap'
      <4>1. \/ InviteCancelRemoves \/ InviteFails \/ TerminatedRemoves
            \/ \E c \in Callers : Reject4(c)
        BY <3>2, MapLeave
      <4>2. (InviteCancelRemoves \/ InviteFails) => sess'.rtp # "up"
        BY <3>2, StopRtpType, StopAndEndType DEF InviteCancelRemoves, InviteFails
      <4>3. TerminatedRemoves => sess'.rtp # "up"  BY DEF TerminatedRemoves
      <4>4. (\E c \in Callers : Reject4(c)) => sess'.rtp # "up"  BY DEF Reject4
      <4> QED  BY <4>1, <4>2, <4>3, <4>4
    <3> QED  BY <3>1, <3>2
  <2>3. stask' \in {"release", "remove"} => sess'.rtp # "up"
    <3>1. OnTerminated => sess'.rtp # "up"
      <4>1. StopRtp(sess) \in Session /\ StopRtp(sess).rtp # "up"  BY StopRtpType
      <4> QED  BY <4>1 DEF OnTerminated, Session
    <3>2. stask' \in {"release", "remove"} => stask \in {"release", "remove"} \/ OnTerminated
      BY DEF Next, Setup, PlaceCall, RefuseInvite, AcceptInvite, RingIncoming, InviteTask,
       InviteCancelled, InviteCancelRemoves, InviteTellsCancelled, InviteReturns, InviteFails,
       InviteAnswered, InviteChecksCancel, InviteSendsBye, InviteMarksEnded, InviteAnnounces,
       StateTask, OnEarly, OnUpdated, OnNotify, TerminatedReleases, TerminatedRemoves,
       TimerTask, TimerLeaves, TimerExpires, TimerRefreshes, StartHangup, Peer,
       PeerProvisional, PeerFinal, PeerReinvites, PeerEnds, PeerNotifies, PeerAcceptsRefer,
       PeerUnchanged, AppCalls, Answer, Reject, Hangup, Cancel, Refer, Modify, CallerSteps,
       AnswerAccept, AnswerDone, Lookup, Reject1, Reject2, Reject3, Reject4, Reject5, Bye1,
       Bye2, Cancel1, Cancel2, Cancel3, Cancel4, ReinviteCheck, ReinviteSet, ReinviteReturns,
       ReinviteApply, ReferFails, ReferAccepted
    <3> QED  BY <2>0, <3>1, <3>2
  <2>4. \A c \in Callers : op'[c].pc \in {"reject2", "reject3", "reject4"} => sess'.rtp # "up"
    <3> SUFFICES ASSUME NEW c \in Callers, op'[c].pc \in {"reject2", "reject3", "reject4"}
                 PROVE  sess'.rtp # "up"
      OBVIOUS
    <3>1. op[c].pc \in {"reject2", "reject3", "reject4"} \/ Reject1(c) \/ Reject2(c) \/ Reject3(c)
      BY PcSteps DEF Enters, Watched
    <3>2. Reject1(c) => sess'.rtp # "up"
      <4>1. Return(c) => op'[c].pc \in {"idle", "sleep"}  BY ReturnType DEF Moved
      <4> QED  BY <4>1, StopAndEndType DEF Reject1
    <3>3. /\ Reject2(c) => op[c].pc = "reject2"
          /\ Reject3(c) => op[c].pc = "reject3"
      BY DEF Reject2, Reject3
    <3> QED  BY <2>0, <3>1, <3>2, <3>3
  <2> QED  BY <2>1, <2>2, <2>3, <2>4
<1> QED  BY <1>1, <1>2

\* Whoever is about to remove a call has stopped its RTP engine, on each path
\* that removes one.
THEOREM StopInvariant == Spec => []StopInv
<1>1. Init => StopInv
  <2>1. ASSUME Init PROVE sess.rtp = "none" /\ \A c \in Callers : op[c].pc = "idle"
    BY <2>1 DEF Init, NewSession, Idle
  <2> QED  BY <2>1 DEF Init, StopInv, RemovedIsStopped
<1>2. TypeOK /\ StopInv /\ [Next]_vars => StopInv'
  <2>1. UNCHANGED vars /\ StopInv => StopInv'  BY DEF StopInv, RemovedIsStopped, vars
  <2> QED  BY <2>1, StopStep
<1> QED  BY <1>1, <1>2, TypeCorrect, PTL DEF Spec

\* No call that has left the map keeps its RTP engine running: on each of the
\* paths of removal the stop comes first, whatever runs in between.
THEOREM RemovedIsStoppedHolds == Spec => []RemovedIsStopped
<1>1. StopInv => RemovedIsStopped  BY DEF StopInv
<1> QED  BY <1>1, StopInvariant, PTL

----------------------------------------------------------------------------
(* What a step may do to the session, the invite task and the channel.     *)

\* An accepted INVITE starts in Trying with nothing held.
LEMMA AcceptedSession ==
    ASSUME AcceptInvite
    PROVE  sess'.state = "Trying" /\ ~sess'.local_hold /\ ~sess'.reinvite_pending
<1>1. PICK sdp \in Bodies, timer \in TimerUse, rtp \in {"up", "none"} :
        /\ sess' = [NewSession(IF timer THEN "active" ELSE "none", rtp, FALSE)
                      EXCEPT !.remote_dir = IF sdp = "hold" THEN "hold" ELSE "active"]
        /\ port' = [port EXCEPT !.taken = (rtp = "up")]
  BY DEF AcceptInvite
<1> DEFINE t == NewSession(IF timer THEN "active" ELSE "none", rtp, FALSE)
<1>2. t \in Session /\ t.state = "Trying" /\ ~t.local_hold /\ ~t.reinvite_pending
  BY NewSessionType
<1> HIDE DEF t
<1>3. CASE sdp = "hold"
  <2>1. sess' = [t EXCEPT !.remote_dir = "hold"]  BY <1>1, <1>3 DEF t
  <2> QED  BY <1>2, <2>1 DEF Session
<1>4. CASE sdp # "hold"
  <2>1. sess' = [t EXCEPT !.remote_dir = "active"]  BY <1>1, <1>4 DEF t
  <2> QED  BY <1>2, <2>1 DEF Session
<1> QED  BY <1>3, <1>4

\* Who establishes, rings, holds or starts to modify a call; every other step
\* leaves these fields as they are, or ends the call.
LEMMA SessionSteps ==
    ASSUME TypeOK, Next
    PROVE  /\ sess'.state \in Established =>
                \/ sess.state \in Established \/ InviteAnswered
                \/ \E c \in Callers : Answer(c) \/ ReinviteApply(c)
           /\ sess'.state \in PreAnswer => sess'.state = sess.state \/ Setup \/ OnEarly
           /\ sess'.local_hold => sess.local_hold \/ \E c \in Callers : ReinviteApply(c)
           /\ sess'.reinvite_pending => sess.reinvite_pending \/ \E c \in Callers : ReinviteSet(c)
           /\ HoldOK(sess) =>
                HoldOK(sess') \/ InviteAnswered \/ \E c \in Callers : Answer(c)
<1> USE DEF TypeOK
<1> DEFINE Keeps(t) ==
             /\ t.state \in Established => sess.state \in Established
             /\ t.state \in PreAnswer => t.state = sess.state
             /\ t.local_hold => sess.local_hold
             /\ t.reinvite_pending => sess.reinvite_pending
             /\ HoldOK(sess) => HoldOK(t)
<1>k. Keeps(sess)  OBVIOUS
<1>e. \A t : t.state = "Ended" /\ (t.local_hold => sess.local_hold)
                /\ (t.reinvite_pending => sess.reinvite_pending) => Keeps(t)
  BY DEF HoldOK, Established, PreAnswer
<1>s. Keeps(StopRtp(sess))  BY StopRtpType DEF HoldOK
<1>x. Keeps([StopRtp(sess) EXCEPT !.state = "Ended"])  BY <1>e, StopAndEndType
<1>y. Keeps(EndSession(sess))  BY <1>e, EndSessionType
<1>1. CASE Setup
  <2>1. CASE PlaceCall
    BY <1>1, <2>1, NewSessionType DEF PlaceCall, HoldOK, Established
  <2>2. CASE RefuseInvite
    BY <1>1, <2>2 DEF RefuseInvite
  <2>3. CASE AcceptInvite
    <3>1. sess'.state = "Trying" /\ ~sess'.local_hold /\ ~sess'.reinvite_pending
      BY <2>3, AcceptedSession
    <3> QED  BY <1>1, <3>1 DEF HoldOK, Established
  <2>4. CASE RingIncoming
    <3>1. /\ sess'.state = "Ringing" /\ sess'.local_hold = sess.local_hold
          /\ sess'.reinvite_pending = sess.reinvite_pending
      BY <2>4 DEF RingIncoming, Session
    <3> QED  BY <1>1, <3>1 DEF HoldOK, Established
  <2> QED  BY <1>1, <2>1, <2>2, <2>3, <2>4 DEF Setup
<1>2. CASE InviteTask
  <2>1. CASE InviteAnswered
    <3> DEFINE s == [sess EXCEPT !.state = "Active", !.client_dialog = TRUE, !.early = "None"]
    <3>1. CASE UNCHANGED sess  BY <1>k, <3>1
    <3>2. CASE ~UNCHANGED sess
      <4>1. s \in Session /\ s.local_hold = sess.local_hold /\ s.state = "Active"
            /\ s.reinvite_pending = sess.reinvite_pending
        BY DEF Session, Established, EarlyStates
      <4>2. result.sdp \in Sdp  BY <2>1 DEF InviteAnswered, Response, NoResult, Sdp
      <4>3. /\ ApplySdp(s, result.sdp) \in Session
            /\ ApplySdp(s, result.sdp).local_hold = sess.local_hold
            /\ ApplySdp(s, result.sdp).reinvite_pending = sess.reinvite_pending
            /\ ApplySdp(s, result.sdp).state \in Established
        <5>1. ApplySdp(s, result.sdp).state \in Established
          <6> HIDE DEF s
          <6> QED  BY <4>1, <4>2 DEF ApplySdp, UpdateFromRemoteSdp, Established, Session
        <5> QED  BY <4>1, <4>2, <5>1, ApplySdpType
      <4>4. PICK timer \in TimerUse :
              sess' = [ApplySdp(s, result.sdp)
                         EXCEPT !.timer = IF timer THEN "active" ELSE "none"]
        BY <2>1, <3>2 DEF InviteAnswered
      <4> HIDE DEF s
      <4>5. /\ sess'.local_hold = sess.local_hold /\ sess'.state \in Established
            /\ sess'.reinvite_pending = sess.reinvite_pending
        BY <4>3, <4>4 DEF Session
      <4> QED  BY <2>1, <4>5 DEF Established, PreAnswer
    <3> QED  BY <3>1, <3>2
  <2>2. CASE ~InviteAnswered
    <3>1. sess' \in {sess, StopRtp(sess), [StopRtp(sess) EXCEPT !.state = "Ended"]}
      BY <1>2, <2>2
      DEF InviteTask, InviteCancelled, InviteCancelRemoves, InviteTellsCancelled,
          InviteReturns, InviteFails, InviteChecksCancel, InviteSendsBye, InviteMarksEnded,
          InviteAnnounces
    <3>2. Keeps(sess')  BY <1>k, <1>s, <1>x, <3>1
    <3> QED  BY <3>2
  <2> QED  BY <2>1, <2>2
<1>3. CASE StateTask
  <2>1. CASE OnEarly
    <3> DEFINE m == Head(chan)
               s == ApplySdp(sess, m.sdp)
               new == IF m.code = 183 THEN Process183(s, m.sdp # "none") ELSE Process180(s)
    <3>1. m.sdp \in Sdp  BY <2>1, ReceiveType DEF OnEarly, Receive
    <3>2. /\ s \in Session /\ s.local_hold = sess.local_hold
          /\ s.reinvite_pending = sess.reinvite_pending
          /\ sess.state \notin Established => s.state = sess.state
          /\ HoldOK(sess) => HoldOK(s)
      BY <3>1, ApplySdpType
    <3>3. /\ new.local_hold = s.local_hold /\ new.remote_hold = s.remote_hold
          /\ new.reinvite_pending = s.reinvite_pending
          /\ new.state # s.state => new.state \in PreAnswer
      BY <3>2, ProvisionalType
    <3>4. sess' \in {sess, new}  BY <2>1 DEF OnEarly
    <3> HIDE DEF new, s
    <3> QED  BY <2>1, <3>2, <3>3, <3>4 DEF HoldOK, PreAnswer, Established
  <2>2. CASE OnUpdated
    <3>1. Head(chan).sdp \in Sdp  BY <2>2, ReceiveType DEF OnUpdated, Receive
    <3> DEFINE s == ApplySdp(sess, Head(chan).sdp)
    <3>2. /\ s.local_hold = sess.local_hold
          /\ s.reinvite_pending = sess.reinvite_pending
          /\ sess.state \notin Established => s.state = sess.state
          /\ HoldOK(sess) => HoldOK(s)
      BY <3>1, ApplySdpType
    <3>3. s.state \in PreAnswer => s.state = sess.state
      BY DEF ApplySdp, UpdateFromRemoteSdp, Session, PreAnswer, Established
    <3>4. sess' \in {sess, s}  BY <2>2 DEF OnUpdated
    <3> HIDE DEF s
    <3> QED  BY <3>2, <3>3, <3>4
  <2>3. CASE OnNotify
    <3>1. Keeps([sess EXCEPT !.refer_pending = FALSE])  BY DEF Session, HoldOK
    <3> QED  BY <1>k, <2>3, <3>1 DEF OnNotify
  <2>4. CASE OnTerminated
    <3> DEFINE s == StopRtp(sess)
    <3>1. s \in Session /\ Keeps(s)  BY <1>s, StopRtpType
    <3>2. sess' = sess \/ sess' = [s EXCEPT !.timer = IF @ = "none" THEN @ ELSE "stopped"]
      BY <2>4 DEF OnTerminated
    <3> HIDE DEF s
    <3>3. Keeps(sess')  BY <1>k, <3>1, <3>2 DEF Session, HoldOK
    <3> QED  BY <3>3
  <2>5. CASE TerminatedReleases \/ TerminatedRemoves
    BY <1>k, <2>5 DEF TerminatedReleases, TerminatedRemoves
  <2> QED  BY <1>3, <2>1, <2>2, <2>3, <2>4, <2>5 DEF StateTask
<1>4. CASE TimerTask \/ Peer
  <2>1. sess' = sess
    BY <1>4 DEF TimerTask, TimerLeaves, TimerExpires, TimerRefreshes, StartHangup, Peer,
       PeerProvisional, PeerFinal, PeerReinvites, PeerEnds, PeerNotifies, PeerAcceptsRefer,
       PeerUnchanged
  <2> QED  BY <1>k, <2>1
<1>5. ASSUME NEW c \in Apps, AppCalls(c) PROVE Answer(c) \/ sess' = sess
  BY <1>5 DEF AppCalls, Reject, Hangup, StartHangup, Cancel, Refer, Modify
<1>6. ASSUME NEW c \in Apps, Answer(c)
      PROVE  sess'.state = "Active" /\ sess'.local_hold = sess.local_hold
             /\ sess'.reinvite_pending = sess.reinvite_pending
  BY <1>6 DEF Answer, Session
<1>7. ASSUME NEW c \in Callers, CallerSteps(c), ~ReinviteApply(c), ~ReinviteSet(c)
      PROVE  Keeps(sess')
  <2>1. CASE Reject1(c) \/ Bye1(c) \/ Cancel4(c)
    BY <1>k, <1>x, <1>y, <2>1 DEF Reject1, Bye1, Cancel4
  <2>2. CASE Cancel1(c) \/ Cancel2(c) \/ ReinviteReturns(c) \/ ReferAccepted(c)
    BY <2>2 DEF Cancel1, Cancel2, ReinviteReturns, ClearPending, ReferAccepted, Session, HoldOK
  <2> QED
    BY <1>7, <1>k, <2>1, <2>2 DEF CallerSteps, AnswerAccept, AnswerDone, Lookup, Reject2,
       Reject3, Reject4, Reject5, Bye2, Cancel3, ReinviteCheck, ReferFails
<1>8. ASSUME NEW c \in Callers, ReinviteSet(c)
      PROVE  sess'.state = sess.state /\ sess'.local_hold = sess.local_hold
             /\ sess'.remote_hold = sess.remote_hold
  BY <1>8 DEF ReinviteSet, Session
<1>9. ASSUME NEW c \in Callers, ReinviteApply(c)
      PROVE  /\ sess'.state \in PreAnswer => sess'.state = sess.state
             /\ sess'.reinvite_pending = sess.reinvite_pending
             /\ HoldOK(sess) => HoldOK(sess')
  BY <1>9 DEF ReinviteApply, Session, HoldOK, PreAnswer
<1> QED
  <2>1. CASE \E c \in Apps : AppCalls(c)
    BY <1>5, <1>6, <1>k, <2>1 DEF Callers, PreAnswer, Established
  <2>2. CASE \E c \in Callers : CallerSteps(c)
    <3>1. PICK c \in Callers : CallerSteps(c)  BY <2>2
    <3>2. CASE ReinviteSet(c)  BY <1>8, <3>2 DEF HoldOK
    <3>3. CASE ReinviteApply(c)  BY <1>9, <3>3
    <3>4. CASE ~ReinviteSet(c) /\ ~ReinviteApply(c)  BY <1>7, <3>1, <3>4
    <3> QED  BY <3>2, <3>3, <3>4
  <2> QED  BY <1>1, <1>2, <1>3, <1>4, <2>1, <2>2 DEF Next

\* The invite task moves forward only, each step from the place before it; the
\* direction of a call never changes.
LEMMA InviteSteps ==
    ASSUME Next
    PROVE  /\ direction' = direction
           /\ invite' # invite =>
                \/ Setup \/ InviteAnnounces
                \/ invite = "select" /\ invite' \in {"cancelled", "respond"}
                \/ invite \in {"cancelled", "untold"} /\ invite' \in {"untold", "done"}
                \/ invite = "respond" /\ (invite' = "done" \/ (InviteAnswered /\ invite' = "check"))
                \/ invite = "check" /\ invite' \in {"bye", "announce"}
                \/ invite \in {"bye", "ended"} /\ invite' \in {"ended", "done"}
           /\ Setup =>
                \/ direction = "Outbound" /\ invite = "start" /\ invite' = "select"
                \/ direction = "Inbound" /\ invite = "start" /\ invite' \in {"refused", "ringing"}
                \/ invite = "ringing" /\ invite' = "done"
           /\ InviteAnnounces => invite = "announce" /\ invite' = "done"
           /\ InviteAnswered => invite = "respond" /\ invite' = "check"
<1>1. CASE Setup \/ InviteTask
  BY <1>1 DEF Setup, PlaceCall, RefuseInvite, AcceptInvite, RingIncoming, InviteTask,
     InviteCancelled, InviteCancelRemoves, InviteTellsCancelled, InviteReturns, InviteFails,
     InviteAnswered, InviteChecksCancel, InviteSendsBye, InviteMarksEnded, InviteAnnounces
<1>2. CASE ~(Setup \/ InviteTask)
  <2>1. direction' = direction /\ invite' = invite
    BY <1>2 DEF Next, StateTask, OnEarly, OnUpdated, OnNotify, OnTerminated,
       TerminatedReleases, TerminatedRemoves, TimerTask, TimerLeaves, TimerExpires,
       TimerRefreshes, StartHangup, Peer, PeerProvisional, PeerFinal, PeerReinvites,
       PeerEnds, PeerNotifies, PeerAcceptsRefer, PeerUnchanged, AppCalls, Answer, Reject,
       Hangup, Cancel, Refer, Modify, CallerSteps, AnswerAccept, AnswerDone, Lookup, Reject1,
       Reject2, Reject3, Reject4, Reject5, Bye1, Bye2, Cancel1, Cancel2, Cancel3, Cancel4,
       ReinviteCheck, ReinviteSet, ReinviteReturns, ReinviteApply, ReferFails, ReferAccepted
  <2> QED  BY <1>2, <2>1 DEF InviteTask
<1> QED  BY <1>1, <1>2

\* Only the far end of an outbound call sends provisional responses.
NoEarly(q) == \A i \in DOMAIN q : q[i].type # "Early"

\* Receiving a message, or queueing another kind of message, brings no 180 or 183
\* into a channel that has none.
LEMMA NoEarlyKept ==
    ASSUME NEW q \in Seq(ChanMsg), NoEarly(q)
    PROVE  /\ q # <<>> => NoEarly(Tail(q)) /\ Head(q).type # "Early"
           /\ \A m \in ChanMsg : m.type # "Early" => NoEarly(Append(q, m))
<1>1. q # <<>> => NoEarly(Tail(q)) /\ Head(q).type # "Early"  BY DEF NoEarly
<1>2. ASSUME NEW m \in ChanMsg, m.type # "Early" PROVE NoEarly(Append(q, m))
  BY <1>2 DEF NoEarly
<1> QED  BY <1>1, <1>2

\* Only the far end of an outbound call puts a 180 or 183 on the state channel.
LEMMA ChanSteps ==
    ASSUME TypeOK, Next, NoEarly(chan)
    PROVE  ~OnEarly /\ (NoEarly(chan') \/ PeerProvisional)
<1> USE DEF TypeOK
<1>1. ~OnEarly  BY NoEarlyKept DEF OnEarly, Receive
<1>2. /\ [type |-> "Terminated", code |-> 0, sdp |-> "none"] \in ChanMsg
      /\ \A code \in {100, 200} : [type |-> "Notify", code |-> code, sdp |-> "none"] \in ChanMsg
      /\ \A sdp \in Bodies : [type |-> "Updated", code |-> 0, sdp |-> sdp] \in ChanMsg
  BY CallAssumption DEF ChanMsg, Sdp
<1>e. EndDialog => NoEarly(chan')
  <2>1. NoEarly(Append(chan, [type |-> "Terminated", code |-> 0, sdp |-> "none"]))
    BY <1>2, NoEarlyKept
  <2> QED  BY <2>1 DEF EndDialog
<1>3. CASE chan' = chan  BY <1>1, <1>3
<1>4. CASE StateTask
  <2>1. chan' \in {chan, Tail(chan)} /\ (chan' # chan => chan # <<>>)
    BY <1>1, <1>4 DEF StateTask, OnUpdated, OnNotify, OnTerminated, Receive,
       TerminatedReleases, TerminatedRemoves
  <2> QED  BY <1>1, <2>1, NoEarlyKept
<1>5. CASE Peer
  <2>1. CASE PeerFinal \/ PeerEnds
    BY <1>1, <1>e, <2>1 DEF PeerFinal, PeerEnds
  <2>2. CASE PeerReinvites
    <3>1. PICK sdp \in Bodies :
            chan' = Append(chan, [type |-> "Updated", code |-> 0, sdp |-> sdp])
      BY <2>2 DEF PeerReinvites
    <3> QED  BY <1>1, <1>2, <3>1, NoEarlyKept
  <2>3. CASE PeerNotifies
    <3>1. PICK code \in {100, 200} :
            chan' = Append(chan, [type |-> "Notify", code |-> code, sdp |-> "none"])
      BY <2>3 DEF PeerNotifies
    <3> QED  BY <1>1, <1>2, <3>1, NoEarlyKept
  <2> QED  BY <1>1, <1>5, <2>1, <2>2, <2>3 DEF Peer, PeerAcceptsRefer
<1>6. CASE InviteTask
  BY <1>1, <1>6, <1>e DEF InviteTask, InviteCancelled, InviteCancelRemoves,
     InviteTellsCancelled, InviteReturns, InviteFails, InviteAnswered, InviteChecksCancel,
     InviteSendsBye, InviteMarksEnded, InviteAnnounces
<1>7. CASE Setup \/ TimerTask
  BY <1>1, <1>7 DEF Setup, PlaceCall, RefuseInvite, AcceptInvite, RingIncoming, TimerTask,
     TimerLeaves, TimerExpires, TimerRefreshes, StartHangup
<1>8. ASSUME NEW c \in Apps, AppCalls(c) PROVE chan' = chan
  BY <1>8 DEF AppCalls, Answer, Reject, Hangup, StartHangup, Cancel, Refer, Modify
<1>9. ASSUME NEW c \in Callers, CallerSteps(c) PROVE chan' = chan \/ NoEarly(chan')
  BY <1>9, <1>e DEF CallerSteps, AnswerAccept, AnswerDone, Lookup, Reject1, Reject2, Reject3,
     Reject4, Reject5, Bye1, Bye2, Cancel1, Cancel2, Cancel3, Cancel4, ReinviteCheck,
     ReinviteSet, ReinviteReturns, ReinviteApply, ReferFails, ReferAccepted
<1> QED  BY <1>1, <1>3, <1>4, <1>5, <1>6, <1>7, <1>8, <1>9 DEF Next

----------------------------------------------------------------------------
(* The invariant AnswerInv and the theorems that rest on it.               *)

\* What the answer and the re-INVITE steps require, and the one place they fill.
LEMMA CallerGuards ==
    ASSUME TypeOK, NEW c \in Callers
    PROVE  /\ Answer(c) => /\ direction = "Inbound" /\ sess.state = "Ringing"
                           /\ op[c].pc = "idle" /\ sess'.state = "Active"
                           /\ invite' = invite /\ c \in Apps
                           /\ \A d \in Callers : d # c => op'[d] = op[d]
           /\ AnswerAccept(c) => op[c].pc = "answer2"
           /\ AnswerDone(c) => /\ op[c].pc = "answer3" /\ op'[c].pc \in {"idle", "sleep"}
                               /\ sess' = sess /\ invite' = invite
           /\ ReinviteSet(c) => op[c].pc = "ri_set" /\ op'[c].pc = "ri_wait"
           /\ ReinviteReturns(c) => op[c].pc = "ri_wait" /\ ~sess'.reinvite_pending
           /\ ReinviteApply(c) => op[c].pc = "ri_ok"
<1> USE DEF TypeOK
<1>1. Answer(c) => sess'.state = "Active"  BY DEF Answer, Session
<1>2. AnswerDone(c) => op'[c].pc \in {"idle", "sleep"}  BY IdleType DEF AnswerDone, Caller
<1>3. ReinviteSet(c) => op'[c].pc = "ri_wait"  BY DEF ReinviteSet, Caller
<1>4. ReinviteReturns(c) => ~sess'.reinvite_pending  BY DEF ReinviteReturns, ClearPending,
   Session
<1> QED
  BY <1>1, <1>2, <1>3, <1>4
  DEF Answer, AnswerAccept, AnswerDone, ReinviteSet, ReinviteReturns, ReinviteApply

\* Every step keeps AnswerInv: no hold, re-INVITE or timer task before the one answer.
LEMMA AnswerStep == ASSUME TypeOK, AnswerInv, Next PROVE AnswerInv'
<1>1. /\ direction \in {"Inbound", "Outbound"} /\ direction' = direction
      /\ "timer" \in Callers
  BY InviteSteps DEF TypeOK, Callers
\* A caller that is answering after the step was so before, or answers now.
<1>2. \A c \in Callers : op'[c].pc \in {"answer2", "answer3"} => c \in Answering \/ Answer(c)
  BY PcSteps, CallerGuards DEF Enters, Watched, Answering
\* An inbound call in Ringing has been announced: nobody answers it earlier.
<1>3. \A c \in Callers : Answer(c) => /\ direction = "Inbound" /\ invite = "done"
                                      /\ Unanswered /\ ~Unanswered'
  <2> SUFFICES ASSUME NEW c \in Callers, Answer(c)
               PROVE  direction = "Inbound" /\ invite = "done" /\ Unanswered /\ ~Unanswered'
    OBVIOUS
  <2>1. /\ direction = "Inbound" /\ sess.state = "Ringing" /\ sess'.state = "Active"
        /\ invite' = invite
    BY CallerGuards
  <2> QED  BY <1>1, <2>1 DEF AnswerInv, Unanswered
<1>4. direction = "Inbound" => NoEarly(chan) /\ ~OnEarly /\ NoEarly(chan')
  <2>1. direction = "Inbound" => NoEarly(chan)  BY DEF AnswerInv, NoEarly
  <2>2. PeerProvisional => direction = "Outbound"  BY DEF PeerProvisional
  <2> QED  BY <2>1, <2>2, ChanSteps
<1>5. direction = "Inbound" =>
         /\ invite' \in {"start", "refused", "ringing", "done"}
         /\ invite' # "done" => invite # "done" /\ sess'.state \in {"Trying", "Ended"}
  <2> SUFFICES ASSUME direction = "Inbound"
               PROVE  /\ invite' \in {"start", "refused", "ringing", "done"}
                      /\ invite' # "done" => invite # "done" /\ sess'.state \in {"Trying", "Ended"}
    OBVIOUS
  <2>1. /\ invite \in {"start", "refused", "ringing", "done"}
        /\ invite # "done" => sess.state \in {"Trying", "Ended"}
    BY DEF AnswerInv
  <2>2. /\ invite' \in {"start", "refused", "ringing", "done"}
        /\ invite' # "done" => invite # "done"
    BY <2>1, InviteSteps
  <2>3. ASSUME invite' # "done" PROVE sess'.state \in {"Trying", "Ended"}
    <3>1. invite # "done" /\ sess.state \in {"Trying", "Ended"}  BY <2>1, <2>2, <2>3
    <3>2. CASE Setup
      <4>1. sess' = sess \/ sess'.state = "Trying"
        BY <2>3, <3>2, AcceptedSession DEF Setup, PlaceCall, RefuseInvite, RingIncoming
      <4> QED  BY <3>1, <4>1
    <3>3. CASE ~Setup
      <4>1. sess.state \notin Established /\ \A c \in Callers : op[c].pc # "ri_ok"
        BY <1>1, <3>1 DEF AnswerInv, Unanswered
      <4>2. ~InviteAnswered /\ \A c \in Callers : ~Answer(c) /\ ~ReinviteApply(c)
        BY <1>3, <2>1, <3>1, <4>1, InviteSteps, CallerGuards
      <4>3. sess'.state \notin Established  BY <4>1, <4>2, SessionSteps
      <4>4. sess'.state \in PreAnswer => sess'.state = sess.state
        BY <1>4, <3>3, SessionSteps
      <4>5. sess'.state \in PreAnswer \union Established \union {"Ended"}
        <5>1. TypeOK'  BY TypeStep
        <5> QED  BY <5>1 DEF TypeOK, Session
      <4> QED  BY <3>1, <4>3, <4>4, <4>5
    <3> QED  BY <3>2, <3>3
  <2> QED  BY <2>2, <2>3
<1>6. direction = "Outbound" => invite' # "ringing"
  BY <1>1, InviteSteps DEF AnswerInv
<1>7. Unanswered' => Unanswered
  <2>1. CASE direction = "Outbound"
    BY <1>1, <2>1, InviteSteps DEF Unanswered, AnswerInv
  <2>2. CASE direction = "Inbound"
    <3>1. CASE invite' # "done"
      BY <1>5, <2>2, <3>1 DEF Unanswered
    <3>2. CASE invite' = "done" /\ sess'.state \in {"Trying", "Ringing"}
      <4>1. CASE Setup  BY <1>1, <2>2, <4>1, InviteSteps DEF Unanswered
      <4>2. CASE ~Setup
        <5>1. sess'.state = sess.state
          BY <1>4, <2>2, <3>2, <4>2, SessionSteps DEF PreAnswer
        <5> QED  BY <2>2, <3>2, <5>1 DEF Unanswered
      <4> QED  BY <4>1, <4>2
    <3> QED  BY <1>1, <2>2, <3>1, <3>2 DEF Unanswered
  <2> QED  BY <1>1, <2>1, <2>2
<1>8. Unanswered' =>
         /\ sess'.state \notin Established /\ ~sess'.local_hold
         /\ \A c \in Callers :
              op'[c].pc \notin {"answer2", "answer3", "ri_set", "ri_wait", "ri_ok"}
  <2> SUFFICES ASSUME Unanswered'
               PROVE  /\ sess'.state \notin Established /\ ~sess'.local_hold
                      /\ \A c \in Callers :
                           op'[c].pc \notin {"answer2", "answer3", "ri_set", "ri_wait", "ri_ok"}
    OBVIOUS
  <2>1. /\ sess.state \notin Established /\ ~sess.local_hold
        /\ \A c \in Callers :
             op[c].pc \notin {"answer2", "answer3", "ri_set", "ri_wait", "ri_ok"}
    BY <1>7 DEF AnswerInv
  <2>2. ~InviteAnswered
    BY <1>1, InviteSteps DEF AnswerInv, Unanswered
  <2>3. \A c \in Callers : ~Answer(c) /\ ~ReinviteApply(c)
    BY <1>3, <2>1, CallerGuards
  <2>4. \A c \in Callers :
          \/ op'[c].pc = op[c].pc
          \/ op'[c].pc \in {"reject2", "reject3", "reject4", "reject5"}
          \/ op'[c].pc \notin Watched
    BY <2>1, <2>3, PcSteps, CallerGuards DEF Enters
  <2> QED  BY <2>1, <2>2, <2>3, <2>4, SessionSteps DEF Watched
<1>9. \A c, d \in Answering' : c = d
  <2> SUFFICES ASSUME NEW c \in Answering', NEW d \in Answering', c # d PROVE FALSE
    OBVIOUS
  <2>1. c \in Callers /\ d \in Callers /\ op'[c].pc \in {"answer2", "answer3"}
        /\ op'[d].pc \in {"answer2", "answer3"}
    BY DEF Answering
  <2>2. c \in Answering \/ Answer(c)  BY <1>2, <2>1
  <2>3. d \in Answering \/ Answer(d)  BY <1>2, <2>1
  <2>4. Answer(c) \/ Answer(d)  BY <2>2, <2>3 DEF AnswerInv
  <2>5. Answering = {}  BY <1>3, <2>1, <2>4 DEF AnswerInv, Answering
  <2>6. Answer(c) /\ Answer(d)  BY <2>2, <2>3, <2>5
  <2> QED  BY <2>1, <2>6, CallerGuards
<1>10. direction = "Outbound" => Answering' = {}
  BY <1>1, <1>2, <1>3 DEF AnswerInv, Answering
<1>11. Unanswered' \/ Answering' # {} \/ invite' \in {"check", "announce"}
         => op'["timer"].pc = "idle"
  <2> SUFFICES ASSUME Unanswered' \/ Answering' # {} \/ invite' \in {"check", "announce"}
               PROVE  op'["timer"].pc = "idle"
    OBVIOUS
  <2>1. Unanswered \/ Answering # {} \/ invite \in {"check", "announce"}
    <3>1. Answering' # {} => Answering # {} \/ Unanswered
      BY <1>2, <1>3 DEF Answering
    <3>2. invite' \in {"check", "announce"} => Unanswered \/ invite \in {"check", "announce"}
      BY <1>1, <1>5, InviteSteps DEF Unanswered, AnswerInv
    <3> QED  BY <1>7, <3>1, <3>2
  <2>2. op["timer"].pc = "idle"  BY <2>1 DEF AnswerInv
  <2>3. ~InviteAnnounces
    <3> SUFFICES ASSUME InviteAnnounces PROVE FALSE  OBVIOUS
    <3>1. invite = "announce" /\ invite' = "done"  BY InviteSteps
    <3>2. direction = "Outbound"  BY <1>1, <3>1 DEF AnswerInv
    <3> QED  BY <1>1, <1>10, <3>1, <3>2 DEF Unanswered
  <2>4. \A d \in Callers : ~AnswerDone(d)
    <3> SUFFICES ASSUME NEW d \in Callers, AnswerDone(d) PROVE FALSE  OBVIOUS
    <3>1. /\ op[d].pc = "answer3" /\ op'[d].pc \in {"idle", "sleep"}
          /\ sess' = sess /\ invite' = invite
      BY CallerGuards
    <3>2. d \in Answering  BY <3>1 DEF Answering
    <3>3. direction = "Inbound" /\ ~Unanswered
      BY <1>1, <3>1, <3>2 DEF AnswerInv, Answering
    <3>4. ~Unanswered'  BY <1>7, <3>3
    <3>5. invite' \notin {"check", "announce"}  BY <1>5, <3>3
    <3>6. PICK c \in Answering' : TRUE  BY <3>4, <3>5
    <3>7. c \in Callers /\ op'[c].pc \in {"answer2", "answer3"}  BY <3>6 DEF Answering
    <3>8. c \in Answering  BY <1>2, <1>3, <3>3, <3>7
    <3>9. c = d  BY <3>2, <3>8 DEF AnswerInv
    <3> QED  BY <3>1, <3>7, <3>9
  <2> QED  BY <1>1, <2>2, <2>3, <2>4, PcSteps DEF Starts
<1> QED
  <2>1. direction = "Inbound" => \A i \in DOMAIN chan' : chan'[i].type # "Early"
    BY <1>4 DEF NoEarly
  <2> QED
    BY <1>1, <1>5, <1>6, <1>8, <1>9, <1>10, <1>11, <2>1 DEF AnswerInv

\* The INVITE is answered: a body that holds the stream shows Hold at once.
LEMMA AnsweredHoldOK ==
    ASSUME InviteAnswered, sess \in Session, ~sess.local_hold, result.sdp \in Sdp, HoldOK(sess)
    PROVE  HoldOK(sess')
<1> DEFINE s == [sess EXCEPT !.state = "Active", !.client_dialog = TRUE, !.early = "None"]
<1>1. CASE UNCHANGED sess  BY <1>1
<1>2. CASE ~UNCHANGED sess
  <2>1. s \in Session /\ HoldOK(s)  BY DEF Session, Established, EarlyStates, HoldOK
  <2>2. ApplySdp(s, result.sdp) \in Session /\ HoldOK(ApplySdp(s, result.sdp))
    BY <2>1, ApplySdpType
  <2>3. PICK timer \in TimerUse :
          sess' = [ApplySdp(s, result.sdp) EXCEPT !.timer = IF timer THEN "active" ELSE "none"]
    BY <1>2 DEF InviteAnswered
  <2> HIDE DEF s
  <2> QED  BY <2>2, <2>3 DEF Session, HoldOK
<1> QED  BY <1>1, <1>2

\* A call is answered once, by one caller, and has at most one timer task; a
\* call that is not answered is neither held nor modified.
THEOREM AnswerInvariant == Spec => []AnswerInv
<1>1. Init => AnswerInv
  <2> SUFFICES ASSUME Init PROVE AnswerInv  OBVIOUS
  <2>1. /\ sess.state = "Trying" /\ ~sess.local_hold
        /\ \A c \in Callers : op[c].pc = "idle"
        /\ "timer" \in Callers
    BY NewSessionType, IdleType DEF Init, Callers
  <2>2. Answering = {}  BY <2>1 DEF Answering
  <2>3. DOMAIN chan = {}  BY DEF Init
  <2>4. invite = "start"  BY DEF Init
  <2> QED  BY <2>1, <2>2, <2>3, <2>4 DEF AnswerInv, Established
<1>2. TypeOK /\ AnswerInv /\ [Next]_vars => AnswerInv'
  <2>1. UNCHANGED vars /\ AnswerInv => AnswerInv'
    BY DEF AnswerInv, Answering, Unanswered, vars
  <2> QED  BY <2>1, AnswerStep
<1> QED  BY <1>1, <1>2, TypeCorrect, PTL DEF Spec

\* The state shown to the application agrees with the hold flags, whatever the
\* interleaving of hold, unhold, re-INVITEs of the far end and hangups.
THEOREM HoldMatchesFlagsHolds == Spec => []HoldMatchesFlags
<1>1. Init => HoldMatchesFlags
  BY NewSessionType DEF Init, HoldMatchesFlags
<1>2. TypeOK /\ AnswerInv /\ HoldMatchesFlags /\ [Next]_vars => HoldMatchesFlags'
  <2> SUFFICES ASSUME TypeOK, AnswerInv, HoldMatchesFlags, [Next]_vars PROVE HoldMatchesFlags'
    OBVIOUS
  <2>1. HoldOK(sess)  BY DEF HoldMatchesFlags, HoldOK
  <2>2. CASE UNCHANGED vars  BY <2>2 DEF HoldMatchesFlags, vars
  <2>3. CASE Next
    <3>1. CASE InviteAnswered
      <4>1. Unanswered
        BY <2>3, <3>1, InviteSteps DEF AnswerInv, Unanswered, TypeOK
      <4>2. ~sess.local_hold /\ sess \in Session  BY <4>1 DEF AnswerInv, TypeOK
      <4>3. result.sdp \in Sdp  BY <3>1 DEF TypeOK, InviteAnswered, Response, NoResult, Sdp
      <4> QED  BY <2>1, <3>1, <4>2, <4>3, AnsweredHoldOK DEF HoldMatchesFlags, HoldOK
    <3>2. ASSUME NEW c \in Callers, Answer(c) PROVE HoldOK(sess')
      <4>1. ~sess.local_hold /\ sess \in Session
        BY <3>2, CallerGuards DEF AnswerInv, Unanswered, TypeOK
      <4> QED  BY <3>2, <4>1 DEF Answer, HoldOK, Session
    <3>3. HoldOK(sess')
      BY <2>1, <2>3, <3>1, <3>2, SessionSteps DEF HoldMatchesFlags, HoldOK
    <3> QED  BY <3>3 DEF HoldMatchesFlags, HoldOK
  <2> QED  BY <2>2, <2>3
<1> QED  BY <1>1, <1>2, TypeCorrect, AnswerInvariant, PTL DEF Spec

\* The glare flag is never left set: whoever waits for a re-INVITE clears it on
\* every way out, and nobody else can take the waiting task away.
THEOREM NoStuckReinviteHolds == Spec => []NoStuckReinvite
<1>1. Init => NoStuckReinvite
  BY NewSessionType DEF Init, NoStuckReinvite
<1>2. TypeOK /\ AnswerInv /\ NoStuckReinvite /\ [Next]_vars => NoStuckReinvite'
  <2> SUFFICES ASSUME TypeOK, AnswerInv, NoStuckReinvite, [Next]_vars, sess'.reinvite_pending
               PROVE  \E c \in Callers : op'[c].pc = "ri_wait"
    BY DEF NoStuckReinvite
  <2>1. CASE UNCHANGED vars  BY <2>1 DEF NoStuckReinvite, vars
  <2>2. CASE Next
    <3>1. CASE \E c \in Callers : ReinviteSet(c)  BY <3>1, CallerGuards
    <3>2. CASE ~(\E c \in Callers : ReinviteSet(c))
      <4>1. sess.reinvite_pending  BY <2>2, <3>2, SessionSteps
      <4>2. PICK c \in Callers : op[c].pc = "ri_wait"  BY <4>1 DEF NoStuckReinvite
      <4>3. ~ReinviteReturns(c)  BY CallerGuards
      <4>4. c = "timer" => ~Starts
        <5> SUFFICES ASSUME c = "timer", Starts PROVE FALSE  OBVIOUS
        <5>1. invite = "announce" \/ Answering # {}
          BY <2>2, InviteSteps, CallerGuards DEF Starts, Answering
        <5> QED  BY <4>2, <5>1 DEF AnswerInv
      <4> QED  BY <2>2, <4>2, <4>3, <4>4, PcSteps
    <3> QED  BY <3>1, <3>2
  <2> QED  BY <2>1, <2>2
<1> QED  BY <1>1, <1>2, TypeCorrect, AnswerInvariant, PTL DEF Spec
============================================================================

------------------------------- MODULE SipDtmf -------------------------------
(***************************************************************************)
(* Digits in a call (sip/engine.rs, rtp/engine.rs): threads that send a    *)
(* string of them, over RTP or by INFO, threads that ask for the digits    *)
(* the media loop has detected, and the far end's INFO.  Two locks meet    *)
(* here: the session's, and the one around the queue of detected digits.   *)
(* A digit is "digit", "pause" (w, W) or "bad".                            *)
(***************************************************************************)
EXTENDS Integers, SequencesExt

CONSTANTS
    DigitThreads,  \* threads of the application
    Strings,       \* strings of digits that are sent
    Durations,     \* durations they are sent with, in ms
    Bodies,        \* bodies of the far end's INFO
    DtmfQueue,     \* capacity of the queue of detected digits (32)
    MaxDetected,   \* bound: digits detected (TLC)
    MaxAsked       \* bound: calls that ask for digits (TLC)

ASSUME SipDtmfAssumption == DtmfQueue \in Nat \ {0} /\ MaxDetected \in Nat /\ MaxAsked \in Nat

VARIABLES
    phone,     \* of the session: state, dtmf_mode, remote_telephone_event_pt, whether it has a dialog
    user,      \* what each thread is doing; it holds the session's lock while "trying"
    digits,    \* the queue of detected digits, and how many were detected
    asked,     \* calls that asked for digits (bounds the model)
    info       \* what was told by INFO last, by either end

sipDtmfVars == <<phone, user, digits, asked, info>>

Modes == {"Auto", "Rfc2833", "Info"}
NotSending == [at |-> "idle", left |-> <<>>, duration |-> 0]

SipDtmfInit ==
    /\ \E dialog, pt \in BOOLEAN :
          phone = [active |-> TRUE, mode |-> "Auto", event_pt |-> pt, dialog |-> dialog]
    /\ user = [t \in DigitThreads |-> NotSending]
    /\ digits = [queue |-> <<>>, detected |-> 0] /\ asked = 0
    /\ info = [digit |-> {}, duration |-> {}]

SessionFree == \A t \in DigitThreads : user[t].at # "trying"
QueueFree == \A t \in DigitThreads : user[t].at # "waiting"
Enters(t, where) == user' = [user EXCEPT ![t].at = where]
Done(t) == user' = [user EXCEPT ![t] = NotSending]

----------------------------------------------------------------------------
(* The session.                                                            *)

EffectiveDtmfMode ==
    IF phone.mode # "Auto" THEN phone.mode ELSE IF phone.event_pt THEN "Rfc2833" ELSE "Info"

SetDtmfMode == \E mode \in Modes :
    /\ SessionFree /\ phone' = [phone EXCEPT !.mode = mode]
    /\ UNCHANGED <<user, digits, asked, info>>

\* A description of the far end: an answer or a re-INVITE.
UpdateDtmfFromSdp == \E pt \in BOOLEAN :
    /\ SessionFree /\ phone.active /\ phone' = [phone EXCEPT !.event_pt = pt]
    /\ UNCHANGED <<user, digits, asked, info>>

\* External: the call ends; the session stays for whoever has cloned it.
CallEnds ==
    /\ SessionFree /\ phone.active /\ phone' = [phone EXCEPT !.active = FALSE]
    /\ UNCHANGED <<user, digits, asked, info>>

----------------------------------------------------------------------------
(* Sending.                                                                *)

ClampDuration(duration) == IF duration < 100 THEN 100 ELSE IF duration > 5000 THEN 5000 ELSE duration

\* send_dtmf_digits: the mode is read once, for the whole string.
SendDtmfDigits(t) == \E string \in Strings, duration \in Durations :
    /\ user[t] = NotSending /\ SessionFree /\ phone.active
    /\ user' = [user EXCEPT ![t] = [at |-> EffectiveDtmfMode, left |-> string, duration |-> duration]]
    /\ UNCHANGED <<phone, digits, asked, info>>

\* send_dtmf_string: a digit at a time, with no look at the call; a digit that RTP does
\* not know, or a socket that fails, ends it.
SendDtmfString(t) ==
    /\ user[t].at = "Rfc2833"
    /\ \/ /\ user[t].left # <<>> /\ Head(user[t].left) = "digit"
          /\ user' = [user EXCEPT ![t].left = Tail(@)]
       \/ Done(t)
    /\ UNCHANGED <<phone, digits, asked, info>>

\* send_dtmf_info: a pause is slept, anything else needs a digit, an active call and a
\* dialog, or ends the string.
SendDtmfInfo(t) == LET sender == user[t] IN
    /\ sender.at = "Info" /\ sender.left # <<>> /\ SessionFree
    /\ IF Head(sender.left) = "pause"
       THEN user' = [user EXCEPT ![t].left = Tail(@)] /\ UNCHANGED info
       ELSE IF Head(sender.left) = "bad" \/ ~phone.active \/ ~phone.dialog
       THEN Done(t) /\ UNCHANGED info
       ELSE /\ Enters(t, "asking")
            /\ info' = [digit |-> {Head(sender.left)}, duration |-> {ClampDuration(sender.duration)}]
    /\ UNCHANGED <<phone, digits, asked>>

InfoAnswered(t) ==
    /\ user[t].at = "asking"
    /\ \/ user' = [user EXCEPT ![t] = [@ EXCEPT !.at = "Info", !.left = Tail(@)]]
       \/ Done(t)
    /\ UNCHANGED <<phone, digits, asked, info>>

StringSent(t) ==
    /\ user[t].at = "Info" /\ user[t].left = <<>> /\ Done(t)
    /\ UNCHANGED <<phone, digits, asked, info>>

----------------------------------------------------------------------------
(* Receiving.                                                              *)

\* The media loop: a digit that finds the queue full is lost.
DigitDetected ==
    /\ digits.detected < MaxDetected
    /\ digits' = [queue |-> IF Len(digits.queue) < DtmfQueue THEN Append(digits.queue, digits.detected + 1)
                            ELSE digits.queue,
                  detected |-> digits.detected + 1]
    /\ UNCHANGED <<phone, user, asked, info>>

\* recv_dtmf: the session stays locked until the queue has been looked at.
RecvDtmf(t) ==
    /\ user[t] = NotSending /\ asked < MaxAsked /\ SessionFree
    /\ asked' = asked + 1 /\ Enters(t, "trying")
    /\ UNCHANGED <<phone, digits, info>>

Popped == digits' = [digits EXCEPT !.queue = IF @ = <<>> THEN @ ELSE Tail(@)]

RecvDtmfTry(t) ==
    /\ user[t].at = "trying" /\ QueueFree
    /\ Popped /\ Done(t)
    /\ UNCHANGED <<phone, asked, info>>

\* recv_dtmf_blocking: the session is only looked at (Bug #18); the queue's lock is
\* kept while the thread waits.
RecvDtmfBlocking(t) ==
    /\ user[t] = NotSending /\ asked < MaxAsked /\ SessionFree
    /\ asked' = asked + 1 /\ Enters(t, "locking")
    /\ UNCHANGED <<phone, digits, info>>

FirstLook(t) ==
    /\ user[t].at = "locking" /\ QueueFree
    /\ IF digits.queue # <<>> THEN Popped /\ Done(t)
       ELSE Enters(t, "waiting") /\ UNCHANGED digits
    /\ UNCHANGED <<phone, asked, info>>

\* A bug that would pass the tests: only a digit ends the wait.
MutantWaitOver(t) ==
    /\ user[t].at = "waiting" /\ digits.queue # <<>> /\ Popped /\ Done(t)
    /\ UNCHANGED <<phone, asked, info>>

\* A digit, or the timeout.
WaitOver(t) ==
    /\ user[t].at = "waiting" /\ Popped /\ Done(t)
    /\ UNCHANGED <<phone, asked, info>>

\* parse_dtmf_relay: one digit alone, or lines of which the last good signal and the
\* last good duration count; a bad line holds nothing.
ReadRelay(told, line) ==
    IF line.holds = {} THEN told
    ELSE IF line.name = "signal" THEN [told EXCEPT !.digit = line.holds]
    ELSE [told EXCEPT !.duration = {ClampDuration(d) : d \in line.holds}]
ParseDtmfRelay(body) == FoldLeft(ReadRelay, [digit |-> {}, duration |-> {250}], body)

\* An INFO of the far end whose content type names DTMF: told when it has a digit.
InfoArrives == \E body \in Bodies :
    LET told == ParseDtmfRelay(body) IN
    /\ phone.active /\ told.digit # {}
    /\ info' = told
    /\ UNCHANGED <<phone, user, digits, asked>>

DigitWork(t) == RecvDtmfTry(t) \/ FirstLook(t) \/ WaitOver(t)
SipDtmfNext ==
    \/ SetDtmfMode \/ UpdateDtmfFromSdp \/ CallEnds \/ DigitDetected \/ InfoArrives
    \/ \E t \in DigitThreads :
          \/ SendDtmfDigits(t) \/ SendDtmfString(t) \/ SendDtmfInfo(t) \/ InfoAnswered(t) \/ StringSent(t)
          \/ RecvDtmf(t) \/ RecvDtmfBlocking(t) \/ DigitWork(t)

\* A thread gets a lock that is free, and tokio's timeout ends a wait.
SipDtmfSpec == SipDtmfInit /\ [][SipDtmfNext]_sipDtmfVars
               /\ WF_sipDtmfVars(\E t \in DigitThreads : DigitWork(t))

----------------------------------------------------------------------------
(* Properties.                                                             *)

SipDtmfTypeOK ==
    /\ phone.mode \in Modes
    /\ Len(digits.queue) <= DtmfQueue /\ \A i \in DOMAIN digits.queue : digits.queue[i] <= digits.detected
    /\ info.duration \subseteq 100 .. 5000
    /\ Cardinality({t \in DigitThreads : user[t].at = "trying"}) <= 1

\* Whoever asks for digits returns: recv_dtmf keeps the session locked while
\* another thread sits on the queue in recv_dtmf_blocking, and with it the signalling
\* of the call, but not for good.
DigitWaitsEnd == \A t \in DigitThreads :
    user[t].at \in {"trying", "locking", "waiting"} ~> user[t].at = "idle"
=============================================================================

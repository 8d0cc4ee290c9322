----------------------------- MODULE CallStates -----------------------------
(***************************************************************************)
(* The unified call state machine of session/state.rs, which the session   *)
(* manager and the SIP engine share: the states of a call, the predicates  *)
(* on them, and the transition table of StateValidator.  The session       *)
(* manager consults the table; the SIP engine assigns states directly.     *)
(***************************************************************************)

\* States before the call is answered.
PreAnswer == {"Trying", "Ringing", "EarlyMedia"}

\* An answered call: media flows or is held.
Established == {"Active", "Hold"}

\* CallState::is_terminal
Terminal == {"Terminated", "Ended", "Failed"}

CallState ==
    {"Initializing", "Calling", "Answered", "Terminating"}
        \union PreAnswer \union Established \union Terminal

\* Ways a call that got as far as an INVITE can finish.
LOCAL Ending == {"Terminating", "Terminated", "Ended", "Failed"}

\* StateValidator::can_transition, grouped by the state that is left.
Successors ==
    [s \in CallState |->
       CASE s = "Initializing" -> {"Calling", "Trying", "Ringing", "Failed", "Ended"}
         [] s = "Calling"      -> {"Ringing", "EarlyMedia", "Answered"} \union Ending
         [] s = "Trying"       -> {"Ringing", "EarlyMedia", "Answered", "Active"} \union Ending
         [] s = "Ringing"      -> {"EarlyMedia", "Answered", "Active"} \union Ending
         [] s = "EarlyMedia"   -> {"Ringing", "Answered", "Active"} \union Ending
         [] s = "Answered"     -> {"Active"} \union Ending
         [] s = "Active"       -> {"Hold"} \union Ending
         [] s = "Hold"         -> {"Active"} \union Ending
         [] s = "Terminating"  -> Terminal
         [] s = "Failed"       -> {"Terminated", "Ended"}
         [] OTHER              -> {}]

can_transition(from, to) == to \in Successors[from]
=============================================================================

------------------------------ MODULE CallLife ------------------------------
(***************************************************************************)
(* What a call promises to whoever holds something for it: it is listed    *)
(* once and leaves the list for good; its media run at most once; its port *)
(* comes back, and never while the media run; and a call that has left is  *)
(* at rest and has given everything back, and its end has been reported or *)
(* whoever took it off the list still owes the report.                     *)
(***************************************************************************)

VARIABLES
    life,      \* is it in the list of calls?
    media,     \* its media engine
    returned,  \* is its port back?
    told       \* is the application told that it is over: "no", "owed", "yes"?

lifeVars == <<life, media, returned, told>>

Init == life = "new" /\ media = "none" /\ ~returned /\ told = "no"

Begin ==
    /\ life = "new" /\ life' = "listed" /\ media' \in {"none", "up"}
    /\ UNCHANGED <<returned, told>>

Refuse ==
    /\ life = "new" /\ life' = "refused"
    /\ UNCHANGED <<media, returned, told>>

AtRest == media # "up" /\ (media = "stopped" => returned) /\ told # "no"

\* A report that is owed is made, and none is taken back.
Later == [no |-> {"no", "owed", "yes"}, owed |-> {"owed", "yes"}, yes |-> {"yes"}]

\* A step towards the end, or several at once; none is taken back.
WindDown ==
    /\ life \in {"listed", "gone"} /\ life' \in {life, "gone"}
    /\ media' = media \/ (media = "up" /\ media' = "stopped")
    /\ (returned => returned') /\ (returned' => media' = "stopped")
    /\ told' \in Later[told]
    /\ life' = "gone" => AtRest'

Next == Begin \/ Refuse \/ WindDown

Spec == Init /\ [][Next]_lifeVars
=============================================================================

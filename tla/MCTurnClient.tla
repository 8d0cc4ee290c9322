---------------------------- MODULE MCTurnClient ----------------------------
(* The TURN client with its real proportions, 40 s to the unit: a lifetime *)
(* of 600 s, permissions of 300 s and channels of 600 s, each refreshed    *)
(* after 80%.                                                              *)
EXTENDS TurnClient

MCItemLife == [perm |-> 7, bind |-> 15]
MCItemRefreshAt == [perm |-> 6, bind |-> 12]
=============================================================================

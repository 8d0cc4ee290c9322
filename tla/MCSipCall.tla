----------------------------- MODULE MCSipCall -----------------------------
(***************************************************************************)
(* Small instances of SipCall for TLC: the configurations choose the       *)
(* direction of the call, the API calls, the SDP bodies and the failures   *)
(* to consider.  Application threads are interchangeable in safety runs.   *)
(***************************************************************************)
EXTENDS SipCall, TLC

AppSymmetry == Permutations(Apps)
============================================================================

--------------------------- MODULE MCRtpPortPool ---------------------------
(* Instances of RtpPortPool with a handful of ports. *)
EXTENDS RtpPortPool, TLC

CallSymmetry == Permutations(Calls)
============================================================================

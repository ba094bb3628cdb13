---------------------------- MODULE MCXdpService ----------------------------
(* The instance of XdpService that TLC checks. *)
EXTENDS XdpService, TLC

Symmetry == Permutations(Requests) \cup Permutations(IPs)
=============================================================================

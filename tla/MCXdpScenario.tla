---------------------------- MODULE MCXdpScenario ---------------------------
(* The instance of XdpScenario that TLC checks. *)
EXTENDS XdpScenario, TLC

Symmetry == Permutations(Requests)
=============================================================================

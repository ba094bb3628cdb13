--------------------------- MODULE MCXdpVariants ----------------------------
(* Instances of XdpVariants for TLC. *)
EXTENDS XdpVariants, TLC

Symmetry == Permutations(Requests) \cup Permutations(IPs) \cup Permutations(Names)

Worlds(servers, restarts, churns) ==
  [server : servers, restarts : restarts, churn : churns]

\* statsops is restarted only where its promises are shown to break.  Interfaces
\* go and come for the two servers that do not lock their requests out.
Sound == Worlds({"gpffh20", "Joseng8908"}, {TRUE}, {FALSE})
           \cup Worlds({"Joseng8908", "statsops"}, {FALSE}, {TRUE})
           \cup Worlds({"statsops"}, {FALSE}, {FALSE})

StatsopsRestarted == Worlds({"statsops"}, {TRUE}, {FALSE})
=============================================================================

---------------------------- MODULE MCVethServer ----------------------------
(* Instances of VethServer for TLC. *)
EXTENDS VethCheck, TLC

Symmetry == Permutations(Requests) \cup Permutations(Hosts) \cup Permutations(Named)

Worlds(servers, clients, fails) ==
  [server : servers, clients : {clients}, mayFail : {fails}]

\* Left out: a clean-up that itself fails; yeomin4242's lookups, whose failure
\* comes before its clean-up is in force; lo, whose failure two servers ignore.
Sound ==
       Worlds({"WAFriend3416", "gpffh20"}, "any", Failures \ {"delete"})
  \cup Worlds({"yeomin4242"}, "any", Failures \ {"delete", "find"})
  \cup Worlds({"saguanamu"}, "serial", Failures)
  \cup Worlds({"statsops", "lnaura"}, "serial", Failures \ {"lo"})
  \cup Worlds({"khsAlt"}, "any", {})
  \cup Worlds({"Joseng8908"}, "polite", {})

\* Where the checker runs beside the server: one that replaces pairs that are in
\* its way, and one whose clients delete pairs from outside.
CheckedWorlds == Worlds({"saguanamu"}, "serial", {}) \cup Worlds({"khsAlt"}, "polite", {})
SoundAndChecked == Sound \cup CheckedWorlds

\* No failure and no concurrency, but a second interface of the same name in the
\* same namespace.
JosengSameName == Worlds({"Joseng8908"}, "serial", {})
=============================================================================

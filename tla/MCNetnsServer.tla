--------------------------- MODULE MCNetnsServer ---------------------------
(* Instances of NetnsServer for TLC. *)
EXTENDS NetnsServer, TLC

Symmetry == Permutations(Requests) \cup Permutations(Names)
              \cup Permutations(Threads \ {Leader})

Worlds(servers, leader, alone, fails) ==
  [server : servers, leaderServes : leader, oneAtATime : alone, mayFail : fails]

CallsFail == {"unshare", "file", "mount", "start"}
OpensFail == CallsFail \cup {"fd"}

\* The environments in which the servers keep their promises.  netns.New of
\* statsops and yeomin4242 opens the new namespace before the deferred way home is
\* registered: an open that fails there leaves the thread abroad.
Sound ==
       Worlds({"WAFriend3416", "gpffh20"}, {TRUE}, {FALSE}, {OpensFail \cup {"kill"}})
  \cup Worlds({"statsops", "yeomin4242"}, {TRUE}, {FALSE}, {CallsFail \cup {"kill"}})
  \cup Worlds({"Joseng8908"}, {FALSE}, {FALSE}, {OpensFail})
  \cup Worlds({"lnaura"}, {FALSE}, {TRUE}, {OpensFail \cup {"setns"}})
  \cup Worlds(DOMAIN RunScript \ {"WAFriend34161", "khsAlt1"},
              {TRUE}, {FALSE}, {{"start"}})
  \cup Worlds({"WAFriend34161"}, {FALSE}, {FALSE}, {CallsFail \cup {"fd", "setns"}})
  \cup Worlds({"khsAlt1"}, {FALSE}, {FALSE}, {{"fd", "unshare"}})

\* The other servers and the failures Sound leaves out: whatever namespaces the
\* threads end up in, nobody waits for ever.
Troubled ==
       Worlds({"saguanamu"}, {FALSE}, {FALSE}, {{"fd"}})
  \cup Worlds({"khsAlt"}, {FALSE}, {FALSE}, {{"mount"}})
  \cup Worlds({"gpffh20"}, {FALSE}, {FALSE}, {{"setns"}})
  \cup Worlds({"yeomin4242"}, {FALSE}, {TRUE}, {{"setns"}})
  \cup Worlds({"Joseng8908"}, {FALSE}, {FALSE}, {{"mount", "fd"}})
  \cup Worlds({"gpffh201", "Joseng89081", "yoooooungwoon"}, {TRUE}, {FALSE}, {{"start"}})

\* Worlds of one server each in which a promise is broken.
JosengOnLeader == Worlds({"Joseng8908"}, {TRUE}, {TRUE}, {{}})
SaguanamuAlone == Worlds({"saguanamu"}, {FALSE}, {TRUE}, {{}})
=============================================================================

---------------------------- MODULE VethScripts -----------------------------
(***************************************************************************)
(* What the week 2 servers do to make a veth pair with one end in the      *)
(* host's network namespace and the other in a named one: the netlink      *)
(* requests of each submission's function in their order, each with what   *)
(* its error return undoes.  VethServer gives the requests their meaning.  *)
(*                                                                         *)
(* Two disciplines: three submissions refuse names that are taken and      *)
(* delete the pair when a later step fails; three delete whatever bears    *)
(* the names first and leave what a failed step leaves.  khs-alt and       *)
(* Joseng8908 do neither.                                                  *)
(***************************************************************************)
EXTENDS Scripts

-----------------------------------------------------------------------------
(* Refuse and clean up *)

\* defect: the deferred cleanup is registered before the pair is added.
VethEarlyCleanup ==
  All(<<"parse", "parse", "openNs", "hostAbsent", "tmpAbsent", "peerAbsent">>, << >>)
  \o All(<<"add", "findHost", "findTmp", "move", "hostAddr", "hostUp",
           "nsFindTmp", "rename", "nsFindPeer", "peerAddr", "peerUp", "loUp">>,
         <<"delHost">>)
\* That withNamedNetNS puts the thread back is taken to succeed.  Where it does not,
\* the request fails with everything configured, and its clean-up may run on the
\* thread left in the named namespace, where it finds no host_ifname to delete.
VethWAFriend3416 ==
  All(<<"parse", "parse", "openNs", "hostAbsent", "tmpAbsent", "peerAbsent", "add">>,
      << >>)
  \o All(<<"findHost", "findTmp", "move", "hostAddr", "hostUp",
           "nsFindTmp", "rename", "nsFindPeer", "peerAddr", "peerUp", "loUp">>,
         <<"delHost">>)

\* defect: the host's end is not set up.
VethHostDown ==
  <<Try("add", << >>)>>
  \o All(<<"findTmp", "openNs", "move", "findHost", "parse", "hostAddr",
           "openNs", "nsFindTmp", "rename", "nsFindPeer", "parse",
           "peerAddr", "peerUp", "loUp">>, <<"delHost">>)
VethGpffh20 ==
  <<Try("add", << >>)>>
  \o All(<<"findTmp", "openNs", "move", "findHost", "parse", "hostAddr", "hostUp",
           "openNs", "nsFindTmp", "rename", "nsFindPeer", "parse",
           "peerAddr", "peerUp", "loUp">>, <<"delHost">>)

\* defect: vethCreated is reset before the named end is configured.
VethForgetsEarly ==
  All(<<"openNs", "hostAbsent", "peerAbsent", "tmpAbsent", "nsTmpAbsent",
        "add", "findHost", "findTmp">>, << >>)
  \o All(<<"move", "parse", "hostAddr", "hostUp">>, <<"delHost">>)
  \o All(<<"nsFindTmp", "rename", "nsFindPeer", "parse", "peerAddr", "peerUp", "loUp">>,
         << >>)
\* The two lookups of addVethPair precede the registration of the clean-up.
VethYeomin4242 ==
  All(<<"openNs", "hostAbsent", "peerAbsent", "tmpAbsent", "nsTmpAbsent",
        "add", "findHost", "findTmp">>, << >>)
  \o All(<<"move", "parse", "hostAddr", "hostUp",
           "nsFindTmp", "rename", "nsFindPeer", "parse", "peerAddr", "peerUp", "loUp">>,
         <<"delHost">>)

-----------------------------------------------------------------------------
(* Delete first *)

\* defect: the old host link is not deleted.
VethKeepsOldHost ==
  All(<<"openNs", "delPeer", "delTmp", "add", "findHost", "findTmp",
        "move", "parse", "hostAddr", "hostUp", "nsFindTmp", "delPeer", "rename",
        "nsFindPeer", "parse", "peerAddr", "peerUp">>, << >>)
  \o <<Do("loUp")>>
VethStatsops ==
  All(<<"openNs", "delHost", "delPeer", "delTmp", "add", "findHost", "findTmp",
        "move", "parse", "hostAddr", "hostUp", "nsFindTmp", "delPeer", "rename",
        "nsFindPeer", "parse", "peerAddr", "peerUp">>, << >>)
  \o <<Do("loUp")>>

VethSaguanamu ==
  All(<<"openNs", "delHost", "delPeer", "delTmp", "add", "findHost", "findTmp",
        "move", "parse", "hostAddr", "hostUp", "nsFindTmp", "delPeer", "rename",
        "nsFindPeer", "parse", "peerAddr", "peerUp", "loUp">>, << >>)

\* The peer is set down before it is renamed: a moved interface is down already, and
\* the failure of that call leaves what a failing rename leaves.
VethLnaura ==
  All(<<"parse", "parse", "openNs">>, << >>)
  \o <<Do("delHost"), Do("delPeer"), Do("delTmp")>>
  \o All(<<"add", "findTmp", "move", "findHost", "hostAddr", "hostUp", "nsFindTmp",
           "rename", "nsFindPeer", "peerAddr", "peerUp">>, << >>)
  \o <<Do("loUp")>>

-----------------------------------------------------------------------------
(* Neither *)

\* The peer is made in the named namespace, under its own name.
VethKhsAlt ==
  All(<<"openNs", "addInNs", "findHost", "parse", "hostAddr", "hostUp",
        "nsFindPeer", "parse", "peerAddr", "peerUp", "loUp">>, << >>)

\* The peer is made in the host's namespace under its own name; that the calls
\* on the host's end, the move and the last two failed is not looked at.  A peer
\* not found is a nil the next call panics on: net/http ends the request.  The setns
\* whose error is not looked at either is taken to succeed: after a failing one the
\* peer would be looked up, and set up, in the host's namespace.
VethJoseng8908 ==
  <<Try("addPeer", << >>), Try("openNs", << >>), Try("parse", << >>),
    Do("findHost"), Do("hostAddr"), Do("hostUp"),
    Try("findPeer", << >>), Do("move"), Try("openNs", << >>),
    Try("nsFindPeer", << >>), Try("parse", << >>), Try("peerAddr", << >>),
    Do("peerUp"), Do("loUp")>>

-----------------------------------------------------------------------------
Script ==
  [WAFriend3416 |-> VethWAFriend3416, gpffh20 |-> VethGpffh20,
   yeomin4242 |-> VethYeomin4242, statsops |-> VethStatsops,
   saguanamu |-> VethSaguanamu, lnaura |-> VethLnaura,
   khsAlt |-> VethKhsAlt, Joseng8908 |-> VethJoseng8908]

Servers == DOMAIN Script
CleansUp == {"WAFriend3416", "gpffh20", "yeomin4242"}
Replaces == {"statsops", "saguanamu", "lnaura"}
=============================================================================

----------------------------- MODULE VethCheck ------------------------------
(***************************************************************************)
(* The veth checker of 02-week/00-checker beside the servers it checks: a  *)
(* process that reads, one netlink request after another, what a pair      *)
(* should look like, while requests make and delete interfaces.  What it   *)
(* read first may be gone, or belong to another pair, when it reads last;  *)
(* it remembers interfaces by index and looks some of them up by name      *)
(* again.                                                                  *)
(*                                                                         *)
(* Every pair here has an end in the host's namespace, so an index tells   *)
(* the ends of pairs apart in either namespace.                            *)
(***************************************************************************)
EXTENDS VethServer

CONSTANT Watched    \* the members of Settings the checker runs in

ASSUME WatchedAssumption == Watched \subseteq Settings

VARIABLES
  stage,     \* what the checker reads next, or how its last check ended
  asked,     \* the pair it checks, or NoCall
  hostEnd,   \* hostLink: the end it read first
  peerEnd,   \* peerLink: the end it read second
  fine,      \* what was read so far is as it should be
  promised   \* history: an end of the pair an answer had promised at the start

checkVars == <<stage, asked, hostEnd, peerEnd, fine, promised>>
checkedVars == <<vars, checkVars>>

Reads == {"hostLink", "peerLink", "lo", "hostAddrs", "peerAddrs", "hostPeer", "peerPeer"}
Verdicts == {"none", "passed", "failed", "error"}

CheckTypeOK ==
  /\ stage \in Reads \cup Verdicts
  /\ asked \in Calls \cup {NoCall}
  /\ stage \in Reads <=> asked # NoCall
  /\ {hostEnd, peerEnd, promised} \subseteq Ends \cup {NoEnd}
  /\ seen = {hostEnd, peerEnd, promised} \ {NoEnd}
  /\ stage \in Verdicts => seen = {}
  /\ hostEnd = NoEnd <=> stage \in Verdicts \cup {"hostLink"}
  /\ peerEnd = NoEnd <=> stage \in Verdicts \cup {"hostLink", "peerLink"}
  /\ fine \in BOOLEAN

-----------------------------------------------------------------------------
\* The ends of c's pair, when an answer has promised it.
PromisedEnds(c) == Made(c) \cap given

StartCheck(c) ==
  /\ setting \in Watched /\ asked = NoCall
  /\ stage' = "hostLink" /\ asked' = c /\ fine' = TRUE
  /\ promised' = IF PromisedEnds(c) = {} THEN NoEnd ELSE CHOOSE e \in PromisedEnds(c) : TRUE
  /\ seen' = {promised'} \ {NoEnd}
  /\ UNCHANGED <<setting, link, loUp, calm, given, requestVars, hostEnd, peerEnd>>

\* The check is over; only its verdict is left.
Finish(verdict) ==
  /\ stage' = verdict
  /\ asked' = NoCall /\ hostEnd' = NoEnd /\ peerEnd' = NoEnd /\ promised' = NoEnd
  /\ fine' = TRUE /\ seen' = {}

\* One thing is read: h and p are the ends known by then.
Continue(next, h, p, good) ==
  /\ stage' = next
  /\ hostEnd' = h /\ peerEnd' = p
  /\ fine' = (fine /\ good)
  /\ seen' = {h, p, promised} \ {NoEnd}
  /\ UNCHANGED <<asked, promised>>

ServersIdle == UNCHANGED <<setting, link, loUp, calm, given, requestVars>>

\* LinkByName: the index and the flags, or an error that ends the check.
ReadHostLink ==
  /\ stage = "hostLink"
  /\ LET found == Found(Host, asked.host) IN
       \/ \E e \in found : Continue("peerLink", e, NoEnd, link[e].up)
       \/ found = {} /\ Finish("failed")
  /\ ServersIdle

\* defect: the error of the lookup is not looked at
ReadPeerLinkUnchecked ==
  /\ stage = "peerLink"
  /\ LET found == Found(asked.ns, asked.peer) IN
       \/ \E e \in found : Continue("lo", hostEnd, e, link[e].up)
       \/ found = {} /\ Continue("lo", hostEnd, NoEnd, TRUE)
  /\ ServersIdle
ReadPeerLink ==
  /\ stage = "peerLink"
  /\ LET found == Found(asked.ns, asked.peer) IN
       \/ \E e \in found : Continue("lo", hostEnd, e, link[e].up)
       \/ found = {} /\ Finish("failed")
  /\ ServersIdle

ReadLo ==
  /\ stage = "lo"
  /\ Continue("hostAddrs", hostEnd, peerEnd, asked.ns \in loUp)
  /\ ServersIdle

\* AddrList filters by index: an interface that is gone has no addresses.
HasAddress(e) == link[e] # NoLink /\ link[e].addr

ReadHostAddrs ==
  /\ stage = "hostAddrs"
  /\ Continue("peerAddrs", hostEnd, peerEnd, HasAddress(hostEnd))
  /\ ServersIdle

ReadPeerAddrs ==
  /\ stage = "peerAddrs"
  /\ Continue("hostPeer", hostEnd, peerEnd, HasAddress(peerEnd))
  /\ ServersIdle

OwnIndex(e, f) == e = f        \* defect: the interface's own index is taken
IndexIgnored(e, f) == TRUE     \* defect: the index is read and not compared
PairedWith(e, f) == OtherEnd(e) = f

\* VethPeerIndex asks by name again: the peer of whatever bears it by now.
ReadHostPeer ==
  /\ stage = "hostPeer"
  /\ LET found == Found(Host, asked.host) IN
       \/ \E e \in found : Continue("peerPeer", hostEnd, peerEnd, PairedWith(e, peerEnd))
       \/ found = {} /\ Finish("failed")
  /\ ServersIdle

\* The last thing read, after which validateVethCheckState compares and main prints:
\* neither looks at the system again, so the verdict is of the moment of this read.
ReadPeerPeer ==
  /\ stage = "peerPeer"
  /\ LET found == Found(asked.ns, asked.peer) IN
       \/ \E e \in found :
            Finish(IF fine /\ PairedWith(e, hostEnd) THEN "passed" ELSE "failed")
       \/ found = {} /\ Finish("failed")
  /\ ServersIdle

\* A handle cannot be opened, a namespace not be entered, a netlink request fails.
CheckErrs ==
  /\ stage \in Reads
  /\ Finish("error")
  /\ ServersIdle

CheckStep ==
  \/ \E c \in Calls : StartCheck(c)
  \/ ReadHostLink \/ ReadPeerLink \/ ReadLo \/ ReadHostAddrs \/ ReadPeerAddrs
  \/ ReadHostPeer \/ ReadPeerPeer
  \/ CheckErrs

CheckInit ==
  /\ Init
  /\ stage = "none" /\ asked = NoCall
  /\ hostEnd = NoEnd /\ peerEnd = NoEnd /\ promised = NoEnd
  /\ fine = TRUE

CheckNext == (Next /\ UNCHANGED checkVars) \/ CheckStep
CheckSpec == CheckInit /\ [][CheckNext]_checkedVars

-----------------------------------------------------------------------------
(* Properties *)

\* When the checker prints that the configuration is verified, the pair stands
\* whole and configured at that moment, although the seven things it read were
\* read one by one while requests deleted and replaced interfaces.
VerifiedMeansMade ==
  [][asked # NoCall /\ stage' = "passed" =>
       Made(asked) # {} /\ asked.ns \in loUp]_checkedVars

\* A pair that an answer has promised before the check, and that nobody deletes
\* while it runs, is never reported wrong.
PromisedVerifies ==
  [][asked # NoCall /\ stage' = "failed" /\ promised # NoEnd =>
       promised \notin given]_checkedVars
=============================================================================

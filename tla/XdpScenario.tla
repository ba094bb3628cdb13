---------------------------- MODULE XdpScenario -----------------------------
(***************************************************************************)
(* The week 3 checker of 03-week/00-checker next to the service it tests.  *)
(* The checker makes a namespace and a veth pair, asks the service to      *)
(* attach, block and clear on the host's end, pings from the namespace in  *)
(* between, and takes everything down again.  Its requests are requests of *)
(* XdpService like anybody's: other clients ask at the same time, the      *)
(* service may stop and start, answers may come after the checker gave up. *)
(*                                                                         *)
(* stage names the call of runScenario that comes next.  The interface     *)
(* HostIf is made and deleted by the checker only; the network namespace   *)
(* library and ping are external.                                          *)
(***************************************************************************)
EXTENDS XdpService

CONSTANTS
  HostIf,    \* cfg.HostIfName
  PeerIP,    \* cfg.PeerAddr
  MaxRuns,   \* bound: how often the checker is started
  NoSlot     \* no request under way

ASSUME ScenarioAssumption ==
  HostIf \in Names /\ PeerIP \in IPs /\ MaxRuns \in Nat /\ NoSlot \notin Requests

VARIABLES
  stage,     \* the call the checker makes next, or "idle"
  outcome,   \* of the run: still good, failing, or how it ended
  slot,      \* the request the checker waits for, or NoSlot
  peer,      \* where the other end of HostIf is
  file,      \* /var/run/netns has a file of the namespace's name
  mounted,   \* the namespace is mounted on that file
  away,      \* a thread of the checker was left in the namespace
  runs,      \* how often the checker was started
  disturbed, \* history: something from outside may make this run fail
  litter     \* history: this run could not take down what it made or found

nsName == <<file, mounted>>
checkerVars == <<stage, outcome, slot, peer, nsName, away, runs, disturbed, litter>>
scenarioVars == <<vars, checkerVars>>

Sequel ==
  [sweepHost |-> "sweepNs", sweepNs |-> "sweepFile", sweepFile |-> "newNs",
   newNs |-> "mountNs", mountNs |-> "linkAdd", linkAdd |-> "move",
   move |-> "configure", configure |-> "attach",
   attach |-> "verify", verify |-> "ping", ping |-> "block",
   block |-> "pingBlocked", pingBlocked |-> "clear", clear |-> "pingCleared",
   pingCleared |-> "undoHost", undoHost |-> "undoNs", undoNs |-> "undoFile",
   undoFile |-> "end"]
Stages == DOMAIN Sequel \cup {"end", "idle"}
Undos == {"undoHost", "undoNs", "undoFile"}
Unmounts == {"sweepNs", "undoNs"}
Removals == {"sweepFile", "undoFile"}
Pings == {"ping", "pingBlocked", "pingCleared"}
Posts == {"attach", "block", "clear"}
Using == {"verify", "ping", "block", "pingBlocked", "clear", "pingCleared"}

Outcomes == {"none", "good", "failing", "passed", "failed", "killed"}
Running == outcome \in {"good", "failing"}

ScenarioTypeOK ==
  /\ stage \in Stages
  /\ outcome \in Outcomes
  /\ Running <=> stage # "idle"
  /\ outcome = "failing" => stage \in Undos \cup {"end"}
  /\ slot \in Requests \cup {NoSlot}
  /\ slot # NoSlot => stage \in Posts
  /\ peer \in {"none", "host", "space"}
  /\ peer = "none" <=> dev[HostIf] = NoDev
  /\ file \in BOOLEAN /\ mounted \in BOOLEAN /\ away \in BOOLEAN
  /\ runs \in 0..MaxRuns
  /\ disturbed \in BOOLEAN /\ litter \in BOOLEAN

-----------------------------------------------------------------------------
(* The cleanup stack *)

\* defect: the deletion of the pair is registered when the set-up is complete
UndoForgetsPair(s) ==
  CASE s \in {"newNs", "mountNs"} -> "end"
    [] s \in {"linkAdd", "move", "configure"} -> "undoNs"
    [] OTHER -> "undoHost"
GoesOn(s) == Sequel[s]     \* defect: the error is noted and the scenario goes on
\* Where the deferred cleanup.Run starts when the call at s fails: what the
\* calls before it have registered, last first.
UndoFrom(s) ==
  CASE s \in {"newNs", "mountNs"} -> "end"
    [] s = "linkAdd" -> "undoNs"
    [] OTHER -> "undoHost"

Goes == stage' = Sequel[stage] /\ UNCHANGED outcome
Fails == stage' = UndoFrom(stage) /\ outcome' = "failing"

Disturb == disturbed' = TRUE
ServiceIdle == UNCHANGED <<serviceVars, mu, phase, requestVars>>
Elsewhere == UNCHANGED <<slot, runs>>

-----------------------------------------------------------------------------
(* A run starts and ends *)

\* Requests of others, and those an earlier run gave up, are about HostIf too.
Meddles(r) == call[r] # NoCall /\ call[r].op # "attach" /\ call[r].name = HostIf

Launch ==
  /\ ~Running /\ runs < MaxRuns
  /\ stage' = "sweepHost" /\ outcome' = "good"
  /\ runs' = runs + 1
  /\ disturbed' = (phase # "serving" \/ \E r \in Requests : Meddles(r))
  /\ litter' = FALSE
  /\ UNCHANGED <<vars, slot, peer, nsName, away>>

\* The process ends, and with it its threads.
End ==
  /\ stage = "end"
  /\ stage' = "idle"
  /\ outcome' = IF outcome = "good" THEN "passed" ELSE "failed"
  /\ away' = FALSE
  /\ UNCHANGED <<vars, slot, peer, nsName, runs, disturbed, litter>>

\* Killed or interrupted, the checker runs no deferred function.
Kill ==
  /\ Running
  /\ stage' = "idle" /\ outcome' = "killed"
  /\ slot' = NoSlot /\ away' = FALSE
  /\ disturbed' = TRUE /\ litter' = TRUE
  /\ UNCHANGED <<vars, peer, nsName, runs>>

-----------------------------------------------------------------------------
(* Taking down: cleanupNetwork before the set-up, the stack at the end *)

\* Deleting one end of the pair deletes the other.
DropPair ==
  IF dev[HostIf] = NoDev THEN UNCHANGED kernelVars ELSE DeleteDevice(HostIf)

DeleteHost ==
  /\ stage \in {"sweepHost", "undoHost"}
  /\ DropPair
  /\ peer' = "none"
  /\ Goes
  /\ ServiceIdle /\ Elsewhere /\ UNCHANGED <<nsName, away, disturbed, litter>>

\* LinkByName runs in the namespace of whatever thread it gets; there is no
\* HostIf in the checker's own.
DeleteHostAstray ==
  /\ stage = "undoHost" /\ away
  /\ Goes
  /\ UNCHANGED <<vars, peer, nsName, away, disturbed, litter>> /\ Elsewhere

\* DeleteNamed unmounts the namespace and then removes the file.  Where there is
\* no mount the first call fails and DeleteNamed makes no second.
Skip == stage' = Sequel[Sequel[stage]] /\ UNCHANGED outcome

\* defect: cleanupNetwork leaves the name
SweepKeepsName ==
  /\ stage \in Unmounts
  /\ mounted \/ ~file
  /\ mounted' = (stage = "sweepNs" /\ mounted)
  /\ IF mounted /\ stage = "undoNs" THEN Goes ELSE Skip
  /\ UNCHANGED <<vars, peer, file, away, disturbed, litter>> /\ Elsewhere
UnmountName ==
  /\ stage \in Unmounts
  /\ mounted \/ ~file
  /\ mounted' = FALSE
  /\ IF mounted THEN Goes ELSE Skip
  /\ UNCHANGED <<vars, peer, file, away, disturbed, litter>> /\ Elsewhere

RemoveName ==
  /\ stage \in Removals
  /\ file' = FALSE
  /\ Goes
  /\ UNCHANGED <<vars, peer, mounted, away, disturbed, litter>> /\ Elsewhere

\* The errors of LinkDel and DeleteNamed are dropped.  A file without a mount,
\* which a run left that ended inside NewNamed or DeleteNamed, is one that
\* DeleteNamed always fails on.
DeletionFails ==
  /\ \/ stage \in {"sweepHost", "undoHost"} /\ dev[HostIf] # NoDev /\ Goes
     \/ stage \in Unmounts /\ file /\ Skip
     \/ stage \in Removals /\ Goes
  /\ Disturb /\ litter' = TRUE
  /\ UNCHANGED <<vars, peer, nsName, away>> /\ Elsewhere

\* A namespace nothing refers to any more dies, and with it the peer in it.
NamespaceDies ==
  /\ peer = "space" /\ ~mounted /\ ~away
  /\ DeleteDevice(HostIf)
  /\ peer' = "none"
  /\ ServiceIdle
  /\ UNCHANGED <<stage, outcome, nsName, away, disturbed, litter>> /\ Elsewhere

-----------------------------------------------------------------------------
(* setupNetwork *)

\* createNamedNetns.  NewNamed makes the namespace and, with O_EXCL, the file.
NewNamespace ==
  /\ stage = "newNs"
  /\ IF file THEN Fails /\ UNCHANGED file ELSE Goes /\ file' = TRUE
  /\ UNCHANGED <<vars, peer, mounted, away, disturbed, litter>> /\ Elsewhere

\* Then it mounts the one on the other, and createNamedNetns goes home.
MountNamespace ==
  /\ stage = "mountNs"
  /\ mounted' = TRUE
  /\ Goes
  /\ UNCHANGED <<vars, peer, file, away, disturbed, litter>> /\ Elsewhere

\* The mount fails: the file stays, and nobody registered it for deletion.  (The
\* thread is in a namespace without name, but the run makes no other call.)
MountFails ==
  /\ stage = "mountNs"
  /\ Fails
  /\ Disturb /\ litter' = TRUE
  /\ UNCHANGED <<vars, peer, nsName, away>> /\ Elsewhere

\* createNamedNetns fails with the name mounted: its restore did, and nobody
\* registered the name for deletion.
NewNamespaceStays ==
  /\ stage = "mountNs"
  /\ mounted' = TRUE /\ away' = TRUE
  /\ Fails
  /\ Disturb /\ litter' = TRUE
  /\ UNCHANGED <<vars, peer, file>> /\ Elsewhere

\* A service that still lists HostIf lists an interface that is gone: its
\* Attach will not look at the new one.
LinkAdd ==
  /\ stage = "linkAdd"
  /\ IF dev[HostIf] = NoDev
     THEN CreateDevice(HostIf) /\ peer' = "host" /\ Goes
     ELSE UNCHANGED <<kernelVars, peer>> /\ Fails
  /\ disturbed' = (disturbed \/ Attached(HostIf))
  /\ ServiceIdle /\ Elsewhere /\ UNCHANGED <<nsName, away, litter>>

\* Both ends are looked up, the peer goes into the namespace.
MovePeer ==
  /\ stage = "move"
  /\ peer' = "space"
  /\ Goes
  /\ UNCHANGED <<vars, nsName, away, disturbed, litter>> /\ Elsewhere

\* Addresses, names and flags of both ends, and lo.
Configure ==
  /\ stage = "configure"
  /\ Goes
  /\ UNCHANGED <<vars, peer, nsName, away, disturbed, litter>> /\ Elsewhere

\* The kernel refuses for reasons of its own.
CallFails ==
  /\ stage \in {"newNs", "linkAdd", "move", "configure", "verify"}
  /\ Fails
  /\ Disturb
  /\ UNCHANGED <<vars, peer, nsName, away, litter>> /\ Elsewhere

-----------------------------------------------------------------------------
(* postJSON: a request, its answer, and a client that waits five seconds *)

Asked(s) ==
  [op |-> s, name |-> HostIf, ip |-> IF s = "block" THEN PeerIP ELSE NoIP]

Post(r) ==
  /\ stage \in Posts /\ slot = NoSlot
  /\ Accept(r, Asked(stage))
  /\ slot' = r
  /\ UNCHANGED <<stage, outcome, peer, nsName, away, runs, disturbed, litter>>

\* Nobody listens, or not where the thread is.
Refused ==
  /\ stage \in Posts /\ slot = NoSlot
  /\ phase # "serving" \/ away
  /\ Fails
  /\ Disturb
  /\ UNCHANGED <<vars, peer, nsName, away, litter>> /\ Elsewhere

\* An answer other than 2xx fails the run, a broken connection too.
Answered ==
  /\ slot # NoSlot /\ pc[slot] = "idle"
  /\ IF answer[slot] = "ok" THEN Goes ELSE Fails
  /\ disturbed' = (disturbed \/ answer[slot] = "failed")
  /\ slot' = NoSlot
  /\ UNCHANGED <<vars, peer, nsName, away, runs, litter>>

NeverTimeout == FALSE      \* defect: a client without time limit
\* The checker gives up; the handler goes on.
Timeout ==
  /\ stage \in Posts
  /\ Fails
  /\ Disturb
  /\ slot' = NoSlot
  /\ UNCHANGED <<vars, peer, nsName, away, runs, litter>>

-----------------------------------------------------------------------------
(* Looking *)

\* defect: the interface is looked up, its program is not looked at
VerifyLooksAtLink ==
  /\ stage = "verify"
  /\ IF dev[HostIf] # NoDev THEN Goes ELSE Fails
  /\ UNCHANGED <<vars, peer, nsName, away, disturbed, litter>> /\ Elsewhere
VerifyAttached ==
  /\ stage = "verify"
  /\ IF dev[HostIf] \in progs THEN Goes ELSE Fails
  /\ UNCHANGED <<vars, peer, nsName, away, disturbed, litter>> /\ Elsewhere

\* The echo requests come in through HostIf from PeerIP.
Passes == Verdict(dev[HostIf], [frame |-> "ipv4", src |-> PeerIP]) = "XDP_PASS"
Replies == mounted /\ peer = "space" /\ Passes

\* After the block any error of ping is taken for the drop.  One packet stands
\* for PingCount: the first that is answered, or any if none is.
Concludes(replied) == IF replied <=> stage # "pingBlocked" THEN Goes ELSE Fails

Ping ==
  /\ stage \in Pings
  /\ Concludes(Replies)
  /\ UNCHANGED <<vars, peer, nsName, away, disturbed, litter>> /\ Elsewhere

\* Packets are lost, the namespace cannot be entered, ping is not installed.
PingFails ==
  /\ stage \in Pings
  /\ Concludes(FALSE)
  /\ Disturb
  /\ UNCHANGED <<vars, peer, nsName, away, litter>> /\ Elsewhere

\* withNamedNetns drops the error of the restore and unlocks the thread.
PingStrays ==
  /\ stage \in Pings /\ mounted
  /\ Concludes(Replies)
  /\ away' = TRUE
  /\ Disturb
  /\ UNCHANGED <<vars, peer, nsName, litter>> /\ Elsewhere

-----------------------------------------------------------------------------
\* All that a running checker does by itself.
CheckerStep ==
  \/ DeleteHost \/ DeleteHostAstray \/ UnmountName \/ RemoveName \/ DeletionFails
  \/ NewNamespace \/ MountNamespace \/ MountFails \/ NewNamespaceStays
  \/ LinkAdd \/ MovePeer \/ Configure
  \/ CallFails
  \/ \E r \in Requests : Post(r)
  \/ Refused \/ Answered \/ Timeout
  \/ VerifyAttached \/ Ping \/ PingFails \/ PingStrays
  \/ End

\* The service goes on.  The checker's slot is its own until it has read the
\* answer.
ServiceStep ==
  /\ \/ \E r \in Requests : (r # slot /\ Arrival(r)) \/ LockStep(r) \/ OwnStep(r)
     \/ MainStep
     \/ Signal
     \/ Killed
     \/ Restart
  /\ disturbed' = (disturbed \/ /\ Running
                                /\ \/ phase' # phase
                                   \/ \E r \in Requests : r # slot /\ Meddles(r)')
  /\ UNCHANGED <<stage, outcome, slot, peer, nsName, away, runs, litter>>

ScenarioNext == Launch \/ Kill \/ CheckerStep \/ NamespaceDies \/ ServiceStep

ScenarioInit ==
  /\ Init
  /\ stage = "idle" /\ outcome = "none" /\ slot = NoSlot
  /\ peer = "none" /\ file = FALSE /\ mounted = FALSE /\ away = FALSE
  /\ runs = 0 /\ disturbed = FALSE /\ litter = FALSE

\* Only the checker is sure to go on: the service may hang for ever.
ScenarioSpec ==
  ScenarioInit /\ [][ScenarioNext]_scenarioVars /\ WF_scenarioVars(CheckerStep)

-----------------------------------------------------------------------------
(* Properties *)

\* A run fails only for a reason outside the service: a refusal of the kernel, a
\* lost packet, a stop of the service, a Block or Clear of somebody else on the
\* same interface, an entry of the table the interface of an earlier run left
\* behind, or the empty file of a run that ended inside NewNamed or DeleteNamed,
\* which cleanupNetwork cannot remove.  Attach requests of others, and all else
\* that earlier runs left, killed ones included, are no reason.
ScenarioHonest == outcome \in {"failing", "failed"} => disturbed

\* From verifyXDPAttached on, the table's entry for HostIf, if there still is
\* one, is the interface of this run, whatever was attached under the name before:
\* Block and Clear are tried where the pings go.
VerifiedIsLive ==
  outcome = "good" /\ stage \in Using \ {"verify"} =>
     attachments[HostIf] \in {NoDev, dev[HostIf]}

\* A checker that is gone has left neither a file of the namespace's name nor an
\* interface that outlives it, passed or failed at whatever call, unless it was
\* killed, a deletion failed, or createNamedNetns failed after it made the file: a
\* failed mount leaves the file, a failed restore the file and the mount.
NothingLeft ==
  ~Running /\ ~litter => ~file /\ ~mounted /\ (dev[HostIf] = NoDev \/ peer = "space")

\* Every run ends, even if the service never answers.
CheckerEnds == Running ~> ~Running

-----------------------------------------------------------------------------
(* What makes the invariants inductive *)

\* What of an earlier or the present run is still there at which stage.
LeftoverInv ==
  /\ ~Running => ~away
  /\ stage = "move" => peer = "host"
  /\ outcome = "good" /\ stage \in {"linkAdd", "move", "configure", "attach"} \cup Using => mounted
  /\ mounted => file
  /\ stage = "mountNs" => file /\ ~mounted
  /\ stage \in Removals => ~mounted
  /\ ~litter =>
       /\ stage \in {"newNs", "end", "idle"} => ~file
       /\ file => mounted \/ stage \in Removals \cup {"sweepHost", "sweepNs", "mountNs"}
       /\ peer = "host" => stage \in {"sweepHost", "move", "undoHost"}
       /\ away => peer # "host" /\ stage \in Using \cup Undos \cup {"end"}

\* Nobody but the checker has interfaces here, so HostIf is all there is to
\* attach to.
OnlyHostIf ==
  /\ \A n \in Names \ {HostIf} : dev[n] = NoDev /\ attachments[n] = NoDev
  /\ \A r \in Requests : iface[r] # NoDev => call[r] # NoCall /\ call[r].name = HostIf

\* The answer of stage s is in, and it is ok.
Granted(s) == stage = s /\ slot # NoSlot /\ pc[slot] = "idle" /\ answer[slot] = "ok"

\* How far an undisturbed run has brought the network and the service.
UndisturbedInv ==
  Running /\ ~disturbed =>
    /\ outcome = "good" /\ phase = "serving" /\ ~away
    /\ \A r \in Requests : Meddles(r) => r = slot
    /\ slot # NoSlot => IF pc[slot] = "idle" THEN answer[slot] \in {"ok", "failed"}
                                           ELSE call[slot] = Asked(stage)
    /\ stage = "newNs" => ~file
    /\ stage \in {"sweepNs", "sweepFile", "newNs", "mountNs", "linkAdd"} => dev[HostIf] = NoDev
    /\ stage \in {"move", "configure", "attach"} \cup Using =>
         dev[HostIf] # NoDev /\ attachments[HostIf] \in {NoDev, dev[HostIf]}
    /\ stage \in {"configure", "attach"} \cup Using => peer = "space"
    /\ stage \in Using \/ Granted("attach") => Attached(HostIf)
    /\ \/ stage \in {"move", "configure", "attach", "verify", "ping", "pingCleared"}
       \/ stage = "block" /\ slot = NoSlot
       \/ Granted("clear")
       => <<dev[HostIf], PeerIP>> \notin blockedIps
    /\ stage = "pingBlocked" \/ Granted("block") => <<dev[HostIf], PeerIP>> \in blockedIps

ScenarioInv ==
  /\ ScenarioTypeOK /\ LeftoverInv /\ OnlyHostIf /\ UndisturbedInv
  /\ ScenarioHonest /\ VerifiedIsLive
=============================================================================

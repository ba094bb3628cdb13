----------------------------- MODULE VethServer -----------------------------
(***************************************************************************)
(* The veth side of the week 2 servers: requests that each make a veth     *)
(* pair, move its peer into a named network namespace and configure both   *)
(* ends, over interfaces the kernel keeps and other requests look at,      *)
(* rename and delete meanwhile.                                            *)
(*                                                                         *)
(* Each step is one netlink request of a script of VethScripts.  Failures  *)
(* of the kernel happen until the environment becomes calm, so that a      *)
(* retry after a failure can be told from the failure.  Clients may come   *)
(* at once, one at a time, or, polite, only for names not in use, and      *)
(* delete what they no longer need.                                        *)
(***************************************************************************)
EXTENDS VethScripts, Naturals, FiniteSets

CONSTANTS
  Hosts,     \* host_ifname values
  Peers,     \* peer_ifname values
  Named,     \* the named network namespaces, which exist
  Host,      \* the host's network namespace
  Requests,  \* handler goroutines
  Pairs,     \* the veth pairs that exist at once (a bound)
  NoLink, NoEnd, NoCall,
  Settings   \* which server runs and what its environment does to it

Failures == {"parse", "open", "find", "delete", "link", "address", "lo"}
ASSUME SettingsAssumption ==
  Settings \subseteq [server : Servers, clients : {"any", "serial", "polite"},
                      mayFail : SUBSET Failures]
ASSUME NamespacesAssumption == Host \notin Named

VARIABLES
  setting,  \* the member of Settings this behaviour is of; never changes
  link,     \* the end of a pair -> where it is, or NoLink
  loUp,     \* the namespaces whose loopback is up
  calm,     \* the kernel refuses nothing any more without a reason
  given,    \* ends of pairs that an answer has promised
  call,     \* request -> what it asks, or NoCall
  todo,     \* request -> the netlink requests it has still to make
  ok,       \* request -> no error so far
  hostLink, \* request -> the end it took for the host's, or NoEnd
  peerLink, \* request -> the end it took for the peer's, or NoEnd
  due,      \* request -> it came in calm, alone, for names nobody was promised
  seen      \* ends whose index somebody outside remembers: see VethCheck

kernelVars == <<link, loUp, seen>>
requestVars == <<call, todo, ok, hostLink, peerLink, due>>
vars == <<setting, kernelVars, calm, given, requestVars>>

Ends == Pairs \X {"host", "peer"}
OtherEnd(e) == <<e[1], IF e[2] = "host" THEN "peer" ELSE "host">>

\* tempPeerName: a hash of host_ifname, as good as distinct from other names.  That
\* yeomin4242 hashes peer_ifname with it makes no difference: whoever finds the name
\* in use finds host_ifname in use by the other end of that pair.
Temp(h) == <<"tmp", h>>
Ifnames == Hosts \cup Peers \cup {Temp(h) : h \in Hosts}
Links == [ns : Named \cup {Host}, name : Ifnames, addr : BOOLEAN, up : BOOLEAN]
Calls == [ns : Named, host : Hosts, peer : Peers]
Plans(s) == Rests(s) \cup Rests(Quietly(<<"delHost">>))

ASSUME NamesAssumption == \A h \in Hosts : Temp(h) \notin Hosts \cup Peers
ASSUME NoneAssumption == NoLink \notin Links /\ NoEnd \notin Ends /\ NoCall \notin Calls

TypeOK ==
  /\ setting \in Settings
  /\ link \in [Ends -> Links \cup {NoLink}]
  /\ \A e \in Ends : link[e] = NoLink <=> link[OtherEnd(e)] = NoLink
  /\ \A e, f \in Ends :
       e # f /\ link[e] # NoLink /\ link[f] # NoLink =>
         link[e].ns # link[f].ns \/ link[e].name # link[f].name
  /\ loUp \in SUBSET Named
  /\ calm \in BOOLEAN
  /\ given \in SUBSET Ends
  /\ call \in [Requests -> Calls \cup {NoCall}]
  /\ \A r \in Requests : todo[r] \in Plans(Script[setting.server])
  /\ ok \in [Requests -> BOOLEAN]
  /\ hostLink \in [Requests -> Ends \cup {NoEnd}]
  /\ peerLink \in [Requests -> Ends \cup {NoEnd}]
  /\ due \in [Requests -> BOOLEAN]
  /\ seen \subseteq Ends

-----------------------------------------------------------------------------
(* The kernel's interfaces *)

Found(where, name) ==
  {e \in Ends : link[e] # NoLink /\ link[e].ns = where /\ link[e].name = name}

\* What a stale index denotes: nothing, wherever the interface has gone.
Denotes(e, where) == e # NoEnd /\ link[e] # NoLink /\ link[e].ns = where

\* An index is not given out again while somebody remembers it.
Remembered == {hostLink[r] : r \in Requests} \cup {peerLink[r] : r \in Requests} \cup seen
Spare == {p \in Pairs : /\ link[<<p, "host">>] = NoLink
                        /\ {<<p, "host">>, <<p, "peer">>} \cap Remembered = {}}

Fresh(where, name) == [ns |-> where, name |-> name, addr |-> FALSE, up |-> FALSE]

\* Deleting one end of a pair deletes the other.
Delete(es) ==
  LET gone == es \cup {OtherEnd(e) : e \in es} IN
    /\ link' = [e \in Ends |-> IF e \in gone THEN NoLink ELSE link[e]]
    /\ given' = given \ gone

-----------------------------------------------------------------------------
(* Where a request is and how its calls end *)

Doing(r, op) == todo[r] # << >> /\ Head(todo[r]).op = op
CanFail(f) == f \in setting.mayFail /\ ~calm

Goes(r) == todo' = [todo EXCEPT ![r] = Tail(@)] /\ UNCHANGED ok
\* defect: the error path cleans up and does not return
FailsOn(r) ==
  IF Head(todo[r]).must
  THEN /\ todo' = [todo EXCEPT ![r] = Quietly(Head(@).cleanup) \o Tail(@)]
       /\ ok' = [ok EXCEPT ![r] = FALSE]
  ELSE Goes(r)
Fails(r) ==
  IF Head(todo[r]).must
  THEN /\ todo' = [todo EXCEPT ![r] = Quietly(Head(@).cleanup)]
       /\ ok' = [ok EXCEPT ![r] = FALSE]
  ELSE Goes(r)

Elsewhere == UNCHANGED <<setting, calm, call, due, seen>>
UnchangedLinks == UNCHANGED <<link, given>>
UnchangedLocals == UNCHANGED <<hostLink, peerLink>>

\* A call that only finds out whether something is so.
Check(r, ops, holds, failure) ==
  /\ todo[r] # << >> /\ Head(todo[r]).op \in ops
  /\ \/ holds /\ Goes(r)
     \/ (~holds \/ CanFail(failure)) /\ Fails(r)
  /\ UnchangedLinks /\ UnchangedLocals /\ UNCHANGED loUp /\ Elsewhere

Parse(r) == Check(r, {"parse"}, TRUE, "parse")
OpenNs(r) == Check(r, {"openNs"}, TRUE, "open")

\* The names a check or a deletion is about.
Place(c, op) ==
  CASE op \in {"hostAbsent", "delHost", "findHost"} -> <<Host, c.host>>
    [] op \in {"tmpAbsent", "delTmp", "findTmp"} -> <<Host, Temp(c.host)>>
    [] op \in {"peerAbsent", "delPeer", "nsFindPeer"} -> <<c.ns, c.peer>>
    [] op \in {"nsTmpAbsent", "nsFindTmp"} -> <<c.ns, Temp(c.host)>>
    [] op = "findPeer" -> <<Host, c.peer>>
FoundBy(r) == LET at == Place(call[r], Head(todo[r]).op) IN Found(at[1], at[2])

Asks(r, ops) == todo[r] # << >> /\ Head(todo[r]).op \in ops

Absent(r) ==
  /\ Asks(r, {"hostAbsent", "tmpAbsent", "peerAbsent", "nsTmpAbsent"})
  /\ Check(r, {Head(todo[r]).op}, FoundBy(r) = {}, "find")

DeleteLink(r) ==
  /\ Asks(r, {"delHost", "delTmp", "delPeer"})
  /\ \/ Delete(FoundBy(r)) /\ Goes(r)
     \/ FoundBy(r) # {} /\ CanFail("delete") /\ Fails(r) /\ UnchangedLinks
  /\ UnchangedLocals /\ UNCHANGED loUp /\ Elsewhere

\* The two ends of a new pair: refused when either name is taken, or both are one.
Add(r, op, where, name) ==
  /\ Doing(r, op)
  /\ LET taken == Found(Host, call[r].host) \cup Found(where, name) IN
       \/ \E p \in Spare :
            /\ p = CHOOSE q \in Spare : TRUE
            /\ taken = {} /\ <<where, name>> # <<Host, call[r].host>>
            /\ link' = [link EXCEPT ![<<p, "host">>] = Fresh(Host, call[r].host),
                                    ![<<p, "peer">>] = Fresh(where, name)]
            /\ Goes(r) /\ UNCHANGED given
       \/ /\ taken # {} \/ <<where, name>> = <<Host, call[r].host>> \/ CanFail("link")
          /\ Fails(r) /\ UnchangedLinks
  /\ UnchangedLocals /\ UNCHANGED loUp /\ Elsewhere

AddPair(r) ==
  \/ Add(r, "add", Host, Temp(call[r].host))
  \/ Add(r, "addPeer", Host, call[r].peer)
  \/ Add(r, "addInNs", call[r].ns, call[r].peer)

FindHost(r) ==
  /\ Doing(r, "findHost")
  /\ \/ \E e \in FoundBy(r) : hostLink' = [hostLink EXCEPT ![r] = e] /\ Goes(r)
     \/ (FoundBy(r) = {} \/ CanFail("find")) /\ Fails(r) /\ UNCHANGED hostLink
  /\ UnchangedLinks /\ UNCHANGED <<peerLink, loUp>> /\ Elsewhere

FindPeer(r) ==
  /\ Asks(r, {"findTmp", "nsFindTmp", "nsFindPeer", "findPeer"})
  /\ \/ \E e \in FoundBy(r) : peerLink' = [peerLink EXCEPT ![r] = e] /\ Goes(r)
     \/ (FoundBy(r) = {} \/ CanFail("find")) /\ Fails(r) /\ UNCHANGED peerLink
  /\ UnchangedLinks /\ UNCHANGED <<hostLink, loUp>> /\ Elsewhere

\* A request about one interface, by its index in the namespace where.
Change(r, op, e, where, possible, new, failure) ==
  /\ Doing(r, op)
  /\ \/ /\ Denotes(e, where) /\ possible
        /\ link' = [link EXCEPT ![e] = new]
        /\ Goes(r)
     \/ /\ ~Denotes(e, where) \/ ~possible \/ CanFail(failure)
        /\ Fails(r) /\ UNCHANGED link
  /\ UnchangedLocals /\ UNCHANGED <<given, loUp>> /\ Elsewhere

\* A moved interface arrives down and without addresses.
Move(r) ==
  \E e \in {peerLink[r]} :
    Change(r, "move", e, Host, Denotes(e, Host) => Found(call[r].ns, link[e].name) = {},
           Fresh(call[r].ns, link[e].name), "link")
Rename(r) ==
  \E e \in {peerLink[r]} :
    Change(r, "rename", e, call[r].ns, Found(call[r].ns, call[r].peer) = {},
           [link[e] EXCEPT !.name = call[r].peer], "link")
HostAddr(r) ==
  \E e \in {hostLink[r]} :
    Change(r, "hostAddr", e, Host, TRUE, [link[e] EXCEPT !.addr = TRUE], "address")
HostUp(r) ==
  \E e \in {hostLink[r]} :
    Change(r, "hostUp", e, Host, TRUE, [link[e] EXCEPT !.up = TRUE], "link")
PeerAddr(r) ==
  \E e \in {peerLink[r]} :
    Change(r, "peerAddr", e, call[r].ns, TRUE, [link[e] EXCEPT !.addr = TRUE], "address")
PeerUp(r) ==
  \E e \in {peerLink[r]} :
    Change(r, "peerUp", e, call[r].ns, TRUE, [link[e] EXCEPT !.up = TRUE], "link")

LoUp(r) ==
  /\ Doing(r, "loUp")
  /\ \/ loUp' = loUp \cup {call[r].ns} /\ Goes(r)
     \/ CanFail("lo") /\ Fails(r) /\ UNCHANGED loUp
  /\ UnchangedLinks /\ UnchangedLocals /\ Elsewhere

-----------------------------------------------------------------------------
(* What an answer promises *)

HostEnd(c, e) == link[e] # NoLink /\ link[e] = [ns |-> Host, name |-> c.host,
                                               addr |-> TRUE, up |-> TRUE]
PeerEnd(c, e) == link[e] # NoLink /\ link[e] = [ns |-> c.ns, name |-> c.peer,
                                               addr |-> TRUE, up |-> TRUE]
Made(c) == {e \in Ends : HostEnd(c, e) /\ PeerEnd(c, OtherEnd(e))}

\* A pair fit to be promised by some answer.
Complete(e) == \E c \in Calls : e \in Made(c) \/ OtherEnd(e) \in Made(c)

NamesFree(c) == given \cap (Found(Host, c.host) \cup Found(c.ns, c.peer)) = {}

Accept(r, c) ==
  /\ call[r] = NoCall
  /\ LET alone == \A q \in Requests : call[q] = NoCall IN
       /\ setting.clients # "any" => alone
       /\ setting.clients = "polite" => NamesFree(c)
       /\ due' = [q \in Requests |->
                    /\ q = r /\ alone /\ calm
                    /\ setting.server \in Replaces \/ NamesFree(c)]
  /\ call' = [call EXCEPT ![r] = c]
  /\ todo' = [todo EXCEPT ![r] = Script[setting.server]]
  /\ ok' = [ok EXCEPT ![r] = TRUE]
  /\ UNCHANGED <<setting, kernelVars, calm, given, hostLink, peerLink>>

Answering(r) == call[r] # NoCall /\ todo[r] = << >>

Answer(r) ==
  /\ Answering(r)
  /\ given' = IF ok[r] THEN given \cup Made(call[r])
                                  \cup {OtherEnd(e) : e \in Made(call[r])}
                       ELSE given
  /\ call' = [call EXCEPT ![r] = NoCall]
  /\ hostLink' = [hostLink EXCEPT ![r] = NoEnd]
  /\ peerLink' = [peerLink EXCEPT ![r] = NoEnd]
  /\ due' = [due EXCEPT ![r] = FALSE]
  /\ UNCHANGED <<setting, kernelVars, calm, todo, ok>>

\* Interfaces are deleted from outside: the servers have no request for it.
TakenDown(e) ==
  /\ setting.clients = "polite"
  /\ \A r \in Requests : call[r] = NoCall
  /\ e \in given
  /\ Delete({e})
  /\ UNCHANGED <<setting, loUp, seen, calm, requestVars>>

Calm == ~calm /\ calm' = TRUE /\ UNCHANGED <<setting, kernelVars, given, requestVars>>

Init ==
  /\ setting \in Settings
  /\ link = [e \in Ends |-> NoLink]
  /\ loUp = {} /\ calm = FALSE /\ given = {} /\ seen = {}
  /\ call = [r \in Requests |-> NoCall]
  /\ todo = [r \in Requests |-> << >>]
  /\ ok = [r \in Requests |-> TRUE]
  /\ hostLink = [r \in Requests |-> NoEnd]
  /\ peerLink = [r \in Requests |-> NoEnd]
  /\ due = [r \in Requests |-> FALSE]

Step(r) ==
  \/ Parse(r) \/ OpenNs(r) \/ Absent(r) \/ DeleteLink(r) \/ AddPair(r)
  \/ FindHost(r) \/ FindPeer(r) \/ Move(r) \/ Rename(r)
  \/ HostAddr(r) \/ HostUp(r) \/ PeerAddr(r) \/ PeerUp(r) \/ LoUp(r)
  \/ Answer(r)

Next ==
  \/ \E r \in Requests : Step(r) \/ \E c \in Calls : Accept(r, c)
  \/ \E e \in Ends : TakenDown(e)
  \/ Calm
Spec == Init /\ [][Next]_vars

-----------------------------------------------------------------------------
(* Properties *)

\* A request answered with success has its pair: one end in the host's namespace
\* under host_ifname, the other end of that same pair in the named one under
\* peer_ifname, both with their addresses and up, lo too (02-week/README.md
\* 3.6-3.14), whatever other requests did to these names meanwhile.
VethTruthful ==
  \A r \in Requests :
     Answering(r) /\ ok[r] => Made(call[r]) # {} /\ call[r].ns \in loUp

\* In the servers that clean up, a failed request leaves no half-made pair.
NoHalfPair ==
  setting.server \in CleansUp /\ (\A r \in Requests : call[r] = NoCall) =>
     \A e \in Ends : link[e] # NoLink => e \in given /\ Complete(e)

\* In those servers a pair once promised stays: a request that fails deletes
\* none but its own.
AnsweredStays == [][setting.server \in CleansUp => given \subseteq given']_vars

\* Once the kernel refuses nothing, a request that comes alone succeeds, whatever
\* failed requests before it left: a client that retries gets its interface.
RetrySucceeds == \A r \in Requests : Answering(r) /\ due[r] => ok[r]
=============================================================================

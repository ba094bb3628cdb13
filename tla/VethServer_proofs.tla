------------------------- MODULE VethServer_proofs --------------------------
(***************************************************************************)
(* Proofs about VethServer and the checker beside it (VethCheck), for      *)
(* every set of names, namespaces, requests and pairs.                     *)
(*                                                                         *)
(* First, what one call does to the interfaces (LinkMoves) and to what a   *)
(* request remembers (LocalMoves), and what the eight scripts have in      *)
(* common (Shape): one pair is made, its ends are found before they are    *)
(* changed, the peer moves, takes its name and is configured in that       *)
(* order, and a clean-up deletes the pair.  Base is the invariant of every *)
(* server: types, ends that come and go in pairs, names that are one       *)
(* interface's, and what is left of a script.                              *)
(*                                                                         *)
(* Apart says which end of a pair can be where, Reading what the checker   *)
(* may rely on.  Stage says how far the pair of a request has come, in     *)
(* terms of the calls still ahead; Owners that every request that has made *)
(* a pair still has it at that stage; NoStray that no other pair stands;   *)
(* Due that nothing is in the way of a request that came alone, and that   *)
(* what it is to make will be free by the time it is made.                 *)
(*                                                                         *)
(* Where an invariant depends on what the environment does, its condition  *)
(* is a definition over the members of Settings, named for what it asks.   *)
(***************************************************************************)
EXTENDS VethCheck, ScriptPaths

\* The two ends of p.
HostOf(p) == <<p, "host">>
PeerOf(p) == <<p, "peer">>

\* What the next call of r is and how it ends.
Op(r) == Head(todo[r]).op
GoesOn(r) == todo' = [todo EXCEPT ![r] = Tail(@)] /\ ok' = ok
GivesUp(r) ==
  /\ Head(todo[r]).must
  /\ todo' = [todo EXCEPT ![r] = Quietly(Head(@).cleanup)]
  /\ ok' = [ok EXCEPT ![r] = FALSE]

\* A request makes its next call.
Makes(r) ==
  \/ Parse(r) \/ OpenNs(r) \/ Absent(r) \/ DeleteLink(r) \/ AddPair(r)
  \/ FindHost(r) \/ FindPeer(r) \/ Move(r) \/ Rename(r)
  \/ HostAddr(r) \/ HostUp(r) \/ PeerAddr(r) \/ PeerUp(r) \/ LoUp(r)

Adds == {"add", "addPeer", "addInNs"}
Deletes == {"delHost", "delPeer", "delTmp"}
PeerFinds == {"findTmp", "findPeer", "nsFindTmp", "nsFindPeer"}
Alters == {"move", "rename", "hostAddr", "hostUp", "peerAddr", "peerUp"}
Absents == {"hostAbsent", "tmpAbsent", "peerAbsent", "nsTmpAbsent"}
Work == {"findHost", "loUp"} \cup PeerFinds \cup Alters

\* The end a change is about, where it should be, and what becomes of it.
Subject(r) == IF Op(r) \in {"hostAddr", "hostUp"} THEN hostLink[r] ELSE peerLink[r]
Where(r) == IF Op(r) \in {"hostAddr", "hostUp", "move"} THEN Host ELSE call[r].ns
Changed(r, l) ==
  CASE Op(r) = "move" -> Fresh(call[r].ns, l.name)
    [] Op(r) = "rename" -> [l EXCEPT !.name = call[r].peer]
    [] Op(r) \in {"hostAddr", "peerAddr"} -> [l EXCEPT !.addr = TRUE]
    [] Op(r) \in {"hostUp", "peerUp"} -> [l EXCEPT !.up = TRUE]
Possible(r) ==
  CASE Op(r) = "move" -> Denotes(peerLink[r], Host) => Found(call[r].ns, link[peerLink[r]].name) = {}
    [] Op(r) = "rename" -> Found(call[r].ns, call[r].peer) = {}
    [] OTHER -> TRUE

\* Where the peer of a new pair is made.
AddsAt(r, where, name) ==
  \/ Op(r) = "add" /\ where = Host /\ name = Temp(call[r].host)
  \/ Op(r) = "addPeer" /\ where = Host /\ name = call[r].peer
  \/ Op(r) = "addInNs" /\ where = call[r].ns /\ name = call[r].peer

\* How a call changes the kernel's interfaces, when it does.
DeletesLinks(r) == Op(r) \in Deletes /\ Delete(FoundBy(r)) /\ GoesOn(r)
AddsPair(r, p, where, name) ==
  /\ AddsAt(r, where, name) /\ p \in Spare
  /\ Found(Host, call[r].host) = {} /\ Found(where, name) = {}
  /\ <<where, name>> # <<Host, call[r].host>>
  /\ link' = [link EXCEPT ![HostOf(p)] = Fresh(Host, call[r].host),
                          ![PeerOf(p)] = Fresh(where, name)]
  /\ given' = given /\ GoesOn(r)
AltersEnd(r) ==
  /\ Op(r) \in Alters /\ Denotes(Subject(r), Where(r)) /\ Possible(r)
  /\ link' = [link EXCEPT ![Subject(r)] = Changed(r, @)]
  /\ given' = given /\ GoesOn(r)
KeepsLinks(r) ==
  /\ link' = link /\ given' = given
  /\ Op(r) \in Adds \cup Alters => GivesUp(r) \/ ~Head(todo[r]).must
  /\ Op(r) \in Deletes => CanFail("delete")
  /\ Op(r) \in {"parse", "openNs"} => GoesOn(r) \/ CanFail("parse") \/ CanFail("open")
  /\ Op(r) \in Alters =>
       ~Denotes(Subject(r), Where(r)) \/ ~Possible(r) \/ CanFail("link") \/ CanFail("address")

FindsHost(r) ==
  \E e \in FoundBy(r) : hostLink' = [hostLink EXCEPT ![r] = e] /\ GoesOn(r)
FindsPeer(r) ==
  \E e \in FoundBy(r) : peerLink' = [peerLink EXCEPT ![r] = e] /\ GoesOn(r)

LoGoes(r) ==
  \/ loUp' = loUp \cup {call[r].ns} /\ GoesOn(r)
  \/ CanFail("lo") /\ (GivesUp(r) \/ ~Head(todo[r]).must)

LEMMA MakesFrame ==
  ASSUME NEW r \in Requests, Makes(r)
  PROVE  /\ todo[r] # << >>
         /\ Op(r) \in {"parse", "openNs"} \cup Absents \cup Deletes \cup Adds \cup Work
         /\ setting' = setting /\ calm' = calm /\ call' = call /\ due' = due /\ seen' = seen
         /\ GoesOn(r) \/ GivesUp(r)
<1> USE DEF Op, GoesOn, GivesUp, Goes, Fails, Elsewhere, Doing, Asks,
    Absents, Deletes, Adds, Work, PeerFinds, Alters
<1>1. CASE Parse(r) \/ OpenNs(r)
  BY <1>1 DEF Parse, OpenNs, Check
<1>2. CASE Absent(r)
  BY <1>2 DEF Absent, Check
<1>3. CASE DeleteLink(r)
  BY <1>3 DEF DeleteLink
<1>4. CASE AddPair(r)
  BY <1>4 DEF AddPair, Add
<1>5. CASE FindHost(r) \/ FindPeer(r)
  BY <1>5 DEF FindHost, FindPeer
<1>6. CASE Move(r) \/ Rename(r) \/ HostAddr(r) \/ HostUp(r) \/ PeerAddr(r) \/ PeerUp(r)
  BY <1>6 DEF Move, Rename, HostAddr, HostUp, PeerAddr, PeerUp, Change
<1>7. CASE LoUp(r)
  BY <1>7 DEF LoUp
<1>8. QED
  BY <1>1, <1>2, <1>3, <1>4, <1>5, <1>6, <1>7 DEF Makes

\* A call leaves the interfaces as they are, deletes some, makes a pair or changes
\* one end.
LEMMA LinkMoves ==
  ASSUME NEW r \in Requests, Makes(r)
  PROVE  \/ KeepsLinks(r)
         \/ DeletesLinks(r)
         \/ \E p \in Pairs : \E where, name : AddsPair(r, p, where, name)
         \/ AltersEnd(r)
<1> USE DEF Op, GoesOn, GivesUp, Goes, Fails, Elsewhere, Doing, Asks, UnchangedLinks
<1>1. CASE Parse(r) \/ OpenNs(r)
  BY <1>1 DEF Parse, OpenNs, Check, KeepsLinks, Adds, Alters, Deletes
<1>2. CASE Absent(r)
  BY <1>2 DEF Absent, Check, KeepsLinks, Adds, Alters, Deletes
<1>3. CASE DeleteLink(r)
  BY <1>3 DEF DeleteLink, KeepsLinks, DeletesLinks, Adds, Alters, Deletes
<1>4. CASE AddPair(r)
  <2>1. PICK op, where, name : /\ Add(r, op, where, name)
                               /\ op = Op(r) /\ AddsAt(r, where, name)
    BY <1>4 DEF AddPair, Add, AddsAt
  <2>2. op \in Adds /\ op \notin Alters \cup Deletes \cup {"parse", "openNs"}
    BY <2>1 DEF AddsAt, Adds, Alters, Deletes
  <2>3. CASE GivesUp(r) \/ ~Head(todo[r]).must
    BY <2>1, <2>2, <2>3 DEF Add, KeepsLinks, AddsPair, Spare, HostOf, PeerOf
  <2>4. CASE ~(GivesUp(r) \/ ~Head(todo[r]).must)
    BY <2>1, <2>2, <2>4 DEF Add, AddsPair, Spare, HostOf, PeerOf
  <2>5. QED
    BY <2>3, <2>4
<1>5. CASE FindHost(r) \/ FindPeer(r)
  BY <1>5 DEF FindHost, FindPeer, KeepsLinks, Adds, Alters, Deletes
<1>6. CASE Move(r)
  BY <1>6 DEF Move, Change, KeepsLinks, AltersEnd, Adds, Alters, Deletes, Subject, Where, Changed, Possible
<1>7. CASE Rename(r)
  BY <1>7 DEF Rename, Change, KeepsLinks, AltersEnd, Adds, Alters, Deletes, Subject, Where, Changed, Possible
<1>8. CASE HostAddr(r) \/ HostUp(r)
  BY <1>8 DEF HostAddr, HostUp, Change, KeepsLinks, AltersEnd, Adds, Alters, Deletes, Subject, Where, Changed, Possible
<1>9. CASE PeerAddr(r) \/ PeerUp(r)
  BY <1>9 DEF PeerAddr, PeerUp, Change, KeepsLinks, AltersEnd, Adds, Alters, Deletes, Subject, Where, Changed, Possible
<1>10. CASE LoUp(r)
  BY <1>10 DEF LoUp, KeepsLinks, Adds, Alters, Deletes
<1>11. QED
  BY <1>1, <1>2, <1>3, <1>4, <1>5, <1>6, <1>7, <1>8, <1>9, <1>10 DEF Makes

\* A look-up remembers what it finds.
LEMMA LocalMoves ==
  ASSUME NEW r \in Requests, Makes(r)
  PROVE  /\ \/ hostLink' = hostLink
            \/ Op(r) = "findHost" /\ FindsHost(r)
         /\ \/ peerLink' = peerLink
            \/ Op(r) \in PeerFinds /\ FindsPeer(r)
         /\ Op(r) = "findHost" =>
              FindsHost(r) \/ ((FoundBy(r) = {} \/ CanFail("find")) /\ (GivesUp(r) \/ ~Head(todo[r]).must))
         /\ Op(r) \in PeerFinds =>
              FindsPeer(r) \/ ((FoundBy(r) = {} \/ CanFail("find")) /\ (GivesUp(r) \/ ~Head(todo[r]).must))
         /\ \/ loUp' = loUp
            \/ Op(r) = "loUp" /\ loUp' = loUp \cup {call[r].ns}
         /\ Op(r) = "loUp" => LoGoes(r)
<1> USE DEF Op, GoesOn, GivesUp, Goes, Fails, Elsewhere, Doing, Asks, UnchangedLocals, PeerFinds
<1>1. CASE Parse(r) \/ OpenNs(r)
  BY <1>1 DEF Parse, OpenNs, Check
<1>2. CASE Absent(r)
  BY <1>2 DEF Absent, Check
<1>3. CASE DeleteLink(r)
  BY <1>3 DEF DeleteLink
<1>4. CASE AddPair(r)
  BY <1>4 DEF AddPair, Add
<1>5. CASE FindHost(r)
  BY <1>5 DEF FindHost, FindsHost
<1>6. CASE FindPeer(r)
  BY <1>6 DEF FindPeer, FindsPeer
<1>7. CASE Move(r) \/ Rename(r) \/ HostAddr(r) \/ HostUp(r) \/ PeerAddr(r) \/ PeerUp(r)
  BY <1>7 DEF Move, Rename, HostAddr, HostUp, PeerAddr, PeerUp, Change
<1>8. CASE LoUp(r)
  BY <1>8 DEF LoUp, LoGoes
<1>9. QED
  BY <1>1, <1>2, <1>3, <1>4, <1>5, <1>6, <1>7, <1>8 DEF Makes

-----------------------------------------------------------------------------
(* What is so of every server, whatever its environment does *)

Typed ==
  /\ setting \in Settings
  /\ link \in [Ends -> Links \cup {NoLink}]
  /\ loUp \in SUBSET Named
  /\ calm \in BOOLEAN
  /\ given \in SUBSET Ends
  /\ call \in [Requests -> Calls \cup {NoCall}]
  /\ todo \in [Requests -> Seq(ScriptCall)]
  /\ ok \in [Requests -> BOOLEAN]
  /\ hostLink \in [Requests -> Ends \cup {NoEnd}]
  /\ peerLink \in [Requests -> Ends \cup {NoEnd}]
  /\ due \in [Requests -> BOOLEAN]

\* The ends of a pair come and go together, and names are not given twice.
Paired == \A e \in Ends : link[e] = NoLink <=> link[OtherEnd(e)] = NoLink
Unique ==
  \A e, f \in Ends :
    e # f /\ link[e] # NoLink /\ link[f] # NoLink =>
      link[e].ns # link[f].ns \/ link[e].name # link[f].name

\* A request that has no error behind it has the rest of its script before it; one
\* that has, a deletion of the pair it made or nothing.
Planned(r) ==
  /\ call[r] = NoCall => todo[r] = << >>
  /\ ok[r] => todo[r] \in Rests(Script[setting.server])
  /\ ~ok[r] => todo[r] \in {<< >>, Quietly(<<"delHost">>)}

Base == Typed /\ Paired /\ Unique /\ \A r \in Requests : Planned(r)

\* A step of the checker sees the servers and leaves them alone.
Sees == UNCHANGED <<setting, link, loUp, calm, given, requestVars>>

LEMMA StepCases ==
  ASSUME [CheckNext]_checkedVars
  PROVE  \/ \E r \in Requests : Makes(r)
         \/ \E r \in Requests : Answer(r)
         \/ \E r \in Requests, c \in Calls : Accept(r, c)
         \/ \E e \in Ends : TakenDown(e)
         \/ Calm
         \/ Sees
<1>1. CASE UNCHANGED checkedVars
  BY <1>1 DEF checkedVars, vars, kernelVars, Sees
<1>2. CASE Next
  <2>1. ASSUME NEW r \in Requests, Step(r) PROVE Makes(r) \/ Answer(r)
    BY <2>1 DEF Step, Makes
  <2>2. QED
    BY <1>2, <2>1 DEF Next
<1>3. CASE CheckStep
  BY <1>3 DEF CheckStep, StartCheck, ReadHostLink, ReadPeerLink, ReadLo, ReadHostAddrs,
     ReadPeerAddrs, ReadHostPeer, ReadPeerPeer, CheckErrs, ServersIdle, Sees
<1>4. QED
  BY <1>1, <1>2, <1>3 DEF CheckNext

LEMMA EndsFacts ==
  /\ \A e \in Ends : /\ OtherEnd(e) \in Ends /\ OtherEnd(e) # e /\ OtherEnd(OtherEnd(e)) = e
                     /\ \E p \in Pairs : e = HostOf(p) \/ e = PeerOf(p)
  /\ \A p \in Pairs : /\ HostOf(p) \in Ends /\ PeerOf(p) \in Ends
                      /\ OtherEnd(HostOf(p)) = PeerOf(p) /\ OtherEnd(PeerOf(p)) = HostOf(p)
  /\ \A p, q : HostOf(p) # PeerOf(q) /\ (HostOf(p) = HostOf(q) => p = q)
                                     /\ (PeerOf(p) = PeerOf(q) => p = q)
<1> USE DEF Ends, OtherEnd, HostOf, PeerOf
<1>1. ASSUME NEW e \in Ends
      PROVE  /\ OtherEnd(e) \in Ends /\ OtherEnd(e) # e /\ OtherEnd(OtherEnd(e)) = e
             /\ \E p \in Pairs : e = HostOf(p) \/ e = PeerOf(p)
  <2>1. PICK p \in Pairs, x \in {"host", "peer"} : e = <<p, x>>
    OBVIOUS
  <2>2. CASE x = "host"
    BY <2>1, <2>2
  <2>3. CASE x = "peer"
    BY <2>1, <2>3
  <2>4. QED
    BY <2>2, <2>3
<1>2. \A p \in Pairs : /\ HostOf(p) \in Ends /\ PeerOf(p) \in Ends
                       /\ OtherEnd(HostOf(p)) = PeerOf(p) /\ OtherEnd(PeerOf(p)) = HostOf(p)
  OBVIOUS
<1>3. \A p, q : HostOf(p) # PeerOf(q) /\ (HostOf(p) = HostOf(q) => p = q)
                                     /\ (PeerOf(p) = PeerOf(q) => p = q)
  OBVIOUS
<1>4. QED
  BY <1>1, <1>2, <1>3

LEMMA LinksFacts ==
  /\ \A l \in Links : /\ l # NoLink /\ l.ns \in Named \cup {Host} /\ l.name \in Ifnames
                      /\ l.addr \in BOOLEAN /\ l.up \in BOOLEAN
  /\ \A c \in Calls : /\ c # NoCall /\ c.ns \in Named /\ c.host \in Hosts /\ c.peer \in Peers
                      /\ Temp(c.host) \in Ifnames /\ c.host \in Ifnames /\ c.peer \in Ifnames
  /\ \A n \in Named \cup {Host}, m \in Ifnames :
       Fresh(n, m) \in Links /\ Fresh(n, m).ns = n /\ Fresh(n, m).name = m
BY NoneAssumption DEF Links, Calls, Ifnames, Fresh

\* A request that makes a call has come in.
LEMMA MakesCall ==
  ASSUME Base, NEW r \in Requests, Makes(r)
  PROVE  /\ call[r] \in Calls /\ todo[r] # << >> /\ todo[r] \in Seq(ScriptCall)
         /\ Op(r) = Head(todo[r]).op
BY MakesFrame DEF Base, Typed, Planned, Op

LEMMA FieldsFacts ==
  ASSUME NEW k \in Links, NEW m \in Ifnames
  PROVE  /\ [k EXCEPT !.name = m] \in Links /\ [k EXCEPT !.name = m].name = m
         /\ [k EXCEPT !.name = m].ns = k.ns /\ (k.addr => [k EXCEPT !.name = m].addr)
         /\ (k.up => [k EXCEPT !.name = m].up)
         /\ [k EXCEPT !.addr = TRUE] \in Links /\ [k EXCEPT !.addr = TRUE].name = k.name
         /\ [k EXCEPT !.addr = TRUE].ns = k.ns /\ [k EXCEPT !.addr = TRUE].addr
         /\ (k.up => [k EXCEPT !.addr = TRUE].up)
         /\ [k EXCEPT !.up = TRUE] \in Links /\ [k EXCEPT !.up = TRUE].name = k.name
         /\ [k EXCEPT !.up = TRUE].ns = k.ns /\ (k.addr => [k EXCEPT !.up = TRUE].addr)
         /\ [k EXCEPT !.up = TRUE].up
BY DEF Links

\* What a change turns an end into.
LEMMA AltersType ==
  ASSUME Base, NEW r \in Requests, Makes(r), AltersEnd(r)
  PROVE  \E e \in Ends, l \in Links :
           /\ e = Subject(r) /\ link[e] \in Links /\ link[e].ns = Where(r)
           /\ l = Changed(r, link[e]) /\ link' = [link EXCEPT ![e] = l]
           /\ Op(r) = "move" => l = Fresh(call[r].ns, link[e].name)
           /\ Op(r) = "rename" => l.ns = link[e].ns /\ l.name = call[r].peer
           /\ Op(r) \notin {"move", "rename"} => l.ns = link[e].ns /\ l.name = link[e].name
           /\ Op(r) # "move" => (link[e].addr => l.addr) /\ (link[e].up => l.up)
           /\ Op(r) \in {"hostAddr", "peerAddr"} => l.addr
           /\ Op(r) \in {"hostUp", "peerUp"} => l.up
<1>1. /\ call[r] \in Calls /\ Subject(r) # NoEnd /\ link[Subject(r)] # NoLink
      /\ link[Subject(r)].ns = Where(r) /\ Op(r) \in Alters
  BY MakesCall DEF AltersEnd, Denotes
<1>2. PICK e \in Ends : e = Subject(r)
  BY <1>1 DEF Base, Typed, Subject
<1>3. PICK k \in Links : k = link[e]
  BY <1>1, <1>2 DEF Base, Typed
<1>4. /\ k.ns \in Named \cup {Host} /\ k.name \in Ifnames /\ call[r].ns \in Named
      /\ call[r].peer \in Ifnames
  BY <1>1, <1>3, LinksFacts
<1>5. PICK l \in Links : /\ l = Changed(r, k)
                         /\ Op(r) = "move" => l = Fresh(call[r].ns, k.name)
                         /\ Op(r) = "rename" => l.ns = k.ns /\ l.name = call[r].peer
                         /\ Op(r) \notin {"move", "rename"} => l.ns = k.ns /\ l.name = k.name
                         /\ Op(r) # "move" => (k.addr => l.addr) /\ (k.up => l.up)
                         /\ Op(r) \in {"hostAddr", "peerAddr"} => l.addr
                         /\ Op(r) \in {"hostUp", "peerUp"} => l.up
  <2>1. CASE Op(r) = "move"
    BY <1>4, <2>1, LinksFacts DEF Changed
  <2>2. CASE Op(r) = "rename"
    <3>1. Changed(r, k) = [k EXCEPT !.name = call[r].peer]
      BY <2>2 DEF Changed
    <3>2. /\ Changed(r, k) \in Links /\ Changed(r, k).name = call[r].peer
          /\ Changed(r, k).ns = k.ns /\ (k.addr => Changed(r, k).addr)
          /\ (k.up => Changed(r, k).up)
      <4>1. PICK m \in Ifnames : m = call[r].peer
        BY <1>4
      <4>2. /\ [k EXCEPT !.name = m] \in Links /\ [k EXCEPT !.name = m].name = m
            /\ [k EXCEPT !.name = m].ns = k.ns
            /\ k.addr => [k EXCEPT !.name = m].addr
            /\ k.up => [k EXCEPT !.name = m].up
        BY <1>3, FieldsFacts
      <4>3. Changed(r, k) = [k EXCEPT !.name = m]
        BY <3>1, <4>1
      <4>4. QED
        BY <4>1, <4>2, <4>3
    <3>3. QED
      BY <2>2, <3>2
  <2>3. CASE Op(r) \in {"hostAddr", "peerAddr"}
    <3>1. Changed(r, k) = [k EXCEPT !.addr = TRUE]
      BY <2>3 DEF Changed
    <3>2. QED
      BY <1>3, <1>4, <2>3, <3>1, FieldsFacts
  <2>4. CASE Op(r) \in {"hostUp", "peerUp"}
    BY <1>3, <1>4, <2>4, FieldsFacts DEF Changed
  <2>5. QED
    BY <1>1, <2>1, <2>2, <2>3, <2>4 DEF Alters
<1>6. link' = [link EXCEPT ![e] = l]
  BY <1>2, <1>3, <1>5 DEF AltersEnd
<1>7. QED
  BY <1>1, <1>2, <1>3, <1>5, <1>6

LEMMA AddsType ==
  ASSUME Base, NEW r \in Requests, Makes(r), NEW p \in Pairs, NEW where, NEW name,
         AddsPair(r, p, where, name)
  PROVE  /\ call[r] \in Calls /\ where \in Named \cup {Host} /\ name \in Ifnames
         /\ link[HostOf(p)] = NoLink /\ link[PeerOf(p)] = NoLink
         /\ \A q \in Requests : {hostLink[q], peerLink[q]} \cap {HostOf(p), PeerOf(p)} = {}
         /\ {HostOf(p), PeerOf(p)} \cap seen = {}
         /\ link' \in [Ends -> Links \cup {NoLink}]
         /\ link'[HostOf(p)] = Fresh(Host, call[r].host)
         /\ link'[PeerOf(p)] = Fresh(where, name)
         /\ \A e \in Ends : e # HostOf(p) /\ e # PeerOf(p) => link'[e] = link[e]
<1>1. /\ call[r] \in Calls /\ where \in Named \cup {Host} /\ name \in Ifnames
  BY MakesCall, LinksFacts DEF AddsPair, AddsAt
<1>2. link[HostOf(p)] = NoLink /\ link[PeerOf(p)] = NoLink
  <2>1. link[HostOf(p)] = NoLink /\ HostOf(p) \in Ends
    BY EndsFacts DEF AddsPair, Spare, HostOf
  <2>2. QED
    BY <2>1, EndsFacts DEF Base, Paired
<1>3. {HostOf(p), PeerOf(p)} \cap Remembered = {}
  BY DEF AddsPair, Spare, HostOf, PeerOf
<1>4. Fresh(Host, call[r].host) \in Links /\ Fresh(where, name) \in Links
  BY <1>1, LinksFacts
<1>5. HostOf(p) \in Ends /\ PeerOf(p) \in Ends /\ HostOf(p) # PeerOf(p)
  BY EndsFacts
<1>6. /\ link \in [Ends -> Links \cup {NoLink}]
      /\ link' = [link EXCEPT ![HostOf(p)] = Fresh(Host, call[r].host),
                              ![PeerOf(p)] = Fresh(where, name)]
  BY DEF AddsPair, Base, Typed
<1>7. QED
  BY <1>1, <1>2, <1>3, <1>4, <1>5, <1>6 DEF Remembered

-----------------------------------------------------------------------------
(* What the scripts have in common *)

Configures == {"hostAddr", "hostUp", "peerAddr", "peerUp", "loUp", "nsFindPeer", "findHost"}

NoneAfter(s, C, A) == \A i, k \in DOMAIN s : i < k /\ s[i].op \in C => s[k].op \notin A
SomeAfter(s, C, A) ==
  \A i \in DOMAIN s : s[i].op \in C => \E k \in DOMAIN s : i < k /\ s[k].op \in A

\* One pair is made, and nothing is looked for or changed before.
Makings(s) ==
  /\ \E i \in DOMAIN s : s[i].op \in Adds
  /\ NoneAfter(s, Work, Adds)
  /\ NoneAfter(s, Adds, Adds \cup Absents \cup {"delHost", "delTmp"})

\* A clean-up, if there is one, deletes the pair that was made.
Undoings(s) ==
  /\ \A i \in DOMAIN s : s[i].cleanup \in {<< >>, <<"delHost">>}
  /\ \A i, k \in DOMAIN s : i <= k /\ s[k].op \in Adds => s[i].cleanup = << >>

\* Each end is found before it is changed; the peer moves, takes its name and is
\* configured in that order.
Steps(s) ==
  /\ NoneAfter(s, {"hostAddr", "hostUp"}, {"findHost"})
  /\ NoneAfter(s, Work \ {"findHost", "hostAddr", "hostUp"}, {"findTmp", "findPeer"})
  /\ NoneAfter(s, {"move", "rename", "nsFindTmp", "nsFindPeer", "peerAddr", "peerUp"}, {"move"})
  /\ NoneAfter(s, {"rename", "findPeer", "nsFindPeer", "peerAddr", "peerUp"}, {"rename"})
  /\ NoneAfter(s, {"peerAddr", "peerUp"}, {"nsFindPeer"})
  /\ SomeAfter(s, {"delPeer", "nsFindTmp", "findTmp"}, {"rename"})
  /\ SomeAfter(s, {"findTmp", "findPeer"}, {"move"})
  /\ SomeAfter(s, {"move"}, {"peerAddr"}) /\ SomeAfter(s, {"move"}, {"peerUp"})

\* What follows the making of the pair, by the place its peer is made in.
Follows(s) ==
  /\ \A op \in Configures : SomeAfter(s, Adds, {op})
  /\ \A op \in {"findTmp", "move", "rename"} : SomeAfter(s, {"add"}, {op})
  /\ \A op \in {"findPeer", "move"} : SomeAfter(s, {"addPeer"}, {op})
  /\ NoneAfter(s, {"add"}, {"findPeer"})
  /\ NoneAfter(s, {"addPeer"}, {"findTmp", "nsFindTmp", "rename"})
  /\ NoneAfter(s, {"addInNs"}, {"findTmp", "findPeer", "nsFindTmp", "move", "rename"})
Shape(s) == s \in Seq(ScriptCall) /\ Makings(s) /\ Undoings(s) /\ Steps(s) /\ Follows(s)

\* Nothing is deleted but in a clean-up, or what is in the way is.
Keeps(s) == \A i \in DOMAIN s : s[i].op \notin Deletes
Clears(s) ==
  /\ \A op \in {"delHost", "delPeer"} : \E i \in DOMAIN s : s[i].op = op
  /\ \A i \in DOMAIN s : s[i].op \notin Absents
\* No peer bears its own name in the host's namespace.
Aside(s) == \A i \in DOMAIN s : s[i].op \notin {"addPeer", "findPeer"}

\* A failure of a call of A is an error; after one that is not of A the pair is deleted.
Strict(s, A) == \A i \in DOMAIN s : s[i].op \in Adds \cup A => s[i].must
Cleans(s, A) ==
  \A i, k \in DOMAIN s :
    k < i /\ s[k].op \in Adds => s[i].op \in A \/ s[i].cleanup = <<"delHost">>

\* The peer is made where it stays.
InPlace(s) == \A i \in DOMAIN s : s[i].op \notin {"move", "rename"}
\* No name is asked about, and the peer has its own at once.
Blunt(s) == \A i \in DOMAIN s : s[i].op \notin Absents \cup {"rename"}

Does(c, op) == c.op = op /\ c.must = FALSE /\ c.cleanup = << >>
Tries(c, op) == c.op = op /\ c.must = TRUE /\ c.cleanup = << >>
Undone(c, op) == c.op = op /\ c.must = TRUE /\ c.cleanup = <<"delHost">>

LEMMA WAFriend3416Facts ==
  ASSUME NEW s, s = VethWAFriend3416
  PROVE  /\ Shape(s)
         /\ Keeps(s)
         /\ Strict(s, Work)
         /\ Cleans(s, Adds)
         /\ Aside(s)
<1>1. /\ DOMAIN s = 1 .. 18
      /\ Tries(s[1], "parse")
      /\ Tries(s[2], "parse")
      /\ Tries(s[3], "openNs")
      /\ Tries(s[4], "hostAbsent")
      /\ Tries(s[5], "tmpAbsent")
      /\ Tries(s[6], "peerAbsent")
      /\ Tries(s[7], "add")
      /\ Undone(s[8], "findHost")
      /\ Undone(s[9], "findTmp")
      /\ Undone(s[10], "move")
      /\ Undone(s[11], "hostAddr")
      /\ Undone(s[12], "hostUp")
      /\ Undone(s[13], "nsFindTmp")
      /\ Undone(s[14], "rename")
      /\ Undone(s[15], "nsFindPeer")
      /\ Undone(s[16], "peerAddr")
      /\ Undone(s[17], "peerUp")
      /\ Undone(s[18], "loUp")
  BY DEF VethWAFriend3416, All, Try, Do, Does, Tries, Undone
<1>2. s \in Seq(ScriptCall)
  BY DEF VethWAFriend3416, All, Try, Do, ScriptCall, OpNames
<1>3. DOMAIN s = 1 .. 18
  BY <1>1
<1>4. s[1].op = "parse" /\ s[2].op = "parse" /\ s[3].op = "openNs"
      /\ s[4].op = "hostAbsent" /\ s[5].op = "tmpAbsent" /\ s[6].op = "peerAbsent"
      /\ s[7].op = "add" /\ s[8].op = "findHost" /\ s[9].op = "findTmp"
      /\ s[10].op = "move" /\ s[11].op = "hostAddr" /\ s[12].op = "hostUp"
      /\ s[13].op = "nsFindTmp" /\ s[14].op = "rename" /\ s[15].op = "nsFindPeer"
      /\ s[16].op = "peerAddr" /\ s[17].op = "peerUp" /\ s[18].op = "loUp"
  BY <1>1, SMTT(30) DEF Does, Tries, Undone
<1>5. /\ \A i \in DOMAIN s : i < 8 => s[i].cleanup = << >>
      /\ \A i \in DOMAIN s : i >= 8 => s[i].cleanup = <<"delHost">>
  BY <1>1, SMTT(30) DEF Does, Tries, Undone
<1>6. \A i \in DOMAIN s : s[i].must
  BY <1>1, SMTT(30) DEF Does, Tries, Undone
<1> USE DEF NoneAfter, SomeAfter, Adds, Absents, Work, PeerFinds, Alters, Configures, Deletes
<1>7. Makings(s)
  <2>1. \E i \in DOMAIN s : s[i].op \in Adds
    <3>1. 7 \in DOMAIN s /\ s[7].op \in Adds
      BY <1>3, <1>4
    <3>2. QED
      BY <3>1
  <2>2. NoneAfter(s, Work, Adds)
    BY <1>3, <1>4, SMTT(30)
  <2>3. NoneAfter(s, Adds, Adds \cup Absents \cup {"delHost", "delTmp"})
    BY <1>3, <1>4, SMTT(30)
  <2>4. QED
    BY <2>1, <2>2, <2>3 DEF Makings
<1>8. Steps(s)
  <2>1. NoneAfter(s, {"hostAddr", "hostUp"}, {"findHost"})
    BY <1>3, <1>4, SMTT(30)
  <2>2. NoneAfter(s, Work \ {"findHost", "hostAddr", "hostUp"}, {"findTmp", "findPeer"})
    BY <1>3, <1>4, SMTT(30)
  <2>3. NoneAfter(s, {"move", "rename", "nsFindTmp", "nsFindPeer", "peerAddr", "peerUp"}, {"move"})
    BY <1>3, <1>4, SMTT(30)
  <2>4. NoneAfter(s, {"rename", "findPeer", "nsFindPeer", "peerAddr", "peerUp"}, {"rename"})
    BY <1>3, <1>4, SMTT(30)
  <2>5. NoneAfter(s, {"peerAddr", "peerUp"}, {"nsFindPeer"})
    BY <1>3, <1>4, SMTT(30)
  <2>6. SomeAfter(s, {"delPeer", "nsFindTmp", "findTmp"}, {"rename"})
    BY <1>3, <1>4, SMTT(30)
  <2>7. SomeAfter(s, {"findTmp", "findPeer"}, {"move"})
    BY <1>3, <1>4, SMTT(30)
  <2>8. SomeAfter(s, {"move"}, {"peerAddr"})
    BY <1>3, <1>4, SMTT(30)
  <2>9. SomeAfter(s, {"move"}, {"peerUp"})
    BY <1>3, <1>4, SMTT(30)
  <2>10. QED
    BY <2>1, <2>2, <2>3, <2>4, <2>5, <2>6, <2>7, <2>8, <2>9 DEF Steps
<1>9. Follows(s)
  <2>1. \A op \in Configures : SomeAfter(s, Adds, {op})
    BY <1>3, <1>4, SMTT(30)
  <2>2. \A op \in {"findTmp", "move", "rename"} : SomeAfter(s, {"add"}, {op})
    BY <1>3, <1>4, SMTT(30)
  <2>3. \A op \in {"findPeer", "move"} : SomeAfter(s, {"addPeer"}, {op})
    BY <1>3, <1>4, SMTT(30)
  <2>4. NoneAfter(s, {"add"}, {"findPeer"})
    BY <1>3, <1>4, SMTT(30)
  <2>5. NoneAfter(s, {"addPeer"}, {"findTmp", "nsFindTmp", "rename"})
    BY <1>3, <1>4, SMTT(30)
  <2>6. NoneAfter(s, {"addInNs"}, {"findTmp", "findPeer", "nsFindTmp", "move", "rename"})
    BY <1>3, <1>4, SMTT(30)
  <2>7. QED
    BY <2>1, <2>2, <2>3, <2>4, <2>5, <2>6 DEF Follows
<1>10. \A k \in DOMAIN s : s[k].op \in Adds <=> k = 7
  BY <1>3, <1>4
<1>11. Undoings(s)
  <2>1. ASSUME NEW i \in DOMAIN s PROVE s[i].cleanup \in {<< >>, <<"delHost">>}
    <3>1. i < 8 \/ i >= 8
      BY <1>3
    <3>2. QED
      BY <1>5, <3>1, Zenon
  <2>2. ASSUME NEW i \in DOMAIN s, NEW k \in DOMAIN s, i <= k, s[k].op \in Adds
        PROVE  s[i].cleanup = << >>
    <3>1. i <= 7
      BY <1>3, <1>10, <2>2
    <3>2. QED
      BY <1>3, <1>5, <3>1
  <2>3. QED
    BY <2>1, <2>2 DEF Undoings
<1>12. Keeps(s)
  BY <1>3, <1>4, SMTT(30) DEF Keeps
<1>13. Strict(s, Work)
  BY <1>3, <1>4, <1>6, SMTT(30) DEF Strict
<1>14. Cleans(s, Adds)
  BY <1>3, <1>5, <1>10, SMTT(30) DEF Cleans
<1>15. Aside(s)
  BY <1>3, <1>4, SMTT(30) DEF Aside
<1>16. QED
  BY <1>2, <1>7, <1>8, <1>9, <1>10, <1>11, <1>12, <1>13, <1>14, <1>15 DEF Shape

LEMMA Gpffh20Facts ==
  ASSUME NEW s, s = VethGpffh20
  PROVE  /\ Shape(s)
         /\ Keeps(s)
         /\ Strict(s, Work)
         /\ Cleans(s, Adds)
         /\ Aside(s)
<1>1. /\ DOMAIN s = 1 .. 16
      /\ Tries(s[1], "add")
      /\ Undone(s[2], "findTmp")
      /\ Undone(s[3], "openNs")
      /\ Undone(s[4], "move")
      /\ Undone(s[5], "findHost")
      /\ Undone(s[6], "parse")
      /\ Undone(s[7], "hostAddr")
      /\ Undone(s[8], "hostUp")
      /\ Undone(s[9], "openNs")
      /\ Undone(s[10], "nsFindTmp")
      /\ Undone(s[11], "rename")
      /\ Undone(s[12], "nsFindPeer")
      /\ Undone(s[13], "parse")
      /\ Undone(s[14], "peerAddr")
      /\ Undone(s[15], "peerUp")
      /\ Undone(s[16], "loUp")
  BY DEF VethGpffh20, All, Try, Do, Does, Tries, Undone
<1>2. s \in Seq(ScriptCall)
  BY DEF VethGpffh20, All, Try, Do, ScriptCall, OpNames
<1>3. DOMAIN s = 1 .. 16
  BY <1>1
<1>4. s[1].op = "add" /\ s[2].op = "findTmp" /\ s[3].op = "openNs"
      /\ s[4].op = "move" /\ s[5].op = "findHost" /\ s[6].op = "parse"
      /\ s[7].op = "hostAddr" /\ s[8].op = "hostUp" /\ s[9].op = "openNs"
      /\ s[10].op = "nsFindTmp" /\ s[11].op = "rename" /\ s[12].op = "nsFindPeer"
      /\ s[13].op = "parse" /\ s[14].op = "peerAddr" /\ s[15].op = "peerUp"
      /\ s[16].op = "loUp"
  BY <1>1, SMTT(30) DEF Does, Tries, Undone
<1>5. /\ \A i \in DOMAIN s : i < 2 => s[i].cleanup = << >>
      /\ \A i \in DOMAIN s : i >= 2 => s[i].cleanup = <<"delHost">>
  BY <1>1, SMTT(30) DEF Does, Tries, Undone
<1>6. \A i \in DOMAIN s : s[i].must
  BY <1>1, SMTT(30) DEF Does, Tries, Undone
<1> USE DEF NoneAfter, SomeAfter, Adds, Absents, Work, PeerFinds, Alters, Configures, Deletes
<1>7. Makings(s)
  <2>1. \E i \in DOMAIN s : s[i].op \in Adds
    <3>1. 1 \in DOMAIN s /\ s[1].op \in Adds
      BY <1>3, <1>4
    <3>2. QED
      BY <3>1
  <2>2. NoneAfter(s, Work, Adds)
    BY <1>3, <1>4, SMTT(30)
  <2>3. NoneAfter(s, Adds, Adds \cup Absents \cup {"delHost", "delTmp"})
    BY <1>3, <1>4, SMTT(30)
  <2>4. QED
    BY <2>1, <2>2, <2>3 DEF Makings
<1>8. Steps(s)
  <2>1. NoneAfter(s, {"hostAddr", "hostUp"}, {"findHost"})
    BY <1>3, <1>4, SMTT(30)
  <2>2. NoneAfter(s, Work \ {"findHost", "hostAddr", "hostUp"}, {"findTmp", "findPeer"})
    BY <1>3, <1>4, SMTT(30)
  <2>3. NoneAfter(s, {"move", "rename", "nsFindTmp", "nsFindPeer", "peerAddr", "peerUp"}, {"move"})
    BY <1>3, <1>4, SMTT(30)
  <2>4. NoneAfter(s, {"rename", "findPeer", "nsFindPeer", "peerAddr", "peerUp"}, {"rename"})
    BY <1>3, <1>4, SMTT(30)
  <2>5. NoneAfter(s, {"peerAddr", "peerUp"}, {"nsFindPeer"})
    BY <1>3, <1>4, SMTT(30)
  <2>6. SomeAfter(s, {"delPeer", "nsFindTmp", "findTmp"}, {"rename"})
    BY <1>3, <1>4, SMTT(30)
  <2>7. SomeAfter(s, {"findTmp", "findPeer"}, {"move"})
    BY <1>3, <1>4, SMTT(30)
  <2>8. SomeAfter(s, {"move"}, {"peerAddr"})
    BY <1>3, <1>4, SMTT(30)
  <2>9. SomeAfter(s, {"move"}, {"peerUp"})
    BY <1>3, <1>4, SMTT(30)
  <2>10. QED
    BY <2>1, <2>2, <2>3, <2>4, <2>5, <2>6, <2>7, <2>8, <2>9 DEF Steps
<1>9. Follows(s)
  <2>1. \A op \in Configures : SomeAfter(s, Adds, {op})
    BY <1>3, <1>4, SMTT(30)
  <2>2. \A op \in {"findTmp", "move", "rename"} : SomeAfter(s, {"add"}, {op})
    BY <1>3, <1>4, SMTT(30)
  <2>3. \A op \in {"findPeer", "move"} : SomeAfter(s, {"addPeer"}, {op})
    BY <1>3, <1>4, SMTT(30)
  <2>4. NoneAfter(s, {"add"}, {"findPeer"})
    BY <1>3, <1>4, SMTT(30)
  <2>5. NoneAfter(s, {"addPeer"}, {"findTmp", "nsFindTmp", "rename"})
    BY <1>3, <1>4, SMTT(30)
  <2>6. NoneAfter(s, {"addInNs"}, {"findTmp", "findPeer", "nsFindTmp", "move", "rename"})
    BY <1>3, <1>4, SMTT(30)
  <2>7. QED
    BY <2>1, <2>2, <2>3, <2>4, <2>5, <2>6 DEF Follows
<1>10. \A k \in DOMAIN s : s[k].op \in Adds <=> k = 1
  BY <1>3, <1>4
<1>11. Undoings(s)
  <2>1. ASSUME NEW i \in DOMAIN s PROVE s[i].cleanup \in {<< >>, <<"delHost">>}
    <3>1. i < 2 \/ i >= 2
      BY <1>3
    <3>2. QED
      BY <1>5, <3>1, Zenon
  <2>2. ASSUME NEW i \in DOMAIN s, NEW k \in DOMAIN s, i <= k, s[k].op \in Adds
        PROVE  s[i].cleanup = << >>
    <3>1. i <= 1
      BY <1>3, <1>10, <2>2
    <3>2. QED
      BY <1>3, <1>5, <3>1
  <2>3. QED
    BY <2>1, <2>2 DEF Undoings
<1>12. Keeps(s)
  BY <1>3, <1>4, SMTT(30) DEF Keeps
<1>13. Strict(s, Work)
  BY <1>3, <1>4, <1>6, SMTT(30) DEF Strict
<1>14. Cleans(s, Adds)
  BY <1>3, <1>5, <1>10, SMTT(30) DEF Cleans
<1>15. Aside(s)
  BY <1>3, <1>4, SMTT(30) DEF Aside
<1>16. QED
  BY <1>2, <1>7, <1>8, <1>9, <1>10, <1>11, <1>12, <1>13, <1>14, <1>15 DEF Shape

LEMMA Yeomin4242Facts ==
  ASSUME NEW s, s = VethYeomin4242
  PROVE  /\ Shape(s)
         /\ Keeps(s)
         /\ Strict(s, Work)
         /\ Cleans(s, Adds \cup {"findHost", "findTmp"})
         /\ Aside(s)
<1>1. /\ DOMAIN s = 1 .. 19
      /\ Tries(s[1], "openNs")
      /\ Tries(s[2], "hostAbsent")
      /\ Tries(s[3], "peerAbsent")
      /\ Tries(s[4], "tmpAbsent")
      /\ Tries(s[5], "nsTmpAbsent")
      /\ Tries(s[6], "add")
      /\ Tries(s[7], "findHost")
      /\ Tries(s[8], "findTmp")
      /\ Undone(s[9], "move")
      /\ Undone(s[10], "parse")
      /\ Undone(s[11], "hostAddr")
      /\ Undone(s[12], "hostUp")
      /\ Undone(s[13], "nsFindTmp")
      /\ Undone(s[14], "rename")
      /\ Undone(s[15], "nsFindPeer")
      /\ Undone(s[16], "parse")
      /\ Undone(s[17], "peerAddr")
      /\ Undone(s[18], "peerUp")
      /\ Undone(s[19], "loUp")
  BY DEF VethYeomin4242, All, Try, Do, Does, Tries, Undone
<1>2. s \in Seq(ScriptCall)
  BY DEF VethYeomin4242, All, Try, Do, ScriptCall, OpNames
<1>3. DOMAIN s = 1 .. 19
  BY <1>1
<1>4. s[1].op = "openNs" /\ s[2].op = "hostAbsent" /\ s[3].op = "peerAbsent"
      /\ s[4].op = "tmpAbsent" /\ s[5].op = "nsTmpAbsent" /\ s[6].op = "add"
      /\ s[7].op = "findHost" /\ s[8].op = "findTmp" /\ s[9].op = "move"
      /\ s[10].op = "parse" /\ s[11].op = "hostAddr" /\ s[12].op = "hostUp"
      /\ s[13].op = "nsFindTmp" /\ s[14].op = "rename" /\ s[15].op = "nsFindPeer"
      /\ s[16].op = "parse" /\ s[17].op = "peerAddr" /\ s[18].op = "peerUp"
      /\ s[19].op = "loUp"
  BY <1>1, SMTT(30) DEF Does, Tries, Undone
<1>5. /\ \A i \in DOMAIN s : i < 9 => s[i].cleanup = << >>
      /\ \A i \in DOMAIN s : i >= 9 => s[i].cleanup = <<"delHost">>
  BY <1>1, SMTT(30) DEF Does, Tries, Undone
<1>6. \A i \in DOMAIN s : s[i].must
  BY <1>1, SMTT(30) DEF Does, Tries, Undone
<1> USE DEF NoneAfter, SomeAfter, Adds, Absents, Work, PeerFinds, Alters, Configures, Deletes
<1>7. Makings(s)
  <2>1. \E i \in DOMAIN s : s[i].op \in Adds
    <3>1. 6 \in DOMAIN s /\ s[6].op \in Adds
      BY <1>3, <1>4
    <3>2. QED
      BY <3>1
  <2>2. NoneAfter(s, Work, Adds)
    BY <1>3, <1>4, SMTT(30)
  <2>3. NoneAfter(s, Adds, Adds \cup Absents \cup {"delHost", "delTmp"})
    BY <1>3, <1>4, SMTT(30)
  <2>4. QED
    BY <2>1, <2>2, <2>3 DEF Makings
<1>8. Steps(s)
  <2>1. NoneAfter(s, {"hostAddr", "hostUp"}, {"findHost"})
    BY <1>3, <1>4, SMTT(30)
  <2>2. NoneAfter(s, Work \ {"findHost", "hostAddr", "hostUp"}, {"findTmp", "findPeer"})
    BY <1>3, <1>4, SMTT(30)
  <2>3. NoneAfter(s, {"move", "rename", "nsFindTmp", "nsFindPeer", "peerAddr", "peerUp"}, {"move"})
    BY <1>3, <1>4, SMTT(30)
  <2>4. NoneAfter(s, {"rename", "findPeer", "nsFindPeer", "peerAddr", "peerUp"}, {"rename"})
    BY <1>3, <1>4, SMTT(30)
  <2>5. NoneAfter(s, {"peerAddr", "peerUp"}, {"nsFindPeer"})
    BY <1>3, <1>4, SMTT(30)
  <2>6. SomeAfter(s, {"delPeer", "nsFindTmp", "findTmp"}, {"rename"})
    BY <1>3, <1>4, SMTT(30)
  <2>7. SomeAfter(s, {"findTmp", "findPeer"}, {"move"})
    BY <1>3, <1>4, SMTT(30)
  <2>8. SomeAfter(s, {"move"}, {"peerAddr"})
    BY <1>3, <1>4, SMTT(30)
  <2>9. SomeAfter(s, {"move"}, {"peerUp"})
    BY <1>3, <1>4, SMTT(30)
  <2>10. QED
    BY <2>1, <2>2, <2>3, <2>4, <2>5, <2>6, <2>7, <2>8, <2>9 DEF Steps
<1>9. Follows(s)
  <2>1. \A op \in Configures : SomeAfter(s, Adds, {op})
    BY <1>3, <1>4, SMTT(30)
  <2>2. \A op \in {"findTmp", "move", "rename"} : SomeAfter(s, {"add"}, {op})
    BY <1>3, <1>4, SMTT(30)
  <2>3. \A op \in {"findPeer", "move"} : SomeAfter(s, {"addPeer"}, {op})
    BY <1>3, <1>4, SMTT(30)
  <2>4. NoneAfter(s, {"add"}, {"findPeer"})
    BY <1>3, <1>4, SMTT(30)
  <2>5. NoneAfter(s, {"addPeer"}, {"findTmp", "nsFindTmp", "rename"})
    BY <1>3, <1>4, SMTT(30)
  <2>6. NoneAfter(s, {"addInNs"}, {"findTmp", "findPeer", "nsFindTmp", "move", "rename"})
    BY <1>3, <1>4, SMTT(30)
  <2>7. QED
    BY <2>1, <2>2, <2>3, <2>4, <2>5, <2>6 DEF Follows
<1>10. \A k \in DOMAIN s : s[k].op \in Adds <=> k = 6
  BY <1>3, <1>4
<1>11. Undoings(s)
  <2>1. ASSUME NEW i \in DOMAIN s PROVE s[i].cleanup \in {<< >>, <<"delHost">>}
    <3>1. i < 9 \/ i >= 9
      BY <1>3
    <3>2. QED
      BY <1>5, <3>1, Zenon
  <2>2. ASSUME NEW i \in DOMAIN s, NEW k \in DOMAIN s, i <= k, s[k].op \in Adds
        PROVE  s[i].cleanup = << >>
    <3>1. i <= 6
      BY <1>3, <1>10, <2>2
    <3>2. QED
      BY <1>3, <1>5, <3>1
  <2>3. QED
    BY <2>1, <2>2 DEF Undoings
<1>12. Keeps(s)
  BY <1>3, <1>4, SMTT(30) DEF Keeps
<1>13. Strict(s, Work)
  BY <1>3, <1>4, <1>6, SMTT(30) DEF Strict
<1>14. Cleans(s, Adds \cup {"findHost", "findTmp"})
  BY <1>3, <1>4, <1>5, <1>10, SMTT(30) DEF Cleans
<1>15. Aside(s)
  BY <1>3, <1>4, SMTT(30) DEF Aside
<1>16. QED
  BY <1>2, <1>7, <1>8, <1>9, <1>10, <1>11, <1>12, <1>13, <1>14, <1>15 DEF Shape

LEMMA StatsopsFacts ==
  ASSUME NEW s, s = VethStatsops
  PROVE  /\ Shape(s)
         /\ Clears(s)
         /\ Strict(s, Work \ {"loUp"})
         /\ Aside(s)
<1>1. /\ DOMAIN s = 1 .. 19
      /\ Tries(s[1], "openNs")
      /\ Tries(s[2], "delHost")
      /\ Tries(s[3], "delPeer")
      /\ Tries(s[4], "delTmp")
      /\ Tries(s[5], "add")
      /\ Tries(s[6], "findHost")
      /\ Tries(s[7], "findTmp")
      /\ Tries(s[8], "move")
      /\ Tries(s[9], "parse")
      /\ Tries(s[10], "hostAddr")
      /\ Tries(s[11], "hostUp")
      /\ Tries(s[12], "nsFindTmp")
      /\ Tries(s[13], "delPeer")
      /\ Tries(s[14], "rename")
      /\ Tries(s[15], "nsFindPeer")
      /\ Tries(s[16], "parse")
      /\ Tries(s[17], "peerAddr")
      /\ Tries(s[18], "peerUp")
      /\ Does(s[19], "loUp")
  BY DEF VethStatsops, All, Try, Do, Does, Tries, Undone
<1>2. s \in Seq(ScriptCall)
  BY DEF VethStatsops, All, Try, Do, ScriptCall, OpNames
<1>3. DOMAIN s = 1 .. 19
  BY <1>1
<1>4. s[1].op = "openNs" /\ s[2].op = "delHost" /\ s[3].op = "delPeer"
      /\ s[4].op = "delTmp" /\ s[5].op = "add" /\ s[6].op = "findHost"
      /\ s[7].op = "findTmp" /\ s[8].op = "move" /\ s[9].op = "parse"
      /\ s[10].op = "hostAddr" /\ s[11].op = "hostUp" /\ s[12].op = "nsFindTmp"
      /\ s[13].op = "delPeer" /\ s[14].op = "rename" /\ s[15].op = "nsFindPeer"
      /\ s[16].op = "parse" /\ s[17].op = "peerAddr" /\ s[18].op = "peerUp"
      /\ s[19].op = "loUp"
  BY <1>1, SMTT(30) DEF Does, Tries, Undone
<1>5. \A i \in DOMAIN s : s[i].cleanup = << >>
  BY <1>1, SMTT(30) DEF Does, Tries, Undone
<1>6. \A i \in DOMAIN s : s[i].must \/ i \in {19}
  BY <1>1, SMTT(30) DEF Does, Tries, Undone
<1> USE DEF NoneAfter, SomeAfter, Adds, Absents, Work, PeerFinds, Alters, Configures, Deletes
<1>7. Makings(s)
  <2>1. \E i \in DOMAIN s : s[i].op \in Adds
    <3>1. 5 \in DOMAIN s /\ s[5].op \in Adds
      BY <1>3, <1>4
    <3>2. QED
      BY <3>1
  <2>2. NoneAfter(s, Work, Adds)
    BY <1>3, <1>4, SMTT(30)
  <2>3. NoneAfter(s, Adds, Adds \cup Absents \cup {"delHost", "delTmp"})
    BY <1>3, <1>4, SMTT(30)
  <2>4. QED
    BY <2>1, <2>2, <2>3 DEF Makings
<1>8. Steps(s)
  <2>1. NoneAfter(s, {"hostAddr", "hostUp"}, {"findHost"})
    BY <1>3, <1>4, SMTT(30)
  <2>2. NoneAfter(s, Work \ {"findHost", "hostAddr", "hostUp"}, {"findTmp", "findPeer"})
    BY <1>3, <1>4, SMTT(30)
  <2>3. NoneAfter(s, {"move", "rename", "nsFindTmp", "nsFindPeer", "peerAddr", "peerUp"}, {"move"})
    BY <1>3, <1>4, SMTT(30)
  <2>4. NoneAfter(s, {"rename", "findPeer", "nsFindPeer", "peerAddr", "peerUp"}, {"rename"})
    BY <1>3, <1>4, SMTT(30)
  <2>5. NoneAfter(s, {"peerAddr", "peerUp"}, {"nsFindPeer"})
    BY <1>3, <1>4, SMTT(30)
  <2>6. SomeAfter(s, {"delPeer", "nsFindTmp", "findTmp"}, {"rename"})
    BY <1>3, <1>4, SMTT(30)
  <2>7. SomeAfter(s, {"findTmp", "findPeer"}, {"move"})
    BY <1>3, <1>4, SMTT(30)
  <2>8. SomeAfter(s, {"move"}, {"peerAddr"})
    BY <1>3, <1>4, SMTT(30)
  <2>9. SomeAfter(s, {"move"}, {"peerUp"})
    BY <1>3, <1>4, SMTT(30)
  <2>10. QED
    BY <2>1, <2>2, <2>3, <2>4, <2>5, <2>6, <2>7, <2>8, <2>9 DEF Steps
<1>9. Follows(s)
  <2>1. \A op \in Configures : SomeAfter(s, Adds, {op})
    BY <1>3, <1>4, SMTT(30)
  <2>2. \A op \in {"findTmp", "move", "rename"} : SomeAfter(s, {"add"}, {op})
    BY <1>3, <1>4, SMTT(30)
  <2>3. \A op \in {"findPeer", "move"} : SomeAfter(s, {"addPeer"}, {op})
    BY <1>3, <1>4, SMTT(30)
  <2>4. NoneAfter(s, {"add"}, {"findPeer"})
    BY <1>3, <1>4, SMTT(30)
  <2>5. NoneAfter(s, {"addPeer"}, {"findTmp", "nsFindTmp", "rename"})
    BY <1>3, <1>4, SMTT(30)
  <2>6. NoneAfter(s, {"addInNs"}, {"findTmp", "findPeer", "nsFindTmp", "move", "rename"})
    BY <1>3, <1>4, SMTT(30)
  <2>7. QED
    BY <2>1, <2>2, <2>3, <2>4, <2>5, <2>6 DEF Follows
<1>10. \A k \in DOMAIN s : s[k].op \in Adds <=> k = 5
  BY <1>3, <1>4
<1>11. Undoings(s)
  BY <1>3, <1>5, <1>10 DEF Undoings
<1>12. Clears(s)
  BY <1>3, <1>4, SMTT(30) DEF Clears
<1>13. Strict(s, Work \ {"loUp"})
  BY <1>3, <1>4, <1>6, SMTT(30) DEF Strict
<1>14. Aside(s)
  BY <1>3, <1>4, SMTT(30) DEF Aside
<1>15. QED
  BY <1>2, <1>7, <1>8, <1>9, <1>10, <1>11, <1>12, <1>13, <1>14 DEF Shape

LEMMA SaguanamuFacts ==
  ASSUME NEW s, s = VethSaguanamu
  PROVE  /\ Shape(s)
         /\ Clears(s)
         /\ Strict(s, Work)
         /\ Aside(s)
<1>1. /\ DOMAIN s = 1 .. 19
      /\ Tries(s[1], "openNs")
      /\ Tries(s[2], "delHost")
      /\ Tries(s[3], "delPeer")
      /\ Tries(s[4], "delTmp")
      /\ Tries(s[5], "add")
      /\ Tries(s[6], "findHost")
      /\ Tries(s[7], "findTmp")
      /\ Tries(s[8], "move")
      /\ Tries(s[9], "parse")
      /\ Tries(s[10], "hostAddr")
      /\ Tries(s[11], "hostUp")
      /\ Tries(s[12], "nsFindTmp")
      /\ Tries(s[13], "delPeer")
      /\ Tries(s[14], "rename")
      /\ Tries(s[15], "nsFindPeer")
      /\ Tries(s[16], "parse")
      /\ Tries(s[17], "peerAddr")
      /\ Tries(s[18], "peerUp")
      /\ Tries(s[19], "loUp")
  BY DEF VethSaguanamu, All, Try, Do, Does, Tries, Undone
<1>2. s \in Seq(ScriptCall)
  BY DEF VethSaguanamu, All, Try, Do, ScriptCall, OpNames
<1>3. DOMAIN s = 1 .. 19
  BY <1>1
<1>4. s[1].op = "openNs" /\ s[2].op = "delHost" /\ s[3].op = "delPeer"
      /\ s[4].op = "delTmp" /\ s[5].op = "add" /\ s[6].op = "findHost"
      /\ s[7].op = "findTmp" /\ s[8].op = "move" /\ s[9].op = "parse"
      /\ s[10].op = "hostAddr" /\ s[11].op = "hostUp" /\ s[12].op = "nsFindTmp"
      /\ s[13].op = "delPeer" /\ s[14].op = "rename" /\ s[15].op = "nsFindPeer"
      /\ s[16].op = "parse" /\ s[17].op = "peerAddr" /\ s[18].op = "peerUp"
      /\ s[19].op = "loUp"
  BY <1>1, SMTT(30) DEF Does, Tries, Undone
<1>5. \A i \in DOMAIN s : s[i].cleanup = << >>
  BY <1>1, SMTT(30) DEF Does, Tries, Undone
<1>6. \A i \in DOMAIN s : s[i].must
  BY <1>1, SMTT(30) DEF Does, Tries, Undone
<1> USE DEF NoneAfter, SomeAfter, Adds, Absents, Work, PeerFinds, Alters, Configures, Deletes
<1>7. Makings(s)
  <2>1. \E i \in DOMAIN s : s[i].op \in Adds
    <3>1. 5 \in DOMAIN s /\ s[5].op \in Adds
      BY <1>3, <1>4
    <3>2. QED
      BY <3>1
  <2>2. NoneAfter(s, Work, Adds)
    BY <1>3, <1>4, SMTT(30)
  <2>3. NoneAfter(s, Adds, Adds \cup Absents \cup {"delHost", "delTmp"})
    BY <1>3, <1>4, SMTT(30)
  <2>4. QED
    BY <2>1, <2>2, <2>3 DEF Makings
<1>8. Steps(s)
  <2>1. NoneAfter(s, {"hostAddr", "hostUp"}, {"findHost"})
    BY <1>3, <1>4, SMTT(30)
  <2>2. NoneAfter(s, Work \ {"findHost", "hostAddr", "hostUp"}, {"findTmp", "findPeer"})
    BY <1>3, <1>4, SMTT(30)
  <2>3. NoneAfter(s, {"move", "rename", "nsFindTmp", "nsFindPeer", "peerAddr", "peerUp"}, {"move"})
    BY <1>3, <1>4, SMTT(30)
  <2>4. NoneAfter(s, {"rename", "findPeer", "nsFindPeer", "peerAddr", "peerUp"}, {"rename"})
    BY <1>3, <1>4, SMTT(30)
  <2>5. NoneAfter(s, {"peerAddr", "peerUp"}, {"nsFindPeer"})
    BY <1>3, <1>4, SMTT(30)
  <2>6. SomeAfter(s, {"delPeer", "nsFindTmp", "findTmp"}, {"rename"})
    BY <1>3, <1>4, SMTT(30)
  <2>7. SomeAfter(s, {"findTmp", "findPeer"}, {"move"})
    BY <1>3, <1>4, SMTT(30)
  <2>8. SomeAfter(s, {"move"}, {"peerAddr"})
    BY <1>3, <1>4, SMTT(30)
  <2>9. SomeAfter(s, {"move"}, {"peerUp"})
    BY <1>3, <1>4, SMTT(30)
  <2>10. QED
    BY <2>1, <2>2, <2>3, <2>4, <2>5, <2>6, <2>7, <2>8, <2>9 DEF Steps
<1>9. Follows(s)
  <2>1. \A op \in Configures : SomeAfter(s, Adds, {op})
    BY <1>3, <1>4, SMTT(30)
  <2>2. \A op \in {"findTmp", "move", "rename"} : SomeAfter(s, {"add"}, {op})
    BY <1>3, <1>4, SMTT(30)
  <2>3. \A op \in {"findPeer", "move"} : SomeAfter(s, {"addPeer"}, {op})
    BY <1>3, <1>4, SMTT(30)
  <2>4. NoneAfter(s, {"add"}, {"findPeer"})
    BY <1>3, <1>4, SMTT(30)
  <2>5. NoneAfter(s, {"addPeer"}, {"findTmp", "nsFindTmp", "rename"})
    BY <1>3, <1>4, SMTT(30)
  <2>6. NoneAfter(s, {"addInNs"}, {"findTmp", "findPeer", "nsFindTmp", "move", "rename"})
    BY <1>3, <1>4, SMTT(30)
  <2>7. QED
    BY <2>1, <2>2, <2>3, <2>4, <2>5, <2>6 DEF Follows
<1>10. \A k \in DOMAIN s : s[k].op \in Adds <=> k = 5
  BY <1>3, <1>4
<1>11. Undoings(s)
  BY <1>3, <1>5, <1>10 DEF Undoings
<1>12. Clears(s)
  BY <1>3, <1>4, SMTT(30) DEF Clears
<1>13. Strict(s, Work)
  BY <1>3, <1>4, <1>6, SMTT(30) DEF Strict
<1>14. Aside(s)
  BY <1>3, <1>4, SMTT(30) DEF Aside
<1>15. QED
  BY <1>2, <1>7, <1>8, <1>9, <1>10, <1>11, <1>12, <1>13, <1>14 DEF Shape

LEMMA LnauraFacts ==
  ASSUME NEW s, s = VethLnaura
  PROVE  /\ Shape(s)
         /\ Clears(s)
         /\ Strict(s, Work \ {"loUp"})
         /\ Aside(s)
<1>1. /\ DOMAIN s = 1 .. 18
      /\ Tries(s[1], "parse")
      /\ Tries(s[2], "parse")
      /\ Tries(s[3], "openNs")
      /\ Does(s[4], "delHost")
      /\ Does(s[5], "delPeer")
      /\ Does(s[6], "delTmp")
      /\ Tries(s[7], "add")
      /\ Tries(s[8], "findTmp")
      /\ Tries(s[9], "move")
      /\ Tries(s[10], "findHost")
      /\ Tries(s[11], "hostAddr")
      /\ Tries(s[12], "hostUp")
      /\ Tries(s[13], "nsFindTmp")
      /\ Tries(s[14], "rename")
      /\ Tries(s[15], "nsFindPeer")
      /\ Tries(s[16], "peerAddr")
      /\ Tries(s[17], "peerUp")
      /\ Does(s[18], "loUp")
  BY DEF VethLnaura, All, Try, Do, Does, Tries, Undone
<1>2. s \in Seq(ScriptCall)
  BY DEF VethLnaura, All, Try, Do, ScriptCall, OpNames
<1>3. DOMAIN s = 1 .. 18
  BY <1>1
<1>4. s[1].op = "parse" /\ s[2].op = "parse" /\ s[3].op = "openNs"
      /\ s[4].op = "delHost" /\ s[5].op = "delPeer" /\ s[6].op = "delTmp"
      /\ s[7].op = "add" /\ s[8].op = "findTmp" /\ s[9].op = "move"
      /\ s[10].op = "findHost" /\ s[11].op = "hostAddr" /\ s[12].op = "hostUp"
      /\ s[13].op = "nsFindTmp" /\ s[14].op = "rename" /\ s[15].op = "nsFindPeer"
      /\ s[16].op = "peerAddr" /\ s[17].op = "peerUp" /\ s[18].op = "loUp"
  BY <1>1, SMTT(30) DEF Does, Tries, Undone
<1>5. \A i \in DOMAIN s : s[i].cleanup = << >>
  BY <1>1, SMTT(30) DEF Does, Tries, Undone
<1>6. \A i \in DOMAIN s : s[i].must \/ i \in {4, 5, 6, 18}
  BY <1>1, SMTT(30) DEF Does, Tries, Undone
<1> USE DEF NoneAfter, SomeAfter, Adds, Absents, Work, PeerFinds, Alters, Configures, Deletes
<1>7. Makings(s)
  <2>1. \E i \in DOMAIN s : s[i].op \in Adds
    <3>1. 7 \in DOMAIN s /\ s[7].op \in Adds
      BY <1>3, <1>4
    <3>2. QED
      BY <3>1
  <2>2. NoneAfter(s, Work, Adds)
    BY <1>3, <1>4, SMTT(30)
  <2>3. NoneAfter(s, Adds, Adds \cup Absents \cup {"delHost", "delTmp"})
    BY <1>3, <1>4, SMTT(30)
  <2>4. QED
    BY <2>1, <2>2, <2>3 DEF Makings
<1>8. Steps(s)
  <2>1. NoneAfter(s, {"hostAddr", "hostUp"}, {"findHost"})
    BY <1>3, <1>4, SMTT(30)
  <2>2. NoneAfter(s, Work \ {"findHost", "hostAddr", "hostUp"}, {"findTmp", "findPeer"})
    BY <1>3, <1>4, SMTT(30)
  <2>3. NoneAfter(s, {"move", "rename", "nsFindTmp", "nsFindPeer", "peerAddr", "peerUp"}, {"move"})
    BY <1>3, <1>4, SMTT(30)
  <2>4. NoneAfter(s, {"rename", "findPeer", "nsFindPeer", "peerAddr", "peerUp"}, {"rename"})
    BY <1>3, <1>4, SMTT(30)
  <2>5. NoneAfter(s, {"peerAddr", "peerUp"}, {"nsFindPeer"})
    BY <1>3, <1>4, SMTT(30)
  <2>6. SomeAfter(s, {"delPeer", "nsFindTmp", "findTmp"}, {"rename"})
    BY <1>3, <1>4, SMTT(30)
  <2>7. SomeAfter(s, {"findTmp", "findPeer"}, {"move"})
    BY <1>3, <1>4, SMTT(30)
  <2>8. SomeAfter(s, {"move"}, {"peerAddr"})
    BY <1>3, <1>4, SMTT(30)
  <2>9. SomeAfter(s, {"move"}, {"peerUp"})
    BY <1>3, <1>4, SMTT(30)
  <2>10. QED
    BY <2>1, <2>2, <2>3, <2>4, <2>5, <2>6, <2>7, <2>8, <2>9 DEF Steps
<1>9. Follows(s)
  <2>1. \A op \in Configures : SomeAfter(s, Adds, {op})
    BY <1>3, <1>4, SMTT(30)
  <2>2. \A op \in {"findTmp", "move", "rename"} : SomeAfter(s, {"add"}, {op})
    BY <1>3, <1>4, SMTT(30)
  <2>3. \A op \in {"findPeer", "move"} : SomeAfter(s, {"addPeer"}, {op})
    BY <1>3, <1>4, SMTT(30)
  <2>4. NoneAfter(s, {"add"}, {"findPeer"})
    BY <1>3, <1>4, SMTT(30)
  <2>5. NoneAfter(s, {"addPeer"}, {"findTmp", "nsFindTmp", "rename"})
    BY <1>3, <1>4, SMTT(30)
  <2>6. NoneAfter(s, {"addInNs"}, {"findTmp", "findPeer", "nsFindTmp", "move", "rename"})
    BY <1>3, <1>4, SMTT(30)
  <2>7. QED
    BY <2>1, <2>2, <2>3, <2>4, <2>5, <2>6 DEF Follows
<1>10. \A k \in DOMAIN s : s[k].op \in Adds <=> k = 7
  BY <1>3, <1>4
<1>11. Undoings(s)
  BY <1>3, <1>5, <1>10 DEF Undoings
<1>12. Clears(s)
  BY <1>3, <1>4, SMTT(30) DEF Clears
<1>13. Strict(s, Work \ {"loUp"})
  BY <1>3, <1>4, <1>6, SMTT(30) DEF Strict
<1>14. Aside(s)
  BY <1>3, <1>4, SMTT(30) DEF Aside
<1>15. QED
  BY <1>2, <1>7, <1>8, <1>9, <1>10, <1>11, <1>12, <1>13, <1>14 DEF Shape

LEMMA KhsAltFacts ==
  ASSUME NEW s, s = VethKhsAlt
  PROVE  /\ Shape(s)
         /\ Keeps(s)
         /\ Strict(s, Work)
         /\ InPlace(s)
         /\ Aside(s)
<1>1. /\ DOMAIN s = 1 .. 11
      /\ Tries(s[1], "openNs")
      /\ Tries(s[2], "addInNs")
      /\ Tries(s[3], "findHost")
      /\ Tries(s[4], "parse")
      /\ Tries(s[5], "hostAddr")
      /\ Tries(s[6], "hostUp")
      /\ Tries(s[7], "nsFindPeer")
      /\ Tries(s[8], "parse")
      /\ Tries(s[9], "peerAddr")
      /\ Tries(s[10], "peerUp")
      /\ Tries(s[11], "loUp")
  BY DEF VethKhsAlt, All, Try, Do, Does, Tries, Undone
<1>2. s \in Seq(ScriptCall)
  BY DEF VethKhsAlt, All, Try, Do, ScriptCall, OpNames
<1>3. DOMAIN s = 1 .. 11
  BY <1>1
<1>4. s[1].op = "openNs" /\ s[2].op = "addInNs" /\ s[3].op = "findHost"
      /\ s[4].op = "parse" /\ s[5].op = "hostAddr" /\ s[6].op = "hostUp"
      /\ s[7].op = "nsFindPeer" /\ s[8].op = "parse" /\ s[9].op = "peerAddr"
      /\ s[10].op = "peerUp" /\ s[11].op = "loUp"
  BY <1>1, SMTT(30) DEF Does, Tries, Undone
<1>5. \A i \in DOMAIN s : s[i].cleanup = << >>
  BY <1>1, SMTT(30) DEF Does, Tries, Undone
<1>6. \A i \in DOMAIN s : s[i].must
  BY <1>1, SMTT(30) DEF Does, Tries, Undone
<1> USE DEF NoneAfter, SomeAfter, Adds, Absents, Work, PeerFinds, Alters, Configures, Deletes
<1>7. Makings(s)
  <2>1. \E i \in DOMAIN s : s[i].op \in Adds
    <3>1. 2 \in DOMAIN s /\ s[2].op \in Adds
      BY <1>3, <1>4
    <3>2. QED
      BY <3>1
  <2>2. NoneAfter(s, Work, Adds)
    BY <1>3, <1>4, SMTT(30)
  <2>3. NoneAfter(s, Adds, Adds \cup Absents \cup {"delHost", "delTmp"})
    BY <1>3, <1>4, SMTT(30)
  <2>4. QED
    BY <2>1, <2>2, <2>3 DEF Makings
<1>8. Steps(s)
  <2>1. NoneAfter(s, {"hostAddr", "hostUp"}, {"findHost"})
    BY <1>3, <1>4, SMTT(30)
  <2>2. NoneAfter(s, Work \ {"findHost", "hostAddr", "hostUp"}, {"findTmp", "findPeer"})
    BY <1>3, <1>4, SMTT(30)
  <2>3. NoneAfter(s, {"move", "rename", "nsFindTmp", "nsFindPeer", "peerAddr", "peerUp"}, {"move"})
    BY <1>3, <1>4, SMTT(30)
  <2>4. NoneAfter(s, {"rename", "findPeer", "nsFindPeer", "peerAddr", "peerUp"}, {"rename"})
    BY <1>3, <1>4, SMTT(30)
  <2>5. NoneAfter(s, {"peerAddr", "peerUp"}, {"nsFindPeer"})
    BY <1>3, <1>4, SMTT(30)
  <2>6. SomeAfter(s, {"delPeer", "nsFindTmp", "findTmp"}, {"rename"})
    BY <1>3, <1>4, SMTT(30)
  <2>7. SomeAfter(s, {"findTmp", "findPeer"}, {"move"})
    BY <1>3, <1>4, SMTT(30)
  <2>8. SomeAfter(s, {"move"}, {"peerAddr"})
    BY <1>3, <1>4, SMTT(30)
  <2>9. SomeAfter(s, {"move"}, {"peerUp"})
    BY <1>3, <1>4, SMTT(30)
  <2>10. QED
    BY <2>1, <2>2, <2>3, <2>4, <2>5, <2>6, <2>7, <2>8, <2>9 DEF Steps
<1>9. Follows(s)
  <2>1. \A op \in Configures : SomeAfter(s, Adds, {op})
    BY <1>3, <1>4, SMTT(30)
  <2>2. \A op \in {"findTmp", "move", "rename"} : SomeAfter(s, {"add"}, {op})
    BY <1>3, <1>4, SMTT(30)
  <2>3. \A op \in {"findPeer", "move"} : SomeAfter(s, {"addPeer"}, {op})
    BY <1>3, <1>4, SMTT(30)
  <2>4. NoneAfter(s, {"add"}, {"findPeer"})
    BY <1>3, <1>4, SMTT(30)
  <2>5. NoneAfter(s, {"addPeer"}, {"findTmp", "nsFindTmp", "rename"})
    BY <1>3, <1>4, SMTT(30)
  <2>6. NoneAfter(s, {"addInNs"}, {"findTmp", "findPeer", "nsFindTmp", "move", "rename"})
    BY <1>3, <1>4, SMTT(30)
  <2>7. QED
    BY <2>1, <2>2, <2>3, <2>4, <2>5, <2>6 DEF Follows
<1>10. \A k \in DOMAIN s : s[k].op \in Adds <=> k = 2
  BY <1>3, <1>4
<1>11. Undoings(s)
  BY <1>3, <1>5, <1>10 DEF Undoings
<1>12. Keeps(s)
  BY <1>3, <1>4, SMTT(30) DEF Keeps
<1>13. Strict(s, Work)
  BY <1>3, <1>4, <1>6, SMTT(30) DEF Strict
<1>14. InPlace(s)
  BY <1>3, <1>4, SMTT(30) DEF InPlace
<1>15. Aside(s)
  BY <1>3, <1>4, SMTT(30) DEF Aside
<1>16. QED
  BY <1>2, <1>7, <1>8, <1>9, <1>10, <1>11, <1>12, <1>13, <1>14, <1>15 DEF Shape

LEMMA Joseng8908Facts ==
  ASSUME NEW s, s = VethJoseng8908
  PROVE  /\ Shape(s)
         /\ Keeps(s)
         /\ Strict(s, PeerFinds)
         /\ Blunt(s)
<1>1. /\ DOMAIN s = 1 .. 14
      /\ Tries(s[1], "addPeer")
      /\ Tries(s[2], "openNs")
      /\ Tries(s[3], "parse")
      /\ Does(s[4], "findHost")
      /\ Does(s[5], "hostAddr")
      /\ Does(s[6], "hostUp")
      /\ Tries(s[7], "findPeer")
      /\ Does(s[8], "move")
      /\ Tries(s[9], "openNs")
      /\ Tries(s[10], "nsFindPeer")
      /\ Tries(s[11], "parse")
      /\ Tries(s[12], "peerAddr")
      /\ Does(s[13], "peerUp")
      /\ Does(s[14], "loUp")
  BY DEF VethJoseng8908, All, Try, Do, Does, Tries, Undone
<1>2. s \in Seq(ScriptCall)
  BY DEF VethJoseng8908, All, Try, Do, ScriptCall, OpNames
<1>3. DOMAIN s = 1 .. 14
  BY <1>1
<1>4. s[1].op = "addPeer" /\ s[2].op = "openNs" /\ s[3].op = "parse"
      /\ s[4].op = "findHost" /\ s[5].op = "hostAddr" /\ s[6].op = "hostUp"
      /\ s[7].op = "findPeer" /\ s[8].op = "move" /\ s[9].op = "openNs"
      /\ s[10].op = "nsFindPeer" /\ s[11].op = "parse" /\ s[12].op = "peerAddr"
      /\ s[13].op = "peerUp" /\ s[14].op = "loUp"
  BY <1>1, SMTT(30) DEF Does, Tries, Undone
<1>5. \A i \in DOMAIN s : s[i].cleanup = << >>
  BY <1>1, SMTT(30) DEF Does, Tries, Undone
<1>6. \A i \in DOMAIN s : s[i].must \/ i \in {4, 5, 6, 8, 13, 14}
  BY <1>1, SMTT(30) DEF Does, Tries, Undone
<1> USE DEF NoneAfter, SomeAfter, Adds, Absents, Work, PeerFinds, Alters, Configures, Deletes
<1>7. Makings(s)
  <2>1. \E i \in DOMAIN s : s[i].op \in Adds
    <3>1. 1 \in DOMAIN s /\ s[1].op \in Adds
      BY <1>3, <1>4
    <3>2. QED
      BY <3>1
  <2>2. NoneAfter(s, Work, Adds)
    BY <1>3, <1>4, SMTT(30)
  <2>3. NoneAfter(s, Adds, Adds \cup Absents \cup {"delHost", "delTmp"})
    BY <1>3, <1>4, SMTT(30)
  <2>4. QED
    BY <2>1, <2>2, <2>3 DEF Makings
<1>8. Steps(s)
  <2>1. NoneAfter(s, {"hostAddr", "hostUp"}, {"findHost"})
    BY <1>3, <1>4, SMTT(30)
  <2>2. NoneAfter(s, Work \ {"findHost", "hostAddr", "hostUp"}, {"findTmp", "findPeer"})
    BY <1>3, <1>4, SMTT(30)
  <2>3. NoneAfter(s, {"move", "rename", "nsFindTmp", "nsFindPeer", "peerAddr", "peerUp"}, {"move"})
    BY <1>3, <1>4, SMTT(30)
  <2>4. NoneAfter(s, {"rename", "findPeer", "nsFindPeer", "peerAddr", "peerUp"}, {"rename"})
    BY <1>3, <1>4, SMTT(30)
  <2>5. NoneAfter(s, {"peerAddr", "peerUp"}, {"nsFindPeer"})
    BY <1>3, <1>4, SMTT(30)
  <2>6. SomeAfter(s, {"delPeer", "nsFindTmp", "findTmp"}, {"rename"})
    BY <1>3, <1>4, SMTT(30)
  <2>7. SomeAfter(s, {"findTmp", "findPeer"}, {"move"})
    BY <1>3, <1>4, SMTT(30)
  <2>8. SomeAfter(s, {"move"}, {"peerAddr"})
    BY <1>3, <1>4, SMTT(30)
  <2>9. SomeAfter(s, {"move"}, {"peerUp"})
    BY <1>3, <1>4, SMTT(30)
  <2>10. QED
    BY <2>1, <2>2, <2>3, <2>4, <2>5, <2>6, <2>7, <2>8, <2>9 DEF Steps
<1>9. Follows(s)
  <2>1. \A op \in Configures : SomeAfter(s, Adds, {op})
    BY <1>3, <1>4, SMTT(30)
  <2>2. \A op \in {"findTmp", "move", "rename"} : SomeAfter(s, {"add"}, {op})
    BY <1>3, <1>4, SMTT(30)
  <2>3. \A op \in {"findPeer", "move"} : SomeAfter(s, {"addPeer"}, {op})
    BY <1>3, <1>4, SMTT(30)
  <2>4. NoneAfter(s, {"add"}, {"findPeer"})
    BY <1>3, <1>4, SMTT(30)
  <2>5. NoneAfter(s, {"addPeer"}, {"findTmp", "nsFindTmp", "rename"})
    BY <1>3, <1>4, SMTT(30)
  <2>6. NoneAfter(s, {"addInNs"}, {"findTmp", "findPeer", "nsFindTmp", "move", "rename"})
    BY <1>3, <1>4, SMTT(30)
  <2>7. QED
    BY <2>1, <2>2, <2>3, <2>4, <2>5, <2>6 DEF Follows
<1>10. \A k \in DOMAIN s : s[k].op \in Adds <=> k = 1
  BY <1>3, <1>4
<1>11. Undoings(s)
  BY <1>3, <1>5, <1>10 DEF Undoings
<1>12. Keeps(s)
  BY <1>3, <1>4, SMTT(30) DEF Keeps
<1>13. Strict(s, PeerFinds)
  BY <1>3, <1>4, <1>6, SMTT(30) DEF Strict
<1>14. Blunt(s)
  BY <1>3, <1>4, SMTT(30) DEF Blunt
<1>15. QED
  BY <1>2, <1>7, <1>8, <1>9, <1>10, <1>11, <1>12, <1>13, <1>14 DEF Shape

-----------------------------------------------------------------------------
LEMMA ScriptFacts ==
  /\ Servers = {"WAFriend3416", "gpffh20", "yeomin4242", "statsops", "saguanamu", "lnaura",
                "khsAlt", "Joseng8908"}
  /\ \A v \in Servers : Shape(Script[v])
  /\ \A v \in Servers \ {"Joseng8908"} : Aside(Script[v])
  /\ \A v \in CleansUp \cup {"khsAlt", "saguanamu"} : Strict(Script[v], Work)
  /\ \A v \in {"statsops", "lnaura"} : Strict(Script[v], Work \ {"loUp"})
  /\ Strict(Script["Joseng8908"], PeerFinds) /\ Blunt(Script["Joseng8908"])
  /\ \A v \in CleansUp \cup {"khsAlt", "Joseng8908"} : Keeps(Script[v])
  /\ \A v \in Replaces : Clears(Script[v])
  /\ InPlace(Script["khsAlt"])
  /\ \A v \in {"WAFriend3416", "gpffh20"} : Cleans(Script[v], Adds)
  /\ Cleans(Script["yeomin4242"], Adds \cup {"findHost", "findTmp"})
<1>1. Servers = {"WAFriend3416", "gpffh20", "yeomin4242", "statsops", "saguanamu", "lnaura",
                 "khsAlt", "Joseng8908"}
  BY DEF Servers, Script
<1>2. /\ Script["WAFriend3416"] = VethWAFriend3416 /\ Script["gpffh20"] = VethGpffh20
      /\ Script["yeomin4242"] = VethYeomin4242 /\ Script["statsops"] = VethStatsops
      /\ Script["saguanamu"] = VethSaguanamu /\ Script["lnaura"] = VethLnaura
      /\ Script["khsAlt"] = VethKhsAlt /\ Script["Joseng8908"] = VethJoseng8908
  BY DEF Script
<1>3. QED
  BY <1>1, <1>2, WAFriend3416Facts, Gpffh20Facts, Yeomin4242Facts, StatsopsFacts,
     SaguanamuFacts, LnauraFacts, KhsAltFacts, Joseng8908Facts DEF CleansUp, Replaces

\* The rest of a script, and the next call in it.
LEMMA RestsSelf ==
  ASSUME NEW s \in Seq(ScriptCall)
  PROVE  s \in Rests(s) /\ << >> \in Rests(s)
<1>1. 1 \in 1 .. Len(s) + 1 /\ Len(s) + 1 \in 1 .. Len(s) + 1
  OBVIOUS
<1>2. SubSeq(s, 1, Len(s)) = s /\ SubSeq(s, Len(s) + 1, Len(s)) = << >>
  OBVIOUS
<1>3. QED
  BY <1>1, <1>2 DEF Rests

LEMMA RestsNext ==
  ASSUME NEW s \in Seq(ScriptCall), NEW t \in Rests(s), t # << >>
  PROVE  \E i \in DOMAIN s :
           /\ Head(t) = s[i] /\ t = SubSeq(s, i, Len(s))
           /\ Tail(t) \in Rests(s) /\ Tail(t) = SubSeq(s, i + 1, Len(s))
<1>1. PICK i \in 1 .. Len(s) + 1 : t = SubSeq(s, i, Len(s))
  BY DEF Rests
<1>2. i <= Len(s)
  BY <1>1
<1>3. Tail(t) = SubSeq(s, i + 1, Len(s)) /\ Head(t) = s[i]
  BY <1>1, <1>2
<1>4. i + 1 \in 1 .. Len(s) + 1 /\ i \in DOMAIN s
  BY <1>2
<1>5. QED
  BY <1>1, <1>3, <1>4 DEF Rests

\* A call of A is among those still to make.
Ahead(t, A) == \E k \in DOMAIN t : t[k].op \in A

LEMMA AheadRest ==
  ASSUME NEW s \in Seq(ScriptCall), NEW i \in 1 .. Len(s) + 1, NEW A
  PROVE  Ahead(SubSeq(s, i, Len(s)), A) <=> \E k \in DOMAIN s : k >= i /\ s[k].op \in A
<1> DEFINE t == SubSeq(s, i, Len(s))
<1>1. DOMAIN t = 1 .. Len(s) - i + 1 /\ \A k \in DOMAIN t : t[k] = s[i + k - 1]
  OBVIOUS
<1>2. ASSUME NEW k \in DOMAIN t, t[k].op \in A
      PROVE  \E l \in DOMAIN s : l >= i /\ s[l].op \in A
  <2>1. i + k - 1 \in DOMAIN s /\ i + k - 1 >= i
    BY <1>1
  <2>2. QED
    BY <1>1, <1>2, <2>1
<1>3. ASSUME NEW k \in DOMAIN s, k >= i, s[k].op \in A
      PROVE  \E l \in DOMAIN t : t[l].op \in A
  <2>1. k - i + 1 \in DOMAIN t /\ i + (k - i + 1) - 1 = k
    BY <1>1, <1>3
  <2>2. t[k - i + 1] = s[k]
    BY <1>1, <2>1
  <2>3. QED
    BY <1>3, <2>1, <2>2
<1>4. QED
  BY <1>2, <1>3 DEF Ahead

LEMMA AheadNext ==
  ASSUME NEW s \in Seq(ScriptCall), NEW t \in Rests(s), t # << >>
  PROVE  /\ \A A : Ahead(t, A) <=> Head(t).op \in A \/ Ahead(Tail(t), A)
         /\ \A C, A : NoneAfter(s, C, A) /\ Head(t).op \in C => ~Ahead(Tail(t), A)
         /\ \A C, A : SomeAfter(s, C, A) /\ Head(t).op \in C => Ahead(Tail(t), A)
<1>1. PICK i \in DOMAIN s : Head(t) = s[i] /\ t = SubSeq(s, i, Len(s)) /\ Tail(t) = SubSeq(s, i + 1, Len(s))
  BY RestsNext
<1>2. i \in 1 .. Len(s) + 1 /\ i + 1 \in 1 .. Len(s) + 1 /\ DOMAIN s = 1 .. Len(s)
  OBVIOUS
<1>3. ASSUME NEW A
      PROVE  /\ Ahead(t, A) <=> \E k \in DOMAIN s : k >= i /\ s[k].op \in A
             /\ Ahead(Tail(t), A) <=> \E k \in DOMAIN s : k >= i + 1 /\ s[k].op \in A
  BY <1>1, <1>2, AheadRest
<1>4. ASSUME NEW A PROVE Ahead(t, A) <=> Head(t).op \in A \/ Ahead(Tail(t), A)
  <2>1. \A k \in DOMAIN s : k >= i <=> k = i \/ k >= i + 1
    BY <1>2
  <2>2. QED
    BY <1>1, <1>3, <2>1
<1>5. ASSUME NEW C, NEW A, NoneAfter(s, C, A), Head(t).op \in C PROVE ~Ahead(Tail(t), A)
  <2>1. \A k \in DOMAIN s : k >= i + 1 => i < k
    BY <1>2
  <2>2. QED
    BY <1>1, <1>3, <1>5, <2>1 DEF NoneAfter
<1>6. ASSUME NEW C, NEW A, SomeAfter(s, C, A), Head(t).op \in C PROVE Ahead(Tail(t), A)
  <2>1. \A k \in DOMAIN s : i < k => k >= i + 1
    BY <1>2
  <2>2. QED
    BY <1>1, <1>3, <1>6, <2>1 DEF SomeAfter
<1>7. QED
  BY <1>4, <1>5, <1>6

LEMMA AheadMono ==
  ASSUME NEW t, NEW A, NEW B, A \subseteq B, Ahead(t, A)
  PROVE  Ahead(t, B)
BY DEF Ahead

\* What the next call tells of those after it.
LEMMA NextFacts ==
  ASSUME NEW s, Shape(s), NEW t \in Rests(s), t # << >>, NEW op, op = Head(t).op
  PROVE  /\ op \in Work => ~Ahead(t, Adds)
         /\ op \in Adds => ~Ahead(Tail(t), Adds) /\ \A x \in Configures : Ahead(Tail(t), {x})
         /\ op = "add" => /\ Ahead(Tail(t), {"findTmp", "findPeer"})
                          /\ Ahead(Tail(t), {"move"}) /\ Ahead(Tail(t), {"rename"})
         /\ op = "addPeer" => /\ Ahead(Tail(t), {"findTmp", "findPeer"})
                              /\ Ahead(Tail(t), {"move"}) /\ ~Ahead(Tail(t), {"rename"})
         /\ op = "addInNs" => ~Ahead(Tail(t), {"move"}) /\ ~Ahead(Tail(t), {"rename"})
         /\ op \in {"delHost", "delTmp"} \cup Absents => Ahead(t, Adds)
         /\ op = "delPeer" => Ahead(t, {"rename"})
         /\ op \in {"hostAddr", "hostUp"} => ~Ahead(t, {"findHost"})
         /\ op \in {"findTmp", "findPeer", "move", "rename"} =>
              ~Ahead(Tail(t), {"findTmp", "findPeer"})
         /\ op \in {"findTmp", "findPeer"} => Ahead(t, {"move"})
         /\ op = "findTmp" => Ahead(t, {"rename"})
         /\ op = "findPeer" => ~Ahead(t, {"rename"})
         /\ op = "nsFindTmp" => Ahead(t, {"rename"}) /\ ~Ahead(t, {"move"})
         /\ op = "move" => /\ ~Ahead(Tail(t), {"move"})
                           /\ Ahead(Tail(t), {"peerAddr"}) /\ Ahead(Tail(t), {"peerUp"})
         /\ op = "rename" => ~Ahead(t, {"move"}) /\ ~Ahead(Tail(t), {"rename"})
         /\ op \in {"nsFindPeer", "peerAddr", "peerUp"} => ~Ahead(t, {"move"}) /\ ~Ahead(t, {"rename"})
         /\ op \in {"peerAddr", "peerUp"} => ~Ahead(t, {"nsFindPeer"})
         /\ Head(t).cleanup \in {<< >>, <<"delHost">>}
         /\ Head(t).cleanup # << >> => ~Ahead(t, Adds)
         /\ Tail(t) \in Rests(s)
<1> s \in Seq(ScriptCall)
  BY DEF Shape
<1> DEFINE After1(A) == Ahead(Tail(t), A)
<1>1. ASSUME NEW A PROVE Ahead(t, A) <=> op \in A \/ After1(A)
  BY AheadNext
<1>2. ASSUME NEW C, NEW A, NoneAfter(s, C, A), op \in C PROVE ~After1(A)
  BY <1>2, AheadNext
<1>3. ASSUME NEW C, NEW A, SomeAfter(s, C, A), op \in C PROVE After1(A)
  BY <1>3, AheadNext
<1>4. PICK i \in DOMAIN s : Head(t) = s[i] /\ t = SubSeq(s, i, Len(s)) /\ Tail(t) \in Rests(s)
  BY RestsNext
<1>5. \A A : Ahead(t, A) <=> \E k \in DOMAIN s : k >= i /\ s[k].op \in A
  BY <1>4, AheadRest
<1> HIDE DEF After1
<1>6. op \in Work => ~Ahead(t, Adds)
  <2>1. NoneAfter(s, Work, Adds) /\ Work \cap Adds = {}
    BY DEF Shape, Makings, Work, Adds, PeerFinds, Alters
  <2>2. QED
    BY <1>1, <1>2, <2>1
<1>7. op \in Adds => ~After1(Adds) /\ \A x \in Configures : After1({x})
  <2>1. NoneAfter(s, Adds, Adds \cup Absents \cup {"delHost", "delTmp"})
        /\ \A x \in Configures : SomeAfter(s, Adds, {x})
    BY DEF Shape, Makings, Follows
  <2>2. op \in Adds => ~After1(Adds \cup Absents \cup {"delHost", "delTmp"})
    BY <1>2, <2>1
  <2>3. After1(Adds) => After1(Adds \cup Absents \cup {"delHost", "delTmp"})
    BY AheadMono DEF After1
  <2>4. op \in Adds => \A x \in Configures : After1({x})
    BY <1>3, <2>1
  <2>5. QED
    BY <2>2, <2>3, <2>4
<1>8. op = "add" => After1({"findTmp", "findPeer"}) /\ After1({"move"}) /\ After1({"rename"})
  <2>1. SomeAfter(s, {"add"}, {"findTmp"}) /\ SomeAfter(s, {"add"}, {"move"}) /\ SomeAfter(s, {"add"}, {"rename"})
    BY DEF Shape, Follows
  <2>2. op = "add" => After1({"findTmp"}) /\ After1({"move"}) /\ After1({"rename"})
    BY <1>3, <2>1
  <2>3. After1({"findTmp"}) => After1({"findTmp", "findPeer"})
    BY AheadMono DEF After1
  <2>4. QED
    BY <2>2, <2>3
<1>9. op = "addPeer" => After1({"findTmp", "findPeer"}) /\ After1({"move"}) /\ ~After1({"rename"})
  <2>1. SomeAfter(s, {"addPeer"}, {"findPeer"}) /\ SomeAfter(s, {"addPeer"}, {"move"})
        /\ NoneAfter(s, {"addPeer"}, {"findTmp", "nsFindTmp", "rename"})
    BY DEF Shape, Follows
  <2>2. op = "addPeer" => After1({"findPeer"}) /\ After1({"move"})
                          /\ ~After1({"findTmp", "nsFindTmp", "rename"})
    BY <1>2, <1>3, <2>1
  <2>3. /\ After1({"findPeer"}) => After1({"findTmp", "findPeer"})
        /\ After1({"rename"}) => After1({"findTmp", "nsFindTmp", "rename"})
    BY AheadMono DEF After1
  <2>4. QED
    BY <2>2, <2>3
<1>10. op = "addInNs" => ~After1({"move"}) /\ ~After1({"rename"})
  <2>1. NoneAfter(s, {"addInNs"}, {"findTmp", "findPeer", "nsFindTmp", "move", "rename"})
    BY DEF Shape, Follows
  <2>2. op = "addInNs" => ~After1({"findTmp", "findPeer", "nsFindTmp", "move", "rename"})
    BY <1>2, <2>1
  <2>3. /\ After1({"move"}) => After1({"findTmp", "findPeer", "nsFindTmp", "move", "rename"})
        /\ After1({"rename"}) => After1({"findTmp", "findPeer", "nsFindTmp", "move", "rename"})
    BY AheadMono DEF After1
  <2>4. QED
    BY <2>2, <2>3
<1>11. op \in {"delHost", "delTmp"} \cup Absents => Ahead(t, Adds)
  <2>1. PICK j \in DOMAIN s : s[j].op \in Adds
    BY DEF Shape, Makings
  <2>2. NoneAfter(s, Adds, Adds \cup Absents \cup {"delHost", "delTmp"})
    BY DEF Shape, Makings
  <2>3. op \in {"delHost", "delTmp"} \cup Absents => ~(j < i)
    BY <1>4, <2>1, <2>2 DEF NoneAfter
  <2>4. j >= i \/ j < i
    OBVIOUS
  <2>5. QED
    BY <1>5, <2>1, <2>3, <2>4
<1>12. /\ op \in {"delPeer", "findTmp", "nsFindTmp"} => After1({"rename"})
       /\ op \in {"findTmp", "findPeer"} => After1({"move"})
       /\ op = "move" => After1({"peerAddr"}) /\ After1({"peerUp"})
  <2>1. /\ SomeAfter(s, {"delPeer", "nsFindTmp", "findTmp"}, {"rename"})
        /\ SomeAfter(s, {"findTmp", "findPeer"}, {"move"})
        /\ SomeAfter(s, {"move"}, {"peerAddr"}) /\ SomeAfter(s, {"move"}, {"peerUp"})
    BY DEF Shape, Steps
  <2>2. QED
    BY <1>3, <2>1
<1>13. /\ op \in {"hostAddr", "hostUp"} => ~After1({"findHost"})
       /\ op \in {"findTmp", "findPeer", "move", "rename"} => ~After1({"findTmp", "findPeer"})
  <2>1. /\ NoneAfter(s, {"hostAddr", "hostUp"}, {"findHost"})
        /\ NoneAfter(s, Work \ {"findHost", "hostAddr", "hostUp"}, {"findTmp", "findPeer"})
    BY DEF Shape, Steps
  <2>2. {"findTmp", "findPeer", "move", "rename"} \subseteq Work \ {"findHost", "hostAddr", "hostUp"}
    BY DEF Work, PeerFinds, Alters
  <2>3. QED
    BY <1>2, <2>1, <2>2
<1>14. /\ op \in {"move", "rename", "nsFindTmp", "nsFindPeer", "peerAddr", "peerUp"} => ~After1({"move"})
       /\ op \in {"rename", "findPeer", "nsFindPeer", "peerAddr", "peerUp"} => ~After1({"rename"})
       /\ op \in {"peerAddr", "peerUp"} => ~After1({"nsFindPeer"})
  <2>1. /\ NoneAfter(s, {"move", "rename", "nsFindTmp", "nsFindPeer", "peerAddr", "peerUp"}, {"move"})
        /\ NoneAfter(s, {"rename", "findPeer", "nsFindPeer", "peerAddr", "peerUp"}, {"rename"})
        /\ NoneAfter(s, {"peerAddr", "peerUp"}, {"nsFindPeer"})
    BY DEF Shape, Steps
  <2>2. QED
    BY <1>2, <2>1
<1>15. /\ Head(t).cleanup \in {<< >>, <<"delHost">>}
       /\ Head(t).cleanup # << >> => ~Ahead(t, Adds)
  <2>1. \A k \in DOMAIN s : k >= i => i <= k
    OBVIOUS
  <2>2. QED
    BY <1>4, <1>5, <2>1 DEF Shape, Undoings
<1>16. /\ op = "delPeer" => Ahead(t, {"rename"})
       /\ op \in {"hostAddr", "hostUp"} => ~Ahead(t, {"findHost"})
       /\ op \in {"findTmp", "findPeer"} => Ahead(t, {"move"})
       /\ op = "findTmp" => Ahead(t, {"rename"})
       /\ op = "findPeer" => ~Ahead(t, {"rename"})
       /\ op = "nsFindTmp" => Ahead(t, {"rename"}) /\ ~Ahead(t, {"move"})
       /\ op = "rename" => ~Ahead(t, {"move"})
       /\ op \in {"nsFindPeer", "peerAddr", "peerUp"} => ~Ahead(t, {"move"}) /\ ~Ahead(t, {"rename"})
       /\ op \in {"peerAddr", "peerUp"} => ~Ahead(t, {"nsFindPeer"})
  BY <1>1, <1>12, <1>13, <1>14
<1>17. QED
  BY <1>4, <1>6, <1>7, <1>8, <1>9, <1>10, <1>11, <1>12, <1>13, <1>14, <1>15, <1>16 DEF After1

-----------------------------------------------------------------------------
(* The invariant of every server *)

LEMMA QuietDelHost ==
  /\ Quietly(<<"delHost">>) \in Seq(ScriptCall) /\ Quietly(<<"delHost">>) # << >>
  /\ Head(Quietly(<<"delHost">>)).op = "delHost" /\ Head(Quietly(<<"delHost">>)).must = FALSE
  /\ Tail(Quietly(<<"delHost">>)) = << >> /\ Quietly(<< >>) = << >>
  /\ \A A : Ahead(Quietly(<<"delHost">>), A) <=> "delHost" \in A
<1>1. <<"delHost">> \in Seq(OpNames) /\ << >> \in Seq(OpNames)
  BY DEF OpNames
<1> DEFINE q == Quietly(<<"delHost">>)
<1>2. PICK c \in Seq(OpNames) : c = <<"delHost">>
  BY <1>1
<1>3. q \in Seq(ScriptCall) /\ DOMAIN q = 1 .. 1
  <2>1. Quietly(c) \in Seq(ScriptCall) /\ DOMAIN Quietly(c) = DOMAIN c
    BY QuietlyType
  <2>2. DOMAIN c = 1 .. 1
    BY <1>2
  <2>3. QED
    BY <1>2, <2>1, <2>2
<1>4. q[1].op = "delHost" /\ q[1].must = FALSE
  <2>1. 1 \in DOMAIN c /\ c[1] = "delHost"
    BY <1>2
  <2>2. QED
    BY <1>2, <2>1, QuietlyType
<1>5. Quietly(<< >>) = << >>
  <2>1. PICK d \in Seq(OpNames) : d = << >>
    BY <1>1
  <2>2. Quietly(d) \in Seq(ScriptCall) /\ DOMAIN Quietly(d) = DOMAIN d
    BY QuietlyType
  <2>3. QED
    BY <2>1, <2>2
<1> HIDE DEF q
<1>6. Len(q) = 1
  BY <1>3
<1>7. Head(q) = q[1] /\ Tail(q) = << >> /\ q # << >>
  <2>1. q # << >>
    BY <1>6, SMTT(30)
  <2>2. Tail(q) \in Seq(ScriptCall) /\ DOMAIN Tail(q) = 1 .. 0 /\ Head(q) = q[1]
    BY <1>3, <1>6, <2>1, HeadTail
  <2>3. PICK t \in Seq(ScriptCall) : t = Tail(q)
    BY <2>2
  <2>4. Len(t) \in Nat /\ DOMAIN t = 1 .. Len(t) /\ 1 \notin DOMAIN t
    BY <2>2, <2>3
  <2>5. t = << >>
    BY <2>4
  <2>6. QED
    BY <2>1, <2>2, <2>3, <2>5
<1>8. \A A : Ahead(q, A) <=> "delHost" \in A
  BY <1>3, <1>4 DEF Ahead
<1>9. QED
  BY <1>3, <1>4, <1>5, <1>7, <1>8 DEF q

\* The script that is run.
Mine == Script[setting.server]

LEMMA MineFacts ==
  ASSUME Typed
  PROVE  /\ setting.server \in Servers /\ Mine \in Seq(ScriptCall) /\ Shape(Mine)
         /\ setting.clients \in {"any", "serial", "polite"} /\ setting.mayFail \in SUBSET Failures
BY SettingsAssumption, ScriptFacts DEF Typed, Mine, Shape

\* A request that makes a call has no error behind it, or deletes its pair.
LEMMA MakesRest ==
  ASSUME Base, NEW r \in Requests, Makes(r)
  PROVE  /\ ok[r] => todo[r] \in Rests(Mine)
         /\ ~ok[r] => todo[r] = Quietly(<<"delHost">>) /\ Op(r) = "delHost"
         /\ GivesUp(r) => ok[r] /\ Head(todo[r]).cleanup \in {<< >>, <<"delHost">>}
         /\ GoesOn(r) \/ GivesUp(r)
<1>1. todo[r] # << >> /\ Typed /\ Planned(r) /\ (GoesOn(r) \/ GivesUp(r)) /\ Op(r) = Head(todo[r]).op
  BY MakesCall, MakesFrame DEF Base
<1>2. ok[r] => todo[r] \in Rests(Mine)
  BY <1>1 DEF Planned, Mine
<1>3. ~ok[r] => todo[r] = Quietly(<<"delHost">>)
  BY <1>1 DEF Planned
<1>4. ~ok[r] => Op(r) = "delHost" /\ ~GivesUp(r)
  BY <1>1, <1>3, QuietDelHost DEF GivesUp
<1>5. ok[r] => Head(todo[r]).cleanup \in {<< >>, <<"delHost">>}
  BY <1>1, <1>2, MineFacts, NextFacts
<1>6. QED
  BY <1>1, <1>2, <1>3, <1>4, <1>5

LEMMA MakesPlanned ==
  ASSUME Base, NEW r \in Requests, Makes(r)
  PROVE  /\ \A q \in Requests : Planned(q)'
         /\ todo' \in [Requests -> Seq(ScriptCall)] /\ ok' \in [Requests -> BOOLEAN]
         /\ \A q \in Requests \ {r} : todo'[q] = todo[q] /\ ok'[q] = ok[q]
         /\ GoesOn(r) => todo'[r] = Tail(todo[r]) /\ ok'[r] = ok[r]
         /\ GivesUp(r) => /\ todo'[r] = Quietly(Head(todo[r]).cleanup) /\ ~ok'[r]
                          /\ todo'[r] \in {<< >>, Quietly(<<"delHost">>)}
<1>1. /\ Typed /\ setting' = setting /\ call' = call /\ call[r] # NoCall /\ todo[r] # << >>
      /\ todo[r] \in Seq(ScriptCall) /\ \A q \in Requests : Planned(q)
  BY MakesFrame, MakesCall, LinksFacts DEF Base
<1>2. CASE GoesOn(r)
  <2>1. /\ todo' = [todo EXCEPT ![r] = Tail(todo[r])] /\ ok' = ok
        /\ Tail(todo[r]) \in Seq(ScriptCall)
    BY <1>1, <1>2, HeadTail DEF GoesOn
  <2>2. ok[r] => Tail(todo[r]) \in Rests(Mine)
    BY <1>1, MakesRest, MineFacts, NextFacts
  <2>3. ~ok[r] => Tail(todo[r]) = << >>
    BY MakesRest, QuietDelHost
  <2>4. todo'[r] = Tail(todo[r]) /\ \A q \in Requests \ {r} : todo'[q] = todo[q]
    BY <1>1, <2>1 DEF Typed
  <2>5. ASSUME NEW q \in Requests PROVE Planned(q)'
    BY <1>1, <2>1, <2>2, <2>3, <2>4 DEF Planned, Mine
  <2>6. todo' \in [Requests -> Seq(ScriptCall)]
    BY <1>1, <2>1 DEF Typed
  <2>7. GivesUp(r) => ~ok[r] /\ ok[r]
    BY <1>1, <2>1, MakesRest DEF GivesUp, Typed
  <2>8. QED
    BY <1>1, <2>1, <2>4, <2>5, <2>6, <2>7 DEF Typed
<1>3. CASE GivesUp(r)
  <2>1. /\ todo' = [todo EXCEPT ![r] = Quietly(Head(todo[r]).cleanup)]
        /\ ok' = [ok EXCEPT ![r] = FALSE]
    BY <1>3 DEF GivesUp
  <2>2. /\ Quietly(Head(todo[r]).cleanup) \in {<< >>, Quietly(<<"delHost">>)}
        /\ Quietly(Head(todo[r]).cleanup) \in Seq(ScriptCall)
    <3>1. Head(todo[r]).cleanup \in {<< >>, <<"delHost">>}
      BY <1>3, MakesRest
    <3>2. << >> \in Seq(ScriptCall)
      OBVIOUS
    <3>3. CASE Head(todo[r]).cleanup = << >>
      BY <3>2, <3>3, QuietDelHost
    <3>4. CASE Head(todo[r]).cleanup = <<"delHost">>
      BY <3>4, QuietDelHost
    <3>5. QED
      BY <3>1, <3>3, <3>4
  <2>3. /\ todo'[r] = Quietly(Head(todo[r]).cleanup) /\ ~ok'[r]
        /\ \A q \in Requests \ {r} : todo'[q] = todo[q] /\ ok'[q] = ok[q]
    BY <1>1, <2>1 DEF Typed
  <2>4. ASSUME NEW q \in Requests PROVE Planned(q)'
    BY <1>1, <2>2, <2>3 DEF Planned
  <2>5. todo' \in [Requests -> Seq(ScriptCall)] /\ ok' \in [Requests -> BOOLEAN]
    BY <1>1, <2>1, <2>2 DEF Typed
  <2>6. GoesOn(r) => ok'[r] = ok[r] /\ ok[r]
    BY <1>3, MakesRest DEF GoesOn
  <2>7. QED
    BY <2>2, <2>3, <2>4, <2>5, <2>6
<1>4. QED
  BY <1>2, <1>3, MakesRest

\* What a deletion leaves.
LEMMA DeletesType ==
  ASSUME Base, NEW es \in SUBSET Ends, Delete(es)
  PROVE  /\ link' \in [Ends -> Links \cup {NoLink}] /\ given' \in SUBSET Ends
         /\ \A e \in Ends : IF e \in es \/ OtherEnd(e) \in es
                            THEN link'[e] = NoLink /\ e \notin given'
                            ELSE link'[e] = link[e] /\ (e \in given' <=> e \in given)
<1>1. \A e \in Ends : e \in {OtherEnd(f) : f \in es} <=> OtherEnd(e) \in es
  BY EndsFacts
<1>2. QED
  BY <1>1 DEF Delete, Base, Typed

LEMMA FoundByEnds ==
  ASSUME NEW r \in Requests
  PROVE  FoundBy(r) \in SUBSET Ends
BY DEF FoundBy, Found

LEMMA MakesLinks ==
  ASSUME Base, NEW r \in Requests, Makes(r)
  PROVE  /\ link' \in [Ends -> Links \cup {NoLink}] /\ given' \in SUBSET Ends
         /\ Paired' /\ Unique'
<1> USE DEF Paired, Unique
<1>1. Typed /\ Paired /\ Unique /\ call[r] \in Calls
  BY MakesCall DEF Base
<1>2. CASE KeepsLinks(r)
  BY <1>1, <1>2 DEF KeepsLinks, Typed
<1>3. CASE DeletesLinks(r)
  BY <1>1, <1>3, DeletesType, FoundByEnds, EndsFacts DEF DeletesLinks
<1>4. ASSUME NEW p \in Pairs, NEW where, NEW name, AddsPair(r, p, where, name)
      PROVE  /\ link' \in [Ends -> Links \cup {NoLink}] /\ given' \in SUBSET Ends
             /\ Paired' /\ Unique'
  <2>1. /\ where \in Named \cup {Host} /\ name \in Ifnames
        /\ link[HostOf(p)] = NoLink /\ link[PeerOf(p)] = NoLink
        /\ link' \in [Ends -> Links \cup {NoLink}]
        /\ link'[HostOf(p)] = Fresh(Host, call[r].host)
        /\ link'[PeerOf(p)] = Fresh(where, name)
        /\ \A e \in Ends : e # HostOf(p) /\ e # PeerOf(p) => link'[e] = link[e]
    BY <1>4, AddsType
  <2>2. /\ Fresh(Host, call[r].host) # NoLink /\ Fresh(where, name) # NoLink
        /\ Fresh(Host, call[r].host).ns = Host /\ Fresh(Host, call[r].host).name = call[r].host
        /\ Fresh(where, name).ns = where /\ Fresh(where, name).name = name
    <3>1. /\ Host \in Named \cup {Host} /\ call[r].host \in Ifnames
          /\ Fresh(Host, call[r].host) \in Links /\ Fresh(where, name) \in Links
      BY <1>1, <2>1, LinksFacts
    <3>2. QED
      BY <2>1, <3>1, LinksFacts, ZenonT(30)
  <2>3. HostOf(p) \in Ends /\ PeerOf(p) \in Ends /\ OtherEnd(HostOf(p)) = PeerOf(p) /\ OtherEnd(PeerOf(p)) = HostOf(p)
    BY EndsFacts
  <2>4. ASSUME NEW e \in Ends PROVE link'[e] = NoLink <=> link'[OtherEnd(e)] = NoLink
    <3>1. CASE e = HostOf(p) \/ e = PeerOf(p)
      BY <2>1, <2>2, <2>3, <3>1
    <3>2. CASE e # HostOf(p) /\ e # PeerOf(p)
      <4>1. OtherEnd(e) # HostOf(p) /\ OtherEnd(e) # PeerOf(p) /\ OtherEnd(e) \in Ends
        BY <2>3, <3>2, EndsFacts
      <4>2. QED
        BY <1>1, <2>1, <3>2, <4>1
    <3>3. QED
      BY <3>1, <3>2
  <2>5. \A e \in Ends : link[e] # NoLink =>
          /\ link[e].ns # Host \/ link[e].name # call[r].host
          /\ link[e].ns # where \/ link[e].name # name
    BY <1>4 DEF AddsPair, Found
  <2>6. where # Host \/ name # call[r].host
    BY <1>4 DEF AddsPair
  <2>7. ASSUME NEW e \in Ends, NEW f \in Ends, e # f, link'[e] # NoLink, link'[f] # NoLink
        PROVE  link'[e].ns # link'[f].ns \/ link'[e].name # link'[f].name
    <3>1. CASE e \in {HostOf(p), PeerOf(p)} /\ f \in {HostOf(p), PeerOf(p)}
      BY <2>1, <2>2, <2>6, <2>7, <3>1
    <3>2. CASE e \in {HostOf(p), PeerOf(p)} /\ f \notin {HostOf(p), PeerOf(p)}
      BY <2>1, <2>2, <2>5, <2>7, <3>2
    <3>3. CASE e \notin {HostOf(p), PeerOf(p)} /\ f \in {HostOf(p), PeerOf(p)}
      BY <2>1, <2>2, <2>5, <2>7, <3>3
    <3>4. CASE e \notin {HostOf(p), PeerOf(p)} /\ f \notin {HostOf(p), PeerOf(p)}
      BY <1>1, <2>1, <2>7, <3>4
    <3>5. QED
      BY <3>1, <3>2, <3>3, <3>4
  <2>8. given' \in SUBSET Ends
    BY <1>1, <1>4 DEF AddsPair, Typed
  <2>9. QED
    BY <2>1, <2>4, <2>7, <2>8
<1>5. CASE AltersEnd(r)
  <2>1. PICK e \in Ends, l \in Links :
           /\ link[e] \in Links /\ link' = [link EXCEPT ![e] = l] /\ e = Subject(r)
           /\ Op(r) = "move" => l = Fresh(call[r].ns, link[e].name)
           /\ Op(r) = "rename" => l.ns = link[e].ns /\ l.name = call[r].peer
           /\ Op(r) \notin {"move", "rename"} => l.ns = link[e].ns /\ l.name = link[e].name
           /\ link[e].ns = Where(r)
    BY <1>5, AltersType
  <2>2. link \in [Ends -> Links \cup {NoLink}] /\ given' \in SUBSET Ends
    BY <1>1, <1>5 DEF AltersEnd, Typed
  <2>3. l # NoLink /\ link[e] # NoLink
    BY <2>1, LinksFacts
  <2>4. link'[e] = l /\ \A f \in Ends \ {e} : link'[f] = link[f]
    BY <2>1, <2>2
  <2>5. \A f \in Ends \ {e} : link[f] # NoLink => link[f].ns # l.ns \/ link[f].name # l.name
    <3>1. CASE Op(r) = "move"
      <4>1. e = peerLink[r] /\ Found(call[r].ns, link[e].name) = {}
        BY <1>5, <2>1, <3>1 DEF AltersEnd, Possible, Subject, Where
      <4>2. l.ns = call[r].ns /\ l.name = link[e].name
        BY <1>1, <2>1, <3>1, LinksFacts
      <4>3. QED
        BY <4>1, <4>2 DEF Found
    <3>2. CASE Op(r) = "rename"
      <4>1. Found(call[r].ns, call[r].peer) = {} /\ l.ns = call[r].ns /\ l.name = call[r].peer
        BY <1>5, <2>1, <3>2 DEF AltersEnd, Possible, Where
      <4>2. QED
        BY <4>1 DEF Found
    <3>3. CASE Op(r) \notin {"move", "rename"}
      BY <1>1, <2>1, <2>3, <3>3
    <3>4. QED
      BY <3>1, <3>2, <3>3
  <2>6. Unique'
    BY <1>1, <2>4, <2>5
  <2>7. Paired'
    <3>1. \A f \in Ends : link'[f] = NoLink <=> link[f] = NoLink
      BY <2>3, <2>4
    <3>2. QED
      BY <1>1, <3>1, EndsFacts
  <2>8. link' \in [Ends -> Links \cup {NoLink}]
    BY <2>1, <2>2
  <2>9. QED
    BY <2>2, <2>6, <2>7, <2>8
<1>6. QED
  BY <1>2, <1>3, <1>4, <1>5, LinkMoves

LEMMA MakesBase ==
  ASSUME Base, NEW r \in Requests, Makes(r)
  PROVE  Base'
<1>1. /\ setting' = setting /\ calm' = calm /\ call' = call /\ due' = due
  BY MakesFrame
<1>2. /\ link' \in [Ends -> Links \cup {NoLink}] /\ given' \in SUBSET Ends
      /\ Paired' /\ Unique'
  BY MakesLinks
<1>3. /\ \A q \in Requests : Planned(q)'
      /\ todo' \in [Requests -> Seq(ScriptCall)] /\ ok' \in [Requests -> BOOLEAN]
  BY MakesPlanned
<1>4. hostLink' \in [Requests -> Ends \cup {NoEnd}] /\ peerLink' \in [Requests -> Ends \cup {NoEnd}]
  <2>1. hostLink' = hostLink \/ \E e \in Ends : hostLink' = [hostLink EXCEPT ![r] = e]
    BY LocalMoves, FoundByEnds DEF FindsHost
  <2>2. peerLink' = peerLink \/ \E e \in Ends : peerLink' = [peerLink EXCEPT ![r] = e]
    BY LocalMoves, FoundByEnds DEF FindsPeer
  <2>3. QED
    BY <2>1, <2>2 DEF Base, Typed
<1>5. loUp' \in SUBSET Named
  <2>1. loUp' = loUp \/ loUp' = loUp \cup {call[r].ns}
    BY LocalMoves
  <2>2. call[r].ns \in Named
    BY MakesCall, LinksFacts
  <2>3. QED
    BY <2>1, <2>2 DEF Base, Typed
<1>6. Typed'
  BY <1>1, <1>2, <1>3, <1>4, <1>5 DEF Base, Typed
<1>7. QED
  BY <1>2, <1>3, <1>6 DEF Base

\* What an answer, a new request and the environment leave.
LEMMA AnswersType ==
  ASSUME Base, NEW r \in Requests, Answer(r)
  PROVE  /\ call[r] \in Calls /\ todo[r] = << >>
         /\ setting' = setting /\ link' = link /\ loUp' = loUp /\ calm' = calm
         /\ todo' = todo /\ ok' = ok /\ seen' = seen
         /\ call'[r] = NoCall /\ hostLink'[r] = NoEnd /\ peerLink'[r] = NoEnd /\ due'[r] = FALSE
         /\ \A q \in Requests \ {r} : /\ call'[q] = call[q] /\ hostLink'[q] = hostLink[q]
                                      /\ peerLink'[q] = peerLink[q] /\ due'[q] = due[q]
         /\ given \subseteq given'
         /\ \A e \in Ends : e \in given' \ given => ok[r] /\ (e \in Made(call[r]) \/ OtherEnd(e) \in Made(call[r]))
         /\ ok[r] => \A e \in Made(call[r]) : e \in given' /\ OtherEnd(e) \in given'
         /\ Base'
<1>1. /\ call[r] \in Calls /\ call[r] # NoCall /\ todo[r] = << >>
      /\ setting' = setting /\ link' = link /\ loUp' = loUp /\ calm' = calm
      /\ todo' = todo /\ ok' = ok /\ seen' = seen
      /\ call' = [call EXCEPT ![r] = NoCall]
      /\ hostLink' = [hostLink EXCEPT ![r] = NoEnd]
      /\ peerLink' = [peerLink EXCEPT ![r] = NoEnd]
      /\ due' = [due EXCEPT ![r] = FALSE]
  BY DEF Answer, Answering, kernelVars, Base, Typed
<1>2. /\ call'[r] = NoCall /\ hostLink'[r] = NoEnd /\ peerLink'[r] = NoEnd /\ due'[r] = FALSE
      /\ \A q \in Requests \ {r} : /\ call'[q] = call[q] /\ hostLink'[q] = hostLink[q]
                                   /\ peerLink'[q] = peerLink[q] /\ due'[q] = due[q]
      /\ call' \in [Requests -> Calls \cup {NoCall}] /\ due' \in [Requests -> BOOLEAN]
      /\ hostLink' \in [Requests -> Ends \cup {NoEnd}] /\ peerLink' \in [Requests -> Ends \cup {NoEnd}]
  BY <1>1 DEF Base, Typed
<1>3. /\ given \subseteq given' /\ given' \in SUBSET Ends
      /\ \A e \in Ends : e \in given' \ given => ok[r] /\ (e \in Made(call[r]) \/ OtherEnd(e) \in Made(call[r]))
      /\ ok[r] => \A e \in Made(call[r]) : e \in given' /\ OtherEnd(e) \in given'
  <2>1. given' = IF ok[r] THEN given \cup Made(call[r]) \cup {OtherEnd(e) : e \in Made(call[r])}
                          ELSE given
    BY DEF Answer
  <2>2. Made(call[r]) \in SUBSET Ends /\ \A e \in Made(call[r]) : OtherEnd(e) \in Ends /\ OtherEnd(OtherEnd(e)) = e
    BY EndsFacts DEF Made
  <2>3. given \in SUBSET Ends
    BY DEF Base, Typed
  <2>4. QED
    BY <2>1, <2>2, <2>3
<1>4. ASSUME NEW q \in Requests PROVE Planned(q)'
  BY <1>1, <1>2 DEF Base, Planned
<1>5. Base'
  BY <1>1, <1>2, <1>3, <1>4 DEF Base, Typed, Paired, Unique
<1>6. QED
  BY <1>1, <1>2, <1>3, <1>5

LEMMA AcceptsType ==
  ASSUME Base, NEW r \in Requests, NEW c \in Calls, Accept(r, c)
  PROVE  /\ call[r] = NoCall
         /\ UNCHANGED <<setting, link, loUp, seen, calm, given, hostLink, peerLink>>
         /\ call'[r] = c /\ todo'[r] = Mine /\ ok'[r] = TRUE
         /\ \A q \in Requests \ {r} : call'[q] = call[q] /\ todo'[q] = todo[q] /\ ok'[q] = ok[q]
         /\ Base'
<1>1. /\ call[r] = NoCall
      /\ UNCHANGED <<setting, link, loUp, seen, calm, given, hostLink, peerLink>>
      /\ call' = [call EXCEPT ![r] = c]
      /\ todo' = [todo EXCEPT ![r] = Mine] /\ ok' = [ok EXCEPT ![r] = TRUE]
  BY DEF Accept, kernelVars, Mine
<1>2. Mine \in Seq(ScriptCall) /\ Mine \in Rests(Mine)
  BY MineFacts, RestsSelf DEF Base
<1>3. /\ call'[r] = c /\ todo'[r] = Mine /\ ok'[r] = TRUE
      /\ \A q \in Requests \ {r} : call'[q] = call[q] /\ todo'[q] = todo[q] /\ ok'[q] = ok[q]
      /\ call' \in [Requests -> Calls \cup {NoCall}] /\ ok' \in [Requests -> BOOLEAN]
      /\ todo' \in [Requests -> Seq(ScriptCall)]
  BY <1>1, <1>2 DEF Base, Typed
<1>4. due' \in [Requests -> BOOLEAN]
  <2>1. PICK b \in BOOLEAN : due' = [q \in Requests |-> q = r /\ b]
    <3> DEFINE alone == \A q \in Requests : call[q] = NoCall
               b0 == alone /\ calm /\ (setting.server \in Replaces \/ NamesFree(c))
    <3>1. due' = [q \in Requests |-> q = r /\ b0]
      BY DEF Accept
    <3>2. QED
      BY <3>1
  <2>2. QED
    BY <2>1
<1>5. ASSUME NEW q \in Requests PROVE Planned(q)'
  BY <1>1, <1>2, <1>3, LinksFacts DEF Base, Planned, Mine
<1>6. Base'
  BY <1>1, <1>3, <1>4, <1>5 DEF Base, Typed, Paired, Unique
<1>7. QED
  BY <1>1, <1>3, <1>6

LEMMA TakesDownType ==
  ASSUME Base, NEW e \in Ends, TakenDown(e)
  PROVE  /\ \A r \in Requests : call[r] = NoCall
         /\ setting.clients = "polite" /\ e \in given
         /\ UNCHANGED <<setting, loUp, seen, calm, requestVars>>
         /\ \A f \in Ends : IF f = e \/ OtherEnd(f) = e
                            THEN link'[f] = NoLink /\ f \notin given'
                            ELSE link'[f] = link[f] /\ (f \in given' <=> f \in given)
         /\ Base'
<1>1. /\ \A r \in Requests : call[r] = NoCall
      /\ setting.clients = "polite" /\ e \in given
      /\ UNCHANGED <<setting, loUp, seen, calm, requestVars>> /\ Delete({e})
  BY DEF TakenDown
<1>2. /\ link' \in [Ends -> Links \cup {NoLink}] /\ given' \in SUBSET Ends
      /\ \A f \in Ends : IF f = e \/ OtherEnd(f) = e
                         THEN link'[f] = NoLink /\ f \notin given'
                         ELSE link'[f] = link[f] /\ (f \in given' <=> f \in given)
  BY <1>1, DeletesType
<1>3. Paired'
  BY <1>2, EndsFacts DEF Base, Paired
<1>4. Unique'
  BY <1>2 DEF Base, Unique
<1>5. \A r \in Requests : Planned(r)'
  BY <1>1 DEF Base, Planned, requestVars
<1>6. Base'
  BY <1>1, <1>2, <1>3, <1>4, <1>5 DEF Base, Typed, requestVars
<1>7. QED
  BY <1>1, <1>2, <1>6

LEMMA BaseInit ==
  ASSUME CheckInit
  PROVE  Base
<1> USE DEF CheckInit, Init
<1>1. << >> \in Seq(ScriptCall)
  OBVIOUS
<1>2. Typed
  BY <1>1 DEF Typed
<1>3. Paired /\ Unique
  BY EndsFacts DEF Paired, Unique
<1>4. ASSUME NEW r \in Requests PROVE Planned(r)
  <2>1. Mine \in Seq(ScriptCall)
    BY <1>2, MineFacts
  <2>2. << >> \in Rests(Script[setting.server])
    BY <2>1, RestsSelf DEF Mine
  <2>3. QED
    BY <2>2 DEF Planned
<1>5. QED
  BY <1>2, <1>3, <1>4 DEF Base

LEMMA SeesBase ==
  ASSUME Base, Sees \/ Calm
  PROVE  Base'
<1>1. UNCHANGED <<setting, link, loUp, given, requestVars>> /\ calm' \in BOOLEAN
  BY DEF Base, Typed, Sees, Calm, kernelVars
<1>2. \A r \in Requests : Planned(r)'
  BY <1>1 DEF Base, Planned, requestVars
<1>3. QED
  BY <1>1, <1>2 DEF Base, Typed, Paired, Unique, requestVars

LEMMA BaseInductive == Base /\ [CheckNext]_checkedVars => Base'
BY StepCases, MakesBase, AnswersType, AcceptsType, TakesDownType, SeesBase

\* Every server, in every environment, keeps the types, pairs whose ends come and go
\* together, names that are one interface's, and rests of its own script.
THEOREM BaseHolds == CheckSpec => []Base
BY BaseInit, BaseInductive, PTL DEF CheckSpec

\* The parts of the checker's invariant that do not look at the servers.
LEMMA CheckInductive ==
  ASSUME Base, CheckTypeOK, [CheckNext]_checkedVars
  PROVE  CheckTypeOK'
<1> USE DEF CheckTypeOK
<1>1. \A where, name : Found(where, name) \in SUBSET Ends
  BY DEF Found
<1>2. NoEnd \notin Ends /\ NoCall \notin Calls
  BY NoneAssumption
<1> USE DEF Reads, Verdicts
<1>3. CASE UNCHANGED checkVars /\ seen' = seen
  BY <1>3 DEF checkVars
<1>4. CASE UNCHANGED checkedVars
  BY <1>3, <1>4 DEF checkedVars, vars, kernelVars
<1>5. CASE Next /\ UNCHANGED checkVars
  <2>1. seen' = seen
    <3>1. ASSUME NEW r \in Requests, Makes(r) PROVE seen' = seen
      BY <3>1, MakesFrame
    <3>2. ASSUME NEW r \in Requests, Step(r) PROVE Makes(r) \/ Answer(r)
      BY <3>2 DEF Step, Makes
    <3>3. QED
      BY <1>5, <3>1, <3>2 DEF Next, Answer, Accept, TakenDown, Calm, kernelVars
  <2>2. QED
    BY <1>3, <1>5, <2>1
<1>6. ASSUME NEW c \in Calls, StartCheck(c) PROVE CheckTypeOK'
  <2>1. PromisedEnds(c) \in SUBSET Ends
    BY DEF PromisedEnds, Made
  <2>2. promised' \in Ends \cup {NoEnd}
    BY <1>6, <2>1 DEF StartCheck
  <2>3. /\ stage' = "hostLink" /\ asked' = c /\ fine' = TRUE /\ asked = NoCall
        /\ seen' = {promised'} \ {NoEnd} /\ hostEnd' = hostEnd /\ peerEnd' = peerEnd
    BY <1>6 DEF StartCheck
  <2>4. hostEnd' = NoEnd /\ peerEnd' = NoEnd
    BY <2>3
  <2>5. QED
    BY <1>2, <2>2, <2>3, <2>4
<1>7. ASSUME NEW v \in Verdicts, Finish(v) PROVE CheckTypeOK'
  BY <1>7 DEF Finish
<1>8. ASSUME NEW h \in Ends, NEW good \in BOOLEAN, stage = "hostLink", Continue("peerLink", h, NoEnd, good)
      PROVE  CheckTypeOK'
  BY <1>2, <1>8 DEF Continue
<1>9. ASSUME NEW p \in Ends, NEW good \in BOOLEAN, stage = "peerLink", Continue("lo", hostEnd, p, good)
      PROVE  CheckTypeOK'
  BY <1>2, <1>9 DEF Continue
<1>10. ASSUME NEW next \in {"hostAddrs", "peerAddrs", "hostPeer", "peerPeer"}, NEW good \in BOOLEAN,
              stage \in {"lo", "hostAddrs", "peerAddrs", "hostPeer"},
              Continue(next, hostEnd, peerEnd, good)
       PROVE  CheckTypeOK'
  BY <1>2, <1>10 DEF Continue
<1>11. CASE ReadHostLink
  <2>1. CASE Finish("failed")
    BY <1>7, <2>1
  <2>2. ASSUME NEW e \in Ends, link[e] # NoLink, link[e].up \in BOOLEAN, Continue("peerLink", e, NoEnd, link[e].up)
        PROVE  CheckTypeOK'
    BY <1>8, <1>11, <2>2 DEF ReadHostLink
  <2>3. \A e \in Ends : link[e] # NoLink => link[e].up \in BOOLEAN
    BY LinksFacts DEF Base, Typed
  <2>4. QED
    BY <1>11, <2>1, <2>2, <2>3 DEF ReadHostLink, Found
<1>12. CASE ReadPeerLink
  <2>1. CASE Finish("failed")
    BY <1>7, <2>1
  <2>2. ASSUME NEW e \in Ends, link[e] # NoLink, link[e].up \in BOOLEAN, Continue("lo", hostEnd, e, link[e].up)
        PROVE  CheckTypeOK'
    BY <1>9, <1>12, <2>2 DEF ReadPeerLink
  <2>3. \A e \in Ends : link[e] # NoLink => link[e].up \in BOOLEAN
    BY LinksFacts DEF Base, Typed
  <2>4. QED
    BY <1>12, <2>1, <2>2, <2>3 DEF ReadPeerLink, Found
<1>13. CASE ReadLo
  <2>1. (asked.ns \in loUp) \in BOOLEAN
    OBVIOUS
  <2>2. QED
    BY <1>10, <1>13, <2>1 DEF ReadLo
<1>14. CASE ReadHostAddrs \/ ReadPeerAddrs
  <2>1. ASSUME NEW e \in Ends PROVE HasAddress(e) \in BOOLEAN
    BY LinksFacts DEF HasAddress, Base, Typed
  <2>2. hostEnd \in Ends /\ peerEnd \in Ends
    BY <1>14 DEF ReadHostAddrs, ReadPeerAddrs
  <2>3. HasAddress(hostEnd) \in BOOLEAN /\ HasAddress(peerEnd) \in BOOLEAN
    BY <2>1, <2>2
  <2>4. QED
    BY <1>10, <1>14, <2>3 DEF ReadHostAddrs, ReadPeerAddrs
<1>15. CASE ReadHostPeer
  BY <1>7, <1>10, <1>15 DEF ReadHostPeer, PairedWith
<1>16. CASE ReadPeerPeer
  BY <1>7, <1>16 DEF ReadPeerPeer
<1>17. CASE CheckErrs
  BY <1>7, <1>17 DEF CheckErrs
<1>18. QED
  BY <1>4, <1>5, <1>6, <1>11, <1>12, <1>13, <1>14, <1>15, <1>16, <1>17 DEF CheckNext, CheckStep

LEMMA CheckTypeInit == CheckInit => CheckTypeOK
BY NoneAssumption DEF CheckInit, Init, CheckTypeOK, Reads, Verdicts

\* The checker remembers an interface as long as a check needs it and no longer,
\* and has found each end when it goes on to what follows, beside any of the servers.
THEOREM CheckTyped == CheckSpec => []CheckTypeOK
BY BaseHolds, CheckTypeInit, CheckInductive, PTL DEF CheckSpec

LEMMA BaseTyped ==
  ASSUME Base, CheckTypeOK
  PROVE  TypeOK
<1>1. Mine \in Seq(ScriptCall) /\ Quietly(<<"delHost">>) \in Seq(ScriptCall)
  BY MineFacts, QuietDelHost DEF Base
<1>2. << >> \in Rests(Quietly(<<"delHost">>)) /\ Quietly(<<"delHost">>) \in Rests(Quietly(<<"delHost">>))
  BY <1>1, RestsSelf
<1>3. ASSUME NEW r \in Requests PROVE todo[r] \in Plans(Script[setting.server])
  <2>1. Planned(r) /\ ok[r] \in BOOLEAN
    BY DEF Base, Typed
  <2>2. QED
    BY <1>2, <2>1 DEF Planned, Plans
<1>4. seen \subseteq Ends
  BY DEF CheckTypeOK
<1>5. QED
  BY <1>3, <1>4 DEF TypeOK, Base, Typed, Paired, Unique

\* The two ends of a pair come and go together, the kernel never gives a name twice
\* in one namespace, and a request has a rest of its script or the deletion of its
\* pair before it, in any of the servers and whatever the kernel refuses.
THEOREM VethTyped == CheckSpec => []TypeOK
BY BaseHolds, CheckTyped, BaseTyped, PTL

-----------------------------------------------------------------------------
(* The two ends of a pair are never taken for each other *)

\* The host's end stays in the host's namespace under a host_ifname; the peer is
\* there only under the temporary name made from that; what a request took for the
\* peer is one.
HostApart(p) ==
  link[HostOf(p)] # NoLink => link[HostOf(p)].ns = Host /\ link[HostOf(p)].name \in Hosts
PeerApart(p) ==
  link[PeerOf(p)] # NoLink =>
    \/ link[PeerOf(p)].name = Temp(link[HostOf(p)].name)
    \/ link[PeerOf(p)].name \in Peers /\ link[PeerOf(p)].ns # Host
LocalApart(r) == peerLink[r] = NoEnd \/ \E p \in Pairs : peerLink[r] = PeerOf(p)
Apart ==
  setting.server # "Joseng8908" =>
    /\ \A p \in Pairs : HostApart(p) /\ PeerApart(p)
    /\ \A r \in Requests : LocalApart(r)

LEMMA MakesAside ==
  ASSUME Base, NEW r \in Requests, Makes(r), setting.server # "Joseng8908"
  PROVE  Op(r) \notin {"addPeer", "findPeer"}
<1>1. Aside(Mine) /\ Mine \in Seq(ScriptCall)
  BY MineFacts, ScriptFacts DEF Base, Mine
<1>2. todo[r] # << >> /\ Op(r) = Head(todo[r]).op
  BY MakesCall
<1>3. CASE ok[r]
  <2>1. PICK i \in DOMAIN Mine : Head(todo[r]) = Mine[i]
    BY <1>1, <1>2, <1>3, MakesRest, RestsNext
  <2>2. QED
    BY <1>1, <1>2, <2>1 DEF Aside
<1>4. CASE ~ok[r]
  BY <1>4, MakesRest
<1>5. QED
  BY <1>3, <1>4

\* A step leaves the host's end as it is, but for its settings, and what is in a
\* named namespace too, but for its name.
Onwards(e) ==
  link[e] # NoLink /\ link'[e] # NoLink =>
    /\ link'[e].ns = link[e].ns
    /\ (link[e].addr => link'[e].addr) /\ (link[e].up => link'[e].up)
EndsSettle ==
  /\ \A p \in Pairs :
       /\ Onwards(HostOf(p))
       /\ link[HostOf(p)] # NoLink /\ link'[HostOf(p)] # NoLink =>
            link'[HostOf(p)].name = link[HostOf(p)].name
       /\ (link[PeerOf(p)] # NoLink => link[PeerOf(p)].ns # Host) => Onwards(PeerOf(p))
  /\ \A e \in seen : link[e] = NoLink => link'[e] = NoLink

LEMMA SameSettles ==
  ASSUME Base, \A e \in Ends : link'[e] = link[e] \/ link'[e] = NoLink, seen \subseteq Ends
  PROVE  EndsSettle
BY EndsFacts DEF EndsSettle, Onwards

LEMMA GoneApart ==
  ASSUME Base, Base', \A p \in Pairs : HostApart(p) /\ PeerApart(p),
         \A e \in Ends : link'[e] = link[e] \/ link'[e] = NoLink
  PROVE  \A p \in Pairs : HostApart(p)' /\ PeerApart(p)'
<1> SUFFICES ASSUME NEW p \in Pairs PROVE HostApart(p)' /\ PeerApart(p)'
  OBVIOUS
<1>1. HostOf(p) \in Ends /\ PeerOf(p) \in Ends /\ OtherEnd(PeerOf(p)) = HostOf(p)
  BY EndsFacts
<1>2. link'[PeerOf(p)] # NoLink => link'[HostOf(p)] # NoLink
  BY <1>1 DEF Base, Paired
<1>3. QED
  BY <1>1, <1>2 DEF HostApart, PeerApart

LEMMA MakesApart ==
  ASSUME Base, Apart, setting.server # "Joseng8908", seen \subseteq Ends,
         NEW r \in Requests, Makes(r)
  PROVE  /\ \A p \in Pairs : HostApart(p)' /\ PeerApart(p)'
         /\ EndsSettle
<1> USE DEF HostApart, PeerApart
<1>1. /\ \A p \in Pairs : HostApart(p) /\ PeerApart(p)
      /\ LocalApart(r) /\ call[r] \in Calls /\ Op(r) \notin {"addPeer", "findPeer"}
  BY MakesCall, MakesAside DEF Apart
<1>2. \A p \in Pairs : HostOf(p) \in Ends /\ PeerOf(p) \in Ends
  BY EndsFacts
<1>3. CASE KeepsLinks(r)
  BY <1>1, <1>3, SameSettles DEF KeepsLinks
<1>4. CASE DeletesLinks(r)
  <2>1. \A e \in Ends : link'[e] = link[e] \/ link'[e] = NoLink
    BY <1>4, DeletesType, FoundByEnds DEF DeletesLinks
  <2>2. QED
    BY <1>1, <2>1, SameSettles, GoneApart, MakesBase
<1>5. ASSUME NEW p \in Pairs, NEW where, NEW name, AddsPair(r, p, where, name)
      PROVE  /\ \A q \in Pairs : HostApart(q)' /\ PeerApart(q)'
             /\ EndsSettle
  <2>1. /\ link[HostOf(p)] = NoLink /\ link[PeerOf(p)] = NoLink
        /\ {HostOf(p), PeerOf(p)} \cap seen = {}
        /\ link'[HostOf(p)] = Fresh(Host, call[r].host)
        /\ link'[PeerOf(p)] = Fresh(where, name)
        /\ \A e \in Ends : e # HostOf(p) /\ e # PeerOf(p) => link'[e] = link[e]
        /\ where \in Named \cup {Host} /\ name \in Ifnames
    BY <1>5, AddsType
  <2>2. name = Temp(call[r].host) \/ (name \in Peers /\ where # Host)
    <3>1. call[r].peer \in Peers /\ call[r].ns # Host
      BY <1>1, LinksFacts, NamespacesAssumption
    <3>2. AddsAt(r, where, name)
      BY <1>5 DEF AddsPair
    <3>3. QED
      BY <1>1, <3>1, <3>2 DEF AddsAt
  <2>3. /\ Fresh(Host, call[r].host).ns = Host /\ Fresh(Host, call[r].host).name = call[r].host
        /\ Fresh(where, name).ns = where /\ Fresh(where, name).name = name
        /\ call[r].host \in Hosts
    BY <1>1, LinksFacts DEF Fresh
  <2>4. ASSUME NEW q \in Pairs PROVE HostApart(q)' /\ PeerApart(q)'
    <3>1. CASE q = p
      BY <2>1, <2>2, <2>3, <3>1
    <3>2. CASE q # p
      <4>1. link'[HostOf(q)] = link[HostOf(q)] /\ link'[PeerOf(q)] = link[PeerOf(q)]
        BY <1>2, <2>1, <3>2, EndsFacts
      <4>2. QED
        BY <1>1, <4>1
    <3>3. QED
      BY <3>1, <3>2
  <2>5. \A e \in Ends : link[e] # NoLink => link'[e] = link[e]
    BY <2>1
  <2>6. \A e \in seen : link[e] = NoLink => link'[e] = NoLink
    BY <2>1
  <2>7. EndsSettle
    BY <1>2, <2>5, <2>6 DEF EndsSettle, Onwards
  <2>8. QED
    BY <2>4, <2>7
<1>6. CASE AltersEnd(r)
  <2>1. PICK e \in Ends, l \in Links :
           /\ e = Subject(r) /\ link[e] \in Links /\ link[e].ns = Where(r)
           /\ link' = [link EXCEPT ![e] = l]
           /\ Op(r) = "move" => l = Fresh(call[r].ns, link[e].name)
           /\ Op(r) = "rename" => l.ns = link[e].ns /\ l.name = call[r].peer
           /\ Op(r) \notin {"move", "rename"} => l.ns = link[e].ns /\ l.name = link[e].name
           /\ Op(r) # "move" => (link[e].addr => l.addr) /\ (link[e].up => l.up)
    BY <1>6, AltersType
  <2>2. /\ link'[e] = l /\ \A f \in Ends \ {e} : link'[f] = link[f]
        /\ link[e] # NoLink /\ l # NoLink /\ call[r].ns \in Named /\ Host \notin Named
    BY <1>1, <2>1, LinksFacts, NamespacesAssumption DEF Base, Typed
  <2>3. \A f \in seen : link[f] = NoLink => link'[f] = NoLink
    BY <2>2
  <2>4. CASE Op(r) = "move"
    <3>1. PICK p \in Pairs : e = PeerOf(p)
      BY <1>1, <2>1, <2>4, NoneAssumption DEF Subject, LocalApart
    <3>2. l.ns = call[r].ns /\ l.name = link[e].name /\ link[e].ns = Host
      BY <2>1, <2>4 DEF Fresh, Where
    <3>3. \A q \in Pairs : /\ link'[HostOf(q)] = link[HostOf(q)]
                           /\ link'[PeerOf(q)] = IF q = p THEN l ELSE link[PeerOf(q)]
      BY <1>2, <2>2, <3>1, EndsFacts
    <3>4. \A q \in Pairs : HostApart(q)' /\ PeerApart(q)'
      <4>1. link[HostOf(p)] # NoLink
        BY <1>2, <2>2, <3>1, EndsFacts DEF Base, Paired
      <4>2. ASSUME NEW q \in Pairs PROVE HostApart(q)' /\ PeerApart(q)'
        <5>1. CASE q = p
          BY <1>1, <2>2, <3>1, <3>2, <3>3, <4>1, <5>1
        <5>2. CASE q # p
          BY <1>1, <3>3, <5>2
        <5>3. QED
          BY <5>1, <5>2
      <4>3. QED
        BY <4>2
    <3>5. QED
      BY <2>2, <2>3, <3>4, <3>1, <3>2, <3>3 DEF EndsSettle, Onwards
  <2>5. CASE Op(r) = "rename"
    <3>1. PICK p \in Pairs : e = PeerOf(p)
      BY <1>1, <2>1, <2>5, NoneAssumption DEF Subject, LocalApart
    <3>2. l.ns = call[r].ns /\ link[e].ns = call[r].ns /\ l.name \in Peers
      BY <1>1, <2>1, <2>5, LinksFacts DEF Where
    <3>3. \A q \in Pairs : /\ link'[HostOf(q)] = link[HostOf(q)]
                           /\ link'[PeerOf(q)] = IF q = p THEN l ELSE link[PeerOf(q)]
      BY <1>2, <2>2, <3>1, EndsFacts
    <3>4. (link[e].addr => l.addr) /\ (link[e].up => l.up)
      BY <2>1, <2>5
    <3>5. \A q \in Pairs : HostApart(q)' /\ PeerApart(q)'
      <4>1. link[HostOf(p)] # NoLink
        BY <1>2, <2>2, <3>1, EndsFacts DEF Base, Paired
      <4>2. ASSUME NEW q \in Pairs PROVE HostApart(q)' /\ PeerApart(q)'
        <5>1. CASE q = p
          BY <1>1, <2>2, <3>1, <3>2, <3>3, <4>1, <5>1
        <5>2. CASE q # p
          BY <1>1, <3>3, <5>2
        <5>3. QED
          BY <5>1, <5>2
      <4>3. QED
        BY <4>2
    <3>6. QED
      BY <2>2, <2>3, <3>5, <3>1, <3>2, <3>3, <3>4 DEF EndsSettle, Onwards
  <2>6. CASE Op(r) \notin {"move", "rename"}
    <3>1. \A f \in Ends : /\ link'[f] = NoLink <=> link[f] = NoLink
                          /\ link[f] # NoLink => /\ link'[f].ns = link[f].ns
                                                 /\ link'[f].name = link[f].name
                                                 /\ link[f].addr => link'[f].addr
                                                 /\ link[f].up => link'[f].up
      BY <2>1, <2>2, <2>6
    <3>2. QED
      BY <1>1, <1>2, <2>3, <3>1 DEF EndsSettle, Onwards
  <2>7. QED
    BY <2>4, <2>5, <2>6
<1>7. QED
  BY <1>3, <1>4, <1>5, <1>6, LinkMoves

\* A peer is looked for where no host's end has the name.
LEMMA MakesLocalApart ==
  ASSUME Base, Apart, setting.server # "Joseng8908", NEW r \in Requests, Makes(r),
         NEW q \in Requests
  PROVE  LocalApart(q)'
<1>1. LocalApart(q) /\ call[r] \in Calls /\ Op(r) \notin {"addPeer", "findPeer"}
  BY MakesCall, MakesAside DEF Apart
<1>2. CASE peerLink' = peerLink
  BY <1>1, <1>2 DEF LocalApart
<1>3. CASE Op(r) \in PeerFinds /\ FindsPeer(r)
  <2>1. PICK e \in FoundBy(r) : peerLink' = [peerLink EXCEPT ![r] = e]
    BY <1>3 DEF FindsPeer
  <2>2. peerLink'[q] = e \/ peerLink'[q] = peerLink[q]
    BY <2>1 DEF Base, Typed
  <2>3. \E p \in Pairs : e = PeerOf(p)
    <3>1. PICK p \in Pairs : e = HostOf(p) \/ e = PeerOf(p)
      BY <2>1, FoundByEnds, EndsFacts
    <3>2. Op(r) \in {"findTmp", "nsFindTmp", "nsFindPeer"}
      BY <1>1, <1>3 DEF PeerFinds
    <3>3. ~(link[e].ns = Host /\ link[e].name \in Hosts) /\ link[e] # NoLink
      <4>1. CASE Op(r) = "findTmp"
        <5>1. link[e] # NoLink /\ link[e].name = Temp(call[r].host)
          BY <2>1, <4>1 DEF FoundBy, Found, Place, Op
        <5>2. QED
          BY <1>1, <5>1, LinksFacts, NamesAssumption
      <4>2. CASE Op(r) \in {"nsFindTmp", "nsFindPeer"}
        <5>1. link[e] # NoLink /\ link[e].ns = call[r].ns
          BY <2>1, <4>2 DEF FoundBy, Found, Place, Op
        <5>2. QED
          BY <1>1, <5>1, LinksFacts, NamespacesAssumption
      <4>3. QED
        BY <3>2, <4>1, <4>2
    <3>4. QED
      BY <3>1, <3>3 DEF Apart, HostApart
  <2>4. QED
    BY <1>1, <2>2, <2>3 DEF LocalApart
<1>4. QED
  BY <1>2, <1>3, LocalMoves

LEMMA ApartInductive ==
  ASSUME Base, Apart, seen \subseteq Ends, [CheckNext]_checkedVars
  PROVE  /\ Apart'
         /\ setting' = setting
         /\ setting.server # "Joseng8908" => EndsSettle /\ loUp \subseteq loUp'
<1>0. setting' = setting
  BY StepCases, MakesFrame, AnswersType, AcceptsType, TakesDownType
     DEF Calm, Sees
<1> SUFFICES ASSUME setting.server # "Joseng8908"
             PROVE  Apart' /\ EndsSettle /\ loUp \subseteq loUp'
  BY <1>0 DEF Apart
<1> USE DEF Apart, HostApart, PeerApart, LocalApart
<1>1. ASSUME NEW r \in Requests, Makes(r) PROVE Apart' /\ EndsSettle /\ loUp \subseteq loUp'
  <2>1. loUp \subseteq loUp'
    BY <1>1, LocalMoves
  <2>2. QED
    BY <1>1, <2>1, MakesApart, MakesLocalApart
<1>2. ASSUME NEW r \in Requests, Answer(r) PROVE Apart' /\ EndsSettle /\ loUp \subseteq loUp'
  <2>1. /\ link' = link /\ loUp' = loUp
        /\ \A q \in Requests : peerLink'[q] = NoEnd \/ peerLink'[q] = peerLink[q]
    BY <1>2, AnswersType
  <2>2. EndsSettle
    BY <2>1, SameSettles
  <2>3. QED
    BY <2>1, <2>2
<1>3. ASSUME NEW r \in Requests, NEW c \in Calls, Accept(r, c)
      PROVE  Apart' /\ EndsSettle /\ loUp \subseteq loUp'
  <2>1. link' = link /\ loUp' = loUp /\ peerLink' = peerLink
    BY <1>3, AcceptsType
  <2>2. EndsSettle
    BY <2>1, SameSettles
  <2>3. QED
    BY <2>1, <2>2
<1>4. ASSUME NEW e \in Ends, TakenDown(e) PROVE Apart' /\ EndsSettle /\ loUp \subseteq loUp'
  <2>1. /\ \A f \in Ends : link'[f] = link[f] \/ link'[f] = NoLink
        /\ loUp' = loUp /\ peerLink' = peerLink
    BY <1>4, TakesDownType DEF requestVars
  <2>2. QED
    BY <1>4, <2>1, SameSettles, GoneApart, TakesDownType
<1>5. CASE Calm \/ Sees
  <2>1. link' = link /\ loUp' = loUp /\ peerLink' = peerLink
    BY <1>5 DEF Calm, Sees, kernelVars, requestVars
  <2>2. QED
    BY <2>1, SameSettles
<1>6. QED
  BY <1>1, <1>2, <1>3, <1>4, <1>5, StepCases

-----------------------------------------------------------------------------
(* What the checker has read stays so while the interfaces it read exist *)

HostRead ==
  stage \in Reads \ {"hostLink"} /\ link[hostEnd] # NoLink =>
    /\ \E p \in Pairs : hostEnd = HostOf(p)
    /\ link[hostEnd].ns = Host /\ link[hostEnd].name = asked.host
    /\ fine => link[hostEnd].up
    /\ fine /\ stage \in {"peerAddrs", "hostPeer", "peerPeer"} => link[hostEnd].addr
PeerRead ==
  stage \in Reads \ {"hostLink", "peerLink"} /\ link[peerEnd] # NoLink =>
    /\ \E p \in Pairs : peerEnd = PeerOf(p)
    /\ link[peerEnd].ns = asked.ns
    /\ fine => link[peerEnd].up
    /\ fine /\ stage \in {"hostPeer", "peerPeer"} => link[peerEnd].addr
LoRead ==
  stage \in Reads \ {"hostLink", "peerLink", "lo"} /\ fine => asked.ns \in loUp
\* The index read last but one is the peer's, unless the host's end is gone.
Matched ==
  stage = "peerPeer" /\ fine /\ link[hostEnd] # NoLink => peerEnd = OtherEnd(hostEnd)
Reading ==
  asked # NoCall => setting \in Watched /\ HostRead /\ PeerRead /\ LoRead /\ Matched

\* The servers' part.
LEMMA ServersReading ==
  ASSUME Base, CheckTypeOK, Reading, UNCHANGED checkVars, setting' = setting,
         EndsSettle, loUp \subseteq loUp'
  PROVE  Reading'
<1> SUFFICES ASSUME asked # NoCall
             PROVE  HostRead' /\ PeerRead' /\ LoRead' /\ Matched'
  BY DEF Reading, checkVars
<1>1. /\ stage' = stage /\ asked' = asked /\ hostEnd' = hostEnd /\ peerEnd' = peerEnd /\ fine' = fine
      /\ HostRead /\ PeerRead /\ LoRead /\ Matched /\ asked \in Calls
  BY DEF Reading, checkVars, CheckTypeOK
<1>2. asked.ns \in Named /\ asked.ns # Host
  BY <1>1, LinksFacts, NamespacesAssumption
<1>3. /\ stage \in Reads \ {"hostLink"} => hostEnd \in seen
      /\ stage \in Reads \ {"hostLink", "peerLink"} => peerEnd \in seen
  BY DEF CheckTypeOK, Reads, Verdicts
<1>4. \A e \in seen : link'[e] # NoLink => link[e] # NoLink
  BY DEF EndsSettle
<1>5. HostRead'
  BY <1>1, <1>3, <1>4 DEF HostRead, EndsSettle, Onwards
<1>6. PeerRead'
  BY <1>1, <1>2, <1>3, <1>4 DEF PeerRead, EndsSettle, Onwards
<1>7. LoRead'
  BY <1>1 DEF LoRead
<1>8. Matched'
  BY <1>1, <1>3, <1>4 DEF Matched, Reads
<1>9. QED
  BY <1>5, <1>6, <1>7, <1>8

\* What a look-up by the checker finds.
LEMMA CheckFinds ==
  ASSUME Base, Apart, setting.server # "Joseng8908", asked \in Calls
  PROVE  /\ \A e \in Found(Host, asked.host) :
              /\ \E p \in Pairs : e = HostOf(p)
              /\ link[e] # NoLink /\ link[e].ns = Host /\ link[e].name = asked.host
              /\ \A f \in Found(Host, asked.host) : e = f
         /\ \A e \in Found(asked.ns, asked.peer) :
              /\ \E p \in Pairs : e = PeerOf(p)
              /\ link[e] # NoLink /\ link[e].ns = asked.ns /\ link[e].name = asked.peer
<1>1. asked.host \in Hosts /\ asked.ns \in Named /\ asked.ns # Host
  BY LinksFacts, NamespacesAssumption
<1>2. ASSUME NEW e \in Found(Host, asked.host)
      PROVE  /\ \E p \in Pairs : e = HostOf(p)
             /\ link[e] # NoLink /\ link[e].ns = Host /\ link[e].name = asked.host
             /\ \A f \in Found(Host, asked.host) : e = f
  <2>1. e \in Ends /\ link[e] # NoLink /\ link[e].ns = Host /\ link[e].name = asked.host
    BY DEF Found
  <2>2. \A p \in Pairs : e # PeerOf(p)
    <3>1. SUFFICES ASSUME NEW p \in Pairs, e = PeerOf(p) PROVE FALSE
      OBVIOUS
    <3>2. link[HostOf(p)].name \in Hosts /\ PeerApart(p)
      BY <2>1, <3>1, EndsFacts DEF Apart, HostApart, Base, Paired
    <3>3. asked.host # Temp(link[HostOf(p)].name)
      BY <1>1, <3>2, NamesAssumption
    <3>4. QED
      BY <2>1, <3>1, <3>2, <3>3 DEF PeerApart
  <2>3. \A f \in Found(Host, asked.host) : e = f
    BY <2>1 DEF Found, Base, Unique
  <2>4. QED
    BY <2>1, <2>2, <2>3, EndsFacts
<1>3. ASSUME NEW e \in Found(asked.ns, asked.peer)
      PROVE  /\ \E p \in Pairs : e = PeerOf(p)
             /\ link[e] # NoLink /\ link[e].ns = asked.ns /\ link[e].name = asked.peer
  <2>1. e \in Ends /\ link[e] # NoLink /\ link[e].ns = asked.ns /\ link[e].name = asked.peer
    BY DEF Found
  <2>2. \A p \in Pairs : e # HostOf(p)
    BY <1>1, <2>1 DEF Apart, HostApart
  <2>3. QED
    BY <2>1, <2>2, EndsFacts
<1>4. QED
  BY <1>2, <1>3

\* The checker's part.
LEMMA CheckerReading ==
  ASSUME Base, CheckTypeOK, CheckTypeOK', Apart, Reading, CheckStep,
         \A w \in Watched : w.server # "Joseng8908"
  PROVE  Reading'
<1> USE DEF HostRead, PeerRead, LoRead, Matched
<1>1. link' = link /\ loUp' = loUp /\ setting' = setting
  BY DEF CheckStep, StartCheck, ReadHostLink, ReadPeerLink, ReadLo, ReadHostAddrs,
     ReadPeerAddrs, ReadHostPeer, ReadPeerPeer, CheckErrs, ServersIdle
<1>2. CASE asked = NoCall
  <2>1. stage \notin Reads
    BY <1>2 DEF CheckTypeOK
  <2>2. PICK c \in Calls : StartCheck(c)
    BY <2>1 DEF CheckStep, ReadHostLink, ReadPeerLink, ReadLo, ReadHostAddrs,
       ReadPeerAddrs, ReadHostPeer, ReadPeerPeer, CheckErrs, Reads
  <2>3. stage' = "hostLink" /\ setting \in Watched
    BY <2>2 DEF StartCheck
  <2>4. QED
    BY <1>1, <2>3 DEF Reading
<1> SUFFICES ASSUME asked # NoCall PROVE Reading'
  BY <1>2
<1>3. /\ asked \in Calls /\ setting \in Watched /\ HostRead /\ PeerRead /\ LoRead /\ Matched
      /\ setting.server # "Joseng8908"
  BY DEF Reading, CheckTypeOK
<1>4. ASSUME NEW v \in Verdicts, Finish(v) PROVE Reading'
  BY <1>4 DEF Finish, Reading
<1>5. ~\E c \in Calls : StartCheck(c)
  BY DEF StartCheck
<1>6. ASSUME NEW next, NEW h, NEW p, NEW good, Continue(next, h, p, good),
             HostRead' /\ PeerRead' /\ LoRead' /\ Matched'
      PROVE  Reading'
  BY <1>1, <1>3, <1>6 DEF Reading
<1>7. CASE ReadHostLink
  <2>1. CASE Finish("failed")
    BY <1>4, <2>1 DEF Verdicts
  <2>2. ASSUME NEW e \in Found(Host, asked.host), Continue("peerLink", e, NoEnd, link[e].up)
        PROVE  Reading'
    <3>1. /\ stage' = "peerLink" /\ hostEnd' = e /\ asked' = asked
          /\ fine' = (fine /\ link[e].up)
      BY <2>2 DEF Continue
    <3>2. HostRead' /\ PeerRead' /\ LoRead' /\ Matched'
      BY <1>1, <1>3, <3>1, CheckFinds
    <3>3. QED
      BY <1>6, <2>2, <3>2
  <2>3. QED
    BY <1>7, <2>1, <2>2 DEF ReadHostLink
<1>8. CASE ReadPeerLink
  <2>1. CASE Finish("failed")
    BY <1>4, <2>1 DEF Verdicts
  <2>2. ASSUME NEW e \in Found(asked.ns, asked.peer), Continue("lo", hostEnd, e, link[e].up)
        PROVE  Reading'
    <3>1. /\ stage' = "lo" /\ hostEnd' = hostEnd /\ peerEnd' = e /\ asked' = asked
          /\ fine' = (fine /\ link[e].up) /\ stage = "peerLink"
      BY <1>8, <2>2 DEF Continue, ReadPeerLink
    <3>2. HostRead' /\ PeerRead' /\ LoRead' /\ Matched'
      BY <1>1, <1>3, <3>1, CheckFinds DEF Reads
    <3>3. QED
      BY <1>6, <2>2, <3>2
  <2>3. QED
    BY <1>8, <2>1, <2>2 DEF ReadPeerLink
<1>9. CASE ReadLo
  <2>1. /\ stage' = "hostAddrs" /\ hostEnd' = hostEnd /\ peerEnd' = peerEnd /\ asked' = asked
        /\ fine' = (fine /\ asked.ns \in loUp) /\ stage = "lo"
    BY <1>9 DEF Continue, ReadLo
  <2>2. HostRead' /\ PeerRead' /\ LoRead' /\ Matched'
    BY <1>1, <1>3, <2>1 DEF Reads
  <2>3. QED
    BY <1>6, <1>9, <2>2 DEF ReadLo
<1>10. CASE ReadHostAddrs
  <2>1. /\ stage' = "peerAddrs" /\ hostEnd' = hostEnd /\ peerEnd' = peerEnd /\ asked' = asked
        /\ fine' = (fine /\ HasAddress(hostEnd)) /\ stage = "hostAddrs"
    BY <1>10 DEF Continue, ReadHostAddrs
  <2>2. HostRead' /\ PeerRead' /\ LoRead' /\ Matched'
    BY <1>1, <1>3, <2>1 DEF Reads, HasAddress
  <2>3. QED
    BY <1>6, <1>10, <2>2 DEF ReadHostAddrs
<1>11. CASE ReadPeerAddrs
  <2>1. /\ stage' = "hostPeer" /\ hostEnd' = hostEnd /\ peerEnd' = peerEnd /\ asked' = asked
        /\ fine' = (fine /\ HasAddress(peerEnd)) /\ stage = "peerAddrs"
    BY <1>11 DEF Continue, ReadPeerAddrs
  <2>2. HostRead' /\ PeerRead' /\ LoRead' /\ Matched'
    BY <1>1, <1>3, <2>1 DEF Reads, HasAddress
  <2>3. QED
    BY <1>6, <1>11, <2>2 DEF ReadPeerAddrs
<1>12. CASE ReadHostPeer
  <2>1. CASE Finish("failed")
    BY <1>4, <2>1 DEF Verdicts
  <2>2. ASSUME NEW e \in Found(Host, asked.host),
               Continue("peerPeer", hostEnd, peerEnd, PairedWith(e, peerEnd))
        PROVE  Reading'
    <3>1. /\ stage' = "peerPeer" /\ hostEnd' = hostEnd /\ peerEnd' = peerEnd /\ asked' = asked
          /\ fine' = (fine /\ OtherEnd(e) = peerEnd) /\ stage = "hostPeer"
      BY <1>12, <2>2 DEF Continue, ReadHostPeer, PairedWith
    <3>2. HostRead' /\ PeerRead' /\ LoRead'
      BY <1>1, <1>3, <3>1 DEF Reads
    <3>3. link[hostEnd] # NoLink => e = hostEnd
      <4>1. SUFFICES ASSUME link[hostEnd] # NoLink PROVE hostEnd \in Found(Host, asked.host)
        BY <1>3, CheckFinds
      <4>2. link[hostEnd].ns = Host /\ link[hostEnd].name = asked.host /\ hostEnd \in Ends
        BY <1>3, <3>1, <4>1, EndsFacts DEF Reads
      <4>3. QED
        BY <4>1, <4>2 DEF Found
    <3>4. Matched'
      BY <1>1, <3>1, <3>3
    <3>5. QED
      BY <1>6, <2>2, <3>2, <3>4
  <2>3. QED
    BY <1>12, <2>1, <2>2 DEF ReadHostPeer
<1>13. CASE ReadPeerPeer \/ CheckErrs
  BY <1>4, <1>13 DEF ReadPeerPeer, CheckErrs, Verdicts
<1>14. QED
  BY <1>5, <1>7, <1>8, <1>9, <1>10, <1>11, <1>12, <1>13 DEF CheckStep

LEMMA ReadingInductive ==
  ASSUME Base, CheckTypeOK, CheckTypeOK', Apart, Reading, [CheckNext]_checkedVars,
         \A w \in Watched : w.server # "Joseng8908"
  PROVE  Reading'
<1>1. CASE CheckStep
  BY <1>1, CheckerReading
<1>2. CASE UNCHANGED checkVars
  <2>1. seen \subseteq Ends
    BY DEF CheckTypeOK
  <2>2. CASE asked = NoCall
    BY <1>2, <2>2 DEF Reading, checkVars
  <2>3. CASE asked # NoCall
    <3>1. setting.server # "Joseng8908"
      BY <2>3 DEF Reading
    <3>2. QED
      BY <1>2, <2>1, <3>1, ApartInductive, ServersReading
  <2>4. QED
    BY <2>2, <2>3
<1>3. QED
  BY <1>1, <1>2 DEF CheckNext, checkedVars

LEMMA PassedMeansMade ==
  ASSUME Base, CheckTypeOK, Apart, Reading, [CheckNext]_checkedVars,
         \A w \in Watched : w.server # "Joseng8908",
         asked # NoCall, stage' = "passed"
  PROVE  Made(asked) # {} /\ asked.ns \in loUp
<1>1. stage \in Reads /\ asked \in Calls /\ setting.server # "Joseng8908"
  BY DEF CheckTypeOK, Reading
<1>2. ReadPeerPeer
  BY <1>1 DEF CheckNext, checkedVars, checkVars, CheckStep, StartCheck, ReadHostLink, ReadPeerLink,
     ReadLo, ReadHostAddrs, ReadPeerAddrs, ReadHostPeer, CheckErrs, Finish, Continue, Reads
<1>3. PICK e \in Found(asked.ns, asked.peer) : fine /\ OtherEnd(e) = hostEnd /\ stage = "peerPeer"
  BY <1>2 DEF ReadPeerPeer, Finish, PairedWith
<1>4. link[e] # NoLink /\ link[e].ns = asked.ns /\ link[e].name = asked.peer /\ e \in Ends
  BY <1>3 DEF Found
<1>5. link[hostEnd] # NoLink /\ hostEnd \in Ends /\ OtherEnd(hostEnd) = e
  BY <1>3, <1>4, EndsFacts DEF Base, Paired
<1>6. HostRead /\ PeerRead /\ LoRead /\ Matched
  BY DEF Reading
<1>7. peerEnd = e
  BY <1>3, <1>5, <1>6 DEF Matched
<1>8. /\ link[hostEnd].ns = Host /\ link[hostEnd].name = asked.host
      /\ link[hostEnd].up /\ link[hostEnd].addr
  BY <1>3, <1>5, <1>6 DEF HostRead, Reads
<1>9. link[e].up /\ link[e].addr /\ asked.ns \in loUp
  BY <1>3, <1>4, <1>6, <1>7 DEF PeerRead, LoRead, Reads
<1>10. link[hostEnd] \in Links /\ link[e] \in Links
  BY <1>4, <1>5 DEF Base, Typed
<1>11. HostEnd(asked, hostEnd)
  BY <1>5, <1>8, <1>10 DEF HostEnd, Links
<1>12. PeerEnd(asked, e)
  BY <1>4, <1>9, <1>10 DEF PeerEnd, Links
<1>13. QED
  BY <1>5, <1>9, <1>11, <1>12 DEF Made

\* When the checker says that a pair is right the pair stands whole and configured
\* at that moment, whatever the servers delete, replace and refuse between its seven
\* reads (02-week/00-checker/veth_checker.go); beside any server but the one that
\* makes the peer under its own name in the host's namespace, where the checker and
\* the request can take one end for the other.
THEOREM VerifiedIsMade ==
  (\A w \in Watched : w.server # "Joseng8908") => (CheckSpec => VerifiedMeansMade)
<1> SUFFICES ASSUME \A w \in Watched : w.server # "Joseng8908"
             PROVE  CheckSpec => VerifiedMeansMade
  OBVIOUS
<1>1. CheckInit => Apart /\ Reading
  BY EndsFacts DEF CheckInit, Init, Apart, HostApart, PeerApart, LocalApart, Reading
<1>2. Base /\ CheckTypeOK /\ Apart /\ [CheckNext]_checkedVars => Apart'
  BY ApartInductive DEF CheckTypeOK
<1>3. Base /\ CheckTypeOK /\ CheckTypeOK' /\ Apart /\ Reading /\ [CheckNext]_checkedVars => Reading'
  BY ReadingInductive
<1>4. Base /\ CheckTypeOK /\ Apart /\ Reading /\ [CheckNext]_checkedVars =>
        [asked # NoCall /\ stage' = "passed" =>
           Made(asked) # {} /\ asked.ns \in loUp]_checkedVars
  BY PassedMeansMade
<1>5. QED
  BY <1>1, <1>2, <1>3, <1>4, BaseHolds, CheckTyped, PTL DEF CheckSpec, VerifiedMeansMade

-----------------------------------------------------------------------------
(* The pair a request is making *)

\* Where requests leave each other's pairs alone: those that replace what is in
\* their way come one at a time, and one that looks at few errors meets none.
Held(w) ==
  /\ w.server \in Replaces => w.clients # "any"
  /\ w.server = "Joseng8908" => w.clients = "polite" /\ w.mayFail = {}

\* The pair has been made, and is still to be finished or deleted.
Owns(r) == call[r] # NoCall /\ ~Ahead(todo[r], Adds) /\ (ok[r] \/ todo[r] # << >>)

OwnPair(r, p) ==
  /\ link[HostOf(p)] # NoLink /\ link[PeerOf(p)] # NoLink
  /\ link[HostOf(p)].ns = Host /\ link[HostOf(p)].name = call[r].host
  /\ HostOf(p) \notin given /\ PeerOf(p) \notin given
\* Whether the peer has moved and has its name is what the rest of the script says.
PeerStands(r, p) ==
  /\ link[PeerOf(p)].ns = IF Ahead(todo[r], {"move"}) THEN Host ELSE call[r].ns
  /\ link[PeerOf(p)].name = IF Ahead(todo[r], {"rename"}) THEN Temp(call[r].host) ELSE call[r].peer
Took(r, p) ==
  /\ ~Ahead(todo[r], {"findHost"}) => hostLink[r] = HostOf(p)
  /\ ~Ahead(todo[r], {"findTmp", "findPeer"}) /\ (Ahead(todo[r], {"move"}) \/ Ahead(todo[r], {"rename"})) =>
       peerLink[r] = PeerOf(p)
  /\ ~Ahead(todo[r], {"nsFindPeer"}) => peerLink[r] = PeerOf(p)
Configured(r, p) ==
  /\ ~Ahead(todo[r], {"hostAddr"}) => link[HostOf(p)].addr
  /\ ~Ahead(todo[r], {"hostUp"}) => link[HostOf(p)].up
  /\ ~Ahead(todo[r], {"peerAddr"}) => link[PeerOf(p)].addr
  /\ ~Ahead(todo[r], {"peerUp"}) => link[PeerOf(p)].up
Stage(r, p) ==
  OwnPair(r, p) /\ (ok[r] => PeerStands(r, p) /\ Took(r, p) /\ Configured(r, p))

\* In the server that makes the peer under its own name, nothing else has it where
\* the peer goes.
MoveFree(r) ==
  setting.server = "Joseng8908" /\ call[r] # NoCall /\ ok[r] /\ Ahead(todo[r], {"move"}) =>
    Found(call[r].ns, call[r].peer) = {}

Alone ==
  setting.clients # "any" => \A q, r \in Requests : call[q] # NoCall /\ call[r] # NoCall => q = r
GivenThere == \A e \in given : link[e] # NoLink /\ OtherEnd(e) \in given
Distinct ==
  \A q, r \in Requests : q # r /\ Owns(q) /\ Owns(r) => call[q].host # call[r].host
Owners == \A r \in Requests : Owns(r) => \E p \in Pairs : Stage(r, p)
Staged == Alone /\ GivenThere /\ Distinct /\ Owners

LEMMA EmptyAhead == \A A : ~Ahead(<< >>, A)
BY DEF Ahead

\* What an owner can do next.
LEMMA OwnerFacts ==
  ASSUME Base, NEW r \in Requests, Makes(r), Owns(r), ok[r]
  PROVE  /\ todo[r] \in Rests(Mine) /\ Shape(Mine) /\ Mine \in Seq(ScriptCall)
         /\ \A A : Ahead(todo[r], A) <=> Op(r) \in A \/ Ahead(Tail(todo[r]), A)
         /\ Op(r) \notin Adds \cup Absents \cup {"delHost", "delTmp"}
<1>1. /\ todo[r] \in Rests(Mine) /\ Shape(Mine) /\ Mine \in Seq(ScriptCall) /\ todo[r] # << >>
      /\ Op(r) = Head(todo[r]).op
  BY MakesRest, MakesCall, MineFacts DEF Base
<1>2. \A A : Ahead(todo[r], A) <=> Op(r) \in A \/ Ahead(Tail(todo[r]), A)
  BY <1>1, AheadNext
<1>3. Op(r) \in {"delHost", "delTmp"} \cup Absents => Ahead(todo[r], Adds)
  BY <1>1, NextFacts
<1>4. QED
  BY <1>1, <1>2, <1>3 DEF Owns

\* The end that is changed is the owner's, and where it should be.
LEMMA OwnSubject ==
  ASSUME Base, NEW r \in Requests, Makes(r), Owns(r), ok[r], NEW p \in Pairs, Stage(r, p),
         Op(r) \in Alters
  PROVE  /\ Subject(r) = IF Op(r) \in {"hostAddr", "hostUp"} THEN HostOf(p) ELSE PeerOf(p)
         /\ Denotes(Subject(r), Where(r))
<1>1. /\ todo[r] \in Rests(Mine) /\ Shape(Mine) /\ todo[r] # << >> /\ Op(r) = Head(todo[r]).op
      /\ \A A : Ahead(todo[r], A) <=> Op(r) \in A \/ Ahead(Tail(todo[r]), A)
  BY OwnerFacts, MakesCall
<1>2. /\ OwnPair(r, p) /\ PeerStands(r, p) /\ Took(r, p)
      /\ HostOf(p) # NoEnd /\ PeerOf(p) # NoEnd
  BY EndsFacts, NoneAssumption DEF Stage
<1>3. CASE Op(r) \in {"hostAddr", "hostUp"}
  <2>1. ~Ahead(todo[r], {"findHost"})
    BY <1>1, <1>3, NextFacts
  <2>2. QED
    BY <1>2, <1>3, <2>1 DEF Subject, Where, Denotes, Took, OwnPair
<1>4. CASE Op(r) = "move"
  <2>1. ~Ahead(todo[r], {"findTmp", "findPeer"}) /\ Ahead(todo[r], {"move"})
    BY <1>1, <1>4, NextFacts
  <2>2. QED
    BY <1>2, <1>4, <2>1 DEF Subject, Where, Denotes, Took, OwnPair, PeerStands
<1>5. CASE Op(r) = "rename"
  <2>1. /\ ~Ahead(todo[r], {"findTmp", "findPeer"}) /\ ~Ahead(todo[r], {"move"})
        /\ Ahead(todo[r], {"rename"})
    BY <1>1, <1>5, NextFacts
  <2>2. QED
    BY <1>2, <1>5, <2>1 DEF Subject, Where, Denotes, Took, OwnPair, PeerStands
<1>6. CASE Op(r) \in {"peerAddr", "peerUp"}
  <2>1. ~Ahead(todo[r], {"nsFindPeer"}) /\ ~Ahead(todo[r], {"move"})
    BY <1>1, <1>6, NextFacts
  <2>2. QED
    BY <1>2, <1>6, <2>1 DEF Subject, Where, Denotes, Took, OwnPair, PeerStands
<1>7. QED
  BY <1>3, <1>4, <1>5, <1>6 DEF Alters

LEMMA FoundOne ==
  ASSUME Base, NEW e \in Ends, link[e] # NoLink
  PROVE  Found(link[e].ns, link[e].name) = {e}
BY DEF Base, Unique, Found

\* What is looked for by name is the owner's.
LEMMA OwnFinds ==
  ASSUME Base, NEW r \in Requests, Makes(r), Owns(r), NEW p \in Pairs, Stage(r, p)
  PROVE  /\ Op(r) \in {"findHost", "delHost"} => FoundBy(r) = {HostOf(p)}
         /\ ok[r] /\ Op(r) \in PeerFinds => FoundBy(r) = {PeerOf(p)}
<1>1. /\ HostOf(p) \in Ends /\ PeerOf(p) \in Ends /\ Op(r) = Head(todo[r]).op /\ OwnPair(r, p)
  BY EndsFacts DEF Stage, Op
<1>2. Found(Host, call[r].host) = {HostOf(p)}
  BY <1>1, FoundOne DEF OwnPair
<1>3. Op(r) \in {"findHost", "delHost"} => FoundBy(r) = {HostOf(p)}
  BY <1>1, <1>2 DEF FoundBy, Place
<1>4. ASSUME ok[r], Op(r) \in PeerFinds PROVE FoundBy(r) = {PeerOf(p)}
  <2>1. /\ todo[r] \in Rests(Mine) /\ Shape(Mine) /\ todo[r] # << >>
        /\ PeerStands(r, p)
    BY <1>4, OwnerFacts, MakesCall DEF Stage
  <2>2. Found(link[PeerOf(p)].ns, link[PeerOf(p)].name) = {PeerOf(p)}
    BY <1>1, FoundOne DEF OwnPair
  <2>3. /\ Op(r) = "findTmp" => Ahead(todo[r], {"move"}) /\ Ahead(todo[r], {"rename"})
        /\ Op(r) = "findPeer" => Ahead(todo[r], {"move"}) /\ ~Ahead(todo[r], {"rename"})
        /\ Op(r) = "nsFindTmp" => ~Ahead(todo[r], {"move"}) /\ Ahead(todo[r], {"rename"})
        /\ Op(r) = "nsFindPeer" => ~Ahead(todo[r], {"move"}) /\ ~Ahead(todo[r], {"rename"})
    BY <1>1, <2>1, NextFacts
  <2>4. CASE Op(r) = "findTmp"
    BY <1>1, <2>1, <2>2, <2>3, <2>4 DEF FoundBy, Place, PeerStands
  <2>5. CASE Op(r) = "findPeer"
    BY <1>1, <2>1, <2>2, <2>3, <2>5 DEF FoundBy, Place, PeerStands
  <2>6. CASE Op(r) = "nsFindTmp"
    BY <1>1, <2>1, <2>2, <2>3, <2>6 DEF FoundBy, Place, PeerStands
  <2>7. CASE Op(r) = "nsFindPeer"
    BY <1>1, <2>1, <2>2, <2>3, <2>7 DEF FoundBy, Place, PeerStands
  <2>8. QED
    BY <1>4, <2>4, <2>5, <2>6, <2>7 DEF PeerFinds
<1>5. QED
  BY <1>3, <1>4

\* Which failures a request does not look at.
LEMMA MustFacts ==
  ASSUME Base, NEW r \in Requests, Makes(r), ok[r]
  PROVE  /\ Op(r) \in Adds \cup PeerFinds => Head(todo[r]).must
         /\ setting.server # "Joseng8908" /\ Op(r) \in Alters \cup {"findHost"} => Head(todo[r]).must
         /\ setting.server \notin {"Joseng8908", "statsops", "lnaura"} /\ Op(r) = "loUp" =>
              Head(todo[r]).must
         /\ setting.server \in CleansUp \cup {"khsAlt", "Joseng8908"} => Op(r) \notin Deletes
<1>1. /\ setting.server \in Servers /\ Mine \in Seq(ScriptCall) /\ todo[r] \in Rests(Mine)
      /\ todo[r] # << >> /\ Op(r) = Head(todo[r]).op
  BY MineFacts, MakesRest, MakesCall DEF Base
<1>2. PICK i \in DOMAIN Mine : Head(todo[r]) = Mine[i]
  BY <1>1, RestsNext
<1>3. /\ setting.server \in CleansUp \cup {"khsAlt", "saguanamu"} => Strict(Mine, Work)
      /\ setting.server \in {"statsops", "lnaura"} => Strict(Mine, Work \ {"loUp"})
      /\ setting.server = "Joseng8908" => Strict(Mine, PeerFinds)
      /\ setting.server \in CleansUp \cup {"khsAlt", "Joseng8908"} => Keeps(Mine)
  BY ScriptFacts DEF Mine
<1>4. /\ PeerFinds \cup Alters \cup {"findHost"} \subseteq Work \ {"loUp"} /\ "loUp" \in Work
      /\ PeerFinds \cup Alters \cup {"findHost"} \subseteq Work
  BY DEF Work, PeerFinds, Alters
<1>5. \A A : Strict(Mine, A) /\ Op(r) \in Adds \cup A => Head(todo[r]).must
  BY <1>1, <1>2 DEF Strict
<1>6. setting.server \in CleansUp \cup {"khsAlt", "saguanamu", "statsops", "lnaura", "Joseng8908"}
  BY <1>1, ScriptFacts DEF CleansUp
<1>7. setting.server # "Joseng8908" => Strict(Mine, Work) \/ Strict(Mine, Work \ {"loUp"})
  BY <1>3, <1>6
<1>8. Op(r) \in Adds \cup PeerFinds => Head(todo[r]).must
  BY <1>3, <1>4, <1>5, <1>7
<1>9. setting.server # "Joseng8908" /\ Op(r) \in Alters \cup {"findHost"} => Head(todo[r]).must
  BY <1>4, <1>5, <1>7
<1>10. setting.server \notin {"Joseng8908", "statsops", "lnaura"} /\ Op(r) = "loUp" => Head(todo[r]).must
  BY <1>3, <1>4, <1>5, <1>6
<1>11. setting.server \in CleansUp \cup {"khsAlt", "Joseng8908"} => Op(r) \notin Deletes
  BY <1>1, <1>2, <1>3 DEF Keeps
<1>12. QED
  BY <1>8, <1>9, <1>10, <1>11

\* A request that goes on has not given up, and one that gives up changes nothing.
LEMMA GoesOrGives ==
  ASSUME Base, NEW r \in Requests, Makes(r), ok[r]
  PROVE  ~(GoesOn(r) /\ GivesUp(r)) /\ (GivesUp(r) => KeepsLinks(r))
<1>1. ~(GoesOn(r) /\ GivesUp(r))
  BY MakesPlanned
<1>2. QED
  BY <1>1, LinkMoves DEF DeletesLinks, AddsPair, AltersEnd

\* When the owner of a pair goes on, what it was to do is done.
LEMMA OwnGoes ==
  ASSUME Base, Held(setting), NEW r \in Requests, Makes(r), Owns(r), ok[r], MoveFree(r),
         NEW p \in Pairs, Stage(r, p), GoesOn(r) \/ setting.server = "Joseng8908"
  PROVE  /\ Op(r) \in Alters => AltersEnd(r)
         /\ Op(r) = "findHost" => FindsHost(r)
         /\ Op(r) \in PeerFinds => FindsPeer(r)
<1>1. setting.server = "Joseng8908" => ~CanFail("link") /\ ~CanFail("address") /\ ~CanFail("find")
  BY DEF Held, CanFail
<1>2. ASSUME Op(r) \in Alters PROVE AltersEnd(r)
  <2>1. Op(r) \notin Deletes \cup Adds
    BY <1>2 DEF Alters, Deletes, Adds
  <2>2. KeepsLinks(r) \/ AltersEnd(r)
    BY <2>1, LinkMoves DEF DeletesLinks, AddsPair, AddsAt, Adds
  <2>3. CASE KeepsLinks(r)
    <3>1. (GivesUp(r) \/ ~Head(todo[r]).must) /\ (~Possible(r) \/ CanFail("link") \/ CanFail("address"))
      BY <1>2, <2>3, OwnSubject DEF KeepsLinks
    <3>2. setting.server = "Joseng8908"
      BY <1>2, <3>1, MustFacts, GoesOrGives
    <3>3. ~Possible(r)
      BY <1>1, <3>1, <3>2
    <3>4. Op(r) = "move" \/ Op(r) = "rename"
      BY <3>3 DEF Possible
    <3>5. /\ todo[r] \in Rests(Mine) /\ Shape(Mine) /\ todo[r] # << >> /\ Op(r) = Head(todo[r]).op
          /\ \A A : Ahead(todo[r], A) <=> Op(r) \in A \/ Ahead(Tail(todo[r]), A)
      BY OwnerFacts, MakesCall
    <3>6. Op(r) # "rename"
      <4>1. Strict(Mine, PeerFinds) /\ Blunt(Mine) /\ Mine \in Seq(ScriptCall)
        BY <3>2, ScriptFacts, MineFacts DEF Mine, Base
      <4>2. PICK i \in DOMAIN Mine : Head(todo[r]) = Mine[i]
        BY <3>5, <4>1, RestsNext
      <4>3. QED
        BY <3>5, <4>1, <4>2 DEF Blunt
    <3>7. Op(r) = "move" /\ Ahead(todo[r], {"move"})
      BY <3>4, <3>5, <3>6
    <3>8. Found(call[r].ns, call[r].peer) = {}
      BY <3>2, <3>7 DEF MoveFree, Owns
    <3>9. ~Ahead(todo[r], {"rename"})
      <4>1. Blunt(Mine) /\ Mine \in Seq(ScriptCall)
        BY <3>2, ScriptFacts, MineFacts DEF Mine, Base
      <4>2. PICK i \in 1 .. Len(Mine) + 1 : todo[r] = SubSeq(Mine, i, Len(Mine))
        BY <3>5 DEF Rests
      <4>3. QED
        BY <4>1, <4>2, AheadRest DEF Blunt
    <3>10. link[PeerOf(p)].name = call[r].peer /\ Subject(r) = PeerOf(p)
      BY <1>2, <3>7, <3>9, OwnSubject DEF Stage, PeerStands
    <3>11. Subject(r) = peerLink[r]
      BY <3>7 DEF Subject
    <3>12. Possible(r)
      BY <3>7, <3>8, <3>10, <3>11 DEF Possible
    <3>13. QED
      BY <3>3, <3>12
  <2>4. QED
    BY <2>2, <2>3
<1>3. ASSUME Op(r) = "findHost" PROVE FindsHost(r)
  BY <1>1, <1>3, LocalMoves, OwnFinds, MustFacts, GoesOrGives
<1>4. ASSUME Op(r) \in PeerFinds PROVE FindsPeer(r)
  <2>1. FoundBy(r) # {} /\ Head(todo[r]).must
    BY <1>4, OwnFinds, MustFacts
  <2>2. QED
    BY <1>1, <1>4, <2>1, LocalMoves, GoesOrGives
<1>5. QED
  BY <1>2, <1>3, <1>4

\* An owner whose calls fail for no reason goes on.
LEMMA OwnGoesOn ==
  ASSUME Base, NEW r \in Requests, Makes(r), Owns(r), ok[r], NEW p \in Pairs, Stage(r, p),
         \A f \in Failures : ~CanFail(f),
         Op(r) \in Alters => Possible(r)
  PROVE  ~GivesUp(r)
<1> SUFFICES ASSUME GivesUp(r) PROVE FALSE
  OBVIOUS
<1>1. KeepsLinks(r) /\ ~GoesOn(r)
  BY GoesOrGives
<1>2. ~CanFail("parse") /\ ~CanFail("open") /\ ~CanFail("find") /\ ~CanFail("delete")
      /\ ~CanFail("link") /\ ~CanFail("address") /\ ~CanFail("lo")
  BY DEF Failures
<1>3. Op(r) \notin {"parse", "openNs"} \cup Deletes
  BY <1>1, <1>2 DEF KeepsLinks
<1>4. Op(r) \notin Alters
  BY <1>1, <1>2, OwnSubject DEF KeepsLinks
<1>5. Op(r) # "findHost" /\ Op(r) \notin PeerFinds
  BY <1>1, <1>2, LocalMoves, OwnFinds DEF FindsHost, FindsPeer
<1>6. Op(r) # "loUp"
  BY <1>1, <1>2, LocalMoves DEF LoGoes
<1>7. Op(r) \notin Adds \cup Absents
  BY OwnerFacts
<1>8. QED
  BY <1>3, <1>4, <1>5, <1>6, <1>7, MakesFrame DEF Work

\* How a call of its owner changes a pair.
LEMMA OwnLinks ==
  ASSUME Base, Held(setting), NEW r \in Requests, Makes(r), Owns(r), ok[r], MoveFree(r),
         NEW p \in Pairs, Stage(r, p), GoesOn(r)
  PROVE  \E h, e \in Links :
           /\ link'[HostOf(p)] = h /\ link'[PeerOf(p)] = e
           /\ h.ns = Host /\ h.name = call[r].host
           /\ e.ns = IF Op(r) = "move" THEN call[r].ns ELSE link[PeerOf(p)].ns
           /\ e.name = IF Op(r) = "rename" THEN call[r].peer ELSE link[PeerOf(p)].name
           /\ Op(r) = "hostAddr" \/ link[HostOf(p)].addr => h.addr
           /\ Op(r) = "hostUp" \/ link[HostOf(p)].up => h.up
           /\ Op(r) = "peerAddr" \/ (Op(r) # "move" /\ link[PeerOf(p)].addr) => e.addr
           /\ Op(r) = "peerUp" \/ (Op(r) # "move" /\ link[PeerOf(p)].up) => e.up
           /\ HostOf(p) \notin given' /\ PeerOf(p) \notin given'
<1> DEFINE h0 == link[HostOf(p)]
           e0 == link[PeerOf(p)]
<1>1. /\ HostOf(p) \in Ends /\ PeerOf(p) \in Ends /\ HostOf(p) # PeerOf(p)
      /\ OtherEnd(HostOf(p)) = PeerOf(p) /\ OtherEnd(PeerOf(p)) = HostOf(p)
  BY EndsFacts
<1>2. /\ h0 # NoLink /\ e0 # NoLink /\ h0.ns = Host /\ h0.name = call[r].host
      /\ HostOf(p) \notin given /\ PeerOf(p) \notin given
  BY DEF Stage, OwnPair
<1>3. h0 \in Links /\ e0 \in Links
  BY <1>1, <1>2 DEF Base, Typed
<1>4. CASE Op(r) \in Alters
  <2>1. AltersEnd(r)
    BY <1>4, OwnGoes
  <2>2. PICK e \in Ends, l \in Links :
           /\ e = Subject(r) /\ link[e] \in Links /\ link[e].ns = Where(r)
           /\ link' = [link EXCEPT ![e] = l]
           /\ Op(r) = "move" => l = Fresh(call[r].ns, link[e].name)
           /\ Op(r) = "rename" => l.ns = link[e].ns /\ l.name = call[r].peer
           /\ Op(r) \notin {"move", "rename"} => l.ns = link[e].ns /\ l.name = link[e].name
           /\ Op(r) # "move" => (link[e].addr => l.addr) /\ (link[e].up => l.up)
           /\ Op(r) \in {"hostAddr", "peerAddr"} => l.addr
           /\ Op(r) \in {"hostUp", "peerUp"} => l.up
    BY <2>1, AltersType
  <2>3. given' = given
    BY <2>1 DEF AltersEnd
  <2>4. CASE Op(r) \in {"hostAddr", "hostUp"}
    <3>1. e = HostOf(p)
      BY <1>4, <2>2, <2>4, OwnSubject
    <3>2. link'[HostOf(p)] = l /\ link'[PeerOf(p)] = e0
      BY <1>1, <2>2, <3>1 DEF Base, Typed
    <3>3. QED
      BY <1>2, <1>3, <2>2, <2>3, <2>4, <3>1, <3>2
  <2>5. CASE Op(r) \in {"move", "rename", "peerAddr", "peerUp"}
    <3>1. e = PeerOf(p)
      BY <1>4, <2>2, <2>5, OwnSubject
    <3>2. link'[HostOf(p)] = h0 /\ link'[PeerOf(p)] = l
      BY <1>1, <2>2, <3>1 DEF Base, Typed
    <3>3. Op(r) = "move" => l.ns = call[r].ns /\ l.name = e0.name
      BY <2>2, <3>1 DEF Fresh
    <3>4. QED
      BY <1>2, <1>3, <2>2, <2>3, <2>5, <3>1, <3>2, <3>3
  <2>6. QED
    BY <1>4, <2>4, <2>5 DEF Alters
<1>5. CASE Op(r) \notin Alters
  <2>1. /\ link'[HostOf(p)] = h0 /\ link'[PeerOf(p)] = e0
        /\ HostOf(p) \notin given' /\ PeerOf(p) \notin given'
    <3>1. CASE KeepsLinks(r)
      BY <1>2, <3>1 DEF KeepsLinks
    <3>2. CASE DeletesLinks(r)
      <4>1. Op(r) = "delPeer"
        BY <3>2, OwnerFacts DEF DeletesLinks, Deletes
      <4>2. /\ Ahead(todo[r], {"rename"}) /\ Op(r) = Head(todo[r]).op
        BY <4>1, OwnerFacts, MakesCall, NextFacts
      <4>3. e0.name = Temp(call[r].host) /\ call[r] \in Calls
        BY <4>2, MakesCall DEF Stage, PeerStands
      <4>4. /\ e0.name # call[r].peer /\ call[r].ns # Host
        BY <4>3, LinksFacts, NamesAssumption, NamespacesAssumption
      <4>5. FoundBy(r) = Found(call[r].ns, call[r].peer)
        BY <4>1, <4>2 DEF FoundBy, Place
      <4>6. HostOf(p) \notin FoundBy(r) /\ PeerOf(p) \notin FoundBy(r)
        BY <1>2, <4>4, <4>5 DEF Found
      <4>7. QED
        BY <1>1, <1>2, <3>2, <4>6, DeletesType, FoundByEnds DEF DeletesLinks
    <3>3. ~AltersEnd(r) /\ \A q \in Pairs : \A where, name : ~AddsPair(r, q, where, name)
      BY <1>5, OwnerFacts DEF AltersEnd, AddsPair, AddsAt, Adds
    <3>4. QED
      BY <3>1, <3>2, <3>3, LinkMoves
  <2>2. Op(r) \notin {"move", "rename", "hostAddr", "hostUp", "peerAddr", "peerUp"}
    BY <1>5 DEF Alters
  <2>3. QED
    BY <1>2, <1>3, <2>1, <2>2
<1>6. QED
  BY <1>4, <1>5

\* What an owner took stays what it took.
LEMMA OwnTook ==
  ASSUME Base, Held(setting), NEW r \in Requests, Makes(r), Owns(r), ok[r], MoveFree(r),
         NEW p \in Pairs, Stage(r, p), GoesOn(r)
  PROVE  Took(r, p)'
<1>1. /\ todo'[r] = Tail(todo[r])
      /\ \A A : Ahead(todo[r], A) <=> Op(r) \in A \/ Ahead(Tail(todo[r]), A)
      /\ Took(r, p)
  BY MakesPlanned, OwnerFacts DEF Stage
<1>2. hostLink'[r] = IF Op(r) = "findHost" THEN HostOf(p) ELSE hostLink[r]
  <2>1. CASE Op(r) = "findHost"
    <3>1. FindsHost(r) /\ FoundBy(r) = {HostOf(p)}
      BY <2>1, OwnGoes, OwnFinds
    <3>2. hostLink' = [hostLink EXCEPT ![r] = HostOf(p)]
      BY <3>1 DEF FindsHost
    <3>3. QED
      BY <2>1, <3>2 DEF Base, Typed
  <2>2. CASE Op(r) # "findHost"
    BY <2>2, LocalMoves
  <2>3. QED
    BY <2>1, <2>2
<1>3. peerLink'[r] = IF Op(r) \in PeerFinds THEN PeerOf(p) ELSE peerLink[r]
  <2>1. CASE Op(r) \in PeerFinds
    <3>1. FindsPeer(r) /\ FoundBy(r) = {PeerOf(p)}
      BY <2>1, OwnGoes, OwnFinds
    <3>2. peerLink' = [peerLink EXCEPT ![r] = PeerOf(p)]
      BY <3>1 DEF FindsPeer
    <3>3. QED
      BY <2>1, <3>2 DEF Base, Typed
  <2>2. CASE Op(r) \notin PeerFinds
    BY <2>2, LocalMoves
  <2>3. QED
    BY <2>1, <2>2
<1>4. {"findTmp", "findPeer", "nsFindPeer"} \subseteq PeerFinds
  BY DEF PeerFinds
<1>5. ~Ahead(todo'[r], {"findHost"}) => hostLink'[r] = HostOf(p)
  BY <1>1, <1>2 DEF Took
<1>6. ~Ahead(todo'[r], {"nsFindPeer"}) => peerLink'[r] = PeerOf(p)
  BY <1>1, <1>3, <1>4 DEF Took
<1>7. ~Ahead(todo'[r], {"findTmp", "findPeer"}) /\ (Ahead(todo'[r], {"move"}) \/ Ahead(todo'[r], {"rename"})) =>
        peerLink'[r] = PeerOf(p)
  BY <1>1, <1>3, <1>4 DEF Took
<1>8. QED
  BY <1>5, <1>6, <1>7 DEF Took

LEMMA OwnStage ==
  ASSUME Base, Held(setting), NEW r \in Requests, Makes(r), Owns(r), ok[r], MoveFree(r),
         NEW p \in Pairs, Stage(r, p), GoesOn(r)
  PROVE  Stage(r, p)'
<1>1. PICK h \in Links, e \in Links :
           /\ link'[HostOf(p)] = h /\ link'[PeerOf(p)] = e
           /\ h.ns = Host /\ h.name = call[r].host
           /\ e.ns = IF Op(r) = "move" THEN call[r].ns ELSE link[PeerOf(p)].ns
           /\ e.name = IF Op(r) = "rename" THEN call[r].peer ELSE link[PeerOf(p)].name
           /\ Op(r) = "hostAddr" \/ link[HostOf(p)].addr => h.addr
           /\ Op(r) = "hostUp" \/ link[HostOf(p)].up => h.up
           /\ Op(r) = "peerAddr" \/ (Op(r) # "move" /\ link[PeerOf(p)].addr) => e.addr
           /\ Op(r) = "peerUp" \/ (Op(r) # "move" /\ link[PeerOf(p)].up) => e.up
           /\ HostOf(p) \notin given' /\ PeerOf(p) \notin given'
  BY OwnLinks
<1>2. /\ todo'[r] = Tail(todo[r]) /\ call' = call
      /\ \A A : Ahead(todo[r], A) <=> Op(r) \in A \/ Ahead(Tail(todo[r]), A)
      /\ PeerStands(r, p) /\ Configured(r, p)
  BY MakesPlanned, MakesFrame, OwnerFacts DEF Stage
<1>3. OwnPair(r, p)'
  BY <1>1, <1>2, LinksFacts DEF OwnPair
<1>4. /\ Op(r) = "move" => ~Ahead(Tail(todo[r]), {"move"}) /\ Ahead(Tail(todo[r]), {"peerAddr"})
                           /\ Ahead(Tail(todo[r]), {"peerUp"})
      /\ Op(r) = "rename" => ~Ahead(Tail(todo[r]), {"rename"})
  BY OwnerFacts, MakesCall, NextFacts
<1>5. e.ns = IF Ahead(todo'[r], {"move"}) THEN Host ELSE call[r].ns
  BY <1>1, <1>2, <1>4 DEF PeerStands
<1>6. e.name = IF Ahead(todo'[r], {"rename"}) THEN Temp(call[r].host) ELSE call[r].peer
  BY <1>1, <1>2, <1>4 DEF PeerStands
<1>7. PeerStands(r, p)'
  BY <1>1, <1>2, <1>5, <1>6 DEF PeerStands
<1>8. Configured(r, p)'
  BY <1>1, <1>2, <1>4 DEF Configured
<1>9. QED
  BY <1>3, <1>7, <1>8, OwnTook DEF Stage

\* Whatever becomes of its call, an owner that is one still has its pair.
LEMMA OwnStep ==
  ASSUME Base, Held(setting), NEW r \in Requests, Makes(r), Owns(r), MoveFree(r),
         NEW p \in Pairs, Stage(r, p), Owns(r)'
  PROVE  Stage(r, p)'
<1>1. CASE ok[r] /\ GoesOn(r)
  BY <1>1, OwnStage
<1>2. CASE ok[r] /\ GivesUp(r)
  <2>1. ~ok'[r] /\ call' = call /\ link' = link /\ given' = given
    BY <1>2, MakesPlanned, MakesFrame, GoesOrGives DEF KeepsLinks
  <2>2. QED
    BY <2>1 DEF Stage, OwnPair
<1>3. CASE ~ok[r]
  <2>1. GoesOn(r) /\ todo[r] = Quietly(<<"delHost">>)
    BY <1>3, MakesRest
  <2>2. todo'[r] = << >> /\ ok'[r] = ok[r]
    BY <2>1, MakesPlanned, QuietDelHost
  <2>3. QED
    BY <1>3, <2>2 DEF Owns
<1>4. QED
  BY <1>1, <1>2, <1>3, MakesRest

\* One pair has one owner.
LEMMA OwnersApart ==
  ASSUME Base, Distinct, NEW q \in Requests, NEW r \in Requests, q # r, Owns(q), Owns(r),
         NEW p \in Pairs, NEW o \in Pairs, OwnPair(q, p), OwnPair(r, o)
  PROVE  p # o
BY DEF Distinct, OwnPair

\* Only an owner works on a pair.
LEMMA WorkOwns ==
  ASSUME Base, NEW r \in Requests, Makes(r), Op(r) \in Work
  PROVE  Owns(r) /\ ok[r]
<1>1. ok[r]
  BY MakesRest DEF Work, Alters, PeerFinds
<1>2. /\ todo[r] \in Rests(Mine) /\ Shape(Mine) /\ todo[r] # << >> /\ Op(r) = Head(todo[r]).op
      /\ call[r] # NoCall
  BY <1>1, MakesRest, MakesCall, MineFacts, LinksFacts DEF Base
<1>3. QED
  BY <1>1, <1>2, NextFacts DEF Owns

\* Requests leave each other's pairs alone.
LEMMA OtherStep ==
  ASSUME Base, Held(setting), Staged, NEW r \in Requests, Makes(r),
         NEW q \in Requests \ {r}, Owns(q), NEW p \in Pairs, Stage(q, p)
  PROVE  /\ Stage(q, p)' /\ Owns(q)'
         /\ link'[HostOf(p)] = link[HostOf(p)] /\ link'[PeerOf(p)] = link[PeerOf(p)]
<1>1. /\ call' = call /\ todo'[q] = todo[q] /\ ok'[q] = ok[q] /\ call[r] # NoCall
      /\ hostLink'[q] = hostLink[q] /\ peerLink'[q] = peerLink[q]
  <2>1. /\ hostLink' = hostLink \/ \E e \in Ends : hostLink' = [hostLink EXCEPT ![r] = e]
        /\ peerLink' = peerLink \/ \E e \in Ends : peerLink' = [peerLink EXCEPT ![r] = e]
    BY LocalMoves, FoundByEnds DEF FindsHost, FindsPeer
  <2>2. QED
    BY <2>1, MakesFrame, MakesPlanned, MakesCall, LinksFacts DEF Base, Typed
<1>2. /\ HostOf(p) \in Ends /\ PeerOf(p) \in Ends
      /\ OtherEnd(HostOf(p)) = PeerOf(p) /\ OtherEnd(PeerOf(p)) = HostOf(p)
      /\ OwnPair(q, p)
  BY EndsFacts DEF Stage
<1>3. /\ link'[HostOf(p)] = link[HostOf(p)] /\ link'[PeerOf(p)] = link[PeerOf(p)]
      /\ HostOf(p) \notin given' /\ PeerOf(p) \notin given'
  <2>1. CASE KeepsLinks(r)
    BY <1>2, <2>1 DEF KeepsLinks, OwnPair
  <2>2. ASSUME NEW o \in Pairs, NEW where, NEW name, AddsPair(r, o, where, name)
        PROVE  /\ link'[HostOf(p)] = link[HostOf(p)] /\ link'[PeerOf(p)] = link[PeerOf(p)]
               /\ HostOf(p) \notin given' /\ PeerOf(p) \notin given'
    <3>1. link[HostOf(o)] = NoLink /\ given' = given
          /\ \A e \in Ends : e # HostOf(o) /\ e # PeerOf(o) => link'[e] = link[e]
      BY <2>2, AddsType DEF AddsPair
    <3>2. o # p
      BY <1>2, <3>1 DEF OwnPair
    <3>3. QED
      BY <1>2, <3>1, <3>2, EndsFacts DEF OwnPair
  <2>3. CASE DeletesLinks(r)
    <3>1. setting.server \in CleansUp \cup {"khsAlt"}
      <4>1. setting.clients = "any"
        BY <1>1 DEF Staged, Alone, Owns
      <4>2. setting.server \in Servers /\ setting.server # "Joseng8908"
            /\ setting.server \notin Replaces
        BY <4>1, MineFacts DEF Held, Base
      <4>3. QED
        BY <4>2, ScriptFacts DEF CleansUp, Replaces
    <3>2. ~ok[r] /\ Op(r) = "delHost" /\ todo[r] = Quietly(<<"delHost">>)
      BY <2>3, <3>1, MustFacts, MakesRest DEF DeletesLinks
    <3>3. Owns(r)
      BY <1>1, <3>2, QuietDelHost, MakesCall DEF Owns, Adds
    <3>4. PICK o \in Pairs : Stage(r, o)
      BY <3>3 DEF Staged, Owners
    <3>5. o # p
      BY <1>2, <3>3, <3>4, OwnersApart DEF Staged, Stage
    <3>6. FoundBy(r) = {HostOf(o)}
      BY <3>2, <3>3, <3>4, OwnFinds
    <3>7. HostOf(p) \notin FoundBy(r) /\ PeerOf(p) \notin FoundBy(r)
      BY <3>5, <3>6, EndsFacts
    <3>8. QED
      BY <1>2, <2>3, <3>7, DeletesType, FoundByEnds DEF DeletesLinks, OwnPair
  <2>4. CASE AltersEnd(r)
    <3>1. Op(r) \in Alters
      BY <2>4 DEF AltersEnd
    <3>2. ok[r]
      BY <3>1, WorkOwns DEF Work
    <3>3. Owns(r)
      BY <3>1, WorkOwns DEF Work
    <3>4. PICK o \in Pairs : Stage(r, o)
      BY <3>3 DEF Staged, Owners
    <3>5. o # p
      BY <1>2, <3>3, <3>4, OwnersApart DEF Staged, Stage
    <3>6. Subject(r) \in {HostOf(o), PeerOf(o)}
      BY <3>1, <3>2, <3>3, <3>4, OwnSubject
    <3>7. Subject(r) # HostOf(p) /\ Subject(r) # PeerOf(p)
      BY <3>5, <3>6, EndsFacts
    <3>8. PICK l : link' = [link EXCEPT ![Subject(r)] = l] /\ given' = given
      BY <2>4 DEF AltersEnd
    <3>9. QED
      BY <1>2, <3>7, <3>8 DEF Base, Typed, OwnPair
  <2>5. QED
    BY <2>1, <2>2, <2>3, <2>4, LinkMoves
<1>4. Stage(q, p)'
  BY <1>1, <1>2, <1>3 DEF Stage, OwnPair, PeerStands, Took, Configured
<1>5. Owns(q)'
  BY <1>1 DEF Owns
<1>6. QED
  BY <1>3, <1>4, <1>5

\* A request that comes to own a pair has just made it.
LEMMA NewOwner ==
  ASSUME Base, GivenThere, NEW r \in Requests, Makes(r), ~Owns(r), Owns(r)'
  PROVE  /\ Found(Host, call[r].host) = {}
         /\ \E p \in Pairs : /\ Stage(r, p)'
                             /\ \A e \in Ends : e # HostOf(p) /\ e # PeerOf(p) => link'[e] = link[e]
<1>1. call' = call /\ call[r] \in Calls /\ todo[r] # << >> /\ call[r] # NoCall
      /\ Op(r) = Head(todo[r]).op
  BY MakesFrame, MakesCall, LinksFacts
<1>2. ok[r]
  <2>1. SUFFICES ASSUME ~ok[r] PROVE FALSE
    OBVIOUS
  <2>2. todo[r] = Quietly(<<"delHost">>) /\ GoesOn(r)
    BY <2>1, MakesRest
  <2>3. QED
    BY <1>1, <2>1, <2>2, QuietDelHost DEF Owns, Adds
<1>3. /\ todo[r] \in Rests(Mine) /\ Shape(Mine) /\ Mine \in Seq(ScriptCall)
      /\ Ahead(todo[r], Adds)
  BY <1>1, <1>2, MakesRest, MineFacts DEF Base, Owns
<1>4. GoesOn(r) /\ ~GivesUp(r) /\ todo'[r] = Tail(todo[r])
  <2>1. SUFFICES ASSUME GivesUp(r) PROVE FALSE
    BY MakesRest, MakesPlanned
  <2>2. Head(todo[r]).cleanup = << >>
    BY <1>1, <1>3, NextFacts
  <2>3. ~ok'[r] /\ todo'[r] = << >>
    BY <2>1, <2>2, MakesPlanned, QuietDelHost
  <2>4. QED
    BY <2>3 DEF Owns
<1>5. Op(r) \in Adds
  BY <1>1, <1>3, <1>4, AheadNext DEF Owns
<1>6. PICK p \in Pairs : \E where, name : AddsPair(r, p, where, name)
  <2>1. Op(r) \notin Deletes \cup Alters
    BY <1>5 DEF Adds, Deletes, Alters
  <2>2. ~KeepsLinks(r)
    BY <1>2, <1>4, <1>5, MustFacts DEF KeepsLinks
  <2>3. QED
    BY <2>1, <2>2, LinkMoves DEF DeletesLinks, AltersEnd
<1>7. PICK where, name : AddsPair(r, p, where, name)
  BY <1>6
<1>8. /\ link'[HostOf(p)] = Fresh(Host, call[r].host)
      /\ link'[PeerOf(p)] = Fresh(where, name)
      /\ link[HostOf(p)] = NoLink /\ link[PeerOf(p)] = NoLink
      /\ \A e \in Ends : e # HostOf(p) /\ e # PeerOf(p) => link'[e] = link[e]
      /\ where \in Named \cup {Host} /\ name \in Ifnames
  BY <1>7, AddsType
<1>9. Found(Host, call[r].host) = {} /\ given' = given /\ AddsAt(r, where, name)
  BY <1>7 DEF AddsPair
<1>10. HostOf(p) \notin given' /\ PeerOf(p) \notin given'
  BY <1>8, <1>9 DEF GivenThere
<1>11. /\ Fresh(Host, call[r].host) \in Links /\ Fresh(where, name) \in Links
       /\ Fresh(Host, call[r].host).ns = Host /\ Fresh(Host, call[r].host).name = call[r].host
       /\ Fresh(where, name).ns = where /\ Fresh(where, name).name = name
  <2>1. Host \in Named \cup {Host} /\ call[r].host \in Ifnames
    BY <1>1, LinksFacts
  <2>2. QED
    BY <1>8, <2>1, LinksFacts
<1>12. OwnPair(r, p)'
  BY <1>1, <1>8, <1>10, <1>11, LinksFacts DEF OwnPair
<1>13. \A x \in Configures : Ahead(todo'[r], {x})
  <2>1. \A x \in Configures : Ahead(Tail(todo[r]), {x})
    BY <1>1, <1>3, <1>5, NextFacts
  <2>2. QED
    BY <1>4, <2>1
<1>14. Configured(r, p)'
  BY <1>13 DEF Configured, Configures
<1>15. PeerStands(r, p)' /\ Took(r, p)'
  <2>1. Ahead(todo'[r], {"findHost"}) /\ Ahead(todo'[r], {"nsFindPeer"})
    BY <1>13 DEF Configures
  <2>2. CASE Op(r) = "add"
    <3>1. /\ Ahead(todo'[r], {"findTmp", "findPeer"})
          /\ Ahead(todo'[r], {"move"}) /\ Ahead(todo'[r], {"rename"})
      BY <1>1, <1>3, <1>4, <2>2, NextFacts
    <3>2. where = Host /\ name = Temp(call[r].host)
      BY <1>9, <2>2 DEF AddsAt
    <3>3. QED
      BY <1>1, <1>8, <1>11, <2>1, <3>1, <3>2 DEF PeerStands, Took
  <2>3. CASE Op(r) = "addPeer"
    <3>1. /\ Ahead(todo'[r], {"findTmp", "findPeer"})
          /\ Ahead(todo'[r], {"move"}) /\ ~Ahead(todo'[r], {"rename"})
      BY <1>1, <1>3, <1>4, <2>3, NextFacts
    <3>2. where = Host /\ name = call[r].peer
      BY <1>9, <2>3 DEF AddsAt
    <3>3. QED
      BY <1>1, <1>8, <1>11, <2>1, <3>1, <3>2 DEF PeerStands, Took
  <2>4. CASE Op(r) = "addInNs"
    <3>1. ~Ahead(todo'[r], {"move"}) /\ ~Ahead(todo'[r], {"rename"})
      BY <1>1, <1>3, <1>4, <2>4, NextFacts
    <3>2. where = call[r].ns /\ name = call[r].peer
      BY <1>9, <2>4 DEF AddsAt
    <3>3. QED
      BY <1>1, <1>8, <1>11, <2>1, <3>1, <3>2 DEF PeerStands, Took
  <2>5. QED
    BY <1>5, <2>2, <2>3, <2>4 DEF Adds
<1>16. QED
  BY <1>8, <1>9, <1>12, <1>14, <1>15 DEF Stage

-----------------------------------------------------------------------------
(* The pairs of all requests *)

\* What has been promised is changed by nobody, and deleted by servers that clean
\* up never.
LEMMA GivenKept ==
  ASSUME Base, Held(setting), Staged, NEW r \in Requests, Makes(r), NEW e \in Ends, e \in given
  PROVE  \/ e \in given' /\ link'[e] = link[e] /\ OtherEnd(e) \in given'
         \/ /\ e \notin given' /\ link'[e] = NoLink
            /\ setting.server \notin CleansUp \cup {"khsAlt", "Joseng8908"}
<1>1. /\ link[e] # NoLink /\ OtherEnd(e) \in given /\ OtherEnd(e) \in Ends /\ OtherEnd(OtherEnd(e)) = e
  BY EndsFacts DEF Staged, GivenThere
<1>2. CASE KeepsLinks(r)
  BY <1>1, <1>2 DEF KeepsLinks
<1>3. CASE DeletesLinks(r)
  <2>1. CASE e \in FoundBy(r) \/ OtherEnd(e) \in FoundBy(r)
    <3>1. e \notin given' /\ link'[e] = NoLink
      BY <1>3, <2>1, DeletesType, FoundByEnds DEF DeletesLinks
    <3>2. ASSUME setting.server \in CleansUp \cup {"khsAlt", "Joseng8908"} PROVE FALSE
      <4>1. ~ok[r] /\ Op(r) = "delHost" /\ todo[r] = Quietly(<<"delHost">>) /\ call[r] # NoCall
        BY <1>3, <3>2, MustFacts, MakesRest, MakesCall, LinksFacts DEF DeletesLinks
      <4>2. Owns(r)
        BY <4>1, QuietDelHost DEF Owns, Adds
      <4>3. PICK o \in Pairs : Stage(r, o)
        BY <4>2 DEF Staged, Owners
      <4>4. FoundBy(r) = {HostOf(o)}
        BY <4>1, <4>2, <4>3, OwnFinds
      <4>5. e = HostOf(o) \/ e = PeerOf(o)
        BY <1>1, <2>1, <4>4, EndsFacts
      <4>6. QED
        BY <4>3, <4>5 DEF Stage, OwnPair
    <3>3. QED
      BY <3>1, <3>2
  <2>2. CASE ~(e \in FoundBy(r) \/ OtherEnd(e) \in FoundBy(r))
    BY <1>1, <1>3, <2>2, DeletesType, FoundByEnds DEF DeletesLinks
  <2>3. QED
    BY <2>1, <2>2
<1>4. ASSUME NEW o \in Pairs, NEW where, NEW name, AddsPair(r, o, where, name)
      PROVE  e \in given' /\ link'[e] = link[e] /\ OtherEnd(e) \in given'
  <2>1. /\ link[HostOf(o)] = NoLink /\ link[PeerOf(o)] = NoLink /\ given' = given
        /\ \A f \in Ends : f # HostOf(o) /\ f # PeerOf(o) => link'[f] = link[f]
    BY <1>4, AddsType DEF AddsPair
  <2>2. QED
    BY <1>1, <2>1
<1>5. CASE AltersEnd(r)
  <2>1. Op(r) \in Alters /\ given' = given
    BY <1>5 DEF AltersEnd
  <2>2. Owns(r) /\ ok[r]
    BY <2>1, WorkOwns DEF Work
  <2>3. PICK o \in Pairs : Stage(r, o)
    BY <2>2 DEF Staged, Owners
  <2>4. Subject(r) \in {HostOf(o), PeerOf(o)}
    BY <2>1, <2>2, <2>3, OwnSubject
  <2>5. e # Subject(r)
    BY <2>3, <2>4 DEF Stage, OwnPair
  <2>6. PICK l : link' = [link EXCEPT ![Subject(r)] = l]
    BY <1>5 DEF AltersEnd
  <2>7. QED
    BY <1>1, <2>1, <2>5, <2>6 DEF Base, Typed
<1>6. QED
  BY <1>2, <1>3, <1>4, <1>5, LinkMoves

\* Calls promise nothing.
LEMMA MakesGiven ==
  ASSUME Base, NEW r \in Requests, Makes(r)
  PROVE  given' \subseteq given
<1>1. DeletesLinks(r) => given' \subseteq given
  BY DEF DeletesLinks, Delete
<1>2. QED
  BY <1>1, LinkMoves DEF KeepsLinks, AddsPair, AltersEnd

LEMMA MakesStaged ==
  ASSUME Base, Held(setting), Staged, NEW r \in Requests, Makes(r), MoveFree(r)
  PROVE  Staged'
<1>1. call' = call /\ setting' = setting
  BY MakesFrame
<1>2. Alone'
  BY <1>1 DEF Staged, Alone
<1>3. GivenThere'
  <2>1. ASSUME NEW e \in given' PROVE link'[e] # NoLink /\ OtherEnd(e) \in given'
    <3>1. e \in given /\ e \in Ends
      BY <2>1, MakesGiven DEF Base, Typed
    <3>2. link'[e] = link[e] /\ OtherEnd(e) \in given'
      BY <2>1, <3>1, GivenKept
    <3>3. QED
      BY <3>1, <3>2 DEF Staged, GivenThere
  <2>2. QED
    BY <2>1 DEF GivenThere
<1>4. ASSUME NEW q \in Requests, Owns(q)' PROVE \E p \in Pairs : Stage(q, p)'
  <2>1. CASE q # r
    <3>1. Owns(q)
      BY <1>1, <1>4, <2>1, MakesPlanned DEF Owns
    <3>2. PICK p \in Pairs : Stage(q, p)
      BY <3>1 DEF Staged, Owners
    <3>3. QED
      BY <2>1, <3>1, <3>2, OtherStep
  <2>2. CASE q = r /\ Owns(r)
    <3>1. PICK p \in Pairs : Stage(r, p)
      BY <2>2 DEF Staged, Owners
    <3>2. Stage(r, p)'
      BY <1>4, <2>2, <3>1, OwnStep
    <3>3. QED
      BY <2>2, <3>2
  <2>3. CASE q = r /\ ~Owns(r)
    BY <1>4, <2>3, NewOwner DEF Staged
  <2>4. QED
    BY <2>1, <2>2, <2>3
<1>5. ASSUME NEW q \in Requests \ {r}, Owns(q)', Owns(r)' PROVE call[q].host # call[r].host
  <2>1. Owns(q)
    BY <1>1, <1>5, MakesPlanned DEF Owns
  <2>2. CASE Owns(r)
    BY <2>1, <2>2 DEF Staged, Distinct
  <2>3. CASE ~Owns(r)
    <3>1. Found(Host, call[r].host) = {}
      BY <1>5, <2>3, NewOwner DEF Staged
    <3>2. PICK p \in Pairs : Stage(q, p)
      BY <2>1 DEF Staged, Owners
    <3>3. HostOf(p) \in Found(Host, call[q].host)
      BY <3>2, EndsFacts DEF Stage, OwnPair, Found
    <3>4. QED
      BY <3>1, <3>3
  <2>4. QED
    BY <2>2, <2>3
<1>6. ASSUME NEW q \in Requests \ {r} PROVE Owns(q)' => Owns(q)
  BY <1>1, MakesPlanned DEF Owns
<1>7. Distinct'
  <2>1. ASSUME NEW q \in Requests, NEW s \in Requests, q # s, Owns(q)', Owns(s)'
        PROVE  call[q].host # call[s].host
    <3>1. CASE q = r
      BY <1>5, <2>1, <3>1
    <3>2. CASE s = r
      BY <1>5, <2>1, <3>2
    <3>3. CASE q # r /\ s # r
      BY <1>6, <2>1, <3>3 DEF Staged, Distinct
    <3>4. QED
      BY <3>1, <3>2, <3>3
  <2>2. QED
    BY <1>1, <2>1 DEF Distinct
<1>8. Owners'
  BY <1>4 DEF Owners
<1>9. QED
  BY <1>2, <1>3, <1>7, <1>8 DEF Staged

\* An answer is given by the owner of a pair that is as promised, or promises none.
OwnMade(r, p) ==
  /\ HostOf(p) \in Made(call[r])
  /\ \A e \in Made(call[r]) : e = HostOf(p)

\* The pair of a request that has nothing left to do.
LEMMA StageMade ==
  ASSUME Base, NEW r \in Requests, ok[r], todo[r] = << >>, call[r] \in Calls,
         NEW p \in Pairs, Stage(r, p)
  PROVE  OwnMade(r, p)
<1>1. OwnPair(r, p) /\ PeerStands(r, p) /\ Configured(r, p) /\ \A A : ~Ahead(todo[r], A)
  BY EmptyAhead DEF Stage
<1>2. link[HostOf(p)] \in Links /\ link[PeerOf(p)] \in Links /\ HostOf(p) \in Ends
      /\ OtherEnd(HostOf(p)) = PeerOf(p) /\ PeerOf(p) \in Ends
  BY <1>1, EndsFacts DEF OwnPair, Base, Typed
<1>3. HostEnd(call[r], HostOf(p))
  BY <1>1, <1>2 DEF HostEnd, Links, OwnPair, Configured
<1>4. PeerEnd(call[r], PeerOf(p))
  BY <1>1, <1>2 DEF PeerEnd, Links, OwnPair, Configured, PeerStands
<1>5. HostOf(p) \in Made(call[r])
  BY <1>2, <1>3, <1>4 DEF Made
<1>6. ASSUME NEW e \in Made(call[r]) PROVE e = HostOf(p)
  <2>1. e \in Ends /\ link[e] # NoLink /\ link[e].ns = Host /\ link[e].name = call[r].host
    BY DEF Made, HostEnd
  <2>2. QED
    BY <1>1, <1>2, <2>1 DEF OwnPair, Base, Unique
<1>7. QED
  BY <1>5, <1>6 DEF OwnMade

LEMMA AnswersOwn ==
  ASSUME Base, Staged, NEW r \in Requests, Answer(r), ok[r]
  PROVE  \E p \in Pairs : Stage(r, p) /\ Owns(r) /\ OwnMade(r, p)
<1>1. todo[r] = << >> /\ call[r] \in Calls /\ call[r] # NoCall
  BY AnswersType, LinksFacts
<1>2. Owns(r)
  BY <1>1, EmptyAhead DEF Owns
<1>3. QED
  BY <1>1, <1>2, StageMade DEF Staged, Owners

LEMMA AnswersStaged ==
  ASSUME Base, Staged, NEW r \in Requests, Answer(r)
  PROVE  /\ Staged'
         /\ \A q \in Requests \ {r} : \A p \in Pairs :
              Owns(q) /\ Stage(q, p) => Owns(q)' /\ Stage(q, p)'
<1>1. /\ setting' = setting /\ link' = link /\ todo' = todo /\ ok' = ok
      /\ call'[r] = NoCall
      /\ \A q \in Requests \ {r} : /\ call'[q] = call[q] /\ hostLink'[q] = hostLink[q]
                                   /\ peerLink'[q] = peerLink[q]
      /\ given \subseteq given' /\ given' \in SUBSET Ends
      /\ \A e \in Ends : e \in given' \ given => ok[r] /\ (e \in Made(call[r]) \/ OtherEnd(e) \in Made(call[r]))
      /\ ok[r] => \A e \in Made(call[r]) : e \in given' /\ OtherEnd(e) \in given'
  BY AnswersType DEF Base, Typed
<1>2. ~Owns(r)' /\ \A q \in Requests \ {r} : Owns(q)' <=> Owns(q)
  BY <1>1 DEF Owns
<1>3. ASSUME NEW q \in Requests \ {r}, Owns(q), NEW p \in Pairs, Stage(q, p) PROVE Stage(q, p)'
  <2>1. HostOf(p) \notin given' /\ PeerOf(p) \notin given'
    <3>1. CASE ok[r]
      <4>1. PICK o \in Pairs : /\ Stage(r, o) /\ Owns(r) /\ \A e \in Made(call[r]) : e = HostOf(o)
        BY <3>1, AnswersOwn DEF OwnMade
      <4>2. o # p
        BY <1>3, <4>1, OwnersApart DEF Staged, Stage
      <4>3. \A e \in Ends : e \in given' \ given => e \in {HostOf(o), PeerOf(o)}
        BY <1>1, <4>1, EndsFacts
      <4>4. QED
        BY <1>3, <4>2, <4>3, EndsFacts DEF Stage, OwnPair
    <3>2. CASE ~ok[r]
      BY <1>1, <1>3, <3>2, EndsFacts DEF Stage, OwnPair
    <3>3. QED
      BY <3>1, <3>2
  <2>2. QED
    BY <1>1, <1>3, <2>1 DEF Stage, OwnPair, PeerStands, Took, Configured
<1>4. Alone'
  BY <1>1 DEF Staged, Alone
<1>5. GivenThere'
  <2>1. ASSUME NEW e \in given' PROVE link'[e] # NoLink /\ OtherEnd(e) \in given'
    <3>1. CASE e \in given
      BY <1>1, <3>1 DEF Staged, GivenThere
    <3>2. CASE e \notin given
      <4>1. ok[r] /\ e \in Ends /\ (e \in Made(call[r]) \/ OtherEnd(e) \in Made(call[r]))
        BY <1>1, <2>1, <3>2
      <4>2. OtherEnd(e) \in given' /\ link[e] # NoLink
        BY <1>1, <4>1, EndsFacts DEF Made, HostEnd, PeerEnd
      <4>3. QED
        BY <1>1, <4>2
    <3>3. QED
      BY <3>1, <3>2
  <2>2. QED
    BY <2>1 DEF GivenThere
<1>6. Distinct'
  BY <1>1, <1>2 DEF Staged, Distinct
<1>7. Owners'
  BY <1>2, <1>3 DEF Staged, Owners
<1>8. QED
  BY <1>2, <1>3, <1>4, <1>5, <1>6, <1>7 DEF Staged

LEMMA AcceptsStaged ==
  ASSUME Base, Staged, NEW r \in Requests, NEW c \in Calls, Accept(r, c)
  PROVE  /\ Staged' /\ ~Owns(r)' /\ ~Owns(r)
         /\ \A q \in Requests \ {r} : Owns(q)' <=> Owns(q)
         /\ \A q \in Requests \ {r} : \A p \in Pairs : Stage(q, p)' <=> Stage(q, p)
<1>1. /\ call[r] = NoCall
      /\ setting' = setting /\ link' = link /\ given' = given /\ hostLink' = hostLink
      /\ peerLink' = peerLink
      /\ call'[r] = c /\ todo'[r] = Mine /\ ok'[r] = TRUE
      /\ \A q \in Requests \ {r} : call'[q] = call[q] /\ todo'[q] = todo[q] /\ ok'[q] = ok[q]
  BY AcceptsType
<1>2. Ahead(Mine, Adds)
  <2>1. Makings(Mine)
    BY MineFacts DEF Base, Shape
  <2>2. QED
    BY <2>1 DEF Makings, Ahead
<1>3. ~Owns(r)' /\ ~Owns(r) /\ \A q \in Requests \ {r} : Owns(q)' <=> Owns(q)
  BY <1>1, <1>2 DEF Owns
<1>4. \A q \in Requests \ {r} : \A p \in Pairs : Stage(q, p)' <=> Stage(q, p)
  BY <1>1 DEF Stage, OwnPair, PeerStands, Took, Configured
<1>5. Alone'
  BY <1>1 DEF Accept, Staged, Alone
<1>6. GivenThere'
  BY <1>1 DEF Staged, GivenThere
<1>7. Distinct'
  BY <1>1, <1>3 DEF Staged, Distinct
<1>8. Owners'
  BY <1>3, <1>4 DEF Staged, Owners
<1>9. QED
  BY <1>3, <1>4, <1>5, <1>6, <1>7, <1>8 DEF Staged

LEMMA TakesDownStaged ==
  ASSUME Base, Staged, NEW e \in Ends, TakenDown(e)
  PROVE  Staged' /\ \A r \in Requests : ~Owns(r) /\ ~Owns(r)'
<1>1. /\ \A r \in Requests : call[r] = NoCall
      /\ setting' = setting /\ call' = call
      /\ \A f \in Ends : IF f = e \/ OtherEnd(f) = e
                         THEN link'[f] = NoLink /\ f \notin given'
                         ELSE link'[f] = link[f] /\ (f \in given' <=> f \in given)
      /\ given' \in SUBSET Ends
  BY TakesDownType DEF requestVars, Base, Typed
<1>2. \A r \in Requests : ~Owns(r) /\ ~Owns(r)'
  BY <1>1 DEF Owns
<1>3. GivenThere'
  BY <1>1, EndsFacts DEF Staged, GivenThere
<1>4. QED
  BY <1>1, <1>2, <1>3 DEF Staged, Alone, Distinct, Owners

LEMMA SeesStaged ==
  ASSUME Staged, Sees \/ Calm
  PROVE  /\ Staged' /\ \A r \in Requests : Owns(r)' <=> Owns(r)
         /\ \A r \in Requests : \A p \in Pairs : Stage(r, p)' <=> Stage(r, p)
<1>1. /\ setting' = setting /\ link' = link /\ given' = given
      /\ call' = call /\ todo' = todo /\ ok' = ok /\ hostLink' = hostLink /\ peerLink' = peerLink
  BY DEF Sees, Calm, kernelVars, requestVars
<1>2. \A r \in Requests : Owns(r)' <=> Owns(r)
  BY <1>1 DEF Owns
<1>3. \A r \in Requests : \A p \in Pairs : Stage(r, p)' <=> Stage(r, p)
  BY <1>1 DEF Stage, OwnPair, PeerStands, Took, Configured
<1>4. QED
  BY <1>1, <1>2, <1>3 DEF Staged, Alone, GivenThere, Distinct, Owners

-----------------------------------------------------------------------------
(* No pair is left behind *)

\* Where a request that fails deletes its pair, and can, or none fails.
Tidies(w) ==
  /\ w.server \in CleansUp \cup {"Joseng8908", "khsAlt"}
  /\ w.server = "khsAlt" => w.mayFail = {}
  /\ "delete" \notin w.mayFail
  /\ w.server = "yeomin4242" => "find" \notin w.mayFail

NoStray ==
  \A p \in Pairs :
    link[HostOf(p)] # NoLink =>
      HostOf(p) \in given \/ \E r \in Requests : Owns(r) /\ Stage(r, p)

\* An owner that gives up deletes its pair next.
LEMMA GivesUpTidies ==
  ASSUME Base, Held(setting), Tidies(setting), NEW r \in Requests, Makes(r), Owns(r), ok[r],
         MoveFree(r), NEW p \in Pairs, Stage(r, p), GivesUp(r)
  PROVE  Owns(r)'
<1>1. /\ todo[r] \in Rests(Mine) /\ Shape(Mine) /\ Mine \in Seq(ScriptCall) /\ todo[r] # << >>
      /\ Op(r) = Head(todo[r]).op /\ Op(r) \notin Adds \cup Absents
      /\ ~Ahead(todo[r], Adds) /\ call[r] # NoCall /\ call' = call
  BY OwnerFacts, MakesCall, MakesFrame DEF Owns
<1>2. KeepsLinks(r) /\ ~GoesOn(r)
  BY GoesOrGives
<1>3. CASE setting.server \in {"Joseng8908", "khsAlt"}
  <2>1. \A f \in Failures : ~CanFail(f)
    BY <1>3 DEF Held, Tidies, CanFail
  <2>2. Op(r) \in Alters => Possible(r)
    <3>1. CASE setting.server = "Joseng8908"
      BY <3>1, OwnGoes DEF AltersEnd
    <3>2. CASE setting.server = "khsAlt"
      <4>1. InPlace(Mine)
        BY <3>2, ScriptFacts DEF Mine
      <4>2. Op(r) \notin {"move", "rename"}
        BY <1>1, <4>1, RestsNext DEF InPlace
      <4>3. QED
        BY <4>2 DEF Possible, Alters
    <3>3. QED
      BY <1>3, <3>1, <3>2
  <2>3. QED
    BY <2>1, <2>2, OwnGoesOn
<1>4. CASE setting.server \in CleansUp
  <2>1. Head(todo[r]).cleanup = <<"delHost">>
    <3>1. PICK i \in DOMAIN Mine : Head(todo[r]) = Mine[i] /\ todo[r] = SubSeq(Mine, i, Len(Mine))
      BY <1>1, RestsNext
    <3>2. PICK k \in DOMAIN Mine : Mine[k].op \in Adds
      BY <1>1 DEF Shape, Makings
    <3>3. k < i
      <4>0. Mine \in Seq(ScriptCall)
        BY <1>1
      <4>1. k >= i \/ k < i
        BY <4>0
      <4>2. ~(k >= i)
        BY <1>1, <3>1, <3>2, <4>1, AheadRest
      <4>3. QED
        BY <4>1, <4>2
    <3>4. CASE setting.server \in {"WAFriend3416", "gpffh20"}
      <4>1. Cleans(Mine, Adds)
        BY <3>4, ScriptFacts DEF Mine
      <4>2. QED
        BY <1>1, <3>1, <3>2, <3>3, <4>1 DEF Cleans
    <3>5. CASE setting.server = "yeomin4242"
      <4>1. Cleans(Mine, Adds \cup {"findHost", "findTmp"})
        BY <3>5, ScriptFacts DEF Mine
      <4>2. ~CanFail("find")
        BY <3>5 DEF Tidies, CanFail
      <4>3. Op(r) # "findHost"
        BY <1>2, <4>2, LocalMoves, OwnFinds DEF FindsHost
      <4>4. Op(r) # "findTmp"
        BY <1>2, <4>2, LocalMoves, OwnFinds DEF FindsPeer, PeerFinds
      <4>5. QED
        BY <1>1, <3>1, <3>2, <3>3, <4>1, <4>3, <4>4 DEF Cleans
    <3>6. QED
      BY <1>4, <3>4, <3>5 DEF CleansUp
  <2>2. todo'[r] = Quietly(<<"delHost">>)
    BY <2>1, MakesPlanned
  <2>3. QED
    BY <1>1, <2>2, QuietDelHost DEF Owns, Adds
<1>5. QED
  BY <1>3, <1>4 DEF Tidies

\* A pair that is made has an owner.
LEMMA AddsOwner ==
  ASSUME Base, GivenThere, NEW r \in Requests, Makes(r), NEW p \in Pairs,
         link[HostOf(p)] = NoLink, link'[HostOf(p)] # NoLink
  PROVE  Owns(r)' /\ Stage(r, p)'
<1>1. HostOf(p) \in Ends
  BY EndsFacts
<1>2. ~KeepsLinks(r) /\ ~DeletesLinks(r)
  BY <1>1, DeletesType, FoundByEnds DEF KeepsLinks, DeletesLinks
<1>3. ~AltersEnd(r)
  <2>1. SUFFICES ASSUME AltersEnd(r) PROVE FALSE
    OBVIOUS
  <2>2. PICK e \in Ends, l \in Links : link[e] \in Links /\ link' = [link EXCEPT ![e] = l]
    BY <2>1, AltersType
  <2>3. e # HostOf(p)
    BY <2>2, LinksFacts
  <2>4. QED
    BY <1>1, <2>2, <2>3 DEF Base, Typed
<1>4. PICK o \in Pairs : \E where, name : AddsPair(r, o, where, name)
  BY <1>2, <1>3, LinkMoves
<1>5. PICK where, name : AddsPair(r, o, where, name)
  BY <1>4
<1>6. /\ Op(r) \in Adds /\ GoesOn(r) /\ o = p
  <2>1. \A e \in Ends : e # HostOf(o) /\ e # PeerOf(o) => link'[e] = link[e]
    BY <1>5, AddsType
  <2>2. o = p
    BY <1>1, <2>1, EndsFacts
  <2>3. QED
    BY <1>5, <2>2 DEF AddsPair, AddsAt, Adds
<1>7. ok[r]
  BY <1>6, MakesRest DEF Adds
<1>8. /\ todo[r] \in Rests(Mine) /\ Shape(Mine) /\ todo[r] # << >> /\ Mine \in Seq(ScriptCall)
      /\ Op(r) = Head(todo[r]).op /\ call[r] # NoCall /\ call' = call
  BY <1>7, MakesRest, MakesCall, MakesFrame, MineFacts, LinksFacts DEF Base
<1>9. Ahead(todo[r], Adds) /\ ~Ahead(Tail(todo[r]), Adds)
  BY <1>6, <1>8, NextFacts, AheadNext
<1>10. todo'[r] = Tail(todo[r]) /\ ok'[r]
  BY <1>6, <1>7, MakesPlanned
<1>11. Owns(r)' /\ ~Owns(r)
  BY <1>8, <1>9, <1>10 DEF Owns
<1>12. PICK x \in Pairs : /\ Stage(r, x)'
                          /\ \A e \in Ends : e # HostOf(x) /\ e # PeerOf(x) => link'[e] = link[e]
  BY <1>11, NewOwner
<1>13. x = p
  BY <1>1, <1>12, EndsFacts
<1>14. QED
  BY <1>11, <1>12, <1>13

LEMMA MakesNoStray ==
  ASSUME Base, Held(setting), Tidies(setting), Staged, NoStray, NEW r \in Requests, Makes(r),
         MoveFree(r)
  PROVE  NoStray'
<1> SUFFICES ASSUME NEW p \in Pairs, link'[HostOf(p)] # NoLink
             PROVE  HostOf(p) \in given' \/ \E q \in Requests : Owns(q)' /\ Stage(q, p)'
  BY DEF NoStray
<1>1. HostOf(p) \in Ends
  BY EndsFacts
<1>2. CASE link[HostOf(p)] = NoLink
  BY <1>2, AddsOwner DEF Staged
<1>3. CASE HostOf(p) \in given
  BY <1>1, <1>3, GivenKept
<1>4. ASSUME NEW q \in Requests, Owns(q), Stage(q, p), q # r
      PROVE  \E s \in Requests : Owns(s)' /\ Stage(s, p)'
  BY <1>4, OtherStep
<1>5. ASSUME Owns(r), Stage(r, p)
      PROVE  \E s \in Requests : Owns(s)' /\ Stage(s, p)'
  <2>1. Owns(r)'
    <3>1. CASE ok[r] /\ GivesUp(r)
      BY <1>5, <3>1, GivesUpTidies
    <3>2. CASE ok[r] /\ GoesOn(r)
      <4>1. todo'[r] = Tail(todo[r]) /\ ok'[r] /\ ~Ahead(Tail(todo[r]), Adds) /\ call' = call
        BY <1>5, <3>2, MakesPlanned, MakesFrame, OwnerFacts DEF Owns
      <4>2. QED
        BY <1>5, <4>1 DEF Owns
    <3>3. CASE ~ok[r]
      <4>1. Op(r) = "delHost" /\ FoundBy(r) = {HostOf(p)}
        BY <1>5, <3>3, MakesRest, OwnFinds
      <4>2. ~KeepsLinks(r)
        BY <4>1 DEF KeepsLinks, Deletes, Tidies, CanFail
      <4>3. DeletesLinks(r)
        BY <4>1, <4>2, LinkMoves DEF AddsPair, AddsAt, AltersEnd, Alters
      <4>4. link'[HostOf(p)] = NoLink
        BY <1>1, <4>1, <4>3, DeletesType, FoundByEnds DEF DeletesLinks
      <4>5. QED
        BY <4>4
    <3>4. QED
      BY <3>1, <3>2, <3>3, MakesRest
  <2>2. QED
    BY <1>5, <2>1, OwnStep
<1>6. QED
  BY <1>2, <1>3, <1>4, <1>5 DEF NoStray

LEMMA AnswersNoStray ==
  ASSUME Base, Staged, NoStray, NEW r \in Requests, Answer(r)
  PROVE  NoStray'
<1>1. /\ link' = link /\ given \subseteq given'
      /\ ok[r] => \A e \in Made(call[r]) : e \in given'
  BY AnswersType
<1>2. ASSUME NEW p \in Pairs, Owns(r), Stage(r, p) PROVE HostOf(p) \in given'
  <2>1. ok[r]
    BY <1>2, AnswersType DEF Owns
  <2>2. PICK o \in Pairs : Stage(r, o) /\ HostOf(o) \in Made(call[r])
    BY <2>1, AnswersOwn DEF OwnMade
  <2>3. HostOf(o) = HostOf(p)
    BY <1>2, <2>2, EndsFacts DEF Stage, OwnPair, Base, Unique
  <2>4. QED
    BY <1>1, <2>1, <2>2, <2>3
<1>3. \A q \in Requests \ {r} : \A p \in Pairs : Owns(q) /\ Stage(q, p) => Owns(q)' /\ Stage(q, p)'
  BY AnswersStaged
<1>4. QED
  BY <1>1, <1>2, <1>3 DEF NoStray

LEMMA OthersNoStray ==
  ASSUME Base, Staged, NoStray,
         \/ \E r \in Requests, c \in Calls : Accept(r, c)
         \/ \E e \in Ends : TakenDown(e)
         \/ Sees \/ Calm
  PROVE  NoStray'
<1>1. ASSUME NEW r \in Requests, NEW c \in Calls, Accept(r, c) PROVE NoStray'
  <2>1. link' = link /\ given' = given
    BY <1>1, AcceptsType
  <2>2. \A q \in Requests : \A p \in Pairs : Owns(q) /\ Stage(q, p) => Owns(q)' /\ Stage(q, p)'
    BY <1>1, AcceptsStaged
  <2>3. QED
    BY <2>1, <2>2 DEF NoStray
<1>2. ASSUME NEW e \in Ends, TakenDown(e) PROVE NoStray'
  <2>1. \A r \in Requests : ~Owns(r)
    BY <1>2, TakesDownStaged
  <2>2. \A p \in Pairs : link[HostOf(p)] # NoLink => HostOf(p) \in given
    BY <2>1 DEF NoStray
  <2>3. \A p \in Pairs : link'[HostOf(p)] # NoLink => HostOf(p) \in given'
    BY <1>2, <2>2, TakesDownType, EndsFacts
  <2>4. QED
    BY <2>3 DEF NoStray
<1>3. CASE Sees \/ Calm
  <2>1. link' = link /\ given' = given
    BY <1>3 DEF Sees, Calm, kernelVars
  <2>2. \A q \in Requests : \A p \in Pairs : Owns(q) /\ Stage(q, p) => Owns(q)' /\ Stage(q, p)'
    BY <1>3, SeesStaged
  <2>3. QED
    BY <2>1, <2>2 DEF NoStray
<1>4. QED
  BY <1>1, <1>2, <1>3

\* The name stays free where the peer is to go.
LEMMA MakesMoveFree ==
  ASSUME Base, Held(setting), Staged, NEW r \in Requests, Makes(r), MoveFree(r), NEW q \in Requests
  PROVE  MoveFree(q)'
<1> SUFFICES ASSUME setting.server = "Joseng8908", call'[q] # NoCall, ok'[q], Ahead(todo'[q], {"move"})
             PROVE  Found(call[q].ns, call[q].peer)' = {}
  BY MakesFrame DEF MoveFree
<1>1. call' = call /\ call[r] # NoCall /\ call[r] \in Calls
  BY MakesFrame, MakesCall, LinksFacts
<1>2. q = r
  BY <1>1 DEF Held, Staged, Alone
<1>3. ok[r] /\ GoesOn(r) /\ todo'[r] = Tail(todo[r])
  <2>1. ~GivesUp(r)
    BY <1>2, MakesPlanned
  <2>2. QED
    BY <1>2, <2>1, MakesRest, MakesPlanned
<1>4. /\ todo[r] \in Rests(Mine) /\ Shape(Mine) /\ todo[r] # << >> /\ Op(r) = Head(todo[r]).op
      /\ Mine \in Seq(ScriptCall)
  BY <1>3, MakesRest, MakesCall, MineFacts DEF Base
<1>5. Ahead(Tail(todo[r]), {"move"}) /\ Ahead(todo[r], {"move"})
  BY <1>2, <1>3, <1>4, AheadNext
<1>6. Found(call[r].ns, call[r].peer) = {}
  BY <1>1, <1>3, <1>5 DEF MoveFree
<1>7. Op(r) \notin {"move", "rename", "addInNs"}
  BY <1>4, <1>5, NextFacts
<1>8. ASSUME NEW f \in Ends, link'[f] # NoLink, link'[f].ns = call[r].ns, link'[f].name = call[r].peer
      PROVE  FALSE
  <2>1. link[f] = NoLink \/ link[f].ns # call[r].ns \/ link[f].name # call[r].peer
    BY <1>6 DEF Found
  <2>2. ~KeepsLinks(r)
    BY <1>8, <2>1 DEF KeepsLinks
  <2>3. ~DeletesLinks(r)
    BY <1>8, <2>1, DeletesType, FoundByEnds DEF DeletesLinks
  <2>4. ASSUME NEW p \in Pairs, NEW where, NEW name, AddsPair(r, p, where, name) PROVE FALSE
    <3>1. /\ link'[HostOf(p)] = Fresh(Host, call[r].host)
          /\ link'[PeerOf(p)] = Fresh(where, name)
          /\ \A e \in Ends : e # HostOf(p) /\ e # PeerOf(p) => link'[e] = link[e]
      BY <2>4, AddsType
    <3>2. where = Host
      BY <1>7, <2>4 DEF AddsPair, AddsAt
    <3>3. call[r].ns # Host
      BY <1>1, LinksFacts, NamespacesAssumption
    <3>4. QED
      BY <1>8, <2>1, <3>1, <3>2, <3>3 DEF Fresh
  <2>5. CASE AltersEnd(r)
    <3>1. PICK e \in Ends, l \in Links : /\ link[e] \in Links /\ link' = [link EXCEPT ![e] = l]
                                         /\ l.ns = link[e].ns /\ l.name = link[e].name
      BY <1>7, <2>5, AltersType
    <3>2. QED
      BY <1>8, <2>1, <3>1, LinksFacts DEF Base, Typed
  <2>6. QED
    BY <2>2, <2>3, <2>4, <2>5, LinkMoves
<1>9. QED
  BY <1>1, <1>2, <1>8 DEF Found

LEMMA AcceptsMoveFree ==
  ASSUME Base, Held(setting), Staged, NoStray, NEW r \in Requests, NEW c \in Calls, Accept(r, c),
         \A q \in Requests : MoveFree(q), NEW q \in Requests
  PROVE  MoveFree(q)'
<1>1. /\ call[r] = NoCall /\ call'[r] = c /\ setting' = setting /\ link' = link
      /\ \A s \in Requests \ {r} : call'[s] = call[s] /\ todo'[s] = todo[s] /\ ok'[s] = ok[s]
  BY AcceptsType
<1>2. CASE q # r
  BY <1>1, <1>2 DEF MoveFree, Found
<1>3. CASE q = r
  <2>1. SUFFICES ASSUME setting.server = "Joseng8908" PROVE Found(c.ns, c.peer) = {}
    BY <1>1, <1>3 DEF MoveFree, Found
  <2>2. NamesFree(c) /\ \A s \in Requests : call[s] = NoCall
    BY <2>1 DEF Accept, Held
  <2>3. \A p \in Pairs : link[HostOf(p)] # NoLink => HostOf(p) \in given
    BY <2>2 DEF NoStray, Owns
  <2>4. ASSUME NEW e \in Found(c.ns, c.peer) PROVE FALSE
    <3>1. e \in Ends /\ link[e] # NoLink
      BY DEF Found
    <3>2. PICK p \in Pairs : e = HostOf(p) \/ e = PeerOf(p)
      BY <3>1, EndsFacts
    <3>3. link[HostOf(p)] # NoLink
      BY <3>1, <3>2, EndsFacts DEF Base, Paired
    <3>4. HostOf(p) \in given /\ PeerOf(p) \in given
      BY <2>3, <3>3, EndsFacts DEF Staged, GivenThere
    <3>5. QED
      BY <2>2, <3>2, <3>4 DEF NamesFree
  <2>5. QED
    BY <2>4
<1>4. QED
  BY <1>2, <1>3

LEMMA OthersMoveFree ==
  ASSUME Base, \A q \in Requests : MoveFree(q),
         \/ \E r \in Requests : Answer(r)
         \/ \E e \in Ends : TakenDown(e)
         \/ Sees \/ Calm,
         NEW q \in Requests
  PROVE  MoveFree(q)'
<1>1. ASSUME NEW r \in Requests, Answer(r) PROVE MoveFree(q)'
  <2>1. /\ setting' = setting /\ link' = link /\ call' = [call EXCEPT ![r] = NoCall]
        /\ todo' = todo /\ ok' = ok
    BY <1>1 DEF Answer, kernelVars
  <2>2. CASE q = r
    <3>1. call'[q] = NoCall
      BY <2>1, <2>2 DEF Base, Typed
    <3>2. QED
      BY <3>1 DEF MoveFree
  <2>3. CASE q # r
    <3>1. call'[q] = call[q] /\ todo'[q] = todo[q] /\ ok'[q] = ok[q]
      BY <2>1, <2>3 DEF Base, Typed
    <3>2. QED
      BY <2>1, <3>1 DEF MoveFree, Found
  <2>4. QED
    BY <2>2, <2>3
<1>2. ASSUME NEW e \in Ends, TakenDown(e) PROVE MoveFree(q)'
  <2>1. call'[q] = NoCall
    BY <1>2, TakesDownType DEF requestVars
  <2>2. QED
    BY <2>1 DEF MoveFree
<1>3. CASE Sees \/ Calm
  BY <1>3 DEF Sees, Calm, kernelVars, requestVars, MoveFree, Found
<1>4. QED
  BY <1>1, <1>2, <1>3

-----------------------------------------------------------------------------
(* The invariant of all pairs *)

StagedInv == Held(setting) =>
  /\ Staged /\ \A r \in Requests : MoveFree(r)
  /\ Tidies(setting) => NoStray

LEMMA StagedInductive ==
  ASSUME Base, StagedInv, [CheckNext]_checkedVars
  PROVE  StagedInv' /\ setting' = setting
<1>1. setting' = setting
  BY StepCases, MakesFrame, AnswersType, AcceptsType, TakesDownType DEF Calm, Sees
<1> SUFFICES ASSUME Held(setting)
             PROVE  /\ Staged' /\ \A r \in Requests : MoveFree(r)'
                    /\ Tidies(setting) => NoStray'
  BY <1>1 DEF StagedInv
<1>2. Staged /\ (\A r \in Requests : MoveFree(r)) /\ (Tidies(setting) => NoStray)
  BY DEF StagedInv
<1>3. ASSUME NEW r \in Requests, Makes(r)
      PROVE  /\ Staged' /\ \A q \in Requests : MoveFree(q)'
             /\ Tidies(setting) => NoStray'
  BY <1>2, <1>3, MakesStaged, MakesMoveFree, MakesNoStray
<1>4. ASSUME NEW r \in Requests, Answer(r)
      PROVE  /\ Staged' /\ \A q \in Requests : MoveFree(q)'
             /\ Tidies(setting) => NoStray'
  BY <1>2, <1>4, AnswersStaged, OthersMoveFree, AnswersNoStray
<1>5. ASSUME NEW r \in Requests, NEW c \in Calls, Accept(r, c)
      PROVE  /\ Staged' /\ \A q \in Requests : MoveFree(q)'
             /\ Tidies(setting) => NoStray'
  <2>1. Staged' /\ (Tidies(setting) => NoStray')
    BY <1>2, <1>5, AcceptsStaged, OthersNoStray
  <2>2. CASE setting.server = "Joseng8908"
    <3>1. Tidies(setting)
      BY <2>2 DEF Held, Tidies
    <3>2. QED
      BY <1>2, <1>5, <2>1, <3>1, AcceptsMoveFree
  <2>3. CASE setting.server # "Joseng8908"
    BY <1>1, <2>1, <2>3 DEF MoveFree
  <2>4. QED
    BY <2>2, <2>3
<1>6. ASSUME NEW e \in Ends, TakenDown(e)
      PROVE  /\ Staged' /\ \A q \in Requests : MoveFree(q)'
             /\ Tidies(setting) => NoStray'
  BY <1>2, <1>6, TakesDownStaged, OthersMoveFree, OthersNoStray
<1>7. CASE Sees \/ Calm
  BY <1>2, <1>7, SeesStaged, OthersMoveFree, OthersNoStray
<1>8. QED
  BY <1>3, <1>4, <1>5, <1>6, <1>7, StepCases

LEMMA StagedInit ==
  ASSUME CheckInit
  PROVE  StagedInv
<1>1. /\ \A r \in Requests : call[r] = NoCall
      /\ given = {} /\ \A e \in Ends : link[e] = NoLink
  BY DEF CheckInit, Init
<1>2. \A r \in Requests : ~Owns(r)
  BY <1>1 DEF Owns
<1>3. Staged
  BY <1>1, <1>2 DEF Staged, Alone, GivenThere, Distinct, Owners
<1>4. NoStray
  BY <1>1, EndsFacts DEF NoStray
<1>5. \A r \in Requests : MoveFree(r)
  BY <1>1 DEF MoveFree
<1>6. QED
  BY <1>3, <1>4, <1>5 DEF StagedInv

\* Where requests leave each other's pairs alone, every request that has made a pair
\* has it at the stage that the calls still ahead tell, whatever other requests do;
\* where failures are tidied up, no other pair stands but those promised.
THEOREM StagedHolds == CheckSpec => []StagedInv
BY BaseHolds, StagedInit, StagedInductive, PTL DEF CheckSpec

-----------------------------------------------------------------------------
(* What an answer promises, and that it stays *)

\* The failure of lo's flag ends a request, or does not happen.
LoHeld(w) == w.server \in {"statsops", "lnaura", "Joseng8908"} => "lo" \notin w.mayFail

LoDone(r) == Owns(r) /\ ok[r] /\ ~Ahead(todo[r], {"loUp"}) => call[r].ns \in loUp

LEMMA MakesLoDone ==
  ASSUME Base, LoHeld(setting), NEW r \in Requests, Makes(r), LoDone(r)
  PROVE  LoDone(r)'
<1> SUFFICES ASSUME Owns(r)', ok'[r], ~Ahead(todo'[r], {"loUp"})
             PROVE  call'[r].ns \in loUp'
  BY DEF LoDone
<1>1. call' = call /\ todo[r] # << >> /\ Op(r) = Head(todo[r]).op /\ call[r] # NoCall
  BY MakesFrame, MakesCall, LinksFacts
<1>2. GoesOn(r) /\ ~GivesUp(r) /\ ok[r] /\ todo'[r] = Tail(todo[r])
  BY MakesRest, MakesPlanned
<1>3. /\ todo[r] \in Rests(Mine) /\ Shape(Mine) /\ Mine \in Seq(ScriptCall)
  BY <1>2, MakesRest, MineFacts DEF Base
<1>4. Op(r) \notin Adds
  <2>1. Op(r) \in Adds => Ahead(Tail(todo[r]), {"loUp"})
    BY <1>1, <1>3, NextFacts DEF Configures
  <2>2. QED
    BY <1>2, <2>1
<1>5. \A A : Ahead(todo[r], A) <=> Op(r) \in A \/ Ahead(Tail(todo[r]), A)
  BY <1>1, <1>3, AheadNext
<1>6. Owns(r)
  <2>1. ~Ahead(Tail(todo[r]), Adds)
    BY <1>2 DEF Owns
  <2>2. QED
    BY <1>1, <1>2, <1>4, <1>5, <2>1 DEF Owns
<1>7. CASE Op(r) = "loUp"
  <2>1. ~(CanFail("lo") /\ ~Head(todo[r]).must)
    BY <1>2, <1>7, MustFacts DEF LoHeld, CanFail
  <2>2. loUp' = loUp \cup {call[r].ns}
    BY <1>2, <1>7, <2>1, LocalMoves DEF LoGoes
  <2>3. QED
    BY <1>1, <2>2
<1>8. CASE Op(r) # "loUp"
  <2>1. ~Ahead(todo[r], {"loUp"})
    BY <1>2, <1>5, <1>8
  <2>2. call[r].ns \in loUp
    BY <1>2, <1>6, <2>1 DEF LoDone
  <2>3. loUp' = loUp
    BY <1>8, LocalMoves
  <2>4. QED
    BY <1>1, <2>2, <2>3
<1>9. QED
  BY <1>7, <1>8

LEMMA LoDoneInductive ==
  ASSUME Base, LoHeld(setting), \A q \in Requests : LoDone(q), [CheckNext]_checkedVars
  PROVE  \A q \in Requests : LoDone(q)'
<1> TAKE q \in Requests
<1>1. ASSUME NEW r \in Requests, Makes(r) PROVE LoDone(q)'
  <2>1. CASE q = r
    BY <1>1, <2>1, MakesLoDone
  <2>2. CASE q # r
    <3>1. call' = call /\ todo'[q] = todo[q] /\ ok'[q] = ok[q]
      BY <1>1, <2>2, MakesFrame, MakesPlanned
    <3>2. loUp \subseteq loUp'
      BY <1>1, LocalMoves
    <3>3. QED
      BY <3>1, <3>2 DEF LoDone, Owns
  <2>3. QED
    BY <2>1, <2>2
<1>2. ASSUME NEW r \in Requests, Answer(r) PROVE LoDone(q)'
  <2>1. loUp' = loUp /\ todo' = todo /\ ok' = ok /\ (call'[q] = NoCall \/ call'[q] = call[q])
    BY <1>2, AnswersType
  <2>2. QED
    BY <2>1 DEF LoDone, Owns
<1>3. ASSUME NEW r \in Requests, NEW c \in Calls, Accept(r, c) PROVE LoDone(q)'
  <2>1. CASE q = r
    <3>1. todo'[q] = Mine /\ \E i \in DOMAIN Mine : Mine[i].op \in Adds
      BY <1>3, <2>1, AcceptsType, MineFacts DEF Base, Shape, Makings
    <3>2. Ahead(Mine, Adds)
      BY <3>1 DEF Ahead
    <3>3. QED
      BY <3>1, <3>2 DEF LoDone, Owns
  <2>2. CASE q # r
    <3>1. loUp' = loUp /\ call'[q] = call[q] /\ todo'[q] = todo[q] /\ ok'[q] = ok[q]
      BY <1>3, <2>2, AcceptsType
    <3>2. QED
      BY <3>1 DEF LoDone, Owns
  <2>3. QED
    BY <2>1, <2>2
<1>4. ASSUME NEW e \in Ends, TakenDown(e) PROVE LoDone(q)'
  <2>1. call' = call /\ call[q] = NoCall
    BY <1>4, TakesDownType DEF requestVars
  <2>2. QED
    BY <2>1 DEF LoDone, Owns
<1>5. CASE Sees \/ Calm
  BY <1>5 DEF Sees, Calm, kernelVars, requestVars, LoDone, Owns
<1>6. QED
  BY <1>1, <1>2, <1>3, <1>4, <1>5, StepCases

LEMMA TruthfulAnswer ==
  ASSUME Base, Staged, NEW r \in Requests, LoDone(r), Answering(r), ok[r]
  PROVE  Made(call[r]) # {} /\ call[r].ns \in loUp
<1>1. todo[r] = << >> /\ call[r] \in Calls /\ call[r] # NoCall
  BY DEF Answering, Base, Typed
<1>2. Owns(r)
  BY <1>1, EmptyAhead DEF Owns
<1>3. PICK p \in Pairs : Stage(r, p)
  BY <1>2 DEF Staged, Owners
<1>4. OwnMade(r, p)
  BY <1>1, <1>3, StageMade
<1>5. Made(call[r]) # {}
  BY <1>4 DEF OwnMade
<1>6. ~Ahead(todo[r], {"loUp"})
  BY <1>1, EmptyAhead
<1>7. QED
  BY <1>2, <1>5, <1>6 DEF LoDone

\* A request answered with success has its pair, between the right namespaces and
\* under the right names, with addresses, up, and lo up, for any number of
\* requests, names, namespaces and pairs and with any netlink request failing
\* where the server looks at the error.  Requests of a server that replaces pairs
\* come one at a time; Joseng8908's does not look at the errors of the move and of
\* what it does to the host's end, so there clients use free names and nothing fails.
THEOREM AnsweredIsMade ==
  (\A w \in Settings : Held(w) /\ LoHeld(w)) => (CheckSpec => []VethTruthful)
<1> SUFFICES ASSUME \A w \in Settings : Held(w) /\ LoHeld(w)
             PROVE  CheckSpec => []VethTruthful
  OBVIOUS
<1> DEFINE Done == \A r \in Requests : LoDone(r)
<1>1. CheckInit => Done
  BY DEF CheckInit, Init, LoDone, Owns
<1>2. Base /\ Done /\ [CheckNext]_checkedVars => Done'
  BY LoDoneInductive DEF Base, Typed
<1>3. Base /\ StagedInv /\ Done => VethTruthful
  BY TruthfulAnswer DEF Base, Typed, StagedInv, VethTruthful
<1>4. QED
  BY <1>1, <1>2, <1>3, BaseHolds, StagedHolds, PTL DEF CheckSpec

\* What an answer has promised is still there.
LEMMA GivenStays ==
  ASSUME Base, StagedInv, Held(setting), setting.server \in CleansUp,
         setting.clients # "polite", [CheckNext]_checkedVars
  PROVE  given \subseteq given'
<1>1. Staged /\ given \in SUBSET Ends
  BY DEF StagedInv, Base, Typed
<1>2. ASSUME NEW r \in Requests, Makes(r) PROVE given \subseteq given'
  BY <1>1, <1>2, GivenKept
<1>3. ASSUME NEW e \in Ends, TakenDown(e) PROVE FALSE
  BY <1>3 DEF TakenDown
<1>4. CASE Sees \/ Calm
  BY <1>4 DEF Sees, Calm
<1>5. QED
  BY <1>2, <1>3, <1>4, StepCases, AnswersType, AcceptsType

\* In the servers that clean up after themselves a pair once promised stays,
\* whatever fails and however many requests run at once, as long as nobody deletes
\* interfaces from outside.
THEOREM AnsweredIsKept ==
  (\A w \in Settings : w.server \in CleansUp => w.clients # "polite") =>
    (CheckSpec => AnsweredStays)
<1> SUFFICES ASSUME \A w \in Settings : w.server \in CleansUp => w.clients # "polite"
             PROVE  CheckSpec => AnsweredStays
  OBVIOUS
<1>1. Base /\ StagedInv /\ [CheckNext]_checkedVars =>
        [setting.server \in CleansUp => given \subseteq given']_vars
  <2> SUFFICES ASSUME Base, StagedInv, [CheckNext]_checkedVars, setting.server \in CleansUp
               PROVE  given \subseteq given'
    OBVIOUS
  <2>1. setting \in Settings
    BY DEF Base, Typed
  <2>2. Held(setting)
    BY DEF Held, CleansUp, Replaces
  <2>3. QED
    BY <2>1, <2>2, GivenStays
<1>2. QED
  BY <1>1, BaseHolds, StagedHolds, PTL DEF CheckSpec, AnsweredStays

\* A pair that was whole when it was promised is whole as long as it is.
GivenWhole == \A e \in given : Complete(e)

LEMMA SameComplete ==
  ASSUME NEW e \in Ends, Complete(e), link'[e] = link[e], link'[OtherEnd(e)] = link[OtherEnd(e)]
  PROVE  Complete(e)'
<1>1. OtherEnd(e) \in Ends /\ OtherEnd(OtherEnd(e)) = e
  BY EndsFacts
<1>2. PICK c \in Calls : e \in Made(c) \/ OtherEnd(e) \in Made(c)
  BY DEF Complete
<1>3. (e \in Made(c))' \/ (OtherEnd(e) \in Made(c))'
  BY <1>1, <1>2 DEF Made, HostEnd, PeerEnd
<1>4. QED
  BY <1>3 DEF Complete

LEMMA GivenWholeInductive ==
  ASSUME Base, StagedInv, Held(setting), GivenWhole, [CheckNext]_checkedVars
  PROVE  GivenWhole'
<1>1. Staged /\ GivenThere /\ given \in SUBSET Ends
      /\ \A e \in Ends : OtherEnd(e) \in Ends /\ OtherEnd(OtherEnd(e)) = e
  BY EndsFacts DEF StagedInv, Staged, Base, Typed
<1>2. ASSUME NEW r \in Requests, Makes(r) PROVE GivenWhole'
  <2>1. given' \subseteq given
    BY <1>2, MakesGiven
  <2>2. ASSUME NEW e \in given' PROVE Complete(e)'
    <3>1. e \in given /\ e \in Ends /\ OtherEnd(e) \in given /\ OtherEnd(e) \in Ends
      BY <1>1, <2>1 DEF GivenThere
    <3>2. link'[e] = link[e] /\ OtherEnd(e) \in given'
      BY <1>1, <1>2, <3>1, GivenKept
    <3>3. link'[OtherEnd(e)] = link[OtherEnd(e)]
      BY <1>1, <1>2, <3>1, <3>2, GivenKept
    <3>4. QED
      BY <3>1, <3>2, <3>3, SameComplete DEF GivenWhole
  <2>3. QED
    BY <2>2 DEF GivenWhole
<1>3. ASSUME NEW r \in Requests, Answer(r) PROVE GivenWhole'
  <2>1. link' = link /\ call[r] \in Calls /\ given' \in SUBSET Ends
    BY <1>3, AnswersType DEF Base, Typed
  <2>2. ASSUME NEW e \in given' PROVE Complete(e)
    <3>1. CASE e \in given
      BY <3>1 DEF GivenWhole
    <3>2. CASE e \notin given
      BY <1>3, <2>1, <3>2, AnswersType DEF Complete
    <3>3. QED
      BY <3>1, <3>2
  <2>3. QED
    BY <1>1, <2>1, <2>2, SameComplete DEF GivenWhole
<1>4. ASSUME NEW e \in Ends, TakenDown(e) PROVE GivenWhole'
  <2>1. \A f \in Ends : IF f = e \/ OtherEnd(f) = e
                        THEN link'[f] = NoLink /\ f \notin given'
                        ELSE link'[f] = link[f] /\ (f \in given' <=> f \in given)
    BY <1>4, TakesDownType
  <2>2. given' \in SUBSET Ends
    BY <1>4, TakesDownType DEF Base, Typed
  <2>3. ASSUME NEW f \in given' PROVE Complete(f)'
    <3>1. /\ f \in Ends /\ f \in given /\ link'[f] = link[f]
          /\ link'[OtherEnd(f)] = link[OtherEnd(f)]
      BY <1>1, <2>1, <2>2
    <3>2. QED
      BY <3>1, SameComplete DEF GivenWhole
  <2>4. QED
    BY <2>3 DEF GivenWhole
<1>5. ASSUME link' = link, given' = given PROVE GivenWhole'
  BY <1>1, <1>5, SameComplete DEF GivenWhole
<1>6. CASE Sees \/ Calm
  BY <1>5, <1>6 DEF Sees, Calm, kernelVars
<1>7. QED
  BY <1>2, <1>3, <1>4, <1>5, <1>6, StepCases, AcceptsType

\* A request that fails leaves nothing behind in the servers that clean up, when
\* the deletion itself works and, in yeomin4242's, the interfaces just made are
\* found: its clean-up is in force only from there on.
THEOREM NothingHalfMade ==
  (\A w \in Settings : w.server \in CleansUp => Tidies(w)) => (CheckSpec => []NoHalfPair)
<1> SUFFICES ASSUME \A w \in Settings : w.server \in CleansUp => Tidies(w)
             PROVE  CheckSpec => []NoHalfPair
  OBVIOUS
<1> DEFINE Whole == Held(setting) => GivenWhole
<1>1. CheckInit => Whole
  BY DEF CheckInit, Init, GivenWhole
<1>2. Base /\ StagedInv /\ Whole /\ [CheckNext]_checkedVars => Whole'
  BY GivenWholeInductive, StagedInductive
<1>3. Base /\ StagedInv /\ Whole => NoHalfPair
  <2> SUFFICES ASSUME Base, StagedInv, Whole, setting.server \in CleansUp,
                      \A r \in Requests : call[r] = NoCall,
                      NEW e \in Ends, link[e] # NoLink
               PROVE  e \in given /\ Complete(e)
    BY DEF NoHalfPair
  <2>1. Held(setting) /\ Tidies(setting)
    BY DEF Held, CleansUp, Replaces, Base, Typed
  <2>2. NoStray /\ GivenThere /\ GivenWhole
    BY <2>1 DEF StagedInv, Staged
  <2>3. PICK p \in Pairs : e = HostOf(p) \/ e = PeerOf(p)
    BY EndsFacts
  <2>4. link[HostOf(p)] # NoLink /\ OtherEnd(HostOf(p)) = PeerOf(p)
    BY <2>3, EndsFacts DEF Base, Paired
  <2>5. HostOf(p) \in given
    BY <2>2, <2>4 DEF NoStray, Owns
  <2>6. e \in given
    BY <2>2, <2>3, <2>4, <2>5 DEF GivenThere
  <2>7. QED
    BY <2>2, <2>6 DEF GivenWhole
<1>4. QED
  BY <1>1, <1>2, <1>3, BaseHolds, StagedHolds, PTL DEF CheckSpec

-----------------------------------------------------------------------------
(* A promised pair is what the checker reads *)

\* What becomes of a promised pair in a step: it is kept as it is, or it is gone.
LEMMA GivenStep ==
  ASSUME Base, Staged, Held(setting), [CheckNext]_checkedVars, NEW e \in given
  PROVE  \/ e \in given' /\ link'[e] = link[e] /\ link'[OtherEnd(e)] = link[OtherEnd(e)]
         \/ link'[e] = NoLink
<1>1. /\ e \in Ends /\ OtherEnd(e) \in given /\ OtherEnd(e) \in Ends /\ OtherEnd(OtherEnd(e)) = e
  BY EndsFacts DEF Staged, GivenThere, Base, Typed
<1>2. ASSUME NEW r \in Requests, Makes(r), link'[e] # NoLink
      PROVE  e \in given' /\ link'[e] = link[e] /\ link'[OtherEnd(e)] = link[OtherEnd(e)]
  <2>1. e \in given' /\ link'[e] = link[e] /\ OtherEnd(e) \in given'
    BY <1>1, <1>2, GivenKept
  <2>2. link'[OtherEnd(e)] = link[OtherEnd(e)]
    BY <1>1, <1>2, <2>1, GivenKept
  <2>3. QED
    BY <2>1, <2>2
<1>3. ASSUME NEW f \in Ends, TakenDown(f), link'[e] # NoLink
      PROVE  e \in given' /\ link'[e] = link[e] /\ link'[OtherEnd(e)] = link[OtherEnd(e)]
  BY <1>1, <1>3, TakesDownType
<1>4. CASE Sees \/ Calm
  BY <1>4 DEF Sees, Calm, kernelVars
<1>5. QED
  BY <1>2, <1>3, <1>4, StepCases, AnswersType, AcceptsType

\* The index of an interface that is gone is not given out while it is remembered.
LEMMA GoneStays ==
  ASSUME Base, [CheckNext]_checkedVars, NEW e \in Ends, e \in seen, link[e] = NoLink
  PROVE  link'[e] = NoLink
<1>1. ASSUME NEW r \in Requests, Makes(r) PROVE link'[e] = NoLink
  <2>1. CASE KeepsLinks(r)
    BY <2>1 DEF KeepsLinks
  <2>2. CASE DeletesLinks(r)
    BY <2>2, DeletesType, FoundByEnds DEF DeletesLinks
  <2>3. ASSUME NEW p \in Pairs, NEW where, NEW name, AddsPair(r, p, where, name)
        PROVE  link'[e] = NoLink
    <3>1. HostOf(p) \notin seen /\ PeerOf(p) \notin seen
      BY <2>3 DEF AddsPair, Spare, Remembered, HostOf, PeerOf
    <3>2. \A f \in Ends : f # HostOf(p) /\ f # PeerOf(p) => link'[f] = link[f]
      BY <1>1, <2>3, AddsType
    <3>3. QED
      BY <3>1, <3>2
  <2>4. CASE AltersEnd(r)
    <3>1. PICK f \in Ends, l \in Links : link[f] \in Links /\ link' = [link EXCEPT ![f] = l]
      BY <1>1, <2>4, AltersType
    <3>2. e # f
      BY <3>1, LinksFacts
    <3>3. QED
      BY <3>1, <3>2 DEF Base, Typed
  <2>5. QED
    BY <1>1, <2>1, <2>2, <2>3, <2>4, LinkMoves
<1>2. ASSUME NEW f \in Ends, TakenDown(f) PROVE link'[e] = NoLink
  BY <1>2, TakesDownType
<1>3. CASE Sees \/ Calm
  BY <1>3 DEF Sees, Calm, kernelVars
<1>4. QED
  BY <1>1, <1>2, <1>3, StepCases, AnswersType, AcceptsType

\* A namespace with the far end of a promised pair has its loopback up.
GivenLit == \A e \in given : link[e].ns # Host => link[e].ns \in loUp
Lit == Held(setting) /\ LoHeld(setting) => GivenLit /\ \A r \in Requests : LoDone(r)

LEMMA LitInductive ==
  ASSUME Base, StagedInv, Lit, [CheckNext]_checkedVars
  PROVE  Lit'
<1> SUFFICES ASSUME Held(setting), LoHeld(setting)
             PROVE  GivenLit' /\ \A r \in Requests : LoDone(r)'
  BY StagedInductive DEF Lit
<1>1. GivenLit /\ (\A r \in Requests : LoDone(r)) /\ Staged /\ given \in SUBSET Ends
  BY DEF Lit, StagedInv, Base, Typed
<1>2. \A r \in Requests : LoDone(r)'
  BY <1>1, LoDoneInductive
<1>3. loUp \subseteq loUp'
  BY StepCases, LocalMoves, AnswersType, AcceptsType, TakesDownType DEF Sees, Calm, kernelVars
<1>4. Base'
  BY BaseInductive
<1>5. ASSUME NEW e \in given', e \in given, link'[e].ns # Host PROVE link'[e].ns \in loUp'
  <2>1. Staged'
    BY StagedInductive DEF StagedInv
  <2>2. link'[e] # NoLink
    BY <1>5, <2>1 DEF Staged, GivenThere
  <2>3. link'[e] = link[e]
    BY <1>1, <1>5, <2>2, GivenStep
  <2>4. QED
    BY <1>1, <1>3, <1>5, <2>3 DEF GivenLit
<1>6. ASSUME NEW e \in given', e \notin given, link'[e].ns # Host PROVE link'[e].ns \in loUp'
  <2>1. e \in Ends
    BY <1>4 DEF Base, Typed
  <2>2. PICK r \in Requests : Answer(r)
    BY <1>6, StepCases, MakesGiven, AcceptsType, TakesDownType, <2>1 DEF Sees, Calm
  <2>3. /\ ok[r] /\ (e \in Made(call[r]) \/ OtherEnd(e) \in Made(call[r]))
        /\ link' = link
    BY <1>6, <2>1, <2>2, AnswersType
  <2>4. e \in Made(call[r]) => link[e].ns = Host
    BY DEF Made, HostEnd
  <2>5. OtherEnd(e) \in Made(call[r]) => link[e].ns = call[r].ns
    BY <2>1, EndsFacts DEF Made, PeerEnd
  <2>6. call[r].ns \in loUp
    BY <1>1, <2>2, <2>3, TruthfulAnswer DEF Answer
  <2>7. QED
    BY <1>3, <1>6, <2>3, <2>4, <2>5, <2>6
<1>7. GivenLit'
  BY <1>5, <1>6 DEF GivenLit
<1>8. QED
  BY <1>2, <1>7

\* As long as the promised pair is there the checker has read it and nothing else.
ReadsPromised ==
  promised # NoEnd =>
    /\ setting \in Watched
    /\ \/ link[promised] = NoLink
       \/ /\ promised \in given /\ promised \in Made(asked) /\ fine
          /\ stage # "hostLink" => hostEnd = promised
          /\ stage \notin {"hostLink", "peerLink"} => peerEnd = OtherEnd(promised)

LEMMA ServersPromised ==
  ASSUME Base, CheckTypeOK, StagedInv, ReadsPromised, [CheckNext]_checkedVars,
         UNCHANGED checkVars, \A w \in Watched : Held(w)
  PROVE  ReadsPromised'
<1> SUFFICES ASSUME promised # NoEnd
             PROVE  /\ setting' \in Watched
                    /\ \/ link'[promised] = NoLink
                       \/ /\ promised \in given' /\ (promised \in Made(asked))' /\ fine
                          /\ stage # "hostLink" => hostEnd = promised
                          /\ stage \notin {"hostLink", "peerLink"} => peerEnd = OtherEnd(promised)
  BY DEF ReadsPromised, checkVars
<1>1. setting \in Watched /\ setting' = setting /\ Held(setting) /\ Staged
      /\ promised \in Ends /\ promised \in seen /\ asked' = asked
  BY StagedInductive DEF ReadsPromised, CheckTypeOK, StagedInv, checkVars
<1>2. CASE link[promised] = NoLink
  BY <1>1, <1>2, GoneStays
<1>3. CASE link[promised] # NoLink
  <2>1. /\ promised \in given /\ promised \in Made(asked) /\ fine
        /\ stage # "hostLink" => hostEnd = promised
        /\ stage \notin {"hostLink", "peerLink"} => peerEnd = OtherEnd(promised)
    BY <1>3 DEF ReadsPromised
  <2>2. CASE link'[promised] = NoLink
    BY <1>1, <2>2
  <2>3. CASE link'[promised] # NoLink
    <3>1. /\ promised \in given' /\ link'[promised] = link[promised]
          /\ link'[OtherEnd(promised)] = link[OtherEnd(promised)]
      BY <1>1, <2>1, <2>3, GivenStep
    <3>2. (promised \in Made(asked))'
      BY <1>1, <2>1, <3>1 DEF Made, HostEnd, PeerEnd, checkVars
    <3>3. QED
      BY <1>1, <2>1, <3>1, <3>2
  <2>4. QED
    BY <2>2, <2>3
<1>4. QED
  BY <1>2, <1>3

\* What the reads find of a pair that stands.
LEMMA MadeFound ==
  ASSUME Base, asked \in Calls, NEW e \in Made(asked)
  PROVE  /\ e \in Ends /\ OtherEnd(e) \in Ends /\ OtherEnd(OtherEnd(e)) = e
         /\ Found(Host, asked.host) = {e} /\ Found(asked.ns, asked.peer) = {OtherEnd(e)}
         /\ link[e].up = TRUE /\ link[OtherEnd(e)].up = TRUE
         /\ HasAddress(e) /\ HasAddress(OtherEnd(e)) /\ link[OtherEnd(e)].ns = asked.ns
<1>1. e \in Ends /\ OtherEnd(e) \in Ends /\ OtherEnd(OtherEnd(e)) = e
      /\ HostEnd(asked, e) /\ PeerEnd(asked, OtherEnd(e))
  BY EndsFacts DEF Made
<1>2. /\ link[e] # NoLink /\ link[e].ns = Host /\ link[e].name = asked.host
      /\ link[e].up = TRUE /\ link[e].addr = TRUE
  BY <1>1 DEF HostEnd
<1>3. /\ link[OtherEnd(e)] # NoLink /\ link[OtherEnd(e)].ns = asked.ns
      /\ link[OtherEnd(e)].name = asked.peer
      /\ link[OtherEnd(e)].up = TRUE /\ link[OtherEnd(e)].addr = TRUE
  BY <1>1 DEF PeerEnd
<1>4. Found(Host, asked.host) = {e}
  BY <1>1, <1>2, FoundOne
<1>5. Found(asked.ns, asked.peer) = {OtherEnd(e)}
  BY <1>1, <1>3, FoundOne
<1>6. QED
  BY <1>1, <1>2, <1>3, <1>4, <1>5 DEF HasAddress

\* The reads of a promised pair go on to the next and find nothing wrong, but for
\* an error of the read itself.
LEMMA PromisedReads ==
  ASSUME Base, CheckTypeOK, StagedInv, Lit, ReadsPromised, CheckStep,
         \A w \in Watched : Held(w) /\ LoHeld(w),
         promised # NoEnd, link[promised] # NoLink
  PROVE  \/ promised' = NoEnd /\ stage' # "failed"
         \/ /\ promised' = promised /\ asked' = asked /\ fine'
            /\ stage' \in Reads \ {"hostLink"} /\ hostEnd' = promised
            /\ stage' # "peerLink" => peerEnd' = OtherEnd(promised)
<1>1. /\ setting \in Watched /\ promised \in given /\ promised \in Made(asked) /\ fine
      /\ stage # "hostLink" => hostEnd = promised
      /\ stage \notin {"hostLink", "peerLink"} => peerEnd = OtherEnd(promised)
  BY DEF ReadsPromised
<1>2. asked # NoCall /\ asked \in Calls /\ fine \in BOOLEAN
  BY <1>1 DEF CheckTypeOK, Reads, Verdicts
<1>3. /\ Found(Host, asked.host) = {promised}
      /\ Found(asked.ns, asked.peer) = {OtherEnd(promised)}
      /\ link[promised].up = TRUE /\ link[OtherEnd(promised)].up = TRUE
      /\ HasAddress(promised) /\ HasAddress(OtherEnd(promised))
      /\ OtherEnd(OtherEnd(promised)) = promised
  BY <1>1, <1>2, MadeFound
<1>4. asked.ns \in loUp
  <2>1. OtherEnd(promised) \in given /\ GivenLit
    BY <1>1 DEF StagedInv, Staged, GivenThere, Lit
  <2>2. link[OtherEnd(promised)].ns = asked.ns
    BY <1>1, <1>2, MadeFound
  <2>3. asked.ns # Host
    BY <1>2, LinksFacts, NamespacesAssumption
  <2>4. QED
    BY <2>1, <2>2, <2>3 DEF GivenLit
<1>5. CASE ReadHostLink
  BY <1>1, <1>3, <1>5 DEF ReadHostLink, Continue, Reads
<1>6. CASE ReadPeerLink
  BY <1>1, <1>3, <1>6 DEF ReadPeerLink, Continue, Reads
<1>7. CASE ReadLo
  BY <1>1, <1>4, <1>7 DEF ReadLo, Continue, Reads
<1>8. CASE ReadHostAddrs
  BY <1>1, <1>3, <1>8 DEF ReadHostAddrs, Continue, Reads
<1>9. CASE ReadPeerAddrs
  BY <1>1, <1>3, <1>9 DEF ReadPeerAddrs, Continue, Reads
<1>10. CASE ReadHostPeer
  BY <1>1, <1>3, <1>10 DEF ReadHostPeer, Continue, Reads, PairedWith
<1>11. CASE ReadPeerPeer
  BY <1>1, <1>3, <1>11 DEF ReadPeerPeer, Finish, PairedWith
<1>12. CASE CheckErrs
  BY <1>12 DEF CheckErrs, Finish
<1>13. QED
  BY <1>2, <1>5, <1>6, <1>7, <1>8, <1>9, <1>10, <1>11, <1>12 DEF CheckStep, StartCheck

LEMMA CheckerPromised ==
  ASSUME Base, CheckTypeOK, StagedInv, Lit, ReadsPromised, CheckStep,
         \A w \in Watched : Held(w) /\ LoHeld(w)
  PROVE  ReadsPromised'
<1>1. UNCHANGED <<setting, link, given>>
  BY DEF CheckStep, StartCheck, ReadHostLink, ReadPeerLink, ReadLo, ReadHostAddrs,
     ReadPeerAddrs, ReadHostPeer, ReadPeerPeer, CheckErrs, ServersIdle
<1>2. ASSUME NEW c \in Calls, StartCheck(c) PROVE ReadsPromised'
  <2>1. /\ setting \in Watched /\ stage' = "hostLink" /\ asked' = c /\ fine' = TRUE
        /\ promised' = IF PromisedEnds(c) = {} THEN NoEnd
                       ELSE CHOOSE e \in PromisedEnds(c) : TRUE
    BY <1>2 DEF StartCheck
  <2>2. promised' # NoEnd => promised' \in PromisedEnds(c)
    BY <2>1
  <2>3. QED
    BY <1>1, <2>1, <2>2 DEF ReadsPromised, PromisedEnds, Made, HostEnd, PeerEnd
<1>3. ASSUME \A c \in Calls : ~StartCheck(c) PROVE ReadsPromised'
  <2>1. promised' \in {promised, NoEnd}
    BY <1>3 DEF CheckStep, ReadHostLink, ReadPeerLink, ReadLo, ReadHostAddrs,
       ReadPeerAddrs, ReadHostPeer, ReadPeerPeer, CheckErrs, Continue, Finish
  <2>2. CASE promised' = NoEnd
    BY <2>2 DEF ReadsPromised
  <2>3. CASE promised' # NoEnd /\ link[promised] = NoLink
    BY <1>1, <2>1, <2>3 DEF ReadsPromised
  <2>4. CASE promised' # NoEnd /\ link[promised] # NoLink
    <3>1. /\ promised' = promised /\ asked' = asked /\ fine'
          /\ stage' \in Reads \ {"hostLink"} /\ hostEnd' = promised
          /\ stage' # "peerLink" => peerEnd' = OtherEnd(promised)
      BY <2>1, <2>4, PromisedReads
    <3>2. setting \in Watched /\ promised \in given /\ promised \in Made(asked)
      BY <2>1, <2>4 DEF ReadsPromised
    <3>3. QED
      BY <1>1, <3>1, <3>2 DEF ReadsPromised, Made, HostEnd, PeerEnd
  <2>5. QED
    BY <2>2, <2>3, <2>4
<1>4. QED
  BY <1>2, <1>3

\* A promised pair is never reported wrong, whatever requests and other clients do
\* between the checker's reads, as long as nobody deletes that pair.
THEOREM PromisedIsVerified ==
  (\A w \in Watched : Held(w) /\ LoHeld(w)) => (CheckSpec => PromisedVerifies)
<1> SUFFICES ASSUME \A w \in Watched : Held(w) /\ LoHeld(w)
             PROVE  CheckSpec => PromisedVerifies
  OBVIOUS
<1>1. CheckInit => Lit /\ ReadsPromised
  BY DEF CheckInit, Init, Lit, GivenLit, LoDone, Owns, ReadsPromised
<1>2. Base /\ StagedInv /\ Lit /\ [CheckNext]_checkedVars => Lit'
  BY LitInductive
<1>3. Base /\ CheckTypeOK /\ StagedInv /\ Lit /\ ReadsPromised /\ [CheckNext]_checkedVars =>
        ReadsPromised'
  <2> SUFFICES ASSUME Base, CheckTypeOK, StagedInv, Lit, ReadsPromised, [CheckNext]_checkedVars
               PROVE  ReadsPromised'
    OBVIOUS
  <2>1. CASE CheckStep
    BY <2>1, CheckerPromised
  <2>2. CASE UNCHANGED checkVars
    BY <2>2, ServersPromised
  <2>3. QED
    BY <2>1, <2>2 DEF CheckNext, checkedVars
<1>4. Base /\ CheckTypeOK /\ StagedInv /\ Lit /\ ReadsPromised /\ [CheckNext]_checkedVars =>
        [asked # NoCall /\ stage' = "failed" /\ promised # NoEnd => promised \notin given]_checkedVars
  <2> SUFFICES ASSUME Base, CheckTypeOK, StagedInv, Lit, ReadsPromised, CheckNext,
                      asked # NoCall, stage' = "failed", promised # NoEnd, promised \in given
               PROVE  FALSE
    OBVIOUS
  <2>1. stage \in Reads
    BY DEF CheckTypeOK
  <2>2. CheckStep
    BY <2>1 DEF CheckNext, checkVars, Reads
  <2>3. Held(setting)
    BY DEF ReadsPromised
  <2>4. link[promised] # NoLink
    BY <2>3 DEF StagedInv, Staged, GivenThere
  <2>5. QED
    BY <2>2, <2>4, PromisedReads DEF Reads
<1>5. QED
  BY <1>1, <1>2, <1>3, <1>4, BaseHolds, CheckTyped, StagedHolds, PTL
  DEF CheckSpec, PromisedVerifies

-----------------------------------------------------------------------------
(* A retry that has no excuse to fail *)

\* Where no earlier request is in the way of a new one: what it left is deleted, or
\* it left nothing.
RetryHeld(w) ==
  /\ Held(w)
  /\ w.server \notin Replaces => Tidies(w)
  /\ w.server = "Joseng8908" => Hosts \cap Peers = {}

HostFree(r) ==
  Ahead(todo[r], Adds) /\ ~Ahead(todo[r], {"delHost"}) => Found(Host, call[r].host) = {}
PeerFree(r) ==
  (Ahead(todo[r], Adds) \/ Ahead(todo[r], {"rename"})) /\ ~Ahead(todo[r], {"delPeer"}) =>
    Found(call[r].ns, call[r].peer) = {}
PeerFreeHere(r) ==
  setting.server = "Joseng8908" /\ Ahead(todo[r], Adds) => Found(Host, call[r].peer) = {}
Due(r) ==
  due[r] =>
    /\ call[r] # NoCall /\ \A q \in Requests \ {r} : call[q] = NoCall
    /\ calm /\ ok[r]
    /\ HostFree(r) /\ PeerFree(r) /\ PeerFreeHere(r)

\* The temporary name is free where the name it is made from is.
LEMMA TempFree ==
  ASSUME Base, Apart, setting.server # "Joseng8908", NEW h \in Hosts, NEW where,
         NEW e \in Found(where, Temp(h))
  PROVE  \E p \in Pairs : e = PeerOf(p) /\ HostOf(p) \in Found(Host, h)
<1>1. e \in Ends /\ link[e] # NoLink /\ link[e].name = Temp(h)
  BY DEF Found
<1>2. Temp(h) \notin Hosts \cup Peers
  BY NamesAssumption
<1>3. PICK p \in Pairs : e = HostOf(p) \/ e = PeerOf(p)
  BY <1>1, EndsFacts
<1>4. HostApart(p) /\ PeerApart(p)
  BY DEF Apart
<1>5. e = PeerOf(p)
  BY <1>1, <1>2, <1>3, <1>4 DEF HostApart
<1>6. link[HostOf(p)] # NoLink /\ HostOf(p) \in Ends
  BY <1>1, <1>5, EndsFacts DEF Base, Paired
<1>7. Temp(h) = Temp(link[HostOf(p)].name)
  BY <1>1, <1>2, <1>4, <1>5 DEF PeerApart
<1>8. link[HostOf(p)].name = h /\ link[HostOf(p)].ns = Host
  BY <1>4, <1>6, <1>7 DEF Temp, HostApart
<1>9. QED
  BY <1>5, <1>6, <1>8 DEF Found

\* Why a call that looks at names, or makes a pair, is refused.
LEMMA RefusedFor ==
  ASSUME NEW r \in Requests, Makes(r), GivesUp(r), ~GoesOn(r)
  PROVE  /\ Op(r) \in Absents => FoundBy(r) # {} \/ CanFail("find")
         /\ Op(r) \in Adds =>
              \E where, name :
                /\ AddsAt(r, where, name)
                /\ \/ Found(Host, call[r].host) # {} \/ Found(where, name) # {}
                   \/ <<where, name>> = <<Host, call[r].host>> \/ CanFail("link")
<1>1. Op(r) \in Absents => Absent(r)
  BY DEF Makes, Op, Absents, Parse, OpenNs, Check, DeleteLink, AddPair, Add, FindHost, FindPeer,
     Move, Rename, HostAddr, HostUp, PeerAddr, PeerUp, LoUp, Change, Doing, Asks
<1>2. Op(r) \in Absents => FoundBy(r) # {} \/ CanFail("find")
  BY <1>1 DEF Absent, Check, GoesOn, Goes, Op, Asks
<1>3. Op(r) \in Adds => AddPair(r)
  BY DEF Makes, Op, Adds, Parse, OpenNs, Check, Absent, DeleteLink, FindHost, FindPeer,
     Move, Rename, HostAddr, HostUp, PeerAddr, PeerUp, LoUp, Change, Doing, Asks
<1>4. ASSUME NEW op, NEW where, NEW name, Add(r, op, where, name)
      PROVE  /\ Op(r) = op
             /\ \/ Found(Host, call[r].host) # {} \/ Found(where, name) # {}
                \/ <<where, name>> = <<Host, call[r].host>> \/ CanFail("link")
  BY <1>4 DEF Add, Doing, GoesOn, Goes, Op
<1>5. ASSUME Op(r) \in Adds
      PROVE  \E where, name :
               /\ AddsAt(r, where, name)
               /\ \/ Found(Host, call[r].host) # {} \/ Found(where, name) # {}
                  \/ <<where, name>> = <<Host, call[r].host>> \/ CanFail("link")
  <2>1. CASE Add(r, "add", Host, Temp(call[r].host))
    BY <1>4, <2>1 DEF AddsAt
  <2>2. CASE Add(r, "addPeer", Host, call[r].peer)
    BY <1>4, <2>2 DEF AddsAt
  <2>3. CASE Add(r, "addInNs", call[r].ns, call[r].peer)
    BY <1>4, <2>3 DEF AddsAt
  <2>4. QED
    BY <1>3, <1>5, <2>1, <2>2, <2>3 DEF AddPair
<1>6. QED
  BY <1>2, <1>5

\* What is in the way is deleted before it would be.
LEMMA Clearing ==
  ASSUME NEW s, Shape(s), NEW t \in Rests(s), t # << >>
  PROVE  /\ Head(t).op \in Adds => ~Ahead(t, {"delHost"})
         /\ Head(t).op \in {"rename", "addInNs"} => ~Ahead(t, {"delPeer"})
         /\ Head(t).op \in Absents => Ahead(t, Adds)
<1>1. s \in Seq(ScriptCall)
  BY DEF Shape
<1>2. \A A : Ahead(t, A) <=> Head(t).op \in A \/ Ahead(Tail(t), A)
  BY <1>1, AheadNext
<1>3. Head(t).op \in Adds => ~Ahead(Tail(t), Adds \cup Absents \cup {"delHost", "delTmp"})
  BY <1>1, AheadNext DEF Shape, Makings
<1>4. Head(t).op \in Adds => ~Ahead(t, {"delHost"})
  <2>1. Ahead(Tail(t), {"delHost"}) =>
          Ahead(Tail(t), Adds \cup Absents \cup {"delHost", "delTmp"})
    BY AheadMono
  <2>2. QED
    BY <1>2, <1>3, <2>1 DEF Adds
<1>5. Ahead(t, {"delPeer"}) => Ahead(t, {"rename"}) /\ (Head(t).op # "delPeer" => Ahead(Tail(t), {"rename"}))
  <2>1. SUFFICES ASSUME Ahead(t, {"delPeer"})
                 PROVE  Ahead(t, {"rename"}) /\ (Head(t).op # "delPeer" => Ahead(Tail(t), {"rename"}))
    OBVIOUS
  <2>2. PICK i \in 1 .. Len(s) + 1 : t = SubSeq(s, i, Len(s))
    BY DEF Rests
  <2>3. PICK k \in DOMAIN s : k >= i /\ s[k].op = "delPeer"
    BY <1>1, <2>1, <2>2, AheadRest
  <2>4. PICK l \in DOMAIN s : k < l /\ s[l].op = "rename"
    BY <2>3 DEF Shape, Steps, SomeAfter
  <2>5. PICK j \in DOMAIN s : Head(t) = s[j] /\ t = SubSeq(s, j, Len(s)) /\ Tail(t) = SubSeq(s, j + 1, Len(s))
    BY <1>1, RestsNext
  <2>6. l >= i
    BY <2>3, <2>4
  <2>7. Ahead(t, {"rename"})
    BY <1>1, <2>2, <2>4, <2>6, AheadRest
  <2>8. Head(t).op # "rename" => Ahead(Tail(t), {"rename"})
    BY <1>2, <2>7
  <2>9. Head(t).op = "rename" => ~Ahead(Tail(t), {"delPeer"})
    <3>1. SUFFICES ASSUME Head(t).op = "rename", Ahead(Tail(t), {"delPeer"}) PROVE FALSE
      OBVIOUS
    <3>2. PICK a \in 1 .. Len(s) + 1 : a = j + 1
      BY <1>1, <2>5
    <3>3. PICK m \in DOMAIN s : m >= a /\ s[m].op = "delPeer"
      <4>1. Ahead(SubSeq(s, a, Len(s)), {"delPeer"})
        BY <2>5, <3>1, <3>2
      <4>2. QED
        BY <1>1, <4>1, AheadRest
    <3>4. PICK n \in DOMAIN s : m < n /\ s[n].op = "rename"
      BY <3>3 DEF Shape, Steps, SomeAfter
    <3>5. j < n
      BY <1>1, <3>2, <3>3, <3>4
    <3>6. QED
      BY <2>5, <3>1, <3>4, <3>5 DEF Shape, Steps, NoneAfter
  <2>10. QED
    BY <1>2, <2>1, <2>7, <2>8, <2>9
<1>6. Head(t).op \in {"rename", "addInNs"} => ~Ahead(t, {"delPeer"})
  <2>1. /\ Head(t).op = "rename" => ~Ahead(Tail(t), {"rename"})
        /\ Head(t).op = "addInNs" => ~Ahead(Tail(t), {"rename"})
    BY NextFacts
  <2>2. QED
    BY <1>5, <2>1
<1>7. Head(t).op \in Absents => Ahead(t, Adds)
  BY NextFacts
<1>8. QED
  BY <1>4, <1>6, <1>7

\* The calls that are still refused when the kernel is calm find nothing in the way.
LEMMA DueGoesOn ==
  ASSUME Base, Apart, Staged, RetryHeld(setting), NEW r \in Requests, Makes(r), MoveFree(r),
         Due(r), due[r]
  PROVE  GoesOn(r) /\ ok[r]
<1> SUFFICES ASSUME GivesUp(r), ~GoesOn(r) PROVE FALSE
  BY MakesRest DEF Due
<1>1. /\ ok[r] /\ \A f \in Failures : ~CanFail(f)
      /\ HostFree(r) /\ PeerFree(r) /\ PeerFreeHere(r) /\ Held(setting)
  BY DEF Due, CanFail, RetryHeld
<1>2. ~CanFail("parse") /\ ~CanFail("open") /\ ~CanFail("find") /\ ~CanFail("delete")
      /\ ~CanFail("link") /\ ~CanFail("address") /\ ~CanFail("lo")
  BY <1>1 DEF Failures
<1>3. /\ todo[r] \in Rests(Mine) /\ Shape(Mine) /\ Mine \in Seq(ScriptCall) /\ todo[r] # << >>
      /\ Op(r) = Head(todo[r]).op /\ call[r] \in Calls /\ setting.server \in Servers
  BY <1>1, MakesRest, MakesCall, MineFacts DEF Base
<1>4. /\ call[r].host \in Hosts /\ call[r].ns \in Named /\ call[r].peer \in Peers
      /\ call[r].ns # Host
  BY <1>3, LinksFacts, NamespacesAssumption
<1>5. KeepsLinks(r)
  BY <1>1, GoesOrGives
<1>6. Op(r) \notin {"parse", "openNs"} \cup Deletes
  BY <1>2, <1>5 DEF KeepsLinks
<1>7. \A A : Ahead(todo[r], A) <=> Op(r) \in A \/ Ahead(Tail(todo[r]), A)
  BY <1>3, AheadNext
<1>8. Op(r) \notin Absents
  <2>1. SUFFICES ASSUME Op(r) \in Absents PROVE FALSE
    OBVIOUS
  <2>2. PICK i \in DOMAIN Mine : Mine[i].op = Op(r) /\ todo[r] = SubSeq(Mine, i, Len(Mine))
    BY <1>3, RestsNext
  <2>3. setting.server \in CleansUp \cup {"khsAlt"}
    <3>1. /\ setting.server \in Replaces => Clears(Mine)
          /\ setting.server = "Joseng8908" => Blunt(Mine)
      BY ScriptFacts DEF Mine
    <3>2. setting.server \in CleansUp \cup Replaces \cup {"khsAlt", "Joseng8908"}
      BY <1>3, ScriptFacts DEF CleansUp, Replaces
    <3>3. QED
      BY <2>1, <2>2, <3>1, <3>2 DEF Clears, Blunt
  <2>4. Keeps(Mine)
    BY <2>3, ScriptFacts DEF Mine
  <2>5. ~Ahead(todo[r], {"delHost"}) /\ ~Ahead(todo[r], {"delPeer"})
    <3>1. i \in 1 .. Len(Mine) + 1
      BY <1>3, <2>2
    <3>2. QED
      BY <1>3, <2>2, <2>4, <3>1, AheadRest DEF Keeps, Deletes
  <2>6. Ahead(todo[r], Adds)
    BY <1>3, <2>1, Clearing
  <2>7. Found(Host, call[r].host) = {} /\ Found(call[r].ns, call[r].peer) = {}
    BY <1>1, <2>5, <2>6 DEF HostFree, PeerFree
  <2>8. setting.server # "Joseng8908"
    BY <2>3 DEF CleansUp
  <2>9. \A where : Found(where, Temp(call[r].host)) = {}
    BY <1>4, <2>7, <2>8, TempFree
  <2>10. FoundBy(r) = {}
    BY <2>1, <2>7, <2>9 DEF FoundBy, Place, Absents, Op
  <2>11. QED
    BY <1>2, <2>1, <2>10, RefusedFor
<1>9. Op(r) \notin Adds
  <2>1. SUFFICES ASSUME Op(r) \in Adds PROVE FALSE
    OBVIOUS
  <2>2. Ahead(todo[r], Adds) /\ ~Ahead(todo[r], {"delHost"})
    BY <1>3, <1>7, <2>1, Clearing
  <2>3. Found(Host, call[r].host) = {}
    BY <1>1, <2>2 DEF HostFree
  <2>4. PICK where, name :
           /\ AddsAt(r, where, name)
           /\ Found(where, name) # {} \/ <<where, name>> = <<Host, call[r].host>>
    BY <1>2, <2>1, <2>3, RefusedFor
  <2>5. CASE Op(r) = "add"
    <3>1. where = Host /\ name = Temp(call[r].host) /\ name # call[r].host
      BY <1>4, <2>4, <2>5, NamesAssumption DEF AddsAt
    <3>2. setting.server # "Joseng8908"
      <4>1. setting.server = "Joseng8908" => Blunt(Mine)
        BY ScriptFacts DEF Mine
      <4>2. Ahead(Tail(todo[r]), {"rename"})
        BY <1>3, <2>5, NextFacts
      <4>3. PICK i \in 1 .. Len(Mine) + 1 : todo[r] = SubSeq(Mine, i, Len(Mine))
        BY <1>3 DEF Rests
      <4>4. Ahead(todo[r], {"rename"})
        BY <1>7, <4>2
      <4>5. QED
        BY <1>3, <4>1, <4>3, <4>4, AheadRest DEF Blunt
    <3>3. Found(Host, Temp(call[r].host)) = {}
      BY <1>4, <2>3, <3>2, TempFree
    <3>4. QED
      BY <2>4, <3>1, <3>3
  <2>6. CASE Op(r) = "addPeer"
    <3>1. where = Host /\ name = call[r].peer
      BY <2>4, <2>6 DEF AddsAt
    <3>2. setting.server = "Joseng8908"
      BY <2>6, MakesAside
    <3>3. Found(Host, call[r].peer) = {} /\ call[r].peer # call[r].host
      BY <1>1, <1>4, <2>2, <3>2 DEF PeerFreeHere, RetryHeld
    <3>4. QED
      BY <2>4, <3>1, <3>3
  <2>7. CASE Op(r) = "addInNs"
    <3>1. where = call[r].ns /\ name = call[r].peer
      BY <2>4, <2>7 DEF AddsAt
    <3>2. ~Ahead(todo[r], {"delPeer"})
      BY <1>3, <2>7, Clearing
    <3>3. Found(call[r].ns, call[r].peer) = {}
      BY <1>1, <2>2, <3>2 DEF PeerFree
    <3>4. QED
      BY <1>4, <2>4, <3>1, <3>3
  <2>8. QED
    BY <2>1, <2>5, <2>6, <2>7 DEF Adds
<1>10. Op(r) \in Work
  BY <1>6, <1>8, <1>9, MakesFrame
<1>11. Owns(r)
  BY <1>10, WorkOwns
<1>12. PICK p \in Pairs : Stage(r, p)
  BY <1>11 DEF Staged, Owners
<1>13. OwnPair(r, p) /\ PeerStands(r, p) /\ HostOf(p) \in Ends
  BY <1>1, <1>12, EndsFacts DEF Stage
<1>14. Op(r) \in Alters => Possible(r)
  <2>1. CASE setting.server = "Joseng8908"
    BY <1>1, <1>11, <1>12, <2>1, OwnGoes DEF AltersEnd
  <2>2. CASE setting.server # "Joseng8908" /\ Op(r) = "move"
    <3>1. Subject(r) = PeerOf(p) /\ Denotes(PeerOf(p), Host) /\ Subject(r) = peerLink[r]
      BY <1>1, <1>11, <1>12, <2>2, OwnSubject DEF Alters, Where, Subject
    <3>2. link[PeerOf(p)].ns = Host /\ PeerOf(p) \in Ends /\ link[PeerOf(p)] # NoLink
      BY <3>1, EndsFacts DEF Denotes
    <3>3. link[PeerOf(p)].name = Temp(call[r].host)
      <4>1. PeerApart(p) /\ link[HostOf(p)].name = call[r].host
        BY <1>13, <2>2 DEF Apart, OwnPair
      <4>2. QED
        BY <3>2, <4>1 DEF PeerApart
    <3>4. Found(Host, call[r].host) = {HostOf(p)}
      BY <1>13, FoundOne DEF OwnPair
    <3>5. ASSUME NEW e \in Found(call[r].ns, Temp(call[r].host)) PROVE FALSE
      <4>1. PICK o \in Pairs : e = PeerOf(o) /\ HostOf(o) \in Found(Host, call[r].host)
        BY <1>4, <2>2, <3>5, TempFree
      <4>2. e = PeerOf(p)
        BY <3>4, <4>1, EndsFacts
      <4>3. QED
        BY <1>4, <3>2, <3>5, <4>2 DEF Found
    <3>6. QED
      BY <2>2, <3>1, <3>3, <3>5 DEF Possible
  <2>3. CASE Op(r) = "rename"
    <3>1. ~Ahead(todo[r], {"delPeer"}) /\ Ahead(todo[r], {"rename"})
      BY <1>3, <1>7, <2>3, Clearing
    <3>2. QED
      BY <1>1, <2>3, <3>1 DEF PeerFree, Possible
  <2>4. QED
    BY <2>1, <2>2, <2>3 DEF Possible, Alters
<1>15. QED
  BY <1>1, <1>11, <1>12, <1>14, OwnGoesOn

\* Before the pair is made interfaces are only deleted.
LEMMA BeforeAdding ==
  ASSUME Base, NEW r \in Requests, Makes(r), ok[r], Ahead(Tail(todo[r]), Adds)
  PROVE  /\ Op(r) \notin Adds \cup Work /\ Ahead(todo[r], Adds)
         /\ (KeepsLinks(r) \/ DeletesLinks(r))
         /\ \A e \in Ends : link'[e] = link[e] \/ link'[e] = NoLink
<1>1. /\ todo[r] \in Rests(Mine) /\ Shape(Mine) /\ Mine \in Seq(ScriptCall) /\ todo[r] # << >>
      /\ Op(r) = Head(todo[r]).op
  BY MakesRest, MakesCall, MineFacts DEF Base
<1>2. Ahead(todo[r], Adds)
  BY <1>1, AheadNext
<1>3. Op(r) \notin Adds \cup Work
  BY <1>1, <1>2, NextFacts
<1>4. KeepsLinks(r) \/ DeletesLinks(r)
  BY <1>3, LinkMoves DEF AddsPair, AddsAt, AltersEnd, Adds, Work
<1>5. \A e \in Ends : link'[e] = link[e] \/ link'[e] = NoLink
  BY <1>4, DeletesType, FoundByEnds DEF KeepsLinks, DeletesLinks
<1>6. QED
  BY <1>2, <1>3, <1>4, <1>5

\* Deleting what was found leaves nothing of its names.
LEMMA DeletedFree ==
  ASSUME Base, NEW r \in Requests, Makes(r), DeletesLinks(r)
  PROVE  \A e \in FoundBy(r) : link'[e] = NoLink
BY DeletesType, FoundByEnds DEF DeletesLinks

LEMMA FewerFound ==
  ASSUME \A e \in Ends : link'[e] = link[e] \/ link'[e] = NoLink, NEW where, NEW name,
         \A e \in Found(where, name) : link'[e] = NoLink
  PROVE  \A e \in Ends :
           link'[e] # NoLink => ~(link'[e].ns = where /\ link'[e].name = name)
BY DEF Found

LEMMA FreeAfter ==
  ASSUME NEW r \in Requests, call' = call, setting' = setting, todo'[r] = Tail(todo[r]),
         NEW c, c = call[r]
  PROVE  /\ (Ahead(Tail(todo[r]), Adds) /\ ~Ahead(Tail(todo[r]), {"delHost"}) =>
               \A e \in Ends :
                 link'[e] # NoLink => ~(link'[e].ns = Host /\ link'[e].name = c.host))
            => HostFree(r)'
         /\ ((Ahead(Tail(todo[r]), Adds) \/ Ahead(Tail(todo[r]), {"rename"}))
               /\ ~Ahead(Tail(todo[r]), {"delPeer"}) =>
               \A e \in Ends :
                 link'[e] # NoLink => ~(link'[e].ns = c.ns /\ link'[e].name = c.peer))
            => PeerFree(r)'
         /\ (setting.server = "Joseng8908" /\ Ahead(Tail(todo[r]), Adds) =>
               \A e \in Ends :
                 link'[e] # NoLink => ~(link'[e].ns = Host /\ link'[e].name = c.peer))
            => PeerFreeHere(r)'
BY DEF HostFree, PeerFree, PeerFreeHere, Found

\* What the request still to be made finds in its way only becomes less.
LEMMA DueFree ==
  ASSUME Base, Apart, Staged, Held(setting), NEW r \in Requests, Makes(r), MoveFree(r),
         Due(r), due[r], GoesOn(r)
  PROVE  HostFree(r)' /\ PeerFree(r)' /\ PeerFreeHere(r)'
<1>1. /\ ok[r] /\ \A f : ~CanFail(f)
      /\ HostFree(r) /\ PeerFree(r) /\ PeerFreeHere(r)
  BY DEF Due, CanFail
<1>2. /\ todo[r] \in Rests(Mine) /\ Shape(Mine) /\ Mine \in Seq(ScriptCall) /\ todo[r] # << >>
      /\ Op(r) = Head(todo[r]).op /\ call[r] \in Calls
      /\ call' = call /\ setting' = setting /\ todo'[r] = Tail(todo[r])
  BY <1>1, MakesRest, MakesCall, MineFacts, MakesFrame, MakesPlanned DEF Base
<1>3. /\ call[r].host \in Hosts /\ call[r].ns \in Named /\ call[r].peer \in Peers
      /\ call[r].ns # Host
  BY <1>2, LinksFacts, NamespacesAssumption
<1>4. \A A : Ahead(todo[r], A) <=> Op(r) \in A \/ Ahead(Tail(todo[r]), A)
  BY <1>2, AheadNext
<1>5. HostFree(r)'
  <2>1. SUFFICES ASSUME Ahead(Tail(todo[r]), Adds), ~Ahead(Tail(todo[r]), {"delHost"})
                 PROVE  \A e \in Ends :
                         link'[e] # NoLink => ~(link'[e].ns = Host /\ link'[e].name = call[r].host)
    BY <1>2, FreeAfter
  <2>2. /\ Ahead(todo[r], Adds) /\ (KeepsLinks(r) \/ DeletesLinks(r))
        /\ \A e \in Ends : link'[e] = link[e] \/ link'[e] = NoLink
    BY <1>1, <2>1, BeforeAdding
  <2>3. \A e \in Found(Host, call[r].host) : link'[e] = NoLink
    <3>1. CASE Op(r) = "delHost"
      <4>1. DeletesLinks(r) /\ FoundBy(r) = Found(Host, call[r].host)
        BY <1>1, <2>2, <3>1 DEF KeepsLinks, Deletes, FoundBy, Place, Op
      <4>2. QED
        BY <4>1, DeletedFree
    <3>2. CASE Op(r) # "delHost"
      BY <1>1, <1>4, <2>1, <2>2, <3>2 DEF HostFree
    <3>3. QED
      BY <3>1, <3>2
  <2>4. QED
    BY <2>2, <2>3, FewerFound
<1>6. PeerFreeHere(r)'
  <2>1. SUFFICES ASSUME setting.server = "Joseng8908", Ahead(Tail(todo[r]), Adds)
                 PROVE  \A e \in Ends :
                         link'[e] # NoLink => ~(link'[e].ns = Host /\ link'[e].name = call[r].peer)
    BY <1>2, FreeAfter
  <2>2. /\ Ahead(todo[r], Adds)
        /\ \A e \in Ends : link'[e] = link[e] \/ link'[e] = NoLink
    BY <1>1, <2>1, BeforeAdding
  <2>3. Found(Host, call[r].peer) = {}
    BY <1>1, <2>1, <2>2 DEF PeerFreeHere
  <2>4. QED
    BY <2>2, <2>3, FewerFound
<1>7. PeerFree(r)'
  <2>1. SUFFICES ASSUME Ahead(Tail(todo[r]), Adds) \/ Ahead(Tail(todo[r]), {"rename"}),
                        ~Ahead(Tail(todo[r]), {"delPeer"})
                 PROVE  \A e \in Ends :
                         link'[e] # NoLink => ~(link'[e].ns = call[r].ns /\ link'[e].name = call[r].peer)
    BY <1>2, FreeAfter
  <2>2. Op(r) # "delPeer" => Found(call[r].ns, call[r].peer) = {}
    BY <1>1, <1>4, <2>1 DEF PeerFree
  <2>3. CASE KeepsLinks(r)
    <3>1. Op(r) # "delPeer" /\ link' = link
      BY <1>1, <2>3 DEF KeepsLinks, Deletes
    <3>2. QED
      BY <2>2, <3>1 DEF Found
  <2>4. CASE DeletesLinks(r)
    <3>1. \A e \in Ends : link'[e] = link[e] \/ link'[e] = NoLink
      BY <2>4, DeletesType, FoundByEnds DEF DeletesLinks
    <3>2. Op(r) = "delPeer" => FoundBy(r) = Found(call[r].ns, call[r].peer)
      BY DEF FoundBy, Place, Op
    <3>3. \A e \in Found(call[r].ns, call[r].peer) : link'[e] = NoLink
      BY <2>2, <2>4, <3>2, DeletedFree
    <3>4. QED
      BY <3>1, <3>3, FewerFound
  <2>5. ASSUME NEW o \in Pairs, NEW where, NEW name, AddsPair(r, o, where, name)
        PROVE  \A e \in Ends :
                 link'[e] # NoLink =>
                   ~(link'[e].ns = call[r].ns /\ link'[e].name = call[r].peer)
    <3>1. /\ link'[HostOf(o)] = Fresh(Host, call[r].host) /\ link'[PeerOf(o)] = Fresh(where, name)
          /\ where \in Named \cup {Host} /\ name \in Ifnames
          /\ \A e \in Ends : e # HostOf(o) /\ e # PeerOf(o) => link'[e] = link[e]
      BY <2>5, AddsType
    <3>2. Op(r) \in {"add", "addPeer", "addInNs"} /\ AddsAt(r, where, name)
      BY <2>5 DEF AddsPair, AddsAt
    <3>3. Op(r) # "addInNs"
      <4>1. Op(r) = "addInNs" => ~Ahead(Tail(todo[r]), {"rename"}) /\ ~Ahead(Tail(todo[r]), Adds)
        BY <1>2, NextFacts DEF Adds
      <4>2. QED
        BY <2>1, <4>1
    <3>4. where = Host /\ Found(call[r].ns, call[r].peer) = {}
      BY <2>2, <3>2, <3>3 DEF AddsAt
    <3>5. link'[HostOf(o)].ns = Host /\ link'[PeerOf(o)].ns = Host
      <4>1. Host \in Named \cup {Host} /\ call[r].host \in Ifnames
        BY <1>2, LinksFacts
      <4>2. QED
        BY <3>1, <3>4, <4>1, LinksFacts
    <3>6. QED
      BY <1>3, <3>1, <3>4, <3>5 DEF Found
  <2>6. CASE AltersEnd(r)
    <3>1. Op(r) \in Alters
      BY <2>6 DEF AltersEnd
    <3>2. PICK e \in Ends, l \in Links :
            /\ e = Subject(r) /\ link[e] \in Links /\ link' = [link EXCEPT ![e] = l]
            /\ Op(r) = "move" => l = Fresh(call[r].ns, link[e].name)
            /\ Op(r) \notin {"move", "rename"} => l.ns = link[e].ns /\ l.name = link[e].name
      BY <2>6, AltersType
    <3>3. Op(r) # "delPeer" /\ Op(r) \in Work
      BY <3>1 DEF Alters, Work
    <3>4. ~Ahead(todo[r], Adds) /\ Ahead(Tail(todo[r]), {"rename"}) /\ Ahead(todo[r], {"rename"})
      BY <1>2, <1>4, <2>1, <3>3, NextFacts
    <3>5. Op(r) # "rename"
      BY <1>2, <3>4, NextFacts
    <3>6. Found(call[r].ns, call[r].peer) = {}
      BY <2>2, <3>3
    <3>7. ~(l.ns = call[r].ns /\ l.name = call[r].peer)
      <4>1. CASE Op(r) = "move"
        <5>1. Owns(r)
          BY <3>3, WorkOwns
        <5>2. PICK p \in Pairs : Stage(r, p)
          BY <5>1 DEF Staged, Owners
        <5>3. Subject(r) = PeerOf(p) /\ link[PeerOf(p)].name = Temp(call[r].host)
          BY <1>1, <3>1, <3>4, <4>1, <5>1, <5>2, OwnSubject DEF Stage, PeerStands
        <5>4. l.name = link[e].name
          BY <1>3, <3>2, <4>1, LinksFacts
        <5>5. QED
          BY <1>3, <3>2, <5>3, <5>4, NamesAssumption
      <4>2. CASE Op(r) # "move"
        <5>1. link[e] # NoLink /\ l.ns = link[e].ns /\ l.name = link[e].name
          BY <3>2, <3>5, <4>2, LinksFacts
        <5>2. QED
          BY <3>6, <5>1 DEF Found
      <4>3. QED
        BY <4>1, <4>2
    <3>8. QED
      BY <3>2, <3>6, <3>7 DEF Found, Base, Typed
  <2>7. QED
    BY <2>3, <2>4, <2>5, <2>6, LinkMoves
<1>8. QED
  BY <1>5, <1>6, <1>7

\* Where nothing but promised pairs stands, names that are promised to nobody are
\* free.
LEMMA AcceptsDue ==
  ASSUME Base, StagedInv, GivenWhole, RetryHeld(setting),
         NEW r \in Requests, NEW c \in Calls, Accept(r, c), due'[r]
  PROVE  Due(r)'
<1>1. /\ \A q \in Requests : call[q] = NoCall
      /\ calm /\ (setting.server \in Replaces \/ NamesFree(c))
  BY DEF Accept
<1>2. /\ call'[r] = c /\ todo'[r] = Mine /\ ok'[r] = TRUE /\ calm' = calm /\ link' = link
      /\ setting' = setting /\ Mine \in Seq(ScriptCall) /\ c # NoCall
      /\ \A q \in Requests \ {r} : call'[q] = NoCall
  BY <1>1, AcceptsType, MineFacts, LinksFacts, ZenonT(30) DEF Base
<1>3. CASE setting.server \in Replaces
  <2>1. Clears(Mine) /\ setting.server # "Joseng8908"
    BY <1>3, ScriptFacts DEF Mine, Replaces
  <2>2. Ahead(Mine, {"delHost"}) /\ Ahead(Mine, {"delPeer"})
    BY <2>1 DEF Clears, Ahead
  <2>3. QED
    BY <1>1, <1>2, <2>1, <2>2 DEF Due, HostFree, PeerFree, PeerFreeHere
<1>4. CASE setting.server \notin Replaces
  <2>1. Tidies(setting) /\ Held(setting) /\ NamesFree(c)
    BY <1>1, <1>4 DEF RetryHeld
  <2>2. NoStray /\ GivenThere
    BY <2>1 DEF StagedInv, Staged
  <2>3. \A e \in Ends : link[e] # NoLink => e \in given
    <3>1. SUFFICES ASSUME NEW e \in Ends, link[e] # NoLink PROVE e \in given
      OBVIOUS
    <3>2. PICK p \in Pairs : e = HostOf(p) \/ e = PeerOf(p)
      BY <3>1, EndsFacts
    <3>3. link[HostOf(p)] # NoLink /\ OtherEnd(HostOf(p)) = PeerOf(p)
      BY <3>1, <3>2, EndsFacts DEF Base, Paired
    <3>4. HostOf(p) \in given
      BY <1>1, <2>2, <3>3 DEF NoStray, Owns
    <3>5. QED
      BY <2>2, <3>2, <3>3, <3>4 DEF GivenThere
  <2>4. Found(Host, c.host) = {} /\ Found(c.ns, c.peer) = {}
    BY <2>1, <2>3 DEF NamesFree, Found
  <2>5. setting.server = "Joseng8908" => Found(Host, c.peer) = {}
    <3>1. SUFFICES ASSUME setting.server = "Joseng8908", NEW e \in Found(Host, c.peer)
                   PROVE  FALSE
      OBVIOUS
    <3>2. e \in Ends /\ link[e] # NoLink /\ link[e].ns = Host /\ link[e].name = c.peer
      BY <3>1 DEF Found
    <3>3. Complete(e) /\ c.peer \notin Hosts
      BY <2>3, <3>1, <3>2, LinksFacts DEF GivenWhole, RetryHeld
    <3>4. PICK d \in Calls : e \in Made(d) \/ OtherEnd(e) \in Made(d)
      BY <3>3 DEF Complete
    <3>5. d.host \in Hosts /\ d.ns # Host
      BY LinksFacts, NamespacesAssumption
    <3>6. CASE e \in Made(d)
      BY <3>2, <3>3, <3>5, <3>6 DEF Made, HostEnd
    <3>7. CASE OtherEnd(e) \in Made(d)
      BY <3>2, <3>5, <3>7, EndsFacts DEF Made, PeerEnd
    <3>8. QED
      BY <3>4, <3>6, <3>7
  <2>6. HostFree(r)' /\ PeerFree(r)' /\ PeerFreeHere(r)'
    BY <1>2, <2>4, <2>5 DEF HostFree, PeerFree, PeerFreeHere, Found
  <2>7. QED
    BY <1>1, <1>2, <2>6 DEF Due
<1>5. QED
  BY <1>3, <1>4

LEMMA DueInductive ==
  ASSUME Base, Apart, StagedInv, GivenWhole, RetryHeld(setting),
         \A r \in Requests : Due(r), [CheckNext]_checkedVars, NEW r \in Requests
  PROVE  Due(r)'
<1>1. Staged /\ Due(r) /\ MoveFree(r) /\ Held(setting)
  BY DEF StagedInv, RetryHeld
<1> SUFFICES ASSUME due'[r] PROVE Due(r)'
  BY DEF Due
<1>2. ASSUME NEW q \in Requests, Makes(q) PROVE Due(r)'
  <2>1. call' = call /\ calm' = calm /\ due[r] /\ call[q] # NoCall
    BY <1>2, MakesFrame, MakesCall, LinksFacts
  <2>2. q = r
    BY <1>1, <2>1 DEF Due
  <2>3. GoesOn(r) /\ ok[r] /\ ok' = ok
    BY <1>1, <1>2, <2>1, <2>2, DueGoesOn DEF GoesOn
  <2>4. HostFree(r)' /\ PeerFree(r)' /\ PeerFreeHere(r)'
    BY <1>1, <1>2, <2>1, <2>2, <2>3, DueFree
  <2>5. QED
    BY <1>1, <2>1, <2>3, <2>4 DEF Due
<1>3. ASSUME NEW q \in Requests, Answer(q) PROVE Due(r)'
  <2>1. q # r /\ due'[r] = due[r] /\ call[q] \in Calls
    BY <1>3, AnswersType
  <2>2. QED
    BY <1>1, <2>1, LinksFacts DEF Due
<1>4. ASSUME NEW q \in Requests, NEW c \in Calls, Accept(q, c) PROVE Due(r)'
  <2>1. q = r
    BY <1>4 DEF Accept
  <2>2. QED
    BY <1>4, <2>1, AcceptsDue
<1>5. ASSUME NEW e \in Ends, TakenDown(e) PROVE Due(r)'
  BY <1>1, <1>5, TakesDownType DEF Due, requestVars
<1>6. CASE Calm
  BY <1>1, <1>6 DEF Calm, requestVars, Due
<1>7. CASE Sees
  BY <1>1, <1>7 DEF Sees, requestVars, Due, HostFree, PeerFree, PeerFreeHere, Found
<1>8. QED
  BY <1>2, <1>3, <1>4, <1>5, <1>6, <1>7, StepCases

\* Once the kernel refuses nothing, a request that comes alone, for names nobody was
\* promised where the server does not replace, succeeds, whatever failed requests
\* have left.
THEOREM RetriesSucceed ==
  (\A w \in Settings : RetryHeld(w)) => (CheckSpec => []RetrySucceeds)
<1> SUFFICES ASSUME \A w \in Settings : RetryHeld(w)
             PROVE  CheckSpec => []RetrySucceeds
  OBVIOUS
<1> DEFINE Ready == GivenWhole /\ \A r \in Requests : Due(r)
<1>1. CheckInit => Apart /\ Ready
  BY EndsFacts DEF CheckInit, Init, Apart, HostApart, PeerApart, LocalApart, GivenWhole, Due
<1>2. Base /\ CheckTypeOK /\ Apart /\ [CheckNext]_checkedVars => Apart'
  BY ApartInductive DEF CheckTypeOK
<1>3. Base /\ Apart /\ StagedInv /\ Ready /\ [CheckNext]_checkedVars => Ready'
  <2> SUFFICES ASSUME Base, Apart, StagedInv, Ready, [CheckNext]_checkedVars
               PROVE  Ready'
    OBVIOUS
  <2>1. RetryHeld(setting) /\ Held(setting)
    BY DEF Base, Typed, RetryHeld
  <2>2. QED
    BY <2>1, GivenWholeInductive, DueInductive
<1>4. Ready => RetrySucceeds
  BY DEF Due, RetrySucceeds
<1>5. QED
  BY <1>1, <1>2, <1>3, <1>4, BaseHolds, CheckTyped, StagedHolds, PTL DEF CheckSpec
=============================================================================

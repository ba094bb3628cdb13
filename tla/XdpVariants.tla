---------------------------- MODULE XdpVariants -----------------------------
(***************************************************************************)
(* The other three week 3 servers.  gpffh20 and Joseng8908 load a program  *)
(* and a map for each interface and keep them in a table of names; the     *)
(* first holds its mutex through every request, the second only through    *)
(* Attach and, for Block and Clear, while it reads the table.  statsops    *)
(* keeps no table and takes no lock: it loads one program and one map when *)
(* it starts, asks the kernel for the interface in every request and       *)
(* attaches by netlink, so that a program outlives the process.            *)
(*                                                                         *)
(* A map entry is <<index, address>>: in the first two, the address in the *)
(* map of that interface's program; in the third, the key itself.          *)
(***************************************************************************)
EXTENDS XdpKernel, FiniteSets

CONSTANTS
  IPs, Requests,
  MaxEntries,   \* max_entries of a map
  NoCall, Free,
  Settings      \* which server runs, and what happens around it

Servers == {"gpffh20", "Joseng8908", "statsops"}
ASSUME SettingsAssumption ==
  Settings \subseteq [server : Servers, restarts : BOOLEAN, churn : BOOLEAN]

VARIABLES
  setting,    \* the member of Settings this behaviour is of; never changes
  blockedIps, \* the maps of this process
  orphans,    \* interfaces with a program of a process that has ended
  frozen,     \* the maps those programs read, which nobody else can reach
  ifaces,     \* the table: name -> index of the attach, or NoDev
  mu,         \* who holds the mutex
  pc, call,
  target,     \* request -> the interface it works on
  pending,    \* request -> entries its iteration has still to pass
  keys,       \* request -> entries it has collected and not deleted
  puts,       \* request -> entries put since it came (history)
  answer

serverVars == <<setting, ifaces, mu>>
mapVars == <<blockedIps, orphans, frozen>>
requestVars == <<pc, call, target, pending, keys, puts, answer>>
vars == <<kernelVars, serverVars, mapVars, requestVars>>

Keys == Ifindex \X IPs
Calls == [op : {"attach", "clear"}, name : Names] \cup
         [op : {"block"}, name : Names, ip : IPs]
ASSUME NoCallAssumption == NoCall \notin Calls

TypeOK ==
  /\ KernelTypeOK
  /\ setting \in Settings
  /\ blockedIps \in SUBSET Keys /\ frozen \in SUBSET Keys
  /\ orphans \in SUBSET Ifindex /\ orphans \cap progs = {}
  /\ ifaces \in [Names -> Ifindex \cup {NoDev}]
  /\ mu \in Requests \cup {Free}
  /\ pc \in [Requests -> {"idle", "find", "lock", "attach", "block", "clear",
                          "iterate", "delete"}]
  /\ call \in [Requests -> Calls \cup {NoCall}]
  /\ target \in [Requests -> Ifindex \cup {NoDev}]
  /\ pending \in [Requests -> SUBSET Keys]
  /\ keys \in [Requests -> SUBSET Keys]
  /\ puts \in [Requests -> SUBSET Keys]
  /\ answer \in [Requests -> {"none", "ok", "error"}]

-----------------------------------------------------------------------------
Stateless == setting.server = "statsops"

\* Requests that hold the mutex while they work.
Exclusive(op) == setting.server = "gpffh20" \/ (op = "attach" /\ ~Stateless)

Carrying == progs \cup orphans

AllKeys(i) == blockedIps   \* defect: the index is not compared
KeysOf(i) == {k \in blockedIps : k[1] = i}

\* The entries that count towards max_entries.
SameMap(i) == IF Stateless THEN blockedIps ELSE KeysOf(i)

At(r, place, op) == pc[r] = place /\ call[r].op = op

\* The handler returns, having put the entries new.
ReturnHaving(r, a, new) ==
  /\ pc' = [pc EXCEPT ![r] = "idle"]
  /\ call' = [call EXCEPT ![r] = NoCall]
  /\ target' = [target EXCEPT ![r] = NoDev]
  /\ pending' = [pending EXCEPT ![r] = {}]
  /\ keys' = [keys EXCEPT ![r] = {}]
  /\ puts' = [q \in Requests |-> IF q = r \/ call[q] = NoCall THEN {}
                                ELSE puts[q] \cup new]
  /\ answer' = [answer EXCEPT ![r] = a]
  /\ mu' = IF mu = r THEN Free ELSE mu
  /\ UNCHANGED setting
Return(r, a) == ReturnHaving(r, a, {})

Goes(r, place) == pc' = [pc EXCEPT ![r] = place] /\ UNCHANGED <<call, answer>>

UnchangedMaps == UNCHANGED mapVars
UnchangedIteration == UNCHANGED <<pending, keys, puts>>

-----------------------------------------------------------------------------
(* A request finds its interface *)

Accept(r, c) ==
  /\ pc[r] = "idle"
  /\ pc' = [pc EXCEPT ![r] = IF c.op = "attach" \/ Stateless THEN "find" ELSE "lock"]
  /\ call' = [call EXCEPT ![r] = c]
  /\ answer' = [answer EXCEPT ![r] = "none"]
  /\ UNCHANGED <<kernelVars, serverVars, mapVars, target, pending, keys, puts>>

\* Method, body, name or address are not as they should be.
Reject(r) ==
  /\ pc[r] = "idle"
  /\ answer' = [answer EXCEPT ![r] = "error"]
  /\ UNCHANGED <<kernelVars, serverVars, mapVars, pc, call, target, pending, keys, puts>>

\* statsops blocks on an interface that carries a program, whosever it is.
Usable(r) ==
  /\ dev[call[r].name] # NoDev
  /\ call[r].op = "block" => dev[call[r].name] \in Carrying

Find(r) ==
  /\ pc[r] = "find" /\ Usable(r)
  /\ target' = [target EXCEPT ![r] = dev[call[r].name]]
  /\ Goes(r, IF Stateless THEN call[r].op ELSE "lock")
  /\ UNCHANGED <<kernelVars, serverVars>> /\ UnchangedMaps /\ UnchangedIteration

FindNothing(r) ==
  /\ pc[r] = "find" /\ ~Usable(r)
  /\ Return(r, "error")
  /\ UNCHANGED <<kernelVars, ifaces>> /\ UnchangedMaps

\* Block and Clear take the entry of the table.
TakeEntry(r) ==
  /\ pc[r] = "lock" /\ mu = Free /\ call[r].op # "attach"
  /\ ifaces[call[r].name] # NoDev
  /\ target' = [target EXCEPT ![r] = ifaces[call[r].name]]
  /\ mu' = IF Exclusive(call[r].op) THEN r ELSE mu
  /\ Goes(r, call[r].op)
  /\ UNCHANGED <<kernelVars, setting, ifaces>> /\ UnchangedMaps /\ UnchangedIteration

RefuseUnattached(r) ==
  /\ pc[r] = "lock" /\ mu = Free /\ call[r].op # "attach"
  /\ ifaces[call[r].name] = NoDev
  /\ Return(r, "error")
  /\ UNCHANGED <<kernelVars, ifaces>> /\ UnchangedMaps

-----------------------------------------------------------------------------
(* Attach *)

AttachAgain(r) ==
  /\ At(r, "lock", "attach") /\ mu = Free
  /\ ifaces[call[r].name] # NoDev
  /\ Return(r, "ok")
  /\ UNCHANGED <<kernelVars, ifaces>> /\ UnchangedMaps

LoadObjects(r) ==
  /\ At(r, "lock", "attach") /\ mu = Free
  /\ ifaces[call[r].name] = NoDev
  /\ mu' = r
  /\ Goes(r, "attach")
  /\ UNCHANGED <<kernelVars, setting, ifaces, target>>
  /\ UnchangedMaps /\ UnchangedIteration

\* A BPF link wants an interface without a program; netlink replaces the one
\* there is.
CanAttachNow(i) == IF Stateless THEN i \in Devices ELSE CanAttach(i)

Attach(r) ==
  /\ pc[r] = "attach" /\ CanAttachNow(target[r])
  /\ progs' = progs \cup {target[r]}
  /\ orphans' = orphans \ {target[r]}
  /\ frozen' = {k \in frozen : k[1] # target[r]}
  /\ ifaces' = IF Stateless THEN ifaces
               ELSE [ifaces EXCEPT ![call[r].name] = target[r]]
  /\ Return(r, "ok")
  /\ UNCHANGED <<dev, lastIfindex, blockedIps>>

\* defect: the error of AttachXDP is ignored
AttachFailsSilently(r) ==
  /\ pc[r] = "attach"
  /\ Return(r, "ok")
  /\ UNCHANGED <<kernelVars, ifaces>> /\ UnchangedMaps
\* The objects do not load, or the interface cannot have the program.
AttachFails(r) ==
  /\ pc[r] = "attach"
  /\ Return(r, "error")
  /\ UNCHANGED <<kernelVars, ifaces>> /\ UnchangedMaps

-----------------------------------------------------------------------------
(* Block *)

\* defect: the name is resolved again for the key
KeyByName(r) == <<dev[call[r].name], call[r].ip>>
KeyFor(r) == <<target[r], call[r].ip>>
Room(r) == KeyFor(r) \in blockedIps \/ Cardinality(SameMap(target[r])) < MaxEntries

\* The update and the answer are one step, so that a Block is answered at the moment
\* of its update: where no mutex is held, a Clear may undo it before the client has
\* the answer.
Put(r) ==
  /\ pc[r] = "block" /\ Room(r)
  /\ blockedIps' = blockedIps \cup {KeyFor(r)}
  /\ ReturnHaving(r, "ok", {KeyFor(r)})
  /\ UNCHANGED <<kernelVars, ifaces, orphans, frozen>>

\* defect: the error of Put is ignored
PutFailsSilently(r) ==
  /\ pc[r] = "block" /\ ~Room(r)
  /\ Return(r, "ok")
  /\ UNCHANGED <<kernelVars, ifaces>> /\ UnchangedMaps
PutFails(r) ==
  /\ pc[r] = "block" /\ ~Room(r)
  /\ Return(r, "error")
  /\ UNCHANGED <<kernelVars, ifaces>> /\ UnchangedMaps

-----------------------------------------------------------------------------
(* Clear *)

Iterate(r) ==
  /\ pc[r] = "clear"
  /\ pending' = [pending EXCEPT ![r] = KeysOf(target[r])]
  /\ Goes(r, "iterate")
  /\ UNCHANGED <<kernelVars, serverVars, target, keys, puts>> /\ UnchangedMaps

\* An entry put meanwhile may be met as well.
Visit(r, k) ==
  /\ pc[r] = "iterate" /\ k \in KeysOf(target[r]) \ keys[r]
  /\ keys' = [keys EXCEPT ![r] = @ \cup {k}]
  /\ pending' = [pending EXCEPT ![r] = @ \ {k}]
  /\ UNCHANGED <<kernelVars, serverVars, mapVars, pc, call, target, puts, answer>>

\* defect: entries are deleted while the iteration goes on, which may skip some
IteratedLoosely(r) ==
  /\ pc[r] = "iterate"
  /\ Goes(r, "delete")
  /\ pending' = [pending EXCEPT ![r] = {}]
  /\ UNCHANGED <<kernelVars, serverVars, target, keys, puts>> /\ UnchangedMaps
Iterated(r) ==
  /\ pc[r] = "iterate" /\ pending[r] = {}
  /\ Goes(r, "delete")
  /\ UNCHANGED <<kernelVars, serverVars, target>>
  /\ UnchangedMaps /\ UnchangedIteration

\* The kernel refuses a step, or another Clear deletes the entry the iteration
\* stands on (in the one map of statsops, of whatever interface): it starts over and
\* gives up after as many steps as the map has entries.
IterationAborted(r) ==
  /\ pc[r] = "iterate"
  /\ Return(r, "error")
  /\ UNCHANGED <<kernelVars, ifaces>> /\ UnchangedMaps

\* An entry that is gone already is no error.
Delete(r, k) ==
  /\ pc[r] = "delete" /\ k \in keys[r]
  /\ blockedIps' = blockedIps \ {k}
  /\ keys' = [keys EXCEPT ![r] = @ \ {k}]
  /\ pending' = [q \in Requests |-> pending[q] \ {k}]
  /\ UNCHANGED <<kernelVars, serverVars, orphans, frozen, pc, call, target, puts, answer>>

\* Another error ends the request with part of its entries deleted.  Joseng8908
\* ignores it; there a delete is taken to fail for a missing entry only.
DeleteFails(r) ==
  /\ pc[r] = "delete" /\ keys[r] # {}
  /\ setting.server # "Joseng8908"
  /\ Return(r, "error")
  /\ UNCHANGED <<kernelVars, ifaces>> /\ UnchangedMaps

Cleared(r) ==
  /\ pc[r] = "delete" /\ keys[r] = {}
  /\ Return(r, "ok")
  /\ UNCHANGED <<kernelVars, ifaces>> /\ UnchangedMaps

-----------------------------------------------------------------------------
(* The process and the interfaces *)

\* A process ends, by a signal or a kill, whatever its requests are at, and a new
\* one starts.  Links and their maps go with it; what netlink attached stays.
Restart ==
  /\ setting.restarts
  /\ orphans' = IF Stateless THEN Carrying ELSE {}
  /\ frozen' = IF Stateless THEN frozen \cup {k \in blockedIps : k[1] \in progs} ELSE {}
  /\ progs' = {} /\ blockedIps' = {}
  /\ ifaces' = [n \in Names |-> NoDev] /\ mu' = Free
  /\ pc' = [r \in Requests |-> "idle"]
  /\ call' = [r \in Requests |-> NoCall]
  /\ target' = [r \in Requests |-> NoDev]
  /\ pending' = [r \in Requests |-> {}]
  /\ keys' = [r \in Requests |-> {}]
  /\ puts' = [r \in Requests |-> {}]
  /\ answer' = [r \in Requests |-> "none"]
  /\ UNCHANGED <<setting, dev, lastIfindex>>

DeviceStep ==
  /\ IF setting.churn THEN DeviceChange ELSE \E n \in Names : CreateDevice(n)
  /\ orphans' = orphans \cap Devices'
  /\ frozen' = {k \in frozen : k[1] \in orphans'}
  /\ UNCHANGED <<serverVars, blockedIps, requestVars>>

Init ==
  /\ setting \in Settings
  /\ KernelInit
  /\ blockedIps = {} /\ orphans = {} /\ frozen = {}
  /\ ifaces = [n \in Names |-> NoDev] /\ mu = Free
  /\ pc = [r \in Requests |-> "idle"]
  /\ call = [r \in Requests |-> NoCall]
  /\ target = [r \in Requests |-> NoDev]
  /\ pending = [r \in Requests |-> {}]
  /\ keys = [r \in Requests |-> {}]
  /\ puts = [r \in Requests |-> {}]
  /\ answer = [r \in Requests |-> "none"]

Step(r) ==
  \/ Find(r) \/ FindNothing(r) \/ TakeEntry(r) \/ RefuseUnattached(r)
  \/ AttachAgain(r) \/ LoadObjects(r) \/ Attach(r) \/ AttachFails(r)
  \/ Put(r) \/ PutFails(r)
  \/ Iterate(r) \/ Iterated(r) \/ IterationAborted(r)
  \/ DeleteFails(r) \/ Cleared(r)
  \/ \E k \in Keys : Visit(r, k) \/ Delete(r, k)

Next ==
  \/ \E r \in Requests : Step(r) \/ Reject(r) \/ \E c \in Calls : Accept(r, c)
  \/ Restart \/ DeviceStep

Spec == Init /\ [][Next]_vars

-----------------------------------------------------------------------------
(* Properties.  The interfaces of a setting without churn appear and stay, as *)
(* in a scenario of the checker.                                              *)

Dropped(i, ip) ==
  \/ i \in progs /\ <<i, ip>> \in blockedIps
  \/ i \in orphans /\ <<i, ip>> \in frozen

AnsweredOk(r, op) ==
  call[r] # NoCall /\ call[r].op = op /\ call'[r] = NoCall /\ answer'[r] = "ok"

\* When Clear answers, an address is dropped on its interface only if some Block
\* put it there after the Clear came (03-week/README.md 4.4, 4.6), whatever other
\* Blocks and Clears did to the map under its iteration.
ClearFlushes ==
  [][\A r \in Requests, i \in Ifindex, ip \in IPs :
       AnsweredOk(r, "clear") /\ target[r] = i /\ Dropped(i, ip)' =>
         <<i, ip>> \in puts[r]]_vars

\* While an interface keeps a program, an address starts or stops being dropped
\* on it only by a step of a Block or Clear that works on it and that, when
\* interfaces stay, was sent with its name (3.8, 4.7).
Isolation ==
  [][\A i \in Carrying \cap Carrying', ip \in IPs :
       Dropped(i, ip)' # Dropped(i, ip) =>
         \E r \in Requests :
           /\ call[r] # NoCall /\ call[r].op \in {"block", "clear"}
           /\ target[r] = i
           /\ pc'[r] # pc[r] \/ keys'[r] # keys[r]
           /\ ~setting.churn => dev[call[r].name] = i]_vars

\* When Attach answers, the interface bearing the name carries the program (2.7).
AttachTruthful ==
  [][\A r \in Requests :
       ~setting.churn /\ AnsweredOk(r, "attach") =>
         dev[call[r].name] \in progs']_vars

\* When Block answers, its address is dropped on the interface bearing the name
\* (3.6, 5.3).
BlockEffective ==
  [][\A r \in Requests, i \in Ifindex, ip \in IPs :
       /\ ~setting.churn /\ AnsweredOk(r, "block")
       /\ dev[call[r].name] = i /\ call[r].ip = ip
       => Dropped(i, ip)']_vars
=============================================================================

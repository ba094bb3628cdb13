----------------------------- MODULE XdpService -----------------------------
(***************************************************************************)
(* The week 3 server of 03-week/WAFriend3416: HTTP handlers that attach an  *)
(* XDP program to an interface, block source addresses on it and clear      *)
(* them, the mutex and the bookkeeping they share, the BPF map the program  *)
(* reads, and the shutdown of the process.                                  *)
(*                                                                          *)
(* A request is a goroutine of net/http.  A step of a request is what it    *)
(* does between two points where others can act: the interface lookup,      *)
(* which precedes the lock, each entry into the critical section, and each  *)
(* system call made inside it that packets can observe.                     *)
(***************************************************************************)
EXTENDS XdpKernel, FiniteSets

CONSTANTS
  IPs,          \* IPv4 source addresses
  Requests,     \* handler goroutines
  MaxEntries,   \* max_entries of the blocked_ips map
  BadName,      \* stands for every name validateIfName refuses
  NoIP, NoCall, \* no address, no call
  Free, Closer  \* the mutex when nobody holds it, when Close holds it

ASSUME MaxEntriesAssumption == MaxEntries \in Nat
ASSUME NamesAssumption == BadName \notin Names
ASSUME NoIPAssumption == NoIP \notin IPs
ASSUME HoldersAssumption == {Free, Closer} \cap Requests = {} /\ Free # Closer

VARIABLES
  attachments,  \* attachments: name -> ifindex of the attach, or NoDev
  loaded,       \* objects # nil
  blockedIps,   \* the keys of the blocked_ips map; the value means nothing
  mu,           \* holder of the mutex
  phase,        \* where main is
  pc,           \* request -> where its handler is
  call,         \* request -> what it asks, or NoCall
  iface,        \* Attach's local: the index InterfaceByName returned
  keys,         \* Clear's local: what keysForInterface collected
  left,         \* Clear's local: the collected keys not deleted yet
  answer        \* request -> the answer it got

serviceVars == <<attachments, loaded, blockedIps>>
requestVars == <<pc, call, iface, keys, left, answer>>
vars == <<kernelVars, serviceVars, mu, phase, requestVars>>

Keys == Ifindex \X IPs
Texts == [form : {"ipv4", "mapped", "ipv6"}, ip : IPs]
Calls ==
       [op : {"attach", "clear"}, name : Names, ip : {NoIP}]
  \cup [op : {"block"}, name : Names, ip : IPs]
ASSUME NoCallAssumption == NoCall \notin Calls
Answers == {"none", "ok", "rejected", "failed"}
Phases == {"serving", "shutdown", "closing", "closed", "exited"}

TypeOK ==
  /\ KernelTypeOK
  /\ attachments \in [Names -> Ifindex \cup {NoDev}]
  /\ loaded \in BOOLEAN
  /\ blockedIps \in SUBSET Keys
  /\ mu \in Requests \cup {Free, Closer}
  /\ phase \in Phases
  /\ pc \in [Requests -> {"idle", "lookup", "lock", "attach", "delete"}]
  /\ call \in [Requests -> Calls \cup {NoCall}]
  /\ iface \in [Requests -> Ifindex \cup {NoDev}]
  /\ keys \in [Requests -> SUBSET Keys]
  /\ left \in [Requests -> SUBSET Keys]
  /\ answer \in [Requests -> Answers]

-----------------------------------------------------------------------------
(* Helpers of the handlers. *)

ValidateIfName(n) == n \in Names

\* An IPv4-mapped IPv6 text denotes the IPv4 address; other IPv6 is refused.
ParseIPv4(t) == IF t.form \in {"ipv4", "mapped"} THEN t.ip ELSE NoIP

\* The bodies the handlers decode: malformed methods, paths and bodies are
\* refused like a bad name, before the service is called.
Messages ==
       [op : {"attach", "clear"}, name : Names \cup {BadName}]
  \cup [op : {"block"}, name : Names \cup {BadName}, addr : Texts]

CallOf(m) ==
  [op |-> m.op, name |-> m.name,
   ip |-> IF m.op = "block" THEN ParseIPv4(m.addr) ELSE NoIP]

Valid(m) ==
  /\ ValidateIfName(m.name)
  /\ m.op = "block" => ParseIPv4(m.addr) # NoIP

\* The calls that reach the service.
ValidCalls == {CallOf(m) : m \in {v \in Messages : Valid(v)}}

Attached(n) == attachments[n] # NoDev

AllKeys(i) == blockedIps   \* defect: the ifindex filter is forgotten
KeysForInterface(i) == {k \in blockedIps : k[1] = i}

NoLock == TRUE             \* defect: the critical section is not locked
LockFree == mu = Free
Alive == phase # "exited"

\* The handler returns: it answers and its locals are gone.
Return(r, a) ==
  /\ pc' = [pc EXCEPT ![r] = "idle"]
  /\ call' = [call EXCEPT ![r] = NoCall]
  /\ iface' = [iface EXCEPT ![r] = NoDev]
  /\ keys' = [keys EXCEPT ![r] = {}]
  /\ left' = [left EXCEPT ![r] = {}]
  /\ answer' = [answer EXCEPT ![r] = a]

At(r, place, op) == pc[r] = place /\ call[r].op = op

-----------------------------------------------------------------------------
(* Requests arrive: Shutdown closes the listener and the idle connections, but *)
(* a connection accepted just before still gets its handler.                   *)

Accept(r, c) ==
  /\ Alive
  /\ pc[r] = "idle"
  /\ pc' = [pc EXCEPT ![r] = IF c.op = "attach" THEN "lookup" ELSE "lock"]
  /\ call' = [call EXCEPT ![r] = c]
  /\ answer' = [answer EXCEPT ![r] = "none"]
  /\ UNCHANGED <<kernelVars, serviceVars, mu, phase, iface, keys, left>>

Reject(r) ==
  /\ Alive
  /\ pc[r] = "idle"
  /\ \E m \in Messages : ~Valid(m)
  /\ answer' = [answer EXCEPT ![r] = "rejected"]
  /\ UNCHANGED <<kernelVars, serviceVars, mu, phase, pc, call, iface, keys, left>>

-----------------------------------------------------------------------------
(* Attach *)

\* net.InterfaceByName, before the lock is taken.
LookupFound(r) ==
  /\ At(r, "lookup", "attach")
  /\ dev[call[r].name] # NoDev
  /\ iface' = [iface EXCEPT ![r] = dev[call[r].name]]
  /\ pc' = [pc EXCEPT ![r] = "lock"]
  /\ UNCHANGED <<kernelVars, serviceVars, mu, phase, call, keys, left, answer>>

LookupMissing(r) ==
  /\ At(r, "lookup", "attach")
  /\ dev[call[r].name] = NoDev
  /\ Return(r, "rejected")
  /\ UNCHANGED <<kernelVars, serviceVars, mu, phase>>

\* The name is in the table: success, whatever the interface is by now.
AttachAgain(r) ==
  /\ At(r, "lock", "attach") /\ LockFree
  /\ Attached(call[r].name)
  /\ Return(r, "ok")
  /\ UNCHANGED <<kernelVars, serviceVars, mu, phase>>

\* ensureObjects: load program and map at the first attach.
EnsureObjects(r) ==
  /\ At(r, "lock", "attach") /\ LockFree
  /\ ~Attached(call[r].name)
  /\ mu' = r
  /\ loaded' = TRUE
  /\ pc' = [pc EXCEPT ![r] = "attach"]
  /\ UNCHANGED <<kernelVars, attachments, blockedIps, phase, call, iface, keys, left, answer>>

EnsureObjectsFails(r) ==
  /\ At(r, "lock", "attach") /\ LockFree
  /\ ~Attached(call[r].name)
  /\ ~loaded
  /\ Return(r, "failed")
  /\ UNCHANGED <<kernelVars, serviceVars, mu, phase>>

AttachXdp(r) ==
  /\ At(r, "attach", "attach")
  /\ CanAttach(iface[r])
  /\ progs' = progs \cup {iface[r]}
  /\ attachments' = [attachments EXCEPT ![call[r].name] = iface[r]]
  /\ mu' = Free
  /\ Return(r, "ok")
  /\ UNCHANGED <<dev, lastIfindex, loaded, blockedIps, phase>>

\* defect: the error path returns with the mutex held
AttachXdpFailsLocked(r) ==
  /\ At(r, "attach", "attach")
  /\ mu' = mu
  /\ Return(r, "failed")
  /\ UNCHANGED <<kernelVars, serviceVars, phase>>

\* defect: the error of AttachXDP is ignored
AttachXdpErrorIgnored(r) ==
  /\ At(r, "attach", "attach")
  /\ attachments' = [attachments EXCEPT ![call[r].name] = iface[r]]
  /\ mu' = Free
  /\ Return(r, "ok")
  /\ UNCHANGED <<kernelVars, loaded, blockedIps, phase>>

\* AttachXDP may also fail for reasons of the kernel's own (driver, memory).
AttachXdpFails(r) ==
  /\ At(r, "attach", "attach")
  /\ mu' = Free
  /\ Return(r, "failed")
  /\ UNCHANGED <<kernelVars, serviceVars, phase>>

-----------------------------------------------------------------------------
(* Block *)

\* defect: the key holds the interface that bears the name now
BlockKeyOfDevice(r) == <<dev[call[r].name], call[r].ip>>
BlockKey(r) == <<attachments[call[r].name], call[r].ip>>

\* The update and the answer are one step: the mutex is held until the answer, no
\* other request is between the two, and a kill loses the map with the answer.
BlockUpdate(r) ==
  /\ At(r, "lock", "block") /\ LockFree
  /\ Attached(call[r].name) /\ loaded
  /\ BlockKey(r) \in blockedIps \/ Cardinality(blockedIps) < MaxEntries
  /\ blockedIps' = blockedIps \cup {BlockKey(r)}
  /\ Return(r, "ok")
  /\ UNCHANGED <<kernelVars, attachments, loaded, mu, phase>>

\* defect: the error of Update is ignored
BlockMapFullIgnored(r) ==
  /\ At(r, "lock", "block") /\ LockFree
  /\ Attached(call[r].name) /\ loaded
  /\ BlockKey(r) \notin blockedIps /\ Cardinality(blockedIps) >= MaxEntries
  /\ Return(r, "ok")
  /\ UNCHANGED <<kernelVars, serviceVars, mu, phase>>

\* The map is full: Update answers E2BIG.
BlockMapFull(r) ==
  /\ At(r, "lock", "block") /\ LockFree
  /\ Attached(call[r].name) /\ loaded
  /\ BlockKey(r) \notin blockedIps /\ Cardinality(blockedIps) >= MaxEntries
  /\ Return(r, "failed")
  /\ UNCHANGED <<kernelVars, serviceVars, mu, phase>>

-----------------------------------------------------------------------------
(* Clear *)

ClearCollect(r) ==
  /\ At(r, "lock", "clear") /\ LockFree
  /\ Attached(call[r].name) /\ loaded
  /\ mu' = r
  /\ keys' = [keys EXCEPT ![r] = KeysForInterface(attachments[call[r].name])]
  /\ left' = [left EXCEPT ![r] = KeysForInterface(attachments[call[r].name])]
  /\ pc' = [pc EXCEPT ![r] = "delete"]
  /\ UNCHANGED <<kernelVars, serviceVars, phase, call, iface, answer>>

\* The iteration over the map fails.
ClearCollectFails(r) ==
  /\ At(r, "lock", "clear") /\ LockFree
  /\ Attached(call[r].name) /\ loaded
  /\ Return(r, "failed")
  /\ UNCHANGED <<kernelVars, serviceVars, mu, phase>>

ClearDelete(r, k) ==
  /\ At(r, "delete", "clear")
  /\ k \in left[r]
  /\ blockedIps' = blockedIps \ {k}
  /\ left' = [left EXCEPT ![r] = @ \ {k}]
  /\ UNCHANGED <<kernelVars, attachments, loaded, mu, phase, pc, call, iface, keys, answer>>

\* Delete fails for another reason than a missing key: the keys deleted so far
\* are gone, the rest stays.
ClearDeleteFails(r) ==
  /\ At(r, "delete", "clear")
  /\ left[r] # {}
  /\ mu' = Free
  /\ Return(r, "failed")
  /\ UNCHANGED <<kernelVars, serviceVars, phase>>

\* defect: the loop stops after its first key
ClearReturnEarly(r) ==
  /\ At(r, "delete", "clear")
  /\ left[r] = {} \/ left[r] # keys[r]
  /\ mu' = Free
  /\ Return(r, "ok")
  /\ UNCHANGED <<kernelVars, serviceVars, phase>>

ClearReturn(r) ==
  /\ At(r, "delete", "clear")
  /\ left[r] = {}
  /\ mu' = Free
  /\ Return(r, "ok")
  /\ UNCHANGED <<kernelVars, serviceVars, phase>>

-----------------------------------------------------------------------------
(* What Block and Clear have in common *)

RefuseUnattached(r) ==
  /\ pc[r] = "lock" /\ call[r].op \in {"block", "clear"} /\ LockFree
  /\ ~Attached(call[r].name)
  /\ Return(r, "rejected")
  /\ UNCHANGED <<kernelVars, serviceVars, mu, phase>>

-----------------------------------------------------------------------------
(* Shutdown: the signal makes Shutdown close the listener, ListenAndServe    *)
(* returns at once and main's deferred Close runs, handlers or no handlers.  *)

Signal ==
  /\ phase = "serving"
  /\ phase' = "shutdown"
  /\ UNCHANGED <<kernelVars, serviceVars, mu, requestVars>>

CloseEnter ==
  /\ phase = "shutdown" /\ LockFree
  /\ phase' = "closing"
  /\ mu' = Closer
  /\ UNCHANGED <<kernelVars, serviceVars, requestVars>>

CloseLink(n) ==
  /\ phase = "closing"
  /\ attachments[n] \in progs
  /\ progs' = progs \ {attachments[n]}
  /\ UNCHANGED <<dev, lastIfindex, serviceVars, mu, phase, requestVars>>

LinksIgnored == TRUE       \* defect: the table is emptied before its links are closed
LinksClosed == \A n \in Names : attachments[n] \notin progs

\* defect: the table is kept
CloseObjectsKeepsTable ==
  /\ phase = "closing"
  /\ LinksClosed
  /\ loaded' = FALSE
  /\ blockedIps' = {}
  /\ mu' = Free
  /\ phase' = "closed"
  /\ UNCHANGED <<kernelVars, attachments, requestVars>>

\* The table is emptied and the objects closed; the map goes with them.
CloseObjects ==
  /\ phase = "closing"
  /\ LinksClosed
  /\ attachments' = [n \in Names |-> NoDev]
  /\ loaded' = FALSE
  /\ blockedIps' = {}
  /\ mu' = Free
  /\ phase' = "closed"
  /\ UNCHANGED <<kernelVars, requestVars>>

\* The process ends.  The kernel closes its descriptors, which detaches every
\* program and frees the map; nothing of the service survives.
ProcessGone ==
  /\ progs' = {}
  /\ attachments' = [n \in Names |-> NoDev]
  /\ loaded' = FALSE
  /\ blockedIps' = {}
  /\ mu' = Free
  /\ phase' = "exited"
  /\ pc' = [r \in Requests |-> "idle"]
  /\ call' = [r \in Requests |-> NoCall]
  /\ iface' = [r \in Requests |-> NoDev]
  /\ keys' = [r \in Requests |-> {}]
  /\ left' = [r \in Requests |-> {}]
  /\ answer' = [r \in Requests |-> "none"]
  /\ UNCHANGED <<dev, lastIfindex>>

MainReturns == phase = "closed" /\ ProcessGone

Killed == Alive /\ ProcessGone

Restart ==
  /\ phase = "exited"
  /\ phase' = "serving"
  /\ UNCHANGED <<kernelVars, serviceVars, mu, requestVars>>

-----------------------------------------------------------------------------
Init ==
  /\ KernelInit
  /\ attachments = [n \in Names |-> NoDev]
  /\ loaded = FALSE
  /\ blockedIps = {}
  /\ mu = Free
  /\ phase = "serving"
  /\ pc = [r \in Requests |-> "idle"]
  /\ call = [r \in Requests |-> NoCall]
  /\ iface = [r \in Requests |-> NoDev]
  /\ keys = [r \in Requests |-> {}]
  /\ left = [r \in Requests |-> {}]
  /\ answer = [r \in Requests |-> "none"]

\* Everything a request does once it may hold the mutex.
LockStep(r) ==
  \/ AttachAgain(r)
  \/ EnsureObjects(r)
  \/ EnsureObjectsFails(r)
  \/ BlockUpdate(r)
  \/ BlockMapFull(r)
  \/ ClearCollect(r)
  \/ ClearCollectFails(r)
  \/ RefuseUnattached(r)

\* Everything it does without waiting for anybody.
OwnStep(r) ==
  \/ LookupFound(r)
  \/ LookupMissing(r)
  \/ AttachXdp(r)
  \/ AttachXdpFails(r)
  \/ \E k \in left[r] : ClearDelete(r, k)
  \/ ClearDeleteFails(r)
  \/ ClearReturn(r)

Arrival(r) ==
  \/ \E c \in ValidCalls : Accept(r, c)
  \/ Reject(r)

MainStep ==
  \/ CloseEnter
  \/ \E n \in Names : CloseLink(n)
  \/ CloseObjects
  \/ MainReturns

ServiceNext ==
  \/ \E r \in Requests : Arrival(r) \/ LockStep(r) \/ OwnStep(r)
  \/ MainStep
  \/ Signal
  \/ Killed
  \/ Restart

DeviceStep == DeviceChange /\ UNCHANGED <<serviceVars, mu, phase, requestVars>>

Next == ServiceNext \/ DeviceStep

Spec == Init /\ [][Next]_vars

\* Interfaces appear and stay, as they do within one scenario of the checker.
StableNext ==
  \/ ServiceNext
  \/ /\ \E n \in Names : CreateDevice(n)
     /\ UNCHANGED <<serviceVars, mu, phase, requestVars>>

\* Goroutines run, sync.Mutex lets no waiter starve, main goes on.
Fairness ==
  /\ \A r \in Requests : WF_vars(OwnStep(r)) /\ SF_vars(LockStep(r))
  /\ SF_vars(CloseEnter)
  /\ WF_vars(MainStep)

StableSpec == Init /\ [][StableNext]_vars /\ Fairness
-----------------------------------------------------------------------------
(* The XDP program, as packets meet it. *)

\* Frames the program tells apart: too short for Ethernet, not IPv4, an IPv4
\* header cut short, and a whole IPv4 header.
Packets == [frame : {"short", "other", "truncated", "ipv4"}, src : IPs]

xdp_block(i, p) ==
  IF p.frame = "ipv4" /\ <<i, p.src>> \in blockedIps THEN "XDP_DROP" ELSE "XDP_PASS"

\* A packet that comes in through an interface without program passes.
Verdict(i, p) == IF i \in progs THEN xdp_block(i, p) ELSE "XDP_PASS"

-----------------------------------------------------------------------------
(* Properties *)

\* No two names of the table share an interface, although names move between
\* interfaces: the key of one is never the key of another.
DistinctInterfaces ==
  \A m, n \in Names : Attached(m) /\ attachments[m] = attachments[n] => m = n

\* Every key of the map belongs to an entry of the table, so that a Clear can
\* reach it; a key nobody can delete would block its source for ever.
KeysReachable == \A k \in blockedIps : \E n \in Names : attachments[n] = k[1]

\* Every program that runs belongs to an entry of the table, so that Close
\* detaches it.
ProgramsOwned == \A i \in progs : \E n \in Names : attachments[n] = i

\* Block and Clear never dereference a nil s.objects.
ObjectsPresent == (\E n \in Names : Attached(n)) => loaded

\* What the kernel keeps: one name per index, no index from the future, no
\* program without interface.
KernelInv ==
  /\ \A m, n \in Names : dev[m] # NoDev /\ dev[m] = dev[n] => m = n
  /\ \A n \in Names : dev[n] <= lastIfindex /\ attachments[n] <= lastIfindex
  /\ progs \subseteq Devices

\* An entry whose interface still exists has its program running, until Close.
LinksLive ==
  phase # "closing" =>
    \A n \in Names : attachments[n] \in Devices => attachments[n] \in progs

\* A request is inside the critical section only while it holds the mutex, and
\* Close only while it does.
MutexHeld ==
  /\ \A r \in Requests : pc[r] \in {"attach", "delete"} <=> mu = r
  /\ phase = "closing" <=> mu = Closer

\* Where each handler is, and what its locals say of the shared state.
RequestInv ==
  \A r \in Requests :
    /\ pc[r] = "idle" <=> call[r] = NoCall
    /\ pc[r] \in {"lookup", "attach"} => call[r].op = "attach"
    /\ pc[r] = "attach" => loaded /\ ~Attached(call[r].name) /\ iface[r] # NoDev
    /\ pc[r] = "lock" /\ call[r].op = "attach" => iface[r] # NoDev
    /\ pc[r] = "delete" =>
         /\ call[r].op = "clear"
         /\ Attached(call[r].name)
         /\ left[r] = KeysForInterface(attachments[call[r].name])
         /\ left[r] \subseteq keys[r]
         /\ \A k \in keys[r] : k[1] = attachments[call[r].name]
    /\ pc[r] # "delete" => keys[r] = {}

\* All that holds between any two steps of the service, whatever the
\* interleaving of requests, interface changes, shutdown and restart.
ServiceInv ==
  /\ TypeOK
  /\ KernelInv
  /\ LinksLive
  /\ MutexHeld
  /\ RequestInv
  /\ DistinctInterfaces
  /\ KeysReachable
  /\ ProgramsOwned
  /\ ObjectsPresent

\* The step answers request r, of kind op, with success (an action).
AnsweredOk(r, op) ==
  /\ call[r] # NoCall /\ call[r].op = op
  /\ call'[r] = NoCall /\ answer'[r] = "ok"

\* A step that answers a Clear leaves nothing blocked on its interface.
FlushingStep ==
  \A r \in Requests, i \in Ifindex :
    AnsweredOk(r, "clear") /\ attachments[call[r].name] = i =>
      /\ \A p \in Packets : Verdict(i, p)' = "XDP_PASS"
      /\ \A k \in blockedIps' : k[1] # i
      /\ progs' = progs

\* README 4.5 and 4.6: when Clear answers, no packet that enters the interface
\* is dropped, and no program was detached for it.
ClearFlushes == [][FlushingStep]_vars

\* A step that changes a verdict belongs to a request about that interface.
IsolatedStep ==
  \A i \in progs \cap progs', p \in Packets :
    Verdict(i, p)' # Verdict(i, p) =>
      \E r \in Requests :
        /\ call[r] # NoCall /\ call[r].op \in {"block", "clear"}
        /\ pc'[r] # pc[r] \/ left'[r] # left[r]
        /\ attachments[call[r].name] = i

\* README 3.8 and 4.7: while the process serves and an interface keeps its
\* program, the verdict on its packets changes only by a step of a Block or Clear
\* request that names the table's entry for that very interface.
Isolation == [][IsolatedStep]_vars

\* README 2.7: when Attach answers, packets that come in through the interface
\* bearing the name go through the program.
AttachTruthful ==
  [][\A r \in Requests :
       AnsweredOk(r, "attach") /\ dev[call[r].name] # NoDev
         => dev[call[r].name] \in progs']_vars

\* README 3.6: when Block answers, an IPv4 packet from the blocked source is
\* dropped on the interface bearing the name.
BlockEffective ==
  [][\A r \in Requests, i \in Ifindex, p \in Packets :
       /\ AnsweredOk(r, "block") /\ dev[call[r].name] = i
       /\ p.frame = "ipv4" /\ p.src = call[r].ip
       => Verdict(i, p)' = "XDP_DROP"]_vars

\* Every request is answered, or dies with the process.
EveryRequestAnswered == \A r \in Requests : pc[r] # "idle" ~> pc[r] = "idle"

\* Once signalled, the process ends.
ShutdownCompletes == phase = "shutdown" ~> phase = "exited"

\* The service does what XdpPolicy promises.  A name is attached when the table
\* says so; an address stays blocked until the Clear that deletes its key
\* answers, with success or with an error.
PolicyAttached == {n \in Names : Attached(n)}
PolicyBlocked ==
  {b \in Names \X IPs :
     /\ Attached(b[1])
     /\ <<attachments[b[1]], b[2]>> \in blockedIps \cup UNION {keys[r] : r \in Requests}}

Policy == INSTANCE XdpPolicy WITH attached <- PolicyAttached, blocked <- PolicyBlocked

ImplementsPolicy == Policy!Spec
=============================================================================

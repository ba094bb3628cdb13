# Verification of the network-namespace and XDP servers

This directory specifies the programs of the three homework weeks in TLA+: HTTP
servers, written many times over by different authors, that make network
namespaces, start processes in them, wire them up with veth pairs and filter
packets with XDP. Every server is a Go program whose handlers run concurrently,
change kernel state that belongs to *threads*, to *names* and to *interface
indexes*, and can fail at each of a dozen system calls. TLC checks the
specifications on small instances; TLAPS proves every safety property of these
runs for every instance: what the servers of all three weeks promise, the
refinement of an abstract policy among it, and what the week 2 veth checker and
the week 3 checker promise beside them.

## 1. Inventory

| Part | State it keeps | Operations | What makes it hard |
| --- | --- | --- | --- |
| Week 3, `WAFriend3416` | `attachments` (name -> index, link), `objects` (one program, one map keyed by index and address), `mu` | attach, block, clear, shutdown | interfaces change under the table; look-up before the mutex; deferred `Close` against running handlers; one map for all interfaces |
| Week 3, `gpffh20`, `Joseng8908` | `ifaces` (name -> link, objects), a map per interface, a mutex / RWMutex | attach, block, clear | the second drops its lock before it uses the map |
| Week 3, `statsops` | one program and one map, no table, no lock | attach (netlink), block, clear | index looked up and used later; programs outlive the process |
| Week 2, eight servers, namespaces | files and mounts under `/var/run/netns`, the namespace of each OS thread, in one of them `NetnsManager.store` and its mutex | create, exec | `unshare`/`setns` act on a thread, goroutines move; a failed call must take the thread home; same-name races; kills |
| Week 2, eight servers, veth | interfaces of the host and of the named namespaces | veth | up to ten netlink requests after the pair exists, each may fail; names are claimed before they are used |
| Week 1, eighteen servers | none but threads and children | `/unshare/netns` | where the child starts; who waits for it |
| Week 3 checker | a namespace, a veth pair, a stack of clean-ups | a scenario of nine calls, three of them requests to a server | every call may fail, an answer may come too late, a run may be killed; the server remembers what earlier runs did |
| Week 2 veth checker | what it has read so far | seven netlink reads, one verdict | the server works on while it reads |
| Other checkers (weeks 1, 2), echo server (week 2) | a deadline loop | start a program, compare two links | a retry loop with a deadline |
| HTTP routing, JSON, validation, stubs, generated bindings | none | refuse a request | nothing concurrent |

The servers do not talk to each other. Within a server the parts meet in the
kernel: create and exec of one name meet in a mount point, veth requests in an
interface name, attach/block/clear in a table, a map and an interface. Clients
(the checkers) meet the servers over HTTP and the same kernel objects.

What makes each part correct:

* **XDP servers**: success means the rule is in force on the interface that bears
  the name; rules never leak between interfaces; clear removes everything that
  was there; nothing the process owns is lost track of; requests and shutdown
  end.
* **Namespaces**: a thread nobody is locked to is at home; a name stands for one
  namespace of its own for ever; success means a mount / a child in that
  namespace; a failure leaves nothing; children are waited for.
* **Veth**: success means both ends are where they should be, addressed and up;
  a failure leaves nothing in the way of a retry and deletes nothing of another
  request's.
* **Checkers**: a run fails only for a reason, passes only what holds, takes down
  what it made, and ends.

The list of hazards, each at its line with the properties that watch it, is in
`PROJECT.json`.

## 2. Modules

```
XdpKernel ──┬─ XdpService ─┬─ MCXdpService      XdpPolicy (abstract, INSTANCEd by XdpService)
            │              ├─ XdpService_proofs ───┐
            │              └─ XdpScenario ─┬─ MCXdpScenario
            │                              └─ XdpScenario_proofs (extends both)
            └─ XdpVariants ─┬─ MCXdpVariants
                            └─ XdpVariants_proofs
Scripts ──┬─ UnshareScripts ── NetnsScripts ─┬─ NetnsServer ── MCNetnsServer
          │                                  └─ NetnsScripts_proofs ── NetnsServer_proofs ── NetnsServer_names
          ├─ VethScripts ── VethServer ── VethCheck ─┬─ MCVethServer
          │                                          └─ VethServer_proofs
          └─ ScriptPaths (lemmas; extended by NetnsScripts_proofs and VethServer_proofs)
```

### XdpKernel
The interfaces of the host's namespace as the week 3 servers see them: a name
bears an index, an index is never used twice, and an interface may carry one
program (`progs`). Interfaces are created, deleted and renamed by others. It is
external code, modelled from how `net.InterfaceByName`, `link.AttachXDP` and the
netlink calls are used.

### XdpService (week 3, WAFriend3416)
`attachments`, `loaded` (objects), `blockedIps`, `mu`, `phase` of `main`, and for
each request its place `pc`, its call, the looked-up index and the keys it
collected. One action per stretch of code between two points where another
goroutine may come in:

| Action | Code |
| --- | --- |
| `Accept`, `Reject` | routing, decoding and validation in `main.go` and the head of the handlers |
| `LookupFound/Missing` | `net.InterfaceByName`, before the mutex |
| `AttachAgain`, `EnsureObjects(Fails)`, `AttachXdp(Fails)` | the rest of `Attach`, under the mutex |
| `BlockUpdate`, `BlockMapFull`, `RefuseUnattached` | `Block` |
| `ClearCollect(Fails)`, `ClearDelete(Fails)`, `ClearReturn` | `Clear`, one step per deleted key: packets arrive between them, and it may answer 500 with part of the keys deleted |
| `Signal`, `CloseEnter`, `CloseLink`, `CloseObjects`, `MainReturns` | shutdown, deferred `Close`, end of `main` |
| `Killed`, `Restart` | SIGKILL, a new process |

`xdp_block` and `Packets` are the C program: only a whole IPv4 header whose
source is in the map under the ingress index is dropped. `Verdict` is what a
packet meets on an interface; the safety properties are stated with it, not with
the map. A map update and the answer after it are one step: the mutex is held until
then, so nothing another request does comes between.

### XdpPolicy
What the API promises, with no kernel, mutex or table: a set of attached names
and a set of blocked (name, address) pairs, each request taking effect in the
one step that answers it. `XdpService` implements it under the mapping
`PolicyAttached`, `PolicyBlocked`: an address counts as blocked until the Clear
that collected its key answers. A Clear that fails may have lifted some of the
rules of its name (`ClearPartly`), an Attach or Block that fails changes nothing;
no failing request touches another name. `ImplementsPolicy` is the refinement,
checked as a property.

### XdpScenario (week 3, 00-checker)
The checker next to the service. It extends `XdpService`: the checker's requests
are requests of that module, its interface `HostIf` is one of the kernel's, and
the other clients, the signals, kills and restarts of the service are there as
before. `stage` names the call of `runScenario` that comes next, `Sequel` their
order; `UndoFrom` says where the deferred `cleanup.Run` starts when the call at a
stage fails, which is what the calls before it had registered.

| Action | Code |
| --- | --- |
| `Launch`, `End`, `Kill` | `run` in `main.go`; a killed checker runs no deferred function |
| `DeleteHost`, `UnmountName`, `RemoveName`, `DeletionFails` | `cleanupNetwork` before the set-up, the clean-up stack after the run; `netns.DeleteNamed` is the unmount and then the removal |
| `NewNamespace(Stays)`, `MountNamespace`, `MountFails`, `LinkAdd`, `MovePeer`, `Configure`, `CallFails` | `setupNetwork`, `createNamedNetns` |
| `Post`, `Refused`, `Answered`, `Timeout` | `postJSON`; after a `Timeout` the handler goes on |
| `VerifyAttached` | `verifyXDPAttached` |
| `Ping(Fails, Strays)`, `DeleteHostAstray` | `pingFromPeer` through `withNamedNetns`, whose restore may fail unseen (`away`) |
| `NamespaceDies` | the kernel, when neither name nor thread holds the namespace |

One packet stands for `PingCount` of them: the first that is answered, or any if
none is. All runs use one interface and one namespace name, as they do when the
flags give them; by default both contain the process id. Here only the checker
makes and deletes `HostIf`. `file` and `mounted` are apart, since `netns.NewNamed` creates
the file (exclusively) before it mounts on it and `DeleteNamed` unmounts before it
removes: a run that ends between the two leaves a file without a mount, which no
later `DeleteNamed` takes away. `disturbed` and `litter` are history variables: that
something from outside may make the run fail, and that something could not be
taken down.

### XdpVariants (week 3, gpffh20, Joseng8908, statsops)
One machine with the server as a parameter (`Settings`): whether it holds a mutex
through a request, whether it has a table, whether its map is per interface, and
what a restart leaves behind. An iteration over a map is a set of entries still
to pass (`pending`) and entries collected (`keys`); entries put meanwhile may be
met, deleted ones need not be, and any iteration may be aborted. A failing delete
ends a Clear with an error in gpffh20 and statsops (`DeleteFails`); Joseng8908
drops the error and answers `cleared: true`, and gets no failing delete here but
that of a key already gone. `puts` is a history variable for `ClearFlushes`.
`orphans` and `frozen` are the programs and maps of processes that have ended,
which only netlink attachment keeps alive.

### Scripts, UnshareScripts, NetnsScripts, VethScripts
A handler is a sequence of calls; a call that may fail says what runs before the
error is returned (deferred functions and explicit clean-up, in order). The
scripts are the submissions: one definition per handler, in the order of the
source, which is what differs between them. `Try` returns the error, `Do`
ignores it.

### ScriptPaths
No code: what "every path through a script" means, and the lemmas that a call
made, a call that fails and returns through its clean-up, and a goroutine that
ends each leave a script of which the same can be said (section 5).

### NetnsServer
Executes those scripts, one call per step, on OS threads. A thread is in the
pool, held by a locked goroutine, parked or absent, and is in a namespace. A
goroutine that is not locked may run each call on any thread of the pool.
`UnlockOSThread` returns the thread as it is; a goroutine that ends locked takes
its thread along, except for the group leader, whose namespace is what
`/proc/self/ns/net` shows. `Settings` says which server runs, whether the group
leader serves requests, whether clients send one request at a time for a name,
and which calls may fail (`fd` opens of namespaces, `unshare`, `file`, `mount`,
`setns`, `start`, and `kill` for the process).

### VethServer
Executes the veth scripts, one netlink request per step, on interfaces with a
namespace, a name, an address and a state. Links are remembered by identity
(as `netlink.Link` does by index) and looked up by name. `calm` says the kernel
refuses nothing any more, `given` holds the interfaces promised to clients,
`due` the requests that have no excuse to fail. An end of a pair is reused for
a new one only when neither a request nor the checker remembers it (`seen`), as
the kernel does not give out an index soon again. The kernel refuses to make a
pair when one of its two names is taken, or when both ends would have one name
in one namespace. A name made by `tempPeerName` is assumed to be nobody's
`host_ifname` or `peer_ifname` (`NamesAssumption`): it is `tmp` and a hash of the
host name (yeomin4242 hashes the peer name too; while such a name is in use the
other end of the pair bears the host name, so the two cannot be told apart).

### VethCheck (week 2, 00-checker)
`checkVethConfiguration` beside the requests of `VethServer`: one action per read,
in the order of the code, and the verdict of `validateVethCheckState` at the
last one, so that the verdict is of the moment of the last read. Interfaces are
remembered by index; the two peer indexes are asked for by name again, so they may be those of another pair. Any read may also fail.
`Watched` are the worlds the checker runs in. The checks that come first (the
mount, the handles) are one step that may fail.

## 3. Runs

| Run | Instance | Shows |
| --- | --- | --- |
| `xdp_core` | 2 names, 2 addresses, 2 requests, 2 indexes, map of 3 | the bookkeeping invariants, `ServiceInv`, flush, isolation and the refinement, with interfaces created, deleted and renamed, shutdown, kill, restart |
| `xdp_live` | 2 names, 1 address, 2 requests, map of 1; interfaces appear and stay | success means in force; every request is answered; a signalled server ends |
| `xdp_stale_attach` | 1 name, 2 indexes | finding: attach after the interface was made anew |
| `xdp_scenario` | 1 name, 1 address, 2 requests, 2 indexes, map of 1, 2 runs of the checker | a run fails only for a reason outside the service (or for an empty file a run left that ended inside `NewNamed` or `DeleteNamed`), finds the service working on its own interface, leaves nothing it could take down and ends, whatever fails, stops or comes too late |
| `xdp_variants` | 2 names, 2 addresses, 2 requests, 2 indexes, maps of 2; five worlds | the same promises for the other three servers |
| `xdp_restart` | the same, statsops restarted | finding: block into a map nobody reads |
| `netns_safe` | 2 names, 2 requests, 3 threads, 4 namespaces; 24 worlds | threads at home, names apart and stable, answers true, no litter, no zombies |
| `netns_live` | 1 name, 2 requests, 3 threads, 2 namespaces; 8 worlds | every request is answered, even with threads lost in foreign namespaces or a child that did not start |
| `netns_leader` | Joseng8908, leader in the pool | finding: the way home leads to another namespace |
| `netns_mount_self` | saguanamu | finding: the host's namespace gets the name |
| `veth_safe` | 2 host names, 1 peer name, 2 namespaces, 2 requests, 3 pairs; 10 worlds, 2 of them with the veth checker | answered pairs are whole and stay, failures leave nothing in the way; the checker passes only a pair that stands and never fails one that was promised and not deleted |
| `veth_same_name` | Joseng8908, one request at a time | finding: success without an interface |

**Why the bounds are enough.** Two requests suffice for every race between two
handlers; three or more add no new pair of steps, and the proved invariant covers
any number. Two interface names and two indexes give delete-and-create,
rename onto a name in use, and two names for one index in turn. `MaxIfindex` is
the one artificial counter: creation of interfaces stops there. `MaxEntries` of 3
with four possible keys, and of 2 or 1 in the smaller runs, makes the map full while
a Clear frees it. `MaxRuns` of 2 lets a run meet all that an earlier one left:
interface, name, table entry, keys and a handler still at work; with two
requests the checker's own runs beside a stranger's or a late one's. Three threads are the leader and one for each request; four
namespaces are two for mounted names and two for requests in flight, and
running out of them is a failing `unshare`. Three pairs are two for the
requests and one left over from earlier.

**Settings.** Where a run leaves out a failure or a client behaviour, the
definition of its worlds in the MC module says which, and this is why:

* `netns_safe`: a failing `setns` on the way home puts a thread that is about to be
  unlocked back in the pool in a foreign namespace; no server that unlocks
  prevents this, so `setns` fails only where the thread is thrown away (lnaura,
  WAFriend3416 of week 1). Opens of namespaces (`fd`) fail for WAFriend3416, gpffh20,
  Joseng8908, lnaura and, of week 1, WAFriend3416 and khs-alt. They do not for
  statsops and yeomin4242, whose `netns.New` enters the new namespace and then
  opens it before the deferred return is registered, so that such a failure
  leaves the thread abroad (saguanamu has the same sequence and is in `netns_live`
  with it); the other week 1 servers open none. In khs-alt of week 1 `start` does
  not fail, since its error return does not go home. The failing starts of the
  servers that ignore them (gpffh20, Joseng8908, yoooooungwoon of week 1) are
  in `netns_live` too. lnaura gets one request at a time for a name, because
  its create unmounts what a concurrent one has just mounted, and not the leader
  as a server, because its create leaves the leader parked in the new namespace.
  Joseng8908 and khs-alt read their way home from the leader: `leaderServes` is
  off for the first (`netns_leader` shows why), and the second is in
  `netns_live` only. saguanamu likewise (`netns_mount_self`).
* `veth_safe`: a clean-up may not fail itself; statsops, saguanamu and lnaura
  delete the interface of the same host name first and are for one request at a
  time; khs-alt has no clean-up, and Joseng8908 ignores errors, so these two are
  checked without failures, the second with distinct names. Three details are
  not in the scripts: the way back of WAFriend3416's `withNamedNetNS` is taken to
  succeed (a failing one fails the request with everything configured, and the
  clean-up may look for the host end in the named namespace); the `Setns` whose
  error Joseng8908 ignores (`veth.go:66`) too; and lnaura's set-down before the
  rename is left out, since a moved interface is down and a failure there leaves
  what a failing rename does.
  The veth checker runs beside saguanamu, whose requests replace the pairs in
  their way, and khs-alt, whose clients delete pairs from outside; no call of
  the server fails there.
* `xdp_variants`: statsops is restarted in `xdp_restart` only; interfaces go and
  come for Joseng8908 and statsops, which do not exclude requests from each
  other (gpffh20, which does, is the smaller case of WAFriend3416).

**Deadlock** is checked in every run.

**Fairness.** `xdp_live`, `netns_live` and `xdp_scenario` need it. In the last, only
the checker is sure to go on (`WF` on `CheckerStep`, a single goroutine that always
has a step or a client timeout to come); the service may hang for ever, and
`CheckerEnds` says the run ends all the same. For the other two:
Goroutines that can run do run (`WF` on `OwnStep` and `MainStep`); Go's
`sync.Mutex` has a starvation mode that hands the lock to the longest waiter, so
a step that needs it is strongly fair (`SF` on `LockStep`, `CloseEnter`,
`Acquire`). In `NetnsServer` a step of a request may be disabled and enabled
again by others who hold or release threads, and the scheduler's queues are
first-in first-out: `SF` on `Step`. The runtime starts a thread when all are
held: `WF` on `Spawn`. Nothing is assumed of clients, of signals, of kills or of
interfaces; in `xdp_live` interfaces are created but not deleted or renamed, as in
one scenario of the checker, since the promises about the interface that bears a
name do not hold otherwise (`xdp_stale_attach`).

Each property has a mutant: a plausible bug in one definition (the operators
marked `defect`) under which TLC finds the property violated in the same run.

## 4. Findings

* **Stale attach** (`WAFriend3416/service_linux.go:62`; the same in gpffh20 and
  Joseng8908): once the interface has been deleted and made anew, attach answers
  `attached: true` and no program runs.
* **Blocked nowhere after a restart** (`statsops/main.go:126`).
* **The way home** (`Joseng8908/internal/netns/netns.go:51`): `/proc/self/ns/net`
  is the group leader's namespace, and the leader may be away on another request.
* **The host under a name** (`saguanamu/main.go:242`): the same file, used as the
  source of the bind mount.
* **Created nowhere** (`Joseng8908/internal/veth/veth.go:45`): ignored errors make a
  second `peer_ifname` of the same name succeed without an interface.

Met while modelling, without a run of their own: the deferred `Close` of the week 3
WAFriend3416 runs while handlers are in flight, since `ListenAndServe` returns when
`Shutdown` begins (`main.go:99`; the comment at line 85 says the HTTP server ends
first), which the invariants are proved to survive; `createNamedNetns` of the week
3 checker leaves the name when its restore fails (`scenario.go:370`), and the next
run's `cleanupNetwork` removes it; where `NewNamed` fails at its mount, or the run
is killed there (`scenario.go:365`), it leaves a file without a mount that
`cleanupNetwork` cannot remove, and every later run with that name fails until
somebody does, which `ScenarioHonest` and `NothingLeft` exempt by name; `Clear` of
week 3's Joseng8908 drops the errors of its deletes (`main.go:174`); `Goexit` runs
the deferred
`UnlockOSThread` it is meant to avoid (`netns.go:87`); `restoreOrExit` may end the
goroutine without sending a result, with the manager's mutex held (`netns.go:98`);
a killed server may leave an empty file that makes its name unusable
(`WAFriend3416/service_linux.go:42` of week 2). They are hazards in
`PROJECT.json` with a note.

## 5. Proofs

`XdpService_proofs` proves, for any sets of names, addresses and requests, any
number of indexes and any map size:

* `ServiceInvariant`: `Spec => []ServiceInv`;
* `TypeCorrect`: `Spec => []TypeOK`;
* `TableSound`, `KeysStayReachable`, `ProgramsStayOwned`: `Spec =>` always
  `DistinctInterfaces`, `KeysReachable`, `ProgramsOwned`.

`DistinctInterfaces` (no two names of the table share an index) is not
inductive. That `AttachXdp` keeps it rests on the kernel refusing a second
program on an interface, which helps only if every entry of the table whose
interface still exists has its program there (`LinksLive`), which holds only
until `Close` begins (`MutexHeld` says that nobody else is inside then), and if
indexes are never used again (`KernelInv`: no index of the table or of a name is
above `lastIfindex`). `KeysReachable` needs the request that is between
collecting and deleting keys to be about an entry of the table (`RequestInv`),
and `ProgramsOwned` needs `Close` to forget links only when it has closed them.
`ServiceInv` is the conjunction. It is checked by `xdp_core` as an invariant and
proved inductive with one lemma for each action; each lemma has a step for each
conjunct the action touches. The last step of each theorem is temporal (PTL).

From the invariant follows what a step may never do:

* `InterfacesIsolated`: `Spec => Isolation`. Only `BlockUpdate`, `ClearDelete`,
  `CloseObjects` and the end of a process write the map (`MapWriters`). The
  first two write a key of the index that the table gives for the name in the
  request (for `ClearDelete` that is `RequestInv`: the table entry read when the
  keys were collected has not moved since); `CloseObjects` comes when every
  program is gone (`ProgramsOwned`), and the end of a process takes them all.
* `ClearLeavesNothing`: `Spec => ClearFlushes`. A Clear is answered with success
  only by `ClearReturn` (`ClearAnswers`), which finds nothing left to delete. By
  `RequestInv` what is left is all the map still holds for that index, since a
  Block would need the mutex the Clear has not released.

`ServiceImplementsPolicy` is the refinement, `Spec => ImplementsPolicy`. One
lemma per group of actions names the step of the policy it is under the mapping,
or shows that it changes nothing of it. A rule is in force while its key is in
the map or among the keys a Clear has collected, so deleting them one by one is
no step of the policy and the answer lifts them all at once; a Clear that fails
lifts those it has deleted and leaves the others in force (`ClearFailsRefines`);
that the answer lifts no more rests on `DistinctInterfaces`, and that an Attach
adds no old rule on
`LinksLive` and `KeysReachable` (`NewEntry`).

`AttachIsTruthful` and `BlockIsEffective` are about the world of
`xdp_live`, without its fairness: with `StableInv`, `ServiceInv` and that table and
handlers know interfaces by the index their name bears now.

`XdpVariants_proofs` proves the promises of the other three
servers. `VariantsInvariant` is about iterations: every entry of the interface is
still to pass, collected, or newer than the request (`IterationInv`), which each
Block and Clear of others preserves without any lock; `VariantsClearFlushes`
follows at the answer. An iteration or a delete that fails answers with an error,
which promises nothing, and takes no entry of another interface with it.
`VariantsIsolation`, `VariantsAttachTruthful` and
`VariantsBlockEffective` use `WorldInvariant` in addition. All four assume
`NoStatsopsRestart`, since `xdp_restart` shows what happens otherwise, and say of
settings with interfaces that go and come what the properties say of them.

`XdpScenario_proofs` proves the composition, for any number
of requests, indexes, runs and any map size:

* `ScenarioRunsService`: `ScenarioSpec => Spec`. Each step of the composition is a
  step of the service or leaves its variables alone, so the theorems above hold
  beside the checker, and `ServiceInv` may be used in what follows.
* `ScenarioTypeCorrect` and `NothingIsLeft`: by `LeftoverInv`, which says at which
  stage the file, its mount, the pair and a stray thread can be there. `NothingLeft` alone is
  not inductive: that the undo list begins late enough needs to know what exists
  at the stage that fails.
* `CheckerIsHonest` and `CheckerIsLive`: by `UndisturbedInv`, which follows an
  undisturbed run: the interface is made with an index no key of the map can
  bear (`KernelInv`), the table has no live entry for it before Attach and this
  one after, and only the checker's own Block and Clear change the verdict on
  the pings (`RequestInv` again: a handler works on the table's entry). That
  `NewNamed` finds no file rests on the sweep: a mounted name is unmounted and
  removed, and a file without a mount makes the sweep fail, which is a
  disturbance. A Block or Clear of the interface by somebody else is a
  disturbance (`Meddles`), and
  steps of one request leave the others where they are (`OneAtATime`). `ScenarioInv` is the conjunction, `ScenarioInvariant` the theorem;
  one lemma for the steps of the service, one for those of the checker.

### Scripts

A request of the week 1 and week 2 servers is a script, and what a proof needs to
know of it is about the calls it has still to make. `ScriptPaths` says it of the
paths through a script, clean-ups included: every call of A comes after one of B
(`Preceded`), or does once one of C was made (`After`); no path ends without a
call of B (`Leads`), or not once one of C was made (`AfterLeads`); after a call of C
none of A is made (`Once`). Each has a lemma (`...Onward`) that what holds of a
script holds of all that a call can leave of it: its tail when the call succeeds
or its error is ignored, its clean-up when the handler returns. So a fact about
a whole script, shown once call by call (`NetnsScripts_proofs`), is at once an
invariant of the request that runs it. Induction over scripts is not needed.

### The namespace servers

`NetnsServer_proofs` and `NetnsServer_names`, for any sets of names, requests,
threads and namespaces and any worlds, rest on `Base`: types, that a thread is
held by the one request that has locked it, and the path facts of what each
request has left. It is inductive for every server whatever fails. Beside it:

| Theorem | Property | Needs also | In the worlds where |
| --- | --- | --- | --- |
| `NetnsTyped` | `TypeOK` | `Planned`: what is left is a tail or a clean-up of the script | any |
| `ManagerHonest` | `StoreMounted` | `Stored`: the manager records only what it has mounted and not yet unmounted | any |
| `ChildrenReaped` | `NoZombie` | `Reaped`: a child not yet waited for will be on every path | `KhsAlt1ComesHome`: its last `Setns` does not fail, which would skip the caller's `Wait` |
| `ServerStaysHome` | `ThreadsHome` | `Homed`: a thread abroad is held, and goes home before it is given away | `StaysHome`: the way home does not fail, unless the thread is thrown away, and the leader does not serve where it would be left abroad |
| `NamesStayApart` | `NamesApart` | `Separate`: an unshared thread is in a namespace nobody else has until its request mounts it | `MountsOwn`: all but saguanamu |
| `ChildrenInNamespaces` | `ChildInNamespace` | the same, and that a child is started where its thread entered | `MountsOwn` |
| `NothingLittered` | `NoLitter` | `Tidy`: a file without a mount has a request that will mount on it or remove it | `CleansUp`: all but khsAlt, whose file stays when its mount fails |
| `CreatesTruthful` | `CreateTruthful` | `Created`: once it has mounted, nothing left to do unmounts, of itself or of another request for that name | `Truthful`: lnaura one request at a time for a name; yeomin4242 without failing `setns` |
| `NamesStayStable` | `NamesStable` | `NamesOwned`: a name is worked on only by the request that made its file, has the name to itself, or holds the manager's mutex | `KeepsNames`: as `Truthful`; Joseng8908 not killed; not khsAlt, which mounts over what is there |

Each condition is about a member of `Settings` and holds of all the worlds of
`netns_safe`, and each is needed: what it leaves out is a behaviour of that
server's code, named where the condition is defined.

### The veth servers and their checker

`VethServer_proofs`, for any sets of interface names, namespaces, requests, pairs
and worlds. The eight scripts have a `Shape` in common, shown once for each: one
pair is made, each end is found before it is changed, the peer moves, takes its
name and is configured in that order, and a clean-up deletes the pair. On it
rests `Base`: types, the two ends of a pair come and go together, and no two
interfaces of a namespace have one name. Beside it:

* `VethTyped`, `CheckTyped`: `TypeOK` and `CheckTypeOK`, in every world.
* `VerifiedIsMade`: `VerifiedMeansMade`, by `Apart` (only a host end is ever in the
  host's namespace under a `host_ifname`, a peer end elsewhere under another
  name) and `Reading`. What the checker has read stays so until it is read
  again, or the interface goes; then the two peer indexes, read last, cannot
  match. Not beside Joseng8908, whose peer is made in the host's namespace under
  the name it keeps.
* `StagedHolds`: the invariant `StagedInv` behind the rest. `Stage(r, p)` says how far
  the pair p of the request r has come, in terms of the calls still ahead: where
  its peer stands, under which name, which end the request has taken, what is
  configured. `Owners`: a request that has made a pair has it at that stage;
  `Distinct`: two such requests are for different host names, so that neither
  finds or deletes the other's; `NoStray`: a pair that was not promised is some
  request's. `Held` is its condition: the servers that first delete what bears
  the name serve one request at a time, and Joseng8908, which ignores errors,
  meets none and gets distinct names. `NoStray` asks for `Tidies` as well: no
  clean-up fails, nor yeomin4242's lookups before its clean-up is in force, and
  khsAlt, which has no clean-up, meets no failure.
* `AnsweredIsMade`: `VethTruthful`, by `LoDone` (`LoHeld`: where the error of `loUp` is
  ignored it does not happen).
* `AnsweredIsKept`: `AnsweredStays`, while no client of those servers deletes pairs
  from outside; `NothingHalfMade`: `NoHalfPair`, by `GivenWhole` (a promised pair stays
  as it was promised) and `NoStray`.
* `PromisedIsVerified`: `PromisedVerifies`, by `ReadsPromised`: as long as the promised
  pair stands the checker has found its ends and nothing wrong; a lookup by name
  finds no other (`Unique`).
* `RetriesSucceed`: `RetrySucceeds`, by `Due`: the request has met no error, no other
  runs, and each name it is still to make or to rename to is free, unless it is
  still to delete what bears it. That its first step finds them free is `NoStray`
  and `GivenWhole` for the servers that do not replace; that its own pair is never
  in its way is `Stage`. `RetryHeld` adds to the conditions above that no host and
  peer of Joseng8908's clients have one name.

All worlds of `veth_safe` meet these conditions.

### Assumptions, and what is only model-checked

Assumptions are those the modules name: the model values that stand for "no
call", "no address", "free" and "main" are not requests, calls or addresses; the
host's namespace is none of the named ones; temporary interface names are
nobody's; the checkers' interfaces, addresses and worlds are among the servers'.

Only model-checked: liveness (`xdp_live`, `netns_live` and the liveness properties
of `xdp_scenario`), which needs ENABLED. The five findings are counterexamples,
and need no proof.

## 6. Not modelled

* `server_checker.go` and the echo server: a loop with a deadline that starts a
  program and asks it, one process and no shared state; planned, below. The week
  1 checker and the netns checker each read one thing once and compare it; what
  they compare is `ChildInNamespace` and `StoreMounted`.
* Routing, JSON, status codes, validation wording: a request is valid or is
  refused before anything happens. The week 3 service keeps an invalid name and
  an invalid address as values, because the code tests them in an order.
* Byte order and layout of addresses: an address is a value. All four programs
  agree with their servers on it.
* Generated bindings, stubs for other systems, Makefiles.
* Kernel memory, file descriptors and pids: never exhausted, except that opens and
  loads may fail.

## 7. Plan

Done: XdpKernel; XdpService with XdpPolicy, XdpVariants and XdpScenario; the
scripts and NetnsServer; week 1; VethServer and VethCheck; the proofs of all
their safety properties.

1. Abstract specifications of the namespace and veth servers, as `XdpPolicy` is one
   of the XDP service: a map from names to namespaces, a set of promised pairs;
   and the refinement from the invariants of section 5.
2. Restart of Joseng8908's manager over mounts that are still there.
3. `ServerCheck`: the deadline loop of `server_checker.go` and the shutdown of the
   echo server: the loop ends, the last error is reported, the child is stopped.

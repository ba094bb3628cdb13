---------------------------- MODULE NetnsServer -----------------------------
(***************************************************************************)
(* The network-namespace side of the week 1 and week 2 servers: requests   *)
(* that start a process in a new namespace, create named namespaces and    *)
(* start processes in those, the OS threads of the Go runtime they run on, *)
(* and the mount points under /var/run/netns.                              *)
(*                                                                         *)
(* A network namespace belongs to a thread.  A goroutine that calls        *)
(* LockOSThread keeps its thread; one that does not may find itself on     *)
(* another at its next call.  UnlockOSThread gives the thread back in the  *)
(* namespace it is in, and a goroutine that ends without it takes its      *)
(* thread along, except for the process's first thread, which the runtime  *)
(* parks for good.  That thread, the group leader, is the one              *)
(* /proc/self/ns/net shows, and an ordinary member of the pool.            *)
(*                                                                         *)
(* Each step is one call of a script of NetnsScripts.                      *)
(***************************************************************************)
EXTENDS NetnsScripts, Naturals, FiniteSets

CONSTANTS
  Names,       \* the names of namespaces
  Requests,    \* handler goroutines
  Threads,     \* OS threads
  Leader,      \* the process's first thread
  Namespaces,  \* the namespaces the kernel can make (max_net_namespaces)
  Host,        \* the namespace the server was started in
  NoNs, NoThread, NoCall, Nobody,
  Settings     \* which server runs, and what its environment does to it

Failures == {"fd", "unshare", "file", "mount", "setns", "start", "kill"}
ASSUME SettingsAssumption ==
  Settings \subseteq [server : Servers, leaderServes : BOOLEAN,
                      oneAtATime : BOOLEAN, mayFail : SUBSET Failures]
ASSUME LeaderAssumption == Leader \in Threads
ASSUME HostAssumption == Host \notin Namespaces
ASSUME NoneAssumption ==
  /\ NoNs \notin Namespaces \cup {Host} /\ NoThread \notin Threads
  /\ NoCall \notin [op : {"create", "exec"}, name : Names] \cup {[op |-> "run"]}
  /\ Nobody \notin Requests

VARIABLES
  setting,   \* the member of Settings this behaviour is of; never changes
  thread,    \* thread -> "pool", "held", "parked" or "absent"
  ns,        \* thread -> the network namespace it is in
  files,     \* the names that exist under /var/run/netns
  mounted,   \* name -> the namespace mounted on it, or NoNs
  store,     \* Joseng8908's NetnsManager.store
  mu,        \* Joseng8908's NetnsManager.mu
  killed,    \* the server has been killed at some time
  call,      \* request -> what it asks, or NoCall
  todo,      \* request -> the calls it has still to make
  ok,        \* request -> no error so far
  held,      \* request -> the thread it is locked to, or NoThread
  orig,      \* request -> the namespace it saved to go back to
  target,    \* request -> the named namespace it opened
  child,     \* request -> the namespace its child started in, or NoNs
  waited     \* request -> somebody waits for its child

kernelVars == <<thread, ns, files, mounted>>
managerVars == <<store, mu>>
requestVars == <<call, todo, ok, held, orig, target, child, waited>>
vars == <<setting, kernelVars, managerVars, killed, requestVars>>

AnyNs == Namespaces \cup {Host}
Calls == [op : {"create", "exec"}, name : Names] \cup {[op |-> "run"]}

\* What a request can have left to do: the rest of its script or of a clean-up.
Cleanups(s) == {Quietly(s[i].cleanup) : i \in 1 .. Len(s)}
Leavings == {<<Do("unlock"), Do("hang")>>, <<Do("exit")>>}
Plans(s) == Rests(s) \cup UNION {Rests(c) : c \in Cleanups(s) \cup Leavings}

TypeOK ==
  /\ setting \in Settings
  /\ thread \in [Threads -> {"pool", "held", "parked", "absent"}]
  /\ ns \in [Threads -> AnyNs]
  /\ files \in SUBSET Names
  /\ mounted \in [Names -> AnyNs \cup {NoNs}]
  /\ store \in SUBSET Names
  /\ mu \in Requests \cup {Nobody}
  /\ killed \in BOOLEAN
  /\ call \in [Requests -> Calls \cup {NoCall}]
  /\ \A r \in Requests :
       todo[r] \in IF call[r] = NoCall THEN {<< >>}
                   ELSE Plans(Script[call[r].op][setting.server])
  /\ ok \in [Requests -> BOOLEAN]
  /\ held \in [Requests -> Threads \cup {NoThread}]
  /\ orig \in [Requests -> AnyNs \cup {NoNs}]
  /\ target \in [Requests -> AnyNs \cup {NoNs}]
  /\ child \in [Requests -> AnyNs \cup {NoNs}]
  /\ waited \in [Requests -> BOOLEAN]

-----------------------------------------------------------------------------
(* Where a call runs and how it ends. *)

Doing(r, op) == todo[r] # << >> /\ Head(todo[r]).op = op

RunsOn(r, t) == IF held[r] = NoThread THEN thread[t] = "pool" ELSE held[r] = t

CanFail(f) == f \in setting.mayFail
Name(r) == call[r].name

Goes(r) == todo' = [todo EXCEPT ![r] = Tail(@)] /\ UNCHANGED ok

Fails(r) ==
  IF Head(todo[r]).must
  THEN /\ todo' = [todo EXCEPT ![r] = Quietly(Head(@).cleanup)]
       /\ ok' = [ok EXCEPT ![r] = FALSE]
  ELSE Goes(r)

\* The function returns success at once: the namespace is there already.
Returns(r) == todo' = [todo EXCEPT ![r] = << >>] /\ UNCHANGED ok

UnchangedKernel == UNCHANGED kernelVars
UnchangedLocals == UNCHANGED <<held, orig, target, child, waited>>
Elsewhere == UNCHANGED <<setting, managerVars, killed, call>>

Alive(x) == x \in {ns[t] : t \in {u \in Threads : thread[u] # "absent"}}
              \cup {mounted[n] : n \in Names}
              \cup UNION {{orig[r], target[r], child[r]} : r \in Requests}
Unused == {x \in Namespaces : ~Alive(x)}

-----------------------------------------------------------------------------
(* The mount points *)

\* defect: any file of that name will do.
StatAnyFile(r) ==
  /\ Doing(r, "stat")
  /\ IF Name(r) \in files THEN Returns(r) ELSE Goes(r)
  /\ UnchangedKernel /\ UnchangedLocals /\ Elsewhere
\* os.Stat, and isNSFSMount when there is something.
Stat(r) ==
  /\ Doing(r, "stat")
  /\ \/ mounted[Name(r)] # NoNs /\ Returns(r)
     \/ mounted[Name(r)] = NoNs /\ Name(r) \in files /\ Fails(r)
     \/ Name(r) \notin files /\ Goes(r)
  /\ UnchangedKernel /\ UnchangedLocals /\ Elsewhere

Reuse(r) ==
  /\ Doing(r, "reuse")
  /\ IF mounted[Name(r)] # NoNs THEN Returns(r) ELSE Goes(r)
  /\ UnchangedKernel /\ UnchangedLocals /\ Elsewhere

\* requireNetns
IsMounted(r) ==
  /\ Doing(r, "isMounted")
  /\ IF mounted[Name(r)] # NoNs THEN Goes(r) ELSE Fails(r)
  /\ UnchangedKernel /\ UnchangedLocals /\ Elsewhere

\* os.OpenFile with O_CREATE|O_EXCL
Creat(r) ==
  /\ Doing(r, "creat")
  /\ \/ /\ Name(r) \notin files
        /\ files' = files \cup {Name(r)} /\ Goes(r)
     \/ /\ Name(r) \in files \/ CanFail("file")
        /\ Fails(r) /\ UNCHANGED files
  /\ UNCHANGED <<thread, ns, mounted>> /\ UnchangedLocals /\ Elsewhere

\* os.Create and os.WriteFile open an existing file too; whether they may open
\* one with a namespace on it depends on the kernel.
Create(r) ==
  /\ Doing(r, "create")
  /\ \/ files' = files \cup {Name(r)} /\ Goes(r)
     \/ /\ mounted[Name(r)] # NoNs \/ CanFail("file")
        /\ Fails(r) /\ UNCHANGED files
  /\ UNCHANGED <<thread, ns, mounted>> /\ UnchangedLocals /\ Elsewhere

\* A mount point cannot be removed, and a file that is not there neither.
Remove(r) ==
  /\ Doing(r, "remove")
  /\ IF Name(r) \in files /\ mounted[Name(r)] = NoNs
     THEN files' = files \ {Name(r)} /\ Goes(r)
     ELSE Fails(r) /\ UNCHANGED files
  /\ UNCHANGED <<thread, ns, mounted>> /\ UnchangedLocals /\ Elsewhere

Unmount(r) ==
  /\ Doing(r, "unmount")
  /\ mounted' = [mounted EXCEPT ![Name(r)] = NoNs]
  /\ IF mounted[Name(r)] # NoNs THEN Goes(r) ELSE Fails(r)
  /\ UNCHANGED <<thread, ns, files>> /\ UnchangedLocals /\ Elsewhere

\* A bind mount over another hides it.
Mount(r, t, op, source) ==
  /\ Doing(r, op) /\ RunsOn(r, t)
  /\ \/ /\ Name(r) \in files
        /\ mounted' = [mounted EXCEPT ![Name(r)] = source]
        /\ Goes(r)
     \/ /\ Name(r) \notin files \/ CanFail("mount")
        /\ Fails(r) /\ UNCHANGED mounted
  /\ UNCHANGED <<thread, ns, files>> /\ UnchangedLocals /\ Elsewhere

MountOwn(r, t) == Mount(r, t, "mountOwn", ns[t])
MountLeader(r, t) == Mount(r, t, "mountLeader", ns[Leader])

-----------------------------------------------------------------------------
(* Threads and their namespaces *)

Lock(r, t) ==
  /\ Doing(r, "lock") /\ RunsOn(r, t)
  /\ thread' = [thread EXCEPT ![t] = "held"]
  /\ held' = [held EXCEPT ![r] = t]
  /\ Goes(r)
  /\ UNCHANGED <<ns, files, mounted, orig, target, child, waited>> /\ Elsewhere

\* The thread goes back as it is.
Unlock(r) ==
  /\ Doing(r, "unlock")
  /\ thread' = [thread EXCEPT ![held[r]] = "pool"]
  /\ held' = [held EXCEPT ![r] = NoThread]
  /\ Goes(r)
  /\ UNCHANGED <<ns, files, mounted, orig, target, child, waited>> /\ Elsewhere

\* The goroutine ends on a thread it is locked to, and the thread with it.  The
\* group leader cannot end: it stays where it is.
Exit(r) ==
  /\ Doing(r, "exit")
  /\ IF held[r] = Leader
     THEN thread' = [thread EXCEPT ![Leader] = "parked"] /\ UNCHANGED ns
     ELSE /\ thread' = [thread EXCEPT ![held[r]] = "absent"]
          /\ ns' = [ns EXCEPT ![held[r]] = Host]
  /\ held' = [held EXCEPT ![r] = NoThread]
  /\ Goes(r)
  /\ UNCHANGED <<files, mounted, orig, target, child, waited>> /\ Elsewhere

\* The way home: the thread's own namespace, or the group leader's.
Save(r, op, x) ==
  /\ Doing(r, op)
  /\ \/ orig' = [orig EXCEPT ![r] = x] /\ Goes(r)
     \/ CanFail("fd") /\ Fails(r) /\ UNCHANGED orig
  /\ UnchangedKernel /\ UNCHANGED <<held, target, child, waited>> /\ Elsewhere

SaveOwn(r, t) == RunsOn(r, t) /\ Save(r, "own", ns[t])
SaveLeader(r) == Save(r, "leader", ns[Leader])

\* The kernel makes no more namespaces than max_net_namespaces.
Unshare(r, t) ==
  /\ Doing(r, "unshare") /\ RunsOn(r, t)
  /\ \/ \E x \in Unused :
          /\ x = CHOOSE y \in Unused : TRUE
          /\ ns' = [ns EXCEPT ![t] = x]
          /\ Goes(r)
     \/ /\ Unused = {} \/ CanFail("unshare")
        /\ Fails(r) /\ UNCHANGED ns
  /\ UNCHANGED <<thread, files, mounted>> /\ UnchangedLocals /\ Elsewhere

\* netns.New opens the namespace it has just made, and leaves the thread there
\* when that fails.
GetNew(r) ==
  /\ Doing(r, "getNew")
  /\ \/ Goes(r)
     \/ CanFail("fd") /\ Fails(r)
  /\ UnchangedKernel /\ UnchangedLocals /\ Elsewhere

Open(r) ==
  /\ Doing(r, "open")
  /\ \/ /\ Name(r) \in files
        /\ target' = [target EXCEPT ![r] = mounted[Name(r)]]
        /\ Goes(r)
     \/ /\ Name(r) \notin files \/ CanFail("fd")
        /\ Fails(r) /\ UNCHANGED target
  /\ UnchangedKernel /\ UNCHANGED <<held, orig, child, waited>> /\ Elsewhere

\* setns refuses a descriptor that is not a namespace's.
Enter(r, t) ==
  /\ Doing(r, "enter") /\ RunsOn(r, t)
  /\ \/ /\ target[r] # NoNs
        /\ ns' = [ns EXCEPT ![t] = target[r]]
        /\ Goes(r)
     \/ /\ target[r] = NoNs \/ CanFail("setns")
        /\ Fails(r) /\ UNCHANGED ns
  /\ UNCHANGED <<thread, files, mounted>> /\ UnchangedLocals /\ Elsewhere

Restore(r, t) ==
  /\ Doing(r, "restore") /\ RunsOn(r, t)
  /\ \/ ns' = [ns EXCEPT ![t] = orig[r]] /\ Goes(r)
     \/ CanFail("setns") /\ Fails(r) /\ UNCHANGED ns
  /\ UNCHANGED <<thread, files, mounted>> /\ UnchangedLocals /\ Elsewhere

\* restoreOrExit and its like: a failure ends the goroutine with Goexit, either
\* through its deferred UnlockOSThread and without its answer, or with its thread.
Leave(op) == IF op = "restoreOrHang" THEN <<Do("unlock"), Do("hang")>>
                                     ELSE <<Do("exit")>>
RestoreOrLeave(r, t, op) ==
  /\ Doing(r, op) /\ RunsOn(r, t)
  /\ \/ ns' = [ns EXCEPT ![t] = orig[r]] /\ Goes(r)
     \/ /\ CanFail("setns")
        /\ todo' = [todo EXCEPT ![r] = Leave(op)]
        /\ UNCHANGED <<ns, ok>>
  /\ UNCHANGED <<thread, files, mounted>> /\ UnchangedLocals /\ Elsewhere

\* cmd.Start: the child inherits the namespace of the thread that forks it.
Start(r, t) ==
  /\ Doing(r, "start") /\ RunsOn(r, t)
  /\ \/ child' = [child EXCEPT ![r] = ns[t]] /\ Goes(r)
     \/ CanFail("start") /\ Fails(r) /\ UNCHANGED child
  /\ UnchangedKernel /\ UNCHANGED <<held, orig, target, waited>> /\ Elsewhere

\* cmd.Start with Unshareflags: the child leaves for a namespace of its own.
StartNew(r) ==
  /\ Doing(r, "startNew")
  /\ \/ \E x \in Unused :
          /\ x = CHOOSE y \in Unused : TRUE
          /\ child' = [child EXCEPT ![r] = x]
          /\ Goes(r)
     \/ /\ Unused = {} \/ CanFail("start")
        /\ Fails(r) /\ UNCHANGED child
  /\ UnchangedKernel /\ UNCHANGED <<held, orig, target, waited>> /\ Elsewhere

\* A goroutine waits for the child; for a command that did not start, Wait
\* returns at once.
Reap(r) ==
  /\ Doing(r, "reap")
  /\ waited' = [waited EXCEPT ![r] = child[r] # NoNs]
  /\ Goes(r)
  /\ UnchangedKernel /\ UNCHANGED <<held, orig, target, child>> /\ Elsewhere

\* cmd.Process.Pid panics when there is no process; net/http recovers and drops
\* the connection.
Pid(r) ==
  /\ Doing(r, "pid")
  /\ IF child[r] = NoNs THEN Fails(r) ELSE Goes(r)
  /\ UnchangedKernel /\ UnchangedLocals /\ Elsewhere

\* A request that does not decode, or names no absolute path, is refused.
Valid(r) ==
  /\ Doing(r, "valid")
  /\ Goes(r) \/ Fails(r)
  /\ UnchangedKernel /\ UnchangedLocals /\ Elsewhere

\* The process is killed and waited for.
Kill(r) ==
  /\ Doing(r, "kill")
  /\ child' = [child EXCEPT ![r] = NoNs]
  /\ Goes(r)
  /\ UnchangedKernel /\ UNCHANGED <<held, orig, target, waited>> /\ Elsewhere

\* The runtime starts a thread when it needs one: from an unlocked thread, whose
\* namespace it inherits, or, when the starter is locked, from the template
\* thread, which was started in the host's.
Spawn(t) ==
  /\ thread[t] = "absent"
  /\ thread' = [thread EXCEPT ![t] = "pool"]
  /\ \E x \in {ns[u] : u \in {v \in Threads : thread[v] = "pool"}} \cup {Host} :
       ns' = [ns EXCEPT ![t] = x]
  /\ UNCHANGED <<setting, files, mounted, managerVars, killed, requestVars>>

-----------------------------------------------------------------------------
(* Joseng8908's manager *)

Acquire(r) ==
  /\ Doing(r, "acquire") /\ mu = Nobody
  /\ mu' = r
  /\ Goes(r)
  /\ UnchangedKernel /\ UnchangedLocals /\ UNCHANGED <<setting, store, killed, call>>

Absent(r) ==
  /\ Doing(r, "absent")
  /\ IF Name(r) \in store THEN Fails(r) ELSE Goes(r)
  /\ UnchangedKernel /\ UnchangedLocals /\ Elsewhere

Record(r) ==
  /\ Doing(r, "record")
  /\ store' = store \cup {Name(r)}
  /\ Goes(r)
  /\ UnchangedKernel /\ UnchangedLocals /\ UNCHANGED <<setting, mu, killed, call>>

Release(r) ==
  /\ Doing(r, "release")
  /\ mu' = Nobody
  /\ Goes(r)
  /\ UnchangedKernel /\ UnchangedLocals /\ UNCHANGED <<setting, store, killed, call>>

-----------------------------------------------------------------------------
(* Requests and the process *)

Accept(r, c) ==
  /\ call[r] = NoCall /\ setting.server \in DOMAIN Script[c.op]
  /\ setting.oneAtATime =>
       c.name \notin {Name(q) : q \in {p \in Requests : call[p] # NoCall}}
  /\ call' = [call EXCEPT ![r] = c]
  /\ todo' = [todo EXCEPT ![r] = Script[c.op][setting.server]]
  /\ ok' = [ok EXCEPT ![r] = TRUE]
  /\ UnchangedKernel /\ UnchangedLocals
  /\ UNCHANGED <<setting, managerVars, killed>>

Answering(r) == call[r] # NoCall /\ todo[r] = << >>

Answer(r) ==
  /\ Answering(r)
  /\ call' = [call EXCEPT ![r] = NoCall]
  /\ orig' = [orig EXCEPT ![r] = NoNs]
  /\ target' = [target EXCEPT ![r] = NoNs]
  /\ child' = [child EXCEPT ![r] = NoNs]
  /\ waited' = [waited EXCEPT ![r] = FALSE]
  /\ UNCHANGED <<setting, kernelVars, managerVars, killed, todo, ok, held>>

\* A new process starts in the place of one killed at any moment: the mounts
\* and files stay.
Boot ==
  /\ thread' = [t \in Threads |->
                  IF t # Leader THEN "absent"
                  ELSE IF setting.leaderServes THEN "pool" ELSE "parked"]
  /\ ns' = [t \in Threads |-> Host]
  /\ store' = {} /\ mu' = Nobody
  /\ call' = [r \in Requests |-> NoCall]
  /\ todo' = [r \in Requests |-> << >>]
  /\ ok' = [r \in Requests |-> TRUE]
  /\ held' = [r \in Requests |-> NoThread]
  /\ orig' = [r \in Requests |-> NoNs]
  /\ target' = [r \in Requests |-> NoNs]
  /\ child' = [r \in Requests |-> NoNs]
  /\ waited' = [r \in Requests |-> FALSE]

Killed ==
  /\ CanFail("kill")
  /\ killed' = TRUE
  /\ Boot
  /\ UNCHANGED <<setting, files, mounted>>

Init ==
  /\ setting \in Settings
  /\ thread = [t \in Threads |->
                 IF t # Leader THEN "absent"
                 ELSE IF setting.leaderServes THEN "pool" ELSE "parked"]
  /\ ns = [t \in Threads |-> Host]
  /\ files = {} /\ mounted = [n \in Names |-> NoNs]
  /\ store = {} /\ mu = Nobody
  /\ killed = FALSE
  /\ call = [r \in Requests |-> NoCall]
  /\ todo = [r \in Requests |-> << >>]
  /\ ok = [r \in Requests |-> TRUE]
  /\ held = [r \in Requests |-> NoThread]
  /\ orig = [r \in Requests |-> NoNs]
  /\ target = [r \in Requests |-> NoNs]
  /\ child = [r \in Requests |-> NoNs]
  /\ waited = [r \in Requests |-> FALSE]

OnThread(r, t) ==
  \/ MountOwn(r, t) \/ MountLeader(r, t)
  \/ Lock(r, t) \/ SaveOwn(r, t) \/ Unshare(r, t) \/ Enter(r, t)
  \/ Restore(r, t) \/ RestoreOrLeave(r, t, "restoreOrHang")
  \/ RestoreOrLeave(r, t, "restoreOrDie") \/ Start(r, t)

Anywhere(r) ==
  \/ Stat(r) \/ Reuse(r) \/ IsMounted(r) \/ Creat(r) \/ Create(r)
  \/ Remove(r) \/ Unmount(r) \/ Unlock(r) \/ Exit(r) \/ SaveLeader(r)
  \/ GetNew(r) \/ Open(r) \/ StartNew(r) \/ Reap(r) \/ Pid(r) \/ Valid(r) \/ Kill(r)
  \/ Absent(r) \/ Record(r) \/ Release(r)

Step(r) == Anywhere(r) \/ Answer(r) \/ \E t \in Threads : OnThread(r, t)

Next ==
  \/ \E r \in Requests : Step(r) \/ Acquire(r) \/ \E c \in Calls : Accept(r, c)
  \/ \E t \in Threads : Spawn(t)
  \/ Killed

\* The scheduler runs every goroutine, the runtime starts the threads it needs,
\* and Go's mutex does not starve a waiter.
Fairness ==
  /\ \A r \in Requests : SF_vars(Step(r)) /\ SF_vars(Acquire(r))
  /\ \A t \in Threads : WF_vars(Spawn(t))

Spec == Init /\ [][Next]_vars
FairSpec == Spec /\ Fairness

-----------------------------------------------------------------------------
(* Properties *)

\* The server stays in its own network namespace (02-week/README.md 2.6, 2.7): a
\* thread no request is locked to, which any goroutine may run on next or which
\* stands for the process under /proc, is in the host's.
ThreadsHome ==
  \A t \in Threads : thread[t] \in {"pool", "parked"} => ns[t] = Host

\* A name stands for a namespace made for it (2.3, 2.9): never the host's, never
\* one another name stands for.
NamesApart ==
  \A m, n \in Names :
     mounted[m] # NoNs =>
       mounted[m] # Host /\ (m # n => mounted[n] # mounted[m])

\* A create that failed leaves nothing behind it that a later create of the same
\* name would take for a stranger's file, unless the server was killed during it.
NoLitter ==
  (\A r \in Requests : call[r] = NoCall) /\ ~killed =>
     \A n \in files : mounted[n] # NoNs

\* Joseng8908's manager knows only names that are there.
StoreMounted == \A n \in store : mounted[n] # NoNs

\* A create is answered with a path only when a namespace is mounted there (2.9).
CreateTruthful ==
  \A r \in Requests :
     Answering(r) /\ call[r].op = "create" /\ ok[r] => mounted[Name(r)] # NoNs

\* Once a name stands for a namespace it stands for no other: the interfaces
\* moved and the processes started by that name stay together.
NamesStable ==
  [][\A n \in Names : mounted[n] # NoNs => mounted'[n] = mounted[n]]_vars

\* An exec answered with a pid has started its process in the namespace the name
\* stood for (4.5), whatever the threads did meanwhile; a process started by a
\* week 1 server is in a namespace of its own (01-week/README.md 5, 6).
ChildInNamespace ==
  \A r \in Requests :
     Answering(r) /\ ok[r] /\ call[r].op \in {"exec", "run"} =>
       /\ child[r] \notin {Host, NoNs}
       /\ call[r].op = "exec" => child[r] = target[r]
       /\ call[r].op = "run" =>
            child[r] \notin {child[q] : q \in Requests \ {r}}

\* Whatever its answer, a request that has started a process leaves somebody
\* waiting for it: no zombie stays (01-week/README.md 11).
NoZombie ==
  \A r \in Requests : Answering(r) /\ child[r] # NoNs => waited[r]

\* Every request is answered.
EveryRequestAnswered ==
  \A r \in Requests : call[r] # NoCall ~> call[r] = NoCall
=============================================================================

------------------------- MODULE NetnsServer_proofs -------------------------
(***************************************************************************)
(* Proofs about NetnsServer for every set of names, threads, namespaces    *)
(* and requests, in four steps.                                            *)
(*                                                                         *)
(* First, how a call ends (MakesOutcome) and what it leaves of the script  *)
(* (Step...: what holds of every path through what is left to do goes on   *)
(* holding, whether the handler goes on, returns through its clean-up or   *)
(* loses its goroutine).  Then Base, inductive for every server in every   *)
(* environment: types, threads held by one request each, and what the      *)
(* scripts promise about the calls still to make.  Each invariant of the   *)
(* runs then gets the strengthening it needs beside Base: here that no     *)
(* zombie stays, that a manager's names are there, that variables keep     *)
(* their types and that threads come home; in NetnsServer_names what names *)
(* stand for.                                                              *)
(*                                                                         *)
(* Where an invariant depends on what the environment does, its condition  *)
(* is a definition over the members of Settings, named for what it asks.   *)
(***************************************************************************)
EXTENDS NetnsServer, NetnsScripts_proofs

\* The next call of r is made.
Op(r) == Head(todo[r]).op
Makes(r) == Anywhere(r) \/ Acquire(r) \/ \E t \in Threads : OnThread(r, t)

\* How it ends: the handler goes on, or returns with an error, or returns
\* because the namespace is there, or loses its goroutine.
GoesOn(r) == todo' = [todo EXCEPT ![r] = Tail(@)] /\ ok' = ok
MayFail(r) ==
  /\ Op(r) = "restore" => CanFail("setns")
  /\ Op(r) = "getNew" => CanFail("fd")
  /\ Op(r) = "start" => CanFail("start")
  /\ Op(r) = "pid" => child[r] = NoNs
  /\ Op(r) \notin {"lock", "unlock", "exit", "reap", "kill", "record", "restoreOrHang", "restoreOrDie"}
GivesUp(r) ==
  /\ Head(todo[r]).must /\ MayFail(r)
  /\ todo' = [todo EXCEPT ![r] = Quietly(Head(@).cleanup)]
  /\ ok' = [ok EXCEPT ![r] = FALSE]
FindsIt(r) ==
  /\ Op(r) \in {"stat", "reuse"}
  /\ mounted[Name(r)] # NoNs /\ todo' = [todo EXCEPT ![r] = << >>] /\ ok' = ok
Leaves(r) ==
  /\ Op(r) \in {"restoreOrHang", "restoreOrDie"} /\ CanFail("setns")
  /\ todo' = [todo EXCEPT ![r] = Leave(Op(r))] /\ ok' = ok

\* The variables are functions.
Functions ==
  /\ todo \in [Requests -> Seq(ScriptCall)] /\ ok \in [Requests -> BOOLEAN]
  /\ held \in [Requests -> Threads \cup {NoThread}]
  /\ orig \in [Requests -> AnyNs \cup {NoNs}]
  /\ target \in [Requests -> AnyNs \cup {NoNs}]
  /\ child \in [Requests -> AnyNs \cup {NoNs}]
  /\ waited \in [Requests -> BOOLEAN]

\* The next call decides which action it is.
LEMMA MakesOp ==
  ASSUME NEW r \in Requests, Makes(r)
  PROVE  /\ todo[r] # << >>
         /\ Op(r) = "stat" => Stat(r)
         /\ Op(r) = "reuse" => Reuse(r)
         /\ Op(r) = "isMounted" => IsMounted(r)
         /\ Op(r) = "creat" => Creat(r)
         /\ Op(r) = "create" => Create(r)
         /\ Op(r) = "remove" => Remove(r)
         /\ Op(r) = "unmount" => Unmount(r)
         /\ Op(r) = "mountOwn" => \E t \in Threads : MountOwn(r, t)
         /\ Op(r) = "mountLeader" => \E t \in Threads : MountLeader(r, t)
         /\ Op(r) = "lock" => \E t \in Threads : Lock(r, t)
         /\ Op(r) = "unlock" => Unlock(r)
         /\ Op(r) = "exit" => Exit(r)
         /\ Op(r) = "own" => \E t \in Threads : SaveOwn(r, t)
         /\ Op(r) = "leader" => SaveLeader(r)
         /\ Op(r) = "unshare" => \E t \in Threads : Unshare(r, t)
         /\ Op(r) = "getNew" => GetNew(r)
         /\ Op(r) = "open" => Open(r)
         /\ Op(r) = "enter" => \E t \in Threads : Enter(r, t)
         /\ Op(r) = "restore" => \E t \in Threads : Restore(r, t)
         /\ Op(r) = "restoreOrHang" => \E t \in Threads : RestoreOrLeave(r, t, "restoreOrHang")
         /\ Op(r) = "restoreOrDie" => \E t \in Threads : RestoreOrLeave(r, t, "restoreOrDie")
         /\ Op(r) = "start" => \E t \in Threads : Start(r, t)
         /\ Op(r) = "startNew" => StartNew(r)
         /\ Op(r) = "reap" => Reap(r)
         /\ Op(r) = "pid" => Pid(r)
         /\ Op(r) = "valid" => Valid(r)
         /\ Op(r) = "kill" => Kill(r)
         /\ Op(r) = "acquire" => Acquire(r)
         /\ Op(r) = "absent" => Absent(r)
         /\ Op(r) = "record" => Record(r)
         /\ Op(r) = "release" => Release(r)
BY DEF Makes, Anywhere, OnThread, Op, Doing, Stat, Reuse, IsMounted, Creat, Create,
       Remove, Unmount, Mount, MountOwn, MountLeader, Lock, Unlock, Exit, Save, SaveOwn, SaveLeader,
       Unshare, GetNew, Open, Enter, Restore, RestoreOrLeave, Start, StartNew, Reap, Pid,
       Valid, Kill, Acquire, Absent, Record, Release

LEMMA MakesOutcome ==
  ASSUME NEW r \in Requests, Makes(r)
  PROVE  GoesOn(r) \/ GivesUp(r) \/ FindsIt(r) \/ Leaves(r)
<1> USE DEF Op, Doing, Goes, Fails, Returns, GoesOn, GivesUp, FindsIt, Leaves, MayFail
<1>1. CASE Stat(r) \/ Reuse(r) \/ IsMounted(r) \/ Creat(r) \/ Create(r) \/ Remove(r) \/ Unmount(r)
  BY <1>1 DEF Stat, Reuse, IsMounted, Creat, Create, Remove, Unmount
<1>2. CASE \/ Unlock(r) \/ Exit(r) \/ SaveLeader(r) \/ GetNew(r) \/ Open(r) \/ StartNew(r)
           \/ Reap(r) \/ Pid(r) \/ Valid(r) \/ Kill(r)
  BY <1>2 DEF Unlock, Exit, Save, SaveLeader, GetNew, Open, StartNew, Reap, Pid, Valid, Kill
<1>3. CASE Acquire(r) \/ Absent(r) \/ Record(r) \/ Release(r)
  BY <1>3 DEF Acquire, Absent, Record, Release
<1>4. ASSUME NEW t \in Threads,
             \/ MountOwn(r, t) \/ MountLeader(r, t) \/ Lock(r, t) \/ SaveOwn(r, t)
             \/ Unshare(r, t) \/ Enter(r, t) \/ Start(r, t)
      PROVE  GoesOn(r) \/ GivesUp(r)
  BY <1>4 DEF MountOwn, MountLeader, Mount, Lock, Save, SaveOwn, Unshare, Enter, Start
<1>5. ASSUME NEW t \in Threads, \E op \in {"restoreOrHang", "restoreOrDie"} : RestoreOrLeave(r, t, op)
      PROVE  GoesOn(r) \/ Leaves(r)
  BY <1>5 DEF RestoreOrLeave
<1>6. ASSUME NEW t \in Threads, Restore(r, t)
      PROVE  GoesOn(r) \/ GivesUp(r)
  BY <1>6 DEF Restore
<1>7. QED
  BY <1>1, <1>2, <1>3, <1>4, <1>5, <1>6 DEF Makes, Anywhere, OnThread

LEMMA MakesFrame ==
  ASSUME NEW r \in Requests, Makes(r)
  PROVE  /\ setting' = setting /\ killed' = killed /\ call' = call
         /\ Op(r) \notin {"lock", "unlock", "exit"} => thread' = thread /\ held' = held
         /\ Op(r) \notin {"exit", "unshare", "enter", "restore", "restoreOrHang", "restoreOrDie"} =>
              ns' = ns
         /\ Op(r) \notin {"unmount", "mountOwn", "mountLeader"} => mounted' = mounted
         /\ Op(r) \notin {"creat", "create", "remove"} => files' = files
         /\ Op(r) \notin {"own", "leader"} => orig' = orig
         /\ Op(r) # "open" => target' = target
         /\ Op(r) \notin {"start", "startNew", "kill"} => child' = child
         /\ Op(r) # "reap" => waited' = waited
         /\ Op(r) # "record" => store' = store
         /\ Op(r) \notin {"acquire", "release"} => mu' = mu
BY DEF Makes, Anywhere, OnThread, Op, Doing, Stat, Reuse, IsMounted, Creat, Create,
       Remove, Unmount, Mount, MountOwn, MountLeader, Lock, Unlock, Exit, Save, SaveOwn, SaveLeader,
       Unshare, GetNew, Open, Enter, Restore, RestoreOrLeave, Start, StartNew, Reap, Pid,
       Valid, Kill, Acquire, Absent, Record, Release,
       UnchangedKernel, UnchangedLocals, Elsewhere, kernelVars, managerVars

\* One request's call leaves the others where they are.
LEMMA MakesAlone ==
  ASSUME NEW r \in Requests, Makes(r), Functions, NEW q \in Requests, q # r
  PROVE  /\ todo'[q] = todo[q] /\ ok'[q] = ok[q] /\ held'[q] = held[q]
         /\ orig'[q] = orig[q] /\ target'[q] = target[q]
         /\ child'[q] = child[q] /\ waited'[q] = waited[q]
BY ZenonT(30) DEF Makes, Anywhere, OnThread, Op, Doing, Stat, Reuse, IsMounted, Creat, Create,
       Remove, Unmount, Mount, MountOwn, MountLeader, Lock, Unlock, Exit, Save, SaveOwn, SaveLeader,
       Unshare, GetNew, Open, Enter, Restore, RestoreOrLeave, Start, StartNew, Reap, Pid,
       Valid, Kill, Acquire, Absent, Record, Release, Goes, Fails, Returns,
       UnchangedKernel, UnchangedLocals, Elsewhere, kernelVars, managerVars, Functions

-----------------------------------------------------------------------------
(* What is left to do after a call *)

LEMMA MakesRest ==
  ASSUME NEW r \in Requests, Functions, Makes(r)
  PROVE  /\ todo[r] \in Seq(ScriptCall) /\ todo[r] # << >> /\ Op(r) = Head(todo[r]).op
         /\ Leaves(r) => todo'[r] = Leave(Op(r)) /\ ok'[r] = ok[r]
         /\ GoesOn(r) => todo'[r] = Tail(todo[r]) /\ ok'[r] = ok[r]
         /\ GivesUp(r) => /\ Head(todo[r]).must /\ MayFail(r)
                          /\ todo'[r] = Quietly(Head(todo[r]).cleanup) /\ ~ok'[r]
         /\ FindsIt(r) => todo'[r] = << >> /\ ok'[r] = ok[r]
         /\ ~Leaves(r) => Onward(todo[r], todo'[r], {})
<1>1. todo[r] \in Seq(ScriptCall) /\ todo[r] # << >>
  BY MakesOp DEF Functions
<1>2. /\ Leaves(r) => todo'[r] = Leave(Op(r)) /\ ok'[r] = ok[r]
      /\ GoesOn(r) => todo'[r] = Tail(todo[r]) /\ ok'[r] = ok[r]
      /\ GivesUp(r) => /\ Head(todo[r]).must /\ MayFail(r)
                       /\ todo'[r] = Quietly(Head(todo[r]).cleanup) /\ ~ok'[r]
      /\ FindsIt(r) => todo'[r] = << >> /\ ok'[r] = ok[r]
  BY DEF Functions, Leaves, GoesOn, GivesUp, FindsIt
<1>3. QED
  BY <1>1, <1>2, MakesOutcome DEF Onward, Abandons, Op

LEMMA MakesOnward ==
  ASSUME NEW r \in Requests, Functions, Makes(r), ~Leaves(r),
         NEW sure, MayFail(r) => Op(r) \notin sure
  PROVE  /\ Onward(todo[r], todo'[r], sure)
         /\ GivesUp(r) \/ FindsIt(r) => Abandons(todo[r], todo'[r], sure)
BY MakesRest, MakesOutcome DEF Onward, Abandons

LEMMA LeaveShape ==
  ASSUME NEW op
  PROVE  /\ Shape(Leave(op)) /\ Leave(op) # << >>
         /\ Leads(Leave(op), {"unlock", "exit"}, Finders, {})
         /\ \A i \in DOMAIN Leave(op) : /\ Leave(op)[i].op \in {"unlock", "exit", "hang"}
                                        /\ ~Leave(op)[i].must
                                        /\ Leave(op)[i].cleanup = << >>
<1> DEFINE s == Leave(op)
<1>1. \/ DOMAIN s = 1 .. 2 /\ s[1] = Do("unlock") /\ s[2] = Do("hang")
      \/ DOMAIN s = 1 .. 1 /\ s[1] = Do("exit")
  BY DEF Leave
<1>2. s \in Seq(ScriptCall)
  <2>1. Do("unlock") \in ScriptCall /\ Do("hang") \in ScriptCall /\ Do("exit") \in ScriptCall
    BY DEF Do, ScriptCall, OpNames
  <2>2. s = <<Do("unlock"), Do("hang")>> \/ s = <<Do("exit")>>
    BY DEF Leave
  <2>3. CASE s = <<Do("unlock"), Do("hang")>>
    BY <2>1, <2>3
  <2>4. CASE s = <<Do("exit")>>
    BY <2>1, <2>4
  <2>5. QED
    BY <2>2, <2>3, <2>4
<1>3. \A i \in DOMAIN s : /\ s[i].op \in {"unlock", "exit", "hang"}
                          /\ ~s[i].must /\ s[i].cleanup = << >>
  BY <1>1 DEF Do
<1>4. Leads(s, {"unlock", "exit"}, Finders, {})
  BY <1>1 DEF Leads, CanEnd, Finders, Do
<1> HIDE DEF s
<1>5. Plain(s)
  BY <1>3 DEF Plain, CleanupsAvoid, Musts, Checked
<1>6. Locked(s)
  BY <1>3 DEF Locked, After, AfterLeads, Reaches, Abroad
<1>7. Fresh(s)
  BY <1>3 DEF Fresh, After, Reaches, Abroad
<1>8. Leave(op) # << >>
  BY DEF Leave
<1>9. QED
  BY <1>2, <1>3, <1>4, <1>5, <1>6, <1>7, <1>8 DEF Shape, s

LEMMA LeavePreceded ==
  ASSUME NEW op, NEW A, NEW B, NEW sure, A \cap {"unlock", "exit", "hang"} = {}
  PROVE  Preceded(Leave(op), A, B, sure)
BY LeaveShape DEF Preceded, Reaches

LEMMA LeaveAfter ==
  ASSUME NEW op, NEW C, NEW A, NEW B, NEW sure,
         \/ A \cap {"unlock", "exit", "hang"} = {}
         \/ C \cap {"unlock", "exit", "hang"} = {}
  PROVE  After(Leave(op), C, A, B, sure)
BY LeaveShape DEF After, Reaches

LEMMA StepPreceded ==
  ASSUME NEW r \in Requests, Functions, Makes(r), NEW A, NEW B, NEW sure,
         Preceded(todo[r], A, B, sure),
         Op(r) \in B => GivesUp(r) \/ FindsIt(r) \/ Leaves(r), MayFail(r) => Op(r) \notin sure,
         Leaves(r) => A \cap {"unlock", "exit", "hang"} = {}
  PROVE  Preceded(todo'[r], A, B, sure)
<1>1. CASE Leaves(r)
  BY <1>1, MakesRest, LeavePreceded
<1>2. CASE ~Leaves(r)
  <2>1. /\ todo[r] \in Seq(ScriptCall) /\ Onward(todo[r], todo'[r], sure)
        /\ Head(todo[r]).op \in B => Abandons(todo[r], todo'[r], sure)
    BY <1>2, MakesRest, MakesOnward
  <2>2. QED
    BY <2>1, PrecededOnward
<1>3. QED
  BY <1>1, <1>2

\* The next call is the one others come after.
LEMMA StepAfterHead ==
  ASSUME NEW r \in Requests, Functions, Makes(r), NEW C, NEW A, NEW B, NEW sure,
         After(todo[r], C, A, B, sure), Op(r) \in C, GoesOn(r)
  PROVE  Preceded(todo'[r], A, B, sure)
<1>1. todo[r] \in Seq(ScriptCall) /\ todo[r] # << >> /\ Head(todo[r]).op \in C
      /\ todo'[r] = Tail(todo[r])
  BY MakesRest
<1>2. QED
  BY <1>1, AfterHead

LEMMA StepAfter ==
  ASSUME NEW r \in Requests, Functions, Makes(r), NEW C, NEW A, NEW B, NEW sure,
         After(todo[r], C, A, B, sure), CleanupsAvoid(todo[r], C) \/ CleanupsAvoid(todo[r], A),
         \/ A \cap {"unlock", "exit", "hang"} = {}
         \/ C \cap {"unlock", "exit", "hang"} = {}
  PROVE  After(todo'[r], C, A, B, sure)
<1>1. CASE Leaves(r)
  BY <1>1, MakesRest, LeaveAfter
<1>2. CASE ~Leaves(r)
  BY <1>2, MakesRest, AfterOnward
<1>3. QED
  BY <1>1, <1>2

LEMMA StepShape ==
  ASSUME NEW r \in Requests, Functions, Makes(r), Shape(todo[r])
  PROVE  Shape(todo'[r])
<1>1. CASE Leaves(r)
  BY <1>1, MakesRest, LeaveShape
<1>2. CASE ~Leaves(r)
  <2>1. todo[r] \in Seq(ScriptCall) /\ Onward(todo[r], todo'[r], {})
    BY <1>2, MakesRest
  <2>2. CleanupsAvoid(todo[r], Firsts)
    BY DEF Shape, Plain
  <2>3. /\ CleanupsAvoid(todo[r], Abroad) /\ CleanupsAvoid(todo[r], {"lock"})
        /\ CleanupsAvoid(todo[r], {"mountOwn"}) /\ CleanupsAvoid(todo[r], {"own"})
        /\ CleanupsAvoid(todo[r], Checked)
    BY <2>2 DEF CleanupsAvoid, Firsts, Abroad, Checked
  <2>4. Plain(todo'[r])
    BY <2>1, <2>2, <2>3, CleanupsAvoidOnward, MustsOnward DEF Shape, Plain
  <2>5. Locked(todo'[r])
    BY <2>1, <2>3, AfterOnward, AfterLeadsOnward DEF Shape, Locked
  <2>6. Fresh(todo'[r])
    BY <2>1, <2>3, AfterOnward DEF Shape, Fresh
  <2>7. QED
    BY <2>1, <2>4, <2>5, <2>6, OnwardType DEF Shape
<1>3. QED
  BY <1>1, <1>2

LEMMA StepLeads ==
  ASSUME NEW r \in Requests, Functions, Makes(r), NEW B, NEW enders, NEW sure,
         Leads(todo[r], B, enders, sure), Op(r) \notin B, ~Leaves(r),
         MayFail(r) => Op(r) \notin sure, Finders \subseteq enders, B \cap enders = {}
  PROVE  Leads(todo'[r], B, enders, sure)
<1>1. todo[r] \in Seq(ScriptCall) /\ Onward(todo[r], todo'[r], sure)
  BY MakesRest, MakesOnward
<1>2. Op(r) \notin enders
  BY <1>1, LeadsHead DEF CanEnd, Op
<1>3. ~FindsIt(r)
  BY <1>2 DEF FindsIt, Finders
<1>4. GoesOn(r) \/ GivesUp(r)
  BY <1>3, MakesOutcome
<1>5. CASE GoesOn(r)
  <2>1. todo[r] # << >> /\ Head(todo[r]).op \notin B /\ todo'[r] = Tail(todo[r])
    BY <1>5, MakesRest
  <2>2. QED
    BY <1>1, <2>1, LeadsTail
<1>6. CASE GivesUp(r)
  <2>1. /\ Head(todo[r]).must /\ Head(todo[r]).op \notin sure
        /\ todo'[r] = Quietly(Head(todo[r]).cleanup)
    BY <1>6, MakesRest
  <2>2. QED
    BY <1>1, <2>1, LeadsCleanup
<1>7. QED
  BY <1>4, <1>5, <1>6

-----------------------------------------------------------------------------
(* What is so of every server, whatever its environment does *)

Typed ==
  /\ setting \in Settings
  /\ thread \in [Threads -> {"pool", "held", "parked", "absent"}]
  /\ ns \in [Threads -> AnyNs]
  /\ files \in SUBSET Names
  /\ mounted \in [Names -> AnyNs \cup {NoNs}]
  /\ store \in SUBSET Names
  /\ mu \in Requests \cup {Nobody}
  /\ killed \in BOOLEAN
  /\ call \in [Requests -> Calls \cup {NoCall}]
  /\ Functions

\* A request nobody has made yet has no state; one that has not locked its
\* thread does not leave its namespace, and one that has will give it back; a
\* way home is taken only when there is one; and only creates touch mount points.
RequestInv(r) ==
  /\ Shape(todo[r])
  /\ call[r] = NoCall => /\ todo[r] = << >> /\ orig[r] = NoNs /\ target[r] = NoNs
                         /\ child[r] = NoNs /\ ~waited[r]
  /\ call[r] # NoCall => setting.server \in DOMAIN Script[call[r].op]
  /\ call[r] # NoCall /\ call[r].op # "create" => Harmless(todo[r])
  /\ held[r] = NoThread => Preceded(todo[r], Abroad, {"lock"}, {})
  /\ held[r] # NoThread => /\ thread[held[r]] = "held"
                           /\ Leads(todo[r], {"unlock", "exit"}, Finders, {})
  /\ orig[r] = NoNs => Preceded(todo[r], Homes, {"own", "leader"}, {})
ThreadsApart ==
  \A q, r \in Requests : q # r /\ held[q] # NoThread => held[q] # held[r]

Base == Typed /\ ThreadsApart /\ \A r \in Requests : RequestInv(r)

LEMMA CallTypes ==
  /\ NoCall \notin Calls
  /\ \A c \in Calls : c.op \in DOMAIN Script /\ (c.op # "run" => c.name \in Names)
BY NoneAssumption, ScriptDomains DEF Calls

LEMMA EmptyShape == Shape(<< >>) /\ \A A, B, sure : Preceded(<< >>, A, B, sure)
BY DEF Shape, Plain, Locked, Fresh, CleanupsAvoid, Musts, After, AfterLeads, Preceded

LEMMA InitBase == ASSUME Init PROVE Base
<1>1. << >> \in Seq(ScriptCall)
  OBVIOUS
<1>2. Typed
  BY <1>1, LeaderAssumption DEF Init, Typed, Functions, AnyNs
<1>3. ThreadsApart
  BY DEF Init, ThreadsApart
<1>4. ASSUME NEW r \in Requests PROVE RequestInv(r)
  BY EmptyShape DEF Init, RequestInv
<1>5. QED
  BY <1>2, <1>3, <1>4 DEF Base

\* A step is a call of a script, a request's beginning or end, a thread's start,
\* or the process's end.
LEMMA NextCases ==
  ASSUME Next
  PROVE  \/ \E r \in Requests : Makes(r)
         \/ \E r \in Requests : Answer(r)
         \/ \E r \in Requests, c \in Calls : Accept(r, c)
         \/ \E t \in Threads : Spawn(t)
         \/ Killed
BY DEF Next, Step, Makes

\* A call that changes a mount point is a create's.
LEMMA ToucherCreates ==
  ASSUME Base, NEW r \in Requests, Makes(r),
         Op(r) \in Mounts \cup Finders \cup {"creat", "create", "remove", "unmount", "record"}
  PROVE  call[r] \in Calls /\ call[r].op = "create" /\ Name(r) \in Names
<1>1. todo[r] # << >> /\ todo[r] \in Seq(ScriptCall) /\ RequestInv(r)
      /\ Op(r) = Head(todo[r]).op /\ call[r] \in Calls \cup {NoCall}
  BY MakesRest DEF Base, Typed
<1>2. call[r] # NoCall
  BY <1>1 DEF RequestInv
<1>3. call[r].op = "create"
  BY <1>1, <1>2, PrecededHead DEF RequestInv, Harmless, Never
<1>4. QED
  BY <1>1, <1>2, <1>3, CallTypes DEF Name

\* Where a failure cannot be ignored, the handler gives up.
LEMMA FailsGivesUp ==
  ASSUME Base, NEW r \in Requests, Makes(r), Fails(r),
         Op(r) \in Checked \ {"start"}
  PROVE  GivesUp(r)
<1>1. Musts(todo[r], Checked)
  BY DEF Base, RequestInv, Shape, Plain
<1>2. Head(todo[r]).must
  BY <1>1, MakesRest, HeadTail DEF Base, Typed, Musts
<1>3. QED
  BY <1>2 DEF Fails, GivesUp, MayFail, Checked

LEMMA MakesTyped ==
  ASSUME Base, NEW r \in Requests, Makes(r)
  PROVE  Typed'
<1>1. Typed /\ Functions /\ RequestInv(r) /\ todo[r] # << >> /\ todo[r] \in Seq(ScriptCall)
      /\ Op(r) = Head(todo[r]).op
  BY MakesRest DEF Base, Typed
<1>2. thread' \in [Threads -> {"pool", "held", "parked", "absent"}]
      /\ held' \in [Requests -> Threads \cup {NoThread}]
  <2>1. CASE Op(r) \in {"lock", "unlock", "exit"}
    <3>1. PICK t \in Threads \cup {NoThread}, u \in Threads \cup {NoThread},
               x \in {"pool", "held", "parked", "absent"} :
            thread' = [thread EXCEPT ![u] = x] /\ held' = [held EXCEPT ![r] = t]
      <4>1. (\E t \in Threads : Lock(r, t)) \/ Unlock(r) \/ Exit(r)
        BY <2>1, MakesOp
      <4>2. held[r] \in Threads \cup {NoThread} /\ Leader \in Threads
        BY <1>1, LeaderAssumption DEF Functions
      <4>3. QED
        BY <4>1, <4>2 DEF Lock, Unlock, Exit
    <3>2. QED
      BY <1>1, <3>1 DEF Typed, Functions
  <2>2. QED
    BY <1>1, <2>1, MakesFrame DEF Typed, Functions
<1>3. orig[r] \in AnyNs \/ Op(r) \notin Homes
  BY <1>1, PrecededHead DEF Typed, Functions, RequestInv
<1>4. ns' \in [Threads -> AnyNs]
  <2>1. CASE Op(r) = "exit"
    BY <1>1, <2>1, MakesOp DEF Typed, Exit, AnyNs
  <2>2. CASE Op(r) = "unshare"
    BY <1>1, <2>2, MakesOp DEF Typed, Unshare, Unused, AnyNs
  <2>3. CASE Op(r) = "enter"
    <3>1. PICK t \in Threads : Enter(r, t)
      BY <2>3, MakesOp
    <3>2. ns' = ns \/ (target[r] # NoNs /\ ns' = [ns EXCEPT ![t] = target[r]])
      BY <3>1 DEF Enter
    <3>3. QED
      BY <1>1, <3>2 DEF Typed, Functions
  <2>4. CASE Op(r) \in Homes
    BY <1>1, <1>3, <2>4, MakesOp DEF Typed, Restore, RestoreOrLeave, Homes
  <2>5. QED
    BY <1>1, <2>1, <2>2, <2>3, <2>4, MakesFrame DEF Typed, Homes
<1>5. files' \in SUBSET Names
  BY <1>1, ToucherCreates, MakesFrame, MakesOp DEF Typed, Creat, Create, Remove
<1>6. mounted' \in [Names -> AnyNs \cup {NoNs}]
  BY <1>1, LeaderAssumption, MakesFrame, MakesOp
     DEF Typed, Unmount, MountOwn, MountLeader, Mount
<1>7. store' \in SUBSET Names
  BY <1>1, ToucherCreates, MakesFrame, MakesOp DEF Typed, Record
<1>8. mu' \in Requests \cup {Nobody}
  BY <1>1, MakesFrame, MakesOp DEF Typed, Acquire, Release
<1>9. setting' \in Settings /\ killed' \in BOOLEAN /\ call' \in [Requests -> Calls \cup {NoCall}]
  BY <1>1, MakesFrame DEF Typed
<1>10. todo' \in [Requests -> Seq(ScriptCall)] /\ ok' \in [Requests -> BOOLEAN]
  <2>1. todo'[r] \in Seq(ScriptCall)
    BY <1>1, StepShape DEF RequestInv, Shape
  <2>2. todo' = [todo EXCEPT ![r] = todo'[r]] /\ (ok' = ok \/ ok' = [ok EXCEPT ![r] = FALSE])
    BY <1>1, MakesOutcome DEF Functions, GoesOn, GivesUp, FindsIt, Leaves
  <2>3. QED
    BY <1>1, <2>1, <2>2 DEF Functions
<1>11. orig' \in [Requests -> AnyNs \cup {NoNs}]
  <2>1. CASE Op(r) \in {"own", "leader"}
    <3>1. PICK t \in Threads : orig' = orig \/ orig' = [orig EXCEPT ![r] = ns[t]]
      BY <2>1, LeaderAssumption, MakesOp DEF SaveOwn, SaveLeader, Save
    <3>2. QED
      BY <1>1, <3>1 DEF Typed, Functions
  <2>2. QED
    BY <1>1, <2>1, MakesFrame DEF Typed, Functions
<1>12. target' \in [Requests -> AnyNs \cup {NoNs}]
  <2>1. CASE Op(r) = "open"
    <3>1. \/ target' = target
          \/ Name(r) \in files /\ target' = [target EXCEPT ![r] = mounted[Name(r)]]
      BY <2>1, MakesOp DEF Open
    <3>2. QED
      BY <1>1, <3>1 DEF Typed, Functions
  <2>2. QED
    BY <1>1, <2>1, MakesFrame DEF Typed, Functions
<1>13. child' \in [Requests -> AnyNs \cup {NoNs}]
  <2>1. CASE Op(r) \in {"start", "startNew", "kill"}
    <3>1. ns \in [Threads -> AnyNs]
      BY <1>1 DEF Typed
    <3>2. PICK x \in AnyNs \cup {NoNs} : child' = child \/ child' = [child EXCEPT ![r] = x]
      BY <2>1, <3>1, MakesOp DEF Start, StartNew, Kill, Unused, AnyNs
    <3>3. QED
      BY <1>1, <3>2 DEF Functions
  <2>2. QED
    BY <1>1, <2>1, MakesFrame DEF Typed, Functions
<1>14. waited' \in [Requests -> BOOLEAN]
  BY <1>1, MakesFrame, MakesOp DEF Typed, Functions, Reap
<1>15. QED
  BY <1>2, <1>4, <1>5, <1>6, <1>7, <1>8, <1>9, <1>10, <1>11, <1>12, <1>13, <1>14
     DEF Typed, Functions, AnyNs, Calls

LEMMA MakesThreadsApart ==
  ASSUME Base, NEW r \in Requests, Makes(r)
  PROVE  ThreadsApart'
<1>1. Functions /\ ThreadsApart /\ \A q \in Requests : RequestInv(q)
  BY DEF Base, Typed
<1>2. \A q \in Requests : q # r => held'[q] = held[q]
  BY <1>1, MakesAlone
<1>3. CASE Op(r) = "lock"
  <2>1. PICK t \in Threads : Lock(r, t)
    BY <1>3, MakesOp
  <2>2. held'[r] = t /\ (held[r] = t \/ thread[t] = "pool")
    BY <1>1, <2>1 DEF Functions, Lock, RunsOn
  <2>3. QED
    BY <1>1, <1>2, <2>2, NoneAssumption DEF ThreadsApart, RequestInv
<1>4. CASE Op(r) # "lock"
  <2>1. held'[r] \in {held[r], NoThread}
    BY <1>1, <1>4, MakesFrame, MakesOp DEF Functions, Unlock, Exit
  <2>2. QED
    BY <1>1, <1>2, <2>1 DEF ThreadsApart
<1>5. QED
  BY <1>3, <1>4

LEMMA MakesRequest ==
  ASSUME Base, NEW r \in Requests, Makes(r)
  PROVE  RequestInv(r)'
<1>1. /\ Typed /\ Functions /\ RequestInv(r) /\ Typed' /\ Shape(todo[r])
      /\ todo[r] # << >> /\ todo[r] \in Seq(ScriptCall)
      /\ call' = call /\ setting' = setting /\ call[r] # NoCall
  BY MakesRest, MakesFrame, MakesTyped DEF Base, Typed, RequestInv
<1>2. Shape(todo'[r])
  BY <1>1, StepShape
<1>3. ASSUME call[r].op # "create" PROVE Harmless(todo'[r])
  BY <1>1, <1>3, StepPreceded DEF RequestInv, Harmless, Never, Finders, Mounts
<1>4. ASSUME held'[r] = NoThread PROVE Preceded(todo'[r], Abroad, {"lock"}, {})
  <2>1. CASE Op(r) \in {"unlock", "exit"}
    <3>1. GoesOn(r)
      BY <2>1, MakesOutcome DEF GivesUp, MayFail, FindsIt, Leaves
    <3>2. After(todo[r], {"unlock", "exit"}, Abroad, {"lock"}, {})
      BY <1>1 DEF Shape, Locked
    <3>3. QED
      BY <1>1, <2>1, <3>1, <3>2, StepAfterHead
  <2>2. CASE Op(r) \notin {"unlock", "exit"}
    <3>1. held[r] = NoThread /\ Op(r) # "lock"
      BY <1>1, <1>4, <2>2, NoneAssumption, MakesFrame, MakesOp DEF Functions, Lock
    <3>2. Preceded(todo[r], Abroad, {"lock"}, {})
      BY <1>1, <3>1 DEF RequestInv
    <3>3. QED
      BY <1>1, <3>1, <3>2, StepPreceded DEF Abroad
  <2>3. QED
    BY <2>1, <2>2
<1>5. ASSUME held'[r] # NoThread
      PROVE  thread'[held'[r]] = "held" /\ Leads(todo'[r], {"unlock", "exit"}, Finders, {})
  <2>1. CASE Op(r) = "lock"
    <3>1. GoesOn(r)
      BY <2>1, MakesOutcome DEF GivesUp, MayFail, FindsIt, Leaves
    <3>2. AfterLeads(todo[r], {"lock"}, {"unlock", "exit"}, Finders, {})
      BY <1>1 DEF Shape, Locked
    <3>3. todo'[r] = Tail(todo[r]) /\ Head(todo[r]).op \in {"lock"}
      BY <1>1, <2>1, <3>1, MakesRest
    <3>4. Leads(todo'[r], {"unlock", "exit"}, Finders, {})
      BY <1>1, <3>2, <3>3, AfterLeadsHead
    <3>5. PICK t \in Threads : Lock(r, t)
      BY <2>1, MakesOp
    <3>6. QED
      BY <1>1, <3>4, <3>5 DEF Lock, Typed, Functions
  <2>2. CASE Op(r) # "lock"
    <3>1. Op(r) \notin {"unlock", "exit"}
      BY <1>1, <1>5, MakesOp DEF Functions, Unlock, Exit
    <3>2. held' = held /\ thread' = thread
      BY <2>2, <3>1, MakesFrame
    <3>3. thread[held[r]] = "held" /\ Leads(todo[r], {"unlock", "exit"}, Finders, {})
      BY <1>1, <1>5, <3>2 DEF RequestInv
    <3>4. CASE Leaves(r)
      BY <1>1, <3>2, <3>3, <3>4, MakesRest, LeaveShape
    <3>5. CASE ~Leaves(r)
      <4>1. {"unlock", "exit"} \cap Finders = {}
        BY DEF Finders
      <4>2. QED
        BY <1>1, <3>1, <3>2, <3>3, <3>5, <4>1, StepLeads
    <3>6. QED
      BY <3>4, <3>5
  <2>3. QED
    BY <2>1, <2>2
<1>6. ASSUME orig'[r] = NoNs PROVE Preceded(todo'[r], Homes, {"own", "leader"}, {})
  <2>1. orig[r] = NoNs /\ (Op(r) \in {"own", "leader"} => GivesUp(r))
    <3>1. CASE Op(r) \in {"own", "leader"}
      <4>1. PICK t \in Threads, op \in {"own", "leader"} : Save(r, op, ns[t])
        BY <3>1, LeaderAssumption, MakesOp DEF SaveOwn, SaveLeader
      <4>2. ns[t] # NoNs
        BY <1>1, NoneAssumption DEF Typed, AnyNs
      <4>3. orig' = orig /\ Fails(r)
        BY <1>1, <1>6, <4>1, <4>2 DEF Save, Typed, Functions
      <4>4. QED
        BY <1>6, <3>1, <4>3, FailsGivesUp DEF Checked
    <3>2. QED
      BY <1>1, <1>6, <3>1, MakesFrame
  <2>2. Preceded(todo[r], Homes, {"own", "leader"}, {})
    BY <1>1, <2>1 DEF RequestInv
  <2>3. QED
    BY <1>1, <2>1, <2>2, StepPreceded DEF Homes
<1>7. QED
  BY <1>1, <1>2, <1>3, <1>4, <1>5, <1>6 DEF RequestInv

LEMMA MakesOthers ==
  ASSUME Base, NEW r \in Requests, Makes(r), NEW q \in Requests, q # r
  PROVE  RequestInv(q)'
<1>1. Functions /\ RequestInv(q) /\ RequestInv(r) /\ ThreadsApart
  BY DEF Base, Typed
<1>2. /\ call' = call /\ setting' = setting /\ todo'[q] = todo[q] /\ held'[q] = held[q]
      /\ orig'[q] = orig[q] /\ target'[q] = target[q] /\ child'[q] = child[q]
      /\ waited'[q] = waited[q]
  BY <1>1, MakesFrame, MakesAlone
<1>3. held[q] # NoThread => thread'[held[q]] = "held"
  <2>1. CASE Op(r) = "lock"
    <3>1. PICK t \in Threads : Lock(r, t)
      BY <2>1, MakesOp
    <3>2. QED
      BY <1>1, <3>1 DEF Lock, RequestInv, Base, Typed, Functions
  <2>2. CASE Op(r) \in {"unlock", "exit"}
    <3>1. held[q] # NoThread => held[q] # held[r]
      BY <1>1 DEF ThreadsApart
    <3>2. Unlock(r) \/ Exit(r)
      BY <2>2, MakesOp
    <3>3. QED
      BY <1>1, <3>1, <3>2 DEF Unlock, Exit, RequestInv, Base, Typed, Functions
  <2>3. QED
    BY <1>1, <2>1, <2>2, MakesFrame DEF RequestInv
<1>4. QED
  BY <1>1, <1>2, <1>3 DEF RequestInv

LEMMA MakesBase ==
  ASSUME Base, NEW r \in Requests, Makes(r)
  PROVE  Base'
BY MakesTyped, MakesThreadsApart, MakesRequest, MakesOthers DEF Base

LEMMA AcceptBase ==
  ASSUME Base, NEW r \in Requests, NEW c \in Calls, Accept(r, c)
  PROVE  Base'
<1> DEFINE s == Script[c.op][setting.server]
<1>1. /\ call[r] = NoCall /\ c # NoCall /\ setting.server \in DOMAIN Script[c.op]
      /\ c.op \in DOMAIN Script
      /\ call' = [call EXCEPT ![r] = c] /\ todo' = [todo EXCEPT ![r] = s]
      /\ ok' = [ok EXCEPT ![r] = TRUE]
      /\ UNCHANGED <<setting, thread, ns, files, mounted, store, mu, killed, held, orig,
                     target, child, waited>>
  BY CallTypes DEF Accept, UnchangedKernel, UnchangedLocals, kernelVars, managerVars
<1>2. /\ Shape(s) /\ Begins(s) /\ (c.op # "create" => Harmless(s))
      /\ s \in Seq(ScriptCall)
  BY <1>1, ScriptBegins, ScriptDomains DEF Shape
<1> HIDE DEF s
<1>3. Typed'
  BY <1>1, <1>2 DEF Base, Typed, Functions, AnyNs, Calls
<1>4. ThreadsApart'
  BY <1>1 DEF Base, ThreadsApart
<1>5. ASSUME NEW q \in Requests PROVE RequestInv(q)'
  <2>1. CASE q # r
    BY <1>1, <2>1 DEF Base, Typed, Functions, RequestInv
  <2>2. CASE q = r
    <3>1. held[r] = NoThread
      BY <1>1, LeadsHead DEF Base, RequestInv, Shape
    <3>2. call'[r] = c /\ todo'[r] = s
      BY <1>1 DEF Base, Typed, Functions
    <3>3. QED
      BY <1>1, <1>2, <2>2, <3>1, <3>2 DEF RequestInv, Begins
  <2>3. QED
    BY <2>1, <2>2
<1>6. QED
  BY <1>3, <1>4, <1>5 DEF Base

LEMMA AnswerBase ==
  ASSUME Base, NEW r \in Requests, Answer(r)
  PROVE  Base'
<1>1. /\ todo[r] = << >>
      /\ call' = [call EXCEPT ![r] = NoCall] /\ orig' = [orig EXCEPT ![r] = NoNs]
      /\ target' = [target EXCEPT ![r] = NoNs] /\ child' = [child EXCEPT ![r] = NoNs]
      /\ waited' = [waited EXCEPT ![r] = FALSE]
      /\ UNCHANGED <<setting, thread, ns, files, mounted, store, mu, killed, todo, ok, held>>
  BY DEF Answer, Answering, kernelVars, managerVars
<1>2. Typed'
  BY <1>1 DEF Base, Typed, Functions, AnyNs, Calls
<1>3. ThreadsApart'
  BY <1>1 DEF Base, ThreadsApart
<1>4. ASSUME NEW q \in Requests PROVE RequestInv(q)'
  <2>1. CASE q # r
    BY <1>1, <2>1 DEF Base, Typed, Functions, RequestInv
  <2>2. CASE q = r
    <3>1. held[r] = NoThread
      BY <1>1, LeadsHead DEF Base, RequestInv, Shape
    <3>2. QED
      BY <1>1, <2>2, <3>1, EmptyShape DEF Base, Typed, Functions, RequestInv
  <2>3. QED
    BY <2>1, <2>2
<1>5. QED
  BY <1>2, <1>3, <1>4 DEF Base

LEMMA SpawnBase ==
  ASSUME Base, NEW t \in Threads, Spawn(t)
  PROVE  Base'
<1>1. /\ thread[t] = "absent" /\ thread' = [thread EXCEPT ![t] = "pool"]
      /\ UNCHANGED <<setting, files, mounted, store, mu, killed, call, todo, ok, held, orig,
                     target, child, waited>>
  BY DEF Spawn, managerVars, requestVars
<1>2. PICK x \in AnyNs : ns' = [ns EXCEPT ![t] = x]
  BY DEF Spawn, Base, Typed, AnyNs
<1>3. Typed'
  BY <1>1, <1>2 DEF Base, Typed, Functions, AnyNs, Calls
<1>4. ThreadsApart'
  BY <1>1 DEF Base, ThreadsApart
<1>5. ASSUME NEW q \in Requests PROVE RequestInv(q)'
  BY <1>1 DEF Base, Typed, Functions, RequestInv
<1>6. QED
  BY <1>3, <1>4, <1>5 DEF Base

LEMMA KilledBase ==
  ASSUME Base, Killed
  PROVE  Base'
<1>1. << >> \in Seq(ScriptCall)
  OBVIOUS
<1>2. Typed'
  BY <1>1, LeaderAssumption DEF Killed, Boot, Base, Typed, Functions, AnyNs, Calls
<1>3. ThreadsApart'
  BY DEF Killed, Boot, ThreadsApart
<1>4. ASSUME NEW q \in Requests PROVE RequestInv(q)'
  BY EmptyShape DEF Killed, Boot, RequestInv
<1>5. QED
  BY <1>2, <1>3, <1>4 DEF Base

LEMMA BaseInductive ==
  ASSUME Base, [Next]_vars
  PROVE  Base'
<1>1. CASE UNCHANGED vars
  BY <1>1 DEF vars, kernelVars, managerVars, requestVars, Base, Typed, Functions, AnyNs,
              Calls, ThreadsApart, RequestInv
<1>2. CASE Next
  BY <1>2, NextCases, MakesBase, AcceptBase, AnswerBase, SpawnBase, KilledBase
<1>3. QED
  BY <1>1, <1>2

LEMMA SpecBase == Spec => []Base
BY InitBase, BaseInductive, PTL DEF Spec

-----------------------------------------------------------------------------
(* The step as one request sees it *)

Same(q) ==
  /\ call'[q] = call[q] /\ todo'[q] = todo[q] /\ ok'[q] = ok[q] /\ held'[q] = held[q]
  /\ orig'[q] = orig[q] /\ target'[q] = target[q] /\ child'[q] = child[q]
  /\ waited'[q] = waited[q]
Starts(q, c) ==
  /\ call[q] = NoCall /\ call'[q] = c /\ setting.server \in DOMAIN Script[c.op]
  /\ todo'[q] = Script[c.op][setting.server] /\ ok'[q] = TRUE
  /\ held'[q] = NoThread /\ held[q] = NoThread
  /\ orig'[q] = NoNs /\ target'[q] = NoNs /\ child'[q] = NoNs /\ ~waited'[q]
Idles(q) ==
  /\ call'[q] = NoCall /\ todo'[q] = << >> /\ held'[q] = NoThread
  /\ orig'[q] = NoNs /\ target'[q] = NoNs /\ child'[q] = NoNs /\ ~waited'[q]

LEMMA IdleHeld ==
  ASSUME Base, NEW r \in Requests, todo[r] = << >>
  PROVE  held[r] = NoThread
BY LeadsHead DEF Base, RequestInv, Shape

LEMMA RequestCases ==
  ASSUME Base, [Next]_vars, NEW q \in Requests
  PROVE  /\ setting' = setting
         /\ Makes(q) \/ Same(q) \/ (\E c \in Calls : Starts(q, c)) \/ Idles(q)
<1>1. CASE UNCHANGED vars
  BY <1>1 DEF vars, requestVars, Same
<1>2. CASE \E r \in Requests : Makes(r)
  <2>1. PICK r \in Requests : Makes(r)
    BY <1>2
  <2>2. call' = call /\ setting' = setting
    BY <2>1, MakesFrame
  <2>3. q # r => Same(q)
    BY <2>1, <2>2, MakesAlone DEF Base, Typed, Same
  <2>4. QED
    BY <2>1, <2>2, <2>3
<1>3. CASE \E r \in Requests : Answer(r)
  <2>1. PICK r \in Requests : Answer(r)
    BY <1>3
  <2>2. q # r => Same(q)
    BY <2>1 DEF Answer, Base, Typed, Functions, Same
  <2>3. q = r => Idles(q)
    BY <2>1, IdleHeld DEF Answer, Answering, Base, Typed, Functions, Idles
  <2>4. QED
    BY <2>1, <2>2, <2>3 DEF Answer
<1>4. CASE \E r \in Requests, c \in Calls : Accept(r, c)
  <2>1. PICK r \in Requests, c \in Calls : Accept(r, c)
    BY <1>4
  <2>2. q # r => Same(q)
    BY <2>1 DEF Accept, UnchangedLocals, Base, Typed, Functions, Same
  <2>3. q = r => Starts(q, c)
    BY <2>1, IdleHeld DEF Accept, UnchangedLocals, Base, Typed, Functions, RequestInv, Starts
  <2>4. QED
    BY <2>1, <2>2, <2>3 DEF Accept
<1>5. CASE \E t \in Threads : Spawn(t)
  BY <1>5 DEF Spawn, requestVars, Same
<1>6. CASE Killed
  BY <1>6 DEF Killed, Boot, Idles
<1>7. QED
  BY <1>1, <1>2, <1>3, <1>4, <1>5, <1>6, NextCases

\* The script a request starts with.
LEMMA StartsScript ==
  ASSUME NEW q \in Requests, NEW c \in Calls, Starts(q, c)
  PROVE  LET s == Script[c.op][setting.server] IN
         /\ Shape(s) /\ Begins(s) /\ UnmountsLast(s)
         /\ setting.server # "khsAlt" => Tidies(s)
         /\ Reaps(s, IF setting.server = "khsAlt1" THEN {"pid", "restore"} ELSE {"pid"})
         /\ c.op = "create" => Creates(s)
         /\ c.op = "exec" => Executes(s) /\ Harmless(s)
         /\ c.op = "run" => Runs(s) /\ Harmless(s)
BY CallTypes, ScriptBegins DEF Starts

-----------------------------------------------------------------------------
(* No zombie stays *)

\* A failure of the last Setns of khsAlt1's MakeProcess skips the caller's wait.
KhsAlt1ComesHome ==
  \A w \in Settings : w.server = "khsAlt1" => "setns" \notin w.mayFail

\* The calls after which a started child is still waited for.
Waiting == IF setting.server = "khsAlt1" THEN {"pid", "restore"} ELSE {"pid"}
Reaped(r) ==
  /\ Reaps(todo[r], Waiting)
  /\ child[r] # NoNs /\ ~waited[r] =>
       Leads(todo[r], {"reap", "kill"}, Finders \cup Leavers, Waiting)

LEMMA StepAfterLeads ==
  ASSUME NEW r \in Requests, Functions, Makes(r), NEW C, NEW B, NEW enders, NEW sure,
         AfterLeads(todo[r], C, B, enders, sure), CleanupsAvoid(todo[r], C),
         C \cap {"unlock", "exit", "hang"} = {}
  PROVE  AfterLeads(todo'[r], C, B, enders, sure)
<1>1. CASE Leaves(r)
  BY <1>1, MakesRest, LeaveShape DEF AfterLeads
<1>2. CASE ~Leaves(r)
  BY <1>2, MakesRest, AfterLeadsOnward
<1>3. QED
  BY <1>1, <1>2

LEMMA StepAfterLeadsHead ==
  ASSUME NEW r \in Requests, Functions, Makes(r), NEW C, NEW B, NEW enders, NEW sure,
         AfterLeads(todo[r], C, B, enders, sure), Op(r) \in C, GoesOn(r)
  PROVE  Leads(todo'[r], B, enders, sure)
<1>1. todo[r] \in Seq(ScriptCall) /\ todo[r] # << >> /\ Head(todo[r]).op \in C
      /\ todo'[r] = Tail(todo[r])
  BY MakesRest
<1>2. QED
  BY <1>1, AfterLeadsHead

LEMMA MakesReaped ==
  ASSUME Base, KhsAlt1ComesHome, NEW r \in Requests, Makes(r), Reaped(r)
  PROVE  Reaped(r)'
<1>1. /\ Functions /\ Typed /\ Shape(todo[r]) /\ setting' = setting /\ Waiting' = Waiting
  BY MakesFrame DEF Base, Typed, RequestInv, Waiting
<1>2. CleanupsAvoid(todo[r], {"start", "startNew"})
  BY <1>1, AvoidWeaker DEF Shape, Plain, Firsts
<1>3. Reaps(todo'[r], Waiting)
  BY <1>1, <1>2, StepAfterLeads DEF Reaped, Reaps
<1>4. ASSUME child'[r] # NoNs, ~waited'[r]
      PROVE  Leads(todo'[r], {"reap", "kill"}, Finders \cup Leavers, Waiting)
  <2>1. CASE Op(r) \in {"start", "startNew"} /\ GoesOn(r)
    BY <1>1, <2>1, StepAfterLeadsHead DEF Reaped, Reaps
  <2>2. CASE ~(Op(r) \in {"start", "startNew"} /\ GoesOn(r))
    <3>1. Op(r) \notin {"reap", "kill"}
      BY <1>1, <1>4, MakesOp, MakesFrame DEF Typed, Functions, Reap, Kill
    <3>2. child' = child /\ waited' = waited
      <4>1. CASE Op(r) = "start"
        <5>1. PICK t \in Threads : Start(r, t)
          BY <4>1, MakesOp
        <5>2. QED
          BY <2>2, <4>1, <5>1 DEF Start, Goes, GoesOn
      <4>2. CASE Op(r) = "startNew"
        <5>1. StartNew(r)
          BY <4>2, MakesOp
        <5>2. QED
          BY <2>2, <4>2, <5>1 DEF StartNew, Goes, GoesOn
      <4>3. QED
        BY <3>1, <4>1, <4>2, MakesFrame
    <3>3. Leads(todo[r], {"reap", "kill"}, Finders \cup Leavers, Waiting) /\ child[r] # NoNs
      BY <1>4, <3>2 DEF Reaped
    <3>4. Op(r) \notin Leavers
      BY <1>1, <3>3, LeadsHead DEF Shape, CanEnd, Op
    <3>5. ~Leaves(r)
      BY <3>4 DEF Leaves, Leavers
    <3>6. MayFail(r) => Op(r) \notin Waiting
      BY <1>1, <3>3 DEF MayFail, Waiting, KhsAlt1ComesHome, CanFail, Typed
    <3>7. {"reap", "kill"} \cap (Finders \cup Leavers) = {}
      BY DEF Finders, Leavers
    <3>8. QED
      BY <1>1, <3>1, <3>3, <3>5, <3>6, <3>7, StepLeads
  <2>3. QED
    BY <2>1, <2>2
<1>5. QED
  BY <1>1, <1>3, <1>4 DEF Reaped

\* Somebody waits for every child a request has started, or will before the
\* request ends, whichever call fails: what week 1 README 11 asks for.
THEOREM ChildrenReaped == KhsAlt1ComesHome => (Spec => []NoZombie)
<1> SUFFICES ASSUME KhsAlt1ComesHome PROVE Spec => []NoZombie
  OBVIOUS
<1> DEFINE Inv == \A r \in Requests : Reaped(r)
<1>1. Init => Inv
  BY DEF Init, Inv, Reaped, Reaps, AfterLeads
<1>2. Base /\ Inv /\ [Next]_vars => Inv'
  <2> SUFFICES ASSUME Base, Inv, [Next]_vars, NEW r \in Requests PROVE Reaped(r)'
    OBVIOUS
  <2>1. CASE Makes(r)
    BY <2>1, MakesReaped
  <2>2. CASE Same(r)
    BY <2>2, RequestCases DEF Same, Reaped, Waiting
  <2>3. ASSUME NEW c \in Calls, Starts(r, c) PROVE Reaped(r)'
    BY <2>3, RequestCases, StartsScript DEF Starts, Reaped, Waiting
  <2>4. CASE Idles(r)
    BY <2>4, RequestCases DEF Idles, Reaped, Reaps, AfterLeads
  <2>5. QED
    BY <2>1, <2>2, <2>3, <2>4, RequestCases
<1>3. Base /\ Inv => NoZombie
  BY LeadsHead DEF Inv, Reaped, NoZombie, Answering, Base, RequestInv, Shape
<1>4. QED
  BY <1>1, <1>2, <1>3, SpecBase, PTL DEF Spec

-----------------------------------------------------------------------------
(* Joseng8908's manager knows only names that are there *)

\* Only a script's call changes a mount point or adds to the store.
LEMMA MountsCases ==
  ASSUME Base, [Next]_vars, ~ \E r \in Requests : Makes(r)
  PROVE  /\ mounted' = mounted /\ files' = files /\ store' \in {store, {}}
         /\ killed' \in {killed, TRUE}
BY NextCases DEF Answer, Accept, Spawn, Killed, Boot, UnchangedKernel, kernelVars, managerVars, vars

LEMMA MountedStays ==
  ASSUME Base, NEW r \in Requests, Makes(r), Op(r) # "unmount",
         NEW n \in Names, mounted[n] # NoNs
  PROVE  mounted'[n] # NoNs
<1>1. Typed /\ NoNs \notin AnyNs /\ Leader \in Threads
  BY NoneAssumption, LeaderAssumption DEF Base, AnyNs
<1>2. CASE Op(r) \in Mounts
  <2>1. PICK t \in Threads, op \in Mounts : Mount(r, t, op, ns[t]) \/ Mount(r, t, op, ns[Leader])
    BY <1>2, MakesOp DEF Mounts, MountOwn, MountLeader
  <2>2. QED
    BY <1>1, <2>1 DEF Mount, Typed
<1>3. QED
  BY <1>2, MakesFrame DEF Mounts

\* A name is recorded after its namespace is mounted, and no other server has a
\* store.
Recorded(r) ==
  /\ \/ Preceded(todo[r], {"record"}, {"mountOwn"}, {})
     \/ Name(r) \in Names /\ mounted[Name(r)] # NoNs
  /\ setting.server = "Joseng8908" => Never(todo[r], {"unmount"})
  /\ setting.server # "Joseng8908" => Never(todo[r], {"record"})
Stored ==
  /\ StoreMounted /\ (setting.server # "Joseng8908" => store = {})
  /\ \A r \in Requests : Recorded(r)

LEMMA MakesStored ==
  ASSUME Base, Stored, NEW r \in Requests, Makes(r)
  PROVE  Stored'
<1>1. /\ Typed /\ Functions /\ setting' = setting /\ call' = call /\ Recorded(r)
      /\ todo[r] \in Seq(ScriptCall) /\ Op(r) = Head(todo[r]).op /\ todo[r] # << >>
  BY MakesFrame, MakesRest DEF Base, Typed, Stored
<1>2. /\ setting.server = "Joseng8908" => Op(r) # "unmount"
      /\ setting.server # "Joseng8908" => Op(r) # "record"
  BY <1>1, PrecededHead DEF Recorded, Never
<1>3. Op(r) = "record" => mounted[Name(r)] # NoNs
  BY <1>1, PrecededHead DEF Recorded
<1>4. StoreMounted' /\ (setting'.server # "Joseng8908" => store' = {})
  <2>1. CASE Op(r) = "record"
    BY <1>1, <1>2, <1>3, <2>1, MakesOp, MakesFrame DEF Record, Stored, StoreMounted
  <2>2. CASE Op(r) # "record"
    <3>1. store' = store
      BY <2>2, MakesFrame
    <3>2. \A n \in store : setting.server = "Joseng8908" /\ n \in Names /\ mounted[n] # NoNs
      BY <1>1 DEF Stored, StoreMounted, Typed
    <3>3. QED
      BY <1>1, <1>2, <3>1, <3>2, MountedStays DEF Stored, StoreMounted
  <2>3. QED
    BY <2>1, <2>2
<1>5. ASSUME NEW q \in Requests, setting.server # "Joseng8908" PROVE Recorded(q)'
  <2>1. Never(todo'[q], {"record"})
    <3>1. CASE q = r
      BY <1>1, <1>5, <3>1, StepPreceded DEF Recorded, Never
    <3>2. CASE q # r
      BY <1>1, <1>5, <3>2, MakesAlone DEF Stored, Recorded
    <3>3. QED
      BY <3>1, <3>2
  <2>2. QED
    BY <1>1, <1>5, <2>1, PrecededWeaker DEF Recorded, Never
<1>6. ASSUME NEW q \in Requests, setting.server = "Joseng8908" PROVE Recorded(q)'
  <2>1. Never(todo'[q], {"unmount"})
    <3>1. CASE q = r
      BY <1>1, <1>6, <3>1, StepPreceded DEF Recorded, Never
    <3>2. CASE q # r
      BY <1>1, <1>6, <3>2, MakesAlone DEF Stored, Recorded
    <3>3. QED
      BY <3>1, <3>2
  <2>2. \/ Preceded(todo'[q], {"record"}, {"mountOwn"}, {})
        \/ Name(q) \in Names /\ mounted'[Name(q)] # NoNs
    <3>1. CASE Name(q) \in Names /\ mounted[Name(q)] # NoNs
      BY <1>2, <1>6, <3>1, MountedStays
    <3>2. CASE ~(Name(q) \in Names /\ mounted[Name(q)] # NoNs)
      <4>1. Preceded(todo[q], {"record"}, {"mountOwn"}, {})
        BY <3>2 DEF Stored, Recorded
      <4>2. CASE q # r
        BY <1>1, <4>1, <4>2, MakesAlone
      <4>3. CASE q = r /\ (Op(r) = "mountOwn" => GivesUp(r))
        BY <1>1, <4>1, <4>3, StepPreceded
      <4>4. CASE q = r /\ Op(r) = "mountOwn" /\ ~GivesUp(r)
        <5>1. PICK t \in Threads : MountOwn(r, t)
          BY <4>4, MakesOp
        <5>2. ~Fails(r)
          BY <4>4, FailsGivesUp DEF Checked
        <5>3. Name(r) \in Names /\ mounted' = [mounted EXCEPT ![Name(r)] = ns[t]]
          BY <1>1, <5>1, <5>2 DEF MountOwn, Mount, Typed
        <5>4. ns[t] # NoNs
          BY <1>1, NoneAssumption DEF Typed, AnyNs
        <5>5. mounted'[Name(r)] # NoNs
          BY <1>1, <5>3, <5>4 DEF Typed
        <5>6. QED
          BY <4>4, <5>3, <5>5
      <4>5. QED
        BY <4>2, <4>3, <4>4
    <3>3. QED
      BY <3>1, <3>2
  <2>3. QED
    BY <1>1, <1>6, <2>1, <2>2 DEF Recorded, Name
<1>7. QED
  BY <1>4, <1>5, <1>6 DEF Stored

\* Joseng8908's manager never lists a name under which nothing is mounted,
\* whatever fails during Create and whenever the server is killed.
THEOREM ManagerHonest == Spec => []StoreMounted
<1>1. Init => Stored
  BY EmptyShape DEF Init, Stored, StoreMounted, Recorded, Never
<1>2. Base /\ Stored /\ [Next]_vars => Stored'
  <2> SUFFICES ASSUME Base, Stored, [Next]_vars PROVE Stored'
    OBVIOUS
  <2>1. CASE \E r \in Requests : Makes(r)
    BY <2>1, MakesStored
  <2>2. CASE ~ \E r \in Requests : Makes(r)
    <3>1. mounted' = mounted /\ store' \in {store, {}}
      BY <2>2, MountsCases
    <3>2. ASSUME NEW q \in Requests PROVE setting' = setting /\ Recorded(q)'
      <4>1. CASE Same(q)
        BY <3>1, <4>1, RequestCases DEF Same, Stored, Recorded, Name
      <4>2. ASSUME NEW c \in Calls, Starts(q, c) PROVE setting' = setting /\ Recorded(q)'
        BY <4>2, RequestCases, CallTypes, ScriptBegins, StoreScripts DEF Starts, Begins, Recorded
      <4>3. CASE Idles(q)
        BY <4>3, RequestCases, EmptyShape DEF Idles, Recorded, Never
      <4>4. QED
        BY <2>2, <4>1, <4>2, <4>3, RequestCases
    <3>3. setting' = setting
      BY <2>2, NextCases DEF Answer, Accept, Spawn, Killed, vars
    <3>4. QED
      BY <3>1, <3>2, <3>3 DEF Stored, StoreMounted
  <2>3. QED
    BY <2>1, <2>2
<1>3. Stored => StoreMounted
  BY DEF Stored
<1>4. QED
  BY <1>1, <1>2, <1>3, SpecBase, PTL DEF Spec

-----------------------------------------------------------------------------
(* Every variable keeps its type *)

LEMMA RestsSelf ==
  ASSUME NEW s \in Seq(ScriptCall)
  PROVE  s \in Rests(s) /\ << >> \in Rests(s)
<1>1. 1 \in 1 .. Len(s) + 1 /\ Len(s) + 1 \in 1 .. Len(s) + 1
  OBVIOUS
<1>2. SubSeq(s, 1, Len(s)) = s /\ SubSeq(s, Len(s) + 1, Len(s)) = << >>
  OBVIOUS
<1>3. QED
  BY <1>1, <1>2 DEF Rests

LEMMA RestsTail ==
  ASSUME NEW s \in Seq(ScriptCall), NEW t \in Rests(s), t # << >>
  PROVE  Tail(t) \in Rests(s) /\ \E i \in DOMAIN s : Head(t) = s[i]
<1>1. PICK i \in 1 .. Len(s) + 1 : t = SubSeq(s, i, Len(s))
  BY DEF Rests
<1>2. i <= Len(s)
  BY <1>1
<1>3. Tail(t) = SubSeq(s, i + 1, Len(s)) /\ Head(t) = s[i]
  BY <1>1, <1>2
<1>4. i + 1 \in 1 .. Len(s) + 1 /\ i \in DOMAIN s
  BY <1>2
<1>5. QED
  BY <1>3, <1>4 DEF Rests

LEMMA LeavingsType ==
  ASSUME NEW c \in Leavings
  PROVE  c \in Seq(ScriptCall) /\ \A i \in DOMAIN c : ~c[i].must
<1>1. c = Leave("restoreOrHang") \/ c = Leave("restoreOrDie")
  BY DEF Leavings, Leave
<1>2. QED
  BY <1>1, LeaveShape DEF Shape

LEMMA CleanupsType ==
  ASSUME NEW s \in Seq(ScriptCall), NEW c \in Cleanups(s)
  PROVE  c \in Seq(ScriptCall) /\ \A i \in DOMAIN c : ~c[i].must
<1>1. PICK i \in DOMAIN s : c = Quietly(s[i].cleanup)
  BY DEF Cleanups
<1>2. s[i].cleanup \in Seq(OpNames)
  BY CallOps
<1>3. QED
  BY <1>1, <1>2, QuietlyType

LEMMA PlansOnward ==
  ASSUME NEW s \in Seq(ScriptCall), NEW p \in Plans(s), p # << >>
  PROVE  /\ Tail(p) \in Plans(s)
         /\ Head(p).must => Quietly(Head(p).cleanup) \in Plans(s)
<1>1. CASE p \in Rests(s)
  <2>1. Tail(p) \in Plans(s)
    BY <1>1, RestsTail DEF Plans
  <2>2. PICK i \in DOMAIN s : Head(p) = s[i]
    BY <1>1, RestsTail
  <2>3. Quietly(Head(p).cleanup) \in Cleanups(s)
    BY <2>2 DEF Cleanups
  <2>4. Quietly(Head(p).cleanup) \in Rests(Quietly(Head(p).cleanup))
    BY <2>3, CleanupsType, RestsSelf
  <2>5. QED
    BY <2>1, <2>3, <2>4 DEF Plans
<1>2. ASSUME NEW c \in Cleanups(s) \cup Leavings, p \in Rests(c)
      PROVE  Tail(p) \in Plans(s) /\ ~Head(p).must
  <2>1. c \in Seq(ScriptCall) /\ \A i \in DOMAIN c : ~c[i].must
    BY CleanupsType, LeavingsType
  <2>2. Tail(p) \in Rests(c) /\ \E i \in DOMAIN c : Head(p) = c[i]
    BY <1>2, <2>1, RestsTail
  <2>3. QED
    BY <2>1, <2>2 DEF Plans
<1>3. QED
  BY <1>1, <1>2 DEF Plans

LEMMA PlansHave ==
  ASSUME NEW s \in Seq(ScriptCall)
  PROVE  /\ s \in Plans(s) /\ << >> \in Plans(s)
         /\ Leave("restoreOrHang") \in Plans(s) /\ Leave("restoreOrDie") \in Plans(s)
<1>1. s \in Plans(s) /\ << >> \in Plans(s)
  BY RestsSelf DEF Plans
<1>2. ASSUME NEW c \in Leavings PROVE c \in Plans(s)
  BY LeavingsType, RestsSelf DEF Plans
<1>3. Leave("restoreOrHang") \in Leavings /\ Leave("restoreOrDie") \in Leavings
  BY DEF Leave, Leavings
<1>4. QED
  BY <1>1, <1>2, <1>3

\* What a request has left to do is the rest of its script, of a clean-up, or of
\* a goroutine's end.
Planned(r) == call[r] # NoCall => todo[r] \in Plans(Script[call[r].op][setting.server])

LEMMA MakesPlanned ==
  ASSUME Base, NEW r \in Requests, Makes(r), Planned(r)
  PROVE  Planned(r)'
<1> DEFINE s == Script[call[r].op][setting.server]
<1>1. /\ call' = call /\ setting' = setting /\ todo[r] # << >> /\ call[r] # NoCall
      /\ Functions
  BY MakesFrame, MakesRest DEF Base, Typed, RequestInv
<1>2. s \in Seq(ScriptCall)
  BY <1>1, CallTypes, ScriptBegins DEF Base, Typed, RequestInv, Shape
<1>3. todo[r] \in Plans(s)
  BY <1>1 DEF Planned
<1> HIDE DEF s
<1>4. todo'[r] \in Plans(s)
  <2>1. CASE Leaves(r)
    BY <1>1, <1>2, <2>1, MakesRest, PlansHave, ZenonT(30) DEF Leaves
  <2>2. CASE GivesUp(r)
    BY <1>1, <1>2, <1>3, <2>2, MakesRest, PlansOnward
  <2>3. CASE GoesOn(r) \/ FindsIt(r)
    BY <1>1, <1>2, <1>3, <2>3, MakesRest, PlansOnward, PlansHave
  <2>4. QED
    BY <2>1, <2>2, <2>3, MakesOutcome
<1>5. QED
  BY <1>1, <1>4 DEF Planned, s

\* No call leaves a variable outside its type: what a request has left to do is
\* always the rest of its own server's script, clean-ups and failures included.
THEOREM NetnsTyped == Spec => []TypeOK
<1> DEFINE Inv == \A r \in Requests : Planned(r)
<1>1. Init => Inv
  BY DEF Init, Inv, Planned
<1>2. Base /\ Inv /\ [Next]_vars => Inv'
  <2> SUFFICES ASSUME Base, Inv, [Next]_vars, NEW r \in Requests PROVE Planned(r)'
    OBVIOUS
  <2>1. CASE Makes(r)
    BY <2>1, MakesPlanned
  <2>2. CASE Same(r)
    BY <2>2, RequestCases DEF Same, Planned
  <2>3. ASSUME NEW c \in Calls, Starts(r, c) PROVE Planned(r)'
    <3>1. Script[c.op][setting.server] \in Seq(ScriptCall)
      BY <2>3, StartsScript DEF Shape
    <3>2. QED
      BY <2>3, <3>1, RequestCases, PlansHave DEF Starts, Planned
  <2>4. CASE Idles(r)
    BY <2>4, RequestCases DEF Idles, Planned
  <2>5. QED
    BY <2>1, <2>2, <2>3, <2>4, RequestCases
<1>3. Base /\ Inv => TypeOK
  BY DEF Inv, Planned, TypeOK, Base, Typed, Functions, RequestInv
<1>4. QED
  BY <1>1, <1>2, <1>3, SpecBase, PTL DEF Spec

-----------------------------------------------------------------------------
(* The server stays in its own namespace *)

\* How a call moves a thread to another namespace.
LEMMA NsMoves ==
  ASSUME Base, NEW r \in Requests, Makes(r)
  PROVE  \/ ns' = ns
         \/ /\ Op(r) = "exit" /\ held[r] # Leader
            /\ ns' = [ns EXCEPT ![held[r]] = Host]
         \/ /\ Op(r) = "unshare" /\ GoesOn(r) /\ held[r] \in Threads
            /\ \E x \in Unused : ns' = [ns EXCEPT ![held[r]] = x]
         \/ /\ Op(r) = "enter" /\ GoesOn(r) /\ held[r] \in Threads /\ target[r] # NoNs
            /\ ns' = [ns EXCEPT ![held[r]] = target[r]]
         \/ /\ Op(r) \in Homes /\ GoesOn(r) /\ orig[r] # NoNs
            /\ \E t \in Threads : RunsOn(r, t) /\ ns' = [ns EXCEPT ![t] = orig[r]]
<1>1. /\ Functions /\ RequestInv(r) /\ todo[r] # << >> /\ todo[r] \in Seq(ScriptCall)
      /\ Op(r) = Head(todo[r]).op
  BY MakesRest DEF Base, Typed
<1>2. /\ Op(r) \in Abroad => held[r] \in Threads
      /\ Op(r) \in Homes => orig[r] # NoNs
  BY <1>1, PrecededHead DEF RequestInv, Functions
<1>3. CASE Op(r) = "exit"
  <2>1. Exit(r)
    BY <1>3, MakesOp
  <2>2. QED
    BY <1>3, <2>1 DEF Exit
<1>4. CASE Op(r) = "unshare"
  <2>1. PICK t \in Threads : Unshare(r, t)
    BY <1>4, MakesOp
  <2>2. t = held[r] /\ held[r] \in Threads
    BY <1>2, <1>4, <2>1, NoneAssumption DEF Unshare, RunsOn, Abroad
  <2>3. QED
    BY <1>4, <2>1, <2>2 DEF Unshare, Goes, GoesOn
<1>5. CASE Op(r) = "enter"
  <2>1. PICK t \in Threads : Enter(r, t)
    BY <1>5, MakesOp
  <2>2. t = held[r] /\ held[r] \in Threads
    BY <1>2, <1>5, <2>1, NoneAssumption DEF Enter, RunsOn, Abroad
  <2>3. QED
    BY <1>5, <2>1, <2>2 DEF Enter, Goes, GoesOn
<1>6. CASE Op(r) \in Homes
  <2>1. PICK t \in Threads, op \in Homes : Restore(r, t) \/ RestoreOrLeave(r, t, op)
    BY <1>6, MakesOp DEF Homes
  <2>2. QED
    BY <1>2, <1>6, <2>1 DEF Restore, RestoreOrLeave, Goes, GoesOn
<1>7. QED
  BY <1>3, <1>4, <1>5, <1>6, MakesFrame DEF Homes

\* One request's call does not move the thread another is locked to.
LEMMA OthersStay ==
  ASSUME Base, NEW r \in Requests, Makes(r), NEW q \in Requests, q # r, held[q] # NoThread
  PROVE  ns'[held[q]] = ns[held[q]] /\ held[q] \in Threads /\ thread[held[q]] = "held"
<1>1. /\ ns \in [Threads -> AnyNs] /\ held[q] \in Threads /\ thread[held[q]] = "held"
      /\ held[q] # held[r]
  BY DEF Base, Typed, Functions, ThreadsApart, RequestInv
<1>2. \A t \in Threads : RunsOn(r, t) => t # held[q]
  BY <1>1 DEF RunsOn
<1>3. QED
  BY <1>1, <1>2, NsMoves

\* Where a server can promise to stay at home.  A thread goes home before it is
\* given away unless Setns fails, or a call whose clean-up does not go home; a
\* goroutine that ends on its thread keeps it from the pool, but not the
\* process's first thread.
StaysHome(w) ==
  /\ w.server # "khsAlt"
  /\ w.server \in {"WAFriend3416", "gpffh20", "statsops", "saguanamu", "yeomin4242",
                   "Joseng8908", "khsAlt1"} => "setns" \notin w.mayFail
  /\ w.server \in {"statsops", "saguanamu", "yeomin4242"} => "fd" \notin w.mayFail
  /\ w.server = "khsAlt1" => "start" \notin w.mayFail
  /\ w.server \in {"lnaura", "Joseng8908", "khsAlt1"} => ~w.leaderServes
  /\ w.server = "WAFriend34161" => ~w.leaderServes \/ "setns" \notin w.mayFail

\* The calls that give a thread away, those that bring it home, and those that
\* do not fail.
Gives(w) == IF w.leaderServes THEN {"unlock", "exit"} ELSE {"unlock"}
Back(w) == IF "setns" \in w.mayFail THEN {} ELSE Homes
Sure(w) ==
  {op \in {"restore", "getNew", "start"} : /\ op = "restore" => "setns" \notin w.mayFail
                                           /\ op = "getNew" => "fd" \notin w.mayFail
                                           /\ op = "start" => "start" \notin w.mayFail}

LEMMA HomewardWeaker ==
  ASSUME NEW s, NEW A, NEW B, NEW sure, Homeward(s, A, B, sure), NEW w,
         Gives(w) \subseteq A, B \subseteq Back(w), sure \subseteq Sure(w)
  PROVE  Homeward(s, Gives(w), Back(w), Sure(w))
BY AfterWeaker DEF Homeward

LEMMA StaysHomeScripts ==
  ASSUME NEW w \in Settings, StaysHome(w), NEW op \in DOMAIN Script,
         w.server \in DOMAIN Script[op]
  PROVE  LET s == Script[op][w.server] IN
         /\ Homeward(s, Gives(w), Back(w), Sure(w))
         /\ w.leaderServes => Never(s, {"leader"})
         /\ "setns" \in w.mayFail => Never(s, Leavers)
<1> DEFINE s == Script[op][w.server]
<1>1. Gives(w) \subseteq {"unlock", "exit"} /\ {} \subseteq Back(w) /\ {} \subseteq Sure(w)
      /\ (~w.leaderServes => Gives(w) \subseteq {"unlock"})
  BY DEF Gives
<1>2. "setns" \notin w.mayFail => Homes \subseteq Back(w) /\ {"restore"} \subseteq Sure(w)
  BY DEF Back, Sure
<1>3. "setns" \notin w.mayFail /\ "fd" \notin w.mayFail => {"restore", "getNew"} \subseteq Sure(w)
  BY DEF Sure
<1>4. "setns" \notin w.mayFail /\ "start" \notin w.mayFail => {"restore", "start"} \subseteq Sure(w)
  BY DEF Sure
<1>5. Homeward(s, Gives(w), Back(w), Sure(w))
  <2>1. CASE w.server \in {"WAFriend3416", "gpffh20"}
    BY <1>1, <1>2, <2>1, HomeScripts, HomewardWeaker DEF StaysHome
  <2>2. CASE w.server \in {"statsops", "saguanamu", "yeomin4242"}
    BY <1>1, <1>2, <1>3, <2>2, HomeScripts, HomewardWeaker DEF StaysHome
  <2>3. CASE w.server \in {"Joseng8908", "lnaura"}
    BY <1>1, <1>2, <2>3, HomeScripts, HomewardWeaker DEF StaysHome
  <2>4. CASE w.server = "WAFriend34161"
    BY <1>1, <1>2, <2>4, HomeScripts, HomewardWeaker DEF StaysHome
  <2>5. CASE w.server = "khsAlt1"
    BY <1>1, <1>2, <1>4, <2>5, HomeScripts, HomewardWeaker DEF StaysHome
  <2>6. CASE w.server \notin Week2 \cup {"WAFriend34161", "khsAlt1"}
    BY <1>1, <2>6, HomeScripts, HomewardWeaker
  <2>7. QED
    BY <2>1, <2>2, <2>3, <2>4, <2>5, <2>6 DEF StaysHome, Week2
<1>6. QED
  BY <1>5, HomeScripts DEF StaysHome

\* A request whose thread is abroad goes home before it gives the thread away,
\* and does not take where it is for its home.
Homing(r) ==
  /\ Homeward(todo[r], Gives(setting), Back(setting), Sure(setting))
  /\ orig[r] \in {NoNs, Host}
  /\ setting.leaderServes => Never(todo[r], {"leader"})
  /\ "setns" \in setting.mayFail => Never(todo[r], Leavers)
  /\ held[r] # NoThread /\ ns[held[r]] # Host =>
       /\ Preceded(todo[r], Gives(setting), Back(setting), Sure(setting))
       /\ Never(todo[r], {"own"})
Homed ==
  /\ ThreadsHome
  /\ ~setting.leaderServes => thread[Leader] = "parked"
  /\ \A r \in Requests : Homing(r)

LEMMA MakesHomed ==
  ASSUME Base, Homed, StaysHome(setting), NEW r \in Requests, Makes(r)
  PROVE  Homed'
<1>1. /\ Typed /\ Functions /\ RequestInv(r) /\ Homing(r) /\ setting' = setting
      /\ todo[r] # << >> /\ todo[r] \in Seq(ScriptCall) /\ Op(r) = Head(todo[r]).op
      /\ Leader \in Threads /\ NoThread \notin Threads
  BY MakesRest, MakesFrame, LeaderAssumption, NoneAssumption DEF Base, Typed, Homed
<1>2. ~Leaves(r)
  <2>1. CanFail("setns") => Op(r) \notin Leavers
    BY <1>1, PrecededHead DEF Homing, Never, CanFail
  <2>2. QED
    BY <2>1 DEF Leaves, Leavers
<1>3. MayFail(r) => Op(r) \notin Sure(setting)
  BY DEF MayFail, Sure, CanFail
\* When the thread is given away, it is at home.
<1>4. held[r] # NoThread /\ Op(r) \in Gives(setting) => ns[held[r]] = Host
  BY <1>1, PrecededHead DEF Homing
<1>5. held[r] \in Threads => thread[held[r]] = "held"
  BY <1>1 DEF RequestInv
<1>6. ~setting'.leaderServes => thread'[Leader] = "parked"
  <2>1. CASE Op(r) = "lock"
    <3>1. PICK t \in Threads : Lock(r, t)
      BY <2>1, MakesOp
    <3>2. thread[t] # "parked"
      BY <1>1, <1>5, <3>1 DEF Lock, RunsOn
    <3>3. QED
      BY <1>1, <3>1, <3>2 DEF Lock, Homed, Typed
  <2>2. CASE Op(r) \in {"unlock", "exit"}
    <3>1. Unlock(r) \/ Exit(r)
      BY <2>2, MakesOp
    <3>2. QED
      BY <1>1, <1>5, <3>1 DEF Unlock, Exit, Homed, Typed
  <2>3. QED
    BY <1>1, <2>1, <2>2, MakesFrame DEF Homed
<1>7. ThreadsHome'
  <2> SUFFICES ASSUME NEW t \in Threads, thread'[t] \in {"pool", "parked"}
               PROVE  ns'[t] = Host
    BY DEF ThreadsHome
  <2>1. CASE Op(r) = "lock"
    <3>1. PICK u \in Threads : Lock(r, u)
      BY <2>1, MakesOp
    <3>2. QED
      BY <1>1, <3>1 DEF Lock, Homed, ThreadsHome, Typed
  <2>2. CASE Op(r) = "unlock"
    <3>1. Unlock(r)
      BY <2>2, MakesOp
    <3>2. "unlock" \in Gives(setting)
      BY DEF Gives
    <3>3. QED
      BY <1>1, <1>4, <2>2, <3>1, <3>2 DEF Unlock, Homed, ThreadsHome, Typed
  <2>3. CASE Op(r) = "exit"
    <3>1. Exit(r)
      BY <2>3, MakesOp
    <3>2. held[r] = Leader => ns[Leader] = Host
      <4>1. CASE setting.leaderServes
        BY <1>1, <1>4, <2>3, <4>1 DEF Gives
      <4>2. CASE ~setting.leaderServes
        BY <1>1, <1>5, <4>2 DEF Homed
      <4>3. QED
        BY <4>1, <4>2
    <3>3. QED
      BY <1>1, <3>1, <3>2 DEF Exit, Homed, ThreadsHome, Typed
  <2>4. CASE Op(r) \notin {"lock", "unlock", "exit"}
    <3>1. thread' = thread /\ ns[t] = Host
      BY <2>4, MakesFrame DEF Homed, ThreadsHome
    <3>2. t # held[r]
      BY <1>5, <3>1
    <3>3. orig[r] # NoNs => orig[r] = Host
      BY <1>1 DEF Homing
    <3>4. QED
      BY <1>1, <2>4, <3>1, <3>2, <3>3, NsMoves DEF Typed
  <2>5. QED
    BY <2>1, <2>2, <2>3, <2>4
<1>8. Homing(r)'
  <2>1. Homeward(todo'[r], Gives(setting), Back(setting), Sure(setting))
    <3>1. CleanupsAvoid(todo[r], Abroad)
      BY <1>1, AvoidWeaker DEF RequestInv, Shape, Plain, Firsts, Abroad
    <3>2. Abroad \cap {"unlock", "exit", "hang"} = {}
      BY DEF Abroad
    <3>3. QED
      BY <1>1, <3>1, <3>2, StepAfter DEF Homing, Homeward
  <2>2. orig'[r] \in {NoNs, Host}
    <3>1. CASE Op(r) = "own"
      <4>1. PICK t \in Threads : SaveOwn(r, t)
        BY <3>1, MakesOp
      <4>2. ns[t] = Host
        <5>1. CASE held[r] = NoThread
          BY <4>1, <5>1 DEF SaveOwn, RunsOn, Homed, ThreadsHome
        <5>2. CASE held[r] # NoThread
          BY <1>1, <3>1, <4>1, <5>2, PrecededHead DEF SaveOwn, RunsOn, Homing, Never
        <5>3. QED
          BY <5>1, <5>2
      <4>3. QED
        BY <1>1, <4>1, <4>2 DEF SaveOwn, Save, Homing, Functions
    <3>2. CASE Op(r) = "leader"
      <4>1. SaveLeader(r)
        BY <3>2, MakesOp
      <4>2. ~setting.leaderServes
        BY <1>1, <3>2, PrecededHead DEF Homing, Never
      <4>3. ns[Leader] = Host
        BY <1>1, <4>2 DEF Homed, ThreadsHome
      <4>4. QED
        BY <1>1, <4>1, <4>3 DEF SaveLeader, Save, Homing, Functions
    <3>3. QED
      BY <1>1, <3>1, <3>2, MakesFrame DEF Homing
  <2>3. /\ setting.leaderServes => Never(todo'[r], {"leader"})
        /\ "setns" \in setting.mayFail => Never(todo'[r], Leavers)
    BY <1>1, <1>2, StepPreceded DEF Homing, Never
  <2>4. ASSUME held'[r] # NoThread, ns'[held'[r]] # Host
        PROVE  /\ Preceded(todo'[r], Gives(setting), Back(setting), Sure(setting))
               /\ Never(todo'[r], {"own"})
    <3>1. CASE held'[r] = held[r] /\ ns'[held[r]] = ns[held[r]]
      <4>1. /\ Preceded(todo[r], Gives(setting), Back(setting), Sure(setting))
            /\ Never(todo[r], {"own"})
        BY <1>1, <2>4, <3>1 DEF Homing
      <4>2. Op(r) \notin Back(setting)
        <5>1. ASSUME Op(r) \in Homes, "setns" \notin setting.mayFail PROVE FALSE
          <6>1. PICK t \in Threads, op \in Homes : Restore(r, t) \/ RestoreOrLeave(r, t, op)
            BY <5>1, MakesOp DEF Homes
          <6>2. t = held[r] /\ ns' = [ns EXCEPT ![t] = orig[r]]
            BY <2>4, <3>1, <5>1, <6>1 DEF Restore, RestoreOrLeave, RunsOn, CanFail
          <6>3. orig[r] = Host
            BY <1>1, <5>1, PrecededHead DEF Homing, RequestInv
          <6>4. QED
            BY <1>1, <2>4, <3>1, <6>2, <6>3 DEF Typed
        <5>2. QED
          BY <5>1 DEF Back
      <4>3. QED
        BY <1>1, <1>2, <1>3, <4>1, <4>2, StepPreceded DEF Never
    <3>2. CASE ~(held'[r] = held[r] /\ ns'[held[r]] = ns[held[r]])
      <4>1. Op(r) \in Abroad /\ GoesOn(r)
        <5>1. Op(r) \notin {"unlock", "exit"}
          BY <1>1, <2>4, MakesOp DEF Functions, Unlock, Exit
        <5>2. CASE Op(r) = "lock"
          <6>1. PICK t \in Threads : Lock(r, t)
            BY <5>2, MakesOp
          <6>2. held'[r] = t /\ ns' = ns
            BY <1>1, <6>1 DEF Lock, Functions
          <6>3. QED
            BY <2>4, <3>2, <6>1, <6>2 DEF Lock, RunsOn, Homed, ThreadsHome
        <5>3. CASE Op(r) # "lock"
          <6>1. held' = held /\ ns'[held[r]] # ns[held[r]] /\ held[r] \in Threads
            BY <1>1, <2>4, <3>2, <5>1, <5>3, MakesFrame DEF Functions
          <6>2. orig[r] # NoNs => orig[r] = Host
            BY <1>1 DEF Homing
          <6>3. QED
            BY <1>1, <2>4, <5>1, <6>1, <6>2, NsMoves DEF Abroad, Typed
        <5>4. QED
          BY <5>2, <5>3
      <4>2. After(todo[r], Abroad, {"own"}, {}, {})
        BY <1>1 DEF RequestInv, Shape, Fresh
      <4>3. QED
        BY <1>1, <4>1, <4>2, StepAfterHead DEF Homing, Homeward, Never
    <3>3. QED
      BY <3>1, <3>2
  <2>5. QED
    BY <1>1, <2>1, <2>2, <2>3, <2>4 DEF Homing
<1>9. ASSUME NEW q \in Requests, q # r PROVE Homing(q)'
  <2>1. todo'[q] = todo[q] /\ held'[q] = held[q] /\ orig'[q] = orig[q]
    BY <1>1, <1>9, MakesAlone
  <2>2. held[q] # NoThread => ns'[held[q]] = ns[held[q]]
    BY <1>9, OthersStay
  <2>3. QED
    BY <1>1, <2>1, <2>2 DEF Homed, Homing
<1>10. QED
  BY <1>6, <1>7, <1>8, <1>9 DEF Homed

LEMMA OthersHomed ==
  ASSUME Base, Homed, StaysHome(setting), [Next]_vars, ~ \E r \in Requests : Makes(r)
  PROVE  Homed'
<1>1. /\ Typed /\ Functions /\ setting' = setting /\ Leader \in Threads /\ setting \in Settings
      /\ ThreadsApart /\ \A r \in Requests : RequestInv(r)
  <2>1. setting' = setting
    BY NextCases DEF Answer, Accept, Spawn, Killed, vars
  <2>2. QED
    BY <2>1, LeaderAssumption DEF Base, Typed
<1>2. \/ thread' = thread /\ ns' = ns
      \/ \E t \in Threads : Spawn(t)
      \/ Killed
  BY NextCases DEF Answer, Accept, UnchangedKernel, kernelVars, vars
<1>3. ThreadsHome' /\ (~setting'.leaderServes => thread'[Leader] = "parked")
  <2>1. CASE thread' = thread /\ ns' = ns
    BY <1>1, <2>1 DEF Homed, ThreadsHome
  <2>2. CASE Killed
    BY <1>1, <2>2 DEF Killed, Boot, ThreadsHome
  <2>3. ASSUME NEW t \in Threads, Spawn(t)
        PROVE  ThreadsHome' /\ (~setting'.leaderServes => thread'[Leader] = "parked")
    <3>1. ns' = [ns EXCEPT ![t] = Host] /\ thread' = [thread EXCEPT ![t] = "pool"]
          /\ thread[t] = "absent"
      BY <2>3 DEF Spawn, Homed, ThreadsHome
    <3>2. QED
      BY <1>1, <3>1 DEF Homed, ThreadsHome, Typed
  <2>4. QED
    BY <1>2, <2>1, <2>2, <2>3
<1>4. ASSUME NEW r \in Requests PROVE Homing(r)'
  <2>1. CASE Same(r)
    <3>1. held[r] # NoThread => ns'[held[r]] = ns[held[r]] \/ ns'[held[r]] = Host
      <4>1. ASSUME NEW t \in Threads, Spawn(t), held[r] # NoThread
            PROVE  ns'[held[r]] = ns[held[r]]
        <5>1. held[r] \in Threads /\ held[r] # t
          BY <1>1, <4>1 DEF Spawn, RequestInv, Functions
        <5>2. PICK x : ns' = [ns EXCEPT ![t] = x]
          BY <4>1 DEF Spawn
        <5>3. QED
          BY <1>1, <5>1, <5>2 DEF Typed
      <4>2. held[r] # NoThread /\ Killed => ns'[held[r]] = Host
        BY <1>1 DEF Killed, Boot, Functions
      <4>3. QED
        BY <1>2, <4>1, <4>2
    <3>2. QED
      BY <1>1, <2>1, <3>1 DEF Same, Homed, Homing
  <2>2. ASSUME NEW c \in Calls, Starts(r, c) PROVE Homing(r)'
    BY <1>1, <2>2, CallTypes, StaysHomeScripts DEF Starts, Homing
  <2>3. CASE Idles(r)
    BY <1>1, <2>3, EmptyShape DEF Idles, Homing, Homeward, Never, After
  <2>4. QED
    BY <2>1, <2>2, <2>3, RequestCases
<1>5. QED
  BY <1>3, <1>4 DEF Homed

LEMMA HomedInductive ==
  ASSUME \A w \in Settings : StaysHome(w), Base, Homed, [Next]_vars
  PROVE  Homed'
<1>1. StaysHome(setting)
  BY DEF Base, Typed
<1>2. QED
  BY <1>1, MakesHomed, OthersHomed

\* A server stays in its own namespace in every environment in which its code can
\* bring its threads home: no goroutine that runs next, and no look at
\* /proc/self, ever finds itself in a client's namespace.
THEOREM ServerStaysHome == (\A w \in Settings : StaysHome(w)) => (Spec => []ThreadsHome)
<1> SUFFICES ASSUME \A w \in Settings : StaysHome(w) PROVE Spec => []ThreadsHome
  OBVIOUS
<1>1. Init => Homed
  <2> SUFFICES ASSUME Init PROVE Homed
    OBVIOUS
  <2>1. ThreadsHome /\ (~setting.leaderServes => thread[Leader] = "parked")
    BY LeaderAssumption DEF Init, ThreadsHome
  <2>2. ASSUME NEW r \in Requests PROVE Homing(r)
    BY EmptyShape DEF Init, Homing, Homeward, Never, After
  <2>3. QED
    BY <2>1, <2>2 DEF Homed
<1>2. Homed => ThreadsHome
  BY DEF Homed
<1>3. QED
  BY <1>1, <1>2, HomedInductive, SpecBase, PTL DEF Spec
=============================================================================

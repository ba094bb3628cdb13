------------------------- MODULE NetnsServer_names --------------------------
(***************************************************************************)
(* Proofs about what the names of NetnsServer stand for: that no two stand *)
(* for one namespace, that a process is started in the namespace it should *)
(* be in, that no mount point stays without its namespace, that a create   *)
(* answered with success has made one, and that a name in use is not given *)
(* to another namespace.                                                   *)
(***************************************************************************)
EXTENDS NetnsServer_proofs

-----------------------------------------------------------------------------
(* Namespaces of one's own *)

Running == setting.server \in DOMAIN RunScript

\* A thread that has unshared is in a namespace nobody else has until its request
\* mounts it or starts a process in it.
FreshOps == IF Running THEN {"start"} ELSE {"mountOwn"}
Pending(r) == ~Preceded(todo[r], FreshOps, {"unshare"}, {})
LeavesFresh(r) ==
  After(todo[r], {"unlock", "exit", "enter"} \cup Homes \cup FreshOps, FreshOps, {"unshare"}, {})
Private(r) ==
  Pending(r) =>
    /\ held[r] \in Threads /\ ns[held[r]] \in Namespaces
    /\ \A n \in Names : mounted[n] # ns[held[r]]
    /\ \A q \in Requests \ {r} : Pending(q) => ns[held[q]] # ns[held[r]]
    /\ Running => \A q \in Requests : child[q] # ns[held[r]]
ChildApart(r) ==
  Running /\ child[r] # NoNs =>
    child[r] \in Namespaces /\ \A q \in Requests \ {r} : child[q] # child[r]
Separate ==
  /\ NamesApart
  /\ \A r \in Requests : /\ Private(r) /\ LeavesFresh(r) /\ Never(todo[r], {"mountLeader"})
                         /\ ChildApart(r)

LEMMA UnusedFacts ==
  ASSUME Base, NEW x \in Unused
  PROVE  /\ x \in Namespaces /\ x # NoNs /\ x # Host
         /\ \A n \in Names : mounted[n] # x
         /\ \A q \in Requests : child[q] # x /\ (held[q] # NoThread => ns[held[q]] # x)
<1>1. \A q \in Requests : held[q] # NoThread => held[q] \in Threads /\ thread[held[q]] # "absent"
  BY DEF Base, Typed, Functions, RequestInv
<1>2. QED
  BY <1>1, NoneAssumption, HostAssumption DEF Unused, Alive

LEMMA SettingFresh ==
  ASSUME setting' = setting
  PROVE  Running' = Running /\ FreshOps' = FreshOps
BY DEF Running, FreshOps

\* A server that has the week 1 request has no other.
LEMMA RunningRuns ==
  ASSUME Base, Running, NEW r \in Requests, call[r] # NoCall
  PROVE  call[r].op = "run"
BY ScriptDomains, CallTypes DEF Base, Typed, RequestInv, Running

LEMMA PendingNext ==
  ASSUME Base, Separate, NEW r \in Requests, Makes(r), Pending(r)'
  PROVE  /\ held' = held /\ held[r] \in Threads
         /\ \/ /\ mounted' = mounted /\ child' = child
               /\ \E x \in Unused : ns' = [ns EXCEPT ![held[r]] = x]
            \/ /\ Pending(r) /\ ns' = ns /\ Op(r) \notin FreshOps
<1>1. /\ Typed /\ Functions /\ RequestInv(r) /\ setting' = setting /\ FreshOps' = FreshOps
      /\ todo[r] \in Seq(ScriptCall) /\ todo[r] # << >> /\ Op(r) = Head(todo[r]).op
      /\ Private(r) /\ LeavesFresh(r)
  BY MakesRest, MakesFrame, SettingFresh DEF Base, Typed, Separate
<1>2. ~Preceded(todo'[r], FreshOps, {"unshare"}, {})
  BY <1>1 DEF Pending
<1>3. FreshOps \subseteq Firsts /\ FreshOps \cap {"unlock", "exit", "hang"} = {}
  BY DEF FreshOps, Firsts
<1>4. ~GivesUp(r)
  <2>1. ASSUME GivesUp(r) PROVE FALSE
    <3>1. PICK c \in Seq(OpNames) : c = Head(todo[r]).cleanup
      BY <1>1, CleanupType
    <3>2. \A k \in DOMAIN c : c[k] \notin FreshOps
      BY <1>1, <1>3, <3>1, AvoidsCleanup DEF RequestInv, Shape, Plain
    <3>3. todo'[r] = Quietly(c)
      BY <1>1, <2>1, <3>1, MakesRest
    <3>4. DOMAIN Quietly(c) = DOMAIN c
      BY <3>1, QuietlyType
    <3>5. \A k \in DOMAIN c : ~Reaches(Quietly(c)[k], FreshOps, {"unshare"}, {})
      BY <3>1, <3>2, QuietlyReaches
    <3>6. QED
      BY <1>2, <3>3, <3>4, <3>5 DEF Preceded
  <2>2. QED
    BY <2>1
<1>5. GoesOn(r)
  BY <1>1, <1>2, <1>3, <1>4, MakesOutcome, MakesRest, LeavePreceded, EmptyShape
<1>6. Op(r) \notin {"unlock", "exit", "enter"} \cup Homes \cup FreshOps
  BY <1>1, <1>2, <1>5, StepAfterHead DEF LeavesFresh
<1>7. CASE Op(r) = "unshare"
  <2>1. PICK t \in Threads : Unshare(r, t)
    BY <1>7, MakesOp
  <2>2. ~Fails(r)
    BY <1>4, <1>7, FailsGivesUp DEF Checked
  <2>3. held[r] \in Threads
    BY <1>1, <1>7, PrecededHead DEF RequestInv, Functions, Abroad
  <2>4. t = held[r]
    BY <2>1, <2>3, NoneAssumption DEF Unshare, RunsOn
  <2>5. held' = held /\ mounted' = mounted /\ child' = child
    BY <1>7, MakesFrame
  <2>6. QED
    BY <2>1, <2>2, <2>3, <2>4, <2>5 DEF Unshare
<1>8. CASE Op(r) # "unshare"
  <2>1. Pending(r)
    BY <1>1, <1>2, <1>3, <1>8, StepPreceded DEF Pending
  <2>2. ns' = ns
    BY <1>6, <1>8, MakesFrame DEF Homes
  <2>3. held[r] \in Threads
    BY <1>1, <2>1 DEF Private
  <2>4. held' = held
    <3>1. CASE Op(r) = "lock"
      <4>1. PICK t \in Threads : Lock(r, t)
        BY <3>1, MakesOp
      <4>2. QED
        BY <1>1, <2>3, <4>1, NoneAssumption DEF Lock, RunsOn, Functions
    <3>2. QED
      BY <1>6, <3>1, MakesFrame
  <2>5. QED
    BY <1>6, <2>1, <2>2, <2>3, <2>4
<1>9. QED
  BY <1>7, <1>8

\* What a request mounts or starts its process in, while its thread's namespace
\* is its own, is that namespace.
LEMMA FreshUsed ==
  ASSUME Base, Separate, NEW r \in Requests, Makes(r), Op(r) \in FreshOps
  PROVE  Pending(r) /\ held[r] \in Threads /\ \A t \in Threads : RunsOn(r, t) => t = held[r]
<1>1. todo[r] \in Seq(ScriptCall) /\ todo[r] # << >> /\ Op(r) = Head(todo[r]).op /\ Functions
  BY MakesRest DEF Base, Typed
<1>2. Pending(r)
  BY <1>1, PrecededHead DEF Pending
<1>3. held[r] \in Threads
  BY <1>2 DEF Separate, Private
<1>4. QED
  BY <1>2, <1>3, NoneAssumption DEF RunsOn

\* How the names and the children change.
LEMMA MountedMoves ==
  ASSUME Base, Separate, NEW r \in Requests, Makes(r)
  PROVE  \/ \A n \in Names : mounted'[n] \in {mounted[n], NoNs}
         \/ /\ Pending(r) /\ held[r] \in Threads /\ ~Running /\ Op(r) = "mountOwn"
            /\ Name(r) \in Names /\ mounted' = [mounted EXCEPT ![Name(r)] = ns[held[r]]]
<1>1. /\ Typed /\ todo[r] \in Seq(ScriptCall) /\ todo[r] # << >> /\ Op(r) = Head(todo[r]).op
      /\ Never(todo[r], {"mountLeader"})
  BY MakesRest DEF Base, Typed, Separate
<1>2. Op(r) # "mountLeader"
  BY <1>1, PrecededHead DEF Never
<1>3. CASE Op(r) = "unmount"
  BY <1>1, <1>3, MakesOp DEF Unmount, Typed
<1>4. CASE Op(r) = "mountOwn"
  <2>1. call[r] \in Calls /\ call[r].op = "create" /\ Name(r) \in Names
    BY <1>4, ToucherCreates DEF Mounts
  <2>2. ~Running
    BY <2>1, RunningRuns, CallTypes
  <2>3. PICK t \in Threads : MountOwn(r, t)
    BY <1>4, MakesOp
  <2>4. Pending(r) /\ held[r] \in Threads /\ t = held[r]
    BY <1>4, <2>2, <2>3, FreshUsed DEF FreshOps, MountOwn, Mount
  <2>5. QED
    BY <1>4, <2>1, <2>2, <2>3, <2>4 DEF MountOwn, Mount
<1>5. QED
  BY <1>2, <1>3, <1>4, MakesFrame

LEMMA ChildMoves ==
  ASSUME Base, Separate, NEW r \in Requests, Makes(r), Running
  PROVE  \/ \A q \in Requests : child'[q] \in {child[q], NoNs}
         \/ \E x \in Unused : child' = [child EXCEPT ![r] = x]
         \/ /\ Op(r) \in FreshOps /\ Pending(r) /\ held[r] \in Threads
            /\ child' = [child EXCEPT ![r] = ns[held[r]]]
<1>1. Typed /\ Functions
  BY DEF Base, Typed
<1>2. CASE Op(r) = "start"
  <2>1. PICK t \in Threads : Start(r, t)
    BY <1>2, MakesOp
  <2>2. Pending(r) /\ held[r] \in Threads /\ t = held[r] /\ Op(r) \in FreshOps
    BY <1>2, <2>1, FreshUsed DEF FreshOps, Start
  <2>3. child' = child \/ child' = [child EXCEPT ![r] = ns[t]]
    BY <2>1 DEF Start
  <2>4. QED
    BY <2>2, <2>3
<1>3. CASE Op(r) = "startNew"
  <2>1. StartNew(r)
    BY <1>3, MakesOp
  <2>2. QED
    BY <2>1 DEF StartNew
<1>4. CASE Op(r) = "kill"
  BY <1>1, <1>4, MakesOp DEF Kill, Functions
<1>5. QED
  BY <1>2, <1>3, <1>4, MakesFrame

\* What one request keeps to itself no other takes.
LEMMA MakesPrivate ==
  ASSUME Base, Separate, NEW r \in Requests, Makes(r)
  PROVE  Private(r)'
<1> SUFFICES ASSUME Pending(r)'
             PROVE  /\ held'[r] \in Threads /\ ns'[held'[r]] \in Namespaces
                    /\ \A n \in Names : mounted'[n] # ns'[held'[r]]
                    /\ \A q \in Requests \ {r} : Pending(q)' => ns'[held'[q]] # ns'[held'[r]]
                    /\ Running' => \A q \in Requests : child'[q] # ns'[held'[r]]
  BY DEF Private
<1>1. /\ Typed /\ Functions /\ setting' = setting /\ FreshOps' = FreshOps /\ Running' = Running
      /\ Private(r) /\ held' = held /\ held[r] \in Threads
  BY MakesFrame, SettingFresh, PendingNext DEF Base, Typed, Separate
<1>2. ASSUME NEW q \in Requests \ {r}, Pending(q)'
      PROVE  /\ Pending(q) /\ held[q] \in Threads /\ ns'[held[q]] = ns[held[q]]
             /\ held[q] # held[r]
  <2>1. todo'[q] = todo[q]
    BY <1>1, MakesAlone
  <2>2. Pending(q)
    BY <1>1, <1>2, <2>1 DEF Pending
  <2>3. held[q] \in Threads /\ held[q] # NoThread
    BY <2>2, NoneAssumption DEF Separate, Private
  <2>4. QED
    BY <2>2, <2>3, OthersStay DEF Base, ThreadsApart
<1>3. ASSUME mounted' = mounted, child' = child, NEW x \in Unused,
             ns' = [ns EXCEPT ![held[r]] = x]
      PROVE  /\ ns'[held[r]] \in Namespaces
             /\ \A n \in Names : mounted'[n] # ns'[held[r]]
             /\ \A q \in Requests \ {r} : Pending(q)' => ns'[held[q]] # ns'[held[r]]
             /\ Running' => \A q \in Requests : child'[q] # ns'[held[r]]
  <2>1. ns'[held[r]] = x
    BY <1>1, <1>3 DEF Typed
  <2>2. \A q \in Requests \ {r} : Pending(q)' => ns'[held[q]] # x
    BY <1>2, UnusedFacts, NoneAssumption
  <2>3. QED
    BY <1>3, <2>1, <2>2, UnusedFacts
<1>4. ASSUME Pending(r), ns' = ns, Op(r) \notin FreshOps
      PROVE  /\ ns'[held[r]] \in Namespaces
             /\ \A n \in Names : mounted'[n] # ns'[held[r]]
             /\ \A q \in Requests \ {r} : Pending(q)' => ns'[held[q]] # ns'[held[r]]
             /\ Running' => \A q \in Requests : child'[q] # ns'[held[r]]
  <2>1. /\ ns[held[r]] \in Namespaces /\ ns[held[r]] # NoNs
        /\ \A n \in Names : mounted[n] # ns[held[r]]
        /\ \A q \in Requests \ {r} : Pending(q) => ns[held[q]] # ns[held[r]]
        /\ Running => \A q \in Requests : child[q] # ns[held[r]]
    BY <1>1, <1>4, NoneAssumption DEF Private
  <2>2. \A n \in Names : mounted'[n] # ns[held[r]]
    <3>1. \A n \in Names : mounted'[n] \in {mounted[n], NoNs}
      BY <1>4, MountedMoves DEF FreshOps
    <3>2. QED
      BY <2>1, <3>1
  <2>3. Running' => \A q \in Requests : child'[q] # ns[held[r]]
    <3>1. CASE Running
      <4>1. \/ \A q \in Requests : child'[q] \in {child[q], NoNs}
            \/ \E x \in Unused : child' = [child EXCEPT ![r] = x]
        BY <1>4, <3>1, ChildMoves
      <4>2. ASSUME NEW x \in Unused PROVE x # ns[held[r]]
        BY <1>1, UnusedFacts, NoneAssumption
      <4>3. QED
        BY <1>1, <2>1, <3>1, <4>1, <4>2 DEF Functions
    <3>2. QED
      BY <1>1, <3>1
  <2>4. QED
    BY <1>2, <1>4, <2>1, <2>2, <2>3
<1>5. QED
  BY <1>1, <1>3, <1>4, PendingNext

LEMMA OthersPrivate ==
  ASSUME Base, Separate, NEW r \in Requests, Makes(r), NEW q \in Requests, q # r
  PROVE  Private(q)'
<1> SUFFICES ASSUME Pending(q)'
             PROVE  /\ held'[q] \in Threads /\ ns'[held'[q]] \in Namespaces
                    /\ \A n \in Names : mounted'[n] # ns'[held'[q]]
                    /\ \A p \in Requests \ {q} : Pending(p)' => ns'[held'[p]] # ns'[held'[q]]
                    /\ Running' => \A p \in Requests : child'[p] # ns'[held'[q]]
  BY DEF Private
<1>1. /\ Typed /\ Functions /\ setting' = setting /\ FreshOps' = FreshOps /\ Running' = Running
      /\ todo'[q] = todo[q] /\ held'[q] = held[q]
  BY MakesFrame, SettingFresh, MakesAlone DEF Base, Typed
<1>2. Pending(q)
  BY <1>1 DEF Pending
<1> DEFINE x == ns[held[q]]
<1>3. /\ held[q] \in Threads /\ held[q] # NoThread /\ x \in Namespaces /\ x # NoNs
      /\ \A n \in Names : mounted[n] # x
      /\ \A p \in Requests \ {q} : Pending(p) => ns[held[p]] # x
      /\ Running => \A p \in Requests : child[p] # x
  BY <1>2, NoneAssumption DEF Separate, Private
<1>4. ns'[held[q]] = x
  BY <1>3, OthersStay
<1> HIDE DEF x
<1>5. ASSUME NEW y \in Unused PROVE y # x
  BY <1>3, UnusedFacts DEF x
<1>6. \A n \in Names : mounted'[n] # x
  <2>1. Pending(r) => ns[held[r]] # x
    BY <1>3
  <2>2. QED
    BY <1>1, <1>3, <2>1, MountedMoves DEF Typed
<1>7. ASSUME NEW p \in Requests \ {q}, Pending(p)'
      PROVE  ns'[held'[p]] # x
  <2>1. CASE p = r
    <3>1. PICK y : /\ held' = held /\ held[r] \in Threads
                   /\ \/ y \in Unused /\ ns' = [ns EXCEPT ![held[r]] = y]
                      \/ Pending(r) /\ ns' = ns
      BY <1>7, <2>1, PendingNext
    <3>2. CASE y \in Unused /\ ns' = [ns EXCEPT ![held[r]] = y]
      BY <1>1, <1>5, <2>1, <3>1, <3>2 DEF Typed
    <3>3. CASE Pending(r) /\ ns' = ns
      BY <1>3, <2>1, <3>1, <3>3
    <3>4. QED
      BY <3>1, <3>2, <3>3
  <2>2. CASE p # r
    <3>1. todo'[p] = todo[p] /\ held'[p] = held[p]
      BY <1>1, <2>2, MakesAlone
    <3>2. Pending(p)
      BY <1>1, <1>7, <3>1 DEF Pending
    <3>3. held[p] # NoThread
      BY <3>2, NoneAssumption DEF Separate, Private
    <3>4. ns'[held[p]] = ns[held[p]]
      BY <2>2, <3>3, OthersStay
    <3>5. QED
      BY <1>3, <3>1, <3>2, <3>4
  <2>3. QED
    BY <2>1, <2>2
<1>8. ASSUME Running, NEW p \in Requests PROVE child'[p] # x
  <2>1. Pending(r) => ns[held[r]] # x
    BY <1>3
  <2>2. QED
    BY <1>1, <1>3, <1>5, <1>8, <2>1, ChildMoves DEF Functions
<1>9. QED
  BY <1>1, <1>3, <1>4, <1>6, <1>7, <1>8

LEMMA MakesSeparate ==
  ASSUME Base, Separate, NEW r \in Requests, Makes(r)
  PROVE  Separate'
<1>1. /\ Typed /\ Functions /\ setting' = setting /\ FreshOps' = FreshOps /\ Running' = Running
      /\ RequestInv(r) /\ NamesApart
  BY MakesFrame, SettingFresh DEF Base, Typed, Separate
<1>2. \A q \in Requests : Private(q)'
  BY MakesPrivate, OthersPrivate
<1>3. NamesApart'
  <2>1. Pending(r) => /\ ns[held[r]] # Host /\ ns[held[r]] # NoNs
                      /\ \A n \in Names : mounted[n] # ns[held[r]]
    BY HostAssumption, NoneAssumption DEF Separate, Private
  <2>2. CASE \A n \in Names : mounted'[n] \in {mounted[n], NoNs}
    BY <1>1, <2>2 DEF NamesApart
  <2>3. CASE /\ Pending(r) /\ Name(r) \in Names
             /\ mounted' = [mounted EXCEPT ![Name(r)] = ns[held[r]]]
    BY <1>1, <2>1, <2>3 DEF NamesApart, Typed
  <2>4. QED
    BY <2>2, <2>3, MountedMoves
<1>4. ASSUME NEW q \in Requests PROVE ChildApart(q)'
  <2> SUFFICES ASSUME Running, child'[q] # NoNs
               PROVE  child'[q] \in Namespaces /\ \A p \in Requests \ {q} : child'[p] # child'[q]
    BY <1>1 DEF ChildApart
  <2>1. \A p \in Requests : child[p] # NoNs =>
           child[p] \in Namespaces /\ \A m \in Requests \ {p} : child[m] # child[p]
    BY DEF Separate, ChildApart
  <2>2. CASE \A p \in Requests : child'[p] \in {child[p], NoNs}
    BY <2>1, <2>2
  <2>3. ASSUME NEW x \in Unused, child' = [child EXCEPT ![r] = x]
        PROVE  child'[q] \in Namespaces /\ \A p \in Requests \ {q} : child'[p] # child'[q]
    BY <1>1, <2>1, <2>3, UnusedFacts DEF Functions
  <2>4. CASE Pending(r) /\ child' = [child EXCEPT ![r] = ns[held[r]]]
    <3>1. ns[held[r]] \in Namespaces /\ \A p \in Requests : child[p] # ns[held[r]]
      BY <2>4 DEF Separate, Private
    <3>2. QED
      BY <1>1, <2>1, <2>4, <3>1 DEF Functions
  <2>5. QED
    BY <2>2, <2>3, <2>4, ChildMoves
<1>5. ASSUME NEW q \in Requests
      PROVE  LeavesFresh(q)' /\ Never(todo'[q], {"mountLeader"})
  <2>1. LeavesFresh(q) /\ Never(todo[q], {"mountLeader"})
    BY DEF Separate
  <2>2. CASE q = r
    <3>1. CleanupsAvoid(todo[r], FreshOps)
      BY <1>1, AvoidWeaker DEF RequestInv, Shape, Plain, Firsts, FreshOps
    <3>2. FreshOps \cap {"unlock", "exit", "hang"} = {}
      BY DEF FreshOps
    <3>3. LeavesFresh(r)'
      BY <1>1, <2>1, <2>2, <3>1, <3>2, StepAfter DEF LeavesFresh
    <3>4. Never(todo'[r], {"mountLeader"})
      BY <1>1, <2>1, <2>2, StepPreceded DEF Never
    <3>5. QED
      BY <2>2, <3>3, <3>4
  <2>3. CASE q # r
    BY <1>1, <2>1, <2>3, MakesAlone DEF LeavesFresh
  <2>4. QED
    BY <2>2, <2>3
<1>6. QED
  BY <1>2, <1>3, <1>4, <1>5 DEF Separate

\* saguanamu's create mounts whatever namespace the first thread is in.
MountsOwn(w) == w.server # "saguanamu"

LEMMA StartsSeparate ==
  ASSUME Base, MountsOwn(setting), setting' = setting,
         NEW q \in Requests, NEW c \in Calls, Starts(q, c)
  PROVE  ~Pending(q)' /\ LeavesFresh(q)' /\ Never(todo'[q], {"mountLeader"})
<1>1. /\ c.op \in DOMAIN Script /\ setting.server \in DOMAIN Script[c.op]
      /\ todo'[q] = Script[c.op][setting.server] /\ FreshOps' = FreshOps
      /\ Shape(todo'[q]) /\ Begins(todo'[q])
      /\ c.op = "run" => Runs(todo'[q])
  BY StartsScript, CallTypes, SettingFresh DEF Starts
<1>2. Running => c.op = "run"
  BY <1>1, ScriptDomains DEF Running
<1>3. Preceded(todo'[q], FreshOps, {"unshare"}, {}) /\ LeavesFresh(q)'
  <2>1. CASE Running
    <3>1. FreshOps = {"start"} /\ {"start", "unlock", "exit", "enter"} \cup Homes =
             {"unlock", "exit", "enter"} \cup Homes \cup {"start"}
      BY <2>1 DEF FreshOps
    <3>2. QED
      BY <1>1, <1>2, <2>1, <3>1 DEF Runs, LeavesFresh
  <2>2. CASE ~Running
    <3>1. FreshOps = {"mountOwn"} /\ {"unlock", "exit", "enter", "mountOwn"} \cup Homes =
             {"unlock", "exit", "enter"} \cup Homes \cup {"mountOwn"}
      BY <2>2 DEF FreshOps
    <3>2. QED
      BY <1>1, <2>2, <3>1 DEF Begins, Shape, Fresh, LeavesFresh
  <2>3. QED
    BY <2>1, <2>2
<1>4. QED
  BY <1>1, <1>3, MountScripts DEF Pending, MountsOwn

LEMMA OthersSeparate ==
  ASSUME Base, Separate, MountsOwn(setting), [Next]_vars, ~ \E r \in Requests : Makes(r)
  PROVE  Separate'
<1>1. /\ Typed /\ Functions /\ setting' = setting /\ FreshOps' = FreshOps /\ Running' = Running
      /\ \A r \in Requests : RequestInv(r)
  <2>1. setting' = setting
    BY NextCases DEF Answer, Accept, Spawn, Killed, vars
  <2>2. QED
    BY <2>1, SettingFresh DEF Base, Typed
<1>2. mounted' = mounted
  BY MountsCases
<1>3. \/ ns' = ns
      \/ \E t \in Threads : Spawn(t)
      \/ Killed
  BY NextCases DEF Answer, Accept, UnchangedKernel, kernelVars, vars
<1>4. ASSUME NEW q \in Requests
      PROVE  /\ LeavesFresh(q)' /\ Never(todo'[q], {"mountLeader"})
             /\ child'[q] \in {child[q], NoNs}
             /\ Pending(q)' => /\ Pending(q) /\ held'[q] = held[q] /\ held[q] \in Threads
                               /\ ns'[held[q]] = ns[held[q]]
  <2>1. CASE Same(q)
    <3>1. LeavesFresh(q)' /\ Never(todo'[q], {"mountLeader"}) /\ (Pending(q)' => Pending(q))
      BY <1>1, <2>1 DEF Separate, Same, LeavesFresh, Pending
    <3>2. ASSUME Pending(q)'
          PROVE  held[q] \in Threads /\ held[q] # NoThread /\ thread[held[q]] = "held"
      BY <1>1, <3>1, <3>2, NoneAssumption DEF Separate, Private, RequestInv
    <3>3. ASSUME Pending(q)', NEW t \in Threads, Spawn(t) PROVE ns'[held[q]] = ns[held[q]]
      <4>1. held[q] # t
        BY <3>2, <3>3 DEF Spawn
      <4>2. PICK x : ns' = [ns EXCEPT ![t] = x]
        BY <3>3 DEF Spawn
      <4>3. QED
        BY <1>1, <3>2, <3>3, <4>1, <4>2 DEF Typed
    <3>4. ~(Pending(q)' /\ Killed)
      <4>1. Killed => todo'[q] = << >>
        BY DEF Killed, Boot
      <4>2. QED
        BY <4>1, EmptyShape DEF Pending
    <3>5. QED
      BY <1>3, <2>1, <3>1, <3>2, <3>3, <3>4 DEF Same
  <2>2. ASSUME NEW c \in Calls, Starts(q, c)
        PROVE  /\ LeavesFresh(q)' /\ Never(todo'[q], {"mountLeader"}) /\ ~Pending(q)'
               /\ child'[q] = NoNs
    BY <1>1, <2>2, StartsSeparate DEF Starts
  <2>3. CASE Idles(q)
    <3>1. todo'[q] = << >> /\ child'[q] = NoNs
      BY <2>3 DEF Idles
    <3>2. LeavesFresh(q)' /\ Never(todo'[q], {"mountLeader"}) /\ ~Pending(q)'
      BY <3>1, EmptyShape DEF LeavesFresh, After, Never, Pending
    <3>3. QED
      BY <3>1, <3>2
  <2>4. QED
    BY <2>1, <2>2, <2>3, RequestCases
<1>5. ASSUME NEW q \in Requests PROVE Private(q)' /\ ChildApart(q)'
  <2>1. Private(q) /\ ChildApart(q)
    BY DEF Separate
  <2>2. Private(q)'
    <3> SUFFICES ASSUME Pending(q)'
                 PROVE  /\ held'[q] \in Threads /\ ns'[held'[q]] \in Namespaces
                        /\ \A n \in Names : mounted'[n] # ns'[held'[q]]
                        /\ \A p \in Requests \ {q} : Pending(p)' => ns'[held'[p]] # ns'[held'[q]]
                        /\ Running' => \A p \in Requests : child'[p] # ns'[held'[q]]
      BY DEF Private
    <3>1. /\ held[q] \in Threads /\ ns[held[q]] \in Namespaces /\ ns[held[q]] # NoNs
          /\ \A n \in Names : mounted[n] # ns[held[q]]
          /\ \A p \in Requests \ {q} : Pending(p) => ns[held[p]] # ns[held[q]]
          /\ Running => \A p \in Requests : child[p] # ns[held[q]]
      BY <1>4, <2>1, NoneAssumption DEF Private
    <3>2. held'[q] = held[q] /\ ns'[held[q]] = ns[held[q]]
      BY <1>4
    <3>3. \A p \in Requests : Pending(p)' => Pending(p) /\ ns'[held'[p]] = ns[held[p]]
      BY <1>4
    <3>4. \A p \in Requests : child'[p] \in {child[p], NoNs}
      BY <1>4
    <3>5. QED
      BY <1>1, <1>2, <3>1, <3>2, <3>3, <3>4
  <2>3. ChildApart(q)'
    <3>1. \A p \in Requests : child'[p] \in {child[p], NoNs}
      BY <1>4
    <3>2. QED
      BY <1>1, <2>1, <3>1 DEF ChildApart
  <2>4. QED
    BY <2>2, <2>3
<1>6. QED
  BY <1>2, <1>4, <1>5 DEF Separate, NamesApart

LEMMA SeparateInductive ==
  ASSUME \A w \in Settings : MountsOwn(w), Base, Separate, [Next]_vars
  PROVE  Separate'
<1>1. MountsOwn(setting)
  BY DEF Base, Typed
<1>2. QED
  BY <1>1, MakesSeparate, OthersSeparate

LEMMA SpecSeparate == (\A w \in Settings : MountsOwn(w)) => (Spec => [](Base /\ Separate))
<1> SUFFICES ASSUME \A w \in Settings : MountsOwn(w) PROVE Spec => [](Base /\ Separate)
  OBVIOUS
<1>1. Init => Separate
  <2> SUFFICES ASSUME Init PROVE Separate
    OBVIOUS
  <2>1. ASSUME NEW q \in Requests
        PROVE  /\ ~Pending(q) /\ LeavesFresh(q) /\ Never(todo[q], {"mountLeader"})
               /\ child[q] = NoNs
    <3>1. todo[q] = << >> /\ child[q] = NoNs
      BY DEF Init
    <3>2. QED
      BY <3>1, EmptyShape DEF Pending, LeavesFresh, Never, After
  <2>2. QED
    BY <2>1 DEF Init, Separate, NamesApart, Private, ChildApart
<1>2. Spec => []Base
  BY SpecBase
<1>3. QED
  BY <1>1, <1>2, SeparateInductive, PTL DEF Spec

\* Whatever fails, wherever the process is killed and whichever thread runs what:
\* no two names ever stand for one namespace and none for the server's own, but
\* for the server that mounts its first thread's (02-week/README.md 2.3, 2.9).
THEOREM NamesStayApart == (\A w \in Settings : MountsOwn(w)) => (Spec => []NamesApart)
<1> SUFFICES ASSUME \A w \in Settings : MountsOwn(w) PROVE Spec => []NamesApart
  OBVIOUS
<1>1. Base /\ Separate => NamesApart
  BY DEF Separate
<1>2. Spec => [](Base /\ Separate)
  BY SpecSeparate
<1>3. QED
  BY <1>1, <1>2, PTL

-----------------------------------------------------------------------------
(* The namespace a process is started in *)

NoCallOf(s, A) == \A i \in DOMAIN s : s[i].op \notin A
Ahead(s, A) == \E i \in DOMAIN s : s[i].op \in A

\* The thread is in the namespace the name stood for until the process starts.
Settled == {"open", "lock", "unlock", "exit", "unshare"} \cup Homes
Entered(r) == ~Preceded(todo[r], {"start"}, {"enter"}, OpNames)
Execs(r) ==
  /\ target[r] # Host
  /\ After(todo[r], {"enter"}, Settled, {"start"}, OpNames)
  /\ After(todo[r], {"start"}, {"start", "startNew", "open", "kill"}, {}, OpNames)
  /\ NoCallOf(todo[r], Leavers \cup {"kill", "startNew"})
  /\ \/ Ahead(todo[r], {"start"})
     \/ /\ child[r] = target[r] /\ target[r] # NoNs
        /\ NoCallOf(todo[r], {"start", "startNew", "open", "kill"})
  /\ Entered(r) =>
       /\ held[r] \in Threads /\ target[r] # NoNs /\ ns[held[r]] = target[r]
       /\ Preceded(todo[r], Settled, {"start"}, OpNames)

\* A run that has no process yet has still to find that out.
Launches(r) ==
  /\ NoCallOf(todo[r], Leavers \cup {"kill"})
  /\ \/ child[r] # NoNs
     \/ \E i \in DOMAIN todo[r] : todo[r][i].must /\ todo[r][i].op \in {"start", "startNew", "pid"}
Childly(r) ==
  ok[r] => /\ call[r] # NoCall /\ call[r].op = "exec" => Execs(r)
           /\ call[r] # NoCall /\ call[r].op = "run" => Launches(r)

LEMMA NoCallTail ==
  ASSUME NEW s \in Seq(ScriptCall), s # << >>, NEW A, NoCallOf(s, A)
  PROVE  Head(s).op \notin A /\ NoCallOf(Tail(s), A)
BY HeadTail DEF NoCallOf

LEMMA AheadTail ==
  ASSUME NEW s \in Seq(ScriptCall), s # << >>, NEW A, Ahead(s, A), Head(s).op \notin A
  PROVE  Ahead(Tail(s), A)
<1>1. PICK i \in DOMAIN s : s[i].op \in A
  BY DEF Ahead
<1>2. i # 1 /\ i \in 1 .. Len(s)
  BY <1>1, HeadTail
<1>3. i - 1 \in DOMAIN Tail(s)
  BY <1>2, HeadTail
<1>4. Tail(s)[i - 1] = s[i - 1 + 1] /\ i - 1 + 1 = i
  BY <1>2, <1>3, HeadTail
<1>5. QED
  BY <1>1, <1>3, <1>4 DEF Ahead

\* Where no error may come and nothing is found, the handler goes on.
LEMMA OkGoesOn ==
  ASSUME Base, NEW r \in Requests, Makes(r), call[r] # NoCall, call[r].op # "create",
         NoCallOf(todo[r], Leavers), ok'[r]
  PROVE  GoesOn(r) /\ ok[r] /\ (Head(todo[r]).must => ~Fails(r))
<1>1. /\ Functions /\ todo[r] \in Seq(ScriptCall) /\ todo[r] # << >> /\ Harmless(todo[r])
      /\ Op(r) = Head(todo[r]).op
  BY MakesRest DEF Base, Typed, RequestInv
<1>2. Op(r) \notin Leavers /\ Op(r) \notin Finders
  BY <1>1, PrecededHead, NoCallTail DEF Harmless, Never
<1>3. ~GivesUp(r)
  BY <1>1, MakesRest
<1>4. GoesOn(r)
  BY <1>2, <1>3, MakesOutcome DEF FindsIt, Leaves, Leavers, Finders
<1>5. ASSUME Head(todo[r]).must, Fails(r) PROVE FALSE
  BY <1>1, <1>5 DEF Fails, Functions
<1>6. QED
  BY <1>1, <1>4, <1>5, MakesRest

LEMMA MakesExecs ==
  ASSUME Base, NamesApart, NEW r \in Requests, Makes(r), call[r] # NoCall,
         call[r].op = "exec", Childly(r), ok'[r]
  PROVE  Execs(r)'
<1>1. /\ Typed /\ Functions /\ todo[r] \in Seq(ScriptCall) /\ todo[r] # << >>
      /\ Op(r) = Head(todo[r]).op /\ RequestInv(r) /\ Name(r) \in Names
      /\ Head(todo[r]).op \in OpNames
  <2>1. Typed /\ Functions /\ RequestInv(r) /\ call[r] \in Calls
    BY DEF Base, Typed
  <2>2. Name(r) \in Names
    BY <2>1, CallTypes DEF Name
  <2>3. todo[r] \in Seq(ScriptCall) /\ todo[r] # << >> /\ Op(r) = Head(todo[r]).op
    BY <2>1, MakesRest
  <2>4. Head(todo[r]).op \in OpNames
    BY <2>3, HeadTail DEF ScriptCall
  <2>5. QED
    BY <2>1, <2>2, <2>3, <2>4
<1>2. ok[r] /\ Execs(r)
  <2>1. ok[r]
    BY <1>1, MakesRest, MakesOutcome
  <2>2. QED
    BY <2>1 DEF Childly
<1>3. GoesOn(r) /\ todo'[r] = Tail(todo[r]) /\ (Head(todo[r]).must => ~Fails(r))
  <2>1. NoCallOf(todo[r], Leavers)
    BY <1>2 DEF Execs, NoCallOf
  <2>2. GoesOn(r) /\ (Head(todo[r]).must => ~Fails(r))
    BY <2>1, OkGoesOn
  <2>3. QED
    BY <1>1, <2>2, MakesRest
<1>4. /\ After(todo'[r], {"enter"}, Settled, {"start"}, OpNames)
      /\ After(todo'[r], {"start"}, {"start", "startNew", "open", "kill"}, {}, OpNames)
      /\ NoCallOf(todo'[r], Leavers \cup {"kill", "startNew"})
      /\ Op(r) \notin {"kill", "startNew"}
  BY <1>1, <1>2, <1>3, AfterTail, NoCallTail DEF Execs
<1>5. Op(r) \in {"enter", "start", "open"} => Head(todo[r]).must
  BY <1>1, HeadTail DEF RequestInv, Shape, Plain, Musts, Checked
<1>6. target'[r] # Host
  <2>1. CASE Op(r) = "open"
    <3>1. target'[r] = mounted[Name(r)]
      BY <1>1, <1>3, <1>5, <2>1, MakesOp DEF Open, Functions
    <3>2. mounted[Name(r)] # Host
      BY <1>1, NoneAssumption DEF NamesApart
    <3>3. QED
      BY <3>1, <3>2
  <2>2. CASE Op(r) # "open"
    BY <1>2, <2>2, MakesFrame DEF Execs
  <2>3. QED
    BY <2>1, <2>2
<1>7. CASE Op(r) = "start"
  <2>1. PICK t \in Threads : Start(r, t)
    BY <1>7, MakesOp
  <2>2. Entered(r)
    BY <1>1, <1>7, PrecededHead DEF Entered
  <2>3. held[r] \in Threads /\ target[r] # NoNs /\ ns[held[r]] = target[r]
    BY <1>2, <2>2 DEF Execs
  <2>4. t = held[r]
    BY <2>1, <2>3, NoneAssumption DEF Start, RunsOn
  <2>5. child'[r] = target[r] /\ target' = target
    BY <1>1, <1>3, <1>5, <1>7, <2>1, <2>3, <2>4 DEF Start, Functions
  <2>6. Preceded(todo'[r], {"start", "startNew", "open", "kill"}, {}, OpNames)
    BY <1>1, <1>2, <1>3, <1>7, AfterHead DEF Execs
  <2>7. NoCallOf(todo'[r], {"start", "startNew", "open", "kill"})
    BY <2>6 DEF NoCallOf, Preceded, Reaches
  <2>8. ~Entered(r)'
    BY <2>6, PrecededWeaker DEF Entered
  <2>9. QED
    BY <1>4, <1>6, <2>3, <2>5, <2>7, <2>8 DEF Execs
<1>8. CASE Op(r) # "start"
  <2>1. child' = child
    BY <1>4, <1>8, MakesFrame
  <2>2. \/ Ahead(todo'[r], {"start"})
        \/ /\ child'[r] = target'[r] /\ target'[r] # NoNs
           /\ NoCallOf(todo'[r], {"start", "startNew", "open", "kill"})
    <3>1. CASE Ahead(todo[r], {"start"})
      BY <1>1, <1>3, <1>8, <3>1, AheadTail
    <3>2. CASE /\ child[r] = target[r] /\ target[r] # NoNs
               /\ NoCallOf(todo[r], {"start", "startNew", "open", "kill"})
      <4>1. Op(r) # "open" /\ NoCallOf(todo'[r], {"start", "startNew", "open", "kill"})
        BY <1>1, <1>3, <3>2, NoCallTail
      <4>2. QED
        BY <2>1, <3>2, <4>1, MakesFrame
    <3>3. QED
      BY <1>2, <3>1, <3>2 DEF Execs
  <2>3. ASSUME Entered(r)'
        PROVE  /\ held'[r] \in Threads /\ target'[r] # NoNs /\ ns'[held'[r]] = target'[r]
               /\ Preceded(todo'[r], Settled, {"start"}, OpNames)
    <3>1. CASE Op(r) = "enter"
      <4>1. PICK t \in Threads : Enter(r, t)
        BY <3>1, MakesOp
      <4>2. held[r] # NoThread
        BY <1>1, <3>1, PrecededHead DEF RequestInv, Abroad
      <4>3. t = held[r] /\ held' = held /\ target' = target
        BY <3>1, <4>1, <4>2, MakesFrame DEF Enter, RunsOn
      <4>4. target[r] # NoNs /\ ns'[t] = target[r]
        BY <1>1, <1>3, <1>5, <3>1, <4>1 DEF Enter, Typed
      <4>5. QED
        BY <1>1, <1>2, <1>3, <3>1, <4>3, <4>4, AfterHead DEF Execs
    <3>2. CASE Op(r) # "enter"
      <4>1. Entered(r)
        BY <1>1, <1>3, <2>3, <3>2, PrecededTail DEF Entered
      <4>2. /\ held[r] \in Threads /\ target[r] # NoNs /\ ns[held[r]] = target[r]
            /\ Preceded(todo[r], Settled, {"start"}, OpNames)
        BY <1>2, <4>1 DEF Execs
      <4>3. Op(r) \notin Settled
        BY <1>1, <4>2, PrecededHead
      <4>4. held' = held /\ ns' = ns /\ target' = target
        BY <3>2, <4>3, MakesFrame DEF Settled, Homes
      <4>5. Preceded(todo'[r], Settled, {"start"}, OpNames)
        BY <1>1, <1>3, <1>8, <4>2, PrecededTail
      <4>6. QED
        BY <4>2, <4>4, <4>5
    <3>3. QED
      BY <3>1, <3>2
  <2>4. QED
    BY <1>4, <1>6, <2>2, <2>3 DEF Execs
<1>9. QED
  BY <1>7, <1>8

LEMMA MakesLaunches ==
  ASSUME Base, NEW r \in Requests, Makes(r), call[r] # NoCall,
         call[r].op = "run", Childly(r), ok'[r]
  PROVE  Launches(r)'
<1>1. /\ Typed /\ Functions /\ todo[r] \in Seq(ScriptCall) /\ todo[r] # << >>
      /\ Op(r) = Head(todo[r]).op
  BY MakesRest DEF Base, Typed
<1>2. ok[r] /\ Launches(r)
  <2>1. ok[r]
    BY <1>1, MakesRest, MakesOutcome
  <2>2. QED
    BY <2>1 DEF Childly
<1>3. GoesOn(r) /\ todo'[r] = Tail(todo[r]) /\ (Head(todo[r]).must => ~Fails(r))
  <2>1. NoCallOf(todo[r], Leavers)
    BY <1>2 DEF Launches, NoCallOf
  <2>2. GoesOn(r) /\ (Head(todo[r]).must => ~Fails(r))
    BY <2>1, OkGoesOn
  <2>3. QED
    BY <1>1, <2>2, MakesRest
<1>4. NoCallOf(todo'[r], Leavers \cup {"kill"}) /\ Op(r) # "kill"
  BY <1>1, <1>2, <1>3, NoCallTail DEF Launches
<1>5. /\ child[r] # NoNs => child'[r] # NoNs
      /\ Head(todo[r]).must /\ Op(r) \in {"start", "startNew", "pid"} => child'[r] # NoNs
  <2>1. CASE Op(r) = "start"
    <3>1. PICK t \in Threads : Start(r, t)
      BY <2>1, MakesOp
    <3>2. ns[t] # NoNs
      BY <1>1, NoneAssumption DEF Typed, AnyNs
    <3>3. QED
      BY <1>1, <1>3, <3>1, <3>2 DEF Start, Functions
  <2>2. CASE Op(r) = "startNew"
    <3>1. StartNew(r)
      BY <2>2, MakesOp
    <3>2. \A x \in Unused : x # NoNs
      BY UnusedFacts
    <3>3. QED
      BY <1>1, <1>3, <3>1, <3>2 DEF StartNew, Functions
  <2>3. CASE Op(r) = "pid"
    BY <1>3, <2>3, MakesOp, MakesFrame DEF Pid
  <2>4. QED
    BY <1>4, <2>1, <2>2, <2>3, MakesFrame
<1>6. ASSUME NEW i \in DOMAIN todo[r], i # 1
      PROVE  i - 1 \in DOMAIN todo'[r] /\ todo'[r][i - 1] = todo[r][i]
  BY <1>1, <1>3, <1>6, HeadTail
<1>7. todo[r][1] = Head(todo[r])
  BY <1>1, HeadTail
<1>8. \/ child'[r] # NoNs
      \/ \E i \in DOMAIN todo'[r] :
           todo'[r][i].must /\ todo'[r][i].op \in {"start", "startNew", "pid"}
  <2> SUFFICES ASSUME child'[r] = NoNs
               PROVE  \E j \in DOMAIN todo'[r] :
                        todo'[r][j].must /\ todo'[r][j].op \in {"start", "startNew", "pid"}
    OBVIOUS
  <2> DEFINE Start1(s, i) == s[i].must /\ s[i].op \in {"start", "startNew", "pid"}
  <2>0. child[r] = NoNs
    BY <1>5
  <2>1. PICK i \in DOMAIN todo[r] : Start1(todo[r], i)
    BY <1>2, <2>0 DEF Launches
  <2>2. i # 1
    BY <1>1, <1>5, <1>7, <2>1
  <2>3. QED
    BY <1>6, <2>1, <2>2
<1>9. QED
  BY <1>4, <1>8 DEF Launches

LEMMA StartsChildly ==
  ASSUME Base, setting' = setting, NEW q \in Requests, NEW c \in Calls, Starts(q, c)
  PROVE  Childly(q)'
<1> DEFINE s == todo'[q]
<1>1. /\ c.op \in DOMAIN Script /\ setting.server \in DOMAIN Script[c.op]
      /\ s = Script[c.op][setting.server]
      /\ call'[q] = c /\ target'[q] = NoNs /\ child'[q] = NoNs
  BY CallTypes DEF Starts
<1>2. /\ Begins(s) /\ s \in Seq(ScriptCall)
      /\ c.op = "exec" => Executes(s)
      /\ c.op = "run" => Runs(s)
  BY <1>1, StartsScript DEF Shape
<1> HIDE DEF s
<1>3. ASSUME c.op = "exec" PROVE Execs(q)'
  <2>1. ~Entered(q)'
    BY <1>2, <1>3, PrecededWeaker DEF Executes, Entered, s
  <2>2. Ahead(s, {"start"}) /\ NoCallOf(s, Leavers \cup {"kill", "startNew"})
    BY <1>2, <1>3 DEF Executes, Begins, Ahead, NoCallOf
  <2>3. /\ After(s, {"enter"}, Settled, {"start"}, OpNames)
        /\ After(s, {"start"}, {"start", "startNew", "open", "kill"}, {}, OpNames)
    BY <1>2, <1>3 DEF Executes, Settled
  <2>4. QED
    BY <1>1, <2>1, <2>2, <2>3, NoneAssumption DEF Execs, s
<1>4. ASSUME c.op = "run" PROVE Launches(q)'
  BY <1>2, <1>4 DEF Runs, Begins, Launches, NoCallOf, s
<1>5. QED
  BY <1>1, <1>3, <1>4 DEF Childly

LEMMA ChildlyInductive ==
  ASSUME Base, NamesApart, \A q \in Requests : Childly(q), [Next]_vars, NEW q \in Requests
  PROVE  Childly(q)'
<1>1. Typed /\ Functions /\ RequestInv(q) /\ setting' = setting
  BY RequestCases DEF Base, Typed
<1>2. CASE Makes(q)
  <2>1. call' = call
    BY <1>2, MakesFrame
  <2>2. QED
    BY <1>2, <2>1, MakesExecs, MakesLaunches DEF Childly
<1>3. CASE Same(q) /\ ~Makes(q)
  <2>1. ASSUME Entered(q)', held[q] \in Threads PROVE ns'[held[q]] = ns[held[q]]
    <3>1. held[q] # NoThread /\ thread[held[q]] = "held"
      BY <1>1, <2>1, NoneAssumption DEF RequestInv
    <3>2. ASSUME NEW r \in Requests, Makes(r) PROVE ns'[held[q]] = ns[held[q]]
      <4>1. r # q
        BY <1>3, <3>2
      <4>2. QED
        BY <3>1, <3>2, <4>1, OthersStay
    <3>3. ASSUME NEW t \in Threads, Spawn(t) PROVE ns'[held[q]] = ns[held[q]]
      <4>1. held[q] # t
        BY <3>1, <3>3 DEF Spawn
      <4>2. PICK x : ns' = [ns EXCEPT ![t] = x]
        BY <3>3 DEF Spawn
      <4>3. QED
        BY <1>1, <2>1, <3>3, <4>1, <4>2 DEF Typed
    <3>4. ~Killed
      <4>1. Killed => todo'[q] = << >>
        BY DEF Killed, Boot
      <4>2. QED
        BY <2>1, <4>1, EmptyShape DEF Entered
    <3>5. ns' = ns \/ (\E r \in Requests : Makes(r)) \/ (\E t \in Threads : Spawn(t))
      BY <3>4, NextCases DEF Answer, Accept, UnchangedKernel, kernelVars, vars
    <3>6. QED
      BY <3>2, <3>3, <3>5
  <2>2. Same(q) /\ Childly(q)
    BY <1>3
  <2>3. ASSUME Execs(q) PROVE Execs(q)'
    <3>1. ASSUME Entered(q)' PROVE held[q] \in Threads /\ ns'[held[q]] = ns[held[q]] /\ Entered(q)
      <4>1. Entered(q)
        BY <2>2, <3>1 DEF Same, Entered
      <4>2. held[q] \in Threads
        BY <2>3, <4>1 DEF Execs
      <4>3. QED
        BY <2>1, <3>1, <4>1, <4>2
    <3>2. QED
      BY <2>2, <2>3, <3>1 DEF Same, Execs
  <2>4. ASSUME Launches(q) PROVE Launches(q)'
    BY <2>2, <2>4 DEF Same, Launches
  <2>5. QED
    BY <2>2, <2>3, <2>4 DEF Same, Childly
<1>4. ASSUME NEW c \in Calls, Starts(q, c) PROVE Childly(q)'
  BY <1>1, <1>4, StartsChildly
<1>5. CASE Idles(q)
  BY <1>5 DEF Idles, Childly
<1>6. QED
  BY <1>2, <1>3, <1>4, <1>5, RequestCases

\* An exec that is answered has started its process in the namespace its name
\* stood for, and a run in one of its own, in every environment and for every
\* server that names only namespaces it makes.
THEOREM ChildrenInNamespaces ==
  (\A w \in Settings : MountsOwn(w)) => (Spec => []ChildInNamespace)
<1> SUFFICES ASSUME \A w \in Settings : MountsOwn(w) PROVE Spec => []ChildInNamespace
  OBVIOUS
<1> DEFINE Inv == \A q \in Requests : Childly(q)
<1>1. Init => Inv
  BY DEF Init, Childly
<1>2. Base /\ Separate /\ Inv /\ [Next]_vars => Inv'
  BY ChildlyInductive DEF Separate
<1>3. Base /\ Separate /\ Inv => ChildInNamespace
  <2> SUFFICES ASSUME Base, Separate, Inv, NEW r \in Requests, Answering(r), ok[r],
                      call[r].op \in {"exec", "run"}
               PROVE  /\ child[r] \notin {Host, NoNs}
                      /\ call[r].op = "exec" => child[r] = target[r]
                      /\ call[r].op = "run" =>
                           child[r] \notin {child[q] : q \in Requests \ {r}}
    BY DEF ChildInNamespace
  <2>1. call[r] # NoCall /\ todo[r] = << >> /\ DOMAIN todo[r] = {}
    BY DEF Answering
  <2>2. CASE call[r].op = "exec"
    BY <2>1, <2>2 DEF Childly, Execs, Ahead
  <2>3. CASE call[r].op = "run"
    <3>1. child[r] # NoNs
      BY <2>1, <2>3 DEF Childly, Launches
    <3>2. Running
      BY <2>1, <2>3, ScriptDomains DEF Base, RequestInv, Running
    <3>3. QED
      BY <2>3, <3>1, <3>2, HostAssumption DEF Separate, ChildApart
  <2>4. QED
    BY <2>2, <2>3
<1>4. Spec => [](Base /\ Separate)
  BY SpecSeparate
<1>5. QED
  BY <1>1, <1>2, <1>3, <1>4, PTL DEF Spec

-----------------------------------------------------------------------------
(* Mount points that nothing is mounted on *)

Clearing == Mounts \cup {"remove"}
Deserters == Finders \cup Leavers
Clears(r, n) ==
  /\ call[r] # NoCall /\ call[r].op = "create" /\ Name(r) = n
  /\ Leads(todo[r], Clearing, Deserters, {})
Tidy ==
  /\ \A r \in Requests : Tidies(todo[r]) /\ UnmountsLast(todo[r])
  /\ ~killed => \A n \in files : mounted[n] = NoNs => \E r \in Requests : Clears(r, n)

\* khsAlt's create leaves its file behind when the mount fails.
CleansUp(w) == w.server # "khsAlt"

LEMMA TidiesEnds ==
  /\ Tidies(<< >>) /\ UnmountsLast(<< >>)
  /\ \A op : Tidies(Leave(op)) /\ UnmountsLast(Leave(op))
  /\ \A c \in Seq(OpNames) :
       (\A k \in DOMAIN c : c[k] \notin Firsts) => Tidies(Quietly(c))
<1>1. Tidies(<< >>) /\ UnmountsLast(<< >>)
  BY DEF Tidies, UnmountsLast, AfterLeads
<1>2. ASSUME NEW op PROVE Tidies(Leave(op)) /\ UnmountsLast(Leave(op))
  BY LeaveShape DEF Tidies, UnmountsLast, AfterLeads, Mounts
<1>3. ASSUME NEW c \in Seq(OpNames), \A k \in DOMAIN c : c[k] \notin Firsts
      PROVE  Tidies(Quietly(c))
  <2>1. DOMAIN Quietly(c) = DOMAIN c /\ \A k \in DOMAIN c : Quietly(c)[k].op \notin Firsts
    BY <1>3, QuietlyType
  <2>2. {"creat", "create"} \cup Mounts \subseteq Firsts
    BY DEF Mounts, Firsts
  <2>3. QED
    BY <2>1, <2>2 DEF Tidies, AfterLeads
<1>4. QED
  BY <1>1, <1>2, <1>3

LEMMA MakesTidies ==
  ASSUME Base, NEW r \in Requests, Makes(r), Tidies(todo[r]), UnmountsLast(todo[r])
  PROVE  Tidies(todo'[r]) /\ UnmountsLast(todo'[r])
<1>1. /\ Functions /\ todo[r] \in Seq(ScriptCall) /\ todo[r] # << >> /\ Shape(todo[r])
  BY MakesRest DEF Base, Typed, RequestInv
<1>2. CASE GoesOn(r)
  <2>1. todo'[r] = Tail(todo[r])
    BY <1>1, <1>2, MakesRest
  <2>2. Tidies(Tail(todo[r]))
    BY <1>1, HeadTail, AfterLeadsTail DEF Tidies
  <2>3. UnmountsLast(Tail(todo[r]))
    <3>1. ASSUME NEW i \in DOMAIN Tail(todo[r])
          PROVE  /\ i + 1 \in DOMAIN todo[r] /\ Tail(todo[r])[i] = todo[r][i + 1]
                 /\ i + 2 \in DOMAIN todo[r] => /\ i + 1 \in DOMAIN Tail(todo[r])
                                                /\ Tail(todo[r])[i + 1] = todo[r][i + 2]
      BY <1>1, <3>1, HeadTail
    <3>2. \A i \in DOMAIN Tail(todo[r]) : i + 1 + 1 = i + 2
      BY <1>1, HeadTail
    <3>3. QED
      BY <3>1, <3>2 DEF UnmountsLast
  <2>4. QED
    BY <2>1, <2>2, <2>3
<1>3. CASE GivesUp(r)
  <2>1. PICK c \in Seq(OpNames) : c = Head(todo[r]).cleanup
    BY <1>1, CleanupType
  <2>2. todo'[r] = Quietly(c)
    BY <1>1, <1>3, <2>1, MakesRest
  <2>3. \A k \in DOMAIN c : c[k] \notin Firsts
    BY <1>1, <2>1, AvoidsCleanup DEF Shape, Plain
  <2>4. \A k \in DOMAIN c : c[k] = "unmount" => k + 1 \in DOMAIN c /\ c[k + 1] = "remove"
    BY <1>1, <2>1, HeadTail DEF UnmountsLast
  <2>5. UnmountsLast(Quietly(c))
    <3>1. DOMAIN Quietly(c) = DOMAIN c
          /\ \A k \in DOMAIN c : /\ Quietly(c)[k].op = c[k] /\ ~Quietly(c)[k].must
                                 /\ Quietly(c)[k].cleanup = << >>
      BY QuietlyType
    <3>2. QED
      BY <2>4, <3>1 DEF UnmountsLast
  <2>6. QED
    BY <2>2, <2>3, <2>5, TidiesEnds
<1>4. QED
  BY <1>1, <1>2, <1>3, MakesOutcome, MakesRest, TidiesEnds, ZenonT(30) DEF FindsIt, Functions

\* A file that is there with nothing on it was there so already, or has just been
\* made or unmounted.
LEMMA MakesTidy ==
  ASSUME Base, Tidy, NEW r \in Requests, Makes(r)
  PROVE  Tidy'
<1>1. /\ Typed /\ Functions /\ todo[r] \in Seq(ScriptCall) /\ todo[r] # << >> /\ Shape(todo[r])
      /\ Op(r) = Head(todo[r]).op /\ killed' = killed /\ call' = call /\ RequestInv(r)
      /\ Tidies(todo[r]) /\ UnmountsLast(todo[r])
  BY MakesRest, MakesFrame DEF Base, Typed, RequestInv, Tidy
<1>2. ASSUME NEW q \in Requests PROVE Tidies(todo'[q]) /\ UnmountsLast(todo'[q])
  <2>1. CASE q = r
    BY <1>1, <2>1, MakesTidies
  <2>2. CASE q # r
    BY <1>1, <2>2, MakesAlone DEF Tidy
  <2>3. QED
    BY <2>1, <2>2
<1>3. ASSUME ~killed, NEW n \in files', mounted'[n] = NoNs
      PROVE  \E q \in Requests : Clears(q, n)'
  <2>1. Op(r) \in Mounts \cup {"creat", "create", "remove", "unmount"} =>
          call[r] # NoCall /\ call[r].op = "create" /\ Name(r) \in Names
    BY CallTypes, ToucherCreates
  <2>2. Name(r)' = Name(r)
    BY <1>1 DEF Name
  <2>3. CASE n \notin files
    <3>1. Op(r) \in {"creat", "create"}
      BY <1>3, <2>3, MakesFrame, MakesOp DEF Remove
    <3>2. Name(r) = n
      BY <1>3, <2>3, <3>1, MakesOp DEF Creat, Create
    <3>3. GoesOn(r)
      BY <1>3, <2>3, <3>1, MakesOp DEF Creat, Create, Goes, GoesOn
    <3>4. Leads(todo'[r], Clearing, Deserters, {})
      BY <1>1, <3>1, <3>3, StepAfterLeadsHead DEF Tidies, Clearing, Deserters
    <3>5. QED
      BY <1>1, <2>1, <2>2, <3>1, <3>2, <3>4 DEF Clears
  <2>4. CASE n \in files /\ mounted[n] # NoNs
    <3>1. Op(r) = "unmount" /\ Name(r) = n
      <4>1. Op(r) = "unmount"
        BY <1>1, <1>3, <2>4, MountedStays DEF Typed
      <4>2. Unmount(r)
        BY <4>1, MakesOp
      <4>3. QED
        BY <1>1, <1>3, <2>4, <4>1, <4>2 DEF Unmount, Typed
    <3>2. todo'[r] = Tail(todo[r])
      <4>1. Unmount(r)
        BY <3>1, MakesOp
      <4>2. Goes(r)
        BY <2>4, <3>1, <4>1 DEF Unmount
      <4>3. QED
        BY <1>1, <4>2 DEF Goes, Functions
    <3>3. /\ 2 \in DOMAIN todo[r] /\ todo[r][2].op = "remove" /\ ~todo[r][2].must
          /\ 1 \in DOMAIN Tail(todo[r]) /\ Tail(todo[r])[1] = todo[r][2]
          /\ DOMAIN Tail(todo[r]) = 1 .. Len(todo[r]) - 1 /\ Len(todo[r]) \in Nat
      <4>1. 1 \in DOMAIN todo[r] /\ todo[r][1].op = "unmount" /\ 1 + 1 = 2
        BY <1>1, <3>1, HeadTail
      <4>2. 2 \in DOMAIN todo[r] /\ todo[r][2].op = "remove" /\ ~todo[r][2].must
        BY <1>1, <4>1 DEF UnmountsLast
      <4>3. QED
        BY <1>1, <4>2, HeadTail
    <3>4. ~CanEnd(Tail(todo[r])[1], Clearing, Deserters, {})
      BY <3>3 DEF CanEnd, Deserters, Finders, Leavers
    <3>5. Leads(todo'[r], Clearing, Deserters, {})
      <4>1. Tail(todo[r])[1].op \in Clearing
        BY <3>3 DEF Clearing
      <4>2. ASSUME NEW i \in DOMAIN Tail(todo[r]), CanEnd(Tail(todo[r])[i], Clearing, Deserters, {})
            PROVE  1 \in 1 .. i - 1
        BY <3>3, <3>4, <4>2
      <4>3. QED
        BY <3>2, <3>3, <4>1, <4>2 DEF Leads
    <3>6. QED
      BY <1>1, <2>1, <2>2, <3>1, <3>5 DEF Clears
  <2>5. CASE n \in files /\ mounted[n] = NoNs
    <3>1. PICK q \in Requests : Clears(q, n)
      BY <1>3, <2>5 DEF Tidy
    <3>2. CASE q # r
      BY <1>1, <3>1, <3>2, MakesAlone DEF Clears, Name
    <3>3. CASE q = r
      <4>1. Leads(todo[r], Clearing, Deserters, {}) /\ Name(r) = n
        BY <3>1, <3>3 DEF Clears
      <4>2. Op(r) \notin Deserters
        BY <1>1, <4>1, LeadsHead DEF CanEnd
      <4>3. ~Leaves(r) /\ Finders \subseteq Deserters /\ Clearing \cap Deserters = {}
        BY <4>2 DEF Leaves, Deserters, Leavers, Finders, Clearing, Mounts
      <4>4. Leads(todo'[r], Clearing, Deserters, {})
        <5>1. CASE Op(r) = "remove"
          BY <1>3, <2>5, <4>1, <5>1, MakesOp DEF Remove
        <5>2. CASE Op(r) \in Mounts
          <6>1. PICK t \in Threads : MountOwn(r, t) \/ MountLeader(r, t)
            BY <5>2, MakesOp DEF Mounts
          <6>2. ns[t] # NoNs /\ ns[Leader] # NoNs
            BY <1>1, LeaderAssumption, NoneAssumption DEF Typed, AnyNs
          <6>3. Fails(r)
            BY <1>1, <1>3, <2>1, <4>1, <5>2, <6>1, <6>2 DEF MountOwn, MountLeader, Mount, Typed
          <6>4. GivesUp(r)
            BY <5>2, <6>3, FailsGivesUp DEF Mounts, Checked
          <6>5. Undoes(Head(todo[r]), {"remove"}, Deserters)
            BY <1>1, <5>2, HeadTail DEF Tidies, Deserters
          <6>6. Undoes(Head(todo[r]), Clearing, Deserters)
            BY <6>5 DEF Undoes, Clearing
          <6>7. QED
            BY <1>1, <4>3, <6>4, <6>6, UndoesLeads, MakesRest, ZenonT(30)
        <5>3. CASE Op(r) \notin Clearing
          BY <1>1, <4>1, <4>3, <5>3, StepLeads
        <5>4. QED
          BY <5>1, <5>2, <5>3 DEF Clearing
      <4>5. QED
        BY <1>1, <2>2, <3>1, <3>3, <4>4 DEF Clears
    <3>4. QED
      BY <3>2, <3>3
  <2>6. QED
    BY <2>3, <2>4, <2>5
<1>4. QED
  BY <1>1, <1>2, <1>3 DEF Tidy

LEMMA OthersTidy ==
  ASSUME Base, Tidy, CleansUp(setting), [Next]_vars, ~ \E r \in Requests : Makes(r)
  PROVE  Tidy'
<1>1. /\ Functions /\ mounted' = mounted /\ files' = files /\ (~killed' => ~killed)
      /\ \A q \in Requests : RequestInv(q)
  BY MountsCases DEF Base, Typed
<1>2. ASSUME NEW q \in Requests PROVE Tidies(todo'[q]) /\ UnmountsLast(todo'[q])
  <2>1. CASE Same(q)
    BY <2>1 DEF Same, Tidy
  <2>2. ASSUME NEW c \in Calls, Starts(q, c) PROVE Tidies(todo'[q]) /\ UnmountsLast(todo'[q])
    BY <2>2, StartsScript DEF CleansUp, Starts
  <2>3. CASE Idles(q)
    BY <2>3, TidiesEnds DEF Idles
  <2>4. QED
    BY <2>1, <2>2, <2>3, RequestCases
<1>3. ASSUME ~killed', NEW q \in Requests, NEW n, Clears(q, n) PROVE Clears(q, n)'
  <2>1. todo[q] # << >>
    <3>1. Leads(todo[q], Clearing, Deserters, {}) /\ todo[q] \in Seq(ScriptCall)
      BY <1>1, <1>3 DEF Clears, Functions
    <3>2. QED
      BY <3>1, LeadsHead
  <2>2. call[q] # NoCall
    BY <1>3 DEF Clears
  <2>3. call'[q] = call[q] /\ todo'[q] = todo[q]
    <3>1. ASSUME NEW r \in Requests, Answer(r) PROVE call'[q] = call[q] /\ todo' = todo
      BY <2>1, <3>1 DEF Answer, Answering, Base, Typed
    <3>2. ASSUME NEW r \in Requests, NEW c \in Calls, Accept(r, c)
          PROVE  call'[q] = call[q] /\ todo'[q] = todo[q]
      BY <1>1, <2>2, <3>2 DEF Accept, Functions, Base, Typed
    <3>3. \A t \in Threads : Spawn(t) => call' = call /\ todo' = todo
      BY DEF Spawn, requestVars
    <3>4. QED
      BY <1>3, <3>1, <3>2, <3>3, NextCases DEF Killed, vars, requestVars
  <2>4. QED
    BY <1>3, <2>3 DEF Clears, Name
<1>4. QED
  BY <1>1, <1>2, <1>3 DEF Tidy

LEMMA TidyInductive ==
  ASSUME \A w \in Settings : CleansUp(w), Base, Tidy, [Next]_vars
  PROVE  Tidy'
<1>1. CleansUp(setting)
  BY DEF Base, Typed
<1>2. QED
  BY <1>1, MakesTidy, OthersTidy

\* Whatever fails and however creates of one name meet: when nobody is at work,
\* and unless the server was killed, each file has its namespace.
THEOREM NothingLittered == (\A w \in Settings : CleansUp(w)) => (Spec => []NoLitter)
<1> SUFFICES ASSUME \A w \in Settings : CleansUp(w) PROVE Spec => []NoLitter
  OBVIOUS
<1>1. Init => Tidy
  BY TidiesEnds DEF Init, Tidy
<1>2. Base /\ Tidy => NoLitter
  BY DEF Tidy, NoLitter, Clears
<1>3. Spec => []Base
  BY SpecBase
<1>4. QED
  BY <1>1, <1>2, <1>3, TidyInductive, PTL DEF Spec

-----------------------------------------------------------------------------
(* The answer of a create *)

\* The calls that do not fail on the way home.
Certain == IF "setns" \in setting.mayFail THEN {} ELSE {"restore"}

\* Where clients take turns on a name, no two creates of it meet.
Creating(r) == call[r] # NoCall /\ call[r].op = "create"
Distinct ==
  setting.oneAtATime =>
    \A q, r \in Requests : q # r /\ Creating(q) /\ Creating(r) => Name(q) # Name(r)

LEMMA DistinctInductive ==
  ASSUME Base, Distinct, [Next]_vars
  PROVE  Distinct'
<1>1. setting' = setting /\ Typed
  BY NextCases, MakesFrame DEF Answer, Accept, Spawn, Killed, vars, Base
<1>2. CASE \E r \in Requests : Makes(r)
  BY <1>1, <1>2, MakesFrame DEF Distinct, Creating, Name
<1>3. ASSUME NEW r \in Requests, Answer(r) PROVE Distinct'
  BY <1>1, <1>3 DEF Answer, Distinct, Creating, Name, Typed
<1>4. ASSUME NEW r \in Requests, NEW c \in Calls, Accept(r, c) PROVE Distinct'
  <2>1. call' = [call EXCEPT ![r] = c]
    BY <1>4 DEF Accept
  <2>2. setting.oneAtATime => \A q \in Requests : call[q] # NoCall => call[q].name # c.name
    BY <1>4 DEF Accept, Name
  <2>3. QED
    BY <1>1, <2>1, <2>2 DEF Distinct, Creating, Name, Typed
<1>5. CASE \E t \in Threads : Spawn(t)
  BY <1>1, <1>5 DEF Spawn, requestVars, Distinct, Creating, Name
<1>6. CASE Killed
  BY <1>6 DEF Killed, Boot, Distinct, Creating
<1>7. CASE UNCHANGED vars
  BY <1>1, <1>7 DEF vars, requestVars, Distinct, Creating, Name
<1>8. QED
  BY <1>2, <1>3, <1>4, <1>5, <1>6, <1>7, NextCases

\* lnaura unmounts a name before it creates it, and yeomin4242 one it has just
\* created when its thread cannot go home.
Truthful(w) ==
  /\ w.server = "lnaura" => w.oneAtATime
  /\ w.server = "yeomin4242" => "setns" \notin w.mayFail

Keeps(r) == setting.server # "lnaura" => Preceded(todo[r], {"unmount"}, {}, Certain)
Truth(r) ==
  ok[r] /\ Creating(r) =>
    /\ NoCallOf(todo[r], Leavers)
    /\ After(todo[r], Mounts, {"unmount"}, {}, OpNames)
    /\ Ahead(todo[r], Mounts) \/ (mounted[Name(r)] # NoNs /\ NoCallOf(todo[r], {"unmount"}))
Created == Distinct /\ \A r \in Requests : Keeps(r) /\ Truth(r)

LEMMA MayFailCertain ==
  ASSUME NEW r \in Requests
  PROVE  MayFail(r) => Op(r) \notin Certain
BY DEF MayFail, Certain, CanFail

LEMMA MakesTruth ==
  ASSUME Base, Created, NEW r \in Requests, Makes(r)
  PROVE  Truth(r)'
<1> SUFFICES ASSUME ok'[r], Creating(r)'
             PROVE  /\ NoCallOf(todo'[r], Leavers)
                    /\ After(todo'[r], Mounts, {"unmount"}, {}, OpNames)
                    /\ \/ Ahead(todo'[r], Mounts)
                       \/ mounted'[Name(r)] # NoNs /\ NoCallOf(todo'[r], {"unmount"})
  <2>1. Name(r)' = Name(r)
    BY MakesFrame DEF Name
  <2>2. QED
    BY <2>1 DEF Truth
<1>1. /\ Typed /\ Functions /\ todo[r] \in Seq(ScriptCall) /\ todo[r] # << >>
      /\ Op(r) = Head(todo[r]).op /\ Creating(r) /\ call[r] \in Calls
  BY MakesRest, MakesFrame DEF Base, Typed, Creating
<1>2. Head(todo[r]).op \in OpNames /\ Name(r) \in Names
  BY <1>1, HeadTail, CallTypes DEF ScriptCall, Creating, Name
<1>3. ~GivesUp(r) /\ ok[r]
  BY <1>1, MakesRest, MakesOutcome
<1>4. /\ NoCallOf(todo[r], Leavers)
      /\ After(todo[r], Mounts, {"unmount"}, {}, OpNames)
      /\ Ahead(todo[r], Mounts) \/ (mounted[Name(r)] # NoNs /\ NoCallOf(todo[r], {"unmount"}))
  BY <1>1, <1>3 DEF Created, Truth
<1>5. CASE FindsIt(r)
  <2>1. todo'[r] = << >> /\ mounted' = mounted /\ mounted[Name(r)] # NoNs
    BY <1>1, <1>5, MakesRest, MakesFrame DEF FindsIt
  <2>2. QED
    BY <2>1 DEF NoCallOf, After
<1>6. CASE GoesOn(r)
  <2>1. todo'[r] = Tail(todo[r])
    BY <1>1, <1>6, MakesRest
  <2>2. NoCallOf(todo'[r], Leavers) /\ After(todo'[r], Mounts, {"unmount"}, {}, OpNames)
    BY <1>1, <1>4, <2>1, NoCallTail, AfterTail
  <2>3. CASE Op(r) \in Mounts
    <3>1. PICK t \in Threads : MountOwn(r, t) \/ MountLeader(r, t)
      BY <2>3, MakesOp DEF Mounts
    <3>2. ns[t] # NoNs /\ ns[Leader] # NoNs
      BY <1>1, LeaderAssumption, NoneAssumption DEF Typed, AnyNs
    <3>3. ~Fails(r)
      BY <1>3, <2>3, FailsGivesUp DEF Mounts, Checked
    <3>4. mounted'[Name(r)] # NoNs
      BY <1>1, <1>2, <3>1, <3>2, <3>3 DEF MountOwn, MountLeader, Mount, Typed
    <3>5. Preceded(todo'[r], {"unmount"}, {}, OpNames)
      BY <1>1, <1>4, <2>1, <2>3, AfterHead
    <3>6. NoCallOf(todo'[r], {"unmount"})
      BY <3>5 DEF NoCallOf, Preceded, Reaches
    <3>7. QED
      BY <2>2, <3>4, <3>6
  <2>4. CASE Op(r) \notin Mounts
    <3>1. CASE Ahead(todo[r], Mounts)
      BY <1>1, <2>1, <2>2, <2>4, <3>1, AheadTail
    <3>2. CASE mounted[Name(r)] # NoNs /\ NoCallOf(todo[r], {"unmount"})
      <4>1. Op(r) # "unmount" /\ NoCallOf(todo'[r], {"unmount"})
        BY <1>1, <2>1, <3>2, NoCallTail
      <4>2. QED
        BY <1>2, <2>2, <3>2, <4>1, MountedStays
    <3>3. QED
      BY <1>4, <3>1, <3>2
  <2>5. QED
    BY <2>3, <2>4
<1>7. ~Leaves(r)
  BY <1>1, <1>4, NoCallTail DEF Leaves, Leavers
<1>8. QED
  BY <1>3, <1>5, <1>6, <1>7, MakesOutcome

LEMMA MakesCreated ==
  ASSUME Base, Created, Truthful(setting), NEW r \in Requests, Makes(r), Distinct'
  PROVE  Created'
<1>1. /\ Typed /\ Functions /\ todo[r] \in Seq(ScriptCall) /\ todo[r] # << >>
      /\ Op(r) = Head(todo[r]).op /\ setting' = setting /\ call' = call
      /\ Certain' = Certain /\ Distinct
  BY MakesRest, MakesFrame DEF Base, Typed, Created, Certain
<1>2. ASSUME NEW q \in Requests PROVE Keeps(q)'
  <2>1. CASE q = r
    <3>1. Keeps(r)
      BY DEF Created
    <3>2. MayFail(r) => Op(r) \notin Certain
      BY MayFailCertain
    <3>3. QED
      BY <1>1, <2>1, <3>1, <3>2, StepPreceded DEF Keeps
  <2>2. CASE q # r
    BY <1>1, <2>2, MakesAlone DEF Created, Keeps
  <2>3. QED
    BY <2>1, <2>2
<1>3. ASSUME NEW q \in Requests, q # r PROVE Truth(q)'
  <2>1. todo'[q] = todo[q] /\ ok'[q] = ok[q] /\ Name(q)' = Name(q) /\ Creating(q)' = Creating(q)
    BY <1>1, <1>3, MakesAlone DEF Name, Creating
  <2>2. ASSUME Creating(q), mounted[Name(q)] # NoNs PROVE mounted'[Name(q)] # NoNs
    <3>1. Name(q) \in Names
      <4>1. call[q] \in Calls /\ call[q].op = "create"
        BY <1>1, <2>2 DEF Creating, Typed
      <4>2. QED
        BY <4>1, CallTypes DEF Name
    <3>2. CASE Op(r) # "unmount"
      BY <2>2, <3>1, <3>2, MountedStays
    <3>3. CASE Op(r) = "unmount"
      <4>1. setting.server = "lnaura"
        <5>1. Keeps(r)
          BY DEF Created
        <5>2. QED
          BY <1>1, <3>3, <5>1, PrecededHead DEF Keeps
      <4>2. Creating(r) /\ Name(r) \in Names
        BY <3>3, ToucherCreates, CallTypes DEF Creating
      <4>3. Name(q) # Name(r)
        BY <1>1, <1>3, <2>2, <4>1, <4>2 DEF Truthful, Distinct
      <4>4. mounted' = [mounted EXCEPT ![Name(r)] = NoNs]
        BY <3>3, MakesOp DEF Unmount
      <4>5. QED
        BY <1>1, <2>2, <3>1, <4>3, <4>4 DEF Typed
    <3>4. QED
      BY <3>2, <3>3
  <2>3. Truth(q)
    BY DEF Created
  <2>4. QED
    BY <2>1, <2>2, <2>3 DEF Truth
<1>4. QED
  BY <1>2, <1>3, MakesTruth DEF Created

LEMMA OthersCreated ==
  ASSUME Base, Created, Truthful(setting), [Next]_vars, ~ \E r \in Requests : Makes(r),
         Distinct'
  PROVE  Created'
<1>1. /\ setting' = setting /\ Certain' = Certain /\ mounted' = mounted
  <2>1. setting' = setting
    BY NextCases DEF Answer, Accept, Spawn, Killed, vars
  <2>2. QED
    BY <2>1, MountsCases DEF Certain
<1>2. ASSUME NEW q \in Requests PROVE Keeps(q)' /\ Truth(q)'
  <2>1. CASE Same(q)
    BY <1>1, <2>1 DEF Same, Created, Keeps, Truth, Creating, Name
  <2>2. ASSUME NEW c \in Calls, Starts(q, c) PROVE Keeps(q)' /\ Truth(q)'
    <3> DEFINE s == todo'[q]
    <3>1. /\ c.op \in DOMAIN Script /\ setting.server \in DOMAIN Script[c.op]
          /\ s = Script[c.op][setting.server] /\ call'[q] = c
          /\ Begins(s) /\ (c.op = "create" => Creates(s))
      BY <2>2, CallTypes, StartsScript DEF Starts
    <3> HIDE DEF s
    <3>2. setting.server # "lnaura" => Preceded(s, {"unmount"}, {}, Certain)
      <4>1. setting.server # "lnaura" =>
              Preceded(s, {"unmount"}, {}, IF setting.server = "yeomin4242" THEN {"restore"} ELSE {})
        BY <3>1, UnmountScripts
      <4>2. (IF setting.server = "yeomin4242" THEN {"restore"} ELSE {}) \subseteq Certain
        BY DEF Truthful, Certain
      <4>3. QED
        BY <4>1, <4>2, PrecededWeaker
    <3>3. NoCallOf(s, Leavers)
      BY <3>1 DEF Begins, NoCallOf
    <3>4. c.op = "create" => After(s, Mounts, {"unmount"}, {}, OpNames) /\ Ahead(s, Mounts)
      BY <3>1 DEF Creates, Ahead
    <3>5. QED
      BY <1>1, <3>1, <3>2, <3>3, <3>4 DEF Keeps, Truth, Creating, s
  <2>3. CASE Idles(q)
    BY <2>3, EmptyShape DEF Idles, Keeps, Truth, Creating
  <2>4. QED
    BY <2>1, <2>2, <2>3, RequestCases
<1>3. QED
  BY <1>2 DEF Created

LEMMA CreatedInductive ==
  ASSUME \A w \in Settings : Truthful(w), Base, Created, [Next]_vars
  PROVE  Created'
<1>1. Truthful(setting)
  BY DEF Base, Typed
<1>2. Distinct'
  BY DistinctInductive DEF Created
<1>3. QED
  BY <1>1, <1>2, MakesCreated, OthersCreated

\* A create answered with a path has a namespace mounted there, whatever other
\* requests did meanwhile (02-week/README.md 2.9).
THEOREM CreatesTruthful == (\A w \in Settings : Truthful(w)) => (Spec => []CreateTruthful)
<1> SUFFICES ASSUME \A w \in Settings : Truthful(w) PROVE Spec => []CreateTruthful
  OBVIOUS
<1>1. Init => Created
  <2> SUFFICES ASSUME Init PROVE Created
    OBVIOUS
  <2>1. \A r \in Requests : call[r] = NoCall /\ todo[r] = << >>
    BY DEF Init
  <2>2. QED
    BY <2>1, EmptyShape DEF Created, Distinct, Creating, Keeps, Truth
<1>2. Base /\ Created => CreateTruthful
  <2> SUFFICES ASSUME Created, NEW r \in Requests, Answering(r), call[r].op = "create", ok[r]
               PROVE  mounted[Name(r)] # NoNs
    BY DEF CreateTruthful
  <2>1. Truth(r) /\ Creating(r) /\ DOMAIN todo[r] = {}
    BY DEF Created, Answering, Creating
  <2>2. QED
    BY <2>1 DEF Truth, Ahead
<1>3. Spec => []Base
  BY SpecBase
<1>4. QED
  BY <1>1, <1>2, <1>3, CreatedInductive, PTL DEF Spec

-----------------------------------------------------------------------------
(* What a name stands for *)

ByFile == setting.server \notin {"lnaura", "Joseng8908", "khsAlt"}
Manager == setting.server = "Joseng8908"

\* The call that makes a name its request's, and those made on a name of one's own.
Claims == IF ByFile THEN {"creat"} ELSE IF Manager THEN {"absent"} ELSE {"reuse"}
Touches == IF ByFile THEN Mounts \cup {"remove", "unmount"} ELSE Mounts \cup {"unmount"}
Claimed(r) == ~Preceded(todo[r], Touches, Claims, Certain)

\* A request of Joseng8908's manager is in its critical section, and has mounted
\* what it has still to record.
Holds(r) == ~Preceded(todo[r], Managed, {"acquire"}, {})
Recording(r, n) == mu = r /\ Name(r) = n /\ Leads(todo[r], {"record"}, Finders, {"restore"})

\* What is left of a script keeps to the order it claims and touches names in.
Orderly(r) ==
  /\ After(todo[r], Mounts, Touches, {}, Certain)
  /\ ByFile => Once(todo[r], {"remove"}, Touches)
  /\ Manager => /\ AfterLeads(todo[r], Mounts, {"record"}, Finders, {"restore"})
                /\ Once(todo[r], {"release"}, Managed)
Owned(r) ==
  Claimed(r) =>
    /\ Name(r) \in Names /\ mounted[Name(r)] = NoNs
    /\ \A q \in Requests \ {r} : Claimed(q) => Name(q) # Name(r)
    /\ ByFile => Name(r) \in files
    /\ Manager => mu = r
NamesOwned ==
  /\ Distinct
  /\ ByFile => \A n \in Names : mounted[n] # NoNs => n \in files
  /\ Manager => /\ \A r \in Requests : Holds(r) => mu = r
                /\ \A n \in Names : mounted[n] # NoNs =>
                     n \in store \/ \E r \in Requests : Recording(r, n)
  /\ \A r \in Requests : Orderly(r) /\ Owned(r)

\* khsAlt mounts over what is there; lnaura unmounts first, yeomin4242 when its
\* thread cannot go home; and Joseng8908 forgets what it mounted when the process
\* is killed, or when its thread cannot go home.
KeepsNames(w) ==
  /\ w.server # "khsAlt"
  /\ w.server = "lnaura" => w.oneAtATime
  /\ w.server \in {"yeomin4242", "Joseng8908"} => "setns" \notin w.mayFail
  /\ w.server = "Joseng8908" => "kill" \notin w.mayFail

LEMMA TouchesFacts ==
  /\ Mounts \subseteq Touches /\ "unmount" \in Touches /\ (ByFile => "remove" \in Touches)
  /\ Touches \subseteq Mounts \cup {"remove", "unmount"}
  /\ Touches \cap {"unlock", "exit", "hang"} = {} /\ Managed \cap {"unlock", "exit", "hang"} = {}
  /\ Manager => ~ByFile /\ Claims = {"absent"} /\ Touches \subseteq Managed
  /\ ByFile => Claims = {"creat"}
  /\ ~ByFile /\ ~Manager => Claims = {"reuse"}
BY DEF Touches, Mounts, Managed, ByFile, Manager, Claims

LEMMA SettingNames ==
  ASSUME setting' = setting
  PROVE  /\ ByFile' = ByFile /\ Manager' = Manager /\ Claims' = Claims /\ Touches' = Touches
         /\ Certain' = Certain
BY DEF ByFile, Manager, Claims, Touches, Certain

\* Only creates claim names.
LEMMA ClaimedCreates ==
  ASSUME Base, NEW r \in Requests, Claimed(r)
  PROVE  Creating(r) /\ Name(r) \in Names
<1>1. RequestInv(r) /\ Typed
  BY DEF Base
<1>2. call[r] # NoCall
  BY <1>1, EmptyShape DEF RequestInv, Claimed
<1>3. call[r].op = "create"
  <2>1. ASSUME Harmless(todo[r]) PROVE FALSE
    <3>1. Preceded(todo[r], Touches, Claims, Certain)
      BY <2>1, TouchesFacts, PrecededWeaker DEF Harmless, Never
    <3>2. QED
      BY <3>1 DEF Claimed
  <2>2. QED
    BY <1>1, <1>2, <2>1 DEF RequestInv
<1>4. QED
  BY <1>1, <1>2, <1>3, CallTypes DEF Typed, Creating, Name

LEMMA ClaimedTouches ==
  ASSUME Base, NEW r \in Requests, Makes(r), Op(r) \in Touches
  PROVE  Claimed(r)
BY PrecededHead, MakesRest DEF Base, Typed, Claimed

\* A request that has a claim after its call had it before, or has just made it.
LEMMA ClaimedNext ==
  ASSUME Base, NEW r \in Requests, Makes(r), Orderly(r), Claimed(r)'
  PROVE  /\ (Op(r) \in Claims /\ GoesOn(r) /\ ~GivesUp(r)) \/ Claimed(r)
         /\ ~(Op(r) \in Mounts /\ GoesOn(r))
<1>1. /\ Functions /\ Touches' = Touches /\ Claims' = Claims /\ Certain' = Certain
      /\ MayFail(r) => Op(r) \notin Certain
  BY MakesFrame, SettingNames, MayFailCertain DEF Base, Typed
<1>2. ~Preceded(todo'[r], Touches, Claims, Certain)
  BY <1>1 DEF Claimed
<1>3. ASSUME Op(r) \in Claims => ~GoesOn(r) \/ GivesUp(r)
      PROVE  Claimed(r)
  <2>1. Op(r) \in Claims => GivesUp(r) \/ FindsIt(r) \/ Leaves(r)
    BY <1>3, MakesOutcome
  <2>2. QED
    BY <1>1, <1>2, <2>1, TouchesFacts, StepPreceded DEF Claimed
<1>4. ASSUME Op(r) \in Mounts, GoesOn(r) PROVE FALSE
  <2>1. Preceded(todo'[r], Touches, {}, Certain)
    BY <1>1, <1>4, StepAfterHead DEF Orderly
  <2>2. QED
    BY <1>2, <2>1, PrecededWeaker
<1>5. QED
  BY <1>3, <1>4

\* Names are mounted by those they belong to, and are not unmounted.
LEMMA OwnedMoves ==
  ASSUME Base, NamesOwned, NEW r \in Requests, Makes(r)
  PROVE  \/ mounted' = mounted
         \/ /\ Op(r) \in Mounts /\ GoesOn(r) /\ Claimed(r) /\ Name(r) \in files
            /\ \E x \in AnyNs : mounted' = [mounted EXCEPT ![Name(r)] = x]
<1>1. Typed /\ Owned(r)
  BY DEF Base, NamesOwned
<1>2. CASE Op(r) = "unmount"
  <2>1. Claimed(r)
    BY <1>2, TouchesFacts, ClaimedTouches
  <2>2. mounted[Name(r)] = NoNs
    BY <1>1, <2>1 DEF Owned
  <2>3. mounted' = [mounted EXCEPT ![Name(r)] = NoNs]
    BY <1>2, MakesOp DEF Unmount
  <2>4. QED
    BY <1>1, <2>2, <2>3 DEF Typed
<1>3. CASE Op(r) \in Mounts
  <2>1. Claimed(r)
    BY <1>3, TouchesFacts, ClaimedTouches
  <2>2. PICK t \in Threads : MountOwn(r, t) \/ MountLeader(r, t)
    BY <1>3, MakesOp DEF Mounts
  <2>3. ns[t] \in AnyNs /\ ns[Leader] \in AnyNs
    BY <1>1, LeaderAssumption DEF Typed
  <2>4. QED
    BY <1>3, <2>1, <2>2, <2>3 DEF MountOwn, MountLeader, Mount, Goes, GoesOn
<1>4. QED
  BY <1>2, <1>3, MakesFrame DEF Mounts

LEMMA StepOnce ==
  ASSUME NEW r \in Requests, Functions, Makes(r), NEW C, NEW A, Once(todo[r], C, A),
         A \cap {"unlock", "exit", "hang"} = {}
  PROVE  Once(todo'[r], C, A)
<1>1. CASE Leaves(r)
  <2>1. todo'[r] = Leave(Op(r))
    BY <1>1, MakesRest
  <2>2. After(Leave(Op(r)), C, A, {}, {})
    BY LeaveAfter
  <2>3. \A i \in DOMAIN Leave(Op(r)) : Leave(Op(r))[i].cleanup = << >>
    BY LeaveShape
  <2>4. QED
    BY <2>1, <2>2, <2>3 DEF Once
<1>2. CASE ~Leaves(r)
  BY <1>2, MakesRest, OnceOnward
<1>3. QED
  BY <1>1, <1>2

LEMMA MakesOrderly ==
  ASSUME Base, NEW r \in Requests, Makes(r), Orderly(r)
  PROVE  Orderly(r)'
<1>1. /\ Functions /\ Touches' = Touches /\ Certain' = Certain /\ ByFile' = ByFile
      /\ Manager' = Manager /\ CleanupsAvoid(todo[r], Mounts)
      /\ Mounts \cap {"unlock", "exit", "hang"} = {}
  <2>1. CleanupsAvoid(todo[r], Firsts)
    BY DEF Base, RequestInv, Shape, Plain
  <2>2. QED
    BY <2>1, MakesFrame, SettingNames, AvoidWeaker DEF Base, Typed, Firsts, Mounts
<1>2. After(todo'[r], Mounts, Touches, {}, Certain)
  BY <1>1, TouchesFacts, StepAfter DEF Orderly
<1>3. ByFile => Once(todo'[r], {"remove"}, Touches)
  BY <1>1, TouchesFacts, StepOnce DEF Orderly
<1>4. Manager => /\ AfterLeads(todo'[r], Mounts, {"record"}, Finders, {"restore"})
                 /\ Once(todo'[r], {"release"}, Managed)
  BY <1>1, TouchesFacts, StepAfterLeads, StepOnce DEF Orderly
<1>5. QED
  BY <1>1, <1>2, <1>3, <1>4 DEF Orderly

\* A call after which none of A is made gives up what A was reserved for.
LEMMA OnceDone ==
  ASSUME NEW r \in Requests, Functions, Makes(r), NEW C, NEW A, Once(todo[r], C, A),
         Op(r) \in C, GoesOn(r)
  PROVE  Preceded(todo'[r], A, {}, {})
BY StepAfterHead DEF Once

\* The mutex of the manager is its holder's.
LEMMA MakesHolds ==
  ASSUME Base, NamesOwned, Manager, NEW r \in Requests, Makes(r), NEW q \in Requests
  PROVE  /\ Holds(q)' => mu' = q
         /\ mu = q /\ mu' # q => q = r /\ Op(r) = "release" /\ ~Holds(r)'
<1>1. /\ Functions /\ Orderly(r) /\ (Holds(r) => mu = r) /\ (Holds(q) => mu = q)
      /\ todo[r] \in Seq(ScriptCall) /\ todo[r] # << >> /\ Op(r) = Head(todo[r]).op
  BY MakesRest DEF Base, Typed, NamesOwned
<1>2. Op(r) = "acquire" => mu = Nobody /\ mu' = r
  BY MakesOp DEF Acquire
<1>3. Op(r) = "release" => mu = r /\ mu' = Nobody /\ ~Holds(r)'
  <2> SUFFICES ASSUME Op(r) = "release" PROVE mu = r /\ mu' = Nobody /\ ~Holds(r)'
    OBVIOUS
  <2>1. Release(r)
    BY MakesOp
  <2>2. GoesOn(r) /\ mu' = Nobody
    BY <2>1 DEF Release, Goes, GoesOn
  <2>3. Holds(r)
    BY <1>1, PrecededHead DEF Holds, Managed
  <2>4. Preceded(todo'[r], Managed, {}, {})
    BY <1>1, <2>2, OnceDone DEF Orderly
  <2>5. ~Holds(r)'
    BY <2>4, PrecededWeaker DEF Holds
  <2>6. QED
    BY <1>1, <2>2, <2>3, <2>5
<1>4. Op(r) \notin {"acquire", "release"} => mu' = mu
  BY MakesFrame
<1>5. Nobody # q /\ Nobody # r
  BY NoneAssumption
<1>6. CASE q = r
  <2>1. Holds(r)' => Op(r) = "acquire" \/ Holds(r)
    BY <1>1, TouchesFacts, StepPreceded DEF Holds
  <2>2. QED
    BY <1>1, <1>2, <1>3, <1>4, <1>5, <1>6, <2>1
<1>7. CASE q # r
  <2>1. Holds(q)' <=> Holds(q)
    BY <1>1, <1>7, MakesAlone DEF Holds
  <2>2. QED
    BY <1>1, <1>2, <1>3, <1>4, <1>5, <1>7, <2>1
<1>8. QED
  BY <1>6, <1>7

LEMMA ClaimingCreates ==
  ASSUME Base, NEW r \in Requests, Makes(r), Op(r) \in Claims
  PROVE  Name(r) \in Names /\ Creating(r)
<1>1. /\ Typed /\ RequestInv(r) /\ todo[r] \in Seq(ScriptCall) /\ todo[r] # << >>
      /\ Op(r) = Head(todo[r]).op
  BY MakesRest DEF Base, Typed
<1>2. Op(r) \in {"creat", "reuse", "absent"}
  BY DEF Claims
<1>3. call[r] # NoCall
  BY <1>1 DEF RequestInv
<1>4. ~Harmless(todo[r])
  BY <1>1, <1>2, PrecededHead DEF Harmless, Never, Finders
<1>5. QED
  BY <1>1, <1>3, <1>4, CallTypes DEF RequestInv, Typed, Creating, Name

\* A claim is made on a name nobody claims and nothing is mounted on.
LEMMA MakesClaim ==
  ASSUME Base, NamesOwned, KeepsNames(setting), NEW r \in Requests, Makes(r),
         Claimed(r)', Op(r) \in Claims, GoesOn(r), ~GivesUp(r)
  PROVE  /\ mounted[Name(r)] = NoNs
         /\ \A q \in Requests \ {r} : Claimed(q) => Name(q) # Name(r)
         /\ ByFile => Name(r) \in files'
         /\ Manager => mu' = r
<1>1. /\ Typed /\ Functions /\ todo[r] \in Seq(ScriptCall) /\ todo[r] # << >>
      /\ Op(r) = Head(todo[r]).op /\ RequestInv(r) /\ Orderly(r)
      /\ \A q \in Requests : Owned(q)
  BY MakesRest DEF Base, Typed, NamesOwned
<1>2. Name(r) \in Names /\ Creating(r)
  BY ClaimingCreates
<1>3. CASE ByFile
  <2>1. Creat(r) /\ Op(r) = "creat"
    BY <1>3, TouchesFacts, MakesOp
  <2>2. ~Fails(r)
    BY <2>1, FailsGivesUp DEF Checked
  <2>3. Name(r) \notin files /\ Name(r) \in files'
    BY <2>1, <2>2 DEF Creat
  <2>4. QED
    BY <1>1, <1>2, <1>3, <2>3, TouchesFacts DEF NamesOwned, Owned
<1>4. CASE Manager
  <2>1. Absent(r) /\ Op(r) = "absent"
    BY <1>4, TouchesFacts, MakesOp
  <2>2. ~Fails(r)
    BY <2>1, FailsGivesUp DEF Checked
  <2>3. Name(r) \notin store
    BY <2>1, <2>2 DEF Absent
  <2>4. mu = r /\ mu' = r
    <3>1. Holds(r)
      BY <1>1, <2>1, PrecededHead DEF Holds, Managed
    <3>2. QED
      BY <1>4, <2>1, <3>1, MakesFrame DEF NamesOwned
  <2>5. mounted[Name(r)] = NoNs
    <3>1. ASSUME NEW q \in Requests, Recording(q, Name(r)) PROVE FALSE
      <4>1. Leads(todo[r], {"record"}, Finders, {"restore"})
        BY <2>4, <3>1 DEF Recording
      <4>2. ~CanEnd(Head(todo[r]), {"record"}, Finders, {"restore"})
        BY <1>1, <4>1, LeadsHead
      <4>3. Head(todo[r]).must
        BY <1>1, <2>1, HeadTail DEF RequestInv, Shape, Plain, Musts, Checked
      <4>4. ~Undoes(Head(todo[r]), {"record"}, Finders)
        BY <1>1, AvoidsCleanup, ZenonT(30) DEF RequestInv, Shape, Plain, Undoes, Firsts
      <4>5. QED
        BY <1>1, <2>1, <4>2, <4>3, <4>4 DEF CanEnd
    <3>2. QED
      BY <1>2, <1>4, <2>3, <3>1 DEF NamesOwned
  <2>6. QED
    BY <1>1, <1>4, <2>4, <2>5, TouchesFacts DEF Owned
<1>5. CASE ~ByFile /\ ~Manager
  <2>1. Reuse(r) /\ setting.oneAtATime
    BY <1>5, TouchesFacts, MakesOp DEF ByFile, Manager, KeepsNames
  <2>2. mounted[Name(r)] = NoNs
    <3>1. ASSUME mounted[Name(r)] # NoNs PROVE FALSE
      <4>1. todo'[r] = << >>
        BY <1>1, <2>1, <3>1 DEF Reuse, Returns, Functions
      <4>2. QED
        BY <4>1, EmptyShape DEF Claimed
    <3>2. QED
      BY <3>1
  <2>3. ASSUME NEW q \in Requests \ {r}, Claimed(q) PROVE Name(q) # Name(r)
    <3>1. Creating(q)
      BY <2>3, ClaimedCreates
    <3>2. QED
      BY <1>2, <2>1, <3>1 DEF NamesOwned, Distinct
  <2>4. QED
    BY <1>5, <2>2, <2>3
<1>6. QED
  BY <1>3, <1>4, <1>5

LEMMA MakesOwned ==
  ASSUME Base, NamesOwned, KeepsNames(setting), NEW r \in Requests, Makes(r)
  PROVE  Owned(r)'
<1> SUFFICES ASSUME Claimed(r)'
             PROVE  /\ Name(r) \in Names /\ mounted'[Name(r)] = NoNs
                    /\ \A q \in Requests \ {r} : Claimed(q)' => Name(q) # Name(r)
                    /\ ByFile => Name(r) \in files'
                    /\ Manager => mu' = r
  <2>1. /\ ByFile' = ByFile /\ Manager' = Manager
        /\ \A q \in Requests : Name(q)' = Name(q)
    BY MakesFrame, SettingNames DEF Name
  <2>2. QED
    BY <2>1 DEF Owned
<1>1. /\ Typed /\ Functions /\ todo[r] \in Seq(ScriptCall) /\ todo[r] # << >>
      /\ Op(r) = Head(todo[r]).op /\ Orderly(r) /\ Owned(r)
      /\ Touches' = Touches /\ Claims' = Claims /\ Certain' = Certain
  BY MakesRest, MakesFrame, SettingNames DEF Base, Typed, NamesOwned
<1>2. \A q \in Requests \ {r} : Claimed(q)' <=> Claimed(q)
  BY <1>1, MakesAlone DEF Claimed
<1>3. ~(Op(r) \in Mounts /\ GoesOn(r))
  BY <1>1, ClaimedNext
<1>4. mounted' = mounted
  BY <1>3, OwnedMoves
<1>5. CASE Op(r) \in Claims /\ GoesOn(r) /\ ~GivesUp(r)
  <2>1. Name(r) \in Names
    BY <1>1, <1>5, ClaimingCreates
  <2>2. QED
    BY <1>2, <1>4, <1>5, <2>1, MakesClaim
<1>6. CASE Claimed(r)
  <2>1. /\ Name(r) \in Names /\ mounted[Name(r)] = NoNs
        /\ \A q \in Requests \ {r} : Claimed(q) => Name(q) # Name(r)
        /\ ByFile => Name(r) \in files
        /\ Manager => mu = r
    BY <1>1, <1>6 DEF Owned
  <2>2. ByFile => Name(r) \in files'
    <3> SUFFICES ASSUME ByFile, Op(r) = "remove" PROVE FALSE
      <4>1. Op(r) # "remove" => files \subseteq files'
        BY MakesOp, MakesFrame DEF Creat, Create
      <4>2. QED
        BY <2>1, <4>1
    <3>1. Remove(r)
      BY MakesOp
    <3>2. GoesOn(r)
      BY <2>1, <3>1 DEF Remove, Goes, GoesOn
    <3>3. Preceded(todo'[r], Touches, {}, {})
      BY <1>1, <3>2, OnceDone DEF Orderly
    <3>4. Preceded(todo'[r], Touches, Claims, Certain)
      BY <3>3, PrecededWeaker
    <3>5. QED
      BY <1>1, <3>4 DEF Claimed
  <2>3. Manager => mu' = r
    <3> SUFFICES ASSUME Manager, mu' # r PROVE FALSE
      OBVIOUS
    <3>1. ~Holds(r)'
      BY <2>1, MakesHolds
    <3>2. Op(r) = "release"
      BY <2>1, MakesHolds
    <3>3. GoesOn(r)
      BY <3>2, MakesOp DEF Release, Goes, GoesOn
    <3>4. Preceded(todo'[r], Managed, {}, {})
      BY <1>1, <3>2, <3>3, OnceDone DEF Orderly
    <3>5. Preceded(todo'[r], Touches, Claims, Certain)
      BY <3>4, TouchesFacts, PrecededWeaker
    <3>6. QED
      BY <1>1, <3>5 DEF Claimed
  <2>4. QED
    BY <1>2, <1>4, <2>1, <2>2, <2>3
<1>7. QED
  BY <1>1, <1>5, <1>6, ClaimedNext

LEMMA OthersOwned ==
  ASSUME Base, NamesOwned, KeepsNames(setting), NEW r \in Requests, Makes(r),
         NEW q \in Requests, q # r
  PROVE  Owned(q)'
<1> SUFFICES ASSUME Claimed(q)'
             PROVE  /\ Name(q) \in Names /\ mounted'[Name(q)] = NoNs
                    /\ \A p \in Requests \ {q} : Claimed(p)' => Name(p) # Name(q)
                    /\ ByFile => Name(q) \in files'
                    /\ Manager => mu' = q
  <2>1. /\ ByFile' = ByFile /\ Manager' = Manager
        /\ \A p \in Requests : Name(p)' = Name(p)
    BY MakesFrame, SettingNames DEF Name
  <2>2. QED
    BY <2>1 DEF Owned
<1>1. /\ Typed /\ Functions /\ Owned(q) /\ Owned(r)'
      /\ Touches' = Touches /\ Claims' = Claims /\ Certain' = Certain
      /\ \A p \in Requests : Name(p)' = Name(p)
  BY MakesFrame, SettingNames, MakesOwned DEF Base, Typed, NamesOwned, Name
<1>2. \A p \in Requests \ {r} : Claimed(p)' <=> Claimed(p)
  BY <1>1, MakesAlone DEF Claimed
<1>3. /\ Claimed(q) /\ Name(q) \in Names /\ mounted[Name(q)] = NoNs
      /\ \A p \in Requests \ {q} : Claimed(p) => Name(p) # Name(q)
      /\ ByFile => Name(q) \in files
      /\ Manager => mu = q
  BY <1>1, <1>2 DEF Owned
<1>4. Op(r) \in Touches => Name(r) # Name(q)
  BY <1>3, ClaimedTouches
<1>5. mounted'[Name(q)] = NoNs
  BY <1>1, <1>3, <1>4, OwnedMoves, TouchesFacts DEF Typed
<1>6. \A p \in Requests \ {q} : Claimed(p)' => Name(p) # Name(q)
  BY <1>1, <1>2, <1>3 DEF Owned
<1>7. ByFile => Name(q) \in files'
  <2>1. CASE Op(r) = "remove"
    BY <1>3, <1>4, <2>1, MakesOp, TouchesFacts DEF Remove
  <2>2. CASE Op(r) # "remove"
    BY <1>3, <2>2, MakesOp, MakesFrame DEF Creat, Create
  <2>3. QED
    BY <2>1, <2>2
<1>8. Manager => mu' = q
  BY <1>3, MakesHolds
<1>9. QED
  BY <1>3, <1>5, <1>6, <1>7, <1>8

LEMMA MakesFiled ==
  ASSUME Base, NamesOwned, ByFile, NEW r \in Requests, Makes(r),
         NEW n \in Names, mounted'[n] # NoNs
  PROVE  n \in files'
<1>1. Typed /\ (mounted[n] # NoNs => n \in files)
  BY DEF Base, NamesOwned
<1>2. CASE mounted' = mounted
  <2>1. CASE Op(r) = "remove"
    BY <1>1, <1>2, <2>1, MakesOp DEF Remove
  <2>2. CASE Op(r) # "remove"
    BY <1>1, <1>2, <2>2, MakesOp, MakesFrame DEF Creat, Create
  <2>3. QED
    BY <2>1, <2>2
<1>3. CASE /\ Op(r) \in Mounts /\ Name(r) \in files
           /\ \E x \in AnyNs : mounted' = [mounted EXCEPT ![Name(r)] = x]
  <2>1. files' = files
    BY <1>3, MakesFrame DEF Mounts
  <2>2. n = Name(r) \/ mounted'[n] = mounted[n]
    BY <1>1, <1>3 DEF Typed
  <2>3. QED
    BY <1>1, <1>3, <2>1, <2>2
<1>4. QED
  BY <1>2, <1>3, OwnedMoves

\* What the manager has mounted it records before it lets anybody else look.
LEMMA MakesRecording ==
  ASSUME Base, NamesOwned, KeepsNames(setting), Manager, NEW r \in Requests, Makes(r),
         NEW n \in Names, mounted'[n] # NoNs
  PROVE  n \in store' \/ \E q \in Requests : Recording(q, n)'
<1>1. /\ Typed /\ Functions /\ Orderly(r) /\ Owned(r) /\ "setns" \notin setting.mayFail
      /\ todo[r] \in Seq(ScriptCall) /\ todo[r] # << >> /\ Op(r) = Head(todo[r]).op
      /\ \A q \in Requests : Name(q)' = Name(q)
  BY MakesRest, MakesFrame DEF Base, Typed, NamesOwned, KeepsNames, Manager, Name
<1>2. store \subseteq store'
  BY MakesOp, MakesFrame DEF Record
<1>3. ASSUME NEW q \in Requests, Recording(q, n) PROVE n \in store' \/ Recording(q, n)'
  <2>1. CASE q = r /\ Op(r) = "record"
    BY <1>3, <2>1, MakesOp DEF Record, Recording
  <2>2. CASE q = r /\ Op(r) # "record"
    <3>1. ~Leaves(r) /\ (MayFail(r) => Op(r) \notin {"restore"})
      BY <1>1 DEF Leaves, MayFail, CanFail
    <3>2. Leads(todo'[r], {"record"}, Finders, {"restore"})
      BY <1>1, <1>3, <2>2, <3>1, StepLeads DEF Recording, Finders
    <3>3. mu' = r
      <4>1. ASSUME Op(r) = "release" PROVE FALSE
        <5>1. GoesOn(r)
          BY <4>1, MakesOp DEF Release, Goes, GoesOn
        <5>2. Preceded(todo'[r], Managed, {}, {})
          BY <1>1, <4>1, <5>1, OnceDone DEF Orderly
        <5>3. QED
          BY <3>2, <5>2 DEF Leads, Preceded, Reaches, Managed
      <4>2. QED
        BY <1>3, <2>2, <4>1, MakesHolds DEF Recording
    <3>4. QED
      BY <1>1, <1>3, <2>2, <3>2, <3>3 DEF Recording
  <2>3. CASE q # r
    BY <1>1, <1>3, <2>3, MakesAlone, MakesHolds DEF Recording
  <2>4. QED
    BY <2>1, <2>2, <2>3
<1>4. CASE mounted' = mounted \/ Name(r) # n
  <2>1. mounted[n] # NoNs
    BY <1>1, <1>4, OwnedMoves DEF Typed
  <2>2. QED
    BY <1>2, <1>3, <2>1 DEF NamesOwned
<1>5. CASE mounted' # mounted /\ Name(r) = n
  <2>1. Op(r) \in Mounts /\ GoesOn(r) /\ Claimed(r)
    BY <1>5, OwnedMoves
  <2>2. mu' = r
    BY <1>1, <2>1, MakesFrame DEF Owned, Mounts
  <2>3. Leads(todo'[r], {"record"}, Finders, {"restore"})
    BY <1>1, <2>1, StepAfterLeadsHead DEF Orderly
  <2>4. QED
    BY <1>1, <1>5, <2>2, <2>3 DEF Recording
<1>6. QED
  BY <1>4, <1>5

LEMMA MakesNamesOwned ==
  ASSUME Base, NamesOwned, KeepsNames(setting), NEW r \in Requests, Makes(r), Distinct'
  PROVE  NamesOwned'
<1>1. ByFile' = ByFile /\ Manager' = Manager /\ Functions
  BY MakesFrame, SettingNames DEF Base, Typed
<1>2. \A q \in Requests : Owned(q)'
  BY MakesOwned, OthersOwned
<1>3. ASSUME NEW q \in Requests PROVE Orderly(q)'
  <2>1. Orderly(q)
    BY DEF NamesOwned
  <2>2. CASE q = r
    BY <2>1, <2>2, MakesOrderly
  <2>3. CASE q # r
    <3>1. todo'[q] = todo[q] /\ setting' = setting
      BY <1>1, <2>3, MakesAlone, MakesFrame
    <3>2. QED
      BY <2>1, <3>1, SettingNames DEF Orderly
  <2>4. QED
    BY <2>2, <2>3
<1>4. Manager => \A q \in Requests : Holds(q)' => mu' = q
  BY MakesHolds
<1>5. QED
  BY <1>1, <1>2, <1>3, <1>4, MakesFiled, MakesRecording DEF NamesOwned

LEMMA StartsOwned ==
  ASSUME Base, KeepsNames(setting), setting' = setting,
         NEW q \in Requests, NEW c \in Calls, Starts(q, c)
  PROVE  ~Claimed(q)' /\ Orderly(q)' /\ (Manager => ~Holds(q)')
<1> DEFINE s == todo'[q]
<1>1. /\ c.op \in DOMAIN Script /\ setting.server \in DOMAIN Script[c.op]
      /\ s = Script[c.op][setting.server] /\ setting.server \in Servers
      /\ Touches' = Touches /\ Claims' = Claims /\ Certain' = Certain
      /\ ByFile' = ByFile /\ Manager' = Manager
  BY CallTypes, SettingNames, SettingsAssumption DEF Starts, Base, Typed
<1> HIDE DEF s
<1>2. Servers = Week2 \cup DOMAIN RunScript /\ {"lnaura", "Joseng8908", "khsAlt"} \subseteq Week2
  BY ScriptDomains DEF Servers, Week2
<1>3. CASE ByFile
  <2>1. Exclusive(s, IF setting.server = "yeomin4242" THEN {"restore"} ELSE {})
    BY <1>1, <1>2, <1>3, NameScripts DEF ByFile, Week2
  <2>2. (IF setting.server = "yeomin4242" THEN {"restore"} ELSE {}) \subseteq Certain
    BY DEF KeepsNames, Certain
  <2>3. Touches = Mounts \cup {"remove", "unmount"} /\ Claims = {"creat"} /\ ~Manager
    BY <1>3 DEF Touches, Claims, ByFile, Manager
  <2>4. /\ Preceded(s, Touches, Claims, Certain) /\ After(s, Mounts, Touches, {}, Certain)
        /\ Once(s, {"remove"}, Touches)
    BY <2>1, <2>2, <2>3, PrecededWeaker, AfterWeaker DEF Exclusive
  <2>5. QED
    BY <1>1, <2>3, <2>4 DEF Claimed, Orderly, s
<1>4. CASE ~ByFile
  <2>1. Touches = Mounts \cup {"unmount"}
    BY <1>4 DEF Touches
  <2>2. Preceded(s, Touches, Claims, {}) /\ After(s, Mounts, Touches, {}, {})
        /\ (Manager => Manages(s))
    <3>1. CASE Manager
      <4>1. Manages(s)
        BY <1>1, <3>1, NameScripts DEF Manager
      <4>2. Claims = {"absent"}
        BY <3>1, TouchesFacts
      <4>3. QED
        BY <2>1, <4>1, <4>2 DEF Manages
    <3>2. CASE ~Manager
      <4>1. setting.server = "lnaura"
        BY <1>4, <3>2 DEF Manager, ByFile, KeepsNames
      <4>2. Alone(s)
        BY <1>1, <4>1, NameScripts
      <4>3. Claims = {"reuse"}
        BY <1>4, <3>2, TouchesFacts
      <4>4. QED
        BY <2>1, <3>2, <4>2, <4>3 DEF Alone
    <3>3. QED
      BY <3>1, <3>2
  <2>3. Preceded(s, Touches, Claims, Certain) /\ After(s, Mounts, Touches, {}, Certain)
    BY <2>2, PrecededWeaker, AfterWeaker
  <2>4. QED
    BY <1>1, <1>4, <2>2, <2>3 DEF Claimed, Orderly, Holds, Manages, s
<1>5. QED
  BY <1>3, <1>4

LEMMA OthersNamesOwned ==
  ASSUME Base, NamesOwned, KeepsNames(setting), [Next]_vars, ~ \E r \in Requests : Makes(r),
         Distinct'
  PROVE  NamesOwned'
<1>1. /\ setting' = setting /\ mounted' = mounted /\ files' = files
      /\ Touches' = Touches /\ Claims' = Claims /\ Certain' = Certain
      /\ ByFile' = ByFile /\ Manager' = Manager
  <2>1. setting' = setting
    BY NextCases DEF Answer, Accept, Spawn, Killed, vars
  <2>2. QED
    BY <2>1, MountsCases, SettingNames
<1>2. Manager => mu' = mu /\ store' = store /\ ~Killed
  <2>1. Manager => ~Killed
    BY DEF Manager, KeepsNames, Killed, CanFail
  <2>2. QED
    BY <2>1, NextCases DEF Answer, Accept, Spawn, vars, managerVars
<1>3. ASSUME NEW q \in Requests
      PROVE  /\ Orderly(q)' /\ (Manager /\ Holds(q)' => Holds(q))
             /\ Claimed(q)' => Claimed(q) /\ Name(q)' = Name(q)
  <2>1. CASE Same(q)
    BY <1>1, <2>1 DEF Same, NamesOwned, Orderly, Claimed, Holds, Name
  <2>2. ASSUME NEW c \in Calls, Starts(q, c)
        PROVE  ~Claimed(q)' /\ Orderly(q)' /\ (Manager => ~Holds(q)')
    BY <1>1, <2>2, StartsOwned
  <2>3. CASE Idles(q)
    <3>1. todo'[q] = << >>
      BY <2>3 DEF Idles
    <3>2. /\ \A C, A, B, sure : After(<< >>, C, A, B, sure) /\ AfterLeads(<< >>, C, A, B, sure)
          /\ \A C, A : Once(<< >>, C, A)
      BY DEF After, AfterLeads, Once
    <3>3. QED
      BY <3>1, <3>2, EmptyShape DEF Claimed, Orderly, Holds
  <2>4. QED
    BY <2>1, <2>2, <2>3, RequestCases
<1>4. ASSUME NEW q \in Requests PROVE Owned(q)'
  <2>1. Owned(q)
    BY DEF NamesOwned
  <2>2. QED
    BY <1>1, <1>2, <1>3, <2>1 DEF Owned
<1>5. ASSUME NEW q \in Requests, NEW n \in Names, Manager, Recording(q, n)
      PROVE  Recording(q, n)'
  <2>1. todo[q] # << >>
    <3>1. Leads(todo[q], {"record"}, Finders, {"restore"}) /\ todo[q] \in Seq(ScriptCall)
      BY <1>5 DEF Recording, Base, Typed, Functions
    <3>2. QED
      BY <3>1, LeadsHead
  <2>2. call[q] # NoCall /\ Typed /\ Functions
    BY <2>1 DEF Base, RequestInv, Typed
  <2>3. call'[q] = call[q] /\ todo'[q] = todo[q]
    BY <1>2, <1>5, <2>1, <2>2, NextCases
       DEF Answer, Answering, Accept, Functions, Typed, Spawn, vars, requestVars
  <2>4. QED
    BY <1>2, <1>5, <2>3 DEF Recording, Name
<1>6. ByFile => \A n \in Names : mounted[n] # NoNs => n \in files
  BY DEF NamesOwned
<1>7. Manager => /\ \A r \in Requests : Holds(r) => mu = r
                 /\ \A n \in Names : mounted[n] # NoNs =>
                      n \in store \/ \E r \in Requests : Recording(r, n)
  BY DEF NamesOwned
<1>8. QED
  BY <1>1, <1>2, <1>3, <1>4, <1>5, <1>6, <1>7 DEF NamesOwned

LEMMA NamesOwnedInductive ==
  ASSUME \A w \in Settings : KeepsNames(w), Base, NamesOwned, [Next]_vars
  PROVE  /\ NamesOwned'
         /\ \A n \in Names : mounted[n] # NoNs => mounted'[n] = mounted[n]
<1>1. KeepsNames(setting) /\ Typed
  BY DEF Base, Typed
<1>2. Distinct'
  BY DistinctInductive DEF NamesOwned
<1>3. NamesOwned'
  BY <1>1, <1>2, MakesNamesOwned, OthersNamesOwned
<1>4. ASSUME NEW n \in Names, mounted[n] # NoNs PROVE mounted'[n] = mounted[n]
  <2>1. CASE \E r \in Requests : Makes(r)
    BY <1>1, <1>4, <2>1, OwnedMoves DEF NamesOwned, Owned, Typed
  <2>2. CASE ~ \E r \in Requests : Makes(r)
    BY <1>1, <2>2, MountsCases
  <2>3. QED
    BY <2>1, <2>2
<1>5. QED
  BY <1>3, <1>4

\* Once a name stands for a namespace no call of any request makes it stand for
\* another, or for none: what is moved or started by that name stays together.
THEOREM NamesStayStable == (\A w \in Settings : KeepsNames(w)) => (Spec => NamesStable)
<1> SUFFICES ASSUME \A w \in Settings : KeepsNames(w) PROVE Spec => NamesStable
  OBVIOUS
<1>1. Init => NamesOwned
  <2> SUFFICES ASSUME Init PROVE NamesOwned
    OBVIOUS
  <2>1. \A r \in Requests : call[r] = NoCall /\ todo[r] = << >>
    BY DEF Init
  <2>2. \A r \in Requests : ~Claimed(r) /\ ~Holds(r)
    BY <2>1, EmptyShape DEF Claimed, Holds
  <2>3. \A r \in Requests : Orderly(r)
    BY <2>1 DEF Orderly, After, AfterLeads, Once
  <2>4. \A n \in Names : mounted[n] = NoNs
    BY DEF Init
  <2>5. QED
    BY <2>1, <2>2, <2>3, <2>4 DEF NamesOwned, Distinct, Creating, Owned
<1>2. Base /\ NamesOwned /\ [Next]_vars =>
        NamesOwned' /\ [\A n \in Names : mounted[n] # NoNs => mounted'[n] = mounted[n]]_vars
  BY NamesOwnedInductive
<1>3. Spec => []Base
  BY SpecBase
<1>4. QED
  BY <1>1, <1>2, <1>3, PTL DEF Spec, NamesStable
=============================================================================

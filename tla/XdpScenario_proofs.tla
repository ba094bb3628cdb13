------------------------- MODULE XdpScenario_proofs -------------------------
(***************************************************************************)
(* Proofs about the checker next to the service: the service in this       *)
(* company is still XdpService, so what is proved of it holds here, and    *)
(* the checker takes down what it made.                                    *)
(***************************************************************************)
EXTENDS XdpScenario, XdpService_proofs

\* What the checker posts is a call the handlers let through.
LEMMA AskedValid ==
  ASSUME NEW s \in Posts
  PROVE  Asked(s) \in ValidCalls
<1> DEFINE m == IF s = "block"
                THEN [op |-> s, name |-> HostIf, addr |-> [form |-> "ipv4", ip |-> PeerIP]]
                ELSE [op |-> s, name |-> HostIf]
<1>1. m \in Messages
  BY ScenarioAssumption DEF Messages, Texts, Posts
<1>2. Valid(m) /\ CallOf(m) = Asked(s)
  BY ScenarioAssumption, NoIPAssumption DEF Valid, ValidateIfName, ParseIPv4, CallOf, Asked, Posts
<1>3. QED
  BY <1>1, <1>2 DEF ValidCalls

\* A step of the checker's own makes or deletes an interface, posts a request or
\* leaves the service alone.
LEMMA CheckerStepIsService == CheckerStep => [Next]_vars
<1>1. ASSUME NEW r \in Requests, Post(r)
      PROVE  Next
  BY <1>1, AskedValid DEF Post, Next, ServiceNext, Arrival
<1>2. CASE DeleteHost \/ LinkAdd
  BY <1>2, ScenarioAssumption DEF DeleteHost, LinkAdd, DropPair, ServiceIdle, Next, DeviceStep,
    DeviceChange, vars
<1>3. CASE \/ DeleteHostAstray \/ UnmountName \/ RemoveName \/ DeletionFails \/ NewNamespace
           \/ MountNamespace \/ MountFails \/ NewNamespaceStays
           \/ MovePeer \/ Configure \/ CallFails
           \/ Refused \/ Answered \/ Timeout \/ VerifyAttached
           \/ Ping \/ PingFails \/ PingStrays \/ End
  BY <1>3 DEF DeleteHostAstray, UnmountName, RemoveName, DeletionFails, NewNamespace,
    MountNamespace,
    MountFails, NewNamespaceStays,
    MovePeer, Configure, CallFails, Refused, Answered, Timeout, VerifyAttached, Ping,
    PingFails, PingStrays, End
<1>4. QED
  BY <1>1, <1>2, <1>3 DEF CheckerStep

\* Every step of the composition is a step of the service or none.
LEMMA ScenarioStepIsService == [ScenarioNext]_scenarioVars => [Next]_vars
<1>1. CASE Launch \/ Kill
  BY <1>1 DEF Launch, Kill
<1>2. CASE CheckerStep
  BY <1>2, CheckerStepIsService
<1>3. CASE NamespaceDies
  BY <1>3, ScenarioAssumption DEF NamespaceDies, ServiceIdle, Next, DeviceStep, DeviceChange
<1>4. CASE ServiceStep
  BY <1>4 DEF ServiceStep, Next, ServiceNext
<1>5. CASE UNCHANGED scenarioVars
  BY <1>5 DEF scenarioVars
<1>6. QED
  BY <1>1, <1>2, <1>3, <1>4, <1>5 DEF ScenarioNext

\* The service the checker talks to behaves as XdpService says, with the checker
\* one of its clients and the owner of an interface.
THEOREM ScenarioRunsService == ScenarioSpec => Spec
<1>1. ScenarioInit => Init
  BY DEF ScenarioInit
<1>2. QED
  BY <1>1, ScenarioStepIsService, PTL DEF ScenarioSpec, Spec

\* Under test, too, the service's bookkeeping stays sound.
LEMMA ScenarioServiceInv == ScenarioSpec => []ServiceInv
<1>1. QED
  BY ScenarioRunsService, ServiceInvariant, PTL

-----------------------------------------------------------------------------
(* Types and leftovers *)

\* Sequel, one stage at a time.
LEMMA SequelValues ==
  /\ Sequel["sweepHost"] = "sweepNs" /\ Sequel["sweepNs"] = "sweepFile"
  /\ Sequel["sweepFile"] = "newNs" /\ Sequel["newNs"] = "mountNs"
  /\ Sequel["mountNs"] = "linkAdd" /\ Sequel["linkAdd"] = "move"
  /\ Sequel["move"] = "configure" /\ Sequel["configure"] = "attach"
  /\ Sequel["attach"] = "verify" /\ Sequel["verify"] = "ping"
  /\ Sequel["ping"] = "block" /\ Sequel["block"] = "pingBlocked"
  /\ Sequel["pingBlocked"] = "clear" /\ Sequel["clear"] = "pingCleared"
  /\ Sequel["pingCleared"] = "undoHost" /\ Sequel["undoHost"] = "undoNs"
  /\ Sequel["undoNs"] = "undoFile" /\ Sequel["undoFile"] = "end"
  /\ Stages = {"sweepHost", "sweepNs", "sweepFile", "newNs", "mountNs", "linkAdd", "move",
               "configure", "attach", "verify", "ping", "block", "pingBlocked", "clear",
               "pingCleared", "undoHost", "undoNs", "undoFile", "end", "idle"}
BY DEF Sequel, Stages

\* Where a call that is made goes on, and where one that fails.
LEMMA Moves ==
  ASSUME stage \in Stages
  PROVE  /\ stage \notin {"end", "idle"} => Sequel[stage] \in Stages \ {"idle", "sweepHost"}
         /\ UndoFrom(stage) \in Undos \cup {"end"}
BY SequelValues DEF UndoFrom, Undos

\* What the kernel knows of interfaces.
LEMMA DevType == ServiceInv => dev \in [Names -> Nat] /\ lastIfindex \in Nat
BY MaxIfindexAssumption DEF ServiceInv, TypeOK, KernelTypeOK, Ifindex, NoDev

\* The service makes and deletes no interface.
LEMMA ServiceKeepsDev == ServiceStep => UNCHANGED dev
<1>1. ASSUME NEW r \in Requests, Arrival(r) \/ LockStep(r) \/ OwnStep(r)
      PROVE  UNCHANGED dev
  BY <1>1 DEF Arrival, Accept, Reject, LockStep, AttachAgain, EnsureObjects, EnsureObjectsFails,
    BlockUpdate, BlockMapFull, ClearCollect, ClearCollectFails, RefuseUnattached, OwnStep,
    LookupFound, LookupMissing,
    AttachXdp, AttachXdpFails, ClearDelete, ClearDeleteFails, ClearReturn, kernelVars
<1>2. MainStep \/ Signal \/ Killed \/ Restart => UNCHANGED dev
  BY DEF MainStep, CloseEnter, CloseLink, CloseObjects, MainReturns, ProcessGone, Signal, Killed,
    Restart, kernelVars
<1>3. QED
  BY <1>1, <1>2 DEF ServiceStep

\* The checker's variables keep their types, and agree with each other and with
\* the kernel on whether there is a run, a request and an interface.
LEMMA ScenarioTypeStep ==
  ASSUME ServiceInv, ScenarioTypeOK, LeftoverInv, [ScenarioNext]_scenarioVars
  PROVE  ScenarioTypeOK'
<1> USE SequelValues, ScenarioAssumption
    DEF ScenarioTypeOK, Running, Outcomes, Undos, Posts, Elsewhere, Disturb, kernelVars,
        vars, Goes, Fails, nsName
<1>1. CASE Launch
  <2>1. disturbed' \in BOOLEAN
    BY <1>1 DEF Launch
  <2>2. runs' \in 0..MaxRuns
    BY <1>1 DEF Launch
  <2>3. QED
    BY <1>1, <2>1, <2>2 DEF Launch
<1>2. CASE Kill
  BY <1>2 DEF Kill
<1>3. CASE DeleteHost
  BY <1>3, Moves, DevType DEF DeleteHost, DropPair, DeleteDevice
<1>4. CASE DeleteHostAstray
  BY <1>4, Moves DEF DeleteHostAstray
<1>5. CASE UnmountName
  <2>1. \/ stage = "sweepNs" /\ stage' \in {"sweepFile", "newNs"}
        \/ stage = "undoNs" /\ stage' \in {"undoFile", "end"}
    BY <1>5 DEF UnmountName, Unmounts, Skip
  <2>2. outcome' = outcome /\ mounted' = FALSE
    BY <1>5 DEF UnmountName, Skip
  <2>3. QED
    BY <1>5, <2>1, <2>2 DEF UnmountName
<1>5a. CASE RemoveName
  BY <1>5a, Moves DEF RemoveName, Removals
<1>6. CASE DeletionFails
  BY <1>6, Moves DEF DeletionFails, Unmounts, Removals, Skip
<1>7. CASE NewNamespace
  BY <1>7, Moves, ZenonT(30) DEF NewNamespace
<1>7a. CASE MountNamespace
  <2>1. stage = "mountNs" /\ stage' = "linkAdd" /\ outcome' = outcome
    BY <1>7a DEF MountNamespace
  <2>2. UNCHANGED <<slot, runs, peer, dev, file, away, disturbed, litter>> /\ mounted' = TRUE
    BY <1>7a DEF MountNamespace
  <2>3. QED
    BY <2>1, <2>2
<1>7b. CASE MountFails
  BY <1>7b, Moves DEF MountFails
<1>8. CASE NewNamespaceStays
  BY <1>8, Moves DEF NewNamespaceStays
<1>9. CASE LinkAdd
  <2>1. disturbed' \in BOOLEAN
    BY <1>9 DEF LinkAdd
  <2>2. QED
    BY <1>9, <2>1, Moves, DevType DEF LinkAdd, CreateDevice, NoDev
<1>10. CASE MovePeer
  BY <1>10, Moves DEF MovePeer, LeftoverInv
<1>11. CASE Configure
  BY <1>11, Moves DEF Configure
<1>12. CASE CallFails
  BY <1>12, Moves DEF CallFails
<1>13. ASSUME NEW r \in Requests, Post(r) PROVE ScenarioTypeOK'
  BY <1>13 DEF Post, Accept
<1>14. CASE Refused
  BY <1>14, Moves DEF Refused
<1>15. CASE Answered
  BY <1>15, Moves DEF Answered
<1>16. CASE Timeout
  BY <1>16, Moves DEF Timeout
<1>17. CASE VerifyAttached
  BY <1>17, Moves DEF VerifyAttached
<1>18. CASE Ping
  BY <1>18, Moves DEF Ping, Concludes, Pings
<1>19. CASE PingFails
  BY <1>19, Moves DEF PingFails, Concludes, Pings
<1>20. CASE PingStrays
  BY <1>20, Moves DEF PingStrays, Concludes, Pings
<1>21. CASE End
  BY <1>21 DEF End
<1>22. CASE NamespaceDies
  BY <1>22, DevType DEF NamespaceDies, DeleteDevice
<1>23. CASE ServiceStep
  <2>1. disturbed' \in BOOLEAN
    BY <1>23 DEF ServiceStep
  <2>2. QED
    BY <1>23, <2>1, ServiceKeepsDev DEF ServiceStep
<1>24. CASE UNCHANGED scenarioVars
  BY <1>24 DEF scenarioVars, checkerVars
<1>25. QED
  BY <1>1, <1>2, <1>3, <1>4, <1>5, <1>5a, <1>6, <1>7, <1>7a, <1>7b, <1>8, <1>9, <1>10, <1>11, <1>12,
    <1>13, <1>14, <1>15, <1>16, <1>17, <1>18, <1>19, <1>20, <1>21, <1>22, <1>23,
      <1>24 DEF ScenarioNext, CheckerStep

\* What a run leaves depends on the checker's own calls and on the kernel only.
LEMMA LeftoverStep ==
  ASSUME ServiceInv, ScenarioTypeOK, LeftoverInv, [ScenarioNext]_scenarioVars
  PROVE  LeftoverInv'
<1> USE SequelValues
    DEF ScenarioTypeOK, LeftoverInv, Running, Undos, Posts, Pings, Using, Elsewhere,
        Goes, Fails, UndoFrom, nsName, Unmounts, Removals, Skip
<1>1. CASE Launch \/ Kill \/ End
  BY <1>1 DEF Launch, Kill, End
<1>2. CASE DeleteHost
  BY <1>2 DEF DeleteHost
<1>3. CASE DeleteHostAstray
  BY <1>3 DEF DeleteHostAstray
<1>4. CASE UnmountName \/ RemoveName
  BY <1>4 DEF UnmountName, RemoveName
<1>5. CASE DeletionFails
  BY <1>5 DEF DeletionFails
<1>6. CASE NewNamespace
  BY <1>6 DEF NewNamespace
<1>6a. CASE MountNamespace \/ MountFails
  BY <1>6a DEF MountNamespace, MountFails
<1>7. CASE NewNamespaceStays
  BY <1>7 DEF NewNamespaceStays
<1>8. CASE LinkAdd
  BY <1>8 DEF LinkAdd
<1>9. CASE MovePeer \/ Configure
  BY <1>9 DEF MovePeer, Configure
<1>10. CASE CallFails
  BY <1>10 DEF CallFails
<1>11. ASSUME NEW r \in Requests, Post(r) PROVE LeftoverInv'
  BY <1>11 DEF Post
<1>12. CASE Refused
  BY <1>12 DEF Refused
<1>13. CASE Answered
  BY <1>13 DEF Answered
<1>14. CASE Timeout
  BY <1>14 DEF Timeout
<1>15. CASE VerifyAttached
  BY <1>15 DEF VerifyAttached
<1>16. CASE Ping
  BY <1>16 DEF Ping, Concludes
<1>17. CASE PingFails
  BY <1>17 DEF PingFails, Concludes
<1>18. CASE PingStrays
  BY <1>18 DEF PingStrays, Concludes
<1>19. CASE NamespaceDies
  BY <1>19 DEF NamespaceDies
<1>20. CASE ServiceStep
  BY <1>20 DEF ServiceStep
<1>21. CASE UNCHANGED scenarioVars
  BY <1>21 DEF scenarioVars, checkerVars
<1>22. QED
  BY <1>1, <1>2, <1>3, <1>4, <1>5, <1>6, <1>6a, <1>7, <1>8, <1>9, <1>10, <1>11, <1>12, <1>13,
    <1>14, <1>15, <1>16, <1>17, <1>18, <1>19, <1>20, <1>21 DEF ScenarioNext, CheckerStep

\* A stage between set-up and take-down has its namespace and its interface.
THEOREM ScenarioTypeCorrect == ScenarioSpec => [](ScenarioTypeOK /\ LeftoverInv)
<1>1. ScenarioInit => ScenarioTypeOK /\ LeftoverInv
  <2>1. ScenarioInit => ScenarioTypeOK
    <3> SUFFICES ASSUME ScenarioInit
                 PROVE  ScenarioTypeOK
      OBVIOUS
    <3>1. dev[HostIf] = NoDev /\ peer = "none"
      BY ScenarioAssumption DEF ScenarioInit, Init, KernelInit
    <3>2. /\ stage = "idle" /\ outcome = "none" /\ slot = NoSlot /\ runs = 0
          /\ ~file /\ ~mounted /\ ~away /\ ~disturbed /\ ~litter
      BY DEF ScenarioInit
    <3>3. /\ file \in BOOLEAN /\ mounted \in BOOLEAN /\ away \in BOOLEAN
          /\ disturbed \in BOOLEAN /\ litter \in BOOLEAN
      BY DEF ScenarioInit
    <3>4. QED
      BY <3>1, <3>2, <3>3, ScenarioAssumption, SequelValues DEF ScenarioTypeOK, Running, Outcomes
  <2>2. ScenarioInit => LeftoverInv
    BY DEF ScenarioInit, LeftoverInv, Running, Using, Undos, Removals
  <2>3. QED
    BY <2>1, <2>2
<1>2. /\ ServiceInv /\ ScenarioTypeOK /\ LeftoverInv
      /\ [ScenarioNext]_scenarioVars
      => ScenarioTypeOK' /\ LeftoverInv'
  BY ScenarioTypeStep, LeftoverStep
<1>3. QED
  BY <1>1, <1>2, ScenarioServiceInv, PTL DEF ScenarioSpec

\* For every instance: a checker that is gone has left nothing it could have
\* deleted.
THEOREM NothingIsLeft == ScenarioSpec => []NothingLeft
<1>1. ScenarioTypeOK /\ LeftoverInv => NothingLeft
  BY DEF ScenarioTypeOK, LeftoverInv, NothingLeft, Running
<1>2. QED
  BY <1>1, ScenarioTypeCorrect, PTL

-----------------------------------------------------------------------------
(***************************************************************************)
(* The verdict of the checker, proved for every instance: a run that       *)
(* nothing disturbs from outside never fails, and from its verification on *)
(* every run speaks to the service about the interface it made.            *)
(***************************************************************************)

\* The service attaches to HostIf's interface or to none.
LEMMA OnlyDevice ==
  ASSUME OnlyHostIf, NEW i \in Devices
  PROVE  i = dev[HostIf]
BY DEF OnlyHostIf, Devices

LEMMA CallNames ==
  ASSUME ServiceInv, NEW r \in Requests, call[r] # NoCall
  PROVE  call[r].name \in Names
BY DEF ServiceInv, TypeOK, Calls

\* Steps of a request that say nothing of other names.
LEMMA OnlyHostIfRequest ==
  ASSUME ServiceInv, OnlyHostIf, NEW r \in Requests, Arrival(r) \/ LockStep(r) \/ OwnStep(r)
  PROVE  OnlyHostIf'
<1> USE NoCallAssumption DEF ServiceInv, TypeOK, RequestInv, OnlyHostIf, At, kernelVars,
  serviceVars
<1>1. CASE Arrival(r)
  <2>1. ASSUME NEW c \in ValidCalls, Accept(r, c)
        PROVE  OnlyHostIf'
    BY <2>1, ValidCallsType DEF Accept
  <2>2. CASE Reject(r)
    BY <2>2 DEF Reject
  <2>3. QED
    BY <1>1, <2>1, <2>2 DEF Arrival
<1>2. CASE LookupFound(r)
  BY <1>2, CallNames DEF LookupFound
<1>3. CASE EnsureObjects(r)
  BY <1>3 DEF EnsureObjects
<1>4. CASE AttachXdp(r)
  <2>1. call[r].name = HostIf
    BY <1>4 DEF AttachXdp
  <2>2. QED
    BY <1>4, <2>1 DEF AttachXdp, Return
<1>5. CASE ClearCollect(r)
  BY <1>5 DEF ClearCollect
<1>6. ASSUME NEW k \in left[r], ClearDelete(r, k)
      PROVE  OnlyHostIf'
  BY <1>6 DEF ClearDelete
<1>7. CASE \/ LookupMissing(r) \/ AttachXdpFails(r) \/ ClearReturn(r) \/ AttachAgain(r)
           \/ ClearCollectFails(r) \/ ClearDeleteFails(r) \/ EnsureObjectsFails(r)
           \/ BlockUpdate(r) \/ BlockMapFull(r) \/ RefuseUnattached(r)
  <2>1. UNCHANGED <<dev, attachments>> /\ \E a : Return(r, a)
    BY <1>7 DEF LookupMissing, AttachXdpFails, ClearReturn, AttachAgain, EnsureObjectsFails,
      ClearCollectFails, ClearDeleteFails,
      BlockUpdate, BlockMapFull, RefuseUnattached
  <2>2. QED
    BY <2>1 DEF Return
<1>8. QED
  BY <1>1, <1>2, <1>3, <1>4, <1>5, <1>6, <1>7 DEF LockStep, OwnStep

\* Nobody but the checker has an interface, and nobody else's name is in the table.
LEMMA OnlyHostIfStep ==
  ASSUME ServiceInv, OnlyHostIf, [ScenarioNext]_scenarioVars
  PROVE  OnlyHostIf'
<1> USE ScenarioAssumption DEF OnlyHostIf
<1>1. CASE ServiceStep
  <2>1. CASE \E r \in Requests : Arrival(r) \/ LockStep(r) \/ OwnStep(r)
    BY <2>1, OnlyHostIfRequest
  <2>2. CASE MainStep \/ Signal \/ Killed \/ Restart
    BY <2>2 DEF MainStep, CloseEnter, CloseLink, CloseObjects, MainReturns, ProcessGone, Signal,
      Killed, Restart, kernelVars, serviceVars, requestVars
  <2>3. QED
    BY <1>1, <2>1, <2>2 DEF ServiceStep
<1>2. CASE DeleteHost \/ LinkAdd \/ NamespaceDies
  <2>1. UNCHANGED <<attachments, iface, call>> /\ \A n \in Names \ {HostIf} : dev'[n] = dev[n]
    BY <1>2, DevType DEF DeleteHost, DropPair, LinkAdd, NamespaceDies, CreateDevice, DeleteDevice,
      ServiceIdle, serviceVars, requestVars, kernelVars
  <2>2. QED
    BY <2>1
<1>3. ASSUME NEW r \in Requests, Post(r)
      PROVE  OnlyHostIf'
  BY <1>3, AskedValid, OnlyHostIfRequest DEF Post, Arrival
<1>4. CASE \/ DeleteHostAstray \/ UnmountName \/ RemoveName \/ DeletionFails \/ NewNamespace
           \/ MountNamespace \/ MountFails \/ NewNamespaceStays
           \/ MovePeer \/ Configure \/ CallFails
           \/ Refused \/ Answered \/ Timeout \/ VerifyAttached
           \/ Ping \/ PingFails \/ PingStrays \/ End \/ Launch \/ Kill \/ UNCHANGED scenarioVars
  <2>1. UNCHANGED vars
    BY <1>4 DEF DeleteHostAstray, UnmountName, RemoveName, DeletionFails, NewNamespace,
      MountNamespace,
    MountFails, NewNamespaceStays,
      MovePeer, Configure, CallFails, Refused, Answered, Timeout, VerifyAttached, Ping,
      PingFails, PingStrays, End, Launch, Kill, scenarioVars
  <2>2. QED
    BY <2>1 DEF vars, kernelVars, serviceVars, requestVars
<1>5. QED
  BY <1>1, <1>2, <1>3, <1>4 DEF ScenarioNext, CheckerStep

-----------------------------------------------------------------------------
(* The table's entry *)

\* A request leaves HostIf's entry alone, or makes it the interface there is.
LEMMA RequestEntry ==
  ASSUME ServiceInv, OnlyHostIf, NEW r \in Requests, Arrival(r) \/ LockStep(r) \/ OwnStep(r)
  PROVE  /\ UNCHANGED <<dev, phase>>
         /\ \/ attachments'[HostIf] = attachments[HostIf]
            \/ dev[HostIf] # NoDev /\ attachments'[HostIf] = dev[HostIf]
<1> USE ScenarioAssumption DEF ServiceInv, TypeOK, kernelVars, serviceVars
<1>1. CASE AttachXdp(r)
  <2>1. iface[r] = dev[HostIf] /\ iface[r] # NoDev
    BY <1>1, OnlyDevice DEF AttachXdp, CanAttach, RequestInv, At
  <2>2. QED
    BY <1>1, <2>1 DEF AttachXdp
<1>2. CASE Arrival(r)
  BY <1>2 DEF Arrival, Accept, Reject
<1>3. CASE LockStep(r)
  BY <1>3 DEF LockStep, AttachAgain, EnsureObjects, EnsureObjectsFails,
    BlockUpdate, BlockMapFull, ClearCollect, ClearCollectFails, RefuseUnattached
<1>4. CASE OwnStep(r)
  BY <1>1, <1>4 DEF OwnStep, LookupFound, LookupMissing, AttachXdpFails, ClearDelete,
    ClearDeleteFails, ClearReturn
<1>5. QED
  BY <1>2, <1>3, <1>4

\* So does every step of the service, unless it empties the table.
LEMMA ServiceEntry ==
  ASSUME ServiceInv, OnlyHostIf, ServiceStep
  PROVE  attachments'[HostIf] \in {attachments[HostIf], NoDev, dev[HostIf]}
<1>1. CASE \E r \in Requests : Arrival(r) \/ LockStep(r) \/ OwnStep(r)
  BY <1>1, RequestEntry
<1>2. CASE MainStep \/ Signal \/ Killed \/ Restart
  BY <1>2, ScenarioAssumption DEF MainStep, CloseEnter, CloseLink, CloseObjects, MainReturns,
    ProcessGone, Signal, Killed, Restart, serviceVars
<1>3. QED
  BY <1>1, <1>2 DEF ServiceStep

\* An interface with a program is in the table, under HostIf.
LEMMA ProgramEntry ==
  ASSUME ServiceInv, OnlyHostIf, dev[HostIf] \in progs
  PROVE  attachments[HostIf] = dev[HostIf]
<1>1. PICK n \in Names : attachments[n] = dev[HostIf]
  BY DEF ServiceInv, ProgramsOwned
<1>2. dev[HostIf] # NoDev
  BY DEF ServiceInv, KernelInv, Devices
<1>3. QED
  BY <1>1, <1>2 DEF OnlyHostIf

\* Steps of the checker other than these leave interfaces and table alone.
LEMMA QuietSteps ==
  ASSUME \/ DeleteHostAstray \/ UnmountName \/ RemoveName \/ DeletionFails \/ NewNamespace
         \/ MountNamespace \/ MountFails \/ NewNamespaceStays \/ MovePeer \/ Configure \/ CallFails
         \/ Refused \/ Answered \/ Timeout \/ VerifyAttached
         \/ Ping \/ PingFails \/ PingStrays \/ End \/ Launch \/ Kill \/ UNCHANGED scenarioVars
  PROVE  UNCHANGED vars
BY DEF DeleteHostAstray, UnmountName, RemoveName, DeletionFails, NewNamespace, MountNamespace,
    MountFails, NewNamespaceStays,
  MovePeer, Configure, CallFails, Refused, Answered, Timeout, VerifyAttached, Ping,
  PingFails, PingStrays, End, Launch, Kill, scenarioVars

\* Past its verification the checker is talking about its own interface.
LEMMA VerifiedStep ==
  ASSUME ServiceInv, ScenarioTypeOK, LeftoverInv, OnlyHostIf, VerifiedIsLive,
         [ScenarioNext]_scenarioVars
  PROVE  VerifiedIsLive'
<1> USE SequelValues DEF VerifiedIsLive, Using
<1>1. CASE ServiceStep
  BY <1>1, ServiceEntry, ServiceKeepsDev DEF ServiceStep
<1>2. CASE NamespaceDies
  BY <1>2 DEF NamespaceDies, LeftoverInv, Using
<1>3. CASE DeleteHost \/ LinkAdd
  BY <1>3 DEF DeleteHost, LinkAdd, Goes, Fails
<1>4. ASSUME NEW r \in Requests, Post(r)
      PROVE  VerifiedIsLive'
  BY <1>4 DEF Post, Accept, kernelVars, serviceVars
<1>5. CASE VerifyAttached
  BY <1>5, ProgramEntry, QuietSteps DEF VerifyAttached, Goes, Fails, vars, kernelVars, serviceVars
<1>6. CASE stage \notin {"attach", "verify"} /\
           \/ DeleteHostAstray \/ UnmountName \/ RemoveName \/ DeletionFails \/ NewNamespace
           \/ MountNamespace \/ MountFails \/ NewNamespaceStays
           \/ MovePeer \/ Configure \/ CallFails
           \/ Refused \/ Answered \/ Timeout
           \/ Ping \/ PingFails \/ PingStrays \/ End \/ Launch \/ Kill \/ UNCHANGED scenarioVars
  <2>1. UNCHANGED <<dev, attachments>>
    BY <1>6, QuietSteps DEF vars, kernelVars, serviceVars
  <2>2. outcome' = "good" /\ stage' \in Using \ {"verify"} =>
          outcome = "good" /\ stage \in Using \ {"verify"}
    BY <1>6 DEF DeleteHostAstray, UnmountName, RemoveName, DeletionFails, NewNamespace,
      MountNamespace,
    MountFails, NewNamespaceStays,
      MovePeer, Configure, CallFails, Refused, Answered, Timeout, Ping, PingFails, PingStrays,
      Concludes, End, Launch, Kill, scenarioVars, checkerVars, nsName, Goes, Skip, Unmounts,
      Removals, Fails, Posts, Pings,
      ScenarioTypeOK
  <2>3. QED
    BY <2>1, <2>2
<1>7. CASE stage \in {"attach", "verify"} /\
           (CallFails \/ Refused \/ Answered \/ Timeout \/ Kill \/ UNCHANGED scenarioVars)
  BY <1>7, QuietSteps DEF CallFails, Refused, Answered, Timeout, Kill, Goes, Fails, Posts,
    ScenarioTypeOK, scenarioVars, checkerVars, vars, kernelVars, serviceVars
<1>8. QED
  BY <1>1, <1>2, <1>3, <1>4, <1>5, <1>6, <1>7 DEF ScenarioNext, CheckerStep, DeleteHostAstray,
    UnmountName, RemoveName, DeletionFails, NewNamespace, MountNamespace,
    MountFails, NewNamespaceStays, MovePeer, Configure, Ping,
    PingFails, PingStrays, Pings, End, Launch, Running, Unmounts, Removals, ScenarioTypeOK

-----------------------------------------------------------------------------
(* An undisturbed run, while the service works *)

\* A request that steps has been accepted, and the steps of one leave the place,
\* call and answer of the others.
LEMMA OneAtATime ==
  ASSUME ServiceInv, NEW r \in Requests, Arrival(r) \/ LockStep(r) \/ OwnStep(r)
  PROVE  /\ ~Arrival(r) => pc[r] # "idle"
         /\ \A q \in Requests \ {r} :
              pc'[q] = pc[q] /\ call'[q] = call[q] /\ answer'[q] = answer[q]
<1> USE DEF ServiceInv, TypeOK, Return
<1>1. CASE Arrival(r)
  BY <1>1 DEF Arrival, Accept, Reject
<1>2. CASE LockStep(r)
  BY <1>2 DEF LockStep, AttachAgain, EnsureObjects, EnsureObjectsFails,
    BlockUpdate, BlockMapFull, ClearCollect, ClearCollectFails, RefuseUnattached, At
<1>3. CASE OwnStep(r)
  BY <1>3 DEF OwnStep, LookupFound, LookupMissing, AttachXdp, AttachXdpFails, ClearDelete,
    ClearDeleteFails,
    ClearReturn, At
<1>4. QED
  BY <1>1, <1>2, <1>3

\* Requests that are no Block or Clear of HostIf leave the map alone.
LEMMA OthersKeepMap ==
  ASSUME ServiceInv, OnlyHostIf, NEW r \in Requests, ~Meddles(r),
         Arrival(r) \/ LockStep(r) \/ OwnStep(r)
  PROVE  blockedIps' = blockedIps
<1> USE DEF serviceVars
<1>1. CASE Arrival(r)
  BY <1>1 DEF Arrival, Accept, Reject
<1>2. ~BlockUpdate(r)
  BY CallNames DEF BlockUpdate, Meddles, At, Attached, OnlyHostIf, ServiceInv, RequestInv
<1>3. CASE LockStep(r)
  BY <1>2, <1>3 DEF LockStep, AttachAgain, EnsureObjects, EnsureObjectsFails, BlockMapFull,
    ClearCollect, ClearCollectFails, RefuseUnattached
<1>4. ASSUME NEW k \in left[r]
      PROVE  ~ClearDelete(r, k)
  BY CallNames DEF ClearDelete, Meddles, At, Attached, OnlyHostIf, ServiceInv, RequestInv
<1>5. CASE OwnStep(r)
  BY <1>4, <1>5 DEF OwnStep, LookupFound, LookupMissing, AttachXdp, AttachXdpFails,
    ClearDeleteFails, ClearReturn
<1>6. QED
  BY <1>1, <1>3, <1>5

\* A step of the checker's own request: it is under way, or answered failed, or
\* answered ok with its effect in force.
LEMMA OwnRequestStep ==
  ASSUME ServiceInv, OnlyHostIf, NEW r \in Requests, NEW s \in Posts,
         call[r] = Asked(s), pc[r] # "idle", LockStep(r) \/ OwnStep(r),
         dev[HostIf] # NoDev, attachments[HostIf] \in {NoDev, dev[HostIf]},
         s # "attach" => Attached(HostIf)
  PROVE  /\ IF pc'[r] = "idle" THEN answer'[r] \in {"ok", "failed"} ELSE call'[r] = Asked(s)
         /\ pc'[r] = "idle" => call'[r] = NoCall
         /\ s = "attach" => blockedIps' = blockedIps
         /\ pc'[r] = "idle" /\ answer'[r] = "ok" =>
              /\ s = "attach" => attachments'[HostIf] # NoDev
              /\ s = "block" => <<dev[HostIf], PeerIP>> \in blockedIps'
              /\ s = "clear" => <<dev[HostIf], PeerIP>> \notin blockedIps'
<1> USE ScenarioAssumption DEF ServiceInv, TypeOK, Asked, At, Return, serviceVars, Posts
<1>1. CASE LookupFound(r) \/ EnsureObjects(r)
  BY <1>1 DEF LookupFound, EnsureObjects
<1>2. CASE LookupMissing(r)
  BY <1>2 DEF LookupMissing
<1>3. CASE AttachAgain(r)
  BY <1>3 DEF AttachAgain, Attached
<1>4. CASE \/ EnsureObjectsFails(r) \/ AttachXdpFails(r)
           \/ ClearCollectFails(r) \/ ClearDeleteFails(r)
  BY <1>4 DEF EnsureObjectsFails, AttachXdpFails, ClearCollectFails, ClearDeleteFails
<1>5. CASE AttachXdp(r)
  BY <1>5 DEF AttachXdp, RequestInv
<1>6. CASE BlockUpdate(r)
  BY <1>6 DEF BlockUpdate, BlockKey, Attached
<1>7. CASE BlockMapFull(r)
  BY <1>7 DEF BlockMapFull
<1>8. CASE ClearCollect(r)
  BY <1>8 DEF ClearCollect
<1>9. ASSUME NEW k \in left[r], ClearDelete(r, k)
      PROVE  pc'[r] = "delete" /\ call'[r] = Asked(s) /\ s = "clear"
  BY <1>9 DEF ClearDelete
<1>10. CASE ClearReturn(r)
  BY <1>10 DEF ClearReturn, RequestInv, KeysForInterface, Attached
<1>11. CASE RefuseUnattached(r)
  BY <1>11 DEF RefuseUnattached
<1>12. QED
  BY <1>1, <1>2, <1>3, <1>4, <1>5, <1>6, <1>7, <1>8, <1>9, <1>10, <1>11 DEF LockStep, OwnStep

\* The service keeps an undisturbed run undisturbed, or disturbs it.
LEMMA UndisturbedService ==
  ASSUME ServiceInv, ServiceInv', ScenarioTypeOK, OnlyHostIf, UndisturbedInv, ServiceStep
  PROVE  UndisturbedInv'
<1> SUFFICES ASSUME Running', ~disturbed'
             PROVE  UndisturbedInv'
  BY DEF UndisturbedInv
<1>1. Running /\ ~disturbed /\ phase' = phase /\ \A q \in Requests : q # slot => ~Meddles(q)'
  BY DEF ServiceStep, Running
<1>2. UNCHANGED <<stage, outcome, slot, peer, file, mounted, away, runs, litter>>
  BY DEF ServiceStep, nsName
<1>3. phase = "serving" /\ \A q \in Requests : Meddles(q) => q = slot
  BY <1>1 DEF UndisturbedInv
<1>4. PICK r \in Requests : (r # slot /\ Arrival(r)) \/ LockStep(r) \/ OwnStep(r)
  BY <1>1, <1>3 DEF ServiceStep, MainStep, CloseEnter, CloseLink, CloseObjects, MainReturns,
    Signal, Killed, ProcessGone, Restart
<1>5. /\ UNCHANGED dev
      /\ attachments'[HostIf] \in {attachments[HostIf], dev[HostIf]}
      /\ dev[HostIf] # NoDev /\ Attached(HostIf) => attachments'[HostIf] # NoDev
  BY <1>4, RequestEntry DEF Attached
<1>6. CASE r # slot
  <2>1. ~Meddles(r) /\ blockedIps' = blockedIps
    BY <1>3, <1>4, <1>6, OthersKeepMap
  <2>2. slot # NoSlot => /\ slot \in Requests
                         /\ pc'[slot] = pc[slot] /\ call'[slot] = call[slot]
                         /\ answer'[slot] = answer[slot]
    BY <1>4, <1>6, OneAtATime DEF ScenarioTypeOK
  <2>3. QED
    BY <1>1, <1>2, <1>3, <1>5, <2>1, <2>2 DEF UndisturbedInv, Granted, Attached, Using, Asked
<1>7. CASE r = slot
  <2>1. stage \in Posts /\ slot # NoSlot /\ slot \in Requests
    BY <1>7, ScenarioAssumption DEF ScenarioTypeOK
  <2>2. (LockStep(r) \/ OwnStep(r)) /\ pc[r] # "idle"
    <3>1. ASSUME Arrival(r)
          PROVE  r # slot \/ pc[r] # "idle"
      BY <1>4, <1>7, <3>1, OneAtATime DEF Arrival, Accept, Reject, LockStep, OwnStep, AttachAgain,
        EnsureObjects, EnsureObjectsFails, BlockUpdate, BlockMapFull, ClearCollect,
        ClearCollectFails,
        RefuseUnattached, LookupFound, LookupMissing, AttachXdp, AttachXdpFails, ClearDelete,
        ClearDeleteFails,
        ClearReturn, At
    <3>2. QED
      BY <1>4, <1>7, <3>1, OneAtATime
  <2>3. /\ call[r] = Asked(stage) /\ dev[HostIf] # NoDev
        /\ attachments[HostIf] \in {NoDev, dev[HostIf]}
        /\ stage # "attach" => Attached(HostIf)
    BY <1>1, <1>7, <2>1, <2>2 DEF UndisturbedInv, Posts, Using
  <2>4. /\ IF pc'[r] = "idle" THEN answer'[r] \in {"ok", "failed"} ELSE call'[r] = Asked(stage)
        /\ stage = "attach" => blockedIps' = blockedIps
        /\ pc'[r] = "idle" /\ answer'[r] = "ok" =>
             /\ stage = "attach" => attachments'[HostIf] # NoDev
             /\ stage = "block" => <<dev[HostIf], PeerIP>> \in blockedIps'
             /\ stage = "clear" => <<dev[HostIf], PeerIP>> \notin blockedIps'
    BY <2>1, <2>2, <2>3, OwnRequestStep
  <2>5. QED
    BY <1>1, <1>2, <1>3, <1>5, <1>7, <2>1, <2>3, <2>4
      DEF UndisturbedInv, Granted, Attached, Using, Asked, Posts
<1>8. QED
  BY <1>6, <1>7

-----------------------------------------------------------------------------
(* An undisturbed run, while the checker works *)

\* The index of a new interface is in no key of the map.
LEMMA NewIndexUnblocked ==
  ASSUME ServiceInv, NEW p
  PROVE  <<lastIfindex + 1, p>> \notin blockedIps
<1>1. SUFFICES ASSUME <<lastIfindex + 1, p>> \in blockedIps
               PROVE  FALSE
  OBVIOUS
<1>2. PICK n \in Names : attachments[n] = lastIfindex + 1
  BY <1>1 DEF ServiceInv, KeysReachable
<1>3. QED
  BY <1>2, DevType DEF ServiceInv, KernelInv

\* What a ping meets while the program runs.
LEMMA PingVerdict ==
  ASSUME dev[HostIf] \in progs
  PROVE  Passes <=> <<dev[HostIf], PeerIP>> \notin blockedIps
BY DEF Passes, Verdict, xdp_block

\* The checker's steps bring an undisturbed run one stage further.
LEMMA UndisturbedChecker ==
  ASSUME ServiceInv, ScenarioTypeOK, LeftoverInv, OnlyHostIf, UndisturbedInv,
         Launch \/ CheckerStep \/ NamespaceDies
  PROVE  UndisturbedInv'
<1> SUFFICES ASSUME Running', ~disturbed'
             PROVE  UndisturbedInv'
  BY DEF UndisturbedInv
<1> USE SequelValues, ScenarioAssumption
    DEF Running, Using, Posts, Goes, Fails, Elsewhere, Disturb, Granted, Meddles,
        Asked, Attached, ScenarioTypeOK, nsName
<1>1. CASE Launch
  BY <1>1 DEF Launch, UndisturbedInv, LeftoverInv, vars, requestVars
<1>2. CASE DeleteHost
  BY <1>2, DevType DEF DeleteHost, UndisturbedInv, DropPair, DeleteDevice, ServiceIdle,
    kernelVars, serviceVars, requestVars
<1>3. CASE UnmountName \/ RemoveName
  BY <1>3 DEF UnmountName, RemoveName, Unmounts, Removals, Skip, UndisturbedInv, vars,
    kernelVars, serviceVars, requestVars
<1>4. CASE NewNamespace \/ MountNamespace
  BY <1>4 DEF NewNamespace, MountNamespace, UndisturbedInv, vars, kernelVars, serviceVars,
    requestVars
<1>5. CASE LinkAdd
  <2>1. dev[HostIf] = NoDev /\ ~disturbed /\ attachments[HostIf] = NoDev
    BY <1>5 DEF LinkAdd, UndisturbedInv
  <2>2. dev'[HostIf] = lastIfindex + 1 /\ dev'[HostIf] # NoDev
    BY <1>5, <2>1, DevType DEF LinkAdd, CreateDevice, NoDev
  <2>3. <<dev'[HostIf], PeerIP>> \notin blockedIps
    BY <2>2, NewIndexUnblocked
  <2>4. QED
    BY <1>5, <2>1, <2>2, <2>3 DEF LinkAdd, UndisturbedInv, ServiceIdle, serviceVars, requestVars
<1>6. CASE MovePeer \/ Configure
  BY <1>6 DEF MovePeer, Configure, UndisturbedInv, vars, kernelVars, serviceVars, requestVars
<1>7. ASSUME NEW r \in Requests, Post(r)
      PROVE  UndisturbedInv'
  <2>1. pc'[r] # "idle" /\ call'[r] = Asked(stage)
        /\ \A q \in Requests \ {r} : call'[q] = call[q]
    BY <1>7 DEF Post, Accept, ServiceInv, TypeOK
  <2>2. UNCHANGED <<dev, attachments, blockedIps, phase>>
    BY <1>7 DEF Post, Accept, kernelVars, serviceVars
  <2>3. QED
    BY <1>7, <2>1, <2>2 DEF Post, UndisturbedInv
<1>8. CASE Answered
  <2>1. Running /\ ~disturbed /\ answer[slot] = "ok"
    BY <1>8 DEF Answered, UndisturbedInv
  <2>2. slot \in Requests /\ call[slot] = NoCall
    BY <1>8 DEF Answered, ServiceInv, RequestInv
  <2>3. QED
    BY <1>8, <2>1, <2>2 DEF Answered, UndisturbedInv, vars, kernelVars, serviceVars, requestVars
<1>9. CASE VerifyAttached
  <2>1. dev[HostIf] \in progs
    BY <1>9 DEF VerifyAttached, UndisturbedInv, ServiceInv, LinksLive, Devices
  <2>2. QED
    BY <1>9, <2>1 DEF VerifyAttached, UndisturbedInv, vars, kernelVars, serviceVars, requestVars
<1>10. CASE Ping
  <2>1. dev[HostIf] \in progs /\ mounted /\ peer = "space"
    BY <1>10 DEF Ping, Pings, UndisturbedInv, ServiceInv, LinksLive, Devices, LeftoverInv
  <2>2. Replies <=> stage # "pingBlocked"
    BY <1>10, <2>1, PingVerdict DEF Ping, Pings, Replies, UndisturbedInv
  <2>3. QED
    BY <1>10, <2>1, <2>2 DEF Ping, Pings, Concludes, UndisturbedInv, vars, kernelVars,
      serviceVars, requestVars
<1>11. CASE NamespaceDies
  BY <1>11, DevType DEF NamespaceDies, UndisturbedInv, LeftoverInv, ServiceIdle, DeleteDevice,
    serviceVars, requestVars
<1>12. ~ (\/ DeletionFails \/ MountFails \/ NewNamespaceStays \/ CallFails \/ Refused \/ Timeout
          \/ PingFails \/ PingStrays \/ End)
  BY DEF DeletionFails, MountFails, NewNamespaceStays, CallFails, Refused, Timeout, PingFails,
    PingStrays, End
<1>13. ~DeleteHostAstray
  BY DEF DeleteHostAstray, UndisturbedInv
<1>14. QED
  BY <1>1, <1>2, <1>3, <1>4, <1>5, <1>6, <1>7, <1>8, <1>9, <1>10, <1>11, <1>12, <1>13
    DEF CheckerStep

\* A run fails only when it is disturbed.
LEMMA HonestStep ==
  ASSUME ScenarioTypeOK, UndisturbedInv', ScenarioHonest, [ScenarioNext]_scenarioVars
  PROVE  ScenarioHonest'
<1> USE DEF ScenarioHonest
<1>1. CASE outcome' = "failing"
  BY <1>1 DEF UndisturbedInv, Running
<1>2. CASE outcome' = "failed" /\ End
  BY <1>2 DEF End, ScenarioTypeOK, Running
<1>3. CASE outcome' = "failed" /\ ServiceStep
  BY <1>3 DEF ServiceStep
<1>4. CASE outcome' = "failed" /\ ~End /\ ~ServiceStep
  BY <1>4 DEF ScenarioNext, CheckerStep, Launch, Kill, DeleteHost, DeleteHostAstray, UnmountName,
    RemoveName,
    DeletionFails, NewNamespace, MountNamespace,
    MountFails, NewNamespaceStays, LinkAdd, MovePeer, Configure, CallFails, Post,
    Refused, Answered, Timeout, VerifyAttached, Ping, PingFails, PingStrays, Concludes, Goes,
    Skip, Fails, Disturb, NamespaceDies, scenarioVars, checkerVars
<1>5. QED
  BY <1>1, <1>2, <1>3, <1>4

-----------------------------------------------------------------------------
(* The theorems *)

\* The invariant holds at the start.
LEMMA ScenarioInitInv ==
  ScenarioInit => OnlyHostIf /\ UndisturbedInv /\ ScenarioHonest /\ VerifiedIsLive
BY DEF ScenarioInit, Init, KernelInit, OnlyHostIf, UndisturbedInv, ScenarioHonest, VerifiedIsLive,
  Running, NoDev

\* Kept by every step.
LEMMA UndisturbedStep ==
  ASSUME ServiceInv, ServiceInv', ScenarioTypeOK, LeftoverInv, OnlyHostIf, UndisturbedInv,
         [ScenarioNext]_scenarioVars
  PROVE  UndisturbedInv'
<1>1. CASE Kill
  BY <1>1 DEF Kill, UndisturbedInv, Running
<1>2. CASE UNCHANGED scenarioVars
  BY <1>2 DEF scenarioVars, checkerVars, nsName, vars, kernelVars, serviceVars, requestVars,
    UndisturbedInv, Running, Meddles, Granted, Attached
<1>3. QED
  BY <1>1, <1>2, UndisturbedService, UndisturbedChecker DEF ScenarioNext

\* The inductive invariant of checker and service together.
THEOREM ScenarioInvariant == ScenarioSpec => []ScenarioInv
<1>1. /\ ServiceInv /\ ServiceInv' /\ ScenarioTypeOK /\ LeftoverInv
      /\ OnlyHostIf /\ UndisturbedInv /\ ScenarioHonest /\ VerifiedIsLive
      /\ [ScenarioNext]_scenarioVars
      => OnlyHostIf' /\ UndisturbedInv' /\ ScenarioHonest' /\ VerifiedIsLive'
  BY OnlyHostIfStep, UndisturbedStep, HonestStep, VerifiedStep
<1>2. ScenarioTypeOK /\ LeftoverInv /\ OnlyHostIf /\ UndisturbedInv /\ ScenarioHonest
      /\ VerifiedIsLive => ScenarioInv
  BY DEF ScenarioInv
<1>3. QED
  BY <1>1, <1>2, ScenarioInitInv, ScenarioServiceInv, ScenarioTypeCorrect, PTL DEF ScenarioSpec

\* A checker that reports a failure does so for a reason outside the service,
\* whatever other clients attach and whatever earlier runs left behind, an empty
\* file of the namespace's name excepted.
THEOREM CheckerIsHonest == ScenarioSpec => []ScenarioHonest
<1>1. ScenarioInv => ScenarioHonest
  BY DEF ScenarioInv
<1>2. QED
  BY <1>1, ScenarioInvariant, PTL

\* Once verified, the entry of the table is the interface of this run.
THEOREM CheckerIsLive == ScenarioSpec => []VerifiedIsLive
<1>1. ScenarioInv => VerifiedIsLive
  BY DEF ScenarioInv
<1>2. QED
  BY <1>1, ScenarioInvariant, PTL
=============================================================================

------------------------- MODULE XdpService_proofs -------------------------
(***************************************************************************)
(* Proofs about XdpService for every set of names, addresses and requests, *)
(* and every bound on interfaces and map entries, in four parts: the       *)
(* inductive invariant ServiceInv and the invariants that follow from it;  *)
(* what no step may do; what success means while interfaces stay; and that *)
(* the service implements XdpPolicy.                                       *)
(*                                                                         *)
(* One lemma per action shows that the action preserves ServiceInv; in     *)
(* each, the first step settles the parts the action cannot disturb.       *)
(***************************************************************************)
EXTENDS XdpService, TLAPS

\* What the handlers decode and validate is a call of the service.
LEMMA ValidCallsType == ValidCalls \subseteq Calls
<1>1. ASSUME NEW m \in Messages, Valid(m)
      PROVE  CallOf(m) \in Calls
  BY <1>1 DEF Calls, Valid, ValidateIfName, ParseIPv4, CallOf, Messages, Texts
<1>2. QED
  BY <1>1 DEF ValidCalls

\* A request arrives.
LEMMA AcceptStep ==
  ASSUME ServiceInv, NEW r \in Requests, NEW c \in Calls, Accept(r, c)
  PROVE  ServiceInv'
<1> USE HoldersAssumption, NoCallAssumption, NoIPAssumption
    DEF ServiceInv, TypeOK, MutexHeld, RequestInv, At, Attached, LockFree, Accept, kernelVars, serviceVars
<1>1. KernelInv' /\ LinksLive' /\ DistinctInterfaces' /\ KeysReachable' /\ ProgramsOwned' /\ ObjectsPresent'
  BY DEF KernelInv, Devices, LinksLive, DistinctInterfaces, KeysReachable, ProgramsOwned, ObjectsPresent
<1>2. TypeOK'
  BY DEF KernelTypeOK, Keys, Ifindex, Answers, Phases, Calls, NoDev
<1>3. MutexHeld'
  BY DEF MutexHeld
<1>4. RequestInv'
  BY DEF Calls, NoDev, KeysForInterface
<1>5. QED
  BY <1>1, <1>2, <1>3, <1>4

\* A request is turned away before the service sees it.
LEMMA RejectStep ==
  ASSUME ServiceInv, NEW r \in Requests, Reject(r)
  PROVE  ServiceInv'
<1> USE HoldersAssumption, NoCallAssumption, NoIPAssumption
    DEF ServiceInv, TypeOK, MutexHeld, RequestInv, At, Attached, LockFree, Reject, kernelVars, serviceVars
<1>1. KernelInv' /\ LinksLive' /\ MutexHeld' /\ RequestInv' /\ DistinctInterfaces' /\ KeysReachable' /\ ProgramsOwned' /\ ObjectsPresent'
  BY DEF KernelInv, Devices, LinksLive, MutexHeld, RequestInv, NoDev, KeysForInterface, DistinctInterfaces, KeysReachable, ProgramsOwned, ObjectsPresent
<1>2. TypeOK'
  BY DEF KernelTypeOK, Keys, Ifindex, Answers, Phases, Calls, NoDev
<1>3. QED
  BY <1>1, <1>2

\* Attach finds the interface.
LEMMA LookupFoundStep ==
  ASSUME ServiceInv, NEW r \in Requests, LookupFound(r)
  PROVE  ServiceInv'
<1> USE HoldersAssumption, NoCallAssumption, NoIPAssumption
    DEF ServiceInv, TypeOK, MutexHeld, RequestInv, At, Attached, LockFree, LookupFound, kernelVars, serviceVars
<1>1. KernelInv' /\ LinksLive' /\ DistinctInterfaces' /\ KeysReachable' /\ ProgramsOwned' /\ ObjectsPresent'
  BY DEF KernelInv, Devices, LinksLive, DistinctInterfaces, KeysReachable, ProgramsOwned, ObjectsPresent
<1>2. TypeOK'
  BY DEF KernelTypeOK, Keys, Ifindex, Answers, Phases, Calls, NoDev
<1>3. MutexHeld'
  BY DEF MutexHeld
<1>4. RequestInv'
  BY DEF RequestInv, NoDev, KeysForInterface
<1>5. QED
  BY <1>1, <1>2, <1>3, <1>4

\* Attach finds no interface.
LEMMA LookupMissingStep ==
  ASSUME ServiceInv, NEW r \in Requests, LookupMissing(r)
  PROVE  ServiceInv'
<1> USE HoldersAssumption, NoCallAssumption, NoIPAssumption
    DEF ServiceInv, TypeOK, MutexHeld, RequestInv, At, Attached, LockFree, LookupMissing, Return, kernelVars, serviceVars
<1>1. KernelInv' /\ LinksLive' /\ DistinctInterfaces' /\ KeysReachable' /\ ProgramsOwned' /\ ObjectsPresent'
  BY DEF KernelInv, Devices, LinksLive, DistinctInterfaces, KeysReachable, ProgramsOwned, ObjectsPresent
<1>2. TypeOK'
  BY DEF KernelTypeOK, Keys, Ifindex, Answers, Phases, Calls, NoDev
<1>3. MutexHeld'
  BY DEF MutexHeld
<1>4. RequestInv'
  BY DEF RequestInv, NoDev, KeysForInterface
<1>5. QED
  BY <1>1, <1>2, <1>3, <1>4

\* Attach of a name already in the table.
LEMMA AttachAgainStep ==
  ASSUME ServiceInv, NEW r \in Requests, AttachAgain(r)
  PROVE  ServiceInv'
<1> USE HoldersAssumption, NoCallAssumption, NoIPAssumption
    DEF ServiceInv, TypeOK, MutexHeld, RequestInv, At, Attached, LockFree, AttachAgain, Return, kernelVars, serviceVars
<1>1. KernelInv' /\ LinksLive' /\ DistinctInterfaces' /\ KeysReachable' /\ ProgramsOwned' /\ ObjectsPresent'
  BY DEF KernelInv, Devices, LinksLive, DistinctInterfaces, KeysReachable, ProgramsOwned, ObjectsPresent
<1>2. TypeOK'
  BY DEF KernelTypeOK, Keys, Ifindex, Answers, Phases, Calls, NoDev
<1>3. MutexHeld'
  BY DEF MutexHeld
<1>4. RequestInv'
  BY DEF RequestInv, NoDev, KeysForInterface
<1>5. QED
  BY <1>1, <1>2, <1>3, <1>4

\* The objects cannot be loaded.
LEMMA EnsureObjectsFailsStep ==
  ASSUME ServiceInv, NEW r \in Requests, EnsureObjectsFails(r)
  PROVE  ServiceInv'
<1> USE HoldersAssumption, NoCallAssumption, NoIPAssumption
    DEF ServiceInv, TypeOK, MutexHeld, RequestInv, At, Attached, LockFree, EnsureObjectsFails, Return, kernelVars, serviceVars
<1>1. KernelInv' /\ LinksLive' /\ DistinctInterfaces' /\ KeysReachable' /\ ProgramsOwned' /\ ObjectsPresent'
  BY DEF KernelInv, Devices, LinksLive, DistinctInterfaces, KeysReachable, ProgramsOwned, ObjectsPresent
<1>2. TypeOK'
  BY DEF KernelTypeOK, Keys, Ifindex, Answers, Phases, Calls, NoDev
<1>3. MutexHeld'
  BY DEF MutexHeld
<1>4. RequestInv'
  BY DEF RequestInv, NoDev, KeysForInterface
<1>5. QED
  BY <1>1, <1>2, <1>3, <1>4

\* The kernel refuses to attach.
LEMMA AttachXdpFailsStep ==
  ASSUME ServiceInv, NEW r \in Requests, AttachXdpFails(r)
  PROVE  ServiceInv'
<1> USE HoldersAssumption, NoCallAssumption, NoIPAssumption
    DEF ServiceInv, TypeOK, MutexHeld, RequestInv, At, Attached, LockFree, AttachXdpFails, Return, kernelVars, serviceVars
<1>1. KernelInv' /\ LinksLive' /\ DistinctInterfaces' /\ KeysReachable' /\ ProgramsOwned' /\ ObjectsPresent'
  BY DEF KernelInv, Devices, LinksLive, DistinctInterfaces, KeysReachable, ProgramsOwned, ObjectsPresent
<1>2. TypeOK'
  BY DEF KernelTypeOK, Keys, Ifindex, Answers, Phases, Calls, NoDev
<1>3. MutexHeld'
  BY DEF MutexHeld
<1>4. RequestInv'
  BY DEF RequestInv, NoDev, KeysForInterface
<1>5. QED
  BY <1>1, <1>2, <1>3, <1>4

\* Block meets a full map.
LEMMA BlockMapFullStep ==
  ASSUME ServiceInv, NEW r \in Requests, BlockMapFull(r)
  PROVE  ServiceInv'
<1> USE HoldersAssumption, NoCallAssumption, NoIPAssumption
    DEF ServiceInv, TypeOK, MutexHeld, RequestInv, At, Attached, LockFree, BlockMapFull, Return, kernelVars, serviceVars
<1>1. KernelInv' /\ LinksLive' /\ DistinctInterfaces' /\ KeysReachable' /\ ProgramsOwned' /\ ObjectsPresent'
  BY DEF KernelInv, Devices, LinksLive, DistinctInterfaces, KeysReachable, ProgramsOwned, ObjectsPresent
<1>2. TypeOK'
  BY DEF KernelTypeOK, Keys, Ifindex, Answers, Phases, Calls, NoDev
<1>3. MutexHeld'
  BY DEF MutexHeld
<1>4. RequestInv'
  BY DEF RequestInv, NoDev, KeysForInterface
<1>5. QED
  BY <1>1, <1>2, <1>3, <1>4

\* Block or Clear of a name that is not attached.
LEMMA RefuseUnattachedStep ==
  ASSUME ServiceInv, NEW r \in Requests, RefuseUnattached(r)
  PROVE  ServiceInv'
<1> USE HoldersAssumption, NoCallAssumption, NoIPAssumption
    DEF ServiceInv, TypeOK, MutexHeld, RequestInv, At, Attached, LockFree, RefuseUnattached, Return, kernelVars, serviceVars
<1>1. KernelInv' /\ LinksLive' /\ DistinctInterfaces' /\ KeysReachable' /\ ProgramsOwned' /\ ObjectsPresent'
  BY DEF KernelInv, Devices, LinksLive, DistinctInterfaces, KeysReachable, ProgramsOwned, ObjectsPresent
<1>2. TypeOK'
  BY DEF KernelTypeOK, Keys, Ifindex, Answers, Phases, Calls, NoDev
<1>3. MutexHeld'
  BY DEF MutexHeld
<1>4. RequestInv'
  BY DEF RequestInv, NoDev, KeysForInterface
<1>5. QED
  BY <1>1, <1>2, <1>3, <1>4

\* Clear cannot read the map.
LEMMA ClearCollectFailsStep ==
  ASSUME ServiceInv, NEW r \in Requests, ClearCollectFails(r)
  PROVE  ServiceInv'
<1> USE HoldersAssumption, NoCallAssumption, NoIPAssumption
    DEF ServiceInv, TypeOK, MutexHeld, RequestInv, At, Attached, LockFree, ClearCollectFails, Return, kernelVars, serviceVars
<1>1. KernelInv' /\ LinksLive' /\ DistinctInterfaces' /\ KeysReachable' /\ ProgramsOwned' /\ ObjectsPresent'
  BY DEF KernelInv, Devices, LinksLive, DistinctInterfaces, KeysReachable, ProgramsOwned, ObjectsPresent
<1>2. TypeOK'
  BY DEF KernelTypeOK, Keys, Ifindex, Answers, Phases, Calls, NoDev
<1>3. MutexHeld'
  BY DEF MutexHeld
<1>4. RequestInv'
  BY DEF RequestInv, NoDev, KeysForInterface
<1>5. QED
  BY <1>1, <1>2, <1>3, <1>4

\* Clear cannot delete a key it collected.
LEMMA ClearDeleteFailsStep ==
  ASSUME ServiceInv, NEW r \in Requests, ClearDeleteFails(r)
  PROVE  ServiceInv'
<1> USE HoldersAssumption, NoCallAssumption, NoIPAssumption
    DEF ServiceInv, TypeOK, MutexHeld, RequestInv, At, Attached, LockFree, ClearDeleteFails, Return, kernelVars, serviceVars
<1>1. KernelInv' /\ LinksLive' /\ DistinctInterfaces' /\ KeysReachable' /\ ProgramsOwned' /\ ObjectsPresent'
  BY DEF KernelInv, Devices, LinksLive, DistinctInterfaces, KeysReachable, ProgramsOwned, ObjectsPresent
<1>2. TypeOK'
  BY DEF KernelTypeOK, Keys, Ifindex, Answers, Phases, Calls, NoDev
<1>3. MutexHeld'
  BY DEF MutexHeld
<1>4. RequestInv'
  BY DEF RequestInv, NoDev, KeysForInterface
<1>5. QED
  BY <1>1, <1>2, <1>3, <1>4

\* Clear has deleted all it collected.
LEMMA ClearReturnStep ==
  ASSUME ServiceInv, NEW r \in Requests, ClearReturn(r)
  PROVE  ServiceInv'
<1> USE HoldersAssumption, NoCallAssumption, NoIPAssumption
    DEF ServiceInv, TypeOK, MutexHeld, RequestInv, At, Attached, LockFree, ClearReturn, Return, kernelVars, serviceVars
<1>1. KernelInv' /\ LinksLive' /\ DistinctInterfaces' /\ KeysReachable' /\ ProgramsOwned' /\ ObjectsPresent'
  BY DEF KernelInv, Devices, LinksLive, DistinctInterfaces, KeysReachable, ProgramsOwned, ObjectsPresent
<1>2. TypeOK'
  BY DEF KernelTypeOK, Keys, Ifindex, Answers, Phases, Calls, NoDev
<1>3. MutexHeld'
  BY DEF MutexHeld
<1>4. RequestInv'
  BY DEF RequestInv, NoDev, KeysForInterface
<1>5. QED
  BY <1>1, <1>2, <1>3, <1>4

\* Attach enters the critical section and has the objects.
LEMMA EnsureObjectsStep ==
  ASSUME ServiceInv, NEW r \in Requests, EnsureObjects(r)
  PROVE  ServiceInv'
<1> USE HoldersAssumption, NoCallAssumption, NoIPAssumption
    DEF ServiceInv, TypeOK, MutexHeld, RequestInv, At, Attached, LockFree, EnsureObjects, kernelVars
<1>1. KernelInv' /\ LinksLive' /\ DistinctInterfaces' /\ KeysReachable' /\ ProgramsOwned'
  BY DEF KernelInv, Devices, LinksLive, DistinctInterfaces, KeysReachable, ProgramsOwned
<1>2. TypeOK'
  BY DEF KernelTypeOK, Keys, Ifindex, Answers, Phases, Calls, NoDev
<1>3. MutexHeld'
  BY DEF MutexHeld
<1>4. RequestInv'
  BY DEF RequestInv, NoDev, KeysForInterface
<1>5. ObjectsPresent'
  BY DEF ObjectsPresent
<1>6. QED
  BY <1>1, <1>2, <1>3, <1>4, <1>5

\* The program is attached and the table says so.  The interface was live and
\* carried no program, so by LinksLive no other name of the table owns it.
LEMMA AttachXdpStep ==
  ASSUME ServiceInv, NEW r \in Requests, AttachXdp(r)
  PROVE  ServiceInv'
<1> USE HoldersAssumption, NoCallAssumption, NoIPAssumption
    DEF ServiceInv, TypeOK, MutexHeld, RequestInv, At, Attached, LockFree, AttachXdp, Return, kernelVars, serviceVars
<1>1. ObjectsPresent'
  BY DEF ObjectsPresent
<1>2. /\ iface[r] \in Ifindex /\ iface[r] # NoDev /\ iface[r] \in Devices /\ iface[r] \notin progs
     /\ call[r].name \in Names
  BY DEF CanAttach, Calls, Devices, NoDev
<1>3. TypeOK'
  BY <1>2 DEF KernelTypeOK, Answers, Keys
<1>4. KernelInv'
  <2>1. iface[r] <= lastIfindex
    BY <1>2 DEF KernelInv, Devices
  <2>2. Devices' = Devices
    BY DEF Devices
  <2>3. QED
    BY <1>2, <2>1, <2>2 DEF KernelInv
<1>5. LinksLive'
  <2>1. Devices' = Devices
    BY DEF Devices
  <2>2. QED
    BY <1>2, <2>1 DEF LinksLive, NoDev
<1>6. MutexHeld'
  BY DEF MutexHeld
<1>7. RequestInv'
  BY <1>2 DEF Calls, NoDev, KeysForInterface
<1>8. DistinctInterfaces'
  <2>1. \A n \in Names : attachments[n] # iface[r]
    BY <1>2 DEF LinksLive
  <2>2. QED
    BY <1>2, <2>1 DEF DistinctInterfaces
<1>9. KeysReachable'
  <2>1. \A k \in blockedIps : k[1] # NoDev
    BY DEF Keys, Ifindex, NoDev
  <2>2. QED
    BY <1>2, <2>1 DEF KeysReachable
<1>10. ProgramsOwned'
  <2>1. \A i \in progs : i # NoDev
    BY DEF KernelTypeOK, Ifindex, NoDev
  <2>2. QED
    BY <1>2, <2>1 DEF ProgramsOwned
<1>11. QED
  BY <1>1, <1>2, <1>3, <1>4, <1>5, <1>6, <1>7, <1>8, <1>9, <1>10

\* Block adds the key of the table's interface.
LEMMA BlockUpdateStep ==
  ASSUME ServiceInv, NEW r \in Requests, BlockUpdate(r)
  PROVE  ServiceInv'
<1> USE HoldersAssumption, NoCallAssumption, NoIPAssumption
    DEF ServiceInv, TypeOK, MutexHeld, RequestInv, At, Attached, LockFree, BlockUpdate, BlockKey, Return, kernelVars, serviceVars
<1>1. KernelInv' /\ LinksLive' /\ DistinctInterfaces' /\ ProgramsOwned' /\ ObjectsPresent'
  BY DEF KernelInv, Devices, LinksLive, DistinctInterfaces, ProgramsOwned, ObjectsPresent
<1>2. /\ call[r].name \in Names /\ call[r].ip \in IPs
     /\ attachments[call[r].name] \in Ifindex
  BY DEF Calls
<1>3. TypeOK'
  BY <1>2 DEF KernelTypeOK, Keys, Answers
<1>4. MutexHeld'
  BY DEF MutexHeld
<1>5. RequestInv'
  BY DEF RequestInv, NoDev, KeysForInterface
<1>6. KeysReachable'
  <2>1. blockedIps' = blockedIps \cup {<<attachments[call[r].name], call[r].ip>>}
    OBVIOUS
  <2>2. QED
    BY <1>2, <2>1 DEF KeysReachable
<1>7. QED
  BY <1>1, <1>2, <1>3, <1>4, <1>5, <1>6

\* Clear collects the keys of its interface.
LEMMA ClearCollectStep ==
  ASSUME ServiceInv, NEW r \in Requests, ClearCollect(r)
  PROVE  ServiceInv'
<1> USE HoldersAssumption, NoCallAssumption, NoIPAssumption
    DEF ServiceInv, TypeOK, MutexHeld, RequestInv, At, Attached, LockFree, ClearCollect, KeysForInterface, kernelVars, serviceVars
<1>1. KernelInv' /\ LinksLive' /\ DistinctInterfaces' /\ KeysReachable' /\ ProgramsOwned' /\ ObjectsPresent'
  BY DEF KernelInv, Devices, LinksLive, DistinctInterfaces, KeysReachable, ProgramsOwned, ObjectsPresent
<1>2. TypeOK'
  BY DEF KernelTypeOK, Keys, Ifindex, Answers, Phases, Calls, NoDev
<1>3. MutexHeld'
  BY DEF MutexHeld
<1>4. RequestInv'
  BY DEF RequestInv, NoDev, KeysForInterface
<1>5. QED
  BY <1>1, <1>2, <1>3, <1>4

\* Clear deletes one of them.
LEMMA ClearDeleteStep ==
  ASSUME ServiceInv, NEW r \in Requests, NEW k \in left[r], ClearDelete(r, k)
  PROVE  ServiceInv'
<1> USE HoldersAssumption, NoCallAssumption, NoIPAssumption
    DEF ServiceInv, TypeOK, MutexHeld, RequestInv, At, Attached, LockFree, ClearDelete, kernelVars, serviceVars
<1>1. KernelInv' /\ LinksLive' /\ MutexHeld' /\ DistinctInterfaces' /\ ProgramsOwned' /\ ObjectsPresent'
  BY DEF KernelInv, Devices, LinksLive, MutexHeld, DistinctInterfaces, ProgramsOwned, ObjectsPresent
<1>2. TypeOK'
  BY DEF KernelTypeOK, Keys, Ifindex, Answers, Phases, Calls, NoDev
<1>3. RequestInv'
  BY DEF RequestInv, NoDev, KeysForInterface
<1>4. KeysReachable'
  BY DEF KeysReachable
<1>5. QED
  BY <1>1, <1>2, <1>3, <1>4

\* The process is told to stop.
LEMMA SignalStep ==
  ASSUME ServiceInv, Signal
  PROVE  ServiceInv'
<1> USE HoldersAssumption, NoCallAssumption, NoIPAssumption
    DEF ServiceInv, TypeOK, MutexHeld, RequestInv, At, Attached, LockFree, Signal, kernelVars, serviceVars, requestVars
<1>1. KernelInv' /\ RequestInv' /\ DistinctInterfaces' /\ KeysReachable' /\ ProgramsOwned' /\ ObjectsPresent'
  BY DEF KernelInv, Devices, RequestInv, NoDev, KeysForInterface, DistinctInterfaces, KeysReachable, ProgramsOwned, ObjectsPresent
<1>2. TypeOK'
  BY DEF KernelTypeOK, Keys, Ifindex, Answers, Phases, Calls, NoDev
<1>3. LinksLive'
  BY DEF LinksLive, Devices
<1>4. MutexHeld'
  BY DEF MutexHeld
<1>5. QED
  BY <1>1, <1>2, <1>3, <1>4

\* Close takes the mutex.
LEMMA CloseEnterStep ==
  ASSUME ServiceInv, CloseEnter
  PROVE  ServiceInv'
<1> USE HoldersAssumption, NoCallAssumption, NoIPAssumption
    DEF ServiceInv, TypeOK, MutexHeld, RequestInv, At, Attached, LockFree, CloseEnter, kernelVars, serviceVars, requestVars
<1>1. KernelInv' /\ RequestInv' /\ DistinctInterfaces' /\ KeysReachable' /\ ProgramsOwned' /\ ObjectsPresent'
  BY DEF KernelInv, Devices, RequestInv, NoDev, KeysForInterface, DistinctInterfaces, KeysReachable, ProgramsOwned, ObjectsPresent
<1>2. TypeOK'
  BY DEF KernelTypeOK, Keys, Ifindex, Answers, Phases, Calls, NoDev
<1>3. LinksLive'
  BY DEF LinksLive, Devices
<1>4. MutexHeld'
  BY DEF MutexHeld
<1>5. QED
  BY <1>1, <1>2, <1>3, <1>4

\* Close detaches one program.
LEMMA CloseLinkStep ==
  ASSUME ServiceInv, NEW n \in Names, CloseLink(n)
  PROVE  ServiceInv'
<1> USE HoldersAssumption, NoCallAssumption, NoIPAssumption
    DEF ServiceInv, TypeOK, MutexHeld, RequestInv, At, Attached, LockFree, CloseLink, serviceVars, requestVars
<1>1. MutexHeld' /\ RequestInv' /\ DistinctInterfaces' /\ KeysReachable' /\ ObjectsPresent'
  BY DEF MutexHeld, RequestInv, NoDev, KeysForInterface, DistinctInterfaces, KeysReachable, ObjectsPresent
<1>2. TypeOK'
  BY DEF KernelTypeOK, Keys, Ifindex, Answers, Phases, Calls, NoDev
<1>3. KernelInv'
  BY DEF KernelInv, Devices
<1>4. LinksLive'
  BY DEF LinksLive, Devices
<1>5. ProgramsOwned'
  BY DEF ProgramsOwned
<1>6. QED
  BY <1>1, <1>2, <1>3, <1>4, <1>5

\* Close empties the table and drops the map.
LEMMA CloseObjectsStep ==
  ASSUME ServiceInv, CloseObjects
  PROVE  ServiceInv'
<1> USE HoldersAssumption, NoCallAssumption, NoIPAssumption
    DEF ServiceInv, TypeOK, MutexHeld, RequestInv, At, Attached, LockFree, CloseObjects, LinksClosed, kernelVars, requestVars
<1>1. TypeOK'
  BY DEF KernelTypeOK, Keys, Ifindex, Answers, Phases, Calls, NoDev
<1>2. KernelInv'
  BY DEF KernelInv, Devices, KernelTypeOK, NoDev, Ifindex
<1>3. LinksLive'
  BY DEF LinksLive, Devices
<1>4. MutexHeld'
  BY DEF MutexHeld
<1>5. RequestInv'
  BY DEF RequestInv, NoDev, KeysForInterface
<1>6. DistinctInterfaces'
  BY DEF DistinctInterfaces
<1>7. KeysReachable'
  BY DEF KeysReachable
<1>8. ProgramsOwned'
  BY DEF ProgramsOwned
<1>9. ObjectsPresent'
  BY DEF ObjectsPresent
<1>10. QED
  BY <1>1, <1>2, <1>3, <1>4, <1>5, <1>6, <1>7, <1>8, <1>9

\* The process is gone.
LEMMA ProcessGoneStep ==
  ASSUME ServiceInv, ProcessGone
  PROVE  ServiceInv'
<1> USE HoldersAssumption, NoCallAssumption, NoIPAssumption
    DEF ServiceInv, TypeOK, MutexHeld, RequestInv, At, Attached, LockFree, ProcessGone
<1>1. TypeOK'
  BY DEF KernelTypeOK, Keys, Ifindex, Answers, Phases, Calls, NoDev
<1>2. KernelInv'
  BY DEF KernelInv, Devices, KernelTypeOK, NoDev, Ifindex
<1>3. LinksLive'
  BY DEF LinksLive, Devices
<1>4. MutexHeld'
  BY DEF MutexHeld
<1>5. RequestInv'
  BY DEF RequestInv, NoDev, KeysForInterface
<1>6. DistinctInterfaces'
  BY DEF DistinctInterfaces
<1>7. KeysReachable'
  BY DEF KeysReachable
<1>8. ProgramsOwned'
  BY DEF ProgramsOwned
<1>9. ObjectsPresent'
  BY DEF ObjectsPresent
<1>10. QED
  BY <1>1, <1>2, <1>3, <1>4, <1>5, <1>6, <1>7, <1>8, <1>9

\* A new process starts.
LEMMA RestartStep ==
  ASSUME ServiceInv, Restart
  PROVE  ServiceInv'
<1> USE HoldersAssumption, NoCallAssumption, NoIPAssumption
    DEF ServiceInv, TypeOK, MutexHeld, RequestInv, At, Attached, LockFree, Restart, kernelVars, serviceVars, requestVars
<1>1. KernelInv' /\ RequestInv' /\ DistinctInterfaces' /\ KeysReachable' /\ ProgramsOwned' /\ ObjectsPresent'
  BY DEF KernelInv, Devices, RequestInv, NoDev, KeysForInterface, DistinctInterfaces, KeysReachable, ProgramsOwned, ObjectsPresent
<1>2. TypeOK'
  BY DEF KernelTypeOK, Keys, Ifindex, Answers, Phases, Calls, NoDev
<1>3. LinksLive'
  BY DEF LinksLive, Devices
<1>4. MutexHeld'
  BY DEF MutexHeld
<1>5. QED
  BY <1>1, <1>2, <1>3, <1>4

\* An interface appears.  Its index is larger than any the table holds.
LEMMA CreateDeviceStep ==
  ASSUME ServiceInv, NEW n \in Names, CreateDevice(n),
         UNCHANGED <<serviceVars, mu, phase, requestVars>>
  PROVE  ServiceInv'
<1> USE HoldersAssumption, NoCallAssumption, NoIPAssumption
    DEF ServiceInv, TypeOK, MutexHeld, RequestInv, At, Attached, LockFree, CreateDevice, serviceVars, requestVars
<1>1. MutexHeld' /\ RequestInv' /\ DistinctInterfaces' /\ KeysReachable' /\ ProgramsOwned' /\ ObjectsPresent'
  BY DEF MutexHeld, RequestInv, NoDev, KeysForInterface, DistinctInterfaces, KeysReachable, ProgramsOwned, ObjectsPresent
<1>2. lastIfindex \in Nat /\ lastIfindex + 1 \in Ifindex /\ lastIfindex + 1 \in 0..MaxIfindex
  BY MaxIfindexAssumption DEF KernelTypeOK, Ifindex
<1>3. TypeOK'
  BY <1>2 DEF KernelTypeOK
<1>4. KernelInv'
  BY <1>2 DEF KernelInv, Devices, KernelTypeOK, NoDev, Ifindex
<1>5. LinksLive'
  <2>1. Devices' \subseteq Devices \cup {lastIfindex + 1}
    BY DEF Devices, KernelTypeOK
  <2>2. \A m \in Names : attachments[m] # lastIfindex + 1
    BY <1>2 DEF KernelInv, KernelTypeOK, Ifindex, NoDev
  <2>3. QED
    BY <2>1, <2>2 DEF LinksLive
<1>6. QED
  BY <1>1, <1>2, <1>3, <1>4, <1>5

\* An interface goes, and with it its program.
LEMMA DeleteDeviceStep ==
  ASSUME ServiceInv, NEW n \in Names, DeleteDevice(n),
         UNCHANGED <<serviceVars, mu, phase, requestVars>>
  PROVE  ServiceInv'
<1> USE HoldersAssumption, NoCallAssumption, NoIPAssumption
    DEF ServiceInv, TypeOK, MutexHeld, RequestInv, At, Attached, LockFree, DeleteDevice, serviceVars, requestVars
<1>1. MutexHeld' /\ RequestInv' /\ DistinctInterfaces' /\ KeysReachable' /\ ObjectsPresent'
  BY DEF MutexHeld, RequestInv, NoDev, KeysForInterface, DistinctInterfaces, KeysReachable, ObjectsPresent
<1>2. Devices' = Devices \ {dev[n]}
  BY DEF KernelInv, Devices, KernelTypeOK, NoDev
<1>3. TypeOK'
  BY DEF KernelTypeOK, Keys, Ifindex, Answers, Phases, Calls, NoDev
<1>4. KernelInv'
  <2>1. \A x \in Names : dev'[x] = IF x = n THEN NoDev ELSE dev[x]
    BY DEF KernelTypeOK
  <2>2. lastIfindex \in Nat
    BY DEF KernelTypeOK
  <2>3. QED
    BY <1>2, <2>1, <2>2 DEF KernelInv, NoDev
<1>5. LinksLive'
  BY <1>2 DEF LinksLive
<1>6. ProgramsOwned'
  BY DEF ProgramsOwned
<1>7. QED
  BY <1>1, <1>2, <1>3, <1>4, <1>5, <1>6

\* A renamed interface keeps its index, so the same indexes are in use.
LEMMA RenameKeepsDevices ==
  ASSUME NEW m \in Names, NEW n \in Names, KernelTypeOK, RenameDevice(m, n)
  PROVE  Devices' = Devices
<1>1. /\ m # n
      /\ dev[m] # NoDev /\ dev[n] = NoDev
      /\ \A x \in Names : dev'[x] = IF x = n THEN dev[m] ELSE IF x = m THEN NoDev ELSE dev[x]
  BY DEF KernelTypeOK, RenameDevice
<1>2. ASSUME NEW x \in Names, dev'[x] # NoDev
      PROVE  dev'[x] \in Devices
  BY <1>1, <1>2 DEF Devices
<1>3. ASSUME NEW x \in Names, dev[x] # NoDev
      PROVE  dev[x] \in Devices'
  <2>1. PICK y \in Names : dev'[y] = dev[x]
    <3>1. CASE x = m
      BY <3>1, <1>1
    <3>2. CASE x # m
      BY <3>2, <1>1, <1>3
    <3>3. QED
      BY <3>1, <3>2
  <2>2. QED
    BY <2>1, <1>3 DEF Devices, NoDev
<1>4. QED
  BY <1>2, <1>3 DEF Devices, NoDev

\* An interface changes its name.
LEMMA RenameDeviceStep ==
  ASSUME ServiceInv, NEW m \in Names, NEW n \in Names, RenameDevice(m, n),
         UNCHANGED <<serviceVars, mu, phase, requestVars>>
  PROVE  ServiceInv'
<1> USE HoldersAssumption, NoCallAssumption, NoIPAssumption
    DEF ServiceInv, TypeOK, MutexHeld, RequestInv, At, Attached, LockFree, RenameDevice, serviceVars, requestVars
<1>1. MutexHeld' /\ RequestInv' /\ DistinctInterfaces' /\ KeysReachable' /\ ProgramsOwned' /\ ObjectsPresent'
  BY DEF MutexHeld, RequestInv, NoDev, KeysForInterface, DistinctInterfaces, KeysReachable, ProgramsOwned, ObjectsPresent
<1>2. Devices' = Devices
  BY RenameKeepsDevices
<1>3. TypeOK'
  BY DEF KernelTypeOK, Keys, Ifindex, Answers, Phases, Calls, NoDev
<1>4. KernelInv'
  BY <1>2 DEF KernelInv, KernelTypeOK, NoDev, Ifindex
<1>5. LinksLive'
  BY <1>2 DEF LinksLive
<1>6. QED
  BY <1>1, <1>2, <1>3, <1>4, <1>5

-----------------------------------------------------------------------------
LEMMA InitServiceInv == Init => ServiceInv
<1>1. Init => TypeOK
  <2>1. Init => KernelTypeOK
    BY MaxIfindexAssumption DEF Init, KernelInit, KernelTypeOK, NoDev
  <2>2. {} \in SUBSET Keys
    OBVIOUS
  <2>3. Init => keys \in [Requests -> SUBSET Keys] /\ left \in [Requests -> SUBSET Keys]
    BY <2>2 DEF Init
  <2>4. Init => attachments \in [Names -> Ifindex \cup {NoDev}]
    BY DEF Init
  <2>5. Init => pc \in [Requests -> {"idle", "lookup", "lock", "attach", "delete"}]
    BY DEF Init
  <2>6. Init => /\ call \in [Requests -> Calls \cup {NoCall}]
                /\ iface \in [Requests -> Ifindex \cup {NoDev}]
    BY DEF Init
  <2>7. Init => answer \in [Requests -> Answers]
    BY DEF Init, Answers
  <2>8. Init => /\ loaded \in BOOLEAN /\ blockedIps \in SUBSET Keys
                /\ mu \in Requests \cup {Free, Closer} /\ phase \in Phases
    BY <2>2 DEF Init, Phases
  <2>9. QED
    BY <2>1, <2>3, <2>4, <2>5, <2>6, <2>7, <2>8 DEF TypeOK
<1>2. Init => KernelInv /\ LinksLive
  BY DEF Init, KernelInit, KernelInv, LinksLive, Devices, NoDev
<1>3. Init => MutexHeld /\ RequestInv
  BY HoldersAssumption DEF Init, MutexHeld, RequestInv
<1>4. Init => DistinctInterfaces /\ KeysReachable /\ ProgramsOwned /\ ObjectsPresent
  BY DEF Init, KernelInit, DistinctInterfaces, KeysReachable, ProgramsOwned, ObjectsPresent,
    Attached
<1>5. QED
  BY <1>1, <1>2, <1>3, <1>4 DEF ServiceInv

LEMMA NextServiceInv == ServiceInv /\ [Next]_vars => ServiceInv'
<1> SUFFICES ASSUME ServiceInv, [Next]_vars
             PROVE  ServiceInv'
  OBVIOUS
<1>1. ASSUME NEW r \in Requests, Arrival(r)
      PROVE  ServiceInv'
  BY <1>1, AcceptStep, RejectStep, ValidCallsType DEF Arrival
<1>2. ASSUME NEW r \in Requests, LockStep(r)
      PROVE  ServiceInv'
  BY <1>2, AttachAgainStep, EnsureObjectsStep, EnsureObjectsFailsStep, BlockUpdateStep,
    BlockMapFullStep, ClearCollectStep, ClearCollectFailsStep, RefuseUnattachedStep DEF LockStep
<1>3. ASSUME NEW r \in Requests, OwnStep(r)
      PROVE  ServiceInv'
  BY <1>3, LookupFoundStep, LookupMissingStep, AttachXdpStep, AttachXdpFailsStep,
    ClearDeleteStep, ClearDeleteFailsStep, ClearReturnStep DEF OwnStep
<1>4. CASE MainStep
  BY <1>4, CloseEnterStep, CloseLinkStep, CloseObjectsStep, ProcessGoneStep
    DEF MainStep, MainReturns
<1>5. CASE Signal \/ Killed \/ Restart
  BY <1>5, SignalStep, ProcessGoneStep, RestartStep DEF Killed
<1>6. CASE DeviceStep
  BY <1>6, CreateDeviceStep, DeleteDeviceStep, RenameDeviceStep DEF DeviceStep, DeviceChange
<1>7. CASE UNCHANGED vars
  <2> USE <1>7 DEF vars, kernelVars, serviceVars, requestVars, ServiceInv
  <2>1. TypeOK'
    BY DEF TypeOK, KernelTypeOK
  <2>2. KernelInv' /\ LinksLive'
    BY DEF KernelInv, LinksLive, Devices
  <2>3. MutexHeld' /\ RequestInv'
    BY DEF MutexHeld, RequestInv, Attached, KeysForInterface
  <2>4. DistinctInterfaces' /\ KeysReachable' /\ ProgramsOwned' /\ ObjectsPresent'
    BY DEF DistinctInterfaces, KeysReachable, ProgramsOwned, ObjectsPresent, Attached
  <2>5. QED
    BY <2>1, <2>2, <2>3, <2>4
<1>8. QED
  BY <1>1, <1>2, <1>3, <1>4, <1>5, <1>6, <1>7 DEF Next, ServiceNext

\* Under every interleaving of requests, interface changes, shutdown, kill and
\* restart, the table, the map, the programs and the mutex agree: ServiceInv.
THEOREM ServiceInvariant == Spec => []ServiceInv
<1>1. QED
  BY InitServiceInv, NextServiceInv, PTL DEF Spec

\* Variables keep their types (TypeOK).
THEOREM TypeCorrect == Spec => []TypeOK
<1>1. ServiceInv => TypeOK
  BY DEF ServiceInv
<1>2. QED
  BY <1>1, ServiceInvariant, PTL

\* No two names of the table share an interface, so neither Block nor Clear of one
\* name works on the interface of another (DistinctInterfaces).
THEOREM TableSound == Spec => []DistinctInterfaces
<1>1. ServiceInv => DistinctInterfaces
  BY DEF ServiceInv
<1>2. QED
  BY <1>1, ServiceInvariant, PTL

\* Every key of the map belongs to an interface of the table, so that some Clear can
\* reach it (KeysReachable).
THEOREM KeysStayReachable == Spec => []KeysReachable
<1>1. ServiceInv => KeysReachable
  BY DEF ServiceInv
<1>2. QED
  BY <1>1, ServiceInvariant, PTL

\* Every running program has its entry in the table, so that Close takes it off
\* (ProgramsOwned).
THEOREM ProgramsStayOwned == Spec => []ProgramsOwned
<1>1. ServiceInv => ProgramsOwned
  BY DEF ServiceInv
<1>2. QED
  BY <1>1, ServiceInvariant, PTL

-----------------------------------------------------------------------------
(* What a step may never do *)

\* Verdicts of an interface that keeps its program change with the map only.
LEMMA VerdictFollowsMap ==
  ASSUME NEW i \in progs \cap progs', NEW p \in Packets,
         Verdict(i, p)' # Verdict(i, p)
  PROVE  (<<i, p.src>> \in blockedIps') # (<<i, p.src>> \in blockedIps)
BY DEF Verdict, xdp_block

\* Few steps change the map.
LEMMA MapWriters ==
  ASSUME [Next]_vars, blockedIps' # blockedIps
  PROVE  \/ \E r \in Requests : BlockUpdate(r)
         \/ \E r \in Requests : \E k \in left[r] : ClearDelete(r, k)
         \/ CloseObjects
         \/ ProcessGone
<1> USE DEF serviceVars
<1>1. ASSUME NEW r \in Requests, Arrival(r)
      PROVE  FALSE
  BY <1>1 DEF Arrival, Accept, Reject
<1>2. ASSUME NEW r \in Requests, LockStep(r)
      PROVE  BlockUpdate(r)
  BY <1>2 DEF LockStep, AttachAgain, EnsureObjects, EnsureObjectsFails, BlockMapFull,
    ClearCollect, ClearCollectFails, RefuseUnattached
<1>3. ASSUME NEW r \in Requests, OwnStep(r)
      PROVE  \E k \in left[r] : ClearDelete(r, k)
  BY <1>3 DEF OwnStep, LookupFound, LookupMissing, AttachXdp, AttachXdpFails, ClearDeleteFails, ClearReturn
<1>4. CASE MainStep
  BY <1>4 DEF MainStep, CloseEnter, CloseLink, MainReturns
<1>5. CASE Signal \/ Killed \/ Restart
  BY <1>5 DEF Signal, Killed, Restart
<1>6. CASE DeviceStep
  BY <1>6 DEF DeviceStep
<1>7. CASE UNCHANGED vars
  BY <1>7 DEF vars
<1>8. QED
  BY <1>1, <1>2, <1>3, <1>4, <1>5, <1>6, <1>7 DEF Next, ServiceNext

\* While a program stays attached, only BlockUpdate and ClearDelete write the map,
\* and each writes a key of the interface its request names.
LEMMA StepIsolated == ServiceInv /\ [Next]_vars => IsolatedStep
<1> SUFFICES ASSUME ServiceInv, [Next]_vars,
                    NEW i \in progs \cap progs', NEW p \in Packets,
                    Verdict(i, p)' # Verdict(i, p)
             PROVE  \E r \in Requests :
                      /\ call[r] # NoCall /\ call[r].op \in {"block", "clear"}
                      /\ pc'[r] # pc[r] \/ left'[r] # left[r]
                      /\ attachments[call[r].name] = i
  BY DEF IsolatedStep
<1> DEFINE key == <<i, p.src>>
<1>1. (key \in blockedIps') # (key \in blockedIps)
  BY VerdictFollowsMap
<1>2. ASSUME NEW r \in Requests, BlockUpdate(r)
      PROVE  /\ call[r] # NoCall /\ call[r].op = "block"
             /\ pc'[r] # pc[r]
             /\ attachments[call[r].name] = i
  <2>1. pc[r] = "lock" /\ pc'[r] = "idle" /\ call[r].op = "block"
    BY <1>2 DEF BlockUpdate, At, Return, ServiceInv, TypeOK
  <2>2. call[r] # NoCall
    BY <2>1 DEF ServiceInv, RequestInv
  <2>3. key = BlockKey(r)
    BY <1>1, <1>2 DEF BlockUpdate
  <2>4. QED
    BY <2>1, <2>2, <2>3 DEF BlockKey
<1>3. ASSUME NEW r \in Requests, NEW k \in left[r], ClearDelete(r, k)
      PROVE  /\ call[r] # NoCall /\ call[r].op = "clear"
             /\ left'[r] # left[r]
             /\ attachments[call[r].name] = i
  <2>1. pc[r] = "delete" /\ call[r].op = "clear" /\ k \notin left'[r]
    BY <1>3 DEF ClearDelete, At, ServiceInv, TypeOK
  <2>2. call[r] # NoCall /\ k[1] = attachments[call[r].name]
    BY <1>3, <2>1 DEF ServiceInv, RequestInv
  <2>3. key = k
    BY <1>1, <1>3 DEF ClearDelete
  <2>4. QED
    BY <1>3, <2>1, <2>2, <2>3
<1>4. ~CloseObjects
  BY DEF CloseObjects, LinksClosed, ServiceInv, ProgramsOwned
<1>5. ~ProcessGone
  BY DEF ProcessGone
<1>6. QED
  BY <1>1, <1>2, <1>3, <1>4, <1>5, MapWriters

\* Only its last step answers a Clear with success.
LEMMA ClearAnswers ==
  ASSUME ServiceInv, [Next]_vars, NEW r \in Requests, AnsweredOk(r, "clear")
  PROVE  ClearReturn(r)
<1> USE DEF AnsweredOk
<1>1. pc[r] # "idle" /\ call \in [Requests -> Calls \cup {NoCall}]
      /\ answer \in [Requests -> Answers]
  BY DEF ServiceInv, RequestInv, TypeOK
<1>2. call' # call
  OBVIOUS
<1>3. ASSUME NEW q \in Requests, Arrival(q)
      PROVE  FALSE
  <2>1. pc[q] = "idle"
    BY <1>3 DEF Arrival, Accept, Reject
  <2>2. q # r
    BY <1>1, <2>1
  <2>3. call'[r] = call[r]
    BY <1>1, <1>3, <2>2 DEF Arrival, Accept, Reject
  <2>4. QED
    BY <2>3
<1>4. ASSUME NEW q \in Requests, NEW a, Return(q, a)
      PROVE  q = r /\ a = "ok"
  BY <1>1, <1>4 DEF Return
<1>5. ASSUME NEW q \in Requests, LockStep(q)
      PROVE  FALSE
  BY <1>2, <1>4, <1>5 DEF LockStep, AttachAgain, EnsureObjects, EnsureObjectsFails,
    BlockUpdate, BlockMapFull, ClearCollect, ClearCollectFails, RefuseUnattached, At
<1>6. ASSUME NEW q \in Requests, OwnStep(q)
      PROVE  ClearReturn(r)
  BY <1>2, <1>4, <1>6 DEF OwnStep, LookupFound, LookupMissing, AttachXdp, AttachXdpFails,
    ClearDelete, ClearDeleteFails, ClearReturn, At
<1>7. ~ProcessGone
  BY DEF ProcessGone
<1>8. ~(MainStep \/ Signal \/ Killed \/ Restart \/ DeviceStep \/ UNCHANGED vars)
  BY <1>2, <1>7 DEF MainStep, CloseEnter, CloseLink, CloseObjects, MainReturns,
    Signal, Killed, Restart, DeviceStep, vars, requestVars
<1>9. QED
  BY <1>3, <1>5, <1>6, <1>8 DEF Next, ServiceNext

\* What the answering step of a Clear finds: no key of its interface is left,
\* because new ones need the mutex that this Clear still holds.
LEMMA StepFlushes == ServiceInv /\ [Next]_vars => FlushingStep
<1> SUFFICES ASSUME ServiceInv, [Next]_vars, NEW r \in Requests, NEW i \in Ifindex,
                    AnsweredOk(r, "clear"), attachments[call[r].name] = i
             PROVE  /\ \A p \in Packets : Verdict(i, p)' = "XDP_PASS"
                    /\ \A k \in blockedIps' : k[1] # i
                    /\ progs' = progs
  BY DEF FlushingStep
<1>1. ClearReturn(r)
  BY ClearAnswers
<1>2. blockedIps' = blockedIps /\ progs' = progs
  BY <1>1 DEF ClearReturn, kernelVars, serviceVars
<1>3. KeysForInterface(i) = {}
  BY <1>1 DEF ClearReturn, At, ServiceInv, RequestInv
<1>4. \A k \in blockedIps' : k[1] # i
  BY <1>2, <1>3 DEF KeysForInterface
<1>5. ASSUME NEW p \in Packets
      PROVE  Verdict(i, p)' = "XDP_PASS"
  <2>1. <<i, p.src>> \notin blockedIps'
    BY <1>4
  <2>2. QED
    BY <2>1 DEF Verdict, xdp_block
<1>6. QED
  BY <1>2, <1>4, <1>5

\* README 3.8 and 4.7, for any number of interfaces and concurrent requests:
\* a packet's verdict changes only by a request about the interface it enters.
THEOREM InterfacesIsolated == Spec => Isolation
<1>1. QED
  BY StepIsolated, ServiceInvariant, PTL DEF Spec, Isolation

\* README 4.4 to 4.6: whatever Blocks, Clears and interface changes run meanwhile,
\* a Clear that answers leaves nothing blocked on its interface.
THEOREM ClearLeavesNothing == Spec => ClearFlushes
<1>1. QED
  BY StepFlushes, ServiceInvariant, PTL DEF Spec, ClearFlushes

-----------------------------------------------------------------------------
(* What success means while interfaces appear and stay: an answered Attach or *)
(* Block is in force on the interface that bears the name.                  *)

\* Where interfaces stay, the table and the handlers know them by the index their
\* name bears now.
NamesHold ==
  /\ \A n \in Names : attachments[n] \in {NoDev, dev[n]}
  /\ \A r \in Requests :
       iface[r] # NoDev => pc[r] # "idle" /\ iface[r] = dev[call[r].name]

StableInv == ServiceInv /\ NamesHold

\* The stable world is one of those the invariant was proved in.
LEMMA StableIsNext == [StableNext]_vars => [Next]_vars
BY DEF StableNext, Next, DeviceStep, DeviceChange

\* Requests look names up, and put what they found under the same name.
LEMMA RequestNamesHold ==
  ASSUME StableInv, NEW r \in Requests, Arrival(r) \/ LockStep(r) \/ OwnStep(r)
  PROVE  NamesHold'
<1> USE DEF StableInv, NamesHold
<1>1. /\ pc \in [Requests -> {"idle", "lookup", "lock", "attach", "delete"}]
      /\ iface \in [Requests -> Ifindex \cup {NoDev}] /\ call \in [Requests -> Calls \cup {NoCall}]
      /\ attachments \in [Names -> Ifindex \cup {NoDev}]
  BY DEF ServiceInv, TypeOK
<1>2. dev' = dev
  BY DEF Arrival, Accept, Reject, LockStep, AttachAgain, EnsureObjects, EnsureObjectsFails,
    BlockUpdate, BlockMapFull, ClearCollect, ClearCollectFails, RefuseUnattached, OwnStep, LookupFound,
    LookupMissing, AttachXdp, AttachXdpFails, ClearDelete, ClearDeleteFails, ClearReturn, kernelVars
<1>3. CASE Arrival(r)
  <2>1. attachments' = attachments /\ iface' = iface /\ pc[r] = "idle"
        /\ \A q \in Requests \ {r} : call'[q] = call[q] /\ pc'[q] = pc[q]
    BY <1>1, <1>3 DEF Arrival, Accept, Reject, serviceVars
  <2>2. iface[r] = NoDev
    BY <2>1
  <2>3. QED
    BY <1>2, <2>1, <2>2
<1>4. ASSUME NEW a, Return(r, a), attachments' = attachments
      PROVE  NamesHold'
  BY <1>1, <1>2, <1>4 DEF Return
<1>5. CASE LockStep(r) /\ ~EnsureObjects(r) /\ ~ClearCollect(r)
  BY <1>4, <1>5 DEF LockStep, AttachAgain, EnsureObjectsFails, BlockUpdate, BlockMapFull,
    ClearCollectFails, RefuseUnattached, serviceVars
<1>6. CASE AttachXdp(r)
  <2>1. call[r].name \in Names /\ iface[r] # NoDev
    BY <1>1, <1>6 DEF AttachXdp, At, ServiceInv, RequestInv, Calls
  <2>2. QED
    BY <1>1, <1>2, <1>6, <2>1 DEF AttachXdp, Return
<1>7. CASE LookupFound(r) \/ EnsureObjects(r) \/ ClearCollect(r)
  BY <1>1, <1>2, <1>7 DEF LookupFound, EnsureObjects, ClearCollect, serviceVars
<1>8. CASE OwnStep(r) /\ ~AttachXdp(r) /\ ~LookupFound(r)
  BY <1>2, <1>4, <1>8 DEF OwnStep, LookupMissing, AttachXdpFails, ClearDelete, ClearDeleteFails,
    ClearReturn, serviceVars
<1>9. QED
  BY <1>3, <1>5, <1>6, <1>7, <1>8

\* An interface that appears has an index nobody knows yet.
LEMMA CreateNamesHold ==
  ASSUME StableInv, NEW n \in Names, CreateDevice(n), UNCHANGED <<serviceVars, mu, phase, requestVars>>
  PROVE  NamesHold'
<1> USE DEF StableInv, NamesHold
<1>1. \A m \in Names : dev[m] # NoDev => dev'[m] = dev[m]
  BY DEF CreateDevice, ServiceInv, TypeOK, KernelTypeOK
<1>2. \A m \in Names : attachments'[m] \in {NoDev, dev'[m]}
  BY <1>1 DEF serviceVars
<1>3. \A r \in Requests : iface[r] # NoDev => call[r] # NoCall /\ dev[call[r].name] # NoDev
  BY DEF ServiceInv, RequestInv
<1>4. \A r \in Requests : call[r] # NoCall => call[r].name \in Names
  BY DEF ServiceInv, TypeOK, Calls
<1>5. QED
  BY <1>1, <1>2, <1>3, <1>4 DEF requestVars

\* Main changes no index of table or handler, or forgets them all.
LEMMA MainNamesHold ==
  ASSUME StableInv, MainStep \/ Signal \/ Killed \/ Restart
  PROVE  NamesHold'
<1> USE DEF StableInv, NamesHold
<1>1. CASE ProcessGone
  BY <1>1 DEF ProcessGone
<1>2. CASE ~ProcessGone
  BY <1>2 DEF MainStep, CloseEnter, CloseLink, CloseObjects, MainReturns, Signal, Killed,
    Restart, kernelVars, serviceVars, requestVars
<1>3. QED
  BY <1>1, <1>2

\* StableInv is inductive.
LEMMA StableStep == StableInv /\ [StableNext]_vars => StableInv'
<1> SUFFICES ASSUME StableInv, [StableNext]_vars
             PROVE  StableInv'
  OBVIOUS
<1>1. ServiceInv'
  BY StableIsNext, NextServiceInv DEF StableInv
<1>2. ASSUME ServiceNext
      PROVE  NamesHold'
  BY <1>2, RequestNamesHold, MainNamesHold DEF ServiceNext
<1>3. ASSUME NEW n \in Names, CreateDevice(n), UNCHANGED <<serviceVars, mu, phase, requestVars>>
      PROVE  NamesHold'
  BY <1>3, CreateNamesHold
<1>4. ASSUME UNCHANGED vars
      PROVE  NamesHold'
  BY <1>4 DEF StableInv, NamesHold, vars, kernelVars, serviceVars, requestVars
<1>5. NamesHold'
  BY <1>2, <1>3, <1>4 DEF StableNext
<1>6. QED
  BY <1>1, <1>5 DEF StableInv

\* Success comes from four steps.
LEMMA OkSteps ==
  ASSUME ServiceInv, [StableNext]_vars, NEW r \in Requests, NEW op, AnsweredOk(r, op)
  PROVE  AttachAgain(r) \/ AttachXdp(r) \/ BlockUpdate(r) \/ ClearReturn(r)
<1> USE DEF AnsweredOk
<1>1. pc[r] # "idle" /\ call \in [Requests -> Calls \cup {NoCall}]
      /\ answer \in [Requests -> Answers]
  BY DEF ServiceInv, RequestInv, TypeOK
<1>2. call' # call
  OBVIOUS
<1>3. ASSUME NEW q \in Requests, Arrival(q)
      PROVE  FALSE
  <2>1. pc[q] = "idle"
    BY <1>3 DEF Arrival, Accept, Reject
  <2>2. call'[r] = call[r]
    BY <1>1, <1>3, <2>1 DEF Arrival, Accept, Reject
  <2>3. QED
    BY <2>2
<1>4. ASSUME NEW q \in Requests, NEW a, Return(q, a)
      PROVE  q = r /\ a = "ok"
  BY <1>1, <1>4 DEF Return
<1>5. ASSUME NEW q \in Requests, LockStep(q)
      PROVE  AttachAgain(r) \/ BlockUpdate(r)
  BY <1>2, <1>4, <1>5 DEF LockStep, AttachAgain, EnsureObjects, EnsureObjectsFails,
    BlockUpdate, BlockMapFull, ClearCollect, ClearCollectFails, RefuseUnattached
<1>6. ASSUME NEW q \in Requests, OwnStep(q)
      PROVE  AttachXdp(r) \/ ClearReturn(r)
  BY <1>2, <1>4, <1>6 DEF OwnStep, LookupFound, LookupMissing, AttachXdp, AttachXdpFails,
    ClearDelete, ClearDeleteFails, ClearReturn
<1>7. ~ProcessGone
  BY DEF ProcessGone
<1>8. ~(MainStep \/ Signal \/ Killed \/ Restart \/ UNCHANGED <<call>>)
  BY <1>2, <1>7 DEF MainStep, CloseEnter, CloseLink, CloseObjects, MainReturns,
    Signal, Killed, Restart, requestVars
<1>9. QED
  BY <1>3, <1>5, <1>6, <1>8 DEF StableNext, ServiceNext, vars, requestVars

\* A name of the table has its interface and its program, unless Close is at work.
LEMMA EntryIsLive ==
  ASSUME StableInv, NEW n \in Names, Attached(n), mu # Closer
  PROVE  attachments[n] = dev[n] /\ dev[n] \in progs
<1>1. attachments[n] = dev[n] /\ dev[n] \in Devices
  BY DEF StableInv, NamesHold, Attached, Devices
<1>2. phase # "closing"
  BY DEF StableInv, ServiceInv, MutexHeld
<1>3. QED
  BY <1>1, <1>2 DEF StableInv, ServiceInv, LinksLive

\* README 2.7 as a step: Attach answers from a live entry, or has just made one.
LEMMA AttachStep ==
  ASSUME StableInv, [StableNext]_vars, NEW r \in Requests,
         AnsweredOk(r, "attach"), dev[call[r].name] # NoDev
  PROVE  dev[call[r].name] \in progs'
<1>1. call[r].name \in Names /\ call[r].op = "attach"
  BY DEF AnsweredOk, StableInv, ServiceInv, TypeOK, Calls
<1>2. CASE AttachAgain(r)
  <2>1. dev[call[r].name] \in progs
    BY <1>1, <1>2, EntryIsLive, HoldersAssumption DEF AttachAgain, LockFree
  <2>2. QED
    BY <1>2, <2>1 DEF AttachAgain, kernelVars
<1>3. CASE AttachXdp(r)
  BY <1>3 DEF AttachXdp, At, StableInv, NamesHold, ServiceInv, RequestInv
<1>4. ~BlockUpdate(r) /\ ~ClearReturn(r)
  BY <1>1 DEF BlockUpdate, ClearReturn, At
<1>5. QED
  BY <1>2, <1>3, <1>4, OkSteps DEF StableInv

\* README 3.6 as a step: the key Block has put is of the interface that bears the
\* name, whose program is running.
LEMMA BlockStep ==
  ASSUME StableInv, [StableNext]_vars, NEW r \in Requests, NEW p \in Packets,
         NEW i, dev[call[r].name] = i,
         AnsweredOk(r, "block"), p.frame = "ipv4", p.src = call[r].ip
  PROVE  Verdict(i, p)' = "XDP_DROP"
<1>1. call[r].name \in Names /\ call[r].op = "block"
  BY DEF AnsweredOk, StableInv, ServiceInv, TypeOK, Calls
<1>2. BlockUpdate(r)
  BY <1>1, OkSteps DEF AttachAgain, AttachXdp, ClearReturn, At, StableInv
<1>3. attachments[call[r].name] = i /\ i \in progs
  BY <1>1, <1>2, EntryIsLive, HoldersAssumption DEF BlockUpdate, LockFree
<1>4. <<i, p.src>> \in blockedIps'
  BY <1>2, <1>3 DEF BlockUpdate, BlockKey
<1>5. progs' = progs
  BY <1>2 DEF BlockUpdate, kernelVars
<1>6. QED
  BY <1>3, <1>4, <1>5 DEF Verdict, xdp_block

\* StableInv holds in every reachable state of the stable world.
THEOREM StableInvariant == StableSpec => []StableInv
<1>1. Init => StableInv
  BY InitServiceInv DEF StableInv, NamesHold, Init
<1>2. QED
  BY <1>1, StableStep, PTL DEF StableSpec

\* README 2.7, for any number of interfaces and concurrent requests: when Attach
\* answers, the interface that bears the name has the program.
THEOREM AttachIsTruthful == StableSpec => AttachTruthful
<1>1. StableInv /\ [StableNext]_vars =>
        [\A r \in Requests : AnsweredOk(r, "attach") /\ dev[call[r].name] # NoDev
            => dev[call[r].name] \in progs']_vars
  BY AttachStep
<1>2. QED
  BY <1>1, StableInvariant, PTL DEF StableSpec, AttachTruthful

\* README 3.6, likewise: when Block answers, the source's packets are dropped on
\* the interface that bears the name, or Block has said that the map is full.
THEOREM BlockIsEffective == StableSpec => BlockEffective
<1>1. StableInv /\ [StableNext]_vars =>
        [\A r \in Requests, i \in Ifindex, p \in Packets :
           /\ AnsweredOk(r, "block") /\ dev[call[r].name] = i
           /\ p.frame = "ipv4" /\ p.src = call[r].ip
           => Verdict(i, p)' = "XDP_DROP"]_vars
  BY BlockStep
<1>2. QED
  BY <1>1, StableInvariant, PTL DEF StableSpec, BlockEffective

-----------------------------------------------------------------------------
(* The service implements the policy *)

PolicyStep == Policy!Next \/ UNCHANGED Policy!policyVars

\* The rule <<n, a>> holds: what membership in PolicyBlocked means.
LEMMA BlockedMeans ==
  ASSUME NEW n \in Names, NEW a \in IPs
  PROVE  <<n, a>> \in PolicyBlocked <=>
           /\ Attached(n)
           /\ \/ <<attachments[n], a>> \in blockedIps
              \/ \E q \in Requests : <<attachments[n], a>> \in keys[q]
BY DEF PolicyBlocked

\* Only a Clear that holds the mutex has collected keys.
LEMMA KeysUnderMutex ==
  ASSUME ServiceInv, NEW q \in Requests, mu # q
  PROVE  keys[q] = {}
BY DEF ServiceInv, RequestInv, MutexHeld

\* A step that changes neither table, map nor collected keys keeps the policy.
LEMMA PolicyKept ==
  ASSUME attachments' = attachments, blockedIps' = blockedIps, keys' = keys
  PROVE  UNCHANGED <<PolicyAttached, PolicyBlocked>>
BY DEF PolicyAttached, PolicyBlocked, Attached

\* An answer of a request that had collected no keys is an answer of the policy.
LEMMA ReturnAnswers ==
  ASSUME ServiceInv, NEW r \in Requests, NEW a, Return(r, a)
  PROVE  /\ Policy!Answer(r, a)
         /\ pc[r] # "delete" => keys' = keys
BY DEF Return, Policy!Answer, ServiceInv, TypeOK, RequestInv

\* A request arrives, or is turned away.
LEMMA ArrivalRefines ==
  ASSUME ServiceInv, NEW r \in Requests, Arrival(r)
  PROVE  PolicyStep
<1>1. call[r] = NoCall /\ UNCHANGED <<PolicyAttached, PolicyBlocked>>
  BY PolicyKept DEF Arrival, Accept, Reject, ServiceInv, RequestInv, serviceVars
<1>2. ASSUME NEW c \in ValidCalls, Accept(r, c)
      PROVE  Policy!Receive(r, c) /\ c \in Policy!Calls
  BY <1>1, <1>2, ValidCallsType DEF Accept, Policy!Receive, Calls, Policy!Calls
<1>3. CASE Reject(r)
  BY <1>1, <1>3 DEF Reject, Policy!Reject, PolicyStep, Policy!Next
<1>4. QED
  BY <1>2, <1>3 DEF Arrival, PolicyStep, Policy!Next

\* Attach: known name, failure, or nothing yet.
LEMMA AttachRefines ==
  ASSUME ServiceInv, NEW r \in Requests,
         \/ AttachAgain(r) \/ EnsureObjects(r) \/ EnsureObjectsFails(r)
         \/ LookupFound(r) \/ LookupMissing(r) \/ AttachXdpFails(r)
  PROVE  PolicyStep
<1>1. call[r] # NoCall /\ call[r].op = "attach" /\ call[r] \in Calls
  BY DEF AttachAgain, EnsureObjects, EnsureObjectsFails, LookupFound, LookupMissing,
    AttachXdpFails, At, ServiceInv, RequestInv, TypeOK
<1>2. CASE AttachAgain(r)
  <2>1. UNCHANGED <<PolicyAttached, PolicyBlocked>> /\ Policy!Answer(r, "ok")
    BY <1>2, PolicyKept, ReturnAnswers DEF AttachAgain, At, serviceVars
  <2>2. call[r].name \in PolicyAttached
    BY <1>1, <1>2 DEF AttachAgain, PolicyAttached, Calls
  <2>3. Policy!AttachOk(r)
    BY <1>1, <2>1, <2>2 DEF Policy!AttachOk
  <2>4. QED
    BY <2>3 DEF PolicyStep, Policy!Next
<1>3. CASE EnsureObjects(r) \/ LookupFound(r)
  BY <1>3, PolicyKept DEF EnsureObjects, LookupFound, serviceVars, PolicyStep, Policy!policyVars
<1>4. CASE EnsureObjectsFails(r) \/ AttachXdpFails(r)
  <2>1. UNCHANGED <<PolicyAttached, PolicyBlocked>> /\ Policy!Answer(r, "failed")
    BY <1>4, PolicyKept, ReturnAnswers DEF EnsureObjectsFails, AttachXdpFails, At, serviceVars
  <2>2. QED
    BY <1>1, <2>1 DEF Policy!Fail, PolicyStep, Policy!Next
<1>5. CASE LookupMissing(r)
  <2>1. UNCHANGED <<PolicyAttached, PolicyBlocked>> /\ Policy!Answer(r, "rejected")
    BY <1>5, PolicyKept, ReturnAnswers DEF LookupMissing, At, serviceVars
  <2>2. QED
    BY <1>1, <2>1 DEF Policy!Refuse, PolicyStep, Policy!Next
<1>6. QED
  BY <1>2, <1>3, <1>4, <1>5

\* The index an Attach adds to the table is new to it and to the map: a table entry
\* for a live interface would have its program there.
LEMMA NewEntry ==
  ASSUME ServiceInv, NEW r \in Requests, AttachXdp(r)
  PROVE  /\ \A n \in Names : attachments[n] # iface[r]
         /\ \A k \in blockedIps : k[1] # iface[r]
         /\ \A q \in Requests : keys[q] = {}
<1>1. mu = r /\ phase # "closing"
  BY HoldersAssumption DEF AttachXdp, At, ServiceInv, MutexHeld
<1>2. \A n \in Names : attachments[n] # iface[r]
  BY <1>1 DEF AttachXdp, CanAttach, ServiceInv, LinksLive
<1>3. \A q \in Requests : keys[q] = {}
  BY <1>1, KeysUnderMutex DEF AttachXdp, At, ServiceInv, RequestInv
<1>4. QED
  BY <1>2, <1>3 DEF ServiceInv, KeysReachable

\* Attach adds its name, with nothing blocked under it.
LEMMA AttachXdpRefines ==
  ASSUME ServiceInv, NEW r \in Requests, AttachXdp(r)
  PROVE  PolicyStep
<1> DEFINE name == call[r].name
<1>1. /\ call[r] # NoCall /\ call[r].op = "attach" /\ name \in Names
      /\ ~Attached(name) /\ iface[r] # NoDev
  BY DEF AttachXdp, At, ServiceInv, RequestInv, TypeOK, Calls
<1>2. Policy!Answer(r, "ok") /\ keys' = keys
  BY ReturnAnswers DEF AttachXdp, At
<1>3. attachments' = [attachments EXCEPT ![name] = iface[r]] /\ blockedIps' = blockedIps
      /\ attachments \in [Names -> Ifindex \cup {NoDev}]
  BY DEF AttachXdp, ServiceInv, TypeOK
<1>4. PolicyAttached' = PolicyAttached \cup {name}
  BY <1>1, <1>3 DEF PolicyAttached, Attached
<1>5. ASSUME NEW n \in Names, NEW a \in IPs
      PROVE  <<n, a>> \in PolicyBlocked' <=> <<n, a>> \in PolicyBlocked
  <2>1. CASE n = name
    <3>1. attachments'[n] = iface[r]
      BY <1>3, <2>1
    <3>2. <<n, a>> \notin PolicyBlocked'
      BY <1>2, <1>3, <3>1, NewEntry DEF PolicyBlocked
    <3>3. <<n, a>> \notin PolicyBlocked
      BY <1>1, <2>1, BlockedMeans
    <3>4. QED
      BY <3>2, <3>3
  <2>2. CASE n # name
    <3>1. attachments'[n] = attachments[n]
      BY <1>3, <2>2
    <3>2. QED
      BY <1>2, <1>3, <3>1 DEF PolicyBlocked, Attached
  <2>3. QED
    BY <2>1, <2>2
<1>6. PolicyBlocked' = PolicyBlocked
  BY <1>5 DEF PolicyBlocked
<1>7. Policy!AttachOk(r)
  BY <1>1, <1>2, <1>4, <1>6 DEF Policy!AttachOk
<1>8. QED
  BY <1>7 DEF PolicyStep, Policy!Next

\* Block adds its rule and no other: two names of the table never share a key.
LEMMA BlockUpdateRefines ==
  ASSUME ServiceInv, NEW r \in Requests, BlockUpdate(r)
  PROVE  PolicyStep
<1> DEFINE name == call[r].name
           rule == <<name, call[r].ip>>
<1>1. /\ call[r] # NoCall /\ call[r].op = "block" /\ Attached(name)
      /\ name \in Names /\ call[r].ip \in IPs
  BY DEF BlockUpdate, At, ServiceInv, RequestInv, TypeOK, Calls
<1>2. Policy!Answer(r, "ok") /\ keys' = keys /\ attachments' = attachments
      /\ blockedIps' = blockedIps \cup {<<attachments[name], call[r].ip>>}
  BY ReturnAnswers DEF BlockUpdate, BlockKey, At
<1>3. PolicyAttached' = PolicyAttached /\ name \in PolicyAttached
  BY <1>1, <1>2 DEF PolicyAttached, Attached
<1>4. ASSUME NEW n \in Names, NEW a \in IPs
      PROVE  <<n, a>> \in PolicyBlocked' <=> <<n, a>> \in PolicyBlocked \cup {rule}
  <2>1. CASE ~Attached(n)
    BY <1>1, <1>2, <2>1 DEF PolicyBlocked, Attached
  <2>2. CASE Attached(n)
    <3>1. attachments[n] = attachments[name] <=> n = name
      BY <1>1, <2>2 DEF ServiceInv, DistinctInterfaces
    <3>2. QED
      BY <1>2, <2>2, <3>1 DEF PolicyBlocked, Attached
  <2>3. QED
    BY <2>1, <2>2
<1>5. PolicyBlocked' = PolicyBlocked \cup {rule}
  BY <1>1, <1>4, SMTT(30) DEF PolicyBlocked
<1>6. Policy!BlockOk(r)
  BY <1>1, <1>2, <1>3, <1>5 DEF Policy!BlockOk
<1>7. QED
  BY <1>6 DEF PolicyStep, Policy!Next

\* Block and Clear turned away: unattached, or the map is full.
LEMMA RefusalRefines ==
  ASSUME ServiceInv, NEW r \in Requests, BlockMapFull(r) \/ RefuseUnattached(r)
  PROVE  PolicyStep
<1>1. /\ call[r] # NoCall /\ call[r].op \in {"block", "clear"}
      /\ pc[r] = "lock" /\ call[r].name \in Names
  BY DEF BlockMapFull, RefuseUnattached, At, ServiceInv, RequestInv, TypeOK, Calls
<1>2. UNCHANGED <<PolicyAttached, PolicyBlocked>>
  BY <1>1, PolicyKept, ReturnAnswers DEF BlockMapFull, RefuseUnattached, serviceVars
<1>3. CASE BlockMapFull(r)
  <2>1. Policy!Answer(r, "failed") /\ call[r].op = "block" /\ call[r].name \in PolicyAttached
    BY <1>1, <1>3, ReturnAnswers DEF BlockMapFull, At, PolicyAttached
  <2>2. QED
    BY <1>1, <1>2, <2>1 DEF Policy!Fail, PolicyStep, Policy!Next
<1>4. CASE RefuseUnattached(r)
  <2>1. Policy!Answer(r, "rejected") /\ call[r].name \notin PolicyAttached
    BY <1>1, <1>4, ReturnAnswers DEF RefuseUnattached, PolicyAttached
  <2>2. QED
    BY <1>1, <1>2, <2>1 DEF Policy!Refuse, PolicyStep, Policy!Next
<1>5. QED
  BY <1>3, <1>4

\* A Clear that collects, or deletes what it has collected, lifts no rule yet.
LEMMA ClearBeginsRefines ==
  ASSUME ServiceInv, NEW r \in Requests,
         ClearCollect(r) \/ \E k \in left[r] : ClearDelete(r, k)
  PROVE  PolicyStep
<1>1. attachments' = attachments /\ call' = call /\ answer' = answer
  BY DEF ClearCollect, ClearDelete, serviceVars
<1>2. PolicyAttached' = PolicyAttached
  BY <1>1 DEF PolicyAttached, Attached
<1>3. blockedIps' \cup UNION {keys'[q] : q \in Requests}
        = blockedIps \cup UNION {keys[q] : q \in Requests}
  <2>1. CASE ClearCollect(r)
    <3>1. mu = Free /\ blockedIps' = blockedIps
      BY <2>1 DEF ClearCollect, LockFree, serviceVars
    <3>2. \A q \in Requests : keys[q] = {} /\ keys'[q] \subseteq blockedIps
      BY <2>1, <3>1, KeysUnderMutex, HoldersAssumption
        DEF ClearCollect, KeysForInterface, ServiceInv, TypeOK
    <3>3. QED
      BY <3>1, <3>2
  <2>2. ASSUME NEW k \in left[r], ClearDelete(r, k)
        PROVE  <1>3
    <3>1. k \in keys[r] /\ keys' = keys /\ blockedIps' = blockedIps \ {k}
      BY <2>2 DEF ClearDelete, At, ServiceInv, RequestInv
    <3>2. QED
      BY <3>1
  <2>3. QED
    BY <2>1, <2>2
<1>4. PolicyBlocked' = PolicyBlocked
  BY <1>1, <1>3 DEF PolicyBlocked, Attached
<1>5. QED
  BY <1>1, <1>2, <1>4 DEF PolicyStep, Policy!policyVars

\* The step that answers a Clear lifts every rule of its name and no other.
LEMMA ClearReturnRefines ==
  ASSUME ServiceInv, NEW r \in Requests, ClearReturn(r)
  PROVE  PolicyStep
<1> DEFINE name == call[r].name
<1>1. /\ call[r] # NoCall /\ call[r].op = "clear" /\ name \in Names
      /\ Attached(name)
      /\ \A k \in blockedIps : k[1] # attachments[name]
      /\ \A k \in keys[r] : k[1] = attachments[name]
  BY DEF ClearReturn, At, ServiceInv, RequestInv, TypeOK, Calls, KeysForInterface
<1>2. Policy!Answer(r, "ok") /\ attachments' = attachments /\ blockedIps' = blockedIps
  BY ReturnAnswers DEF ClearReturn, serviceVars
<1>3. mu = r
  BY DEF ClearReturn, At, ServiceInv, MutexHeld
<1>4. \A q \in Requests : keys'[q] = {} /\ (q # r => keys[q] = {})
  BY <1>3, KeysUnderMutex DEF ClearReturn, Return, ServiceInv, TypeOK
<1>5. PolicyAttached' = PolicyAttached /\ name \in PolicyAttached
  BY <1>1, <1>2 DEF PolicyAttached, Attached
<1>6. ASSUME NEW n \in Names, NEW a \in IPs
      PROVE  <<n, a>> \in PolicyBlocked' <=> <<n, a>> \in PolicyBlocked /\ n # name
  <2>1. <<n, a>> \in PolicyBlocked' <=> Attached(n) /\ <<attachments[n], a>> \in blockedIps
    BY <1>2, <1>4 DEF PolicyBlocked, Attached
  <2>2. CASE n = name
    BY <1>1, <2>1, <2>2
  <2>3. CASE n # name
    <3>1. Attached(n) => attachments[n] # attachments[name]
      BY <1>1, <2>3 DEF ServiceInv, DistinctInterfaces
    <3>2. Attached(n) => \A q \in Requests : <<attachments[n], a>> \notin keys[q]
      BY <1>1, <1>4, <3>1
    <3>3. QED
      BY <2>1, <2>3, <3>2, BlockedMeans
  <2>4. QED
    BY <2>2, <2>3
<1>7. PolicyBlocked' = {b \in PolicyBlocked : b[1] # name}
  <2>1. PolicyBlocked \subseteq Names \X IPs /\ PolicyBlocked' \subseteq Names \X IPs
    BY DEF PolicyBlocked
  <2>2. ASSUME NEW b \in Names \X IPs
        PROVE  b \in PolicyBlocked' <=> b \in PolicyBlocked /\ b[1] # name
    BY <1>6
  <2>3. QED
    BY <2>1, <2>2
<1>8. Policy!ClearOk(r)
  BY <1>1, <1>2, <1>5, <1>7 DEF Policy!ClearOk
<1>9. QED
  BY <1>8 DEF PolicyStep, Policy!Next

\* A Clear that fails lifts the rules whose keys it had deleted, none of another
\* name.
LEMMA ClearFailsRefines ==
  ASSUME ServiceInv, NEW r \in Requests, ClearCollectFails(r) \/ ClearDeleteFails(r)
  PROVE  PolicyStep
<1> DEFINE name == call[r].name
           gone == PolicyBlocked \ PolicyBlocked'
<1>1. call[r] # NoCall /\ call[r].op = "clear" /\ name \in Names /\ Attached(name)
  BY DEF ClearCollectFails, ClearDeleteFails, At, ServiceInv, RequestInv, TypeOK, Calls
<1>2. Policy!Answer(r, "failed") /\ attachments' = attachments /\ blockedIps' = blockedIps
  BY ReturnAnswers DEF ClearCollectFails, ClearDeleteFails, serviceVars
<1>3. PolicyAttached' = PolicyAttached /\ name \in PolicyAttached
  BY <1>1, <1>2 DEF PolicyAttached, Attached
<1>4. \A q \in Requests : keys'[q] \subseteq keys[q] /\ (q # r => keys'[q] = keys[q])
  BY DEF ClearCollectFails, ClearDeleteFails, Return, ServiceInv, TypeOK
<1>5. \A k \in keys[r] : k[1] = attachments[name]
  BY DEF ClearCollectFails, ClearDeleteFails, At, ServiceInv, RequestInv
<1>6. ASSUME NEW n \in Names, NEW a \in IPs
      PROVE  /\ <<n, a>> \in PolicyBlocked' => <<n, a>> \in PolicyBlocked
             /\ <<n, a>> \in gone => n = name
  <2>1. <<n, a>> \in PolicyBlocked' <=>
          /\ Attached(n)
          /\ \/ <<attachments[n], a>> \in blockedIps
             \/ \E q \in Requests : <<attachments[n], a>> \in keys'[q]
    BY <1>2 DEF PolicyBlocked, Attached
  <2>2. <<n, a>> \in PolicyBlocked' => <<n, a>> \in PolicyBlocked
    BY <1>4, <2>1, BlockedMeans
  <2>3. <<n, a>> \in gone => Attached(n) /\ <<attachments[n], a>> \in keys[r]
    BY <1>4, <2>1, BlockedMeans
  <2>4. <<n, a>> \in gone => n = name
    BY <1>1, <1>5, <2>3 DEF ServiceInv, DistinctInterfaces
  <2>5. QED
    BY <2>2, <2>4
<1>7. PolicyBlocked \subseteq Names \X IPs /\ PolicyBlocked' \subseteq Names \X IPs
  BY DEF PolicyBlocked
<1>8. PolicyBlocked' = PolicyBlocked \ gone
  BY <1>6, <1>7
<1>9. gone \in SUBSET {b \in PolicyBlocked : b[1] = name}
  BY <1>6, <1>7
<1>10. Policy!ClearPartly(r)
  BY <1>1, <1>2, <1>3, <1>8, <1>9 DEF Policy!ClearPartly
<1>11. QED
  BY <1>10 DEF PolicyStep, Policy!Next

\* With an empty table there is no policy.
LEMMA EmptyTable ==
  ASSUME attachments' = [n \in Names |-> NoDev]
  PROVE  PolicyAttached' = {} /\ PolicyBlocked' = {}
BY DEF PolicyAttached, PolicyBlocked, Attached

\* Shutdown: the policy goes when Close empties the table, and with the process.
LEMMA MainRefines ==
  ASSUME ServiceInv, MainStep \/ Signal \/ Killed \/ Restart
  PROVE  PolicyStep
<1>1. CASE CloseObjects
  BY <1>1, EmptyTable DEF CloseObjects, requestVars, Policy!Reset, PolicyStep, Policy!Next
<1>2. CASE ProcessGone
  BY <1>2, EmptyTable DEF ProcessGone, Policy!Lose, PolicyStep, Policy!Next
<1>3. CASE CloseEnter \/ (\E n \in Names : CloseLink(n)) \/ Signal \/ Restart
  <2>1. UNCHANGED <<serviceVars, requestVars>>
    BY <1>3 DEF CloseEnter, CloseLink, Signal, Restart
  <2>2. QED
    BY <2>1, PolicyKept DEF serviceVars, requestVars, PolicyStep, Policy!policyVars
<1>4. QED
  BY <1>1, <1>2, <1>3 DEF MainStep, MainReturns, Killed

\* Every step of the service is one of the policy, or none.
LEMMA StepRefines == ServiceInv /\ [Next]_vars => PolicyStep
<1> SUFFICES ASSUME ServiceInv, [Next]_vars
             PROVE  PolicyStep
  OBVIOUS
<1>1. ASSUME NEW r \in Requests, Arrival(r) \/ LockStep(r) \/ OwnStep(r)
      PROVE  PolicyStep
  <2>1. CASE Arrival(r)
    BY <2>1, ArrivalRefines
  <2>2. CASE LockStep(r)
    BY <2>2, AttachRefines, BlockUpdateRefines, RefusalRefines, ClearBeginsRefines,
      ClearFailsRefines DEF LockStep
  <2>3. CASE OwnStep(r)
    BY <2>3, AttachRefines, AttachXdpRefines, ClearBeginsRefines, ClearFailsRefines,
      ClearReturnRefines DEF OwnStep
  <2>4. QED
    BY <1>1, <2>1, <2>2, <2>3
<1>2. CASE MainStep \/ Signal \/ Killed \/ Restart
  BY <1>2, MainRefines
<1>3. CASE DeviceStep \/ UNCHANGED vars
  <2>1. UNCHANGED <<serviceVars, requestVars>>
    BY <1>3 DEF DeviceStep, vars
  <2>2. QED
    BY <2>1, PolicyKept DEF serviceVars, requestVars, PolicyStep, Policy!policyVars
<1>4. QED
  BY <1>1, <1>2, <1>3 DEF Next, ServiceNext

\* The service starts with the empty policy.
LEMMA InitRefines == Init => Policy!Init
BY DEF Init, Policy!Init, PolicyAttached, PolicyBlocked, Attached

\* Whatever the interleaving of handlers, interface changes, shutdowns and kills,
\* clients see a service that serves one request at a time, as XdpPolicy says.
THEOREM ServiceImplementsPolicy == Spec => ImplementsPolicy
<1>1. ServiceInv /\ [Next]_vars => [Policy!Next]_(Policy!policyVars)
  BY StepRefines DEF PolicyStep
<1>2. QED
  BY <1>1, InitRefines, ServiceInvariant, PTL DEF Spec, ImplementsPolicy, Policy!Spec
=============================================================================

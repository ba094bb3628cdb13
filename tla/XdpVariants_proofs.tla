------------------------- MODULE XdpVariants_proofs -------------------------
(***************************************************************************)
(* The three other week 3 servers, for every instance: what a Clear that    *)
(* does not exclude other requests has passed, collected and may leave      *)
(* behind, and what follows for its answer.                                *)
(***************************************************************************)
EXTENDS XdpVariants, TLAPS

\* Where each handler is and what it works on.
PlaceInv ==
  \A r \in Requests :
    /\ pc[r] = "idle" <=> call[r] = NoCall
    /\ pc[r] = "attach" => call[r].op = "attach"
    /\ pc[r] = "block" => call[r].op = "block"
    /\ pc[r] \in {"clear", "iterate", "delete"} => call[r].op = "clear"
    /\ pc[r] = "lock" /\ call[r].op = "attach" => target[r] # NoDev
    /\ pc[r] \in {"attach", "block", "clear", "iterate", "delete"} => target[r] # NoDev
    /\ pc[r] \in {"idle", "find"} => target[r] = NoDev

\* An iteration has every entry of its interface before it, or has collected it, or
\* the entry is newer than the request.
IterationInv ==
  \A r \in Requests :
    /\ pc[r] \notin {"iterate", "delete"} => keys[r] = {}
    /\ \A k \in keys[r] : k[1] = target[r]
    /\ pc[r] = "delete" => pending[r] = {}
    /\ pc[r] \in {"iterate", "delete"} =>
         KeysOf(target[r]) \subseteq pending[r] \cup keys[r] \cup puts[r]

VariantsInv == TypeOK /\ PlaceInv /\ IterationInv


\* A request arrives, or is turned away.
LEMMA ArrivalStep ==
  ASSUME VariantsInv, NEW r \in Requests, Reject(r) \/ \E c \in Calls : Accept(r, c)
  PROVE  VariantsInv'
<1> USE DEF VariantsInv, TypeOK
<1>1. CASE Reject(r)
  BY <1>1 DEF Reject, kernelVars, serverVars, mapVars, KernelTypeOK, PlaceInv, IterationInv, KeysOf
<1>2. ASSUME NEW c \in Calls, Accept(r, c)
      PROVE  VariantsInv'
  <2>1. TypeOK'
    BY <1>2 DEF Accept, kernelVars, serverVars, mapVars, KernelTypeOK
  <2>2. PlaceInv'
    BY <1>2, NoCallAssumption DEF Accept, Calls, PlaceInv, Stateless
  <2>3. IterationInv'
    BY <1>2 DEF Accept, mapVars, IterationInv, KeysOf
  <2>4. QED
    BY <2>1, <2>2, <2>3
<1>3. QED
  BY <1>1, <1>2

\* What an answer does to a request's locals, with what was put by it.
LEMMA ReturnStep ==
  ASSUME VariantsInv, NEW r \in Requests, NEW a \in {"ok", "error"}, NEW new \in SUBSET Keys,
         ReturnHaving(r, a, new), blockedIps' = blockedIps \cup new,
         KernelTypeOK', orphans' \in SUBSET Ifindex, orphans' \cap progs' = {},
         frozen' \in SUBSET Keys, ifaces' \in [Names -> Ifindex \cup {NoDev}]
  PROVE  VariantsInv'
<1> USE DEF VariantsInv, TypeOK
<1>1. TypeOK'
  BY DEF ReturnHaving
<1>2. PlaceInv'
  BY NoCallAssumption DEF ReturnHaving, PlaceInv
<1>3. ASSUME NEW q \in Requests
      PROVE  /\ pc'[q] \notin {"iterate", "delete"} => keys'[q] = {}
             /\ \A k \in keys'[q] : k[1] = target'[q]
             /\ pc'[q] = "delete" => pending'[q] = {}
             /\ pc'[q] \in {"iterate", "delete"} =>
                  KeysOf(target[q])' \subseteq pending'[q] \cup keys'[q] \cup puts'[q]
  <2>1. CASE q = r
    BY <2>1 DEF ReturnHaving
  <2>2. CASE q # r
    <3>1. /\ pc'[q] = pc[q] /\ keys'[q] = keys[q] /\ target'[q] = target[q]
          /\ pending'[q] = pending[q]
          /\ pc[q] # "idle" => puts'[q] = puts[q] \cup new
      BY <2>2 DEF ReturnHaving, PlaceInv
    <3>2. QED
      BY <3>1 DEF IterationInv, KeysOf
  <2>3. QED
    BY <2>1, <2>2
<1>4. IterationInv'
  BY <1>3 DEF IterationInv, KeysOf
<1>5. QED
  BY <1>1, <1>2, <1>4

\* The answers that change no map, table or program.
LEMMA PlainReturnStep ==
  ASSUME VariantsInv, NEW r \in Requests, NEW a \in {"ok", "error"}, Return(r, a),
         UNCHANGED <<kernelVars, ifaces, mapVars>>
  PROVE  VariantsInv'
<1>1. KernelTypeOK' /\ UNCHANGED <<blockedIps, orphans, frozen, progs>>
  BY DEF VariantsInv, TypeOK, kernelVars, mapVars, KernelTypeOK
<1>2. QED
  BY <1>1, ReturnStep DEF VariantsInv, TypeOK, Return

\* Attach answers with success.
LEMMA AttachStep ==
  ASSUME VariantsInv, NEW r \in Requests, Attach(r)
  PROVE  VariantsInv'
<1>1. target[r] \in Ifindex
  BY DEF Attach, VariantsInv, TypeOK, PlaceInv
<1>2. KernelTypeOK' /\ orphans' \in SUBSET Ifindex /\ orphans' \cap progs' = {}
      /\ frozen' \in SUBSET Keys /\ ifaces' \in [Names -> Ifindex \cup {NoDev}]
  BY <1>1 DEF Attach, VariantsInv, TypeOK, KernelTypeOK
<1>3. QED
  BY <1>2, ReturnStep DEF Attach, Return

\* Block puts its key.
LEMMA PutStep ==
  ASSUME VariantsInv, NEW r \in Requests, Put(r)
  PROVE  VariantsInv'
<1>1. KeyFor(r) \in Keys
  BY DEF Put, KeyFor, Keys, VariantsInv, TypeOK, PlaceInv, Calls
<1>2. KernelTypeOK' /\ UNCHANGED <<orphans, frozen, progs, ifaces>>
  BY DEF Put, VariantsInv, TypeOK, kernelVars, KernelTypeOK
<1>3. QED
  BY <1>1, <1>2, ReturnStep DEF Put, VariantsInv, TypeOK

\* A handler goes from one place to the next.
LEMMA MoveStep ==
  ASSUME VariantsInv, NEW r \in Requests,
         Find(r) \/ TakeEntry(r) \/ LoadObjects(r) \/ Iterate(r) \/ Iterated(r)
  PROVE  VariantsInv'
<1> USE DEF VariantsInv, TypeOK, Goes, At, UnchangedMaps, UnchangedIteration
<1>1. call[r] \in Calls /\ pc[r] # "idle"
  BY DEF Find, TakeEntry, LoadObjects, Iterate, Iterated, PlaceInv
<1>2. TypeOK'
  BY <1>1 DEF Find, TakeEntry, LoadObjects, Iterate, Iterated, Calls, KernelTypeOK,
    kernelVars, serverVars, mapVars, KeysOf
<1>3. PlaceInv'
  BY <1>1, NoCallAssumption DEF Find, Usable, TakeEntry, LoadObjects, Iterate, Iterated, PlaceInv,
    Calls, NoDev
<1>4. IterationInv'
  BY <1>1 DEF Find, TakeEntry, LoadObjects, Iterate, Iterated, IterationInv, KeysOf,
    mapVars, Calls
<1>5. QED
  BY <1>2, <1>3, <1>4

\* An iteration meets an entry.
LEMMA VisitStep ==
  ASSUME VariantsInv, NEW r \in Requests, NEW k \in Keys, Visit(r, k)
  PROVE  VariantsInv'
<1> USE DEF VariantsInv, TypeOK, Visit
<1>1. TypeOK' /\ PlaceInv'
  BY DEF kernelVars, serverVars, mapVars, KernelTypeOK, PlaceInv
<1>2. IterationInv'
  BY DEF IterationInv, KeysOf, mapVars
<1>3. QED
  BY <1>1, <1>2

\* A Clear deletes an entry it has collected; who else had it before him has it no
\* more, and need not.
LEMMA DeleteStep ==
  ASSUME VariantsInv, NEW r \in Requests, NEW k \in Keys, Delete(r, k)
  PROVE  VariantsInv'
<1> USE DEF VariantsInv, TypeOK, Delete
<1>1. TypeOK' /\ PlaceInv'
  BY DEF kernelVars, serverVars, KernelTypeOK, PlaceInv
<1>2. IterationInv'
  BY DEF IterationInv, KeysOf
<1>3. QED
  BY <1>1, <1>2

\* The process starts anew.
LEMMA RestartStep ==
  ASSUME VariantsInv, Restart
  PROVE  VariantsInv'
<1> USE DEF VariantsInv, TypeOK, Restart
<1>1. TypeOK'
  BY DEF KernelTypeOK, Carrying
<1>2. PlaceInv' /\ IterationInv'
  BY DEF PlaceInv, IterationInv
<1>3. QED
  BY <1>1, <1>2

\* Interfaces come, go and are renamed.
LEMMA KernelStep ==
  ASSUME KernelTypeOK, DeviceChange \/ \E n \in Names : CreateDevice(n)
  PROVE  KernelTypeOK' /\ progs' \subseteq progs
<1> USE MaxIfindexAssumption DEF KernelTypeOK, Ifindex, NoDev
<1>1. ASSUME NEW n \in Names, CreateDevice(n)
      PROVE  KernelTypeOK' /\ progs' \subseteq progs
  BY <1>1 DEF CreateDevice
<1>2. ASSUME NEW n \in Names, DeleteDevice(n)
      PROVE  KernelTypeOK' /\ progs' \subseteq progs
  BY <1>2 DEF DeleteDevice
<1>3. ASSUME NEW m \in Names, NEW n \in Names, RenameDevice(m, n)
      PROVE  KernelTypeOK' /\ progs' \subseteq progs
  BY <1>3 DEF RenameDevice
<1>4. QED
  BY <1>1, <1>2, <1>3 DEF DeviceChange

LEMMA DeviceStepKeeps ==
  ASSUME VariantsInv, DeviceStep
  PROVE  VariantsInv'
<1> USE DEF VariantsInv, TypeOK, DeviceStep
<1>1. KernelTypeOK' /\ progs' \subseteq progs
  BY KernelStep
<1>2. TypeOK'
  BY <1>1 DEF serverVars, requestVars
<1>3. PlaceInv' /\ IterationInv'
  BY DEF PlaceInv, IterationInv, KeysOf, requestVars
<1>4. QED
  BY <1>2, <1>3

\* VariantsInv is inductive.
LEMMA NextVariantsInv == VariantsInv /\ [Next]_vars => VariantsInv'
<1> SUFFICES ASSUME VariantsInv, [Next]_vars
             PROVE  VariantsInv'
  OBVIOUS
<1>1. ASSUME NEW r \in Requests, Step(r)
      PROVE  VariantsInv'
  <2>1. CASE \/ FindNothing(r) \/ RefuseUnattached(r) \/ AttachAgain(r) \/ AttachFails(r)
             \/ PutFails(r) \/ IterationAborted(r)
             \/ DeleteFails(r) \/ Cleared(r)
    BY <2>1, PlainReturnStep DEF FindNothing, RefuseUnattached, AttachAgain, AttachFails,
      PutFails, IterationAborted, DeleteFails, Cleared, UnchangedMaps
  <2>2. QED
    BY <1>1, <2>1, AttachStep, PutStep, MoveStep, VisitStep, DeleteStep DEF Step
<1>2. ASSUME UNCHANGED vars
      PROVE  VariantsInv'
  BY <1>2 DEF vars, kernelVars, serverVars, mapVars, requestVars, VariantsInv, TypeOK,
    KernelTypeOK, PlaceInv, IterationInv, KeysOf
<1>3. QED
  BY <1>1, <1>2, ArrivalStep, RestartStep, DeviceStepKeeps DEF Next

\* It holds at the start.
LEMMA InitVariantsInv == Init => VariantsInv
BY MaxIfindexAssumption DEF Init, KernelInit, VariantsInv, TypeOK, KernelTypeOK, PlaceInv, IterationInv, NoDev, Ifindex

\* Each iteration accounts for every entry of its interface, in all three servers,
\* whatever other requests do to the map meanwhile.
THEOREM VariantsInvariant == Spec => []VariantsInv
<1>1. QED
  BY InitVariantsInv, NextVariantsInv, PTL DEF Spec

\* Variables keep their types (TypeOK).
THEOREM VariantsTypeCorrect == Spec => []TypeOK
<1>1. VariantsInv => TypeOK
  BY DEF VariantsInv
<1>2. QED
  BY <1>1, VariantsInvariant, PTL

-----------------------------------------------------------------------------
(***************************************************************************)
(* What an answer of the three servers is worth, and that rules of one     *)
(* interface stay off another, proved for every instance in which statsops *)
(* is not restarted: where it is, xdp_restart shows the promise broken.    *)
(***************************************************************************)

NoStatsopsRestart == \A s \in Settings : s.server = "statsops" => ~s.restarts

\* No program outlives its process.  While interfaces stay, table and handlers
\* know them by the index their name bears, and a Block works on one whose
\* program is running.
WorldInv ==
  /\ orphans = {} /\ frozen = {}
  /\ ~setting.churn =>
       /\ \A n \in Names : ifaces[n] # NoDev => ifaces[n] = dev[n] /\ ifaces[n] \in progs
       /\ \A r \in Requests : target[r] # NoDev => target[r] = dev[call[r].name]
       /\ \A r \in Requests : pc[r] = "block" => target[r] \in progs

\* Handlers that answer without having made a program.
LEMMA ReturnKeepsWorld ==
  ASSUME VariantsInv, WorldInv, NEW r \in Requests, NEW a, NEW new,
         ReturnHaving(r, a, new), UNCHANGED <<kernelVars, ifaces, orphans, frozen>>
  PROVE  WorldInv'
BY DEF VariantsInv, TypeOK, ReturnHaving, WorldInv, kernelVars

\* Every step of a request.
LEMMA RequestKeepsWorld ==
  ASSUME VariantsInv, WorldInv, NEW r \in Requests,
         Step(r) \/ Reject(r) \/ \E c \in Calls : Accept(r, c)
  PROVE  WorldInv'
<1> USE DEF VariantsInv, TypeOK, UnchangedMaps, mapVars
<1>1. CASE \/ FindNothing(r) \/ RefuseUnattached(r) \/ AttachAgain(r) \/ AttachFails(r)
           \/ Put(r) \/ PutFails(r) \/ IterationAborted(r)
           \/ DeleteFails(r) \/ Cleared(r)
  BY <1>1, ReturnKeepsWorld DEF FindNothing, RefuseUnattached, AttachAgain, AttachFails, Put,
    PutFails, IterationAborted, DeleteFails, Cleared, Return
<1>2. CASE Attach(r)
  <2>1. call[r] \in Calls /\ target[r] # NoDev
    BY <1>2 DEF Attach, PlaceInv
  <2>2. QED
    BY <1>2, <2>1 DEF Attach, Return, ReturnHaving, WorldInv, Calls
<1>3. CASE Find(r)
  <2>1. call[r] \in Calls
    BY <1>3 DEF Find, PlaceInv
  <2>2. QED
    BY <1>3, <2>1 DEF Find, Usable, Goes, Carrying, WorldInv, Calls, kernelVars, serverVars
<1>4. CASE TakeEntry(r)
  <2>1. call[r] \in Calls
    BY <1>4 DEF TakeEntry, PlaceInv
  <2>2. QED
    BY <1>4, <2>1 DEF TakeEntry, Goes, WorldInv, Calls, kernelVars
<1>5. CASE LoadObjects(r) \/ Iterate(r) \/ Iterated(r) \/ \E k \in Keys : Visit(r, k) \/ Delete(r, k)
  BY <1>5 DEF LoadObjects, Iterate, Iterated, Visit, Delete, Goes, UnchangedIteration, WorldInv,
    kernelVars, serverVars
<1>6. ASSUME NEW c \in Calls, Accept(r, c)
      PROVE  WorldInv'
  BY <1>6 DEF Accept, PlaceInv, WorldInv, kernelVars, serverVars
<1>7. CASE Reject(r)
  BY <1>7 DEF Reject, WorldInv, kernelVars, serverVars
<1>8. QED
  BY <1>1, <1>2, <1>3, <1>4, <1>5, <1>6, <1>7 DEF Step

\* A restart and the interfaces.
LEMMA OthersKeepWorld ==
  ASSUME NoStatsopsRestart, VariantsInv, WorldInv, Restart \/ DeviceStep
  PROVE  WorldInv'
<1> USE DEF VariantsInv, TypeOK
<1>1. CASE Restart
  BY <1>1 DEF NoStatsopsRestart, Restart, Stateless, WorldInv
<1>2. CASE DeviceStep
  <2>1. orphans' = {} /\ frozen' = {} /\ UNCHANGED <<setting, ifaces, pc, call, target>>
    BY <1>2 DEF DeviceStep, WorldInv, serverVars, requestVars
  <2>2. ASSUME ~setting.churn
        PROVE  progs' = progs /\ \A n \in Names : dev[n] # NoDev => dev'[n] = dev[n]
    BY <1>2, <2>2 DEF DeviceStep, CreateDevice, KernelTypeOK
  <2>3. \A r \in Requests : target[r] # NoDev => call[r].name \in Names
    BY DEF PlaceInv, Calls
  <2>4. QED
    BY <2>1, <2>2, <2>3 DEF WorldInv
<1>3. QED
  BY <1>1, <1>2

\* WorldInv is inductive beside VariantsInv.
LEMMA NextWorldInv ==
  ASSUME NoStatsopsRestart
  PROVE  VariantsInv /\ WorldInv /\ [Next]_vars => WorldInv'
<1>1. VariantsInv /\ WorldInv /\ UNCHANGED vars => WorldInv'
  BY DEF vars, kernelVars, serverVars, mapVars, requestVars, WorldInv
<1>2. QED
  BY <1>1, RequestKeepsWorld, OthersKeepWorld DEF Next

\* Programs do not outlive their process, names and indexes agree.
THEOREM WorldInvariant ==
  ASSUME NoStatsopsRestart
  PROVE  Spec => [](VariantsInv /\ WorldInv)
<1>1. Init => WorldInv
  BY DEF Init, WorldInv
<1>2. QED
  BY <1>1, InitVariantsInv, NextVariantsInv, NextWorldInv, PTL DEF Spec

\* Success comes from four steps.
LEMMA OkSteps ==
  ASSUME VariantsInv, [Next]_vars, NEW r \in Requests, NEW op, AnsweredOk(r, op)
  PROVE  AttachAgain(r) \/ Attach(r) \/ Put(r) \/ Cleared(r)
<1> USE DEF AnsweredOk
<1>1. /\ pc[r] # "idle" /\ call[r] # NoCall /\ call'[r] = NoCall
      /\ call \in [Requests -> Calls \cup {NoCall}]
      /\ answer \in [Requests -> {"none", "ok", "error"}]
  BY DEF VariantsInv, PlaceInv, TypeOK
<1>2. ASSUME NEW q \in Requests, NEW a, NEW new, ReturnHaving(q, a, new)
      PROVE  q = r /\ a = "ok"
  BY <1>1, <1>2 DEF ReturnHaving
<1>3. ASSUME NEW q \in Requests, Step(q)
      PROVE  AttachAgain(r) \/ Attach(r) \/ Put(r) \/ Cleared(r)
  <2>1. CASE \/ Find(q) \/ TakeEntry(q) \/ LoadObjects(q) \/ Iterate(q) \/ Iterated(q)
             \/ \E k \in Keys : Visit(q, k) \/ Delete(q, k)
    BY <1>1, <2>1 DEF Find, TakeEntry, LoadObjects, Iterate, Iterated, Visit, Delete, Goes
  <2>2. CASE \/ FindNothing(q) \/ RefuseUnattached(q) \/ AttachFails(q) \/ PutFails(q)
             \/ IterationAborted(q) \/ DeleteFails(q)
    BY <1>2, <2>2 DEF FindNothing, RefuseUnattached, AttachFails, PutFails, IterationAborted,
      DeleteFails, Return
  <2>3. CASE AttachAgain(q) \/ Attach(q) \/ Put(q) \/ Cleared(q)
    BY <1>2, <2>3 DEF AttachAgain, Attach, Put, Cleared, Return
  <2>4. QED
    BY <1>3, <2>1, <2>2, <2>3 DEF Step
<1>4. ASSUME NEW q \in Requests, Reject(q) \/ \E c \in Calls : Accept(q, c)
      PROVE  FALSE
  <2>1. q # r
    BY <1>1, <1>4 DEF Reject, Accept
  <2>2. call'[r] = call[r]
    BY <1>1, <1>4, <2>1 DEF Reject, Accept
  <2>3. QED
    BY <1>1, <2>2
<1>5. ~Restart
  BY DEF Restart
<1>6. ~DeviceStep /\ ~UNCHANGED vars
  BY <1>1 DEF DeviceStep, vars, requestVars
<1>7. QED
  BY <1>3, <1>4, <1>5, <1>6 DEF Next

\* A Clear that answers has nothing left to pass or to delete, so by IterationInv
\* all that is in the map of its interface was put after it came.
LEMMA ClearStep ==
  ASSUME VariantsInv, WorldInv, [Next]_vars,
         NEW r \in Requests, NEW i \in Ifindex, NEW ip \in IPs,
         AnsweredOk(r, "clear"), target[r] = i, Dropped(i, ip)'
  PROVE  <<i, ip>> \in puts[r]
<1>1. Cleared(r)
  BY OkSteps DEF AnsweredOk, VariantsInv, PlaceInv, AttachAgain, Attach, Put, At
<1>2. blockedIps' = blockedIps /\ orphans' = {}
  BY <1>1 DEF Cleared, UnchangedMaps, mapVars, WorldInv
<1>3. <<i, ip>> \in KeysOf(i)
  BY <1>2 DEF Dropped, KeysOf
<1>4. KeysOf(i) \subseteq puts[r]
  BY <1>1 DEF Cleared, VariantsInv, IterationInv
<1>5. QED
  BY <1>3, <1>4

\* Attach answers from a live entry, or has just made one.
LEMMA AttachAnswer ==
  ASSUME VariantsInv, WorldInv, [Next]_vars, NEW r \in Requests,
         ~setting.churn, AnsweredOk(r, "attach")
  PROVE  dev[call[r].name] \in progs'
<1>1. call[r] \in Calls /\ call[r].op = "attach"
  BY DEF AnsweredOk, VariantsInv, TypeOK
<1>2. CASE AttachAgain(r)
  BY <1>1, <1>2 DEF AttachAgain, WorldInv, Calls, kernelVars
<1>3. CASE Attach(r)
  BY <1>3 DEF Attach, WorldInv, VariantsInv, PlaceInv
<1>4. ~Put(r) /\ ~Cleared(r)
  BY <1>1 DEF Put, Cleared, VariantsInv, PlaceInv
<1>5. QED
  BY <1>2, <1>3, <1>4, OkSteps

\* Block answers when its key is in the map of the interface bearing the name.
LEMMA BlockAnswer ==
  ASSUME VariantsInv, WorldInv, [Next]_vars,
         NEW r \in Requests, NEW i \in Ifindex, NEW ip \in IPs,
         ~setting.churn, AnsweredOk(r, "block"), dev[call[r].name] = i, call[r].ip = ip
  PROVE  Dropped(i, ip)'
<1>1. Put(r)
  BY OkSteps DEF AnsweredOk, VariantsInv, PlaceInv, AttachAgain, Attach, Cleared, At
<1>2. target[r] = i /\ i \in progs
  BY <1>1 DEF Put, WorldInv, VariantsInv, PlaceInv
<1>3. <<i, ip>> \in blockedIps' /\ i \in progs'
  BY <1>1, <1>2 DEF Put, KeyFor, kernelVars
<1>4. QED
  BY <1>3 DEF Dropped

\* Few steps write a map.
LEMMA MapWriters ==
  ASSUME [Next]_vars, blockedIps' # blockedIps, ~Restart
  PROVE  \E r \in Requests : Put(r) \/ \E k \in Keys : Delete(r, k)
<1>1. ASSUME NEW r \in Requests, Step(r), ~Put(r), ~\E k \in Keys : Delete(r, k)
      PROVE  FALSE
  BY <1>1 DEF Step, Find, FindNothing, TakeEntry, RefuseUnattached, AttachAgain, LoadObjects,
    Attach, AttachFails, PutFails, Iterate, Iterated, IterationAborted, DeleteFails, Cleared, Visit,
    UnchangedMaps, mapVars
<1>2. ASSUME NEW r \in Requests, Reject(r) \/ \E c \in Calls : Accept(r, c)
      PROVE  FALSE
  BY <1>2 DEF Reject, Accept, mapVars
<1>3. QED
  BY <1>1, <1>2 DEF Next, DeviceStep, vars, mapVars

\* Put and Delete write entries of the interface their request works on.
LEMMA IsolatedAnswer ==
  ASSUME VariantsInv, WorldInv, WorldInv', [Next]_vars,
         NEW i \in Carrying \cap Carrying', NEW ip \in IPs, Dropped(i, ip)' # Dropped(i, ip)
  PROVE  \E r \in Requests :
           /\ call[r] # NoCall /\ call[r].op \in {"block", "clear"}
           /\ target[r] = i
           /\ pc'[r] # pc[r] \/ keys'[r] # keys[r]
           /\ ~setting.churn => dev[call[r].name] = i
<1> DEFINE key == <<i, ip>>
<1>1. i \in progs /\ i \in progs' /\ (key \in blockedIps') # (key \in blockedIps)
  BY DEF Dropped, Carrying, WorldInv
<1>2. ASSUME NEW r \in Requests, Put(r)
      PROVE  call[r].op = "block" /\ pc'[r] # pc[r] /\ target[r] = i /\ pc[r] # "idle" /\ i # NoDev
  <2>1. key = KeyFor(r)
    BY <1>1, <1>2 DEF Put
  <2>2. QED
    BY <1>2, <2>1 DEF Put, ReturnHaving, KeyFor, VariantsInv, TypeOK, PlaceInv
<1>3. ASSUME NEW r \in Requests, NEW k \in Keys, Delete(r, k)
      PROVE  call[r].op = "clear" /\ keys'[r] # keys[r] /\ target[r] = i /\ pc[r] # "idle" /\ i # NoDev
  <2>1. key = k
    BY <1>1, <1>3 DEF Delete
  <2>2. QED
    BY <1>3, <2>1 DEF Delete, VariantsInv, TypeOK, PlaceInv, IterationInv
<1>4. ~Restart
  BY <1>1 DEF Restart
<1>5. PICK r \in Requests :
        /\ call[r].op \in {"block", "clear"}
        /\ pc'[r] # pc[r] \/ keys'[r] # keys[r]
        /\ target[r] = i /\ pc[r] # "idle" /\ i # NoDev
  BY <1>1, <1>2, <1>3, <1>4, MapWriters
<1>6. call[r] # NoCall /\ (~setting.churn => dev[call[r].name] = i)
  BY <1>5 DEF VariantsInv, PlaceInv, WorldInv
<1>7. QED
  BY <1>5, <1>6

\* README 4.4 and 4.6: a Clear that answers has removed every address that was
\* blocked when it came, though no lock keeps other requests off the map.
THEOREM VariantsClearFlushes ==
  ASSUME NoStatsopsRestart
  PROVE  Spec => ClearFlushes
<1>1. VariantsInv /\ WorldInv /\ [Next]_vars =>
        [\A r \in Requests, i \in Ifindex, ip \in IPs :
           AnsweredOk(r, "clear") /\ target[r] = i /\ Dropped(i, ip)' =>
             <<i, ip>> \in puts[r]]_vars
  BY ClearStep
<1>2. QED
  BY <1>1, WorldInvariant, PTL DEF Spec, ClearFlushes

\* README 3.8 and 4.7: rules of one interface stay off the others.
THEOREM VariantsIsolation ==
  ASSUME NoStatsopsRestart
  PROVE  Spec => Isolation
<1>1. VariantsInv /\ WorldInv /\ WorldInv' /\ [Next]_vars =>
        [\A i \in Carrying \cap Carrying', ip \in IPs :
           Dropped(i, ip)' # Dropped(i, ip) =>
             \E r \in Requests :
               /\ call[r] # NoCall /\ call[r].op \in {"block", "clear"}
               /\ target[r] = i
               /\ pc'[r] # pc[r] \/ keys'[r] # keys[r]
               /\ ~setting.churn => dev[call[r].name] = i]_vars
  BY IsolatedAnswer
<1>2. QED
  BY <1>1, WorldInvariant, PTL DEF Spec, Isolation

\* README 2.7: while interfaces stay, an answered Attach is in force.
THEOREM VariantsAttachTruthful ==
  ASSUME NoStatsopsRestart
  PROVE  Spec => AttachTruthful
<1>1. VariantsInv /\ WorldInv /\ [Next]_vars =>
        [\A r \in Requests :
           ~setting.churn /\ AnsweredOk(r, "attach") => dev[call[r].name] \in progs']_vars
  BY AttachAnswer
<1>2. QED
  BY <1>1, WorldInvariant, PTL DEF Spec, AttachTruthful

\* README 3.6 and 5.3: while interfaces stay, an answered Block is in force.
THEOREM VariantsBlockEffective ==
  ASSUME NoStatsopsRestart
  PROVE  Spec => BlockEffective
<1>1. VariantsInv /\ WorldInv /\ [Next]_vars =>
        [\A r \in Requests, i \in Ifindex, ip \in IPs :
           /\ ~setting.churn /\ AnsweredOk(r, "block")
           /\ dev[call[r].name] = i /\ call[r].ip = ip
           => Dropped(i, ip)']_vars
  BY BlockAnswer
<1>2. QED
  BY <1>1, WorldInvariant, PTL DEF Spec, BlockEffective
=============================================================================

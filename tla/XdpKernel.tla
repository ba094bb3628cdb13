----------------------------- MODULE XdpKernel -----------------------------
(***************************************************************************)
(* The part of the Linux kernel the week 3 servers stand on, modelled from  *)
(* how the servers use it: the host interfaces, which carry a name and an   *)
(* interface index, and the XDP programs attached to them.  The interfaces  *)
(* are not the server's: the checker and the operator create, delete and    *)
(* rename them while the server runs.                                       *)
(***************************************************************************)
EXTENDS Naturals

CONSTANTS
  Names,        \* interface names a request may carry
  MaxIfindex    \* bound: how many interfaces are ever created

ASSUME MaxIfindexAssumption == MaxIfindex \in Nat

VARIABLES
  dev,          \* name -> index of the interface bearing it, or NoDev
  lastIfindex,  \* the last index handed out; an index is never given twice
  progs         \* indexes of the interfaces an XDP program is attached to

kernelVars == <<dev, lastIfindex, progs>>

NoDev == 0
Ifindex == 1..MaxIfindex

KernelTypeOK ==
  /\ dev \in [Names -> Ifindex \cup {NoDev}]
  /\ lastIfindex \in 0..MaxIfindex
  /\ progs \in SUBSET Ifindex

KernelInit ==
  /\ dev = [n \in Names |-> NoDev]
  /\ lastIfindex = 0
  /\ progs = {}

\* The indexes of the interfaces that exist now.
Devices == {dev[n] : n \in Names} \ {NoDev}

\* An interface appears under a free name, with an index never used before.
CreateDevice(n) ==
  /\ dev[n] = NoDev
  /\ lastIfindex < MaxIfindex
  /\ lastIfindex' = lastIfindex + 1
  /\ dev' = [dev EXCEPT ![n] = lastIfindex + 1]
  /\ UNCHANGED progs

\* Deleting an interface detaches the program it carries.
DeleteDevice(n) ==
  /\ dev[n] # NoDev
  /\ dev' = [dev EXCEPT ![n] = NoDev]
  /\ progs' = progs \ {dev[n]}
  /\ UNCHANGED lastIfindex

\* A renamed interface keeps its index and its program.
RenameDevice(m, n) ==
  /\ dev[m] # NoDev
  /\ dev[n] = NoDev
  /\ dev' = [dev EXCEPT ![m] = NoDev, ![n] = dev[m]]
  /\ UNCHANGED <<lastIfindex, progs>>

DeviceChange ==
  \/ \E n \in Names : CreateDevice(n) \/ DeleteDevice(n)
  \/ \E m, n \in Names : RenameDevice(m, n)

\* link.AttachXDP succeeds only on a live interface that carries no program:
\* the kernel answers ENODEV or EBUSY otherwise.
CanAttach(i) == i \in Devices \ progs
=============================================================================

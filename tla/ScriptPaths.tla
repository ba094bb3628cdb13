---------------------------- MODULE ScriptPaths -----------------------------
(***************************************************************************)
(* The paths through a script, and what the call that is made next does to *)
(* them.  A path goes through the calls of the script in their order and,  *)
(* where a call returns, through its clean-up.  What must be so on every   *)
(* path is said of the calls still to make, so that it can be an invariant *)
(* of a request: it holds of the whole script, each call made leaves the   *)
(* tail of it, and a call that returns leaves its clean-up.                *)
(*                                                                         *)
(* Throughout, sure are the calls that do not return where the path is     *)
(* followed, whatever their must says.                                     *)
(***************************************************************************)
EXTENDS Scripts, TLAPS

\* The calls of NetnsScripts, UnshareScripts and VethScripts.
OpNames ==
  {"stat", "reuse", "isMounted", "creat", "create", "remove", "unmount", "mountOwn",
   "mountLeader", "lock", "unlock", "exit", "own", "leader", "unshare", "getNew",
   "open", "enter", "restore", "restoreOrHang", "restoreOrDie", "start", "startNew",
   "reap", "pid", "valid", "kill", "acquire", "absent", "record", "release", "hang",
   "add", "addInNs", "addPeer", "delHost", "delPeer", "delTmp", "findHost", "findPeer",
   "findTmp", "hostAbsent", "tmpAbsent", "peerAbsent", "nsTmpAbsent", "hostAddr",
   "hostUp", "loUp", "move", "nsFindPeer", "nsFindTmp", "openNs", "parse", "peerAddr",
   "peerUp", "rename"}
ScriptCall == [op : OpNames, must : BOOLEAN, cleanup : Seq(OpNames)]

\* The clean-up of c makes a call of A before it makes one of B.
Undoes(c, A, B) ==
  \E k \in DOMAIN c.cleanup :
     c.cleanup[k] \in A /\ \A l \in 1 .. k - 1 : c.cleanup[l] \notin B

\* On the way of c a call of A is made, and none of B before it.
Reaches(c, A, B, sure) ==
  c.op \in A \/ (c.must /\ c.op \notin sure /\ Undoes(c, A, B))

\* Every call of A is made after one of B.
Preceded(s, A, B, sure) ==
  \A i \in DOMAIN s :
     Reaches(s[i], A, B, sure) => \E j \in 1 .. i - 1 : s[j].op \in B

\* Once a call of C is made, every call of A is made after one of B.
After(s, C, A, B, sure) ==
  \A i, k \in DOMAIN s :
     i < k /\ s[i].op \in C /\ Reaches(s[k], A, B, sure) =>
       \E j \in i + 1 .. k - 1 : s[j].op \in B

\* c can be the last call: it returns without a call of B, or ends by itself.
CanEnd(c, B, enders, sure) ==
  \/ c.must /\ c.op \notin sure /\ ~Undoes(c, B, enders)
  \/ c.op \in enders

\* No path ends without a call of B.
Leads(s, B, enders, sure) ==
  /\ \E j \in DOMAIN s : s[j].op \in B
  /\ \A i \in DOMAIN s :
       CanEnd(s[i], B, enders, sure) => \E j \in 1 .. i - 1 : s[j].op \in B

\* Once a call of C is made, no path ends without a call of B.
AfterLeads(s, C, B, enders, sure) ==
  \A i \in DOMAIN s : s[i].op \in C =>
    /\ \E j \in DOMAIN s : i < j /\ s[j].op \in B
    /\ \A k \in DOMAIN s :
         i < k /\ CanEnd(s[k], B, enders, sure) => \E j \in i + 1 .. k - 1 : s[j].op \in B

\* Once a call of C is made, in a clean-up or not, none of A is.
Once(s, C, A) ==
  /\ After(s, C, A, {}, {})
  /\ \A i \in DOMAIN s : \A k, l \in DOMAIN s[i].cleanup :
       k < l /\ s[i].cleanup[k] \in C => s[i].cleanup[l] \notin A

\* A clean-up makes no call of C, so nothing needs to follow one.
CleanupsAvoid(s, C) ==
  \A i \in DOMAIN s : \A k \in DOMAIN s[i].cleanup : s[i].cleanup[k] \notin C

\* Every call of C returns when it fails.
Musts(s, C) == \A i \in DOMAIN s : s[i].op \in C => s[i].must

\* t is what is left of s when its next call is made: the calls after it, or,
\* when it returns, its clean-up or nothing.
Abandons(s, t, sure) ==
  \/ Head(s).must /\ Head(s).op \notin sure /\ t = Quietly(Head(s).cleanup)
  \/ t = << >>
Onward(s, t, sure) == s # << >> /\ (t = Tail(s) \/ Abandons(s, t, sure))

-----------------------------------------------------------------------------
(* The next call *)

LEMMA HeadTail ==
  ASSUME NEW s \in Seq(ScriptCall), s # << >>
  PROVE  /\ Head(s) \in ScriptCall /\ Head(s) = s[1] /\ 1 \in DOMAIN s
         /\ Tail(s) \in Seq(ScriptCall)
         /\ DOMAIN s = 1 .. Len(s) /\ Len(s) \in Nat
         /\ DOMAIN Tail(s) = 1 .. Len(s) - 1
         /\ \A i \in DOMAIN Tail(s) : i + 1 \in DOMAIN s /\ Tail(s)[i] = s[i + 1]
OBVIOUS

LEMMA CallOps ==
  ASSUME NEW s \in Seq(ScriptCall), NEW i \in DOMAIN s
  PROVE  s[i] \in ScriptCall /\ s[i].op \in OpNames /\ s[i].must \in BOOLEAN
         /\ s[i].cleanup \in Seq(OpNames)
<1>1. s[i] \in ScriptCall
  OBVIOUS
<1>2. QED
  BY <1>1 DEF ScriptCall

LEMMA CleanupType ==
  ASSUME NEW s \in Seq(ScriptCall), s # << >>
  PROVE  Head(s).cleanup \in Seq(OpNames)
BY HeadTail DEF ScriptCall

LEMMA QuietlyType ==
  ASSUME NEW c \in Seq(OpNames)
  PROVE  /\ Quietly(c) \in Seq(ScriptCall)
         /\ DOMAIN Quietly(c) = DOMAIN c
         /\ \A k \in DOMAIN c : /\ Quietly(c)[k].op = c[k]
                                /\ Quietly(c)[k].must = FALSE
                                /\ Quietly(c)[k].cleanup = << >>
<1>1. \A k \in DOMAIN c : Do(c[k]) \in ScriptCall
  BY DEF Do, ScriptCall
<1>2. Quietly(c) \in Seq(ScriptCall) /\ DOMAIN Quietly(c) = DOMAIN c
  BY <1>1 DEF Quietly
<1>3. QED
  BY <1>2 DEF Quietly, Do

\* The next call is none of A, when those come after something else.
LEMMA PrecededHead ==
  ASSUME NEW s \in Seq(ScriptCall), s # << >>, NEW A, NEW B, NEW sure,
         Preceded(s, A, B, sure)
  PROVE  Head(s).op \notin A
BY HeadTail DEF Preceded, Reaches

LEMMA PrecededTail ==
  ASSUME NEW s \in Seq(ScriptCall), s # << >>, NEW A, NEW B, NEW sure,
         Preceded(s, A, B, sure), Head(s).op \notin B
  PROVE  Preceded(Tail(s), A, B, sure)
<1> SUFFICES ASSUME NEW i \in DOMAIN Tail(s), Reaches(Tail(s)[i], A, B, sure)
             PROVE  \E j \in 1 .. i - 1 : Tail(s)[j].op \in B
  BY DEF Preceded
<1>1. PICK j \in 1 .. i : s[j].op \in B
  BY HeadTail DEF Preceded
<1>2. j # 1
  BY HeadTail, <1>1
<1>3. j - 1 \in 1 .. i - 1 /\ Tail(s)[j - 1].op \in B
  BY HeadTail, <1>1, <1>2
<1>4. QED
  BY <1>3

\* In a clean-up only the calls themselves count.
LEMMA QuietlyReaches ==
  ASSUME NEW c \in Seq(OpNames), NEW k \in DOMAIN c, NEW A, NEW B, NEW sure
  PROVE  Reaches(Quietly(c)[k], A, B, sure) <=> c[k] \in A
<1>1. Quietly(c)[k].op = c[k] /\ Quietly(c)[k].must = FALSE
  BY QuietlyType
<1>2. QED
  BY <1>1 DEF Reaches

LEMMA QuietlyEnds ==
  ASSUME NEW c \in Seq(OpNames), NEW k \in DOMAIN c, NEW B, NEW enders, NEW sure
  PROVE  CanEnd(Quietly(c)[k], B, enders, sure) <=> c[k] \in enders
<1>1. Quietly(c)[k].op = c[k] /\ Quietly(c)[k].must = FALSE
  BY QuietlyType
<1>2. QED
  BY <1>1 DEF CanEnd

\* The clean-up of a call that returns.
LEMMA PrecededCleanup ==
  ASSUME NEW s \in Seq(ScriptCall), s # << >>, NEW A, NEW B, NEW sure,
         Preceded(s, A, B, sure), Head(s).must, Head(s).op \notin sure
  PROVE  Preceded(Quietly(Head(s).cleanup), A, B, sure)
<1>1. ~Undoes(Head(s), A, B) /\ Head(s).cleanup \in Seq(OpNames)
  BY HeadTail, CleanupType DEF Preceded, Reaches
<1>2. PICK c \in Seq(OpNames) : c = Head(s).cleanup
  BY <1>1
<1> SUFFICES ASSUME NEW k \in DOMAIN c, c[k] \in A
             PROVE  \E l \in 1 .. k - 1 : Quietly(c)[l].op \in B
  BY <1>2, QuietlyType, QuietlyReaches DEF Preceded
<1>3. PICK l \in 1 .. k - 1 : c[l] \in B
  BY <1>1, <1>2 DEF Undoes
<1>4. l \in DOMAIN c
  OBVIOUS
<1>5. QED
  BY <1>3, <1>4, QuietlyType

LEMMA AfterTail ==
  ASSUME NEW s \in Seq(ScriptCall), s # << >>, NEW C, NEW A, NEW B, NEW sure,
         After(s, C, A, B, sure)
  PROVE  After(Tail(s), C, A, B, sure)
<1> SUFFICES ASSUME NEW i \in DOMAIN Tail(s), NEW k \in DOMAIN Tail(s), i < k,
                    Tail(s)[i].op \in C, Reaches(Tail(s)[k], A, B, sure)
             PROVE  \E j \in i + 1 .. k - 1 : Tail(s)[j].op \in B
  BY DEF After
<1>1. PICK j \in i + 2 .. k : s[j].op \in B
  <2>1. i + 1 \in DOMAIN s /\ k + 1 \in DOMAIN s /\ i + 1 < k + 1
    BY HeadTail
  <2>2. s[i + 1].op \in C /\ Reaches(s[k + 1], A, B, sure)
    BY HeadTail
  <2>3. QED
    BY <2>1, <2>2, HeadTail DEF After
<1>2. j - 1 \in i + 1 .. k - 1 /\ Tail(s)[j - 1].op \in B
  BY HeadTail, <1>1
<1>3. QED
  BY <1>2

\* The call of C is made.
LEMMA AfterHead ==
  ASSUME NEW s \in Seq(ScriptCall), s # << >>, NEW C, NEW A, NEW B, NEW sure,
         After(s, C, A, B, sure), Head(s).op \in C
  PROVE  Preceded(Tail(s), A, B, sure)
<1> SUFFICES ASSUME NEW k \in DOMAIN Tail(s), Reaches(Tail(s)[k], A, B, sure)
             PROVE  \E j \in 1 .. k - 1 : Tail(s)[j].op \in B
  BY DEF Preceded
<1>1. PICK j \in 2 .. k : s[j].op \in B
  <2>1. k + 1 \in DOMAIN s /\ 1 < k + 1 /\ s[1].op \in C /\ Reaches(s[k + 1], A, B, sure)
    BY HeadTail
  <2>2. QED
    BY <2>1, HeadTail DEF After
<1>2. j - 1 \in 1 .. k - 1 /\ Tail(s)[j - 1].op \in B
  BY HeadTail, <1>1
<1>3. QED
  BY <1>2

LEMMA LeadsTail ==
  ASSUME NEW s \in Seq(ScriptCall), s # << >>, NEW B, NEW enders, NEW sure,
         Leads(s, B, enders, sure), Head(s).op \notin B
  PROVE  Leads(Tail(s), B, enders, sure)
<1>1. \E j \in DOMAIN Tail(s) : Tail(s)[j].op \in B
  <2>1. PICK j \in DOMAIN s : s[j].op \in B
    BY DEF Leads
  <2>2. j # 1
    BY <2>1, HeadTail
  <2>3. j - 1 \in DOMAIN Tail(s) /\ Tail(s)[j - 1].op \in B
    BY <2>1, <2>2, HeadTail
  <2>4. QED
    BY <2>3
<1>2. ASSUME NEW i \in DOMAIN Tail(s), CanEnd(Tail(s)[i], B, enders, sure)
      PROVE  \E j \in 1 .. i - 1 : Tail(s)[j].op \in B
  <2>1. PICK j \in 1 .. i : s[j].op \in B
    BY <1>2, HeadTail DEF Leads
  <2>2. j # 1
    BY <2>1, HeadTail
  <2>3. j - 1 \in 1 .. i - 1 /\ Tail(s)[j - 1].op \in B
    BY <2>1, <2>2, HeadTail
  <2>4. QED
    BY <2>3
<1>3. QED
  BY <1>1, <1>2 DEF Leads

\* The next call does not end the path, and has a call of B in its clean-up.
LEMMA LeadsHead ==
  ASSUME NEW s \in Seq(ScriptCall), NEW B, NEW enders, NEW sure,
         Leads(s, B, enders, sure)
  PROVE  s # << >> /\ ~CanEnd(Head(s), B, enders, sure)
<1>1. s # << >>
  BY DEF Leads
<1>2. QED
  BY <1>1, HeadTail DEF Leads

LEMMA UndoesLeads ==
  ASSUME NEW s \in Seq(ScriptCall), s # << >>, NEW B, NEW enders, NEW sure,
         Undoes(Head(s), B, enders), B \cap enders = {}
  PROVE  Leads(Quietly(Head(s).cleanup), B, enders, sure)
<1>1. Head(s).cleanup \in Seq(OpNames)
  BY HeadTail DEF ScriptCall
<1>2. PICK c \in Seq(OpNames) : c = Head(s).cleanup
  BY <1>1
<1>3. PICK k \in DOMAIN c : c[k] \in B /\ \A l \in 1 .. k - 1 : c[l] \notin enders
  BY <1>1, <1>2 DEF Undoes
<1>4. Quietly(c)[k].op \in B
  BY <1>3, QuietlyType
<1>5. ASSUME NEW i \in DOMAIN c, CanEnd(Quietly(c)[i], B, enders, sure)
      PROVE  \E l \in 1 .. i - 1 : Quietly(c)[l].op \in B
  <2>1. c[i] \in enders
    BY <1>5, QuietlyEnds
  <2>2. ~(i <= k)
    BY <1>3, <2>1
  <2>3. k \in 1 .. i - 1
    BY <2>2
  <2>4. QED
    BY <1>4, <2>3
<1>6. QED
  BY <1>2, <1>4, <1>5, QuietlyType DEF Leads

LEMMA LeadsCleanup ==
  ASSUME NEW s \in Seq(ScriptCall), NEW B, NEW enders, NEW sure,
         Leads(s, B, enders, sure), Head(s).must, Head(s).op \notin sure,
         B \cap enders = {}
  PROVE  Leads(Quietly(Head(s).cleanup), B, enders, sure)
BY LeadsHead, UndoesLeads DEF CanEnd

LEMMA AfterLeadsHead ==
  ASSUME NEW s \in Seq(ScriptCall), s # << >>, NEW C, NEW B, NEW enders, NEW sure,
         AfterLeads(s, C, B, enders, sure), Head(s).op \in C
  PROVE  Leads(Tail(s), B, enders, sure)
<1>1. \E j \in DOMAIN Tail(s) : Tail(s)[j].op \in B
  <2>1. PICK j \in DOMAIN s : 1 < j /\ s[j].op \in B
    BY HeadTail DEF AfterLeads
  <2>2. j - 1 \in DOMAIN Tail(s) /\ Tail(s)[j - 1].op \in B
    BY <2>1, HeadTail
  <2>3. QED
    BY <2>2
<1>2. ASSUME NEW i \in DOMAIN Tail(s), CanEnd(Tail(s)[i], B, enders, sure)
      PROVE  \E j \in 1 .. i - 1 : Tail(s)[j].op \in B
  <2>1. i + 1 \in DOMAIN s /\ 1 < i + 1 /\ CanEnd(s[i + 1], B, enders, sure)
    BY <1>2, HeadTail
  <2>2. PICK j \in 2 .. i : s[j].op \in B
    BY <2>1, HeadTail DEF AfterLeads
  <2>3. j - 1 \in 1 .. i - 1 /\ Tail(s)[j - 1].op \in B
    BY <2>2, HeadTail
  <2>4. QED
    BY <2>3
<1>3. QED
  BY <1>1, <1>2 DEF Leads

LEMMA AfterLeadsTail ==
  ASSUME NEW s \in Seq(ScriptCall), s # << >>, NEW C, NEW B, NEW enders, NEW sure,
         AfterLeads(s, C, B, enders, sure)
  PROVE  AfterLeads(Tail(s), C, B, enders, sure)
<1> SUFFICES ASSUME NEW i \in DOMAIN Tail(s), Tail(s)[i].op \in C
             PROVE  /\ \E j \in DOMAIN Tail(s) : i < j /\ Tail(s)[j].op \in B
                    /\ \A k \in DOMAIN Tail(s) :
                         i < k /\ CanEnd(Tail(s)[k], B, enders, sure) =>
                           \E j \in i + 1 .. k - 1 : Tail(s)[j].op \in B
  BY DEF AfterLeads
<1>1. i + 1 \in DOMAIN s /\ s[i + 1].op \in C
  BY HeadTail
<1>2. \E j \in DOMAIN Tail(s) : i < j /\ Tail(s)[j].op \in B
  <2>1. PICK j \in DOMAIN s : i + 1 < j /\ s[j].op \in B
    BY <1>1 DEF AfterLeads
  <2>2. j - 1 \in DOMAIN Tail(s) /\ i < j - 1 /\ Tail(s)[j - 1].op \in B
    BY <2>1, HeadTail
  <2>3. QED
    BY <2>2
<1>3. ASSUME NEW k \in DOMAIN Tail(s), i < k, CanEnd(Tail(s)[k], B, enders, sure)
      PROVE  \E j \in i + 1 .. k - 1 : Tail(s)[j].op \in B
  <2>1. k + 1 \in DOMAIN s /\ i + 1 < k + 1 /\ CanEnd(s[k + 1], B, enders, sure)
    BY <1>3, HeadTail
  <2>2. PICK j \in i + 2 .. k : s[j].op \in B
    BY <1>1, <2>1, HeadTail DEF AfterLeads
  <2>3. j - 1 \in i + 1 .. k - 1 /\ Tail(s)[j - 1].op \in B
    BY <2>2, HeadTail
  <2>4. QED
    BY <2>3
<1>4. QED
  BY <1>2, <1>3

\* Calls from outside a clean-up.
LEMMA AfterQuietly ==
  ASSUME NEW c \in Seq(OpNames), NEW C, NEW A, NEW B, NEW sure,
         \/ \A k \in DOMAIN c : c[k] \notin C
         \/ \A k \in DOMAIN c : c[k] \notin A
  PROVE  After(Quietly(c), C, A, B, sure)
BY QuietlyType, QuietlyReaches DEF After

LEMMA AfterLeadsQuietly ==
  ASSUME NEW c \in Seq(OpNames), NEW C, NEW B, NEW enders, NEW sure,
         \A k \in DOMAIN c : c[k] \notin C
  PROVE  AfterLeads(Quietly(c), C, B, enders, sure)
BY QuietlyType DEF AfterLeads

-----------------------------------------------------------------------------
(* Whatever way the next call goes *)

LEMMA OnwardType ==
  ASSUME NEW s \in Seq(ScriptCall), NEW t, NEW sure, Onward(s, t, sure)
  PROVE  t \in Seq(ScriptCall)
<1>1. CASE t = Tail(s)
  BY <1>1, HeadTail DEF Onward
<1>2. CASE t = << >>
  BY <1>2
<1>3. CASE t = Quietly(Head(s).cleanup)
  BY <1>3, CleanupType, QuietlyType DEF Onward
<1>4. QED
  BY <1>1, <1>2, <1>3 DEF Onward, Abandons

LEMMA PrecededOnward ==
  ASSUME NEW s \in Seq(ScriptCall), NEW t, NEW A, NEW B, NEW sure,
         Onward(s, t, sure), Preceded(s, A, B, sure),
         Head(s).op \in B => Abandons(s, t, sure)
  PROVE  Preceded(t, A, B, sure)
<1>1. CASE t = << >>
  BY <1>1 DEF Preceded
<1>2. CASE Head(s).must /\ Head(s).op \notin sure /\ t = Quietly(Head(s).cleanup)
  BY <1>2, PrecededCleanup DEF Onward
<1>3. CASE t = Tail(s) /\ Head(s).op \notin B
  BY <1>3, PrecededTail DEF Onward
<1>4. QED
  BY <1>1, <1>2, <1>3 DEF Onward, Abandons

LEMMA LeadsOnward ==
  ASSUME NEW s \in Seq(ScriptCall), NEW t, NEW B, NEW enders, NEW sure,
         Onward(s, t, sure), Leads(s, B, enders, sure), Head(s).op \notin B,
         t = << >> =>
           \/ t = Tail(s)
           \/ t = Quietly(Head(s).cleanup) /\ Head(s).must /\ Head(s).op \notin sure,
         B \cap enders = {}
  PROVE  Leads(t, B, enders, sure)
<1>1. CASE Head(s).must /\ Head(s).op \notin sure /\ t = Quietly(Head(s).cleanup)
  BY <1>1, LeadsCleanup
<1>2. CASE t = Tail(s)
  BY <1>2, LeadsTail DEF Onward
<1>3. QED
  BY <1>1, <1>2 DEF Onward, Abandons

\* What no clean-up does.
LEMMA CleanupsAvoidOnward ==
  ASSUME NEW s \in Seq(ScriptCall), NEW t, NEW C, NEW sure,
         Onward(s, t, sure), CleanupsAvoid(s, C)
  PROVE  CleanupsAvoid(t, C)
<1>1. CASE t = Tail(s)
  BY <1>1, HeadTail DEF CleanupsAvoid, Onward
<1>2. CASE t = << >>
  BY <1>2 DEF CleanupsAvoid
<1>3. CASE t = Quietly(Head(s).cleanup)
  <2>1. DOMAIN t = DOMAIN Head(s).cleanup
        /\ \A k \in DOMAIN t : t[k].cleanup = << >>
    BY <1>3, CleanupType, QuietlyType DEF Onward
  <2>2. QED
    BY <2>1 DEF CleanupsAvoid
<1>4. QED
  BY <1>1, <1>2, <1>3 DEF Onward, Abandons

LEMMA AvoidsCleanup ==
  ASSUME NEW s \in Seq(ScriptCall), s # << >>, NEW C, CleanupsAvoid(s, C)
  PROVE  \A k \in DOMAIN Head(s).cleanup : Head(s).cleanup[k] \notin C
BY HeadTail DEF CleanupsAvoid

LEMMA MustsOnward ==
  ASSUME NEW s \in Seq(ScriptCall), NEW t, NEW C, NEW sure,
         Onward(s, t, sure), Musts(s, C), CleanupsAvoid(s, C)
  PROVE  Musts(t, C)
<1>1. CASE t = Tail(s)
  BY <1>1, HeadTail DEF Musts, Onward
<1>2. CASE t = << >>
  BY <1>2 DEF Musts
<1>3. CASE t = Quietly(Head(s).cleanup)
  <2>1. DOMAIN t = DOMAIN Head(s).cleanup
        /\ \A k \in DOMAIN t : t[k].op = Head(s).cleanup[k]
    BY <1>3, CleanupType, QuietlyType DEF Onward
  <2>2. QED
    BY <2>1, AvoidsCleanup DEF Musts, Onward
<1>4. QED
  BY <1>1, <1>2, <1>3 DEF Onward, Abandons

LEMMA AfterOnward ==
  ASSUME NEW s \in Seq(ScriptCall), NEW t, NEW C, NEW A, NEW B, NEW sure,
         NEW certain, Onward(s, t, certain), After(s, C, A, B, sure),
         CleanupsAvoid(s, C) \/ CleanupsAvoid(s, A)
  PROVE  After(t, C, A, B, sure)
<1>1. CASE t = << >>
  BY <1>1 DEF After
<1>2. CASE t = Tail(s)
  BY <1>2, AfterTail DEF Onward
<1>3. CASE t = Quietly(Head(s).cleanup)
  BY <1>3, CleanupType, AvoidsCleanup, AfterQuietly DEF Onward
<1>4. QED
  BY <1>1, <1>2, <1>3 DEF Onward, Abandons

LEMMA AfterLeadsOnward ==
  ASSUME NEW s \in Seq(ScriptCall), NEW t, NEW C, NEW B, NEW enders, NEW sure,
         NEW certain, Onward(s, t, certain), AfterLeads(s, C, B, enders, sure),
         CleanupsAvoid(s, C)
  PROVE  AfterLeads(t, C, B, enders, sure)
<1>1. CASE t = << >>
  BY <1>1 DEF AfterLeads
<1>2. CASE t = Tail(s)
  BY <1>2, AfterLeadsTail DEF Onward
<1>3. CASE t = Quietly(Head(s).cleanup)
  BY <1>3, CleanupType, AvoidsCleanup, AfterLeadsQuietly DEF Onward
<1>4. QED
  BY <1>1, <1>2, <1>3 DEF Onward, Abandons

-----------------------------------------------------------------------------
(* The same of fewer paths *)

LEMMA OnceOnward ==
  ASSUME NEW s \in Seq(ScriptCall), NEW t, NEW C, NEW A, NEW sure,
         Onward(s, t, sure), Once(s, C, A)
  PROVE  Once(t, C, A)
<1>1. CASE t = Tail(s)
  <2>1. s # << >>
    BY DEF Onward
  <2>2. After(t, C, A, {}, {})
    BY <1>1, <2>1, AfterTail DEF Once
  <2>3. QED
    BY <1>1, <2>1, <2>2, HeadTail DEF Once
<1>2. CASE t = << >>
  BY <1>2 DEF Once, After
<1>3. CASE s # << >> /\ t = Quietly(Head(s).cleanup)
  <2>1. PICK c \in Seq(OpNames) : c = Head(s).cleanup
    BY <1>3, CleanupType
  <2>2. \A k, l \in DOMAIN c : k < l /\ c[k] \in C => c[l] \notin A
    BY <1>3, <2>1, HeadTail DEF Once
  <2>3. DOMAIN t = DOMAIN c /\ \A k \in DOMAIN c : t[k].op = c[k] /\ t[k].cleanup = << >>
    BY <1>3, <2>1, QuietlyType
  <2>4. \A k \in DOMAIN c : Reaches(t[k], A, {}, {}) <=> c[k] \in A
    BY <1>3, <2>1, QuietlyReaches
  <2>5. QED
    BY <2>2, <2>3, <2>4 DEF Once, After
<1>4. QED
  BY <1>1, <1>2, <1>3 DEF Onward, Abandons

LEMMA PrecededWeaker ==
  ASSUME NEW s, NEW A1, NEW A2, NEW B1, NEW B2, NEW sure1, NEW sure2,
         Preceded(s, A1, B1, sure1), A2 \subseteq A1, B1 \subseteq B2, sure1 \subseteq sure2
  PROVE  Preceded(s, A2, B2, sure2)
BY DEF Preceded, Reaches, Undoes

LEMMA AfterWeaker ==
  ASSUME NEW s, NEW C, NEW A1, NEW A2, NEW B1, NEW B2, NEW sure1, NEW sure2,
         After(s, C, A1, B1, sure1), A2 \subseteq A1, B1 \subseteq B2, sure1 \subseteq sure2
  PROVE  After(s, C, A2, B2, sure2)
BY DEF After, Reaches, Undoes

LEMMA AvoidWeaker ==
  ASSUME NEW s, NEW C1, NEW C2, CleanupsAvoid(s, C1), C2 \subseteq C1
  PROVE  CleanupsAvoid(s, C2)
BY DEF CleanupsAvoid
=============================================================================

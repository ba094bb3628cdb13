------------------------ MODULE NetnsScripts_proofs -------------------------
(***************************************************************************)
(* What holds of the paths through the scripts of NetnsScripts and         *)
(* UnshareScripts, one fact per script and idea: which call comes before   *)
(* which, what no path leaves out, and what a clean-up does.  The scripts  *)
(* are constants, so each lemma ...Facts is shown call by call; the lemmas *)
(* after them say the same of all scripts an operation can have, which is  *)
(* what the proofs about NetnsServer use.                                  *)
(***************************************************************************)
EXTENDS NetnsScripts, ScriptPaths

Homes == {"restore", "restoreOrHang", "restoreOrDie"}
Abroad == {"unshare", "enter"}
Mounts == {"mountOwn", "mountLeader"}
Leavers == {"restoreOrHang", "restoreOrDie"}
Finders == {"stat", "reuse"}

\* The calls no clean-up makes.
Firsts == {"lock", "own", "leader", "unshare", "enter", "mountOwn", "mountLeader", "open",
           "creat", "create", "start", "startNew", "record", "stat", "reuse", "acquire",
           "absent"}

\* No path makes a call of A.
Never(s, A) == Preceded(s, A, {}, {})

\* The calls after whose failure every submission returns.
Checked == {"own", "leader", "unshare", "enter", "mountOwn", "mountLeader", "open", "creat",
            "create", "start", "absent"}

Plain(s) == CleanupsAvoid(s, Firsts) /\ Musts(s, Checked)
Locked(s) ==
  /\ After(s, {"unlock", "exit"}, Abroad, {"lock"}, {})
  /\ AfterLeads(s, {"lock"}, {"unlock", "exit"}, Finders, {})
Fresh(s) ==
  /\ After(s, {"unlock", "exit", "enter", "mountOwn"} \cup Homes, {"mountOwn"}, {"unshare"}, {})
  /\ After(s, Abroad, {"own"}, {}, {})
\* What holds of every script, and of what is left of one.
Shape(s) == s \in Seq(ScriptCall) /\ Plain(s) /\ Locked(s) /\ Fresh(s)

\* What holds of every whole script.
Begins(s) ==
  /\ Preceded(s, Abroad, {"lock"}, {})
  /\ Preceded(s, Homes, {"own", "leader"}, {})
  /\ Preceded(s, {"mountOwn"}, {"unshare"}, {})
  /\ Preceded(s, {"record"}, {"mountOwn"}, {})
  /\ \A i \in DOMAIN s : s[i].op \notin Leavers \cup {"kill"}

\* Somebody waits for a child that was started.
Reaps(s, sure) == AfterLeads(s, {"start", "startNew"}, {"reap", "kill"}, Finders \cup Leavers, sure)

\* A thread abroad is brought home before it is given away.
Homeward(s, gives, back, sure) == After(s, Abroad, gives, back, sure)

\* A mount point that was made is mounted on or removed.
Tidies(s) ==
  /\ AfterLeads(s, {"creat", "create"}, Mounts \cup {"remove"}, Finders \cup Leavers, {})
  /\ \A i \in DOMAIN s : s[i].op \in Mounts => Undoes(s[i], {"remove"}, Finders \cup Leavers)
UnmountsLast(s) ==
  \A i \in DOMAIN s :
    /\ s[i].op = "unmount" => i + 1 \in DOMAIN s /\ s[i + 1].op = "remove" /\ ~s[i + 1].must
    /\ \A k \in DOMAIN s[i].cleanup :
         s[i].cleanup[k] = "unmount" =>
           k + 1 \in DOMAIN s[i].cleanup /\ s[i].cleanup[k + 1] = "remove"

\* A mount point is the work of one request: of the one that made the file, of the
\* one that has the name to itself, or of the one that holds the manager's mutex.
Exclusive(s, sure) ==
  /\ Preceded(s, Mounts \cup {"remove", "unmount"}, {"creat"}, sure)
  /\ After(s, Mounts, Mounts \cup {"remove", "unmount"}, {}, sure)
  /\ Once(s, {"remove"}, Mounts \cup {"remove", "unmount"})
Alone(s) ==
  /\ Preceded(s, Mounts \cup {"unmount"}, {"reuse"}, {})
  /\ After(s, Mounts, Mounts \cup {"unmount"}, {}, {})
Managed == Mounts \cup {"absent", "record", "release", "unmount"}
Manages(s) ==
  /\ Preceded(s, Managed, {"acquire"}, {})
  /\ Preceded(s, Mounts \cup {"unmount"}, {"absent"}, {})
  /\ After(s, Mounts, Mounts \cup {"unmount"}, {}, {})
  /\ AfterLeads(s, Mounts, {"record"}, Finders, {"restore"})
  /\ Once(s, {"release"}, Managed)

\* Scripts of the three requests.
Creates(s) ==
  /\ \E i \in DOMAIN s : s[i].op \in Mounts
  /\ After(s, Mounts, {"unmount"}, {}, OpNames)
Harmless(s) ==
  Never(s, Mounts \cup Finders \cup {"creat", "create", "remove", "unmount", "record",
                   "acquire", "absent", "release"})
Executes(s) ==
  /\ \E i \in DOMAIN s : s[i].op = "start"
  /\ Preceded(s, {"start"}, {"enter"}, {})
  /\ After(s, {"enter"}, {"open", "lock", "unlock", "exit", "unshare"} \cup Homes, {"start"}, OpNames)
  /\ After(s, {"start"}, {"start", "startNew", "open", "kill"}, {}, OpNames)
  /\ \A i \in DOMAIN s : s[i].op # "startNew"
Runs(s) ==
  /\ \E i \in DOMAIN s : s[i].must /\ s[i].op \in {"start", "startNew", "pid"}
  /\ Preceded(s, {"start"}, {"unshare"}, {})
  /\ After(s, {"start", "unlock", "exit", "enter"} \cup Homes, {"start"}, {"unshare"}, {})

Does(c, op) == c.op = op /\ c.must = FALSE /\ DOMAIN c.cleanup = 1 .. 0
Tries0(c, op) == c.op = op /\ c.must = TRUE /\ DOMAIN c.cleanup = 1 .. 0
Tries1(c, op, x1) == c.op = op /\ c.must = TRUE /\ DOMAIN c.cleanup = 1 .. 1 /\ c.cleanup[1] = x1
Tries2(c, op, x1, x2) == c.op = op /\ c.must = TRUE /\ DOMAIN c.cleanup = 1 .. 2 /\ c.cleanup[1] = x1 /\ c.cleanup[2] = x2
Tries3(c, op, x1, x2, x3) == c.op = op /\ c.must = TRUE /\ DOMAIN c.cleanup = 1 .. 3 /\ c.cleanup[1] = x1 /\ c.cleanup[2] = x2 /\ c.cleanup[3] = x3
Tries4(c, op, x1, x2, x3, x4) == c.op = op /\ c.must = TRUE /\ DOMAIN c.cleanup = 1 .. 4 /\ c.cleanup[1] = x1 /\ c.cleanup[2] = x2 /\ c.cleanup[3] = x3 /\ c.cleanup[4] = x4

LEMMA CreateWAFriend3416Facts ==
  ASSUME NEW s, s = CreateWAFriend3416
  PROVE  /\ Shape(s) /\ Begins(s)
         /\ Reaps(s, {"pid"})
         /\ Homeward(s, {"unlock", "exit"}, Homes, {"restore"})
         /\ Never(s, {"leader", "mountLeader", "record", "unmount", "restoreOrHang", "restoreOrDie"})
         /\ Tidies(s)
         /\ UnmountsLast(s)
         /\ Exclusive(s, {})
         /\ Creates(s)
<1> USE DEF Does, Tries0, Tries1, Tries2, Tries3, Tries4
<1>1. /\ DOMAIN s = 1 .. 8
      /\ Tries0(s[1], "stat")
      /\ Tries0(s[2], "creat")
      /\ Does(s[3], "lock")
      /\ Tries2(s[4], "own", "unlock", "remove")
      /\ Tries2(s[5], "unshare", "unlock", "remove")
      /\ Tries3(s[6], "mountOwn", "restore", "unlock", "remove")
      /\ Tries1(s[7], "restore", "unlock")
      /\ Does(s[8], "unlock")
  BY DEF CreateWAFriend3416, Try, Do
<1> USE DEF CleanupsAvoid, Musts, Preceded, After, AfterLeads, CanEnd, Reaches, Undoes,
          Homes, Abroad, Leavers, Firsts, Finders, Mounts
<1>2. s \in Seq(ScriptCall)
  BY DEF ScriptCall, OpNames, CreateWAFriend3416, Try, Do
<1>3. Plain(s)
  BY <1>1 DEF Plain, Checked
<1>4. Locked(s)
  <2>1. After(s, {"unlock", "exit"}, Abroad, {"lock"}, {})
    BY <1>1, SMTT(30)
  <2>2. AfterLeads(s, {"lock"}, {"unlock", "exit"}, Finders, {})
    BY <1>1, SMTT(30)
  <2>3. QED
    BY <2>1, <2>2 DEF Locked
<1>5. Fresh(s)
  BY <1>1, SMTT(30) DEF Fresh
<1>6. Begins(s)
  BY <1>1 DEF Begins
<1>7. Reaps(s, {"pid"})
  BY <1>1 DEF Reaps
<1>8. Homeward(s, {"unlock", "exit"}, Homes, {"restore"})
  BY <1>1 DEF Homeward
<1>9. Never(s, {"leader", "mountLeader", "record", "unmount", "restoreOrHang", "restoreOrDie"})
  BY <1>1 DEF Never
<1>10. Tidies(s)
  <2>1. AfterLeads(s, {"creat", "create"}, Mounts \cup {"remove"}, Finders \cup Leavers, {})
    BY <1>1, SMTT(30)
  <2>2. \A i \in DOMAIN s : s[i].op \in Mounts => Undoes(s[i], {"remove"}, Finders \cup Leavers)
    BY <1>1, SMTT(30)
  <2>3. QED
    BY <2>1, <2>2 DEF Tidies
<1>11. UnmountsLast(s)
  BY <1>1 DEF UnmountsLast
<1>12. Exclusive(s, {})
  <2>1. Preceded(s, Mounts \cup {"remove", "unmount"}, {"creat"}, {})
    BY <1>1, SMTT(30)
  <2>2. After(s, Mounts, Mounts \cup {"remove", "unmount"}, {}, {})
    BY <1>1, SMTT(30)
  <2>3. Once(s, {"remove"}, Mounts \cup {"remove", "unmount"})
    BY <1>1, SMTT(30) DEF Once
  <2>4. QED
    BY <2>1, <2>2, <2>3 DEF Exclusive
<1>13. \A i \in DOMAIN s : s[i].op \in OpNames
  BY <1>2, CallOps
<1>14. Creates(s)
  BY <1>1, <1>13 DEF Creates
<1>15. QED
  BY <1>2, <1>3, <1>4, <1>5, <1>6, <1>7, <1>8, <1>9, <1>10, <1>11, <1>12, <1>14 DEF Shape

LEMMA CreateStatsopsFacts ==
  ASSUME NEW s, s = CreateStatsops
  PROVE  /\ Shape(s) /\ Begins(s)
         /\ Reaps(s, {"pid"})
         /\ Homeward(s, {"unlock", "exit"}, Homes, {"restore", "getNew"})
         /\ Never(s, {"leader", "mountLeader", "record", "unmount", "restoreOrHang", "restoreOrDie"})
         /\ Tidies(s)
         /\ UnmountsLast(s)
         /\ Exclusive(s, {})
         /\ Creates(s)
<1> USE DEF Does, Tries0, Tries1, Tries2, Tries3, Tries4
<1>1. /\ DOMAIN s = 1 .. 9
      /\ Tries0(s[1], "stat")
      /\ Tries0(s[2], "creat")
      /\ Does(s[3], "lock")
      /\ Tries2(s[4], "own", "remove", "unlock")
      /\ Tries2(s[5], "unshare", "remove", "unlock")
      /\ Tries2(s[6], "getNew", "remove", "unlock")
      /\ Tries4(s[7], "mountOwn", "restore", "remove", "restore", "unlock")
      /\ Does(s[8], "restore")
      /\ Does(s[9], "unlock")
  BY DEF CreateStatsops, Try, Do
<1> USE DEF CleanupsAvoid, Musts, Preceded, After, AfterLeads, CanEnd, Reaches, Undoes,
          Homes, Abroad, Leavers, Firsts, Finders, Mounts
<1>2. s \in Seq(ScriptCall)
  BY DEF ScriptCall, OpNames, CreateStatsops, Try, Do
<1>3. Plain(s)
  BY <1>1 DEF Plain, Checked
<1>4. Locked(s)
  <2>1. After(s, {"unlock", "exit"}, Abroad, {"lock"}, {})
    BY <1>1, SMTT(30)
  <2>2. AfterLeads(s, {"lock"}, {"unlock", "exit"}, Finders, {})
    BY <1>1, SMTT(30)
  <2>3. QED
    BY <2>1, <2>2 DEF Locked
<1>5. Fresh(s)
  BY <1>1, SMTT(30) DEF Fresh
<1>6. Begins(s)
  BY <1>1 DEF Begins
<1>7. Reaps(s, {"pid"})
  BY <1>1 DEF Reaps
<1>8. Homeward(s, {"unlock", "exit"}, Homes, {"restore", "getNew"})
  BY <1>1 DEF Homeward
<1>9. Never(s, {"leader", "mountLeader", "record", "unmount", "restoreOrHang", "restoreOrDie"})
  BY <1>1 DEF Never
<1>10. Tidies(s)
  <2>1. AfterLeads(s, {"creat", "create"}, Mounts \cup {"remove"}, Finders \cup Leavers, {})
    BY <1>1, SMTT(30)
  <2>2. \A i \in DOMAIN s : s[i].op \in Mounts => Undoes(s[i], {"remove"}, Finders \cup Leavers)
    BY <1>1, SMTT(30)
  <2>3. QED
    BY <2>1, <2>2 DEF Tidies
<1>11. UnmountsLast(s)
  BY <1>1 DEF UnmountsLast
<1>12. Exclusive(s, {})
  <2>1. Preceded(s, Mounts \cup {"remove", "unmount"}, {"creat"}, {})
    BY <1>1, SMTT(30)
  <2>2. After(s, Mounts, Mounts \cup {"remove", "unmount"}, {}, {})
    BY <1>1, SMTT(30)
  <2>3. Once(s, {"remove"}, Mounts \cup {"remove", "unmount"})
    BY <1>1, SMTT(30) DEF Once
  <2>4. QED
    BY <2>1, <2>2, <2>3 DEF Exclusive
<1>13. \A i \in DOMAIN s : s[i].op \in OpNames
  BY <1>2, CallOps
<1>14. Creates(s)
  BY <1>1, <1>13 DEF Creates
<1>15. QED
  BY <1>2, <1>3, <1>4, <1>5, <1>6, <1>7, <1>8, <1>9, <1>10, <1>11, <1>12, <1>14 DEF Shape

LEMMA CreateSaguanamuFacts ==
  ASSUME NEW s, s = CreateSaguanamu
  PROVE  /\ Shape(s) /\ Begins(s)
         /\ Reaps(s, {"pid"})
         /\ Homeward(s, {"unlock", "exit"}, Homes, {"restore", "getNew"})
         /\ Never(s, {"leader", "record", "unmount", "restoreOrHang", "restoreOrDie"})
         /\ Tidies(s)
         /\ UnmountsLast(s)
         /\ Exclusive(s, {})
         /\ Creates(s)
<1> USE DEF Does, Tries0, Tries1, Tries2, Tries3, Tries4
<1>1. /\ DOMAIN s = 1 .. 9
      /\ Tries0(s[1], "stat")
      /\ Tries0(s[2], "creat")
      /\ Does(s[3], "lock")
      /\ Tries2(s[4], "own", "remove", "unlock")
      /\ Tries2(s[5], "unshare", "remove", "unlock")
      /\ Tries2(s[6], "getNew", "remove", "unlock")
      /\ Tries4(s[7], "mountLeader", "restore", "remove", "restore", "unlock")
      /\ Does(s[8], "restore")
      /\ Does(s[9], "unlock")
  BY DEF CreateSaguanamu, Try, Do
<1> USE DEF CleanupsAvoid, Musts, Preceded, After, AfterLeads, CanEnd, Reaches, Undoes,
          Homes, Abroad, Leavers, Firsts, Finders, Mounts
<1>2. s \in Seq(ScriptCall)
  BY DEF ScriptCall, OpNames, CreateSaguanamu, Try, Do
<1>3. Plain(s)
  BY <1>1 DEF Plain, Checked
<1>4. Locked(s)
  <2>1. After(s, {"unlock", "exit"}, Abroad, {"lock"}, {})
    BY <1>1, SMTT(30)
  <2>2. AfterLeads(s, {"lock"}, {"unlock", "exit"}, Finders, {})
    BY <1>1, SMTT(30)
  <2>3. QED
    BY <2>1, <2>2 DEF Locked
<1>5. Fresh(s)
  BY <1>1, SMTT(30) DEF Fresh
<1>6. Begins(s)
  BY <1>1 DEF Begins
<1>7. Reaps(s, {"pid"})
  BY <1>1 DEF Reaps
<1>8. Homeward(s, {"unlock", "exit"}, Homes, {"restore", "getNew"})
  BY <1>1 DEF Homeward
<1>9. Never(s, {"leader", "record", "unmount", "restoreOrHang", "restoreOrDie"})
  BY <1>1 DEF Never
<1>10. Tidies(s)
  <2>1. AfterLeads(s, {"creat", "create"}, Mounts \cup {"remove"}, Finders \cup Leavers, {})
    BY <1>1, SMTT(30)
  <2>2. \A i \in DOMAIN s : s[i].op \in Mounts => Undoes(s[i], {"remove"}, Finders \cup Leavers)
    BY <1>1, SMTT(30)
  <2>3. QED
    BY <2>1, <2>2 DEF Tidies
<1>11. UnmountsLast(s)
  BY <1>1 DEF UnmountsLast
<1>12. Exclusive(s, {})
  <2>1. Preceded(s, Mounts \cup {"remove", "unmount"}, {"creat"}, {})
    BY <1>1, SMTT(30)
  <2>2. After(s, Mounts, Mounts \cup {"remove", "unmount"}, {}, {})
    BY <1>1, SMTT(30)
  <2>3. Once(s, {"remove"}, Mounts \cup {"remove", "unmount"})
    BY <1>1, SMTT(30) DEF Once
  <2>4. QED
    BY <2>1, <2>2, <2>3 DEF Exclusive
<1>13. \A i \in DOMAIN s : s[i].op \in OpNames
  BY <1>2, CallOps
<1>14. Creates(s)
  BY <1>1, <1>13 DEF Creates
<1>15. QED
  BY <1>2, <1>3, <1>4, <1>5, <1>6, <1>7, <1>8, <1>9, <1>10, <1>11, <1>12, <1>14 DEF Shape

LEMMA CreateGpffh20Facts ==
  ASSUME NEW s, s = CreateGpffh20
  PROVE  /\ Shape(s) /\ Begins(s)
         /\ Reaps(s, {"pid"})
         /\ Homeward(s, {"unlock", "exit"}, Homes, {"restore"})
         /\ Never(s, {"leader", "mountLeader", "record", "unmount", "restoreOrHang", "restoreOrDie"})
         /\ Tidies(s)
         /\ UnmountsLast(s)
         /\ Exclusive(s, {})
         /\ Creates(s)
<1> USE DEF Does, Tries0, Tries1, Tries2, Tries3, Tries4
<1>1. /\ DOMAIN s = 1 .. 8
      /\ Tries0(s[1], "stat")
      /\ Tries0(s[2], "creat")
      /\ Does(s[3], "lock")
      /\ Tries2(s[4], "own", "unlock", "remove")
      /\ Tries2(s[5], "unshare", "unlock", "remove")
      /\ Tries3(s[6], "mountOwn", "restore", "unlock", "remove")
      /\ Does(s[7], "restore")
      /\ Does(s[8], "unlock")
  BY DEF CreateGpffh20, Try, Do
<1> USE DEF CleanupsAvoid, Musts, Preceded, After, AfterLeads, CanEnd, Reaches, Undoes,
          Homes, Abroad, Leavers, Firsts, Finders, Mounts
<1>2. s \in Seq(ScriptCall)
  BY DEF ScriptCall, OpNames, CreateGpffh20, Try, Do
<1>3. Plain(s)
  BY <1>1 DEF Plain, Checked
<1>4. Locked(s)
  <2>1. After(s, {"unlock", "exit"}, Abroad, {"lock"}, {})
    BY <1>1, SMTT(30)
  <2>2. AfterLeads(s, {"lock"}, {"unlock", "exit"}, Finders, {})
    BY <1>1, SMTT(30)
  <2>3. QED
    BY <2>1, <2>2 DEF Locked
<1>5. Fresh(s)
  BY <1>1, SMTT(30) DEF Fresh
<1>6. Begins(s)
  BY <1>1 DEF Begins
<1>7. Reaps(s, {"pid"})
  BY <1>1 DEF Reaps
<1>8. Homeward(s, {"unlock", "exit"}, Homes, {"restore"})
  BY <1>1 DEF Homeward
<1>9. Never(s, {"leader", "mountLeader", "record", "unmount", "restoreOrHang", "restoreOrDie"})
  BY <1>1 DEF Never
<1>10. Tidies(s)
  <2>1. AfterLeads(s, {"creat", "create"}, Mounts \cup {"remove"}, Finders \cup Leavers, {})
    BY <1>1, SMTT(30)
  <2>2. \A i \in DOMAIN s : s[i].op \in Mounts => Undoes(s[i], {"remove"}, Finders \cup Leavers)
    BY <1>1, SMTT(30)
  <2>3. QED
    BY <2>1, <2>2 DEF Tidies
<1>11. UnmountsLast(s)
  BY <1>1 DEF UnmountsLast
<1>12. Exclusive(s, {})
  <2>1. Preceded(s, Mounts \cup {"remove", "unmount"}, {"creat"}, {})
    BY <1>1, SMTT(30)
  <2>2. After(s, Mounts, Mounts \cup {"remove", "unmount"}, {}, {})
    BY <1>1, SMTT(30)
  <2>3. Once(s, {"remove"}, Mounts \cup {"remove", "unmount"})
    BY <1>1, SMTT(30) DEF Once
  <2>4. QED
    BY <2>1, <2>2, <2>3 DEF Exclusive
<1>13. \A i \in DOMAIN s : s[i].op \in OpNames
  BY <1>2, CallOps
<1>14. Creates(s)
  BY <1>1, <1>13 DEF Creates
<1>15. QED
  BY <1>2, <1>3, <1>4, <1>5, <1>6, <1>7, <1>8, <1>9, <1>10, <1>11, <1>12, <1>14 DEF Shape

LEMMA CreateYeomin4242Facts ==
  ASSUME NEW s, s = CreateYeomin4242
  PROVE  /\ Shape(s) /\ Begins(s)
         /\ Reaps(s, {"pid"})
         /\ Homeward(s, {"unlock", "exit"}, Homes, {"restore", "getNew"})
         /\ Never(s, {"leader", "mountLeader", "record", "restoreOrHang", "restoreOrDie"})
         /\ Tidies(s)
         /\ UnmountsLast(s)
         /\ Exclusive(s, {"restore"})
         /\ Preceded(s, {"unmount"}, {}, {"restore"})
         /\ Creates(s)
<1> USE DEF Does, Tries0, Tries1, Tries2, Tries3, Tries4
<1>1. /\ DOMAIN s = 1 .. 9
      /\ Tries0(s[1], "stat")
      /\ Tries0(s[2], "creat")
      /\ Does(s[3], "lock")
      /\ Tries2(s[4], "own", "unlock", "remove")
      /\ Tries2(s[5], "unshare", "unlock", "remove")
      /\ Tries2(s[6], "getNew", "unlock", "remove")
      /\ Tries3(s[7], "mountOwn", "restore", "unlock", "remove")
      /\ Tries4(s[8], "restore", "restore", "unlock", "unmount", "remove")
      /\ Does(s[9], "unlock")
  BY DEF CreateYeomin4242, Try, Do
<1> USE DEF CleanupsAvoid, Musts, Preceded, After, AfterLeads, CanEnd, Reaches, Undoes,
          Homes, Abroad, Leavers, Firsts, Finders, Mounts
<1>2. s \in Seq(ScriptCall)
  BY DEF ScriptCall, OpNames, CreateYeomin4242, Try, Do
<1>3. Plain(s)
  BY <1>1 DEF Plain, Checked
<1>4. Locked(s)
  <2>1. After(s, {"unlock", "exit"}, Abroad, {"lock"}, {})
    BY <1>1, SMTT(30)
  <2>2. AfterLeads(s, {"lock"}, {"unlock", "exit"}, Finders, {})
    BY <1>1, SMTT(30)
  <2>3. QED
    BY <2>1, <2>2 DEF Locked
<1>5. Fresh(s)
  BY <1>1, SMTT(30) DEF Fresh
<1>6. Begins(s)
  BY <1>1 DEF Begins
<1>7. Reaps(s, {"pid"})
  BY <1>1 DEF Reaps
<1>8. Homeward(s, {"unlock", "exit"}, Homes, {"restore", "getNew"})
  BY <1>1 DEF Homeward
<1>9. Never(s, {"leader", "mountLeader", "record", "restoreOrHang", "restoreOrDie"})
  BY <1>1 DEF Never
<1>10. Tidies(s)
  <2>1. AfterLeads(s, {"creat", "create"}, Mounts \cup {"remove"}, Finders \cup Leavers, {})
    BY <1>1, SMTT(30)
  <2>2. \A i \in DOMAIN s : s[i].op \in Mounts => Undoes(s[i], {"remove"}, Finders \cup Leavers)
    BY <1>1, SMTT(30)
  <2>3. QED
    BY <2>1, <2>2 DEF Tidies
<1>11. UnmountsLast(s)
  BY <1>1 DEF UnmountsLast
<1>12. Exclusive(s, {"restore"})
  <2>1. Preceded(s, Mounts \cup {"remove", "unmount"}, {"creat"}, {"restore"})
    BY <1>1, SMTT(30)
  <2>2. After(s, Mounts, Mounts \cup {"remove", "unmount"}, {}, {"restore"})
    BY <1>1, SMTT(30)
  <2>3. Once(s, {"remove"}, Mounts \cup {"remove", "unmount"})
    BY <1>1, SMTT(30) DEF Once
  <2>4. QED
    BY <2>1, <2>2, <2>3 DEF Exclusive
<1>13. Preceded(s, {"unmount"}, {}, {"restore"})
  BY <1>1
<1>14. \A i \in DOMAIN s : s[i].op \in OpNames
  BY <1>2, CallOps
<1>15. Creates(s)
  BY <1>1, <1>14 DEF Creates
<1>16. QED
  BY <1>2, <1>3, <1>4, <1>5, <1>6, <1>7, <1>8, <1>9, <1>10, <1>11, <1>12, <1>13, <1>15 DEF Shape

LEMMA CreateLnauraFacts ==
  ASSUME NEW s, s = CreateLnaura
  PROVE  /\ Shape(s) /\ Begins(s)
         /\ Reaps(s, {"pid"})
         /\ Homeward(s, {"unlock"}, {}, {})
         /\ Never(s, {"leader", "mountLeader", "record", "restoreOrHang", "restoreOrDie"})
         /\ Tidies(s)
         /\ UnmountsLast(s)
         /\ Alone(s)
         /\ Creates(s)
<1> USE DEF Does, Tries0, Tries1, Tries2, Tries3, Tries4
<1>1. /\ DOMAIN s = 1 .. 8
      /\ Does(s[1], "reuse")
      /\ Does(s[2], "unmount")
      /\ Does(s[3], "remove")
      /\ Tries0(s[4], "creat")
      /\ Does(s[5], "lock")
      /\ Tries2(s[6], "unshare", "exit", "remove")
      /\ Tries2(s[7], "mountOwn", "exit", "remove")
      /\ Does(s[8], "exit")
  BY DEF CreateLnaura, Try, Do
<1> USE DEF CleanupsAvoid, Musts, Preceded, After, AfterLeads, CanEnd, Reaches, Undoes,
          Homes, Abroad, Leavers, Firsts, Finders, Mounts
<1>2. s \in Seq(ScriptCall)
  BY DEF ScriptCall, OpNames, CreateLnaura, Try, Do
<1>3. Plain(s)
  BY <1>1 DEF Plain, Checked
<1>4. Locked(s)
  <2>1. After(s, {"unlock", "exit"}, Abroad, {"lock"}, {})
    BY <1>1, SMTT(30)
  <2>2. AfterLeads(s, {"lock"}, {"unlock", "exit"}, Finders, {})
    BY <1>1, SMTT(30)
  <2>3. QED
    BY <2>1, <2>2 DEF Locked
<1>5. Fresh(s)
  BY <1>1, SMTT(30) DEF Fresh
<1>6. Begins(s)
  BY <1>1 DEF Begins
<1>7. Reaps(s, {"pid"})
  BY <1>1 DEF Reaps
<1>8. Homeward(s, {"unlock"}, {}, {})
  BY <1>1 DEF Homeward
<1>9. Never(s, {"leader", "mountLeader", "record", "restoreOrHang", "restoreOrDie"})
  BY <1>1 DEF Never
<1>10. Tidies(s)
  <2>1. AfterLeads(s, {"creat", "create"}, Mounts \cup {"remove"}, Finders \cup Leavers, {})
    BY <1>1, SMTT(30)
  <2>2. \A i \in DOMAIN s : s[i].op \in Mounts => Undoes(s[i], {"remove"}, Finders \cup Leavers)
    BY <1>1, SMTT(30)
  <2>3. QED
    BY <2>1, <2>2 DEF Tidies
<1>11. UnmountsLast(s)
  BY <1>1 DEF UnmountsLast
<1>12. Alone(s)
  BY <1>1 DEF Alone
<1>13. \A i \in DOMAIN s : s[i].op \in OpNames
  BY <1>2, CallOps
<1>14. Creates(s)
  BY <1>1, <1>13 DEF Creates
<1>15. QED
  BY <1>2, <1>3, <1>4, <1>5, <1>6, <1>7, <1>8, <1>9, <1>10, <1>11, <1>12, <1>14 DEF Shape

LEMMA CreateKhsAltFacts ==
  ASSUME NEW s, s = CreateKhsAlt
  PROVE  /\ Shape(s) /\ Begins(s)
         /\ Reaps(s, {"pid"})
         /\ Never(s, {"mountLeader", "record", "unmount", "restoreOrHang", "restoreOrDie"})
         /\ UnmountsLast(s)
         /\ Creates(s)
<1> USE DEF Does, Tries0, Tries1, Tries2, Tries3, Tries4
<1>1. /\ DOMAIN s = 1 .. 7
      /\ Does(s[1], "lock")
      /\ Tries1(s[2], "leader", "unlock")
      /\ Tries1(s[3], "unshare", "unlock")
      /\ Tries1(s[4], "create", "unlock")
      /\ Tries1(s[5], "mountOwn", "unlock")
      /\ Tries1(s[6], "restore", "unlock")
      /\ Does(s[7], "unlock")
  BY DEF CreateKhsAlt, Try, Do
<1> USE DEF CleanupsAvoid, Musts, Preceded, After, AfterLeads, CanEnd, Reaches, Undoes,
          Homes, Abroad, Leavers, Firsts, Finders, Mounts
<1>2. s \in Seq(ScriptCall)
  BY DEF ScriptCall, OpNames, CreateKhsAlt, Try, Do
<1>3. Plain(s)
  BY <1>1 DEF Plain, Checked
<1>4. Locked(s)
  <2>1. After(s, {"unlock", "exit"}, Abroad, {"lock"}, {})
    BY <1>1, SMTT(30)
  <2>2. AfterLeads(s, {"lock"}, {"unlock", "exit"}, Finders, {})
    BY <1>1, SMTT(30)
  <2>3. QED
    BY <2>1, <2>2 DEF Locked
<1>5. Fresh(s)
  BY <1>1, SMTT(30) DEF Fresh
<1>6. Begins(s)
  BY <1>1 DEF Begins
<1>7. Reaps(s, {"pid"})
  BY <1>1 DEF Reaps
<1>8. Never(s, {"mountLeader", "record", "unmount", "restoreOrHang", "restoreOrDie"})
  BY <1>1 DEF Never
<1>9. UnmountsLast(s)
  BY <1>1 DEF UnmountsLast
<1>10. \A i \in DOMAIN s : s[i].op \in OpNames
  BY <1>2, CallOps
<1>11. Creates(s)
  BY <1>1, <1>10 DEF Creates
<1>12. QED
  BY <1>2, <1>3, <1>4, <1>5, <1>6, <1>7, <1>8, <1>9, <1>11 DEF Shape

LEMMA CreateJoseng8908Facts ==
  ASSUME NEW s, s = CreateJoseng8908
  PROVE  /\ Shape(s) /\ Begins(s)
         /\ Reaps(s, {"pid"})
         /\ Homeward(s, {"unlock"}, Homes, {"restore"})
         /\ Never(s, {"mountLeader", "unmount", "restoreOrDie"})
         /\ Tidies(s)
         /\ UnmountsLast(s)
         /\ Manages(s)
         /\ Creates(s)
<1> USE DEF Does, Tries0, Tries1, Tries2, Tries3, Tries4
<1>1. /\ DOMAIN s = 1 .. 11
      /\ Does(s[1], "acquire")
      /\ Tries1(s[2], "absent", "release")
      /\ Does(s[3], "lock")
      /\ Tries2(s[4], "leader", "unlock", "release")
      /\ Tries2(s[5], "unshare", "unlock", "release")
      /\ Tries3(s[6], "create", "restoreOrHang", "unlock", "release")
      /\ Tries4(s[7], "mountOwn", "remove", "restoreOrHang", "unlock", "release")
      /\ Tries2(s[8], "restore", "unlock", "release")
      /\ Does(s[9], "unlock")
      /\ Does(s[10], "record")
      /\ Does(s[11], "release")
  BY DEF CreateJoseng8908, Try, Do
<1> USE DEF CleanupsAvoid, Musts, Preceded, After, AfterLeads, CanEnd, Reaches, Undoes,
          Homes, Abroad, Leavers, Firsts, Finders, Mounts
<1>2. s \in Seq(ScriptCall)
  BY DEF ScriptCall, OpNames, CreateJoseng8908, Try, Do
<1>3. Plain(s)
  BY <1>1 DEF Plain, Checked
<1>4. Locked(s)
  <2>1. After(s, {"unlock", "exit"}, Abroad, {"lock"}, {})
    BY <1>1, SMTT(30)
  <2>2. AfterLeads(s, {"lock"}, {"unlock", "exit"}, Finders, {})
    BY <1>1, SMTT(30)
  <2>3. QED
    BY <2>1, <2>2 DEF Locked
<1>5. Fresh(s)
  BY <1>1, SMTT(30) DEF Fresh
<1>6. Begins(s)
  BY <1>1 DEF Begins
<1>7. Reaps(s, {"pid"})
  BY <1>1 DEF Reaps
<1>8. Homeward(s, {"unlock"}, Homes, {"restore"})
  BY <1>1 DEF Homeward
<1>9. Never(s, {"mountLeader", "unmount", "restoreOrDie"})
  BY <1>1 DEF Never
<1>10. Tidies(s)
  <2>1. AfterLeads(s, {"creat", "create"}, Mounts \cup {"remove"}, Finders \cup Leavers, {})
    BY <1>1, SMTT(30)
  <2>2. \A i \in DOMAIN s : s[i].op \in Mounts => Undoes(s[i], {"remove"}, Finders \cup Leavers)
    BY <1>1, SMTT(30)
  <2>3. QED
    BY <2>1, <2>2 DEF Tidies
<1>11. UnmountsLast(s)
  BY <1>1 DEF UnmountsLast
<1>12. Manages(s)
  <2>1. Preceded(s, Managed, {"acquire"}, {})
    BY <1>1, SMTT(30) DEF Managed
  <2>2. Preceded(s, Mounts \cup {"unmount"}, {"absent"}, {})
    BY <1>1, SMTT(30)
  <2>3. After(s, Mounts, Mounts \cup {"unmount"}, {}, {})
    BY <1>1, SMTT(30)
  <2>4. AfterLeads(s, Mounts, {"record"}, Finders, {"restore"})
    BY <1>1, SMTT(30)
  <2>5. Once(s, {"release"}, Managed)
    BY <1>1, SMTT(30) DEF Once, Managed
  <2>6. QED
    BY <2>1, <2>2, <2>3, <2>4, <2>5 DEF Manages
<1>13. \A i \in DOMAIN s : s[i].op \in OpNames
  BY <1>2, CallOps
<1>14. Creates(s)
  BY <1>1, <1>13 DEF Creates
<1>15. QED
  BY <1>2, <1>3, <1>4, <1>5, <1>6, <1>7, <1>8, <1>9, <1>10, <1>11, <1>12, <1>14 DEF Shape

LEMMA ExecWAFriend3416Facts ==
  ASSUME NEW s, s = ExecWAFriend3416
  PROVE  /\ Shape(s) /\ Begins(s)
         /\ Reaps(s, {"pid"})
         /\ Homeward(s, {"unlock", "exit"}, Homes, {"restore"})
         /\ Never(s, {"leader", "restoreOrHang", "restoreOrDie"})
         /\ Harmless(s)
         /\ Tidies(s)
         /\ UnmountsLast(s)
         /\ Exclusive(s, {})
         /\ Executes(s)
<1> USE DEF Does, Tries0, Tries1, Tries2, Tries3, Tries4
<1>1. /\ DOMAIN s = 1 .. 8
      /\ Tries0(s[1], "open")
      /\ Does(s[2], "lock")
      /\ Tries1(s[3], "own", "unlock")
      /\ Tries1(s[4], "enter", "unlock")
      /\ Tries2(s[5], "start", "restore", "unlock")
      /\ Does(s[6], "reap")
      /\ Tries1(s[7], "restore", "unlock")
      /\ Does(s[8], "unlock")
  BY DEF ExecWAFriend3416, Try, Do
<1> USE DEF CleanupsAvoid, Musts, Preceded, After, AfterLeads, CanEnd, Reaches, Undoes,
          Homes, Abroad, Leavers, Firsts, Finders, Mounts
<1>2. s \in Seq(ScriptCall)
  BY DEF ScriptCall, OpNames, ExecWAFriend3416, Try, Do
<1>3. Plain(s)
  BY <1>1 DEF Plain, Checked
<1>4. Locked(s)
  <2>1. After(s, {"unlock", "exit"}, Abroad, {"lock"}, {})
    BY <1>1, SMTT(30)
  <2>2. AfterLeads(s, {"lock"}, {"unlock", "exit"}, Finders, {})
    BY <1>1, SMTT(30)
  <2>3. QED
    BY <2>1, <2>2 DEF Locked
<1>5. Fresh(s)
  BY <1>1, SMTT(30) DEF Fresh
<1>6. Begins(s)
  BY <1>1 DEF Begins
<1>7. Reaps(s, {"pid"})
  BY <1>1 DEF Reaps
<1>8. Homeward(s, {"unlock", "exit"}, Homes, {"restore"})
  BY <1>1 DEF Homeward
<1>9. Never(s, {"leader", "restoreOrHang", "restoreOrDie"})
  BY <1>1 DEF Never
<1>10. Harmless(s)
  BY <1>1 DEF Harmless, Never
<1>11. Tidies(s)
  <2>1. AfterLeads(s, {"creat", "create"}, Mounts \cup {"remove"}, Finders \cup Leavers, {})
    BY <1>1, SMTT(30)
  <2>2. \A i \in DOMAIN s : s[i].op \in Mounts => Undoes(s[i], {"remove"}, Finders \cup Leavers)
    BY <1>1, SMTT(30)
  <2>3. QED
    BY <2>1, <2>2 DEF Tidies
<1>12. UnmountsLast(s)
  BY <1>1 DEF UnmountsLast
<1>13. Exclusive(s, {})
  <2>1. Preceded(s, Mounts \cup {"remove", "unmount"}, {"creat"}, {})
    BY <1>1, SMTT(30)
  <2>2. After(s, Mounts, Mounts \cup {"remove", "unmount"}, {}, {})
    BY <1>1, SMTT(30)
  <2>3. Once(s, {"remove"}, Mounts \cup {"remove", "unmount"})
    BY <1>1, SMTT(30) DEF Once
  <2>4. QED
    BY <2>1, <2>2, <2>3 DEF Exclusive
<1>14. \A i \in DOMAIN s : s[i].op \in OpNames
  BY <1>2, CallOps
<1>15. Executes(s)
  BY <1>1, <1>14, SMTT(30) DEF Executes
<1>16. QED
  BY <1>2, <1>3, <1>4, <1>5, <1>6, <1>7, <1>8, <1>9, <1>10, <1>11, <1>12, <1>13, <1>15 DEF Shape

LEMMA ExecStatsopsFacts ==
  ASSUME NEW s, s = ExecStatsops
  PROVE  /\ Shape(s) /\ Begins(s)
         /\ Reaps(s, {"pid"})
         /\ Homeward(s, {"unlock", "exit"}, Homes, {"restore", "getNew"})
         /\ Never(s, {"leader", "restoreOrHang", "restoreOrDie"})
         /\ Harmless(s)
         /\ Tidies(s)
         /\ UnmountsLast(s)
         /\ Exclusive(s, {})
         /\ Executes(s)
<1> USE DEF Does, Tries0, Tries1, Tries2, Tries3, Tries4
<1>1. /\ DOMAIN s = 1 .. 8
      /\ Tries0(s[1], "open")
      /\ Does(s[2], "lock")
      /\ Tries1(s[3], "own", "unlock")
      /\ Tries1(s[4], "enter", "unlock")
      /\ Tries2(s[5], "start", "restore", "unlock")
      /\ Does(s[6], "reap")
      /\ Does(s[7], "restore")
      /\ Does(s[8], "unlock")
  BY DEF ExecStatsops, Try, Do
<1> USE DEF CleanupsAvoid, Musts, Preceded, After, AfterLeads, CanEnd, Reaches, Undoes,
          Homes, Abroad, Leavers, Firsts, Finders, Mounts
<1>2. s \in Seq(ScriptCall)
  BY DEF ScriptCall, OpNames, ExecStatsops, Try, Do
<1>3. Plain(s)
  BY <1>1 DEF Plain, Checked
<1>4. Locked(s)
  <2>1. After(s, {"unlock", "exit"}, Abroad, {"lock"}, {})
    BY <1>1, SMTT(30)
  <2>2. AfterLeads(s, {"lock"}, {"unlock", "exit"}, Finders, {})
    BY <1>1, SMTT(30)
  <2>3. QED
    BY <2>1, <2>2 DEF Locked
<1>5. Fresh(s)
  BY <1>1, SMTT(30) DEF Fresh
<1>6. Begins(s)
  BY <1>1 DEF Begins
<1>7. Reaps(s, {"pid"})
  BY <1>1 DEF Reaps
<1>8. Homeward(s, {"unlock", "exit"}, Homes, {"restore", "getNew"})
  BY <1>1 DEF Homeward
<1>9. Never(s, {"leader", "restoreOrHang", "restoreOrDie"})
  BY <1>1 DEF Never
<1>10. Harmless(s)
  BY <1>1 DEF Harmless, Never
<1>11. Tidies(s)
  <2>1. AfterLeads(s, {"creat", "create"}, Mounts \cup {"remove"}, Finders \cup Leavers, {})
    BY <1>1, SMTT(30)
  <2>2. \A i \in DOMAIN s : s[i].op \in Mounts => Undoes(s[i], {"remove"}, Finders \cup Leavers)
    BY <1>1, SMTT(30)
  <2>3. QED
    BY <2>1, <2>2 DEF Tidies
<1>12. UnmountsLast(s)
  BY <1>1 DEF UnmountsLast
<1>13. Exclusive(s, {})
  <2>1. Preceded(s, Mounts \cup {"remove", "unmount"}, {"creat"}, {})
    BY <1>1, SMTT(30)
  <2>2. After(s, Mounts, Mounts \cup {"remove", "unmount"}, {}, {})
    BY <1>1, SMTT(30)
  <2>3. Once(s, {"remove"}, Mounts \cup {"remove", "unmount"})
    BY <1>1, SMTT(30) DEF Once
  <2>4. QED
    BY <2>1, <2>2, <2>3 DEF Exclusive
<1>14. \A i \in DOMAIN s : s[i].op \in OpNames
  BY <1>2, CallOps
<1>15. Executes(s)
  BY <1>1, <1>14, SMTT(30) DEF Executes
<1>16. QED
  BY <1>2, <1>3, <1>4, <1>5, <1>6, <1>7, <1>8, <1>9, <1>10, <1>11, <1>12, <1>13, <1>15 DEF Shape

LEMMA ExecGpffh20Facts ==
  ASSUME NEW s, s = ExecGpffh20
  PROVE  /\ Shape(s) /\ Begins(s)
         /\ Reaps(s, {"pid"})
         /\ Homeward(s, {"unlock", "exit"}, Homes, {"restore"})
         /\ Never(s, {"leader", "restoreOrHang"})
         /\ Harmless(s)
         /\ Tidies(s)
         /\ UnmountsLast(s)
         /\ Exclusive(s, {})
         /\ Executes(s)
<1> USE DEF Does, Tries0, Tries1, Tries2, Tries3, Tries4
<1>1. /\ DOMAIN s = 1 .. 8
      /\ Does(s[1], "lock")
      /\ Tries1(s[2], "own", "unlock")
      /\ Tries1(s[3], "open", "unlock")
      /\ Tries1(s[4], "enter", "unlock")
      /\ Tries2(s[5], "start", "restoreOrDie", "unlock")
      /\ Tries2(s[6], "restore", "reap", "exit")
      /\ Does(s[7], "unlock")
      /\ Does(s[8], "reap")
  BY DEF ExecGpffh20, Try, Do
<1> USE DEF CleanupsAvoid, Musts, Preceded, After, AfterLeads, CanEnd, Reaches, Undoes,
          Homes, Abroad, Leavers, Firsts, Finders, Mounts
<1>2. s \in Seq(ScriptCall)
  BY DEF ScriptCall, OpNames, ExecGpffh20, Try, Do
<1>3. Plain(s)
  BY <1>1 DEF Plain, Checked
<1>4. Locked(s)
  <2>1. After(s, {"unlock", "exit"}, Abroad, {"lock"}, {})
    BY <1>1, SMTT(30)
  <2>2. AfterLeads(s, {"lock"}, {"unlock", "exit"}, Finders, {})
    BY <1>1, SMTT(30)
  <2>3. QED
    BY <2>1, <2>2 DEF Locked
<1>5. Fresh(s)
  BY <1>1, SMTT(30) DEF Fresh
<1>6. Begins(s)
  BY <1>1 DEF Begins
<1>7. Reaps(s, {"pid"})
  BY <1>1 DEF Reaps
<1>8. Homeward(s, {"unlock", "exit"}, Homes, {"restore"})
  BY <1>1 DEF Homeward
<1>9. Never(s, {"leader", "restoreOrHang"})
  BY <1>1 DEF Never
<1>10. Harmless(s)
  BY <1>1 DEF Harmless, Never
<1>11. Tidies(s)
  <2>1. AfterLeads(s, {"creat", "create"}, Mounts \cup {"remove"}, Finders \cup Leavers, {})
    BY <1>1, SMTT(30)
  <2>2. \A i \in DOMAIN s : s[i].op \in Mounts => Undoes(s[i], {"remove"}, Finders \cup Leavers)
    BY <1>1, SMTT(30)
  <2>3. QED
    BY <2>1, <2>2 DEF Tidies
<1>12. UnmountsLast(s)
  BY <1>1 DEF UnmountsLast
<1>13. Exclusive(s, {})
  <2>1. Preceded(s, Mounts \cup {"remove", "unmount"}, {"creat"}, {})
    BY <1>1, SMTT(30)
  <2>2. After(s, Mounts, Mounts \cup {"remove", "unmount"}, {}, {})
    BY <1>1, SMTT(30)
  <2>3. Once(s, {"remove"}, Mounts \cup {"remove", "unmount"})
    BY <1>1, SMTT(30) DEF Once
  <2>4. QED
    BY <2>1, <2>2, <2>3 DEF Exclusive
<1>14. \A i \in DOMAIN s : s[i].op \in OpNames
  BY <1>2, CallOps
<1>15. Executes(s)
  BY <1>1, <1>14, SMTT(30) DEF Executes
<1>16. QED
  BY <1>2, <1>3, <1>4, <1>5, <1>6, <1>7, <1>8, <1>9, <1>10, <1>11, <1>12, <1>13, <1>15 DEF Shape

LEMMA ExecYeomin4242Facts ==
  ASSUME NEW s, s = ExecYeomin4242
  PROVE  /\ Shape(s) /\ Begins(s)
         /\ Reaps(s, {"pid"})
         /\ Homeward(s, {"unlock", "exit"}, Homes, {"restore", "getNew"})
         /\ Never(s, {"leader", "restoreOrHang", "restoreOrDie"})
         /\ Harmless(s)
         /\ Tidies(s)
         /\ UnmountsLast(s)
         /\ Exclusive(s, {})
         /\ Executes(s)
<1> USE DEF Does, Tries0, Tries1, Tries2, Tries3, Tries4
<1>1. /\ DOMAIN s = 1 .. 8
      /\ Tries0(s[1], "open")
      /\ Does(s[2], "lock")
      /\ Tries1(s[3], "own", "unlock")
      /\ Tries1(s[4], "enter", "unlock")
      /\ Tries2(s[5], "start", "restore", "unlock")
      /\ Tries3(s[6], "restore", "kill", "restore", "unlock")
      /\ Does(s[7], "reap")
      /\ Does(s[8], "unlock")
  BY DEF ExecYeomin4242, Try, Do
<1> USE DEF CleanupsAvoid, Musts, Preceded, After, AfterLeads, CanEnd, Reaches, Undoes,
          Homes, Abroad, Leavers, Firsts, Finders, Mounts
<1>2. s \in Seq(ScriptCall)
  BY DEF ScriptCall, OpNames, ExecYeomin4242, Try, Do
<1>3. Plain(s)
  BY <1>1 DEF Plain, Checked
<1>4. Locked(s)
  <2>1. After(s, {"unlock", "exit"}, Abroad, {"lock"}, {})
    BY <1>1, SMTT(30)
  <2>2. AfterLeads(s, {"lock"}, {"unlock", "exit"}, Finders, {})
    BY <1>1, SMTT(30)
  <2>3. QED
    BY <2>1, <2>2 DEF Locked
<1>5. Fresh(s)
  BY <1>1, SMTT(30) DEF Fresh
<1>6. Begins(s)
  BY <1>1 DEF Begins
<1>7. Reaps(s, {"pid"})
  BY <1>1 DEF Reaps
<1>8. Homeward(s, {"unlock", "exit"}, Homes, {"restore", "getNew"})
  BY <1>1 DEF Homeward
<1>9. Never(s, {"leader", "restoreOrHang", "restoreOrDie"})
  BY <1>1 DEF Never
<1>10. Harmless(s)
  BY <1>1 DEF Harmless, Never
<1>11. Tidies(s)
  <2>1. AfterLeads(s, {"creat", "create"}, Mounts \cup {"remove"}, Finders \cup Leavers, {})
    BY <1>1, SMTT(30)
  <2>2. \A i \in DOMAIN s : s[i].op \in Mounts => Undoes(s[i], {"remove"}, Finders \cup Leavers)
    BY <1>1, SMTT(30)
  <2>3. QED
    BY <2>1, <2>2 DEF Tidies
<1>12. UnmountsLast(s)
  BY <1>1 DEF UnmountsLast
<1>13. Exclusive(s, {})
  <2>1. Preceded(s, Mounts \cup {"remove", "unmount"}, {"creat"}, {})
    BY <1>1, SMTT(30)
  <2>2. After(s, Mounts, Mounts \cup {"remove", "unmount"}, {}, {})
    BY <1>1, SMTT(30)
  <2>3. Once(s, {"remove"}, Mounts \cup {"remove", "unmount"})
    BY <1>1, SMTT(30) DEF Once
  <2>4. QED
    BY <2>1, <2>2, <2>3 DEF Exclusive
<1>14. \A i \in DOMAIN s : s[i].op \in OpNames
  BY <1>2, CallOps
<1>15. Executes(s)
  BY <1>1, <1>14, SMTT(30) DEF Executes
<1>16. QED
  BY <1>2, <1>3, <1>4, <1>5, <1>6, <1>7, <1>8, <1>9, <1>10, <1>11, <1>12, <1>13, <1>15 DEF Shape

LEMMA ExecLnauraFacts ==
  ASSUME NEW s, s = ExecLnaura
  PROVE  /\ Shape(s) /\ Begins(s)
         /\ Reaps(s, {"pid"})
         /\ Homeward(s, {"unlock"}, {}, {})
         /\ Never(s, {"leader", "restoreOrHang", "restoreOrDie"})
         /\ Harmless(s)
         /\ Tidies(s)
         /\ UnmountsLast(s)
         /\ Alone(s)
         /\ Executes(s)
<1> USE DEF Does, Tries0, Tries1, Tries2, Tries3, Tries4
<1>1. /\ DOMAIN s = 1 .. 7
      /\ Tries0(s[1], "isMounted")
      /\ Does(s[2], "lock")
      /\ Tries1(s[3], "open", "exit")
      /\ Tries1(s[4], "enter", "exit")
      /\ Tries1(s[5], "start", "exit")
      /\ Does(s[6], "exit")
      /\ Does(s[7], "reap")
  BY DEF ExecLnaura, Try, Do
<1> USE DEF CleanupsAvoid, Musts, Preceded, After, AfterLeads, CanEnd, Reaches, Undoes,
          Homes, Abroad, Leavers, Firsts, Finders, Mounts
<1>2. s \in Seq(ScriptCall)
  BY DEF ScriptCall, OpNames, ExecLnaura, Try, Do
<1>3. Plain(s)
  BY <1>1 DEF Plain, Checked
<1>4. Locked(s)
  <2>1. After(s, {"unlock", "exit"}, Abroad, {"lock"}, {})
    BY <1>1, SMTT(30)
  <2>2. AfterLeads(s, {"lock"}, {"unlock", "exit"}, Finders, {})
    BY <1>1, SMTT(30)
  <2>3. QED
    BY <2>1, <2>2 DEF Locked
<1>5. Fresh(s)
  BY <1>1, SMTT(30) DEF Fresh
<1>6. Begins(s)
  BY <1>1 DEF Begins
<1>7. Reaps(s, {"pid"})
  BY <1>1 DEF Reaps
<1>8. Homeward(s, {"unlock"}, {}, {})
  BY <1>1 DEF Homeward
<1>9. Never(s, {"leader", "restoreOrHang", "restoreOrDie"})
  BY <1>1 DEF Never
<1>10. Harmless(s)
  BY <1>1 DEF Harmless, Never
<1>11. Tidies(s)
  <2>1. AfterLeads(s, {"creat", "create"}, Mounts \cup {"remove"}, Finders \cup Leavers, {})
    BY <1>1, SMTT(30)
  <2>2. \A i \in DOMAIN s : s[i].op \in Mounts => Undoes(s[i], {"remove"}, Finders \cup Leavers)
    BY <1>1, SMTT(30)
  <2>3. QED
    BY <2>1, <2>2 DEF Tidies
<1>12. UnmountsLast(s)
  BY <1>1 DEF UnmountsLast
<1>13. Alone(s)
  BY <1>1 DEF Alone
<1>14. \A i \in DOMAIN s : s[i].op \in OpNames
  BY <1>2, CallOps
<1>15. Executes(s)
  BY <1>1, <1>14, SMTT(30) DEF Executes
<1>16. QED
  BY <1>2, <1>3, <1>4, <1>5, <1>6, <1>7, <1>8, <1>9, <1>10, <1>11, <1>12, <1>13, <1>15 DEF Shape

LEMMA ExecKhsAltFacts ==
  ASSUME NEW s, s = ExecKhsAlt
  PROVE  /\ Shape(s) /\ Begins(s)
         /\ Reaps(s, {"pid"})
         /\ Never(s, {"restoreOrHang", "restoreOrDie"})
         /\ Harmless(s)
         /\ Tidies(s)
         /\ UnmountsLast(s)
         /\ Executes(s)
<1> USE DEF Does, Tries0, Tries1, Tries2, Tries3, Tries4
<1>1. /\ DOMAIN s = 1 .. 8
      /\ Does(s[1], "lock")
      /\ Tries1(s[2], "leader", "unlock")
      /\ Tries1(s[3], "open", "unlock")
      /\ Tries1(s[4], "enter", "unlock")
      /\ Tries2(s[5], "start", "restore", "unlock")
      /\ Does(s[6], "reap")
      /\ Does(s[7], "restore")
      /\ Does(s[8], "unlock")
  BY DEF ExecKhsAlt, Try, Do
<1> USE DEF CleanupsAvoid, Musts, Preceded, After, AfterLeads, CanEnd, Reaches, Undoes,
          Homes, Abroad, Leavers, Firsts, Finders, Mounts
<1>2. s \in Seq(ScriptCall)
  BY DEF ScriptCall, OpNames, ExecKhsAlt, Try, Do
<1>3. Plain(s)
  BY <1>1 DEF Plain, Checked
<1>4. Locked(s)
  <2>1. After(s, {"unlock", "exit"}, Abroad, {"lock"}, {})
    BY <1>1, SMTT(30)
  <2>2. AfterLeads(s, {"lock"}, {"unlock", "exit"}, Finders, {})
    BY <1>1, SMTT(30)
  <2>3. QED
    BY <2>1, <2>2 DEF Locked
<1>5. Fresh(s)
  BY <1>1, SMTT(30) DEF Fresh
<1>6. Begins(s)
  BY <1>1 DEF Begins
<1>7. Reaps(s, {"pid"})
  BY <1>1 DEF Reaps
<1>8. Never(s, {"restoreOrHang", "restoreOrDie"})
  BY <1>1 DEF Never
<1>9. Harmless(s)
  BY <1>1 DEF Harmless, Never
<1>10. Tidies(s)
  <2>1. AfterLeads(s, {"creat", "create"}, Mounts \cup {"remove"}, Finders \cup Leavers, {})
    BY <1>1, SMTT(30)
  <2>2. \A i \in DOMAIN s : s[i].op \in Mounts => Undoes(s[i], {"remove"}, Finders \cup Leavers)
    BY <1>1, SMTT(30)
  <2>3. QED
    BY <2>1, <2>2 DEF Tidies
<1>11. UnmountsLast(s)
  BY <1>1 DEF UnmountsLast
<1>12. \A i \in DOMAIN s : s[i].op \in OpNames
  BY <1>2, CallOps
<1>13. Executes(s)
  BY <1>1, <1>12, SMTT(30) DEF Executes
<1>14. QED
  BY <1>2, <1>3, <1>4, <1>5, <1>6, <1>7, <1>8, <1>9, <1>10, <1>11, <1>13 DEF Shape

LEMMA ExecJoseng8908Facts ==
  ASSUME NEW s, s = ExecJoseng8908
  PROVE  /\ Shape(s) /\ Begins(s)
         /\ Reaps(s, {"pid"})
         /\ Homeward(s, {"unlock"}, Homes, {"restore"})
         /\ Never(s, {"restoreOrHang", "restoreOrDie"})
         /\ Harmless(s)
         /\ Tidies(s)
         /\ UnmountsLast(s)
         /\ Manages(s)
         /\ Executes(s)
<1> USE DEF Does, Tries0, Tries1, Tries2, Tries3, Tries4
<1>1. /\ DOMAIN s = 1 .. 8
      /\ Does(s[1], "lock")
      /\ Tries1(s[2], "leader", "unlock")
      /\ Tries1(s[3], "open", "unlock")
      /\ Tries1(s[4], "enter", "unlock")
      /\ Tries2(s[5], "start", "restore", "unlock")
      /\ Does(s[6], "reap")
      /\ Tries1(s[7], "restore", "exit")
      /\ Does(s[8], "unlock")
  BY DEF ExecJoseng8908, Try, Do
<1> USE DEF CleanupsAvoid, Musts, Preceded, After, AfterLeads, CanEnd, Reaches, Undoes,
          Homes, Abroad, Leavers, Firsts, Finders, Mounts
<1>2. s \in Seq(ScriptCall)
  BY DEF ScriptCall, OpNames, ExecJoseng8908, Try, Do
<1>3. Plain(s)
  BY <1>1 DEF Plain, Checked
<1>4. Locked(s)
  <2>1. After(s, {"unlock", "exit"}, Abroad, {"lock"}, {})
    BY <1>1, SMTT(30)
  <2>2. AfterLeads(s, {"lock"}, {"unlock", "exit"}, Finders, {})
    BY <1>1, SMTT(30)
  <2>3. QED
    BY <2>1, <2>2 DEF Locked
<1>5. Fresh(s)
  BY <1>1, SMTT(30) DEF Fresh
<1>6. Begins(s)
  BY <1>1 DEF Begins
<1>7. Reaps(s, {"pid"})
  BY <1>1 DEF Reaps
<1>8. Homeward(s, {"unlock"}, Homes, {"restore"})
  BY <1>1 DEF Homeward
<1>9. Never(s, {"restoreOrHang", "restoreOrDie"})
  BY <1>1 DEF Never
<1>10. Harmless(s)
  BY <1>1 DEF Harmless, Never
<1>11. Tidies(s)
  <2>1. AfterLeads(s, {"creat", "create"}, Mounts \cup {"remove"}, Finders \cup Leavers, {})
    BY <1>1, SMTT(30)
  <2>2. \A i \in DOMAIN s : s[i].op \in Mounts => Undoes(s[i], {"remove"}, Finders \cup Leavers)
    BY <1>1, SMTT(30)
  <2>3. QED
    BY <2>1, <2>2 DEF Tidies
<1>12. UnmountsLast(s)
  BY <1>1 DEF UnmountsLast
<1>13. Manages(s)
  <2>1. Preceded(s, Managed, {"acquire"}, {})
    BY <1>1, SMTT(30) DEF Managed
  <2>2. Preceded(s, Mounts \cup {"unmount"}, {"absent"}, {})
    BY <1>1, SMTT(30)
  <2>3. After(s, Mounts, Mounts \cup {"unmount"}, {}, {})
    BY <1>1, SMTT(30)
  <2>4. AfterLeads(s, Mounts, {"record"}, Finders, {"restore"})
    BY <1>1, SMTT(30)
  <2>5. Once(s, {"release"}, Managed)
    BY <1>1, SMTT(30) DEF Once, Managed
  <2>6. QED
    BY <2>1, <2>2, <2>3, <2>4, <2>5 DEF Manages
<1>14. \A i \in DOMAIN s : s[i].op \in OpNames
  BY <1>2, CallOps
<1>15. Executes(s)
  BY <1>1, <1>14, SMTT(30) DEF Executes
<1>16. QED
  BY <1>2, <1>3, <1>4, <1>5, <1>6, <1>7, <1>8, <1>9, <1>10, <1>11, <1>12, <1>13, <1>15 DEF Shape

LEMMA Run7910trioFacts ==
  ASSUME NEW s, s = Run7910trio
  PROVE  /\ Shape(s) /\ Begins(s)
         /\ Reaps(s, {"pid"})
         /\ Homeward(s, {"unlock", "exit"}, {}, {})
         /\ Never(s, {"leader", "restoreOrHang", "restoreOrDie"})
         /\ Harmless(s)
         /\ Tidies(s)
         /\ UnmountsLast(s)
         /\ Exclusive(s, {})
         /\ Runs(s)
<1> USE DEF Does, Tries0, Tries1, Tries2, Tries3, Tries4
<1>1. /\ DOMAIN s = 1 .. 3
      /\ Tries0(s[1], "valid")
      /\ Tries0(s[2], "startNew")
      /\ Does(s[3], "reap")
  BY DEF Run7910trio, Try, Do
<1> USE DEF CleanupsAvoid, Musts, Preceded, After, AfterLeads, CanEnd, Reaches, Undoes,
          Homes, Abroad, Leavers, Firsts, Finders, Mounts
<1>2. s \in Seq(ScriptCall)
  BY DEF ScriptCall, OpNames, Run7910trio, Try, Do
<1>3. Plain(s)
  BY <1>1 DEF Plain, Checked
<1>4. Locked(s)
  <2>1. After(s, {"unlock", "exit"}, Abroad, {"lock"}, {})
    BY <1>1, SMTT(30)
  <2>2. AfterLeads(s, {"lock"}, {"unlock", "exit"}, Finders, {})
    BY <1>1, SMTT(30)
  <2>3. QED
    BY <2>1, <2>2 DEF Locked
<1>5. Fresh(s)
  BY <1>1, SMTT(30) DEF Fresh
<1>6. Begins(s)
  BY <1>1 DEF Begins
<1>7. Reaps(s, {"pid"})
  BY <1>1 DEF Reaps
<1>8. Homeward(s, {"unlock", "exit"}, {}, {})
  BY <1>1 DEF Homeward
<1>9. Never(s, {"leader", "restoreOrHang", "restoreOrDie"})
  BY <1>1 DEF Never
<1>10. Harmless(s)
  BY <1>1 DEF Harmless, Never
<1>11. Tidies(s)
  <2>1. AfterLeads(s, {"creat", "create"}, Mounts \cup {"remove"}, Finders \cup Leavers, {})
    BY <1>1, SMTT(30)
  <2>2. \A i \in DOMAIN s : s[i].op \in Mounts => Undoes(s[i], {"remove"}, Finders \cup Leavers)
    BY <1>1, SMTT(30)
  <2>3. QED
    BY <2>1, <2>2 DEF Tidies
<1>12. UnmountsLast(s)
  BY <1>1 DEF UnmountsLast
<1>13. Exclusive(s, {})
  <2>1. Preceded(s, Mounts \cup {"remove", "unmount"}, {"creat"}, {})
    BY <1>1, SMTT(30)
  <2>2. After(s, Mounts, Mounts \cup {"remove", "unmount"}, {}, {})
    BY <1>1, SMTT(30)
  <2>3. Once(s, {"remove"}, Mounts \cup {"remove", "unmount"})
    BY <1>1, SMTT(30) DEF Once
  <2>4. QED
    BY <2>1, <2>2, <2>3 DEF Exclusive
<1>14. Runs(s)
  BY <1>1 DEF Runs
<1>15. QED
  BY <1>2, <1>3, <1>4, <1>5, <1>6, <1>7, <1>8, <1>9, <1>10, <1>11, <1>12, <1>13, <1>14 DEF Shape

LEMMA RunJoseng89081Facts ==
  ASSUME NEW s, s = RunJoseng89081
  PROVE  /\ Shape(s) /\ Begins(s)
         /\ Reaps(s, {"pid"})
         /\ Homeward(s, {"unlock", "exit"}, {}, {})
         /\ Never(s, {"leader", "restoreOrHang", "restoreOrDie"})
         /\ Harmless(s)
         /\ Tidies(s)
         /\ UnmountsLast(s)
         /\ Exclusive(s, {})
         /\ Runs(s)
<1> USE DEF Does, Tries0, Tries1, Tries2, Tries3, Tries4
<1>1. /\ DOMAIN s = 1 .. 3
      /\ Does(s[1], "startNew")
      /\ Does(s[2], "reap")
      /\ Tries0(s[3], "pid")
  BY DEF RunJoseng89081, Try, Do
<1> USE DEF CleanupsAvoid, Musts, Preceded, After, AfterLeads, CanEnd, Reaches, Undoes,
          Homes, Abroad, Leavers, Firsts, Finders, Mounts
<1>2. s \in Seq(ScriptCall)
  BY DEF ScriptCall, OpNames, RunJoseng89081, Try, Do
<1>3. Plain(s)
  BY <1>1 DEF Plain, Checked
<1>4. Locked(s)
  <2>1. After(s, {"unlock", "exit"}, Abroad, {"lock"}, {})
    BY <1>1, SMTT(30)
  <2>2. AfterLeads(s, {"lock"}, {"unlock", "exit"}, Finders, {})
    BY <1>1, SMTT(30)
  <2>3. QED
    BY <2>1, <2>2 DEF Locked
<1>5. Fresh(s)
  BY <1>1, SMTT(30) DEF Fresh
<1>6. Begins(s)
  BY <1>1 DEF Begins
<1>7. Reaps(s, {"pid"})
  BY <1>1 DEF Reaps
<1>8. Homeward(s, {"unlock", "exit"}, {}, {})
  BY <1>1 DEF Homeward
<1>9. Never(s, {"leader", "restoreOrHang", "restoreOrDie"})
  BY <1>1 DEF Never
<1>10. Harmless(s)
  BY <1>1 DEF Harmless, Never
<1>11. Tidies(s)
  <2>1. AfterLeads(s, {"creat", "create"}, Mounts \cup {"remove"}, Finders \cup Leavers, {})
    BY <1>1, SMTT(30)
  <2>2. \A i \in DOMAIN s : s[i].op \in Mounts => Undoes(s[i], {"remove"}, Finders \cup Leavers)
    BY <1>1, SMTT(30)
  <2>3. QED
    BY <2>1, <2>2 DEF Tidies
<1>12. UnmountsLast(s)
  BY <1>1 DEF UnmountsLast
<1>13. Exclusive(s, {})
  <2>1. Preceded(s, Mounts \cup {"remove", "unmount"}, {"creat"}, {})
    BY <1>1, SMTT(30)
  <2>2. After(s, Mounts, Mounts \cup {"remove", "unmount"}, {}, {})
    BY <1>1, SMTT(30)
  <2>3. Once(s, {"remove"}, Mounts \cup {"remove", "unmount"})
    BY <1>1, SMTT(30) DEF Once
  <2>4. QED
    BY <2>1, <2>2, <2>3 DEF Exclusive
<1>14. Runs(s)
  BY <1>1 DEF Runs
<1>15. QED
  BY <1>2, <1>3, <1>4, <1>5, <1>6, <1>7, <1>8, <1>9, <1>10, <1>11, <1>12, <1>13, <1>14 DEF Shape

LEMMA RunGpffh201Facts ==
  ASSUME NEW s, s = RunGpffh201
  PROVE  /\ Shape(s) /\ Begins(s)
         /\ Reaps(s, {"pid"})
         /\ Homeward(s, {"unlock", "exit"}, {}, {})
         /\ Never(s, {"leader", "restoreOrHang", "restoreOrDie"})
         /\ Harmless(s)
         /\ Tidies(s)
         /\ UnmountsLast(s)
         /\ Exclusive(s, {})
         /\ Runs(s)
<1> USE DEF Does, Tries0, Tries1, Tries2, Tries3, Tries4
<1>1. /\ DOMAIN s = 1 .. 3
      /\ Does(s[1], "startNew")
      /\ Tries0(s[2], "pid")
      /\ Does(s[3], "reap")
  BY DEF RunGpffh201, Try, Do
<1> USE DEF CleanupsAvoid, Musts, Preceded, After, AfterLeads, CanEnd, Reaches, Undoes,
          Homes, Abroad, Leavers, Firsts, Finders, Mounts
<1>2. s \in Seq(ScriptCall)
  BY DEF ScriptCall, OpNames, RunGpffh201, Try, Do
<1>3. Plain(s)
  BY <1>1 DEF Plain, Checked
<1>4. Locked(s)
  <2>1. After(s, {"unlock", "exit"}, Abroad, {"lock"}, {})
    BY <1>1, SMTT(30)
  <2>2. AfterLeads(s, {"lock"}, {"unlock", "exit"}, Finders, {})
    BY <1>1, SMTT(30)
  <2>3. QED
    BY <2>1, <2>2 DEF Locked
<1>5. Fresh(s)
  BY <1>1, SMTT(30) DEF Fresh
<1>6. Begins(s)
  BY <1>1 DEF Begins
<1>7. Reaps(s, {"pid"})
  BY <1>1 DEF Reaps
<1>8. Homeward(s, {"unlock", "exit"}, {}, {})
  BY <1>1 DEF Homeward
<1>9. Never(s, {"leader", "restoreOrHang", "restoreOrDie"})
  BY <1>1 DEF Never
<1>10. Harmless(s)
  BY <1>1 DEF Harmless, Never
<1>11. Tidies(s)
  <2>1. AfterLeads(s, {"creat", "create"}, Mounts \cup {"remove"}, Finders \cup Leavers, {})
    BY <1>1, SMTT(30)
  <2>2. \A i \in DOMAIN s : s[i].op \in Mounts => Undoes(s[i], {"remove"}, Finders \cup Leavers)
    BY <1>1, SMTT(30)
  <2>3. QED
    BY <2>1, <2>2 DEF Tidies
<1>12. UnmountsLast(s)
  BY <1>1 DEF UnmountsLast
<1>13. Exclusive(s, {})
  <2>1. Preceded(s, Mounts \cup {"remove", "unmount"}, {"creat"}, {})
    BY <1>1, SMTT(30)
  <2>2. After(s, Mounts, Mounts \cup {"remove", "unmount"}, {}, {})
    BY <1>1, SMTT(30)
  <2>3. Once(s, {"remove"}, Mounts \cup {"remove", "unmount"})
    BY <1>1, SMTT(30) DEF Once
  <2>4. QED
    BY <2>1, <2>2, <2>3 DEF Exclusive
<1>14. Runs(s)
  BY <1>1 DEF Runs
<1>15. QED
  BY <1>2, <1>3, <1>4, <1>5, <1>6, <1>7, <1>8, <1>9, <1>10, <1>11, <1>12, <1>13, <1>14 DEF Shape

LEMMA RunWAFriend34161Facts ==
  ASSUME NEW s, s = RunWAFriend34161
  PROVE  /\ Shape(s) /\ Begins(s)
         /\ Reaps(s, {"pid"})
         /\ Homeward(s, {"unlock"}, {}, {})
         /\ Homeward(s, {"unlock", "exit"}, Homes, {"restore"})
         /\ Never(s, {"leader", "restoreOrHang", "restoreOrDie"})
         /\ Harmless(s)
         /\ Tidies(s)
         /\ UnmountsLast(s)
         /\ Exclusive(s, {})
         /\ Runs(s)
<1> USE DEF Does, Tries0, Tries1, Tries2, Tries3, Tries4
<1>1. /\ DOMAIN s = 1 .. 7
      /\ Does(s[1], "lock")
      /\ Tries1(s[2], "own", "exit")
      /\ Tries1(s[3], "unshare", "exit")
      /\ Tries2(s[4], "start", "restore", "exit")
      /\ Does(s[5], "reap")
      /\ Tries1(s[6], "restore", "exit")
      /\ Does(s[7], "exit")
  BY DEF RunWAFriend34161, Try, Do
<1> USE DEF CleanupsAvoid, Musts, Preceded, After, AfterLeads, CanEnd, Reaches, Undoes,
          Homes, Abroad, Leavers, Firsts, Finders, Mounts
<1>2. s \in Seq(ScriptCall)
  BY DEF ScriptCall, OpNames, RunWAFriend34161, Try, Do
<1>3. Plain(s)
  BY <1>1 DEF Plain, Checked
<1>4. Locked(s)
  <2>1. After(s, {"unlock", "exit"}, Abroad, {"lock"}, {})
    BY <1>1, SMTT(30)
  <2>2. AfterLeads(s, {"lock"}, {"unlock", "exit"}, Finders, {})
    BY <1>1, SMTT(30)
  <2>3. QED
    BY <2>1, <2>2 DEF Locked
<1>5. Fresh(s)
  BY <1>1, SMTT(30) DEF Fresh
<1>6. Begins(s)
  BY <1>1 DEF Begins
<1>7. Reaps(s, {"pid"})
  BY <1>1 DEF Reaps
<1>8. Homeward(s, {"unlock"}, {}, {})
  BY <1>1 DEF Homeward
<1>9. Homeward(s, {"unlock", "exit"}, Homes, {"restore"})
  BY <1>1 DEF Homeward
<1>10. Never(s, {"leader", "restoreOrHang", "restoreOrDie"})
  BY <1>1 DEF Never
<1>11. Harmless(s)
  BY <1>1 DEF Harmless, Never
<1>12. Tidies(s)
  <2>1. AfterLeads(s, {"creat", "create"}, Mounts \cup {"remove"}, Finders \cup Leavers, {})
    BY <1>1, SMTT(30)
  <2>2. \A i \in DOMAIN s : s[i].op \in Mounts => Undoes(s[i], {"remove"}, Finders \cup Leavers)
    BY <1>1, SMTT(30)
  <2>3. QED
    BY <2>1, <2>2 DEF Tidies
<1>13. UnmountsLast(s)
  BY <1>1 DEF UnmountsLast
<1>14. Exclusive(s, {})
  <2>1. Preceded(s, Mounts \cup {"remove", "unmount"}, {"creat"}, {})
    BY <1>1, SMTT(30)
  <2>2. After(s, Mounts, Mounts \cup {"remove", "unmount"}, {}, {})
    BY <1>1, SMTT(30)
  <2>3. Once(s, {"remove"}, Mounts \cup {"remove", "unmount"})
    BY <1>1, SMTT(30) DEF Once
  <2>4. QED
    BY <2>1, <2>2, <2>3 DEF Exclusive
<1>15. Runs(s)
  BY <1>1 DEF Runs
<1>16. QED
  BY <1>2, <1>3, <1>4, <1>5, <1>6, <1>7, <1>8, <1>9, <1>10, <1>11, <1>12, <1>13, <1>14, <1>15 DEF Shape

LEMMA RunKhsAlt1Facts ==
  ASSUME NEW s, s = RunKhsAlt1
  PROVE  /\ Shape(s) /\ Begins(s)
         /\ Reaps(s, {"pid", "restore"})
         /\ Homeward(s, {"unlock"}, Homes, {"restore", "start"})
         /\ Never(s, {"restoreOrHang", "restoreOrDie"})
         /\ Harmless(s)
         /\ Tidies(s)
         /\ UnmountsLast(s)
         /\ Exclusive(s, {})
         /\ Runs(s)
<1> USE DEF Does, Tries0, Tries1, Tries2, Tries3, Tries4
<1>1. /\ DOMAIN s = 1 .. 8
      /\ Tries0(s[1], "valid")
      /\ Does(s[2], "lock")
      /\ Tries1(s[3], "leader", "unlock")
      /\ Tries1(s[4], "unshare", "unlock")
      /\ Tries1(s[5], "start", "unlock")
      /\ Tries1(s[6], "restore", "unlock")
      /\ Does(s[7], "unlock")
      /\ Does(s[8], "reap")
  BY DEF RunKhsAlt1, Try, Do
<1> USE DEF CleanupsAvoid, Musts, Preceded, After, AfterLeads, CanEnd, Reaches, Undoes,
          Homes, Abroad, Leavers, Firsts, Finders, Mounts
<1>2. s \in Seq(ScriptCall)
  BY DEF ScriptCall, OpNames, RunKhsAlt1, Try, Do
<1>3. Plain(s)
  BY <1>1 DEF Plain, Checked
<1>4. Locked(s)
  <2>1. After(s, {"unlock", "exit"}, Abroad, {"lock"}, {})
    BY <1>1, SMTT(30)
  <2>2. AfterLeads(s, {"lock"}, {"unlock", "exit"}, Finders, {})
    BY <1>1, SMTT(30)
  <2>3. QED
    BY <2>1, <2>2 DEF Locked
<1>5. Fresh(s)
  BY <1>1, SMTT(30) DEF Fresh
<1>6. Begins(s)
  BY <1>1 DEF Begins
<1>7. Reaps(s, {"pid", "restore"})
  BY <1>1 DEF Reaps
<1>8. Homeward(s, {"unlock"}, Homes, {"restore", "start"})
  BY <1>1 DEF Homeward
<1>9. Never(s, {"restoreOrHang", "restoreOrDie"})
  BY <1>1 DEF Never
<1>10. Harmless(s)
  BY <1>1 DEF Harmless, Never
<1>11. Tidies(s)
  <2>1. AfterLeads(s, {"creat", "create"}, Mounts \cup {"remove"}, Finders \cup Leavers, {})
    BY <1>1, SMTT(30)
  <2>2. \A i \in DOMAIN s : s[i].op \in Mounts => Undoes(s[i], {"remove"}, Finders \cup Leavers)
    BY <1>1, SMTT(30)
  <2>3. QED
    BY <2>1, <2>2 DEF Tidies
<1>12. UnmountsLast(s)
  BY <1>1 DEF UnmountsLast
<1>13. Exclusive(s, {})
  <2>1. Preceded(s, Mounts \cup {"remove", "unmount"}, {"creat"}, {})
    BY <1>1, SMTT(30)
  <2>2. After(s, Mounts, Mounts \cup {"remove", "unmount"}, {}, {})
    BY <1>1, SMTT(30)
  <2>3. Once(s, {"remove"}, Mounts \cup {"remove", "unmount"})
    BY <1>1, SMTT(30) DEF Once
  <2>4. QED
    BY <2>1, <2>2, <2>3 DEF Exclusive
<1>14. Runs(s)
  BY <1>1 DEF Runs
<1>15. QED
  BY <1>2, <1>3, <1>4, <1>5, <1>6, <1>7, <1>8, <1>9, <1>10, <1>11, <1>12, <1>13, <1>14 DEF Shape

-----------------------------------------------------------------------------
(* The scripts together *)

Week2 == {"WAFriend3416", "statsops", "saguanamu", "gpffh20", "yeomin4242", "lnaura",
          "khsAlt", "Joseng8908"}

LEMMA ScriptDomains ==
  /\ DOMAIN Script = {"create", "exec", "run"}
  /\ DOMAIN Script["create"] = Week2 /\ DOMAIN Script["exec"] = Week2
  /\ Script["run"] = RunScript
  /\ \A v \in DOMAIN RunScript : v \notin Week2
BY DEF Script, RunScript, Week2

LEMMA CreateScripts ==
  /\ Script["create"]["WAFriend3416"] = CreateWAFriend3416
  /\ Script["create"]["statsops"] = CreateStatsops
  /\ Script["create"]["saguanamu"] = CreateSaguanamu
  /\ Script["create"]["gpffh20"] = CreateGpffh20
  /\ Script["create"]["yeomin4242"] = CreateYeomin4242
  /\ Script["create"]["lnaura"] = CreateLnaura
  /\ Script["create"]["khsAlt"] = CreateKhsAlt
  /\ Script["create"]["Joseng8908"] = CreateJoseng8908
BY DEF Script

LEMMA ExecScripts ==
  /\ Script["exec"]["WAFriend3416"] = ExecWAFriend3416
  /\ Script["exec"]["statsops"] = ExecStatsops
  /\ Script["exec"]["saguanamu"] = ExecStatsops
  /\ Script["exec"]["gpffh20"] = ExecGpffh20
  /\ Script["exec"]["yeomin4242"] = ExecYeomin4242
  /\ Script["exec"]["lnaura"] = ExecLnaura
  /\ Script["exec"]["khsAlt"] = ExecKhsAlt
  /\ Script["exec"]["Joseng8908"] = ExecJoseng8908
BY DEF Script, ExecSaguanamu

LEMMA RunScripts ==
  /\ RunScript["WAFriend34161"] = RunWAFriend34161
  /\ RunScript["khsAlt1"] = RunKhsAlt1
  /\ \A v \in DOMAIN RunScript \ {"WAFriend34161", "khsAlt1"} :
       RunScript[v] \in {Run7910trio, RunJoseng89081, RunGpffh201}
BY DEF RunScript, RunDPwls0125, RunDiyung0, RunJiuJung, RunKallin1, RunLnaura1,
       RunSaguanamu1, RunStatsDev, RunWeeeeestern, RunS0okJu, RunDevelopowl,
       RunYeomin42421, RunSeoGeonhyuk, RunYoooooungwoon

LEMMA ScriptBegins ==
  ASSUME NEW op \in DOMAIN Script, NEW v \in DOMAIN Script[op]
  PROVE  /\ Shape(Script[op][v]) /\ Begins(Script[op][v])
         /\ UnmountsLast(Script[op][v])
         /\ v # "khsAlt" => Tidies(Script[op][v])
         /\ Reaps(Script[op][v], IF v = "khsAlt1" THEN {"pid", "restore"} ELSE {"pid"})
         /\ op = "create" => Creates(Script[op][v])
         /\ op = "exec" => Executes(Script[op][v]) /\ Harmless(Script[op][v])
         /\ op = "run" => Runs(Script[op][v]) /\ Harmless(Script[op][v])
<1>1. CASE op = "create"
  <2>1. v \in Week2 /\ v # "khsAlt1"
    BY <1>1, ScriptDomains DEF Week2
  <2>2. QED
    BY <1>1, <2>1, CreateScripts, CreateWAFriend3416Facts, CreateStatsopsFacts,
       CreateSaguanamuFacts, CreateGpffh20Facts, CreateYeomin4242Facts, CreateLnauraFacts,
       CreateKhsAltFacts, CreateJoseng8908Facts DEF Week2
<1>2. CASE op = "exec"
  <2>1. v \in Week2 /\ v # "khsAlt1"
    BY <1>2, ScriptDomains DEF Week2
  <2>2. QED
    BY <1>2, <2>1, ExecScripts, ExecWAFriend3416Facts, ExecStatsopsFacts,
       ExecGpffh20Facts, ExecYeomin4242Facts, ExecLnauraFacts,
       ExecKhsAltFacts, ExecJoseng8908Facts DEF Week2
<1>3. CASE op = "run"
  BY <1>3, ScriptDomains, RunScripts, Run7910trioFacts, RunJoseng89081Facts, RunGpffh201Facts,
     RunWAFriend34161Facts, RunKhsAlt1Facts DEF Week2
<1>4. QED
  BY <1>1, <1>2, <1>3, ScriptDomains

\* Joseng8908 alone keeps a store, and unmounts nothing.
LEMMA StoreScripts ==
  ASSUME NEW op \in DOMAIN Script, NEW v \in DOMAIN Script[op]
  PROVE  /\ v = "Joseng8908" => Never(Script[op][v], {"unmount"})
         /\ v # "Joseng8908" => Never(Script[op][v], {"record"})
<1>1. CASE op = "create"
  <2>1. v \in Week2
    BY <1>1, ScriptDomains DEF Week2
  <2>2. QED
    BY <1>1, <2>1, CreateScripts, CreateWAFriend3416Facts, CreateStatsopsFacts,
       CreateSaguanamuFacts, CreateGpffh20Facts, CreateYeomin4242Facts, CreateLnauraFacts,
       CreateKhsAltFacts, CreateJoseng8908Facts, PrecededWeaker DEF Week2, Never
<1>2. CASE op \in {"exec", "run"}
  BY <1>2, ScriptBegins, PrecededWeaker DEF Harmless, Never
<1>3. QED
  BY <1>1, <1>2, ScriptDomains

\* Which way home a thread abroad has, and which failures leave it without one.
LEMMA HomeScripts ==
  ASSUME NEW op \in DOMAIN Script, NEW v \in DOMAIN Script[op]
  PROVE  /\ v \in {"WAFriend3416", "gpffh20"} =>
              Homeward(Script[op][v], {"unlock", "exit"}, Homes, {"restore"})
         /\ v \in {"statsops", "saguanamu", "yeomin4242"} =>
              Homeward(Script[op][v], {"unlock", "exit"}, Homes, {"restore", "getNew"})
         /\ v = "Joseng8908" => Homeward(Script[op][v], {"unlock"}, Homes, {"restore"})
         /\ v = "lnaura" => Homeward(Script[op][v], {"unlock"}, {}, {})
         /\ v = "WAFriend34161" =>
              /\ Homeward(Script[op][v], {"unlock"}, {}, {})
              /\ Homeward(Script[op][v], {"unlock", "exit"}, Homes, {"restore"})
         /\ v = "khsAlt1" => Homeward(Script[op][v], {"unlock"}, Homes, {"restore", "start"})
         /\ v \notin Week2 \cup {"WAFriend34161", "khsAlt1"} =>
              Homeward(Script[op][v], {"unlock", "exit"}, {}, {})
         /\ v \notin {"khsAlt", "Joseng8908", "khsAlt1"} => Never(Script[op][v], {"leader"})
         /\ v \notin {"Joseng8908", "gpffh20"} => Never(Script[op][v], Leavers)
<1>1. CASE op = "create"
  <2>1. v \in Week2 /\ v # "khsAlt1" /\ v # "WAFriend34161"
    BY <1>1, ScriptDomains DEF Week2
  <2>2. QED
    BY <1>1, <2>1, CreateScripts, CreateWAFriend3416Facts, CreateStatsopsFacts,
       CreateSaguanamuFacts, CreateGpffh20Facts, CreateYeomin4242Facts, CreateLnauraFacts,
       CreateKhsAltFacts, CreateJoseng8908Facts, PrecededWeaker DEF Week2, Never, Leavers
<1>2. CASE op = "exec"
  <2>1. v \in Week2 /\ v # "khsAlt1" /\ v # "WAFriend34161"
    BY <1>2, ScriptDomains DEF Week2
  <2>2. QED
    BY <1>2, <2>1, ExecScripts, ExecWAFriend3416Facts, ExecStatsopsFacts,
       ExecGpffh20Facts, ExecYeomin4242Facts, ExecLnauraFacts,
       ExecKhsAltFacts, ExecJoseng8908Facts, PrecededWeaker DEF Week2, Never, Leavers
<1>3. CASE op = "run"
  <2>1. v \in DOMAIN RunScript /\ v \notin Week2 /\ Script[op][v] = RunScript[v]
    BY <1>3, ScriptDomains
  <2>2. QED
    BY <2>1, RunScripts, Run7910trioFacts, RunJoseng89081Facts, RunGpffh201Facts,
       RunWAFriend34161Facts, RunKhsAlt1Facts, PrecededWeaker DEF Week2, Never, Leavers
<1>4. QED
  BY <1>1, <1>2, <1>3, ScriptDomains

\* Who unmounts: lnaura, before it mounts, and yeomin4242, when it cannot go home.
LEMMA UnmountScripts ==
  ASSUME NEW op \in DOMAIN Script, NEW v \in DOMAIN Script[op], v # "lnaura"
  PROVE  Preceded(Script[op][v], {"unmount"}, {}, IF v = "yeomin4242" THEN {"restore"} ELSE {})
<1>1. CASE op = "create"
  <2>1. v \in Week2
    BY <1>1, ScriptDomains DEF Week2
  <2>2. CASE v = "yeomin4242"
    BY <1>1, <2>2, CreateScripts, CreateYeomin4242Facts
  <2>3. CASE v # "yeomin4242"
    BY <1>1, <2>1, <2>3, CreateScripts, CreateWAFriend3416Facts, CreateStatsopsFacts,
       CreateSaguanamuFacts, CreateGpffh20Facts,
       CreateKhsAltFacts, CreateJoseng8908Facts, PrecededWeaker DEF Week2, Never
  <2>4. QED
    BY <2>2, <2>3
<1>2. CASE op \in {"exec", "run"}
  BY <1>2, ScriptBegins, PrecededWeaker DEF Harmless, Never
<1>3. QED
  BY <1>1, <1>2, ScriptDomains

\* To whom the mount point belongs.
LEMMA NameScripts ==
  ASSUME NEW op \in DOMAIN Script, NEW v \in DOMAIN Script[op]
  PROVE  /\ v \in {"WAFriend3416", "statsops", "saguanamu", "gpffh20"} \cup DOMAIN RunScript =>
              Exclusive(Script[op][v], {})
         /\ v = "yeomin4242" => Exclusive(Script[op][v], {"restore"})
         /\ v = "lnaura" => Alone(Script[op][v])
         /\ v = "Joseng8908" => Manages(Script[op][v])
<1>1. CASE op = "create"
  BY <1>1, ScriptDomains, CreateScripts, CreateWAFriend3416Facts, CreateStatsopsFacts,
     CreateSaguanamuFacts, CreateGpffh20Facts, CreateYeomin4242Facts, CreateLnauraFacts,
     CreateJoseng8908Facts
<1>2. CASE op = "exec"
  <2>1. v \notin DOMAIN RunScript
    BY <1>2, ScriptDomains
  <2>2. v = "yeomin4242" => Exclusive(Script[op][v], {"restore"})
    <3>1. Exclusive(ExecYeomin4242, {}) /\ ExecYeomin4242 = Script["exec"]["yeomin4242"]
      BY ExecScripts, ExecYeomin4242Facts
    <3>2. Exclusive(ExecYeomin4242, {"restore"})
      BY <3>1, PrecededWeaker, AfterWeaker DEF Exclusive
    <3>3. QED
      BY <1>2, <3>1, <3>2
  <2>3. QED
    BY <1>2, <2>1, <2>2, ExecScripts, ExecWAFriend3416Facts, ExecStatsopsFacts,
       ExecGpffh20Facts, ExecLnauraFacts, ExecJoseng8908Facts
<1>3. CASE op = "run"
  BY <1>3, ScriptDomains, RunScripts, Run7910trioFacts, RunJoseng89081Facts, RunGpffh201Facts,
     RunWAFriend34161Facts, RunKhsAlt1Facts DEF Week2
<1>4. QED
  BY <1>1, <1>2, <1>3, ScriptDomains

\* saguanamu alone mounts the namespace of the process's first thread.
LEMMA MountScripts ==
  ASSUME NEW op \in DOMAIN Script, NEW v \in DOMAIN Script[op], v # "saguanamu"
  PROVE  Never(Script[op][v], {"mountLeader"})
<1>1. CASE op = "create"
  <2>1. v \in Week2
    BY <1>1, ScriptDomains DEF Week2
  <2>2. QED
    BY <1>1, <2>1, CreateScripts, CreateWAFriend3416Facts, CreateStatsopsFacts,
       CreateGpffh20Facts, CreateYeomin4242Facts, CreateLnauraFacts,
       CreateKhsAltFacts, CreateJoseng8908Facts, PrecededWeaker DEF Week2, Never
<1>2. CASE op \in {"exec", "run"}
  BY <1>2, ScriptBegins, PrecededWeaker DEF Harmless, Never, Mounts
<1>3. QED
  BY <1>1, <1>2, ScriptDomains
=============================================================================

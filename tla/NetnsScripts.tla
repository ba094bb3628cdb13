---------------------------- MODULE NetnsScripts ----------------------------
(***************************************************************************)
(* What the week 2 servers do to create a named network namespace and to   *)
(* start a process in one: the system calls, in the order each             *)
(* submission's function makes them, each with the calls its error return  *)
(* makes (deferred functions included, last registered first).  The week 1 *)
(* servers are in UnshareScripts.                                          *)
(*                                                                         *)
(* The submissions answer the same two requests with the same calls; what  *)
(* tells them apart, and what goes wrong in some, is the order, where the  *)
(* way home is read from, and which failure is followed by which clean-up. *)
(* NetnsServer gives the calls their meaning.                              *)
(***************************************************************************)
EXTENDS UnshareScripts

-----------------------------------------------------------------------------
(* Create: POST /netns *)

\* defect: the mount's source is the path of the process, not of the thread.
CreateMountsSelf ==
  << Try("stat", << >>), Try("creat", << >>), Do("lock"),
     Try("own", <<"unlock", "remove">>),
     Try("unshare", <<"unlock", "remove">>),
     Try("mountLeader", <<"restore", "unlock", "remove">>),
     Try("restore", <<"unlock">>),
     Do("unlock") >>
CreateWAFriend3416 ==
  << Try("stat", << >>), Try("creat", << >>), Do("lock"),
     Try("own", <<"unlock", "remove">>),
     Try("unshare", <<"unlock", "remove">>),
     Try("mountOwn", <<"restore", "unlock", "remove">>),
     Try("restore", <<"unlock">>),
     Do("unlock") >>

\* defect: the mount point is opened without O_EXCL.
CreateNotExclusive ==
  << Try("stat", << >>), Try("create", << >>), Do("lock"),
     Try("own", <<"remove", "unlock">>),
     Try("unshare", <<"remove", "unlock">>),
     Try("getNew", <<"remove", "unlock">>),
     Try("mountOwn", <<"restore", "remove", "restore", "unlock">>),
     Do("restore"), Do("unlock") >>
\* defect: the deferred Set(originNS) is registered after the mount.
CreateLateDefer ==
  << Try("stat", << >>), Try("creat", << >>), Do("lock"),
     Try("own", <<"remove", "unlock">>),
     Try("unshare", <<"remove", "unlock">>),
     Try("getNew", <<"remove", "unlock">>),
     Try("mountOwn", <<"remove", "unlock">>),
     Do("restore"), Do("unlock") >>
CreateStatsops ==
  << Try("stat", << >>), Try("creat", << >>), Do("lock"),
     Try("own", <<"remove", "unlock">>),
     Try("unshare", <<"remove", "unlock">>),
     Try("getNew", <<"remove", "unlock">>),
     Try("mountOwn", <<"restore", "remove", "restore", "unlock">>),
     Do("restore"), Do("unlock") >>

\* The namespace mounted is the one /proc/self shows: the group leader's.
CreateSaguanamu ==
  << Try("stat", << >>), Try("creat", << >>), Do("lock"),
     Try("own", <<"remove", "unlock">>),
     Try("unshare", <<"remove", "unlock">>),
     Try("getNew", <<"remove", "unlock">>),
     Try("mountLeader", <<"restore", "remove", "restore", "unlock">>),
     Do("restore"), Do("unlock") >>

\* defect: the deferred Remove is forgotten.
CreateNoRemove ==
  << Try("stat", << >>), Try("creat", << >>), Do("lock"),
     Try("own", <<"unlock">>),
     Try("unshare", <<"unlock">>),
     Try("mountOwn", <<"restore", "unlock">>),
     Do("restore"), Do("unlock") >>
CreateGpffh20 ==
  << Try("stat", << >>), Try("creat", << >>), Do("lock"),
     Try("own", <<"unlock", "remove">>),
     Try("unshare", <<"unlock", "remove">>),
     Try("mountOwn", <<"restore", "unlock", "remove">>),
     Do("restore"), Do("unlock") >>

CreateYeomin4242 ==
  << Try("stat", << >>), Try("creat", << >>), Do("lock"),
     Try("own", <<"unlock", "remove">>),
     Try("unshare", <<"unlock", "remove">>),
     Try("getNew", <<"unlock", "remove">>),
     Try("mountOwn", <<"restore", "unlock", "remove">>),
     Try("restore", <<"restore", "unlock", "unmount", "remove">>),
     Do("unlock") >>

\* The goroutine returns without UnlockOSThread: its thread ends with it.
CreateLnaura ==
  << Do("reuse"), Do("unmount"), Do("remove"), Try("creat", << >>),
     Do("lock"),
     Try("unshare", <<"exit", "remove">>),
     Try("mountOwn", <<"exit", "remove">>),
     Do("exit") >>

\* The way home is read from /proc/self, and no error return takes it.
CreateKhsAlt ==
  << Do("lock"),
     Try("leader", <<"unlock">>),
     Try("unshare", <<"unlock">>),
     Try("create", <<"unlock">>),
     Try("mountOwn", <<"unlock">>),
     Try("restore", <<"unlock">>),
     Do("unlock") >>

\* defect: the entry is stored before the namespace is there.
CreateStoredFirst ==
  << Do("acquire"), Try("absent", <<"release">>), Do("record"), Do("lock"),
     Try("leader", <<"unlock", "release">>),
     Try("unshare", <<"unlock", "release">>),
     Try("create", <<"restoreOrHang", "unlock", "release">>),
     Try("mountOwn", <<"remove", "restoreOrHang", "unlock", "release">>),
     Try("restore", <<"unlock", "release">>),
     Do("unlock"), Do("release") >>
\* defect: the mutex is not released on the error returns.
CreateKeepsMutex ==
  << Do("acquire"), Try("absent", << >>), Do("lock"),
     Try("leader", <<"unlock">>),
     Try("unshare", <<"unlock">>),
     Try("create", <<"restoreOrHang", "unlock">>),
     Try("mountOwn", <<"remove", "restoreOrHang", "unlock">>),
     Try("restore", <<"unlock">>),
     Do("unlock"), Do("record"), Do("release") >>
\* Manager.Create around createNamedNetns.  The Goexit of restoreOrExit runs
\* the deferred UnlockOSThread and skips the send its caller waits for; the
\* error is sent before the Goexit at the last Setns.
CreateJoseng8908 ==
  << Do("acquire"), Try("absent", <<"release">>), Do("lock"),
     Try("leader", <<"unlock", "release">>),
     Try("unshare", <<"unlock", "release">>),
     Try("create", <<"restoreOrHang", "unlock", "release">>),
     Try("mountOwn", <<"remove", "restoreOrHang", "unlock", "release">>),
     Try("restore", <<"unlock", "release">>),
     Do("unlock"), Do("record"), Do("release") >>

-----------------------------------------------------------------------------
(* Exec: POST /netns/{name}/exec *)

\* defect: the way home is taken without having been saved.
ExecNoOrigin ==
  << Try("open", << >>), Do("lock"),
     Try("enter", <<"unlock">>),
     Try("start", <<"restore", "unlock">>), Do("reap"),
     Try("restore", <<"unlock">>),
     Do("unlock") >>
ExecWAFriend3416 ==
  << Try("open", << >>), Do("lock"),
     Try("own", <<"unlock">>),
     Try("enter", <<"unlock">>),
     Try("start", <<"restore", "unlock">>), Do("reap"),
     Try("restore", <<"unlock">>),
     Do("unlock") >>

ExecStatsops ==
  << Try("open", << >>), Do("lock"),
     Try("own", <<"unlock">>),
     Try("enter", <<"unlock">>),
     Try("start", <<"restore", "unlock">>), Do("reap"),
     Do("restore"), Do("unlock") >>

ExecSaguanamu == ExecStatsops

\* defect: the goroutine is not locked to its thread.
ExecUnlocked ==
  << Try("open", << >>),
     Try("own", << >>),
     Try("enter", << >>),
     Try("start", <<"restore">>),
     Try("restore", <<"kill", "restore">>), Do("reap") >>
ExecYeomin4242 ==
  << Try("open", << >>), Do("lock"),
     Try("own", <<"unlock">>),
     Try("enter", <<"unlock">>),
     Try("start", <<"restore", "unlock">>),
     Try("restore", <<"kill", "restore", "unlock">>), Do("reap"),
     Do("unlock") >>

ExecGpffh20 ==
  << Do("lock"),
     Try("own", <<"unlock">>),
     Try("open", <<"unlock">>),
     Try("enter", <<"unlock">>),
     Try("start", <<"restoreOrDie", "unlock">>),
     Try("restore", <<"reap", "exit">>),
     Do("unlock"), Do("reap") >>

ExecLnaura ==
  << Try("isMounted", << >>), Do("lock"),
     Try("open", <<"exit">>),
     Try("enter", <<"exit">>),
     Try("start", <<"exit">>),
     Do("exit"), Do("reap") >>

ExecKhsAlt ==
  << Do("lock"),
     Try("leader", <<"unlock">>),
     Try("open", <<"unlock">>),
     Try("enter", <<"unlock">>),
     Try("start", <<"restore", "unlock">>), Do("reap"),
     Do("restore"), Do("unlock") >>

ExecJoseng8908 ==
  << Do("lock"),
     Try("leader", <<"unlock">>),
     Try("open", <<"unlock">>),
     Try("enter", <<"unlock">>),
     Try("start", <<"restore", "unlock">>), Do("reap"),
     Try("restore", <<"exit">>),
     Do("unlock") >>

-----------------------------------------------------------------------------
Script ==
  [create |-> [WAFriend3416 |-> CreateWAFriend3416, statsops |-> CreateStatsops,
               saguanamu |-> CreateSaguanamu, gpffh20 |-> CreateGpffh20,
               yeomin4242 |-> CreateYeomin4242, lnaura |-> CreateLnaura,
               khsAlt |-> CreateKhsAlt, Joseng8908 |-> CreateJoseng8908],
   exec   |-> [WAFriend3416 |-> ExecWAFriend3416, statsops |-> ExecStatsops,
               saguanamu |-> ExecSaguanamu, gpffh20 |-> ExecGpffh20,
               yeomin4242 |-> ExecYeomin4242, lnaura |-> ExecLnaura,
               khsAlt |-> ExecKhsAlt, Joseng8908 |-> ExecJoseng8908],
   run    |-> RunScript]

Servers == DOMAIN Script.create \cup DOMAIN Script.run
=============================================================================

--------------------------- MODULE UnshareScripts ---------------------------
(***************************************************************************)
(* What the week 1 servers do for POST /unshare/netns: start a process in  *)
(* a new network namespace and wait for it in the background, as the calls *)
(* each submission's handler makes, in its order.                          *)
(*                                                                         *)
(* Most let the child leave for its own namespace between fork and exec    *)
(* (Unshareflags): "startNew".  Two unshare their own thread, "start" the  *)
(* child there and take the thread home.  Three ignore the error of        *)
(* cmd.Start and read the pid of a process that may not be there: "pid".   *)
(***************************************************************************)
EXTENDS Scripts

Run7910trio ==
  << Try("valid", << >>), Try("startNew", << >>), Do("reap") >>
RunDPwls0125 == Run7910trio
RunDiyung0 == Run7910trio
RunJiuJung == Run7910trio
RunKallin1 == Run7910trio
RunLnaura1 == Run7910trio
RunSaguanamu1 == Run7910trio
RunStatsDev == Run7910trio
RunWeeeeestern == Run7910trio
RunS0okJu == Run7910trio
RunDevelopowl == Run7910trio
RunYeomin42421 == Run7910trio

\* The pid goes to the main goroutine, which waits for it.
RunSeoGeonhyuk == Run7910trio

RunJoseng89081 ==
  << Do("startNew"), Do("reap"), Try("pid", << >>) >>
RunYoooooungwoon == RunJoseng89081
RunGpffh201 ==
  << Do("startNew"), Try("pid", << >>), Do("reap") >>

\* defect: the wait is started after the thread is back home.
RunReapedLate ==
  << Do("lock"),
     Try("own", <<"exit">>),
     Try("unshare", <<"exit">>),
     Try("start", <<"restore", "exit">>),
     Try("restore", <<"exit">>),
     Do("reap"), Do("exit") >>
\* The goroutine never calls UnlockOSThread: its thread ends with it.
RunWAFriend34161 ==
  << Do("lock"),
     Try("own", <<"exit">>),
     Try("unshare", <<"exit">>),
     Try("start", <<"restore", "exit">>),
     Do("reap"),
     Try("restore", <<"exit">>),
     Do("exit") >>

\* MakeProcess, and the wait of its caller.
RunKhsAlt1 ==
  << Try("valid", << >>), Do("lock"),
     Try("leader", <<"unlock">>),
     Try("unshare", <<"unlock">>),
     Try("start", <<"unlock">>),
     Try("restore", <<"unlock">>),
     Do("unlock"), Do("reap") >>

\* The submissions of week 1, their names followed by a 1 where week 2 has one
\* of the same author.
RunScript ==
  [S7910trio |-> Run7910trio, dPwls0125 |-> RunDPwls0125,
   diyung0 |-> RunDiyung0, jiuJung |-> RunJiuJung, kallin1 |-> RunKallin1,
   lnaura1 |-> RunLnaura1, saguanamu1 |-> RunSaguanamu1,
   statsDev |-> RunStatsDev, weeeeestern |-> RunWeeeeestern,
   S0okJu |-> RunS0okJu, developowl |-> RunDevelopowl,
   yeomin42421 |-> RunYeomin42421, SeoGeonhyuk |-> RunSeoGeonhyuk,
   Joseng89081 |-> RunJoseng89081, yoooooungwoon |-> RunYoooooungwoon,
   gpffh201 |-> RunGpffh201, WAFriend34161 |-> RunWAFriend34161,
   khsAlt1 |-> RunKhsAlt1]
=============================================================================

----------------------------- MODULE XdpPolicy -----------------------------
(***************************************************************************)
(* What the week 3 API promises its clients, with no kernel in it: a set of *)
(* attached interface names and, for each, a set of blocked addresses.      *)
(* Every request takes effect in one step, the step that answers it, as if  *)
(* requests were served one at a time.  Losing the process (a shutdown or a *)
(* kill) loses the whole policy at once.                                    *)
(***************************************************************************)
CONSTANTS Names, IPs, Requests, NoIP, NoCall

VARIABLES
  attached,   \* names that answered a successful attach
  blocked,    \* <<name, address>> pairs that are blocked
  call,       \* request -> the call it carries until it is answered, or NoCall
  answer      \* request -> the last answer it got

policyVars == <<attached, blocked, call, answer>>

Calls ==
       [op : {"attach", "clear"}, name : Names, ip : {NoIP}]
  \cup [op : {"block"}, name : Names, ip : IPs]

Init ==
  /\ attached = {}
  /\ blocked = {}
  /\ call = [r \in Requests |-> NoCall]
  /\ answer = [r \in Requests |-> "none"]

Receive(r, c) ==
  /\ call[r] = NoCall
  /\ call' = [call EXCEPT ![r] = c]
  /\ answer' = [answer EXCEPT ![r] = "none"]
  /\ UNCHANGED <<attached, blocked>>

\* A request that never reaches the service: bad method, body, path or name.
Reject(r) ==
  /\ call[r] = NoCall
  /\ answer' = [answer EXCEPT ![r] = "rejected"]
  /\ UNCHANGED <<attached, blocked, call>>

Answer(r, a) ==
  /\ call' = [call EXCEPT ![r] = NoCall]
  /\ answer' = [answer EXCEPT ![r] = a]

AttachOk(r) ==
  /\ call[r] # NoCall /\ call[r].op = "attach"
  /\ Answer(r, "ok")
  /\ attached' = attached \cup {call[r].name}
  /\ UNCHANGED blocked

BlockOk(r) ==
  /\ call[r] # NoCall /\ call[r].op = "block"
  /\ call[r].name \in attached
  /\ Answer(r, "ok")
  /\ blocked' = blocked \cup {<<call[r].name, call[r].ip>>}
  /\ UNCHANGED attached

ClearOk(r) ==
  /\ call[r] # NoCall /\ call[r].op = "clear"
  /\ call[r].name \in attached
  /\ Answer(r, "ok")
  /\ blocked' = {b \in blocked : b[1] # call[r].name}
  /\ UNCHANGED attached

\* A client error.  Block and Clear meet it only when the interface is not
\* attached: they are never turned away from an attached one.
Refuse(r) ==
  /\ call[r] # NoCall
  /\ call[r].op # "attach" => call[r].name \notin attached
  /\ Answer(r, "rejected")
  /\ UNCHANGED <<attached, blocked>>

\* A server error of Attach and of Block changes nothing.
Fail(r) ==
  /\ call[r] # NoCall
  /\ \/ call[r].op = "attach"
     \/ call[r].op = "block" /\ call[r].name \in attached
  /\ Answer(r, "failed")
  /\ UNCHANGED <<attached, blocked>>

\* A server error of Clear: it may have unblocked some of the addresses, or none,
\* and nothing of another interface.
ClearPartly(r) ==
  /\ call[r] # NoCall /\ call[r].op = "clear"
  /\ call[r].name \in attached
  /\ Answer(r, "failed")
  /\ \E gone \in SUBSET {b \in blocked : b[1] = call[r].name} : blocked' = blocked \ gone
  /\ UNCHANGED attached

\* The service closes: the policy is gone, the open requests go on.
Reset ==
  /\ attached' = {}
  /\ blocked' = {}
  /\ UNCHANGED <<call, answer>>

\* The process is gone, and with it the policy and the open requests.
Lose ==
  /\ attached' = {}
  /\ blocked' = {}
  /\ call' = [r \in Requests |-> NoCall]
  /\ answer' = [r \in Requests |-> "none"]

Next ==
  \/ \E r \in Requests :
       \/ \E c \in Calls : Receive(r, c)
       \/ Reject(r)
       \/ AttachOk(r)
       \/ BlockOk(r)
       \/ ClearOk(r)
       \/ Refuse(r)
       \/ Fail(r)
       \/ ClearPartly(r)
  \/ Reset
  \/ Lose

Spec == Init /\ [][Next]_policyVars
=============================================================================

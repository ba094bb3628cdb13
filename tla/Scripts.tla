------------------------------ MODULE Scripts -------------------------------
(***************************************************************************)
(* A handler as the sequence of calls it makes to the kernel.  A call has  *)
(* a name, op.  When it fails, either the handler returns the error after  *)
(* a clean-up (its deferred functions and the calls before its return, in  *)
(* the order they are made), or it goes on as if nothing had happened.     *)
(***************************************************************************)
EXTENDS Naturals, Sequences

Try(op, cleanup) == [op |-> op, must |-> TRUE, cleanup |-> cleanup]
Do(op) == [op |-> op, must |-> FALSE, cleanup |-> << >>]

\* Calls one after another with the same clean-up.
All(ops, cleanup) == [i \in DOMAIN ops |-> Try(ops[i], cleanup)]

\* In a clean-up every error is ignored.
Quietly(ops) == [i \in DOMAIN ops |-> Do(ops[i])]

\* What can be left of a script when some of its calls are done.
Rests(s) == {SubSeq(s, i, Len(s)) : i \in 1 .. Len(s) + 1}
=============================================================================

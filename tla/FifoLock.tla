------------------------------ MODULE FifoLock ------------------------------
(***************************************************************************)
(* What eventuals::Lock (eventuals/lock.h) promises its callers, with no   *)
(* word about how: callers stand in one line, in the order in which they   *)
(* joined it; only the caller at the front of the line may be in the       *)
(* critical section; a caller leaves the line when it releases the lock.   *)
(* Lock.tla is shown to implement this module.                             *)
(***************************************************************************)
EXTENDS Sequences

CONSTANT Waiters    \* the Lock::Waiter objects that may ask for the lock

VARIABLES line,     \* the waiters that hold or wait for the lock, oldest first
          stage     \* where each waiter is: "out", in "line", or "in" the section

vars == <<line, stage>>

Init ==
  /\ line = <<>>
  /\ stage = [w \in Waiters |-> "out"]

\* A waiter joins the end of the line; an empty line is a free lock.
Join(w) ==
  /\ stage[w] = "out"
  /\ line' = Append(line, w)
  /\ stage' = [stage EXCEPT ![w] = "line"]

\* The waiter at the front of the line enters the critical section.
Enter(w) ==
  /\ stage[w] = "line"
  /\ line # <<>> /\ Head(line) = w
  /\ stage' = [stage EXCEPT ![w] = "in"]
  /\ UNCHANGED line

\* The waiter in the critical section releases the lock.
Leave(w) ==
  /\ stage[w] = "in"
  /\ line # <<>> /\ Head(line) = w
  /\ line' = Tail(line)
  /\ stage' = [stage EXCEPT ![w] = "out"]

Next == \E w \in Waiters : Join(w) \/ Enter(w) \/ Leave(w)

Spec == Init /\ [][Next]_vars

=============================================================================

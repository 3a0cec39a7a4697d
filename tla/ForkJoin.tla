------------------------------- MODULE ForkJoin -------------------------------
(***************************************************************************)
(* DoAll (do-all.h) and ForkJoin (fork-join.h): a number of fibers are     *)
(* started, each on a context of its own; the last one to end continues    *)
(* downstream, and one that fails or stops interrupts the others.          *)
(*                                                                         *)
(* The two differ in Start: DoAll builds all fibers and then submits them, *)
(* ForkJoin builds and submits one after the other.  A fiber ends on any   *)
(* thread (the terminal is reached through Reschedule, which goes on in    *)
(* place under the default scheduler), so the steps of the terminals       *)
(* interleave.                                                             *)
(***************************************************************************)
EXTENDS Integers, Sequences, FiniteSets

CONSTANTS MaxForks,   \* Bound on the number of fibers.
          Variants    \* Which of "DoAll" and "ForkJoin" are used.

ASSUME ForkJoinAssumption ==
  /\ MaxForks \in Nat \ {0}
  /\ Variants \subseteq {"DoAll", "ForkJoin"}

VARIABLES
  variant, forks,
  starter,    \* The thread in Start: where it is, and at which fiber.
  built,      \* The number of fibers in fibers_.
  fiber,      \* Where every fiber is.
  result,     \* What its eventual ended with.
  values,     \* values_
  counter,    \* counter_
  triggered,  \* Whether the fiber's interrupt was triggered.
  sweep,      \* Where a thread in interrupter_ is, and where it will end.
  handler,    \* handler_ of the outer interrupt.
  thrown,     \* fibers_.value() was called on an empty optional.
  out         \* The calls of k_.

Fibers == 1..MaxForks

\* Who calls interrupter_: a fiber that failed or stopped, or the handler.
Callers == 0..MaxForks

\* The calls of k_: Start, or Stop, or Fail with the error of a fiber.
Started == <<"start", 0>>

Stopped == <<"stop", 0>>

startVars == <<variant, forks, starter, built, handler>>

fiberVars == <<fiber, result, values, counter>>

vars == <<startVars, fiberVars, triggered, sweep, thrown, out>>

Init ==
  /\ variant \in Variants /\ forks \in 1..MaxForks
  /\ starter = [at |-> "idle", index |-> 0] /\ built = 0
  /\ fiber = [i \in Fibers |-> "none"]
  /\ result = [i \in Fibers |-> "none"]
  /\ values = [i \in Fibers |-> "undefined"]
  /\ counter = forks
  /\ triggered = [i \in Fibers |-> FALSE]
  /\ sweep = [c \in Callers |-> [at |-> 0, end |-> 0]]
  /\ handler \in {"none", "registered"}
  /\ thrown = FALSE
  /\ out = <<>>

-----------------------------------------------------------------------------
(* Start, Fail and Stop of the continuation.                               *)

At(at, index) == starter' = [at |-> at, index |-> index]

\* Start: the handler is installed before there are fibers.
Start ==
  /\ starter.at = "idle"
  /\ handler' = IF handler = "registered" THEN "installed" ELSE handler
  /\ handler # "triggered"
  /\ At("build", 1)
  /\ UNCHANGED <<variant, forks, built, fiberVars, triggered, sweep, thrown, out>>

\* Install found the interrupt triggered; or upstream fails or stops.
Refused ==
  /\ starter.at = "idle"
  /\ \/ handler = "triggered" /\ out' = Append(out, Stopped)
     \/ \E call \in {Stopped, <<"error", 0>>} : out' = Append(out, call)
  /\ At("done", 0)
  /\ UNCHANGED <<variant, forks, built, handler, fiberVars, triggered, sweep, thrown>>

\* BuildFibers, of DoAll, makes a tuple of all fibers.
BuildAll ==
  /\ variant = "DoAll" /\ starter.at = "build"
  /\ built' = forks
  /\ At("submit", 1)
  /\ UNCHANGED <<variant, forks, handler, fiberVars, triggered, sweep, thrown, out>>

\* fibers_.emplace_back, of ForkJoin.
BuildOne ==
  /\ variant = "ForkJoin" /\ starter.at = "build"
  /\ built' = starter.index
  /\ At("submit", starter.index)
  /\ UNCHANGED <<variant, forks, handler, fiberVars, triggered, sweep, thrown, out>>

\* The fiber is registered with its interrupt and started on its context.
Submit ==
  /\ starter.at = "submit"
  /\ fiber' = [fiber EXCEPT ![starter.index] = "running"]
  /\ IF starter.index = forks
     THEN At("done", 0)
     ELSE At(IF variant = "DoAll" THEN "submit" ELSE "build", starter.index + 1)
  /\ UNCHANGED <<variant, forks, built, handler, result, values, counter,
                 triggered, sweep, thrown, out>>

-----------------------------------------------------------------------------
(* The interrupt.                                                          *)

\* The handler of the outer interrupt calls interrupter_, which needs fibers_.
Trigger ==
  /\ handler \in {"registered", "installed"}
  /\ \/ /\ handler = "registered" /\ starter.at = "idle"
        /\ handler' = "triggered"
        /\ UNCHANGED <<sweep, thrown>>
     \/ /\ handler = "installed"
        /\ handler' = "used"
        /\ thrown' = (variant = "DoAll" /\ built = 0)
        /\ sweep' = [sweep EXCEPT ![0] = [at |-> 1, end |-> built]]
  /\ UNCHANGED <<variant, forks, starter, built, fiberVars, triggered, out>>

Sweeping(c) == sweep[c].at \in 1..sweep[c].end

\* Mutant of Sweep: it ends one fiber too early.
SweepShort(c) ==
  /\ Sweeping(c)
  /\ triggered' = [triggered EXCEPT ![sweep[c].at] = @ \/ sweep[c].at < sweep[c].end]
  /\ sweep' = [sweep EXCEPT ![c].at = @ + 1]
  /\ UNCHANGED <<startVars, fiberVars, thrown, out>>

\* interrupter_ triggers the interrupts of the fibers in fibers_ one by one.
Sweep(c) ==
  /\ Sweeping(c)
  /\ triggered' = [triggered EXCEPT ![sweep[c].at] = TRUE]
  /\ sweep' = [sweep EXCEPT ![c].at = @ + 1]
  /\ UNCHANGED <<startVars, fiberVars, thrown, out>>

-----------------------------------------------------------------------------
(* The fibers.                                                             *)

\* The eventual of a fiber ends.
End(i) ==
  /\ fiber[i] = "running"
  /\ fiber' = [fiber EXCEPT ![i] = "ended"]
  /\ \E r \in {"value", "error", "stop"} : result' = [result EXCEPT ![i] = r]
  /\ UNCHANGED <<startVars, values, counter, triggered, sweep, thrown, out>>

\* GetStoppedOrErrorIfExists: the values are gone through in order, and what was
\* found is replaced unless it is Stopped.
StoppedOrError[i \in 0..MaxForks] ==
  IF i = 0 THEN Started
  ELSE LET found == StoppedOrError[i - 1] IN
       IF values[i] \in {"undefined", "value"} \/ found = Stopped THEN found
       ELSE IF values[i] = "stop" THEN Stopped
       ELSE <<"error", i>>

\* The terminal stores what the fiber ended with.
Store(i) ==
  /\ fiber[i] = "ended"
  /\ values' = [values EXCEPT ![i] = result[i]]
  /\ fiber' = [fiber EXCEPT ![i] = "stored"]
  /\ UNCHANGED <<startVars, result, counter, triggered, sweep, thrown, out>>

\* What the last fiber continues with: Stop, Fail, or Start with all values.
Outcome == StoppedOrError[MaxForks]

\* Mutant of Count: the fiber that fails continues at once.
CountFailsFast(i) ==
  /\ fiber[i] = "stored"
  /\ counter' = counter - 1
  /\ \/ /\ counter = 1 \/ result[i] # "value"
        /\ out' = Append(out, Outcome)
        /\ fiber' = [fiber EXCEPT ![i] = "done"]
        /\ UNCHANGED sweep
     \/ /\ counter # 1 /\ result[i] = "value"
        /\ fiber' = [fiber EXCEPT ![i] = "done"]
        /\ UNCHANGED <<sweep, out>>
  /\ UNCHANGED <<startVars, result, values, triggered, thrown>>

\* counter_.fetch_sub(1): the last one continues, another one that failed or
\* stopped interrupts the fibers.
Count(i) ==
  /\ fiber[i] = "stored"
  /\ counter' = counter - 1
  /\ fiber' = [fiber EXCEPT ![i] = "done"]
  /\ \/ /\ counter = 1
        /\ out' = Append(out, Outcome)
        /\ UNCHANGED sweep
     \/ /\ counter # 1 /\ result[i] # "value"
        /\ sweep' = [sweep EXCEPT ![i] = [at |-> 1, end |-> built]]
        /\ UNCHANGED out
     \/ /\ counter # 1 /\ result[i] = "value"
        /\ UNCHANGED <<sweep, out>>
  /\ UNCHANGED <<startVars, result, values, triggered, thrown>>

-----------------------------------------------------------------------------

StartStep == BuildAll \/ BuildOne \/ Submit

TerminalStep(i) == Store(i) \/ Count(i)

Next ==
  \/ Start \/ Refused \/ StartStep \/ Trigger
  \/ \E c \in Callers : Sweep(c)
  \/ \E i \in Fibers : End(i) \/ TerminalStep(i)

\* Threads go on, and a fiber that was interrupted ends.  A fiber that was not
\* interrupted need not.
Fairness ==
  /\ WF_vars(StartStep)
  /\ \A c \in Callers : WF_vars(Sweep(c))
  /\ \A i \in Fibers : WF_vars(TerminalStep(i)) /\ WF_vars(triggered[i] /\ End(i))

Spec == Init /\ [][Next]_vars /\ Fairness

-----------------------------------------------------------------------------

\* The fibers that have ended with r.
EndedWith(r) == {i \in 1..forks : result[i] = r}

\* Downstream is continued once, by the last fiber, when all have ended and no
\* terminal is left that could touch values_ (counter_, do-all.h:111); with Stop
\* if any fiber stopped, else with the failure of the last fiber in order that
\* failed, else with the values of all (GetStoppedOrErrorIfExists).
OutcomeOfAll ==
  /\ Len(out) <= 1
  /\ (out # <<>> /\ built > 0) =>
    /\ \A i \in 1..forks : fiber[i] = "done"
    /\ out[1] = IF EndedWith("stop") # {} THEN Stopped
                ELSE IF EndedWith("error") # {}
                THEN <<"error", CHOOSE i \in EndedWith("error") :
                                  \A j \in EndedWith("error") : j <= i>>
                ELSE Started

\* After a fiber has failed or stopped and has gone through the others, none of
\* them runs on without being interrupted ("Interrupt the remaining eventuals so
\* we can propagate the failure", fork-join.h:168).
RemainingInterrupted ==
  \A i \in 1..forks :
    (fiber[i] = "done" /\ result[i] # "value" /\ ~Sweeping(i)) =>
      \A j \in 1..forks : fiber[j] = "running" => triggered[j]

\* Of DoAll: a fiber that fails or stops, or an interrupt, ends the whole, though
\* the other fibers would run for ever.
FailurePropagates ==
  \A i \in Fibers :
    (/\ variant = "DoAll"
     /\ result[i] \in {"error", "stop"} \/ (handler = "used" /\ ~thrown))
      ~> out # <<>>

=============================================================================

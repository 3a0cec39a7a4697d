-------------------------- MODULE StaticThreadPool --------------------------
(***************************************************************************)
(* StaticThreadPool (eventuals/static-thread-pool.{h,cc}) with the parts   *)
(* of Scheduler::Context (eventuals/scheduler.h) it works on: one worker   *)
(* thread per cpu, each with a lock-free list of waiters and a semaphore.  *)
(*                                                                         *)
(* A context is submitted when it starts and again whenever what it waited *)
(* for happened, by any thread, also by one that runs while the worker is  *)
(* still on its way out of the context's previous callback.  On the worker *)
(* of its own cpu a context may also be continued in place.                *)
(*                                                                         *)
(* list[cpu] holds the waiters hanging off the worker's head, oldest       *)
(* first.  The push is a compare-and-swap loop, hence one action.          *)
(***************************************************************************)
EXTENDS Naturals, Sequences, FiniteSets

CONSTANTS Contexts,      \* the Scheduler::Context objects given to the pool
          Concurrency,   \* the number of cpus, and of worker threads
          MaxSubmits,    \* bound on how often a context is submitted or continued
          NULL           \* nullptr

Cpus == 0..(Concurrency - 1)

ASSUME PoolAssumption ==
  /\ Concurrency \in Nat \ {0}
  /\ MaxSubmits \in Nat
  /\ NULL \notin Contexts

VARIABLES
  pinned,     \* the cpu of each context (Requirements::pinned)
  list,       \* the waiters of each worker, oldest first
  semaphore,  \* the worker's semaphore
  signals,    \* the submitters that have pushed and are yet to signal it
  blocked,    \* the contexts with blocked_ set
  inUse,      \* in_use_ of each context
  borrows,    \* how many borrows of each context there are
  callback,   \* waiter.callback of each context: none, or what made it
  alive,      \* the contexts that have not been destructed
  fiber,      \* what the fiber of each context is doing
  submits,    \* how often each context was submitted or continued
  worker,     \* what each worker executes next
  popped,     \* the context each worker took from its list
  local,      \* the callback it moved out of the context's waiter
  stack,      \* the contexts a worker is running, the current one last
  continued,  \* the context whose Continue has to call unuse(), its borrow gone
  shutdown,   \* shutdown_
  pushes,     \* every context pushed on a worker's list, in order
  pops        \* every context taken from it, in order

contextVars == <<blocked, inUse, borrows, callback, alive, fiber, submits>>
workerVars == <<worker, popped, local, stack, continued, pops>>
vars == <<pinned, list, semaphore, signals, contextVars, workerVars, shutdown, pushes>>

Init ==
  /\ pinned \in [Contexts -> Cpus]
  /\ list = [cpu \in Cpus |-> <<>>]
  /\ semaphore = [cpu \in Cpus |-> 0]
  /\ signals = [cpu \in Cpus |-> 0]
  /\ blocked = {}
  /\ inUse = [c \in Contexts |-> 0]
  /\ borrows = [c \in Contexts |-> 0]
  /\ callback = [c \in Contexts |-> "none"]
  /\ alive = Contexts
  /\ fiber = [c \in Contexts |-> "waiting"]
  /\ submits = [c \in Contexts |-> 0]
  /\ worker = [cpu \in Cpus |-> "wait"]
  /\ popped = [cpu \in Cpus |-> NULL]
  /\ local = [cpu \in Cpus |-> "none"]
  /\ stack = [cpu \in Cpus |-> <<>>]
  /\ continued = [cpu \in Cpus |-> NULL]
  /\ shutdown = FALSE
  /\ pushes = [cpu \in Cpus |-> <<>>]
  /\ pops = [cpu \in Cpus |-> <<>>]

-----------------------------------------------------------------------------
(* StaticThreadPool::Submit                                                *)

\* The CHECKs of Submit and Continuable: the context is not blocked and its
\* waiter is in no list.
Submittable(c) ==
  c \notin blocked /\ \A i \in DOMAIN list[pinned[c]] : list[pinned[c]][i] # c

\* The context is to run: block it, borrow it and save the callback in its
\* waiter.  The callback with which Schedule submits its own context, the first
\* time and for each element of a stream, borrows the Schedule that owns the
\* context; the one that resumes a context (Context::Unblock) does not.
\* Nothing refuses a submission to a pool that is being destructed.  The worker's
\* head and semaphore are on its stack: once it has left they are gone, and what
\* is pushed then, or was pushed too late for the worker, nobody takes.
Submit(c, why) ==
  /\ fiber[c] = "waiting" /\ c \in alive
  /\ submits[c] < MaxSubmits
  /\ Submittable(c)
  /\ why = "resume" => submits[c] > 0
  /\ blocked' = blocked \cup {c}
  /\ borrows' = [borrows EXCEPT ![c] = @ + 1]
  /\ callback' = [callback EXCEPT ![c] = why]
  /\ submits' = [submits EXCEPT ![c] = @ + 1]
  /\ fiber' = [fiber EXCEPT ![c] = "submitting"]
  /\ UNCHANGED <<pinned, list, semaphore, signals, inUse, alive, workerVars, shutdown, pushes>>

\* Mutant of SubmitPush: the semaphore is not signalled.
SubmitPushNoSignal(c) ==
  /\ fiber[c] = "submitting"
  /\ list' = [list EXCEPT ![pinned[c]] = Append(@, c)]
  /\ pushes' = [pushes EXCEPT ![pinned[c]] = Append(@, c)]
  /\ fiber' = [fiber EXCEPT ![c] = "queued"]
  /\ UNCHANGED <<pinned, semaphore, signals, blocked, inUse, borrows, callback, alive, submits,
                 workerVars, shutdown>>

\* The waiter becomes the head of its worker's list.
SubmitPush(c) ==
  /\ fiber[c] = "submitting"
  /\ list' = [list EXCEPT ![pinned[c]] = Append(@, c)]
  /\ pushes' = [pushes EXCEPT ![pinned[c]] = Append(@, c)]
  /\ signals' = [signals EXCEPT ![pinned[c]] = @ + 1]
  /\ fiber' = [fiber EXCEPT ![c] = "queued"]
  /\ UNCHANGED <<pinned, semaphore, blocked, inUse, borrows, callback, alive, submits,
                 workerVars, shutdown>>

\* The submitter signals only after the push; the worker, awake for another
\* waiter, may have run the context before.
SubmitSignal(cpu) ==
  /\ signals[cpu] > 0
  /\ signals' = [signals EXCEPT ![cpu] = @ - 1]
  /\ semaphore' = [semaphore EXCEPT ![cpu] = @ + 1]
  /\ UNCHANGED <<pinned, list, contextVars, workerVars, shutdown, pushes>>

-----------------------------------------------------------------------------
(* The worker thread of a cpu.                                             *)

Wait(cpu) ==
  /\ worker[cpu] = "wait"
  /\ semaphore[cpu] > 0
  /\ semaphore' = [semaphore EXCEPT ![cpu] = @ - 1]
  /\ worker' = [worker EXCEPT ![cpu] = "load"]
  /\ UNCHANGED <<pinned, list, signals, contextVars, popped, local, stack, continued, pops,
                 shutdown, pushes>>

\* Mutant of Take: the worker takes the head, the youngest waiter.
TakeYoungest(cpu) ==
  /\ list' = [list EXCEPT ![cpu] = SubSeq(@, 1, Len(@) - 1)]
  /\ popped' = [popped EXCEPT ![cpu] = list[cpu][Len(list[cpu])]]
  /\ pops' = [pops EXCEPT ![cpu] = Append(@, list[cpu][Len(list[cpu])])]
  /\ worker' = [worker EXCEPT ![cpu] = "unblock"]

\* Take the oldest waiter off the list.
Take(cpu) ==
  /\ list' = [list EXCEPT ![cpu] = Tail(@)]
  /\ popped' = [popped EXCEPT ![cpu] = Head(list[cpu])]
  /\ pops' = [pops EXCEPT ![cpu] = Append(@, Head(list[cpu]))]
  /\ worker' = [worker EXCEPT ![cpu] = "unblock"]

\* Load head: nothing there, one waiter to swap for nullptr, or several, of
\* which the last is unlinked.
Load(cpu) ==
  /\ worker[cpu] = "load"
  /\ \/ /\ Len(list[cpu]) = 0
        /\ worker' = [worker EXCEPT ![cpu] = "loop"]
        /\ UNCHANGED <<list, popped, pops>>
     \/ /\ Len(list[cpu]) = 1
        /\ worker' = [worker EXCEPT ![cpu] = "cas"]
        /\ UNCHANGED <<list, popped, pops>>
     \/ /\ Len(list[cpu]) > 1
        /\ Take(cpu)
  /\ UNCHANGED <<pinned, semaphore, signals, contextVars, local, stack, continued, shutdown,
                 pushes>>

\* Another waiter may have been pushed since the load: then load again.
Cas(cpu) ==
  /\ worker[cpu] = "cas"
  /\ \/ /\ Len(list[cpu]) = 1
        /\ Take(cpu)
     \/ /\ Len(list[cpu]) > 1
        /\ worker' = [worker EXCEPT ![cpu] = "load"]
        /\ UNCHANGED <<list, popped, pops>>
  /\ UNCHANGED <<pinned, semaphore, signals, contextVars, local, stack, continued, shutdown,
                 pushes>>

\* context->unblock().
Unblock(cpu) ==
  /\ worker[cpu] = "unblock"
  /\ blocked' = blocked \ {popped[cpu]}
  /\ worker' = [worker EXCEPT ![cpu] = "switch"]
  /\ UNCHANGED <<pinned, list, semaphore, signals, inUse, borrows, callback, alive, fiber,
                 submits, popped, local, stack, continued, pops, shutdown, pushes>>

\* context->use(); the waiter's borrow moves to the thread's current context;
\* the callback is moved out of the waiter and run.
Run(cpu) ==
  /\ worker[cpu] = "switch"
  /\ LET c == popped[cpu] IN
       /\ callback[c] # "none"
       /\ callback' = [callback EXCEPT ![c] = "none"]
       /\ local' = [local EXCEPT ![cpu] = callback[c]]
       /\ inUse' = [inUse EXCEPT ![c] = @ + 1]
       /\ stack' = [stack EXCEPT ![cpu] = <<c>>]
       /\ fiber' = [fiber EXCEPT ![c] = "running"]
  /\ worker' = [worker EXCEPT ![cpu] = "run"]
  /\ UNCHANGED <<pinned, list, semaphore, signals, blocked, borrows, alive, submits,
                 popped, continued, pops, shutdown, pushes>>

\* The context the worker is running.
Current(cpu) == stack[cpu][Len(stack[cpu])]

\* The current fiber has to wait for something, or has come to its end.
Pause(cpu, how) ==
  /\ worker[cpu] = "run" /\ continued[cpu] = NULL
  /\ fiber[Current(cpu)] = "running"
  /\ fiber' = [fiber EXCEPT ![Current(cpu)] = how]
  /\ UNCHANGED <<pinned, list, semaphore, signals, blocked, inUse, borrows, callback, alive,
                 submits, workerVars, shutdown, pushes>>

\* Schedule, or Context::Continue, of a context of the same cpu: run it here.
Continue(cpu, c) ==
  /\ worker[cpu] = "run" /\ continued[cpu] = NULL
  /\ fiber[Current(cpu)] = "running"
  /\ fiber[c] = "waiting" /\ c \in alive /\ pinned[c] = cpu
  /\ submits[c] < MaxSubmits
  /\ Submittable(c)
  /\ submits' = [submits EXCEPT ![c] = @ + 1]
  /\ borrows' = [borrows EXCEPT ![c] = @ + 1]
  /\ inUse' = [inUse EXCEPT ![c] = @ + 1]
  /\ fiber' = [fiber EXCEPT ![c] = "running"]
  /\ stack' = [stack EXCEPT ![cpu] = Append(@, c)]
  /\ UNCHANGED <<pinned, list, semaphore, signals, blocked, callback, alive, worker, popped,
                 local, continued, pops, shutdown, pushes>>

\* A context that was continued in place returns and is switched back.  In
\* Schedule the borrow is switched into a local, which goes after unuse(): until
\* then the context cannot be destructed, and the two are one step.  In
\* Context::Continue it is switched into a temporary, which goes before unuse().
Continued(cpu) ==
  /\ worker[cpu] = "run" /\ continued[cpu] = NULL
  /\ Len(stack[cpu]) > 1
  /\ LET c == Current(cpu) IN
       /\ fiber[c] # "running"
       /\ borrows' = [borrows EXCEPT ![c] = @ - 1]
       /\ \/ /\ inUse[c] > 0
             /\ inUse' = [inUse EXCEPT ![c] = @ - 1]
             /\ UNCHANGED continued
          \/ /\ continued' = [continued EXCEPT ![cpu] = c]
             /\ UNCHANGED inUse
  /\ stack' = [stack EXCEPT ![cpu] = SubSeq(@, 1, Len(@) - 1)]
  /\ UNCHANGED <<pinned, list, semaphore, signals, blocked, callback, alive, fiber, submits,
                 worker, popped, local, pops, shutdown, pushes>>

\* ... and Context::Continue calls unuse(), on a context that may be gone.
ContinuedUnuse(cpu) ==
  /\ continued[cpu] # NULL
  /\ inUse[continued[cpu]] > 0
  /\ inUse' = [inUse EXCEPT ![continued[cpu]] = @ - 1]
  /\ continued' = [continued EXCEPT ![cpu] = NULL]
  /\ UNCHANGED <<pinned, list, semaphore, signals, blocked, borrows, callback, alive, fiber,
                 submits, worker, popped, local, stack, pops, shutdown, pushes>>

\* The callback has returned: switch back, which gives up the borrow ...
SwitchBack(cpu) ==
  /\ worker[cpu] = "run" /\ continued[cpu] = NULL
  /\ Len(stack[cpu]) = 1 /\ Current(cpu) = popped[cpu]
  /\ fiber[popped[cpu]] # "running"
  /\ borrows' = [borrows EXCEPT ![popped[cpu]] = @ - 1]
  /\ stack' = [stack EXCEPT ![cpu] = <<>>]
  /\ worker' = [worker EXCEPT ![cpu] = "unuse"]
  /\ UNCHANGED <<pinned, list, semaphore, signals, blocked, inUse, callback, alive, fiber,
                 submits, popped, local, continued, pops, shutdown, pushes>>

\* ... and then context->unuse(), after which the callback itself goes.
Unuse(cpu) ==
  /\ worker[cpu] = "unuse"
  /\ inUse[popped[cpu]] > 0
  /\ inUse' = [inUse EXCEPT ![popped[cpu]] = @ - 1]
  /\ local' = [local EXCEPT ![cpu] = "none"]
  /\ popped' = [popped EXCEPT ![cpu] = NULL]
  /\ worker' = [worker EXCEPT ![cpu] = "loop"]
  /\ UNCHANGED <<pinned, list, semaphore, signals, blocked, borrows, callback, alive, fiber,
                 submits, stack, continued, pops, shutdown, pushes>>

Loop(cpu) ==
  /\ worker[cpu] = "loop"
  /\ worker' = [worker EXCEPT ![cpu] = IF shutdown THEN "exited" ELSE "wait"]
  /\ UNCHANGED <<pinned, list, semaphore, signals, contextVars, popped, local, stack, continued,
                 pops, shutdown, pushes>>

-----------------------------------------------------------------------------

\* Mutant of DestructContext: ~Context does not wait for its borrows.
DestructContextBorrowed(c) ==
  /\ fiber[c] = "finished" /\ c \in alive
  /\ alive' = alive \ {c}
  /\ UNCHANGED <<pinned, list, semaphore, signals, blocked, inUse, borrows, callback,
                 fiber, submits, workerVars, shutdown, pushes>>

\* Whoever started the fiber of c has its result and destructs the Schedule
\* with the context; both wait until nobody borrows them.
DestructContext(c) ==
  /\ fiber[c] = "finished" /\ c \in alive
  /\ borrows[c] = 0 /\ callback[c] # "schedule"
  /\ \A cpu \in Cpus : ~(popped[cpu] = c /\ local[cpu] = "schedule")
  /\ alive' = alive \ {c}
  /\ UNCHANGED <<pinned, list, semaphore, signals, blocked, inUse, borrows, callback,
                 fiber, submits, workerVars, shutdown, pushes>>

\* ~StaticThreadPool: shutdown_ is set, then the workers are woken and joined
\* one after the other, the last one first.
Shutdown ==
  /\ ~shutdown
  /\ shutdown' = TRUE
  /\ semaphore' = [semaphore EXCEPT ![Concurrency - 1] = @ + 1]
  /\ UNCHANGED <<pinned, list, signals, contextVars, workerVars, pushes>>

\* Mutant of Join: the next worker is not woken.
JoinNoSignal(cpu) ==
  /\ worker[cpu] = "exited"
  /\ worker' = [worker EXCEPT ![cpu] = "joined"]
  /\ \A other \in Cpus : other > cpu => worker[other] = "joined"
  /\ UNCHANGED <<pinned, list, semaphore, signals, contextVars, popped, local, stack, continued,
                 pops, shutdown, pushes>>

\* The worker of cpu has left and is joined; then the next one is woken.
Join(cpu) ==
  /\ worker[cpu] = "exited"
  /\ worker' = [worker EXCEPT ![cpu] = "joined"]
  /\ semaphore' = IF cpu > 0 THEN [semaphore EXCEPT ![cpu - 1] = @ + 1] ELSE semaphore
  /\ \A other \in Cpus : other > cpu => worker[other] = "joined"
  /\ UNCHANGED <<pinned, list, signals, contextVars, popped, local, stack, continued, pops,
                 shutdown, pushes>>

SubmitStep(c) == SubmitPush(c) \/ DestructContext(c)

WorkerStep(cpu) ==
  \/ Wait(cpu)
  \/ Load(cpu)
  \/ Cas(cpu)
  \/ Unblock(cpu)
  \/ Run(cpu)
  \/ \E how \in {"waiting", "finished"} : Pause(cpu, how)
  \/ Continued(cpu) \/ ContinuedUnuse(cpu)
  \/ SwitchBack(cpu)
  \/ Unuse(cpu)
  \/ Loop(cpu)

Next ==
  \/ \E c \in Contexts : SubmitStep(c) \/ \E why \in {"schedule", "resume"} : Submit(c, why)
  \/ \E cpu \in Cpus : SubmitSignal(cpu) \/ WorkerStep(cpu) \/ Join(cpu)
  \/ \E cpu \in Cpus, c \in Contexts : Continue(cpu, c)
  \/ Shutdown

Spec == Init /\ [][Next]_vars

\* Threads run, and fibers do not run for ever without waiting; nobody has to
\* submit a context or to shut the pool down.
Fairness ==
  /\ \A c \in Contexts : WF_vars(SubmitPush(c))
  /\ \A cpu \in Cpus : WF_vars(SubmitSignal(cpu)) /\ WF_vars(WorkerStep(cpu)) /\ WF_vars(Join(cpu))

FairSpec == Spec /\ Fairness

-----------------------------------------------------------------------------

TypeOK ==
  /\ pinned \in [Contexts -> Cpus]
  /\ list \in [Cpus -> Seq(Contexts)]
  /\ semaphore \in [Cpus -> Nat]
  /\ signals \in [Cpus -> Nat]
  /\ blocked \in SUBSET Contexts
  /\ inUse \in [Contexts -> Nat]
  /\ borrows \in [Contexts -> Nat]
  /\ callback \in [Contexts -> {"none", "schedule", "resume"}]
  /\ alive \in SUBSET Contexts
  /\ fiber \in [Contexts -> {"waiting", "submitting", "queued", "running", "finished"}]
  /\ submits \in [Contexts -> 0..MaxSubmits]
  /\ worker \in [Cpus -> {"wait", "load", "cas", "unblock", "switch", "run", "unuse", "loop",
                          "exited", "joined"}]
  /\ popped \in [Cpus -> Contexts \cup {NULL}]
  /\ local \in [Cpus -> {"none", "schedule", "resume"}]
  /\ stack \in [Cpus -> Seq(Contexts)]
  /\ continued \in [Cpus -> Contexts \cup {NULL}]
  /\ shutdown \in BOOLEAN
  /\ pushes \in [Cpus -> Seq(Contexts)]
  /\ pops \in [Cpus -> Seq(Contexts)]

\* The waiters of a cpu are resumed in the order in which they were pushed,
\* none of them twice, although the list is pushed at one end and unlinked at
\* the other without a lock.
ResumedInOrder ==
  \A cpu \in Cpus : pops[cpu] \o list[cpu] = pushes[cpu]

\* A context that is in a list or being run is never destructed: the borrow in
\* its waiter, then in the thread's current context, keeps it (scheduler.h: "so
\* a scheduler can extend the lifetime of a context if it enqueues this waiter").
QueuedContextsLive ==
  \A cpu \in Cpus :
    /\ \A i \in DOMAIN list[cpu] : list[cpu][i] \in alive
    /\ \A i \in DOMAIN stack[cpu] : stack[cpu][i] \in alive
    /\ worker[cpu] \in {"unblock", "switch"} => popped[cpu] \in alive

\* Every context that is submitted gets to run, unless the pool is shut down.
SubmittedRuns ==
  \A c \in Contexts : fiber[c] = "submitting" ~> fiber[c] = "running" \/ shutdown

\* ~StaticThreadPool returns: every worker sees shutdown_ and is joined.
ShutdownReturns == shutdown ~> \A cpu \in Cpus : worker[cpu] = "joined"

\* ~Context waits for its borrows so that nobody uses it afterwards ("leading us
\* to deallocate 'this' before it is safe"): the worker's last access to the
\* context, unuse(), is to one that still exists.
UsedContextsLive ==
  \A cpu \in Cpus :
    /\ worker[cpu] = "unuse" => popped[cpu] \in alive
    /\ continued[cpu] # NULL => continued[cpu] \in alive

=============================================================================

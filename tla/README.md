# Eventuals in TLA+

`eventuals` is a C++ library for asynchronous pipelines. A pipeline is composed
at compile time (`a >> b >> c`) into one continuation object; its pieces call
each other with `Start`, `Fail` and `Stop` (values) or `Begin`, `Body`, `Next`,
`Done` and `Ended` (streams). A pipeline has no thread of its own: it runs on
whichever thread calls it, and it moves between threads when it waits for a
lock, is resumed by a scheduler, or is called by an event loop. What can go
wrong is therefore concentrated in a few headers: the lock, the condition
variable, the interrupt, the schedulers, and the combinators that run several
pipelines at once; and in the two places where pipelines meet a foreign event
source, the event loop (libuv) and gRPC. They are what this project models.

All paths below are relative to `eventuals/` in the repository.

## The system's parts

| Part | State it keeps | Operations | Interacts with | What makes it correct |
|---|---|---|---|---|
| `Lock` (lock.h) | `head_`, a lock-free list of waiters; `owner_`; per waiter `next`, `acquired`, `f` | `AcquireFast`, `AcquireSlow`, `Release`; the eventuals `Acquire`, `Release`, `Synchronized` | resumes fibers through `Scheduler::Context::Unblock` | mutual exclusion, first come first served, the owner recorded, no waiter left behind |
| `Wait`, `ConditionVariable` (lock.h) | the list of waiters; `notifiable_`, `condition_` per waiter | `Wait`, `Notify`, `NotifyAll` | the notifier links other fibers' waiters into the lock's list | no lost wakeup; the lock stays exclusive |
| `Interrupt` (interrupt.h) | `handler_` (a handler, the placeholder, or nullptr once triggered); `state_` and `callback_` per handler | `Install`, `InstallOrExecuteIfTriggered`, `Uninstall`, `Trigger` | every interruptible eventual installs a handler; any thread triggers | a trigger is neither lost nor, but for one race, served twice; a handler that is gone is not reached |
| `Scheduler::Context` (scheduler.h) | `blocked_`, `in_use_`, the borrows, one `waiter` | `Unblock`, `Continue`, `use`, `unuse`, the destructor | schedulers switch contexts; `Concurrent` reads `in_use` | alive while used, in one place at a time |
| `StaticThreadPool` (static-thread-pool.*) | per cpu a list of waiters and a semaphore; `shutdown_` | `Submit`, `Continuable`, the worker loop, `Schedule`, the destructor | everything that unblocks a context pinned to a cpu | a submitted context is resumed, in order; the shutdown returns |
| `Concurrent` (concurrent.h) | the list of fibers, `values_`, `upstream_done_`, `downstream_done_`, `fibers_done_`, `interrupted_`, the first stop or error | ingress, fibers, egress, `Done`, `WaitForDone`, `Interrupt` | two streams (up and down), one interrupt, one context per fiber, one lock | no value lost; the first failure is reported, once all is quiet; it ends |
| `ConcurrentOrdered` (concurrent-ordered.h) | numbered values waiting for their turn | as `Concurrent`, then reordering | built on `Concurrent` | values in the order of their elements |
| `Pipe` (pipe.h) | `values_`, `is_closed_`, two condition variables | `Write`, `Read`, `Close`, `WaitForClosedAndEmpty`, `Size`, `IsClosed` | built on the lock and the condition variable | drained; no reader or watcher left waiting |
| `DoAll`, `ForkJoin` (do-all.h, fork-join.h) | a value, error or stop per fiber, a counter | start all, join, interrupt the rest on a failure | one interrupt and one context per fiber | the last fiber continues downstream, once |
| `Notification`, `ControlLoop`, `Executor`, `RequestResponseChannel` | a flag, a queue of eventuals, or two pipes | `Notify`, `Submit`, `Wait`, `Request`, `Respond` | built on the parts above | no lost notification; answers go to their requests |
| `EventLoop`, `Clock`, `Timer`, `Poll`, `Signal` | the list of waiters, pending timers, the paused clock | `Submit`, `Run`, `Check`, `Pause`, `Advance`, `Resume` | libuv calls back; the loop is a scheduler | due timers fire, not before their deadline; contexts are resumed on the loop |
| Stream combinators (`Stream`, `Map`, `Until`, `Loop`, `Take*`, `FlatMap`, `Reduce`, `Filter`, ...) | position in the stream, inner and outer stream | `Begin`, `Next`, `Body`, `Done`, `Ended` | each calls its neighbours only | the protocol: one answer to each question |
| Value combinators (`Then`, `Catch`, `If`, `Task`, ...) | the adapted continuation | `Start`, `Fail`, `Stop` | each calls its neighbours only | exactly one of the three goes down |
| Type erasure (`Task`, `Generator`, `Transformer`) | a heap-allocated continuation, built by the first call | dispatch of a call to it, callbacks back | the pipeline around it | the pipeline answers as if the erased part stood in its place |
| gRPC server and client (grpc/) | endpoints and their pipes, workers, services; per call a context and the tags gRPC holds | `Accept`, the workers, the generated `Serve`, `Shutdown`, `Wait`; `Call`, `Write`, `Read`, `Finish` | `Pipe`, `Concurrent`, `DoAll`, gRPC's completion queues | contexts outlive their tags, but for those dropped at the shutdown; calls end; the shutdown is quiet and returns |
| HTTP, DNS, filesystem, X.509, RSA | requests in flight | hand a request to a library, its answer back | libcurl, libuv, OpenSSL | the answer or the interrupt, not both |

The hard behaviours are: lock-free list operations interleaved by any number of
threads; a releaser, notifier or trigger that goes on touching objects it has
just given away; notification and condition evaluated in different critical
sections; several pipelines that come to their ends in any order, with a
failure, a stop, an interrupt and an early `Done` among them; an event, an
interrupt and the caller racing to end one operation of the loop; callbacks of
gRPC in an order of its own; the destruction of an object while a thread has yet
to leave it.

## Modules

| Module | Models | Granularity |
|---|---|---|
| `FifoLock` | what a lock promises: fibers line up, the first one enters, and leaves | one action per event |
| `Lock` | `Lock`, `_Acquire`, `_Release` of lock.h | one action per access to `head_`, `owner_` or a published waiter |
| `ConditionVariable` | `_Wait` and `ConditionVariable` of lock.h, on the actions of `Lock` | as `Lock` |
| `Interrupt` | interrupt.h | one action per access to `handler_`, a `state_` or a `callback_` (its CHECK, its move and its reset are apart); callback.h |
| `StaticThreadPool` | static-thread-pool.{h,cc}, `Scheduler::Context`, semaphore.h | one action per access to a list, semaphore, context flag or borrow |
| `Concurrent` | concurrent.h | one action per synchronized block, plus the steps between blocks |
| `Pipe` | pipe.h | one action per synchronized block |
| `ForkJoin` | do-all.h, fork-join.h | one action per fiber built or submitted, per store of an outcome, per `fetch_sub` of the counter, per fiber interrupted |
| `EventLoop` | event-loop.{h,cc}, timer.h, signal.h, poll.h | one action per callback on the loop, per submission (push, then wake), per phase of `uv_run` |
| `GrpcServer` | grpc/server.{h,cc}, the generated `Serve` (protoc-gen-eventuals/templates/eventuals.cc.j2) | one action per callback of gRPC, per operation on a pipe, per step of the workers and of `Wait` |
| `Grpc` | grpc/client.h, composed with `GrpcServer` | one action per operation and callback |
| `Streams` | stream.h, iterate.h, range.h, repeat.h, map.h, filter.h, until.h, take.h, flat-map.h, loop.h, collect.h, foreach.h, head.h, reduce.h; eventual.h, catch.h, task.h, generator.h, transformer.h | one action per handler of a continuation |
| `LockProofs` | theorems about `Lock` and `ConditionVariable` | |
| `PipeProofs`, `InterruptProofs`, `ForkJoinProofs`, `StaticThreadPoolProofs`, `StreamProofs`, `GrpcProofs`, `EventLoopProofs` | theorems about the modules of those names (`StreamProofs`: `Concurrent` and `Streams`; `GrpcProofs`: `GrpcServer` and `Grpc`) | |
| `MCConditionVariable`, `MCPipe` | symmetry sets for TLC | |
| `MCEventLoop`, `MCGrpc` | the operations of the loop; the services and what clients do | |
| `MCStreams` | the pipelines for TLC, and the reference they are compared with | |

How state corresponds to code:

- **Lock.** The intrusive list is the sequence `queue`, oldest first: `queue[1]`
  is the node whose `next` is nullptr, the last element is `head_`. Nodes are
  pushed at `head_` only and unlinked at the other end by the holder only, so
  the sequence carries all there is to know. `pc[f]` is the line fiber f is at.
  `acquired` and `callback` are the flags of the waiters; `clearing` holds the
  waiters whose releaser is between the compare-and-swap of `head_` and the
  store `acquired = false` (lock.h:93-100), which is why that store is an action
  of its own, which any other fiber may overtake.
- **ConditionVariable.** A fiber has two waiters, one in its `_Acquire` and one
  in its `_Wait` continuation. `Notify` links the latter on behalf of its fiber:
  `target[f]` is the fiber that f is linking. The condition is that there is an
  item (`ready`), the usual use of the class in the repository; `Produce` stands
  for the code that makes it true.
- **Interrupt.** `handler`, `state`, `callback` are the fields of the same
  names; a failing CHECK sets `failed`, and nothing happens after it.
  Weak compare-and-swaps may fail for no reason. `StatefulTally` is external:
  `Update(expected, desired)` is a compare-and-swap of the state. `Invoke` is run
  by a triggering thread or, from `InstallOrExecuteIfTriggered`, by the pipeline:
  `ipc` is where each of them is in it, `moved` whether its move found a callback.
  `callback_` is not atomic; what two threads do to it at once is taken to happen
  in some order of these accesses, the mildest outcome of the data race. `raced` is
  a history variable: the handlers that the pipeline went to invoke while a thread
  held them and had yet to take their callback.
- **StaticThreadPool.** Each worker goes through the lines of its loop. What the
  resumed callback does is external (`Pause`): it goes on, submits its context
  again, runs another context in place, or ends. Contexts may be destructed by
  their owners when no borrow is left. In place there are two ways back: `Schedule`
  gives up its borrow after `unuse()`, `Context::Continue` before it
  (`ContinuedUnuse`; `continued` is the context in between). Nothing stops a
  submission during the shutdown; nobody takes what a worker that has left is given.
- **Concurrent.** A block under the lock is one action, which `Lock` and
  `ConditionVariable` justify; `NotifyEgress` and `NotifyDone` move a waiting
  block to evaluating its condition again. `ingress`, `downstream`,
  `waitForDone` and `fiber[s]` say where each of the parties is. Fiber s is the
  s-th element of the list of fibers, `inUse` the fibers whose thread has not
  left them. Upstream and the eventuals that fibers run are nondeterministic.
- **Pipe.** Readers and watchers are in one of the two lists, or about to
  evaluate their condition, in any order (barging included).
- **Streams.** A pipeline is a sequence of records, one per eventual, as its
  builder makes them: the functions that users pass become functions and sets of
  values (which values a predicate keeps, for which the eventual inside `Map`,
  `Until` or `Reduce` fails or stops). One call is under way at a time
  (`signal`), since every handler ends in its next call; there is one action per
  handler. `stream[s]` is the stream that `Begin` handed to eventual s, which is
  not always its neighbour: `Map`, `Filter` and `Until` hand on the stream they
  are given. `memory[s]` has the members that change. `asked` is a history
  variable. A failing CHECK ends the pipeline in `Abort`; the undefined ends of
  `TakeLast` are a choice between a crash and any value.
- **Type erasure in Streams.** A `Task`, `Generator` or `Transformer` is a record
  that says how many of the records after it are behind its erasure. The first
  call builds the heap-allocated continuation (`Heap...`), and the calls of the
  erased part come back through callbacks, which are steps of their own. An error
  that the erased part does not catch goes past it (`SkipTo`), as does `Begin` of
  a `Transformer`. A call through a stream that was never given aborts.
- **ForkJoin.** `variant` chooses between the two `Start`s. `sweep[c]` is where
  caller c of `interrupter_` is; the fibers that it goes through are those that
  were built when it began. `thrown` records a call of `value()` on an empty
  optional (do-all.h:349).
- **EventLoop.** `waiters` is the loop's list, oldest first, with what each
  callback will do; `async` that the loop was woken and has not returned from its
  poll; `phase` where `uv_run` is. `op[o]` has the members of the continuation of
  operation o, and `uv` what libuv does with its handle. `fail`, `stop` and
  `Register` are the same code in `_Timer`, `_WaitForSignal` and `_Poll`: they are
  modelled once, and the map names the lines of one of the classes for each.
  Time is counted in units of which a millisecond has `Milli`; `elapsed` is a
  history variable.
- **GrpcServer and Grpc.** gRPC is external, and modelled from how it is used: a
  worker that has asked gets a call; every operation on a call ends by delivering
  its tag; `Finish` and `AsyncNotifyWhenDone` come in either order. `call[c]` is
  the server's side of a call with its outstanding tags, `net[c]` what gRPC knows
  of it, `client[c]` its client. `dangling` has the services whose callbacks hold
  a reference into the storage that `serves_` has left; what they store is lost.
  A closed pipe destructs the context that `Enqueue` gives it (server.h:464,
  pipe.h:35), with its done tag out: `DoneOfDropped` is that tag coming for a context
  that is gone, undefined behaviour of which the model takes the mildest outcome,
  that nothing comes of it. Whether gRPC cancels such a call, the code does not show:
  both are modelled.
  Operations on a pipe are one step each, which `Pipe` justifies; a fiber of
  `Concurrent` and the join of `DoAll` are used as their modules show them.

The module composition: `ConditionVariable` EXTENDS `Lock` and reuses its
actions with the waiter as a parameter; `Lock` INSTANCEs `FifoLock` with a
refinement mapping; `Grpc` EXTENDS `GrpcServer` and adds the clients.

## Runs

| Run | Bounds | Shows |
|---|---|---|
| `lock` | 3 fibers, unbounded acquires | mutual exclusion, the owner, the CHECKs; it implements `FifoLock`; a queued waiter gets the lock |
| `condition_variable` | 3 fibers, at most 2 items, symmetric | the owner is the holder also when a notifier links waiters; no lost wakeup |
| `interrupt` | 3 handlers, 2 triggering threads | callbacks run at most once, except in the race of `Invoke` (see below); a trigger is not lost; a withdrawn handler's owner returns; 614k states |
| `static_thread_pool` | 2 contexts, 2 workers, 2 submits each; 137k states | every queued context is resumed in order and alive; it runs; shutdown returns |
| `concurrent` | 2 elements, 2 values per fiber | see below |
| `pipe` | 3 readers, 2 watchers, 4 writes, symmetric | nothing is left behind, nobody is stranded (deadlock is checked) |
| `streams` | 24 sources of up to 3 values, up to 2 of 16 transformers, 5 ends, and the type-erased lines: 38279 pipelines, 635k states | on every stream questions and answers take turns; the answer is the one of the reference on lists; no stream is left open; pipelines end |
| `event_loop` | 2 operations: two timers, or a poll or a signal beside a scheduled continuation, one of them interruptible; durations 2 and 1 in units of half a millisecond, 1 unit of advance; 256k states | see below |
| `fork_join` | up to 3 fibers, both variants; 143k states | the outcome is that of all fibers, given once by the last; in `DoAll` a failure or an interrupt ends the whole |
| `grpc` | 2 calls, 2 completion queues, 1 response, three scenarios (two calls of one endpoint; one for a method that is not served; a streaming method with an interrupt); 226k states | see below |
| `condition_variable_check`, `grpc_serves` | smallest that show it | disagreements between the code and its own CHECKs and comments |

`concurrent` checks that downstream hears of the end only when upstream and all
fibers are done (`QuietAtTheEnd`), that values arrive once and in order
(`ValuesDelivered`), that the first failure or stop is the one reported
(`FirstRaisedReported`), that a fiber is reused only when its thread has left it
(`ReusedFibersLeft`), and, under fairness, that `Done` leads to `Ended` and a
failure to an answer (`DoneEnds`, `RaisedIsReported`).

`event_loop` checks that an operation continues once, and after libuv has given
its handle back, whoever of the caller, the event and the interrupt comes first
(`ContinuedOnce`); that the CHECKs of the callbacks hold in every order of their
submission (`CallbackChecksHold`); that no timer ends a millisecond or more
before its duration has passed on a clock that is paused, advanced and resumed
(`NotEarly`: the code cuts to whole milliseconds, so up to one may be missing);
that an interrupted operation ends even on a paused clock (`InterruptedEnds`); and
that a timer ends unless the clock stays paused (`TimerEnds`).

`interrupt` checks `Invoke` step by step. `CHECK(callback_)`, the move and the call
(interrupt.h:113-119) are not atomic, so that where `InstallOrExecuteIfTriggered`
finds the interrupt triggered while a thread has the handler and has yet to take its
callback, which takes a handler that is installed again (concurrent.h:745), both may
run it, or one may call an empty one. `InvokedOnce` says that this is the only way:
it excepts the handlers in `raced` and no others. `TriggerNotLost` and
`InstalledUninstallReturns` need no such exception.

`grpc` checks that wherever a context is gone all its tags came, in whatever order
(`TagsOutlived`), with one exception that the formula states: a call dropped at a
closed pipe once the server is shut down may have its done tag out, though no other.
It checks that after `Wait` nobody has a call in hand (`QuietAfterWait`), that a
worker drops a call only at the shutdown (`DroppedOnlyAtShutdown`), and that the
shutdown returns, calls end and interrupted calls do not hang (`ShutdownReturns`,
`CallsEnd`, `InterruptEnds`). `QuietAfterWait`, `ShutdownReturns` and `CallsEnd` except
the calls of a method that has failed: the generated code runs the prologue of a call
inside the method's `Concurrent`, so that a call whose prologue fails (its request
cannot be deserialized, or does not come) ends the method for all, and calls in its
pipe are never answered. The last two also except dropped calls, which gRPC
need not cancel, so that they neither end nor, without a deadline, let `Wait`
return; and runs where a done tag met a context that is gone.

`streams` compares every pipeline with a reference in `MCStreams`: a stream is a
list and the way it ends (`Ended`, `Fail` or `Stop`), an eventual is a function
on those (`Applied`), and `Meaning` composes them; the type erasure has no meaning
of its own, so that a pipeline with a `Task`, `Generator` or `Transformer` in it
means what it means without (`Plain`). The reference knows nothing
of `Next` and `Done`. Two transformers are what it takes for one to call off the
other in the middle, for `FlatMap` inside and outside of a `Take`, and for a
stream that is not the neighbour. The run found places where the promise
needs a condition, which are stated where they are used: `TakeRange` whose end
does not fit a size_t fails its CHECK (`Fits`), and `TakeLast` that is called off
before it is asked leaves the stream above it open (`NoStreamLeftOpen`). A
`Transformer` hands `Begin` past its inner eventual, which only `Map` survives,
and `Task::Success` fails a CHECK when it is stopped or given an error that it
says it catches: `Defined` excludes both from the comparison. A
surprise that is not wrong: `TakeRange(begin, 0)` with begin > 0 asks for one
value more than it skips.

Why the bounds are enough to be interesting: three fibers give the lock a
holder, a waiter that must be walked past and a newcomer at the other end, and
the condition variable two waiters and a notifier; three handlers and two
threads let an installation replace a handler that a trigger takes; two contexts
and two workers queue on one cpu and cross between cpus; two elements give a
fiber to reuse or a second one to create, two raisers, and a straggler; two
operations give the loop a waiter behind another and a timer that is due while
another is not; three fibers give a failing one, one to interrupt and one that
ends by itself; two calls let one be taken while the other is in a pipe or is
dropped, and two queues let one worker close the endpoints while the other holds
a call.

`CHECK_DEADLOCK FALSE` is said where the system may stop: all fibers of a
condition variable may wait; handlers, contexts, fibers, operations, calls and
streams come to their ends.

### Fairness

- `lock`: a fiber that is inside an operation goes on, and a critical section
  ends (weak fairness); the compare-and-swap that frees the lock does not fail
  spuriously forever (strong fairness). An idle fiber need not come back.
- `interrupt`: threads inside an operation go on; nobody has to trigger.
- `static_thread_pool`: operating system threads go on; a resumed callback
  returns, as a cooperative scheduler requires. Nobody has to submit or shut down.
- `concurrent`: started blocks run; upstream answers when it is asked or told it
  is done (the comment at concurrent.h:40-46 names the caveat that it might
  not); an eventual finishes once it is interrupted, not before.

- `streams`: the call that is under way runs; a context that was submitted by
  `Continue` runs.
- `event_loop`: the loop is run, time passes, and a thread inside a submission
  goes on. Nobody has to call, interrupt, signal or touch the clock.
- `fork_join`: the thread in `Start`, the terminals and whoever interrupts the
  fibers go on; a fiber ends once it is interrupted, not before.
- `grpc`: some step of the server or the clients is taken while there is one. No
  step repeats itself in this model, so this is as much as fairness of each. A
  call need not reach the server, and nobody has to shut the server down.

### What the violations show

1. `condition_variable_check`: `Release` stores `acquired = false` after the
   compare-and-swap that gave the lock away (lock.h:93-100). If the releaser is
   a fiber that has just gone to wait, a notifier may link its waiter before the
   store; `AcquireSlow` then stops the program with "recursive lock acquire
   detected" although nobody acquired recursively.
2. `grpc_serves`: a service's callbacks hold a reference to the `unique_ptr` in
   `serves_` (server.cc:115, 132, 138, 146). The vector is not reserved; the next
   service moves its elements, and the first one's `done` is stored through a
   dangling reference. `Wait` may then wait for ever (or worse: the model takes
   the mildest outcome, a store that is lost).

### Further configurations

These are not part of the list of runs. Each refutes one definition, stated from a
comment or CHECK of the code, and can be run with
`tlc -config <file> <module>`.

| Configuration | Module | Refuted | What it shows |
|---|---|---|---|
| `InterruptTrigger.cfg` | `Interrupt` | `TriggerFindsInstalled` | `Install` publishes the handler before it updates its state (interrupt.h:172, 183), and `Uninstall` updates it before it withdraws the handler (55, 204): a `Trigger` in between fails `CHECK_EQ(state, INSTALLED)` |
| `InterruptInvoke.cfg` | `Interrupt` | `InvokeMovesOnce` | after `Trigger` has made a handler UNINSTALLED (interrupt.h:226) it may be installed again (concurrent.h:745): `InstallOrExecuteIfTriggered` then passes the `CHECK(callback_)` of `Invoke` between `Trigger`'s CHECK and move (113, 118), and both run the callback or one calls an empty one |
| `StaticThreadPoolUnuse.cfg` | `StaticThreadPool` | `UsedContextsLive` | the worker calls `context->unuse()` after its borrow is gone (static-thread-pool.cc:96-98), as does `Context::Continue` (scheduler.h:123-124); the destructor waits for borrows only |
| `ConcurrentInterrupt.cfg` | `Concurrent` | `BodyFindsCallback` | `Body` calls `InstallOrExecuteIfTriggered` for every element (concurrent.h:745-748); once the callback has run, one more element fails `CHECK(callback_)` |
| `MCStreamsTakeLast.cfg` | `MCStreams` | `TakeLastHandlesFewer` | `TakeLast::Ended` takes the front of its deque without looking (take.h:61-63); with no values that is undefined |
| `MCEventLoopClock.cfg` | `MCEventLoop` | `PendingWhilePaused` | `Clock::Submit` reads `Paused()` without the mutex (event-loop.h:183): a timer may be added to the pending list of a clock that runs again, where nobody starts it |
| `MCGrpcDone.cfg` | `MCGrpc` | `DoneFindsContext` | a worker that has a call in hand when another has closed the pipes drops its context (server.cc:174-185, server.h:464, pipe.h:35) while gRPC has its done tag, whose callback refers to the context (server.h:89-93); `FinishThenOnDone` protects the calls that are served |
| `ForkJoinRemaining.cfg` | `ForkJoin` | `RemainingInterrupted` | `ForkJoin` submits fibers while it builds them: one that fails early does not interrupt the later ones (fork-join.h:168-170) |

Hazards of the code that no property covers: a second `Wait()` without a
condition in one continuation does not wait, since `notified` is not reset
(lock.h:969); `~Interrupt` spins (interrupt.h:148); a trigger invokes a handler
that may be destructed once its state says UNINSTALLED (interrupt.h:227); the
threads of the pool read `threads_` while it grows (static-thread-pool.cc:26); the
check of a pinned cpu is off by one (static-thread-pool.h:240); `Done` before any
`Next` leaves `Concurrent`'s upstream unbegun (concurrent.h:766); its ingress and
egress share a context (concurrent.h:711); a range that ends at INT_MAX overflows
(range.h:57); a predicate that takes its argument by value leaves `Filter` a
moved-from one (filter.h:34); `ForkJoin` of no fibers never continues; an
interrupt between `Install` and the building of `DoAll`'s fibers finds no fibers
(do-all.h:349).

## Proofs

The theorems hold for every value of the constants that the assumptions admit:
any number of fibers, readers, threads, contexts, calls and operations. Each
module of proofs has one invariant that is inductive, proved for `Init` and for
each action by a step or lemma of its own; the properties follow from it. TLC
checks the same properties on the instances of the runs. None of the properties
is inductive as it stands, and what each needs to become so is the reason why the
code works:

**`LockProofs`, `Lock`.** Types (`LockTypeOK`), mutual exclusion
(`LockMutualExclusion`), the owner (`LockOwnerIsHolder`), the CHECKs
(`LockChecksHold`) and the refinement of `FifoLock`
(`LockImplementsFifoLock`). That only one fiber is in its section says nothing
about who else believes the list to be empty. The invariant ties every `pc` to the
fiber's place in the list: its waiter is in `queue` exactly at the labels between
its compare-and-swap and its unlinking, occurs there once (`QueueOK`), and is at
the front exactly when the fiber holds or is being handed the lock (`FrontOK`,
`GrantOK`, `ReleaseOK`); a callback is saved exactly while its waiter may be resumed
(`CallbackOK`); `owner` is the holder except in the two windows where the code has
not yet written it. The refinement maps the list to the line of `FifoLock`: a
waiter joins it at the successful compare-and-swap of `AcquireFast` or
`AcquireSlow`, enters when its fiber goes on, and leaves when it is unlinked or
`head_` is cleared. Every other step leaves what the abstract lock shows unchanged.

**`LockProofs`, `ConditionVariable`.** `CVMutualExclusion` (`CVOwnsLock`) and
`CVNoLostWakeup`. With a condition variable a fiber may link the waiter of
another one, so the parts above are restated for two waiters per fiber, and
more is needed: who is being linked is blocked, unlisted and linked by one fiber
only (`TargetOK`); `waiters_` has exactly the fibers that may be notified
(`WaitersOK`); a blocked fiber that was notified is in the lock's list or about to
be (`BlockedOK`). No wakeup is lost because, while somebody waits, there are never
more items than woken fibers, counting the holder that has yet to notify (`WakeOK`);
the proof counts with the cardinality of the woken fibers, a finite set even if
the set of fibers is not.

**`PipeProofs`.** `PipeNothingLeftBehind`, `PipeNoReaderStranded`,
`PipeNoWatcherStranded`. A reader is listed once (`ListedOnce`), the end of the
pipe is final (`EndIsFinal`), and what was taken followed by what is in the pipe is
what was accepted (`Drained`), which gives the order. That no reader is stranded
is proved by counting the readers on their way to the lock; this is why the set
of readers is assumed finite.

**`InterruptProofs`.** `InterruptInvokedOnce` and `InterruptTriggerNotLost`.
`InvokedOnce` holds because, outside of the race, the pipeline invokes a handler
that no thread has (`InvokesAlone`), nor can a thread come by it any more,
`handler_` being nullptr for good by then (`InvokeInside`); and because a callback
is there until the one who moved it out empties it, and gone from then on
(`CallbackUsedUp`). A handler that was installed is served: it is in `handler_`, or
a thread that has triggered holds it, or its callback was run (`InstalledServed`),
and so is one between the compare-and-swap of `Install` and the update of its state
(`InstallingServed`). All of these hold while no CHECK has failed:
`InterruptTrigger.cfg` and `InterruptInvoke.cfg` show that one may.

**`ForkJoinProofs`.** `ForkJoinOutcomeOfAll`, and `DoAllRemainingInterrupted`:
`DoAll` satisfies `RemainingInterrupted`, which `ForkJoinRemaining.cfg` refutes for
`ForkJoin`. `StoppedOrErrorFinds` says what the loop of
`GetStoppedOrErrorIfExists` finds for any number of fibers (a stop if there is
one, else the last error); it is proved from a least counterexample, since the
library's induction theorems cannot be used. The invariant says that `counter_`
is the number of fibers that are not done (`Counted`), so that exactly one brings
it to zero, after all results are stored (`FiberResults`, `NothingBuilt`), and that
what it continued with is what they amount to (`Decided`); and how far a failed
fiber of `DoAll` has gone through the others (`SweepReachesAll`).

**`StaticThreadPoolProofs`.** `PoolResumedInOrder` and `PoolQueuedContextsLive`.
A context is queued once, with its own cpu (`ListedQueued`); what a worker has
taken is in no list any more (`TakenQueued`); a worker runs contexts of its cpu
(`RunsItsOwn`). Contexts live because their borrows are counted: one for the waiter
from the submission until it runs, and one for every frame of the worker's stack
that runs the context (`BorrowsCounted`), and what is borrowed is not destructed
(`BorrowedAlive`). Nothing is said of the `unuse()` that follows the last borrow.

**`StreamProofs`, `Concurrent`.** `ConcurrentQuietAtTheEnd`, `ConcurrentValuesDelivered`,
`ConcurrentFirstRaisedReported`, `ConcurrentReusedFibersLeft`. The list of fibers
grows by at most one per element (`FibersForElements`), a thread is only in a fiber
that was started (`FibersInUse`), `upstream_done_` says that upstream has answered
its last call (`UpstreamReturned`), `stopped_or_error_` holds the first failure
(`FirstKept`), and nothing follows the report of it (`NothingAfterReport`).

**`StreamProofs`, `Streams`.** `StreamsNoStreamLeftOpen` and
`StreamsAskedThenAnswered`, for pipelines of any length, in any order that the
types of the eventuals allow, over any values. A pipeline is data in the model, so
the invariant speaks about the place of the call in it: questions go up and answers
down, and all the streams from the call on owe an answer while none of those
before it does (`AnswersOwed`). That they were asked for a value, not told `Done`,
is needed where a value is given (`ValueAsked`). Each continuation asks the stream
next above it (`LinksOK`), which `Begin` has handed down past everything that is
no stream (`StartOK`). `TakeLast` needs a part of its own twice: it answers for a
stream that is over, and no call goes above it then (`StaysBelow`); and it may be
called off before it has asked, so that `Done` stops there and what is above is
open but silent (`DoneStops`, `ClosedAbove`). The proof has one lemma for every kind of
move that the conversation knows (a question, a value, an end, a failure, a move
inside of `FlatMap`, the end of the pipeline), each of which keeps the invariant
and is in turn; every action is then shown to be one of these moves or an abort.

**`GrpcProofs`.** `GrpcTagsOutlived`, `GrpcQuietAfterWait` and
`GrpcDroppedOnlyAtShutdown`, for any clients and services. gRPC holds exactly the
tags that the place of a call says (`TagsPending`); a call that was given out is
held by one worker (`NotTaken`, `HeldByOne`) or once in the pipe of its endpoint
(`QueuedOnce`), which belongs to a service that ends after it (`Owned`); a method
stops reading only at the end of its closed pipe or when a call has failed
(`MethodReads`). Nothing is closed or dropped before `Shutdown`
(`ClosedAtShutdown`), so that only then a tag, the done tag of a dropped call, can be
out for a context that is gone, nor the server reset before all have ended
(`ResetAfterAll`).

**`EventLoopProofs`.** `LoopContinuedOnce` and `LoopCallbackChecksHold`, for any
operations and durations. The loop's list has a context once, and an
`interrupt_context_` once (`Single`). For each operation: its continuation has one
of the shapes of a life from `start` through the handle and its closing to the
call that continues it (`Formed`); its context is in one place, be it a list,
libuv or its caller (`HadByOne`); what is submitted fits how far it is
(`SubmittedFits`); its interrupt is handled once (`HandledOnce`), and not for an
operation that failed on its way (`ArmedStarts`).
`LoopNotEarly` adds time: wherever a timer is, at its caller, on the
clock's list, submitted or with libuv, the time it has waited and what is left
of it come to its duration, cut by less than a millisecond once libuv has it
(`Timely`). It holds when the clock is not touched while a timer is being started
(`~Racing`, as in `event_loop`), and then `LoopPendingWhilePaused` shows that timers
are pending only on a paused clock; without that `MCEventLoopClock.cfg` refutes it.

### What the proofs assume

| Assumption | Of the constants |
|---|---|
| `NullAssumption`, `HandlerAssumption`, parts of `PoolAssumption` and `GrpcServerAssumption` | the null pointer and the placeholder are none of the fibers, waiters, handlers, CHECKs, contexts or keys |
| `MaxReadyAssumption`, `ConcurrentAssumption`, `ForkJoinAssumption`, `PoolAssumption`, `PipeAssumption` | the bounds are natural numbers, where needed positive |
| `PipeAssumption` | finitely many readers |
| `GrpcServerAssumption` | a completion queue; every service accepts a set of keys |
| `PipelinesAssumption` | every pipeline is well formed: one source, before it eventuals of one value, after it eventuals from streams to streams, at its end one that takes a stream; what is type-erased is closed by its adaptor |
| `EventLoopAssumption` | operations have a kind and a duration in natural numbers, a millisecond has at least one unit |

Sets of fibers, threads, handlers, contexts and calls are otherwise arbitrary, and
bounds on counters are parameters of the theorems, so they restrict nothing.

`PipelinesAssumption` is what `operator>>` asserts of the two eventuals that it
composes (compose.h:132), with one exception that the types do admit: an eventual
that is itself a stream (`TakeRange`, `TakeLast`, `FlatMap`) inside a `Transformer`.
Its continuation is never begun (transformer.h:194), so that it calls through a
null stream, and the model defines no answer for that. TLC
evaluates the assumption on every pipeline of `MCStreams`, so none of those is
outside of what the theorems cover.

### Only model-checked

- Liveness, which is out of the prover's reach: `QueuedAcquires`,
  `InstalledUninstallReturns`, `SubmittedRuns`, both `ShutdownReturns`,
  `DoneEnds`, `RaisedIsReported`, `FailurePropagates`, `Terminates`,
  `InterruptedEnds`, `TimerEnds`, `CallsEnd`, `InterruptEnds`.
- `Denotes`: it compares pipelines with a reference that is recursive over their
  structure, which is induction over data.

## Not modelled

- `Wait()` without a condition; `~Interrupt` (its loop depends on refusals of
  `StatefulTally::Update`, which is not in the repository); the construction of
  the thread pool and the affinity of its threads; the default scheduler, which
  runs everything in place.
- The rescheduling of `previous_->Continue()` in streams: the calls keep their
  order, so only where they run is left out.
- The loop's construction, destruction and `EventLoop::Buffer`; `ServerBuilder`,
  the threads and the shutdown of the completion thread pools, streams of requests; a `Task` that is started by itself
  with callbacks or a promise; interrupts in streams and loops.
- `ConcurrentOrdered`, `Notification`, `ControlLoop`, `Executor` and
  `RequestResponseChannel`: compositions of parts that are modelled, with little
  state of their own. The other value combinators: sequential forwarding.
- Memory order: the atomics are taken to be sequentially consistent. The code
  uses relaxed loads and release stores.
- Compile-time machinery (errors, type traits), logging, formatting; wrappers of
  OpenSSL, libcurl, libuv and the operating system.

## Plan

1. Theorems: an abstract pool (contexts are queues of turns) and an abstract
   server, which `StaticThreadPool` and `Grpc` implement; the protocol of the
   streams with a stream inside of a `Transformer`, once `Begin` reaches it.
2. Interruptible streams and loops, the scheduler context that `Continue` returns
   to (`Range::Next` ends without it, range.h:53), and `Streams` composed with
   `Concurrent`, which a `TakeFirst(0)` tells `Done` first.
3. `RequestResponseChannel`, `Notification` and `ControlLoop` on `Pipe` and
   `ConditionVariable`.

-------------------------------- MODULE Lock --------------------------------
(***************************************************************************)
(* eventuals::Lock (eventuals/lock.h), the asynchronous mutex of the       *)
(* library: a lock-free linked list of waiters whose end is the holder.    *)
(* One action is one access to the lock's shared words (head_, owner_) or  *)
(* to the waiter that the access publishes; the steps of the fibers that   *)
(* acquire and release the lock interleave in any order.                   *)
(*                                                                         *)
(* The linked list is kept as a sequence in order of arrival: queue[1] is  *)
(* the node whose next is nullptr (the holder, once it has been told so),  *)
(* the last element is head_.  Only the head is ever pushed on, and only   *)
(* the holder unlinks the end, so the nodes between are stable.            *)
(***************************************************************************)
EXTENDS Naturals, Sequences

CONSTANTS Fibers,   \* the pipelines that use the lock, one Scheduler::Context each
          NULL      \* nullptr

\* A fiber owns two Lock::Waiter objects: the one in its _Acquire continuation
\* and the one in its _Wait continuation (used by ConditionVariable.tla).
Waiters == Fibers \X {"acquire", "wait"}

AcquireWaiter(f) == <<f, "acquire">>
WaitWaiter(f) == <<f, "wait">>

\* nullptr is no waiter and no context.
ASSUME NullAssumption == NULL \notin Waiters /\ NULL \notin Fibers

VARIABLES
  queue,      \* the list of waiters hanging off head_, oldest first
  owner,      \* owner_: the context of the holder, or NULL
  acquired,   \* the waiters whose Waiter::acquired is true
  callback,   \* the waiters whose Waiter::f holds a callback
  pc,         \* what each fiber executes next
  seen,       \* the head_ a fiber loaded last (waiter->next, or Release's local)
  clearing    \* waiters whose releaser has yet to store acquired = false

lockVars == <<queue, owner, acquired, callback, pc, seen, clearing>>

-----------------------------------------------------------------------------

Init ==
  /\ queue = <<>>
  /\ owner = NULL
  /\ acquired = {}
  /\ callback = {}
  /\ pc = [f \in Fibers |-> "idle"]
  /\ seen = [f \in Fibers |-> NULL]
  /\ clearing = {}

\* What head_.load() returns.
HeadPtr == IF queue = <<>> THEN NULL ELSE queue[Len(queue)]

\* waiter->next == nullptr: the waiter is not in the list, or it is its end.
NextIsNull(w) == \A i \in DOMAIN queue : queue[i] = w => i = 1

\* The CHECKs at the start of AcquireFast and AcquireSlow.
CanAcquire(w) == w \notin acquired /\ NextIsNull(w)

-----------------------------------------------------------------------------
(* Lock::AcquireFast and the _Acquire handlers that call it.               *)

\* Mutant of FastLoad: the handler calls AcquireSlow without saving waiter.f.
FastLoadNoCallback(f, w) ==
  /\ pc[f] \in {"idle", "fast_load"}
  /\ CanAcquire(w)
  /\ pc' = [pc EXCEPT ![f] = IF queue = <<>> THEN "fast_cas" ELSE "slow_load"]
  /\ UNCHANGED <<queue, owner, acquired, callback, seen, clearing>>

\* An _Acquire handler (Start, Fail, Stop, Begin, Body or Ended) calls
\* AcquireFast, or AcquireSlow falls back to it: load head_.  If the lock is
\* taken the handler saves its continuation in waiter.f and calls AcquireSlow.
FastLoad(f, w) ==
  /\ pc[f] \in {"idle", "fast_load"}
  /\ CanAcquire(w)
  /\ \/ /\ queue = <<>>
        /\ pc' = [pc EXCEPT ![f] = "fast_cas"]
        /\ UNCHANGED callback
     \/ /\ queue # <<>>
        /\ pc' = [pc EXCEPT ![f] = "slow_load"]
        /\ callback' = callback \cup {w}
  /\ UNCHANGED <<queue, owner, acquired, seen, clearing>>

\* Mutant of FastCas: a plain store in place of the compare-and-swap.
FastCasStore(f, w) ==
  /\ pc[f] = "fast_cas"
  /\ queue' = <<w>>
  /\ pc' = [pc EXCEPT ![f] = "fast_own"]
  /\ UNCHANGED <<owner, acquired, callback, seen, clearing>>

\* The compare-and-swap of an empty head_ for the waiter.
FastCas(f, w) ==
  /\ pc[f] = "fast_cas"
  /\ \/ /\ queue = <<>>
        /\ queue' = <<w>>
        /\ pc' = [pc EXCEPT ![f] = "fast_own"]
        /\ UNCHANGED callback
     \/ /\ queue # <<>>
        /\ pc' = [pc EXCEPT ![f] = "slow_load"]
        /\ callback' = callback \cup {w}
        /\ UNCHANGED queue
  /\ UNCHANGED <<owner, acquired, seen, clearing>>

\* The winner records itself as the owner.  From AcquireFast the handler goes
\* straight on; from AcquireSlow it moves waiter.f out and runs it, which
\* submits the rest of the pipeline to the fiber's context.
FastOwn(f, w) ==
  /\ pc[f] = "fast_own"
  /\ owner' = f
  /\ acquired' = acquired \cup {w}
  /\ callback' = callback \ {w}
  /\ pc' = [pc EXCEPT ![f] = IF w \in callback THEN "unblocked" ELSE "section"]
  /\ UNCHANGED <<queue, seen, clearing>>

-----------------------------------------------------------------------------
(* Lock::AcquireSlow, run by fiber f for waiter w.                         *)

SlowLoad(f, w) ==
  /\ pc[f] = "slow_load"
  /\ CanAcquire(w)
  /\ seen' = [seen EXCEPT ![f] = HeadPtr]
  /\ pc' = [pc EXCEPT ![f] = IF HeadPtr = NULL THEN "fast_load" ELSE "slow_cas"]
  /\ UNCHANGED <<queue, owner, acquired, callback, clearing>>

\* Push the waiter if head_ is still the one seen; otherwise look again.
SlowCas(f, w, return) ==
  /\ pc[f] = "slow_cas"
  /\ \/ /\ HeadPtr = seen[f]
        /\ queue' = Append(queue, w)
        /\ pc' = [pc EXCEPT ![f] = return]
        /\ UNCHANGED seen
     \/ /\ HeadPtr # seen[f]
        /\ seen' = [seen EXCEPT ![f] = HeadPtr]
        /\ pc' = [pc EXCEPT ![f] = IF HeadPtr = NULL THEN "fast_load" ELSE @]
        /\ UNCHANGED queue
  /\ UNCHANGED <<owner, acquired, callback, clearing>>

\* The scheduler runs what Context::Unblock submitted: the fiber continues,
\* holding the lock.
Resume(f, return) ==
  /\ pc[f] = "unblocked"
  /\ pc' = [pc EXCEPT ![f] = return]
  /\ UNCHANGED <<queue, owner, acquired, callback, seen, clearing>>

-----------------------------------------------------------------------------
(* Lock::Release, run by the holder.                                       *)

\* CHECK(!lock_->Available()) in the _Release handlers and in _Wait, and
\* CHECK_NOTNULL(waiter) in Release: head_ is not nullptr.
ReleaseLoad(f) ==
  /\ pc[f] \in {"section", "release"}
  /\ queue # <<>>
  /\ seen' = [seen EXCEPT ![f] = HeadPtr]
  /\ pc' = [pc EXCEPT ![f] = IF Len(queue) = 1 THEN "release_disown"
                                               ELSE "release_unlink"]
  /\ UNCHANGED <<queue, owner, acquired, callback, clearing>>

\* Mutant of ReleaseDisown: owner_ keeps the context of the last holder.
ReleaseDisownMissing(f) ==
  /\ pc[f] = "release_disown"
  /\ pc' = [pc EXCEPT ![f] = "release_cas"]
  /\ UNCHANGED <<queue, owner, acquired, callback, seen, clearing>>


ReleaseDisown(f) ==
  /\ pc[f] = "release_disown"
  /\ owner' = NULL
  /\ pc' = [pc EXCEPT ![f] = "release_cas"]
  /\ UNCHANGED <<queue, acquired, callback, seen, clearing>>

\* Nobody else is waiting: swap head_ for nullptr.  The releaser stores
\* acquired = false only afterwards, when the lock is already free.
ReleaseCas(f, return) ==
  /\ pc[f] = "release_cas"
  /\ \/ /\ HeadPtr = seen[f]
        /\ queue' = <<>>
        /\ clearing' = clearing \cup {seen[f]}
        /\ pc' = [pc EXCEPT ![f] = return]
     \/ /\ HeadPtr # seen[f]
        /\ pc' = [pc EXCEPT ![f] = "release"]
        /\ UNCHANGED <<queue, clearing>>
  /\ UNCHANGED <<owner, acquired, callback, seen>>

\* compare_exchange_weak may also fail for no reason: try again.
ReleaseCasSpurious(f) ==
  /\ pc[f] = "release_cas"
  /\ pc' = [pc EXCEPT ![f] = "release"]
  /\ UNCHANGED <<queue, owner, acquired, callback, seen, clearing>>

\* waiter->acquired = false, after the compare-and-swap.
ReleaseClear(w) ==
  /\ w \in clearing
  /\ acquired' = acquired \ {w}
  /\ clearing' = clearing \ {w}
  /\ UNCHANGED <<queue, owner, callback, pc, seen>>

\* Mutant of ReleaseUnlink: the lock goes to the youngest waiter, head_.
ReleaseUnlinkLifo(f) ==
  /\ pc[f] = "release_unlink"
  /\ Len(queue) > 1
  /\ acquired' = acquired \ {queue[1]}
  /\ queue' = <<queue[Len(queue)]>> \o SubSeq(queue, 2, Len(queue) - 1)
  /\ pc' = [pc EXCEPT ![f] = "release_grant"]
  /\ UNCHANGED <<owner, callback, seen, clearing>>

\* Somebody is waiting: walk to the last but one node and unlink the last.
ReleaseUnlink(f) ==
  /\ pc[f] = "release_unlink"
  /\ Len(queue) > 1
  /\ acquired' = acquired \ {queue[1]}
  /\ queue' = Tail(queue)
  /\ pc' = [pc EXCEPT ![f] = "release_grant"]
  /\ UNCHANGED <<owner, callback, seen, clearing>>

\* Hand the lock to the node that is now the last one, and run its callback,
\* which submits its fiber to the scheduler.
ReleaseGrant(f, return) ==
  /\ pc[f] = "release_grant"
  /\ queue # <<>>
  /\ LET w == queue[1] IN
       /\ w \in callback
       /\ owner' = w[1]
       /\ acquired' = acquired \cup {w}
       /\ callback' = callback \ {w}
       /\ pc' = [pc EXCEPT ![f] = return, ![w[1]] = "unblocked"]
  /\ UNCHANGED <<queue, seen, clearing>>

\* Release has returned and so does the fiber: the pipeline goes on.
Return(f) ==
  /\ pc[f] = "returning"
  /\ clearing \cap {AcquireWaiter(f), WaitWaiter(f)} = {}
  /\ pc' = [pc EXCEPT ![f] = "idle"]
  /\ UNCHANGED <<queue, owner, acquired, callback, seen, clearing>>

-----------------------------------------------------------------------------
(* Fibers that run  Acquire(&lock) >> ... >> Release(&lock)  again and again. *)

AcquireStep(f) ==
  \/ FastLoad(f, AcquireWaiter(f))
  \/ FastCas(f, AcquireWaiter(f))
  \/ FastOwn(f, AcquireWaiter(f))
  \/ SlowLoad(f, AcquireWaiter(f))
  \/ SlowCas(f, AcquireWaiter(f), "queued")
  \/ Resume(f, "section")

ReleaseStep(f) ==
  \/ ReleaseLoad(f)
  \/ ReleaseDisown(f)
  \/ ReleaseCas(f, "returning")
  \/ ReleaseCasSpurious(f)
  \/ ReleaseClear(AcquireWaiter(f))
  \/ ReleaseUnlink(f)
  \/ ReleaseGrant(f, "returning")
  \/ Return(f)

Next == \E f \in Fibers : AcquireStep(f) \/ ReleaseStep(f)

Spec == Init /\ [][Next]_lockVars

\* A fiber that is inside an operation keeps executing it: its thread runs, or
\* the scheduler runs what was submitted.  A weak compare-and-swap does not
\* fail for no reason for ever.  Nothing makes an idle fiber ask for the lock.
Fairness ==
  \A f \in Fibers :
    /\ WF_lockVars(pc[f] # "idle" /\ AcquireStep(f))
    /\ WF_lockVars(ReleaseStep(f))
    /\ SF_lockVars(ReleaseCas(f, "returning"))

FairSpec == Spec /\ Fairness

-----------------------------------------------------------------------------

LockLabels ==
  {"idle", "fast_load", "fast_cas", "fast_own", "slow_load", "slow_cas", "queued",
   "unblocked", "section", "release", "release_disown", "release_cas",
   "release_unlink", "release_grant", "returning"}

TypeOK ==
  /\ queue \in Seq(Waiters)
  /\ owner \in Fibers \cup {NULL}
  /\ acquired \in SUBSET Waiters
  /\ callback \in SUBSET Waiters
  /\ pc \in [Fibers -> LockLabels]
  /\ seen \in [Fibers -> Waiters \cup {NULL}]
  /\ clearing \in SUBSET Waiters

\* Labels at which a fiber holds the lock and may touch what it protects.
Holding == {"section", "release", "release_disown", "release_cas", "release_unlink"}

\* Two fibers are never between a successful acquire and the unlinking of
\* their waiter at the same time (lock.h: a compare-and-swap of an empty
\* head_, or a hand-over by Release, is the only way in).
MutualExclusion ==
  \A f, g \in Fibers : pc[f] \in Holding /\ pc[g] \in Holding => f = g

\* OwnedByCurrentSchedulerContext() answers true to the fiber in its critical
\* section and never to one that has not yet been handed the lock or has
\* already returned from Release, although owner_ is not written together
\* with head_.
OwnerIsHolder ==
  \A f \in Fibers :
    /\ pc[f] \in {"section", "unblocked"} => owner = f
    /\ owner = f => pc[f] \in Holding \cup {"unblocked", "release_grant"}

\* No CHECK of lock.h fails when the lock is used through Acquire and Release
\* only: a waiter that asks for the lock is not acquired and not in the list,
\* Release finds the list as it expects it, and the waiter it hands the lock
\* to has a callback to run.
ChecksHold ==
  \A f \in Fibers :
    /\ pc[f] \in {"idle", "fast_load", "slow_load"} => CanAcquire(AcquireWaiter(f))
    /\ pc[f] \in {"section", "release"} => queue # <<>>
    /\ pc[f] = "release_unlink" => Len(queue) > 1
    /\ pc[f] = "release_grant" => queue # <<>> /\ queue[1] \in callback

\* The detailed lock implements the abstract one.  A waiter is in the line from
\* the compare-and-swap that links it to the one that unlinks it.
StageOf(w) ==
  IF w[2] # "acquire" THEN "out"
  ELSE IF pc[w[1]] \in {"fast_own", "queued", "unblocked"} THEN "line"
  ELSE IF pc[w[1]] \in Holding THEN "in"
  ELSE "out"

Abstract == INSTANCE FifoLock WITH line <- queue, stage <- [w \in Waiters |-> StageOf(w)]

\* Fibers get the lock in the order in which their waiters were linked, one at
\* a time, and no waiter is skipped or served twice.
ImplementsFifoLock == Abstract!Spec

\* A fiber whose waiter is linked is handed the lock, however many other
\* fibers keep coming back for it.
QueuedAcquires ==
  \A f \in Fibers : pc[f] = "queued" ~> pc[f] = "section"

=============================================================================

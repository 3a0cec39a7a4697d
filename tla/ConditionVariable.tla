------------------------- MODULE ConditionVariable -------------------------
(***************************************************************************)
(* Wait and ConditionVariable (eventuals/lock.h) on top of Lock.tla.       *)
(*                                                                         *)
(* Every fiber runs  Acquire >> body >> Release  again and again.  A body  *)
(* is a consumer, which waits while there is nothing to take and then      *)
(* takes one item, or a producer, which adds an item and calls Notify() or *)
(* NotifyAll().  A waiting fiber leaves its waiter's callback behind and   *)
(* releases the lock; Notify() links that waiter into the lock's list on   *)
(* its behalf, so the steps of AcquireSlow are taken here by the notifier. *)
(*                                                                         *)
(* An execution in which a CHECK fails is followed up to the failure: the  *)
(* steps after a CHECK have it as their guard.                             *)
(***************************************************************************)
EXTENDS Lock, FiniteSets

CONSTANT MaxReady   \* bound on the items a producer may leave behind

ASSUME MaxReadyAssumption == MaxReady \in Nat \ {0}

VARIABLES
  waiters,     \* ConditionVariable's list hanging off head_, oldest first
  notifiable,  \* the fibers whose _Wait continuation has notifiable_ set
  target,      \* the fiber whose waiter f links in Notify(), or NULL
  all,         \* whether f is in NotifyAll() rather than in Notify()
  ready        \* the items there are: what the wait condition looks at

waitVars == <<waiters, notifiable, target, all, ready>>
cvVars == <<lockVars, waitVars>>

CVInit ==
  /\ Init
  /\ waiters = <<>>
  /\ notifiable = {}
  /\ target = [f \in Fibers |-> NULL]
  /\ all = [f \in Fibers |-> FALSE]
  /\ ready = 0

\* The Lock::Waiter that f is linking: its own, or the one it notifies.
Linking(f) == IF target[f] = NULL THEN AcquireWaiter(f) ELSE WaitWaiter(target[f])

\* Where f goes once AcquireSlow has linked the waiter.
AfterLinking(f) ==
  IF target[f] = NULL THEN "queued" ELSE IF all[f] THEN "notify" ELSE "release"

\* Release returns to a fiber that goes on, or to one that waits.
AfterRelease(f) == IF f \in notifiable THEN "blocked" ELSE "returning"

-----------------------------------------------------------------------------

\* _Wait::Start or Body, the first time or again after a notification: the
\* condition says wait, and the fiber is appended to the list of waiters and
\* saves its callback before it calls Release.
Wait(f) ==
  /\ pc[f] \in {"section", "wait"}
  /\ queue # <<>> /\ owner = f
  /\ ready = 0
  /\ waiters' = Append(waiters, f)
  /\ notifiable' = notifiable \cup {f}
  /\ callback' = callback \cup {WaitWaiter(f)}
  /\ pc' = [pc EXCEPT ![f] = "release"]
  /\ UNCHANGED <<queue, owner, acquired, seen, clearing, target, all, ready>>

\* The condition says go on: the fiber takes an item and leaves.
Proceed(f) ==
  /\ pc[f] \in {"section", "wait"}
  /\ queue # <<>> /\ owner = f
  /\ ready > 0
  /\ ready' = ready - 1
  /\ notifiable' = notifiable \ {f}
  /\ pc' = [pc EXCEPT ![f] = "release"]
  /\ UNCHANGED <<queue, owner, acquired, callback, seen, clearing, waiters, target, all>>

\* A producer adds an item and calls Notify() or NotifyAll().
Produce(f, notifyAll) ==
  /\ pc[f] = "section"
  /\ ready < MaxReady
  /\ ready' = ready + 1
  /\ all' = [all EXCEPT ![f] = notifyAll]
  /\ pc' = [pc EXCEPT ![f] = "notify"]
  /\ UNCHANGED <<queue, owner, acquired, callback, seen, clearing, waiters, notifiable, target>>

\* Mutants of Notify: the notified fiber goes on at once, without the lock; the
\* waiters behind it are dropped from the list.
NotifyWithoutLock(f) ==
  /\ pc[f] = "notify" /\ owner = f /\ waiters # <<>>
  /\ waiters' = Tail(waiters)
  /\ notifiable' = notifiable \ {Head(waiters)}
  /\ pc' = [pc EXCEPT ![f] = IF all[f] THEN @ ELSE "release", ![Head(waiters)] = "wait"]
  /\ UNCHANGED <<queue, owner, acquired, callback, seen, clearing, target, all, ready>>

NotifyDropsOthers(f) ==
  /\ pc[f] = "notify" /\ owner = f /\ waiters # <<>>
  /\ waiters' = <<>>
  /\ notifiable' = notifiable \ {Head(waiters)}
  /\ target' = [target EXCEPT ![f] = Head(waiters)]
  /\ pc' = [pc EXCEPT ![f] = "slow_load"]
  /\ UNCHANGED <<queue, owner, acquired, callback, seen, clearing, all, ready>>

\* ConditionVariable::Notify: pop the oldest waiter and run its notify
\* callback, which goes on to AcquireSlow if the waiter is still notifiable.
Notify(f) ==
  /\ pc[f] = "notify"
  /\ owner = f
  /\ waiters # <<>>
  /\ waiters' = Tail(waiters)
  /\ LET g == Head(waiters) IN
       /\ notifiable' = notifiable \ {g}
       /\ target' = [target EXCEPT ![f] = IF g \in notifiable THEN g ELSE NULL]
       /\ pc' = [pc EXCEPT ![f] = IF g \in notifiable THEN "slow_load"
                                  ELSE IF all[f] THEN @ ELSE "release"]
  /\ UNCHANGED <<queue, owner, acquired, callback, seen, clearing, all, ready>>

\* Nobody waits (any more).
NotifyNobody(f) ==
  /\ pc[f] = "notify"
  /\ owner = f
  /\ waiters = <<>>
  /\ pc' = [pc EXCEPT ![f] = "release"]
  /\ UNCHANGED <<queue, owner, acquired, callback, seen, clearing, waitVars>>

\* AcquireSlow, for the fiber itself or on behalf of the one it notifies; once
\* the waiter is linked the notifier has nobody in hand.
Link(f) ==
  /\ SlowCas(f, Linking(f), AfterLinking(f))
  /\ target' = [target EXCEPT ![f] = IF pc'[f] = "slow_cas" THEN @ ELSE NULL]
  /\ UNCHANGED <<waiters, notifiable, all, ready>>

\* The fiber that was handed the lock goes on where it stopped.
Unblocked(f) ==
  Resume(f, IF queue[1] = WaitWaiter(f) THEN "wait" ELSE "section")

-----------------------------------------------------------------------------

WaitStep(f) ==
  \/ Wait(f)
  \/ Proceed(f)
  \/ \E notifyAll \in BOOLEAN : Produce(f, notifyAll)
  \/ Notify(f)
  \/ NotifyNobody(f)
  \/ Link(f)

LockStep(f) ==
  /\ \/ FastLoad(f, Linking(f))
     \/ FastCas(f, Linking(f))
     \/ FastOwn(f, Linking(f))
     \/ SlowLoad(f, Linking(f))
     \/ Unblocked(f)
     \/ ReleaseLoad(f)
     \/ ReleaseDisown(f)
     \/ ReleaseCas(f, AfterRelease(f))
     \/ ReleaseCasSpurious(f)
     \/ ReleaseUnlink(f)
     \/ ReleaseGrant(f, AfterRelease(f))
     \/ Return(f)
  /\ UNCHANGED waitVars

Clear(w) == ReleaseClear(w) /\ UNCHANGED waitVars

CVNext ==
  \/ \E f \in Fibers : WaitStep(f) \/ LockStep(f)
  \/ \E w \in Waiters : Clear(w)

CVSpec == CVInit /\ [][CVNext]_cvVars

-----------------------------------------------------------------------------

CVTypeOK ==
  /\ queue \in Seq(Waiters)
  /\ owner \in Fibers \cup {NULL}
  /\ acquired \in SUBSET Waiters
  /\ callback \in SUBSET Waiters
  /\ pc \in [Fibers -> LockLabels \cup {"wait", "notify", "blocked"}]
  /\ seen \in [Fibers -> Waiters \cup {NULL}]
  /\ clearing \in SUBSET Waiters
  /\ waiters \in Seq(Fibers)
  /\ notifiable \in SUBSET Fibers
  /\ target \in [Fibers -> Fibers \cup {NULL}]
  /\ all \in [Fibers -> BOOLEAN]
  /\ ready \in 0..MaxReady

\* CHECK(lock_->OwnedByCurrentSchedulerContext()) holds wherever it is made (in
\* the wait condition, in Notify() and in the callback that Notify() runs), and
\* so two fibers are never in the section, although the notifier links the waiter
\* of another fiber and the waiting fiber comes back holding the lock through a
\* waiter it did not acquire with.
CVOwnsLock ==
  \A f \in Fibers : pc[f] \in {"section", "wait", "notify"} \/ target[f] # NULL =>
    owner = f /\ queue # <<>> /\ queue[1][1] = f

\* When nobody holds or asks for the lock, no fiber waits for an item that is
\* there: a notification is never lost between evaluating the condition and
\* releasing the lock, and a notified fiber that finds the item gone waits
\* again without taking anybody's turn.
NoLostWakeup ==
  queue = <<>> /\ ready > 0 => \A f \in Fibers : pc[f] # "blocked"

\* CHECK(!waiter->acquired) << "recursive lock acquire detected" (AcquireSlow),
\* as it is made when Notify() links a waiter: Release stores acquired = false
\* only after the compare-and-swap that frees the lock, so the fiber that gets
\* the lock next may find the flag of the waiter it notifies still set.
NoRecursiveAcquireDetected ==
  \A f \in Fibers : pc[f] = "slow_load" => Linking(f) \notin acquired

=============================================================================

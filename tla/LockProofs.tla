----------------------------- MODULE LockProofs -----------------------------
(***************************************************************************)
(* Proofs about Lock.tla, for any set of fibers: mutual exclusion, the     *)
(* meaning of owner_, the CHECKs of lock.h, and the refinement of FifoLock; *)
(* and about ConditionVariable.tla: the lock stays exclusive when notifiers *)
(* link other fibers, and no wakeup is lost.                               *)
(***************************************************************************)
EXTENDS ConditionVariable, SequenceTheorems, FiniteSetTheorems, TLAPS

\* Labels at which a fiber's waiter is linked, and at which it is the end of
\* the list (the oldest node).
InLine == Holding \cup {"fast_own", "queued", "unblocked"}
AtFront == Holding \cup {"fast_own", "unblocked"}

\* The list has no duplicates and links only waiters of fibers in line.
QueueOK ==
  /\ \A i \in 1..Len(queue) : \E f \in Fibers :
       queue[i] = AcquireWaiter(f) /\ pc[f] \in InLine
  /\ \A i, j \in 1..Len(queue) : queue[i] = queue[j] => i = j

\* Whoever has been let in is the oldest node.
FrontOK ==
  \A f \in Fibers : pc[f] \in AtFront => Len(queue) > 0 /\ queue[1] = AcquireWaiter(f)

\* A waiter that may be handed the lock by somebody else has its callback.
CallbackOK ==
  \A f \in Fibers :
    pc[f] \in {"slow_load", "slow_cas", "queued"} => AcquireWaiter(f) \in callback

\* Between unlinking itself and handing over, a releaser is alone, and the
\* oldest node is still waiting.
GrantOK ==
  \A f \in Fibers : pc[f] = "release_grant" =>
    /\ Len(queue) > 0
    /\ \E g \in Fibers : queue[1] = AcquireWaiter(g) /\ pc[g] = "queued"
    /\ \A g \in Fibers : pc[g] = "release_grant" => g = f

\* What a releaser remembers of its first look at head_ stays true.
ReleaseOK ==
  \A f \in Fibers :
    /\ pc[f] = "release_unlink" => Len(queue) > 1
    /\ pc[f] \in {"release_disown", "release_cas"} => seen[f] = AcquireWaiter(f)
    /\ pc[f] = "release_cas" => owner = NULL

\* Waiter::acquired is set for holders, and for a releaser that has not yet
\* come back from Release.
AcquiredOK ==
  \A f \in Fibers :
    /\ AcquireWaiter(f) \in acquired =>
         pc[f] \in Holding \cup {"unblocked"} \/ AcquireWaiter(f) \in clearing
    /\ AcquireWaiter(f) \in clearing => pc[f] = "returning"

IInv ==
  /\ TypeOK
  /\ QueueOK
  /\ FrontOK
  /\ CallbackOK
  /\ GrantOK
  /\ ReleaseOK
  /\ AcquiredOK
  /\ OwnerIsHolder
-----------------------------------------------------------------------------

\* A fiber's waiter names the fiber, and nullptr is nobody's waiter.
LEMMA WaiterFacts ==
  /\ \A f \in Fibers : AcquireWaiter(f) \in Waiters /\ AcquireWaiter(f)[1] = f
  /\ \A f, g \in Fibers : AcquireWaiter(f) = AcquireWaiter(g) => f = g
  /\ NULL \notin Waiters /\ NULL \notin Fibers
BY NullAssumption DEF AcquireWaiter, Waiters

\* A list of one node.
LEMMA SingletonFacts ==
  ASSUME NEW S, NEW e \in S
  PROVE  <<e>> \in Seq(S) /\ Len(<<e>>) = 1 /\ <<e>>[1] = e
OBVIOUS

-----------------------------------------------------------------------------
(* Every action preserves the invariant: one lemma per action, one step per  *)
(* conjunct.                                                                 *)

\* AcquireFast reads head_: nothing that is shared changes.
LEMMA FastLoadStep ==
  ASSUME IInv, NEW f \in Fibers, FastLoad(f, AcquireWaiter(f))
  PROVE  IInv'
<1> USE WaiterFacts DEF IInv, Holding, InLine, AtFront, HeadPtr, LockLabels, FastLoad
<1>1. TypeOK'
  BY DEF TypeOK
<1>2. QueueOK'
  BY DEF TypeOK, QueueOK
<1>3. FrontOK'
  BY DEF TypeOK, FrontOK
<1>4. CallbackOK'
  BY DEF TypeOK, CallbackOK
<1>5. GrantOK'
  BY DEF TypeOK, GrantOK
<1>6. ReleaseOK'
  BY DEF TypeOK, ReleaseOK
<1>7. AcquiredOK'
  BY DEF TypeOK, AcquiredOK
<1>8. OwnerIsHolder'
  BY DEF TypeOK, OwnerIsHolder
<1> QED BY <1>1, <1>2, <1>3, <1>4, <1>5, <1>6, <1>7, <1>8

\* The compare-and-swap of an empty head_: the list becomes the fiber alone.
LEMMA FastCasStep ==
  ASSUME IInv, NEW f \in Fibers, FastCas(f, AcquireWaiter(f))
  PROVE  IInv'
<1> USE WaiterFacts DEF IInv, Holding, InLine, AtFront, HeadPtr, LockLabels, FastCas
<1>1. TypeOK'
  <2>1. queue' \in Seq(Waiters)
    <3>1. CASE queue' = <<AcquireWaiter(f)>>
      BY <3>1, SingletonFacts
    <3>2. CASE UNCHANGED queue
      BY <3>2 DEF TypeOK
    <3> QED BY <3>1, <3>2
  <2>2. pc' \in [Fibers -> LockLabels] /\ callback' \in SUBSET Waiters
    BY DEF TypeOK
  <2> QED BY <2>1, <2>2 DEF TypeOK
<1>2. QueueOK'
  BY DEF TypeOK, QueueOK
<1>3. FrontOK'
  BY DEF TypeOK, FrontOK
<1>4. CallbackOK'
  BY DEF TypeOK, CallbackOK
<1>5. GrantOK'
  BY DEF TypeOK, GrantOK
<1>6. ReleaseOK'
  BY DEF TypeOK, ReleaseOK
<1>7. AcquiredOK'
  BY DEF TypeOK, AcquiredOK
<1>8. OwnerIsHolder'
  BY DEF TypeOK, OwnerIsHolder
<1> QED BY <1>1, <1>2, <1>3, <1>4, <1>5, <1>6, <1>7, <1>8

\* The winner of the compare-and-swap writes owner_; it is the oldest node,
\* so nobody else is releasing.
LEMMA FastOwnStep ==
  ASSUME IInv, NEW f \in Fibers, FastOwn(f, AcquireWaiter(f))
  PROVE  IInv'
<1> USE WaiterFacts DEF IInv, Holding, InLine, AtFront, HeadPtr, LockLabels, FastOwn
<1>1. TypeOK'
  BY DEF TypeOK
<1>2. QueueOK'
  BY DEF TypeOK, QueueOK
<1>3. FrontOK'
  BY DEF TypeOK, FrontOK
<1>4. CallbackOK'
  BY DEF TypeOK, CallbackOK
<1>5. GrantOK'
  BY DEF TypeOK, GrantOK
<1>6. ReleaseOK'
  BY DEF TypeOK, FrontOK, ReleaseOK
<1>7. AcquiredOK'
  BY DEF TypeOK, AcquiredOK
<1>8. OwnerIsHolder'
  BY DEF TypeOK, FrontOK, OwnerIsHolder
<1> QED BY <1>1, <1>2, <1>3, <1>4, <1>5, <1>6, <1>7, <1>8

\* AcquireSlow reads head_: nothing that is shared changes.
LEMMA SlowLoadStep ==
  ASSUME IInv, NEW f \in Fibers, SlowLoad(f, AcquireWaiter(f))
  PROVE  IInv'
<1> USE WaiterFacts DEF IInv, Holding, InLine, AtFront, HeadPtr, LockLabels, SlowLoad
<1>1. TypeOK'
  BY DEF TypeOK
<1>2. QueueOK'
  BY DEF TypeOK, QueueOK
<1>3. FrontOK'
  BY DEF TypeOK, FrontOK
<1>4. CallbackOK'
  BY DEF TypeOK, CallbackOK
<1>5. GrantOK'
  BY DEF TypeOK, GrantOK
<1>6. ReleaseOK'
  BY DEF TypeOK, ReleaseOK
<1>7. AcquiredOK'
  BY DEF TypeOK, AcquiredOK
<1>8. OwnerIsHolder'
  BY DEF TypeOK, OwnerIsHolder
<1> QED BY <1>1, <1>2, <1>3, <1>4, <1>5, <1>6, <1>7, <1>8

\* AcquireSlow links the waiter behind the last one, or looks again.
LEMMA SlowCasStep ==
  ASSUME IInv, NEW f \in Fibers, SlowCas(f, AcquireWaiter(f), "queued")
  PROVE  IInv'
<1> USE WaiterFacts DEF IInv, Holding, InLine, AtFront, HeadPtr, LockLabels, SlowCas
<1>1. TypeOK'
  <2>1. queue' \in Seq(Waiters)
    BY AppendProperties DEF TypeOK
  <2>2. HeadPtr \in Waiters \cup {NULL}
    BY DEF TypeOK
  <2>3. seen' \in [Fibers -> Waiters \cup {NULL}]
    BY <2>2 DEF TypeOK
  <2>4. pc' \in [Fibers -> LockLabels]
    BY DEF TypeOK
  <2> QED BY <2>1, <2>3, <2>4 DEF TypeOK
<1>2. QueueOK'
  <2>1. CASE UNCHANGED queue
    BY <2>1 DEF TypeOK, QueueOK
  <2>2. CASE queue' = Append(queue, AcquireWaiter(f)) /\ pc' = [pc EXCEPT ![f] = "queued"]
    <3>1. \A i \in 1..Len(queue) : queue[i] # AcquireWaiter(f)
      BY DEF TypeOK, QueueOK
    <3>2. /\ Len(queue') = Len(queue) + 1
          /\ \A i \in 1..Len(queue) : queue'[i] = queue[i]
          /\ queue'[Len(queue) + 1] = AcquireWaiter(f)
      BY <2>2, AppendProperties DEF TypeOK
    <3>3. Len(queue) \in Nat
      BY DEF TypeOK
    <3>4. pc'[f] = "queued" /\ \A g \in Fibers : g # f => pc'[g] = pc[g]
      BY <2>2 DEF TypeOK
    <3>5. \A i \in 1..Len(queue') : i \in 1..Len(queue) \/ i = Len(queue) + 1
      BY <3>2, <3>3
    <3>6. \A i \in 1..Len(queue') : \E g \in Fibers :
            queue'[i] = AcquireWaiter(g) /\ pc'[g] \in InLine
      BY <3>2, <3>4, <3>5 DEF QueueOK
    <3>7. \A i, j \in 1..Len(queue') : queue'[i] = queue'[j] => i = j
      BY <3>1, <3>2, <3>5 DEF QueueOK
    <3> QED BY <3>6, <3>7 DEF QueueOK
  <2> QED BY <2>1, <2>2
<1>3. FrontOK'
  <2>1. Len(queue) > 0 => Len(queue') > 0 /\ queue'[1] = queue[1]
    BY AppendProperties DEF TypeOK
  <2> QED BY <2>1 DEF TypeOK, FrontOK
<1>4. CallbackOK'
  BY DEF TypeOK, CallbackOK
<1>5. GrantOK'
  <2>1. Len(queue) > 0 => Len(queue') > 0 /\ queue'[1] = queue[1]
    BY AppendProperties DEF TypeOK
  <2> QED BY <2>1 DEF TypeOK, GrantOK
<1>6. ReleaseOK'
  <2>1. Len(queue') >= Len(queue) /\ Len(queue) \in Nat /\ Len(queue') \in Nat
    BY AppendProperties DEF TypeOK
  <2> QED BY <2>1 DEF TypeOK, ReleaseOK
<1>7. AcquiredOK'
  BY DEF TypeOK, AcquiredOK
<1>8. OwnerIsHolder'
  BY DEF TypeOK, OwnerIsHolder
<1> QED BY <1>1, <1>2, <1>3, <1>4, <1>5, <1>6, <1>7, <1>8

\* The scheduler runs the fiber that was handed the lock.
LEMMA ResumeStep ==
  ASSUME IInv, NEW f \in Fibers, Resume(f, "section")
  PROVE  IInv'
<1> USE WaiterFacts DEF IInv, Holding, InLine, AtFront, HeadPtr, LockLabels, Resume
<1>1. TypeOK'
  BY DEF TypeOK
<1>2. QueueOK'
  BY DEF TypeOK, QueueOK
<1>3. FrontOK'
  BY DEF TypeOK, FrontOK
<1>4. CallbackOK'
  BY DEF TypeOK, CallbackOK
<1>5. GrantOK'
  BY DEF TypeOK, GrantOK
<1>6. ReleaseOK'
  BY DEF TypeOK, ReleaseOK
<1>7. AcquiredOK'
  BY DEF TypeOK, AcquiredOK
<1>8. OwnerIsHolder'
  BY DEF TypeOK, OwnerIsHolder
<1> QED BY <1>1, <1>2, <1>3, <1>4, <1>5, <1>6, <1>7, <1>8

\* Release reads head_: a list of one node is the holder itself.
LEMMA ReleaseLoadStep ==
  ASSUME IInv, NEW f \in Fibers, ReleaseLoad(f)
  PROVE  IInv'
<1> USE WaiterFacts DEF IInv, Holding, InLine, AtFront, HeadPtr, LockLabels, ReleaseLoad
<1>1. TypeOK'
  BY DEF TypeOK
<1>2. QueueOK'
  BY DEF TypeOK, QueueOK
<1>3. FrontOK'
  BY DEF TypeOK, FrontOK
<1>4. CallbackOK'
  BY DEF TypeOK, CallbackOK
<1>5. GrantOK'
  BY DEF TypeOK, GrantOK
<1>6. ReleaseOK'
  <2>1. Len(queue) \in Nat /\ Len(queue) > 0 /\ queue[1] = AcquireWaiter(f)
    BY DEF TypeOK, FrontOK
  <2>2. CASE Len(queue) = 1
    <3>1. HeadPtr = AcquireWaiter(f)
      BY <2>1, <2>2
    <3> QED BY <2>2, <3>1 DEF TypeOK, ReleaseOK
  <2>3. CASE Len(queue) > 1
    BY <2>3 DEF TypeOK, ReleaseOK
  <2>4. Len(queue) = 1 \/ Len(queue) > 1
    BY ONLY <2>1
  <2> QED BY ONLY <2>2, <2>3, <2>4
<1>7. AcquiredOK'
  BY DEF TypeOK, AcquiredOK
<1>8. OwnerIsHolder'
  BY DEF TypeOK, OwnerIsHolder
<1> QED BY <1>1, <1>2, <1>3, <1>4, <1>5, <1>6, <1>7, <1>8

\* Release clears owner_ before it tries to empty the list.
LEMMA ReleaseDisownStep ==
  ASSUME IInv, NEW f \in Fibers, ReleaseDisown(f)
  PROVE  IInv'
<1> USE WaiterFacts DEF IInv, Holding, InLine, AtFront, HeadPtr, LockLabels, ReleaseDisown
<1>1. TypeOK'
  BY DEF TypeOK
<1>2. QueueOK'
  BY DEF TypeOK, QueueOK
<1>3. FrontOK'
  BY DEF TypeOK, FrontOK
<1>4. CallbackOK'
  BY DEF TypeOK, CallbackOK
<1>5. GrantOK'
  BY DEF TypeOK, GrantOK
<1>6. ReleaseOK'
  BY DEF TypeOK, ReleaseOK
<1>7. AcquiredOK'
  BY DEF TypeOK, AcquiredOK
<1>8. OwnerIsHolder'
  BY DEF TypeOK, FrontOK, OwnerIsHolder
<1> QED BY <1>1, <1>2, <1>3, <1>4, <1>5, <1>6, <1>7, <1>8

\* The compare-and-swap that frees the lock: no other fiber is in the list.
LEMMA ReleaseCasStep ==
  ASSUME IInv, NEW f \in Fibers, ReleaseCas(f, "returning")
  PROVE  IInv'
<1> USE WaiterFacts DEF IInv, Holding, InLine, AtFront, HeadPtr, LockLabels, ReleaseCas
<1>1. TypeOK'
  <2>1. seen[f] \in Waiters
    BY DEF TypeOK, ReleaseOK
  <2>2. queue' \in Seq(Waiters)
    <3>1. CASE queue' = <<>>
      BY <3>1
    <3>2. CASE UNCHANGED queue
      BY <3>2 DEF TypeOK
    <3> QED BY <3>1, <3>2
  <2>3. clearing' \in SUBSET Waiters
    BY <2>1 DEF TypeOK
  <2>4. pc' \in [Fibers -> LockLabels]
    BY DEF TypeOK
  <2> QED BY <2>2, <2>3, <2>4 DEF TypeOK
<1>2. QueueOK'
  <2>1. CASE queue' = <<>>
    BY <2>1 DEF QueueOK
  <2>2. CASE queue' = queue /\ pc' = [pc EXCEPT ![f] = "release"]
    BY <2>2 DEF TypeOK, QueueOK
  <2> QED BY <2>1, <2>2
<1>3. FrontOK'
  <2>1. CASE HeadPtr = seen[f]
    <3>1. \A g \in Fibers : g # f => pc[g] \notin AtFront
      BY DEF FrontOK
    <3> QED BY <2>1, <3>1 DEF TypeOK, FrontOK
  <2>2. CASE HeadPtr # seen[f]
    BY <2>2 DEF TypeOK, FrontOK
  <2> QED BY <2>1, <2>2
<1>4. CallbackOK'
  BY DEF TypeOK, CallbackOK
<1>5. GrantOK'
  <2>1. CASE HeadPtr = seen[f]
    <3>1. queue[1] = AcquireWaiter(f)
      BY DEF FrontOK
    <3>2. \A g \in Fibers : pc[g] # "release_grant"
      BY <3>1 DEF GrantOK
    <3> QED BY <2>1, <3>2 DEF TypeOK, GrantOK
  <2>2. CASE HeadPtr # seen[f]
    BY <2>2 DEF TypeOK, GrantOK
  <2> QED BY <2>1, <2>2
<1>6. ReleaseOK'
  <2>1. CASE HeadPtr = seen[f]
    <3>1. \A g \in Fibers : g # f => pc[g] \notin Holding
      BY DEF FrontOK
    <3> QED BY <2>1, <3>1 DEF TypeOK, ReleaseOK
  <2>2. CASE HeadPtr # seen[f]
    BY <2>2 DEF TypeOK, ReleaseOK
  <2> QED BY <2>1, <2>2
<1>7. AcquiredOK'
  <2>1. CASE HeadPtr = seen[f]
    <3>1. seen[f] = AcquireWaiter(f) /\ clearing' = clearing \cup {AcquireWaiter(f)}
      BY <2>1 DEF ReleaseOK
    <3> QED BY <2>1, <3>1 DEF TypeOK, AcquiredOK
  <2>2. CASE HeadPtr # seen[f]
    BY <2>2 DEF TypeOK, AcquiredOK
  <2> QED BY <2>1, <2>2
<1>8. OwnerIsHolder'
  <2>1. owner = NULL
    BY DEF ReleaseOK
  <2> QED BY <2>1 DEF TypeOK, OwnerIsHolder
<1> QED BY <1>1, <1>2, <1>3, <1>4, <1>5, <1>6, <1>7, <1>8

\* A weak compare-and-swap may fail for no reason: Release starts again.
LEMMA ReleaseCasSpuriousStep ==
  ASSUME IInv, NEW f \in Fibers, ReleaseCasSpurious(f)
  PROVE  IInv'
<1> USE WaiterFacts DEF IInv, Holding, InLine, AtFront, HeadPtr, LockLabels, ReleaseCasSpurious
<1>1. TypeOK'
  BY DEF TypeOK
<1>2. QueueOK'
  BY DEF TypeOK, QueueOK
<1>3. FrontOK'
  BY DEF TypeOK, FrontOK
<1>4. CallbackOK'
  BY DEF TypeOK, CallbackOK
<1>5. GrantOK'
  BY DEF TypeOK, GrantOK
<1>6. ReleaseOK'
  BY DEF TypeOK, ReleaseOK
<1>7. AcquiredOK'
  BY DEF TypeOK, AcquiredOK
<1>8. OwnerIsHolder'
  BY DEF TypeOK, OwnerIsHolder
<1> QED BY <1>1, <1>2, <1>3, <1>4, <1>5, <1>6, <1>7, <1>8

\* The late store of acquired = false touches the releaser's waiter only.
LEMMA ReleaseClearStep ==
  ASSUME IInv, NEW f \in Fibers, ReleaseClear(AcquireWaiter(f))
  PROVE  IInv'
<1> USE WaiterFacts DEF IInv, Holding, InLine, AtFront, HeadPtr, LockLabels, ReleaseClear
<1>1. TypeOK'
  BY DEF TypeOK
<1>2. QueueOK'
  BY DEF TypeOK, QueueOK
<1>3. FrontOK'
  BY DEF TypeOK, FrontOK
<1>4. CallbackOK'
  BY DEF TypeOK, CallbackOK
<1>5. GrantOK'
  BY DEF TypeOK, GrantOK
<1>6. ReleaseOK'
  BY DEF TypeOK, ReleaseOK
<1>7. AcquiredOK'
  BY DEF TypeOK, AcquiredOK
<1>8. OwnerIsHolder'
  BY DEF TypeOK, OwnerIsHolder
<1> QED BY <1>1, <1>2, <1>3, <1>4, <1>5, <1>6, <1>7, <1>8

\* Release unlinks the holder: the next node is one that waits.
LEMMA ReleaseUnlinkStep ==
  ASSUME IInv, NEW f \in Fibers, ReleaseUnlink(f)
  PROVE  IInv'
<1> USE WaiterFacts DEF IInv, Holding, InLine, AtFront, HeadPtr, LockLabels, ReleaseUnlink
<1>1. TypeOK'
  BY DEF TypeOK
<1>2. QueueOK'
  <2>1. /\ Len(queue) \in Nat /\ Len(queue) > 1
        /\ Len(queue') = Len(queue) - 1
        /\ \A i \in 1..Len(queue') : queue'[i] = queue[i + 1]
        /\ \A i \in 1..Len(queue') : i + 1 \in 1..Len(queue)
    BY HeadTailProperties DEF TypeOK
  <2>2. queue[1] = AcquireWaiter(f)
    BY DEF FrontOK
  <2>3. pc'[f] = "release_grant" /\ \A g \in Fibers : g # f => pc'[g] = pc[g]
    BY DEF TypeOK
  <2>4. ASSUME NEW i \in 1..Len(queue')
        PROVE  \E g \in Fibers : queue'[i] = AcquireWaiter(g) /\ pc'[g] \in InLine
    <3>1. PICK g \in Fibers : queue[i + 1] = AcquireWaiter(g) /\ pc[g] \in InLine
      BY <2>1 DEF QueueOK
    <3>2. g # f
      BY <2>1, <2>2, <3>1 DEF QueueOK
    <3> QED BY <2>1, <2>3, <3>1, <3>2
  <2>5. ASSUME NEW i \in 1..Len(queue'), NEW j \in 1..Len(queue'), queue'[i] = queue'[j]
        PROVE  i = j
    BY <2>1, <2>5 DEF QueueOK
  <2> QED BY <2>4, <2>5 DEF QueueOK
<1>3. FrontOK'
  <2>1. \A g \in Fibers : g # f => pc[g] \notin AtFront
    BY DEF FrontOK
  <2> QED BY <2>1 DEF TypeOK, FrontOK
<1>4. CallbackOK'
  BY DEF TypeOK, CallbackOK
<1>5. GrantOK'
  <2>1. /\ Len(queue) \in Nat /\ Len(queue) > 1
        /\ Len(queue') = Len(queue) - 1
        /\ \A i \in 1..Len(queue') : queue'[i] = queue[i + 1]
        /\ \A i \in 1..Len(queue') : i + 1 \in 1..Len(queue)
    BY HeadTailProperties DEF TypeOK
  <2>2. queue[1] = AcquireWaiter(f)
    BY DEF FrontOK
  <2>3. pc'[f] = "release_grant" /\ \A g \in Fibers : g # f => pc'[g] = pc[g]
    BY DEF TypeOK
  <2>4. PICK g \in Fibers : queue[2] = AcquireWaiter(g) /\ pc[g] \in InLine
    BY <2>1 DEF QueueOK
  <2>5. g # f
    BY <2>1, <2>2, <2>4 DEF QueueOK
  <2>6. pc[g] = "queued"
    BY <2>2, <2>4, <2>5 DEF FrontOK
  <2>7. queue'[1] = AcquireWaiter(g) /\ pc'[g] = "queued" /\ Len(queue') > 0
    BY <2>1, <2>3, <2>4, <2>5, <2>6
  <2>8. \A h \in Fibers : pc[h] # "release_grant"
    BY <2>2 DEF GrantOK
  <2> QED BY <2>3, <2>7, <2>8 DEF GrantOK
<1>6. ReleaseOK'
  <2>1. \A g \in Fibers : g # f => pc[g] \notin Holding
    BY DEF FrontOK
  <2> QED BY <2>1 DEF TypeOK, ReleaseOK
<1>7. AcquiredOK'
  <2>1. acquired' = acquired \ {AcquireWaiter(f)}
    BY DEF FrontOK
  <2> QED BY <2>1 DEF TypeOK, AcquiredOK
<1>8. OwnerIsHolder'
  BY DEF TypeOK, OwnerIsHolder
<1> QED BY <1>1, <1>2, <1>3, <1>4, <1>5, <1>6, <1>7, <1>8

\* Release makes the oldest waiting node the holder and runs its callback.
LEMMA ReleaseGrantStep ==
  ASSUME IInv, NEW f \in Fibers, ReleaseGrant(f, "returning")
  PROVE  IInv'
<1> USE WaiterFacts DEF IInv, Holding, InLine, AtFront, HeadPtr, LockLabels, ReleaseGrant
<1>1. TypeOK'
  <2>1. PICK g \in Fibers : queue[1] = AcquireWaiter(g) /\ pc[g] = "queued"
    BY DEF GrantOK
  <2>2. g # f /\ queue[1][1] = g
    BY <2>1
  <2>3. /\ owner' = g
        /\ acquired' = acquired \cup {AcquireWaiter(g)}
        /\ callback' = callback \ {AcquireWaiter(g)}
        /\ pc' = [pc EXCEPT ![f] = "returning", ![g] = "unblocked"]
    BY <2>1, <2>2
  <2>4. pc' \in [Fibers -> LockLabels]
    BY <2>3 DEF TypeOK
  <2> QED BY <2>3, <2>4 DEF TypeOK
<1>2. QueueOK'
  <2>1. PICK g \in Fibers : queue[1] = AcquireWaiter(g) /\ pc[g] = "queued"
    BY DEF GrantOK
  <2>2. g # f /\ queue[1][1] = g
    BY <2>1
  <2>3. /\ owner' = g
        /\ acquired' = acquired \cup {AcquireWaiter(g)}
        /\ callback' = callback \ {AcquireWaiter(g)}
        /\ pc' = [pc EXCEPT ![f] = "returning", ![g] = "unblocked"]
    BY <2>1, <2>2
  <2> QED BY <2>1, <2>2, <2>3 DEF TypeOK, QueueOK
<1>3. FrontOK'
  <2>1. PICK g \in Fibers : queue[1] = AcquireWaiter(g) /\ pc[g] = "queued"
    BY DEF GrantOK
  <2>2. g # f /\ queue[1][1] = g
    BY <2>1
  <2>3. /\ owner' = g
        /\ acquired' = acquired \cup {AcquireWaiter(g)}
        /\ callback' = callback \ {AcquireWaiter(g)}
        /\ pc' = [pc EXCEPT ![f] = "returning", ![g] = "unblocked"]
    BY <2>1, <2>2
  <2>4. \A h \in Fibers : pc[h] \notin AtFront
    BY <2>1 DEF FrontOK
  <2> QED BY <2>1, <2>2, <2>3, <2>4 DEF TypeOK, FrontOK
<1>4. CallbackOK'
  <2>1. PICK g \in Fibers : queue[1] = AcquireWaiter(g) /\ pc[g] = "queued"
    BY DEF GrantOK
  <2>2. g # f /\ queue[1][1] = g
    BY <2>1
  <2>3. /\ owner' = g
        /\ acquired' = acquired \cup {AcquireWaiter(g)}
        /\ callback' = callback \ {AcquireWaiter(g)}
        /\ pc' = [pc EXCEPT ![f] = "returning", ![g] = "unblocked"]
    BY <2>1, <2>2
  <2> QED BY <2>1, <2>2, <2>3 DEF TypeOK, CallbackOK
<1>5. GrantOK'
  <2>1. PICK g \in Fibers : queue[1] = AcquireWaiter(g) /\ pc[g] = "queued"
    BY DEF GrantOK
  <2>2. g # f /\ queue[1][1] = g
    BY <2>1
  <2>3. /\ owner' = g
        /\ acquired' = acquired \cup {AcquireWaiter(g)}
        /\ callback' = callback \ {AcquireWaiter(g)}
        /\ pc' = [pc EXCEPT ![f] = "returning", ![g] = "unblocked"]
    BY <2>1, <2>2
  <2> QED BY <2>1, <2>2, <2>3 DEF TypeOK, GrantOK
<1>6. ReleaseOK'
  <2>1. PICK g \in Fibers : queue[1] = AcquireWaiter(g) /\ pc[g] = "queued"
    BY DEF GrantOK
  <2>2. g # f /\ queue[1][1] = g
    BY <2>1
  <2>3. /\ owner' = g
        /\ acquired' = acquired \cup {AcquireWaiter(g)}
        /\ callback' = callback \ {AcquireWaiter(g)}
        /\ pc' = [pc EXCEPT ![f] = "returning", ![g] = "unblocked"]
    BY <2>1, <2>2
  <2>4. \A h \in Fibers : pc[h] \notin AtFront
    BY <2>1 DEF FrontOK
  <2> QED BY <2>1, <2>2, <2>3, <2>4 DEF TypeOK, ReleaseOK
<1>7. AcquiredOK'
  <2>1. PICK g \in Fibers : queue[1] = AcquireWaiter(g) /\ pc[g] = "queued"
    BY DEF GrantOK
  <2>2. g # f /\ queue[1][1] = g
    BY <2>1
  <2>3. /\ owner' = g
        /\ acquired' = acquired \cup {AcquireWaiter(g)}
        /\ callback' = callback \ {AcquireWaiter(g)}
        /\ pc' = [pc EXCEPT ![f] = "returning", ![g] = "unblocked"]
    BY <2>1, <2>2
  <2> QED BY <2>1, <2>2, <2>3 DEF TypeOK, AcquiredOK
<1>8. OwnerIsHolder'
  <2>1. PICK g \in Fibers : queue[1] = AcquireWaiter(g) /\ pc[g] = "queued"
    BY DEF GrantOK
  <2>2. g # f /\ queue[1][1] = g
    BY <2>1
  <2>3. /\ owner' = g
        /\ acquired' = acquired \cup {AcquireWaiter(g)}
        /\ callback' = callback \ {AcquireWaiter(g)}
        /\ pc' = [pc EXCEPT ![f] = "returning", ![g] = "unblocked"]
    BY <2>1, <2>2
  <2>4. \A h \in Fibers : pc[h] \notin AtFront
    BY <2>1 DEF FrontOK
  <2> QED BY <2>1, <2>2, <2>3, <2>4 DEF TypeOK, OwnerIsHolder
<1> QED BY <1>1, <1>2, <1>3, <1>4, <1>5, <1>6, <1>7, <1>8

\* Release has returned.
LEMMA ReturnStep ==
  ASSUME IInv, NEW f \in Fibers, Return(f)
  PROVE  IInv'
<1> USE WaiterFacts DEF IInv, Holding, InLine, AtFront, HeadPtr, LockLabels, Return
<1>1. TypeOK'
  BY DEF TypeOK
<1>2. QueueOK'
  BY DEF TypeOK, QueueOK
<1>3. FrontOK'
  BY DEF TypeOK, FrontOK
<1>4. CallbackOK'
  BY DEF TypeOK, CallbackOK
<1>5. GrantOK'
  BY DEF TypeOK, GrantOK
<1>6. ReleaseOK'
  BY DEF TypeOK, ReleaseOK
<1>7. AcquiredOK'
  BY DEF TypeOK, AcquiredOK
<1>8. OwnerIsHolder'
  BY DEF TypeOK, OwnerIsHolder
<1> QED BY <1>1, <1>2, <1>3, <1>4, <1>5, <1>6, <1>7, <1>8

\* An unused lock satisfies the invariant.
LEMMA InitIInv ==
  Init => IInv
BY WaiterFacts DEF Init, IInv, TypeOK, QueueOK, FrontOK, CallbackOK, GrantOK, ReleaseOK,
   AcquiredOK, OwnerIsHolder, Holding, InLine, AtFront, LockLabels

\* The invariant is inductive.
LEMMA NextIInv ==
  IInv /\ [Next]_lockVars => IInv'
<1> SUFFICES ASSUME IInv, [Next]_lockVars PROVE IInv'
  OBVIOUS
<1>1. CASE UNCHANGED lockVars
  BY <1>1 DEF lockVars, IInv, TypeOK, QueueOK, FrontOK, CallbackOK, GrantOK, ReleaseOK,
     AcquiredOK, OwnerIsHolder
<1>2. ASSUME NEW f \in Fibers, AcquireStep(f) PROVE IInv'
  BY <1>2, FastLoadStep, FastCasStep, FastOwnStep, SlowLoadStep, SlowCasStep, ResumeStep
     DEF AcquireStep
<1>3. ASSUME NEW f \in Fibers, ReleaseStep(f) PROVE IInv'
  BY <1>3, ReleaseLoadStep, ReleaseDisownStep, ReleaseCasStep, ReleaseCasSpuriousStep,
     ReleaseClearStep, ReleaseUnlinkStep, ReleaseGrantStep, ReturnStep DEF ReleaseStep
<1> QED BY <1>1, <1>2, <1>3 DEF Next

\* The inductive invariant holds in every reachable state, for any number of
\* fibers.
THEOREM LockInvariant == Spec => []IInv
BY InitIInv, NextIInv, PTL DEF Spec

\* Type correctness of the lock's state.
THEOREM LockTypeOK == Spec => []TypeOK
BY LockInvariant, PTL DEF IInv

\* Two fibers never hold a Lock at once, however many use it: both would be
\* the oldest node of the list.
THEOREM LockMutualExclusion == Spec => []MutualExclusion
<1>1. IInv => MutualExclusion
  BY WaiterFacts DEF IInv, FrontOK, MutualExclusion, AtFront
<1> QED BY <1>1, LockInvariant, PTL

\* OwnedByCurrentSchedulerContext() is right for the fiber that holds the
\* lock and for those that never did.
THEOREM LockOwnerIsHolder == Spec => []OwnerIsHolder
BY LockInvariant, PTL DEF IInv

\* No CHECK of lock.h fails between Acquire and Release.
THEOREM LockChecksHold == Spec => []ChecksHold
<1>1. IInv => ChecksHold
  <2> SUFFICES ASSUME IInv, NEW f \in Fibers
               PROVE  /\ pc[f] \in {"idle", "fast_load", "slow_load"} =>
                           CanAcquire(AcquireWaiter(f))
                      /\ pc[f] \in {"section", "release"} => queue # <<>>
                      /\ pc[f] = "release_unlink" => Len(queue) > 1
                      /\ pc[f] = "release_grant" => queue # <<>> /\ queue[1] \in callback
    BY DEF ChecksHold
  <2>1. ASSUME pc[f] \in {"idle", "fast_load", "slow_load"}
        PROVE  CanAcquire(AcquireWaiter(f))
    <3>1. AcquireWaiter(f) \notin acquired
      BY <2>1 DEF IInv, AcquiredOK, Holding
    <3>2. \A i \in 1..Len(queue) : queue[i] # AcquireWaiter(f)
      BY <2>1, WaiterFacts DEF IInv, QueueOK, InLine, Holding
    <3>3. DOMAIN queue = 1..Len(queue)
      BY DEF IInv, TypeOK
    <3> QED BY <3>1, <3>2, <3>3 DEF CanAcquire, NextIsNull
  <2>2. pc[f] \in {"section", "release"} => queue # <<>>
    BY DEF IInv, FrontOK, AtFront, Holding
  <2>3. pc[f] = "release_unlink" => Len(queue) > 1
    BY DEF IInv, ReleaseOK
  <2>4. pc[f] = "release_grant" => queue # <<>> /\ queue[1] \in callback
    BY DEF IInv, GrantOK, CallbackOK
  <2> QED BY <2>1, <2>2, <2>3, <2>4
<1> QED BY <1>1, LockInvariant, PTL

-----------------------------------------------------------------------------
(* The refinement.                                                         *)

\* The abstract stage of every waiter (the substitution of Abstract).
StageMap == [w \in Waiters |-> StageOf(w)]

\* A step of one fiber changes the abstract stage of its own waiter only.
LEMMA StageMapStep ==
  ASSUME TypeOK, NEW f \in Fibers, NEW l, pc' = [pc EXCEPT ![f] = l]
  PROVE  StageMap' = [StageMap EXCEPT ![AcquireWaiter(f)] = StageOf(AcquireWaiter(f))']
<1>1. ASSUME NEW w \in Waiters, w # AcquireWaiter(f)
      PROVE  StageOf(w)' = StageOf(w)
  <2>1. PICK g \in Fibers : w = <<g, "acquire">> \/ w = <<g, "wait">>
    BY DEF Waiters
  <2>2. CASE w = <<g, "acquire">>
    <3>1. g # f
      BY <1>1, <2>2 DEF AcquireWaiter
    <3>2. pc'[w[1]] = pc[w[1]]
      BY <2>2, <3>1 DEF TypeOK
    <3> QED BY <3>2 DEF StageOf
  <2>3. CASE w = <<g, "wait">>
    BY <2>3 DEF StageOf
  <2> QED BY <2>1, <2>2, <2>3
<1>2. \A w \in Waiters : w # AcquireWaiter(f) => StageOf(w)' = StageOf(w)
  BY <1>1
<1> HIDE <1>1
<1> QED BY <1>2, WaiterFacts DEF StageMap

\* The stage of a fiber's waiter before and after a step of that fiber.
LEMMA StageOfAcquire ==
  ASSUME TypeOK, NEW f \in Fibers, NEW l, pc' = [pc EXCEPT ![f] = l]
  PROVE  LET w == AcquireWaiter(f)
             Stage(label) == IF label \in {"fast_own", "queued", "unblocked"} THEN "line"
                             ELSE IF label \in Holding THEN "in" ELSE "out"
         IN  StageOf(w) = Stage(pc[f]) /\ StageOf(w)' = Stage(l)
<1>1. AcquireWaiter(f)[1] = f /\ AcquireWaiter(f)[2] = "acquire"
  BY DEF AcquireWaiter
<1>2. pc'[f] = l
  BY DEF TypeOK
<1> QED BY <1>1, <1>2 DEF StageOf

\* The abstract steps, in terms of the fiber's label before and after.
LEMMA JoinStep ==
  ASSUME TypeOK, NEW f \in Fibers, NEW l, pc' = [pc EXCEPT ![f] = l],
         pc[f] \notin InLine, l \in {"fast_own", "queued"},
         queue' = Append(queue, AcquireWaiter(f))
  PROVE  Abstract!Next
<1>1. StageMap' = [StageMap EXCEPT ![AcquireWaiter(f)] = "line"]
  BY StageMapStep, StageOfAcquire
<1>2. StageMap[AcquireWaiter(f)] = "out"
  BY StageOfAcquire, WaiterFacts DEF StageMap, InLine
<1>3. Abstract!Join(AcquireWaiter(f))
  BY <1>1, <1>2 DEF Abstract!Join, StageMap
<1> QED BY <1>3, WaiterFacts DEF Abstract!Next

\* A fiber that is the oldest node enters its critical section.
LEMMA EnterStep ==
  ASSUME TypeOK, FrontOK, NEW f \in Fibers, pc' = [pc EXCEPT ![f] = "section"],
         pc[f] \in {"fast_own", "unblocked"}, UNCHANGED queue
  PROVE  Abstract!Next
<1>1. pc'[f] = "section"
  BY DEF TypeOK
<1>2. StageOf(AcquireWaiter(f)) = "line" /\ StageOf(AcquireWaiter(f))' = "in"
  BY <1>1 DEF StageOf, AcquireWaiter, Holding
<1>3. StageMap' = [StageMap EXCEPT ![AcquireWaiter(f)] = "in"]
  BY <1>2, StageMapStep
<1>4. queue # <<>> /\ Head(queue) = AcquireWaiter(f)
  BY DEF FrontOK, AtFront, TypeOK
<1>5. Abstract!Enter(AcquireWaiter(f))
  BY <1>2, <1>3, <1>4, WaiterFacts DEF Abstract!Enter, StageMap
<1> QED BY <1>5, WaiterFacts DEF Abstract!Next

\* The fiber in the critical section is unlinked.
LEMMA LeaveStep ==
  ASSUME TypeOK, FrontOK, NEW f \in Fibers, NEW l, pc' = [pc EXCEPT ![f] = l],
         pc[f] \in Holding, l \in {"returning", "release_grant"}, queue' = Tail(queue)
  PROVE  Abstract!Next
<1>1. StageMap' = [StageMap EXCEPT ![AcquireWaiter(f)] = "out"]
  BY StageMapStep, StageOfAcquire DEF Holding
<1>2. StageMap[AcquireWaiter(f)] = "in"
  BY StageOfAcquire, WaiterFacts DEF StageMap, Holding
<1>3. queue # <<>> /\ Head(queue) = AcquireWaiter(f)
  BY DEF FrontOK, AtFront, TypeOK
<1>4. Abstract!Leave(AcquireWaiter(f))
  BY <1>1, <1>2, <1>3 DEF Abstract!Leave, StageMap
<1> QED BY <1>4, WaiterFacts DEF Abstract!Next

\* A step that leaves the list alone and keeps the fiber's side of the line.
LEMMA StutterStep ==
  ASSUME TypeOK, NEW f \in Fibers, NEW l, pc' = [pc EXCEPT ![f] = l], UNCHANGED queue,
         \/ pc[f] \notin InLine /\ l \notin InLine
         \/ pc[f] \in Holding /\ l \in Holding
         \/ pc[f] \in {"fast_own", "queued"} /\ l = "unblocked"
  PROVE  UNCHANGED Abstract!vars
<1>1. StageOf(AcquireWaiter(f))' = StageOf(AcquireWaiter(f))
  BY StageOfAcquire DEF InLine, Holding
<1>2. StageMap' = StageMap
  BY <1>1, StageMapStep, WaiterFacts DEF StageMap
<1> QED BY <1>2 DEF Abstract!vars, StageMap

\* ReleaseCas succeeds only when the releaser is alone in the list.
LEMMA AloneWhenHead ==
  ASSUME IInv, NEW f \in Fibers, pc[f] = "release_cas", HeadPtr = seen[f]
  PROVE  <<>> = Tail(queue)
<1>1. seen[f] = AcquireWaiter(f) /\ queue[1] = AcquireWaiter(f) /\ Len(queue) > 0
  BY DEF IInv, FrontOK, ReleaseOK, AtFront, Holding
<1>2. Len(queue) \in Nat /\ queue[Len(queue)] = queue[1]
  BY <1>1 DEF IInv, TypeOK, HeadPtr
<1>3. 1 \in 1..Len(queue) /\ Len(queue) \in 1..Len(queue)
  BY ONLY <1>1, <1>2
<1>4. Len(queue) = 1
  BY <1>2, <1>3 DEF IInv, QueueOK
<1>5. queue \in Seq(Waiters) /\ queue # <<>>
  BY <1>1 DEF IInv, TypeOK
<1>6. Tail(queue) \in Seq(Waiters) /\ Len(Tail(queue)) = 0
  BY <1>4, <1>5, HeadTailProperties
<1> QED BY <1>6, EmptySeq

\* Handing the lock over changes nothing in the line: the node stays a waiting
\* one until its fiber runs.
LEMMA GrantStutters ==
  ASSUME IInv, NEW f \in Fibers, ReleaseGrant(f, "returning")
  PROVE  UNCHANGED Abstract!vars
<1>1. PICK g \in Fibers : queue[1] = AcquireWaiter(g) /\ pc[g] = "queued"
  BY DEF IInv, GrantOK, ReleaseGrant
<1>2. g # f /\ pc' = [pc EXCEPT ![f] = "returning", ![g] = "unblocked"]
  BY <1>1, WaiterFacts DEF ReleaseGrant
<1>3. \A h \in Fibers : \/ pc'[h] = pc[h]
                        \/ pc[h] \notin InLine /\ pc'[h] \notin InLine
                        \/ pc[h] = "queued" /\ pc'[h] = "unblocked"
  BY <1>1, <1>2 DEF IInv, TypeOK, ReleaseGrant, InLine, Holding
<1>4. ASSUME NEW w \in Waiters PROVE StageOf(w)' = StageOf(w)
  <2>1. w[1] \in Fibers
    BY DEF Waiters
  <2> QED BY <1>3, <2>1 DEF StageOf, InLine, Holding
<1>5. StageMap' = StageMap
  BY <1>4 DEF StageMap
<1> QED BY <1>5 DEF Abstract!vars, StageMap, ReleaseGrant

\* The free lock is the empty line.
LEMMA RefineInit ==
  Init => Abstract!Init
BY DEF Init, Abstract!Init, StageOf, Waiters, Holding

\* Every step of the lock is a step of the abstract one, or none.
LEMMA RefineNext ==
  ASSUME IInv, [Next]_lockVars
  PROVE  [Abstract!Next]_Abstract!vars
<1> USE DEF IInv
<1>1. CASE UNCHANGED lockVars
  <2>1. UNCHANGED <<queue, pc>>
    BY <1>1 DEF lockVars
  <2> QED BY <2>1 DEF Abstract!vars, StageOf
<1>2. ASSUME NEW f \in Fibers, AcquireStep(f)
      PROVE  Abstract!Next \/ UNCHANGED Abstract!vars
  <2>1. CASE FastLoad(f, AcquireWaiter(f))
    BY <2>1, StutterStep DEF FastLoad, InLine, Holding
  <2>2. CASE FastCas(f, AcquireWaiter(f))
    <3>1. CASE queue = <<>>
      <4>1. queue' = Append(queue, AcquireWaiter(f))
        BY <2>2, <3>1 DEF FastCas
      <4> QED BY <2>2, <3>1, <4>1, JoinStep DEF FastCas, InLine, Holding
    <3>2. CASE queue # <<>>
      BY <2>2, <3>2, StutterStep DEF FastCas, InLine, Holding
    <3> QED BY <3>1, <3>2
  <2>3. CASE FastOwn(f, AcquireWaiter(f))
    <3>1. CASE AcquireWaiter(f) \in callback
      BY <2>3, <3>1, StutterStep DEF FastOwn
    <3>2. CASE AcquireWaiter(f) \notin callback
      BY <2>3, <3>2, EnterStep DEF FastOwn
    <3> QED BY <3>1, <3>2
  <2>4. CASE SlowLoad(f, AcquireWaiter(f))
    BY <2>4, StutterStep DEF SlowLoad, InLine, Holding
  <2>5. CASE SlowCas(f, AcquireWaiter(f), "queued")
    <3>1. CASE HeadPtr = seen[f]
      BY <2>5, <3>1, JoinStep DEF SlowCas, InLine, Holding
    <3>2. CASE HeadPtr # seen[f]
      BY <2>5, <3>2, StutterStep DEF SlowCas, InLine, Holding
    <3> QED BY <3>1, <3>2
  <2>6. CASE Resume(f, "section")
    BY <2>6, EnterStep DEF Resume
  <2> QED BY <1>2, <2>1, <2>2, <2>3, <2>4, <2>5, <2>6 DEF AcquireStep
<1>3. ASSUME NEW f \in Fibers, ReleaseStep(f)
      PROVE  Abstract!Next \/ UNCHANGED Abstract!vars
  <2>1. CASE ReleaseLoad(f)
    BY <2>1, StutterStep DEF ReleaseLoad, Holding
  <2>2. CASE ReleaseDisown(f)
    BY <2>2, StutterStep DEF ReleaseDisown, Holding
  <2>3. CASE ReleaseCas(f, "returning")
    <3>1. CASE HeadPtr = seen[f]
      <4>1. queue' = Tail(queue)
        BY <2>3, <3>1, AloneWhenHead DEF ReleaseCas
      <4> QED BY <2>3, <3>1, <4>1, LeaveStep DEF ReleaseCas, Holding
    <3>2. CASE HeadPtr # seen[f]
      BY <2>3, <3>2, StutterStep DEF ReleaseCas, Holding
    <3> QED BY <3>1, <3>2
  <2>4. CASE ReleaseCasSpurious(f)
    BY <2>4, StutterStep DEF ReleaseCasSpurious, Holding
  <2>5. CASE ReleaseClear(AcquireWaiter(f))
    BY <2>5 DEF ReleaseClear, Abstract!vars, StageOf
  <2>6. CASE ReleaseUnlink(f)
    BY <2>6, LeaveStep DEF ReleaseUnlink, Holding
  <2>7. CASE ReleaseGrant(f, "returning")
    BY <2>7, GrantStutters
  <2>8. CASE Return(f)
    BY <2>8, StutterStep DEF Return, InLine, Holding
  <2> QED BY <1>3, <2>1, <2>2, <2>3, <2>4, <2>5, <2>6, <2>7, <2>8 DEF ReleaseStep
<1> QED BY <1>1, <1>2, <1>3 DEF Next

\* The lock of lock.h implements a fair queue: waiters get it one at a time, in
\* the order in which a compare-and-swap linked them.
THEOREM LockImplementsFifoLock == Spec => ImplementsFifoLock
<1>1. Init => Abstract!Init
  BY RefineInit
<1>2. IInv /\ [Next]_lockVars => [Abstract!Next]_Abstract!vars
  BY RefineNext
<1> QED BY <1>1, <1>2, LockInvariant, PTL DEF Spec, ImplementsFifoLock, Abstract!Spec

-----------------------------------------------------------------------------
(* Wait and Notify: the lock with fibers that are linked by others.        *)

\* Labels at which a fiber is the oldest node of the list because it holds the
\* lock, or has just been given it.
CVFront == Holding \cup {"fast_own", "unblocked", "wait", "notify"}

\* A fiber leads also while it links the waiter of a fiber that it notifies.
Leads(f) == pc[f] \in CVFront \/ target[f] # NULL

\* The list has at most one waiter of each fiber: the one of its _Acquire if it
\* asked, the one of its _Wait if it was notified, either if it leads.
CVQueueOK ==
  /\ \A i \in 1..Len(queue) : \E g \in Fibers :
       \/ queue[i] = AcquireWaiter(g) /\ pc[g] = "queued"
       \/ queue[i] = WaitWaiter(g) /\ pc[g] = "blocked" /\ g \notin notifiable
       \/ queue[i][1] = g /\ Leads(g)
  /\ \A i, j \in 1..Len(queue) : queue[i][1] = queue[j][1] => i = j

\* Whoever leads is the oldest node.
CVFrontOK ==
  \A f \in Fibers : Leads(f) =>
    /\ Len(queue) > 0 /\ queue[1][1] = f
    /\ pc[f] = "fast_own" => queue[1] = AcquireWaiter(f)

\* While a releaser hands the lock over, nobody leads.
CVGrantOK ==
  \A f \in Fibers : pc[f] = "release_grant" =>
    /\ Len(queue) > 0
    /\ \A g \in Fibers : ~Leads(g) /\ (pc[g] = "release_grant" => g = f)

\* What a releaser remembers of head_ is its own waiter.
CVReleaseOK ==
  \A f \in Fibers :
    pc[f] \in {"release_disown", "release_cas"} => seen[f] = queue[1]

\* The fiber that a notifier links has come to rest and is in no list.
TargetOK ==
  \A f \in Fibers : target[f] # NULL =>
    /\ pc[f] \in {"slow_load", "slow_cas"}
    /\ pc[target[f]] = "blocked"
    /\ target[f] \notin notifiable
    /\ \A i \in 1..Len(queue) : queue[i][1] # target[f]

\* The list of waiters has each notifiable fiber once, and such a fiber is on its
\* way through Release or at rest.
WaitersOK ==
  /\ \A i \in 1..Len(waiters) : waiters[i] \in notifiable
  /\ \A i, j \in 1..Len(waiters) : waiters[i] = waiters[j] => i = j
  /\ \A f \in notifiable : \E i \in 1..Len(waiters) : waiters[i] = f
  /\ \A f \in notifiable : pc[f] \in {"release", "release_disown", "release_cas",
       "release_unlink", "release_grant", "blocked"}

\* owner_ is the fiber that leads, except inside Release.
CVOwnerOK ==
  \A f \in Fibers :
    pc[f] \in {"section", "unblocked", "wait", "notify"} \/ target[f] # NULL => owner = f

\* A fiber at rest that can no longer be notified is being linked, or is in the
\* list of the lock.
BlockedOK ==
  \A f \in Fibers : pc[f] = "blocked" /\ f \notin notifiable =>
    \/ \E i \in 1..Len(queue) : queue[i] = WaitWaiter(f)
    \/ \E g \in Fibers : target[g] = f

\* A fiber was woken from the time it is notified until it has evaluated its
\* condition again.
IsWoken(g) ==
  \/ pc[g] = "blocked" /\ g \notin notifiable
  \/ pc[g] = "unblocked" /\ queue[1] = WaitWaiter(g)
  \/ pc[g] = "wait"
Woken == {g \in Fibers : IsWoken(g)}

\* Somebody is about to notify.
Notifying == \E f \in Fibers : pc[f] = "notify"

\* While anybody waits, every item there is has a fiber that was woken for it,
\* or a notification about to be made.  (Not one fiber for all items: the one that
\* is woken takes one item and wakes nobody.)
WakeOK ==
  /\ IsFiniteSet(Woken)
  /\ waiters # <<>> =>
       ready <= Cardinality(Woken) + (IF Notifying THEN 1 ELSE 0)

CVInv ==
  /\ CVTypeOK
  /\ CVQueueOK
  /\ CVFrontOK
  /\ CVGrantOK
  /\ CVReleaseOK
  /\ TargetOK
  /\ WaitersOK
  /\ CVOwnerOK
  /\ BlockedOK
  /\ WakeOK

-----------------------------------------------------------------------------

\* The two waiters of a fiber name the fiber.
LEMMA CVWaiterFacts ==
  /\ \A f \in Fibers : /\ AcquireWaiter(f) \in Waiters /\ AcquireWaiter(f)[1] = f
                       /\ WaitWaiter(f) \in Waiters /\ WaitWaiter(f)[1] = f
  /\ \A f, g \in Fibers : AcquireWaiter(f) # WaitWaiter(g)
  /\ \A w \in Waiters : w[1] \in Fibers
  /\ NULL \notin Waiters /\ NULL \notin Fibers
BY NullAssumption DEF AcquireWaiter, WaitWaiter, Waiters

\* Nobody else leads beside a fiber that does, and nobody hands over.
LEMMA LeaderAlone ==
  ASSUME CVInv, NEW f \in Fibers, Leads(f)
  PROVE  /\ \A g \in Fibers : g # f => ~Leads(g) /\ target[g] = NULL /\ pc[g] \notin CVFront
         /\ \A g \in Fibers : pc[g] # "release_grant"
         /\ \A g \in Fibers : pc[g] = "unblocked" => g = f
         /\ Len(queue) \in Nat \ {0} /\ queue[1] \in Waiters /\ queue[1][1] = f
BY DEF CVInv, CVTypeOK, CVFrontOK, CVGrantOK, Leads, CVFront

\* Steps that wake nobody and take no item keep the balance of items and wakeups.
LEMMA WakeKept ==
  ASSUME CVInv, Woken' = Woken, Notifying => Notifying', waiters' = waiters, ready' = ready
  PROVE  WakeOK'
<1>1. IsFiniteSet(Woken) /\ Cardinality(Woken) \in Nat /\ ready \in Nat
  BY FS_CardinalityType DEF CVInv, WakeOK, CVTypeOK
<1>2. Cardinality(Woken') = Cardinality(Woken) /\ IsFiniteSet(Woken')
  BY <1>1
<1>3. ASSUME waiters # <<>>
      PROVE  ready <= Cardinality(Woken) + (IF Notifying' THEN 1 ELSE 0)
  <2>1. ready <= Cardinality(Woken) + (IF Notifying THEN 1 ELSE 0)
    BY <1>3 DEF CVInv, WakeOK
  <2>2. CASE Notifying
    BY <1>1, <2>1, <2>2
  <2>3. CASE ~Notifying
    BY <1>1, <2>1, <2>3
  <2> QED BY <2>2, <2>3
<1> QED BY <1>1, <1>2, <1>3 DEF WakeOK

\* AcquireFast reads head_; nothing shared changes.
LEMMA CVFastLoadStep ==
  ASSUME CVInv, NEW f \in Fibers, FastLoad(f, Linking(f)), UNCHANGED waitVars
  PROVE  CVInv'
<1> USE CVWaiterFacts DEF CVInv, Holding, CVFront, LockLabels, FastLoad, Linking, waitVars
<1>1. CVTypeOK'
  BY DEF CVTypeOK
<1>2. CVQueueOK'
  BY DEF CVTypeOK, CVQueueOK, CVFrontOK, CVGrantOK, TargetOK, Leads
<1>3. CVFrontOK'
  BY DEF CVTypeOK, CVFrontOK, CVGrantOK, TargetOK, Leads
<1>4. CVGrantOK'
  BY DEF CVTypeOK, CVGrantOK, CVFrontOK, TargetOK, Leads
<1>5. CVReleaseOK'
  BY DEF CVTypeOK, CVReleaseOK, CVFrontOK, CVGrantOK, TargetOK, Leads
<1>6. TargetOK'
  BY DEF CVTypeOK, TargetOK, CVFrontOK, CVGrantOK, Leads
<1>7. WaitersOK'
  BY DEF CVTypeOK, WaitersOK, CVFrontOK, CVGrantOK, TargetOK, Leads
<1>8. CVOwnerOK'
  BY DEF CVTypeOK, CVOwnerOK, CVFrontOK, CVGrantOK, TargetOK, Leads
<1>9. BlockedOK'
  BY DEF CVTypeOK, BlockedOK, CVFrontOK, CVGrantOK, TargetOK, Leads
<1>10. WakeOK'
  <2>1. Woken' = Woken
    BY DEF CVTypeOK, CVFrontOK, TargetOK, WaitersOK, Leads, Woken, IsWoken
  <2>2. Notifying => Notifying'
    BY DEF CVTypeOK, Notifying
  <2> QED BY <2>1, <2>2, WakeKept
<1> QED BY <1>1, <1>2, <1>3, <1>4, <1>5, <1>6, <1>7, <1>8, <1>9, <1>10

\* The compare-and-swap of an empty head_: the list becomes the fiber alone.
\* A notifier never comes here, since it holds the lock.
LEMMA CVFastCasStep ==
  ASSUME CVInv, NEW f \in Fibers, FastCas(f, Linking(f)), UNCHANGED waitVars
  PROVE  CVInv'
<1> USE CVWaiterFacts DEF CVInv, Holding, CVFront, LockLabels, FastCas, Linking, waitVars
<1>a. target[f] = NULL
  BY DEF TargetOK
<1>b. ASSUME queue = <<>>
      PROVE  /\ queue' \in Seq(Waiters) /\ Len(queue') = 1 /\ queue'[1] = AcquireWaiter(f)
             /\ \A i \in 1..Len(queue') : i = 1
             /\ \A g \in Fibers : ~Leads(g) /\ target[g] = NULL
             /\ pc'[f] = "fast_own" /\ \A g \in Fibers : g # f => pc'[g] = pc[g]
             /\ pc' = [pc EXCEPT ![f] = "fast_own"] /\ callback' = callback /\ Leads(f)'
  <2>1. queue' = <<AcquireWaiter(f)>>
    BY <1>a, <1>b
  <2>2. queue' \in Seq(Waiters) /\ Len(queue') = 1 /\ queue'[1] = AcquireWaiter(f)
    BY ONLY <2>1, SingletonFacts, CVWaiterFacts, f \in Fibers
  <2>3. \A g \in Fibers : ~Leads(g) /\ target[g] = NULL
    BY <1>b DEF CVFrontOK, Leads
  <2>4. pc' = [pc EXCEPT ![f] = "fast_own"] /\ callback' = callback
    BY <1>b
  <2>5. pc'[f] = "fast_own" /\ (\A g \in Fibers : g # f => pc'[g] = pc[g]) /\ Leads(f)'
    BY <2>4 DEF CVTypeOK, Leads
  <2> QED BY <2>2, <2>3, <2>4, <2>5
<1>c. ASSUME queue # <<>>
      PROVE  /\ queue' = queue /\ pc'[f] = "slow_load"
             /\ \A g \in Fibers : (g # f => pc'[g] = pc[g]) /\ (Leads(g)' <=> Leads(g))
  BY <1>a, <1>c DEF CVTypeOK, Leads
<1>1. CVTypeOK'
  <2>1. CASE queue = <<>>
    BY <1>a, <1>b, <2>1 DEF CVTypeOK, Leads
  <2>2. CASE queue # <<>>
    BY <1>a, <1>c, <2>2 DEF CVTypeOK
  <2> QED BY <2>1, <2>2
<1>2. CVQueueOK'
  <2>1. CASE queue = <<>>
    <3>1. \A i \in 1..Len(queue') : queue'[i][1] = f /\ Leads(f)'
      BY <1>b, <2>1
    <3>2. \A i, j \in 1..Len(queue') : i = j
      BY <1>b, <2>1
    <3> QED BY ONLY <3>1, <3>2, f \in Fibers DEF CVQueueOK, Leads
  <2>2. CASE queue # <<>>
    BY <1>c, <2>2 DEF CVQueueOK
  <2> QED BY <2>1, <2>2
<1>3. CVFrontOK'
  <2>1. CASE queue = <<>>
    <3>1. \A g \in Fibers : g # f => ~Leads(g)'
      BY <1>b, <2>1 DEF Leads
    <3> QED BY <1>b, <2>1, <3>1 DEF CVFrontOK
  <2>2. CASE queue # <<>>
    BY <1>a, <1>c, <2>2 DEF CVTypeOK, CVFrontOK
  <2> QED BY <2>1, <2>2
<1>4. CVGrantOK'
  BY DEF CVTypeOK, CVGrantOK, CVFrontOK, TargetOK, Leads
<1>5. CVReleaseOK'
  <2>1. CASE queue = <<>>
    BY <1>a, <1>b, <2>1 DEF CVTypeOK, CVReleaseOK, Leads
  <2>2. CASE queue # <<>>
    BY <1>a, <1>c, <2>2 DEF CVTypeOK, CVReleaseOK
  <2> QED BY <2>1, <2>2
<1>6. TargetOK'
  BY DEF CVTypeOK, TargetOK, CVFrontOK, CVGrantOK, Leads
<1>7. WaitersOK'
  BY DEF CVTypeOK, WaitersOK, CVFrontOK, CVGrantOK, TargetOK, Leads
<1>8. CVOwnerOK'
  BY DEF CVTypeOK, CVOwnerOK, CVFrontOK, CVGrantOK, TargetOK, Leads
<1>9. BlockedOK'
  BY DEF CVTypeOK, BlockedOK, CVFrontOK, CVGrantOK, TargetOK, Leads
<1>10. WakeOK'
  <2>1. Woken' = Woken
    BY DEF CVTypeOK, CVFrontOK, TargetOK, WaitersOK, Leads, Woken, IsWoken
  <2>2. Notifying => Notifying'
    BY DEF CVTypeOK, Notifying
  <2> QED BY <2>1, <2>2, WakeKept
<1> QED BY <1>1, <1>2, <1>3, <1>4, <1>5, <1>6, <1>7, <1>8, <1>9, <1>10

\* The winner of the compare-and-swap writes owner_.
LEMMA CVFastOwnStep ==
  ASSUME CVInv, NEW f \in Fibers, FastOwn(f, Linking(f)), UNCHANGED waitVars
  PROVE  CVInv'
<1> USE CVWaiterFacts DEF CVInv, Holding, CVFront, LockLabels, FastOwn, Linking, waitVars
<1>1. CVTypeOK'
  BY DEF CVTypeOK
<1>2. CVQueueOK'
  BY DEF CVTypeOK, CVQueueOK, CVFrontOK, CVGrantOK, TargetOK, Leads
<1>3. CVFrontOK'
  BY DEF CVTypeOK, CVFrontOK, CVGrantOK, TargetOK, Leads
<1>4. CVGrantOK'
  BY DEF CVTypeOK, CVGrantOK, CVFrontOK, TargetOK, Leads
<1>5. CVReleaseOK'
  BY DEF CVTypeOK, CVReleaseOK, CVFrontOK, CVGrantOK, TargetOK, Leads
<1>6. TargetOK'
  BY DEF CVTypeOK, TargetOK, CVFrontOK, CVGrantOK, Leads
<1>7. WaitersOK'
  BY DEF CVTypeOK, WaitersOK, CVFrontOK, CVGrantOK, TargetOK, Leads
<1>8. CVOwnerOK'
  BY DEF CVTypeOK, CVOwnerOK, CVFrontOK, CVGrantOK, TargetOK, Leads
<1>9. BlockedOK'
  BY SMTT(20) DEF CVTypeOK, BlockedOK, CVFrontOK, CVGrantOK, TargetOK, Leads
<1>10. WakeOK'
  <2>1. Woken' = Woken
    BY DEF CVTypeOK, CVFrontOK, TargetOK, WaitersOK, Leads, Woken, IsWoken
  <2>2. Notifying => Notifying'
    BY DEF CVTypeOK, Notifying
  <2> QED BY <2>1, <2>2, WakeKept
<1> QED BY <1>1, <1>2, <1>3, <1>4, <1>5, <1>6, <1>7, <1>8, <1>9, <1>10

\* AcquireSlow reads head_, which is not empty when it links another fiber.
LEMMA CVSlowLoadStep ==
  ASSUME CVInv, NEW f \in Fibers, SlowLoad(f, Linking(f)), UNCHANGED waitVars
  PROVE  CVInv'
<1> USE CVWaiterFacts DEF CVInv, Holding, CVFront, LockLabels, SlowLoad, HeadPtr, waitVars
<1>1. CVTypeOK'
  BY DEF CVTypeOK
<1>2. CVQueueOK'
  BY DEF CVTypeOK, CVQueueOK, CVFrontOK, CVGrantOK, TargetOK, Leads
<1>3. CVFrontOK'
  BY DEF CVTypeOK, CVFrontOK, CVGrantOK, TargetOK, Leads
<1>4. CVGrantOK'
  BY DEF CVTypeOK, CVGrantOK, CVFrontOK, TargetOK, Leads
<1>5. CVReleaseOK'
  BY DEF CVTypeOK, CVReleaseOK, CVFrontOK, CVGrantOK, TargetOK, Leads
<1>6. TargetOK'
  BY DEF CVTypeOK, TargetOK, CVFrontOK, CVGrantOK, Leads
<1>7. WaitersOK'
  BY DEF CVTypeOK, WaitersOK, CVFrontOK, CVGrantOK, TargetOK, Leads
<1>8. CVOwnerOK'
  BY DEF CVTypeOK, CVOwnerOK, CVFrontOK, CVGrantOK, TargetOK, Leads
<1>9. BlockedOK'
  BY DEF CVTypeOK, BlockedOK, CVFrontOK, CVGrantOK, TargetOK, Leads
<1>10. WakeOK'
  <2>1. Woken' = Woken
    BY DEF CVTypeOK, CVFrontOK, TargetOK, WaitersOK, Leads, Woken, IsWoken
  <2>2. Notifying => Notifying'
    BY DEF CVTypeOK, Notifying
  <2> QED BY <2>1, <2>2, WakeKept
<1> QED BY <1>1, <1>2, <1>3, <1>4, <1>5, <1>6, <1>7, <1>8, <1>9, <1>10

\* The scheduler runs the fiber: after a wait it evaluates its condition again.
LEMMA CVUnblockedStep ==
  ASSUME CVInv, NEW f \in Fibers, Unblocked(f), UNCHANGED waitVars
  PROVE  CVInv'
<1> USE CVWaiterFacts DEF CVInv, Holding, CVFront, LockLabels, Unblocked, Resume, waitVars
<1>1. CVTypeOK'
  BY DEF CVTypeOK
<1>2. CVQueueOK'
  BY DEF CVTypeOK, CVQueueOK, CVFrontOK, CVGrantOK, TargetOK, Leads
<1>3. CVFrontOK'
  BY DEF CVTypeOK, CVFrontOK, CVGrantOK, TargetOK, Leads
<1>4. CVGrantOK'
  BY DEF CVTypeOK, CVGrantOK, CVFrontOK, TargetOK, Leads
<1>5. CVReleaseOK'
  BY DEF CVTypeOK, CVReleaseOK, CVFrontOK, CVGrantOK, TargetOK, Leads
<1>6. TargetOK'
  BY DEF CVTypeOK, TargetOK, CVFrontOK, CVGrantOK, Leads
<1>7. WaitersOK'
  BY DEF CVTypeOK, WaitersOK, CVFrontOK, CVGrantOK, TargetOK, Leads
<1>8. CVOwnerOK'
  BY DEF CVTypeOK, CVOwnerOK, CVFrontOK, CVGrantOK, TargetOK, Leads
<1>9. BlockedOK'
  BY DEF CVTypeOK, BlockedOK, CVFrontOK, CVGrantOK, TargetOK, Leads
<1>10. WakeOK'
  <2>1. Woken' = Woken
    BY DEF CVTypeOK, CVFrontOK, TargetOK, WaitersOK, Leads, Woken, IsWoken
  <2>2. Notifying => Notifying'
    BY DEF CVTypeOK, Notifying
  <2> QED BY <2>1, <2>2, WakeKept
<1> QED BY <1>1, <1>2, <1>3, <1>4, <1>5, <1>6, <1>7, <1>8, <1>9, <1>10

\* Release reads head_.
LEMMA CVReleaseLoadStep ==
  ASSUME CVInv, NEW f \in Fibers, ReleaseLoad(f), UNCHANGED waitVars
  PROVE  CVInv'
<1> USE CVWaiterFacts DEF CVInv, Holding, CVFront, LockLabels, ReleaseLoad, HeadPtr, waitVars
<1>1. CVTypeOK'
  BY DEF CVTypeOK
<1>2. CVQueueOK'
  BY DEF CVTypeOK, CVQueueOK, CVFrontOK, CVGrantOK, TargetOK, Leads
<1>3. CVFrontOK'
  BY DEF CVTypeOK, CVFrontOK, CVGrantOK, TargetOK, Leads
<1>4. CVGrantOK'
  BY DEF CVTypeOK, CVGrantOK, CVFrontOK, TargetOK, Leads
<1>5. CVReleaseOK'
  BY DEF CVTypeOK, CVReleaseOK, CVFrontOK, CVGrantOK, TargetOK, Leads
<1>6. TargetOK'
  BY DEF CVTypeOK, TargetOK, CVFrontOK, CVGrantOK, Leads
<1>7. WaitersOK'
  BY DEF CVTypeOK, WaitersOK, CVFrontOK, CVGrantOK, TargetOK, Leads
<1>8. CVOwnerOK'
  BY DEF CVTypeOK, CVOwnerOK, CVFrontOK, CVGrantOK, TargetOK, Leads
<1>9. BlockedOK'
  BY DEF CVTypeOK, BlockedOK, CVFrontOK, CVGrantOK, TargetOK, Leads
<1>10. WakeOK'
  <2>1. Woken' = Woken
    BY DEF CVTypeOK, CVFrontOK, TargetOK, WaitersOK, Leads, Woken, IsWoken
  <2>2. Notifying => Notifying'
    BY DEF CVTypeOK, Notifying
  <2> QED BY <2>1, <2>2, WakeKept
<1> QED BY <1>1, <1>2, <1>3, <1>4, <1>5, <1>6, <1>7, <1>8, <1>9, <1>10

\* Release clears owner_; the releaser is the only one that leads.
LEMMA CVReleaseDisownStep ==
  ASSUME CVInv, NEW f \in Fibers, ReleaseDisown(f), UNCHANGED waitVars
  PROVE  CVInv'
<1> USE CVWaiterFacts DEF CVInv, Holding, CVFront, LockLabels, ReleaseDisown, waitVars
<1>1. CVTypeOK'
  BY DEF CVTypeOK
<1>2. CVQueueOK'
  BY DEF CVTypeOK, CVQueueOK, CVFrontOK, CVGrantOK, TargetOK, Leads
<1>3. CVFrontOK'
  BY DEF CVTypeOK, CVFrontOK, CVGrantOK, TargetOK, Leads
<1>4. CVGrantOK'
  BY DEF CVTypeOK, CVGrantOK, CVFrontOK, TargetOK, Leads
<1>5. CVReleaseOK'
  BY DEF CVTypeOK, CVReleaseOK, CVFrontOK, CVGrantOK, TargetOK, Leads
<1>6. TargetOK'
  BY DEF CVTypeOK, TargetOK, CVFrontOK, CVGrantOK, Leads
<1>7. WaitersOK'
  BY DEF CVTypeOK, WaitersOK, CVFrontOK, CVGrantOK, TargetOK, Leads
<1>8. CVOwnerOK'
  <2>1. Leads(f) /\ target[f] = NULL
    BY DEF Leads, TargetOK
  <2> QED BY <2>1, LeaderAlone DEF CVTypeOK, CVOwnerOK
<1>9. BlockedOK'
  BY DEF CVTypeOK, BlockedOK, CVFrontOK, CVGrantOK, TargetOK, Leads
<1>10. WakeOK'
  <2>1. Woken' = Woken
    BY DEF CVTypeOK, CVFrontOK, TargetOK, WaitersOK, Leads, Woken, IsWoken
  <2>2. Notifying => Notifying'
    BY DEF CVTypeOK, Notifying
  <2> QED BY <2>1, <2>2, WakeKept
<1> QED BY <1>1, <1>2, <1>3, <1>4, <1>5, <1>6, <1>7, <1>8, <1>9, <1>10

\* A weak compare-and-swap failed: Release starts again.
LEMMA CVReleaseCasSpuriousStep ==
  ASSUME CVInv, NEW f \in Fibers, ReleaseCasSpurious(f), UNCHANGED waitVars
  PROVE  CVInv'
<1> USE CVWaiterFacts DEF CVInv, Holding, CVFront, LockLabels, ReleaseCasSpurious, waitVars
<1>1. CVTypeOK'
  BY DEF CVTypeOK
<1>2. CVQueueOK'
  BY DEF CVTypeOK, CVQueueOK, CVFrontOK, CVGrantOK, TargetOK, Leads
<1>3. CVFrontOK'
  BY DEF CVTypeOK, CVFrontOK, CVGrantOK, TargetOK, Leads
<1>4. CVGrantOK'
  BY DEF CVTypeOK, CVGrantOK, CVFrontOK, TargetOK, Leads
<1>5. CVReleaseOK'
  BY DEF CVTypeOK, CVReleaseOK, CVFrontOK, CVGrantOK, TargetOK, Leads
<1>6. TargetOK'
  BY DEF CVTypeOK, TargetOK, CVFrontOK, CVGrantOK, Leads
<1>7. WaitersOK'
  BY DEF CVTypeOK, WaitersOK, CVFrontOK, CVGrantOK, TargetOK, Leads
<1>8. CVOwnerOK'
  BY DEF CVTypeOK, CVOwnerOK, CVFrontOK, CVGrantOK, TargetOK, Leads
<1>9. BlockedOK'
  BY DEF CVTypeOK, BlockedOK, CVFrontOK, CVGrantOK, TargetOK, Leads
<1>10. WakeOK'
  <2>1. Woken' = Woken
    BY DEF CVTypeOK, CVFrontOK, TargetOK, WaitersOK, Leads, Woken, IsWoken
  <2>2. Notifying => Notifying'
    BY DEF CVTypeOK, Notifying
  <2> QED BY <2>1, <2>2, WakeKept
<1> QED BY <1>1, <1>2, <1>3, <1>4, <1>5, <1>6, <1>7, <1>8, <1>9, <1>10

\* The compare-and-swap that frees the lock: the releaser was alone in the list.
LEMMA CVReleaseFreedStep ==
  ASSUME CVInv, NEW f \in Fibers, pc[f] = "release_cas", HeadPtr = seen[f],
         queue' = <<>>, clearing' = clearing \cup {seen[f]},
         pc' = [pc EXCEPT ![f] = AfterRelease(f)],
         UNCHANGED <<owner, acquired, callback, seen, waitVars>>
  PROVE  CVInv'
<1> USE CVWaiterFacts DEF CVInv, Holding, CVFront, LockLabels, HeadPtr, AfterRelease, waitVars
<1>a. Leads(f) /\ target[f] = NULL /\ seen[f] = queue[1] /\ seen[f] \in Waiters
  BY LeaderAlone DEF Leads, TargetOK, CVReleaseOK
<1>b. Len(queue) = 1
  <2>1. Len(queue) \in Nat \ {0}
    BY <1>a, LeaderAlone
  <2>2. queue # <<>> /\ queue[Len(queue)] = queue[1]
    BY <1>a, <2>1
  <2>3. 1 \in 1..Len(queue) /\ Len(queue) \in 1..Len(queue)
    BY <2>1
  <2> QED BY ONLY <2>2, <2>3, CVQueueOK DEF CVQueueOK
<1>c. \A g \in Fibers : g # f => ~Leads(g) /\ target[g] = NULL /\ pc[g] \notin CVFront
  BY <1>a, LeaderAlone
<1>d. \A g \in Fibers : pc[g] = "blocked" => g \in notifiable
  <2>1. queue[1][1] = f /\ \A i \in 1..Len(queue) : i = 1
    BY <1>a, <1>b, LeaderAlone
  <2>2. \A g \in Fibers : target[g] = NULL
    BY <1>a, <1>c
  <2> QED BY <2>1, <2>2 DEF BlockedOK
<1>e. \A g \in Fibers : ~Leads(g)'
  BY <1>a, <1>c DEF Leads, CVTypeOK
<1>1. CVTypeOK'
  BY <1>a DEF CVTypeOK
<1>2. CVQueueOK'
  BY <1>a, <1>c, <1>d, <1>e DEF CVTypeOK, CVQueueOK, Leads
<1>3. CVFrontOK'
  BY <1>a, <1>c, <1>d, <1>e DEF CVTypeOK, CVFrontOK, Leads
<1>4. CVGrantOK'
  <2>1. \A g \in Fibers : pc[g] # "release_grant"
    BY <1>a, LeaderAlone
  <2> QED BY <2>1 DEF CVTypeOK, CVGrantOK
<1>5. CVReleaseOK'
  BY <1>a, <1>c, <1>d, <1>e DEF CVTypeOK, CVReleaseOK, Leads
<1>6. TargetOK'
  BY <1>a, <1>c, <1>d, <1>e DEF CVTypeOK, TargetOK, Leads
<1>7. WaitersOK'
  BY <1>a, <1>c, <1>d, <1>e DEF CVTypeOK, WaitersOK, Leads
<1>8. CVOwnerOK'
  BY <1>a, <1>c, <1>d, <1>e DEF CVTypeOK, CVOwnerOK, Leads
<1>9. BlockedOK'
  BY <1>a, <1>c, <1>d, <1>e DEF CVTypeOK, BlockedOK, Leads
<1>10. WakeOK'
  <2>1. Leads(f)
    BY DEF Leads
  <2>2. \A g \in Fibers : pc[g] # "unblocked"
    BY <2>1, LeaderAlone
  <2>3. Woken' = Woken
    BY <2>2 DEF CVTypeOK, WaitersOK, Woken, IsWoken
  <2>4. Notifying => Notifying'
    BY DEF CVTypeOK, Notifying
  <2> QED BY <2>3, <2>4, WakeKept
<1> QED BY <1>1, <1>2, <1>3, <1>4, <1>5, <1>6, <1>7, <1>8, <1>9, <1>10

\* Release tries to free the lock; when another fiber came, it starts again.
LEMMA CVReleaseCasStep ==
  ASSUME CVInv, NEW f \in Fibers, ReleaseCas(f, AfterRelease(f)), UNCHANGED waitVars
  PROVE  CVInv'
<1>1. CASE HeadPtr = seen[f]
  BY <1>1, CVReleaseFreedStep DEF ReleaseCas
<1>2. CASE HeadPtr # seen[f]
  BY <1>2, CVReleaseCasSpuriousStep DEF ReleaseCas, ReleaseCasSpurious
<1> QED BY <1>1, <1>2

\* Release unlinks the holder; whoever is next is queued or was notified.
LEMMA CVReleaseUnlinkStep ==
  ASSUME CVInv, NEW f \in Fibers, ReleaseUnlink(f), UNCHANGED waitVars
  PROVE  CVInv'
<1> USE CVWaiterFacts DEF CVInv, Holding, CVFront, LockLabels, ReleaseUnlink, waitVars
<1>a. /\ Len(queue) \in Nat /\ Len(queue) > 1 /\ queue' = Tail(queue)
      /\ queue' \in Seq(Waiters) /\ Len(queue') = Len(queue) - 1
      /\ \A i \in 1..Len(queue') : queue'[i] = queue[i + 1] /\ i + 1 \in 1..Len(queue)
  BY HeadTailProperties DEF CVTypeOK
<1>b. Leads(f) /\ queue[1][1] = f /\ target[f] = NULL
  BY LeaderAlone DEF Leads, TargetOK
<1>c. pc'[f] = "release_grant" /\ \A g \in Fibers : g # f => pc'[g] = pc[g]
  BY DEF CVTypeOK
<1>d. \A g \in Fibers : g # f => ~Leads(g) /\ target[g] = NULL
  BY <1>b, LeaderAlone
<1>1. CVTypeOK'
  BY DEF CVTypeOK
<1>2. CVQueueOK'
  <2>1. ASSUME NEW i \in 1..Len(queue')
        PROVE  \E g \in Fibers :
                 \/ queue'[i] = AcquireWaiter(g) /\ pc'[g] = "queued"
                 \/ queue'[i] = WaitWaiter(g) /\ pc'[g] = "blocked" /\ g \notin notifiable
                 \/ queue'[i][1] = g /\ Leads(g)'
    <3>1. PICK g \in Fibers :
            \/ queue[i + 1] = AcquireWaiter(g) /\ pc[g] = "queued"
            \/ queue[i + 1] = WaitWaiter(g) /\ pc[g] = "blocked" /\ g \notin notifiable
            \/ queue[i + 1][1] = g /\ Leads(g)
      BY <1>a DEF CVQueueOK
    <3>2. queue[i + 1][1] = g
      BY <3>1
    <3>3. g # f
      <4>1. 1 \in 1..Len(queue) /\ i + 1 \in 1..Len(queue) /\ i + 1 # 1
        BY <1>a
      <4> QED BY <1>b, <3>2, <4>1 DEF CVQueueOK
    <3> QED BY <1>a, <1>c, <1>d, <3>1, <3>3
  <2>2. ASSUME NEW i \in 1..Len(queue'), NEW j \in 1..Len(queue'), queue'[i][1] = queue'[j][1]
        PROVE  i = j
    <3>1. i + 1 = j + 1
      BY <1>a, <2>2 DEF CVQueueOK
    <3> QED BY <1>a, <3>1
  <2> QED BY <2>1, <2>2 DEF CVQueueOK
<1>3. CVFrontOK'
  BY SMTT(20) DEF CVTypeOK, CVFrontOK, CVGrantOK, TargetOK, Leads
<1>4. CVGrantOK'
  <2>1. \A g \in Fibers : pc[g] # "release_grant"
    BY <1>b, LeaderAlone
  <2>2. Len(queue') > 0
    BY <1>a
  <2>3. \A g \in Fibers : ~Leads(g)'
    BY <1>b, <1>c, <1>d DEF Leads
  <2> QED BY <1>c, <2>1, <2>2, <2>3 DEF CVGrantOK
<1>5. CVReleaseOK'
  BY DEF CVTypeOK, CVReleaseOK, CVFrontOK, CVGrantOK, TargetOK, Leads
<1>6. TargetOK'
  BY DEF CVTypeOK, TargetOK, CVFrontOK, CVGrantOK, Leads
<1>7. WaitersOK'
  BY DEF CVTypeOK, WaitersOK, CVFrontOK, CVGrantOK, TargetOK, Leads
<1>8. CVOwnerOK'
  BY DEF CVTypeOK, CVOwnerOK, CVFrontOK, CVGrantOK, TargetOK, Leads
<1>9. BlockedOK'
  <2>1. SUFFICES ASSUME NEW g \in Fibers, pc'[g] = "blocked", g \notin notifiable
               PROVE  \E i \in 1..Len(queue') : queue'[i] = WaitWaiter(g)
    BY DEF BlockedOK
  <2>2. g # f /\ pc[g] = "blocked"
    BY <1>c, <2>1
  <2>3. PICK i \in 1..Len(queue) : queue[i] = WaitWaiter(g)
    BY <1>b, <1>d, <2>1, <2>2 DEF BlockedOK
  <2>4. i # 1
    BY <1>b, <2>2, <2>3
  <2>5. i - 1 \in 1..Len(queue') /\ (i - 1) + 1 = i
    BY <1>a, <2>3, <2>4
  <2>6. queue'[i - 1] = WaitWaiter(g)
    BY <1>a, <2>3, <2>5
  <2> QED BY <2>5, <2>6
<1>10. WakeOK'
  <2>1. Leads(f)
    BY DEF Leads
  <2>2. \A g \in Fibers : pc[g] # "unblocked"
    BY <2>1, LeaderAlone
  <2>3. Woken' = Woken
    BY <2>2 DEF CVTypeOK, Woken, IsWoken
  <2>4. Notifying => Notifying'
    BY DEF CVTypeOK, Notifying
  <2> QED BY <2>3, <2>4, WakeKept
<1> QED BY <1>1, <1>2, <1>3, <1>4, <1>5, <1>6, <1>7, <1>8, <1>9, <1>10

\* Release hands the lock to the oldest node.  A fiber that released to wait is
\* in the list of waiters until it is notified.
LEMMA CVReleaseGrantStep ==
  ASSUME CVInv, NEW f \in Fibers, ReleaseGrant(f, AfterRelease(f)), UNCHANGED waitVars
  PROVE  CVInv'
<1> USE CVWaiterFacts DEF CVInv, Holding, CVFront, LockLabels, ReleaseGrant, AfterRelease, waitVars
<1>a. /\ Len(queue) \in Nat \ {0} /\ 1 \in 1..Len(queue)
      /\ \A g \in Fibers : ~Leads(g) /\ target[g] = NULL
  BY DEF CVGrantOK, CVTypeOK, Leads
<1>b. PICK g \in Fibers :
        \/ queue[1] = AcquireWaiter(g) /\ pc[g] = "queued"
        \/ queue[1] = WaitWaiter(g) /\ pc[g] = "blocked" /\ g \notin notifiable
  BY <1>a DEF CVQueueOK
<1>c. g # f /\ queue[1][1] = g
  BY <1>b
<1>d. pc' = [pc EXCEPT ![f] = AfterRelease(f), ![g] = "unblocked"] /\ owner' = g
  BY <1>c
<1>e. /\ pc'[g] = "unblocked" /\ pc'[f] = AfterRelease(f)
      /\ \A h \in Fibers : h # f /\ h # g => pc'[h] = pc[h]
  BY <1>c, <1>d DEF CVTypeOK
<1>f. f \in notifiable => pc'[f] = "blocked"
  BY <1>e
<1>g. f \notin notifiable => pc'[f] = "returning"
  BY <1>e
<1>1. CVTypeOK'
  BY DEF CVTypeOK
<1>2. CVQueueOK'
  BY DEF CVTypeOK, CVQueueOK, CVFrontOK, CVGrantOK, TargetOK, Leads
<1>3. CVFrontOK'
  BY DEF CVTypeOK, CVFrontOK, CVGrantOK, TargetOK, Leads
<1>4. CVGrantOK'
  BY DEF CVTypeOK, CVGrantOK, CVFrontOK, TargetOK, Leads
<1>5. CVReleaseOK'
  BY DEF CVTypeOK, CVReleaseOK, CVFrontOK, CVGrantOK, TargetOK, Leads
<1>6. TargetOK'
  BY DEF CVTypeOK, TargetOK, CVFrontOK, CVGrantOK, Leads
<1>7. WaitersOK'
  <2>1. g \notin notifiable
    BY <1>b DEF WaitersOK
  <2>2. \A h \in notifiable : pc'[h] \in {"release", "release_disown", "release_cas",
          "release_unlink", "release_grant", "blocked"}
    BY <1>e, <1>f, <2>1 DEF WaitersOK, CVTypeOK
  <2>3. /\ \A i \in 1..Len(waiters') : waiters'[i] \in notifiable'
        /\ \A i, j \in 1..Len(waiters') : waiters'[i] = waiters'[j] => i = j
        /\ \A h \in notifiable' : \E i \in 1..Len(waiters') : waiters'[i] = h
    BY DEF WaitersOK
  <2>4. notifiable' = notifiable
    OBVIOUS
  <2> QED BY ONLY <2>2, <2>3, <2>4 DEF WaitersOK
<1>8. CVOwnerOK'
  BY DEF CVTypeOK, CVOwnerOK, CVFrontOK, CVGrantOK, TargetOK, Leads
<1>9. BlockedOK'
  BY DEF CVTypeOK, BlockedOK, CVFrontOK, CVGrantOK, TargetOK, Leads
<1>10. WakeOK'
  <2>1. \A h \in Fibers : h # g => pc[h] # "unblocked" /\ pc'[h] # "unblocked"
    <3>1. \A h \in Fibers : pc[h] # "unblocked"
      BY <1>a DEF Leads
    <3>2. pc'[f] # "unblocked"
      BY ONLY <1>f, <1>g
    <3> QED BY ONLY <1>e, <3>1, <3>2
  <2>2. \A h \in Fibers : IsWoken(h)' <=> IsWoken(h)
    <3>1. IsWoken(g)' <=> IsWoken(g)
      BY <1>b, <1>e DEF IsWoken
    <3>2. IsWoken(f)' <=> IsWoken(f)
      BY <1>c, <1>f, <1>g, <2>1 DEF IsWoken
    <3>3. \A h \in Fibers : h # f /\ h # g => (IsWoken(h)' <=> IsWoken(h))
      BY <1>e, <2>1 DEF IsWoken
    <3> QED BY <3>1, <3>2, <3>3
  <2>3. Woken' = Woken
    BY <2>2 DEF Woken
  <2>4. ~Notifying
    BY <1>a DEF Notifying, Leads
  <2> QED BY <2>3, <2>4, WakeKept
<1> QED BY <1>1, <1>2, <1>3, <1>4, <1>5, <1>6, <1>7, <1>8, <1>9, <1>10

\* Release has returned.
LEMMA CVReturnStep ==
  ASSUME CVInv, NEW f \in Fibers, Return(f), UNCHANGED waitVars
  PROVE  CVInv'
<1> USE CVWaiterFacts DEF CVInv, Holding, CVFront, LockLabels, Return, waitVars
<1>1. CVTypeOK'
  BY DEF CVTypeOK
<1>2. CVQueueOK'
  BY DEF CVTypeOK, CVQueueOK, CVFrontOK, CVGrantOK, TargetOK, Leads
<1>3. CVFrontOK'
  BY DEF CVTypeOK, CVFrontOK, CVGrantOK, TargetOK, Leads
<1>4. CVGrantOK'
  BY DEF CVTypeOK, CVGrantOK, CVFrontOK, TargetOK, Leads
<1>5. CVReleaseOK'
  BY DEF CVTypeOK, CVReleaseOK, CVFrontOK, CVGrantOK, TargetOK, Leads
<1>6. TargetOK'
  BY DEF CVTypeOK, TargetOK, CVFrontOK, CVGrantOK, Leads
<1>7. WaitersOK'
  BY DEF CVTypeOK, WaitersOK, CVFrontOK, CVGrantOK, TargetOK, Leads
<1>8. CVOwnerOK'
  BY DEF CVTypeOK, CVOwnerOK, CVFrontOK, CVGrantOK, TargetOK, Leads
<1>9. BlockedOK'
  BY DEF CVTypeOK, BlockedOK, CVFrontOK, CVGrantOK, TargetOK, Leads
<1>10. WakeOK'
  <2>1. Woken' = Woken
    BY DEF CVTypeOK, CVFrontOK, TargetOK, WaitersOK, Leads, Woken, IsWoken
  <2>2. Notifying => Notifying'
    BY DEF CVTypeOK, Notifying
  <2> QED BY <2>1, <2>2, WakeKept
<1> QED BY <1>1, <1>2, <1>3, <1>4, <1>5, <1>6, <1>7, <1>8, <1>9, <1>10

\* The condition says wait: there is no item, so nobody else need be woken.
LEMMA CVWaitStep ==
  ASSUME CVInv, NEW f \in Fibers, Wait(f)
  PROVE  CVInv'
<1> USE CVWaiterFacts DEF CVInv, Holding, CVFront, LockLabels, Wait
<1>1. CVTypeOK'
  BY DEF CVTypeOK
<1>2. CVQueueOK'
  BY DEF CVTypeOK, CVQueueOK, CVFrontOK, CVGrantOK, TargetOK, Leads
<1>3. CVFrontOK'
  BY DEF CVTypeOK, CVFrontOK, CVGrantOK, TargetOK, Leads
<1>4. CVGrantOK'
  BY DEF CVTypeOK, CVGrantOK, CVFrontOK, TargetOK, Leads
<1>5. CVReleaseOK'
  BY DEF CVTypeOK, CVReleaseOK, CVFrontOK, CVGrantOK, TargetOK, Leads
<1>6. TargetOK'
  BY DEF CVTypeOK, TargetOK, CVFrontOK, CVGrantOK, Leads
<1>7. WaitersOK'
  <2>1. /\ Len(waiters) \in Nat /\ Len(waiters') = Len(waiters) + 1
        /\ \A i \in 1..Len(waiters) : waiters'[i] = waiters[i]
        /\ waiters'[Len(waiters) + 1] = f
        /\ \A i \in 1..Len(waiters') : i \in 1..Len(waiters) \/ i = Len(waiters) + 1
    BY AppendProperties DEF CVTypeOK
  <2>2. f \notin notifiable
    BY DEF WaitersOK
  <2>3. \A i \in 1..Len(waiters') : waiters'[i] \in notifiable'
    BY <2>1 DEF WaitersOK
  <2>4. \A i \in 1..Len(waiters) : waiters[i] # f
    BY <2>2 DEF WaitersOK
  <2>5. \A i, j \in 1..Len(waiters') : waiters'[i] = waiters'[j] => i = j
    BY <2>1, <2>4 DEF WaitersOK
  <2>6. \A g \in notifiable' : \E i \in 1..Len(waiters') : waiters'[i] = g
    <3>1. 1..Len(waiters) \subseteq 1..Len(waiters') /\ Len(waiters) + 1 \in 1..Len(waiters')
      BY <2>1
    <3> QED BY <2>1, <3>1 DEF WaitersOK
  <2>7. \A g \in notifiable' : pc'[g] \in {"release", "release_disown", "release_cas",
          "release_unlink", "release_grant", "blocked"}
    BY DEF WaitersOK, CVTypeOK
  <2> QED BY <2>3, <2>5, <2>6, <2>7 DEF WaitersOK
<1>8. CVOwnerOK'
  BY DEF CVTypeOK, CVOwnerOK, CVFrontOK, CVGrantOK, TargetOK, Leads
<1>9. BlockedOK'
  BY DEF CVTypeOK, BlockedOK, CVFrontOK, CVGrantOK, TargetOK, Leads
<1>10. WakeOK'
  <2>1. Leads(f) /\ pc' = [pc EXCEPT ![f] = "release"]
    BY DEF Leads
  <2>2. \A g \in Fibers : pc'[g] # "unblocked"
    BY <2>1, LeaderAlone DEF CVTypeOK
  <2>3. Woken' \subseteq Woken
    BY <2>1, <2>2 DEF CVTypeOK, Woken, IsWoken
  <2>4. IsFiniteSet(Woken') /\ Cardinality(Woken') \in Nat
    BY <2>3, FS_Subset, FS_CardinalityType DEF WakeOK
  <2>5. 0 <= Cardinality(Woken') + (IF Notifying' THEN 1 ELSE 0)
    BY <2>4
  <2> QED BY <2>4, <2>5 DEF WakeOK
<1> QED BY <1>1, <1>2, <1>3, <1>4, <1>5, <1>6, <1>7, <1>8, <1>9, <1>10

\* The fiber takes an item: one item less, and one wakeup less if it was woken.
LEMMA CVProceedStep ==
  ASSUME CVInv, NEW f \in Fibers, Proceed(f)
  PROVE  CVInv'
<1> USE CVWaiterFacts DEF CVInv, Holding, CVFront, LockLabels, Proceed
<1>1. CVTypeOK'
  <2>1. ready' \in 0..MaxReady
    BY MaxReadyAssumption DEF CVTypeOK
  <2> QED BY <2>1 DEF CVTypeOK
<1>2. CVQueueOK'
  BY DEF CVTypeOK, CVQueueOK, CVFrontOK, CVGrantOK, TargetOK, Leads
<1>3. CVFrontOK'
  BY DEF CVTypeOK, CVFrontOK, CVGrantOK, TargetOK, Leads
<1>4. CVGrantOK'
  BY DEF CVTypeOK, CVGrantOK, CVFrontOK, TargetOK, Leads
<1>5. CVReleaseOK'
  BY DEF CVTypeOK, CVReleaseOK, CVFrontOK, CVGrantOK, TargetOK, Leads
<1>6. TargetOK'
  BY DEF CVTypeOK, TargetOK, CVFrontOK, CVGrantOK, Leads
<1>7. WaitersOK'
  <2>1. f \notin notifiable
    BY DEF WaitersOK
  <2>2. notifiable' = notifiable
    BY <2>1
  <2> QED BY <2>1, <2>2 DEF CVTypeOK, WaitersOK
<1>8. CVOwnerOK'
  BY DEF CVTypeOK, CVOwnerOK, CVFrontOK, CVGrantOK, TargetOK, Leads
<1>9. BlockedOK'
  BY DEF CVTypeOK, BlockedOK, CVFrontOK, CVGrantOK, TargetOK, Leads
<1>10. WakeOK'
  <2>1. Leads(f) /\ pc' = [pc EXCEPT ![f] = "release"]
    BY DEF Leads
  <2>2. \A g \in Fibers : pc[g] # "unblocked" /\ pc'[g] # "unblocked"
    BY <2>1, LeaderAlone DEF CVTypeOK
  <2>3. notifiable' = notifiable
    BY DEF WaitersOK
  <2>4. Woken' = Woken \ {f} /\ (pc[f] = "section" => f \notin Woken)
    BY <2>1, <2>2, <2>3 DEF CVTypeOK, Woken, IsWoken
  <2>5. ready \in Nat /\ ready > 0 /\ ready' = ready - 1
    BY DEF CVTypeOK
  <2>6. ~Notifying /\ ~Notifying'
    BY <2>1, LeaderAlone DEF Notifying, CVTypeOK
  <2>7. IsFiniteSet(Woken) /\ Cardinality(Woken) \in Nat
    BY FS_CardinalityType DEF WakeOK
  <2>8. /\ IsFiniteSet(Woken')
        /\ Cardinality(Woken') = IF f \in Woken THEN Cardinality(Woken) - 1 ELSE Cardinality(Woken)
    BY <2>4, <2>7, FS_RemoveElement
  <2>9. waiters # <<>> => ready <= Cardinality(Woken)
    BY <2>6, <2>7 DEF WakeOK
  <2>10. waiters # <<>> => ready - 1 <= Cardinality(Woken')
    BY <2>5, <2>7, <2>8, <2>9
  <2>11. Cardinality(Woken') \in Nat
    BY <2>8, FS_CardinalityType
  <2> QED BY <2>5, <2>6, <2>8, <2>10, <2>11 DEF WakeOK
<1> QED BY <1>1, <1>2, <1>3, <1>4, <1>5, <1>6, <1>7, <1>8, <1>9, <1>10

\* One item more, and a notification about to be made for it.
LEMMA CVProduceStep ==
  ASSUME CVInv, NEW f \in Fibers, NEW b \in BOOLEAN, Produce(f, b)
  PROVE  CVInv'
<1> USE CVWaiterFacts DEF CVInv, Holding, CVFront, LockLabels, Produce
<1>1. CVTypeOK'
  <2>1. ready' \in 0..MaxReady
    BY MaxReadyAssumption DEF CVTypeOK
  <2> QED BY <2>1 DEF CVTypeOK
<1>2. CVQueueOK'
  BY DEF CVTypeOK, CVQueueOK, CVFrontOK, CVGrantOK, TargetOK, Leads
<1>3. CVFrontOK'
  BY DEF CVTypeOK, CVFrontOK, CVGrantOK, TargetOK, Leads
<1>4. CVGrantOK'
  BY DEF CVTypeOK, CVGrantOK, CVFrontOK, TargetOK, Leads
<1>5. CVReleaseOK'
  BY DEF CVTypeOK, CVReleaseOK, CVFrontOK, CVGrantOK, TargetOK, Leads
<1>6. TargetOK'
  BY DEF CVTypeOK, TargetOK, CVFrontOK, CVGrantOK, Leads
<1>7. WaitersOK'
  BY DEF CVTypeOK, WaitersOK, CVFrontOK, CVGrantOK, TargetOK, Leads
<1>8. CVOwnerOK'
  BY DEF CVTypeOK, CVOwnerOK, CVFrontOK, CVGrantOK, TargetOK, Leads
<1>9. BlockedOK'
  BY DEF CVTypeOK, BlockedOK, CVFrontOK, CVGrantOK, TargetOK, Leads
<1>10. WakeOK'
  <2>1. Woken' = Woken
    BY DEF CVTypeOK, CVFrontOK, TargetOK, WaitersOK, Leads, Woken, IsWoken
  <2>2. Leads(f)
    BY DEF Leads
  <2>3. ~Notifying /\ Notifying'
    BY <2>2, LeaderAlone DEF Notifying, CVTypeOK
  <2>4. IsFiniteSet(Woken) /\ Cardinality(Woken) \in Nat /\ ready \in Nat /\ ready' = ready + 1
    BY FS_CardinalityType DEF WakeOK, CVTypeOK
  <2>5. waiters # <<>> => ready <= Cardinality(Woken)
    BY <2>3, <2>4 DEF WakeOK
  <2>6. Cardinality(Woken') = Cardinality(Woken) /\ IsFiniteSet(Woken')
    BY <2>1, <2>4
  <2>7. waiters # <<>> => ready + 1 <= Cardinality(Woken) + 1
    BY <2>4, <2>5
  <2> QED BY <2>3, <2>4, <2>6, <2>7 DEF WakeOK
<1> QED BY <1>1, <1>2, <1>3, <1>4, <1>5, <1>6, <1>7, <1>8, <1>9, <1>10

\* Notify takes the oldest waiter, which has come to rest: the notifier holds the
\* lock.  The notification that was about to be made is now a fiber woken.
LEMMA CVNotifyStep ==
  ASSUME CVInv, NEW f \in Fibers, Notify(f)
  PROVE  CVInv'
<1> USE CVWaiterFacts DEF CVInv, Holding, CVFront, LockLabels, Notify
<1> DEFINE g == Head(waiters)
<1>a. /\ Len(waiters) \in Nat /\ Len(waiters) > 0 /\ g = waiters[1] /\ g \in Fibers
      /\ waiters' = Tail(waiters) /\ waiters' \in Seq(Fibers) /\ Len(waiters') = Len(waiters) - 1
      /\ \A i \in 1..Len(waiters') : waiters'[i] = waiters[i + 1] /\ i + 1 \in 1..Len(waiters)
  BY HeadTailProperties DEF CVTypeOK
<1>b. g \in notifiable
  BY <1>a DEF WaitersOK
<1> HIDE DEF g
<1>c. /\ notifiable' = notifiable \ {g}
      /\ target' = [target EXCEPT ![f] = g]
      /\ pc' = [pc EXCEPT ![f] = "slow_load"]
  BY <1>b DEF g
<1>d. Leads(f) /\ target[f] = NULL
  BY DEF Leads, TargetOK
<1>e. pc[g] = "blocked" /\ g # f /\ pc'[g] = "blocked" /\ pc'[f] = "slow_load"
  BY <1>a, <1>b, <1>c, <1>d, LeaderAlone DEF WaitersOK, CVTypeOK
<1>f. \A h \in Fibers : h # f => target[h] = NULL /\ target'[h] = NULL
  BY <1>c, <1>d, LeaderAlone DEF CVTypeOK
<1>g. target'[f] = g
  BY <1>c DEF CVTypeOK
<1>1. CVTypeOK'
  BY DEF CVTypeOK
<1>2. CVQueueOK'
  BY DEF CVTypeOK, CVQueueOK, CVFrontOK, CVGrantOK, TargetOK, Leads
<1>3. CVFrontOK'
  BY DEF CVTypeOK, CVFrontOK, CVGrantOK, TargetOK, Leads
<1>4. CVGrantOK'
  BY DEF CVTypeOK, CVGrantOK, CVFrontOK, TargetOK, Leads
<1>5. CVReleaseOK'
  BY DEF CVTypeOK, CVReleaseOK, CVFrontOK, CVGrantOK, TargetOK, Leads
<1>6. TargetOK'
  <2>1. \A i \in 1..Len(queue) : queue[i][1] # g
    BY <1>b, <1>d, <1>e DEF CVQueueOK, TargetOK, Leads
  <2> QED BY <1>c, <1>e, <1>f, <1>g, <2>1 DEF TargetOK
<1>7. WaitersOK'
  <2>1. \A i \in 1..Len(waiters') : waiters'[i] \in notifiable'
    <3> SUFFICES ASSUME NEW i \in 1..Len(waiters')
                 PROVE  waiters[i + 1] # g /\ waiters[i + 1] \in notifiable
      BY <1>a, <1>c
    <3>1. 1 \in 1..Len(waiters) /\ i + 1 # 1 /\ i + 1 \in 1..Len(waiters)
      BY <1>a
    <3> QED BY <1>a, <3>1 DEF WaitersOK
  <2>2. ASSUME NEW i \in 1..Len(waiters'), NEW j \in 1..Len(waiters'), waiters'[i] = waiters'[j]
        PROVE  i = j
    <3>1. i + 1 = j + 1
      BY <1>a, <2>2 DEF WaitersOK
    <3> QED BY <1>a, <3>1
  <2>3. ASSUME NEW h \in notifiable'
         PROVE  \E i \in 1..Len(waiters') : waiters'[i] = h
    <3>1. PICK i \in 1..Len(waiters) : waiters[i] = h
      BY <1>c, <2>3 DEF WaitersOK
    <3>2. i # 1
      BY <1>a, <1>c, <3>1
    <3>3. i - 1 \in 1..Len(waiters') /\ (i - 1) + 1 = i
      BY <1>a, <3>2
    <3> QED BY <1>a, <3>1, <3>3
  <2>4. \A h \in notifiable' : pc'[h] \in {"release", "release_disown", "release_cas",
           "release_unlink", "release_grant", "blocked"}
    <3>1. f \notin notifiable
      BY DEF WaitersOK
    <3> QED BY <1>c, <3>1 DEF WaitersOK, CVTypeOK
  <2> QED BY <2>1, <2>2, <2>3, <2>4 DEF WaitersOK
<1>8. CVOwnerOK'
  BY DEF CVTypeOK, CVOwnerOK, CVFrontOK, CVGrantOK, TargetOK, Leads
<1>9. BlockedOK'
  <2>1. SUFFICES ASSUME NEW h \in Fibers, pc'[h] = "blocked", h \notin notifiable'
               PROVE  \/ \E i \in 1..Len(queue) : queue[i] = WaitWaiter(h)
                      \/ \E k \in Fibers : target'[k] = h
    BY DEF BlockedOK
  <2>2. CASE h = g
    BY <1>g, <2>2
  <2>3. CASE h # g
    <3>1. pc[h] = "blocked" /\ h \notin notifiable
      BY <1>c, <1>e, <2>1, <2>3 DEF CVTypeOK
    <3>2. \A k \in Fibers : target[k] # h
      BY <1>d, <1>f, CVWaiterFacts
    <3> QED BY <3>1, <3>2 DEF BlockedOK
  <2> QED BY <2>2, <2>3
<1>10. WakeOK'
  <2>1. \A h \in Fibers : h # f => pc'[h] = pc[h] /\ pc[h] # "notify"
    BY <1>c, <1>d, LeaderAlone DEF CVTypeOK
  <2>2. Notifying /\ ~Notifying'
    BY <1>e, <2>1 DEF Notifying
  <2>3. Woken' = Woken \cup {g} /\ g \notin Woken
    BY <1>a, <1>b, <1>c, <1>e, <2>1 DEF Woken, IsWoken
  <2>4. IsFiniteSet(Woken) /\ Cardinality(Woken) \in Nat /\ ready \in Nat
    BY FS_CardinalityType DEF WakeOK, CVTypeOK
  <2>5. IsFiniteSet(Woken') /\ Cardinality(Woken') = Cardinality(Woken) + 1
    BY <2>3, <2>4, FS_AddElement
  <2>6. ready <= Cardinality(Woken) + 1
    BY <2>2, <2>4 DEF WakeOK
  <2> QED BY <2>2, <2>4, <2>5, <2>6 DEF WakeOK
<1> QED BY <1>1, <1>2, <1>3, <1>4, <1>5, <1>6, <1>7, <1>8, <1>9, <1>10

\* Nobody waits, so no wakeup is owed.
LEMMA CVNotifyNobodyStep ==
  ASSUME CVInv, NEW f \in Fibers, NotifyNobody(f)
  PROVE  CVInv'
<1> USE CVWaiterFacts DEF CVInv, Holding, CVFront, LockLabels, NotifyNobody, waitVars
<1>1. CVTypeOK'
  BY DEF CVTypeOK
<1>2. CVQueueOK'
  BY DEF CVTypeOK, CVQueueOK, CVFrontOK, CVGrantOK, TargetOK, Leads
<1>3. CVFrontOK'
  BY DEF CVTypeOK, CVFrontOK, CVGrantOK, TargetOK, Leads
<1>4. CVGrantOK'
  BY DEF CVTypeOK, CVGrantOK, CVFrontOK, TargetOK, Leads
<1>5. CVReleaseOK'
  BY DEF CVTypeOK, CVReleaseOK, CVFrontOK, CVGrantOK, TargetOK, Leads
<1>6. TargetOK'
  BY DEF CVTypeOK, TargetOK, CVFrontOK, CVGrantOK, Leads
<1>7. WaitersOK'
  BY DEF CVTypeOK, WaitersOK, CVFrontOK, CVGrantOK, TargetOK, Leads
<1>8. CVOwnerOK'
  BY DEF CVTypeOK, CVOwnerOK, CVFrontOK, CVGrantOK, TargetOK, Leads
<1>9. BlockedOK'
  BY DEF CVTypeOK, BlockedOK, CVFrontOK, CVGrantOK, TargetOK, Leads
<1>10. WakeOK'
  <2>1. Woken' = Woken
    BY DEF CVTypeOK, CVFrontOK, TargetOK, WaitersOK, Leads, Woken, IsWoken
  <2>2. IsFiniteSet(Woken')
    BY <2>1 DEF WakeOK
  <2>3. waiters' = <<>>
    OBVIOUS
  <2> QED BY <2>2, <2>3 DEF WakeOK
<1> QED BY <1>1, <1>2, <1>3, <1>4, <1>5, <1>6, <1>7, <1>8, <1>9, <1>10

\* AcquireSlow links the fiber's own waiter.
LEMMA CVLinkOwnStep ==
  ASSUME CVInv, NEW f \in Fibers, pc[f] = "slow_cas", target[f] = NULL,
         queue' = Append(queue, AcquireWaiter(f)), pc' = [pc EXCEPT ![f] = "queued"],
         UNCHANGED <<owner, acquired, callback, seen, clearing, waitVars>>
  PROVE  CVInv'
<1> USE CVWaiterFacts DEF CVInv, Holding, CVFront, LockLabels, waitVars
<1>a. /\ Len(queue) \in Nat /\ queue' \in Seq(Waiters)
      /\ Len(queue') = Len(queue) + 1
      /\ \A i \in 1..Len(queue) : queue'[i] = queue[i]
      /\ queue'[Len(queue) + 1] = AcquireWaiter(f)
      /\ \A i \in 1..Len(queue') : i \in 1..Len(queue) \/ i = Len(queue) + 1
      /\ 1..Len(queue) \subseteq 1..Len(queue')
      /\ Len(queue) + 1 \in 1..Len(queue')
      /\ Len(queue) > 0 => Len(queue') > 0 /\ queue'[1] = queue[1]
  BY AppendProperties DEF CVTypeOK
<1>b. pc'[f] = "queued" /\ \A g \in Fibers : g # f => pc'[g] = pc[g]
  BY DEF CVTypeOK
<1>c. \A g \in Fibers : Leads(g)' <=> Leads(g)
  BY <1>b DEF Leads
<1>d. \A i \in 1..Len(queue) : queue[i][1] # f
  BY DEF CVQueueOK, Leads
<1>1. CVTypeOK'
  BY <1>a DEF CVTypeOK
<1>2. CVQueueOK'
  <2>1. ASSUME NEW i \in 1..Len(queue')
        PROVE  \E g \in Fibers :
                 \/ queue'[i] = AcquireWaiter(g) /\ pc'[g] = "queued"
                 \/ queue'[i] = WaitWaiter(g) /\ pc'[g] = "blocked" /\ g \notin notifiable
                 \/ queue'[i][1] = g /\ Leads(g)'
    <3>1. CASE i = Len(queue) + 1
      BY <1>a, <1>b, <3>1
    <3>2. CASE i \in 1..Len(queue)
      BY <1>a, <1>b, <1>c, <3>2 DEF CVQueueOK
    <3> QED BY <1>a, <3>1, <3>2
  <2>2. \A i, j \in 1..Len(queue') : queue'[i][1] = queue'[j][1] => i = j
    BY <1>a, <1>d DEF CVQueueOK
  <2> QED BY <2>1, <2>2 DEF CVQueueOK
<1>3. CVFrontOK'
  BY <1>a, <1>b, <1>c DEF CVFrontOK
<1>4. CVGrantOK'
  BY <1>a, <1>b, <1>c DEF CVGrantOK
<1>5. CVReleaseOK'
  BY <1>a, <1>b DEF CVReleaseOK, CVFrontOK, Leads
<1>6. TargetOK'
  <2>1. \A g \in Fibers : target[g] # f
    BY DEF TargetOK
  <2> QED BY <1>a, <1>b, <2>1 DEF TargetOK, CVTypeOK
<1>7. WaitersOK'
  BY <1>b DEF WaitersOK
<1>8. CVOwnerOK'
  BY <1>b DEF CVOwnerOK
<1>9. BlockedOK'
  BY <1>a, <1>b DEF BlockedOK
<1>10. WakeOK'
  <2>1. Woken' = Woken
    BY <1>a, <1>b DEF Woken, IsWoken, CVFrontOK, Leads
  <2>2. Notifying => Notifying'
    BY <1>b DEF Notifying
  <2> QED BY <2>1, <2>2, WakeKept
<1> QED BY <1>1, <1>2, <1>3, <1>4, <1>5, <1>6, <1>7, <1>8, <1>9, <1>10

\* Notify links the waiter of the fiber that it has taken from the list of waiters.
LEMMA CVLinkOtherStep ==
  ASSUME CVInv, NEW f \in Fibers, pc[f] = "slow_cas", NEW g \in Fibers, target[f] = g,
         NEW l \in {"notify", "release"},
         queue' = Append(queue, WaitWaiter(g)), pc' = [pc EXCEPT ![f] = l],
         target' = [target EXCEPT ![f] = NULL],
         UNCHANGED <<owner, acquired, callback, seen, clearing, waiters, notifiable, all, ready>>
  PROVE  CVInv'
<1> USE CVWaiterFacts DEF CVInv, Holding, CVFront, LockLabels
<1>a. /\ Len(queue) \in Nat /\ queue' \in Seq(Waiters)
      /\ Len(queue') = Len(queue) + 1
      /\ \A i \in 1..Len(queue) : queue'[i] = queue[i]
      /\ queue'[Len(queue) + 1] = WaitWaiter(g)
      /\ \A i \in 1..Len(queue') : i \in 1..Len(queue) \/ i = Len(queue) + 1
      /\ 1..Len(queue) \subseteq 1..Len(queue')
      /\ Len(queue) + 1 \in 1..Len(queue')
      /\ Len(queue) > 0 => Len(queue') > 0 /\ queue'[1] = queue[1]
  BY AppendProperties DEF CVTypeOK
<1>b. /\ pc'[f] = l /\ \A h \in Fibers : h # f => pc'[h] = pc[h]
      /\ target'[f] = NULL /\ \A h \in Fibers : h # f => target'[h] = target[h]
  BY DEF CVTypeOK
<1>c. Leads(f) /\ Leads(f)' /\ \A h \in Fibers : Leads(h)' <=> Leads(h)
  BY <1>b DEF Leads
<1>d. g # f /\ pc[g] = "blocked" /\ g \notin notifiable /\ \A i \in 1..Len(queue) : queue[i][1] # g
  BY DEF TargetOK
<1>e. \A h \in Fibers : h # f => target[h] = NULL /\ target'[h] = NULL
  BY <1>b, <1>c, LeaderAlone
<1>1. CVTypeOK'
  BY <1>a DEF CVTypeOK
<1>2. CVQueueOK'
  <2>1. ASSUME NEW i \in 1..Len(queue')
        PROVE  \E h \in Fibers :
                 \/ queue'[i] = AcquireWaiter(h) /\ pc'[h] = "queued"
                 \/ queue'[i] = WaitWaiter(h) /\ pc'[h] = "blocked" /\ h \notin notifiable
                 \/ queue'[i][1] = h /\ Leads(h)'
    <3>1. CASE i = Len(queue) + 1
      BY <1>a, <1>b, <1>d, <3>1
    <3>2. CASE i \in 1..Len(queue)
      BY <1>a, <1>b, <1>c, <3>2 DEF CVQueueOK
    <3> QED BY <1>a, <3>1, <3>2
  <2>2. \A i, j \in 1..Len(queue') : queue'[i][1] = queue'[j][1] => i = j
    BY <1>a, <1>d DEF CVQueueOK
  <2> QED BY <2>1, <2>2 DEF CVQueueOK
<1>3. CVFrontOK'
  BY <1>a, <1>b, <1>c DEF CVFrontOK
<1>4. CVGrantOK'
  BY <1>a, <1>b, <1>c DEF CVGrantOK
<1>5. CVReleaseOK'
  BY <1>a, <1>b DEF CVReleaseOK, CVFrontOK, Leads
<1>6. TargetOK'
  BY <1>b, <1>e DEF TargetOK
<1>7. WaitersOK'
  BY <1>b DEF WaitersOK
<1>8. CVOwnerOK'
  BY <1>b DEF CVOwnerOK
<1>9. BlockedOK'
  <2> SUFFICES ASSUME NEW h \in Fibers, pc'[h] = "blocked", h \notin notifiable
               PROVE  \E i \in 1..Len(queue') : queue'[i] = WaitWaiter(h)
    BY DEF BlockedOK
  <2>1. CASE h = g
    BY <1>a, <2>1
  <2>2. CASE h # g
    BY <1>a, <1>b, <1>e, <2>2 DEF BlockedOK
  <2> QED BY <2>1, <2>2
<1>10. WakeOK'
  <2>1. Woken' = Woken
    BY <1>a, <1>b DEF Woken, IsWoken, CVFrontOK, Leads
  <2>2. Notifying => Notifying'
    BY <1>b DEF Notifying
  <2> QED BY <2>1, <2>2, WakeKept
<1> QED BY <1>1, <1>2, <1>3, <1>4, <1>5, <1>6, <1>7, <1>8, <1>9, <1>10

\* head_ has changed: AcquireSlow looks again.
LEMMA CVLinkRetryStep ==
  ASSUME CVInv, NEW f \in Fibers, pc[f] = "slow_cas", NEW l \in {"slow_cas", "fast_load"},
         l = "fast_load" => target[f] = NULL,
         seen' = [seen EXCEPT ![f] = HeadPtr], pc' = [pc EXCEPT ![f] = l],
         UNCHANGED <<queue, owner, acquired, callback, clearing, waitVars>>
  PROVE  CVInv'
<1> USE CVWaiterFacts DEF CVInv, Holding, CVFront, LockLabels, waitVars
<1>a. HeadPtr \in Waiters \cup {NULL}
  BY DEF CVTypeOK, HeadPtr
<1>b. pc'[f] = l /\ \A h \in Fibers : h # f => pc'[h] = pc[h]
  BY DEF CVTypeOK
<1>c. \A h \in Fibers : Leads(h)' <=> Leads(h)
  BY <1>b DEF Leads
<1>d. \A h \in Fibers : h # f => seen'[h] = seen[h]
  BY DEF CVTypeOK
<1>1. CVTypeOK'
  BY <1>a DEF CVTypeOK
<1>2. CVQueueOK'
  BY <1>b, <1>c DEF CVQueueOK
<1>3. CVFrontOK'
  BY <1>b, <1>c DEF CVFrontOK
<1>4. CVGrantOK'
  BY <1>b, <1>c DEF CVGrantOK
<1>5. CVReleaseOK'
  BY <1>b, <1>d DEF CVReleaseOK
<1>6. TargetOK'
  <2>1. \A g \in Fibers : target[g] # f
    BY DEF TargetOK
  <2> QED BY <1>b, <2>1 DEF TargetOK, CVTypeOK
<1>7. WaitersOK'
  BY <1>b DEF WaitersOK
<1>8. CVOwnerOK'
  BY <1>b DEF CVOwnerOK
<1>9. BlockedOK'
  BY <1>b DEF BlockedOK
<1>10. WakeOK'
  <2>1. Woken' = Woken
    BY <1>b DEF Woken, IsWoken
  <2>2. Notifying => Notifying'
    BY <1>b DEF Notifying
  <2> QED BY <2>1, <2>2, WakeKept
<1> QED BY <1>1, <1>2, <1>3, <1>4, <1>5, <1>6, <1>7, <1>8, <1>9, <1>10

\* The compare-and-swap of AcquireSlow, for the fiber itself or for another.
LEMMA CVLinkStep ==
  ASSUME CVInv, NEW f \in Fibers, Link(f)
  PROVE  CVInv'
<1> USE CVWaiterFacts DEF Link, SlowCas
<1>0. /\ pc[f] = "slow_cas" /\ target \in [Fibers -> Fibers \cup {NULL}]
      /\ pc \in [Fibers -> LockLabels \cup {"wait", "notify", "blocked"}]
  BY DEF CVInv, CVTypeOK
<1>1. CASE HeadPtr = seen[f] /\ target[f] = NULL
  <2>1. Linking(f) = AcquireWaiter(f) /\ AfterLinking(f) = "queued"
    BY <1>1 DEF Linking, AfterLinking
  <2>2. /\ pc' = [pc EXCEPT ![f] = "queued"] /\ seen' = seen
        /\ queue' = Append(queue, AcquireWaiter(f))
    BY <1>1, <2>1
  <2>3. target' = target
    BY <1>0, <1>1
  <2> QED BY <1>0, <1>1, <2>2, <2>3, CVLinkOwnStep DEF waitVars
<1>2. CASE HeadPtr = seen[f] /\ target[f] # NULL
  <2>1. /\ Linking(f) = WaitWaiter(target[f]) /\ AfterLinking(f) \in {"notify", "release"}
    BY <1>2 DEF Linking, AfterLinking
  <2>2. /\ pc' = [pc EXCEPT ![f] = AfterLinking(f)] /\ seen' = seen
        /\ queue' = Append(queue, WaitWaiter(target[f]))
    BY <1>2, <2>1
  <2>3. pc'[f] # "slow_cas"
    BY <1>0, <2>1, <2>2
  <2>4. target' = [target EXCEPT ![f] = NULL]
    BY <2>3
  <2>5. target[f] \in Fibers
    BY <1>0, <1>2
  <2> QED BY <1>0, <1>2, <2>1, <2>2, <2>4, <2>5, CVLinkOtherStep
<1>3. CASE HeadPtr # seen[f]
  <2>1. target[f] # NULL => HeadPtr # NULL
    <3> SUFFICES ASSUME target[f] # NULL PROVE HeadPtr # NULL
      OBVIOUS
    <3>1. Len(queue) > 0 /\ queue \in Seq(Waiters)
      BY DEF CVInv, CVFrontOK, Leads, CVTypeOK
    <3> QED BY <3>1 DEF HeadPtr
  <2>2. PICK l \in {"slow_cas", "fast_load"} :
          pc' = [pc EXCEPT ![f] = l] /\ (l = "fast_load" <=> HeadPtr = NULL)
    BY <1>0, <1>3
  <2>3. target' = target
    BY <1>0, <2>1, <2>2
  <2> QED BY <1>0, <1>3, <2>1, <2>2, <2>3, CVLinkRetryStep DEF waitVars
<1> QED BY <1>1, <1>2, <1>3

\* The late store of acquired = false changes nothing that the invariant speaks of.
LEMMA CVClearStep ==
  ASSUME CVInv, NEW w \in Waiters, Clear(w)
  PROVE  CVInv'
<1> USE DEF CVInv, Clear, ReleaseClear, waitVars
<1>1. CVTypeOK' /\ CVQueueOK' /\ CVFrontOK'
  BY DEF CVTypeOK, CVQueueOK, CVFrontOK, Leads
<1>4. CVGrantOK' /\ CVReleaseOK'
  BY DEF CVGrantOK, CVReleaseOK, Leads
<1>2. TargetOK' /\ WaitersOK' /\ CVOwnerOK' /\ BlockedOK'
  BY DEF TargetOK, WaitersOK, CVOwnerOK, BlockedOK
<1>3. WakeOK'
  BY DEF WakeOK, Woken, IsWoken, Notifying
<1> QED BY <1>1, <1>2, <1>3, <1>4

\* A condition variable that nobody has used satisfies the invariant.
LEMMA CVInitInv ==
  CVInit => CVInv
<1> SUFFICES ASSUME CVInit PROVE CVInv
  OBVIOUS
<1> USE CVWaiterFacts DEF CVInit, Init
<1>1. CVTypeOK
  BY MaxReadyAssumption DEF CVTypeOK, LockLabels
<1>2. CVQueueOK /\ CVFrontOK /\ CVGrantOK /\ CVReleaseOK
  BY DEF CVQueueOK, CVFrontOK, CVGrantOK, CVReleaseOK, Leads, CVFront, Holding
<1>3. TargetOK /\ WaitersOK /\ CVOwnerOK /\ BlockedOK
  BY DEF TargetOK, WaitersOK, CVOwnerOK, BlockedOK
<1>4. Woken = {}
  BY DEF Woken, IsWoken
<1>5. WakeOK
  BY <1>4, FS_EmptySet DEF WakeOK
<1> QED BY <1>1, <1>2, <1>3, <1>5 DEF CVInv

\* The invariant is inductive.
LEMMA CVNextInv ==
  CVInv /\ [CVNext]_cvVars => CVInv'
<1> SUFFICES ASSUME CVInv, [CVNext]_cvVars PROVE CVInv'
  OBVIOUS
<1>1. ASSUME NEW f \in Fibers, WaitStep(f) PROVE CVInv'
  BY <1>1, CVWaitStep, CVProceedStep, CVProduceStep, CVNotifyStep, CVNotifyNobodyStep, CVLinkStep
     DEF WaitStep
<1>2. ASSUME NEW f \in Fibers, LockStep(f) PROVE CVInv'
  BY <1>2, CVFastLoadStep, CVFastCasStep, CVFastOwnStep, CVSlowLoadStep, CVUnblockedStep,
     CVReleaseLoadStep, CVReleaseDisownStep, CVReleaseCasStep, CVReleaseCasSpuriousStep,
     CVReleaseUnlinkStep, CVReleaseGrantStep, CVReturnStep DEF LockStep
<1>3. CASE UNCHANGED cvVars
  <2> USE <1>3 DEF cvVars, lockVars, waitVars, CVInv
  <2>1. CVTypeOK' /\ CVQueueOK' /\ CVFrontOK'
    BY DEF CVTypeOK, CVQueueOK, CVFrontOK, Leads
  <2>4. CVGrantOK' /\ CVReleaseOK'
    BY DEF CVGrantOK, CVReleaseOK, Leads
  <2>2. TargetOK' /\ WaitersOK' /\ CVOwnerOK' /\ BlockedOK'
    BY DEF TargetOK, WaitersOK, CVOwnerOK, BlockedOK
  <2>3. WakeOK'
    BY DEF WakeOK, Woken, IsWoken, Notifying
  <2> QED BY <2>1, <2>2, <2>3, <2>4
<1> QED BY <1>1, <1>2, <1>3, CVClearStep DEF CVNext

\* The inductive invariant of lock.h with Wait and Notify holds in every reachable
\* state, for any set of fibers and any bound on the items.
THEOREM CVInvariant == CVSpec => []CVInv
BY CVInitInv, CVNextInv, PTL DEF CVSpec

\* CHECK(lock_->OwnedByCurrentSchedulerContext()) holds in the wait condition, in
\* Notify() and in the callback that Notify() runs, however many fibers wait.
THEOREM CVMutualExclusion == CVSpec => []CVOwnsLock
<1>1. CVInv => CVOwnsLock
  BY DEF CVInv, CVTypeOK, CVFrontOK, CVOwnerOK, Leads, CVFront, Holding, CVOwnsLock
<1> QED BY <1>1, CVInvariant, PTL

\* A fiber never stays in ConditionVariable::Wait for an item that is there while
\* nobody holds or asks for the lock, however many fibers wait and items there are.
THEOREM CVNoLostWakeup == CVSpec => []NoLostWakeup
<1>1. CVInv => NoLostWakeup
  <2> SUFFICES ASSUME CVInv, queue = <<>>, ready > 0, NEW f \in Fibers, pc[f] = "blocked"
               PROVE  FALSE
    BY DEF NoLostWakeup
  <2>1. \A g \in Fibers : ~Leads(g) /\ target[g] = NULL
    BY DEF CVInv, CVFrontOK, Leads
  <2>2. \A g \in Fibers : pc[g] = "blocked" => g \in notifiable
    BY <2>1, CVWaiterFacts DEF CVInv, BlockedOK
  <2>3. Woken = {} /\ ~Notifying
    BY <2>1, <2>2 DEF Woken, IsWoken, Notifying, Leads, CVFront
  <2>4. waiters # <<>>
    BY <2>2 DEF CVInv, WaitersOK
  <2>5. ready <= 0
    BY <2>3, <2>4, FS_EmptySet DEF CVInv, WakeOK
  <2> QED BY <2>5 DEF CVInv, CVTypeOK
<1> QED BY <1>1, CVInvariant, PTL

=============================================================================

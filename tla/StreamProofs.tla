---------------------------- MODULE StreamProofs ----------------------------
(***************************************************************************)
(* Proofs about Concurrent.tla, for any number of elements and of values:  *)
(* at the end nothing runs, no value is lost, the first failure is the one *)
(* that is reported, and a fiber is reused only when it was left.          *)
(*                                                                         *)
(* Proofs about Streams.tla, for any pipeline that the types of its        *)
(* eventuals allow, of any length: questions and answers alternate on      *)
(* every stream, and no stream is left open.                               *)
(***************************************************************************)
EXTENDS Concurrent, Streams, SequenceTheorems, WellFoundedInduction, TLAPS

\* The list of fibers grows by at most one for each element.
FibersForElements ==
  /\ ingress = "body" => element >= 1
  /\ \A s \in Fibers :
       s > (IF ingress = "body" THEN element - 1 ELSE element) => fiber[s] = "none"

\* A thread is only in a fiber that was started, and the fiber that is about to be
\* started is the one CreateOrReuseFiber returned.
FibersInUse ==
  /\ \A s \in inUse : fiber[s] \in {"running", "done"}
  /\ ingress = "start" => fiber[starting] = "created"

\* upstream_done_ is set when upstream has answered its last call.
UpstreamReturned == upstreamDone <=> ingress = "returned"

\* What stopped_or_error_ holds is the first failure or stop.
FirstKept == stoppedOrError = first /\ first # <<Upstream, "ended">>

\* The egress hands nothing down after it has reported the end.
NothingAfterReport == reported # None => downstream \in {"done", "draining", "ended", "raised"}

IInv ==
  /\ TypeOK
  /\ FibersForElements
  /\ FibersInUse
  /\ UpstreamReturned
  /\ FirstKept
  /\ NothingAfterReport
  /\ QuietAtTheEnd
  /\ ValuesDelivered
  /\ FirstRaisedReported
  /\ ReusedFibersLeft

-----------------------------------------------------------------------------
(* CreateOrReuseFiber finds a fiber.                                       *)

LEMMA LeastNat ==
  ASSUME NEW T, T \subseteq Nat, T # {}
  PROVE  \E x \in T : \A y \in T : x <= y
<1> DEFINE R == OpToRel(<, Nat)
<1>1. IsWellFoundedOn(R, Nat)
  BY NatLessThanWellFounded
<1> HIDE DEF R
<1>2. PICK x \in T : \A y \in T : ~(<<y, x>> \in R)
  BY <1>1, WFMin
<1>3. ASSUME NEW y \in T PROVE x <= y
  <2>1. ~(<<y, x>> \in R) /\ y \in Nat /\ x \in Nat
    BY <1>2
  <2>2. SUFFICES ~(y < x)
    BY <2>1
  <2> QED BY <2>1 DEF R, OpToRel
<1> QED BY <1>3

\* There is a fiber that can be reused or created for every element that upstream
\* emits, and it is at most the element-th of the list.
LEMMA FirstFreeExists ==
  ASSUME TypeOK, FibersForElements, ingress = "body"
  PROVE  /\ FirstFree \in Fibers /\ FirstFree <= element
         /\ Reusable(FirstFree) \/ fiber[FirstFree] = "none"
<1> DEFINE Free == {s \in Fibers : Reusable(s) \/ fiber[s] = "none"}
           P(s) == /\ Reusable(s) \/ fiber[s] = "none"
                   /\ \A t \in 1..(s - 1) : ~Reusable(t) /\ fiber[t] # "none"
<1>1. element \in Fibers /\ element \in Free /\ element \in Nat
  BY ConcurrentAssumption DEF TypeOK, FibersForElements, Fibers
<1>2. PICK s \in Free : \A t \in Free : s <= t
  <2>1. Free \subseteq Nat /\ Free # {}
    BY <1>1 DEF Fibers
  <2> HIDE DEF Free
  <2> QED BY <2>1, LeastNat
<1>3. s \in Fibers /\ P(s)
  <2>1. s \in Fibers
    BY <1>2
  <2>2. ASSUME NEW t \in 1..(s - 1) PROVE t \notin Free /\ t \in Fibers
    BY <1>2, <2>1, ConcurrentAssumption DEF Fibers
  <2> QED BY <1>2, <2>1, <2>2
<1>4. FirstFree = CHOOSE r \in Fibers : P(r)
  BY DEF FirstFree
<1> HIDE DEF P
<1>5. FirstFree \in Fibers /\ P(FirstFree)
  BY <1>3, <1>4
<1>6. FirstFree <= element
  <2>1. ~(element < FirstFree)
    <3>1. SUFFICES ASSUME element < FirstFree PROVE FALSE
      OBVIOUS
    <3>2. element \in 1..(FirstFree - 1)
      BY <1>1, <1>5, <3>1, ConcurrentAssumption DEF Fibers
    <3>3. ~Reusable(element) /\ fiber[element] # "none"
      BY <1>5, <3>2 DEF P
    <3> QED BY <1>1, <3>3
  <2> QED BY <1>1, <1>5, <2>1, ConcurrentAssumption DEF Fibers
<1> QED BY <1>5, <1>6 DEF P

-----------------------------------------------------------------------------
(* The types, and where ingress and fibers are.                            *)

\* What the actions of downstream and of the interrupt leave alone.
LEMMA DownstreamSide ==
  ASSUME Ask \/ DownstreamDone \/ EgressWait \/ EgressRaise \/ EgressValue \/ EgressEnd
         \/ Done \/ WaitForDone \/ Trigger \/ Interrupt
  PROVE  UNCHANGED <<ingress, element, starting, fiber, inUse, yields, upstreamDone, stoppedOrError,
                     first, fiberRaised, emitted>>
BY DEF Ask, DownstreamDone, EgressWait, EgressRaise, EgressValue, EgressEnd, Done, WaitForDone,
       Trigger, Interrupt, fiberVars, sharedVars, history

LEMMA TypeStep ==
  ASSUME TypeOK, FibersForElements, [Next]_vars
  PROVE  TypeOK'
<1> USE ConcurrentAssumption DEF TypeOK, fiberVars, sharedVars, history, NotifyEgress, NotifyDone
<1>1. CASE UpstreamStep
  BY <1>1 DEF UpstreamStep, Body, UpstreamEnds
<1>2. CASE BeginIngress
  BY <1>2 DEF BeginIngress
<1>3. CASE CreateOrReuseFiber
  <2>1. FirstFree \in Fibers
    BY <1>3, FirstFreeExists DEF CreateOrReuseFiber
  <2>2. /\ ingress' \in {"done", "start"} /\ (ingress' = "start" => starting' = FirstFree)
        /\ starting' \in {starting, FirstFree}
        /\ fiber' \in {fiber, [fiber EXCEPT ![FirstFree] = "created"]}
        /\ triggered' \subseteq triggered
        /\ yields' \in {yields, [yields EXCEPT ![FirstFree] = 0]}
        /\ fibersDone' \in BOOLEAN
        /\ UNCHANGED <<element, inUse, values, upstreamDone, downstreamDone, interrupted,
                       stoppedOrError, downstream, waitForDone, trigger, handler, history>>
    BY <1>3 DEF CreateOrReuseFiber
  <2> QED BY <2>1, <2>2
<1>4. CASE StartFiber
  BY <1>4 DEF StartFiber
<1>5. CASE IngressEpilogue
  BY <1>5 DEF IngressEpilogue, NotifyIfDone, Raise, Outcomes, Upstream
<1>6. ASSUME NEW s \in Fibers, FiberYield(s) PROVE TypeOK'
  <2>1. values' \in Seq(Nat)
    BY <1>6, AppendProperties DEF FiberYield
  <2> QED BY <1>6, <2>1 DEF FiberYield
<1>7. ASSUME NEW s \in Fibers, NEW o \in {"ended", "fail", "stop"}, FiberEpilogue(s, o) PROVE TypeOK'
  <2>1. /\ fibersDone' \in BOOLEAN
        /\ fiberRaised' \in BOOLEAN
    BY <1>7 DEF FiberEpilogue, InterruptFibers, Raise
  <2>2. first' \in Outcomes /\ stoppedOrError' \in Outcomes
    BY <1>7 DEF FiberEpilogue, Raise, Outcomes
  <2>3. downstream' \in {downstream, "acquire"} /\ waitForDone' \in {waitForDone, "acquire"}
    BY <1>7 DEF FiberEpilogue, NotifyIfDone
  <2>4. fiber' = [fiber EXCEPT ![s] = "done"] /\ triggered' \in SUBSET Fibers
    BY <1>7 DEF FiberEpilogue, InterruptFibers, Unfinished
  <2> QED BY <1>7, <2>1, <2>2, <2>3, <2>4 DEF FiberEpilogue
<1>8. ASSUME NEW s \in Fibers, FiberReturns(s) PROVE TypeOK'
  BY <1>8 DEF FiberReturns
<1>9. CASE Ask \/ DownstreamDone \/ EgressWait
  BY <1>9 DEF Ask, DownstreamDone, EgressWait
<1>14. CASE WaitForDone
  BY <1>14 DEF WaitForDone
<1>15. CASE Trigger
  BY <1>15 DEF Trigger
<1>10. CASE EgressRaise \/ EgressEnd
  BY SMTT(20), <1>10 DEF EgressRaise, EgressEnd, Outcomes, Upstream
<1>11. CASE EgressValue
  <2>1. values' \in Seq(Nat) /\ received' \in Seq(Nat)
    BY <1>11, HeadTailProperties, AppendProperties DEF EgressValue
  <2> QED BY <1>11, <2>1 DEF EgressValue
<1>12. CASE Done \/ Interrupt
  <2>1. fibersDone' \in BOOLEAN /\ downstreamDone' \in BOOLEAN /\ interrupted' \in BOOLEAN
    BY <1>12 DEF Done, Interrupt, InterruptFibers
  <2>2. triggered' \in SUBSET Fibers
    BY <1>12 DEF Done, Interrupt, InterruptFibers, Unfinished
  <2>3. /\ downstream' \in {downstream, "acquire", "draining"}
        /\ waitForDone' \in {waitForDone, "acquire"} /\ handler' \in {handler, "invoked"}
    BY <1>12 DEF Done, Interrupt, NotifyIfDone
  <2> QED BY <1>12, <2>1, <2>2, <2>3 DEF Done, Interrupt
<1>13. CASE UNCHANGED vars
  BY <1>13 DEF vars
<1> QED BY <1>1, <1>2, <1>3, <1>4, <1>5, <1>6, <1>7, <1>8, <1>9, <1>10, <1>11, <1>12, <1>13,
<1>14, <1>15 DEF Next, IngressStep, EgressStep, FiberEnds

\* A fiber is created only when it is free, started only when it was created.
LEMMA FibersStep ==
  ASSUME IInv, [Next]_vars
  PROVE  FibersForElements' /\ FibersInUse' /\ UpstreamReturned' /\ ReusedFibersLeft'
<1> USE ConcurrentAssumption DEF IInv, TypeOK, fiberVars, sharedVars, FibersForElements, FibersInUse,
                                 UpstreamReturned, ReusedFibersLeft, Unfinished
<1> DEFINE Goal == FibersForElements /\ FibersInUse /\ UpstreamReturned /\ ReusedFibersLeft
<1>1. CASE UpstreamStep
  <2>1. CASE Body
    BY <2>1 DEF Body, Fibers
  <2>2. ASSUME NEW outcome \in {"ended", "fail", "stop"}, UpstreamEnds(outcome)
        PROVE  Goal'
    BY <2>2 DEF UpstreamEnds
  <2> QED BY ONLY <1>1, <2>1, <2>2 DEF UpstreamStep
<1>2. CASE BeginIngress
  BY <1>2 DEF BeginIngress
<1>3. CASE CreateOrReuseFiber
  <2>1. CASE ingress' = "done"
    BY <1>3, <2>1 DEF CreateOrReuseFiber, Fibers
  <2>2. CASE ingress' = "start"
    <3>1. /\ FirstFree \in Fibers /\ FirstFree <= element
          /\ Reusable(FirstFree) \/ fiber[FirstFree] = "none"
      BY <1>3, FirstFreeExists DEF CreateOrReuseFiber
    <3>2. /\ ingress = "body" /\ starting' = FirstFree /\ fibersDone' = FALSE
          /\ fiber' = [fiber EXCEPT ![FirstFree] = "created"]
          /\ UNCHANGED <<element, inUse, upstreamDone>>
      BY <1>3, <2>2 DEF CreateOrReuseFiber
    <3>3. FirstFree \notin inUse
      BY <3>1 DEF Reusable
    <3>4. FibersForElements'
      BY <2>2, <3>1, <3>2 DEF Fibers
    <3> QED BY <2>2, <3>1, <3>2, <3>3, <3>4
  <2> QED BY <1>3, <2>1, <2>2 DEF CreateOrReuseFiber
<1>4. CASE StartFiber
  BY <1>4 DEF StartFiber, Fibers
<1>5. CASE IngressEpilogue
  BY <1>5 DEF IngressEpilogue
<1>6. ASSUME NEW s \in Fibers, FiberYield(s) PROVE Goal'
  BY <1>6 DEF FiberYield
<1>7. ASSUME NEW s \in Fibers, NEW o \in {"ended", "fail", "stop"}, FiberEpilogue(s, o) PROVE Goal'
  <2>1. /\ fiber[s] = "running" /\ fiber' = [fiber EXCEPT ![s] = "done"]
        /\ fibersDone' <=> Unfinished(fiber') = {}
        /\ UNCHANGED <<ingress, element, starting, inUse, upstreamDone>>
    BY <1>7 DEF FiberEpilogue, InterruptFibers
  <2> QED BY <2>1 DEF Fibers
<1>8. ASSUME NEW s \in Fibers, FiberReturns(s) PROVE Goal'
  BY <1>8 DEF FiberReturns
<1>9. CASE Ask \/ DownstreamDone \/ EgressStep \/ WaitForDone \/ Trigger \/ Interrupt
  <2>1. fibersDone' => fibersDone \/ Unfinished(fiber') = {}
    BY <1>9 DEF Ask, DownstreamDone, EgressStep, EgressWait, EgressRaise, EgressValue, EgressEnd,
                Done, WaitForDone, Trigger, Interrupt, InterruptFibers
  <2>2. UNCHANGED <<ingress, element, starting, fiber, inUse, upstreamDone>>
    BY <1>9, DownstreamSide DEF EgressStep
  <2> QED BY <2>1, <2>2
<1>10. CASE UNCHANGED vars
  BY <1>10 DEF vars
<1> QED BY <1>1, <1>2, <1>3, <1>4, <1>5, <1>6, <1>7, <1>8, <1>9, <1>10
           DEF Next, IngressStep, FiberEnds

-----------------------------------------------------------------------------
(* What is reported at the end.                                            *)

\* Once upstream and the fibers are done, and that has been reported, none of them
\* does anything.
LEMMA QuietSteps ==
  ASSUME IInv, upstreamDone, Unfinished(fiber) = {}, [Next]_vars
  PROVE  UNCHANGED <<ingress, fiber, upstreamDone, first, stoppedOrError, emitted>>
<1> USE DEF IInv, UpstreamReturned, Unfinished, fiberVars, sharedVars, history
<1>1. ~UpstreamStep /\ ~IngressStep
  BY
     DEF UpstreamStep, Body, UpstreamEnds, IngressStep, BeginIngress, CreateOrReuseFiber,
         StartFiber,
         IngressEpilogue
<1>2. \A s \in Fibers : ~FiberYield(s) /\ ~FiberEnds(s)
  BY DEF FiberYield, FiberEnds, FiberEpilogue
<1>3. CASE Ask \/ DownstreamDone \/ EgressStep \/ WaitForDone \/ Trigger \/ Interrupt
  BY <1>3, DownstreamSide DEF EgressStep
<1>4. CASE \E s \in Fibers : FiberReturns(s)
  BY <1>4 DEF FiberReturns
<1>5. CASE UNCHANGED vars
  BY <1>5 DEF vars
<1> QED BY <1>1, <1>2, <1>3, <1>4, <1>5 DEF Next

LEMMA FirstStep ==
  ASSUME IInv, [Next]_vars
  PROVE  FirstKept'
<1> USE DEF IInv, FirstKept, fiberVars, sharedVars, history
<1>1. CASE UpstreamStep
  BY <1>1 DEF UpstreamStep, Body, UpstreamEnds
<1>2. CASE BeginIngress \/ CreateOrReuseFiber \/ StartFiber
  BY <1>2 DEF BeginIngress, CreateOrReuseFiber, StartFiber
<1>3. CASE IngressEpilogue
  BY <1>3 DEF IngressEpilogue, Raise
<1>4. ASSUME NEW s \in Fibers, FiberYield(s) \/ FiberReturns(s) PROVE FirstKept'
  BY <1>4 DEF FiberYield, FiberReturns
<1>5. ASSUME NEW s \in Fibers, NEW o \in {"ended", "fail", "stop"}, FiberEpilogue(s, o)
      PROVE FirstKept'
  BY <1>5 DEF FiberEpilogue, Raise
<1>6. CASE Ask \/ DownstreamDone \/ EgressStep \/ WaitForDone \/ Trigger \/ Interrupt
  BY <1>6, DownstreamSide DEF EgressStep
<1>7. CASE UNCHANGED vars
  BY <1>7 DEF vars
<1> QED BY <1>1, <1>2, <1>3, <1>4, <1>5, <1>6, <1>7 DEF Next, IngressStep, FiberEnds

\* The end is told by the egress, which reports it, and by WaitForDone, only when
\* all is done.
LEMMA EndTold ==
  ASSUME IInv, [Next]_vars
  PROVE  \/ EgressRaise
         \/ EgressEnd
         \/ WaitForDone /\ downstreamDone /\ AllDone /\ UNCHANGED reported
         \/ /\ UNCHANGED reported
            /\ downstream' \in {"ended", "raised"} => downstream' = downstream
            /\ downstream \in {"done", "draining", "ended", "raised"} =>
                 downstream' \in {"done", "draining", "ended", "raised"}
<1> USE DEF fiberVars, sharedVars, history, NotifyIfDone, NotifyEgress
<1>1. CASE UpstreamStep
  BY <1>1 DEF UpstreamStep, Body, UpstreamEnds
<1>2. CASE BeginIngress \/ CreateOrReuseFiber \/ StartFiber
  BY <1>2 DEF BeginIngress, CreateOrReuseFiber, StartFiber
<1>3. CASE IngressEpilogue
  BY <1>3 DEF IngressEpilogue
<1>4. CASE \E s \in Fibers : FiberYield(s) \/ FiberEnds(s) \/ FiberReturns(s)
  BY <1>4 DEF FiberYield, FiberReturns, FiberEnds, FiberEpilogue
<1>5. CASE Ask \/ DownstreamDone \/ EgressWait \/ EgressValue \/ Done
  BY <1>5 DEF Ask, DownstreamDone, EgressWait, EgressValue, Done
<1>6. CASE WaitForDone
  BY <1>6 DEF WaitForDone
<1>7. CASE Trigger \/ Interrupt
  BY <1>7 DEF Trigger, Interrupt
<1>8. CASE UNCHANGED vars
  BY <1>8 DEF vars
<1> QED BY <1>1, <1>2, <1>3, <1>4, <1>5, <1>6, <1>7, <1>8 DEF Next, IngressStep, EgressStep

LEMMA ReportStep ==
  ASSUME IInv, [Next]_vars
  PROVE  NothingAfterReport' /\ QuietAtTheEnd' /\ FirstRaisedReported'
<1>1. AllDone => upstreamDone /\ ingress = "returned" /\ Unfinished(fiber) = {}
  BY DEF AllDone, IInv, UpstreamReturned, ReusedFibersLeft
<1>2. CASE EgressRaise \/ EgressEnd
  <2>1. /\ UNCHANGED <<ingress, fiber, upstreamDone, first>> /\ AllDone
        /\ downstream' \in {"raised", "done"}
        /\ reported' = IF stoppedOrError = None THEN <<Upstream, "ended">> ELSE stoppedOrError
    BY <1>2, DownstreamSide DEF EgressRaise, EgressEnd
  <2> QED BY <1>1, <2>1 DEF NothingAfterReport, QuietAtTheEnd, FirstRaisedReported, IInv, FirstKept,
                            Unfinished
<1>3. CASE WaitForDone /\ downstreamDone /\ AllDone /\ UNCHANGED reported
  <2>1. UNCHANGED <<ingress, fiber, upstreamDone, first, reported>> /\ downstream' = "ended"
    BY <1>3, DownstreamSide DEF WaitForDone
  <2> QED BY <1>1, <1>3, <2>1 DEF NothingAfterReport, QuietAtTheEnd, FirstRaisedReported, IInv,
                                  Unfinished
<1>4. CASE /\ UNCHANGED reported
           /\ downstream' \in {"ended", "raised"} => downstream' = downstream
           /\ downstream \in {"done", "draining", "ended", "raised"} =>
                downstream' \in {"done", "draining", "ended", "raised"}
  <2>1. CASE downstream \in {"ended", "raised"} \/ reported # None
    <3>1. upstreamDone /\ ingress = "returned" /\ Unfinished(fiber) = {}
      BY <2>1 DEF IInv, QuietAtTheEnd
    <3>2. UNCHANGED <<ingress, fiber, upstreamDone, first>>
      BY <3>1, QuietSteps
    <3> QED BY <1>4, <2>1, <3>1, <3>2 DEF NothingAfterReport, QuietAtTheEnd, FirstRaisedReported,
                                          IInv, Unfinished
  <2>2. CASE ~(downstream \in {"ended", "raised"} \/ reported # None)
    BY <1>4, <2>2 DEF NothingAfterReport, QuietAtTheEnd, FirstRaisedReported
  <2> QED BY <2>1, <2>2
<1> QED BY <1>2, <1>3, <1>4, EndTold

-----------------------------------------------------------------------------
(* The values.                                                             *)

\* The values 1, 2, ... in the order in which they were made.
Numbered(n) == [i \in 1..n |-> i]

LEMMA NumberedAppend ==
  ASSUME NEW n \in Nat
  PROVE  /\ Numbered(n) \in Seq(Nat) /\ Len(Numbered(n)) = n
         /\ Append(Numbered(n), n + 1) = Numbered(n + 1)
<1>1. Numbered(n) \in Seq(Nat) /\ Len(Numbered(n)) = n
  BY DEF Numbered
<1>2. Numbered(n + 1) \in Seq(Nat) /\ Len(Numbered(n + 1)) = n + 1
  BY DEF Numbered
<1>3. /\ Append(Numbered(n), n + 1) \in Seq(Nat) /\ Len(Append(Numbered(n), n + 1)) = n + 1
      /\ \A i \in 1..n : Append(Numbered(n), n + 1)[i] = Numbered(n)[i]
      /\ Append(Numbered(n), n + 1)[n + 1] = n + 1
  BY <1>1, AppendProperties
<1>4. \A i \in 1..(n + 1) : Append(Numbered(n), n + 1)[i] = Numbered(n + 1)[i]
  BY <1>3 DEF Numbered
<1> QED BY <1>1, <1>2, <1>3, <1>4, SeqEqual

\* A value that is written goes to the end of what is to be read.
LEMMA ConcatAppend ==
  ASSUME NEW S, NEW s \in Seq(S), NEW t \in Seq(S), NEW e \in S
  PROVE  s \o Append(t, e) = Append(s \o t, e)
<1>1. /\ Append(t, e) = t \o <<e>> /\ <<e>> \in Seq(S)
      /\ s \o t \in Seq(S)
  BY AppendIsConcat, ConcatProperties
<1>2. Append(s \o t, e) = (s \o t) \o <<e>>
  BY <1>1, AppendIsConcat
<1> QED BY <1>1, <1>2, ConcatAssociative

\* A value that is read moves from the one side to the other.
LEMMA MoveHead ==
  ASSUME NEW S, NEW s \in Seq(S), NEW t \in Seq(S), t # <<>>
  PROVE  Append(s, Head(t)) \o Tail(t) = s \o t
<1>1. /\ Head(t) \in S /\ Tail(t) \in Seq(S) /\ <<Head(t)>> \in Seq(S)
  BY HeadTailProperties
<1>2. t = <<Head(t)>> \o Tail(t)
  <2>1. /\ Len(t) \in Nat \ {0} /\ Head(t) = t[1]
        /\ Len(Tail(t)) = Len(t) - 1
        /\ \A i \in 1..(Len(t) - 1) : Tail(t)[i] = t[i + 1]
    BY EmptySeq, HeadTailProperties
  <2>2. /\ <<Head(t)>> \o Tail(t) \in Seq(S)
        /\ Len(<<Head(t)>> \o Tail(t)) = Len(t)
        /\ \A i \in 1..Len(t) : (<<Head(t)>> \o Tail(t))[i] = IF i <= 1 THEN t[1] ELSE Tail(t)[i - 1]
    BY <1>1, <2>1, ConcatProperties
  <2>3. ASSUME NEW i \in 1..Len(t) PROVE (<<Head(t)>> \o Tail(t))[i] = t[i]
    <3>1. CASE i = 1
      BY <2>2, <3>1
    <3>2. CASE i # 1
      <4>1. i - 1 \in 1..(Len(t) - 1) /\ (i - 1) + 1 = i /\ ~(i <= 1)
        BY <2>1, <3>2
      <4> QED BY <2>1, <2>2, <4>1
    <3> QED BY <3>1, <3>2
  <2> QED BY <2>2, <2>3, SeqEqual
<1>3. Append(s, Head(t)) = s \o <<Head(t)>>
  BY <1>1, AppendIsConcat
<1>4. (s \o <<Head(t)>>) \o Tail(t) = s \o (<<Head(t)>> \o Tail(t))
  BY <1>1, ConcatAssociative
<1> QED BY <1>2, <1>3, <1>4

\* A value goes from the fiber that made it to the end of values_, and from its
\* beginning downstream.
LEMMA ValuesStep ==
  ASSUME IInv, [Next]_vars
  PROVE  ValuesDelivered'
<1> USE DEF fiberVars, sharedVars, history
<1>1. received \in Seq(Nat) /\ values \in Seq(Nat) /\ emitted \in Nat
  BY DEF IInv, TypeOK
<1>2. received \o values = Numbered(emitted)
  BY DEF IInv, ValuesDelivered, Numbered
<1>3. ASSUME NEW s \in Fibers, FiberYield(s) PROVE ValuesDelivered'
  <2>1. /\ values' = Append(values, emitted + 1) /\ emitted' = emitted + 1
        /\ UNCHANGED <<received, reported>> /\ fiber[s] = "running"
    BY <1>3 DEF FiberYield
  <2>2. received' \o values' = Numbered(emitted')
    <3>1. \A e \in Nat : received \o Append(values, e) = Append(received \o values, e)
      BY SMTT(20), <1>1, ConcatAppend
    <3>2. received \o Append(values, emitted + 1) = Append(received \o values, emitted + 1)
      BY <1>1, <3>1
    <3> QED BY <1>1, <1>2, <2>1, <3>2, NumberedAppend
  <2>3. reported = None
    BY <2>1 DEF IInv, QuietAtTheEnd, Unfinished
  <2> QED BY <2>1, <2>2, <2>3 DEF ValuesDelivered, Numbered, None, Upstream
<1>4. CASE EgressValue
  <2>1. /\ values # <<>> /\ values' = Tail(values) /\ received' = Append(received, Head(values))
        /\ UNCHANGED <<emitted, reported>> /\ downstream = "acquire"
    BY <1>4 DEF EgressValue
  <2>2. received' \o values' = Numbered(emitted)
    BY <1>1, <1>2, <2>1, MoveHead
  <2>3. reported = None
    BY <2>1 DEF IInv, NothingAfterReport
  <2> QED BY <2>1, <2>2, <2>3 DEF ValuesDelivered, Numbered, None, Upstream
<1>5. CASE EgressRaise
  <2>1. UNCHANGED <<values, received, emitted>> /\ reported' = first /\ first # <<Upstream, "ended">>
    BY <1>5 DEF EgressRaise, IInv, FirstKept
  <2> QED BY <1>2, <2>1 DEF ValuesDelivered, Numbered
<1>6. CASE EgressEnd
  <2>1. UNCHANGED <<values, received, emitted>> /\ values = <<>>
    BY <1>6 DEF EgressEnd
  <2>2. received = Numbered(emitted)
    BY <1>1, <1>2, <2>1, ConcatEmptySeq
  <2>3. Len(received) = emitted
    BY <1>1, <2>2, NumberedAppend
  <2> QED BY <1>2, <2>1, <2>3 DEF ValuesDelivered, Numbered
<1>7. CASE UNCHANGED <<values, received, emitted, reported>>
  BY <1>7 DEF ValuesDelivered, IInv
<1>8. \/ \E s \in Fibers : FiberYield(s)
      \/ EgressValue \/ EgressRaise \/ EgressEnd
      \/ UNCHANGED <<values, received, emitted, reported>>
  <2>1. CASE UpstreamStep
    BY <2>1 DEF UpstreamStep, Body, UpstreamEnds
  <2>2. CASE IngressStep
    BY <2>2 DEF IngressStep, BeginIngress, CreateOrReuseFiber, StartFiber, IngressEpilogue
  <2>3. CASE \E s \in Fibers : FiberEnds(s) \/ FiberReturns(s)
    BY <2>3 DEF FiberReturns, FiberEnds, FiberEpilogue
  <2>4. CASE Ask \/ DownstreamDone \/ EgressWait \/ Done \/ WaitForDone \/ Trigger \/ Interrupt
    BY <2>4 DEF Ask, DownstreamDone, EgressWait, Done, WaitForDone, Trigger, Interrupt
  <2>5. CASE UNCHANGED vars
    BY <2>5 DEF vars
  <2> QED BY <2>1, <2>2, <2>3, <2>4, <2>5 DEF Next, EgressStep
<1> QED BY <1>3, <1>4, <1>5, <1>6, <1>7, <1>8

-----------------------------------------------------------------------------

\* For any number of elements and values: the inductive invariant holds of every
\* execution of Concurrent.
THEOREM ConcurrentInvariant == Spec => []IInv
<1>1. Init => IInv
  <2> SUFFICES ASSUME Init PROVE IInv
    OBVIOUS
  <2>1. TypeOK
    <3>1. /\ element \in 0..MaxElements /\ emitted \in Nat
          /\ yields \in [Fibers -> 0..MaxYields]
      BY ConcurrentAssumption DEF Init
    <3>2. /\ fiber \in [Fibers -> {"none", "created", "running", "done"}]
          /\ inUse \in SUBSET Fibers /\ triggered \in SUBSET Fibers
          /\ starting \in Fibers \cup {0}
      BY DEF Init
    <3>3. /\ {upstreamDone, downstreamDone, fibersDone, interrupted, trigger} \subseteq BOOLEAN
          /\ fiberRaised \in BOOLEAN
      BY DEF Init
    <3>4. values \in Seq(Nat) /\ received \in Seq(Nat)
      BY DEF Init
    <3>5. stoppedOrError \in Outcomes /\ first \in Outcomes /\ reported \in Outcomes
      BY DEF Init, Outcomes, None
    <3> QED BY <3>1, <3>2, <3>3, <3>4, <3>5 DEF Init, TypeOK
  <2>2. FibersForElements /\ FibersInUse /\ UpstreamReturned
    BY DEF Init, FibersForElements, FibersInUse, UpstreamReturned
  <2>3. FirstKept /\ NothingAfterReport /\ QuietAtTheEnd /\ FirstRaisedReported
    BY DEF Init, FirstKept, NothingAfterReport, QuietAtTheEnd, FirstRaisedReported, None
  <2>4. ValuesDelivered
    <3>1. <<>> \o <<>> = [n \in 1..0 |-> n]
      OBVIOUS
    <3> QED BY <3>1 DEF Init, ValuesDelivered, None
  <2>5. ReusedFibersLeft
    BY DEF Init, ReusedFibersLeft
  <2> QED BY <2>1, <2>2, <2>3, <2>4, <2>5 DEF IInv
<1>2. IInv /\ [Next]_vars => IInv'
  BY TypeStep, FibersStep, FirstStep, ReportStep, ValuesStep DEF IInv
<1> QED BY <1>1, <1>2, PTL DEF Spec

\* For any number of elements and values: when downstream is told the end,
\* upstream has answered its last call and no fiber runs or is about to.
THEOREM ConcurrentQuietAtTheEnd == Spec => []QuietAtTheEnd
<1>1. IInv => QuietAtTheEnd
  BY DEF IInv
<1> QED BY <1>1, ConcurrentInvariant, PTL

\* For any number of elements and values: downstream gets every value once, in
\* the order in which the fibers pushed them on values_.
THEOREM ConcurrentValuesDelivered == Spec => []ValuesDelivered
<1>1. IInv => ValuesDelivered
  BY DEF IInv
<1> QED BY <1>1, ConcurrentInvariant, PTL

\* For any number of elements and values: stopped_or_error_ keeps the first
\* failure or stop, and no stream that has one ends on its own.
THEOREM ConcurrentFirstRaisedReported == Spec => []FirstRaisedReported
<1>1. IInv => FirstRaisedReported
  BY DEF IInv
<1> QED BY <1>1, ConcurrentInvariant, PTL

\* For any number of elements and values: CreateOrReuseFiber resets a fiber only
\* when its last thread has left, and fibers_done_ is not true while one runs.
THEOREM ConcurrentReusedFibersLeft == Spec => []ReusedFibersLeft
<1>1. IInv => ReusedFibersLeft
  BY DEF IInv
<1> QED BY <1>1, ConcurrentInvariant, PTL

-----------------------------------------------------------------------------
(* The inductive invariant of Streams.                                      *)

Src == CHOOSE s \in DOMAIN pipe : SourceIsAt(pipe, s)

Str == AreStreams(pipe)

\* Stream s is the one that the continuation at k is given by Begin.
IsAbove(s, k) == s \in Str /\ s < k /\ \A t \in Str : t <= s \/ t >= k

Owes(s) == asked[s] \in {"Next", "Done"}

\* A TakeLast whose stream has ended gives what it kept; one that was told Done
\* before that gives nothing, and leaves its stream as it is.
Emptying(s) == s \in Str /\ pipe[s].kind = "TakeLast" /\ memory[s].ended

CalledOff(s) == s \in Str /\ pipe[s].kind = "TakeLast" /\ ~memory[s].ended

\* Every stream before k has ended, or is above a TakeLast that was called off.
ClosedAbove(k) ==
  \A s \in Str : s < k =>
    asked[s] = "Over" \/ \E u \in Str : s < u /\ u < k /\ CalledOff(u)

\* The calls that work on a question, and those that are on their way with an answer.
Asking == {"Next", "Done", "InnerBegin", "InnerNext", "InnerDone", "InnerEnded"}
Giving == {"Body", "Ended"}

\* The call is below stream s, or s has it.
Reached(s) == s < signal.at \/ (s = signal.at /\ signal.call \in Asking)

\* A member of the continuations: only what matters to the protocol has a type.
Members(r) ==
  [i : {r.i}, data : {r.data}, ended : BOOLEAN, adapted : {r.adapted},
   tail : {"Ended", "Fail", "Stop"}, done : BOOLEAN]

MembersOK ==
  /\ DOMAIN memory = DOMAIN pipe
  /\ \A k \in DOMAIN pipe : memory[k] \in Members(memory[k])

\* A continuation asks the stream that is next above it.
LinksOK ==
  /\ DOMAIN stream = DOMAIN pipe
  /\ \A k \in DOMAIN pipe : stream[k] = 0 \/ IsAbove(stream[k], k)

\* Until the source begins nobody was asked; Begin hands on the stream next above.
StartOK ==
  \/ signal.call \in {"Start", "Begin"}
  \/ signal.call \in {"Fail", "Stop"} /\ signal.at <= Src
  => /\ \A s \in Str : asked[s] = "No" /\ ~Emptying(s)
     /\ signal.call = "Start" => signal.at <= Src
     /\ signal.call = "Begin" => signal.at > Src /\ IsAbove(signal.arg, signal.at)

\* All the streams from the call on owe an answer, and none of those before it.
AnswersOwed == \A s \in Str : Owes(s) <=> s >= signal.at

\* Unless the streams are being called off, all that owe an answer were asked for
\* a value.
ValueAsked == \A s \in Str : s >= signal.at => asked[s] = "Next"

\* Done stops at a TakeLast: the streams from it on were asked for a value whenever
\* the call is above it.
DoneStops ==
  \A t \in Str :
    pipe[t].kind = "TakeLast" /\ (t > signal.at \/ (t = signal.at /\ signal.call # "Done")) =>
      \A s \in Str : s >= t => asked[s] = "Next"

\* No stream that is over is asked again: the call stays below a TakeLast that
\* gives what it kept.
StaysBelow ==
  /\ \A s \in Str : Emptying(s) => Reached(s) /\ ClosedAbove(s)
  /\ signal.call # "Ended" =>
       \A s \in Str : asked[s] = "Over" => \E u \in Str : s < u /\ Emptying(u) /\ Reached(u)

\* While questions go up and answers go down.
TalkOK ==
  signal.call \in Asking \cup Giving =>
    /\ AnswersOwed /\ StaysBelow /\ DoneStops
    /\ signal.call \in Asking => signal.at \in Str
    /\ signal.call \in Giving => signal.at > Src
    /\ signal.call \in Asking \ {"Next", "Done"} => pipe[signal.at].kind = "FlatMap"
    /\ signal.call \in {"Next", "InnerBegin", "InnerNext", "Body"} => ValueAsked
    /\ signal.call = "InnerEnded" => ValueAsked \/ memory[signal.at].done
    /\ signal.call = "InnerDone" => memory[signal.at].done
    /\ signal.call = "Body" => \A s \in Str : IsAbove(s, signal.at) => asked[s] = "No"
    /\ signal.call = "Ended" => ClosedAbove(signal.at)

CallOK ==
  /\ signal.call \in {"None", "Start", "Fail", "Stop", "Begin"} \cup Asking \cup Giving
  /\ signal.call # "None" => signal.at \in DOMAIN pipe /\ result.call = "None"
  /\ asked \in [DOMAIN pipe -> {"No", "Next", "Done", "Over"}]

StreamsInv ==
  /\ SourceIsAt(pipe, Src) /\ MembersOK /\ LinksOK
  /\ CallOK /\ StartOK /\ TalkOK /\ NoStreamLeftOpen

-----------------------------------------------------------------------------
(* What a step may do to the conversation.                                  *)

\* What the place of a continuation says about its neighbours.
LEMMA Places ==
  ASSUME SourceIsAt(pipe, Src), NEW p \in DOMAIN pipe
  PROVE  /\ p \in Nat /\ Src \in Nat /\ Src \in DOMAIN pipe /\ Src \in Str
         /\ pipe[p].kind \in Sources <=> p = Src
         /\ pipe[p].kind \in ValueKinds => p < Src
         /\ pipe[p].kind \in StreamToStream \cup StreamToValue => p > Src
         /\ pipe[p].kind = "Adaptor" => p # Src /\ (pipe[p].of = "Task" <=> p < Src)
         /\ pipe[p].kind \notin StreamToValue => p + 1 \in DOMAIN pipe
         /\ pipe[p].kind \in StreamToValue => \A s \in DOMAIN pipe : s <= p
         /\ \A s \in Str : s \in DOMAIN pipe /\ s \in Nat /\ s >= Src
<1> DEFINE n == Len(pipe)
           S == Src
           Fits(s) == /\ pipe[s].kind \in Sources <=> s = S
                      /\ pipe[s].kind \in ValueKinds => s < S
                      /\ pipe[s].kind \in StreamToStream \cup StreamToValue => s > S
                      /\ pipe[s].kind = "Adaptor" => s # S /\ (pipe[s].of = "Task" <=> s < S)
                      /\ pipe[s].kind \in StreamToValue <=> s = n
                      /\ pipe[s].kind \in StreamKinds => s >= S
<1>1. n \in Nat /\ DOMAIN pipe = 1..n /\ S \in 1..(n - 1)
  BY DEF SourceIsAt
<1>2. \A s \in 1..n : Composes(pipe, s, S)
  BY DEF SourceIsAt
<1> HIDE DEF n, S
<1>3. ASSUME NEW s \in 1..n PROVE Fits(s)
  <2> DEFINE k == pipe[s].kind
  <2>1. /\ s < S => k \in ValueKinds \/ (k = "Adaptor" /\ pipe[s].of = "Task")
        /\ s = S => k \in Sources
        /\ s > S /\ s < n => k \in StreamToStream \/ (k = "Adaptor" /\ pipe[s].of # "Task")
        /\ s > S /\ s = n => k \in StreamToValue
    BY <1>2 DEF Composes, n
  <2> HIDE DEF k
  <2>2. s < S \/ s = S \/ (s > S /\ s < n) \/ (s > S /\ s = n)
    BY <1>1
  <2>3. /\ s = S => ~(s < S) /\ ~(s > S) /\ s # n
        /\ s < S => ~(s > S) /\ s # n
        /\ s >= S <=> ~(s < S)
    BY <1>1
  <2>4. CASE s < S
    BY <2>1, <2>3, <2>4 DEF k, Sources, StreamKinds, ValueKinds, StreamToStream, StreamToValue
  <2>5. CASE s = S
    BY <2>1, <2>3, <2>5 DEF k, Sources, StreamKinds, ValueKinds, StreamToStream, StreamToValue
  <2>6. CASE s > S /\ s < n
    BY <1>1, <2>1, <2>6 DEF k, Sources, StreamKinds, ValueKinds, StreamToStream, StreamToValue
  <2>7. CASE s > S /\ s = n
    BY <1>1, <2>1, <2>7 DEF k, Sources, StreamKinds, ValueKinds, StreamToStream, StreamToValue
  <2> HIDE DEF Fits
  <2> QED BY <2>2, <2>4, <2>5, <2>6, <2>7
<1>4. S \in Str /\ \A s \in Str : s \in DOMAIN pipe /\ s \in Nat /\ s >= S
  <2>1. S \in DOMAIN pipe /\ pipe[S].kind \in StreamKinds
    BY <1>1, <1>3 DEF StreamKinds
  <2>2. \A s \in Str : s \in DOMAIN pipe /\ pipe[s].kind \in StreamKinds
    BY DEF Str, AreStreams
  <2> QED BY <1>1, <1>3, <2>1, <2>2 DEF Str, AreStreams
<1>5. Fits(p)
  BY <1>1, <1>3
<1> QED BY <1>1, <1>4, <1>5 DEF S

\* A type-erased continuation and the one behind its adaptor.
LEMMA Erasures ==
  ASSUME SourceIsAt(pipe, Src), NEW p \in DOMAIN pipe, pipe[p].kind \in ErasedKinds
  PROVE  /\ After(pipe, p) \in DOMAIN pipe /\ After(pipe, p) > p + 1
         /\ After(pipe, p) - 1 \in DOMAIN pipe /\ pipe[After(pipe, p) - 1].kind = "Adaptor"
         /\ pipe[p].kind = "Task" => After(pipe, p) <= Src
         /\ pipe[p].kind = "Generator" => After(pipe, p) > Src
         /\ pipe[p].kind = "Transformer" =>
              /\ \A t \in Str : t < p \/ t >= After(pipe, p)
              /\ After(pipe, p) > Src
<1> DEFINE k == After(pipe, p)
<1>1. Len(pipe) \in Nat /\ DOMAIN pipe = 1..Len(pipe) /\ p \in 1..Len(pipe)
  BY DEF SourceIsAt
<1>2. Encloses(pipe, p, Src)
  BY DEF SourceIsAt
<1>3. pipe[p].kind = "Transformer" => p > Src /\ p \in Nat /\ Src \in Nat
  BY Places DEF StreamToStream
<1>4. /\ k <= Len(pipe) /\ pipe[k - 1].kind = "Adaptor"
      /\ pipe[p].kind = "Task" => k <= Src
      /\ pipe[p].kind = "Generator" => k > Src
      /\ pipe[p].kind = "Transformer" => \A t \in Str : t < p \/ t >= k
  BY <1>2 DEF Encloses, Str
<1>5. k \in Nat /\ k > p + 1
  BY <1>1, <1>2 DEF Encloses, After
<1> HIDE DEF k
<1>6. k \in DOMAIN pipe /\ k - 1 \in DOMAIN pipe
  BY <1>1, <1>4, <1>5
<1>7. pipe[p].kind = "Transformer" => k > Src
  BY <1>1, <1>3, <1>5
<1> QED BY <1>4, <1>5, <1>6, <1>7 DEF k

\* A step that keeps what the invariant says of the continuations, whatever it says
\* to whom.
Keeps ==
  /\ pipe' = pipe /\ MembersOK' /\ LinksOK'
  /\ \A k \in DOMAIN pipe :
       memory'[k].ended = memory[k].ended /\ (memory[k].done => memory'[k].done)

\* With the pipeline stay the source, the streams, and what TakeLasts have reached.
LEMMA KeepsFacts ==
  ASSUME SourceIsAt(pipe, Src), MembersOK, Keeps
  PROVE  /\ Src' = Src /\ Str' = Str /\ SourceIsAt(pipe, Src)'
         /\ \A s, k : IsAbove(s, k)' <=> IsAbove(s, k)
         /\ \A s : Emptying(s)' <=> Emptying(s)
         /\ \A s : CalledOff(s)' <=> CalledOff(s)
<1>1. pipe' = pipe /\ \A k \in DOMAIN pipe : memory'[k].ended = memory[k].ended
  BY DEF Keeps
<1>2. Src' = Src /\ Str' = Str
  BY <1>1 DEF Src, Str
<1>3. SourceIsAt(pipe, Src)'
  BY <1>1, <1>2
<1>4. \A s \in Str : s \in DOMAIN pipe
  BY DEF Str, AreStreams
<1>5. \A s, k : IsAbove(s, k)' <=> IsAbove(s, k)
  BY <1>2 DEF IsAbove
<1>6. /\ \A s : Emptying(s)' <=> Emptying(s)
      /\ \A s : CalledOff(s)' <=> CalledOff(s)
  BY <1>1, <1>2, <1>4 DEF Emptying, CalledOff
<1> QED BY <1>2, <1>3, <1>5, <1>6

\* A question to the stream above.
LEMMA AskMove ==
  ASSUME StreamsInv, Keeps, NEW b, IsAbove(b, Here), NEW call \in {"Next", "Done"},
         Send(call, b, 0), call = "Next" => ValueAsked,
         signal.call = "Body" \/ (signal.call \in Asking /\ ~Emptying(Here)),
         call = "Done" => pipe[Here].kind # "TakeLast"
  PROVE  StreamsInv' /\ InTurn
<1>1. /\ SourceIsAt(pipe, Src) /\ MembersOK /\ LinksOK /\ CallOK /\ TalkOK
      /\ signal.call \in Asking \cup Giving /\ signal.call # "Ended" /\ Here = signal.at
  BY DEF StreamsInv, Giving, Asking, Here
<1>2. Here \in DOMAIN pipe /\ result.call = "None"
  BY <1>1 DEF CallOK, Asking, Giving
<1>3. /\ Here \in Nat /\ Src \in Nat
      /\ \A s \in Str : s \in DOMAIN pipe /\ s \in Nat /\ s >= Src
  BY <1>1, <1>2, Places
<1>4. /\ b \in Str /\ b < Here /\ \A t \in Str : t <= b \/ t >= Here
  BY DEF IsAbove
<1>5. AnswersOwed /\ StaysBelow /\ DoneStops
  BY <1>1 DEF TalkOK
<1>6. asked[b] \in {"No", "Over"}
  BY <1>1, <1>3, <1>4, <1>5 DEF AnswersOwed, Owes, CallOK
<1>7. \A u \in Str : Emptying(u) => u <= b
  <2> SUFFICES ASSUME NEW u \in Str, Emptying(u) PROVE u <= b
    OBVIOUS
  <2>1. u < Here \/ (u = Here /\ signal.call \in Asking)
    BY <1>1, <1>5 DEF StaysBelow, Reached
  <2>2. u # Here
    BY <1>1, <1>3, <2>1 DEF Asking
  <2> QED BY <1>3, <1>4, <2>1, <2>2
<1>8. asked[b] = "No"
  <2> SUFFICES ASSUME asked[b] = "Over" PROVE FALSE
    BY <1>6
  <2>1. PICK u \in Str : b < u /\ Emptying(u)
    BY <1>1, <1>4, <1>5 DEF StaysBelow
  <2> QED BY <1>3, <1>4, <1>7, <2>1
<1>9. /\ signal' = [call |-> call, at |-> b, arg |-> 0] /\ pipe' = pipe /\ result' = result
      /\ asked' = [asked EXCEPT ![b] = call]
  BY DEF Send, Noted
<1>10. asked' \in [DOMAIN pipe -> {"No", "Next", "Done", "Over"}]
       /\ asked'[b] = call /\ \A s \in Str : s # b => asked'[s] = asked[s]
  BY <1>1, <1>3, <1>4, <1>9 DEF CallOK
<1>11. signal'.call = call /\ signal'.at = b
  BY <1>9
<1>12. /\ Src' = Src /\ Str' = Str /\ SourceIsAt(pipe, Src)'
       /\ \A s : Emptying(s)' <=> Emptying(s)
       /\ \A s : CalledOff(s)' <=> CalledOff(s)
  BY <1>1, KeepsFacts
<1>13. MembersOK' /\ LinksOK'
  BY DEF Keeps
<1> HIDE DEF Here, Src, Str
<1>14. CallOK'
  BY <1>2, <1>3, <1>4, <1>9, <1>10, <1>11 DEF CallOK, Asking
<1>15. StartOK'
  BY <1>11 DEF StartOK
<1>16. NoStreamLeftOpen'
  BY <1>2, <1>9 DEF NoStreamLeftOpen
<1>17. AnswersOwed'
  BY <1>1, <1>3, <1>4, <1>5, <1>8, <1>10, <1>11, <1>12 DEF AnswersOwed, Owes
<1>18. \A s : ClosedAbove(s) /\ s <= b /\ s \in Nat => ClosedAbove(s)'
  BY <1>3, <1>4, <1>10, <1>12 DEF ClosedAbove
<1>19. StaysBelow'
  <2>1. \A s \in Str : Emptying(s) => Reached(s)' /\ ClosedAbove(s)'
    BY <1>3, <1>4, <1>5, <1>7, <1>11, <1>18 DEF StaysBelow, Reached, Asking
  <2>2. \A s \in Str : asked'[s] = "Over" => \E u \in Str : s < u /\ Emptying(u) /\ Reached(u)'
    BY <1>1, <1>3, <1>4, <1>5, <1>7, <1>10, <1>11 DEF StaysBelow, Reached, Asking
  <2> QED BY <1>11, <1>12, <2>1, <2>2 DEF StaysBelow
<1>20. call = "Next" => ValueAsked'
  BY <1>1, <1>3, <1>4, <1>10, <1>11, <1>12 DEF ValueAsked
<1>21. DoneStops'
  <2> SUFFICES ASSUME NEW t \in Str, pipe[t].kind = "TakeLast", t > b, NEW s \in Str, s >= t
               PROVE  asked[s] = "Next" /\ s # b
    BY <1>3, <1>4, <1>9, <1>10, <1>11, <1>12, <1>20 DEF DoneStops, ValueAsked
  <2>1. t >= Here /\ s >= Here /\ s # b
    BY <1>2, <1>3, <1>4
  <2>2. CASE signal.call = "Body"
    BY <1>1, <1>3, <2>1, <2>2 DEF TalkOK, ValueAsked, Giving
  <2>3. CASE signal.call \in Asking /\ t = Here
    <3>1. call = "Next"
      BY <2>3
    <3> QED BY <1>1, <2>1, <3>1 DEF ValueAsked
  <2>4. CASE t # Here
    BY <1>1, <1>3, <1>5, <2>1, <2>4 DEF DoneStops
  <2> QED BY <2>2, <2>3, <2>4
<1>22. TalkOK'
  BY <1>4, <1>10, <1>11, <1>12, <1>17, <1>19, <1>20, <1>21 DEF TalkOK, Asking, Giving
<1>23. InTurn
  BY <1>8, <1>11 DEF InTurn
<1> QED BY <1>12, <1>13, <1>14, <1>15, <1>16, <1>22, <1>23 DEF StreamsInv


\* What every move starts from.
LEMMA MoveFacts ==
  ASSUME StreamsInv, Keeps, signal.call # "None"
  PROVE  /\ Here \in DOMAIN pipe /\ Here \in Nat /\ Here = signal.at /\ result.call = "None"
         /\ Src \in Nat /\ Src \in Str
         /\ \A s \in Str : s \in DOMAIN pipe /\ s \in Nat /\ s >= Src
         /\ asked \in [DOMAIN pipe -> {"No", "Next", "Done", "Over"}]
         /\ pipe' = pipe /\ Src' = Src /\ Str' = Str /\ SourceIsAt(pipe, Src)'
         /\ MembersOK' /\ LinksOK'
         /\ \A s, k : IsAbove(s, k)' <=> IsAbove(s, k)
         /\ \A s : Emptying(s)' <=> Emptying(s)
         /\ \A s : CalledOff(s)' <=> CalledOff(s)
<1>1. SourceIsAt(pipe, Src) /\ MembersOK /\ CallOK
  BY DEF StreamsInv
<1>2. /\ Here \in DOMAIN pipe /\ Here = signal.at /\ result.call = "None"
      /\ asked \in [DOMAIN pipe -> {"No", "Next", "Done", "Over"}]
  BY <1>1 DEF CallOK, Here
<1>3. pipe' = pipe /\ MembersOK' /\ LinksOK'
  BY DEF Keeps
<1> QED BY <1>1, <1>2, <1>3, Places, KeepsFacts

\* An answer to the continuation that comes next.
Following(q) ==
  /\ q \in DOMAIN pipe /\ q \in Nat /\ q > Here
  /\ \A t \in Str : t <= Here \/ t >= q
  /\ Here \in Str => q = Here + 1

\* What an answer does to the history: only the stream that gave it changes.
LEMMA AnswerFacts ==
  ASSUME StreamsInv, Keeps, signal.call # "None", NEW q, Following(q), NEW x,
         NEW call \in {"Body", "Ended", "Fail", "Stop"}, Send(call, q, x)
  PROVE  /\ signal'.call = call /\ signal'.at = q /\ result' = result
         /\ asked' \in [DOMAIN pipe -> {"No", "Next", "Done", "Over"}]
         /\ \A s \in Str : s # Here => asked'[s] = asked[s]
         /\ Here \in Str => asked'[Here] = IF call = "Body" THEN "No" ELSE "Over"
         /\ pipe[q - 1].kind \in StreamKinds => q - 1 = Here /\ Here \in Str
<1>1. /\ Here \in DOMAIN pipe /\ Here \in Nat
      /\ asked \in [DOMAIN pipe -> {"No", "Next", "Done", "Over"}]
      /\ \A s \in Str : s \in DOMAIN pipe /\ s \in Nat
  BY MoveFacts
<1>2. q \in Nat /\ q > Here /\ (Here \in Str => q = Here + 1) /\ q \in DOMAIN pipe
  BY DEF Following
<1>3. Len(pipe) \in Nat /\ DOMAIN pipe = 1..Len(pipe)
  BY DEF StreamsInv, SourceIsAt
<1>4. q - 1 \in DOMAIN pipe
  BY <1>1, <1>2, <1>3
<1>5. ASSUME pipe[q - 1].kind \in StreamKinds PROVE q - 1 = Here /\ Here \in Str
  <2>1. q - 1 \in Str
    BY <1>4, <1>5 DEF Str, AreStreams
  <2>2. q - 1 <= Here
    BY <1>1, <1>2, <2>1 DEF Following
  <2> QED BY <1>1, <1>2, <2>1, <2>2
<1>6. Here \in Str => pipe[q - 1].kind \in StreamKinds /\ q > 1
  BY <1>1, <1>2, <1>3 DEF Str, AreStreams
<1>7. /\ signal'.call = call /\ signal'.at = q /\ result' = result
      /\ asked' = Noted(call, q)
  BY DEF Send
<1>8. q > 1 /\ call \notin {"Next", "Done", "Begin"}
  BY <1>1, <1>2, <1>3
<1>9. CASE Here \in Str
  <2>1. asked' = [asked EXCEPT ![Here] = IF call = "Body" THEN "No" ELSE "Over"]
    BY <1>2, <1>5, <1>6, <1>7, <1>8, <1>9 DEF Noted
  <2> QED BY <1>1, <1>5, <1>7, <1>9, <2>1
<1>10. CASE Here \notin Str
  <2>1. asked' = asked
    BY <1>5, <1>7, <1>8, <1>10 DEF Noted
  <2> QED BY <1>1, <1>5, <1>7, <1>10, <2>1
<1> QED BY <1>9, <1>10

\* A value for the continuation below.
LEMMA GiveMove ==
  ASSUME StreamsInv, Keeps, NEW q, Following(q), NEW x, Send("Body", q, x),
         signal.call = "Body" \/ (signal.call \in {"Next", "InnerNext"})
  PROVE  StreamsInv' /\ InTurn
<1>1. /\ TalkOK /\ signal.call \in Asking \cup Giving /\ signal.call # "Ended"
      /\ signal.call # "None"
  BY DEF StreamsInv, Giving, Asking
<1> DEFINE p == Here
<1>2. /\ p \in DOMAIN pipe /\ p \in Nat /\ p = signal.at /\ result.call = "None"
      /\ Src \in Nat /\ \A s \in Str : s \in DOMAIN pipe /\ s \in Nat /\ s >= Src
      /\ pipe' = pipe /\ Src' = Src /\ Str' = Str /\ SourceIsAt(pipe, Src)'
      /\ MembersOK' /\ LinksOK'
  BY <1>1, MoveFacts
<1>3. /\ \A s : Emptying(s)' <=> Emptying(s)
      /\ \A s : CalledOff(s)' <=> CalledOff(s)
      /\ \A s, k : IsAbove(s, k)' <=> IsAbove(s, k)
  BY <1>1, MoveFacts
<1>4. /\ signal'.call = "Body" /\ signal'.at = q /\ result' = result
      /\ asked' \in [DOMAIN pipe -> {"No", "Next", "Done", "Over"}]
      /\ \A s \in Str : s # p => asked'[s] = asked[s]
      /\ p \in Str => asked'[p] = "No"
      /\ pipe[q - 1].kind \in StreamKinds => q - 1 = p /\ p \in Str
  BY <1>1, AnswerFacts
<1>5. /\ q \in DOMAIN pipe /\ q \in Nat /\ q > p
      /\ \A t \in Str : t <= p \/ t >= q
      /\ p \in Str => q = p + 1
  BY DEF Following
<1>6. AnswersOwed /\ StaysBelow /\ ValueAsked /\ q > Src
  BY <1>1, <1>2, <1>5 DEF TalkOK, Asking, Giving
<1>7. \A s \in Str : s = p => asked[p] = "Next"
  BY <1>2, <1>6 DEF ValueAsked
<1> HIDE DEF p
<1>8. CallOK' /\ StartOK' /\ NoStreamLeftOpen'
  BY <1>2, <1>4, <1>5 DEF CallOK, Giving, StartOK, NoStreamLeftOpen
<1>9. AnswersOwed'
  <2> SUFFICES ASSUME NEW s \in Str PROVE asked'[s] \in {"Next", "Done"} <=> s >= q
    BY <1>2, <1>4 DEF AnswersOwed, Owes
  <2>1. asked[s] \in {"Next", "Done"} <=> s >= p
    BY <1>2, <1>6 DEF AnswersOwed, Owes
  <2> QED BY <1>2, <1>4, <1>5, <2>1
<1>10. ValueAsked'
  BY <1>2, <1>4, <1>5, <1>6 DEF ValueAsked
<1>11. \A s \in Str : IsAbove(s, q)' => asked'[s] = "No"
  <2> SUFFICES ASSUME NEW s \in Str, IsAbove(s, q) PROVE asked'[s] = "No"
    BY <1>3
  <2>1. CASE p \in Str
    BY <1>2, <1>4, <1>5, <2>1 DEF IsAbove
  <2>2. CASE p \notin Str
    <3>1. signal.call = "Body"
      BY <1>1, <1>2, <2>2 DEF TalkOK, Asking
    <3>2. s # p /\ IsAbove(s, p)
      BY <1>2, <1>5, <2>2 DEF IsAbove
    <3> QED BY <1>1, <1>2, <1>4, <3>1, <3>2 DEF TalkOK, Giving
  <2> QED BY <2>1, <2>2
<1>12. \A s \in Str : s <= p /\ ClosedAbove(s) => ClosedAbove(s)'
  BY <1>2, <1>3, <1>4 DEF ClosedAbove
<1>13. \A s \in Str : Reached(s) => s <= p /\ Reached(s)'
  BY <1>2, <1>4, <1>5 DEF Reached
<1>14. StaysBelow'
  <2>1. \A s \in Str : Emptying(s) => Reached(s)' /\ ClosedAbove(s)'
    BY <1>6, <1>12, <1>13 DEF StaysBelow
  <2>2. \A s \in Str : asked'[s] = "Over" => \E u \in Str : s < u /\ Emptying(u) /\ Reached(u)'
    BY <1>1, <1>4, <1>6, <1>13 DEF StaysBelow
  <2> QED BY <1>2, <1>3, <2>1, <2>2 DEF StaysBelow
<1>15. DoneStops'
  BY <1>2, <1>4, <1>5, <1>10 DEF DoneStops, ValueAsked
<1>16. TalkOK'
  BY <1>2, <1>4, <1>6, <1>9, <1>10, <1>11, <1>14, <1>15 DEF TalkOK, Asking, Giving
<1>17. InTurn
  BY <1>4, <1>7 DEF InTurn
<1> QED BY <1>2, <1>8, <1>16, <1>17 DEF StreamsInv

\* The end of a stream, or of the answers of one, for the continuation below.
LEMMA EndMove ==
  ASSUME StreamsInv, Keeps, NEW q, Following(q), NEW x, Send("Ended", q, x),
         \/ signal.call = "Ended"
         \/ /\ signal.call \in Asking
            /\ Here = Src \/ pipe[Here].kind = "TakeLast"
  PROVE  StreamsInv' /\ InTurn
<1>1. TalkOK /\ signal.call \in Asking \cup Giving /\ signal.call # "None"
  BY DEF StreamsInv, Giving, Asking
<1> DEFINE p == Here
<1>2. /\ p \in DOMAIN pipe /\ p \in Nat /\ p = signal.at /\ result.call = "None"
      /\ Src \in Nat /\ \A s \in Str : s \in DOMAIN pipe /\ s \in Nat /\ s >= Src
      /\ pipe' = pipe /\ Src' = Src /\ Str' = Str /\ SourceIsAt(pipe, Src)'
      /\ MembersOK' /\ LinksOK'
  BY <1>1, MoveFacts
<1>3. /\ \A s : Emptying(s)' <=> Emptying(s)
      /\ \A s : CalledOff(s)' <=> CalledOff(s)
  BY <1>1, MoveFacts
<1>4. /\ signal'.call = "Ended" /\ signal'.at = q /\ result' = result
      /\ asked' \in [DOMAIN pipe -> {"No", "Next", "Done", "Over"}]
      /\ \A s \in Str : s # p => asked'[s] = asked[s]
      /\ p \in Str => asked'[p] = "Over"
      /\ pipe[q - 1].kind \in StreamKinds => q - 1 = p /\ p \in Str
  BY <1>1, AnswerFacts
<1>5. /\ q \in DOMAIN pipe /\ q \in Nat /\ q > p
      /\ \A t \in Str : t <= p \/ t >= q
      /\ p \in Str => q = p + 1
  BY DEF Following
<1>6. AnswersOwed /\ StaysBelow /\ DoneStops /\ q > Src
  BY <1>1, <1>2, <1>5 DEF TalkOK, Asking, Giving
<1>7. signal.call \in Asking =>
        p \in Str /\ (p = Src \/ (pipe[p].kind = "TakeLast" /\ (Emptying(p) \/ CalledOff(p))))
  BY <1>1, <1>2 DEF TalkOK, Emptying, CalledOff, Asking
<1>8. p \in Str => asked[p] \in {"Next", "Done"}
  BY <1>2, <1>6 DEF AnswersOwed, Owes
<1>9. signal.call = "Ended" => ClosedAbove(p)
  BY <1>1, <1>2 DEF TalkOK
<1>10. signal.call \in Asking \/ signal.call = "Ended"
  BY DEF Asking
<1> HIDE DEF p
<1>11. CallOK' /\ StartOK' /\ NoStreamLeftOpen'
  BY <1>2, <1>4, <1>5 DEF CallOK, Giving, StartOK, NoStreamLeftOpen
<1>12. AnswersOwed'
  <2> SUFFICES ASSUME NEW s \in Str PROVE asked'[s] \in {"Next", "Done"} <=> s >= q
    BY <1>2, <1>4 DEF AnswersOwed, Owes
  <2>1. asked[s] \in {"Next", "Done"} <=> s >= p
    BY <1>2, <1>6 DEF AnswersOwed, Owes
  <2> QED BY <1>2, <1>4, <1>5, <2>1
<1>13. \A s \in Str : s <= p /\ ClosedAbove(s) => ClosedAbove(s)'
  BY <1>2, <1>3, <1>4 DEF ClosedAbove
<1>14. \A s \in Str : Reached(s) => s <= p /\ Reached(s)'
  BY <1>2, <1>4, <1>5 DEF Reached
<1>15. StaysBelow'
  <2>1. \A s \in Str : Emptying(s) => Reached(s)' /\ ClosedAbove(s)'
    BY <1>6, <1>13, <1>14 DEF StaysBelow
  <2> QED BY <1>2, <1>3, <1>4, <2>1 DEF StaysBelow
<1>16. ClosedAbove(q)'
  <2> SUFFICES ASSUME NEW s \in Str, s < q
               PROVE  asked'[s] = "Over" \/ \E u \in Str : s < u /\ u < q /\ CalledOff(u)
    BY <1>2, <1>3 DEF ClosedAbove
  <2>1. CASE s = p
    BY <1>4, <2>1
  <2>2. CASE s # p
    <3>1. s < p
      BY <1>2, <1>5, <2>2
    <3>2. CASE ClosedAbove(p)
      BY <1>2, <1>4, <1>5, <3>1, <3>2 DEF ClosedAbove
    <3>3. CASE signal.call \in Asking
      <4>1. p \in Str /\ pipe[p].kind = "TakeLast" /\ (Emptying(p) \/ CalledOff(p))
        BY <1>2, <1>7, <3>1, <3>3
      <4>2. CASE Emptying(p)
        BY <1>6, <3>2, <4>1, <4>2 DEF StaysBelow
      <4>3. CASE CalledOff(p)
        BY <1>5, <3>1, <4>1, <4>3
      <4> QED BY <4>1, <4>2, <4>3
    <3> QED BY <1>9, <1>10, <3>2, <3>3
  <2> QED BY <2>1, <2>2
<1>17. DoneStops'
  BY <1>2, <1>4, <1>5, <1>6 DEF DoneStops
<1>18. TalkOK'
  BY <1>2, <1>4, <1>6, <1>12, <1>15, <1>16, <1>17 DEF TalkOK, Asking, Giving
<1>19. InTurn
  BY <1>4, <1>8 DEF InTurn
<1> QED BY <1>2, <1>11, <1>18, <1>19 DEF StreamsInv

\* A failure, or the news that the stream is stopped, for a continuation below the
\* source: nothing is asked from then on.
LEMMA FailMove ==
  ASSUME StreamsInv, Keeps, signal.call # "None", NEW q \in DOMAIN pipe, q > Src, NEW x,
         NEW call \in {"Fail", "Stop"}, Send(call, q, x)
  PROVE  StreamsInv' /\ InTurn
<1>1. /\ result.call = "None" /\ Src \in Nat
      /\ asked \in [DOMAIN pipe -> {"No", "Next", "Done", "Over"}]
      /\ pipe' = pipe /\ Src' = Src /\ SourceIsAt(pipe, Src)' /\ MembersOK' /\ LinksOK'
  BY MoveFacts
<1>2. /\ signal'.call = call /\ signal'.at = q /\ result' = result /\ asked' = Noted(call, q)
  BY DEF Send
<1>3. q - 1 \in DOMAIN pipe
  <2>1. Len(pipe) \in Nat /\ DOMAIN pipe = 1..Len(pipe) /\ Src \in 1..(Len(pipe) - 1)
    BY DEF StreamsInv, SourceIsAt
  <2> QED BY <2>1
<1>4. asked' \in [DOMAIN pipe -> {"No", "Next", "Done", "Over"}]
  BY <1>1, <1>2, <1>3 DEF Noted
<1>5. CallOK' /\ NoStreamLeftOpen' /\ TalkOK'
  BY <1>1, <1>2, <1>4 DEF CallOK, NoStreamLeftOpen, TalkOK, Asking, Giving
<1>6. q \in Nat /\ ~(q <= Src)
  BY <1>1 DEF StreamsInv, SourceIsAt
<1>7. StartOK'
  BY <1>1, <1>2, <1>6 DEF StartOK
<1>8. InTurn
  BY <1>2 DEF InTurn
<1> QED BY <1>1, <1>5, <1>7, <1>8 DEF StreamsInv

\* What passes between FlatMap and its inner stream.
LEMMA InnerMove ==
  ASSUME StreamsInv, Keeps, NEW x,
         NEW call \in {"InnerBegin", "InnerNext", "InnerDone", "InnerEnded"}, Inner(call, x),
         signal.call = "Body" \/ signal.call \in Asking, pipe[Here].kind = "FlatMap",
         call \in {"InnerBegin", "InnerNext"} => ValueAsked,
         call = "InnerEnded" => ValueAsked \/ memory'[Here].done,
         call = "InnerDone" => memory'[Here].done
  PROVE  StreamsInv' /\ InTurn
<1>1. TalkOK /\ signal.call # "None" /\ signal.call \in Asking \cup Giving /\ signal.call # "Ended"
  BY DEF StreamsInv, Asking, Giving
<1> DEFINE p == Here
<1>2. /\ p \in DOMAIN pipe /\ p \in Nat /\ p = signal.at /\ result.call = "None"
      /\ Src \in Nat /\ \A s \in Str : s \in DOMAIN pipe /\ s \in Nat /\ s >= Src
      /\ asked \in [DOMAIN pipe -> {"No", "Next", "Done", "Over"}]
      /\ pipe' = pipe /\ Src' = Src /\ Str' = Str /\ SourceIsAt(pipe, Src)'
      /\ MembersOK' /\ LinksOK'
  BY <1>1, MoveFacts
<1>3. /\ \A s : Emptying(s)' <=> Emptying(s)
      /\ \A s : CalledOff(s)' <=> CalledOff(s)
  BY <1>1, MoveFacts
<1>4. signal'.call = call /\ signal'.at = p /\ result' = result /\ asked' = asked
  BY DEF Inner
<1>5. AnswersOwed /\ StaysBelow /\ DoneStops
  BY <1>1 DEF TalkOK
<1>6. p \in Str
  BY <1>2 DEF Str, AreStreams, StreamKinds
<1> HIDE DEF p
<1>7. CallOK' /\ StartOK' /\ NoStreamLeftOpen'
  BY <1>2, <1>4 DEF CallOK, Asking, StartOK, NoStreamLeftOpen
<1>8. AnswersOwed'
  BY <1>2, <1>4, <1>5 DEF AnswersOwed, Owes
<1>9. ValueAsked => ValueAsked'
  BY <1>2, <1>4 DEF ValueAsked
<1>10. \A s : ClosedAbove(s)' <=> ClosedAbove(s)
  BY <1>2, <1>3, <1>4 DEF ClosedAbove
<1>11. \A s : Reached(s) => Reached(s)'
  BY <1>2, <1>4 DEF Reached, Asking
<1>12. StaysBelow'
  <2>1. \A s \in Str : Emptying(s) => Reached(s)' /\ ClosedAbove(s)'
    BY <1>5, <1>10, <1>11 DEF StaysBelow
  <2>2. \A s \in Str : asked'[s] = "Over" => \E u \in Str : s < u /\ Emptying(u) /\ Reached(u)'
    BY <1>1, <1>4, <1>5, <1>11 DEF StaysBelow
  <2> QED BY <1>2, <1>3, <2>1, <2>2 DEF StaysBelow
<1>13. DoneStops'
  BY <1>2, <1>4, <1>5 DEF DoneStops, p
<1>14. TalkOK'
  BY <1>2, <1>4, <1>6, <1>8, <1>9, <1>12, <1>13 DEF TalkOK, Asking, Giving, p
<1>15. InTurn
  BY <1>4 DEF InTurn
<1> QED BY <1>2, <1>7, <1>14, <1>15 DEF StreamsInv

\* The end of the pipeline; with a value only when the streams have ended.
LEMMA FinishMove ==
  ASSUME StreamsInv, Keeps, signal.call # "None", NEW call, NEW v, Finish(call, v),
         call = "Start" => signal.call = "Ended" /\ pipe[Here].kind \in StreamToValue
  PROVE  StreamsInv' /\ InTurn
<1>1. /\ Here = signal.at /\ Here \in DOMAIN pipe /\ Here \in Nat
      /\ asked \in [DOMAIN pipe -> {"No", "Next", "Done", "Over"}]
      /\ \A s \in Str : s \in DOMAIN pipe /\ s \in Nat
      /\ pipe' = pipe /\ Str' = Str /\ SourceIsAt(pipe, Src)' /\ MembersOK' /\ LinksOK'
      /\ \A s : CalledOff(s)' <=> CalledOff(s)
  BY MoveFacts
<1>2. signal'.call = "None" /\ result'.call = call /\ asked' = asked
  BY DEF Finish, Nothing
<1>3. CallOK' /\ StartOK' /\ TalkOK' /\ InTurn
  BY <1>1, <1>2 DEF CallOK, StartOK, TalkOK, Asking, Giving, InTurn
<1>4. NoStreamLeftOpen'
  <2> SUFFICES ASSUME call = "Start", NEW s \in DOMAIN pipe, pipe[s].kind \in StreamKinds
               PROVE  \/ asked[s] = "Over"
                      \/ \E t \in DOMAIN pipe :
                           t > s /\ pipe[t].kind = "TakeLast" /\ ~memory'[t].ended
    BY <1>1, <1>2 DEF NoStreamLeftOpen
  <2>1. s \in Str /\ s \in Nat
    BY <1>1 DEF Str, AreStreams
  <2>2. ClosedAbove(Here)
    BY <1>1 DEF StreamsInv, TalkOK, Giving
  <2>3. Here \notin Str /\ s <= Here
    BY <1>1, Places DEF StreamsInv, Str, AreStreams, StreamKinds, Sources, StreamToValue
  <2>4. s < Here
    BY <1>1, <2>1, <2>3
  <2>5. CASE asked[s] = "Over"
    BY <2>5
  <2>6. CASE asked[s] # "Over"
    <3>1. PICK u \in Str : s < u /\ CalledOff(u)
      BY <2>1, <2>2, <2>4, <2>6 DEF ClosedAbove
    <3>2. u \in DOMAIN pipe /\ u \in Nat /\ CalledOff(u)'
      BY <1>1, <3>1
    <3>3. pipe[u].kind = "TakeLast" /\ ~memory'[u].ended
      BY <1>1, <3>2 DEF CalledOff
    <3> QED BY <2>1, <3>1, <3>2, <3>3
  <2> QED BY <2>5, <2>6
<1> QED BY <1>1, <1>3, <1>4 DEF StreamsInv

\* A call before the stream begins.
LEMMA StartMove ==
  ASSUME StreamsInv, Keeps, signal.call \in {"Start", "Fail", "Stop"}, Here < Src,
         NEW q \in DOMAIN pipe, q <= Src, NEW x, NEW call \in {"Start", "Fail", "Stop"},
         Send(call, q, x)
  PROVE  StreamsInv' /\ InTurn
<1>1. /\ Here = signal.at /\ Here \in Nat /\ result.call = "None" /\ Src \in Nat
      /\ asked \in [DOMAIN pipe -> {"No", "Next", "Done", "Over"}]
      /\ \A s \in Str : s \in DOMAIN pipe /\ s \in Nat /\ s >= Src
      /\ pipe' = pipe /\ Src' = Src /\ Str' = Str /\ SourceIsAt(pipe, Src)'
      /\ MembersOK' /\ LinksOK'
      /\ \A s : Emptying(s)' <=> Emptying(s)
  BY MoveFacts
<1>2. \A s \in Str : asked[s] = "No" /\ ~Emptying(s)
  BY <1>1 DEF StreamsInv, StartOK
<1>3. Len(pipe) \in Nat /\ DOMAIN pipe = 1..Len(pipe)
  BY DEF StreamsInv, SourceIsAt
<1>4. q - 1 \in DOMAIN pipe => q - 1 \notin Str
  BY <1>1, <1>3
<1>5. signal'.call = call /\ signal'.at = q /\ result' = result /\ asked' = Noted(call, q)
  BY DEF Send
<1>6. asked' = asked
  BY <1>3, <1>4, <1>5 DEF Noted, Str, AreStreams
<1>7. CallOK' /\ TalkOK' /\ NoStreamLeftOpen'
  BY <1>1, <1>5, <1>6 DEF CallOK, TalkOK, Asking, Giving, NoStreamLeftOpen
<1>8. StartOK'
  BY <1>1, <1>2, <1>5, <1>6 DEF StartOK
<1>9. InTurn
  BY <1>5 DEF InTurn
<1> QED BY <1>1, <1>7, <1>8, <1>9 DEF StreamsInv

\* Begin goes down: nothing is asked yet.
LEMMA BeginMove ==
  ASSUME StreamsInv, Keeps, signal.call \in {"Start", "Begin"}, NEW q \in DOMAIN pipe, q > Src,
         NEW a, IsAbove(a, q), Send("Begin", q, a)
  PROVE  StreamsInv' /\ InTurn
<1>1. /\ result.call = "None" /\ Src \in Nat
      /\ asked \in [DOMAIN pipe -> {"No", "Next", "Done", "Over"}]
      /\ pipe' = pipe /\ Src' = Src /\ Str' = Str /\ SourceIsAt(pipe, Src)'
      /\ MembersOK' /\ LinksOK'
      /\ \A s : Emptying(s)' <=> Emptying(s)
      /\ \A s, k : IsAbove(s, k)' <=> IsAbove(s, k)
  BY MoveFacts
<1>2. \A s \in Str : asked[s] = "No" /\ ~Emptying(s)
  BY DEF StreamsInv, StartOK
<1>3. /\ signal'.call = "Begin" /\ signal'.at = q /\ signal'.arg = a /\ result' = result
      /\ asked' = asked
  BY DEF Send, Noted
<1>4. CallOK' /\ TalkOK' /\ NoStreamLeftOpen'
  BY <1>1, <1>3 DEF CallOK, TalkOK, Asking, Giving, NoStreamLeftOpen
<1>5. StartOK'
  BY <1>1, <1>2, <1>3 DEF StartOK
<1>6. InTurn
  BY <1>3 DEF InTurn
<1> QED BY <1>1, <1>4, <1>5, <1>6 DEF StreamsInv

\* The first question, from the continuation that ends the stream.
LEMMA FirstQuestion ==
  ASSUME StreamsInv, Keeps, signal.call = "Begin", pipe[Here].kind \in StreamToValue,
         Send("Next", signal.arg, 0)
  PROVE  StreamsInv' /\ InTurn
<1> DEFINE b == signal.arg
<1>1. /\ Here = signal.at /\ Here \in Nat /\ Here \in DOMAIN pipe /\ result.call = "None"
      /\ asked \in [DOMAIN pipe -> {"No", "Next", "Done", "Over"}]
      /\ \A s \in Str : s \in DOMAIN pipe /\ s \in Nat /\ s >= Src
      /\ pipe' = pipe /\ Src' = Src /\ Str' = Str /\ SourceIsAt(pipe, Src)'
      /\ MembersOK' /\ LinksOK'
      /\ \A s : Emptying(s)' <=> Emptying(s)
  BY MoveFacts
<1>2. /\ \A s \in Str : asked[s] = "No" /\ ~Emptying(s)
      /\ IsAbove(b, Here)
  BY <1>1 DEF StreamsInv, StartOK
<1>3. Here \notin Str /\ \A s \in DOMAIN pipe : s <= Here
  BY <1>1, Places DEF StreamsInv, Str, AreStreams, StreamKinds, Sources, StreamToValue
<1>4. b \in Str /\ \A s \in Str : s <= b
  BY <1>1, <1>2, <1>3 DEF IsAbove
<1>5. /\ signal'.call = "Next" /\ signal'.at = b /\ result' = result
      /\ asked' = [asked EXCEPT ![b] = "Next"]
  BY DEF Send, Noted
<1>6. /\ asked' \in [DOMAIN pipe -> {"No", "Next", "Done", "Over"}]
      /\ asked'[b] = "Next" /\ \A s \in Str : s # b => asked'[s] = "No"
  BY <1>1, <1>2, <1>4, <1>5
<1> HIDE DEF b
<1>7. CallOK' /\ StartOK' /\ NoStreamLeftOpen'
  BY <1>1, <1>4, <1>5, <1>6 DEF CallOK, Asking, StartOK, NoStreamLeftOpen
<1>8. AnswersOwed' /\ ValueAsked'
  BY <1>1, <1>4, <1>5, <1>6 DEF AnswersOwed, Owes, ValueAsked
<1>9. StaysBelow' /\ DoneStops'
  BY <1>1, <1>2, <1>4, <1>5, <1>6 DEF StaysBelow, DoneStops
<1>10. TalkOK'
  BY <1>1, <1>4, <1>5, <1>8, <1>9 DEF TalkOK, Asking, Giving
<1>11. InTurn
  BY <1>2, <1>4, <1>5 DEF InTurn
<1> QED BY <1>1, <1>7, <1>10, <1>11 DEF StreamsInv

\* TakeLast gives the first of what it kept when the stream above has ended.
LEMMA EmptyMove ==
  ASSUME StreamsInv, NEW p, p = Here, signal.call = "Ended", pipe[p].kind = "TakeLast",
         NEW q, q = p + 1, NEW x, Send("Body", q, x), UNCHANGED stream, MembersOK',
         memory'[p].ended = TRUE,
         \A k \in DOMAIN pipe : k # p => memory'[k].ended = memory[k].ended
  PROVE  StreamsInv' /\ InTurn
<1>1. SourceIsAt(pipe, Src) /\ CallOK /\ LinksOK /\ TalkOK
  BY DEF StreamsInv
<1>2. /\ p \in DOMAIN pipe /\ p = signal.at /\ result.call = "None"
      /\ asked \in [DOMAIN pipe -> {"No", "Next", "Done", "Over"}]
  BY <1>1 DEF CallOK, Here
<1>3. /\ p \in Nat /\ q \in Nat /\ q > p /\ p > Src /\ Src \in Nat /\ q \in DOMAIN pipe
      /\ \A s \in Str : s \in DOMAIN pipe /\ s \in Nat /\ s >= Src
  BY <1>1, <1>2, Places DEF StreamToStream, StreamToValue
<1>4. p \in Str /\ pipe[q - 1].kind \in StreamKinds /\ q - 1 = p /\ q > 1
  BY <1>1, <1>2, <1>3 DEF Str, AreStreams, StreamKinds
<1>5. /\ signal'.call = "Body" /\ signal'.at = q /\ result' = result /\ pipe' = pipe
      /\ asked' = [asked EXCEPT ![p] = "No"]
  BY <1>4 DEF Send, Noted
<1>6. AnswersOwed /\ StaysBelow /\ DoneStops /\ ClosedAbove(p)
  BY <1>1, <1>2 DEF TalkOK, Giving
<1>7. \A s \in Str : s >= p => asked[s] = "Next"
  BY <1>2, <1>4, <1>6 DEF DoneStops
<1>8. Src' = Src /\ Str' = Str
  BY <1>5 DEF Src, Str
<1>9. SourceIsAt(pipe, Src)' /\ LinksOK'
  BY <1>1, <1>5, <1>8 DEF LinksOK, IsAbove
<1>10. /\ \A s : Emptying(s)' <=> Emptying(s) \/ s = p
       /\ \A s : s # p => (CalledOff(s)' <=> CalledOff(s))
  BY <1>3, <1>4, <1>5, <1>8 DEF Emptying, CalledOff
<1>11. /\ asked' \in [DOMAIN pipe -> {"No", "Next", "Done", "Over"}]
       /\ asked'[p] = "No" /\ \A s \in Str : s # p => asked'[s] = asked[s]
  BY <1>2, <1>5
<1>12. CallOK' /\ StartOK' /\ NoStreamLeftOpen'
  BY <1>2, <1>3, <1>5, <1>11 DEF CallOK, Giving, StartOK, NoStreamLeftOpen
<1>13. AnswersOwed' /\ ValueAsked'
  <2> SUFFICES ASSUME NEW s \in Str
               PROVE  /\ asked'[s] \in {"Next", "Done"} <=> s >= q
                      /\ s >= q => asked'[s] = "Next"
    BY <1>5, <1>8 DEF AnswersOwed, Owes, ValueAsked
  <2>1. asked[s] \in {"Next", "Done"} <=> s >= p
    BY <1>2, <1>6 DEF AnswersOwed, Owes
  <2>2. CASE s = p
    BY <1>3, <1>4, <1>11, <2>2
  <2>3. CASE s # p
    <3>1. asked'[s] = asked[s] /\ (s >= q <=> s >= p)
      BY <1>3, <1>4, <1>11, <2>3
    <3> QED BY <1>7, <2>1, <3>1
  <2> QED BY <2>2, <2>3
<1>14. DoneStops'
  BY <1>3, <1>5, <1>8, <1>13 DEF DoneStops, ValueAsked
<1>15. \A s \in Str : s <= p /\ ClosedAbove(s) => ClosedAbove(s)'
  BY <1>3, <1>8, <1>10, <1>11 DEF ClosedAbove
<1>16. \A s \in Str : Emptying(s)' => s <= p /\ ClosedAbove(s)
  BY <1>2, <1>3, <1>4, <1>6, <1>10 DEF StaysBelow, Reached, Asking
<1>17. StaysBelow'
  <2>1. \A s \in Str : Emptying(s)' => Reached(s)' /\ ClosedAbove(s)'
    BY <1>3, <1>4, <1>5, <1>15, <1>16 DEF Reached
  <2>2. \A s \in Str : asked'[s] = "Over" => s < p
    BY <1>2, <1>3, <1>4, <1>6, <1>7, <1>11 DEF AnswersOwed, Owes
  <2>3. Emptying(p)' /\ Reached(p)'
    BY <1>3, <1>5, <1>10 DEF Reached
  <2> QED BY <1>4, <1>8, <2>1, <2>2, <2>3 DEF StaysBelow
<1>18. \A s \in Str : IsAbove(s, q)' => asked'[s] = "No"
  <2> SUFFICES ASSUME NEW s \in Str, IsAbove(s, q)' PROVE s = p
    BY <1>11
  <2>1. s < q /\ (p <= s \/ p >= q)
    BY <1>4, <1>8 DEF IsAbove
  <2> QED BY <1>3, <2>1
<1>19. TalkOK'
  BY <1>3, <1>5, <1>8, <1>11, <1>13, <1>14, <1>17, <1>18 DEF TalkOK, Asking, Giving
<1>20. InTurn
  <2>1. signal'.call = "Body" /\ signal'.at - 1 = p /\ asked[p] = "Next"
    BY <1>3, <1>4, <1>5, <1>7
  <2> QED BY <2>1 DEF InTurn
<1> QED BY <1>5, <1>9, <1>12, <1>19, <1>20 DEF StreamsInv

-----------------------------------------------------------------------------
(* What the actions do to the continuations.                                *)

\* Members and streams stay as they are.
LEMMA UnchangedKeeps ==
  ASSUME StreamsInv, pipe' = pipe, Unchanged
  PROVE  Keeps
<1>1. MembersOK /\ LinksOK
  BY DEF StreamsInv
<1>2. memory' = memory /\ stream' = stream
  BY DEF Unchanged
<1>3. MembersOK'
  BY <1>1, <1>2 DEF MembersOK, Members
<1>4. LinksOK'
  BY <1>1, <1>2 DEF LinksOK, IsAbove, Str
<1> QED BY <1>2, <1>3, <1>4 DEF Keeps

\* A continuation changes its members, but not what says that its stream has ended.
LEMMA RememberKeeps ==
  ASSUME StreamsInv, signal.call # "None", pipe' = pipe, UNCHANGED stream, NEW r, Remember(r),
         r \in Members(r), r.ended = Mine.ended, Mine.done => r.done
  PROVE  Keeps /\ memory'[Here] = r
<1>1. MembersOK /\ LinksOK /\ Here \in DOMAIN pipe
  BY DEF StreamsInv, CallOK, Here
<1>2. /\ memory'[Here] = r /\ DOMAIN memory' = DOMAIN memory
      /\ \A k \in DOMAIN pipe : k # Here => memory'[k] = memory[k]
  BY <1>1 DEF MembersOK, Remember
<1>3. MembersOK'
  BY <1>1, <1>2 DEF MembersOK, Members
<1>4. LinksOK'
  BY <1>1 DEF LinksOK, IsAbove, Str
<1>5. \A k \in DOMAIN pipe :
        memory'[k].ended = memory[k].ended /\ (memory[k].done => memory'[k].done)
  BY <1>1, <1>2 DEF Mine
<1> QED BY <1>2, <1>3, <1>4, <1>5 DEF Keeps

\* Begin keeps the stream it was given.
LEMMA LinkKeeps ==
  ASSUME StreamsInv, signal.call = "Begin", pipe' = pipe, UNCHANGED memory,
         stream' = [stream EXCEPT ![Here] = signal.arg]
  PROVE  Keeps /\ IsAbove(signal.arg, Here) /\ Here > Src
<1>1. MembersOK /\ LinksOK /\ Here \in DOMAIN pipe /\ IsAbove(signal.arg, Here) /\ Here > Src
  BY DEF StreamsInv, CallOK, StartOK, Here
<1>2. MembersOK'
  BY <1>1 DEF MembersOK, Members
<1>3. Str' = Str
  BY DEF Str
<1>4. \A s, k : IsAbove(s, k)' <=> IsAbove(s, k)
  BY <1>3 DEF IsAbove
<1>5. /\ DOMAIN stream' = DOMAIN stream
      /\ \A k \in DOMAIN stream : stream'[k] = IF k = Here THEN signal.arg ELSE stream[k]
  OBVIOUS
<1>6. LinksOK'
  <2> HIDE DEF Here
  <2> QED BY <1>1, <1>4, <1>5 DEF LinksOK
<1>7. \A k \in DOMAIN pipe : memory'[k] = memory[k]
  OBVIOUS
<1> QED BY <1>1, <1>2, <1>6, <1>7 DEF Keeps

\* A type-erased continuation gives the adaptor its callbacks.
LEMMA HeapKeeps ==
  ASSUME StreamsInv, pipe' = pipe, UNCHANGED stream, NEW a \in DOMAIN pipe,
         memory' = [memory EXCEPT ![a].adapted = "begun"]
  PROVE  Keeps
<1>1. MembersOK /\ LinksOK
  BY DEF StreamsInv
<1>2. memory' = [memory EXCEPT ![a] = [memory[a] EXCEPT !.adapted = "begun"]]
  OBVIOUS
<1> DEFINE r == [memory[a] EXCEPT !.adapted = "begun"]
<1>3. memory[a] \in Members(memory[a])
  BY <1>1 DEF MembersOK
<1>4. r \in Members(r) /\ r.ended = memory[a].ended /\ r.done = memory[a].done
  BY <1>3 DEF Members
<1> HIDE DEF r
<1>5. /\ memory'[a] = r /\ DOMAIN memory' = DOMAIN memory
      /\ \A k \in DOMAIN pipe : k # a => memory'[k] = memory[k]
  BY <1>1, <1>2 DEF MembersOK, r
<1>6. MembersOK'
  BY <1>1, <1>4, <1>5 DEF MembersOK, Members
<1>7. LinksOK'
  BY <1>1 DEF LinksOK, IsAbove, Str
<1>8. \A k \in DOMAIN pipe :
        memory'[k].ended = memory[k].ended /\ (memory[k].done => memory'[k].done)
  BY <1>4, <1>5
<1> QED BY <1>6, <1>7, <1>8 DEF Keeps

\* The next continuation, for one that does not end the stream; and the one behind a
\* Transformer.
LEMMA FollowingHere ==
  ASSUME StreamsInv, signal.call # "None", pipe[Here].kind \notin StreamToValue
  PROVE  Following(Here + 1) /\ Here + 1 \in DOMAIN pipe
<1>1. SourceIsAt(pipe, Src) /\ Here \in DOMAIN pipe
  BY DEF StreamsInv, CallOK, Here
<1>2. Here \in Nat /\ Here + 1 \in DOMAIN pipe /\ \A s \in Str : s \in Nat
  BY <1>1, Places
<1> QED BY <1>2 DEF Following

LEMMA FollowingBehind ==
  ASSUME StreamsInv, signal.call # "None", pipe[Here].kind = "Transformer"
  PROVE  Following(Behind) /\ Behind > Src
<1>1. SourceIsAt(pipe, Src) /\ Here \in DOMAIN pipe
  BY DEF StreamsInv, CallOK, Here
<1>2. Behind = After(pipe, Here)
  BY DEF Behind, After, This
<1>3. /\ Here \in Nat /\ Here > Src /\ \A s \in Str : s \in Nat
      /\ \A s \in DOMAIN pipe : s \in Nat
  BY <1>1, Places DEF StreamToStream
<1>4. /\ Behind \in DOMAIN pipe /\ Behind > Here + 1 /\ Behind > Src
      /\ \A t \in Str : t < Here \/ t >= Behind
  BY <1>1, <1>2, Erasures DEF ErasedKinds
<1>5. Here \notin Str
  BY DEF Str, AreStreams, StreamKinds, Sources
<1> QED BY <1>3, <1>4, <1>5 DEF Following

\* Up: to the stream above, or the end of the process.
LEMMA UpMove ==
  ASSUME StreamsInv, Keeps, NEW call \in {"Next", "Done"}, Up(call),
         call = "Next" => ValueAsked,
         signal.call = "Body" \/ (signal.call \in Asking /\ ~Emptying(Here)),
         call = "Done" => pipe[Here].kind # "TakeLast"
  PROVE  StreamsInv' /\ InTurn
<1>1. signal.call # "None"
  BY DEF Asking
<1>2. stream[Here] = 0 \/ IsAbove(stream[Here], Here)
  BY <1>1 DEF StreamsInv, CallOK, LinksOK, Here
<1>3. CASE stream[Here] = 0
  BY <1>1, <1>3, FinishMove DEF Up, Abort
<1>4. CASE stream[Here] # 0
  <2>1. Send(call, stream[Here], 0)
    BY <1>4 DEF Up
  <2> QED BY <1>2, <1>4, <2>1, AskMove
<1> QED BY <1>3, <1>4

\* A member changes that the protocol does not depend on.
LEMMA DataKeeps ==
  ASSUME StreamsInv, signal.call # "None", pipe' = pipe, UNCHANGED stream, NEW d,
         Remember([Mine EXCEPT !.data = d])
  PROVE  Keeps
<1>1. Mine \in Members(Mine)
  BY DEF StreamsInv, CallOK, MembersOK, Mine, Here
<1>2. /\ [Mine EXCEPT !.data = d] \in Members([Mine EXCEPT !.data = d])
      /\ [Mine EXCEPT !.data = d].ended = Mine.ended
      /\ [Mine EXCEPT !.data = d].done = Mine.done
  BY <1>1 DEF Members
<1> QED BY <1>2, RememberKeeps

\* The same for i_ and from_.
LEMMA CountKeeps ==
  ASSUME StreamsInv, signal.call # "None", pipe' = pipe, UNCHANGED stream, NEW d,
         Remember([Mine EXCEPT !.i = d])
  PROVE  Keeps
<1>1. Mine \in Members(Mine)
  BY DEF StreamsInv, CallOK, MembersOK, Mine, Here
<1>2. /\ [Mine EXCEPT !.i = d] \in Members([Mine EXCEPT !.i = d])
      /\ [Mine EXCEPT !.i = d].ended = Mine.ended
      /\ [Mine EXCEPT !.i = d].done = Mine.done
  BY <1>1 DEF Members
<1> QED BY <1>2, RememberKeeps

\* What may be called on k_.
LEMMA DownMove ==
  ASSUME StreamsInv, Keeps, signal.call # "None", pipe[Here].kind \notin StreamToValue,
         NEW call, NEW x, Down(call, x),
         \/ call = "Body" /\ signal.call \in {"Body", "Next", "InnerNext"}
         \/ call = "Ended" /\ signal.call = "Ended"
         \/ /\ call = "Ended" /\ signal.call \in {"Next", "Done"}
            /\ pipe[Here].kind \in Sources \cup {"TakeLast"}
         \/ call \in {"Fail", "Stop"} /\ Here >= Src
         \/ /\ call \in {"Start", "Fail", "Stop"} /\ signal.call \in {"Start", "Fail", "Stop"}
            /\ Here < Src
  PROVE  StreamsInv' /\ InTurn
<1>1. Following(Here + 1) /\ Here + 1 \in DOMAIN pipe /\ Send(call, Here + 1, x)
  BY FollowingHere DEF Down
<1>2. Here \in Nat /\ Src \in Nat /\ (pipe[Here].kind \in Sources => Here = Src)
  BY MoveFacts, Places DEF StreamsInv
<1>3. CASE call = "Body" /\ signal.call \in {"Body", "Next", "InnerNext"}
  BY <1>1, <1>3, GiveMove
<1>4. CASE call = "Ended" /\ signal.call = "Ended"
  BY <1>1, <1>4, EndMove
<1>5. CASE /\ call = "Ended" /\ signal.call \in {"Next", "Done"}
           /\ pipe[Here].kind \in Sources \cup {"TakeLast"}
  BY <1>1, <1>2, <1>5, EndMove DEF Asking
<1>6. CASE call \in {"Fail", "Stop"} /\ Here >= Src
  BY <1>1, <1>2, <1>6, FailMove
<1>7. CASE /\ call \in {"Start", "Fail", "Stop"} /\ signal.call \in {"Start", "Fail", "Stop"}
           /\ Here < Src
  BY <1>1, <1>2, <1>7, StartMove
<1> QED BY <1>3, <1>4, <1>5, <1>6, <1>7

\* A call that is handed on as it is.
LEMMA HandOnMove ==
  ASSUME StreamsInv, NEW calls, calls \subseteq {"Start", "Ended", "Fail", "Stop"}, NEW kind,
         HandOn(calls, kind), kind \notin StreamToValue,
         "Start" \in calls => kind \in ValueKinds
  PROVE  StreamsInv' /\ InTurn
<1>1. /\ signal.call \in calls /\ pipe[Here].kind = kind /\ Down(signal.call, 0) /\ Unchanged
  BY DEF HandOn, This, Unchanged
<1>2. signal.call # "None" /\ pipe' = pipe
  BY <1>1 DEF Down, Send
<1>3. Keeps
  BY <1>1, <1>2, UnchangedKeeps
<1>4. Here \in Nat /\ Src \in Nat /\ (kind \in ValueKinds => Here < Src)
  BY <1>1, <1>2, <1>3, MoveFacts, Places DEF StreamsInv
<1>5. \/ signal.call = "Ended"
      \/ signal.call \in {"Fail", "Stop"} /\ Here >= Src
      \/ signal.call \in {"Start", "Fail", "Stop"} /\ Here < Src
  <2>1. signal.call \in {"Start", "Ended", "Fail", "Stop"}
    BY <1>1
  <2>2. signal.call = "Start" => Here < Src
    BY <1>1, <1>4
  <2>3. Here >= Src \/ Here < Src
    BY <1>4
  <2> QED BY <2>1, <2>2, <2>3
<1> QED BY <1>1, <1>2, <1>3, <1>5, DownMove

\* A source begins the stream that it is.
LEMMA SourceBegins ==
  ASSUME StreamsInv, NEW kind \in Sources, At("Start", {kind}), Down("Begin", Here), Unchanged
  PROVE  StreamsInv' /\ InTurn
<1>1. signal.call = "Start" /\ pipe[Here].kind = kind /\ Send("Begin", Here + 1, Here)
  BY DEF At, This, Down
<1>2. pipe' = pipe /\ kind \notin StreamToValue
  BY <1>1 DEF Send, Sources, StreamToValue
<1>3. Keeps
  BY <1>2, UnchangedKeeps
<1>4. Here + 1 \in DOMAIN pipe
  BY <1>1, <1>2, FollowingHere
<1>5. Here = Src /\ Src \in Nat /\ Src \in Str /\ \A s \in Str : s \in Nat /\ s >= Src
  BY <1>1, <1>3, MoveFacts, Places DEF StreamsInv
<1>6. IsAbove(Here, Here + 1)
  BY <1>5 DEF IsAbove
<1> QED BY <1>1, <1>3, <1>4, <1>5, <1>6, BeginMove

\* The eventuals of a value and the sources.
LEMMA SourceMoves ==
  ASSUME StreamsInv, SourceStep
  PROVE  StreamsInv' /\ InTurn
<1>1. CASE EventualStart
  <2>1. /\ signal.call = "Start" /\ pipe[Here].kind = "Eventual" /\ Unchanged
        /\ Down(pipe[Here].outcome, 0)
    BY <1>1 DEF EventualStart, At, This
  <2>2. Keeps
    BY <2>1, UnchangedKeeps DEF Down, Send
  <2>3. Here < Src /\ Here \in DOMAIN pipe
    BY <2>1, <2>2, MoveFacts, Places DEF StreamsInv, ValueKinds
  <2>4. pipe[Here].outcome \in {"Start", "Fail", "Stop"}
    BY <2>1, <2>3 DEF StreamsInv, SourceIsAt
  <2> QED BY <2>1, <2>2, <2>3, <2>4, DownMove DEF StreamToValue
<1>2. CASE CatchFail
  <2> DEFINE out == IF This.handles THEN This.outcome ELSE "Fail"
  <2>1. signal.call = "Fail" /\ pipe[Here].kind = "Catch" /\ Unchanged /\ Down(out, 0)
    BY <1>2 DEF CatchFail, At, This
  <2>2. Keeps
    BY <2>1, UnchangedKeeps DEF Down, Send
  <2>3. Here < Src /\ Here \in DOMAIN pipe
    BY <2>1, <2>2, MoveFacts, Places DEF StreamsInv, ValueKinds
  <2>4. out \in {"Start", "Fail", "Stop"}
    BY <2>1, <2>3 DEF StreamsInv, SourceIsAt, This
  <2> QED BY <2>1, <2>2, <2>3, <2>4, DownMove DEF StreamToValue
<1>3. CASE EventualFails \/ CatchStart \/ StreamFails \/ RangeFails \/ RepeatFails
  <2> USE DEF ValueKinds, StreamToValue
  <2>1. CASE EventualFails
    BY <2>1, HandOnMove DEF EventualFails
  <2>2. CASE CatchStart
    BY <2>2, HandOnMove DEF CatchStart
  <2>3. CASE StreamFails
    BY <2>3, HandOnMove DEF StreamFails
  <2>4. CASE RangeFails
    BY <2>4, HandOnMove DEF RangeFails
  <2>5. CASE RepeatFails
    BY <2>5, HandOnMove DEF RepeatFails
  <2> QED BY <1>3, <2>1, <2>2, <2>3, <2>4, <2>5
<1>4. CASE StreamStart \/ RangeStart \/ RepeatStart
  BY <1>4, SourceBegins DEF StreamStart, RangeStart, RepeatStart, Sources
<1>5. CASE StreamNext
  <2>1. /\ signal.call = "Next" /\ pipe[Here].kind = "Stream" /\ stream' = stream
    BY <1>5 DEF StreamNext, At, This
  <2>2. CASE Mine.data # <<>>
    <3>1. Down("Body", Head(Mine.data)) /\ Remember([Mine EXCEPT !.data = Tail(Mine.data)])
      BY <1>5, <2>2 DEF StreamNext
    <3>2. Keeps
      BY <2>1, <3>1, DataKeeps DEF Down, Send
    <3> QED BY <2>1, <3>1, <3>2, DownMove DEF StreamToValue
  <2>3. CASE Mine.data = <<>>
    <3>1. Down(pipe[Here].tail, 0) /\ Unchanged
      BY <1>5, <2>3 DEF StreamNext, Unchanged, This
    <3>2. Keeps
      BY <3>1, UnchangedKeeps DEF Down, Send
    <3>3. Here = Src /\ Here \in DOMAIN pipe /\ Src \in Nat
      BY <2>1, <3>2, MoveFacts, Places DEF StreamsInv, Sources
    <3>4. pipe[Here].tail \in {"Ended", "Fail", "Stop"}
      BY <2>1, <3>3 DEF StreamsInv, SourceIsAt
    <3> QED BY <2>1, <3>1, <3>2, <3>3, <3>4, DownMove DEF StreamToValue, Sources
  <2> QED BY <2>2, <2>3
<1>6. CASE RangeNext
  <2>1. /\ signal.call = "Next" /\ pipe[Here].kind = "Range" /\ stream' = stream
        /\ \/ Down("Ended", 0) /\ UNCHANGED memory
           \/ /\ Remember([Mine EXCEPT !.i = Plus(Mine.i, This.step)])
              /\ Down("Body", Mine.i)
    BY <1>6 DEF RangeNext, At, This
  <2>2. Keeps
    BY <2>1, UnchangedKeeps, CountKeeps DEF Down, Send, Unchanged
  <2> QED BY <2>1, <2>2, DownMove DEF StreamToValue, Sources
<1>7. CASE RepeatNext
  <2>1. signal.call = "Next" /\ pipe[Here].kind = "Repeat" /\ Unchanged /\ Down("Body", 0)
    BY <1>7 DEF RepeatNext, At, This
  <2>2. Keeps
    BY <2>1, UnchangedKeeps DEF Down, Send
  <2> QED BY <2>1, <2>2, DownMove DEF StreamToValue
<1>8. CASE StreamDone \/ RangeDone \/ RepeatDone
  <2>1. signal.call = "Done" /\ pipe[Here].kind \in Sources /\ Unchanged /\ Down("Ended", 0)
    BY <1>8 DEF StreamDone, RangeDone, RepeatDone, At, This, Sources
  <2>2. Keeps
    BY <2>1, UnchangedKeeps DEF Down, Send
  <2> QED BY <2>1, <2>2, DownMove DEF StreamToValue, Sources
<1> QED BY <1>1, <1>2, <1>3, <1>4, <1>5, <1>6, <1>7, <1>8 DEF SourceStep

\* The eventual on the heap is called by its continuation.
LEMMA HeapMove ==
  ASSUME StreamsInv, pipe[Here].kind \in ErasedKinds, NEW call, NEW x, HeapCall(call, x),
         \/ call = "Body" /\ signal.call = "Body"
         \/ /\ call \in {"Fail", "Stop"} /\ signal.call \in {"Fail", "Stop"}
         \/ /\ call = "Start" /\ signal.call = "Start" /\ pipe[Here].kind # "Transformer"
  PROVE  StreamsInv' /\ InTurn
<1>1. signal.call # "None" /\ pipe' = pipe /\ Down(call, x) /\ UNCHANGED stream
  BY DEF HeapCall, Down, Send
<1>2. SourceIsAt(pipe, Src) /\ Here \in DOMAIN pipe
  BY <1>1 DEF StreamsInv, CallOK, Here
<1>3. Behind = After(pipe, Here) /\ After(pipe, Here) - 1 \in DOMAIN pipe
  BY <1>2, Erasures DEF Behind, After, This
<1>4. Keeps
  BY <1>1, <1>3, HeapKeeps DEF HeapCall
<1>5. /\ Here \in Nat /\ Src \in Nat
      /\ pipe[Here].kind \in {"Task", "Generator"} => Here < Src
  BY <1>2, Places DEF ValueKinds
<1>6. \/ call \in {"Fail", "Stop"} /\ Here >= Src
      \/ call \in {"Start", "Fail", "Stop"} /\ Here < Src
      \/ call = "Body"
  BY <1>5 DEF ErasedKinds
<1>7. pipe[Here].kind \notin StreamToValue
  BY DEF ErasedKinds, StreamToValue
<1> QED BY <1>1, <1>4, <1>6, <1>7, DownMove

\* A failure goes past the eventual on the heap.
LEMMA SkipMove ==
  ASSUME StreamsInv, pipe[Here].kind \in ErasedKinds, signal.call = "Fail", SkipTo("Fail", 0)
  PROVE  StreamsInv' /\ InTurn
<1>1. Send("Fail", Behind, 0) /\ Unchanged /\ pipe' = pipe
  BY DEF SkipTo, Send
<1>2. SourceIsAt(pipe, Src) /\ Here \in DOMAIN pipe
  BY DEF StreamsInv, CallOK, Here
<1>3. Behind = After(pipe, Here) /\ Behind \in DOMAIN pipe
  BY <1>2, Erasures DEF Behind, After, This
<1>4. Keeps
  BY <1>1, UnchangedKeeps
<1>5. Behind \in Nat /\ Src \in Nat /\ Here \in Nat
  BY <1>2, <1>3, Places
<1>6. CASE Behind > Src
  BY <1>1, <1>3, <1>4, <1>6, FailMove
<1>7. CASE Behind <= Src
  <2>1. Here < Src
    BY <1>2, <1>3, <1>5, <1>7, Erasures
  <2> QED BY <1>1, <1>3, <1>4, <1>7, <2>1, StartMove
<1> QED BY <1>5, <1>6, <1>7

\* The adaptor calls what is behind it.
LEMMA CallbackMove ==
  ASSUME StreamsInv, NEW calls, NEW kind, RunCallback(calls, kind),
         \/ kind = "Task" /\ calls = {"Start", "Fail", "Stop"}
         \/ kind # "Task" /\ calls \subseteq {"Begin", "Body", "Ended", "Fail", "Stop"}
  PROVE  StreamsInv' /\ InTurn
<1>1. /\ signal.call \in calls /\ pipe[Here].kind = "Adaptor" /\ pipe[Here].of = kind /\ Unchanged
      /\ Down(signal.call, signal.arg) \/ Abort
  BY DEF RunCallback, This, Unchanged
<1>2. signal.call # "None" /\ pipe' = pipe
  BY <1>1 DEF Down, Send, Abort, Finish
<1>3. Keeps
  BY <1>1, <1>2, UnchangedKeeps
<1>4. /\ SourceIsAt(pipe, Src) /\ Here \in DOMAIN pipe /\ Here \in Nat /\ Src \in Nat
      /\ \A s \in Str : s \in Nat
  BY <1>2, <1>3, MoveFacts DEF StreamsInv
<1>5. (kind = "Task" => Here < Src) /\ (kind # "Task" => Here > Src)
  BY <1>1, <1>4, Places
<1>6. pipe[Here].kind \notin StreamToValue /\ Here \notin Str
  BY <1>1 DEF StreamToValue, Str, AreStreams, StreamKinds, Sources
<1>7. CASE Abort
  BY <1>2, <1>3, <1>7, FinishMove DEF Abort
<1>8. CASE Down(signal.call, signal.arg) /\ signal.call = "Begin"
  <2>1. Send("Begin", Here + 1, signal.arg) /\ Here > Src /\ Here + 1 \in DOMAIN pipe
    BY <1>1, <1>2, <1>5, <1>6, <1>8, FollowingHere DEF Down
  <2>2. IsAbove(signal.arg, Here)
    BY <1>8 DEF StreamsInv, StartOK, Here
  <2>3. IsAbove(signal.arg, Here + 1)
    BY <1>4, <1>6, <2>2 DEF IsAbove
  <2> QED BY <1>3, <1>4, <1>8, <2>1, <2>3, BeginMove
<1>9. CASE Down(signal.call, signal.arg) /\ signal.call # "Begin"
  <2>1. \/ signal.call \in {"Body", "Ended"}
        \/ signal.call \in {"Fail", "Stop"} /\ Here >= Src
        \/ signal.call \in {"Start", "Fail", "Stop"} /\ Here < Src
    BY <1>1, <1>4, <1>5, <1>9
  <2> QED BY <1>2, <1>3, <1>6, <1>9, <2>1, DownMove
<1> QED BY <1>1, <1>7, <1>8, <1>9

\* A value of an eventual goes past it, or the process ends.
LEMMA SuccessMoves ==
  ASSUME StreamsInv, SuccessStart \/ SuccessFail \/ SuccessStop
  PROVE  StreamsInv' /\ InTurn
<1>1. /\ pipe[Here].kind = "Success" /\ signal.call \in {"Start", "Fail", "Stop"} /\ Unchanged
      /\ Down(signal.call, 0) \/ Abort
  BY DEF SuccessStart, SuccessFail, SuccessStop, At, This
<1>2. signal.call # "None" /\ pipe' = pipe
  BY <1>1 DEF Down, Send, Abort, Finish
<1>3. Keeps
  BY <1>1, <1>2, UnchangedKeeps
<1>4. Here < Src
  BY <1>1, <1>2, <1>3, MoveFacts, Places DEF StreamsInv, ValueKinds
<1>5. CASE Abort
  BY <1>2, <1>3, <1>5, FinishMove DEF Abort
<1>6. CASE Down(signal.call, 0)
  BY <1>1, <1>2, <1>3, <1>4, <1>6, DownMove DEF StreamToValue
<1> QED BY <1>1, <1>5, <1>6

\* Tasks, generators and transformers, and their adaptors.
LEMMA ErasedMoves ==
  ASSUME StreamsInv, ErasedStep
  PROVE  StreamsInv' /\ InTurn
<1> USE DEF At, This, ErasedKinds
<1>1. CASE TaskStart \/ TaskFail \/ TaskStop
  <2>1. \/ /\ pipe[Here].kind = "Task" /\ signal.call \in {"Start", "Fail", "Stop"}
           /\ HeapCall(signal.call, 0)
        \/ pipe[Here].kind = "Task" /\ signal.call = "Fail" /\ SkipTo("Fail", 0)
    BY <1>1 DEF TaskStart, TaskFail, TaskStop, HeapTask
  <2> QED BY <2>1, HeapMove, SkipMove
<1>2. CASE GeneratorStart \/ GeneratorFail \/ GeneratorStop
  <2>1. \/ /\ pipe[Here].kind = "Generator" /\ signal.call \in {"Start", "Fail", "Stop"}
           /\ HeapCall(signal.call, 0)
        \/ pipe[Here].kind = "Generator" /\ signal.call = "Fail" /\ SkipTo("Fail", 0)
    BY <1>2 DEF GeneratorStart, GeneratorFail, GeneratorStop, HeapGenerator
  <2> QED BY <2>1, HeapMove, SkipMove
<1>3. CASE TransformerBody \/ TransformerFail \/ TransformerStop
  <2>1. \/ /\ pipe[Here].kind = "Transformer" /\ signal.call \in {"Fail", "Stop"}
           /\ HeapCall(signal.call, 0)
        \/ /\ pipe[Here].kind = "Transformer" /\ signal.call = "Body"
           /\ HeapCall("Body", signal.arg)
        \/ pipe[Here].kind = "Transformer" /\ signal.call = "Fail" /\ SkipTo("Fail", 0)
    BY <1>3 DEF TransformerBody, TransformerFail, TransformerStop, HeapTransformer
  <2> QED BY <2>1, HeapMove, SkipMove
<1>4. CASE TransformerBegin
  <2>1. /\ signal.call = "Begin" /\ pipe[Here].kind = "Transformer" /\ Unchanged
        /\ Send("Begin", Behind, signal.arg) /\ pipe' = pipe
    BY <1>4 DEF TransformerBegin, SkipTo, Send
  <2>2. Keeps /\ Following(Behind) /\ Behind > Src
    BY <2>1, UnchangedKeeps, FollowingBehind
  <2>3. IsAbove(signal.arg, Here) /\ Here \notin Str
    BY <2>1 DEF StreamsInv, StartOK, Here, Str, AreStreams, StreamKinds, Sources
  <2>4. Here \in Nat /\ \A s \in Str : s \in Nat
    BY <2>1, <2>2, MoveFacts
  <2>5. IsAbove(signal.arg, Behind) /\ Behind \in DOMAIN pipe
    BY <2>2, <2>3, <2>4 DEF IsAbove, Following
  <2> QED BY <2>1, <2>2, <2>5, BeginMove
<1>5. CASE TransformerEnded
  <2>1. /\ signal.call = "Ended" /\ pipe[Here].kind = "Transformer" /\ Unchanged
        /\ Send("Ended", Behind, 0) /\ pipe' = pipe
    BY <1>5 DEF TransformerEnded, SkipTo, Send
  <2>2. Keeps /\ Following(Behind)
    BY <2>1, UnchangedKeeps, FollowingBehind
  <2> QED BY <2>1, <2>2, EndMove
<1>6. CASE TaskCallback \/ GeneratorCallback \/ TransformerCallback
  <2>1. CASE TaskCallback
    BY <2>1, CallbackMove DEF TaskCallback
  <2>2. CASE GeneratorCallback
    BY <2>2, CallbackMove DEF GeneratorCallback
  <2>3. CASE TransformerCallback
    BY <2>3, CallbackMove DEF TransformerCallback
  <2> QED BY <1>6, <2>1, <2>2, <2>3
<1>7. CASE SuccessStart \/ SuccessFail \/ SuccessStop
  BY <1>7, SuccessMoves
<1> QED BY <1>1, <1>2, <1>3, <1>4, <1>5, <1>6, <1>7 DEF ErasedStep

\* Begin of a continuation that is no source: it hands on the stream it is given, or
\* itself.
LEMMA BeginDown ==
  ASSUME StreamsInv, NEW kind \in StreamToStream,
         IF kind \in StreamKinds THEN BeginAsStream(kind) ELSE BeginThrough(kind)
  PROVE  StreamsInv' /\ InTurn
<1> DEFINE a == IF kind \in StreamKinds THEN Here ELSE signal.arg
<1>1. /\ signal.call = "Begin" /\ pipe[Here].kind = kind /\ Send("Begin", Here + 1, a)
      /\ stream' = [stream EXCEPT ![Here] = signal.arg] /\ UNCHANGED memory
  BY DEF BeginThrough, BeginAsStream, At, This, Down
<1>2. pipe' = pipe /\ kind \notin StreamToValue
  BY <1>1 DEF Send, StreamToStream, StreamToValue
<1>3. Keeps /\ IsAbove(signal.arg, Here) /\ Here > Src
  BY <1>1, <1>2, LinkKeeps
<1>4. Here + 1 \in DOMAIN pipe
  BY <1>1, <1>2, FollowingHere
<1>5. /\ Here \in Nat /\ Here \in DOMAIN pipe /\ Src \in Nat
      /\ \A s \in Str : s \in Nat
  BY <1>1, <1>3, MoveFacts
<1>6. Here \in Str <=> kind \in StreamKinds
  BY <1>1, <1>5 DEF Str, AreStreams
<1>7. IsAbove(a, Here + 1) /\ Here + 1 > Src
  BY <1>3, <1>5, <1>6 DEF IsAbove
<1> HIDE DEF a
<1> QED BY <1>1, <1>3, <1>4, <1>7, BeginMove

\* A question from a stream that passes it on, or a value that is not handed on.
LEMMA UpUnchanged ==
  ASSUME StreamsInv, Unchanged, NEW call \in {"Next", "Done"}, Up(call),
         \/ signal.call = "Body"
         \/ signal.call \in {"Next", "Done"} /\ ~Emptying(Here)
            /\ (call = "Done" \/ signal.call = "Next"),
         call = "Done" => pipe[Here].kind # "TakeLast"
  PROVE  StreamsInv' /\ InTurn
<1>1. pipe' = pipe
  BY DEF Up, Send, Abort, Finish
<1>2. Keeps
  BY <1>1, UnchangedKeeps
<1>3. call = "Next" => ValueAsked
  BY DEF StreamsInv, TalkOK, Asking, Giving
<1> QED BY <1>2, <1>3, UpMove DEF Asking

\* Map, Filter and Until, which are no streams.
LEMMA PlainMoves ==
  ASSUME StreamsInv,
         \/ MapBegin \/ MapBody \/ MapEnds
         \/ FilterBegin \/ FilterBody \/ FilterEnds
         \/ UntilBegin \/ UntilBody \/ UntilEnds
  PROVE  StreamsInv' /\ InTurn
<1>1. CASE MapBegin \/ FilterBegin \/ UntilBegin
  <2> USE DEF StreamToStream, StreamKinds, Sources
  <2>1. ASSUME NEW kind \in {"Map", "Filter", "Until"}, BeginThrough(kind)
        PROVE  StreamsInv' /\ InTurn
    BY <2>1, BeginDown
  <2> QED BY <1>1, <2>1 DEF MapBegin, FilterBegin, UntilBegin
<1>2. CASE MapEnds \/ FilterEnds \/ UntilEnds
  <2> USE DEF ValueKinds, StreamToValue
  <2>1. CASE MapEnds
    BY <2>1, HandOnMove DEF MapEnds
  <2>2. CASE FilterEnds
    BY <2>2, HandOnMove DEF FilterEnds
  <2>3. CASE UntilEnds
    BY <2>3, HandOnMove DEF UntilEnds
  <2> QED BY <1>2, <2>1, <2>2, <2>3
<1>3. CASE MapBody \/ FilterBody \/ UntilBody
  <2>1. /\ signal.call = "Body" /\ pipe[Here].kind \in {"Map", "Filter", "Until"} /\ Unchanged
        /\ \/ \E x : Down("Body", x)
           \/ \E c \in {"Fail", "Stop"} : Down(c, 0)
           \/ Up("Next") \/ Up("Done")
    BY <1>3 DEF MapBody, FilterBody, UntilBody, At, This, Outcome
  <2>2. CASE Up("Next") \/ Up("Done")
    BY <2>1, <2>2, UpUnchanged
  <2>3. CASE \/ \E x : Down("Body", x)
             \/ \E c \in {"Fail", "Stop"} : Down(c, 0)
    <3>1. Keeps
      BY <2>1, <2>3, UnchangedKeeps DEF Down, Send
    <3>2. Here >= Src
      BY <2>1, <3>1, MoveFacts, Places DEF StreamsInv, StreamToStream
    <3> QED BY <2>1, <2>3, <3>1, <3>2, DownMove DEF StreamToValue
  <2> QED BY <2>1, <2>2, <2>3
<1> QED BY <1>1, <1>2, <1>3

\* TakeRange and TakeFirst.
LEMMA TakeRangeMoves ==
  ASSUME StreamsInv,
         TakeRangeBegin \/ TakeRangeBody \/ TakeRangeNext \/ TakeRangeDone \/ TakeRangeEnds
  PROVE  StreamsInv' /\ InTurn
<1>1. CASE TakeRangeBegin
  BY <1>1, BeginDown DEF TakeRangeBegin, StreamToStream, StreamKinds
<1>2. CASE TakeRangeEnds
  BY <1>2, HandOnMove DEF TakeRangeEnds, ValueKinds, StreamToValue
<1>3. ASSUME pipe[Here].kind = "TakeRange" PROVE ~Emptying(Here)
  BY <1>3 DEF Emptying
<1>4. CASE TakeRangeNext \/ TakeRangeDone
  <2>1. /\ pipe[Here].kind = "TakeRange" /\ signal.call \in {"Next", "Done"} /\ Unchanged
        /\ \/ Up("Next") /\ signal.call = "Next"
           \/ Up("Done") \/ Abort
    BY <1>4 DEF TakeRangeNext, TakeRangeDone, At, This
  <2>2. CASE Abort
    BY <2>1, <2>2, FinishMove, UnchangedKeeps DEF Abort, Finish
  <2>3. CASE (Up("Next") /\ signal.call = "Next") \/ Up("Done")
    BY <1>3, <2>1, <2>3, UpUnchanged
  <2> QED BY <2>1, <2>2, <2>3
<1>5. CASE TakeRangeBody
  <2>1. /\ pipe[Here].kind = "TakeRange" /\ signal.call = "Body" /\ stream' = stream
        /\ Remember([Mine EXCEPT !.i = Mine.i + 1]) \/ UNCHANGED memory
        /\ Down("Body", signal.arg) \/ Up("Next") \/ Up("Done") \/ Abort
    BY <1>5 DEF TakeRangeBody, At, This
  <2>2. pipe' = pipe
    BY <2>1 DEF Down, Up, Send, Abort, Finish
  <2>3. Keeps
    BY <2>1, <2>2, CountKeeps, UnchangedKeeps DEF Unchanged
  <2>4. ValueAsked
    BY <2>1 DEF StreamsInv, TalkOK, Giving
  <2>5. CASE Abort
    BY <2>1, <2>3, <2>5, FinishMove DEF Abort
  <2>6. CASE Up("Next") \/ Up("Done")
    BY <2>1, <2>3, <2>4, <2>6, UpMove
  <2>7. CASE Down("Body", signal.arg)
    BY <2>1, <2>3, <2>7, DownMove DEF StreamToValue
  <2> QED BY <2>1, <2>5, <2>6, <2>7
<1> QED BY <1>1, <1>2, <1>4, <1>5

\* TakeLast, the only one that answers for a stream that has ended.
LEMMA TakeLastMoves ==
  ASSUME StreamsInv,
         \/ TakeLastBegin \/ TakeLastBody \/ TakeLastEnded \/ TakeLastNext \/ TakeLastDone
         \/ TakeLastFails
  PROVE  StreamsInv' /\ InTurn
<1>1. CASE TakeLastBegin
  BY <1>1, BeginDown DEF TakeLastBegin, StreamToStream, StreamKinds
<1>2. CASE TakeLastFails
  BY <1>2, HandOnMove DEF TakeLastFails, ValueKinds, StreamToValue
<1>3. CASE TakeLastBody
  <2>1. /\ pipe[Here].kind = "TakeLast" /\ signal.call = "Body" /\ stream' = stream
        /\ UNCHANGED memory \/ \E d : Remember([Mine EXCEPT !.data = d])
        /\ Up("Next") \/ Abort
    BY <1>3 DEF TakeLastBody, At, This
  <2>2. pipe' = pipe
    BY <2>1 DEF Up, Send, Abort, Finish
  <2>3. Keeps
    BY <2>1, <2>2, DataKeeps, UnchangedKeeps DEF Unchanged
  <2>4. ValueAsked
    BY <2>1 DEF StreamsInv, TalkOK, Giving
  <2>5. CASE Abort
    BY <2>1, <2>3, <2>5, FinishMove DEF Abort
  <2>6. CASE Up("Next")
    BY <2>1, <2>3, <2>4, <2>6, UpMove
  <2> QED BY <2>1, <2>5, <2>6
<1>4. CASE TakeLastNext
  <2>1. pipe[Here].kind = "TakeLast" /\ signal.call = "Next" /\ stream' = stream
    BY <1>4 DEF TakeLastNext, At, This
  <2>2. CASE ~Mine.ended
    <3>1. Up("Next") /\ Unchanged
      BY <1>4, <2>2 DEF TakeLastNext, Unchanged
    <3>2. ~Emptying(Here)
      BY <2>2 DEF Emptying, Mine
    <3> QED BY <2>1, <3>1, <3>2, UpUnchanged
  <2>3. CASE Mine.ended
    <3>1. \/ Down("Ended", 0) /\ UNCHANGED memory
          \/ Down("Body", Head(Mine.data)) /\ Remember([Mine EXCEPT !.data = Tail(Mine.data)])
      BY <1>4, <2>3 DEF TakeLastNext
    <3>2. Keeps
      BY <2>1, <3>1, DataKeeps, UnchangedKeeps DEF Unchanged, Down, Send
    <3> QED BY <2>1, <3>1, <3>2, DownMove DEF StreamToValue
  <2> QED BY <2>2, <2>3
<1>5. CASE TakeLastDone
  <2>1. /\ pipe[Here].kind = "TakeLast" /\ signal.call = "Done" /\ Down("Ended", 0) /\ Unchanged
    BY <1>5 DEF TakeLastDone, At, This
  <2>2. Keeps
    BY <2>1, UnchangedKeeps DEF Down, Send
  <2> QED BY <2>1, <2>2, DownMove DEF StreamToValue
<1>6. CASE TakeLastEnded
  <2>1. /\ pipe[Here].kind = "TakeLast" /\ signal.call = "Ended" /\ stream' = stream
        /\ Abort \/ \E x : Down("Body", x)
        /\ \/ Remember([Mine EXCEPT !.ended = TRUE, !.data = Tail(Mine.data)])
           \/ Remember([Mine EXCEPT !.ended = TRUE])
    BY <1>6 DEF TakeLastEnded, At, This
  <2>2. PICK r : Remember(r) /\ \/ r = [Mine EXCEPT !.ended = TRUE, !.data = Tail(Mine.data)]
                                \/ r = [Mine EXCEPT !.ended = TRUE]
    BY <2>1
  <2>3. MembersOK /\ Here \in DOMAIN pipe /\ Here = signal.at /\ Mine \in Members(Mine)
    BY <2>1 DEF StreamsInv, CallOK, MembersOK, Mine, Here
  <2>4. r.ended = TRUE /\ r \in Members(r)
    BY <2>2, <2>3 DEF Members
  <2>5. /\ memory'[Here] = r /\ DOMAIN memory' = DOMAIN memory /\ pipe' = pipe
        /\ \A k \in DOMAIN pipe : k # Here => memory'[k] = memory[k]
    BY <2>1, <2>2, <2>3 DEF Remember, MembersOK, Abort, Finish, Down, Send
  <2>6. MembersOK'
    BY <2>3, <2>4, <2>5 DEF MembersOK, Members
  <2>7. CASE \E x : Down("Body", x)
    <3>1. PICK x : Send("Body", Here + 1, x)
      BY <2>7 DEF Down
    <3>2. PICK p, q : p = Here /\ q = p + 1
      OBVIOUS
    <3> QED BY <2>1, <2>4, <2>5, <2>6, <3>1, <3>2, EmptyMove
  <2>8. CASE Abort
    <3>1. signal'.call = "None" /\ result'.call = "Abort" /\ asked' = asked
      BY <2>8 DEF Abort, Finish, Nothing
    <3>2. LinksOK' /\ SourceIsAt(pipe, Src)'
      BY <2>1, <2>5 DEF StreamsInv, LinksOK, IsAbove, Str, Src
    <3>3. CallOK' /\ StartOK' /\ TalkOK' /\ NoStreamLeftOpen' /\ InTurn
      BY <2>5, <3>1 DEF StreamsInv, CallOK, StartOK, TalkOK, Asking, Giving, NoStreamLeftOpen,
                        InTurn
    <3> QED BY <2>6, <3>2, <3>3 DEF StreamsInv
  <2> QED BY <2>1, <2>7, <2>8
<1> QED BY <1>1, <1>2, <1>3, <1>4, <1>5, <1>6

\* FlatMap and its inner stream.
LEMMA FlatMapMoves ==
  ASSUME StreamsInv, FlatMapStep
  PROVE  StreamsInv' /\ InTurn
<1>1. CASE FlatMapBegin
  BY <1>1, BeginDown DEF FlatMapBegin, StreamToStream, StreamKinds
<1>2. CASE FlatMapFails
  BY <1>2, HandOnMove DEF FlatMapFails, ValueKinds, StreamToValue
<1>3. /\ pipe[Here].kind = "FlatMap" /\ signal.call # "None"
      /\ Mine \in Members(Mine) /\ ~Emptying(Here)
  <2>1. pipe[Here].kind = "FlatMap" /\ signal.call # "None"
    BY DEF FlatMapStep, FlatMapBegin, FlatMapBody, FlatMapEnded, FlatMapNext, FlatMapDone,
           FlatMapFails, FlatMapStop, AdaptorBegin, AdaptorEnded, InnerNext, InnerDone,
           BeginAsStream, HandOn, At, This
  <2> QED BY <2>1 DEF StreamsInv, CallOK, MembersOK, Mine, Here, Emptying
<1>4. CASE FlatMapBody
  <2> DEFINE out == Outcome(This, signal.arg)
             end == IF out = "Start" THEN "Ended" ELSE out
             r == [Mine EXCEPT !.adapted = "started", !.data = This.f[signal.arg], !.tail = end]
  <2>1. /\ signal.call = "Body" /\ stream' = stream
        /\ \/ Abort /\ UNCHANGED memory
           \/ Inner("InnerBegin", 0) /\ Remember(r)
    BY <1>4 DEF FlatMapBody, At
  <2>2. CASE Abort /\ UNCHANGED memory
    BY <1>3, <2>1, <2>2, FinishMove, UnchangedKeeps DEF Unchanged, Abort, Finish
  <2>3. CASE Inner("InnerBegin", 0) /\ Remember(r)
    <3>1. end \in {"Ended", "Fail", "Stop"}
      BY DEF Outcome
    <3> HIDE DEF end
    <3>2. r \in Members(r) /\ r.ended = Mine.ended /\ r.done = Mine.done
      BY <1>3, <3>1 DEF Members
    <3> HIDE DEF r
    <3>3. Keeps
      BY <1>3, <2>1, <2>3, <3>2, RememberKeeps DEF Inner
    <3>4. ValueAsked
      BY <2>1 DEF StreamsInv, TalkOK, Giving
    <3> QED BY <1>3, <2>1, <2>3, <3>3, <3>4, InnerMove
  <2> QED BY <2>1, <2>2, <2>3
<1>5. CASE AdaptorBegin
  <2>1. /\ signal.call = "InnerBegin" /\ stream' = stream
        /\ \/ Abort /\ UNCHANGED memory
           \/ Inner("InnerNext", 0) /\ Remember([Mine EXCEPT !.adapted = "begun"])
    BY <1>5 DEF AdaptorBegin, At
  <2>2. CASE Abort /\ UNCHANGED memory
    BY <1>3, <2>1, <2>2, FinishMove, UnchangedKeeps DEF Unchanged, Abort, Finish
  <2>3. CASE Inner("InnerNext", 0) /\ Remember([Mine EXCEPT !.adapted = "begun"])
    <3> DEFINE r == [Mine EXCEPT !.adapted = "begun"]
    <3>1. r \in Members(r) /\ r.ended = Mine.ended /\ r.done = Mine.done /\ Remember(r)
      BY <1>3, <2>3 DEF Members
    <3> HIDE DEF r
    <3>2. Keeps
      BY <1>3, <2>1, <2>3, <3>1, RememberKeeps DEF Inner
    <3>3. ValueAsked
      BY <2>1 DEF StreamsInv, TalkOK, Asking
    <3> QED BY <1>3, <2>1, <2>3, <3>2, <3>3, InnerMove DEF Asking
  <2> QED BY <2>1, <2>2, <2>3
<1>6. CASE InnerNext
  <2>1. signal.call = "InnerNext" /\ stream' = stream
    BY <1>6 DEF InnerNext, At
  <2>2. ValueAsked
    BY <2>1 DEF StreamsInv, TalkOK, Asking
  <2>3. CASE Mine.data # <<>>
    <3>1. Down("Body", Head(Mine.data)) /\ Remember([Mine EXCEPT !.data = Tail(Mine.data)])
      BY <1>6, <2>3 DEF InnerNext
    <3>2. Keeps
      BY <2>1, <3>1, DataKeeps DEF Down, Send
    <3> QED BY <1>3, <2>1, <3>1, <3>2, DownMove DEF StreamToValue
  <2>4. CASE Mine.data = <<>> /\ Mine.tail = "Ended"
    <3>1. Inner("InnerEnded", 0) /\ UNCHANGED memory
      BY <1>6, <2>4 DEF InnerNext
    <3>2. Keeps
      BY <2>1, <3>1, UnchangedKeeps DEF Inner, Unchanged
    <3> QED BY <1>3, <2>1, <2>2, <3>1, <3>2, InnerMove DEF Asking
  <2>5. CASE Mine.data = <<>> /\ Mine.tail # "Ended"
    <3> DEFINE r == [Mine EXCEPT !.done = Mine.done \/ Mine.tail = "Stop"]
    <3>1. Down(Mine.tail, 0) /\ Remember(r)
      BY <1>6, <2>5 DEF InnerNext
    <3>2. Mine.tail \in {"Fail", "Stop"} /\ Mine.done \in BOOLEAN
      BY <1>3, <2>5 DEF Members
    <3>3. r \in Members(r) /\ r.ended = Mine.ended /\ (Mine.done => r.done)
      BY <1>3, <3>2 DEF Members
    <3> HIDE DEF r
    <3>4. Keeps
      BY <1>3, <2>1, <3>1, <3>3, RememberKeeps DEF Down, Send
    <3>5. Here >= Src
      BY <1>3, <3>4, MoveFacts, Places DEF StreamsInv, StreamToStream
    <3> QED BY <1>3, <3>1, <3>2, <3>4, <3>5, DownMove DEF StreamToValue
  <2> QED BY <2>3, <2>4, <2>5
<1>7. CASE InnerDone
  <2>1. signal.call = "InnerDone" /\ Inner("InnerEnded", 0) /\ Unchanged
    BY <1>7 DEF InnerDone, At
  <2>2. Keeps /\ memory' = memory
    BY <2>1, UnchangedKeeps DEF Inner, Unchanged
  <2>3. memory[Here].done
    BY <2>1 DEF StreamsInv, TalkOK, Asking, Here
  <2> QED BY <1>3, <2>1, <2>2, <2>3, InnerMove DEF Asking
<1>8. CASE AdaptorEnded
  <2>1. /\ signal.call = "InnerEnded" /\ stream' = stream
        /\ \/ Abort /\ UNCHANGED memory
           \/ /\ Remember([Mine EXCEPT !.adapted = "no"])
              /\ IF Mine.done THEN Up("Done") ELSE Up("Next")
    BY <1>8 DEF AdaptorEnded, At
  <2>2. CASE Abort /\ UNCHANGED memory
    BY <1>3, <2>1, <2>2, FinishMove, UnchangedKeeps DEF Unchanged, Abort, Finish
  <2>3. CASE /\ Remember([Mine EXCEPT !.adapted = "no"])
             /\ IF Mine.done THEN Up("Done") ELSE Up("Next")
    <3> DEFINE r == [Mine EXCEPT !.adapted = "no"]
    <3>1. r \in Members(r) /\ r.ended = Mine.ended /\ r.done = Mine.done /\ Remember(r)
      BY <1>3, <2>3 DEF Members
    <3> HIDE DEF r
    <3>2. pipe' = pipe
      BY <2>3 DEF Up, Send, Abort, Finish
    <3>3. Keeps
      BY <1>3, <2>1, <3>1, <3>2, RememberKeeps
    <3>4. ValueAsked \/ Mine.done
      BY <2>1 DEF StreamsInv, TalkOK, Asking, Mine, Here
    <3> QED BY <1>3, <2>1, <2>3, <3>3, <3>4, UpMove DEF Asking
  <2> QED BY <2>1, <2>2, <2>3
<1>9. CASE FlatMapEnded
  <2>1. signal.call = "Ended" /\ Unchanged /\ (Down("Ended", 0) \/ Abort)
    BY <1>9 DEF FlatMapEnded, At
  <2>2. Keeps
    BY <2>1, UnchangedKeeps DEF Down, Send, Abort, Finish
  <2>3. CASE Down("Ended", 0)
    BY <1>3, <2>1, <2>2, <2>3, DownMove DEF StreamToValue
  <2>4. CASE Abort
    BY <1>3, <2>2, <2>4, FinishMove DEF Abort
  <2> QED BY <2>1, <2>3, <2>4
<1>10. CASE FlatMapNext
  <2>1. signal.call = "Next" /\ Unchanged /\ (Up("Next") \/ Inner("InnerNext", 0) \/ Abort)
    BY <1>10 DEF FlatMapNext, At
  <2>2. Keeps
    BY <2>1, UnchangedKeeps DEF Up, Send, Inner, Abort, Finish
  <2>3. CASE Up("Next")
    BY <1>3, <2>1, <2>3, UpUnchanged
  <2>4. CASE Inner("InnerNext", 0)
    <3>1. ValueAsked
      BY <2>1 DEF StreamsInv, TalkOK, Asking
    <3> QED BY <1>3, <2>1, <2>2, <2>4, <3>1, InnerMove DEF Asking
  <2>5. CASE Abort
    BY <1>3, <2>2, <2>5, FinishMove DEF Abort
  <2> QED BY <2>1, <2>3, <2>4, <2>5
<1>11. CASE FlatMapDone \/ FlatMapStop
  <2> DEFINE r == [Mine EXCEPT !.done = TRUE]
  <2>1. /\ signal.call \in {"Done", "Stop"} /\ stream' = stream /\ Remember(r)
        /\ \/ signal.call = "Done" /\ (Up("Done") \/ Inner("InnerDone", 0) \/ Abort)
           \/ signal.call = "Stop" /\ Down("Stop", 0)
    BY <1>11 DEF FlatMapDone, FlatMapStop, At
  <2>2. r \in Members(r) /\ r.ended = Mine.ended /\ r.done = TRUE
    BY <1>3 DEF Members
  <2> HIDE DEF r
  <2>3. pipe' = pipe
    BY <2>1 DEF Up, Down, Send, Inner, Abort, Finish
  <2>4. Keeps /\ memory'[Here] = r
    BY <1>3, <2>1, <2>2, <2>3, RememberKeeps
  <2>5. CASE signal.call = "Done" /\ Up("Done")
    BY <1>3, <2>4, <2>5, UpMove DEF Asking
  <2>6. CASE signal.call = "Done" /\ Inner("InnerDone", 0)
    BY <1>3, <2>2, <2>4, <2>6, InnerMove DEF Asking
  <2>7. CASE Abort
    BY <1>3, <2>4, <2>7, FinishMove DEF Abort
  <2>8. CASE signal.call = "Stop" /\ Down("Stop", 0)
    <3>1. Here >= Src
      BY <1>3, <2>4, MoveFacts, Places DEF StreamsInv, StreamToStream
    <3> QED BY <1>3, <2>4, <2>8, <3>1, DownMove DEF StreamToValue
  <2> QED BY <2>1, <2>5, <2>6, <2>7, <2>8
<1> QED BY <1>1, <1>2, <1>4, <1>5, <1>6, <1>7, <1>8, <1>9, <1>10, <1>11 DEF FlatMapStep

\* Loop, Collect, Head and Reduce.
LEMMA SinkMoves ==
  ASSUME StreamsInv, SinkStep
  PROVE  StreamsInv' /\ InTurn
<1> USE DEF StreamToValue
<1>1. CASE LoopBegin \/ HeadBegin \/ ReduceBegin
  <2>1. /\ signal.call = "Begin" /\ pipe[Here].kind \in StreamToValue
        /\ stream' = [stream EXCEPT ![Here] = signal.arg] /\ UNCHANGED memory
        /\ Send("Next", signal.arg, 0)
    BY <1>1 DEF LoopBegin, HeadBegin, ReduceBegin, BeginAndAsk, At, This
  <2>2. Keeps
    BY <2>1, LinkKeeps DEF Send
  <2> QED BY <2>1, <2>2, FirstQuestion
<1>2. CASE LoopFails \/ HeadFails \/ ReduceFails
  <2>1. signal.call \in {"Fail", "Stop"} /\ Finish(signal.call, <<>>) /\ Unchanged
    BY <1>2 DEF LoopFails, HeadFails, ReduceFails, FinishAs, Unchanged
  <2>2. Keeps
    BY <2>1, UnchangedKeeps DEF Finish
  <2> QED BY <2>1, <2>2, FinishMove
<1>3. CASE LoopEnded \/ HeadEnded \/ ReduceEnded
  <2>1. /\ signal.call = "Ended" /\ pipe[Here].kind \in StreamToValue /\ Unchanged
        /\ Finish("Start", Mine.data) \/ Finish("Fail", <<>>)
    BY <1>3 DEF LoopEnded, HeadEnded, ReduceEnded, At, This
  <2>2. Keeps
    BY <2>1, UnchangedKeeps DEF Finish
  <2> QED BY <2>1, <2>2, FinishMove
<1>4. CASE LoopBody
  BY <1>4, UpUnchanged DEF LoopBody, At
<1>5. CASE CollectBody \/ HeadBody \/ ReduceBody
  <2>1. /\ signal.call = "Body" /\ pipe[Here].kind \in StreamToValue /\ stream' = stream
        /\ \/ /\ \E d : Remember([Mine EXCEPT !.data = d])
              /\ Up("Next") \/ Up("Done")
           \/ UNCHANGED memory /\ \E c \in {"Fail", "Stop"} : Finish(c, <<>>)
    BY <1>5 DEF CollectBody, HeadBody, ReduceBody, At, This, Outcome
  <2>2. CASE UNCHANGED memory /\ \E c \in {"Fail", "Stop"} : Finish(c, <<>>)
    BY <2>1, <2>2, FinishMove, UnchangedKeeps DEF Unchanged, Finish
  <2>3. CASE /\ \E d : Remember([Mine EXCEPT !.data = d])
             /\ Up("Next") \/ Up("Done")
    <3>1. pipe' = pipe
      BY <2>3 DEF Up, Send, Abort, Finish
    <3>2. Keeps
      BY <2>1, <2>3, <3>1, DataKeeps
    <3>3. ValueAsked
      BY <2>1 DEF StreamsInv, TalkOK, Giving
    <3> QED BY <2>1, <2>3, <3>2, <3>3, UpMove
  <2> QED BY <2>1, <2>2, <2>3
<1> QED BY <1>1, <1>2, <1>3, <1>4, <1>5 DEF SinkStep

-----------------------------------------------------------------------------
(* The theorems.                                                            *)

\* Before the first call.
LEMMA StreamsStarts ==
  ASSUME StreamsInit
  PROVE  StreamsInv
<1>1. SourceIsAt(pipe, Src)
  <2>1. WellFormed(pipe)
    BY PipelinesAssumption DEF StreamsInit
  <2> QED BY <2>1 DEF WellFormed, Src
<1>2. Len(pipe) \in Nat /\ DOMAIN pipe = 1..Len(pipe) /\ Src \in 1..(Len(pipe) - 1)
  BY <1>1 DEF SourceIsAt
<1>3. /\ memory = [s \in DOMAIN pipe |-> Fresh(pipe[s])]
      /\ stream = [s \in DOMAIN pipe |-> 0]
      /\ signal = [call |-> "Start", at |-> 1, arg |-> 0]
      /\ result = Pending /\ asked = [s \in DOMAIN pipe |-> "No"]
  BY DEF StreamsInit
<1>4. MembersOK
  BY <1>3 DEF MembersOK, Members, Fresh
<1>5. \A s \in Str : s \in DOMAIN pipe /\ memory[s].ended = FALSE
  BY <1>3 DEF Str, AreStreams, Fresh
<1>6. LinksOK /\ CallOK /\ TalkOK /\ NoStreamLeftOpen
  BY <1>2, <1>3 DEF LinksOK, CallOK, TalkOK, Asking, Giving, NoStreamLeftOpen, Pending
<1>7. StartOK
  <2>1. \A s \in Str : asked[s] = "No" /\ ~Emptying(s)
    BY <1>3, <1>5 DEF Emptying
  <2>2. signal.call = "Start" /\ signal.at = 1 /\ 1 <= Src
    BY <1>2, <1>3
  <2> QED BY <2>1, <2>2 DEF StartOK
<1> QED BY <1>1, <1>4, <1>6, <1>7 DEF StreamsInv

\* Every step keeps the invariant, and speaks in turn.
LEMMA StreamsStep ==
  ASSUME StreamsInv, [StreamsNext]_streamVars
  PROVE  StreamsInv' /\ [InTurn]_streamVars
<1>1. CASE StreamsNext
  <2>1. SourceStep \/ ErasedStep \/ TransformerStep \/ FlatMapStep \/ SinkStep
    BY <1>1 DEF StreamsNext
  <2>2. CASE SourceStep
    BY <2>2, SourceMoves
  <2>3. CASE ErasedStep
    BY <2>3, ErasedMoves
  <2>4. CASE TransformerStep
    BY <2>4, PlainMoves, TakeRangeMoves, TakeLastMoves DEF TransformerStep
  <2>5. CASE FlatMapStep
    BY <2>5, FlatMapMoves
  <2>6. CASE SinkStep
    BY <2>6, SinkMoves
  <2> QED BY <2>1, <2>2, <2>3, <2>4, <2>5, <2>6
<1>2. CASE UNCHANGED streamVars
  <2>1. /\ pipe' = pipe /\ memory' = memory /\ stream' = stream /\ signal' = signal
        /\ result' = result /\ asked' = asked
    BY <1>2 DEF streamVars
  <2>2. Src' = Src /\ Str' = Str
    BY <2>1 DEF Src, Str
  <2>3. SourceIsAt(pipe, Src)'
    BY <2>1, <2>2 DEF StreamsInv
  <2>4. MembersOK' /\ LinksOK' /\ CallOK' /\ StartOK' /\ NoStreamLeftOpen'
    BY <2>1, <2>2 DEF StreamsInv, MembersOK, Members, LinksOK, IsAbove, CallOK, StartOK, Emptying,
                      NoStreamLeftOpen
  <2>5. /\ \A s : ClosedAbove(s)' <=> ClosedAbove(s)
        /\ \A s : Emptying(s)' <=> Emptying(s)
        /\ \A s : Reached(s)' <=> Reached(s)
        /\ \A s, k : IsAbove(s, k)' <=> IsAbove(s, k)
    BY <2>1, <2>2 DEF ClosedAbove, CalledOff, Emptying, Reached, IsAbove
  <2>6. /\ AnswersOwed' <=> AnswersOwed
        /\ StaysBelow' <=> StaysBelow
        /\ DoneStops' <=> DoneStops
        /\ ValueAsked' <=> ValueAsked
    BY <2>1, <2>2, <2>5 DEF AnswersOwed, Owes, StaysBelow, DoneStops, ValueAsked
  <2>7. TalkOK'
    BY <2>1, <2>2, <2>5, <2>6 DEF StreamsInv, TalkOK
  <2> QED BY <1>2, <2>3, <2>4, <2>7 DEF StreamsInv
<1> QED BY <1>1, <1>2

(* In every pipeline that the types of its eventuals allow, questions and   *)
(* answers pass as StreamsInv says (TypeErasedStream's Next and Done, and   *)
(* Body and Ended of the continuation below).                               *)
THEOREM StreamsInvariant ==
  StreamsSpec => []StreamsInv
<1>1. StreamsInit => StreamsInv
  BY StreamsStarts DEF StreamsInit
<1>2. StreamsInv /\ [StreamsNext]_streamVars => StreamsInv'
  BY StreamsStep
<1> QED BY <1>1, <1>2, PTL DEF StreamsSpec

(* A pipeline that has its value has told every stream Done or has seen it  *)
(* end, except above a TakeLast that was called off (TakeLast::Done).       *)
THEOREM StreamsNoStreamLeftOpen ==
  StreamsSpec => []NoStreamLeftOpen
<1>1. StreamsInv => NoStreamLeftOpen
  BY DEF StreamsInv
<1>2. StreamsSpec => []StreamsInv
  BY StreamsInvariant
<1> QED BY <1>1, <1>2, PTL

(* No continuation of a pipeline asks a stream that owes an answer or is    *)
(* over, gives a value nobody asked for, or ends a stream unasked           *)
(* (stream.h:8-10).                                                         *)
THEOREM StreamsAskedThenAnswered ==
  StreamsSpec => AskedThenAnswered
<1>1. StreamsInv /\ [StreamsNext]_streamVars => [InTurn]_streamVars
  BY StreamsStep
<1>2. StreamsSpec => []StreamsInv
  BY StreamsInvariant
<1> QED BY <1>1, <1>2, PTL DEF StreamsSpec, AskedThenAnswered

=============================================================================

----------------------------- MODULE Concurrent -----------------------------
(***************************************************************************)
(* Concurrent (eventuals/concurrent.h): the elements of an upstream stream *)
(* are handled by fibers that run concurrently and whose values are handed *)
(* downstream one at a time.                                               *)
(*                                                                         *)
(* Five parties share the state of the adaptor: the ingress, which asks    *)
(* upstream for elements and starts a fiber for each; the fibers; the      *)
(* egress, which downstream asks for values; WaitForDone; and the handler  *)
(* of an interrupt.  Everything they do to the shared state they do in a   *)
(* Synchronized() block, that is holding one Lock, so such a block is one  *)
(* action (LockProofs.tla proves the exclusion).  What a party does before *)
(* and after its block interleaves with the others.                        *)
(*                                                                         *)
(* External: what is upstream and downstream, and the generator f whose    *)
(* eventuals the fibers run, do what their interfaces let them do.         *)
(***************************************************************************)
EXTENDS Naturals, Sequences

CONSTANTS MaxElements,   \* bound on the elements upstream emits
          MaxYields      \* bound on the values a fiber makes of one element

ASSUME ConcurrentAssumption == MaxElements \in Nat /\ MaxYields \in Nat

\* There is at most one fiber for every element; fiber s is the s-th in the
\* linked list fibers_.
Fibers == 1..MaxElements
Upstream == 0

VARIABLES
  ingress,         \* where the ingress is
  element,         \* how many elements upstream has emitted
  starting,        \* the fiber CreateOrReuseFiber returned to the ingress
  fiber,           \* what each fiber does
  inUse,           \* the fibers whose context is in use: a thread runs them
  triggered,       \* the fibers whose interrupt was triggered
  yields,          \* how many values each fiber has made of its element
  values,          \* values_
  upstreamDone, downstreamDone, fibersDone, interrupted,  \* the flags
  stoppedOrError,  \* stopped_or_error_: nothing, or how it came about
  downstream,      \* where the egress, and downstream with it, is
  waitForDone,     \* where WaitForDone is
  trigger,         \* whether the pipeline's interrupt was triggered
  handler,         \* handler_ of Concurrent: its callback and its state
  first,           \* the first failure or stop of upstream or a fiber
  fiberRaised,     \* whether a fiber failed or stopped
  reported,        \* what the egress reported downstream at the end
  emitted,         \* how many values the fibers made; they are numbered
  received         \* the values downstream got, in order

sharedVars == <<values, upstreamDone, downstreamDone, fibersDone, interrupted, stoppedOrError>>
fiberVars == <<fiber, inUse, triggered, yields>>
history == <<first, fiberRaised, reported, emitted, received>>
vars == <<ingress, element, starting, fiberVars, sharedVars, downstream, waitForDone, trigger,
          handler, history>>

None == <<>>

\* Continuation::Begin has run: WaitForDone waits, downstream may ask.
Init ==
  /\ ingress = "unbegun" /\ element = 0 /\ starting = 0
  /\ fiber = [s \in Fibers |-> "none"]
  /\ inUse = {} /\ triggered = {}
  /\ yields = [s \in Fibers |-> 0]
  /\ values = <<>>
  /\ upstreamDone = FALSE /\ downstreamDone = FALSE /\ fibersDone = FALSE /\ interrupted = FALSE
  /\ stoppedOrError = None
  /\ downstream = "idle" /\ waitForDone = "waiting"
  /\ trigger = FALSE /\ handler = "armed"
  /\ first = None /\ fiberRaised = FALSE /\ reported = None /\ emitted = 0 /\ received = <<>>

-----------------------------------------------------------------------------
(* What the blocks have in common.                                         *)

\* The fibers that are not done.
Unfinished(f) == {s \in Fibers : f[s] \in {"created", "running"}}

\* notify_egress_(): an egress that waits evaluates its condition again.
NotifyEgress(d) == IF d = "waiting" THEN "acquire" ELSE d

\* notify_done_(), as above.
NotifyDone == IF waitForDone = "waiting" THEN "acquire" ELSE waitForDone

\* if (upstream_done_ && fibers_done_) { notify_egress_(); notify_done_(); }
NotifyIfDone ==
  IF upstreamDone' /\ fibersDone'
    THEN downstream' = NotifyEgress(downstream) /\ waitForDone' = NotifyDone
    ELSE UNCHANGED <<downstream, waitForDone>>

\* Mutant of InterruptFibers: a fiber that is not yet started is passed over.
InterruptFibersStarted ==
  /\ triggered' = triggered \cup {s \in Fibers : fiber'[s] = "running"}
  /\ fibersDone' = (Unfinished(fiber') = {})

\* fibers_done_ = !InterruptFibers(), once fiber is as it is in the next state.
InterruptFibers ==
  /\ triggered' = triggered \cup Unfinished(fiber')
  /\ fibersDone' = (Unfinished(fiber') = {})

\* Mutant of Raise: a later failure or stop replaces the first one.
RaiseLast(who, outcome) ==
  /\ first' = IF first = None THEN <<who, outcome>> ELSE first
  /\ fiberRaised' = (fiberRaised \/ who # Upstream)
  /\ stoppedOrError' = <<who, outcome>>

\* Keep the first failure or stop.
Raise(who, outcome) ==
  /\ first' = IF first = None THEN <<who, outcome>> ELSE first
  /\ fiberRaised' = (fiberRaised \/ who # Upstream)
  /\ stoppedOrError' = IF stoppedOrError = None THEN <<who, outcome>> ELSE stoppedOrError

-----------------------------------------------------------------------------
(* Ingress.                                                                *)

\* Continuation::Next, the first time, once the egress has gone down: Begin.
BeginIngress ==
  /\ ingress = "unbegun"
  /\ downstream = "waiting"
  /\ ingress' = "next"
  /\ UNCHANGED <<element, starting, fiberVars, sharedVars, downstream, waitForDone, trigger,
                 handler, history>>

\* Continuation::Body: install the handler of the interrupt, or run it if the
\* interrupt was triggered; the element is handled in either case.  A handler
\* that has been run is without a callback and fails the CHECK for one.
Body ==
  /\ ingress = "next"
  /\ element < MaxElements
  /\ element' = element + 1
  /\ ingress' = IF handler \in {"armed", "installed"} THEN "body" ELSE "aborted"
  /\ handler' = IF handler = "armed"
                  THEN IF trigger THEN "executing" ELSE "installed"
                  ELSE handler
  /\ UNCHANGED <<starting, fiberVars, sharedVars, downstream, waitForDone, trigger, history>>

\* Upstream ends, fails or stops, asked for the next element or told it is done.
UpstreamEnds(outcome) ==
  /\ ingress \in {"next", "done"}
  /\ ingress' = outcome
  /\ UNCHANGED <<element, starting, fiberVars, sharedVars, downstream, waitForDone, trigger,
                 handler, history>>

\* Mutant of Reusable: the context may still be in use.
ReusableInUse(s) == fiber[s] = "done"

\* Fiber::Reuse.
Reusable(s) == fiber[s] = "done" /\ s \notin inUse

\* The first fiber of the list that can be reused, or else the one that is
\* created at its end.
FirstFree ==
  CHOOSE s \in Fibers :
    /\ Reusable(s) \/ fiber[s] = "none"
    /\ \A t \in 1..(s - 1) : ~Reusable(t) /\ fiber[t] # "none"

\* CreateOrReuseFiber: a fiber for the element; or none, and upstream is told that we are done.  The
\* lock is first come, first served: an Interrupt that Body started goes first.
CreateOrReuseFiber ==
  /\ ingress = "body"
  /\ handler # "executing"
  /\ IF downstreamDone \/ interrupted \/ stoppedOrError # None
       THEN /\ ingress' = "done"
            /\ UNCHANGED <<starting, fiber, triggered, yields, fibersDone>>
       ELSE LET s == FirstFree IN
            /\ ingress' = "start"
            /\ starting' = s
            /\ fiber' = [fiber EXCEPT ![s] = "created"]
            /\ triggered' = triggered \ {s}
            /\ yields' = [yields EXCEPT ![s] = 0]
            /\ fibersDone' = FALSE
  /\ UNCHANGED <<element, inUse, values, upstreamDone, downstreamDone, interrupted,
                 stoppedOrError, downstream, waitForDone, trigger, handler, history>>

\* StartFiber submits the fiber to its own context, and the loop asks upstream
\* for the next element.
StartFiber ==
  /\ ingress = "start"
  /\ fiber' = [fiber EXCEPT ![starting] = "running"]
  /\ inUse' = inUse \cup {starting}
  /\ ingress' = "next"
  /\ UNCHANGED <<element, starting, triggered, yields, sharedVars, downstream, waitForDone,
                 trigger, handler, history>>

\* IngressEpilogue.
IngressEpilogue ==
  /\ ingress \in {"ended", "fail", "stop"}
  /\ upstreamDone' = TRUE
  /\ IF ingress = "ended" THEN UNCHANGED <<first, fiberRaised, stoppedOrError>> ELSE Raise(Upstream, ingress)
  /\ fibersDone' = (Unfinished(fiber) = {})
  /\ NotifyIfDone
  /\ ingress' = "returned"
  /\ UNCHANGED <<element, starting, fiberVars, values, downstreamDone, interrupted, trigger,
                 handler, reported, emitted, received>>

-----------------------------------------------------------------------------
(* The fibers: RescheduleAfter(Iterate({arg}) >> f()) >> ...               *)

\* The eventual makes a value: push it and notify the egress.
FiberYield(s) ==
  /\ fiber[s] = "running"
  /\ yields[s] < MaxYields
  /\ yields' = [yields EXCEPT ![s] = @ + 1]
  /\ values' = Append(values, emitted + 1)
  /\ emitted' = emitted + 1
  /\ downstream' = NotifyEgress(downstream)
  /\ UNCHANGED <<ingress, element, starting, fiber, inUse, triggered, upstreamDone,
                 downstreamDone, fibersDone, interrupted, stoppedOrError, waitForDone, trigger,
                 handler, first, fiberRaised, reported, received>>

\* FiberEpilogue: the fiber is done; a failure or a stop interrupts the others.
FiberEpilogue(s, outcome) ==
  /\ fiber[s] = "running"
  /\ fiber' = [fiber EXCEPT ![s] = "done"]
  /\ IF outcome = "ended"
       THEN /\ fibersDone' = (Unfinished(fiber') = {})
            /\ UNCHANGED <<triggered, first, fiberRaised, stoppedOrError>>
       ELSE InterruptFibers /\ Raise(s, outcome)
  /\ UNCHANGED upstreamDone
  /\ NotifyIfDone
  /\ UNCHANGED <<ingress, element, starting, inUse, yields, values, downstreamDone, interrupted,
                 trigger, handler, reported, emitted, received>>

\* The thread that ran the fiber leaves its continuation and its context.
FiberReturns(s) ==
  /\ fiber[s] = "done" /\ s \in inUse
  /\ inUse' = inUse \ {s}
  /\ UNCHANGED <<ingress, element, starting, fiber, triggered, yields, sharedVars, downstream,
                 waitForDone, trigger, handler, history>>

-----------------------------------------------------------------------------
(* Egress and downstream.                                                  *)

\* Downstream asks for the next value: Continuation::Next, egress_->Body().
Ask ==
  /\ downstream = "idle"
  /\ downstream' = "acquire"
  /\ UNCHANGED <<ingress, element, starting, fiberVars, sharedVars, waitForDone, trigger,
                 handler, history>>

\* Mutant of AllDone: that upstream is not done does not matter.
AllDoneFibersOnly == fibersDone

\* What the egress and WaitForDone wait for.
AllDone == upstreamDone /\ fibersDone

\* The condition of the egress says wait.
EgressWait ==
  /\ downstream = "acquire"
  /\ values = <<>> /\ ~AllDone
  /\ downstream' = "waiting"
  /\ UNCHANGED <<ingress, element, starting, fiberVars, sharedVars, waitForDone, trigger,
                 handler, history>>

\* A failure or stop is reported once everything is done, before any value.
EgressRaise ==
  /\ downstream = "acquire"
  /\ stoppedOrError # None /\ AllDone
  /\ downstream' = "raised"
  /\ reported' = stoppedOrError
  /\ UNCHANGED <<ingress, element, starting, fiberVars, sharedVars, waitForDone, trigger,
                 handler, first, fiberRaised, emitted, received>>

EgressValue ==
  /\ downstream = "acquire"
  /\ stoppedOrError = None \/ ~AllDone
  /\ values # <<>>
  /\ values' = Tail(values)
  /\ received' = Append(received, Head(values))
  /\ downstream' = "idle"
  /\ UNCHANGED <<ingress, element, starting, fiberVars, upstreamDone, downstreamDone, fibersDone,
                 interrupted, stoppedOrError, waitForDone, trigger, handler, first, fiberRaised,
                 reported, emitted>>

\* Mutant of EgressEnd: the values that are left are forgotten.
EgressEndEarly ==
  /\ downstream = "acquire"
  /\ stoppedOrError = None /\ AllDone
  /\ downstream' = "done"
  /\ reported' = <<Upstream, "ended">>
  /\ UNCHANGED <<ingress, element, starting, fiberVars, sharedVars, waitForDone, trigger,
                 handler, first, fiberRaised, emitted, received>>

\* No value and everything is done: Until calls Done on the Concurrent itself.
EgressEnd ==
  /\ downstream = "acquire"
  /\ stoppedOrError = None /\ AllDone
  /\ values = <<>>
  /\ downstream' = "done"
  /\ reported' = <<Upstream, "ended">>
  /\ UNCHANGED <<ingress, element, starting, fiberVars, sharedVars, waitForDone, trigger,
                 handler, first, fiberRaised, emitted, received>>

\* Downstream has had enough: Continuation::Done.
DownstreamDone ==
  /\ downstream = "idle"
  /\ downstream' = "done"
  /\ UNCHANGED <<ingress, element, starting, fiberVars, sharedVars, waitForDone, trigger,
                 handler, history>>

\* Mutant of Done: WaitForDone is not notified.
DoneNoNotify ==
  /\ downstream = "done"
  /\ downstream' = "draining"
  /\ downstreamDone' = TRUE
  /\ UNCHANGED <<fiber, upstreamDone>>
  /\ InterruptFibers
  /\ UNCHANGED <<ingress, element, starting, inUse, yields, values, interrupted, stoppedOrError,
                 waitForDone, trigger, handler, history>>

\* Adaptor::Done.
Done ==
  /\ downstream = "done"
  /\ downstream' = "draining"
  /\ downstreamDone' = TRUE
  /\ UNCHANGED <<fiber, upstreamDone>>
  /\ InterruptFibers
  /\ waitForDone' = IF upstreamDone /\ fibersDone' THEN NotifyDone ELSE waitForDone
  /\ UNCHANGED <<ingress, element, starting, inUse, yields, values, interrupted, stoppedOrError,
                 trigger, handler, history>>

\* WaitForDone evaluates its condition: wait again, or tell downstream that
\* the stream has ended.
WaitForDone ==
  /\ waitForDone = "acquire"
  /\ IF downstreamDone /\ AllDone
       THEN waitForDone' = "returned" /\ downstream' = "ended"
       ELSE waitForDone' = "waiting" /\ UNCHANGED downstream
  /\ UNCHANGED <<ingress, element, starting, fiberVars, sharedVars, trigger, handler, history>>

-----------------------------------------------------------------------------
(* The interrupt.                                                          *)

\* Somebody triggers the interrupt: a handler that is installed is invoked.
Trigger ==
  /\ ~trigger
  /\ trigger' = TRUE
  /\ handler' = IF handler = "installed" THEN "interrupting" ELSE handler
  /\ UNCHANGED <<ingress, element, starting, fiberVars, sharedVars, downstream, waitForDone,
                 history>>

\* Adaptor::Interrupt, started by the handler's callback.
Interrupt ==
  /\ handler \in {"interrupting", "executing"}
  /\ handler' = "invoked"
  /\ interrupted' = TRUE
  /\ UNCHANGED <<fiber, upstreamDone>>
  /\ InterruptFibers
  /\ NotifyIfDone
  /\ UNCHANGED <<ingress, element, starting, inUse, yields, values, downstreamDone,
                 stoppedOrError, trigger, history>>

-----------------------------------------------------------------------------

UpstreamStep == Body \/ \E outcome \in {"ended", "fail", "stop"} : UpstreamEnds(outcome)

IngressStep == BeginIngress \/ CreateOrReuseFiber \/ StartFiber \/ IngressEpilogue

FiberEnds(s) == \E outcome \in {"ended", "fail", "stop"} : FiberEpilogue(s, outcome)

EgressStep == EgressWait \/ EgressRaise \/ EgressValue \/ EgressEnd \/ Done

Next ==
  \/ UpstreamStep
  \/ IngressStep
  \/ \E s \in Fibers : FiberYield(s) \/ FiberEnds(s) \/ FiberReturns(s)
  \/ Ask \/ DownstreamDone
  \/ EgressStep
  \/ WaitForDone
  \/ Trigger
  \/ Interrupt

Spec == Init /\ [][Next]_vars

\* Every block runs once it is started, upstream answers when it is asked or
\* told (the comment on Concurrent names that caveat), and an eventual that is
\* interrupted finishes.  An eventual that is not interrupted need not, and
\* downstream need not ask.
Fairness ==
  /\ WF_vars(UpstreamStep)
  /\ WF_vars(IngressStep)
  /\ WF_vars(EgressStep)
  /\ WF_vars(WaitForDone)
  /\ WF_vars(Interrupt)
  /\ \A s \in Fibers :
       WF_vars(s \in triggered /\ FiberEnds(s)) /\ WF_vars(FiberReturns(s))

FairSpec == Spec /\ Fairness

-----------------------------------------------------------------------------

Outcomes == {None} \cup ((Fibers \cup {Upstream}) \X {"ended", "fail", "stop"})

TypeOK ==
  /\ ingress \in {"unbegun", "next", "body", "start", "done", "ended", "fail", "stop",
                  "returned", "aborted"}
  /\ element \in 0..MaxElements
  /\ starting \in Fibers \cup {0}
  /\ ingress = "start" => starting \in Fibers
  /\ fiber \in [Fibers -> {"none", "created", "running", "done"}]
  /\ inUse \in SUBSET Fibers
  /\ triggered \in SUBSET Fibers
  /\ yields \in [Fibers -> 0..MaxYields]
  /\ values \in Seq(Nat)
  /\ {upstreamDone, downstreamDone, fibersDone, interrupted, trigger} \subseteq BOOLEAN
  /\ stoppedOrError \in Outcomes
  /\ downstream \in {"idle", "acquire", "waiting", "done", "draining", "ended", "raised"}
  /\ waitForDone \in {"waiting", "acquire", "returned"}
  /\ handler \in {"armed", "installed", "interrupting", "executing", "invoked"}
  /\ first \in Outcomes
  /\ fiberRaised \in BOOLEAN
  /\ reported \in Outcomes
  /\ emitted \in Nat
  /\ received \in Seq(Nat)

\* "wait for all of the eventuals to finish, and then propagate": when downstream
\* is told the end, by a failure, a stop or Ended, upstream has answered its last
\* call and no fiber is running or about to be started, whatever the order in
\* which upstream, fibers, downstream and an interrupt came to their ends.
QuietAtTheEnd ==
  downstream \in {"ended", "raised"} \/ reported # None =>
    upstreamDone /\ ingress = "returned" /\ Unfinished(fiber) = {}

\* No value is lost, made up or handed down twice: downstream has got a prefix
\* of what the fibers made, and all of it when the stream came to its own end.
ValuesDelivered ==
  /\ received \o values = [n \in 1..emitted |-> n]
  /\ reported = <<Upstream, "ended">> => Len(received) = emitted

\* A failure or stop of upstream or of a fiber is never swallowed by a stream
\* that comes to its own end, and the first one is the one that is reported.
FirstRaisedReported ==
  reported # None =>
    reported = IF first = None THEN <<Upstream, "ended">> ELSE first

\* A fiber is reset only when its last thread has left it, and fibers_done_ is
\* never true, not even between CreateOrReuseFiber and StartFiber, while there
\* is a fiber that is not done.
ReusedFibersLeft ==
  /\ \A s \in Fibers : fiber[s] = "created" => s \notin inUse
  /\ fibersDone => Unfinished(fiber) = {}

\* A stream whose downstream is done comes to its end, although the fibers may
\* never finish unless they are interrupted.
DoneEnds ==
  downstream = "done" /\ ingress # "unbegun" ~> downstream = "ended" \/ ingress = "aborted"

\* An egress that waits when a fiber fails or stops is given something.
RaisedIsReported ==
  downstream = "waiting" /\ fiberRaised ~> downstream # "waiting" \/ ingress = "aborted"

\* CHECK(callback_) of InstallOrExecuteIfTriggered, which Body calls for every
\* element: an interrupt whose callback was run does not end the program when
\* upstream emits one more element.
BodyFindsCallback == ingress # "aborted"

=============================================================================

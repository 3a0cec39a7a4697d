------------------------------ MODULE EventLoop ------------------------------
(***************************************************************************)
(* The event loop (event-loop.h, event-loop.cc): the waiters that other    *)
(* threads submit and the loop runs, the clock that tests can pause and    *)
(* advance, and the operations that own a libuv handle: _Timer,            *)
(* _WaitForSignal and _Poll, with EventLoop::Schedule beside them.         *)
(*                                                                         *)
(* An operation is called by one thread, may be interrupted by another,    *)
(* and does its work in callbacks on the loop's thread.  The loop is the   *)
(* consumer of a list that grows with a compare-and-swap: a push is one    *)
(* step here, and so is the removal of the oldest waiter (StaticThreadPool *)
(* has the same list in its single accesses).  The Interrupt is used as    *)
(* module Interrupt shows it to behave: a trigger is either taken by the   *)
(* installed handler, once, or makes Install return false.                 *)
(*                                                                         *)
(* Time is counted in units of which a millisecond has Milli; libuv's      *)
(* timers count milliseconds.                                              *)
(***************************************************************************)
EXTENDS Integers, Sequences, FiniteSets

CONSTANTS Ops,          \* The operations.
          Kinds,        \* The kinds that they may be of, together.
          Interruptible, \* Those with an interrupt registered.
          Duration,     \* What they take if they are timers, in units.
          Milli,        \* Units in a millisecond.
          MaxAdvance,   \* Bound on what a paused clock is advanced.
          Racing        \* Whether the clock is paused, advanced and resumed
                        \* while timers are being started.

ASSUME EventLoopAssumption ==
  /\ Milli \in Nat \ {0}
  /\ MaxAdvance \in Nat
  /\ Kinds \subseteq [Ops -> {"timer", "signal", "poll", "schedule"}]
  /\ Interruptible \subseteq Ops
  /\ Duration \in [Ops -> Nat]
  /\ Racing \in BOOLEAN

VARIABLES
  waiters,    \* waiters_, the oldest first: [op |-> o, what |-> callback].
  async,      \* A uv_async_send is outstanding.
  phase,      \* Where the thread of the loop is in uv_run.
  paused,     \* paused_ has a value.
  advanced,   \* advanced_
  pending,    \* pending_: [op |-> o, ns |-> when].
  caller,     \* Where the thread that calls an operation is.
  trigger,    \* Where the thread that interrupts an operation is.
  handler,    \* handler_: none, registered, installed or used.
  op,         \* The other members of an operation's continuation.
  elapsed     \* What the clock has run for since a timer was started.

loopVars == <<waiters, async, phase>>

clockVars == <<paused, advanced, pending>>

vars == <<loopVars, clockVars, caller, trigger, handler, op, elapsed>>

Timers == {o \in Ops : op[o].kind = "timer"}

\* The operations that own a handle of libuv and may be interrupted.
Handles == {o \in Ops : op[o].kind # "schedule"}

-----------------------------------------------------------------------------

\* A continuation as it is constructed.  "uv" is the state of its handle, "then"
\* what the close callback will call, "turn" whether a Poll has to be asked.
Fresh(o, k) ==
  [kind |-> k, started |-> FALSE, completed |-> FALSE, closed |-> FALSE, uv |-> "none",
   then |-> "none", ns |-> Duration[o],
   left |-> 0, turn |-> FALSE, finals |-> 0, out |-> "none",
   destructed |-> FALSE]

\* An operation has a handler when an interrupt was registered.
Init ==
  /\ waiters = <<>> /\ async = FALSE /\ phase = "out"
  /\ paused = FALSE /\ advanced = 0 /\ pending = <<>>
  /\ caller = [o \in Ops |-> [at |-> "idle", what |-> "none"]]
  /\ trigger = [o \in Ops |-> "none"]
  /\ \E k \in Kinds : op = [o \in Ops |-> Fresh(o, k[o])]
  /\ handler = [o \in Ops |-> IF o \in Interruptible \intersect Handles
                            THEN "registered" ELSE "none"]
  /\ elapsed = [o \in Ops |-> 0]

\* The waiter of an operation's context_, or of its interrupt_context_.
Waiter(o, what) == [op |-> o, what |-> what]

\* The calls of the continuation that end the operation.
Final(o, call) ==
  [op EXCEPT ![o].completed = TRUE, ![o].out = call,
             ![o].finals = @ + 1]

\* uv_close, which stops the handle: the callback comes in a later phase.
UvClose(o, call) ==
  [op EXCEPT ![o].completed = TRUE, ![o].uv = "closing", ![o].then = call]

-----------------------------------------------------------------------------
(* The thread that calls an operation.                                     *)

Call(o, at, what) == caller' = [caller EXCEPT ![o] = [at |-> at, what |-> what]]

\* Start: install the handler, or find the interrupt triggered; a timer then
\* goes to the clock.
Start(o) ==
  /\ caller[o].at = "idle" /\ o \in Handles
  /\ \/ /\ handler[o] = "registered" /\ trigger[o] = "early"
        /\ Call(o, "submit", "refused")
        /\ UNCHANGED handler
     \/ /\ ~(handler[o] = "registered" /\ trigger[o] = "early")
        /\ handler' = [handler EXCEPT ![o] =
                         IF @ = "registered" THEN "installed" ELSE @]
        /\ Call(o, IF o \in Timers THEN "clock" ELSE "submit", "start")
  /\ UNCHANGED <<loopVars, clockVars, trigger, op, elapsed>>

\* Mutant of Fails: the handler is installed on the way.
FailsInstalled(o) ==
  /\ caller[o].at = "idle" /\ o \in Handles
  /\ \E what \in {"fail", "stop"} : Call(o, "submit", what)
  /\ handler' = [handler EXCEPT ![o] =
                   IF @ = "registered" /\ trigger[o] = "none"
                   THEN "installed" ELSE @]
  /\ UNCHANGED <<loopVars, clockVars, trigger, op, elapsed>>

\* Fail and Stop of the three classes go to the loop, so as not to race with the
\* interrupt.
Fails(o) ==
  /\ caller[o].at = "idle" /\ o \in Handles
  /\ \E what \in {"fail", "stop"} : Call(o, "submit", what)
  /\ UNCHANGED <<loopVars, clockVars, trigger, handler, op, elapsed>>

\* EventLoop::Schedule from another thread: submit; on the loop: run in place.
Schedule(o) ==
  /\ caller[o].at = "idle" /\ op[o].kind = "schedule"
  /\ \E what \in {"start", "fail", "stop"} :
       \/ /\ Call(o, "submit", what)
          /\ UNCHANGED op
       \/ /\ phase # "out"
          /\ Call(o, "gone", "none")
          /\ op' = Final(o, what)
  /\ UNCHANGED <<loopVars, clockVars, trigger, handler, elapsed>>

\* Clock::Submit looks whether the clock is paused without its mutex.
ClockSubmit(o) ==
  /\ caller[o].at = "clock"
  /\ Call(o, IF paused THEN "pend" ELSE "submit", "start")
  /\ UNCHANGED <<loopVars, clockVars, trigger, handler, op, elapsed>>

\* Mutant of ClockPend: what the clock was advanced before counts.
ClockPendNoBase(o) ==
  /\ caller[o].at = "pend"
  /\ pending' = Append(pending, [op |-> o, ns |-> op[o].ns])
  /\ Call(o, "gone", "none")
  /\ UNCHANGED <<loopVars, paused, advanced, trigger, handler, op, elapsed>>

ClockPend(o) ==
  /\ caller[o].at = "pend"
  /\ pending' = Append(pending, [op |-> o, ns |-> op[o].ns + advanced])
  /\ Call(o, "gone", "none")
  /\ UNCHANGED <<loopVars, paused, advanced, trigger, handler, op, elapsed>>

\* EventLoop::Submit: the waiter is pushed, and then the loop is told.
Push(o) ==
  /\ caller[o].at = "submit"
  /\ waiters' = Append(waiters, Waiter(o, caller[o].what))
  /\ Call(o, "send", caller[o].what)
  /\ UNCHANGED <<async, phase, clockVars, trigger, handler, op, elapsed>>

Send(o) ==
  /\ caller[o].at = "send"
  /\ async' = TRUE
  /\ Call(o, "gone", "none")
  /\ UNCHANGED <<waiters, phase, clockVars, trigger, handler, op, elapsed>>

\* Poll's stream: whoever was given Begin or Body asks for more or is done,
\* unless it was stopped meanwhile.
Ask(o) ==
  /\ caller[o].at = "gone" /\ op[o].turn /\ op[o].finals = 0
  /\ \E what \in {"next", "done"} : Call(o, "submit", what)
  /\ op' = [op EXCEPT ![o].turn = FALSE]
  /\ UNCHANGED <<loopVars, clockVars, trigger, handler, elapsed>>

\* The destructor: the handle is closed, the handler is uninstalled (which
\* waits for one that runs), and every borrow has been given back.
Borrowed(o) ==
  \/ \E i \in DOMAIN waiters : waiters[i].op = o
  \/ \E i \in DOMAIN pending : pending[i].op = o

Destruct(o) ==
  /\ o \in Handles
  /\ op[o].finals > 0 /\ ~op[o].destructed
  /\ caller[o].at = "gone" /\ trigger[o] \notin {"submit", "send"}
  /\ ~Borrowed(o)
  /\ op' = [op EXCEPT ![o] = [Fresh(o, op[o].kind) EXCEPT !.finals = op[o].finals,
                                             !.uv = op[o].uv, !.destructed = TRUE]]
  /\ handler' = [handler EXCEPT ![o] = "none"]
  /\ elapsed' = [elapsed EXCEPT ![o] = 0]
  /\ UNCHANGED <<loopVars, clockVars, caller, trigger>>

-----------------------------------------------------------------------------
(* The thread that interrupts.                                             *)

\* Interrupt::Trigger: an installed handler runs the callback of Register; a
\* trigger that comes before Install makes it return false.
Trigger(o) ==
  /\ trigger[o] = "none" /\ handler[o] \in {"registered", "installed"}
  /\ trigger' = [trigger EXCEPT ![o] =
                   IF handler[o] = "installed" THEN "submit" ELSE "early"]
  /\ handler' = [handler EXCEPT ![o] = IF @ = "installed" THEN "used" ELSE @]
  /\ UNCHANGED <<loopVars, clockVars, caller, op, elapsed>>

\* The callback submits on interrupt_context_.
TriggerPush(o) ==
  /\ trigger[o] = "submit"
  /\ waiters' = Append(waiters, Waiter(o, "interrupt"))
  /\ trigger' = [trigger EXCEPT ![o] = "send"]
  /\ UNCHANGED <<async, phase, clockVars, caller, handler, op, elapsed>>

TriggerSend(o) ==
  /\ trigger[o] = "send"
  /\ async' = TRUE
  /\ trigger' = [trigger EXCEPT ![o] = "gone"]
  /\ UNCHANGED <<waiters, phase, clockVars, caller, handler, op, elapsed>>

-----------------------------------------------------------------------------
(* The clock.                                                              *)

\* A timer that is started and has not ended.
Outstanding(t) == caller[t].at # "idle" /\ op[t].finals = 0

\* Clock operations overlap with the start of a timer only if Racing.
Alone == Racing \/ \A t \in Timers : caller[t].at \notin {"clock", "pend"}

\* Pause is for a clock without outstanding timers (and matters to none but
\* timers).  Its CHECK counts the
\* active handles only.
Pause ==
  /\ ~paused /\ Timers # {}
  /\ Alone /\ (Racing \/ \A t \in Timers : ~Outstanding(t))
  /\ \A t \in Timers : op[t].uv # "active"
  /\ paused' = TRUE /\ advanced' = 0
  /\ UNCHANGED <<loopVars, pending, caller, trigger, handler, op, elapsed>>

\* The callback given to Clock::Submit by the timers of the entries "due", each
\* of which is given what is left of it: it stores that and submits the timer to
\* the loop.
Hand(due, left) ==
  /\ waiters' = waiters \o [i \in DOMAIN due |-> Waiter(due[i].op, "start")]
  /\ async' = TRUE
  /\ op' = [o \in Ops |->
              IF \E i \in DOMAIN due : due[i].op = o
              THEN [op[o] EXCEPT !.ns = left[CHOOSE i \in DOMAIN due : due[i].op = o]]
              ELSE op[o]]

\* Mutant of Resume: the pending timers stay.
ResumeKeeps ==
  /\ paused /\ Alone
  /\ paused' = FALSE /\ async' = TRUE
  /\ UNCHANGED <<waiters, op, pending, phase, advanced, caller, trigger,
                 handler, elapsed>>

Resume ==
  /\ paused /\ Alone
  /\ Hand(pending, [i \in DOMAIN pending |-> pending[i].ns - advanced])
  /\ pending' = <<>> /\ paused' = FALSE
  /\ UNCHANGED <<phase, advanced, caller, trigger, handler, elapsed>>

\* The clock runs for a timer that is started and has not ended.
Elapse(n) ==
  elapsed' = [t \in Ops |->
                IF t \in Timers /\ Outstanding(t) /\ elapsed[t] < Duration[t]
                THEN IF elapsed[t] + n < Duration[t]
                     THEN elapsed[t] + n ELSE Duration[t]
                ELSE elapsed[t]]

\* The elements of s at the positions in I, in their order.
Picked(s, I) ==
  [k \in 1..Cardinality(I) |-> s[CHOOSE i \in I : Cardinality({j \in I : j <= i}) = k]]

\* The timers whose time has come are handed over with nothing left.
Advance(n) ==
  /\ paused /\ Alone
  /\ advanced + n <= MaxAdvance
  /\ advanced' = advanced + n
  /\ LET due == {i \in DOMAIN pending : advanced + n >= pending[i].ns} IN
       /\ Hand(Picked(pending, due), [k \in 1..Cardinality(due) |-> 0])
       /\ pending' = Picked(pending, DOMAIN pending \ due)
  /\ Elapse(n)
  /\ UNCHANGED <<phase, paused, caller, trigger, handler>>

\* A millisecond of real time.
ActiveTimers == {t \in Timers : op[t].uv = "active"}

Tick ==
  /\ \A t \in ActiveTimers : op[t].left > 0
  /\ ActiveTimers # {}
  /\ op' = [o \in Ops |-> IF o \in ActiveTimers
                          THEN [op[o] EXCEPT !.left = @ - 1] ELSE op[o]]
  /\ IF paused THEN UNCHANGED elapsed ELSE Elapse(Milli)
  /\ UNCHANGED <<loopVars, clockVars, caller, trigger, handler>>

-----------------------------------------------------------------------------
(* The loop's thread: RunOnce and RunUntilIdle call uv_run, which runs due  *)
(* timers, polls, runs the check handle and closes handles.                *)

Go(from, to) == phase = from /\ phase' = to

Due(t) == op[t].uv = "active" /\ op[t].left = 0

Run ==
  /\ Go("out", "timers")
  /\ UNCHANGED <<waiters, async, clockVars, caller, trigger, handler, op, elapsed>>

\* The callback of uv_timer_start.
Fire(t) ==
  /\ phase = "timers" /\ Due(t)
  /\ ~op[t].completed
  /\ op' = UvClose(t, "start")
  /\ UNCHANGED <<loopVars, clockVars, caller, trigger, handler, elapsed>>

TimersRun ==
  /\ \A t \in Timers : ~Due(t)
  /\ Go("timers", "poll")
  /\ UNCHANGED <<waiters, async, clockVars, caller, trigger, handler, op, elapsed>>

\* uv_run(UV_RUN_ONCE) blocks while there is nothing to do.
PollReturns ==
  /\ \/ async
     \/ \E t \in Timers : Due(t)
     \/ \E o \in Handles : op[o].uv = "closing"
  /\ Go("poll", "check")
  /\ async' = FALSE
  /\ UNCHANGED <<waiters, clockVars, caller, trigger, handler, op, elapsed>>

\* RunUntilIdle: uv_run(UV_RUN_NOWAIT) does not wait.
PollNoWait ==
  /\ Go("poll", "check")
  /\ async' = FALSE
  /\ UNCHANGED <<waiters, clockVars, caller, trigger, handler, op, elapsed>>

\* A signal is delivered: the callback of uv_signal_start_oneshot.
Signalled(s) ==
  /\ op[s].kind = "signal" /\ op[s].uv = "active" /\ ~op[s].completed
  /\ Go("poll", "check")
  /\ op' = UvClose(s, "start")
  /\ UNCHANGED <<waiters, async, clockVars, caller, trigger, handler, elapsed>>

\* The file is ready, or its poll failed: the callback of uv_poll_start.
Polled(p) ==
  /\ op[p].kind = "poll" /\ op[p].uv = "active" /\ ~op[p].completed
  /\ Go("poll", "check")
  /\ \/ op' = [op EXCEPT ![p].uv = "stopped", ![p].out = "body", ![p].turn = TRUE]
     \/ op' = UvClose(p, "fail")
  /\ UNCHANGED <<waiters, async, clockVars, caller, trigger, handler, elapsed>>

\* The callbacks given to Submit.  libuv may refuse to start a handle, which is
\* then closed before Fail is called.
StartTimer(o) ==
  /\ op[o].kind = "timer"
  /\ \/ op' = [op EXCEPT ![o].started = TRUE, ![o].uv = "active",
                          ![o].left = op[o].ns \div Milli]
     \/ op' = [UvClose(o, "fail") EXCEPT ![o].started = TRUE]

StartSignal(o) ==
  /\ op[o].kind = "signal"
  /\ \/ op' = [op EXCEPT ![o].started = TRUE, ![o].uv = "active"]
     \/ op' = [UvClose(o, "fail") EXCEPT ![o].started = TRUE]

\* A Poll calls Begin and waits to be asked.  If uv_poll_init fails there
\* is no handle to close.
StartPoll(o) ==
  /\ op[o].kind = "poll"
  /\ \/ op' = [op EXCEPT ![o].started = TRUE, ![o].uv = "stopped",
                          ![o].out = "begin", ![o].turn = TRUE]
     \/ op' = [Final(o, "fail") EXCEPT ![o].started = TRUE, ![o].closed = TRUE]

\* Next starts to poll; Done closes the handle before Ended is called.
NextOnLoop(o) ==
  \/ op' = [op EXCEPT ![o].uv = "active"]
  \/ op' = UvClose(o, "fail")

DoneOnLoop(o) == op' = UvClose(o, "ended")

\* Fail and Stop; a Start that the interrupt refused stops as well.
FailOnLoop(o) == op' = Final(o, "fail")

StopOnLoop(o) == op' = Final(o, "stop")

\* Mutant of InterruptOnLoop: the handle is stopped, and Stop is called at once.
InterruptOnLoopAtOnce(o) ==
  \/ /\ ~op[o].started
     /\ op' = Final(o, "stop")
  \/ /\ op[o].started /\ ~op[o].completed
     /\ op' = [Final(o, "stop") EXCEPT ![o].uv = "closing", ![o].then = "stop"]
  \/ /\ op[o].started /\ op[o].completed
     /\ UNCHANGED op

\* Mutant of InterruptOnLoop: an operation that has not started is let be.
InterruptOnLoopStarted(o) ==
  \/ /\ op[o].started /\ ~op[o].completed
     /\ op' = UvClose(o, "stop")
  \/ /\ ~op[o].started \/ op[o].completed
     /\ UNCHANGED op

\* The callback of the interrupt, on interrupt_context_.
InterruptOnLoop(o) ==
  \/ /\ ~op[o].started
     /\ op' = Final(o, "stop")
  \/ /\ op[o].started /\ ~op[o].completed
     /\ op' = UvClose(o, "stop")
  \/ /\ op[o].started /\ op[o].completed
     /\ UNCHANGED op

OnLoop(o, what) ==
  \/ /\ what = "interrupt"
     /\ InterruptOnLoop(o)
  \/ /\ what # "interrupt" /\ op[o].completed
     /\ UNCHANGED op
  \/ /\ what # "interrupt" /\ ~op[o].completed
     /\ \/ /\ what = "start"
           /\ \/ StartTimer(o) \/ StartSignal(o) \/ StartPoll(o)
              \/ op[o].kind = "schedule" /\ op' = Final(o, "start")
        \/ what = "next" /\ NextOnLoop(o)
        \/ what = "done" /\ DoneOnLoop(o)
        \/ what = "fail" /\ FailOnLoop(o)
        \/ what \in {"refused", "stop"} /\ StopOnLoop(o)

\* Check: the oldest waiter is taken and its callback run.
Check ==
  /\ phase = "check" /\ waiters # <<>>
  /\ waiters' = Tail(waiters)
  /\ OnLoop(Head(waiters).op, Head(waiters).what)
  /\ UNCHANGED <<async, phase, clockVars, caller, trigger, handler, elapsed>>

CheckReturns ==
  /\ waiters = <<>>
  /\ Go("check", "closing")
  /\ UNCHANGED <<waiters, async, clockVars, caller, trigger, handler, op, elapsed>>

\* The callback of uv_close.
Closed(o) ==
  /\ phase = "closing" /\ op[o].uv = "closing"
  /\ op' = [Final(o, op[o].then) EXCEPT ![o].uv = "closed", ![o].closed = TRUE,
                                           ![o].then = "none"]
  /\ UNCHANGED <<loopVars, clockVars, caller, trigger, handler, elapsed>>

\* while (waiters_.load() != nullptr)
RunAgain ==
  /\ \A o \in Handles : op[o].uv # "closing"
  /\ Go("closing", IF waiters # <<>> THEN "timers" ELSE "out")
  /\ UNCHANGED <<waiters, async, clockVars, caller, trigger, handler, op, elapsed>>

-----------------------------------------------------------------------------

CallerStep(o) ==
  Start(o) \/ Fails(o) \/ Schedule(o) \/ ClockSubmit(o) \/ ClockPend(o)
           \/ Push(o) \/ Send(o) \/ Ask(o)

TriggerStep(o) == TriggerPush(o) \/ TriggerSend(o)

LoopStep ==
  \/ Run
  \/ \E t \in Timers : Fire(t)
  \/ TimersRun \/ PollReturns
  \/ Check \/ CheckReturns
  \/ \E o \in Handles : Closed(o)
  \/ RunAgain

ClockStep == Pause \/ Resume \/ \E n \in 1..MaxAdvance : Advance(n)

Next ==
  \/ \E o \in Ops : CallerStep(o) \/ Signalled(o) \/ Polled(o)
  \/ \E o \in Handles : TriggerStep(o) \/ Trigger(o) \/ Destruct(o)
  \/ ClockStep \/ Tick \/ LoopStep \/ PollNoWait

\* The loop is run for ever, time passes, and a thread that has called goes on.
\* Nobody has to call, interrupt, signal, or touch the clock.
Fairness ==
  /\ WF_vars(LoopStep) /\ WF_vars(Tick)
  /\ \A o \in Ops : WF_vars(ClockSubmit(o) \/ ClockPend(o) \/ Push(o) \/ Send(o))
  /\ \A o \in Ops : WF_vars(TriggerStep(o))

Spec == Init /\ [][Next]_vars /\ Fairness

-----------------------------------------------------------------------------

\* The members of a continuation, the entries of the two lists.
Continuations ==
  [kind : {"timer", "signal", "poll", "schedule"}, started : BOOLEAN, completed : BOOLEAN,
   closed : BOOLEAN, uv : {"none", "active", "stopped", "closing", "closed"},
   then : {"none", "start", "fail", "stop", "ended"}, ns : Nat, left : Nat, turn : BOOLEAN,
   finals : Nat, out : {"none", "start", "fail", "stop", "ended", "begin", "body"},
   destructed : BOOLEAN]

Submissions ==
  [op : Ops, what : {"start", "refused", "fail", "stop", "next", "done", "interrupt"}]

TypeOK ==
  /\ waiters \in Seq(Submissions)
  /\ async \in BOOLEAN /\ paused \in BOOLEAN
  /\ phase \in {"out", "timers", "poll", "check", "closing"}
  /\ advanced \in 0..MaxAdvance
  /\ pending \in Seq([op : Ops, ns : Nat])
  /\ caller \in [Ops -> [at : {"idle", "clock", "pend", "submit", "send", "gone"},
                         what : {"none", "start", "refused", "fail", "stop", "next", "done"}]]
  /\ trigger \in [Ops -> {"none", "early", "submit", "send", "gone"}]
  /\ handler \in [Ops -> {"none", "registered", "installed", "used"}]
  /\ op \in [Ops -> Continuations]
  /\ elapsed \in [Ops -> Nat]

\* The continuation of an operation is called once, whoever of the caller, the
\* event and the interrupt comes first, and only once libuv has given the handle
\* back (completed_ and closed_ in _Timer, _WaitForSignal and _Poll).
ContinuedOnce ==
  \A o \in Ops :
    /\ op[o].finals <= 1
    /\ (op[o].finals = 1 /\ op[o].started) => op[o].closed

\* The CHECKs in the callbacks hold, with every interleaving of the caller's and
\* the interrupt's submissions: an operation that has not started when the
\* interrupt is handled has not completed either, and one that is being started,
\* failed or stopped has not started (event-loop.h:421, 257, 392).  A context is
\* submitted when its last waiter has been taken (event-loop.cc:269).
CallbackChecksHold ==
  /\ \A i \in DOMAIN waiters :
       LET o == waiters[i].op  what == waiters[i].what IN
       /\ (what = "interrupt" /\ ~op[o].started) => ~op[o].completed
       /\ (what \in {"start", "fail", "stop"} /\ ~op[o].completed) => ~op[o].started
       /\ \A j \in DOMAIN waiters :
            (i # j /\ waiters[j].op = o) => "interrupt" \in {what, waiters[j].what}
  /\ \A o \in Ops : caller[o].at = "submit" =>
       \A i \in DOMAIN waiters :
         waiters[i].op = o => waiters[i].what = "interrupt"

\* A timer never ends a millisecond or more before the clock has run for its
\* duration, through every pause, advance and resume: what is left is carried
\* over, and only cut to whole milliseconds (Clock::Submit, Advance, Resume).
NotEarly ==
  \A t \in Timers :
    op[t].out = "start" => elapsed[t] + Milli > Duration[t]

\* Timers are pending only on a paused clock ("to be invoked when the clock is
\* not paused", event-loop.h:170): on a running one nobody would start them.
PendingWhilePaused == pending # <<>> => paused

\* An operation whose handler took the interrupt ends, even when its timer is
\* pending on a paused clock, its signal never comes or its file is never ready.
InterruptedEnds ==
  \A o \in Ops : handler[o] = "used" ~> op[o].finals = 1

\* A timer that was started ends, as long as the clock does not stay paused.
TimerEnds ==
  \A t \in Ops :
    []<>(~paused) =>
      (op[t].kind = "timer" /\ caller[t].at # "idle" ~> op[t].finals = 1)

=============================================================================

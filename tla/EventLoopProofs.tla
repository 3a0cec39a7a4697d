--------------------------- MODULE EventLoopProofs ---------------------------
(***************************************************************************)
(* Proofs about EventLoop.tla, for any operations of any kinds and         *)
(* durations: each is continued once, after its handle was given back; the *)
(* CHECKs of the callbacks hold; and no timer is early unless the clock is *)
(* touched while timers are being started.                                 *)
(***************************************************************************)
EXTENDS EventLoop, SequenceTheorems, FiniteSetTheorems, FunctionTheorems, TLAPS

Callbacks == {"start", "refused", "fail", "stop", "next", "done", "interrupt"}

Refusals == {"refused", "fail", "stop"}

\* The callback w of operation o is in the loop's list.
Submitted(o, w) == \E i \in 1..Len(waiters) : waiters[i].op = o /\ waiters[i].what = w

\* The context of operation o is in the loop's list, or in the clock's.
Listed(o) == \E w \in Callbacks \ {"interrupt"} : Submitted(o, w)

Pends(o) == \E i \in 1..Len(pending) : pending[i].op = o

\* A context is in a list once, and so is an interrupt_context_.
Single ==
  /\ \A i, j \in 1..Len(waiters) :
       waiters[i].op = waiters[j].op
         /\ (waiters[i].what = "interrupt" <=> waiters[j].what = "interrupt") => i = j
  /\ \A i, j \in 1..Len(pending) : pending[i].op = pending[j].op => i = j

\* A clock has run for less than what the pending timers wait for.
PendingLater == \A i \in 1..Len(pending) : pending[i].ns >= advanced

\* The shapes that a continuation goes through: before it has a handle, with a
\* handle, while the handle is closed, and when it has been continued.
Shaped(r) ==
  /\ r.finals \in {0, 1}
  /\ r.completed <=> (r.uv = "closing" \/ r.finals = 1)
  /\ r.uv = "closing" => r.finals = 0 /\ r.then # "none"
  /\ ~r.started => r.uv = "none"
  /\ r.started /\ ~r.completed => r.uv \in {"active", "stopped"}
  /\ r.started /\ r.completed => r.uv \in {"none", "closing", "closed"}
  /\ r.started /\ r.finals = 1 => r.closed
  /\ r.started => r.kind # "schedule"
  /\ r.turn => r.started /\ r.kind = "poll" /\ r.uv # "active"

\* One that was destructed was continued, and libuv has nothing of it.
Gone(r) ==
  /\ r.finals = 1 /\ ~r.started /\ ~r.completed /\ ~r.turn
  /\ r.uv \in {"none", "closed"} /\ r.out = "none"

Formed(o) == IF op[o].destructed THEN Gone(op[o]) ELSE Shaped(op[o])

\* The caller has yet to submit the context of the operation.
Calling(o) == caller[o].at \in {"idle", "clock", "pend", "submit"}

\* The context of an operation is in one list at most, and in none while its
\* caller has it, libuv will call back, a Poll is to be asked, or it has gone.
HadByOne(o) ==
  /\ Listed(o) => ~Pends(o)
  /\ Listed(o) \/ Pends(o) =>
       ~Calling(o) /\ ~op[o].turn /\ op[o].uv # "active" /\ ~op[o].destructed
  /\ Calling(o) => ~op[o].turn /\ op[o].uv # "active" /\ ~op[o].destructed

\* What is submitted fits how far the operation is.
Fits(o, w) ==
  /\ w \in {"start", "refused", "fail", "stop"} => ~op[o].started
  /\ w \in {"next", "done"} => op[o].started /\ op[o].kind = "poll"

SubmittedFits(o) ==
  /\ \A w \in Callbacks : Submitted(o, w) => Fits(o, w)
  /\ Pends(o) => ~op[o].started /\ op[o].kind = "timer"
  /\ caller[o].at = "idle" => ~op[o].started /\ ~op[o].completed /\ op[o].finals = 0
  /\ caller[o].at \in {"clock", "pend"} => ~op[o].started /\ op[o].kind = "timer"
  /\ caller[o].at = "submit" => caller[o].what # "none" /\ Fits(o, caller[o].what)

\* The interrupt is handled once, and not before the operation is called.
HandledOnce(o) ==
  /\ handler[o] = "installed" => trigger[o] = "none"
  /\ handler[o] # "none" => op[o].kind # "schedule"
  /\ trigger[o] \in {"none", "early", "submit"} => ~Submitted(o, "interrupt")
  /\ caller[o].at = "idle" =>
       trigger[o] \in {"none", "early"} /\ handler[o] \in {"none", "registered"}
  /\ op[o].destructed => handler[o] = "none"

\* The callback of the interrupt is still to run, or may be.
Armed(o) ==
  handler[o] = "installed" \/ trigger[o] = "submit" \/ Submitted(o, "interrupt")

\* The interrupt is handled only for an operation that is being started, or has:
\* one that fails or stops on its way has not installed its handler.
ArmedStarts(o) ==
  Armed(o) =>
    /\ caller[o].what \notin Refusals
    /\ op[o].started \/ ~op[o].completed
    /\ op[o].kind # "schedule" /\ ~op[o].destructed
    /\ \A w \in Refusals : ~Submitted(o, w)

OpOK(o) == Formed(o) /\ HadByOne(o) /\ SubmittedFits(o) /\ HandledOnce(o) /\ ArmedStarts(o)

LoopInv == TypeOK /\ Single /\ PendingLater /\ \A o \in Ops : OpOK(o)

-----------------------------------------------------------------------------
(* What the actions do to the members of a continuation.                   *)

Calls == {"start", "fail", "stop", "ended"}

\* Operation o changes, and these are its members.
Becomes(o, started, completed, closed, uv, then, left, turn, finals, out) ==
  /\ op' \in [Ops -> Continuations]
  /\ \A p \in Ops : p # o => op'[p] = op[p]
  /\ op'[o].kind = op[o].kind /\ op'[o].ns = op[o].ns
  /\ op'[o].destructed = op[o].destructed
  /\ op'[o].started = started /\ op'[o].completed = completed /\ op'[o].closed = closed
  /\ op'[o].uv = uv /\ op'[o].then = then /\ op'[o].left = left /\ op'[o].turn = turn
  /\ op'[o].finals = finals /\ op'[o].out = out

\* The members of a continuation that has been continued.
LEMMA FinalFields ==
  ASSUME op \in [Ops -> Continuations], NEW o \in Ops, NEW call \in Calls,
         op' = Final(o, call)
  PROVE  Becomes(o, op[o].started, TRUE, op[o].closed, op[o].uv, op[o].then, op[o].left,
                 op[o].turn, (op[o].finals + 1), call)
<1>0. PICK n \in Nat : n = op[o].finals + 1
  BY DEF Continuations
<1> DEFINE x == [op[o] EXCEPT !.completed = TRUE, !.out = call, !.finals = n]
<1>1. op' = [op EXCEPT ![o] = x]
  BY <1>0 DEF Final
<1>2. op[o] \in Continuations
  OBVIOUS
<1>3. x \in Continuations /\ x.kind = op[o].kind /\ x.ns = op[o].ns
  BY <1>2 DEF Continuations, Calls
<1>4. /\ x.destructed = op[o].destructed /\ x.started = op[o].started /\ x.completed = TRUE
      /\ x.closed = op[o].closed /\ x.uv = op[o].uv
  BY <1>2 DEF Continuations
<1>5. /\ x.then = op[o].then /\ x.left = op[o].left /\ x.turn = op[o].turn /\ x.finals = n
      /\ x.out = call
  BY <1>2 DEF Continuations
<1> HIDE DEF x
<1> QED BY ONLY <1>0, <1>1, <1>3, <1>4, <1>5, op \in [Ops -> Continuations], o \in Ops
           DEF Becomes

\* ... whose handle is closing.
LEMMA UvCloseFields ==
  ASSUME op \in [Ops -> Continuations], NEW o \in Ops, NEW call \in Calls,
         op' = UvClose(o, call)
  PROVE  Becomes(o, op[o].started, TRUE, op[o].closed, "closing", call, op[o].left,
                 op[o].turn, op[o].finals, op[o].out)
<1> DEFINE x == [op[o] EXCEPT !.completed = TRUE, !.uv = "closing", !.then = call]
<1>1. op' = [op EXCEPT ![o] = x]
  BY DEF UvClose
<1>2. op[o] \in Continuations
  OBVIOUS
<1>3. x \in Continuations /\ x.kind = op[o].kind /\ x.ns = op[o].ns
  BY <1>2 DEF Continuations, Calls
<1>4. /\ x.destructed = op[o].destructed /\ x.started = op[o].started /\ x.completed = TRUE
      /\ x.closed = op[o].closed /\ x.uv = "closing"
  BY <1>2 DEF Continuations
<1>5. /\ x.then = call /\ x.left = op[o].left /\ x.turn = op[o].turn
      /\ x.finals = op[o].finals /\ x.out = op[o].out
  BY <1>2 DEF Continuations
<1> HIDE DEF x
<1> QED BY ONLY <1>1, <1>3, <1>4, <1>5, op \in [Ops -> Continuations], o \in Ops
           DEF Becomes

\* ... that could not be started.
LEMMA StartCloseFields ==
  ASSUME op \in [Ops -> Continuations], NEW o \in Ops, NEW call \in Calls,
         op' = [UvClose(o, call) EXCEPT ![o].started = TRUE]
  PROVE  Becomes(o, TRUE, TRUE, op[o].closed, "closing", call, op[o].left, op[o].turn,
                 op[o].finals, op[o].out)
<1> DEFINE x == [op[o] EXCEPT !.started = TRUE, !.completed = TRUE, !.uv = "closing", !.then = call]
<1>1. op' = [op EXCEPT ![o] = x]
  BY DEF UvClose
<1>2. op[o] \in Continuations
  OBVIOUS
<1>3. x \in Continuations /\ x.kind = op[o].kind /\ x.ns = op[o].ns
  BY <1>2 DEF Continuations, Calls
<1>4. /\ x.destructed = op[o].destructed /\ x.started = TRUE /\ x.completed = TRUE
      /\ x.closed = op[o].closed /\ x.uv = "closing"
  BY <1>2 DEF Continuations
<1>5. /\ x.then = call /\ x.left = op[o].left /\ x.turn = op[o].turn
      /\ x.finals = op[o].finals /\ x.out = op[o].out
  BY <1>2 DEF Continuations
<1> HIDE DEF x
<1> QED BY ONLY <1>1, <1>3, <1>4, <1>5, op \in [Ops -> Continuations], o \in Ops
           DEF Becomes

\* ... of a Poll without a handle.
LEMMA StartFailFields ==
  ASSUME op \in [Ops -> Continuations], NEW o \in Ops,
         op' = [Final(o, "fail") EXCEPT ![o].started = TRUE, ![o].closed = TRUE]
  PROVE  Becomes(o, TRUE, TRUE, TRUE, op[o].uv, op[o].then, op[o].left, op[o].turn,
                 (op[o].finals + 1), "fail")
<1>0. PICK n \in Nat : n = op[o].finals + 1
  BY DEF Continuations
<1> DEFINE x == [op[o] EXCEPT !.started = TRUE, !.completed = TRUE, !.closed = TRUE,
                              !.out = "fail", !.finals = n]
<1>1. op' = [op EXCEPT ![o] = x]
  BY <1>0 DEF Final
<1>2. op[o] \in Continuations
  OBVIOUS
<1>3. x \in Continuations /\ x.kind = op[o].kind /\ x.ns = op[o].ns
  BY <1>2 DEF Continuations, Calls
<1>4. /\ x.destructed = op[o].destructed /\ x.started = TRUE /\ x.completed = TRUE
      /\ x.closed = TRUE /\ x.uv = op[o].uv
  BY <1>2 DEF Continuations
<1>5. /\ x.then = op[o].then /\ x.left = op[o].left /\ x.turn = op[o].turn /\ x.finals = n
      /\ x.out = "fail"
  BY <1>2 DEF Continuations
<1> HIDE DEF x
<1> QED BY ONLY <1>0, <1>1, <1>3, <1>4, <1>5, op \in [Ops -> Continuations], o \in Ops
           DEF Becomes

\* ... whose handle has been closed.
LEMMA ClosedFields ==
  ASSUME op \in [Ops -> Continuations], NEW o \in Ops, NEW call \in Calls,
         op' = [Final(o, call) EXCEPT ![o].uv = "closed", ![o].closed = TRUE,
                                           ![o].then = "none"]
  PROVE  Becomes(o, op[o].started, TRUE, TRUE, "closed", "none", op[o].left, op[o].turn,
                 (op[o].finals + 1), call)
<1>0. PICK n \in Nat : n = op[o].finals + 1
  BY DEF Continuations
<1> DEFINE x == [op[o] EXCEPT !.completed = TRUE, !.closed = TRUE, !.uv = "closed",
                              !.then = "none", !.out = call, !.finals = n]
<1>1. op' = [op EXCEPT ![o] = x]
  BY <1>0 DEF Final
<1>2. op[o] \in Continuations
  OBVIOUS
<1>3. x \in Continuations /\ x.kind = op[o].kind /\ x.ns = op[o].ns
  BY <1>2 DEF Continuations, Calls
<1>4. /\ x.destructed = op[o].destructed /\ x.started = op[o].started /\ x.completed = TRUE
      /\ x.closed = TRUE /\ x.uv = "closed"
  BY <1>2 DEF Continuations
<1>5. x.then = "none" /\ x.left = op[o].left /\ x.turn = op[o].turn /\ x.finals = n /\ x.out = call
  BY <1>2 DEF Continuations
<1> HIDE DEF x
<1> QED BY ONLY <1>0, <1>1, <1>3, <1>4, <1>5, op \in [Ops -> Continuations], o \in Ops
           DEF Becomes

\* ... of a timer that runs.
LEMMA StartTimerFields ==
  ASSUME op \in [Ops -> Continuations], NEW o \in Ops, NEW k \in Nat,
         op' = [op EXCEPT ![o].started = TRUE, ![o].uv = "active", ![o].left = k]
  PROVE  Becomes(o, TRUE, op[o].completed, op[o].closed, "active", op[o].then, k, op[o].turn,
                 op[o].finals, op[o].out)
<1> DEFINE x == [op[o] EXCEPT !.started = TRUE, !.uv = "active", !.left = k]
<1>1. op' = [op EXCEPT ![o] = x]
  OBVIOUS
<1>2. op[o] \in Continuations
  OBVIOUS
<1>3. x \in Continuations /\ x.kind = op[o].kind /\ x.ns = op[o].ns
  BY <1>2 DEF Continuations, Calls
<1>4. /\ x.destructed = op[o].destructed /\ x.started = TRUE
      /\ x.completed = op[o].completed /\ x.closed = op[o].closed /\ x.uv = "active"
  BY <1>2 DEF Continuations
<1>5. /\ x.then = op[o].then /\ x.left = k /\ x.turn = op[o].turn /\ x.finals = op[o].finals
      /\ x.out = op[o].out
  BY <1>2 DEF Continuations
<1> HIDE DEF x
<1> QED BY ONLY <1>1, <1>3, <1>4, <1>5, op \in [Ops -> Continuations], o \in Ops
           DEF Becomes

\* ... of a signal that is waited for.
LEMMA StartSignalFields ==
  ASSUME op \in [Ops -> Continuations], NEW o \in Ops,
         op' = [op EXCEPT ![o].started = TRUE, ![o].uv = "active"]
  PROVE  Becomes(o, TRUE, op[o].completed, op[o].closed, "active", op[o].then, op[o].left,
                 op[o].turn, op[o].finals, op[o].out)
<1> DEFINE x == [op[o] EXCEPT !.started = TRUE, !.uv = "active"]
<1>1. op' = [op EXCEPT ![o] = x]
  OBVIOUS
<1>2. op[o] \in Continuations
  OBVIOUS
<1>3. x \in Continuations /\ x.kind = op[o].kind /\ x.ns = op[o].ns
  BY <1>2 DEF Continuations, Calls
<1>4. /\ x.destructed = op[o].destructed /\ x.started = TRUE
      /\ x.completed = op[o].completed /\ x.closed = op[o].closed /\ x.uv = "active"
  BY <1>2 DEF Continuations
<1>5. /\ x.then = op[o].then /\ x.left = op[o].left /\ x.turn = op[o].turn
      /\ x.finals = op[o].finals /\ x.out = op[o].out
  BY <1>2 DEF Continuations
<1> HIDE DEF x
<1> QED BY ONLY <1>1, <1>3, <1>4, <1>5, op \in [Ops -> Continuations], o \in Ops
           DEF Becomes

\* ... of a Poll that has called Begin.
LEMMA StartPollFields ==
  ASSUME op \in [Ops -> Continuations], NEW o \in Ops,
         op' = [op EXCEPT ![o].started = TRUE, ![o].uv = "stopped",
                          ![o].out = "begin", ![o].turn = TRUE]
  PROVE  Becomes(o, TRUE, op[o].completed, op[o].closed, "stopped", op[o].then, op[o].left,
                 TRUE, op[o].finals, "begin")
<1> DEFINE x == [op[o] EXCEPT !.started = TRUE, !.uv = "stopped", !.out = "begin", !.turn = TRUE]
<1>1. op' = [op EXCEPT ![o] = x]
  OBVIOUS
<1>2. op[o] \in Continuations
  OBVIOUS
<1>3. x \in Continuations /\ x.kind = op[o].kind /\ x.ns = op[o].ns
  BY <1>2 DEF Continuations, Calls
<1>4. /\ x.destructed = op[o].destructed /\ x.started = TRUE
      /\ x.completed = op[o].completed /\ x.closed = op[o].closed /\ x.uv = "stopped"
  BY <1>2 DEF Continuations
<1>5. /\ x.then = op[o].then /\ x.left = op[o].left /\ x.turn = TRUE
      /\ x.finals = op[o].finals /\ x.out = "begin"
  BY <1>2 DEF Continuations
<1> HIDE DEF x
<1> QED BY ONLY <1>1, <1>3, <1>4, <1>5, op \in [Ops -> Continuations], o \in Ops
           DEF Becomes

\* ... of a Poll that polls.
LEMMA NextFields ==
  ASSUME op \in [Ops -> Continuations], NEW o \in Ops,
         op' = [op EXCEPT ![o].uv = "active"]
  PROVE  Becomes(o, op[o].started, op[o].completed, op[o].closed, "active", op[o].then,
                 op[o].left, op[o].turn, op[o].finals, op[o].out)
<1> DEFINE x == [op[o] EXCEPT !.uv = "active"]
<1>1. op' = [op EXCEPT ![o] = x]
  OBVIOUS
<1>2. op[o] \in Continuations
  OBVIOUS
<1>3. x \in Continuations /\ x.kind = op[o].kind /\ x.ns = op[o].ns
  BY <1>2 DEF Continuations, Calls
<1>4. /\ x.destructed = op[o].destructed /\ x.started = op[o].started
      /\ x.completed = op[o].completed /\ x.closed = op[o].closed /\ x.uv = "active"
  BY <1>2 DEF Continuations
<1>5. /\ x.then = op[o].then /\ x.left = op[o].left /\ x.turn = op[o].turn
      /\ x.finals = op[o].finals /\ x.out = op[o].out
  BY <1>2 DEF Continuations
<1> HIDE DEF x
<1> QED BY ONLY <1>1, <1>3, <1>4, <1>5, op \in [Ops -> Continuations], o \in Ops
           DEF Becomes

\* ... of a Poll that has called Body.
LEMMA PolledFields ==
  ASSUME op \in [Ops -> Continuations], NEW o \in Ops,
         op' = [op EXCEPT ![o].uv = "stopped", ![o].out = "body", ![o].turn = TRUE]
  PROVE  Becomes(o, op[o].started, op[o].completed, op[o].closed, "stopped", op[o].then,
                 op[o].left, TRUE, op[o].finals, "body")
<1> DEFINE x == [op[o] EXCEPT !.uv = "stopped", !.out = "body", !.turn = TRUE]
<1>1. op' = [op EXCEPT ![o] = x]
  OBVIOUS
<1>2. op[o] \in Continuations
  OBVIOUS
<1>3. x \in Continuations /\ x.kind = op[o].kind /\ x.ns = op[o].ns
  BY <1>2 DEF Continuations, Calls
<1>4. /\ x.destructed = op[o].destructed /\ x.started = op[o].started
      /\ x.completed = op[o].completed /\ x.closed = op[o].closed /\ x.uv = "stopped"
  BY <1>2 DEF Continuations
<1>5. /\ x.then = op[o].then /\ x.left = op[o].left /\ x.turn = TRUE
      /\ x.finals = op[o].finals /\ x.out = "body"
  BY <1>2 DEF Continuations
<1> HIDE DEF x
<1> QED BY ONLY <1>1, <1>3, <1>4, <1>5, op \in [Ops -> Continuations], o \in Ops
           DEF Becomes

\* ... of a Poll that was asked.
LEMMA AskFields ==
  ASSUME op \in [Ops -> Continuations], NEW o \in Ops,
         op' = [op EXCEPT ![o].turn = FALSE]
  PROVE  Becomes(o, op[o].started, op[o].completed, op[o].closed, op[o].uv, op[o].then,
                 op[o].left, FALSE, op[o].finals, op[o].out)
<1> DEFINE x == [op[o] EXCEPT !.turn = FALSE]
<1>1. op' = [op EXCEPT ![o] = x]
  OBVIOUS
<1>2. op[o] \in Continuations
  OBVIOUS
<1>3. x \in Continuations /\ x.kind = op[o].kind /\ x.ns = op[o].ns
  BY <1>2 DEF Continuations, Calls
<1>4. /\ x.destructed = op[o].destructed /\ x.started = op[o].started
      /\ x.completed = op[o].completed /\ x.closed = op[o].closed /\ x.uv = op[o].uv
  BY <1>2 DEF Continuations
<1>5. /\ x.then = op[o].then /\ x.left = op[o].left /\ x.turn = FALSE
      /\ x.finals = op[o].finals /\ x.out = op[o].out
  BY <1>2 DEF Continuations
<1> HIDE DEF x
<1> QED BY ONLY <1>1, <1>3, <1>4, <1>5, op \in [Ops -> Continuations], o \in Ops
           DEF Becomes

\* A timer is given to libuv in whole milliseconds, less than one too few.
LEMMA WholeMillis ==
  ASSUME NEW n \in Nat
  PROVE  n \div Milli \in Nat /\ n < (n \div Milli) * Milli + Milli
BY EventLoopAssumption, Z3

-----------------------------------------------------------------------------
(* Facts about the lists.                                                  *)

\* The entries of the two lists are about operations.
LEMMA EntryFacts ==
  ASSUME TypeOK
  PROVE  /\ Len(waiters) \in Nat /\ Len(pending) \in Nat
         /\ DOMAIN waiters = 1..Len(waiters) /\ DOMAIN pending = 1..Len(pending)
         /\ \A i \in 1..Len(waiters) : waiters[i].op \in Ops /\ waiters[i].what \in Callbacks
         /\ \A i \in 1..Len(pending) : pending[i].op \in Ops /\ pending[i].ns \in Nat
<1>1. \A w \in Submissions : w.op \in Ops /\ w.what \in Callbacks
  BY DEF Submissions, Callbacks
<1>2. \A p \in [op : Ops, ns : Nat] : p.op \in Ops /\ p.ns \in Nat
  OBVIOUS
<1>3. waiters \in Seq(Submissions) /\ pending \in Seq([op : Ops, ns : Nat])
  BY DEF TypeOK
<1>4. /\ Len(waiters) \in Nat /\ DOMAIN waiters = 1..Len(waiters)
      /\ \A i \in 1..Len(waiters) : waiters[i] \in Submissions
  BY ONLY <1>3, ElementOfSeq, LenProperties
<1>5. /\ Len(pending) \in Nat /\ DOMAIN pending = 1..Len(pending)
      /\ \A i \in 1..Len(pending) : pending[i] \in [op : Ops, ns : Nat]
  BY ONLY <1>3, ElementOfSeq, LenProperties
<1> QED BY <1>1, <1>2, <1>4, <1>5

\* A submission is what it was made of.
LEMMA WaiterFacts ==
  /\ \A o, w : Waiter(o, w).op = o /\ Waiter(o, w).what = w
  /\ \A o \in Ops : \A w \in Callbacks : Waiter(o, w) \in Submissions
BY DEF Waiter, Submissions, Callbacks

\* A callback is submitted.
LEMMA PushFacts ==
  ASSUME TypeOK, Single, NEW o \in Ops, NEW w \in Callbacks,
         waiters' = Append(waiters, Waiter(o, w)), pending' = pending,
         IF w = "interrupt" THEN ~Submitted(o, "interrupt") ELSE ~Listed(o)
  PROVE  /\ waiters' \in Seq(Submissions) /\ Single'
         /\ \A p, v : Submitted(p, v)' <=> Submitted(p, v) \/ (p = o /\ v = w)
<1>1. Waiter(o, w) \in Submissions /\ Waiter(o, w).op = o /\ Waiter(o, w).what = w
  BY WaiterFacts
<1> DEFINE n == Len(waiters) + 1
<1>2. /\ waiters' \in Seq(Submissions) /\ Len(waiters) \in Nat
      /\ Len(waiters') = n
      /\ \A i \in 1..Len(waiters) : waiters'[i] = waiters[i]
      /\ waiters'[n] = Waiter(o, w)
  BY <1>1, AppendProperties DEF TypeOK
<1>3. \A i \in 1..Len(waiters) : i \in 1..n
  BY <1>2
<1>4. \A i \in 1..n : i = n \/ i \in 1..Len(waiters)
  BY <1>2
<1>5. n \in 1..n
  BY <1>2
<1> HIDE DEF n
<1>6. ASSUME NEW p, NEW v PROVE Submitted(p, v)' <=> Submitted(p, v) \/ (p = o /\ v = w)
  BY <1>1, <1>2, <1>3, <1>4, <1>5 DEF Submitted
<1>7. \A i \in 1..Len(waiters) :
        waiters[i].op = o => (waiters[i].what = "interrupt" <=> w # "interrupt")
  <2> SUFFICES ASSUME NEW i \in 1..Len(waiters), waiters[i].op = o
               PROVE  waiters[i].what = "interrupt" <=> w # "interrupt"
    OBVIOUS
  <2>1. waiters[i].what \in Callbacks /\ Submitted(o, waiters[i].what)
    BY EntryFacts DEF Submitted
  <2> QED BY <2>1 DEF Listed
<1>8. Single'
  <2> SUFFICES ASSUME NEW i \in 1..n, NEW j \in 1..n, waiters'[i].op = waiters'[j].op,
                      waiters'[i].what = "interrupt" <=> waiters'[j].what = "interrupt"
               PROVE  i = j
    BY <1>2 DEF Single
  <2> QED BY <1>1, <1>2, <1>4, <1>7 DEF Single
<1> QED BY <1>2, <1>6, <1>8

\* The oldest submission is taken.
LEMMA PopFacts ==
  ASSUME TypeOK, Single, waiters # <<>>, waiters' = Tail(waiters), pending' = pending,
         NEW o, o = Head(waiters).op, NEW w, w = Head(waiters).what
  PROVE  /\ waiters' \in Seq(Submissions) /\ Single'
         /\ o \in Ops /\ w \in Callbacks /\ Submitted(o, w)
         /\ \A p, v : Submitted(p, v)' <=> Submitted(p, v) /\ ~(p = o /\ v = w)
         /\ w # "interrupt" => ~Listed(o)'
<1>1. /\ waiters' \in Seq(Submissions) /\ Len(waiters') = Len(waiters) - 1
      /\ Len(waiters) \in Nat /\ Len(waiters) > 0 /\ waiters[1] = Head(waiters)
      /\ \A i \in 1..Len(waiters') : waiters'[i] = waiters[i + 1]
  BY HeadTailProperties DEF TypeOK
<1>2. 1 \in 1..Len(waiters) /\ waiters[1].op = o /\ waiters[1].what = w
  BY <1>1
<1>3. o \in Ops /\ w \in Callbacks /\ Submitted(o, w)
  BY <1>2, EntryFacts DEF Submitted
<1>4. \A i \in 1..Len(waiters') : i + 1 \in 1..Len(waiters) /\ i + 1 # 1
  BY <1>1
<1>5. \A i \in 1..Len(waiters) : i = 1 \/ (i - 1 \in 1..Len(waiters') /\ waiters'[i - 1] = waiters[i])
  BY <1>1
<1>6. \A i \in 1..Len(waiters') :
        waiters'[i].op = o => ~(waiters'[i].what = "interrupt" <=> w = "interrupt")
  BY <1>1, <1>2, <1>4 DEF Single
<1>7. ASSUME NEW p, NEW v PROVE Submitted(p, v)' <=> Submitted(p, v) /\ ~(p = o /\ v = w)
  <2>1. Submitted(p, v)' => Submitted(p, v) /\ ~(p = o /\ v = w)
    BY <1>1, <1>4, <1>6 DEF Submitted
  <2>2. Submitted(p, v) /\ ~(p = o /\ v = w) => Submitted(p, v)'
    BY <1>2, <1>5 DEF Submitted
  <2> QED BY <2>1, <2>2
<1>8. w # "interrupt" => ~Listed(o)'
  BY <1>6 DEF Listed, Submitted
<1>9. Single'
  <2> SUFFICES ASSUME NEW i \in 1..Len(waiters'), NEW j \in 1..Len(waiters'),
                      waiters'[i].op = waiters'[j].op,
                      waiters'[i].what = "interrupt" <=> waiters'[j].what = "interrupt"
               PROVE  i = j
    BY DEF Single
  <2>1. i + 1 = j + 1
    BY <1>1, <1>4 DEF Single
  <2> QED BY <2>1
<1> QED BY <1>1, <1>3, <1>7, <1>8, <1>9

\* q has the elements of s at the positions in I, each once.
IsPick(q, s, I) ==
  \E f \in [1..Cardinality(I) -> I] :
    /\ \A k \in 1..Cardinality(I) : q[k] = s[f[k]]
    /\ \A k, m \in 1..Cardinality(I) : f[k] = f[m] => k = m
    /\ \A i \in I : \E k \in 1..Cardinality(I) : f[k] = i

\* A function on the first n numbers is a sequence of length n.
LEMMA FunctionIsSeq ==
  ASSUME NEW S, NEW n \in Nat, NEW f \in [1..n -> S]
  PROVE  f \in Seq(S) /\ Len(f) = n
<1>1. f \in Seq(S)
  BY ONLY SeqDef
<1>2. Len(f) \in Nat /\ 1..Len(f) = 1..n
  BY <1>1, LenProperties
<1> QED BY ONLY <1>1, <1>2

\* Picked keeps the elements at the positions in I, each once.
LEMMA PickedFacts ==
  ASSUME NEW S, NEW s \in Seq(S), NEW I \in SUBSET (1..Len(s))
  PROVE  /\ Cardinality(I) \in Nat
         /\ Picked(s, I) \in Seq(S) /\ Len(Picked(s, I)) = Cardinality(I)
         /\ IsPick(Picked(s, I), s, I)
<1> DEFINE n == Cardinality(I)
           Upto(i) == {j \in I : j <= i}
           rank == [i \in I |-> Cardinality(Upto(i))]
           f == [k \in 1..n |-> CHOOSE i \in I : Cardinality(Upto(i)) = k]
<1>1. Len(s) \in Nat /\ IsFiniteSet(1..Len(s)) /\ IsFiniteSet(I)
  <2>1. Len(s) \in Nat
    BY LenProperties
  <2>2. IsFiniteSet(1..Len(s))
    BY <2>1, FS_Interval
  <2> QED BY <2>1, <2>2, FS_Subset
<1>2. n \in Nat /\ \A i \in I : IsFiniteSet(Upto(i)) /\ Cardinality(Upto(i)) \in Nat
                                 /\ Cardinality(Upto(i)) <= n
  BY <1>1, FS_Subset, FS_CardinalityType
<1>3. \A i \in I : i \in Nat
  BY <1>1
<1>4. ASSUME NEW i \in I PROVE Cardinality(Upto(i)) # 0
  <2>1. i \in Upto(i)
    BY <1>3
  <2> QED BY <1>2, <2>1, FS_EmptySet
<1>5. ASSUME NEW i \in I, NEW j \in I, i < j PROVE Cardinality(Upto(i)) # Cardinality(Upto(j))
  <2>1. Upto(i) \in SUBSET Upto(j) /\ j \in Upto(j) /\ j \notin Upto(i)
    <3>1. i \in Nat /\ j \in Nat /\ i < j
      BY <1>3, <1>5
    <3>2. \A m \in I : m \in Nat /\ (m <= i => m <= j)
      BY <1>3, <3>1
    <3>3. \A m \in Upto(i) : m \in Upto(j)
      BY <3>2
    <3>4. j \in Upto(j) /\ j \notin Upto(i)
      BY <3>1
    <3> HIDE DEF Upto
    <3> QED BY <3>3, <3>4
  <2> QED BY <1>2, <2>1, FS_Subset
<1>6. \A i, j \in I : Cardinality(Upto(i)) = Cardinality(Upto(j)) => i = j
  <2> SUFFICES ASSUME NEW i \in I, NEW j \in I, Cardinality(Upto(i)) = Cardinality(Upto(j))
               PROVE  i = j
    OBVIOUS
  <2>1. ~(i < j) /\ ~(j < i)
    BY <1>5
  <2> QED BY <1>3, <2>1
<1>7. rank \in [I -> 1..n]
  <2> HIDE DEF Upto, n
  <2>1. \A i \in I : Cardinality(Upto(i)) \in 1..n
    BY <1>2, <1>4
  <2> QED BY <2>1
<1>8. rank \in Injection(I, 1..n)
  <2> HIDE DEF Upto, n
  <2> QED BY <1>6, <1>7 DEF Injection, IsInjective
<1>9. IsFiniteSet(1..n) /\ Cardinality(1..n) = n
  BY <1>2, FS_Interval
<1>10. rank \in Surjection(I, 1..n)
  BY ONLY <1>8, <1>9, FS_Injection
<1>11. \A k \in 1..n : \E i \in I : Cardinality(Upto(i)) = k
  <2> HIDE DEF Upto, n
  <2> QED BY <1>10 DEF Surjection
<1>12. \A k \in 1..n : f[k] \in I /\ Cardinality(Upto(f[k])) = k
  <2> HIDE DEF Upto, n
  <2> QED BY <1>11
<1>13. \A k \in 1..n : Picked(s, I)[k] = s[f[k]]
  BY DEF Picked
<1>14. \A i \in I : s[i] \in S
  BY <1>1, ElementOfSeq
<1>15. Picked(s, I) \in [1..n -> S]
  <2>1. Picked(s, I) = [k \in 1..n |-> s[f[k]]]
    BY DEF Picked
  <2> HIDE DEF f, n
  <2> QED BY <1>12, <1>14, <2>1
<1>16. Picked(s, I) \in Seq(S) /\ Len(Picked(s, I)) = n
  <2>1. n \in Nat
    BY <1>2
  <2> HIDE DEF n
  <2> QED BY ONLY <2>1, <1>15, FunctionIsSeq
<1>17. f \in [1..n -> I]
  <2> HIDE DEF Upto, n
  <2>1. \A k \in 1..n : (CHOOSE i \in I : Cardinality(Upto(i)) = k) \in I
    BY <1>11
  <2> QED BY <2>1
<1>18. \A i \in I : Cardinality(Upto(i)) \in 1..n /\ f[Cardinality(Upto(i))] = i
  <2> SUFFICES ASSUME NEW i \in I
               PROVE  Cardinality(Upto(i)) \in 1..n /\ f[Cardinality(Upto(i))] = i
    OBVIOUS
  <2> HIDE DEF f, Upto, n
  <2>1. Cardinality(Upto(i)) \in 1..n
    BY <1>2, <1>4
  <2> QED BY <1>6, <1>12, <2>1
<1>19. \A k, m \in 1..n : f[k] = f[m] => k = m
  <2> HIDE DEF f, Upto, n
  <2> QED BY <1>12
<1> HIDE DEF f, Upto, rank
<1>20. IsPick(Picked(s, I), s, I)
  <2>1. \A i \in I : \E k \in 1..n : f[k] = i
    BY ONLY <1>18
  <2> QED BY ONLY <1>13, <1>17, <1>19, <2>1, Zenon DEF IsPick, n
<1> QED BY <1>2, <1>16, <1>20

-----------------------------------------------------------------------------
(* Steps that change what is known of one operation.                       *)

\* The members that the invariant speaks of are the same.
SameShape(r, s) ==
  /\ r.kind = s.kind /\ r.started = s.started /\ r.completed = s.completed
  /\ r.closed = s.closed /\ r.uv = s.uv /\ r.then = s.then /\ r.turn = s.turn
  /\ r.finals = s.finals /\ r.out = s.out /\ r.destructed = s.destructed

\* Nothing happens to operation p.
Unmoved(p) ==
  /\ caller'[p] = caller[p] /\ trigger'[p] = trigger[p] /\ handler'[p] = handler[p]
  /\ SameShape(op'[p], op[p])
  /\ \A w : Submitted(p, w)' <=> Submitted(p, w)
  /\ Pends(p)' <=> Pends(p)

LEMMA UnmovedOK ==
  ASSUME NEW p \in Ops, OpOK(p), Unmoved(p)
  PROVE  OpOK(p)'
<1>1. Formed(p)'
  BY DEF OpOK, Unmoved, SameShape, Formed, Shaped, Gone
<1>2. HadByOne(p)'
  BY DEF OpOK, Unmoved, SameShape, HadByOne, Listed, Calling
<1>3. SubmittedFits(p)'
  BY DEF OpOK, Unmoved, SameShape, SubmittedFits, Fits
<1>4. HandledOnce(p)'
  BY DEF OpOK, Unmoved, SameShape, HandledOnce
<1>5. ArmedStarts(p)'
  BY DEF OpOK, Unmoved, SameShape, ArmedStarts, Armed
<1> QED BY <1>1, <1>2, <1>3, <1>4, <1>5 DEF OpOK

\* If no list changes, nothing is submitted.
LEMMA SameLists ==
  ASSUME waiters' = waiters, pending' = pending
  PROVE  /\ \A p, w : Submitted(p, w)' <=> Submitted(p, w)
         /\ \A p : Pends(p)' <=> Pends(p)
BY DEF Submitted, Pends

\* It is enough to look at the operation that a step is about.
LEMMA StepOf ==
  ASSUME LoopInv, NEW o \in Ops, TypeOK', Single', PendingLater', OpOK(o)',
         \A p \in Ops : p # o => Unmoved(p)
  PROVE  LoopInv'
BY UnmovedOK DEF LoopInv

\* The thread that calls goes on; no list and no continuation changes.
LEMMA CallStep ==
  ASSUME LoopInv, NEW o \in Ops,
         NEW at \in {"idle", "clock", "pend", "submit", "send", "gone"},
         NEW what \in {"none", "start", "refused", "fail", "stop", "next", "done"},
         Call(o, at, what), OpOK(o)',
         handler' \in [Ops -> {"none", "registered", "installed", "used"}],
         \A p \in Ops : p # o => handler'[p] = handler[p],
         async' \in BOOLEAN,
         UNCHANGED <<waiters, phase, clockVars, trigger, op, elapsed>>
  PROVE  LoopInv'
<1> USE DEF LoopInv, clockVars
<1>1. TypeOK'
  BY DEF TypeOK, Call
<1>2. Single' /\ PendingLater'
  BY DEF Single, PendingLater
<1>3. \A p \in Ops : p # o => Unmoved(p)
  BY SameLists DEF Unmoved, SameShape, Call, TypeOK
<1> QED BY <1>1, <1>2, <1>3, StepOf

\* Start installs the handler, or finds the interrupt triggered.
LEMMA StartStep ==
  ASSUME LoopInv, NEW o \in Ops, Start(o)
  PROVE  LoopInv'
<1> USE DEF loopVars
<1>h. OpOK(o) /\ TypeOK
  BY DEF LoopInv
<1>s. (\A w : Submitted(o, w)' <=> Submitted(o, w)) /\ (Pends(o)' <=> Pends(o))
  BY SameLists DEF Start, clockVars
<1>c. caller[o].at = "idle" /\ op[o].kind # "schedule" /\ op' = op /\ trigger' = trigger
  BY DEF Start, Handles
<1>1. ASSUME handler[o] = "registered", trigger[o] = "early", Call(o, "submit", "refused"),
             UNCHANGED handler
      PROVE  LoopInv'
  <2>1. caller'[o].at = "submit" /\ caller'[o].what = "refused"
    BY <1>h, <1>1 DEF Call, TypeOK
  <2>9. OpOK(o)'
    <3>1. Formed(o)'
      BY <1>h, <1>s, <1>c, <1>1, <2>1
         DEF OpOK, Formed, Shaped, Gone, HadByOne, SubmittedFits, Calling, Fits, Listed,
             Callbacks
    <3>2. HadByOne(o)'
      BY <1>h, <1>s, <1>c, <1>1, <2>1
         DEF OpOK, HadByOne, Listed, Calling, Callbacks, SubmittedFits, Fits, Formed,
             Shaped, Gone
    <3>3. SubmittedFits(o)'
      BY <1>h, <1>s, <1>c, <1>1, <2>1
         DEF OpOK, SubmittedFits, Fits, HadByOne, Listed, Calling, Callbacks, Formed,
             Shaped, Gone
    <3>4. HandledOnce(o)'
      BY <1>h, <1>s, <1>c, <1>1, <2>1 DEF OpOK, HandledOnce, HadByOne, Calling, SubmittedFits, Fits
    <3>5. ArmedStarts(o)'
      BY <1>h, <1>s, <1>c, <1>1, <2>1
         DEF OpOK, ArmedStarts, Armed, HandledOnce, HadByOne, Listed, Calling,
             SubmittedFits, Fits, Refusals, Callbacks, Formed, Shaped, Gone
    <3> QED BY <3>1, <3>2, <3>3, <3>4, <3>5 DEF OpOK
  <2> QED BY <1>h, <1>1, <2>9, CallStep DEF Start, TypeOK
<1>2. ASSUME ~(handler[o] = "registered" /\ trigger[o] = "early"),
             handler' = [handler EXCEPT ![o] = IF @ = "registered" THEN "installed" ELSE @],
             Call(o, IF o \in Timers THEN "clock" ELSE "submit", "start")
      PROVE  LoopInv'
  <2> DEFINE at == IF o \in Timers THEN "clock" ELSE "submit"
  <2>1. /\ caller'[o].at = at /\ caller'[o].what = "start" /\ at \in {"clock", "submit"}
        /\ at = "clock" => op[o].kind = "timer"
    BY <1>h, <1>2 DEF Call, TypeOK, Timers
  <2>2. handler'[o] = IF handler[o] = "registered" THEN "installed" ELSE handler[o]
    BY <1>h, <1>2 DEF TypeOK
  <2>3. /\ handler' \in [Ops -> {"none", "registered", "installed", "used"}]
        /\ \A p \in Ops : p # o => handler'[p] = handler[p]
    BY <1>h, <1>2 DEF TypeOK
  <2>4. Call(o, at, "start")
    BY <1>2
  <2>5. trigger[o] \in {"none", "early"} /\ handler[o] \in {"none", "registered"}
    BY <1>h, <1>c DEF OpOK, HandledOnce
  <2> HIDE DEF at
  <2>9. OpOK(o)'
    <3>1. Formed(o)'
      BY <1>h, <1>s, <1>c, <1>2, <2>1, <2>2, <2>5
         DEF OpOK, Formed, Shaped, Gone, HadByOne, SubmittedFits, Calling, Fits, Listed,
             Callbacks
    <3>2. HadByOne(o)'
      BY <1>h, <1>s, <1>c, <1>2, <2>1, <2>2, <2>5
         DEF OpOK, HadByOne, Listed, Calling, Callbacks, SubmittedFits, Fits, Formed,
             Shaped, Gone
    <3>3. SubmittedFits(o)'
      BY <1>h, <1>s, <1>c, <1>2, <2>1, <2>2, <2>5
         DEF OpOK, SubmittedFits, Fits, HadByOne, Listed, Calling, Callbacks, Formed,
             Shaped, Gone
    <3>4. HandledOnce(o)'
      BY <1>h, <1>s, <1>c, <1>2, <2>1, <2>2, <2>5
         DEF OpOK, HandledOnce, HadByOne, Calling, SubmittedFits, Fits
    <3>5. ArmedStarts(o)'
      BY <1>h, <1>s, <1>c, <1>2, <2>1, <2>2, <2>5
         DEF OpOK, ArmedStarts, Armed, HandledOnce, HadByOne, Listed, Calling,
             SubmittedFits, Fits, Refusals, Callbacks, Formed, Shaped, Gone
    <3> QED BY <3>1, <3>2, <3>3, <3>4, <3>5 DEF OpOK
  <2> QED BY <1>h, <2>1, <2>3, <2>4, <2>9, CallStep DEF Start, TypeOK
<1> QED BY <1>1, <1>2 DEF Start

\* Fail and Stop go to the loop.
LEMMA FailsStep ==
  ASSUME LoopInv, NEW o \in Ops, Fails(o)
  PROVE  LoopInv'
<1> USE DEF loopVars
<1>h. OpOK(o) /\ TypeOK
  BY DEF LoopInv
<1>s. (\A w : Submitted(o, w)' <=> Submitted(o, w)) /\ (Pends(o)' <=> Pends(o))
  BY SameLists DEF Fails, clockVars
<1>c. /\ caller[o].at = "idle" /\ op[o].kind # "schedule"
      /\ op' = op /\ trigger' = trigger /\ handler' = handler
  BY DEF Fails, Handles
<1>1. PICK what \in {"fail", "stop"} : Call(o, "submit", what)
  BY DEF Fails
<1>2. caller'[o].at = "submit" /\ caller'[o].what = what
  BY <1>h, <1>1 DEF Call, TypeOK
<1>9. OpOK(o)'
  <2>1. Formed(o)'
    BY <1>h, <1>s, <1>c, <1>2
       DEF OpOK, Formed, Shaped, Gone, HadByOne, SubmittedFits, Calling, Fits, Listed,
           Callbacks
  <2>2. HadByOne(o)'
    BY <1>h, <1>s, <1>c, <1>2
       DEF OpOK, HadByOne, Listed, Calling, Callbacks, SubmittedFits, Fits, Formed, Shaped,
           Gone
  <2>3. SubmittedFits(o)'
    BY <1>h, <1>s, <1>c, <1>2
       DEF OpOK, SubmittedFits, Fits, HadByOne, Listed, Calling, Callbacks, Formed, Shaped,
           Gone
  <2>4. HandledOnce(o)'
    BY <1>h, <1>s, <1>c, <1>2 DEF OpOK, HandledOnce, HadByOne, Calling, SubmittedFits, Fits
  <2>5. ArmedStarts(o)'
    BY <1>h, <1>s, <1>c, <1>2
       DEF OpOK, ArmedStarts, Armed, HandledOnce, HadByOne, Listed, Calling, SubmittedFits,
           Fits, Refusals, Callbacks, Formed, Shaped, Gone
  <2> QED BY <2>1, <2>2, <2>3, <2>4, <2>5 DEF OpOK
<1> QED BY <1>h, <1>c, <1>1, <1>9, CallStep DEF Fails, TypeOK

\* A timer goes to the loop, or to the paused clock.
LEMMA ClockSubmitStep ==
  ASSUME LoopInv, NEW o \in Ops, ClockSubmit(o)
  PROVE  LoopInv'
<1> USE DEF loopVars
<1>h. OpOK(o) /\ TypeOK
  BY DEF LoopInv
<1>s. (\A w : Submitted(o, w)' <=> Submitted(o, w)) /\ (Pends(o)' <=> Pends(o))
  BY SameLists DEF ClockSubmit, clockVars
<1>c. caller[o].at = "clock" /\ op' = op /\ trigger' = trigger /\ handler' = handler
  BY DEF ClockSubmit
<1> DEFINE at == IF paused THEN "pend" ELSE "submit"
<1>1. at \in {"pend", "submit"} /\ Call(o, at, "start")
  BY DEF ClockSubmit
<1> HIDE DEF at
<1>2. caller'[o].at = at /\ caller'[o].what = "start"
  BY <1>h, <1>1 DEF Call, TypeOK
<1>9. OpOK(o)'
  <2>1. Formed(o)'
    BY <1>h, <1>s, <1>c, <1>1, <1>2
       DEF OpOK, Formed, Shaped, Gone, HadByOne, SubmittedFits, Calling, Fits, Listed,
           Callbacks
  <2>2. HadByOne(o)'
    BY <1>h, <1>s, <1>c, <1>1, <1>2
       DEF OpOK, HadByOne, Listed, Calling, Callbacks, SubmittedFits, Fits, Formed, Shaped,
           Gone
  <2>3. SubmittedFits(o)'
    BY <1>h, <1>s, <1>c, <1>1, <1>2
       DEF OpOK, SubmittedFits, Fits, HadByOne, Listed, Calling, Callbacks, Formed, Shaped,
           Gone
  <2>4. HandledOnce(o)'
    BY <1>h, <1>s, <1>c, <1>1, <1>2 DEF OpOK, HandledOnce, HadByOne, Calling, SubmittedFits, Fits
  <2>5. ArmedStarts(o)'
    BY <1>h, <1>s, <1>c, <1>1, <1>2
       DEF OpOK, ArmedStarts, Armed, HandledOnce, HadByOne, Listed, Calling, SubmittedFits,
           Fits, Refusals, Callbacks, Formed, Shaped, Gone
  <2> QED BY <2>1, <2>2, <2>3, <2>4, <2>5 DEF OpOK
<1> QED BY <1>h, <1>c, <1>1, <1>9, CallStep DEF ClockSubmit, TypeOK

\* The loop is told.
LEMMA SendStep ==
  ASSUME LoopInv, NEW o \in Ops, Send(o)
  PROVE  LoopInv'
<1> USE DEF loopVars
<1>h. OpOK(o) /\ TypeOK
  BY DEF LoopInv
<1>s. (\A w : Submitted(o, w)' <=> Submitted(o, w)) /\ (Pends(o)' <=> Pends(o))
  BY SameLists DEF Send, clockVars
<1>c. /\ caller[o].at = "send" /\ Call(o, "gone", "none")
      /\ op' = op /\ trigger' = trigger /\ handler' = handler
  BY DEF Send
<1>2. caller'[o].at = "gone" /\ caller'[o].what = "none"
  BY <1>h, <1>c DEF Call, TypeOK
<1>9. OpOK(o)'
  <2>1. Formed(o)'
    BY <1>h, <1>s, <1>c, <1>2
       DEF OpOK, Formed, Shaped, Gone, HadByOne, SubmittedFits, Calling, Fits, Listed,
           Callbacks
  <2>2. HadByOne(o)'
    BY <1>h, <1>s, <1>c, <1>2
       DEF OpOK, HadByOne, Listed, Calling, Callbacks, SubmittedFits, Fits, Formed, Shaped,
           Gone
  <2>3. SubmittedFits(o)'
    BY <1>h, <1>s, <1>c, <1>2
       DEF OpOK, SubmittedFits, Fits, HadByOne, Listed, Calling, Callbacks, Formed, Shaped,
           Gone
  <2>4. HandledOnce(o)'
    BY <1>h, <1>s, <1>c, <1>2 DEF OpOK, HandledOnce, HadByOne, Calling, SubmittedFits, Fits
  <2>5. ArmedStarts(o)'
    BY <1>h, <1>s, <1>c, <1>2
       DEF OpOK, ArmedStarts, Armed, HandledOnce, HadByOne, Listed, Calling, SubmittedFits,
           Fits, Refusals, Callbacks, Formed, Shaped, Gone
  <2> QED BY <2>1, <2>2, <2>3, <2>4, <2>5 DEF OpOK
<1> QED BY <1>h, <1>c, <1>9, CallStep DEF Send, TypeOK

\* A timer is put on the list of the paused clock.
LEMMA PendFacts ==
  ASSUME TypeOK, Single, PendingLater, NEW o \in Ops, NEW n \in Nat, n >= advanced,
         ~Pends(o), pending' = Append(pending, [op |-> o, ns |-> n]),
         waiters' = waiters, advanced' = advanced
  PROVE  /\ pending' \in Seq([op : Ops, ns : Nat]) /\ Single' /\ PendingLater'
         /\ \A p : Pends(p)' <=> Pends(p) \/ p = o
         /\ \A i \in 1..Len(pending') :
              \/ i \in 1..Len(pending) /\ pending'[i] = pending[i]
              \/ pending'[i].op = o /\ pending'[i].ns = n
<1> DEFINE x == [op |-> o, ns |-> n]
           m == Len(pending) + 1
<1>1. x \in [op : Ops, ns : Nat] /\ x.op = o /\ x.ns = n
  OBVIOUS
<1>2. /\ pending' \in Seq([op : Ops, ns : Nat]) /\ Len(pending) \in Nat
      /\ Len(pending') = m
      /\ \A i \in 1..Len(pending) : pending'[i] = pending[i]
      /\ pending'[m] = x
  <2> HIDE DEF x
  <2> QED BY <1>1, AppendProperties DEF TypeOK, x
<1>3. (\A i \in 1..Len(pending) : i \in 1..m) /\ m \in 1..m
  BY <1>2
<1>4. \A i \in 1..m : i = m \/ i \in 1..Len(pending)
  BY <1>2
<1> HIDE DEF x, m
<1>5. \A p : Pends(p)' <=> Pends(p) \/ p = o
  BY <1>1, <1>2, <1>3, <1>4 DEF Pends
<1>6. \A i \in 1..Len(pending) : pending[i].op # o
  BY DEF Pends
<1>7. Single'
  BY <1>1, <1>2, <1>4, <1>6 DEF Single
<1>8. PendingLater'
  BY <1>1, <1>2, <1>4 DEF PendingLater
<1> QED BY <1>1, <1>2, <1>4, <1>5, <1>7, <1>8

\* A timer is put on the list of the paused clock.
LEMMA ClockPendStep ==
  ASSUME LoopInv, NEW o \in Ops, ClockPend(o)
  PROVE  LoopInv'
<1> USE DEF loopVars, clockVars
<1>h. OpOK(o) /\ TypeOK /\ Single /\ PendingLater
  BY DEF LoopInv
<1>c. /\ caller[o].at = "pend" /\ Call(o, "gone", "none")
      /\ op' = op /\ trigger' = trigger /\ handler' = handler
  BY DEF ClockPend
<1>1. ~Pends(o) /\ ~Listed(o)
  BY <1>h, <1>c DEF OpOK, HadByOne, Calling
<1>2. op[o].ns \in Nat /\ advanced \in Nat /\ op[o].ns + advanced \in Nat
      /\ op[o].ns + advanced >= advanced
  BY <1>h, EventLoopAssumption DEF TypeOK, Continuations
<1>3. /\ pending' \in Seq([op : Ops, ns : Nat]) /\ Single' /\ PendingLater'
      /\ \A p : Pends(p)' <=> Pends(p) \/ p = o
  BY <1>h, <1>1, <1>2, PendFacts DEF ClockPend
<1>4. caller'[o].at = "gone" /\ caller'[o].what = "none"
  BY <1>h, <1>c DEF Call, TypeOK
<1>5. \A p, w : Submitted(p, w)' <=> Submitted(p, w)
  BY DEF Submitted, ClockPend
<1>9. OpOK(o)'
  <2>1. Formed(o)'
    BY <1>h, <1>c, <1>1, <1>3, <1>4, <1>5
       DEF OpOK, Formed, Shaped, Gone, HadByOne, SubmittedFits, Calling, Fits, Listed,
           Callbacks
  <2>2. HadByOne(o)'
    BY <1>h, <1>c, <1>1, <1>3, <1>4, <1>5
       DEF OpOK, HadByOne, Listed, Calling, Callbacks, SubmittedFits, Fits, Formed, Shaped,
           Gone
  <2>3. SubmittedFits(o)'
    BY <1>h, <1>c, <1>1, <1>3, <1>4, <1>5
       DEF OpOK, SubmittedFits, Fits, HadByOne, Listed, Calling, Callbacks, Formed, Shaped,
           Gone
  <2>4. HandledOnce(o)'
    BY <1>h, <1>c, <1>1, <1>3, <1>4, <1>5
       DEF OpOK, HandledOnce, HadByOne, Calling, SubmittedFits, Fits
  <2>5. ArmedStarts(o)'
    BY <1>h, <1>c, <1>1, <1>3, <1>4, <1>5
       DEF OpOK, ArmedStarts, Armed, HandledOnce, HadByOne, Listed, Calling, SubmittedFits,
           Fits, Refusals, Callbacks, Formed, Shaped, Gone
  <2> QED BY <2>1, <2>2, <2>3, <2>4, <2>5 DEF OpOK
<1>6. \A p \in Ops : p # o => Unmoved(p)
  BY <1>h, <1>c, <1>3, <1>5 DEF Unmoved, SameShape, Call, TypeOK
<1>7. TypeOK'
  BY <1>h, <1>3 DEF TypeOK, ClockPend, Call
<1> QED BY <1>3, <1>6, <1>7, <1>9, StepOf

\* The context is submitted to the loop.
LEMMA PushStep ==
  ASSUME LoopInv, NEW o \in Ops, Push(o)
  PROVE  LoopInv'
<1> USE DEF loopVars, clockVars
<1>h. OpOK(o) /\ TypeOK /\ Single /\ PendingLater
  BY DEF LoopInv
<1>c. /\ caller[o].at = "submit" /\ Call(o, "send", caller[o].what)
      /\ op' = op /\ trigger' = trigger /\ handler' = handler
  BY DEF Push
<1> DEFINE what == caller[o].what
<1>1. /\ ~Listed(o) /\ ~Pends(o)
      /\ what \in {"none", "start", "refused", "fail", "stop", "next", "done"} /\ what # "none"
  BY <1>h, <1>c DEF OpOK, HadByOne, Calling, SubmittedFits, TypeOK
<1>2. what \in Callbacks /\ what # "interrupt"
  BY <1>1 DEF Callbacks
<1>3. /\ waiters' \in Seq(Submissions) /\ Single'
      /\ \A p, v : Submitted(p, v)' <=> Submitted(p, v) \/ (p = o /\ v = what)
  BY <1>h, <1>1, <1>2, PushFacts DEF Push
<1>4. caller'[o].at = "send" /\ caller'[o].what = what
  BY <1>h, <1>c DEF Call, TypeOK
<1>5. \A p : Pends(p)' <=> Pends(p)
  BY DEF Pends, Push
<1>t. TypeOK' /\ PendingLater'
  <2>1. caller' \in [Ops -> [at : {"idle", "clock", "pend", "submit", "send", "gone"},
                         what : {"none", "start", "refused", "fail", "stop", "next", "done"}]]
    BY <1>h, <1>c, <1>1 DEF Call, TypeOK
  <2>2. TypeOK'
    BY <1>h, <1>3, <2>1 DEF TypeOK, Push
  <2> QED BY <1>h, <2>2 DEF PendingLater, Push
<1>6. \A p \in Ops : p # o => Unmoved(p)
  BY <1>h, <1>c, <1>3, <1>5 DEF Unmoved, SameShape, Call, TypeOK
<1>7. /\ caller[o].what = what /\ op'[o] = op[o] /\ trigger'[o] = trigger[o]
      /\ handler'[o] = handler[o]
  BY <1>c
<1> HIDE DEF what
<1>9. OpOK(o)'
  <2>1. Formed(o)'
    BY <1>h, <1>c, <1>1, <1>2, <1>3, <1>4, <1>5, <1>7
       DEF OpOK, Formed, Shaped, Gone, HadByOne, SubmittedFits, Calling, Fits, Listed,
           Callbacks
  <2>2. HadByOne(o)'
    BY <1>h, <1>c, <1>1, <1>2, <1>3, <1>4, <1>5, <1>7
       DEF OpOK, HadByOne, Listed, Calling, Callbacks, SubmittedFits, Fits, Formed, Shaped,
           Gone
  <2>3. SubmittedFits(o)'
    BY <1>h, <1>c, <1>1, <1>2, <1>3, <1>4, <1>5, <1>7
       DEF OpOK, SubmittedFits, Fits, HadByOne, Listed, Calling, Callbacks, Formed, Shaped,
           Gone
  <2>4. HandledOnce(o)'
    BY <1>h, <1>c, <1>1, <1>2, <1>3, <1>4, <1>5, <1>7
       DEF OpOK, HandledOnce, HadByOne, Calling, SubmittedFits, Fits
  <2>5. ArmedStarts(o)'
    BY <1>h, <1>c, <1>1, <1>2, <1>3, <1>4, <1>5, <1>7
       DEF OpOK, ArmedStarts, Armed, HandledOnce, HadByOne, Listed, Calling, SubmittedFits,
           Fits, Refusals, Callbacks, Formed, Shaped, Gone
  <2> QED BY <2>1, <2>2, <2>3, <2>4, <2>5 DEF OpOK
<1> QED BY <1>3, <1>6, <1>t, <1>9, StepOf

\* EventLoop::Schedule submits, or runs in place.
LEMMA ScheduleStep ==
  ASSUME LoopInv, NEW o \in Ops, Schedule(o)
  PROVE  LoopInv'
<1> USE DEF loopVars, clockVars
<1>h. OpOK(o) /\ TypeOK /\ Single /\ PendingLater
  BY DEF LoopInv
<1>s. (\A p, w : Submitted(p, w)' <=> Submitted(p, w)) /\ (\A p : Pends(p)' <=> Pends(p))
  BY SameLists DEF Schedule
<1>c. /\ caller[o].at = "idle" /\ op[o].kind = "schedule"
      /\ trigger' = trigger /\ handler' = handler
  BY DEF Schedule
<1>1. ASSUME NEW what \in {"start", "fail", "stop"}, Call(o, "submit", what), UNCHANGED op
      PROVE  LoopInv'
  <2>1. caller'[o].at = "submit" /\ caller'[o].what = what
    BY <1>h, <1>1 DEF Call, TypeOK
  <2>9. OpOK(o)'
    <3>1. Formed(o)'
      BY <1>h, <1>s, <1>c, <1>1, <2>1
         DEF OpOK, Formed, Shaped, Gone, HadByOne, SubmittedFits, Calling, Fits, Listed,
             Callbacks
    <3>2. HadByOne(o)'
      BY <1>h, <1>s, <1>c, <1>1, <2>1
         DEF OpOK, HadByOne, Listed, Calling, Callbacks, SubmittedFits, Fits, Formed,
             Shaped, Gone
    <3>3. SubmittedFits(o)'
      BY <1>h, <1>s, <1>c, <1>1, <2>1
         DEF OpOK, SubmittedFits, Fits, HadByOne, Listed, Calling, Callbacks, Formed,
             Shaped, Gone
    <3>4. HandledOnce(o)'
      BY <1>h, <1>s, <1>c, <1>1, <2>1 DEF OpOK, HandledOnce, HadByOne, Calling, SubmittedFits, Fits
    <3>5. ArmedStarts(o)'
      BY <1>h, <1>s, <1>c, <1>1, <2>1
         DEF OpOK, ArmedStarts, Armed, HandledOnce, HadByOne, Listed, Calling,
             SubmittedFits, Fits, Refusals, Callbacks, Formed, Shaped, Gone
    <3> QED BY <3>1, <3>2, <3>3, <3>4, <3>5 DEF OpOK
  <2> QED BY <1>h, <1>c, <1>1, <2>9, CallStep DEF Schedule, TypeOK
<1>2. ASSUME NEW what \in {"start", "fail", "stop"}, Call(o, "gone", "none"),
             op' = Final(o, what)
      PROVE  LoopInv'
  <2>1. caller'[o].at = "gone" /\ caller'[o].what = "none"
    BY <1>h, <1>2 DEF Call, TypeOK
  <2>2. Becomes(o, op[o].started, TRUE, op[o].closed, op[o].uv, op[o].then, op[o].left,
                op[o].turn, op[o].finals + 1, what)
    BY <1>h, <1>2, FinalFields DEF TypeOK, Calls
  <2>3. /\ ~op[o].started /\ ~op[o].completed /\ op[o].finals = 0
        /\ ~op[o].destructed /\ ~op[o].turn /\ op[o].finals + 1 = 1
    BY <1>h, <1>c DEF OpOK, SubmittedFits, HadByOne, Calling
  <2>4. /\ op'[o].kind = "schedule" /\ ~op'[o].started /\ op'[o].completed /\ op'[o].finals = 1
        /\ op'[o].uv = op[o].uv /\ op'[o].then = op[o].then /\ ~op'[o].turn
        /\ ~op'[o].destructed
    BY <1>c, <2>2, <2>3 DEF Becomes
  <2>9. OpOK(o)'
    <3>1. Formed(o)'
      BY <1>h, <1>s, <1>c, <2>1, <2>3, <2>4
         DEF OpOK, Formed, Shaped, Gone, HadByOne, SubmittedFits, Calling, Fits, Listed,
             Callbacks
    <3>2. HadByOne(o)'
      BY <1>h, <1>s, <1>c, <2>1, <2>3, <2>4
         DEF OpOK, HadByOne, Listed, Calling, Callbacks, SubmittedFits, Fits, Formed,
             Shaped, Gone
    <3>3. SubmittedFits(o)'
      BY <1>h, <1>s, <1>c, <2>1, <2>3, <2>4
         DEF OpOK, SubmittedFits, Fits, HadByOne, Listed, Calling, Callbacks, Formed,
             Shaped, Gone
    <3>4. HandledOnce(o)'
      BY <1>h, <1>s, <1>c, <2>1, <2>3, <2>4
         DEF OpOK, HandledOnce, HadByOne, Calling, SubmittedFits, Fits
    <3>5. ArmedStarts(o)'
      BY <1>h, <1>s, <1>c, <2>1, <2>3, <2>4
         DEF OpOK, ArmedStarts, Armed, HandledOnce, HadByOne, Listed, Calling,
             SubmittedFits, Fits, Refusals, Callbacks, Formed, Shaped, Gone
    <3> QED BY <3>1, <3>2, <3>3, <3>4, <3>5 DEF OpOK
  <2>5. TypeOK' /\ Single' /\ PendingLater'
    <3>1. TypeOK'
      BY <1>h, <1>2, <2>2 DEF TypeOK, Schedule, Call, Becomes
    <3> QED BY <1>h, <3>1 DEF Schedule, Single, PendingLater
  <2>6. \A p \in Ops : p # o => Unmoved(p)
    BY <1>h, <1>s, <1>c, <1>2, <2>2 DEF Unmoved, SameShape, Call, TypeOK, Becomes
  <2> QED BY <2>5, <2>6, <2>9, StepOf
<1> QED BY <1>1, <1>2 DEF Schedule

\* Whoever has the stream of a Poll asks for more, or is done.
LEMMA AskStep ==
  ASSUME LoopInv, NEW o \in Ops, Ask(o)
  PROVE  LoopInv'
<1> USE DEF loopVars, clockVars
<1>h. OpOK(o) /\ TypeOK /\ Single /\ PendingLater
  BY DEF LoopInv
<1>s. (\A p, w : Submitted(p, w)' <=> Submitted(p, w)) /\ (\A p : Pends(p)' <=> Pends(p))
  BY SameLists DEF Ask
<1>c. /\ caller[o].at = "gone" /\ op[o].turn /\ op[o].finals = 0
      /\ trigger' = trigger /\ handler' = handler
  BY DEF Ask
<1>1. PICK what \in {"next", "done"} : Call(o, "submit", what)
  BY DEF Ask
<1>2. caller'[o].at = "submit" /\ caller'[o].what = what
  BY <1>h, <1>1 DEF Call, TypeOK
<1>3. Becomes(o, op[o].started, op[o].completed, op[o].closed, op[o].uv, op[o].then, op[o].left,
              FALSE, op[o].finals, op[o].out)
  BY <1>h, AskFields DEF TypeOK, Ask
<1>4. /\ op'[o].kind = op[o].kind /\ op'[o].started = op[o].started
      /\ op'[o].completed = op[o].completed /\ op'[o].finals = op[o].finals
      /\ op'[o].uv = op[o].uv /\ op'[o].then = op[o].then /\ ~op'[o].turn
      /\ op'[o].destructed = op[o].destructed /\ op'[o].closed = op[o].closed
      /\ op'[o].out = op[o].out
  BY <1>3 DEF Becomes
<1>9. OpOK(o)'
  <2>1. Formed(o)'
    BY <1>h, <1>s, <1>c, <1>2, <1>4
       DEF OpOK, Formed, Shaped, Gone, HadByOne, SubmittedFits, Calling, Fits, Listed,
           Callbacks
  <2>2. HadByOne(o)'
    BY <1>h, <1>s, <1>c, <1>2, <1>4
       DEF OpOK, HadByOne, Listed, Calling, Callbacks, SubmittedFits, Fits, Formed, Shaped,
           Gone
  <2>3. SubmittedFits(o)'
    BY <1>h, <1>s, <1>c, <1>2, <1>4
       DEF OpOK, SubmittedFits, Fits, HadByOne, Listed, Calling, Callbacks, Formed, Shaped,
           Gone
  <2>4. HandledOnce(o)'
    BY <1>h, <1>s, <1>c, <1>2, <1>4 DEF OpOK, HandledOnce, HadByOne, Calling, SubmittedFits, Fits
  <2>5. ArmedStarts(o)'
    BY <1>h, <1>s, <1>c, <1>2, <1>4
       DEF OpOK, ArmedStarts, Armed, HandledOnce, HadByOne, Listed, Calling, SubmittedFits,
           Fits, Refusals, Callbacks, Formed, Shaped, Gone
  <2> QED BY <2>1, <2>2, <2>3, <2>4, <2>5 DEF OpOK
<1>5. TypeOK' /\ Single' /\ PendingLater'
  <2>1. TypeOK'
    BY <1>h, <1>1, <1>3 DEF TypeOK, Ask, Call, Becomes
  <2> QED BY <1>h, <2>1 DEF Ask, Single, PendingLater
<1>6. \A p \in Ops : p # o => Unmoved(p)
  BY <1>h, <1>s, <1>c, <1>1, <1>3 DEF Unmoved, SameShape, Call, TypeOK, Becomes
<1> QED BY <1>5, <1>6, <1>9, StepOf

\* The members of a continuation that has been destructed.
LEMMA DestructFields ==
  ASSUME op \in [Ops -> Continuations], NEW o \in Ops,
         op' = [op EXCEPT ![o] = [Fresh(o, op[o].kind) EXCEPT !.finals = op[o].finals,
                                             !.uv = op[o].uv, !.destructed = TRUE]]
  PROVE  /\ op' \in [Ops -> Continuations]
         /\ \A p \in Ops : p # o => op'[p] = op[p]
         /\ op'[o].kind = op[o].kind /\ ~op'[o].started /\ ~op'[o].completed
         /\ op'[o].uv = op[o].uv /\ op'[o].then = "none" /\ ~op'[o].turn
         /\ op'[o].finals = op[o].finals /\ op'[o].out = "none" /\ op'[o].destructed
<1> DEFINE x == [Fresh(o, op[o].kind) EXCEPT !.finals = op[o].finals, !.uv = op[o].uv,
                                             !.destructed = TRUE]
<1>1. op' = [op EXCEPT ![o] = x]
  OBVIOUS
<1>2. op[o] \in Continuations /\ Duration[o] \in Nat
  BY EventLoopAssumption
<1>3. x \in Continuations
  BY <1>2 DEF Continuations, Fresh
<1>4. /\ x.kind = op[o].kind /\ ~x.started /\ ~x.completed
      /\ x.uv = op[o].uv /\ x.then = "none" /\ ~x.turn
  BY DEF Fresh
<1>5. x.finals = op[o].finals /\ x.out = "none" /\ x.destructed
  BY DEF Fresh
<1> HIDE DEF x
<1> QED BY ONLY <1>1, <1>3, <1>4, <1>5, op \in [Ops -> Continuations], o \in Ops

\* The continuation is destructed.
LEMMA DestructStep ==
  ASSUME LoopInv, NEW o \in Ops, Destruct(o)
  PROVE  LoopInv'
<1> USE DEF loopVars, clockVars
<1>h. OpOK(o) /\ TypeOK /\ Single /\ PendingLater
  BY DEF LoopInv
<1>s. (\A p, w : Submitted(p, w)' <=> Submitted(p, w)) /\ (\A p : Pends(p)' <=> Pends(p))
  BY SameLists DEF Destruct
<1>c. /\ op[o].finals > 0 /\ ~op[o].destructed /\ caller[o].at = "gone"
      /\ trigger[o] \notin {"submit", "send"} /\ ~Borrowed(o) /\ op[o].kind # "schedule"
      /\ trigger' = trigger /\ caller' = caller
  BY DEF Destruct, Handles
<1>1. ~Pends(o) /\ \A w : ~Submitted(o, w)
  BY <1>h, <1>c, EntryFacts DEF Borrowed, Pends, Submitted
<1>2. /\ op' \in [Ops -> Continuations]
      /\ \A p \in Ops : p # o => op'[p] = op[p]
      /\ op'[o].kind = op[o].kind /\ ~op'[o].started /\ ~op'[o].completed
      /\ op'[o].uv = op[o].uv /\ op'[o].then = "none" /\ ~op'[o].turn
      /\ op'[o].finals = op[o].finals /\ op'[o].out = "none" /\ op'[o].destructed
  BY <1>h, DestructFields DEF TypeOK, Destruct
<1>3. /\ handler' \in [Ops -> {"none", "registered", "installed", "used"}]
      /\ handler'[o] = "none" /\ \A p \in Ops : p # o => handler'[p] = handler[p]
      /\ elapsed' \in [Ops -> Nat]
  BY <1>h DEF Destruct, TypeOK
<1>4. op[o].finals = 1 /\ op[o].uv \in {"none", "closed"}
  BY <1>h, <1>c DEF OpOK, Formed, Shaped
<1>9. OpOK(o)'
  <2>1. Formed(o)'
    BY <1>h, <1>s, <1>c, <1>1, <1>2, <1>3, <1>4
       DEF OpOK, Formed, Shaped, Gone, HadByOne, SubmittedFits, Calling, Fits, Listed,
           Callbacks
  <2>2. HadByOne(o)'
    BY <1>h, <1>s, <1>c, <1>1, <1>2, <1>3, <1>4
       DEF OpOK, HadByOne, Listed, Calling, Callbacks, SubmittedFits, Fits, Formed, Shaped,
           Gone
  <2>3. SubmittedFits(o)'
    BY <1>h, <1>s, <1>c, <1>1, <1>2, <1>3, <1>4
       DEF OpOK, SubmittedFits, Fits, HadByOne, Listed, Calling, Callbacks, Formed, Shaped,
           Gone
  <2>4. HandledOnce(o)'
    BY <1>h, <1>s, <1>c, <1>1, <1>2, <1>3, <1>4
       DEF OpOK, HandledOnce, HadByOne, Calling, SubmittedFits, Fits
  <2>5. ArmedStarts(o)'
    BY <1>h, <1>s, <1>c, <1>1, <1>2, <1>3, <1>4
       DEF OpOK, ArmedStarts, Armed, HandledOnce, HadByOne, Listed, Calling, SubmittedFits,
           Fits, Refusals, Callbacks, Formed, Shaped, Gone
  <2> QED BY <2>1, <2>2, <2>3, <2>4, <2>5 DEF OpOK
<1>5. TypeOK' /\ Single' /\ PendingLater'
  <2>1. TypeOK'
    BY <1>h, <1>2, <1>3 DEF TypeOK, Destruct
  <2> QED BY <1>h, <2>1 DEF Destruct, Single, PendingLater
<1>6. \A p \in Ops : p # o => Unmoved(p)
  BY <1>s, <1>c, <1>2, <1>3 DEF Unmoved, SameShape
<1> QED BY <1>5, <1>6, <1>9, StepOf

\* The interrupt is triggered.
LEMMA TriggerStepOK ==
  ASSUME LoopInv, NEW o \in Ops, Trigger(o)
  PROVE  LoopInv'
<1> USE DEF loopVars, clockVars
<1>h. OpOK(o) /\ TypeOK /\ Single /\ PendingLater
  BY DEF LoopInv
<1>s. (\A p, w : Submitted(p, w)' <=> Submitted(p, w)) /\ (\A p : Pends(p)' <=> Pends(p))
  BY SameLists DEF Trigger
<1>c. /\ trigger[o] = "none" /\ handler[o] \in {"registered", "installed"}
      /\ op' = op /\ caller' = caller
  BY DEF Trigger
<1>1. /\ trigger' \in [Ops -> {"none", "early", "submit", "send", "gone"}]
      /\ trigger'[o] = (IF handler[o] = "installed" THEN "submit" ELSE "early")
      /\ \A p \in Ops : p # o => trigger'[p] = trigger[p]
  BY <1>h DEF Trigger, TypeOK
<1>2. /\ handler' \in [Ops -> {"none", "registered", "installed", "used"}]
      /\ handler'[o] = (IF handler[o] = "installed" THEN "used" ELSE "registered")
      /\ \A p \in Ops : p # o => handler'[p] = handler[p]
  BY <1>h, <1>c DEF Trigger, TypeOK
<1>9. OpOK(o)'
  <2>1. Formed(o)'
    BY <1>h, <1>s, <1>c, <1>1, <1>2
       DEF OpOK, Formed, Shaped, Gone, HadByOne, SubmittedFits, Calling, Fits, Listed,
           Callbacks
  <2>2. HadByOne(o)'
    BY <1>h, <1>s, <1>c, <1>1, <1>2
       DEF OpOK, HadByOne, Listed, Calling, Callbacks, SubmittedFits, Fits, Formed, Shaped,
           Gone
  <2>3. SubmittedFits(o)'
    BY <1>h, <1>s, <1>c, <1>1, <1>2
       DEF OpOK, SubmittedFits, Fits, HadByOne, Listed, Calling, Callbacks, Formed, Shaped,
           Gone
  <2>4. HandledOnce(o)'
    BY <1>h, <1>s, <1>c, <1>1, <1>2 DEF OpOK, HandledOnce, HadByOne, Calling, SubmittedFits, Fits
  <2>5. ArmedStarts(o)'
    BY <1>h, <1>s, <1>c, <1>1, <1>2
       DEF OpOK, ArmedStarts, Armed, HandledOnce, HadByOne, Listed, Calling, SubmittedFits,
           Fits, Refusals, Callbacks, Formed, Shaped, Gone
  <2> QED BY <2>1, <2>2, <2>3, <2>4, <2>5 DEF OpOK
<1>5. TypeOK' /\ Single' /\ PendingLater'
  <2>1. TypeOK'
    BY <1>h, <1>1, <1>2 DEF TypeOK, Trigger
  <2> QED BY <1>h, <2>1 DEF Trigger, Single, PendingLater
<1>6. \A p \in Ops : p # o => Unmoved(p)
  BY <1>s, <1>c, <1>1, <1>2 DEF Unmoved, SameShape
<1> QED BY <1>5, <1>6, <1>9, StepOf

\* The interrupt_context_ is submitted.
LEMMA TriggerPushStep ==
  ASSUME LoopInv, NEW o \in Ops, TriggerPush(o)
  PROVE  LoopInv'
<1> USE DEF loopVars, clockVars
<1>h. OpOK(o) /\ TypeOK /\ Single /\ PendingLater
  BY DEF LoopInv
<1>c. trigger[o] = "submit" /\ op' = op /\ caller' = caller /\ handler' = handler
  BY DEF TriggerPush
<1>1. /\ trigger' \in [Ops -> {"none", "early", "submit", "send", "gone"}]
      /\ trigger'[o] = "send" /\ \A p \in Ops : p # o => trigger'[p] = trigger[p]
  BY <1>h DEF TriggerPush, TypeOK
<1>2. ~Submitted(o, "interrupt") /\ "interrupt" \in Callbacks
  BY <1>h, <1>c DEF OpOK, HandledOnce, Callbacks
<1>3. /\ waiters' \in Seq(Submissions) /\ Single'
      /\ \A p, v : Submitted(p, v)' <=> Submitted(p, v) \/ (p = o /\ v = "interrupt")
  BY <1>h, <1>2, PushFacts DEF TriggerPush
<1>4. \A p : Pends(p)' <=> Pends(p)
  BY DEF Pends, TriggerPush
<1>9. OpOK(o)'
  <2>1. Formed(o)'
    BY <1>h, <1>c, <1>1, <1>2, <1>3, <1>4
       DEF OpOK, Formed, Shaped, Gone, HadByOne, SubmittedFits, Calling, Fits, Listed,
           Callbacks
  <2>2. HadByOne(o)'
    BY <1>h, <1>c, <1>1, <1>2, <1>3, <1>4
       DEF OpOK, HadByOne, Listed, Calling, Callbacks, SubmittedFits, Fits, Formed, Shaped,
           Gone
  <2>3. SubmittedFits(o)'
    BY <1>h, <1>c, <1>1, <1>2, <1>3, <1>4
       DEF OpOK, SubmittedFits, Fits, HadByOne, Listed, Calling, Callbacks, Formed, Shaped,
           Gone
  <2>4. HandledOnce(o)'
    BY <1>h, <1>c, <1>1, <1>2, <1>3, <1>4
       DEF OpOK, HandledOnce, HadByOne, Calling, SubmittedFits, Fits
  <2>5. ArmedStarts(o)'
    BY <1>h, <1>c, <1>1, <1>2, <1>3, <1>4
       DEF OpOK, ArmedStarts, Armed, HandledOnce, HadByOne, Listed, Calling, SubmittedFits,
           Fits, Refusals, Callbacks, Formed, Shaped, Gone
  <2> QED BY <2>1, <2>2, <2>3, <2>4, <2>5 DEF OpOK
<1>5. TypeOK' /\ PendingLater'
  <2>1. TypeOK'
    BY <1>h, <1>1, <1>3 DEF TypeOK, TriggerPush
  <2> QED BY <1>h, <2>1 DEF TriggerPush, PendingLater
<1>6. \A p \in Ops : p # o => Unmoved(p)
  BY <1>c, <1>1, <1>3, <1>4 DEF Unmoved, SameShape
<1> QED BY <1>3, <1>5, <1>6, <1>9, StepOf

\* The loop is told of the interrupt.
LEMMA TriggerSendStep ==
  ASSUME LoopInv, NEW o \in Ops, TriggerSend(o)
  PROVE  LoopInv'
<1> USE DEF loopVars, clockVars
<1>h. OpOK(o) /\ TypeOK /\ Single /\ PendingLater
  BY DEF LoopInv
<1>s. (\A p, w : Submitted(p, w)' <=> Submitted(p, w)) /\ (\A p : Pends(p)' <=> Pends(p))
  BY SameLists DEF TriggerSend
<1>c. trigger[o] = "send" /\ op' = op /\ caller' = caller /\ handler' = handler
  BY DEF TriggerSend
<1>1. /\ trigger' \in [Ops -> {"none", "early", "submit", "send", "gone"}]
      /\ trigger'[o] = "gone" /\ \A p \in Ops : p # o => trigger'[p] = trigger[p]
  BY <1>h DEF TriggerSend, TypeOK
<1>9. OpOK(o)'
  <2>1. Formed(o)'
    BY <1>h, <1>s, <1>c, <1>1
       DEF OpOK, Formed, Shaped, Gone, HadByOne, SubmittedFits, Calling, Fits, Listed,
           Callbacks
  <2>2. HadByOne(o)'
    BY <1>h, <1>s, <1>c, <1>1
       DEF OpOK, HadByOne, Listed, Calling, Callbacks, SubmittedFits, Fits, Formed, Shaped,
           Gone
  <2>3. SubmittedFits(o)'
    BY <1>h, <1>s, <1>c, <1>1
       DEF OpOK, SubmittedFits, Fits, HadByOne, Listed, Calling, Callbacks, Formed, Shaped,
           Gone
  <2>4. HandledOnce(o)'
    BY <1>h, <1>s, <1>c, <1>1 DEF OpOK, HandledOnce, HadByOne, Calling, SubmittedFits, Fits
  <2>5. ArmedStarts(o)'
    BY <1>h, <1>s, <1>c, <1>1
       DEF OpOK, ArmedStarts, Armed, HandledOnce, HadByOne, Listed, Calling, SubmittedFits,
           Fits, Refusals, Callbacks, Formed, Shaped, Gone
  <2> QED BY <2>1, <2>2, <2>3, <2>4, <2>5 DEF OpOK
<1>5. TypeOK' /\ Single' /\ PendingLater'
  <2>1. TypeOK'
    BY <1>h, <1>1 DEF TypeOK, TriggerSend
  <2> QED BY <1>h, <2>1 DEF TriggerSend, Single, PendingLater
<1>6. \A p \in Ops : p # o => Unmoved(p)
  BY <1>s, <1>c, <1>1 DEF Unmoved, SameShape
<1> QED BY <1>5, <1>6, <1>9, StepOf

-----------------------------------------------------------------------------
(* The steps of the loop.                                                  *)

PhaseOK == phase' \in {"out", "timers", "poll", "check", "closing"}

\* The loop goes on, the clock is paused, or time passes: no list and no shape
\* changes.
LEMMA QuietStep ==
  ASSUME LoopInv, op' \in [Ops -> Continuations], \A p \in Ops : SameShape(op'[p], op[p]),
         PhaseOK, async' \in BOOLEAN, paused' \in BOOLEAN, elapsed' \in [Ops -> Nat],
         advanced' \in 0..MaxAdvance, advanced' <= advanced,
         UNCHANGED <<waiters, pending, caller, trigger, handler>>
  PROVE  LoopInv'
<1> USE DEF LoopInv
<1>1. TypeOK'
  BY DEF TypeOK, PhaseOK
<1>2. Single'
  BY DEF Single
<1>3. PendingLater'
  <2>1. advanced \in Nat /\ advanced' \in Nat
    BY EventLoopAssumption DEF TypeOK
  <2> QED BY <2>1, EntryFacts DEF PendingLater
<1>4. \A p \in Ops : Unmoved(p)
  BY SameLists DEF Unmoved
<1> QED BY <1>1, <1>2, <1>3, <1>4, UnmovedOK

\* One continuation changes in a callback of libuv.
LEMMA LocalStep ==
  ASSUME LoopInv, NEW o \in Ops, op' \in [Ops -> Continuations],
         \A p \in Ops : p # o => op'[p] = op[p], OpOK(o)', PhaseOK,
         UNCHANGED <<waiters, async, clockVars, caller, trigger, handler, elapsed>>
  PROVE  LoopInv'
<1> USE DEF LoopInv, clockVars
<1>1. TypeOK'
  BY DEF TypeOK, PhaseOK
<1>2. Single' /\ PendingLater'
  BY DEF Single, PendingLater
<1>3. \A p \in Ops : p # o => Unmoved(p)
  BY SameLists DEF Unmoved, SameShape
<1> QED BY <1>1, <1>2, <1>3, StepOf

\* The loop takes a submission, and the continuation that it is of changes.
LEMMA TakenStep ==
  ASSUME LoopInv, waiters # <<>>, waiters' = Tail(waiters),
         op' \in [Ops -> Continuations], NEW o, o = Head(waiters).op,
         \A p \in Ops : p # o => op'[p] = op[p], OpOK(o)',
         UNCHANGED <<async, phase, clockVars, caller, trigger, handler, elapsed>>
  PROVE  LoopInv'
<1> USE DEF LoopInv, clockVars
<1>1. /\ waiters' \in Seq(Submissions) /\ Single' /\ o \in Ops
      /\ \A p, v : p # o => (Submitted(p, v)' <=> Submitted(p, v))
  BY PopFacts
<1>2. TypeOK'
  BY <1>1 DEF TypeOK
<1>3. PendingLater'
  BY DEF PendingLater
<1>4. \A p : Pends(p)' <=> Pends(p)
  BY DEF Pends
<1>5. \A p \in Ops : p # o => Unmoved(p)
  BY <1>1, <1>4 DEF Unmoved, SameShape
<1> QED BY <1>1, <1>2, <1>3, <1>5, StepOf

\* A timer has come.
LEMMA FireStep ==
  ASSUME LoopInv, NEW o \in Ops, Fire(o)
  PROVE  LoopInv'
<1> USE DEF loopVars, clockVars
<1>h. OpOK(o) /\ TypeOK /\ Single /\ PendingLater
  BY DEF LoopInv
<1>s. (\A p, w : Submitted(p, w)' <=> Submitted(p, w)) /\ (\A p : Pends(p)' <=> Pends(p))
  BY SameLists DEF Fire
<1>c. /\ op[o].uv = "active" /\ ~op[o].completed /\ trigger' = trigger /\ caller' = caller
      /\ handler' = handler /\ op' = UvClose(o, "start")
  BY DEF Fire, Due
<1>1. Becomes(o, op[o].started, TRUE, op[o].closed, "closing", "start", op[o].left,
              op[o].turn, op[o].finals, op[o].out)
  BY <1>h, <1>c, UvCloseFields DEF TypeOK, Calls
<1>9. OpOK(o)'
  <2>1. Formed(o)'
    BY <1>h, <1>s, <1>c, <1>1
       DEF Becomes, OpOK, Formed, Shaped, Gone, HadByOne, SubmittedFits, Calling, Fits,
           Listed, Callbacks
  <2>2. HadByOne(o)'
    BY <1>h, <1>s, <1>c, <1>1
       DEF Becomes, OpOK, HadByOne, Listed, Calling, Callbacks, SubmittedFits, Fits, Formed,
           Shaped, Gone
  <2>3. SubmittedFits(o)'
    BY <1>h, <1>s, <1>c, <1>1
       DEF Becomes, OpOK, SubmittedFits, Fits, HadByOne, Listed, Calling, Callbacks, Formed,
           Shaped, Gone
  <2>4. HandledOnce(o)'
    BY <1>h, <1>s, <1>c, <1>1 DEF Becomes, OpOK, HandledOnce, HadByOne, Calling, SubmittedFits, Fits
  <2>5. ArmedStarts(o)'
    BY <1>h, <1>s, <1>c, <1>1
       DEF Becomes, OpOK, ArmedStarts, Armed, HandledOnce, HadByOne, Listed, Calling,
           SubmittedFits, Fits, Refusals, Callbacks, Formed, Shaped, Gone
  <2> QED BY <2>1, <2>2, <2>3, <2>4, <2>5 DEF OpOK
<1>2. PhaseOK
  BY <1>h DEF PhaseOK, TypeOK, Fire
<1> QED BY <1>1, <1>2, <1>9, LocalStep DEF Fire, Becomes

\* A signal is delivered.
LEMMA SignalledStep ==
  ASSUME LoopInv, NEW o \in Ops, Signalled(o)
  PROVE  LoopInv'
<1> USE DEF loopVars, clockVars
<1>h. OpOK(o) /\ TypeOK /\ Single /\ PendingLater
  BY DEF LoopInv
<1>s. (\A p, w : Submitted(p, w)' <=> Submitted(p, w)) /\ (\A p : Pends(p)' <=> Pends(p))
  BY SameLists DEF Signalled
<1>c. /\ op[o].uv = "active" /\ ~op[o].completed /\ trigger' = trigger /\ caller' = caller
      /\ handler' = handler /\ op' = UvClose(o, "start")
  BY DEF Signalled
<1>1. Becomes(o, op[o].started, TRUE, op[o].closed, "closing", "start", op[o].left,
              op[o].turn, op[o].finals, op[o].out)
  BY <1>h, <1>c, UvCloseFields DEF TypeOK, Calls
<1>9. OpOK(o)'
  <2>1. Formed(o)'
    BY <1>h, <1>s, <1>c, <1>1
       DEF Becomes, OpOK, Formed, Shaped, Gone, HadByOne, SubmittedFits, Calling, Fits,
           Listed, Callbacks
  <2>2. HadByOne(o)'
    BY <1>h, <1>s, <1>c, <1>1
       DEF Becomes, OpOK, HadByOne, Listed, Calling, Callbacks, SubmittedFits, Fits, Formed,
           Shaped, Gone
  <2>3. SubmittedFits(o)'
    BY <1>h, <1>s, <1>c, <1>1
       DEF Becomes, OpOK, SubmittedFits, Fits, HadByOne, Listed, Calling, Callbacks, Formed,
           Shaped, Gone
  <2>4. HandledOnce(o)'
    BY <1>h, <1>s, <1>c, <1>1 DEF Becomes, OpOK, HandledOnce, HadByOne, Calling, SubmittedFits, Fits
  <2>5. ArmedStarts(o)'
    BY <1>h, <1>s, <1>c, <1>1
       DEF Becomes, OpOK, ArmedStarts, Armed, HandledOnce, HadByOne, Listed, Calling,
           SubmittedFits, Fits, Refusals, Callbacks, Formed, Shaped, Gone
  <2> QED BY <2>1, <2>2, <2>3, <2>4, <2>5 DEF OpOK
<1>2. PhaseOK
  BY DEF PhaseOK, Go, Signalled
<1> QED BY <1>1, <1>2, <1>9, LocalStep DEF Signalled, Becomes

\* A file is ready, or its poll failed.
LEMMA PolledStep ==
  ASSUME LoopInv, NEW o \in Ops, Polled(o)
  PROVE  LoopInv'
<1> USE DEF loopVars, clockVars
<1>h. OpOK(o) /\ TypeOK /\ Single /\ PendingLater
  BY DEF LoopInv
<1>s. (\A p, w : Submitted(p, w)' <=> Submitted(p, w)) /\ (\A p : Pends(p)' <=> Pends(p))
  BY SameLists DEF Polled
<1>c. /\ op[o].uv = "active" /\ ~op[o].completed /\ trigger' = trigger /\ caller' = caller
      /\ handler' = handler /\ op[o].kind = "poll" /\ PhaseOK
  BY DEF Polled, PhaseOK, Go
<1>1. ASSUME op' = [op EXCEPT ![o].uv = "stopped", ![o].out = "body", ![o].turn = TRUE]
      PROVE  LoopInv'
  <2>1. Becomes(o, op[o].started, op[o].completed, op[o].closed, "stopped", op[o].then,
                op[o].left, TRUE, op[o].finals, "body")
    BY <1>h, <1>1, PolledFields DEF TypeOK
  <2>9. OpOK(o)'
    <3>1. Formed(o)'
      BY <1>h, <1>s, <1>c, <2>1
         DEF Becomes, OpOK, Formed, Shaped, Gone, HadByOne, SubmittedFits, Calling, Fits,
             Listed, Callbacks
    <3>2. HadByOne(o)'
      BY <1>h, <1>s, <1>c, <2>1
         DEF Becomes, OpOK, HadByOne, Listed, Calling, Callbacks, SubmittedFits, Fits,
             Formed, Shaped, Gone
    <3>3. SubmittedFits(o)'
      BY <1>h, <1>s, <1>c, <2>1
         DEF Becomes, OpOK, SubmittedFits, Fits, HadByOne, Listed, Calling, Callbacks,
             Formed, Shaped, Gone
    <3>4. HandledOnce(o)'
      BY <1>h, <1>s, <1>c, <2>1
         DEF Becomes, OpOK, HandledOnce, HadByOne, Calling, SubmittedFits, Fits
    <3>5. ArmedStarts(o)'
      BY <1>h, <1>s, <1>c, <2>1
         DEF Becomes, OpOK, ArmedStarts, Armed, HandledOnce, HadByOne, Listed, Calling,
             SubmittedFits, Fits, Refusals, Callbacks, Formed, Shaped, Gone
    <3> QED BY <3>1, <3>2, <3>3, <3>4, <3>5 DEF OpOK
  <2> QED BY <1>c, <2>1, <2>9, LocalStep DEF Polled, Becomes
<1>2. ASSUME op' = UvClose(o, "fail")
      PROVE  LoopInv'
  <2>1. Becomes(o, op[o].started, TRUE, op[o].closed, "closing", "fail", op[o].left,
                op[o].turn, op[o].finals, op[o].out)
    BY <1>h, <1>2, UvCloseFields DEF TypeOK, Calls
  <2>9. OpOK(o)'
    <3>1. Formed(o)'
      BY <1>h, <1>s, <1>c, <2>1
         DEF Becomes, OpOK, Formed, Shaped, Gone, HadByOne, SubmittedFits, Calling, Fits,
             Listed, Callbacks
    <3>2. HadByOne(o)'
      BY <1>h, <1>s, <1>c, <2>1
         DEF Becomes, OpOK, HadByOne, Listed, Calling, Callbacks, SubmittedFits, Fits,
             Formed, Shaped, Gone
    <3>3. SubmittedFits(o)'
      BY <1>h, <1>s, <1>c, <2>1
         DEF Becomes, OpOK, SubmittedFits, Fits, HadByOne, Listed, Calling, Callbacks,
             Formed, Shaped, Gone
    <3>4. HandledOnce(o)'
      BY <1>h, <1>s, <1>c, <2>1
         DEF Becomes, OpOK, HandledOnce, HadByOne, Calling, SubmittedFits, Fits
    <3>5. ArmedStarts(o)'
      BY <1>h, <1>s, <1>c, <2>1
         DEF Becomes, OpOK, ArmedStarts, Armed, HandledOnce, HadByOne, Listed, Calling,
             SubmittedFits, Fits, Refusals, Callbacks, Formed, Shaped, Gone
    <3> QED BY <3>1, <3>2, <3>3, <3>4, <3>5 DEF OpOK
  <2> QED BY <1>c, <2>1, <2>9, LocalStep DEF Polled, Becomes
<1> QED BY <1>1, <1>2 DEF Polled

\* A handle has been closed: its operation continues.
LEMMA ClosedStep ==
  ASSUME LoopInv, NEW o \in Ops, Closed(o)
  PROVE  LoopInv'
<1> USE DEF loopVars, clockVars
<1>h. OpOK(o) /\ TypeOK /\ Single /\ PendingLater
  BY DEF LoopInv
<1>s. (\A p, w : Submitted(p, w)' <=> Submitted(p, w)) /\ (\A p : Pends(p)' <=> Pends(p))
  BY SameLists DEF Closed
<1>c. /\ op[o].uv = "closing" /\ trigger' = trigger /\ caller' = caller /\ handler' = handler
      /\ op' = [Final(o, op[o].then) EXCEPT ![o].uv = "closed", ![o].closed = TRUE,
                                           ![o].then = "none"]
  BY DEF Closed
<1> DEFINE call == op[o].then
<1>1. op[o].then \in Calls /\ op[o].finals = 0 /\ ~op[o].destructed
  <2>1. op[o].then # "none" /\ op[o].finals = 0 /\ ~op[o].destructed
    BY <1>h, <1>c DEF OpOK, Formed, Shaped, Gone
  <2> QED BY <1>h, <2>1 DEF TypeOK, Continuations, Calls
<1>2. Becomes(o, op[o].started, TRUE, TRUE, "closed", "none", op[o].left, op[o].turn,
              op[o].finals + 1, op[o].then)
  BY <1>h, <1>c, <1>1, ClosedFields DEF TypeOK
<1>3. /\ op'[o].kind = op[o].kind /\ op'[o].destructed = op[o].destructed
      /\ op'[o].started = op[o].started /\ op'[o].completed /\ op'[o].closed
      /\ op'[o].uv = "closed" /\ op'[o].then = "none" /\ op'[o].turn = op[o].turn
      /\ op'[o].finals = 1
  BY <1>1, <1>2 DEF Becomes
<1>9. OpOK(o)'
  <2>1. Formed(o)'
    BY <1>h, <1>s, <1>c, <1>1, <1>3
       DEF OpOK, Formed, Shaped, Gone, HadByOne, SubmittedFits, Calling, Fits, Listed,
           Callbacks
  <2>2. HadByOne(o)'
    BY <1>h, <1>s, <1>c, <1>1, <1>3
       DEF OpOK, HadByOne, Listed, Calling, Callbacks, SubmittedFits, Fits, Formed, Shaped,
           Gone
  <2>3. SubmittedFits(o)'
    BY <1>h, <1>s, <1>c, <1>1, <1>3
       DEF OpOK, SubmittedFits, Fits, HadByOne, Listed, Calling, Callbacks, Formed, Shaped,
           Gone
  <2>4. HandledOnce(o)'
    BY <1>h, <1>s, <1>c, <1>1, <1>3 DEF OpOK, HandledOnce, HadByOne, Calling, SubmittedFits, Fits
  <2>5. ArmedStarts(o)'
    BY <1>h, <1>s, <1>c, <1>1, <1>3
       DEF OpOK, ArmedStarts, Armed, HandledOnce, HadByOne, Listed, Calling, SubmittedFits,
           Fits, Refusals, Callbacks, Formed, Shaped, Gone
  <2> QED BY <2>1, <2>2, <2>3, <2>4, <2>5 DEF OpOK
<1>4. PhaseOK
  BY <1>h DEF PhaseOK, Closed, TypeOK
<1> QED BY <1>2, <1>4, <1>9, LocalStep DEF Closed, Becomes

\* The loop takes the oldest submission and runs its callback.
LEMMA CheckStep ==
  ASSUME LoopInv, Check
  PROVE  LoopInv'
<1>e. PICK o, w : o = Head(waiters).op /\ w = Head(waiters).what
  OBVIOUS
<1>p. /\ o \in Ops /\ w \in Callbacks /\ Submitted(o, w)
      /\ \A v : Submitted(o, v)' <=> Submitted(o, v) /\ v # w
      /\ w # "interrupt" => ~Listed(o)'
  BY <1>e, PopFacts DEF LoopInv, Check, clockVars
<1>h. OpOK(o) /\ TypeOK
  BY <1>p DEF LoopInv
<1>s. Pends(o)' <=> Pends(o)
  BY DEF Pends, Check, clockVars
<1>c. /\ OnLoop(o, w) /\ waiters # <<>> /\ waiters' = Tail(waiters)
      /\ UNCHANGED <<async, phase, clockVars, caller, trigger, handler, elapsed>>
  BY <1>e DEF Check
<1>k. /\ ~op[o].destructed /\ Shaped(op[o]) /\ Fits(o, w) /\ caller[o].at # "idle"
      /\ w # "interrupt" => ~Pends(o) /\ ~Calling(o) /\ ~op[o].turn /\ op[o].uv # "active"
      /\ w = "interrupt" => Armed(o) /\ handler[o] # "installed" /\ trigger[o] # "submit"
                              /\ ~Submitted(o, "interrupt")'
  <2>1. w # "interrupt" => Listed(o)
    BY <1>p DEF Listed
  <2>2. w = "interrupt" => Armed(o) /\ handler[o] # "installed" /\ trigger[o] # "submit"
                              /\ ~Submitted(o, "interrupt")'
    BY <1>h, <1>p DEF Armed, OpOK, HandledOnce
  <2>3. ~op[o].destructed
    BY <1>h, <2>1, <2>2 DEF OpOK, HadByOne, ArmedStarts
  <2>4. Fits(o, w)
    BY <1>h, <1>p DEF OpOK, SubmittedFits
  <2>5. w # "interrupt" => ~Pends(o) /\ ~Calling(o) /\ ~op[o].turn /\ op[o].uv # "active"
    BY <1>h, <2>1 DEF OpOK, HadByOne
  <2>6. caller[o].at # "idle"
    BY <1>h, <1>p, <2>5 DEF Calling, OpOK, HandledOnce
  <2> QED BY <1>h, <2>2, <2>3, <2>4, <2>5, <2>6 DEF OpOK, Formed
<1>t. ASSUME op' \in [Ops -> Continuations], \A p \in Ops : p # o => op'[p] = op[p], OpOK(o)'
      PROVE  LoopInv'
  BY <1>c, <1>e, <1>t, TakenStep
<1>u. /\ op[o].finals \in {0, 1} /\ op[o].finals + 1 = (IF op[o].finals = 0 THEN 1 ELSE 2)
      /\ op[o].kind \in {"timer", "signal", "poll", "schedule"}
  BY <1>h, <1>k, <1>p DEF Shaped, TypeOK, Continuations
<1>1. ASSUME w = "interrupt",
             ~op[o].started,
             op' = Final(o, "stop")
      PROVE  LoopInv'
  <2>1. Becomes(o, op[o].started, TRUE, op[o].closed, op[o].uv, op[o].then, op[o].left,
                op[o].turn, op[o].finals + 1, "stop")
    BY <1>h, <1>p, <1>1, FinalFields DEF TypeOK, Calls
  <2>9. OpOK(o)'
    <3>1. Formed(o)'
      BY <1>h, <1>p, <1>s, <1>c, <1>k, <1>u, <1>1, <2>1
         DEF Becomes, OpOK, Formed, Shaped, Gone, HadByOne, SubmittedFits, Calling, Fits,
             Listed, Callbacks, ArmedStarts, Refusals
    <3>2. HadByOne(o)'
      BY <1>h, <1>p, <1>s, <1>c, <1>k, <1>u, <1>1, <2>1
         DEF Becomes, OpOK, HadByOne, Listed, Calling, Callbacks, SubmittedFits, Fits,
             Formed, Shaped, Gone
    <3>3. SubmittedFits(o)'
      BY <1>h, <1>p, <1>s, <1>c, <1>k, <1>u, <1>1, <2>1
         DEF Becomes, OpOK, SubmittedFits, Fits, HadByOne, Listed, Calling, Callbacks,
             Formed, Shaped, Gone
    <3>4. HandledOnce(o)'
      BY <1>h, <1>p, <1>s, <1>c, <1>k, <1>u, <1>1, <2>1
         DEF Becomes, OpOK, HandledOnce, HadByOne, Calling, SubmittedFits, Fits
    <3>5. ArmedStarts(o)'
      BY <1>h, <1>p, <1>s, <1>c, <1>k, <1>u, <1>1, <2>1
         DEF Becomes, OpOK, ArmedStarts, Armed, HandledOnce, HadByOne, Listed, Calling,
             SubmittedFits, Fits, Refusals, Callbacks, Formed, Shaped, Gone
    <3> QED BY <3>1, <3>2, <3>3, <3>4, <3>5 DEF OpOK
  <2> QED BY <1>t, <2>1, <2>9 DEF Becomes
<1>2. ASSUME w = "interrupt",
             op[o].started,
             ~op[o].completed,
             op' = UvClose(o, "stop")
      PROVE  LoopInv'
  <2>1. Becomes(o, op[o].started, TRUE, op[o].closed, "closing", "stop", op[o].left,
                op[o].turn, op[o].finals, op[o].out)
    BY <1>h, <1>p, <1>2, UvCloseFields DEF TypeOK, Calls
  <2>9. OpOK(o)'
    <3>1. Formed(o)'
      BY <1>h, <1>p, <1>s, <1>c, <1>k, <1>u, <1>2, <2>1
         DEF Becomes, OpOK, Formed, Shaped, Gone, HadByOne, SubmittedFits, Calling, Fits,
             Listed, Callbacks, ArmedStarts, Refusals
    <3>2. HadByOne(o)'
      BY <1>h, <1>p, <1>s, <1>c, <1>k, <1>u, <1>2, <2>1
         DEF Becomes, OpOK, HadByOne, Listed, Calling, Callbacks, SubmittedFits, Fits,
             Formed, Shaped, Gone
    <3>3. SubmittedFits(o)'
      BY <1>h, <1>p, <1>s, <1>c, <1>k, <1>u, <1>2, <2>1
         DEF Becomes, OpOK, SubmittedFits, Fits, HadByOne, Listed, Calling, Callbacks,
             Formed, Shaped, Gone
    <3>4. HandledOnce(o)'
      BY <1>h, <1>p, <1>s, <1>c, <1>k, <1>u, <1>2, <2>1
         DEF Becomes, OpOK, HandledOnce, HadByOne, Calling, SubmittedFits, Fits
    <3>5. ArmedStarts(o)'
      BY <1>h, <1>p, <1>s, <1>c, <1>k, <1>u, <1>2, <2>1
         DEF Becomes, OpOK, ArmedStarts, Armed, HandledOnce, HadByOne, Listed, Calling,
             SubmittedFits, Fits, Refusals, Callbacks, Formed, Shaped, Gone
    <3> QED BY <3>1, <3>2, <3>3, <3>4, <3>5 DEF OpOK
  <2> QED BY <1>t, <2>1, <2>9 DEF Becomes
<1>3. ASSUME w = "interrupt" => op[o].started,
             op[o].completed,
             op' = op
      PROVE  LoopInv'
  <2>1. Becomes(o, op[o].started, op[o].completed, op[o].closed, op[o].uv, op[o].then,
                op[o].left, op[o].turn, op[o].finals, op[o].out)
    BY <1>h, <1>3 DEF Becomes, TypeOK
  <2>9. OpOK(o)'
    <3>1. Formed(o)'
      BY <1>h, <1>p, <1>s, <1>c, <1>k, <1>u, <1>3, <2>1
         DEF Becomes, OpOK, Formed, Shaped, Gone, HadByOne, SubmittedFits, Calling, Fits,
             Listed, Callbacks, ArmedStarts, Refusals
    <3>2. HadByOne(o)'
      BY <1>h, <1>p, <1>s, <1>c, <1>k, <1>u, <1>3, <2>1
         DEF Becomes, OpOK, HadByOne, Listed, Calling, Callbacks, SubmittedFits, Fits,
             Formed, Shaped, Gone
    <3>3. SubmittedFits(o)'
      BY <1>h, <1>p, <1>s, <1>c, <1>k, <1>u, <1>3, <2>1
         DEF Becomes, OpOK, SubmittedFits, Fits, HadByOne, Listed, Calling, Callbacks,
             Formed, Shaped, Gone
    <3>4. HandledOnce(o)'
      BY <1>h, <1>p, <1>s, <1>c, <1>k, <1>u, <1>3, <2>1
         DEF Becomes, OpOK, HandledOnce, HadByOne, Calling, SubmittedFits, Fits
    <3>5. ArmedStarts(o)'
      BY <1>h, <1>p, <1>s, <1>c, <1>k, <1>u, <1>3, <2>1
         DEF Becomes, OpOK, ArmedStarts, Armed, HandledOnce, HadByOne, Listed, Calling,
             SubmittedFits, Fits, Refusals, Callbacks, Formed, Shaped, Gone
    <3> QED BY <3>1, <3>2, <3>3, <3>4, <3>5 DEF OpOK
  <2> QED BY <1>t, <2>1, <2>9 DEF Becomes
<1>4. ASSUME w = "start",
             ~op[o].completed,
             op[o].kind = "timer",
             op' = [op EXCEPT ![o].started = TRUE, ![o].uv = "active",
                          ![o].left = op[o].ns \div Milli]
      PROVE  LoopInv'
  <2>0. op[o].ns \div Milli \in Nat
    BY <1>h, <1>p, WholeMillis DEF TypeOK, Continuations
  <2>1. Becomes(o, TRUE, op[o].completed, op[o].closed, "active", op[o].then,
                op[o].ns \div Milli, op[o].turn, op[o].finals, op[o].out)
    BY <1>h, <1>p, <1>4, <2>0, StartTimerFields DEF TypeOK
  <2>9. OpOK(o)'
    <3>1. Formed(o)'
      BY <1>h, <1>p, <1>s, <1>c, <1>k, <1>u, <1>4, <2>1
         DEF Becomes, OpOK, Formed, Shaped, Gone, HadByOne, SubmittedFits, Calling, Fits,
             Listed, Callbacks, ArmedStarts, Refusals
    <3>2. HadByOne(o)'
      BY <1>h, <1>p, <1>s, <1>c, <1>k, <1>u, <1>4, <2>1
         DEF Becomes, OpOK, HadByOne, Listed, Calling, Callbacks, SubmittedFits, Fits,
             Formed, Shaped, Gone
    <3>3. SubmittedFits(o)'
      BY <1>h, <1>p, <1>s, <1>c, <1>k, <1>u, <1>4, <2>1
         DEF Becomes, OpOK, SubmittedFits, Fits, HadByOne, Listed, Calling, Callbacks,
             Formed, Shaped, Gone
    <3>4. HandledOnce(o)'
      BY <1>h, <1>p, <1>s, <1>c, <1>k, <1>u, <1>4, <2>1
         DEF Becomes, OpOK, HandledOnce, HadByOne, Calling, SubmittedFits, Fits
    <3>5. ArmedStarts(o)'
      BY <1>h, <1>p, <1>s, <1>c, <1>k, <1>u, <1>4, <2>1
         DEF Becomes, OpOK, ArmedStarts, Armed, HandledOnce, HadByOne, Listed, Calling,
             SubmittedFits, Fits, Refusals, Callbacks, Formed, Shaped, Gone
    <3> QED BY <3>1, <3>2, <3>3, <3>4, <3>5 DEF OpOK
  <2> QED BY <1>t, <2>1, <2>9 DEF Becomes
<1>5. ASSUME w = "start",
             ~op[o].completed,
             op[o].kind # "schedule",
             op' = [UvClose(o, "fail") EXCEPT ![o].started = TRUE]
      PROVE  LoopInv'
  <2>1. Becomes(o, TRUE, TRUE, op[o].closed, "closing", "fail", op[o].left, op[o].turn,
                op[o].finals, op[o].out)
    BY <1>h, <1>p, <1>5, StartCloseFields DEF TypeOK, Calls
  <2>9. OpOK(o)'
    <3>1. Formed(o)'
      BY <1>h, <1>p, <1>s, <1>c, <1>k, <1>u, <1>5, <2>1
         DEF Becomes, OpOK, Formed, Shaped, Gone, HadByOne, SubmittedFits, Calling, Fits,
             Listed, Callbacks, ArmedStarts, Refusals
    <3>2. HadByOne(o)'
      BY <1>h, <1>p, <1>s, <1>c, <1>k, <1>u, <1>5, <2>1
         DEF Becomes, OpOK, HadByOne, Listed, Calling, Callbacks, SubmittedFits, Fits,
             Formed, Shaped, Gone
    <3>3. SubmittedFits(o)'
      BY <1>h, <1>p, <1>s, <1>c, <1>k, <1>u, <1>5, <2>1
         DEF Becomes, OpOK, SubmittedFits, Fits, HadByOne, Listed, Calling, Callbacks,
             Formed, Shaped, Gone
    <3>4. HandledOnce(o)'
      BY <1>h, <1>p, <1>s, <1>c, <1>k, <1>u, <1>5, <2>1
         DEF Becomes, OpOK, HandledOnce, HadByOne, Calling, SubmittedFits, Fits
    <3>5. ArmedStarts(o)'
      BY <1>h, <1>p, <1>s, <1>c, <1>k, <1>u, <1>5, <2>1
         DEF Becomes, OpOK, ArmedStarts, Armed, HandledOnce, HadByOne, Listed, Calling,
             SubmittedFits, Fits, Refusals, Callbacks, Formed, Shaped, Gone
    <3> QED BY <3>1, <3>2, <3>3, <3>4, <3>5 DEF OpOK
  <2> QED BY <1>t, <2>1, <2>9 DEF Becomes
<1>6. ASSUME w = "start",
             ~op[o].completed,
             op[o].kind = "signal",
             op' = [op EXCEPT ![o].started = TRUE, ![o].uv = "active"]
      PROVE  LoopInv'
  <2>1. Becomes(o, TRUE, op[o].completed, op[o].closed, "active", op[o].then, op[o].left,
                op[o].turn, op[o].finals, op[o].out)
    BY <1>h, <1>p, <1>6, StartSignalFields DEF TypeOK
  <2>9. OpOK(o)'
    <3>1. Formed(o)'
      BY <1>h, <1>p, <1>s, <1>c, <1>k, <1>u, <1>6, <2>1
         DEF Becomes, OpOK, Formed, Shaped, Gone, HadByOne, SubmittedFits, Calling, Fits,
             Listed, Callbacks, ArmedStarts, Refusals
    <3>2. HadByOne(o)'
      BY <1>h, <1>p, <1>s, <1>c, <1>k, <1>u, <1>6, <2>1
         DEF Becomes, OpOK, HadByOne, Listed, Calling, Callbacks, SubmittedFits, Fits,
             Formed, Shaped, Gone
    <3>3. SubmittedFits(o)'
      BY <1>h, <1>p, <1>s, <1>c, <1>k, <1>u, <1>6, <2>1
         DEF Becomes, OpOK, SubmittedFits, Fits, HadByOne, Listed, Calling, Callbacks,
             Formed, Shaped, Gone
    <3>4. HandledOnce(o)'
      BY <1>h, <1>p, <1>s, <1>c, <1>k, <1>u, <1>6, <2>1
         DEF Becomes, OpOK, HandledOnce, HadByOne, Calling, SubmittedFits, Fits
    <3>5. ArmedStarts(o)'
      BY <1>h, <1>p, <1>s, <1>c, <1>k, <1>u, <1>6, <2>1
         DEF Becomes, OpOK, ArmedStarts, Armed, HandledOnce, HadByOne, Listed, Calling,
             SubmittedFits, Fits, Refusals, Callbacks, Formed, Shaped, Gone
    <3> QED BY <3>1, <3>2, <3>3, <3>4, <3>5 DEF OpOK
  <2> QED BY <1>t, <2>1, <2>9 DEF Becomes
<1>7. ASSUME w = "start",
             ~op[o].completed,
             op[o].kind = "poll",
             op' = [op EXCEPT ![o].started = TRUE, ![o].uv = "stopped",
                          ![o].out = "begin", ![o].turn = TRUE]
      PROVE  LoopInv'
  <2>1. Becomes(o, TRUE, op[o].completed, op[o].closed, "stopped", op[o].then, op[o].left,
                TRUE, op[o].finals, "begin")
    BY <1>h, <1>p, <1>7, StartPollFields DEF TypeOK
  <2>9. OpOK(o)'
    <3>1. Formed(o)'
      BY <1>h, <1>p, <1>s, <1>c, <1>k, <1>u, <1>7, <2>1
         DEF Becomes, OpOK, Formed, Shaped, Gone, HadByOne, SubmittedFits, Calling, Fits,
             Listed, Callbacks, ArmedStarts, Refusals
    <3>2. HadByOne(o)'
      BY <1>h, <1>p, <1>s, <1>c, <1>k, <1>u, <1>7, <2>1
         DEF Becomes, OpOK, HadByOne, Listed, Calling, Callbacks, SubmittedFits, Fits,
             Formed, Shaped, Gone
    <3>3. SubmittedFits(o)'
      BY <1>h, <1>p, <1>s, <1>c, <1>k, <1>u, <1>7, <2>1
         DEF Becomes, OpOK, SubmittedFits, Fits, HadByOne, Listed, Calling, Callbacks,
             Formed, Shaped, Gone
    <3>4. HandledOnce(o)'
      BY <1>h, <1>p, <1>s, <1>c, <1>k, <1>u, <1>7, <2>1
         DEF Becomes, OpOK, HandledOnce, HadByOne, Calling, SubmittedFits, Fits
    <3>5. ArmedStarts(o)'
      BY <1>h, <1>p, <1>s, <1>c, <1>k, <1>u, <1>7, <2>1
         DEF Becomes, OpOK, ArmedStarts, Armed, HandledOnce, HadByOne, Listed, Calling,
             SubmittedFits, Fits, Refusals, Callbacks, Formed, Shaped, Gone
    <3> QED BY <3>1, <3>2, <3>3, <3>4, <3>5 DEF OpOK
  <2> QED BY <1>t, <2>1, <2>9 DEF Becomes
<1>8. ASSUME w = "start",
             ~op[o].completed,
             op[o].kind = "poll",
             op' = [Final(o, "fail") EXCEPT ![o].started = TRUE, ![o].closed = TRUE]
      PROVE  LoopInv'
  <2>1. Becomes(o, TRUE, TRUE, TRUE, op[o].uv, op[o].then, op[o].left, op[o].turn,
                op[o].finals + 1, "fail")
    BY <1>h, <1>p, <1>8, StartFailFields DEF TypeOK
  <2>9. OpOK(o)'
    <3>1. Formed(o)'
      BY <1>h, <1>p, <1>s, <1>c, <1>k, <1>u, <1>8, <2>1
         DEF Becomes, OpOK, Formed, Shaped, Gone, HadByOne, SubmittedFits, Calling, Fits,
             Listed, Callbacks, ArmedStarts, Refusals
    <3>2. HadByOne(o)'
      BY <1>h, <1>p, <1>s, <1>c, <1>k, <1>u, <1>8, <2>1
         DEF Becomes, OpOK, HadByOne, Listed, Calling, Callbacks, SubmittedFits, Fits,
             Formed, Shaped, Gone
    <3>3. SubmittedFits(o)'
      BY <1>h, <1>p, <1>s, <1>c, <1>k, <1>u, <1>8, <2>1
         DEF Becomes, OpOK, SubmittedFits, Fits, HadByOne, Listed, Calling, Callbacks,
             Formed, Shaped, Gone
    <3>4. HandledOnce(o)'
      BY <1>h, <1>p, <1>s, <1>c, <1>k, <1>u, <1>8, <2>1
         DEF Becomes, OpOK, HandledOnce, HadByOne, Calling, SubmittedFits, Fits
    <3>5. ArmedStarts(o)'
      BY <1>h, <1>p, <1>s, <1>c, <1>k, <1>u, <1>8, <2>1
         DEF Becomes, OpOK, ArmedStarts, Armed, HandledOnce, HadByOne, Listed, Calling,
             SubmittedFits, Fits, Refusals, Callbacks, Formed, Shaped, Gone
    <3> QED BY <3>1, <3>2, <3>3, <3>4, <3>5 DEF OpOK
  <2> QED BY <1>t, <2>1, <2>9 DEF Becomes
<1>9. ASSUME w = "start",
             ~op[o].completed,
             op[o].kind = "schedule",
             op' = Final(o, "start")
      PROVE  LoopInv'
  <2>1. Becomes(o, op[o].started, TRUE, op[o].closed, op[o].uv, op[o].then, op[o].left,
                op[o].turn, op[o].finals + 1, "start")
    BY <1>h, <1>p, <1>9, FinalFields DEF TypeOK, Calls
  <2>9. OpOK(o)'
    <3>1. Formed(o)'
      BY <1>h, <1>p, <1>s, <1>c, <1>k, <1>u, <1>9, <2>1
         DEF Becomes, OpOK, Formed, Shaped, Gone, HadByOne, SubmittedFits, Calling, Fits,
             Listed, Callbacks, ArmedStarts, Refusals
    <3>2. HadByOne(o)'
      BY <1>h, <1>p, <1>s, <1>c, <1>k, <1>u, <1>9, <2>1
         DEF Becomes, OpOK, HadByOne, Listed, Calling, Callbacks, SubmittedFits, Fits,
             Formed, Shaped, Gone
    <3>3. SubmittedFits(o)'
      BY <1>h, <1>p, <1>s, <1>c, <1>k, <1>u, <1>9, <2>1
         DEF Becomes, OpOK, SubmittedFits, Fits, HadByOne, Listed, Calling, Callbacks,
             Formed, Shaped, Gone
    <3>4. HandledOnce(o)'
      BY <1>h, <1>p, <1>s, <1>c, <1>k, <1>u, <1>9, <2>1
         DEF Becomes, OpOK, HandledOnce, HadByOne, Calling, SubmittedFits, Fits
    <3>5. ArmedStarts(o)'
      BY <1>h, <1>p, <1>s, <1>c, <1>k, <1>u, <1>9, <2>1
         DEF Becomes, OpOK, ArmedStarts, Armed, HandledOnce, HadByOne, Listed, Calling,
             SubmittedFits, Fits, Refusals, Callbacks, Formed, Shaped, Gone
    <3> QED BY <3>1, <3>2, <3>3, <3>4, <3>5 DEF OpOK
  <2> QED BY <1>t, <2>1, <2>9 DEF Becomes
<1>10. ASSUME w = "next",
             ~op[o].completed,
             op' = [op EXCEPT ![o].uv = "active"]
      PROVE  LoopInv'
  <2>1. Becomes(o, op[o].started, op[o].completed, op[o].closed, "active", op[o].then,
                op[o].left, op[o].turn, op[o].finals, op[o].out)
    BY <1>h, <1>p, <1>10, NextFields DEF TypeOK
  <2>9. OpOK(o)'
    <3>1. Formed(o)'
      BY <1>h, <1>p, <1>s, <1>c, <1>k, <1>u, <1>10, <2>1
         DEF Becomes, OpOK, Formed, Shaped, Gone, HadByOne, SubmittedFits, Calling, Fits,
             Listed, Callbacks, ArmedStarts, Refusals
    <3>2. HadByOne(o)'
      BY <1>h, <1>p, <1>s, <1>c, <1>k, <1>u, <1>10, <2>1
         DEF Becomes, OpOK, HadByOne, Listed, Calling, Callbacks, SubmittedFits, Fits,
             Formed, Shaped, Gone
    <3>3. SubmittedFits(o)'
      BY <1>h, <1>p, <1>s, <1>c, <1>k, <1>u, <1>10, <2>1
         DEF Becomes, OpOK, SubmittedFits, Fits, HadByOne, Listed, Calling, Callbacks,
             Formed, Shaped, Gone
    <3>4. HandledOnce(o)'
      BY <1>h, <1>p, <1>s, <1>c, <1>k, <1>u, <1>10, <2>1
         DEF Becomes, OpOK, HandledOnce, HadByOne, Calling, SubmittedFits, Fits
    <3>5. ArmedStarts(o)'
      BY <1>h, <1>p, <1>s, <1>c, <1>k, <1>u, <1>10, <2>1
         DEF Becomes, OpOK, ArmedStarts, Armed, HandledOnce, HadByOne, Listed, Calling,
             SubmittedFits, Fits, Refusals, Callbacks, Formed, Shaped, Gone
    <3> QED BY <3>1, <3>2, <3>3, <3>4, <3>5 DEF OpOK
  <2> QED BY <1>t, <2>1, <2>9 DEF Becomes
<1>11. ASSUME w \in {"next", "done"},
             ~op[o].completed,
             NEW call \in {"fail", "ended"},
             op' = UvClose(o, call)
      PROVE  LoopInv'
  <2>1. Becomes(o, op[o].started, TRUE, op[o].closed, "closing", call, op[o].left,
                op[o].turn, op[o].finals, op[o].out)
    BY <1>h, <1>p, <1>11, UvCloseFields DEF TypeOK, Calls
  <2>9. OpOK(o)'
    <3>1. Formed(o)'
      BY <1>h, <1>p, <1>s, <1>c, <1>k, <1>u, <1>11, <2>1
         DEF Becomes, OpOK, Formed, Shaped, Gone, HadByOne, SubmittedFits, Calling, Fits,
             Listed, Callbacks, ArmedStarts, Refusals
    <3>2. HadByOne(o)'
      BY <1>h, <1>p, <1>s, <1>c, <1>k, <1>u, <1>11, <2>1
         DEF Becomes, OpOK, HadByOne, Listed, Calling, Callbacks, SubmittedFits, Fits,
             Formed, Shaped, Gone
    <3>3. SubmittedFits(o)'
      BY <1>h, <1>p, <1>s, <1>c, <1>k, <1>u, <1>11, <2>1
         DEF Becomes, OpOK, SubmittedFits, Fits, HadByOne, Listed, Calling, Callbacks,
             Formed, Shaped, Gone
    <3>4. HandledOnce(o)'
      BY <1>h, <1>p, <1>s, <1>c, <1>k, <1>u, <1>11, <2>1
         DEF Becomes, OpOK, HandledOnce, HadByOne, Calling, SubmittedFits, Fits
    <3>5. ArmedStarts(o)'
      BY <1>h, <1>p, <1>s, <1>c, <1>k, <1>u, <1>11, <2>1
         DEF Becomes, OpOK, ArmedStarts, Armed, HandledOnce, HadByOne, Listed, Calling,
             SubmittedFits, Fits, Refusals, Callbacks, Formed, Shaped, Gone
    <3> QED BY <3>1, <3>2, <3>3, <3>4, <3>5 DEF OpOK
  <2> QED BY <1>t, <2>1, <2>9 DEF Becomes
<1>12. ASSUME w \in Refusals,
             ~op[o].completed,
             NEW call \in {"fail", "stop"},
             op' = Final(o, call)
      PROVE  LoopInv'
  <2>1. Becomes(o, op[o].started, TRUE, op[o].closed, op[o].uv, op[o].then, op[o].left,
                op[o].turn, op[o].finals + 1, call)
    BY <1>h, <1>p, <1>12, FinalFields DEF TypeOK, Calls
  <2>9. OpOK(o)'
    <3>1. Formed(o)'
      BY <1>h, <1>p, <1>s, <1>c, <1>k, <1>u, <1>12, <2>1
         DEF Becomes, OpOK, Formed, Shaped, Gone, HadByOne, SubmittedFits, Calling, Fits,
             Listed, Callbacks, ArmedStarts, Refusals
    <3>2. HadByOne(o)'
      BY <1>h, <1>p, <1>s, <1>c, <1>k, <1>u, <1>12, <2>1
         DEF Becomes, OpOK, HadByOne, Listed, Calling, Callbacks, SubmittedFits, Fits,
             Formed, Shaped, Gone
    <3>3. SubmittedFits(o)'
      BY <1>h, <1>p, <1>s, <1>c, <1>k, <1>u, <1>12, <2>1
         DEF Becomes, OpOK, SubmittedFits, Fits, HadByOne, Listed, Calling, Callbacks,
             Formed, Shaped, Gone
    <3>4. HandledOnce(o)'
      BY <1>h, <1>p, <1>s, <1>c, <1>k, <1>u, <1>12, <2>1
         DEF Becomes, OpOK, HandledOnce, HadByOne, Calling, SubmittedFits, Fits
    <3>5. ArmedStarts(o)'
      BY <1>h, <1>p, <1>s, <1>c, <1>k, <1>u, <1>12, <2>1
         DEF Becomes, OpOK, ArmedStarts, Armed, HandledOnce, HadByOne, Listed, Calling,
             SubmittedFits, Fits, Refusals, Callbacks, Formed, Shaped, Gone
    <3> QED BY <3>1, <3>2, <3>3, <3>4, <3>5 DEF OpOK
  <2> QED BY <1>t, <2>1, <2>9 DEF Becomes
<1> QED
  <2>1. CASE w = "interrupt"
    BY <1>c, <2>1, <1>1, <1>2, <1>3 DEF OnLoop, InterruptOnLoop
  <2>2. CASE w # "interrupt" /\ op[o].completed
    BY <1>c, <2>2, <1>3 DEF OnLoop
  <2>3. CASE w # "interrupt" /\ ~op[o].completed
    BY <1>c, <2>3, <1>4, <1>5, <1>6, <1>7, <1>8, <1>9, <1>10, <1>11, <1>12
       DEF OnLoop, StartTimer, StartSignal, StartPoll, NextOnLoop, DoneOnLoop, FailOnLoop,
           StopOnLoop, Refusals
  <2> QED BY <2>1, <2>2, <2>3

-----------------------------------------------------------------------------
(* The steps of the clock.                                                 *)

\* A member of a continuation that the invariant does not speak of changes.
LEMMA NsFields ==
  ASSUME NEW r \in Continuations, NEW n \in Nat, NEW x, x = [r EXCEPT !.ns = n]
  PROVE  x \in Continuations /\ SameShape(x, r) /\ x.ns = n /\ x.left = r.left
<1>1. x \in Continuations
  BY DEF Continuations
<1>2. SameShape(x, r)
  BY DEF Continuations, SameShape
<1>3. x.ns = n /\ x.left = r.left
  BY DEF Continuations
<1> QED BY <1>1, <1>2, <1>3

LEMMA LeftFields ==
  ASSUME NEW r \in Continuations, NEW n \in Nat, NEW x, x = [r EXCEPT !.left = n]
  PROVE  x \in Continuations /\ SameShape(x, r) /\ x.left = n /\ x.ns = r.ns
<1>1. x \in Continuations
  BY DEF Continuations
<1>2. SameShape(x, r)
  BY DEF Continuations, SameShape
<1>3. x.left = n /\ x.ns = r.ns
  BY DEF Continuations
<1> QED BY <1>1, <1>2, <1>3

\* Operation p has an entry in the list.
Handed(due, p) == \E i \in 1..Len(due) : due[i].op = p

\* What the callbacks of the timers do: each is submitted, with what is left of it.
LEMMA HandFacts ==
  ASSUME TypeOK, Single, NEW due \in Seq([op : Ops, ns : Nat]), NEW left \in [1..Len(due) -> Nat],
         \A i, j \in 1..Len(due) : due[i].op = due[j].op => i = j,
         \A i \in 1..Len(due) : ~Listed(due[i].op),
         Hand(due, left)
  PROVE  /\ waiters' \in Seq(Submissions)
         /\ \A p, v : Submitted(p, v)' <=> Submitted(p, v) \/ (v = "start" /\ Handed(due, p))
         /\ \A i, j \in 1..Len(waiters') :
              waiters'[i].op = waiters'[j].op
                /\ (waiters'[i].what = "interrupt" <=> waiters'[j].what = "interrupt") => i = j
         /\ op' \in [Ops -> Continuations]
         /\ \A p \in Ops : SameShape(op'[p], op[p]) /\ op'[p].left = op[p].left
         /\ \A p \in Ops : ~Handed(due, p) => op'[p] = op[p]
         /\ \A i \in 1..Len(due) : op'[due[i].op].ns = left[i]
<1> DEFINE h == [i \in DOMAIN due |-> Waiter(due[i].op, "start")]
           n == Len(waiters)
           m == Len(due)
<1>1. /\ m \in Nat /\ DOMAIN due = 1..m /\ n \in Nat /\ waiters \in Seq(Submissions)
      /\ \A i \in 1..m : due[i] \in [op : Ops, ns : Nat]
  <2>1. m \in Nat /\ DOMAIN due = 1..m /\ \A i \in 1..m : due[i] \in [op : Ops, ns : Nat]
    BY LenProperties, ElementOfSeq
  <2>2. n \in Nat /\ waiters \in Seq(Submissions)
    BY LenProperties DEF TypeOK
  <2> QED BY <2>1, <2>2
<1>2. \A i \in 1..m : due[i].op \in Ops
  BY <1>1
<1>3. /\ \A i \in 1..m : h[i] \in Submissions /\ h[i].op = due[i].op /\ h[i].what = "start"
      /\ h \in [1..m -> Submissions]
  <2>1. "start" \in Callbacks
    BY DEF Callbacks
  <2>2. h = [i \in 1..m |-> Waiter(due[i].op, "start")]
    BY <1>1
  <2>3. \A i \in 1..m : /\ Waiter(due[i].op, "start") \in Submissions
                         /\ Waiter(due[i].op, "start").op = due[i].op
                         /\ Waiter(due[i].op, "start").what = "start"
    BY <1>2, <2>1, WaiterFacts
  <2> HIDE DEF h, m
  <2> QED BY ONLY <2>2, <2>3
<1>4. h \in Seq(Submissions) /\ Len(h) = m
  <2> HIDE DEF h, m
  <2> QED BY ONLY <1>1, <1>3, FunctionIsSeq
<1>5. waiters' = waiters \o h
  BY DEF Hand
<1> HIDE DEF h, n, m
<1>6. /\ waiters' \in Seq(Submissions) /\ Len(waiters') = n + m
      /\ \A i \in 1..(n + m) : waiters'[i] = IF i <= n THEN waiters[i] ELSE h[i - n]
  <2>1. /\ waiters \o h \in Seq(Submissions) /\ Len(waiters \o h) = Len(waiters) + Len(h)
        /\ \A i \in 1..(Len(waiters) + Len(h)) :
             (waiters \o h)[i] = IF i <= Len(waiters) THEN waiters[i] ELSE h[i - Len(waiters)]
    BY ONLY <1>1, <1>4, ConcatProperties
  <2> QED BY ONLY <1>4, <1>5, <2>1 DEF n
<1>7. \A i \in 1..n : i \in 1..(n + m) /\ waiters'[i] = waiters[i]
  BY <1>1, <1>6
<1>8. \A i \in 1..m : n + i \in 1..(n + m) /\ waiters'[n + i] = h[i]
  BY <1>1, <1>6
<1>9. \A i \in 1..(n + m) : i \in 1..n \/ (i - n \in 1..m /\ waiters'[i] = h[i - n])
  BY <1>1, <1>6
<1>10. ASSUME NEW p, NEW v
       PROVE  Submitted(p, v)' <=> Submitted(p, v) \/ (v = "start" /\ Handed(due, p))
  <2>1. Submitted(p, v)' => Submitted(p, v) \/ (v = "start" /\ Handed(due, p))
    <3> SUFFICES ASSUME Submitted(p, v)'
                 PROVE  Submitted(p, v) \/ (v = "start" /\ Handed(due, p))
      OBVIOUS
    <3>1. PICK i \in 1..(n + m) : waiters'[i].op = p /\ waiters'[i].what = v
      BY <1>6 DEF Submitted
    <3>2. CASE i \in 1..n
      BY <1>7, <3>1, <3>2 DEF Submitted, n
    <3>3. CASE i \notin 1..n
      <4>1. i - n \in 1..m /\ due[i - n].op = p /\ v = "start"
        BY <1>3, <1>9, <3>1, <3>3
      <4> QED BY <4>1 DEF Handed, m
    <3> QED BY <3>2, <3>3
  <2>2. Submitted(p, v) => Submitted(p, v)'
    BY <1>6, <1>7 DEF Submitted, n
  <2>3. v = "start" /\ Handed(due, p) => Submitted(p, v)'
    <3> SUFFICES ASSUME v = "start", Handed(due, p)
                 PROVE  Submitted(p, v)'
      OBVIOUS
    <3>1. PICK i \in 1..m : due[i].op = p
      BY DEF Handed, m
    <3>2. n + i \in 1..Len(waiters') /\ waiters'[n + i].op = p /\ waiters'[n + i].what = v
      BY <1>3, <1>6, <1>8, <3>1
    <3> QED BY <3>2 DEF Submitted
  <2> QED BY <2>1, <2>2, <2>3
<1>11. \A i \in 1..n, j \in 1..m :
         waiters[i].op = due[j].op => waiters[i].what = "interrupt"
  <2> SUFFICES ASSUME NEW i \in 1..n, NEW j \in 1..m, waiters[i].op = due[j].op
               PROVE  waiters[i].what = "interrupt"
    OBVIOUS
  <2>1. waiters[i].what \in Callbacks /\ Submitted(due[j].op, waiters[i].what)
    BY EntryFacts DEF Submitted, n
  <2>2. ~Listed(due[j].op)
    BY DEF m
  <2> QED BY <2>1, <2>2 DEF Listed
<1>12. ASSUME NEW i \in 1..(n + m), NEW j \in 1..(n + m), waiters'[i].op = waiters'[j].op,
              waiters'[i].what = "interrupt" <=> waiters'[j].what = "interrupt"
       PROVE  i = j
  <2>1. CASE i \in 1..n /\ j \in 1..n
    BY <1>7, <1>12, <2>1 DEF Single, n
  <2>2. CASE i \in 1..n /\ j \notin 1..n
    <3>1. j - n \in 1..m /\ waiters'[j] = h[j - n] /\ waiters'[i] = waiters[i]
      BY ONLY <1>7, <1>9, <2>2, <1>12
    <3>2. h[j - n].op = due[j - n].op /\ h[j - n].what = "start"
      BY ONLY <1>3, <3>1
    <3>3. waiters[i].what = "interrupt"
      BY ONLY <1>11, <1>12, <2>2, <3>1, <3>2
    <3> QED BY ONLY <1>12, <3>1, <3>2, <3>3
  <2>3. CASE i \notin 1..n /\ j \in 1..n
    <3>1. i - n \in 1..m /\ waiters'[i] = h[i - n] /\ waiters'[j] = waiters[j]
      BY ONLY <1>7, <1>9, <2>3, <1>12
    <3>2. h[i - n].op = due[i - n].op /\ h[i - n].what = "start"
      BY ONLY <1>3, <3>1
    <3>3. waiters[j].what = "interrupt"
      BY ONLY <1>11, <1>12, <2>3, <3>1, <3>2
    <3> QED BY ONLY <1>12, <3>1, <3>2, <3>3
  <2>4. CASE i \notin 1..n /\ j \notin 1..n
    <3>1. i - n \in 1..m /\ j - n \in 1..m /\ due[i - n].op = due[j - n].op
      BY <1>3, <1>9, <1>12, <2>4
    <3>2. i - n = j - n
      BY <3>1 DEF m
    <3> QED BY <1>1, <3>2
  <2> QED BY <2>1, <2>2, <2>3, <2>4
<1>13. ASSUME NEW i \in 1..m PROVE (CHOOSE j \in DOMAIN due : due[j].op = due[i].op) = i
  BY <1>1 DEF m
<1>14. ASSUME NEW i \in 1..m
       PROVE  op'[due[i].op] = [op[due[i].op] EXCEPT !.ns = left[i]]
  <2>1. \E j \in DOMAIN due : due[j].op = due[i].op
    BY <1>1
  <2> QED BY <1>2, <1>13, <2>1 DEF Hand
<1>15. ASSUME NEW p \in Ops, ~Handed(due, p) PROVE op'[p] = op[p]
  BY <1>1, <1>15 DEF Hand, Handed, m
<1>16. op \in [Ops -> Continuations]
  BY DEF TypeOK
<1>17. ASSUME NEW p \in Ops
       PROVE  op'[p] \in Continuations /\ SameShape(op'[p], op[p]) /\ op'[p].left = op[p].left
  <2>1. CASE ~Handed(due, p)
    BY <1>15, <1>16, <2>1 DEF SameShape
  <2>2. CASE Handed(due, p)
    <3>1. PICK i \in 1..m : due[i].op = p
      BY <2>2 DEF Handed, m
    <3>2. left[i] \in Nat /\ op[p] \in Continuations
      BY <1>16 DEF m
    <3>3. op'[p] = [op[p] EXCEPT !.ns = left[i]]
      BY <1>14, <3>1
    <3> QED BY ONLY <3>2, <3>3, NsFields
  <2> QED BY <2>1, <2>2
<1>18. op' \in [Ops -> Continuations]
  <2>1. op' = [p \in Ops |-> op'[p]]
    BY DEF Hand
  <2> QED BY ONLY <1>17, <2>1
<1>19. ASSUME NEW i \in 1..m PROVE op'[due[i].op].ns = left[i]
  <2>1. left[i] \in Nat /\ op[due[i].op] \in Continuations
    BY <1>2, <1>16 DEF m
  <2>2. op'[due[i].op] = [op[due[i].op] EXCEPT !.ns = left[i]]
    BY <1>14
  <2> QED BY ONLY <2>1, <2>2, NsFields
<1> QED BY <1>6, <1>10, <1>12, <1>15, <1>17, <1>18, <1>19 DEF m

\* The pending timers that are handed over leave the clock's list for the loop's.
LEMMA HandStep ==
  ASSUME LoopInv, NEW due \in Seq([op : Ops, ns : Nat]), NEW left \in [1..Len(due) -> Nat],
         \A i, j \in 1..Len(due) : due[i].op = due[j].op => i = j,
         \A p : Handed(due, p) => Pends(p),
         Hand(due, left), async' \in BOOLEAN,
         pending' \in Seq([op : Ops, ns : Nat]), PendingLater',
         \A p : Pends(p)' <=> Pends(p) /\ ~Handed(due, p),
         \A i, j \in 1..Len(pending') : pending'[i].op = pending'[j].op => i = j,
         paused' \in BOOLEAN, advanced' \in 0..MaxAdvance, elapsed' \in [Ops -> Nat],
         UNCHANGED <<phase, caller, trigger, handler>>
  PROVE  LoopInv'
<1>h. TypeOK /\ Single /\ PendingLater /\ \A p \in Ops : OpOK(p)
  BY DEF LoopInv
<1>1. \A i \in 1..Len(due) : due[i].op \in Ops /\ Handed(due, due[i].op)
  <2>1. \A i \in 1..Len(due) : due[i] \in [op : Ops, ns : Nat]
    BY ElementOfSeq
  <2> QED BY <2>1 DEF Handed
<1>2. \A i \in 1..Len(due) : ~Listed(due[i].op)
  BY <1>h, <1>1 DEF OpOK, HadByOne
<1>3. /\ waiters' \in Seq(Submissions)
      /\ \A p, v : Submitted(p, v)' <=> Submitted(p, v) \/ (v = "start" /\ Handed(due, p))
      /\ \A i, j \in 1..Len(waiters') :
           waiters'[i].op = waiters'[j].op
             /\ (waiters'[i].what = "interrupt" <=> waiters'[j].what = "interrupt") => i = j
      /\ op' \in [Ops -> Continuations]
      /\ \A p \in Ops : SameShape(op'[p], op[p])
  BY <1>h, <1>2, HandFacts
<1>4. TypeOK'
  BY <1>h, <1>3 DEF TypeOK
<1>5. Single'
  BY <1>3 DEF Single
<1>6. ASSUME NEW o \in Ops PROVE OpOK(o)'
  <2>1. CASE ~Handed(due, o)
    <3>1. Unmoved(o)
      BY <1>3, <2>1 DEF Unmoved
    <3> QED BY <1>h, <3>1, UnmovedOK
  <2>2. CASE Handed(due, o)
    <3>1. /\ OpOK(o) /\ Pends(o) /\ ~Pends(o)' /\ SameShape(op'[o], op[o])
          /\ \A v : Submitted(o, v)' <=> Submitted(o, v) \/ v = "start"
          /\ caller'[o] = caller[o] /\ trigger'[o] = trigger[o] /\ handler'[o] = handler[o]
      BY <1>h, <1>3, <2>2
    <3>9. OpOK(o)'
      <4>1. Formed(o)'
        BY <3>1
           DEF SameShape, OpOK, Formed, Shaped, Gone, HadByOne, SubmittedFits, Calling,
               Fits, Listed, Callbacks
      <4>2. HadByOne(o)'
        BY <3>1
           DEF SameShape, OpOK, HadByOne, Listed, Calling, Callbacks, SubmittedFits, Fits,
               Formed, Shaped, Gone
      <4>3. SubmittedFits(o)'
        BY <3>1
           DEF SameShape, OpOK, SubmittedFits, Fits, HadByOne, Listed, Calling, Callbacks,
               Formed, Shaped, Gone
      <4>4. HandledOnce(o)'
        BY <3>1 DEF SameShape, OpOK, HandledOnce, HadByOne, Calling, SubmittedFits, Fits
      <4>5. ArmedStarts(o)'
        BY <3>1
           DEF SameShape, OpOK, ArmedStarts, Armed, HandledOnce, HadByOne, Listed, Calling,
               SubmittedFits, Fits, Refusals, Callbacks, Formed, Shaped, Gone
      <4> QED BY <4>1, <4>2, <4>3, <4>4, <4>5 DEF OpOK
    <3> QED BY <3>9
  <2> QED BY <2>1, <2>2
<1> QED BY <1>4, <1>5, <1>6 DEF LoopInv

\* The time of a timer only grows, by what the clock has run for or to its end.
LEMMA ElapseFacts ==
  ASSUME TypeOK, NEW n \in Nat, Elapse(n)
  PROVE  /\ elapsed' \in [Ops -> Nat]
         /\ \A t \in Ops : elapsed'[t] >= elapsed[t]
         /\ \A t \in Timers : Outstanding(t) =>
              elapsed'[t] >= Duration[t] \/ elapsed'[t] = elapsed[t] + n
<1>1. elapsed \in [Ops -> Nat] /\ Duration \in [Ops -> Nat]
  BY EventLoopAssumption DEF TypeOK
<1>2. ASSUME NEW t \in Ops
      PROVE  /\ elapsed'[t] \in Nat /\ elapsed'[t] >= elapsed[t]
             /\ t \in Timers /\ Outstanding(t) =>
                  elapsed'[t] >= Duration[t] \/ elapsed'[t] = elapsed[t] + n
  <2>1. elapsed[t] \in Nat /\ Duration[t] \in Nat
    BY <1>1
  <2>2. elapsed'[t] = IF t \in Timers /\ Outstanding(t) /\ elapsed[t] < Duration[t]
                      THEN IF elapsed[t] + n < Duration[t]
                           THEN elapsed[t] + n ELSE Duration[t]
                      ELSE elapsed[t]
    BY DEF Elapse
  <2> QED BY ONLY <2>1, <2>2, n \in Nat
<1>3. elapsed' = [t \in Ops |-> elapsed'[t]]
  BY DEF Elapse
<1>4. elapsed' \in [Ops -> Nat]
  BY ONLY <1>2, <1>3
<1> QED BY <1>2, <1>4 DEF Timers

\* The clock runs again: what is pending is handed over.
LEMMA ResumeStep ==
  ASSUME LoopInv, Resume
  PROVE  LoopInv'
<1>h. TypeOK /\ Single /\ PendingLater
  BY DEF LoopInv
<1> DEFINE left == [i \in DOMAIN pending |-> pending[i].ns - advanced]
<1>1. /\ Len(pending) \in Nat /\ DOMAIN pending = 1..Len(pending) /\ advanced \in Nat
      /\ \A i \in 1..Len(pending) : pending[i].ns \in Nat
      /\ pending \in Seq([op : Ops, ns : Nat])
  <2>1. pending \in Seq([op : Ops, ns : Nat]) /\ advanced \in Nat
    BY <1>h, EventLoopAssumption DEF TypeOK
  <2>2. Len(pending) \in Nat /\ DOMAIN pending = 1..Len(pending)
    BY ONLY <2>1, LenProperties
  <2>3. \A i \in 1..Len(pending) : pending[i].ns \in Nat
    BY <1>h, EntryFacts
  <2> QED BY ONLY <2>1, <2>2, <2>3
<1>2. left \in [1..Len(pending) -> Nat]
  <2>1. \A i \in 1..Len(pending) : pending[i].ns - advanced \in Nat
    BY <1>h, <1>1 DEF PendingLater
  <2> QED BY <1>1, <2>1
<1>3. Hand(pending, left)
  BY DEF Resume
<1> HIDE DEF left
<1>4. /\ async' = TRUE /\ pending' = <<>> /\ paused' = FALSE
      /\ UNCHANGED <<phase, advanced, caller, trigger, handler, elapsed>>
  BY DEF Resume, Hand
<1>5. \A p : Handed(pending, p) <=> Pends(p)
  BY DEF Handed, Pends
<1>6. /\ pending' \in Seq([op : Ops, ns : Nat]) /\ PendingLater'
      /\ \A i, j \in 1..Len(pending') : pending'[i].op = pending'[j].op => i = j
      /\ \A p : ~Pends(p)'
  <2>1. pending' \in Seq([op : Ops, ns : Nat]) /\ Len(pending') = 0
    BY <1>4, EmptySeq
  <2> QED BY <2>1 DEF PendingLater, Pends
<1>7. \A i, j \in 1..Len(pending) : pending[i].op = pending[j].op => i = j
  BY <1>h DEF Single
<1> QED BY <1>h, <1>1, <1>2, <1>3, <1>4, <1>5, <1>6, <1>7, HandStep DEF TypeOK

\* The positions of the timers whose time comes when the clock is advanced by n.
DueAt(n) == {i \in DOMAIN pending : advanced + n >= pending[i].ns}

\* Which timers a paused clock hands over when it is advanced, and which stay.
LEMMA AdvanceFacts ==
  ASSUME TypeOK, Single, NEW n \in Nat, Advance(n),
         NEW due, due = DueAt(n)
  PROVE  /\ Cardinality(due) \in Nat /\ Len(Picked(pending, due)) = Cardinality(due)
         /\ Picked(pending, due) \in Seq([op : Ops, ns : Nat])
         /\ pending' \in Seq([op : Ops, ns : Nat])
         /\ \A i, j \in 1..Cardinality(due) :
              Picked(pending, due)[i].op = Picked(pending, due)[j].op => i = j
         /\ \A i, j \in 1..Len(pending') : pending'[i].op = pending'[j].op => i = j
         /\ \A k \in 1..Cardinality(due) :
              \E i \in 1..Len(pending) : /\ Picked(pending, due)[k] = pending[i]
                                         /\ advanced + n >= pending[i].ns
         /\ \A k \in 1..Len(pending') :
              \E i \in 1..Len(pending) : /\ pending'[k] = pending[i]
                                         /\ ~(advanced + n >= pending[i].ns)
         /\ \A p : Handed(Picked(pending, due), p) => Pends(p)
         /\ \A p : Pends(p)' <=> Pends(p) /\ ~Handed(Picked(pending, due), p)
<1> DEFINE D == Picked(pending, due)
           rest == DOMAIN pending \ due
           c == Cardinality(due)
           d == Cardinality(rest)
<1>1. /\ DOMAIN pending = 1..Len(pending) /\ pending \in Seq([op : Ops, ns : Nat])
      /\ due \in SUBSET (1..Len(pending)) /\ rest \in SUBSET (1..Len(pending))
  BY EntryFacts DEF TypeOK, DueAt
<1>2. c \in Nat /\ D \in Seq([op : Ops, ns : Nat]) /\ Len(D) = c /\ IsPick(D, pending, due)
  BY ONLY <1>1, PickedFacts
<1>3. pending' = Picked(pending, rest)
  BY DEF Advance, DueAt
<1>4. /\ d \in Nat /\ pending' \in Seq([op : Ops, ns : Nat]) /\ Len(pending') = d
      /\ IsPick(pending', pending, rest)
  <2> HIDE DEF rest
  <2>1. /\ d \in Nat /\ Picked(pending, rest) \in Seq([op : Ops, ns : Nat])
        /\ Len(Picked(pending, rest)) = d /\ IsPick(Picked(pending, rest), pending, rest)
    BY ONLY <1>1, PickedFacts
  <2> QED BY ONLY <1>3, <2>1
<1>5. PICK f \in [1..c -> due] :
        /\ \A k \in 1..c : D[k] = pending[f[k]]
        /\ \A k, m \in 1..c : f[k] = f[m] => k = m
        /\ \A i \in due : \E k \in 1..c : f[k] = i
  BY <1>2 DEF IsPick
<1>6. PICK g \in [1..d -> rest] :
        /\ \A k \in 1..d : pending'[k] = pending[g[k]]
        /\ \A k, m \in 1..d : g[k] = g[m] => k = m
        /\ \A i \in rest : \E k \in 1..d : g[k] = i
  BY <1>4 DEF IsPick
<1>7. \A i \in 1..Len(pending) : i \in due <=> advanced + n >= pending[i].ns
  BY <1>1 DEF DueAt
<1>8. \A i \in 1..Len(pending) : i \in rest <=> i \notin due
  BY <1>1
<1>9. \A i, j \in 1..Len(pending) : pending[i].op = pending[j].op => i = j
  BY DEF Single
<1> HIDE DEF D, rest, c, d
<1>10. \A k \in 1..c : f[k] \in due /\ f[k] \in 1..Len(pending)
  BY <1>1, <1>5
<1>11. \A k \in 1..d : g[k] \in rest /\ g[k] \in 1..Len(pending)
  BY <1>1, <1>6
<1>12. \A i, j \in 1..c : D[i].op = D[j].op => i = j
  BY <1>5, <1>9, <1>10
<1>13. \A i, j \in 1..d : pending'[i].op = pending'[j].op => i = j
  BY <1>6, <1>9, <1>11
<1>14. \A k \in 1..c : \E i \in 1..Len(pending) : D[k] = pending[i] /\ advanced + n >= pending[i].ns
  BY <1>5, <1>7, <1>10
<1>15. \A k \in 1..d :
         \E i \in 1..Len(pending) : pending'[k] = pending[i] /\ ~(advanced + n >= pending[i].ns)
  BY <1>6, <1>7, <1>8, <1>11
<1>16. ASSUME NEW p PROVE Handed(D, p) <=> \E i \in due : pending[i].op = p
  <2>1. ASSUME NEW k \in 1..c, D[k].op = p PROVE \E i \in due : pending[i].op = p
    BY <1>5, <1>10, <2>1
  <2>2. ASSUME NEW i \in due, pending[i].op = p PROVE \E k \in 1..c : D[k].op = p
    BY <1>5, <2>2
  <2> QED BY <1>2, <2>1, <2>2 DEF Handed
<1>17. ASSUME NEW p PROVE Pends(p)' <=> \E i \in rest : pending[i].op = p
  <2>1. ASSUME NEW k \in 1..d, pending'[k].op = p PROVE \E i \in rest : pending[i].op = p
    BY <1>6, <1>11, <2>1
  <2>2. ASSUME NEW i \in rest, pending[i].op = p PROVE \E k \in 1..d : pending'[k].op = p
    BY <1>6, <2>2
  <2> QED BY <1>4, <2>1, <2>2 DEF Pends
<1>18. \A p : Handed(D, p) => Pends(p)
  BY <1>1, <1>16 DEF Pends
<1>19. ASSUME NEW p PROVE Pends(p)' <=> Pends(p) /\ ~Handed(D, p)
  <2>1. Pends(p)' => Pends(p) /\ ~Handed(D, p)
    <3> SUFFICES ASSUME Pends(p)' PROVE Pends(p) /\ ~Handed(D, p)
      OBVIOUS
    <3>1. PICK i \in rest : pending[i].op = p
      BY <1>17
    <3>2. i \in 1..Len(pending) /\ i \notin due
      BY <1>1, <1>8
    <3>3. \A j \in due : pending[j].op # p
      BY <1>1, <1>9, <3>1, <3>2
    <3> QED BY <1>16, <3>1, <3>2, <3>3 DEF Pends
  <2>2. Pends(p) /\ ~Handed(D, p) => Pends(p)'
    <3> SUFFICES ASSUME Pends(p), ~Handed(D, p) PROVE Pends(p)'
      OBVIOUS
    <3>1. PICK i \in 1..Len(pending) : pending[i].op = p
      BY DEF Pends
    <3> QED BY <1>8, <1>16, <1>17, <3>1
  <2> QED BY <2>1, <2>2
<1> QED BY <1>2, <1>4, <1>12, <1>13, <1>14, <1>15, <1>18, <1>19 DEF D, c

\* The paused clock is advanced: the timers whose time has come are handed over.
LEMMA AdvanceStep ==
  ASSUME LoopInv, NEW n \in 1..MaxAdvance, Advance(n)
  PROVE  LoopInv'
<1>h. TypeOK /\ Single /\ PendingLater
  BY DEF LoopInv
<1>1. PICK due : due = DueAt(n)
  OBVIOUS
<1>2. n \in Nat /\ MaxAdvance \in Nat /\ advanced \in Nat
  BY <1>h, EventLoopAssumption DEF TypeOK
<1> DEFINE D == Picked(pending, due)
           left == [k \in 1..Cardinality(due) |-> 0]
<1>3. /\ Cardinality(due) \in Nat /\ Len(D) = Cardinality(due)
      /\ D \in Seq([op : Ops, ns : Nat]) /\ pending' \in Seq([op : Ops, ns : Nat])
      /\ \A i, j \in 1..Len(D) : D[i].op = D[j].op => i = j
      /\ \A i, j \in 1..Len(pending') : pending'[i].op = pending'[j].op => i = j
      /\ \A k \in 1..Len(pending') :
           \E i \in 1..Len(pending) : /\ pending'[k] = pending[i]
                                      /\ ~(advanced + n >= pending[i].ns)
      /\ \A p : Handed(D, p) => Pends(p)
      /\ \A p : Pends(p)' <=> Pends(p) /\ ~Handed(D, p)
  <2>1. /\ Cardinality(due) \in Nat /\ Len(Picked(pending, due)) = Cardinality(due)
        /\ Picked(pending, due) \in Seq([op : Ops, ns : Nat])
        /\ pending' \in Seq([op : Ops, ns : Nat])
        /\ \A i, j \in 1..Cardinality(due) :
             Picked(pending, due)[i].op = Picked(pending, due)[j].op => i = j
        /\ \A i, j \in 1..Len(pending') : pending'[i].op = pending'[j].op => i = j
        /\ \A k \in 1..Len(pending') :
             \E i \in 1..Len(pending) : /\ pending'[k] = pending[i]
                                        /\ ~(advanced + n >= pending[i].ns)
        /\ \A p : Handed(Picked(pending, due), p) => Pends(p)
        /\ \A p : Pends(p)' <=> Pends(p) /\ ~Handed(Picked(pending, due), p)
    BY ONLY <1>h, <1>1, <1>2, Advance(n), AdvanceFacts
  <2> QED BY ONLY <2>1 DEF D
<1>4. Hand(D, left)
  BY <1>1 DEF Advance, DueAt
<1> HIDE DEF D
<1>5. left \in [1..Len(D) -> Nat]
  BY <1>3
<1> HIDE DEF left
<1>6. /\ async' = TRUE /\ advanced' = advanced + n /\ advanced + n <= MaxAdvance /\ Elapse(n)
      /\ UNCHANGED <<phase, paused, caller, trigger, handler>>
  BY <1>4 DEF Advance, Hand
<1>7. PendingLater'
  <2> SUFFICES ASSUME NEW k \in 1..Len(pending') PROVE pending'[k].ns >= advanced'
    BY DEF PendingLater
  <2>1. PICK i \in 1..Len(pending) : pending'[k] = pending[i] /\ ~(advanced + n >= pending[i].ns)
    BY <1>3
  <2>2. pending[i].ns \in Nat
    BY <1>h, EntryFacts
  <2> QED BY <1>2, <1>6, <2>1, <2>2
<1>8. elapsed' \in [Ops -> Nat]
  BY <1>h, <1>2, <1>6, ElapseFacts
<1>9. advanced' \in 0..MaxAdvance
  BY <1>2, <1>6
<1>10. paused' \in BOOLEAN /\ async' \in BOOLEAN
  BY <1>h, <1>6 DEF TypeOK
<1> QED BY <1>3, <1>4, <1>5, <1>6, <1>7, <1>8, <1>9, <1>10, HandStep

\* A millisecond passes for the timers that libuv has.
LEMMA TickFacts ==
  ASSUME TypeOK, Tick
  PROVE  /\ op' \in [Ops -> Continuations]
         /\ \A p \in Ops : SameShape(op'[p], op[p]) /\ op'[p].ns = op[p].ns
         /\ \A p \in ActiveTimers : op[p].left > 0 /\ op'[p].left = op[p].left - 1
         /\ \A p \in Ops : p \notin ActiveTimers => op'[p] = op[p]
         /\ elapsed' \in [Ops -> Nat]
<1>1. op \in [Ops -> Continuations] /\ elapsed \in [Ops -> Nat] /\ Milli \in Nat
  BY EventLoopAssumption DEF TypeOK
<1>2. ASSUME NEW p \in Ops, p \notin ActiveTimers PROVE op'[p] = op[p]
  BY <1>2 DEF Tick
<1>3. ASSUME NEW p \in Ops, p \in ActiveTimers
      PROVE  /\ op'[p] \in Continuations /\ SameShape(op'[p], op[p]) /\ op'[p].ns = op[p].ns
             /\ op[p].left > 0 /\ op'[p].left = op[p].left - 1
  <2>1. op[p] \in Continuations /\ op[p].left \in Nat /\ op[p].left > 0
    BY <1>1, <1>3 DEF Tick, Continuations
  <2>2. PICK n \in Nat : n = op[p].left - 1
    BY <2>1
  <2>3. op'[p] = [op[p] EXCEPT !.left = n]
    BY <1>3, <2>2 DEF Tick
  <2>4. /\ op'[p] \in Continuations /\ SameShape(op'[p], op[p])
        /\ op'[p].left = n /\ op'[p].ns = op[p].ns
    BY ONLY <2>1, <2>3, n \in Nat, LeftFields
  <2> QED BY <2>1, <2>2, <2>4
<1>4. \A p \in Ops : op'[p] \in Continuations /\ SameShape(op'[p], op[p]) /\ op'[p].ns = op[p].ns
  <2>1. \A p \in Ops : p \notin ActiveTimers => SameShape(op'[p], op[p])
    BY <1>2 DEF SameShape
  <2> QED BY <1>1, <1>2, <1>3, <2>1
<1>5. op' = [p \in Ops |-> op'[p]]
  BY DEF Tick
<1>6. op' \in [Ops -> Continuations]
  BY ONLY <1>4, <1>5
<1>7. elapsed' \in [Ops -> Nat]
  BY <1>1, ElapseFacts DEF Tick
<1>8. \A p \in ActiveTimers : p \in Ops
  BY DEF ActiveTimers, Timers
<1> QED BY <1>2, <1>3, <1>4, <1>6, <1>7, <1>8

-----------------------------------------------------------------------------
(* The invariant holds.                                                    *)

\* The members of a continuation as it is constructed.
LEMMA FreshFields ==
  ASSUME NEW o \in Ops, NEW k \in {"timer", "signal", "poll", "schedule"}
  PROVE  /\ Fresh(o, k) \in Continuations /\ Shaped(Fresh(o, k)) /\ Fresh(o, k).kind = k
         /\ ~Fresh(o, k).started /\ ~Fresh(o, k).completed /\ Fresh(o, k).finals = 0
         /\ ~Fresh(o, k).turn /\ Fresh(o, k).uv = "none" /\ ~Fresh(o, k).destructed
         /\ Fresh(o, k).out = "none" /\ Fresh(o, k).ns = Duration[o]
<1>1. Duration[o] \in Nat
  BY EventLoopAssumption
<1>2. Fresh(o, k) \in Continuations
  BY <1>1 DEF Fresh, Continuations
<1> QED BY <1>2 DEF Fresh, Shaped

LEMMA InitOK ==
  ASSUME Init
  PROVE  LoopInv
<1>1. PICK k \in Kinds : op = [o \in Ops |-> Fresh(o, k[o])]
  BY DEF Init
<1>2. \A o \in Ops : k[o] \in {"timer", "signal", "poll", "schedule"}
  BY EventLoopAssumption
<1>3. ASSUME NEW o \in Ops
      PROVE  /\ op[o] \in Continuations /\ Shaped(op[o])
             /\ ~op[o].started /\ ~op[o].completed /\ op[o].finals = 0
             /\ ~op[o].turn /\ op[o].uv = "none" /\ ~op[o].destructed
  <2>1. op[o] = Fresh(o, k[o])
    BY <1>1
  <2> QED BY <1>2, <2>1, FreshFields
<1>4. op \in [Ops -> Continuations]
  BY <1>1, <1>3
<1>5. /\ waiters \in Seq(Submissions) /\ Len(waiters) = 0
      /\ pending \in Seq([op : Ops, ns : Nat]) /\ Len(pending) = 0
  BY EmptySeq DEF Init
<1>6. (\A p, w : ~Submitted(p, w)) /\ (\A p : ~Pends(p)) /\ (\A p : ~Listed(p))
  BY <1>5 DEF Submitted, Pends, Listed
<1>7. TypeOK
  <2>1. advanced \in 0..MaxAdvance
    BY EventLoopAssumption DEF Init
  <2> QED BY <1>4, <1>5, <2>1 DEF Init, TypeOK
<1>8. Single /\ PendingLater
  BY <1>5 DEF Single, PendingLater
<1>9. ASSUME NEW o \in Ops PROVE OpOK(o)
  <2>1. /\ caller[o].at = "idle" /\ caller[o].what = "none" /\ trigger[o] = "none"
        /\ handler[o] \in {"none", "registered"}
        /\ handler[o] # "none" => op[o].kind # "schedule"
    BY DEF Init, Handles
  <2>2. Formed(o)
    BY <1>3 DEF Formed
  <2>3. HadByOne(o)
    BY <1>3, <1>6 DEF HadByOne
  <2>4. SubmittedFits(o)
    BY <1>3, <1>6, <2>1 DEF SubmittedFits
  <2>5. HandledOnce(o)
    BY <1>3, <1>6, <2>1 DEF HandledOnce
  <2>6. ArmedStarts(o)
    BY <1>6, <2>1 DEF ArmedStarts, Armed
  <2> QED BY <2>2, <2>3, <2>4, <2>5, <2>6 DEF OpOK
<1> QED BY <1>7, <1>8, <1>9 DEF LoopInv

\* The phases of the loop, the end of a run and Pause.
LEMMA GoesOnStep ==
  ASSUME LoopInv,
         Run \/ TimersRun \/ PollReturns \/ PollNoWait \/ CheckReturns \/ RunAgain \/ Pause
  PROVE  LoopInv'
<1>h. TypeOK
  BY DEF LoopInv
<1>1. UNCHANGED <<waiters, pending, caller, trigger, handler, op, elapsed>>
  BY DEF Run, TimersRun, PollReturns, PollNoWait, CheckReturns, RunAgain, Pause, clockVars, loopVars
<1>2. PhaseOK
  <2>1. phase \in {"out", "timers", "poll", "check", "closing"}
    BY <1>h DEF TypeOK
  <2> QED BY <2>1 DEF Run, TimersRun, PollReturns, PollNoWait, CheckReturns, RunAgain, Pause,
                      loopVars, Go, PhaseOK
<1>3. async' \in BOOLEAN /\ paused' \in BOOLEAN
  BY <1>h DEF Run, TimersRun, PollReturns, PollNoWait, CheckReturns, RunAgain, Pause, clockVars,
              loopVars, TypeOK
<1>4. advanced' \in 0..MaxAdvance /\ advanced' <= advanced
  <2>1. advanced \in Nat /\ MaxAdvance \in Nat /\ advanced <= MaxAdvance
    BY <1>h, EventLoopAssumption DEF TypeOK
  <2>2. advanced' = advanced \/ advanced' = 0
    BY DEF Run, TimersRun, PollReturns, PollNoWait, CheckReturns, RunAgain, Pause, clockVars
  <2> QED BY <2>1, <2>2
<1>5. /\ op' \in [Ops -> Continuations] /\ \A p \in Ops : SameShape(op'[p], op[p])
      /\ elapsed' \in [Ops -> Nat]
  BY <1>h, <1>1 DEF TypeOK, SameShape
<1> QED BY <1>1, <1>2, <1>3, <1>4, <1>5, QuietStep

\* A millisecond passes.
LEMMA TickStep ==
  ASSUME LoopInv, Tick
  PROVE  LoopInv'
<1>h. TypeOK
  BY DEF LoopInv
<1>1. UNCHANGED <<waiters, async, phase, paused, advanced, pending, caller, trigger, handler>>
  BY DEF Tick, clockVars, loopVars
<1>2. /\ op' \in [Ops -> Continuations] /\ \A p \in Ops : SameShape(op'[p], op[p])
      /\ elapsed' \in [Ops -> Nat]
  BY <1>h, TickFacts
<1>3. PhaseOK /\ async' \in BOOLEAN /\ paused' \in BOOLEAN
  BY <1>h, <1>1 DEF TypeOK, PhaseOK
<1>4. advanced' \in 0..MaxAdvance /\ advanced' <= advanced
  BY <1>h, <1>1, EventLoopAssumption DEF TypeOK
<1> QED BY <1>1, <1>2, <1>3, <1>4, QuietStep

LEMMA NextOK ==
  ASSUME LoopInv, [Next]_vars
  PROVE  LoopInv'
<1>1. ASSUME NEW o \in Ops, CallerStep(o) PROVE LoopInv'
  BY <1>1, StartStep, FailsStep, ScheduleStep, ClockSubmitStep, ClockPendStep, PushStep, SendStep,
     AskStep DEF CallerStep
<1>2. ASSUME NEW o \in Ops, Signalled(o) \/ Polled(o) PROVE LoopInv'
  BY <1>2, SignalledStep, PolledStep
<1>3. ASSUME NEW o \in Handles, TriggerStep(o) \/ Trigger(o) \/ Destruct(o) PROVE LoopInv'
  BY <1>3, TriggerPushStep, TriggerSendStep, TriggerStepOK, DestructStep DEF TriggerStep, Handles
<1>4. CASE ClockStep
  BY <1>4, GoesOnStep, ResumeStep, AdvanceStep DEF ClockStep
<1>5. CASE LoopStep
  <2>1. ASSUME NEW t \in Timers, Fire(t) PROVE LoopInv'
    BY <2>1, FireStep DEF Timers
  <2>2. ASSUME NEW o \in Handles, Closed(o) PROVE LoopInv'
    BY <2>2, ClosedStep DEF Handles
  <2> QED BY <1>5, <2>1, <2>2, GoesOnStep, CheckStep DEF LoopStep
<1>6. CASE UNCHANGED vars
  <2>1. UNCHANGED <<waiters, async, phase, paused, advanced, pending, caller, trigger, handler,
                    op, elapsed>>
    BY <1>6 DEF vars, loopVars, clockVars
  <2>2. TypeOK /\ \A p \in Ops : SameShape(op'[p], op[p])
    BY <2>1 DEF LoopInv, SameShape
  <2>3. advanced' <= advanced
    BY <2>1, <2>2, EventLoopAssumption DEF TypeOK
  <2> QED BY <2>1, <2>2, <2>3, QuietStep DEF TypeOK, PhaseOK
<1> QED BY <1>1, <1>2, <1>3, <1>4, <1>5, <1>6, TickStep, GoesOnStep DEF Next

\* The inductive invariant holds, for any operations of any kinds and durations, any
\* interrupts and a clock that is paused, advanced and resumed at any time: where
\* the context of an operation is, what is submitted for it, how far it is and
\* whether its interrupt may still come agree.
THEOREM LoopInvariant == Spec => []LoopInv
BY InitOK, NextOK, PTL DEF Spec

\* The continuation of an operation is called once, and only after libuv has given
\* its handle back (completed_ and closed_ of _Timer, _WaitForSignal and _Poll).
THEOREM LoopContinuedOnce == Spec => []ContinuedOnce
<1>1. LoopInv => ContinuedOnce
  BY DEF LoopInv, OpOK, Formed, Shaped, Gone, ContinuedOnce
<1> QED BY <1>1, LoopInvariant, PTL

\* The CHECKs of the callbacks hold in every order of the caller's and the
\* interrupt's submissions, and no context is submitted twice (event-loop.h:421,
\* 257, 392; event-loop.cc:269).
THEOREM LoopCallbackChecksHold == Spec => []CallbackChecksHold
<1>1. ASSUME LoopInv PROVE CallbackChecksHold
  <2>h. TypeOK /\ Single /\ \A p \in Ops : OpOK(p)
    BY <1>1 DEF LoopInv
  <2>d. DOMAIN waiters = 1..Len(waiters)
    BY <2>h, EntryFacts
  <2>1. ASSUME NEW i \in 1..Len(waiters)
        PROVE  /\ waiters[i].op \in Ops /\ waiters[i].what \in Callbacks
               /\ Submitted(waiters[i].op, waiters[i].what) /\ OpOK(waiters[i].op)
    BY <2>h, EntryFacts DEF Submitted
  <2>2. ASSUME NEW i \in 1..Len(waiters)
        PROVE  /\ (waiters[i].what = "interrupt" /\ ~op[waiters[i].op].started)
                    => ~op[waiters[i].op].completed
               /\ (waiters[i].what \in {"start", "fail", "stop"} /\ ~op[waiters[i].op].completed)
                    => ~op[waiters[i].op].started
    <3>1. PICK o \in Ops, w \in Callbacks :
            o = waiters[i].op /\ w = waiters[i].what /\ Submitted(o, w) /\ OpOK(o)
      BY <2>1
    <3>2. w = "interrupt" => op[o].started \/ ~op[o].completed
      BY <3>1 DEF OpOK, ArmedStarts, Armed
    <3>3. w \in {"start", "fail", "stop"} => ~op[o].started
      BY <3>1 DEF OpOK, SubmittedFits, Fits
    <3> QED BY <3>1, <3>2, <3>3
  <2>3. ASSUME NEW i \in 1..Len(waiters), NEW j \in 1..Len(waiters), i # j,
               waiters[j].op = waiters[i].op
        PROVE  "interrupt" \in {waiters[i].what, waiters[j].what}
    BY <2>h, <2>3 DEF Single
  <2>4. ASSUME NEW o \in Ops, caller[o].at = "submit", NEW i \in 1..Len(waiters),
               waiters[i].op = o
        PROVE  waiters[i].what = "interrupt"
    <3>1. waiters[i].what \in Callbacks /\ Submitted(o, waiters[i].what)
      BY <2>1, <2>4
    <3>2. ~Listed(o)
      BY <2>h, <2>4 DEF OpOK, HadByOne, Calling
    <3> QED BY <3>1, <3>2 DEF Listed
  <2> QED BY <2>d, <2>2, <2>3, <2>4 DEF CallbackChecksHold
<1> QED BY <1>1, LoopInvariant, PTL

-----------------------------------------------------------------------------
(* Time.  Without Racing the clock is paused only while no timer is         *)
(* outstanding, so that what a timer has left is what its duration says.    *)

\* The timer is to be started by the loop.
Waits(t) ==
  \/ caller[t].at = "submit" /\ caller[t].what = "start"
  \/ Submitted(t, "start")

\* What a handle of libuv has left to run, with the millisecond it may be short of.
Remaining(left) == left * Milli + Milli

\* The duration has passed, but for less than a millisecond.
Over(t) == elapsed[t] + Milli > Duration[t]

\* Wherever a timer is, what it has run for and what it has left make its duration.
Timely(t) ==
  /\ op[t].out = "start" => Over(t)
  /\ op[t].uv = "closing" /\ op[t].then = "start" => Over(t)
  /\ caller[t].at \in {"idle", "clock", "pend"} => op[t].ns = Duration[t]
  /\ caller[t].at = "pend" \/ Pends(t) => paused
  /\ op[t].finals = 0 /\ Waits(t) =>
       IF paused THEN elapsed[t] >= Duration[t] ELSE elapsed[t] + op[t].ns >= Duration[t]
  /\ op[t].uv = "active" =>
       IF paused THEN elapsed[t] >= Duration[t]
       ELSE elapsed[t] + Remaining(op[t].left) > Duration[t]
  /\ \A i \in 1..Len(pending) :
       pending[i].op = t /\ op[t].finals = 0 =>
         elapsed[t] + pending[i].ns >= Duration[t] + advanced

TimeInv == \A t \in Ops : op[t].kind = "timer" => Timely(t)

LEMMA RemainingFacts ==
  /\ Milli \in Nat /\ Milli > 0 /\ Remaining(0) = Milli
  /\ \A n \in Nat : Remaining(n) \in Nat
  /\ \A n \in Nat : n > 0 => Remaining(n) = Remaining(n - 1) + Milli
  /\ \A n \in Nat : n \div Milli \in Nat /\ n < Remaining(n \div Milli)
<1>1. Milli \in Nat /\ Milli > 0
  BY EventLoopAssumption
<1>2. Remaining(0) = Milli
  BY <1>1 DEF Remaining
<1>3. ASSUME NEW n \in Nat PROVE Remaining(n) \in Nat
  BY <1>1 DEF Remaining
<1>4. ASSUME NEW n \in Nat, n > 0 PROVE Remaining(n) = Remaining(n - 1) + Milli
  BY <1>1, <1>4 DEF Remaining
<1>5. ASSUME NEW n \in Nat PROVE n \div Milli \in Nat /\ n < Remaining(n \div Milli)
  BY WholeMillis DEF Remaining
<1> QED BY <1>1, <1>2, <1>3, <1>4, <1>5

\* The numbers that are compared.
LEMMA TimeTypes ==
  ASSUME TypeOK, NEW t \in Ops
  PROVE  /\ elapsed[t] \in Nat /\ Duration[t] \in Nat /\ op[t].ns \in Nat /\ op[t].left \in Nat
         /\ op[t].finals \in Nat /\ advanced \in Nat /\ Milli \in Nat /\ Milli > 0
         /\ Remaining(op[t].left) \in Nat /\ paused \in BOOLEAN
         /\ \A i \in 1..Len(pending) : pending[i].ns \in Nat
<1>1. op[t] \in Continuations
  BY DEF TypeOK
<1>2. op[t].ns \in Nat /\ op[t].left \in Nat /\ op[t].finals \in Nat
  BY <1>1 DEF Continuations
<1>3. elapsed[t] \in Nat /\ Duration[t] \in Nat /\ advanced \in Nat /\ paused \in BOOLEAN
  BY EventLoopAssumption DEF TypeOK
<1> QED BY <1>2, <1>3, RemainingFacts, EntryFacts

\* A timer stays timely when it is left alone, or only ends, while time passes.
Eased(t) ==
  /\ op'[t].kind = op[t].kind /\ op'[t].ns = op[t].ns
  /\ op'[t].out = "start" => op[t].out = "start"
  /\ op'[t].uv = "closing" /\ op'[t].then = "start" => op[t].uv = "closing" /\ op[t].then = "start"
  /\ op'[t].uv = "active" => op[t].uv = "active" /\ op'[t].left = op[t].left
  /\ op'[t].finals = 0 => op[t].finals = 0
  /\ caller'[t].at \in {"idle", "clock", "pend"} => caller[t].at \in {"idle", "clock", "pend"}
  /\ caller'[t].at = "pend" => caller[t].at = "pend" \/ paused
  /\ Waits(t)' => Waits(t)
  /\ Pends(t)' => Pends(t)
  /\ elapsed'[t] >= elapsed[t]

\* What is pending of it was pending before.
KeepsPending(t) ==
  \A i \in 1..Len(pending') :
    pending'[i].op = t => \E j \in 1..Len(pending) : pending'[i] = pending[j]

LEMMA EasedTimely ==
  ASSUME NEW t \in Ops, TypeOK, TypeOK', Timely(t), Eased(t),
         paused' = paused, advanced' = advanced, KeepsPending(t)
  PROVE  Timely(t)'
<1>1. /\ elapsed[t] \in Nat /\ Duration[t] \in Nat /\ op[t].ns \in Nat /\ advanced \in Nat
      /\ Milli \in Nat /\ Remaining(op[t].left) \in Nat
      /\ \A i \in 1..Len(pending) : pending[i].ns \in Nat
  BY TimeTypes
<1>2. elapsed'[t] \in Nat /\ elapsed'[t] >= elapsed[t]
  BY DEF Eased, TypeOK
<1>3. Over(t) => Over(t)'
  BY <1>1, <1>2 DEF Over
<1>4. op'[t].out = "start" => Over(t)'
  BY <1>3 DEF Eased, Timely
<1>5. op'[t].uv = "closing" /\ op'[t].then = "start" => Over(t)'
  BY <1>3 DEF Eased, Timely
<1>6. caller'[t].at \in {"idle", "clock", "pend"} => op'[t].ns = Duration[t]
  BY DEF Eased, Timely
<1>7. caller'[t].at = "pend" \/ Pends(t)' => paused'
  BY DEF Eased, Timely
<1>8. op'[t].finals = 0 /\ Waits(t)' =>
        IF paused' THEN elapsed'[t] >= Duration[t] ELSE elapsed'[t] + op'[t].ns >= Duration[t]
  BY <1>1, <1>2 DEF Eased, Timely
<1>9. op'[t].uv = "active" =>
        IF paused' THEN elapsed'[t] >= Duration[t]
        ELSE elapsed'[t] + Remaining(op'[t].left) > Duration[t]
  <2> SUFFICES ASSUME op'[t].uv = "active"
               PROVE  IF paused' THEN elapsed'[t] >= Duration[t]
                      ELSE elapsed'[t] + Remaining(op'[t].left) > Duration[t]
    OBVIOUS
  <2>1. op[t].uv = "active" /\ op'[t].left = op[t].left
    BY DEF Eased
  <2>2. Remaining(op'[t].left) = Remaining(op[t].left)
    BY <2>1
  <2>3. IF paused THEN elapsed[t] >= Duration[t] ELSE elapsed[t] + Remaining(op[t].left) > Duration[t]
    BY <2>1 DEF Timely
  <2> QED BY ONLY <1>1, <1>2, <2>2, <2>3, paused' = paused
<1>10. ASSUME NEW i \in 1..Len(pending'), pending'[i].op = t, op'[t].finals = 0
       PROVE  elapsed'[t] + pending'[i].ns >= Duration[t] + advanced'
  <2>1. op[t].finals = 0
    BY <1>10 DEF Eased
  <2>3. PICK j \in 1..Len(pending) : pending'[i] = pending[j]
    BY <1>10 DEF KeepsPending
  <2>2. elapsed[t] + pending'[i].ns >= Duration[t] + advanced /\ pending'[i].ns \in Nat
    BY <1>1, <1>10, <2>1, <2>3 DEF Timely
  <2> QED BY SMTT(20), <1>1, <1>2, <2>2
<1> QED BY <1>4, <1>5, <1>6, <1>7, <1>8, <1>9, <1>10 DEF Timely

\* It is enough to look at the timer that a step is about.
LEMMA TimeStepOf ==
  ASSUME TypeOK, TypeOK', TimeInv, NEW o \in Ops, paused' = paused, advanced' = advanced,
         \A t \in Ops : t # o =>
           /\ caller'[t] = caller[t] /\ op'[t] = op[t] /\ elapsed'[t] = elapsed[t]
           /\ Submitted(t, "start")' => Submitted(t, "start")
           /\ Pends(t)' => Pends(t)
           /\ KeepsPending(t),
         op'[o].kind = op[o].kind, op[o].kind = "timer" => Timely(o)'
  PROVE  TimeInv'
<1> SUFFICES ASSUME NEW t \in Ops, t # o, op[t].kind = "timer" PROVE Timely(t)'
  BY DEF TimeInv
<1>1. elapsed'[t] >= elapsed[t]
  BY DEF TypeOK
<1>2. Eased(t)
  BY <1>1 DEF Eased, Waits
<1> QED BY <1>2, EasedTimely DEF TimeInv

\* ... and it is timely if it is at most eased.
LEMMA EasedStep ==
  ASSUME TypeOK, TypeOK', TimeInv, NEW o \in Ops,
         \A t \in Ops : t # o =>
           /\ caller'[t] = caller[t] /\ op'[t] = op[t]
           /\ Submitted(t, "start")' => Submitted(t, "start"),
         op'[o].kind = op[o].kind, op[o].kind = "timer" => Eased(o),
         UNCHANGED <<paused, advanced, pending, elapsed>>
  PROVE  TimeInv'
<1>1. \A t \in Ops : KeepsPending(t) /\ (Pends(t)' => Pends(t))
  BY DEF KeepsPending, Pends
<1>2. op[o].kind = "timer" => Timely(o)'
  BY <1>1, EasedTimely DEF TimeInv
<1> QED BY <1>1, <1>2, TimeStepOf

\* Start.
LEMMA StartTime ==
  ASSUME LoopInv, LoopInv', TimeInv, NEW o \in Ops, Start(o)
  PROVE  TimeInv'
<1> USE DEF loopVars, clockVars
<1>h. TypeOK /\ TypeOK' /\ Single /\ OpOK(o)
  BY DEF LoopInv
<1>u. UNCHANGED <<paused, advanced, pending, elapsed, op>>
  BY DEF Start
<1>e. elapsed'[o] >= elapsed[o]
  BY <1>h, <1>u DEF TypeOK
<1>s. (\A p, w : Submitted(p, w)' <=> Submitted(p, w)) /\ (\A p : Pends(p)' <=> Pends(p))
  BY SameLists DEF Start
<1>c. /\ caller[o].at = "idle" /\ \A t \in Ops : t # o => caller'[t] = caller[t]
      /\ caller'[o].at \in {"clock", "submit"}
      /\ op[o].kind = "timer" => ~(caller'[o].at = "submit" /\ caller'[o].what = "start")
  BY <1>h DEF Start, Call, TypeOK, Timers
<1>9. op[o].kind = "timer" => Eased(o)
  BY <1>s, <1>c, <1>e, <1>u DEF Eased, Waits
<1> QED BY <1>h, <1>u, <1>s, <1>c, <1>9, EasedStep

\* Fail and Stop.
LEMMA FailsTime ==
  ASSUME LoopInv, LoopInv', TimeInv, NEW o \in Ops, Fails(o)
  PROVE  TimeInv'
<1> USE DEF loopVars, clockVars
<1>h. TypeOK /\ TypeOK' /\ Single /\ OpOK(o)
  BY DEF LoopInv
<1>u. UNCHANGED <<paused, advanced, pending, elapsed, op>>
  BY DEF Fails
<1>e. elapsed'[o] >= elapsed[o]
  BY <1>h, <1>u DEF TypeOK
<1>s. (\A p, w : Submitted(p, w)' <=> Submitted(p, w)) /\ (\A p : Pends(p)' <=> Pends(p))
  BY SameLists DEF Fails
<1>c. /\ caller[o].at = "idle" /\ \A t \in Ops : t # o => caller'[t] = caller[t]
      /\ caller'[o].at = "submit" /\ caller'[o].what # "start"
  BY <1>h DEF Fails, Call, TypeOK
<1>9. op[o].kind = "timer" => Eased(o)
  BY <1>s, <1>c, <1>e, <1>u DEF Eased, Waits
<1> QED BY <1>h, <1>u, <1>s, <1>c, <1>9, EasedStep

\* The loop is told.
LEMMA SendTime ==
  ASSUME LoopInv, LoopInv', TimeInv, NEW o \in Ops, Send(o)
  PROVE  TimeInv'
<1> USE DEF loopVars, clockVars
<1>h. TypeOK /\ TypeOK' /\ Single /\ OpOK(o)
  BY DEF LoopInv
<1>u. UNCHANGED <<paused, advanced, pending, elapsed, op>>
  BY DEF Send
<1>e. elapsed'[o] >= elapsed[o]
  BY <1>h, <1>u DEF TypeOK
<1>s. (\A p, w : Submitted(p, w)' <=> Submitted(p, w)) /\ (\A p : Pends(p)' <=> Pends(p))
  BY SameLists DEF Send
<1>c. /\ \A t \in Ops : t # o => caller'[t] = caller[t]
      /\ caller'[o].at = "gone"
  BY <1>h DEF Send, Call, TypeOK
<1>9. op[o].kind = "timer" => Eased(o)
  BY <1>s, <1>c, <1>e, <1>u DEF Eased, Waits
<1> QED BY <1>h, <1>u, <1>s, <1>c, <1>9, EasedStep

\* The context is submitted.
LEMMA PushTime ==
  ASSUME LoopInv, LoopInv', TimeInv, NEW o \in Ops, Push(o)
  PROVE  TimeInv'
<1> USE DEF loopVars, clockVars
<1>h. TypeOK /\ TypeOK' /\ Single /\ OpOK(o)
  BY DEF LoopInv
<1>u. UNCHANGED <<paused, advanced, pending, elapsed, op>>
  BY DEF Push
<1>e. elapsed'[o] >= elapsed[o]
  BY <1>h, <1>u DEF TypeOK
<1>c. /\ \A t \in Ops : t # o => caller'[t] = caller[t]
      /\ caller'[o].at = "send" /\ caller[o].at = "submit"
  BY <1>h DEF Push, Call, TypeOK
<1>1. /\ ~Listed(o) /\ caller[o].what # "none" /\ caller[o].what # "interrupt"
      /\ caller[o].what \in Callbacks
  <2>1. ~Listed(o) /\ caller[o].what # "none"
    BY <1>h, <1>c DEF OpOK, HadByOne, Calling, SubmittedFits
  <2>2. caller[o].what \in {"none", "start", "refused", "fail", "stop", "next", "done"}
    BY <1>h DEF TypeOK
  <2> QED BY <2>1, <2>2 DEF Callbacks
<1>s. /\ \A p, v : Submitted(p, v)' <=> Submitted(p, v) \/ (p = o /\ v = caller[o].what)
      /\ \A p : Pends(p)' <=> Pends(p)
  <2>1. \A p, v : Submitted(p, v)' <=> Submitted(p, v) \/ (p = o /\ v = caller[o].what)
    BY <1>h, <1>1, PushFacts DEF Push
  <2> QED BY <1>u, <2>1 DEF Pends
<1>9. op[o].kind = "timer" => Eased(o)
  BY <1>s, <1>c, <1>e, <1>u DEF Eased, Waits
<1> QED BY <1>h, <1>u, <1>s, <1>c, <1>9, EasedStep

\* The interrupt is triggered.
LEMMA TriggerTime ==
  ASSUME LoopInv, LoopInv', TimeInv, NEW o \in Ops, Trigger(o)
  PROVE  TimeInv'
<1> USE DEF loopVars, clockVars
<1>h. TypeOK /\ TypeOK' /\ Single /\ OpOK(o)
  BY DEF LoopInv
<1>u. UNCHANGED <<paused, advanced, pending, elapsed, op>>
  BY DEF Trigger
<1>e. elapsed'[o] >= elapsed[o]
  BY <1>h, <1>u DEF TypeOK
<1>s. (\A p, w : Submitted(p, w)' <=> Submitted(p, w)) /\ (\A p : Pends(p)' <=> Pends(p))
  BY SameLists DEF Trigger
<1>c. caller' = caller
  BY DEF Trigger
<1>9. op[o].kind = "timer" => Eased(o)
  BY <1>s, <1>c, <1>e, <1>u DEF Eased, Waits
<1> QED BY <1>h, <1>u, <1>s, <1>c, <1>9, EasedStep

\* The loop is told of the interrupt.
LEMMA TriggerSendTime ==
  ASSUME LoopInv, LoopInv', TimeInv, NEW o \in Ops, TriggerSend(o)
  PROVE  TimeInv'
<1> USE DEF loopVars, clockVars
<1>h. TypeOK /\ TypeOK' /\ Single /\ OpOK(o)
  BY DEF LoopInv
<1>u. UNCHANGED <<paused, advanced, pending, elapsed, op>>
  BY DEF TriggerSend
<1>e. elapsed'[o] >= elapsed[o]
  BY <1>h, <1>u DEF TypeOK
<1>s. (\A p, w : Submitted(p, w)' <=> Submitted(p, w)) /\ (\A p : Pends(p)' <=> Pends(p))
  BY SameLists DEF TriggerSend
<1>c. caller' = caller
  BY DEF TriggerSend
<1>9. op[o].kind = "timer" => Eased(o)
  BY <1>s, <1>c, <1>e, <1>u DEF Eased, Waits
<1> QED BY <1>h, <1>u, <1>s, <1>c, <1>9, EasedStep

\* The interrupt_context_ is submitted.
LEMMA TriggerPushTime ==
  ASSUME LoopInv, LoopInv', TimeInv, NEW o \in Ops, TriggerPush(o)
  PROVE  TimeInv'
<1> USE DEF loopVars, clockVars
<1>h. TypeOK /\ TypeOK' /\ Single /\ OpOK(o)
  BY DEF LoopInv
<1>u. UNCHANGED <<paused, advanced, pending, elapsed, op>>
  BY DEF TriggerPush
<1>e. elapsed'[o] >= elapsed[o]
  BY <1>h, <1>u DEF TypeOK
<1>c. caller' = caller
  BY DEF TriggerPush
<1>1. ~Submitted(o, "interrupt") /\ "interrupt" \in Callbacks
  BY <1>h DEF OpOK, HandledOnce, Callbacks, TriggerPush
<1>s. /\ \A p, v : Submitted(p, v)' <=> Submitted(p, v) \/ (p = o /\ v = "interrupt")
      /\ \A p : Pends(p)' <=> Pends(p)
  <2>1. \A p, v : Submitted(p, v)' <=> Submitted(p, v) \/ (p = o /\ v = "interrupt")
    BY <1>h, <1>1, PushFacts DEF TriggerPush
  <2> QED BY <1>u, <2>1 DEF Pends
<1>9. op[o].kind = "timer" => Eased(o)
  BY <1>s, <1>c, <1>e, <1>u DEF Eased, Waits
<1> QED BY <1>h, <1>u, <1>s, <1>c, <1>9, EasedStep

\* A timer goes to the loop with its duration, or to the paused clock.
LEMMA ClockSubmitTime ==
  ASSUME LoopInv, LoopInv', TimeInv, NEW o \in Ops, ClockSubmit(o)
  PROVE  TimeInv'
<1> USE DEF loopVars, clockVars
<1>h. TypeOK /\ TypeOK' /\ Single /\ OpOK(o)
  BY DEF LoopInv
<1>u. UNCHANGED <<paused, advanced, pending, elapsed, op>>
  BY DEF ClockSubmit
<1>e. elapsed'[o] >= elapsed[o]
  BY <1>h, <1>u DEF TypeOK
<1>s. (\A p, w : Submitted(p, w)' <=> Submitted(p, w)) /\ (\A p : Pends(p)' <=> Pends(p))
  BY SameLists DEF ClockSubmit
<1>c. /\ \A t \in Ops : t # o => caller'[t] = caller[t]
      /\ caller[o].at = "clock" /\ caller'[o].at = (IF paused THEN "pend" ELSE "submit")
  BY <1>h DEF ClockSubmit, Call, TypeOK
<1>1. CASE paused
  <2>1. op[o].kind = "timer" => Eased(o)
    BY <1>s, <1>c, <1>e, <1>u, <1>1 DEF Eased, Waits
  <2> QED BY <1>h, <1>u, <1>s, <1>c, <2>1, EasedStep
<1>2. CASE ~paused
  <2>1. /\ elapsed[o] \in Nat /\ Duration[o] \in Nat /\ elapsed'[o] = elapsed[o] /\ op'[o] = op[o]
        /\ paused' = paused
    BY <1>h, <1>u, TimeTypes
  <2>2. op[o].kind = "timer" => Timely(o)'
    <3> SUFFICES ASSUME Timely(o) PROVE Timely(o)'
      BY DEF TimeInv
    <3>1. op[o].ns = Duration[o]
      BY <1>c DEF Timely
    <3>2. elapsed'[o] + op'[o].ns >= Duration[o]
      BY <2>1, <3>1
    <3>3. Over(o)' <=> Over(o)
      BY <2>1 DEF Over
    <3> QED BY <1>2, <1>c, <1>s, <1>u, <2>1, <3>1, <3>2, <3>3 DEF Timely
  <2>3. \A t \in Ops : KeepsPending(t)
    BY <1>u DEF KeepsPending
  <2> QED BY <1>h, <1>u, <1>s, <1>c, <2>2, <2>3, TimeStepOf
<1> QED BY <1>1, <1>2

\* A timer is put on the list of the paused clock, to wait for its duration.
LEMMA ClockPendTime ==
  ASSUME LoopInv, LoopInv', TimeInv, NEW o \in Ops, ClockPend(o)
  PROVE  TimeInv'
<1> USE DEF loopVars, clockVars
<1>h. TypeOK /\ TypeOK' /\ Single /\ OpOK(o)
  BY DEF LoopInv
<1>u. UNCHANGED <<paused, advanced, elapsed, op, waiters>>
  BY DEF ClockPend
<1>c. /\ \A t \in Ops : t # o => caller'[t] = caller[t]
      /\ caller[o].at = "pend" /\ caller'[o].at = "gone"
  BY <1>h DEF ClockPend, Call, TypeOK
<1>1. /\ elapsed[o] \in Nat /\ Duration[o] \in Nat /\ op[o].ns \in Nat /\ advanced \in Nat
      /\ op[o].ns + advanced \in Nat /\ op[o].ns + advanced >= advanced
  <2>1. /\ elapsed[o] \in Nat /\ Duration[o] \in Nat /\ op[o].ns \in Nat /\ advanced \in Nat
    BY <1>h, TimeTypes
  <2> QED BY <2>1
<1>2. ~Pends(o) /\ ~Listed(o) /\ PendingLater
  BY <1>h, <1>c DEF OpOK, HadByOne, Calling, LoopInv
<1>3. /\ \A p : Pends(p)' <=> Pends(p) \/ p = o
      /\ \A i \in 1..Len(pending') :
           \/ i \in 1..Len(pending) /\ pending'[i] = pending[i]
           \/ pending'[i].op = o /\ pending'[i].ns = op[o].ns + advanced
  BY <1>h, <1>1, <1>2, PendFacts DEF ClockPend
<1>4. \A t \in Ops : t # o => KeepsPending(t)
  BY <1>3 DEF KeepsPending
<1>s. \A p, w : Submitted(p, w)' <=> Submitted(p, w)
  BY <1>u DEF Submitted
<1>5. op[o].kind = "timer" => Timely(o)'
  <2> SUFFICES ASSUME Timely(o) PROVE Timely(o)'
    BY DEF TimeInv
  <2>1. op[o].ns = Duration[o] /\ paused
    BY <1>c DEF Timely
  <2>2. ASSUME NEW i \in 1..Len(pending'), pending'[i].op = o
        PROVE  elapsed'[o] + pending'[i].ns >= Duration[o] + advanced'
    <3>1. pending'[i].ns = op[o].ns + advanced
      BY <1>2, <1>3, <2>2 DEF Pends
    <3> QED BY <1>1, <1>u, <2>1, <3>1
  <2>3. Over(o)' <=> Over(o)
    BY <1>u DEF Over
  <2>4. ~Waits(o)'
    <3>1. ~Submitted(o, "start")
      BY <1>2 DEF Listed, Callbacks
    <3> QED BY <1>c, <1>s, <3>1 DEF Waits
  <2> QED BY <1>c, <1>u, <2>1, <2>2, <2>3, <2>4 DEF Timely
<1> QED BY <1>h, <1>u, <1>c, <1>s, <1>3, <1>4, <1>5, TimeStepOf


\* Schedule and Ask are not about timers.
LEMMA ScheduleTime ==
  ASSUME LoopInv, LoopInv', TimeInv, NEW o \in Ops, Schedule(o)
  PROVE  TimeInv'
<1> USE DEF loopVars, clockVars
<1>h. TypeOK /\ TypeOK'
  BY DEF LoopInv
<1>u. op[o].kind = "schedule" /\ UNCHANGED <<paused, advanced, pending, elapsed>>
  BY DEF Schedule
<1>s. \A p, w : Submitted(p, w)' <=> Submitted(p, w)
  BY SameLists DEF Schedule
<1>c. \A t \in Ops : t # o => caller'[t] = caller[t]
  BY <1>h DEF Schedule, Call, TypeOK
<1>1. op'[o].kind = op[o].kind /\ \A t \in Ops : t # o => op'[t] = op[t]
  <2>1. CASE op' = op
    BY <2>1
  <2>2. ASSUME NEW what \in {"start", "fail", "stop"}, op' = Final(o, what)
        PROVE  op'[o].kind = op[o].kind /\ \A t \in Ops : t # o => op'[t] = op[t]
    BY <1>h, <2>2, FinalFields DEF TypeOK, Calls, Becomes
  <2> QED BY <2>1, <2>2 DEF Schedule
<1> QED BY <1>h, <1>u, <1>s, <1>c, <1>1, EasedStep

LEMMA AskTime ==
  ASSUME LoopInv, LoopInv', TimeInv, NEW o \in Ops, Ask(o)
  PROVE  TimeInv'
<1> USE DEF loopVars, clockVars
<1>h. TypeOK /\ TypeOK' /\ OpOK(o)
  BY DEF LoopInv
<1>u. op[o].turn /\ UNCHANGED <<paused, advanced, pending, elapsed>>
  BY DEF Ask
<1>s. \A p, w : Submitted(p, w)' <=> Submitted(p, w)
  BY SameLists DEF Ask
<1>c. \A t \in Ops : t # o => caller'[t] = caller[t]
  BY <1>h DEF Ask, Call, TypeOK
<1>1. op'[o].kind = op[o].kind /\ \A t \in Ops : t # o => op'[t] = op[t]
  BY <1>h, AskFields DEF Ask, TypeOK, Becomes
<1>2. op[o].kind # "timer"
  BY <1>h, <1>u DEF OpOK, Formed, Shaped, Gone
<1> QED BY <1>h, <1>u, <1>s, <1>c, <1>1, <1>2, EasedStep

\* What is left of a timer that has been destructed says nothing of time.
LEMMA DestructTime ==
  ASSUME LoopInv, LoopInv', TimeInv, NEW o \in Ops, Destruct(o)
  PROVE  TimeInv'
<1> USE DEF loopVars, clockVars
<1>h. TypeOK /\ TypeOK' /\ OpOK(o)
  BY DEF LoopInv
<1>u. /\ UNCHANGED <<paused, advanced, pending, waiters, caller>>
      /\ \A t \in Ops : t # o => elapsed'[t] = elapsed[t]
  BY <1>h DEF Destruct, TypeOK
<1>s. (\A p, w : Submitted(p, w)' <=> Submitted(p, w)) /\ (\A p : Pends(p)' <=> Pends(p))
  BY <1>u, SameLists
<1>c. /\ op[o].finals > 0 /\ ~op[o].destructed /\ caller[o].at = "gone" /\ ~Borrowed(o)
  BY DEF Destruct
<1>1. ~Pends(o) /\ \A w : ~Submitted(o, w)
  BY <1>h, <1>c, EntryFacts DEF Borrowed, Pends, Submitted
<1>2. /\ \A p \in Ops : p # o => op'[p] = op[p]
      /\ op'[o].kind = op[o].kind /\ op'[o].uv = op[o].uv /\ op'[o].out = "none"
  BY <1>h, DestructFields DEF TypeOK, Destruct
<1>3. op[o].uv \in {"none", "closed"}
  BY <1>h, <1>c DEF OpOK, Formed, Shaped
<1>4. \A t \in Ops : KeepsPending(t)
  BY <1>u DEF KeepsPending
<1>5. Timely(o)'
  <2>1. \A i \in 1..Len(pending') : pending'[i].op # o
    BY <1>1, <1>s DEF Pends
  <2>2. ~Waits(o)' /\ ~Pends(o)'
    BY <1>1, <1>c, <1>s, <1>u DEF Waits
  <2>3. caller'[o].at = "gone" /\ op'[o].out # "start" /\ op'[o].uv \notin {"active", "closing"}
    BY <1>c, <1>u, <1>2, <1>3
  <2> QED BY <2>1, <2>2, <2>3 DEF Timely
<1> QED BY <1>h, <1>u, <1>s, <1>2, <1>4, <1>5, TimeStepOf

\* A timer that libuv fires is over.
LEMMA FireTime ==
  ASSUME LoopInv, LoopInv', TimeInv, NEW o \in Ops, op[o].kind = "timer", Fire(o)
  PROVE  TimeInv'
<1> USE DEF loopVars, clockVars
<1>h. TypeOK /\ TypeOK' /\ OpOK(o) /\ Timely(o)
  BY DEF LoopInv, TimeInv
<1>u. UNCHANGED <<paused, advanced, pending, waiters, caller, elapsed>>
  BY DEF Fire
<1>s. (\A p, w : Submitted(p, w)' <=> Submitted(p, w)) /\ (\A p : Pends(p)' <=> Pends(p))
  BY <1>u, SameLists
<1>1. Becomes(o, op[o].started, TRUE, op[o].closed, "closing", "start", op[o].left,
              op[o].turn, op[o].finals, op[o].out)
  BY <1>h, UvCloseFields DEF Fire, TypeOK, Calls
<1>2. op[o].uv = "active" /\ op[o].left = 0
  BY DEF Fire, Due
<1>3. Over(o)
  <2>1. /\ elapsed[o] \in Nat /\ Duration[o] \in Nat /\ Milli \in Nat /\ Milli > 0
        /\ Remaining(op[o].left) = Milli
    BY <1>h, <1>2, TimeTypes, RemainingFacts
  <2>2. elapsed[o] >= Duration[o] \/ elapsed[o] + Remaining(op[o].left) > Duration[o]
    BY <1>h, <1>2 DEF Timely
  <2> QED BY <2>1, <2>2 DEF Over
<1>4. Over(o)'
  BY <1>3, <1>u DEF Over
<1>5. \A t \in Ops : KeepsPending(t)
  BY <1>u DEF KeepsPending
<1>6. Timely(o)'
  <2>1. Waits(o)' <=> Waits(o)
    BY <1>s, <1>u DEF Waits
  <2>2. ~Waits(o) /\ ~Pends(o)
    BY <1>h, <1>2 DEF Waits, OpOK, HadByOne, Calling, Listed, Callbacks
  <2>3. \A i \in 1..Len(pending') : pending'[i].op # o
    BY <1>s, <2>2 DEF Pends
  <2>4. caller'[o].at \notin {"idle", "clock", "pend"}
    BY <1>h, <1>u, <1>2 DEF OpOK, HadByOne, Calling
  <2>5. op'[o].out = "start" => Over(o)'
    BY <1>1, <1>4 DEF Becomes
  <2>6. op'[o].uv = "closing"
    BY <1>1 DEF Becomes
  <2> QED BY <1>4, <1>s, <2>1, <2>2, <2>3, <2>4, <2>5, <2>6 DEF Timely
<1>7. op'[o].kind = op[o].kind /\ \A t \in Ops : t # o => op'[t] = op[t]
  BY <1>1 DEF Becomes
<1> QED BY <1>h, <1>u, <1>s, <1>5, <1>6, <1>7, TimeStepOf

\* A signal and a file are not timers.
LEMMA SignalledTime ==
  ASSUME LoopInv, LoopInv', TimeInv, NEW o \in Ops, Signalled(o) \/ Polled(o)
  PROVE  TimeInv'
<1> USE DEF loopVars, clockVars
<1>h. TypeOK /\ TypeOK'
  BY DEF LoopInv
<1>u. op[o].kind # "timer" /\ UNCHANGED <<paused, advanced, pending, elapsed, waiters, caller>>
  BY DEF Signalled, Polled
<1>s. \A p, w : Submitted(p, w)' <=> Submitted(p, w)
  BY <1>u, SameLists
<1>1. op'[o].kind = op[o].kind /\ \A t \in Ops : t # o => op'[t] = op[t]
  <2>1. ASSUME NEW call \in Calls, op' = UvClose(o, call)
        PROVE  op'[o].kind = op[o].kind /\ \A t \in Ops : t # o => op'[t] = op[t]
    BY <1>h, <2>1, UvCloseFields DEF TypeOK, Becomes
  <2>2. CASE op' = [op EXCEPT ![o].uv = "stopped", ![o].out = "body", ![o].turn = TRUE]
    BY <1>h, <2>2, PolledFields DEF TypeOK, Becomes
  <2>3. "start" \in Calls /\ "fail" \in Calls
    BY DEF Calls
  <2> QED BY <2>1, <2>2, <2>3 DEF Signalled, Polled
<1> QED BY <1>h, <1>u, <1>s, <1>1, EasedStep

\* The handle is closed: what the continuation is given is what was decided.
LEMMA ClosedTime ==
  ASSUME LoopInv, LoopInv', TimeInv, NEW o \in Ops, Closed(o)
  PROVE  TimeInv'
<1> USE DEF loopVars, clockVars
<1>h. TypeOK /\ TypeOK' /\ OpOK(o)
  BY DEF LoopInv
<1>u. op[o].uv = "closing" /\ UNCHANGED <<paused, advanced, pending, waiters, caller, elapsed>>
  BY DEF Closed
<1>s. (\A p, w : Submitted(p, w)' <=> Submitted(p, w)) /\ (\A p : Pends(p)' <=> Pends(p))
  BY <1>u, SameLists
<1>0. op[o].then \in Calls /\ op[o].finals = 0
  <2>1. op[o] \in Continuations
    BY <1>h DEF TypeOK
  <2>2. op[o].then \in {"none", "start", "fail", "stop", "ended"}
    BY <2>1 DEF Continuations
  <2> QED BY <1>h, <1>u, <2>2 DEF OpOK, Formed, Shaped, Gone, Calls
<1>1. Becomes(o, op[o].started, TRUE, TRUE, "closed", "none", op[o].left, op[o].turn,
              (op[o].finals + 1), op[o].then)
  BY <1>h, <1>0, ClosedFields DEF Closed, TypeOK
<1>2. op'[o].finals = 1 /\ op'[o].uv = "closed" /\ op'[o].out = op[o].then /\ op'[o].ns = op[o].ns
  BY <1>0, <1>1 DEF Becomes
<1>3. op[o].kind = "timer" => Timely(o)'
  <2> SUFFICES ASSUME Timely(o) PROVE Timely(o)'
    BY DEF TimeInv
  <2>1. op'[o].out = "start" => Over(o)'
    <3>1. op'[o].out = "start" => Over(o)
      BY <1>u, <1>2 DEF Timely
    <3> QED BY <1>u, <3>1 DEF Over
  <2> QED BY <1>s, <1>u, <1>2, <2>1 DEF Timely
<1>4. \A t \in Ops : KeepsPending(t)
  BY <1>u DEF KeepsPending
<1>7. op'[o].kind = op[o].kind /\ \A t \in Ops : t # o => op'[t] = op[t]
  BY <1>1 DEF Becomes
<1> QED BY <1>h, <1>u, <1>s, <1>3, <1>4, <1>7, TimeStepOf

\* The callbacks of the loop: a timer that is started is given what it has left, in
\* whole milliseconds.
LEMMA CheckTime ==
  ASSUME LoopInv, LoopInv', TimeInv, Check
  PROVE  TimeInv'
<1>e. PICK o, w : o = Head(waiters).op /\ w = Head(waiters).what
  OBVIOUS
<1>p. /\ o \in Ops /\ w \in Callbacks /\ Submitted(o, w)
      /\ \A p, v : Submitted(p, v)' <=> Submitted(p, v) /\ ~(p = o /\ v = w)
  BY <1>e, PopFacts DEF LoopInv, Check, clockVars
<1>h. OpOK(o) /\ TypeOK /\ TypeOK'
  BY <1>p DEF LoopInv
<1>c. OnLoop(o, w) /\ UNCHANGED <<paused, advanced, pending, caller, elapsed>>
  BY <1>e DEF Check, clockVars
<1>s. \A t \in Ops : KeepsPending(t) /\ (Pends(t)' <=> Pends(t))
  BY <1>c DEF KeepsPending, Pends
<1>k. /\ w # "interrupt" => ~Pends(o) /\ ~Calling(o) /\ op[o].uv # "active"
      /\ Fits(o, w) /\ ~op[o].destructed
  <2>1. w # "interrupt" => Listed(o)
    BY <1>p DEF Listed
  <2>2. w = "interrupt" => Armed(o)
    BY <1>p DEF Armed
  <2>3. ~op[o].destructed
    BY <1>h, <2>1, <2>2 DEF OpOK, HadByOne, ArmedStarts
  <2> QED BY <1>h, <1>p, <2>1, <2>3 DEF OpOK, HadByOne, SubmittedFits
<1>f. Shaped(op[o]) /\ op[o].finals \in {0, 1} /\ op[o].finals + 1 # 0
  BY <1>h, <1>k DEF OpOK, Formed, Shaped
\* Ends, or begins to, but not because its time has come.
<1>1. ASSUME op'[o].kind = op[o].kind, \A t \in Ops : t # o => op'[t] = op[t],
             op[o].kind = "timer" =>
               /\ op'[o].ns = op[o].ns
               /\ op'[o].out = "start" => op[o].out = "start"
               /\ op'[o].uv = "closing" /\ op'[o].then = "start" =>
                    op[o].uv = "closing" /\ op[o].then = "start"
               /\ op'[o].uv = "active" => op[o].uv = "active" /\ op'[o].left = op[o].left
               /\ op'[o].finals = 0 => op[o].finals = 0
      PROVE  TimeInv'
  <2>1. elapsed'[o] >= elapsed[o]
    BY <1>h, <1>c, <1>p DEF TypeOK
  <2>2. op[o].kind = "timer" => Eased(o)
    BY <1>1, <1>c, <1>p, <1>s, <2>1 DEF Eased, Waits
  <2> QED BY <1>1, <1>c, <1>h, <1>p, <2>2, EasedStep
<1>2. ASSUME NEW call \in {"fail", "stop"}, op' = Final(o, call) PROVE TimeInv'
  <2>1. Becomes(o, op[o].started, TRUE, op[o].closed, op[o].uv, op[o].then, op[o].left,
                op[o].turn, (op[o].finals + 1), call)
    BY <1>h, <1>p, <1>2, FinalFields DEF TypeOK, Calls
  <2> QED BY <1>1, <1>f, <2>1 DEF Becomes
<1>3. ASSUME NEW call \in {"fail", "stop", "ended"}, op' = UvClose(o, call) PROVE TimeInv'
  <2>1. Becomes(o, op[o].started, TRUE, op[o].closed, "closing", call, op[o].left,
                op[o].turn, op[o].finals, op[o].out)
    BY <1>h, <1>p, <1>3, UvCloseFields DEF TypeOK, Calls
  <2> QED BY <1>1, <2>1 DEF Becomes
<1>4. CASE op' = op
  BY <1>1, <1>4
<1>5. CASE op' = [UvClose(o, "fail") EXCEPT ![o].started = TRUE]
  <2>1. Becomes(o, TRUE, TRUE, op[o].closed, "closing", "fail", op[o].left, op[o].turn,
                op[o].finals, op[o].out)
    BY <1>h, <1>p, <1>5, StartCloseFields DEF TypeOK, Calls
  <2> QED BY <1>1, <2>1 DEF Becomes
\* The operation is not a timer.
<1>6. ASSUME op[o].kind # "timer", op'[o].kind = op[o].kind,
             \A t \in Ops : t # o => op'[t] = op[t]
      PROVE  TimeInv'
  BY <1>1, <1>6
<1>7. CASE op[o].kind = "signal" /\ op' = [op EXCEPT ![o].started = TRUE, ![o].uv = "active"]
  BY <1>6, <1>7, <1>h, <1>p, StartSignalFields DEF TypeOK, Becomes
<1>8. CASE /\ op[o].kind = "poll"
           /\ op' = [op EXCEPT ![o].started = TRUE, ![o].uv = "stopped",
                               ![o].out = "begin", ![o].turn = TRUE]
  BY <1>6, <1>8, <1>h, <1>p, StartPollFields DEF TypeOK, Becomes
<1>9. CASE /\ op[o].kind = "poll"
           /\ op' = [Final(o, "fail") EXCEPT ![o].started = TRUE, ![o].closed = TRUE]
  BY <1>6, <1>9, <1>h, <1>p, StartFailFields DEF TypeOK, Becomes
<1>10. CASE op[o].kind = "schedule" /\ op' = Final(o, "start")
  BY <1>6, <1>10, <1>h, <1>p, FinalFields DEF TypeOK, Becomes, Calls
<1>11. CASE w = "next" /\ op' = [op EXCEPT ![o].uv = "active"]
  <2>1. op[o].kind # "timer"
    BY <1>k, <1>11 DEF Fits
  <2> QED BY <1>6, <1>11, <2>1, <1>h, <1>p, NextFields DEF TypeOK, Becomes
\* uv_timer_start.
<1>12. CASE /\ w = "start" /\ op[o].kind = "timer" /\ ~op[o].completed
            /\ op' = [op EXCEPT ![o].started = TRUE, ![o].uv = "active",
                                ![o].left = op[o].ns \div Milli]
  <2>0. op[o].ns \in Nat /\ op[o].ns \div Milli \in Nat
    BY <1>h, <1>p, WholeMillis DEF TypeOK, Continuations
  <2>1. Becomes(o, TRUE, op[o].completed, op[o].closed, "active", op[o].then,
                op[o].ns \div Milli, op[o].turn, op[o].finals, op[o].out)
    BY <1>h, <1>p, <1>12, <2>0, StartTimerFields DEF TypeOK
  <2>2. /\ Timely(o) /\ op[o].finals = 0 /\ Waits(o) /\ ~Pends(o) /\ ~Calling(o)
    BY <1>f, <1>k, <1>p, <1>12 DEF TimeInv, Shaped, Waits
  <2>3. /\ op'[o].out = op[o].out /\ op'[o].uv = "active" /\ op'[o].left = op[o].ns \div Milli
        /\ op'[o].finals = 0 /\ op'[o].kind = op[o].kind /\ op'[o].ns = op[o].ns
        /\ \A t \in Ops : t # o => op'[t] = op[t]
    BY <2>1, <2>2 DEF Becomes
  <2>4. IF paused' THEN elapsed'[o] >= Duration[o]
        ELSE elapsed'[o] + Remaining(op'[o].left) > Duration[o]
    <3>1. elapsed[o] \in Nat /\ Duration[o] \in Nat
      BY <1>h, <1>p, TimeTypes
    <3>2. Remaining(op'[o].left) \in Nat /\ op[o].ns < Remaining(op'[o].left)
      BY <2>0, <2>3, RemainingFacts
    <3>3. IF paused THEN elapsed[o] >= Duration[o] ELSE elapsed[o] + op[o].ns >= Duration[o]
      BY <2>2 DEF Timely
    <3> QED BY <1>c, <2>0, <3>1, <3>2, <3>3
  <2>5. ~Waits(o)'
    <3>1. ~Submitted(o, "start")' /\ caller'[o].at # "submit"
      BY <1>c, <1>p, <1>12, <2>2 DEF Calling
    <3> QED BY <3>1 DEF Waits
  <2>6. ~Pends(o)' /\ \A i \in 1..Len(pending') : pending'[i].op # o
    BY <1>s, <1>p, <2>2 DEF Pends
  <2>7. caller'[o].at \notin {"idle", "clock", "pend"}
    BY <1>c, <2>2 DEF Calling
  <2>8. op'[o].out = "start" => Over(o)'
    BY <1>c, <2>2, <2>3 DEF Timely, Over
  <2>9. Timely(o)'
    BY <2>3, <2>4, <2>5, <2>6, <2>7, <2>8 DEF Timely
  <2> QED BY <1>c, <1>h, <1>p, <1>s, <2>3, <2>9, TimeStepOf
<1> QED
  <2>1. CASE w = "interrupt"
    BY <1>c, <2>1, <1>2, <1>3, <1>4 DEF OnLoop, InterruptOnLoop
  <2>2. CASE w # "interrupt" /\ op[o].completed
    BY <1>c, <2>2, <1>4 DEF OnLoop
  <2>3. CASE w # "interrupt" /\ ~op[o].completed
    BY <1>c, <2>3, <1>2, <1>3, <1>5, <1>7, <1>8, <1>9, <1>10, <1>11, <1>12
       DEF OnLoop, StartTimer, StartSignal, StartPoll, NextOnLoop, DoneOnLoop, FailOnLoop,
           StopOnLoop
  <2> QED BY <2>1, <2>2, <2>3

\* The loop goes from one phase to the next.
LEMMA GoesOnTime ==
  ASSUME LoopInv, LoopInv', TimeInv, UNCHANGED <<waiters, clockVars, caller, op, elapsed>>
  PROVE  TimeInv'
<1>1. UNCHANGED <<waiters, paused, advanced, pending, caller, op, elapsed>>
  BY DEF clockVars
<1>2. \A p, w : Submitted(p, w)' <=> Submitted(p, w)
  BY <1>1 DEF Submitted
<1> SUFFICES ASSUME NEW t \in Ops, op[t].kind = "timer", Timely(t) PROVE Timely(t)'
  BY <1>1 DEF TimeInv
<1>3. TypeOK /\ TypeOK' /\ elapsed'[t] >= elapsed[t]
  BY <1>1 DEF LoopInv, TypeOK
<1>4. KeepsPending(t) /\ Eased(t)
  BY <1>1, <1>2, <1>3 DEF KeepsPending, Eased, Waits, Pends
<1> QED BY <1>1, <1>3, <1>4, EasedTimely

\* A timer that has yet to be started by the loop is outstanding unless it has ended.
LEMMA StartedOutstanding ==
  ASSUME LoopInv, NEW t \in Ops, op[t].finals = 0, Waits(t) \/ Pends(t) \/ op[t].uv = "active"
  PROVE  Outstanding(t)
<1>1. OpOK(t)
  BY DEF LoopInv
<1>2. caller[t].at # "idle"
  BY <1>1 DEF OpOK, HadByOne, Calling, Listed, Callbacks, Waits
<1> QED BY <1>2 DEF Outstanding

\* Pause comes when no timer is outstanding.
LEMMA PauseTime ==
  ASSUME LoopInv, LoopInv', TimeInv, ~Racing, Pause
  PROVE  TimeInv'
<1>1. /\ ~paused /\ paused' /\ UNCHANGED <<waiters, pending, caller, op, elapsed>>
      /\ \A t \in Timers : ~Outstanding(t) /\ op[t].uv # "active"
  BY DEF Pause, loopVars
<1>2. (\A p, w : Submitted(p, w)' <=> Submitted(p, w)) /\ (\A p : Pends(p)' <=> Pends(p))
  BY <1>1, SameLists
<1> SUFFICES ASSUME NEW t \in Ops, op[t].kind = "timer", Timely(t) PROVE Timely(t)'
  BY <1>1 DEF TimeInv
<1>3. ~Outstanding(t) /\ op[t].uv # "active"
  BY <1>1 DEF Timers
<1>4. op[t].finals = 0 => ~Waits(t)
  BY <1>3, StartedOutstanding
<1>5. Waits(t)' <=> Waits(t)
  BY <1>1, <1>2 DEF Waits
<1>6. ~Pends(t)
  BY <1>1 DEF Timely
<1>7. \A i \in 1..Len(pending') : pending'[i].op # t
  BY <1>1, <1>6 DEF Pends
<1>8. Over(t)' <=> Over(t)
  BY <1>1 DEF Over
<1> QED BY <1>1, <1>2, <1>3, <1>4, <1>5, <1>7, <1>8 DEF Timely

\* A millisecond passes: what a timer has left shrinks by what it has run for.
LEMMA TickTime ==
  ASSUME LoopInv, LoopInv', TimeInv, Tick
  PROVE  TimeInv'
<1> USE DEF loopVars, clockVars
<1>h. TypeOK /\ TypeOK' /\ Milli \in Nat
  BY RemainingFacts DEF LoopInv
<1>1. UNCHANGED <<waiters, paused, advanced, pending, caller>>
  BY DEF Tick
<1>2. (\A p, w : Submitted(p, w)' <=> Submitted(p, w)) /\ (\A p : Pends(p)' <=> Pends(p))
  BY <1>1, SameLists
<1>3. /\ \A p \in Ops : SameShape(op'[p], op[p]) /\ op'[p].ns = op[p].ns
      /\ \A p \in ActiveTimers : op[p].left > 0 /\ op'[p].left = op[p].left - 1
  BY <1>h, TickFacts
<1>4. \A t \in Ops : elapsed'[t] >= elapsed[t]
  <2>1. CASE elapsed' = elapsed
    BY <1>h, <2>1 DEF TypeOK
  <2>2. CASE Elapse(Milli)
    BY <1>h, <2>2, ElapseFacts
  <2> QED BY <2>1, <2>2 DEF Tick
<1> SUFFICES ASSUME NEW t \in Ops, op[t].kind = "timer", Timely(t) PROVE Timely(t)'
  BY <1>3 DEF TimeInv, SameShape
<1>5. KeepsPending(t)
  BY <1>1 DEF KeepsPending
<1>6. CASE op[t].uv # "active"
  <2>1. Eased(t)
    BY <1>1, <1>2, <1>3, <1>4, <1>6 DEF Eased, Waits, SameShape
  <2> QED BY <1>1, <1>5, <1>h, <2>1, EasedTimely
<1>7. CASE op[t].uv = "active"
  <2>1. /\ elapsed[t] \in Nat /\ elapsed'[t] \in Nat /\ Duration[t] \in Nat
        /\ op[t].left \in Nat /\ Remaining(op[t].left) \in Nat
    BY <1>h, TimeTypes DEF TypeOK
  <2>2. op[t].left > 0 /\ op'[t].left = op[t].left - 1
    BY <1>3, <1>7 DEF ActiveTimers, Timers
  <2>3. /\ Remaining(op'[t].left) \in Nat
        /\ Remaining(op[t].left) = Remaining(op'[t].left) + Milli
    BY <2>1, <2>2, RemainingFacts
  <2>4. OpOK(t) /\ op[t].finals = 0 /\ Outstanding(t)
    <3>1. OpOK(t)
      BY DEF LoopInv
    <3>2. op[t].finals = 0
      BY <1>7, <3>1 DEF OpOK, Formed, Shaped, Gone
    <3> QED BY <1>7, <3>1, <3>2, StartedOutstanding
  <2>5. ~Waits(t)' /\ ~Pends(t)' /\ caller'[t].at \notin {"idle", "clock", "pend"}
    BY <1>1, <1>2, <1>7, <2>4 DEF OpOK, HadByOne, Calling, Listed, Callbacks, Waits
  <2>6. \A i \in 1..Len(pending') : pending'[i].op # t
    BY <2>5 DEF Pends
  <2>7. op'[t].out = "start" => Over(t)'
    <3>1. op'[t].out = "start" => Over(t)
      BY <1>3 DEF SameShape, Timely
    <3>2. elapsed'[t] >= elapsed[t]
      BY <1>4
    <3> QED BY <1>h, <2>1, <3>1, <3>2 DEF Over
  <2>8. op'[t].uv = "active"
    BY <1>3, <1>7 DEF SameShape
  <2>9. IF paused' THEN elapsed'[t] >= Duration[t]
        ELSE elapsed'[t] + Remaining(op'[t].left) > Duration[t]
    <3>1. IF paused THEN elapsed[t] >= Duration[t]
          ELSE elapsed[t] + Remaining(op[t].left) > Duration[t]
      BY <1>7 DEF Timely
    <3>2. CASE paused
      BY <1>1, <1>4, <2>1, <3>1, <3>2
    <3>3. CASE ~paused
      <4>1. elapsed'[t] >= Duration[t] \/ elapsed'[t] = elapsed[t] + Milli
        BY <1>h, <2>4, <3>3, ElapseFacts DEF Tick, Timers
      <4>2. Remaining(op'[t].left) > 0
        BY <1>h, <2>1, <2>2, <2>3, RemainingFacts DEF Remaining
      <4> QED BY <1>1, <1>h, <2>1, <2>3, <3>1, <3>3, <4>1, <4>2
    <3> QED BY <3>2, <3>3
  <2> QED BY <2>5, <2>6, <2>7, <2>8, <2>9 DEF Timely
<1> QED BY <1>6, <1>7

\* The clock runs again: a pending timer is given what is left of its duration.
LEMMA ResumeTime ==
  ASSUME LoopInv, LoopInv', TimeInv, ~Racing, Resume
  PROVE  TimeInv'
<1>h. TypeOK /\ TypeOK' /\ Single /\ PendingLater
  BY DEF LoopInv
<1> DEFINE left == [i \in DOMAIN pending |-> pending[i].ns - advanced]
<1>1. /\ Len(pending) \in Nat /\ DOMAIN pending = 1..Len(pending) /\ advanced \in Nat
      /\ \A i \in 1..Len(pending) : pending[i].ns \in Nat /\ pending[i].op \in Ops
      /\ pending \in Seq([op : Ops, ns : Nat])
  <2>1. pending \in Seq([op : Ops, ns : Nat]) /\ advanced \in Nat
    BY <1>h, EventLoopAssumption DEF TypeOK
  <2> QED BY ONLY <1>h, <2>1, EntryFacts
<1>2. /\ left \in [1..Len(pending) -> Nat]
      /\ \A i \in 1..Len(pending) : left[i] = pending[i].ns - advanced
  <2>1. \A i \in 1..Len(pending) : pending[i].ns - advanced \in Nat
    BY <1>h, <1>1 DEF PendingLater
  <2> QED BY <1>1, <2>1
<1>3. Hand(pending, left)
  BY DEF Resume
<1> HIDE DEF left
<1>4. /\ pending' = <<>> /\ ~paused' /\ paused /\ UNCHANGED <<advanced, caller, elapsed>>
      /\ \A t \in Timers : caller[t].at \notin {"clock", "pend"}
  BY DEF Resume, Alone
<1>5. \A i \in 1..Len(pending) : ~Listed(pending[i].op)
  <2>1. \A i \in 1..Len(pending) : OpOK(pending[i].op) /\ Pends(pending[i].op)
    BY <1>1 DEF LoopInv, Pends
  <2> QED BY <2>1 DEF OpOK, HadByOne
<1>6. \A i, j \in 1..Len(pending) : pending[i].op = pending[j].op => i = j
  BY <1>h DEF Single
<1>7. /\ \A p, v : Submitted(p, v)' <=> Submitted(p, v) \/ (v = "start" /\ Handed(pending, p))
      /\ \A p \in Ops : SameShape(op'[p], op[p]) /\ op'[p].left = op[p].left
      /\ \A p \in Ops : ~Handed(pending, p) => op'[p] = op[p]
      /\ \A i \in 1..Len(pending) : op'[pending[i].op].ns = left[i]
  BY <1>h, <1>1, <1>2, <1>3, <1>5, <1>6, HandFacts
<1>8. Len(pending') = 0 /\ \A p : ~Pends(p)'
  <2>1. Len(pending') = 0
    BY <1>4, EmptySeq
  <2> QED BY <2>1 DEF Pends
<1> SUFFICES ASSUME NEW t \in Ops, op[t].kind = "timer", Timely(t) PROVE Timely(t)'
  BY <1>7 DEF TimeInv, SameShape
<1>9. /\ elapsed[t] \in Nat /\ elapsed'[t] = elapsed[t] /\ Duration[t] \in Nat
      /\ op[t].ns \in Nat /\ Remaining(op[t].left) \in Nat /\ op[t].left \in Nat
  BY <1>h, <1>4, TimeTypes
<1>10. Over(t)' <=> Over(t)
  BY <1>9 DEF Over
<1>11. caller'[t].at \in {"idle", "clock", "pend"} => op'[t].ns = Duration[t]
  <2>1. caller[t].at = "idle" => ~Handed(pending, t)
    <3>1. OpOK(t)
      BY DEF LoopInv
    <3> QED BY <3>1 DEF OpOK, HadByOne, Calling, Handed, Pends
  <2>2. caller[t].at \notin {"clock", "pend"}
    BY <1>4 DEF Timers
  <2> QED BY <1>4, <1>7, <2>1, <2>2 DEF Timely
<1>12. op'[t].finals = 0 /\ Waits(t)' => elapsed'[t] + op'[t].ns >= Duration[t]
  <2> SUFFICES ASSUME op[t].finals = 0, Waits(t)' PROVE elapsed[t] + op'[t].ns >= Duration[t]
    BY <1>7, <1>9 DEF SameShape
  <2>1. CASE ~Handed(pending, t)
    <3>1. Waits(t) /\ op'[t].ns = op[t].ns
      BY <1>4, <1>7, <2>1 DEF Waits
    <3>2. elapsed[t] >= Duration[t]
      BY <1>4, <3>1 DEF Timely
    <3> QED BY <1>9, <3>1, <3>2
  <2>2. CASE Handed(pending, t)
    <3>1. PICK i \in 1..Len(pending) : pending[i].op = t
      BY <2>2 DEF Handed
    <3>2. op'[t].ns = pending[i].ns - advanced /\ pending[i].ns \in Nat
      BY <1>1, <1>2, <1>7, <3>1
    <3>3. elapsed[t] + pending[i].ns >= Duration[t] + advanced
      BY <3>1 DEF Timely
    <3> QED BY SMTT(20), <1>1, <1>9, <3>2, <3>3
  <2> QED BY <2>1, <2>2
<1>13. op'[t].uv = "active" => elapsed'[t] + Remaining(op'[t].left) > Duration[t]
  <2> SUFFICES ASSUME op[t].uv = "active" PROVE elapsed[t] + Remaining(op[t].left) > Duration[t]
    BY <1>7, <1>9 DEF SameShape
  <2>1. elapsed[t] >= Duration[t]
    BY <1>4 DEF Timely
  <2>2. Remaining(op[t].left) > 0
    BY <1>9, EventLoopAssumption DEF Remaining
  <2> QED BY <1>9, <2>1, <2>2
<1>14. /\ op'[t].out = "start" => Over(t)'
       /\ op'[t].uv = "closing" /\ op'[t].then = "start" => Over(t)'
  BY <1>7, <1>10 DEF SameShape, Timely
<1>15. caller'[t].at # "pend"
  BY <1>4 DEF Timers
<1> QED BY <1>4, <1>8, <1>11, <1>12, <1>13, <1>14, <1>15 DEF Timely

\* The paused clock is advanced: a timer that is handed over has run for its duration,
\* and one that stays waits for the rest of it.
LEMMA AdvanceTime ==
  ASSUME LoopInv, LoopInv', TimeInv, ~Racing, NEW n \in 1..MaxAdvance, Advance(n)
  PROVE  TimeInv'
<1>h. TypeOK /\ TypeOK' /\ Single
  BY DEF LoopInv
<1>1. PICK due : due = DueAt(n)
  OBVIOUS
<1>2. n \in Nat /\ advanced \in Nat
  BY <1>h, EventLoopAssumption DEF TypeOK
<1>d. PICK D : D = Picked(pending, due)
  OBVIOUS
<1>l. PICK left : left = [k \in 1..Cardinality(due) |-> 0]
  OBVIOUS
<1>3. /\ Cardinality(due) \in Nat /\ Len(D) = Cardinality(due)
      /\ D \in Seq([op : Ops, ns : Nat])
      /\ \A i, j \in 1..Len(D) : D[i].op = D[j].op => i = j
      /\ \A k \in 1..Len(D) :
           \E i \in 1..Len(pending) : D[k] = pending[i] /\ advanced + n >= pending[i].ns
      /\ \A k \in 1..Len(pending') : \E i \in 1..Len(pending) : pending'[k] = pending[i]
      /\ \A p : Handed(D, p) => Pends(p)
      /\ \A p : Pends(p)' <=> Pends(p) /\ ~Handed(D, p)
  <2>1. /\ Cardinality(due) \in Nat /\ Len(Picked(pending, due)) = Cardinality(due)
        /\ Picked(pending, due) \in Seq([op : Ops, ns : Nat])
        /\ \A i, j \in 1..Cardinality(due) :
             Picked(pending, due)[i].op = Picked(pending, due)[j].op => i = j
        /\ \A k \in 1..Cardinality(due) :
             \E i \in 1..Len(pending) : /\ Picked(pending, due)[k] = pending[i]
                                        /\ advanced + n >= pending[i].ns
        /\ \A k \in 1..Len(pending') :
             \E i \in 1..Len(pending) : /\ pending'[k] = pending[i]
                                        /\ ~(advanced + n >= pending[i].ns)
        /\ \A p : Handed(Picked(pending, due), p) => Pends(p)
        /\ \A p : Pends(p)' <=> Pends(p) /\ ~Handed(Picked(pending, due), p)
    BY ONLY <1>h, <1>1, <1>2, Advance(n), AdvanceFacts
  <2>2. \A k \in 1..Len(pending') : \E i \in 1..Len(pending) : pending'[k] = pending[i]
    BY ONLY <2>1
  <2> QED BY ONLY <1>d, <2>1, <2>2
<1>4. Hand(D, left)
  BY <1>1, <1>d, <1>l DEF Advance, DueAt
<1>5. left \in [1..Len(D) -> Nat]
  BY ONLY <1>3, <1>l
<1>6. /\ advanced' = advanced + n /\ Elapse(n) /\ paused /\ UNCHANGED <<paused, caller>>
      /\ \A t \in Timers : caller[t].at \notin {"clock", "pend"}
  BY DEF Advance, Alone
<1>7. \A i \in 1..Len(D) : ~Listed(D[i].op)
  <2>1. \A i \in 1..Len(D) : D[i] \in [op : Ops, ns : Nat]
    BY ONLY <1>3, ElementOfSeq
  <2>2. \A i \in 1..Len(D) : D[i].op \in Ops /\ Pends(D[i].op)
    BY ONLY <1>3, <2>1 DEF Handed
  <2>3. \A p \in Ops : Pends(p) => ~Listed(p)
    BY DEF LoopInv, OpOK, HadByOne
  <2> QED BY ONLY <2>2, <2>3
<1>8. /\ \A p, v : Submitted(p, v)' <=> Submitted(p, v) \/ (v = "start" /\ Handed(D, p))
      /\ \A p \in Ops : SameShape(op'[p], op[p]) /\ op'[p].left = op[p].left
      /\ \A p \in Ops : ~Handed(D, p) => op'[p] = op[p]
  BY ONLY <1>h, <1>3, <1>4, <1>5, <1>7, HandFacts
<1> SUFFICES ASSUME NEW t \in Ops, op[t].kind = "timer", Timely(t) PROVE Timely(t)'
  BY <1>8 DEF TimeInv, SameShape
<1>9. /\ elapsed[t] \in Nat /\ elapsed'[t] \in Nat /\ Duration[t] \in Nat
      /\ elapsed'[t] >= elapsed[t]
      /\ Outstanding(t) => elapsed'[t] >= Duration[t] \/ elapsed'[t] = elapsed[t] + n
  BY <1>h, <1>2, <1>6, TimeTypes, ElapseFacts DEF TypeOK, Timers
<1>10. Over(t) => Over(t)'
  BY <1>9, EventLoopAssumption DEF Over
<1>11. caller'[t].at \in {"idle", "clock", "pend"} => op'[t].ns = Duration[t]
  <2>1. caller[t].at = "idle" => ~Handed(D, t)
    <3>1. OpOK(t)
      BY DEF LoopInv
    <3> QED BY <1>3, <3>1 DEF OpOK, HadByOne, Calling
  <2>2. caller[t].at \notin {"clock", "pend"}
    BY <1>6 DEF Timers
  <2> QED BY <1>6, <1>8, <2>1, <2>2 DEF Timely
<1>12. op'[t].finals = 0 /\ Waits(t)' => elapsed'[t] >= Duration[t]
  <2> SUFFICES ASSUME op[t].finals = 0, Waits(t)' PROVE elapsed'[t] >= Duration[t]
    BY <1>8 DEF SameShape
  <2>1. CASE ~Handed(D, t)
    <3>1. Waits(t)
      BY <1>6, <1>8, <2>1 DEF Waits
    <3>2. elapsed[t] >= Duration[t]
      BY <1>6, <3>1 DEF Timely
    <3> QED BY <1>9, <3>2
  <2>2. CASE Handed(D, t)
    <3>1. PICK k \in 1..Len(D) : D[k].op = t
      BY <2>2 DEF Handed
    <3>2. PICK i \in 1..Len(pending) : D[k] = pending[i] /\ advanced + n >= pending[i].ns
      BY <1>3
    <3>3. elapsed[t] + pending[i].ns >= Duration[t] + advanced
      BY <3>1, <3>2 DEF Timely
    <3>4. pending[i].ns \in Nat
      BY <1>h, EntryFacts
    <3>5. Outstanding(t)
      BY <1>3, <2>2, StartedOutstanding
    <3>6. elapsed'[t] >= Duration[t] \/ elapsed'[t] = elapsed[t] + n
      BY <1>9, <3>5
    <3> QED BY ONLY SMTT(20), <1>2, <1>9, <3>2, <3>3, <3>4, <3>6
  <2> QED BY <2>1, <2>2
<1>13. op'[t].uv = "active" => elapsed'[t] >= Duration[t]
  <2>1. op'[t].uv = "active" => elapsed[t] >= Duration[t]
    BY <1>6, <1>8 DEF SameShape, Timely
  <2> QED BY <1>9, <2>1
<1>14. /\ op'[t].out = "start" => Over(t)'
       /\ op'[t].uv = "closing" /\ op'[t].then = "start" => Over(t)'
  BY <1>8, <1>10 DEF SameShape, Timely
<1>15. ASSUME NEW k \in 1..Len(pending'), pending'[k].op = t, op'[t].finals = 0
       PROVE  elapsed'[t] + pending'[k].ns >= Duration[t] + advanced'
  <2>1. PICK i \in 1..Len(pending) : pending'[k] = pending[i]
    BY <1>3
  <2>2. op[t].finals = 0
    BY <1>8, <1>15 DEF SameShape
  <2>3. elapsed[t] + pending[i].ns >= Duration[t] + advanced
    BY <1>15, <2>1, <2>2 DEF Timely
  <2>4. pending[i].ns \in Nat /\ pending'[k].ns >= advanced'
    BY <1>h, EntryFacts DEF LoopInv, PendingLater
  <2>5. Outstanding(t)
    BY <1>15, <2>1, <2>2, StartedOutstanding DEF Pends
  <2>6. elapsed'[t] >= Duration[t] \/ elapsed'[t] = elapsed[t] + n
    BY <1>9, <2>5
  <2>7. PICK m \in Nat : m = pending[i].ns /\ m = pending'[k].ns
    BY ONLY <2>1, <2>4
  <2>8. advanced' = advanced + n /\ m >= advanced'
    BY ONLY <1>6, <2>4, <2>7
  <2>9. elapsed[t] + m >= Duration[t] + advanced
    BY ONLY <2>3, <2>7
  <2>10. elapsed'[t] + m >= Duration[t] + advanced'
    <3>1. CASE elapsed'[t] >= Duration[t]
      BY ONLY <1>2, <1>9, <2>8, <3>1, m \in Nat
    <3>2. CASE elapsed'[t] = elapsed[t] + n
      <4>1. elapsed[t] + n + m >= Duration[t] + (advanced + n)
        BY ONLY SMTT(20), <1>2, <1>9, <2>9, m \in Nat
      <4> QED BY ONLY <1>2, <1>9, <2>8, <3>2, <4>1, m \in Nat
    <3> QED BY ONLY <2>6, <3>1, <3>2
  <2> QED BY ONLY <2>7, <2>10
<1>16. paused'
  BY <1>6
<1> QED BY <1>11, <1>12, <1>13, <1>14, <1>15, <1>16 DEF Timely

LEMMA InitTime ==
  ASSUME Init
  PROVE  TimeInv
<1>1. PICK k \in Kinds : op = [o \in Ops |-> Fresh(o, k[o])]
  BY DEF Init
<1> SUFFICES ASSUME NEW t \in Ops PROVE Timely(t)
  BY DEF TimeInv
<1>2. k[t] \in {"timer", "signal", "poll", "schedule"} /\ op[t] = Fresh(t, k[t])
  BY <1>1, EventLoopAssumption
<1>3. op[t].uv = "none" /\ op[t].out = "none" /\ op[t].ns = Duration[t]
  BY <1>2, FreshFields
<1>4. Len(pending) = 0 /\ Len(waiters) = 0 /\ caller[t].at = "idle"
  BY EmptySeq DEF Init
<1>5. ~Waits(t) /\ ~Pends(t)
  BY <1>4 DEF Waits, Submitted, Pends
<1> QED BY <1>3, <1>4, <1>5 DEF Timely

LEMMA NextTime ==
  ASSUME LoopInv, LoopInv', TimeInv, ~Racing, [Next]_vars
  PROVE  TimeInv'
<1>1. ASSUME NEW o \in Ops, CallerStep(o) PROVE TimeInv'
  BY <1>1, StartTime, FailsTime, ScheduleTime, ClockSubmitTime, ClockPendTime, PushTime,
     SendTime, AskTime DEF CallerStep
<1>2. ASSUME NEW o \in Ops, TriggerStep(o) \/ Trigger(o) \/ Destruct(o) PROVE TimeInv'
  BY <1>2, TriggerPushTime, TriggerSendTime, TriggerTime, DestructTime DEF TriggerStep
<1>3. CASE ClockStep
  BY <1>3, PauseTime, ResumeTime, AdvanceTime DEF ClockStep
<1>4. ASSUME NEW o \in Ops, (op[o].kind = "timer" /\ Fire(o)) \/ Closed(o) PROVE TimeInv'
  BY <1>4, FireTime, ClosedTime
<1>5. CASE Run \/ TimersRun \/ PollReturns \/ PollNoWait \/ CheckReturns \/ RunAgain
  <2>1. UNCHANGED <<waiters, clockVars, caller, op, elapsed>>
    BY <1>5 DEF Run, TimersRun, PollReturns, PollNoWait, CheckReturns, RunAgain
  <2> QED BY <2>1, GoesOnTime
<1>6. CASE LoopStep
  BY <1>4, <1>5, <1>6, CheckTime DEF LoopStep, Timers, Handles
<1>7. CASE UNCHANGED vars
  <2>1. UNCHANGED <<waiters, clockVars, caller, op, elapsed>>
    BY <1>7 DEF vars, loopVars
  <2> QED BY <2>1, GoesOnTime
<1> QED BY <1>1, <1>2, <1>3, <1>5, <1>6, <1>7, SignalledTime, TickTime DEF Next, Handles

\* A timer never ends a millisecond or more before the clock has run for its duration,
\* through every pause, advance and resume, unless these overlap with the start of a
\* timer (Clock::Submit, Pause, Advance and Resume).
THEOREM LoopNotEarly == Spec => [](~Racing => NotEarly)
<1> DEFINE Inv == LoopInv /\ (~Racing => TimeInv)
<1>1. Init => Inv
  BY InitOK, InitTime
<1>2. Inv /\ [Next]_vars => Inv'
  BY NextOK, NextTime
<1>3. Inv => (~Racing => NotEarly)
  BY DEF TimeInv, Timely, Over, NotEarly, Timers
<1> QED BY <1>1, <1>2, <1>3, PTL DEF Spec

\* Timers are pending only on a paused clock ("to be invoked when the clock is not
\* paused", event-loop.h:170), unless the clock is resumed while one is being started.
THEOREM LoopPendingWhilePaused == Spec => [](~Racing => PendingWhilePaused)
<1> DEFINE Inv == LoopInv /\ (~Racing => TimeInv)
<1>1. Init => Inv
  BY InitOK, InitTime
<1>2. Inv /\ [Next]_vars => Inv'
  BY NextOK, NextTime
<1>3. Inv => (~Racing => PendingWhilePaused)
  <2> SUFFICES ASSUME LoopInv, TimeInv, pending # <<>> PROVE paused
    BY DEF PendingWhilePaused
  <2>1. TypeOK /\ Len(pending) \in Nat /\ Len(pending) # 0
    BY EmptySeq, LenProperties DEF LoopInv, TypeOK
  <2>2. PICK t \in Ops : Pends(t)
    <3>1. 1 \in 1..Len(pending) /\ pending[1].op \in Ops
      BY <2>1, EntryFacts
    <3> QED BY <3>1 DEF Pends
  <2>3. op[t].kind = "timer"
    BY <2>2 DEF LoopInv, OpOK, SubmittedFits
  <2> QED BY <2>2, <2>3 DEF TimeInv, Timely
<1> QED BY <1>1, <1>2, <1>3, PTL DEF Spec
=============================================================================

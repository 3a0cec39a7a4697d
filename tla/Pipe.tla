-------------------------------- MODULE Pipe --------------------------------
(***************************************************************************)
(* Pipe (eventuals/pipe.h): an unbounded queue between fibers, which can   *)
(* be closed.  Every operation is a Synchronized() block, hence one action *)
(* (LockProofs.tla proves the exclusion); a block that waits gives up the  *)
(* lock, is put at the end of the list of its condition variable, and      *)
(* evaluates its condition again some time after Notify() or NotifyAll()   *)
(* took it off the list (ConditionVariable.tla has the details).           *)
(***************************************************************************)
EXTENDS Naturals, Sequences, FiniteSets

CONSTANTS Readers,    \* the streams that Read() returned
          Watchers,   \* the fibers that call WaitForClosedAndEmpty()
          MaxWrites   \* bound on the values written

ASSUME PipeAssumption == MaxWrites \in Nat /\ IsFiniteSet(Readers)

VARIABLES
  values,          \* values_
  closed,          \* is_closed_
  hasValues,       \* the readers in the list of has_values_or_closed_
  closedAndEmpty,  \* the watchers in the list of closed_and_empty_
  reader,          \* where each reader is
  watcher,         \* where each watcher is
  written,         \* how many values were written; they are numbered
  accepted,        \* the values that were written before the pipe was closed
  taken            \* the values that readers took, in order

vars == <<values, closed, hasValues, closedAndEmpty, reader, watcher, written, accepted, taken>>

Init ==
  /\ values = <<>> /\ closed = FALSE
  /\ hasValues = <<>> /\ closedAndEmpty = <<>>
  /\ reader = [r \in Readers |-> "idle"]
  /\ watcher = [w \in Watchers |-> "idle"]
  /\ written = 0 /\ accepted = <<>> /\ taken = <<>>

-----------------------------------------------------------------------------

\* The fibers in a list of waiters.
Listed(list) == {list[i] : i \in DOMAIN list}

\* Mutant of NotifyReader: nobody is notified while other values are waiting.
NotifyReaderFirst ==
  IF hasValues = <<>> \/ Len(values) > 0 THEN UNCHANGED <<hasValues, reader>>
  ELSE /\ hasValues' = Tail(hasValues)
       /\ reader' = [reader EXCEPT ![Head(hasValues)] = "acquire"]

\* has_values_or_closed_.Notify(): the oldest waiter.
NotifyReader ==
  IF hasValues = <<>> THEN UNCHANGED <<hasValues, reader>>
  ELSE /\ hasValues' = Tail(hasValues)
       /\ reader' = [reader EXCEPT ![Head(hasValues)] = "acquire"]

\* closed_and_empty_.NotifyAll().
NotifyWatchers ==
  /\ closedAndEmpty' = <<>>
  /\ watcher' = [w \in Watchers |->
                   IF w \in Listed(closedAndEmpty) THEN "acquire" ELSE watcher[w]]

\* Mutant of Write: a closed pipe takes values.
WriteClosed ==
  /\ written < MaxWrites
  /\ written' = written + 1
  /\ values' = Append(values, written + 1)
  /\ accepted' = Append(accepted, written + 1)
  /\ NotifyReader
  /\ UNCHANGED <<closed, closedAndEmpty, watcher, taken>>

\* Write: a value written to a closed pipe is dropped.
Write ==
  /\ written < MaxWrites
  /\ written' = written + 1
  /\ IF closed
       THEN UNCHANGED <<values, accepted, hasValues, reader>>
       ELSE /\ values' = Append(values, written + 1)
            /\ accepted' = Append(accepted, written + 1)
            /\ NotifyReader
  /\ UNCHANGED <<closed, closedAndEmpty, watcher, taken>>

\* Close, which may be called again.
Close ==
  /\ closed' = TRUE
  /\ hasValues' = <<>>
  /\ reader' = [r \in Readers |-> IF r \in Listed(hasValues) THEN "acquire" ELSE reader[r]]
  /\ IF values = <<>> THEN NotifyWatchers ELSE UNCHANGED <<closedAndEmpty, watcher>>
  /\ UNCHANGED <<values, written, accepted, taken>>

-----------------------------------------------------------------------------

\* Downstream of Read() asks for the next value.
Ask(r) ==
  /\ reader[r] = "idle"
  /\ reader' = [reader EXCEPT ![r] = "acquire"]
  /\ UNCHANGED <<values, closed, hasValues, closedAndEmpty, watcher, written, accepted, taken>>

ReadWait(r) ==
  /\ reader[r] = "acquire"
  /\ values = <<>> /\ ~closed
  /\ reader' = [reader EXCEPT ![r] = "waiting"]
  /\ hasValues' = Append(hasValues, r)
  /\ UNCHANGED <<values, closed, closedAndEmpty, watcher, written, accepted, taken>>

\* Mutant of ReadValue: the watchers are not told.
ReadValueNoNotify(r) ==
  /\ reader[r] = "acquire"
  /\ values # <<>>
  /\ values' = Tail(values)
  /\ taken' = Append(taken, Head(values))
  /\ reader' = [reader EXCEPT ![r] = "idle"]
  /\ UNCHANGED <<closed, hasValues, closedAndEmpty, watcher, written, accepted>>

\* A value is there: take the oldest.
ReadValue(r) ==
  /\ reader[r] = "acquire"
  /\ values # <<>>
  /\ values' = Tail(values)
  /\ taken' = Append(taken, Head(values))
  /\ reader' = [reader EXCEPT ![r] = "idle"]
  /\ IF closed /\ values' = <<>> THEN NotifyWatchers ELSE UNCHANGED <<closedAndEmpty, watcher>>
  /\ UNCHANGED <<closed, hasValues, written, accepted>>

\* The pipe is closed and there is nothing more: Until ends the stream.
ReadEnd(r) ==
  /\ reader[r] = "acquire"
  /\ values = <<>> /\ closed
  /\ reader' = [reader EXCEPT ![r] = "ended"]
  /\ UNCHANGED <<values, closed, hasValues, closedAndEmpty, watcher, written, accepted, taken>>

-----------------------------------------------------------------------------

\* WaitForClosedAndEmpty evaluates its condition, the first time or again.
WaitForClosedAndEmpty(w) ==
  /\ watcher[w] \in {"idle", "acquire"}
  /\ IF values # <<>> \/ ~closed
       THEN /\ watcher' = [watcher EXCEPT ![w] = "waiting"]
            /\ closedAndEmpty' = Append(closedAndEmpty, w)
       ELSE /\ watcher' = [watcher EXCEPT ![w] = "returned"]
            /\ UNCHANGED closedAndEmpty
  /\ UNCHANGED <<values, closed, hasValues, reader, written, accepted, taken>>

ReadStep(r) == ReadWait(r) \/ ReadValue(r) \/ ReadEnd(r)

Next ==
  \/ Write
  \/ Close
  \/ \E r \in Readers : Ask(r) \/ ReadStep(r)
  \/ \E w \in Watchers : WaitForClosedAndEmpty(w)

Spec == Init /\ [][Next]_vars

-----------------------------------------------------------------------------

TypeOK ==
  /\ values \in Seq(1..MaxWrites)
  /\ closed \in BOOLEAN
  /\ hasValues \in Seq(Readers)
  /\ closedAndEmpty \in Seq(Watchers)
  /\ Listed(hasValues) = {r \in Readers : reader[r] = "waiting"}
  /\ Listed(closedAndEmpty) = {w \in Watchers : watcher[w] = "waiting"}
  /\ reader \in [Readers -> {"idle", "acquire", "waiting", "ended"}]
  /\ watcher \in [Watchers -> {"idle", "acquire", "waiting", "returned"}]
  /\ written \in 0..MaxWrites
  /\ accepted \in Seq(1..MaxWrites)
  /\ taken \in Seq(1..MaxWrites)

\* Readers get the accepted values in the order in which they were written,
\* each value one reader, and a reader whose stream ended, or a watcher that
\* returned, leaves nothing behind, now or later.
NothingLeftBehind ==
  /\ taken \o values = accepted
  /\ (\E r \in Readers : reader[r] = "ended") \/ (\E w \in Watchers : watcher[w] = "returned") =>
       closed /\ taken = accepted

\* Write() calls Notify() and not NotifyAll(), and a reader that was notified
\* may find its value taken by one that came later.  Even so, while a reader
\* waits there are as many others on their way as there are values, and none
\* waits once the pipe is closed.
NoReaderStranded ==
  hasValues # <<>> =>
    /\ ~closed
    /\ Len(values) <= Cardinality({r \in Readers : reader[r] = "acquire"})

\* A watcher waits only for what has not happened yet: whoever empties the
\* closed pipe, or closes the empty one, tells it.
NoWatcherStranded ==
  closedAndEmpty # <<>> => values # <<>> \/ ~closed

=============================================================================

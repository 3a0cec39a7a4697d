----------------------------- MODULE MCStreams -----------------------------
(***************************************************************************)
(* Streams.tla for TLC: a family of pipelines, and what each of them means *)
(* as a function on lists.                                                 *)
(***************************************************************************)
EXTENDS Streams

LOCAL INSTANCE FiniteSets
SX == INSTANCE SequencesExt

CONSTANTS MaxItems,   \* bound on the values of a source
          Repeats     \* how much of Repeat() the reference looks at

-----------------------------------------------------------------------------
(* Reference: a stream is a list and the way it ends; an eventual is a      *)
(* function from one such pair to another.                                  *)

List(items, tail) == [items |-> items, tail |-> tail]

\* The values before the first one that satisfies Bad, and all if none does.
Before(items, Bad(_)) ==
  LET j == SX!SelectInSeq(items, Bad) IN IF j = 0 THEN items ELSE SubSeq(items, 1, j - 1)

\* The way a list ends that is cut at the first value that satisfies Bad.
TailAt(list, Bad(_), Why(_)) ==
  LET j == SX!SelectInSeq(list.items, Bad) IN IF j = 0 THEN list.tail ELSE Why(list.items[j])

SourceList(e) ==
  CASE e.kind = "Stream" -> List(e.items, e.tail)
    [] e.kind = "Repeat" -> List([j \in 1..Repeats |-> 0], "Ended")
    [] e.kind = "Range" ->
         LET distance == IF e.step > 0 THEN e.to - e.from ELSE e.from - e.to
             stride == IF e.step > 0 THEN e.step ELSE -e.step
             count == IF stride = 0 \/ distance <= 0 THEN 0
                      ELSE (distance + stride - 1) \div stride
         IN List([j \in 1..count |-> e.from + (j - 1) * e.step], "Ended")

\* The inner streams one after the other, up to the first that does not end.
Joined(list, e) ==
  LET Goes(x) == Outcome(e, x) = "Start"
      Breaks(x) == ~Goes(x)
      j == SX!SelectInSeq(list.items, Breaks)
      outer == IF j = 0 THEN list.items ELSE SubSeq(list.items, 1, j)
  IN List(SX!FlattenSeq([k \in DOMAIN outer |-> e.f[outer[k]]]),
          TailAt(list, Breaks, LAMBDA x : Outcome(e, x)))

\* TakeRange(begin, 0) with begin > 0 finds out only from one value more.
Taken(list, e) ==
  LET end == e.begin + e.amount
      needed == IF e.amount = 0 /\ e.begin > 0 THEN end + 1 ELSE end
  IN IF Len(list.items) >= needed
       THEN List(SubSeq(list.items, e.begin + 1, end), "Ended")
       ELSE List(SubSeq(list.items, e.begin + 1, Len(list.items)), list.tail)

\* TakeLast gives nothing unless the stream above ends.
Kept(list, e) ==
  LET n == Len(list.items)
  IN IF list.tail = "Ended"
       THEN List(SubSeq(list.items, IF n > e.n THEN n - e.n + 1 ELSE 1, n), "Ended")
       ELSE List(<<>>, list.tail)

Applied(list, e) ==
  LET Breaks(x) == Outcome(e, x) # "Start"
      Halts(x) == Breaks(x) \/ x \in e.until
      mapped == Before(list.items, Breaks)
  IN CASE e.kind = "Map" -> List([k \in DOMAIN mapped |-> e.f[mapped[k]]],
                                 TailAt(list, Breaks, LAMBDA x : Outcome(e, x)))
       [] e.kind = "Filter" -> List(SelectSeq(list.items, LAMBDA x : x \in e.keep), list.tail)
       [] e.kind = "Until" -> List(Before(list.items, Halts),
                                   TailAt(list, Halts, LAMBDA x : IF Breaks(x) THEN Outcome(e, x)
                                                                  ELSE "Ended"))
       [] e.kind = "TakeRange" -> Taken(list, e)
       [] e.kind = "TakeLast" -> Kept(list, e)
       [] e.kind = "FlatMap" -> Joined(list, e)

\* What the first s eventuals of a pipeline give.
ListOf(p, s) == SX!FoldLeft(Applied, SourceList(p[1]), SubSeq(p, 2, s))

Answer(call, value) == [call |-> call, value |-> value]

\* An end other than "Ended" is the answer, without a value.
Unless(tail, value) == IF tail = "Ended" THEN Answer("Start", value) ELSE Answer(tail, <<>>)

ReducedTo(list, e) ==
  LET Halts(x) == Outcome(e, x) # "Start" \/ x \notin e.more
      j == SX!SelectInSeq(list.items, Halts)
  IN IF j = 0 THEN Unless(list.tail, list.items)
     ELSE IF Outcome(e, list.items[j]) = "Start" THEN Answer("Start", SubSeq(list.items, 1, j))
     ELSE Answer(Outcome(e, list.items[j]), <<>>)

\* How the source is called, position by position: an error goes past a task
\* or a generator that does not catch it.
Called(p, s) ==
  LET Step(acc, j) ==
        LET e == p[j] IN
        CASE j < acc.to -> acc
          [] acc.call = "Start" /\ e.kind = "Eventual" -> [acc EXCEPT !.call = e.outcome]
          [] acc.call = "Fail" /\ e.kind = "Catch" ->
               [acc EXCEPT !.call = IF e.handles THEN e.outcome ELSE "Fail"]
          [] acc.call = "Fail" /\ e.kind \in {"Task", "Generator"} /\ ~e.catches ->
               [acc EXCEPT !.to = j + e.length + 2]
          [] OTHER -> acc
  IN SX!FoldLeft(Step, [call |-> "Start", to |-> 1], [j \in 1..s |-> j]).call

SourceOf(p) == CHOOSE s \in DOMAIN p : p[s].kind \in Sources

\* The stream's part of a pipeline, without what type erasure adds to it.
Plain(p) ==
  SelectSeq(SubSeq(p, SourceOf(p), Len(p)),
            LAMBDA e : e.kind \notin {"Transformer", "Adaptor"})

Meaning(p) ==
  LET call == Called(p, SourceOf(p))
      q == Plain(p)
      list == ListOf(q, Len(q) - 1)
      sink == q[Len(q)]
  IN CASE call # "Start" -> Answer(call, <<>>)
       [] sink.kind = "Loop" -> Unless(list.tail, <<>>)
       [] sink.kind = "Collect" -> Unless(list.tail, list.items)
       [] sink.kind = "Head" ->
            IF list.items # <<>> THEN Answer("Start", <<Head(list.items)>>)
            ELSE Answer(IF list.tail = "Ended" THEN "Fail" ELSE list.tail, <<>>)
       [] sink.kind = "Reduce" -> ReducedTo(list, sink)

\* The end of every TakeRange is a size_t.
Fits(p) == \A s \in DOMAIN p : p[s].kind = "TakeRange" => p[s].begin + p[s].amount <= MaxSize

\* And every TakeLast keeps values, and finds some; what is inside a Transformer
\* does not ask a stream; and a Task::Success() is not stopped, nor failed with
\* an error that it catches.
Defined(p) ==
  /\ Fits(p)
  /\ LET q == Plain(p) IN
     \A s \in DOMAIN q : q[s].kind = "TakeLast" =>
       LET above == ListOf(q, s - 1)
       IN q[s].n > 0 /\ (above.tail = "Ended" => above.items # <<>>)
  /\ \A s \in DOMAIN p :
       /\ p[s].kind = "Transformer" =>
            \A j \in 1..p[s].length : p[s + j].kind = "Map"
       /\ p[s].kind = "Success" =>
            Called(p, s) \in {"Start"} \cup (IF p[s].catches THEN {} ELSE {"Fail"})

-----------------------------------------------------------------------------
(* The pipelines: every source, with every one or two transformers, and     *)
(* every end; Repeat() only where something below it stops asking.          *)

Up1 == [x \in Values |-> IF x + 1 \in Values THEN x + 1 ELSE 0]
Count == [x \in Values |-> [j \in 1..x |-> j]]

FiniteSources ==
  {Iterate(items) : items \in SX!BoundedSeq(Values \ {0}, MaxItems)}
    \cup {Stream(items, tail) : items \in {<<>>, <<1>>, <<2, 1>>}, tail \in {"Fail", "Stop"}}
    \cup {RangeOf(0, 3, 1), RangeOf(0, 3, 2), RangeOf(2, -1, -2), RangeOf(1, 1, 1), RangeOf(0, 2, -1)}

Takers == {TakeFirst(0), TakeFirst(2), TakeRange(1, 1), TakeRange(1, 0), TakeRange(2, 2),
           TakeRange(2, MaxSize)}

Transformers ==
  Takers \cup {Map(Up1, {}, {}), Map(Up1, {2}, {3}), Filter({1}), Until({2}, {}, {}),
               Until({}, {1}, {3}), TakeLast(0), TakeLast(1), TakeLast(2),
               FlatMap(Count, {}, {}), FlatMap(Count, {2}, {3})}

Ends == {Loop, Collect, HeadOf, Reduce({0, 1, 3}, {}, {}), Reduce({1}, {2}, {3})}

Befores == {Eventual("Start"), Eventual("Fail"), Eventual("Stop")}

Lines == {<<>>} \cup {<<t>> : t \in Transformers} \cup (Transformers \X Transformers)

SmallPipelines ==
  {<<src>> \o line \o <<end>> : src \in FiniteSources, line \in Lines, end \in Ends}
    \cup {<<Repeat, t, u, end>> : t \in Takers, u \in Transformers, end \in Ends}
    \cup {<<Repeat, Map(Up1, {}, {}), t, end>> : t \in Takers, end \in Ends}
    \cup {<<before, src>> \o Foreach(Up1) :
             before \in Befores, src \in {Iterate(<<1, 2>>), RangeOf(0, 2, 1)}}
    \cup {<<before, Repeat, TakeFirst(2), Collect>> : before \in Befores}
    \cup {<<Repeat, t, HeadOf>> : t \in {Map(Up1, {}, {}), Until({0}, {}, {})}}

\* What a task, a generator and a transformer may be made of.
Tasks ==
  {<<>>, <<Success(TRUE)>>, <<Success(FALSE)>>}
    \cup {Task(catches, <<e>>) :
             catches \in BOOLEAN,
             e \in {Eventual("Start"), Eventual("Fail"), Eventual("Stop"), Catch(FALSE, "Start")}
                    \cup {Catch(TRUE, out) : out \in {"Start", "Fail", "Stop"}}}

Generators ==
  {<<Iterate(<<1, 2>>)>>}
    \cup {Generator(catches, inner) :
             catches \in BOOLEAN,
             inner \in {<<Iterate(<<1, 2>>), Map(Up1, {}, {3})>>, <<Stream(<<2, 1>>, "Fail")>>,
                        <<Catch(TRUE, "Start"), RangeOf(0, 3, 1), TakeFirst(2)>>}}

ErasedLines ==
  {<<>>} \cup {Transformer(catches, inner) :
                  catches \in BOOLEAN,
                  inner \in {<<Map(Up1, {2}, {3})>>, <<Map(Up1, {}, {}), Map(Up1, {3}, {2})>>,
                             <<Filter({1})>>}}

ErasedPipelines ==
  {<<before>> \o task \o generator \o line \o <<end>> :
     before \in Befores, task \in Tasks, generator \in Generators, line \in ErasedLines,
     end \in {Collect, HeadOf}}

AllPipelines == SmallPipelines \cup ErasedPipelines

-----------------------------------------------------------------------------

(* A pipeline gives what its eventuals mean as functions on lists: no value *)
(* is lost, given twice or given out of order, whatever the mix of Next and *)
(* Done that the eventuals below send up, and no CHECK of FlatMap or        *)
(* TakeRange fails.  For pipelines whose TakeLast has a value to give, and  *)
(* whose TakeRange does not end past the largest size_t: TakeRange(2,       *)
(* SIZE_MAX), "all but two", fails its CHECK.  And for those whose          *)
(* transformers and tasks are as Defined says: what is inside a Transformer *)
(* is not given Begin, and Task::Success() fails a CHECK when it is stopped.*)
Denotes == result.call # "None" /\ Defined(pipe) => result = Meaning(pipe)

(* "Handle the case where the stream contained fewer than `n_` values"      *)
(* (take.h:57): the same for every pipeline, one with fewer than one value  *)
(* included.                                                                *)
TakeLastHandlesFewer ==
  result.call # "None" /\ Fits(pipe) /\ TakeLast(0) \notin SX!ToSet(pipe)
    => result = Meaning(pipe)

=============================================================================

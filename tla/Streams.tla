------------------------------ MODULE Streams ------------------------------
(***************************************************************************)
(* The protocol that streams, transformers and loops speak (stream.h,      *)
(* type-erased-stream.h and the eventuals built on them).  A pipeline is   *)
(* a sequence of eventuals: a source, transformers, and an eventual that   *)
(* turns the stream into one value.  Questions (Next, Done) go up to the   *)
(* stream an eventual was given by Begin; answers (Body, Ended, Fail,      *)
(* Stop) go down to the next eventual, k_.                                 *)
(*                                                                         *)
(* A pipeline is one chain of calls, so one call is under way at a time:   *)
(* `signal`.  Every handler ends in the call it makes next (a tail call,   *)
(* possibly resubmitted by previous_->Continue(), which keeps the order).  *)
(***************************************************************************)
EXTENDS Integers, Sequences

CONSTANTS Values,      \* what a stream may carry; Repeat() carries nothing, written 0
          Pipelines,   \* the pipelines to consider: sequences of the records below
          MaxInt,      \* the largest int; the smallest is -MaxInt - 1
          MaxSize      \* the largest size_t

ASSUME StreamsAssumption == /\ MaxInt \in Nat \ {0} /\ MaxSize \in Nat
                            /\ Values \subseteq (-MaxInt - 1)..MaxInt
                            /\ 0 \in Values

-----------------------------------------------------------------------------
(* The eventuals of a pipeline, as their builders make them.                *)

\* What comes before the stream: an eventual that starts its k_, fails or stops;
\* and a Catch, of which a handler for the error makes an eventual, or none does.
Eventual(outcome) == [kind |-> "Eventual", outcome |-> outcome]

Catch(handles, outcome) == [kind |-> "Catch", handles |-> handles, outcome |-> outcome]

\* Task::Success(): a task that has its value.
Success(catches) == [kind |-> "Success", catches |-> catches]

\* A type-erased eventual: those inside it lie between its continuation and its
\* adaptor.  It catches the errors of what is above it, or none of them.
Erased(kind, catches, inner) ==
  <<[kind |-> kind, catches |-> catches, length |-> Len(inner)]>>
    \o inner \o <<[kind |-> "Adaptor", of |-> kind]>>

Task(catches, inner) == Erased("Task", catches, inner)

Generator(catches, inner) == Erased("Generator", catches, inner)

Transformer(catches, inner) == Erased("Transformer", catches, inner)

\* Stream().next(...).done(...): gives `items`, then calls `tail`
\* ("Ended", "Fail" or "Stop").
Stream(items, tail) == [kind |-> "Stream", items |-> items, tail |-> tail]

Iterate(items) == Stream(items, "Ended")

RangeOf(from, to, step) == [kind |-> "Range", from |-> from, to |-> to, step |-> step]

Repeat == [kind |-> "Repeat"]

\* The eventual inside Map() starts its k_ with f[x], or fails, or stops.
Map(f, fails, stops) == [kind |-> "Map", f |-> f, fails |-> fails, stops |-> stops]

Filter(keep) == [kind |-> "Filter", keep |-> keep]

\* The eventual inside Until() says done for the values in `until`.
Until(until, fails, stops) ==
  [kind |-> "Until", until |-> until, fails |-> fails, stops |-> stops]

TakeRange(begin, amount) == [kind |-> "TakeRange", begin |-> begin, amount |-> amount]

TakeFirst(amount) == TakeRange(0, amount)

TakeLast(n) == [kind |-> "TakeLast", n |-> n]

\* f[x] is what the inner stream of x gives before it ends, fails or stops.
FlatMap(f, fails, stops) == [kind |-> "FlatMap", f |-> f, fails |-> fails, stops |-> stops]

Loop == [kind |-> "Loop"]

Collect == [kind |-> "Collect"]

HeadOf == [kind |-> "Head"]

Foreach(f) == <<Map(f, {}, {}), Loop>>

\* The eventual inside Reduce() adds x to the accumulator, and asks for more
\* when x is in `more`.
Reduce(more, fails, stops) == [kind |-> "Reduce", more |-> more, fails |-> fails, stops |-> stops]

Sources == {"Stream", "Range", "Repeat"}

\* The eventuals that are a TypeErasedStream.
StreamKinds == Sources \cup {"TakeRange", "TakeLast", "FlatMap"}

\* How the eventual e makes for the value x comes out.
Outcome(e, x) == IF x \in e.fails THEN "Fail" ELSE IF x \in e.stops THEN "Stop" ELSE "Start"

-----------------------------------------------------------------------------
(* What the eventuals expect of each other (Expects and CanCompose, which   *)
(* operator>> asserts for the two that it composes).                        *)

\* The eventuals of a pipeline that are streams.
AreStreams(p) == {s \in DOMAIN p : p[s].kind \in StreamKinds}

\* Where the k_ of the type-erased continuation at s is.
After(p, s) == s + p[s].length + 2

ErasedKinds == {"Task", "Generator", "Transformer"}

ValueKinds == {"Eventual", "Catch", "Success", "Task", "Generator"}

StreamToStream == {"Map", "Filter", "Until", "TakeRange", "TakeLast", "FlatMap", "Transformer"}

StreamToValue == {"Loop", "Collect", "Head", "Reduce"}

\* What may be at s of a pipeline whose source is at src: eventuals of one value,
\* the source, eventuals from streams to streams, and one that ends the stream.
Composes(p, s, src) ==
  /\ s < src => p[s].kind \in ValueKinds \/ (p[s].kind = "Adaptor" /\ p[s].of = "Task")
  /\ s = src => p[s].kind \in Sources
  /\ s > src /\ s < Len(p) => \/ p[s].kind \in StreamToStream
                              \/ p[s].kind = "Adaptor" /\ p[s].of # "Task"
  /\ s > src /\ s = Len(p) => p[s].kind \in StreamToValue

\* What is type-erased is closed by its adaptor: before the source for a task, after
\* it for a generator.  A transformer has no stream inside, since its continuation
\* keeps Begin from what it erases.
Encloses(p, s, src) ==
  /\ p[s].length \in Nat /\ After(p, s) <= Len(p) /\ p[After(p, s) - 1].kind = "Adaptor"
  /\ p[s].kind = "Task" => After(p, s) <= src
  /\ p[s].kind = "Generator" => After(p, s) > src
  /\ p[s].kind = "Transformer" => \A t \in AreStreams(p) : t < s \/ t >= After(p, s)

\* The source of pipeline p is at src.
SourceIsAt(p, src) ==
  /\ Len(p) \in Nat /\ DOMAIN p = 1..Len(p)
  /\ src \in 1..(Len(p) - 1)
  /\ \A s \in 1..Len(p) :
       /\ Composes(p, s, src)
       /\ p[s].kind \in ErasedKinds => Encloses(p, s, src)
       /\ p[s].kind \in {"Eventual", "Catch"} => p[s].outcome \in {"Start", "Fail", "Stop"}
       /\ p[s].kind = "Stream" => p[s].tail \in {"Ended", "Fail", "Stop"}

\* A pipeline that the types of its eventuals allow: its source gives a stream to what
\* expects one.
WellFormed(p) == \E src \in DOMAIN p : SourceIsAt(p, src)

ASSUME PipelinesAssumption == \A p \in Pipelines : WellFormed(p)

-----------------------------------------------------------------------------

VARIABLES
  pipe,     \* the pipeline, chosen at the start
  memory,   \* the members of each continuation that change
  stream,   \* stream_ (outer_ in FlatMap) of each continuation, 0 for nullptr
  signal,   \* the call under way: which, on which continuation, its argument
  result,   \* what reached the end of the pipeline
  asked     \* history: what each stream was asked and has yet to answer

streamVars == <<pipe, memory, stream, signal, result, asked>>

Nothing == [call |-> "None", at |-> 0, arg |-> 0]
Pending == [call |-> "None", value |-> <<>>]

\* from_ or i_; data_, the rest of a container, collection, t_ or arg_;
\* ended_; FlatMap's adapted_ and inner_ ("no", "started": inner_ is still
\* nullptr, "begun") and its done_.  For an adaptor, adapted is whether it has
\* its callbacks.
Fresh(e) == [i |-> IF e.kind = "Range" THEN e.from ELSE 0,
             data |-> IF e.kind = "Stream" THEN e.items ELSE <<>>,
             ended |-> FALSE, adapted |-> "no", tail |-> "Ended", done |-> FALSE]

StreamsInit ==
  /\ pipe \in Pipelines
  /\ memory = [s \in DOMAIN pipe |-> Fresh(pipe[s])]
  /\ stream = [s \in DOMAIN pipe |-> 0]
  /\ signal = [call |-> "Start", at |-> 1, arg |-> 0]
  /\ result = Pending
  /\ asked = [s \in DOMAIN pipe |-> "No"]

\* The continuation that the call is on, and what it is.
Here == signal.at
This == pipe[Here]
Mine == memory[Here]
At(call, kinds) == signal.call = call /\ This.kind \in kinds

\* The history after a call: a stream owes an answer from a question on, and
\* is over once it answered with anything but a value.
Noted(call, at) ==
  IF call \in {"Next", "Done"} THEN [asked EXCEPT ![at] = call]
  ELSE IF at > 1 /\ pipe[at - 1].kind \in StreamKinds /\ call # "Begin"
         THEN [asked EXCEPT ![at - 1] = IF call = "Body" THEN "No" ELSE "Over"]
  ELSE asked

\* The next call: any, down on k_, up on stream_, or on FlatMap's inner stream.
Send(call, at, arg) ==
  /\ signal' = [call |-> call, at |-> at, arg |-> arg]
  /\ asked' = Noted(call, at)
  /\ UNCHANGED <<pipe, result>>

Down(call, arg) == Send(call, Here + 1, arg)

Inner(call, arg) ==
  /\ signal' = [call |-> call, at |-> Here, arg |-> arg]
  /\ UNCHANGED <<pipe, result, asked>>

\* The end of the pipeline: k_.Start(value), k_.Fail() or k_.Stop() of the
\* last eventual, or the end of the process in a CHECK.
Finish(call, value) ==
  /\ signal' = Nothing
  /\ result' = [call |-> call, value |-> value]
  /\ UNCHANGED <<pipe, asked>>

Abort == Finish("Abort", <<>>)

\* Without a Begin there is no stream to ask.
Up(call) == IF stream[Here] = 0 THEN Abort ELSE Send(call, stream[Here], 0)

\* Begin of a continuation that hands on the stream it is given, and of one
\* that is a stream itself.
BeginThrough(kind) ==
  /\ At("Begin", {kind})
  /\ stream' = [stream EXCEPT ![Here] = signal.arg]
  /\ Down("Begin", signal.arg)
  /\ UNCHANGED memory

BeginAsStream(kind) ==
  /\ At("Begin", {kind})
  /\ stream' = [stream EXCEPT ![Here] = signal.arg]
  /\ Down("Begin", Here)
  /\ UNCHANGED memory

\* Begin of a continuation that asks for the first value at once.
BeginAndAsk(kinds) ==
  /\ At("Begin", kinds)
  /\ stream' = [stream EXCEPT ![Here] = signal.arg]
  /\ Send("Next", signal.arg, 0)
  /\ UNCHANGED memory

\* Calls that a continuation hands on as they are.
HandOn(calls, kind) ==
  /\ signal.call \in calls /\ This.kind = kind
  /\ Down(signal.call, 0)
  /\ UNCHANGED <<memory, stream>>

FinishAs(calls, kinds) ==
  /\ signal.call \in calls /\ This.kind \in kinds
  /\ Finish(signal.call, <<>>)
  /\ UNCHANGED <<memory, stream>>

Remember(record) == memory' = [memory EXCEPT ![Here] = record]
Unchanged == UNCHANGED <<memory, stream>>

-----------------------------------------------------------------------------
(* Sources.                                                                 *)

EventualStart == At("Start", {"Eventual"}) /\ Down(This.outcome, 0) /\ Unchanged

EventualFails == HandOn({"Fail", "Stop"}, "Eventual")

CatchStart == HandOn({"Start", "Stop"}, "Catch")

\* The first handler that takes the error goes on with k_.
CatchFail ==
  /\ At("Fail", {"Catch"})
  /\ Down(IF This.handles THEN This.outcome ELSE "Fail", 0)
  /\ Unchanged

\* Start: k_.Begin(*this).
StreamStart == At("Start", {"Stream"}) /\ Down("Begin", Here) /\ Unchanged

RangeStart == At("Start", {"Range"}) /\ Down("Begin", Here) /\ Unchanged

RepeatStart == At("Start", {"Repeat"}) /\ Down("Begin", Here) /\ Unchanged

\* What comes before failed or stopped.
StreamFails == HandOn({"Fail", "Stop"}, "Stream")

RangeFails == HandOn({"Fail", "Stop"}, "Range")

RepeatFails == HandOn({"Fail", "Stop"}, "Repeat")

\* next_(): k.Emit(*(begin++)), or the end of the container.
StreamNext ==
  /\ At("Next", {"Stream"})
  /\ IF Mine.data # <<>>
       THEN /\ Down("Body", Head(Mine.data))
            /\ Remember([Mine EXCEPT !.data = Tail(@)])
       ELSE /\ Down(This.tail, 0)
            /\ UNCHANGED memory
  /\ UNCHANGED stream

\* done_(): k.Ended().
StreamDone == At("Done", {"Stream"}) /\ Down("Ended", 0) /\ Unchanged

\* Addition of two ints, where an overflow wraps.
Plus(a, b) == ((a + b + MaxInt + 1) % (2 * MaxInt + 2)) - MaxInt - 1

RangeNext ==
  /\ At("Next", {"Range"})
  /\ IF \/ Mine.i = This.to
        \/ This.step = 0
        \/ Mine.i > This.to /\ This.step > 0
        \/ Mine.i < This.to /\ This.step < 0
       THEN Down("Ended", 0) /\ UNCHANGED memory
       ELSE /\ Remember([Mine EXCEPT !.i = Plus(@, This.step)])
            /\ Down("Body", Mine.i)
  /\ UNCHANGED stream

RangeDone == At("Done", {"Range"}) /\ Down("Ended", 0) /\ Unchanged

RepeatNext == At("Next", {"Repeat"}) /\ Down("Body", 0) /\ Unchanged

RepeatDone == At("Done", {"Repeat"}) /\ Down("Ended", 0) /\ Unchanged

-----------------------------------------------------------------------------
(* Type erasure.                                                            *)

\* k_ of a type-erased continuation.
Behind == Here + This.length + 2

\* The eventual on the heap: the callbacks are stored where its adaptor finds
\* them, and it is called.
HeapCall(call, arg) ==
  /\ memory' = [memory EXCEPT ![Behind - 1].adapted = "begun"]
  /\ Down(call, arg)
  /\ UNCHANGED stream

HeapTask(call) == HeapCall(call, 0)

HeapGenerator(call) == HeapCall(call, 0)

HeapTransformer(call, arg) == HeapCall(call, arg)

\* What goes past the eventual on the heap.
SkipTo(call, arg) == Send(call, Behind, arg) /\ Unchanged

TaskStart == At("Start", {"Task"}) /\ HeapTask("Start")

TaskFail ==
  /\ At("Fail", {"Task"})
  /\ IF This.catches THEN HeapTask("Fail") ELSE SkipTo("Fail", 0)

TaskStop == At("Stop", {"Task"}) /\ HeapTask("Stop")

\* A value in place of the eventual: only Start knows of it.
SuccessStart == At("Start", {"Success"}) /\ Down("Start", 0) /\ Unchanged

SuccessFail ==
  /\ At("Fail", {"Success"})
  /\ IF This.catches THEN Abort ELSE Down("Fail", 0)
  /\ Unchanged

SuccessStop == At("Stop", {"Success"}) /\ Abort /\ Unchanged

GeneratorStart == At("Start", {"Generator"}) /\ HeapGenerator("Start")

GeneratorFail ==
  /\ At("Fail", {"Generator"})
  /\ IF This.catches THEN HeapGenerator("Fail") ELSE SkipTo("Fail", 0)

GeneratorStop == At("Stop", {"Generator"}) /\ HeapGenerator("Stop")

\* Begin and Ended are not for the eventual on the heap.
TransformerBegin == At("Begin", {"Transformer"}) /\ SkipTo("Begin", signal.arg)

TransformerEnded == At("Ended", {"Transformer"}) /\ SkipTo("Ended", 0)

TransformerBody == At("Body", {"Transformer"}) /\ HeapTransformer("Body", signal.arg)

TransformerFail ==
  /\ At("Fail", {"Transformer"})
  /\ IF This.catches THEN HeapTransformer("Fail", 0) ELSE SkipTo("Fail", 0)

TransformerStop == At("Stop", {"Transformer"}) /\ HeapTransformer("Stop", 0)

\* The adaptor at the end of the eventual on the heap runs the callback, which
\* calls k_; a stream that begins is handed on as it is.
RunCallback(calls, kind) ==
  /\ signal.call \in calls /\ This.kind = "Adaptor" /\ This.of = kind
  /\ IF Mine.adapted = "begun" THEN Down(signal.call, signal.arg) ELSE Abort
  /\ Unchanged

TaskCallback == RunCallback({"Start", "Fail", "Stop"}, "Task")

GeneratorCallback == RunCallback({"Begin", "Body", "Ended", "Fail", "Stop"}, "Generator")

TransformerCallback == RunCallback({"Body", "Fail", "Stop"}, "Transformer")

-----------------------------------------------------------------------------
(* Transformers that leave the stream as it is.                             *)

MapBegin == BeginThrough("Map")

FilterBegin == BeginThrough("Filter")

UntilBegin == BeginThrough("Until")

MapEnds == HandOn({"Ended", "Fail", "Stop"}, "Map")

FilterEnds == HandOn({"Ended", "Fail", "Stop"}, "Filter")

UntilEnds == HandOn({"Ended", "Fail", "Stop"}, "Until")

\* Map: the eventual starts its adaptor, which calls k_.Body().
MapBody ==
  /\ At("Body", {"Map"})
  /\ LET out == Outcome(This, signal.arg)
     IN IF out = "Start" THEN Down("Body", This.f[signal.arg]) ELSE Down(out, 0)
  /\ Unchanged

\* Mutant of FilterBody: a value that is left out is not replaced.
FilterBodyStuck ==
  /\ At("Body", {"Filter"})
  /\ signal.arg \in This.keep
  /\ Down("Body", signal.arg)
  /\ Unchanged

FilterBody ==
  /\ At("Body", {"Filter"})
  /\ IF signal.arg \in This.keep THEN Down("Body", signal.arg) ELSE Up("Next")
  /\ Unchanged

SaysDone(e, x) == x \in e.until

\* Until: the value that says done is not handed on.
UntilBody ==
  /\ At("Body", {"Until"})
  /\ LET out == Outcome(This, signal.arg)
     IN \/ out # "Start" /\ Down(out, 0)
        \/ out = "Start" /\ SaysDone(This, signal.arg) /\ Up("Done")
        \/ out = "Start" /\ ~SaysDone(This, signal.arg) /\ Down("Body", signal.arg)
  /\ Unchanged

-----------------------------------------------------------------------------
(* Transformers that are streams themselves.                                *)

TakeRangeBegin == BeginAsStream("TakeRange")

TakeLastBegin == BeginAsStream("TakeLast")

TakeRangeEnds == HandOn({"Ended", "Fail", "Stop"}, "TakeRange")

TakeLastFails == HandOn({"Fail", "Stop"}, "TakeLast")

\* begin_ + amount_, a size_t, which wraps.
End(e) == (e.begin + e.amount) % (MaxSize + 1)

TakeRangeBody ==
  /\ At("Body", {"TakeRange"})
  /\ LET i == Mine.i
     IN IF This.begin <= i /\ i < End(This)
          THEN Down("Body", signal.arg) /\ Remember([Mine EXCEPT !.i = @ + 1])
        ELSE IF i < This.begin
          THEN Up("Next") /\ Remember([Mine EXCEPT !.i = @ + 1])
        ELSE /\ IF i = End(This) THEN Up("Done") ELSE Abort
             /\ UNCHANGED memory
  /\ UNCHANGED stream

TakeRangeNext ==
  /\ At("Next", {"TakeRange"})
  /\ IF Mine.i < End(This) THEN Up("Next")
     ELSE IF Mine.i = End(This) THEN Up("Done")
     ELSE Abort
  /\ Unchanged

TakeRangeDone == At("Done", {"TakeRange"}) /\ Up("Done") /\ Unchanged

\* Keep the last n_ values.  TakeLast(0) pops from an empty deque, which is
\* undefined: the process crashes, or the deque is left empty or with the value.
TakeLastBody ==
  /\ At("Body", {"TakeLast"})
  /\ LET full == Len(Mine.data) = This.n
         kept == IF full /\ Mine.data # <<>> THEN Tail(Mine.data) ELSE Mine.data
     IN \/ full /\ Mine.data = <<>> /\ Abort /\ UNCHANGED memory
        \/ full /\ Mine.data = <<>> /\ Up("Next") /\ UNCHANGED memory
        \/ Up("Next") /\ Remember([Mine EXCEPT !.data = Append(kept, signal.arg)])
  /\ UNCHANGED stream

\* Give the oldest value that is kept.  When there is none, front() and
\* pop_front() are undefined: the process crashes or some value is given.
TakeLastEnded ==
  /\ At("Ended", {"TakeLast"})
  /\ \/ /\ Mine.data # <<>>
        /\ Down("Body", Head(Mine.data))
        /\ Remember([Mine EXCEPT !.ended = TRUE, !.data = Tail(@)])
     \/ /\ Mine.data = <<>>
        /\ \/ Abort
           \/ \E x \in Values : Down("Body", x)
        /\ Remember([Mine EXCEPT !.ended = TRUE])
  /\ UNCHANGED stream

\* Mutant of TakeLastNext: asks the stream that has ended.
TakeLastNextAsks ==
  /\ At("Next", {"TakeLast"})
  /\ IF ~Mine.ended \/ Mine.data = <<>> THEN Up("Next") /\ UNCHANGED memory
     ELSE /\ Down("Body", Head(Mine.data))
          /\ Remember([Mine EXCEPT !.data = Tail(@)])
  /\ UNCHANGED stream

TakeLastNext ==
  /\ At("Next", {"TakeLast"})
  /\ IF ~Mine.ended THEN Up("Next") /\ UNCHANGED memory
     ELSE IF Mine.data = <<>> THEN Down("Ended", 0) /\ UNCHANGED memory
     ELSE /\ Down("Body", Head(Mine.data))
          /\ Remember([Mine EXCEPT !.data = Tail(@)])
  /\ UNCHANGED stream

\* Done does not go further up.
TakeLastDone == At("Done", {"TakeLast"}) /\ Down("Ended", 0) /\ Unchanged

-----------------------------------------------------------------------------
(* FlatMap: a stream of the values of the streams that f gives.             *)

FlatMapBegin == BeginAsStream("FlatMap")

FlatMapFails == HandOn({"Fail"}, "FlatMap")

\* A value of the outer stream: adapted_.emplace(), adapted_->Start().
FlatMapBody ==
  /\ At("Body", {"FlatMap"})
  /\ IF Mine.adapted # "no" THEN Abort /\ UNCHANGED memory
     ELSE /\ Inner("InnerBegin", 0)
          /\ Remember([Mine EXCEPT !.adapted = "started", !.data = This.f[signal.arg],
                         !.tail = LET out == Outcome(This, signal.arg)
                                  IN IF out = "Start" THEN "Ended" ELSE out])
  /\ UNCHANGED stream

\* Adaptor::Begin(): inner_ = &stream, inner_->Next().
AdaptorBegin ==
  /\ At("InnerBegin", {"FlatMap"})
  /\ IF Mine.adapted = "started"
       THEN /\ Inner("InnerNext", 0)
            /\ Remember([Mine EXCEPT !.adapted = "begun"])
       ELSE Abort /\ UNCHANGED memory
  /\ UNCHANGED stream

\* The inner stream: a value for Adaptor::Body(), or its end.
InnerNext ==
  /\ At("InnerNext", {"FlatMap"})
  /\ IF Mine.data # <<>>
       THEN /\ Down("Body", Head(Mine.data))
            /\ Remember([Mine EXCEPT !.data = Tail(@)])
     ELSE IF Mine.tail = "Ended" THEN Inner("InnerEnded", 0) /\ UNCHANGED memory
     ELSE Down(Mine.tail, 0) /\ Remember([Mine EXCEPT !.done = @ \/ Mine.tail = "Stop"])
  /\ UNCHANGED stream

InnerDone == At("InnerDone", {"FlatMap"}) /\ Inner("InnerEnded", 0) /\ Unchanged

\* Adaptor::Ended(): drop the inner stream, and ask the outer one.
AdaptorEnded ==
  /\ At("InnerEnded", {"FlatMap"})
  /\ IF Mine.adapted = "begun"
       THEN /\ Remember([Mine EXCEPT !.adapted = "no"])
            /\ IF Mine.done THEN Up("Done") ELSE Up("Next")
       ELSE Abort /\ UNCHANGED memory
  /\ UNCHANGED stream

FlatMapEnded ==
  /\ At("Ended", {"FlatMap"})
  /\ IF Mine.adapted = "no" THEN Down("Ended", 0) ELSE Abort
  /\ Unchanged

FlatMapNext ==
  /\ At("Next", {"FlatMap"})
  /\ IF Mine.adapted = "no" THEN Up("Next")
     ELSE IF Mine.adapted = "begun" THEN Inner("InnerNext", 0)
     ELSE Abort
  /\ Unchanged

\* Mutant of FlatMapDone: only the inner stream hears of it.
FlatMapDoneForgets ==
  /\ At("Done", {"FlatMap"})
  /\ IF Mine.adapted = "no" THEN Up("Done")
     ELSE IF Mine.adapted = "begun" THEN Inner("InnerDone", 0)
     ELSE Abort
  /\ Unchanged

\* done_ is for the inner stream's Ended, which tells the outer one.
FlatMapDone ==
  /\ At("Done", {"FlatMap"})
  /\ Remember([Mine EXCEPT !.done = TRUE])
  /\ IF Mine.adapted = "no" THEN Up("Done")
     ELSE IF Mine.adapted = "begun" THEN Inner("InnerDone", 0)
     ELSE Abort
  /\ UNCHANGED stream

\* Stop() from the outer stream.
FlatMapStop ==
  /\ At("Stop", {"FlatMap"})
  /\ Remember([Mine EXCEPT !.done = TRUE])
  /\ Down("Stop", 0)
  /\ UNCHANGED stream

-----------------------------------------------------------------------------
(* The end of the stream.                                                   *)

LoopBegin == BeginAndAsk({"Loop", "Collect"})

HeadBegin == BeginAndAsk({"Head"})

ReduceBegin == BeginAndAsk({"Reduce"})

LoopFails == FinishAs({"Fail", "Stop"}, {"Loop", "Collect"})

HeadFails == FinishAs({"Fail", "Stop"}, {"Head"})

ReduceFails == FinishAs({"Fail", "Stop"}, {"Reduce"})

LoopBody == At("Body", {"Loop"}) /\ Up("Next") /\ Unchanged

CollectBody ==
  /\ At("Body", {"Collect"})
  /\ Remember([Mine EXCEPT !.data = Append(@, signal.arg)])
  /\ Up("Next")
  /\ UNCHANGED stream

\* Mutant of HeadBody: answers without calling the stream off.
HeadBodyStarts ==
  /\ At("Body", {"Head"})
  /\ Finish("Start", <<signal.arg>>)
  /\ Unchanged

HeadBody ==
  /\ At("Body", {"Head"})
  /\ Remember([Mine EXCEPT !.data = <<signal.arg>>])
  /\ Up("Done")
  /\ UNCHANGED stream

\* The eventual updates t_ before it says whether it wants more.
ReduceBody ==
  /\ At("Body", {"Reduce"})
  /\ LET out == Outcome(This, signal.arg)
     IN \/ out # "Start" /\ Finish(out, <<>>) /\ UNCHANGED memory
        \/ /\ out = "Start"
           /\ Remember([Mine EXCEPT !.data = Append(@, signal.arg)])
           /\ IF signal.arg \in This.more THEN Up("Next") ELSE Up("Done")
  /\ UNCHANGED stream

\* ended_ or k_.Start(): what was gathered.
LoopEnded == At("Ended", {"Loop", "Collect"}) /\ Finish("Start", Mine.data) /\ Unchanged

ReduceEnded == At("Ended", {"Reduce"}) /\ Finish("Start", Mine.data) /\ Unchanged

\* A stream without a value is an error.
HeadEnded ==
  /\ At("Ended", {"Head"})
  /\ IF Mine.data # <<>> THEN Finish("Start", Mine.data) ELSE Finish("Fail", <<>>)
  /\ Unchanged

-----------------------------------------------------------------------------

SourceStep ==
  \/ EventualStart \/ EventualFails \/ CatchStart \/ CatchFail
  \/ StreamStart \/ RangeStart \/ RepeatStart
  \/ StreamFails \/ RangeFails \/ RepeatFails
  \/ StreamNext \/ StreamDone \/ RangeNext \/ RangeDone \/ RepeatNext \/ RepeatDone

ErasedStep ==
  \/ TaskStart \/ TaskFail \/ TaskStop \/ TaskCallback
  \/ SuccessStart \/ SuccessFail \/ SuccessStop
  \/ GeneratorStart \/ GeneratorFail \/ GeneratorStop \/ GeneratorCallback
  \/ TransformerBegin \/ TransformerBody \/ TransformerEnded
  \/ TransformerFail \/ TransformerStop \/ TransformerCallback

TransformerStep ==
  \/ MapBegin \/ MapBody \/ MapEnds
  \/ FilterBegin \/ FilterBody \/ FilterEnds
  \/ UntilBegin \/ UntilBody \/ UntilEnds
  \/ TakeRangeBegin \/ TakeRangeBody \/ TakeRangeNext \/ TakeRangeDone \/ TakeRangeEnds
  \/ TakeLastBegin \/ TakeLastBody \/ TakeLastEnded \/ TakeLastNext \/ TakeLastDone
  \/ TakeLastFails

FlatMapStep ==
  \/ FlatMapBegin \/ FlatMapBody \/ FlatMapEnded \/ FlatMapNext \/ FlatMapDone
  \/ FlatMapFails \/ FlatMapStop
  \/ AdaptorBegin \/ AdaptorEnded \/ InnerNext \/ InnerDone

SinkStep ==
  \/ LoopBegin \/ LoopBody \/ CollectBody \/ LoopEnded \/ LoopFails
  \/ HeadBegin \/ HeadBody \/ HeadEnded \/ HeadFails
  \/ ReduceBegin \/ ReduceBody \/ ReduceEnded \/ ReduceFails

StreamsNext ==
  /\ signal # Nothing
  /\ SourceStep \/ ErasedStep \/ TransformerStep \/ FlatMapStep \/ SinkStep

\* The call that is under way runs: a call chain does not stop half way, and
\* a context that is submitted to a scheduler runs.
StreamsSpec == StreamsInit /\ [][StreamsNext]_streamVars /\ WF_streamVars(StreamsNext)

-----------------------------------------------------------------------------

Calls == {"None", "Start", "Begin", "Next", "Done", "Body", "Ended", "Fail", "Stop",
          "InnerBegin", "InnerNext", "InnerDone", "InnerEnded"}

(* Types of the state: in particular a question is only put to a stream,    *)
(* and every stream_ is set before it is used.                              *)
StreamsTypeOK ==
  /\ \A s \in DOMAIN pipe : memory[s].data \in Seq(Values)
  /\ stream \in [DOMAIN pipe -> {0} \cup {s \in DOMAIN pipe : pipe[s].kind \in StreamKinds}]
  /\ signal.call \in Calls
  /\ signal.call # "None" => signal.at \in DOMAIN pipe
  /\ signal.call \in {"Next", "Done"} => pipe[signal.at].kind \in StreamKinds
  /\ asked \in [DOMAIN pipe -> {"No", "Next", "Done", "Over"}]
  /\ result.call \in {"None", "Start", "Fail", "Stop", "Abort"}

\* A step puts a question to a stream that owes none, and answers one that was put.
InTurn ==
  LET call == signal'.call
      at == signal'.at
  IN /\ call \in {"Next", "Done"} => asked[at] = "No"
     /\ call \in {"Body", "Ended"} /\ pipe[at - 1].kind \in StreamKinds =>
          asked[at - 1] \in {"Next"} \cup (IF call = "Ended" THEN {"Done"} ELSE {})

(* What stream.h:8-10 asks for and does not enforce ("disallow calling      *)
(* Next() after calling Done()", "disallow calling Emit() before call to    *)
(* Next()"): no stream is asked while it owes an answer or once it is over, *)
(* a value is only the answer to Next, and the end is the answer to a       *)
(* question.                                                                *)
AskedThenAnswered == [][InTurn]_streamVars

(* No stream is left open when the pipeline has a value: every stream was   *)
(* told Done or came to its end by itself, so that it gives up what it      *)
(* holds.  Except above a TakeLast that is called off before it was asked   *)
(* for a value: TakeLast::Done() ends without telling the stream above it.  *)
NoStreamLeftOpen ==
  result.call = "Start" =>
    \A s \in DOMAIN pipe : pipe[s].kind \in StreamKinds =>
      \/ asked[s] = "Over"
      \/ \E t \in DOMAIN pipe : t > s /\ pipe[t].kind = "TakeLast" /\ ~memory[t].ended

(* A pipeline over a finite stream, or one that takes only a part of an     *)
(* endless one, comes to its end.                                           *)
Terminates == <>(result.call # "None")

=============================================================================

------------------------------ MODULE GrpcServer ------------------------------
(***************************************************************************)
(* The gRPC server (grpc/server.h, grpc/server.cc): services accept calls  *)
(* for their endpoints, a worker per completion queue takes calls from     *)
(* gRPC and puts them into the pipe of the endpoint, and the generated     *)
(* Serve() handles the calls of a pipe concurrently.                       *)
(*                                                                         *)
(* gRPC itself is external: it gives a call to a worker that has asked for *)
(* one, and completes every operation of a call by handing its tag, a      *)
(* callback, to a thread of the pool.  The tags of a call come in any      *)
(* order, save that WriteLast's comes before Finish's.  A pipe's Write,    *)
(* Read and Close are one step each (Pipe.tla has their details), and so   *)
(* is a Synchronized() block of the server, except ShutdownEndpoints,      *)
(* which holds the lock while it closes one pipe after the other.          *)
(***************************************************************************)
EXTENDS Integers, Sequences, FiniteSets

CONSTANTS
  Calls,         \* The calls that clients make.
  NumQueues,     \* NumberOfCompletionQueues().
  Keys,          \* The pairs of a method and a host.
  Accepts,       \* The keys that each registered service accepts, in order.
  Invalid,       \* The keys that Validate refuses.
  MaxResponses   \* Bound on the responses of a streaming method.

Services == 1..Len(Accepts)

Queues == 1..NumQueues

Workers == Queues

AnyHost == "*"

NoCall == "none"

NoKey == <<"none", "none">>

ASSUME GrpcServerAssumption ==
  /\ NumQueues \in Nat \ {0} /\ MaxResponses \in Nat
  /\ Accepts \in Seq(SUBSET Keys)
  /\ NoKey \notin Keys

VARIABLES
  main,       \* The thread that constructs, shuts down and waits for the server.
  serve,      \* serves_: where the task of each service is, and its done.
  dangling,   \* The services whose callbacks refer to storage that was moved.
  load,       \* The borrows of each completion queue.
  worker,     \* workers_: where each is, its queue, call and endpoint.
  endpoint,   \* endpoints_: who inserted it, its pipe and the pipe's reader.
  grpc,       \* What the ::grpc::Server does.
  target,     \* The key of each call.
  streaming,  \* The keys of the methods that stream their responses.
  call,       \* The server's side of each call, and the tags gRPC still holds.
  net         \* What gRPC knows of each call.

ctorVars == <<dangling, load>>

serverVars == <<main, serve, ctorVars, worker, endpoint, grpc, target, streaming>>

serverAll == <<serverVars, call, net>>

\* An endpoint before Insert().
NoEndpoint == [owner |-> 0, closed |-> FALSE, pipe |-> <<>>, reader |-> "none"]

ServerInit(targets, streams) ==
  /\ main = "services"
  /\ serve = [s \in Services |-> [at |-> "none", done |-> FALSE]]
  /\ dangling = {}
  /\ load = [q \in Queues |-> 0]
  /\ worker = [w \in Workers |-> [at |-> "none", queue |-> 0, call |-> NoCall, key |-> NoKey,
                                  left |-> {}]]
  /\ endpoint = [k \in Keys |-> NoEndpoint]
  /\ grpc = "up"
  /\ target = targets /\ streaming = streams
  /\ call = [c \in Calls |-> [at |-> "none", key |-> NoKey, tags |-> {}, done |-> FALSE,
                              responses |-> 0]]
  /\ net = [c \in Calls |-> [at |-> "idle", request |-> FALSE, response |-> FALSE,
                             status |-> "none"]]

-----------------------------------------------------------------------------
(* The constructor.                                                        *)

\* A vector that holds this many elements has no room for another one.
Full == {1, 2, 4}

\* The method is known, and its request, its response and their streaming are
\* what the descriptor says.
Validate(k) == k \notin Invalid

\* An endpoint for a method and host that has one already is refused.
Insert(k) == endpoint[k].owner = 0

\* Accept of the methods of a service, which go as far as the first Read.
Accept(s) ==
  [k \in Keys |-> IF k \in Accepts[s] /\ Validate(k) /\ Insert(k)
                   THEN [NoEndpoint EXCEPT !.owner = s, !.reader = "reading"]
                   ELSE endpoint[k]]

\* The next service is put into serves_, which moves the earlier ones when it
\* has no room left, and its task is started and runs in place until it waits:
\* DoAll over its methods.  A method that is not accepted fails, which its
\* Finally takes.
StartServe(s) ==
  /\ main = "services"
  /\ \A t \in Services : serve[t].at = "none" <=> t >= s
  /\ dangling' = IF s - 1 \in Full THEN 1..(s - 1) ELSE dangling
  /\ endpoint' = Accept(s)
  /\ serve' = [serve EXCEPT ![s] = IF Accept(s) = endpoint THEN [at |-> "ended", done |-> TRUE]
                                   ELSE [at |-> "serving", done |-> FALSE]]
  /\ UNCHANGED <<main, load, worker, grpc, target, streaming, call, net>>

\* StaticCompletionThreadPool::Schedule: the first of the least loaded queues.
Schedule ==
  CHOOSE q \in Queues : \A r \in Queues : load[q] < load[r] \/ (load[q] = load[r] /\ q <= r)

\* A worker for every completion queue of the pool.  Its task runs in place: a
\* new ServerContext, with its done callback, and RequestCall().
StartWorker(w) ==
  /\ main = "services"
  /\ \A s \in Services : serve[s].at # "none"
  /\ \A v \in Workers : worker[v].at = "none" <=> v >= w
  /\ load' = [load EXCEPT ![Schedule] = @ + 1]
  /\ worker' = [worker EXCEPT ![w].at = "requested", ![w].queue = Schedule]
  /\ main' = IF w = NumQueues THEN "up" ELSE main
  /\ UNCHANGED <<serve, dangling, endpoint, grpc, target, streaming, call, net>>

-----------------------------------------------------------------------------
(* The loop of a worker: Repeat(RequestCall >> Lookup >> Conditional) >>   *)
(* Loop >> Catch.                                                          *)

\* The callback of RequestCall, ok: gRPC has filled in a call.
RequestCall(w, c) ==
  /\ worker[w].at = "requested"
  /\ net[c].at = "sent" /\ grpc = "up"
  /\ worker' = [worker EXCEPT ![w].at = "lookup", ![w].call = c]
  /\ call' = [call EXCEPT ![c].at = "held", ![c].tags = {"done"}]
  /\ net' = [net EXCEPT ![c].at = "taken"]
  /\ UNCHANGED <<main, serve, ctorVars, endpoint, grpc, target, streaming>>

\* The lock of the server is held by ShutdownEndpoints.
Locked == \E w \in Workers : worker[w].at = "closing"

Inserted(k) == k \in Keys /\ endpoint[k].owner # 0

\* The endpoint of this host, or else of any host.
Find(key) ==
  IF Inserted(key) THEN key
  ELSE IF Inserted(<<key[1], AnyHost>>) THEN <<key[1], AnyHost>> ELSE NoKey

\* Mutants of Unimplemented: the call is not finished; the missing endpoint is
\* an error of the loop.
UnimplementedForgets(w) ==
  /\ worker' = [worker EXCEPT ![w].at = "requested", ![w].call = NoCall]
  /\ call' = [call EXCEPT ![worker[w].call].at = "unimplemented"]
  /\ UNCHANGED net

UnimplementedRaises(w) ==
  /\ worker' = [worker EXCEPT ![w].at = "closing", ![w].left = {k \in Keys : Inserted(k)}]
  /\ call' = [call EXCEPT ![worker[w].call].at = "deleted", ![worker[w].call].tags = {}]
  /\ UNCHANGED net

\* FinishThenOnDone; the context is on its own from here, and the loop asks for
\* the next call.
Unimplemented(w) ==
  LET c == worker[w].call IN
  /\ worker' = [worker EXCEPT ![w].at = "requested", ![w].call = NoCall]
  /\ call' = [call EXCEPT ![c].at = "unimplemented", ![c].tags = @ \cup {"finish"}]
  /\ net' = [net EXCEPT ![c].status = IF @ = "none" THEN "UNIMPLEMENTED" ELSE @]

Lookup(w) ==
  /\ worker[w].at = "lookup"
  /\ ~Locked
  /\ LET key == Find(target[worker[w].call]) IN
     IF key = NoKey THEN Unimplemented(w)
     ELSE /\ worker' = [worker EXCEPT ![w].at = "enqueue", ![w].key = key]
          /\ UNCHANGED <<call, net>>
  /\ UNCHANGED <<main, serve, ctorVars, endpoint, grpc, target, streaming>>

\* Endpoint::Enqueue, which is pipe_.Write(): a closed pipe drops the context,
\* which is destructed when the loop asks for the next call, as it does at once;
\* gRPC keeps the done tag.  Whether it cancels such a call the source does not
\* show.
Enqueue(w) ==
  LET c == worker[w].call
      k == worker[w].key IN
  /\ worker[w].at = "enqueue"
  /\ worker' = [worker EXCEPT ![w].at = "requested", ![w].call = NoCall, ![w].key = NoKey]
  /\ IF endpoint[k].closed
       THEN /\ call' = [call EXCEPT ![c].at = "dropped"]
            /\ \/ net' = [net EXCEPT ![c].status = IF @ = "none" THEN "CANCELLED" ELSE @]
               \/ UNCHANGED net
            /\ UNCHANGED endpoint
       ELSE /\ call' = [call EXCEPT ![c].at = "queued", ![c].key = k]
            /\ endpoint' = [endpoint EXCEPT ![k].pipe = Append(@, c)]
            /\ UNCHANGED net
  /\ UNCHANGED <<main, serve, ctorVars, grpc, target, streaming>>

\* Mutant of RequestCallFails: nothing is closed.
RequestCallFailsOnly(w) ==
  /\ worker[w].at = "requested"
  /\ grpc # "up" /\ ~Locked
  /\ worker' = [worker EXCEPT ![w].at = "done"]
  /\ UNCHANGED <<main, serve, ctorVars, endpoint, grpc, target, streaming, call, net>>

\* The callback of RequestCall, not ok: the RuntimeError ends the loop, and its
\* Catch has ShutdownEndpoints take the lock and iterate over the endpoints.
RequestCallFails(w) ==
  /\ worker[w].at = "requested"
  /\ grpc # "up" /\ ~Locked
  /\ LET all == {k \in Keys : Inserted(k)} IN
     worker' = [worker EXCEPT ![w].at = IF all = {} THEN "done" ELSE "closing", ![w].left = all]
  /\ UNCHANGED <<main, serve, ctorVars, endpoint, grpc, target, streaming, call, net>>

\* Endpoint::Shutdown, which is pipe_.Close(); after the last one the lock is
\* released and the worker is done.
CloseEndpoint(w, k) ==
  /\ worker[w].at = "closing"
  /\ worker[w].left # {} /\ k = CHOOSE j \in worker[w].left : TRUE
  /\ endpoint' = [endpoint EXCEPT ![k].closed = TRUE]
  /\ worker' = [worker EXCEPT ![w].left = @ \ {k},
                              ![w].at = IF worker[w].left = {k} THEN "done" ELSE @]
  /\ UNCHANGED <<main, serve, ctorVars, grpc, target, streaming, call, net>>

-----------------------------------------------------------------------------
(* The generated Serve of a method: Accept >> Concurrent(Map(handle)) >>   *)
(* Loop >> Finally.                                                        *)

\* Dequeue: the reader takes a call, and a fiber starts on it: UnaryPrologue.
Dequeue(k) ==
  /\ endpoint[k].reader = "reading"
  /\ endpoint[k].pipe # <<>>
  /\ endpoint' = [endpoint EXCEPT ![k].pipe = Tail(@)]
  /\ call' = [call EXCEPT ![Head(endpoint[k].pipe)].at = "prologue",
                          ![Head(endpoint[k].pipe)].tags = @ \cup {"read"}]
  /\ UNCHANGED <<main, serve, ctorVars, worker, grpc, target, streaming, net>>

\* After a fiber has failed Concurrent starts no other: the call that comes is
\* let go and upstream is told that it is done.
DequeueFailing(k) ==
  /\ endpoint[k].reader = "failing"
  /\ endpoint[k].pipe # <<>>
  /\ endpoint' = [endpoint EXCEPT ![k].pipe = Tail(@), ![k].reader = "draining"]
  /\ call' = [call EXCEPT ![Head(endpoint[k].pipe)].at = "lost"]
  /\ UNCHANGED <<main, serve, ctorVars, worker, grpc, target, streaming, net>>

\* The pipe is closed and empty.
DequeueEnd(k) ==
  /\ endpoint[k].reader \in {"reading", "failing"}
  /\ endpoint[k].pipe = <<>> /\ endpoint[k].closed
  /\ endpoint' = [endpoint EXCEPT ![k].reader = "draining"]
  /\ UNCHANGED <<main, serve, ctorVars, worker, grpc, target, streaming, call, net>>

\* Where a call is while a fiber handles it.
Handled == {"prologue", "handling", "writing", "finishing", "watching"}

\* Mutant of MethodEnds: the fibers are not waited for.
MethodEndsEarly(k) ==
  /\ endpoint[k].reader = "draining"
  /\ endpoint' = [endpoint EXCEPT ![k].reader = "ended"]
  /\ UNCHANGED <<main, serve, ctorVars, worker, grpc, target, streaming, call, net>>

\* Upstream and all fibers are done: Loop ends or fails, Finally takes either.
MethodEnds(k) ==
  /\ endpoint[k].reader = "draining"
  /\ \A c \in Calls : call[c].key = k => call[c].at \notin Handled
  /\ endpoint' = [endpoint EXCEPT ![k].reader = "ended"]
  /\ UNCHANGED <<main, serve, ctorVars, worker, grpc, target, streaming, call, net>>

\* DoAll has all methods of the service: the callback stores done, through a
\* reference into serves_.  When serves_ has moved, the store goes anywhere.
ServeEnds(s) ==
  /\ serve[s].at = "serving"
  /\ \A k \in Keys : endpoint[k].owner = s => endpoint[k].reader = "ended"
  /\ \E done \in IF s \in dangling THEN BOOLEAN ELSE {TRUE} :
       serve' = [serve EXCEPT ![s] = [at |-> "ended", done |-> done]]
  /\ UNCHANGED <<main, ctorVars, worker, endpoint, grpc, target, streaming, call, net>>

-----------------------------------------------------------------------------
(* A call in its fiber.                                                    *)

Cancelled(c) == net[c].status = "CANCELLED"

\* The call's fiber fails or stops: Concurrent keeps that, unless its upstream
\* has ended.  The call is not finished.
FiberFails(c) ==
  /\ call' = [call EXCEPT ![c].at = "failed", ![c].tags = @ \ {"read"}]
  /\ endpoint' = [endpoint EXCEPT ![call[c].key].reader =
                                    IF @ = "reading" THEN "failing" ELSE @]

\* ServerReader::Read: a request, or the end of the stream.  UnaryPrologue fails
\* when a request cannot be deserialized, and its Head when there is none, both
\* outside of the Catch of the epilogue.
ReadCallback(c) ==
  /\ "read" \in call[c].tags
  /\ \/ /\ net[c].request
        /\ call' = [call EXCEPT ![c].at = "handling", ![c].tags = @ \ {"read"}]
        /\ UNCHANGED endpoint
     \/ /\ net[c].request \/ Cancelled(c)
        /\ FiberFails(c)
  /\ net' = [net EXCEPT ![c].request = FALSE]
  /\ UNCHANGED <<main, serve, ctorVars, worker, grpc, target, streaming>>

\* ServerCall::Finish, with the status that the handler's outcome gives.
Finish(c, tags) ==
  /\ call' = [call EXCEPT ![c].at = "finishing", ![c].tags = tags \cup {"finish"},
                          ![c].responses = 0]
  /\ net' = [net EXCEPT ![c].status = IF @ = "none" THEN "HANDLED" ELSE @,
                        ![c].response = @ \/ "write" \in tags]

\* UnaryEpilogue: the handler's value is written by WriteLast, which does not
\* wait for its tag, and the call is finished; an error becomes the status.
UnaryEpilogue(c) ==
  /\ call[c].at = "handling" /\ call[c].key \notin streaming
  /\ \/ Finish(c, call[c].tags \cup {"write"})
     \/ Finish(c, call[c].tags)
  /\ UNCHANGED serverVars

\* StreamingEpilogue: every response is written and its tag waited for; after
\* the last one, or an error, the call is finished.
StreamingEpilogue(c) ==
  /\ call[c].at = "handling" /\ call[c].key \in streaming
  /\ \/ Finish(c, call[c].tags)
     \/ /\ call[c].responses < MaxResponses
        /\ call' = [call EXCEPT ![c].at = "writing", ![c].tags = @ \cup {"write"},
                                ![c].responses = @ + 1]
        /\ net' = [net EXCEPT ![c].response = TRUE]
  /\ UNCHANGED serverVars

\* The handler stops, which no Catch takes.
HandlerStops(c) ==
  /\ call[c].at = "handling"
  /\ FiberFails(c)
  /\ UNCHANGED <<main, serve, ctorVars, worker, grpc, target, streaming, net>>

\* The tag of Write or of WriteLast, whose callback does nothing.
WriteCallback(c) ==
  /\ "write" \in call[c].tags
  /\ \/ /\ call[c].at = "writing" /\ Cancelled(c)
        /\ Finish(c, call[c].tags \ {"write"})
     \/ /\ call' = [call EXCEPT ![c].at = IF @ = "writing" THEN "handling" ELSE @,
                                ![c].tags = @ \ {"write"}]
        /\ UNCHANGED net
  /\ UNCHANGED serverVars

\* The tag of Finish, ok or not: WaitForDone, or OnDone, which goes on at once
\* when done_ was notified before.
FinishCallback(c) ==
  /\ "finish" \in call[c].tags /\ "write" \notin call[c].tags
  /\ call' = [call EXCEPT
                ![c].tags = @ \ {"finish"},
                ![c].at = IF @ = "finishing" THEN IF call[c].done THEN "served" ELSE "watching"
                          ELSE IF call[c].done THEN "deleted" ELSE "finished"]
  /\ UNCHANGED <<serverVars, net>>

\* Mutant of DoneCallback: the context of an unimplemented call is deleted
\* without waiting for Finish.
DoneCallbackDeletes(c) ==
  /\ "done" \in call[c].tags /\ net[c].status # "none" /\ call[c].at # "dropped"
  /\ call' = [call EXCEPT ![c].tags = @ \ {"done"}, ![c].done = TRUE,
                          ![c].at = CASE @ = "watching" -> "served"
                                      [] @ \in {"unimplemented", "finished"} -> "deleted"
                                      [] OTHER -> @]
  /\ UNCHANGED <<serverVars, net>>

\* The tag of AsyncNotifyWhenDone: the call is finished or cancelled.
DoneCallback(c) ==
  /\ "done" \in call[c].tags /\ net[c].status # "none" /\ call[c].at # "dropped"
  /\ call' = [call EXCEPT ![c].tags = @ \ {"done"}, ![c].done = TRUE,
                          ![c].at = CASE @ = "watching" -> "served"
                                      [] @ = "finished" -> "deleted"
                                      [] OTHER -> @]
  /\ UNCHANGED <<serverVars, net>>

\* The same tag, when the context that holds the callback was dropped: what is
\* called is gone.  Undefined behaviour, of which the mildest is that nothing comes
\* of it.
DoneOfDropped(c) ==
  /\ "done" \in call[c].tags /\ net[c].status # "none" /\ call[c].at = "dropped"
  /\ call' = [call EXCEPT ![c].tags = @ \ {"done"}, ![c].at = "dangled"]
  /\ UNCHANGED <<serverVars, net>>

-----------------------------------------------------------------------------
(* Shutdown and Wait.                                                      *)

\* Shutdown, with a deadline or without, and Wait.
Shutdown ==
  /\ main = "up"
  /\ main' = "grpc"
  /\ grpc' = "shutdown"
  /\ UNCHANGED <<serve, ctorVars, worker, endpoint, target, streaming, call, net>>

\* gRPC refuses the calls it has not given out.
Refuse(c) ==
  /\ grpc # "up" /\ net[c].at = "sent" /\ net[c].status = "none"
  /\ net' = [net EXCEPT ![c].status = "UNAVAILABLE"]
  /\ UNCHANGED <<serverVars, call>>

\* If Shutdown was given a deadline it may pass: gRPC cancels the calls.
DeadlinePasses ==
  /\ grpc = "shutdown"
  /\ grpc' = "cancelled"
  /\ net' = [c \in Calls |-> IF net[c].at = "taken" /\ net[c].status = "none"
                               THEN [net[c] EXCEPT !.status = "CANCELLED"] ELSE net[c]]
  /\ UNCHANGED <<main, serve, ctorVars, worker, endpoint, target, streaming, call>>

\* server_->Wait() returns: every call has its status and no operation pending.
WaitGrpc ==
  /\ main = "grpc"
  /\ \A c \in Calls : net[c].at # "idle" => net[c].status # "none" /\ call[c].tags = {}
  /\ main' = "wait"
  /\ UNCHANGED <<serve, ctorVars, worker, endpoint, grpc, target, streaming, call, net>>

\* The loops over the workers and the serves, whose flags stay set once they
\* are, and server_.reset().
WaitTasks ==
  /\ main = "wait"
  /\ \A w \in Workers : worker[w].at = "done"
  /\ \A s \in Services : serve[s].done
  /\ main' = "reset"
  /\ UNCHANGED <<serve, ctorVars, worker, endpoint, grpc, target, streaming, call, net>>

CtorStep ==
  \/ \E s \in Services : StartServe(s)
  \/ \E w \in Workers : StartWorker(w)

WorkerStep(w) ==
  \/ Lookup(w) \/ Enqueue(w) \/ RequestCallFails(w)
  \/ \E k \in Keys : CloseEndpoint(w, k)

MethodStep(k) == Dequeue(k) \/ DequeueFailing(k) \/ DequeueEnd(k) \/ MethodEnds(k)

FiberStep(c) == ReadCallback(c) \/ UnaryEpilogue(c) \/ StreamingEpilogue(c)

TagStep(c) == WriteCallback(c) \/ FinishCallback(c) \/ DoneCallback(c) \/ DoneOfDropped(c)

WaitStep == WaitGrpc \/ WaitTasks

\* What goes on by itself: the constructor and Wait, the callbacks that the
\* threads of the pool run, and gRPC, which completes what it was asked for.
ServerProgress ==
  \/ CtorStep
  \/ \E w \in Workers : WorkerStep(w) \/ \E c \in Calls : RequestCall(w, c)
  \/ \E k \in Keys : MethodStep(k)
  \/ \E s \in Services : ServeEnds(s)
  \/ \E c \in Calls : FiberStep(c) \/ TagStep(c) \/ Refuse(c)
  \/ WaitStep

ServerNext ==
  \/ ServerProgress
  \/ \E c \in Calls : HandlerStops(c)
  \/ Shutdown \/ DeadlinePasses

=============================================================================

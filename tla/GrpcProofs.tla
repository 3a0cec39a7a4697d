------------------------------ MODULE GrpcProofs ------------------------------
(***************************************************************************)
(* Proofs about the gRPC server and its clients, for any number of calls,  *)
(* completion queues, endpoints and services, and for any scenario.        *)
(***************************************************************************)
EXTENDS Grpc, TLAPS, NaturalsInduction, WellFoundedInduction

Statuses == {"none", "CANCELLED", "UNIMPLEMENTED", "HANDLED", "UNAVAILABLE"}

\* What gRPC may know of a call.
Nets == [at : {"idle", "sent", "taken"}, request : BOOLEAN, response : BOOLEAN, status : Statuses]

Places == {"none", "held", "queued", "unimplemented", "finished", "deleted", "dropped", "dangled",
           "lost", "failed", "served"} \cup Handled

Tags == {"done", "read", "write", "finish"}

\* The server's side of a call.
Contexts == [at : Places, key : Keys \cup {NoKey}, tags : SUBSET Tags, done : BOOLEAN,
             responses : Nat]

\* The task of a service, a worker and an endpoint.
Tasks == [at : {"none", "serving", "ended"}, done : BOOLEAN]

Loops == [at : {"none", "requested", "lookup", "enqueue", "closing", "done"},
          queue : Queues \cup {0}, call : Calls \cup {NoCall}, key : Keys \cup {NoKey},
          left : SUBSET Keys]

Endpoints == [owner : Services \cup {0}, closed : BOOLEAN, pipe : Seq(Calls),
              reader : {"none", "reading", "failing", "draining", "ended"}]

\* The type of the server's state and of what gRPC knows of the calls.
TypeOK ==
  /\ main \in {"services", "up", "grpc", "wait", "reset"}
  /\ grpc \in {"up", "shutdown", "cancelled"}
  /\ load \in [Queues -> Nat]
  /\ serve \in [Services -> Tasks]
  /\ worker \in [Workers -> Loops]
  /\ endpoint \in [Keys -> Endpoints]
  /\ call \in [Calls -> Contexts]
  /\ net \in [Calls -> Nets]

\* The tags, besides done's, that gRPC holds of a call that is at this place.
Pending(at) ==
  CASE at = "prologue" -> {{"read"}}
    [] at = "writing" -> {{"write"}}
    [] at = "finishing" -> {{"finish"}, {"write", "finish"}}
    [] at = "unimplemented" -> {{"finish"}}
    [] OTHER -> {{}}

\* gRPC holds the tags that the place of the call says, and done's until its
\* callback has run; a context has gone only after it has, or was dropped.
TagsPending ==
  \A c \in Calls :
    /\ call[c].tags \ {"done"} \in Pending(call[c].at)
    /\ call[c].at = "none" => call[c].tags = {} /\ ~call[c].done
    /\ call[c].at \notin {"none", "dangled"} => ("done" \in call[c].tags <=> ~call[c].done)
    /\ call[c].at = "dangled" => call[c].tags = {}
    /\ call[c].at \in {"watching", "finished"} => ~call[c].done
    /\ call[c].at \in {"served", "deleted"} => call[c].done

\* The server has no context for a call that gRPC has not given out.
NotTaken == \A c \in Calls : net[c].at # "taken" => call[c].at = "none"

Holds(w) == worker[w].at \in {"lookup", "enqueue"}

\* A held call is in the hands of exactly one worker.
HeldByOne ==
  /\ \A w \in Workers : Holds(w) => worker[w].call \in Calls /\ call[worker[w].call].at = "held"
  /\ \A v, w \in Workers : Holds(v) /\ Holds(w) /\ worker[v].call = worker[w].call => v = w
  /\ \A c \in Calls : call[c].at = "held" => \E w \in Workers : Holds(w) /\ worker[w].call = c

\* A queued call is once in one pipe, the one of its endpoint.
QueuedOnce ==
  /\ \A k \in Keys : \A i \in 1..Len(endpoint[k].pipe) :
       call[endpoint[k].pipe[i]].at = "queued" /\ call[endpoint[k].pipe[i]].key = k
  /\ \A k \in Keys : \A i, j \in 1..Len(endpoint[k].pipe) :
       endpoint[k].pipe[i] = endpoint[k].pipe[j] => i = j
  /\ \A c \in Calls : call[c].at = "queued" =>
       /\ call[c].key \in Keys
       /\ \E i \in 1..Len(endpoint[call[c].key].pipe) : endpoint[call[c].key].pipe[i] = c

\* An endpoint is of the service that inserted it, which does not end before
\* the endpoint's method.
Owned ==
  /\ \A k \in Keys : endpoint[k].owner = 0 => endpoint[k].reader = "none" /\ endpoint[k].pipe = <<>>
  /\ \A k \in Keys : endpoint[k].owner # 0 =>
       /\ serve[endpoint[k].owner].at # "none"
       /\ serve[endpoint[k].owner].at = "ended" => endpoint[k].reader = "ended"
  /\ \A w \in Workers : worker[w].at = "enqueue" =>
       worker[w].key \in Keys /\ endpoint[worker[w].key].owner # 0
  /\ \A s \in Services : serve[s].done => serve[s].at = "ended"

Failed(k) == \E d \in Calls : call[d].at = "failed" /\ call[d].key = k

\* A method that handles a call has not ended, and one that no longer reads has
\* failed or come to the end of a closed pipe.
MethodReads ==
  /\ \A c \in Calls : call[c].at \in Handled =>
       call[c].key \in Keys /\ endpoint[call[c].key].reader \notin {"none", "ended"}
  /\ \A k \in Keys :
       /\ endpoint[k].reader = "failing" => Failed(k)
       /\ endpoint[k].reader \in {"draining", "ended"} =>
            (endpoint[k].closed /\ endpoint[k].pipe = <<>>) \/ Failed(k)

\* Nothing is closed, about to be closed or dropped while gRPC is up.
ClosedAtShutdown ==
  grpc = "up" =>
    /\ \A k \in Keys : ~endpoint[k].closed
    /\ \A w \in Workers : worker[w].at # "closing"
    /\ \A c \in Calls : call[c].at \notin {"dropped", "dangled"}

\* Wait has seen the workers and the services end.
ResetAfterAll ==
  main = "reset" =>
    /\ \A w \in Workers : worker[w].at = "done"
    /\ \A s \in Services : serve[s].at = "ended"

IInv ==
  /\ TypeOK /\ TagsPending /\ NotTaken /\ HeldByOne /\ QueuedOnce /\ Owned /\ MethodReads
  /\ ClosedAtShutdown /\ ResetAfterAll

-----------------------------------------------------------------------------

\* A set of natural numbers that is not empty has a least element.
LEMMA LeastNat ==
  ASSUME NEW S \in SUBSET Nat, S # {}
  PROVE  \E n \in S : \A m \in S : n <= m
<1>1. IsWellFoundedOn(OpToRel(<, Nat), Nat)
  BY NatLessThanWellFounded
<1>2. PICK n \in S : \A m \in S : <<m, n>> \notin OpToRel(<, Nat)
  BY <1>1, WFMin
<1>3. \A m \in S : n <= m
  <2> TAKE m \in S
  <2>1. m \in Nat /\ n \in Nat
    OBVIOUS
  <2>2. ~(m < n)
    BY <1>2, <2>1 DEF OpToRel
  <2> QED BY <2>1, <2>2
<1> QED BY <1>3

\* StaticCompletionThreadPool::Schedule finds a queue, whatever the loads are.
LEMMA ScheduleFinds ==
  ASSUME load \in [Queues -> Nat]
  PROVE  Schedule \in Queues
<1> DEFINE loads == {load[q] : q \in Queues}
<1>1. 1 \in Queues /\ Queues \subseteq Nat
  BY GrpcServerAssumption DEF Queues
<1>2. PICK m \in loads : \A n \in loads : m <= n
  <2>1. loads \in SUBSET Nat /\ loads # {}
    BY <1>1
  <2> QED BY <2>1, LeastNat
<1> DEFINE least == {q \in Queues : load[q] = m}
<1>3. PICK q \in least : \A r \in least : q <= r
  <2>1. least \in SUBSET Nat /\ least # {}
    BY <1>1
  <2> QED BY <2>1, LeastNat
<1>4. \A r \in Queues : load[q] < load[r] \/ (load[q] = load[r] /\ q <= r)
  <2> TAKE r \in Queues
  <2>1. m = load[q] /\ m <= load[r] /\ load[q] \in Nat /\ load[r] \in Nat
    BY <1>2, <1>3
  <2>2. CASE load[r] = m
    BY <2>1, <2>2, <1>3
  <2>3. CASE load[r] # m
    BY <2>1, <2>3
  <2> QED BY <2>2, <2>3
<1>5. q \in Queues
  BY <1>3
<1> QED BY <1>4, <1>5 DEF Schedule

\* What the clients, and gRPC when it refuses a call, do to the state that the
\* server sees: a call may be sent.
ClientSide ==
  /\ UNCHANGED <<serverVars, call>>
  /\ net' \in [Calls -> Nets]
  /\ \A c \in Calls : net'[c].at = net[c].at \/ (net[c].at = "idle" /\ net'[c].at = "sent")

\* A record of what gRPC knows stays one when a field is assigned.
LEMMA NetFields ==
  ASSUME NEW n \in Nets
  PROVE  /\ \A s \in Statuses :
              [n EXCEPT !.status = s] \in Nets /\ [n EXCEPT !.status = s].at = n.at
         /\ \A b \in BOOLEAN :
              [n EXCEPT !.request = b] \in Nets /\ [n EXCEPT !.request = b].at = n.at
         /\ \A a \in {"idle", "sent", "taken"} :
              [n EXCEPT !.at = a] \in Nets /\ [n EXCEPT !.at = a].at = a
BY DEF Nets

\* The steps of a client are all like that.
LEMMA ClientSideOnly ==
  ASSUME TypeOK, NEW c \in Calls, Call(c) \/ Trigger(c) \/ Connect(c) \/ ClientStep(c) \/ Refuse(c)
  PROVE  ClientSide
<1> DEFINE Kept == net' \in [Calls -> Nets] /\ \A d \in Calls : net'[d].at = net[d].at
<1>0. net \in [Calls -> Nets] /\ net[c] \in Nets
  BY DEF TypeOK
<1>1. ASSUME NEW s \in Statuses, net' = [net EXCEPT ![c].status = s]
      PROVE  Kept
  <2>1. net' = [net EXCEPT ![c] = [net[c] EXCEPT !.status = s]]
    BY <1>1
  <2>2. [net[c] EXCEPT !.status = s] \in Nets /\ [net[c] EXCEPT !.status = s].at = net[c].at
    BY <1>0, NetFields
  <2> QED BY <1>0, <2>1, <2>2
<1>2. ASSUME UNCHANGED net
      PROVE  Kept
  BY <1>0, <1>2
<1>3. ASSUME TryCancel(c)
      PROVE  Kept
  <2>1. (IF net[c].status = "none" THEN "CANCELLED" ELSE net[c].status) \in Statuses
    BY <1>0 DEF Nets, Statuses
  <2>2. net' = [net EXCEPT ![c].status = IF net[c].status = "none" THEN "CANCELLED"
                                          ELSE net[c].status]
    BY <1>3 DEF TryCancel
  <2> QED BY <1>1, <2>1, <2>2
<1>4. ASSUME Perform(c)
      PROVE  Kept
  <2>1. CASE Head(client[c].todo) = "cancel"
    BY <1>3, <1>4, <2>1 DEF Perform
  <2>2. CASE Head(client[c].todo) = "write"
    <3>1. net' = [net EXCEPT ![c] = [net[c] EXCEPT !.request = (net[c].status = "none")]]
      BY <1>4, <2>2 DEF Perform
    <3>2. PICK b \in BOOLEAN : b = (net[c].status = "none")
      OBVIOUS
    <3>3. [net[c] EXCEPT !.request = b] \in Nets /\ [net[c] EXCEPT !.request = b].at = net[c].at
      BY <1>0, NetFields
    <3>4. net' = [net EXCEPT ![c] = [net[c] EXCEPT !.request = b]]
      BY <3>1, <3>2
    <3> QED BY <1>0, <3>3, <3>4
  <2>3. CASE Head(client[c].todo) \notin {"cancel", "write"}
    BY <1>2, <1>4, <2>3 DEF Perform
  <2> QED BY <2>1, <2>2, <2>3
<1>5. Kept /\ UNCHANGED <<serverVars, call>> => ClientSide
  BY DEF ClientSide
<1>6. CASE Call(c)
  <2> HIDE DEF Kept
  <2> QED BY <1>2, <1>3, <1>5, <1>6 DEF Call
<1>7. CASE Trigger(c)
  <2> HIDE DEF Kept
  <2> QED BY <1>2, <1>3, <1>5, <1>7 DEF Trigger
<1>8. CASE Connect(c)
  <2>1. net' = [net EXCEPT ![c] = [net[c] EXCEPT !.at = "sent"]]
    BY <1>8 DEF Connect
  <2>2. net' \in [Calls -> Nets]
    BY <1>0, <2>1, NetFields
  <2>3. net'[c].at = "sent" /\ net[c].at = "idle" /\ \A d \in Calls \ {c} : net'[d] = net[d]
    BY <1>0, <2>1, <1>8, NetFields DEF Connect
  <2>4. UNCHANGED <<serverVars, call>>
    BY <1>8 DEF Connect
  <2> QED BY <2>2, <2>3, <2>4 DEF ClientSide
<1>9. CASE ClientStep(c)
  <2> HIDE DEF Kept
  <2>1. Kept
    <3>1. Perform(c) \/ UNCHANGED net
      BY <1>9 DEF ClientStep, StartCallback, ClientWriteCallback, ClientReadCallback,
         ClientFinishCallback, Fail, serverAll
    <3> QED BY <1>2, <1>4, <3>1
  <2>2. UNCHANGED <<serverVars, call>>
    BY <1>9 DEF ClientStep, StartCallback, ClientWriteCallback, ClientReadCallback,
       ClientFinishCallback, serverAll
  <2> QED BY <1>5, <2>1, <2>2
<1>10. CASE Refuse(c)
  <2>1. Kept
    BY <1>1, <1>10 DEF Refuse, Statuses
  <2> QED BY <1>5, <1>10, <2>1 DEF Refuse
<1> QED BY <1>6, <1>7, <1>8, <1>9, <1>10

\* What the fiber of a call and the callbacks of its tags do, as the rest of the
\* server sees it: the call moves on within the handler, or out of it for good.
FiberSide(c) ==
  /\ UNCHANGED <<main, serve, ctorVars, worker, grpc>>
  /\ call' \in [Calls -> Contexts] /\ net' \in [Calls -> Nets]
  /\ \A d \in Calls : net'[d].at = net[d].at
  /\ \A d \in Calls \ {c} : call'[d] = call[d]
  /\ call'[c].key = call[c].key
  /\ \/ call'[c].at = call[c].at
     \/ call[c].at \in Handled /\ call'[c].at \in Handled \cup {"served", "failed"}
     \/ call[c].at \in {"unimplemented", "finished"} /\ call'[c].at \in {"finished", "deleted"}
     \/ call[c].at = "dropped" /\ call'[c].at = "dangled"
  /\ \/ UNCHANGED endpoint
     \/ /\ call[c].at \in Handled /\ call'[c].at = "failed"
        /\ endpoint' = [endpoint EXCEPT ![call[c].key].reader =
                                          IF @ = "reading" THEN "failing" ELSE @]

\* The context of c has moved and its tags have changed, and nothing else.
Moved(c, a, t) ==
  /\ call' \in [Calls -> Contexts] /\ \A d \in Calls \ {c} : call'[d] = call[d]
  /\ call'[c].at = a /\ call'[c].tags = t /\ call'[c].key = call[c].key
  /\ call'[c].done = call[c].done

\* An assignment of the place and of the tags of a context is that.
LEMMA ContextMoves ==
  ASSUME call \in [Calls -> Contexts], NEW c \in Calls, NEW a \in Places, NEW t \in SUBSET Tags,
         call' = [call EXCEPT ![c].at = a, ![c].tags = t]
  PROVE  Moved(c, a, t)
<1> DEFINE x == [call[c] EXCEPT !.at = a, !.tags = t]
<1>1. call' = [call EXCEPT ![c] = x]
  OBVIOUS
<1>2. /\ x \in Contexts /\ x.at = a /\ x.tags = t
      /\ x.key = call[c].key /\ x.done = call[c].done
  <2>1. call[c] \in Contexts
    OBVIOUS
  <2> QED BY <2>1 DEF Contexts
<1> HIDE DEF x
<1> QED BY <1>1, <1>2 DEF Moved

\* ServerCall::Finish moves the context on and leaves gRPC waiting for its tag.
LEMMA FinishMoves ==
  ASSUME TypeOK, NEW c \in Calls, NEW tags \in SUBSET Tags, Finish(c, tags)
  PROVE  /\ Moved(c, "finishing", tags \cup {"finish"})
         /\ net' \in [Calls -> Nets] /\ \A d \in Calls : net'[d].at = net[d].at
<1> DEFINE x == [call[c] EXCEPT !.at = "finishing", !.tags = tags \cup {"finish"}, !.responses = 0]
           s == IF net[c].status = "none" THEN "HANDLED" ELSE net[c].status
<1>1. call \in [Calls -> Contexts] /\ net \in [Calls -> Nets] /\ call[c] \in Contexts
      /\ net[c] \in Nets
  BY DEF TypeOK
<1>2. call' = [call EXCEPT ![c] = x]
  BY DEF Finish
<1>3. x \in Contexts /\ x.at = "finishing" /\ x.tags = tags \cup {"finish"}
      /\ x.key = call[c].key /\ x.done = call[c].done
  <2>1. tags \cup {"finish"} \in SUBSET Tags /\ "finishing" \in Places
    BY DEF Tags, Places, Handled
  <2> QED BY <1>1, <2>1 DEF Contexts
<1>4. PICK b \in BOOLEAN : b = (net[c].response \/ "write" \in tags)
  BY Zenon
<1>5. net' = [net EXCEPT ![c] = [net[c] EXCEPT !.status = s, !.response = b]]
  BY <1>4 DEF Finish
<1>6. s \in Statuses
  BY <1>1 DEF Nets, Statuses
<1>7. [net[c] EXCEPT !.status = s, !.response = b] \in Nets
      /\ [net[c] EXCEPT !.status = s, !.response = b].at = net[c].at
  <2> HIDE DEF s
  <2> QED BY <1>1, <1>6 DEF Nets
<1> HIDE DEF x, s
<1>8. call' \in [Calls -> Contexts] /\ (\A d \in Calls \ {c} : call'[d] = call[d]) /\ call'[c] = x
  BY <1>1, <1>2, <1>3
<1>9. net' \in [Calls -> Nets] /\ \A d \in Calls : net'[d].at = net[d].at
  BY <1>1, <1>5, <1>7
<1> QED BY <1>3, <1>8, <1>9 DEF Moved

\* The steps of a call in its fiber and the callbacks of its tags are like that,
\* and gRPC holds the tags that the new place of the call says.
LEMMA FiberSideOnly ==
  ASSUME TypeOK, TagsPending, NEW c \in Calls,
         FiberStep(c) \/ TagStep(c) \/ HandlerStops(c)
  PROVE  FiberSide(c) /\ TagsPending'
<1> DEFINE Tagged ==
      /\ call'[c].tags \ {"done"} \in Pending(call'[c].at)
      /\ call'[c].at # "none"
      /\ call'[c].at # "dangled" => ("done" \in call'[c].tags <=> ~call'[c].done)
      /\ call'[c].at = "dangled" => call'[c].tags = {}
      /\ call'[c].at \in {"watching", "finished"} => ~call'[c].done
      /\ call'[c].at \in {"served", "deleted"} => call'[c].done
<1>1. call \in [Calls -> Contexts] /\ net \in [Calls -> Nets] /\ call[c] \in Contexts
      /\ net[c] \in Nets /\ call[c].tags \in SUBSET Tags
  BY DEF TypeOK, Contexts
<1>2. ASSUME FiberSide(c), Tagged
      PROVE  TagsPending'
  <2> SUFFICES ASSUME NEW d \in Calls
               PROVE  /\ call'[d].tags \ {"done"} \in Pending(call'[d].at)
                      /\ call'[d].at = "none" => call'[d].tags = {} /\ ~call'[d].done
                      /\ call'[d].at \notin {"none", "dangled"}
                           => ("done" \in call'[d].tags <=> ~call'[d].done)
                      /\ call'[d].at = "dangled" => call'[d].tags = {}
                      /\ call'[d].at \in {"watching", "finished"} => ~call'[d].done
                      /\ call'[d].at \in {"served", "deleted"} => call'[d].done
    BY DEF TagsPending, Pending
  <2>1. CASE d = c
    BY <1>2, <2>1
  <2>2. CASE d # c
    BY <1>2, <2>2 DEF FiberSide, TagsPending
  <2> QED BY <2>1, <2>2
<1>3. CASE ReadCallback(c)
  <2>1. call[c].at = "prologue" /\ call[c].tags \ {"done"} = {"read"}
        /\ ("done" \in call[c].tags <=> ~call[c].done)
    BY <1>3 DEF ReadCallback, TagsPending, Pending
  <2>2. net' \in [Calls -> Nets] /\ \A d \in Calls : net'[d].at = net[d].at
    <3>1. net' = [net EXCEPT ![c] = [net[c] EXCEPT !.request = FALSE]]
      BY <1>3 DEF ReadCallback
    <3>2. [net[c] EXCEPT !.request = FALSE] \in Nets /\ [net[c] EXCEPT !.request = FALSE].at = net[c].at
      BY <1>1, NetFields
    <3> QED BY <1>1, <3>1, <3>2
  <2> DEFINE t == call[c].tags \ {"read"}
  <2>3. PICK a \in {"handling", "failed"} : call' = [call EXCEPT ![c].at = a, ![c].tags = t]
    BY <1>3 DEF ReadCallback, FiberFails
  <2>4. a \in Places /\ "failed" \in Places /\ t \in SUBSET Tags
    BY <1>1 DEF Places, Handled
  <2> HIDE DEF t
  <2>5. Moved(c, a, t)
    BY <1>1, <2>3, <2>4, ContextMoves
  <2>6. UNCHANGED endpoint \/ (/\ a = "failed"
                              /\ endpoint' = [endpoint EXCEPT ![call[c].key].reader =
                                                 IF @ = "reading" THEN "failing" ELSE @])
    <3>1. CASE UNCHANGED endpoint
      BY <3>1
    <3>2. CASE FiberFails(c)
      <4>1. call' = [call EXCEPT ![c].at = "failed", ![c].tags = t]
        BY <3>2 DEF FiberFails, t
      <4>2. call'[c].at = "failed"
        BY <1>1, <2>4, <4>1, ContextMoves DEF Moved
      <4> QED BY <2>5, <3>2, <4>2 DEF FiberFails, Moved
    <3> QED BY <1>3, <3>1, <3>2 DEF ReadCallback
  <2>7. FiberSide(c)
    BY <1>3, <2>1, <2>2, <2>5, <2>6 DEF ReadCallback, FiberSide, Handled, Moved
  <2>8. Tagged
    BY <2>1, <2>5 DEF Pending, t, Moved
  <2> QED BY <1>2, <2>7, <2>8
<1>4. ASSUME NEW tags \in SUBSET Tags, Finish(c, tags), call[c].at \in {"handling", "writing"},
             tags \ {"done"} \in {{}, {"write"}}, "done" \in tags <=> ~call[c].done,
             UNCHANGED serverVars
      PROVE  FiberSide(c) /\ TagsPending'
  <2>1. /\ Moved(c, "finishing", tags \cup {"finish"})
        /\ net' \in [Calls -> Nets] /\ \A d \in Calls : net'[d].at = net[d].at
    BY <1>4, FinishMoves
  <2>2. FiberSide(c)
    BY <1>4, <2>1 DEF FiberSide, Handled, serverVars, Moved
  <2>3. Tagged
    BY <1>4, <2>1 DEF Pending, Moved
  <2> QED BY <1>2, <2>2, <2>3
<1>5. CASE UnaryEpilogue(c)
  <2>1. call[c].tags \ {"done"} = {} /\ ("done" \in call[c].tags <=> ~call[c].done)
        /\ call[c].at = "handling"
    BY <1>5 DEF UnaryEpilogue, TagsPending, Pending
  <2>2. PICK tags \in {call[c].tags \cup {"write"}, call[c].tags} : Finish(c, tags)
    BY <1>5 DEF UnaryEpilogue
  <2>3. tags \in SUBSET Tags /\ tags \ {"done"} \in {{}, {"write"}}
        /\ ("done" \in tags <=> ~call[c].done)
    BY <1>1, <2>1 DEF Tags
  <2> QED BY <1>4, <1>5, <2>1, <2>2, <2>3 DEF UnaryEpilogue
<1>6. CASE StreamingEpilogue(c)
  <2>1. call[c].tags \ {"done"} = {} /\ ("done" \in call[c].tags <=> ~call[c].done)
        /\ call[c].at = "handling"
    BY <1>6 DEF StreamingEpilogue, TagsPending, Pending
  <2>2. CASE Finish(c, call[c].tags)
    BY <1>1, <1>4, <1>6, <2>1, <2>2 DEF StreamingEpilogue
  <2>3. CASE /\ call' = [call EXCEPT ![c].at = "writing", ![c].tags = @ \cup {"write"},
                                     ![c].responses = @ + 1]
             /\ net' = [net EXCEPT ![c].response = TRUE]
    <3> DEFINE x == [call[c] EXCEPT !.at = "writing", !.tags = call[c].tags \cup {"write"},
                                    !.responses = call[c].responses + 1]
               n == [net[c] EXCEPT !.response = TRUE]
    <3>1. call' = [call EXCEPT ![c] = x] /\ net' = [net EXCEPT ![c] = n]
      BY <2>3
    <3>2. /\ x \in Contexts /\ x.at = "writing" /\ x.tags = call[c].tags \cup {"write"}
          /\ x.key = call[c].key /\ x.done = call[c].done
      <4>1. "writing" \in Places /\ call[c].tags \cup {"write"} \in SUBSET Tags
        BY <1>1 DEF Places, Handled, Tags
      <4>2. call[c].responses + 1 \in Nat
        BY <1>1 DEF Contexts
      <4> QED BY <1>1, <4>1, <4>2 DEF Contexts
    <3>3. n \in Nets /\ n.at = net[c].at
      BY <1>1 DEF Nets
    <3> HIDE DEF x, n
    <3>4. /\ call' \in [Calls -> Contexts] /\ \A d \in Calls \ {c} : call'[d] = call[d]
          /\ call'[c] = x
      BY <1>1, <3>1, <3>2
    <3>5. net' \in [Calls -> Nets] /\ \A d \in Calls : net'[d].at = net[d].at
      BY <1>1, <3>1, <3>3
    <3>6. FiberSide(c)
      BY <1>6, <2>1, <3>2, <3>4, <3>5 DEF StreamingEpilogue, FiberSide, Handled, serverVars, Moved
    <3>7. Tagged
      BY <2>1, <3>2, <3>4 DEF Pending, Moved
    <3> QED BY <1>2, <3>6, <3>7
  <2> QED BY <1>6, <2>2, <2>3 DEF StreamingEpilogue
<1>7. CASE HandlerStops(c)
  <2>1. call[c].tags \ {"done"} = {} /\ ("done" \in call[c].tags <=> ~call[c].done)
        /\ call[c].at = "handling"
    BY <1>7 DEF HandlerStops, TagsPending, Pending
  <2> DEFINE t == call[c].tags \ {"read"}
  <2>2. "failed" \in Places /\ t \in SUBSET Tags
    BY <1>1 DEF Places
  <2>3. call' = [call EXCEPT ![c].at = "failed", ![c].tags = t]
    BY <1>7 DEF HandlerStops, FiberFails
  <2> HIDE DEF t
  <2>4. Moved(c, "failed", t)
    BY <1>1, <2>2, <2>3, ContextMoves
  <2>5. FiberSide(c)
    BY <1>1, <1>7, <2>1, <2>4 DEF HandlerStops, FiberFails, FiberSide, Handled, Moved
  <2>6. Tagged
    BY <2>1, <2>4 DEF Pending, t, Moved
  <2> QED BY <1>2, <2>5, <2>6
<1>8. CASE WriteCallback(c)
  <2>1. /\ call[c].at \in {"writing", "finishing"}
        /\ call[c].at = "writing" => call[c].tags \ {"done"} = {"write"}
        /\ call[c].at = "finishing" => call[c].tags \ {"done"} = {"write", "finish"}
        /\ "done" \in call[c].tags <=> ~call[c].done
    BY <1>8 DEF WriteCallback, TagsPending, Pending
  <2>2. CASE call[c].at = "writing" /\ Finish(c, call[c].tags \ {"write"})
    BY <1>1, <1>4, <1>8, <2>1, <2>2 DEF WriteCallback
  <2>3. CASE /\ call' = [call EXCEPT ![c].at = IF @ = "writing" THEN "handling" ELSE @,
                                     ![c].tags = @ \ {"write"}]
             /\ UNCHANGED net
    <3> DEFINE a == IF call[c].at = "writing" THEN "handling" ELSE call[c].at
               t == call[c].tags \ {"write"}
    <3>1. a \in Places /\ t \in SUBSET Tags
      BY <1>1, <2>1 DEF Places, Handled
    <3>2. call' = [call EXCEPT ![c].at = a, ![c].tags = t]
      BY <2>3
    <3> HIDE DEF a, t
    <3>3. Moved(c, a, t)
      BY <1>1, <3>1, <3>2, ContextMoves
    <3>4. FiberSide(c)
      BY <1>1, <1>8, <2>1, <2>3, <3>3 DEF WriteCallback, FiberSide, Handled, serverVars, a, Moved
    <3>5. Tagged
      BY <2>1, <3>3 DEF Pending, a, t, Moved
    <3> QED BY <1>2, <3>4, <3>5
  <2> QED BY <1>8, <2>2, <2>3 DEF WriteCallback
<1>9. CASE FinishCallback(c)
  <2>1. /\ call[c].at \in {"finishing", "unimplemented"}
        /\ call[c].tags \ {"done"} = {"finish"}
        /\ "done" \in call[c].tags <=> ~call[c].done
    BY <1>9 DEF FinishCallback, TagsPending, Pending
  <2> DEFINE a == IF call[c].at = "finishing" THEN IF call[c].done THEN "served" ELSE "watching"
                  ELSE IF call[c].done THEN "deleted" ELSE "finished"
             t == call[c].tags \ {"finish"}
  <2>2. a \in Places /\ t \in SUBSET Tags
    BY <1>1, <2>1 DEF Places, Handled
  <2>3. call' = [call EXCEPT ![c].at = a, ![c].tags = t]
    BY <1>9 DEF FinishCallback
  <2> HIDE DEF a, t
  <2>4. Moved(c, a, t)
    BY <1>1, <2>2, <2>3, ContextMoves
  <2>5. FiberSide(c)
    BY <1>1, <1>9, <2>1, <2>4 DEF FinishCallback, FiberSide, Handled, serverVars, a, Moved
  <2>6. Tagged
    BY <2>1, <2>4 DEF Pending, a, t, Moved
  <2> QED BY <1>2, <2>5, <2>6
<1>10. CASE DoneCallback(c)
  <2>1. /\ call[c].tags \ {"done"} \in Pending(call[c].at)
        /\ call[c].at \notin {"none", "served", "deleted"}
    BY <1>10 DEF DoneCallback, TagsPending, Moved
  <2> DEFINE a == IF call[c].at = "watching" THEN "served"
                  ELSE IF call[c].at = "finished" THEN "deleted" ELSE call[c].at
             x == [call[c] EXCEPT !.tags = call[c].tags \ {"done"}, !.done = TRUE, !.at = a]
  <2>2. a \in Places
    BY <1>1 DEF Places, Handled, Contexts
  <2>3. call' = [call EXCEPT ![c] = x]
    BY <1>10 DEF DoneCallback
  <2>4. x \in Contexts /\ x.at = a /\ x.tags = call[c].tags \ {"done"} /\ x.done = TRUE
        /\ x.key = call[c].key
    <3> HIDE DEF a
    <3> QED BY <1>1, <2>2 DEF Contexts
  <2> HIDE DEF x
  <2>5. /\ call' \in [Calls -> Contexts] /\ \A d \in Calls \ {c} : call'[d] = call[d]
        /\ call'[c] = x
    BY <1>1, <2>3, <2>4
  <2>6. FiberSide(c)
    BY <1>1, <1>10, <2>4, <2>5 DEF DoneCallback, FiberSide, Handled, serverVars, Moved
  <2>7. Tagged
    BY <2>1, <2>4, <2>5 DEF Pending, Moved
  <2> QED BY <1>2, <2>6, <2>7
<1>11. CASE DoneOfDropped(c)
  <2> DEFINE t == call[c].tags \ {"done"}
  <2>1. call[c].at = "dropped" /\ t = {} /\ call' = [call EXCEPT ![c].at = "dangled", ![c].tags = t]
    BY <1>11 DEF DoneOfDropped, TagsPending, Pending
  <2>2. "dangled" \in Places /\ t \in SUBSET Tags
    BY <1>1 DEF Places
  <2> HIDE DEF t
  <2>3. Moved(c, "dangled", t)
    BY <1>1, <2>1, <2>2, ContextMoves
  <2>4. FiberSide(c)
    BY <1>1, <1>11, <2>1, <2>3 DEF DoneOfDropped, FiberSide, Handled, serverVars, Moved
  <2>5. Tagged
    BY <2>1, <2>3 DEF Pending, Moved
  <2> QED BY <1>2, <2>4, <2>5
<1> QED BY <1>3, <1>5, <1>6, <1>7, <1>8, <1>9, <1>10, <1>11 DEF FiberStep, TagStep

\* What becomes of a worker, of an endpoint and of a context, with all others left
\* as they are.
WorkerBecomes(w, a, c, k) ==
  /\ worker' \in [Workers -> Loops]
  /\ \A v \in Workers \ {w} : worker'[v] = worker[v]
  /\ worker'[w].at = a /\ worker'[w].call = c /\ worker'[w].key = k

EndpointBecomes(k, closed, pipe, reader) ==
  /\ endpoint' \in [Keys -> Endpoints]
  /\ \A j \in Keys \ {k} : endpoint'[j] = endpoint[j]
  /\ endpoint'[k].owner = endpoint[k].owner /\ endpoint'[k].closed = closed
  /\ endpoint'[k].pipe = pipe /\ endpoint'[k].reader = reader

ContextBecomes(c, a, k, t) ==
  /\ call' \in [Calls -> Contexts]
  /\ \A d \in Calls \ {c} : call'[d] = call[d]
  /\ call'[c].at = a /\ call'[c].key = k /\ call'[c].tags = t /\ call'[c].done = call[c].done

NetKeeps ==
  /\ net' \in [Calls -> Nets]
  /\ \A d \in Calls : net'[d].at = net[d].at

\* The task of s starts: its endpoints are inserted, or it has none and ends.
ServeStarts(s) ==
  /\ UNCHANGED <<main, load, worker, grpc, call, net>> /\ main = "services"
  /\ endpoint' \in [Keys -> Endpoints]
  /\ \A k \in Keys : \/ endpoint'[k] = endpoint[k]
                     \/ /\ endpoint[k].owner = 0 /\ endpoint'[k].owner = s
                        /\ ~endpoint'[k].closed /\ endpoint'[k].pipe = <<>>
                        /\ endpoint'[k].reader = "reading"
  /\ serve' \in [Services -> Tasks]
  /\ \A t \in Services \ {s} : serve'[t] = serve[t]
  /\ serve[s].at = "none"
  /\ \/ serve'[s].at = "serving" /\ ~serve'[s].done
     \/ serve'[s].at = "ended" /\ endpoint' = endpoint

LEMMA StartServeEffect ==
  ASSUME TypeOK, NEW s \in Services, StartServe(s)
  PROVE  ServeStarts(s)
<1> DEFINE e == [NoEndpoint EXCEPT !.owner = s, !.reader = "reading"]
<1>1. /\ e \in Endpoints /\ e.owner = s /\ e.closed = FALSE /\ e.pipe = <<>> /\ e.reader = "reading"
  <2>1. <<>> \in Seq(Calls)
    OBVIOUS
  <2>2. PICK p \in Seq(Calls) : p = <<>>
    BY <2>1, Zenon
  <2>3. NoEndpoint = [owner |-> 0, closed |-> FALSE, pipe |-> p, reader |-> "none"]
    BY <2>2, Zenon DEF NoEndpoint
  <2>4. /\ NoEndpoint \in Endpoints /\ NoEndpoint.closed = FALSE /\ NoEndpoint.pipe = p
    BY <2>3 DEF Endpoints
  <2>5. /\ e \in Endpoints /\ e.owner = s /\ e.closed = NoEndpoint.closed
        /\ e.pipe = NoEndpoint.pipe /\ e.reader = "reading"
    BY <2>4 DEF Endpoints
  <2> HIDE DEF e
  <2> QED BY <2>2, <2>4, <2>5
<1> HIDE DEF e
<1>2. endpoint \in [Keys -> Endpoints] /\ serve \in [Services -> Tasks]
  BY DEF TypeOK
<1>3. endpoint' = [k \in Keys |-> IF k \in Accepts[s] /\ Validate(k) /\ Insert(k) THEN e
                                  ELSE endpoint[k]]
  BY DEF StartServe, Accept, e
<1>4. /\ endpoint' \in [Keys -> Endpoints]
      /\ \A k \in Keys : \/ endpoint'[k] = endpoint[k]
                         \/ endpoint[k].owner = 0 /\ endpoint'[k] = e
  BY <1>1, <1>2, <1>3 DEF Insert
<1>5. PICK x \in Tasks :
        /\ serve' = [serve EXCEPT ![s] = x]
        /\ \/ x.at = "serving" /\ ~x.done
           \/ x.at = "ended" /\ endpoint' = endpoint
  <2>1. CASE Accept(s) = endpoint
    <3>1. [at |-> "ended", done |-> TRUE] \in Tasks /\ [at |-> "ended", done |-> TRUE].at = "ended"
      BY DEF Tasks
    <3>2. serve' = [serve EXCEPT ![s] = [at |-> "ended", done |-> TRUE]] /\ endpoint' = endpoint
      BY <2>1 DEF StartServe
    <3> QED BY <3>1, <3>2
  <2>2. CASE Accept(s) # endpoint
    <3>1. /\ [at |-> "serving", done |-> FALSE] \in Tasks
          /\ [at |-> "serving", done |-> FALSE].at = "serving"
          /\ ~[at |-> "serving", done |-> FALSE].done
      BY DEF Tasks
    <3>2. serve' = [serve EXCEPT ![s] = [at |-> "serving", done |-> FALSE]]
      BY <2>2 DEF StartServe
    <3> QED BY <3>1, <3>2
  <2> QED BY <2>1, <2>2
<1>6. /\ serve' \in [Services -> Tasks] /\ serve'[s] = x
      /\ \A t \in Services \ {s} : serve'[t] = serve[t]
  BY <1>2, <1>5
<1>7. serve[s].at = "none"
  <2>1. s >= s
    BY GrpcServerAssumption DEF Services
  <2> QED BY <2>1 DEF StartServe
<1>8. UNCHANGED <<main, load, worker, grpc, call, net>> /\ main = "services"
  BY DEF StartServe
<1> QED BY <1>1, <1>4, <1>5, <1>6, <1>7, <1>8 DEF ServeStarts

\* The task of s ends, its methods having ended.
ServeStops(s) ==
  /\ UNCHANGED <<main, load, worker, endpoint, grpc, call, net>>
  /\ \A k \in Keys : endpoint[k].owner = s => endpoint[k].reader = "ended"
  /\ serve' \in [Services -> Tasks]
  /\ \A t \in Services \ {s} : serve'[t] = serve[t]
  /\ serve'[s].at = "ended"

LEMMA ServeEndsEffect ==
  ASSUME TypeOK, NEW s \in Services, ServeEnds(s)
  PROVE  ServeStops(s)
<1>1. serve \in [Services -> Tasks]
  BY DEF TypeOK
<1>2. PICK b \in BOOLEAN : serve' = [serve EXCEPT ![s] = [at |-> "ended", done |-> b]]
  BY DEF ServeEnds
<1> DEFINE x == [at |-> "ended", done |-> b]
<1>3. x \in Tasks /\ x.at = "ended"
  BY DEF Tasks
<1> HIDE DEF x
<1>4. /\ serve' \in [Services -> Tasks] /\ serve'[s] = x
      /\ \A t \in Services \ {s} : serve'[t] = serve[t]
  BY <1>1, <1>2, <1>3 DEF x
<1>5. /\ UNCHANGED <<main, load, worker, endpoint, grpc, call, net>>
      /\ \A k \in Keys : endpoint[k].owner = s => endpoint[k].reader = "ended"
  BY DEF ServeEnds, ctorVars
<1> QED BY <1>3, <1>4, <1>5 DEF ServeStops

\* The worker starts and asks for a call.
WorkerStarts(w) ==
  /\ UNCHANGED <<serve, endpoint, grpc, call, net>>
  /\ main = "services" /\ main' \in {"services", "up"} /\ load' \in [Queues -> Nat]
  /\ worker[w].at = "none" /\ WorkerBecomes(w, "requested", worker[w].call, worker[w].key)

LEMMA StartWorkerEffect ==
  ASSUME TypeOK, NEW w \in Workers, StartWorker(w)
  PROVE  WorkerStarts(w)
<1> DEFINE x == [worker[w] EXCEPT !.at = "requested", !.queue = Schedule]
<1>1. Schedule \in Queues /\ worker[w] \in Loops /\ worker \in [Workers -> Loops]
  BY ScheduleFinds DEF TypeOK
<1>2. worker' = [worker EXCEPT ![w] = x]
  BY DEF StartWorker
<1>3. x \in Loops /\ x.at = "requested" /\ x.call = worker[w].call /\ x.key = worker[w].key
  BY <1>1 DEF Loops
<1>4. load' \in [Queues -> Nat]
  BY <1>1 DEF TypeOK, StartWorker
<1> HIDE DEF x
<1>5. WorkerBecomes(w, "requested", worker[w].call, worker[w].key)
  BY <1>1, <1>2, <1>3 DEF WorkerBecomes
<1>6. worker[w].at = "none"
  <2>1. w >= w
    BY GrpcServerAssumption DEF Workers, Queues
  <2> QED BY <2>1 DEF StartWorker
<1>7. /\ UNCHANGED <<serve, endpoint, grpc, call, net>>
      /\ main = "services" /\ main' \in {"services", "up"}
  BY DEF StartWorker
<1> QED BY <1>4, <1>5, <1>6, <1>7 DEF WorkerStarts

\* The worker takes a call from gRPC.
CallTaken(w, c) ==
  /\ UNCHANGED <<main, serve, load, endpoint, grpc>>
  /\ worker[w].at = "requested" /\ net[c].at = "sent"
  /\ WorkerBecomes(w, "lookup", c, worker[w].key)
  /\ ContextBecomes(c, "held", call[c].key, {"done"})
  /\ net' \in [Calls -> Nets] /\ net'[c].at = "taken"
  /\ \A d \in Calls \ {c} : net'[d] = net[d]

LEMMA RequestCallEffect ==
  ASSUME TypeOK, NEW w \in Workers, NEW c \in Calls, RequestCall(w, c)
  PROVE  CallTaken(w, c)
<1> DEFINE x == [worker[w] EXCEPT !.at = "lookup", !.call = c]
           y == [call[c] EXCEPT !.at = "held", !.tags = {"done"}]
           z == [net[c] EXCEPT !.at = "taken"]
<1>1. /\ worker[w] \in Loops /\ worker \in [Workers -> Loops]
      /\ call[c] \in Contexts /\ call \in [Calls -> Contexts]
      /\ net[c] \in Nets /\ net \in [Calls -> Nets]
  BY DEF TypeOK
<1>2. worker' = [worker EXCEPT ![w] = x] /\ call' = [call EXCEPT ![c] = y]
      /\ net' = [net EXCEPT ![c] = z]
  BY DEF RequestCall
<1>3. x \in Loops /\ x.at = "lookup" /\ x.call = c /\ x.key = worker[w].key
  BY <1>1 DEF Loops
<1>4. /\ y \in Contexts /\ y.at = "held" /\ y.key = call[c].key /\ y.tags = {"done"}
      /\ y.done = call[c].done
  <2>1. "held" \in Places /\ {"done"} \in SUBSET Tags
    BY DEF Places, Tags
  <2> QED BY <1>1, <2>1 DEF Contexts
<1>5. z \in Nets /\ z.at = "taken"
  BY <1>1, NetFields
<1> HIDE DEF x, y, z
<1>6. WorkerBecomes(w, "lookup", c, worker[w].key)
  BY <1>1, <1>2, <1>3 DEF WorkerBecomes
<1>7. ContextBecomes(c, "held", call[c].key, {"done"})
  BY <1>1, <1>2, <1>4 DEF ContextBecomes
<1>8. /\ net' \in [Calls -> Nets] /\ net'[c].at = "taken"
      /\ \A d \in Calls \ {c} : net'[d] = net[d]
  BY <1>1, <1>2, <1>5
<1>9. /\ UNCHANGED <<main, serve, load, endpoint, grpc>>
      /\ worker[w].at = "requested" /\ net[c].at = "sent"
  BY DEF RequestCall, ctorVars
<1> QED BY <1>6, <1>7, <1>8, <1>9 DEF CallTaken

\* The worker finishes the call as unimplemented, or has found its endpoint.
CallLookedUp(w) ==
  LET c == worker[w].call IN
  /\ UNCHANGED <<main, serve, load, endpoint, grpc>>
  /\ worker[w].at = "lookup" /\ c \in Calls
  /\ \/ /\ WorkerBecomes(w, "requested", NoCall, worker[w].key)
        /\ ContextBecomes(c, "unimplemented", call[c].key, call[c].tags \cup {"finish"})
        /\ NetKeeps
     \/ /\ \E k \in Keys : WorkerBecomes(w, "enqueue", c, k) /\ endpoint[k].owner # 0
        /\ UNCHANGED <<call, net>>

LEMMA LookupEffect ==
  ASSUME TypeOK, HeldByOne, NEW w \in Workers, Lookup(w)
  PROVE  CallLookedUp(w)
<1> DEFINE c == worker[w].call
           k == Find(target[c])
<1>0. /\ UNCHANGED <<main, serve, load, endpoint, grpc>>
      /\ worker[w].at = "lookup" /\ c \in Calls
  BY DEF Lookup, ctorVars, HeldByOne, Holds
<1>1. /\ worker[w] \in Loops /\ worker \in [Workers -> Loops]
      /\ call[c] \in Contexts /\ call \in [Calls -> Contexts]
      /\ net[c] \in Nets /\ net \in [Calls -> Nets]
  BY <1>0 DEF TypeOK
<1>2. CASE k = NoKey
  <2> DEFINE x == [worker[w] EXCEPT !.at = "requested", !.call = NoCall]
             y == [call[c] EXCEPT !.at = "unimplemented", !.tags = call[c].tags \cup {"finish"}]
             s == IF net[c].status = "none" THEN "UNIMPLEMENTED" ELSE net[c].status
             z == [net[c] EXCEPT !.status = s]
  <2>1. worker' = [worker EXCEPT ![w] = x] /\ call' = [call EXCEPT ![c] = y]
        /\ net' = [net EXCEPT ![c] = z]
    BY <1>2 DEF Lookup, Unimplemented
  <2>2. x \in Loops /\ x.at = "requested" /\ x.call = NoCall /\ x.key = worker[w].key
    BY <1>1 DEF Loops
  <2>3. /\ y \in Contexts /\ y.at = "unimplemented" /\ y.key = call[c].key
        /\ y.tags = call[c].tags \cup {"finish"} /\ y.done = call[c].done
    <3>1. "unimplemented" \in Places /\ call[c].tags \cup {"finish"} \in SUBSET Tags
      BY <1>1 DEF Places, Tags, Contexts
    <3> QED BY <1>1, <3>1 DEF Contexts
  <2>4. z \in Nets /\ z.at = net[c].at
    <3>1. s \in Statuses
      BY <1>1 DEF Nets, Statuses
    <3> HIDE DEF s
    <3> QED BY <1>1, <3>1, NetFields
  <2> HIDE DEF x, y, z
  <2>5. WorkerBecomes(w, "requested", NoCall, worker[w].key)
    BY <1>0, <1>1, <2>1, <2>2 DEF WorkerBecomes
  <2>6. ContextBecomes(c, "unimplemented", call[c].key, call[c].tags \cup {"finish"})
    BY <1>0, <1>1, <2>1, <2>3 DEF ContextBecomes
  <2>7. NetKeeps
    BY <1>0, <1>1, <2>1, <2>4 DEF NetKeeps
  <2> QED BY <1>0, <2>5, <2>6, <2>7 DEF CallLookedUp
<1>3. CASE k # NoKey
  <2>1. k \in Keys /\ endpoint[k].owner # 0
    BY <1>3 DEF Find, Inserted
  <2>2. worker' = [worker EXCEPT ![w] = [worker[w] EXCEPT !.at = "enqueue", !.key = k]]
        /\ UNCHANGED <<call, net>>
    BY <1>3 DEF Lookup
  <2> HIDE DEF k
  <2> DEFINE x == [worker[w] EXCEPT !.at = "enqueue", !.key = k]
  <2>3. x \in Loops /\ x.at = "enqueue" /\ x.call = c /\ x.key = k
    BY <1>1, <2>1 DEF Loops
  <2>4. worker' = [worker EXCEPT ![w] = x]
    BY <2>2
  <2> HIDE DEF x
  <2>5. WorkerBecomes(w, "enqueue", c, k)
    BY <1>1, <2>3, <2>4 DEF WorkerBecomes
  <2> QED BY <1>0, <2>1, <2>2, <2>5 DEF CallLookedUp
<1> QED BY <1>2, <1>3

\* The worker puts the call into the pipe of its endpoint, or drops it.
CallEnqueued(w) ==
  LET c == worker[w].call
      k == worker[w].key
      e == endpoint[k] IN
  /\ UNCHANGED <<main, serve, load, grpc>>
  /\ worker[w].at = "enqueue" /\ c \in Calls /\ k \in Keys
  /\ WorkerBecomes(w, "requested", NoCall, NoKey)
  /\ NetKeeps
  /\ \/ /\ e.closed /\ UNCHANGED endpoint
        /\ ContextBecomes(c, "dropped", call[c].key, call[c].tags)
     \/ /\ ~e.closed /\ EndpointBecomes(k, e.closed, Append(e.pipe, c), e.reader)
        /\ ContextBecomes(c, "queued", k, call[c].tags)

LEMMA EnqueueEffect ==
  ASSUME TypeOK, HeldByOne, Owned, NEW w \in Workers, Enqueue(w)
  PROVE  CallEnqueued(w)
<1> DEFINE c == worker[w].call
           k == worker[w].key
           x == [worker[w] EXCEPT !.at = "requested", !.call = NoCall, !.key = NoKey]
<1>0. /\ UNCHANGED <<main, serve, load, grpc>>
      /\ worker[w].at = "enqueue" /\ c \in Calls /\ k \in Keys
  BY DEF Enqueue, ctorVars, HeldByOne, Holds, Owned
<1>1. /\ worker[w] \in Loops /\ worker \in [Workers -> Loops]
      /\ call[c] \in Contexts /\ call \in [Calls -> Contexts]
      /\ net[c] \in Nets /\ net \in [Calls -> Nets]
      /\ endpoint[k] \in Endpoints /\ endpoint \in [Keys -> Endpoints]
  BY <1>0 DEF TypeOK
<1>2. WorkerBecomes(w, "requested", NoCall, NoKey)
  <2>1. worker' = [worker EXCEPT ![w] = x]
    BY DEF Enqueue
  <2>2. x \in Loops /\ x.at = "requested" /\ x.call = NoCall /\ x.key = NoKey
    BY <1>1 DEF Loops
  <2> HIDE DEF x
  <2> QED BY <1>1, <2>1, <2>2 DEF WorkerBecomes
<1>3. CASE endpoint[k].closed
  <2> DEFINE y == [call[c] EXCEPT !.at = "dropped"]
             s == IF net[c].status = "none" THEN "CANCELLED" ELSE net[c].status
             z == [net[c] EXCEPT !.status = s]
  <2>1. /\ call' = [call EXCEPT ![c] = y] /\ UNCHANGED endpoint
        /\ net' = [net EXCEPT ![c] = z] \/ UNCHANGED net
    BY <1>3 DEF Enqueue
  <2>2. y \in Contexts /\ y.at = "dropped" /\ y.key = call[c].key /\ y.tags = call[c].tags
        /\ y.done = call[c].done
    <3>1. "dropped" \in Places
      BY DEF Places
    <3> QED BY <1>1, <3>1 DEF Contexts
  <2>3. z \in Nets /\ z.at = net[c].at
    <3>1. s \in Statuses
      BY <1>1 DEF Nets, Statuses
    <3> HIDE DEF s
    <3> QED BY <1>1, <3>1, NetFields
  <2> HIDE DEF y, z
  <2>4. ContextBecomes(c, "dropped", call[c].key, call[c].tags)
    BY <1>0, <1>1, <2>1, <2>2 DEF ContextBecomes
  <2>5. NetKeeps
    BY <1>0, <1>1, <2>1, <2>3 DEF NetKeeps
  <2> QED BY <1>0, <1>2, <1>3, <2>1, <2>4, <2>5 DEF CallEnqueued
<1>4. CASE ~endpoint[k].closed
  <2> DEFINE y == [call[c] EXCEPT !.at = "queued", !.key = k]
             p == Append(endpoint[k].pipe, c)
             e == [endpoint[k] EXCEPT !.pipe = p]
  <2>1. call' = [call EXCEPT ![c] = y] /\ endpoint' = [endpoint EXCEPT ![k] = e] /\ UNCHANGED net
    BY <1>4 DEF Enqueue
  <2>2. y \in Contexts /\ y.at = "queued" /\ y.key = k /\ y.tags = call[c].tags
        /\ y.done = call[c].done
    <3>1. "queued" \in Places
      BY DEF Places
    <3> QED BY <1>0, <1>1, <3>1 DEF Contexts
  <2>3. p \in Seq(Calls)
    BY <1>0, <1>1 DEF Endpoints
  <2>4. /\ e \in Endpoints /\ e.owner = endpoint[k].owner /\ e.closed = endpoint[k].closed
        /\ e.pipe = p
        /\ e.reader = endpoint[k].reader
    <3> HIDE DEF p
    <3> QED BY <1>1, <2>3 DEF Endpoints
  <2> HIDE DEF y, e, p
  <2>5. ContextBecomes(c, "queued", k, call[c].tags)
    BY <1>0, <1>1, <2>1, <2>2 DEF ContextBecomes
  <2>6. EndpointBecomes(k, endpoint[k].closed, p, endpoint[k].reader)
    BY <1>0, <1>1, <2>1, <2>4 DEF EndpointBecomes
  <2>7. NetKeeps
    BY <1>0, <1>1, <2>1 DEF NetKeeps
  <2> QED BY <1>0, <1>2, <1>4, <2>5, <2>6, <2>7 DEF p, CallEnqueued
<1> QED BY <1>3, <1>4

\* The worker's request fails: it closes the endpoints, if there are any.
WorkerFails(w) ==
  /\ UNCHANGED <<main, serve, load, endpoint, grpc, call, net>>
  /\ worker[w].at = "requested" /\ grpc # "up"
  /\ \E a \in {"done", "closing"} : WorkerBecomes(w, a, worker[w].call, worker[w].key)

LEMMA RequestCallFailsEffect ==
  ASSUME TypeOK, NEW w \in Workers, RequestCallFails(w)
  PROVE  WorkerFails(w)
<1> DEFINE all == {k \in Keys : Inserted(k)}
           a == IF all = {} THEN "done" ELSE "closing"
           x == [worker[w] EXCEPT !.at = a, !.left = all]
<1>1. worker[w] \in Loops /\ worker \in [Workers -> Loops]
  BY DEF TypeOK
<1>2. worker' = [worker EXCEPT ![w] = x]
  BY DEF RequestCallFails
<1>3. a \in {"done", "closing"} /\ all \in SUBSET Keys
  OBVIOUS
<1> HIDE DEF a, all
<1>4. x \in Loops /\ x.at = a /\ x.call = worker[w].call /\ x.key = worker[w].key
  BY <1>1, <1>3 DEF Loops
<1> HIDE DEF x
<1>5. WorkerBecomes(w, a, worker[w].call, worker[w].key)
  BY <1>1, <1>2, <1>4 DEF WorkerBecomes
<1>6. /\ UNCHANGED <<main, serve, load, endpoint, grpc, call, net>>
      /\ worker[w].at = "requested" /\ grpc # "up"
  BY DEF RequestCallFails, ctorVars
<1> QED BY <1>3, <1>5, <1>6 DEF WorkerFails

\* The worker closes an endpoint.
EndpointCloses(w, k) ==
  /\ UNCHANGED <<main, serve, load, grpc, call, net>>
  /\ worker[w].at = "closing"
  /\ \E a \in {"done", "closing"} : WorkerBecomes(w, a, worker[w].call, worker[w].key)
  /\ EndpointBecomes(k, TRUE, endpoint[k].pipe, endpoint[k].reader)

LEMMA CloseEndpointEffect ==
  ASSUME TypeOK, NEW w \in Workers, NEW k \in Keys, CloseEndpoint(w, k)
  PROVE  EndpointCloses(w, k)
<1> DEFINE a == IF worker[w].left = {k} THEN "done" ELSE "closing"
           l == worker[w].left \ {k}
           x == [worker[w] EXCEPT !.left = l, !.at = a]
           e == [endpoint[k] EXCEPT !.closed = TRUE]
<1>1. /\ worker[w] \in Loops /\ worker \in [Workers -> Loops]
      /\ endpoint[k] \in Endpoints /\ endpoint \in [Keys -> Endpoints]
  BY DEF TypeOK
<1>2. worker' = [worker EXCEPT ![w] = x] /\ endpoint' = [endpoint EXCEPT ![k] = e]
  BY <1>1 DEF CloseEndpoint, Loops
<1>3. a \in {"done", "closing"} /\ l \in SUBSET Keys
  BY <1>1 DEF Loops
<1> HIDE DEF a, l
<1>4. x \in Loops /\ x.at = a /\ x.call = worker[w].call /\ x.key = worker[w].key
  BY <1>1, <1>3 DEF Loops
<1>5. /\ e \in Endpoints /\ e.owner = endpoint[k].owner /\ e.closed = TRUE
      /\ e.pipe = endpoint[k].pipe /\ e.reader = endpoint[k].reader
  BY <1>1 DEF Endpoints
<1> HIDE DEF x, e
<1>6. WorkerBecomes(w, a, worker[w].call, worker[w].key)
  BY <1>1, <1>2, <1>4 DEF WorkerBecomes
<1>7. EndpointBecomes(k, TRUE, endpoint[k].pipe, endpoint[k].reader)
  BY <1>1, <1>2, <1>5 DEF EndpointBecomes
<1>8. UNCHANGED <<main, serve, load, grpc, call, net>> /\ worker[w].at = "closing"
  BY DEF CloseEndpoint, ctorVars
<1> QED BY <1>3, <1>6, <1>7, <1>8 DEF EndpointCloses

\* The method takes a call out of its pipe, for a fiber or to let it go.
CallDequeued(k) ==
  LET e == endpoint[k]
      c == Head(e.pipe) IN
  /\ UNCHANGED <<main, serve, load, worker, grpc, net>>
  /\ c \in Calls /\ e.pipe # <<>>
  /\ \/ /\ e.reader = "reading"
        /\ EndpointBecomes(k, e.closed, Tail(e.pipe), "reading")
        /\ ContextBecomes(c, "prologue", call[c].key, call[c].tags \cup {"read"})
     \/ /\ e.reader = "failing"
        /\ EndpointBecomes(k, e.closed, Tail(e.pipe), "draining")
        /\ ContextBecomes(c, "lost", call[c].key, call[c].tags)

LEMMA DequeueEffect ==
  ASSUME TypeOK, NEW k \in Keys, Dequeue(k) \/ DequeueFailing(k)
  PROVE  CallDequeued(k)
<1> DEFINE c == Head(endpoint[k].pipe)
           p == Tail(endpoint[k].pipe)
<1>1. /\ call \in [Calls -> Contexts]
      /\ endpoint[k] \in Endpoints /\ endpoint \in [Keys -> Endpoints]
  BY DEF TypeOK
<1>2. endpoint[k].pipe \in Seq(Calls) /\ endpoint[k].pipe # <<>>
  BY <1>1 DEF Endpoints, Dequeue, DequeueFailing
<1>3. c \in Calls /\ p \in Seq(Calls)
  BY <1>2
<1>4. call[c] \in Contexts /\ UNCHANGED <<main, serve, load, worker, grpc, net>>
  BY <1>1, <1>3 DEF Dequeue, DequeueFailing, ctorVars
<1>5. CASE Dequeue(k)
  <2> DEFINE t == call[c].tags \cup {"read"}
             y == [call[c] EXCEPT !.at = "prologue", !.tags = t]
             e == [endpoint[k] EXCEPT !.pipe = p]
  <2>1. /\ call' = [call EXCEPT ![c] = y] /\ endpoint' = [endpoint EXCEPT ![k] = e]
        /\ endpoint[k].reader = "reading"
    BY <1>5 DEF Dequeue
  <2>2. t \in SUBSET Tags /\ "prologue" \in Places
    BY <1>4 DEF Contexts, Tags, Places, Handled
  <2> HIDE DEF t, p, c
  <2>3. y \in Contexts /\ y.at = "prologue" /\ y.key = call[c].key /\ y.tags = t
        /\ y.done = call[c].done
    BY <1>4, <2>2 DEF Contexts
  <2>4. e \in Endpoints /\ e.owner = endpoint[k].owner /\ e.closed = endpoint[k].closed
        /\ e.pipe = p /\ e.reader = endpoint[k].reader
    BY <1>1, <1>3 DEF Endpoints
  <2> HIDE DEF y, e
  <2>5. ContextBecomes(c, "prologue", call[c].key, t)
    BY <1>1, <1>3, <2>1, <2>3 DEF ContextBecomes
  <2>6. EndpointBecomes(k, endpoint[k].closed, p, endpoint[k].reader)
    BY <1>1, <2>1, <2>4 DEF EndpointBecomes
  <2> QED BY <1>2, <1>3, <1>4, <2>1, <2>5, <2>6 DEF t, p, c, CallDequeued
<1>6. CASE DequeueFailing(k)
  <2> DEFINE y == [call[c] EXCEPT !.at = "lost"]
             e == [endpoint[k] EXCEPT !.pipe = p, !.reader = "draining"]
  <2>1. /\ call' = [call EXCEPT ![c] = y] /\ endpoint' = [endpoint EXCEPT ![k] = e]
        /\ endpoint[k].reader = "failing"
    BY <1>6 DEF DequeueFailing
  <2>2. "lost" \in Places
    BY DEF Places
  <2> HIDE DEF p, c
  <2>3. y \in Contexts /\ y.at = "lost" /\ y.key = call[c].key /\ y.tags = call[c].tags
        /\ y.done = call[c].done
    BY <1>4, <2>2 DEF Contexts
  <2>4. e \in Endpoints /\ e.owner = endpoint[k].owner /\ e.closed = endpoint[k].closed
        /\ e.pipe = p /\ e.reader = "draining"
    BY <1>1, <1>3 DEF Endpoints
  <2> HIDE DEF y, e
  <2>5. ContextBecomes(c, "lost", call[c].key, call[c].tags)
    BY <1>1, <1>3, <2>1, <2>3 DEF ContextBecomes
  <2>6. EndpointBecomes(k, endpoint[k].closed, p, "draining")
    BY <1>1, <2>1, <2>4 DEF EndpointBecomes
  <2> QED BY <1>2, <1>3, <1>4, <2>1, <2>5, <2>6 DEF p, c, CallDequeued
<1> QED BY <1>5, <1>6

\* An assignment of the reader of an endpoint, as of a record.
LEMMA ReaderEffect ==
  ASSUME TypeOK, NEW k \in Keys, NEW r \in {"draining", "ended"},
         endpoint' = [endpoint EXCEPT ![k].reader = r]
  PROVE  EndpointBecomes(k, endpoint[k].closed, endpoint[k].pipe, r)
<1> DEFINE e == [endpoint[k] EXCEPT !.reader = r]
<1>1. endpoint[k] \in Endpoints /\ endpoint \in [Keys -> Endpoints]
  BY DEF TypeOK
<1>2. endpoint' = [endpoint EXCEPT ![k] = e]
  OBVIOUS
<1>3. e \in Endpoints /\ e.owner = endpoint[k].owner /\ e.closed = endpoint[k].closed
      /\ e.pipe = endpoint[k].pipe /\ e.reader = r
  BY <1>1 DEF Endpoints
<1> HIDE DEF e
<1> QED BY <1>1, <1>2, <1>3 DEF EndpointBecomes

\* The method has read the last call, or has ended with its fibers.
ReaderStops(k) ==
  /\ UNCHANGED <<main, serve, load, worker, grpc, call, net>>
  /\ \/ /\ endpoint[k].reader \in {"reading", "failing"}
        /\ endpoint[k].pipe = <<>> /\ endpoint[k].closed
        /\ EndpointBecomes(k, endpoint[k].closed, endpoint[k].pipe, "draining")
     \/ /\ endpoint[k].reader = "draining"
        /\ \A c \in Calls : call[c].key = k => call[c].at \notin Handled
        /\ EndpointBecomes(k, endpoint[k].closed, endpoint[k].pipe, "ended")

LEMMA ReaderStopsEffect ==
  ASSUME TypeOK, NEW k \in Keys, DequeueEnd(k) \/ MethodEnds(k)
  PROVE  ReaderStops(k)
<1>1. CASE DequeueEnd(k)
  <2>1. EndpointBecomes(k, endpoint[k].closed, endpoint[k].pipe, "draining")
    BY <1>1, ReaderEffect DEF DequeueEnd
  <2> QED BY <1>1, <2>1 DEF DequeueEnd, ctorVars, ReaderStops
<1>2. CASE MethodEnds(k)
  <2>1. EndpointBecomes(k, endpoint[k].closed, endpoint[k].pipe, "ended")
    BY <1>2, ReaderEffect DEF MethodEnds
  <2> QED BY <1>2, <2>1 DEF MethodEnds, ctorVars, ReaderStops
<1> QED BY <1>1, <1>2

\* A fiber leaves the endpoints alone, except that one that fails has the reader
\* of its method go no further.
LEMMA FiberEndpoints ==
  ASSUME TypeOK, MethodReads, NEW c \in Calls, FiberSide(c)
  PROVE  /\ endpoint' \in [Keys -> Endpoints]
         /\ \A k \in Keys :
              /\ endpoint'[k].owner = endpoint[k].owner
              /\ endpoint'[k].closed = endpoint[k].closed /\ endpoint'[k].pipe = endpoint[k].pipe
              /\ \/ endpoint'[k].reader = endpoint[k].reader
                 \/ /\ endpoint[k].reader = "reading" /\ endpoint'[k].reader = "failing"
                    /\ call'[c].at = "failed" /\ call'[c].key = k
<1>1. endpoint \in [Keys -> Endpoints]
  BY DEF TypeOK
<1>2. CASE UNCHANGED endpoint
  BY <1>1, <1>2
<1>3. CASE /\ call[c].at \in Handled /\ call'[c].at = "failed"
           /\ endpoint' = [endpoint EXCEPT ![call[c].key].reader =
                                             IF @ = "reading" THEN "failing" ELSE @]
  <2> DEFINE k == call[c].key
             r == IF endpoint[k].reader = "reading" THEN "failing" ELSE endpoint[k].reader
             e == [endpoint[k] EXCEPT !.reader = r]
  <2>1. k \in Keys /\ endpoint[k] \in Endpoints
    BY <1>1, <1>3 DEF MethodReads
  <2>2. endpoint' = [endpoint EXCEPT ![k] = e]
    BY <1>3
  <2>3. r \in {"none", "reading", "failing", "draining", "ended"}
    BY <2>1 DEF Endpoints
  <2>4. r = endpoint[k].reader \/ (endpoint[k].reader = "reading" /\ r = "failing")
    OBVIOUS
  <2> HIDE DEF r
  <2>5. e \in Endpoints /\ e.owner = endpoint[k].owner /\ e.closed = endpoint[k].closed
        /\ e.pipe = endpoint[k].pipe /\ e.reader = r
    BY <2>1, <2>3 DEF Endpoints
  <2> HIDE DEF e
  <2>6. endpoint' \in [Keys -> Endpoints] /\ endpoint'[k] = e
        /\ \A j \in Keys \ {k} : endpoint'[j] = endpoint[j]
    BY <1>1, <2>1, <2>2, <2>5
  <2>7. call'[c].key = k
    BY DEF FiberSide
  <2> HIDE DEF k
  <2> QED BY <1>3, <2>4, <2>5, <2>6, <2>7
<1> QED BY <1>2, <1>3 DEF FiberSide

\* The main thread, or gRPC's deadline.
MainMoves ==
  /\ UNCHANGED <<serve, load, worker, endpoint, call>>
  /\ NetKeeps
  /\ main' \in {"grpc", "wait", "reset", main} /\ grpc' \in {"shutdown", "cancelled", grpc}
  /\ main' = "reset" /\ main # "reset" =>
       /\ \A w \in Workers : worker[w].at = "done"
       /\ \A s \in Services : serve[s].done

\* What the deadline cancels is not given out again.
LEMMA DeadlineEffect ==
  ASSUME TypeOK, DeadlinePasses
  PROVE  NetKeeps
<1>1. net \in [Calls -> Nets]
  BY DEF TypeOK
<1>2. \A c \in Calls : net'[c] \in Nets /\ net'[c].at = net[c].at
  <2> TAKE c \in Calls
  <2>1. net[c] \in Nets
    BY <1>1
  <2>2. CASE net'[c] = net[c]
    BY <2>1, <2>2
  <2>3. CASE net'[c] = [net[c] EXCEPT !.status = "CANCELLED"]
    <3>1. "CANCELLED" \in Statuses
      BY DEF Statuses
    <3>2. /\ [net[c] EXCEPT !.status = "CANCELLED"] \in Nets
          /\ [net[c] EXCEPT !.status = "CANCELLED"].at = net[c].at
      BY <2>1, <3>1, NetFields
    <3> QED BY <2>3, <3>2
  <2> QED BY <2>2, <2>3 DEF DeadlinePasses
<1>3. net' = [c \in Calls |-> net'[c]]
  BY DEF DeadlinePasses
<1> QED BY <1>2, <1>3 DEF NetKeeps

LEMMA MainEffect ==
  ASSUME TypeOK, Shutdown \/ DeadlinePasses \/ WaitGrpc \/ WaitTasks
  PROVE  MainMoves
<1>1. UNCHANGED net => NetKeeps
  BY DEF TypeOK, NetKeeps
<1>2. CASE DeadlinePasses
  BY <1>2, DeadlineEffect DEF DeadlinePasses, MainMoves, ctorVars
<1>3. CASE Shutdown
  BY <1>1, <1>3 DEF Shutdown, MainMoves, ctorVars
<1>4. CASE WaitGrpc
  BY <1>1, <1>4 DEF WaitGrpc, MainMoves, ctorVars
<1>5. CASE WaitTasks
  BY <1>1, <1>5 DEF WaitTasks, MainMoves, ctorVars
<1> QED BY <1>2, <1>3, <1>4, <1>5

\* Every step of the system is one of these.
LEMMA StepCases ==
  ASSUME IInv, [Next]_vars
  PROVE  \/ ClientSide \/ MainMoves
         \/ \E c \in Calls : FiberSide(c) /\ TagsPending'
         \/ \E s \in Services : ServeStarts(s) \/ ServeStops(s)
         \/ \E w \in Workers : WorkerStarts(w) \/ CallLookedUp(w) \/ CallEnqueued(w) \/ WorkerFails(w)
         \/ \E w \in Workers : \E k \in Keys : EndpointCloses(w, k)
         \/ \E w \in Workers : \E c \in Calls : CallTaken(w, c)
         \/ \E k \in Keys : CallDequeued(k) \/ ReaderStops(k)
<1>0. TypeOK /\ TagsPending /\ HeldByOne /\ Owned
  BY DEF IInv
<1>1. CASE UNCHANGED vars
  <2>1. net' \in [Calls -> Nets]
    BY <1>0, <1>1 DEF vars, serverAll, TypeOK
  <2> QED BY <1>1, <2>1 DEF vars, serverAll, ClientSide
<1>2. ASSUME NEW c \in Calls, Call(c) \/ Trigger(c) \/ Connect(c) \/ ClientStep(c) \/ Refuse(c)
      PROVE  ClientSide
  BY <1>0, <1>2, ClientSideOnly
<1>3. ASSUME NEW c \in Calls, FiberStep(c) \/ TagStep(c) \/ HandlerStops(c)
      PROVE  FiberSide(c) /\ TagsPending'
  BY <1>0, <1>3, FiberSideOnly
<1>4. \A s \in Services : /\ StartServe(s) => ServeStarts(s)
                          /\ ServeEnds(s) => ServeStops(s)
  BY <1>0, StartServeEffect, ServeEndsEffect
<1>5. \A w \in Workers : /\ StartWorker(w) => WorkerStarts(w) 
                         /\ Lookup(w) => CallLookedUp(w)
                         /\ Enqueue(w) => CallEnqueued(w)
                         /\ RequestCallFails(w) => WorkerFails(w)
                         /\ \A k \in Keys : CloseEndpoint(w, k) => EndpointCloses(w, k)
                         /\ \A c \in Calls : RequestCall(w, c) => CallTaken(w, c)
  BY <1>0, StartWorkerEffect, LookupEffect, EnqueueEffect, RequestCallFailsEffect,
     CloseEndpointEffect, RequestCallEffect
<1>6. \A k \in Keys : /\ Dequeue(k) \/ DequeueFailing(k) => CallDequeued(k)
                      /\ DequeueEnd(k) \/ MethodEnds(k) => ReaderStops(k)
  BY <1>0, DequeueEffect, ReaderStopsEffect
<1>7. Shutdown \/ DeadlinePasses \/ WaitGrpc \/ WaitTasks => MainMoves
  BY <1>0, MainEffect
<1> QED BY <1>1, <1>2, <1>3, <1>4, <1>5, <1>6, <1>7 DEF Next, ServerNext, ServerProgress, CtorStep,
           WorkerStep, MethodStep, WaitStep

\* The call that a worker has in hand is held, and the one at the head of a pipe
\* queued.
LEMMA HeldCall ==
  ASSUME HeldByOne, NEW w \in Workers, CallLookedUp(w) \/ CallEnqueued(w)
  PROVE  Holds(w) /\ worker[w].call \in Calls /\ call[worker[w].call].at = "held"
BY DEF HeldByOne, Holds, CallLookedUp, CallEnqueued

LEMMA QueuedCall ==
  ASSUME TypeOK, QueuedOnce, NEW k \in Keys, CallDequeued(k)
  PROVE  /\ Head(endpoint[k].pipe) \in Calls /\ call[Head(endpoint[k].pipe)].at = "queued"
         /\ call[Head(endpoint[k].pipe)].key = k
         /\ endpoint[k].pipe \in Seq(Calls) /\ endpoint[k].pipe # <<>>
<1>1. endpoint[k].pipe \in Seq(Calls) /\ endpoint[k].pipe # <<>>
  BY DEF TypeOK, Endpoints, CallDequeued
<1>2. 1 \in 1..Len(endpoint[k].pipe) /\ Head(endpoint[k].pipe) = endpoint[k].pipe[1]
  BY <1>1
<1> QED BY <1>1, <1>2 DEF QueuedOnce, CallDequeued

\* The tags stay what the places say when one context moves.
LEMMA TagsBecome ==
  ASSUME TagsPending, NEW c \in Calls, NEW a, NEW k, NEW t, ContextBecomes(c, a, k, t),
         a \notin {"none", "watching", "finished", "served", "deleted", "dangled"},
         t \ {"done"} \in Pending(a), "done" \in t <=> ~call[c].done
  PROVE  TagsPending'
<1> SUFFICES ASSUME NEW d \in Calls
             PROVE  /\ call'[d].tags \ {"done"} \in Pending(call'[d].at)
                    /\ call'[d].at = "none" => call'[d].tags = {} /\ ~call'[d].done
                    /\ call'[d].at \notin {"none", "dangled"}
                         => ("done" \in call'[d].tags <=> ~call'[d].done)
                    /\ call'[d].at = "dangled" => call'[d].tags = {}
                    /\ call'[d].at \in {"watching", "finished"} => ~call'[d].done
                    /\ call'[d].at \in {"served", "deleted"} => call'[d].done
  BY DEF TagsPending, Pending
<1>1. CASE d = c
  BY <1>1 DEF ContextBecomes
<1>2. CASE d # c
  BY <1>2 DEF ContextBecomes, TagsPending
<1> QED BY <1>1, <1>2

\* Nothing enters or leaves the pipes.
LEMMA QueuedKept ==
  ASSUME TypeOK, QueuedOnce, \A k \in Keys : endpoint'[k].pipe = endpoint[k].pipe,
         \A c \in Calls : /\ call'[c].at = "queued" <=> call[c].at = "queued"
                          /\ call[c].at = "queued" => call'[c].key = call[c].key
  PROVE  QueuedOnce'
<1>1. \A k \in Keys : \A i \in 1..Len(endpoint[k].pipe) : endpoint[k].pipe[i] \in Calls
  BY DEF TypeOK, Endpoints
<1>2. \A k \in Keys : \A i \in 1..Len(endpoint'[k].pipe) :
        call'[endpoint'[k].pipe[i]].at = "queued" /\ call'[endpoint'[k].pipe[i]].key = k
  BY <1>1 DEF QueuedOnce
<1>3. \A k \in Keys : \A i, j \in 1..Len(endpoint'[k].pipe) :
        endpoint'[k].pipe[i] = endpoint'[k].pipe[j] => i = j
  BY DEF QueuedOnce
<1>4. ASSUME NEW c \in Calls, call'[c].at = "queued"
      PROVE  /\ call'[c].key \in Keys
             /\ \E i \in 1..Len(endpoint'[call'[c].key].pipe) : endpoint'[call'[c].key].pipe[i] = c
  <2>1. call'[c].key = call[c].key /\ call[c].key \in Keys
    BY <1>4 DEF QueuedOnce
  <2>2. \E i \in 1..Len(endpoint[call[c].key].pipe) : endpoint[call[c].key].pipe[i] = c
    BY <1>4 DEF QueuedOnce
  <2> QED BY <2>1, <2>2
<1> QED BY <1>2, <1>3, <1>4 DEF QueuedOnce

\* Every step preserves each part of the invariant: the types,
LEMMA TypeStep ==
  ASSUME IInv, [Next]_vars
  PROVE  TypeOK'
<1>0. /\ main \in {"services", "up", "grpc", "wait", "reset"}
      /\ grpc \in {"up", "shutdown", "cancelled"}
      /\ load \in [Queues -> Nat] /\ serve \in [Services -> Tasks]
      /\ worker \in [Workers -> Loops] /\ endpoint \in [Keys -> Endpoints]
      /\ call \in [Calls -> Contexts] /\ net \in [Calls -> Nets]
      /\ TypeOK /\ TagsPending /\ NotTaken /\ HeldByOne /\ QueuedOnce /\ Owned /\ MethodReads
      /\ ClosedAtShutdown /\ ResetAfterAll
  BY DEF IInv, TypeOK
<1>1. CASE ClientSide
  BY <1>0, <1>1 DEF ClientSide, serverVars, ctorVars, TypeOK
<1>2. CASE MainMoves
  BY <1>0, <1>2 DEF MainMoves, NetKeeps, TypeOK
<1>3. ASSUME NEW c \in Calls, FiberSide(c) /\ TagsPending'
      PROVE  TypeOK'
  <2>1. endpoint' \in [Keys -> Endpoints]
    BY <1>0, <1>3, FiberEndpoints
  <2> QED BY <1>0, <1>3, <2>1 DEF FiberSide, TypeOK, ctorVars
<1>4. ASSUME NEW s \in Services, ServeStarts(s)
      PROVE  TypeOK'
  BY <1>0, <1>4 DEF ServeStarts, TypeOK
<1>5. ASSUME NEW s \in Services, ServeStops(s)
      PROVE  TypeOK'
  BY <1>0, <1>5 DEF ServeStops, TypeOK
<1>6. ASSUME NEW w \in Workers, WorkerStarts(w)
      PROVE  TypeOK'
  BY <1>0, <1>6 DEF WorkerStarts, WorkerBecomes, TypeOK
<1>7. ASSUME NEW w \in Workers, CallLookedUp(w)
      PROVE  TypeOK'
  BY <1>0, <1>7 DEF CallLookedUp, WorkerBecomes, ContextBecomes, NetKeeps, TypeOK
<1>8. ASSUME NEW w \in Workers, CallEnqueued(w)
      PROVE  TypeOK'
  BY <1>0, <1>8 DEF CallEnqueued, WorkerBecomes, ContextBecomes, EndpointBecomes, NetKeeps, TypeOK
<1>9. ASSUME NEW w \in Workers, WorkerFails(w)
      PROVE  TypeOK'
  BY <1>0, <1>9 DEF WorkerFails, WorkerBecomes, TypeOK
<1>10. ASSUME NEW w \in Workers, NEW k \in Keys, EndpointCloses(w, k)
       PROVE  TypeOK'
  BY <1>0, <1>10 DEF EndpointCloses, WorkerBecomes, EndpointBecomes, TypeOK
<1>11. ASSUME NEW w \in Workers, NEW c \in Calls, CallTaken(w, c)
       PROVE  TypeOK'
  BY <1>0, <1>11 DEF CallTaken, WorkerBecomes, ContextBecomes, TypeOK
<1>12. ASSUME NEW k \in Keys, CallDequeued(k)
       PROVE  TypeOK'
  BY <1>0, <1>12 DEF CallDequeued, ContextBecomes, EndpointBecomes, TypeOK
<1>13. ASSUME NEW k \in Keys, ReaderStops(k)
       PROVE  TypeOK'
  BY <1>0, <1>13 DEF ReaderStops, EndpointBecomes, TypeOK
<1> QED BY StepCases, <1>1, <1>2, <1>3, <1>4, <1>5, <1>6, <1>7, <1>8, <1>9, <1>10, <1>11, <1>12,
<1>13

\* the tags that gRPC holds,
LEMMA TagsStep ==
  ASSUME IInv, [Next]_vars
  PROVE  TagsPending'
<1>0. /\ main \in {"services", "up", "grpc", "wait", "reset"}
      /\ grpc \in {"up", "shutdown", "cancelled"}
      /\ load \in [Queues -> Nat] /\ serve \in [Services -> Tasks]
      /\ worker \in [Workers -> Loops] /\ endpoint \in [Keys -> Endpoints]
      /\ call \in [Calls -> Contexts] /\ net \in [Calls -> Nets]
      /\ TypeOK /\ TagsPending /\ NotTaken /\ HeldByOne /\ QueuedOnce /\ Owned /\ MethodReads
      /\ ClosedAtShutdown /\ ResetAfterAll
  BY DEF IInv, TypeOK
<1>1. CASE ClientSide
  BY <1>0, <1>1 DEF ClientSide, serverVars, ctorVars, TagsPending
<1>2. CASE MainMoves
  BY <1>0, <1>2 DEF MainMoves, NetKeeps, TagsPending
<1>3. ASSUME NEW c \in Calls, FiberSide(c) /\ TagsPending'
      PROVE  TagsPending'
  BY <1>3
<1>4. ASSUME NEW s \in Services, ServeStarts(s)
      PROVE  TagsPending'
  BY <1>0, <1>4 DEF ServeStarts, TagsPending
<1>5. ASSUME NEW s \in Services, ServeStops(s)
      PROVE  TagsPending'
  BY <1>0, <1>5 DEF ServeStops, TagsPending
<1>6. ASSUME NEW w \in Workers, WorkerStarts(w)
      PROVE  TagsPending'
  BY <1>0, <1>6 DEF WorkerStarts, WorkerBecomes, TagsPending
<1>7. ASSUME NEW w \in Workers, CallLookedUp(w)
      PROVE  TagsPending'
  <2> DEFINE c == worker[w].call
  <2>1. c \in Calls /\ call[c].at = "held"
    BY <1>0, <1>7, HeldCall
  <2>2. call[c].tags \ {"done"} = {} /\ ("done" \in call[c].tags <=> ~call[c].done)
    BY <1>0, <2>1 DEF TagsPending, Pending
  <2>3. CASE UNCHANGED call
    BY <1>0, <2>3 DEF TagsPending
  <2>4. CASE ContextBecomes(c, "unimplemented", call[c].key, call[c].tags \cup {"finish"})
    <3>1. (call[c].tags \cup {"finish"}) \ {"done"} \in Pending("unimplemented")
      BY <2>2 DEF Pending
    <3>2. "done" \in call[c].tags \cup {"finish"} <=> ~call[c].done
      BY <2>2
    <3> QED BY <1>0, <2>1, <2>4, <3>1, <3>2, TagsBecome
  <2> QED BY <1>7, <2>3, <2>4 DEF CallLookedUp
<1>8. ASSUME NEW w \in Workers, CallEnqueued(w)
      PROVE  TagsPending'
  <2> DEFINE c == worker[w].call
  <2>1. c \in Calls /\ call[c].at = "held"
    BY <1>0, <1>8, HeldCall
  <2>2. call[c].tags \ {"done"} = {} /\ ("done" \in call[c].tags <=> ~call[c].done)
    BY <1>0, <2>1 DEF TagsPending, Pending
  <2>3. PICK a \in {"dropped", "queued"}, k \in {call[c].key, worker[w].key} :
          ContextBecomes(c, a, k, call[c].tags)
    BY <1>8 DEF CallEnqueued
  <2>4. call[c].tags \ {"done"} \in Pending(a)
    BY <2>2 DEF Pending
  <2> QED BY <1>0, <2>1, <2>2, <2>3, <2>4, TagsBecome
<1>9. ASSUME NEW w \in Workers, WorkerFails(w)
      PROVE  TagsPending'
  BY <1>0, <1>9 DEF WorkerFails, WorkerBecomes, TagsPending
<1>10. ASSUME NEW w \in Workers, NEW k \in Keys, EndpointCloses(w, k)
       PROVE  TagsPending'
  BY <1>0, <1>10 DEF EndpointCloses, WorkerBecomes, EndpointBecomes, TagsPending
<1>11. ASSUME NEW w \in Workers, NEW c \in Calls, CallTaken(w, c)
       PROVE  TagsPending'
  <2>1. call[c].at = "none" /\ ~call[c].done
    BY <1>0, <1>11 DEF CallTaken, NotTaken, TagsPending
  <2>2. {"done"} \ {"done"} \in Pending("held")
    BY DEF Pending
  <2> QED BY <1>0, <1>11, <2>1, <2>2, TagsBecome DEF CallTaken
<1>12. ASSUME NEW k \in Keys, CallDequeued(k)
       PROVE  TagsPending'
  <2> DEFINE c == Head(endpoint[k].pipe)
  <2>1. c \in Calls /\ call[c].at = "queued"
    BY <1>0, <1>12, QueuedCall
  <2>2. call[c].tags \ {"done"} = {} /\ ("done" \in call[c].tags <=> ~call[c].done)
    BY <1>0, <2>1 DEF TagsPending, Pending
  <2>3. CASE ContextBecomes(c, "prologue", call[c].key, call[c].tags \cup {"read"})
    <3>1. (call[c].tags \cup {"read"}) \ {"done"} \in Pending("prologue")
      BY <2>2 DEF Pending
    <3>2. "done" \in call[c].tags \cup {"read"} <=> ~call[c].done
      BY <2>2
    <3> QED BY <1>0, <2>1, <2>3, <3>1, <3>2, TagsBecome
  <2>4. CASE ContextBecomes(c, "lost", call[c].key, call[c].tags)
    <3>1. call[c].tags \ {"done"} \in Pending("lost")
      BY <2>2 DEF Pending
    <3> QED BY <1>0, <2>1, <2>2, <2>4, <3>1, TagsBecome
  <2> QED BY <1>12, <2>3, <2>4 DEF CallDequeued
<1>13. ASSUME NEW k \in Keys, ReaderStops(k)
       PROVE  TagsPending'
  BY <1>0, <1>13 DEF ReaderStops, EndpointBecomes, TagsPending
<1> QED BY StepCases, <1>1, <1>2, <1>3, <1>4, <1>5, <1>6, <1>7, <1>8, <1>9, <1>10, <1>11, <1>12,
<1>13

\* that gRPC keeps what it has not given out,
LEMMA TakenStep ==
  ASSUME IInv, [Next]_vars
  PROVE  NotTaken'
<1>0. /\ main \in {"services", "up", "grpc", "wait", "reset"}
      /\ grpc \in {"up", "shutdown", "cancelled"}
      /\ load \in [Queues -> Nat] /\ serve \in [Services -> Tasks]
      /\ worker \in [Workers -> Loops] /\ endpoint \in [Keys -> Endpoints]
      /\ call \in [Calls -> Contexts] /\ net \in [Calls -> Nets]
      /\ TypeOK /\ TagsPending /\ NotTaken /\ HeldByOne /\ QueuedOnce /\ Owned /\ MethodReads
      /\ ClosedAtShutdown /\ ResetAfterAll
  BY DEF IInv, TypeOK
<1>1. CASE ClientSide
  BY <1>0, <1>1 DEF ClientSide, serverVars, ctorVars, NotTaken
<1>2. CASE MainMoves
  BY <1>0, <1>2 DEF MainMoves, NetKeeps, NotTaken
<1>3. ASSUME NEW c \in Calls, FiberSide(c) /\ TagsPending'
      PROVE  NotTaken'
  BY <1>0, <1>3 DEF FiberSide, NotTaken, Handled
<1>4. ASSUME NEW s \in Services, ServeStarts(s)
      PROVE  NotTaken'
  BY <1>0, <1>4 DEF ServeStarts, NotTaken
<1>5. ASSUME NEW s \in Services, ServeStops(s)
      PROVE  NotTaken'
  BY <1>0, <1>5 DEF ServeStops, NotTaken
<1>6. ASSUME NEW w \in Workers, WorkerStarts(w)
      PROVE  NotTaken'
  BY <1>0, <1>6 DEF WorkerStarts, WorkerBecomes, NotTaken
<1>7. ASSUME NEW w \in Workers, CallLookedUp(w)
      PROVE  NotTaken'
  <2>1. worker[w].call \in Calls /\ call[worker[w].call].at = "held"
    BY <1>0, <1>7, HeldCall
  <2> QED BY <1>0, <1>7, <2>1 DEF CallLookedUp, ContextBecomes, NetKeeps, NotTaken
<1>8. ASSUME NEW w \in Workers, CallEnqueued(w)
      PROVE  NotTaken'
  <2>1. worker[w].call \in Calls /\ call[worker[w].call].at = "held"
    BY <1>0, <1>8, HeldCall
  <2> QED BY <1>0, <1>8, <2>1 DEF CallEnqueued, ContextBecomes, NetKeeps, NotTaken
<1>9. ASSUME NEW w \in Workers, WorkerFails(w)
      PROVE  NotTaken'
  BY <1>0, <1>9 DEF WorkerFails, WorkerBecomes, NotTaken
<1>10. ASSUME NEW w \in Workers, NEW k \in Keys, EndpointCloses(w, k)
       PROVE  NotTaken'
  BY <1>0, <1>10 DEF EndpointCloses, WorkerBecomes, EndpointBecomes, NotTaken
<1>11. ASSUME NEW w \in Workers, NEW c \in Calls, CallTaken(w, c)
       PROVE  NotTaken'
  BY <1>0, <1>11 DEF CallTaken, WorkerBecomes, ContextBecomes, NotTaken
<1>12. ASSUME NEW k \in Keys, CallDequeued(k)
       PROVE  NotTaken'
  <2>1. Head(endpoint[k].pipe) \in Calls /\ call[Head(endpoint[k].pipe)].at = "queued"
    BY <1>0, <1>12, QueuedCall
  <2> QED BY <1>0, <1>12, <2>1 DEF CallDequeued, ContextBecomes, NotTaken
<1>13. ASSUME NEW k \in Keys, ReaderStops(k)
       PROVE  NotTaken'
  BY <1>0, <1>13 DEF ReaderStops, EndpointBecomes, NotTaken
<1> QED BY StepCases, <1>1, <1>2, <1>3, <1>4, <1>5, <1>6, <1>7, <1>8, <1>9, <1>10, <1>11, <1>12,
<1>13

\* that a call is in the hands of one worker,
LEMMA HeldStep ==
  ASSUME IInv, [Next]_vars
  PROVE  HeldByOne'
<1>0. /\ main \in {"services", "up", "grpc", "wait", "reset"}
      /\ grpc \in {"up", "shutdown", "cancelled"}
      /\ load \in [Queues -> Nat] /\ serve \in [Services -> Tasks]
      /\ worker \in [Workers -> Loops] /\ endpoint \in [Keys -> Endpoints]
      /\ call \in [Calls -> Contexts] /\ net \in [Calls -> Nets]
      /\ TypeOK /\ TagsPending /\ NotTaken /\ HeldByOne /\ QueuedOnce /\ Owned /\ MethodReads
      /\ ClosedAtShutdown /\ ResetAfterAll
  BY DEF IInv, TypeOK
<1>1. CASE ClientSide
  BY <1>0, <1>1 DEF ClientSide, serverVars, ctorVars, HeldByOne, Holds
<1>2. CASE MainMoves
  BY <1>0, <1>2 DEF MainMoves, NetKeeps, HeldByOne, Holds
<1>3. ASSUME NEW c \in Calls, FiberSide(c) /\ TagsPending'
      PROVE  HeldByOne'
  BY SMTT(20), <1>0, <1>3 DEF FiberSide, HeldByOne, Holds, Handled
<1>4. ASSUME NEW s \in Services, ServeStarts(s)
      PROVE  HeldByOne'
  BY <1>0, <1>4 DEF ServeStarts, HeldByOne, Holds
<1>5. ASSUME NEW s \in Services, ServeStops(s)
      PROVE  HeldByOne'
  BY <1>0, <1>5 DEF ServeStops, HeldByOne, Holds
<1>6. ASSUME NEW w \in Workers, WorkerStarts(w)
      PROVE  HeldByOne'
  BY <1>0, <1>6 DEF WorkerStarts, WorkerBecomes, HeldByOne, Holds
<1>7. ASSUME NEW w \in Workers, CallLookedUp(w)
      PROVE  HeldByOne'
  BY <1>0, <1>7 DEF CallLookedUp, WorkerBecomes, ContextBecomes, NetKeeps, HeldByOne, Holds
<1>8. ASSUME NEW w \in Workers, CallEnqueued(w)
      PROVE  HeldByOne'
  <2> DEFINE c == worker[w].call
  <2>1. c \in Calls /\ call[c].at = "held" /\ Holds(w)
    BY <1>0, <1>8, HeldCall
  <2>2. /\ worker'[w].at = "requested" /\ \A v \in Workers \ {w} : worker'[v] = worker[v]
        /\ call'[c].at \in {"dropped", "queued"} /\ \A d \in Calls \ {c} : call'[d] = call[d]
    BY <1>8 DEF CallEnqueued, WorkerBecomes, ContextBecomes
  <2> QED BY <1>0, <2>1, <2>2 DEF HeldByOne, Holds
<1>9. ASSUME NEW w \in Workers, WorkerFails(w)
      PROVE  HeldByOne'
  BY <1>0, <1>9 DEF WorkerFails, WorkerBecomes, HeldByOne, Holds
<1>10. ASSUME NEW w \in Workers, NEW k \in Keys, EndpointCloses(w, k)
       PROVE  HeldByOne'
  BY <1>0, <1>10 DEF EndpointCloses, WorkerBecomes, EndpointBecomes, HeldByOne, Holds
<1>11. ASSUME NEW w \in Workers, NEW c \in Calls, CallTaken(w, c)
       PROVE  HeldByOne'
  <2>1. /\ call[c].at = "none" /\ ~Holds(w)
    BY <1>0, <1>11 DEF CallTaken, NotTaken, Holds
  <2>2. /\ worker'[w].at = "lookup" /\ worker'[w].call = c
        /\ \A v \in Workers \ {w} : worker'[v] = worker[v]
        /\ call'[c].at = "held" /\ \A d \in Calls \ {c} : call'[d] = call[d]
    BY <1>11 DEF CallTaken, WorkerBecomes, ContextBecomes
  <2> QED BY <1>0, <2>1, <2>2 DEF HeldByOne, Holds
<1>12. ASSUME NEW k \in Keys, CallDequeued(k)
       PROVE  HeldByOne'
  <2> DEFINE c == Head(endpoint[k].pipe)
  <2>1. c \in Calls /\ call[c].at = "queued"
    BY <1>0, <1>12, QueuedCall
  <2>2. /\ UNCHANGED worker
        /\ call'[c].at \in {"prologue", "lost"} /\ \A d \in Calls \ {c} : call'[d] = call[d]
    BY <1>12 DEF CallDequeued, ContextBecomes
  <2> QED BY <1>0, <2>1, <2>2 DEF HeldByOne, Holds
<1>13. ASSUME NEW k \in Keys, ReaderStops(k)
       PROVE  HeldByOne'
  BY <1>0, <1>13 DEF ReaderStops, EndpointBecomes, HeldByOne, Holds
<1> QED BY StepCases, <1>1, <1>2, <1>3, <1>4, <1>5, <1>6, <1>7, <1>8, <1>9, <1>10, <1>11, <1>12,
<1>13

\* that nothing is closed while gRPC is up,
LEMMA ShutdownStep ==
  ASSUME IInv, [Next]_vars
  PROVE  ClosedAtShutdown'
<1>0. /\ main \in {"services", "up", "grpc", "wait", "reset"}
      /\ grpc \in {"up", "shutdown", "cancelled"}
      /\ load \in [Queues -> Nat] /\ serve \in [Services -> Tasks]
      /\ worker \in [Workers -> Loops] /\ endpoint \in [Keys -> Endpoints]
      /\ call \in [Calls -> Contexts] /\ net \in [Calls -> Nets]
      /\ TypeOK /\ TagsPending /\ NotTaken /\ HeldByOne /\ QueuedOnce /\ Owned /\ MethodReads
      /\ ClosedAtShutdown /\ ResetAfterAll
  BY DEF IInv, TypeOK
<1>1. CASE ClientSide
  BY <1>0, <1>1 DEF ClientSide, serverVars, ctorVars, ClosedAtShutdown
<1>2. CASE MainMoves
  BY <1>0, <1>2 DEF MainMoves, NetKeeps, ClosedAtShutdown
<1>3. ASSUME NEW c \in Calls, FiberSide(c) /\ TagsPending'
      PROVE  ClosedAtShutdown'
  <2>1. /\ \A k \in Keys : endpoint'[k].closed = endpoint[k].closed
        /\ \A d \in Calls : call'[d].at \in {"dropped", "dangled"}
                              => call[d].at \in {"dropped", "dangled"}
    BY <1>0, <1>3, FiberEndpoints DEF FiberSide, Handled
  <2> QED BY <1>0, <1>3, <2>1 DEF FiberSide, ClosedAtShutdown
<1>4. ASSUME NEW s \in Services, ServeStarts(s)
      PROVE  ClosedAtShutdown'
  BY <1>0, <1>4 DEF ServeStarts, ClosedAtShutdown
<1>5. ASSUME NEW s \in Services, ServeStops(s)
      PROVE  ClosedAtShutdown'
  BY <1>0, <1>5 DEF ServeStops, ClosedAtShutdown
<1>6. ASSUME NEW w \in Workers, WorkerStarts(w)
      PROVE  ClosedAtShutdown'
  BY <1>0, <1>6 DEF WorkerStarts, WorkerBecomes, ClosedAtShutdown
<1>7. ASSUME NEW w \in Workers, CallLookedUp(w)
      PROVE  ClosedAtShutdown'
  BY <1>0, <1>7 DEF CallLookedUp, WorkerBecomes, ContextBecomes, NetKeeps, ClosedAtShutdown
<1>8. ASSUME NEW w \in Workers, CallEnqueued(w)
      PROVE  ClosedAtShutdown'
  <2>1. grpc' = grpc /\ \A v \in Workers : worker'[v].at = "closing" => worker[v].at = "closing"
    BY <1>0, <1>8 DEF CallEnqueued, WorkerBecomes
  <2>2. \A j \in Keys : endpoint'[j].closed = endpoint[j].closed
    BY <1>0, <1>8 DEF CallEnqueued, EndpointBecomes
  <2>3. grpc = "up" => \A d \in Calls : call'[d].at \in {"dropped", "dangled"}
                                          => call[d].at \in {"dropped", "dangled"}
    BY <1>0, <1>8 DEF CallEnqueued, ContextBecomes, ClosedAtShutdown
  <2> QED BY <1>0, <2>1, <2>2, <2>3 DEF ClosedAtShutdown
<1>9. ASSUME NEW w \in Workers, WorkerFails(w)
      PROVE  ClosedAtShutdown'
  BY <1>0, <1>9 DEF WorkerFails, WorkerBecomes, ClosedAtShutdown
<1>10. ASSUME NEW w \in Workers, NEW k \in Keys, EndpointCloses(w, k)
       PROVE  ClosedAtShutdown'
  BY <1>0, <1>10 DEF EndpointCloses, WorkerBecomes, EndpointBecomes, ClosedAtShutdown
<1>11. ASSUME NEW w \in Workers, NEW c \in Calls, CallTaken(w, c)
       PROVE  ClosedAtShutdown'
  BY <1>0, <1>11 DEF CallTaken, WorkerBecomes, ContextBecomes, ClosedAtShutdown
<1>12. ASSUME NEW k \in Keys, CallDequeued(k)
       PROVE  ClosedAtShutdown'
  BY <1>0, <1>12 DEF CallDequeued, ContextBecomes, EndpointBecomes, ClosedAtShutdown
<1>13. ASSUME NEW k \in Keys, ReaderStops(k)
       PROVE  ClosedAtShutdown'
  BY <1>0, <1>13 DEF ReaderStops, EndpointBecomes, ClosedAtShutdown
<1> QED BY StepCases, <1>1, <1>2, <1>3, <1>4, <1>5, <1>6, <1>7, <1>8, <1>9, <1>10, <1>11, <1>12,
<1>13

\* that Wait has seen all tasks end,
LEMMA ResetStep ==
  ASSUME IInv, [Next]_vars
  PROVE  ResetAfterAll'
<1>0. /\ main \in {"services", "up", "grpc", "wait", "reset"}
      /\ grpc \in {"up", "shutdown", "cancelled"}
      /\ load \in [Queues -> Nat] /\ serve \in [Services -> Tasks]
      /\ worker \in [Workers -> Loops] /\ endpoint \in [Keys -> Endpoints]
      /\ call \in [Calls -> Contexts] /\ net \in [Calls -> Nets]
      /\ TypeOK /\ TagsPending /\ NotTaken /\ HeldByOne /\ QueuedOnce /\ Owned /\ MethodReads
      /\ ClosedAtShutdown /\ ResetAfterAll
  BY DEF IInv, TypeOK
<1>1. CASE ClientSide
  BY <1>0, <1>1 DEF ClientSide, serverVars, ctorVars, ResetAfterAll
<1>2. CASE MainMoves
  BY <1>0, <1>2 DEF MainMoves, ResetAfterAll, Owned
<1>3. ASSUME NEW c \in Calls, FiberSide(c) /\ TagsPending'
      PROVE  ResetAfterAll'
  BY <1>0, <1>3 DEF FiberSide, ctorVars, ResetAfterAll
<1>4. ASSUME NEW s \in Services, ServeStarts(s)
      PROVE  ResetAfterAll'
  BY <1>0, <1>4 DEF ServeStarts, ResetAfterAll
<1>5. ASSUME NEW s \in Services, ServeStops(s)
      PROVE  ResetAfterAll'
  BY <1>0, <1>5 DEF ServeStops, ResetAfterAll
<1>6. ASSUME NEW w \in Workers, WorkerStarts(w)
      PROVE  ResetAfterAll'
  BY <1>0, <1>6 DEF WorkerStarts, WorkerBecomes, ResetAfterAll
<1>7. ASSUME NEW w \in Workers, CallLookedUp(w)
      PROVE  ResetAfterAll'
  BY <1>0, <1>7 DEF CallLookedUp, WorkerBecomes, ContextBecomes, NetKeeps, ResetAfterAll
<1>8. ASSUME NEW w \in Workers, CallEnqueued(w)
      PROVE  ResetAfterAll'
  BY <1>0, <1>8 DEF CallEnqueued, WorkerBecomes, ContextBecomes, EndpointBecomes, NetKeeps,
     ResetAfterAll
<1>9. ASSUME NEW w \in Workers, WorkerFails(w)
      PROVE  ResetAfterAll'
  BY <1>0, <1>9 DEF WorkerFails, WorkerBecomes, ResetAfterAll
<1>10. ASSUME NEW w \in Workers, NEW k \in Keys, EndpointCloses(w, k)
       PROVE  ResetAfterAll'
  BY <1>0, <1>10 DEF EndpointCloses, WorkerBecomes, EndpointBecomes, ResetAfterAll
<1>11. ASSUME NEW w \in Workers, NEW c \in Calls, CallTaken(w, c)
       PROVE  ResetAfterAll'
  BY <1>0, <1>11 DEF CallTaken, WorkerBecomes, ContextBecomes, ResetAfterAll
<1>12. ASSUME NEW k \in Keys, CallDequeued(k)
       PROVE  ResetAfterAll'
  BY <1>0, <1>12 DEF CallDequeued, ContextBecomes, EndpointBecomes, ResetAfterAll
<1>13. ASSUME NEW k \in Keys, ReaderStops(k)
       PROVE  ResetAfterAll'
  BY <1>0, <1>13 DEF ReaderStops, EndpointBecomes, ResetAfterAll
<1> QED BY StepCases, <1>1, <1>2, <1>3, <1>4, <1>5, <1>6, <1>7, <1>8, <1>9, <1>10, <1>11, <1>12,
<1>13

\* that a call is in one pipe, once,
LEMMA QueuedStep ==
  ASSUME IInv, [Next]_vars
  PROVE  QueuedOnce'
<1>0. /\ main \in {"services", "up", "grpc", "wait", "reset"}
      /\ grpc \in {"up", "shutdown", "cancelled"}
      /\ load \in [Queues -> Nat] /\ serve \in [Services -> Tasks]
      /\ worker \in [Workers -> Loops] /\ endpoint \in [Keys -> Endpoints]
      /\ call \in [Calls -> Contexts] /\ net \in [Calls -> Nets]
      /\ TypeOK /\ TagsPending /\ NotTaken /\ HeldByOne /\ QueuedOnce /\ Owned /\ MethodReads
      /\ ClosedAtShutdown /\ ResetAfterAll
  BY DEF IInv, TypeOK
<1>1. CASE ClientSide
  <2>1. /\ \A j \in Keys : endpoint'[j].pipe = endpoint[j].pipe
        /\ \A d \in Calls : /\ call'[d].at = "queued" <=> call[d].at = "queued"
                            /\ call[d].at = "queued" => call'[d].key = call[d].key
    BY <1>0, <1>1 DEF ClientSide, serverVars
  <2> QED BY <1>0, <2>1, QueuedKept
<1>2. CASE MainMoves
  <2>1. /\ \A j \in Keys : endpoint'[j].pipe = endpoint[j].pipe
        /\ \A d \in Calls : /\ call'[d].at = "queued" <=> call[d].at = "queued"
                            /\ call[d].at = "queued" => call'[d].key = call[d].key
    BY <1>0, <1>2 DEF MainMoves
  <2> QED BY <1>0, <2>1, QueuedKept
<1>3. ASSUME NEW c \in Calls, FiberSide(c) /\ TagsPending'
      PROVE  QueuedOnce'
  <2>1. /\ \A j \in Keys : endpoint'[j].pipe = endpoint[j].pipe
        /\ \A d \in Calls : /\ call'[d].at = "queued" <=> call[d].at = "queued"
                            /\ call[d].at = "queued" => call'[d].key = call[d].key
    BY <1>0, <1>3, FiberEndpoints DEF FiberSide, Handled
  <2> QED BY <1>0, <2>1, QueuedKept
<1>4. ASSUME NEW s \in Services, ServeStarts(s)
      PROVE  QueuedOnce'
  <2>1. /\ \A j \in Keys : endpoint'[j].pipe = endpoint[j].pipe
        /\ \A d \in Calls : /\ call'[d].at = "queued" <=> call[d].at = "queued"
                            /\ call[d].at = "queued" => call'[d].key = call[d].key
    BY <1>0, <1>4 DEF ServeStarts, Owned
  <2> QED BY <1>0, <2>1, QueuedKept
<1>5. ASSUME NEW s \in Services, ServeStops(s)
      PROVE  QueuedOnce'
  <2>1. /\ \A j \in Keys : endpoint'[j].pipe = endpoint[j].pipe
        /\ \A d \in Calls : /\ call'[d].at = "queued" <=> call[d].at = "queued"
                            /\ call[d].at = "queued" => call'[d].key = call[d].key
    BY <1>0, <1>5 DEF ServeStops
  <2> QED BY <1>0, <2>1, QueuedKept
<1>6. ASSUME NEW w \in Workers, WorkerStarts(w)
      PROVE  QueuedOnce'
  <2>1. /\ \A j \in Keys : endpoint'[j].pipe = endpoint[j].pipe
        /\ \A d \in Calls : /\ call'[d].at = "queued" <=> call[d].at = "queued"
                            /\ call[d].at = "queued" => call'[d].key = call[d].key
    BY <1>0, <1>6 DEF WorkerStarts
  <2> QED BY <1>0, <2>1, QueuedKept
<1>7. ASSUME NEW w \in Workers, CallLookedUp(w)
      PROVE  QueuedOnce'
  <2>1. worker[w].call \in Calls /\ call[worker[w].call].at = "held"
    BY <1>0, <1>7, HeldCall
  <2>2. /\ \A k \in Keys : endpoint'[k].pipe = endpoint[k].pipe
        /\ \A c \in Calls : /\ call'[c].at = "queued" <=> call[c].at = "queued"
                            /\ call[c].at = "queued" => call'[c].key = call[c].key
    BY <1>7, <2>1 DEF CallLookedUp, ContextBecomes
  <2> QED BY <1>0, <2>2, QueuedKept
<1>8. ASSUME NEW w \in Workers, CallEnqueued(w)
      PROVE  QueuedOnce'
  <2> DEFINE c == worker[w].call
             k == worker[w].key
             p == endpoint[k].pipe
  <2>1. c \in Calls /\ call[c].at = "held" /\ k \in Keys
    BY <1>0, <1>8, HeldCall DEF CallEnqueued
  <2>2. CASE UNCHANGED endpoint /\ ContextBecomes(c, "dropped", call[c].key, call[c].tags)
    <3>1. /\ \A j \in Keys : endpoint'[j].pipe = endpoint[j].pipe
          /\ \A d \in Calls : /\ call'[d].at = "queued" <=> call[d].at = "queued"
                              /\ call[d].at = "queued" => call'[d].key = call[d].key
      BY <2>1, <2>2 DEF ContextBecomes
    <3> QED BY <1>0, <3>1, QueuedKept
  <2>3. CASE /\ EndpointBecomes(k, endpoint[k].closed, Append(p, c), endpoint[k].reader)
             /\ ContextBecomes(c, "queued", k, call[c].tags)
    <3>1. /\ endpoint'[k].pipe = Append(p, c)
          /\ \A j \in Keys \ {k} : endpoint'[j].pipe = endpoint[j].pipe
          /\ call'[c].at = "queued" /\ call'[c].key = k
          /\ \A d \in Calls \ {c} : call'[d] = call[d]
      BY <2>3 DEF EndpointBecomes, ContextBecomes
    <3>2. p \in Seq(Calls) /\ Len(p) \in Nat /\ \A j \in Keys : endpoint[j].pipe \in Seq(Calls)
      BY <1>0, <2>1 DEF Endpoints
    <3>3. /\ \A i \in 1..Len(p) : Append(p, c)[i] = p[i]
          /\ Append(p, c)[Len(p) + 1] = c /\ Len(Append(p, c)) = Len(p) + 1
      BY SMTT(20), <2>1, <3>2
    <3>4. \A j \in Keys : \A i \in 1..Len(endpoint[j].pipe) :
            endpoint[j].pipe[i] \in Calls /\ endpoint[j].pipe[i] # c
      BY <1>0, <2>1, <3>2 DEF QueuedOnce
    <3> DEFINE q == Append(p, c)
    <3> HIDE DEF c, k, p, q
    <3>5. \A j \in Keys : \A i \in 1..Len(endpoint'[j].pipe) :
            call'[endpoint'[j].pipe[i]].at = "queued" /\ call'[endpoint'[j].pipe[i]].key = j
      <4> SUFFICES ASSUME NEW j \in Keys, NEW i \in 1..Len(endpoint'[j].pipe)
                   PROVE  call'[endpoint'[j].pipe[i]].at = "queued" /\ call'[endpoint'[j].pipe[i]].key = j
        OBVIOUS
      <4>1. CASE j # k
        BY <1>0, <3>1, <3>4, <4>1 DEF QueuedOnce
      <4>2. CASE j = k /\ i \in 1..Len(p)
        <5>1. p[i] \in Calls /\ p[i] # c /\ call[p[i]].at = "queued" /\ call[p[i]].key = k
          BY <1>0, <2>1, <3>4, <4>2 DEF QueuedOnce, p
        <5>2. endpoint'[j].pipe[i] = p[i]
          BY <3>1, <3>3, <4>2
        <5>3. call'[p[i]] = call[p[i]]
          BY <3>1, <5>1
        <5> QED BY <4>2, <5>1, <5>2, <5>3
      <4>3. CASE j = k /\ i = Len(p) + 1
        BY <3>1, <3>3, <4>3
      <4>4. j = k => i \in 1..(Len(p) + 1)
        BY <3>1, <3>3
      <4> QED BY <3>2, <4>1, <4>2, <4>3, <4>4
    <3>6. \A j \in Keys : \A i, m \in 1..Len(endpoint'[j].pipe) :
            endpoint'[j].pipe[i] = endpoint'[j].pipe[m] => i = m
      <4> SUFFICES ASSUME NEW j \in Keys, NEW i \in 1..Len(endpoint'[j].pipe),
                          NEW m \in 1..Len(endpoint'[j].pipe),
                          endpoint'[j].pipe[i] = endpoint'[j].pipe[m]
                   PROVE  i = m
        OBVIOUS
      <4>1. CASE j # k
        BY <1>0, <3>1, <4>1 DEF QueuedOnce
      <4>2. CASE j = k
        <5>1. i \in 1..(Len(p) + 1) /\ m \in 1..(Len(p) + 1) /\ Append(p, c)[i] = Append(p, c)[m]
          BY <3>1, <3>3, <4>2
        <5>2. \A n \in 1..Len(p) : p[n] # c
          BY <2>1, <3>4 DEF p
        <5>3. \A n, o \in 1..Len(p) : p[n] = p[o] => n = o
          BY <1>0, <2>1 DEF QueuedOnce, p
        <5> QED BY <3>2, <3>3, <5>1, <5>2, <5>3
      <4> QED BY <4>1, <4>2
    <3>7. \A d \in Calls : call'[d].at = "queued" =>
            /\ call'[d].key \in Keys
            /\ \E i \in 1..Len(endpoint'[call'[d].key].pipe) : endpoint'[call'[d].key].pipe[i] = d
      <4> SUFFICES ASSUME NEW d \in Calls, call'[d].at = "queued"
                   PROVE  /\ call'[d].key \in Keys
                          /\ \E i \in 1..Len(endpoint'[call'[d].key].pipe) :
                               endpoint'[call'[d].key].pipe[i] = d
        OBVIOUS
      <4>1. CASE d = c
        <5>1. Len(p) + 1 \in 1..Len(Append(p, c))
          BY <3>2, <3>3
        <5> QED BY <2>1, <3>1, <3>3, <4>1, <5>1
      <4>2. CASE d # c
        <5>1. /\ call'[d].key = call[d].key /\ call[d].key \in Keys
              /\ \E i \in 1..Len(endpoint[call[d].key].pipe) : endpoint[call[d].key].pipe[i] = d
          BY <1>0, <3>1, <4>2 DEF QueuedOnce
        <5>2. PICK i \in 1..Len(endpoint[call[d].key].pipe) : endpoint[call[d].key].pipe[i] = d
          BY <5>1
        <5>3. CASE call[d].key # k
          BY <3>1, <5>1, <5>3
        <5>4. CASE call[d].key = k
          <6>1. i \in 1..Len(p) /\ p[i] = d
            BY <5>2, <5>4 DEF p
          <6>2. i \in 1..Len(Append(p, c)) /\ Append(p, c)[i] = d
            BY <3>2, <3>3, <6>1
          <6> QED BY <3>1, <5>1, <5>4, <6>2
        <5> QED BY <5>3, <5>4
      <4> QED BY <4>1, <4>2
    <3> QED BY <3>5, <3>6, <3>7 DEF QueuedOnce
  <2> QED BY <1>8, <2>2, <2>3 DEF CallEnqueued
<1>9. ASSUME NEW w \in Workers, WorkerFails(w)
      PROVE  QueuedOnce'
  <2>1. /\ \A j \in Keys : endpoint'[j].pipe = endpoint[j].pipe
        /\ \A d \in Calls : /\ call'[d].at = "queued" <=> call[d].at = "queued"
                            /\ call[d].at = "queued" => call'[d].key = call[d].key
    BY <1>0, <1>9 DEF WorkerFails
  <2> QED BY <1>0, <2>1, QueuedKept
<1>10. ASSUME NEW w \in Workers, NEW k \in Keys, EndpointCloses(w, k)
       PROVE  QueuedOnce'
  <2>1. /\ \A j \in Keys : endpoint'[j].pipe = endpoint[j].pipe
        /\ \A d \in Calls : /\ call'[d].at = "queued" <=> call[d].at = "queued"
                            /\ call[d].at = "queued" => call'[d].key = call[d].key
    BY <1>0, <1>10 DEF EndpointCloses, EndpointBecomes
  <2> QED BY <1>0, <2>1, QueuedKept
<1>11. ASSUME NEW w \in Workers, NEW c \in Calls, CallTaken(w, c)
       PROVE  QueuedOnce'
  <2>1. /\ \A j \in Keys : endpoint'[j].pipe = endpoint[j].pipe
        /\ \A d \in Calls : /\ call'[d].at = "queued" <=> call[d].at = "queued"
                            /\ call[d].at = "queued" => call'[d].key = call[d].key
    BY <1>0, <1>11 DEF CallTaken, ContextBecomes, NotTaken
  <2> QED BY <1>0, <2>1, QueuedKept
<1>12. ASSUME NEW k \in Keys, CallDequeued(k)
       PROVE  QueuedOnce'
  <2> DEFINE p == endpoint[k].pipe
             c == Head(p)
  <2>1. c \in Calls /\ call[c].at = "queued" /\ call[c].key = k /\ p \in Seq(Calls) /\ p # <<>>
    BY <1>0, <1>12, QueuedCall
  <2>2. /\ endpoint'[k].pipe = Tail(p)
        /\ \A j \in Keys \ {k} : endpoint'[j].pipe = endpoint[j].pipe
        /\ call'[c].at # "queued"
        /\ \A d \in Calls \ {c} : call'[d] = call[d]
    BY <1>12 DEF CallDequeued, EndpointBecomes, ContextBecomes
  <2>3. /\ Len(p) \in Nat /\ Len(p) >= 1 /\ Len(Tail(p)) = Len(p) - 1 /\ c = p[1]
        /\ \A i \in 1..Len(Tail(p)) : Tail(p)[i] = p[i + 1]
    BY <2>1
  <2>4. \A i, m \in 1..Len(p) : p[i] = p[m] => i = m
    BY <1>0 DEF QueuedOnce
  <2>5. \A j \in Keys : \A i \in 1..Len(endpoint[j].pipe) :
          /\ endpoint[j].pipe[i] \in Calls /\ call[endpoint[j].pipe[i]].at = "queued"
          /\ call[endpoint[j].pipe[i]].key = j
    BY <1>0 DEF QueuedOnce, Endpoints
  <2> HIDE DEF c, p
  <2>6. \A j \in Keys : \A i \in 1..Len(endpoint'[j].pipe) :
          call'[endpoint'[j].pipe[i]].at = "queued" /\ call'[endpoint'[j].pipe[i]].key = j
    <3> SUFFICES ASSUME NEW j \in Keys, NEW i \in 1..Len(endpoint'[j].pipe)
                 PROVE  call'[endpoint'[j].pipe[i]].at = "queued" /\ call'[endpoint'[j].pipe[i]].key = j
      OBVIOUS
    <3>1. CASE j # k
      <4>1. endpoint[j].pipe[i] # c
        BY <2>1, <2>2, <2>5, <3>1
      <4> QED BY <2>2, <2>5, <3>1, <4>1
    <3>2. CASE j = k
      <4>1. i + 1 \in 1..Len(p) /\ i \in 1..Len(Tail(p)) /\ i \in Nat
        BY <2>2, <2>3, <3>2
      <4>2. p[i + 1] # c
        BY <2>3, <2>4, <4>1
      <4>3. p[i + 1] \in Calls /\ call[p[i + 1]].at = "queued" /\ call[p[i + 1]].key = k
        BY <2>5, <4>1 DEF p
      <4>4. endpoint'[j].pipe[i] = p[i + 1]
        BY <2>2, <2>3, <3>2, <4>1
      <4>5. call'[p[i + 1]] = call[p[i + 1]]
        BY <2>2, <4>2, <4>3
      <4> QED BY <3>2, <4>3, <4>4, <4>5
    <3> QED BY <3>1, <3>2
  <2>7. \A j \in Keys : \A i, m \in 1..Len(endpoint'[j].pipe) :
          endpoint'[j].pipe[i] = endpoint'[j].pipe[m] => i = m
    <3> SUFFICES ASSUME NEW j \in Keys, NEW i \in 1..Len(endpoint'[j].pipe),
                        NEW m \in 1..Len(endpoint'[j].pipe),
                        endpoint'[j].pipe[i] = endpoint'[j].pipe[m]
                 PROVE  i = m
      OBVIOUS
    <3>1. CASE j # k
      BY <1>0, <2>2, <3>1 DEF QueuedOnce
    <3>2. CASE j = k
      <4>1. /\ i \in 1..Len(Tail(p)) /\ m \in 1..Len(Tail(p)) /\ i \in Nat /\ m \in Nat
            /\ i + 1 \in 1..Len(p) /\ m + 1 \in 1..Len(p)
        BY <2>2, <2>3, <3>2
      <4>2. p[i + 1] = p[m + 1]
        BY <2>2, <2>3, <3>2, <4>1
      <4>3. i + 1 = m + 1
        BY <2>4, <4>1, <4>2
      <4> QED BY <4>1, <4>3
    <3> QED BY <3>1, <3>2
  <2>8. \A d \in Calls : call'[d].at = "queued" =>
          /\ call'[d].key \in Keys
          /\ \E i \in 1..Len(endpoint'[call'[d].key].pipe) : endpoint'[call'[d].key].pipe[i] = d
    <3> SUFFICES ASSUME NEW d \in Calls, call'[d].at = "queued"
                 PROVE  /\ call'[d].key \in Keys
                        /\ \E i \in 1..Len(endpoint'[call'[d].key].pipe) :
                             endpoint'[call'[d].key].pipe[i] = d
      OBVIOUS
    <3>1. d # c /\ call'[d].key = call[d].key /\ call[d].at = "queued"
      BY <2>2
    <3>2. /\ call[d].key \in Keys
          /\ \E i \in 1..Len(endpoint[call[d].key].pipe) : endpoint[call[d].key].pipe[i] = d
      BY <1>0, <3>1 DEF QueuedOnce
    <3>3. PICK i \in 1..Len(endpoint[call[d].key].pipe) : endpoint[call[d].key].pipe[i] = d
      BY <3>2
    <3>4. CASE call[d].key # k
      BY <2>2, <3>1, <3>2, <3>4
    <3>5. CASE call[d].key = k
      <4>1. i \in 1..Len(p) /\ p[i] = d
        BY <3>3, <3>5 DEF p
      <4>2. i # 1
        BY <2>3, <3>1, <4>1
      <4>3. i - 1 \in 1..Len(Tail(p)) /\ (i - 1) + 1 = i
        BY <2>3, <4>1, <4>2
      <4>4. Tail(p)[i - 1] = d
        BY <2>3, <4>1, <4>3
      <4> QED BY <2>2, <3>1, <3>2, <3>5, <4>3, <4>4
    <3> QED BY <3>4, <3>5
  <2> QED BY <2>6, <2>7, <2>8 DEF QueuedOnce
<1>13. ASSUME NEW k \in Keys, ReaderStops(k)
       PROVE  QueuedOnce'
  <2>1. /\ \A j \in Keys : endpoint'[j].pipe = endpoint[j].pipe
        /\ \A d \in Calls : /\ call'[d].at = "queued" <=> call[d].at = "queued"
                            /\ call[d].at = "queued" => call'[d].key = call[d].key
    BY <1>0, <1>13 DEF ReaderStops, EndpointBecomes
  <2> QED BY <1>0, <2>1, QueuedKept
<1> QED BY StepCases, <1>1, <1>2, <1>3, <1>4, <1>5, <1>6, <1>7, <1>8, <1>9, <1>10, <1>11, <1>12,
<1>13

\* that a service outlives its methods,
LEMMA OwnedStep ==
  ASSUME IInv, [Next]_vars
  PROVE  Owned'
<1>0. /\ main \in {"services", "up", "grpc", "wait", "reset"}
      /\ grpc \in {"up", "shutdown", "cancelled"}
      /\ load \in [Queues -> Nat] /\ serve \in [Services -> Tasks]
      /\ worker \in [Workers -> Loops] /\ endpoint \in [Keys -> Endpoints]
      /\ call \in [Calls -> Contexts] /\ net \in [Calls -> Nets]
      /\ TypeOK /\ TagsPending /\ NotTaken /\ HeldByOne /\ QueuedOnce /\ Owned /\ MethodReads
      /\ ClosedAtShutdown /\ ResetAfterAll
  BY DEF IInv, TypeOK
<1>1. CASE ClientSide
  BY <1>0, <1>1 DEF ClientSide, serverVars, ctorVars, Owned
<1>2. CASE MainMoves
  BY <1>0, <1>2 DEF MainMoves, NetKeeps, Owned
<1>3. ASSUME NEW c \in Calls, FiberSide(c) /\ TagsPending'
      PROVE  Owned'
  <2>1. /\ UNCHANGED <<serve, worker>>
        /\ \A k \in Keys :
             /\ endpoint'[k].owner = endpoint[k].owner /\ endpoint'[k].pipe = endpoint[k].pipe
             /\ \/ endpoint'[k].reader = endpoint[k].reader
                \/ endpoint[k].reader = "reading" /\ endpoint'[k].reader = "failing"
    BY <1>0, <1>3, FiberEndpoints DEF FiberSide
  <2>2. \A j \in Keys : endpoint'[j].owner = 0 => endpoint'[j].reader = "none" /\ endpoint'[j].pipe = <<>>
    BY <1>0, <2>1 DEF Owned
  <2>3. \A j \in Keys : endpoint'[j].owner # 0 =>
          /\ serve'[endpoint'[j].owner].at # "none"
          /\ serve'[endpoint'[j].owner].at = "ended" => endpoint'[j].reader = "ended"
    BY <1>0, <2>1 DEF Owned, Endpoints
  <2>4. \A v \in Workers : worker'[v].at = "enqueue" =>
          worker'[v].key \in Keys /\ endpoint'[worker'[v].key].owner # 0
    BY <1>0, <2>1 DEF Owned
  <2>5. \A r \in Services : serve'[r].done => serve'[r].at = "ended"
    BY <1>0, <2>1 DEF Owned
  <2> QED BY <2>2, <2>3, <2>4, <2>5 DEF Owned
<1>4. ASSUME NEW s \in Services, ServeStarts(s)
      PROVE  Owned'
  <2>1. 0 \notin Services /\ s # 0 /\ \A j \in Keys : endpoint[j].owner \in Services \cup {0}
    BY <1>0 DEF Services, Endpoints
  <2>2. ASSUME NEW j \in Keys, endpoint'[j].owner # 0
        PROVE  /\ serve'[endpoint'[j].owner].at # "none"
               /\ serve'[endpoint'[j].owner].at = "ended" => endpoint'[j].reader = "ended"
    <3>1. CASE endpoint'[j] = endpoint[j]
      <4>1. endpoint[j].owner \in Services \ {s}
        BY <1>0, <1>4, <2>1, <2>2, <3>1 DEF ServeStarts, Owned
      <4> QED BY <1>0, <1>4, <2>2, <3>1, <4>1 DEF ServeStarts, Owned
    <3>2. CASE endpoint'[j] # endpoint[j]
      <4>1. endpoint'[j].owner = s
        BY <1>4, <3>2 DEF ServeStarts
      <4>2. serve'[s].at = "serving"
        BY <1>4, <3>2 DEF ServeStarts
      <4> QED BY <4>1, <4>2
    <3> QED BY <3>1, <3>2
  <2>3. \A j \in Keys : endpoint'[j].owner = 0 => endpoint'[j].reader = "none" /\ endpoint'[j].pipe = <<>>
    BY <1>0, <1>4, <2>1 DEF ServeStarts, Owned
  <2>4. \A j \in Keys : endpoint'[j].owner # 0 =>
          /\ serve'[endpoint'[j].owner].at # "none"
          /\ serve'[endpoint'[j].owner].at = "ended" => endpoint'[j].reader = "ended"
    BY <1>0, <2>2 DEF Owned, Endpoints
  <2>5. \A v \in Workers : worker'[v].at = "enqueue" =>
          worker'[v].key \in Keys /\ endpoint'[worker'[v].key].owner # 0
    BY <1>0, <1>4, <2>1 DEF ServeStarts, Owned
  <2>6. \A r \in Services : serve'[r].done => serve'[r].at = "ended"
    BY <1>0, <1>4 DEF ServeStarts, Owned
  <2> QED BY <2>3, <2>4, <2>5, <2>6 DEF Owned
<1>5. ASSUME NEW s \in Services, ServeStops(s)
      PROVE  Owned'
  <2>1. \A j \in Keys : endpoint'[j].owner = 0 => endpoint'[j].reader = "none" /\ endpoint'[j].pipe = <<>>
    BY <1>0, <1>5 DEF ServeStops, Owned
  <2>2. \A j \in Keys : endpoint'[j].owner # 0 =>
          /\ serve'[endpoint'[j].owner].at # "none"
          /\ serve'[endpoint'[j].owner].at = "ended" => endpoint'[j].reader = "ended"
    BY <1>0, <1>5 DEF ServeStops, Owned, Endpoints
  <2>3. \A v \in Workers : worker'[v].at = "enqueue" =>
          worker'[v].key \in Keys /\ endpoint'[worker'[v].key].owner # 0
    BY <1>0, <1>5 DEF ServeStops, Owned
  <2>4. \A r \in Services : serve'[r].done => serve'[r].at = "ended"
    BY <1>0, <1>5 DEF ServeStops, Owned
  <2> QED BY <2>1, <2>2, <2>3, <2>4 DEF Owned
<1>6. ASSUME NEW w \in Workers, WorkerStarts(w)
      PROVE  Owned'
  BY <1>0, <1>6 DEF WorkerStarts, WorkerBecomes, Owned
<1>7. ASSUME NEW w \in Workers, CallLookedUp(w)
      PROVE  Owned'
  BY <1>0, <1>7 DEF CallLookedUp, WorkerBecomes, ContextBecomes, NetKeeps, Owned
<1>8. ASSUME NEW w \in Workers, CallEnqueued(w)
      PROVE  Owned'
  <2> DEFINE k == worker[w].key
  <2>1. k \in Keys /\ endpoint[k].owner # 0
    BY <1>0, <1>8 DEF CallEnqueued, Owned
  <2>2. /\ UNCHANGED serve
        /\ \A v \in Workers \ {w} : worker'[v] = worker[v]
        /\ worker'[w].at = "requested"
        /\ \A j \in Keys : endpoint'[j].owner = endpoint[j].owner /\ endpoint'[j].reader = endpoint[j].reader
        /\ \A j \in Keys \ {k} : endpoint'[j].pipe = endpoint[j].pipe
    BY <1>8 DEF CallEnqueued, WorkerBecomes, EndpointBecomes
  <2> HIDE DEF k
  <2>3. \A j \in Keys : endpoint'[j].owner = 0 => endpoint'[j].reader = "none" /\ endpoint'[j].pipe = <<>>
    BY <1>0, <2>1, <2>2 DEF Owned
  <2>4. \A j \in Keys : endpoint'[j].owner # 0 =>
          /\ serve'[endpoint'[j].owner].at # "none"
          /\ serve'[endpoint'[j].owner].at = "ended" => endpoint'[j].reader = "ended"
    BY <1>0, <2>1, <2>2 DEF Owned, Endpoints
  <2>5. \A v \in Workers : worker'[v].at = "enqueue" =>
          worker'[v].key \in Keys /\ endpoint'[worker'[v].key].owner # 0
    BY <1>0, <2>2 DEF Owned
  <2>6. \A r \in Services : serve'[r].done => serve'[r].at = "ended"
    BY <1>0, <2>2 DEF Owned
  <2> QED BY <2>3, <2>4, <2>5, <2>6 DEF Owned
<1>9. ASSUME NEW w \in Workers, WorkerFails(w)
      PROVE  Owned'
  BY <1>0, <1>9 DEF WorkerFails, WorkerBecomes, Owned
<1>10. ASSUME NEW w \in Workers, NEW k \in Keys, EndpointCloses(w, k)
       PROVE  Owned'
  BY SMTT(20), <1>0, <1>10 DEF EndpointCloses, WorkerBecomes, EndpointBecomes, Owned
<1>11. ASSUME NEW w \in Workers, NEW c \in Calls, CallTaken(w, c)
       PROVE  Owned'
  BY <1>0, <1>11 DEF CallTaken, WorkerBecomes, ContextBecomes, Owned
<1>12. ASSUME NEW k \in Keys, CallDequeued(k)
       PROVE  Owned'
  <2>1. endpoint[k].owner # 0
    BY <1>0, <1>12 DEF CallDequeued, Owned
  <2>2. /\ UNCHANGED <<serve, worker>>
        /\ \A j \in Keys : endpoint'[j].owner = endpoint[j].owner
        /\ \A j \in Keys \ {k} : endpoint'[j] = endpoint[j]
        /\ endpoint[k].reader # "ended"
    BY <1>12 DEF CallDequeued, EndpointBecomes
  <2>3. \A j \in Keys : endpoint'[j].owner = 0 => endpoint'[j].reader = "none" /\ endpoint'[j].pipe = <<>>
    BY <1>0, <2>1, <2>2 DEF Owned
  <2>4. \A j \in Keys : endpoint'[j].owner # 0 =>
          /\ serve'[endpoint'[j].owner].at # "none"
          /\ serve'[endpoint'[j].owner].at = "ended" => endpoint'[j].reader = "ended"
    BY <1>0, <2>1, <2>2 DEF Owned, Endpoints
  <2>5. \A v \in Workers : worker'[v].at = "enqueue" =>
          worker'[v].key \in Keys /\ endpoint'[worker'[v].key].owner # 0
    BY <1>0, <2>2 DEF Owned
  <2>6. \A r \in Services : serve'[r].done => serve'[r].at = "ended"
    BY <1>0, <2>2 DEF Owned
  <2> QED BY <2>3, <2>4, <2>5, <2>6 DEF Owned
<1>13. ASSUME NEW k \in Keys, ReaderStops(k)
       PROVE  Owned'
  BY SMTT(20), <1>0, <1>13 DEF ReaderStops, EndpointBecomes, Owned
<1> QED BY StepCases, <1>1, <1>2, <1>3, <1>4, <1>5, <1>6, <1>7, <1>8, <1>9, <1>10, <1>11, <1>12,
<1>13

\* and that a method which no longer reads has failed or reached the end.
LEMMA ReadsStep ==
  ASSUME IInv, [Next]_vars
  PROVE  MethodReads'
<1>0. /\ main \in {"services", "up", "grpc", "wait", "reset"}
      /\ grpc \in {"up", "shutdown", "cancelled"}
      /\ load \in [Queues -> Nat] /\ serve \in [Services -> Tasks]
      /\ worker \in [Workers -> Loops] /\ endpoint \in [Keys -> Endpoints]
      /\ call \in [Calls -> Contexts] /\ net \in [Calls -> Nets]
      /\ TypeOK /\ TagsPending /\ NotTaken /\ HeldByOne /\ QueuedOnce /\ Owned /\ MethodReads
      /\ ClosedAtShutdown /\ ResetAfterAll
  BY DEF IInv, TypeOK
<1>1. CASE ClientSide
  BY <1>0, <1>1 DEF ClientSide, serverVars, ctorVars, MethodReads, Failed
<1>2. CASE MainMoves
  BY <1>0, <1>2 DEF MainMoves, NetKeeps, MethodReads, Failed
<1>3. ASSUME NEW c \in Calls, FiberSide(c) /\ TagsPending'
      PROVE  MethodReads'
  <2>1. /\ \A d \in Calls \ {c} : call'[d] = call[d]
        /\ call'[c].key = call[c].key
        /\ call'[c].at \in Handled => call[c].at \in Handled
        /\ call[c].at = "failed" => call'[c].at = "failed"
    BY <1>3 DEF FiberSide, Handled
  <2>2. \A k \in Keys :
          /\ endpoint'[k].closed = endpoint[k].closed /\ endpoint'[k].pipe = endpoint[k].pipe
          /\ \/ endpoint'[k].reader = endpoint[k].reader
             \/ /\ endpoint[k].reader = "reading" /\ endpoint'[k].reader = "failing"
                /\ call'[c].at = "failed" /\ call'[c].key = k
    BY <1>0, <1>3, FiberEndpoints
  <2>3. \A k \in Keys : call'[c].at = "failed" /\ call'[c].key = k => Failed(k)'
    BY DEF Failed
  <2>4. \A d \in Calls : call'[d].at \in Handled =>
          call'[d].key \in Keys /\ endpoint'[call'[d].key].reader \notin {"none", "ended"}
    <3> SUFFICES ASSUME NEW d \in Calls, call'[d].at \in Handled
                 PROVE  /\ call'[d].key \in Keys
                        /\ endpoint'[call'[d].key].reader \notin {"none", "ended"}
      OBVIOUS
    <3>1. call'[d].key = call[d].key /\ call[d].at \in Handled
      BY <2>1
    <3>2. call[d].key \in Keys /\ endpoint[call[d].key].reader \notin {"none", "ended"}
      BY <1>0, <3>1 DEF MethodReads
    <3>3. endpoint'[call[d].key].reader \notin {"none", "ended"}
      BY <2>2, <3>2
    <3> QED BY <3>1, <3>2, <3>3
  <2>5. \A j \in Keys : Failed(j) => Failed(j)'
    BY <1>0, <2>1 DEF Failed
  <2>6. \A j \in Keys :
          /\ endpoint'[j].reader = "failing" => Failed(j)'
          /\ endpoint'[j].reader \in {"draining", "ended"} =>
               (endpoint'[j].closed /\ endpoint'[j].pipe = <<>>) \/ Failed(j)'
    BY <1>0, <2>5, <2>2, <2>3 DEF MethodReads
  <2> QED BY <2>4, <2>6 DEF MethodReads, Failed
<1>4. ASSUME NEW s \in Services, ServeStarts(s)
      PROVE  MethodReads'
  BY <1>0, <1>4 DEF ServeStarts, MethodReads, Failed
<1>5. ASSUME NEW s \in Services, ServeStops(s)
      PROVE  MethodReads'
  BY <1>0, <1>5 DEF ServeStops, MethodReads, Failed
<1>6. ASSUME NEW w \in Workers, WorkerStarts(w)
      PROVE  MethodReads'
  BY <1>0, <1>6 DEF WorkerStarts, WorkerBecomes, MethodReads, Failed
<1>7. ASSUME NEW w \in Workers, CallLookedUp(w)
      PROVE  MethodReads'
  <2> DEFINE c == worker[w].call
  <2>1. c \in Calls /\ call[c].at = "held"
    BY <1>0, <1>7, HeldCall
  <2>2. /\ UNCHANGED endpoint /\ \A d \in Calls \ {c} : call'[d] = call[d]
        /\ call'[c].at \in {"held", "unimplemented"}
    BY <1>7, <2>1 DEF CallLookedUp, ContextBecomes
  <2> HIDE DEF c
  <2>3. \A d \in Calls : call'[d].at \in Handled =>
          call'[d].key \in Keys /\ endpoint'[call'[d].key].reader \notin {"none", "ended"}
    BY <1>0, <2>1, <2>2 DEF Handled, MethodReads
  <2>4. \A j \in Keys : Failed(j) => Failed(j)'
    BY <1>0, <2>1, <2>2 DEF Failed
  <2>5. \A j \in Keys :
          /\ endpoint'[j].reader = "failing" => Failed(j)'
          /\ endpoint'[j].reader \in {"draining", "ended"} =>
               (endpoint'[j].closed /\ endpoint'[j].pipe = <<>>) \/ Failed(j)'
    BY <1>0, <2>4, <2>2 DEF MethodReads
  <2> QED BY <2>3, <2>5 DEF MethodReads, Failed
<1>8. ASSUME NEW w \in Workers, CallEnqueued(w)
      PROVE  MethodReads'
  <2> DEFINE c == worker[w].call
             k == worker[w].key
  <2>1. c \in Calls /\ call[c].at = "held"
    BY <1>0, <1>8, HeldCall
  <2>2. /\ \A d \in Calls \ {c} : call'[d] = call[d]
        /\ call'[c].at \in {"dropped", "queued"}
        /\ \A j \in Keys : /\ endpoint'[j].closed = endpoint[j].closed
                           /\ endpoint'[j].reader = endpoint[j].reader
                           /\ endpoint[j].closed => endpoint'[j].pipe = endpoint[j].pipe
    BY <1>8 DEF CallEnqueued, ContextBecomes, EndpointBecomes
  <2> HIDE DEF c, k
  <2>3. \A d \in Calls : call'[d].at \in Handled =>
          call'[d].key \in Keys /\ endpoint'[call'[d].key].reader \notin {"none", "ended"}
    BY <1>0, <2>1, <2>2 DEF Handled, MethodReads
  <2>4. \A j \in Keys : Failed(j) => Failed(j)'
    BY <1>0, <2>1, <2>2 DEF Failed
  <2>5. \A j \in Keys :
          /\ endpoint'[j].reader = "failing" => Failed(j)'
          /\ endpoint'[j].reader \in {"draining", "ended"} =>
               (endpoint'[j].closed /\ endpoint'[j].pipe = <<>>) \/ Failed(j)'
    BY <1>0, <2>4, <2>2 DEF MethodReads
  <2> QED BY <2>3, <2>5 DEF MethodReads, Failed
<1>9. ASSUME NEW w \in Workers, WorkerFails(w)
      PROVE  MethodReads'
  BY <1>0, <1>9 DEF WorkerFails, WorkerBecomes, MethodReads, Failed
<1>10. ASSUME NEW w \in Workers, NEW k \in Keys, EndpointCloses(w, k)
       PROVE  MethodReads'
  BY <1>0, <1>10 DEF EndpointCloses, WorkerBecomes, EndpointBecomes, MethodReads, Failed
<1>11. ASSUME NEW w \in Workers, NEW c \in Calls, CallTaken(w, c)
       PROVE  MethodReads'
  <2>1. call[c].at = "none"
    BY <1>0, <1>11 DEF CallTaken, NotTaken
  <2>2. /\ UNCHANGED endpoint /\ \A d \in Calls \ {c} : call'[d] = call[d]
        /\ call'[c].at = "held"
    BY <1>11, <2>1 DEF CallTaken, ContextBecomes
  <2>3. \A d \in Calls : call'[d].at \in Handled =>
          call'[d].key \in Keys /\ endpoint'[call'[d].key].reader \notin {"none", "ended"}
    BY <1>0, <2>1, <2>2 DEF Handled, MethodReads
  <2>4. \A j \in Keys : Failed(j) => Failed(j)'
    BY <1>0, <2>1, <2>2 DEF Failed
  <2>5. \A j \in Keys :
          /\ endpoint'[j].reader = "failing" => Failed(j)'
          /\ endpoint'[j].reader \in {"draining", "ended"} =>
               (endpoint'[j].closed /\ endpoint'[j].pipe = <<>>) \/ Failed(j)'
    BY <1>0, <2>4, <2>2 DEF MethodReads
  <2> QED BY <2>3, <2>5 DEF MethodReads, Failed
<1>12. ASSUME NEW k \in Keys, CallDequeued(k)
       PROVE  MethodReads'
  <2> DEFINE c == Head(endpoint[k].pipe)
  <2>1. c \in Calls /\ call[c].at = "queued" /\ call[c].key = k
    BY <1>0, <1>12, QueuedCall
  <2>2. /\ \A d \in Calls \ {c} : call'[d] = call[d]
        /\ call'[c].key = call[c].key /\ call'[c].at \in {"prologue", "lost"}
        /\ call'[c].at = "prologue" => endpoint'[k].reader = "reading"
        /\ \A j \in Keys \ {k} : endpoint'[j] = endpoint[j]
        /\ \/ endpoint[k].reader = "reading" /\ endpoint'[k].reader = "reading"
           \/ endpoint[k].reader = "failing" /\ endpoint'[k].reader = "draining"
    BY <1>12 DEF CallDequeued, ContextBecomes, EndpointBecomes
  <2> HIDE DEF c
  <2>3. \A d \in Calls : call'[d].at \in Handled =>
          call'[d].key \in Keys /\ endpoint'[call'[d].key].reader \notin {"none", "ended"}
    BY <1>0, <2>1, <2>2 DEF Handled, MethodReads
  <2>4. \A j \in Keys : Failed(j) => Failed(j)'
    BY <1>0, <2>1, <2>2 DEF Failed
  <2>5. \A j \in Keys :
          /\ endpoint'[j].reader = "failing" => Failed(j)'
          /\ endpoint'[j].reader \in {"draining", "ended"} =>
               (endpoint'[j].closed /\ endpoint'[j].pipe = <<>>) \/ Failed(j)'
    BY <1>0, <2>4, <2>2 DEF MethodReads
  <2> QED BY <2>3, <2>5 DEF MethodReads, Failed
<1>13. ASSUME NEW k \in Keys, ReaderStops(k)
       PROVE  MethodReads'
  BY <1>0, <1>13 DEF ReaderStops, EndpointBecomes, MethodReads, Failed
<1> QED BY StepCases, <1>1, <1>2, <1>3, <1>4, <1>5, <1>6, <1>7, <1>8, <1>9, <1>10, <1>11, <1>12,
<1>13

-----------------------------------------------------------------------------

\* For any number of calls, completion queues, endpoints and services, and any
\* scenario: the inductive invariant holds of every execution of the server and
\* its clients.
THEOREM GrpcInvariant == Spec => []IInv
<1>1. Init => IInv
  <2> SUFFICES ASSUME NEW s \in Scenarios, ServerInit(s.target, s.streaming)
               PROVE  IInv
    BY DEF Init
  <2> USE DEF ServerInit
  <2>1. TypeOK
    <3>1. /\ main \in {"services", "up", "grpc", "wait", "reset"}
          /\ grpc \in {"up", "shutdown", "cancelled"}
      OBVIOUS
    <3>2. load \in [Queues -> Nat] /\ serve \in [Services -> Tasks]
      BY DEF Tasks
    <3>3. worker \in [Workers -> Loops]
      BY DEF Loops
    <3>4. endpoint \in [Keys -> Endpoints]
      <4>1. <<>> \in Seq(Calls)
        OBVIOUS
      <4>2. NoEndpoint \in Endpoints
        BY <4>1 DEF NoEndpoint, Endpoints
      <4> QED BY <4>2
    <3>5. call \in [Calls -> Contexts]
      BY DEF Contexts, Places
    <3>6. net \in [Calls -> Nets]
      BY DEF Nets, Statuses
    <3> QED BY <3>1, <3>2, <3>3, <3>4, <3>5, <3>6 DEF TypeOK
  <2>2. TagsPending
    BY DEF TagsPending, Pending
  <2>3. NotTaken /\ HeldByOne /\ ResetAfterAll
    BY DEF NotTaken, HeldByOne, Holds, ResetAfterAll
  <2>4. \A k \in Keys : /\ endpoint[k].owner = 0 /\ endpoint[k].reader = "none"
                        /\ endpoint[k].closed = FALSE /\ endpoint[k].pipe = <<>>
    BY DEF NoEndpoint
  <2>5. QueuedOnce
    <3>1. \A k \in Keys : 1..Len(endpoint[k].pipe) = {}
      BY <2>4
    <3> QED BY <3>1 DEF QueuedOnce
  <2>6. Owned
    BY <2>4 DEF Owned
  <2>7. MethodReads /\ ClosedAtShutdown
    BY <2>4 DEF MethodReads, ClosedAtShutdown, Handled
  <2> QED BY <2>1, <2>2, <2>3, <2>5, <2>6, <2>7 DEF IInv
<1>2. IInv /\ [Next]_vars => IInv'
  BY TypeStep, TagsStep, TakenStep, HeldStep, QueuedStep, OwnedStep, ReadsStep, ShutdownStep,
     ResetStep DEF IInv
<1> QED BY <1>1, <1>2, PTL DEF Spec

\* A context goes away only when gRPC has delivered all its tags, in whatever order
\* the callbacks of Finish, of the writes and of done come, except at the pipes that
\* a shutdown has closed: a context that is dropped there may have done's tag out,
\* and no other.
THEOREM GrpcTagsOutlived == Spec => []TagsOutlived
<1>1. ASSUME IInv, NEW c \in Calls, call[c].at \in Gone, call[c].tags # {}
      PROVE  call[c].at = "dropped" /\ call[c].tags = {"done"} /\ grpc # "up"
  <2>1. call[c].tags \ {"done"} = {} /\ call[c].at # "dangled"
    BY <1>1 DEF IInv, TagsPending, Pending, Gone
  <2>2. call[c].tags = {"done"}
    BY <1>1, <2>1
  <2>3. call[c].at = "dropped"
    BY <1>1, <2>1, <2>2 DEF IInv, TagsPending, Gone
  <2> QED BY <1>1, <2>2, <2>3 DEF IInv, ClosedAtShutdown
<1>2. IInv => TagsOutlived
  BY <1>1 DEF TagsOutlived
<1> QED BY <1>2, GrpcInvariant, PTL

\* When Wait has reset server_, no worker has a call in hand, no fiber handles one,
\* and a call still in a pipe is one that a failed method left there.
THEOREM GrpcQuietAfterWait == Spec => []QuietAfterWait
<1>1. ASSUME IInv, main = "reset", NEW c \in Calls
      PROVE  /\ call[c].at \notin Handled \cup {"held"}
             /\ call[c].at = "queued" =>
                  \E d \in Calls : call[d].at = "failed" /\ call[d].key = call[c].key
  <2>1. /\ \A w \in Workers : worker[w].at = "done"
        /\ \A s \in Services : serve[s].at = "ended"
    BY <1>1 DEF IInv, ResetAfterAll
  <2>2. ASSUME NEW k \in Keys, endpoint[k].owner # 0
        PROVE  endpoint[k].reader = "ended"
    <3>1. endpoint[k].owner \in Services
      BY <1>1, <2>2 DEF IInv, TypeOK, Endpoints
    <3> QED BY <1>1, <2>1, <2>2, <3>1 DEF IInv, Owned
  <2>3. call[c].at # "held"
    BY <1>1, <2>1 DEF IInv, HeldByOne, Holds
  <2>4. call[c].at \notin Handled
    <3> SUFFICES ASSUME call[c].at \in Handled
                 PROVE  FALSE
      OBVIOUS
    <3>1. call[c].key \in Keys /\ endpoint[call[c].key].reader \notin {"none", "ended"}
      BY <1>1 DEF IInv, MethodReads
    <3>2. endpoint[call[c].key].owner # 0
      BY <1>1, <3>1 DEF IInv, Owned
    <3> QED BY <2>2, <3>1, <3>2
  <2>5. ASSUME call[c].at = "queued"
        PROVE  \E d \in Calls : call[d].at = "failed" /\ call[d].key = call[c].key
    <3>1. call[c].key \in Keys /\ endpoint[call[c].key].pipe # <<>>
      <4>1. call[c].key \in Keys /\ \E i \in 1..Len(endpoint[call[c].key].pipe) : TRUE
        BY <1>1, <2>5 DEF IInv, QueuedOnce
      <4> QED BY <4>1
    <3>2. endpoint[call[c].key].owner # 0
      BY <1>1, <3>1 DEF IInv, Owned
    <3>3. endpoint[call[c].key].reader = "ended"
      BY <2>2, <3>1, <3>2
    <3> QED BY <1>1, <3>1, <3>3 DEF IInv, MethodReads, Failed
  <2> QED BY <2>3, <2>4, <2>5
<1>2. IInv => QuietAfterWait
  BY <1>1 DEF QuietAfterWait
<1> QED BY <1>2, GrpcInvariant, PTL

\* A call that a worker took is dropped at a closed pipe only when the server is
\* shut down.
THEOREM GrpcDroppedOnlyAtShutdown == Spec => []DroppedOnlyAtShutdown
<1>1. IInv => DroppedOnlyAtShutdown
  BY DEF IInv, ClosedAtShutdown, DroppedOnlyAtShutdown
<1> QED BY <1>1, GrpcInvariant, PTL

=============================================================================

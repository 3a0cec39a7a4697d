--------------------------------- MODULE Grpc ---------------------------------
(***************************************************************************)
(* Clients (grpc/client.h) of the server of GrpcServer.tla.  A client makes *)
(* a call, which an interrupt may cancel until it has started, and then    *)
(* performs the operations of its program on the call, one at a time.      *)
(***************************************************************************)
EXTENDS GrpcServer

CONSTANT Scenarios   \* What the clients do: for which endpoint each call is, which
                     \* methods stream their responses, the operations each client
                     \* performs, in order, and which calls have an interrupt.

VARIABLES client,          \* Where each client is, what it has left to do, its handler.
          interruptible    \* The calls that have an interrupt.

vars == <<serverAll, client, interruptible>>

Init ==
  \E s \in Scenarios :
    /\ ServerInit(s.target, s.streaming)
    /\ client = [c \in Calls |-> [at |-> "idle", todo |-> s.program[c], handler |-> "none"]]
    /\ interruptible = s.interruptible

-----------------------------------------------------------------------------

\* TryCancel: the call gets its status unless it has one.
TryCancel(c) == net' = [net EXCEPT ![c].status = IF @ = "none" THEN "CANCELLED" ELSE @]

\* Mutant of Call: a refused installation is ignored.
CallIgnoring(c) ==
  /\ client[c].at = "idle" /\ client[c].todo # <<>>
  /\ main = "up"
  /\ \E prepared \in BOOLEAN :
       client' = [client EXCEPT ![c] =
                    [at |-> IF prepared THEN "starting" ELSE "ended",
                     todo |-> IF prepared THEN @.todo ELSE <<>>,
                     handler |-> IF c \in interruptible /\ @.handler = "none"
                                   THEN "installed" ELSE @.handler]]
  /\ UNCHANGED <<serverAll, interruptible>>

\* Client::Call: install the handler, or cancel when the interrupt was
\* triggered before; then StartCall, unless the method is not valid or the call
\* cannot be prepared, which fails with the handler left installed.  A server
\* that is shut down is not called.
Call(c) ==
  /\ client[c].at = "idle" /\ client[c].todo # <<>>
  /\ main = "up"
  /\ \E prepared \in BOOLEAN :
       client' = [client EXCEPT ![c] =
                    [at |-> IF prepared THEN "starting" ELSE "ended",
                     todo |-> IF prepared THEN @.todo ELSE <<>>,
                     handler |-> IF c \in interruptible /\ @.handler = "none"
                                   THEN "installed" ELSE @.handler]]
  /\ IF client[c].handler = "triggered" THEN TryCancel(c) ELSE UNCHANGED net
  /\ UNCHANGED <<serverVars, call, interruptible>>

\* Interrupt::Trigger: the handler, while it is installed, cancels.  Once the
\* call has started or failed a trigger changes nothing that is modelled.
Trigger(c) ==
  /\ c \in interruptible /\ client[c].handler # "triggered"
  /\ client[c].at \in {"idle", "starting"}
  /\ client' = [client EXCEPT ![c].handler = "triggered"]
  /\ IF client[c].handler = "installed" THEN TryCancel(c) ELSE UNCHANGED net
  /\ UNCHANGED <<serverVars, call, interruptible>>

\* gRPC: the call reaches the server.
Connect(c) ==
  /\ client[c].at = "starting"
  /\ net[c].at = "idle" /\ net[c].status = "none" /\ grpc = "up"
  /\ net' = [net EXCEPT ![c].at = "sent"]
  /\ UNCHANGED <<serverVars, call, client, interruptible>>

\* The next operation of the program is started, or done in place.
Perform(c) ==
  LET op == Head(client[c].todo)
      next == IF op = "cancel" THEN client[c].todo[2] ELSE op IN
  /\ client' = [client EXCEPT ![c].at = next, ![c].handler = "none",
                              ![c].todo = IF op = "cancel" THEN Tail(Tail(@)) ELSE Tail(@)]
  /\ CASE op = "cancel" -> TryCancel(c)
       [] op = "write" -> net' = [net EXCEPT ![c].request = (net[c].status = "none")]
       [] OTHER -> UNCHANGED net

\* The client's eventual fails, and its call goes with it.
Fail(c) ==
  /\ client' = [client EXCEPT ![c].at = "ended", ![c].handler = "none", ![c].todo = <<>>]
  /\ UNCHANGED net

\* The callback of StartCall uninstalls the handler; ok, when the call went
\* out, and not ok, when it was cancelled or there is no server.
StartCallback(c) ==
  /\ client[c].at = "starting"
  /\ \/ net[c].at # "idle" /\ Perform(c)
     \/ /\ net[c].status \in {"CANCELLED", "UNAVAILABLE"} \/ (net[c].at = "idle" /\ grpc # "up")
        /\ Fail(c)
  /\ UNCHANGED <<serverVars, call, interruptible>>

\* ClientWriter::Write.
ClientWriteCallback(c) ==
  /\ client[c].at = "write"
  /\ Perform(c) \/ (net[c].status # "none" /\ Fail(c))
  /\ UNCHANGED <<serverVars, call, interruptible>>

\* ClientReader::Read: a response, or the end of them.
ClientReadCallback(c) ==
  /\ client[c].at = "read"
  /\ net[c].response \/ net[c].status # "none"
  /\ Perform(c)
  /\ UNCHANGED <<serverVars, call, interruptible>>

\* ClientCall::Finish: the status.
ClientFinishCallback(c) ==
  /\ client[c].at = "finish"
  /\ net[c].status # "none"
  /\ client' = [client EXCEPT ![c].at = "ended"]
  /\ UNCHANGED <<serverAll, interruptible>>

ClientStep(c) ==
  \/ StartCallback(c)
  \/ ClientWriteCallback(c) \/ ClientReadCallback(c) \/ ClientFinishCallback(c)

Next ==
  \/ ServerNext /\ UNCHANGED <<client, interruptible>>
  \/ \E c \in Calls : Call(c) \/ Trigger(c) \/ Connect(c) \/ ClientStep(c)

Progress ==
  \/ ServerProgress /\ UNCHANGED <<client, interruptible>>
  \/ \E c \in Calls : ClientStep(c)

\* The callbacks are run and the handlers end: as no step repeats itself, it is
\* enough that some step is taken while there is one.  A call need not reach
\* the server, nor the server be shut down.
Spec == Init /\ [][Next]_vars /\ WF_vars(Progress)

-----------------------------------------------------------------------------

\* Where the context of a call is gone: with the fiber that served the call,
\* deleted by Unimplemented's callback, or dropped at a closed pipe.
Gone == {"served", "deleted", "dropped", "dangled"}

\* A context goes away only when gRPC has delivered all its tags, in whatever
\* order the callbacks of Finish and done come (server.h:107-113), with one
\* exception: once the server is shut down a closed pipe may drop a context whose
\* done tag is out, though none of an operation of its call.
TagsOutlived ==
  \A c \in Calls :
    call[c].at \in Gone /\ call[c].tags # {}
      => call[c].at = "dropped" /\ call[c].tags = {"done"} /\ grpc # "up"

\* The callback of AsyncNotifyWhenDone is a member of the context and refers to
\* it (server.h:87-91): the context is there when the tag comes.
DoneFindsContext == \A c \in Calls : call[c].at # "dangled"

\* When Wait has reset server_, no worker has a call in hand, no fiber handles
\* one, and a call still in a pipe is one that a failed method left there: the
\* completion queues can be shut down (server.cc:278-282).
QuietAfterWait ==
  main = "reset" =>
    \A c \in Calls :
      /\ call[c].at \notin Handled \cup {"held"}
      /\ call[c].at = "queued" =>
           \E d \in Calls : call[d].at = "failed" /\ call[d].key = call[c].key

\* A call that a worker took is dropped at a closed pipe only when the server
\* is shut down: no call of one client closes the endpoints of the others.
DroppedOnlyAtShutdown ==
  \A c \in Calls : call[c].at \in {"dropped", "dangled"} => grpc # "up"

\* Shutdown and Wait return: the failing RequestCalls end the workers, which
\* close the pipes, which end the services (server.cc:247-251).  Without a
\* deadline a call that a failed method has abandoned, or that was dropped, may
\* hold up gRPC; and nothing is said where the done tag met a dropped context.
ShutdownReturns ==
  main = "grpc"
    ~> \/ main = "reset"
       \/ grpc = "shutdown" /\ \E c \in Calls : call[c].at \in {"failed", "dropped"}
       \/ ~DoneFindsContext

\* A call that reached the server ends for its client, whatever the server is
\* doing, unless it was dropped, a failed method has stopped reading its pipe, or
\* a done tag met a dropped context.
CallsEnd ==
  []<>(\A c \in Calls :
         net[c].at # "idle" => \/ client[c].at = "ended"
                              \/ call[c].at = "dropped"
                              \/ \E d \in Calls : call[d].at \in {"failed", "dangled"})

\* An interrupt ends a call that waits to start, even when no server answers,
\* and whether it comes before or after the call (client.h:388-404).
InterruptEnds ==
  []<>(\A c \in Calls : client[c].at = "starting" => client[c].handler # "triggered")

\* When the task of a service has ended, Wait can see it: "Now wait for the
\* serve tasks to be done (note that like workers ordering is not important
\* since these are each independent)" (server.cc:270-271).
EndedServeIsDone ==
  \A s \in Services : serve[s].at = "ended" => serve[s].done

=============================================================================

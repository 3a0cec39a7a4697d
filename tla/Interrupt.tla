----------------------------- MODULE Interrupt -----------------------------
(***************************************************************************)
(* eventuals::Interrupt and Interrupt::Handler (eventuals/interrupt.h).    *)
(*                                                                         *)
(* A pipeline installs the handlers of its eventuals one at a time (a new  *)
(* one replaces the old one) and destructs them; other threads call        *)
(* Trigger(). One action is one access to the atomic handler_, or to the   *)
(* state_ or the callback_ of a handler; of a handler that was destructed  *)
(* they are taken to work still. A CHECK that fails ends the program:      *)
(* `failed` names it and nothing happens afterwards.                       *)
(*                                                                         *)
(* External: stout::StatefulTally (state_), whose Update(expected, desired) *)
(* is a compare-and-swap of the state.                                     *)
(***************************************************************************)
EXTENDS Naturals, FiniteSets

CONSTANTS Handlers,      \* the Interrupt::Handler objects of one pipeline
          Threads,       \* the threads that call Trigger()
          PIPELINE,      \* the pipeline, as the one that invokes a callback
          PLACEHOLDER,   \* &placeholder_handler_
          NULL           \* nullptr: the interrupt was triggered

\* The CHECKs, by the function that they are in; "operator()" is the assertion of
\* Callback, that there is something to call.
Checks == {"Install", "InstallOrExecuteIfTriggered", "Uninstall", "~Handler", "Trigger", "Invoke",
           "operator()"}

\* Those who run Handler::Invoke.
Invokers == Threads \cup {PIPELINE}

ASSUME HandlerAssumption ==
  /\ PLACEHOLDER \notin Handlers /\ NULL \notin Handlers /\ PLACEHOLDER # NULL
  /\ NULL \notin Checks /\ PIPELINE \notin Threads

VARIABLES
  handler,    \* handler_
  state,      \* state_ of each handler
  callback,   \* the handlers whose callback_ is set
  alive,      \* the handlers that have not been destructed
  invoked,    \* how often each callback was run
  step,       \* what the pipeline executes next
  current,    \* the handler it works on
  stored,     \* Install's local of that name
  returned,   \* what became of each handler's Install
  tpc,        \* what each triggering thread executes next
  taken,      \* the handler it got from the exchange
  ipc,        \* what each invoker executes next of Handler::Invoke
  moved,      \* whether it moved something into Invoke's local `callback`
  raced,      \* history: the handlers that the pipeline invokes in a race
  failed      \* the CHECK that failed, or NULL

pipelineVars == <<step, current, stored, returned>>
invokeVars == <<ipc, moved, raced>>
vars == <<handler, state, callback, alive, invoked, step, current, stored, returned,
          tpc, taken, ipc, moved, raced, failed>>

Init ==
  /\ handler = PLACEHOLDER
  /\ state = [h \in Handlers |-> "UNINSTALLED"]
  /\ callback = Handlers
  /\ alive = Handlers
  /\ invoked = [h \in Handlers |-> 0]
  /\ step = "running"
  /\ current \in Handlers
  /\ stored = NULL
  /\ returned = [h \in Handlers |-> "nothing"]
  /\ tpc = [t \in Threads |-> "idle"]
  /\ taken = [t \in Threads |-> NULL]
  /\ ipc = [i \in Invokers |-> "out"]
  /\ moved = [i \in Invokers |-> FALSE]
  /\ raced = {}
  /\ failed = NULL

\* CHECK(condition): go on, or end the program.
Check(name, condition) == failed' = IF condition THEN failed ELSE name

\* state_.Update(from, to), which must succeed.
CheckedUpdate(name, h, from, to) ==
  /\ Check(name, state[h] = from)
  /\ state' = IF state[h] = from THEN [state EXCEPT ![h] = to] ELSE state

-----------------------------------------------------------------------------
(* Interrupt::Install, called by Handler::Install or, with execute set, by *)
(* Handler::InstallOrExecuteIfTriggered.                                   *)

\* The pipeline reaches an eventual and starts to install its handler, whose
\* callback has to be there; a stream does so again for every element.
Install(h) ==
  /\ failed = NULL
  /\ step = "running"
  /\ h \in alive
  /\ Check("Install", h \in callback)
  /\ current' = h
  /\ step' = "install_load"
  /\ UNCHANGED <<handler, state, callback, alive, invoked, stored, returned, tpc, taken,
                 invokeVars>>

\* Mutant of InstallLoad: that the interrupt was triggered goes unnoticed.
InstallLoadTriggered ==
  /\ failed = NULL
  /\ step = "install_load"
  /\ stored' = handler
  /\ \/ /\ handler \in {NULL, current}
        /\ step' = "running"
        /\ returned' = [returned EXCEPT ![current] = "installed"]
     \/ /\ handler \notin {NULL, current}
        /\ step' = "install_cas"
        /\ UNCHANGED returned
  /\ UNCHANGED <<handler, state, callback, alive, invoked, current, tpc, taken, invokeVars, failed>>

\* Load handler_: triggered, installed already, or somebody to replace.
InstallLoad ==
  /\ failed = NULL
  /\ step = "install_load"
  /\ stored' = handler
  /\ \/ /\ handler = NULL
        /\ step' = "install_failed"
        /\ UNCHANGED <<returned, failed>>
     \/ /\ handler = current
        /\ step' = "running"
        /\ returned' = [returned EXCEPT ![current] = "installed"]
        /\ UNCHANGED failed
     \/ /\ handler \notin {NULL, current}
        /\ Check("Install", state[current] = "UNINSTALLED")
        /\ step' = "install_cas"
        /\ UNCHANGED returned
  /\ UNCHANGED <<handler, state, callback, alive, invoked, current, tpc, taken, invokeVars>>

\* The compare-and-swap of the handler that was loaded.  The code takes it to
\* fail only when the interrupt was triggered in between; a weak one may also
\* fail for no reason.
InstallCas ==
  /\ failed = NULL
  /\ step = "install_cas"
  /\ step' = "install_update"
  /\ \/ /\ handler = stored
        /\ handler' = current
        /\ returned' = [h \in Handlers |-> IF h = stored THEN "replaced" ELSE returned[h]]
        /\ UNCHANGED <<stored, failed>>
     \/ /\ handler # stored
        /\ stored' = handler
        /\ Check("Install", handler = NULL)
        /\ UNCHANGED <<handler, returned>>
     \/ /\ handler = stored
        /\ Check("Install", handler = NULL)
        /\ UNCHANGED <<handler, stored, returned>>
  /\ UNCHANGED <<state, callback, alive, invoked, current, tpc, taken, invokeVars>>

\* The handler's state becomes INSTALLED, whether or not it was installed.
InstallUpdate ==
  /\ failed = NULL
  /\ step = "install_update"
  /\ CheckedUpdate("Install", current, "UNINSTALLED", "INSTALLED")
  /\ step' = IF stored = NULL THEN "install_failed" ELSE "install_replace"
  /\ UNCHANGED <<handler, callback, alive, invoked, current, stored, returned, tpc, taken,
                 invokeVars>>

\* The handler that was replaced is uninstalled, whatever its state.
InstallReplace ==
  /\ failed = NULL
  /\ step = "install_replace"
  /\ state' = [h \in Handlers |-> IF h = stored THEN "UNINSTALLED" ELSE state[h]]
  /\ returned' = [returned EXCEPT ![current] = "installed"]
  /\ step' = "running"
  /\ UNCHANGED <<handler, callback, alive, invoked, current, stored, tpc, taken, invokeVars,
                 failed>>

\* Install returned false to a caller that stops the eventual itself.
InstallRefused ==
  /\ failed = NULL
  /\ step = "install_failed"
  /\ returned' = [returned EXCEPT ![current] = "refused"]
  /\ step' = "running"
  /\ UNCHANGED <<handler, state, callback, alive, invoked, current, stored, tpc, taken,
                 invokeVars, failed>>

\* A thread that called Trigger() has the handler and has yet to take its callback.
Held(h) ==
  \E t \in Threads :
    taken[t] = h /\ (tpc[t] \in {"check", "update"} \/ ipc[t] \in {"check", "move", "clear"})

\* Install returned false to InstallOrExecuteIfTriggered, which goes on to invoke
\* the callback itself.
ExecuteIfTriggered ==
  /\ failed = NULL
  /\ step = "install_failed"
  /\ Check("InstallOrExecuteIfTriggered", state[current] = "UNINSTALLED")
  /\ step' = "invoke"
  /\ ipc' = [ipc EXCEPT ![PIPELINE] = "check"]
  /\ raced' = IF Held(current) THEN raced \cup {current} ELSE raced
  /\ UNCHANGED <<handler, state, callback, alive, invoked, current, stored, returned, tpc, taken,
                 moved>>

-----------------------------------------------------------------------------
(* Handler::Uninstall, called by ~Handler.                                 *)

\* INSTALLED -> UNINSTALLING, or nothing to do but wait.
Uninstall(h) ==
  /\ failed = NULL
  /\ step = "running"
  /\ h \in alive
  /\ current' = h
  /\ IF state[h] = "INSTALLED"
       THEN /\ state' = [state EXCEPT ![h] = "UNINSTALLING"]
            /\ step' = "uninstall_cas"
       ELSE /\ step' = "uninstall_wait"
            /\ UNCHANGED state
  /\ UNCHANGED <<handler, callback, alive, invoked, stored, returned, tpc, taken, invokeVars,
                 failed>>

\* Interrupt::Uninstall: put the placeholder back if the handler is still the
\* current one.  The weak compare-and-swap may fail though it is.
UninstallCas ==
  /\ failed = NULL
  /\ step = "uninstall_cas"
  /\ \/ /\ handler = current
        /\ handler' = PLACEHOLDER
        /\ CheckedUpdate("Uninstall", current, "UNINSTALLING", "UNINSTALLED")
        /\ step' = "uninstall_wait"
     \/ /\ step' = "uninstall_back"
        /\ UNCHANGED <<handler, state, failed>>
  /\ UNCHANGED <<callback, alive, invoked, current, stored, returned, tpc, taken, invokeVars>>

\* Somebody else is uninstalling the handler: let them, and wait.
UninstallBack ==
  /\ failed = NULL
  /\ step = "uninstall_back"
  /\ CheckedUpdate("~Handler", current, "UNINSTALLING", "INSTALLED")
  /\ step' = "uninstall_wait"
  /\ UNCHANGED <<handler, callback, alive, invoked, current, stored, returned, tpc, taken,
                 invokeVars>>

\* The wait is over: the handler is destructed.
UninstallWait ==
  /\ failed = NULL
  /\ step = "uninstall_wait"
  /\ state[current] = "UNINSTALLED"
  /\ alive' = alive \ {current}
  /\ step' = "running"
  /\ UNCHANGED <<handler, state, callback, invoked, current, stored, returned, tpc, taken,
                 invokeVars, failed>>

-----------------------------------------------------------------------------
(* Interrupt::Trigger, run by thread t.                                    *)

\* Exchange handler_ for nullptr.
Trigger(t) ==
  /\ failed = NULL
  /\ tpc[t] = "idle"
  /\ handler' = NULL
  /\ taken' = [taken EXCEPT ![t] = handler]
  /\ tpc' = [tpc EXCEPT ![t] = IF handler \in {NULL, PLACEHOLDER} THEN "done" ELSE "check"]
  /\ UNCHANGED <<state, callback, alive, invoked, pipelineVars, invokeVars, failed>>

\* CHECK_EQ(state, INSTALLED).
TriggerCheck(t) ==
  /\ failed = NULL
  /\ tpc[t] = "check"
  /\ Check("Trigger", state[taken[t]] = "INSTALLED")
  /\ tpc' = [tpc EXCEPT ![t] = "update"]
  /\ UNCHANGED <<handler, state, callback, alive, invoked, pipelineVars, taken, invokeVars>>

\* Mutant of TriggerUpdate: the handler stays INSTALLED.
TriggerUpdateMissing(t) ==
  /\ failed = NULL
  /\ tpc[t] = "update"
  /\ tpc' = [tpc EXCEPT ![t] = "invoke"]
  /\ ipc' = [ipc EXCEPT ![t] = "check"]
  /\ UNCHANGED <<handler, state, callback, alive, invoked, pipelineVars, taken, moved, raced,
                 failed>>

\* INSTALLED -> UNINSTALLED, so that the callback may destruct the handler.
TriggerUpdate(t) ==
  /\ failed = NULL
  /\ tpc[t] = "update"
  /\ CheckedUpdate("Trigger", taken[t], "INSTALLED", "UNINSTALLED")
  /\ tpc' = [tpc EXCEPT ![t] = "invoke"]
  /\ ipc' = [ipc EXCEPT ![t] = "check"]
  /\ UNCHANGED <<handler, callback, alive, invoked, pipelineVars, taken, moved, raced>>

-----------------------------------------------------------------------------
(* Handler::Invoke, run by a triggering thread or, from                    *)
(* InstallOrExecuteIfTriggered, by the pipeline.                           *)

\* The handler that i invokes.
Target(i) == IF i = PIPELINE THEN current ELSE taken[i]

\* CHECK(callback_).
InvokeCheck(i) ==
  /\ failed = NULL
  /\ ipc[i] = "check"
  /\ Check("Invoke", Target(i) \in callback)
  /\ ipc' = [ipc EXCEPT ![i] = "move"]
  /\ UNCHANGED <<handler, state, callback, alive, invoked, pipelineVars, tpc, taken, moved, raced>>

\* The move constructor of Callback: take what is there, if anything still is, ...
InvokeMove(i) ==
  /\ failed = NULL
  /\ ipc[i] = "move"
  /\ moved' = [moved EXCEPT ![i] = Target(i) \in callback]
  /\ ipc' = [ipc EXCEPT ![i] = IF Target(i) \in callback THEN "clear" ELSE "call"]
  /\ UNCHANGED <<handler, state, callback, alive, invoked, pipelineVars, tpc, taken, raced, failed>>

\* Mutant of InvokeClear: the callback stays in the handler.
InvokeClearForgets(i) ==
  /\ failed = NULL
  /\ ipc[i] = "clear"
  /\ ipc' = [ipc EXCEPT ![i] = "call"]
  /\ UNCHANGED <<handler, state, callback, alive, invoked, pipelineVars, tpc, taken, moved, raced,
                 failed>>

\* ... and set the handler's to nullptr.
InvokeClear(i) ==
  /\ failed = NULL
  /\ ipc[i] = "clear"
  /\ callback' = callback \ {Target(i)}
  /\ ipc' = [ipc EXCEPT ![i] = "call"]
  /\ UNCHANGED <<handler, state, alive, invoked, pipelineVars, tpc, taken, moved, raced, failed>>

\* Run the callback that was moved out, and return to whoever called Invoke.
InvokeCall(i) ==
  /\ failed = NULL
  /\ ipc[i] = "call"
  /\ Check("operator()", moved[i])
  /\ invoked' = [invoked EXCEPT ![Target(i)] = IF moved[i] THEN @ + 1 ELSE @]
  /\ ipc' = [ipc EXCEPT ![i] = "out"]
  /\ \/ /\ i = PIPELINE
        /\ step' = "running"
        /\ returned' = [returned EXCEPT ![current] = "executed"]
        /\ UNCHANGED tpc
     \/ /\ i \in Threads
        /\ tpc' = [tpc EXCEPT ![i] = "done"]
        /\ UNCHANGED <<step, returned>>
  /\ UNCHANGED <<handler, state, callback, alive, current, stored, taken, moved, raced>>

InvokeStep(i) == InvokeCheck(i) \/ InvokeMove(i) \/ InvokeClear(i) \/ InvokeCall(i)

-----------------------------------------------------------------------------

PipelineStep ==
  \/ InstallLoad
  \/ InstallCas
  \/ InstallUpdate
  \/ InstallReplace
  \/ InstallRefused
  \/ ExecuteIfTriggered
  \/ InvokeStep(PIPELINE)
  \/ UninstallCas
  \/ UninstallBack
  \/ UninstallWait

TriggerStep(t) == TriggerCheck(t) \/ TriggerUpdate(t) \/ InvokeStep(t)

Next ==
  \/ \E h \in Handlers : Install(h) \/ Uninstall(h)
  \/ PipelineStep
  \/ \E t \in Threads : Trigger(t) \/ TriggerStep(t)

Spec == Init /\ [][Next]_vars

\* A thread inside an operation keeps running; nobody has to start one.
Fairness == WF_vars(PipelineStep) /\ \A t \in Threads : WF_vars(TriggerStep(t))

FairSpec == Spec /\ Fairness

-----------------------------------------------------------------------------

TypeOK ==
  /\ handler \in Handlers \cup {PLACEHOLDER, NULL}
  /\ state \in [Handlers -> {"UNINSTALLED", "INSTALLED", "UNINSTALLING"}]
  /\ callback \in SUBSET Handlers
  /\ alive \in SUBSET Handlers
  /\ invoked \in [Handlers -> Nat]
  /\ step \in {"running", "install_load", "install_cas", "install_update", "install_replace",
               "install_failed", "invoke", "uninstall_cas", "uninstall_back", "uninstall_wait"}
  /\ current \in Handlers
  /\ stored \in Handlers \cup {PLACEHOLDER, NULL}
  /\ returned \in [Handlers -> {"nothing", "installed", "replaced", "refused", "executed"}]
  /\ tpc \in [Threads -> {"idle", "check", "update", "invoke", "done"}]
  /\ taken \in [Threads -> Handlers \cup {PLACEHOLDER, NULL}]
  /\ \A t \in Threads : tpc[t] \in {"check", "update", "invoke"} => taken[t] \in Handlers
  /\ ipc \in [Invokers -> {"out", "check", "move", "clear", "call"}]
  /\ moved \in [Invokers -> BOOLEAN]
  /\ raced \in SUBSET Handlers
  /\ failed \in Checks \cup {NULL}

\* A callback runs at most once, and Invoke never calls one that is gone, except
\* where InstallOrExecuteIfTriggered comes upon a trigger that has the handler and
\* has yet to take its callback: the CHECK and the move of Invoke are not atomic.
InvokedOnce ==
  /\ \A h \in Handlers \ raced : invoked[h] <= 1
  /\ failed = "operator()" => raced # {}

\* "CHECK(callback_)" and Callback's "assert(base_ != nullptr)", of any handler:
\* whoever calls the callback that it moved out is the only one.
InvokeMovesOnce == failed # "operator()" /\ \A h \in Handlers : invoked[h] <= 1

\* An interrupt is never lost: once it was triggered and the triggering threads
\* are done, every handler whose Install returned true and which was neither
\* replaced nor destructed had its callback run.
TriggerNotLost ==
  handler = NULL /\ failed = NULL /\ (\A t \in Threads : tpc[t] \in {"idle", "done"}) =>
    \A h \in alive : returned[h] = "installed" /\ ~(step # "running" /\ current = h)
                       => invoked[h] > 0

\* "Otherwise someone else "won" the compare-and-swap race and they are
\* responsible for setting us to UNINSTALLED": ~Handler returns once its handler
\* is out of handler_, unless Install was refused.
InstalledUninstallReturns ==
  step = "uninstall_wait" /\ handler # current /\ returned[current] # "refused"
    ~> step # "uninstall_wait" \/ failed # NULL

\* Trigger's CHECK_EQ(state, INSTALLED) and CHECK(state_.Update(...)): the
\* handler it takes out of handler_ is INSTALLED.
TriggerFindsInstalled == failed # "Trigger"

=============================================================================

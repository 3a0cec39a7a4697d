--------------------------- MODULE InterruptProofs ---------------------------
(***************************************************************************)
(* Proofs about Interrupt.tla, for any handlers and triggering threads: a  *)
(* callback is run at most once, but for a race that is made explicit, and *)
(* an interrupt is not lost.                                               *)
(***************************************************************************)
EXTENDS Interrupt, TLAPS

\* The interrupt is triggered once: one thread at most gets a handler, and from
\* then on handler_ is nullptr.
TriggeredOnce ==
  /\ handler # NULL => \A t \in Threads : tpc[t] = "idle" /\ taken[t] = NULL
  /\ \A t, u \in Threads : taken[t] \in Handlers /\ taken[u] \in Handlers => t = u

\* The program counters agree: who is inside Invoke got there from Trigger or from
\* InstallOrExecuteIfTriggered, the latter of a triggered interrupt.
InvokeInside ==
  /\ step = "invoke" <=> ipc[PIPELINE] # "out"
  /\ \A t \in Threads : tpc[t] = "invoke" <=> ipc[t] # "out"
  /\ step \in {"install_failed", "invoke"} => handler = NULL
  /\ step = "install_update" /\ stored = NULL => handler = NULL

\* Where no race was noted, the pipeline invokes a handler that no thread has.
InvokesAlone == step = "invoke" /\ current \notin raced => ~Held(current)

\* Somebody is in Invoke for the handler and has yet to empty the callback, or has
\* emptied it and has yet to call it.
Taking(i) == ipc[i] \in {"move", "clear"}
Calling(i) == ipc[i] = "call"

\* The callback of such a handler is there until the one who moved it out empties
\* it, who then calls it; it is called by no one else, and never again.
CallbackUsedUp ==
  \A h \in Handlers \ raced :
    /\ invoked[h] <= 1 /\ (h \in callback => invoked[h] = 0)
    /\ \A i \in Invokers : Target(i) = h /\ Taking(i) => h \in callback
    /\ \A i \in Invokers : Target(i) = h /\ Calling(i) => h \notin callback /\ invoked[h] = 0
    /\ \A i \in Invokers : Target(i) = h /\ ipc[i] \in {"clear", "call"} => moved[i]
    /\ \A i, j \in Invokers : Target(i) = h /\ Target(j) = h /\ Calling(i) /\ Calling(j) => i = j

\* A thread that called Trigger() has the handler and will run its callback.
TakenBy(h) == \E t \in Threads : taken[t] = h /\ tpc[t] \in {"check", "update", "invoke"}

\* The handler is in handler_, where the next Trigger() finds it, or on its way
\* to having its callback run, or has had it run.
Served(h) == handler = h \/ TakenBy(h) \/ invoked[h] > 0

\* A handler whose Install returned true, and was not replaced, is served until
\* ~Handler has withdrawn it.
InstalledServed ==
  \A h \in alive :
    returned[h] = "installed" /\ ~(step = "uninstall_wait" /\ current = h) => Served(h)

\* Once the compare-and-swap has succeeded the new handler is served, though its
\* Install has yet to update its state and to return; and what it swaps is never
\* nullptr.
InstallingServed ==
  /\ step = "install_cas" => stored # NULL
  /\ step = "install_update" /\ stored # NULL => Served(current)
  /\ step = "install_replace" => Served(current)

\* A CHECK that failed has ended the program.
IInv ==
  /\ TypeOK
  /\ TriggeredOnce
  /\ InvokedOnce
  /\ failed = NULL => /\ InvokeInside
                      /\ InvokesAlone
                      /\ CallbackUsedUp
                      /\ InstalledServed
                      /\ InstallingServed

-----------------------------------------------------------------------------
(* Every action preserves the types, and the parts that are about Invoke.  *)

LEMMA TypeStep ==
  ASSUME TypeOK, [Next]_vars
  PROVE  TypeOK'
<1> USE HandlerAssumption DEF Checks, Invokers, invokeVars
<1>1. ASSUME NEW h \in Handlers, Install(h) PROVE TypeOK'
  BY <1>1 DEF Install, Check, TypeOK
<1>2. ASSUME NEW h \in Handlers, Uninstall(h) PROVE TypeOK'
  BY <1>2 DEF Uninstall, TypeOK
<1>3. CASE InstallLoad
  BY <1>3 DEF InstallLoad, Check, TypeOK
<1>4. CASE InstallCas
  BY <1>4 DEF InstallCas, Check, TypeOK
<1>5. CASE InstallUpdate
  BY <1>5 DEF InstallUpdate, CheckedUpdate, Check, TypeOK
<1>6. CASE InstallReplace
  BY <1>6 DEF InstallReplace, TypeOK
<1>7. CASE InstallRefused
  BY <1>7 DEF InstallRefused, TypeOK
<1>8. CASE ExecuteIfTriggered
  BY <1>8 DEF ExecuteIfTriggered, Check, TypeOK
<1>9. CASE UninstallCas
  BY <1>9 DEF UninstallCas, CheckedUpdate, Check, TypeOK
<1>10. CASE UninstallBack
  BY <1>10 DEF UninstallBack, CheckedUpdate, Check, TypeOK
<1>11. CASE UninstallWait
  BY <1>11 DEF UninstallWait, TypeOK
<1>12. ASSUME NEW t \in Threads, Trigger(t) PROVE TypeOK'
  BY <1>12 DEF Trigger, pipelineVars, TypeOK
<1>13. ASSUME NEW t \in Threads, TriggerCheck(t) PROVE TypeOK'
  BY <1>13 DEF TriggerCheck, pipelineVars, Check, TypeOK
<1>14. ASSUME NEW t \in Threads, TriggerUpdate(t) PROVE TypeOK'
  BY <1>14 DEF TriggerUpdate, pipelineVars, CheckedUpdate, Check, TypeOK
<1>15. ASSUME NEW i \in Invokers, InvokeStep(i) PROVE TypeOK'
  <2>1. CASE InvokeCheck(i)
    BY <1>15, <2>1 DEF InvokeCheck, pipelineVars, Check, TypeOK
  <2>2. CASE InvokeMove(i)
    BY <1>15, <2>2 DEF InvokeMove, pipelineVars, TypeOK
  <2>3. CASE InvokeClear(i)
    BY <1>15, <2>3 DEF InvokeClear, pipelineVars, TypeOK
  <2>4. CASE InvokeCall(i)
    <3>1. invoked' \in [Handlers -> Nat]
      <4>1. invoked' \in {invoked, [invoked EXCEPT ![Target(i)] = @ + 1]}
        BY <2>4 DEF InvokeCall, TypeOK
      <4> HIDE DEF Target
      <4> QED BY <4>1 DEF TypeOK
    <3>2. step' \in {step, "running"} /\ tpc' \in {tpc, [tpc EXCEPT ![i] = "done"]}
          /\ returned' \in {returned, [returned EXCEPT ![current] = "executed"]}
      BY <2>4 DEF InvokeCall
    <3>3. /\ ipc' = [ipc EXCEPT ![i] = "out"] /\ failed' \in {failed, "operator()"}
          /\ UNCHANGED <<handler, state, callback, alive, current, stored, taken, moved, raced>>
      BY <2>4 DEF InvokeCall, Check
    <3> QED BY <1>15, <3>1, <3>2, <3>3 DEF TypeOK
  <2> QED BY <1>15, <2>1, <2>2, <2>3, <2>4 DEF InvokeStep
<1>16. CASE UNCHANGED vars
  BY <1>16 DEF vars, TypeOK
<1> QED BY <1>1, <1>2, <1>3, <1>4, <1>5, <1>6, <1>7, <1>8, <1>9, <1>10, <1>11, <1>12, <1>13,
           <1>14, <1>15, <1>16 DEF Next, PipelineStep, TriggerStep

\* The pipeline's steps outside Invoke, but for the one that enters it.
Outside ==
  \/ \E h \in Handlers : Install(h) \/ Uninstall(h)
  \/ InstallLoad \/ InstallCas \/ InstallUpdate \/ InstallReplace \/ InstallRefused
  \/ UninstallCas \/ UninstallBack \/ UninstallWait

\* Every step is one of these.
LEMMA Steps ==
  ASSUME [Next]_vars
  PROVE  \/ Outside
         \/ ExecuteIfTriggered
         \/ \E t \in Threads : Trigger(t) \/ TriggerCheck(t) \/ TriggerUpdate(t)
         \/ \E i \in Invokers : InvokeStep(i)
         \/ UNCHANGED vars
BY DEF Next, PipelineStep, TriggerStep, Outside, Invokers

\* What the pipeline leaves alone outside Invoke; and that the interrupt stays
\* triggered, or not triggered.
LEMMA OutsideStep ==
  ASSUME IInv, Outside
  PROVE  /\ UNCHANGED <<callback, invoked, tpc, taken, ipc, moved, raced>>
         /\ failed = NULL /\ failed' # "operator()" /\ step # "invoke" /\ step' # "invoke"
         /\ handler = NULL <=> handler' = NULL
<1> USE HandlerAssumption DEF IInv, TypeOK, InstallingServed, invokeVars, Check,
                              CheckedUpdate, Checks
<1>1. CASE \E h \in Handlers : Install(h) \/ Uninstall(h)
  BY <1>1 DEF Install, Uninstall
<1>2. CASE InstallLoad \/ InstallCas \/ InstallUpdate \/ InstallReplace \/ InstallRefused
  BY <1>2 DEF InstallLoad, InstallCas, InstallUpdate, InstallReplace, InstallRefused
<1>3. CASE UninstallCas \/ UninstallBack \/ UninstallWait
  BY <1>3 DEF UninstallCas, UninstallBack, UninstallWait
<1> QED BY <1>1, <1>2, <1>3 DEF Outside

-----------------------------------------------------------------------------
(* Every action preserves that the interrupt is triggered once, and that   *)
(* nobody but a noted race has a callback moved out twice.                 *)

LEMMA OnceStep ==
  ASSUME IInv, [Next]_vars
  PROVE  TriggeredOnce'
<1> USE HandlerAssumption DEF IInv, TypeOK, TriggeredOnce
<1>1. CASE Outside
  BY <1>1, OutsideStep
<1>2. CASE ExecuteIfTriggered
  BY <1>2 DEF ExecuteIfTriggered
<1>3. ASSUME NEW t \in Threads, Trigger(t) PROVE TriggeredOnce'
  BY <1>3 DEF Trigger
<1>4. ASSUME NEW t \in Threads, TriggerCheck(t) \/ TriggerUpdate(t) PROVE TriggeredOnce'
  BY <1>4 DEF TriggerCheck, TriggerUpdate
<1>5. ASSUME NEW i \in Invokers, InvokeStep(i) PROVE TriggeredOnce'
  <2>1. UNCHANGED <<handler, taken>>
    BY <1>5 DEF InvokeStep, InvokeCheck, InvokeMove, InvokeClear, InvokeCall
  <2>2. CASE UNCHANGED tpc
    BY <2>1, <2>2
  <2>3. CASE InvokeCall(i) /\ i \in Threads
    BY <2>1, <2>3 DEF InvokeCall, InvokeInside
  <2>4. UNCHANGED tpc \/ (InvokeCall(i) /\ i \in Threads)
    BY <1>5 DEF InvokeStep, InvokeCheck, InvokeMove, InvokeClear, InvokeCall
  <2> QED BY <2>2, <2>3, <2>4
<1>6. CASE UNCHANGED vars
  BY <1>6 DEF vars
<1> QED BY Steps, <1>1, <1>2, <1>3, <1>4, <1>5, <1>6

\* Install returns false only where the interrupt was triggered.
LEMMA RefusedStep ==
  ASSUME IInv, failed' = NULL, Outside,
         step' = "install_failed" \/ (step' = "install_update" /\ stored' = NULL)
  PROVE  handler' = NULL
<1>1. /\ failed = NULL /\ (step = "install_update" /\ stored = NULL => handler = NULL)
      /\ step = "install_cas" => stored # NULL
  BY OutsideStep DEF IInv, InvokeInside, InstallingServed
<1>2. CASE \E h \in Handlers : Install(h) \/ Uninstall(h)
  BY <1>2 DEF Install, Uninstall
<1>3. CASE InstallLoad
  BY <1>3 DEF InstallLoad
<1>4. CASE InstallCas
  BY <1>1, <1>4, HandlerAssumption DEF InstallCas, Check, Checks
<1>5. CASE InstallUpdate
  BY <1>1, <1>5 DEF InstallUpdate
<1>6. CASE InstallReplace \/ InstallRefused
  BY <1>6 DEF InstallReplace, InstallRefused
<1>7. CASE UninstallCas \/ UninstallBack \/ UninstallWait
  BY <1>7 DEF UninstallCas, UninstallBack, UninstallWait
<1> QED BY <1>2, <1>3, <1>4, <1>5, <1>6, <1>7 DEF Outside

LEMMA InsideStep ==
  ASSUME IInv, [Next]_vars, failed' = NULL
  PROVE  InvokeInside'
<1> USE HandlerAssumption DEF IInv, TypeOK, InvokeInside, Invokers, Checks
<1>1. CASE Outside
  <2>1. \/ step' = "install_failed"
        \/ step' = "install_update" /\ stored' = NULL
        => handler' = NULL
    BY <1>1, RefusedStep
  <2> QED BY <1>1, <2>1, OutsideStep
<1>2. CASE ExecuteIfTriggered
  BY <1>2 DEF ExecuteIfTriggered
<1>3. ASSUME NEW t \in Threads, Trigger(t) PROVE InvokeInside'
  BY <1>3 DEF Trigger, pipelineVars, invokeVars
<1>4. ASSUME NEW t \in Threads, TriggerCheck(t) PROVE InvokeInside'
  BY <1>4 DEF TriggerCheck, pipelineVars, invokeVars
<1>5. ASSUME NEW t \in Threads, TriggerUpdate(t) PROVE InvokeInside'
  BY <1>5 DEF TriggerUpdate, pipelineVars
<1>6. ASSUME NEW i \in Invokers, InvokeStep(i) PROVE InvokeInside'
  <2>1. CASE InvokeCheck(i) \/ InvokeMove(i) \/ InvokeClear(i)
    BY <1>6, <2>1 DEF InvokeCheck, InvokeMove, InvokeClear, pipelineVars
  <2>2. CASE InvokeCall(i)
    BY <1>6, <2>2 DEF InvokeCall
  <2> QED BY <1>6, <2>1, <2>2 DEF InvokeStep
<1>7. CASE UNCHANGED vars
  BY <1>7 DEF vars
<1> QED BY Steps, <1>1, <1>2, <1>3, <1>4, <1>5, <1>6, <1>7

LEMMA AloneStep ==
  ASSUME IInv, [Next]_vars, failed' = NULL
  PROVE  InvokesAlone'
<1> USE HandlerAssumption DEF IInv, TypeOK, InvokesAlone, Held, Invokers
<1>1. CASE Outside
  BY <1>1, OutsideStep
<1>2. CASE ExecuteIfTriggered
  BY <1>2 DEF ExecuteIfTriggered
<1>3. ASSUME NEW t \in Threads, Trigger(t) PROVE InvokesAlone'
  BY <1>3 DEF Trigger, pipelineVars, invokeVars, InvokeInside
<1>4. ASSUME NEW t \in Threads, TriggerCheck(t) PROVE InvokesAlone'
  BY <1>4 DEF TriggerCheck, pipelineVars, invokeVars
<1>5. ASSUME NEW t \in Threads, TriggerUpdate(t) PROVE InvokesAlone'
  BY <1>5 DEF TriggerUpdate, pipelineVars
<1>6. ASSUME NEW i \in Invokers, InvokeStep(i) PROVE InvokesAlone'
  <2>1. CASE InvokeCheck(i) \/ InvokeMove(i) \/ InvokeClear(i)
    BY <1>6, <2>1 DEF InvokeCheck, InvokeMove, InvokeClear, pipelineVars
  <2>2. CASE InvokeCall(i)
    BY <1>6, <2>2 DEF InvokeCall
  <2> QED BY <1>6, <2>1, <2>2 DEF InvokeStep
<1>7. CASE UNCHANGED vars
  BY <1>7 DEF vars
<1> QED BY Steps, <1>1, <1>2, <1>3, <1>4, <1>5, <1>6, <1>7

\* Who invokes a handler without a noted race, between the CHECK and the end of
\* the move, is the only one to do so: two threads do not get the same handler.
LEMMA TakesAlone ==
  ASSUME IInv, failed = NULL, NEW i \in Invokers, NEW j \in Invokers,
         Taking(i), Taking(j), Target(i) = Target(j), Target(i) \notin raced
  PROVE  i = j
<1> USE HandlerAssumption DEF IInv, TypeOK, Invokers, InvokeInside, InvokesAlone, Held, Taking
<1>1. ASSUME NEW t \in Threads, Taking(t), Taking(PIPELINE), Target(t) = Target(PIPELINE),
             Target(t) \notin raced
      PROVE  FALSE
  BY <1>1 DEF Target
<1>2. CASE i \in Threads /\ j \in Threads
  BY <1>2 DEF Target, TriggeredOnce
<1> QED BY <1>1, <1>2

\* Whoever is in Invoke has a handler.
LEMMA TargetIsHandler ==
  ASSUME IInv, failed = NULL, NEW i \in Invokers, ipc[i] # "out"
  PROVE  Target(i) \in Handlers
BY DEF IInv, TypeOK, InvokeInside, Invokers, Target

\* What a step of Invoke does to those who are in it.
LEMMA InvokeOthers ==
  ASSUME IInv, NEW i \in Invokers, InvokeStep(i)
  PROVE  /\ failed = NULL
         /\ UNCHANGED <<current, taken, raced, handler, state, alive, stored>>
         /\ \A j \in Invokers : Target(j)' = Target(j)
         /\ \A j \in Invokers : j # i => ipc'[j] = ipc[j] /\ moved'[j] = moved[j]
BY DEF IInv, TypeOK, InvokeStep, InvokeCheck, InvokeMove, InvokeClear, InvokeCall, pipelineVars,
       Target

LEMMA UsedUpInvoke ==
  ASSUME IInv, failed' = NULL, NEW i \in Invokers, InvokeStep(i)
  PROVE  CallbackUsedUp'
<1> USE HandlerAssumption, InvokeOthers DEF Checks
<1> SUFFICES ASSUME NEW h \in Handlers \ raced
             PROVE  /\ invoked'[h] <= 1 /\ (h \in callback' => invoked'[h] = 0)
                    /\ \A j \in Invokers : Target(j) = h /\ Taking(j)' => h \in callback'
                    /\ \A j \in Invokers : Target(j) = h /\ Calling(j)'
                                           => h \notin callback' /\ invoked'[h] = 0
                    /\ \A j \in Invokers : Target(j) = h /\ ipc'[j] \in {"clear", "call"}
                                           => moved'[j]
                    /\ \A j, k \in Invokers : Target(j) = h /\ Target(k) = h /\ Calling(j)'
                                              /\ Calling(k)' => j = k
  BY DEF CallbackUsedUp
<1>1. /\ invoked[h] <= 1 /\ (h \in callback => invoked[h] = 0)
      /\ \A j \in Invokers : Target(j) = h /\ Taking(j) => h \in callback
      /\ \A j \in Invokers : Target(j) = h /\ Calling(j) => h \notin callback /\ invoked[h] = 0
      /\ \A j \in Invokers : Target(j) = h /\ ipc[j] \in {"clear", "call"} => moved[j]
      /\ \A j, k \in Invokers : Target(j) = h /\ Target(k) = h /\ Calling(j) /\ Calling(k) => j = k
      /\ ipc \in [Invokers -> {"out", "check", "move", "clear", "call"}]
      /\ moved \in [Invokers -> BOOLEAN] /\ invoked \in [Handlers -> Nat]
  BY DEF IInv, TypeOK, CallbackUsedUp
<1>2. CASE InvokeCheck(i)
  BY <1>1, <1>2 DEF InvokeCheck, Check, Taking, Calling
<1>3. CASE InvokeMove(i)
  BY <1>1, <1>3 DEF InvokeMove, Taking, Calling
<1>4. CASE InvokeClear(i)
  <2>1. CASE Target(i) # h
    BY <1>1, <1>4, <2>1 DEF InvokeClear, Taking, Calling
  <2>2. CASE Target(i) = h
    <3>1. \A j \in Invokers : Target(j) = h /\ Taking(j) => j = i
      BY <1>4, <2>2, TakesAlone DEF InvokeClear, Taking
    <3> QED BY <1>1, <1>4, <2>2, <3>1 DEF InvokeClear, Taking, Calling
  <2> QED BY <2>1, <2>2
<1>5. CASE InvokeCall(i)
  <2>1. CASE Target(i) # h
    <3>1. invoked'[h] = invoked[h]
      BY <1>1, <1>5, <2>1 DEF InvokeCall
    <3> QED BY <1>1, <1>5, <2>1, <3>1 DEF InvokeCall, Taking, Calling
  <2>2. CASE Target(i) = h
    <3>1. h \notin callback /\ invoked[h] = 0 /\ moved[i]
      BY <1>1, <1>5, <2>2 DEF InvokeCall, Calling
    <3>2. invoked'[h] = 1
      BY <1>1, <1>5, <2>2, <3>1 DEF InvokeCall
    <3>3. \A j \in Invokers : Target(j) = h => ~Calling(j)' /\ ~Taking(j)'
      BY <1>1, <1>5, <2>2, <3>1 DEF InvokeCall, Calling, Taking
    <3>4. callback' = callback /\ moved' = moved
      BY <1>5 DEF InvokeCall
    <3> QED BY <1>1, <3>1, <3>2, <3>3, <3>4 DEF Calling, Taking
  <2> QED BY <2>1, <2>2
<1> QED BY <1>2, <1>3, <1>4, <1>5 DEF InvokeStep

\* Outside Invoke callbacks stay where they are.
LEMMA UsedUpStep ==
  ASSUME IInv, [Next]_vars, failed' = NULL
  PROVE  CallbackUsedUp'
<1> USE HandlerAssumption DEF Checks
<1>1. ASSUME NEW i \in Invokers, InvokeStep(i) PROVE CallbackUsedUp'
  BY <1>1, UsedUpInvoke
<1>2. ASSUME failed = NULL, UNCHANGED <<callback, invoked, moved>>, raced \subseteq raced',
             \A i \in Invokers : \/ ipc'[i] \in {"out", "check"}
                                 \/ ipc'[i] = ipc[i] /\ Target(i)' = Target(i)
      PROVE  CallbackUsedUp'
  <2>1. \A i \in Invokers : Taking(i)' \/ Calling(i)' => ipc'[i] = ipc[i] /\ Target(i)' = Target(i)
    BY <1>2 DEF Taking, Calling
  <2>2. \A i \in Invokers : ipc'[i] \in {"clear", "call"}
                           => ipc'[i] = ipc[i] /\ Target(i)' = Target(i)
    BY <1>2
  <2> QED BY <1>2, <2>1, <2>2 DEF IInv, CallbackUsedUp, Taking, Calling
<1>3. CASE Outside
  <2>1. /\ failed = NULL /\ ipc[PIPELINE] = "out" /\ PIPELINE \notin Threads
        /\ UNCHANGED <<callback, invoked, moved, ipc, taken, raced>>
    BY <1>3, OutsideStep DEF IInv, InvokeInside
  <2>2. \A i \in Invokers : ipc'[i] = "out" \/ Target(i)' = Target(i)
    BY <2>1 DEF Target
  <2>3. \A i \in Invokers : \/ ipc'[i] \in {"out", "check"}
                            \/ ipc'[i] = ipc[i] /\ Target(i)' = Target(i)
    BY <2>1, <2>2
  <2>4. UNCHANGED <<callback, invoked, moved>> /\ raced \subseteq raced'
    BY <2>1
  <2> QED BY <1>2, <2>1, <2>3, <2>4
<1>4. CASE ExecuteIfTriggered
  BY <1>2, <1>4 DEF ExecuteIfTriggered, IInv, TypeOK, Target
<1>5. ASSUME NEW t \in Threads, Trigger(t) PROVE CallbackUsedUp'
  <2>1. /\ failed = NULL /\ ipc[t] = "out" /\ taken' = [taken EXCEPT ![t] = handler]
        /\ UNCHANGED <<callback, invoked, moved, ipc, current, raced>>
    BY <1>5 DEF Trigger, pipelineVars, invokeVars, IInv, InvokeInside
  <2>2. \A i \in Invokers : i # t => taken'[i] = taken[i] \/ i = PIPELINE
    BY <2>1 DEF IInv, TypeOK, Invokers
  <2>3. \A i \in Invokers : ipc'[i] = "out" \/ Target(i)' = Target(i)
    BY <2>1, <2>2 DEF Target
  <2>4. \A i \in Invokers : \/ ipc'[i] \in {"out", "check"}
                            \/ ipc'[i] = ipc[i] /\ Target(i)' = Target(i)
    BY <2>1, <2>3
  <2>5. UNCHANGED <<callback, invoked, moved>> /\ raced \subseteq raced'
    BY <2>1
  <2> QED BY <1>2, <2>1, <2>4, <2>5
<1>6. ASSUME NEW t \in Threads, TriggerCheck(t) PROVE CallbackUsedUp'
  BY <1>2, <1>6 DEF TriggerCheck, pipelineVars, invokeVars, IInv, TypeOK, Target
<1>7. ASSUME NEW t \in Threads, TriggerUpdate(t) PROVE CallbackUsedUp'
  BY <1>2, <1>7 DEF TriggerUpdate, pipelineVars, IInv, TypeOK, Target
<1>8. CASE UNCHANGED vars
  BY <1>8 DEF vars, IInv, CallbackUsedUp, Taking, Calling, Target
<1> QED BY Steps, <1>1, <1>3, <1>4, <1>5, <1>6, <1>7, <1>8

\* Where a CHECK fails no callback runs, and it is that of Callback only for a
\* handler that was invoked in a noted race.
LEMMA InvokedOnceStep ==
  ASSUME IInv, [Next]_vars
  PROVE  InvokedOnce'
<1> USE HandlerAssumption DEF Checks
<1>1. CASE failed' = NULL
  BY <1>1, UsedUpStep DEF CallbackUsedUp, InvokedOnce
<1>2. CASE UNCHANGED invoked /\ raced \subseteq raced' /\ failed' # "operator()"
  BY <1>2 DEF IInv, InvokedOnce
<1>3. CASE UNCHANGED vars
  BY <1>3 DEF vars, IInv, InvokedOnce
<1>4. CASE Outside
  BY <1>2, <1>4, OutsideStep
<1>5. CASE ExecuteIfTriggered
  BY <1>2, <1>5 DEF ExecuteIfTriggered, Check
<1>6. ASSUME NEW t \in Threads, Trigger(t) \/ TriggerCheck(t) \/ TriggerUpdate(t) PROVE InvokedOnce'
  BY <1>2, <1>6 DEF Trigger, TriggerCheck, TriggerUpdate, CheckedUpdate, Check, invokeVars
<1>7. ASSUME NEW i \in Invokers, InvokeStep(i), failed' # NULL PROVE InvokedOnce'
  <2>1. CASE InvokeCheck(i) \/ InvokeMove(i) \/ InvokeClear(i)
    BY <1>2, <1>7, <2>1 DEF InvokeCheck, InvokeMove, InvokeClear, Check
  <2>2. CASE InvokeCall(i)
    <3>1. failed = NULL /\ ~moved[i] /\ raced' = raced /\ ipc[i] = "call"
      BY <1>7, <2>2 DEF InvokeCall, Check, IInv, TypeOK
    <3>2. Target(i) \in Handlers
      BY <3>1, TargetIsHandler
    <3>3. Target(i) \in raced
      BY <3>1, <3>2 DEF IInv, CallbackUsedUp
    <3>4. invoked' = invoked
      BY <2>2, <3>1, <3>2 DEF InvokeCall, IInv, TypeOK
    <3> QED BY <3>1, <3>3, <3>4 DEF IInv, InvokedOnce
  <2> QED BY <1>7, <2>1, <2>2 DEF InvokeStep
<1> QED BY Steps, <1>1, <1>3, <1>4, <1>5, <1>6, <1>7

-----------------------------------------------------------------------------
(* Every action preserves that handlers are served, unless a CHECK fails.  *)

\* A pipeline that sets about a handler moves none.
LEMMA InstallServed ==
  ASSUME IInv, NEW h \in Handlers, Install(h)
  PROVE  InstalledServed' /\ InstallingServed'
BY DEF IInv, TypeOK, Install, InstalledServed, InstallingServed, Served, TakenBy

LEMMA UninstallServed ==
  ASSUME IInv, NEW h \in Handlers, Uninstall(h)
  PROVE  InstalledServed' /\ InstallingServed'
BY DEF IInv, TypeOK, Uninstall, InstalledServed, InstallingServed, Served, TakenBy

\* The compare-and-swap takes handler_ from the handler that is replaced, which
\* is no longer to be served, and gives it to the current one.
LEMMA InstallServedStep ==
  ASSUME IInv, failed' = NULL,
         InstallLoad \/ InstallCas \/ InstallUpdate \/ InstallReplace \/ InstallRefused
  PROVE  InstalledServed' /\ InstallingServed'
<1> USE HandlerAssumption DEF IInv, TypeOK, InstalledServed, InstallingServed, Served, TakenBy,
                              Checks, InvokeInside
<1>1. CASE InstallLoad
  BY <1>1 DEF InstallLoad, Check
<1>2. CASE InstallCas
  BY <1>2 DEF InstallCas, Check
<1>3. CASE InstallUpdate
  BY <1>3 DEF InstallUpdate, CheckedUpdate, Check
<1>4. CASE InstallReplace
  BY <1>4 DEF InstallReplace
<1>5. CASE InstallRefused
  BY <1>5 DEF InstallRefused
<1> QED BY <1>1, <1>2, <1>3, <1>4, <1>5

\* InstallOrExecuteIfTriggered goes on to Invoke.
LEMMA ExecuteServed ==
  ASSUME IInv, failed' = NULL, ExecuteIfTriggered
  PROVE  InstalledServed' /\ InstallingServed'
BY HandlerAssumption DEF IInv, TypeOK, InstalledServed, InstallingServed, Served, TakenBy, Checks,
                         ExecuteIfTriggered, Check

\* ~Handler withdraws its handler and is then past serving it.
LEMMA UninstallServedStep ==
  ASSUME IInv, failed' = NULL, UninstallCas \/ UninstallBack \/ UninstallWait
  PROVE  InstalledServed' /\ InstallingServed'
<1> USE HandlerAssumption DEF IInv, TypeOK, InstalledServed, InstallingServed, Served, TakenBy,
                              Checks, InvokeInside
<1>1. CASE UninstallCas
  BY <1>1 DEF UninstallCas, CheckedUpdate, Check
<1>2. CASE UninstallBack
  BY <1>2 DEF UninstallBack, CheckedUpdate, Check
<1>3. CASE UninstallWait
  BY <1>3 DEF UninstallWait
<1> QED BY <1>1, <1>2, <1>3

\* A thread takes the handler out of handler_, and runs its callback.
LEMMA KeepsServed ==
  ASSUME IInv, failed = NULL, failed' = NULL, NEW h \in Handlers, Served(h),
         \/ \E t \in Threads : Trigger(t) \/ TriggerCheck(t) \/ TriggerUpdate(t)
         \/ \E i \in Invokers : InvokeStep(i)
  PROVE  Served(h)'
<1> USE HandlerAssumption DEF IInv, TypeOK, Served, TakenBy, Checks
<1>1. ASSUME NEW t \in Threads, Trigger(t) PROVE Served(h)'
  BY <1>1 DEF Trigger, TriggeredOnce
<1>2. ASSUME NEW t \in Threads, TriggerCheck(t) PROVE Served(h)'
  BY <1>2 DEF TriggerCheck, Check
<1>3. ASSUME NEW t \in Threads, TriggerUpdate(t) PROVE Served(h)'
  BY <1>3 DEF TriggerUpdate, CheckedUpdate, Check
<1>4. ASSUME NEW i \in Invokers, InvokeStep(i) PROVE Served(h)'
  <2>1. CASE InvokeCheck(i) \/ InvokeMove(i) \/ InvokeClear(i)
    BY <2>1 DEF InvokeCheck, InvokeMove, InvokeClear
  <2>2. CASE InvokeCall(i)
    <3>1. moved[i]
      BY <2>2 DEF InvokeCall, Check
    <3>2. \A g \in Handlers : invoked[g] > 0 => invoked'[g] > 0
      BY <2>2 DEF InvokeCall
    <3>3. CASE i \in Threads /\ taken[i] = h
      <4>1. Target(i) = h
        BY <3>3 DEF Target
      <4>2. invoked'[h] > 0
        BY <2>2, <3>1, <4>1 DEF InvokeCall
      <4> QED BY <4>2
    <3>4. CASE ~(i \in Threads /\ taken[i] = h)
      BY <2>2, <3>2, <3>4 DEF InvokeCall
    <3> QED BY <3>3, <3>4
  <2> QED BY <1>4, <2>1, <2>2 DEF InvokeStep
<1> QED BY <1>1, <1>2, <1>3, <1>4

LEMMA InvokeServed ==
  ASSUME IInv, failed = NULL, failed' = NULL,
         \/ \E t \in Threads : Trigger(t) \/ TriggerCheck(t) \/ TriggerUpdate(t)
         \/ \E i \in Invokers : InvokeStep(i)
  PROVE  InstalledServed' /\ InstallingServed'
<1>1. /\ UNCHANGED <<alive, current, stored>>
      /\ \/ UNCHANGED <<step, returned>>
         \/ /\ step = "invoke" /\ step' = "running"
            /\ returned' = [returned EXCEPT ![current] = "executed"]
  BY HandlerAssumption DEF Trigger, TriggerCheck, TriggerUpdate, InvokeStep, InvokeCheck,
       InvokeMove, InvokeClear, InvokeCall, pipelineVars, IInv, TypeOK, InvokeInside, Invokers
<1>2. \A h \in Handlers : Served(h) => Served(h)'
  BY KeepsServed
<1>3. alive \subseteq Handlers /\ current \in Handlers
      /\ returned \in [Handlers -> {"nothing", "installed", "replaced", "refused", "executed"}]
  BY DEF IInv, TypeOK
<1>4. InstalledServed'
  <2> SUFFICES ASSUME NEW h \in alive, returned'[h] = "installed",
                      ~(step' = "uninstall_wait" /\ current = h)
               PROVE  Served(h)'
    BY <1>1 DEF InstalledServed, Served, TakenBy
  <2>1. returned[h] = "installed" /\ ~(step = "uninstall_wait" /\ current = h)
    BY <1>1, <1>3
  <2> QED BY <1>2, <1>3, <2>1 DEF IInv, InstalledServed
<1>5. InstallingServed'
  <2>1. /\ step = "install_update" /\ stored # NULL => Served(current)'
        /\ step = "install_replace" => Served(current)'
    BY <1>1, <1>2, <1>3 DEF IInv, InstallingServed
  <2>2. Served(current)' <=> (handler' = current \/ TakenBy(current)' \/ invoked'[current] > 0)
    BY <1>1 DEF Served
  <2> QED BY <1>1, <2>1, <2>2 DEF InstallingServed, IInv
<1> QED BY <1>4, <1>5

-----------------------------------------------------------------------------

\* For any handlers and threads: the inductive invariant holds of every
\* execution of Interrupt::Install, Uninstall and Trigger.
THEOREM InterruptInvariant == Spec => []IInv
<1>1. Init => IInv
  <2> SUFFICES ASSUME Init PROVE IInv
    OBVIOUS
  <2> USE HandlerAssumption DEF Init
  <2>1. TypeOK
    BY DEF TypeOK
  <2>2. TriggeredOnce /\ InvokedOnce
    BY DEF TriggeredOnce, InvokedOnce, Checks
  <2>3. InvokeInside /\ InvokesAlone
    BY DEF InvokeInside, InvokesAlone, Invokers
  <2>4. CallbackUsedUp
    BY DEF CallbackUsedUp, Taking, Calling
  <2>5. InstalledServed /\ InstallingServed
    BY DEF InstalledServed, InstallingServed
  <2> QED BY <2>1, <2>2, <2>3, <2>4, <2>5 DEF IInv
<1>2. IInv /\ [Next]_vars => IInv'
  <2> SUFFICES ASSUME IInv, [Next]_vars PROVE IInv'
    OBVIOUS
  <2>1. TypeOK' /\ TriggeredOnce' /\ InvokedOnce'
    BY TypeStep, OnceStep, InvokedOnceStep DEF IInv
  <2>2. ASSUME failed' = NULL PROVE InvokeInside' /\ InvokesAlone' /\ CallbackUsedUp'
    BY <2>2, InsideStep, AloneStep, UsedUpStep
  <2>3. ASSUME failed' = NULL PROVE InstalledServed' /\ InstallingServed'
    <3>1. CASE \E h \in Handlers : Install(h) \/ Uninstall(h)
      BY <2>3, <3>1, InstallServed, UninstallServed
    <3>2. CASE InstallLoad \/ InstallCas \/ InstallUpdate \/ InstallReplace \/ InstallRefused
      BY <2>3, <3>2, InstallServedStep
    <3>3. CASE UninstallCas \/ UninstallBack \/ UninstallWait
      BY <2>3, <3>3, UninstallServedStep
    <3>4. CASE ExecuteIfTriggered
      BY <2>3, <3>4, ExecuteServed
    <3>5. CASE \/ \E t \in Threads : Trigger(t) \/ TriggerCheck(t) \/ TriggerUpdate(t)
               \/ \E i \in Invokers : InvokeStep(i)
      <4>1. failed = NULL
        BY <3>5 DEF Trigger, TriggerCheck, TriggerUpdate, InvokeStep, InvokeCheck, InvokeMove,
                    InvokeClear, InvokeCall
      <4> QED BY <2>3, <3>5, <4>1, InvokeServed
    <3>6. CASE UNCHANGED vars
      BY <2>3, <3>6 DEF vars, IInv, InstalledServed, InstallingServed, Served, TakenBy
    <3> QED BY Steps, <3>1, <3>2, <3>3, <3>4, <3>5, <3>6 DEF Outside
  <2> QED BY <2>1, <2>2, <2>3 DEF IInv
<1> QED BY <1>1, <1>2, PTL DEF Spec

\* For any handlers and threads: a callback runs at most once, and one that is gone
\* is never called, unless InstallOrExecuteIfTriggered comes upon a trigger that has
\* the handler and has yet to take its callback.
THEOREM InterruptInvokedOnce == Spec => []InvokedOnce
<1>1. IInv => InvokedOnce
  BY DEF IInv
<1> QED BY <1>1, InterruptInvariant, PTL

\* For any handlers and threads: once Trigger() is through, every handler that is
\* installed, alive and not being worked on had its callback run.
THEOREM InterruptTriggerNotLost == Spec => []TriggerNotLost
<1>1. IInv => TriggerNotLost
  BY HandlerAssumption DEF IInv, TypeOK, InstalledServed, Served, TakenBy, TriggerNotLost
<1> QED BY <1>1, InterruptInvariant, PTL

=============================================================================

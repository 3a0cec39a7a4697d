----------------------------- MODULE MCEventLoop -----------------------------
(* EventLoop with two operations, the first of which may be interrupted.   *)
EXTENDS EventLoop, TLC

CONSTANTS o1, o2

MCKinds ==
  {o1 :> "timer" @@ o2 :> "timer"}
    \union {o1 :> k @@ o2 :> "schedule" : k \in {"poll", "signal"}}

MCDuration == o1 :> 2 @@ o2 :> 1

=============================================================================

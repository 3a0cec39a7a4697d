------------------------ MODULE MCConditionVariable ------------------------
(* ConditionVariable.tla on a small instance: fibers are interchangeable. *)
EXTENDS ConditionVariable, TLC

FiberSymmetry == Permutations(Fibers)

=============================================================================

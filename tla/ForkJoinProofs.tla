--------------------------- MODULE ForkJoinProofs ---------------------------
(***************************************************************************)
(* Proofs about ForkJoin.tla, for any number of fibers: DoAll and ForkJoin *)
(* continue once, with the outcome of all fibers, and a fiber of DoAll     *)
(* that fails leaves none running without an interrupt.                    *)
(***************************************************************************)
EXTENDS ForkJoin, FiniteSetTheorems, WellFoundedInduction, TLAPS

TypeOK ==
  /\ variant \in {"DoAll", "ForkJoin"} /\ forks \in 1..MaxForks
  /\ starter \in [at : {"idle", "build", "submit", "done"}, index : 0..MaxForks]
  /\ starter.at \in {"build", "submit"} => starter.index \in 1..forks
  /\ built \in 0..forks
  /\ fiber \in [Fibers -> {"none", "running", "ended", "stored", "done"}]
  /\ result \in [Fibers -> {"none", "value", "error", "stop"}]
  /\ values \in [Fibers -> {"undefined", "value", "error", "stop"}]
  /\ triggered \in [Fibers -> BOOLEAN]
  /\ sweep \in [Callers -> [at : Nat, end : 0..MaxForks]]

\* What a fiber has left behind, by how far it is: only one that was built and
\* submitted has ended, and values_ holds what its terminal stored.
FiberResults ==
  \A i \in Fibers :
    /\ i > forks => fiber[i] = "none"
    /\ fiber[i] \in {"ended", "stored", "done"} <=> result[i] # "none"
    /\ values[i] = IF fiber[i] \in {"stored", "done"} THEN result[i] ELSE "undefined"

\* Nothing runs before fibers_ is built, and fibers are submitted in order.
NothingBuilt ==
  /\ built = 0 => \A i \in Fibers : fiber[i] = "none"
  /\ starter.at = "idle" => built = 0
  /\ starter.at = "submit" => built > 0
  /\ starter.at # "done" /\ built = 0 => out = <<>>
  /\ variant = "DoAll" /\ starter.at = "build" => starter.index = 1
  /\ starter.at \in {"build", "submit"} =>
       \A i \in Fibers : i >= starter.index => fiber[i] = "none"

NotDone == {i \in 1..forks : fiber[i] # "done"}

\* counter_ is the number of fibers that are not done, and the one that brings it
\* to zero is the one that continues.
Counted ==
  /\ counter = Cardinality(NotDone)
  /\ Len(out) <= 1
  /\ built > 0 => (out = <<>> <=> NotDone # {})

\* What GetStoppedOrErrorIfExists is to find among the first i values.
StoredAs(r, i) == {j \in 1..i : values[j] = r}

LastOf(S) == CHOOSE k \in S : \A j \in S : j <= k

Found(i) ==
  IF StoredAs("stop", i) # {} THEN Stopped
  ELSE IF StoredAs("error", i) # {} THEN <<"error", LastOf(StoredAs("error", i))>>
  ELSE Started

\* What was continued with is what all the values amount to.
Decided == built > 0 /\ out # <<>> => out[1] = Found(MaxForks)

\* A fiber of DoAll that failed or stopped finds all of them in fibers_, and has
\* interrupted the ones it has gone past.
SweepReachesAll ==
  variant = "DoAll" =>
    /\ built \in {0, forks}
    /\ \A i \in Fibers :
         fiber[i] = "done" /\ result[i] # "value" /\ NotDone # {} =>
           /\ sweep[i].at >= 1 /\ sweep[i].end = forks
           /\ \A j \in Fibers : j < sweep[i].at => triggered[j]

IInv == TypeOK /\ FiberResults /\ NothingBuilt /\ Counted /\ Decided /\ SweepReachesAll

-----------------------------------------------------------------------------
(* GetStoppedOrErrorIfExists.                                              *)

LEMMA LeastNat ==
  ASSUME NEW T, T \subseteq Nat, T # {}
  PROVE  \E x \in T : \A y \in T : x <= y
<1> DEFINE R == OpToRel(<, Nat)
<1>1. IsWellFoundedOn(R, Nat)
  BY NatLessThanWellFounded
<1> HIDE DEF R
<1>2. PICK x \in T : \A y \in T : ~(<<y, x>> \in R)
  BY <1>1, WFMin
<1>3. ASSUME NEW y \in T PROVE x <= y
  <2>1. ~(<<y, x>> \in R) /\ y \in Nat /\ x \in Nat
    BY <1>2
  <2>2. SUFFICES ~(y < x)
    BY <2>1
  <2> QED BY <2>1 DEF R, OpToRel
<1> QED BY <1>3

\* The next value replaces what was found in the first ones unless that is
\* Stopped.
LEMMA FoundStep ==
  ASSUME values \in [Fibers -> {"undefined", "value", "error", "stop"}], MaxForks \in Nat,
         NEW i \in 1..MaxForks
  PROVE  Found(i) = IF values[i] \in {"undefined", "value"} \/ Found(i - 1) = Stopped
                    THEN Found(i - 1)
                    ELSE IF values[i] = "stop" THEN Stopped ELSE <<"error", i>>
<1>1. \A r : StoredAs(r, i) = IF values[i] = r THEN StoredAs(r, i - 1) \cup {i}
                                               ELSE StoredAs(r, i - 1)
  BY DEF StoredAs
<1>2. \A k : Stopped # <<"error", k>>
  BY DEF Stopped
<1>3. Started # Stopped
  BY DEF Started, Stopped
<1>4. Found(i - 1) = Stopped <=> StoredAs("stop", i - 1) # {}
  BY <1>2, <1>3 DEF Found
<1>5. CASE values[i] \in {"undefined", "value"}
  <2>1. StoredAs("stop", i) = StoredAs("stop", i - 1) /\ StoredAs("error", i) = StoredAs("error", i - 1)
    BY <1>1, <1>5
  <2> QED BY <1>5, <2>1 DEF Found
<1>6. CASE values[i] = "stop"
  BY <1>1, <1>4, <1>6 DEF Found
<1>7. CASE values[i] = "error"
  <2>1. StoredAs("stop", i) = StoredAs("stop", i - 1) /\ i \in StoredAs("error", i)
    BY <1>1, <1>7
  <2>2. LastOf(StoredAs("error", i)) = i
    BY <2>1 DEF StoredAs, LastOf
  <2> QED BY <1>4, <1>7, <2>1, <2>2 DEF Found
<1> QED BY <1>5, <1>6, <1>7 DEF Fibers

\* For any number of fibers: going through the values in order, as
\* GetStoppedOrErrorIfExists does, finds Stop if any fiber stopped, else the last
\* error, else neither.
THEOREM StoppedOrErrorFinds ==
  ASSUME values \in [Fibers -> {"undefined", "value", "error", "stop"}], MaxForks \in Nat
  PROVE  Outcome = Found(MaxForks)
<1> DEFINE Step(f, i) ==
      IF i = 0 THEN Started
      ELSE IF values[i] \in {"undefined", "value"} \/ f[i - 1] = Stopped THEN f[i - 1]
           ELSE IF values[i] = "stop" THEN Stopped ELSE <<"error", i>>
<1> DEFINE F == [i \in 0..MaxForks |-> Found(i)]
<1>1. Found(0) = Started
  BY DEF Found, StoredAs
<1>2. \E f : f = [i \in 0..MaxForks |-> Step(f, i)]
  <2>1. ASSUME NEW i \in 0..MaxForks PROVE Found(i) = Step(F, i)
    <3>1. CASE i = 0
      BY <1>1, <3>1
    <3>2. CASE i # 0
      <4>1. i \in 1..MaxForks /\ i - 1 \in 0..MaxForks
        BY <3>2
      <4>2. F[i - 1] = Found(i - 1)
        BY <4>1
      <4> HIDE DEF F
      <4> QED BY <3>2, <4>1, <4>2, FoundStep
    <3> QED BY <3>1, <3>2
  <2>2. F = [i \in 0..MaxForks |-> Step(F, i)]
    BY <2>1
  <2> QED BY <2>2
<1>3. StoppedOrError = [i \in 0..MaxForks |-> Step(StoppedOrError, i)]
  <2>1. StoppedOrError = CHOOSE f : f = [i \in 0..MaxForks |-> Step(f, i)]
    BY DEF StoppedOrError
  <2> HIDE DEF Step
  <2> QED BY <1>2, <2>1
<1>4. \A i \in 0..MaxForks : StoppedOrError[i] = Found(i)
  <2> DEFINE T == {i \in 0..MaxForks : StoppedOrError[i] # Found(i)}
  <2> SUFFICES ASSUME T # {} PROVE FALSE
    OBVIOUS
  <2>1. PICK i \in T : \A j \in T : i <= j
    <3>1. T \subseteq Nat
      OBVIOUS
    <3> HIDE DEF T
    <3> QED BY <3>1, LeastNat
  <2>2. StoppedOrError[i] = Step(StoppedOrError, i)
    BY <1>3
  <2>3. i # 0
    BY <1>1, <2>1, <2>2
  <2>4. i \in 1..MaxForks /\ i - 1 \in 0..MaxForks /\ i - 1 \notin T
    BY <2>1, <2>3
  <2>5. StoppedOrError[i - 1] = Found(i - 1)
    BY <2>4
  <2>6. StoppedOrError[i] = Found(i)
    BY <2>2, <2>3, <2>4, <2>5, FoundStep
  <2> QED BY <2>1, <2>6
<1> QED BY <1>4 DEF Outcome

-----------------------------------------------------------------------------
(* Every action preserves the invariant.                                   *)

LEMMA InitInvariant ==
  ASSUME Init
  PROVE  IInv
<1>1. TypeOK /\ FiberResults /\ NothingBuilt /\ Decided /\ SweepReachesAll
  BY ForkJoinAssumption DEF Init, TypeOK, FiberResults, NothingBuilt, Decided, SweepReachesAll,
                            Fibers, Callers
<1>2. NotDone = 1..forks /\ forks \in Nat /\ counter = forks
  BY ForkJoinAssumption DEF Init, NotDone, Fibers
<1>3. Cardinality(1..forks) = forks
  BY <1>2, FS_Interval
<1>4. Counted
  BY <1>2, <1>3 DEF Counted, Init
<1> QED BY <1>1, <1>4 DEF IInv

\* What was found depends on the values only.
LEMMA FoundUnchanged ==
  ASSUME UNCHANGED values
  PROVE  Found(MaxForks)' = Found(MaxForks)
BY DEF Found, StoredAs

LEMMA Indices == 0 \in Callers /\ \A i \in Fibers : i \in Callers /\ i \in Nat /\ i # 0
BY ForkJoinAssumption DEF Callers, Fibers

\* Start and its steps, the interrupt and the sweeps leave the results and the
\* count alone.
LEMMA StartInvariant ==
  ASSUME IInv, Start \/ Refused \/ BuildAll \/ BuildOne
  PROVE  IInv'
<1> USE ForkJoinAssumption DEF IInv, TypeOK, At
<1>1. UNCHANGED <<variant, forks, fiberVars, triggered, sweep>> /\ UNCHANGED NotDone
  BY DEF Start, Refused, BuildAll, BuildOne, NotDone, fiberVars
<1>2. TypeOK' /\ FiberResults'
  BY <1>1 DEF Start, Refused, BuildAll, BuildOne, fiberVars, FiberResults
<1>3. NothingBuilt'
  BY <1>1 DEF Start, Refused, BuildAll, BuildOne, fiberVars, NothingBuilt, Fibers
<1>4. Counted'
  BY <1>1 DEF Start, Refused, BuildAll, BuildOne, fiberVars, Counted, NothingBuilt, NotDone, Fibers
<1>5. Decided'
  BY <1>1, FoundUnchanged DEF Start, Refused, BuildAll, BuildOne, fiberVars, Decided, NothingBuilt
<1>6. SweepReachesAll'
  BY <1>1 DEF Start, Refused, BuildAll, BuildOne, fiberVars, SweepReachesAll, NothingBuilt
<1> QED BY <1>2, <1>3, <1>4, <1>5, <1>6

\* The fiber that is submitted has not run.
LEMMA SubmitInvariant ==
  ASSUME IInv, Submit
  PROVE  IInv'
<1> USE ForkJoinAssumption DEF IInv, TypeOK, At, Submit
<1>1. fiber[starter.index] = "none" /\ starter.index \in 1..forks /\ starter.index \in Fibers
  BY DEF Fibers, NothingBuilt
<1>2. UNCHANGED NotDone
  BY <1>1 DEF NotDone, Fibers
<1>3. TypeOK'
  BY <1>1
<1>4. FiberResults' /\ NothingBuilt'
  BY <1>1 DEF FiberResults, NothingBuilt, Fibers
<1>5. Counted'
  BY <1>2 DEF Counted
<1>6. Decided'
  BY FoundUnchanged DEF Decided
<1>7. SweepReachesAll'
  BY <1>1, <1>2 DEF SweepReachesAll
<1> QED BY <1>3, <1>4, <1>5, <1>6, <1>7

LEMMA InterruptInvariant ==
  ASSUME IInv, Trigger \/ \E c \in Callers : Sweep(c)
  PROVE  IInv'
<1>1. UNCHANGED <<variant, forks, starter, built, fiber, result, values, counter, out>>
  BY DEF Trigger, Sweep, fiberVars, startVars
<1>2. UNCHANGED NotDone
  BY <1>1 DEF NotDone
<1>3. FiberResults' /\ NothingBuilt' /\ Counted' /\ Decided'
  BY <1>1, <1>2, FoundUnchanged DEF IInv, FiberResults, NothingBuilt, Counted, Decided
<1>4. CASE Trigger
  <2>1. UNCHANGED triggered /\ (UNCHANGED sweep \/ sweep' = [sweep EXCEPT ![0] = [at |-> 1, end |-> built]])
    BY <1>4 DEF Trigger
  <2>2. sweep \in [Callers -> [at : Nat, end : 0..MaxForks]]
    BY DEF IInv, TypeOK
  <2>3. built \in 0..MaxForks
    BY ForkJoinAssumption DEF IInv, TypeOK
  <2>4. sweep' \in [Callers -> [at : Nat, end : 0..MaxForks]]
    BY <2>1, <2>2, <2>3, Indices
  <2>5. TypeOK'
    BY <1>1, <2>1, <2>4 DEF IInv, TypeOK
  <2>6. \A i \in Fibers : sweep'[i] = sweep[i]
    BY <2>1, <2>2, Indices
  <2>7. SweepReachesAll'
    BY <1>1, <1>2, <2>1, <2>6 DEF IInv, SweepReachesAll
  <2> QED BY <1>3, <2>5, <2>7 DEF IInv
<1>5. ASSUME NEW c \in Callers, Sweep(c) PROVE TypeOK' /\ SweepReachesAll'
  <2>1. sweep \in [Callers -> [at : Nat, end : 0..MaxForks]] /\ triggered \in [Fibers -> BOOLEAN]
    BY DEF IInv, TypeOK
  <2>2. sweep[c].at \in Nat /\ sweep[c].end \in 0..MaxForks
    BY <2>1
  <2>3. sweep[c].at \in Fibers
    BY <1>5, <2>2, ForkJoinAssumption DEF Sweep, Sweeping, Fibers
  <2>4. /\ sweep' = [sweep EXCEPT ![c] = [at |-> sweep[c].at + 1, end |-> sweep[c].end]]
        /\ triggered' = [triggered EXCEPT ![sweep[c].at] = TRUE]
    <3>1. sweep[c] = [at |-> sweep[c].at, end |-> sweep[c].end]
      BY <2>1
    <3>2. [sweep[c] EXCEPT !.at = sweep[c].at + 1] = [at |-> sweep[c].at + 1, end |-> sweep[c].end]
      BY <3>1
    <3> QED BY <1>5, <3>2 DEF Sweep
  <2>5. sweep' \in [Callers -> [at : Nat, end : 0..MaxForks]] /\ triggered' \in [Fibers -> BOOLEAN]
    BY <2>1, <2>2, <2>3, <2>4
  <2>6. TypeOK'
    BY <1>1, <2>5 DEF IInv, TypeOK
  <2>7. \A i \in Fibers :
          sweep'[i].end = sweep[i].end
          /\ sweep'[i].at = IF i = c THEN sweep[i].at + 1 ELSE sweep[i].at
    BY <2>1, <2>4, Indices
  <2>8. \A j \in Fibers : triggered'[j] = IF j = sweep[c].at THEN TRUE ELSE triggered[j]
    BY <2>1, <2>3, <2>4
  <2>9. SweepReachesAll'
    <3> SUFFICES ASSUME variant = "DoAll", NEW i \in Fibers,
                        fiber[i] = "done", result[i] # "value", NotDone # {}
                 PROVE  /\ sweep'[i].at >= 1 /\ sweep'[i].end = forks
                        /\ \A j \in Fibers : j < sweep'[i].at => triggered'[j]
      BY <1>1, <1>2 DEF SweepReachesAll, IInv
    <3>1. /\ sweep[i].at >= 1 /\ sweep[i].end = forks
          /\ \A j \in Fibers : j < sweep[i].at => triggered[j]
      BY DEF IInv, SweepReachesAll
    <3>2. sweep[i].at \in Nat
      BY <2>1, Indices
    <3>3. sweep'[i].end = forks /\ sweep'[i].at >= 1
      BY <2>7, <3>1, <3>2
    <3>4. ASSUME NEW j \in Fibers, j < sweep'[i].at PROVE triggered'[j]
      <4>1. j \in Nat /\ triggered[j] \in BOOLEAN
        BY <2>1, Indices
      <4>2. CASE i = c
        <5>1. j < sweep[i].at \/ j = sweep[c].at
          BY <2>7, <3>2, <3>4, <4>1, <4>2
        <5> QED BY <2>8, <3>1, <5>1
      <4>3. CASE i # c
        BY <2>7, <2>8, <3>1, <3>4, <4>3
      <4> QED BY <4>2, <4>3
    <3> QED BY <3>3, <3>4
  <2> QED BY <2>6, <2>9
<1> QED BY <1>3, <1>4, <1>5 DEF IInv

LEMMA EndInvariant ==
  ASSUME IInv, NEW i \in Fibers, End(i)
  PROVE  IInv'
<1> USE ForkJoinAssumption DEF IInv, TypeOK, End, startVars
<1>1. UNCHANGED NotDone
  BY DEF NotDone, Fibers
<1>2. TypeOK'
  BY DEF Fibers
<1>3. FiberResults'
  <2>1. PICK r \in {"value", "error", "stop"} : result' = [result EXCEPT ![i] = r]
    OBVIOUS
  <2> QED BY <2>1 DEF FiberResults
<1>4. NothingBuilt' /\ Counted' /\ Decided'
  BY <1>1, FoundUnchanged DEF NothingBuilt, Counted, Decided
<1>5. SweepReachesAll'
  BY <1>1 DEF SweepReachesAll
<1> QED BY <1>2, <1>3, <1>4, <1>5

\* Storing changes what the values amount to, but before anything was decided.
LEMMA StoreInvariant ==
  ASSUME IInv, NEW i \in Fibers, Store(i)
  PROVE  IInv'
<1> USE ForkJoinAssumption DEF IInv, TypeOK, Store, startVars
<1>1. UNCHANGED NotDone /\ i \in NotDone /\ built > 0
  BY DEF NotDone, Fibers, FiberResults, NothingBuilt
<1>2. TypeOK' /\ FiberResults'
  <2>1. result[i] \in {"value", "error", "stop"}
    BY DEF FiberResults
  <2> QED BY <2>1 DEF FiberResults
<1>3. NothingBuilt' /\ Counted' /\ Decided'
  BY <1>1 DEF NothingBuilt, Counted, Decided
<1>4. SweepReachesAll'
  BY <1>1 DEF SweepReachesAll
<1> QED BY <1>2, <1>3, <1>4

\* The fiber that counts down to zero is the last that is not done.
LEMMA CountInvariant ==
  ASSUME IInv, NEW i \in Fibers, Count(i)
  PROVE  IInv'
<1> USE ForkJoinAssumption DEF IInv, TypeOK, Count, startVars
<1>1. /\ i \in NotDone /\ NotDone' = NotDone \ {i} /\ NotDone \subseteq 1..MaxForks
      /\ built > 0 /\ out = <<>>
  <2>1. i \in 1..forks /\ built > 0
    BY DEF Fibers, FiberResults, NothingBuilt
  <2>2. i \in NotDone /\ NotDone' = NotDone \ {i} /\ NotDone \subseteq 1..MaxForks
    BY <2>1 DEF NotDone, Fibers
  <2>3. out = <<>>
    BY <2>1, <2>2 DEF Counted
  <2> QED BY <2>1, <2>2, <2>3
<1>2. IsFiniteSet(NotDone)
  <2>1. IsFiniteSet(1..MaxForks)
    BY FS_Interval
  <2> QED BY <1>1, <2>1, FS_Subset
<1>3. Cardinality(NotDone \ {i}) = Cardinality(NotDone) - 1
  BY <1>1, <1>2, FS_RemoveElement
<1>4. counter = 1 <=> NotDone' = {}
  <2>1. IsFiniteSet(NotDone \ {i}) /\ Cardinality(NotDone) \in Nat
    BY <1>2, FS_RemoveElement, FS_CardinalityType
  <2>2. Cardinality(NotDone \ {i}) = 0 <=> NotDone \ {i} = {}
    BY <2>1, FS_EmptySet
  <2> QED BY <1>1, <1>3, <2>1, <2>2 DEF Counted
<1>5. TypeOK'
  <2>1. built \in 0..MaxForks /\ i \in Callers
    BY Indices
  <2>2. sweep' \in [Callers -> [at : Nat, end : 0..MaxForks]]
    <3>1. UNCHANGED sweep \/ sweep' = [sweep EXCEPT ![i] = [at |-> 1, end |-> built]]
      OBVIOUS
    <3>2. sweep \in [Callers -> [at : Nat, end : 0..MaxForks]]
      OBVIOUS
    <3> HIDE DEF IInv, TypeOK, Count
    <3> QED BY <2>1, <3>1, <3>2
  <2>3. fiber' \in [Fibers -> {"none", "running", "ended", "stored", "done"}]
    OBVIOUS
  <2> QED BY <2>2, <2>3
<1>6. FiberResults' /\ NothingBuilt'
  BY <1>1 DEF FiberResults, NothingBuilt
<1>7. Counted'
  <2>1. counter' = Cardinality(NotDone')
    BY <1>1, <1>3 DEF Counted
  <2>2. out' = IF counter = 1 THEN <<Outcome>> ELSE <<>>
    BY <1>1
  <2> HIDE DEF Count, IInv, TypeOK
  <2> QED BY <1>4, <2>1, <2>2 DEF Counted
<1>8. Decided'
  BY <1>1, FoundUnchanged, StoppedOrErrorFinds DEF Decided
<1>9. SweepReachesAll'
  <2> SUFFICES ASSUME variant = "DoAll", NEW k \in Fibers, NotDone' # {},
                      fiber'[k] = "done", result'[k] # "value"
               PROVE  /\ sweep'[k].at >= 1 /\ sweep'[k].end = forks
                      /\ \A j \in Fibers : j < sweep'[k].at => triggered[j]
    BY DEF SweepReachesAll
  <2>1. counter # 1 /\ NotDone # {} /\ built = forks
    <3>1. built \in {0, forks} /\ built \in Nat
      BY DEF SweepReachesAll
    <3>2. built = forks
      BY <1>1, <3>1
    <3>3. counter # 1 /\ NotDone # {}
      BY <1>1, <1>4
    <3> QED BY <3>2, <3>3
  <2>2. CASE k = i
    <3>1. sweep'[k] = [at |-> 1, end |-> built]
      BY <2>1, <2>2, Indices
    <3>2. \A j \in Fibers : ~(j < 1)
      BY DEF Fibers
    <3> QED BY <2>1, <3>1, <3>2
  <2>3. CASE k # i
    <3>1. sweep'[k] = sweep[k] /\ fiber[k] = "done"
      BY <2>3, Indices
    <3> QED BY <2>1, <3>1 DEF SweepReachesAll
  <2> QED BY <2>2, <2>3
<1> QED BY <1>5, <1>6, <1>7, <1>8, <1>9

-----------------------------------------------------------------------------

\* For any number of fibers: the inductive invariant holds of every execution of
\* DoAll and of ForkJoin.
THEOREM ForkJoinInvariant == Spec => []IInv
<1>1. Init => IInv
  BY InitInvariant
<1>2. IInv /\ [Next]_vars => IInv'
  <2> SUFFICES ASSUME IInv, [Next]_vars PROVE IInv'
    OBVIOUS
  <2>1. CASE Next
    BY <2>1, StartInvariant, SubmitInvariant, InterruptInvariant, EndInvariant, StoreInvariant,
       CountInvariant DEF Next, StartStep, TerminalStep
  <2>2. CASE UNCHANGED vars
    <3>1. UNCHANGED NotDone /\ UNCHANGED Found(MaxForks)
      BY <2>2, FoundUnchanged DEF vars, startVars, fiberVars, NotDone
    <3> QED BY <2>2, <3>1 DEF vars, startVars, fiberVars, IInv, TypeOK, FiberResults, NothingBuilt,
                              Counted, Decided, SweepReachesAll
  <2> QED BY <2>1, <2>2
<1> QED BY <1>1, <1>2, PTL DEF Spec

\* For any number of fibers: downstream is continued once, when all fibers are
\* done, with Stop if any stopped, else the last failure in order, else the
\* values (counter_ and GetStoppedOrErrorIfExists).
THEOREM ForkJoinOutcomeOfAll == Spec => []OutcomeOfAll
<1>1. IInv => OutcomeOfAll
  <2> SUFFICES ASSUME IInv, out # <<>>, built > 0
               PROVE  /\ \A i \in 1..forks : fiber[i] = "done"
                      /\ out[1] = IF EndedWith("stop") # {} THEN Stopped
                                  ELSE IF EndedWith("error") # {}
                                  THEN <<"error", CHOOSE i \in EndedWith("error") :
                                                    \A j \in EndedWith("error") : j <= i>>
                                  ELSE Started
    BY DEF OutcomeOfAll, IInv, Counted
  <2> USE ForkJoinAssumption DEF IInv, TypeOK
  <2>1. \A i \in 1..forks : fiber[i] = "done"
    BY DEF Counted, NotDone
  <2>2. \A i \in Fibers : values[i] = IF i <= forks THEN result[i] ELSE "undefined"
    BY <2>1 DEF FiberResults, Fibers
  <2>3. EndedWith("stop") = StoredAs("stop", MaxForks) /\ EndedWith("error") = StoredAs("error", MaxForks)
    BY <2>2 DEF EndedWith, StoredAs, Fibers
  <2>4. out[1] = Found(MaxForks)
    BY DEF Decided
  <2> HIDE DEF IInv, TypeOK
  <2>5. out[1] = IF EndedWith("stop") # {} THEN Stopped
                 ELSE IF EndedWith("error") # {} THEN <<"error", LastOf(EndedWith("error"))>>
                 ELSE Started
    BY <2>3, <2>4 DEF Found
  <2> QED BY <2>1, <2>5, Zenon DEF LastOf
<1> QED BY <1>1, ForkJoinInvariant, PTL

\* For any number of fibers: once a fiber of DoAll that failed or stopped has gone
\* through the others, each of them that runs has been interrupted.  ForkJoin, which
\* submits fibers before it has built them all, does not have this property.
THEOREM DoAllRemainingInterrupted == Spec => [](variant = "DoAll" => RemainingInterrupted)
<1>1. IInv => (variant = "DoAll" => RemainingInterrupted)
  <2> SUFFICES ASSUME IInv, variant = "DoAll", NEW i \in 1..forks, fiber[i] = "done",
                      result[i] # "value", ~Sweeping(i), NEW j \in 1..forks, fiber[j] = "running"
               PROVE  triggered[j]
    BY DEF RemainingInterrupted
  <2>1. i \in Fibers /\ j \in Fibers /\ j \in NotDone /\ forks \in Nat
    BY ForkJoinAssumption DEF IInv, TypeOK, Fibers, NotDone
  <2>2. /\ sweep[i].at >= 1 /\ sweep[i].end = forks
        /\ j < sweep[i].at => triggered[j]
    BY <2>1 DEF IInv, SweepReachesAll
  <2>3. sweep[i].at \in Nat
    BY <2>1, Indices DEF IInv, TypeOK
  <2> QED BY <2>1, <2>2, <2>3 DEF Sweeping
<1> QED BY <1>1, ForkJoinInvariant, PTL

=============================================================================

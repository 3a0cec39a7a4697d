----------------------- MODULE StaticThreadPoolProofs -----------------------
(***************************************************************************)
(* Proofs about StaticThreadPool.tla, for any number of cpus, contexts and *)
(* submissions: waiters are resumed in the order of their submission, and  *)
(* a context that is queued or run is not destructed.                      *)
(***************************************************************************)
EXTENDS StaticThreadPool, SequenceTheorems, FiniteSetTheorems, TLAPS

In(s) == {s[i] : i \in DOMAIN s}

NoDuplicates(s) == \A i, j \in DOMAIN s : s[i] = s[j] => i = j

\* How often c is in s.
Occurrences(s, c) == Cardinality({i \in DOMAIN s : s[i] = c})

\* The frames of a stack under the current one.
Under(s) == SubSeq(s, 1, Len(s) - 1)

\* A context is in the list of its own cpu, once, and has not run since it was
\* submitted.
ListedQueued ==
  \A cpu \in Cpus :
    /\ NoDuplicates(list[cpu])
    /\ \A c \in In(list[cpu]) : pinned[c] = cpu /\ fiber[c] = "queued"

\* The context a worker has taken is in no list any more, and has yet to run.
TakenQueued ==
  \A cpu \in Cpus : worker[cpu] \in {"unblock", "switch"} =>
    /\ popped[cpu] \in Contexts /\ popped[cpu] \notin In(list[cpu])
    /\ pinned[popped[cpu]] = cpu /\ fiber[popped[cpu]] = "queued"

\* A worker runs contexts of its cpu, and only in a callback.
RunsItsOwn ==
  \A cpu \in Cpus :
    /\ worker[cpu] = "run" <=> stack[cpu] # <<>>
    /\ \A c \in In(stack[cpu]) : pinned[c] = cpu

\* Who borrows a context: its waiter, from the time it is submitted until it
\* runs, and every frame of the worker's stack that runs it.
BorrowsCounted ==
  \A c \in Contexts :
    borrows[c] = (IF fiber[c] \in {"submitting", "queued"} THEN 1 ELSE 0)
                   + Occurrences(stack[pinned[c]], c)

\* A borrowed context is not destructed.
BorrowedAlive == \A c \in Contexts : borrows[c] > 0 => c \in alive

IInv ==
  /\ TypeOK
  /\ ResumedInOrder
  /\ ListedQueued
  /\ TakenQueued
  /\ RunsItsOwn
  /\ BorrowsCounted
  /\ BorrowedAlive

-----------------------------------------------------------------------------
(* Lists.                                                                  *)

\* Taking the oldest of a list without duplicates takes it off the list.
LEMMA TailIn ==
  ASSUME NEW S, NEW s \in Seq(S), s # <<>>,
         NoDuplicates(s)
  PROVE  /\ Tail(s) \in Seq(S) /\ Head(s) \in S
         /\ In(Tail(s)) = In(s) \ {Head(s)}
         /\ Head(s) \in In(s)
         /\ NoDuplicates(Tail(s))
<1>1. /\ Len(s) \in Nat /\ Len(s) > 0 /\ DOMAIN s = 1..Len(s) /\ Head(s) = s[1]
  BY EmptySeq, LenProperties
<1>2. /\ Tail(s) \in Seq(S) /\ Head(s) \in S /\ Len(Tail(s)) = Len(s) - 1
      /\ \A i \in 1..Len(Tail(s)) : Tail(s)[i] = s[i + 1]
  BY HeadTailProperties
<1>3. DOMAIN Tail(s) = 1..(Len(s) - 1)
  BY <1>2, LenProperties
<1>4. In(Tail(s)) = In(s) \ {Head(s)}
  <2>1. ASSUME NEW x \in In(Tail(s)) PROVE x \in In(s) \ {Head(s)}
    <3>1. PICK i \in 1..(Len(s) - 1) : x = s[i + 1]
      BY <1>2, <1>3 DEF In
    <3>2. i + 1 \in 1..Len(s) /\ i + 1 # 1
      BY <1>1
    <3> QED BY <1>1, <3>1, <3>2 DEF In, NoDuplicates
  <2>2. ASSUME NEW x \in In(s) \ {Head(s)} PROVE x \in In(Tail(s))
    <3>1. PICK i \in 1..Len(s) : x = s[i] /\ i # 1
      BY <1>1 DEF In
    <3>2. i - 1 \in 1..(Len(s) - 1) /\ (i - 1) + 1 = i
      BY <1>1, <3>1
    <3> QED BY <1>2, <1>3, <3>1, <3>2 DEF In
  <2> QED BY <2>1, <2>2
<1>5. Head(s) \in In(s)
  BY <1>1 DEF In
<1>6. ASSUME NEW i \in DOMAIN Tail(s), NEW j \in DOMAIN Tail(s), Tail(s)[i] = Tail(s)[j]
      PROVE  i = j
  <2>1. i \in Nat /\ j \in Nat /\ i + 1 \in 1..Len(s) /\ j + 1 \in 1..Len(s)
    BY <1>1, <1>3
  <2>2. s[i + 1] = s[j + 1]
    BY <1>2, <1>3, <1>6
  <2>3. i + 1 = j + 1
    BY <1>1, <2>1, <2>2 DEF NoDuplicates
  <2> QED BY <2>1, <2>3
<1> QED BY <1>2, <1>4, <1>5, <1>6 DEF NoDuplicates

\* A context that is not in a list is put at its end.
LEMMA AppendIn ==
  ASSUME NEW S, NEW s \in Seq(S), NEW e \in S
  PROVE  /\ Append(s, e) \in Seq(S)
         /\ In(Append(s, e)) = In(s) \cup {e}
         /\ NoDuplicates(s) /\ e \notin In(s) => NoDuplicates(Append(s, e))
<1>1. /\ Append(s, e) \in Seq(S)
      /\ Len(s) \in Nat /\ DOMAIN s = 1..Len(s) /\ DOMAIN Append(s, e) = 1..(Len(s) + 1)
      /\ \A i \in 1..Len(s) : Append(s, e)[i] = s[i]
      /\ Append(s, e)[Len(s) + 1] = e
  BY AppendProperties, LenProperties
<1>2. In(Append(s, e)) = In(s) \cup {e}
  <2>1. ASSUME NEW x \in In(Append(s, e)) PROVE x \in In(s) \cup {e}
    <3>1. PICK i \in 1..(Len(s) + 1) : x = Append(s, e)[i]
      BY <1>1 DEF In
    <3>2. i \in 1..Len(s) \/ i = Len(s) + 1
      BY <1>1
    <3> QED BY <1>1, <3>1, <3>2 DEF In
  <2>2. ASSUME NEW x \in In(s) PROVE x \in In(Append(s, e))
    <3>1. PICK i \in 1..Len(s) : x = s[i]
      BY <1>1 DEF In
    <3>2. i \in 1..(Len(s) + 1)
      BY <1>1
    <3> QED BY <1>1, <3>1, <3>2 DEF In
  <2>3. e \in In(Append(s, e))
    <3>1. Len(s) + 1 \in DOMAIN Append(s, e)
      BY <1>1
    <3> QED BY <1>1, <3>1 DEF In
  <2> QED BY <2>1, <2>2, <2>3
<1>3. ASSUME NoDuplicates(s), e \notin In(s),
             NEW i \in DOMAIN Append(s, e), NEW j \in DOMAIN Append(s, e),
             Append(s, e)[i] = Append(s, e)[j]
      PROVE  i = j
  <2>1. /\ i \in 1..Len(s) \/ i = Len(s) + 1
        /\ j \in 1..Len(s) \/ j = Len(s) + 1
    BY <1>1
  <2>2. \A k \in 1..Len(s) : s[k] # e
    BY <1>1, <1>3 DEF In
  <2> QED BY <1>1, <1>3, <2>1, <2>2 DEF NoDuplicates
<1> QED BY <1>1, <1>2, <1>3 DEF NoDuplicates

\* A waiter that is pushed goes to the end of what is to be resumed.
LEMMA ConcatAppend ==
  ASSUME NEW S, NEW s \in Seq(S), NEW t \in Seq(S), NEW e \in S
  PROVE  s \o Append(t, e) = Append(s \o t, e)
<1>1. /\ Append(t, e) = t \o <<e>> /\ <<e>> \in Seq(S)
      /\ s \o t \in Seq(S)
  BY AppendIsConcat, ConcatProperties
<1>2. Append(s \o t, e) = (s \o t) \o <<e>>
  BY <1>1, AppendIsConcat
<1> QED BY <1>1, <1>2, ConcatAssociative

\* A waiter that is taken moves from the one side to the other.
LEMMA MoveHead ==
  ASSUME NEW S, NEW s \in Seq(S), NEW t \in Seq(S), t # <<>>
  PROVE  Append(s, Head(t)) \o Tail(t) = s \o t
<1>1. /\ Head(t) \in S /\ Tail(t) \in Seq(S) /\ <<Head(t)>> \in Seq(S)
  BY HeadTailProperties
<1>2. t = <<Head(t)>> \o Tail(t)
  <2>1. /\ Len(t) \in Nat \ {0} /\ Head(t) = t[1]
        /\ Len(Tail(t)) = Len(t) - 1
        /\ \A i \in 1..(Len(t) - 1) : Tail(t)[i] = t[i + 1]
    BY EmptySeq, HeadTailProperties
  <2>2. /\ <<Head(t)>> \o Tail(t) \in Seq(S)
        /\ Len(<<Head(t)>> \o Tail(t)) = Len(t)
        /\ \A i \in 1..Len(t) : (<<Head(t)>> \o Tail(t))[i] = IF i <= 1 THEN t[1] ELSE Tail(t)[i - 1]
    BY <1>1, <2>1, ConcatProperties
  <2>3. ASSUME NEW i \in 1..Len(t) PROVE (<<Head(t)>> \o Tail(t))[i] = t[i]
    <3>1. CASE i = 1
      BY <2>2, <3>1
    <3>2. CASE i # 1
      <4>1. i - 1 \in 1..(Len(t) - 1) /\ (i - 1) + 1 = i /\ ~(i <= 1)
        BY <2>1, <3>2
      <4> QED BY <2>1, <2>2, <4>1
    <3> QED BY <3>1, <3>2
  <2> QED BY <2>2, <2>3, SeqEqual
<1>3. Append(s, Head(t)) = s \o <<Head(t)>>
  BY <1>1, AppendIsConcat
<1>4. (s \o <<Head(t)>>) \o Tail(t) = s \o (<<Head(t)>> \o Tail(t))
  BY <1>1, ConcatAssociative
<1> QED BY <1>2, <1>3, <1>4

LEMMA OccurrencesFinite ==
  ASSUME NEW S, NEW s \in Seq(S), NEW c
  PROVE  /\ IsFiniteSet({i \in DOMAIN s : s[i] = c})
         /\ Occurrences(s, c) \in Nat
         /\ c \in In(s) <=> Occurrences(s, c) > 0
<1>1. IsFiniteSet(DOMAIN s)
  BY LenProperties, FS_Interval
<1>2. IsFiniteSet({i \in DOMAIN s : s[i] = c})
  BY <1>1, FS_Subset
<1>3. Occurrences(s, c) \in Nat
  BY <1>2, FS_CardinalityType DEF Occurrences
<1>4. Occurrences(s, c) = 0 <=> {i \in DOMAIN s : s[i] = c} = {}
  BY <1>2, FS_EmptySet DEF Occurrences
<1>5. c \in In(s) <=> {i \in DOMAIN s : s[i] = c} # {}
  BY DEF In
<1> QED BY <1>2, <1>3, <1>4, <1>5

LEMMA OccurrencesAppend ==
  ASSUME NEW S, NEW s \in Seq(S), NEW e \in S, NEW c
  PROVE  Occurrences(Append(s, e), c) = Occurrences(s, c) + (IF e = c THEN 1 ELSE 0)
<1> DEFINE Old == {i \in DOMAIN s : s[i] = c}
           New == {i \in DOMAIN Append(s, e) : Append(s, e)[i] = c}
<1>1. /\ Len(s) \in Nat /\ DOMAIN s = 1..Len(s) /\ DOMAIN Append(s, e) = 1..(Len(s) + 1)
      /\ \A i \in 1..Len(s) : Append(s, e)[i] = s[i]
      /\ Append(s, e)[Len(s) + 1] = e
  BY AppendProperties, LenProperties
<1>2. New = IF e = c THEN Old \cup {Len(s) + 1} ELSE Old
  BY <1>1
<1>3. Len(s) + 1 \notin Old
  BY <1>1
<1>4. IsFiniteSet(Old) /\ Cardinality(Old) \in Nat
  BY OccurrencesFinite DEF Occurrences
<1> HIDE DEF Old, New
<1>5. Cardinality(New) = Cardinality(Old) + (IF e = c THEN 1 ELSE 0)
  <2>1. Cardinality(Old \cup {Len(s) + 1}) = Cardinality(Old) + 1
    BY <1>3, <1>4, FS_AddElement
  <2> QED BY <1>2, <1>4, <2>1
<1> QED BY <1>5 DEF Old, New, Occurrences

\* What returns from the stack is what is at its end.
LEMMA OccurrencesFront ==
  ASSUME NEW S, NEW s \in Seq(S), s # <<>>, NEW c
  PROVE  /\ Under(s) \in Seq(S) /\ (Under(s) = <<>> <=> Len(s) = 1)
         /\ In(Under(s)) \subseteq In(s) /\ s[Len(s)] \in In(s) /\ s[Len(s)] \in S
         /\ Occurrences(Under(s), c) = Occurrences(s, c) - (IF s[Len(s)] = c THEN 1 ELSE 0)
<1> DEFINE f == SubSeq(s, 1, Len(s) - 1)
           Old == {i \in DOMAIN s : s[i] = c}
           New == {i \in DOMAIN f : f[i] = c}
<1>1. Len(s) \in Nat \ {0} /\ DOMAIN s = 1..Len(s)
  BY EmptySeq, LenProperties
<1>2. \A i \in 1..(Len(s) - 1) : s[i] \in S
  BY <1>1, ElementOfSeq
<1>3. /\ f \in Seq(S) /\ Len(f) = Len(s) - 1 /\ DOMAIN f = 1..(Len(s) - 1)
      /\ \A i \in 1..(Len(s) - 1) : f[i] = s[i]
  BY <1>1, <1>2
<1>4. New = IF s[Len(s)] = c THEN Old \ {Len(s)} ELSE Old
  BY <1>1, <1>3
<1>5. Len(s) \in Old <=> s[Len(s)] = c
  BY <1>1
<1>6. IsFiniteSet(Old) /\ Cardinality(Old) \in Nat
  BY OccurrencesFinite DEF Occurrences
<1>7. Cardinality(New) = Cardinality(Old) - (IF s[Len(s)] = c THEN 1 ELSE 0)
  <2> HIDE DEF Old, New
  <2>1. Len(s) \in Old => Cardinality(Old \ {Len(s)}) = Cardinality(Old) - 1
    BY <1>6, FS_RemoveElement
  <2> QED BY <1>4, <1>5, <1>6, <2>1
<1>8. In(f) \subseteq In(s) /\ s[Len(s)] \in In(s)
  BY <1>1, <1>3 DEF In
<1>9. s[Len(s)] \in S
  BY <1>1, ElementOfSeq
<1>10. f = <<>> <=> Len(s) = 1
  <2> HIDE DEF f
  <2> QED BY <1>1, <1>3, EmptySeq
<1> QED BY <1>3, <1>7, <1>8, <1>9, <1>10 DEF Occurrences, Under

LEMMA EmptyAndSingle ==
  ASSUME NEW S, NEW e \in S, NEW c
  PROVE  /\ <<>> \in Seq(S) /\ In(<<>>) = {} /\ NoDuplicates(<<>>) /\ Occurrences(<<>>, c) = 0
         /\ <<e>> \in Seq(S) /\ In(<<e>>) = {e} /\ <<e>> # <<>>
         /\ Occurrences(<<e>>, c) = IF e = c THEN 1 ELSE 0
<1>1. <<>> \in Seq(S) /\ In(<<>>) = {} /\ NoDuplicates(<<>>)
  BY DEF In, NoDuplicates
<1>2. Occurrences(<<>>, c) = 0
  <2>1. {i \in DOMAIN <<>> : <<>>[i] = c} = {}
    OBVIOUS
  <2> QED BY <2>1, FS_EmptySet DEF Occurrences
<1>3. <<e>> \in Seq(S) /\ In(<<e>>) = {e} /\ <<e>> # <<>>
  BY DEF In
<1>4. {i \in DOMAIN <<e>> : <<e>>[i] = c} = IF e = c THEN {1} ELSE {}
  OBVIOUS
<1>5. Occurrences(<<e>>, c) = IF e = c THEN 1 ELSE 0
  BY <1>4, FS_Singleton, FS_EmptySet DEF Occurrences
<1> QED BY <1>1, <1>2, <1>3, <1>5

-----------------------------------------------------------------------------
(* Every action preserves the invariant.                                   *)

LEMMA InitInvariant ==
  ASSUME Init
  PROVE  IInv
<1>1. \A c \in Contexts : Occurrences(<<>>, c) = 0
  BY EmptyAndSingle
<1>2. In(<<>>) = {} /\ NoDuplicates(<<>>) /\ \A S : <<>> \in Seq(S)
  BY DEF In, NoDuplicates
<1>3. TypeOK
  <2>1. \A cpu \in Cpus : <<>> \in Seq(Contexts)
    BY <1>2
  <2>2. submits \in [Contexts -> 0..MaxSubmits]
    BY PoolAssumption DEF Init
  <2> QED BY <2>1, <2>2 DEF Init, TypeOK
<1>4. ResumedInOrder
  BY DEF Init, ResumedInOrder
<1>5. ListedQueued /\ TakenQueued /\ RunsItsOwn /\ BorrowedAlive
  BY <1>2 DEF Init, ListedQueued, TakenQueued, RunsItsOwn, BorrowedAlive
<1>6. BorrowsCounted
  BY <1>1 DEF Init, BorrowsCounted
<1> QED BY <1>3, <1>4, <1>5, <1>6 DEF IInv

LEMMA ListedAreContexts ==
  ASSUME IInv
  PROVE  \A cpu \in Cpus : In(list[cpu]) \subseteq Contexts
BY ElementOfSeq, LenProperties DEF IInv, TypeOK, In

\* Submitting borrows a context that is alive; its waiter is in no list.
LEMMA SubmitInvariant ==
  ASSUME IInv, NEW c \in Contexts, NEW why \in {"schedule", "resume"}, Submit(c, why)
  PROVE  IInv'
<1> USE DEF Submit, workerVars
<1>1. TypeOK'
  <2>1. submits' \in [Contexts -> 0..MaxSubmits]
    BY PoolAssumption DEF IInv, TypeOK
  <2>2. borrows' \in [Contexts -> Nat] /\ blocked' \in SUBSET Contexts
    BY DEF IInv, TypeOK
  <2>3. /\ callback' \in [Contexts -> {"none", "schedule", "resume"}]
        /\ fiber' \in [Contexts -> {"waiting", "submitting", "queued", "running", "finished"}]
    BY DEF IInv, TypeOK
  <2> QED BY <2>1, <2>2, <2>3 DEF IInv, TypeOK
<1>2. ResumedInOrder'
  BY DEF IInv, ResumedInOrder
<1>3. ListedQueued' /\ TakenQueued' /\ RunsItsOwn'
  BY SMTT(20) DEF IInv, TypeOK, ListedQueued, TakenQueued, RunsItsOwn
<1>4. BorrowsCounted'
  <2>1. \A d \in Contexts : Occurrences(stack[pinned[d]], d) \in Nat
    BY OccurrencesFinite DEF IInv, TypeOK
  <2>2. borrows[c] = Occurrences(stack[pinned[c]], c)
    BY <2>1 DEF IInv, BorrowsCounted
  <2>3. \A d \in Contexts : /\ borrows'[d] = IF d = c THEN borrows[d] + 1 ELSE borrows[d]
                            /\ fiber'[d] = IF d = c THEN "submitting" ELSE fiber[d]
    BY DEF IInv, TypeOK
  <2> QED BY <2>1, <2>2, <2>3 DEF IInv, BorrowsCounted
<1>5. BorrowedAlive'
  BY DEF IInv, TypeOK, BorrowedAlive
<1> QED BY <1>1, <1>2, <1>3, <1>4, <1>5 DEF IInv

\* The push of a waiter.
LEMMA PushInvariant ==
  ASSUME IInv, NEW c \in Contexts, SubmitPush(c)
  PROVE  IInv'
<1> USE DEF SubmitPush, workerVars
<1>1. /\ pinned[c] \in Cpus /\ list[pinned[c]] \in Seq(Contexts)
      /\ pushes[pinned[c]] \in Seq(Contexts) /\ pops[pinned[c]] \in Seq(Contexts)
  BY DEF IInv, TypeOK
<1>2. /\ Append(list[pinned[c]], c) \in Seq(Contexts)
      /\ In(Append(list[pinned[c]], c)) = In(list[pinned[c]]) \cup {c}
      /\ Append(pushes[pinned[c]], c) \in Seq(Contexts)
  BY <1>1, AppendIn
<1>3. c \notin In(list[pinned[c]])
  BY <1>1 DEF IInv, ListedQueued
<1>4. NoDuplicates(Append(list[pinned[c]], c))
  BY <1>1, <1>3, AppendIn DEF IInv, ListedQueued
<1>5. TypeOK'
  <2>1. list' \in [Cpus -> Seq(Contexts)] /\ pushes' \in [Cpus -> Seq(Contexts)]
    BY <1>1, <1>2 DEF IInv, TypeOK
  <2>2. signals' \in [Cpus -> Nat]
    BY <1>1 DEF IInv, TypeOK
  <2>3. fiber' \in [Contexts -> {"waiting", "submitting", "queued", "running", "finished"}]
    BY DEF IInv, TypeOK
  <2> QED BY <2>1, <2>2, <2>3 DEF IInv, TypeOK
<1>6. ResumedInOrder'
  <2>1. pops[pinned[c]] \o Append(list[pinned[c]], c) = Append(pushes[pinned[c]], c)
    <3>1. pops[pinned[c]] \o Append(list[pinned[c]], c) = Append(pops[pinned[c]] \o list[pinned[c]], c)
      <4>1. \A s, t \in Seq(Contexts) : s \o Append(t, c) = Append(s \o t, c)
        BY ConcatAppend
      <4> QED BY <1>1, <4>1, Zenon
    <3> QED BY <1>1, <3>1 DEF IInv, ResumedInOrder
  <2> QED BY <2>1 DEF IInv, TypeOK, ResumedInOrder
<1>7. ListedQueued'
  <2>1. \A cpu \in Cpus : list'[cpu] = IF cpu = pinned[c] THEN Append(list[cpu], c) ELSE list[cpu]
    BY DEF IInv, TypeOK
  <2>2. \A d \in Contexts : fiber'[d] = IF d = c THEN "queued" ELSE fiber[d]
    BY DEF IInv, TypeOK
  <2>3. \A cpu \in Cpus : In(list[cpu]) \subseteq Contexts
    BY ListedAreContexts
  <2> QED BY <1>2, <1>4, <2>1, <2>2, <2>3 DEF IInv, ListedQueued
<1>8. TakenQueued'
  <2>1. \A cpu \in Cpus : worker[cpu] \in {"unblock", "switch"} =>
          popped[cpu] # c /\ (cpu = pinned[c] => popped[cpu] \notin In(list'[cpu]))
    <3>1. list'[pinned[c]] = Append(list[pinned[c]], c)
      BY <1>1 DEF IInv, TypeOK
    <3>2. ASSUME NEW cpu \in Cpus, worker[cpu] \in {"unblock", "switch"}
          PROVE  popped[cpu] # c /\ popped[cpu] \notin In(list[cpu])
      BY <3>2 DEF IInv, TakenQueued
    <3> HIDE DEF SubmitPush
    <3> QED BY <1>2, <3>1, <3>2
  <2>2. \A cpu \in Cpus : cpu # pinned[c] => list'[cpu] = list[cpu]
    BY DEF IInv, TypeOK
  <2>3. \A d \in Contexts : d # c => fiber'[d] = fiber[d]
    BY DEF IInv, TypeOK
  <2> QED BY <2>1, <2>2, <2>3 DEF IInv, TakenQueued
<1>9. RunsItsOwn' /\ BorrowedAlive'
  BY DEF IInv, RunsItsOwn, BorrowedAlive
<1>10. BorrowsCounted'
  BY DEF IInv, TypeOK, BorrowsCounted
<1> QED BY <1>5, <1>6, <1>7, <1>8, <1>9, <1>10 DEF IInv

\* A worker takes the oldest waiter.
LEMMA TakeInvariant ==
  ASSUME IInv, NEW cpu \in Cpus, worker[cpu] \in {"load", "cas"}, Len(list[cpu]) > 0, Take(cpu),
         UNCHANGED <<pinned, semaphore, signals, contextVars, local, stack, continued, shutdown,
                     pushes>>
  PROVE  IInv'
<1> USE DEF Take, contextVars
<1>1. list[cpu] \in Seq(Contexts) /\ list[cpu] # <<>> /\ pops[cpu] \in Seq(Contexts)
  BY EmptySeq DEF IInv, TypeOK
<1>2. /\ Tail(list[cpu]) \in Seq(Contexts) /\ Head(list[cpu]) \in Contexts
      /\ In(Tail(list[cpu])) = In(list[cpu]) \ {Head(list[cpu])}
      /\ Head(list[cpu]) \in In(list[cpu]) /\ NoDuplicates(Tail(list[cpu]))
  BY <1>1, TailIn DEF IInv, ListedQueued
<1>3. Append(pops[cpu], Head(list[cpu])) \in Seq(Contexts)
  BY <1>1, <1>2, AppendIn
<1>4. TypeOK'
  BY <1>2, <1>3, PoolAssumption DEF IInv, TypeOK
<1>5. ResumedInOrder'
  <2>1. Append(pops[cpu], Head(list[cpu])) \o Tail(list[cpu]) = pushes[cpu]
    BY <1>1, MoveHead DEF IInv, ResumedInOrder
  <2> QED BY <2>1 DEF IInv, TypeOK, ResumedInOrder
<1>6. \A k \in Cpus : list'[k] = IF k = cpu THEN Tail(list[cpu]) ELSE list[k]
  BY DEF IInv, TypeOK
<1>7. ListedQueued'
  BY <1>2, <1>6 DEF IInv, ListedQueued
<1>8. TakenQueued'
  <2>1. \A k \in Cpus : k # cpu => popped'[k] = popped[k] /\ worker'[k] = worker[k]
    BY DEF IInv, TypeOK
  <2>2. popped'[cpu] = Head(list[cpu])
    BY DEF IInv, TypeOK
  <2>3. pinned[Head(list[cpu])] = cpu /\ fiber[Head(list[cpu])] = "queued"
    BY <1>2 DEF IInv, ListedQueued
  <2> QED BY <1>2, <1>6, <2>1, <2>2, <2>3 DEF IInv, TakenQueued
<1>9. RunsItsOwn'
  BY DEF IInv, TypeOK, RunsItsOwn
<1>10. BorrowsCounted' /\ BorrowedAlive'
  BY DEF IInv, BorrowsCounted, BorrowedAlive
<1> QED BY <1>4, <1>5, <1>7, <1>8, <1>9, <1>10 DEF IInv

\* The worker's steps around the callback move no waiter and end no borrow.
LEMMA QuietInvariant ==
  ASSUME IInv, NEW cpu \in Cpus,
         UNCHANGED <<pinned, list, borrows, callback, alive, fiber, submits, stack, pops, pushes>>,
         semaphore' \in [Cpus -> Nat], signals' \in [Cpus -> Nat],
         blocked' \in SUBSET Contexts, inUse' \in [Contexts -> Nat],
         NEW next \in {"wait", "load", "cas", "loop", "exited", "joined", "switch"},
         worker' = [worker EXCEPT ![cpu] = next],
         next = "switch" => worker[cpu] = "unblock",
         worker[cpu] # "run",
         popped' \in [Cpus -> Contexts \cup {NULL}],
         next = "switch" => UNCHANGED popped,
         \A k \in Cpus : k # cpu => popped'[k] = popped[k],
         local' \in [Cpus -> {"none", "schedule", "resume"}],
         UNCHANGED continued,
         shutdown' \in BOOLEAN
  PROVE  IInv'
<1>1. \A k \in Cpus : worker'[k] = IF k = cpu THEN next ELSE worker[k]
  BY DEF IInv, TypeOK
<1>2. TypeOK'
  BY DEF IInv, TypeOK
<1>3. ResumedInOrder' /\ ListedQueued' /\ BorrowsCounted' /\ BorrowedAlive'
  <2>1. ResumedInOrder'
    BY DEF IInv, ResumedInOrder
  <2>2. ListedQueued'
    BY DEF IInv, ListedQueued
  <2>3. BorrowsCounted' /\ BorrowedAlive'
    BY DEF IInv, BorrowsCounted, BorrowedAlive
  <2> QED BY <2>1, <2>2, <2>3
<1>4. TakenQueued'
  BY <1>1 DEF IInv, TakenQueued
<1>5. RunsItsOwn'
  BY <1>1 DEF IInv, RunsItsOwn
<1> QED BY <1>2, <1>3, <1>4, <1>5 DEF IInv

\* The context that a worker switches to was borrowed by its waiter.
LEMMA RunInvariant ==
  ASSUME IInv, NEW cpu \in Cpus, Run(cpu)
  PROVE  IInv'
<1> DEFINE c == popped[cpu]
<1> USE DEF Run
<1>1. /\ c \in Contexts /\ pinned[c] = cpu /\ fiber[c] = "queued" /\ c \notin In(list[cpu])
      /\ stack[cpu] = <<>>
  BY DEF IInv, TakenQueued, RunsItsOwn
<1>2. /\ <<c>> \in Seq(Contexts) /\ In(<<c>>) = {c} /\ <<c>> # <<>>
      /\ \A d : Occurrences(<<c>>, d) = IF c = d THEN 1 ELSE 0
      /\ \A d : Occurrences(<<>>, d) = 0
  BY <1>1, EmptyAndSingle
<1>3. /\ \A k \in Cpus : /\ worker'[k] = IF k = cpu THEN "run" ELSE worker[k]
                         /\ stack'[k] = IF k = cpu THEN <<c>> ELSE stack[k]
      /\ \A d \in Contexts : fiber'[d] = IF d = c THEN "running" ELSE fiber[d]
  BY <1>1 DEF IInv, TypeOK
<1>4. TypeOK'
  <2>1. inUse' \in [Contexts -> Nat] /\ stack' \in [Cpus -> Seq(Contexts)]
    <3>1. inUse \in [Contexts -> Nat] /\ stack \in [Cpus -> Seq(Contexts)]
      BY DEF IInv, TypeOK
    <3> QED BY <1>1, <1>2, <3>1
  <2>2. /\ callback' \in [Contexts -> {"none", "schedule", "resume"}]
        /\ local' \in [Cpus -> {"none", "schedule", "resume"}]
    <3>1. /\ callback \in [Contexts -> {"none", "schedule", "resume"}]
          /\ local \in [Cpus -> {"none", "schedule", "resume"}]
      BY DEF IInv, TypeOK
    <3> QED BY <1>1, <3>1
  <2>3. fiber' \in [Contexts -> {"waiting", "submitting", "queued", "running", "finished"}]
    BY DEF IInv, TypeOK
  <2>4. worker' \in [Cpus -> {"wait", "load", "cas", "unblock", "switch", "run", "unuse", "loop",
                              "exited", "joined"}]
    BY DEF IInv, TypeOK
  <2> QED BY <2>1, <2>2, <2>3, <2>4 DEF IInv, TypeOK
<1>5. \A k \in Cpus : In(list[k]) \subseteq Contexts
  BY ListedAreContexts
<1> HIDE DEF c
<1>6. ResumedInOrder' /\ BorrowedAlive'
  BY DEF IInv, ResumedInOrder, BorrowedAlive
<1>7. ListedQueued'
  <2>1. \A k \in Cpus : c \notin In(list[k])
    BY <1>1 DEF IInv, ListedQueued
  <2> QED BY <1>3, <1>5, <2>1 DEF IInv, ListedQueued
<1>8. TakenQueued'
  <2>1. \A k \in Cpus : k # cpu /\ worker[k] \in {"unblock", "switch"} => popped[k] # c
    BY <1>1 DEF IInv, TakenQueued
  <2> QED BY <1>3, <2>1 DEF IInv, TakenQueued
<1>9. RunsItsOwn'
  BY <1>1, <1>2, <1>3 DEF IInv, RunsItsOwn
<1>10. BorrowsCounted'
  <2>1. pinned \in [Contexts -> Cpus]
    BY DEF IInv, TypeOK
  <2>2. ASSUME NEW d \in Contexts
        PROVE  borrows[d] = (IF fiber'[d] \in {"submitting", "queued"} THEN 1 ELSE 0)
                              + Occurrences(stack'[pinned[d]], d)
    <3>1. pinned[d] \in Cpus
      BY <2>1
    <3>2. borrows[d] = (IF fiber[d] \in {"submitting", "queued"} THEN 1 ELSE 0)
                          + Occurrences(stack[pinned[d]], d)
      BY DEF IInv, BorrowsCounted
    <3>3. CASE d = c
      BY <1>1, <1>2, <1>3, <3>2, <3>3
    <3>4. CASE d # c
      <4>1. Occurrences(stack'[pinned[d]], d) = Occurrences(stack[pinned[d]], d)
        BY <1>1, <1>2, <1>3, <3>1, <3>4
      <4> QED BY <1>3, <3>2, <3>4, <4>1
    <3> QED BY <3>3, <3>4
  <2> QED BY <2>2 DEF BorrowsCounted
<1> QED BY <1>4, <1>6, <1>7, <1>8, <1>9, <1>10 DEF IInv

\* A context that is continued in place is borrowed by the frame that runs it;
\* its waiter may not be in a list.
LEMMA ContinueInvariant ==
  ASSUME IInv, NEW cpu \in Cpus, NEW c \in Contexts, Continue(cpu, c)
  PROVE  IInv'
<1> USE DEF Continue
<1>1. /\ stack[cpu] \in Seq(Contexts) /\ worker[cpu] = "run" /\ fiber[c] = "waiting"
      /\ pinned[c] = cpu /\ c \in alive /\ borrows \in [Contexts -> Nat]
      /\ pinned \in [Contexts -> Cpus]
  BY DEF IInv, TypeOK
<1>2. /\ Append(stack[cpu], c) \in Seq(Contexts)
      /\ In(Append(stack[cpu], c)) = In(stack[cpu]) \cup {c}
  BY <1>1, AppendIn
<1>3. \A d : Occurrences(Append(stack[cpu], c), d)
               = Occurrences(stack[cpu], d) + (IF c = d THEN 1 ELSE 0)
  BY <1>1, OccurrencesAppend
<1>4. Append(stack[cpu], c) # <<>>
  BY <1>2, EmptyAndSingle
<1>5. /\ \A k \in Cpus : stack'[k] = IF k = cpu THEN Append(stack[cpu], c) ELSE stack[k]
      /\ \A d \in Contexts : /\ fiber'[d] = IF d = c THEN "running" ELSE fiber[d]
                             /\ borrows'[d] = IF d = c THEN borrows[d] + 1 ELSE borrows[d]
  BY DEF IInv, TypeOK
<1>6. TypeOK'
  <2>1. submits' \in [Contexts -> 0..MaxSubmits]
    <3>1. submits \in [Contexts -> 0..MaxSubmits] /\ submits[c] < MaxSubmits
      BY DEF IInv, TypeOK
    <3>2. submits' = [submits EXCEPT ![c] = submits[c] + 1]
      OBVIOUS
    <3> HIDE DEF Continue
    <3> QED BY <3>1, <3>2, PoolAssumption
  <2>2. borrows' \in [Contexts -> Nat]
    BY <1>1
  <2>5. inUse' \in [Contexts -> Nat]
    <3>1. inUse \in [Contexts -> Nat]
      BY DEF IInv, TypeOK
    <3> QED BY <3>1
  <2>3. fiber' \in [Contexts -> {"waiting", "submitting", "queued", "running", "finished"}]
    BY DEF IInv, TypeOK
  <2>4. stack' \in [Cpus -> Seq(Contexts)]
    BY <1>2 DEF IInv, TypeOK
  <2> QED BY <2>1, <2>2, <2>3, <2>4, <2>5 DEF IInv, TypeOK
<1>7. ResumedInOrder'
  BY DEF IInv, ResumedInOrder
<1>8. ListedQueued' /\ TakenQueued'
  <2>1. \A k \in Cpus : In(list[k]) \subseteq Contexts
    BY ListedAreContexts
  <2>2. ListedQueued'
    BY <1>1, <1>5, <2>1 DEF IInv, ListedQueued
  <2>3. TakenQueued'
    BY <1>1, <1>5 DEF IInv, TakenQueued
  <2> QED BY <2>2, <2>3
<1>9. RunsItsOwn'
  BY <1>1, <1>2, <1>4, <1>5 DEF IInv, RunsItsOwn
<1>10. BorrowsCounted'
  <2>1. ASSUME NEW d \in Contexts
        PROVE  borrows'[d] = (IF fiber'[d] \in {"submitting", "queued"} THEN 1 ELSE 0)
                               + Occurrences(stack'[pinned[d]], d)
    <3>1. pinned[d] \in Cpus /\ stack[pinned[d]] \in Seq(Contexts)
      BY DEF IInv, TypeOK
    <3>2. Occurrences(stack[pinned[d]], d) \in Nat
      BY <3>1, OccurrencesFinite
    <3>3. borrows[d] = (IF fiber[d] \in {"submitting", "queued"} THEN 1 ELSE 0)
                          + Occurrences(stack[pinned[d]], d)
      BY DEF IInv, BorrowsCounted
    <3>4. Occurrences(stack'[pinned[d]], d)
            = Occurrences(stack[pinned[d]], d) + (IF d = c THEN 1 ELSE 0)
      BY <1>1, <1>3, <1>5, <3>1, <3>2
    <3> HIDE DEF Continue
    <3> QED BY <1>1, <1>5, <3>2, <3>3, <3>4
  <2> QED BY <2>1 DEF BorrowsCounted
<1>11. BorrowedAlive'
  BY <1>1, <1>5 DEF IInv, BorrowedAlive
<1> QED BY <1>6, <1>7, <1>8, <1>9, <1>10, <1>11 DEF IInv

\* A frame of the stack returns and gives back its borrow.
LEMMA ReturnInvariant ==
  ASSUME IInv, NEW cpu \in Cpus, worker[cpu] = "run",
         borrows' = [borrows EXCEPT ![Current(cpu)] = @ - 1],
         stack' = [stack EXCEPT ![cpu] = SubSeq(@, 1, Len(@) - 1)],
         worker' = [worker EXCEPT ![cpu] = IF Len(stack[cpu]) = 1 THEN "unuse" ELSE @],
         inUse' \in [Contexts -> Nat], continued' \in [Cpus -> Contexts \cup {NULL}],
         UNCHANGED <<pinned, list, semaphore, signals, blocked, callback, alive, fiber, submits,
                     popped, local, pops, shutdown, pushes>>
  PROVE  IInv'
<1> DEFINE c == stack[cpu][Len(stack[cpu])]
           f == Under(stack[cpu])
<1>1. /\ stack[cpu] \in Seq(Contexts) /\ stack[cpu] # <<>> /\ borrows \in [Contexts -> Nat]
      /\ Len(stack[cpu]) \in Nat /\ pinned \in [Contexts -> Cpus]
  BY LenProperties DEF IInv, TypeOK, RunsItsOwn
<1>2. /\ f \in Seq(Contexts) /\ In(f) \subseteq In(stack[cpu])
      /\ c \in In(stack[cpu]) /\ c \in Contexts
      /\ \A d : Occurrences(f, d) = Occurrences(stack[cpu], d) - (IF c = d THEN 1 ELSE 0)
  <2>1. f \in Seq(Contexts) /\ In(f) \subseteq In(stack[cpu]) /\ c \in In(stack[cpu]) /\ c \in Contexts
    BY <1>1, OccurrencesFront
  <2>2. ASSUME NEW d
        PROVE  Occurrences(f, d) = Occurrences(stack[cpu], d) - (IF c = d THEN 1 ELSE 0)
    BY <1>1, OccurrencesFront
  <2> QED BY <2>1, <2>2
<1>3. f = <<>> <=> Len(stack[cpu]) = 1
  BY <1>1, OccurrencesFront
<1>4. pinned[c] = cpu
  BY <1>2 DEF IInv, RunsItsOwn
<1>5. /\ \A k \in Cpus : /\ stack'[k] = IF k = cpu THEN f ELSE stack[k]
                         /\ worker'[k] = IF k = cpu /\ Len(stack[cpu]) = 1 THEN "unuse" ELSE worker[k]
      /\ \A d \in Contexts : borrows'[d] = IF d = c THEN borrows[d] - 1 ELSE borrows[d]
  BY DEF IInv, TypeOK, Current, Under
<1>6. borrows' = [borrows EXCEPT ![c] = borrows[c] - 1] /\ stack' = [stack EXCEPT ![cpu] = f]
  BY DEF Current, Under
<1> HIDE DEF c, f
<1>7. \A d \in Contexts : /\ Occurrences(stack[pinned[d]], d) \in Nat
                          /\ d \in In(stack[pinned[d]]) => Occurrences(stack[pinned[d]], d) > 0
  BY OccurrencesFinite DEF IInv, TypeOK
<1>8. borrows[c] > 0
  <2>1. borrows[c] = (IF fiber[c] \in {"submitting", "queued"} THEN 1 ELSE 0)
                        + Occurrences(stack[pinned[c]], c)
    BY <1>2 DEF IInv, BorrowsCounted
  <2>2. Occurrences(stack[pinned[c]], c) \in Nat /\ Occurrences(stack[pinned[c]], c) > 0
    BY <1>2, <1>4, <1>7
  <2> QED BY <2>1, <2>2
<1>9. TypeOK'
  <2>1. borrows' \in [Contexts -> Nat]
    <3>1. borrows[c] - 1 \in Nat
      BY <1>1, <1>2, <1>8
    <3> QED BY <1>1, <1>2, <1>6, <3>1
  <2>2. stack' \in [Cpus -> Seq(Contexts)]
    BY <1>2, <1>6 DEF IInv, TypeOK
  <2> QED BY <2>1, <2>2 DEF IInv, TypeOK
<1>10. ResumedInOrder' /\ ListedQueued'
  BY DEF IInv, ResumedInOrder, ListedQueued
<1>11. TakenQueued'
  BY <1>5 DEF IInv, TakenQueued
<1>12. RunsItsOwn'
  <2>1. \A k \in Cpus : worker'[k] = "run" <=> stack'[k] # <<>>
    <3>1. \A k \in Cpus : worker[k] = "run" <=> stack[k] # <<>>
      BY DEF IInv, RunsItsOwn
    <3>2. worker'[cpu] = "run" <=> stack'[cpu] # <<>>
      <4>1. CASE f = <<>>
        <5>1. worker'[cpu] = "unuse" /\ stack'[cpu] = <<>>
          BY <1>3, <1>5, <4>1, Zenon
        <5> QED BY <5>1
      <4>2. CASE f # <<>>
        <5>1. worker'[cpu] = "run" /\ stack'[cpu] # <<>>
          BY <1>3, <1>5, <4>2, Zenon
        <5> QED BY <5>1
      <4> QED BY <4>1, <4>2
    <3>3. ASSUME NEW k \in Cpus, k # cpu PROVE worker'[k] = worker[k] /\ stack'[k] = stack[k]
      BY <1>5, <3>3
    <3> QED BY <3>1, <3>2, <3>3
  <2>2. \A k \in Cpus : \A d \in In(stack'[k]) : pinned[d] = k
    BY <1>2, <1>5 DEF IInv, RunsItsOwn
  <2> QED BY <2>1, <2>2 DEF RunsItsOwn
<1>13. BorrowsCounted'
  <2>1. ASSUME NEW d \in Contexts
        PROVE  borrows'[d] = (IF fiber[d] \in {"submitting", "queued"} THEN 1 ELSE 0)
                               + Occurrences(stack'[pinned[d]], d)
    <3>1. borrows[d] = (IF fiber[d] \in {"submitting", "queued"} THEN 1 ELSE 0)
                          + Occurrences(stack[pinned[d]], d)
      BY DEF IInv, BorrowsCounted
    <3>2. Occurrences(stack'[pinned[d]], d)
            = Occurrences(stack[pinned[d]], d) - (IF d = c THEN 1 ELSE 0)
      BY SMTT(20), <1>1, <1>2, <1>4, <1>5, <1>7
    <3> QED BY <1>1, <1>5, <1>7, <3>1, <3>2
  <2> QED BY <2>1 DEF BorrowsCounted
<1>14. BorrowedAlive'
  BY <1>1, <1>5 DEF IInv, BorrowedAlive
<1> QED BY <1>9, <1>10, <1>11, <1>12, <1>13, <1>14 DEF IInv

\* The fiber that a worker runs waits or comes to its end.
LEMMA PauseInvariant ==
  ASSUME IInv, NEW cpu \in Cpus, NEW how \in {"waiting", "finished"}, Pause(cpu, how)
  PROVE  IInv'
<1> DEFINE c == Current(cpu)
<1>1. c \in Contexts
  BY OccurrencesFront DEF Pause, IInv, TypeOK, RunsItsOwn, Current
<1>2. /\ fiber[c] = "running" /\ fiber' = [fiber EXCEPT ![c] = how]
      /\ UNCHANGED <<pinned, list, semaphore, signals, blocked, inUse, borrows, callback, alive,
                     submits, worker, popped, local, stack, continued, pops, shutdown, pushes>>
  BY DEF Pause, workerVars
<1> HIDE DEF c
<1>3. TypeOK'
  BY <1>1, <1>2 DEF IInv, TypeOK
<1>4. \A d \in Contexts : fiber'[d] = IF d = c THEN how ELSE fiber[d]
  BY <1>2 DEF IInv, TypeOK
<1>5. ResumedInOrder' /\ RunsItsOwn' /\ BorrowedAlive'
  BY <1>2 DEF IInv, ResumedInOrder, RunsItsOwn, BorrowedAlive
<1>6. ListedQueued'
  BY <1>2, <1>4, ListedAreContexts DEF IInv, ListedQueued
<1>7. TakenQueued'
  BY <1>2, <1>4 DEF IInv, TakenQueued
<1>8. BorrowsCounted'
  BY <1>2, <1>4 DEF IInv, BorrowsCounted
<1> QED BY <1>3, <1>5, <1>6, <1>7, <1>8 DEF IInv

LEMMA DestructInvariant ==
  ASSUME IInv, NEW c \in Contexts, DestructContext(c)
  PROVE  IInv'
<1> USE DEF DestructContext, workerVars
<1>1. TypeOK' /\ ResumedInOrder' /\ RunsItsOwn'
  BY DEF IInv, TypeOK, ResumedInOrder, RunsItsOwn
<1>2. ListedQueued' /\ TakenQueued' /\ BorrowsCounted'
  BY DEF IInv, ListedQueued, TakenQueued, BorrowsCounted
<1>3. BorrowedAlive'
  BY DEF IInv, BorrowedAlive
<1> QED BY <1>1, <1>2, <1>3 DEF IInv

\* unuse() after the borrow is gone: no waiter moves and no borrow ends.
LEMMA ContinuedUnuseInvariant ==
  ASSUME IInv, NEW cpu \in Cpus, ContinuedUnuse(cpu)
  PROVE  IInv'
<1> USE DEF ContinuedUnuse
<1>1. TypeOK'
  <2>1. inUse \in [Contexts -> Nat] /\ continued \in [Cpus -> Contexts \cup {NULL}]
    BY DEF IInv, TypeOK
  <2>2. continued[cpu] \in Contexts /\ inUse[continued[cpu]] > 0
    BY <2>1
  <2>3. inUse' \in [Contexts -> Nat]
    BY <2>1, <2>2
  <2>4. continued' \in [Cpus -> Contexts \cup {NULL}]
    BY <2>1
  <2> QED BY <2>3, <2>4 DEF IInv, TypeOK
<1>2. ResumedInOrder' /\ TakenQueued' /\ RunsItsOwn'
  BY DEF IInv, ResumedInOrder, TakenQueued, RunsItsOwn
<1>3. ListedQueued'
  BY DEF IInv, ListedQueued
<1>4. BorrowsCounted' /\ BorrowedAlive'
  BY DEF IInv, BorrowsCounted, BorrowedAlive
<1> QED BY <1>1, <1>2, <1>3, <1>4 DEF IInv

\* A worker's steps.
LEMMA WorkerInvariant ==
  ASSUME IInv, NEW cpu \in Cpus, WorkerStep(cpu) \/ Join(cpu)
  PROVE  IInv'
<1> USE DEF contextVars
<1>1. CASE Load(cpu) \/ Cas(cpu)
  <2>1. /\ Len(list[cpu]) \in Nat /\ worker[cpu] \in {"load", "cas"}
        /\ UNCHANGED <<pinned, semaphore, signals, contextVars, local, stack, continued, shutdown,
                       pushes>>
    BY <1>1, LenProperties DEF Load, Cas, IInv, TypeOK
  <2>2. CASE Len(list[cpu]) > 0 /\ Take(cpu)
    BY <2>1, <2>2, TakeInvariant
  <2>3. ASSUME NEW next \in {"load", "cas", "loop"}, worker' = [worker EXCEPT ![cpu] = next],
               UNCHANGED <<list, popped, pops>>
        PROVE  IInv'
    <3>1. /\ semaphore' \in [Cpus -> Nat] /\ signals' \in [Cpus -> Nat]
          /\ blocked' \in SUBSET Contexts /\ inUse' \in [Contexts -> Nat]
          /\ popped' \in [Cpus -> Contexts \cup {NULL}]
          /\ local' \in [Cpus -> {"none", "schedule", "resume"}] /\ shutdown' \in BOOLEAN
      BY <2>1, <2>3 DEF IInv, TypeOK
    <3> QED BY <2>1, <2>3, <3>1, QuietInvariant
  <2>4. \/ Len(list[cpu]) = 1 /\ Take(cpu)
        \/ Len(list[cpu]) > 1 /\ Take(cpu)
        \/ UNCHANGED <<list, popped, pops>>
           /\ \E next \in {"load", "cas", "loop"} : worker' = [worker EXCEPT ![cpu] = next]
    BY <1>1, Zenon DEF Load, Cas
  <2>5. \A n \in Nat : n = 1 \/ n > 1 => n > 0
    OBVIOUS
  <2>6. (Len(list[cpu]) = 1 \/ Len(list[cpu]) > 1) => Len(list[cpu]) > 0
    BY <2>1, <2>5, Zenon
  <2>7. CASE Take(cpu)
    BY <2>1, <2>2, <2>3, <2>4, <2>6, <2>7, Zenon
  <2>8. CASE ~Take(cpu)
    BY <2>3, <2>4, <2>8, Zenon
  <2> QED BY <2>7, <2>8
<1>2. CASE Wait(cpu)
  <2>1. semaphore' \in [Cpus -> Nat]
    BY <1>2 DEF Wait, IInv, TypeOK
  <2>2. /\ worker[cpu] = "wait" /\ worker' = [worker EXCEPT ![cpu] = "load"]
        /\ UNCHANGED <<pinned, list, signals, contextVars, popped, local, stack, continued, pops,
                       shutdown, pushes>>
    BY <1>2 DEF Wait
  <2>3. /\ signals' \in [Cpus -> Nat] /\ blocked' \in SUBSET Contexts /\ inUse' \in [Contexts -> Nat]
        /\ popped' \in [Cpus -> Contexts \cup {NULL}]
        /\ local' \in [Cpus -> {"none", "schedule", "resume"}] /\ shutdown' \in BOOLEAN
    BY <2>2 DEF IInv, TypeOK
  <2> QED BY <2>1, <2>2, <2>3, QuietInvariant
<1>3. CASE Unblock(cpu)
  BY <1>3, QuietInvariant DEF Unblock, IInv, TypeOK
<1>4. CASE Run(cpu)
  BY <1>4, RunInvariant
<1>5. CASE \E how \in {"waiting", "finished"} : Pause(cpu, how)
  BY <1>5, PauseInvariant
<1>6. CASE Continued(cpu)
  <2>1. /\ Len(stack[cpu]) # 1 /\ worker[cpu] = "run" /\ UNCHANGED worker
        /\ borrows' = [borrows EXCEPT ![Current(cpu)] = @ - 1]
        /\ stack' = [stack EXCEPT ![cpu] = SubSeq(@, 1, Len(@) - 1)]
        /\ UNCHANGED <<pinned, list, semaphore, signals, blocked, callback, alive, fiber, submits,
                       popped, local, pops, shutdown, pushes>>
    <3>1. Len(stack[cpu]) > 1 /\ Len(stack[cpu]) \in Nat
      BY <1>6, LenProperties DEF Continued, IInv, TypeOK
    <3>2. borrows' = [borrows EXCEPT ![Current(cpu)] = @ - 1]
      BY <1>6 DEF Continued
    <3>3. stack' = [stack EXCEPT ![cpu] = SubSeq(@, 1, Len(@) - 1)]
      BY <1>6 DEF Continued
    <3>4. /\ worker[cpu] = "run" /\ UNCHANGED worker
          /\ UNCHANGED <<pinned, list, semaphore, signals, blocked, callback, alive, fiber, submits,
                         popped, local, pops, shutdown, pushes>>
      BY <1>6 DEF Continued
    <3>5. Len(stack[cpu]) # 1
      <4>1. \A n \in Nat : n > 1 => n # 1
        OBVIOUS
      <4> QED BY <3>1, <4>1, Zenon
    <3> QED BY <3>2, <3>3, <3>4, <3>5, Zenon
  <2>2. worker' = [worker EXCEPT ![cpu] = IF Len(stack[cpu]) = 1 THEN "unuse" ELSE @]
    BY <2>1 DEF IInv, TypeOK
  <2>3. Current(cpu) \in Contexts
    BY <2>1, OccurrencesFront DEF IInv, TypeOK, RunsItsOwn, Current
  <2>4. inUse' \in [Contexts -> Nat]
    <3>1. inUse \in [Contexts -> Nat] /\ Current(cpu) \in Contexts
      BY <2>3 DEF IInv, TypeOK
    <3>2. \/ /\ inUse[Current(cpu)] > 0
             /\ inUse' = [inUse EXCEPT ![Current(cpu)] = inUse[Current(cpu)] - 1]
          \/ UNCHANGED inUse
      BY <1>6 DEF Continued
    <3> QED BY <3>1, <3>2
  <2>5. continued' \in [Cpus -> Contexts \cup {NULL}]
    <3>1. UNCHANGED continued \/ continued' = [continued EXCEPT ![cpu] = Current(cpu)]
      BY <1>6 DEF Continued
    <3> QED BY <2>3, <3>1 DEF IInv, TypeOK
  <2> QED BY <2>1, <2>2, <2>4, <2>5, ReturnInvariant
<1>7. CASE SwitchBack(cpu)
  <2>1. /\ Len(stack[cpu]) = 1 /\ worker[cpu] = "run" /\ worker' = [worker EXCEPT ![cpu] = "unuse"]
        /\ borrows' = [borrows EXCEPT ![Current(cpu)] = @ - 1]
        /\ stack' = [stack EXCEPT ![cpu] = <<>>]
        /\ UNCHANGED <<pinned, list, semaphore, signals, blocked, callback, alive, fiber, submits,
                       popped, local, pops, shutdown, pushes>>
    BY <1>7 DEF SwitchBack
  <2>2. worker' = [worker EXCEPT ![cpu] = IF Len(stack[cpu]) = 1 THEN "unuse" ELSE @]
    BY <2>1
  <2>3. stack' = [stack EXCEPT ![cpu] = SubSeq(@, 1, Len(@) - 1)]
    <3>1. stack[cpu] \in Seq(Contexts) /\ stack[cpu] # <<>>
      BY <2>1 DEF IInv, TypeOK, RunsItsOwn
    <3>2. Under(stack[cpu]) = <<>>
      BY <2>1, <3>1, OccurrencesFront
    <3> QED BY <2>1, <3>2 DEF Under
  <2>4. inUse' \in [Contexts -> Nat]
    BY <1>7 DEF SwitchBack, IInv, TypeOK
  <2>5. continued' \in [Cpus -> Contexts \cup {NULL}]
    BY <1>7 DEF SwitchBack, IInv, TypeOK
  <2> QED BY <2>1, <2>2, <2>3, <2>4, <2>5, ReturnInvariant
<1>8. CASE Unuse(cpu)
  <2>1. inUse' \in [Contexts -> Nat]
    <3>1. inUse \in [Contexts -> Nat] /\ inUse[popped[cpu]] > 0
      BY <1>8 DEF Unuse, IInv, TypeOK
    <3>2. inUse' = [inUse EXCEPT ![popped[cpu]] = inUse[popped[cpu]] - 1]
      BY <1>8 DEF Unuse
    <3>3. CASE popped[cpu] \in Contexts
      BY <3>1, <3>2, <3>3
    <3>4. CASE popped[cpu] \notin Contexts
      BY <3>1, <3>2, <3>4
    <3> QED BY <3>3, <3>4
  <2>2. /\ local' \in [Cpus -> {"none", "schedule", "resume"}]
        /\ popped' \in [Cpus -> Contexts \cup {NULL}]
        /\ \A k \in Cpus : k # cpu => popped'[k] = popped[k]
    BY <1>8 DEF Unuse, IInv, TypeOK
  <2>3. /\ worker[cpu] = "unuse" /\ worker' = [worker EXCEPT ![cpu] = "loop"]
        /\ UNCHANGED <<pinned, list, semaphore, signals, blocked, borrows, callback, alive, fiber,
                       submits, stack, continued, pops, shutdown, pushes>>
        /\ semaphore' \in [Cpus -> Nat] /\ signals' \in [Cpus -> Nat]
        /\ blocked' \in SUBSET Contexts /\ shutdown' \in BOOLEAN
    BY <1>8 DEF Unuse, IInv, TypeOK
  <2> QED BY <2>1, <2>2, <2>3, QuietInvariant
<1>9. CASE Loop(cpu)
  BY <1>9, QuietInvariant DEF Loop, IInv, TypeOK
<1>10. CASE Join(cpu)
  <2>1. semaphore' \in [Cpus -> Nat]
    <3>1. semaphore \in [Cpus -> Nat]
      BY DEF IInv, TypeOK
    <3>2. cpu > 0 => cpu - 1 \in Cpus
      BY PoolAssumption DEF Cpus
    <3>3. UNCHANGED semaphore \/ (cpu > 0 /\ semaphore' = [semaphore EXCEPT ![cpu - 1] = @ + 1])
      BY <1>10 DEF Join
    <3> QED BY <3>1, <3>2, <3>3
  <2>2. /\ worker[cpu] = "exited" /\ worker' = [worker EXCEPT ![cpu] = "joined"]
        /\ UNCHANGED <<pinned, list, signals, contextVars, popped, local, stack, continued, pops,
                       shutdown, pushes>>
    BY <1>10 DEF Join
  <2>3. /\ signals' \in [Cpus -> Nat] /\ blocked' \in SUBSET Contexts /\ inUse' \in [Contexts -> Nat]
        /\ popped' \in [Cpus -> Contexts \cup {NULL}]
        /\ local' \in [Cpus -> {"none", "schedule", "resume"}] /\ shutdown' \in BOOLEAN
    BY <2>2 DEF IInv, TypeOK
  <2> QED BY <2>1, <2>2, <2>3, QuietInvariant
<1>11. CASE ContinuedUnuse(cpu)
  BY <1>11, ContinuedUnuseInvariant
<1> QED BY <1>1, <1>2, <1>3, <1>4, <1>5, <1>6, <1>7, <1>8, <1>9, <1>10, <1>11 DEF WorkerStep

\* The submitter's signal, and the one that ~StaticThreadPool sends.
LEMMA SignalInvariant ==
  ASSUME IInv, (\E cpu \in Cpus : SubmitSignal(cpu)) \/ Shutdown \/ UNCHANGED vars
  PROVE  IInv'
<1>1. UNCHANGED <<pinned, list, contextVars, workerVars, pushes>>
  BY DEF SubmitSignal, Shutdown, vars
<1>2. semaphore' \in [Cpus -> Nat] /\ signals' \in [Cpus -> Nat] /\ shutdown' \in BOOLEAN
  <2>1. ASSUME NEW cpu \in Cpus, SubmitSignal(cpu)
        PROVE  semaphore' \in [Cpus -> Nat] /\ signals' \in [Cpus -> Nat] /\ shutdown' \in BOOLEAN
    <3>1. signals \in [Cpus -> Nat] /\ semaphore \in [Cpus -> Nat] /\ shutdown \in BOOLEAN
      BY DEF IInv, TypeOK
    <3>2. signals[cpu] - 1 \in Nat
      BY <2>1, <3>1 DEF SubmitSignal
    <3> QED BY <2>1, <3>1, <3>2 DEF SubmitSignal
  <2>2. CASE Shutdown
    <3>1. Concurrency - 1 \in Cpus
      BY PoolAssumption DEF Cpus
    <3> QED BY <2>2, <3>1 DEF Shutdown, IInv, TypeOK
  <2>3. CASE UNCHANGED vars
    BY <2>3 DEF vars, IInv, TypeOK
  <2> QED BY <2>1, <2>2, <2>3
<1>3. TypeOK'
  BY <1>1, <1>2 DEF contextVars, workerVars, IInv, TypeOK
<1>4. ResumedInOrder' /\ ListedQueued' /\ TakenQueued' /\ RunsItsOwn'
  <2>1. ResumedInOrder'
    BY <1>1 DEF contextVars, workerVars, IInv, ResumedInOrder
  <2>2. ListedQueued'
    BY <1>1 DEF contextVars, workerVars, IInv, ListedQueued
  <2>3. TakenQueued'
    BY <1>1 DEF contextVars, workerVars, IInv, TakenQueued
  <2>4. RunsItsOwn'
    BY <1>1 DEF contextVars, workerVars, IInv, RunsItsOwn
  <2> QED BY <2>1, <2>2, <2>3, <2>4
<1>5. BorrowsCounted' /\ BorrowedAlive'
  BY <1>1 DEF contextVars, workerVars, IInv, BorrowsCounted, BorrowedAlive
<1> QED BY <1>3, <1>4, <1>5 DEF IInv

-----------------------------------------------------------------------------

\* For any number of cpus, contexts and submissions: the inductive invariant
\* holds of every execution of the pool.
THEOREM PoolInvariant == Spec => []IInv
<1>1. Init => IInv
  BY InitInvariant
<1>2. IInv /\ [Next]_vars => IInv'
  BY SubmitInvariant, PushInvariant, DestructInvariant, WorkerInvariant, ContinueInvariant,
     SignalInvariant DEF Next, SubmitStep
<1> QED BY <1>1, <1>2, PTL DEF Spec

\* For any number of cpus, contexts and submissions: waiters are resumed in the
\* order in which Submit pushed them, none twice and none left out.
THEOREM PoolResumedInOrder == Spec => []ResumedInOrder
<1>1. IInv => ResumedInOrder
  BY DEF IInv
<1> QED BY <1>1, PoolInvariant, PTL

\* For any number of cpus, contexts and submissions: the borrow of its waiter, and
\* then of the frame that runs it, keeps a context from being destructed.
THEOREM PoolQueuedContextsLive == Spec => []QueuedContextsLive
<1>1. IInv => QueuedContextsLive
  <2> SUFFICES ASSUME IInv, NEW cpu \in Cpus
               PROVE  /\ \A i \in DOMAIN list[cpu] : list[cpu][i] \in alive
                      /\ \A i \in DOMAIN stack[cpu] : stack[cpu][i] \in alive
                      /\ worker[cpu] \in {"unblock", "switch"} => popped[cpu] \in alive
    BY DEF QueuedContextsLive
  <2>1. \A c \in Contexts : Occurrences(stack[pinned[c]], c) \in Nat
    BY OccurrencesFinite DEF IInv, TypeOK
  <2>2. \A c \in Contexts : fiber[c] = "queued" => c \in alive
    BY <2>1 DEF IInv, BorrowsCounted, BorrowedAlive
  <2>3. \A c \in Contexts : Occurrences(stack[pinned[c]], c) > 0 => c \in alive
    BY <2>1 DEF IInv, BorrowsCounted, BorrowedAlive
  <2>4. \A c \in In(list[cpu]) : c \in alive
    BY <2>2, ListedAreContexts DEF IInv, ListedQueued
  <2>5. \A c \in In(stack[cpu]) : c \in alive
    <3>1. stack[cpu] \in Seq(Contexts)
      BY DEF IInv, TypeOK
    <3>2. In(stack[cpu]) \subseteq Contexts
      BY <3>1, ElementOfSeq, LenProperties DEF In
    <3>3. \A c \in In(stack[cpu]) : Occurrences(stack[pinned[c]], c) > 0
      BY <3>1, OccurrencesFinite DEF IInv, RunsItsOwn
    <3> QED BY <2>3, <3>2, <3>3
  <2> QED BY <2>2, <2>4, <2>5 DEF In, IInv, TakenQueued
<1> QED BY <1>1, PoolInvariant, PTL

=============================================================================

----------------------------- MODULE PipeProofs -----------------------------
(***************************************************************************)
(* Proofs about Pipe.tla, for any number of readers, watchers and writes:  *)
(* the pipe is drained in order, and nobody waits for what has happened.   *)
(***************************************************************************)
EXTENDS Pipe, SequenceTheorems, FiniteSetTheorems, TLAPS

\* The readers on their way to the lock, with or without having been notified.
Acquiring == {r \in Readers : reader[r] = "acquire"}

\* A reader is in the list of has_values_or_closed_ once.
ListedOnce ==
  \A i, j \in DOMAIN hasValues : hasValues[i] = hasValues[j] => i = j

\* Whoever saw the end of the pipe saw it closed and empty, which it stays.
EndIsFinal ==
  (\E r \in Readers : reader[r] = "ended") \/ (\E w \in Watchers : watcher[w] = "returned") =>
    closed /\ values = <<>>

\* What was taken, followed by what is in the pipe, is what was accepted.
Drained == taken \o values = accepted

IInv ==
  /\ TypeOK
  /\ ListedOnce
  /\ EndIsFinal
  /\ Drained
  /\ NoReaderStranded
  /\ NoWatcherStranded

-----------------------------------------------------------------------------
(* Lists.                                                                  *)

\* Taking the oldest of a list without duplicates takes it off the list.
LEMMA TailListed ==
  ASSUME NEW S, NEW s \in Seq(S), s # <<>>,
         \A i, j \in DOMAIN s : s[i] = s[j] => i = j
  PROVE  /\ Tail(s) \in Seq(S) /\ Head(s) \in S
         /\ Listed(Tail(s)) = Listed(s) \ {Head(s)}
         /\ Head(s) \in Listed(s)
         /\ \A i, j \in DOMAIN Tail(s) : Tail(s)[i] = Tail(s)[j] => i = j
<1>1. /\ Len(s) \in Nat /\ Len(s) > 0 /\ DOMAIN s = 1..Len(s) /\ Head(s) = s[1]
  BY EmptySeq, LenProperties
<1>2. /\ Tail(s) \in Seq(S) /\ Head(s) \in S /\ Len(Tail(s)) = Len(s) - 1
      /\ \A i \in 1..Len(Tail(s)) : Tail(s)[i] = s[i + 1]
  BY HeadTailProperties
<1>3. DOMAIN Tail(s) = 1..(Len(s) - 1)
  BY <1>2, LenProperties
<1>4. Listed(Tail(s)) = Listed(s) \ {Head(s)}
  <2>1. ASSUME NEW x \in Listed(Tail(s)) PROVE x \in Listed(s) \ {Head(s)}
    <3>1. PICK i \in 1..(Len(s) - 1) : x = s[i + 1]
      BY <1>2, <1>3 DEF Listed
    <3>2. i + 1 \in 1..Len(s) /\ i + 1 # 1
      BY <1>1
    <3> QED BY <1>1, <3>1, <3>2 DEF Listed
  <2>2. ASSUME NEW x \in Listed(s) \ {Head(s)} PROVE x \in Listed(Tail(s))
    <3>1. PICK i \in 1..Len(s) : x = s[i] /\ i # 1
      BY <1>1 DEF Listed
    <3>2. i - 1 \in 1..(Len(s) - 1) /\ (i - 1) + 1 = i
      BY <1>1, <3>1
    <3>3. i - 1 \in DOMAIN Tail(s) /\ Tail(s)[i - 1] = x
      BY <1>2, <1>3, <3>1, <3>2
    <3> QED BY ONLY <3>3 DEF Listed
  <2> QED BY <2>1, <2>2
<1>5. Head(s) \in Listed(s)
  BY <1>1 DEF Listed
<1>6. ASSUME NEW i \in DOMAIN Tail(s), NEW j \in DOMAIN Tail(s), Tail(s)[i] = Tail(s)[j]
      PROVE  i = j
  <2>1. i \in Nat /\ j \in Nat /\ i + 1 \in 1..Len(s) /\ j + 1 \in 1..Len(s)
    BY <1>1, <1>3
  <2>2. s[i + 1] = s[j + 1]
    BY <1>2, <1>3, <1>6
  <2>3. i + 1 = j + 1
    BY <1>1, <2>1, <2>2
  <2> QED BY <2>1, <2>3
<1> QED BY <1>2, <1>4, <1>5, <1>6

\* A fiber that is not in a list is put at its end.
LEMMA AppendListed ==
  ASSUME NEW S, NEW s \in Seq(S), NEW e \in S
  PROVE  /\ Append(s, e) \in Seq(S)
         /\ Listed(Append(s, e)) = Listed(s) \cup {e}
         /\ (/\ \A i, j \in DOMAIN s : s[i] = s[j] => i = j
             /\ e \notin Listed(s))
              => \A i, j \in DOMAIN Append(s, e) : Append(s, e)[i] = Append(s, e)[j] => i = j
<1>1. /\ Append(s, e) \in Seq(S)
      /\ Len(s) \in Nat /\ DOMAIN s = 1..Len(s) /\ DOMAIN Append(s, e) = 1..(Len(s) + 1)
      /\ \A i \in 1..Len(s) : Append(s, e)[i] = s[i]
      /\ Append(s, e)[Len(s) + 1] = e
  BY AppendProperties, LenProperties
<1>2. Listed(Append(s, e)) = Listed(s) \cup {e}
  <2>1. ASSUME NEW x \in Listed(Append(s, e)) PROVE x \in Listed(s) \cup {e}
    <3>1. PICK i \in 1..(Len(s) + 1) : x = Append(s, e)[i]
      BY <1>1 DEF Listed
    <3>2. i \in 1..Len(s) \/ i = Len(s) + 1
      BY <1>1
    <3> QED BY <1>1, <3>1, <3>2 DEF Listed
  <2>2. ASSUME NEW x \in Listed(s) PROVE x \in Listed(Append(s, e))
    <3>1. PICK i \in 1..Len(s) : x = s[i]
      BY <1>1 DEF Listed
    <3>2. i \in 1..(Len(s) + 1)
      BY <1>1
    <3> QED BY <1>1, <3>1, <3>2 DEF Listed
  <2>3. e \in Listed(Append(s, e))
    <3>1. Len(s) + 1 \in DOMAIN Append(s, e)
      BY <1>1
    <3> QED BY <1>1, <3>1 DEF Listed
  <2> QED BY <2>1, <2>2, <2>3
<1>3. ASSUME \A i, j \in DOMAIN s : s[i] = s[j] => i = j, e \notin Listed(s),
             NEW i \in DOMAIN Append(s, e), NEW j \in DOMAIN Append(s, e),
             Append(s, e)[i] = Append(s, e)[j]
      PROVE  i = j
  <2>1. /\ i \in 1..Len(s) \/ i = Len(s) + 1
        /\ j \in 1..Len(s) \/ j = Len(s) + 1
    BY <1>1
  <2>2. \A k \in 1..Len(s) : s[k] # e
    BY <1>1, <1>3 DEF Listed
  <2> QED BY <1>1, <1>3, <2>1, <2>2
<1> QED BY <1>1, <1>2, <1>3

\* The list that holds nobody.
LEMMA EmptyListed ==
  /\ Listed(<<>>) = {}
  /\ \A S : <<>> \in Seq(S)
  /\ \A S : \A s \in Seq(S) : s # <<>> => Listed(s) # {}
  /\ \A i, j \in DOMAIN <<>> : <<>>[i] = <<>>[j] => i = j
<1>1. ASSUME NEW S, NEW s \in Seq(S), s # <<>> PROVE Listed(s) # {}
  <2>1. 1 \in DOMAIN s
    BY <1>1, EmptySeq, LenProperties
  <2> QED BY <2>1 DEF Listed
<1>2. DOMAIN <<>> = {}
  OBVIOUS
<1> QED BY <1>1, <1>2, EmptySeq DEF Listed

\* A value that is written goes to the end of what is to be read.
LEMMA ConcatAppend ==
  ASSUME NEW S, NEW s \in Seq(S), NEW t \in Seq(S), NEW e \in S
  PROVE  s \o Append(t, e) = Append(s \o t, e)
<1>1. /\ Append(t, e) = t \o <<e>> /\ <<e>> \in Seq(S)
      /\ s \o t \in Seq(S)
  BY AppendIsConcat, ConcatProperties
<1>2. Append(s \o t, e) = (s \o t) \o <<e>>
  BY <1>1, AppendIsConcat
<1> QED BY <1>1, <1>2, ConcatAssociative

\* A value that is read moves from the one side to the other.
LEMMA MoveHead ==
  ASSUME NEW S, NEW s \in Seq(S), NEW t \in Seq(S), t # <<>>
  PROVE  Append(s, Head(t)) \o Tail(t) = s \o t
<1>1. /\ Head(t) \in S /\ Tail(t) \in Seq(S) /\ <<Head(t)>> \in Seq(S)
  BY HeadTailProperties
<1>2. t = <<Head(t)>> \o Tail(t)
  <2>1. /\ Len(t) \in Nat \ {0} /\ Head(t) = t[1]
        /\ Len(Tail(t)) = Len(t) - 1
        /\ \A i \in 1..(Len(t) - 1) : Tail(t)[i] = t[i + 1]
    BY EmptySeq, HeadTailProperties
  <2>2. /\ <<Head(t)>> \o Tail(t) \in Seq(S)
        /\ Len(<<Head(t)>> \o Tail(t)) = Len(t)
        /\ \A i \in 1..Len(t) : (<<Head(t)>> \o Tail(t))[i] = IF i <= 1 THEN t[1] ELSE Tail(t)[i - 1]
    BY <1>1, <2>1, ConcatProperties
  <2>3. ASSUME NEW i \in 1..Len(t) PROVE (<<Head(t)>> \o Tail(t))[i] = t[i]
    <3>1. CASE i = 1
      BY <2>2, <3>1
    <3>2. CASE i # 1
      <4>1. i - 1 \in 1..(Len(t) - 1) /\ (i - 1) + 1 = i /\ ~(i <= 1)
        BY <2>1, <3>2
      <4> QED BY <2>1, <2>2, <4>1
    <3> QED BY <3>1, <3>2
  <2> QED BY <2>2, <2>3, SeqEqual
<1>3. Append(s, Head(t)) = s \o <<Head(t)>>
  BY <1>1, AppendIsConcat
<1>4. (s \o <<Head(t)>>) \o Tail(t) = s \o (<<Head(t)>> \o Tail(t))
  BY <1>1, ConcatAssociative
<1> QED BY <1>2, <1>3, <1>4

-----------------------------------------------------------------------------
(* Counting the readers that are on their way.                             *)

LEMMA AcquiringFinite ==
  ASSUME NEW T \in SUBSET Readers
  PROVE  IsFiniteSet(T) /\ Cardinality(T) \in Nat
BY PipeAssumption, FS_Subset, FS_CardinalityType

\* One more.
LEMMA OneMoreAcquiring ==
  ASSUME NEW r \in Readers, r \notin Acquiring, Acquiring' = Acquiring \cup {r}
  PROVE  Cardinality(Acquiring') = Cardinality(Acquiring) + 1
<1>1. IsFiniteSet(Acquiring)
  BY AcquiringFinite DEF Acquiring
<1> QED BY <1>1, FS_AddElement

\* One less.
LEMMA OneLessAcquiring ==
  ASSUME NEW r \in Readers, r \in Acquiring, Acquiring' = Acquiring \ {r}
  PROVE  Cardinality(Acquiring') = Cardinality(Acquiring) - 1
<1>1. IsFiniteSet(Acquiring)
  BY AcquiringFinite DEF Acquiring
<1> QED BY <1>1, FS_RemoveElement

\* NoReaderStranded in these terms.
LEMMA StrandedFacts ==
  /\ NoReaderStranded <=>
       (hasValues # <<>> => ~closed /\ Len(values) <= Cardinality(Acquiring))
  /\ NoReaderStranded' <=>
       (hasValues' # <<>> => ~closed' /\ Len(values') <= Cardinality(Acquiring'))
  /\ Cardinality(Acquiring) \in Nat /\ Cardinality(Acquiring') \in Nat
<1>1. Acquiring \subseteq Readers /\ Acquiring' \subseteq Readers
  BY DEF Acquiring
<1> QED BY <1>1, AcquiringFinite DEF NoReaderStranded, Acquiring

-----------------------------------------------------------------------------
(* Every action preserves the invariant.                                   *)

\* Notify of a write: the oldest waiting reader, if any, goes for the lock.
LEMMA NotifyReaderFacts ==
  ASSUME TypeOK, ListedOnce, NotifyReader
  PROVE  /\ hasValues' \in Seq(Readers)
         /\ reader' \in [Readers -> {"idle", "acquire", "waiting", "ended"}]
         /\ Listed(hasValues') = {r \in Readers : reader'[r] = "waiting"}
         /\ ListedOnce'
         /\ \A r \in Readers : reader'[r] = "ended" <=> reader[r] = "ended"
         /\ hasValues # <<>> => Cardinality(Acquiring') = Cardinality(Acquiring) + 1
<1>1. CASE hasValues = <<>>
  BY <1>1 DEF NotifyReader, TypeOK, ListedOnce
<1>2. CASE hasValues # <<>>
  <2> DEFINE r == Head(hasValues)
  <2>1. /\ hasValues' = Tail(hasValues)
        /\ reader' = [reader EXCEPT ![r] = "acquire"]
    BY <1>2 DEF NotifyReader
  <2>2. /\ Tail(hasValues) \in Seq(Readers) /\ r \in Readers /\ r \in Listed(hasValues)
        /\ Listed(Tail(hasValues)) = Listed(hasValues) \ {r}
        /\ \A i, j \in DOMAIN Tail(hasValues) :
             Tail(hasValues)[i] = Tail(hasValues)[j] => i = j
    BY <1>2, TailListed DEF TypeOK, ListedOnce
  <2> HIDE DEF r
  <2>3. reader[r] = "waiting" /\ reader \in [Readers -> {"idle", "acquire", "waiting", "ended"}]
    BY <2>2 DEF TypeOK
  <2>4. Listed(hasValues') = {q \in Readers : reader'[q] = "waiting"}
    BY <2>1, <2>2, <2>3 DEF TypeOK
  <2>5. r \notin Acquiring /\ Acquiring' = Acquiring \cup {r}
    BY <2>1, <2>2, <2>3 DEF Acquiring
  <2>6. Cardinality(Acquiring') = Cardinality(Acquiring) + 1
    BY <2>2, <2>5, OneMoreAcquiring
  <2> QED BY <2>1, <2>2, <2>3, <2>4, <2>6 DEF ListedOnce
<1> QED BY <1>1, <1>2

\* NotifyAll of those that wait for the end.
LEMMA NotifyWatchersFacts ==
  ASSUME TypeOK, NotifyWatchers
  PROVE  /\ closedAndEmpty' = <<>> /\ closedAndEmpty' \in Seq(Watchers)
         /\ watcher' \in [Watchers -> {"idle", "acquire", "waiting", "returned"}]
         /\ Listed(closedAndEmpty') = {w \in Watchers : watcher'[w] = "waiting"}
         /\ \A w \in Watchers : watcher'[w] = "returned" => watcher[w] = "returned"
BY EmptyListed DEF NotifyWatchers, TypeOK

\* Write: the value is put at the end and one reader notified, or it is dropped.
LEMMA WriteStep ==
  ASSUME IInv, Write
  PROVE  IInv'
<1> USE DEF IInv
<1>1. CASE closed
  <2>1. /\ UNCHANGED <<values, accepted, hasValues, reader, closed, closedAndEmpty, watcher, taken>>
        /\ written' = written + 1 /\ written < MaxWrites
    BY <1>1 DEF Write
  <2>2. written' \in 0..MaxWrites
    BY <2>1, PipeAssumption DEF TypeOK
  <2>3. TypeOK'
    BY <2>1, <2>2 DEF TypeOK
  <2>4. ListedOnce' /\ EndIsFinal' /\ Drained' /\ NoReaderStranded' /\ NoWatcherStranded'
    BY <2>1 DEF ListedOnce, EndIsFinal, Drained, NoReaderStranded, NoWatcherStranded
  <2> QED BY <2>3, <2>4
<1>2. CASE ~closed
  <2>1. /\ values' = Append(values, written + 1) /\ accepted' = Append(accepted, written + 1)
        /\ NotifyReader /\ written' = written + 1 /\ written < MaxWrites
        /\ UNCHANGED <<closed, closedAndEmpty, watcher, taken>>
    BY <1>2 DEF Write
  <2>2. written + 1 \in 1..MaxWrites /\ written' \in 0..MaxWrites
    BY <2>1, PipeAssumption DEF TypeOK
  <2>3. ASSUME NEW S, NEW s \in Seq(S), NEW e \in S
        PROVE  /\ Append(s, e) \in Seq(S) /\ Append(s, e) # <<>>
               /\ Len(Append(s, e)) = Len(s) + 1 /\ Len(s) \in Nat
    BY AppendProperties, LenProperties
  <2>4. values \in Seq(1..MaxWrites) /\ accepted \in Seq(1..MaxWrites)
    BY DEF TypeOK
  <2>5. /\ values' \in Seq(1..MaxWrites) /\ accepted' \in Seq(1..MaxWrites)
        /\ values' # <<>> /\ Len(values') = Len(values) + 1 /\ Len(values) \in Nat
    BY <2>1, <2>2, <2>3, <2>4, Zenon
  <2>6. TypeOK' /\ ListedOnce'
    BY <2>1, <2>2, <2>5, NotifyReaderFacts DEF TypeOK
  <2>7. EndIsFinal'
    BY <1>2, <2>1, NotifyReaderFacts DEF EndIsFinal
  <2>8. Drained'
    <3>1. taken \o Append(values, written + 1) = Append(taken \o values, written + 1)
      BY <2>2, ConcatAppend DEF TypeOK
    <3> QED BY <2>1, <3>1, Zenon DEF Drained
  <2>9. NoReaderStranded'
    <3>1. hasValues' # <<>> => hasValues # <<>>
      BY <2>1 DEF NotifyReader
    <3> QED BY <1>2, <2>1, <2>5, <3>1, NotifyReaderFacts, StrandedFacts
  <2>10. NoWatcherStranded'
    BY <1>2, <2>1 DEF NoWatcherStranded
  <2> QED BY <2>6, <2>7, <2>8, <2>9, <2>10
<1> QED BY <1>1, <1>2

\* Close: all readers are notified, and the watchers if the pipe is empty.
LEMMA CloseStep ==
  ASSUME IInv, Close
  PROVE  IInv'
<1> USE DEF IInv
<1>1. /\ closedAndEmpty' \in Seq(Watchers)
      /\ watcher' \in [Watchers -> {"idle", "acquire", "waiting", "returned"}]
      /\ Listed(closedAndEmpty') = {w \in Watchers : watcher'[w] = "waiting"}
      /\ \A w \in Watchers : watcher'[w] = "returned" => watcher[w] = "returned"
      /\ closedAndEmpty' # <<>> => values # <<>>
  BY NotifyWatchersFacts DEF Close, TypeOK
<1>2. /\ hasValues' \in Seq(Readers) /\ ListedOnce'
      /\ reader' \in [Readers -> {"idle", "acquire", "waiting", "ended"}]
      /\ Listed(hasValues') = {r \in Readers : reader'[r] = "waiting"}
      /\ \A r \in Readers : reader'[r] = "ended" => reader[r] = "ended"
  BY EmptyListed DEF Close, TypeOK, ListedOnce
<1>3. TypeOK'
  BY <1>1, <1>2 DEF Close, TypeOK
<1>4. EndIsFinal'
  BY <1>1, <1>2 DEF Close, EndIsFinal
<1>5. Drained' /\ NoReaderStranded' /\ NoWatcherStranded'
  BY <1>1 DEF Close, Drained, NoReaderStranded, NoWatcherStranded
<1> QED BY <1>2, <1>3, <1>4, <1>5

\* A reader is asked for its next value.
LEMMA AskStep ==
  ASSUME IInv, NEW r \in Readers, Ask(r)
  PROVE  IInv'
<1> USE DEF IInv
<1>1. TypeOK'
  BY DEF Ask, TypeOK
<1>2. ListedOnce' /\ EndIsFinal' /\ Drained' /\ NoWatcherStranded'
  BY DEF Ask, TypeOK, ListedOnce, EndIsFinal, Drained, NoWatcherStranded
<1>3. NoReaderStranded'
  <2>1. r \notin Acquiring /\ Acquiring' = Acquiring \cup {r}
    BY DEF Ask, TypeOK, Acquiring
  <2>2. Cardinality(Acquiring') = Cardinality(Acquiring) + 1
    BY <2>1, OneMoreAcquiring
  <2>3. Len(values) \in Nat
    BY LenProperties DEF TypeOK
  <2> QED BY <2>2, <2>3, StrandedFacts DEF Ask
<1> QED BY <1>1, <1>2, <1>3

\* A reader finds nothing and waits.
LEMMA ReadWaitStep ==
  ASSUME IInv, NEW r \in Readers, ReadWait(r)
  PROVE  IInv'
<1> USE DEF IInv
<1>1. r \notin Listed(hasValues)
  BY DEF ReadWait, TypeOK
<1>2. /\ hasValues' \in Seq(Readers) /\ Listed(hasValues') = Listed(hasValues) \cup {r}
      /\ ListedOnce'
  BY SMTT(20), <1>1, AppendListed DEF ReadWait, TypeOK, ListedOnce
<1>3. TypeOK'
  BY <1>2 DEF ReadWait, TypeOK
<1>4. EndIsFinal' /\ Drained' /\ NoWatcherStranded'
  BY DEF ReadWait, TypeOK, EndIsFinal, Drained, NoWatcherStranded
<1>5. NoReaderStranded'
  <2>1. Len(values') = 0 /\ ~closed'
    BY EmptySeq DEF ReadWait
  <2> QED BY <2>1, StrandedFacts
<1> QED BY <1>2, <1>3, <1>4, <1>5

\* A reader takes the oldest value, and tells the watchers if it was the last.
LEMMA ReadValueStep ==
  ASSUME IInv, NEW r \in Readers, ReadValue(r)
  PROVE  IInv'
<1> USE DEF IInv
<1>1. /\ values # <<>> /\ reader[r] = "acquire" /\ values' = Tail(values)
      /\ taken' = Append(taken, Head(values)) /\ reader' = [reader EXCEPT ![r] = "idle"]
      /\ UNCHANGED <<closed, hasValues, written, accepted>>
  BY DEF ReadValue
<1>2. /\ values' \in Seq(1..MaxWrites) /\ taken' \in Seq(1..MaxWrites)
      /\ Len(values) \in Nat /\ Len(values') = Len(values) - 1
  BY <1>1, HeadTailProperties, AppendProperties, LenProperties DEF TypeOK
<1>3. /\ closedAndEmpty' \in Seq(Watchers)
      /\ watcher' \in [Watchers -> {"idle", "acquire", "waiting", "returned"}]
      /\ Listed(closedAndEmpty') = {w \in Watchers : watcher'[w] = "waiting"}
      /\ \A w \in Watchers : watcher'[w] = "returned" => watcher[w] = "returned"
      /\ closedAndEmpty' # <<>> => values' # <<>> \/ ~closed
  BY NotifyWatchersFacts DEF ReadValue, TypeOK
<1>4. TypeOK'
  BY <1>1, <1>2, <1>3 DEF TypeOK
<1>5. ListedOnce' /\ NoWatcherStranded'
  BY <1>1, <1>3 DEF ListedOnce, NoWatcherStranded
<1>6. EndIsFinal'
  BY <1>1, <1>3 DEF EndIsFinal, TypeOK
<1>7. Drained'
  BY <1>1, MoveHead DEF Drained, TypeOK
<1>8. NoReaderStranded'
  <2>1. r \in Acquiring /\ Acquiring' = Acquiring \ {r}
    BY <1>1 DEF TypeOK, Acquiring
  <2>2. Cardinality(Acquiring') = Cardinality(Acquiring) - 1
    BY <2>1, OneLessAcquiring
  <2> QED BY <1>1, <1>2, <2>2, StrandedFacts
<1> QED BY <1>4, <1>5, <1>6, <1>7, <1>8

\* A reader finds the pipe closed and empty.
LEMMA ReadEndStep ==
  ASSUME IInv, NEW r \in Readers, ReadEnd(r)
  PROVE  IInv'
<1> USE DEF IInv
<1>1. TypeOK'
  BY DEF ReadEnd, TypeOK
<1>2. ListedOnce' /\ EndIsFinal' /\ Drained' /\ NoReaderStranded' /\ NoWatcherStranded'
  BY DEF ReadEnd, TypeOK, ListedOnce, EndIsFinal, Drained, NoReaderStranded, NoWatcherStranded
<1> QED BY <1>1, <1>2

\* A watcher waits, or returns.
LEMMA WatcherStep ==
  ASSUME IInv, NEW w \in Watchers, WaitForClosedAndEmpty(w)
  PROVE  IInv'
<1> USE DEF IInv
<1>1. /\ watcher[w] \in {"idle", "acquire"}
      /\ UNCHANGED <<values, closed, hasValues, reader, written, accepted, taken>>
  BY DEF WaitForClosedAndEmpty
<1>2. ListedOnce' /\ Drained' /\ NoReaderStranded'
  BY <1>1 DEF ListedOnce, Drained, NoReaderStranded
<1>3. CASE values # <<>> \/ ~closed
  <2>1. /\ watcher' = [watcher EXCEPT ![w] = "waiting"]
        /\ closedAndEmpty' = Append(closedAndEmpty, w)
    BY <1>3 DEF WaitForClosedAndEmpty
  <2>2. /\ closedAndEmpty' \in Seq(Watchers)
        /\ Listed(closedAndEmpty') = Listed(closedAndEmpty) \cup {w}
    BY <2>1, AppendListed DEF TypeOK
  <2>3. TypeOK'
    BY <1>1, <2>1, <2>2 DEF TypeOK
  <2>4. EndIsFinal' /\ NoWatcherStranded'
    BY <1>1, <1>3, <2>1 DEF EndIsFinal, NoWatcherStranded, TypeOK
  <2> QED BY <1>2, <2>3, <2>4
<1>4. CASE ~(values # <<>> \/ ~closed)
  <2>1. watcher' = [watcher EXCEPT ![w] = "returned"] /\ UNCHANGED closedAndEmpty
    BY <1>4 DEF WaitForClosedAndEmpty
  <2>2. TypeOK'
    BY <1>1, <2>1 DEF TypeOK
  <2>3. EndIsFinal' /\ NoWatcherStranded'
    BY <1>1, <1>4, <2>1 DEF EndIsFinal, NoWatcherStranded
  <2> QED BY <1>2, <2>2, <2>3
<1> QED BY <1>3, <1>4

-----------------------------------------------------------------------------

\* The inductive invariant of the pipe holds for any readers, watchers and writes.
THEOREM PipeInvariant == Spec => []IInv
<1>1. Init => IInv
  <2> SUFFICES ASSUME Init PROVE IInv
    OBVIOUS
  <2>1. TypeOK
    <3>1. 0 \in 0..MaxWrites
      BY PipeAssumption
    <3>2. \A S : <<>> \in Seq(S)
      BY EmptyListed
    <3>3. /\ {r \in Readers : reader[r] = "waiting"} = {}
          /\ {w \in Watchers : watcher[w] = "waiting"} = {}
      BY DEF Init
    <3>4. Listed(<<>>) = {}
      BY EmptyListed
    <3> QED BY <3>1, <3>2, <3>3, <3>4 DEF Init, TypeOK
  <2>2. Drained
    BY EmptySeq, ConcatEmptySeq DEF Init, Drained
  <2>3. ListedOnce
    BY EmptyListed DEF Init, ListedOnce
  <2> QED BY <2>1, <2>2, <2>3 DEF Init, IInv, EndIsFinal, NoReaderStranded, NoWatcherStranded
<1>2. IInv /\ [Next]_vars => IInv'
  <2> SUFFICES ASSUME IInv, [Next]_vars PROVE IInv'
    OBVIOUS
  <2>1. CASE Write
    BY <2>1, WriteStep
  <2>2. CASE Close
    BY <2>2, CloseStep
  <2>3. ASSUME NEW r \in Readers, Ask(r) \/ ReadStep(r) PROVE IInv'
    BY <2>3, AskStep, ReadWaitStep, ReadValueStep, ReadEndStep DEF ReadStep
  <2>4. ASSUME NEW w \in Watchers, WaitForClosedAndEmpty(w) PROVE IInv'
    BY <2>4, WatcherStep
  <2>5. CASE UNCHANGED vars
    BY <2>5 DEF vars, IInv, TypeOK, ListedOnce, EndIsFinal, Drained, NoReaderStranded,
                NoWatcherStranded
  <2> QED BY <2>1, <2>2, <2>3, <2>4, <2>5 DEF Next
<1> QED BY <1>1, <1>2, PTL DEF Spec

\* Readers get the accepted values in order, each value one reader, and whoever
\* sees the end of the pipe leaves nothing behind (Write, Read and
\* WaitForClosedAndEmpty of pipe.h).
THEOREM PipeNothingLeftBehind == Spec => []NothingLeftBehind
<1>1. IInv => NothingLeftBehind
  BY ConcatEmptySeq DEF IInv, TypeOK, EndIsFinal, Drained, NothingLeftBehind
<1> QED BY <1>1, PipeInvariant, PTL

\* A waiting reader is outnumbered by readers on their way to the values, though
\* Write notifies one reader only, and nobody waits at a closed pipe.
THEOREM PipeNoReaderStranded == Spec => []NoReaderStranded
<1>1. IInv => NoReaderStranded
  BY DEF IInv
<1> QED BY <1>1, PipeInvariant, PTL

\* A watcher waits only while the pipe is open or has values: Close and the last
\* Read both tell it.
THEOREM PipeNoWatcherStranded == Spec => []NoWatcherStranded
<1>1. IInv => NoWatcherStranded
  BY DEF IInv
<1> QED BY <1>1, PipeInvariant, PTL

=============================================================================

------------------------- MODULE CircuitBreakerProofs -------------------------
(***************************************************************************)
(* Theorems about the circuit breaker, for every configuration and every   *)
(* set of threads.                                                         *)
(***************************************************************************)
EXTENDS CircuitBreaker, SequenceTheorems, FiniteSetTheorems, WellFoundedInduction, TLAPS

USE ConfigAssumption

-----------------------------------------------------------------------------
(* The sliding window counts its failures.                                 *)

\* The failures among the samples m..n.
Failures(e, m, n) == Cardinality({i \in m..n : e[i].failure})

\* Counting splits at any place.
LEMMA FailuresSplit ==
  ASSUME NEW e, NEW n \in Nat, NEW k \in 0..n
  PROVE  /\ Failures(e, 1, n) \in Nat /\ Failures(e, 1, k) \in Nat /\ Failures(e, k + 1, n) \in Nat
         /\ Failures(e, 1, n) = Failures(e, 1, k) + Failures(e, k + 1, n)
<1> DEFINE A == {i \in 1..k : e[i].failure}
           B == {i \in (k + 1)..n : e[i].failure}
           C == {i \in 1..n : e[i].failure}
<1>1. C = A \cup B /\ A \cap B = {}
  OBVIOUS
<1>2. IsFiniteSet(1..n) /\ C \in SUBSET (1..n)
  <2>1. 1 \in Int /\ n \in Int
    OBVIOUS
  <2>2. IsFiniteSet(1..n)
    BY <2>1, FS_Interval, Zenon
  <2> QED BY <2>2
<1>3. IsFiniteSet(C)
  BY <1>2, FS_Subset
<1>4. A \in SUBSET C /\ B \in SUBSET C
  BY <1>1
<1>5. IsFiniteSet(A) /\ IsFiniteSet(B)
  BY <1>3, <1>4, FS_Subset
<1>6. Cardinality(A) \in Nat /\ Cardinality(B) \in Nat /\ Cardinality(C) \in Nat
  BY <1>3, <1>5, FS_CardinalityType
<1>7. Cardinality({}) = 0
  BY FS_EmptySet
<1> HIDE DEF A, B, C
<1>8. Cardinality(C) = Cardinality(A) + Cardinality(B)
  <2>1. Cardinality(A \cup B) = Cardinality(A) + Cardinality(B) - Cardinality(A \cap B)
    BY <1>5, FS_Union, Zenon
  <2>2. Cardinality(A \cup B) = Cardinality(C) /\ Cardinality(A \cap B) = 0
    BY <1>1, <1>7
  <2> QED BY <1>6, <2>1, <2>2
<1> QED BY <1>6, <1>8 DEF Failures, A, B, C

\* One sample counts as one if it failed.
LEMMA FailuresOne ==
  ASSUME NEW e, NEW n \in Int
  PROVE  Failures(e, n, n) = IF e[n].failure THEN 1 ELSE 0
<1>1. CASE e[n].failure
  <2>1. {i \in n..n : e[i].failure} = {n}
    BY <1>1
  <2> QED BY <1>1, <2>1, FS_Singleton DEF Failures
<1>2. CASE ~e[n].failure
  <2>1. {i \in n..n : e[i].failure} = {}
    BY <1>2
  <2> QED BY <1>2, <2>1, FS_EmptySet DEF Failures
<1> QED BY <1>1, <1>2

\* Counting looks at the samples only.
LEMMA FailuresSame ==
  ASSUME NEW e, NEW f, NEW m \in Int, NEW n \in Int, \A i \in m..n : e[i] = f[i]
  PROVE  Failures(e, m, n) = Failures(f, m, n)
<1>1. {i \in m..n : e[i].failure} = {i \in m..n : f[i].failure}
  OBVIOUS
<1> QED BY <1>1 DEF Failures

\* Samples dropped from the front do not change the count of the others.
LEMMA FailuresShift ==
  ASSUME NEW e, NEW f, NEW n \in Nat, NEW k \in 0..n, \A i \in 1..(n - k) : f[i] = e[i + k]
  PROVE  Failures(f, 1, n - k) = Failures(e, k + 1, n)
<1> DEFINE A == {i \in 1..(n - k) : f[i].failure}
           B == {i \in (k + 1)..n : e[i].failure}
           g == [i \in A |-> i + k]
<1>1. IsFiniteSet(A)
  <2>1. 1 \in Int /\ n - k \in Int
    OBVIOUS
  <2>2. IsFiniteSet(1..(n - k))
    BY <2>1, FS_Interval
  <2>3. A \in SUBSET (1..(n - k))
    OBVIOUS
  <2> QED BY <2>2, <2>3, FS_Subset
<1>2. \A i \in A : g[i] \in B
  OBVIOUS
<1>3. \A i, j \in A : g[i] = g[j] => i = j
  OBVIOUS
<1>4. \A j \in B : j - k \in A /\ g[j - k] = j
  OBVIOUS
<1> HIDE DEF A, B
<1>5. g \in [A -> B]
  BY <1>2
<1> HIDE DEF g
<1>6. g \in Bijection(A, B)
  BY <1>3, <1>4, <1>5 DEF Bijection, Injection, Surjection, IsInjective
<1>7. ExistsBijection(A, B)
  BY <1>6 DEF ExistsBijection
<1> QED BY <1>1, <1>7, FS_Bijection DEF Failures, A, B

\* What the window says of itself: few enough samples, and their failures.
WindowOK(w) == /\ w.entries \in Seq(Sample) /\ Len(w.entries) <= MaxEntries
               /\ w.failures = Failures(w.entries, 1, Len(w.entries))

\* How many samples evict pops is well defined.
LEMMA StaleCountFacts ==
  ASSUME NEW e \in Seq(Sample), NEW at \in Nat
  PROVE  StaleCount(e, at) \in 0..Len(e)
<1> DEFINE Stops == {n \in 0..Len(e) : n = Len(e) \/ Elapsed(at, e[n + 1].at) <= WindowDuration}
<1>1. Len(e) \in Nat
  OBVIOUS
<1>2. Stops \in SUBSET Nat /\ Len(e) \in Stops
  BY <1>1
<1>3. PICK n \in Stops : \A m \in Stops : ~ (<<m, n>> \in OpToRel(<, Nat))
  BY <1>2, NatLessThanWellFounded, WFMin
<1>4. \A m \in Stops : n <= m
  <2>1. \A m \in Stops : m \in Nat /\ n \in Nat
    BY <1>1
  <2>2. \A m \in Stops : ~ (m < n)
    BY <1>3, <2>1 DEF OpToRel
  <2> QED BY <2>1, <2>2
<1>5. ASSUME NEW i \in 1..n PROVE Elapsed(at, e[i].at) > WindowDuration
  <2>1. n \in 0..Len(e) /\ i \in 1..Len(e)
    BY <1>1
  <2>2. i - 1 \notin Stops
    <3>1. i - 1 \in Nat /\ n \in Nat /\ ~ (n <= i - 1)
      BY <1>1, <2>1
    <3> QED BY <1>4, <3>1
  <2>3. (i - 1) + 1 = i /\ i - 1 # Len(e) /\ i - 1 \in 0..Len(e)
    BY <1>1, <2>1
  <2>4. ~ (Elapsed(at, e[i].at) <= WindowDuration)
    BY <2>2, <2>3
  <2>5. e[i] \in Sample
    BY <2>1
  <2>6. e[i].at \in Nat
    BY SMTT(30), <2>5 DEF Sample
  <2>7. Elapsed(at, e[i].at) \in Nat
    BY SMTT(30), <2>6 DEF Elapsed
  <2> QED BY <2>4, <2>7
<1>6. \E m \in 0..Len(e) : /\ \A i \in 1..m : Elapsed(at, e[i].at) > WindowDuration
                           /\ m = Len(e) \/ Elapsed(at, e[m + 1].at) <= WindowDuration
  BY <1>5
<1> QED BY <1>6 DEF StaleCount

\* push keeps the count: at the cap it takes off the failure that leaves.
LEMMA PushedOK ==
  ASSUME NEW w, WindowOK(w), NEW failure \in BOOLEAN, NEW at \in 0..MaxTime
  PROVE  WindowOK(Pushed(w, failure, at))
<1> DEFINE e == w.entries
           x == [at |-> at, failure |-> failure]
           r == IF Len(e) >= MaxEntries THEN Tail(e) ELSE e
           gone == IF Len(e) >= MaxEntries /\ Head(e).failure THEN 1 ELSE 0
           p == Pushed(w, failure, at)
<1>1. e \in Seq(Sample) /\ x \in Sample /\ Len(e) \in Nat /\ Len(e) <= MaxEntries
  BY DEF WindowOK, Sample
<1>2. p.entries = Append(r, x) /\ p.failures = w.failures - gone + (IF failure THEN 1 ELSE 0)
  BY DEF Pushed
<1>3. /\ r \in Seq(Sample) /\ Len(r) < MaxEntries /\ Len(r) \in Nat
      /\ w.failures = gone + Failures(r, 1, Len(r)) /\ Failures(r, 1, Len(r)) \in Nat
  <2>1. w.failures = Failures(e, 1, Len(e))
    BY DEF WindowOK
  <2>2. CASE Len(e) < MaxEntries
    <3>1. r = e /\ gone = 0
      BY <1>1, <2>2
    <3>2. Failures(e, 1, Len(e)) \in Nat
      BY <1>1, FailuresSplit
    <3> HIDE DEF r, gone, e
    <3> QED BY <1>1, <2>1, <2>2, <3>1, <3>2
  <2>3. CASE Len(e) >= MaxEntries
    <3>1. Len(e) >= 1 /\ e # <<>>
      BY <1>1, <2>3
    <3>2. /\ r = Tail(e) /\ r \in Seq(Sample) /\ Len(r) = Len(e) - 1
          /\ \A i \in 1..(Len(e) - 1) : r[i] = e[i + 1]
      BY <1>1, <2>3, <3>1, HeadTailProperties
    <3>0. 1 \in 0..Len(e)
      BY <1>1, <3>1
    <3>3. Failures(r, 1, Len(e) - 1) = Failures(e, 1 + 1, Len(e))
      <4> HIDE DEF r, e
      <4>1. \A i \in 1..(Len(e) - 1) : r[i] = e[i + 1]
        BY <3>2
      <4>2. 1 \in 0..Len(e) /\ Len(e) \in Nat
        BY <1>1, <3>0
      <4> QED BY <4>1, <4>2, FailuresShift
    <3>4. /\ Failures(e, 1, Len(e)) = Failures(e, 1, 1) + Failures(e, 1 + 1, Len(e))
          /\ Failures(e, 1 + 1, Len(e)) \in Nat
      <4> HIDE DEF e
      <4>1. 1 \in 0..Len(e) /\ Len(e) \in Nat
        BY <1>1, <3>0
      <4> QED BY <4>1, FailuresSplit
    <3>5. gone = Failures(e, 1, 1)
      BY <2>3, <3>1, <1>1, FailuresOne
    <3> HIDE DEF r, gone, e
    <3>6. Len(r) \in Nat /\ Len(r) < MaxEntries
      BY <1>1, <3>1, <3>2
    <3>7. Failures(r, 1, Len(r)) = Failures(e, 1 + 1, Len(e))
      BY <3>2, <3>3
    <3>8. w.failures = gone + Failures(r, 1, Len(r)) /\ Failures(r, 1, Len(r)) \in Nat
      BY <2>1, <3>4, <3>5, <3>7
    <3> QED BY <3>2, <3>6, <3>8
  <2> HIDE DEF r, gone, e
  <2> QED BY <1>1, <2>2, <2>3, ConfigAssumption
<1> HIDE DEF r, gone, e
<1>4. /\ p.entries \in Seq(Sample) /\ Len(p.entries) = Len(r) + 1
      /\ \A i \in 1..Len(r) : p.entries[i] = r[i]
      /\ p.entries[Len(r) + 1] = x
  BY <1>1, <1>2, <1>3, AppendProperties
<1> HIDE DEF p
<1>5. /\ Failures(p.entries, 1, Len(r) + 1)
            = Failures(p.entries, 1, Len(r)) + Failures(p.entries, Len(r) + 1, Len(r) + 1)
      /\ Failures(p.entries, 1, Len(r)) = Failures(r, 1, Len(r))
      /\ Failures(p.entries, Len(r) + 1, Len(r) + 1) = IF failure THEN 1 ELSE 0
  <2>1. Failures(p.entries, 1, Len(r)) = Failures(r, 1, Len(r))
    <3>1. 1 \in Int /\ Len(r) \in Int
      BY <1>3
    <3> QED BY ZenonT(60), <3>1, <1>4, FailuresSame
  <2>2. Failures(p.entries, Len(r) + 1, Len(r) + 1) = IF failure THEN 1 ELSE 0
    BY SMTT(30), <1>3, <1>4, FailuresOne
  <2>3. Len(r) + 1 \in Nat /\ Len(r) \in 0..(Len(r) + 1)
    BY <1>3
  <2> QED BY <2>1, <2>2, <2>3, FailuresSplit
<1>6. p.failures = Failures(p.entries, 1, Len(p.entries))
  <2>1. gone \in Nat
    BY DEF gone
  <2> QED BY <1>2, <1>3, <1>4, <1>5, <2>1
<1> QED BY <1>3, <1>4, <1>6 DEF WindowOK, p

\* evict keeps the count: it takes off the failures it pops.
LEMMA EvictedOK ==
  ASSUME NEW w, WindowOK(w), NEW at \in Nat
  PROVE  WindowOK(Evicted(w, at))
<1> DEFINE e == w.entries
           n == StaleCount(e, at)
           v == Evicted(w, at)
<1>1. e \in Seq(Sample) /\ Len(e) \in Nat /\ Len(e) <= MaxEntries
  BY DEF WindowOK
<1>2. n \in 0..Len(e) /\ n \in Nat
  <2>1. n \in 0..Len(e)
    BY <1>1, StaleCountFacts
  <2> QED BY <2>1, <1>1
<1>3. v.entries = SubSeq(e, n + 1, Len(e)) /\ v.failures = w.failures - Failures(e, 1, n)
  BY DEF Evicted, Quantify, Failures
<1> HIDE DEF n, v, e
<1>4. \A i \in (n + 1)..Len(e) : e[i] \in Sample
  BY <1>1, <1>2
<1>5. /\ v.entries \in Seq(Sample)
      /\ Len(v.entries) = IF n + 1 <= Len(e) THEN Len(e) - (n + 1) + 1 ELSE 0
      /\ \A i \in 1..(Len(e) - (n + 1) + 1) : v.entries[i] = e[(n + 1) + i - 1]
  BY SMTT(30), <1>1, <1>2, <1>3, <1>4, SubSeqProperties
<1>6. Len(v.entries) = Len(e) - n /\ \A i \in 1..(Len(e) - n) : v.entries[i] = e[i + n]
  <2>1. Len(e) - (n + 1) + 1 = Len(e) - n /\ \A i \in 1..(Len(e) - n) : (n + 1) + i - 1 = i + n
    BY <1>1, <1>2
  <2>2. n + 1 <= Len(e) \/ Len(e) - n = 0
    BY <1>1, <1>2
  <2> QED BY <1>5, <2>1, <2>2
<1>7. Failures(v.entries, 1, Len(e) - n) = Failures(e, n + 1, Len(e))
  BY ZenonT(60), <1>1, <1>2, <1>6, FailuresShift
<1>8. /\ Failures(e, 1, Len(e)) = Failures(e, 1, n) + Failures(e, n + 1, Len(e))
      /\ Failures(e, 1, n) \in Nat /\ Failures(e, n + 1, Len(e)) \in Nat
  BY <1>1, <1>2, FailuresSplit
<1>9. w.failures = Failures(e, 1, Len(e))
  BY DEF WindowOK, e
<1>10. v.failures = Failures(v.entries, 1, Len(v.entries))
  <2>1. v.failures = Failures(e, n + 1, Len(e))
    BY <1>3, <1>8, <1>9
  <2>2. Failures(v.entries, 1, Len(v.entries)) = Failures(e, n + 1, Len(e))
    BY <1>6, <1>7
  <2> QED BY <2>1, <2>2
<1> QED BY SMTT(30), <1>1, <1>2, <1>5, <1>6, <1>10 DEF WindowOK, v
-----------------------------------------------------------------------------
(* Types, and the window.                                                  *)

\* TypeOK, with the window's failures counted.
TypeInv == TypeOK /\ WindowOK(window)

\* The counter wraps within its width.
LEMMA CounterType ==
  ASSUME NEW n \in Nat
  PROVE  n % CounterMod \in 0..(CounterMod - 1)
<1>1. CounterMod > 0 /\ CounterMod \in Nat
  OBVIOUS
<1> QED BY <1>1

\* A thread moves to a point of the code, and only its own place moves.
LEMMA Moves ==
  ASSUME TypeInv, NEW t \in Threads, CheckStep(t) \/ RecordStep(t)
  PROVE  \E p \in Points : pc' = [pc EXCEPT ![t] = p]
<1>1. /\ CheckIn[state] \in Points /\ RecheckIn[state] \in Points /\ RecordIn(t)[state] \in Points
  <2>1. state \in {"Closed", "Open", "HalfOpen"}
    BY DEF TypeInv, TypeOK, States
  <2> QED BY <2>1 DEF CheckIn, RecheckIn, RecordIn, Points
<1>2. CASE Check(t) \/ Recheck(t) \/ RecordState(t)
  BY <1>1, <1>2 DEF Check, Recheck, RecordState, Goto
<1>3. CASE LoadOpened(t) \/ OpenClock(t) \/ CasState(t) \/ ClearFast(t) \/ ProbeClock(t)
  BY <1>3 DEF LoadOpened, OpenClock, CasState, ClearFast, ProbeClock, StoreFast, ReadClock, Goto, Points
<1>4. CASE Claim(t) \/ Stamp(t) \/ Unclaim(t) \/ LoadClaimed(t) \/ Reclaim(t)
  BY <1>4 DEF Claim, Stamp, Unclaim, LoadClaimed, Reclaim, Admit, Goto, Points
<1>5. CASE Abandon(t) \/ Push(t) \/ \E failure \in BOOLEAN : Record(t, failure)
  BY <1>5 DEF Abandon, Push, Record, Goto, Points
<1>6. CASE TripState(t) \/ TripClock(t) \/ TripOpened(t) \/ TripProbes(t) \/ TripFast(t)
  BY <1>6 DEF TripState, TripClock, TripOpened, TripProbes, TripFast, StoreState, StoreFast,
     StoreProbes, ReadClock, Goto, Points
<1>7. CASE CloseState(t) \/ CloseWindow(t) \/ CloseProbes(t) \/ CloseFast(t)
  BY <1>7 DEF CloseState, CloseWindow, CloseProbes, CloseFast, StoreState, StoreFast, StoreProbes,
     Goto, Points
<1> QED BY <1>2, <1>3, <1>4, <1>5, <1>6, <1>7 DEF CheckStep, RecordStep

\* The step of a thread in check() keeps the types.
LEMMA CheckType ==
  ASSUME TypeInv, NEW t \in Threads, CheckStep(t)
  PROVE  TypeInv'
<1>1. window' = window
  BY DEF CheckStep, Check, LoadOpened, OpenClock, CasState, Recheck, ClearFast, ProbeClock, Claim,
     Stamp, Unclaim, LoadClaimed, Reclaim, StoreFast, ReadClock
<1>2. WindowOK(window)' /\ (window.entries \in Seq(Sample) /\ Len(window.entries) <= MaxEntries
                           /\ window.failures \in Nat)'
  BY <1>1 DEF TypeInv, TypeOK, WindowOK
<1>3. pc' \in [Threads -> Points]
  BY Moves DEF TypeInv, TypeOK
<1>4. probes' \in 0..(CounterMod - 1)
  <2>1. probes \in 0..(CounterMod - 1) /\ probes + 1 \in Nat /\ probes + CounterMod - 1 \in Nat
    <3>1. probes \in 0..(CounterMod - 1) /\ CounterMod \in Nat
      BY DEF TypeInv, TypeOK
    <3> QED BY <3>1
  <2>2. CASE Claim(t)
    BY <2>1, <2>2, CounterType DEF Claim
  <2>3. CASE Unclaim(t)
    BY <2>1, <2>3, CounterType DEF Unclaim
  <2>4. CASE UNCHANGED probes
    BY <2>1, <2>4
  <2> QED BY <2>2, <2>3, <2>4 DEF CheckStep, Check, LoadOpened, OpenClock, CasState, Recheck,
     ClearFast, ProbeClock, Stamp, LoadClaimed, Reclaim, StoreFast, ReadClock
<1>5. state' \in States /\ fast' \in BOOLEAN
  BY DEF CheckStep, Check, LoadOpened, OpenClock, CasState, Recheck, ClearFast, ProbeClock, Claim,
     Stamp, Unclaim, LoadClaimed, Reclaim, StoreFast, ReadClock, TypeInv, TypeOK, States
<1>6. /\ opened' \in 0..MaxTime /\ time' \in 0..MaxTime /\ failed' \in [Threads -> BOOLEAN]
      /\ now' \in [Threads -> 0..MaxTime] /\ seen' \in [Threads -> 0..MaxTime]
  BY DEF CheckStep, Check, LoadOpened, OpenClock, CasState, Recheck, ClearFast, ProbeClock, Claim,
     Stamp, Unclaim, LoadClaimed, Reclaim, StoreFast, ReadClock, TypeInv, TypeOK, locals
<1>7. /\ claimed' \in 0..MaxTime /\ cause' \in 0..MaxTime
      /\ probeAt' \in [Threads -> (0..MaxTime) \cup {None}]
  <2>1. now[t] \in 0..MaxTime /\ time \in 0..MaxTime
    BY DEF TypeInv, TypeOK
  <2>2. CASE Stamp(t) \/ Reclaim(t)
    BY <2>1, <2>2 DEF Stamp, Reclaim, Admit, history, TypeInv, TypeOK
  <2>3. CASE UNCHANGED <<claimed, history>>
    BY <2>3 DEF history, TypeInv, TypeOK
  <2> QED BY <2>2, <2>3 DEF CheckStep, Check, LoadOpened, OpenClock, CasState, Recheck, ClearFast,
     ProbeClock, Claim, Unclaim, LoadClaimed, StoreFast, ReadClock
<1> QED BY <1>2, <1>3, <1>4, <1>5, <1>6, <1>7 DEF TypeInv, TypeOK

\* The step of a thread in record() keeps the types.
LEMMA RecordType ==
  ASSUME TypeInv, NEW t \in Threads, RecordStep(t)
  PROVE  TypeInv'
<1>1. now[t] \in 0..MaxTime /\ now[t] \in Nat /\ failed[t] \in BOOLEAN
  BY DEF TypeInv, TypeOK
<1>2. WindowOK(window')
  <2>1. CASE Push(t)
    <3>1. WindowOK(Pushed(window, failed[t], now[t]))
      BY <1>1, PushedOK DEF TypeInv
    <3> QED BY <1>1, <2>1, <3>1, EvictedOK DEF Push
  <2>2. CASE CloseWindow(t)
    <3>1. window' = [entries |-> <<>>, failures |-> 0]
      BY <2>2 DEF CloseWindow, EmptyWindow
    <3>2. <<>> \in Seq(Sample) /\ Len(<<>>) = 0 /\ 0 <= MaxEntries
      BY EmptySeq
    <3>3. {i \in 1..0 : <<>>[i].failure} = {}
      OBVIOUS
    <3>4. Failures(<<>>, 1, 0) = 0
      BY <3>3, FS_EmptySet DEF Failures
    <3> QED BY <3>1, <3>2, <3>4 DEF WindowOK
  <2>3. CASE UNCHANGED window
    BY <2>3 DEF TypeInv
  <2> QED BY <2>1, <2>2, <2>3 DEF RecordStep, Abandon, RecordState, Record, TripState, TripClock,
     TripOpened, TripProbes, TripFast, CloseState, CloseProbes, CloseFast, StoreState, StoreFast,
     StoreProbes, ReadClock
<1>3. window'.failures \in Nat
  <2>1. Len(window'.entries) \in Nat
    BY <1>2 DEF WindowOK
  <2>2. Failures(window'.entries, 1, Len(window'.entries)) \in Nat
    BY <2>1, FailuresSplit
  <2> QED BY <1>2, <2>2 DEF WindowOK
<1>4. pc' \in [Threads -> Points]
  BY Moves DEF TypeInv, TypeOK
<1>7. 0 \in 0..(CounterMod - 1)
  OBVIOUS
<1>8. fast' \in BOOLEAN
  BY Zenon DEF RecordStep, Abandon, RecordState, Record, Push, TripState, TripClock, TripOpened,
     TripProbes, TripFast, CloseState, CloseWindow, CloseProbes, CloseFast, StoreState, StoreFast,
     StoreProbes, ReadClock, TypeInv, TypeOK
<1>5. state' \in States /\ probes' \in 0..(CounterMod - 1)
  BY <1>7 DEF RecordStep, Abandon, RecordState, Record, Push, TripState, TripClock, TripOpened,
     TripProbes, TripFast, CloseState, CloseWindow, CloseProbes, CloseFast, StoreState, StoreFast,
     StoreProbes, ReadClock, TypeInv, TypeOK, States
<1>6. /\ opened' \in 0..MaxTime /\ claimed' \in 0..MaxTime /\ time' \in 0..MaxTime
      /\ now' \in [Threads -> 0..MaxTime] /\ seen' \in [Threads -> 0..MaxTime]
      /\ failed' \in [Threads -> BOOLEAN] /\ probeAt' \in [Threads -> (0..MaxTime) \cup {None}]
      /\ cause' \in 0..MaxTime
  <2>1. CASE Abandon(t)
    BY <2>1 DEF Abandon, LeaveFlight, TypeInv, TypeOK, locals, history
  <2>6. ASSUME NEW failure \in BOOLEAN, Record(t, failure)
        PROVE  /\ opened' \in 0..MaxTime /\ claimed' \in 0..MaxTime /\ time' \in 0..MaxTime
               /\ now' \in [Threads -> 0..MaxTime] /\ seen' \in [Threads -> 0..MaxTime]
               /\ failed' \in [Threads -> BOOLEAN]
               /\ probeAt' \in [Threads -> (0..MaxTime) \cup {None}]
               /\ cause' \in 0..MaxTime
    <3>1. failed' \in [Threads -> BOOLEAN]
      BY <2>6 DEF Record, TypeInv, TypeOK
    <3>2. probeAt' \in [Threads -> (0..MaxTime) \cup {None}] /\ now' \in [Threads -> 0..MaxTime]
      BY <2>6 DEF Record, LeaveFlight, TypeInv, TypeOK
    <3>3. UNCHANGED <<opened, claimed, time, seen, cause>>
      BY <2>6 DEF Record, LeaveFlight
    <3> QED BY <3>1, <3>2, <3>3 DEF TypeInv, TypeOK
  <2>2. CASE RecordState(t) \/ Push(t) \/ CloseWindow(t)
    BY <2>2 DEF RecordState, Push, CloseWindow, TypeInv, TypeOK, locals, history
  <2>3. CASE TripClock(t) \/ TripOpened(t)
    BY <2>3 DEF TripClock, TripOpened, ReadClock, TypeInv, TypeOK, locals, history
  <2>4. CASE TripState(t) \/ CloseState(t) \/ TripProbes(t) \/ CloseProbes(t)
    BY <2>4 DEF TripState, CloseState, TripProbes, CloseProbes, StoreState, StoreProbes, TypeInv,
       TypeOK, locals, history
  <2>5. CASE TripFast(t) \/ CloseFast(t)
    BY <2>5 DEF TripFast, CloseFast, StoreFast, TypeInv, TypeOK, locals, history
  <2> QED BY <2>1, <2>2, <2>3, <2>4, <2>5, <2>6 DEF RecordStep
<1> QED BY <1>2, <1>3, <1>4, <1>5, <1>6, <1>8 DEF TypeInv, TypeOK, WindowOK

\* Types and counts hold throughout.
LEMMA TypeInductive == Spec => []TypeInv
<1>1. Init => TypeInv
  <2> SUFFICES ASSUME Init PROVE TypeInv
    OBVIOUS
  <2>1. window.entries = <<>> /\ window.failures = 0
    BY DEF Init, EmptyWindow
  <2>2. window.entries \in Seq(Sample) /\ Len(window.entries) = 0
    BY <2>1, EmptySeq
  <2>3. {i \in 1..0 : window.entries[i].failure} = {}
    OBVIOUS
  <2>4. Failures(window.entries, 1, 0) = 0
    BY <2>3, FS_EmptySet DEF Failures
  <2>5. WindowOK(window)
    BY <2>1, <2>2, <2>4 DEF WindowOK
  <2>6. /\ opened \in 0..MaxTime /\ claimed \in 0..MaxTime /\ time \in 0..MaxTime
        /\ probes \in 0..(CounterMod - 1) /\ cause \in 0..MaxTime /\ state \in States
    BY DEF Init, States
  <2>7. /\ now \in [Threads -> 0..MaxTime] /\ seen \in [Threads -> 0..MaxTime]
        /\ probeAt \in [Threads -> (0..MaxTime) \cup {None}] /\ pc \in [Threads -> Points]
    BY DEF Init, Points
  <2>8. fast \in BOOLEAN /\ failed \in [Threads -> BOOLEAN]
    BY DEF Init
  <2> QED BY SMTT(30), <2>1, <2>2, <2>5, <2>6, <2>7, <2>8 DEF TypeInv, TypeOK, WindowOK
<1>2. TypeInv /\ [Next]_vars => TypeInv'
  <2> SUFFICES ASSUME TypeInv, [Next]_vars PROVE TypeInv'
    OBVIOUS
  <2>1. CASE ErrorRate
    <3>1. WindowOK(window')
      BY <2>1, EvictedOK DEF ErrorRate, TypeInv, TypeOK
    <3>2. window'.failures \in Nat
      <4>1. Len(window'.entries) \in Nat
        BY <3>1 DEF WindowOK
      <4>2. Failures(window'.entries, 1, Len(window'.entries)) \in Nat
        <5>1. Len(window'.entries) \in 0..Len(window'.entries)
          BY <4>1
        <5> QED BY <4>1, <5>1, FailuresSplit, Zenon
      <4> QED BY <3>1, <4>2 DEF WindowOK
    <3> QED BY <2>1, <3>1, <3>2 DEF ErrorRate, TypeInv, TypeOK, WindowOK, locals, history
  <2>2. CASE Tick
    <3>1. time' \in 0..MaxTime
      BY <2>2 DEF Tick, TypeInv, TypeOK
    <3> QED BY <2>2, <3>1 DEF Tick, TypeInv, TypeOK, WindowOK, locals, history
  <2>3. CASE UNCHANGED vars
    BY <2>3 DEF vars, TypeInv, TypeOK, WindowOK
  <2> QED BY <2>1, <2>2, <2>3, CheckType, RecordType DEF Next
<1> QED BY <1>1, <1>2, PTL DEF Spec

\* Stamps, counter and window stay within their bounds: the window never holds
\* more than its cap, the counter never leaves its width.
THEOREM TypeCorrect == Spec => []TypeOK
BY TypeInductive, PTL DEF TypeInv

\* The failure count of the sliding window is the number of failures in it,
\* whatever order samples are pushed in, for every cap and every duration
\* (SlidingWindow::push, evict, clear).
THEOREM WindowExact == Spec => []WindowCountsFailures
<1>1. TypeInv => WindowCountsFailures
  <2> SUFFICES ASSUME TypeInv PROVE WindowCountsFailures
    OBVIOUS
  <2>1. DOMAIN window.entries = 1..Len(window.entries)
    BY DEF TypeInv, TypeOK
  <2>2. Quantify(DOMAIN window.entries, LAMBDA i : window.entries[i].failure)
           = Failures(window.entries, 1, Len(window.entries))
    BY <2>1 DEF Quantify, Failures
  <2> QED BY <2>2 DEF TypeInv, WindowOK, WindowCountsFailures
<1> QED BY <1>1, TypeInductive, PTL
-----------------------------------------------------------------------------
(* Why a check is refused.                                                 *)

\* No stamp is younger than the last cause, and no clock was read after now.
StampsOld ==
    /\ opened <= cause /\ claimed <= cause /\ cause <= time
    /\ \A t \in Threads : now[t] <= time /\ (pc[t] = "openClock" => seen[t] <= cause)

\* A thread that lost the Open -> HalfOpen race, or whose lease was taken over,
\* lost it to a trip or a probe that came after its clock was read.
LostToCause ==
    \A t \in Threads :
        /\ pc[t] = "recheck" => state # "Open" \/ now[t] <= cause
        /\ pc[t] = "reclaim" => claimed = seen[t] \/ now[t] <= cause

CauseInv == StampsOld /\ LostToCause

\* The numbers a state holds.
LEMMA Numbers ==
  ASSUME TypeInv
  PROVE  /\ opened \in Nat /\ claimed \in Nat /\ time \in Nat /\ cause \in Nat
         /\ \A t \in Threads : now[t] \in Nat /\ seen[t] \in Nat
         /\ pc \in [Threads -> Points] /\ now \in [Threads -> 0..MaxTime]
         /\ seen \in [Threads -> 0..MaxTime] /\ state \in States
BY SMTT(30) DEF TypeInv, TypeOK

\* A step of check() keeps the causes.
LEMMA CheckCause ==
  ASSUME TypeInv, CauseInv, NEW t \in Threads, CheckStep(t)
  PROVE  CauseInv'
<1> USE Numbers DEF Goto
<1>1. CASE Check(t)
  <2>1. CheckIn[state] \in {"flight", "loadOpened", "probeClock"}
    BY DEF CheckIn, States
  <2> QED BY <1>1, <2>1 DEF Check, CauseInv, StampsOld, LostToCause, locals, history
<1>2. CASE LoadOpened(t)
  BY <1>2 DEF LoadOpened, CauseInv, StampsOld, LostToCause, history
<1>3. CASE OpenClock(t)
  BY <1>3 DEF OpenClock, CauseInv, StampsOld, LostToCause, history
<1>4. CASE CasState(t)
  BY <1>4 DEF CasState, CauseInv, StampsOld, LostToCause, locals, history
<1>5. CASE Recheck(t)
  <2>1. RecheckIn[state] \in {"flight", "idle", "probeClock"}
    BY DEF RecheckIn, States
  <2> QED BY <1>5, <2>1 DEF Recheck, CauseInv, StampsOld, LostToCause, locals, history
<1>6. CASE ClearFast(t) \/ Claim(t) \/ Unclaim(t)
  BY <1>6 DEF ClearFast, StoreFast, Claim, Unclaim, CauseInv, StampsOld, LostToCause, locals, history
<1>7. CASE ProbeClock(t)
  BY <1>7 DEF ProbeClock, ReadClock, CauseInv, StampsOld, LostToCause, history
<1>8. CASE Stamp(t)
  BY <1>8 DEF Stamp, Admit, CauseInv, StampsOld, LostToCause, locals
<1>9. CASE LoadClaimed(t)
  BY <1>9 DEF LoadClaimed, CauseInv, StampsOld, LostToCause, history
<1>10. CASE Reclaim(t)
  BY <1>10 DEF Reclaim, Admit, CauseInv, StampsOld, LostToCause, locals, history
<1> QED BY <1>1, <1>2, <1>3, <1>4, <1>5, <1>6, <1>7, <1>8, <1>9, <1>10 DEF CheckStep

\* So does a step of record().
LEMMA RecordCause ==
  ASSUME TypeInv, CauseInv, NEW t \in Threads, RecordStep(t)
  PROVE  CauseInv'
<1> USE Numbers DEF Goto
<1>1. CASE Abandon(t) \/ \E failure \in BOOLEAN : Record(t, failure)
  BY <1>1 DEF Abandon, Record, LeaveFlight, CauseInv, StampsOld, LostToCause, locals
<1>2. CASE RecordState(t)
  <2>1. RecordIn(t)[state] \in {"pushClosed", "tripState", "closeState", "pushOpen"}
    BY DEF RecordIn, States
  <2> QED BY <1>2, <2>1 DEF RecordState, CauseInv, StampsOld, LostToCause, locals, history
<1>3. CASE Push(t) \/ CloseWindow(t)
  BY <1>3 DEF Push, CloseWindow, CauseInv, StampsOld, LostToCause, locals, history
<1>4. CASE TripState(t) \/ CloseState(t)
  BY <1>4 DEF TripState, CloseState, StoreState, CauseInv, StampsOld, LostToCause, locals
<1>5. CASE TripClock(t)
  BY <1>5 DEF TripClock, ReadClock, CauseInv, StampsOld, LostToCause, history
<1>6. CASE TripOpened(t)
  BY <1>6 DEF TripOpened, CauseInv, StampsOld, LostToCause, locals
<1>7. CASE TripProbes(t) \/ TripFast(t) \/ CloseProbes(t) \/ CloseFast(t)
  BY <1>7 DEF TripProbes, TripFast, CloseProbes, CloseFast, StoreProbes, StoreFast, CauseInv,
     StampsOld, LostToCause, locals, history
<1> QED BY <1>1, <1>2, <1>3, <1>4, <1>5, <1>6, <1>7 DEF RecordStep

\* The causes hold throughout.
LEMMA CauseInductive == Spec => []CauseInv
<1>1. Init => CauseInv
  BY DEF Init, CauseInv, StampsOld, LostToCause
<1>2. TypeInv /\ CauseInv /\ [Next]_vars => CauseInv'
  <2> SUFFICES ASSUME TypeInv, CauseInv, [Next]_vars PROVE CauseInv'
    OBVIOUS
  <2>1. CASE ErrorRate
    BY <2>1, Numbers DEF ErrorRate, CauseInv, StampsOld, LostToCause, locals, history
  <2>2. CASE Tick
    BY <2>2, Numbers DEF Tick, CauseInv, StampsOld, LostToCause, locals, history
  <2>3. CASE UNCHANGED vars
    BY <2>3 DEF vars, CauseInv, StampsOld, LostToCause
  <2> QED BY <2>1, <2>2, <2>3, CheckCause, RecordCause DEF Next
<1> QED BY <1>1, <1>2, TypeInductive, PTL DEF Spec

\* A check is refused only within open_duration of a trip or of a probe's
\* admission, for every number of overlapping calls, every lease and every
\* number of probe slots (check_open, try_half_open_probe).
THEOREM RefusalsHaveCauses == Spec => RefusedWithCause
<1> DEFINE A == \A t \in Threads :
                   Refused(t) => now'[t] <= cause' \/ now'[t] - cause' < OpenDuration
<1>1. TypeInv /\ CauseInv /\ [Next]_vars => [A]_vars
  <2> SUFFICES ASSUME TypeInv, CauseInv, Next, NEW t \in Threads, Refused(t)
               PROVE  now'[t] <= cause' \/ now'[t] - cause' < OpenDuration
    OBVIOUS
  <2> USE Numbers DEF Goto
  <2>1. OpenClock(t) \/ Recheck(t) \/ LoadClaimed(t) \/ Reclaim(t)
    <3>1. PICK u \in Threads : CheckStep(u) \/ RecordStep(u)
      BY DEF Next, ErrorRate, Tick, Refused
    <3>2. PICK p \in Points : pc' = [pc EXCEPT ![u] = p]
      BY <3>1, Moves
    <3>3. u = t
      BY <3>2 DEF Refused
    <3> HIDE Numbers
    <3>4. CASE CheckStep(t)
      BY <3>4 DEF CheckStep, Refused, Check, LoadOpened, CasState, ClearFast, StoreFast, ProbeClock,
         ReadClock, Claim, Stamp, Unclaim
    <3>5. CASE RecordStep(t)
      BY <3>5 DEF RecordStep, Refused, Abandon, LeaveFlight, RecordState, Push, Record, TripState,
         TripClock, TripOpened, TripProbes, TripFast, CloseState, CloseWindow, CloseProbes, CloseFast,
         StoreState, StoreFast, StoreProbes, ReadClock
    <3> QED BY <3>1, <3>3, <3>4, <3>5
  <2>2. CASE OpenClock(t)
    BY <2>2 DEF OpenClock, Elapsed, Refused, CauseInv, StampsOld, history
  <2>3. CASE Recheck(t)
    BY <2>3 DEF Recheck, RecheckIn, Refused, CauseInv, StampsOld, LostToCause, locals, history, States
  <2>4. CASE LoadClaimed(t)
    BY <2>4 DEF LoadClaimed, Elapsed, Refused, CauseInv, StampsOld, history
  <2>5. CASE Reclaim(t)
    BY <2>5 DEF Reclaim, Admit, Refused, CauseInv, StampsOld, LostToCause, locals, history
  <2> QED BY <2>1, <2>2, <2>3, <2>4, <2>5
<1> QED BY <1>1, TypeInductive, CauseInductive, PTL DEF Spec, RefusedWithCause
=============================================================================

------------------------ MODULE BreakerCallersProofs ------------------------
(***************************************************************************)
(* The callers of the circuit breakers, for any number of them, any        *)
(* threshold and any reset timeout: first a single breaker that many       *)
(* goroutines share, then the loop of the sequential strategy, which asks  *)
(* the breaker of one registry after the other.                            *)
(***************************************************************************)
EXTENDS BreakerCallers, SequentialEval, SequenceTheorems, FiniteSetTheorems,
        WellFoundedInduction, NaturalsInduction, TLAPS

(* What the methods of the breaker return.                                 *)
LEMMA BreakerMethods ==
    ASSUME NEW b \in Breaker
    PROVE  /\ RecordSuccess(b) \in Breaker
           /\ RecordFailure(b) \in Breaker
           /\ Reset(b) \in Breaker
           /\ Elapse(b) \in Breaker
           /\ RecordFailure(b).failures = b.failures + 1
           /\ RecordFailure(b).elapsed = 0
           /\ RecordSuccess(b).state = CircuitClosed /\ RecordSuccess(b).failures = 0
           /\ Reset(b).state = CircuitClosed /\ Reset(b).failures = 0
           /\ Elapse(b).state = b.state /\ Elapse(b).failures = b.failures
<1> USE BreakerAssumption DEF Breaker, CircuitClosed, CircuitOpen, CircuitHalfOpen
<1>1. /\ RecordSuccess(b) \in Breaker
      /\ RecordSuccess(b).state = CircuitClosed /\ RecordSuccess(b).failures = 0
  BY DEF RecordSuccess
<1>2. /\ RecordFailure(b) \in Breaker
      /\ RecordFailure(b).failures = b.failures + 1
      /\ RecordFailure(b).elapsed = 0
  <2>1. CASE b.state = CircuitHalfOpen \/ b.failures + 1 >= MaxFailures
    <3>1. RecordFailure(b) = [b EXCEPT !.failures = b.failures + 1, !.elapsed = 0,
                                       !.state = CircuitOpen]
      BY <2>1 DEF RecordFailure
    <3>2. RecordFailure(b).failures = b.failures + 1 /\ RecordFailure(b).elapsed = 0
      BY <3>1
    <3>3. RecordFailure(b).state \in {CircuitClosed, CircuitOpen, CircuitHalfOpen}
      BY <3>1
    <3>4. RecordFailure(b) = [state    |-> RecordFailure(b).state,
                              failures |-> RecordFailure(b).failures,
                              elapsed  |-> RecordFailure(b).elapsed]
      BY <3>1
    <3>5. RecordFailure(b) \in Breaker
      BY <3>2, <3>3, <3>4
    <3> QED BY <3>2, <3>5
  <2>2. CASE ~(b.state = CircuitHalfOpen \/ b.failures + 1 >= MaxFailures)
    <3>1. RecordFailure(b) = [b EXCEPT !.failures = b.failures + 1, !.elapsed = 0]
      BY <2>2 DEF RecordFailure
    <3>2. RecordFailure(b).failures = b.failures + 1 /\ RecordFailure(b).elapsed = 0
      BY <3>1
    <3>3. RecordFailure(b).state \in {CircuitClosed, CircuitOpen, CircuitHalfOpen}
      BY <3>1
    <3>4. RecordFailure(b) = [state    |-> RecordFailure(b).state,
                              failures |-> RecordFailure(b).failures,
                              elapsed  |-> RecordFailure(b).elapsed]
      BY <3>1
    <3>5. RecordFailure(b) \in Breaker
      BY <3>2, <3>3, <3>4
    <3> QED BY <3>2, <3>5
  <2> QED BY <2>1, <2>2
<1>3. /\ Reset(b) \in Breaker
      /\ Reset(b).state = CircuitClosed /\ Reset(b).failures = 0
  BY DEF Reset
<1>4. /\ Elapse(b) \in Breaker
      /\ Elapse(b).state = b.state /\ Elapse(b).failures = b.failures
  BY DEF Elapse
<1> QED BY <1>1, <1>2, <1>3, <1>4

(* The history keeps the last MaxFailures outcomes.                        *)
LEMMA RememberType ==
    ASSUME TypeOK, NEW o \in Outcomes, Remember(o)
    PROVE  recent' \in Seq(Outcomes)
  BY AppendProperties, HeadTailProperties DEF TypeOK, Remember

-----------------------------------------------------------------------------
(* Type correctness: the breaker's record and the history stay well formed *)
(* whatever calls overlap.                                                 *)
THEOREM BreakerTypeCorrect == Spec => []TypeOK
<1>1. Init => TypeOK
  BY BreakerAssumption, EmptySeq
  DEF Init, TypeOK, NewCircuitBreaker, Breaker, CircuitClosed, CircuitOpen, CircuitHalfOpen
<1>2. TypeOK /\ [Next]_vars => TypeOK'
  <2> SUFFICES ASSUME TypeOK, [Next]_vars PROVE TypeOK'
    OBVIOUS
  <2> USE DEF TypeOK, Store
  <2>1. ASSUME NEW c \in Callers, Admit(c) PROVE TypeOK'
    BY <2>1 DEF Admit
  <2>2. ASSUME NEW c \in Callers, ReturnSuccess(c) PROVE TypeOK'
    <3>1. recent' \in Seq(Outcomes)
      BY <2>2, RememberType DEF ReturnSuccess, Outcomes
    <3>2. cb' \in Breaker
      BY <2>2, BreakerMethods DEF ReturnSuccess
    <3> QED BY <2>2, <3>1, <3>2 DEF ReturnSuccess
  <2>3. ASSUME NEW c \in Callers, ReturnFailure(c) PROVE TypeOK'
    <3>1. recent' \in Seq(Outcomes)
      BY <2>3, RememberType DEF ReturnFailure, Outcomes
    <3>2. cb' \in Breaker
      BY <2>3, BreakerMethods DEF ReturnFailure
    <3> QED BY <2>3, <3>1, <3>2 DEF ReturnFailure
  <2>4. CASE ManualReset
    BY <2>4, BreakerMethods, EmptySeq DEF ManualReset
  <2>5. CASE Tick
    BY <2>5, BreakerMethods DEF Tick
  <2>6. CASE Toggle
    BY <2>6 DEF Toggle
  <2>7. CASE UNCHANGED vars
    BY <2>7 DEF vars
  <2> QED BY <2>1, <2>2, <2>3, <2>4, <2>5, <2>6, <2>7 DEF Next
<1> QED BY <1>1, <1>2, PTL DEF Spec

-----------------------------------------------------------------------------
(* Closed means below the threshold, and no step enters the half-open      *)
(* state: what monitoring reads as state and as count is one story.        *)
THEOREM BreakerStateFollowsCount == Spec => []ClosedIffBelowThreshold
<1>1. Init => ClosedIffBelowThreshold
  BY BreakerAssumption
  DEF Init, ClosedIffBelowThreshold, NewCircuitBreaker, CircuitClosed, CircuitOpen
<1>2. TypeOK /\ ClosedIffBelowThreshold /\ [Next]_vars => ClosedIffBelowThreshold'
  <2> SUFFICES ASSUME TypeOK, ClosedIffBelowThreshold, [Next]_vars
               PROVE  ClosedIffBelowThreshold'
    OBVIOUS
  <2> USE DEF ClosedIffBelowThreshold
  <2>1. ASSUME cb' = RecordFailure(cb) PROVE ClosedIffBelowThreshold'
    BY <2>1, BreakerAssumption
    DEF TypeOK, Breaker, RecordFailure, CircuitClosed, CircuitOpen, CircuitHalfOpen
  <2>2. ASSUME cb' = RecordSuccess(cb) \/ cb' = Reset(cb) PROVE ClosedIffBelowThreshold'
    BY <2>2, BreakerMethods, BreakerAssumption DEF TypeOK
  <2>3. ASSUME cb' = Elapse(cb) PROVE ClosedIffBelowThreshold'
    BY <2>3, BreakerMethods DEF TypeOK
  <2>4. CASE UNCHANGED cb
    BY <2>4
  <2> QED BY <2>1, <2>2, <2>3, <2>4
          DEF Next, Admit, ReturnSuccess, ReturnFailure, ManualReset, Tick, Toggle, Store, vars
<1> QED BY <1>1, <1>2, BreakerTypeCorrect, PTL DEF Spec

-----------------------------------------------------------------------------
(* A probe is counted only for a caller still waiting for its outcome, and *)
(* only inside a probe window.                                             *)
ProbesInv ==
    \A c \in Callers :
        /\ probes[c] <= 1
        /\ caller[c] = "idle" => probes[c] = 0
        /\ ~ProbeWindow(cb) => probes[c] = 0

(* Once the circuit is open a caller reaches the registry at most once per *)
(* reset timeout: recording the outcome of its probe ends the window.      *)
THEOREM ProbesAreBounded == Spec => []OneProbePerCaller
<1>1. Init => ProbesInv
  BY DEF Init, ProbesInv
<1>2. TypeOK /\ ProbesInv /\ [Next]_vars => ProbesInv'
  <2> SUFFICES ASSUME TypeOK, ProbesInv, [Next]_vars PROVE ProbesInv'
    OBVIOUS
  <2> USE DEF ProbesInv
  <2>1. ASSUME NEW c \in Callers, Admit(c) PROVE ProbesInv'
    BY <2>1 DEF Admit, TypeOK, ProbeWindow
  <2>2. ASSUME NEW c \in Callers, ReturnSuccess(c) PROVE ProbesInv'
    <3>1. ~ProbeWindow(cb')
      BY <2>2, BreakerMethods
      DEF ReturnSuccess, Store, ProbeWindow, TypeOK, CircuitClosed, CircuitOpen
    <3> QED BY <2>2, <3>1 DEF ReturnSuccess, Store, TypeOK, ProbeWindow
  <2>3. ASSUME NEW c \in Callers, ReturnFailure(c) PROVE ProbesInv'
    <3>1. ~ProbeWindow(cb')
      BY <2>3, BreakerMethods, BreakerAssumption DEF ReturnFailure, Store, ProbeWindow, TypeOK
    <3> QED BY <2>3, <3>1 DEF ReturnFailure, Store, TypeOK, ProbeWindow
  <2>4. CASE ManualReset
    <3>1. ~ProbeWindow(cb')
      BY <2>4, BreakerMethods
      DEF ManualReset, Store, ProbeWindow, TypeOK, CircuitClosed, CircuitOpen
    <3> QED BY <2>4, <3>1 DEF ManualReset, Store, TypeOK, ProbeWindow
  <2>5. CASE Tick
    BY <2>5 DEF Tick, Store, ProbeWindow, TypeOK
  <2>6. CASE Toggle
    BY <2>6 DEF Toggle, ProbeWindow
  <2>7. CASE UNCHANGED vars
    BY <2>7 DEF vars, ProbeWindow
  <2> QED BY <2>1, <2>2, <2>3, <2>4, <2>5, <2>6, <2>7 DEF Next
<1>3. ProbesInv => OneProbePerCaller
  BY DEF ProbesInv, OneProbePerCaller
<1> QED BY <1>1, <1>2, <1>3, BreakerTypeCorrect, PTL DEF Spec

-----------------------------------------------------------------------------
(* The failure counter is the length of the failure streak at the end of   *)
(* the history, as far as the history reaches.                             *)
StreakInv ==
    /\ Len(recent) <= MaxFailures
    /\ cb.failures < MaxFailures =>
          /\ cb.failures <= Len(recent)
          /\ \A i \in 1 .. Len(recent) :
                Len(recent) - i < cb.failures => recent[i] = "failure"
          /\ \A i \in 1 .. Len(recent) :
                Len(recent) - i = cb.failures => recent[i] = "success"
    /\ cb.failures >= MaxFailures =>
          /\ Len(recent) = MaxFailures
          /\ \A i \in 1 .. Len(recent) : recent[i] = "failure"

(* Where the outcomes of the history go when one more is remembered.       *)
LEMMA RememberShifts ==
    ASSUME TypeOK, StreakInv, NEW o \in Outcomes, Remember(o)
    PROVE  LET full == Len(recent) = MaxFailures
           IN  /\ Len(recent') = IF full THEN MaxFailures ELSE Len(recent) + 1
               /\ recent'[Len(recent')] = o
               /\ \A i \in 1 .. Len(recent') - 1 :
                     recent'[i] = recent[IF full THEN i + 1 ELSE i]
<1> DEFINE s == Append(recent, o)
<1>1. /\ s \in Seq(Outcomes) /\ Len(s) = Len(recent) + 1
      /\ s[Len(s)] = o
      /\ \A i \in 1 .. Len(recent) : s[i] = recent[i]
  BY AppendProperties DEF TypeOK
<1>2. Len(recent) \in Nat /\ Len(recent) <= MaxFailures
  BY LenProperties DEF TypeOK, StreakInv
<1>3. CASE Len(recent) = MaxFailures
  <2>1. recent' = Tail(s) /\ s # <<>>
    BY <1>1, <1>3, BreakerAssumption, EmptySeq DEF Remember
  <2>2. Len(recent') = Len(s) - 1 /\ \A i \in 1 .. Len(recent') : recent'[i] = s[i + 1]
    BY <1>1, <2>1, HeadTailProperties
  <2> HIDE DEF s
  <2> QED BY <1>1, <1>2, <1>3, <2>2, BreakerAssumption
<1>4. CASE Len(recent) < MaxFailures
  <2>1. recent' = s
    BY <1>1, <1>2, <1>4, BreakerAssumption DEF Remember
  <2> HIDE DEF s
  <2> QED BY <1>1, <1>2, <1>4, <2>1, BreakerAssumption
<1> QED BY <1>2, <1>3, <1>4, BreakerAssumption

(* The circuit is open exactly when the last MaxFailures outcomes recorded *)
(* were failures, in whatever order overlapping calls recorded them.       *)
THEOREM OpensOnConsecutiveFailures == Spec => []OpenIffFailureStreak
<1>1. Init => StreakInv
  BY BreakerAssumption, EmptySeq DEF Init, StreakInv, NewCircuitBreaker
<1>2. TypeOK /\ StreakInv /\ [Next]_vars => StreakInv'
  <2> SUFFICES ASSUME TypeOK, StreakInv, [Next]_vars PROVE StreakInv'
    OBVIOUS
  <2>0. Len(recent) \in Nat /\ cb.failures \in Nat
    BY LenProperties DEF TypeOK, Breaker
  <2>1. ASSUME NEW c \in Callers, ReturnSuccess(c) PROVE StreakInv'
    <3>1. cb'.failures = 0 /\ Remember("success")
      BY <2>1, BreakerMethods DEF ReturnSuccess, Store, TypeOK
    <3> QED BY <2>0, <3>1, RememberShifts, BreakerAssumption DEF StreakInv, Outcomes
  <2>2. ASSUME NEW c \in Callers, ReturnFailure(c) PROVE StreakInv'
    <3>1. cb'.failures = cb.failures + 1 /\ Remember("failure")
      BY <2>2, BreakerMethods DEF ReturnFailure, Store, TypeOK
    <3>2. /\ Len(recent') = IF Len(recent) = MaxFailures THEN MaxFailures ELSE Len(recent) + 1
          /\ recent'[Len(recent')] = "failure"
          /\ \A i \in 1 .. Len(recent') - 1 :
                recent'[i] = recent[IF Len(recent) = MaxFailures THEN i + 1 ELSE i]
      BY <3>1, RememberShifts DEF Outcomes
    <3> DEFINE n  == Len(recent)
               n2 == Len(recent')
               d  == IF n = MaxFailures THEN 1 ELSE 0
    <3>3. /\ n <= MaxFailures /\ n \in Nat /\ d \in {0, 1} /\ n2 = n + 1 - d
          /\ n2 \in Nat /\ n2 <= MaxFailures /\ n2 >= 1
          /\ d = 0 <=> n < MaxFailures
      BY <2>0, <3>2, BreakerAssumption DEF StreakInv
    <3>4. ASSUME NEW i \in 1 .. n2, i # n2
          PROVE  i + d \in 1 .. n /\ recent'[i] = recent[i + d] /\ n2 - i = n - (i + d) + 1
      BY <3>2, <3>3, <3>4
    <3>5. CASE cb.failures < MaxFailures
      <4>1. /\ cb.failures <= n
            /\ \A i \in 1 .. n : n - i < cb.failures => recent[i] = "failure"
            /\ \A i \in 1 .. n : n - i = cb.failures => recent[i] = "success"
        BY <3>5 DEF StreakInv
      <4>2. \A i \in 1 .. n2 : n2 - i < cb.failures + 1 => recent'[i] = "failure"
        <5> SUFFICES ASSUME NEW i \in 1 .. n2, n2 - i < cb.failures + 1 PROVE recent'[i] = "failure"
          OBVIOUS
        <5>1. CASE i = n2
          BY <3>2, <5>1
        <5>2. CASE i # n2
          <6>1. i + d \in 1 .. n /\ recent'[i] = recent[i + d] /\ n2 - i = n - (i + d) + 1
            BY <3>4, <5>2
          <6>2. n - (i + d) < cb.failures
            BY <2>0, <3>3, <6>1
          <6> QED BY <4>1, <6>1, <6>2
        <5> QED BY <5>1, <5>2
      <4>3. \A i \in 1 .. n2 : n2 - i = cb.failures + 1 => recent'[i] = "success"
        BY <2>0, <3>2, <3>3, <3>4, <4>1
      <4>4. cb.failures + 1 <= n2
        BY <2>0, <3>3, <3>5, <4>1, BreakerAssumption
      <4>5. cb.failures + 1 >= MaxFailures =>
               /\ n2 = MaxFailures
               /\ \A i \in 1 .. n2 : recent'[i] = "failure"
        BY <2>0, <3>3, <4>2, <4>4, BreakerAssumption
      <4> QED BY <2>0, <3>1, <3>3, <4>2, <4>3, <4>4, <4>5, BreakerAssumption DEF StreakInv
    <3>6. CASE cb.failures >= MaxFailures
      <4>1. n = MaxFailures /\ \A i \in 1 .. n : recent[i] = "failure"
        BY <3>6 DEF StreakInv
      <4>2. \A i \in 1 .. n2 : recent'[i] = "failure"
        BY <3>2, <3>3, <3>4, <4>1
      <4> QED BY <2>0, <3>1, <3>3, <3>6, <4>1, <4>2, BreakerAssumption DEF StreakInv
    <3> QED BY <2>0, <3>5, <3>6, BreakerAssumption
  <2>3. CASE ManualReset
    <3>1. cb'.failures = 0 /\ recent' = <<>>
      BY <2>3, BreakerMethods DEF ManualReset, Store, TypeOK
    <3> QED BY <3>1, BreakerAssumption, EmptySeq DEF StreakInv
  <2>4. CASE UNCHANGED recent /\ cb'.failures = cb.failures
    BY <2>4 DEF StreakInv
  <2>5. Tick => cb'.failures = cb.failures
    BY BreakerMethods DEF Tick, Store, TypeOK
  <2> QED BY <2>1, <2>2, <2>3, <2>4, <2>5 DEF Next, Admit, Tick, Toggle, vars
<1>3. TypeOK /\ StreakInv /\ ClosedIffBelowThreshold => OpenIffFailureStreak
  <2> SUFFICES ASSUME TypeOK, StreakInv, ClosedIffBelowThreshold PROVE OpenIffFailureStreak
    OBVIOUS
  <2>1. cb.failures \in Nat /\ Len(recent) \in Nat
    BY LenProperties DEF TypeOK, Breaker
  <2>2. CASE cb.failures < MaxFailures
    <3>1. cb.state # CircuitOpen
      BY <2>2 DEF ClosedIffBelowThreshold, CircuitClosed, CircuitOpen
    <3>2. ASSUME Len(recent) = MaxFailures
          PROVE  recent[Len(recent) - cb.failures] = "success"
      BY <2>1, <2>2, <3>2, BreakerAssumption DEF StreakInv
    <3> QED BY <2>1, <2>2, <3>1, <3>2, BreakerAssumption DEF OpenIffFailureStreak
  <2>3. CASE cb.failures >= MaxFailures
    BY <2>1, <2>3, BreakerAssumption
    DEF StreakInv, ClosedIffBelowThreshold, OpenIffFailureStreak, CircuitClosed, CircuitOpen
  <2> QED BY <2>1, <2>2, <2>3, BreakerAssumption
<1> QED BY <1>1, <1>2, <1>3, BreakerTypeCorrect, BreakerStateFollowsCount, PTL DEF Spec

(* The three views of a breaker, its state, its count and the outcomes it  *)
(* recorded, agree for every threshold, timeout and number of callers.     *)
THEOREM BreakerTellsOneStory == Spec => []OpensOnlyOnFailures
<1>1. OpenIffFailureStreak /\ ClosedIffBelowThreshold => OpensOnlyOnFailures
  BY DEF OpensOnlyOnFailures
<1> QED BY <1>1, OpensOnConsecutiveFailures, BreakerStateFollowsCount, PTL

-----------------------------------------------------------------------------
LEMMA Smallest ==
    ASSUME NEW T \in SUBSET Nat, T # {}
    PROVE  \E m \in T : \A n \in T : ~(n < m)
<1> DEFINE R == {p \in Nat \X Nat : p[1] < p[2]}
<1>1. IsWellFoundedOn(R, Nat)
  BY NatLessThanWellFounded DEF OpToRel
<1>2. PICK m \in T : \A n \in T : <<n, m>> \notin R
  <2> HIDE DEF R
  <2> QED BY <1>1, WFMin
<1> QED BY <1>2

Iterates(g, n, D, base, F) ==
    /\ g \in [0 .. n -> D] /\ g[0] = base
    /\ \A i \in 1 .. n : g[i] = F[<<i, g[i - 1]>>]

LEMMA Recursion ==
    ASSUME NEW n, n \in Nat, NEW D, NEW base, base \in D,
           NEW F, F \in [(1 .. n) \X D -> D]
    PROVE  \E g : Iterates(g, n, D, base, F)
<1> DEFINE Rec(g, m) == /\ g \in [0 .. m -> D] /\ g[0] = base
                        /\ \A i \in 1 .. m : g[i] = F[<<i, g[i - 1]>>]
           T == {m \in 0 .. n : ~\E g : Rec(g, m)}
<1>1. ASSUME T # {} PROVE FALSE
  <2>1. PICK m \in T : \A k \in T : ~(k < m)
    <3>1. T \in SUBSET Nat
      OBVIOUS
    <3> HIDE DEF T
    <3> QED BY <1>1, <3>1, Smallest
  <2>2. CASE m = 0
    <3>1. Rec([i \in 0 .. 0 |-> base], 0)
      OBVIOUS
    <3> QED BY <2>1, <2>2, <3>1
  <2>3. CASE m # 0
    <3>1. m \in 1 .. n /\ m - 1 \in 0 .. n /\ m - 1 < m
      BY <2>1, <2>3
    <3>2. m - 1 \notin T
      <4> HIDE DEF T
      <4> QED BY <2>1, <3>1
    <3>3. PICK f : Rec(f, m - 1)
      BY <3>1, <3>2
    <3> DEFINE e == F[<<m, f[m - 1]>>]
               g == [i \in 0 .. m |-> IF i < m THEN f[i] ELSE e]
    <3>4. f[m - 1] \in D /\ e \in D
      BY <3>1, <3>3
    <3>5. g \in [0 .. m -> D] /\ g[0] = base
      <4> HIDE DEF e
      <4> QED BY <3>1, <3>3, <3>4
    <3>6. ASSUME NEW i \in 1 .. m PROVE g[i] = F[<<i, g[i - 1]>>]
      <4>1. i - 1 \in 0 .. m /\ i - 1 < m /\ g[i - 1] = f[i - 1]
        BY <3>1
      <4>2. CASE i < m
        <5>1. i \in 1 .. m - 1 /\ i \in 0 .. m /\ g[i] = f[i]
          BY <3>1, <4>2
        <5> HIDE DEF g, e
        <5> QED BY <3>3, <4>1, <5>1
      <4>3. CASE i = m
        <5>1. g[i] = e
          BY <3>1, <4>3
        <5> HIDE DEF g
        <5> QED BY <4>1, <4>3, <5>1
      <4> QED BY <4>2, <4>3, <3>1
    <3>7. Rec(g, m)
      <4> HIDE DEF g
      <4> QED BY <3>5, <3>6
    <3> HIDE DEF g, Rec
    <3> QED BY <2>1, <3>7
  <2> QED BY <2>2, <2>3
<1>2. n \notin T
  <2> HIDE DEF T
  <2> QED BY <1>1
<1> QED BY <1>2 DEF Iterates

(* The filtered slice holds the applicable registries, each once.          *)
Holds(s, S) ==
    /\ s \in Seq(Registries)
    /\ \A j \in 1 .. Len(s) : s[j] \in S
    /\ \A r \in S : \E j \in 1 .. Len(s) : s[j] = r
    /\ \A j, k \in 1 .. Len(s) : s[j] = s[k] => j = k

LEMMA HoldsMore ==
    ASSUME NEW S, NEW s, Holds(s, S), NEW r \in Registries, r \notin S
    PROVE  Holds(Append(s, r), S \cup {r})
<1> DEFINE a == Append(s, r)
<1>1. s \in Seq(Registries) /\ Len(s) \in Nat
  BY LenProperties DEF Holds
<1>2. /\ a \in Seq(Registries) /\ Len(a) = Len(s) + 1 /\ a[Len(s) + 1] = r
      /\ \A i \in 1 .. Len(s) : a[i] = s[i]
  BY <1>1, AppendProperties
<1> HIDE DEF a
<1>3. \A j \in 1 .. Len(a) : j \in 1 .. Len(s) \/ j = Len(s) + 1
  BY <1>1, <1>2
<1>4. \A j \in 1 .. Len(s) : j \in 1 .. Len(a) /\ s[j] \in S
  BY <1>1, <1>2 DEF Holds
<1>5. Len(s) + 1 \in 1 .. Len(a)
  BY <1>1, <1>2
<1>6. \A j \in 1 .. Len(a) : a[j] \in S \cup {r}
  BY <1>2, <1>3, <1>4
<1>7. ASSUME NEW x \in S \cup {r} PROVE \E j \in 1 .. Len(a) : a[j] = x
  <2>1. CASE x = r
    BY <1>2, <1>5, <2>1
  <2>2. CASE x \in S
    <3>1. PICK j \in 1 .. Len(s) : s[j] = x
      BY <2>2 DEF Holds
    <3> QED BY <1>2, <1>4, <3>1
  <2> QED BY <2>1, <2>2
<1>8. ASSUME NEW j \in 1 .. Len(a), NEW k \in 1 .. Len(a), a[j] = a[k] PROVE j = k
  <2>1. \A m \in 1 .. Len(s) : a[m] = s[m] /\ a[m] # r
    BY <1>2, <1>4
  <2> QED BY <1>2, <1>3, <1>8, <2>1 DEF Holds
<1>9. Holds(a, S \cup {r})
  BY <1>2, <1>6, <1>7, <1>8 DEF Holds
<1> QED BY <1>9 DEF a

LEMMA InOrderHolds ==
    ASSUME NEW S \in SUBSET Registries
    PROVE  Holds(InOrder(S), S)
<1> DEFINE R == RegistrationOrder
           n == Len(R)
           I == {i \in 1 .. Len(RegistrationOrder) : RegistrationOrder[i] \in S}
           D == Seq(Registries)
           Step(i, u) == IF i \in I THEN Append(u, R[i]) ELSE u
           Rec(g) == g = [i \in 0 .. n |-> IF i = 0 THEN <<>> ELSE Step(i, g[i - 1])]
           w == CHOOSE g : Rec(g)
           So(i) == {R[k] : k \in I \cap (1 .. i)}
<1>1. n \in Nat /\ <<>> \in D /\ \A i \in 1 .. n : R[i] \in Registries
  BY SequentialAssumption, LenProperties, EmptySeq
<1>2. ASSUME NEW i \in 1 .. n, NEW u \in D PROVE Step(i, u) \in D
  BY <1>1, AppendProperties
<1>3. \E g : Rec(g)
  <2> DEFINE F == [p \in (1 .. n) \X D |-> Step(p[1], p[2])]
  <2>1. F \in [(1 .. n) \X D -> D]
    <3> HIDE DEF Step, n, D
    <3> QED BY <1>2
  <2>2. PICK g : Iterates(g, n, D, <<>>, F)
    <3> HIDE DEF F, D, n
    <3> QED BY <1>1, <2>1, Recursion
  <2>3. ASSUME NEW i \in 0 .. n PROVE g[i] = IF i = 0 THEN <<>> ELSE Step(i, g[i - 1])
    <3>1. CASE i # 0
      <4>1. i \in 1 .. n /\ i - 1 \in 0 .. n
        <5> HIDE DEF n
        <5> QED BY <1>1, <3>1
      <4>2. <<i, g[i - 1]>> \in (1 .. n) \X D
        <5> HIDE DEF n, D
        <5> QED BY <2>2, <4>1 DEF Iterates
      <4>3. F[<<i, g[i - 1]>>] = Step(i, g[i - 1])
        <5> HIDE DEF D, Step, n
        <5> QED BY <4>2
      <4> HIDE DEF n, F, Step, D
      <4> QED BY <2>2, <3>1, <4>1, <4>3 DEF Iterates
    <3> QED BY <2>2, <3>1 DEF Iterates
  <2>4. Rec(g)
    <3> HIDE DEF Step, F, D, n
    <3> QED BY <2>2, <2>3 DEF Iterates
  <2> HIDE DEF Rec
  <2> QED BY <2>4
<1>4. Rec(w)
  <2> HIDE DEF Rec
  <2> QED BY <1>3
<1>5. w[0] = <<>> /\ \A i \in 1 .. n : w[i] = Step(i, w[i - 1])
  <2>1. w = [i \in 0 .. n |-> IF i = 0 THEN <<>> ELSE Step(i, w[i - 1])]
    <3> HIDE DEF w, Step, n
    <3> QED BY <1>4
  <2> HIDE DEF w, Step, n
  <2>2. 0 \in 0 .. n /\ \A i \in 1 .. n : i \in 0 .. n /\ i # 0
    BY <1>1
  <2> QED BY <2>1, <2>2
<1> DEFINE T == {i \in 0 .. n : ~Holds(w[i], So(i))}
<1>6. ASSUME T # {} PROVE FALSE
  <2>0. T \in SUBSET Nat
    BY <1>1
  <2>1. PICK m \in T : \A i \in T : ~(i < m)
    <3> HIDE DEF T
    <3> QED BY <1>6, <2>0, Smallest
  <2>2. CASE m = 0
    <3>1. So(0) = {} /\ 1 .. Len(<<>>) = {}
      <4>1. 1 .. 0 = {}
        OBVIOUS
      <4> QED BY <4>1, EmptySeq
    <3>2. Holds(<<>>, {})
      <4>1. \A j \in 1 .. Len(<<>>) : FALSE
        BY <3>1, Zenon
      <4>2. <<>> \in Seq(Registries)
        BY <1>1
      <4> HIDE DEF w, T, I, n, D
      <4> QED BY <4>1, <4>2, Zenon DEF Holds
    <3> HIDE DEF w, So
    <3> QED BY <1>5, <2>1, <2>2, <3>1, <3>2
  <2>3. CASE m # 0
    <3>1. m \in 1 .. n /\ m - 1 \in 0 .. n /\ m - 1 < m
      BY <1>1, <2>1, <2>3
    <3>2. m - 1 \notin T
      <4> HIDE DEF T
      <4> QED BY <2>1, <3>1
    <3>3. Holds(w[m - 1], So(m - 1))
      <4> HIDE DEF w, So
      <4> QED BY <3>1, <3>2
    <3>4. CASE m \in I
      <4>1. So(m) = So(m - 1) \cup {R[m]}
        <5>1. I \cap (1 .. m) = (I \cap (1 .. m - 1)) \cup {m}
          <6> HIDE DEF I
          <6> QED BY <1>1, <3>1, <3>4
        <5> HIDE DEF I, R
        <5> QED BY <5>1
      <4>2. R[m] \notin So(m - 1)
        BY <3>1, SequentialAssumption
      <4>3. w[m] = Append(w[m - 1], R[m])
        <5> HIDE DEF w
        <5> QED BY <1>5, <3>1, <3>4
      <4>4. Holds(w[m], So(m))
        <5> HIDE DEF w, So
        <5> QED BY <1>1, <3>1, <3>3, <4>1, <4>2, <4>3, HoldsMore
      <4> HIDE DEF w, So
      <4> QED BY <2>1, <4>4
    <3>5. CASE m \notin I
      <4>1. So(m) = So(m - 1)
        <5>1. I \cap (1 .. m) = I \cap (1 .. m - 1)
          <6> HIDE DEF I
          <6> QED BY <1>1, <3>1, <3>5
        <5> HIDE DEF I, R
        <5> QED BY <5>1
      <4>2. w[m] = w[m - 1]
        <5> HIDE DEF w, I
        <5> QED BY <1>5, <3>1, <3>5
      <4> HIDE DEF w, So
      <4> QED BY <2>1, <3>3, <4>1, <4>2
    <3> QED BY <3>4, <3>5
  <2> QED BY <2>2, <2>3
<1>7. Holds(w[n], So(n))
  <2>1. n \in 0 .. n
    <3> HIDE DEF n
    <3> QED BY <1>1
  <2>2. n \notin T
    <3> HIDE DEF T
    <3> QED BY <1>6
  <2> HIDE DEF w, So, n
  <2> QED BY <2>1, <2>2
<1>8. So(n) = S
  BY SequentialAssumption
<1>9. InOrder(S) = w[n]
  BY DEF InOrder, Picked
<1> QED
  <2> HIDE DEF w, n, So
  <2> QED BY <1>7, <1>8, <1>9

-----------------------------------------------------------------------------
(* The sequential loop, for any number of registries and requests.  What   *)
(* it has collected are the registries it has passed, in their order, and  *)
(* none of them has allowed.                                               *)
LoopInv(q) ==
    /\ \A i, j \in 1 .. Len(regs[q]) : regs[q][i] = regs[q][j] => i = j
    /\ Len(collected[q]) = next[q] - 1 /\ next[q] <= Len(regs[q]) + 1
    /\ \A i \in 1 .. Len(collected[q]) :
          collected[q][i].reg = regs[q][i] /\ ~IsAllow(collected[q][i])
    /\ pc[q] = "idle" => regs[q] = <<>>
    /\ pc[q] \in {"calling", "matched"} => next[q] <= Len(regs[q])
    /\ pc[q] = "matched" => answer[q].decision
    /\ pc[q] \in {"matched", "answered"} =>
          /\ answer[q] \in Answers
          /\ answer[q].decision =>
                next[q] <= Len(regs[q]) /\ answer[q].registry = NameOf[Current(q)]

SequentialInv == SequentialTypeOK /\ \A q \in Requests : LoopInv(q)

LEMMA NoMatchIsAnswer ==
    ASSUME NEW s \in Seq(Results)
    PROVE  NoMatchAnswer(s) \in Answers /\ ~NoMatchAnswer(s).decision
<1> DEFINE code == promoteSingleDenyCode(s)
           first == Earliest(Denials(s))
<1>1. code \in Registries \cup {None}
  <2>1. CASE Cardinality(Denials(s)) = 1
    <3>1. Denials(s) \in SUBSET Nat /\ Denials(s) # {}
      <4>1. Denials(s) # {}
        BY <2>1, FS_EmptySet
      <4>2. 1 .. Len(s) \subseteq Nat
        BY LenProperties
      <4> QED BY <4>1, <4>2 DEF Denials
    <3>2. PICK m \in Denials(s) : \A n \in Denials(s) : ~(n < m)
      BY <3>1, Smallest
    <3>3. \A n \in Denials(s) : m <= n
      BY <3>1, <3>2
    <3>4. first \in Denials(s)
      BY <3>3 DEF Earliest
    <3>5. s[first].reg \in Registries
      <4> HIDE DEF first
      <4>1. s[first] \in Results
        BY <3>4, ElementOfSeq DEF Denials
      <4> QED BY <4>1 DEF Results
    <3> HIDE DEF first
    <3>6. code \in {None, s[first].reg}
      BY DEF promoteSingleDenyCode, first
    <3> QED BY <3>5, <3>6
  <2>2. CASE Cardinality(Denials(s)) # 1
    BY <2>2 DEF promoteSingleDenyCode
  <2> QED BY <2>1, <2>2
<1>2. NoMatchAnswer(s) = [decision |-> FALSE, registry |-> None, code |-> code,
                          admin |-> code, ids |-> {}]
  BY DEF NoMatchAnswer
<1> HIDE DEF code
<1> QED BY <1>1, <1>2 DEF Answers

LEMMA MatchIsAnswer ==
    ASSUME NEW r \in Registries, NEW detailed \in BOOLEAN
    PROVE  LET a == MatchAnswer([reg |-> r, kind |-> "allow", detailed |-> detailed])
           IN  a \in Answers /\ a.decision /\ a.registry = NameOf[r]
<1> DEFINE admin == IF detailed THEN r ELSE None
           ids == IdsOf[r]
           a == MatchAnswer([reg |-> r, kind |-> "allow", detailed |-> detailed])
<1>1. a = [decision |-> TRUE, registry |-> NameOf[r], code |-> None, admin |-> admin, ids |-> ids]
  BY DEF MatchAnswer
<1>2. /\ admin \in Registries \cup {None} /\ NameOf[r] \in Names
      /\ ids \in SUBSET UNION {IdsOf[x] : x \in Registries}
  BY NamesAssumption
<1> HIDE DEF admin, ids, a
<1>3. a \in Answers /\ a.decision /\ a.registry = NameOf[r]
  BY <1>1, <1>2 DEF Answers
<1> QED BY <1>3 DEF a

LEMMA NoApplicableIsAnswer == NoApplicable \in Answers /\ ~NoApplicable.decision
  BY DEF NoApplicable, Answers

LEMMA SequentialStart == SequentialInit => SequentialInv
<1> SUFFICES ASSUME SequentialInit PROVE SequentialInv
  OBVIOUS
<1>1. NewCircuitBreaker \in Breaker
  BY BreakerAssumption DEF NewCircuitBreaker, Breaker, CircuitClosed, CircuitOpen, CircuitHalfOpen
<1>2. SequentialTypeOK
  BY <1>1, EmptySeq DEF SequentialInit, SequentialTypeOK
<1>3. Len(<<>>) = 0 /\ 1 .. 0 = {}
  BY EmptySeq
<1>4. ASSUME NEW q \in Requests PROVE LoopInv(q)
  BY <1>3 DEF SequentialInit, LoopInv
<1> QED BY <1>2, <1>4 DEF SequentialInv

(* What an action of request q leaves alone.                               *)
SameLoop(p) == UNCHANGED <<regs[p], pc[p], next[p], collected[p], answer[p]>>

LEMMA LoopStays ==
    ASSUME NEW p, LoopInv(p), SameLoop(p)
    PROVE  LoopInv(p)'
  BY DEF LoopInv, SameLoop, Current

LEMMA CurrentType ==
    ASSUME SequentialInv, NEW q \in Requests, pc[q] \in {"loop", "calling"}, next[q] <= Len(regs[q])
    PROVE  Current(q) \in Registries /\ NameOf[Current(q)] \in Names
<1>1. regs[q] \in Seq(Registries) /\ next[q] \in 1 .. Len(regs[q])
  BY LenProperties DEF SequentialInv, SequentialTypeOK
<1>2. Current(q) \in Registries
  BY <1>1, ElementOfSeq DEF Current
<1> QED BY <1>2, NamesAssumption

(* The breakers and the contexts.                                          *)
LEMMA BreakersKept ==
    ASSUME SequentialInv, NEW n \in Names, NEW b \in Breaker,
           breakers' = [breakers EXCEPT ![n] = b]
    PROVE  breakers' \in [Names -> Breaker]
  BY DEF SequentialInv, SequentialTypeOK

LEMMA StartKeeps ==
    ASSUME SequentialInv, NEW q \in Requests, NEW S \in SUBSET Registries, Start(q, S)
    PROVE  /\ SequentialTypeOK' /\ LoopInv(q)'
           /\ \A p \in Requests \ {q} : SameLoop(p)
<1> DEFINE s == InOrder(S)
<1>1. Holds(s, S)
  BY InOrderHolds
<1> HIDE DEF s
<1>2. /\ regs' = [regs EXCEPT ![q] = s]
      /\ pc' = [pc EXCEPT ![q] = IF S = {} THEN "answered" ELSE "loop"]
      /\ answer' = [answer EXCEPT ![q] = IF S = {} THEN NoApplicable ELSE None]
      /\ UNCHANGED <<breakers, ctxDone, next, collected>> /\ pc[q] = "idle"
  BY DEF Start, s
<1>3. s \in Seq(Registries)
  BY <1>1 DEF Holds
<1>4. SequentialTypeOK'
  BY <1>2, <1>3, NoApplicableIsAnswer DEF SequentialInv, SequentialTypeOK
<1>5. \A p \in Requests \ {q} : SameLoop(p)
  BY <1>2 DEF SequentialInv, SequentialTypeOK, SameLoop
<1>6. /\ regs'[q] = s /\ pc'[q] \in {"answered", "loop"} /\ next'[q] = next[q]
      /\ collected'[q] = collected[q]
      /\ pc'[q] = "answered" => answer'[q] = NoApplicable
  BY <1>2 DEF SequentialInv, SequentialTypeOK
<1>7. next[q] = 1 /\ Len(collected[q]) = 0 /\ 1 .. 0 = {}
  <2>1. regs[q] = <<>> /\ next[q] <= Len(regs[q]) + 1 /\ Len(collected[q]) = next[q] - 1
    BY <1>2 DEF SequentialInv, LoopInv
  <2>2. next[q] \in Nat \ {0} /\ Len(<<>>) = 0
    BY EmptySeq DEF SequentialInv, SequentialTypeOK
  <2> QED BY <2>1, <2>2
<1>8. Len(s) \in Nat
  BY <1>3, LenProperties
<1>9. LoopInv(q)'
  <2>1. \A i, j \in 1 .. Len(regs'[q]) : regs'[q][i] = regs'[q][j] => i = j
    BY <1>1, <1>6 DEF Holds
  <2>2. Len(collected'[q]) = next'[q] - 1 /\ next'[q] <= Len(regs'[q]) + 1
    BY <1>6, <1>7, <1>8
  <2>3. \A i \in 1 .. Len(collected'[q]) : FALSE
    BY <1>6, <1>7
  <2>4. pc'[q] = "answered" => answer'[q] \in Answers /\ ~answer'[q].decision
    BY <1>6, NoApplicableIsAnswer
  <2> QED BY <1>6, <2>1, <2>2, <2>3, <2>4 DEF LoopInv
<1> QED BY <1>4, <1>5, <1>9

(* A result that is not an allow is recorded.                              *)
LEMMA ContinueKeeps ==
    ASSUME SequentialInv, NEW q \in Requests, pc[q] \in {"loop", "calling"}, next[q] <= Len(regs[q]),
           NEW kind \in Kinds, kind # "allow", NEW detailed \in BOOLEAN, Continue(q, kind, detailed),
           breakers' \in [Names -> Breaker]
    PROVE  /\ SequentialTypeOK' /\ LoopInv(q)'
           /\ \A p \in Requests \ {q} : SameLoop(p)
<1> DEFINE res == [reg |-> Current(q), kind |-> kind, detailed |-> detailed]
           c == collected[q]
<1>1. res \in Results /\ ~IsAllow(res) /\ res.reg = regs[q][next[q]]
  BY CurrentType DEF Results, IsAllow, Current
<1> HIDE DEF res
<1>2. c \in Seq(Results) /\ Len(c) = next[q] - 1 /\ next[q] \in Nat \ {0}
  BY DEF SequentialInv, SequentialTypeOK, LoopInv
<1>3. /\ collected' = [collected EXCEPT ![q] = Append(c, res)]
      /\ next' = [next EXCEPT ![q] = next[q] + 1]
      /\ pc' = [pc EXCEPT ![q] = "loop"]
      /\ UNCHANGED <<regs, ctxDone, answer>>
  BY DEF Continue, res
<1>4. /\ Append(c, res) \in Seq(Results) /\ Len(Append(c, res)) = Len(c) + 1
      /\ Append(c, res)[Len(c) + 1] = res
      /\ \A i \in 1 .. Len(c) : Append(c, res)[i] = c[i]
  <2> HIDE DEF c
  <2> QED BY <1>1, <1>2, AppendProperties
<1>5. SequentialTypeOK'
  BY <1>2, <1>3, <1>4 DEF SequentialInv, SequentialTypeOK
<1>6. \A p \in Requests \ {q} : SameLoop(p)
  BY <1>3 DEF SequentialInv, SequentialTypeOK, SameLoop
<1>7. /\ collected'[q] = Append(c, res) /\ next'[q] = next[q] + 1 /\ pc'[q] = "loop"
      /\ regs'[q] = regs[q] /\ answer'[q] = answer[q]
  BY <1>3 DEF SequentialInv, SequentialTypeOK
<1>8. LoopInv(q)'
  <2>1. LoopInv(q)
    BY DEF SequentialInv
  <2>2. Len(collected'[q]) = next'[q] - 1 /\ next'[q] <= Len(regs'[q]) + 1
    <3>1. Len(regs[q]) \in Nat
      BY LenProperties DEF SequentialInv, SequentialTypeOK
    <3> HIDE DEF c
    <3>2. Len(collected'[q]) = next'[q] - 1
      <4>1. Len(c) + 1 = next[q]
        BY <1>2
      <4> QED BY <1>2, <1>4, <1>7, <4>1
    <3>3. next'[q] <= Len(regs'[q]) + 1
      BY <1>2, <1>7, <3>1
    <3> QED BY <3>2, <3>3
  <2>3. ASSUME NEW i \in 1 .. Len(collected'[q])
        PROVE  collected'[q][i].reg = regs'[q][i] /\ ~IsAllow(collected'[q][i])
    <3>1. i \in 1 .. Len(c) \/ i = next[q]
      <4> HIDE DEF c
      <4> QED BY <1>2, <1>4, <1>7
    <3>2. CASE i \in 1 .. Len(c)
      <4>1. collected'[q][i] = c[i]
        BY <1>4, <1>7, <3>2
      <4> QED BY <1>7, <2>1, <3>2, <4>1 DEF LoopInv
    <3>3. CASE i = next[q]
      <4>1. collected'[q][i] = res
        <5> HIDE DEF c
        <5> QED BY <1>2, <1>4, <1>7, <3>3
      <4> QED BY <1>1, <1>7, <3>3, <4>1
    <3> QED BY <3>1, <3>2, <3>3
  <2>4. \A i, j \in 1 .. Len(regs'[q]) : regs'[q][i] = regs'[q][j] => i = j
    BY <1>7, <2>1 DEF LoopInv
  <2>5. pc'[q] \notin {"idle", "calling", "matched", "answered"}
    BY <1>7
  <2> QED BY <2>2, <2>3, <2>4, <2>5 DEF LoopInv
<1> QED BY <1>5, <1>6, <1>8

LEMMA MatchKeeps ==
    ASSUME SequentialInv, NEW q \in Requests, NEW detailed \in BOOLEAN, ReturnMatch(q, detailed)
    PROVE  /\ SequentialTypeOK' /\ LoopInv(q)'
           /\ \A p \in Requests \ {q} : SameLoop(p)
<1> DEFINE a == MatchAnswer([reg |-> Current(q), kind |-> "allow", detailed |-> detailed])
<1>1. pc[q] = "calling" /\ next[q] <= Len(regs[q])
  BY DEF ReturnMatch, SequentialInv, LoopInv
<1>2. Current(q) \in Registries /\ NameOf[Current(q)] \in Names
  BY <1>1, CurrentType
<1>3. a \in Answers /\ a.decision /\ a.registry = NameOf[Current(q)]
  BY <1>2, MatchIsAnswer
<1> HIDE DEF a
<1>4. /\ pc' = [pc EXCEPT ![q] = "matched"]
      /\ answer' = [answer EXCEPT ![q] = a]
      /\ UNCHANGED <<regs, ctxDone, next, collected>>
  BY DEF ReturnMatch, a
<1>5. breakers' \in [Names -> Breaker]
  <2>1. RecordSuccess(breakers[NameOf[Current(q)]]) \in Breaker
    BY <1>2, BreakerMethods DEF SequentialInv, SequentialTypeOK
  <2> QED BY <1>2, <2>1, BreakersKept DEF ReturnMatch
<1>6. SequentialTypeOK'
  BY <1>3, <1>4, <1>5 DEF SequentialInv, SequentialTypeOK
<1>7. \A p \in Requests \ {q} : SameLoop(p)
  BY <1>4 DEF SequentialInv, SequentialTypeOK, SameLoop
<1>8. /\ regs'[q] = regs[q] /\ next'[q] = next[q] /\ collected'[q] = collected[q]
      /\ pc'[q] = "matched" /\ answer'[q] = a
  BY <1>4 DEF SequentialInv, SequentialTypeOK
<1>9. Current(q)' = Current(q)
  BY <1>8 DEF Current
<1>10. LoopInv(q)
  BY DEF SequentialInv
<1> QED BY <1>1, <1>3, <1>6, <1>7, <1>8, <1>9, <1>10 DEF LoopInv

LEMMA LoopEndKeeps ==
    ASSUME SequentialInv, NEW q \in Requests, Finish(q) \/ RespondMatch(q)
    PROVE  /\ SequentialTypeOK' /\ LoopInv(q)'
           /\ \A p \in Requests \ {q} : SameLoop(p)
<1>1. NoMatchAnswer(collected[q]) \in Answers /\ ~NoMatchAnswer(collected[q]).decision
  BY NoMatchIsAnswer DEF SequentialInv, SequentialTypeOK
<1>2. SequentialTypeOK' /\ \A p \in Requests \ {q} : SameLoop(p)
  <2>1. CASE Finish(q)
    BY <1>1, <2>1 DEF Finish, SequentialInv, SequentialTypeOK, SameLoop
  <2>2. CASE RespondMatch(q)
    BY <2>2 DEF RespondMatch, SequentialInv, SequentialTypeOK, SameLoop
  <2> QED BY <2>1, <2>2
<1>3. /\ regs'[q] = regs[q] /\ next'[q] = next[q] /\ collected'[q] = collected[q]
      /\ pc'[q] = "answered"
      /\ \/ answer'[q] = NoMatchAnswer(collected[q])
         \/ pc[q] = "matched" /\ answer'[q] = answer[q]
  BY DEF Finish, RespondMatch, SequentialInv, SequentialTypeOK
<1>4. Current(q)' = Current(q)
  BY <1>3 DEF Current
<1>5. LoopInv(q)
  BY DEF SequentialInv
<1> QED BY <1>1, <1>2, <1>3, <1>4, <1>5 DEF LoopInv

LEMMA CallKeeps ==
    ASSUME SequentialInv, NEW q \in Requests, Call(q) \/ Panic(q) \/ ClientGone(q)
    PROVE  /\ SequentialTypeOK' /\ LoopInv(q)'
           /\ \A p \in Requests \ {q} : SameLoop(p)
<1>1. SequentialTypeOK' /\ \A p \in Requests \ {q} : SameLoop(p)
  BY DEF Call, Panic, ClientGone, SequentialInv, SequentialTypeOK, SameLoop
<1>2. /\ regs'[q] = regs[q] /\ next'[q] = next[q] /\ collected'[q] = collected[q]
      /\ answer'[q] = answer[q]
      /\ \/ pc'[q] = "calling" /\ next[q] <= Len(regs[q])
         \/ pc'[q] = "aborted"
         \/ pc'[q] = pc[q]
  BY DEF Call, Panic, ClientGone, SequentialInv, SequentialTypeOK
<1>3. Current(q)' = Current(q)
  BY <1>2 DEF Current
<1>4. LoopInv(q)
  BY DEF SequentialInv
<1> QED BY <1>1, <1>2, <1>3, <1>4 DEF LoopInv

LEMMA RecordsKeep ==
    ASSUME SequentialInv, NEW q \in Requests,
           Skip(q) \/ ReturnError(q) \/
           \E kind \in Kinds, detailed \in BOOLEAN : ReturnNoMatch(q, kind, detailed)
    PROVE  /\ SequentialTypeOK' /\ LoopInv(q)'
           /\ \A p \in Requests \ {q} : SameLoop(p)
<1>1. pc[q] \in {"loop", "calling"} /\ next[q] <= Len(regs[q])
  BY DEF Skip, ReturnError, ReturnNoMatch, SequentialInv, LoopInv
<1>2. NameOf[Current(q)] \in Names
  BY <1>1, CurrentType
<1>3. breakers' \in [Names -> Breaker]
  <2>1. /\ RecordSuccess(breakers[NameOf[Current(q)]]) \in Breaker
        /\ RecordFailure(breakers[NameOf[Current(q)]]) \in Breaker
    BY <1>2, BreakerMethods DEF SequentialInv, SequentialTypeOK
  <2>2. CASE Skip(q)
    BY <2>2 DEF Skip, SequentialInv, SequentialTypeOK
  <2>3. CASE ReturnError(q)
    BY <1>2, <2>1, <2>3, BreakersKept DEF ReturnError
  <2>4. ASSUME NEW kind \in Kinds, NEW detailed \in BOOLEAN, ReturnNoMatch(q, kind, detailed)
        PROVE  breakers' \in [Names -> Breaker]
    BY <1>2, <2>1, <2>4, BreakersKept DEF ReturnNoMatch
  <2> QED BY <2>2, <2>3, <2>4
<1>4. PICK kind \in Kinds, detailed \in BOOLEAN : kind # "allow" /\ Continue(q, kind, detailed)
  BY DEF Skip, ReturnError, ReturnNoMatch, Kinds
<1> QED BY <1>1, <1>3, <1>4, ContinueKeeps

LEMMA SequentialStep == SequentialInv /\ [SequentialNext]_sequentialVars => SequentialInv'
<1> SUFFICES ASSUME SequentialInv, [SequentialNext]_sequentialVars PROVE SequentialInv'
  OBVIOUS
<1>1. ASSUME NEW q \in Requests, SequentialTypeOK', LoopInv(q)',
             \A p \in Requests \ {q} : SameLoop(p)
      PROVE  SequentialInv'
  <2>1. \A p \in Requests \ {q} : LoopInv(p)'
    BY <1>1, LoopStays DEF SequentialInv
  <2> QED BY <1>1, <2>1 DEF SequentialInv
<1>2. ASSUME NEW q \in Requests, NEW S \in SUBSET Registries, Start(q, S) PROVE SequentialInv'
  BY <1>1, <1>2, StartKeeps
<1>3. ASSUME NEW q \in Requests, Call(q) \/ Panic(q) \/ ClientGone(q) PROVE SequentialInv'
  BY <1>1, <1>3, CallKeeps
<1>4. ASSUME NEW q \in Requests,
             Skip(q) \/ ReturnError(q) \/
             \E kind \in Kinds, detailed \in BOOLEAN : ReturnNoMatch(q, kind, detailed)
      PROVE  SequentialInv'
  BY <1>1, <1>4, RecordsKeep
<1>5. ASSUME NEW q \in Requests, NEW detailed \in BOOLEAN, ReturnMatch(q, detailed) PROVE SequentialInv'
  BY <1>1, <1>5, MatchKeeps
<1>6. ASSUME NEW q \in Requests, RespondMatch(q) \/ Finish(q) PROVE SequentialInv'
  BY <1>1, <1>6, LoopEndKeeps
<1>7. CASE ClockTicks \/ UNCHANGED sequentialVars
  <2>1. /\ UNCHANGED <<regs, pc, ctxDone, next, collected, answer>>
        /\ breakers' \in [Names -> Breaker]
    BY <1>7, BreakerMethods DEF ClockTicks, sequentialVars, SequentialInv, SequentialTypeOK
  <2>2. SequentialTypeOK' /\ \A q \in Requests : SameLoop(q)
    BY <2>1 DEF SequentialInv, SequentialTypeOK, SameLoop
  <2> QED BY <2>2, LoopStays DEF SequentialInv
<1> QED BY <1>2, <1>3, <1>4, <1>5, <1>6, <1>7 DEF SequentialNext, Return

LEMMA SequentialAlways == SequentialSpec => []SequentialInv
  BY SequentialStart, SequentialStep, PTL DEF SequentialSpec

(* Every value the loop keeps is of its type, the index of the registry at *)
(* hand and the results recorded included.                                 *)
THEOREM SequentialTypeCorrect == SequentialSpec => []SequentialTypeOK
<1>1. SequentialInv => SequentialTypeOK
  BY DEF SequentialInv
<1> QED BY <1>1, SequentialAlways, PTL

(* The sequential strategy prefers what was registered first: an allow is  *)
(* that of the registry at hand, and each one before it was consulted or   *)
(* skipped and did not allow.                                              *)
THEOREM PreferenceIsRespected == SequentialSpec => []PreferenceRespected
<1>1. SequentialInv => PreferenceRespected
  BY DEF SequentialInv, LoopInv, PreferenceRespected
<1> QED BY <1>1, SequentialAlways, PTL

-----------------------------------------------------------------------------
(* The contract: a result that is recorded is a vote, and so is the match  *)
(* that ends the loop.                                                     *)
Collected(q, r) == \E i \in 1 .. Len(collected[q]) : collected[q][i].reg = r

LoopVote(q, r) == IF Collected(q, r) THEN "no" ELSE IF r \in Matched(q) THEN "yes" ELSE "none"

AbsVote(q, r) == IF \E i \in 1 .. Len(collected[q]) : collected[q][i].reg = r
                 THEN VoteAt(q, CHOOSE i \in 1 .. Len(collected[q]) : collected[q][i].reg = r)
                 ELSE IF r \in Matched(q) THEN "yes" ELSE "none"

AbsDecision(q) ==
    CASE pc[q] = "idle"                -> "new"
      [] pc[q] \in {"loop", "calling", "matched"} -> "open"
      [] pc[q] = "aborted"             -> "abort"
      [] pc[q] = "answered" -> IF answer[q].decision THEN "allow" ELSE "deny"

AbsApplicable == [q \in Requests |-> Applicable(q)]
AbsVotes      == [q \in Requests |-> [r \in Registries |-> AbsVote(q, r)]]
AbsDecisions  == [q \in Requests |-> AbsDecision(q)]

LEMMA VoteOf ==
    ASSUME NEW q, LoopInv(q), NEW r
    PROVE  AbsVote(q, r) = LoopVote(q, r)
<1>1. CASE Collected(q, r)
  <2> DEFINE k == CHOOSE i \in 1 .. Len(collected[q]) : collected[q][i].reg = r
  <2>1. k \in 1 .. Len(collected[q])
    BY <1>1 DEF Collected
  <2> HIDE DEF k
  <2>2. VoteAt(q, k) = "no"
    BY <2>1 DEF LoopInv, VoteAt
  <2>3. AbsVote(q, r) = VoteAt(q, k)
    BY <1>1 DEF AbsVote, Collected, k
  <2> QED BY <1>1, <2>2, <2>3 DEF LoopVote
<1>2. CASE ~Collected(q, r)
  BY <1>2 DEF AbsVote, Collected, LoopVote
<1> QED BY <1>1, <1>2

(* And in the next state.                                                  *)
LEMMA VoteOfNext ==
    ASSUME NEW q, LoopInv(q)', NEW r
    PROVE  AbsVote(q, r)' = LoopVote(q, r)'
<1>1. CASE Collected(q, r)'
  <2> DEFINE k == CHOOSE i \in 1 .. Len(collected'[q]) : collected'[q][i].reg = r
  <2>1. k \in 1 .. Len(collected'[q])
    BY <1>1 DEF Collected
  <2> HIDE DEF k
  <2>2. ~IsAllow(collected'[q][k])
    BY <2>1 DEF LoopInv
  <2>3. AbsVote(q, r)' = IF IsAllow(collected'[q][k]) THEN "yes" ELSE "no"
    BY <1>1 DEF AbsVote, Collected, VoteAt, k
  <2> QED BY <1>1, <2>2, <2>3 DEF LoopVote
<1>2. CASE ~Collected(q, r)'
  BY <1>2 DEF AbsVote, Collected, LoopVote
<1> QED BY <1>1, <1>2

(* A step of request q changes the abstract state of q alone.              *)
LEMMA AbsFrame ==
    ASSUME NEW q \in Requests, \A p \in Requests \ {q} : SameLoop(p)
    PROVE  /\ AbsApplicable' = [AbsApplicable EXCEPT ![q] = Applicable(q)']
           /\ AbsVotes' = [AbsVotes EXCEPT ![q] = [r \in Registries |-> AbsVote(q, r)']]
           /\ AbsDecisions' = [AbsDecisions EXCEPT ![q] = AbsDecision(q)']
<1>1. ASSUME NEW p \in Requests \ {q}
      PROVE  Applicable(p)' = Applicable(p) /\ AbsDecision(p)' = AbsDecision(p)
  BY DEF SameLoop, Applicable, AbsDecision
<1>2. ASSUME NEW p \in Requests \ {q}, NEW r \in Registries
      PROVE  AbsVote(p, r)' = AbsVote(p, r)
  BY DEF SameLoop, AbsVote, VoteAt, Matched, Current
<1>3. AbsApplicable' = [AbsApplicable EXCEPT ![q] = Applicable(q)']
  BY <1>1 DEF AbsApplicable
<1>4. AbsVotes' = [AbsVotes EXCEPT ![q] = [r \in Registries |-> AbsVote(q, r)']]
  BY <1>2 DEF AbsVotes
<1>5. AbsDecisions' = [AbsDecisions EXCEPT ![q] = AbsDecision(q)']
  BY <1>1 DEF AbsDecisions
<1> QED BY <1>3, <1>4, <1>5

(* When this state and the next are a step of the contract.                *)
LEMMA IsUnchanged ==
    ASSUME AbsApplicable' = AbsApplicable, AbsVotes' = AbsVotes, AbsDecisions' = AbsDecisions
    PROVE  UNCHANGED Contract!vars
  BY DEF Contract!vars, AbsApplicable, AbsVotes, AbsDecisions, AbsVote, AbsDecision

LEMMA IsReceive ==
    ASSUME NEW q, NEW S,
           AbsDecisions[q] = "new",
           AbsApplicable' = [AbsApplicable EXCEPT ![q] = S],
           AbsDecisions' = [AbsDecisions EXCEPT ![q] = IF S = {} THEN "deny" ELSE "open"],
           AbsVotes' = AbsVotes
    PROVE  Contract!Receive(q, S)
  BY DEF Contract!Receive, AbsApplicable, AbsVotes, AbsDecisions, AbsVote, AbsDecision

LEMMA IsVote ==
    ASSUME NEW q, NEW r, NEW v,
           AbsDecisions[q] # "new", r \in AbsApplicable[q], AbsVotes[q][r] = "none",
           AbsVotes' = [AbsVotes EXCEPT ![q][r] = v],
           AbsApplicable' = AbsApplicable, AbsDecisions' = AbsDecisions
    PROVE  Contract!Vote(q, r, v)
  BY DEF Contract!Vote, AbsApplicable, AbsVotes, AbsDecisions, AbsVote, AbsDecision

LEMMA IsAllowed ==
    ASSUME NEW q,
           AbsDecisions[q] = "open",
           \E r \in AbsApplicable[q] : AbsVotes[q][r] = "yes",
           AbsDecisions' = [AbsDecisions EXCEPT ![q] = "allow"],
           AbsApplicable' = AbsApplicable, AbsVotes' = AbsVotes
    PROVE  Contract!Allow(q)
  BY DEF Contract!Allow, AbsApplicable, AbsVotes, AbsDecisions, AbsVote, AbsDecision

LEMMA IsDenied ==
    ASSUME NEW q,
           AbsDecisions[q] = "open",
           \A r \in AbsApplicable[q] : AbsVotes[q][r] = "no",
           AbsDecisions' = [AbsDecisions EXCEPT ![q] = "deny"],
           AbsApplicable' = AbsApplicable, AbsVotes' = AbsVotes
    PROVE  Contract!Deny(q)
  BY DEF Contract!Deny, AbsApplicable, AbsVotes, AbsDecisions, AbsVote, AbsDecision

LEMMA IsAborted ==
    ASSUME NEW q,
           AbsDecisions[q] = "open",
           AbsDecisions' = [AbsDecisions EXCEPT ![q] = "abort"],
           AbsApplicable' = AbsApplicable, AbsVotes' = AbsVotes
    PROVE  Contract!Abort(q)
  BY DEF Contract!Abort, AbsApplicable, AbsVotes, AbsDecisions, AbsVote, AbsDecision

(* The abstract state of a single request in terms of its own variables.   *)
LEMMA AbsOf ==
    ASSUME NEW q \in Requests
    PROVE  /\ AbsApplicable[q] = Applicable(q) /\ AbsDecisions[q] = AbsDecision(q)
           /\ \A r \in Registries : AbsVotes[q][r] = AbsVote(q, r)
           /\ AbsApplicable = [AbsApplicable EXCEPT ![q] = Applicable(q)]
           /\ AbsVotes = [AbsVotes EXCEPT ![q] = [r \in Registries |-> AbsVote(q, r)]]
           /\ AbsDecisions = [AbsDecisions EXCEPT ![q] = AbsDecision(q)]
  BY DEF AbsApplicable, AbsVotes, AbsDecisions

(* The votes of a request stay when its results and its match do.          *)
LEMMA VotesKept ==
    ASSUME NEW q \in Requests, \A p \in Requests \ {q} : SameLoop(p), LoopInv(q), LoopInv(q)',
           collected'[q] = collected[q], Matched(q)' = Matched(q)
    PROVE  AbsVotes' = AbsVotes
<1>1. \A r \in Registries : Collected(q, r)' <=> Collected(q, r)
  BY DEF Collected
<1>2. ASSUME NEW r \in Registries PROVE AbsVote(q, r)' = AbsVote(q, r)
  <2>1. LoopVote(q, r)' = LoopVote(q, r)
    BY <1>1 DEF LoopVote
  <2> QED BY <2>1, VoteOf, VoteOfNext
<1>3. [r \in Registries |-> AbsVote(q, r)'] = [r \in Registries |-> AbsVote(q, r)]
  BY <1>2
<1> QED BY <1>3, AbsFrame, AbsOf

LEMMA ApplicableKept ==
    ASSUME NEW q \in Requests, \A p \in Requests \ {q} : SameLoop(p), regs'[q] = regs[q]
    PROVE  AbsApplicable' = AbsApplicable
<1>1. Applicable(q)' = Applicable(q)
  BY DEF Applicable
<1> QED BY <1>1, AbsFrame, AbsOf

(* The registry at hand is one that has not voted yet.                     *)
LEMMA CurrentIsNew ==
    ASSUME SequentialInv, NEW q \in Requests, next[q] <= Len(regs[q])
    PROVE  Current(q) \in Applicable(q) /\ ~Collected(q, Current(q))
<1>1. next[q] \in 1 .. Len(regs[q]) /\ Len(collected[q]) = next[q] - 1
  BY LenProperties DEF SequentialInv, SequentialTypeOK, LoopInv
<1>2. Current(q) \in Applicable(q)
  BY <1>1 DEF Current, Applicable
<1>3. ASSUME NEW i \in 1 .. Len(collected[q]) PROVE collected[q][i].reg # Current(q)
  <2>1. i \in 1 .. Len(regs[q]) /\ i # next[q]
    BY <1>1, LenProperties DEF SequentialInv, SequentialTypeOK
  <2>2. collected[q][i].reg = regs[q][i]
    BY DEF SequentialInv, LoopInv
  <2> QED BY <1>1, <2>1, <2>2 DEF SequentialInv, LoopInv, Current
<1> QED BY <1>2, <1>3 DEF Collected

(* The registry at hand votes, and the request stays open.                 *)
CurrentVotes(q, v) ==
    \A r \in Registries : LoopVote(q, r)' = IF r = Current(q) THEN v ELSE LoopVote(q, r)

LEMMA CastsVote ==
    ASSUME SequentialInv, NEW q \in Requests, LoopInv(q)', NEW v,
           pc[q] \in {"loop", "calling"}, next[q] <= Len(regs[q]), pc'[q] \in {"loop", "matched"},
           regs'[q] = regs[q], \A p \in Requests \ {q} : SameLoop(p),
           CurrentVotes(q, v)
    PROVE  \E r \in Registries : Contract!Vote(q, r, v)
<1>1. LoopInv(q) /\ Matched(q) = {}
  BY DEF SequentialInv, Matched
<1>2. Current(q) \in Registries /\ Current(q) \in Applicable(q) /\ ~Collected(q, Current(q))
  BY CurrentType, CurrentIsNew
<1>3. AbsVote(q, Current(q)) = "none"
  BY <1>1, <1>2, VoteOf DEF LoopVote
<1>4. ASSUME NEW r \in Registries
      PROVE  AbsVote(q, r)' = IF r = Current(q) THEN v ELSE AbsVote(q, r)
  <2>1. AbsVote(q, r)' = LoopVote(q, r)' /\ AbsVote(q, r) = LoopVote(q, r)
    BY <1>1, VoteOf, VoteOfNext
  <2> QED BY <2>1 DEF CurrentVotes
<1>5. AbsVotes' = [AbsVotes EXCEPT ![q][Current(q)] = v]
  <2>1. AbsVotes[q] = [r \in Registries |-> AbsVote(q, r)]
    BY DEF AbsVotes
  <2>2. [r \in Registries |-> AbsVote(q, r)'] = [AbsVotes[q] EXCEPT ![Current(q)] = v]
    BY <1>4, <2>1
  <2> QED BY <2>2, AbsFrame
<1>6. AbsDecision(q) = "open" /\ AbsDecision(q)' = "open"
  BY DEF AbsDecision
<1>7. AbsDecisions' = AbsDecisions /\ AbsDecisions[q] # "new"
  BY <1>6, AbsFrame, AbsOf
<1>8. Current(q) \in AbsApplicable[q] /\ AbsVotes[q][Current(q)] = "none"
  BY <1>2, <1>3, AbsOf
<1>9. PICK r \in Registries : r = Current(q)
  BY <1>2
<1>10. /\ r \in AbsApplicable[q] /\ AbsVotes[q][r] = "none"
       /\ AbsVotes' = [AbsVotes EXCEPT ![q][r] = v]
  BY <1>5, <1>8, <1>9
<1>11. Contract!Vote(q, r, v)
  BY <1>7, <1>10, ApplicableKept, IsVote
<1> QED BY <1>9, <1>11

LEMMA StartReceives ==
    ASSUME SequentialInv, SequentialInv', NEW q \in Requests, NEW S \in SUBSET Registries, Start(q, S)
    PROVE  Contract!Receive(q, S)
<1> DEFINE s == InOrder(S)
<1>1. Holds(s, S)
  BY InOrderHolds
<1> HIDE DEF s
<1>2. /\ pc[q] = "idle" /\ regs'[q] = s /\ collected'[q] = collected[q]
      /\ pc'[q] = IF S = {} THEN "answered" ELSE "loop"
      /\ S = {} => answer'[q] = NoApplicable
  BY DEF Start, SequentialInv, SequentialTypeOK, s
<1>3. /\ LoopInv(q) /\ LoopInv(q)' /\ \A p \in Requests \ {q} : SameLoop(p)
  BY StartKeeps DEF SequentialInv
<1>4. Applicable(q)' = S
  BY <1>1, <1>2 DEF Applicable, Holds
<1>5. AbsDecision(q)' = IF S = {} THEN "deny" ELSE "open"
  BY <1>2, NoApplicableIsAnswer DEF AbsDecision
<1>6. AbsDecision(q) = "new"
  BY <1>2 DEF AbsDecision
<1>7. Matched(q) = {} /\ Matched(q)' = {}
  BY <1>2, NoApplicableIsAnswer DEF Matched
<1>8. AbsVotes' = AbsVotes
  BY <1>2, <1>3, <1>7, VotesKept
<1>9. /\ AbsApplicable' = [AbsApplicable EXCEPT ![q] = S]
      /\ AbsDecisions' = [AbsDecisions EXCEPT ![q] = IF S = {} THEN "deny" ELSE "open"]
  BY <1>3, <1>4, <1>5, AbsFrame
<1>10. AbsDecisions[q] = "new"
  BY <1>6, AbsOf
<1> QED BY <1>8, <1>9, <1>10, IsReceive

LEMMA RecordVotes ==
    ASSUME SequentialInv, SequentialInv', NEW q \in Requests,
           Skip(q) \/ ReturnError(q) \/
           \E kind \in Kinds, detailed \in BOOLEAN : ReturnNoMatch(q, kind, detailed)
    PROVE  \E r \in Registries : Contract!Vote(q, r, "no")
<1>1. pc[q] \in {"loop", "calling"} /\ next[q] <= Len(regs[q])
  BY DEF Skip, ReturnError, ReturnNoMatch, SequentialInv, LoopInv
<1>2. PICK kind \in Kinds, detailed \in BOOLEAN : kind # "allow" /\ Continue(q, kind, detailed)
  BY DEF Skip, ReturnError, ReturnNoMatch, Kinds
<1>3. LoopInv(q)' /\ \A p \in Requests \ {q} : SameLoop(p)
  BY RecordsKeep
<1> DEFINE c == collected[q]
           res == [reg |-> Current(q), kind |-> kind, detailed |-> detailed]
           a == Append(c, res)
<1>4. collected'[q] = a /\ pc'[q] = "loop" /\ regs'[q] = regs[q] /\ res.reg = Current(q)
  BY <1>2 DEF Continue, SequentialInv, SequentialTypeOK
<1>5. c \in Seq(Results) /\ res \in Results
  BY <1>1, CurrentType DEF SequentialInv, SequentialTypeOK, Results
<1>6. /\ Len(a) = Len(c) + 1 /\ a[Len(c) + 1] = res /\ Len(c) \in Nat
      /\ \A i \in 1 .. Len(c) : a[i] = c[i]
  <2> HIDE DEF c, res
  <2> QED BY <1>5, AppendProperties, LenProperties
<1>7. Matched(q)' = {}
  BY <1>4 DEF Matched
<1>8. ASSUME NEW r \in Registries
      PROVE  Collected(q, r)' <=> r = Current(q) \/ Collected(q, r)
  <2> HIDE DEF c, res, a
  <2>1. \A i \in 1 .. Len(a) : i \in 1 .. Len(c) \/ i = Len(c) + 1
    BY <1>6
  <2>2. 1 .. Len(c) \subseteq 1 .. Len(a) /\ Len(c) + 1 \in 1 .. Len(a)
    BY <1>6
  <2>3. Collected(q, r)' <=> \E i \in 1 .. Len(a) : a[i].reg = r
    BY <1>4 DEF Collected
  <2>4. Collected(q, r) <=> \E i \in 1 .. Len(c) : c[i].reg = r
    BY DEF Collected, c
  <2>5. ASSUME Collected(q, r)' PROVE r = Current(q) \/ Collected(q, r)
    <3>1. PICK i \in 1 .. Len(a) : a[i].reg = r
      BY <2>3, <2>5
    <3>2. CASE i = Len(c) + 1
      BY <1>4, <1>6, <3>1, <3>2
    <3>3. CASE i \in 1 .. Len(c)
      BY <1>6, <2>4, <3>1, <3>3
    <3> QED BY <2>1, <3>2, <3>3
  <2>6. ASSUME r = Current(q) PROVE Collected(q, r)'
    BY <1>4, <1>6, <2>2, <2>3, <2>6
  <2>7. ASSUME Collected(q, r) PROVE Collected(q, r)'
    <3>1. PICK i \in 1 .. Len(c) : c[i].reg = r
      BY <2>4, <2>7
    <3>2. i \in 1 .. Len(a) /\ a[i] = c[i]
      BY <1>6, <2>2
    <3> QED BY <2>3, <3>1, <3>2
  <2> QED BY <2>5, <2>6, <2>7
<1>9. ASSUME NEW r \in Registries
      PROVE  LoopVote(q, r)' = IF r = Current(q) THEN "no" ELSE LoopVote(q, r)
  <2>1. Matched(q) = {}
    BY <1>1 DEF Matched
  <2> QED BY <1>7, <1>8, <2>1 DEF LoopVote
<1>10. CurrentVotes(q, "no")
  BY <1>9 DEF CurrentVotes
<1>11. pc'[q] \in {"loop", "matched"} /\ regs'[q] = regs[q]
  BY <1>4
<1> HIDE DEF c, res, a
<1> QED BY <1>1, <1>3, <1>10, <1>11, CastsVote

LEMMA MatchVotes ==
    ASSUME SequentialInv, SequentialInv', NEW q \in Requests, NEW detailed \in BOOLEAN,
           ReturnMatch(q, detailed)
    PROVE  \E r \in Registries : Contract!Vote(q, r, "yes")
<1>1. pc[q] = "calling" /\ next[q] <= Len(regs[q])
  BY DEF ReturnMatch, SequentialInv, LoopInv
<1>2. LoopInv(q)' /\ \A p \in Requests \ {q} : SameLoop(p)
  BY MatchKeeps
<1>3. /\ regs'[q] = regs[q] /\ next'[q] = next[q] /\ collected'[q] = collected[q]
      /\ pc'[q] = "matched"
  BY DEF ReturnMatch, SequentialInv, SequentialTypeOK
<1>4. Matched(q)' = {Current(q)}
  BY <1>2, <1>3 DEF Matched, Current, LoopInv
<1>5. \A r \in Registries : Collected(q, r)' <=> Collected(q, r)
  BY <1>3 DEF Collected
<1>6. ~Collected(q, Current(q))
  BY <1>1, CurrentIsNew
<1>7. ASSUME NEW r \in Registries
      PROVE  LoopVote(q, r)' = IF r = Current(q) THEN "yes" ELSE LoopVote(q, r)
  <2>1. Matched(q) = {}
    BY <1>1 DEF Matched
  <2> QED BY <1>4, <1>5, <1>6, <2>1 DEF LoopVote
<1>8. CurrentVotes(q, "yes")
  BY <1>7 DEF CurrentVotes
<1>9. /\ pc[q] \in {"loop", "calling"} /\ pc'[q] \in {"loop", "matched"}
      /\ next[q] <= Len(regs[q]) /\ regs'[q] = regs[q]
  BY <1>1, <1>3
<1> QED BY <1>2, <1>8, <1>9, CastsVote

(* The steps that end a request.                                           *)
LEMMA EndDecides ==
    ASSUME SequentialInv, SequentialInv', NEW q \in Requests,
           RespondMatch(q) \/ Finish(q) \/ Panic(q)
    PROVE  Contract!Allow(q) \/ Contract!Deny(q) \/ Contract!Abort(q)
<1>1. LoopInv(q) /\ LoopInv(q)' /\ \A p \in Requests \ {q} : SameLoop(p)
  BY LoopEndKeeps, CallKeeps DEF SequentialInv
<1>2. /\ regs'[q] = regs[q] /\ next'[q] = next[q] /\ collected'[q] = collected[q]
      /\ pc[q] \in {"loop", "calling", "matched"}
  BY DEF RespondMatch, Finish, Panic, SequentialInv, SequentialTypeOK
<1>3. AbsDecisions[q] = "open" /\ AbsApplicable' = AbsApplicable
  <2>1. AbsDecision(q) = "open"
    BY <1>2 DEF AbsDecision
  <2> QED BY <1>1, <1>2, <2>1, ApplicableKept, AbsOf
<1>4. CASE RespondMatch(q)
  <2>1. /\ pc[q] = "matched" /\ pc'[q] = "answered" /\ answer'[q] = answer[q] /\ answer[q].decision
    BY <1>1, <1>4 DEF RespondMatch, LoopInv, SequentialInv, SequentialTypeOK
  <2>2. Matched(q) = {Current(q)} /\ Matched(q)' = {Current(q)}
    BY <1>2, <2>1 DEF Matched, Current
  <2>3. /\ next[q] <= Len(regs[q]) /\ Current(q) \in Applicable(q) /\ ~Collected(q, Current(q))
    BY <1>1, <2>1, CurrentIsNew DEF LoopInv
  <2>4. PICK r \in Registries : r = Current(q)
    <3>1. Applicable(q) \subseteq Registries
      BY ElementOfSeq DEF Applicable, SequentialInv, SequentialTypeOK
    <3> QED BY <2>3, <3>1
  <2>5. AbsVote(q, r) = "yes"
    <3>1. LoopVote(q, r) = "yes"
      BY <2>2, <2>3, <2>4 DEF LoopVote
    <3> QED BY <1>1, <3>1, VoteOf
  <2>6. r \in AbsApplicable[q] /\ AbsVotes[q][r] = "yes"
    BY <2>3, <2>4, <2>5, AbsOf
  <2>7. AbsVotes' = AbsVotes
    BY <1>1, <1>2, <2>2, VotesKept
  <2>8. AbsDecision(q)' = "allow"
    BY <2>1 DEF AbsDecision
  <2>9. AbsDecisions' = [AbsDecisions EXCEPT ![q] = "allow"]
    BY <1>1, <2>8, AbsFrame
  <2> QED BY <1>3, <2>6, <2>7, <2>9, IsAllowed
<1>5. CASE Finish(q)
  <2>1. /\ pc[q] = "loop" /\ pc'[q] = "answered" /\ next[q] > Len(regs[q])
        /\ answer'[q] = NoMatchAnswer(collected[q])
    BY <1>5 DEF Finish, SequentialInv, SequentialTypeOK
  <2>2. ~answer'[q].decision
    BY <2>1, NoMatchIsAnswer DEF SequentialInv, SequentialTypeOK
  <2>3. Matched(q) = {} /\ Matched(q)' = {}
    BY <2>1, <2>2 DEF Matched
  <2>4. AbsVotes' = AbsVotes
    BY <1>1, <1>2, <2>3, VotesKept
  <2>5. ASSUME NEW r \in Applicable(q) PROVE AbsVotes[q][r] = "no"
    <3>1. PICK i \in 1 .. Len(regs[q]) : r = regs[q][i]
      BY DEF Applicable
    <3>2. i \in 1 .. Len(collected[q])
      BY <1>1, <2>1, LenProperties DEF LoopInv, SequentialInv, SequentialTypeOK
    <3>3. Collected(q, r)
      BY <1>1, <3>1, <3>2 DEF Collected, LoopInv
    <3>4. r \in Registries
      BY <3>1, ElementOfSeq DEF SequentialInv, SequentialTypeOK
    <3>5. AbsVote(q, r) = "no"
      BY <1>1, <3>3, VoteOf DEF LoopVote
    <3> QED BY <3>4, <3>5, AbsOf
  <2>6. AbsDecision(q)' = "deny"
    BY <2>1, <2>2 DEF AbsDecision
  <2>7. AbsDecisions' = [AbsDecisions EXCEPT ![q] = "deny"]
    BY <1>1, <2>6, AbsFrame
  <2>8. \A r \in AbsApplicable[q] : AbsVotes[q][r] = "no"
    BY <2>5, AbsOf
  <2> QED BY <1>3, <2>4, <2>7, <2>8, IsDenied
<1>6. CASE Panic(q)
  <2>1. pc[q] = "calling" /\ pc'[q] = "aborted"
    BY <1>6 DEF Panic, SequentialInv, SequentialTypeOK
  <2>2. Matched(q) = {} /\ Matched(q)' = {}
    BY <2>1 DEF Matched
  <2>3. AbsVotes' = AbsVotes
    BY <1>1, <1>2, <2>2, VotesKept
  <2>4. AbsDecision(q)' = "abort"
    BY <2>1 DEF AbsDecision
  <2>5. AbsDecisions' = [AbsDecisions EXCEPT ![q] = "abort"]
    BY <1>1, <2>4, AbsFrame
  <2> QED BY <1>3, <2>3, <2>5, IsAborted
<1> QED BY <1>4, <1>5, <1>6

(* Calls, ends of contexts and the clock are nothing to the contract.      *)
LEMMA CallStutters ==
    ASSUME SequentialInv, SequentialInv', NEW q \in Requests, Call(q) \/ ClientGone(q)
    PROVE  UNCHANGED Contract!vars
<1>1. LoopInv(q) /\ LoopInv(q)' /\ \A p \in Requests \ {q} : SameLoop(p)
  BY CallKeeps DEF SequentialInv
<1>2. /\ regs'[q] = regs[q] /\ collected'[q] = collected[q]
      /\ pc[q] \in {"loop", "calling"} /\ pc'[q] \in {"loop", "calling"}
  BY DEF Call, ClientGone, SequentialInv, SequentialTypeOK
<1>3. Matched(q) = {} /\ Matched(q)' = {}
  BY <1>2 DEF Matched
<1>4. AbsVotes' = AbsVotes /\ AbsApplicable' = AbsApplicable
  BY <1>1, <1>2, <1>3, VotesKept, ApplicableKept
<1>5. AbsDecision(q)' = AbsDecision(q)
  BY <1>2 DEF AbsDecision
<1>6. AbsDecisions' = AbsDecisions
  BY <1>1, <1>5, AbsFrame, AbsOf
<1> QED BY <1>4, <1>6, IsUnchanged

LEMMA ContractStep ==
    ASSUME SequentialInv, SequentialInv', [SequentialNext]_sequentialVars
    PROVE  [Contract!Next]_Contract!vars
<1>1. ASSUME UNCHANGED <<regs, pc, next, collected, answer>> PROVE UNCHANGED Contract!vars
  <2>1. ASSUME NEW q \in Requests
        PROVE  /\ Applicable(q)' = Applicable(q) /\ AbsDecision(q)' = AbsDecision(q)
               /\ \A r \in Registries : AbsVote(q, r)' = AbsVote(q, r)
    BY <1>1 DEF Applicable, AbsDecision, AbsVote, VoteAt, Matched, Current
  <2>2. AbsApplicable' = AbsApplicable /\ AbsVotes' = AbsVotes /\ AbsDecisions' = AbsDecisions
    BY <2>1 DEF AbsApplicable, AbsVotes, AbsDecisions
  <2> QED BY <2>2, IsUnchanged
<1>2. CASE ClockTicks \/ UNCHANGED sequentialVars
  BY <1>1, <1>2 DEF ClockTicks, sequentialVars
<1>3. ASSUME NEW q \in Requests, NEW S \in SUBSET Registries, Start(q, S)
      PROVE  Contract!Next
  BY <1>3, StartReceives DEF Contract!Next
<1>4. ASSUME NEW q \in Requests, Call(q) \/ ClientGone(q) PROVE UNCHANGED Contract!vars
  BY <1>4, CallStutters
<1>5. ASSUME NEW q \in Requests,
             Skip(q) \/ ReturnError(q) \/
             \E kind \in Kinds, detailed \in BOOLEAN : ReturnNoMatch(q, kind, detailed)
      PROVE  Contract!Next
  BY <1>5, RecordVotes DEF Contract!Next
<1>6. ASSUME NEW q \in Requests, NEW detailed \in BOOLEAN, ReturnMatch(q, detailed)
      PROVE  Contract!Next
  BY <1>6, MatchVotes DEF Contract!Next
<1>7. ASSUME NEW q \in Requests, RespondMatch(q) \/ Finish(q) \/ Panic(q) PROVE Contract!Next
  BY <1>7, EndDecides DEF Contract!Next
<1> QED BY <1>2, <1>3, <1>4, <1>5, <1>6, <1>7 DEF SequentialNext, Return

LEMMA ContractInit == SequentialInit => Contract!Init
<1> SUFFICES ASSUME SequentialInit PROVE Contract!Init
  OBVIOUS
<1>1. ASSUME NEW q \in Requests PROVE pc[q] = "idle" /\ regs[q] = <<>> /\ collected[q] = <<>>
  BY DEF SequentialInit
<1>2. Len(<<>>) = 0 /\ 1 .. 0 = {}
  BY EmptySeq
<1>3. ASSUME NEW q \in Requests, NEW r \in Registries
      PROVE  Applicable(q) = {} /\ Matched(q) = {} /\ ~\E i \in 1 .. Len(collected[q]) : collected[q][i].reg = r
  BY <1>1, <1>2 DEF Applicable, Matched
<1>4. ASSUME NEW q \in Requests PROVE Applicable(q) = {}
  BY <1>1, <1>2 DEF Applicable
<1> QED BY <1>1, <1>3, <1>4 DEF Contract!Init

(* The sequential strategy, for any number of registries, requests and     *)
(* names: every step of the loop is a step of the contract the manager     *)
(* keeps with its callers, or changes nothing the contract speaks of.      *)
THEOREM SequentialKeepsContract == SequentialSpec => Contract!Spec
<1>1. SequentialInit => Contract!Init
  BY ContractInit
<1>2. SequentialInv /\ SequentialInv' /\ [SequentialNext]_sequentialVars
         => [Contract!Next]_Contract!vars
  BY ContractStep
<1> QED BY <1>1, <1>2, SequentialAlways, PTL DEF SequentialSpec, Contract!Spec
=============================================================================

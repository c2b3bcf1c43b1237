------------------------- MODULE LoTERegistryProofs -------------------------
(***************************************************************************)
(* For any lists, lists of lists, pointers between them, dates, types and  *)
(* requests: the registry is type correct, no lapsed list decides, a       *)
(* refresh is complete, and expiry grants nothing.                         *)
(***************************************************************************)
EXTENDS LoTERegistry, WellFoundedInduction, TLAPS

-----------------------------------------------------------------------------
(* The dates of lists have a minimum.                                      *)
LEMMA NatMinimum ==
    ASSUME NEW T \in SUBSET Nat, T # {}
    PROVE  \E m \in T : \A n \in T : m <= n
<1> DEFINE R == {p \in Nat \X Nat : p[1] < p[2]}
<1>1. IsWellFoundedOn(R, Nat)
    BY NatLessThanWellFounded DEF OpToRel
<1>2. PICK m \in T : \A n \in T : <<n, m>> \notin R
  <2> HIDE DEF R
  <2> QED  BY <1>1, WFMin
<1>3. \A n \in T : ~(n < m)
    BY <1>2
<1> QED  BY <1>3

(* nextExpiry is a lower bound of the deadlines, and one of them if it is  *)
(* a date at all.                                                          *)
LEMMA EarliestProperties ==
    ASSUME NEW S \in SUBSET Loaded
    PROVE  /\ Earliest(S) \in Time
           /\ \A l \in S : Earliest(S) <= l.deadline
           /\ Earliest(S) = MaxTime \/ \E l \in S : Earliest(S) = l.deadline
<1> DEFINE T == {l.deadline : l \in S} \cup {MaxTime}
           P(t) == /\ \A l \in S : t <= l.deadline
                   /\ t = MaxTime \/ \E l \in S : t = l.deadline
<1>1. MaxTime \in Nat /\ \A l \in S : l.deadline \in Time
    BY LoTEAssumption DEF Loaded
<1>2. T \in SUBSET Nat /\ T # {}
    BY <1>1 DEF Time
<1>3. PICK m \in T : \A n \in T : m <= n
  <2> HIDE DEF T
  <2> QED  BY <1>2, NatMinimum
<1>4. m \in Time /\ P(m)
    BY <1>1, <1>3 DEF Time
<1>5. Earliest(S) = CHOOSE t \in Time : P(t)
    BY DEF Earliest
<1>6. Earliest(S) \in Time /\ P(Earliest(S))
  <2> HIDE DEF P
  <2> QED  BY <1>4, <1>5
<1> QED  BY <1>6

(* What is left of the stack when an item has been dealt with, and when a  *)
(* list of lists has been opened.                                          *)
LEMMA RestShape ==
    ASSUME TypeOK, HasItem
    PROVE  /\ Item \in Locations /\ Top \in Frames /\ Top = stack[1] /\ Len(stack) \in Nat \ {0}
           /\ Rest \in Seq(Frames) /\ Len(Rest) = Len(stack)
           /\ Rest[1] = [Top EXCEPT !.rest = Tail(@)]
           /\ \A i \in 2 .. Len(stack) : Rest[i] = stack[i]
<1>1. stack \in Seq(Frames) /\ stack # <<>> /\ Top.rest # <<>>
    BY DEF TypeOK, HasItem, Busy
<1>2. Top \in Frames /\ Top = stack[1] /\ Len(stack) \in Nat \ {0}
    BY <1>1 DEF Top
<1>3. Top.rest \in Seq(Locations)
    BY <1>2 DEF Frames
<1>4. Item \in Locations /\ Tail(Top.rest) \in Seq(Locations)
    BY <1>1, <1>3 DEF Item
<1> DEFINE g == [Top EXCEPT !.rest = Tail(@)]
<1>5. g \in Frames
    BY <1>2, <1>4 DEF Frames
<1> HIDE DEF g
<1>6. Rest = <<g>> \o Tail(stack)
    BY DEF Rest, g
<1>7. /\ Rest \in Seq(Frames) /\ Len(Rest) = Len(stack) /\ Rest[1] = g
      /\ \A i \in 2 .. Len(stack) : Rest[i] = stack[i]
    BY <1>1, <1>2, <1>5, <1>6
<1> QED  BY <1>2, <1>4, <1>7 DEF g

LEMMA PushShape ==
    ASSUME NEW s \in Seq(Frames), NEW f \in Frames
    PROVE  /\ <<f>> \o s \in Seq(Frames) /\ Len(<<f>> \o s) = Len(s) + 1
           /\ (<<f>> \o s)[1] = f
           /\ \A i \in 1 .. Len(s) : (<<f>> \o s)[i + 1] = s[i]
    OBVIOUS

LEMMA ConfigurationType == Configuration \in Frames /\ <<Configuration>> \in Seq(Frames)
<1>1. Sources \o LoTLSources \in Seq(Locations)
    BY LoTEAssumption DEF Locations
<1>2. MaxTime \in Time
    BY LoTEAssumption DEF Time
<1>3. Configuration \in Frames
    BY <1>1, <1>2 DEF Configuration, Frames
<1> QED  BY <1>3

-----------------------------------------------------------------------------
LEMMA InitTypeOK == Init => TypeOK
<1> SUFFICES ASSUME Init PROVE TypeOK
    OBVIOUS
<1>1. 0 \in Time /\ MaxTime \in Time /\ 0 \in 0 .. MaxRevision
    BY LoTEAssumption DEF Time
<1>2. edition \in [Locations -> Editions]
    BY <1>1 DEF Init, Editions
<1> QED  BY <1>1, <1>2, ConfigurationType DEF Init, TypeOK

LEMMA NextTypeOK == TypeOK /\ [Next]_vars => TypeOK'
<1> SUFFICES ASSUME TypeOK, [Next]_vars PROVE TypeOK'
    OBVIOUS
<1> USE DEF TypeOK, world, refresh, state, request
<1>0. now \in Time /\ MaxTime \in Time
    BY LoTEAssumption DEF Time
<1>1. CASE RefreshBegin
    BY <1>1, ConfigurationType DEF RefreshBegin
<1>2. CASE SkipLoTL
  <2>1. stack' \in Seq(Frames)
      BY <1>2, RestShape DEF SkipLoTL
  <2> QED  BY <1>2, <2>1 DEF SkipLoTL
<1>3. CASE ResolveLoTL
  <2> DEFINE f == [rest  |-> Pointers[Item], depth |-> Top.depth + 1,
                   via   |-> earliest(Top.via, edition[Item].next), next  |-> edition[Item].next]
  <2>1. Item \in LoTLs /\ Top \in Frames /\ edition[Item] \in Editions /\ Rest \in Seq(Frames)
      BY <1>3, RestShape DEF ResolveLoTL, Locations
  <2>2. f \in Frames
      BY <2>1, LoTEAssumption DEF Frames, Editions, earliest
  <2>3. stack' = <<f>> \o Rest
      BY <1>3 DEF ResolveLoTL
  <2> HIDE DEF f
  <2>4. stack' \in Seq(Frames)
      BY <2>1, <2>2, <2>3, PushShape
  <2> QED  BY <1>3, <2>1, <2>4 DEF ResolveLoTL
<1>4. CASE LoadLoTE
  <2> DEFINE l == [list |-> Item, revision |-> edition[Item].revision,
                   deadline |-> earliest(Top.via, edition[Item].next), dates |-> Dates]
  <2>1. Item \in Lists /\ Top \in Frames /\ edition[Item] \in Editions /\ Rest \in Seq(Frames)
      BY <1>4, RestShape DEF LoadLoTE
  <2>2. \A i \in 1 .. Len(stack) : stack[i].next \in Time
    <3> SUFFICES ASSUME NEW i \in 1 .. Len(stack) PROVE stack[i].next \in Time
        OBVIOUS
    <3>1. stack[i] \in Frames
        OBVIOUS
    <3> QED  BY <3>1 DEF Frames
  <2>3. Dates \in SUBSET Time
      BY <2>1, <2>2 DEF Dates, Editions
  <2>4. l \in Loaded
      BY <2>1, <2>3 DEF Loaded, Frames, Editions, earliest
  <2>5. loaded' = loaded \cup {l} /\ stack' = Rest
      BY <1>4 DEF LoadLoTE
  <2> HIDE DEF l
  <2> QED  BY <1>4, <2>1, <2>4, <2>5 DEF LoadLoTE
<1>5. CASE SkipPointer
  <2>1. stack' \in Seq(Frames) /\ skipped' \subseteq Locations
      BY <1>5, RestShape DEF SkipPointer
  <2> QED  BY <1>5, <2>1 DEF SkipPointer
<1>6. CASE Abort
    BY <1>6 DEF Abort
<1>7. CASE Return
  <2>1. stack' \in Seq(Frames)
      BY <1>7 DEF Return
  <2> QED  BY <1>7, <2>1 DEF Return
<1>8. CASE Swap
  <2>1. Earliest(loaded) \in Time
      BY EarliestProperties
  <2> QED  BY <1>8, <2>1 DEF Swap
<1>9. ASSUME NEW q \in Requests, Begin(q) PROVE TypeOK'
    BY <1>0, <1>9 DEF Begin
<1>10. ASSUME NEW q \in Requests, Check(q) PROVE TypeOK'
    BY <1>10 DEF Check
<1>11. ASSUME NEW q \in Requests, expireStale(q) PROVE TypeOK'
  <2>1. live(seen[q]) \subseteq lotes /\ Earliest(live(seen[q])) \in Time
      BY EarliestProperties DEF live
  <2> QED  BY <1>11, <2>1 DEF expireStale
<1>12. ASSUME NEW q \in Requests, Decide(q) PROVE TypeOK'
    BY <1>12 DEF Decide
<1>13. CASE Tick
    BY <1>13, LoTEAssumption DEF Tick, Time
<1>14. ASSUME NEW l \in Changing, NEW t \in Time, Publish(l, t) PROVE TypeOK'
  <2>1. l \in Locations /\ edition[l].revision + 1 \in 0 .. MaxRevision
      BY <1>14, LoTEAssumption DEF Publish, Editions
  <2>2. [revision |-> edition[l].revision + 1, next |-> t] \in Editions
      BY <2>1 DEF Editions
  <2>3. edition' \in [Locations -> Editions]
      BY <1>14, <2>1, <2>2 DEF Publish
  <2> QED  BY <1>14, <2>3 DEF Publish
<1>15. ASSUME NEW l \in Failing, Toggle(l) PROVE TypeOK'
    BY <1>15 DEF Toggle
<1>16. CASE UNCHANGED vars
    BY <1>16 DEF vars
<1> QED
    BY <1>1, <1>2, <1>3, <1>4, <1>5, <1>6, <1>7, <1>8, <1>9, <1>10, <1>11, <1>12, <1>13, <1>14,
       <1>15, <1>16 DEF Next, Loading, Serve

(* TypeOK, for the refresh and the requests that share the registry: every *)
(* variable keeps its type; in particular what is indexed is among the     *)
(* lists swapped in last.                                                  *)
THEOREM LoTETypeCorrect == Spec => []TypeOK
    BY InitTypeOK, NextTypeOK, PTL DEF Spec

-----------------------------------------------------------------------------
(* A frame's deadline is no later than the date of any list of lists it    *)
(* was reached through.                                                    *)
StackInv == \A i \in 1 .. Len(stack) : \A j \in i .. Len(stack) : stack[i].via <= stack[j].next

DateInv == \A l \in loaded \cup lotes : \A d \in l.dates : l.deadline <= d

(* nextExpiry divides the lists in use from those dropped, so that what a  *)
(* request with an earlier time drops was dropped before.                  *)
IndexInv ==
    /\ \A l \in index : nextExpiry <= l.deadline
    /\ \A l \in lotes \ index : l.deadline < nextExpiry

ReadInv == \A q \in Requests :
              pc[q] = "read" => swapped[q] \/ \A l \in index : seen[q] <= l.deadline

LapseInv == StackInv /\ DateInv /\ IndexInv /\ ReadInv /\ NoLapsedListUsed

(* The lists that hold the variables of time.                              *)
LEMMA TimeIsNat == Time \subseteq Nat /\ MaxTime \in Time
    BY LoTEAssumption DEF Time

LEMMA EarlierOfTwo ==
    ASSUME NEW a \in Time, NEW b \in Time
    PROVE  earliest(a, b) \in Time /\ earliest(a, b) <= a /\ earliest(a, b) <= b
    BY TimeIsNat DEF earliest

LEMMA ListTimes ==
    ASSUME NEW l \in Loaded
    PROVE  l.deadline \in Nat /\ \A d \in l.dates : d \in Nat
    BY TimeIsNat DEF Loaded

(* Dropping what has lapsed only removes lists.                            *)
LEMMA LiveIsSmaller ==
    ASSUME TypeOK, IndexInv, NEW t \in Time, t > nextExpiry
    PROVE  /\ live(t) \subseteq index
           /\ \A l \in live(t) : t <= l.deadline /\ Earliest(live(t)) <= l.deadline
           /\ \A l \in lotes \ live(t) : l.deadline < Earliest(live(t))
<1>1. live(t) \in SUBSET Loaded /\ live(t) \subseteq lotes
    BY DEF live, TypeOK
<1>2. \A l \in lotes : l.deadline \in Nat
    BY ListTimes DEF TypeOK
<1>3. t \in Nat /\ nextExpiry \in Nat /\ MaxTime \in Nat /\ t <= MaxTime
    BY TimeIsNat DEF TypeOK, Time
<1>4. \A l \in lotes \ live(t) : l.deadline < t
    BY <1>2, <1>3 DEF live
<1>5. \A l \in live(t) : t <= l.deadline
    BY DEF live
<1>6. /\ Earliest(live(t)) \in Nat /\ t <= Earliest(live(t))
      /\ \A l \in live(t) : Earliest(live(t)) <= l.deadline
    BY <1>1, <1>3, <1>5, EarliestProperties, TimeIsNat
<1>7. live(t) \subseteq index
    BY <1>1, <1>2, <1>3, <1>5 DEF IndexInv
<1>8. \A l \in lotes \ live(t) : l.deadline < Earliest(live(t))
    BY <1>2, <1>3, <1>4, <1>6
<1> QED  BY <1>5, <1>6, <1>7, <1>8

LEMMA InitLapseInv == Init => LapseInv
<1> SUFFICES ASSUME Init PROVE LapseInv
    OBVIOUS
<1>1. StackInv
  <2>1. stack = <<Configuration>> /\ Configuration.via = MaxTime /\ Configuration.next = MaxTime
      BY DEF Init, Configuration
  <2> QED  BY <2>1, TimeIsNat DEF StackInv
<1> QED  BY <1>1 DEF Init, LapseInv, DateInv, IndexInv, ReadInv, NoLapsedListUsed

(* Dealing with an item leaves the dates on the stack as they are.         *)
LEMMA RestKeepsStackInv ==
    ASSUME TypeOK, HasItem, StackInv, stack' = Rest
    PROVE  StackInv'
<1>1. /\ Len(Rest) = Len(stack) /\ Len(stack) \in Nat
      /\ \A i \in 1 .. Len(stack) : Rest[i].via = stack[i].via /\ Rest[i].next = stack[i].next
  <2>1. Top.via = Rest[1].via /\ Top.next = Rest[1].next /\ Top = stack[1]
      BY RestShape DEF Frames
  <2> QED  BY <2>1, RestShape
<1> QED  BY <1>1 DEF StackInv

LEMMA NextLapseInv == TypeOK /\ LapseInv /\ [Next]_vars => LapseInv'
<1> SUFFICES ASSUME TypeOK, LapseInv, [Next]_vars PROVE LapseInv'
    OBVIOUS
<1> USE DEF LapseInv, world, refresh, state, request
<1>1. CASE RefreshBegin
  <2>1. stack' = <<Configuration>> /\ Configuration.via = MaxTime /\ Configuration.next = MaxTime
      BY <1>1 DEF RefreshBegin, Configuration
  <2>2. StackInv'
      BY <2>1, TimeIsNat DEF StackInv
  <2> QED  BY <1>1, <2>2 DEF RefreshBegin, DateInv, IndexInv, ReadInv, NoLapsedListUsed
<1>2. CASE SkipLoTL
  <2>1. StackInv'
      BY <1>2, RestKeepsStackInv DEF SkipLoTL
  <2> QED  BY <1>2, <2>1 DEF SkipLoTL, DateInv, IndexInv, ReadInv, NoLapsedListUsed
<1>3. CASE ResolveLoTL
  <2> DEFINE f == [rest  |-> Pointers[Item], depth |-> Top.depth + 1,
                   via   |-> earliest(Top.via, edition[Item].next), next  |-> edition[Item].next]
  <2>1. /\ Item \in LoTLs /\ Top \in Frames /\ Top = stack[1] /\ edition[Item] \in Editions
        /\ Rest \in Seq(Frames) /\ Len(Rest) = Len(stack) /\ Len(stack) \in Nat \ {0}
      BY <1>3, RestShape DEF ResolveLoTL, Locations, TypeOK
  <2>2. /\ f \in Frames /\ f.via \in Nat /\ Top.via \in Nat /\ f.next \in Nat
        /\ f.via <= Top.via /\ f.via <= f.next
    <3>1. /\ Top.via \in Time /\ Top.depth \in Int /\ edition[Item].next \in Time
          /\ Pointers[Item] \in Seq(Locations)
        BY <2>1, LoTEAssumption DEF Frames, Editions
    <3>2. f.via \in Time /\ f.via <= Top.via /\ f.via <= f.next
        BY <3>1, EarlierOfTwo
    <3>3. f \in Frames
        BY <3>1, <3>2 DEF Frames
    <3> QED  BY <3>1, <3>2, <3>3, TimeIsNat
  <2>3. stack' = <<f>> \o Rest
      BY <1>3 DEF ResolveLoTL
  <2> HIDE DEF f
  <2>4. /\ \A i \in 1 .. Len(stack) : Rest[i].via = stack[i].via /\ Rest[i].next = stack[i].next
    <3>1. Top.via = Rest[1].via /\ Top.next = Rest[1].next
        BY <1>3, RestShape DEF ResolveLoTL, Frames
    <3> QED  BY <1>3, <3>1, RestShape DEF ResolveLoTL
  <2>5. /\ Len(stack') = Len(stack) + 1 /\ stack'[1] = f
        /\ \A i \in 1 .. Len(stack) : stack'[i + 1].via = stack[i].via /\ stack'[i + 1].next = stack[i].next
      BY <2>1, <2>2, <2>3, <2>4, PushShape
  <2>6. \A i \in 1 .. Len(stack) : stack[i].via \in Nat /\ stack[i].next \in Nat
    <3> SUFFICES ASSUME NEW i \in 1 .. Len(stack) PROVE stack[i].via \in Nat /\ stack[i].next \in Nat
        OBVIOUS
    <3>1. stack[i] \in Frames
        BY DEF TypeOK
    <3> QED  BY <3>1, TimeIsNat DEF Frames
  <2>7. StackInv'
    <3> SUFFICES ASSUME NEW i \in 1 .. Len(stack'), NEW j \in i .. Len(stack')
                 PROVE  stack'[i].via <= stack'[j].next
        BY DEF StackInv
    <3>1. CASE i = 1 /\ j = 1
        BY <3>1, <2>2, <2>5
    <3>2. CASE i = 1 /\ j > 1
      <4>1. j - 1 \in 1 .. Len(stack) /\ stack'[j].next = stack[j - 1].next
          BY <2>1, <2>5, <3>2
      <4>2. Top.via <= stack[j - 1].next
          BY <2>1, <4>1 DEF StackInv
      <4> QED  BY <2>2, <2>5, <2>6, <3>2, <4>1, <4>2
    <3>3. CASE i > 1
      <4> DEFINE i0 == i - 1
                 j0 == j - 1
      <4>1. i0 \in 1 .. Len(stack) /\ j0 \in i0 .. Len(stack) /\ j0 \in 1 .. Len(stack)
          BY <2>1, <2>5, <3>3
      <4>2. i = i0 + 1 /\ j = j0 + 1
          BY <2>1, <2>5
      <4> HIDE DEF i0, j0
      <4>3. stack'[i].via = stack[i0].via /\ stack'[j].next = stack[j0].next
          BY <2>5, <4>1, <4>2
      <4> QED  BY <4>1, <4>3 DEF StackInv
    <3> QED  BY <3>1, <3>2, <3>3, <2>1, <2>5
  <2> QED  BY <1>3, <2>7 DEF ResolveLoTL, DateInv, IndexInv, ReadInv, NoLapsedListUsed
<1>4. CASE LoadLoTE
  <2>1. StackInv'
      BY <1>4, RestKeepsStackInv DEF LoadLoTE
  <2>2. /\ Item \in Lists /\ Top \in Frames /\ Top = stack[1] /\ edition[Item] \in Editions
        /\ Len(stack) \in Nat \ {0}
      BY <1>4, RestShape DEF LoadLoTE, TypeOK
  <2>3. Top.via \in Nat /\ edition[Item].next \in Nat
      BY <2>2, TimeIsNat DEF Frames, Editions
  <2> DEFINE l == [list |-> Item, revision |-> edition[Item].revision,
                   deadline |-> earliest(Top.via, edition[Item].next), dates |-> Dates]
  <2>4. \A i \in 1 .. Len(stack) : stack[i].next \in Nat /\ Top.via <= stack[i].next
    <3> SUFFICES ASSUME NEW i \in 1 .. Len(stack) PROVE stack[i].next \in Nat /\ Top.via <= stack[i].next
        OBVIOUS
    <3>1. stack[i] \in Frames
        BY DEF TypeOK
    <3>2. 1 \in 1 .. Len(stack) /\ i \in 1 .. Len(stack)
        BY <2>2
    <3>3. stack[1].via <= stack[i].next
        BY <3>2 DEF StackInv
    <3> QED  BY <2>2, <3>1, <3>3, TimeIsNat DEF Frames
  <2>5. \A d \in l.dates : l.deadline <= d
      BY <2>3, <2>4 DEF Dates, earliest
  <2>6. loaded' = loaded \cup {l}
      BY <1>4 DEF LoadLoTE
  <2> HIDE DEF l
  <2>7. DateInv'
      BY <1>4, <2>5, <2>6 DEF DateInv, LoadLoTE
  <2> QED  BY <1>4, <2>1, <2>7 DEF LoadLoTE, IndexInv, ReadInv, NoLapsedListUsed
<1>5. CASE SkipPointer
  <2>1. StackInv'
      BY <1>5, RestKeepsStackInv DEF SkipPointer
  <2> QED  BY <1>5, <2>1 DEF SkipPointer, DateInv, IndexInv, ReadInv, NoLapsedListUsed
<1>6. CASE Abort
  <2>1. StackInv'
      BY <1>6 DEF Abort, StackInv
  <2> QED  BY <1>6, <2>1 DEF Abort, DateInv, IndexInv, ReadInv, NoLapsedListUsed
<1>7. CASE Return
  <2>1. /\ Len(stack') = Len(stack) - 1 /\ Len(stack) \in Nat
        /\ \A i \in 1 .. Len(stack') : stack'[i] = stack[i + 1]
      BY <1>7 DEF Return, TypeOK
  <2>2. StackInv'
      BY <2>1 DEF StackInv
  <2> QED  BY <1>7, <2>2 DEF Return, DateInv, IndexInv, ReadInv, NoLapsedListUsed
<1>8. CASE Swap
  <2>1. StackInv'
      BY <1>8 DEF Swap, StackInv
  <2>2. IndexInv'
      BY <1>8, EarliestProperties DEF Swap, IndexInv, TypeOK
  <2>3. swapped' = [q \in Requests |-> TRUE]
      BY <1>8 DEF Swap
  <2> QED  BY <1>8, <2>1, <2>2, <2>3 DEF Swap, DateInv, ReadInv, NoLapsedListUsed
<1>9. ASSUME NEW q \in Requests, Begin(q) PROVE LapseInv'
    BY <1>9 DEF Begin, TypeOK, StackInv, DateInv, IndexInv, ReadInv, NoLapsedListUsed
<1>10. ASSUME NEW q \in Requests, Check(q) PROVE LapseInv'
  <2>1. seen[q] \in Nat /\ nextExpiry \in Nat /\ \A l \in index : l.deadline \in Nat
      BY TimeIsNat, ListTimes DEF TypeOK
  <2>2. ReadInv'
      BY <1>10, <2>1 DEF Check, TypeOK, IndexInv, ReadInv
  <2> QED  BY <1>10, <2>2 DEF Check, StackInv, DateInv, IndexInv, NoLapsedListUsed
<1>11. ASSUME NEW q \in Requests, expireStale(q) PROVE LapseInv'
  <2>1. /\ seen[q] \in Nat /\ seen[q] \in Time /\ nextExpiry \in Nat
        /\ \A l \in index : l.deadline \in Nat
      BY TimeIsNat, ListTimes DEF TypeOK
  <2>2. CASE seen[q] > nextExpiry
    <3>1. index' = live(seen[q]) /\ nextExpiry' = Earliest(live(seen[q]))
        BY <1>11, <2>2 DEF expireStale
    <3>2. IndexInv' /\ index' \subseteq index /\ \A l \in index' : seen[q] <= l.deadline
        BY <1>11, <2>1, <2>2, <3>1, LiveIsSmaller DEF IndexInv, expireStale
    <3>3. ReadInv'
        BY <1>11, <3>2 DEF expireStale, TypeOK, ReadInv
    <3> QED  BY <1>11, <3>2, <3>3 DEF expireStale, StackInv, DateInv, NoLapsedListUsed
  <2>3. CASE ~(seen[q] > nextExpiry)
    <3>1. ReadInv'
        BY <1>11, <2>1, <2>3 DEF expireStale, TypeOK, IndexInv, ReadInv
    <3> QED  BY <1>11, <2>3, <3>1 DEF expireStale, StackInv, DateInv, IndexInv, NoLapsedListUsed
  <2> QED  BY <2>2, <2>3
<1>12. ASSUME NEW q \in Requests, Decide(q) PROVE LapseInv'
  <2>1. seen[q] \in Nat /\ \A l \in index : l.deadline \in Nat /\ \A d \in l.dates : d \in Nat
      BY TimeIsNat, ListTimes DEF TypeOK
  <2>2. swapped[q] \/ \A l \in index : \A d \in l.dates : seen[q] <= d
      BY <1>12, <2>1 DEF Decide, ReadInv, DateInv, TypeOK
  <2>3. NoLapsedListUsed'
      BY <1>12, <2>2 DEF Decide, NoLapsedListUsed, TypeOK
  <2> QED  BY <1>12, <2>3 DEF Decide, StackInv, DateInv, IndexInv, ReadInv, TypeOK
<1>13. CASE Tick
    BY <1>13 DEF Tick, StackInv, DateInv, IndexInv, ReadInv, NoLapsedListUsed
<1>14. ASSUME NEW l \in Changing, NEW t \in Time, Publish(l, t) PROVE LapseInv'
    BY <1>14 DEF Publish, StackInv, DateInv, IndexInv, ReadInv, NoLapsedListUsed
<1>15. ASSUME NEW l \in Failing, Toggle(l) PROVE LapseInv'
    BY <1>15 DEF Toggle, StackInv, DateInv, IndexInv, ReadInv, NoLapsedListUsed
<1>16. CASE UNCHANGED vars
    BY <1>16 DEF vars, StackInv, DateInv, IndexInv, ReadInv, NoLapsedListUsed
<1> QED
    BY <1>1, <1>2, <1>3, <1>4, <1>5, <1>6, <1>7, <1>8, <1>9, <1>10, <1>11, <1>12, <1>13, <1>14,
       <1>15, <1>16 DEF Next, Loading, Serve

(* NoLapsedListUsed, of expireStale and the swap of a refresh: whatever    *)
(* the order in which requests expire the index, none is decided by a list *)
(* that had lapsed when it began, unless a refresh ended meanwhile.        *)
THEOREM LapsedListsAreNotUsed == Spec => []NoLapsedListUsed
<1>1. LapseInv => NoLapsedListUsed
    BY DEF LapseInv
<1> QED  BY <1>1, InitTypeOK, NextTypeOK, InitLapseInv, NextLapseInv, PTL DEF Spec

-----------------------------------------------------------------------------
(* What fewer lists grant, all of them grant: to requests that rest on     *)
(* what is listed alone.                                                   *)
LEMMA EvaluateIsMonotone ==
    ASSUME NEW old \in SUBSET Loaded, NEW new \in SUBSET old, NEW r \in PlainRequests,
           Evaluate(new, r)
    PROVE  Evaluate(old, r)
<1>1. \A t : Of(new, t) \subseteq Of(old, t)
    BY DEF Of
<1>2. schemeTypes(new) \subseteq schemeTypes(old) /\ schemeTypes(old) \subseteq Types
    BY LoTEAssumption DEF schemeTypes, Loaded
<1>3. variants(new, r.subject) \subseteq variants(old, r.subject)
    BY <1>1, <1>2 DEF variants
<1>4. Scoped(new, r.role) <=> Scoped(old, r.role)
  <2>1. r.role \in DOMAIN RoleTypes \cup Standard \cup {None}
      BY DEF PlainRequests
  <2>2. None \notin schemeTypes(new) /\ None \notin schemeTypes(old)
      BY <1>2, LoTEAssumption
  <2> QED  BY <2>1, <2>2 DEF Scoped
<1>5. roleTypes(new, r.role) = roleTypes(old, r.role)
    BY <1>4 DEF roleTypes
<1>6. ASSUME NEW t, evaluateEntity(new, r, t) PROVE evaluateEntity(old, r, t)
  <2>1. hasNotifiedService(new, r.subject, t) => hasNotifiedService(old, r.subject, t)
      BY <1>1 DEF hasNotifiedService
  <2>2. keyHashes(new, r.subject, t) \subseteq keyHashes(old, r.subject, t)
      BY <1>1 DEF keyHashes, indexed
  <2> QED  BY <1>6, <2>1, <2>2 DEF evaluateEntity
<1>7. variants(new, r.subject) # {}
  <2>1. r.issuer = None /\ r.registered = FALSE
      BY DEF PlainRequests
  <2>2. validateX5CChainCA(new, r) = "none"
      BY <2>1 DEF validateX5CChainCA
  <2> QED  BY <2>1, <2>2 DEF Evaluate
<1>8. PICK t \in variants(new, r.subject) \cap roleTypes(new, r.role) : evaluateEntity(new, r, t)
    BY <1>7 DEF Evaluate
<1>9. t \in variants(old, r.subject) \cap roleTypes(old, r.role) /\ evaluateEntity(old, r, t)
    BY <1>3, <1>5, <1>6, <1>8
<1> QED  BY <1>9 DEF Evaluate

(* Apart from the swap, which ends a refresh, only expireStale touches the *)
(* index, and it removes lists.                                            *)
LEMMA OnlyExpiryShrinks ==
    ASSUME TypeOK, IndexInv, [Next]_vars, stack' = stack
    PROVE  index' \subseteq index
<1> USE DEF world, refresh, state, request
<1>1. CASE RefreshBegin \/ Loading
  <2>1. CASE Swap
    <3>1. Len(stack) = 1 /\ stack' = <<>>
        BY <2>1 DEF Swap
    <3> QED  BY <3>1
  <2> QED
      BY <1>1, <2>1 DEF RefreshBegin, Loading, SkipLoTL, ResolveLoTL, LoadLoTE, SkipPointer, Abort, Return
<1>2. ASSUME NEW q \in Requests, Serve(q) PROVE index' \subseteq index
  <2>1. CASE expireStale(q)
    <3>1. seen[q] \in Time
        BY DEF TypeOK
    <3> QED  BY <2>1, <3>1, LiveIsSmaller DEF expireStale
  <2> QED  BY <1>2, <2>1 DEF Serve, Begin, Check, Decide
<1>3. CASE Tick \/ (\E l \in Changing, t \in Time : t >= now /\ Publish(l, t)) \/ \E l \in Failing : Toggle(l)
    BY <1>3 DEF Tick, Publish, Toggle
<1>4. CASE UNCHANGED vars
    BY <1>4 DEF vars
<1> QED  BY <1>1, <1>2, <1>3, <1>4 DEF Next

(* ExpiryNeverGrants, of expireStale and Evaluate: dropping lapsed lists   *)
(* turns no denial of a plain request into an approval.                    *)
THEOREM ExpiryOnlyTakesTrust == Spec => ExpiryNeverGrants
<1>1. ASSUME TypeOK, LapseInv, [Next]_vars
      PROVE  [stack' = stack /\ index' # index =>
                 \A r \in PlainRequests : Evaluate(index', r) => Evaluate(index, r)]_vars
  <2> SUFFICES ASSUME stack' = stack, NEW r \in PlainRequests, Evaluate(index', r)
               PROVE  Evaluate(index, r)
      OBVIOUS
  <2>1. index \in SUBSET Loaded
      BY <1>1 DEF TypeOK
  <2>2. index' \in SUBSET index
      BY <1>1, OnlyExpiryShrinks DEF LapseInv
  <2> QED  BY <2>1, <2>2, EvaluateIsMonotone
<1> QED
    BY <1>1, InitTypeOK, NextTypeOK, InitLapseInv, NextLapseInv, PTL DEF Spec, ExpiryNeverGrants

-----------------------------------------------------------------------------
(* Location l is still to be dealt with in frame i of stack s.             *)
LeftIn(s, i, l) == \E k \in 1 .. Len(s[i].rest) : s[i].rest[k] = l

Left(s, l) == \E i \in 1 .. Len(s) : LeftIn(s, i, l)

Got == visited \cup {l.list : l \in loaded}

(* The configuration is the lowest frame, and the only one at depth -1.    *)
ShapeInv ==
    Busy => /\ stack[Len(stack)].depth = -1
            /\ \A i \in 1 .. Len(stack) - 1 : stack[i].depth >= 0

ConfiguredInv == Busy => \A l : Configured(l) => l \in Got \/ LeftIn(stack, Len(stack), l)

PointedInv ==
    Busy /\ MaxDepth = 0 => \A l : Pointed(l, visited) => l \in Got \cup skipped \/ Left(stack, l)

CompleteInv == ShapeInv /\ ConfiguredInv /\ PointedInv /\ RefreshIsComplete

(* Dealing with an item takes it, and nothing else, off the stack.         *)
LEMMA RestLeavesOthers ==
    ASSUME TypeOK, HasItem
    PROVE  /\ Len(Rest) = Len(stack) /\ Len(stack) \in Nat \ {0}
           /\ \A i \in 1 .. Len(stack) : Rest[i].depth = stack[i].depth
           /\ \A l : \A i \in 1 .. Len(stack) :
                 LeftIn(stack, i, l) => LeftIn(Rest, i, l) \/ (i = 1 /\ l = Item)
<1>1. /\ Top \in Frames /\ Top = stack[1] /\ Len(stack) \in Nat \ {0}
      /\ Len(Rest) = Len(stack) /\ Rest[1] = [Top EXCEPT !.rest = Tail(@)]
      /\ \A i \in 2 .. Len(stack) : Rest[i] = stack[i]
    BY RestShape
<1>2. /\ Rest[1].depth = stack[1].depth /\ Rest[1].rest = Tail(stack[1].rest)
      /\ stack[1].rest \in Seq(Locations) /\ stack[1].rest # <<>> /\ Item = Head(stack[1].rest)
    BY <1>1 DEF Frames, HasItem, Item
<1>3. ASSUME NEW l, NEW i \in 1 .. Len(stack), LeftIn(stack, i, l)
      PROVE  LeftIn(Rest, i, l) \/ (i = 1 /\ l = Item)
  <2>1. PICK k \in 1 .. Len(stack[i].rest) : stack[i].rest[k] = l
      BY <1>3 DEF LeftIn
  <2>2. CASE i # 1
    <3>1. Rest[i] = stack[i]
        BY <1>1, <2>2
    <3> QED  BY <2>1, <3>1 DEF LeftIn
  <2>3. CASE i = 1 /\ k = 1
      BY <1>2, <2>1, <2>3
  <2>4. CASE i = 1 /\ k # 1
    <3> DEFINE s == stack[1].rest
               m == k - 1
    <3>1. s \in Seq(Locations) /\ s # <<>> /\ k \in 2 .. Len(s) /\ s[k] = l
        BY <1>2, <2>1, <2>4
    <3> HIDE DEF s
    <3>2. m \in 1 .. Len(Tail(s)) /\ Tail(s)[m] = l
        BY <3>1
    <3> HIDE DEF m
    <3>3. Rest[1].rest = Tail(s)
        BY <1>2 DEF s
    <3> QED  BY <2>4, <3>2, <3>3 DEF LeftIn
  <2> QED  BY <2>2, <2>3, <2>4
<1>4. ASSUME NEW i \in 1 .. Len(stack) PROVE Rest[i].depth = stack[i].depth
  <2>1. CASE i = 1
      BY <1>2, <2>1
  <2>2. CASE i # 1
      BY <1>1, <2>2
  <2> QED  BY <2>1, <2>2
<1> QED  BY <1>1, <1>3, <1>4

(* An item may be passed over if it is among what has been got; or, if a   *)
(* pointer led to it, among what was skipped.                              *)
LEMMA RestKeepsComplete ==
    ASSUME TypeOK, HasItem, ShapeInv, ConfiguredInv, PointedInv,
           stack' = Rest, visited' = visited, loaded \subseteq loaded', skipped \subseteq skipped',
           \/ Item \in Got'
           \/ Top.depth >= 0 /\ (MaxDepth = 0 => Item \in skipped')
    PROVE  ShapeInv' /\ ConfiguredInv' /\ PointedInv'
<1>1. /\ Len(stack') = Len(stack) /\ Len(stack) \in Nat \ {0}
      /\ \A i \in 1 .. Len(stack) : stack'[i].depth = stack[i].depth
      /\ \A l : \A i \in 1 .. Len(stack) :
            LeftIn(stack, i, l) => LeftIn(Rest, i, l) \/ (i = 1 /\ l = Item)
    BY RestLeavesOthers
<1>2. Busy /\ Got \subseteq Got'
    BY DEF HasItem, Got
<1>3. Top.depth >= 0 => Len(stack) # 1
  <2>1. Top = stack[1]
      BY RestShape
  <2> QED  BY <1>2, <2>1 DEF ShapeInv
<1>4. ShapeInv'
    BY <1>1, <1>2 DEF ShapeInv
<1>5. ConfiguredInv'
  <2> SUFFICES ASSUME NEW l, Configured(l) PROVE l \in Got' \/ LeftIn(stack', Len(stack), l)
      BY <1>1 DEF ConfiguredInv, Configured, LeftIn
  <2>1. l \in Got \/ LeftIn(stack, Len(stack), l)
      BY <1>2 DEF ConfiguredInv
  <2>2. Len(stack) \in 1 .. Len(stack)
      BY <1>1
  <2> QED  BY <1>1, <1>2, <1>3, <2>1, <2>2 DEF LeftIn
<1>6. PointedInv'
  <2> SUFFICES ASSUME MaxDepth = 0, NEW l, Pointed(l, visited) PROVE l \in Got' \cup skipped' \/ Left(stack', l)
      BY DEF PointedInv, Pointed
  <2>1. l \in Got \cup skipped \/ Left(stack, l)
      BY <1>2 DEF PointedInv
  <2>2. Left(stack, l) => Left(stack', l) \/ l = Item
      BY <1>1 DEF Left
  <2> QED  BY <1>2, <2>1, <2>2
<1> QED  BY <1>4, <1>5, <1>6

(* A refresh begins with all that is configured.                           *)
LEMMA BeginComplete ==
    ASSUME stack = <<Configuration>>, visited = {}
    PROVE  ShapeInv /\ ConfiguredInv /\ PointedInv
<1>1. Len(stack) = 1 /\ stack[1] = Configuration /\ Configuration.depth = -1
    BY DEF Configuration
<1>2. ShapeInv
    BY <1>1 DEF ShapeInv
<1>3. ConfiguredInv
    BY <1>1 DEF ConfiguredInv, Configured, LeftIn
<1>4. PointedInv
    BY DEF PointedInv, Pointed
<1> QED  BY <1>2, <1>3, <1>4

LEMMA InitCompleteInv == Init => CompleteInv
    BY BeginComplete DEF Init, CompleteInv, RefreshIsComplete

LEMMA NextCompleteInv == TypeOK /\ CompleteInv /\ [Next]_vars => CompleteInv'
<1> SUFFICES ASSUME TypeOK, CompleteInv, [Next]_vars PROVE CompleteInv'
    OBVIOUS
<1> USE DEF CompleteInv, world, refresh, state, request
<1>0. ASSUME UNCHANGED <<lotes, ready, last>> PROVE RefreshIsComplete'
    BY <1>0 DEF RefreshIsComplete, Configured, Pointed
<1>1. CASE RefreshBegin
  <2>1. stack' = <<Configuration>> /\ visited' = {}
      BY <1>1 DEF RefreshBegin
  <2>2. ShapeInv' /\ ConfiguredInv' /\ PointedInv'
    <3>1. Len(stack') = 1 /\ stack'[1] = Configuration /\ Configuration.depth = -1
        BY <2>1 DEF Configuration
    <3> QED
        BY <2>1, <3>1 DEF ShapeInv, ConfiguredInv, Configured, LeftIn, PointedInv, Pointed
  <2> QED  BY <1>0, <1>1, <2>2 DEF RefreshBegin
<1>2. CASE SkipLoTL
  <2>1. Item \in Got' \/ (Top.depth >= 0 /\ (MaxDepth = 0 => Item \in Got'))
    <3>1. Top = stack[1] /\ Top.depth \in Int /\ Len(stack) \in Nat \ {0} /\ MaxDepth \in Nat /\ Busy
        BY <1>2, RestShape, LoTEAssumption DEF SkipLoTL, Frames, HasItem
    <3>2. Top.depth = -1 \/ Top.depth >= 0
        BY <3>1 DEF ShapeInv
    <3> QED  BY <1>2, <3>1, <3>2 DEF SkipLoTL, Cut, Got
  <2>2. ShapeInv' /\ ConfiguredInv' /\ PointedInv'
    <3>1. CASE Item \in Got'
        BY <1>2, <3>1, RestKeepsComplete DEF SkipLoTL
    <3>2. CASE Top.depth >= 0 /\ MaxDepth # 0
        BY <1>2, <3>2, RestKeepsComplete DEF SkipLoTL
    <3> QED  BY <2>1, <3>1, <3>2
  <2> QED  BY <1>0, <1>2, <2>2 DEF SkipLoTL
<1>3. CASE ResolveLoTL
  <2> DEFINE f == [rest  |-> Pointers[Item], depth |-> Top.depth + 1,
                   via   |-> earliest(Top.via, edition[Item].next), next  |-> edition[Item].next]
             n == Len(stack)
  <2>1. Item \in LoTLs /\ Top \in Frames /\ Top = stack[1] /\ Busy /\ n \in Nat \ {0} /\ Rest \in Seq(Frames)
      BY <1>3, RestShape DEF ResolveLoTL, HasItem
  <2>2. /\ Len(Rest) = n
        /\ \A i \in 1 .. n : Rest[i].depth = stack[i].depth
        /\ \A l : \A i \in 1 .. n : LeftIn(stack, i, l) => LeftIn(Rest, i, l) \/ (i = 1 /\ l = Item)
      BY <1>3, RestLeavesOthers DEF ResolveLoTL
  <2>3. f.rest = Pointers[Item] /\ f.depth >= 0 /\ f.depth \in Int
    <3>1. Top.depth \in Int /\ Top.depth >= -1
        BY <2>1 DEF ShapeInv, Frames
    <3> QED  BY <3>1
  <2>4. stack' = <<f>> \o Rest
      BY <1>3 DEF ResolveLoTL
  <2> HIDE DEF f, n
  <2>5. /\ Len(stack') = n + 1 /\ stack'[1] = f
        /\ \A i \in 1 .. n : stack'[i + 1] = Rest[i]
      BY <2>1, <2>2, <2>4
  <2>6. \A l : \A i \in 1 .. n : LeftIn(Rest, i, l) => LeftIn(stack', i + 1, l)
      BY <2>5 DEF LeftIn
  <2>7. visited' = visited \cup {Item} /\ loaded' = loaded /\ skipped' = skipped
      BY <1>3 DEF ResolveLoTL
  <2>8. ShapeInv'
    <3>1. stack'[n + 1].depth = -1
        BY <2>1, <2>2, <2>5 DEF ShapeInv, n
    <3>2. ASSUME NEW i \in 1 .. n PROVE stack'[i].depth >= 0
      <4> DEFINE j == i - 1
      <4>1. CASE i = 1
          BY <2>3, <2>5, <4>1
      <4>2. CASE i # 1
        <5>1. j \in 1 .. n - 1 /\ j \in 1 .. n /\ i = j + 1
            BY <2>1, <4>2
        <5> HIDE DEF j
        <5>2. stack'[i].depth = stack[j].depth /\ stack[j].depth >= 0
            BY <2>1, <2>2, <2>5, <5>1 DEF ShapeInv, n
        <5> QED  BY <5>2
      <4> QED  BY <4>1, <4>2
    <3>3. Len(stack') = n + 1 /\ Len(stack') - 1 = n
        BY <2>1, <2>5
    <3> QED  BY <3>1, <3>2, <3>3 DEF ShapeInv
  <2>9. ConfiguredInv'
    <3> SUFFICES ASSUME NEW l, Configured(l) PROVE l \in Got' \/ LeftIn(stack', n + 1, l)
        BY <2>5 DEF ConfiguredInv, Configured
    <3>1. l \in Got \/ LeftIn(stack, n, l)
        BY <2>1 DEF ConfiguredInv, n
    <3>2. n \in 1 .. n
        BY <2>1
    <3> QED  BY <2>2, <2>6, <2>7, <3>1, <3>2 DEF Got
  <2>10. PointedInv'
    <3> SUFFICES ASSUME MaxDepth = 0, NEW l, Pointed(l, visited')
                 PROVE  l \in Got' \cup skipped' \/ Left(stack', l)
        BY DEF PointedInv, Pointed
    <3>1. CASE Pointed(l, visited)
      <4>1. l \in Got \cup skipped \/ Left(stack, l)
          BY <2>1, <3>1 DEF PointedInv
      <4>2. ASSUME NEW i \in 1 .. n, LeftIn(Rest, i, l) PROVE Left(stack', l)
        <5>1. i + 1 \in 1 .. Len(stack') /\ LeftIn(stack', i + 1, l)
            BY <2>1, <2>5, <2>6, <4>2
        <5> QED  BY <5>1 DEF Left
      <4> QED  BY <2>2, <2>7, <4>1, <4>2 DEF Left, Got, n
    <3>2. CASE \E k \in 1 .. Len(Pointers[Item]) : Pointers[Item][k] = l
      <4>1. LeftIn(stack', 1, l) /\ 1 \in 1 .. Len(stack')
          BY <2>1, <2>3, <2>5, <3>2 DEF LeftIn
      <4> QED  BY <4>1 DEF Left
    <3> QED  BY <2>7, <3>1, <3>2 DEF Pointed
  <2> QED  BY <1>0, <1>3, <2>8, <2>9, <2>10 DEF ResolveLoTL
<1>4. CASE LoadLoTE
  <2>1. Item \in Got' /\ loaded \subseteq loaded'
    <3> DEFINE v == [list |-> Item, revision |-> edition[Item].revision,
                     deadline |-> earliest(Top.via, edition[Item].next), dates |-> Dates]
    <3>1. loaded' = loaded \cup {v} /\ v.list = Item
        BY <1>4 DEF LoadLoTE
    <3> HIDE DEF v
    <3> QED  BY <3>1 DEF Got
  <2> QED  BY <1>0, <1>4, <2>1, RestKeepsComplete DEF LoadLoTE
<1>5. CASE SkipPointer
    BY <1>0, <1>5, RestKeepsComplete DEF SkipPointer
<1>6. CASE Abort
    BY <1>0, <1>6 DEF Abort, Busy, ShapeInv, ConfiguredInv, PointedInv
<1>7. CASE Return
  <2> DEFINE n == Len(stack)
  <2>1. /\ n \in Nat /\ n > 1 /\ Len(stack') = n - 1 /\ Busy /\ stack[1].rest = <<>>
        /\ \A i \in 2 .. n : stack'[i - 1] = stack[i]
        /\ UNCHANGED <<visited, loaded, skipped>>
      BY <1>7 DEF Return, TypeOK, Busy, Top
  <2> HIDE DEF n
  <2>2. \A l : \A i \in 1 .. n : LeftIn(stack, i, l) => i \in 2 .. n /\ LeftIn(stack', i - 1, l)
    <3> SUFFICES ASSUME NEW l, NEW i \in 1 .. n, LeftIn(stack, i, l)
                 PROVE  i \in 2 .. n /\ LeftIn(stack', i - 1, l)
        OBVIOUS
    <3>1. i # 1
        BY <2>1 DEF LeftIn
    <3>2. i \in 2 .. n /\ stack'[i - 1] = stack[i]
        BY <2>1, <3>1
    <3> QED  BY <3>2 DEF LeftIn
  <2>3. ShapeInv'
    <3>1. stack'[n - 1].depth = -1
        BY <2>1 DEF ShapeInv, n
    <3>2. ASSUME NEW i \in 1 .. n - 2 PROVE stack'[i].depth >= 0
      <4> DEFINE j == i + 1
      <4>1. j \in 2 .. n /\ j \in 1 .. n - 1 /\ i = j - 1
          BY <2>1
      <4> HIDE DEF j
      <4> QED  BY <2>1, <4>1 DEF ShapeInv, n
    <3> QED  BY <2>1, <3>1, <3>2 DEF ShapeInv
  <2>4. ConfiguredInv'
    <3> SUFFICES ASSUME NEW l, Configured(l) PROVE l \in Got' \/ LeftIn(stack', n - 1, l)
        BY <2>1 DEF ConfiguredInv, Configured
    <3>1. l \in Got \/ LeftIn(stack, n, l)
        BY <2>1 DEF ConfiguredInv, n
    <3> QED  BY <2>1, <2>2, <3>1 DEF Got
  <2>5. PointedInv'
    <3> SUFFICES ASSUME MaxDepth = 0, NEW l, Pointed(l, visited)
                 PROVE  l \in Got' \cup skipped' \/ Left(stack', l)
        BY <2>1 DEF PointedInv, Pointed
    <3>1. l \in Got \cup skipped \/ Left(stack, l)
        BY <2>1 DEF PointedInv
    <3>2. ASSUME NEW i \in 1 .. n, LeftIn(stack, i, l) PROVE Left(stack', l)
      <4>1. i - 1 \in 1 .. Len(stack') /\ LeftIn(stack', i - 1, l)
          BY <2>1, <2>2, <3>2
      <4> QED  BY <4>1 DEF Left
    <3> QED  BY <2>1, <3>1, <3>2 DEF Left, Got, n
  <2> QED  BY <1>0, <1>7, <2>3, <2>4, <2>5 DEF Return
<1>8. CASE Swap
  <2>1. ~Busy'
      BY <1>8 DEF Swap, Busy
  <2>2. Busy /\ Len(stack) = 1 /\ stack[1].rest = <<>>
      BY <1>8 DEF Swap, Busy, Top
  <2>3. \A l : ~LeftIn(stack, 1, l) /\ ~Left(stack, l)
      BY <2>2 DEF LeftIn, Left
  <2>4. \A l : Configured(l) => l \in Got
      BY <2>2, <2>3 DEF ConfiguredInv
  <2>5. \A l : Pointed(l, visited) /\ MaxDepth = 0 => l \in Got \cup skipped
      BY <2>2, <2>3 DEF PointedInv
  <2>6. lotes' = loaded /\ last' = [visited |-> visited, skipped |-> skipped]
      BY <1>8 DEF Swap
  <2>7. RefreshIsComplete'
      BY <2>4, <2>5, <2>6 DEF RefreshIsComplete, Got, Configured, Pointed
  <2> QED  BY <2>1, <2>7 DEF ShapeInv, ConfiguredInv, PointedInv
<1>9. ASSUME UNCHANGED <<refresh, lotes, ready, last>> PROVE CompleteInv'
    BY <1>0, <1>9
       DEF ShapeInv, ConfiguredInv, PointedInv, Busy, Configured, Pointed, Got, LeftIn, Left
<1>10. ASSUME NEW q \in Requests, Serve(q) PROVE UNCHANGED <<refresh, lotes, ready, last>>
    BY <1>10 DEF Serve, Begin, Check, expireStale, Decide
<1>11. ASSUME Tick \/ (\E l \in Changing, t \in Time : t >= now /\ Publish(l, t)) \/ \E l \in Failing : Toggle(l)
       PROVE  UNCHANGED <<refresh, lotes, ready, last>>
    BY <1>11 DEF Tick, Publish, Toggle
<1>12. CASE UNCHANGED vars
    BY <1>9, <1>12 DEF vars
<1> QED
    BY <1>1, <1>2, <1>3, <1>4, <1>5, <1>6, <1>7, <1>8, <1>9, <1>10, <1>11, <1>12 DEF Next, Loading

(* RefreshIsComplete, of refresh, resolveLoTL and resolvePointer: for any  *)
(* graph of pointers, cyclic or not, and any pattern of failures, what has *)
(* been swapped in lacks nothing that is configured and, without a depth   *)
(* limit, nothing it was pointed to, save what was skipped.                *)
THEOREM NothingIsLost == Spec => []RefreshIsComplete
<1>1. CompleteInv => RefreshIsComplete
    BY DEF CompleteInv
<1> QED  BY <1>1, InitTypeOK, NextTypeOK, InitCompleteInv, NextCompleteInv, PTL DEF Spec
=============================================================================

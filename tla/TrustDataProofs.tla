--------------------------- MODULE TrustDataProofs ---------------------------
(***************************************************************************)
(* The trust data a decision reports, for any registries and groups, any   *)
(* number of concurrent requests and any cache lifetime.                   *)
(***************************************************************************)
EXTENDS TrustData, TLAPS

(* The list q saw in its first snapshot is no longer served.               *)
Gone(q, l) == cache[l] # before[q][l] \/ Expired(before[q][l])

(* Instants identify stores: a list known at some time is still the cached *)
(* one, or every list cached since is younger.                             *)
TimeInv ==
    /\ \A l \in Leaves : cache[l] # None => cache[l].fetchedAt <= now
    /\ \A q \in Requests, l \in Leaves : before[q][l] # None =>
          /\ before[q][l].fetchedAt <= now
          /\ \/ cache[l] \in {None, before[q][l]}
             \/ cache[l].fetchedAt > before[q][l].fetchedAt

(* The evaluation of l by q: what it decided from is the list of the first *)
(* snapshot as long as that one is served, and it went to the network only *)
(* when it was not.                                                        *)
CallInv(q, l) ==
    /\ pc[q] = "idle" => stage[q][l] = "lookup" /\ used[q][l] = None
    /\ pc[q] = "evaluating" /\ before[q][l] # None =>
          /\ stage[q][l] \in {"fetch", "store"} => Gone(q, l)
          /\ stage[q][l] = "decided" /\ used[q][l] = None =>
                kind[q][l] = "error" \/ Gone(q, l)
          /\ used[q][l] # None /\ cache[l] = before[q][l] => used[q][l] = before[q][l]

Inv == TypeOK /\ TimeInv /\ \A q \in Requests, l \in Leaves : CallInv(q, l)

-----------------------------------------------------------------------------
LEMMA TypeStep == TypeOK /\ [Next]_vars => TypeOK'
<1> SUFFICES ASSUME TypeOK, [Next]_vars PROVE TypeOK'
  OBVIOUS
<1> USE TrustDataAssumption DEF TypeOK
<1>0. trustDataSnapshot \in [Leaves -> Lists \cup {None}]
  BY DEF trustDataSnapshot, CacheFreshness
<1>1. ASSUME NEW q \in Requests, SnapshotBefore(q) PROVE TypeOK'
  BY <1>0, <1>1 DEF SnapshotBefore, perCall
<1>2. ASSUME NEW q \in Requests, SnapshotAfter(q) PROVE TypeOK'
  <2>1. attachTrustData(q, trustDataSnapshot) \in [Leaves -> Lists \cup {None}]
    BY <1>0 DEF attachTrustData
  <2> QED BY <1>2, <2>1 DEF SnapshotAfter, perCall
<1>3. ASSUME NEW q \in Requests, NEW l \in Leaves, Lookup(q, l) PROVE TypeOK'
  <2> DEFINE c == cache[l]
  <2>1. CASE Decide(q, l, c) /\ UNCHANGED fetched
    <3>1. c \in Lists \cup {None}
      OBVIOUS
    <3> HIDE DEF c
    <3> QED BY <1>3, <2>1, <3>1 DEF Lookup, Decide
  <2>2. CASE stage' = [stage EXCEPT ![q][l] = "fetch"] /\ UNCHANGED <<fetched, used, kind>>
    BY <1>3, <2>2 DEF Lookup
  <2> QED BY <1>3, <2>1, <2>2 DEF Lookup
<1>4. ASSUME NEW q \in Requests, NEW l \in Leaves, FetchOk(q, l) PROVE TypeOK'
  BY <1>4 DEF FetchOk
<1>5. ASSUME NEW q \in Requests, NEW l \in Leaves, FetchFail(q, l) \/ Fail(q, l) PROVE TypeOK'
  <2>1. CASE FetchFail(q, l)
    BY <2>1 DEF FetchFail
  <2>2. CASE Fail(q, l)
    BY <2>2 DEF Fail
  <2> QED BY <1>5, <2>1, <2>2
<1>6. ASSUME NEW q \in Requests, NEW l \in Leaves, Store(q, l) PROVE TypeOK'
  <2> DEFINE c == [version |-> fetched[q][l], fetchedAt |-> now + 1]
  <2>1. now' = now + 1 /\ now' \in 0 .. MaxTime /\ c \in Lists
    BY <1>6 DEF Store, Lists
  <2>2. cache' = [cache EXCEPT ![l] = c] /\ Decide(q, l, c)
    BY <1>6 DEF Store
  <2> HIDE DEF c
  <2> QED BY <1>6, <2>1, <2>2 DEF Store, Decide
<1>7. ASSUME NEW l \in Leaves, Refresh(l) \/ Publish(l) PROVE TypeOK'
  <2>1. CASE Refresh(l)
    BY <2>1 DEF Refresh, perCall
  <2>2. CASE Publish(l)
    BY <2>2 DEF Publish, perCall
  <2> QED BY <1>7, <2>1, <2>2
<1>8. CASE Tick
  BY <1>8 DEF Tick, perCall
<1>9. CASE UNCHANGED vars
  BY <1>9 DEF vars
<1> QED BY <1>1, <1>2, <1>3, <1>4, <1>5, <1>6, <1>7, <1>8, <1>9 DEF Next

(* The clock and the caches: a step keeps the cache of a list, clears it,  *)
(* or stores a list of the instant it makes.                               *)
LEMMA CacheStep ==
    ASSUME TypeOK, [Next]_vars, NEW l \in Leaves
    PROVE  /\ now' \in {now, now + 1}
           /\ \/ cache'[l] \in {cache[l], None}
              \/ now' = now + 1 /\ cache'[l].fetchedAt = now'
<1> USE DEF TypeOK
<1>1. ASSUME NEW q \in Requests, NEW m \in Leaves, Store(q, m)
      PROVE  /\ now' = now + 1
             /\ cache'[l] = cache[l] \/ cache'[l].fetchedAt = now'
  BY <1>1 DEF Store
<1>2. ASSUME NEW m \in Leaves, Refresh(m)
      PROVE  now' = now /\ cache'[l] \in {cache[l], None}
  BY <1>2 DEF Refresh
<1>3. CASE Tick
  BY <1>3 DEF Tick
<1>4. CASE UNCHANGED <<now, cache>>
  BY <1>4
<1> QED BY <1>1, <1>2, <1>3, <1>4
        DEF Next, SnapshotBefore, SnapshotAfter, Lookup, FetchOk, FetchFail, Fail, Publish, vars

(* A first snapshot is taken of what is cached, once.                      *)
LEMMA BeforeStep ==
    ASSUME TypeOK, [Next]_vars, NEW q \in Requests, NEW l \in Leaves
    PROVE  \/ before'[q][l] = before[q][l]
           \/ /\ SnapshotBefore(q) /\ before'[q][l] \in {None, cache[l]}
<1>1. ASSUME NEW p \in Requests, SnapshotBefore(p)
      PROVE  \/ before'[q][l] = before[q][l]
             \/ p = q /\ before'[q][l] \in {None, cache[l]}
  BY <1>1 DEF SnapshotBefore, trustDataSnapshot, CacheFreshness, TypeOK
<1> QED BY <1>1 DEF Next, SnapshotAfter, Lookup, FetchOk, FetchFail, Fail, Store, Refresh,
                    Publish, Tick, vars

LEMMA TimeStep == TypeOK /\ TimeInv /\ [Next]_vars => TimeInv'
<1> SUFFICES ASSUME TypeOK, TimeInv, [Next]_vars PROVE TimeInv'
  OBVIOUS
<1>0. now \in Nat /\ \A l \in Leaves : cache[l] # None => cache[l].fetchedAt \in Nat
  BY TrustDataAssumption DEF TypeOK, Lists
<1>1. ASSUME NEW l \in Leaves, cache'[l] # None PROVE cache'[l].fetchedAt <= now'
  BY <1>0, <1>1, CacheStep DEF TimeInv
<1>2. ASSUME NEW q \in Requests, NEW l \in Leaves, before'[q][l] # None
      PROVE  /\ before'[q][l].fetchedAt <= now'
             /\ \/ cache'[l] \in {None, before'[q][l]}
                \/ cache'[l].fetchedAt > before'[q][l].fetchedAt
  <2>1. CASE before'[q][l] = before[q][l]
    <3>1. before[q][l].fetchedAt \in Nat
      BY <1>2, <2>1, TrustDataAssumption DEF TypeOK, Lists
    <3> QED BY <1>0, <1>2, <2>1, <3>1, CacheStep DEF TimeInv
  <2>2. CASE SnapshotBefore(q) /\ before'[q][l] = cache[l]
    BY <1>0, <1>2, <2>2 DEF TimeInv, SnapshotBefore
  <2> QED BY <1>2, <2>1, <2>2, BeforeStep
<1> QED BY <1>1, <1>2 DEF TimeInv

(* Once the list of the first snapshot is gone it stays gone.              *)
LEMMA GoneStep ==
    ASSUME TypeOK, TimeInv, [Next]_vars, NEW q \in Requests, NEW l \in Leaves,
           before[q][l] # None, before'[q][l] = before[q][l], Gone(q, l)
    PROVE  Gone(q, l)'
<1>1. /\ now \in Nat /\ before[q][l].fetchedAt \in Nat /\ before[q][l].fetchedAt <= now
      /\ TTL \in Nat
  BY TrustDataAssumption DEF TypeOK, Lists, TimeInv
<1>2. CASE cache'[l] = cache[l] /\ cache[l] # before[q][l]
  BY <1>2 DEF Gone
<1>3. CASE cache'[l] = None \/ (now' = now + 1 /\ cache'[l].fetchedAt = now')
  BY <1>1, <1>3 DEF Gone
<1>4. CASE now - before[q][l].fetchedAt >= TTL
  <2>1. now' - before[q][l].fetchedAt >= TTL
    BY <1>1, <1>4, CacheStep
  <2> QED BY <2>1 DEF Gone, Expired
<1> QED BY <1>2, <1>3, <1>4, CacheStep DEF Gone, Expired

(* A step on other lists, or of other requests: nothing but the cache and  *)
(* the clock moves for the evaluation of l by q.                           *)
LEMMA CallKept ==
    ASSUME TypeOK, TimeInv, [Next]_vars, NEW q \in Requests, NEW l \in Leaves, CallInv(q, l),
           pc'[q] = pc[q], before'[q][l] = before[q][l],
           stage'[q][l] = stage[q][l], used'[q][l] = used[q][l], kind'[q][l] = kind[q][l]
    PROVE  CallInv(q, l)'
<1>1. ASSUME before[q][l] # None, cache'[l] = before[q][l] PROVE cache[l] = before[q][l]
  <2>1. now \in Nat /\ before[q][l].fetchedAt \in Nat /\ before[q][l].fetchedAt <= now
    BY <1>1, TrustDataAssumption DEF TypeOK, Lists, TimeInv
  <2> QED BY <1>1, <2>1, CacheStep
<1>2. before[q][l] # None /\ Gone(q, l) => Gone(q, l)'
  BY GoneStep
<1> HIDE DEF Gone
<1> QED BY <1>1, <1>2 DEF CallInv

LEMMA CallStep ==
    ASSUME TypeOK, TimeInv, [Next]_vars, NEW q \in Requests, NEW l \in Leaves, CallInv(q, l)
    PROVE  CallInv(q, l)'
<1> USE DEF TypeOK
<1>1. CASE SnapshotBefore(q)
  <2>1. /\ pc[q] = "idle" /\ pc'[q] = "evaluating"
        /\ stage'[q][l] = "lookup" /\ used'[q][l] = None
    BY <1>1 DEF SnapshotBefore, perCall, CallInv
  <2> QED BY <2>1 DEF CallInv
<1>2. CASE SnapshotAfter(q)
  <2>1. pc'[q] = "answered"
    BY <1>2 DEF SnapshotAfter
  <2> QED BY <2>1 DEF CallInv
<1>3. CASE Lookup(q, l)
  <2>1. /\ pc'[q] = "evaluating" /\ pc[q] = "evaluating"
        /\ UNCHANGED <<before, cache, now>>
    BY <1>3 DEF Lookup
  <2>2. CASE cache[l] # None /\ ~Expired(cache[l])
    <3>1. /\ used'[q][l] = cache[l] /\ stage'[q][l] = "decided"
      BY <1>3, <2>2 DEF Lookup, Decide
    <3> QED BY <2>1, <2>2, <3>1 DEF CallInv
  <2>3. CASE ~(cache[l] # None /\ ~Expired(cache[l]))
    <3>1. stage'[q][l] = "fetch" /\ used'[q][l] = used[q][l]
      BY <1>3, <2>3 DEF Lookup
    <3>2. before[q][l] # None => Gone(q, l)'
      BY <2>1, <2>3 DEF Gone, Expired
    <3> HIDE DEF Gone
    <3> QED BY <2>1, <3>1, <3>2 DEF CallInv
  <2> QED BY <2>2, <2>3
<1>4. CASE FetchOk(q, l)
  <2>1. /\ pc'[q] = "evaluating" /\ pc[q] = "evaluating"
        /\ stage[q][l] = "fetch" /\ stage'[q][l] = "store"
        /\ used'[q][l] = used[q][l] /\ UNCHANGED <<before, cache, now>>
    BY <1>4 DEF FetchOk
  <2> QED BY <2>1 DEF CallInv, Gone, Expired
<1>5. CASE FetchFail(q, l)
  <2>1. /\ pc'[q] = "evaluating" /\ pc[q] = "evaluating"
        /\ stage[q][l] = "fetch" /\ stage'[q][l] = "decided"
        /\ used'[q][l] = used[q][l] /\ UNCHANGED <<before, cache, now>>
    BY <1>5 DEF FetchFail
  <2> QED BY <2>1 DEF CallInv, Gone, Expired
<1>6. CASE Fail(q, l)
  <2>1. /\ pc'[q] = "evaluating" /\ pc[q] = "evaluating"
        /\ stage'[q][l] = "decided" /\ kind'[q][l] = "error"
        /\ used'[q][l] = used[q][l] /\ UNCHANGED <<before, cache, now>>
    BY <1>6 DEF Fail
  <2> QED BY <2>1 DEF CallInv
<1>7. CASE Store(q, l)
  <2>1. /\ pc'[q] = "evaluating" /\ pc[q] = "evaluating"
        /\ stage'[q][l] = "decided" /\ now' = now + 1
        /\ before' = before /\ cache'[l].fetchedAt = now + 1
    BY <1>7 DEF Store, Decide
  <2>2. before[q][l] # None => cache'[l] # before'[q][l]
    BY <2>1, TrustDataAssumption DEF TimeInv, Lists
  <2> QED BY <2>1, <2>2 DEF CallInv, Gone
<1>8. ASSUME NEW p \in Requests, NEW m \in Leaves, p # q \/ m # l,
             \/ Lookup(p, m) \/ FetchOk(p, m) \/ FetchFail(p, m) \/ Fail(p, m) \/ Store(p, m)
      PROVE  CallInv(q, l)'
  <2>1. /\ pc'[q] = pc[q] /\ before'[q][l] = before[q][l]
        /\ stage'[q][l] = stage[q][l] /\ used'[q][l] = used[q][l] /\ kind'[q][l] = kind[q][l]
    BY <1>8 DEF Lookup, FetchOk, FetchFail, Fail, Store, Decide
  <2> QED BY <2>1, CallKept
<1>9. ASSUME NEW p \in Requests, p # q, SnapshotBefore(p) \/ SnapshotAfter(p)
      PROVE  CallInv(q, l)'
  <2>1. /\ pc'[q] = pc[q] /\ before'[q][l] = before[q][l]
        /\ stage'[q][l] = stage[q][l] /\ used'[q][l] = used[q][l] /\ kind'[q][l] = kind[q][l]
    BY <1>9 DEF SnapshotBefore, SnapshotAfter, perCall
  <2> QED BY <2>1, CallKept
<1>10. ASSUME NEW m \in Leaves, Refresh(m) \/ Publish(m) PROVE CallInv(q, l)'
  BY <1>10, CallKept DEF Refresh, Publish, perCall
<1>11. CASE Tick \/ UNCHANGED vars
  BY <1>11, CallKept DEF Tick, perCall, vars
<1> QED BY <1>1, <1>2, <1>3, <1>4, <1>5, <1>6, <1>7, <1>8, <1>9, <1>10, <1>11 DEF Next

LEMMA InvStart == Init => Inv
  BY TrustDataAssumption DEF Init, Inv, TypeOK, TimeInv, CallInv

LEMMA InvAlways == Spec => []Inv
<1>1. Inv /\ [Next]_vars => Inv'
  BY TypeStep, TimeStep, CallStep DEF Inv
<1> QED BY <1>1, InvStart, PTL DEF Spec

-----------------------------------------------------------------------------
(* Type correctness: clocks, versions and instants stay in their bounds.   *)
THEOREM TrustDataTypeCorrect == Spec => []TypeOK
<1>1. Inv => TypeOK
  BY DEF Inv
<1> QED BY <1>1, InvAlways, PTL

(* A step answers q with what both snapshots agree on, or leaves an        *)
(* answered request alone.                                                 *)
LEMMA AnsweredStep ==
    ASSUME TypeOK, [Next]_vars, NEW q \in Requests, pc'[q] = "answered"
    PROVE  \/ SnapshotAfter(q)
           \/ /\ pc[q] = "answered"
              /\ report'[q] = report[q] /\ used'[q] = used[q] /\ kind'[q] = kind[q]
<1> USE DEF TypeOK
<1>1. ASSUME NEW p \in Requests, NEW m \in Leaves,
             \/ Lookup(p, m) \/ FetchOk(p, m) \/ FetchFail(p, m) \/ Fail(p, m) \/ Store(p, m)
      PROVE  /\ pc[q] = "answered"
             /\ report'[q] = report[q] /\ used'[q] = used[q] /\ kind'[q] = kind[q]
  BY <1>1 DEF Lookup, FetchOk, FetchFail, Fail, Store, Decide
<1>2. ASSUME NEW p \in Requests, SnapshotBefore(p) \/ (p # q /\ SnapshotAfter(p))
      PROVE  /\ pc[q] = "answered"
             /\ report'[q] = report[q] /\ used'[q] = used[q] /\ kind'[q] = kind[q]
  BY <1>2 DEF SnapshotBefore, SnapshotAfter, perCall
<1> QED BY <1>1, <1>2 DEF Next, Refresh, Publish, Tick, perCall, vars

(* What an entry of the answer says when it is given.                      *)
LEMMA ReportedEntry ==
    ASSUME TypeOK, NEW q \in Requests, NEW l \in Leaves, CallInv(q, l),
           SnapshotAfter(q), report'[q][l] # None
    PROVE  /\ used[q][l] # None => report'[q][l] = used[q][l]
           /\ used[q][l] = None => kind[q][l] = "error"
           /\ GroupOf[l] \notin failedRegistries(q)
<1>1. /\ pc[q] = "evaluating" /\ stage[q][l] = "decided"
      /\ report'[q][l] = attachTrustData(q, trustDataSnapshot)[l]
  BY DEF SnapshotAfter, TypeOK
<1>2. /\ report'[q][l] = CacheFreshness(l) /\ before[q][l] = CacheFreshness(l)
      /\ GroupOf[l] \notin failedRegistries(q)
  BY <1>1 DEF attachTrustData, trustDataSnapshot
<1>3. /\ report'[q][l] = cache[l] /\ before[q][l] = cache[l] /\ ~Expired(before[q][l])
      /\ before[q][l] # None
  BY <1>2 DEF CacheFreshness
<1> QED BY <1>1, <1>2, <1>3 DEF CallInv, Gone

-----------------------------------------------------------------------------
(* What is reported is what was used, whatever was reloaded, refreshed or  *)
(* published while the request was evaluated.                              *)
THEOREM ReportsAreTrue == Spec => []ReportedListWasUsed
<1>1. Init => ReportedListWasUsed
  BY DEF Init, ReportedListWasUsed
<1>2. Inv /\ ReportedListWasUsed /\ [Next]_vars => ReportedListWasUsed'
  <2> SUFFICES ASSUME Inv, ReportedListWasUsed, [Next]_vars,
                      NEW q \in Requests, NEW l \in Leaves,
                      pc'[q] = "answered", report'[q][l] # None, used'[q][l] # None
               PROVE  report'[q][l] = used'[q][l]
    BY DEF ReportedListWasUsed
  <2>1. CASE SnapshotAfter(q)
    BY <2>1, ReportedEntry DEF Inv, SnapshotAfter, perCall
  <2>2. CASE /\ pc[q] = "answered"
             /\ report'[q] = report[q] /\ used'[q] = used[q] /\ kind'[q] = kind[q]
    BY <2>2 DEF ReportedListWasUsed
  <2> QED BY <2>1, <2>2, AnsweredStep DEF Inv
<1> QED BY <1>1, <1>2, InvAlways, PTL DEF Spec

(* A denial that could flip without any list changing is never reported    *)
(* as fresh.                                                               *)
THEOREM FreshDenialsAreFinal == Spec => []FreshDenialIsFinal
<1>1. Init => FreshDenialIsFinal
  BY DEF Init, FreshDenialIsFinal
<1>2. Inv /\ FreshDenialIsFinal /\ [Next]_vars => FreshDenialIsFinal'
  <2> SUFFICES ASSUME Inv, FreshDenialIsFinal, [Next]_vars,
                      NEW q \in Requests, NEW l \in Leaves,
                      pc'[q] = "answered", ~Allowed(q)', report'[q][l] # None
               PROVE  /\ used'[q][l] # None
                      /\ \A m \in Leaves : GroupOf[m] = GroupOf[l] => kind'[q][m] # "error"
    BY DEF FreshDenialIsFinal
  <2>0. ASSUME kind'[q] = kind[q] PROVE ~Allowed(q)
    BY <2>0 DEF Allowed
  <2>1. CASE SnapshotAfter(q)
    <3>1. /\ UNCHANGED <<kind, used>> /\ ~Allowed(q)
      BY <2>0, <2>1 DEF SnapshotAfter, perCall
    <3>2. GroupOf[l] \notin {GroupOf[k] : k \in {m \in Leaves : kind[q][m] = "error"}}
      BY <2>1, <3>1, ReportedEntry DEF Inv, failedRegistries
    <3>3. used[q][l] # None
      BY <2>1, <3>2, ReportedEntry DEF Inv
    <3> QED BY <3>1, <3>2, <3>3
  <2>2. CASE /\ pc[q] = "answered"
             /\ report'[q] = report[q] /\ used'[q] = used[q] /\ kind'[q] = kind[q]
    BY <2>0, <2>2 DEF FreshDenialIsFinal
  <2> QED BY <2>1, <2>2, AnsweredStep DEF Inv
<1> QED BY <1>1, <1>2, InvAlways, PTL DEF Spec
=============================================================================

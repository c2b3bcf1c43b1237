----------------------------- MODULE TrustData ------------------------------
(***************************************************************************)
(* The freshness a decision reports about the trust data it rests on       *)
(* (pkg/registry/freshness.go), together with what it must be right about: *)
(* registries that fetch a list, cache it for a TTL and share the cache    *)
(* between concurrent requests (getVical of pkg/registry/vical and its     *)
(* siblings mdocrical and mdociaca).                                       *)
(*                                                                         *)
(* dispatch() snapshots the freshness of the applicable registries before  *)
(* and after the evaluation.  The registries read, fetch and store their   *)
(* cache in separate critical sections, so other requests, Refresh and the *)
(* clock act in between.                                                   *)
(***************************************************************************)
EXTENDS Naturals

CONSTANTS Requests,
          Leaves,      \* list-backed registries
          GroupOf,     \* GroupOf[l]: the top-level registry l is reached through
          TTL,         \* time units a fetched list is served from the cache
          MaxTime,     \* bound on the clock
          MaxVersion,  \* bound on list versions published upstream
          None

ASSUME TrustDataAssumption == TTL \in Nat /\ MaxTime \in Nat /\ MaxVersion \in Nat

VARIABLES now,        \* the clock; every store of a list gets its own instant
          upstream,   \* upstream[l]: version the list provider serves
          cache,      \* cache[l]: [version, fetchedAt], or None
          stage,      \* stage[q][l]: where the evaluation of l by q is
          fetched,    \* fetched[q][l]: version in hand, not yet stored
          used,       \* used[q][l]: list the decision of l was taken from, or None
          kind,       \* kind[q][l]: "allow", "deny" or "error"
          before,     \* before[q]: the first freshness snapshot
          report,     \* report[q]: the trust data of the response
          pc          \* pc[q]: "idle", "evaluating" or "answered"

vars == <<now, upstream, cache, stage, fetched, used, kind, before, report, pc>>
perCall == <<stage, fetched, used, kind>>

Lists == [version : 0 .. MaxVersion, fetchedAt : 0 .. MaxTime]

TypeOK ==
    /\ now \in 0 .. MaxTime
    /\ upstream \in [Leaves -> 0 .. MaxVersion]
    /\ cache \in [Leaves -> Lists \cup {None}]
    /\ stage \in [Requests -> [Leaves -> {"lookup", "fetch", "store", "decided"}]]
    /\ fetched \in [Requests -> [Leaves -> 0 .. MaxVersion]]
    /\ used \in [Requests -> [Leaves -> Lists \cup {None}]]
    /\ kind \in [Requests -> [Leaves -> {"none", "allow", "deny", "error"}]]
    /\ before \in [Requests -> [Leaves -> Lists \cup {None}]]
    /\ report \in [Requests -> [Leaves -> Lists \cup {None}]]
    /\ pc \in [Requests -> {"idle", "evaluating", "answered"}]

Init ==
    /\ now = 0
    /\ upstream = [l \in Leaves |-> 0]
    /\ cache = [l \in Leaves |-> None]
    /\ stage = [q \in Requests |-> [l \in Leaves |-> "lookup"]]
    /\ fetched = [q \in Requests |-> [l \in Leaves |-> 0]]
    /\ used = [q \in Requests |-> [l \in Leaves |-> None]]
    /\ kind = [q \in Requests |-> [l \in Leaves |-> "none"]]
    /\ before = [q \in Requests |-> [l \in Leaves |-> None]]
    /\ report = [q \in Requests |-> [l \in Leaves |-> None]]
    /\ pc = [q \in Requests |-> "idle"]

-----------------------------------------------------------------------------
(* The registries' own expiry test.                                        *)
Expired(c) == now - c.fetchedAt >= TTL

(* Unknown before the first fetch and once the cache has outlived its TTL. *)
CacheFreshness(l) == IF cache[l] = None THEN None
                     ELSE IF Expired(cache[l]) THEN None ELSE cache[l]

(* One entry per leaf; composites contribute their children.               *)
trustDataSnapshot == [l \in Leaves |-> CacheFreshness(l)]

(* Evaluate decides from list u.                                           *)
Decide(q, l, u) ==
    /\ used' = [used EXCEPT ![q][l] = u]
    /\ \E k \in {"allow", "deny"} : kind' = [kind EXCEPT ![q][l] = k]
    /\ stage' = [stage EXCEPT ![q][l] = "decided"]

(* getVical: read the cache under the read lock; serve it while it is fresh *)
(* and go to the network otherwise.                                        *)
Lookup(q, l) ==
    /\ pc[q] = "evaluating" /\ stage[q][l] = "lookup"
    /\ IF cache[l] # None /\ ~Expired(cache[l])
       THEN Decide(q, l, cache[l]) /\ UNCHANGED fetched
       ELSE stage' = [stage EXCEPT ![q][l] = "fetch"] /\ UNCHANGED <<fetched, used, kind>>
    /\ UNCHANGED <<now, upstream, cache, before, report, pc>>

FetchOk(q, l) ==
    /\ pc[q] = "evaluating" /\ stage[q][l] = "fetch"
    /\ fetched' = [fetched EXCEPT ![q][l] = upstream[l]]
    /\ stage' = [stage EXCEPT ![q][l] = "store"]
    /\ UNCHANGED <<now, upstream, cache, used, kind, before, report, pc>>

(* The registry keeps the old list and denies, with a nil error.           *)
FetchFail(q, l) ==
    /\ pc[q] = "evaluating" /\ stage[q][l] = "fetch"
    /\ kind' = [kind EXCEPT ![q][l] = "deny"]
    /\ stage' = [stage EXCEPT ![q][l] = "decided"]
    /\ UNCHANGED <<now, upstream, cache, fetched, used, before, report, pc>>

(* cache = {list, time.Now()} under the lock; the list fetched is used.    *)
Store(q, l) ==
    /\ pc[q] = "evaluating" /\ stage[q][l] = "store"
    /\ now < MaxTime
    /\ now' = now + 1
    /\ LET c == [version |-> fetched[q][l], fetchedAt |-> now + 1]
       IN  cache' = [cache EXCEPT ![l] = c] /\ Decide(q, l, c)
    /\ UNCHANGED <<upstream, fetched, before, report, pc>>

(* The strategy records an error for l: its breaker was open, it panicked, *)
(* or it reported one.                                                     *)
Fail(q, l) ==
    /\ pc[q] = "evaluating" /\ stage[q][l] # "decided"
    /\ kind' = [kind EXCEPT ![q][l] = "error"]
    /\ stage' = [stage EXCEPT ![q][l] = "decided"]
    /\ UNCHANGED <<now, upstream, cache, fetched, used, before, report, pc>>

-----------------------------------------------------------------------------
(* dispatch.                                                               *)
SnapshotBefore(q) ==
    /\ pc[q] = "idle"
    /\ before' = [before EXCEPT ![q] = trustDataSnapshot]
    /\ pc' = [pc EXCEPT ![q] = "evaluating"]
    /\ UNCHANGED <<now, upstream, cache, report>> /\ UNCHANGED perCall

(* A group allows when all its leaves do (an AND composite, or one leaf);  *)
(* the request is allowed when a group allows.                             *)
Allowed(q) == \E l \in Leaves : \A m \in Leaves : GroupOf[m] = GroupOf[l] => kind[q][m] = "allow"

\* Failures looked up by leaf, not by the group the strategy recorded.
failedLeaves(q) == IF Allowed(q) THEN {} ELSE {l \in Leaves : kind[q][l] = "error"}

(* Groups a denial did not really come from: an error entry, or a          *)
(* composite marked incomplete by one of its children.                     *)
failedRegistries(q) ==
    IF Allowed(q) THEN {} ELSE {GroupOf[l] : l \in {m \in Leaves : kind[q][m] = "error"}}

\* Only the second snapshot is looked at.
attachAfterOnly(q, after) ==
    [l \in Leaves |-> IF GroupOf[l] \in failedRegistries(q) THEN None ELSE after[l]]

\* A failed child does not taint its siblings in the composite.
attachByLeaf(q, after) ==
    [l \in Leaves |-> IF before[q][l] = after[l] /\ l \notin failedLeaves(q)
                      THEN after[l] ELSE None]

(* An entry is reported only when both snapshots agree on it.              *)
attachTrustData(q, after) ==
    [l \in Leaves |-> IF before[q][l] = after[l] /\ GroupOf[l] \notin failedRegistries(q)
                      THEN after[l] ELSE None]

SnapshotAfter(q) ==
    /\ pc[q] = "evaluating"
    /\ \A l \in Leaves : stage[q][l] = "decided"
    /\ report' = [report EXCEPT ![q] = attachTrustData(q, trustDataSnapshot)]
    /\ pc' = [pc EXCEPT ![q] = "answered"]
    /\ UNCHANGED <<now, upstream, cache, before>> /\ UNCHANGED perCall

-----------------------------------------------------------------------------
(* Refresh clears the cache; the provider publishes; time passes.          *)
Refresh(l) ==
    /\ cache' = [cache EXCEPT ![l] = None]
    /\ UNCHANGED <<now, upstream, before, report, pc>> /\ UNCHANGED perCall

Publish(l) ==
    /\ upstream[l] < MaxVersion
    /\ upstream' = [upstream EXCEPT ![l] = @ + 1]
    /\ UNCHANGED <<now, cache, before, report, pc>> /\ UNCHANGED perCall

Tick ==
    /\ now < MaxTime
    /\ now' = now + 1
    /\ UNCHANGED <<upstream, cache, before, report, pc>> /\ UNCHANGED perCall

Next == \/ \E q \in Requests :
              \/ SnapshotBefore(q) \/ SnapshotAfter(q)
              \/ \E l \in Leaves : \/ Lookup(q, l) \/ FetchOk(q, l) \/ FetchFail(q, l)
                                   \/ Store(q, l) \/ Fail(q, l)
        \/ \E l \in Leaves : Refresh(l) \/ Publish(l)
        \/ Tick

Spec == Init /\ [][Next]_vars

-----------------------------------------------------------------------------
(* What is reported is what was used: if a registry that was consulted is  *)
(* reported with an as_of and it decided from a list, it was that very     *)
(* list, whatever reloaded in the meantime.                                *)
ReportedListWasUsed ==
    \A q \in Requests, l \in Leaves :
        pc[q] = "answered" /\ report[q][l] # None /\ used[q][l] # None
            => report[q][l] = used[q][l]

(* A denial that can flip without any list changing is not reported as     *)
(* fresh: no known entry when a fetch failed, and none for any member of a *)
(* composite one of whose children did not answer.                         *)
FreshDenialIsFinal ==
    \A q \in Requests, l \in Leaves :
        pc[q] = "answered" /\ ~Allowed(q) /\ report[q][l] # None =>
            /\ used[q][l] # None
            /\ \A m \in Leaves : GroupOf[m] = GroupOf[l] => kind[q][m] # "error"
=============================================================================

--------------------------- MODULE OIDFedRegistry ---------------------------
(***************************************************************************)
(* The OpenID Federation registry (pkg/registry/oidfed): evaluations that  *)
(* share a cache of resolved trust chains.  A request is answered from the *)
(* cache, from a chain it carries itself, or by a resolution that runs in  *)
(* a goroutine and is abandoned at the deadline.                           *)
(*                                                                         *)
(* chain     [depth, expiries, marks, types, key, valid]: its length, the  *)
(*           expiry of every statement that has one, the leaf's trust      *)
(*           marks, entity types and key, and whether every signature and  *)
(*           the anchor check out                                          *)
(* request   [entity, marks, types, credentials, depth, cacheControl,      *)
(*           supplied, key]: key is "" for a resolution only, types and    *)
(*           depth are {} and 0 when the request does not set them         *)
(*                                                                         *)
(* Resolution over the network (ResolveToValidChains of the federation     *)
(* library) is external: it returns some of the chains that exist and are  *)
(* valid at that moment, in any order.                                     *)
(***************************************************************************)
EXTENDS Integers, FiniteSets, SequencesExt, Selection

CONSTANTS Callers, FedRequests,
          Chains,             \* Chains[entity]: the chains the federation may offer
          RequiredTrustMarks, EntityTypes, MaxChainDepth,   \* configuration
          KnownTypes,         \* entity types a supplied chain is checked for
          CredentialMarks,    \* credential_type_trust_marks of the policy
          CacheTTL, MaxSize,
          MaxTime,            \* the clock stops here (a bound)
          NoChain

ASSUME CacheAssumption == MaxSize \in Nat \ {0} /\ CacheTTL \in Nat \ {0}

(* Finitely many chains, and times are counted from an epoch.              *)
ASSUME ChainsAssumption ==
    /\ \A r \in FedRequests : /\ IsFiniteSet(Chains[r.entity])
                              /\ \A c \in Chains[r.entity] \cup ({r.supplied} \ {NoChain}) :
                                    c.expiries \subseteq Nat

VARIABLES time,
          cache,     \* the entries, least recently used first
          caller,    \* caller[p]: [pc, req, chains]
          verdict    \* verdict[p]: [decision, chain, req] of p's last request

fedVars == <<time, cache, caller, verdict>>

Idle == [pc |-> "idle", req |-> NoChain, chains |-> <<>>]
NoVerdict == [decision |-> FALSE, chain |-> NoChain, req |-> NoChain]

FedInit == /\ time = 0
           /\ cache = <<>>
           /\ caller = [p \in Callers |-> Idle]
           /\ verdict = [p \in Callers |-> NoVerdict]

-----------------------------------------------------------------------------
(* extractConstraintsFromContext: trust marks add up (configuration,       *)
(* request, the policy's marks for the requested credential types); entity *)
(* types and depth of the request replace the configured ones.             *)
TrustMarks(r) == RequiredTrustMarks \cup r.marks \cup UNION {CredentialMarks[c] : c \in r.credentials}
Types(r)      == IF r.types # {} THEN r.types ELSE EntityTypes
MaxDepth(r)   == IF r.depth > 0 THEN r.depth ELSE MaxChainDepth

(* cache_control of the request.                                           *)
shouldBypassCache(r)    == r.cacheControl \in {"no-cache", "no-store"}
shouldSkipCacheWrite(r) == r.cacheControl = "no-store"
hasMaxAge(r)            == r.cacheControl = "max-age=0"

\* The entity types are not part of the key.
cacheKeyWithoutTypes(r) == <<r.entity, TrustMarks(r), {}>>

(* The code hashes the identifier, "|tm:" before each mark and "|et:"      *)
(* before each type, without escaping and in the order of the lists: the   *)
(* same as the tuple for identifiers in which these separators do not      *)
(* occur, as in URLs, where a bar is written %7C.  The order of a list     *)
(* only splits entries the tuple merges, which met the same requirements.  *)
cacheKey(r) == <<r.entity, TrustMarks(r), Types(r)>>

-----------------------------------------------------------------------------
(* MetadataCache.  LastAccess only orders the entries, so the sequence is  *)
(* kept in its order.                                                      *)

\* The statement that lives longest decides.
latestChainExpiry(chains) ==
    LET all == UNION {chains[i].expiries : i \in DOMAIN chains}
    IN IF all = {} THEN 0 ELSE Max(all)

earliestChainExpiry(chains) ==
    LET all == UNION {chains[i].expiries : i \in DOMAIN chains}
    IN IF all = {} THEN 0 ELSE Min(all)

(* SetWithChainExpiry: a chain that has expired already keeps the full TTL.*)
EntryTTL(chains) ==
    LET left == earliestChainExpiry(chains) - time
    IN IF left > 0 /\ left < CacheTTL THEN left ELSE CacheTTL

Expired(e) == time > e.expiresAt

(* evictLRU: the expired entries, then a tenth of the rest (at least one)  *)
(* when that was not enough.                                               *)
evictLRU(entries) ==
    LET live == Picked(entries, {i \in DOMAIN entries : ~Expired(entries[i])})
        tenth == Len(live) \div 10
    IN IF Len(live) < MaxSize THEN live
       ELSE SubSeq(live, (IF tenth < 1 THEN 1 ELSE tenth) + 1, Len(live))

Without(entries, key) == Picked(entries, {i \in DOMAIN entries : entries[i].key # key})

(* set: at the limit it evicts first, also when the key is there already.  *)
set(key, chains) ==
    LET room == IF Len(cache) >= MaxSize THEN evictLRU(cache) ELSE cache
    IN cache' = Append(Without(room, key),
                       [key |-> key, chains |-> chains, resolvedAt |-> time,
                        expiresAt |-> time + EntryTTL(chains)])

Entry(key) ==
    IF \E i \in DOMAIN cache : cache[i].key = key
    THEN {cache[SelectInSeq(cache, LAMBDA e : e.key = key)]} ELSE {}

-----------------------------------------------------------------------------
(* Evaluate.                                                               *)

TimeValid(chain) == \A x \in chain.expiries : x > time

TypeMatches(chain, types) == types = {} \/ types \cap chain.types # {}

(* validatePreSuppliedTrustChain: the configured depth limits it, and an   *)
(* entity type it does not know always matches.                            *)
validatePreSuppliedTrustChain(r) ==
    /\ r.supplied # NoChain
    /\ r.supplied.depth \in 2 .. MaxChainDepth
    /\ r.supplied.valid /\ TimeValid(r.supplied)
    /\ TypeMatches(r.supplied, Types(r)) \/ Types(r) \ KnownTypes # {}

Miss(p, r) ==
    caller' = [caller EXCEPT ![p] =
        IF validatePreSuppliedTrustChain(r)
        THEN [pc |-> "store", req |-> r, chains |-> <<r.supplied>>]
        ELSE [pc |-> "resolve", req |-> r, chains |-> <<>>]]

(* The first chain decides: its trust marks, then the key binding.  With   *)
(* no chain the reachability probe only words the denial.                  *)
Verdict(r, chains) ==
    IF /\ chains # <<>>
       /\ TrustMarks(r) \subseteq chains[1].marks
       /\ r.key \in {"", chains[1].key}
    THEN [decision |-> TRUE, chain |-> chains[1], req |-> r]
    ELSE NoVerdict

(* Evaluate up to the cache: Get and GetWithMaxAge.  An expired entry is   *)
(* deleted, one that is only too old for this request stays.               *)
Begin(p, r) ==
    /\ caller[p].pc = "idle"
    /\ LET hits == IF shouldBypassCache(r) THEN {} ELSE Entry(cacheKey(r))
           Served(e) == ~Expired(e) /\ ~(hasMaxAge(r) /\ time > e.resolvedAt)
       IN \/ \E e \in hits :
               /\ Served(e)
               /\ cache' = Append(Without(cache, e.key), e)
               /\ verdict' = [verdict EXCEPT ![p] = Verdict(r, e.chains)]
               /\ UNCHANGED caller
          \/ /\ \A e \in hits : ~Served(e)
             /\ cache' = Picked(cache, {i \in DOMAIN cache : ~(cache[i] \in hits /\ Expired(cache[i]))})
             /\ Miss(p, r)
             /\ verdict' = [verdict EXCEPT ![p] = NoVerdict]
    /\ UNCHANGED time

(* The resolver goroutine answers in time.                                 *)
ResolveToValidChains(p) ==
    /\ caller[p].pc = "resolve"
    /\ LET r == caller[p].req
           valid == {c \in Chains[r.entity] : c.valid /\ TimeValid(c) /\ TypeMatches(c, Types(r))}
       IN \E chains \in SetToAllKPermutations(valid) :
            caller' = [caller EXCEPT ![p] = [@ EXCEPT !.pc = "store", !.chains = chains]]
    /\ UNCHANGED <<time, cache, verdict>>

(* The deadline of the request, or the registry's own thirty seconds: the  *)
(* late result stays in the channel's buffer and is never stored.          *)
Timeout(p) ==
    /\ caller[p].pc = "resolve"
    /\ caller' = [caller EXCEPT ![p] = Idle]
    /\ UNCHANGED <<time, cache, verdict>>

(* The depth filter, the write to the cache, and the decision.             *)
Store(p) ==
    /\ caller[p].pc = "store"
    /\ LET r == caller[p].req
           resolved == caller[p].chains
           kept == Picked(resolved, {i \in DOMAIN resolved : resolved[i].depth <= MaxDepth(r)})
       IN /\ IF kept # <<>> /\ ~shouldSkipCacheWrite(r) THEN set(cacheKey(r), kept)
             ELSE UNCHANGED cache
          /\ verdict' = [verdict EXCEPT ![p] = Verdict(r, kept)]
    /\ caller' = [caller EXCEPT ![p] = Idle]
    /\ UNCHANGED time

-----------------------------------------------------------------------------
(* Refresh: the cache is emptied; evaluations in flight go on.             *)
Clear ==
    /\ cache # <<>>
    /\ cache' = <<>>
    /\ UNCHANGED <<time, caller, verdict>>

Tick ==
    /\ time < MaxTime
    /\ time' = time + 1
    /\ UNCHANGED <<cache, caller, verdict>>

FedNext == \/ \E p \in Callers, r \in FedRequests : Begin(p, r)
           \/ \E p \in Callers : ResolveToValidChains(p)
           \/ \E p \in Callers : Timeout(p)
           \/ \E p \in Callers : Store(p)
           \/ Clear
           \/ Tick

-----------------------------------------------------------------------------
(* An approval satisfies the constraints of its own request, also when its *)
(* chain was resolved for another one: every trust mark the configuration, *)
(* the request and the credential types ask for, and an entity type the    *)
(* request accepts, when it names types the registry knows                 *)
(* (checkTrustMarksWithList; cacheKey separates the rest).                 *)
ConstraintsRespected ==
    \A p \in Callers : verdict[p].decision =>
        LET r == verdict[p].req IN
        /\ TrustMarks(r) \subseteq verdict[p].chain.marks
        /\ Types(r) \subseteq KnownTypes => TypeMatches(verdict[p].chain, Types(r))
        /\ r.key \in {"", verdict[p].chain.key}

(* Chains that were current when they were stored are never served after   *)
(* one of their statements has expired (SetWithChainExpiry caps the TTL at *)
(* the earliest expiry of all chains of the entry).                        *)
CachedChainsExpireInTime ==
    \A i \in DOMAIN cache :
        LET all == UNION {cache[i].chains[j].expiries : j \in DOMAIN cache[i].chains}
        IN (\A x \in all : x > cache[i].resolvedAt) => (\A x \in all : cache[i].expiresAt <= x)

(* The cache keeps to its limit and holds one entry per key, whatever mix  *)
(* of insertions, refreshes and expiries it sees (set, evictLRU).          *)
CacheBounded ==
    /\ Len(cache) <= MaxSize
    /\ \A i, j \in DOMAIN cache : cache[i].key = cache[j].key => i = j

(* Both, of the one cache all requests share (MetadataCache).              *)
CacheIsSound == CachedChainsExpireInTime /\ CacheBounded
=============================================================================

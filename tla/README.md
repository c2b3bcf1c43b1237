# go-trust: a TLA+ model

go-trust is an AuthZEN policy decision point that answers one question: may
this key, or this identifier, be trusted in this role?  It asks trust
registries (ETSI trust lists, OpenID Federation, DID methods, mdoc and travel
document lists, local whitelists) and aggregates what they say.  This directory
holds TLA+ modules translated from the source, the TLC configurations that
check them on small instances, and proofs that TLAPS checks for every size.

All paths below are relative to the repository's root; `PROJECT.json` maps every
definition to the lines it stands for and lists the hazards with the properties
that cover them.

## 1. The system

| Component | State | Operations | Interactions |
|---|---|---|---|
| Registry manager (`pkg/registry/manager.go`) | list of registries, breakers by name, policy manager, strategy, timeout | `Evaluate`, `Register`, `Unregister`, `Refresh`, `Healthy`, `SetPolicyManager` | called by the HTTP handlers, one goroutine per request; calls a strategy |
| Resolution strategies (`strategies.go`) | per request: a context with timeout, a channel of results, a goroutine for each registry | `evaluateFirstMatchFiltered`, `evaluateAllFiltered`, best match, `evaluateSequentialFiltered` | share the breakers between requests; call `Evaluate` of the registries |
| Circuit breaker (`circuit_breaker.go`) | failure count, time of the last failure, state | `CanAttempt`, `RecordSuccess`, `RecordFailure`, `Reset` | consulted before a call and updated after it, with the call itself outside the lock |
| Policies (`policy.go`) | map of policies, default, fail-closed flag, set of unknown actions warned about | `GetPolicy`, `IsUnknownAction`, `firstUnknownWarning`, configuration at startup | choose and constrain the registries of a request, write controls into its context |
| Composite registry (`composite.go`) | children, operator, threshold, timeout | `Evaluate` (one goroutine per child), `Refresh`, `Healthy` | is a registry itself; nests |
| Trust data (`freshness.go`, the list registries) | cached list and its fetch time, per registry | snapshot before and after an evaluation, attach | read-only view of caches that requests, refreshes and clocks change |
| VICAL, IACA and RICAL registries (`vical`, `mdociaca`, `mdocrical`) | cached list, fetch time | `Evaluate`, fetch and verify, `Refresh` | network; a cache each |
| LoTE and ETSI registries (`lote`, `etsi`) | parsed lists, index, certificate pool, next expiry | refresh loop, `Refresh`, expiry on use, `Evaluate` | network; pointers between lists |
| OpenID Federation (`oidfed`) | metadata cache with LRU and expiry | `Evaluate`, cache operations | trust chain resolution library; leaked goroutines on timeout |
| FIDO MDS3 (`fidomds3`) | blob index, file on disk | `New` (disk fallback), refresh loop, `Evaluate` | network, file system |
| Whitelist (`static/whitelist.go`) | lists, loaded keys, config file, watcher | reload on change, key refresh loop, runtime edits, `Evaluate` | file watcher, network |
| DID registries (`did`, `didweb`, `didjwks`, `didwebvh`) | none between requests | resolve and match | network |
| eMRTD (`emrtd`) | snapshot of anchors and revocation lists, directory watches | reload, watch loop, path building and checks, `Evaluate` | file system, its events, a poll |
| Relying-party certificates (`rpcert`) | revocation cache | profile checks | network |
| Retrying fetcher (`pkg/resilience`) | response cache by URL | `Fetch` with retries and stale fallback, `Invalidate` | network |
| HTTP API (`pkg/api`) | rate limiter maps, readiness, metrics | handlers, per-client rate limit, hourly cleanup | gin runs handlers concurrently |
| Configuration, startup (`pkg/config`, `cmd/gt`) | configuration | load, build registries, install policies | runs before requests are served |

What is hard in this code, and where the properties are aimed:

* The strategies race: results arrive in any order, a first match returns and
  cancels while siblings still run, timeouts and client disconnects finish
  contexts, registries panic.  A lost result turns into a denial that is missing
  a vote, or an allow nobody gave.
* Breakers are checked before and updated after a call that holds no lock.
  Overlapping calls record outcomes of decisions taken under an older state.
* Composites nest, with their own timeouts; a failed child must withhold trust
  and be told apart from a child that said no.
* A response reports the freshness of the trust data, while caches expire, are
  cleared and refilled during the evaluation.
* The request object is rewritten in place (sanitized, stashed, normalised,
  constrained); the order of these steps decides whose values a registry sees.
* The limiter splits a request into a read-locked lookup, a write-locked touch
  and an unlocked take, with the cleanup free to run in between.
* The whitelist's keys are fetched for minutes with no lock held and then swapped
  in, while the file watcher replaces the lists and the entities rotate their keys.
* The host of a DID answers every fetch anew: it may rewrite or fork a log, or change
  between two fetches of one resolution.
* Resolutions of OpenID Federation outlive the requests that began them and write to a
  cache that requests with other requirements read.
* Trust data that lives on disk meets crashes in the middle of a save, operators who
  edit file by file, and file events that never come.
* A refresh of trust lists follows pointers through cycles for as long as its fetches
  take, while requests drop from the index what lapses meanwhile, each with a clock
  reading of its own.

What makes each part correct:

* *Manager and strategies*: an allow rests on an applicable registry that
  allowed this request; a denial is given only after every applicable registry
  has had its say; the details promoted to a response follow from the votes, and
  arrival decides at most which of the registries that allowed is named; every request
  ends; no goroutine blocks or leaks.
* *Breaker*: open exactly on a streak of failures, a bounded load on a dead
  registry, recovery.
* *Composite*: its boolean formula over the leaves, failures only ever withhold.
* *Trust data*: what is reported is what was used, and a denial reported as
  fresh is final.
* *Pipeline*: controls are the policy's, identity is the caller's, policy
  constraints hold at dispatch.
* *Limiter*: one bucket per client, the burst bound, bounded maps.
* *Whitelist*: a withdrawn key stays refused once a refresh has seen the rotation, an
  outage takes no trust away, edits of the file take effect, rotations are noticed.
* *Lists of trusted entities*: nothing lapsed decides, neither a list nor what it was
  found through; a refresh loses nothing it was configured with or pointed to; expiry
  takes trust and never grants it; updates arrive.
* *ETSI trusted lists*: approvals rest on what is current, a lapsed list takes no live
  one with it, only trusted signers are loaded, updates and rollovers arrive.
* *DIDs*: an approved key is one the identifier's holder published; two accepted logs
  that share a version share its history; pre-rotation binds; an approved document
  meets the constraints of the role it was asked for.
* *OpenID Federation*: an approval meets the requirements of its own request, and no
  cached chain outlives its statements.
* *FIDO MDS3*: once a blob has been saved a start fails only if that blob has expired,
  crashes included.
* *eMRTD*: the snapshot never goes back, the tree on disk comes into use, signers are
  vouched for and not revoked.
* *Lists of mdoc certificates*: the decision is that of a listed certificate on the path.

## 2. The modules

**CircuitBreaker** — the methods of the breaker as operators on a record.  Each
runs under the breaker's own mutex, hence atomic.  The instant of the last
failure is kept as elapsed time, saturated just above the reset timeout: the
code uses it in that one comparison only.

**BreakerCallers** — one registry behind its breaker, used by concurrent
callers: check, call (no lock), record.  The registry's backend goes down and
comes back; the clock ticks; `Reset` may be called.

**EvalResults** — the results a strategy collects and the pure code that turns
them into a response: promotion of deny codes and admin details, merge of
verifier identifiers, and the response of each strategy.  What is inside a
reason, a message or a certificate is not modelled; whose it is, is.

**DecisionContract** — the abstract specification: registries vote, a request is
allowed on a positive vote, denied when all have voted and none is positive,
and a decision is final.

**ParallelEval** — first match, all and best match.  A request's goroutine, the
goroutine per registry, the closer, the channel, the cancel and the breakers,
each step one action.  The three strategies are the same goroutine structure in
the code (three copies of it); they differ in whether `ReceiveMatch` exists and
in `Aggregate`, so `strategy` is a variable fixed by `Init`.

**SequentialEval** — the sequential loop, on the request's goroutine and under
the caller's context.  Panics are not recovered here and abort the request.  The
order is that of `Register` (`RegistrationOrder`), which `InOrder` filters.

**CompositeRegistry** — composites as a tree of constant shape whose operators
`Init` chooses; every child runs concurrently; leaves return, fail or panic.
A composite keeps nothing between evaluations, so one evaluation is modelled.
A node is one occurrence of a registry, so that a registry given to two composites
is two nodes; `Built` says when each was constructed, its children before it.

**TrustData** — the two freshness snapshots of `dispatch` around an evaluation,
over registries of the VICAL pattern (lookup, fetch, store in three critical
sections).  Signature and chain verification of a list is a choice of outcome.
`upstream` is the provider.

**PolicyPipeline** — `RegistryManager.evaluate` up to `dispatch`: validation,
sanitizing, stash, normalisation, policy selection, fail-closed, the checks of
the policy and the registries selected.  Identifiers are sequences of scheme
prefixes and a bare name, because normalisation strips and rewrites prefixes;
a context maps each key to the value's *origin* (client, policy, or absent).

**RateLimiter** — the limiter's two maps, the lock sections of a request, the
hourly cleanup.  `golang.org/x/time/rate` is external: a bucket that refills.

**WhitelistRegistry** — three goroutines over one lock: the file watcher
(`HandleEvent` reads the file without the lock, `Install` is the locked half of
`reloadConfig`), the refresh loop (`RefreshBegin`, one `FetchEntity` per listed
entry, `RefreshEnd` the swap) and evaluation, which holds the read lock from start
to end and is therefore a predicate on a state.  Entities are normalized
identifiers and entries their spellings, because `Refresh` fetches by spelling and
stores by entity.  The discovery protocol is folded into two kinds of endpoint, the
ones whose keys pass through the fetcher's cache and the one whose keys do not.
The operator's file, the watcher's events and the entities' servers are the
environment; a write in place is seen torn between its two halves.  `Refresh` has
a single caller, the loop: the manager's `Refresh` is called from tests only.

**LoTERegistry** — one goroutine refreshes, requests read.  `refresh`, `resolveLoTL`
and `resolvePointer` are a depth-first recursion; the model keeps its stack, one
frame per list of lists being followed with the pointers left, the depth and the
deadline inherited (`via`), and treats one item per step, because every fetch takes
time in which editions are published, lapse or become unreachable.  `Swap` is the
locked section at the end.  A request takes the time (`Begin`), tests under the
read lock (`Check`), drops lapsed lists under the lock (`expireStale`) and decides
under the read lock (`Decide`).  The decision itself is `Evaluate`, a predicate on
the index; it is built from the index operators of `buildIndex`.  Signatures, formats
and certificate chains are a choice: a fetch succeeds or not, and a request says which
listed key its certificates lead to.  A list without a date has the date `MaxTime`,
which never lapses.  `AllowStale` is off: with it no list ever lapses.

**TSLRegistry** — the ETSI registry, in the manner of LoTERegistry: the refresh loads a
source with its references (`FetchSource`), checks dates, verifies each list (`VerifyList`)
with the signers known so far, rolling over through pivots where they are followed, and
`Swap`s the result in.  A source in use is a tree: editions and the references between
them.  `expireStale` prunes lapsed lists, a request in four steps around it (`Begin`,
`Check`, `expireStale`, `Decide`).  The decision is `Evaluate`, over the pool of the
bundle's and the services' certificates, filtered by type and status.

**Base58** — the two conversions, `base58btcEncode` and `base58Decode`, digit by digit.
The encoder's buffer is as long as it needs to be; the code allocates it once, at 138 bytes
for 100 of input, more than log 256 / log 58 asks for.

**WebVHLog** — which DID logs `processDIDLog` accepts.  A hash is the term it was computed
from, a key stands for its own hash.

**DIDDocuments** — how the DID methods that hold their key decode it, the checks of policy
constraints, and the selection of a verification method by key or `kid`.  The type a
decoded key gives its method (three of them) is kept, because a role may require one.

**DIDRegistries** — did:webvh, did:web, did:key, did:jwk and did:jwks over hosts that
change what they serve.  The first four need at most one fetch and are predicates on a
state; did:jwks fetches up to three documents, an action each.

**OIDFedRegistry** — the shared cache of resolved chains (keys, time to live, eviction)
and the evaluation: cache read, resolution with a timeout after which the goroutine goes
on, store, verdict.  `ResolveToValidChains` is the library.  `cacheKey` is the tuple of
identifier, marks and types, where the code hashes them in a row, each mark after `|tm:`
and each type after `|et:`, unescaped: the two agree on identifiers that do not contain
these separators, as URLs do not (a bar in a URL is written `%7C`).

**EMRTDChain, EMRTDRegistry** — paths, path lengths and revocation as operators; and the
reload under its lock, by `New`, `Refresh` and the watch loop, with watches that follow
directories, a debounce, and a poll of the roots.  The operator edits the tree between
any two steps, or replaces it above the watched directories.

**MDS3Registry** — start from the cache file, refreshes without a common lock, the swap,
save by rename, crashes at every step.  A blob verifies until the certificate it is signed
by expires (`Lapse`), older ones first; what is in memory stays.

**CertificateLists** — what VICAL, RICAL and IACA decide from a list, whichever of the
listed certificates a chain leads to.

**Registries** — the five above side by side.  They share no state; `Init` picks the
one a behaviour is about (`method`), so that a state graph is the sum of theirs.

**Selection** — the loops that copy what passes a test from a slice, as a recursive
function.

**BreakerCallersProofs** (breakers and the sequential loop), **RequestPathProofs**
(pipeline, limiter and composites), **ParallelEvalProofs, TrustDataProofs,
WhitelistRegistryProofs, LoTERegistryProofs, TSLRegistryProofs, RegistriesProofs** —
theorems, section 5.  **MC...** — constants for TLC.  The state machines that share a
proof module put their own name before `Init`, `Next`, `Spec` and `TypeOK`
(`SequentialSpec`, `LimiterSpec`, `CompositeSpec`).

Definitions preceded by a `\*` comment directly before the definition they vary
are seeded faults: they are used in no specification, and serve to show that a
property notices that fault (`mutants` in `PROJECT.json`).  `TypeOK` of
a module states what its variables hold and is in no run; those of the modules with
proofs are theorems.

## 3. What the runs check

| Run | Bounds | Shows |
|---|---|---|
| `breaker` | 2 callers, threshold 2, timeout 1, failures up to 4 | the circuit is open exactly on a failure streak and state and count agree; a caller probes a dead registry once per timeout; recovery |
| `parallel` | each of 3 strategies, 3 registries of which 2 share a name, 1 request, threshold 1 | verdicts are backed by votes, allows and complete denials; the deny code, the identifiers outside first match and the admin detail of `all` do not depend on arrival; best match names the registry whose allow arrived first, first match one that allowed, and both show the details of that one, also when a namesake allowed too; no blocked send, no send on a closed channel, no leaked goroutine; the implementation refines `DecisionContract`, an answer in the end included |
| `sequential` | 2 requests, 2 registries, shared breakers | preference order; the same contract as the parallel strategies, complete denials and an end included |
| `composite` | a root over a leaf, a composite of 2 leaves and an empty composite; every operator and every threshold from 0 to one above the number of children | the decision is the boolean formula, failures withhold and are flagged, identifiers pass only through composites that allow; the root returns |
| `trust_data` | 2 requests, 2 lists below one composite, TTL 2, clock 0..3, 2 versions | reported list = used list; a denial reported as fresh is final |
| `policy_pipeline` | 2 policies, 2 registries, 2 request objects, evaluated once or again | controls are the policy's; the original identity is kept; constraints enforced |
| `rate_limiter` | 3 requests of one client, burst 1, rate 1 | bucket and time together, so that the cleanup reaches every bucket; the burst bound under racing creation |
| `lote` | a configured list, 2 lists of lists that point to each other and to a list each, one of them unreachable at times; 2 locations publish a second edition; clock 0..2; a role for 2 types, CA path closed without a role | no lapsed list decides; nothing configured or pointed to is lost, though it failed on one path; expiry grants nothing; updates arrive |
| `whitelist` | an entity under 2 spellings with different endpoints, one matched by a wildcard only; 2 key versions; 2 configurations (legacy lists; explicit mapping, wildcard, system CA) | withdrawn keys are refused after the refresh that saw the rotation; the file's last state is what requests are judged by; a reachable entity's current keys, and only those, are accepted |
| `etsi` | a list of lists and 3 lists in a diamond closed to a cycle, a bundle with a CA; a signer that rolls over through 2 pivots, one of them unreachable at times, and a stray pivot of a stranger; 2 lists publish a second edition; clock 0..2 | approvals rest on current lists; live lists survive the lapse of others; only lists of trusted signers are loaded; updates arrive, a rollover included |
| `registries` | did:webvh logs up to 3 entries over 2 keys; 2 did:jwks callers, 2 URIs; a federation cache of 2 entries, 2 callers, clock 0..2; 2 MDS3 blobs after the first; 3 edits of a directory tree; offers for a VICAL, a RICAL and an issuer | histories agree and belong to the holder; approved keys were published, and the documents they come from meet the domains, method types and services of the role; base58 inverts; requirements hold through the cache and the cache is bounded in size and time; an MDS3 start fails after a blob was saved only if that blob has expired; the eMRTD snapshot never goes back, and the disk comes into use; signers are vouched for; listed anchors decide |

The bounds are enough for the interesting case in each instance: two callers
overlap inside one call; a first match arrives with two siblings in each of
their states; three registries give an admin detail a namesake; two requests
open and test the same circuit; an even and an odd number of children, a quorum
out of reach, and a failed child two levels below the root; a list that expires
between lookup and the second snapshot, is cleared and refilled meanwhile; an
object evaluated again after the policy installed its controls; three requests
that all miss the map; a rotation and a reload in the middle of a refresh whose
two spellings of one entity fail separately; a cycle of lists of lists entered at
either end, one of which fails on the first path and loads on the second, and a list
that lapses between two steps of the refresh, or of the request; a fork and a rollback
of a log; a host that changes between the fetches of one resolution; a crash between
write and rename; an edit between the two halves of a reload, and one that raises no
event.  `FailureBound` caps the failure counter (the guards
name it); `MaxTime`, `MaxVersion` and `MaxWarned` likewise.  In `parallel` the
breakers, shared between requests, are exercised by one request: two registries
share a breaker through their name.  Two requests are covered by `sequential`,
by `breaker`, and by the proofs for any number.

Deadlock is checked in `breaker`, `rate_limiter`, `policy_pipeline`, `whitelist`, `lote`,
`etsi` and `registries`.
The
other instances stop when the requests of the instance are answered or the
clock reaches its bound, and say so in their `.cfg`.

### Disagreements between the code and what it says of itself

One is a run that TLC refutes, with the line quoted in `findings`.

* `whitelist_outage`: an entity whose metadata used to lead to a URL and now carries
  the keys themselves leaves an old copy in the fetcher's cache.  In an outage of
  both, `Fetch` returns that copy without an error, and `Refresh` installs it over
  the newer keys it promises to preserve.  `WithdrawnKeysAreRefused` is stated so
  that it holds all the same: only of refreshes in which every spelling answered.

Observed while modelling, without a run of its own:

* A first match cancels its siblings, and each sibling that reports the cancelled
  context is charged a failure (pkg/registry/strategies.go:597).  A registry that
  never fails of its own accord gets an open circuit, although the breaker is meant
  for one that "consistently fails" (pkg/registry/circuit_breaker.go:24).
* `getVical` fetches with no lock held and stores unconditionally
  (pkg/registry/vical/registry.go:281): a fetch begun before `Refresh` stores its older
  list after it, and the update `Refresh` is there to pick up (243-245) waits for a
  whole time to live.
* pkg/config/config.go:495 and docs/CONFIGURATION.md:79 let MaxChainDepth limit "trust
  chain resolution depth"; the limit filters the chains of a fresh resolution only
  (pkg/registry/oidfed/oidfed_registry.go:712-720) and is no part of the cache key, so
  that a longer chain cached for another request passes.
* In the same cache, an entry whose chain had expired when it was stored keeps the full
  time to live; writing a key that is there already evicts another one at the limit; and
  a resolution in flight during `Refresh` stores what it found afterwards.  In supplied
  chains an entity type the library does not know counts as a match.
* did:webvh: the proof of an entry is checked with the update keys merged from that same
  entry, so that without pre-rotation nothing but the hash chain ties it to earlier keys;
  only the hashes of the entry before it are enforced, and an entry that leaves them out
  ends that; only the first proof is looked at, witnesses are not; a prefix of a log, an
  older state, is accepted like the log.
* did:jwk and did:jwks do not consult `use` or verification relationships when they bind
  a key; did:jwks ignores required services and takes the fragment for a preference; a
  did:key of type Ed25519 is decoded without a look at the second byte of its codec.
* ETSI: with required signatures one list of an unknown signer fails the whole refresh,
  which leaves the lists loaded before in use until they lapse.
* FIDO MDS3: the first refresh of `New` is synchronous, although the comment on `CachePath`
  has it in the background; `Healthy` is true after it failed when the cache file was
  good; two refreshes at a time can put an older blob over a newer one, in memory or on
  disk, until the next.
* RICAL: trust constraints count as satisfied (a placeholder in the code).  VICAL: the
  document types are those of the first listed certificate presented, which need not be
  on the verified path.

* `evaluateSequentialFiltered` passes the caller's context on (pkg/registry/strategies.go:470)
  and never applies the manager's timeout, which pkg/registry/manager.go:34 documents as
  "Maximum time to wait for registry responses": a registry that waits for its context
  holds the request until the client leaves.
* With a depth limit, a list of lists reached first at the limit is marked visited with
  its own nested lists cut off, and is then skipped on a shorter path that could have
  followed them (pkg/registry/lote/registry.go:1213-1249).  `RefreshIsComplete` speaks of
  pointers only where there is no limit.
* A refresh that fetched a list before it lapsed may swap it in after a request looked at
  the time, so that this one request is decided by a lapsed list; `NoLapsedListUsed`
  says so (`swapped`).  A list of lists reached along two paths passes on the dates of
  the first path only, as the second is cut off as a cycle.
* Expiry can turn a denial into an approval outside `PlainRequests`: when the last list of a
  type that has not the standard prefix lapses, a role named after it is scoped no longer
  (pkg/registry/lote/registry.go:283), and when a subject is listed no more, the chain of
  its certificate or the national register may speak for it.
* When all trust status lists of the ETSI registry have lapsed, a request limited to
  service types is judged by the unfiltered certificate bundle, although the comment on
  `buildFilteredCertPool` promises "only certificates from TSL services matching those
  constraints are included" (pkg/registry/etsi/registry.go:817-823).
* No statement assigns `CircuitHalfOpen`: the half-open state that the comments in
  pkg/registry/circuit_breaker.go:25-26 and :64 describe is never entered, and an
  open circuit past its timeout admits every caller.  (`BreakerStateFollowsCount`
  proves as much.)
* Nothing recovers a panic in the goroutines of a composite
  (pkg/registry/composite.go:140-153), although
  docs/adr/0005-api-design.md:233 promises recovery; such a panic ends the process.
* `Healthy` of the whitelist is documented to drop whenever any refresh fails
  (pkg/registry/static/whitelist.go:1185-1187), but stays true while some keys were
  loaded (1286-1289), as the comment on `Refresh` says.
* A comment in `Refresh` takes the lists for never mutated after construction
  (1201-1203); `reloadConfig` and the runtime edits replace them.  The watcher
  replaces the whole map under the lock, so the snapshot is sound regardless.
* The manager's `Refresh` and `Unregister` have no caller in the service: a VICAL
  provider's update is picked up when its list's time to live ends, and `Refresh`
  in `trust_data` is a call of a program that embeds the registries.
* docs/MULTI-REGISTRY-STRATEGIES.md:221 gives children of composites breakers of
  their own; only registries known to the manager have one.
* The limiter's cleanup can drop a bucket a request still holds; the next
  request gets a full one, so more than `burst` may pass.  `WithinBurst` states
  the bound with exactly this exception (`strayed`).
* `evaluate` compares resource.id with subject.id and then normalises only
  subject.id; a comment in pkg/registry/emrtd/registry.go:297-298 takes them for
  equal at dispatch.
* The registries of this repository report failures as a denial with a nil
  error, so that in practice only panics, and registries that pass on a finished
  context, count as failures for a breaker.

## 4. Fairness

*Goroutines* that can run do run: weak fairness on the collector, the closer and
each worker's own steps — what the Go scheduler gives.  *Timeouts* expire: weak
fairness on `Timeout`, since the timer is the runtime's.  *Registries* are not
assumed to return: only to return once their context is done
(`WF(ctxDone /\ Return)`), because network calls carry the context.  Without the
timeout this gives no answer at all, which is why the contract's `EveryRequestEnds` and
`RootReturns` say something.  In a composite the assumption is on the leaf's
immediate parent.  The sequential run assumes more, that a call returns some
time, because the code has no timeout there.  *Breaker recovery* assumes that requests keep arriving, that calls
return and that time passes.  *The whitelist* assumes that the ticker fires, that a fetch
ends within its timeouts (one weak fairness condition on the refresh goroutine) and that the
watcher handles every event; nothing is assumed of operator and entities, except
that versions are bounded, so that each stops rotating some time.  *The list registry*
assumes the ticker and that a refresh gets on, each fetch ending within its timeout;
nothing of requests, publishers or outages: `UpdatesArrive` is conditional on an end to
the outages.  *The ETSI registry* assumes the same.  *eMRTD*: the watch loop's goroutine
runs, its timer and its poll fire, and a burst of events delays the timer no longer than
its deadline; the lock of a reload comes to the loop in the end (strong fairness), because
Go's mutex hands itself to a waiter that has waited for long.

## 5. What is proved

TLAPS proves, for any values of the constants that satisfy the named
assumptions (any number of registries, callers, requests and policies):

* `BreakerCallersProofs`: type correctness; the state follows the count
  (`BreakerStateFollowsCount`); a caller probes once per timeout
  (`ProbesAreBounded`); open exactly on a streak (`OpensOnConsecutiveFailures`).
  The last needs the strengthening that the counter is the length of the run of
  failures at the end of the history, as far as the history reaches;
  `BreakerTellsOneStory` puts it together with the first, as the run checks it.
  *The sequential loop*: type correctness, `PreferenceIsRespected` and
  `SequentialKeepsContract`, the refinement `SequentialSpec => Contract!Spec`.  `LoopInv`
  is what the loop keeps: its slice holds no registry twice, what it has collected are the
  registries it has passed, one result each and in their order, none of them an allow, and
  an answer that allows names the registry the loop stopped at.  So no vote is
  cast twice, a record is the vote of the current registry (`RecordVotes`), and a denial
  comes when all of the slice has been passed (`EndDecides`).  That the slice is the
  applicable registries, each once and in the order of registration, is `InOrderHolds`,
  about the filter loop; the assumption is that each registry is registered once.
* `ParallelEvalProofs`: type correctness and the three theorems
  `NoTrustWithoutAnAllow`, `NoDenialBeforeAllAnswered` and `SendersAreFree`.
  None is inductive.  `Inv` adds, per request: exactly the applicable registries
  have a goroutine, and its result is its own (`WorkerInv`); what is in the
  channel or collected is the result of a finished goroutine (`MailInv`); nothing
  sent is dropped while collecting (`CollectInv`); sent and finished are counted
  one to one (`CountInv`), which bounds the channel and gives a denial its count;
  a closed channel has no goroutine left (`ClosedInv`).  A step of one request
  leaves the others alone (`Same`, `FrameStep`); there is one lemma per action.
  The assumption that `Registries` is finite is Go's: they are a slice.
  `VerdictsAreBacked` joins the first two.  `ParallelKeepsContract` is the refinement:
  `Spec => Contract!Spec` under the mapping of `ParallelEval`.  A result that is set is a
  vote, a return is an allow or a denial backed by `AllowInv` and `DenyInv`, the start of
  a request is its receipt, and everything else, channel and breakers included, changes
  nothing the contract speaks of (`AbsFrame`, `Decides`, `CastsVote`).
  `DetailsFollowVotes` adds `EarlyInv`, that only a first match answers before every
  goroutine has ended, and `PromotionInv`, the property request by request.  The rest is
  about the promotion helpers.  The results collected are those of the registries
  applicable, each once, in some order (`OnceEach`); so one position votes for the outcome
  exactly if one registry does (`OnlyOneVotes`), and what is promoted from all of them is
  `OnlyDetail`, whatever the order (`PromotedFromAll`).  What is promoted by the name of the
  selected registry is the detail of the allow that selected it, not of a namesake's
  (`SelectedAdmin`), and the allow selected is the earliest.
* `RequestPathProofs`, *the pipeline*: type correctness; controls cannot be forged, with
  what a dispatched context holds as the lemma; and the identity is kept, which needs
  `RewriteInv` — an object that was rewritten cannot pass validation again unless
  normalisation left it alone.  `PolicyBindsDispatch` compares what reached a registry
  with the request as it was sent, so it needs that the
  steps before the dispatch keep action, type and key, and `ManagerInv`: a policy manager
  with a policy, or one that fails closed, is an installed one.
  *The limiter*: type correctness and `BurstsAreBounded`.  Neither half of the
  property is inductive; `Paid` adds that the tokens left in a client's present bucket
  and what was admitted in this time unit make up no more than the burst, and that a
  client without a bucket was admitted nothing, or its bucket was cleaned up.
  *Composites*: type correctness and `CompositeVerdictIsSafe`, for any tree, operators
  and thresholds.  `CompositeInv` says that nothing runs outside the tree below the
  root, that a composite not yet at work has idle children, and that one that returned has
  the answer `applyLogic` composes from its children, all returned.  The rest
  is about the tree.  The formula's value is the least of the valuations that agree with
  the operators, a composite being built after its children (`ValuesExist`,
  `VerdictIsValue`): a node where two valuations differ would have one built before it.
  What the code counts is what the operators mean (`CountsAreHolds`: the majority and
  the quorum in integers against sets of children), and they are monotone
  (`HoldsIsMonotone`), hence so is the formula.  An answer agrees with the formula
  (`KindIsValue`), an incomplete one has a failed leaf below it and the other way round
  (`IncompleteHasCause`, `FailureIsFlagged`), and identifiers come from leaves that allowed
  through composites that allowed (`IdsAreAllowed`), each by the first node built, or
  called, that breaks it.  The assumption on the tree is that of Go's constructor: it is
  given the children, finitely many and already built, and never changes them.
* `TrustDataProofs`: type correctness and both properties of the run.  The instant of a
  store identifies it (`TimeInv`): the list of the first snapshot is the cached one, or
  whatever was cached since is younger.  `CallInv` follows an evaluation: it goes to the
  network only when the list of the first snapshot is served no longer, and as long as
  that list is cached it is the one decided from.
* `WhitelistRegistryProofs`: type correctness, and `RotationIsFinal`.  `KeyInv` says
  where keys can come from: what a refresh has collected for an entity is no older
  than what it published when the refresh began, if all its spellings looked up so
  far answered; what is installed is no older than `asOf`; and nothing is newer than
  what is published.  Health and configuration play no part in it.

* `LoTERegistryProofs`: type correctness and the three safety properties of the run.
  `LapsedListsAreNotUsed` rests on `LapseInv`: a frame's inherited deadline is no later
  than the date of any list of lists below it on the stack (`StackInv`), hence a list's
  deadline no later than all its dates (`DateInv`); `nextExpiry` divides the lists
  indexed from those dropped (`IndexInv`), so that requests with clock readings out of
  order never bring a dropped list back; and what a request about to decide finds has
  not lapsed at its reading (`ReadInv`).  `NothingIsLost` rests on `CompleteInv`: whatever
  is configured or pointed to is got, skipped, or still left on the stack, and the
  configuration is the lowest frame, whose items are never skipped.
  `ExpiryOnlyTakesTrust` needs that `Evaluate` is monotone in the index for the requests
  it speaks of.  That a set of dates has a minimum comes from the library's
  well-foundedness of the naturals (`NatMinimum`), which takes the place of induction.
* `RegistriesProofs`: ten properties of the registries, as theorems of `Registries`.
  *MDS3*, `StartsOnceSaved`: `MDS3Inv` says that memory, file and the blob about to be
  written have been published, that a saved blob never leaves the disk (the rename
  replaces the file whole), and that a start which finds one has it in memory unless it
  has expired.
  The marks of a torn file and of no file must differ from each other and from blobs.
  *eMRTD*, `ReloadsGoForward`: one reload is under way at a time, and what it has read
  is no older than the snapshot it will replace (`ReloadInv`); without the lock the
  second half is lost.  `ApprovedSignersAreVouchedFor` holds of `evaluate` for any
  anchors and lists: on a path `buildPaths` finds, each certificate after the signer can
  issue and has issued the one before it, up to an anchor (`LinkPath`); so the keys that
  signed them are in every set that holds the anchors' keys and is closed under issuing,
  because the last one outside would be issued by a key inside.
  *Certificate lists*, `ApprovalsLeadToTheList`: the same argument along the chains
  `x509.Verify` returns (`CertPath`), and that what is cached was offered (`ListsInv`).
  *did:webvh*, `HistoriesAreFixed`: the hashes of accepted logs
  are chained (`LogInv`), an entry determines the one before it (`SamePredecessor`),
  and a first version that differs below a shared one would be a smallest
  counterexample (`SameHistory`).  `HoldersWriteTheLog`: an approval that stands is of the
  log that is served, which `processDIDLog` accepts and which is not deactivated
  (`HolderInv`); parameters as merged entry by entry carry the hashes of the entry before,
  and never take a deactivation back.
  *DID documents*, `ApprovalsStayGenuine`: `GenuineInv` says that what is served is well formed,
  that all that a running did:jwks evaluation may still fetch is among what its host has
  stood for since it began (`StoodFor`), and that an approval that stands has its subject
  and its key from the document it is about, which passed `checkPolicyConstraints` (`Bound`).
  That the check means what the property says of domains, label by label, is
  `MatchedIsInDomain`, and of the whole role `RoleIsKept`; `SentInv` says that what is
  answered, or being evaluated, is a request as it was sent.
  *Base58*, `EncodingsAreUnique` and, the other way about, `DecodingInvertsEncoding`: the
  invariant is `SentInv` again, the work is in `ConversionInverts`, for digit strings of any
  length.  A buffer stands for a number
  (`StandsFor`: what remains after each digit, down to 0); a turn of the outer loop turns a
  buffer for n into one for `from` * n + c (`MultiplyAddStands`), so `Convert` keeps the
  number its input reads as (`ConvertStands`); a number has one buffer without zeros at its
  end (`BuffersAreUnique`), so converting back gives the old one; and the zeros in front,
  which the number does not record, are what `LeadingZeros` puts back (`LayoutLeads`).
  The inductions are smallest counterexamples (`Smallest`, `StaysIn`), and `Recursion`
  shows that a function recursive over a finite prefix exists.
  *OpenID Federation*, `ConstraintsAreRespected` and `CacheStaysSound`: `FedInv` says
  of the cache that the chains under a key are of the types in that key, that no entry
  outlives its statements and that no key occurs twice; and of a resolution under way that
  what it brings suits the request it was begun for, however late it is stored.  Eviction and expiry are selections from the
  cache, and a selection keeps order and distinctness (`PickedIsChosen`, by a smallest
  prefix for which it fails).
  The assumptions: a request goes to a registry of its method, since the manager
  dispatches by resource type and each registry rejects other prefixes; a did:key is
  spelled in the base58 alphabet, as `base58Decode` refuses other characters
  (pkg/registry/did/resolver.go:728); keys, methods, list entries and the labels of a
  domain come in a row; chains are finitely many and dates are
  counted from an epoch; a request that presents no certificate is denied before a list
  is read (pkg/registry/vical/registry.go:167, pkg/registry/mdocrical/registry.go:197,
  pkg/registry/mdociaca/registry.go:213).
* `TSLRegistryProofs`: type correctness and the three safety properties of the run, for any
  graph of references.  `ShapeInv` says that a tree in use consists of published editions,
  that its references are those of its lists, and that every list in it is reached from its
  root: what is reached through current lists is the least set closed under
  current references (`ReachableIsClosed`, `ReachableIsLeast`), and pruning keeps exactly
  that.  `ReadInv`, for `ApprovalsRestOnCurrentLists`: in front of a request about to read,
  no list in use had lapsed when it began, unless a swap intervened; other requests only prune.
  `LiveInv`, for `ExpiryKeepsLiveLists`: of each source as loaded, what current lists lead
  to is in a tree still in use; as the set reached shrinks with time
  (`ReachableShrinks`), prunings by clock readings out of order take nothing from it.
  `SignedInv`, for `ListsAreSignedByTrusted`: the signers of a refresh are trusted, and
  what it has verified is signed by them; along the pivots this holds of every prefix of
  the chain (`PivotsAreTrusted`).

Only model-checked: everything about liveness (`NoGoroutineLeak`, the contract's
`EveryRequestEnds`, `RootReturns`, `Recovers`, `UpdatesArrive`, `ConfigFollowsFile`,
`RotationIsNoticed`, `DiskIsLoaded`), since fairness and `ENABLED` are out of the prover's
reach.  Every invariant and every action property of the passing runs is a theorem, and so are
the steps of `ImplementsContract`.
The provers have induction over data only where it can be put as a smallest counterexample
among the naturals (`Smallest`, `NatMinimum`, `Recursion`).

## 6. Not modelled

Cryptography, CBOR, JSON, XML and JWT parsing are choices of outcome; X.509 validation
is one where no property depends on the path a chain takes (eMRTD and the mdoc lists
model the path).  Logging, metrics, response wording and Swagger are left out.
The unfiltered copies of the strategies in `strategies.go` are reached from tests
only.  The client library, the test server and the developer tools hold no state
of the service.  Relying party certificates are parsed and checked against a profile,
request by request, from one certificate to one list of attributes.  Reading and
defaulting the configuration happens once, before anything interleaves.

## 7. What could follow

1. An abstract register of dated lists that `LoTERegistry` and `TSLRegistry` implement.
2. Startup: which registries are built from which configuration, and readiness.
3. Relying party certificates: the revocation cache and the entitlement checks.

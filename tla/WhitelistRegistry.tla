-------------------------- MODULE WhitelistRegistry --------------------------
(***************************************************************************)
(* The whitelist registry of pkg/registry/static/whitelist.go.  Three      *)
(* goroutines share it: the watcher reloads the configuration when the     *)
(* file changes, the refresh loop fetches the keys of every listed entity  *)
(* and swaps them in, and requests are evaluated.  Files are read and keys *)
(* are fetched with no lock held; every assignment and every evaluation    *)
(* holds the lock, so an evaluation is a predicate on one state.           *)
(*                                                                         *)
(* Entities are normalized identifiers, entries their spellings in the     *)
(* lists.  What an entity publishes at any moment is a version of its      *)
(* JWKS.  Its metadata may carry the keys ("inline"), which are used as    *)
(* they come, or lead to a URL ("url"), read through the retrying fetcher  *)
(* of pkg/resilience, which falls back on what the URL returned last.      *)
(***************************************************************************)
EXTENDS Naturals

CONSTANTS Entities,
          Entries,      \* what a list may hold: spellings of entities, wildcards
          Wildcards,    \* entries ending in "*", which name no entity
          Covers,       \* Covers[e]: the entities entry e matches
          Endpoints,    \* Endpoints[e]: where the keys of e can be had, {} without https
          Roles,        \* the action names of requests
          FileConfigs,  \* the configurations an operator may write to the file
          Keys,
          KeysOf,       \* KeysOf[v]: the keys in version v of a JWKS
          MaxVersion,   \* bound on versions, for model checking
          Torn,         \* a file that is being written and does not parse
          None

Versions == 0 .. MaxVersion

(* cfg.lists and cfg.actions are the explicit lists and the actions mapped *)
(* to them, the other sets the legacy lists.                               *)
ASSUME WhitelistAssumption ==
    /\ MaxVersion \in Nat
    /\ Wildcards \subseteq Entries
    /\ Covers \in [Entries -> SUBSET Entities]
    /\ \A e \in Entries \ Wildcards : \E n \in Entities : Covers[e] = {n}
    /\ Endpoints \in [Entries -> SUBSET {"inline", "url"}]
    /\ KeysOf \in [Versions -> SUBSET Keys]
    /\ None \notin {Torn} \cup FileConfigs
    /\ \A ks \in SUBSET Keys : ks # None
    /\ Torn \notin FileConfigs

VARIABLES
    file,       \* the content of the configuration file
    events,     \* operations on it the watcher has not handled
    loaded,     \* the configuration the watcher has read and not installed, or None
    config,     \* the installed configuration
    published,  \* published[n]: version of the JWKS entity n publishes
    up,         \* up[e]: the endpoints that answer at present
    cache,      \* cache[e]: keys the fetcher has from the URL of e, or None
    keyHashes,  \* keyHashes[n]: keys accepted for n, {} when there is no entry
    keysLoaded, \* what Healthy reports
    phase,      \* of the refresh loop: "idle" or "fetching"
    status,     \* status[e]: state of entry e in this refresh
    newHashes,  \* keys collected by this refresh
    began,      \* history: what was published when this refresh began
    asOf        \* history: of the last refresh, if n answered it in full

fileVars    == <<file, events, loaded, config>>
worldVars   == <<published, up>>
installed   == <<keyHashes, keysLoaded, asOf>>
refreshVars == <<cache, phase, status, newHashes, began>>
vars        == <<fileVars, worldVars, installed, refreshVars>>

NormOf(e) == CHOOSE n \in Entities : Covers[e] = {n}

(* The entities that have an endpoint.                                     *)
Publishers == {NormOf(e) : e \in {d \in Entries \ Wildcards : Endpoints[d] # {}}}

Statuses == {"out", "todo", "fresh", "stale", "failed"}

TypeOK ==
    /\ file \in FileConfigs \cup {Torn}
    /\ events \subseteq {"write", "create"}
    /\ loaded \in FileConfigs \cup {None}
    /\ config \in FileConfigs
    /\ published \in [Entities -> Versions]
    /\ up \in [Entries -> SUBSET {"inline", "url"}]
    /\ cache \in [Entries -> {None} \cup SUBSET Keys]
    /\ keyHashes \in [Entities -> SUBSET Keys]
    /\ keysLoaded \in BOOLEAN
    /\ phase \in {"idle", "fetching"}
    /\ status \in [Entries -> Statuses]
    /\ newHashes \in [Entities -> SUBSET Keys]
    /\ began \in [Entities -> Versions]
    /\ asOf \in [Entities -> Versions]

Init ==
    /\ file \in FileConfigs
    /\ events = {}
    /\ loaded = None
    /\ config = file
    /\ published = [n \in Entities |-> 0]
    /\ up = Endpoints
    /\ cache = [e \in Entries |-> None]
    /\ keyHashes = [n \in Entities |-> {}]
    /\ keysLoaded = FALSE
    /\ phase = "idle"
    /\ status = [e \in Entries |-> "out"]
    /\ newHashes = [n \in Entities |-> {}]
    /\ began = [n \in Entities |-> 0]
    /\ asOf = [n \in Entities |-> 0]

-----------------------------------------------------------------------------
(* resolveConfig: the legacy lists join the explicit ones of their name,   *)
(* and bring action mappings for the actions that have none.               *)

At(f, x) == IF x \in DOMAIN f THEN f[x] ELSE {}

Legacy(cfg) == [issuers |-> cfg.issuers, verifiers |-> cfg.verifiers,
                trusted_subjects |-> cfg.trusted]

resolvedLists(cfg) ==
    [l \in DOMAIN cfg.lists \cup DOMAIN Legacy(cfg) |-> At(cfg.lists, l) \cup At(Legacy(cfg), l)]

DefaultActions ==
    [issuers   |-> {"issuer", "credential-issuer", "pid-provider", "issue"},
     verifiers |-> {"verifier", "credential-verifier", "verify"}]

(* The lists an action is judged by: the one it is mapped to and, failing  *)
(* that, trusted_subjects.                                                 *)
resolvedActions(cfg, role) ==
    IF role \in DOMAIN cfg.actions
    THEN {cfg.actions[role]}
    ELSE {l \in DOMAIN DefaultActions : role \in DefaultActions[l] /\ Legacy(cfg)[l] # {}}

matchesList(n, entries) == \E e \in entries : n \in Covers[e]

InWhitelist(cfg, role, n) ==
    \E l \in resolvedActions(cfg, role) \cup {"trusted_subjects"} :
        matchesList(n, At(resolvedLists(cfg), l))

(* What a request presents for its subject: no key, a bare key, or a       *)
(* certificate.  "http" says that the subject was named by an http URL;    *)
(* "cert" what a certificate is worth: bound to the name it is presented   *)
(* for and chained to a system root, or the very one pinned by x509_hash.  *)
Jwk(k) == [kind |-> "jwk", key |-> k, http |-> TRUE, cert |-> "none"]

evaluateViaSystemCA(p) ==
    config.systemCA /\ p.kind = "x5c" /\ ~p.http /\ p.cert \in {"chained", "pinned"}

Evaluate(role, n, p) ==
    /\ InWhitelist(config, role, n)
    /\ \/ p.kind = "none"
       \/ p.kind # "none" /\ p.key \in keyHashes[n]
       \/ p.kind # "none" /\ keyHashes[n] = {} /\ evaluateViaSystemCA(p)

-----------------------------------------------------------------------------
(* Environment: an operator writes the file in place, in two steps, or     *)
(* renames a new one over it.                                              *)
WriteBegin ==
    /\ file # Torn
    /\ file' = Torn
    /\ events' = events \cup {"write"}
    /\ UNCHANGED <<loaded, config, worldVars, installed, refreshVars>>

WriteEnd(cfg) ==
    /\ file = Torn
    /\ file' = cfg
    /\ events' = events \cup {"write"}
    /\ UNCHANGED <<loaded, config, worldVars, installed, refreshVars>>

Rename(cfg) ==
    /\ file # cfg
    /\ file' = cfg
    /\ events' = events \cup {"create"}
    /\ UNCHANGED <<loaded, config, worldVars, installed, refreshVars>>

Load == IF file = Torn THEN None ELSE file

Take(op, cfg) ==
    /\ loaded = None
    /\ op \in events
    /\ events' = events \ {op}
    /\ loaded' = cfg
    /\ UNCHANGED <<file, config, worldVars, installed, refreshVars>>

\* The watcher forgets that editors replace files by a rename.
HandleWriteOnly(op) == op = "write" /\ Take(op, Load)

(* watchLoop, first half: an event is taken and the file is read.  One     *)
(* that does not parse changes nothing.                                    *)
HandleEvent(op) == Take(op, Load)

(* reloadConfig, second half: the lock, the assignment, resolveConfig.     *)
Install ==
    /\ loaded # None
    /\ config' = loaded
    /\ loaded' = None
    /\ UNCHANGED <<file, events, worldVars, installed, refreshVars>>

-----------------------------------------------------------------------------
(* The entries whose keys are fetched: all of every list, save wildcards.  *)
Listed(cfg) == {e \in Entries \ Wildcards :
                  \E l \in DOMAIN resolvedLists(cfg) : e \in resolvedLists(cfg)[l]}

(* The ticker fires (or startup): lists are snapshotted.  keyHashes is     *)
(* snapshotted too, but only this goroutine ever replaces it.              *)
RefreshBegin ==
    /\ phase = "idle"
    /\ phase' = "fetching"
    /\ status' = [e \in Entries |-> IF e \in Listed(config) THEN "todo" ELSE "out"]
    /\ newHashes' = [n \in Entities |-> {}]
    /\ began' = published
    /\ UNCHANGED <<cache, fileVars, worldVars, installed>>

\* The fetcher's cache is taken for an answer, not for a fallback.
AnswerCacheFirst(e) ==
    IF cache[e] # None      THEN [status |-> "fresh", keys |-> cache[e]]
    ELSE IF up[e] # {}      THEN [status |-> "fresh", keys |-> KeysOf[published[NormOf(e)]]]
                            ELSE [status |-> "failed", keys |-> {}]

(* fetchEntityKeys: inline metadata, else the URL through the fetcher,     *)
(* which after its retries falls back on what it has.                      *)
Answer(e) ==
    IF up[e] # {}           THEN [status |-> "fresh", keys |-> KeysOf[published[NormOf(e)]]]
    ELSE IF cache[e] # None THEN [status |-> "stale", keys |-> cache[e]]
                            ELSE [status |-> "failed", keys |-> {}]

\* Keys of the previous refresh are kept beside the ones fetched.
CollectedMerged(e, a) == a.keys \cup keyHashes[NormOf(e)]

(* The keys entry e contributes: those of a failed fetch are the old ones, *)
(* and an answer without keys contributes nothing.                         *)
Collected(e, a) ==
    IF a.status = "failed" /\ keyHashes[NormOf(e)] # {} THEN keyHashes[NormOf(e)]
    ELSE IF a.keys = {} THEN newHashes[NormOf(e)] ELSE a.keys

FetchEntity(e) ==
    /\ phase = "fetching" /\ status[e] = "todo"
    /\ status' = [status EXCEPT ![e] = Answer(e).status]
    /\ newHashes' = [newHashes EXCEPT ![NormOf(e)] = Collected(e, Answer(e))]
    /\ cache' = IF up[e] = {"url"} THEN [cache EXCEPT ![e] = Answer(e).keys] ELSE cache
    /\ UNCHANGED <<phase, began, fileVars, worldVars, installed>>

(* Did every spelling of n that this refresh looked up answer?             *)
InFull(n) == \A e \in Entries \ Wildcards :
                NormOf(e) = n => status[e] \in {"out", "fresh"}

RefreshEnd ==
    /\ phase = "fetching"
    /\ \A e \in Entries : status[e] # "todo"
    /\ keyHashes' = newHashes
    /\ keysLoaded' = \/ \A e \in Entries : status[e] # "failed"
                     \/ \E n \in Entities : newHashes[n] # {}
    /\ asOf' = [n \in Entities |-> IF InFull(n) THEN began[n] ELSE 0]
    /\ phase' = "idle"
    /\ status' = [e \in Entries |-> "out"]
    /\ newHashes' = [n \in Entities |-> {}]
    /\ began' = [n \in Entities |-> 0]
    /\ UNCHANGED <<cache, fileVars, worldVars>>

-----------------------------------------------------------------------------
(* Environment: an entity rotates its keys; its endpoints come and go.     *)
Rotate(n) ==
    /\ published[n] < MaxVersion
    /\ published' = [published EXCEPT ![n] = @ + 1]
    /\ UNCHANGED <<up, fileVars, installed, refreshVars>>

Toggle(e, p) ==
    /\ p \in Endpoints[e]
    /\ up' = [up EXCEPT ![e] = IF p \in @ THEN @ \ {p} ELSE @ \cup {p}]
    /\ UNCHANGED <<published, fileVars, installed, refreshVars>>

Watcher == Install \/ \E op \in {"write", "create"} : HandleEvent(op)

Refresher == RefreshBegin \/ RefreshEnd \/ \E e \in Entries : FetchEntity(e)

Next == \/ Watcher
        \/ Refresher
        \/ WriteBegin
        \/ \E cfg \in FileConfigs : WriteEnd(cfg) \/ Rename(cfg)
        \/ \E n \in Publishers : Rotate(n)
        \/ \E e \in Entries, p \in {"inline", "url"} : Toggle(e, p)

Spec == Init /\ [][Next]_vars

(* The two goroutines run, the ticker fires, a fetch ends within its       *)
(* timeouts, and the watcher gets to every event.                          *)
FairSpec == /\ Spec
            /\ WF_vars(Refresher)
            /\ WF_vars(Install)
            /\ \A op \in {"write", "create"} : WF_vars(HandleEvent(op))

-----------------------------------------------------------------------------
(* Rotation is final: once a refresh in which an entity answered under     *)
(* every spelling is over, no key is accepted for it that it had withdrawn *)
(* before the refresh began, whatever is cached and however the fetches,   *)
(* reloads and rotations interleave.                                       *)
WithdrawnKeysAreRefused ==
    \A n \in Entities, role \in Roles, k \in Keys :
        Evaluate(role, n, Jwk(k)) => \E v \in asOf[n] .. published[n] : k \in KeysOf[v]

(* Every edit takes effect: if the file comes to rest in a state that      *)
(* parses, that is the configuration requests are judged by from then on,  *)
(* also when it was written while an earlier version was being loaded.     *)
ConfigFollowsFile ==
    \A cfg \in FileConfigs : <>[](file = cfg) => <>[](config = cfg)

(* The entity is spelled out in some list and answers under each spelling  *)
(* that is listed, or being looked up because it was.                      *)
Reachable(n) ==
    /\ \E e \in Listed(config) : NormOf(e) = n
    /\ \A e \in Entries \ Wildcards :
          NormOf(e) = n /\ (e \in Listed(config) \/ status[e] = "todo") => up[e] # {}

(* Versions are bounded, so an entity stops rotating some time: if it can  *)
(* be reached from then on, exactly the keys it publishes are accepted for *)
(* every role it is listed for, and the registry reports itself healthy    *)
(* unless there are no keys.                                               *)
RotationIsNoticed ==
    \A n \in Publishers :
        <>[]Reachable(n) =>
            <>[](/\ \A role \in Roles, k \in Keys :
                      InWhitelist(config, role, n) =>
                          (Evaluate(role, n, Jwk(k)) <=> k \in KeysOf[published[n]])
                 /\ KeysOf[published[n]] # {} => keysLoaded)

(* What the comment on Refresh says of a refresh that does not reach an    *)
(* entity: the keys cached for it are preserved.                           *)
OutagePreservesKeys ==
    [][\A n \in Entities :
          (/\ phase = "fetching" /\ phase' = "idle"
           /\ \E e \in Entries \ Wildcards : NormOf(e) = n /\ status[e] # "out"
           /\ \A e \in Entries \ Wildcards :
                 NormOf(e) = n => status[e] \in {"out", "stale", "failed"})
              => keyHashes'[n] = keyHashes[n]]_vars
=============================================================================

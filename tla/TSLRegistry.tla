----------------------------- MODULE TSLRegistry -----------------------------
(***************************************************************************)
(* The registry of ETSI trusted lists (pkg/registry/etsi).  A refresh      *)
(* loads the configured sources one after the other, with the lists they   *)
(* refer to, verifies who signed them, and swaps the result in under the   *)
(* lock.  A list that lapses is dropped on use, together with all lists    *)
(* that only it vouched for.  Signers roll over by pivots: old editions    *)
(* that name, under a signature that is trusted, the signers that follow.  *)
(*                                                                         *)
(* What a location serves is an edition: a revision with the time of its   *)
(* next update; MaxTime stands for no date and never lapses.  Documents    *)
(* may name their references in any order.                                 *)
(***************************************************************************)
EXTENDS Integers, Sequences, FiniteSets

CONSTANTS Locations,
          Sources,        \* configured files and URLs, in order
          Following,      \* the sources whose references are followed
          Refs,           \* Refs[l]: the locations that list l refers to
          MaxRefDepth,
          Certificates,   \* of CAs
          Bundle,         \* those in the configured PEM file
          Services,       \* Services[l][v]: the services in revision v of l
          Keys,           \* of signers
          LOTLSigners,    \* those in the configured bundle
          SignerOf,       \* SignerOf[l][v]: who signed revision v of l, or None
          RequireSignature,
          FollowPivots,   \* pivots are followed, and network access is allowed
          Pivots,
          PivotURLs,      \* PivotURLs[l][v]: those named by revision v, oldest first
          PivotSigner,
          PointerSigners, \* PointerSigners[p][l]: who pivot p names for l
          Statuses,       \* of services; the default filter is for "granted"
          ServiceTypes,
          None, Files,    \* Files: the two PEM files
          Requests,
          Failing,        \* what cannot be read at times
          FirstDates,     \* bounds, for model checking: the dates of the first
          LastRevision,   \* edition of each location, the number of further
          MaxTime         \* editions, and the time

Time      == 0 .. MaxTime
Revisions(l) == 0 .. LastRevision[l]
Service   == [type : ServiceTypes, status : Statuses, cert : Certificates]

ASSUME TSLAssumption ==
    /\ MaxTime \in Nat /\ LastRevision \in [Locations -> Nat]
    /\ FirstDates \in [Locations -> SUBSET Time] /\ MaxRefDepth \in Nat \ {0}
    /\ Sources \in Seq(Locations) /\ Following \subseteq Locations
    /\ Refs \in [Locations -> SUBSET Locations]
    /\ Bundle \subseteq Certificates /\ LOTLSigners \subseteq Keys
    /\ None \notin Keys \cup Locations
    /\ \A l \in Locations : /\ Services[l] \in [Revisions(l) -> SUBSET Service]
                             /\ SignerOf[l] \in [Revisions(l) -> Keys \cup {None}]
                             /\ PivotURLs[l] \in [Revisions(l) -> Seq(Pivots)]
    /\ PivotSigner \in [Pivots -> Keys \cup {None}]
    /\ PointerSigners \in [Pivots -> [Locations -> SUBSET Keys]]
    /\ RequireSignature \in BOOLEAN /\ FollowPivots \in BOOLEAN
    /\ Failing \subseteq Locations \cup Pivots \cup {Files}

VARIABLES
    now,
    edition,    \* edition[l]: what location l serves
    down,       \* what cannot be read
    phase,      \* of the refresh: idle, loading a source, checking its dates,
                \* verifying its lists
    todo,       \* sources left to load
    tree,       \* the source being loaded, with its references
    unverified, \* lists of it that are not verified yet
    signers,    \* who this refresh trusts to sign lists
    trees,      \* the sources this refresh has loaded
    roots,      \* the sources in use
    loaded,     \* history: the sources swapped in last
    healthy, ready,
    pc, seen,   \* seen[q]: the time request q took in expireStale
    swapped     \* history: a refresh has ended since q began

world   == <<now, edition, down>>
refresh == <<phase, todo, tree, unverified, signers, trees>>
state   == <<roots, loaded, healthy, ready>>
request == <<pc, seen, swapped>>
vars    == <<world, refresh, state, request>>

Editions == UNION {[revision : Revisions(l), next : Time] : l \in Locations}

(* A source and the lists found through it: the edition of each, and which *)
(* of them refers to which.                                                *)
Trees == [root : Locations, lists : UNION {[S -> Editions] : S \in SUBSET Locations},
          refs : SUBSET (Locations \X Locations)]

NoTree == [root |-> None, lists |-> <<>>, refs |-> {}]

TypeOK ==
    /\ now \in Time
    /\ edition \in [Locations -> Editions]
    /\ down \subseteq Failing
    /\ phase \in {"idle", "load", "check", "verify"}
    /\ todo \in Seq(Locations)
    /\ tree \in Trees \cup {NoTree}
    /\ unverified \subseteq Locations
    /\ signers \subseteq Keys
    /\ trees \subseteq Trees /\ roots \subseteq Trees /\ loaded \subseteq Trees
    /\ healthy \in BOOLEAN /\ ready \in BOOLEAN
    /\ pc \in [Requests -> {"idle", "check", "due", "read"}]
    /\ seen \in [Requests -> Time]
    /\ swapped \in [Requests -> BOOLEAN]

Init ==
    /\ now = 0
    /\ edition \in {e \in [Locations -> [revision : {0}, next : Time]] :
                      \A l \in Locations : e[l].next \in FirstDates[l]}
    /\ down = {}
    /\ phase = "load" /\ todo = Sources /\ tree = NoTree /\ unverified = {}
    /\ signers = LOTLSigners /\ trees = {}
    /\ roots = {} /\ loaded = {} /\ healthy = FALSE /\ ready = FALSE
    /\ pc = [q \in Requests |-> "idle"]
    /\ seen = [q \in Requests |-> 0]
    /\ swapped = [q \in Requests |-> FALSE]

-----------------------------------------------------------------------------
(* Which lists count.                                                      *)

Nodes(T) == DOMAIN T.lists

current(e, t) == t <= e.next

(* The root and the lists found from it through lists that are current.    *)
reachable(T, t) ==
    {l \in Nodes(T) :
        \A S \in SUBSET Nodes(T) :
            /\ current(T.lists[T.root], t) => T.root \in S
            /\ \A p \in T.refs : p[1] \in S /\ current(T.lists[p[2]], t) => p[2] \in S
            => l \in S}

RestrictTo(T, S) == [T EXCEPT !.lists = [l \in S |-> T.lists[l]], !.refs = @ \cap (S \X S)]

\* Each list is visited once: of the references to it one is kept.
pruneVisitedOnce(T, t) ==
    LET S == reachable(T, t)
    IN  [RestrictTo(T, S) EXCEPT !.refs =
            {CHOOSE p \in T.refs \cap (S \X {l}) : TRUE : l \in S \ {T.root}}]

(* The copy that is left when lapsed lists are gone.  Every way that leads *)
(* to a list is kept, except round a cycle.                                *)
prune(T, t) == RestrictTo(T, reachable(T, t))

Dates(Ts) == UNION {{T.lists[l].next : l \in Nodes(T)} : T \in Ts}

(* The earliest date among the lists; MaxTime if there is none.            *)
earliestDeadline(Ts) ==
    CHOOSE t \in Time : /\ \A d \in Dates(Ts) : t <= d
                        /\ t = MaxTime \/ t \in Dates(Ts)

-----------------------------------------------------------------------------
(* What a decision rests on.                                               *)

extractCerts(T) == {s.cert : s \in UNION {Services[l][T.lists[l].revision] : l \in Nodes(T)}}

certPool(Ts) == Bundle \cup UNION {extractCerts(T) : T \in Ts}

(* A request may be limited to types and statuses of services; limited to  *)
(* types only, the service must be granted.                                *)
Limited(r) == r.types # {} \/ r.statuses # {}

Validate(s, r) ==
    /\ r.types = {} \/ s.type \in r.types
    /\ s.status \in IF r.statuses = {} THEN {"granted"} ELSE r.statuses

(* Limits only apply where there are lists.                                *)
buildFilteredCertPool(Ts, r) ==
    IF Ts = {} \/ ~Limited(r)
    THEN certPool(Ts)
    ELSE {s.cert : s \in {s \in UNION {UNION {Services[l][T.lists[l].revision] : l \in Nodes(T)} : T \in Ts} :
                          Validate(s, r)}}

(* r.issuer is the CA the certificates presented lead to, None if they     *)
(* lead nowhere or there are none; bound says that the leaf names the      *)
(* subject where the scheme asks for it, profiled that it has passed its   *)
(* profile.                                                                *)
Evaluate(Ts, r) ==
    /\ r.issuer \in buildFilteredCertPool(Ts, r)
    /\ r.bound /\ r.profiled

-----------------------------------------------------------------------------
(* Who may sign.  Pivots are walked oldest first; one that cannot be read, *)
(* or is not signed by someone trusted so far, is passed over.             *)

\* Whoever a pivot names is trusted, whoever signed it.
resolvePivotChainUnverified(l) ==
    LET urls == PivotURLs[l][tree.lists[l].revision]
        after[i \in 0 .. Len(urls)] ==
            IF i = 0 THEN signers
            ELSE IF urls[i] \notin down THEN after[i - 1] \cup PointerSigners[urls[i]][l]
                                        ELSE after[i - 1]
    IN  after[Len(urls)]

\* Newest first.
resolvePivotChainReversed(l) ==
    LET urls == PivotURLs[l][tree.lists[l].revision]
        n == Len(urls)
        after[i \in 0 .. n] ==
            IF i = 0 THEN signers
            ELSE IF urls[n + 1 - i] \notin down /\ PivotSigner[urls[n + 1 - i]] \in after[i - 1]
                 THEN after[i - 1] \cup PointerSigners[urls[n + 1 - i]][l]
                 ELSE after[i - 1]
    IN  after[n]

resolvePivotChain(l) ==
    LET urls == PivotURLs[l][tree.lists[l].revision]
        after[i \in 0 .. Len(urls)] ==
            IF i = 0 THEN signers
            ELSE LET S == after[i - 1]
                 IN  IF urls[i] \notin down /\ PivotSigner[urls[i]] \in S
                     THEN S \cup PointerSigners[urls[i]][l]
                     ELSE S
    IN  after[Len(urls)]

Signer(l) == SignerOf[l][tree.lists[l].revision]

RolledOver(l) ==
    /\ Signer(l) # None /\ Signer(l) \notin signers
    /\ FollowPivots /\ Signer(l) \in resolvePivotChain(l)

verifyTSLSignature(l) ==
    RequireSignature => Signer(l) \in signers \/ RolledOver(l)

-----------------------------------------------------------------------------
(* The refresh.  It starts from the configured signers each time.          *)
RefreshBegin ==
    /\ phase = "idle"
    /\ phase' = "load" /\ todo' = Sources /\ signers' = LOTLSigners /\ trees' = {}
    /\ UNCHANGED <<tree, unverified, world, state, request>>

(* What a refresh has at hand is gone when it ends.                        *)
Finish ==
    /\ phase' = "idle" /\ todo' = <<>> /\ tree' = NoTree /\ unverified' = {}
    /\ signers' = {} /\ trees' = {}

(* The library dereferences up to a depth and leaves out what it cannot    *)
(* fetch.                                                                  *)
Dereferenced(src) ==
    LET within[d \in 0 .. MaxRefDepth] ==
            IF d = 0 THEN {src}
            ELSE LET S == within[d - 1] IN S \cup (UNION {Refs[l] : l \in S} \ down)
    IN  IF src \in Following THEN within[MaxRefDepth] ELSE {src}

Fetched(src) ==
    LET S == Dereferenced(src)
    IN  [root  |-> src,
         lists |-> [l \in S |-> edition[l]],
         refs  |-> IF src \in Following THEN {p \in S \X S : p[2] \in Refs[p[1]]} ELSE {}]

(* The two PEM files are read before the first source.                     *)
Readable == Head(todo) \notin down /\ (todo = Sources => Files \notin down)

FetchSource ==
    /\ phase = "load" /\ todo # <<>> /\ Readable
    /\ tree' = Fetched(Head(todo))
    /\ todo' = Tail(todo)
    /\ phase' = "check"
    /\ UNCHANGED <<unverified, signers, trees, world, state, request>>

checkFresh(T) == current(T.lists[T.root], now)

(* A source must be current itself; of the rest, what current lists lead   *)
(* to is kept.                                                             *)
KeepCurrent ==
    /\ phase = "check" /\ checkFresh(tree)
    /\ tree' = prune(tree, now)
    /\ unverified' = reachable(tree, now)
    /\ phase' = "verify"
    /\ UNCHANGED <<todo, signers, trees, world, state, request>>

(* The root is verified first, and a list after one that refers to it.     *)
InTurn(l) ==
    /\ phase = "verify" /\ l \in unverified
    /\ l = tree.root \/ \E p \in tree.refs : p[2] = l /\ p[1] \notin unverified

VerifyList(l) ==
    /\ InTurn(l) /\ verifyTSLSignature(l)
    /\ signers' = IF RolledOver(l) THEN resolvePivotChain(l) ELSE signers
    /\ unverified' = unverified \ {l}
    /\ IF unverified' = {}
       THEN phase' = "load" /\ trees' = trees \cup {tree} /\ tree' = NoTree
       ELSE UNCHANGED <<phase, trees, tree>>
    /\ UNCHANGED <<todo, world, state, request>>

Swap ==
    /\ phase = "load" /\ todo = <<>> /\ certPool(trees) # {}
    /\ Finish
    /\ roots' = trees /\ loaded' = trees
    /\ healthy' = TRUE /\ ready' = TRUE
    /\ swapped' = [q \in Requests |-> pc[q] # "idle"]
    /\ UNCHANGED <<world, pc, seen>>

Failed ==
    \/ phase = "load" /\ todo # <<>> /\ ~Readable
    \/ phase = "load" /\ todo = <<>> /\ certPool(trees) = {}
    \/ phase = "check" /\ ~checkFresh(tree)
    \/ \E l \in unverified : InTurn(l) /\ ~verifyTSLSignature(l)

(* setError: one source, or one list that a source refers to, fails the    *)
(* refresh; what is in use stays in use.                                   *)
LoadFails ==
    /\ Failed /\ Finish
    /\ healthy' = FALSE
    /\ UNCHANGED <<roots, loaded, ready, world, request>>

-----------------------------------------------------------------------------
(* expireStale: the time is taken, and looked at under the read lock.      *)
Begin(q) ==
    /\ ready /\ pc[q] = "idle"
    /\ seen' = [seen EXCEPT ![q] = now]
    /\ pc' = [pc EXCEPT ![q] = "check"]
    /\ UNCHANGED <<swapped, world, refresh, state>>

Due(q) == seen[q] > earliestDeadline(roots)

Check(q) ==
    /\ pc[q] = "check"
    /\ pc' = [pc EXCEPT ![q] = IF Due(q) THEN "due" ELSE "read"]
    /\ UNCHANGED <<seen, swapped, world, refresh, state>>

\* A list is dropped by its own date alone.
expireStaleOwnDate(q) ==
    /\ pc[q] = "due"
    /\ roots' = IF Due(q)
                THEN {RestrictTo(T, {l \in Nodes(T) : current(T.lists[l], now)}) :
                        T \in {T \in roots : current(T.lists[T.root], now)}}
                ELSE roots
    /\ pc' = [pc EXCEPT ![q] = "read"]
    /\ UNCHANGED <<loaded, healthy, ready, seen, swapped, world, refresh>>

(* Under the lock, and again only if something is due; but what goes is    *)
(* what has lapsed by then.                                                *)
expireStale(q) ==
    /\ pc[q] = "due"
    /\ roots' = IF Due(q)
                THEN {prune(T, now) : T \in {T \in roots : reachable(T, now) # {}}}
                ELSE roots
    /\ pc' = [pc EXCEPT ![q] = "read"]
    /\ UNCHANGED <<loaded, healthy, ready, seen, swapped, world, refresh>>

(* Under the read lock: the decision, Evaluate of the sources in use.      *)
Decide(q) ==
    /\ pc[q] = "read"
    /\ pc' = [pc EXCEPT ![q] = "idle"]
    /\ seen' = [seen EXCEPT ![q] = 0]
    /\ swapped' = [swapped EXCEPT ![q] = FALSE]
    /\ UNCHANGED <<world, refresh, state>>

-----------------------------------------------------------------------------
(* Environment: time, new editions, outages.                               *)
Tick ==
    /\ now < MaxTime
    /\ now' = now + 1
    /\ UNCHANGED <<edition, down, refresh, state, request>>

(* An edition is published with a date that is still to come, or none.     *)
Publish(l, next) ==
    /\ next > now \/ next = MaxTime
    /\ edition[l].revision < LastRevision[l]
    /\ edition' = [edition EXCEPT ![l] = [revision |-> @.revision + 1, next |-> next]]
    /\ UNCHANGED <<now, down, refresh, state, request>>

(* One outage at a time.                                                   *)
Toggle(f) ==
    /\ down \subseteq {f}
    /\ down' = IF f \in down THEN {} ELSE {f}
    /\ UNCHANGED <<now, edition, refresh, state, request>>

Loading == \/ FetchSource \/ KeepCurrent
           \/ \E l \in unverified : VerifyList(l)
           \/ Swap \/ LoadFails

Serve(q) == Begin(q) \/ Check(q) \/ expireStale(q) \/ Decide(q)

Next == \/ RefreshBegin
        \/ Loading
        \/ \E q \in Requests : Serve(q)
        \/ Tick
        \/ \E l \in Locations, next \in Time : Publish(l, next)
        \/ \E f \in Failing : Toggle(f)

Spec == Init /\ [][Next]_vars

(* The ticker fires, and a refresh gets on: a fetch ends within its        *)
(* timeout.  A service whose first load fails is started again.            *)
FairSpec == Spec /\ WF_vars(RefreshBegin) /\ WF_vars(Loading)

-----------------------------------------------------------------------------
(* The lists of T that its root vouches for through lists current at t,    *)
(* found from the references as published.                                 *)
Vouched(T, t) ==
    {l \in Nodes(T) :
        \A S \in SUBSET Nodes(T) :
            /\ current(T.lists[T.root], t) => T.root \in S
            /\ \A m \in S : \A n \in Refs[m] \cap Nodes(T) :
                   T.root \in Following /\ current(T.lists[n], t) => n \in S
            => l \in S}

EvalRequests == [issuer   : Certificates,
                 types    : {{}} \cup {{t} : t \in ServiceTypes},
                 statuses : {{}} \cup {{s} : s \in Statuses},
                 bound    : {TRUE}, profiled : {TRUE}]

(* An approval rests on the configured bundle or on a service of the kind  *)
(* asked for, in a list that had not lapsed when the request began, nor    *)
(* had any list on the way to it; unless a refresh ended meanwhile.        *)
ApprovalsAreCurrent ==
    \A q \in Requests : pc[q] = "read" /\ ~swapped[q] =>
        \A r \in EvalRequests : Evaluate(roots, r) =>
            \/ r.issuer \in Bundle
            \/ \E T \in roots : \E l \in Vouched(T, seen[q]) :
                 \E s \in Services[l][T.lists[l].revision] :
                    s.cert = r.issuer /\ (Limited(r) => Validate(s, r))

(* Expiry takes no more than it must: whatever was loaded and still has a  *)
(* way to it through current lists stays in use, however many lists have   *)
(* been dropped before.                                                    *)
LiveListsStay ==
    \A T \in loaded : \A l \in Vouched(T, now) :
        \E U \in roots : U.root = T.root /\ l \in Nodes(U) /\ U.lists[l] = T.lists[l]

(* The signers one can come to trust: those configured, and whoever is     *)
(* named by a pivot that such a signer has signed.                         *)
TrustedSigners ==
    {k \in Keys : \A S \in SUBSET Keys :
        /\ LOTLSigners \subseteq S
        /\ \A p \in Pivots : PivotSigner[p] \in S => \A l \in Locations : PointerSigners[p][l] \subseteq S
        => k \in S}

(* Where signatures are required, no list is in use that nobody trusted    *)
(* has signed.                                                             *)
OnlyTrustedSigners ==
    RequireSignature => \A T \in roots : \A l \in Nodes(T) :
                            SignerOf[l][T.lists[l].revision] \in TrustedSigners

(* Updates arrive, across any number of changes of the signer: if all is   *)
(* readable, current and signed by someone trusted from some time on, the  *)
(* latest edition of every list there is comes into use.                   *)
UpdatesArrive ==
    <>[](down = {} /\ \A l \in Locations :
            current(edition[l], now) /\ SignerOf[l][edition[l].revision] \in TrustedSigners) =>
        <>[](\A i \in 1 .. Len(Sources) : \A l \in Dereferenced(Sources[i]) :
                \E T \in roots : T.root = Sources[i] /\ l \in Nodes(T) /\ T.lists[l] = edition[l])
=============================================================================

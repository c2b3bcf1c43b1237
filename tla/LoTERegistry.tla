---------------------------- MODULE LoTERegistry ----------------------------
(***************************************************************************)
(* The registry of lists of trusted entities (pkg/registry/lote).  A       *)
(* refresh fetches the configured lists (LoTEs) and lists of lists (LoTLs) *)
(* one after the other, follows pointers depth first, and swaps the result *)
(* in under the lock.  Requests drop what has lapsed since, under the lock *)
(* but only if they find it due, and then read the index under the lock.   *)
(*                                                                         *)
(* A location is that of a list or a list of lists.  What it serves is an  *)
(* edition: a revision with the time of its next update.  Fetching,        *)
(* verifying and parsing an edition either succeeds or fails.  A date      *)
(* beyond MaxTime stands for no date: neither ever lapses.                 *)
(***************************************************************************)
EXTENDS Integers, Sequences, FiniteSets

CONSTANTS Lists, LoTLs,
          Sources,       \* configured lists, in order
          LoTLSources,   \* configured lists of lists, in order
          Pointers,      \* Pointers[l]: the locations LoTL l points to, in order
          MaxDepth,      \* MaxDereferenceDepth, 0 for no limit
          Types,         \* scheme types of lists
          TypeOf,        \* TypeOf[l]: the type of list l
          Standard,      \* the types with the prefix of TS 119 602
          PubEAA,        \* the types whose services need the status "notified"
          RoleTypes,     \* config: the types configured for some roles
          RequireRole,   \* config: no trust in a CA without a role
          Subjects,
          Keys,          \* fingerprints of keys, bare or in a certificate
          Certificates,  \* those in a certificate, which chains may lead to
          Services,      \* Services[l]: the services list l names
          None,
          Requests,
          Changing,      \* locations that publish new editions
          Failing,       \* locations that come and go
          MaxRevision, MaxTime  \* bounds, for model checking

Locations == Lists \cup LoTLs
Time == 0 .. MaxTime

ASSUME LoTEAssumption ==
    /\ MaxTime \in Nat /\ MaxRevision \in Nat /\ MaxDepth \in Nat
    /\ Lists \cap LoTLs = {}
    /\ Sources \in Seq(Lists) /\ LoTLSources \in Seq(LoTLs)
    /\ Sources \o LoTLSources # <<>>
    /\ Pointers \in [LoTLs -> Seq(Locations)]
    /\ TypeOf \in [Lists -> Types]
    /\ Standard \subseteq Types /\ PubEAA \subseteq Types
    /\ \A r \in DOMAIN RoleTypes : RoleTypes[r] \in SUBSET Types /\ RoleTypes[r] # {}
    /\ Services \in [Lists -> SUBSET [subject : Subjects, key : Keys,
                                      status : {"absent", "notified", "withdrawn", "other"}]]
    /\ RequireRole \in BOOLEAN
    /\ Certificates \subseteq Keys /\ None \notin Keys \cup Types
    /\ Changing \subseteq Locations /\ Failing \subseteq Locations

VARIABLES
    now,
    edition,   \* edition[l]: what location l serves
    down,      \* locations that cannot be fetched or verified
    stack,     \* of the refresh in progress: what is left to load at each depth
    visited,   \* LoTLs this refresh has loaded
    loaded,    \* lists this refresh has loaded
    skipped,   \* history: locations it left out, the targets of pointers
    lotes,     \* the lists swapped in last
    index,     \* those of them that are indexed
    nextExpiry,
    ready,     \* has New returned?
    last,      \* history: what the last refresh visited and skipped
    pc, seen,  \* seen[q]: the time request q took in expireStale
    swapped,   \* history: a refresh has ended since q began
    used       \* used[q]: the lists q was decided by

world   == <<now, edition, down>>
refresh == <<stack, visited, loaded, skipped>>
state   == <<lotes, index, nextExpiry, ready, last>>
request == <<pc, seen, swapped, used>>
vars    == <<world, refresh, state, request>>

Editions == [revision : 0 .. MaxRevision, next : Time]
Loaded   == [list : Lists, revision : 0 .. MaxRevision, deadline : Time, dates : SUBSET Time]
Frames   == [rest : Seq(Locations), depth : Int, via : Time, next : Time]

TypeOK ==
    /\ now \in Time
    /\ edition \in [Locations -> Editions]
    /\ down \subseteq Failing
    /\ stack \in Seq(Frames)
    /\ visited \subseteq LoTLs
    /\ loaded \subseteq Loaded
    /\ skipped \subseteq Locations
    /\ lotes \subseteq Loaded /\ index \subseteq lotes
    /\ nextExpiry \in Time
    /\ ready \in BOOLEAN
    /\ last \in [visited : SUBSET LoTLs, skipped : SUBSET Locations]
    /\ pc \in [Requests -> {"idle", "check", "due", "read"}]
    /\ seen \in [Requests -> Time]
    /\ swapped \in [Requests -> BOOLEAN]
    /\ used \in [Requests -> SUBSET Loaded]

earliest(a, b) == IF a <= b THEN a ELSE b

(* The earliest deadline of a set of lists; MaxTime is the zero time.      *)
Earliest(lists) ==
    CHOOSE t \in Time : /\ \A l \in lists : t <= l.deadline
                        /\ t = MaxTime \/ \E l \in lists : t = l.deadline

Configuration == [rest |-> Sources \o LoTLSources, depth |-> -1, via |-> MaxTime, next |-> MaxTime]

Init ==
    /\ now = 0
    /\ edition \in [Locations -> [revision : {0}, next : {MaxTime}]]
    /\ down = {}
    /\ stack = <<Configuration>> /\ visited = {} /\ loaded = {} /\ skipped = {}
    /\ lotes = {} /\ index = {} /\ nextExpiry = MaxTime /\ ready = FALSE
    /\ last = [visited |-> {}, skipped |-> {}]
    /\ pc = [q \in Requests |-> "idle"]
    /\ seen = [q \in Requests |-> 0]
    /\ swapped = [q \in Requests |-> FALSE]
    /\ used = [q \in Requests |-> {}]

-----------------------------------------------------------------------------
(* The index: an identifier has one variant for each type of list that     *)
(* names it, with the services of all lists of that type; services whose   *)
(* status excludes them bring no keys.                                     *)

Of(idx, t) == UNION {Services[l.list] : l \in {l \in idx : TypeOf[l.list] = t}}

schemeTypes(idx) == {TypeOf[l.list] : l \in idx}

variants(idx, s) == {t \in schemeTypes(idx) : \E v \in Of(idx, t) : v.subject = s}

indexed(idx, t) == {v \in Of(idx, t) : IF t \in PubEAA THEN v.status = "notified"
                                                       ELSE v.status # "withdrawn"}

keyHashes(idx, s, t) == {v.key : v \in {v \in indexed(idx, t) : v.subject = s}}

hasNotifiedService(idx, s, t) ==
    \E v \in Of(idx, t) : v.subject = s /\ v.status = "notified"

certsByType(idx, t) == {v.key : v \in indexed(idx, t)} \cap Certificates

\* Only a type that is loaded at present scopes a role.
ScopedWhileLoaded(idx, role) == role \in DOMAIN RoleTypes \cup schemeTypes(idx)

Scoped(idx, role) == role \in DOMAIN RoleTypes \cup schemeTypes(idx) \cup Standard

(* The types a role is limited to: all of them when it cannot be scoped.   *)
roleTypes(idx, role) ==
    IF ~Scoped(idx, role)          THEN Types
    ELSE IF role \in DOMAIN RoleTypes THEN RoleTypes[role]
                                      ELSE {role}

(* A request presents a key or, for resolution only, None; issuer is the   *)
(* key its certificates chain to, if it presents certificates; bound says  *)
(* that the leaf names the subject, profiled that it passes its profile.   *)
evaluateEntity(idx, r, t) ==
    /\ t \in PubEAA => hasNotifiedService(idx, r.subject, t)
    /\ \/ r.key = None
       \/ r.key \in keyHashes(idx, r.subject, t)
       \/ /\ r.issuer \in keyHashes(idx, r.subject, t) \cap Certificates
          /\ r.profiled

(* For a subject that is not listed: the verdict of the listed CAs, which  *)
(* is final if the chain leads to one of them or must not be looked at.    *)
validateX5CChainCA(idx, r) ==
    LET scope == roleTypes(idx, r.role)
    IN  IF r.issuer = None \/ \A t \in Types : certsByType(idx, t) = {}  THEN "none"
        ELSE IF RequireRole /\ ~Scoped(idx, r.role)                      THEN "deny"
        ELSE IF \A t \in scope : r.issuer \notin certsByType(idx, t)     THEN "none"
        ELSE IF r.bound /\ r.profiled                                    THEN "allow"
                                                                         ELSE "deny"

(* r.registered is what the national register would answer, FALSE if none  *)
(* is configured; it is asked with the lock released.                      *)
Evaluate(idx, r) ==
    IF variants(idx, r.subject) # {}
    THEN \E t \in variants(idx, r.subject) \cap roleTypes(idx, r.role) : evaluateEntity(idx, r, t)
    ELSE \/ validateX5CChainCA(idx, r) = "allow"
         \/ validateX5CChainCA(idx, r) = "none" /\ r.registered

-----------------------------------------------------------------------------
Busy == stack # <<>>

\* The lists visited are kept with the registry and never forgotten.
RefreshBeginVisited ==
    /\ ~Busy
    /\ stack' = <<Configuration>>
    /\ loaded' = {} /\ skipped' = {}
    /\ UNCHANGED <<visited, world, state, request>>

RefreshBegin ==
    /\ ~Busy
    /\ stack' = <<Configuration>>
    /\ visited' = {} /\ loaded' = {} /\ skipped' = {}
    /\ UNCHANGED <<world, state, request>>

Top  == Head(stack)
Item == Head(Top.rest)
Rest == <<[Top EXCEPT !.rest = Tail(@)]>> \o Tail(stack)
HasItem == Busy /\ Top.rest # <<>>

checkFresh(l) == now <= edition[l].next
Fetched(l) == l \notin down /\ checkFresh(l)

(* The configured lists are at depth -1, so that the configured lists of   *)
(* lists are resolved at depth 0.                                          *)
Cut(l) == /\ l \in LoTLs
          /\ \/ MaxDepth > 0 /\ Top.depth + 1 >= MaxDepth
             \/ l \in visited

(* resolveLoTL returns at once beyond the depth limit and on a list of     *)
(* lists that this refresh has loaded.                                     *)
SkipLoTL ==
    /\ HasItem /\ Cut(Item)
    /\ stack' = Rest
    /\ UNCHANGED <<visited, loaded, skipped, world, state, request>>

ResolveLoTL ==
    /\ HasItem /\ Item \in LoTLs /\ ~Cut(Item) /\ Fetched(Item)
    /\ visited' = visited \cup {Item}
    /\ stack' = <<[rest  |-> Pointers[Item],
                   depth |-> Top.depth + 1,
                   via   |-> earliest(Top.via, edition[Item].next),
                   next  |-> edition[Item].next]>> \o Rest
    /\ UNCHANGED <<loaded, skipped, world, state, request>>

(* History: the dates of the list and of the lists of lists it is found    *)
(* through.                                                                *)
Dates == {edition[Item].next} \cup {stack[i].next : i \in 1 .. Len(stack)}

\* A list lapses by its own date alone.
LoadLoTEOwnDate ==
    /\ HasItem /\ Item \in Lists /\ Fetched(Item)
    /\ loaded' = loaded \cup {[list |-> Item, revision |-> edition[Item].revision,
                               deadline |-> edition[Item].next, dates |-> Dates]}
    /\ stack' = Rest
    /\ UNCHANGED <<visited, skipped, world, state, request>>

(* A list lapses with the first of itself and the lists of lists it was    *)
(* found through.                                                          *)
LoadLoTE ==
    /\ HasItem /\ Item \in Lists /\ Fetched(Item)
    /\ loaded' = loaded \cup {[list |-> Item, revision |-> edition[Item].revision,
                               deadline |-> earliest(Top.via, edition[Item].next),
                               dates |-> Dates]}
    /\ stack' = Rest
    /\ UNCHANGED <<visited, skipped, world, state, request>>

\* A list of lists is marked before it has been loaded.
SkipPointerMarked ==
    /\ HasItem /\ Top.depth >= 0 /\ ~Cut(Item) /\ ~Fetched(Item)
    /\ stack' = Rest
    /\ skipped' = skipped \cup {Item}
    /\ visited' = visited \cup ({Item} \cap LoTLs)
    /\ UNCHANGED <<loaded, world, state, request>>

(* What a pointer leads to is left out if it cannot be loaded.             *)
SkipPointer ==
    /\ HasItem /\ Top.depth >= 0 /\ ~Cut(Item) /\ ~Fetched(Item)
    /\ stack' = Rest
    /\ skipped' = skipped \cup {Item}
    /\ UNCHANGED <<visited, loaded, world, state, request>>

(* A configured list that cannot be loaded ends the refresh: the lists in  *)
(* use, and their deadlines, stay.  New fails and the service is started   *)
(* again.                                                                  *)
Abort ==
    /\ HasItem /\ Top.depth = -1 /\ ~Cut(Item) /\ ~Fetched(Item)
    /\ stack' = <<>>
    /\ UNCHANGED <<visited, loaded, skipped, world, state, request>>

Return ==
    /\ Len(stack) > 1 /\ Top.rest = <<>>
    /\ stack' = Tail(stack)
    /\ UNCHANGED <<visited, loaded, skipped, world, state, request>>

(* The index is built from the lists, whatever the time is by now.         *)
Swap ==
    /\ Len(stack) = 1 /\ Top.rest = <<>>
    /\ stack' = <<>>
    /\ lotes' = loaded /\ index' = loaded
    /\ nextExpiry' = Earliest(loaded)
    /\ ready' = TRUE
    /\ last' = [visited |-> visited, skipped |-> skipped]
    /\ swapped' = [q \in Requests |-> TRUE]
    /\ UNCHANGED <<visited, loaded, skipped, world, pc, seen, used>>

-----------------------------------------------------------------------------
(* expireStale: the time is taken first, and looked at twice.              *)
Begin(q) ==
    /\ ready /\ pc[q] = "idle"
    /\ seen' = [seen EXCEPT ![q] = now]
    /\ swapped' = [swapped EXCEPT ![q] = FALSE]
    /\ used' = [used EXCEPT ![q] = {}]
    /\ pc' = [pc EXCEPT ![q] = "check"]
    /\ UNCHANGED <<world, refresh, state>>

(* Under the read lock: is anything due?                                   *)
Check(q) ==
    /\ pc[q] = "check"
    /\ pc' = [pc EXCEPT ![q] = IF seen[q] > nextExpiry THEN "due" ELSE "read"]
    /\ UNCHANGED <<seen, swapped, used, world, refresh, state>>

live(t) == {l \in lotes : t <= l.deadline}

(* Under the lock, and again only if anything is due: another request, or  *)
(* a refresh, may have been there first.                                   *)
expireStale(q) ==
    /\ pc[q] = "due"
    /\ IF seen[q] > nextExpiry
       THEN /\ index' = live(seen[q])
            /\ nextExpiry' = Earliest(live(seen[q]))
       ELSE UNCHANGED <<index, nextExpiry>>
    /\ pc' = [pc EXCEPT ![q] = "read"]
    /\ UNCHANGED <<lotes, ready, last, seen, swapped, used, world, refresh>>

(* Under the read lock: the decision, Evaluate of the index.               *)
Decide(q) ==
    /\ pc[q] = "read"
    /\ used' = [used EXCEPT ![q] = index]
    /\ pc' = [pc EXCEPT ![q] = "idle"]
    /\ UNCHANGED <<seen, swapped, world, refresh, state>>

-----------------------------------------------------------------------------
(* Environment: time, new editions, outages.                               *)
Tick ==
    /\ now < MaxTime
    /\ now' = now + 1
    /\ UNCHANGED <<edition, down, refresh, state, request>>

Publish(l, next) ==
    /\ edition[l].revision < MaxRevision
    /\ edition' = [edition EXCEPT ![l] = [revision |-> @.revision + 1, next |-> next]]
    /\ UNCHANGED <<now, down, refresh, state, request>>

Toggle(l) ==
    /\ down' = IF l \in down THEN down \ {l} ELSE down \cup {l}
    /\ UNCHANGED <<now, edition, refresh, state, request>>

Loading == SkipLoTL \/ ResolveLoTL \/ LoadLoTE \/ SkipPointer \/ Abort \/ Return \/ Swap

Serve(q) == Begin(q) \/ Check(q) \/ expireStale(q) \/ Decide(q)

Next == \/ RefreshBegin
        \/ Loading
        \/ \E q \in Requests : Serve(q)
        \/ Tick
        \/ \E l \in Changing, next \in Time : next >= now /\ Publish(l, next)
        \/ \E l \in Failing : Toggle(l)

Spec == Init /\ [][Next]_vars

(* The ticker fires, and a refresh gets on: a fetch ends within its        *)
(* timeout.                                                                *)
FairSpec == Spec /\ WF_vars(RefreshBegin) /\ WF_vars(Loading)

-----------------------------------------------------------------------------
(* No request is decided by a list that had lapsed, by itself or by a list *)
(* of lists it was found through, before the request began; unless a       *)
(* refresh ended meanwhile, one that had fetched the list before it        *)
(* lapsed and was slower than that.                                        *)
NoLapsedListUsed ==
    \A q \in Requests : \A l \in used[q] :
        swapped[q] \/ \A d \in l.dates : seen[q] <= d

Configured(l) == \E i \in 1 .. Len(Configuration.rest) : Configuration.rest[i] = l

Pointed(l, S) == \E m \in S \cap LoTLs : \E i \in 1 .. Len(Pointers[m]) : Pointers[m][i] = l

Reachable == {l \in Locations :
    \A S \in SUBSET Locations :
        (\A m \in Locations : Configured(m) \/ Pointed(m, S) => m \in S) => l \in S}

(* A refresh that ends well has loaded every location that is configured,  *)
(* also one that failed when a pointer led to it before; and, unless there *)
(* is a depth limit, everything it was pointed to, save what it skipped.   *)
RefreshIsComplete ==
    ready =>
        LET got == last.visited \cup {l.list : l \in lotes}
        IN  \A l \in Locations :
                /\ Configured(l) => l \in got
                /\ Pointed(l, last.visited) /\ MaxDepth = 0 => l \in got \cup last.skipped

(* Requests without certificates, which the national register does not     *)
(* know, and whose role is configured, named after a standard type, or     *)
(* none that could ever be scoped.                                         *)
PlainRequests ==
    [subject : Subjects, role : DOMAIN RoleTypes \cup Standard \cup {None}, key : Keys \cup {None},
     issuer : {None}, bound : {FALSE}, profiled : {FALSE}, registered : {FALSE}]

(* Lists that lapse only ever take trust away: dropping them turns no      *)
(* denial into an approval, although a role may lose the last list of its  *)
(* type.                                                                   *)
ExpiryNeverGrants ==
    [][stack' = stack /\ index' # index =>
          \A r \in PlainRequests : Evaluate(index', r) => Evaluate(index, r)]_vars

(* Updates arrive: if everything can be fetched and is current from some   *)
(* time on, requests are judged by the latest editions of all there is.    *)
UpdatesArrive ==
    <>[](\A l \in Locations : Fetched(l)) =>
        <>[](\A l \in Lists : MaxDepth = 0 /\ l \in Reachable =>
                \E e \in index : e.list = l /\ e.revision = edition[l].revision)
=============================================================================

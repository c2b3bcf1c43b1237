---------------------------- MODULE DIDRegistries ----------------------------
(***************************************************************************)
(* The four DID registries: did:web, did:webvh, did:jwks and the generic   *)
(* registry for did:key and did:jwk.  None keeps state between requests:   *)
(* what changes is what the host of a DID serves, between two evaluations  *)
(* and, for did:jwks, between the up to three fetches of one evaluation.   *)
(*                                                                         *)
(* An initial state picks the method under study; the parts of the others  *)
(* stay as they are.  A request is                                         *)
(*    [subject : [did, frag], type, key : None or [form, value], context]. *)
(***************************************************************************)
EXTENDS DIDDocuments, FiniteSets

CONSTANTS Placeholder,
          Methods,           \* the methods Init chooses from
          Requests,          \* Requests[m]: the requests a caller may send
          Now, MaxLog,       \* the clock; the longest log (a bound)
          DID,               \* DID[m]: the DID of the host whose content changes (web, webvh, jwks)
          Genesis,           \* the first entry of the log of DID["webvh"]
          EntryChoices,      \* what later entries say
          Documents,         \* what the host of a did:web may serve, None included
          JWKSChoices,       \* what a JWKS endpoint may serve, None included
          URIs, SecureURIs,  \* advertised jwks_uri values, and the https ones
          Registered         \* methods with a resolver in the generic registry

(* What is asked of a did:webvh registry is of its method, the identifier  *)
(* of a did:key is a string over the base58 alphabet (base58Decode refuses *)
(* any other), a key is a JWK or a key identifier, and the labels of a     *)
(* domain, the methods of a document and the keys of a JWKS are in order.  *)
ASSUME DIDAssumption ==
    /\ \A r \in Requests["webvh"] : r.subject.did.method = "webvh"
    /\ \A m \in Methods : \A r \in Requests[m] :
         r.subject.did.method = "key" => r.subject.did.id.digits \in Seq(0 .. 57)
    /\ \A m \in Methods : \A r \in Requests[m] :
         r.subject.did.method \notin {"key", "jwk"} =>
            /\ r.subject.did.host.labels \in Seq(Range(r.subject.did.host.labels))
            /\ \A p \in r.context.allowed_domains : p.labels \in Seq(Range(p.labels))
    /\ \A r \in Requests["local"] : r.key = None \/ r.key.form \in {"jwk", "kid"}
    /\ "scid" \in DOMAIN DID["webvh"]
    /\ \A doc \in Documents \ {None} : doc.methods \in Seq(Range(doc.methods))
    /\ \A e \in EntryChoices \cup {Genesis} : e.state.methods \in Seq(Range(e.state.methods))
    /\ \A jwks \in JWKSChoices \ {None} : jwks \in Seq(Range(jwks))
    /\ None \notin SecureURIs

Log == INSTANCE WebVHLog

VARIABLES method,
          log,       \* the DID log served
          past,      \* some log accepted earlier (an observer's note), or <<>>
          document,  \* the did:web document served, or None
          endpoints, \* [direct, discovery, at] of the did:jwks host
          pc,        \* "idle", "direct", "discovery" or "indirect"
          req,       \* the did:jwks request being evaluated
          uri,       \* the jwks_uri that evaluation discovered
          vouched,   \* [uris, jwks] the host stood for since it began (a note)
          answer     \* the answer to the last request, None when it is outdated

worldVars == <<log, document, endpoints>>
jwksVars == <<pc, req, uri, vouched>>
didVars == <<method, worldVars, past, jwksVars, answer>>

NothingServed == [direct |-> None, discovery |-> None, at |-> [u \in URIs |-> None]]

DIDInit == /\ method \in Methods
           /\ log = IF method = "webvh" THEN <<Genesis>> ELSE <<>>
           /\ past = <<>>
           /\ document = None
           /\ endpoints = NothingServed
           /\ pc = "idle" /\ req = None /\ uri = None
           /\ vouched = [uris |-> {}, jwks |-> {}]
           /\ answer = None

-----------------------------------------------------------------------------
(* The answer.                                                             *)

IsResolutionOnly(r) == r.type = "" \/ r.key = None

Deny(r) == [req |-> r, decision |-> FALSE, doc |-> None, vm |-> None, ids |-> {}]

(* The tail every Evaluate shares, given the outcome of its key matching.  *)
Answered(r, doc, vm) ==
    LET did == r.subject.did IN
    IF ~checkPolicyConstraints(did, doc, r.context) \/ (~IsResolutionOnly(r) /\ vm = None)
    THEN Deny(r)
    ELSE [req |-> r, decision |-> TRUE, doc |-> doc,
          vm  |-> IF IsResolutionOnly(r) THEN None ELSE vm,
          ids |-> IF IsResolutionOnly(r) THEN {} ELSE DIDVerifierIDs(doc, did)]

(* verifyKeyBinding of did:web and did:webvh: only a JWK can be bound.     *)
BoundMethod(r, doc, match(_, _)) ==
    IF r.type = "jwk" /\ r.key # None /\ r.key.form = "jwk" THEN match(doc, r.key.value) ELSE None

-----------------------------------------------------------------------------
(* did:webvh.                                                              *)

LogDocument(entry) ==
    [id       |-> [DID["webvh"] EXCEPT !.scid = entry.state.scid],
     methods  |-> entry.state.methods,
     services |-> entry.state.services]

EvaluateWebVH(r, scid) ==
    LET doc == LogDocument(Last(log)) IN
    IF ~Log!processDIDLog(log, scid, Now) \/ Log!Deactivated(log) THEN Deny(r)
    ELSE Answered(r, doc, BoundMethod(r, doc, matchJWK))

WebVH(r) ==
    /\ method = "webvh" /\ answer = None /\ log # <<>>
    /\ answer' = EvaluateWebVH(r, r.subject.did.scid)
    /\ past' \in IF Log!processDIDLog(log, r.subject.did.scid, Now) THEN {log, past} ELSE {past}
    /\ UNCHANGED <<method, worldVars, jwksVars>>

(* An entry as its publisher writes it: the number, the previous version   *)
(* the hash was taken over and the signer are its choice.                  *)
Written(c, n, prev) ==
    LET e == [versionTime |-> c.versionTime, parameters |-> c.parameters, state |-> c.state,
              proof |-> c.proof, versionId |-> None]
    IN [e EXCEPT !.versionId = [number |-> n, hash |-> Log!EntryHash(e, prev)]]

(* What a host may append: the number and the hash right, or one of them   *)
(* wrong.  A log that is refused stays refused whatever follows, so the    *)
(* model extends accepted logs only (a bound).                             *)
PublishEntry(c) ==
    /\ method = "webvh" /\ Len(log) < MaxLog
    /\ Log!processDIDLog(log, DID["webvh"].scid, Now)
    /\ LET n == Len(log) + 1
           prev == Log!PrevVersionID(Append(log, log[1]), n)
       IN \E w \in {<<n, prev>>, <<n + 1, prev>>, <<n, log[1].versionId>>} :
            log' = Append(log, Written(c, w[1], w[2]))
    /\ answer = None
    /\ UNCHANGED <<method, past, document, endpoints, jwksVars, answer>>

(* The host serves an older log again.                                     *)
WithdrawEntry ==
    /\ method = "webvh" /\ log # <<>>
    /\ log' = Front(log)
    /\ answer = None
    /\ UNCHANGED <<method, past, document, endpoints, jwksVars, answer>>

(* The host starts over.                                                   *)
PublishGenesis(c) ==
    /\ method = "webvh" /\ log = <<>>
    /\ log' = <<IF c = None THEN Genesis ELSE Written(c, 1, c.parameters.scid)>>
    /\ answer = None
    /\ UNCHANGED <<method, past, document, endpoints, jwksVars, answer>>

-----------------------------------------------------------------------------
(* did:web.                                                                *)

EvaluateWeb(r, doc) ==
    IF doc = None \/ doc.id # r.subject.did THEN Deny(r)
    ELSE Answered(r, doc, BoundMethod(r, doc, matchWebJWK))

(* The URL of a did:web: empty path segments are dropped.                  *)
URL(did) == [host |-> did.host, path |-> SelectSeq(did.path, LAMBDA s : s # "")]

Web(r) ==
    /\ method = "web" /\ answer = None
    /\ answer' = EvaluateWeb(r, IF URL(r.subject.did) = URL(DID["web"]) THEN document ELSE None)
    /\ UNCHANGED <<method, worldVars, past, jwksVars>>

PublishDocument ==
    /\ method = "web"
    /\ document' \in Documents \ {document}
    /\ answer = None
    /\ UNCHANGED <<method, log, past, endpoints, jwksVars, answer>>

-----------------------------------------------------------------------------
(* The generic registry: did:key and did:jwk, nothing is fetched.          *)

Resolve(subject) == IF subject.did.method = "key" THEN ResolveKey(subject) ELSE ResolveJwk(subject)

VerifyKeyBinding(r, doc) ==
    CASE r.key = None           -> None
      [] r.key # None /\ r.key.form = "jwk" -> matchJWK(doc, r.key.value)
      [] r.key # None /\ r.key.form = "kid" -> findVerificationMethodByKid(doc, r.key.value)

EvaluateLocal(r) ==
    LET doc == Resolve(r.subject) IN
    IF r.subject.did.method \notin Registered \/ doc = None THEN Deny(r)
    ELSE Answered(r, doc, VerifyKeyBinding(r, doc))

Local(r) ==
    /\ method = "local" /\ answer = None
    /\ answer' = EvaluateLocal(r)
    /\ UNCHANGED <<method, worldVars, past, jwksVars>>

-----------------------------------------------------------------------------
(* did:jwks: the JWKS of the host, or the one its OpenID configuration     *)
(* names.  Every fetch sees what is served at its moment, or fails.        *)

Vouched(e, v) ==
    LET uris == v.uris \cup ({e.discovery} \cap SecureURIs)
    IN [uris |-> uris, jwks |-> v.jwks \cup {e.direct} \cup {e.at[u] : u \in uris}]

EvaluateJwks(r, jwks) ==
    LET doc == IF jwks = None THEN None ELSE buildDIDDocument(r.subject.did, jwks) IN
    IF doc = None THEN Deny(r)
    ELSE Answered(r, doc, IF r.type = "jwk" /\ r.key # None /\ r.key.form = "jwk"
                          THEN matchKey(doc, r.key.value, r.subject.frag) ELSE None)

Conclude(jwks) ==
    /\ answer' = EvaluateJwks(req, jwks)
    /\ pc' = "idle"
    /\ UNCHANGED <<method, worldVars, past, req, uri, vouched>>

GoOn(step, u) ==
    /\ pc' = step /\ uri' = u
    /\ UNCHANGED <<method, worldVars, past, req, vouched, answer>>

(* parseJWKS: a JWKS without keys is a failed fetch.                       *)
Fetched(jwks) == {None} \cup ({jwks} \ {<<>>})

CallJwks(r) ==
    /\ method = "jwks" /\ pc = "idle" /\ answer = None
    /\ pc' = "direct" /\ req' = r
    /\ vouched' = Vouched(endpoints, [uris |-> {}, jwks |-> {}])
    /\ UNCHANGED <<method, worldVars, past, uri, answer>>

FetchDirect ==
    /\ pc = "direct"
    /\ \E jwks \in Fetched(endpoints.direct) :
         IF jwks # None THEN Conclude(jwks) ELSE GoOn("discovery", None)

(* fetchDiscoveryJWKSURI: it must be an https URI.                         *)
FetchDiscovery ==
    /\ pc = "discovery"
    /\ \E u \in {None, endpoints.discovery} :
         IF u \in SecureURIs THEN GoOn("indirect", u) ELSE Conclude(None)

FetchIndirect ==
    /\ pc = "indirect"
    /\ \E jwks \in Fetched(endpoints.at[uri]) : Conclude(jwks)

ChangeEndpoints ==
    /\ method = "jwks"
    /\ \/ \E j \in JWKSChoices : endpoints' = [endpoints EXCEPT !.direct = j]
       \/ \E u \in URIs \cup {None} : endpoints' = [endpoints EXCEPT !.discovery = u]
       \/ \E u \in URIs, j \in JWKSChoices : endpoints' = [endpoints EXCEPT !.at[u] = j]
    /\ answer = None
    /\ vouched' = IF pc = "idle" THEN vouched ELSE Vouched(endpoints', vouched)
    /\ UNCHANGED <<method, log, past, document, pc, req, uri, answer>>

-----------------------------------------------------------------------------
(* The caller has its answer.                                              *)
Deliver ==
    /\ answer # None
    /\ answer' = None /\ req' = None /\ uri' = None
    /\ vouched' = [uris |-> {}, jwks |-> {}]
    /\ UNCHANGED <<method, worldVars, past, pc>>

DIDNext == \/ Deliver
           \/ \E c \in EntryChoices : PublishEntry(c)
           \/ \E c \in EntryChoices \cup {None} : PublishGenesis(c)
           \/ WithdrawEntry
           \/ PublishDocument
           \/ \E r \in Requests[method] : WebVH(r)
           \/ \E r \in Requests[method] : Web(r)
           \/ \E r \in Requests[method] : Local(r)
           \/ \E r \in Requests[method] : CallJwks(r)
           \/ FetchDirect \/ FetchDiscovery \/ FetchIndirect
           \/ ChangeEndpoints

-----------------------------------------------------------------------------
Accepted == log # <<>> /\ Log!processDIDLog(log, DID["webvh"].scid, Now)

(* Two logs of one did:webvh accepted at different times that agree on a   *)
(* version agree on everything up to it: a host cannot rewrite history     *)
(* below a version that someone has seen (verifyEntryHash chains the       *)
(* entries).                                                               *)
SameVersionSameHistory ==
    past # <<>> /\ Accepted =>
        \A i \in DOMAIN past \cap DOMAIN log :
            past[i].versionId = log[i].versionId =>
                \A j \in 1 .. i : Log!Content(past[j]) = Log!Content(log[j])

(* Once a log was deactivated, no continuation of it is approved again     *)
(* (mergeParameters never takes deactivated back, and Evaluate denies).    *)
DeactivationIsFinal ==
    answer # None /\ answer.decision /\ past # <<>> /\ Len(past) <= Len(log) =>
        ~(Log!Deactivated(past) /\ log[Len(past)].versionId = Last(past).versionId)

(* Whatever keys an entry brings along, the key that signed it is one its  *)
(* predecessor committed to, when the predecessor committed to any: the    *)
(* proof is checked against the entry's own keys, so pre-rotation is all   *)
(* that ties an update to the holder of the previous keys.                 *)
CommittedKeysSign ==
    answer # None /\ answer.decision =>
        \A i \in 2 .. Len(log) :
            log[i - 1].parameters.nextKeyHashes # {} =>
                log[i].proof \in log[i - 1].parameters.nextKeyHashes

(* An approved log is one its holders wrote: both of the above             *)
(* (processDIDLog, mergeParameters).                                       *)
ApprovedLogsAreTheHolders == CommittedKeysSign /\ DeactivationIsFinal

(* An approval of any method is about the DID that was asked for: the      *)
(* document is the DID's own (a did:webvh may have moved, its SCID may     *)
(* not), a bound key or key identifier is one of its verification methods  *)
(* and no other DID's, and a verifier identifier is only issued for the    *)
(* DID itself.                                                             *)
BoundToSubject ==
    answer # None /\ answer.decision =>
        LET did == answer.req.subject.did
            doc == answer.doc
            key == answer.req.key
        IN /\ IF did.method = "webvh" THEN doc.id.scid = did.scid ELSE doc.id = did
           /\ answer.vm # None => \E i \in DOMAIN doc.methods : doc.methods[i] = answer.vm
           /\ answer.vm # None /\ key.form = "jwk" => JWKsMatch(key.value, MethodJWK(answer.vm))
           /\ answer.vm # None /\ key.form = "kid" => /\ key.value.did \in {None, did}
                                                     /\ answer.vm.id.did = did
           /\ answer.ids \subseteq {did}
           /\ (answer.req.type # "" /\ key # None) => answer.vm # None

(* The host is the domain a pattern names or, for a wildcard, one below it,*)
(* on the same port.                                                       *)
InDomain(host, p) ==
    LET below == Len(host.labels) - Len(p.labels)
    IN /\ host.port = p.port
       /\ IF p.wild THEN below > 0 ELSE below = 0
       /\ \A i \in 1 .. Len(p.labels) : host.labels[below + i] = p.labels[i]

(* And it keeps the constraints of the role the request was made for, each *)
(* of them on the very document it approves: a DID that has a host is in   *)
(* one of the allowed domains, and the document has a method of every type *)
(* that is required and, but for did:jwks, every service (Evaluate and     *)
(* checkPolicyConstraints of the four registries).                         *)
KeepsTheRole ==
    answer # None /\ answer.decision =>
        LET did == answer.req.subject.did
            doc == answer.doc
            context == answer.req.context
        IN /\ context.allowed_domains # {} /\ did.method \notin {"key", "jwk"} =>
                 \E p \in context.allowed_domains : InDomain(did.host, p)
           /\ \A t \in context.required_verification_methods :
                 \E i \in DOMAIN doc.methods : doc.methods[i].type = t
           /\ did.method # "jwks" =>
                 \A service \in context.required_services : service \in doc.services

(* A key bound to a did:jwks was served by its host, or at an https URI    *)
(* its host advertised, while this evaluation ran; nothing of an earlier   *)
(* evaluation is used (resolveJWKS, three fetches with changes between).   *)
KeysWerePublished ==
    (answer # None /\ answer.decision /\ method = "jwks") =>
        \A i \in DOMAIN answer.doc.methods :
            \E jwks \in vouched.jwks \ {None} :
                \E k \in DOMAIN jwks : jwks[k].key = answer.doc.methods[i].jwk

(* All three, of every method's approvals (Evaluate of the registries).    *)
ApprovalsAreGenuine == BoundToSubject /\ KeepsTheRole /\ KeysWerePublished

(* Decoding an identifier and encoding it again gives the identifier, so   *)
(* two spellings never decode to the same bytes (base58Decode against      *)
(* base58btcEncode, written independently in two packages).                *)
Base58Inverse ==
    (answer # None /\ answer.req.subject.did.method = "key") =>
        LET digits == answer.req.subject.did.id.digits
        IN base58btcEncode(base58Decode(digits)) = digits
=============================================================================

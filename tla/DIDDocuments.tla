---------------------------- MODULE DIDDocuments ----------------------------
(***************************************************************************)
(* What the DID registries do with a document once they hold it: the role  *)
(* constraints of the request context, the lookup of a verification method *)
(* by key or by identifier, and the decoding of the two methods whose      *)
(* identifier is the key (did:key, did:jwk).  The four packages hold       *)
(* copies of the same helpers; one operator stands for the copies, and the *)
(* differences between them are operators of their own.                    *)
(*                                                                         *)
(* did       [method, host, path] and scid (webvh), or [method, id]        *)
(* host      [labels, port]; a pattern adds wild (a leading "*.")          *)
(* key       [kty, crv, x, y]; an RSA key has n and e as x and y           *)
(* method    [id, type, jwk, multibase, kid] of a document, id being       *)
(*           [did, frag] with did = None for a relative "#frag"            *)
(* document  [id, methods, services]: a DID, a sequence, a set of types    *)
(***************************************************************************)
EXTENDS Base58, Selection

CONSTANTS None,
          Zero,         \* the fragment "0"
          KeyLength,    \* bytes of an Ed25519 key or of an x coordinate
          OnCurve       \* x coordinates of points on every curve used

(* JWKsMatch: only three key types are comparable.                         *)
JWKsMatch(a, b) ==
    /\ a.kty = b.kty
    /\ CASE a.kty = "OKP" -> a.crv = b.crv /\ a.x = b.x
         [] a.kty = "EC"  -> a.crv = b.crv /\ a.x = b.x /\ a.y = b.y
         [] a.kty = "RSA" -> a.x = b.x /\ a.y = b.y
         [] OTHER         -> FALSE

-----------------------------------------------------------------------------
(* decodeMultibaseKey: the codec's bytes choose the method type and the    *)
(* curve; Ed25519 and secp256k1 keys are cut to length, the others must    *)
(* have it.                                                                *)

Ed25519Key(bytes) ==
    IF Len(bytes) < KeyLength THEN None
    ELSE [kty |-> "OKP", crv |-> "Ed25519", x |-> SubSeq(bytes, 1, KeyLength), y |-> 0]

Decompressed(crv, bytes) ==
    IF Len(bytes) = KeyLength + 1 /\ bytes[1] \in {2, 3} /\ Tail(bytes) \in OnCurve
    THEN [kty |-> "EC", crv |-> crv, x |-> Tail(bytes), y |-> bytes[1] % 2]
    ELSE None

OfType(type, jwk) == IF jwk = None THEN None ELSE [type |-> type, jwk |-> jwk]

decodeMultibaseKey(multibase) ==
    LET bytes == base58Decode(multibase.digits)
        rest  == SubSeq(bytes, 3, Len(bytes))
        cut   == SubSeq(rest, 1, KeyLength + 1)
    IN IF multibase.encoding # "z" \/ Len(bytes) < 2 THEN None
       ELSE CASE bytes[1] = 237 -> OfType("Ed25519VerificationKey2020", Ed25519Key(rest))
              [] bytes[1] = 231 -> IF Len(rest) <= KeyLength THEN None
                                   ELSE OfType("EcdsaSecp256k1VerificationKey2019",
                                              Decompressed("secp256k1", cut))
              [] bytes[1] = 128 /\ bytes[2] = 36 ->
                     OfType("JsonWebKey2020", Decompressed("P-256", rest))
              [] bytes[1] = 129 /\ bytes[2] = 36 ->
                     OfType("JsonWebKey2020", Decompressed("P-384", rest))
              [] OTHER -> None

DecodeMultibaseKeyJWK(multibase) ==
    LET key == decodeMultibaseKey(multibase) IN IF key = None THEN None ELSE key.jwk

(* A document whose only method is the key in the identifier.              *)
SoleMethodDocument(did, frag, type, jwk) ==
    [id |-> did, services |-> {},
     methods |-> <<[id |-> [did |-> did, frag |-> frag], type |-> type,
                    jwk |-> jwk, multibase |-> None, kid |-> None]>>]

(* DIDKeyResolver.Resolve: it keeps a fragment, whose # is no base58 digit.*)
ResolveKey(subject) ==
    LET key == decodeMultibaseKey(subject.did.id)
    IN IF subject.frag # None \/ key = None THEN None
       ELSE SoleMethodDocument(subject.did, subject.did.id, key.type, key.jwk)

(* DIDJwkResolver.Resolve: the fragment is cut off first.                  *)
ResolveJwk(subject) ==
    LET jwk == subject.did.id
    IN IF jwk = None \/ jwk.private THEN None
       ELSE SoleMethodDocument(subject.did, Zero, "JsonWebKey2020", jwk.key)

-----------------------------------------------------------------------------
(* Role constraints: a member of the request context, empty when absent.   *)

\* A wildcard also stands for the bare domain.
matchesDomainOrApex(host, allowed) ==
    \E p \in allowed :
        /\ p.port = host.port
        /\ IF p.wild THEN IsSuffix(p.labels, host.labels) ELSE p.labels = host.labels

(* matchesDomain and its copies.  A wildcard needs at least one more label *)
(* in front, and the same port behind.                                     *)
matchesDomain(host, allowed) ==
    \E p \in allowed :
        /\ p.port = host.port
        /\ IF p.wild THEN IsStrictSuffix(p.labels, host.labels) ELSE p.labels = host.labels

DomainAllowed(did, context) ==
    \/ context.allowed_domains = {}
    \/ did.method \in {"key", "jwk"}      \* extractDomainFromDID: no domain
    \/ matchesDomain(did.host, context.allowed_domains)

HasVerificationMethods(doc, context) ==
    context.required_verification_methods \subseteq {doc.methods[i].type : i \in DOMAIN doc.methods}

(* did:jwks documents have no services and its check has no such clause.   *)
HasServices(did, doc, context) ==
    did.method # "jwks" => context.required_services \subseteq doc.services

checkPolicyConstraints(did, doc, context) ==
    /\ DomainAllowed(did, context)
    /\ HasVerificationMethods(doc, context)
    /\ HasServices(did, doc, context)

-----------------------------------------------------------------------------
(* The first verification method of the document that satisfies Test.      *)
FirstMethod(doc, Test(_)) ==
    IF \E i \in DOMAIN doc.methods : Test(doc.methods[i])
    THEN doc.methods[SelectInSeq(doc.methods, Test)]
    ELSE None

(* matchJWK of did:webvh, and the JWK case of verifyKeyBinding.            *)
matchJWK(doc, key) == FirstMethod(doc, LAMBDA vm : vm.jwk # None /\ JWKsMatch(key, vm.jwk))

(* matchJWK of did:web also reads a multibase key, when there is no JWK.   *)
MethodJWK(vm) ==
    IF vm.jwk = None /\ vm.multibase # None THEN DecodeMultibaseKeyJWK(vm.multibase) ELSE vm.jwk

matchWebJWK(doc, key) ==
    FirstMethod(doc, LAMBDA vm : MethodJWK(vm) # None /\ JWKsMatch(key, MethodJWK(vm)))

\* Only the fragment of the identifier is compared.
findVerificationMethodByFragment(doc, kid) ==
    IF kid = None THEN None ELSE FirstMethod(doc, LAMBDA vm : vm.id.frag = kid.frag)

(* findVerificationMethodByKid: the exact id, then a relative id resolved  *)
(* against the document, then the bare DID of a document with one method.  *)
findVerificationMethodByKid(doc, kid) ==
    LET exact == FirstMethod(doc, LAMBDA vm : vm.id = kid)
    IN CASE kid = None -> None
         [] kid # None /\ exact # None -> exact
         [] kid # None /\ exact = None /\ kid.did = None ->
                FirstMethod(doc, LAMBDA vm : vm.id = [did |-> doc.id, frag |-> kid.frag])
         [] kid # None /\ exact = None /\ kid.did # None ->
                IF kid = [did |-> doc.id, frag |-> None] /\ Len(doc.methods) = 1
                THEN doc.methods[1] ELSE None

(* matchKey of did:jwks: a key the fragment names is preferred, by kid or  *)
(* by thumbprint, and any other matching key will do.                      *)
matchKey(doc, key, frag) ==
    LET named == FirstMethod(doc, LAMBDA vm : /\ frag # None
                                              /\ frag \in {vm.kid, vm.id.frag}
                                              /\ JWKsMatch(key, vm.jwk))
    IN IF named # None THEN named ELSE FirstMethod(doc, LAMBDA vm : JWKsMatch(key, vm.jwk))

(* buildDIDDocument of did:jwks: a key without a thumbprint is left out; a *)
(* document without keys is an error (None).                               *)
Thumbprint(jwk) == IF jwk.key.kty \in {"OKP", "EC", "RSA", "oct"} THEN jwk.key ELSE None

buildDIDDocument(did, jwks) ==
    LET usable == Picked(jwks, {i \in DOMAIN jwks : Thumbprint(jwks[i]) # None})
    IN IF usable = <<>> THEN None
       ELSE [id |-> did, services |-> {},
             methods |-> [i \in DOMAIN usable |->
                 [id |-> [did |-> did, frag |-> Thumbprint(usable[i])], type |-> "JsonWebKey",
                  jwk |-> usable[i].key, multibase |-> None, kid |-> usable[i].kid]]]

(* AddDIDVerifierID: the document's own DID, when it is the one asked for. *)
DIDVerifierIDs(doc, did) == IF doc.id = did THEN {did} ELSE {}
=============================================================================

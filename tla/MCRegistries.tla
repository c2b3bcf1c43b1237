----------------------------- MODULE MCRegistries ----------------------------
(* Instances of the registries.  One host for each network DID method: the *)
(* did:webvh log grows to three entries under a genesis that commits to    *)
(* k2; did:web documents carry own, foreign and multibase methods; did:key *)
(* identifiers are encodings of byte strings around every length and codec *)
(* decodeMultibaseKey tells apart, and raw digit strings.                  *)
EXTENDS Registries, TLC

CONSTANTS c1, c2, k1, k2, f1, f2, u1, u2

Host(labels) == [labels |-> labels, port |-> ""]
Example == Host(<<"a", "example">>)

MCOnCurve == {<<5>>}

Ed(x)  == [kty |-> "OKP", crv |-> "Ed25519", x |-> <<x>>, y |-> 0]
P(x, y) == [kty |-> "EC", crv |-> "P-256", x |-> <<x>>, y |-> y]

Anyone == [allowed_domains |-> {}, required_verification_methods |-> {}, required_services |-> {}]
Within == [Anyone EXCEPT !.allowed_domains =
              {[wild |-> TRUE, labels |-> <<"example">>, port |-> ""]}]
Typed  == [Anyone EXCEPT !.required_verification_methods = {"JsonWebKey2020"},
                         !.required_services = {"issuer"}]
Edwards == [Anyone EXCEPT !.required_verification_methods = {"Ed25519VerificationKey2020"}]
Keyed   == [Within EXCEPT !.required_verification_methods = {"JsonWebKey"},
                          !.required_services = {"issuer"}]

Jwk(k) == [form |-> "jwk", value |-> k]
Kid(k) == [form |-> "kid", value |-> k]

Method(did, frag, k, mb) == [id |-> [did |-> did, frag |-> frag], type |-> "JsonWebKey2020",
                             jwk |-> k, multibase |-> mb, kid |-> None]

-----------------------------------------------------------------------------
(* did:webvh                                                               *)
State(s) == [scid |-> s, methods |-> <<Method(None, f1, Ed(1), None)>>, services |-> {"issuer"}]
Params(s, keys, next, off) ==
    [scid |-> s, updateKeys |-> keys, nextKeyHashes |-> next, deactivated |-> off]

FirstChoice(s, keys) == [versionTime |-> 1, parameters |-> Params(s, keys, {k2}, FALSE),
                         state |-> State(s), proof |-> k1]
MySCID == Log!SCIDOf(FirstChoice(None, {k1}))
OtherSCID == Log!SCIDOf(FirstChoice(None, {k1, k2}))
MCGenesis == Written(FirstChoice(MySCID, {k1}), 1, MySCID)

MCEntryChoices ==
    {[versionTime |-> t, parameters |-> Params(None, keys, next, off),
      state |-> State(MySCID), proof |-> signer] :
        t \in {2}, keys \in {{}, {k1}, {k2}}, next \in {{}, {k1}}, off \in BOOLEAN,
        signer \in {k1, k2}}
    \cup {[versionTime |-> 3, parameters |-> Params(None, keys, {}, FALSE),
           state |-> State(MySCID), proof |-> signer] :
        keys \in {{}, {k1}, {k2}}, signer \in {k1, k2}}
    \cup {FirstChoice(OtherSCID, {k1, k2}), FirstChoice(MySCID, {k1, k2})}
    \cup {[versionTime |-> 2, parameters |-> Params(None, {k2}, {}, FALSE),
           state |-> State(OtherSCID), proof |-> k2],
          [versionTime |-> Now + 2, parameters |-> Params(None, {k2}, {}, FALSE),
           state |-> State(MySCID), proof |-> k2],
          [versionTime |-> 2, parameters |-> Params(None, {k2}, {}, FALSE),
           state |-> State(MySCID), proof |-> None]}

-----------------------------------------------------------------------------
WebDID(path) == [method |-> "web", host |-> Example, path |-> path, scid |-> None]
MCDID == [webvh |-> [method |-> "webvh", host |-> Example, path |-> <<>>, scid |-> MySCID],
          web   |-> WebDID(<<>>),
          jwks  |-> [method |-> "jwks", host |-> Example, path |-> <<>>, scid |-> None]]

Multibase(bytes) == [encoding |-> "z", digits |-> base58btcEncode(bytes)]

MCDocuments ==
    {None} \cup
    {[id |-> d, services |-> s, methods |-> m] :
        d \in {WebDID(<<>>), WebDID(<<"">>), [WebDID(<<>>) EXCEPT !.host = Host(<<"example">>)]},
        s \in {{}, {"issuer"}},
        m \in {<<>>, <<Method(None, f1, Ed(1), None), Method(None, f2, None, Multibase(<<237, 1, 2>>))>>}}

(* did:key: byte strings of every kind, and digits with leading zeros.     *)
KeyBytes == {<<237, 1, 7>>, <<237, 1, 7, 9>>, <<237, 1>>, <<237>>, <<>>, <<0, 0, 3>>,
             <<231, 1, 2, 5>>, <<231, 1, 4, 5>>, <<231, 1, 2>>, <<128, 36, 3, 5>>,
             <<128, 36, 3, 5, 5>>, <<128, 37, 3, 5>>, <<129, 36, 2, 5>>, <<129, 36, 2, 6>>}
KeyIds == {Multibase(b) : b \in KeyBytes}
          \cup {[encoding |-> "z", digits |-> d] : d \in {<<0>>, <<0, 0, 1, 57>>, <<57, 0, 57>>}}
          \cup {[encoding |-> "u", digits |-> base58btcEncode(<<237, 1, 7>>)]}
JwkIds == {None} \cup {[key |-> k, private |-> p] : k \in {Ed(7), P(5, 1)}, p \in BOOLEAN}
          \cup {[key |-> [kty |-> "oct", crv |-> "", x |-> <<1>>, y |-> 0], private |-> FALSE]}

LocalRequests(m, ids) ==
    UNION {LET did == [method |-> m, id |-> id]
               frag == IF m = "key" THEN id ELSE Zero
           IN [subject : [did : {did}, frag : {None, f1}], type : {"jwk", ""},
               key : {None, Jwk(Ed(7)), Jwk(P(5, 1)), Kid(None), Kid([did |-> did, frag |-> None]),
                      Kid([did |-> None, frag |-> frag]), Kid([did |-> did, frag |-> frag]),
                      Kid([did |-> WebDID(<<>>), frag |-> frag])},
               context : {Anyone, Within, Typed, Edwards}] : id \in ids}

MCRequests ==
    [webvh |-> [subject : [did : {MCDID.webvh}, frag : {None, f1}], type : {"jwk"},
                key : {None, Jwk(Ed(1))}, context : {Typed}],
     web   |-> [subject : [did : {WebDID(<<>>), WebDID(<<"">>), WebDID(<<"p">>)}, frag : {None, f1}],
                type : {"jwk", "x5c", ""}, key : {None, Jwk(Ed(1)), Jwk(Ed(2)), Jwk(P(1, 0))},
                context : {Anyone, Within, Typed,
                           [Within EXCEPT !.allowed_domains = {[wild |-> TRUE,
                               labels |-> Example.labels, port |-> ""]}]}],
     local |-> LocalRequests("key", KeyIds) \cup LocalRequests("jwk", JwkIds),
     oidfed |-> {}, emrtd |-> {}, mds3 |-> {}, lists |-> {},
     jwks  |-> [subject : [did : {MCDID.jwks}, frag : {None, f1, Ed(2)}], type : {"jwk"},
                key : {None, Jwk(Ed(1)), Jwk(Ed(2))}, context : {Keyed, Edwards}]]

Served(k, kid) == [key |-> k, kid |-> kid]
MCJWKSChoices == {None, <<Served(Ed(1), f1)>>,
                  <<Served([kty |-> "new", crv |-> "", x |-> <<1>>, y |-> 0], f1),
                    Served(Ed(2), f1), Served(Ed(1), None)>>}

-----------------------------------------------------------------------------
(* OpenID Federation: one entity with a short and a long chain.            *)
Chain(depth, expiries, marks, types) ==
    [depth |-> depth, expiries |-> expiries, marks |-> marks, types |-> types,
     key |-> "k", valid |-> TRUE]

Short == Chain(2, {1, 2}, {"tm"}, {"op"})
Long  == Chain(3, {2}, {"tm", "pid"}, {"rp"})
MCChains == ("e" :> {Short, Long})

AnyFed == [entity |-> "e", marks |-> {}, types |-> {}, credentials |-> {}, depth |-> 0,
           cacheControl |-> "", supplied |-> NoChain, key |-> ""]
MCFedRequests ==
    {[AnyFed EXCEPT !.depth = 2],
     [AnyFed EXCEPT !.key = "k"],
     [AnyFed EXCEPT !.types = {"op"}, !.cacheControl = "max-age=0"],
     [AnyFed EXCEPT !.types = {"rp"}, !.credentials = {"pid"}],
     [AnyFed EXCEPT !.types = {"vp"}, !.supplied = Short, !.cacheControl = "no-store", !.key = "other"]}
MCCredentialMarks == ("pid" :> {"pid"})

-----------------------------------------------------------------------------
(* eMRTD: a state whose CSCA key k1 was rolled over to k2 under one name.  *)
(* The CRL is signed with the new key and lists a signer of the old one.   *)
CSCA(k) == [subject |-> "csca", issuer |-> "csca", key |-> k, signer |-> k, weak |-> FALSE,
            ca |-> TRUE, certSign |-> TRUE, signs |-> FALSE, from |-> 1, to |-> 3,
            country |-> "S", serial |-> 0, pathLen |-> 0]
LinkCert == [CSCA("k2") EXCEPT !.signer = "k1", !.serial = 7]
Sub == [CSCA("s") EXCEPT !.subject = "sub", !.signer = "k1", !.serial = 8, !.to = 2]
DS(signer, issuer, serial) ==
    [CSCA("d") EXCEPT !.subject = "ds", !.issuer = issuer, !.signer = signer, !.serial = serial,
                      !.ca = FALSE, !.certSign = FALSE, !.signs = TRUE, !.pathLen = -1]
CRL(signer, serials) == [issuer |-> "csca", signer |-> signer, weak |-> FALSE, serials |-> serials,
                         country |-> "S", complete |-> TRUE]

MCCountries == {"S", "T"}
OfS(files) == [c \in MCCountries |-> IF c = "S" THEN files ELSE {}]
Tree(anchors, crls) == [anchors |-> OfS(anchors), crls |-> OfS(crls), dirs |-> TRUE]
MCFirstTree == Tree({CSCA("k1")}, {})
MCTrees ==
    {MCFirstTree,
     Tree({CSCA("k1"), CSCA("k2")}, {CRL("k2", {1}), CRL("x", {2})}),
     Tree({CSCA("k2"), [CSCA("x") EXCEPT !.country = "T"]}, {}),
     Tree({CSCA("k1")}, {[CRL("k1", {2}) EXCEPT !.complete = FALSE]}),
     [MCFirstTree EXCEPT !.dirs = FALSE]}

MCDERequests ==
    [wellFormed : {TRUE}, country : MCCountries,
     dsc : {DS("k1", "csca", 1), DS("k1", "csca", 2), DS("k2", "csca", 3), DS("s", "sub", 4),
            DS("k1", "other", 2), [DS("k1", "csca", 5) EXCEPT !.country = "T"], Sub},
     extras : {{}, {LinkCert}, {Sub, CSCA("x")}}, at : {2, 3},
     enforce : {TRUE}, override : {-1, 1}]
    \cup [wellFormed : BOOLEAN, country : {"S"}, dsc : {DS("s", "sub", 4)},
          extras : {{Sub, CSCA("x")}}, at : {2}, enforce : {FALSE}, override : {-1}]

-----------------------------------------------------------------------------
(* MDS3: the first blob knows one acceptable model, the second the other.  *)
MCAcceptable == (0 :> {"m1"} @@ 1 :> {"m1", "m2"} @@ 2 :> {"m2"})

-----------------------------------------------------------------------------
(* Lists: a root that has issued a list signer, an issuer and a reader CA; *)
(* a sub-CA under the reader CA; a leaf enrolled for itself.               *)
MDoc(subject, issuer, ca) ==
    [subject |-> subject, issuer |-> issuer, key |-> subject, signer |-> issuer, ca |-> ca]
Root == MDoc("root", "root", TRUE)
Signer == MDoc("signer", "root", FALSE)
ReaderCA == MDoc("rca", "rca", TRUE)
SubCA == MDoc("sca", "rca", TRUE)
Leaf == MDoc("leaf", "sca", FALSE)
Enrolled == MDoc("enrolled", "rca", FALSE)
Stranger == MDoc("stranger", "stranger", TRUE)

ListEntry(c, types) == [cert |-> c, docTypes |-> types]
By(key, chain) == [key |-> key, chain |-> chain]
Doc(signer, infos) == [signer |-> signer, infos |-> infos, published |-> TRUE]
Genuine == By("signer", <<Signer>>)
Infos == {<<ListEntry(ReaderCA, {"mdl"})>>, <<ListEntry(Enrolled, {"pid"}), ListEntry(ReaderCA, {"mdl"})>>,
          <<ListEntry(SubCA, {"mdl"}), ListEntry(Enrolled, {"mdl"})>>}
MCOffers ==
    [l \in {"v", "r"} |->
        {Doc(Genuine, i) : i \in Infos}
        \cup {Doc(s, <<ListEntry(Stranger, {"mdl"})>>) :
                s \in {By("stranger", <<Stranger>>), By("stranger", <<Signer>>), By("", <<>>)}}]
    @@ ("i" :> {Doc(Genuine, <<ListEntry(ReaderCA, {})>>), Doc(Genuine, <<>>),
                [Doc(Genuine, <<ListEntry(SubCA, {})>>) EXCEPT !.published = FALSE]})

MCPresented == {<<Leaf, SubCA>>, <<Leaf>>, <<Leaf, SubCA, Enrolled>>, <<Enrolled>>, <<Enrolled, Stranger>>,
                <<Leaf, Enrolled, SubCA>>, <<SubCA>>}
MCKindOf == ("v" :> "vical" @@ "r" :> "rical" @@ "i" :> "iaca")
MCRootOf == [l \in {"v", "r", "i"} |-> Root]
=============================================================================

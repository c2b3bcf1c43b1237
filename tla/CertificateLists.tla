-------------------------- MODULE CertificateLists --------------------------
(***************************************************************************)
(* What the registries of mdoc certificates decide from the list they have *)
(* in hand: VICAL (issuers; pkg/registry/vical), RICAL (readers;           *)
(* pkg/registry/mdocrical) and the IACA certificates an issuer publishes   *)
(* itself (pkg/registry/mdociaca).  TrustData has the interleavings of     *)
(* their caches; here a list is fetched and stored in one step.            *)
(*                                                                         *)
(* certificate  [subject, issuer, key, signer, ca]                         *)
(* document     [signer, infos, published]: the certificate chain of the   *)
(*              COSE signature with the key that made it, the entries in   *)
(*              order, [cert, docTypes], and, for an issuer, whether its   *)
(*              metadata names the endpoint                                *)
(*                                                                         *)
(* x509.Verify is external.  The dates of certificates are left out.       *)
(***************************************************************************)
EXTENDS Naturals, SequencesExt

CONSTANTS Lists,              \* the configured VICALs and RICALs, and issuers
          KindOf,             \* KindOf[l]: "vical", "rical" or "iaca"
          RootOf,             \* RootOf[l]: the configured root of a VICAL or RICAL
          IssuerAllowlist,    \* configured; {} allows all
          Offers,             \* Offers[l]: the documents l may come to serve
          Presented,          \* chains requests carry, leaf first
          DocTypes, AllowLists,
          NoDocument,         \* nothing is served
          NoList, NoEntry

(* A request without certificates is denied before any list is read.       *)
ASSUME ListsAssumption ==
    /\ \A chain \in Presented : chain \in Seq(Range(chain)) /\ chain # <<>>
    /\ \A l \in Lists : \A d \in Offers[l] : d.infos \in Seq(Range(d.infos))

VARIABLES offer,   \* offer[l]: what is served at l
          list     \* list[l]: the list cached, or NoList

listVars == <<offer, list>>

ListsInit == offer = [l \in Lists |-> NoDocument] /\ list = [l \in Lists |-> NoList]

-----------------------------------------------------------------------------
(* x509.Certificate.Verify: the chains from the first certificate to a     *)
(* root; what lies between can issue.                                      *)
VerifiedChains(chain, roots) ==
    LET signs(p, c) == c.ca /\ c.subject = Last(p).issuer /\ c.key = Last(p).signer /\ c \notin Range(p)
        within[n \in 1 .. Len(chain)] ==
            IF n = 1 THEN {<<chain[1]>>}
            ELSE within[n - 1] \cup
                 UNION {{Append(p, c) : c \in {c \in Range(Tail(chain)) : signs(p, c)}} : p \in within[n - 1]}
        open == within[Len(chain)]
    IN {p \in open : p = <<chain[1]>> /\ chain[1] \in roots}
       \cup UNION {{Append(p, c) : c \in {c \in roots : signs(p, c)}} : p \in open}

Certs(infos) == {infos[i].cert : i \in DOMAIN infos}

(* The first certificate of the chain that the list names, and the first   *)
(* entry that names it.                                                    *)
findFirstMatchingCertificateInfo(chain, infos) ==
    IF Range(chain) \cap Certs(infos) = {} THEN NoEntry
    ELSE LET c == chain[SelectInSeq(chain, LAMBDA x : x \in Certs(infos))]
         IN infos[SelectInSeq(infos, LAMBDA e : e.cert = c)]

-----------------------------------------------------------------------------
(* VICAL: a certificate of the chain is listed, and the chain verifies.    *)
VicalEvaluate(chain, infos, docType) ==
    LET matched == findFirstMatchingCertificateInfo(chain, infos)
    IN /\ matched # NoEntry
       /\ VerifiedChains(chain, Certs(infos)) # {}
       /\ docType # "" => docType \in matched.docTypes

(* RICAL: only CAs are roots; an entry of its own governs a reader when it *)
(* lies on a verified path, and otherwise the entry of a root.             *)
RicalChains(chain, infos) == VerifiedChains(chain, {c \in Certs(infos) : c.ca})

\* An entry governs wherever its certificate stands in the chain.
resolveCertificateInfoAnywhere(chain, infos) ==
    LET matched == findFirstMatchingCertificateInfo(chain, infos)
    IN CASE RicalChains(chain, infos) = {} -> {}
         [] RicalChains(chain, infos) # {} /\ matched # NoEntry -> {matched}
         [] OTHER -> {infos[SelectInSeq(infos, LAMBDA e : e.cert = Last(p))] : p \in RicalChains(chain, infos)}

resolveCertificateInfo(chain, infos) ==
    LET paths == RicalChains(chain, infos)
        matched == findFirstMatchingCertificateInfo(chain, infos)
        onPath == matched # NoEntry /\ \E p \in paths : matched.cert \in Range(p)
    IN IF paths # {} /\ onPath THEN {matched}
       ELSE {infos[SelectInSeq(infos, LAMBDA e : e.cert = Last(p))] : p \in paths}

(* Trust constraints have no meaning yet: an entry with some is accepted.  *)
RicalEvaluate(chain, infos) == resolveCertificateInfo(chain, infos) # {}

(* IACA: the issuer is allowed by the configuration and by the policy, its *)
(* endpoint exists where the policy requires that, and the chain verifies. *)
IacaEvaluate(l, chain, infos, allowed, requireEndpoint) ==
    /\ IssuerAllowlist = {} \/ l \in IssuerAllowlist
    /\ allowed = {} \/ l \in allowed
    /\ requireEndpoint => offer[l].published
    /\ infos # <<>> /\ VerifiedChains(chain, Certs(infos)) # {}

Decision(l, chain, docType, allowed, require) ==
    /\ list[l] # NoList
    /\ CASE KindOf[l] = "vical" -> VicalEvaluate(chain, list[l].infos, docType)
         [] KindOf[l] = "rical" -> RicalEvaluate(chain, list[l].infos)
         [] OTHER -> IacaEvaluate(l, chain, list[l].infos, allowed, require)

-----------------------------------------------------------------------------
(* A VICAL or RICAL is signed by the leaf of a chain that leads to the     *)
(* configured root, and is not empty.                                      *)
VerifiedList(l, d) ==
    IF KindOf[l] = "iaca" THEN d.published
    ELSE /\ d.signer.chain # <<>> /\ VerifiedChains(d.signer.chain, {RootOf[l]}) # {}
         /\ d.signer.key = d.signer.chain[1].key
         /\ d.infos # <<>>

(* getVical, getRical, getIACAs when the cache is empty or has lapsed.     *)
FetchList(l) ==
    /\ offer[l] # NoDocument /\ VerifiedList(l, offer[l])
    /\ list' = [list EXCEPT ![l] = offer[l]]
    /\ UNCHANGED offer

(* Refresh clears the cache.                                               *)
ClearList(l) ==
    /\ list[l] # NoList
    /\ list' = [list EXCEPT ![l] = NoList]
    /\ UNCHANGED offer

Offer(l, d) ==
    /\ d # offer[l]
    /\ offer' = [offer EXCEPT ![l] = d]
    /\ UNCHANGED list

ListsNext == \E l \in Lists : \/ FetchList(l) \/ ClearList(l)
                              \/ \E d \in Offers[l] : Offer(l, d)

-----------------------------------------------------------------------------
(* The keys that sign what leads to certificates of a list: those of its   *)
(* CAs, and of CAs of the chain that such a key has signed.                *)
KeysBelow(chain, roots) ==
    LET all == {c.key : c \in Range(chain) \cup roots}
    IN {k \in all : \A S \in SUBSET all :
            /\ {c.key : c \in {c \in roots : c.ca}} \subseteq S
            /\ \A c \in Range(chain) : c.ca /\ c.signer \in S => c.key \in S
            => k \in S}

(* An approval rests on the list: the leaf is listed, or a key the list    *)
(* vouches for has signed it.  A reader needs the second unless it is a    *)
(* listed CA itself, and the entry that governs it is one its path goes    *)
(* through, also when the reader presents certificates that have nothing   *)
(* to do with it (resolveCertificateInfo).                                 *)
ListedAnchorsDecide ==
    \A l \in Lists, chain \in Presented, t \in DocTypes \cup {""}, a \in AllowLists, q \in BOOLEAN :
        Decision(l, chain, t, a, q) =>
            LET infos == list[l].infos
                listed == chain[1] \in Certs(infos) /\ (KindOf[l] = "rical" => chain[1].ca)
            IN /\ listed \/ chain[1].signer \in KeysBelow(chain, Certs(infos))
               /\ KindOf[l] = "rical" =>
                     \A e \in resolveCertificateInfo(chain, infos) :
                        \E p \in RicalChains(chain, infos) : e.cert \in Range(p)
=============================================================================

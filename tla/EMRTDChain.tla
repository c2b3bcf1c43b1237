----------------------------- MODULE EMRTDChain -----------------------------
(***************************************************************************)
(* Which document signers of electronic passports are accepted             *)
(* (pkg/registry/emrtd/chain.go): a path of signatures from the document   *)
(* signer (DSC) over link certificates of the request to a reviewed anchor *)
(* (CSCA) of the issuing state, every certificate valid at the signing     *)
(* time and none of them revoked.                                          *)
(*                                                                         *)
(* certificate  [subject, issuer, key, signer, weak, ca, certSign, signs,  *)
(*              from, to, country, serial, pathLen]: key is its own, signer *)
(*              the one that signed it; signs says that keyUsage is absent *)
(*              or includes digitalSignature; pathLen is -1 when it has no *)
(*              constraint                                                 *)
(* CRL          [issuer, signer, weak, serials, country, complete]         *)
(* request      [wellFormed, country, dsc, extras, at, enforce, override]: *)
(*              the last two are the policy's path length setting, -1 for  *)
(*              no override                                                *)
(***************************************************************************)
EXTENDS Integers, FiniteSets, SequencesExt

CONSTANTS Countries, NoCountry

maxChainLen == 5

issuedBy(child, parent) ==
    child.issuer = parent.subject /\ ~child.weak /\ child.signer = parent.key

canIssue(c) == c.ca /\ c.certSign

Extends(path, c) == c \notin Range(path) /\ issuedBy(Last(path), c)

(* Every path from the signer to an anchor.  The links come from the       *)
(* request, must be able to issue and are never anchors.                   *)
buildPaths(dsc, extras, anchors) ==
    LET within[n \in 1 .. maxChainLen - 1] ==
            IF n = 1 THEN {<<dsc>>}
            ELSE LET P == within[n - 1]
                 IN P \cup UNION {{Append(p, e) : e \in {e \in extras \ anchors :
                                      Extends(p, e) /\ canIssue(e)}} : p \in P}
    IN UNION {{Append(p, a) : a \in {a \in anchors : Extends(p, a)}} : p \in within[maxChainLen - 1]}

selfIssued(c) == c.issuer = c.subject

(* For an issuer the constraint limits the links below it that are not     *)
(* self-issued; the override of the policy replaces what it says itself.   *)
checkPathLen(path, r) ==
    r.enforce => \A i \in 2 .. Len(path) :
        LET limit == IF r.override >= 0 THEN r.override ELSE path[i].pathLen
        IN limit >= 0 => Cardinality({j \in 2 .. i - 1 : ~selfIssued(path[j])}) <= limit

\* Only the issuer on the path speaks for its name.
crlAuthenticOnPath(crl, issuer, anchors) == crl.signer = issuer.key

(* Signed by the issuer on the path, or by any anchor of the state under   *)
(* the name of the CRL's issuer: states sign one CRL with their newest key.*)
crlAuthentic(crl, issuer, anchors) ==
    \/ crl.signer = issuer.key
    \/ \E a \in anchors : a.subject = crl.issuer /\ crl.signer = a.key

isRevoked(cert, issuer, crls, anchors) ==
    \E crl \in crls : /\ crl.issuer = cert.issuer /\ ~crl.weak
                      /\ crlAuthentic(crl, issuer, anchors)
                      /\ cert.serial \in crl.serials

ValidAt(c, t) == c.from <= t /\ t <= c.to

checkPath(path, r, crls, anchors) ==
    /\ checkPathLen(path, r)
    /\ \A i \in 1 .. Len(path) : ValidAt(path[i], r.at)
    /\ ~path[1].ca /\ path[1].signs
    /\ \A i \in 1 .. Len(path) - 1 : ~isRevoked(path[i], path[i + 1], crls, anchors)

(* The answers of evaluate to r under the anchors and CRLs loaded.  The    *)
(* search gives up when its budget is spent or the request is cancelled.   *)
evaluate(r, anchors, crls) ==
    LET mine == anchors[r.country]
        paths(state) == buildPaths(r.dsc, r.extras, anchors[state])
        named == \E a \in mine : a.subject = r.dsc.issuer
    IN CASE ~r.wellFormed -> {"malformed_request"}
         [] r.wellFormed /\ mine = {} -> {"unknown_country"}
         [] r.wellFormed /\ mine # {} /\ r.dsc.country \notin {NoCountry, r.country} ->
                {"country_mismatch"}
         [] OTHER -> {"chain_invalid"} \cup
                IF \E p \in paths(r.country) : checkPath(p, r, crls[r.country], mine) THEN {"allow"}
                ELSE IF paths(r.country) # {} THEN {"path_refused"}
                ELSE IF \E s \in Countries \ {r.country} : paths(s) # {} THEN {"country_mismatch"}
                ELSE IF named THEN {"chain_invalid"} ELSE {"no_anchor"}

-----------------------------------------------------------------------------
(* The keys that the anchors vouch for, directly or through links.         *)
VouchedKeys(extras, anchors, t) ==
    LET all == {c.key : c \in extras \cup anchors}
    IN {k \in all : \A S \in SUBSET all :
            /\ {a.key : a \in {a \in anchors : ValidAt(a, t)}} \subseteq S
            /\ \A e \in extras : canIssue(e) /\ ValidAt(e, t) /\ ~e.weak /\ e.signer \in S => e.key \in S
            => k \in S}

(* What an approval means, whatever links the request carries: the signer  *)
(* was valid when it signed, a key that the state's anchors vouch for has  *)
(* signed it, and no CRL under its issuer's name that any of the state's   *)
(* anchors of that name has signed lists it.                               *)
VouchedSigner(r, anchors, crls) ==
    /\ ValidAt(r.dsc, r.at) /\ ~r.dsc.ca
    /\ r.dsc.signer \in VouchedKeys(r.extras, anchors[r.country], r.at)
    /\ \A crl \in crls[r.country] :
          ~crl.weak /\ (\E a \in anchors[r.country] :
                            a.subject = crl.issuer /\ a.subject = r.dsc.issuer /\ crl.signer = a.key)
              => r.dsc.serial \notin crl.serials
=============================================================================

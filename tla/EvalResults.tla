---------------------------- MODULE EvalResults -----------------------------
(***************************************************************************)
(* How the strategies of pkg/registry/strategies.go turn what the          *)
(* registries returned into one response.                                  *)
(*                                                                         *)
(* A result is what one goroutine sends: the registry it came from, its    *)
(* kind and whether the response's reason carries the registry's own deny  *)
(* code and admin detail.  Code and admin detail are free-form values in   *)
(* the program; here they are named after the registry that produced them, *)
(* so that a value that surfaces in a response can be traced.              *)
(***************************************************************************)
EXTENDS Naturals, Sequences, FiniteSets

CONSTANTS Registries,   \* the registered registries
          Names,        \* registry names; Register permits duplicates
          NameOf,       \* NameOf[r]: Info().Name of r
          IdsOf,        \* IdsOf[r]: verifier identifiers an allow of r carries
          None          \* absent code, admin detail or registry

ASSUME NamesAssumption == /\ NameOf \in [Registries -> Names]
                          /\ None \notin Registries \cup Names
                          /\ DOMAIN IdsOf = Registries

(* "error": err # nil, a panic or an open circuit; "nil": no response.     *)
Kinds == {"allow", "deny", "nil", "error"}

Results == [reg : Registries, kind : Kinds, detailed : BOOLEAN]

IsDenial(res) == res.kind = "deny"
IsAllow(res)  == res.kind = "allow"

Allows(results) == {i \in 1 .. Len(results) : IsAllow(results[i])}

Denials(results) == {i \in 1 .. Len(results) : IsDenial(results[i])}

Earliest(positions) == CHOOSE i \in positions : \A j \in positions : i <= j

\* The first denial's code, whether or not another registry denied too.
promoteFirstDenyCode(results) ==
    LET first == Earliest(Denials(results))
    IN  IF Denials(results) # {} /\ results[first].detailed THEN results[first].reg ELSE None

(* The deny code shown at the top level: that of the only explicit denial. *)
(* Errors, skips and missing responses are not explicit denials.           *)
promoteSingleDenyCode(results) ==
    LET first == Earliest(Denials(results))
    IN  IF Cardinality(Denials(results)) = 1 /\ results[first].detailed
        THEN results[first].reg ELSE None

(* The entries of all_results that denied, handed to the same function.    *)
promoteAllResultsDenyCode(results) == promoteSingleDenyCode(results)

\* The scan goes on past the first allow: a later one of that name wins.
promoteLastNamedAdmin(results, name) ==
    LET named == {i \in Allows(results) : NameOf[results[i].reg] = name}
        last  == CHOOSE i \in named : \A j \in named : j <= i
    IN  IF results[last].detailed THEN results[last].reg ELSE None

(* The admin detail of the first allowing result of the named registry.    *)
promoteSelectedAdmin(results, name) ==
    LET first == Earliest({i \in Allows(results) : NameOf[results[i].reg] = name})
    IN  IF results[first].detailed THEN results[first].reg ELSE None

(* registries_matched[0].                                                  *)
firstMatched(results) == NameOf[results[Earliest(Allows(results))].reg]

promoteSingleAllowAdmin(results) ==
    IF Cardinality(Allows(results)) = 1
    THEN promoteSelectedAdmin(results, firstMatched(results))
    ELSE None

(* Duplicate (type, id) pairs are dropped and the rest sorted: a set.      *)
mergeVerifierIDs(results) ==
    UNION {IdsOf[results[i].reg] : i \in Allows(results)}

-----------------------------------------------------------------------------
(* The responses.                                                          *)
Answers == [decision : BOOLEAN,
            registry : Names \cup {None},
            code     : Registries \cup {None},
            admin    : Registries \cup {None},
            ids      : SUBSET UNION {IdsOf[r] : r \in Registries}]

NoApplicable == [decision |-> FALSE, registry |-> None, code |-> None,
                 admin |-> None, ids |-> {}]

(* The response of the registry that matched first, handed on.             *)
MatchAnswer(res) == [decision |-> TRUE,
                     registry |-> NameOf[res.reg],
                     code     |-> None,
                     admin    |-> IF res.detailed THEN res.reg ELSE None,
                     ids      |-> IdsOf[res.reg]]

NoMatchAnswer(results) ==
    LET code == promoteSingleDenyCode(results)
    IN  [decision |-> FALSE, registry |-> None, code |-> code,
         admin |-> code, ids |-> {}]

AllAnswer(results) ==
    IF Allows(results) = {}
    THEN LET code == promoteAllResultsDenyCode(results)
         IN  [decision |-> FALSE, registry |-> None, code |-> code,
              admin |-> code, ids |-> {}]
    ELSE [decision |-> TRUE, registry |-> None, code |-> None,
          admin    |-> promoteSingleAllowAdmin(results),
          ids      |-> mergeVerifierIDs(results)]

BestAnswer(results) ==
    LET all  == AllAnswer(results)
        best == firstMatched(results)
    IN  IF ~all.decision THEN all
        ELSE [all EXCEPT !.registry = best,
                         !.admin = promoteSelectedAdmin(results, best)]
=============================================================================

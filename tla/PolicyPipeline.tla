--------------------------- MODULE PolicyPipeline ---------------------------
(***************************************************************************)
(* What RegistryManager.evaluate does to a request before any registry is  *)
(* consulted: validation, sanitization of the client's context, the stash  *)
(* of the original subject id, its normalization, the policy of the        *)
(* action, the entry checks, and the constraints written into the context. *)
(* The request object is mutated in place, and an in-process caller may    *)
(* evaluate the object again.                                              *)
(*                                                                         *)
(* An identifier is a sequence of scheme prefixes followed by a bare name: *)
(* <<"x509_san_dns", "h">> is "x509_san_dns:h", <<"https", "h">> is        *)
(* "https://h" and <<>> the empty string.  A context maps every key to the *)
(* value it holds, or to None.                                             *)
(***************************************************************************)
EXTENDS Naturals, Sequences, FiniteSets

CONSTANTS Requests,       \* request objects of in-process callers and handlers
          ClientRequests, \* the requests clients may send
          Policies,       \* the policies the configuration may define
          PolicyOf,       \* PolicyOf[p]: the configured policy named p
          OtherActions,   \* action names for which no policy can be defined
          Registries,
          SupportedTypes, \* SupportedTypes[r]: resource types of r, "*" for any
          Resolvers,      \* registries that support resolution-only requests
          ClientKeys,     \* clientSuppliableContextKeys
          ControlKeys,    \* the context keys only policies write
          Segments,       \* the scheme prefixes and bare names of identifiers
          ClientValues,   \* values a client may put under any key
          MaxWarned,      \* maxWarnedUnknownActions
          None

Keys        == ClientKeys \cup ControlKeys \cup {"_original_subject_id", "_policy"}
ActionNames == Policies \cup OtherActions \cup {""}
KeyTypes    == {"jwk", "x5c", "kid"}

(* Request objects whose context holds values of V.                        *)
RequestsWith(V) ==
    [subjectType : STRING, subject : Seq(Segments), resourceId : Seq(Segments),
     type : STRING, hasKey : BOOLEAN, context : [Keys -> V],
     parameters : [Keys -> ClientValues \cup {None}], action : ActionNames]

ASSUME PipelineAssumption ==
    /\ "" \notin Policies \cup OtherActions
    /\ Policies \cap OtherActions = {}
    /\ None \notin ActionNames
    /\ (ClientKeys \cup {"_original_subject_id", "_policy"}) \cap ControlKeys = {}
    /\ {"_original_subject_id", "_policy"} \cap ClientKeys = {}
    /\ "https" \in Segments
    /\ MaxWarned \in Nat
    /\ \A p \in Policies : /\ PolicyOf[p].sets \subseteq ClientKeys \cup ControlKeys
                           /\ PolicyOf[p].requireKeyBinding \in BOOLEAN
    /\ ClientRequests \subseteq RequestsWith(ClientValues \cup {None})

VARIABLES pm,       \* the installed PolicyManager
          sent,     \* sent[q]: the request as its caller made it, or None
          req,      \* req[q]: the request object now
          outcome,  \* outcome[q]: "none", "pending", "denied" or "dispatched"
          consulted,\* consulted[q]: registries the request was dispatched to
          warned    \* warnedUnknown

vars == <<pm, sent, req, outcome, consulted, warned>>

NoManager == [policies |-> {}, default |-> None, failClosed |-> FALSE, installed |-> FALSE]

Managers == [policies : SUBSET Policies, default : Policies \cup {None},
             failClosed : BOOLEAN, installed : BOOLEAN]

Init == /\ pm = NoManager
        /\ sent = [q \in Requests |-> None]
        /\ req = [q \in Requests |-> None]
        /\ outcome = [q \in Requests |-> "none"]
        /\ consulted = [q \in Requests |-> {}]
        /\ warned = {}

-----------------------------------------------------------------------------
(* The PolicyManager.                                                      *)

IsUnknownAction(name) == name # "" /\ name \notin pm.policies

GetPolicy(name) == IF name \in pm.policies THEN name ELSE pm.default

(* resolvePolicyContext: no manager, no policy.                            *)
PolicyFor(r) == IF pm.installed THEN GetPolicy(r.action) ELSE None

(* firstUnknownWarning remembers the name unless the set is full.          *)
firstUnknownWarning(name) ==
    IF Cardinality(warned) >= MaxWarned THEN warned ELSE warned \cup {name}

WarnUnknown(r) == warned' = IF pm.installed /\ IsUnknownAction(r.action)
                            THEN firstUnknownWarning(r.action)
                            ELSE warned

-----------------------------------------------------------------------------
(* The request.                                                            *)

IsResolutionOnlyRequest(r) == r.type = "" \/ ~r.hasKey

\* Validation without the match of resource.id.
ValidAnyResourceId(r) ==
    /\ r.subjectType \in {"key", "url"} /\ r.subject # <<>>
    /\ ~IsResolutionOnlyRequest(r) => r.type \in KeyTypes /\ r.resourceId # <<>>

Valid(r) ==
    /\ r.subjectType \in {"key", "url"} /\ r.subject # <<>>
    /\ IF IsResolutionOnlyRequest(r)
       THEN r.resourceId \in {<<>>, r.subject}
       ELSE r.type \in KeyTypes /\ r.resourceId = r.subject

NormalizeSubjectID(id) ==
    CASE id = <<>> -> id
      [] id # <<>> /\ Head(id) = "x509_san_dns" -> <<"https">> \o Tail(id)
      [] id # <<>> /\ Head(id) \in {"x509_san_uri", "decentralized_identifier"} -> Tail(id)
      [] OTHER -> id

\* Sanitization that keeps everything a client sent.
sanitizeNothing(context) == context

sanitizeRequestContext(context) ==
    [k \in Keys |-> IF k \in ClientKeys THEN context[k] ELSE None]

StashOriginalSubjectID(context, id) == [context EXCEPT !["_original_subject_id"] = id]

Prepared(r) ==
    [r EXCEPT !.context = StashOriginalSubjectID(sanitizeRequestContext(r.context), r.subject),
              !.subject = NormalizeSubjectID(r.subject)]

(* Client parameters first, through the allowlist; then what the policy    *)
(* sets, so that policy wins.  A value a policy writes is modelled by the  *)
(* policy's name.                                                          *)
applyPolicyToRequest(r, p) ==
    [r EXCEPT !.context =
        [k \in Keys |->
            IF p # None /\ k = "_policy" THEN p
            ELSE IF p # None /\ k \in PolicyOf[p].sets THEN p
            ELSE IF k \in ClientKeys /\ r.parameters[k] # None THEN r.parameters[k]
            ELSE r.context[k]]]

\* The policy's list of registries is ignored for resolution-only requests.
applicableUnfiltered(r, p) ==
    {g \in Registries :
        \/ IsResolutionOnlyRequest(r) /\ g \in Resolvers
        \/ /\ p # None /\ PolicyOf[p].registries # {} => g \in PolicyOf[p].registries
           /\ SupportedTypes[g] \cap {r.type, "*"} # {}}

getApplicableRegistriesWithPolicy(r, p) ==
    {g \in Registries :
        /\ p # None /\ PolicyOf[p].registries # {} => g \in PolicyOf[p].registries
        /\ \/ IsResolutionOnlyRequest(r) /\ g \in Resolvers
           \/ SupportedTypes[g] \cap {r.type, "*"} # {}}

-----------------------------------------------------------------------------
(* Startup: the configured policies P, the name d under default_policy     *)
(* ("" when not set) and fail_closed_on_unknown_action.  A default that    *)
(* names no policy is only warned about; without policies the manager is   *)
(* installed for fail-closed alone.                                        *)
Configure(P, d, f) ==
    /\ \A q \in Requests : outcome[q] = "none"
    /\ pm = NoManager
    /\ pm' = IF P # {} \/ f
             THEN [policies |-> P, default |-> IF d \in P THEN d ELSE None,
                   failClosed |-> f, installed |-> TRUE]
             ELSE NoManager
    /\ UNCHANGED <<sent, req, outcome, consulted, warned>>

(* A caller builds a request and passes it to Evaluate.                    *)
Submit(q, r) ==
    /\ outcome[q] = "none"
    /\ sent' = [sent EXCEPT ![q] = r]
    /\ req' = [req EXCEPT ![q] = r]
    /\ outcome' = [outcome EXCEPT ![q] = "pending"]
    /\ UNCHANGED <<pm, consulted, warned>>

(* It passes the same object again, as the first evaluation left it.       *)
Resubmit(q) ==
    /\ outcome[q] \in {"denied", "dispatched"}
    /\ outcome' = [outcome EXCEPT ![q] = "pending"]
    /\ consulted' = [consulted EXCEPT ![q] = {}]
    /\ UNCHANGED <<pm, sent, req, warned>>

Deny(q, r) == /\ req' = [req EXCEPT ![q] = r]
              /\ outcome' = [outcome EXCEPT ![q] = "denied"]
              /\ UNCHANGED <<pm, sent, consulted>>

Pending(q) == outcome[q] = "pending" /\ Valid(req[q])

DenyInvalid(q) ==
    /\ outcome[q] = "pending" /\ ~Valid(req[q])
    /\ Deny(q, req[q])
    /\ UNCHANGED warned

FailsClosed(r) == pm.installed /\ pm.failClosed /\ IsUnknownAction(r.action)

DenyUnknownAction(q) ==
    /\ Pending(q) /\ FailsClosed(req[q])
    /\ Deny(q, Prepared(req[q]))
    /\ WarnUnknown(req[q])

(* The checks of the policy that need no registry.                         *)
KeyIsBound(r, p) ==
    p # None /\ PolicyOf[p].requireKeyBinding => ~IsResolutionOnlyRequest(r)

KeyTypeAllowed(r, p) ==
    (p # None /\ PolicyOf[p].allowedKeyTypes # {} /\ ~IsResolutionOnlyRequest(r))
        => r.type \in PolicyOf[p].allowedKeyTypes

DenyByPolicy(q) ==
    LET p == PolicyFor(req[q])
    IN  /\ Pending(q) /\ ~FailsClosed(req[q])
        /\ ~(KeyIsBound(req[q], p) /\ KeyTypeAllowed(req[q], p))
        /\ Deny(q, Prepared(req[q]))
        /\ WarnUnknown(req[q])

Dispatch(q) ==
    LET p == PolicyFor(req[q])
    IN  /\ Pending(q) /\ ~FailsClosed(req[q])
        /\ KeyIsBound(req[q], p) /\ KeyTypeAllowed(req[q], p)
        /\ req' = [req EXCEPT ![q] = applyPolicyToRequest(Prepared(req[q]), p)]
        /\ consulted' = [consulted EXCEPT ![q] = getApplicableRegistriesWithPolicy(req[q], p)]
        /\ outcome' = [outcome EXCEPT ![q] = "dispatched"]
        /\ WarnUnknown(req[q])
        /\ UNCHANGED <<pm, sent>>

Next == \/ \E P \in SUBSET Policies, d \in ActionNames, f \in BOOLEAN : Configure(P, d, f)
        \/ \E q \in Requests :
              \/ \E r \in ClientRequests : Submit(q, r)
              \/ Resubmit(q)
              \/ DenyInvalid(q) \/ DenyUnknownAction(q) \/ DenyByPolicy(q)
              \/ Dispatch(q)

Spec == Init /\ [][Next]_vars

-----------------------------------------------------------------------------
(* The members of a request object that no evaluation writes.              *)
AsksTheSame(r, s) ==
    /\ r.type = s.type /\ r.hasKey = s.hasKey /\ r.resourceId = s.resourceId
    /\ r.action = s.action /\ r.parameters = s.parameters

TypeOK ==
    /\ pm \in Managers
    /\ sent \in [Requests -> ClientRequests \cup {None}]
    /\ outcome \in [Requests -> {"none", "pending", "denied", "dispatched"}]
    /\ consulted \in [Requests -> SUBSET Registries]
    /\ warned \subseteq ActionNames \ {""}
    /\ \A q \in Requests : outcome[q] # "none" =>
          /\ sent[q] \in ClientRequests
          /\ AsksTheSame(req[q], sent[q])

Dispatched(q) == outcome[q] = "dispatched"

(* The controls a registry reads are the server's: whatever a client puts  *)
(* in its context and in the parameters of its action, and whatever an     *)
(* earlier evaluation left in the object, a control key holds what the     *)
(* policy judging the request sets, or nothing; where a key is both, the   *)
(* policy wins.                                                            *)
ControlsAreThePolicys ==
    \A q \in Requests : Dispatched(q) =>
        LET p == PolicyFor(sent[q])
        IN  /\ \A k \in ControlKeys :
                  req[q].context[k] = IF p # None /\ k \in PolicyOf[p].sets THEN p ELSE None
            /\ req[q].context["_policy"] = p
            /\ p # None => \A k \in PolicyOf[p].sets : req[q].context[k] = p

(* The identity a certificate is bound to (OriginalSubjectID, which the    *)
(* registries verify the leaf against) is the one the caller sent with the *)
(* key: a client cannot forge it and evaluating a mutated object again     *)
(* cannot replace it by its normalized form, which has lost its scheme.    *)
IdentityIsTheOneSent ==
    \A q \in Requests :
        Dispatched(q) /\ ~IsResolutionOnlyRequest(req[q])
            => req[q].context["_original_subject_id"] = sent[q].subject

(* What reaches a registry satisfies the policy: an unknown action stops   *)
(* at the entry when the server fails closed, even when there is a default *)
(* policy; a policy that demands a key is not answered without one; key    *)
(* types and registries are the policy's.                                  *)
PolicyIsEnforced ==
    \A q \in Requests : Dispatched(q) =>
        LET r == sent[q]
            p == PolicyFor(r)
        IN  /\ pm.failClosed => r.action \in pm.policies \cup {""}
            /\ r.action \in pm.policies => p = r.action
            /\ p # None =>
                  /\ PolicyOf[p].requireKeyBinding => r.hasKey /\ r.type \in KeyTypes
                  /\ PolicyOf[p].registries # {} => consulted[q] \subseteq PolicyOf[p].registries
                  /\ (PolicyOf[p].allowedKeyTypes # {} /\ r.hasKey /\ r.type # "")
                        => r.type \in PolicyOf[p].allowedKeyTypes
=============================================================================

------------------------ MODULE RequestPathProofs ---------------------------
(***************************************************************************)
(* A request on its way to a registry: the pipeline, for any policies, any *)
(* registries and any request, also when the mutated request object is     *)
(* evaluated again; the rate limiter before it; and a composite registry   *)
(* behind it, for any tree of registries.                                  *)
(***************************************************************************)
EXTENDS PolicyPipeline, RateLimiter, CompositeRegistry, FiniteSetTheorems,
        SequenceTheorems, WellFoundedInduction, NaturalsInduction, TLAPS

(* Every value a context can hold.                                         *)
ContextValues == ClientValues \cup {None} \cup Policies \cup Seq(Segments)

Used(q) == outcome[q] # "none"

(* The shape of the state: the manager, and request objects that keep all  *)
(* the fields of the request sent but context and subject.                 *)
ShapeInv ==
    /\ TypeOK
    /\ \A q \in Requests : Used(q) => req[q] \in RequestsWith(ContextValues)
    /\ DOMAIN req = Requests /\ req = [q \in Requests |-> req[q]]

LEMMA NormalizedIsIdentifier ==
    ASSUME NEW id \in Seq(Segments) PROVE NormalizeSubjectID(id) \in Seq(Segments)
<1>1. CASE id = <<>>
  BY <1>1 DEF NormalizeSubjectID
<1>2. CASE id # <<>>
  <2>1. Tail(id) \in Seq(Segments)
    BY <1>2, HeadTailProperties
  <2>2. <<"https">> \o Tail(id) \in Seq(Segments)
    <3>1. <<"https">> = Append(<<>>, "https") /\ <<>> \in Seq(Segments)
      BY EmptySeq
    <3>2. Append(<<>>, "https") \in Seq(Segments)
      BY <3>1, AppendProperties, PipelineAssumption
    <3> QED BY <2>1, <3>1, <3>2, ConcatProperties
  <2>3. \/ NormalizeSubjectID(id) = id
        \/ NormalizeSubjectID(id) = Tail(id)
        \/ NormalizeSubjectID(id) = <<"https">> \o Tail(id)
    BY <1>2 DEF NormalizeSubjectID
  <2> QED BY <2>1, <2>2, <2>3
<1> QED BY <1>1, <1>2

LEMMA PreparedFields ==
    ASSUME NEW r \in RequestsWith(ContextValues)
    PROVE  /\ Prepared(r) \in RequestsWith(ContextValues)
           /\ AsksTheSame(Prepared(r), r)
           /\ Prepared(r).subject = NormalizeSubjectID(r.subject)
           /\ Prepared(r).context =
                 StashOriginalSubjectID(sanitizeRequestContext(r.context), r.subject)
<1>1. sanitizeRequestContext(r.context) \in [Keys -> ContextValues]
  BY DEF sanitizeRequestContext, RequestsWith, ContextValues
<1>2. StashOriginalSubjectID(sanitizeRequestContext(r.context), r.subject)
         \in [Keys -> ContextValues]
  BY <1>1 DEF StashOriginalSubjectID, RequestsWith, ContextValues
<1>3. NormalizeSubjectID(r.subject) \in Seq(Segments)
  BY NormalizedIsIdentifier DEF RequestsWith
<1> QED BY <1>2, <1>3 DEF Prepared, RequestsWith, AsksTheSame

LEMMA AppliedFields ==
    ASSUME NEW r \in RequestsWith(ContextValues), NEW p \in Policies \cup {None}
    PROVE  LET a == applyPolicyToRequest(r, p)
           IN  /\ a \in RequestsWith(ContextValues)
               /\ AsksTheSame(a, r)
               /\ a.context = [k \in Keys |->
                     IF p # None /\ k = "_policy" THEN p
                     ELSE IF p # None /\ k \in PolicyOf[p].sets THEN p
                     ELSE IF k \in ClientKeys /\ r.parameters[k] # None THEN r.parameters[k]
                     ELSE r.context[k]]
<1> DEFINE c == [k \in Keys |->
                     IF p # None /\ k = "_policy" THEN p
                     ELSE IF p # None /\ k \in PolicyOf[p].sets THEN p
                     ELSE IF k \in ClientKeys /\ r.parameters[k] # None THEN r.parameters[k]
                     ELSE r.context[k]]
<1>1. c \in [Keys -> ContextValues]
  BY DEF RequestsWith, ContextValues
<1>2. applyPolicyToRequest(r, p) = [r EXCEPT !.context = c]
  BY DEF applyPolicyToRequest
<1> HIDE DEF c
<1>3. /\ [r EXCEPT !.context = c] \in RequestsWith(ContextValues)
      /\ [r EXCEPT !.context = c].context = c
  BY <1>1 DEF RequestsWith
<1>4. AsksTheSame([r EXCEPT !.context = c], r)
  BY DEF RequestsWith, AsksTheSame
<1> QED BY <1>2, <1>3, <1>4 DEF c

LEMMA AskingIsTransitive ==
    ASSUME NEW r, NEW s, NEW t, AsksTheSame(r, s), AsksTheSame(s, t) PROVE AsksTheSame(r, t)
  BY Zenon DEF AsksTheSame

(* Whether a request resolves only is a matter of what it asks.            *)
LEMMA AskingAlike ==
    ASSUME NEW r, NEW s, AsksTheSame(r, s)
    PROVE  /\ IsResolutionOnlyRequest(r) <=> IsResolutionOnlyRequest(s)
           /\ PolicyFor(r) = PolicyFor(s)
           /\ r.resourceId = s.resourceId
  BY Zenon DEF AsksTheSame, IsResolutionOnlyRequest, PolicyFor

(* The policy of a request is one of the configured ones, or none.         *)
LEMMA PolicyForType ==
    ASSUME TypeOK, NEW r PROVE PolicyFor(r) \in Policies \cup {None}
  BY DEF TypeOK, Managers, PolicyFor, GetPolicy

-----------------------------------------------------------------------------
(* Each evaluation replaces the object it judges and touches no other.     *)
LEMMA ShapeIsInductive == ShapeInv /\ [Next]_vars => ShapeInv'
<1> SUFFICES ASSUME ShapeInv, [Next]_vars PROVE ShapeInv'
  OBVIOUS
<1> USE DEF ShapeInv
<1>1. ASSUME NEW P \in SUBSET Policies, NEW d \in ActionNames, NEW f \in BOOLEAN,
             Configure(P, d, f)
      PROVE  ShapeInv'
  <2>1. pm' \in Managers
    BY <1>1 DEF Configure, NoManager, Managers
  <2> QED BY <1>1, <2>1 DEF Configure, TypeOK, Used
<1>2. ASSUME NEW q \in Requests, NEW r \in ClientRequests, Submit(q, r) PROVE ShapeInv'
  <2>1. r \in RequestsWith(ContextValues)
    BY PipelineAssumption DEF RequestsWith, ContextValues
  <2>2. AsksTheSame(r, r)
    BY DEF AsksTheSame
  <2>3. /\ req'[q] = r /\ sent'[q] = r /\ outcome'[q] = "pending"
        /\ \A x \in Requests : x # q =>
              req'[x] = req[x] /\ sent'[x] = sent[x] /\ outcome'[x] = outcome[x]
        /\ DOMAIN req' = Requests /\ req' = [x \in Requests |-> req'[x]]
        /\ sent' \in [Requests -> ClientRequests \cup {None}]
        /\ outcome' \in [Requests -> {"none", "pending", "denied", "dispatched"}]
    BY <1>2 DEF Submit, TypeOK
  <2>4. UNCHANGED <<pm, consulted, warned>>
    BY <1>2 DEF Submit
  <2> QED BY <2>1, <2>2, <2>3, <2>4 DEF TypeOK, Used
<1>3. ASSUME NEW q \in Requests, Resubmit(q) PROVE ShapeInv'
  BY <1>3 DEF Resubmit, TypeOK, Used
<1>0. ASSUME NEW q \in Requests, NEW r \in RequestsWith(ContextValues), Used(q),
             NEW o \in {"denied", "dispatched"}, NEW g \in SUBSET Registries,
             req' = [req EXCEPT ![q] = r], outcome' = [outcome EXCEPT ![q] = o],
             UNCHANGED <<pm, sent>>,
             consulted' = consulted \/ consulted' = [consulted EXCEPT ![q] = g],
             warned' \subseteq ActionNames \ {""},
             AsksTheSame(r, req[q])
      PROVE  ShapeInv'
  <2>1. /\ req'[q] = r
        /\ \A x \in Requests : x # q => req'[x] = req[x]
        /\ DOMAIN req' = Requests /\ req' = [x \in Requests |-> req'[x]]
    BY <1>0
  <2>2. /\ outcome'[q] = o
        /\ \A x \in Requests : x # q => outcome'[x] = outcome[x]
        /\ outcome' \in [Requests -> {"none", "pending", "denied", "dispatched"}]
    BY <1>0 DEF TypeOK
  <2>3. consulted' \in [Requests -> SUBSET Registries]
    BY <1>0 DEF TypeOK
  <2>4. \A x \in Requests : Used(x)' =>
           /\ Used(x)
           /\ req'[x] \in RequestsWith(ContextValues)
           /\ req'[x] = req[x] \/ AsksTheSame(req'[x], req[x])
    BY <1>0, <2>1, <2>2 DEF Used
  <2>5. TypeOK'
    <3>1. \A x \in Requests : outcome'[x] # "none" =>
             sent'[x] \in ClientRequests /\ AsksTheSame(req'[x], sent'[x])
      <4>1. SUFFICES ASSUME NEW x \in Requests, outcome'[x] # "none"
                     PROVE  sent[x] \in ClientRequests /\ AsksTheSame(req'[x], sent[x])
        BY <1>0
      <4>2. outcome[x] # "none" /\ (req'[x] = req[x] \/ AsksTheSame(req'[x], req[x]))
        BY <2>4, <4>1 DEF Used
      <4>3. sent[x] \in ClientRequests /\ AsksTheSame(req[x], sent[x])
        BY <4>2 DEF TypeOK
      <4> QED BY <4>2, <4>3, AskingIsTransitive
    <3>2. pm' \in Managers /\ sent' \in [Requests -> ClientRequests \cup {None}]
      BY <1>0 DEF TypeOK
    <3> QED BY <1>0, <2>2, <2>3, <3>1, <3>2 DEF TypeOK
  <2> QED BY <2>1, <2>4, <2>5
<1>4. ASSUME NEW q \in Requests, NEW r, Used(q), Deny(q, r), warned' \subseteq ActionNames \ {""},
             r \in RequestsWith(ContextValues),
             AsksTheSame(r, req[q])
      PROVE  ShapeInv'
  BY <1>4, <1>0 DEF Deny
<1>5. ASSUME NEW q \in Requests, Used(q), WarnUnknown(req[q])
      PROVE  warned' \subseteq ActionNames \ {""}
  <2>1. req[q].action \in ActionNames
    BY <1>5 DEF RequestsWith
  <2>2. \/ warned' = warned
        \/ req[q].action # "" /\ warned' = warned \cup {req[q].action}
    BY <1>5 DEF WarnUnknown, firstUnknownWarning, IsUnknownAction
  <2> QED BY <2>1, <2>2 DEF TypeOK
<1>6. ASSUME NEW q \in Requests, DenyInvalid(q) PROVE ShapeInv'
  <2>1. Used(q) /\ Deny(q, req[q]) /\ AsksTheSame(req[q], req[q]) /\ warned' = warned
    BY <1>6 DEF DenyInvalid, Used, AsksTheSame
  <2> QED BY <1>4, <2>1 DEF TypeOK
<1>7. ASSUME NEW q \in Requests, DenyUnknownAction(q) \/ DenyByPolicy(q) PROVE ShapeInv'
  <2>1. Used(q) /\ WarnUnknown(req[q]) /\ Deny(q, Prepared(req[q]))
    BY <1>7 DEF DenyUnknownAction, DenyByPolicy, Pending, Used
  <2> QED BY <1>4, <1>5, <2>1, PreparedFields
<1>8. ASSUME NEW q \in Requests, Dispatch(q) PROVE ShapeInv'
  <2> DEFINE p == PolicyFor(req[q])
             r == applyPolicyToRequest(Prepared(req[q]), p)
  <2>1. Used(q) /\ WarnUnknown(req[q]) /\ p \in Policies \cup {None}
    BY <1>8, PolicyForType DEF Dispatch, Pending, Used
  <2>2. /\ r \in RequestsWith(ContextValues)
        /\ AsksTheSame(r, req[q])
    <3>1. /\ Prepared(req[q]) \in RequestsWith(ContextValues)
          /\ AsksTheSame(Prepared(req[q]), req[q])
      BY <2>1, PreparedFields
    <3>2. r \in RequestsWith(ContextValues) /\ AsksTheSame(r, Prepared(req[q]))
      BY <2>1, <3>1, AppliedFields
    <3> HIDE DEF r
    <3> QED BY <3>1, <3>2, AskingIsTransitive
  <2>3. /\ req' = [req EXCEPT ![q] = r]
        /\ outcome' = [outcome EXCEPT ![q] = "dispatched"]
        /\ consulted' = [consulted EXCEPT ![q] = getApplicableRegistriesWithPolicy(req[q], p)]
        /\ UNCHANGED <<pm, sent>>
    BY <1>8 DEF Dispatch
  <2>4. getApplicableRegistriesWithPolicy(req[q], p) \in SUBSET Registries
    BY DEF getApplicableRegistriesWithPolicy
  <2>5. warned' \subseteq ActionNames \ {""}
    BY <1>5, <2>1
  <2> HIDE DEF r, p
  <2> QED BY <1>0, <2>1, <2>2, <2>3, <2>4, <2>5
<1>9. CASE UNCHANGED vars
  BY <1>9 DEF vars, TypeOK, Used
<1> QED BY <1>1, <1>2, <1>3, <1>6, <1>7, <1>8, <1>9 DEF Next

(* Type correctness: in particular an evaluation never alters what a       *)
(* request asks for (its key, its resource and its action).                *)
THEOREM PipelineTypeCorrect == Spec => []TypeOK
<1>1. Init => ShapeInv
  BY DEF Init, ShapeInv, TypeOK, Used, NoManager, Managers
<1>2. ShapeInv => TypeOK
  BY DEF ShapeInv
<1> QED BY <1>1, <1>2, ShapeIsInductive, PTL DEF Spec

-----------------------------------------------------------------------------
(* The context a registry reads after a dispatch, key by key.              *)
LEMMA DispatchedContext ==
    ASSUME NEW r \in RequestsWith(ContextValues), NEW p \in Policies \cup {None}
    PROVE  LET c == applyPolicyToRequest(Prepared(r), p).context
           IN  /\ \A k \in ControlKeys :
                     c[k] = IF p # None /\ k \in PolicyOf[p].sets THEN p ELSE None
               /\ c["_policy"] = p
               /\ p # None => \A k \in PolicyOf[p].sets : c[k] = p
               /\ c["_original_subject_id"] = r.subject
<1> DEFINE a == applyPolicyToRequest(Prepared(r), p)
           b == Prepared(r).context
<1>1. b = [sanitizeRequestContext(r.context) EXCEPT !["_original_subject_id"] = r.subject]
  BY PreparedFields DEF StashOriginalSubjectID
<1>2. /\ \A k \in ControlKeys \cup {"_policy"} : b[k] = None
      /\ b["_original_subject_id"] = r.subject
  BY <1>1, PipelineAssumption DEF sanitizeRequestContext, Keys
<1>3. a.context = [k \in Keys |->
                     IF p # None /\ k = "_policy" THEN p
                     ELSE IF p # None /\ k \in PolicyOf[p].sets THEN p
                     ELSE IF k \in ClientKeys /\ Prepared(r).parameters[k] # None
                          THEN Prepared(r).parameters[k]
                     ELSE b[k]]
  BY PreparedFields, AppliedFields
<1>4. p # None => PolicyOf[p].sets \subseteq ClientKeys \cup ControlKeys
  BY PipelineAssumption
<1> HIDE DEF a, b
<1>5. \A k \in ControlKeys :
         a.context[k] = IF p # None /\ k \in PolicyOf[p].sets THEN p ELSE None
  BY <1>2, <1>3, PipelineAssumption DEF Keys
<1>6. a.context["_policy"] = p
  BY <1>2, <1>3, <1>4, PipelineAssumption DEF Keys
<1>7. p # None => \A k \in PolicyOf[p].sets : a.context[k] = p
  BY <1>3, <1>4, PipelineAssumption DEF Keys
<1>8. a.context["_original_subject_id"] = r.subject
  BY <1>2, <1>3, <1>4, PipelineAssumption DEF Keys
<1> QED BY <1>5, <1>6, <1>7, <1>8 DEF a

(* A step either dispatches one pending request or leaves what a           *)
(* dispatched request consists of alone.                                   *)
LEMMA StepOnDispatched ==
    ASSUME ShapeInv, [Next]_vars, NEW q \in Requests, Dispatched(q)'
    PROVE  \/ /\ pm' = pm /\ sent'[q] = sent[q]
              /\ Dispatch(q)
           \/ /\ pm' = pm /\ sent'[q] = sent[q]
              /\ Dispatched(q) /\ req'[q] = req[q] /\ consulted'[q] = consulted[q]
<1> USE DEF Dispatched, ShapeInv, TypeOK
<1>1. ASSUME NEW P \in SUBSET Policies, NEW d \in ActionNames, NEW f \in BOOLEAN,
             Configure(P, d, f)
      PROVE  FALSE
  BY <1>1 DEF Configure
<1>2. ASSUME NEW x \in Requests, NEW r \in ClientRequests, Submit(x, r)
      PROVE  /\ pm' = pm /\ sent'[q] = sent[q]
             /\ Dispatched(q) /\ req'[q] = req[q] /\ consulted'[q] = consulted[q]
  BY <1>2 DEF Submit
<1>3. ASSUME NEW x \in Requests, Resubmit(x)
      PROVE  /\ pm' = pm /\ sent'[q] = sent[q]
             /\ Dispatched(q) /\ req'[q] = req[q] /\ consulted'[q] = consulted[q]
  BY <1>3 DEF Resubmit
<1>4. ASSUME NEW x \in Requests, NEW r, Deny(x, r)
      PROVE  /\ pm' = pm /\ sent'[q] = sent[q]
             /\ Dispatched(q) /\ req'[q] = req[q] /\ consulted'[q] = consulted[q]
  BY <1>4 DEF Deny
<1>5. ASSUME NEW x \in Requests, x # q, Dispatch(x)
      PROVE  /\ pm' = pm /\ sent'[q] = sent[q]
             /\ Dispatched(q) /\ req'[q] = req[q] /\ consulted'[q] = consulted[q]
  BY <1>5 DEF Dispatch
<1>6. ASSUME Dispatch(q) PROVE pm' = pm /\ sent'[q] = sent[q]
  BY <1>6 DEF Dispatch
<1>7. CASE UNCHANGED vars
  BY <1>7 DEF vars
<1> QED BY <1>1, <1>2, <1>3, <1>4, <1>5, <1>6, <1>7
        DEF Next, DenyInvalid, DenyUnknownAction, DenyByPolicy

-----------------------------------------------------------------------------
(* The controls a registry reads are the server's, for every request and   *)
(* every policy, also when the object is evaluated again.                  *)
THEOREM ControlsCannotBeForged == Spec => []ControlsAreThePolicys
<1>1. Init => ControlsAreThePolicys
  BY DEF Init, ControlsAreThePolicys, Dispatched
<1>2. ShapeInv /\ ControlsAreThePolicys /\ [Next]_vars => ControlsAreThePolicys'
  <2> SUFFICES ASSUME ShapeInv, ControlsAreThePolicys, [Next]_vars,
                      NEW q \in Requests, Dispatched(q)'
               PROVE  LET p == PolicyFor(sent[q])'
                      IN  /\ \A k \in ControlKeys : req'[q].context[k] =
                                IF p # None /\ k \in PolicyOf[p].sets THEN p ELSE None
                          /\ req'[q].context["_policy"] = p
                          /\ p # None => \A k \in PolicyOf[p].sets : req'[q].context[k] = p
    BY DEF ControlsAreThePolicys
  <2>1. CASE /\ pm' = pm /\ sent'[q] = sent[q]
             /\ Dispatched(q) /\ req'[q] = req[q] /\ consulted'[q] = consulted[q]
    BY <2>1 DEF ControlsAreThePolicys, PolicyFor, GetPolicy
  <2>2. CASE pm' = pm /\ sent'[q] = sent[q] /\ Dispatch(q)
    <3> DEFINE p == PolicyFor(req[q])
    <3>1. req'[q] = applyPolicyToRequest(Prepared(req[q]), p)
      BY <2>2 DEF Dispatch, ShapeInv
    <3>2. req[q] \in RequestsWith(ContextValues) /\ p \in Policies \cup {None}
      BY <2>2, PolicyForType DEF Dispatch, Pending, ShapeInv, Used
    <3>3. PolicyFor(sent[q])' = p
      <4>1. AsksTheSame(req[q], sent[q])
        BY <2>2 DEF Dispatch, Pending, ShapeInv, TypeOK
      <4>2. PolicyFor(sent[q]) = p
        BY <4>1, AskingAlike
      <4>3. PolicyFor(sent[q])' = PolicyFor(sent[q])
        BY <2>2 DEF PolicyFor, GetPolicy
      <4> QED BY <4>2, <4>3
    <3> HIDE DEF p
    <3> QED BY <3>1, <3>2, <3>3, DispatchedContext
  <2> QED BY <2>1, <2>2, StepOnDispatched
<1>3. Init => ShapeInv
  BY DEF Init, ShapeInv, TypeOK, Used, NoManager, Managers
<1> QED BY <1>1, <1>2, <1>3, ShapeIsInductive, PTL DEF Spec

-----------------------------------------------------------------------------
(* A request object whose subject has been rewritten passed validation     *)
(* before, when its resource.id still was its subject.id.                  *)
RewriteInv ==
    \A q \in Requests : Used(q) =>
        \/ req[q].subject = sent[q].subject
        \/ IsResolutionOnlyRequest(sent[q])
        \/ sent[q].resourceId = sent[q].subject

(* The identity a key is bound to is the one sent with it.                 *)
THEOREM IdentityIsKept == Spec => []IdentityIsTheOneSent
<1> DEFINE Inv == ShapeInv /\ RewriteInv /\ IdentityIsTheOneSent
<1>1. Init => Inv
  BY DEF Init, ShapeInv, TypeOK, Used, NoManager, Managers, RewriteInv,
         IdentityIsTheOneSent, Dispatched
<1>2. Inv /\ [Next]_vars => RewriteInv'
  <2> SUFFICES ASSUME ShapeInv, RewriteInv, [Next]_vars PROVE RewriteInv'
    OBVIOUS
  <2> USE DEF RewriteInv, Used
  <2>1. ASSUME NEW q \in Requests, outcome[q] = "pending", Valid(req[q]), sent' = sent,
               \A x \in Requests : x # q => outcome'[x] = outcome[x] /\ req'[x] = req[x]
        PROVE  RewriteInv'
    <3>1. AsksTheSame(req[q], sent[q])
      BY <2>1 DEF ShapeInv, TypeOK
    <3>2. IsResolutionOnlyRequest(sent[q]) \/ sent[q].resourceId = req[q].subject
      BY <2>1, <3>1, AskingAlike DEF Valid
    <3>3. IsResolutionOnlyRequest(sent[q]) \/ sent[q].resourceId = sent[q].subject
      BY <2>1, <3>2
    <3> QED BY <2>1, <3>3
  <2>2. ASSUME NEW q \in Requests, DenyInvalid(q) PROVE RewriteInv'
    BY <2>2 DEF DenyInvalid, Deny, ShapeInv, TypeOK
  <2>3. ASSUME NEW q \in Requests, DenyUnknownAction(q) \/ DenyByPolicy(q) PROVE RewriteInv'
    <3>1. Pending(q) /\ Deny(q, Prepared(req[q]))
      BY <2>3 DEF DenyUnknownAction, DenyByPolicy
    <3> QED BY <2>1, <3>1 DEF Deny, Pending, ShapeInv, TypeOK
  <2>4. ASSUME NEW q \in Requests, Dispatch(q) PROVE RewriteInv'
    BY <2>1, <2>4 DEF Dispatch, Pending, ShapeInv, TypeOK
  <2>5. ASSUME NEW q \in Requests, NEW r \in ClientRequests, Submit(q, r) PROVE RewriteInv'
    BY <2>5 DEF Submit, ShapeInv, TypeOK
  <2>6. ASSUME NEW q \in Requests, Resubmit(q) PROVE RewriteInv'
    BY <2>6 DEF Resubmit, ShapeInv, TypeOK
  <2>7. CASE UNCHANGED <<sent, req, outcome>>
    BY <2>7
  <2> QED BY <2>2, <2>3, <2>4, <2>5, <2>6, <2>7 DEF Next, Configure, vars
<1>3. Inv /\ [Next]_vars => IdentityIsTheOneSent'
  <2> SUFFICES ASSUME Inv, [Next]_vars, NEW q \in Requests, Dispatched(q)',
                      ~IsResolutionOnlyRequest(req'[q])
               PROVE  req'[q].context["_original_subject_id"] = sent'[q].subject
    BY DEF IdentityIsTheOneSent, IsResolutionOnlyRequest
  <2>1. CASE /\ pm' = pm /\ sent'[q] = sent[q]
             /\ Dispatched(q) /\ req'[q] = req[q] /\ consulted'[q] = consulted[q]
    BY <2>1 DEF IdentityIsTheOneSent, IsResolutionOnlyRequest
  <2>2. CASE pm' = pm /\ sent'[q] = sent[q] /\ Dispatch(q)
    <3> DEFINE p == PolicyFor(req[q])
    <3>1. req'[q] = applyPolicyToRequest(Prepared(req[q]), p)
      BY <2>2 DEF Dispatch, ShapeInv
    <3>2. Used(q) /\ req[q] \in RequestsWith(ContextValues) /\ p \in Policies \cup {None}
      BY <2>2, PolicyForType DEF Dispatch, Pending, ShapeInv, Used
    <3>3. AsksTheSame(req'[q], req[q]) /\ AsksTheSame(req[q], sent[q])
      <4>1. AsksTheSame(req[q], sent[q])
        BY <3>2 DEF ShapeInv, TypeOK, Used
      <4> HIDE DEF p
      <4> QED BY <3>1, <3>2, <4>1, PreparedFields, AppliedFields, AskingIsTransitive
    <3>4. ~IsResolutionOnlyRequest(req[q]) /\ ~IsResolutionOnlyRequest(sent[q])
      BY <3>3, AskingAlike
    <3>5. req[q].resourceId = req[q].subject
      BY <2>2, <3>4 DEF Dispatch, Pending, Valid
    <3>6. req[q].subject = sent[q].subject
      BY <3>2, <3>3, <3>4, <3>5, AskingAlike DEF RewriteInv
    <3>7. req'[q].context["_original_subject_id"] = req[q].subject
      <4> HIDE DEF p
      <4> QED BY <3>1, <3>2, DispatchedContext
    <3> QED BY <2>2, <3>6, <3>7
  <2> QED BY <2>1, <2>2, StepOnDispatched
<1>4. Inv /\ [Next]_vars => Inv'
  BY <1>2, <1>3, ShapeIsInductive
<1>5. Inv => IdentityIsTheOneSent
  OBVIOUS
<1> QED BY <1>1, <1>4, <1>5, PTL DEF Spec

-----------------------------------------------------------------------------
(* A manager with a policy, or one that fails closed, is installed.        *)
ManagerInv == pm.policies # {} \/ pm.failClosed => pm.installed

(* What m and policy p demand of a request r dispatched to the registries  *)
(* of g.                                                                   *)
Enforced(m, r, p, g) ==
    /\ m.failClosed => r.action \in m.policies \cup {""}
    /\ r.action \in m.policies => p = r.action
    /\ p # None =>
          /\ PolicyOf[p].requireKeyBinding => r.hasKey /\ r.type \in KeyTypes
          /\ PolicyOf[p].registries # {} => g \subseteq PolicyOf[p].registries
          /\ (PolicyOf[p].allowedKeyTypes # {} /\ r.hasKey /\ r.type # "")
                => r.type \in PolicyOf[p].allowedKeyTypes

(* A dispatch enforces the policy that judges the request sent.            *)
LEMMA DispatchEnforces ==
    ASSUME ShapeInv, ManagerInv, NEW q \in Requests, Dispatch(q)
    PROVE  Enforced(pm, sent[q], PolicyFor(sent[q]), consulted'[q])
<1> DEFINE p == PolicyFor(req[q])
<1>1. /\ Valid(req[q]) /\ ~FailsClosed(req[q])
      /\ KeyIsBound(req[q], p) /\ KeyTypeAllowed(req[q], p)
      /\ consulted'[q] = getApplicableRegistriesWithPolicy(req[q], p)
  BY DEF Dispatch, Pending, ShapeInv, TypeOK
<1>2. AsksTheSame(req[q], sent[q])
  BY DEF Dispatch, Pending, ShapeInv, TypeOK
<1>3. /\ PolicyFor(sent[q]) = p
      /\ IsResolutionOnlyRequest(req[q]) <=> IsResolutionOnlyRequest(sent[q])
      /\ req[q].type = sent[q].type /\ req[q].action = sent[q].action
  BY <1>2, AskingAlike DEF AsksTheSame
<1>4. pm.failClosed => sent[q].action \in pm.policies \cup {""}
  BY <1>1, <1>3 DEF FailsClosed, IsUnknownAction, ManagerInv
<1>5. sent[q].action \in pm.policies => p = sent[q].action
  BY <1>3 DEF PolicyFor, GetPolicy, ManagerInv
<1> HIDE DEF p
<1>6. ASSUME p # None
      PROVE  /\ PolicyOf[p].requireKeyBinding => sent[q].hasKey /\ sent[q].type \in KeyTypes
             /\ PolicyOf[p].registries # {} => consulted'[q] \subseteq PolicyOf[p].registries
             /\ (PolicyOf[p].allowedKeyTypes # {} /\ sent[q].hasKey /\ sent[q].type # "")
                   => sent[q].type \in PolicyOf[p].allowedKeyTypes
  <2>1. PolicyOf[p].requireKeyBinding => sent[q].hasKey /\ sent[q].type \in KeyTypes
    BY <1>1, <1>3, <1>6 DEF KeyIsBound, IsResolutionOnlyRequest, Valid
  <2>2. PolicyOf[p].registries # {} => consulted'[q] \subseteq PolicyOf[p].registries
    BY <1>1, <1>6 DEF getApplicableRegistriesWithPolicy
  <2>3. (PolicyOf[p].allowedKeyTypes # {} /\ sent[q].hasKey /\ sent[q].type # "")
           => sent[q].type \in PolicyOf[p].allowedKeyTypes
    BY <1>1, <1>3, <1>6 DEF KeyTypeAllowed, IsResolutionOnlyRequest
  <2> QED BY <2>1, <2>2, <2>3
<1> QED BY <1>3, <1>4, <1>5, <1>6 DEF Enforced

(* The policy is enforced: what reaches a registry satisfies the policy of *)
(* the request that was sent, for any policies and any fail-closed server. *)
THEOREM PolicyBindsDispatch == Spec => []PolicyIsEnforced
<1> DEFINE Inv == ShapeInv /\ ManagerInv /\ PolicyIsEnforced
<1>1. Init => Inv
  BY DEF Init, ShapeInv, TypeOK, Used, NoManager, Managers, ManagerInv,
         PolicyIsEnforced, Dispatched
<1>2. ManagerInv /\ [Next]_vars => ManagerInv'
  <2> SUFFICES ASSUME ManagerInv, [Next]_vars PROVE ManagerInv'
    OBVIOUS
  <2>1. ASSUME NEW P \in SUBSET Policies, NEW d \in ActionNames, NEW f \in BOOLEAN,
               Configure(P, d, f)
        PROVE  ManagerInv'
    BY <2>1 DEF Configure, ManagerInv, NoManager
  <2>2. CASE pm' = pm
    BY <2>2 DEF ManagerInv
  <2> QED BY <2>1, <2>2
          DEF Next, Submit, Resubmit, DenyInvalid, DenyUnknownAction, DenyByPolicy, Deny,
              Dispatch, vars
<1>3. Inv /\ [Next]_vars => PolicyIsEnforced'
  <2> SUFFICES ASSUME Inv, [Next]_vars, NEW q \in Requests, Dispatched(q)',
                      NEW m, m = pm', NEW r, r = sent'[q], NEW p, p = PolicyFor(sent[q])',
                      NEW g, g = consulted'[q]
               PROVE  Enforced(m, r, p, g)
    BY DEF PolicyIsEnforced, Enforced
  <2>1. CASE /\ pm' = pm /\ sent'[q] = sent[q]
             /\ Dispatched(q) /\ req'[q] = req[q] /\ consulted'[q] = consulted[q]
    <3>1. PolicyFor(sent[q])' = PolicyFor(sent[q])
      BY <2>1 DEF PolicyFor, GetPolicy
    <3> QED BY <2>1, <3>1 DEF PolicyIsEnforced, Enforced
  <2>2. CASE pm' = pm /\ sent'[q] = sent[q] /\ Dispatch(q)
    <3>1. PolicyFor(sent[q])' = PolicyFor(sent[q])
      BY <2>2 DEF PolicyFor, GetPolicy
    <3> QED BY <2>2, <3>1, DispatchEnforces
  <2> QED BY <2>1, <2>2, StepOnDispatched
<1>4. Inv /\ [Next]_vars => Inv'
  BY <1>2, <1>3, ShapeIsInductive
<1>5. Inv => PolicyIsEnforced
  OBVIOUS
<1> QED BY <1>1, <1>4, <1>5, PTL DEF Spec

-----------------------------------------------------------------------------
(* The rate limiter, for any number of requests, clients and buckets, any  *)
(* rate, burst and idle time.                                              *)

(* A request past its lookup with a bucket in hand has one.                *)
InHand == \A q \in Handlers : stage[q] \in {"found", "taking"} => bucket[q] # Absent

(* What is admitted has been paid for from the client's present bucket; a  *)
(* client without one has been admitted nothing, or strayed.               *)
PaidBy(c) == \/ strayed[c]
             \/ limiters[c] = Absent /\ admitted[c] = 0
             \/ limiters[c] # Absent /\ tokens[limiters[c]] + admitted[c] <= Burst

Paid == \A c \in Clients : PaidBy(c)

LimiterInv == LimiterTypeOK /\ InHand /\ BucketsAreTracked /\ Paid

LEMMA LimiterStart == LimiterInit => LimiterInv
  BY LimiterAssumption DEF LimiterInit, LimiterInv, LimiterTypeOK, InHand, BucketsAreTracked, Paid, PaidBy

LEMMA LimiterStep == LimiterInv /\ [LimiterNext]_limiterVars => LimiterInv'
<1> SUFFICES ASSUME LimiterInv, [LimiterNext]_limiterVars PROVE LimiterInv'
  OBVIOUS
<1> USE LimiterAssumption DEF LimiterInv, LimiterTypeOK
<1>1. ASSUME NEW q \in Handlers, NEW c \in Clients, Lookup(q, c) PROVE LimiterInv'
  BY <1>1 DEF Lookup, InHand, BucketsAreTracked, Paid, PaidBy
<1>2. ASSUME NEW q \in Handlers, Touch(q) PROVE LimiterInv'
  BY <1>2 DEF Touch, InHand, BucketsAreTracked, Paid, PaidBy
<1>3. ASSUME NEW q \in Handlers, Adopt(q) PROVE LimiterInv'
  BY <1>3 DEF Adopt, InHand, BucketsAreTracked, Paid, PaidBy
<1>4. ASSUME NEW q \in Handlers, NEW b \in Buckets, Create(q, b) PROVE LimiterInv'
  <2>1. LimiterTypeOK' /\ InHand' /\ BucketsAreTracked'
    BY <1>4 DEF Create, Make, InHand, BucketsAreTracked
  <2>2. \A c \in Clients : limiters[c] # b
    BY <1>4 DEF Create, Unused
  <2>3. Paid'
    BY <1>4, <2>2 DEF Create, Make, Paid, PaidBy
  <2> QED BY <2>1, <2>3
<1>5. ASSUME NEW q \in Handlers, Allow(q) PROVE LimiterInv'
  <2>1. bucket[q] \in Buckets
    BY <1>5 DEF Allow, InHand
  <2>2. tokens[bucket[q]] \in 1 .. Burst
    BY <1>5, <2>1 DEF Allow
  <2>3. LimiterTypeOK'
    BY <1>5, <2>1, <2>2 DEF Allow, Served
  <2>4. InHand' /\ BucketsAreTracked'
    BY <1>5 DEF Allow, Served, InHand, BucketsAreTracked
  <2>5. Paid'
    <3>1. ASSUME NEW c \in Clients, c # client[q] PROVE PaidBy(c)'
      <4>1. UNCHANGED <<limiters[c], strayed[c], admitted[c]>>
        BY <1>5, <3>1 DEF Allow, Served
      <4>2. \A b \in Buckets : tokens'[b] <= tokens[b] /\ tokens'[b] \in 0 .. Burst
        BY <1>5, <2>1, <2>2, <2>3 DEF Allow
      <4> QED BY <4>1, <4>2 DEF Paid, PaidBy
    <3>2. ASSUME NEW c \in Clients, c = client[q] PROVE PaidBy(c)'
      <4>1. CASE strayed[c] \/ limiters[c] # bucket[q]
        <5>1. strayed'[c]
          BY <1>5, <3>2, <4>1 DEF Allow
        <5> QED BY <5>1 DEF PaidBy
      <4>2. CASE ~strayed[c] /\ limiters[c] = bucket[q]
        <5>1. tokens[bucket[q]] + admitted[c] <= Burst
          BY <2>1, <4>2 DEF Paid, PaidBy
        <5>2. /\ limiters' = limiters
              /\ tokens'[bucket[q]] = tokens[bucket[q]] - 1
              /\ admitted'[c] = admitted[c] + 1
          BY <1>5, <2>1, <3>2 DEF Allow, Served
        <5> QED BY <2>1, <2>2, <4>2, <5>1, <5>2 DEF PaidBy
      <4> QED BY <4>1, <4>2
    <3> QED BY <3>1, <3>2 DEF Paid
  <2> QED BY <2>3, <2>4, <2>5
<1>6. ASSUME NEW q \in Handlers, Reject(q) PROVE LimiterInv'
  <2>1. LimiterTypeOK'
    BY <1>6 DEF Reject, Served
  <2>2. InHand' /\ BucketsAreTracked' /\ Paid'
    BY <1>6 DEF Reject, Served, InHand, BucketsAreTracked, Paid, PaidBy
  <2> QED BY <2>1, <2>2
<1>7. CASE CleanupOldLimiters
  <2>1. LimiterTypeOK' /\ InHand' /\ BucketsAreTracked'
    BY <1>7 DEF CleanupOldLimiters, Stale, InHand, BucketsAreTracked
  <2>2. ASSUME NEW c \in Clients PROVE PaidBy(c)'
    <3>1. CASE Stale(c)
      <4>1. limiters'[c] = Absent /\ admitted' = admitted /\ (admitted[c] > 0 => strayed'[c])
        BY <1>7, <3>1 DEF CleanupOldLimiters
      <4> QED BY <4>1 DEF PaidBy
    <3>2. CASE ~Stale(c)
      <4>1. /\ limiters'[c] = limiters[c] /\ admitted' = admitted /\ tokens' = tokens
            /\ strayed[c] => strayed'[c]
        BY <1>7, <3>2 DEF CleanupOldLimiters
      <4> QED BY <4>1 DEF Paid, PaidBy
    <3> QED BY <3>1, <3>2
  <2>3. Paid'
    BY <2>2 DEF Paid
  <2> QED BY <2>1, <2>3
<1>8. CASE Tick
  <2>1. \A n \in 0 .. Burst : Refill(n) \in 0 .. Burst
    BY DEF Refill
  <2>2. \A a \in 0 .. MaxAge + 1 : Older(a) \in 0 .. MaxAge + 1
    BY DEF Older
  <2>3. LimiterTypeOK'
    BY <1>8, <2>1, <2>2 DEF Tick, Older
  <2>4. InHand' /\ BucketsAreTracked'
    BY <1>8, <2>2 DEF Tick, InHand, BucketsAreTracked
  <2>5. Paid'
    BY <1>8, <2>1 DEF Tick, Paid, PaidBy
  <2> QED BY <2>3, <2>4, <2>5
<1>9. CASE UNCHANGED limiterVars
  BY <1>9 DEF limiterVars, InHand, BucketsAreTracked, Paid, PaidBy
<1> QED
  BY <1>1, <1>2, <1>3, <1>4, <1>5, <1>6, <1>7, <1>8, <1>9 DEF LimiterNext, Serve

LEMMA LimiterLimits == LimiterInv => ClientsAreLimited
  BY LimiterAssumption
  DEF LimiterInv, LimiterTypeOK, Paid, PaidBy, ClientsAreLimited, WithinBurst

(* The type invariant of the limiter.                                      *)
THEOREM LimiterTypeCorrect == LimiterSpec => []LimiterTypeOK
<1>1. LimiterInv => LimiterTypeOK
  BY DEF LimiterInv
<1> QED BY LimiterStart, LimiterStep, <1>1, PTL DEF LimiterSpec

(* However first requests race to create a bucket and the cleanup runs     *)
(* between the three sections of a request, a client gets no more than the *)
(* burst in one time unit from buckets the cleanup leaves alone, and no    *)
(* bucket escapes the cleanup (getLimiter, CleanupOldLimiters).            *)
THEOREM BurstsAreBounded == LimiterSpec => []ClientsAreLimited
  BY LimiterStart, LimiterStep, LimiterLimits, PTL DEF LimiterSpec

-----------------------------------------------------------------------------
LEMMA Smallest ==
    ASSUME NEW T \in SUBSET Nat, T # {}
    PROVE  \E m \in T : \A n \in T : ~(n < m)
<1> DEFINE R == {p \in Nat \X Nat : p[1] < p[2]}
<1>1. IsWellFoundedOn(R, Nat)
  BY NatLessThanWellFounded DEF OpToRel
<1>2. PICK m \in T : \A n \in T : <<n, m>> \notin R
  <2> HIDE DEF R
  <2> QED BY <1>1, WFMin
<1> QED BY <1>2

(* Of the nodes of a set, one was built first.                             *)
LEMMA FirstBuilt ==
    ASSUME NEW T \in SUBSET Nodes, T # {}
    PROVE  \E n \in T : \A m \in T : ~(Built[m] < Built[n])
<1> DEFINE B == {Built[n] : n \in T}
<1>1. B \in SUBSET Nat /\ B # {}
  BY TreeAssumption
<1>2. PICK b \in B : \A a \in B : ~(a < b)
  <2> HIDE DEF B
  <2> QED BY <1>1, Smallest
<1> QED BY <1>2

-----------------------------------------------------------------------------
(* The operators: what applyLogic counts, as a function of the set of the  *)
(* children that agreed.                                                   *)
LEMMA SubsetOfSize ==
    ASSUME NEW A, IsFiniteSet(A), NEW k \in Nat, k <= Cardinality(A)
    PROVE  \E S \in SUBSET A : Cardinality(S) = k
<1> DEFINE n == Cardinality(A)
<1>1. n \in Nat /\ ExistsBijection(1 .. n, A)
  BY FS_CardinalityType
<1>2. PICK f \in [1 .. n -> A] : /\ \A i, j \in 1 .. n : f[i] = f[j] => i = j
                                 /\ \A x \in A : \E i \in 1 .. n : f[i] = x
  BY <1>1, Zenon DEF ExistsBijection, Bijection, Injection, Surjection, IsInjective
<1> DEFINE S == {f[i] : i \in 1 .. k}
           g == [i \in 1 .. k |-> f[i]]
<1>3. 1 .. k \subseteq 1 .. n
  <2> HIDE DEF n
  <2> QED BY <1>1 DEF n
<1>4. g \in Bijection(1 .. k, S)
  <2>1. g \in [1 .. k -> S] /\ \A y \in S : \E i \in 1 .. k : g[i] = y
    OBVIOUS
  <2>2. \A i, j \in 1 .. k : g[i] = g[j] => i = j
    <3> HIDE DEF n
    <3> QED BY <1>2, <1>3
  <2> HIDE DEF g, S
  <2> QED BY <2>1, <2>2 DEF Bijection, Injection, Surjection, IsInjective
<1>5. IsFiniteSet(1 .. k) /\ Cardinality(1 .. k) = k
  BY FS_Interval
<1>6. Cardinality(S) = k
  <2> HIDE DEF g, S
  <2> QED BY <1>4, <1>5, FS_Bijection DEF ExistsBijection
<1>7. S \in SUBSET A
  <2> HIDE DEF n
  <2> QED BY <1>2, <1>3
<1> QED BY <1>6, <1>7

LEMMA CountsAreHolds ==
    ASSUME NEW C, IsFiniteSet(C), NEW A \in SUBSET C, NEW o,
           o.threshold \in Nat
    PROVE  Decide(o, Cardinality(A), Cardinality(C)) <=> Holds(o, A, C)
<1> DEFINE a == Cardinality(A)
           c == Cardinality(C)
<1>1. IsFiniteSet(A) /\ a \in Nat /\ c \in Nat /\ a <= c
  BY FS_Subset, FS_CardinalityType
<1>2. a = c <=> A = C
  BY FS_Subset
<1>3. a > 0 <=> A # {}
  <2>1. a = 0 <=> A = {}
    BY <1>1, FS_EmptySet
  <2> HIDE DEF a
  <2> QED BY <1>1, <2>1
<1>4. a > c \div 2 <=> a > Cardinality(C \ A)
  <2> DEFINE d == Cardinality(C \ A)
  <2>1. IsFiniteSet(C \ A) /\ d \in Nat
    BY FS_Subset, FS_CardinalityType
  <2>2. Cardinality(A \cup (C \ A)) = a + d - Cardinality(A \cap (C \ A))
    BY <1>1, <2>1, FS_Union
  <2>3. A \cup (C \ A) = C /\ A \cap (C \ A) = {}
    OBVIOUS
  <2>4. c = a + d
    <3> HIDE DEF a, d
    <3> QED BY <1>1, <2>1, <2>2, <2>3, FS_EmptySet
  <2> HIDE DEF a, c, d
  <2>5. a > c \div 2 <=> a > d
    BY <1>1, <2>1, <2>4
  <2> QED BY <2>5 DEF d
<1>5. o.threshold <= c /\ a >= o.threshold <=> \E S \in SUBSET A : Cardinality(S) = o.threshold
  <2>1. ASSUME a >= o.threshold PROVE \E S \in SUBSET A : Cardinality(S) = o.threshold
    BY <1>1, <2>1, SubsetOfSize
  <2>2. ASSUME NEW S \in SUBSET A, Cardinality(S) = o.threshold PROVE a >= o.threshold
    BY <1>1, <2>2, FS_Subset
  <2> HIDE DEF a, c
  <2> QED BY <1>1, <2>1, <2>2
<1>6. CASE o.op = "AND"
  BY <1>2, <1>6 DEF Decide, Holds
<1>7. CASE o.op = "OR"
  BY <1>3, <1>7 DEF Decide, Holds
<1>8. CASE o.op = "MAJORITY"
  BY <1>4, <1>8 DEF Decide, Holds
<1>9. CASE o.op = "QUORUM"
  BY <1>5, <1>9 DEF Decide, Holds
<1>10. CASE o.op \notin {"AND", "OR", "MAJORITY", "QUORUM"}
  BY <1>10 DEF Decide, Holds
<1> QED BY <1>6, <1>7, <1>8, <1>9, <1>10

(* One more child that agrees never turns an operator's yes into a no.     *)
LEMMA HoldsIsMonotone ==
    ASSUME NEW C, IsFiniteSet(C), NEW B \in SUBSET C, NEW A \in SUBSET B, NEW o, Holds(o, A, C)
    PROVE  Holds(o, B, C)
<1>1. CASE o.op = "MAJORITY"
  <2>1. /\ IsFiniteSet(B) /\ IsFiniteSet(C \ A) /\ IsFiniteSet(C \ B) /\ IsFiniteSet(A)
        /\ C \ B \in SUBSET (C \ A)
    BY FS_Subset
  <2>2. /\ Cardinality(A) <= Cardinality(B)
        /\ Cardinality(C \ B) <= Cardinality(C \ A)
    BY <2>1, FS_Subset
  <2>3. /\ Cardinality(A) \in Nat /\ Cardinality(B) \in Nat
        /\ Cardinality(C \ B) \in Nat /\ Cardinality(C \ A) \in Nat
    BY <2>1, FS_CardinalityType
  <2>4. Cardinality(A) > Cardinality(C \ A)
    BY <1>1 DEF Holds
  <2>5. Cardinality(B) > Cardinality(C \ B)
    BY <2>2, <2>3, <2>4
  <2> QED BY <1>1, <2>5 DEF Holds
<1>2. CASE o.op # "MAJORITY"
  BY <1>2 DEF Holds
<1> QED BY <1>1, <1>2

-----------------------------------------------------------------------------
(* The value of every node of the tree when the leaves of a set are the    *)
(* ones that allow.                                                        *)
Values(trusted, v) ==
    v = [n \in Nodes |->
            \/ n \in Leaves \cap trusted
            \/ /\ n \in Composites /\ Children[n] # {}
               /\ Holds(operator[n], {c \in Children[n] : v[c]}, Children[n])]

LEMMA ValuesExist ==
    ASSUME NEW trusted
    PROVE  \E v : Values(trusted, v)
<1> DEFINE H(n, S) == Holds(operator[n], {c \in Children[n] : c \in S}, Children[n])
           F(S) == {n \in Nodes : \/ n \in Leaves \cap trusted
                                  \/ n \in Composites /\ Children[n] # {} /\ H(n, S)}
           V == {n \in Nodes : \A S \in SUBSET Nodes : F(S) \subseteq S => n \in S}
           v == [n \in Nodes |-> n \in V]
<1>1. ASSUME NEW A, NEW B, A \subseteq B PROVE F(A) \subseteq F(B)
  <2>1. ASSUME NEW n \in Composites, H(n, A) PROVE H(n, B)
    <3>1. /\ IsFiniteSet(Children[n])
          /\ {c \in Children[n] : c \in B} \in SUBSET Children[n]
          /\ {c \in Children[n] : c \in A} \in SUBSET {c \in Children[n] : c \in B}
      BY <1>1, TreeAssumption
    <3> QED BY <2>1, <3>1, HoldsIsMonotone
  <2> HIDE DEF H
  <2> QED BY <2>1
<1>2. F(V) \in SUBSET Nodes /\ V \in SUBSET Nodes
  OBVIOUS
<1>3. F(V) \subseteq V
  <2> SUFFICES ASSUME NEW n \in F(V), NEW S \in SUBSET Nodes, F(S) \subseteq S PROVE n \in S
    OBVIOUS
  <2>1. V \subseteq S
    OBVIOUS
  <2> HIDE DEF F, V
  <2>2. F(V) \subseteq F(S)
    BY <1>1, <2>1
  <2> QED BY <2>2
<1>4. V \subseteq F(V)
  <2>1. F(F(V)) \subseteq F(V)
    <3> HIDE DEF F, V
    <3> QED BY <1>1, <1>3
  <2> SUFFICES ASSUME NEW n \in V PROVE n \in F(V)
    OBVIOUS
  <2>2. \A S \in SUBSET Nodes : F(S) \subseteq S => n \in S
    OBVIOUS
  <2> HIDE DEF F, V
  <2> QED BY <1>2, <2>1, <2>2
<1>5. ASSUME NEW n \in Nodes
      PROVE  n \in V <=> \/ n \in Leaves \cap trusted
                         \/ n \in Composites /\ Children[n] # {} /\ H(n, V)
  <2>1. n \in V <=> n \in F(V)
    <3> HIDE DEF F, V
    <3> QED BY <1>3, <1>4
  <2> HIDE DEF V, H
  <2> QED BY <2>1
<1>6. ASSUME NEW n \in Composites
      PROVE  {c \in Children[n] : c \in V} = {c \in Children[n] : v[c]}
  <2>1. Children[n] \subseteq Nodes
    BY TreeAssumption
  <2> HIDE DEF V
  <2> QED BY <2>1
<1>7. ASSUME NEW n \in Nodes
      PROVE  n \in V <=> \/ n \in Leaves \cap trusted
                         \/ /\ n \in Composites /\ Children[n] # {}
                            /\ Holds(operator[n], {c \in Children[n] : v[c]}, Children[n])
  <2> HIDE DEF V, v
  <2> QED BY <1>5, <1>6
<1> HIDE DEF V
<1>8. Values(trusted, v)
  <2> DEFINE P(n) == \/ n \in Leaves \cap trusted
                     \/ /\ n \in Composites /\ Children[n] # {}
                        /\ Holds(operator[n], {c \in Children[n] : v[c]}, Children[n])
             u == [n \in Nodes |-> P(n)]
  <2>1. v \in [Nodes -> BOOLEAN] /\ \A n \in Nodes : v[n] <=> n \in V
    <3> HIDE DEF P, u
    <3>1. v \in [Nodes -> BOOLEAN]
      OBVIOUS
    <3>2. \A n \in Nodes : v[n] <=> n \in V
      OBVIOUS
    <3> QED BY <3>1, <3>2
  <2>2. \A n \in Nodes : n \in V <=> P(n)
    BY <1>7
  <2> HIDE DEF v
  <2>3. \A n \in Nodes : P(n) \in BOOLEAN
    OBVIOUS
  <2>4. u \in [Nodes -> BOOLEAN] /\ \A n \in Nodes : u[n] <=> P(n)
    <3> HIDE DEF P
    <3> QED BY <2>3
  <2>5. ASSUME NEW n \in Nodes PROVE v[n] = u[n]
    <3>1. v[n] \in BOOLEAN /\ u[n] \in BOOLEAN /\ (v[n] <=> u[n])
      <4> HIDE DEF P, u
      <4> QED BY <2>1, <2>2, <2>4
    <3> HIDE DEF u
    <3> QED BY <3>1
  <2>6. v = u
    <3> HIDE DEF u
    <3> QED BY <2>1, <2>4, <2>5
  <2>7. u = [n \in Nodes |->
               \/ n \in Leaves \cap trusted
               \/ /\ n \in Composites /\ Children[n] # {}
                  /\ Holds(operator[n], {c \in Children[n] : v[c]}, Children[n])]
    BY Zenon
  <2> HIDE DEF u
  <2> QED BY <2>6, <2>7 DEF Values
<1> HIDE DEF v
<1> QED BY <1>8

LEMMA VerdictIsValue ==
    ASSUME NEW trusted
    PROVE  \E v : Values(trusted, v) /\ Verdict(trusted) = v[Root]
<1> DEFINE w == CHOOSE v : Values(trusted, v)
<1>1. Values(trusted, w)
  BY ValuesExist
<1>2. Verdict(trusted) = w[Root]
  BY DEF Verdict, Values
<1> HIDE DEF w
<1> QED BY <1>1, <1>2

LEMMA ValueOf ==
    ASSUME NEW trusted, NEW v, Values(trusted, v)
    PROVE  /\ \A l \in Leaves : v[l] <=> l \in trusted
           /\ \A n \in Composites :
                 v[n] <=> /\ Children[n] # {}
                          /\ Holds(operator[n], {c \in Children[n] : v[c]}, Children[n])
<1>1. ASSUME NEW n \in Nodes
      PROVE  v[n] <=> \/ n \in Leaves \cap trusted
                      \/ /\ n \in Composites /\ Children[n] # {}
                         /\ Holds(operator[n], {c \in Children[n] : v[c]}, Children[n])
  BY DEF Values
<1>2. Leaves \cap Composites = {} /\ Nodes = Leaves \cup Composites
  BY TreeAssumption DEF Nodes
<1>3. ASSUME NEW l \in Leaves PROVE v[l] <=> l \in trusted
  BY <1>1, <1>2
<1>4. ASSUME NEW n \in Composites
      PROVE  v[n] <=> /\ Children[n] # {}
                      /\ Holds(operator[n], {c \in Children[n] : v[c]}, Children[n])
  BY <1>1, <1>2
<1> QED BY <1>3, <1>4

(* A leaf more that allows never turns an allow into a denial.             *)
LEMMA VerdictIsMonotone ==
    ASSUME NEW T, NEW S, Verdict(T)
    PROVE  Verdict(T \cup S)
<1>1. PICK v : Values(T, v) /\ Verdict(T) = v[Root]
  BY VerdictIsValue
<1>2. PICK w : Values(T \cup S, w) /\ Verdict(T \cup S) = w[Root]
  BY VerdictIsValue
<1> DEFINE Lost == {n \in Nodes : v[n] /\ ~w[n]}
<1>3. ASSUME Lost # {} PROVE FALSE
  <2>1. PICK n \in Lost : \A m \in Lost : ~(Built[m] < Built[n])
    BY <1>3, FirstBuilt
  <2>2. CASE n \in Leaves
    BY <1>1, <1>2, <2>1, <2>2, ValueOf
  <2>3. CASE n \in Composites
    <3> DEFINE A == {c \in Children[n] : v[c]}
               B == {c \in Children[n] : w[c]}
    <3>1. \A c \in Children[n] : c \in Nodes /\ Built[c] < Built[n]
      BY <2>3, TreeAssumption
    <3>2. \A c \in Children[n] : v[c] => w[c]
      BY <2>1, <3>1
    <3>3. A \in SUBSET B /\ B \in SUBSET Children[n] /\ IsFiniteSet(Children[n])
      BY <2>3, <3>2, TreeAssumption
    <3>4. Children[n] # {} /\ Holds(operator[n], A, Children[n])
      <4>1. v[n]
        BY <2>1
      <4> QED BY <1>1, <2>3, <4>1, ValueOf
    <3>5. Holds(operator[n], B, Children[n])
      <4> HIDE DEF A, B
      <4> QED BY <3>3, <3>4, HoldsIsMonotone
    <3>6. w[n]
      BY <1>2, <2>3, <3>4, <3>5, ValueOf
    <3> QED BY <2>1, <3>6
  <2> QED BY <2>2, <2>3 DEF Nodes
<1>4. Root \in Nodes
  BY TreeAssumption DEF Nodes
<1> QED BY <1>1, <1>2, <1>3, <1>4

-----------------------------------------------------------------------------
(* The call of a tree, of any size and any operators.  It spreads from the *)
(* root, and a composite has an answer only once all its children have.    *)
Closed(S) == Root \in S /\ \A n \in Composites \cap S : Children[n] \subseteq S

LeafAnswers(l) ==
    {[kind |-> kind, incomplete |-> FALSE, ids |-> IF kind = "allow" THEN {l} ELSE {}] : kind \in Kinds}

ComposedAnswer(n) == IF Children[n] = {} THEN [NoResponse EXCEPT !.kind = "deny"] ELSE applyLogic(n)

CompositeInv ==
    /\ status \in [Nodes -> {"idle", "called", "collecting", "returned"}]
    /\ DOMAIN response = Nodes
    /\ \A n \in Composites : operator[n] \in Operators(n)
    /\ \A S \in SUBSET Nodes : Closed(S) => \A n \in Nodes : status[n] # "idle" => n \in S
    /\ \A n \in Composites : status[n] \in {"idle", "called"} => \A c \in Children[n] : status[c] = "idle"
    /\ \A n \in Composites : status[n] = "collecting" => Children[n] # {}
    /\ \A n \in Composites : status[n] = "returned" =>
          response[n] = ComposedAnswer(n) /\ \A c \in Children[n] : status[c] = "returned"
    /\ \A l \in Leaves : status[l] = "returned" => response[l] \in LeafAnswers(l)

LEMMA TreeFacts ==
    /\ Nodes = Leaves \cup Composites /\ Leaves \cap Composites = {} /\ Root \in Composites
    /\ \A n \in Composites : /\ Children[n] \subseteq Nodes /\ IsFiniteSet(Children[n])
                             /\ Root \notin Children[n] /\ n \notin Children[n]
    /\ \A m, n \in Composites : \A c \in Children[m] : c \in Children[n] => m = n
<1>1. \A n \in Composites : /\ Children[n] \subseteq Nodes /\ IsFiniteSet(Children[n])
                            /\ Root \notin Children[n]
  BY TreeAssumption
<1>2. ASSUME NEW n \in Composites, n \in Children[n] PROVE FALSE
  <2>1. Built[n] \in Nat /\ Built[n] < Built[n]
    BY <1>2, TreeAssumption DEF Nodes
  <2> QED BY <2>1
<1>3. ASSUME NEW m \in Composites, NEW n \in Composites, NEW c \in Children[m], c \in Children[n]
      PROVE  m = n
  BY <1>3, TreeAssumption
<1> QED BY <1>1, <1>2, <1>3, TreeAssumption DEF Nodes

LEMMA CompositeStart == CompositeInit => CompositeInv
<1> SUFFICES ASSUME CompositeInit PROVE CompositeInv
  OBVIOUS
<1>1. \A n \in Nodes : status[n] = "idle"
  BY DEF CompositeInit
<1>2. \A n \in Composites : operator[n] \in Operators(n)
  BY DEF CompositeInit
<1> QED BY <1>1, <1>2, TreeFacts DEF CompositeInit, CompositeInv

(* The answer of a composite stays while its children's do.                *)
LEMMA AnswerKept ==
    ASSUME NEW n \in Composites, operator' = operator,
           \A c \in Children[n] : response'[c] = response[c]
    PROVE  ComposedAnswer(n)' = ComposedAnswer(n)
<1>1. Agreed(n)' = Agreed(n)
  BY DEF Agreed
<1>2. Incomplete(n)' = Incomplete(n)
  BY DEF Incomplete
<1>3. \A d : MergedIds(n, d)' = MergedIds(n, d)
  <2>1. {response'[c].ids : c \in Agreed(n)} = {response[c].ids : c \in Agreed(n)}
    BY DEF Agreed
  <2> QED BY <1>1, <2>1 DEF MergedIds
<1>4. applyLogic(n)' = applyLogic(n)
  BY <1>1, <1>2, <1>3 DEF applyLogic
<1> QED BY <1>4 DEF ComposedAnswer

LEMMA RootCalled == CompositeInv /\ CallRoot => CompositeInv'
<1> SUFFICES ASSUME CompositeInv, CallRoot PROVE CompositeInv'
  OBVIOUS
<1>1. /\ status' = [status EXCEPT ![Root] = "called"] /\ status[Root] = "idle"
      /\ UNCHANGED <<operator, response>>
  BY DEF CallRoot
<1>2. /\ status' \in [Nodes -> {"idle", "called", "collecting", "returned"}]
      /\ status'[Root] = "called" /\ \A n \in Nodes \ {Root} : status'[n] = status[n]
  BY <1>1, TreeFacts DEF CompositeInv
<1>3. \A S \in SUBSET Nodes : Closed(S) => \A n \in Nodes : status'[n] # "idle" => n \in S
  BY <1>2 DEF CompositeInv, Closed
<1>4. \A n \in Composites : status'[n] \in {"idle", "called"} => \A c \in Children[n] : status'[c] = "idle"
  BY <1>1, <1>2, TreeFacts DEF CompositeInv
<1>5. ASSUME NEW n \in Composites, status'[n] = "returned"
      PROVE  response'[n] = ComposedAnswer(n)' /\ \A c \in Children[n] : status'[c] = "returned"
  <2>1. status[n] = "returned" /\ n # Root
    BY <1>2, <1>5, TreeFacts
  <2>2. ComposedAnswer(n)' = ComposedAnswer(n)
    BY <1>1, AnswerKept
  <2> QED BY <1>1, <1>2, <2>1, <2>2, TreeFacts DEF CompositeInv
<1>6. \A l \in Leaves : status'[l] = "returned" => response'[l] \in LeafAnswers(l)
  BY <1>1, <1>2, TreeFacts DEF CompositeInv
<1> QED BY <1>1, <1>2, <1>3, <1>4, <1>5, <1>6 DEF CompositeInv, Closed, LeafAnswers, Operators

LEMMA Forks ==
    ASSUME CompositeInv, NEW n \in Composites, Fork(n)
    PROVE  CompositeInv'
<1>1. /\ status[n] = "called" /\ UNCHANGED <<operator, response>>
      /\ status' = [m \in Nodes |-> IF m = n THEN "collecting"
                                    ELSE IF m \in Children[n] THEN "called" ELSE status[m]]
  BY DEF Fork
<1>2. \A c \in Children[n] : status[c] = "idle" /\ c \in Nodes /\ c # n
  BY <1>1, TreeFacts DEF CompositeInv
<1>3. /\ status' \in [Nodes -> {"idle", "called", "collecting", "returned"}]
      /\ status'[n] = "collecting" /\ \A c \in Children[n] : status'[c] = "called"
      /\ \A m \in Nodes : m # n /\ m \notin Children[n] => status'[m] = status[m]
  BY <1>1, <1>2, TreeFacts DEF CompositeInv
<1>4. ASSUME NEW S \in SUBSET Nodes, Closed(S), NEW m \in Nodes, status'[m] # "idle" PROVE m \in S
  <2>1. n \in S
    BY <1>1, <1>4, TreeFacts DEF CompositeInv
  <2>2. Children[n] \subseteq S
    BY <1>4, <2>1 DEF Closed
  <2> QED BY <1>3, <1>4, <2>1, <2>2 DEF CompositeInv
<1>5. ASSUME NEW m \in Composites, status'[m] \in {"idle", "called"}, NEW c \in Children[m]
      PROVE  status'[c] = "idle"
  <2>1. m # n /\ status[m] \in {"idle", "called"}
    BY <1>2, <1>3, <1>5, TreeFacts
  <2>2. status[c] = "idle" /\ c \in Nodes
    BY <2>1, TreeFacts DEF CompositeInv
  <2>3. c # n /\ c \notin Children[n]
    BY <1>1, <2>1, <2>2, TreeFacts
  <2> QED BY <1>3, <2>2, <2>3
<1>6. ASSUME NEW m \in Composites, status'[m] = "returned"
      PROVE  response'[m] = ComposedAnswer(m)' /\ \A c \in Children[m] : status'[c] = "returned"
  <2>1. m # n /\ status[m] = "returned"
    BY <1>3, <1>6, TreeFacts
  <2>2. ComposedAnswer(m)' = ComposedAnswer(m)
    BY <1>1, AnswerKept
  <2>3. ASSUME NEW c \in Children[m] PROVE status'[c] = "returned"
    <3>1. status[c] = "returned" /\ c \in Nodes
      BY <2>1, TreeFacts DEF CompositeInv
    <3>2. c # n /\ c \notin Children[n]
      BY <1>1, <1>2, <3>1
    <3> QED BY <1>3, <3>1, <3>2
  <2> QED BY <1>1, <2>1, <2>2, <2>3 DEF CompositeInv
<1>7. \A l \in Leaves : status'[l] = "returned" => response'[l] \in LeafAnswers(l)
  BY <1>1, <1>3, TreeFacts DEF CompositeInv
<1>8. \A m \in Composites : status'[m] = "collecting" => Children[m] # {}
  BY <1>3, TreeFacts DEF CompositeInv, Fork
<1> QED BY <1>1, <1>3, <1>4, <1>5, <1>6, <1>7, <1>8 DEF CompositeInv, Closed, LeafAnswers, Operators

(* A node answers: a leaf that was called or a composite.                  *)
AnswerOf(m, res) ==
    \/ m \in Leaves /\ res \in LeafAnswers(m)
    \/ /\ m \in Composites /\ res = ComposedAnswer(m)
       /\ \A c \in Children[m] : status[c] = "returned"

Responds(m, res) ==
    /\ status[m] \in {"called", "collecting"}
    /\ status' = [status EXCEPT ![m] = "returned"]
    /\ response' = [response EXCEPT ![m] = res]
    /\ operator' = operator

LEMMA Answers ==
    ASSUME CompositeInv, NEW m \in Nodes, NEW res, Responds(m, res), AnswerOf(m, res)
    PROVE  CompositeInv'
<1> USE DEF Responds
<1>0. /\ m \in Leaves => res \in LeafAnswers(m)
      /\ m \in Composites => res = ComposedAnswer(m) /\ \A c \in Children[m] : status[c] = "returned"
  BY TreeFacts DEF AnswerOf
<1>1. /\ status' \in [Nodes -> {"idle", "called", "collecting", "returned"}]
      /\ DOMAIN response' = Nodes
      /\ status'[m] = "returned" /\ response'[m] = res
      /\ \A n \in Nodes \ {m} : status'[n] = status[n] /\ response'[n] = response[n]
  BY DEF CompositeInv
<1>2. \A S \in SUBSET Nodes : Closed(S) => \A n \in Nodes : status'[n] # "idle" => n \in S
  BY <1>1 DEF CompositeInv
<1>3. \A n \in Composites : status'[n] \in {"idle", "called"} => \A c \in Children[n] : status'[c] = "idle"
  BY <1>1, TreeFacts DEF CompositeInv
<1>4. ASSUME NEW n \in Composites, status'[n] = "returned"
      PROVE  response'[n] = ComposedAnswer(n)' /\ \A c \in Children[n] : status'[c] = "returned"
  <2>1. /\ \A c \in Children[n] : status[c] = "returned" /\ c \in Nodes
        /\ response'[n] = ComposedAnswer(n)
    BY <1>0, <1>1, <1>4, TreeFacts DEF CompositeInv
  <2>2. \A c \in Children[n] : status'[c] = "returned" /\ response'[c] = response[c]
    BY <1>1, <2>1
  <2>3. ComposedAnswer(n)' = ComposedAnswer(n)
    BY <2>2, AnswerKept
  <2> QED BY <2>1, <2>2, <2>3
<1>5. \A l \in Leaves : status'[l] = "returned" => response'[l] \in LeafAnswers(l)
  BY <1>0, <1>1, TreeFacts DEF CompositeInv
<1>6. \A n \in Composites : operator'[n] \in Operators(n)
  BY DEF CompositeInv
<1> QED BY <1>1, <1>2, <1>3, <1>4, <1>5, <1>6 DEF CompositeInv, Closed, LeafAnswers, Operators

LEMMA CompositeStep == CompositeInv /\ [CompositeNext]_compositeVars => CompositeInv'
<1> SUFFICES ASSUME CompositeInv, [CompositeNext]_compositeVars PROVE CompositeInv'
  OBVIOUS
<1>1. CASE CallRoot
  BY <1>1, RootCalled
<1>2. ASSUME NEW n \in Composites, Fork(n) PROVE CompositeInv'
  BY <1>2, Forks
<1>3. ASSUME NEW n \in Composites, ReturnEmpty(n) PROVE CompositeInv'
  <2>1. PICK res : res = ComposedAnswer(n)
    OBVIOUS
  <2>2. n \in Nodes /\ Responds(n, res)
    BY <1>3, <2>1, TreeFacts DEF ReturnEmpty, ComposedAnswer, Responds
  <2>3. AnswerOf(n, res)
    BY <1>3, <2>1 DEF AnswerOf, ReturnEmpty
  <2> QED BY <2>2, <2>3, Answers
<1>4. ASSUME NEW n \in Composites, Return(n) PROVE CompositeInv'
  <2>1. PICK res : res = ComposedAnswer(n)
    OBVIOUS
  <2>2. n \in Nodes /\ Responds(n, res)
    <3>1. Children[n] # {}
      BY <1>4 DEF Return, CompositeInv
    <3> QED BY <1>4, <2>1, <3>1, TreeFacts DEF Return, ComposedAnswer, Responds
  <2>3. AnswerOf(n, res)
    BY <1>4, <2>1 DEF AnswerOf, Return
  <2> QED BY <2>2, <2>3, Answers
<1>5. ASSUME NEW l \in Leaves, NEW kind \in Kinds, LeafReturn(l, kind) PROVE CompositeInv'
  <2>1. PICK res : res = [kind |-> kind, incomplete |-> FALSE, ids |-> IF kind = "allow" THEN {l} ELSE {}]
    OBVIOUS
  <2>2. l \in Nodes /\ Responds(l, res)
    BY <1>5, <2>1, TreeFacts DEF LeafReturn, Responds
  <2>3. AnswerOf(l, res)
    BY <2>1 DEF AnswerOf, LeafAnswers
  <2> QED BY <2>2, <2>3, Answers
<1>6. CASE UNCHANGED <<operator, status, response>>
  <2>1. \A n \in Composites : ComposedAnswer(n)' = ComposedAnswer(n)
    BY <1>6, AnswerKept
  <2> QED BY <1>6, <2>1 DEF CompositeInv, Closed, LeafAnswers, Operators
<1> QED BY <1>1, <1>2, <1>3, <1>4, <1>5, <1>6
        DEF CompositeNext, Timeout, LeafPanic, compositeVars

LEMMA CompositeAlways == CompositeSpec => []CompositeInv
  BY CompositeStart, CompositeStep, PTL DEF CompositeSpec

-----------------------------------------------------------------------------
(* What has been answered, node by node.                                   *)
Back(n) == n \in Nodes /\ status[n] = "returned"

LEMMA LeafFacts ==
    ASSUME CompositeInv, NEW l \in Leaves, Back(l)
    PROVE  /\ response[l].kind \in Kinds /\ ~response[l].incomplete
           /\ l \in Trusting <=> response[l].kind = "allow"
           /\ l \in Failing <=> response[l].kind \in {"nil", "error"}
           /\ response[l].ids = IF response[l].kind = "allow" THEN {l} ELSE {}
<1>1. PICK kind \in Kinds : response[l] = [kind |-> kind, incomplete |-> FALSE,
                                          ids |-> IF kind = "allow" THEN {l} ELSE {}]
  BY DEF CompositeInv, LeafAnswers, Back
<1>2. response[l].kind = kind /\ ~response[l].incomplete
      /\ response[l].ids = IF kind = "allow" THEN {l} ELSE {}
  BY <1>1
<1> QED BY <1>2 DEF Trusting, Failing, Back

LEMMA ComposedFacts ==
    ASSUME CompositeInv, NEW n \in Composites, Back(n)
    PROVE  /\ \A c \in Children[n] : Back(c)
           /\ response[n].kind \in {"allow", "deny"}
           /\ response[n].kind = "allow" <=> Children[n] # {} /\ Holds(operator[n], Agreed(n), Children[n])
           /\ response[n].incomplete <=> Incomplete(n)
           /\ response[n].ids = IF response[n].kind = "allow"
                                THEN UNION {response[c].ids : c \in Agreed(n)} ELSE {}
<1>1. \A c \in Children[n] : Back(c)
  BY TreeFacts DEF CompositeInv, Back
<1>2. response[n] = ComposedAnswer(n)
  BY DEF CompositeInv, Back
<1>3. CASE Children[n] = {}
  <2>1. response[n] = [kind |-> "deny", incomplete |-> FALSE, ids |-> {}]
    BY <1>2, <1>3 DEF ComposedAnswer, NoResponse
  <2>2. ~Incomplete(n)
    BY <1>3 DEF Incomplete
  <2> QED BY <1>1, <1>3, <2>1, <2>2
<1>4. CASE Children[n] # {}
  <2> DEFINE d == Decide(operator[n], Cardinality(Agreed(n)), Cardinality(Children[n]))
  <2>1. d <=> Holds(operator[n], Agreed(n), Children[n])
    <3>1. operator[n].threshold \in Nat
      <4>1. Cardinality(Children[n]) \in Nat
        BY TreeFacts, FS_CardinalityType
      <4>2. operator[n] \in Operators(n)
        BY DEF CompositeInv
      <4> QED BY <4>1, <4>2 DEF Operators
    <3>2. IsFiniteSet(Children[n]) /\ Agreed(n) \in SUBSET Children[n]
      BY TreeFacts DEF Agreed
    <3> QED BY <3>1, <3>2, CountsAreHolds
  <2>2. response[n] = [kind |-> IF d THEN "allow" ELSE "deny", incomplete |-> Incomplete(n),
                       ids |-> MergedIds(n, d)]
    BY <1>2, <1>4 DEF ComposedAnswer, applyLogic
  <2> HIDE DEF d
  <2>3. /\ response[n].kind = IF d THEN "allow" ELSE "deny"
        /\ response[n].incomplete = Incomplete(n)
        /\ response[n].ids = IF d THEN UNION {response[c].ids : c \in Agreed(n)} ELSE {}
    BY <2>2 DEF MergedIds
  <2> QED BY <1>1, <1>4, <2>1, <2>3
<1> QED BY <1>3, <1>4

(* A claim about nodes that are back, by the order they were built in.     *)
LEMMA FirstBack ==
    ASSUME CompositeInv, NEW T, T # {}, \A n \in T : Back(n)
    PROVE  \E n \in T : /\ Back(n)
                        /\ n \in Composites => \A c \in Children[n] : c \notin T /\ Back(c)
<1>1. PICK n \in T : \A m \in T : ~(Built[m] < Built[n])
  BY FirstBuilt DEF Back
<1>2. ASSUME n \in Composites, NEW c \in Children[n] PROVE c \notin T /\ Back(c)
  BY <1>1, <1>2, ComposedFacts, TreeAssumption
<1> QED BY <1>1, <1>2

LEMMA KindIsValue ==
    ASSUME CompositeInv, NEW v, Values(Trusting, v), NEW n, Back(n)
    PROVE  response[n].kind = "allow" <=> v[n]
<1> DEFINE T == {m \in Nodes : Back(m) /\ ~(response[m].kind = "allow" <=> v[m])}
<1>1. ASSUME T # {} PROVE FALSE
  <2>1. PICK m \in T : /\ Back(m)
                       /\ m \in Composites => \A c \in Children[m] : c \notin T /\ Back(c)
    <3>1. \A x \in T : Back(x)
      OBVIOUS
    <3> HIDE DEF T
    <3> QED BY <1>1, <3>1, FirstBack
  <2>2. ~(response[m].kind = "allow" <=> v[m])
    OBVIOUS
  <2>3. CASE m \in Leaves
    BY <2>1, <2>2, <2>3, LeafFacts, ValueOf
  <2>4. CASE m \in Composites
    <3>1. \A c \in Children[m] : response[c].kind = "allow" <=> v[c]
      BY <2>1, <2>4 DEF Back
    <3>2. Agreed(m) = {c \in Children[m] : v[c]}
      BY <3>1 DEF Agreed
    <3>3. v[m] <=> Children[m] # {} /\ Holds(operator[m], Agreed(m), Children[m])
      BY <2>4, <3>2, ValueOf
    <3>4. response[m].kind = "allow" <=> Children[m] # {} /\ Holds(operator[m], Agreed(m), Children[m])
      BY <2>1, <2>4, ComposedFacts
    <3> QED BY <2>2, <3>3, <3>4
  <2> QED BY <2>3, <2>4, TreeFacts
<1> QED BY <1>1 DEF Back

(* An answer is marked incomplete only if some leaf failed ...             *)
LEMMA IncompleteHasCause ==
    ASSUME CompositeInv, NEW n, Back(n), response[n].incomplete
    PROVE  Failing # {}
<1> DEFINE T == {m \in Nodes : Back(m) /\ (response[m].incomplete \/ response[m].kind \in {"nil", "error"})}
<1>1. T # {} /\ \A m \in T : Back(m)
  BY DEF Back
<1>2. PICK m \in T : /\ Back(m)
                     /\ m \in Composites => \A c \in Children[m] : c \notin T /\ Back(c)
  <2> HIDE DEF T
  <2> QED BY <1>1, FirstBack
<1>3. CASE m \in Leaves
  BY <1>2, <1>3, LeafFacts
<1>4. CASE m \in Composites
  <2>1. Incomplete(m)
    BY <1>2, <1>4, ComposedFacts
  <2> QED BY <1>2, <1>4, <2>1 DEF Incomplete, Back
<1> QED BY <1>3, <1>4, TreeFacts

(* ... and it is whenever one did, however deep in the tree.               *)
LEMMA FailureIsFlagged ==
    ASSUME CompositeInv, Finished, ~response[Root].incomplete
    PROVE  Failing = {}
<1> DEFINE S == {m \in Nodes : Back(m) /\ ~response[m].incomplete /\ response[m].kind \notin {"nil", "error"}}
<1>1. Root \in S
  BY TreeFacts, ComposedFacts DEF Finished, Back
<1>2. ASSUME NEW m \in Composites \cap S, NEW c \in Children[m] PROVE c \in S
  <2>1. Back(c) /\ ~Incomplete(m)
    BY ComposedFacts
  <2> QED BY <2>1 DEF Incomplete, Back
<1>3. Closed(S) /\ S \in SUBSET Nodes
  <2>1. S \in SUBSET Nodes
    OBVIOUS
  <2> HIDE DEF S
  <2> QED BY <1>1, <1>2, <2>1 DEF Closed
<1>4. ASSUME NEW l \in Failing PROVE FALSE
  <2>1. l \in S
    <3> HIDE DEF S
    <3> QED BY <1>3, TreeFacts DEF CompositeInv, Failing
  <2> QED BY <2>1 DEF Failing
<1> QED BY <1>4

(* The parent of an identifier's leaf, up to the node at hand, allowed.    *)
LEMMA IdsAreAllowed ==
    ASSUME CompositeInv, NEW n \in Composites, Back(n), NEW l \in response[n].ids
    PROVE  /\ l \in Trusting /\ response[n].kind = "allow"
           /\ \A m \in Composites : l \in Children[m] => response[m].kind = "allow"
<1> DEFINE Ok(x) == /\ x \in Trusting
                    /\ \A m \in Composites : x \in Children[m] => response[m].kind = "allow"
           T == {m \in Composites : Back(m) /\ \E x \in response[m].ids : ~Ok(x)}
<1>1. ASSUME T # {} PROVE FALSE
  <2>1. PICK m \in T : /\ Back(m)
                       /\ m \in Composites => \A c \in Children[m] : c \notin T /\ Back(c)
    <3>1. \A x \in T : Back(x)
      OBVIOUS
    <3> HIDE DEF T
    <3> QED BY <1>1, <3>1, FirstBack
  <2>2. PICK x \in response[m].ids : ~Ok(x)
    OBVIOUS
  <2>3. m \in Composites /\ response[m].kind = "allow"
    BY <2>1, ComposedFacts
  <2>4. PICK c \in Agreed(m) : x \in response[c].ids
    <3>1. response[m].ids = UNION {response[c].ids : c \in Agreed(m)}
      BY <2>1, <2>3, ComposedFacts
    <3> QED BY <2>2, <3>1
  <2>5. c \in Children[m] /\ Back(c) /\ c \notin T /\ response[c].kind = "allow"
    BY <2>1, <2>3, <2>4 DEF Agreed
  <2>6. CASE c \in Leaves
    <3>1. x = c /\ x \in Trusting
      <4>1. response[c].ids = {c} /\ c \in Trusting
        BY <2>5, <2>6, LeafFacts
      <4> QED BY <2>4, <4>1
    <3>2. \A k \in Composites : x \in Children[k] => k = m
      BY <2>3, <2>5, <3>1, TreeFacts
    <3> QED BY <2>2, <2>3, <3>1, <3>2
  <2>7. CASE c \in Composites
    BY <2>2, <2>4, <2>5, <2>7
  <2> QED BY <2>5, <2>6, <2>7, TreeFacts DEF Back
<1>2. Ok(l)
  <2> HIDE DEF Ok
  <2> QED BY <1>1
<1>3. response[n].kind = "allow"
  BY ComposedFacts
<1> QED BY <1>2, <1>3

LEMMA SafeVerdict == CompositeInv => VerdictIsSafe
<1> SUFFICES ASSUME CompositeInv, Finished
             PROVE  /\ response[Root].kind = "allow" <=> Verdict(Trusting)
                    /\ response[Root].kind = "allow" => \A S \in SUBSET Failing : Verdict(Trusting \cup S)
                    /\ response[Root].incomplete <=> Failing # {}
                    /\ \A l \in response[Root].ids :
                          /\ l \in Trusting /\ response[Root].kind = "allow"
                          /\ \A n \in Composites : l \in Children[n] => response[n].kind = "allow"
  BY DEF VerdictIsSafe, DecisionIsVerdict, FailuresAreSafe, IdsOnlyThroughAllows
<1>1. Root \in Composites /\ Back(Root)
  BY TreeFacts DEF Finished, Back
<1>2. response[Root].kind = "allow" <=> Verdict(Trusting)
  <2>1. PICK v : Values(Trusting, v) /\ Verdict(Trusting) = v[Root]
    BY VerdictIsValue
  <2> QED BY <1>1, <2>1, KindIsValue
<1>3. response[Root].kind = "allow" => \A S \in SUBSET Failing : Verdict(Trusting \cup S)
  BY <1>2, VerdictIsMonotone
<1>4. response[Root].incomplete <=> Failing # {}
  BY <1>1, IncompleteHasCause, FailureIsFlagged
<1> QED BY <1>1, <1>2, <1>3, <1>4, IdsAreAllowed

(* What a composite registry answers, for any tree, any operators and any  *)
(* order of the answers: the boolean function of the leaves that allowed,  *)
(* no failure of a leaf ever turned into an allow or left unmarked, and    *)
(* only identifiers of leaves whose parent allowed.                        *)
THEOREM CompositeVerdictIsSafe == CompositeSpec => []VerdictIsSafe
  BY SafeVerdict, CompositeAlways, PTL

(* The responses a tree passes up are well formed: a composite answers     *)
(* with a decision and with identifiers of its leaves only.                *)
THEOREM CompositeTypeCorrect == CompositeSpec => []CompositeTypeOK
<1>1. CompositeInit => CompositeTypeOK
  <2>1. NoResponse \in Responses
    BY DEF Responses, NoResponse, Kinds
  <2> QED BY <2>1 DEF CompositeInit, CompositeTypeOK
<1>2. CompositeTypeOK /\ [CompositeNext]_compositeVars => CompositeTypeOK'
  <2> SUFFICES ASSUME CompositeTypeOK, [CompositeNext]_compositeVars PROVE CompositeTypeOK'
    OBVIOUS
  <2>1. operator' = operator
    BY DEF CompositeNext, CallRoot, Fork, ReturnEmpty, Return, Timeout, LeafReturn, LeafPanic, compositeVars
  <2>2. status' \in [Nodes -> {"idle", "called", "collecting", "returned"}]
    BY DEF CompositeNext, CallRoot, Fork, ReturnEmpty, Return, Timeout, LeafReturn, LeafPanic,
           compositeVars, CompositeTypeOK
  <2>3. ctxDone' \in [Composites -> BOOLEAN] /\ crashed' \in BOOLEAN
    BY DEF CompositeNext, CallRoot, Fork, ReturnEmpty, Return, Timeout, LeafReturn, LeafPanic,
           compositeVars, CompositeTypeOK
  <2>4. response' \in [Nodes -> Responses]
    <3>1. ASSUME NEW n \in Composites, ReturnEmpty(n) PROVE response' \in [Nodes -> Responses]
      <4>1. [NoResponse EXCEPT !.kind = "deny"] \in Responses
        BY DEF NoResponse, Responses, Kinds
      <4> QED BY <3>1, <4>1 DEF ReturnEmpty, CompositeTypeOK
    <3>2. ASSUME NEW n \in Composites, Return(n) PROVE response' \in [Nodes -> Responses]
      <4>1. \A c \in Children[n] : response[c].ids \subseteq Leaves
        BY TreeFacts DEF CompositeTypeOK, Responses
      <4>2. \A d : MergedIds(n, d) \in SUBSET Leaves
        BY <4>1 DEF MergedIds, Agreed
      <4>3. Incomplete(n) \in BOOLEAN
        BY DEF Incomplete
      <4>4. applyLogic(n) \in Responses
        BY <4>2, <4>3 DEF applyLogic, Responses, Kinds
      <4> QED BY <3>2, <4>4 DEF Return, CompositeTypeOK
    <3>3. ASSUME NEW l \in Leaves, NEW kind \in Kinds, LeafReturn(l, kind)
          PROVE  response' \in [Nodes -> Responses]
      <4> DEFINE res == [kind |-> kind, incomplete |-> FALSE, ids |-> IF kind = "allow" THEN {l} ELSE {}]
      <4>1. res \in Responses
        BY DEF Responses
      <4>2. response' = [response EXCEPT ![l] = res]
        BY <3>3 DEF LeafReturn
      <4> HIDE DEF res
      <4> QED BY <4>1, <4>2 DEF CompositeTypeOK
    <3>4. CASE UNCHANGED response
      BY <3>4 DEF CompositeTypeOK
    <3> QED BY <3>1, <3>2, <3>3, <3>4
            DEF CompositeNext, CallRoot, Fork, Timeout, LeafPanic, compositeVars
  <2> QED BY <2>1, <2>2, <2>3, <2>4 DEF CompositeTypeOK
<1> QED BY <1>1, <1>2, PTL DEF CompositeSpec
=============================================================================

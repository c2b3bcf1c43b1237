-------------------------- MODULE CompositeRegistry -------------------------
(***************************************************************************)
(* CompositeRegistry of pkg/registry/composite.go: a tree whose leaves are *)
(* registries and whose inner nodes combine their children with AND, OR,   *)
(* MAJORITY or QUORUM.  A composite starts one goroutine per child under a *)
(* context with its own timeout, waits for all of them and applies its     *)
(* operator; a child may itself be a composite.                            *)
(*                                                                         *)
(* A failed child (an error or no response) counts as not agreeing, and    *)
(* the response is marked incomplete, also through nested composites.      *)
(***************************************************************************)
EXTENDS Naturals, FiniteSets

CONSTANTS Leaves, Composites,
          Root,           \* the composite registered with the manager
          Children,       \* Children[n]: set of child nodes of composite n
          Built           \* Built[n]: when n was constructed

Nodes == Leaves \cup Composites

(* A node is one occurrence of a registry in the tree and has at most one  *)
(* parent.  The constructor takes the slice of the children, which is      *)
(* never changed again: they are built before the composite.               *)
ASSUME TreeAssumption ==
    /\ Root \in Composites
    /\ Leaves \cap Composites = {}
    /\ Children \in [Composites -> SUBSET Nodes]
    /\ \A n \in Composites : IsFiniteSet(Children[n]) /\ Root \notin Children[n]
    /\ \A m, n \in Composites : Children[m] \cap Children[n] # {} => m = n
    /\ Built \in [Nodes -> Nat]
    /\ \A n \in Composites : \A c \in Children[n] : Built[c] < Built[n]

(* The operators; a quorum carries its threshold.  WithThreshold takes any *)
(* integer, and Decide only compares it with counts of children: one below *)
(* zero decides as zero, one above the number of children as the next.     *)
Operators(n) == [op : {"AND", "OR", "MAJORITY", "unknown"}, threshold : {1}]
                \cup [op : {"QUORUM"}, threshold : 0 .. Cardinality(Children[n]) + 1]

VARIABLES operator,   \* operator[n]: fixed when composite n is built
          status,     \* "idle", "called", "collecting" (composites) or "returned"
          response,   \* response[n] of a node that has returned
          ctxDone,    \* ctxDone[n]: the timeout context of composite n is done
          crashed     \* an unrecovered panic has ended the process

compositeVars == <<operator, status, response, ctxDone, crashed>>

Kinds == {"allow", "deny", "nil", "error"}

(* ids: the leaves whose verifier identifiers the response carries.        *)
Responses == [kind : Kinds, incomplete : BOOLEAN, ids : SUBSET Leaves]

NoResponse == [kind |-> "nil", incomplete |-> FALSE, ids |-> {}]

CompositeTypeOK ==
    /\ operator \in [Composites -> UNION {Operators(n) : n \in Composites}]
    /\ status \in [Nodes -> {"idle", "called", "collecting", "returned"}]
    /\ response \in [Nodes -> Responses]
    /\ ctxDone \in [Composites -> BOOLEAN]
    /\ crashed \in BOOLEAN

CompositeInit ==
    /\ operator \in {f \in [Composites -> UNION {Operators(n) : n \in Composites}] :
                        \A n \in Composites : f[n] \in Operators(n)}
    /\ status = [n \in Nodes |-> "idle"]
    /\ response = [n \in Nodes |-> NoResponse]
    /\ ctxDone = [n \in Composites |-> FALSE]
    /\ crashed = FALSE

-----------------------------------------------------------------------------
(* applyLogic: counts over the collected results.                          *)

Agreed(n) == {c \in Children[n] : response[c].kind = "allow"}

\* A majority that an even split reaches: >= total/2.
DecideHalf(o, agreed, total) ==
    CASE o.op = "AND"      -> agreed = total
      [] o.op = "OR"       -> agreed > 0
      [] o.op = "MAJORITY" -> agreed >= total \div 2
      [] o.op = "QUORUM"   -> o.threshold <= total /\ agreed >= o.threshold
      [] OTHER             -> FALSE

Decide(o, agreed, total) ==
    CASE o.op = "AND"      -> agreed = total
      [] o.op = "OR"       -> agreed > 0
      [] o.op = "MAJORITY" -> agreed > total \div 2
      [] o.op = "QUORUM"   -> o.threshold <= total /\ agreed >= o.threshold
      [] OTHER             -> FALSE

\* Only children that failed themselves, not the nested incomplete ones.
IncompleteShallow(n) == \E c \in Children[n] : response[c].kind \in {"nil", "error"}

Incomplete(n) ==
    \E c \in Children[n] : response[c].kind \in {"nil", "error"} \/ response[c].incomplete

MergedIds(n, decision) ==
    IF decision THEN UNION {response[c].ids : c \in Agreed(n)} ELSE {}

applyLogic(n) ==
    LET decision == Decide(operator[n], Cardinality(Agreed(n)), Cardinality(Children[n]))
    IN  [kind       |-> IF decision THEN "allow" ELSE "deny",
         incomplete |-> Incomplete(n),
         ids        |-> MergedIds(n, decision)]

-----------------------------------------------------------------------------
(* The manager calls the root.  A composite keeps nothing between calls,   *)
(* so one call stands for every one.                                       *)
CallRoot ==
    /\ ~crashed
    /\ status[Root] = "idle"
    /\ status' = [status EXCEPT ![Root] = "called"]
    /\ UNCHANGED <<operator, response, ctxDone, crashed>>

(* Evaluate of a composite: one goroutine per child.                       *)
Fork(n) ==
    /\ ~crashed
    /\ status[n] = "called"
    /\ Children[n] # {}
    /\ status' = [m \in Nodes |-> IF m = n THEN "collecting"
                                  ELSE IF m \in Children[n] THEN "called"
                                  ELSE status[m]]
    /\ UNCHANGED <<operator, response, ctxDone, crashed>>

(* "no child registries configured"                                        *)
ReturnEmpty(n) ==
    /\ ~crashed
    /\ status[n] = "called"
    /\ Children[n] = {}
    /\ status' = [status EXCEPT ![n] = "returned"]
    /\ response' = [response EXCEPT ![n] = [NoResponse EXCEPT !.kind = "deny"]]
    /\ UNCHANGED <<operator, ctxDone, crashed>>

(* The results channel is closed when every child has sent: apply logic.   *)
Return(n) ==
    /\ ~crashed
    /\ status[n] = "collecting"
    /\ \A c \in Children[n] : status[c] = "returned"
    /\ status' = [status EXCEPT ![n] = "returned"]
    /\ response' = [response EXCEPT ![n] = applyLogic(n)]
    /\ ctxDone' = [ctxDone EXCEPT ![n] = TRUE]
    /\ UNCHANGED <<operator, crashed>>

(* A leaf registry answers.                                                *)
LeafReturn(l, kind) ==
    /\ ~crashed
    /\ status[l] = "called"
    /\ status' = [status EXCEPT ![l] = "returned"]
    /\ response' = [response EXCEPT ![l] =
           [kind |-> kind, incomplete |-> FALSE, ids |-> IF kind = "allow" THEN {l} ELSE {}]]
    /\ UNCHANGED <<operator, ctxDone, crashed>>

(* A leaf panics.  The goroutine of a composite has no recover(), and      *)
(* neither the manager's nor gin's recover() covers another goroutine.     *)
LeafPanic(l) ==
    /\ ~crashed
    /\ status[l] = "called"
    /\ crashed' = TRUE
    /\ UNCHANGED <<operator, status, response, ctxDone>>

\* A composite without a timeout of its own.
NoTimeout(n) == FALSE /\ UNCHANGED compositeVars

Timeout(n) ==
    /\ ~crashed
    /\ status[n] = "collecting" /\ ~ctxDone[n]
    /\ ctxDone' = [ctxDone EXCEPT ![n] = TRUE]
    /\ UNCHANGED <<operator, status, response, crashed>>

CompositeNext ==
    \/ CallRoot
    \/ \E n \in Composites : Fork(n) \/ ReturnEmpty(n) \/ Return(n) \/ Timeout(n)
    \/ \E l \in Leaves : LeafPanic(l) \/ \E kind \in Kinds : LeafReturn(l, kind)

CompositeSpec == CompositeInit /\ [][CompositeNext]_compositeVars

(* A child's context is derived from its parent's.  The immediate parent   *)
(* is enough: its own timeout expires as well.                             *)
Expired(l) == \E n \in Composites : ctxDone[n] /\ l \in Children[n]

CompositeFairSpec ==
    /\ CompositeSpec
    /\ \A n \in Composites :
          WF_compositeVars(Fork(n) \/ ReturnEmpty(n) \/ Return(n)) /\ WF_compositeVars(Timeout(n))
    /\ \A l \in Leaves : WF_compositeVars(Expired(l) /\ \E kind \in Kinds : LeafReturn(l, kind))

-----------------------------------------------------------------------------
(* Reference: the boolean function of the tree on what the leaves say.     *)
Holds(o, yes, all) ==
    CASE o.op = "AND"      -> yes = all
      [] o.op = "OR"       -> yes # {}
      [] o.op = "MAJORITY" -> Cardinality(yes) > Cardinality(all \ yes)
      [] o.op = "QUORUM"   -> \E S \in SUBSET yes : Cardinality(S) = o.threshold
      [] OTHER             -> FALSE

Verdict(trusted) ==
    LET value[n \in Nodes] ==
            \/ n \in Leaves \cap trusted
            \/ /\ n \in Composites /\ Children[n] # {}
               /\ Holds(operator[n], {c \in Children[n] : value[c]}, Children[n])
    IN  value[Root]

Finished == ~crashed /\ status[Root] = "returned"
Trusting == {l \in Leaves : status[l] = "returned" /\ response[l].kind = "allow"}
Failing  == {l \in Leaves : status[l] = "returned" /\ response[l].kind \in {"nil", "error"}}

(* The composite computes its boolean function of the children that        *)
(* agreed, through nesting, whatever order they answered in.               *)
DecisionIsVerdict ==
    Finished => (response[Root].kind = "allow" <=> Verdict(Trusting))

(* Failures are safe and flagged: an allow stands whatever the failed      *)
(* leaves would have said, and a denial not marked incomplete is final,    *)
(* since every leaf consulted did answer.                                  *)
FailuresAreSafe ==
    Finished =>
        /\ response[Root].kind = "allow" => \A S \in SUBSET Failing : Verdict(Trusting \cup S)
        /\ response[Root].incomplete <=> Failing # {}

(* A verifier identifier in the response was emitted by a leaf that        *)
(* allowed and every composite it passed through allowed too.              *)
IdsOnlyThroughAllows ==
    Finished => \A l \in response[Root].ids :
        /\ l \in Trusting
        /\ response[Root].kind = "allow"
        /\ \A n \in Composites : l \in Children[n] => response[n].kind = "allow"

(* What the root answers is what its leaves support, failed or not.        *)
VerdictIsSafe == DecisionIsVerdict /\ FailuresAreSafe /\ IdsOnlyThroughAllows

(* Every call of the composite returns, because the timeout of each level  *)
(* reaches its children (unless the process has died).                     *)
RootReturns == status[Root] = "called" ~> status[Root] = "returned" \/ crashed
=============================================================================

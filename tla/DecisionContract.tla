-------------------------- MODULE DecisionContract --------------------------
(***************************************************************************)
(* What RegistryManager promises of a trust decision, whatever resolution  *)
(* strategy is configured and however its goroutines interleave.           *)
(*                                                                         *)
(* Each applicable registry casts at most one vote on a request.  A        *)
(* request is allowed only on the strength of a positive vote, and denied  *)
(* only when every applicable registry has voted and none was positive: a  *)
(* registry that errors, panics, answers nothing or is skipped by its      *)
(* breaker votes "no".  A decision is final.  A request that is aborted    *)
(* (a panic that reaches the HTTP layer) carries no decision at all.       *)
(***************************************************************************)
CONSTANTS Requests, Registries

VARIABLES applicable,   \* applicable[q]: registries consulted for q
          vote,         \* vote[q][r] \in {"none", "yes", "no"}
          decision      \* decision[q] \in {"new", "open", "allow", "deny", "abort"}

vars == <<applicable, vote, decision>>

Init == /\ applicable = [q \in Requests |-> {}]
        /\ vote = [q \in Requests |-> [r \in Registries |-> "none"]]
        /\ decision = [q \in Requests |-> "new"]

Receive(q, S) == /\ decision[q] = "new"
                 /\ applicable' = [applicable EXCEPT ![q] = S]
                 /\ decision' = [decision EXCEPT ![q] = IF S = {} THEN "deny" ELSE "open"]
                 /\ UNCHANGED vote

(* Votes may arrive after the decision: a first match does not wait.       *)
Vote(q, r, v) == /\ decision[q] # "new"
                 /\ r \in applicable[q]
                 /\ vote[q][r] = "none"
                 /\ vote' = [vote EXCEPT ![q][r] = v]
                 /\ UNCHANGED <<applicable, decision>>

Allow(q) == /\ decision[q] = "open"
            /\ \E r \in applicable[q] : vote[q][r] = "yes"
            /\ decision' = [decision EXCEPT ![q] = "allow"]
            /\ UNCHANGED <<applicable, vote>>

Deny(q) == /\ decision[q] = "open"
           /\ \A r \in applicable[q] : vote[q][r] = "no"
           /\ decision' = [decision EXCEPT ![q] = "deny"]
           /\ UNCHANGED <<applicable, vote>>

Abort(q) == /\ decision[q] = "open"
            /\ decision' = [decision EXCEPT ![q] = "abort"]
            /\ UNCHANGED <<applicable, vote>>

Next == \E q \in Requests :
            \/ \E S \in SUBSET Registries : Receive(q, S)
            \/ \E r \in Registries, v \in {"yes", "no"} : Vote(q, r, v)
            \/ Allow(q) \/ Deny(q) \/ Abort(q)

Spec == Init /\ [][Next]_vars

(* Whatever the registries do, a request does not stay open.               *)
EveryRequestEnds ==
    \A q \in Requests : decision[q] = "open" ~> decision[q] \in {"allow", "deny", "abort"}

LiveSpec == Spec /\ EveryRequestEnds
=============================================================================

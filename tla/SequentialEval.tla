--------------------------- MODULE SequentialEval ---------------------------
(***************************************************************************)
(* The sequential resolution strategy of RegistryManager: one loop over    *)
(* the applicable registries in registration order, on the request's own   *)
(* goroutine and under the request's own context, until one allows.        *)
(* Concurrent requests share the breakers, which are keyed by name.        *)
(* Unlike the parallel strategies the loop has no recover(): a panic in a  *)
(* registry unwinds to the HTTP layer and leaves its breaker untouched.    *)
(***************************************************************************)
EXTENDS EvalResults, CircuitBreaker, Selection

CONSTANTS Requests,
          RegistrationOrder   \* the registries, in the order of Register

(* A registry is an entry of the slice that Register appends to.           *)
ASSUME SequentialAssumption ==
    /\ RegistrationOrder \in Seq(Registries)
    /\ \A r \in Registries : \E i \in 1 .. Len(RegistrationOrder) : RegistrationOrder[i] = r
    /\ \A i, j \in 1 .. Len(RegistrationOrder) :
          RegistrationOrder[i] = RegistrationOrder[j] => i = j

VARIABLES breakers,   \* breakers[n]: the breaker of name n
          regs,       \* regs[q]: the applicable registries of q
          pc,         \* "idle", "loop", "calling", "matched", "answered", "aborted"
          ctxDone,    \* ctxDone[q]: the client has gone away
          next,       \* next[q]: index of the registry at hand
          collected,  \* collected[q]: results recorded so far
          answer      \* answer[q]: the response, or None

sequentialVars == <<breakers, regs, pc, ctxDone, next, collected, answer>>

Current(q) == regs[q][next[q]]

SequentialTypeOK ==
    /\ breakers \in [Names -> Breaker]
    /\ regs \in [Requests -> Seq(Registries)]
    /\ pc \in [Requests -> {"idle", "loop", "calling", "matched", "answered", "aborted"}]
    /\ ctxDone \in [Requests -> BOOLEAN]
    /\ next \in [Requests -> Nat \ {0}]
    /\ collected \in [Requests -> Seq(Results)]
    /\ answer \in [Requests -> Answers \cup {None}]

SequentialInit ==
    /\ breakers = [n \in Names |-> NewCircuitBreaker]
    /\ regs = [q \in Requests |-> <<>>]
    /\ pc = [q \in Requests |-> "idle"]
    /\ ctxDone = [q \in Requests |-> FALSE]
    /\ next = [q \in Requests |-> 1]
    /\ collected = [q \in Requests |-> <<>>]
    /\ answer = [q \in Requests |-> None]

-----------------------------------------------------------------------------
(* The applicable registries, in the order they were registered in.        *)
InOrder(S) == Picked(RegistrationOrder, {i \in 1 .. Len(RegistrationOrder) : RegistrationOrder[i] \in S})

Start(q, S) ==
    /\ pc[q] = "idle"
    /\ regs' = [regs EXCEPT ![q] = InOrder(S)]
    /\ pc' = [pc EXCEPT ![q] = IF S = {} THEN "answered" ELSE "loop"]
    /\ answer' = [answer EXCEPT ![q] = IF S = {} THEN NoApplicable ELSE None]
    /\ UNCHANGED <<breakers, ctxDone, next, collected>>

(* Record a result that is not an allow, and go on with the next registry. *)
Continue(q, kind, detailed) ==
    /\ collected' = [collected EXCEPT ![q] =
           Append(@, [reg |-> Current(q), kind |-> kind, detailed |-> detailed])]
    /\ next' = [next EXCEPT ![q] = @ + 1]
    /\ pc' = [pc EXCEPT ![q] = "loop"]
    /\ UNCHANGED <<regs, ctxDone, answer>>

Call(q) ==
    /\ pc[q] = "loop" /\ next[q] <= Len(regs[q])
    /\ CanAttempt(breakers[NameOf[Current(q)]])
    /\ pc' = [pc EXCEPT ![q] = "calling"]
    /\ UNCHANGED <<breakers, regs, ctxDone, next, collected, answer>>

\* An open circuit that the details of the response do not mention.
SkipUncounted(q) ==
    /\ pc[q] = "loop" /\ next[q] <= Len(regs[q])
    /\ ~CanAttempt(breakers[NameOf[Current(q)]])
    /\ next' = [next EXCEPT ![q] = @ + 1]
    /\ UNCHANGED <<breakers, regs, pc, ctxDone, collected, answer>>

Skip(q) ==
    /\ pc[q] = "loop" /\ next[q] <= Len(regs[q])
    /\ ~CanAttempt(breakers[NameOf[Current(q)]])
    /\ Continue(q, "error", FALSE)
    /\ UNCHANGED breakers

\* A match that is remembered while the loop goes on.
ReturnMatchGoesOn(q, detailed) ==
    /\ pc[q] = "calling"
    /\ breakers' = [breakers EXCEPT ![NameOf[Current(q)]] = RecordSuccess(@)]
    /\ Continue(q, "allow", detailed)

ReturnMatch(q, detailed) ==
    /\ pc[q] = "calling"
    /\ breakers' = [breakers EXCEPT ![NameOf[Current(q)]] = RecordSuccess(@)]
    /\ pc' = [pc EXCEPT ![q] = "matched"]
    /\ answer' = [answer EXCEPT ![q] =
           MatchAnswer([reg |-> Current(q), kind |-> "allow", detailed |-> detailed])]
    /\ UNCHANGED <<regs, ctxDone, next, collected>>

RespondMatch(q) ==
    /\ pc[q] = "matched"
    /\ pc' = [pc EXCEPT ![q] = "answered"]
    /\ UNCHANGED <<breakers, regs, ctxDone, next, collected, answer>>

ReturnNoMatch(q, kind, detailed) ==
    /\ pc[q] = "calling"
    /\ kind \in {"deny", "nil"}
    /\ kind = "nil" => ~detailed
    /\ breakers' = [breakers EXCEPT ![NameOf[Current(q)]] = RecordSuccess(@)]
    /\ Continue(q, kind, detailed)

ReturnError(q) ==
    /\ pc[q] = "calling"
    /\ breakers[NameOf[Current(q)]].failures < FailureBound
    /\ breakers' = [breakers EXCEPT ![NameOf[Current(q)]] = RecordFailure(@)]
    /\ Continue(q, "error", FALSE)

(* Nothing recovers in the loop; gin's recovery turns it into a 500.       *)
Panic(q) ==
    /\ pc[q] = "calling"
    /\ pc' = [pc EXCEPT ![q] = "aborted"]
    /\ UNCHANGED <<breakers, regs, ctxDone, next, collected, answer>>

Finish(q) ==
    /\ pc[q] = "loop" /\ next[q] > Len(regs[q])
    /\ pc' = [pc EXCEPT ![q] = "answered"]
    /\ answer' = [answer EXCEPT ![q] = NoMatchAnswer(collected[q])]
    /\ UNCHANGED <<breakers, regs, ctxDone, next, collected>>

(* Environment: the client closes its connection; time passes.             *)
ClientGone(q) ==
    /\ pc[q] \in {"loop", "calling"} /\ ~ctxDone[q]
    /\ ctxDone' = [ctxDone EXCEPT ![q] = TRUE]
    /\ UNCHANGED <<breakers, regs, pc, next, collected, answer>>

ClockTicks ==
    /\ \E n \in Names : breakers[n].elapsed <= ResetTimeout
    /\ breakers' = [n \in Names |-> Elapse(breakers[n])]
    /\ UNCHANGED <<regs, pc, ctxDone, next, collected, answer>>

Return(q) == \/ \E detailed \in BOOLEAN : ReturnMatch(q, detailed)
             \/ \E kind \in Kinds, detailed \in BOOLEAN : ReturnNoMatch(q, kind, detailed)

SequentialNext ==
    \/ \E q \in Requests :
          \/ \E S \in SUBSET Registries : Start(q, S)
          \/ Call(q) \/ Skip(q)
          \/ Return(q) \/ ReturnError(q) \/ Panic(q)
          \/ RespondMatch(q) \/ Finish(q)
          \/ ClientGone(q)
    \/ ClockTicks

SequentialSpec == SequentialInit /\ [][SequentialNext]_sequentialVars

LoopFairness ==
    \A q \in Requests : WF_sequentialVars(Call(q) \/ Skip(q) \/ RespondMatch(q) \/ Finish(q))

(* Every call of Evaluate returns sooner or later.                         *)
SequentialFairSpec == SequentialSpec /\ LoopFairness /\ \A q \in Requests : WF_sequentialVars(Return(q))

-----------------------------------------------------------------------------
Applicable(q) == {regs[q][i] : i \in 1 .. Len(regs[q])}

(* Preference order: an allow comes from the first registry in             *)
(* registration order that allowed; every registry before it was consulted *)
(* or skipped and did not allow, and none after it was consulted at all.   *)
PreferenceRespected ==
    \A q \in Requests : pc[q] = "answered" /\ answer[q].decision =>
        /\ answer[q].registry = NameOf[Current(q)]
        /\ Len(collected[q]) = next[q] - 1
        /\ \A i \in 1 .. Len(collected[q]) :
              collected[q][i].reg = regs[q][i] /\ ~IsAllow(collected[q][i])

Matched(q) == IF pc[q] \in {"matched", "answered"} /\ answer[q].decision
              THEN {Current(q)} ELSE {}

(* The vote that result i of the loop of q stands for.                     *)
VoteAt(q, i) == IF IsAllow(collected[q][i]) THEN "yes" ELSE "no"

(* The contract of the manager: what the loop has recorded so far are the  *)
(* votes cast.                                                             *)
Contract == INSTANCE DecisionContract WITH
    applicable <- [q \in Requests |-> Applicable(q)],
    vote       <- [q \in Requests |-> [r \in Registries |->
                      IF \E i \in 1 .. Len(collected[q]) : collected[q][i].reg = r
                      THEN VoteAt(q, CHOOSE i \in 1 .. Len(collected[q]) :
                                        collected[q][i].reg = r)
                      ELSE IF r \in Matched(q) THEN "yes" ELSE "none"]],
    decision   <- [q \in Requests |->
                      CASE pc[q] = "idle"                -> "new"
                        [] pc[q] \in {"loop", "calling", "matched"} -> "open"
                        [] pc[q] = "aborted"             -> "abort"
                        [] pc[q] = "answered" -> IF answer[q].decision THEN "allow" ELSE "deny"]

(* The loop is one of the ways the vote-and-decide contract permits.       *)
ImplementsContract == Contract!LiveSpec
=============================================================================

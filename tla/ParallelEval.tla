---------------------------- MODULE ParallelEval ----------------------------
(***************************************************************************)
(* The parallel resolution strategies of RegistryManager (first_match, all *)
(* and best_match).  For every request the strategy starts one goroutine   *)
(* per applicable registry under a context with the manager's timeout; a   *)
(* goroutine consults the registry's breaker, calls Evaluate, records the  *)
(* outcome on the breaker and sends its result on a buffered channel; a    *)
(* closer goroutine waits for all of them and closes the channel; the      *)
(* request's own goroutine ranges over the channel.  Requests run          *)
(* concurrently and share the breakers, which are keyed by registry name.  *)
(***************************************************************************)
EXTENDS EvalResults, CircuitBreaker

CONSTANTS Requests,
          Strategies,     \* "first_match", "all", "best_match": what may be configured
          Flaky           \* registries that may fail of their own accord

ASSUME ParallelAssumption ==
    /\ Strategies \subseteq {"first_match", "all", "best_match"}
    /\ IsFiniteSet(Registries)
    /\ Flaky \subseteq Registries

VARIABLES strategy,   \* the strategy the manager was built with
          breakers,   \* breakers[n]: the breaker of name n
          regs,       \* regs[q]: the applicable registries of q
          pc,         \* pc[q]: "idle", "collecting" or "answered"
          ctxDone,    \* ctxDone[q]: timeoutCtx is cancelled or timed out
          worker,     \* worker[q][r]: where the goroutine of r is
          result,     \* result[q][r]: its local result, or NoResult
          chan,       \* chan[q]: the buffered channel of results
          closed,     \* closed[q]: has the closer goroutine run?
          collected,  \* collected[q]: results received so far, in order
          answer      \* answer[q]: the response, or None

vars == <<strategy, breakers, regs, pc, ctxDone, worker, result, chan, closed, collected, answer>>

NoResult == [reg |-> None]

Applicable(q) == regs[q]

TypeOK ==
    /\ strategy \in Strategies
    /\ breakers \in [Names -> Breaker]
    /\ regs \in [Requests -> SUBSET Registries]
    /\ pc \in [Requests -> {"idle", "collecting", "answered"}]
    /\ ctxDone \in [Requests -> BOOLEAN]
    /\ worker \in [Requests -> [Registries -> {"absent", "start", "calling", "send", "done"}]]
    /\ result \in [Requests -> [Registries -> Results \cup {NoResult}]]
    /\ chan \in [Requests -> Seq(Results)]
    /\ closed \in [Requests -> BOOLEAN]
    /\ collected \in [Requests -> Seq(Results)]
    /\ answer \in [Requests -> Answers \cup {None}]

Init ==
    /\ strategy \in Strategies
    /\ breakers = [n \in Names |-> NewCircuitBreaker]
    /\ regs = [q \in Requests |-> {}]
    /\ pc = [q \in Requests |-> "idle"]
    /\ ctxDone = [q \in Requests |-> FALSE]
    /\ worker = [q \in Requests |-> [r \in Registries |-> "absent"]]
    /\ result = [q \in Requests |-> [r \in Registries |-> NoResult]]
    /\ chan = [q \in Requests |-> <<>>]
    /\ closed = [q \in Requests |-> FALSE]
    /\ collected = [q \in Requests |-> <<>>]
    /\ answer = [q \in Requests |-> None]

-----------------------------------------------------------------------------
(* The request's goroutine.                                                *)

(* Which registries are applicable depends on the request's type and its   *)
(* policy; they all start at once, so their order does not matter.         *)
Start(q, S) ==
    /\ pc[q] = "idle"
    /\ S # {}
    /\ regs' = [regs EXCEPT ![q] = S]
    /\ pc' = [pc EXCEPT ![q] = "collecting"]
    /\ worker' = [worker EXCEPT ![q] = [r \in Registries |-> IF r \in S THEN "start" ELSE "absent"]]
    /\ UNCHANGED <<strategy, breakers, ctxDone, result, chan, closed, collected, answer>>

StartEmpty(q) ==
    /\ pc[q] = "idle"
    /\ pc' = [pc EXCEPT ![q] = "answered"]
    /\ answer' = [answer EXCEPT ![q] = NoApplicable]
    /\ closed' = [closed EXCEPT ![q] = TRUE]
    /\ UNCHANGED <<strategy, breakers, regs, ctxDone, worker, result, chan, collected>>

\* A return that leaves the context alone.
RespondWithoutCancel(q, a) ==
    /\ pc' = [pc EXCEPT ![q] = "answered"]
    /\ answer' = [answer EXCEPT ![q] = a]
    /\ UNCHANGED ctxDone

(* The deferred cancel() runs with every return.                           *)
Respond(q, a) ==
    /\ pc' = [pc EXCEPT ![q] = "answered"]
    /\ answer' = [answer EXCEPT ![q] = a]
    /\ ctxDone' = [ctxDone EXCEPT ![q] = TRUE]

(* Only first_match returns from inside the range loop.                    *)
ReceiveMatch(q) ==
    /\ pc[q] = "collecting"
    /\ chan[q] # <<>>
    /\ strategy = "first_match"
    /\ IsAllow(Head(chan[q]))
    /\ Respond(q, MatchAnswer(Head(chan[q])))
    /\ chan' = [chan EXCEPT ![q] = Tail(@)]
    /\ UNCHANGED <<strategy, breakers, regs, worker, result, closed, collected>>

Receive(q) ==
    /\ pc[q] = "collecting"
    /\ chan[q] # <<>>
    /\ ~(strategy = "first_match" /\ IsAllow(Head(chan[q])))
    /\ collected' = [collected EXCEPT ![q] = Append(@, Head(chan[q]))]
    /\ chan' = [chan EXCEPT ![q] = Tail(@)]
    /\ UNCHANGED <<strategy, breakers, regs, pc, ctxDone, worker, result, closed, answer>>

Aggregate(results) == CASE strategy = "first_match" -> NoMatchAnswer(results)
                        [] strategy = "all"         -> AllAnswer(results)
                        [] strategy = "best_match"  -> BestAnswer(results)

\* The range loop leaves as soon as the channel is empty, closed or not.
FinishOnEmpty(q) ==
    /\ pc[q] = "collecting"
    /\ chan[q] = <<>>
    /\ Respond(q, Aggregate(collected[q]))
    /\ UNCHANGED <<strategy, breakers, regs, worker, result, chan, closed, collected>>

(* The range loop ends when the channel is closed and drained.             *)
Finish(q) ==
    /\ pc[q] = "collecting"
    /\ closed[q]
    /\ chan[q] = <<>>
    /\ Respond(q, Aggregate(collected[q]))
    /\ UNCHANGED <<strategy, breakers, regs, worker, result, chan, closed, collected>>

-----------------------------------------------------------------------------
(* The goroutine of one registry.                                          *)

Deliver(q, r, kind, detailed) ==
    /\ worker' = [worker EXCEPT ![q][r] = "send"]
    /\ result' = [result EXCEPT ![q][r] = [reg |-> r, kind |-> kind, detailed |-> detailed]]
    /\ UNCHANGED <<strategy, regs, pc, ctxDone, chan, closed, collected, answer>>

Call(q, r) ==
    /\ worker[q][r] = "start"
    /\ CanAttempt(breakers[NameOf[r]])
    /\ worker' = [worker EXCEPT ![q][r] = "calling"]
    /\ UNCHANGED <<strategy, breakers, regs, pc, ctxDone, result, chan, closed, collected, answer>>

(* An open circuit: the error result, and the breaker is left alone.       *)
Skip(q, r) ==
    /\ worker[q][r] = "start"
    /\ ~CanAttempt(breakers[NameOf[r]])
    /\ Deliver(q, r, "error", FALSE)
    /\ UNCHANGED breakers

(* Evaluate returned a response, possibly nil.                             *)
Return(q, r, kind, detailed) ==
    /\ worker[q][r] = "calling"
    /\ kind \in {"allow", "deny", "nil"}
    /\ kind = "nil" => ~detailed
    /\ breakers' = [breakers EXCEPT ![NameOf[r]] = RecordSuccess(@)]
    /\ Deliver(q, r, kind, detailed)

Failed(q, r) ==
    /\ worker[q][r] = "calling"
    /\ breakers[NameOf[r]].failures < FailureBound
    /\ breakers' = [breakers EXCEPT ![NameOf[r]] = RecordFailure(@)]
    /\ Deliver(q, r, "error", FALSE)

(* Evaluate returned an error: its own, or that of a finished context.     *)
ReturnError(q, r) == (r \in Flaky \/ ctxDone[q]) /\ Failed(q, r)

(* Evaluate panicked and the deferred recover() sent the error result.     *)
Recovered(q, r) == r \in Flaky /\ Failed(q, r)

(* results <- result{...}, then the deferred wg.Done().                    *)
Send(q, r) ==
    /\ worker[q][r] = "send"
    /\ Len(chan[q]) < Cardinality(regs[q])
    /\ chan' = [chan EXCEPT ![q] = Append(@, result[q][r])]
    /\ worker' = [worker EXCEPT ![q][r] = "done"]
    /\ UNCHANGED <<strategy, breakers, regs, pc, ctxDone, result, closed, collected, answer>>

\* A closer that waits for one worker only.
CloseResultsEarly(q) ==
    /\ pc[q] # "idle" /\ ~closed[q]
    /\ \E r \in Registries : worker[q][r] = "done"
    /\ closed' = [closed EXCEPT ![q] = TRUE]
    /\ UNCHANGED <<strategy, breakers, regs, pc, ctxDone, worker, result, chan, collected, answer>>

(* wg.Wait(); close(results)                                               *)
CloseResults(q) ==
    /\ pc[q] # "idle" /\ ~closed[q]
    /\ \A r \in Registries : worker[q][r] \in {"absent", "done"}
    /\ closed' = [closed EXCEPT ![q] = TRUE]
    /\ UNCHANGED <<strategy, breakers, regs, pc, ctxDone, worker, result, chan, collected, answer>>

-----------------------------------------------------------------------------
(* Environment: the manager's timer (or the client going away), and time.  *)
\* A context without a deadline.
NoTimeout(q) == FALSE /\ UNCHANGED vars

Timeout(q) ==
    /\ pc[q] = "collecting" /\ ~ctxDone[q]
    /\ ctxDone' = [ctxDone EXCEPT ![q] = TRUE]
    /\ UNCHANGED <<strategy, breakers, regs, pc, worker, result, chan, closed, collected, answer>>

Tick ==
    /\ \E n \in Names : breakers[n].elapsed <= ResetTimeout
    /\ breakers' = [n \in Names |-> Elapse(breakers[n])]
    /\ UNCHANGED <<strategy, regs, pc, ctxDone, worker, result, chan, closed, collected, answer>>

Worker(q, r) ==
    \/ Call(q, r) \/ Skip(q, r)
    \/ \E kind \in Kinds, detailed \in BOOLEAN : Return(q, r, kind, detailed)
    \/ ReturnError(q, r) \/ Recovered(q, r)
    \/ Send(q, r)

Next == \/ \E q \in Requests :
              \/ \E S \in SUBSET Registries : Start(q, S)
              \/ StartEmpty(q)
              \/ ReceiveMatch(q) \/ Receive(q) \/ Finish(q)
              \/ CloseResults(q)
              \/ Timeout(q)
              \/ \E r \in Registries : Worker(q, r)
        \/ Tick

Spec == Init /\ [][Next]_vars

(* The Go scheduler runs every goroutine that can run, the deadline of the *)
(* timeout context expires, and a registry returns once its context is     *)
(* done.  Nothing makes it return before that.                             *)
Fairness == \A q \in Requests :
    /\ WF_vars(ReceiveMatch(q) \/ Receive(q) \/ Finish(q))
    /\ WF_vars(CloseResults(q))
    /\ WF_vars(Timeout(q))
    /\ \A r \in Registries :
          /\ WF_vars(Call(q, r) \/ Skip(q, r))
          /\ WF_vars(Send(q, r))
          /\ WF_vars(ctxDone[q] /\ \E k \in Kinds, d \in BOOLEAN : Return(q, r, k, d))

FairSpec == Spec /\ Fairness

-----------------------------------------------------------------------------
(* Safety.                                                                 *)

Answered(q) == pc[q] = "answered"
Allowers(q) == {r \in Applicable(q) : result[q][r] # NoResult /\ IsAllow(result[q][r])}
Deniers(q)  == {r \in Applicable(q) : result[q][r] # NoResult /\ IsDenial(result[q][r])}

(* No trust out of thin air: a positive response rests on an applicable    *)
(* registry that allowed this very request, and it names such a registry   *)
(* when the strategy names one.                                            *)
AllowIsBacked ==
    \A q \in Requests : Answered(q) /\ answer[q].decision =>
        /\ Allowers(q) # {}
        /\ strategy # "all" => \E r \in Allowers(q) : answer[q].registry = NameOf[r]

(* A denial is complete: it is returned only after every applicable        *)
(* registry has had its say, every one is in the aggregated details exactly *)
(* once, and none of them allowed.                                         *)
DenyIsComplete ==
    \A q \in Requests : Answered(q) /\ ~answer[q].decision =>
        /\ Allowers(q) = {}
        /\ \A r \in Applicable(q) :
              \E i \in 1 .. Len(collected[q]) : collected[q][i] = result[q][r]
        /\ Len(collected[q]) = Cardinality(regs[q])

(* Every response rests on the votes of the registries it asked.           *)
VerdictIsBacked == AllowIsBacked /\ DenyIsComplete

(* Whose detail a set of voters has: its only member's, when that gave any.*)
OnlyDetail(q, voters) ==
    IF \E r \in voters : voters = {r} /\ result[q][r].detailed
    THEN CHOOSE r \in voters : TRUE
    ELSE None

(* What does not depend on the order in which results arrived: the         *)
(* top-level deny code, shown exactly when one registry, and only one,     *)
(* denied explicitly and gave a code; outside first_match the verifier     *)
(* identifiers, those of all registries that allowed; and of the strategy  *)
(* `all` the admin detail, shown exactly when one registry, and only one,  *)
(* allowed and gave it.                                                    *)
VotesDecideDetails ==
    \A q \in Requests : Answered(q) =>
        /\ ~answer[q].decision => answer[q].code = OnlyDetail(q, Deniers(q))
        /\ answer[q].decision /\ strategy # "first_match" =>
              answer[q].ids = UNION {IdsOf[r] : r \in Allowers(q)}
        /\ answer[q].decision /\ strategy = "all" =>
              answer[q].registry = None /\ answer[q].admin = OnlyDetail(q, Allowers(q))

(* No allow came before res among the results the coordinator received.    *)
FirstToAllow(results, res) ==
    \E i \in 1 .. Len(results) :
        results[i] = res /\ \A j \in 1 .. Len(results) : j < i => ~IsAllow(results[j])

(* What does depend on it: best_match and first_match name the registry    *)
(* whose allow arrived first.  All they show is then of that one registry, *)
(* also when another of the same name allowed too: the admin detail,       *)
(* present exactly when it gave one, and under first_match the identifiers.*)
OneAllowIsShown ==
    \A q \in Requests : Answered(q) /\ answer[q].decision /\ strategy # "all" =>
        \E r \in Allowers(q) :
            /\ answer[q].registry = NameOf[r]
            /\ answer[q].admin = IF result[q][r].detailed THEN r ELSE None
            /\ strategy = "first_match" => answer[q].ids = IdsOf[r]
            /\ strategy = "best_match" => FirstToAllow(collected[q], result[q][r])

(* Both: what is promoted to the top level of a response are details of    *)
(* registries that voted for it, picked by the votes, and by the order of  *)
(* arrival only in the choice of the registry that is named                *)
(* (promoteSingleDenyCode, promoteSingleAllowAdmin, promoteSelectedAdmin). *)
PromotionFollowsVotes == VotesDecideDetails /\ OneAllowIsShown

(* The buffered channel never makes a goroutine block, also after an early *)
(* return that stopped reading it, and nobody sends on a closed channel.   *)
SendNeverBlocks ==
    \A q \in Requests, r \in Registries :
        worker[q][r] = "send" => Len(chan[q]) < Cardinality(regs[q]) /\ ~closed[q]

-----------------------------------------------------------------------------
(* Liveness.                                                               *)

(* No goroutine outlives the request for ever: the closer always runs.     *)
NoGoroutineLeak == \A q \in Requests : pc[q] = "answered" ~> closed[q]

-----------------------------------------------------------------------------
(* The contract of the manager, under the obvious mapping.                 *)
Contract == INSTANCE DecisionContract WITH
    applicable <- [q \in Requests |-> Applicable(q)],
    vote       <- [q \in Requests |-> [r \in Registries |->
                      IF result[q][r] = NoResult THEN "none"
                      ELSE IF IsAllow(result[q][r]) THEN "yes" ELSE "no"]],
    decision   <- [q \in Requests |->
                      CASE pc[q] = "idle"       -> "new"
                        [] pc[q] = "collecting" -> "open"
                        [] pc[q] = "answered"   -> IF answer[q].decision THEN "allow" ELSE "deny"]

(* Every interleaving of goroutines, timeouts, panics and breakers is one  *)
(* the abstract vote-and-decide specification allows: the manager's timeout *)
(* answers also a request whose registries only return when told to.       *)
ImplementsContract == Contract!LiveSpec
=============================================================================

------------------------- MODULE ParallelEvalProofs -------------------------
(***************************************************************************)
(* The safety of the parallel strategies, for any registries, any number   *)
(* of concurrent requests and any strategy.                                *)
(***************************************************************************)
EXTENDS ParallelEval, FiniteSetTheorems, SequenceTheorems, WellFoundedInduction, TLAPS

(* A nonempty set of positions has an earliest one.                        *)
LEMMA EarliestExists ==
    ASSUME NEW positions \in SUBSET Nat, positions # {}
    PROVE  /\ Earliest(positions) \in positions
           /\ \A j \in positions : Earliest(positions) <= j
<1>0. OpToRel(<, Nat) = {ss \in Nat \X Nat : ss[1] < ss[2]}
  BY Zenon DEF OpToRel
<1>1. \E i \in positions : \A j \in positions : ~(<<j, i>> \in OpToRel(<, Nat))
  BY NatLessThanWellFounded, WFMin
<1>2. PICK i \in positions :
         \A j \in positions : ~(<<j, i>> \in {ss \in Nat \X Nat : ss[1] < ss[2]})
  BY <1>0, <1>1
<1>3. ASSUME NEW j \in positions PROVE i <= j
  <2>1. i \in Nat /\ j \in Nat /\ <<j, i>> \in Nat \X Nat
    OBVIOUS
  <2>2. ~(<<j, i>>[1] < <<j, i>>[2])
    BY <1>2, <2>1
  <2> QED BY <2>1, <2>2
<1> QED BY <1>3 DEF Earliest

-----------------------------------------------------------------------------
(* The responses the aggregations build.                                   *)

LEMMA PositionsAreNat ==
    ASSUME NEW results \in Seq(Results)
    PROVE  /\ Allows(results) \in SUBSET Nat /\ Denials(results) \in SUBSET Nat
           /\ \A i \in Allows(results) \cup Denials(results) : results[i] \in Results
           /\ Allows(results) # {} => Earliest(Allows(results)) \in Allows(results)
           /\ Denials(results) # {} => Earliest(Denials(results)) \in Denials(results)
<1>1. /\ Allows(results) \in SUBSET Nat /\ Denials(results) \in SUBSET Nat
      /\ \A i \in Allows(results) \cup Denials(results) : results[i] \in Results
  BY LenProperties, ElementOfSeq DEF Allows, Denials
<1> QED BY <1>1, EarliestExists

LEMMA DenyCodeType ==
    ASSUME NEW results \in Seq(Results)
    PROVE  promoteSingleDenyCode(results) \in Registries \cup {None}
<1>1. CASE Cardinality(Denials(results)) = 1
  <2>1. Denials(results) # {}
    BY <1>1, FS_EmptySet
  <2>2. results[Earliest(Denials(results))] \in Results
    BY <2>1, PositionsAreNat
  <2> QED BY <2>2 DEF promoteSingleDenyCode, Results
<1>2. CASE Cardinality(Denials(results)) # 1
  BY <1>2 DEF promoteSingleDenyCode
<1> QED BY <1>1, <1>2

LEMMA WinnerFacts ==
    ASSUME NEW results \in Seq(Results), Allows(results) # {}
    PROVE  /\ \E i \in Allows(results) : firstMatched(results) = NameOf[results[i].reg]
           /\ firstMatched(results) \in Names
           /\ promoteSelectedAdmin(results, firstMatched(results)) \in Registries \cup {None}
           /\ promoteSingleAllowAdmin(results) \in Registries \cup {None}
<1> DEFINE e == Earliest(Allows(results))
           named == {i \in Allows(results) : NameOf[results[i].reg] = firstMatched(results)}
<1>1. e \in Allows(results) /\ results[e] \in Results
  BY PositionsAreNat
<1>2. firstMatched(results) = NameOf[results[e].reg] /\ results[e].reg \in Registries
  BY <1>1 DEF firstMatched, Results
<1>3. e \in named /\ named \in SUBSET Nat
  BY <1>1, <1>2, PositionsAreNat
<1>4. results[Earliest(named)] \in Results
  BY <1>3, EarliestExists, PositionsAreNat
<1>5. promoteSelectedAdmin(results, firstMatched(results)) \in Registries \cup {None}
  BY <1>4 DEF promoteSelectedAdmin, Results
<1> QED BY <1>1, <1>2, <1>5, NamesAssumption DEF promoteSingleAllowAdmin

LEMMA IdsOfResult ==
    ASSUME NEW results \in Seq(Results)
    PROVE  mergeVerifierIDs(results) \subseteq UNION {IdsOf[r] : r \in Registries}
<1>1. \A i \in Allows(results) : results[i].reg \in Registries
  BY PositionsAreNat DEF Results
<1> QED BY <1>1 DEF mergeVerifierIDs

(* The aggregated response is well formed; the first_match aggregation,    *)
(* reached only without a match, denies; the others allow exactly when     *)
(* some result allowed, and best_match names such a result's registry.     *)
LEMMA AggregateFacts ==
    ASSUME NEW results \in Seq(Results), strategy \in Strategies
    PROVE  /\ Aggregate(results) \in Answers
           /\ strategy = "first_match" => ~Aggregate(results).decision
           /\ strategy # "first_match" =>
                 (Aggregate(results).decision <=> Allows(results) # {})
           /\ strategy = "best_match" /\ Allows(results) # {} =>
                 \E i \in Allows(results) :
                    Aggregate(results).registry = NameOf[results[i].reg]
<1>1. NoMatchAnswer(results) \in Answers /\ ~NoMatchAnswer(results).decision
  BY DenyCodeType DEF NoMatchAnswer, Answers
<1>2. CASE Allows(results) = {}
  <2>1. AllAnswer(results) \in Answers /\ ~AllAnswer(results).decision
    BY <1>2, DenyCodeType DEF AllAnswer, promoteAllResultsDenyCode, Answers
  <2>2. BestAnswer(results) = AllAnswer(results)
    BY <2>1 DEF BestAnswer
  <2> QED BY <1>1, <1>2, <2>1, <2>2, ParallelAssumption DEF Aggregate
<1>3. CASE Allows(results) # {}
  <2>1. AllAnswer(results) = [decision |-> TRUE, registry |-> None, code |-> None,
                              admin |-> promoteSingleAllowAdmin(results),
                              ids |-> mergeVerifierIDs(results)]
    BY <1>3 DEF AllAnswer
  <2>2. AllAnswer(results) \in Answers /\ AllAnswer(results).decision
    BY <1>3, <2>1, WinnerFacts, IdsOfResult DEF Answers
  <2>3. BestAnswer(results) =
          [AllAnswer(results) EXCEPT
             !.registry = firstMatched(results),
             !.admin = promoteSelectedAdmin(results, firstMatched(results))]
    BY <2>2 DEF BestAnswer
  <2>4. /\ BestAnswer(results) \in Answers /\ BestAnswer(results).decision
        /\ BestAnswer(results).registry = firstMatched(results)
    <3> DEFINE n == firstMatched(results)
               a == promoteSelectedAdmin(results, n)
               b == AllAnswer(results)
    <3>1. n \in Names /\ a \in Registries \cup {None}
      BY <1>3, WinnerFacts
    <3>2. BestAnswer(results) = [b EXCEPT !.registry = n, !.admin = a]
      BY <2>3
    <3> HIDE DEF n, a, b
    <3>3. b \in Answers /\ b.decision
      BY <2>2 DEF b
    <3> QED BY <3>1, <3>2, <3>3 DEF Answers, n
  <2> QED BY <1>1, <1>3, <2>2, <2>4, WinnerFacts, ParallelAssumption DEF Aggregate
<1> QED BY <1>2, <1>3

LEMMA MatchFacts ==
    ASSUME NEW res \in Results
    PROVE  /\ MatchAnswer(res) \in Answers
           /\ MatchAnswer(res).decision
           /\ MatchAnswer(res).registry = NameOf[res.reg]
  BY NamesAssumption DEF MatchAnswer, Answers, Results

-----------------------------------------------------------------------------
(* The inductive invariant, one request at a time.                         *)

Contents(s) == {s[i] : i \in 1 .. Len(s)}

Mail(q) == Contents(chan[q]) \cup Contents(collected[q])

Done(q) == {r \in Registries : worker[q][r] = "done"}

(* A request not started has nothing yet.                                  *)
IdleInv(q) == pc[q] = "idle" =>
    /\ regs[q] = {} /\ ~closed[q]
    /\ chan[q] = <<>> /\ collected[q] = <<>>

(* Exactly the applicable registries have a goroutine, and its result is   *)
(* set, to a result of its own, from the moment it is ready to send.       *)
WorkerInv(q) == \A r \in Registries :
    /\ worker[q][r] = "absent" <=> r \notin regs[q]
    /\ worker[q][r] \in {"absent", "start", "calling"} => result[q][r] = NoResult
    /\ worker[q][r] \in {"send", "done"} => result[q][r] \in Results /\ result[q][r].reg = r

(* What was sent is the result of a goroutine that has finished.           *)
MailInv(q) == \A m \in Mail(q) :
    m \in Results /\ worker[q][m.reg] = "done" /\ result[q][m.reg] = m

(* While the request collects, nothing that was sent has been dropped.     *)
CollectInv(q) == pc[q] = "collecting" => \A r \in Done(q) : result[q][r] \in Mail(q)

(* Every goroutine sent at most once, and exactly once while collecting.   *)
CountInv(q) ==
    /\ Len(chan[q]) + Len(collected[q]) <= Cardinality(Done(q))
    /\ pc[q] # "answered" \/ ~answer[q].decision =>
          Len(chan[q]) + Len(collected[q]) = Cardinality(Done(q))

ClosedInv(q) == closed[q] => \A r \in Registries : worker[q][r] \in {"absent", "done"}

FirstInv(q) == strategy = "first_match" => \A m \in Contents(collected[q]) : ~IsAllow(m)

AllowInv(q) == Answered(q) /\ answer[q].decision =>
    /\ Allowers(q) # {}
    /\ strategy # "all" => \E r \in Allowers(q) : answer[q].registry = NameOf[r]

DenyInv(q) == Answered(q) /\ ~answer[q].decision =>
    /\ closed[q] /\ chan[q] = <<>>
    /\ \A r \in regs[q] : ~IsAllow(result[q][r]) /\ result[q][r] \in Contents(collected[q])

RequestInv(q) == /\ IdleInv(q) /\ WorkerInv(q) /\ MailInv(q) /\ CollectInv(q) /\ CountInv(q)
                 /\ ClosedInv(q) /\ FirstInv(q) /\ AllowInv(q) /\ DenyInv(q)

Inv == TypeOK /\ \A q \in Requests : RequestInv(q)

-----------------------------------------------------------------------------
(* Type correctness.                                                       *)

(* The breaker's record stays well formed under its methods.               *)
LEMMA BreakerType ==
    /\ NewCircuitBreaker \in Breaker
    /\ \A b \in Breaker : RecordSuccess(b) \in Breaker /\ Elapse(b) \in Breaker
    /\ \A b \in Breaker : RecordFailure(b) \in Breaker
<1> USE BreakerAssumption DEF Breaker, CircuitClosed, CircuitOpen, CircuitHalfOpen
<1>1. NewCircuitBreaker \in Breaker
  BY DEF NewCircuitBreaker
<1>2. ASSUME NEW b \in Breaker PROVE RecordSuccess(b) \in Breaker /\ Elapse(b) \in Breaker
  <2>1. RecordSuccess(b) \in Breaker
    BY DEF RecordSuccess
  <2>2. Elapse(b) \in Breaker
    BY DEF Elapse
  <2> QED BY <2>1, <2>2
<1>3. ASSUME NEW b \in Breaker PROVE RecordFailure(b) \in Breaker
  <2> DEFINE s == IF b.state = CircuitHalfOpen \/ b.failures + 1 >= MaxFailures
                  THEN CircuitOpen ELSE b.state
  <2>1. s \in {CircuitClosed, CircuitOpen, CircuitHalfOpen}
    OBVIOUS
  <2>2. RecordFailure(b) = [b EXCEPT !.failures = b.failures + 1, !.elapsed = 0, !.state = s]
    BY Zenon DEF RecordFailure
  <2>3. b.failures + 1 \in Nat /\ 0 \in 0 .. ResetTimeout + 1
    OBVIOUS
  <2> HIDE DEF s
  <2> QED BY <2>1, <2>2, <2>3
<1> QED BY <1>1, <1>2, <1>3

LEMMA DeliverType ==
    ASSUME TypeOK, NEW q \in Requests, NEW r \in Registries,
           NEW kind \in Kinds, NEW detailed \in BOOLEAN,
           Deliver(q, r, kind, detailed),
           breakers' \in [Names -> Breaker]
    PROVE  TypeOK'
<1> DEFINE res == [reg |-> r, kind |-> kind, detailed |-> detailed]
<1>1. res \in Results
  BY DEF Results
<1>2. worker' \in [Requests -> [Registries -> {"absent", "start", "calling", "send", "done"}]]
  BY DEF TypeOK, Deliver
<1>3. result' = [result EXCEPT ![q][r] = res]
  BY DEF Deliver
<1> HIDE DEF res
<1>4. result' \in [Requests -> [Registries -> Results \cup {NoResult}]]
  BY <1>1, <1>3 DEF TypeOK
<1> QED BY <1>2, <1>4 DEF TypeOK, Deliver

LEMMA RespondType ==
    ASSUME TypeOK, NEW q \in Requests, NEW a \in Answers, Respond(q, a),
           UNCHANGED <<strategy, breakers, regs, worker, result, closed>>,
           chan' \in [Requests -> Seq(Results)], UNCHANGED collected
    PROVE  TypeOK'
  BY DEF TypeOK, Respond

LEMMA HeadIsResult ==
    ASSUME NEW s \in Seq(Results), s # <<>>
    PROVE  Head(s) \in Results /\ Tail(s) \in Seq(Results)
  BY HeadTailProperties

(* Sending a result needs to know that there is one.                       *)
LEMMA TypeStep ==
    ASSUME TypeOK, \A q \in Requests : WorkerInv(q), [Next]_vars
    PROVE  TypeOK'
<1>1. CASE UNCHANGED vars
  BY <1>1 DEF TypeOK, vars
<1>2. CASE Tick
  <2>1. breakers' \in [Names -> Breaker]
    BY <1>2, BreakerType DEF Tick, TypeOK
  <2> QED BY <1>2, <2>1 DEF Tick, TypeOK
<1>3. ASSUME NEW q \in Requests, NEW S \in SUBSET Registries, Start(q, S)
      PROVE  TypeOK'
  BY <1>3 DEF Start, TypeOK
<1>4. ASSUME NEW q \in Requests, StartEmpty(q) PROVE TypeOK'
  <2>1. NoApplicable \in Answers
    BY DEF NoApplicable, Answers
  <2> HIDE DEF NoApplicable
  <2> QED BY <1>4, <2>1 DEF StartEmpty, TypeOK
<1>5. ASSUME NEW q \in Requests, ReceiveMatch(q) PROVE TypeOK'
  <2>1. chan[q] \in Seq(Results) /\ chan[q] # <<>>
    BY <1>5 DEF ReceiveMatch, TypeOK
  <2>2. MatchAnswer(Head(chan[q])) \in Answers /\ chan' \in [Requests -> Seq(Results)]
    BY <1>5, <2>1, HeadIsResult, MatchFacts DEF ReceiveMatch, TypeOK
  <2> QED BY <1>5, <2>2, RespondType DEF ReceiveMatch
<1>6. ASSUME NEW q \in Requests, Receive(q) PROVE TypeOK'
  <2>1. chan[q] \in Seq(Results) /\ chan[q] # <<>> /\ collected[q] \in Seq(Results)
    BY <1>6 DEF Receive, TypeOK
  <2>2. Append(collected[q], Head(chan[q])) \in Seq(Results) /\ Tail(chan[q]) \in Seq(Results)
    BY <2>1, HeadIsResult, AppendProperties
  <2> QED BY <1>6, <2>2 DEF Receive, TypeOK
<1>7. ASSUME NEW q \in Requests, Finish(q) PROVE TypeOK'
  <2>1. Aggregate(collected[q]) \in Answers
    BY AggregateFacts DEF TypeOK
  <2> QED BY <1>7, <2>1, RespondType DEF Finish, TypeOK
<1>8. ASSUME NEW q \in Requests, CloseResults(q) PROVE TypeOK'
  BY <1>8 DEF CloseResults, TypeOK
<1>9. ASSUME NEW q \in Requests, Timeout(q) PROVE TypeOK'
  BY <1>9 DEF Timeout, TypeOK
<1>10. ASSUME NEW q \in Requests, NEW r \in Registries, Worker(q, r) PROVE TypeOK'
  <2>0. NameOf[r] \in Names /\ breakers[NameOf[r]] \in Breaker
    BY NamesAssumption DEF TypeOK
  <2>1. CASE Call(q, r)
    BY <2>1 DEF Call, TypeOK
  <2>2. CASE Skip(q, r)
    BY <2>2, DeliverType DEF Skip, TypeOK, Kinds
  <2>3. ASSUME NEW k \in Kinds, NEW d \in BOOLEAN, Return(q, r, k, d) PROVE TypeOK'
    <3>1. breakers' \in [Names -> Breaker]
      BY <2>0, <2>3, BreakerType DEF Return, TypeOK
    <3> QED BY <2>3, <3>1, DeliverType DEF Return
  <2>4. CASE Failed(q, r)
    <3>1. breakers' \in [Names -> Breaker]
      BY <2>0, <2>4, BreakerType DEF Failed, TypeOK
    <3> QED BY <2>4, <3>1, DeliverType DEF Failed, Kinds
  <2>5. CASE Send(q, r)
    <3>1. result[q][r] \in Results
      BY <2>5 DEF Send, WorkerInv
    <3>2. Append(chan[q], result[q][r]) \in Seq(Results)
      BY <3>1, AppendProperties DEF TypeOK
    <3> QED BY <2>5, <3>2 DEF Send, TypeOK
  <2> QED BY <1>10, <2>1, <2>2, <2>3, <2>4, <2>5 DEF Worker, ReturnError, Recovered
<1> QED BY <1>1, <1>2, <1>3, <1>4, <1>5, <1>6, <1>7, <1>8, <1>9, <1>10 DEF Next

-----------------------------------------------------------------------------
(* What the steps do to sequences and to the set of finished goroutines.   *)

LEMMA ContentsAppend ==
    ASSUME NEW s \in Seq(Results), NEW m \in Results
    PROVE  Contents(Append(s, m)) = Contents(s) \cup {m}
<1>1. /\ Len(Append(s, m)) = Len(s) + 1 /\ Len(s) \in Nat
      /\ \A i \in 1 .. Len(s) : Append(s, m)[i] = s[i]
      /\ Append(s, m)[Len(s) + 1] = m
  BY AppendProperties, LenProperties
<1>2. 1 .. Len(s) + 1 = (1 .. Len(s)) \cup {Len(s) + 1}
  BY <1>1
<1> QED BY <1>1, <1>2 DEF Contents

LEMMA ContentsTail ==
    ASSUME NEW s \in Seq(Results), s # <<>>
    PROVE  /\ Contents(s) = {Head(s)} \cup Contents(Tail(s))
           /\ Len(Tail(s)) = Len(s) - 1 /\ Len(s) \in Nat \ {0}
<1>1. /\ Len(s) \in Nat \ {0} /\ Head(s) = s[1]
      /\ Len(Tail(s)) = Len(s) - 1
      /\ \A i \in 1 .. Len(Tail(s)) : Tail(s)[i] = s[i + 1]
  BY HeadTailProperties, EmptySeq, LenProperties
<1>2. ASSUME NEW i \in 1 .. Len(s) PROVE s[i] \in {Head(s)} \cup Contents(Tail(s))
  <2>1. CASE i = 1
    BY <1>1, <2>1
  <2>2. CASE i # 1
    <3>1. i - 1 \in 1 .. Len(Tail(s)) /\ Tail(s)[i - 1] = s[(i - 1) + 1] /\ (i - 1) + 1 = i
      BY <1>1, <2>2
    <3> QED BY <3>1 DEF Contents
  <2> QED BY <2>1, <2>2
<1>3. ASSUME NEW i \in 1 .. Len(Tail(s)) PROVE Tail(s)[i] \in Contents(s)
  <2>1. Tail(s)[i] = s[i + 1] /\ i + 1 \in 1 .. Len(s)
    BY <1>1
  <2> QED BY <2>1 DEF Contents
<1>4. Head(s) \in Contents(s)
  BY <1>1 DEF Contents
<1> QED BY <1>1, <1>2, <1>3, <1>4 DEF Contents

LEMMA ContentsEmpty == Contents(<<>>) = {} /\ Len(<<>>) = 0
  BY DEF Contents

LEMMA DoneIsFinite ==
    ASSUME NEW q
    PROVE  IsFiniteSet(Done(q)) /\ Cardinality(Done(q)) \in Nat
  BY FS_Subset, FS_CardinalityType, ParallelAssumption DEF Done

(* A result is not the placeholder.                                        *)
LEMMA NoResultIsNone == NoResult \notin Results
  BY NamesAssumption DEF NoResult, Results

-----------------------------------------------------------------------------
(* The steps of one request leave the others alone.                        *)

Same(q) == UNCHANGED <<strategy, regs[q], pc[q], worker[q], result[q], chan[q],
                       closed[q], collected[q], answer[q]>>

LEMMA FrameStep ==
    ASSUME NEW q, RequestInv(q), Same(q)
    PROVE  RequestInv(q)'
<1> USE DEF Same
<1>1. Mail(q)' = Mail(q) /\ Done(q)' = Done(q)
  BY DEF Mail, Contents, Done
<1>2. IdleInv(q)' /\ WorkerInv(q)'
  BY DEF RequestInv, IdleInv, WorkerInv
<1>3. MailInv(q)' /\ CollectInv(q)'
  BY <1>1 DEF RequestInv, MailInv, CollectInv
<1>4. CountInv(q)' /\ ClosedInv(q)'
  BY <1>1 DEF RequestInv, CountInv, ClosedInv
<1>5. FirstInv(q)'
  BY DEF RequestInv, FirstInv, Contents
<1>6. AllowInv(q)' /\ DenyInv(q)'
  BY DEF RequestInv, AllowInv, DenyInv, Answered, Allowers, Applicable, Contents
<1> QED BY <1>2, <1>3, <1>4, <1>5, <1>6 DEF RequestInv

LEMMA StartStep ==
    ASSUME TypeOK, NEW q \in Requests, RequestInv(q), NEW S \in SUBSET Registries, Start(q, S)
    PROVE  RequestInv(q)' /\ \A p \in Requests \ {q} : Same(p)
<1>1. \A p \in Requests \ {q} : Same(p)
  BY DEF Start, Same, TypeOK
<1>2. /\ strategy' = strategy /\ strategy \in Strategies
      /\ regs'[q] = S /\ pc'[q] = "collecting" /\ result'[q] = result[q]
      /\ chan'[q] = <<>> /\ collected'[q] = <<>> /\ ~closed'[q]
      /\ \A r \in Registries : /\ result[q][r] = NoResult
                              /\ worker'[q][r] = IF r \in S THEN "start" ELSE "absent"
  BY DEF Start, TypeOK, RequestInv, IdleInv, WorkerInv
<1>3. Done(q)' = {} /\ Cardinality(Done(q)') = 0 /\ Mail(q)' = {}
  BY <1>2, FS_EmptySet, ContentsEmpty DEF Done, Mail
<1>4. IdleInv(q)' /\ WorkerInv(q)' /\ ClosedInv(q)'
  BY <1>2 DEF IdleInv, WorkerInv, ClosedInv
<1>5. MailInv(q)' /\ CollectInv(q)' /\ CountInv(q)'
  BY <1>2, <1>3, ContentsEmpty DEF MailInv, CollectInv, CountInv
<1>6. FirstInv(q)' /\ AllowInv(q)' /\ DenyInv(q)'
  BY <1>2, ContentsEmpty DEF FirstInv, AllowInv, DenyInv, Answered
<1> QED BY <1>1, <1>4, <1>5, <1>6 DEF RequestInv
LEMMA StartEmptyStep ==
    ASSUME TypeOK, NEW q \in Requests, RequestInv(q), StartEmpty(q)
    PROVE  RequestInv(q)' /\ \A p \in Requests \ {q} : Same(p)
<1>1. \A p \in Requests \ {q} : Same(p)
  BY DEF StartEmpty, Same, TypeOK
<1>2. /\ strategy' = strategy /\ strategy \in Strategies
      /\ regs'[q] = {} /\ pc'[q] = "answered" /\ closed'[q]
      /\ result'[q] = result[q] /\ worker'[q] = worker[q]
      /\ chan'[q] = <<>> /\ collected'[q] = <<>> /\ answer'[q] = NoApplicable
      /\ \A r \in Registries : worker[q][r] = "absent" /\ result[q][r] = NoResult
  BY DEF StartEmpty, TypeOK, RequestInv, IdleInv, WorkerInv
<1>3. Done(q)' = {} /\ Cardinality(Done(q)') = 0 /\ Mail(q)' = {}
  BY <1>2, FS_EmptySet, ContentsEmpty DEF Done, Mail
<1>4. IdleInv(q)' /\ WorkerInv(q)' /\ ClosedInv(q)'
  BY <1>2 DEF IdleInv, WorkerInv, ClosedInv
<1>5. MailInv(q)' /\ CollectInv(q)' /\ CountInv(q)'
  BY <1>2, <1>3, ContentsEmpty DEF MailInv, CollectInv, CountInv
<1>6. FirstInv(q)' /\ AllowInv(q)' /\ DenyInv(q)'
  BY <1>2, ContentsEmpty DEF FirstInv, AllowInv, DenyInv, Answered, NoApplicable
<1> QED BY <1>1, <1>4, <1>5, <1>6 DEF RequestInv

(* The first allow that arrives is the result of a finished goroutine.     *)
LEMMA ReceiveMatchStep ==
    ASSUME TypeOK, NEW q \in Requests, RequestInv(q), ReceiveMatch(q)
    PROVE  RequestInv(q)' /\ \A p \in Requests \ {q} : Same(p)
<1> DEFINE m == Head(chan[q])
<1>1. \A p \in Requests \ {q} : Same(p)
  BY DEF ReceiveMatch, Respond, Same, TypeOK
<1>2. /\ strategy' = strategy /\ strategy \in Strategies
      /\ regs'[q] = regs[q] /\ pc'[q] = "answered" /\ closed'[q] = closed[q]
      /\ result'[q] = result[q] /\ worker'[q] = worker[q]
      /\ chan'[q] = Tail(chan[q]) /\ collected'[q] = collected[q]
      /\ answer'[q] = MatchAnswer(m)
      /\ chan[q] \in Seq(Results) /\ chan[q] # <<>> /\ collected[q] \in Seq(Results)
      /\ IsAllow(m)
  BY DEF ReceiveMatch, Respond, TypeOK
<1>3. /\ Contents(chan[q]) = {m} \cup Contents(Tail(chan[q])) /\ m \in Mail(q)
      /\ Len(Tail(chan[q])) = Len(chan[q]) - 1 /\ Len(chan[q]) \in Nat \ {0}
  BY <1>2, ContentsTail DEF Mail
<1>4. Contents(chan'[q]) \subseteq Contents(chan[q])
      /\ Contents(collected'[q]) = Contents(collected[q])
      /\ Contents(chan[q])' = Contents(chan'[q])
      /\ Contents(collected[q])' = Contents(collected'[q])
  BY <1>2, <1>3 DEF Contents
<1>5. Mail(q)' \subseteq Mail(q) /\ Done(q)' = Done(q)
  BY <1>2, <1>4 DEF Mail, Done
<1>6. m \in Results /\ result[q][m.reg] = m /\ worker[q][m.reg] = "done"
  BY <1>3 DEF RequestInv, MailInv
<1>7. m.reg \in Allowers(q)' /\ answer'[q].registry = NameOf[m.reg] /\ answer'[q].decision
  <2>1. m.reg \in Registries /\ m.reg \in regs[q]
    BY <1>6 DEF Results, RequestInv, WorkerInv
  <2>2. m # NoResult
    BY <1>6, NoResultIsNone
  <2> QED BY <1>2, <1>6, <2>1, <2>2, MatchFacts DEF Allowers, Applicable
<1>8. IdleInv(q)' /\ WorkerInv(q)' /\ ClosedInv(q)'
  BY <1>2 DEF RequestInv, IdleInv, WorkerInv, ClosedInv
<1>9. MailInv(q)'
  BY <1>2, <1>5 DEF RequestInv, MailInv
<1>10. CollectInv(q)'
  BY <1>2 DEF CollectInv
<1>11. CountInv(q)'
  <2> DEFINE a == Len(chan[q])    b == Len(collected[q])
             a2 == Len(chan'[q])  b2 == Len(collected'[q])
             c == Cardinality(Done(q))  c2 == Cardinality(Done(q)')
  <2>1. a2 = a - 1 /\ a \in Nat /\ b2 = b /\ b \in Nat
    BY <1>2, <1>3, LenProperties
  <2>2. c2 = c /\ c \in Nat
    BY <1>5, DoneIsFinite
  <2>3. a + b <= c
    BY DEF RequestInv, CountInv
  <2>4. CountInv(q)' <=> a2 + b2 <= c2
    BY <1>2, <1>7 DEF CountInv
  <2> HIDE DEF a, b, a2, b2, c, c2
  <2>5. a2 + b2 <= c2
    BY <2>1, <2>2, <2>3
  <2> QED BY <2>4, <2>5
<1>12. FirstInv(q)'
  BY <1>2, <1>4 DEF RequestInv, FirstInv
<1>13. AllowInv(q)' /\ DenyInv(q)'
  BY <1>7 DEF AllowInv, DenyInv
<1> QED BY <1>1, <1>8, <1>9, <1>10, <1>11, <1>12, <1>13 DEF RequestInv

LEMMA ReceiveStep ==
    ASSUME TypeOK, NEW q \in Requests, RequestInv(q), Receive(q)
    PROVE  RequestInv(q)' /\ \A p \in Requests \ {q} : Same(p)
<1> DEFINE m == Head(chan[q])
<1>1. \A p \in Requests \ {q} : Same(p)
  BY DEF Receive, Same, TypeOK
<1>2. /\ strategy' = strategy /\ strategy \in Strategies
      /\ regs'[q] = regs[q] /\ pc'[q] = "collecting" /\ closed'[q] = closed[q]
      /\ pc[q] = "collecting" /\ answer'[q] = answer[q]
      /\ result'[q] = result[q] /\ worker'[q] = worker[q]
      /\ chan'[q] = Tail(chan[q]) /\ collected'[q] = Append(collected[q], m)
      /\ chan[q] \in Seq(Results) /\ chan[q] # <<>> /\ collected[q] \in Seq(Results)
      /\ m \in Results /\ (strategy = "first_match" => ~IsAllow(m))
  BY HeadIsResult DEF Receive, TypeOK
<1>3. /\ Contents(chan[q]) = {m} \cup Contents(chan'[q])
      /\ Len(chan'[q]) = Len(chan[q]) - 1 /\ Len(chan[q]) \in Nat \ {0}
  BY <1>2, ContentsTail
<1>4. /\ Contents(collected'[q]) = Contents(collected[q]) \cup {m}
      /\ Len(collected'[q]) = Len(collected[q]) + 1 /\ Len(collected[q]) \in Nat
  BY <1>2, ContentsAppend, AppendProperties, LenProperties
<1>5. Mail(q)' = Mail(q) /\ Done(q)' = Done(q)
  <2>1. Mail(q)' = Contents(chan'[q]) \cup Contents(collected'[q])
    BY DEF Mail, Contents
  <2> QED BY <1>2, <1>3, <1>4, <2>1 DEF Mail, Done
<1>6. IdleInv(q)' /\ WorkerInv(q)' /\ ClosedInv(q)'
  BY <1>2 DEF RequestInv, IdleInv, WorkerInv, ClosedInv
<1>7. MailInv(q)' /\ CollectInv(q)'
  BY <1>2, <1>5 DEF RequestInv, MailInv, CollectInv
<1>8. CountInv(q)'
  <2> DEFINE a == Len(chan[q])    b == Len(collected[q])
             a2 == Len(chan'[q])  b2 == Len(collected'[q])
             c == Cardinality(Done(q))  c2 == Cardinality(Done(q)')
  <2>1. a2 = a - 1 /\ b2 = b + 1 /\ a \in Nat /\ b \in Nat
    BY <1>3, <1>4
  <2>2. c2 = c /\ c \in Nat
    BY <1>5, DoneIsFinite
  <2>3. a + b = c
    BY <1>2 DEF RequestInv, CountInv
  <2>4. CountInv(q)' <=> /\ a2 + b2 <= c2
                         /\ pc'[q] # "answered" \/ ~answer'[q].decision => a2 + b2 = c2
    BY DEF CountInv
  <2> HIDE DEF a, b, a2, b2, c, c2
  <2>5. a2 + b2 = c2 /\ a2 + b2 <= c2
    BY <2>1, <2>2, <2>3
  <2> QED BY <2>4, <2>5
<1>9. FirstInv(q)'
  <2>1. Contents(collected[q])' = Contents(collected'[q])
    BY DEF Contents
  <2> QED BY <1>2, <1>4, <2>1 DEF RequestInv, FirstInv
<1>10. AllowInv(q)' /\ DenyInv(q)'
  BY <1>2 DEF AllowInv, DenyInv, Answered
<1> QED BY <1>1, <1>6, <1>7, <1>8, <1>9, <1>10 DEF RequestInv
(* A denial is the aggregation of everything that was sent.                *)
LEMMA FinishStep ==
    ASSUME TypeOK, NEW q \in Requests, RequestInv(q), Finish(q)
    PROVE  RequestInv(q)' /\ \A p \in Requests \ {q} : Same(p)
<1> DEFINE s == collected[q]
<1>1. \A p \in Requests \ {q} : Same(p)
  BY DEF Finish, Respond, Same, TypeOK
<1>2. /\ strategy' = strategy /\ strategy \in Strategies
      /\ regs'[q] = regs[q] /\ pc'[q] = "answered" /\ closed'[q]
      /\ pc[q] = "collecting" /\ closed'[q] = closed[q]
      /\ result'[q] = result[q] /\ worker'[q] = worker[q]
      /\ chan'[q] = <<>> /\ chan[q] = <<>> /\ collected'[q] = s
      /\ answer'[q] = Aggregate(s) /\ s \in Seq(Results)
  BY DEF Finish, Respond, TypeOK
<1>3. Mail(q)' = Mail(q) /\ Done(q)' = Done(q) /\ Mail(q) = Contents(s)
      /\ Contents(collected[q])' = Contents(s)
  BY <1>2, ContentsEmpty DEF Mail, Done, Contents
<1>4. \A r \in regs[q] : r \in Done(q) /\ r \in Registries
  BY <1>2 DEF RequestInv, ClosedInv, WorkerInv, Done, TypeOK
<1>5. IdleInv(q)' /\ WorkerInv(q)' /\ ClosedInv(q)'
  BY <1>2 DEF RequestInv, IdleInv, WorkerInv, ClosedInv
<1>6. MailInv(q)' /\ CollectInv(q)'
  BY <1>2, <1>3 DEF RequestInv, MailInv, CollectInv
<1>7. CountInv(q)'
  <2>1. Len(chan[q]) + Len(s) = Cardinality(Done(q))
    BY <1>2 DEF RequestInv, CountInv
  <2>2. Cardinality(Done(q)') = Cardinality(Done(q)) /\ Cardinality(Done(q)) \in Nat
    BY <1>3, DoneIsFinite
  <2>3. Len(chan'[q]) + Len(collected'[q]) = Cardinality(Done(q)')
    BY <1>2, <2>1, <2>2
  <2> DEFINE n == Len(chan'[q]) + Len(collected'[q])  c == Cardinality(Done(q)')
  <2>4. CountInv(q)' <=> /\ n <= c
                         /\ pc'[q] # "answered" \/ ~answer'[q].decision => n = c
    BY DEF CountInv
  <2>5. n = c /\ c \in Nat
    BY <2>2, <2>3
  <2> HIDE DEF n, c
  <2> QED BY <2>4, <2>5
<1>8. FirstInv(q)'
  BY <1>2, <1>3 DEF RequestInv, FirstInv
<1>9. AllowInv(q)'
  <2> SUFFICES ASSUME Aggregate(s).decision PROVE AllowInv(q)'
    BY <1>2 DEF AllowInv
  <2>1. strategy # "first_match" /\ Allows(s) # {}
    BY <1>2, AggregateFacts
  <2>2. ASSUME NEW i \in Allows(s)
        PROVE  s[i].reg \in Allowers(q)'
    <3>1. s[i] \in Contents(s) /\ IsAllow(s[i])
      BY DEF Allows, Contents
    <3>2. s[i] \in Results /\ worker[q][s[i].reg] = "done" /\ result[q][s[i].reg] = s[i]
      BY <1>3, <3>1 DEF RequestInv, MailInv
    <3>3. s[i].reg \in Registries /\ s[i].reg \in regs[q] /\ s[i] # NoResult
      BY <3>2, NoResultIsNone DEF Results, RequestInv, WorkerInv
    <3> QED BY <1>2, <3>1, <3>2, <3>3 DEF Allowers, Applicable
  <2>3. Allowers(q)' # {}
    BY <2>1, <2>2
  <2>4. ASSUME strategy # "all"
        PROVE  \E r \in Allowers(q)' : answer'[q].registry = NameOf[r]
    <3>1. PICK i \in Allows(s) : Aggregate(s).registry = NameOf[s[i].reg]
      BY <1>2, <2>1, <2>4, AggregateFacts, ParallelAssumption
    <3> QED BY <1>2, <2>2, <3>1
  <2> QED BY <1>2, <2>3, <2>4 DEF AllowInv
<1>10. DenyInv(q)'
  <2> SUFFICES ASSUME ~Aggregate(s).decision PROVE DenyInv(q)'
    BY <1>2 DEF DenyInv
  <2>1. \A m \in Contents(s) : ~IsAllow(m)
    <3>1. CASE strategy = "first_match"
      BY <3>1 DEF RequestInv, FirstInv
    <3>2. CASE strategy # "first_match"
      <4>1. Allows(s) = {}
        BY <1>2, <3>2, AggregateFacts
      <4> QED BY <4>1 DEF Allows, Contents
    <3> QED BY <3>1, <3>2
  <2>2. \A r \in regs[q] : result[q][r] \in Contents(s)
    BY <1>2, <1>3, <1>4 DEF RequestInv, CollectInv
  <2> QED BY <1>2, <1>3, <2>1, <2>2 DEF DenyInv
<1> QED BY <1>1, <1>5, <1>6, <1>7, <1>8, <1>9, <1>10 DEF RequestInv
(* A goroutine that has not sent yet moves on: it calls the registry, or   *)
(* it has its result.                                                      *)
Moved(q, r) ==
    /\ \/ worker'[q][r] = "calling" /\ result'[q][r] = NoResult
       \/ worker'[q][r] = "send" /\ result'[q][r] \in Results /\ result'[q][r].reg = r
    /\ \A x \in Registries \ {r} : worker'[q][x] = worker[q][x] /\ result'[q][x] = result[q][x]
    /\ UNCHANGED <<strategy, regs[q], pc[q], chan[q], closed[q], collected[q], answer[q]>>

LEMMA MovedStep ==
    ASSUME TypeOK, NEW q \in Requests, NEW r \in Registries, RequestInv(q), Moved(q, r),
           worker[q][r] \in {"start", "calling"}
    PROVE  RequestInv(q)'
<1>1. result[q][r] = NoResult /\ ~closed[q] /\ r \in regs[q]
  BY DEF RequestInv, WorkerInv, ClosedInv
<1>2. Mail(q)' = Mail(q) /\ Contents(collected[q])' = Contents(collected[q])
  BY DEF Moved, Mail, Contents
<1>3. Done(q)' = Done(q) /\ r \notin Done(q)
  BY DEF Moved, Done
<1>4. IdleInv(q)' /\ WorkerInv(q)'
  BY <1>1 DEF Moved, RequestInv, IdleInv, WorkerInv
<1>5. MailInv(q)'
  <2>1. ASSUME NEW m \in Mail(q)
        PROVE  m \in Results /\ worker'[q][m.reg] = "done" /\ result'[q][m.reg] = m
    <3>1. m \in Results /\ worker[q][m.reg] = "done" /\ result[q][m.reg] = m
      BY <2>1 DEF RequestInv, MailInv
    <3>2. m.reg \in Registries /\ m.reg # r
      BY <3>1 DEF Results
    <3> QED BY <3>1, <3>2 DEF Moved
  <2> QED BY <1>2, <2>1 DEF MailInv
<1>6. CollectInv(q)'
  <2>1. \A x \in Done(q) : result'[q][x] = result[q][x]
    BY <1>3 DEF Moved, Done
  <2> QED BY <1>2, <1>3, <2>1 DEF Moved, RequestInv, CollectInv
<1>7. CountInv(q)'
  BY <1>3 DEF Moved, RequestInv, CountInv
<1>8. ClosedInv(q)' /\ FirstInv(q)' /\ DenyInv(q)'
  BY <1>1, <1>2 DEF Moved, RequestInv, ClosedInv, FirstInv, DenyInv, Answered
<1>9. AllowInv(q)'
  <2>1. ASSUME NEW x \in Allowers(q) PROVE x \in Allowers(q)'
    <3>1. /\ x \in regs[q] /\ x \in Registries
          /\ result[q][x] # NoResult /\ IsAllow(result[q][x]) /\ x # r
      BY <1>1 DEF TypeOK, Allowers, Applicable, RequestInv, WorkerInv
    <3>2. regs'[q] = regs[q] /\ result'[q][x] = result[q][x]
      BY <3>1 DEF Moved
    <3> QED BY <3>1, <3>2 DEF Allowers, Applicable
  <2>2. strategy' = strategy /\ pc'[q] = pc[q] /\ answer'[q] = answer[q]
    BY DEF Moved
  <2>3. AllowInv(q)
    BY DEF RequestInv
  <2> QED BY <2>1, <2>2, <2>3 DEF AllowInv, Answered
<1> QED BY <1>4, <1>5, <1>6, <1>7, <1>8, <1>9 DEF RequestInv

LEMMA SendStep ==
    ASSUME TypeOK, NEW q \in Requests, NEW r \in Registries, RequestInv(q), Send(q, r)
    PROVE  RequestInv(q)' /\ \A p \in Requests \ {q} : Same(p)
<1> DEFINE m == result[q][r]
<1>1. \A p \in Requests \ {q} : Same(p)
  BY DEF Send, Same, TypeOK
<1>2. /\ strategy' = strategy /\ strategy \in Strategies
      /\ regs'[q] = regs[q] /\ pc'[q] = pc[q] /\ closed'[q] = closed[q]
      /\ collected'[q] = collected[q] /\ answer'[q] = answer[q] /\ result'[q] = result[q]
      /\ worker[q][r] = "send" /\ worker'[q][r] = "done"
      /\ \A x \in Registries \ {r} : worker'[q][x] = worker[q][x]
      /\ chan'[q] = Append(chan[q], m) /\ chan[q] \in Seq(Results)
      /\ collected[q] \in Seq(Results)
  BY DEF Send, TypeOK
<1>3. m \in Results /\ m.reg = r /\ r \in regs[q] /\ ~closed[q]
  BY <1>2 DEF RequestInv, WorkerInv, ClosedInv
<1>4. /\ Contents(chan'[q]) = Contents(chan[q]) \cup {m}
      /\ Len(chan'[q]) = Len(chan[q]) + 1 /\ Len(chan[q]) \in Nat
  BY <1>2, <1>3, ContentsAppend, AppendProperties, LenProperties
<1>5. Mail(q)' = Mail(q) \cup {m} /\ Contents(collected[q])' = Contents(collected[q])
  <2>1. Mail(q)' = Contents(chan'[q]) \cup Contents(collected'[q])
    BY DEF Mail, Contents
  <2> QED BY <1>2, <1>4, <2>1 DEF Mail, Contents
<1>6. Done(q)' = Done(q) \cup {r} /\ r \notin Done(q)
  BY <1>2 DEF Done
<1>7. IdleInv(q)' /\ WorkerInv(q)'
  BY <1>2, <1>3 DEF RequestInv, IdleInv, WorkerInv
<1>8. MailInv(q)'
  <2>1. ASSUME NEW y \in Mail(q)
        PROVE  y \in Results /\ worker'[q][y.reg] = "done" /\ result'[q][y.reg] = y
    <3>1. y \in Results /\ worker[q][y.reg] = "done" /\ result[q][y.reg] = y
      BY <2>1 DEF RequestInv, MailInv
    <3>2. y.reg \in Registries
      BY <3>1 DEF Results
    <3> QED BY <1>2, <3>1, <3>2
  <2>2. m \in Results /\ worker'[q][m.reg] = "done" /\ result'[q][m.reg] = m
    BY <1>2, <1>3
  <2> HIDE DEF m
  <2> QED BY <1>5, <2>1, <2>2 DEF MailInv
<1>9. CollectInv(q)'
  BY <1>2, <1>5, <1>6 DEF RequestInv, CollectInv
<1>10. CountInv(q)'
  <2> DEFINE a == Len(chan[q])    b == Len(collected[q])
             a2 == Len(chan'[q])  b2 == Len(collected'[q])
             c == Cardinality(Done(q))  c2 == Cardinality(Done(q)')
             exact == pc[q] # "answered" \/ ~answer[q].decision
  <2>1. a2 = a + 1 /\ a \in Nat /\ b2 = b /\ b \in Nat
    BY <1>2, <1>4, LenProperties
  <2>2. c2 = c + 1 /\ c \in Nat
    BY <1>6, DoneIsFinite, FS_AddElement
  <2>3. a + b <= c /\ (exact => a + b = c)
    BY DEF RequestInv, CountInv
  <2>4. CountInv(q)' <=> a2 + b2 <= c2 /\ (exact => a2 + b2 = c2)
    BY <1>2 DEF CountInv
  <2> HIDE DEF a, b, a2, b2, c, c2, exact
  <2>5. a2 + b2 <= c2 /\ (exact => a2 + b2 = c2)
    BY <2>1, <2>2, <2>3
  <2> QED BY <2>4, <2>5
<1>11. ClosedInv(q)' /\ FirstInv(q)' /\ DenyInv(q)'
  BY <1>2, <1>3, <1>5 DEF RequestInv, ClosedInv, FirstInv, DenyInv, Answered
<1>12. AllowInv(q)'
  BY <1>2 DEF RequestInv, AllowInv, Answered, Allowers, Applicable
<1> QED BY <1>1, <1>7, <1>8, <1>9, <1>10, <1>11, <1>12 DEF RequestInv

LEMMA CloseStep ==
    ASSUME TypeOK, NEW q \in Requests, RequestInv(q), CloseResults(q)
    PROVE  RequestInv(q)' /\ \A p \in Requests \ {q} : Same(p)
<1>1. \A p \in Requests \ {q} : Same(p)
  BY DEF CloseResults, Same, TypeOK
<1>2. /\ closed'[q] /\ ~closed[q] /\ pc[q] # "idle"
      /\ \A r \in Registries : worker[q][r] \in {"absent", "done"}
      /\ UNCHANGED <<strategy, regs, pc, worker, result, chan, collected, answer>>
  BY DEF CloseResults, TypeOK
<1>3. Mail(q)' = Mail(q) /\ Done(q)' = Done(q)
  BY <1>2 DEF Mail, Contents, Done
<1>4. IdleInv(q)' /\ WorkerInv(q)' /\ ClosedInv(q)'
  BY <1>2 DEF RequestInv, IdleInv, WorkerInv, ClosedInv
<1>5. MailInv(q)' /\ CollectInv(q)' /\ CountInv(q)'
  BY <1>2, <1>3 DEF RequestInv, MailInv, CollectInv, CountInv
<1>6. FirstInv(q)' /\ AllowInv(q)' /\ DenyInv(q)'
  BY <1>2 DEF RequestInv, FirstInv, AllowInv, DenyInv, Answered, Allowers, Applicable, Contents
<1> QED BY <1>1, <1>4, <1>5, <1>6 DEF RequestInv
-----------------------------------------------------------------------------
(* The invariant is inductive.                                             *)

LEMMA InvInit == Init => Inv
<1> SUFFICES ASSUME Init PROVE Inv
  OBVIOUS
<1>1. TypeOK
  BY BreakerType DEF Init, TypeOK
<1>2. ASSUME NEW q \in Requests PROVE RequestInv(q)
  <2>1. /\ regs[q] = {} /\ pc[q] = "idle" /\ chan[q] = <<>> /\ ~closed[q]
        /\ collected[q] = <<>>
        /\ \A r \in Registries : worker[q][r] = "absent" /\ result[q][r] = NoResult
    BY DEF Init
  <2>2. Done(q) = {} /\ Cardinality(Done(q)) = 0 /\ Mail(q) = {}
    BY <2>1, FS_EmptySet, ContentsEmpty DEF Done, Mail
  <2>3. IdleInv(q) /\ WorkerInv(q) /\ ClosedInv(q)
    BY <2>1 DEF IdleInv, WorkerInv, ClosedInv
  <2>4. MailInv(q) /\ CollectInv(q) /\ CountInv(q)
    BY <2>1, <2>2, ContentsEmpty DEF MailInv, CollectInv, CountInv
  <2>5. FirstInv(q) /\ AllowInv(q) /\ DenyInv(q)
    BY <2>1, ContentsEmpty DEF FirstInv, AllowInv, DenyInv, Answered
  <2> QED BY <2>3, <2>4, <2>5 DEF RequestInv
<1> QED BY <1>1, <1>2 DEF Inv

LEMMA WorkerStep ==
    ASSUME TypeOK, NEW q \in Requests, NEW r \in Registries, RequestInv(q), Worker(q, r)
    PROVE  RequestInv(q)' /\ \A p \in Requests \ {q} : Same(p)
<1>1. CASE Call(q, r)
  <2>1. /\ worker[q][r] = "start" /\ worker'[q][r] = "calling" /\ result'[q] = result[q]
        /\ \A x \in Registries \ {r} : worker'[q][x] = worker[q][x]
        /\ UNCHANGED <<strategy, regs, pc, chan, closed, collected, answer>>
    BY <1>1 DEF Call, TypeOK
  <2>2. Moved(q, r)
    BY <2>1 DEF Moved, RequestInv, WorkerInv
  <2>3. \A p \in Requests \ {q} : Same(p)
    BY <1>1 DEF Call, Same, TypeOK
  <2> QED BY <2>1, <2>2, <2>3, MovedStep
<1>2. ASSUME NEW kind \in Kinds, NEW detailed \in BOOLEAN, Deliver(q, r, kind, detailed),
             worker[q][r] \in {"start", "calling"}
      PROVE  RequestInv(q)' /\ \A p \in Requests \ {q} : Same(p)
  <2> DEFINE res == [reg |-> r, kind |-> kind, detailed |-> detailed]
  <2>1. res \in Results /\ res.reg = r
    BY DEF Results
  <2>2. result' = [result EXCEPT ![q][r] = res]
    BY <1>2 DEF Deliver
  <2> HIDE DEF res
  <2>3. /\ worker'[q][r] = "send" /\ result'[q][r] = res
        /\ \A x \in Registries \ {r} : worker'[q][x] = worker[q][x] /\ result'[q][x] = result[q][x]
        /\ UNCHANGED <<strategy, regs, pc, chan, closed, collected, answer>>
    BY <1>2, <2>2 DEF Deliver, TypeOK
  <2>4. Moved(q, r)
    BY <2>1, <2>3 DEF Moved
  <2>5. \A p \in Requests \ {q} : Same(p)
    BY <1>2 DEF Deliver, Same, TypeOK
  <2> QED BY <1>2, <2>4, <2>5, MovedStep
<1>3. CASE Skip(q, r)
  BY <1>2, <1>3 DEF Skip, Kinds
<1>4. ASSUME NEW k \in Kinds, NEW d \in BOOLEAN, Return(q, r, k, d)
      PROVE  RequestInv(q)' /\ \A p \in Requests \ {q} : Same(p)
  BY <1>2, <1>4 DEF Return
<1>5. CASE Failed(q, r)
  BY <1>2, <1>5 DEF Failed, Kinds
<1>6. CASE Send(q, r)
  BY <1>6, SendStep
<1> QED BY <1>1, <1>3, <1>4, <1>5, <1>6 DEF Worker, ReturnError, Recovered

LEMMA InvStep ==
    ASSUME Inv, [Next]_vars
    PROVE  Inv'
<1>1. /\ TypeOK
      /\ \A q \in Requests : RequestInv(q)
      /\ \A q \in Requests : WorkerInv(q)
  BY DEF Inv, RequestInv
<1>2. TypeOK'
  BY <1>1, TypeStep
<1>3. ASSUME NEW q \in Requests, RequestInv(q)', \A p \in Requests \ {q} : Same(p)
      PROVE  \A p \in Requests : RequestInv(p)'
  BY <1>1, <1>3, FrameStep
<1>4. ASSUME \A p \in Requests : Same(p) PROVE \A p \in Requests : RequestInv(p)'
  BY <1>1, <1>4, FrameStep
<1>5. CASE UNCHANGED vars \/ Tick \/ \E q \in Requests : Timeout(q)
  <2>1. \A p \in Requests : Same(p)
    BY <1>5 DEF vars, Tick, Timeout, Same
  <2> QED BY <1>2, <1>4, <2>1 DEF Inv
<1>6. ASSUME NEW q \in Requests,
             \/ \E S \in SUBSET Registries : Start(q, S)
             \/ StartEmpty(q) \/ ReceiveMatch(q) \/ Receive(q) \/ Finish(q)
             \/ CloseResults(q)
             \/ \E r \in Registries : Worker(q, r)
      PROVE  \A p \in Requests : RequestInv(p)'
  <2>1. RequestInv(q)
    BY <1>1
  <2> QED BY <1>1, <1>3, <1>6, <2>1, StartStep, StartEmptyStep, ReceiveMatchStep, ReceiveStep,
             FinishStep, CloseStep, WorkerStep
<1> QED BY <1>2, <1>5, <1>6 DEF Next, Inv

LEMMA InvAlways == Spec => []Inv
<1>1. Init => Inv
  BY InvInit
<1>2. Inv /\ [Next]_vars => Inv'
  BY InvStep
<1> QED BY <1>1, <1>2, PTL DEF Spec

-----------------------------------------------------------------------------
(* What follows from it.                                                   *)

(* Every variable keeps its type, for any registries, requests, strategy,  *)
(* threshold and timeout.                                                  *)
THEOREM ParallelTypeCorrect == Spec => []TypeOK
<1>1. Inv => TypeOK
  BY DEF Inv
<1> QED BY <1>1, InvAlways, PTL

(* A positive response of evaluateFirstMatchFiltered, evaluateAllFiltered  *)
(* or evaluateBestMatch rests on an applicable registry that allowed this  *)
(* very request.                                                           *)
THEOREM NoTrustWithoutAnAllow == Spec => []AllowIsBacked
<1>1. Inv => AllowIsBacked
  BY DEF Inv, RequestInv, AllowInv, AllowIsBacked
<1> QED BY <1>1, InvAlways, PTL

(* A denial is returned only when every applicable registry has answered   *)
(* and none allowed, and its aggregated results hold each of them once.    *)
THEOREM NoDenialBeforeAllAnswered == Spec => []DenyIsComplete
<1>1. ASSUME Inv, NEW q \in Requests, Answered(q), ~answer[q].decision
      PROVE  /\ Allowers(q) = {}
             /\ \A r \in Applicable(q) :
                   \E i \in 1 .. Len(collected[q]) : collected[q][i] = result[q][r]
             /\ Len(collected[q]) = Cardinality(regs[q])
  <2>1. /\ closed[q] /\ chan[q] = <<>>
        /\ \A r \in regs[q] : ~IsAllow(result[q][r]) /\ result[q][r] \in Contents(collected[q])
    BY <1>1 DEF Inv, RequestInv, DenyInv
  <2>2. Done(q) = regs[q]
    BY <1>1, <2>1 DEF Inv, TypeOK, RequestInv, ClosedInv, WorkerInv, Done
  <2>3. Len(chan[q]) + Len(collected[q]) = Cardinality(Done(q))
    BY <1>1 DEF Inv, RequestInv, CountInv
  <2>4. Len(chan[q]) = 0 /\ Len(collected[q]) \in Nat
    BY <1>1, <2>1, LenProperties DEF Inv, TypeOK
  <2> QED BY <2>1, <2>2, <2>3, <2>4 DEF Allowers, Applicable, Contents
<1>2. Inv => DenyIsComplete
  BY <1>1 DEF DenyIsComplete
<1> QED BY <1>2, InvAlways, PTL

(* What the parallel run checks of a verdict, allow or denial.             *)
THEOREM VerdictsAreBacked == Spec => []VerdictIsBacked
<1>1. AllowIsBacked /\ DenyIsComplete => VerdictIsBacked
  BY DEF VerdictIsBacked
<1> QED BY <1>1, NoTrustWithoutAnAllow, NoDenialBeforeAllAnswered, PTL

(* The results channel, buffered for one result of each applicable         *)
(* registry, is never full and never closed when a goroutine sends on it,  *)
(* also after an early return has stopped reading it.                      *)
THEOREM SendersAreFree == Spec => []SendNeverBlocks
<1>1. ASSUME Inv, NEW q \in Requests, NEW r \in Registries, worker[q][r] = "send"
      PROVE  Len(chan[q]) < Cardinality(regs[q]) /\ ~closed[q]
  <2>1. ~closed[q] /\ r \in regs[q] /\ r \notin Done(q)
    BY <1>1 DEF Inv, RequestInv, ClosedInv, WorkerInv, Done
  <2>2. Done(q) \cup {r} \subseteq regs[q]
    BY <1>1, <2>1 DEF Inv, RequestInv, WorkerInv, Done
  <2>3. IsFiniteSet(regs[q]) /\ IsFiniteSet(Done(q) \cup {r})
        /\ Cardinality(Done(q) \cup {r}) <= Cardinality(regs[q])
        /\ Cardinality(regs[q]) \in Nat
    <3>1. IsFiniteSet(regs[q])
      BY <1>1, ParallelAssumption, FS_Subset DEF Inv, TypeOK
    <3>2. IsFiniteSet(Done(q) \cup {r}) /\ Cardinality(Done(q) \cup {r}) <= Cardinality(regs[q])
      BY <2>2, <3>1, FS_Subset
    <3> QED BY <3>1, <3>2, FS_CardinalityType
  <2>4. Cardinality(Done(q) \cup {r}) = Cardinality(Done(q)) + 1 /\ Cardinality(Done(q)) \in Nat
    BY <2>1, DoneIsFinite, FS_AddElement
  <2>5. Len(chan[q]) <= Cardinality(Done(q)) /\ Len(chan[q]) \in Nat
    <3>1. Len(chan[q]) \in Nat /\ Len(collected[q]) \in Nat
      BY <1>1, LenProperties DEF Inv, TypeOK
    <3>2. Len(chan[q]) + Len(collected[q]) <= Cardinality(Done(q))
      BY <1>1 DEF Inv, RequestInv, CountInv
    <3> DEFINE a == Len(chan[q])  b == Len(collected[q])  c == Cardinality(Done(q))
    <3>3. a \in Nat /\ b \in Nat /\ c \in Nat /\ a + b <= c
      BY <2>4, <3>1, <3>2
    <3> HIDE DEF a, b, c
    <3>4. a <= c
      BY <3>3
    <3> QED BY <3>1, <3>4 DEF a, c
  <2> QED BY <2>1, <2>3, <2>4, <2>5
<1>2. Inv => SendNeverBlocks
  BY <1>1 DEF SendNeverBlocks
<1> QED BY <1>2, InvAlways, PTL

-----------------------------------------------------------------------------
(* The contract: every step of the goroutines is one of a decision, of a   *)
(* vote, or of nothing at all.                                             *)

AbsVote(q, r) == IF result[q][r] = NoResult THEN "none"
                 ELSE IF IsAllow(result[q][r]) THEN "yes" ELSE "no"

AbsDecision(q) == CASE pc[q] = "idle"       -> "new"
                    [] pc[q] = "collecting" -> "open"
                    [] pc[q] = "answered"   -> IF answer[q].decision THEN "allow" ELSE "deny"

AbsApplicable == [q \in Requests |-> Applicable(q)]
AbsVotes      == [q \in Requests |-> [r \in Registries |-> AbsVote(q, r)]]
AbsDecisions  == [q \in Requests |-> AbsDecision(q)]

(* A step of request q changes the abstract state of q alone.              *)
LEMMA AbsFrame ==
    ASSUME NEW q \in Requests, \A p \in Requests \ {q} : Same(p)
    PROVE  /\ AbsApplicable' = [AbsApplicable EXCEPT ![q] = regs'[q]]
           /\ AbsVotes' = [AbsVotes EXCEPT ![q] = [r \in Registries |-> AbsVote(q, r)']]
           /\ AbsDecisions' = [AbsDecisions EXCEPT ![q] = AbsDecision(q)']
<1>1. ASSUME NEW p \in Requests \ {q}
      PROVE  /\ Applicable(p)' = Applicable(p) /\ AbsDecision(p)' = AbsDecision(p)
             /\ \A r \in Registries : AbsVote(p, r)' = AbsVote(p, r)
  BY DEF Same, Applicable, AbsDecision, AbsVote
<1>2. AbsApplicable' = [AbsApplicable EXCEPT ![q] = regs'[q]]
  BY <1>1 DEF AbsApplicable, Applicable
<1>3. AbsVotes' = [AbsVotes EXCEPT ![q] = [r \in Registries |-> AbsVote(q, r)']]
  BY <1>1 DEF AbsVotes
<1>4. AbsDecisions' = [AbsDecisions EXCEPT ![q] = AbsDecision(q)']
  BY <1>1 DEF AbsDecisions
<1> QED BY <1>2, <1>3, <1>4

(* When this state and the next are a step of the contract.                *)
LEMMA IsUnchanged ==
    ASSUME AbsApplicable' = AbsApplicable, AbsVotes' = AbsVotes, AbsDecisions' = AbsDecisions
    PROVE  UNCHANGED Contract!vars
  BY DEF Contract!vars, AbsApplicable, AbsVotes, AbsDecisions, AbsVote, AbsDecision

LEMMA IsReceive ==
    ASSUME NEW q, NEW S,
           AbsDecisions[q] = "new",
           AbsApplicable' = [AbsApplicable EXCEPT ![q] = S],
           AbsDecisions' = [AbsDecisions EXCEPT ![q] = IF S = {} THEN "deny" ELSE "open"],
           AbsVotes' = AbsVotes
    PROVE  Contract!Receive(q, S)
  BY DEF Contract!Receive, AbsApplicable, AbsVotes, AbsDecisions, AbsVote, AbsDecision

LEMMA IsVote ==
    ASSUME NEW q, NEW r, NEW v,
           AbsDecisions[q] # "new", r \in AbsApplicable[q], AbsVotes[q][r] = "none",
           AbsVotes' = [AbsVotes EXCEPT ![q][r] = v],
           AbsApplicable' = AbsApplicable, AbsDecisions' = AbsDecisions
    PROVE  Contract!Vote(q, r, v)
  BY DEF Contract!Vote, AbsApplicable, AbsVotes, AbsDecisions, AbsVote, AbsDecision

LEMMA IsAllowed ==
    ASSUME NEW q,
           AbsDecisions[q] = "open",
           \E r \in AbsApplicable[q] : AbsVotes[q][r] = "yes",
           AbsDecisions' = [AbsDecisions EXCEPT ![q] = "allow"],
           AbsApplicable' = AbsApplicable, AbsVotes' = AbsVotes
    PROVE  Contract!Allow(q)
  BY DEF Contract!Allow, AbsApplicable, AbsVotes, AbsDecisions, AbsVote, AbsDecision

LEMMA IsDenied ==
    ASSUME NEW q,
           AbsDecisions[q] = "open",
           \A r \in AbsApplicable[q] : AbsVotes[q][r] = "no",
           AbsDecisions' = [AbsDecisions EXCEPT ![q] = "deny"],
           AbsApplicable' = AbsApplicable, AbsVotes' = AbsVotes
    PROVE  Contract!Deny(q)
  BY DEF Contract!Deny, AbsApplicable, AbsVotes, AbsDecisions, AbsVote, AbsDecision

(* The abstract state of a single request in terms of its own variables.   *)
LEMMA AbsOf ==
    ASSUME TypeOK, NEW q \in Requests
    PROVE  /\ AbsApplicable[q] = regs[q] /\ AbsDecisions[q] = AbsDecision(q)
           /\ \A r \in Registries : AbsVotes[q][r] = AbsVote(q, r)
           /\ AbsApplicable = [AbsApplicable EXCEPT ![q] = regs[q]]
           /\ AbsVotes = [AbsVotes EXCEPT ![q] = [r \in Registries |-> AbsVote(q, r)]]
           /\ AbsDecisions = [AbsDecisions EXCEPT ![q] = AbsDecision(q)]
  BY DEF AbsApplicable, AbsVotes, AbsDecisions, Applicable

LEMMA Stutters ==
    ASSUME TypeOK, NEW q \in Requests, \A p \in Requests \ {q} : Same(p),
           regs'[q] = regs[q], AbsDecision(q)' = AbsDecision(q),
           \A r \in Registries : AbsVote(q, r)' = AbsVote(q, r)
    PROVE  UNCHANGED Contract!vars
<1>1. [r \in Registries |-> AbsVote(q, r)'] = [r \in Registries |-> AbsVote(q, r)]
  OBVIOUS
<1>2. AbsApplicable' = AbsApplicable /\ AbsVotes' = AbsVotes /\ AbsDecisions' = AbsDecisions
  BY <1>1, AbsFrame, AbsOf
<1> QED BY <1>2, IsUnchanged

LEMMA Decides ==
    ASSUME TypeOK, NEW q \in Requests, \A p \in Requests \ {q} : Same(p),
           pc[q] = "collecting", pc'[q] = "answered", answer'[q].decision \in BOOLEAN,
           regs'[q] = regs[q], result'[q] = result[q], regs[q] \subseteq Registries,
           answer'[q].decision => \E r \in regs[q] : AbsVote(q, r) = "yes",
           ~answer'[q].decision => \A r \in regs[q] : AbsVote(q, r) = "no"
    PROVE  Contract!Allow(q) \/ Contract!Deny(q)
<1>1. \A r \in Registries : AbsVote(q, r)' = AbsVote(q, r)
  BY DEF AbsVote
<1>2. [r \in Registries |-> AbsVote(q, r)'] = [r \in Registries |-> AbsVote(q, r)]
  BY <1>1
<1>3. AbsApplicable' = AbsApplicable /\ AbsVotes' = AbsVotes
  BY <1>2, AbsFrame, AbsOf
<1>4. /\ AbsDecisions[q] = "open"
      /\ AbsDecision(q)' = IF answer'[q].decision THEN "allow" ELSE "deny"
  BY AbsOf DEF AbsDecision
<1>5. \A r \in regs[q] : AbsVotes[q][r] = AbsVote(q, r)
  BY AbsOf
<1>6. CASE answer'[q].decision
  <2>1. \E r \in AbsApplicable[q] : AbsVotes[q][r] = "yes"
    BY <1>5, <1>6, AbsOf
  <2>2. AbsDecisions' = [AbsDecisions EXCEPT ![q] = "allow"]
    BY <1>4, <1>6, AbsFrame
  <2> QED BY <1>3, <1>4, <2>1, <2>2, IsAllowed
<1>7. CASE ~answer'[q].decision
  <2>1. \A r \in AbsApplicable[q] : AbsVotes[q][r] = "no"
    BY <1>5, <1>7, AbsOf
  <2>2. AbsDecisions' = [AbsDecisions EXCEPT ![q] = "deny"]
    BY <1>4, <1>7, AbsFrame
  <2> QED BY <1>3, <1>4, <2>1, <2>2, IsDenied
<1> QED BY <1>6, <1>7

LEMMA ReceivesRequest ==
    ASSUME TypeOK, NEW q \in Requests, \A p \in Requests \ {q} : Same(p),
           NEW S \in SUBSET Registries, pc[q] = "idle", regs'[q] = S, result'[q] = result[q],
           AbsDecision(q)' = IF S = {} THEN "deny" ELSE "open"
    PROVE  Contract!Receive(q, S)
<1>1. [r \in Registries |-> AbsVote(q, r)'] = [r \in Registries |-> AbsVote(q, r)]
  BY DEF AbsVote
<1>2. AbsVotes' = AbsVotes
  BY <1>1, AbsFrame, AbsOf
<1>3. AbsDecisions[q] = "new"
  BY AbsOf DEF AbsDecision
<1> QED BY <1>2, <1>3, AbsFrame, IsReceive

(* A goroutine that has its result casts its vote.                         *)
LEMMA CastsVote ==
    ASSUME TypeOK, NEW q \in Requests, NEW r \in Registries, RequestInv(q),
           NEW kind \in Kinds, NEW detailed \in BOOLEAN, Deliver(q, r, kind, detailed),
           worker[q][r] \in {"start", "calling"}
    PROVE  \E v \in {"yes", "no"} : Contract!Vote(q, r, v)
<1> DEFINE res == [reg |-> r, kind |-> kind, detailed |-> detailed]
           v   == IF IsAllow(res) THEN "yes" ELSE "no"
<1>1. res \in Results /\ res # NoResult
  <2>1. res \in Results
    BY DEF Results
  <2> QED BY <2>1, NoResultIsNone
<1>2. result' = [result EXCEPT ![q][r] = res]
  BY DEF Deliver
<1>3. \A p \in Requests \ {q} : Same(p)
  BY DEF Deliver, Same, TypeOK
<1>4. pc[q] # "idle" /\ r \in regs[q] /\ result[q][r] = NoResult
  BY DEF RequestInv, IdleInv, WorkerInv
<1> HIDE DEF res
<1>5. /\ result'[q][r] = res
      /\ \A x \in Registries \ {r} : result'[q][x] = result[q][x]
  BY <1>2 DEF TypeOK
<1>6. /\ AbsVote(q, r)' = v /\ AbsVote(q, r) = "none"
      /\ \A x \in Registries \ {r} : AbsVote(q, x)' = AbsVote(q, x)
  BY <1>1, <1>4, <1>5 DEF AbsVote
<1> HIDE DEF v
<1>7. [x \in Registries |-> AbsVote(q, x)']
        = [[x \in Registries |-> AbsVote(q, x)] EXCEPT ![r] = v]
  BY <1>6
<1>8. AbsVotes' = [AbsVotes EXCEPT ![q][r] = v]
  <2>1. AbsVotes[q] = [x \in Registries |-> AbsVote(q, x)]
    BY DEF AbsVotes
  <2> QED BY <1>3, <1>7, <2>1, AbsFrame
<1>9. AbsApplicable' = AbsApplicable /\ AbsDecisions' = AbsDecisions
  <2>1. regs'[q] = regs[q] /\ AbsDecision(q)' = AbsDecision(q)
    BY DEF Deliver, AbsDecision
  <2> QED BY <1>3, <2>1, AbsFrame, AbsOf
<1>10. AbsDecisions[q] # "new"
  BY <1>4, AbsOf DEF AbsDecision, TypeOK
<1>11. r \in AbsApplicable[q] /\ AbsVotes[q][r] = "none"
  BY <1>4, <1>6, AbsOf
<1>12. v \in {"yes", "no"}
  BY DEF v
<1> QED BY <1>8, <1>9, <1>10, <1>11, <1>12, IsVote

LEMMA ContractStep ==
    ASSUME Inv, Inv', [Next]_vars
    PROVE  [Contract!Next]_Contract!vars
<1>1. TypeOK /\ \A q \in Requests : RequestInv(q) /\ RequestInv(q)'
  BY DEF Inv
<1>2. ASSUME NEW q \in Requests, \E r \in Registries, v \in {"yes", "no"} : Contract!Vote(q, r, v)
      PROVE  Contract!Next
  BY <1>2 DEF Contract!Next
<1>3. ASSUME UNCHANGED <<regs, pc, result, answer>> PROVE UNCHANGED Contract!vars
  BY <1>3, IsUnchanged
  DEF AbsApplicable, AbsVotes, AbsDecisions, Applicable, AbsVote, AbsDecision
<1>4. CASE UNCHANGED vars \/ Tick \/ \E q \in Requests :
              Receive(q) \/ CloseResults(q) \/ Timeout(q)
              \/ \E r \in Registries : Call(q, r) \/ Send(q, r)
  BY <1>3, <1>4 DEF vars, Tick, Receive, CloseResults, Timeout, Call, Send
<1>5. ASSUME NEW q \in Requests, NEW S \in SUBSET Registries, Start(q, S)
      PROVE  Contract!Next
  <2>1. \A p \in Requests \ {q} : Same(p)
    BY <1>1, <1>5, StartStep
  <2>2. /\ pc[q] = "idle" /\ regs'[q] = S /\ result'[q] = result[q]
        /\ pc'[q] = "collecting" /\ S # {}
    BY <1>1, <1>5 DEF Start, TypeOK
  <2>3. Contract!Receive(q, S)
    BY <1>1, <2>1, <2>2, ReceivesRequest DEF AbsDecision
  <2> QED BY <2>3 DEF Contract!Next
<1>6. ASSUME NEW q \in Requests, StartEmpty(q) PROVE Contract!Next
  <2>1. \A p \in Requests \ {q} : Same(p)
    BY <1>1, <1>6, StartEmptyStep
  <2>2. /\ pc[q] = "idle" /\ regs'[q] = {} /\ result'[q] = result[q]
        /\ pc'[q] = "answered" /\ ~answer'[q].decision
    BY <1>1, <1>6 DEF StartEmpty, TypeOK, RequestInv, IdleInv, NoApplicable
  <2>3. Contract!Receive(q, {})
    BY <1>1, <2>1, <2>2, ReceivesRequest DEF AbsDecision
  <2> QED BY <2>3 DEF Contract!Next
<1>7. ASSUME NEW q \in Requests, ReceiveMatch(q) \/ Finish(q) PROVE Contract!Next
  <2>1. \A p \in Requests \ {q} : Same(p)
    BY <1>1, <1>7, ReceiveMatchStep, FinishStep
  <2>2. /\ pc[q] = "collecting" /\ pc'[q] = "answered"
        /\ UNCHANGED <<regs, result, worker>>
    BY <1>1, <1>7 DEF ReceiveMatch, Finish, Respond, TypeOK
  <2>3. answer'[q] \in Answers \cup {None} /\ regs[q] \subseteq Registries
    BY <1>1 DEF Inv, TypeOK
  <2>4. answer'[q].decision => \E r \in regs[q] : AbsVote(q, r) = "yes"
    BY <1>1, <2>2 DEF RequestInv, AllowInv, Answered, Allowers, Applicable, AbsVote
  <2>5. ~answer'[q].decision => \A r \in regs[q] : AbsVote(q, r) = "no"
    <3> SUFFICES ASSUME ~answer'[q].decision, NEW r \in regs[q] PROVE AbsVote(q, r) = "no"
      OBVIOUS
    <3>1. ~IsAllow(result[q][r]) /\ result[q][r] \in Contents(collected[q])'
      BY <1>1, <2>2 DEF RequestInv, DenyInv, Answered
    <3>2. result[q][r] \in Results
      BY <1>1, <3>1 DEF RequestInv, MailInv, Mail
    <3> QED BY <3>1, <3>2, NoResultIsNone DEF AbsVote
  <2>6. answer'[q].decision \in BOOLEAN
    <3>1. CASE ReceiveMatch(q)
      BY <1>1, <3>1, HeadIsResult, MatchFacts DEF ReceiveMatch, Respond, TypeOK
    <3>2. CASE Finish(q)
      BY <1>1, <3>2, AggregateFacts DEF Finish, Respond, TypeOK, Answers
    <3> QED BY <1>7, <3>1, <3>2
  <2>7. Contract!Allow(q) \/ Contract!Deny(q)
    BY <1>1, <2>1, <2>2, <2>3, <2>4, <2>5, <2>6, Decides
  <2> QED BY <2>7 DEF Contract!Next
<1>8. ASSUME NEW q \in Requests, NEW r \in Registries, Worker(q, r)
      PROVE  Call(q, r) \/ Send(q, r) \/ Contract!Next
  <2>1. ASSUME NEW kind \in Kinds, NEW detailed \in BOOLEAN, Deliver(q, r, kind, detailed),
               worker[q][r] \in {"start", "calling"}
        PROVE  Contract!Next
    BY <1>1, <1>2, <2>1, CastsVote
  <2> QED BY <1>8, <2>1 DEF Worker, Skip, Return, ReturnError, Recovered, Failed, Kinds
<1> QED BY <1>4, <1>5, <1>6, <1>7, <1>8 DEF Next

LEMMA ContractInit == Init => Contract!Init
<1> SUFFICES ASSUME Init PROVE Contract!Init
  OBVIOUS
<1>1. \A q \in Requests : /\ Applicable(q) = {} /\ pc[q] = "idle"
                          /\ \A r \in Registries : result[q][r] = NoResult
  BY DEF Init, Applicable
<1> QED BY <1>1 DEF Contract!Init

(* The parallel strategies, for any number of registries, requests and     *)
(* names: every step of theirs is a step of the contract the manager keeps *)
(* with its callers, or changes nothing the contract speaks of.            *)
THEOREM ParallelKeepsContract == Spec => Contract!Spec
<1>1. Init => Contract!Init
  BY ContractInit
<1>2. Inv /\ Inv' /\ [Next]_vars => [Contract!Next]_Contract!vars
  BY ContractStep
<1> QED BY <1>1, <1>2, InvAlways, PTL DEF Spec, Contract!Spec

-----------------------------------------------------------------------------
(* The admin detail promoted is the one of the first allow.                *)
LEMMA SelectedAdmin ==
    ASSUME NEW results \in Seq(Results), Allows(results) # {}
    PROVE  LET e == Earliest(Allows(results))
           IN  /\ e \in Allows(results) /\ firstMatched(results) = NameOf[results[e].reg]
               /\ promoteSelectedAdmin(results, firstMatched(results)) =
                     IF results[e].detailed THEN results[e].reg ELSE None
<1> DEFINE e == Earliest(Allows(results))
           named == {i \in Allows(results) : NameOf[results[i].reg] = firstMatched(results)}
<1>1. e \in Allows(results) /\ \A j \in Allows(results) : e <= j
  BY PositionsAreNat, EarliestExists
<1>2. firstMatched(results) = NameOf[results[e].reg]
  BY DEF firstMatched
<1>3. e \in named /\ named \in SUBSET Nat
  BY <1>1, <1>2, PositionsAreNat
<1>4. Earliest(named) \in named /\ Earliest(named) <= e
  BY <1>3, EarliestExists
<1>5. Earliest(named) = e
  <2>1. e <= Earliest(named) /\ e \in Nat /\ Earliest(named) \in Nat
    BY <1>1, <1>3, <1>4
  <2> HIDE DEF e, named
  <2> QED BY <1>4, <2>1
<1>6. promoteSelectedAdmin(results, firstMatched(results)) =
         IF results[Earliest(named)].detailed THEN results[Earliest(named)].reg ELSE None
  BY DEF promoteSelectedAdmin
<1> QED BY <1>1, <1>2, <1>5, <1>6

(* What the aggregations promote.                                          *)
LEMMA AggregateFields ==
    ASSUME NEW s \in Seq(Results), strategy \in Strategies
    PROVE  /\ ~Aggregate(s).decision => Aggregate(s).code = promoteSingleDenyCode(s)
           /\ Aggregate(s).decision =>
                 strategy # "first_match" /\ Aggregate(s).ids = mergeVerifierIDs(s)
           /\ Aggregate(s).decision /\ strategy = "all" =>
                 Aggregate(s).registry = None /\ Aggregate(s).admin = promoteSingleAllowAdmin(s)
           /\ Aggregate(s).decision /\ strategy = "best_match" =>
                 \E i \in Allows(s) :
                    /\ \A j \in Allows(s) : i <= j
                    /\ Aggregate(s).registry = NameOf[s[i].reg]
                    /\ Aggregate(s).admin = IF s[i].detailed THEN s[i].reg ELSE None
<1>1. CASE strategy = "first_match"
  BY <1>1 DEF Aggregate, NoMatchAnswer
<1>2. CASE strategy \in {"all", "best_match"} /\ Allows(s) = {}
  <2>1. AllAnswer(s).code = promoteSingleDenyCode(s) /\ ~AllAnswer(s).decision
    BY <1>2 DEF AllAnswer, promoteAllResultsDenyCode
  <2>2. Aggregate(s) = AllAnswer(s)
    BY <1>2, <2>1 DEF Aggregate, BestAnswer
  <2> QED BY <2>1, <2>2
<1>3. CASE strategy = "all" /\ Allows(s) # {}
  BY <1>3 DEF Aggregate, AllAnswer
<1>4. CASE strategy = "best_match" /\ Allows(s) # {}
  <2> DEFINE n == firstMatched(s)
             a == promoteSelectedAdmin(s, n)
             v == promoteSingleAllowAdmin(s)
             m == mergeVerifierIDs(s)
             e == Earliest(Allows(s))
  <2>1. AllAnswer(s) = [decision |-> TRUE, registry |-> None, code |-> None,
                        admin |-> v, ids |-> m]
    BY <1>4 DEF AllAnswer
  <2>2. Aggregate(s) = [AllAnswer(s) EXCEPT !.registry = n, !.admin = a]
    BY <1>4, <2>1 DEF Aggregate, BestAnswer
  <2>0. \A j \in Allows(s) : e <= j
    BY <1>4, PositionsAreNat, EarliestExists
  <2>3. e \in Allows(s) /\ n = NameOf[s[e].reg] /\ a = IF s[e].detailed THEN s[e].reg ELSE None
    BY <1>4, SelectedAdmin
  <2> HIDE DEF n, a, v, m, e
  <2>4. /\ Aggregate(s).decision /\ Aggregate(s).ids = m
        /\ Aggregate(s).registry = n /\ Aggregate(s).admin = a
    BY <2>1, <2>2
  <2> QED BY <1>4, <2>0, <2>3, <2>4 DEF m
<1> QED BY <1>1, <1>2, <1>3, <1>4, ParallelAssumption

(* A list with the results of the registries of S, as many as there are,   *)
(* holds each of them once.                                                *)
LEMMA OnceEach ==
    ASSUME NEW S, IsFiniteSet(S), NEW R, NEW s \in Seq(Results),
           \A r \in S : R[r].reg = r,
           Contents(s) = {R[r] : r \in S}, Len(s) = Cardinality(S),
           NEW i \in 1 .. Len(s), NEW j \in 1 .. Len(s), s[i] = s[j]
    PROVE  i = j
<1> DEFINE n == Len(s)  f == [k \in 1 .. n |-> s[k].reg]
<1>1. n \in Nat
  BY LenProperties
<1>2. ASSUME NEW k \in 1 .. n PROVE s[k].reg \in S
  <2>1. s[k] \in Contents(s)
    BY DEF Contents
  <2> QED BY <2>1
<1>3. ASSUME NEW r \in S PROVE \E k \in 1 .. n : f[k] = r
  <2>1. R[r] \in Contents(s)
    OBVIOUS
  <2>2. PICK k \in 1 .. n : s[k] = R[r]
    BY <2>1 DEF Contents
  <2> QED BY <2>2
<1>4. f \in Surjection(1 .. n, S)
  BY <1>2, <1>3 DEF Surjection
<1>5. IsFiniteSet(1 .. n) /\ Cardinality(1 .. n) = n
  BY <1>1, FS_Interval
<1>6. f \in Injection(1 .. n, S)
  BY <1>4, <1>5, FS_SurjSameCardinalityImpliesInj
<1>7. f[i] = f[j]
  OBVIOUS
<1> HIDE DEF f
<1> QED BY <1>6, <1>7 DEF Injection, IsInjective

(* s lists what the registries of S sent, R, in some order.                *)
ListsAll(s, S, R) == /\ \A r \in S : R[r].reg = r
                     /\ Contents(s) = {R[r] : r \in S}
                     /\ Len(s) = Cardinality(S)

(* I are the positions in s of what the registries of D sent.              *)
PositionsOf(I, s, D) == /\ I \subseteq 1 .. Len(s)
                        /\ \A i \in 1 .. Len(s) : i \in I <=> s[i].reg \in D

(* The detail of the only position of I, and of the only registry of D.    *)
OnlyPosition(s, I) == IF Cardinality(I) = 1 /\ s[Earliest(I)].detailed
                      THEN s[Earliest(I)].reg ELSE None

OnlyVoter(D, R) == IF \E r \in D : D = {r} /\ R[r].detailed
                   THEN CHOOSE r \in D : TRUE ELSE None

(* Whatever the order of such a list, they are the same.                   *)
LEMMA OnlyOneVotes ==
    ASSUME NEW S, IsFiniteSet(S), NEW R, NEW s \in Seq(Results), ListsAll(s, S, R),
           NEW D \in SUBSET S, NEW I, PositionsOf(I, s, D)
    PROVE  OnlyPosition(s, I) = OnlyVoter(D, R)
<1> USE DEF ListsAll, PositionsOf
<1> DEFINE first == Earliest(I)
<1>0. Contents(s) = {s[i] : i \in 1 .. Len(s)}
  BY DEF Contents
<1>1. \A i \in 1 .. Len(s) : s[i].reg \in S /\ R[s[i].reg] = s[i]
  <2>1. \A i \in 1 .. Len(s) : s[i] \in Contents(s)
    BY <1>0
  <2> QED BY <2>1
<1>2. \A r \in S : \E i \in 1 .. Len(s) : s[i] = R[r]
  <2>1. \A r \in S : R[r] \in Contents(s)
    OBVIOUS
  <2> QED BY <1>0, <2>1
<1>3. I \in SUBSET Nat /\ IsFiniteSet(I)
  <2>1. Len(s) \in Nat
    BY LenProperties
  <2>2. IsFiniteSet(1 .. Len(s))
    BY <2>1, FS_Interval
  <2>3. IsFiniteSet(I)
    BY <2>2, FS_Subset
  <2>4. I \in SUBSET Nat
    BY <2>1
  <2> QED BY <2>3, <2>4
<1>4. \A i : I = {i} => first = i
  <2> SUFFICES ASSUME NEW i, I = {i} PROVE first = i
    OBVIOUS
  <2>1. first \in I
    BY <1>3, EarliestExists
  <2> QED BY <2>1
<1>5. ASSUME NEW r, D = {r}
      PROVE  Cardinality(I) = 1 /\ s[first] = R[r] /\ s[first].reg = r
  <2>1. r \in S
    BY <1>5
  <2>2. PICK i \in 1 .. Len(s) : s[i] = R[r]
    BY <1>2, <2>1
  <2>3. i \in I /\ s[i].reg = r
    BY <1>5, <2>1, <2>2
  <2>4. ASSUME NEW j \in I PROVE j = i
    <3>1. j \in 1 .. Len(s) /\ s[j].reg = r
      BY <1>5
    <3>2. s[j] = s[i]
      BY <1>1, <2>2, <3>1
    <3> QED BY <3>1, <3>2, OnceEach
  <2>5. I = {i}
    BY <2>3, <2>4
  <2>6. Cardinality(I) = 1
    BY <2>5, FS_Singleton
  <2> QED BY <1>4, <2>2, <2>3, <2>5, <2>6
<1>6. ASSUME Cardinality(I) = 1
      PROVE  D = {s[first].reg} /\ R[s[first].reg] = s[first]
  <2>1. PICK i : I = {i}
    BY <1>3, <1>6, FS_Singleton
  <2>2. first = i /\ i \in 1 .. Len(s)
    BY <1>4, <2>1
  <2>3. s[i].reg \in D /\ R[s[i].reg] = s[i]
    BY <1>1, <2>1, <2>2
  <2>4. ASSUME NEW r \in D PROVE r = s[i].reg
    <3>1. PICK j \in 1 .. Len(s) : s[j] = R[r]
      BY <1>2
    <3>2. j \in I
      BY <3>1
    <3> QED BY <2>1, <3>1, <3>2
  <2> HIDE DEF first
  <2> QED BY <2>2, <2>3, <2>4
<1> HIDE DEF first
<1>7. CASE \E r \in D : D = {r} /\ R[r].detailed
  <2>1. PICK r \in D : D = {r} /\ R[r].detailed
    BY <1>7
  <2>2. (CHOOSE x \in D : TRUE) = r
    BY <2>1
  <2>3. OnlyPosition(s, I) = r
    BY <1>5, <2>1 DEF first, OnlyPosition
  <2> QED BY <1>7, <2>2, <2>3 DEF OnlyVoter
<1>8. CASE ~\E r \in D : D = {r} /\ R[r].detailed
  BY <1>6, <1>8 DEF first, OnlyPosition, OnlyVoter
<1> QED BY <1>7, <1>8

(* Who denied and who allowed.                                             *)
Denying(S, R)  == {r \in S : IsDenial(R[r])}
Allowing(S, R) == {r \in S : IsAllow(R[r])}

(* So what is promoted from it follows from who denied and who allowed.    *)
LEMMA PromotedFromAll ==
    ASSUME NEW S, IsFiniteSet(S), NEW R, NEW s \in Seq(Results), ListsAll(s, S, R)
    PROVE  /\ promoteSingleDenyCode(s) = OnlyVoter(Denying(S, R), R)
           /\ promoteSingleAllowAdmin(s) = OnlyVoter(Allowing(S, R), R)
           /\ mergeVerifierIDs(s) = UNION {IdsOf[r] : r \in Allowing(S, R)}
           /\ \A i \in Allows(s) : s[i].reg \in Allowing(S, R) /\ R[s[i].reg] = s[i]
<1> DEFINE D == Denying(S, R)  A == Allowing(S, R)
<1> USE DEF ListsAll
<1>0. Contents(s) = {s[i] : i \in 1 .. Len(s)}
  BY DEF Contents
<1>1. \A i \in 1 .. Len(s) : s[i].reg \in S /\ R[s[i].reg] = s[i]
  <2>1. \A i \in 1 .. Len(s) : s[i] \in Contents(s)
    BY <1>0
  <2> QED BY <2>1
<1>2. \A r \in S : \E i \in 1 .. Len(s) : s[i] = R[r]
  <2>1. \A r \in S : R[r] \in Contents(s)
    OBVIOUS
  <2> QED BY <1>0, <2>1
<1>3. /\ \A i \in 1 .. Len(s) : i \in Denials(s) <=> s[i].reg \in D
      /\ \A i \in 1 .. Len(s) : i \in Allows(s) <=> s[i].reg \in A
      /\ Denials(s) \subseteq 1 .. Len(s) /\ Allows(s) \subseteq 1 .. Len(s)
      /\ D \in SUBSET S /\ A \in SUBSET S
  BY <1>1 DEF Denials, Allows, Denying, Allowing
<1> HIDE DEF D, A
<1>4. promoteSingleDenyCode(s) = OnlyVoter(D, R)
  <2>1. promoteSingleDenyCode(s) = OnlyPosition(s, Denials(s))
    BY DEF promoteSingleDenyCode, OnlyPosition
  <2>2. PositionsOf(Denials(s), s, D)
    BY <1>3 DEF PositionsOf
  <2> QED BY <1>3, <2>1, <2>2, OnlyOneVotes
<1>5. promoteSingleAllowAdmin(s) = OnlyVoter(A, R)
  <2>1. promoteSingleAllowAdmin(s) = OnlyPosition(s, Allows(s))
    <3>1. CASE Allows(s) = {}
      <4>1. Cardinality(Allows(s)) # 1
        BY <3>1, FS_EmptySet
      <4> QED BY <4>1 DEF promoteSingleAllowAdmin, OnlyPosition
    <3>2. CASE Allows(s) # {}
      <4>1. promoteSelectedAdmin(s, firstMatched(s)) =
               IF s[Earliest(Allows(s))].detailed THEN s[Earliest(Allows(s))].reg ELSE None
        BY <3>2, SelectedAdmin
      <4> QED BY <4>1 DEF promoteSingleAllowAdmin, OnlyPosition
    <3> QED BY <3>1, <3>2
  <2>2. PositionsOf(Allows(s), s, A)
    BY <1>3 DEF PositionsOf
  <2> QED BY <1>3, <2>1, <2>2, OnlyOneVotes
<1>6. mergeVerifierIDs(s) = UNION {IdsOf[r] : r \in A}
  <2>1. \A i \in Allows(s) : s[i].reg \in A
    BY <1>3
  <2>2. \A r \in A : \E i \in Allows(s) : s[i].reg = r
    <3> SUFFICES ASSUME NEW r \in A PROVE \E i \in Allows(s) : s[i].reg = r
      OBVIOUS
    <3>1. PICK i \in 1 .. Len(s) : s[i] = R[r]
      BY <1>2, <1>3
    <3>2. s[i].reg = r
      BY <1>3, <3>1
    <3> QED BY <1>3, <3>1, <3>2
  <2> QED BY <2>1, <2>2 DEF mergeVerifierIDs
<1>7. \A i \in Allows(s) : s[i].reg \in A /\ R[s[i].reg] = s[i]
  BY <1>1, <1>3
<1> QED BY <1>4, <1>5, <1>6, <1>7 DEF D, A

-----------------------------------------------------------------------------
(* Only a first match answers before every goroutine has ended.            *)
EarlyInv(q) == Answered(q) /\ strategy # "first_match" => closed[q]

(* What is promoted, request by request.                                   *)
PromotionInv(q) == Answered(q) =>
    /\ ~answer[q].decision => answer[q].code = OnlyDetail(q, Deniers(q))
    /\ answer[q].decision /\ strategy # "first_match" =>
          answer[q].ids = UNION {IdsOf[r] : r \in Allowers(q)}
    /\ answer[q].decision /\ strategy = "all" =>
          answer[q].registry = None /\ answer[q].admin = OnlyDetail(q, Allowers(q))
    /\ answer[q].decision /\ strategy # "all" =>
          \E r \in Allowers(q) :
             /\ answer[q].registry = NameOf[r]
             /\ answer[q].admin = IF result[q][r].detailed THEN r ELSE None
             /\ strategy = "first_match" => answer[q].ids = IdsOf[r]
             /\ strategy = "best_match" => FirstToAllow(collected[q], result[q][r])

(* The range loop has ended: everything the registries sent is collected.  *)
LEMMA FinishPromotes ==
    ASSUME TypeOK, NEW q \in Requests, RequestInv(q), Finish(q)
    PROVE  EarlyInv(q)' /\ PromotionInv(q)'
<1> DEFINE s == collected[q]  S == regs[q]  R == result[q]
<1>1. /\ strategy' = strategy /\ strategy \in Strategies
      /\ regs'[q] = S /\ pc[q] = "collecting" /\ closed[q] /\ closed' = closed
      /\ result'[q] = R /\ chan[q] = <<>>
      /\ collected'[q] = s
      /\ answer'[q] = Aggregate(s) /\ s \in Seq(Results) /\ S \subseteq Registries
  BY DEF Finish, Respond, TypeOK
<1>2. \A r \in Registries : r \in S <=> r \in Done(q)
  BY <1>1 DEF RequestInv, ClosedInv, WorkerInv, Done
<1>3. Done(q) = S
  BY <1>1, <1>2 DEF Done
<1>4. IsFiniteSet(S) /\ \A r \in S : R[r] \in Results /\ R[r].reg = r
  <2>1. IsFiniteSet(S)
    BY <1>3, DoneIsFinite
  <2>2. \A r \in S : r \in Registries /\ worker[q][r] = "done"
    BY <1>3 DEF Done
  <2> QED BY <2>1, <2>2 DEF RequestInv, WorkerInv
<1>5. Contents(s) = {R[r] : r \in S}
  <2>1. Mail(q) = Contents(s)
    BY <1>1, ContentsEmpty DEF Mail
  <2>2. \A r \in S : R[r] \in Contents(s)
    BY <1>1, <1>3, <2>1 DEF RequestInv, CollectInv
  <2>3. \A m \in Contents(s) : m.reg \in S /\ R[m.reg] = m
    BY <1>1, <1>3, <2>1 DEF RequestInv, MailInv, Results, Done
  <2> QED BY <2>2, <2>3
<1>6. Len(s) = Cardinality(S)
  BY <1>1, <1>3, ContentsEmpty, LenProperties DEF RequestInv, CountInv
<1> DEFINE D == Denying(S, R)  A == Allowing(S, R)
<1>7. /\ promoteSingleDenyCode(s) = OnlyVoter(D, R)
      /\ promoteSingleAllowAdmin(s) = OnlyVoter(A, R)
      /\ mergeVerifierIDs(s) = UNION {IdsOf[r] : r \in A}
      /\ \A i \in Allows(s) : s[i].reg \in A /\ R[s[i].reg] = s[i]
  <2>1. s \in Seq(Results) /\ ListsAll(s, S, R)
    BY <1>1, <1>4, <1>5, <1>6 DEF ListsAll
  <2> HIDE DEF s, S, R
  <2> QED BY <2>1, <1>4, PromotedFromAll
<1>8. Deniers(q)' = D /\ Allowers(q)' = A
  BY <1>1, <1>4, NoResultIsNone DEF Deniers, Allowers, Applicable, Denying, Allowing
<1>9. EarlyInv(q)'
  BY <1>1 DEF EarlyInv
<1> DEFINE g == Aggregate(s)
<1>10. /\ ~g.decision => g.code = promoteSingleDenyCode(s)
       /\ g.decision => strategy # "first_match" /\ g.ids = mergeVerifierIDs(s)
       /\ g.decision /\ strategy = "all" => g.registry = None /\ g.admin = promoteSingleAllowAdmin(s)
  BY <1>1, AggregateFields
<1>11. ASSUME g.decision, strategy = "best_match"
       PROVE  \E r \in A : /\ g.registry = NameOf[r]
                           /\ g.admin = IF R[r].detailed THEN r ELSE None
                           /\ FirstToAllow(s, R[r])
  <2>1. PICK i \in Allows(s) : /\ \A j \in Allows(s) : i <= j
                               /\ g.registry = NameOf[s[i].reg]
                               /\ g.admin = IF s[i].detailed THEN s[i].reg ELSE None
    BY <1>1, <1>11, AggregateFields
  <2>2. i \in 1 .. Len(s) /\ Len(s) \in Nat
    BY <1>1, LenProperties DEF Allows
  <2>3. ASSUME NEW j \in 1 .. Len(s), j < i PROVE ~IsAllow(s[j])
    <3>1. i \in Nat /\ j \in Nat /\ ~(i <= j)
      BY <2>2, <2>3
    <3> QED BY <2>1, <3>1 DEF Allows
  <2>4. s[i] = R[s[i].reg]
    BY <1>7
  <2> HIDE DEF s, R, S, g, A
  <2>5. FirstToAllow(s, R[s[i].reg])
    BY <2>2, <2>3, <2>4 DEF FirstToAllow
  <2> QED BY <1>7, <2>1, <2>4, <2>5
<1>12. /\ OnlyDetail(q, Deniers(q))' = promoteSingleDenyCode(s)
       /\ OnlyDetail(q, Allowers(q))' = promoteSingleAllowAdmin(s)
  <2>1. result'[q] = R
    BY <1>1
  <2> HIDE DEF R, S, D, A, s
  <2> QED BY <1>7, <1>8, <2>1 DEF OnlyDetail, OnlyVoter
<1>13. /\ answer'[q] = g /\ strategy' = strategy /\ result'[q] = R /\ strategy \in Strategies
       /\ collected'[q] = s
  BY <1>1
<1> HIDE DEF g, A, D, s, R, S
<1>14. ASSUME g.decision, strategy # "all"
       PROVE  \E r \in Allowers(q)' :
                /\ g.registry = NameOf[r]
                /\ g.admin = IF R[r].detailed THEN r ELSE None
                /\ strategy = "best_match" => FirstToAllow(s, R[r])
  <2>1. strategy = "best_match"
    BY <1>10, <1>13, <1>14, ParallelAssumption
  <2> QED BY <1>8, <1>11, <1>14, <2>1
<1>15. PromotionInv(q)'
  <2>1. g.decision => strategy # "first_match"
    BY <1>10
  <2>2. g.decision /\ strategy # "all" =>
           \E r \in Allowers(q)' :
              /\ answer'[q].registry = NameOf[r]
              /\ answer'[q].admin = IF result'[q][r].detailed THEN r ELSE None
              /\ strategy' = "first_match" => answer'[q].ids = IdsOf[r]
              /\ strategy' = "best_match" => FirstToAllow(collected'[q], result'[q][r])
    BY <1>13, <1>14, <2>1
  <2> QED BY <1>7, <1>8, <1>10, <1>12, <1>13, <2>2 DEF PromotionInv
<1> QED BY <1>9, <1>15

(* The first match hands on what its registry returned.                    *)
LEMMA MatchPromotes ==
    ASSUME TypeOK, NEW q \in Requests, RequestInv(q), ReceiveMatch(q)
    PROVE  EarlyInv(q)' /\ PromotionInv(q)'
<1> DEFINE m == Head(chan[q])
<1>1. /\ strategy' = strategy /\ strategy = "first_match" /\ IsAllow(m)
      /\ regs'[q] = regs[q] /\ result'[q] = result[q] /\ chan[q] \in Seq(Results)
      /\ chan[q] # <<>> /\ answer'[q] = MatchAnswer(m)
  BY DEF ReceiveMatch, Respond, TypeOK
<1>2. m \in Mail(q)
  BY <1>1, ContentsTail DEF Mail
<1>3. m \in Results /\ worker[q][m.reg] = "done" /\ result[q][m.reg] = m
  BY <1>2 DEF RequestInv, MailInv
<1>4. m.reg \in regs[q] /\ m # NoResult
  BY <1>3, NoResultIsNone DEF RequestInv, WorkerInv, Results
<1> HIDE DEF m
<1>5. m.reg \in Allowers(q)'
  BY <1>1, <1>3, <1>4 DEF Allowers, Applicable
<1>6. /\ MatchAnswer(m).decision /\ MatchAnswer(m).ids = IdsOf[m.reg]
      /\ MatchAnswer(m).admin = IF m.detailed THEN m.reg ELSE None
      /\ MatchAnswer(m).registry = NameOf[m.reg]
  BY DEF MatchAnswer
<1> QED BY <1>1, <1>3, <1>5, <1>6 DEF EarlyInv, PromotionInv

(* What is promoted is not touched by what goes on after the answer.       *)
LEMMA AnsweredKeeps ==
    ASSUME Inv, [Next]_vars, NEW q \in Requests, pc[q] = "answered"
    PROVE  /\ strategy' = strategy /\ regs'[q] = regs[q] /\ answer'[q] = answer[q]
           /\ collected'[q] = collected[q]
           /\ \A r \in Registries : result[q][r] # NoResult => result'[q][r] = result[q][r]
           /\ closed[q] => closed'[q] /\ \A r \in regs[q] : result'[q][r] = result[q][r]
<1> USE DEF Inv, TypeOK
<1>0. WorkerInv(q) /\ ClosedInv(q)
  BY DEF RequestInv
<1>1. ASSUME NEW p \in Requests, NEW S \in SUBSET Registries, Start(p, S)
      PROVE  UNCHANGED <<strategy, regs[q], answer[q], collected[q], result[q], closed[q]>>
  BY <1>1 DEF Start
<1>2. ASSUME NEW p \in Requests, StartEmpty(p) \/ ReceiveMatch(p) \/ Receive(p) \/ Finish(p)
      PROVE  UNCHANGED <<strategy, regs[q], answer[q], collected[q], result[q], closed[q]>>
  BY <1>2 DEF StartEmpty, ReceiveMatch, Receive, Finish, Respond
<1>3. ASSUME NEW p \in Requests, CloseResults(p) \/ Timeout(p)
      PROVE  /\ UNCHANGED <<strategy, regs[q], answer[q], collected[q], result[q]>>
             /\ closed[q] => closed'[q]
  BY <1>3 DEF CloseResults, Timeout
<1>4. ASSUME NEW p \in Requests, NEW r \in Registries, NEW kind, NEW detailed,
             Deliver(p, r, kind, detailed), worker[p][r] \in {"start", "calling"}
      PROVE  /\ UNCHANGED <<strategy, regs[q], answer[q], collected[q], closed[q]>>
             /\ \A x \in Registries : p # q \/ x # r => result'[q][x] = result[q][x]
             /\ p = q => result[q][r] = NoResult /\ ~closed[q]
  <2>1. result' = [result EXCEPT ![p][r] = [reg |-> r, kind |-> kind, detailed |-> detailed]]
    BY <1>4 DEF Deliver
  <2>2. \A x \in Registries : p # q \/ x # r => result'[q][x] = result[q][x]
    BY <2>1
  <2>3. p = q => result[q][r] = NoResult /\ ~closed[q]
    BY <1>0, <1>4 DEF WorkerInv, ClosedInv
  <2> QED BY <1>4, <2>2, <2>3 DEF Deliver
<1>5. ASSUME NEW p \in Requests, NEW r \in Registries, Worker(p, r)
      PROVE  /\ UNCHANGED <<strategy, regs[q], answer[q], collected[q], closed[q]>>
             /\ \A x \in Registries :
                   result[q][x] # NoResult \/ closed[q] => result'[q][x] = result[q][x]
  <2>1. CASE UNCHANGED <<strategy, regs, answer, collected, closed, result>>
    BY <2>1
  <2>2. ASSUME NEW kind, NEW detailed, Deliver(p, r, kind, detailed),
               worker[p][r] \in {"start", "calling"}
        PROVE  /\ UNCHANGED <<strategy, regs[q], answer[q], collected[q], closed[q]>>
               /\ \A x \in Registries :
                     result[q][x] # NoResult \/ closed[q] => result'[q][x] = result[q][x]
    BY <1>4, <2>2
  <2> QED BY <1>5, <2>1, <2>2
          DEF Worker, Call, Skip, Return, Failed, ReturnError, Recovered, Send
<1>6. CASE Tick \/ UNCHANGED vars
  BY <1>6 DEF Tick, vars
<1> QED BY <1>1, <1>2, <1>3, <1>5, <1>6 DEF Next

LEMMA PromotionKept ==
    ASSUME Inv, [Next]_vars, NEW q \in Requests, EarlyInv(q), PromotionInv(q), pc[q] = "answered"
    PROVE  EarlyInv(q)' /\ PromotionInv(q)'
<1>1. /\ strategy' = strategy /\ regs'[q] = regs[q] /\ answer'[q] = answer[q]
      /\ collected'[q] = collected[q]
      /\ \A r \in Registries : result[q][r] # NoResult => result'[q][r] = result[q][r]
      /\ closed[q] => closed'[q] /\ \A r \in regs[q] : result'[q][r] = result[q][r]
      /\ regs[q] \subseteq Registries
  BY AnsweredKeeps DEF Inv, TypeOK
<1>2. EarlyInv(q)'
  BY <1>1 DEF EarlyInv, Answered
<1>3. Allowers(q) \subseteq Allowers(q)'
  BY <1>1 DEF Allowers, Applicable
<1>4. ASSUME closed[q]
      PROVE  /\ Allowers(q)' = Allowers(q) /\ Deniers(q)' = Deniers(q)
             /\ OnlyDetail(q, Allowers(q))' = OnlyDetail(q, Allowers(q))
             /\ OnlyDetail(q, Deniers(q))' = OnlyDetail(q, Deniers(q))
  <2>1. Allowers(q)' = Allowers(q) /\ Deniers(q)' = Deniers(q)
    BY <1>1, <1>4 DEF Allowers, Deniers, Applicable
  <2>2. \A r \in Allowers(q) \cup Deniers(q) : result'[q][r] = result[q][r]
    BY <1>1, <1>4 DEF Allowers, Deniers, Applicable
  <2> QED BY <2>1, <2>2 DEF OnlyDetail
<1>5. ASSUME ~answer[q].decision PROVE answer'[q].code = OnlyDetail(q, Deniers(q))'
  <2>1. closed[q]
    BY <1>5 DEF Inv, RequestInv, DenyInv, Answered
  <2> QED BY <1>1, <1>4, <1>5, <2>1 DEF PromotionInv, Answered
<1>6. ASSUME answer[q].decision
      PROVE  /\ strategy # "first_match" => answer'[q].ids = UNION {IdsOf[r] : r \in Allowers(q)'}
             /\ strategy = "all" => /\ answer'[q].registry = None
                                    /\ answer'[q].admin = OnlyDetail(q, Allowers(q))'
  BY <1>1, <1>4, <1>6 DEF PromotionInv, EarlyInv, Answered
<1>7. ASSUME answer[q].decision, strategy # "all"
      PROVE  \E r \in Allowers(q)' :
                /\ answer'[q].registry = NameOf[r]
                /\ answer'[q].admin = IF result'[q][r].detailed THEN r ELSE None
                /\ strategy = "first_match" => answer'[q].ids = IdsOf[r]
                /\ strategy = "best_match" => FirstToAllow(collected'[q], result'[q][r])
  <2>1. PICK r \in Allowers(q) :
               /\ answer[q].registry = NameOf[r]
               /\ answer[q].admin = IF result[q][r].detailed THEN r ELSE None
               /\ strategy = "first_match" => answer[q].ids = IdsOf[r]
               /\ strategy = "best_match" => FirstToAllow(collected[q], result[q][r])
    BY <1>7 DEF PromotionInv, Answered
  <2>2. result'[q][r] = result[q][r]
    BY <1>1 DEF Allowers, Applicable
  <2>3. FirstToAllow(collected[q], result[q][r]) => FirstToAllow(collected'[q], result'[q][r])
    BY <1>1, <2>2
  <2> QED BY <1>1, <1>3, <2>1, <2>2, <2>3
<1>8. PromotionInv(q)'
  BY <1>1, <1>5, <1>6, <1>7 DEF PromotionInv
<1> QED BY <1>2, <1>8

LEMMA PromotionStep ==
    ASSUME Inv, [Next]_vars, NEW q \in Requests, EarlyInv(q), PromotionInv(q)
    PROVE  EarlyInv(q)' /\ PromotionInv(q)'
<1> USE DEF Inv
<1>1. CASE pc[q] = "answered"
  BY <1>1, PromotionKept
<1>2. CASE StartEmpty(q)
  <2>1. /\ answer'[q] = NoApplicable /\ closed'[q] /\ regs'[q] = {}
    BY <1>2 DEF StartEmpty, TypeOK, RequestInv, IdleInv
  <2>2. Deniers(q)' = {}
    BY <2>1 DEF Deniers, Applicable
  <2>3. OnlyDetail(q, Deniers(q))' = None
    BY <2>2 DEF OnlyDetail
  <2> QED BY <2>1, <2>3 DEF EarlyInv, PromotionInv, NoApplicable
<1>3. CASE ReceiveMatch(q)
  BY <1>3, MatchPromotes
<1>4. CASE Finish(q)
  BY <1>4, FinishPromotes
<1>5. CASE pc[q] # "answered" /\ ~(StartEmpty(q) \/ ReceiveMatch(q) \/ Finish(q))
  <2> USE DEF TypeOK
  <2>1. ASSUME NEW p \in Requests, NEW S \in SUBSET Registries, Start(p, S)
        PROVE  pc'[q] # "answered"
    BY <1>5, <2>1 DEF Start
  <2>2. ASSUME NEW p \in Requests, p # q, StartEmpty(p) \/ ReceiveMatch(p) \/ Finish(p)
        PROVE  pc'[q] # "answered"
    BY <1>5, <2>2 DEF StartEmpty, ReceiveMatch, Finish, Respond
  <2>3. ASSUME NEW p \in Requests, NEW r \in Registries, Worker(p, r) PROVE pc' = pc
    BY <2>3 DEF Worker, Call, Skip, Return, Failed, ReturnError, Recovered, Send, Deliver
  <2>4. ASSUME NEW p \in Requests, Receive(p) \/ CloseResults(p) \/ Timeout(p)
        PROVE  pc' = pc
    BY <2>4 DEF Receive, CloseResults, Timeout
  <2>5. Tick \/ UNCHANGED vars => pc' = pc
    BY DEF Tick, vars
  <2>6. pc'[q] # "answered"
    BY <1>5, <2>1, <2>2, <2>3, <2>4, <2>5 DEF Next
  <2> QED BY <2>6 DEF EarlyInv, PromotionInv, Answered
<1> QED BY <1>1, <1>2, <1>3, <1>4, <1>5

(* Whatever the order in which goroutines send, the deny code, the         *)
(* identifiers outside first_match and the admin detail of the strategy    *)
(* `all` follow from who allowed and who denied; best_match names the      *)
(* registry whose allow arrived first, first_match one that allowed, and   *)
(* both show its own admin detail and no other's (promoteSingleDenyCode,   *)
(* promoteSingleAllowAdmin, promoteSelectedAdmin).                         *)
THEOREM DetailsFollowVotes == Spec => []PromotionFollowsVotes
<1> DEFINE PInv == \A q \in Requests : EarlyInv(q) /\ PromotionInv(q)
<1>1. Init => PInv
  BY DEF Init, EarlyInv, PromotionInv, Answered
<1>2. Inv /\ PInv /\ [Next]_vars => PInv'
  BY PromotionStep
<1>3. PInv => PromotionFollowsVotes
  BY DEF PromotionInv, PromotionFollowsVotes, VotesDecideDetails, OneAllowIsShown
<1> QED BY <1>1, <1>2, <1>3, InvAlways, PTL DEF Spec
=============================================================================

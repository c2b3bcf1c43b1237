--------------------------- MODULE BreakerCallers ---------------------------
(***************************************************************************)
(* One registry behind its circuit breaker, used the way the resolution    *)
(* strategies use it: a goroutine asks CanAttempt, calls the registry with *)
(* no lock held, and records the outcome when the call returns.  Between   *)
(* the check and the record any number of other goroutines act, so a       *)
(* result recorded is the result of a call admitted under an older state   *)
(* of the breaker.                                                         *)
(***************************************************************************)
EXTENDS CircuitBreaker, Sequences

CONSTANT Callers    \* concurrent goroutines that may call the registry

ASSUME CallersAssumption == FailureBound > MaxFailures

VARIABLES cb,       \* the breaker
          caller,   \* caller[c]: "idle", or "calling" after an admitted check
          up,       \* does the registry answer at present?
          recent,   \* history: the last MaxFailures recorded outcomes
          probes    \* history: calls of each caller in this probe window, at most 2 counted

vars == <<cb, caller, up, recent, probes>>

Outcomes == {"success", "failure"}

TypeOK == /\ cb \in Breaker
          /\ caller \in [Callers -> {"idle", "calling"}]
          /\ up \in BOOLEAN
          /\ recent \in Seq(Outcomes)
          /\ probes \in [Callers -> Nat]

Init == /\ cb = NewCircuitBreaker
        /\ caller = [c \in Callers |-> "idle"]
        /\ up = TRUE
        /\ recent = <<>>
        /\ probes = [c \in Callers |-> 0]

(* The probe window: the circuit is open and its reset timeout is over.    *)
ProbeWindow(b) == b.state = CircuitOpen /\ b.elapsed > ResetTimeout

Remember(o) == LET s == Append(recent, o)
               IN  recent' = IF Len(s) > MaxFailures THEN Tail(s) ELSE s

(* The breaker becomes b; the history of probes restarts outside a window. *)
Store(b) == /\ cb' = b
            /\ probes' = IF ProbeWindow(b) THEN probes ELSE [c \in Callers |-> 0]

-----------------------------------------------------------------------------
(* if !breaker.CanAttempt() { skip } ... registry.Evaluate(...)            *)
Admit(c) == /\ caller[c] = "idle"
            /\ CanAttempt(cb)
            /\ caller' = [caller EXCEPT ![c] = "calling"]
            /\ probes' = IF ProbeWindow(cb) /\ probes[c] < 2
                         THEN [probes EXCEPT ![c] = @ + 1] ELSE probes
            /\ UNCHANGED <<cb, up, recent>>

(* Evaluate returned without an error.                                     *)
ReturnSuccess(c) == /\ caller[c] = "calling"
                    /\ up
                    /\ caller' = [caller EXCEPT ![c] = "idle"]
                    /\ Store(RecordSuccess(cb))
                    /\ Remember("success")
                    /\ UNCHANGED up

(* Evaluate returned an error, or panicked.                                *)
ReturnFailure(c) == /\ caller[c] = "calling"
                    /\ ~up
                    /\ cb.failures < FailureBound
                    /\ caller' = [caller EXCEPT ![c] = "idle"]
                    /\ Store(RecordFailure(cb))
                    /\ Remember("failure")
                    /\ UNCHANGED up

ManualReset == /\ Store(Reset(cb))
               /\ recent' = <<>>
               /\ UNCHANGED <<caller, up>>

Tick == /\ cb.elapsed <= ResetTimeout
        /\ Store(Elapse(cb))
        /\ UNCHANGED <<caller, up, recent>>

(* Environment: the registry's backend goes down and comes back.           *)
Toggle == /\ up' = ~up
          /\ UNCHANGED <<cb, caller, recent, probes>>

Next == \/ \E c \in Callers : Admit(c) \/ ReturnSuccess(c) \/ ReturnFailure(c)
        \/ ManualReset
        \/ Tick
        \/ Toggle

Spec == Init /\ [][Next]_vars

(* Requests keep arriving (every caller retries), calls return, time runs. *)
Fairness == /\ \A c \in Callers : /\ WF_vars(Admit(c))
                                  /\ WF_vars(ReturnSuccess(c))
            /\ WF_vars(Tick)

FairSpec == Spec /\ Fairness

-----------------------------------------------------------------------------
(* The circuit is open exactly when the last MaxFailures outcomes recorded *)
(* were failures: interleaved results of overlapping calls neither open it *)
(* early nor keep it open past a success ("consecutive failures", the      *)
(* parameter's doc).                                                       *)
OpenIffFailureStreak ==
    cb.state = CircuitOpen <=>
        /\ Len(recent) = MaxFailures
        /\ \A i \in 1 .. Len(recent) : recent[i] = "failure"

(* Load on a dead registry: once the circuit is open, one caller reaches   *)
(* the registry at most once per reset timeout, because the failure of its *)
(* own probe restarts the timeout of the circuit.                          *)
OneProbePerCaller == \A c \in Callers : probes[c] <= 1

(* The counter and the state never disagree: what GetFailureCount and      *)
(* GetState report to monitoring is the same story.                        *)
ClosedIffBelowThreshold ==
    /\ cb.state \in {CircuitClosed, CircuitOpen}
    /\ cb.state = CircuitClosed <=> cb.failures < MaxFailures

(* State, count and history of the outcomes tell one story.                *)
OpensOnlyOnFailures == OpenIffFailureStreak /\ ClosedIffBelowThreshold

(* Recovery: if the registry is up for good and requests keep arriving,    *)
(* the circuit closes, whatever late failures it recorded before.          *)
Recovers == <>[]up => <>[](cb.state = CircuitClosed)
=============================================================================

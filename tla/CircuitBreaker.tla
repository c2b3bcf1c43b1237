--------------------------- MODULE CircuitBreaker ---------------------------
(***************************************************************************)
(* The circuit breaker of pkg/registry/circuit_breaker.go as operators on  *)
(* a record.  Every method of the type runs under the breaker's own mutex, *)
(* so a method is one atomic operator.                                     *)
(*                                                                         *)
(* The code stores lastFailure as a wall-clock instant and only ever uses  *)
(* it as time.Since(lastFailure) > resetTimeout.  The record keeps that    *)
(* elapsed time, saturated one unit above the timeout: the comparison has  *)
(* the same outcome and the state space stays finite.  The zero instant of *)
(* a fresh breaker is arbitrarily long ago, that is, saturated.            *)
(***************************************************************************)
EXTENDS Naturals

CONSTANTS MaxFailures,   \* failures before the circuit opens (5 in Register)
          ResetTimeout,  \* time units an open circuit rejects (30s in Register)
          FailureBound   \* bound on failure counters, for model checking

ASSUME BreakerAssumption == /\ MaxFailures \in Nat \ {0}
                            /\ ResetTimeout \in Nat
                            /\ FailureBound \in Nat

CircuitClosed   == "closed"
CircuitOpen     == "open"
CircuitHalfOpen == "half_open"

Breaker == [state    : {CircuitClosed, CircuitOpen, CircuitHalfOpen},
            failures : Nat,
            elapsed  : 0 .. ResetTimeout + 1]

NewCircuitBreaker == [state    |-> CircuitClosed,
                      failures |-> 0,
                      elapsed  |-> ResetTimeout + 1]

CanAttempt(cb) ==
    \/ cb.state = CircuitClosed
    \/ cb.state = CircuitOpen /\ cb.elapsed > ResetTimeout
    \/ cb.state = CircuitHalfOpen

\* A success that closes the circuit and forgets to reset the counter.
RecordSuccessKeepsCount(cb) == [cb EXCEPT !.state = CircuitClosed]

\* A success that resets the counter and leaves the circuit as it is.
RecordSuccessKeepsState(cb) == [cb EXCEPT !.failures = 0]

RecordSuccess(cb) == [cb EXCEPT !.failures = 0, !.state = CircuitClosed]

\* A failure that does not restart the reset timeout.
RecordFailureKeepsClock(cb) ==
    [cb EXCEPT !.failures = @ + 1,
               !.state    = IF cb.failures + 1 >= MaxFailures
                            THEN CircuitOpen ELSE @]

RecordFailure(cb) ==
    [cb EXCEPT !.failures = @ + 1,
               !.elapsed  = 0,
               !.state    = IF @ = CircuitHalfOpen \/ cb.failures + 1 >= MaxFailures
                            THEN CircuitOpen ELSE @]

\* Reset, the manual operation: same assignments as a success.
Reset(cb) == [cb EXCEPT !.failures = 0, !.state = CircuitClosed]

\* The wall clock moves one unit.
Elapse(cb) == [cb EXCEPT !.elapsed = IF @ > ResetTimeout THEN @ ELSE @ + 1]
=============================================================================

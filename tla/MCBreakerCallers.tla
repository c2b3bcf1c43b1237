-------------------------- MODULE MCBreakerCallers --------------------------
(* Two goroutines share one breaker with a threshold of two failures.      *)
EXTENDS BreakerCallers

CONSTANTS g1, g2

MCCallers == {g1, g2}
=============================================================================

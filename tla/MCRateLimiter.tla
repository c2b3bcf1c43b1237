---------------------------- MODULE MCRateLimiter ----------------------------
(* Three requests at once from one client.                                 *)
EXTENDS RateLimiter

CONSTANTS q1, q2, q3, c1, b1, b2, b3, b4
==============================================================================

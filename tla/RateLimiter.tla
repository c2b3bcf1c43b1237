----------------------------- MODULE RateLimiter -----------------------------
(***************************************************************************)
(* The per-client rate limiter of pkg/api/ratelimit.go: a map from client  *)
(* address to token bucket, another from address to the time it was last   *)
(* seen, one lock for both, and an hourly cleanup.  A request looks its    *)
(* bucket up under the read lock, marks the client as seen under the write *)
(* lock, and takes a token with no lock of the limiter held; the cleanup   *)
(* may run between any two of these.                                       *)
(*                                                                         *)
(* The time since a client was seen is kept as an age that saturates one   *)
(* unit above maxAge; a tick refills every bucket by Rate tokens.          *)
(***************************************************************************)
EXTENDS Naturals

CONSTANTS Handlers,   \* goroutines that serve requests
          Clients,    \* client addresses
          Buckets,    \* identities of token buckets
          Rate,       \* tokens per time unit
          Burst,      \* bucket size
          MaxAge,     \* idle time after which a client is forgotten
          Absent

ASSUME LimiterAssumption == /\ Rate \in Nat \ {0} /\ Burst \in Nat \ {0} /\ MaxAge \in Nat
                            /\ Absent \notin Buckets \cup Clients \cup Nat

VARIABLES limiters,   \* limiters[c]: bucket of client c, or Absent
          age,        \* age[c]: time since lastAccess[c], or Absent
          tokens,     \* tokens[b]: tokens left in bucket b
          stage,      \* stage[q]: where request q is
          client,     \* client[q]: the address it comes from
          bucket,     \* bucket[q]: the bucket it found or made, or Absent
          admitted,   \* history: requests of c admitted in this time unit
          strayed     \* history: one of them on a bucket dropped by the cleanup

limiterVars == <<limiters, age, tokens, stage, client, bucket, admitted, strayed>>

LimiterTypeOK ==
    /\ limiters \in [Clients -> Buckets \cup {Absent}]
    /\ age \in [Clients -> 0 .. MaxAge + 1 \cup {Absent}]
    /\ tokens \in [Buckets -> 0 .. Burst]
    /\ stage \in [Handlers -> {"idle", "found", "missing", "taking"}]
    /\ client \in [Handlers -> Clients]
    /\ bucket \in [Handlers -> Buckets \cup {Absent}]
    /\ admitted \in [Clients -> Nat]
    /\ strayed \in [Clients -> BOOLEAN]

LimiterInit ==
    /\ limiters = [c \in Clients |-> Absent]
    /\ age = [c \in Clients |-> Absent]
    /\ tokens = [b \in Buckets |-> Burst]
    /\ stage = [q \in Handlers |-> "idle"]
    /\ client \in [Handlers -> Clients]
    /\ bucket = [q \in Handlers |-> Absent]
    /\ admitted = [c \in Clients |-> 0]
    /\ strayed = [c \in Clients |-> FALSE]

(* A bucket nobody refers to stands for the next rate.NewLimiter.          *)
Unused(b) == (\A c \in Clients : limiters[c] # b) /\ (\A q \in Handlers : bucket[q] # b)

-----------------------------------------------------------------------------
(* The read-locked lookup.                                                 *)
Lookup(q, c) ==
    /\ stage[q] = "idle"
    /\ client' = [client EXCEPT ![q] = c]
    /\ bucket' = [bucket EXCEPT ![q] = limiters[c]]
    /\ stage' = [stage EXCEPT ![q] = IF limiters[c] # Absent THEN "found" ELSE "missing"]
    /\ UNCHANGED <<limiters, age, tokens, admitted, strayed>>

(* The client was known: only lastAccess is written.                       *)
Touch(q) ==
    /\ stage[q] = "found"
    /\ age' = [age EXCEPT ![client[q]] = 0]
    /\ stage' = [stage EXCEPT ![q] = "taking"]
    /\ UNCHANGED <<limiters, tokens, client, bucket, admitted, strayed>>

(* The double check under the write lock finds a bucket made meanwhile.    *)
Adopt(q) ==
    /\ stage[q] = "missing" /\ limiters[client[q]] # Absent
    /\ bucket' = [bucket EXCEPT ![q] = limiters[client[q]]]
    /\ age' = [age EXCEPT ![client[q]] = 0]
    /\ stage' = [stage EXCEPT ![q] = "taking"]
    /\ UNCHANGED <<limiters, tokens, client, admitted, strayed>>

Make(q, b) ==
    /\ limiters' = [limiters EXCEPT ![client[q]] = b]
    /\ age' = [age EXCEPT ![client[q]] = 0]
    /\ tokens' = [tokens EXCEPT ![b] = Burst]
    /\ bucket' = [bucket EXCEPT ![q] = b]
    /\ stage' = [stage EXCEPT ![q] = "taking"]
    /\ UNCHANGED <<client, admitted, strayed>>

\* No double check: the second of two concurrent first requests overwrites.
CreateUnchecked(q, b) == stage[q] = "missing" /\ Unused(b) /\ Make(q, b)

Create(q, b) == stage[q] = "missing" /\ limiters[client[q]] = Absent /\ Unused(b) /\ Make(q, b)

Served(q) == /\ stage' = [stage EXCEPT ![q] = "idle"]
             /\ bucket' = [bucket EXCEPT ![q] = Absent]
             /\ UNCHANGED <<limiters, age, client>>

(* limiter.Allow()                                                         *)
Allow(q) ==
    LET c == client[q]
        b == bucket[q]
    IN  /\ stage[q] = "taking" /\ tokens[b] > 0
        /\ tokens' = [tokens EXCEPT ![b] = @ - 1]
        /\ admitted' = [admitted EXCEPT ![c] = @ + 1]
        /\ strayed' = [strayed EXCEPT ![c] = @ \/ limiters[c] # b]
        /\ Served(q)

Reject(q) ==
    /\ stage[q] = "taking" /\ tokens[bucket[q]] = 0
    /\ Served(q)
    /\ UNCHANGED <<tokens, admitted, strayed>>

-----------------------------------------------------------------------------
Stale(c) == age[c] # Absent /\ age[c] > MaxAge

(* Both entries of every client not seen for maxAge go, in one section.    *)
CleanupOldLimiters ==
    /\ \E c \in Clients : Stale(c)
    /\ limiters' = [c \in Clients |-> IF Stale(c) THEN Absent ELSE limiters[c]]
    /\ age' = [c \in Clients |-> IF Stale(c) THEN Absent ELSE age[c]]
    /\ strayed' = [c \in Clients |-> strayed[c] \/ (Stale(c) /\ admitted[c] > 0)]
    /\ UNCHANGED <<tokens, stage, client, bucket, admitted>>

Older(a) == IF a = Absent \/ a = MaxAge + 1 THEN a ELSE a + 1

Refill(n) == IF n + Rate > Burst THEN Burst ELSE n + Rate

Tick == /\ age' = [c \in Clients |-> Older(age[c])]
        /\ tokens' = [b \in Buckets |-> Refill(tokens[b])]
        /\ admitted' = [c \in Clients |-> 0]
        /\ strayed' = [c \in Clients |-> FALSE]
        /\ UNCHANGED <<limiters, stage, client, bucket>>

Serve(q) == \/ Touch(q) \/ Adopt(q)
            \/ \E b \in Buckets : Create(q, b)
            \/ Allow(q) \/ Reject(q)

LimiterNext ==
    \/ \E q \in Handlers : Serve(q) \/ \E c \in Clients : Lookup(q, c)
    \/ CleanupOldLimiters
    \/ Tick

LimiterSpec == LimiterInit /\ [][LimiterNext]_limiterVars

-----------------------------------------------------------------------------
(* A bucket in the map always has its client's time beside it, also while  *)
(* cleanup and requests interleave: no bucket can escape the cleanup.      *)
BucketsAreTracked == \A c \in Clients : limiters[c] # Absent => age[c] # Absent

(* Within one time unit a client gets no more than the burst, however many *)
(* of its requests arrive at once and race to create its bucket, unless    *)
(* the cleanup drops, under one of them or behind it, the bucket it used.  *)
WithinBurst == \A c \in Clients : strayed[c] \/ admitted[c] <= Burst

(* A client has one bucket at a time, bounded and within the cleanup's     *)
(* reach.                                                                  *)
ClientsAreLimited == BucketsAreTracked /\ WithinBurst
=============================================================================

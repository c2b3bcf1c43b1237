---------------------------- MODULE MDS3Registry ----------------------------
(***************************************************************************)
(* The FIDO MDS3 registry (pkg/registry/fidomds3): one signed blob, held   *)
(* in memory and kept on disk for the next start.  The constructor, the    *)
(* ticker and Refresh run the same refresh, without a lock around it; the  *)
(* process may crash between any two of its steps.                         *)
(*                                                                         *)
(* A blob is its serial number; Bad is one that does not verify.  A blob   *)
(* that verified lapses with the certificate it is signed by, those        *)
(* published first before the others, and verifies no more, on disk or     *)
(* fetched again.                                                          *)
(***************************************************************************)
EXTENDS Naturals

CONSTANTS Bad, Nothing,
          Models,        \* AAGUIDs
          Acceptable,    \* Acceptable[b]: the models whose status in blob b is acceptable
          MaxBlob        \* bound: the blobs published after the first

ASSUME MDS3Assumption ==
    /\ MaxBlob \in Nat /\ Acceptable \in [0 .. MaxBlob -> SUBSET Models]
    /\ Bad \notin Nat /\ Nothing \notin Nat /\ Bad # Nothing

Refreshers == {"new", "ticker", "refresh"}

VARIABLES blob,      \* what the service serves
          oldest,    \* the blobs before this one have lapsed
          process,   \* down, starting, up, or refused: New returned an error
          entries,   \* the blob in memory, or Nothing
          healthy,
          file,      \* the blob in the cache file, or Nothing, or Bad when torn
          work,      \* work[w]: the refresh w is in: [pc, raw]
          persisted  \* history: a blob was written to the cache file

mds3Vars == <<blob, oldest, process, entries, healthy, file, work, persisted>>

Verifies(b) == b \notin {Bad, Nothing} /\ b >= oldest

NoWork == [pc |-> "idle", raw |-> Nothing]

MDS3Init ==
    /\ blob = 0 /\ oldest = 0 /\ process = "down"
    /\ entries = Nothing /\ healthy = FALSE /\ file = Nothing
    /\ work = [w \in Refreshers |-> NoWork]
    /\ persisted = FALSE

-----------------------------------------------------------------------------
(* New: the cache file, verified like a live blob, then a live refresh.    *)
New ==
    /\ process \in {"down", "refused"}
    /\ process' = "starting"
    /\ entries' = IF Verifies(file) THEN file ELSE Nothing
    /\ healthy' = (entries' # Nothing)
    /\ work' = [work EXCEPT !["new"].pc = "fetch"]
    /\ UNCHANGED <<blob, oldest, file, persisted>>

(* Where a refresh ends: New comes up on what the file had if it failed.   *)
Ended(w, ok) ==
    /\ work' = [work EXCEPT ![w] = NoWork]
    /\ process' = IF w # "new" THEN process ELSE IF ok \/ entries # Nothing THEN "up" ELSE "refused"

RefreshStarts(w) ==
    /\ process = "up" /\ w # "new" /\ work[w].pc = "idle"
    /\ work' = [work EXCEPT ![w].pc = "fetch"]
    /\ UNCHANGED <<blob, oldest, process, entries, healthy, file, persisted>>

fetchRaw(w) ==
    /\ work[w].pc = "fetch"
    /\ \E raw \in {blob, Bad} : work' = [work EXCEPT ![w] = [pc |-> "decode", raw |-> raw]]
    /\ UNCHANGED <<blob, oldest, process, entries, healthy, file, persisted>>

FetchFails(w) ==
    /\ work[w].pc = "fetch"
    /\ healthy' = (w = "new" /\ entries # Nothing)
    /\ Ended(w, FALSE)
    /\ UNCHANGED <<blob, oldest, entries, file, persisted>>

decodeAndIndex(w) ==
    /\ work[w].pc = "decode" /\ Verifies(work[w].raw)
    /\ entries' = work[w].raw /\ healthy' = TRUE
    /\ work' = [work EXCEPT ![w].pc = "write"]
    /\ UNCHANGED <<blob, oldest, process, file, persisted>>

(* What was served before is left in place.                                *)
DecodeFails(w) ==
    /\ work[w].pc = "decode" /\ ~Verifies(work[w].raw)
    /\ healthy' = (w = "new" /\ entries # Nothing)
    /\ Ended(w, FALSE)
    /\ UNCHANGED <<blob, oldest, entries, file, persisted>>

\* The cache file itself is written, not a temporary one.
WriteTempInPlace(w) ==
    /\ work[w].pc = "write"
    /\ work' = [work EXCEPT ![w].pc = "rename"]
    /\ file' = Bad
    /\ UNCHANGED <<blob, oldest, process, entries, healthy, persisted>>

(* saveToDisk: a temporary file, renamed when it is complete.  A failure   *)
(* is only logged.                                                         *)
WriteTemp(w) ==
    /\ work[w].pc = "write"
    /\ work' = [work EXCEPT ![w].pc = "rename"]
    /\ UNCHANGED <<blob, oldest, process, entries, healthy, file, persisted>>

Rename(w) ==
    /\ work[w].pc = "rename"
    /\ file' = work[w].raw /\ persisted' = TRUE
    /\ Ended(w, TRUE)
    /\ UNCHANGED <<blob, oldest, entries, healthy>>

SaveFails(w) ==
    /\ work[w].pc \in {"write", "rename"}
    /\ Ended(w, TRUE)
    /\ UNCHANGED <<blob, oldest, entries, healthy, file, persisted>>

-----------------------------------------------------------------------------
Crash ==
    /\ process \in {"starting", "up"}
    /\ process' = "down" /\ entries' = Nothing /\ healthy' = FALSE
    /\ work' = [w \in Refreshers |-> NoWork]
    /\ UNCHANGED <<blob, oldest, file, persisted>>

Publish ==
    /\ blob < MaxBlob
    /\ blob' = blob + 1
    /\ UNCHANGED <<oldest, process, entries, healthy, file, work, persisted>>

Lapse ==
    /\ oldest <= blob
    /\ oldest' = oldest + 1
    /\ UNCHANGED <<blob, process, entries, healthy, file, work, persisted>>

MDS3Next == \/ New \/ Crash \/ Publish \/ Lapse
            \/ \E w \in Refreshers :
                  \/ RefreshStarts(w) \/ fetchRaw(w) \/ FetchFails(w)
                  \/ decodeAndIndex(w) \/ DecodeFails(w)
                  \/ WriteTemp(w) \/ Rename(w) \/ SaveFails(w)

-----------------------------------------------------------------------------
(* Evaluate: the policy's lists, first the allowed, then the blocked, the   *)
(* status of the model, and the chain, which leads to the roots of the     *)
(* model or not.                                                           *)
checkAAGUIDPolicy(m, allowed, blocked) ==
    IF allowed # {} THEN m \in allowed ELSE m \notin blocked

AttestationEvaluate(m, allowed, blocked, chain) ==
    /\ entries # Nothing /\ m \in Models
    /\ checkAAGUIDPolicy(m, allowed, blocked)
    /\ m \in Acceptable[entries] /\ chain

(* Once a blob has reached the disk a start is refused only if that blob   *)
(* has lapsed, crashes in the middle of a later save included (saveToDisk: *)
(* "a crash mid-write can never leave a truncated/corrupt cache file");    *)
(* and a process that is up answers by one of the blobs published,         *)
(* whatever refreshes have failed and whatever has lapsed (refresh: a      *)
(* failure leaves the index in place).                                     *)
ServesOnceLoaded ==
    /\ persisted /\ process = "refused" => file \in 0 .. blob /\ file < oldest
    /\ process = "up" => \E b \in 0 .. blob : \A m \in Models :
          AttestationEvaluate(m, {}, {}, TRUE) <=> m \in Acceptable[b]
=============================================================================

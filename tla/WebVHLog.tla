------------------------------ MODULE WebVHLog ------------------------------
(***************************************************************************)
(* The DID log of did:webvh (pkg/registry/didwebvh): what processDIDLog    *)
(* accepts.  A log is a sequence of entries                                *)
(*    [versionId, versionTime, parameters, state, proof]                   *)
(* and the loop checks them one after the other, so a log is accepted when *)
(* it is not empty and every entry passes.                                 *)
(*                                                                         *)
(* A hash is the term it was computed from, which no two contents share; a *)
(* key stands for its own hash; a proof is the key it verifies with, or    *)
(* None.  The parameters nothing checks (method, witness, watchers,        *)
(* portable, ttl) are left out.                                            *)
(***************************************************************************)
EXTENDS Integers, Sequences

CONSTANTS None,
          Placeholder   \* the string {SCID}

NoParameters == [scid |-> None, updateKeys |-> {}, deactivated |-> FALSE]

(* mergeParameters: an empty value keeps the active one; deactivated is    *)
(* never taken back.  The merged nextKeyHashes is read nowhere.            *)
mergeParameters(active, new) ==
    [scid        |-> IF new.scid # None THEN new.scid ELSE active.scid,
     updateKeys  |-> IF new.updateKeys # {} THEN new.updateKeys ELSE active.updateKeys,
     deactivated |-> new.deactivated \/ active.deactivated]

(* currentParams after entry i.                                            *)
ActiveParameters(log) ==
    LET active[i \in 0 .. Len(log)] ==
            IF i = 0 THEN NoParameters
            ELSE mergeParameters(active[i - 1], log[i].parameters)
    IN active

(* The entry without its proof and version: what every hash covers.        *)
Content(entry) == [versionTime |-> entry.versionTime, parameters |-> entry.parameters,
                   state |-> entry.state]

(* The hash verifyEntryHash computes: versionId replaced by the previous.  *)
EntryHash(entry, prevVersionID) == [content |-> Content(entry), versionId |-> prevVersionID]

(* The SCID verifySCID computes: every occurrence of the SCID, and the     *)
(* versionId, replaced by the placeholder.                                 *)
SCIDOf(entry) ==
    LET blank(s) == IF s = entry.parameters.scid THEN Placeholder ELSE s
    IN [versionTime |-> entry.versionTime,
        parameters  |-> [entry.parameters EXCEPT !.scid = Placeholder],
        state       |-> [entry.state EXCEPT !.scid = blank(@)]]

verifySCID(entry) == entry.parameters.scid = SCIDOf(entry)

(* The first entry follows its SCID, a later one the entry before it.      *)
PrevVersionID(log, i) == IF i = 1 THEN log[1].parameters.scid ELSE log[i - 1].versionId

\* A hash over the entry alone.
verifyEntryHashUnchained(entry, prevVersionID) ==
    entry.versionId.hash.content = Content(entry)

verifyEntryHash(entry, prevVersionID) ==
    entry.versionId.hash = EntryHash(entry, prevVersionID)

(* verifyProof and findPublicKey: the first proof, by a key of the         *)
(* parameters that already hold this entry's own updateKeys.               *)
verifyProof(entry, params) == entry.proof # None /\ entry.proof \in params.updateKeys

\* An entry that keeps the active keys passes.
verifyPreRotationIfGiven(entry, prevParams) ==
    prevParams.nextKeyHashes # {} =>
        entry.parameters.updateKeys \subseteq prevParams.nextKeyHashes

verifyPreRotation(entry, prevParams) ==
    prevParams.nextKeyHashes # {} =>
        /\ entry.parameters.updateKeys # {}
        /\ entry.parameters.updateKeys \subseteq prevParams.nextKeyHashes

validateVersionTime(log, i, now) ==
    /\ log[i].versionTime <= now + 1
    /\ i > 1 => log[i].versionTime > log[i - 1].versionTime

(* One turn of the loop of processDIDLog.                                  *)
EntryAccepted(log, i, expectedSCID, now) ==
    LET entry == log[i]
        params == ActiveParameters(log)[i]
    IN /\ entry.versionId.number = i
       /\ i = 1 => params.scid # None /\ params.scid = expectedSCID /\ verifySCID(entry)
       /\ verifyEntryHash(entry, PrevVersionID(log, i))
       /\ verifyProof(entry, params)
       /\ i > 1 => verifyPreRotation(entry, log[i - 1].parameters)
       /\ validateVersionTime(log, i, now)

processDIDLog(log, expectedSCID, now) ==
    /\ log # <<>>
    /\ \A i \in 1 .. Len(log) : EntryAccepted(log, i, expectedSCID, now)
    /\ log[Len(log)].state.scid = expectedSCID

Deactivated(log) == ActiveParameters(log)[Len(log)].deactivated
=============================================================================

-------------------------- MODULE RegistriesProofs --------------------------
(***************************************************************************)
(* What the registries that run side by side keep up, for any constants:   *)
(* FIDO MDS3 across crashes, the snapshot of the eMRTD registry under two  *)
(* reloaders and the paths to a signer it accepts, the certificate lists   *)
(* of the mdoc registries, the history and the keys of DID documents and   *)
(* did:webvh logs, the base58 spelling of did:key identifiers, and the     *)
(* chain cache of the OpenID Federation registry.                          *)
(***************************************************************************)
EXTENDS Registries, FiniteSetTheorems, WellFoundedInduction, NaturalsInduction, SequenceTheorems, TLAPS

allVars == <<didVars, fedVars, emrtdVars, mds3Vars, listVars>>

-----------------------------------------------------------------------------
(* FIDO MDS3.  The file is never torn, and what is in memory, on disk or   *)
(* about to be written has been published; a blob once persisted stays on  *)
(* disk, and a start that finds one that has not lapsed has something to   *)
(* serve.                                                                  *)
Work == [pc : {"idle", "fetch", "decode", "write", "rename"}, raw : Nat \cup {Bad, Nothing}]

MDS3Type ==
    /\ blob \in 0 .. MaxBlob
    /\ oldest \in Nat
    /\ process \in {"down", "starting", "up", "refused"}
    /\ entries \in 0 .. blob \cup {Nothing}
    /\ file \in 0 .. blob \cup {Nothing}
    /\ work \in [Refreshers -> Work]

WorkInv(w) ==
    /\ work[w].pc = "decode" => work[w].raw \in 0 .. blob \cup {Bad}
    /\ work[w].pc \in {"write", "rename"} => work[w].raw \in 0 .. blob /\ entries # Nothing
    /\ work[w].pc # "idle" => process = IF w = "new" THEN "starting" ELSE "up"

ServingInv ==
    /\ process = "up" => entries # Nothing
    /\ persisted => file # Nothing
    /\ persisted /\ process = "starting" /\ entries = Nothing => file < oldest
    /\ persisted /\ process = "refused" => file < oldest

MDS3Inv == MDS3Type /\ ServingInv /\ \A w \in Refreshers : WorkInv(w)

LEMMA MDS3Start == MDS3Init => MDS3Inv
  BY MDS3Assumption
  DEF MDS3Init, MDS3Inv, MDS3Type, ServingInv, WorkInv, NoWork, Work, Refreshers

LEMMA MDS3Step == MDS3Inv /\ [MDS3Next]_mds3Vars => MDS3Inv'
<1> SUFFICES ASSUME MDS3Inv, [MDS3Next]_mds3Vars PROVE MDS3Inv'
  OBVIOUS
<1> USE MDS3Assumption DEF MDS3Inv, MDS3Type, ServingInv, WorkInv, Work
<1>1. CASE New
  BY <1>1 DEF New, Verifies, Refreshers
<1>2. CASE Crash
  BY <1>2 DEF Crash, NoWork
<1>3. CASE Publish
  BY <1>3 DEF Publish
<1>4. ASSUME NEW w \in Refreshers, RefreshStarts(w) PROVE MDS3Inv'
  BY <1>4 DEF RefreshStarts
<1>5. ASSUME NEW w \in Refreshers, fetchRaw(w) PROVE MDS3Inv'
  BY <1>5 DEF fetchRaw
<1>6. ASSUME NEW w \in Refreshers, FetchFails(w) PROVE MDS3Inv'
  BY <1>6 DEF FetchFails, Ended, NoWork
<1>7. ASSUME NEW w \in Refreshers, decodeAndIndex(w) PROVE MDS3Inv'
  BY <1>7 DEF decodeAndIndex, Verifies
<1>8. ASSUME NEW w \in Refreshers, DecodeFails(w) PROVE MDS3Inv'
  BY <1>8 DEF DecodeFails, Ended, NoWork
<1>9. ASSUME NEW w \in Refreshers, WriteTemp(w) PROVE MDS3Inv'
  BY <1>9 DEF WriteTemp
<1>10. ASSUME NEW w \in Refreshers, Rename(w) PROVE MDS3Inv'
  BY <1>10 DEF Rename, Ended, NoWork
<1>11. ASSUME NEW w \in Refreshers, SaveFails(w) PROVE MDS3Inv'
  BY <1>11 DEF SaveFails, Ended, NoWork
<1>12. CASE Lapse
  BY <1>12 DEF Lapse
<1>13. CASE UNCHANGED mds3Vars
  BY <1>13 DEF mds3Vars
<1> QED
  BY <1>1, <1>2, <1>3, <1>4, <1>5, <1>6, <1>7, <1>8, <1>9, <1>10, <1>11, <1>12, <1>13 DEF MDS3Next

LEMMA MDS3Serves == MDS3Inv => ServesOnceLoaded
<1> SUFFICES ASSUME MDS3Inv PROVE ServesOnceLoaded
  OBVIOUS
<1>1. process = "up" => entries \in 0 .. blob
  BY DEF MDS3Inv, MDS3Type, ServingInv
<1>2. ASSUME process = "up", NEW m \in Models
      PROVE  AttestationEvaluate(m, {}, {}, TRUE) <=> m \in Acceptable[entries]
  BY <1>1, <1>2 DEF AttestationEvaluate, checkAAGUIDPolicy, MDS3Inv, ServingInv
<1>3. persisted /\ process = "refused" => file \in 0 .. blob /\ file < oldest
  BY DEF MDS3Inv, MDS3Type, ServingInv
<1> QED BY <1>1, <1>2, <1>3 DEF ServesOnceLoaded, MDS3Inv, ServingInv

(* A step of the whole is one of FIDO MDS3, or leaves it alone.            *)
LEMMA MDS3InNext == [Next]_allVars => [MDS3Next]_mds3Vars
  BY DEF Next, allVars

(* Whatever crashes, fails or is published, and in whatever order the two  *)
(* refreshes of the registry write, a start fails after a blob has been    *)
(* saved only if the saved one has lapsed, and a process that is up        *)
(* answers by a published blob                                             *)
(* (New, saveToDisk, decodeAndIndex).                                      *)
THEOREM StartsOnceSaved == Spec => []ServesOnceLoaded
<1>1. Init => MDS3Inv
  BY MDS3Start DEF Init
<1> QED BY <1>1, MDS3Step, MDS3InNext, MDS3Serves, PTL DEF Spec, allVars

-----------------------------------------------------------------------------
(* eMRTD.  One reload is under way at a time, and what it has read is no   *)
(* older than the snapshot it will replace.                                *)
ReloadInv ==
    /\ edits \in Nat
    /\ snap.edits \in 0 .. edits
    /\ job = [w \in Reloaders |-> job[w]]
    /\ \A w \in Reloaders :
          /\ "pc" \in DOMAIN job[w]
          /\ job[w].pc = "crls" => job[w].edits \in snap.edits .. edits
          /\ job[w].pc # "idle" => \A v \in Reloaders \ {w} : job[v].pc = "idle"

LEMMA ReloadStart == EmrtdInit => ReloadInv
  BY DEF EmrtdInit, ReloadInv, NoJob, NoSnapshot

LEMMA ReloadStep == ReloadInv /\ [EmrtdNext]_emrtdVars => ReloadInv'
<1> SUFFICES ASSUME ReloadInv, [EmrtdNext]_emrtdVars PROVE ReloadInv'
  OBVIOUS
<1>1. ASSUME NEW w \in Reloaders, Lock(w) PROVE ReloadInv'
  <2>1. /\ job' = [job EXCEPT ![w].pc = "anchors"]
        /\ UNCHANGED <<edits, snap>>
        /\ \A v \in Reloaders : job[v].pc = "idle"
    BY <1>1 DEF Lock
  <2>2. /\ job'[w] = [job[w] EXCEPT !.pc = "anchors"]
        /\ \A v \in Reloaders \ {w} : job'[v] = job[v]
        /\ job' = [v \in Reloaders |-> job'[v]]
    BY <2>1 DEF ReloadInv
  <2>3. "pc" \in DOMAIN job'[w] /\ job'[w].pc = "anchors"
    BY <2>2 DEF ReloadInv
  <2> QED BY <2>1, <2>2, <2>3 DEF ReloadInv
<1>2. ASSUME NEW w \in Reloaders, ReadAnchors(w) PROVE ReloadInv'
  <2>1. job[w].pc = "anchors" /\ UNCHANGED <<edits, snap>>
    BY <1>2 DEF ReadAnchors
  <2>2. PICK j : /\ job' = [job EXCEPT ![w] = j]
                 /\ "pc" \in DOMAIN j
                 /\ j.pc = "crls" => j.edits = edits
    BY <1>2 DEF ReadAnchors, Ends, NoJob
  <2>3. /\ job'[w] = j
        /\ \A v \in Reloaders \ {w} : job'[v] = job[v] /\ job[v].pc = "idle"
        /\ job' = [v \in Reloaders |-> job'[v]]
    BY <2>1, <2>2 DEF ReloadInv
  <2> QED BY <2>1, <2>2, <2>3 DEF ReloadInv
<1>3. ASSUME NEW w \in Reloaders, ReadCRLs(w) PROVE ReloadInv'
  <2>1. /\ job[w].pc = "crls"
        /\ UNCHANGED edits
        /\ snap'.edits \in {snap.edits, job[w].edits}
        /\ job' = [job EXCEPT ![w] = NoJob]
    BY <1>3 DEF ReadCRLs, Ends
  <2>2. /\ job'[w] = NoJob
        /\ \A v \in Reloaders \ {w} : job'[v] = job[v] /\ job[v].pc = "idle"
        /\ job' = [v \in Reloaders |-> job'[v]]
    BY <2>1 DEF ReloadInv
  <2>3. "pc" \in DOMAIN NoJob /\ NoJob.pc = "idle"
    BY DEF NoJob
  <2> QED BY <2>1, <2>2, <2>3 DEF ReloadInv
<1>4. CASE StartWatching \/ Poll \/ Fire
  BY <1>4 DEF StartWatching, Poll, Fire, ReloadInv
<1>5. CASE Restart
  BY <1>5 DEF Restart, NoSnapshot, ReloadInv
<1>6. ASSUME NEW t \in Trees, Edit(t) \/ ReplaceAncestor(t) PROVE ReloadInv'
  BY <1>6 DEF Edit, ReplaceAncestor, ReloadInv
<1>7. CASE UNCHANGED emrtdVars
  BY <1>7 DEF emrtdVars, ReloadInv
<1> QED
  BY <1>1, <1>2, <1>3, <1>4, <1>5, <1>6, <1>7 DEF EmrtdNext, Reload

LEMMA ReloadForward ==
    ReloadInv /\ [EmrtdNext]_emrtdVars => [loop # "down" => snap'.edits >= snap.edits]_emrtdVars
<1> SUFFICES ASSUME ReloadInv, EmrtdNext, loop # "down" PROVE snap'.edits >= snap.edits
  OBVIOUS
<1>1. ASSUME UNCHANGED snap PROVE snap'.edits >= snap.edits
  BY <1>1 DEF ReloadInv
<1>2. ASSUME NEW w \in Reloaders, ReadCRLs(w) PROVE snap'.edits >= snap.edits
  BY <1>1, <1>2 DEF ReadCRLs, ReloadInv
<1> QED
  BY <1>1, <1>2
  DEF EmrtdNext, Reload, Lock, ReadAnchors, StartWatching, Poll, Fire, Restart, Edit, ReplaceAncestor

LEMMA EmrtdInNext == [Next]_allVars => [EmrtdNext]_emrtdVars
  BY DEF Next, allVars

(* However edits of the tree, the watch loop and calls of Refresh          *)
(* interleave, no snapshot is put over one that was read later (reload).   *)
THEOREM ReloadsGoForward == Spec => SnapshotNeverGoesBack
<1>1. Init => ReloadInv
  BY ReloadStart DEF Init
<1> QED
  BY <1>1, ReloadStep, EmrtdInNext, ReloadForward, PTL DEF Spec, allVars, SnapshotNeverGoesBack

-----------------------------------------------------------------------------
(* did:webvh.  What is served and what was accepted are sequences, and the *)
(* hashes of a log accepted earlier are chained.                           *)
IsSequence(s) == \E S : s \in Seq(S)

Chained(s) ==
    \A i \in 1 .. Len(s) : Log!verifyEntryHash(s[i], Log!PrevVersionID(s, i))

LogInv == IsSequence(log) /\ IsSequence(past) /\ Chained(past)

LEMMA Smallest ==
    ASSUME NEW T \in SUBSET Nat, T # {}
    PROVE  \E m \in T : \A n \in T : ~(n < m)
<1> DEFINE R == {p \in Nat \X Nat : p[1] < p[2]}
<1>1. IsWellFoundedOn(R, Nat)
  BY NatLessThanWellFounded DEF OpToRel
<1>2. PICK m \in T : \A n \in T : <<n, m>> \notin R
  <2> HIDE DEF R
  <2> QED BY <1>1, WFMin
<1> QED BY <1>2

LEMMA Grows ==
    ASSUME NEW s, IsSequence(s), NEW e
    PROVE  IsSequence(Append(s, e))
<1>1. PICK S : s \in Seq(S)
  BY DEF IsSequence
<1>2. s \in Seq(S \cup {e})
  BY <1>1
<1>3. Append(s, e) \in Seq(S \cup {e})
  BY <1>2
<1> QED BY <1>3 DEF IsSequence

LEMMA Appended ==
    ASSUME NEW q, IsSequence(q), NEW e
    PROVE  /\ IsSequence(Append(q, e)) /\ Len(Append(q, e)) = Len(q) + 1
           /\ Append(q, e)[Len(q) + 1] = e
           /\ \A i \in 1 .. Len(q) : Append(q, e)[i] = q[i]
           /\ e \in Range(Append(q, e)) /\ Last(Append(q, e)) = e
<1>1. PICK S : q \in Seq(S) /\ e \in S
  <2>1. PICK S : q \in Seq(S)
    BY DEF IsSequence
  <2>2. q \in Seq(S \cup {e})
    BY <2>1
  <2> QED BY <2>2
<1>2. Append(q, e) \in Seq(S) /\ Len(Append(q, e)) = Len(q) + 1 /\ Append(q, e)[Len(q) + 1] = e
  BY <1>1
<1>3. \A i \in 1 .. Len(q) : Append(q, e)[i] = q[i]
  BY <1>1
<1>4. Len(q) + 1 \in DOMAIN Append(q, e)
  BY <1>1, <1>2
<1> QED BY <1>2, <1>3, <1>4 DEF IsSequence, Range, Last

LEMMA Shrinks ==
    ASSUME NEW s, IsSequence(s), s # <<>>
    PROVE  IsSequence(Front(s))
<1>1. PICK S : s \in Seq(S)
  BY DEF IsSequence
<1>2. Front(s) \in Seq(S)
  BY <1>1 DEF Front
<1> QED BY <1>2 DEF IsSequence

(* An entry of a chained log determines the entry before it.               *)
LEMMA SamePredecessor ==
    ASSUME NEW a, NEW b, IsSequence(a), IsSequence(b), Chained(a), Chained(b),
           NEW i \in 1 .. Len(a), i \in 1 .. Len(b), a[i].versionId = b[i].versionId
    PROVE  /\ Log!Content(a[i]) = Log!Content(b[i])
           /\ i > 1 => a[i - 1].versionId = b[i - 1].versionId
<1>1. Len(a) \in Nat /\ Len(b) \in Nat
  BY DEF IsSequence
<1>2. /\ a[i].versionId.hash = Log!EntryHash(a[i], Log!PrevVersionID(a, i))
      /\ b[i].versionId.hash = Log!EntryHash(b[i], Log!PrevVersionID(b, i))
  BY DEF Chained, Log!verifyEntryHash
<1>3. /\ Log!Content(a[i]) = Log!Content(b[i])
      /\ Log!PrevVersionID(a, i) = Log!PrevVersionID(b, i)
  BY <1>2 DEF Log!EntryHash
<1> QED BY <1>1, <1>3 DEF Log!PrevVersionID

LEMMA SameHistory ==
    ASSUME NEW a, NEW b, IsSequence(a), IsSequence(b), Chained(a), Chained(b),
           NEW i \in 1 .. Len(a), i \in 1 .. Len(b), a[i].versionId = b[i].versionId
    PROVE  \A j \in 1 .. i : Log!Content(a[j]) = Log!Content(b[j])
<1>1. Len(a) \in Nat /\ Len(b) \in Nat
  BY DEF IsSequence
<1> DEFINE T == {k \in 0 .. i - 1 : a[i - k].versionId # b[i - k].versionId}
<1>2. T = {}
  <2> SUFFICES ASSUME T # {} PROVE FALSE
    OBVIOUS
  <2>1. T \in SUBSET Nat
    BY <1>1
  <2>2. PICK m \in T : \A n \in T : ~(n < m)
    <3> HIDE DEF T
    <3> QED BY <2>1, Smallest
  <2>3. m > 0
    BY <1>1
  <2>4. a[i - (m - 1)].versionId = b[i - (m - 1)].versionId
    <3>1. m - 1 \in 0 .. i - 1 /\ m - 1 < m
      BY <1>1, <2>3
    <3>2. m - 1 \notin T
      <4> HIDE DEF T
      <4> QED BY <2>2, <3>1
    <3> QED BY <3>1, <3>2
  <2>5. i - (m - 1) \in 1 .. Len(a) /\ i - (m - 1) \in 1 .. Len(b) /\ i - (m - 1) > 1
    BY <1>1, <2>3
  <2>6. a[(i - (m - 1)) - 1].versionId = b[(i - (m - 1)) - 1].versionId
    BY <2>4, <2>5, SamePredecessor
  <2> QED BY <1>1, <2>3, <2>6
<1>3. ASSUME NEW j \in 1 .. i PROVE Log!Content(a[j]) = Log!Content(b[j])
  <2>1. i - j \in 0 .. i - 1 /\ i - (i - j) = j
    BY <1>1
  <2>2. a[j].versionId = b[j].versionId
    BY <1>2, <2>1
  <2>3. j \in 1 .. Len(a) /\ j \in 1 .. Len(b)
    BY <1>1
  <2> QED BY <2>2, <2>3, SamePredecessor
<1> QED BY <1>3

LEMMA AcceptedChained ==
    ASSUME NEW s, NEW scid, NEW now, Log!processDIDLog(s, scid, now)
    PROVE  Chained(s)
  BY DEF Log!processDIDLog, Log!EntryAccepted, Chained

LEMMA LogStart == DIDInit => LogInv
<1>1. IsSequence(<<>>) /\ IsSequence(<<Genesis>>)
  <2>1. <<>> \in Seq({Genesis}) /\ <<Genesis>> \in Seq({Genesis})
    OBVIOUS
  <2> QED BY <2>1 DEF IsSequence
<1>2. Chained(<<>>)
  BY DEF Chained
<1> QED BY <1>1, <1>2 DEF DIDInit, LogInv

LEMMA LogStep == LogInv /\ [DIDNext]_didVars => LogInv'
<1> SUFFICES ASSUME LogInv, [DIDNext]_didVars PROVE LogInv'
  OBVIOUS
<1>1. ASSUME UNCHANGED <<log, past>> PROVE LogInv'
  BY <1>1 DEF LogInv, IsSequence, Chained
<1>2. ASSUME NEW c, PublishEntry(c) PROVE LogInv'
  <2>1. PICK e : log' = Append(log, e)
    BY <1>2 DEF PublishEntry
  <2>2. UNCHANGED past
    BY <1>2 DEF PublishEntry
  <2> QED BY <2>1, <2>2, Grows DEF LogInv, Chained, IsSequence
<1>3. ASSUME NEW c, PublishGenesis(c) PROVE LogInv'
  <2>1. PICK e : log' = <<e>>
    BY <1>3 DEF PublishGenesis
  <2>2. log' \in Seq({e}) /\ UNCHANGED past
    BY <1>3, <2>1 DEF PublishGenesis
  <2> QED BY <2>2 DEF LogInv, Chained, IsSequence
<1>4. CASE WithdrawEntry
  <2>1. log # <<>> /\ log' = Front(log) /\ UNCHANGED past
    BY <1>4 DEF WithdrawEntry
  <2> QED BY <2>1, Shrinks DEF LogInv, Chained, IsSequence
<1>5. ASSUME NEW r, WebVH(r) PROVE LogInv'
  <2>1. /\ UNCHANGED log
        /\ \/ past' = past
           \/ past' = log /\ Log!processDIDLog(log, r.subject.did.scid, Now)
    <3> DEFINE A == Log!processDIDLog(log, r.subject.did.scid, Now)
    <3>1. UNCHANGED log /\ past' \in IF A THEN {log, past} ELSE {past}
      BY <1>5 DEF WebVH, worldVars
    <3> HIDE DEF A
    <3>2. past' = past \/ (past' = log /\ A)
      BY <3>1
    <3> QED BY <3>1, <3>2 DEF A
  <2>2. CASE UNCHANGED past
    BY <1>1, <2>1, <2>2
  <2>3. CASE past' = log /\ Log!processDIDLog(log, r.subject.did.scid, Now)
    <3>1. Chained(log)
      BY <2>3, AcceptedChained
    <3> QED BY <2>1, <2>3, <3>1 DEF LogInv, Chained, IsSequence
  <2> QED BY <2>1, <2>2, <2>3
<1>6. CASE Deliver
  BY <1>1, <1>6 DEF Deliver, worldVars
<1>7. CASE PublishDocument
  BY <1>1, <1>7 DEF PublishDocument
<1>8. ASSUME NEW r, Web(r) \/ Local(r) \/ CallJwks(r) PROVE LogInv'
  BY <1>1, <1>8 DEF Web, Local, CallJwks, worldVars
<1>9. CASE FetchDirect \/ FetchDiscovery \/ FetchIndirect
  BY <1>1, <1>9 DEF FetchDirect, FetchDiscovery, FetchIndirect, Conclude, GoOn, worldVars
<1>10. CASE ChangeEndpoints
  BY <1>1, <1>10 DEF ChangeEndpoints
<1>11. CASE UNCHANGED didVars
  BY <1>1, <1>11 DEF didVars, worldVars
<1> QED
  BY <1>2, <1>3, <1>4, <1>5, <1>6, <1>7, <1>8, <1>9, <1>10, <1>11 DEF DIDNext

LEMMA LogHistory == LogInv => SameVersionSameHistory
<1> SUFFICES ASSUME LogInv, Accepted,
                    NEW i \in DOMAIN past \cap DOMAIN log,
                    past[i].versionId = log[i].versionId
             PROVE  \A j \in 1 .. i : Log!Content(past[j]) = Log!Content(log[j])
  BY DEF SameVersionSameHistory
<1>1. Chained(log)
  BY AcceptedChained DEF Accepted
<1>2. i \in 1 .. Len(past) /\ i \in 1 .. Len(log)
  BY DEF LogInv, IsSequence
<1> QED BY <1>1, <1>2, SameHistory DEF LogInv

LEMMA DIDInNext == [Next]_allVars => [DIDNext]_didVars
  BY DEF Next, allVars

(* However a host extends, withdraws and restarts its log, two accepted    *)
(* logs that share a version share everything before it: a version stands  *)
(* for its whole history (verifyEntryHash).                                *)
THEOREM HistoriesAreFixed == Spec => []SameVersionSameHistory
<1>1. Init => LogInv
  BY LogStart DEF Init
<1> QED BY <1>1, LogStep, DIDInNext, LogHistory, PTL DEF Spec, allVars

-----------------------------------------------------------------------------
(* currentParams: the loop's recursion is well defined.                    *)
LEMMA ActiveStep ==
    ASSUME NEW s, Len(s) \in Nat
    PROVE  /\ Log!ActiveParameters(s)[0] = Log!NoParameters
           /\ \A i \in 1 .. Len(s) :
                 Log!ActiveParameters(s)[i] =
                    Log!mergeParameters(Log!ActiveParameters(s)[i - 1], s[i].parameters)
<1> DEFINE Rec(g, n) == g = [i \in 0 .. n |-> IF i = 0 THEN Log!NoParameters
                                ELSE Log!mergeParameters(g[i - 1], s[i].parameters)]
           T == {n \in Nat : ~\E g : Rec(g, n)}
<1>1. T = {}
  <2> SUFFICES ASSUME T # {} PROVE FALSE
    OBVIOUS
  <2>1. PICK m \in T : \A n \in T : ~(n < m)
    <3> HIDE DEF T
    <3> T \in SUBSET Nat
      BY DEF T
    <3> QED BY Smallest
  <2>2. CASE m = 0
    <3> DEFINE g == [i \in 0 .. 0 |-> Log!NoParameters]
    <3>1. Rec(g, 0)
      OBVIOUS
    <3> QED BY <2>1, <2>2, <3>1
  <2>3. CASE m > 0
    <3>1. m - 1 \in Nat /\ m - 1 < m /\ m - 1 \notin T
      <4>1. m - 1 \in Nat /\ m - 1 < m
        BY <2>3
      <4> HIDE DEF T
      <4> QED BY <2>1, <4>1
    <3>2. PICK f : Rec(f, m - 1)
      BY <3>1
    <3> DEFINE g == [i \in 0 .. m |-> IF i < m THEN f[i]
                        ELSE Log!mergeParameters(f[m - 1], s[m].parameters)]
    <3>3. ASSUME NEW i \in 0 .. m
          PROVE  g[i] = IF i = 0 THEN Log!NoParameters
                        ELSE Log!mergeParameters(g[i - 1], s[i].parameters)
      <4>1. CASE i < m
        <5>1. i \in 0 .. m - 1 /\ (i # 0 => i - 1 \in 0 .. m - 1 /\ i - 1 < m)
          BY <4>1
        <5> QED BY <3>2, <4>1, <5>1
      <4>2. CASE i = m
        BY <3>1, <4>2, <2>3
      <4> QED BY <4>1, <4>2
    <3>4. Rec(g, m)
      BY <3>3
    <3> HIDE DEF g
    <3> QED BY <3>4
  <2> QED BY <2>2, <2>3
<1>2. PICK g : Rec(g, Len(s))
  BY <1>1
<1>3. Rec(Log!ActiveParameters(s), Len(s))
  BY <1>2 DEF Log!ActiveParameters
<1> DEFINE a == Log!ActiveParameters(s)
<1> HIDE DEF a
<1>4. Rec(a, Len(s))
  BY <1>3 DEF a
<1>5. a[0] = Log!NoParameters
  BY <1>4
<1>6. \A i \in 1 .. Len(s) : a[i] = Log!mergeParameters(a[i - 1], s[i].parameters)
  BY <1>4
<1> QED BY <1>5, <1>6 DEF a

-----------------------------------------------------------------------------
LEMMA MergedDeactivation ==
    ASSUME NEW active, NEW new, NEW merged, merged = Log!mergeParameters(active, new)
    PROVE  merged.deactivated <=> (new.deactivated \/ active.deactivated)
<1>1. Log!mergeParameters(active, new).deactivated <=> (new.deactivated \/ active.deactivated)
  BY Zenon DEF Log!mergeParameters
<1> QED BY <1>1

(* Equal parameters up to a version leave it active or deactivated alike.  *)
LEMMA SameDeactivation ==
    ASSUME NEW a, NEW b, Len(a) \in Nat, Len(b) \in Nat, NEW n \in Nat,
           n <= Len(a), n <= Len(b),
           \A j \in 1 .. n : a[j].parameters = b[j].parameters
    PROVE  Log!ActiveParameters(a)[n].deactivated <=> Log!ActiveParameters(b)[n].deactivated
<1> DEFINE p == Log!ActiveParameters(a)
           q == Log!ActiveParameters(b)
           T == {k \in 0 .. n : ~(p[k].deactivated <=> q[k].deactivated)}
<1>1. /\ p[0] = Log!NoParameters /\ q[0] = Log!NoParameters
      /\ \A i \in 1 .. n : /\ p[i] = Log!mergeParameters(p[i - 1], a[i].parameters)
                           /\ q[i] = Log!mergeParameters(q[i - 1], b[i].parameters)
  <2>1. \A i \in 1 .. n : i \in 1 .. Len(a) /\ i \in 1 .. Len(b)
    OBVIOUS
  <2> QED BY <2>1, ActiveStep
<1> HIDE DEF p, q
<1>2. T = {}
  <2> SUFFICES ASSUME T # {} PROVE FALSE
    OBVIOUS
  <2>1. PICK m \in T : \A k \in T : ~(k < m)
    <3>1. T \in SUBSET Nat
      OBVIOUS
    <3> HIDE DEF T
    <3> QED BY <3>1, Smallest
  <2>2. m \in 1 .. n
    BY <1>1
  <2>3. m - 1 \in 0 .. n /\ m - 1 < m
    BY <2>2
  <2>4. p[m - 1].deactivated <=> q[m - 1].deactivated
    <3>1. m - 1 \notin T
      <4> HIDE DEF T
      <4> QED BY <2>1, <2>3
    <3> QED BY <2>3, <3>1
  <2>5. p[m].deactivated <=> q[m].deactivated
    <3>1. /\ p[m].deactivated <=> (a[m].parameters.deactivated \/ p[m - 1].deactivated)
          /\ q[m].deactivated <=> (b[m].parameters.deactivated \/ q[m - 1].deactivated)
      <4>1. /\ p[m] = Log!mergeParameters(p[m - 1], a[m].parameters)
            /\ q[m] = Log!mergeParameters(q[m - 1], b[m].parameters)
        BY <1>1, <2>2
      <4> QED BY <4>1, MergedDeactivation
    <3>2. a[m].parameters = b[m].parameters
      BY <2>2
    <3> QED BY <2>4, <3>1, <3>2, Zenon
  <2> QED BY <2>5
<1>3. n \in 0 .. n
  OBVIOUS
<1> QED BY <1>2, <1>3 DEF p, q

(* mergeParameters never takes deactivated back.                           *)
LEMMA StaysDeactivated ==
    ASSUME NEW s, Len(s) \in Nat, NEW n \in 0 .. Len(s),
           Log!ActiveParameters(s)[n].deactivated
    PROVE  Log!Deactivated(s)
<1> DEFINE p == Log!ActiveParameters(s)
           T == {k \in Nat : n + k <= Len(s) /\ ~p[n + k].deactivated}
<1>1. \A i \in 1 .. Len(s) : p[i] = Log!mergeParameters(p[i - 1], s[i].parameters)
  BY ActiveStep
<1>0. p[n].deactivated
  OBVIOUS
<1> HIDE DEF p
<1>2. T = {}
  <2> SUFFICES ASSUME T # {} PROVE FALSE
    OBVIOUS
  <2>1. PICK m \in T : \A k \in T : ~(k < m)
    <3>1. T \in SUBSET Nat
      OBVIOUS
    <3> HIDE DEF T
    <3> QED BY <3>1, Smallest
  <2>2. m > 0
    BY <1>0
  <2>3. m - 1 \in Nat /\ m - 1 < m /\ n + (m - 1) <= Len(s) /\ n + m \in 1 .. Len(s)
    BY <2>2
  <2>4. m - 1 \notin T
    <3> HIDE DEF T
    <3> QED BY <2>1, <2>3
  <2>5. p[(n + m) - 1].deactivated
    <3>1. (n + m) - 1 = n + (m - 1)
      BY <2>3
    <3> QED BY <2>3, <2>4, <3>1
  <2>6. p[n + m] = Log!mergeParameters(p[(n + m) - 1], s[n + m].parameters)
    BY <1>1, <2>3
  <2>7. p[n + m].deactivated <=> (s[n + m].parameters.deactivated \/ p[(n + m) - 1].deactivated)
    BY <2>6, MergedDeactivation
  <2>8. p[n + m].deactivated
    BY <2>5, <2>7, Zenon
  <2> QED BY <2>8
<1>3. Len(s) - n \in Nat /\ n + (Len(s) - n) = Len(s)
  OBVIOUS
<1>4. p[n + (Len(s) - n)].deactivated
  <2>1. n + (Len(s) - n) <= Len(s)
    BY <1>3
  <2> QED BY <1>2, <1>3, <2>1, Zenon
<1> QED BY <1>3, <1>4, Zenon DEF p, Log!Deactivated

(* Only did:webvh has a log, only did:jwks fetches in steps, and what was  *)
(* approved is the log that is served.                                     *)
HolderInv ==
    /\ LogInv
    /\ method # "webvh" => log = <<>> /\ past = <<>>
    /\ pc # "idle" => method = "jwks"
    /\ method = "webvh" /\ answer # None /\ answer.decision =>
          /\ Log!processDIDLog(log, answer.req.subject.did.scid, Now)
          /\ ~Log!Deactivated(log)

LEMMA HolderStep == HolderInv /\ [DIDNext]_didVars => HolderInv'
<1> SUFFICES ASSUME HolderInv, [DIDNext]_didVars PROVE HolderInv'
  OBVIOUS
<1>0. LogInv'
  BY LogStep DEF HolderInv
<1>1. CASE Deliver
  BY <1>0, <1>1 DEF HolderInv, Deliver, worldVars
<1>2. ASSUME NEW c, PublishEntry(c) \/ PublishGenesis(c) PROVE HolderInv'
  BY <1>0, <1>2 DEF HolderInv, PublishEntry, PublishGenesis, jwksVars
<1>3. CASE WithdrawEntry \/ PublishDocument
  BY <1>0, <1>3 DEF HolderInv, WithdrawEntry, PublishDocument, jwksVars
<1>4. ASSUME NEW r, WebVH(r) PROVE HolderInv'
  <2>1. /\ method = "webvh" /\ UNCHANGED <<method, log, pc>>
        /\ answer' = EvaluateWebVH(r, r.subject.did.scid)
    BY <1>4 DEF WebVH, worldVars, jwksVars
  <2> DEFINE e == EvaluateWebVH(r, r.subject.did.scid)
  <2>2. e.req = r
    BY DEF EvaluateWebVH, Answered, Deny
  <2>3. e.decision => /\ Log!processDIDLog(log, r.subject.did.scid, Now)
                      /\ ~Log!Deactivated(log)
    BY DEF EvaluateWebVH, Deny
  <2>4. (e.decision => /\ Log!processDIDLog(log, e.req.subject.did.scid, Now)
                       /\ ~Log!Deactivated(log))
    BY <2>2, <2>3
  <2> HIDE DEF e
  <2>5. answer' = e
    BY <2>1 DEF e
  <2>6. (answer'.decision => /\ Log!processDIDLog(log', answer'.req.subject.did.scid, Now)
                             /\ ~Log!Deactivated(log'))
    BY <2>1, <2>4, <2>5
  <2> QED BY <1>0, <2>1, <2>6 DEF HolderInv
<1>5. ASSUME NEW r, Web(r) \/ Local(r) \/ CallJwks(r) PROVE HolderInv'
  BY <1>0, <1>5 DEF HolderInv, Web, Local, CallJwks, worldVars, jwksVars
<1>6. CASE FetchDirect \/ FetchDiscovery \/ FetchIndirect
  <2>1. method = "jwks"
    BY <1>6 DEF HolderInv, FetchDirect, FetchDiscovery, FetchIndirect
  <2>2. UNCHANGED <<method, log, past>>
    BY <1>6 DEF FetchDirect, FetchDiscovery, FetchIndirect, Conclude, GoOn, worldVars
  <2> QED BY <1>0, <2>1, <2>2 DEF HolderInv
<1>7. CASE ChangeEndpoints
  BY <1>0, <1>7 DEF HolderInv, ChangeEndpoints
<1>8. CASE UNCHANGED didVars
  BY <1>0, <1>8 DEF HolderInv, didVars, worldVars, jwksVars
<1> QED
  BY <1>1, <1>2, <1>3, <1>4, <1>5, <1>6, <1>7, <1>8 DEF DIDNext

LEMMA HoldersSign == HolderInv => CommittedKeysSign
<1> SUFFICES ASSUME HolderInv, answer # None, answer.decision,
                    NEW i \in 2 .. Len(log), log[i - 1].parameters.nextKeyHashes # {}
             PROVE  log[i].proof \in log[i - 1].parameters.nextKeyHashes
  BY DEF CommittedKeysSign
<1>1. Len(log) \in Nat
  BY DEF HolderInv, LogInv, IsSequence
<1>2. CASE method # "webvh"
  BY <1>2 DEF HolderInv
<1>3. CASE method = "webvh"
  <2>1. i \in 1 .. Len(log) /\ i > 1
    BY <1>1
  <2>2. Log!EntryAccepted(log, i, answer.req.subject.did.scid, Now)
    BY <1>3, <2>1 DEF HolderInv, Log!processDIDLog
  <2> DEFINE p == Log!ActiveParameters(log)
  <2>3. p[i] = Log!mergeParameters(p[i - 1], log[i].parameters)
    BY <1>1, <2>1, ActiveStep
  <2>4. log[i].proof \in p[i].updateKeys
    BY <2>2 DEF Log!EntryAccepted, Log!verifyProof
  <2> HIDE DEF p
  <2>5. /\ log[i].parameters.updateKeys # {}
        /\ log[i].parameters.updateKeys \subseteq log[i - 1].parameters.nextKeyHashes
    BY <2>1, <2>2 DEF Log!EntryAccepted, Log!verifyPreRotation
  <2>6. p[i].updateKeys = log[i].parameters.updateKeys
    BY <2>3, <2>5 DEF Log!mergeParameters
  <2> QED BY <2>4, <2>5, <2>6
<1> QED BY <1>2, <1>3

LEMMA HoldersDeactivate == HolderInv => DeactivationIsFinal
<1> SUFFICES ASSUME HolderInv, answer # None, answer.decision, past # <<>>,
                    Len(past) <= Len(log), Log!Deactivated(past),
                    log[Len(past)].versionId = Last(past).versionId
             PROVE  FALSE
  BY DEF DeactivationIsFinal
<1>1. Len(log) \in Nat /\ Len(past) \in Nat /\ Len(past) > 0
  BY DEF HolderInv, LogInv, IsSequence
<1>2. method = "webvh"
  BY DEF HolderInv
<1>3. Chained(log) /\ ~Log!Deactivated(log)
  BY <1>2, AcceptedChained DEF HolderInv
<1> DEFINE n == Len(past)
<1>4. n \in 1 .. Len(past) /\ n \in 1 .. Len(log) /\ past[n].versionId = log[n].versionId
  BY <1>1 DEF Last
<1>5. \A j \in 1 .. n : Log!Content(past[j]) = Log!Content(log[j])
  BY <1>3, <1>4, SameHistory DEF HolderInv, LogInv
<1>6. \A j \in 1 .. n : past[j].parameters = log[j].parameters
  BY <1>5 DEF Log!Content
<1>7. Log!ActiveParameters(past)[n].deactivated <=> Log!ActiveParameters(log)[n].deactivated
  BY <1>1, <1>6, SameDeactivation
<1>8. Log!ActiveParameters(log)[n].deactivated
  BY <1>7 DEF Log!Deactivated
<1> QED BY <1>1, <1>3, <1>8, StaysDeactivated

(* An approved did:webvh log was signed, wherever a version committed to   *)
(* keys, by one of these, and continues no log that was deactivated        *)
(* (processDIDLog, verifyPreRotation, mergeParameters).                    *)
THEOREM HoldersWriteTheLog == Spec => []ApprovedLogsAreTheHolders
<1>1. Init => HolderInv
  BY LogStart DEF Init, DIDInit, HolderInv
<1>2. HolderInv => ApprovedLogsAreTheHolders
  BY HoldersSign, HoldersDeactivate DEF ApprovedLogsAreTheHolders
<1> QED BY <1>1, <1>2, HolderStep, DIDInNext, PTL DEF Spec, allVars

-----------------------------------------------------------------------------
(* eMRTD.  A path of links: every certificate after the document signer is *)
(* a link that can issue and has issued the one before it.                 *)
LinkPath(q, dsc, extras) ==
    /\ IsSequence(q) /\ Len(q) >= 1 /\ q[1] = dsc
    /\ \A i \in 2 .. Len(q) : q[i] \in extras /\ canIssue(q[i]) /\ issuedBy(q[i - 1], q[i])

LEMMA LinkAppended ==
    ASSUME NEW q, NEW dsc, NEW extras, LinkPath(q, dsc, extras),
           NEW e \in extras, Extends(q, e), canIssue(e)
    PROVE  LinkPath(Append(q, e), dsc, extras)
<1>1. Len(q) \in Nat /\ Len(q) >= 1 /\ IsSequence(q)
  BY DEF LinkPath, IsSequence
<1> DEFINE p == Append(q, e)
<1>3. IsSequence(p) /\ Len(p) = Len(q) + 1 /\ p[Len(q) + 1] = e /\ \A i \in 1 .. Len(q) : p[i] = q[i]
  BY <1>1, Appended
<1>4. issuedBy(q[Len(q)], e)
  BY DEF Extends, Last
<1> HIDE DEF p
<1>5. ASSUME NEW i \in 2 .. Len(p)
      PROVE  p[i] \in extras /\ canIssue(p[i]) /\ issuedBy(p[i - 1], p[i])
  <2>1. CASE i <= Len(q)
    BY <1>1, <1>3, <2>1 DEF LinkPath
  <2>2. CASE i = Len(q) + 1
    <3>1. i - 1 = Len(q) /\ Len(q) \in 1 .. Len(q)
      BY <1>1, <2>2
    <3> QED BY <1>3, <1>4, <2>2, <3>1
  <2> QED BY <1>1, <1>3, <2>1, <2>2
<1>6. p[1] = dsc /\ Len(p) >= 1
  BY <1>1, <1>3 DEF LinkPath
<1>8. LinkPath(p, dsc, extras)
  BY <1>3, <1>5, <1>6 DEF LinkPath
<1> QED BY <1>8 DEF p

(* buildPaths: a path ends in an anchor that issued its last link.         *)
LongerBy(q, extras, anchors) ==
    {Append(q, e) : e \in {e \in extras \ anchors : Extends(q, e) /\ canIssue(e)}}

Longer(P, extras, anchors) == P \cup UNION {LongerBy(q, extras, anchors) : q \in P}

LinkPaths(P, dsc, extras) == \A q \in P : LinkPath(q, dsc, extras)

LEMMA LongerPaths ==
    ASSUME NEW P, NEW dsc, NEW extras, NEW anchors, LinkPaths(P, dsc, extras)
    PROVE  LinkPaths(Longer(P, extras, anchors), dsc, extras)
<1> SUFFICES ASSUME NEW p \in Longer(P, extras, anchors) PROVE LinkPath(p, dsc, extras)
  BY DEF LinkPaths
<1>1. CASE p \in P
  BY <1>1 DEF LinkPaths
<1>2. CASE p \notin P
  <2>1. PICK q \in P : p \in LongerBy(q, extras, anchors)
    BY <1>2 DEF Longer
  <2>2. PICK e \in extras : Extends(q, e) /\ canIssue(e) /\ p = Append(q, e)
    BY <2>1 DEF LongerBy
  <2> QED BY <2>1, <2>2, LinkAppended DEF LinkPaths
<1> QED BY <1>1, <1>2

LEMMA PathsAreIssued ==
    ASSUME NEW dsc, NEW extras, NEW anchors, NEW p \in buildPaths(dsc, extras, anchors)
    PROVE  \E q, a : /\ p = Append(q, a) /\ a \in anchors
                     /\ Extends(q, a) /\ LinkPath(q, dsc, extras)
<1> DEFINE Step(P) == Longer(P, extras, anchors)
           AtAnchor(q) == {Append(q, a) : a \in {a \in anchors : Extends(q, a)}}
           Rec(g) == g = [n \in 1 .. maxChainLen - 1 |->
                            IF n = 1 THEN {<<dsc>>} ELSE Step(g[n - 1])]
           g1 == {<<dsc>>}
           g2 == Step(g1)
           g3 == Step(g2)
           g4 == Step(g3)
<1>1. LinkPaths(g1, dsc, extras)
  <2>1. <<dsc>> \in Seq({dsc}) /\ Len(<<dsc>>) = 1 /\ <<dsc>>[1] = dsc
    OBVIOUS
  <2>2. IsSequence(<<dsc>>)
    BY <2>1 DEF IsSequence
  <2>3. LinkPath(<<dsc>>, dsc, extras)
    BY <2>1, <2>2 DEF LinkPath
  <2> QED BY <2>3 DEF LinkPaths
<1>2. LinkPaths(g4, dsc, extras)
  BY <1>1, LongerPaths
<1>3. \E g : Rec(g)
  <2> DEFINE g == [n \in 1 .. maxChainLen - 1 |->
                     IF n = 1 THEN g1 ELSE IF n = 2 THEN g2 ELSE IF n = 3 THEN g3 ELSE g4]
  <2>1. Rec(g)
    BY DEF maxChainLen
  <2> QED BY <2>1
<1>4. PICK w : Rec(w) /\ p \in UNION {AtAnchor(q) : q \in w[maxChainLen - 1]}
  BY <1>3 DEF buildPaths, Longer, LongerBy
<1>5. w[maxChainLen - 1] = g4
  <2> HIDE DEF Step
  <2>1. \A n \in 1 .. 4 : w[n] = IF n = 1 THEN {<<dsc>>} ELSE Step(w[n - 1])
    <3>1. maxChainLen - 1 = 4
      BY DEF maxChainLen
    <3>2. w = [n \in 1 .. 4 |-> IF n = 1 THEN {<<dsc>>} ELSE Step(w[n - 1])]
      BY <1>4, <3>1
    <3> QED BY <3>2
  <2>2. w[1] = g1
    BY <2>1
  <2>3. w[2] = g2
    BY <2>1, <2>2
  <2>4. w[3] = g3
    BY <2>1, <2>3
  <2>5. w[4] = g4
    BY <2>1, <2>4
  <2> QED BY <2>5 DEF maxChainLen
<1> HIDE DEF g4
<1>6. PICK q \in w[maxChainLen - 1] : p \in AtAnchor(q)
  BY <1>4
<1>7. PICK a \in anchors : Extends(q, a) /\ p = Append(q, a)
  BY <1>6
<1>8. LinkPath(q, dsc, extras)
  BY <1>2, <1>5, <1>6 DEF LinkPaths
<1> QED BY <1>7, <1>8

(* Along a checked path every signing key is vouched for, from the anchor  *)
(* down: it lies in every set that has the keys of the valid anchors and   *)
(* is closed under valid links.                                            *)
LEMMA SignersOnPath ==
    ASSUME NEW q, NEW a, NEW dsc, NEW extras, NEW anchors, NEW t, NEW S,
           a \in anchors, Extends(q, a), LinkPath(q, dsc, extras),
           ValidAt(a, t), \A i \in 1 .. Len(q) : ValidAt(q[i], t),
           \A c \in anchors : ValidAt(c, t) => c.key \in S,
           \A e \in extras : canIssue(e) /\ ValidAt(e, t) /\ ~e.weak /\ e.signer \in S => e.key \in S
    PROVE  dsc.signer \in S
<1> DEFINE n == Len(q)
           T == {k \in 0 .. n - 1 : q[n - k].signer \notin S}
<1>1. n \in Nat /\ n >= 1 /\ q[1] = dsc
  BY DEF LinkPath, IsSequence
<1>2. issuedBy(q[n], a)
  BY DEF Extends, Last
<1>3. \A i \in 2 .. n : q[i] \in extras /\ canIssue(q[i]) /\ issuedBy(q[i - 1], q[i])
  BY DEF LinkPath
<1>4. \A i \in 1 .. n : ~q[i].weak
  <2> SUFFICES ASSUME NEW i \in 1 .. n PROVE ~q[i].weak
    OBVIOUS
  <2>1. CASE i = n
    BY <1>2, <2>1 DEF issuedBy
  <2>2. CASE i < n
    <3>1. i + 1 \in 2 .. n /\ (i + 1) - 1 = i
      BY <1>1, <2>2
    <3>2. issuedBy(q[i], q[i + 1])
      BY <1>3, <3>1
    <3> QED BY <3>2 DEF issuedBy
  <2> QED BY <1>1, <2>1, <2>2
<1>5. T = {}
  <2> SUFFICES ASSUME T # {} PROVE FALSE
    OBVIOUS
  <2>1. PICK m \in T : \A k \in T : ~(k < m)
    <3>1. T \in SUBSET Nat
      BY <1>1
    <3> HIDE DEF T
    <3> QED BY <3>1, Smallest
  <2>2. q[n].signer \in S
    BY <1>2 DEF issuedBy
  <2>3. m \in 1 .. n - 1
    BY <1>1, <2>2
  <2>4. m - 1 \in 0 .. n - 1 /\ m - 1 < m /\ n - (m - 1) \in 2 .. n
        /\ (n - (m - 1)) - 1 = n - m
    BY <1>1, <2>3
  <2>5. m - 1 \notin T
    <3> HIDE DEF T
    <3> QED BY <2>1, <2>4
  <2> DEFINE link == q[n - (m - 1)]
  <2>6. link.signer \in S
    BY <2>4, <2>5
  <2>7. /\ link \in extras /\ canIssue(link) /\ issuedBy(q[n - m], link)
        /\ ValidAt(link, t) /\ ~link.weak
    <3>1. n - (m - 1) \in 1 .. n
      BY <1>1, <2>4
    <3> QED BY <1>3, <1>4, <2>4, <3>1
  <2>8. link.key \in S
    BY <2>6, <2>7
  <2>9. q[n - m].signer \in S
    BY <2>7, <2>8 DEF issuedBy
  <2> QED BY <2>1, <2>9
<1>6. n - 1 \in 0 .. n - 1 /\ n - (n - 1) = 1
  BY <1>1
<1>7. q[n - (n - 1)].signer \in S
  BY <1>5, <1>6
<1> QED BY <1>1, <1>6, <1>7

LEMMA AllowedIsVouched ==
    ASSUME NEW r, NEW anchors, NEW crls, "allow" \in evaluate(r, anchors, crls)
    PROVE  VouchedSigner(r, anchors, crls)
<1> DEFINE mine == anchors[r.country]
<1>1. PICK p \in buildPaths(r.dsc, r.extras, mine) : checkPath(p, r, crls[r.country], mine)
  BY DEF evaluate
<1>2. PICK q, a : /\ p = Append(q, a) /\ a \in mine
                  /\ Extends(q, a) /\ LinkPath(q, r.dsc, r.extras)
  BY <1>1, PathsAreIssued
<1>3. Len(q) \in Nat /\ Len(q) >= 1 /\ q[1] = r.dsc
  BY <1>2 DEF LinkPath, IsSequence
<1>4. /\ Len(p) = Len(q) + 1 /\ p[Len(q) + 1] = a
      /\ \A i \in 1 .. Len(q) : p[i] = q[i]
  BY <1>2, Appended DEF LinkPath
<1>5. /\ \A i \in 1 .. Len(p) : ValidAt(p[i], r.at)
      /\ ~p[1].ca
      /\ \A i \in 1 .. Len(p) - 1 : ~isRevoked(p[i], p[i + 1], crls[r.country], mine)
  BY <1>1 DEF checkPath
<1>6. p[1] = r.dsc /\ ValidAt(r.dsc, r.at) /\ ~r.dsc.ca
  <2>1. p[1] = r.dsc /\ 1 \in 1 .. Len(p)
    BY <1>3, <1>4
  <2> QED BY <1>5, <2>1
<1>7. ValidAt(a, r.at) /\ \A i \in 1 .. Len(q) : ValidAt(q[i], r.at)
  <2>1. Len(q) + 1 \in 1 .. Len(p) /\ \A i \in 1 .. Len(q) : i \in 1 .. Len(p)
    BY <1>3, <1>4
  <2> QED BY <1>4, <1>5, <2>1
<1>8. r.dsc.signer \in VouchedKeys(r.extras, mine, r.at)
  <2> DEFINE all == {c.key : c \in r.extras \cup mine}
  <2>1. ASSUME NEW S,
               \A c \in mine : ValidAt(c, r.at) => c.key \in S,
               \A e \in r.extras : canIssue(e) /\ ValidAt(e, r.at) /\ ~e.weak /\ e.signer \in S => e.key \in S
        PROVE  r.dsc.signer \in S
    BY <1>2, <1>7, <2>1, SignersOnPath
  <2>2. r.dsc.signer \in all
    BY <2>1
  <2> QED BY <2>1, <2>2 DEF VouchedKeys
<1>9. ASSUME NEW crl \in crls[r.country], ~crl.weak,
             NEW c \in mine, c.subject = crl.issuer, c.subject = r.dsc.issuer, crl.signer = c.key
      PROVE  r.dsc.serial \notin crl.serials
  <2>1. ~isRevoked(r.dsc, p[2], crls[r.country], mine)
    <3>1. 1 \in 1 .. Len(p) - 1 /\ 1 + 1 = 2
      BY <1>3, <1>4
    <3> QED BY <1>5, <1>6, <3>1
  <2>2. crlAuthentic(crl, p[2], mine) /\ crl.issuer = r.dsc.issuer
    BY <1>9 DEF crlAuthentic
  <2> QED BY <1>9, <2>1, <2>2 DEF isRevoked
<1> QED BY <1>6, <1>8, <1>9 DEF VouchedSigner

(* Whatever is loaded and whatever links a request carries, an approved    *)
(* document signer was valid when it signed, a key the anchors of the      *)
(* state vouch for has signed it, and no CRL of any of them under its      *)
(* issuer's name lists it (evaluate, checkPath, crlAuthentic).             *)
THEOREM ApprovedSignersAreVouchedFor == Spec => []SignersAreVouchedFor
<1>1. SignersAreVouchedFor
  BY AllowedIsVouched DEF SignersAreVouchedFor
<1> QED BY <1>1, PTL

-----------------------------------------------------------------------------
(* Lists of certificates.  A path of x509.Verify: every certificate after  *)
(* the first is a CA of the rest of the chain and its key has signed the   *)
(* one before it.                                                          *)
SignedBy(p, c) ==
    c.ca /\ c.subject = Last(p).issuer /\ c.key = Last(p).signer /\ c \notin Range(p)

CertPath(q, leaf, rest) ==
    /\ IsSequence(q) /\ Len(q) >= 1 /\ q[1] = leaf
    /\ \A i \in 2 .. Len(q) : q[i] \in rest /\ q[i].ca /\ q[i].key = q[i - 1].signer

WidenBy(q, rest) == {Append(q, c) : c \in {c \in rest : SignedBy(q, c)}}

Widen(P, rest) == P \cup UNION {WidenBy(q, rest) : q \in P}

CertPaths(P, leaf, rest) == \A q \in P : CertPath(q, leaf, rest)

LEMMA CertAppended ==
    ASSUME NEW q, NEW leaf, NEW rest, CertPath(q, leaf, rest), NEW e \in rest, SignedBy(q, e)
    PROVE  CertPath(Append(q, e), leaf, rest)
<1>1. Len(q) \in Nat /\ Len(q) >= 1 /\ IsSequence(q)
  BY DEF CertPath, IsSequence
<1> DEFINE p == Append(q, e)
<1>2. IsSequence(p) /\ Len(p) = Len(q) + 1 /\ p[Len(q) + 1] = e /\ \A i \in 1 .. Len(q) : p[i] = q[i]
  BY <1>1, Appended
<1>3. e.ca /\ e.key = q[Len(q)].signer
  BY DEF SignedBy, Last
<1> HIDE DEF p
<1>4. ASSUME NEW i \in 2 .. Len(p)
      PROVE  p[i] \in rest /\ p[i].ca /\ p[i].key = p[i - 1].signer
  <2>1. CASE i <= Len(q)
    BY <1>1, <1>2, <2>1 DEF CertPath
  <2>2. CASE i = Len(q) + 1
    <3>1. i - 1 = Len(q) /\ Len(q) \in 1 .. Len(q)
      BY <1>1, <2>2
    <3> QED BY <1>2, <1>3, <2>2, <3>1
  <2> QED BY <1>1, <1>2, <2>1, <2>2
<1>5. p[1] = leaf /\ Len(p) >= 1
  BY <1>1, <1>2 DEF CertPath
<1>6. CertPath(p, leaf, rest)
  BY <1>2, <1>4, <1>5 DEF CertPath
<1> QED BY <1>6 DEF p

LEMMA WiderPaths ==
    ASSUME NEW P, NEW leaf, NEW rest, CertPaths(P, leaf, rest)
    PROVE  CertPaths(Widen(P, rest), leaf, rest)
<1> SUFFICES ASSUME NEW p \in Widen(P, rest) PROVE CertPath(p, leaf, rest)
  BY DEF CertPaths
<1>1. CASE p \in P
  BY <1>1 DEF CertPaths
<1>2. CASE p \notin P
  <2>1. PICK q \in P : p \in WidenBy(q, rest)
    BY <1>2 DEF Widen
  <2>2. PICK e \in rest : SignedBy(q, e) /\ p = Append(q, e)
    BY <2>1 DEF WidenBy
  <2> QED BY <2>1, <2>2, CertAppended DEF CertPaths
<1> QED BY <1>1, <1>2

(* The search of x509.Verify is well defined, and yields paths only.       *)
LEMMA VerifiedPaths ==
    ASSUME NEW chain, NEW roots, Len(chain) \in Nat, Len(chain) >= 1,
           NEW p \in VerifiedChains(chain, roots)
    PROVE  \/ p = <<chain[1]>> /\ chain[1] \in roots
           \/ \E q, c : /\ p = Append(q, c) /\ c \in roots /\ SignedBy(q, c)
                        /\ CertPath(q, chain[1], Range(Tail(chain)))
<1> DEFINE rest == Range(Tail(chain))
           Base == {<<chain[1]>>}
           Rec(g, n) == g = [k \in 1 .. n |-> IF k = 1 THEN Base ELSE Widen(g[k - 1], rest)]
           T == {n \in Nat : ~\E g : Rec(g, n)}
<1>1. CertPaths(Base, chain[1], rest)
  <2>1. <<chain[1]>> \in Seq({chain[1]}) /\ Len(<<chain[1]>>) = 1 /\ <<chain[1]>>[1] = chain[1]
    OBVIOUS
  <2>2. IsSequence(<<chain[1]>>)
    BY <2>1 DEF IsSequence
  <2>3. CertPath(<<chain[1]>>, chain[1], rest)
    BY <2>1, <2>2 DEF CertPath
  <2> QED BY <2>3 DEF CertPaths
<1>2. T = {}
  <2> HIDE DEF Base, rest
  <2> SUFFICES ASSUME T # {} PROVE FALSE
    OBVIOUS
  <2>1. PICK m \in T : \A n \in T : ~(n < m)
    <3>1. T \in SUBSET Nat
      OBVIOUS
    <3> HIDE DEF T
    <3> QED BY <3>1, Smallest
  <2>2. CASE m = 0
    <3> DEFINE g == [k \in 1 .. 0 |-> Base]
    <3>1. Rec(g, 0)
      OBVIOUS
    <3> QED BY <2>1, <2>2, <3>1
  <2>3. CASE m > 0
    <3>1. m - 1 \in Nat /\ m - 1 < m /\ m - 1 \notin T
      <4>1. m - 1 \in Nat /\ m - 1 < m
        BY <2>3
      <4> HIDE DEF T
      <4> QED BY <2>1, <4>1
    <3>2. PICK f : Rec(f, m - 1)
      BY <3>1
    <3> DEFINE g == [k \in 1 .. m |-> IF k < m THEN f[k]
                       ELSE IF m = 1 THEN Base ELSE Widen(f[m - 1], rest)]
    <3>3. ASSUME NEW k \in 1 .. m
          PROVE  g[k] = IF k = 1 THEN Base ELSE Widen(g[k - 1], rest)
      <4>1. CASE k < m
        <5>1. k \in 1 .. m - 1 /\ (k # 1 => k - 1 \in 1 .. m - 1 /\ k - 1 < m)
          BY <4>1
        <5> QED BY <3>2, <4>1, <5>1
      <4>2. CASE k = m
        BY <3>1, <4>2, <2>3
      <4> QED BY <4>1, <4>2
    <3>4. Rec(g, m)
      BY <3>3
    <3> HIDE DEF g
    <3> QED BY <3>4
  <2> QED BY <2>2, <2>3
<1>3. \E g : Rec(g, Len(chain))
  BY <1>2
<1> DEFINE AtRoot(q) == {Append(q, c) : c \in {c \in roots : SignedBy(q, c)}}
<1>4. PICK w : /\ Rec(w, Len(chain))
               /\ p \in {q \in w[Len(chain)] : q = <<chain[1]>> /\ chain[1] \in roots}
                        \cup UNION {AtRoot(q) : q \in w[Len(chain)]}
  BY <1>3 DEF VerifiedChains, Widen, WidenBy, SignedBy
<1> DEFINE Wrong == {n \in Nat : n >= 1 /\ n <= Len(chain) /\ ~CertPaths(w[n], chain[1], rest)}
<1>5. Wrong = {}
  <2> HIDE DEF Base, rest
  <2>0. \A k \in 1 .. Len(chain) : w[k] = IF k = 1 THEN Base ELSE Widen(w[k - 1], rest)
    BY <1>4
  <2> SUFFICES ASSUME Wrong # {} PROVE FALSE
    OBVIOUS
  <2>1. PICK m \in Wrong : \A n \in Wrong : ~(n < m)
    <3>1. Wrong \in SUBSET Nat
      OBVIOUS
    <3> HIDE DEF Wrong
    <3> QED BY <3>1, Smallest
  <2>2. m \in 1 .. Len(chain) /\ m # 1
    BY <1>1, <2>0
  <2>3. m - 1 \in Nat /\ m - 1 < m /\ m - 1 >= 1 /\ m - 1 <= Len(chain)
    BY <2>2
  <2>4. m - 1 \notin Wrong
    <3> HIDE DEF Wrong
    <3> QED BY <2>1, <2>3
  <2>5. CertPaths(w[m - 1], chain[1], rest)
    BY <2>3, <2>4
  <2> QED BY <2>0, <2>1, <2>2, <2>5, WiderPaths
<1>6. CertPaths(w[Len(chain)], chain[1], rest)
  BY <1>5
<1>7. CASE p = <<chain[1]>> /\ chain[1] \in roots
  BY <1>7
<1>8. CASE p \in UNION {AtRoot(q) : q \in w[Len(chain)]}
  <2>1. PICK q \in w[Len(chain)] : p \in AtRoot(q)
    BY <1>8
  <2>2. PICK c \in roots : SignedBy(q, c) /\ p = Append(q, c)
    BY <2>1
  <2> QED BY <1>6, <2>1, <2>2 DEF CertPaths
<1> QED BY <1>4, <1>7, <1>8

(* Along a verified path every signing key is one the list vouches for,    *)
(* from the root down.                                                     *)
LEMMA SignersVerified ==
    ASSUME NEW q, NEW c, NEW leaf, NEW rest, NEW S, c.key \in S,
           SignedBy(q, c), CertPath(q, leaf, rest),
           \A e \in rest : e.ca /\ e.signer \in S => e.key \in S
    PROVE  leaf.signer \in S
<1> DEFINE n == Len(q)
           T == {k \in 0 .. n - 1 : q[n - k].signer \notin S}
<1>1. n \in Nat /\ n >= 1 /\ q[1] = leaf
  BY DEF CertPath, IsSequence
<1>2. \A i \in 2 .. n : q[i] \in rest /\ q[i].ca /\ q[i].key = q[i - 1].signer
  BY DEF CertPath
<1>3. T = {}
  <2> SUFFICES ASSUME T # {} PROVE FALSE
    OBVIOUS
  <2>1. PICK m \in T : \A k \in T : ~(k < m)
    <3>1. T \in SUBSET Nat
      BY <1>1
    <3> HIDE DEF T
    <3> QED BY <3>1, Smallest
  <2>2. q[n].signer \in S
    BY DEF SignedBy, Last
  <2>3. m \in 1 .. n - 1
    BY <1>1, <2>2
  <2>4. m - 1 \in 0 .. n - 1 /\ m - 1 < m /\ n - (m - 1) \in 2 .. n
        /\ (n - (m - 1)) - 1 = n - m
    BY <1>1, <2>3
  <2>5. m - 1 \notin T
    <3> HIDE DEF T
    <3> QED BY <2>1, <2>4
  <2>6. q[n - (m - 1)].signer \in S
    BY <2>4, <2>5
  <2>7. q[n - (m - 1)].key \in S /\ q[n - (m - 1)].key = q[n - m].signer
    BY <1>2, <2>4, <2>6
  <2> QED BY <2>1, <2>7
<1>4. n - 1 \in 0 .. n - 1 /\ n - (n - 1) = 1
  BY <1>1
<1>5. q[n - (n - 1)].signer \in S
  BY <1>3, <1>4
<1> QED BY <1>1, <1>4, <1>5

(* A verified chain vouches for its first certificate.                     *)
LEMMA VerifiedVouches ==
    ASSUME NEW chain, chain \in Seq(Range(chain)), chain # <<>>,
           NEW roots, NEW trusted, roots \subseteq trusted,
           VerifiedChains(chain, roots) # {}
    PROVE  chain[1] \in roots \/ chain[1].signer \in KeysBelow(chain, trusted)
<1>1. Len(chain) \in Nat /\ Len(chain) >= 1
  OBVIOUS
<1>2. PICK p : p \in VerifiedChains(chain, roots)
  OBVIOUS
<1>3. CASE chain[1] \in roots
  BY <1>3
<1>4. CASE \E q, c : /\ p = Append(q, c) /\ c \in roots /\ SignedBy(q, c)
                     /\ CertPath(q, chain[1], Range(Tail(chain)))
  <2>1. PICK q, c : /\ c \in roots /\ SignedBy(q, c)
                    /\ CertPath(q, chain[1], Range(Tail(chain)))
    BY <1>4
  <2>2. Range(Tail(chain)) \subseteq Range(chain)
    <3>1. Tail(chain) \in Seq(Range(chain))
      BY <1>1
    <3> QED BY <3>1 DEF Range
  <2> DEFINE all == {e.key : e \in Range(chain) \cup trusted}
  <2>3. ASSUME NEW S, {e.key : e \in {e \in trusted : e.ca}} \subseteq S,
               \A e \in Range(chain) : e.ca /\ e.signer \in S => e.key \in S
        PROVE  chain[1].signer \in S
    <3>1. c.key \in S
      BY <2>1, <2>3 DEF SignedBy
    <3> QED BY <2>1, <2>2, <2>3, <3>1, SignersVerified
  <2>4. chain[1].signer \in all
    <3>1. {e.key : e \in {e \in trusted : e.ca}} \subseteq all
      OBVIOUS
    <3>2. \A e \in Range(chain) : e.key \in all
      OBVIOUS
    <3> QED BY <2>3, <3>1, <3>2
  <2> QED BY <2>3, <2>4 DEF KeysBelow
<1> QED BY <1>1, <1>2, <1>3, <1>4, VerifiedPaths

LEMMA LeastIndex ==
    ASSUME NEW I \in SUBSET Nat, I # {}
    PROVE  Min(I) \in I /\ \A i \in I : Min(I) <= i
<1>1. PICK m \in I : \A i \in I : ~(i < m)
  BY Smallest
<1>2. \A i \in I : m <= i
  BY <1>1
<1> QED BY <1>2 DEF Min

(* The entry of the root a path ends at is an entry of the list.           *)
LEMMA RootEntry ==
    ASSUME NEW infos, infos \in Seq(Range(infos)), NEW c \in Certs(infos)
    PROVE  infos[SelectInSeq(infos, LAMBDA e : e.cert = c)].cert = c
<1> DEFINE I == {i \in 1 .. Len(infos) : infos[i].cert = c}
<1>1. I # {} /\ I \in SUBSET Nat
  BY DEF Certs
<1>2. Min(I) \in I
  <2> HIDE DEF I
  <2> QED BY <1>1, LeastIndex
<1>3. SelectInSeq(infos, LAMBDA e : e.cert = c) = Min(I)
  BY <1>1 DEF SelectInSeq
<1> QED BY <1>2, <1>3

LEMMA VerifiedEnds ==
    ASSUME NEW chain, chain \in Seq(Range(chain)), chain # <<>>,
           NEW roots, NEW p \in VerifiedChains(chain, roots)
    PROVE  Last(p) \in roots /\ Last(p) \in Range(p)
<1>1. Len(chain) \in Nat /\ Len(chain) >= 1
  OBVIOUS
<1>2. CASE p = <<chain[1]>> /\ chain[1] \in roots
  <2>1. Len(p) = 1 /\ p[1] = chain[1] /\ 1 \in DOMAIN p
    BY <1>2
  <2> QED BY <1>2, <2>1 DEF Last, Range
<1>3. ASSUME NEW q, NEW c, p = Append(q, c), c \in roots,
             CertPath(q, chain[1], Range(Tail(chain)))
      PROVE  Last(p) \in roots /\ Last(p) \in Range(p)
  BY <1>3, Appended DEF CertPath
<1> QED BY <1>1, <1>2, <1>3, VerifiedPaths

(* What is cached was offered.                                             *)
ListsInv ==
    /\ offer = [l \in Lists |-> offer[l]]
    /\ list = [l \in Lists |-> list[l]]
    /\ \A l \in Lists : /\ offer[l] # NoDocument => offer[l] \in Offers[l]
                        /\ list[l] # NoList => list[l] \in Offers[l]

LEMMA ListsStart == ListsInit => ListsInv
  BY DEF ListsInit, ListsInv

LEMMA ListsStep == ListsInv /\ [ListsNext]_listVars => ListsInv'
<1> SUFFICES ASSUME ListsInv, [ListsNext]_listVars PROVE ListsInv'
  OBVIOUS
<1>1. ASSUME NEW l \in Lists, FetchList(l) PROVE ListsInv'
  BY <1>1 DEF FetchList, ListsInv
<1>2. ASSUME NEW l \in Lists, ClearList(l) PROVE ListsInv'
  BY <1>2 DEF ClearList, ListsInv
<1>3. ASSUME NEW l \in Lists, NEW d \in Offers[l], Offer(l, d) PROVE ListsInv'
  BY <1>3 DEF Offer, ListsInv
<1>4. CASE UNCHANGED listVars
  BY <1>4 DEF listVars, ListsInv
<1> QED BY <1>1, <1>2, <1>3, <1>4 DEF ListsNext

LEMMA ListedDecide == ListsInv => ListedAnchorsDecide
<1> SUFFICES ASSUME ListsInv, NEW l \in Lists, NEW chain \in Presented,
                    NEW t, NEW a, NEW q, Decision(l, chain, t, a, q)
             PROVE  LET infos == list[l].infos
                        listed == chain[1] \in Certs(infos) /\ (KindOf[l] = "rical" => chain[1].ca)
                    IN /\ listed \/ chain[1].signer \in KeysBelow(chain, Certs(infos))
                       /\ KindOf[l] = "rical" =>
                             \A e \in resolveCertificateInfo(chain, infos) :
                                \E p \in RicalChains(chain, infos) : e.cert \in Range(p)
  BY DEF ListedAnchorsDecide
<1> DEFINE infos == list[l].infos
           cas == {c \in Certs(infos) : c.ca}
<1>1. chain \in Seq(Range(chain)) /\ chain # <<>> /\ infos \in Seq(Range(infos))
  <2>1. list[l] # NoList /\ list[l] \in Offers[l]
    BY DEF Decision, ListsInv
  <2> QED BY <2>1, ListsAssumption
<1> HIDE DEF infos
<1>2. CASE KindOf[l] # "rical"
  <2>1. VerifiedChains(chain, Certs(infos)) # {}
    BY <1>2 DEF Decision, VicalEvaluate, IacaEvaluate, infos
  <2>2. chain[1] \in Certs(infos) \/ chain[1].signer \in KeysBelow(chain, Certs(infos))
    BY <1>1, <2>1, VerifiedVouches
  <2> QED BY <1>2, <2>2 DEF infos
<1>3. CASE KindOf[l] = "rical"
  <2>1. resolveCertificateInfo(chain, infos) # {}
    BY <1>3 DEF Decision, RicalEvaluate, infos
  <2>2. RicalChains(chain, infos) # {}
    BY <2>1 DEF resolveCertificateInfo
  <2>3. chain[1] \in cas \/ chain[1].signer \in KeysBelow(chain, Certs(infos))
    <3>1. VerifiedChains(chain, cas) # {} /\ cas \subseteq Certs(infos)
      BY <2>2 DEF RicalChains
    <3> HIDE DEF cas
    <3> QED BY <1>1, <3>1, VerifiedVouches
  <2>4. ASSUME NEW e \in resolveCertificateInfo(chain, infos)
        PROVE  \E p \in RicalChains(chain, infos) : e.cert \in Range(p)
    <3> DEFINE OfRoots == {infos[SelectInSeq(infos, LAMBDA x : x.cert = Last(p))] :
                              p \in RicalChains(chain, infos)}
    <3>1. CASE e \in OfRoots
      <4>1. PICK p \in RicalChains(chain, infos) :
                   e = infos[SelectInSeq(infos, LAMBDA x : x.cert = Last(p))]
        BY <3>1
      <4>2. Last(p) \in Certs(infos) /\ Last(p) \in Range(p)
        BY <1>1, VerifiedEnds DEF RicalChains
      <4> QED BY <1>1, <4>1, <4>2, RootEntry
    <3>2. CASE e \notin OfRoots
      BY <2>2, <2>4, <3>2 DEF resolveCertificateInfo
    <3> QED BY <3>1, <3>2
  <2> QED BY <1>3, <2>3, <2>4 DEF infos
<1> QED BY <1>2, <1>3

LEMMA ListsInNext == [Next]_allVars => [ListsNext]_listVars
  BY DEF Next, allVars

(* Whatever is listed and whatever chain a request carries, an approval    *)
(* leads to the list: to a listed leaf, or by signatures to a listed CA;   *)
(* and the entry that governs a reader is one its path goes through        *)
(* (VerifiedChains, resolveCertificateInfo).                               *)
THEOREM ApprovalsLeadToTheList == Spec => []ListedAnchorsDecide
<1>1. Init => ListsInv
  BY ListsStart DEF Init
<1> QED BY <1>1, ListsStep, ListsInNext, ListedDecide, PTL DEF Spec, allVars

-----------------------------------------------------------------------------
(* Picked keeps the order: its elements come from increasing positions.    *)
Chosen(q, s, I, n) ==
    /\ IsSequence(q) /\ Len(q) <= n
    /\ (\E i \in 1 .. n : i \notin I) => Len(q) < n
    /\ \E at \in [1 .. Len(q) -> 1 .. n] :
          /\ \A j \in 1 .. Len(q) : at[j] \in I /\ q[j] = s[at[j]]
          /\ \A j, k \in 1 .. Len(q) : j < k => at[j] < at[k]

LEMMA ChosenNext ==
    ASSUME NEW q, NEW s, NEW I, NEW n \in Nat, Chosen(q, s, I, n), n + 1 \in I
    PROVE  Chosen(Append(q, s[n + 1]), s, I, n + 1)
<1> DEFINE p == Append(q, s[n + 1])
<1>1. /\ IsSequence(q) /\ Len(q) \in Nat /\ Len(q) <= n
      /\ (\E i \in 1 .. n : i \notin I) => Len(q) < n
  BY DEF Chosen, IsSequence
<1>2. /\ IsSequence(p) /\ Len(p) = Len(q) + 1 /\ p[Len(q) + 1] = s[n + 1]
      /\ \A j \in 1 .. Len(q) : p[j] = q[j]
  BY <1>1, Appended
<1>3. PICK at \in [1 .. Len(q) -> 1 .. n] :
             /\ \A j \in 1 .. Len(q) : at[j] \in I /\ q[j] = s[at[j]]
             /\ \A j, k \in 1 .. Len(q) : j < k => at[j] < at[k]
  BY DEF Chosen
<1> HIDE DEF p
<1> DEFINE to == [j \in 1 .. Len(p) |-> IF j <= Len(q) THEN at[j] ELSE n + 1]
<1>4. \A j \in 1 .. Len(p) : \/ j \in 1 .. Len(q) /\ to[j] = at[j] /\ to[j] \in 1 .. n
                             \/ j = Len(q) + 1 /\ to[j] = n + 1
  <2> SUFFICES ASSUME NEW j \in 1 .. Len(p)
               PROVE  \/ j \in 1 .. Len(q) /\ to[j] = at[j] /\ to[j] \in 1 .. n
                      \/ j = Len(q) + 1 /\ to[j] = n + 1
    OBVIOUS
  <2>1. CASE j <= Len(q)
    <3>1. j \in 1 .. Len(q) /\ to[j] = at[j]
      BY <1>1, <2>1
    <3>2. at[j] \in 1 .. n
      BY <1>3, <3>1
    <3> QED BY <3>1, <3>2
  <2>2. CASE j = Len(q) + 1
    BY <1>1, <2>2
  <2> QED BY <1>1, <1>2, <2>1, <2>2
<1>5. to \in [1 .. Len(p) -> 1 .. n + 1]
  <2>1. \A j \in 1 .. Len(p) : to[j] \in 1 .. n + 1
    BY <1>4
  <2> QED BY <2>1
<1> HIDE DEF to
<1>6. \A j \in 1 .. Len(p) : to[j] \in I /\ p[j] = s[to[j]]
  BY <1>2, <1>3, <1>4
<1>7. \A j, k \in 1 .. Len(p) : j < k => to[j] < to[k]
  <2> SUFFICES ASSUME NEW j \in 1 .. Len(p), NEW k \in 1 .. Len(p), j < k PROVE to[j] < to[k]
    OBVIOUS
  <2>1. CASE k \in 1 .. Len(q)
    <3>1. j \in 1 .. Len(q)
      BY <2>1
    <3>2. to[j] = at[j] /\ to[k] = at[k]
      BY <1>1, <1>4, <2>1, <3>1
    <3> QED BY <1>3, <2>1, <3>1, <3>2
  <2>2. CASE k = Len(q) + 1
    <3>1. j # Len(q) + 1 /\ k \notin 1 .. Len(q)
      BY <1>1, <2>2
    <3>2. to[k] = n + 1 /\ to[j] \in 1 .. n
      BY <1>4, <2>2, <3>1
    <3> QED BY <3>2
  <2> QED BY <1>4, <2>1, <2>2
<1>8. Len(p) <= n + 1 /\ ((\E i \in 1 .. n + 1 : i \notin I) => Len(p) < n + 1)
  <2>1. Len(p) <= n + 1
    BY <1>1, <1>2
  <2>2. ASSUME NEW i \in 1 .. n + 1, i \notin I PROVE Len(p) < n + 1
    <3>1. i \in 1 .. n
      BY <2>2
    <3>2. Len(q) < n
      BY <1>1, <2>2, <3>1
    <3> QED BY <1>1, <1>2, <3>2
  <2> QED BY <2>1, <2>2
<1>9. Chosen(p, s, I, n + 1)
  BY <1>2, <1>5, <1>6, <1>7, <1>8 DEF Chosen
<1> QED BY <1>9 DEF p

LEMMA ChosenStays ==
    ASSUME NEW q, NEW s, NEW I, NEW n \in Nat, Chosen(q, s, I, n), n + 1 \notin I
    PROVE  Chosen(q, s, I, n + 1)
<1>1. /\ IsSequence(q) /\ Len(q) \in Nat /\ Len(q) < n + 1
  BY DEF Chosen, IsSequence
<1>2. PICK at \in [1 .. Len(q) -> 1 .. n] :
             /\ \A j \in 1 .. Len(q) : at[j] \in I /\ q[j] = s[at[j]]
             /\ \A j, k \in 1 .. Len(q) : j < k => at[j] < at[k]
  BY DEF Chosen
<1>3. at \in [1 .. Len(q) -> 1 .. n + 1]
  BY <1>2
<1> QED BY <1>1, <1>2, <1>3 DEF Chosen

LEMMA PickedIsChosen ==
    ASSUME NEW s, IsSequence(s), NEW I
    PROVE  Chosen(Picked(s, I), s, I, Len(s))
<1>0. Len(s) \in Nat
  BY DEF IsSequence
<1> DEFINE Value(g, i) == IF i = 0 THEN <<>>
                          ELSE IF i \in I THEN Append(g[i - 1], s[i]) ELSE g[i - 1]
           Rec(g, n) == g = [i \in 0 .. n |-> Value(g, i)]
           T == {n \in Nat : ~\E g : Rec(g, n) /\ Chosen(g[n], s, I, n)}
<1>1. T = {}
  <2> SUFFICES ASSUME T # {} PROVE FALSE
    OBVIOUS
  <2>1. PICK m \in T : \A n \in T : ~(n < m)
    <3>1. T \in SUBSET Nat
      OBVIOUS
    <3> HIDE DEF T
    <3> QED BY <3>1, Smallest
  <2>2. CASE m = 0
    <3> DEFINE g == [i \in 0 .. 0 |-> <<>>]
    <3>1. Rec(g, 0)
      OBVIOUS
    <3>2. Chosen(<<>>, s, I, 0)
      <4> DEFINE q == <<>>
                 at == [j \in {} |-> s[j]]
      <4>1. q \in Seq({}) /\ Len(q) = 0
        OBVIOUS
      <4>2. at \in [{} -> 1 .. 0]
        OBVIOUS
      <4> HIDE DEF q, at
      <4>3. 1 .. Len(q) = {} /\ IsSequence(q)
        BY <4>1 DEF IsSequence
      <4>4. \E to \in [1 .. Len(q) -> 1 .. 0] :
               /\ \A j \in 1 .. Len(q) : to[j] \in I /\ q[j] = s[to[j]]
               /\ \A j, k \in 1 .. Len(q) : j < k => to[j] < to[k]
        <5>1. at \in [1 .. Len(q) -> 1 .. 0]
          BY <4>2, <4>3, Zenon
        <5> QED BY <4>3, <5>1, Zenon
      <4>5. Len(q) <= 0 /\ ~\E i \in 1 .. 0 : i \notin I
        BY <4>1
      <4>6. Chosen(q, s, I, 0)
        BY <4>3, <4>4, <4>5, Zenon DEF Chosen
      <4> QED BY <4>6 DEF q
    <3>3. g[0] = <<>>
      OBVIOUS
    <3> QED BY <2>1, <2>2, <3>1, <3>2, <3>3
  <2>3. CASE m > 0
    <3>1. m - 1 \in Nat /\ m - 1 < m /\ (m - 1) + 1 = m /\ m - 1 \notin T
      <4>1. m - 1 \in Nat /\ m - 1 < m /\ (m - 1) + 1 = m
        BY <2>3
      <4> HIDE DEF T
      <4> QED BY <2>1, <4>1
    <3>2. PICK f : Rec(f, m - 1) /\ Chosen(f[m - 1], s, I, m - 1)
      BY <3>1
    <3> DEFINE g == [i \in 0 .. m |-> IF i < m THEN f[i] ELSE Value(f, m)]
    <3>3. ASSUME NEW i \in 0 .. m PROVE g[i] = Value(g, i)
      <4>1. CASE i < m
        <5>1. i \in 0 .. m - 1 /\ (i # 0 => i - 1 \in 0 .. m - 1 /\ i - 1 < m)
          BY <4>1
        <5>2. g[i] = f[i] /\ (i # 0 => g[i - 1] = f[i - 1])
          <6>1. i # 0 => i - 1 \in 0 .. m
            BY <5>1
          <6> QED BY <4>1, <5>1, <6>1
        <5>3. f[i] = Value(f, i)
          BY <3>2, <5>1
        <5> HIDE DEF g
        <5> QED BY <5>2, <5>3
      <4>2. CASE i = m
        BY <3>1, <4>2, <2>3
      <4> QED BY <4>1, <4>2
    <3>4. Rec(g, m)
      BY <3>3
    <3>5. g[m] = IF m \in I THEN Append(f[m - 1], s[m]) ELSE f[m - 1]
      BY <2>3
    <3>6. Chosen(g[m], s, I, m)
      <4>1. CASE m \in I
        BY <3>1, <3>2, <3>5, <4>1, ChosenNext
      <4>2. CASE m \notin I
        BY <3>1, <3>2, <3>5, <4>2, ChosenStays
      <4> QED BY <4>1, <4>2
    <3> HIDE DEF g
    <3> QED BY <2>1, <3>4, <3>6
  <2> QED BY <2>2, <2>3
<1>2. PICK u : Rec(u, Len(s)) /\ Chosen(u[Len(s)], s, I, Len(s))
  BY <1>0, <1>1
<1> DEFINE w == CHOOSE g : Rec(g, Len(s))
<1>3. Rec(w, Len(s))
  BY <1>2
<1>4. w = u
  <2> DEFINE D == {i \in Nat : i <= Len(s) /\ w[i] # u[i]}
  <2>0. \A i \in 0 .. Len(s) : w[i] = Value(w, i) /\ u[i] = Value(u, i)
    <3> HIDE DEF w
    <3> QED BY <1>2, <1>3
  <2> HIDE DEF w
  <2>1. D = {}
    <3> SUFFICES ASSUME D # {} PROVE FALSE
      OBVIOUS
    <3>1. PICK m \in D : \A n \in D : ~(n < m)
      <4>1. D \in SUBSET Nat
        OBVIOUS
      <4> HIDE DEF D
      <4> QED BY <4>1, Smallest
    <3>2. m \in 0 .. Len(s)
      BY <1>0
    <3>3. m # 0
      BY <2>0, <3>1, <3>2
    <3>4. m - 1 \in Nat /\ m - 1 < m /\ m - 1 <= Len(s)
      BY <3>2, <3>3
    <3>5. m - 1 \notin D
      <4> HIDE DEF D
      <4> QED BY <3>1, <3>4
    <3>6. w[m - 1] = u[m - 1]
      BY <3>4, <3>5
    <3> QED BY <2>0, <3>1, <3>2, <3>3, <3>6
  <2>2. \A i \in 0 .. Len(s) : w[i] = u[i]
    BY <2>1, <1>0
  <2> QED BY <1>2, <1>3, <2>2
<1>5. Picked(s, I) = w[Len(s)]
  BY DEF Picked
<1> QED BY <1>2, <1>4, <1>5

-----------------------------------------------------------------------------
(* OpenID Federation.  What an evaluation holds for a request: chains of a *)
(* type the request accepts, if it names types the registry knows.         *)
Suitable(chains, types) ==
    /\ IsSequence(chains)
    /\ types \subseteq KnownTypes => \A j \in 1 .. Len(chains) : TypeMatches(chains[j], types)

Dated(chains) == \A j \in 1 .. Len(chains) : chains[j].expiries \subseteq Nat

(* An entry of the cache was resolved for the types in its key, and lapses *)
(* before any statement that was current when it was stored.               *)
ExpiresInTime(e) ==
    LET all == UNION {e.chains[j].expiries : j \in DOMAIN e.chains}
    IN (\A x \in all : x > e.resolvedAt) => (\A x \in all : e.expiresAt <= x)

EntryInv(e) == Suitable(e.chains, e.key[3]) /\ ExpiresInTime(e)

EntriesInv(c) ==
    /\ IsSequence(c)
    /\ \A i \in 1 .. Len(c) : EntryInv(c[i])
    /\ \A i, j \in 1 .. Len(c) : c[i].key = c[j].key => i = j

Respects(v) ==
    v.decision => /\ TrustMarks(v.req) \subseteq v.chain.marks
                  /\ Types(v.req) \subseteq KnownTypes => TypeMatches(v.chain, Types(v.req))
                  /\ v.req.key \in {"", v.chain.key}

CallerInv(c) ==
    /\ c.pc \in {"resolve", "store"} => c.req \in FedRequests
    /\ c.pc = "store" => Suitable(c.chains, Types(c.req)) /\ Dated(c.chains)

FedInv ==
    /\ time \in Nat
    /\ EntriesInv(cache) /\ Len(cache) <= MaxSize
    /\ caller = [p \in Callers |-> caller[p]] /\ \A p \in Callers : CallerInv(caller[p])
    /\ verdict = [p \in Callers |-> verdict[p]] /\ \A p \in Callers : Respects(verdict[p])

LEMMA PickedSuits ==
    ASSUME NEW chains, NEW types, Suitable(chains, types), NEW I
    PROVE  /\ Suitable(Picked(chains, I), types)
           /\ Dated(chains) => Dated(Picked(chains, I))
<1> DEFINE q == Picked(chains, I)
<1>1. Chosen(q, chains, I, Len(chains))
  BY PickedIsChosen DEF Suitable
<1> HIDE DEF q
<1>2. IsSequence(q) /\ \A j \in 1 .. Len(q) : \E i \in 1 .. Len(chains) : q[j] = chains[i]
  BY <1>1 DEF Chosen
<1>3. Suitable(q, types) /\ (Dated(chains) => Dated(q))
  BY <1>2 DEF Suitable, Dated
<1> QED BY <1>3 DEF q

LEMMA PickedEntries ==
    ASSUME NEW c, EntriesInv(c), NEW I
    PROVE  /\ EntriesInv(Picked(c, I))
           /\ Len(Picked(c, I)) \in Nat /\ Len(Picked(c, I)) <= Len(c)
           /\ (\E i \in 1 .. Len(c) : i \notin I) => Len(Picked(c, I)) < Len(c)
           /\ \A j \in 1 .. Len(Picked(c, I)) : \E i \in I : i \in 1 .. Len(c) /\ Picked(c, I)[j] = c[i]
<1> DEFINE q == Picked(c, I)
<1>1. Chosen(q, c, I, Len(c))
  BY PickedIsChosen DEF EntriesInv
<1> HIDE DEF q
<1>2. PICK at \in [1 .. Len(q) -> 1 .. Len(c)] :
             /\ \A j \in 1 .. Len(q) : at[j] \in I /\ q[j] = c[at[j]]
             /\ \A j, k \in 1 .. Len(q) : j < k => at[j] < at[k]
  BY <1>1 DEF Chosen
<1>3. /\ IsSequence(q) /\ Len(q) \in Nat /\ Len(q) <= Len(c)
      /\ (\E i \in 1 .. Len(c) : i \notin I) => Len(q) < Len(c)
  BY <1>1 DEF Chosen, IsSequence
<1>4. \A j \in 1 .. Len(q) : at[j] \in 1 .. Len(c) /\ at[j] \in I /\ q[j] = c[at[j]]
  BY <1>2
<1>5. \A j \in 1 .. Len(q) : EntryInv(q[j])
  BY <1>4 DEF EntriesInv
<1>6. ASSUME NEW j \in 1 .. Len(q), NEW k \in 1 .. Len(q), q[j].key = q[k].key PROVE j = k
  <2>1. at[j] = at[k]
    BY <1>4, <1>6 DEF EntriesInv
  <2>2. at[j] \in Nat /\ j \in Nat /\ k \in Nat
    BY <1>3, <1>4
  <2>3. ~(j < k) /\ ~(k < j)
    BY <1>2, <2>1, <2>2
  <2> QED BY <2>2, <2>3
<1>7. EntriesInv(q)
  BY <1>3, <1>5, <1>6 DEF EntriesInv
<1> QED BY <1>3, <1>4, <1>7 DEF q

LEMMA LastEntries ==
    ASSUME NEW c, EntriesInv(c), NEW m \in 1 .. Len(c) + 1
    PROVE  /\ EntriesInv(SubSeq(c, m, Len(c)))
           /\ Len(SubSeq(c, m, Len(c))) = Len(c) - m + 1
<1>1. PICK S : c \in Seq(S)
  BY DEF EntriesInv, IsSequence
<1> DEFINE q == SubSeq(c, m, Len(c))
<1>2. /\ q \in Seq(S) /\ Len(q) = Len(c) - m + 1
      /\ \A i \in 1 .. Len(c) - m + 1 : q[i] = c[m + i - 1]
  <2>1. Len(c) \in Nat /\ Len(c) \in m - 1 .. Len(c)
    BY <1>1
  <2> QED BY <1>1, <2>1, SubSeqProperties
<1>3. \A i \in 1 .. Len(q) : m + i - 1 \in 1 .. Len(c) /\ q[i] = c[m + i - 1]
  BY <1>1, <1>2
<1> HIDE DEF q
<1>4. \A i \in 1 .. Len(q) : EntryInv(q[i])
  BY <1>3 DEF EntriesInv
<1>5. ASSUME NEW j \in 1 .. Len(q), NEW k \in 1 .. Len(q), q[j].key = q[k].key PROVE j = k
  <2>1. m + j - 1 = m + k - 1
    BY <1>3, <1>5 DEF EntriesInv
  <2> QED BY <1>1, <2>1
<1>6. IsSequence(q)
  BY <1>2 DEF IsSequence
<1>7. EntriesInv(q) /\ Len(q) = Len(c) - m + 1
  BY <1>2, <1>4, <1>5, <1>6 DEF EntriesInv
<1> QED BY <1>7 DEF q

LEMMA AppendedEntry ==
    ASSUME NEW c, EntriesInv(c), NEW e, EntryInv(e), \A i \in 1 .. Len(c) : c[i].key # e.key
    PROVE  EntriesInv(Append(c, e)) /\ Len(Append(c, e)) = Len(c) + 1
<1> DEFINE q == Append(c, e)
<1>1. Len(c) \in Nat /\ IsSequence(c)
  BY DEF EntriesInv, IsSequence
<1>2. /\ IsSequence(q) /\ Len(q) = Len(c) + 1 /\ q[Len(c) + 1] = e
      /\ \A i \in 1 .. Len(c) : q[i] = c[i]
  BY <1>1, Appended
<1> HIDE DEF q
<1>3. \A i \in 1 .. Len(q) : (i \in 1 .. Len(c) /\ q[i] = c[i]) \/ (i = Len(c) + 1 /\ q[i] = e)
  BY <1>1, <1>2
<1>4. \A i \in 1 .. Len(q) : EntryInv(q[i])
  BY <1>3 DEF EntriesInv
<1>5. \A i, j \in 1 .. Len(q) : q[i].key = q[j].key => i = j
  BY <1>3 DEF EntriesInv
<1>6. EntriesInv(q) /\ Len(q) = Len(c) + 1
  BY <1>2, <1>4, <1>5 DEF EntriesInv
<1> QED BY <1>6 DEF q

LEMMA WithoutKey ==
    ASSUME NEW c, EntriesInv(c), NEW key
    PROVE  /\ EntriesInv(Without(c, key))
           /\ Len(Without(c, key)) \in Nat /\ Len(Without(c, key)) <= Len(c)
           /\ (\E i \in 1 .. Len(c) : c[i].key = key) => Len(Without(c, key)) < Len(c)
           /\ \A j \in 1 .. Len(Without(c, key)) : Without(c, key)[j].key # key
<1> DEFINE I == {i \in DOMAIN c : c[i].key # key}
<1>1. DOMAIN c = 1 .. Len(c)
  BY DEF EntriesInv, IsSequence
<1>2. \A i \in 1 .. Len(c) : i \in I <=> c[i].key # key
  BY <1>1
<1>3. Without(c, key) = Picked(c, I)
  BY DEF Without
<1> HIDE DEF I
<1>4. /\ EntriesInv(Picked(c, I))
      /\ Len(Picked(c, I)) \in Nat /\ Len(Picked(c, I)) <= Len(c)
      /\ (\E i \in 1 .. Len(c) : i \notin I) => Len(Picked(c, I)) < Len(c)
      /\ \A j \in 1 .. Len(Picked(c, I)) : \E i \in I : i \in 1 .. Len(c) /\ Picked(c, I)[j] = c[i]
  BY PickedEntries
<1> QED BY <1>2, <1>3, <1>4

(* evictLRU makes room for an entry when the cache is full.                *)
LEMMA EvictionMakesRoom ==
    ASSUME NEW c, EntriesInv(c), Len(c) <= MaxSize
    PROVE  /\ EntriesInv(evictLRU(c))
           /\ Len(evictLRU(c)) \in Nat /\ Len(evictLRU(c)) < MaxSize
<1> DEFINE I == {i \in DOMAIN c : ~Expired(c[i])}
           live == Picked(c, I)
           tenth == Len(live) \div 10
           first == (IF tenth < 1 THEN 1 ELSE tenth) + 1
<1>1. EntriesInv(live) /\ Len(live) \in Nat /\ Len(live) <= Len(c) /\ Len(c) \in Nat
  <2>1. Len(c) \in Nat
    BY DEF EntriesInv, IsSequence
  <2> HIDE DEF I
  <2> QED BY <2>1, PickedEntries
<1>2. evictLRU(c) = IF Len(live) < MaxSize THEN live ELSE SubSeq(live, first, Len(live))
  BY DEF evictLRU
<1> HIDE DEF live
<1>3. CASE Len(live) < MaxSize
  BY <1>1, <1>2, <1>3
<1>4. CASE ~(Len(live) < MaxSize)
  <2>1. Len(live) >= 1
    BY <1>1, <1>4, CacheAssumption
  <2>2. tenth \in Nat /\ tenth <= Len(live)
    BY <1>1
  <2> HIDE DEF tenth
  <2>3. first \in 1 .. Len(live) + 1 /\ first >= 2
    BY <1>1, <2>1, <2>2
  <2> HIDE DEF first
  <2>4. /\ EntriesInv(SubSeq(live, first, Len(live)))
        /\ Len(SubSeq(live, first, Len(live))) = Len(live) - first + 1
    BY <1>1, <2>3, LastEntries
  <2> DEFINE q == SubSeq(live, first, Len(live))
  <2>5. evictLRU(c) = q /\ EntriesInv(q) /\ Len(q) = Len(live) - first + 1
    BY <1>2, <1>4, <2>4
  <2> HIDE DEF q
  <2> QED BY <1>1, <2>3, <2>5, CacheAssumption
<1> QED BY <1>3, <1>4

(* SetWithChainExpiry: the TTL is capped at the earliest expiry.           *)
LEMMA StoredExpiresInTime ==
    ASSUME time \in Nat, NEW chains, IsSequence(chains), Dated(chains), NEW key,
           NEW e, e = [key |-> key, chains |-> chains, resolvedAt |-> time,
                       expiresAt |-> time + EntryTTL(chains)]
    PROVE  ExpiresInTime(e)
<1> DEFINE all == UNION {chains[j].expiries : j \in DOMAIN chains}
<1>1. all \subseteq Nat
  BY DEF IsSequence, Dated
<1> SUFFICES ASSUME \A x \in all : x > time, NEW x \in all
             PROVE  time + EntryTTL(chains) <= x
  BY DEF ExpiresInTime
<1>2. earliestChainExpiry(chains) = Min(all)
  BY DEF earliestChainExpiry
<1>3. Min(all) \in all /\ Min(all) <= x
  <2> HIDE DEF all
  <2> QED BY <1>1, LeastIndex
<1> DEFINE first == Min(all)
<1>4. first \in Nat /\ first > time /\ first <= x /\ x \in Nat
  BY <1>1, <1>3
<1>5. EntryTTL(chains) = IF first - time > 0 /\ first - time < CacheTTL THEN first - time ELSE CacheTTL
  BY <1>2 DEF EntryTTL
<1> HIDE DEF first
<1> QED BY <1>4, <1>5, CacheAssumption

(* set, on a cache within its limit.                                       *)
LEMMA SetKeeps ==
    ASSUME time \in Nat, EntriesInv(cache), Len(cache) <= MaxSize,
           NEW key, NEW chains, Suitable(chains, key[3]), Dated(chains), set(key, chains)
    PROVE  EntriesInv(cache') /\ Len(cache') <= MaxSize
<1> DEFINE room == IF Len(cache) >= MaxSize THEN evictLRU(cache) ELSE cache
           e == [key |-> key, chains |-> chains, resolvedAt |-> time,
                 expiresAt |-> time + EntryTTL(chains)]
           rest == Without(room, key)
<1>1. EntriesInv(room) /\ Len(room) \in Nat /\ Len(room) < MaxSize
  <2>1. Len(cache) \in Nat
    BY DEF EntriesInv, IsSequence
  <2>2. CASE Len(cache) >= MaxSize
    BY <2>2, EvictionMakesRoom
  <2>3. CASE ~(Len(cache) >= MaxSize)
    BY <2>1, <2>3, CacheAssumption
  <2> QED BY <2>2, <2>3
<1>2. EntryInv(e)
  <2>1. ExpiresInTime(e)
    BY StoredExpiresInTime DEF Suitable
  <2>2. e.chains = chains /\ e.key = key
    OBVIOUS
  <2> QED BY <2>1, <2>2 DEF EntryInv
<1>3. e.key = key
  OBVIOUS
<1>4. cache' = Append(rest, e)
  BY DEF set
<1> HIDE DEF room, e
<1>5. EntriesInv(rest) /\ Len(rest) \in Nat /\ Len(rest) <= Len(room)
      /\ \A j \in 1 .. Len(rest) : rest[j].key # key
  BY <1>1, WithoutKey
<1> HIDE DEF rest
<1>6. EntriesInv(Append(rest, e)) /\ Len(Append(rest, e)) = Len(rest) + 1
  BY <1>2, <1>3, <1>5, AppendedEntry
<1> QED BY <1>1, <1>4, <1>5, <1>6, CacheAssumption

LEMMA VerdictRespects ==
    ASSUME NEW r, NEW chains, Suitable(chains, Types(r))
    PROVE  Respects(Verdict(r, chains))
<1>1. CASE /\ chains # <<>>
           /\ TrustMarks(r) \subseteq chains[1].marks
           /\ r.key \in {"", chains[1].key}
  <2>1. 1 \in 1 .. Len(chains)
    <3>1. PICK S : chains \in Seq(S)
      BY DEF Suitable, IsSequence
    <3>2. Len(chains) \in Nat /\ Len(chains) # 0
      BY <1>1, <3>1, EmptySeq
    <3> QED BY <3>2
  <2>2. Types(r) \subseteq KnownTypes => TypeMatches(chains[1], Types(r))
    BY <2>1 DEF Suitable
  <2> DEFINE v == [decision |-> TRUE, chain |-> chains[1], req |-> r]
  <2>3. Verdict(r, chains) = v
    BY <1>1 DEF Verdict
  <2>4. v.req = r /\ v.chain = chains[1]
    OBVIOUS
  <2> HIDE DEF v
  <2> QED BY <1>1, <2>2, <2>3, <2>4 DEF Respects
<1>2. CASE ~ /\ chains # <<>>
             /\ TrustMarks(r) \subseteq chains[1].marks
             /\ r.key \in {"", chains[1].key}
  <2>1. Verdict(r, chains) = NoVerdict
    BY <1>2 DEF Verdict
  <2> QED BY <2>1 DEF Respects, NoVerdict
<1> QED BY <1>1, <1>2

LEMMA EntryFound ==
    ASSUME IsSequence(cache), NEW key, NEW e \in Entry(key)
    PROVE  \E i \in 1 .. Len(cache) : cache[i] = e /\ e.key = key
<1> DEFINE I == {i \in 1 .. Len(cache) : cache[i].key = key}
<1>1. DOMAIN cache = 1 .. Len(cache)
  BY DEF IsSequence
<1>2. I # {} /\ I \in SUBSET Nat
  BY <1>1 DEF Entry
<1>3. Min(I) \in I
  <2> HIDE DEF I
  <2> QED BY <1>2, LeastIndex
<1>4. e = cache[Min(I)]
  BY <1>2 DEF Entry, SelectInSeq
<1> QED BY <1>3, <1>4

LEMMA FedStart == FedInit => FedInv
<1> SUFFICES ASSUME FedInit PROVE FedInv
  OBVIOUS
<1>1. EntriesInv(cache) /\ Len(cache) <= MaxSize
  <2>1. cache \in Seq({}) /\ Len(cache) = 0
    BY DEF FedInit
  <2> QED BY <2>1, CacheAssumption DEF EntriesInv, IsSequence
<1>2. \A p \in Callers : caller[p] = Idle /\ verdict[p] = NoVerdict
  BY DEF FedInit
<1>3. \A p \in Callers : CallerInv(caller[p]) /\ Respects(verdict[p])
  <2>1. Idle.pc = "idle" /\ NoVerdict.decision = FALSE
    BY DEF Idle, NoVerdict
  <2> QED BY <1>2, <2>1 DEF CallerInv, Respects
<1>4. time \in Nat /\ caller = [p \in Callers |-> caller[p]] /\ verdict = [p \in Callers |-> verdict[p]]
  BY DEF FedInit
<1> QED BY <1>1, <1>3, <1>4 DEF FedInv

LEMMA BeginKeeps ==
    ASSUME FedInv, NEW p \in Callers, NEW r \in FedRequests, Begin(p, r)
    PROVE  FedInv'
<1> DEFINE hits == IF shouldBypassCache(r) THEN {} ELSE Entry(cacheKey(r))
           Served(e) == ~Expired(e) /\ ~(hasMaxAge(r) /\ time > e.resolvedAt)
<1>1. UNCHANGED time
  BY DEF Begin
<1>2. ASSUME NEW e \in hits, cache' = Append(Without(cache, e.key), e),
             verdict' = [verdict EXCEPT ![p] = Verdict(r, e.chains)], UNCHANGED caller
      PROVE  FedInv'
  <2>1. PICK i \in 1 .. Len(cache) : cache[i] = e /\ e.key = cacheKey(r)
    BY <1>2, EntryFound DEF FedInv, EntriesInv
  <2>2. EntryInv(e)
    BY <2>1 DEF FedInv, EntriesInv
  <2> DEFINE rest == Without(cache, e.key)
  <2>3. /\ EntriesInv(rest) /\ Len(rest) \in Nat /\ Len(rest) < Len(cache)
        /\ \A j \in 1 .. Len(rest) : rest[j].key # e.key
    BY <2>1, WithoutKey DEF FedInv
  <2> HIDE DEF rest
  <2>4. EntriesInv(Append(rest, e)) /\ Len(Append(rest, e)) = Len(rest) + 1
    BY <2>2, <2>3, AppendedEntry
  <2>5. cache' = Append(rest, e)
    BY <1>2 DEF rest
  <2>6. Len(cache) \in Nat /\ Len(cache) <= MaxSize
    BY DEF FedInv, EntriesInv, IsSequence
  <2>7. EntriesInv(cache') /\ Len(cache') <= MaxSize
    BY <2>3, <2>4, <2>5, <2>6, CacheAssumption
  <2>8. Respects(Verdict(r, e.chains))
    <3>1. Suitable(e.chains, Types(r))
      BY <2>1, <2>2 DEF EntryInv, cacheKey
    <3> QED BY <3>1, VerdictRespects
  <2>9. verdict' = [q \in Callers |-> verdict'[q]] /\ \A q \in Callers : Respects(verdict'[q])
    BY <1>2, <2>8 DEF FedInv
  <2>10. caller' = [q \in Callers |-> caller'[q]] /\ \A q \in Callers : CallerInv(caller'[q])
    BY <1>2 DEF FedInv
  <2> QED BY <1>1, <2>7, <2>9, <2>10 DEF FedInv
<1>3. ASSUME cache' = Picked(cache, {i \in DOMAIN cache : ~(cache[i] \in hits /\ Expired(cache[i]))}),
             Miss(p, r), verdict' = [verdict EXCEPT ![p] = NoVerdict]
      PROVE  FedInv'
  <2> DEFINE I == {i \in DOMAIN cache : ~(cache[i] \in hits /\ Expired(cache[i]))}
  <2>1. cache' = Picked(cache, I)
    BY <1>3
  <2> HIDE DEF I
  <2>2. EntriesInv(Picked(cache, I)) /\ Len(Picked(cache, I)) \in Nat /\ Len(Picked(cache, I)) <= Len(cache)
    BY PickedEntries DEF FedInv
  <2>3. Len(cache) \in Nat /\ Len(cache) <= MaxSize
    BY DEF FedInv, EntriesInv, IsSequence
  <2>4. EntriesInv(cache') /\ Len(cache') <= MaxSize
    BY <2>1, <2>2, <2>3, CacheAssumption
  <2> DEFINE c == IF validatePreSuppliedTrustChain(r)
                  THEN [pc |-> "store", req |-> r, chains |-> <<r.supplied>>]
                  ELSE [pc |-> "resolve", req |-> r, chains |-> <<>>]
  <2>5. caller' = [caller EXCEPT ![p] = c]
    BY <1>3 DEF Miss
  <2>6. CallerInv(c)
    <3>1. CASE validatePreSuppliedTrustChain(r)
      <4> DEFINE one == <<r.supplied>>
      <4>1. one \in Seq({r.supplied}) /\ Len(one) = 1 /\ one[1] = r.supplied
        OBVIOUS
      <4>2. c.pc = "store" /\ c.req = r /\ c.chains = one
        BY <3>1
      <4>3. r.supplied.expiries \subseteq Nat
        BY <3>1, ChainsAssumption DEF validatePreSuppliedTrustChain
      <4>4. Types(r) \subseteq KnownTypes => TypeMatches(r.supplied, Types(r))
        BY <3>1 DEF validatePreSuppliedTrustChain
      <4> HIDE DEF one, c
      <4>5. Suitable(one, Types(r)) /\ Dated(one)
        BY <4>1, <4>3, <4>4 DEF Suitable, Dated, IsSequence
      <4> QED BY <4>2, <4>5 DEF CallerInv
    <3>2. CASE ~validatePreSuppliedTrustChain(r)
      <4>1. c.pc = "resolve" /\ c.req = r
        BY <3>2
      <4> HIDE DEF c
      <4> QED BY <4>1 DEF CallerInv
    <3> QED BY <3>1, <3>2
  <2> HIDE DEF c
  <2>7. caller' = [q \in Callers |-> caller'[q]] /\ \A q \in Callers : CallerInv(caller'[q])
    BY <2>5, <2>6 DEF FedInv
  <2>8. Respects(NoVerdict)
    BY DEF Respects, NoVerdict
  <2>9. verdict' = [q \in Callers |-> verdict'[q]] /\ \A q \in Callers : Respects(verdict'[q])
    BY <1>3, <2>8 DEF FedInv
  <2> QED BY <1>1, <2>4, <2>7, <2>9 DEF FedInv
<1>4. \/ \E e \in hits : /\ Served(e)
                         /\ cache' = Append(Without(cache, e.key), e)
                         /\ verdict' = [verdict EXCEPT ![p] = Verdict(r, e.chains)]
                         /\ UNCHANGED caller
      \/ /\ \A e \in hits : ~Served(e)
         /\ cache' = Picked(cache, {i \in DOMAIN cache : ~(cache[i] \in hits /\ Expired(cache[i]))})
         /\ Miss(p, r)
         /\ verdict' = [verdict EXCEPT ![p] = NoVerdict]
  BY DEF Begin
<1> HIDE DEF hits, Served
<1> QED BY <1>2, <1>3, <1>4

LEMMA ResolutionKeeps ==
    ASSUME FedInv, NEW p \in Callers, ResolveToValidChains(p)
    PROVE  FedInv'
<1> DEFINE r == caller[p].req
           valid == {c \in Chains[r.entity] : c.valid /\ TimeValid(c) /\ TypeMatches(c, Types(r))}
<1>1. UNCHANGED <<time, cache, verdict>> /\ caller[p].pc = "resolve"
  BY DEF ResolveToValidChains
<1>2. PICK chains \in SetToAllKPermutations(valid) :
             caller' = [caller EXCEPT ![p] = [@ EXCEPT !.pc = "store", !.chains = chains]]
  BY DEF ResolveToValidChains
<1>3. r \in FedRequests
  BY <1>1 DEF FedInv, CallerInv
<1>4. IsFiniteSet(valid) /\ \A c \in valid : c.expiries \subseteq Nat /\ TypeMatches(c, Types(r))
  <2>1. IsFiniteSet(Chains[r.entity]) /\ \A c \in Chains[r.entity] : c.expiries \subseteq Nat
    BY <1>3, ChainsAssumption
  <2>2. IsFiniteSet(valid)
    <3>1. valid \subseteq Chains[r.entity]
      OBVIOUS
    <3> HIDE DEF valid
    <3> QED BY <2>1, <3>1, FS_Subset
  <2> QED BY <2>1, <2>2
<1> HIDE DEF r, valid
<1>5. PICK S \in SUBSET valid : chains \in SetToSeqs(S)
  BY DEF SetToAllKPermutations
<1>6. IsFiniteSet(S) /\ Cardinality(S) \in Nat
  BY <1>4, <1>5, FS_Subset, FS_CardinalityType
<1>7. chains \in [1 .. Cardinality(S) -> S]
  BY <1>5 DEF SetToSeqs
<1>8. chains \in Seq(S) /\ Len(chains) = Cardinality(S)
  BY <1>6, <1>7
<1>9. \A j \in 1 .. Len(chains) : chains[j] \in valid
  BY <1>5, <1>7, <1>8
<1>10. Suitable(chains, Types(r)) /\ Dated(chains)
  BY <1>4, <1>8, <1>9 DEF Suitable, Dated, IsSequence
<1> DEFINE c == [caller[p] EXCEPT !.pc = "store", !.chains = chains]
<1>11. caller' = [caller EXCEPT ![p] = c]
  BY <1>2
<1>12. c.pc = "store" => c.req = r /\ c.chains = chains
  BY DEF r
<1>13. CallerInv(c)
  BY <1>3, <1>10, <1>12 DEF CallerInv
<1> HIDE DEF c
<1>14. caller' = [q \in Callers |-> caller'[q]] /\ \A q \in Callers : CallerInv(caller'[q])
  BY <1>11, <1>13 DEF FedInv
<1> QED BY <1>1, <1>14 DEF FedInv

LEMMA StoreKeeps ==
    ASSUME FedInv, NEW p \in Callers, Store(p)
    PROVE  FedInv'
<1> DEFINE r == caller[p].req
           resolved == caller[p].chains
           I == {i \in DOMAIN resolved : resolved[i].depth <= MaxDepth(r)}
           kept == Picked(resolved, I)
<1>1. /\ UNCHANGED time /\ caller' = [caller EXCEPT ![p] = Idle]
      /\ verdict' = [verdict EXCEPT ![p] = Verdict(r, kept)]
      /\ set(cacheKey(r), kept) \/ UNCHANGED cache
  BY DEF Store
<1>2. Suitable(resolved, Types(r)) /\ Dated(resolved)
  BY DEF FedInv, CallerInv, Store
<1> HIDE DEF I, resolved, r
<1>3. Suitable(kept, Types(r)) /\ Dated(kept)
  BY <1>2, PickedSuits
<1> HIDE DEF kept
<1>4. EntriesInv(cache') /\ Len(cache') <= MaxSize
  <2>1. CASE set(cacheKey(r), kept)
    <3>1. cacheKey(r)[3] = Types(r)
      BY DEF cacheKey
    <3> QED BY <1>3, <2>1, <3>1, SetKeeps DEF FedInv
  <2>2. CASE UNCHANGED cache
    BY <2>2 DEF FedInv, EntriesInv, IsSequence
  <2> QED BY <1>1, <2>1, <2>2
<1>5. Respects(Verdict(r, kept))
  BY <1>3, VerdictRespects
<1>6. verdict' = [q \in Callers |-> verdict'[q]] /\ \A q \in Callers : Respects(verdict'[q])
  BY <1>1, <1>5 DEF FedInv
<1>7. CallerInv(Idle)
  BY DEF CallerInv, Idle
<1>8. caller' = [q \in Callers |-> caller'[q]] /\ \A q \in Callers : CallerInv(caller'[q])
  BY <1>1, <1>7 DEF FedInv
<1> QED BY <1>1, <1>4, <1>6, <1>8 DEF FedInv

LEMMA FedStep == FedInv /\ [FedNext]_fedVars => FedInv'
<1> SUFFICES ASSUME FedInv, [FedNext]_fedVars PROVE FedInv'
  OBVIOUS
<1>1. ASSUME NEW p \in Callers, NEW r \in FedRequests, Begin(p, r) PROVE FedInv'
  BY <1>1, BeginKeeps
<1>2. ASSUME NEW p \in Callers, ResolveToValidChains(p) PROVE FedInv'
  BY <1>2, ResolutionKeeps
<1>3. ASSUME NEW p \in Callers, Timeout(p) PROVE FedInv'
  <2>1. CallerInv(Idle)
    BY DEF CallerInv, Idle
  <2> QED BY <1>3, <2>1 DEF Timeout, FedInv
<1>4. ASSUME NEW p \in Callers, Store(p) PROVE FedInv'
  BY <1>4, StoreKeeps
<1>5. CASE Clear
  <2>1. cache' \in Seq({}) /\ Len(cache') = 0
    BY <1>5 DEF Clear
  <2>2. EntriesInv(cache') /\ Len(cache') <= MaxSize
    BY <2>1, CacheAssumption DEF EntriesInv, IsSequence
  <2> QED BY <1>5, <2>2 DEF Clear, FedInv
<1>6. CASE Tick
  BY <1>6 DEF Tick, FedInv
<1>7. CASE UNCHANGED fedVars
  BY <1>7 DEF fedVars, FedInv
<1> QED BY <1>1, <1>2, <1>3, <1>4, <1>5, <1>6, <1>7 DEF FedNext

LEMMA FedInNext == [Next]_allVars => [FedNext]_fedVars
  BY DEF Next, allVars

(* Whoever resolved a chain and whenever it was cached, an approval has    *)
(* the trust marks, a type and the key of its own request (cacheKey, the   *)
(* depth filter, checkTrustMarksWithList).                                 *)
THEOREM ConstraintsAreRespected == Spec => []ConstraintsRespected
<1>1. Init => FedInv
  BY FedStart DEF Init
<1>2. FedInv => ConstraintsRespected
  BY DEF FedInv, Respects, ConstraintsRespected
<1> QED BY <1>1, <1>2, FedStep, FedInNext, PTL DEF Spec, allVars

(* Whatever requests, resolutions and clears come together, the cache      *)
(* keeps its limit and one entry per key, and none outlives a statement of *)
(* its chains (set, evictLRU, SetWithChainExpiry).                         *)
THEOREM CacheStaysSound == Spec => []CacheIsSound
<1>1. Init => FedInv
  BY FedStart DEF Init
<1>2. FedInv => CacheIsSound
  <2> SUFFICES ASSUME FedInv PROVE CacheIsSound
    OBVIOUS
  <2>1. DOMAIN cache = 1 .. Len(cache)
    BY DEF FedInv, EntriesInv, IsSequence
  <2>2. CacheBounded
    BY <2>1 DEF FedInv, EntriesInv, CacheBounded
  <2>3. \A i \in DOMAIN cache : ExpiresInTime(cache[i])
    BY <2>1 DEF FedInv, EntriesInv, EntryInv
  <2>4. CachedChainsExpireInTime
    BY <2>3 DEF CachedChainsExpireInTime, ExpiresInTime
  <2> QED BY <2>2, <2>4 DEF CacheIsSound
<1> QED BY <1>1, <1>2, FedStep, FedInNext, PTL DEF Spec, allVars

-----------------------------------------------------------------------------
(* Bound methods.  A lookup by key returns a method of the document with   *)
(* that key.                                                               *)
HasMethods(doc) == doc.methods \in Seq(Range(doc.methods))

OfDocument(vm, doc) == \E i \in DOMAIN doc.methods : doc.methods[i] = vm

LEMMA MatchedJWK ==
    ASSUME NEW doc, HasMethods(doc), NEW key, matchJWK(doc, key) # None
    PROVE  LET vm == matchJWK(doc, key)
           IN OfDocument(vm, doc) /\ vm.jwk # None /\ JWKsMatch(key, vm.jwk)
<1> DEFINE m == doc.methods
           I == {i \in 1 .. Len(m) : m[i].jwk # None /\ JWKsMatch(key, m[i].jwk)}
<1>1. DOMAIN m = 1 .. Len(m) /\ Len(m) \in Nat
  BY DEF HasMethods
<1>2. I # {} /\ I \in SUBSET Nat
  BY <1>1 DEF matchJWK, FirstMethod
<1>3. Min(I) \in I
  <2> HIDE DEF I
  <2> QED BY <1>2, LeastIndex
<1>4. matchJWK(doc, key) = m[Min(I)]
  BY <1>1, <1>2 DEF matchJWK, FirstMethod, SelectInSeq
<1> QED BY <1>1, <1>3, <1>4 DEF OfDocument

LEMMA MatchedWebJWK ==
    ASSUME NEW doc, HasMethods(doc), NEW key, matchWebJWK(doc, key) # None
    PROVE  LET vm == matchWebJWK(doc, key)
           IN OfDocument(vm, doc) /\ JWKsMatch(key, MethodJWK(vm))
<1> DEFINE m == doc.methods
           I == {i \in 1 .. Len(m) : MethodJWK(m[i]) # None /\ JWKsMatch(key, MethodJWK(m[i]))}
<1>1. DOMAIN m = 1 .. Len(m) /\ Len(m) \in Nat
  BY DEF HasMethods
<1>2. I # {} /\ I \in SUBSET Nat
  BY <1>1 DEF matchWebJWK, FirstMethod
<1>3. Min(I) \in I
  <2> HIDE DEF I
  <2> QED BY <1>2, LeastIndex
<1>4. matchWebJWK(doc, key) = m[Min(I)]
  BY <1>1, <1>2 DEF matchWebJWK, FirstMethod, SelectInSeq
<1> QED BY <1>1, <1>3, <1>4 DEF OfDocument

LEMMA MatchedKey ==
    ASSUME NEW doc, HasMethods(doc), NEW key, NEW frag, matchKey(doc, key, frag) # None
    PROVE  LET vm == matchKey(doc, key, frag)
           IN OfDocument(vm, doc) /\ JWKsMatch(key, vm.jwk)
<1> DEFINE m == doc.methods
           Named(vm) == frag # None /\ frag \in {vm.kid, vm.id.frag} /\ JWKsMatch(key, vm.jwk)
           N == {i \in 1 .. Len(m) : Named(m[i])}
           A == {i \in 1 .. Len(m) : JWKsMatch(key, m[i].jwk)}
<1>1. DOMAIN m = 1 .. Len(m) /\ Len(m) \in Nat
  BY DEF HasMethods
<1>2. (N # {} => Min(N) \in N) /\ (A # {} => Min(A) \in A)
  <2>1. N \in SUBSET Nat /\ A \in SUBSET Nat
    BY <1>1
  <2> HIDE DEF N, A
  <2> QED BY <2>1, LeastIndex
<1>3. \/ N # {} /\ matchKey(doc, key, frag) = m[Min(N)]
      \/ A # {} /\ matchKey(doc, key, frag) = m[Min(A)]
  BY <1>1 DEF matchKey, FirstMethod, SelectInSeq
<1> QED BY <1>1, <1>2, <1>3 DEF OfDocument

(* A key identifier finds the sole method only if it may name this DID.    *)
LEMMA SoleMethodByKid ==
    ASSUME NEW did, NEW frag, NEW type, NEW jwk, NEW kid, NEW doc,
           doc = SoleMethodDocument(did, frag, type, jwk), findVerificationMethodByKid(doc, kid) # None
    PROVE  LET vm == findVerificationMethodByKid(doc, kid)
           IN OfDocument(vm, doc) /\ vm.id.did = did /\ kid.did \in {None, did}
<1> DEFINE m == doc.methods
           E == {i \in 1 .. Len(m) : m[i].id = kid}
           R == {i \in 1 .. Len(m) : m[i].id = [did |-> doc.id, frag |-> kid.frag]}
           exact == FirstMethod(doc, LAMBDA vm : vm.id = kid)
           relative == FirstMethod(doc, LAMBDA vm : vm.id = [did |-> doc.id, frag |-> kid.frag])
           f == findVerificationMethodByKid(doc, kid)
<1>1. /\ Len(m) = 1 /\ DOMAIN m = 1 .. 1 /\ m[1].id = [did |-> did, frag |-> frag] /\ doc.id = did
      /\ OfDocument(m[1], doc)
  BY DEF SoleMethodDocument, OfDocument
<1>2. m[1].id.did = did
  BY <1>1
<1>3. exact # None => exact = m[1] /\ m[1].id = kid
  <2>1. E # {} => Min(E) \in E
    <3>1. E \in SUBSET Nat
      BY <1>1
    <3> HIDE DEF E
    <3> QED BY <3>1, LeastIndex
  <2>2. exact # None => E # {} /\ exact = m[Min(E)]
    BY <1>1 DEF FirstMethod, SelectInSeq
  <2>3. \A i \in E : i = 1 /\ m[i].id = kid
    BY <1>1
  <2> HIDE DEF E, exact
  <2> QED BY <2>1, <2>2, <2>3
<1>4. relative # None => relative = m[1]
  <2>1. R # {} => Min(R) \in R
    <3>1. R \in SUBSET Nat
      BY <1>1
    <3> HIDE DEF R
    <3> QED BY <3>1, LeastIndex
  <2>2. relative # None => R # {} /\ relative = m[Min(R)]
    BY <1>1 DEF FirstMethod, SelectInSeq
  <2>3. \A i \in R : i = 1
    BY <1>1
  <2> HIDE DEF R, relative
  <2> QED BY <2>1, <2>2, <2>3
<1>5. \/ kid = None /\ f = None
      \/ exact # None /\ f = exact
      \/ kid.did = None /\ f = relative
      \/ f = None
      \/ kid = [did |-> doc.id, frag |-> None] /\ f = m[1]
  <2> HIDE DEF exact, relative, m
  <2> QED BY DEF findVerificationMethodByKid, exact, relative, m
<1>6. kid = [did |-> doc.id, frag |-> None] => kid.did = did
  BY <1>1
<1> HIDE DEF exact, relative, f, m
<1>7. f # None => f = m[1] /\ kid.did \in {None, did}
  BY <1>2, <1>3, <1>4, <1>5, <1>6
<1> QED BY <1>1, <1>2, <1>7 DEF f

(* What an approval keeps, of the request and the document it is about.    *)
Bound(a) ==
    a.decision =>
        LET did == a.req.subject.did
            key == a.req.key
        IN /\ IF did.method = "webvh" THEN a.doc.id.scid = did.scid ELSE a.doc.id = did
           /\ a.vm # None => OfDocument(a.vm, a.doc)
           /\ a.vm # None /\ key.form = "jwk" => JWKsMatch(key.value, MethodJWK(a.vm))
           /\ a.vm # None /\ key.form = "kid" => key.value.did \in {None, did} /\ a.vm.id.did = did
           /\ a.ids \subseteq {did}
           /\ (a.req.type # "" /\ key # None) => a.vm # None
           /\ checkPolicyConstraints(did, a.doc, a.req.context)

LEMMA BoundIsBound == (answer # None => Bound(answer)) => BoundToSubject
  BY DEF Bound, BoundToSubject, OfDocument

LEMMA DenialsAreBound == ASSUME NEW r PROVE Bound(Deny(r)) /\ ~Deny(r).decision /\ Deny(r).req = r
  BY DEF Bound, Deny

(* The tail of Evaluate keeps what the key matching found.                 *)
LEMMA AnswersAreBound ==
    ASSUME NEW r, NEW doc, NEW vm,
           IF r.subject.did.method = "webvh" THEN doc.id.scid = r.subject.did.scid
                                             ELSE doc.id = r.subject.did,
           vm # None /\ ~IsResolutionOnly(r) =>
              /\ OfDocument(vm, doc)
              /\ r.key.form = "jwk" => JWKsMatch(r.key.value, MethodJWK(vm))
              /\ r.key.form = "kid" => r.key.value.did \in {None, r.subject.did} /\ vm.id.did = r.subject.did
    PROVE  /\ Bound(Answered(r, doc, vm))
           /\ Answered(r, doc, vm).decision => Answered(r, doc, vm).doc = doc
<1> DEFINE did == r.subject.did
           ids == DIDVerifierIDs(doc, did)
           a == [req |-> r, decision |-> TRUE, doc |-> doc,
                 vm  |-> IF IsResolutionOnly(r) THEN None ELSE vm,
                 ids |-> IF IsResolutionOnly(r) THEN {} ELSE ids]
           Denied == ~checkPolicyConstraints(did, doc, r.context) \/ (~IsResolutionOnly(r) /\ vm = None)
<1>1. Answered(r, doc, vm) = IF Denied THEN Deny(r) ELSE a
  BY DEF Answered
<1>2. CASE Denied
  BY <1>1, <1>2, DenialsAreBound
<1>3. CASE ~Denied
  <2>1. ids \subseteq {did}
    BY DEF DIDVerifierIDs
  <2>2. ~IsResolutionOnly(r) => vm # None
    BY <1>3
  <2>3. /\ a.req = r /\ a.doc = doc /\ a.vm = (IF IsResolutionOnly(r) THEN None ELSE vm)
        /\ a.ids \subseteq {did}
    BY <2>1
  <2>4. IsResolutionOnly(r) <=> (r.type = "" \/ r.key = None)
    BY DEF IsResolutionOnly
  <2>5. checkPolicyConstraints(did, doc, r.context)
    BY <1>3
  <2> HIDE DEF a, Denied, ids
  <2>6. Bound(a)
    BY <2>2, <2>3, <2>4, <2>5 DEF Bound
  <2> QED BY <1>1, <1>3, <2>3, <2>6
<1> QED BY <1>2, <1>3

LEMMA WebVHIsBound ==
    ASSUME NEW r, NEW scid, scid = r.subject.did.scid, r.subject.did.method = "webvh",
           Log!processDIDLog(log, scid, Now) => HasMethods(LogDocument(Last(log)))
    PROVE  Bound(EvaluateWebVH(r, scid))
<1> DEFINE doc == LogDocument(Last(log))
           vm == BoundMethod(r, doc, matchJWK)
           Refused == ~Log!processDIDLog(log, scid, Now) \/ Log!Deactivated(log)
<1>1. EvaluateWebVH(r, scid) = IF Refused THEN Deny(r) ELSE Answered(r, doc, vm)
  BY DEF EvaluateWebVH
<1>2. CASE Refused
  BY <1>1, <1>2, DenialsAreBound
<1>3. CASE ~Refused
  <2>1. doc.id.scid = scid
    <3>1. Last(log).state.scid = scid
      BY <1>3 DEF Log!processDIDLog, Last
    <3> QED BY <3>1, DIDAssumption DEF LogDocument
  <2>2. HasMethods(doc)
    BY <1>3
  <2> HIDE DEF doc
  <2>3. vm # None => r.key.form = "jwk" /\ vm = matchJWK(doc, r.key.value)
    BY DEF BoundMethod
  <2>4. vm # None => OfDocument(vm, doc) /\ JWKsMatch(r.key.value, MethodJWK(vm))
    BY <2>2, <2>3, MatchedJWK DEF MethodJWK
  <2> HIDE DEF vm
  <2>5. Bound(Answered(r, doc, vm))
    BY <2>1, <2>3, <2>4, AnswersAreBound
  <2> QED BY <1>1, <1>3, <2>5
<1> QED BY <1>2, <1>3

LEMMA WebIsBound ==
    ASSUME NEW r, NEW doc, doc # None => HasMethods(doc)
    PROVE  Bound(EvaluateWeb(r, doc))
<1> DEFINE vm == BoundMethod(r, doc, matchWebJWK)
           Refused == doc = None \/ doc.id # r.subject.did
<1>1. EvaluateWeb(r, doc) = IF Refused THEN Deny(r) ELSE Answered(r, doc, vm)
  BY DEF EvaluateWeb
<1>2. CASE Refused
  BY <1>1, <1>2, DenialsAreBound
<1>3. CASE ~Refused
  <2>1. vm # None => r.key.form = "jwk" /\ vm = matchWebJWK(doc, r.key.value)
    BY DEF BoundMethod
  <2>2. vm # None => OfDocument(vm, doc) /\ JWKsMatch(r.key.value, MethodJWK(vm))
    BY <1>3, <2>1, MatchedWebJWK
  <2> HIDE DEF vm
  <2>3. Bound(Answered(r, doc, vm))
    BY <1>3, <2>1, <2>2, AnswersAreBound
  <2> QED BY <1>1, <1>3, <2>3
<1> QED BY <1>2, <1>3

LEMMA LocalIsBound ==
    ASSUME NEW r \in Requests["local"]
    PROVE  Bound(EvaluateLocal(r))
<1> DEFINE doc == Resolve(r.subject)
           vm == VerifyKeyBinding(r, doc)
           Refused == r.subject.did.method \notin Registered \/ doc = None
<1>1. EvaluateLocal(r) = IF Refused THEN Deny(r) ELSE Answered(r, doc, vm)
  BY DEF EvaluateLocal
<1>2. CASE Refused
  BY <1>1, <1>2, DenialsAreBound
<1>3. CASE ~Refused
  <2>1. PICK frag, type, jwk : doc = SoleMethodDocument(r.subject.did, frag, type, jwk)
    BY <1>3 DEF Resolve, ResolveKey, ResolveJwk
  <2>2. doc.id = r.subject.did /\ HasMethods(doc)
    <3>1. doc.id = r.subject.did /\ doc.methods = <<doc.methods[1]>>
      BY <2>1 DEF SoleMethodDocument
    <3> DEFINE x == doc.methods[1]
    <3>2. <<x>> \in Seq(Range(<<x>>))
      <4>1. <<x>> \in Seq({x}) /\ Range(<<x>>) = {x}
        BY DEF Range
      <4> QED BY <4>1
    <3> QED BY <3>1, <3>2 DEF HasMethods
  <2>3. r.key # None => r.key.form \in {"jwk", "kid"}
    BY DIDAssumption
  <2>4. vm # None => \/ r.key.form = "jwk" /\ vm = matchJWK(doc, r.key.value)
                     \/ r.key.form = "kid" /\ vm = findVerificationMethodByKid(doc, r.key.value)
    BY <2>3 DEF VerifyKeyBinding
  <2> HIDE DEF doc, vm
  <2>5. vm # None => /\ OfDocument(vm, doc)
                     /\ r.key.form = "jwk" => JWKsMatch(r.key.value, MethodJWK(vm))
                     /\ r.key.form = "kid" => /\ r.key.value.did \in {None, r.subject.did}
                                              /\ vm.id.did = r.subject.did
    <3>1. CASE r.key.form = "jwk" /\ vm = matchJWK(doc, r.key.value)
      BY <2>2, <3>1, MatchedJWK DEF MethodJWK
    <3>2. CASE r.key.form = "kid" /\ vm = findVerificationMethodByKid(doc, r.key.value)
      BY <2>1, <3>2, SoleMethodByKid
    <3> QED BY <2>4, <3>1, <3>2
  <2>6. Bound(Answered(r, doc, vm))
    BY <2>2, <2>5, AnswersAreBound
  <2> QED BY <1>1, <1>3, <2>6
<1> QED BY <1>2, <1>3

(* The document of a JWKS has a method for each of its usable keys.        *)
FromKeys(doc, jwks) ==
    \A i \in DOMAIN doc.methods : \E k \in DOMAIN jwks : jwks[k].key = doc.methods[i].jwk

LEMMA BuiltFromKeys ==
    ASSUME NEW did, NEW jwks, jwks \in Seq(Range(jwks)), buildDIDDocument(did, jwks) # None
    PROVE  LET doc == buildDIDDocument(did, jwks)
           IN /\ doc.id = did /\ HasMethods(doc) /\ FromKeys(doc, jwks)
              /\ \A i \in DOMAIN doc.methods : doc.methods[i].multibase = None
<1> DEFINE I == {i \in DOMAIN jwks : Thumbprint(jwks[i]) # None}
           usable == Picked(jwks, I)
           methods == [i \in DOMAIN usable |->
                         [id |-> [did |-> did, frag |-> Thumbprint(usable[i])], type |-> "JsonWebKey",
                          jwk |-> usable[i].key, multibase |-> None, kid |-> usable[i].kid]]
           doc == [id |-> did, services |-> {}, methods |-> methods]
<1>1. buildDIDDocument(did, jwks) = doc
  BY DEF buildDIDDocument
<1>2. IsSequence(jwks) /\ DOMAIN jwks = 1 .. Len(jwks)
  BY DEF IsSequence
<1>3. /\ IsSequence(usable)
      /\ \A j \in 1 .. Len(usable) : \E k \in 1 .. Len(jwks) : usable[j] = jwks[k]
  <2> HIDE DEF I
  <2>1. Chosen(usable, jwks, I, Len(jwks))
    BY <1>2, PickedIsChosen
  <2> HIDE DEF usable
  <2> QED BY <2>1 DEF Chosen
<1> HIDE DEF usable
<1>4. DOMAIN usable = 1 .. Len(usable) /\ Len(usable) \in Nat
  BY <1>3 DEF IsSequence
<1>5. \A i \in 1 .. Len(usable) : methods[i].jwk = usable[i].key /\ methods[i].multibase = None
  BY <1>4
<1>6. DOMAIN methods = 1 .. Len(usable) /\ methods \in Seq(Range(methods))
  <2>1. DOMAIN methods = 1 .. Len(usable)
    BY <1>4
  <2>2. methods = [i \in 1 .. Len(usable) |-> methods[i]]
    BY <1>4
  <2> HIDE DEF methods
  <2>3. methods \in [1 .. Len(usable) -> Range(methods)]
    BY <2>1, <2>2 DEF Range
  <2> QED BY <1>4, <2>1, <2>3
<1>7. doc.id = did /\ doc.methods = methods
  OBVIOUS
<1> HIDE DEF doc, methods
<1>8. HasMethods(doc)
  BY <1>6, <1>7 DEF HasMethods
<1>9. FromKeys(doc, jwks)
  <2> SUFFICES ASSUME NEW i \in 1 .. Len(usable)
               PROVE  \E k \in DOMAIN jwks : jwks[k].key = doc.methods[i].jwk
    BY <1>6, <1>7 DEF FromKeys
  <2>1. PICK k \in 1 .. Len(jwks) : usable[i] = jwks[k]
    BY <1>3
  <2>2. doc.methods[i].jwk = usable[i].key
    BY <1>5, <1>7
  <2> QED BY <1>2, <2>1, <2>2
<1> QED BY <1>1, <1>5, <1>6, <1>7, <1>8, <1>9

LEMMA JwksIsBound ==
    ASSUME NEW r, NEW jwks, jwks # None => jwks \in Seq(Range(jwks))
    PROVE  LET a == EvaluateJwks(r, jwks)
           IN Bound(a) /\ (a.decision => jwks # None /\ FromKeys(a.doc, jwks))
<1> DEFINE doc == IF jwks = None THEN None ELSE buildDIDDocument(r.subject.did, jwks)
           vm == IF r.type = "jwk" /\ r.key # None /\ r.key.form = "jwk"
                 THEN matchKey(doc, r.key.value, r.subject.frag) ELSE None
<1>1. EvaluateJwks(r, jwks) = IF doc = None THEN Deny(r) ELSE Answered(r, doc, vm)
  BY DEF EvaluateJwks
<1>2. CASE doc = None
  BY <1>1, <1>2, DenialsAreBound
<1>3. CASE doc # None
  <2>1. jwks # None /\ doc = buildDIDDocument(r.subject.did, jwks)
    BY <1>3
  <2> HIDE DEF doc
  <2>2. /\ doc.id = r.subject.did /\ HasMethods(doc) /\ FromKeys(doc, jwks)
        /\ \A i \in DOMAIN doc.methods : doc.methods[i].multibase = None
    BY <1>3, <2>1, BuiltFromKeys
  <2>3. vm # None => r.key.form = "jwk" /\ vm = matchKey(doc, r.key.value, r.subject.frag)
    OBVIOUS
  <2> HIDE DEF vm
  <2>4. vm # None => OfDocument(vm, doc) /\ JWKsMatch(r.key.value, vm.jwk)
    BY <2>2, <2>3, MatchedKey
  <2>5. vm # None => MethodJWK(vm) = vm.jwk
    BY <2>2, <2>4 DEF OfDocument, MethodJWK
  <2>6. /\ Bound(Answered(r, doc, vm))
        /\ Answered(r, doc, vm).decision => Answered(r, doc, vm).doc = doc
    BY <2>2, <2>3, <2>4, <2>5, AnswersAreBound
  <2> QED BY <1>1, <1>3, <2>1, <2>2, <2>6
<1> QED BY <1>2, <1>3

-----------------------------------------------------------------------------
(* What is served, and what the host stood for during an evaluation: all   *)
(* that the fetches still to come may return.                              *)
JWKSs == JWKSChoices \cup {None}

ServedType ==
    /\ \A i \in 1 .. Len(log) : log[i].state.methods \in Seq(Range(log[i].state.methods))
    /\ document \in Documents \cup {None}
    /\ endpoints \in [direct : JWKSs, discovery : URIs \cup {None}, at : [URIs -> JWKSs]]

StoodFor(e, v) ==
    /\ v.uris \subseteq URIs /\ v.jwks \subseteq JWKSs
    /\ e.direct \in v.jwks
    /\ e.discovery \in SecureURIs => e.discovery \in v.uris
    /\ \A u \in v.uris : e.at[u] \in v.jwks

Published(a, v) ==
    a.decision => \E jwks \in v.jwks \ {None} : FromKeys(a.doc, jwks)

GenuineInv ==
    /\ HolderInv /\ ServedType
    /\ pc # "idle" => /\ answer = None /\ StoodFor(endpoints, vouched)
                      /\ pc = "indirect" => uri \in vouched.uris
    /\ answer # None => Bound(answer)
    /\ answer # None /\ method = "jwks" => Published(answer, vouched)

LEMMA VouchedStands ==
    ASSUME NEW e \in [direct : JWKSs, discovery : URIs \cup {None}, at : [URIs -> JWKSs]],
           NEW v, v.uris \subseteq URIs, v.jwks \subseteq JWKSs
    PROVE  StoodFor(e, Vouched(e, v))
<1> DEFINE w == Vouched(e, v)
           uris == v.uris \cup ({e.discovery} \cap SecureURIs)
<1>1. w.uris = uris /\ w.jwks = v.jwks \cup {e.direct} \cup {e.at[u] : u \in uris}
  BY DEF Vouched
<1>2. uris \subseteq URIs
  BY DIDAssumption
<1>3. w.jwks \subseteq JWKSs
  BY <1>1, <1>2
<1> HIDE DEF w
<1>4. StoodFor(e, w)
  BY <1>1, <1>2, <1>3 DEF StoodFor
<1> QED BY <1>4 DEF w

LEMMA ConcludeKeeps ==
    ASSUME GenuineInv, pc # "idle", NEW jwks \in vouched.jwks \cup {None}, Conclude(jwks)
    PROVE  /\ answer' # None => Bound(answer') /\ Published(answer', vouched')
           /\ pc' = "idle"
<1> DEFINE a == EvaluateJwks(req, jwks)
<1>1. jwks # None => jwks \in Seq(Range(jwks))
  BY DIDAssumption DEF GenuineInv, StoodFor, JWKSs
<1>2. Bound(a) /\ (a.decision => jwks # None /\ FromKeys(a.doc, jwks))
  BY <1>1, JwksIsBound
<1>3. answer' = a /\ pc' = "idle" /\ vouched' = vouched
  BY DEF Conclude
<1> HIDE DEF a
<1> QED BY <1>2, <1>3 DEF Published

LEMMA EntriesStay ==
    ASSUME GenuineInv, NEW e, e.state.methods \in Seq(Range(e.state.methods)),
           log' \in {Append(log, e), Front(log), <<e>>}, log' = Front(log) => log # <<>>,
           UNCHANGED <<method, document, endpoints, jwksVars, answer>>, answer = None, HolderInv'
    PROVE  GenuineInv'
<1>1. IsSequence(log) /\ Len(log) \in Nat
  BY DEF GenuineInv, HolderInv, LogInv, IsSequence
<1>2. \A i \in 1 .. Len(log) : log[i].state.methods \in Seq(Range(log[i].state.methods))
  BY DEF GenuineInv, ServedType
<1>3. ASSUME NEW i \in 1 .. Len(log')
      PROVE  log'[i] = e \/ \E j \in 1 .. Len(log) : log'[i] = log[j]
  <2>1. CASE log' = Append(log, e)
    <3> DEFINE q == Append(log, e)
    <3>1. /\ Len(q) = Len(log) + 1 /\ q[Len(log) + 1] = e
          /\ \A j \in 1 .. Len(log) : q[j] = log[j]
      BY <1>1, Appended
    <3> HIDE DEF q
    <3>2. log' = q
      BY <2>1 DEF q
    <3> QED BY <1>1, <3>1, <3>2
  <2>2. CASE log' = Front(log)
    <3>1. PICK S : log \in Seq(S)
      BY <1>1 DEF IsSequence
    <3>2. log' = SubSeq(log, 1, Len(log) - 1)
      BY <2>2 DEF Front
    <3>3. Len(log) # 0
      BY <2>2, <3>1, EmptySeq
    <3> DEFINE n == Len(log) - 1
               q == SubSeq(log, 1, n)
    <3>4. 1 \in Int /\ n \in Int /\ n >= 0 /\ \A j \in 1 .. n : log[j] \in S
      BY <1>1, <3>1, <3>3
    <3> HIDE DEF n
    <3>5. Len(q) = n /\ \A j \in 1 .. n : q[j] = log[j]
      BY <3>1, <3>4
    <3> HIDE DEF q
    <3>6. log' = q
      BY <3>2 DEF n, q
    <3>7. i \in 1 .. n /\ i \in 1 .. Len(log)
      BY <1>1, <3>4, <3>5, <3>6 DEF n
    <3> QED BY <3>5, <3>6, <3>7
  <2>3. CASE log' = <<e>>
    BY <2>3
  <2> QED BY <2>1, <2>2, <2>3
<1>4. ServedType'
  BY <1>2, <1>3 DEF GenuineInv, ServedType
<1> QED BY <1>4 DEF GenuineInv, jwksVars, StoodFor

LEMMA GenuineStart == DIDInit => GenuineInv
<1> SUFFICES ASSUME DIDInit PROVE GenuineInv
  OBVIOUS
<1>1. HolderInv
  BY LogStart DEF DIDInit, HolderInv
<1>2. \A i \in 1 .. Len(log) : log[i].state.methods \in Seq(Range(log[i].state.methods))
  <2>1. CASE log = <<Genesis>>
    <3>1. \A i \in 1 .. Len(log) : log[i] = Genesis
      BY <2>1
    <3> QED BY <3>1, DIDAssumption
  <2>2. CASE log = <<>>
    BY <2>2
  <2> QED BY <2>1, <2>2 DEF DIDInit
<1>3. endpoints \in [direct : JWKSs, discovery : URIs \cup {None}, at : [URIs -> JWKSs]]
  BY DEF DIDInit, NothingServed, JWKSs
<1>4. ServedType
  BY <1>2, <1>3 DEF DIDInit, ServedType
<1> QED BY <1>1, <1>4 DEF DIDInit, GenuineInv

LEMMA GenuineStep == GenuineInv /\ [DIDNext]_didVars => GenuineInv'
<1> SUFFICES ASSUME GenuineInv, [DIDNext]_didVars PROVE GenuineInv'
  OBVIOUS
<1>0. HolderInv'
  BY HolderStep DEF GenuineInv
<1>1. CASE Deliver
  <2>1. /\ UNCHANGED <<method, log, document, endpoints, pc>> /\ answer # None /\ answer' = None
    BY <1>1 DEF Deliver, worldVars
  <2>2. pc = "idle"
    BY <2>1 DEF GenuineInv
  <2> QED BY <1>0, <2>1, <2>2 DEF GenuineInv, ServedType
<1>2. ASSUME NEW c \in EntryChoices, PublishEntry(c) PROVE GenuineInv'
  <2>1. PICK n, prev : log' = Append(log, Written(c, n, prev))
    BY <1>2 DEF PublishEntry
  <2>2. Written(c, n, prev).state = c.state
    BY DEF Written
  <2>3. /\ UNCHANGED <<method, document, endpoints, jwksVars, answer>> /\ answer = None
        /\ c.state.methods \in Seq(Range(c.state.methods))
        /\ log' = Front(log) => log # <<>>
    <3>1. log # <<>>
      BY <1>2 DEF PublishEntry, Log!processDIDLog
    <3> QED BY <1>2, <3>1, DIDAssumption DEF PublishEntry
  <2> DEFINE e == Written(c, n, prev)
  <2> HIDE DEF e
  <2>4. log' = Append(log, e) /\ e.state = c.state
    BY <2>1, <2>2 DEF e
  <2> QED BY <1>0, <2>3, <2>4, EntriesStay
<1>3. ASSUME NEW c \in EntryChoices \cup {None}, PublishGenesis(c) PROVE GenuineInv'
  <2> DEFINE e == IF c = None THEN Genesis ELSE Written(c, 1, c.parameters.scid)
  <2>1. log' = <<e>>
    BY <1>3 DEF PublishGenesis
  <2>2. e.state.methods \in Seq(Range(e.state.methods))
    <3>1. CASE c = None
      BY <3>1, DIDAssumption
    <3>2. CASE c # None
      <4>1. e.state = c.state /\ c \in EntryChoices
        BY <3>2 DEF Written
      <4> HIDE DEF e
      <4> QED BY <4>1, DIDAssumption
    <3> QED BY <3>1, <3>2
  <2> HIDE DEF e
  <2>3. UNCHANGED <<method, document, endpoints, jwksVars, answer>> /\ answer = None
    BY <1>3 DEF PublishGenesis
  <2>4. log' = Front(log) => log # <<>>
    <3>1. <<e>> # <<>>
      OBVIOUS
    <3>2. Front(<<>>) = <<>>
      BY DEF Front
    <3> QED BY <2>1, <3>1, <3>2
  <2> QED BY <1>0, <2>1, <2>2, <2>3, <2>4, EntriesStay
<1>4. CASE WithdrawEntry
  <2>1. /\ log' = Front(log) /\ log # <<>> /\ answer = None
        /\ UNCHANGED <<method, document, endpoints, jwksVars, answer>>
    BY <1>4 DEF WithdrawEntry
  <2>2. Genesis.state.methods \in Seq(Range(Genesis.state.methods))
    BY DIDAssumption
  <2> QED BY <1>0, <2>1, <2>2, EntriesStay
<1>5. CASE PublishDocument
  BY <1>0, <1>5 DEF PublishDocument, GenuineInv, ServedType, jwksVars, StoodFor
<1>6. ASSUME NEW r \in Requests[method], WebVH(r) PROVE GenuineInv'
  <2>1. /\ UNCHANGED <<method, log, document, endpoints, pc, uri, vouched>> /\ method = "webvh"
        /\ answer' = EvaluateWebVH(r, r.subject.did.scid)
    BY <1>6 DEF WebVH, worldVars, jwksVars
  <2>2. Log!processDIDLog(log, r.subject.did.scid, Now) => HasMethods(LogDocument(Last(log)))
    <3> SUFFICES ASSUME log # <<>> PROVE HasMethods(LogDocument(Last(log)))
      BY DEF Log!processDIDLog
    <3>1. PICK S : log \in Seq(S)
      BY DEF GenuineInv, HolderInv, LogInv, IsSequence
    <3>2. Len(log) \in 1 .. Len(log)
      BY <3>1, EmptySeq
    <3>3. LogDocument(Last(log)).methods = log[Len(log)].state.methods
      BY DEF LogDocument, Last
    <3> QED BY <3>2, <3>3 DEF GenuineInv, ServedType, HasMethods
  <2>3. Bound(EvaluateWebVH(r, r.subject.did.scid))
    <3>1. r.subject.did.method = "webvh"
      BY <1>6, <2>1, DIDAssumption
    <3> QED BY <2>2, <3>1, WebVHIsBound
  <2>4. pc = "idle"
    BY <2>1 DEF GenuineInv, HolderInv
  <2> DEFINE a == EvaluateWebVH(r, r.subject.did.scid)
  <2>5. answer' = a /\ Bound(a)
    BY <2>1, <2>3
  <2> HIDE DEF a
  <2> QED BY <1>0, <2>1, <2>4, <2>5 DEF GenuineInv, ServedType
<1>7. ASSUME NEW r \in Requests[method], Web(r) PROVE GenuineInv'
  <2> DEFINE doc == IF URL(r.subject.did) = URL(DID["web"]) THEN document ELSE None
             a == EvaluateWeb(r, doc)
  <2>1. UNCHANGED <<method, log, document, endpoints, pc, uri, vouched>> /\ method = "web" /\ answer' = a
    BY <1>7 DEF Web, worldVars, jwksVars
  <2>2. doc # None => HasMethods(doc)
    <3>1. doc \in {document, None} /\ document \in Documents \cup {None}
      BY DEF GenuineInv, ServedType
    <3> HIDE DEF doc
    <3> QED BY <3>1, DIDAssumption DEF HasMethods
  <2> HIDE DEF doc
  <2>3. Bound(a)
    BY <2>2, WebIsBound
  <2>4. pc = "idle"
    BY <2>1 DEF GenuineInv, HolderInv
  <2> HIDE DEF a
  <2> QED BY <1>0, <2>1, <2>3, <2>4 DEF GenuineInv, ServedType
<1>8. ASSUME NEW r \in Requests[method], Local(r) PROVE GenuineInv'
  <2> DEFINE a == EvaluateLocal(r)
  <2>1. UNCHANGED <<method, log, document, endpoints, pc, uri, vouched>> /\ method = "local" /\ answer' = a
    BY <1>8 DEF Local, worldVars, jwksVars
  <2>2. Bound(a)
    BY <1>8, <2>1, LocalIsBound
  <2>3. pc = "idle"
    BY <2>1 DEF GenuineInv, HolderInv
  <2> HIDE DEF a
  <2> QED BY <1>0, <2>1, <2>2, <2>3 DEF GenuineInv, ServedType
<1>9. ASSUME NEW r \in Requests[method], CallJwks(r) PROVE GenuineInv'
  <2>1. /\ UNCHANGED <<method, log, document, endpoints, answer>> /\ answer = None /\ pc' = "direct"
        /\ vouched' = Vouched(endpoints, [uris |-> {}, jwks |-> {}])
    BY <1>9 DEF CallJwks, worldVars
  <2> DEFINE v == [uris |-> {}, jwks |-> {}]
  <2>2. v.uris = {} /\ v.jwks = {}
    OBVIOUS
  <2> HIDE DEF v
  <2>3. StoodFor(endpoints, Vouched(endpoints, v))
    BY <2>2, VouchedStands DEF GenuineInv, ServedType
  <2>4. StoodFor(endpoints', vouched')
    BY <2>1, <2>3 DEF v
  <2> QED BY <1>0, <2>1, <2>4 DEF GenuineInv, ServedType
<1>10. ASSUME NEW jwks \in vouched.jwks \cup {None}, pc # "idle", Conclude(jwks) PROVE GenuineInv'
  <2>1. (answer' # None => Bound(answer') /\ Published(answer', vouched')) /\ pc' = "idle"
    BY <1>10, ConcludeKeeps
  <2>2. UNCHANGED <<method, log, document, endpoints>>
    BY <1>10 DEF Conclude, worldVars
  <2> QED BY <1>0, <2>1, <2>2 DEF GenuineInv, ServedType
<1>11. ASSUME NEW step, NEW u, pc # "idle", step \in {"discovery", "indirect"},
              step = "indirect" => u \in vouched.uris, GoOn(step, u)
       PROVE  GenuineInv'
  BY <1>0, <1>11 DEF GoOn, worldVars, GenuineInv, ServedType, StoodFor
<1>12. CASE FetchDirect
  <2>1. pc # "idle" /\ endpoints.direct \in vouched.jwks
    BY <1>12 DEF FetchDirect, GenuineInv, StoodFor
  <2>2. PICK jwks \in Fetched(endpoints.direct) :
               IF jwks # None THEN Conclude(jwks) ELSE GoOn("discovery", None)
    BY <1>12 DEF FetchDirect
  <2>3. jwks \in vouched.jwks \cup {None}
    BY <2>1 DEF Fetched
  <2> QED BY <1>10, <1>11, <2>1, <2>2, <2>3
<1>13. CASE FetchDiscovery
  <2>1. pc # "idle" /\ (endpoints.discovery \in SecureURIs => endpoints.discovery \in vouched.uris)
    BY <1>13 DEF FetchDiscovery, GenuineInv, StoodFor
  <2>2. PICK u \in {None, endpoints.discovery} :
               IF u \in SecureURIs THEN GoOn("indirect", u) ELSE Conclude(None)
    BY <1>13 DEF FetchDiscovery
  <2>3. u \in SecureURIs => u \in vouched.uris
    BY <2>1, DIDAssumption
  <2> QED BY <1>10, <1>11, <2>1, <2>2, <2>3
<1>14. CASE FetchIndirect
  <2>1. pc # "idle" /\ endpoints.at[uri] \in vouched.jwks
    BY <1>14 DEF FetchIndirect, GenuineInv, StoodFor
  <2>2. PICK jwks \in Fetched(endpoints.at[uri]) : Conclude(jwks)
    BY <1>14 DEF FetchIndirect
  <2>3. jwks \in vouched.jwks \cup {None}
    BY <2>1 DEF Fetched
  <2> QED BY <1>10, <2>1, <2>2, <2>3
<1>15. CASE ChangeEndpoints
  <2>1. /\ UNCHANGED <<method, log, document, pc, uri, answer>> /\ answer = None
        /\ vouched' = IF pc = "idle" THEN vouched ELSE Vouched(endpoints', vouched)
    BY <1>15 DEF ChangeEndpoints
  <2> DEFINE E == [direct : JWKSs, discovery : URIs \cup {None}, at : [URIs -> JWKSs]]
  <2>2. endpoints' \in E
    <3>1. endpoints \in E
      BY DEF GenuineInv, ServedType
    <3>2. ASSUME NEW j \in JWKSChoices, endpoints' = [endpoints EXCEPT !.direct = j] PROVE endpoints' \in E
      BY <3>1, <3>2 DEF JWKSs
    <3>3. ASSUME NEW u \in URIs \cup {None}, endpoints' = [endpoints EXCEPT !.discovery = u]
          PROVE  endpoints' \in E
      BY <3>1, <3>3
    <3>4. ASSUME NEW u \in URIs, NEW j \in JWKSChoices, endpoints' = [endpoints EXCEPT !.at[u] = j]
          PROVE  endpoints' \in E
      BY <3>1, <3>4 DEF JWKSs
    <3> QED BY <1>15, <3>2, <3>3, <3>4 DEF ChangeEndpoints
  <2>3. ServedType'
    BY <2>1, <2>2 DEF GenuineInv, ServedType
  <2>4. CASE pc = "idle"
    BY <1>0, <2>1, <2>3, <2>4 DEF GenuineInv
  <2>5. CASE pc # "idle"
    <3>1. StoodFor(endpoints', Vouched(endpoints', vouched))
      BY <2>2, <2>5, VouchedStands DEF GenuineInv, StoodFor
    <3>2. vouched.uris \subseteq Vouched(endpoints', vouched).uris
      BY DEF Vouched
    <3> QED BY <1>0, <2>1, <2>3, <2>5, <3>1, <3>2 DEF GenuineInv
  <2> QED BY <2>4, <2>5
<1>16. CASE UNCHANGED didVars
  BY <1>0, <1>16 DEF didVars, worldVars, jwksVars, GenuineInv, ServedType
<1> QED
  BY <1>1, <1>2, <1>3, <1>4, <1>5, <1>6, <1>7, <1>8, <1>9, <1>12, <1>13, <1>14, <1>15, <1>16 DEF DIDNext

(* What the callers sent reaches the decoder and the domain check as it is.*)
OverTheAlphabet(r) ==
    r.subject.did.method = "key" => r.subject.did.id.digits \in Seq(0 .. 57)

LabelsInOrder(r) ==
    r.subject.did.method \notin {"key", "jwk"} =>
        /\ r.subject.did.host.labels \in Seq(Range(r.subject.did.host.labels))
        /\ \A p \in r.context.allowed_domains : p.labels \in Seq(Range(p.labels))

Sent(r) == OverTheAlphabet(r) /\ LabelsInOrder(r)

SentInv ==
    /\ method \in Methods
    /\ answer # None => Sent(answer.req)
    /\ pc # "idle" => method = "jwks" /\ answer = None /\ Sent(req)

LEMMA AnswersNameTheRequest ==
    ASSUME NEW r, NEW doc, NEW vm, NEW scid
    PROVE  /\ EvaluateWebVH(r, scid).req = r /\ EvaluateWeb(r, doc).req = r
           /\ EvaluateLocal(r).req = r /\ EvaluateJwks(r, doc).req = r
<1>1. Deny(r).req = r
  BY DEF Deny
<1>2. ASSUME NEW d, NEW v PROVE Answered(r, d, v).req = r
  BY <1>1 DEF Answered
<1>3. EvaluateWebVH(r, scid).req = r
  BY <1>1, <1>2 DEF EvaluateWebVH
<1>4. EvaluateWeb(r, doc).req = r
  BY <1>1, <1>2 DEF EvaluateWeb
<1>5. EvaluateLocal(r).req = r
  BY <1>1, <1>2 DEF EvaluateLocal
<1>6. EvaluateJwks(r, doc).req = r
  BY <1>1, <1>2 DEF EvaluateJwks
<1> QED BY <1>3, <1>4, <1>5, <1>6

LEMMA SentStart == DIDInit => SentInv
  BY DEF DIDInit, SentInv

LEMMA SentStep == SentInv /\ [DIDNext]_didVars => SentInv'
<1> SUFFICES ASSUME SentInv, [DIDNext]_didVars PROVE SentInv'
  OBVIOUS
<1>1. \A r \in Requests[method] : Sent(r)
  BY DIDAssumption DEF SentInv, Sent, OverTheAlphabet, LabelsInOrder
<1>2. CASE Deliver
  BY <1>2 DEF Deliver, SentInv
<1>3. ASSUME NEW c, PublishEntry(c) \/ PublishGenesis(c) \/ WithdrawEntry \/ PublishDocument
      PROVE  SentInv'
  BY <1>3 DEF PublishEntry, PublishGenesis, WithdrawEntry, PublishDocument, jwksVars, SentInv
<1>4. ASSUME NEW r \in Requests[method], NEW a, a.req = r, answer' = a,
             UNCHANGED <<method, pc>>, method # "jwks"
      PROVE  SentInv'
  BY <1>1, <1>4 DEF SentInv
<1>5. ASSUME NEW r \in Requests[method], WebVH(r) PROVE SentInv'
  <2>1. answer' = EvaluateWebVH(r, r.subject.did.scid) /\ UNCHANGED <<method, pc>> /\ method # "jwks"
    BY <1>5 DEF WebVH, jwksVars
  <2> QED BY <1>4, <2>1, AnswersNameTheRequest
<1>6. ASSUME NEW r \in Requests[method], Web(r) PROVE SentInv'
  <2>1. PICK doc : answer' = EvaluateWeb(r, doc)
    BY <1>6 DEF Web
  <2>2. UNCHANGED <<method, pc>> /\ method # "jwks"
    BY <1>6 DEF Web, jwksVars
  <2> QED BY <1>4, <2>1, <2>2, AnswersNameTheRequest
<1>7. ASSUME NEW r \in Requests[method], Local(r) PROVE SentInv'
  <2>1. answer' = EvaluateLocal(r) /\ UNCHANGED <<method, pc>> /\ method # "jwks"
    BY <1>7 DEF Local, jwksVars
  <2> QED BY <1>4, <2>1, AnswersNameTheRequest
<1>8. ASSUME NEW r \in Requests[method], CallJwks(r) PROVE SentInv'
  BY <1>1, <1>8 DEF CallJwks, SentInv
<1>9. ASSUME NEW jwks, pc # "idle", Conclude(jwks) PROVE SentInv'
  <2>1. answer' = EvaluateJwks(req, jwks) /\ pc' = "idle" /\ UNCHANGED method
    BY <1>9 DEF Conclude
  <2>2. answer'.req = req
    BY <2>1, AnswersNameTheRequest
  <2> QED BY <1>9, <2>1, <2>2 DEF SentInv
<1>10. ASSUME NEW step, NEW u, pc # "idle", GoOn(step, u) PROVE SentInv'
  BY <1>10 DEF GoOn, SentInv
<1>11. CASE FetchDirect \/ FetchDiscovery \/ FetchIndirect
  <2>1. pc # "idle"
    BY <1>11 DEF FetchDirect, FetchDiscovery, FetchIndirect
  <2>2. (\E jwks : Conclude(jwks)) \/ (\E step, u : GoOn(step, u))
    <3>1. CASE FetchDirect
      BY <3>1 DEF FetchDirect
    <3>2. CASE FetchDiscovery
      BY <3>2 DEF FetchDiscovery
    <3>3. CASE FetchIndirect
      BY <3>3 DEF FetchIndirect
    <3> QED BY <1>11, <3>1, <3>2, <3>3
  <2> QED BY <1>9, <1>10, <2>1, <2>2
<1>12. CASE ChangeEndpoints
  BY <1>12 DEF ChangeEndpoints, SentInv
<1>13. CASE UNCHANGED didVars
  BY <1>13 DEF didVars, jwksVars, SentInv
<1> QED
  BY <1>2, <1>3, <1>5, <1>6, <1>7, <1>8, <1>11, <1>12, <1>13 DEF DIDNext

(* A pattern that matches is one the host is in.                           *)
LEMMA MatchedIsInDomain ==
    ASSUME NEW host, host.labels \in Seq(Range(host.labels)),
           NEW allowed, \A p \in allowed : p.labels \in Seq(Range(p.labels)),
           matchesDomain(host, allowed)
    PROVE  \E p \in allowed : InDomain(host, p)
<1>1. PICK p \in allowed :
         /\ p.port = host.port
         /\ IF p.wild THEN IsStrictSuffix(p.labels, host.labels) ELSE p.labels = host.labels
  BY DEF matchesDomain
<1> DEFINE h == host.labels  l == p.labels  m == Len(h)  n == Len(l)
<1>2. /\ h \in Seq(Range(h)) /\ l \in Seq(Range(l)) /\ m \in Nat /\ n \in Nat
      /\ h = [i \in 1 .. m |-> h[i]] /\ l = [i \in 1 .. n |-> l[i]]
  BY LenProperties
<1>3. CASE ~p.wild
  <2>1. l = h /\ n = m
    BY <1>1, <1>3
  <2>2. m - n = 0 /\ \A i \in 1 .. n : (m - n) + i = i
    <3> HIDE DEF m, n
    <3> QED BY <1>2, <2>1
  <2> HIDE DEF m, n, h, l
  <2>3. \A i \in 1 .. n : h[(m - n) + i] = l[i]
    BY <2>1, <2>2
  <2> QED BY <1>1, <1>3, <2>2, <2>3 DEF InDomain, h, l, m, n
<1>4. CASE p.wild
  <2>1. /\ l # h /\ Len(Reverse(l)) <= Len(Reverse(h))
        /\ SubSeq(Reverse(l), 1, Len(Reverse(l))) = SubSeq(Reverse(h), 1, Len(Reverse(l)))
    BY <1>1, <1>4 DEF IsStrictSuffix, IsSuffix, IsPrefix
  <2>2. /\ Reverse(l) = [i \in 1 .. n |-> l[(n - i) + 1]] /\ Len(Reverse(l)) = n
        /\ Reverse(h) = [i \in 1 .. m |-> h[(m - i) + 1]] /\ Len(Reverse(h)) = m
    BY <1>2 DEF Reverse
  <2> HIDE DEF m, n, h, l
  <2>3. n <= m
    BY <2>1, <2>2
  <2>4. ASSUME NEW i \in 1 .. n PROVE h[(m - n) + i] = l[i]
    <3>1. PICK j \in 1 .. n : j = (n - i) + 1
      BY <1>2
    <3>2. SubSeq(Reverse(l), 1, n)[j] = Reverse(l)[j] /\ SubSeq(Reverse(h), 1, n)[j] = Reverse(h)[j]
      <4>1. /\ SubSeq(Reverse(l), 1, n) = [x \in 1 .. n |-> Reverse(l)[x]]
            /\ SubSeq(Reverse(h), 1, n) = [x \in 1 .. n |-> Reverse(h)[x]]
        BY <1>2, <2>2, <2>3
      <4> QED BY <4>1
    <3>3. Reverse(l)[j] = l[i]
      <4>1. (n - j) + 1 = i
        BY <1>2, <3>1
      <4> QED BY <2>2, <4>1
    <3>4. Reverse(h)[j] = h[(m - n) + i]
      <4>1. n \in Nat /\ m \in Nat /\ i \in Nat
        BY <1>2
      <4>2. (m - j) + 1 = (m - n) + i
        BY <3>1, <4>1
      <4>3. j \in 1 .. m
        BY <2>3, <4>1
      <4> QED BY <2>2, <4>2, <4>3
    <3> QED BY <2>1, <2>2, <3>2, <3>3, <3>4
  <2>5. m # n
    <3> SUFFICES ASSUME m = n PROVE FALSE
      OBVIOUS
    <3>1. \A i \in 1 .. n : (m - n) + i = i
      BY <1>2
    <3>2. \A i \in 1 .. n : h[i] = l[i]
      BY <2>4, <3>1
    <3>3. h = l
      BY <1>2, <3>2
    <3> QED BY <2>1, <3>3
  <2>6. m - n > 0
    BY <1>2, <2>3, <2>5
  <2> QED BY <1>1, <1>4, <2>4, <2>6 DEF InDomain, h, l, m, n
<1> QED BY <1>3, <1>4

LEMMA RoleIsKept == SentInv /\ (answer # None => Bound(answer)) => KeepsTheRole
<1> SUFFICES ASSUME SentInv, answer # None, answer.decision, Bound(answer) PROVE KeepsTheRole
  BY DEF KeepsTheRole
<1> DEFINE did == answer.req.subject.did  doc == answer.doc  context == answer.req.context
<1>1. checkPolicyConstraints(did, doc, context)
  BY DEF Bound
<1>2. LabelsInOrder(answer.req)
  BY DEF SentInv, Sent
<1>3. ASSUME context.allowed_domains # {}, did.method \notin {"key", "jwk"}
      PROVE  \E p \in context.allowed_domains : InDomain(did.host, p)
  <2>1. matchesDomain(did.host, context.allowed_domains)
    BY <1>1, <1>3 DEF checkPolicyConstraints, DomainAllowed
  <2> QED BY <1>2, <1>3, <2>1, MatchedIsInDomain DEF LabelsInOrder
<1>4. \A t \in context.required_verification_methods :
         \E i \in DOMAIN doc.methods : doc.methods[i].type = t
  BY <1>1 DEF checkPolicyConstraints, HasVerificationMethods
<1>5. did.method # "jwks" => \A x \in context.required_services : x \in doc.services
  BY <1>1 DEF checkPolicyConstraints, HasServices
<1> QED BY <1>3, <1>4, <1>5 DEF KeepsTheRole

(* Whatever the hosts serve and change, also during an evaluation, every   *)
(* approval is about the DID that was asked for, binds a key of its own    *)
(* document, keeps the domains, method types and services of its role, and *)
(* uses of a did:jwks only what its host stood for meanwhile (Evaluate and *)
(* checkPolicyConstraints of the four registries, resolveJWKS).            *)
THEOREM ApprovalsStayGenuine == Spec => []ApprovalsAreGenuine
<1>1. Init => GenuineInv /\ SentInv
  BY GenuineStart, SentStart DEF Init
<1>2. GenuineInv /\ SentInv => ApprovalsAreGenuine
  <2> SUFFICES ASSUME GenuineInv, SentInv PROVE ApprovalsAreGenuine
    OBVIOUS
  <2>1. BoundToSubject
    BY BoundIsBound DEF GenuineInv
  <2>2. KeysWerePublished
    BY DEF GenuineInv, Published, FromKeys, KeysWerePublished
  <2>3. KeepsTheRole
    BY RoleIsKept DEF GenuineInv
  <2> QED BY <2>1, <2>2, <2>3 DEF ApprovalsAreGenuine
<1> QED BY <1>1, <1>2, GenuineStep, SentStep, DIDInNext, PTL DEF Spec, allVars

-----------------------------------------------------------------------------
(* The two base58 conversions, for strings of any length.  A buffer stands *)
(* for a number: rests[i] is what its digits after the i-th stand for, and *)
(* its last digit is not 0.                                                *)
Radices == {58, 256}

Rests(rests, b, r) ==
    /\ rests \in [0 .. Len(b) -> Nat] /\ rests[Len(b)] = 0
    /\ \A i \in 1 .. Len(b) : rests[i - 1] = b[i] + r * rests[i]

StandsFor(b, n, r) ==
    /\ b \in Seq(0 .. r - 1) /\ (Len(b) > 0 => b[Len(b)] # 0)
    /\ \E rests : Rests(rests, b, r) /\ rests[0] = n

(* What the first i digits of s stand for, the most significant first.     *)
Reads(w, s, r) ==
    /\ w \in [0 .. Len(s) -> Nat] /\ w[0] = 0
    /\ \A i \in 1 .. Len(s) : w[i] = r * w[i - 1] + s[i]

LEMMA Division ==
    ASSUME NEW n \in Nat, NEW r \in Radices
    PROVE  /\ n % r \in 0 .. r - 1 /\ n \div r \in Nat
           /\ n = (n % r) + r * (n \div r)
           /\ n > 0 => n \div r < n
<1>1. CASE r = 58
  BY <1>1
<1>2. CASE r = 256
  BY <1>2
<1> QED BY <1>1, <1>2 DEF Radices

LEMMA Product ==
    ASSUME NEW n \in Nat, NEW r \in Radices
    PROVE  r * n \in Nat /\ r * n >= n /\ r * 0 = 0
<1>1. CASE r = 58
  BY <1>1
<1>2. CASE r = 256
  BY <1>2
<1> QED BY <1>1, <1>2 DEF Radices

(* The digits of a quotient, with the remainder before them.               *)
LEMMA StandsLonger ==
    ASSUME NEW r \in Radices, NEW n \in Nat, n > 0, NEW b, StandsFor(b, n \div r, r)
    PROVE  StandsFor(<<n % r>> \o b, n, r)
<1> DEFINE s == <<n % r>> \o b
           k == n \div r
<1>1. PICK rests : Rests(rests, b, r) /\ rests[0] = k
  BY DEF StandsFor
<1>2. n % r \in 0 .. r - 1 /\ k \in Nat /\ n = (n % r) + r * k
  BY Division
<1>3. b \in Seq(0 .. r - 1) /\ <<n % r>> \in Seq(0 .. r - 1) /\ Len(<<n % r>>) = 1
  BY <1>2 DEF StandsFor
<1>4. /\ s \in Seq(0 .. r - 1) /\ Len(s) = Len(b) + 1 /\ Len(b) \in Nat
      /\ s[1] = n % r /\ \A i \in 2 .. Len(s) : s[i] = b[i - 1]
  <2>1. Len(b) \in Nat
    BY <1>3, LenProperties
  <2> QED BY <1>3, <2>1, ConcatProperties
<1> DEFINE more == [i \in 0 .. Len(s) |-> IF i = 0 THEN n ELSE rests[i - 1]]
<1>5. Rests(more, s, r) /\ more[0] = n
  <2> HIDE DEF s, k
  <2>1. more \in [0 .. Len(s) -> Nat] /\ more[0] = n /\ more[Len(s)] = 0
    BY <1>1, <1>4 DEF Rests
  <2>2. ASSUME NEW i \in 1 .. Len(s) PROVE more[i - 1] = s[i] + r * more[i]
    <3>1. CASE i = 1
      <4>1. more[0] = n /\ more[1] = rests[0]
        BY <1>4
      <4> QED BY <1>1, <1>2, <1>4, <3>1, <4>1
    <3>2. CASE i # 1
      <4>1. i - 1 \in 1 .. Len(b) /\ i \in 2 .. Len(s) /\ more[i] = rests[i - 1] /\ more[i - 1] = rests[(i - 1) - 1]
        BY <1>4, <3>2
      <4> HIDE DEF more
      <4> QED BY <1>1, <1>4, <4>1 DEF Rests
    <3> QED BY <3>1, <3>2
  <2> QED BY <2>1, <2>2 DEF Rests
<1>6. s[Len(s)] # 0
  <2>1. CASE Len(b) > 0
    BY <1>4, <2>1 DEF StandsFor
  <2>2. CASE Len(b) = 0
    <3>1. k = 0 /\ s[Len(s)] = n % r
      BY <1>1, <1>4, <2>2 DEF Rests
    <3> HIDE DEF s, k
    <3> QED BY <1>2, <3>1, Product
  <2> QED BY <1>4, <2>1, <2>2
<1> HIDE DEF s, more
<1> QED BY <1>4, <1>5, <1>6 DEF StandsFor, s

LEMMA NothingStandsForZero ==
    ASSUME NEW r \in Radices
    PROVE  StandsFor(<<>>, 0, r)
<1>1. Rests([i \in 0 .. 0 |-> 0], <<>>, r)
  BY DEF Rests
<1> QED BY <1>1 DEF StandsFor

(* The loop that empties the carry writes its digits.                      *)
LEMMA DigitsStand ==
    ASSUME NEW n \in Nat, NEW r \in Radices
    PROVE  StandsFor(Digits(n, r), n, r)
<1> DEFINE D == Seq(0 .. r - 1)
           Rec(d, m) == /\ d \in [0 .. m -> D]
                        /\ \A k \in 0 .. m : StandsFor(d[k], k, r)
                        /\ \A k \in 0 .. m : d[k] = IF k = 0 THEN <<>> ELSE <<k % r>> \o d[k \div r]
           T == {m \in 0 .. n : ~\E d : Rec(d, m)}
<1>1. ASSUME T # {} PROVE FALSE
  <2>1. PICK m \in T : \A k \in T : ~(k < m)
    <3>1. T \in SUBSET Nat
      OBVIOUS
    <3> HIDE DEF T
    <3> QED BY <1>1, <3>1, Smallest
  <2>2. CASE m = 0
    <3>1. Rec([k \in 0 .. 0 |-> <<>>], 0)
      BY NothingStandsForZero
    <3> QED BY <2>1, <2>2, <3>1
  <2>3. CASE m # 0
    <3>1. m \in Nat /\ m > 0 /\ m - 1 \in 0 .. n /\ m - 1 < m
      BY <2>1, <2>3
    <3>2. m - 1 \notin T
      <4> HIDE DEF T
      <4> QED BY <2>1, <3>1
    <3>3. PICK d : Rec(d, m - 1)
      BY <3>1, <3>2
    <3> DEFINE e == <<m % r>> \o d[m \div r]
               f == [k \in 0 .. m |-> IF k < m THEN d[k] ELSE e]
    <3>4. m \div r \in 0 .. m - 1
      BY <3>1, Division
    <3>5. StandsFor(e, m, r)
      BY <3>1, <3>3, <3>4, StandsLonger
    <3>6. e \in D
      <4> HIDE DEF e
      <4> QED BY <3>5 DEF StandsFor
    <3>7. ASSUME NEW k \in 0 .. m
          PROVE  /\ f[k] \in D /\ StandsFor(f[k], k, r)
                 /\ f[k] = IF k = 0 THEN <<>> ELSE <<k % r>> \o f[k \div r]
      <4>1. CASE k = m
        <5>1. f[k] = e /\ f[m \div r] = d[m \div r]
          BY <3>1, <3>4, <4>1
        <5> HIDE DEF f
        <5>2. f[k] \in D /\ StandsFor(f[k], k, r)
          <6> HIDE DEF e
          <6> QED BY <3>5, <3>6, <4>1, <5>1
        <5>3. f[k] = <<k % r>> \o f[k \div r]
          BY <4>1, <5>1
        <5> QED BY <2>3, <4>1, <5>2, <5>3
      <4>2. CASE k # m
        <5>0. k \in Nat /\ (k > 0 => k \div r \in Nat /\ k \div r < k)
          BY <3>1, Division
        <5>1. k \in 0 .. m - 1 /\ f[k] = d[k] /\ (k > 0 => k \div r \in 0 .. m - 1 /\ k \div r < m)
          BY <3>1, <4>2, <5>0
        <5>2. k > 0 => f[k \div r] = d[k \div r]
          BY <5>1
        <5>3. d[k] \in D /\ StandsFor(d[k], k, r) /\ d[k] = IF k = 0 THEN <<>> ELSE <<k % r>> \o d[k \div r]
          BY <3>3, <5>1
        <5> HIDE DEF f, Rec
        <5>4. CASE k = 0
          BY <5>1, <5>3, <5>4
        <5>5. CASE k > 0
          BY <5>1, <5>2, <5>3, <5>5
        <5> QED BY <5>1, <5>4, <5>5
      <4> QED BY <4>1, <4>2
    <3>8. f \in [0 .. m -> D]
      <4>1. f = [k \in 0 .. m |-> f[k]]
        OBVIOUS
      <4> HIDE DEF f
      <4> QED BY <3>7, <4>1
    <3>9. Rec(f, m)
      <4> HIDE DEF f
      <4> QED BY <3>7, <3>8
    <3> HIDE DEF f, Rec
    <3> QED BY <2>1, <3>9
  <2> QED BY <2>2, <2>3
<1>2. n \notin T
  <2> HIDE DEF T
  <2> QED BY <1>1
<1>3. PICK d : Rec(d, n)
  BY <1>2
<1> DEFINE IsDigits(f) == f = [k \in 0 .. n |-> IF k = 0 THEN <<>> ELSE <<k % r>> \o f[k \div r]]
           w == CHOOSE f : IsDigits(f)
<1>4. IsDigits(d)
  BY <1>3
<1>5. IsDigits(w)
  <2> HIDE DEF IsDigits
  <2> QED BY <1>4
<1> HIDE DEF w
<1> DEFINE U == {k \in 0 .. n : w[k] # d[k]}
<1>6. ASSUME U # {} PROVE FALSE
  <2>1. PICK m \in U : \A k \in U : ~(k < m)
    <3>1. U \in SUBSET Nat
      OBVIOUS
    <3> HIDE DEF U
    <3> QED BY <1>6, <3>1, Smallest
  <2>2. CASE m = 0
    BY <1>4, <1>5, <2>1, <2>2
  <2>3. CASE m # 0
    <3>1. m \in Nat /\ m > 0 /\ m \in 0 .. n
      BY <2>1, <2>3
    <3>2. m \div r \in 0 .. n /\ m \div r < m
      BY <3>1, Division
    <3>3. m \div r \notin U
      <4> HIDE DEF U
      <4> QED BY <2>1, <3>2
    <3>4. w[m \div r] = d[m \div r]
      BY <3>2, <3>3
    <3>5. w[m] = <<m % r>> \o w[m \div r] /\ d[m] = <<m % r>> \o d[m \div r]
      BY <1>4, <1>5, <2>3, <3>1
    <3> QED BY <2>1, <3>4, <3>5
  <2> QED BY <2>2, <2>3
<1>7. n \in 0 .. n
  OBVIOUS
<1>8. w[n] = d[n]
  BY <1>6, <1>7
<1>9. Digits(n, r) = w[n]
  BY DEF Digits, w
<1> QED BY <1>3, <1>7, <1>8, <1>9

LEMMA StaysIn ==
    ASSUME NEW n \in Nat, NEW D, NEW g, g[0] \in D,
           \A i \in 1 .. n : g[i - 1] \in D => g[i] \in D
    PROVE  \A i \in 0 .. n : g[i] \in D
<1> DEFINE T == {i \in 0 .. n : g[i] \notin D}
<1>1. T \in SUBSET Nat
  OBVIOUS
<1>2. ASSUME T # {} PROVE FALSE
  <2>1. PICK m \in T : \A i \in T : ~(i < m)
    <3> HIDE DEF T
    <3> QED BY <1>1, <1>2, Smallest
  <2>2. m \in 1 .. n /\ m - 1 \in 0 .. n /\ m - 1 < m
    BY <2>1
  <2>3. m - 1 \notin T
    <3> HIDE DEF T
    <3> QED BY <2>1, <2>2
  <2> QED BY <2>1, <2>2, <2>3
<1> QED BY <1>2

Iterates(g, n, D, base, F) ==
    /\ g \in [0 .. n -> D] /\ g[0] = base
    /\ \A i \in 1 .. n : g[i] = F[<<i, g[i - 1]>>]

LEMMA Recursion ==
    ASSUME NEW n, n \in Nat, NEW D, NEW base, base \in D,
           NEW F, F \in [(1 .. n) \X D -> D]
    PROVE  \E g : Iterates(g, n, D, base, F)
<1> DEFINE Rec(g, m) == /\ g \in [0 .. m -> D] /\ g[0] = base
                        /\ \A i \in 1 .. m : g[i] = F[<<i, g[i - 1]>>]
           T == {m \in 0 .. n : ~\E g : Rec(g, m)}
<1>1. ASSUME T # {} PROVE FALSE
  <2>1. PICK m \in T : \A k \in T : ~(k < m)
    <3>1. T \in SUBSET Nat
      OBVIOUS
    <3> HIDE DEF T
    <3> QED BY <1>1, <3>1, Smallest
  <2>2. CASE m = 0
    <3>1. Rec([i \in 0 .. 0 |-> base], 0)
      OBVIOUS
    <3> QED BY <2>1, <2>2, <3>1
  <2>3. CASE m # 0
    <3>1. m \in 1 .. n /\ m - 1 \in 0 .. n /\ m - 1 < m
      BY <2>1, <2>3
    <3>2. m - 1 \notin T
      <4> HIDE DEF T
      <4> QED BY <2>1, <3>1
    <3>3. PICK f : Rec(f, m - 1)
      BY <3>1, <3>2
    <3> DEFINE e == F[<<m, f[m - 1]>>]
               g == [i \in 0 .. m |-> IF i < m THEN f[i] ELSE e]
    <3>4. f[m - 1] \in D /\ e \in D
      BY <3>1, <3>3
    <3>5. g \in [0 .. m -> D] /\ g[0] = base
      <4> HIDE DEF e
      <4> QED BY <3>1, <3>3, <3>4
    <3>6. ASSUME NEW i \in 1 .. m PROVE g[i] = F[<<i, g[i - 1]>>]
      <4>1. i - 1 \in 0 .. m /\ i - 1 < m /\ g[i - 1] = f[i - 1]
        BY <3>1
      <4>2. CASE i < m
        <5>1. i \in 1 .. m - 1 /\ i \in 0 .. m /\ g[i] = f[i]
          BY <3>1, <4>2
        <5> HIDE DEF g, e
        <5> QED BY <3>3, <4>1, <5>1
      <4>3. CASE i = m
        <5>1. g[i] = e
          BY <3>1, <4>3
        <5> HIDE DEF g
        <5> QED BY <4>1, <4>3, <5>1
      <4> QED BY <4>2, <4>3, <3>1
    <3>7. Rec(g, m)
      <4> HIDE DEF g
      <4> QED BY <3>5, <3>6
    <3> HIDE DEF g, Rec
    <3> QED BY <2>1, <3>7
  <2> QED BY <2>2, <2>3
<1>2. n \notin T
  <2> HIDE DEF T
  <2> QED BY <1>1
<1> QED BY <1>2 DEF Iterates

(* What one turn of the outer loop carries from digit to digit.            *)
Carries(carry, b, from, c, r) ==
    /\ carry \in [0 .. Len(b) -> Nat] /\ carry[0] = c
    /\ \A i \in 1 .. Len(b) : carry[i] = (carry[i - 1] + from * b[i]) \div r
    /\ MultiplyAdd(b, from, c, r) =
           [i \in 1 .. Len(b) |-> (carry[i - 1] + from * b[i]) % r] \o Digits(carry[Len(b)], r)

LEMMA CarriesExist ==
    ASSUME NEW b \in Seq(Nat), NEW from \in Radices, NEW c \in Nat, NEW r \in Radices
    PROVE  \E carry : Carries(carry, b, from, c, r)
<1> DEFINE n == Len(b)
           Step(i, x) == (x + from * b[i]) \div r
           Rec(g) == g = [i \in 0 .. n |-> IF i = 0 THEN c ELSE Step(i, g[i - 1])]
           w == CHOOSE g : Rec(g)
<1>1. n \in Nat
  BY LenProperties
<1>2. ASSUME NEW i \in 1 .. n, NEW x \in Nat PROVE Step(i, x) \in Nat
  <2>1. b[i] \in Nat
    OBVIOUS
  <2>2. x + from * b[i] \in Nat
    <3>1. from * b[i] \in Nat
      BY <2>1, Product
    <3> HIDE DEF n
    <3> QED BY <3>1
  <2> QED BY <2>2, Division
<1>3. \E g : Rec(g)
  <2> DEFINE F == [p \in (1 .. n) \X Nat |-> Step(p[1], p[2])]
  <2>1. F \in [(1 .. n) \X Nat -> Nat]
    <3> HIDE DEF Step, n
    <3> QED BY <1>2
  <2>2. PICK g : Iterates(g, n, Nat, c, F)
    <3> HIDE DEF F, n
    <3> QED BY <1>1, <2>1, Recursion
  <2>3. ASSUME NEW i \in 0 .. n PROVE g[i] = IF i = 0 THEN c ELSE Step(i, g[i - 1])
    <3>1. CASE i # 0
      <4>1. i \in 1 .. n /\ i - 1 \in 0 .. n
        <5> HIDE DEF n
        <5> QED BY <1>1, <3>1
      <4>2. g[i - 1] \in Nat
        <5> HIDE DEF n, F
        <5> QED BY <2>2, <4>1 DEF Iterates
      <4>3. F[<<i, g[i - 1]>>] = Step(i, g[i - 1])
        <5> HIDE DEF Step, n
        <5> QED BY <4>1, <4>2
      <4> HIDE DEF F, Step, n
      <4> QED BY <2>2, <3>1, <4>1, <4>3 DEF Iterates
    <3> HIDE DEF F, Step, n
    <3> QED BY <2>2, <3>1 DEF Iterates
  <2>4. Rec(g)
    <3> HIDE DEF Step, F, n
    <3> QED BY <2>2, <2>3 DEF Iterates
  <2> HIDE DEF Rec
  <2> QED BY <2>4
<1>4. Rec(w)
  <2> HIDE DEF Rec
  <2> QED BY <1>3
<1>5. MultiplyAdd(b, from, c, r) =
          [i \in 1 .. Len(b) |-> (w[i - 1] + from * b[i]) % r] \o Digits(w[Len(b)], r)
  BY DEF MultiplyAdd
<1> HIDE DEF w
<1>6. w[0] = c /\ \A i \in 1 .. n : w[i] = Step(i, w[i - 1])
  <2> HIDE DEF Step, n
  <2> QED BY <1>1, <1>4
<1>7. \A i \in 0 .. n : w[i] \in Nat
  <2> HIDE DEF Step, n
  <2> QED BY <1>1, <1>2, <1>6, StaysIn
<1>8. w \in [0 .. n -> Nat]
  <2> HIDE DEF Step, n
  <2> QED BY <1>4, <1>7
<1> HIDE DEF n
<1>9. Carries(w, b, from, c, r)
  BY <1>5, <1>6, <1>8 DEF n, Carries
<1> QED BY <1>9

(* A digit of the product, and what is carried from it.                    *)
LEMMA DigitOfProduct ==
    ASSUME NEW from \in Radices, NEW r \in Radices, NEW x \in Nat, NEW d \in Nat, NEW t \in Nat
    PROVE  /\ x + from * d \in Nat
           /\ from * (d + r * t) + x
                  = ((x + from * d) % r) + r * (from * t + ((x + from * d) \div r))
           /\ d > 0 => x + from * d > 0
<1>1. from \in {58, 256} /\ r \in {58, 256}
  BY DEF Radices
<1>2. x + from * d \in Nat /\ (d > 0 => x + from * d > 0)
  BY Product
<1> DEFINE y == x + from * d
           q == y \div r
           m == y % r
<1>3. q \in Nat /\ m \in Nat /\ y = m + r * q
  <2> HIDE DEF q, m
  <2> QED BY <1>2, Division DEF q, m
<1>4. from * (d + r * t) + x = m + r * (from * t + q)
  <2>1. y = x + from * d
    OBVIOUS
  <2> HIDE DEF y, q, m
  <2>2. CASE from = 58 /\ r = 58
    BY <1>3, <2>1, <2>2
  <2>3. CASE from = 58 /\ r = 256
    BY <1>3, <2>1, <2>3
  <2>4. CASE from = 256 /\ r = 58
    BY <1>3, <2>1, <2>4
  <2>5. CASE from = 256 /\ r = 256
    BY <1>3, <2>1, <2>5
  <2> QED BY <1>1, <2>2, <2>3, <2>4, <2>5
<1> QED BY <1>2, <1>4

(* One turn of the outer loop multiplies and adds.                         *)
LEMMA MultiplyAddStands ==
    ASSUME NEW from \in Radices, NEW r \in Radices, NEW n \in Nat, NEW b, StandsFor(b, n, r),
           NEW c \in Nat
    PROVE  StandsFor(MultiplyAdd(b, from, c, r), from * n + c, r)
<1>1. PICK u : Rests(u, b, r) /\ u[0] = n
  BY DEF StandsFor
<1> DEFINE k == Len(b)
<1>2. b \in Seq(0 .. r - 1) /\ b \in Seq(Nat) /\ k \in Nat /\ \A i \in 1 .. k : b[i] \in Nat
  <2>1. b \in Seq(0 .. r - 1)
    BY DEF StandsFor
  <2>2. 0 .. r - 1 \subseteq Nat
    OBVIOUS
  <2>3. b \in Seq(Nat)
    BY <2>1, <2>2, SeqMonotonic
  <2> QED BY <2>1, <2>3, LenProperties
<1>c. PICK carry : Carries(carry, b, from, c, r)
  BY <1>2, CarriesExist
<1>3. /\ carry \in [0 .. k -> Nat] /\ carry[0] = c
      /\ \A i \in 1 .. k : carry[i] = (carry[i - 1] + from * b[i]) \div r
      /\ MultiplyAdd(b, from, c, r) =
             [i \in 1 .. k |-> (carry[i - 1] + from * b[i]) % r] \o Digits(carry[k], r)
  BY <1>c DEF Carries
<1> DEFINE m == [i \in 1 .. k |-> (carry[i - 1] + from * b[i]) % r]
           d == Digits(carry[k], r)
           s == m \o d
           l == Len(d)
<1>4. carry[k] \in Nat /\ StandsFor(d, carry[k], r)
  <2>1. carry[k] \in Nat
    <3> HIDE DEF k
    <3> QED BY <1>2, <1>3
  <2> QED BY <2>1, DigitsStand
<1>5. PICK v : Rests(v, d, r) /\ v[0] = carry[k]
  <2> HIDE DEF d, k
  <2> QED BY <1>4 DEF StandsFor
<1>6. d \in Seq(0 .. r - 1) /\ l \in Nat
  <2> HIDE DEF d
  <2> QED BY <1>4, LenProperties DEF StandsFor
<1> HIDE DEF d
<1>7. \A i \in 1 .. k : /\ i - 1 \in 0 .. k /\ i \in 0 .. k
                        /\ b[i] \in Nat /\ carry[i - 1] \in Nat /\ carry[i] \in Nat /\ u[i] \in Nat
                        /\ u[i - 1] = b[i] + r * u[i]
  <2> HIDE DEF k
  <2>1. u \in [0 .. k -> Nat]
    BY <1>1 DEF Rests, k
  <2>2. \A i \in 1 .. k : i - 1 \in 0 .. k /\ i \in 0 .. k
    BY <1>2
  <2>3. \A i \in 1 .. k : u[i - 1] = b[i] + r * u[i]
    BY <1>1 DEF Rests, k
  <2> QED BY <1>2, <1>3, <2>1, <2>2, <2>3
<1>8. m \in Seq(0 .. r - 1) /\ Len(m) = k
  <2>1. \A i \in 1 .. k : (carry[i - 1] + from * b[i]) % r \in 0 .. r - 1
    <3> HIDE DEF k
    <3> QED BY <1>7, DigitOfProduct, Division
  <2> HIDE DEF k
  <2> QED BY <1>2, <2>1
<1>9. /\ s \in Seq(0 .. r - 1) /\ Len(s) = k + l
      /\ \A i \in 1 .. k : s[i] = (carry[i - 1] + from * b[i]) % r
      /\ \A i \in k + 1 .. k + l : s[i] = d[i - k]
  <2>1. \A i \in 1 .. k : m[i] = (carry[i - 1] + from * b[i]) % r
    OBVIOUS
  <2> HIDE DEF m, k
  <2>2. s \in Seq(0 .. r - 1) /\ Len(s) = k + l
    BY <1>6, <1>8, ConcatProperties
  <2>3. \A i \in 1 .. k + l : s[i] = IF i <= k THEN m[i] ELSE d[i - k]
    BY <1>6, <1>8, ConcatProperties
  <2> HIDE DEF s, l
  <2>4. \A i \in 1 .. k : s[i] = (carry[i - 1] + from * b[i]) % r
    BY <1>2, <1>6, <2>1, <2>3
  <2>5. \A i \in k + 1 .. k + l : s[i] = d[i - k]
    BY <1>2, <1>6, <2>3
  <2> QED BY <2>2, <2>4, <2>5
<1> DEFINE w == [i \in 0 .. k + l |-> IF i <= k THEN from * u[i] + carry[i] ELSE v[i - k]]
<1>10. u[k] = 0 /\ u[0] = n /\ k \in 0 .. k /\ v[l] = 0 /\ v \in [0 .. l -> Nat] /\ u \in [0 .. k -> Nat]
  <2> HIDE DEF d
  <2> QED BY <1>1, <1>2, <1>5 DEF Rests
<1>11. w[k] = v[0]
  <2> HIDE DEF k, l
  <2>1. w[k] = from * 0 + carry[k]
    BY <1>2, <1>6, <1>10
  <2>2. from * 0 = 0
    BY Product
  <2> QED BY <1>4, <1>5, <2>1, <2>2
<1>12. w \in [0 .. k + l -> Nat]
  <2>1. ASSUME NEW i \in 0 .. k + l PROVE w[i] \in Nat
    <3>1. CASE i <= k
      <4> HIDE DEF k, l
      <4>1. i \in 0 .. k
        BY <1>2, <3>1
      <4>2. u[i] \in Nat /\ carry[i] \in Nat
        BY <1>10, <1>3, <4>1
      <4>3. from * u[i] \in Nat
        BY <4>2, Product
      <4> QED BY <3>1, <4>2, <4>3
    <3>2. CASE ~(i <= k)
      <4> HIDE DEF k, l
      <4>1. i - k \in 0 .. l
        BY <1>2, <1>6, <3>2
      <4> QED BY <1>10, <3>2, <4>1
    <3> QED BY <3>1, <3>2
  <2>2. w = [i \in 0 .. k + l |-> w[i]]
    OBVIOUS
  <2> HIDE DEF w, k, l
  <2> QED BY <2>1, <2>2
<1>13. ASSUME NEW i \in 1 .. k + l PROVE w[i - 1] = s[i] + r * w[i]
  <2>1. CASE i <= k
    <3> HIDE DEF k, l, s
    <3>1. i \in 1 .. k /\ i - 1 <= k /\ i - 1 \in 0 .. k + l /\ i \in 0 .. k + l
      BY <1>2, <1>6, <2>1
    <3>2. w[i] = from * u[i] + carry[i] /\ w[i - 1] = from * u[i - 1] + carry[i - 1]
      BY <2>1, <3>1
    <3>3. from * (b[i] + r * u[i]) + carry[i - 1]
              = ((carry[i - 1] + from * b[i]) % r)
                + r * (from * u[i] + ((carry[i - 1] + from * b[i]) \div r))
      <4>1. /\ carry[i - 1] \in Nat /\ b[i] \in Nat /\ u[i] \in Nat
        BY <1>7, <3>1
      <4>2. PICK x \in Nat, e \in Nat, t \in Nat : x = carry[i - 1] /\ e = b[i] /\ t = u[i]
        BY <4>1
      <4>3. from * (e + r * t) + x = ((x + from * e) % r) + r * (from * t + ((x + from * e) \div r))
        BY DigitOfProduct
      <4> QED BY <4>2, <4>3
    <3> HIDE DEF w
    <3> QED BY <1>3, <1>7, <1>9, <3>1, <3>2, <3>3
  <2>2. CASE i > k
    <3> HIDE DEF k, l, s
    <3>1. i \in k + 1 .. k + l /\ i - k \in 1 .. l /\ i \in 0 .. k + l /\ i - 1 \in 0 .. k + l
      BY <1>2, <1>6, <2>2
    <3>2. w[i] = v[i - k]
      BY <1>2, <2>2, <3>1
    <3>3. w[i - 1] = v[(i - k) - 1]
      <4>1. CASE i - 1 = k
        <5>1. (i - k) - 1 = 0
          BY <1>2, <4>1
        <5> HIDE DEF w
        <5> QED BY <1>11, <4>1, <5>1
      <4>2. CASE i - 1 # k
        <5>1. ~(i - 1 <= k) /\ (i - 1) - k = (i - k) - 1
          BY <1>2, <2>2, <4>2
        <5> QED BY <3>1, <5>1
      <4> QED BY <4>1, <4>2
    <3>4. v[(i - k) - 1] = d[i - k] + r * v[i - k]
      <4> DEFINE j == i - k
      <4>1. j \in 1 .. Len(d)
        BY <3>1 DEF l
      <4> HIDE DEF j
      <4>2. v[j - 1] = d[j] + r * v[j]
        BY <1>5, <4>1 DEF Rests
      <4> QED BY <4>2 DEF j
    <3> HIDE DEF w
    <3> QED BY <1>9, <3>1, <3>2, <3>3, <3>4
  <2> HIDE DEF k, l, s, w
  <2> QED BY <1>2, <1>6, <2>1, <2>2
<1>14. w[0] = from * n + c
  <2> HIDE DEF k, l
  <2>1. 0 \in 0 .. k + l /\ 0 <= k
    BY <1>2, <1>6
  <2> QED BY <1>3, <1>10, <2>1
<1>15. Rests(w, s, r) /\ w[0] = from * n + c
  <2>1. w[k + l] = 0
    <3>1. CASE l = 0
      <4> HIDE DEF k, l, w
      <4> QED BY <1>2, <1>10, <1>11, <3>1
    <3>2. CASE l # 0
      <4> HIDE DEF k, l
      <4>1. k + l \in 0 .. k + l /\ ~(k + l <= k) /\ (k + l) - k = l
        BY <1>2, <1>6, <3>2
      <4> QED BY <1>10, <4>1
    <3> QED BY <3>1, <3>2
  <2> HIDE DEF w, k, l, s
  <2> QED BY <1>9, <1>12, <1>13, <1>14, <2>1 DEF Rests
<1>16. Len(s) > 0 => s[Len(s)] # 0
  <2>1. CASE l > 0
    <3>1. d[Len(d)] # 0
      BY <1>4, <2>1 DEF StandsFor
    <3> HIDE DEF k, s
    <3>2. k + l \in k + 1 .. k + l /\ (k + l) - k = l
      <4> HIDE DEF l
      <4> QED BY <1>2, <1>6, <2>1
    <3> QED BY <1>9, <3>1, <3>2
  <2>2. CASE l = 0 /\ k > 0
    <3>1. b[k] # 0 /\ k \in 1 .. k
      <4>1. b[k] # 0
        BY <2>2 DEF StandsFor
      <4> HIDE DEF k
      <4> QED BY <1>2, <2>2, <4>1
    <3> HIDE DEF k, s, l
    <3>2. carry[k] = 0
      BY <1>5, <1>10, <2>2
    <3> DEFINE y == carry[k - 1] + from * b[k]
    <3>3. y \in Nat /\ y > 0
      <4>1. b[k] \in Nat /\ carry[k - 1] \in Nat /\ b[k] > 0
        BY <1>7, <3>1
      <4> QED BY <4>1, DigitOfProduct
    <3>4. y \div r = 0 /\ s[k] = y % r /\ Len(s) = k
      <4> HIDE DEF y
      <4>1. carry[k] = y \div r /\ s[k] = y % r
        BY <1>3, <1>9, <3>1 DEF y
      <4> QED BY <1>2, <1>9, <2>2, <3>2, <4>1
    <3> HIDE DEF y
    <3>5. y = (y % r) + r * 0 /\ r * 0 = 0 /\ y % r \in 0 .. r - 1
      BY <3>3, <3>4, Division, Product
    <3> QED BY <3>3, <3>4, <3>5
  <2>3. CASE l = 0 /\ ~(k > 0)
    <3> HIDE DEF k, s, l
    <3> QED BY <1>2, <1>9, <2>3
  <2> HIDE DEF k, s, l
  <2> QED BY <1>6, <2>1, <2>2, <2>3
<1>17. MultiplyAdd(b, from, c, r) = s
  BY <1>3 DEF d
<1> HIDE DEF s, w, k, l, m
<1> QED BY <1>9, <1>15, <1>16, <1>17 DEF StandsFor

(* The whole conversion, from any string of digits.                        *)
LEMMA ConvertStands ==
    ASSUME NEW from \in Radices, NEW r \in Radices, NEW s \in Seq(0 .. from - 1),
           NEW w, Reads(w, s, from)
    PROVE  StandsFor(Convert(s, from, r), w[Len(s)], r)
<1> DEFINE n == Len(s)
           D == {b \in Seq(0 .. r - 1) : \E v \in Nat : StandsFor(b, v, r)}
           Step(i, b) == MultiplyAdd(b, from, s[i], r)
           Rec(g) == g = [i \in 0 .. n |-> IF i = 0 THEN <<>> ELSE Step(i, g[i - 1])]
           f == CHOOSE g : Rec(g)
<1>1. n \in Nat /\ \A i \in 1 .. n : s[i] \in Nat
  <2>1. \A i \in 1 .. n : s[i] \in 0 .. from - 1
    BY ElementOfSeq
  <2>2. 0 .. from - 1 \subseteq Nat
    OBVIOUS
  <2> QED BY <2>1, <2>2, LenProperties
<1>2. ASSUME NEW i \in 1 .. n, NEW b, NEW v \in Nat, StandsFor(b, v, r)
      PROVE  StandsFor(Step(i, b), from * v + s[i], r)
  <2>1. s[i] \in Nat
    BY <1>1
  <2> HIDE DEF n
  <2> QED BY <1>2, <2>1, MultiplyAddStands
<1>3. ASSUME NEW i \in 1 .. n, NEW b \in D PROVE Step(i, b) \in D
  <2>1. PICK v \in Nat : StandsFor(b, v, r)
    OBVIOUS
  <2>2. StandsFor(Step(i, b), from * v + s[i], r)
    <3> HIDE DEF n, Step
    <3> QED BY <1>2, <2>1
  <2>3. from * v + s[i] \in Nat
    <3>1. s[i] \in Nat /\ from * v \in Nat
      BY <1>1, Product
    <3> HIDE DEF n
    <3> QED BY <3>1
  <2>4. Step(i, b) \in Seq(0 .. r - 1)
    <3> HIDE DEF n, Step
    <3> QED BY <2>2 DEF StandsFor
  <2> HIDE DEF Step, n
  <2> QED BY <2>2, <2>3, <2>4
<1>4. <<>> \in D
  BY NothingStandsForZero
<1>5. \E g : Rec(g)
  <2> DEFINE F == [p \in (1 .. n) \X D |-> Step(p[1], p[2])]
  <2>1. F \in [(1 .. n) \X D -> D]
    <3> HIDE DEF Step, n, D
    <3> QED BY <1>3
  <2>2. PICK g : Iterates(g, n, D, <<>>, F)
    <3> HIDE DEF F, n, D
    <3> QED BY <1>1, <1>4, <2>1, Recursion
  <2>3. ASSUME NEW i \in 0 .. n PROVE g[i] = IF i = 0 THEN <<>> ELSE Step(i, g[i - 1])
    <3>1. CASE i # 0
      <4>1. i \in 1 .. n /\ i - 1 \in 0 .. n
        <5> HIDE DEF n
        <5> QED BY <1>1, <3>1
      <4>2. g[i - 1] \in D
        <5> HIDE DEF n, F, D
        <5> QED BY <2>2, <4>1 DEF Iterates
      <4>3. F[<<i, g[i - 1]>>] = Step(i, g[i - 1])
        <5> HIDE DEF Step, n, D
        <5> QED BY <4>1, <4>2
      <4> HIDE DEF F, Step, n, D
      <4> QED BY <2>2, <3>1, <4>1, <4>3 DEF Iterates
    <3> HIDE DEF F, Step, n, D
    <3> QED BY <2>2, <3>1 DEF Iterates
  <2>4. Rec(g)
    <3> HIDE DEF Step, F, n, D
    <3> QED BY <2>2, <2>3 DEF Iterates
  <2> HIDE DEF Rec
  <2> QED BY <2>4
<1>6. Rec(f)
  <2> HIDE DEF Rec
  <2> QED BY <1>5
<1>7. Convert(s, from, r) = f[n]
  BY DEF Convert
<1> HIDE DEF f
<1>8. w[0] = 0 /\ \A i \in 1 .. n : w[i - 1] \in Nat /\ w[i] = from * w[i - 1] + s[i]
  <2> HIDE DEF n
  <2>1. w \in [0 .. n -> Nat]
    BY DEF Reads, n
  <2>2. \A i \in 1 .. n : i - 1 \in 0 .. n
    BY <1>1
  <2> QED BY <2>1, <2>2 DEF Reads, n
<1> DEFINE T == {i \in 0 .. n : ~StandsFor(f[i], w[i], r)}
<1>9. ASSUME T # {} PROVE FALSE
  <2>1. PICK m \in T : \A i \in T : ~(i < m)
    <3>1. T \in SUBSET Nat
      <4> HIDE DEF n
      <4> QED BY <1>1
    <3> HIDE DEF T
    <3> QED BY <1>9, <3>1, Smallest
  <2>2. CASE m = 0
    <3>1. f[0] = <<>>
      <4> HIDE DEF n, Step
      <4> QED BY <1>1, <1>6
    <3> QED BY <1>8, <2>1, <2>2, <3>1, NothingStandsForZero
  <2>3. CASE m # 0
    <3>1. m \in 1 .. n /\ m - 1 \in 0 .. n /\ m - 1 < m
      <4> HIDE DEF n
      <4> QED BY <1>1, <2>1, <2>3
    <3>2. m - 1 \notin T
      <4> HIDE DEF T
      <4> QED BY <2>1, <3>1
    <3>3. StandsFor(f[m - 1], w[m - 1], r)
      BY <3>1, <3>2
    <3>4. f[m] = Step(m, f[m - 1])
      <4> HIDE DEF n, Step
      <4> QED BY <1>6, <2>3, <3>1
    <3>5. StandsFor(f[m], w[m], r)
      <4> HIDE DEF n, Step
      <4> QED BY <1>2, <1>8, <3>1, <3>3, <3>4
    <3> QED BY <2>1, <3>5
  <2> QED BY <2>2, <2>3
<1>10. n \in 0 .. n
  <2> HIDE DEF n
  <2> QED BY <1>1
<1> QED BY <1>7, <1>9, <1>10

(* A number has one buffer that stands for it.                             *)
LEMMA RestIsQuotient ==
    ASSUME NEW r \in Radices, NEW d \in 0 .. r - 1, NEW t \in Nat
    PROVE  (d + r * t) \div r = t /\ (d + r * t) % r = d /\ (t > 0 => d + r * t > 0)
<1>1. CASE r = 58
  BY <1>1
<1>2. CASE r = 256
  BY <1>2
<1> QED BY <1>1, <1>2 DEF Radices

LEMMA RestsArePositive ==
    ASSUME NEW r \in Radices, NEW b \in Seq(0 .. r - 1), NEW u, Rests(u, b, r),
           Len(b) > 0 => b[Len(b)] # 0
    PROVE  \A i \in 0 .. Len(b) : u[i] > 0 <=> i < Len(b)
<1> DEFINE n == Len(b)
           T == {j \in 1 .. n : ~(u[n - j] > 0)}
<1>1. n \in Nat /\ u \in [0 .. n -> Nat] /\ u[n] = 0
  BY LenProperties DEF Rests
<1>2. ASSUME NEW i \in 1 .. n
      PROVE  b[i] \in 0 .. r - 1 /\ u[i] \in Nat /\ u[i - 1] = b[i] + r * u[i]
  <2>1. b[i] \in 0 .. r - 1 /\ u[i - 1] = b[i] + r * u[i]
    BY ElementOfSeq DEF Rests
  <2> HIDE DEF n
  <2> QED BY <1>1, <2>1
<1>3. ASSUME T # {} PROVE FALSE
  <2>1. PICK j \in T : \A k \in T : ~(k < j)
    <3>1. T \in SUBSET Nat
      OBVIOUS
    <3> HIDE DEF T
    <3> QED BY <1>3, <3>1, Smallest
  <2> DEFINE i == n - j + 1
  <2>2. i \in 1 .. n /\ i - 1 = n - j /\ n - (j - 1) = i /\ j \in 1 .. n
    <3> HIDE DEF n
    <3> QED BY <1>1, <2>1
  <2>3. b[i] \in 0 .. r - 1 /\ u[i] \in Nat /\ u[n - j] = b[i] + r * u[i]
    <3> HIDE DEF i, n
    <3> QED BY <1>2, <2>2
  <2>4. CASE j = 1
    <3>1. i = n /\ n > 0
      <4> HIDE DEF n
      <4> QED BY <1>1, <2>4, <2>2
    <3>2. b[i] > 0 /\ u[i] = 0
      <4> HIDE DEF i
      <4>1. b[i] # 0 /\ u[i] = 0
        BY <1>1, <3>1
      <4> QED BY <2>3, <4>1
    <3>3. b[i] + r * u[i] > 0
      <4> HIDE DEF i, n
      <4> QED BY <2>3, <3>2, Product
    <3> QED BY <2>1, <2>3, <3>3
  <2>5. CASE j # 1
    <3>1. j - 1 \notin T /\ j - 1 \in 1 .. n
      <4>1. j - 1 < j /\ j - 1 \in 1 .. n
        <5> HIDE DEF n
        <5> QED BY <1>1, <2>2, <2>5
      <4> HIDE DEF T
      <4> QED BY <2>1, <4>1
    <3>2. u[i] > 0
      BY <2>2, <3>1
    <3>3. b[i] + r * u[i] > 0
      <4> HIDE DEF i, n
      <4> QED BY <2>3, <3>2, RestIsQuotient
    <3> QED BY <2>1, <2>3, <3>3
  <2> QED BY <2>4, <2>5
<1>4. ASSUME NEW i \in 0 .. n PROVE u[i] > 0 <=> i < n
  <2>1. CASE i = n
    <3> HIDE DEF n
    <3> QED BY <1>1, <2>1
  <2>2. CASE i # n
    <3>1. n - i \in 1 .. n /\ n - (n - i) = i /\ i < n
      <4> HIDE DEF n
      <4> QED BY <1>1, <2>2
    <3> HIDE DEF n
    <3>2. n - i \notin T
      BY <1>3
    <3> QED BY <3>1, <3>2
  <2> QED BY <2>1, <2>2
<1> QED BY <1>4

LEMMA BuffersAreUnique ==
    ASSUME NEW r \in Radices, NEW n, NEW a, NEW b, StandsFor(a, n, r), StandsFor(b, n, r)
    PROVE  a = b
<1>1. PICK u : Rests(u, a, r) /\ u[0] = n
  BY DEF StandsFor
<1>2. PICK v : Rests(v, b, r) /\ v[0] = n
  BY DEF StandsFor
<1>3. /\ a \in Seq(0 .. r - 1) /\ b \in Seq(0 .. r - 1)
      /\ Len(a) \in Nat /\ Len(b) \in Nat
  BY LenProperties DEF StandsFor
<1>4. /\ \A i \in 0 .. Len(a) : u[i] > 0 <=> i < Len(a)
      /\ \A i \in 0 .. Len(b) : v[i] > 0 <=> i < Len(b)
  BY <1>1, <1>2, RestsArePositive DEF StandsFor
<1> DEFINE k == IF Len(a) < Len(b) THEN Len(a) ELSE Len(b)
           T == {i \in 0 .. k : u[i] # v[i]}
<1>5. k \in Nat /\ k <= Len(a) /\ k <= Len(b) /\ k \in {Len(a), Len(b)}
  BY <1>3
<1>6. ASSUME NEW i \in 1 .. k
      PROVE  /\ a[i] \in 0 .. r - 1 /\ b[i] \in 0 .. r - 1 /\ u[i] \in Nat /\ v[i] \in Nat
             /\ u[i - 1] = a[i] + r * u[i] /\ v[i - 1] = b[i] + r * v[i]
  <2>1. i \in 1 .. Len(a) /\ i \in 1 .. Len(b)
    <3> HIDE DEF k
    <3> QED BY <1>3, <1>5
  <2>2. a[i] \in 0 .. r - 1 /\ b[i] \in 0 .. r - 1
    BY <1>3, <2>1, ElementOfSeq
  <2>3. u[i] \in Nat /\ v[i] \in Nat
    <3>1. i \in 0 .. Len(a) /\ i \in 0 .. Len(b)
      BY <1>3, <2>1
    <3> QED BY <1>1, <1>2, <3>1 DEF Rests
  <2> QED BY <1>1, <1>2, <2>1, <2>2, <2>3 DEF Rests
<1>7. ASSUME NEW i \in 1 .. k, u[i - 1] = v[i - 1] PROVE u[i] = v[i] /\ a[i] = b[i]
  <2>1. PICK d \in 0 .. r - 1, e \in 0 .. r - 1, x \in Nat, y \in Nat :
            d = a[i] /\ e = b[i] /\ x = u[i] /\ y = v[i]
    <3> HIDE DEF k
    <3> QED BY <1>6
  <2>2. d + r * x = e + r * y
    <3> HIDE DEF k
    <3> QED BY <1>6, <1>7, <2>1
  <2>3. (d + r * x) \div r = x /\ (d + r * x) % r = d /\ (e + r * y) \div r = y /\ (e + r * y) % r = e
    BY RestIsQuotient
  <2> QED BY <2>1, <2>2, <2>3
<1>8. ASSUME T # {} PROVE FALSE
  <2>1. PICK m \in T : \A i \in T : ~(i < m)
    <3>1. T \in SUBSET Nat
      OBVIOUS
    <3> HIDE DEF T
    <3> QED BY <1>8, <3>1, Smallest
  <2>2. m # 0
    BY <1>1, <1>2, <2>1
  <2>3. m \in 1 .. k /\ m - 1 \in 0 .. k /\ m - 1 < m
    <3> HIDE DEF k
    <3> QED BY <1>5, <2>1, <2>2
  <2>4. m - 1 \notin T
    <3> HIDE DEF T
    <3> QED BY <2>1, <2>3
  <2>5. u[m - 1] = v[m - 1]
    <3> HIDE DEF k
    <3> QED BY <2>3, <2>4
  <2>6. u[m] = v[m]
    <3> HIDE DEF k
    <3> QED BY <1>7, <2>3, <2>5
  <2> QED BY <2>1, <2>6
<1>9. Len(a) = Len(b)
  <2>1. u[k] = v[k]
    <3> HIDE DEF k
    <3> QED BY <1>5, <1>8
  <2>2. k \in 0 .. Len(a) /\ k \in 0 .. Len(b)
    <3> HIDE DEF k
    <3> QED BY <1>3, <1>5
  <2>3. k < Len(a) <=> k < Len(b)
    <3> HIDE DEF k
    <3> QED BY <1>4, <2>1, <2>2
  <2> HIDE DEF k
  <2> QED BY <1>3, <1>5, <2>3
<1>10. \A i \in 1 .. Len(a) : a[i] = b[i]
  <2>1. ASSUME NEW i \in 1 .. k PROVE a[i] = b[i]
    <3>1. i - 1 \in 0 .. k
      <4> HIDE DEF k
      <4> QED BY <1>5
    <3>2. u[i - 1] = v[i - 1]
      <4> HIDE DEF k
      <4> QED BY <1>8, <3>1
    <3> HIDE DEF k
    <3> QED BY <1>7, <3>2
  <2>2. k = Len(a)
    BY <1>9
  <2> HIDE DEF k
  <2> QED BY <2>1, <2>2
<1> QED BY <1>3, <1>9, <1>10, SeqEqual

(* A string is a number of zeros and a buffer, the other way round.        *)
Zeros(k) == [i \in 1 .. k |-> 0]

LaidOut(s, k, b) ==
    /\ Len(s) = k + Len(b)
    /\ \A i \in 1 .. k : s[i] = 0
    /\ \A i \in 1 .. Len(b) : s[k + Len(b) + 1 - i] = b[i]

LEMMA ReadsExists ==
    ASSUME NEW r \in Radices, NEW s \in Seq(0 .. r - 1)
    PROVE  \E w : Reads(w, s, r)
<1> DEFINE n == Len(s)
           F == [p \in (1 .. n) \X Nat |-> r * p[2] + s[p[1]]]
<1>1. n \in Nat
  BY LenProperties
<1>2. ASSUME NEW i \in 1 .. n, NEW x \in Nat PROVE r * x + s[i] \in Nat
  <2>1. s[i] \in 0 .. r - 1
    BY ElementOfSeq
  <2>2. r * x \in Nat
    BY Product
  <2> HIDE DEF n
  <2>3. s[i] \in Nat
    BY <2>1
  <2> QED BY <2>2, <2>3
<1>3. F \in [(1 .. n) \X Nat -> Nat]
  <2> HIDE DEF n
  <2> QED BY <1>2
<1>4. PICK g : Iterates(g, n, Nat, 0, F)
  <2> HIDE DEF F, n
  <2> QED BY <1>1, <1>3, Recursion
<1>5. ASSUME NEW i \in 1 .. n PROVE g[i] = r * g[i - 1] + s[i]
  <2>1. i - 1 \in 0 .. n
    <3> HIDE DEF n
    <3> QED BY <1>1
  <2>2. g[i - 1] \in Nat
    <3> HIDE DEF F, n
    <3> QED BY <1>4, <2>1 DEF Iterates
  <2>3. F[<<i, g[i - 1]>>] = r * g[i - 1] + s[i]
    <3> HIDE DEF n
    <3> QED BY <2>2
  <2> HIDE DEF F, n
  <2> QED BY <1>4, <2>3 DEF Iterates
<1>6. g \in [0 .. n -> Nat] /\ g[0] = 0
  <2> HIDE DEF F, n
  <2> QED BY <1>4 DEF Iterates
<1> QED BY <1>5, <1>6 DEF Reads

LEMMA ZerosLead ==
    ASSUME NEW s \in Seq(Nat)
    PROVE  \E k \in 0 .. Len(s) : /\ LeadingZeros(s) = Zeros(k)
                                  /\ \A i \in 1 .. k : s[i] = 0
                                  /\ k < Len(s) => s[k + 1] # 0
<1> DEFINE n == Len(s)
           T == {i \in 1 .. n : s[i] # 0}
           Z == {i \in 1 .. n : \A j \in 1 .. i : s[j] = 0}
<1>1. n \in Nat
  BY LenProperties
<1>2. \E k \in 0 .. n : (\A i \in 1 .. k : s[i] = 0) /\ (k < n => s[k + 1] # 0)
  <2> HIDE DEF n
  <2>1. CASE T = {}
    <3>1. n \in 0 .. n /\ (\A i \in 1 .. n : s[i] = 0) /\ ~(n < n)
      BY <1>1, <2>1
    <3> QED BY <3>1
  <2>2. CASE T # {}
    <3>1. PICK m \in T : \A i \in T : ~(i < m)
      <4>1. T \in SUBSET Nat
        OBVIOUS
      <4> HIDE DEF T
      <4> QED BY <2>2, <4>1, Smallest
    <3>2. m - 1 \in 0 .. n /\ m = (m - 1) + 1 /\ s[m] # 0
      BY <1>1, <3>1
    <3>3. ASSUME NEW i \in 1 .. m - 1 PROVE s[i] = 0
      <4>1. i \in 1 .. n /\ i < m
        BY <1>1, <3>1
      <4> QED BY <3>1, <4>1
    <3> HIDE DEF T
    <3> QED BY <3>2, <3>3
  <2> QED BY <2>1, <2>2
<1>3. PICK k \in 0 .. n : (\A i \in 1 .. k : s[i] = 0) /\ (k < n => s[k + 1] # 0)
  <2> HIDE DEF n
  <2> QED BY <1>2
<1>4. Z = 1 .. k
  <2> HIDE DEF n
  <2>1. ASSUME NEW i \in 1 .. k PROVE i \in Z
    BY <1>1, <1>3
  <2>2. ASSUME NEW i \in Z PROVE i \in 1 .. k
    <3>1. i <= k
      <4>1. SUFFICES ASSUME i > k PROVE FALSE
        BY <1>1, <1>3
      <4>2. k + 1 \in 1 .. i /\ k < n
        BY <1>1, <1>3, <4>1
      <4> QED BY <1>3, <4>2
    <3> QED BY <1>1, <1>3, <3>1
  <2> HIDE DEF Z
  <2> QED BY <2>1, <2>2
<1>5. LeadingZeros(s) = [i \in Z |-> 0]
  BY DEF LeadingZeros
<1>6. LeadingZeros(s) = Zeros(k)
  <2> HIDE DEF Z
  <2> QED BY <1>4, <1>5 DEF Zeros
<1> QED BY <1>3, <1>6

(* Zeros and a reversed buffer are laid out as such ...                    *)
LEMMA LaysOut ==
    ASSUME NEW r \in Radices, NEW b \in Seq(0 .. r - 1), NEW k \in Nat
    PROVE  /\ Zeros(k) \o Reverse(b) \in Seq(0 .. r - 1)
           /\ LaidOut(Zeros(k) \o Reverse(b), k, b)
<1> DEFINE z == Zeros(k)
           v == Reverse(b)
           s == z \o v
           l == Len(b)
<1>1. l \in Nat /\ \A i \in 1 .. l : b[i] \in 0 .. r - 1
  BY LenProperties, ElementOfSeq
<1>2. 0 \in 0 .. r - 1
  BY DEF Radices
<1>3. z \in Seq(0 .. r - 1) /\ Len(z) = k /\ \A i \in 1 .. k : z[i] = 0
  BY <1>2 DEF Zeros
<1>4. /\ v \in Seq(0 .. r - 1) /\ Len(v) = l
      /\ \A i \in 1 .. l : v[i] = b[l - i + 1]
  <2>1. \A i \in 1 .. l : l - i + 1 \in 1 .. l
    <3> HIDE DEF l
    <3> QED BY <1>1
  <2>2. v = [i \in 1 .. l |-> b[l - i + 1]]
    BY DEF Reverse
  <2>3. \A i \in 1 .. l : b[l - i + 1] \in 0 .. r - 1
    <3> HIDE DEF l
    <3> QED BY <1>1, <2>1
  <2> HIDE DEF v, l
  <2>4. v \in [1 .. l -> 0 .. r - 1]
    BY <2>2, <2>3
  <2>5. v \in Seq(0 .. r - 1) /\ Len(v) = l
    <3>1. PICK D : D = 0 .. r - 1
      OBVIOUS
    <3>2. v \in [1 .. l -> D]
      BY <2>4, <3>1
    <3>3. v \in Seq(D) /\ Len(v) = l
      BY <1>1, <3>2
    <3> QED BY <3>1, <3>3
  <2> QED BY <2>2, <2>5
<1>5. /\ s \in Seq(0 .. r - 1) /\ Len(s) = k + l
      /\ \A i \in 1 .. k + l : s[i] = IF i <= k THEN z[i] ELSE v[i - k]
  <2> HIDE DEF z, v, l
  <2> QED BY <1>3, <1>4, ConcatProperties
<1> HIDE DEF z, v, s, l
<1>6. \A i \in 1 .. k : s[i] = 0
  BY <1>1, <1>3, <1>5
<1>7. ASSUME NEW i \in 1 .. l PROVE s[k + l + 1 - i] = b[i]
  <2> DEFINE j == k + l + 1 - i
  <2>1. j \in 1 .. k + l /\ ~(j <= k) /\ j - k \in 1 .. l /\ l - (j - k) + 1 = i
    BY <1>1
  <2> HIDE DEF j
  <2>2. s[j] = v[j - k] /\ v[j - k] = b[l - (j - k) + 1]
    BY <1>4, <1>5, <2>1
  <2>3. s[j] = b[i]
    BY <2>1, <2>2
  <2> QED BY <2>3 DEF j
<1> QED BY <1>5, <1>6, <1>7 DEF LaidOut, s, z, v, l

(* ... and every string is laid out from its leading zeros and what        *)
(* follows them.                                                           *)
LEMMA LayoutExists ==
    ASSUME NEW r \in Radices, NEW s \in Seq(0 .. r - 1)
    PROVE  \E k \in Nat, b \in Seq(0 .. r - 1) :
              /\ LaidOut(s, k, b) /\ LeadingZeros(s) = Zeros(k)
              /\ Len(b) > 0 => b[Len(b)] # 0
<1>1. s \in Seq(Nat)
  <2>1. 0 .. r - 1 \subseteq Nat
    OBVIOUS
  <2> QED BY <2>1, SeqMonotonic
<1>2. PICK k \in 0 .. Len(s) : /\ LeadingZeros(s) = Zeros(k)
                               /\ \A i \in 1 .. k : s[i] = 0
                               /\ k < Len(s) => s[k + 1] # 0
  BY <1>1, ZerosLead
<1> DEFINE n == Len(s)
           l == n - k
           b == [i \in 1 .. l |-> s[n + 1 - i]]
<1>3. n \in Nat /\ k \in Nat /\ k <= n /\ l \in Nat /\ k + l = n
  <2>1. n \in Nat
    BY LenProperties
  <2> HIDE DEF n
  <2> QED BY <1>2, <2>1 DEF n
<1>4. \A i \in 1 .. l : n + 1 - i \in 1 .. n
  <2> HIDE DEF n
  <2> QED BY <1>3
<1>5. \A i \in 1 .. n : s[i] \in 0 .. r - 1
  BY ElementOfSeq
<1>6. b \in Seq(0 .. r - 1) /\ Len(b) = l
  <2>1. \A i \in 1 .. l : s[n + 1 - i] \in 0 .. r - 1
    <3> HIDE DEF l, n
    <3> QED BY <1>4, <1>5
  <2> HIDE DEF l, n
  <2> QED BY <1>3, <2>1
<1>7. \A i \in 1 .. l : s[n + 1 - i] = b[i]
  OBVIOUS
<1>8. Len(b) > 0 => b[Len(b)] # 0
  <2>1. ASSUME l > 0 PROVE b[l] # 0
    <3>1. l \in 1 .. l /\ n + 1 - l = k + 1 /\ k < n
      <4> HIDE DEF n
      <4> QED BY <1>3, <2>1
    <3>2. b[l] = s[k + 1]
      <4> HIDE DEF b, l, n
      <4> QED BY <1>7, <3>1
    <3> HIDE DEF b, l
    <3> QED BY <1>2, <3>1, <3>2 DEF n
  <2> HIDE DEF b, l
  <2> QED BY <1>6, <2>1
<1>9. LaidOut(s, k, b)
  <2> HIDE DEF b, l
  <2> QED BY <1>2, <1>3, <1>6, <1>7 DEF LaidOut, n
<1> HIDE DEF b, l, n
<1> QED BY <1>2, <1>3, <1>6, <1>8, <1>9

LEMMA LayoutIsString ==
    ASSUME NEW r \in Radices, NEW s \in Seq(0 .. r - 1), NEW k \in Nat, NEW b \in Seq(0 .. r - 1),
           LaidOut(s, k, b)
    PROVE  s = Zeros(k) \o Reverse(b)
<1> DEFINE t == Zeros(k) \o Reverse(b)
           l == Len(b)
<1>1. t \in Seq(0 .. r - 1) /\ LaidOut(t, k, b) /\ l \in Nat
  BY LaysOut, LenProperties
<1> HIDE DEF t
<1>2. Len(s) = k + l /\ Len(t) = k + l
  BY <1>1 DEF LaidOut
<1>3. ASSUME NEW i \in 1 .. k + l PROVE s[i] = t[i]
  <2>1. CASE i <= k
    <3>1. i \in 1 .. k
      <4> HIDE DEF l
      <4> QED BY <1>1, <2>1
    <3> QED BY <1>1, <3>1 DEF LaidOut
  <2>2. CASE i > k
    <3> DEFINE j == k + l + 1 - i
    <3>1. j \in 1 .. l /\ k + l + 1 - j = i
      <4> HIDE DEF l
      <4> QED BY <1>1, <2>2
    <3> HIDE DEF j
    <3>2. s[k + l + 1 - j] = b[j] /\ t[k + l + 1 - j] = b[j]
      BY <1>1, <3>1 DEF LaidOut
    <3> QED BY <3>1, <3>2
  <2> HIDE DEF l
  <2> QED BY <1>1, <2>1, <2>2
<1>4. s = t
  <2> HIDE DEF l
  <2> QED BY <1>1, <1>2, <1>3, SeqEqual
<1> QED BY <1>4 DEF t

LEMMA LayoutLeads ==
    ASSUME NEW r \in Radices, NEW s \in Seq(0 .. r - 1), NEW k \in Nat, NEW b \in Seq(0 .. r - 1),
           LaidOut(s, k, b), Len(b) > 0 => b[Len(b)] # 0
    PROVE  LeadingZeros(s) = Zeros(k)
<1>1. s \in Seq(Nat)
  <2>1. 0 .. r - 1 \subseteq Nat
    OBVIOUS
  <2> QED BY <2>1, SeqMonotonic
<1>2. PICK m \in 0 .. Len(s) : /\ LeadingZeros(s) = Zeros(m)
                               /\ \A i \in 1 .. m : s[i] = 0
                               /\ m < Len(s) => s[m + 1] # 0
  BY <1>1, ZerosLead
<1> DEFINE l == Len(b)
<1>3. l \in Nat /\ Len(s) = k + l
  BY LenProperties DEF LaidOut
<1>4. ~(m < k)
  <2>1. SUFFICES ASSUME m < k PROVE FALSE
    OBVIOUS
  <2>2. m + 1 \in 1 .. k /\ m < Len(s)
    <3> HIDE DEF l
    <3> QED BY <1>2, <1>3, <2>1
  <2> QED BY <1>2, <2>2 DEF LaidOut
<1>5. ~(m > k)
  <2>1. SUFFICES ASSUME m > k PROVE FALSE
    OBVIOUS
  <2>2. l > 0 /\ l \in 1 .. l /\ k + l + 1 - l = k + 1 /\ k + 1 \in 1 .. m
    <3> HIDE DEF l
    <3> QED BY <1>2, <1>3, <2>1
  <2>3. s[k + l + 1 - l] = b[l]
    BY <2>2 DEF LaidOut
  <2>4. b[l] # 0
    BY <2>2
  <2> HIDE DEF l
  <2> QED BY <1>2, <2>2, <2>3, <2>4
<1>6. m = k
  <2> HIDE DEF l
  <2> QED BY <1>2, <1>3, <1>4, <1>5
<1> QED BY <1>2, <1>6

(* Leading zeros add nothing to what a string says.                        *)
LEMMA LayoutReads ==
    ASSUME NEW r \in Radices, NEW s, NEW k \in Nat, NEW b \in Seq(0 .. r - 1),
           LaidOut(s, k, b), NEW u, Rests(u, b, r)
    PROVE  \E w : Reads(w, s, r) /\ w[Len(s)] = u[0]
<1> DEFINE l == Len(b)
           w == [i \in 0 .. k + l |-> IF i <= k THEN 0 ELSE u[k + l - i]]
<1>1. /\ l \in Nat /\ Len(s) = k + l /\ u \in [0 .. l -> Nat] /\ u[l] = 0
  BY LenProperties DEF LaidOut, Rests
<1>2. \A i \in 0 .. k + l : w[i] \in Nat
  <2> HIDE DEF l
  <2>1. \A i \in 0 .. k + l : i > k => k + l - i \in 0 .. l
    BY <1>1
  <2> QED BY <1>1, <2>1
<1>3. ASSUME NEW i \in 1 .. k + l PROVE w[i] = r * w[i - 1] + s[i]
  <2>1. CASE i <= k
    <3>1. w[i] = 0 /\ w[i - 1] = 0
      <4> HIDE DEF l
      <4> QED BY <1>1, <2>1
    <3>2. s[i] = 0
      <4>1. i \in 1 .. k
        <5> HIDE DEF l
        <5> QED BY <1>1, <2>1
      <4> QED BY <4>1 DEF LaidOut
    <3> HIDE DEF w, l
    <3> QED BY <3>1, <3>2, Product
  <2>2. CASE i > k
    <3> DEFINE j == k + l + 1 - i
    <3>1. j \in 1 .. l /\ j - 1 = k + l - i /\ k + l + 1 - j = i
      <4> HIDE DEF l
      <4> QED BY <1>1, <2>2
    <3>2. w[i] = u[j - 1]
      <4> HIDE DEF l
      <4> QED BY <1>1, <2>2, <3>1
    <3>3. w[i - 1] = u[j]
      <4>1. CASE i - 1 = k
        <5>1. j = l /\ w[i - 1] = 0
          <6> HIDE DEF l
          <6> QED BY <1>1, <4>1
        <5> HIDE DEF l, j, w
        <5> QED BY <1>1, <5>1
      <4>2. CASE i - 1 # k
        <5>1. ~(i - 1 <= k) /\ k + l - (i - 1) = j /\ i - 1 \in 0 .. k + l
          <6> HIDE DEF l
          <6> QED BY <1>1, <2>2, <4>2
        <5> HIDE DEF l, j
        <5> QED BY <5>1
      <4> QED BY <4>1, <4>2
    <3> HIDE DEF w, j
    <3>4. s[k + Len(b) + 1 - j] = b[j]
      BY <3>1 DEF LaidOut
    <3>5. s[i] = b[j]
      BY <3>1, <3>4
    <3>6. u[j - 1] = b[j] + r * u[j] /\ b[j] \in 0 .. r - 1 /\ u[j] \in Nat
      <4>1. u[j - 1] = b[j] + r * u[j]
        BY <3>1 DEF Rests
      <4>2. b[j] \in 0 .. r - 1
        BY <3>1, ElementOfSeq
      <4> HIDE DEF l
      <4> QED BY <1>1, <3>1, <4>1, <4>2
    <3>7. r * u[j] \in Nat
      BY <3>6, Product
    <3> HIDE DEF l
    <3> QED BY <3>2, <3>3, <3>5, <3>6, <3>7
  <2> HIDE DEF l, w
  <2> QED BY <1>1, <2>1, <2>2
<1>4. w[k + l] = u[0] /\ w[0] = 0 /\ DOMAIN w = 0 .. k + l
  <2>1. CASE l = 0
    <3> HIDE DEF l
    <3> QED BY <1>1, <2>1
  <2>2. CASE l # 0
    <3> HIDE DEF l
    <3>1. ~(k + l <= k) /\ k + l - (k + l) = 0 /\ 0 <= k /\ k + l \in 0 .. k + l /\ 0 \in 0 .. k + l
      BY <1>1, <2>2
    <3> QED BY <3>1
  <2> QED BY <2>1, <2>2
<1>5. w \in [0 .. k + l -> Nat]
  <2>1. w = [i \in 0 .. k + l |-> w[i]]
    OBVIOUS
  <2> HIDE DEF w, l
  <2> QED BY <1>2, <2>1
<1>6. Reads(w, s, r)
  <2> HIDE DEF w, l
  <2> QED BY <1>1, <1>3, <1>4, <1>5 DEF Reads
<1> HIDE DEF w, l
<1> QED BY <1>1, <1>4, <1>6

LEMMA LayoutStands ==
    ASSUME NEW r \in Radices, NEW s \in Seq(0 .. r - 1), NEW k \in Nat, NEW b \in Seq(0 .. r - 1),
           LaidOut(s, k, b), Len(b) > 0 => b[Len(b)] # 0, NEW w, Reads(w, s, r)
    PROVE  StandsFor(b, w[Len(s)], r)
<1> DEFINE l == Len(b)
           u == [i \in 0 .. l |-> w[k + l - i]]
<1>1. /\ l \in Nat /\ Len(s) = k + l /\ w \in [0 .. k + l -> Nat] /\ w[0] = 0
      /\ \A i \in 1 .. k + l : w[i] = r * w[i - 1] + s[i]
  <2>1. l \in Nat /\ Len(s) = k + l
    BY LenProperties DEF LaidOut
  <2> HIDE DEF l
  <2> QED BY <2>1 DEF Reads
<1>2. w[k] = 0
  <2> DEFINE D == {0}
  <2>1. \A i \in 1 .. k : w[i - 1] \in D => w[i] \in D
    <3> SUFFICES ASSUME NEW i \in 1 .. k, w[i - 1] = 0 PROVE w[i] = 0
      OBVIOUS
    <3>1. s[i] = 0
      BY DEF LaidOut
    <3>2. i \in 1 .. k + l
      <4> HIDE DEF l
      <4> QED BY <1>1
    <3>3. w[i] = r * 0 + 0
      <4> HIDE DEF l
      <4> QED BY <1>1, <3>1, <3>2
    <3> QED BY <3>3, Product
  <2>2. w[0] \in D
    BY <1>1
  <2>3. \A i \in 0 .. k : w[i] \in D
    <3> HIDE DEF l, D
    <3> QED BY <2>1, <2>2, StaysIn
  <2>4. k \in 0 .. k
    OBVIOUS
  <2> QED BY <2>3, <2>4
<1>3. ASSUME NEW i \in 1 .. l PROVE u[i - 1] = b[i] + r * u[i]
  <2> DEFINE j == k + l + 1 - i
  <2>1. /\ j \in 1 .. k + l /\ k + l - (i - 1) = j /\ k + l - i = j - 1
        /\ i - 1 \in 0 .. l /\ i \in 0 .. l /\ j - 1 \in 0 .. k + l
    <3> HIDE DEF l
    <3> QED BY <1>1
  <2>2. u[i - 1] = w[j] /\ u[i] = w[j - 1]
    <3> HIDE DEF l, j
    <3> QED BY <2>1
  <2>3. s[j] = b[i]
    BY DEF LaidOut
  <2>4. b[i] \in Nat
    <3>1. b[i] \in 0 .. r - 1
      BY ElementOfSeq
    <3> HIDE DEF l
    <3> QED BY <3>1
  <2> HIDE DEF j, u, l
  <2>5. w[j - 1] \in Nat /\ w[j] = r * w[j - 1] + b[i]
    BY <1>1, <2>1, <2>3
  <2>6. r * w[j - 1] \in Nat
    BY <2>5, Product
  <2> QED BY <2>2, <2>4, <2>5, <2>6
<1>4. /\ u \in [0 .. l -> Nat] /\ u[l] = 0 /\ u[0] = w[k + l]
  <2> HIDE DEF l
  <2>1. \A i \in 0 .. l : k + l - i \in 0 .. k + l
    BY <1>1
  <2>2. u \in [0 .. l -> Nat]
    BY <1>1, <2>1
  <2>3. l \in 0 .. l /\ 0 \in 0 .. l /\ k + l - l = k /\ k + l - 0 = k + l
    BY <1>1
  <2> QED BY <1>2, <2>2, <2>3
<1> HIDE DEF u
<1>5. Rests(u, b, r)
  BY <1>3, <1>4 DEF Rests
<1> HIDE DEF l
<1>6. u[0] = w[Len(s)]
  BY <1>1, <1>4
<1> QED BY <1>5, <1>6 DEF StandsFor

(* A conversion keeps the number and the zeros in front of it.             *)
LEMMA ConversionKeeps ==
    ASSUME NEW from \in Radices, NEW r \in Radices, NEW s \in Seq(0 .. from - 1),
           NEW k \in Nat, NEW b \in Seq(0 .. from - 1), LaidOut(s, k, b),
           NEW n, StandsFor(b, n, from)
    PROVE  /\ LeadingZeros(s) \o Reverse(Convert(s, from, r)) \in Seq(0 .. r - 1)
           /\ LaidOut(LeadingZeros(s) \o Reverse(Convert(s, from, r)), k, Convert(s, from, r))
           /\ StandsFor(Convert(s, from, r), n, r) /\ LeadingZeros(s) = Zeros(k)
<1>1. LeadingZeros(s) = Zeros(k)
  BY LayoutLeads DEF StandsFor
<1>2. PICK u : Rests(u, b, from) /\ u[0] = n
  BY DEF StandsFor
<1>3. PICK w : Reads(w, s, from) /\ w[Len(s)] = n
  BY <1>2, LayoutReads
<1>4. StandsFor(Convert(s, from, r), n, r)
  BY <1>3, ConvertStands
<1> DEFINE c == Convert(s, from, r)
<1> HIDE DEF c
<1>5. c \in Seq(0 .. r - 1)
  BY <1>4 DEF StandsFor, c
<1>6. Zeros(k) \o Reverse(c) \in Seq(0 .. r - 1) /\ LaidOut(Zeros(k) \o Reverse(c), k, c)
  BY <1>5, LaysOut
<1> QED BY <1>1, <1>4, <1>6 DEF c

(* A conversion between two radices as a whole, in either direction.       *)
Conversion(s, from, r) == LeadingZeros(s) \o Reverse(Convert(s, from, r))

LEMMA ConversionLays ==
    ASSUME NEW f \in Radices, NEW r \in Radices, NEW d \in Seq(0 .. f - 1),
           NEW k \in Nat, NEW b \in Seq(0 .. f - 1), LaidOut(d, k, b),
           NEW n, StandsFor(b, n, f)
    PROVE  \E c : /\ Conversion(d, f, r) \in Seq(0 .. r - 1)
                  /\ LaidOut(Conversion(d, f, r), k, c)
                  /\ StandsFor(c, n, r)
BY ConversionKeeps DEF Conversion

LEMMA ConversionReturns ==
    ASSUME NEW f \in Radices, NEW r \in Radices, NEW d \in Seq(0 .. f - 1),
           NEW k \in Nat, NEW b \in Seq(0 .. f - 1), LaidOut(d, k, b),
           NEW n, StandsFor(b, n, f)
    PROVE  \E c : Conversion(d, f, r) = Zeros(k) \o Reverse(c) /\ StandsFor(c, n, r)
<1>1. PICK c : c = Convert(d, f, r)
  OBVIOUS
<1>2. StandsFor(c, n, r) /\ LeadingZeros(d) = Zeros(k)
  BY <1>1, ConversionKeeps
<1>3. Conversion(d, f, r) = Zeros(k) \o Reverse(c)
  BY <1>1, <1>2 DEF Conversion
<1> QED BY <1>2, <1>3

(* Converting there and back again gives the same string, whatever its     *)
(* length.                                                                 *)
LEMMA ConversionInverts ==
    ASSUME NEW f \in Radices, NEW r \in Radices, NEW d \in Seq(0 .. f - 1)
    PROVE  Conversion(Conversion(d, f, r), r, f) = d
<1>1. PICK k \in Nat, b \in Seq(0 .. f - 1) :
          /\ LaidOut(d, k, b) /\ LeadingZeros(d) = Zeros(k)
          /\ Len(b) > 0 => b[Len(b)] # 0
  BY LayoutExists
<1>2. PICK w : Reads(w, d, f)
  BY ReadsExists
<1>3. PICK n : n = w[Len(d)]
  OBVIOUS
<1>4. StandsFor(b, n, f)
  BY <1>1, <1>2, <1>3, LayoutStands
<1>5. PICK e : e = Conversion(d, f, r)
  OBVIOUS
<1>6. PICK c : e \in Seq(0 .. r - 1) /\ LaidOut(e, k, c) /\ StandsFor(c, n, r)
  BY <1>1, <1>4, <1>5, ConversionLays
<1>7. c \in Seq(0 .. r - 1)
  BY <1>6 DEF StandsFor
<1>8. PICK a : Conversion(e, r, f) = Zeros(k) \o Reverse(a) /\ StandsFor(a, n, f)
  BY <1>6, <1>7, ConversionReturns
<1>9. a = b
  BY <1>4, <1>8, BuffersAreUnique
<1>10. d = Zeros(k) \o Reverse(b)
  BY <1>1, LayoutIsString
<1> QED BY <1>5, <1>8, <1>9, <1>10

LEMMA EncodingInvertsDecoding ==
    ASSUME NEW d \in Seq(0 .. 57)
    PROVE  base58btcEncode(base58Decode(d)) = d
<1>1. PICK f \in Radices, r \in Radices : f = 58 /\ r = 256
  BY DEF Radices
<1>2. d \in Seq(0 .. f - 1)
  <2>1. 0 .. 57 = 0 .. f - 1
    BY <1>1
  <2> QED BY <2>1
<1>3. Conversion(Conversion(d, f, r), r, f) = d
  BY <1>2, ConversionInverts
<1> QED BY <1>1, <1>3 DEF base58btcEncode, base58Decode, Conversion

(* And the other way about: the bytes of a hash that did:webvh encodes,    *)
(* or any others, come back when they are decoded, leading zeros included  *)
(* (base58btcEncode against base58Decode).                                 *)
THEOREM DecodingInvertsEncoding ==
    ASSUME NEW b \in Seq(0 .. 255)
    PROVE  base58Decode(base58btcEncode(b)) = b
<1>1. PICK f \in Radices, r \in Radices : f = 256 /\ r = 58
  BY DEF Radices
<1>2. b \in Seq(0 .. f - 1)
  <2>1. 0 .. 255 = 0 .. f - 1
    BY <1>1
  <2> QED BY <2>1
<1>3. Conversion(Conversion(b, f, r), r, f) = b
  BY <1>2, ConversionInverts
<1> QED BY <1>1, <1>3 DEF base58btcEncode, base58Decode, Conversion

-----------------------------------------------------------------------------
(* Decoding the identifier of a did:key and encoding the bytes again gives *)
(* the identifier, whatever its length and its leading zeros, so no two    *)
(* spellings decode to the same bytes (base58Decode against                *)
(* base58btcEncode, written independently in two packages).                *)
THEOREM EncodingsAreUnique == Spec => []Base58Inverse
<1>1. Init => SentInv
  BY SentStart DEF Init
<1>2. SentInv => Base58Inverse
  BY EncodingInvertsDecoding DEF SentInv, Sent, OverTheAlphabet, Base58Inverse
<1> QED BY <1>1, <1>2, SentStep, DIDInNext, PTL DEF Spec, allVars
=============================================================================

----------------------- MODULE WhitelistRegistryProofs -----------------------
(***************************************************************************)
(* For any number of entities, spellings, configurations and versions: the *)
(* whitelist registry is type correct, and a rotation is final.            *)
(***************************************************************************)
EXTENDS WhitelistRegistry, TLAPS

-----------------------------------------------------------------------------
(* Every entry that is no wildcard is the spelling of one entity.          *)
LEMMA NormOfType == \A e \in Entries \ Wildcards : NormOf(e) \in Entities
<1> SUFFICES ASSUME NEW e \in Entries \ Wildcards PROVE NormOf(e) \in Entities
    OBVIOUS
<1>1. PICK n \in Entities : Covers[e] = {n}
    BY WhitelistAssumption
<1> QED  BY <1>1 DEF NormOf

(* Only spellings are looked up, by the snapshot a refresh starts from.    *)
TodoInv == \A e \in Entries : status[e] # "out" => e \notin Wildcards

TypeInv == TypeOK /\ TodoInv

(* An answer is a status and a set of keys.                                *)
LEMMA AnswerType ==
    ASSUME TypeInv, NEW e \in Entries \ Wildcards
    PROVE  /\ Answer(e).status \in {"fresh", "stale", "failed"}
           /\ Answer(e).keys \in SUBSET Keys
           /\ Collected(e, Answer(e)) \in SUBSET Keys
<1>1. NormOf(e) \in Entities
    BY NormOfType
<1>2. KeysOf[published[NormOf(e)]] \in SUBSET Keys
    BY <1>1, WhitelistAssumption DEF TypeInv, TypeOK
<1>3. Answer(e).status \in {"fresh", "stale", "failed"} /\ Answer(e).keys \in SUBSET Keys
    BY <1>2 DEF Answer, TypeInv, TypeOK
<1> QED  BY <1>1, <1>3 DEF Collected, TypeInv, TypeOK

LEMMA InitTypeInv == Init => TypeInv
<1> SUFFICES ASSUME Init PROVE TypeInv
    OBVIOUS
<1>1. /\ published \in [Entities -> Versions]
      /\ began \in [Entities -> Versions]
      /\ asOf \in [Entities -> Versions]
    BY WhitelistAssumption DEF Init, Versions
<1>2. up \in [Entries -> SUBSET {"inline", "url"}]
    BY WhitelistAssumption DEF Init
<1>3. status \in [Entries -> Statuses] /\ TodoInv
    BY DEF Init, Statuses, TodoInv
<1> QED  BY <1>1, <1>2, <1>3 DEF Init, TypeInv, TypeOK

LEMMA NextTypeInv == TypeInv /\ [Next]_vars => TypeInv'
<1> SUFFICES ASSUME TypeInv, [Next]_vars PROVE TypeInv'
    OBVIOUS
<1> USE DEF TypeInv, TypeOK, TodoInv, worldVars, fileVars, installed, refreshVars
<1>1. ASSUME Install PROVE TypeInv'
    BY <1>1 DEF Install
<1>2. ASSUME NEW op \in {"write", "create"}, HandleEvent(op) PROVE TypeInv'
    BY <1>2 DEF HandleEvent, Take, Load
<1>3. CASE RefreshBegin
    BY <1>3 DEF RefreshBegin, Listed, Statuses
<1>4. CASE RefreshEnd
  <2>1. asOf' \in [Entities -> Versions]
      BY <1>4, WhitelistAssumption DEF RefreshEnd, Versions
  <2>2. began' \in [Entities -> Versions]
      BY <1>4, WhitelistAssumption DEF RefreshEnd, Versions
  <2>3. keysLoaded' \in BOOLEAN
      BY <1>4 DEF RefreshEnd
  <2> QED  BY <1>4, <2>1, <2>2, <2>3 DEF RefreshEnd, Statuses
<1>5. ASSUME NEW e \in Entries, FetchEntity(e) PROVE TypeInv'
  <2>1. e \in Entries \ Wildcards
      BY <1>5 DEF FetchEntity
  <2>2. /\ Answer(e).status \in {"fresh", "stale", "failed"}
        /\ Answer(e).keys \in SUBSET Keys
        /\ Collected(e, Answer(e)) \in SUBSET Keys
      BY <2>1, AnswerType
  <2>3. status' = [status EXCEPT ![e] = Answer(e).status]
      BY <1>5 DEF FetchEntity
  <2>4. status' \in [Entries -> Statuses] /\ TodoInv'
      BY <2>1, <2>2, <2>3 DEF Statuses
  <2>5. newHashes' \in [Entities -> SUBSET Keys]
      BY <1>5, <2>1, <2>2, NormOfType DEF FetchEntity
  <2>6. cache' \in [Entries -> {None} \cup SUBSET Keys]
      BY <1>5, <2>2 DEF FetchEntity
  <2> QED  BY <1>5, <2>4, <2>5, <2>6 DEF FetchEntity
<1>6. CASE WriteBegin
    BY <1>6 DEF WriteBegin
<1>7. ASSUME NEW cfg \in FileConfigs, WriteEnd(cfg) PROVE TypeInv'
    BY <1>7 DEF WriteEnd
<1>8. ASSUME NEW cfg \in FileConfigs, Rename(cfg) PROVE TypeInv'
    BY <1>8 DEF Rename
<1>9. ASSUME NEW n \in Publishers, Rotate(n) PROVE TypeInv'
  <2>1. published[n] \in Versions => published[n] + 1 \in Versions
      BY <1>9, WhitelistAssumption DEF Rotate, Versions
  <2>2. published' \in [Entities -> Versions]
      BY <1>9, <2>1 DEF Rotate
  <2> QED  BY <1>9, <2>2 DEF Rotate
<1>10. ASSUME NEW e \in Entries, NEW p \in {"inline", "url"}, Toggle(e, p) PROVE TypeInv'
    BY <1>10 DEF Toggle
<1>11. CASE UNCHANGED vars
    BY <1>11 DEF vars
<1> QED
    BY <1>1, <1>2, <1>3, <1>4, <1>5, <1>6, <1>7, <1>8, <1>9, <1>10, <1>11
       DEF Next, Watcher, Refresher

(* TypeOK, for the goroutines that share the registry: every variable      *)
(* keeps its type; in particular a file that does not parse is never       *)
(* installed, and only spellings are fetched.                              *)
THEOREM TypeCorrectness == Spec => []TypeOK
<1>1. TypeInv => TypeOK
    BY DEF TypeInv
<1> QED  BY <1>1, InitTypeInv, NextTypeInv, PTL DEF Spec

-----------------------------------------------------------------------------
(* The keys ks of n have been published since version v of its JWKS.       *)
Since(v, n, ks) == \A k \in ks : \E w \in v .. published[n] : k \in KeysOf[w]

(* No entry of n looked up so far was answered by anything but the entity. *)
SoFarInFull(n) == \A e \in Entries \ Wildcards :
                     NormOf(e) = n => status[e] \in {"out", "todo", "fresh"}

(* Published keys are the only keys anywhere: in the fetcher's cache at    *)
(* any age, in a refresh that is answered in full since it began, and      *)
(* among the installed keys since the beginning of the last full refresh.  *)
KeyInv ==
    /\ \A n \in Entities : /\ asOf[n] <= published[n] /\ began[n] <= published[n]
                           /\ Since(asOf[n], n, keyHashes[n])
                           /\ Since(0, n, newHashes[n])
                           /\ SoFarInFull(n) => Since(began[n], n, newHashes[n])
    /\ \A e \in Entries \ Wildcards : cache[e] # None => Since(0, NormOf(e), cache[e])

LEMMA SinceWeakens ==
    ASSUME TypeOK, NEW n \in Entities, NEW v \in Nat, NEW ks, Since(v, n, ks)
    PROVE  Since(0, n, ks)
    BY DEF Since, TypeOK, Versions

LEMMA InitKeyInv == Init => KeyInv
    BY WhitelistAssumption DEF Init, KeyInv, Since, Versions

(* The keys an entry contributes were published some time, and since the   *)
(* refresh began if the entity itself answered.                            *)
LEMMA CollectedSince ==
    ASSUME TypeInv, KeyInv, NEW e \in Entries \ Wildcards
    PROVE  /\ Since(0, NormOf(e), Answer(e).keys)
           /\ Since(0, NormOf(e), Collected(e, Answer(e)))
           /\ Answer(e).status = "fresh" /\ SoFarInFull(NormOf(e))
                 => Since(began[NormOf(e)], NormOf(e), Collected(e, Answer(e)))
<1> DEFINE n == NormOf(e)
           a == Answer(e)
<1>1. n \in Entities
    BY NormOfType
<1> HIDE DEF n
<1>2. published[n] \in Nat /\ began[n] \in Nat /\ asOf[n] \in Nat /\ began[n] <= published[n]
    BY <1>1 DEF TypeInv, TypeOK, Versions, KeyInv
<1>3. Since(began[n], n, KeysOf[published[n]]) /\ Since(0, n, KeysOf[published[n]])
    BY <1>2 DEF Since
<1>4. Since(0, n, {}) /\ Since(began[n], n, {})
    BY DEF Since
<1>5. Since(0, n, keyHashes[n]) /\ Since(0, n, newHashes[n])
    BY <1>1, <1>2, SinceWeakens DEF TypeInv, KeyInv
<1>6. cache[e] # None => Since(0, n, cache[e])
    BY DEF KeyInv, n
<1>7. Since(0, n, a.keys) /\ (a.status = "fresh" => Since(began[n], n, a.keys))
    BY <1>3, <1>4, <1>6 DEF Answer, n
<1>8. SoFarInFull(n) => Since(began[n], n, newHashes[n])
    BY <1>1 DEF KeyInv
<1> QED  BY <1>5, <1>7, <1>8 DEF Collected, n

LEMMA NextKeyInv == TypeInv /\ KeyInv /\ [Next]_vars => KeyInv'
<1> SUFFICES ASSUME TypeInv, KeyInv, [Next]_vars PROVE KeyInv'
    OBVIOUS
<1> USE DEF worldVars, fileVars, installed, refreshVars
<1>1. ASSUME UNCHANGED <<published, installed, cache, status, newHashes, began>> PROVE KeyInv'
    BY <1>1 DEF KeyInv, Since, SoFarInFull
<1>2. ASSUME Install PROVE KeyInv'
    BY <1>1, <1>2 DEF Install
<1>3. ASSUME NEW op \in {"write", "create"}, HandleEvent(op) PROVE KeyInv'
    BY <1>1, <1>3 DEF HandleEvent, Take
<1>4. ASSUME RefreshBegin PROVE KeyInv'
  <2>1. \A n \in Entities : published[n] \in Nat
      BY DEF TypeInv, TypeOK, Versions
  <2> QED  BY <1>4, <2>1 DEF RefreshBegin, KeyInv, Since
<1>5. ASSUME RefreshEnd PROVE KeyInv'
  <2>1. \A n \in Entities : InFull(n) => SoFarInFull(n)
      BY DEF InFull, SoFarInFull
  <2>2. \A n \in Entities : published[n] \in Nat
      BY DEF TypeInv, TypeOK, Versions
  <2>3. ASSUME NEW n \in Entities
        PROVE  /\ asOf'[n] <= published'[n] /\ began'[n] <= published'[n]
               /\ Since(asOf[n], n, keyHashes[n])'
               /\ Since(0, n, newHashes[n])'
               /\ Since(began[n], n, newHashes[n])'
      BY <1>5, <2>1, <2>2, <2>3 DEF RefreshEnd, KeyInv, Since
  <2> QED  BY <1>5, <2>3 DEF RefreshEnd, KeyInv, Since
<1>6. ASSUME NEW e \in Entries, FetchEntity(e) PROVE KeyInv'
  <2> DEFINE m == NormOf(e)
             c == Collected(e, Answer(e))
  <2>1. e \in Entries \ Wildcards
      BY <1>6 DEF FetchEntity, TypeInv, TodoInv
  <2>2. m \in Entities
      BY <2>1, NormOfType
  <2>3. /\ Since(0, m, Answer(e).keys)
        /\ Since(0, m, c)
        /\ Answer(e).status = "fresh" /\ SoFarInFull(m) => Since(began[m], m, c)
      BY <2>1, CollectedSince
  <2>4. Answer(e).status \in {"fresh", "stale", "failed"}
      BY <2>1, AnswerType
  <2>5. /\ newHashes' = [newHashes EXCEPT ![m] = c]
        /\ status' = [status EXCEPT ![e] = Answer(e).status]
        /\ cache' = IF up[e] = {"url"} THEN [cache EXCEPT ![e] = Answer(e).keys] ELSE cache
        /\ status[e] = "todo"
        /\ UNCHANGED <<published, keyHashes, asOf, began>>
      BY <1>6 DEF FetchEntity
  <2>6. SoFarInFull(m)' => SoFarInFull(m) /\ Answer(e).status = "fresh"
    <3>1. SUFFICES ASSUME SoFarInFull(m)' PROVE SoFarInFull(m) /\ Answer(e).status = "fresh"
        OBVIOUS
    <3>2. status'[e] = Answer(e).status
        BY <2>5 DEF TypeInv, TypeOK
    <3>3. Answer(e).status = "fresh"
        BY <2>1, <2>4, <3>1, <3>2 DEF SoFarInFull
    <3>4. \A d \in Entries : d # e => status'[d] = status[d]
        BY <2>5 DEF TypeInv, TypeOK
    <3> QED  BY <2>5, <3>1, <3>3, <3>4 DEF SoFarInFull
  <2>7. \A n \in Entities : n # m => (SoFarInFull(n)' => SoFarInFull(n))
    <3>1. \A d \in Entries : d # e => status'[d] = status[d]
        BY <2>5 DEF TypeInv, TypeOK
    <3> QED  BY <3>1 DEF SoFarInFull
  <2> HIDE DEF m, c
  <2>8. ASSUME NEW n \in Entities
        PROVE  /\ asOf'[n] <= published'[n] /\ began'[n] <= published'[n]
               /\ Since(asOf[n], n, keyHashes[n])'
               /\ Since(0, n, newHashes[n])'
               /\ SoFarInFull(n)' => Since(began[n], n, newHashes[n])'
    <3>1. CASE n = m
      <4>1. newHashes'[m] = c
          BY <2>2, <2>5 DEF TypeInv, TypeOK
      <4> QED  BY <2>3, <2>5, <2>6, <2>8, <3>1, <4>1 DEF KeyInv, Since
    <3>2. CASE n # m
      <4>1. newHashes'[n] = newHashes[n]
          BY <2>5, <3>2 DEF TypeInv, TypeOK
      <4> QED  BY <2>5, <2>7, <2>8, <3>2, <4>1 DEF KeyInv, Since
    <3> QED  BY <3>1, <3>2
  <2>9. ASSUME NEW d \in Entries \ Wildcards, cache'[d] # None
        PROVE  Since(0, NormOf(d), cache[d])'
    <3>1. CASE d = e
      <4>1. cache'[e] \in {cache[e], Answer(e).keys}
          BY <2>5 DEF TypeInv, TypeOK
      <4> QED  BY <2>3, <2>5, <2>9, <3>1, <4>1 DEF KeyInv, Since, m
    <3>2. CASE d # e
      <4>1. cache'[d] = cache[d]
          BY <2>5, <3>2 DEF TypeInv, TypeOK
      <4> QED  BY <2>5, <2>9, <4>1 DEF KeyInv, Since
    <3> QED  BY <3>1, <3>2
  <2> QED  BY <2>8, <2>9 DEF KeyInv
<1>7. ASSUME WriteBegin PROVE KeyInv'
    BY <1>1, <1>7 DEF WriteBegin
<1>8. ASSUME NEW cfg \in FileConfigs, WriteEnd(cfg) \/ Rename(cfg) PROVE KeyInv'
    BY <1>1, <1>8 DEF WriteEnd, Rename
<1>9. ASSUME NEW m \in Publishers, Rotate(m) PROVE KeyInv'
  <2>1. \A n \in Entities : published[n] \in Nat /\ published'[n] \in Nat
                            /\ published[n] <= published'[n]
      BY <1>9, WhitelistAssumption DEF Rotate, TypeInv, TypeOK, Versions
  <2>2. \A n \in Entities, v \in Nat : \A ks : Since(v, n, ks) => Since(v, n, ks)'
      BY <2>1 DEF Since
  <2>3. \A n \in Entities : asOf[n] \in Nat /\ began[n] \in Nat
      BY DEF TypeInv, TypeOK, Versions
  <2>4. UNCHANGED <<keyHashes, asOf, cache, status, newHashes, began>>
      BY <1>9 DEF Rotate
  <2>5. ASSUME NEW n \in Entities
        PROVE  /\ asOf'[n] <= published'[n] /\ began'[n] <= published'[n]
               /\ Since(asOf[n], n, keyHashes[n])'
               /\ Since(0, n, newHashes[n])'
               /\ SoFarInFull(n)' => Since(began[n], n, newHashes[n])'
    <3>1. SoFarInFull(n)' => SoFarInFull(n)
        BY <2>4 DEF SoFarInFull
    <3>2. asOf[n] <= published'[n] /\ began[n] <= published'[n]
        BY <2>1, <2>3 DEF KeyInv
    <3> QED  BY <2>1, <2>3, <2>4, <3>1, <3>2 DEF KeyInv, Since
  <2>6. ASSUME NEW d \in Entries \ Wildcards, cache'[d] # None
        PROVE  Since(0, NormOf(d), cache[d])'
    <3>1. NormOf(d) \in Entities
        BY NormOfType
    <3> QED  BY <2>1, <2>4, <2>6, <3>1 DEF KeyInv, Since
  <2> QED  BY <2>5, <2>6 DEF KeyInv
<1>10. ASSUME NEW e \in Entries, NEW p \in {"inline", "url"}, Toggle(e, p) PROVE KeyInv'
    BY <1>1, <1>10 DEF Toggle
<1>11. CASE UNCHANGED vars
    BY <1>1, <1>11 DEF vars
<1> QED
    BY <1>2, <1>3, <1>4, <1>5, <1>6, <1>7, <1>8, <1>9, <1>10, <1>11
       DEF Next, Watcher, Refresher

(* WithdrawnKeysAreRefused: an evaluation accepts a bare key only if the   *)
(* entity has published it since the last refresh it answered in full      *)
(* began, whatever the fetcher's cache holds.                              *)
THEOREM RotationIsFinal == Spec => []WithdrawnKeysAreRefused
<1>1. TypeInv /\ KeyInv => WithdrawnKeysAreRefused
    BY DEF KeyInv, Since, WithdrawnKeysAreRefused, Evaluate, evaluateViaSystemCA, Jwk
<1>2. Init => TypeInv /\ KeyInv
    BY InitTypeInv, InitKeyInv
<1>3. TypeInv /\ KeyInv /\ [Next]_vars => (TypeInv /\ KeyInv)'
    BY NextTypeInv, NextKeyInv
<1> QED  BY <1>1, <1>2, <1>3, PTL DEF Spec
=============================================================================

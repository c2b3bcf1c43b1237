-------------------------- MODULE TSLRegistryProofs --------------------------
(***************************************************************************)
(* The registry of ETSI trusted lists for any graph of references, any     *)
(* dates, signers, pivots and number of requests.                          *)
(***************************************************************************)
EXTENDS TSLRegistry, WellFoundedInduction, NaturalsInduction, TLAPS

(* The references among the lists of a tree are those that were published, *)
(* and what it holds of a location was published there.                    *)
Shaped(T) ==
    /\ T \in Trees
    /\ T.root \in Nodes(T)
    /\ T.refs = IF T.root \in Following
                THEN {p \in Nodes(T) \X Nodes(T) : p[2] \in Refs[p[1]]} ELSE {}
    /\ \A l \in Nodes(T) : T.lists[l].revision \in Revisions(l)

Closed(S, T, t) ==
    /\ current(T.lists[T.root], t) => T.root \in S
    /\ \A p \in T.refs : p[1] \in S /\ current(T.lists[p[2]], t) => p[2] \in S

(* Every list is reached from the root through lists of the tree.          *)
Connected(T) ==
    \A S \in SUBSET Nodes(T) :
        T.root \in S /\ (\A p \in T.refs : p[1] \in S => p[2] \in S) => S = Nodes(T)

Sound(T) == Shaped(T) /\ Connected(T)

(* U is what is left of T.                                                 *)
PartOf(U, T) ==
    /\ U.root = T.root /\ Nodes(U) \subseteq Nodes(T)
    /\ \A l \in Nodes(U) : U.lists[l] = T.lists[l]

ShapeInv ==
    /\ \A l \in Locations : edition[l].revision \in Revisions(l)
    /\ phase = "check" => Shaped(tree)
    /\ phase = "verify" => Sound(tree) /\ unverified \subseteq Nodes(tree)
    /\ \A T \in trees \cup roots \cup loaded : Sound(T)

SignedBy(T, l) == SignerOf[l][T.lists[l].revision]

(* A refresh trusts whom it may, and what it has verified is signed.       *)
SignedInv ==
    /\ signers \subseteq TrustedSigners
    /\ RequireSignature =>
          /\ phase = "verify" => \A l \in Nodes(tree) \ unverified : SignedBy(tree, l) \in TrustedSigners
          /\ \A T \in trees \cup roots : \A l \in Nodes(T) : SignedBy(T, l) \in TrustedSigners

(* Of a source that is current, what lists that are current lead to is     *)
(* still in use.                                                           *)
LiveInv ==
    \A T \in loaded : current(T.lists[T.root], now) =>
        \E U \in roots : PartOf(U, T) /\ reachable(T, now) \subseteq Nodes(U)

(* What a request reads was current when it began.                         *)
ReadInv ==
    \A q \in Requests :
        /\ seen[q] <= now
        /\ pc[q] = "read" /\ ~swapped[q] =>
              \A T \in roots : \A l \in Nodes(T) : current(T.lists[l], seen[q])

Inv == TypeOK /\ ShapeInv /\ SignedInv /\ LiveInv /\ ReadInv

-----------------------------------------------------------------------------
(* The lists that are reached are the least set that is closed.            *)
LEMMA Fields ==
    ASSUME NEW T \in Trees
    PROVE  /\ Nodes(T) \subseteq Locations
           /\ T.root \in Locations /\ T.refs \subseteq Locations \X Locations
           /\ T.lists \in [Nodes(T) -> Editions]
           /\ \A l \in Nodes(T) : T.lists[l].revision \in Nat /\ T.lists[l].next \in Time
<1>1. PICK S \in SUBSET Locations : T.lists \in [S -> Editions]
  BY DEF Trees
<1>2. Nodes(T) = S
  BY <1>1 DEF Nodes
<1>3. \A e \in Editions : e.revision \in Nat /\ e.next \in Time
  BY TSLAssumption DEF Editions, Revisions
<1> QED BY <1>1, <1>2, <1>3 DEF Trees

LEMMA ReachableIsClosed ==
    ASSUME NEW T, NEW t, Shaped(T)
    PROVE  Closed(reachable(T, t), T, t)
<1>1. T.refs \subseteq Nodes(T) \X Nodes(T)
  BY DEF Shaped
<1>2. current(T.lists[T.root], t) => T.root \in reachable(T, t)
  BY DEF Shaped, reachable
<1>3. ASSUME NEW p \in T.refs, p[1] \in reachable(T, t), current(T.lists[p[2]], t)
      PROVE  p[2] \in reachable(T, t)
  <2>1. p[2] \in Nodes(T)
    BY <1>1
  <2>2. ASSUME NEW S \in SUBSET Nodes(T), Closed(S, T, t) PROVE p[2] \in S
    <3>1. p[1] \in S
      BY <1>3, <2>2 DEF reachable, Closed
    <3> QED BY <1>3, <2>2, <3>1 DEF Closed
  <2> QED BY <2>1, <2>2 DEF reachable, Closed
<1> QED BY <1>2, <1>3 DEF Closed

LEMMA ReachableIsLeast ==
    ASSUME NEW T, NEW t, NEW S \in SUBSET Nodes(T), Closed(S, T, t)
    PROVE  reachable(T, t) \subseteq S
  BY DEF reachable, Closed

LEMMA ReachableIsCurrent ==
    ASSUME NEW T, NEW t, Shaped(T)
    PROVE  /\ reachable(T, t) \subseteq Nodes(T)
           /\ \A l \in reachable(T, t) : current(T.lists[l], t)
           /\ reachable(T, t) # {} <=> current(T.lists[T.root], t)
<1> DEFINE S == {l \in Nodes(T) : current(T.lists[l], t)}
<1>1. Closed(S, T, t)
  BY DEF Shaped, Closed
<1>2. reachable(T, t) \subseteq S
  BY <1>1, ReachableIsLeast
<1>3. current(T.lists[T.root], t) => T.root \in reachable(T, t)
  BY ReachableIsClosed DEF Closed
<1>4. ~current(T.lists[T.root], t) => reachable(T, t) \subseteq {}
  <2>1. ~current(T.lists[T.root], t) => Closed({}, T, t)
    BY DEF Closed
  <2> QED BY <2>1, ReachableIsLeast
<1> QED BY <1>2, <1>3, <1>4

LEMMA ReachableShrinks ==
    ASSUME NEW T, NEW t \in Time, NEW u \in Time, Shaped(T), t <= u
    PROVE  reachable(T, u) \subseteq reachable(T, t)
<1>1. \A l \in Nodes(T) : current(T.lists[l], u) => current(T.lists[l], t)
  <2> SUFFICES ASSUME NEW l \in Nodes(T), u <= T.lists[l].next PROVE t <= T.lists[l].next
    BY DEF current
  <2>1. T.lists[l].next \in Time
    BY Fields DEF Shaped
  <2>2. t \in Int /\ u \in Int /\ T.lists[l].next \in Int
    BY <2>1 DEF Time
  <2> QED BY <2>2
<1>2. Closed(reachable(T, t), T, u)
  <2>1. T.root \in Nodes(T) /\ \A p \in T.refs : p[2] \in Nodes(T)
    BY DEF Shaped
  <2>2. Closed(reachable(T, t), T, t)
    BY ReachableIsClosed
  <2> QED BY <1>1, <2>1, <2>2 DEF Closed
<1> QED BY <1>2, ReachableIsLeast, ReachableIsCurrent

LEMMA PruneFields ==
    ASSUME NEW T, NEW t, Shaped(T)
    PROVE  /\ prune(T, t).root = T.root
           /\ Nodes(prune(T, t)) = reachable(T, t)
           /\ \A l \in reachable(T, t) : prune(T, t).lists[l] = T.lists[l]
           /\ prune(T, t).refs = T.refs \cap (reachable(T, t) \X reachable(T, t))
           /\ prune(T, t) \in Trees
<1> DEFINE S == reachable(T, t)
           L == [l \in S |-> T.lists[l]]
<1>1. S \in SUBSET Nodes(T)
  BY ReachableIsCurrent
<1>2. prune(T, t) = [root |-> T.root, lists |-> L, refs |-> T.refs \cap (S \X S)]
  <2>1. T = [root |-> T.root, lists |-> T.lists, refs |-> T.refs]
    BY DEF Shaped, Trees
  <2>2. prune(T, t) = [T EXCEPT !.lists = L, !.refs = T.refs \cap (S \X S)]
    <3>1. [T EXCEPT !.lists = L].refs = T.refs
      <4> HIDE DEF L, S
      <4> QED BY <2>1
    <3> QED BY <3>1 DEF prune, RestrictTo
  <2> HIDE DEF L, S
  <2> QED BY <2>1, <2>2
<1>3. L \in [S -> Editions] /\ S \in SUBSET Locations
  BY <1>1, Fields DEF Shaped
<1>4. L \in UNION {[R -> Editions] : R \in SUBSET Locations}
  <2> HIDE DEF L, S
  <2> QED BY <1>3
<1>5. prune(T, t) \in Trees
  <2> HIDE DEF L
  <2> QED BY <1>2, <1>4, Fields DEF Trees, Shaped
<1> QED BY <1>1, <1>2, <1>5 DEF Nodes

(* What is left of a source is connected again.                            *)
LEMMA PruneSound ==
    ASSUME NEW T, NEW t, Shaped(T), current(T.lists[T.root], t)
    PROVE  Sound(prune(T, t)) /\ PartOf(prune(T, t), T)
<1> DEFINE P == prune(T, t)
           S == reachable(T, t)
<1>1. /\ P.root = T.root /\ Nodes(P) = S /\ P.refs = T.refs \cap (S \X S) /\ P \in Trees
      /\ \A l \in S : P.lists[l] = T.lists[l]
  BY PruneFields
<1>2. S \subseteq Nodes(T) /\ Closed(S, T, t) /\ T.root \in S
  BY ReachableIsClosed, ReachableIsCurrent DEF Closed
<1> HIDE DEF P, S
<1>3. Shaped(P)
  <2>1. P.refs = IF P.root \in Following
                 THEN {p \in Nodes(P) \X Nodes(P) : p[2] \in Refs[p[1]]} ELSE {}
    BY <1>1, <1>2 DEF Shaped
  <2> QED BY <1>1, <1>2, <2>1 DEF Shaped
<1>4. Connected(P)
  <2> SUFFICES ASSUME NEW R \in SUBSET S, T.root \in R,
                      \A p \in P.refs : p[1] \in R => p[2] \in R
               PROVE  S \subseteq R
    BY <1>1 DEF Connected
  <2>1. \A p \in T.refs : p[1] \in R /\ current(T.lists[p[2]], t) => p[2] \in R
    <3> SUFFICES ASSUME NEW p \in T.refs, p[1] \in R, current(T.lists[p[2]], t) PROVE p[2] \in R
      OBVIOUS
    <3>1. p[2] \in S
      BY <1>2 DEF Closed
    <3>2. p \in S \X S
      BY <3>1 DEF Shaped
    <3> QED BY <1>1, <3>2
  <2> QED BY <1>2, <2>1, ReachableIsLeast DEF Closed, S
<1> QED BY <1>1, <1>2, <1>3, <1>4 DEF Sound, PartOf, P

(* Pruning a part of a source keeps what the source still leads to.        *)
LEMMA PruneKeeps ==
    ASSUME NEW T, NEW U, NEW t, Shaped(T), Shaped(U), PartOf(U, T),
           reachable(T, t) \subseteq Nodes(U)
    PROVE  reachable(T, t) \subseteq reachable(U, t)
<1> DEFINE R == reachable(T, t)
           W == reachable(U, t)
<1>1. Closed(R, T, t) /\ Closed(W, U, t) /\ R \subseteq Nodes(T) /\ W \subseteq Nodes(U)
  BY ReachableIsClosed, ReachableIsCurrent
<1>2. R \subseteq Nodes(U)
  OBVIOUS
<1>3. \A S \in SUBSET Nodes(T) : Closed(S, T, t) => R \subseteq S
  BY ReachableIsLeast
<1> HIDE DEF R, W
<1>4. current(T.lists[T.root], t) => T.root \in R \cap W
  BY <1>1 DEF Closed, PartOf, Shaped
<1>5. ASSUME NEW p \in T.refs, p[1] \in R \cap W, current(T.lists[p[2]], t) PROVE p[2] \in R \cap W
  <2>1. p[2] \in R
    BY <1>1, <1>5 DEF Closed
  <2>2. p \in U.refs
    BY <1>1, <1>2, <1>5, <2>1 DEF Shaped, PartOf
  <2>3. current(U.lists[p[2]], t)
    BY <1>2, <1>5, <2>1 DEF PartOf
  <2> QED BY <1>1, <1>5, <2>1, <2>2, <2>3 DEF Closed
<1>6. Closed(R \cap W, T, t)
  BY <1>4, <1>5 DEF Closed
<1>7. R \subseteq R \cap W
  BY <1>1, <1>3, <1>6
<1> QED BY <1>7 DEF R, W

LEMMA AllReached ==
    ASSUME NEW T, NEW t, Sound(T), \A l \in Nodes(T) : current(T.lists[l], t)
    PROVE  reachable(T, t) = Nodes(T)
<1>1. Closed(reachable(T, t), T, t) /\ reachable(T, t) \subseteq Nodes(T)
  BY ReachableIsClosed, ReachableIsCurrent DEF Sound
<1>2. T.root \in reachable(T, t) /\ \A p \in T.refs : p[1] \in reachable(T, t) => p[2] \in reachable(T, t)
  BY <1>1 DEF Sound, Shaped, Closed
<1> QED BY <1>1, <1>2 DEF Sound, Connected

(* The references kept are those published.                                *)
LEMMA VouchedIsReachable ==
    ASSUME NEW T, NEW t, Shaped(T)
    PROVE  Vouched(T, t) = reachable(T, t)
<1>1. ASSUME NEW S \in SUBSET Nodes(T)
      PROVE  (\A m \in S : \A n \in Refs[m] \cap Nodes(T) :
                 T.root \in Following /\ current(T.lists[n], t) => n \in S)
             <=> \A p \in T.refs : p[1] \in S /\ current(T.lists[p[2]], t) => p[2] \in S
  <2>1. ASSUME \A m \in S : \A n \in Refs[m] \cap Nodes(T) :
                  T.root \in Following /\ current(T.lists[n], t) => n \in S,
               NEW p \in T.refs, p[1] \in S, current(T.lists[p[2]], t)
        PROVE  p[2] \in S
    BY <2>1 DEF Shaped
  <2>2. ASSUME \A p \in T.refs : p[1] \in S /\ current(T.lists[p[2]], t) => p[2] \in S,
               NEW m \in S, NEW n \in Refs[m] \cap Nodes(T),
               T.root \in Following, current(T.lists[n], t)
        PROVE  n \in S
    <3>1. <<m, n>> \in T.refs
      BY <2>2 DEF Shaped
    <3> QED BY <2>2, <3>1
  <2> QED BY <2>1, <2>2
<1> QED BY <1>1 DEF Vouched, reachable

-----------------------------------------------------------------------------
(* Recursion over the levels of references and over the pivots.            *)
LEMMA Smallest ==
    ASSUME NEW T \in SUBSET Nat, T # {}
    PROVE  \E m \in T : \A n \in T : ~(n < m)
<1> DEFINE R == {p \in Nat \X Nat : p[1] < p[2]}
<1>1. IsWellFoundedOn(R, Nat)
  BY NatLessThanWellFounded DEF OpToRel
<1>2. PICK m \in T : \A n \in T : <<n, m>> \notin R
  <2> HIDE DEF R
  <2> QED BY <1>1, WFMin
<1> QED BY <1>2

LEMMA StaysIn ==
    ASSUME NEW n \in Nat, NEW D, NEW g, g[0] \in D,
           \A i \in 1 .. n : g[i - 1] \in D => g[i] \in D
    PROVE  \A i \in 0 .. n : g[i] \in D
<1> DEFINE T == {i \in 0 .. n : g[i] \notin D}
<1>1. T \in SUBSET Nat
  OBVIOUS
<1>2. ASSUME T # {} PROVE FALSE
  <2>1. PICK m \in T : \A i \in T : ~(i < m)
    <3> HIDE DEF T
    <3> QED BY <1>1, <1>2, Smallest
  <2>2. m \in 1 .. n /\ m - 1 \in 0 .. n /\ m - 1 < m
    BY <2>1
  <2>3. m - 1 \notin T
    <3> HIDE DEF T
    <3> QED BY <2>1, <2>2
  <2> QED BY <2>1, <2>2, <2>3
<1> QED BY <1>2

Iterates(g, n, D, base, F) ==
    /\ g \in [0 .. n -> D] /\ g[0] = base
    /\ \A i \in 1 .. n : g[i] = F[<<i, g[i - 1]>>]

LEMMA Recursion ==
    ASSUME NEW n, n \in Nat, NEW D, NEW base, base \in D,
           NEW F, F \in [(1 .. n) \X D -> D]
    PROVE  \E g : Iterates(g, n, D, base, F)
<1> DEFINE Rec(g, m) == /\ g \in [0 .. m -> D] /\ g[0] = base
                        /\ \A i \in 1 .. m : g[i] = F[<<i, g[i - 1]>>]
           T == {m \in 0 .. n : ~\E g : Rec(g, m)}
<1>1. ASSUME T # {} PROVE FALSE
  <2>1. PICK m \in T : \A k \in T : ~(k < m)
    <3>1. T \in SUBSET Nat
      OBVIOUS
    <3> HIDE DEF T
    <3> QED BY <1>1, <3>1, Smallest
  <2>2. CASE m = 0
    <3>1. Rec([i \in 0 .. 0 |-> base], 0)
      OBVIOUS
    <3> QED BY <2>1, <2>2, <3>1
  <2>3. CASE m # 0
    <3>1. m \in 1 .. n /\ m - 1 \in 0 .. n /\ m - 1 < m
      BY <2>1, <2>3
    <3>2. m - 1 \notin T
      <4> HIDE DEF T
      <4> QED BY <2>1, <3>1
    <3>3. PICK f : Rec(f, m - 1)
      BY <3>1, <3>2
    <3> DEFINE e == F[<<m, f[m - 1]>>]
               g == [i \in 0 .. m |-> IF i < m THEN f[i] ELSE e]
    <3>4. f[m - 1] \in D /\ e \in D
      BY <3>1, <3>3
    <3>5. g \in [0 .. m -> D] /\ g[0] = base
      <4> HIDE DEF e
      <4> QED BY <3>1, <3>3, <3>4
    <3>6. ASSUME NEW i \in 1 .. m PROVE g[i] = F[<<i, g[i - 1]>>]
      <4>1. i - 1 \in 0 .. m /\ i - 1 < m /\ g[i - 1] = f[i - 1]
        BY <3>1
      <4>2. CASE i < m
        <5>1. i \in 1 .. m - 1 /\ i \in 0 .. m /\ g[i] = f[i]
          BY <3>1, <4>2
        <5> HIDE DEF g, e
        <5> QED BY <3>3, <4>1, <5>1
      <4>3. CASE i = m
        <5>1. g[i] = e
          BY <3>1, <4>3
        <5> HIDE DEF g
        <5> QED BY <4>1, <4>3, <5>1
      <4> QED BY <4>2, <4>3, <3>1
    <3>7. Rec(g, m)
      <4> HIDE DEF g
      <4> QED BY <3>5, <3>6
    <3> HIDE DEF g, Rec
    <3> QED BY <2>1, <3>7
  <2> QED BY <2>2, <2>3
<1>2. n \notin T
  <2> HIDE DEF T
  <2> QED BY <1>1
<1> QED BY <1>2 DEF Iterates

LEMMA DereferencedFound ==
    ASSUME NEW src \in Locations
    PROVE  src \in Dereferenced(src) /\ Dereferenced(src) \subseteq Locations
<1> DEFINE n == MaxRefDepth
           D == {S \in SUBSET Locations : src \in S}
           Step(S) == S \cup (UNION {Refs[l] : l \in S} \ down)
           Rec(g) == g = [d \in 0 .. n |-> IF d = 0 THEN {src} ELSE Step(g[d - 1])]
           w == CHOOSE g : Rec(g)
<1>1. n \in Nat
  BY TSLAssumption
<1>2. \A S \in D : Step(S) \in D
  BY TSLAssumption
<1>3. \E g : Rec(g)
  <2> DEFINE F == [p \in (1 .. n) \X D |-> Step(p[2])]
  <2>1. {src} \in D /\ F \in [(1 .. n) \X D -> D]
    <3> HIDE DEF Step
    <3> QED BY <1>2
  <2>2. PICK g : Iterates(g, n, D, {src}, F)
    <3> HIDE DEF F, D, n
    <3> QED BY <1>1, <2>1, Recursion
  <2>3. ASSUME NEW i \in 0 .. n PROVE g[i] = IF i = 0 THEN {src} ELSE Step(g[i - 1])
    <3>1. CASE i # 0
      <4>1. i \in 1 .. n /\ i - 1 \in 0 .. n
        BY <1>1, <3>1
      <4>2. <<i, g[i - 1]>> \in (1 .. n) \X D
        BY <2>2, <4>1 DEF Iterates
      <4>3. F[<<i, g[i - 1]>>] = Step(g[i - 1])
        <5> HIDE DEF D, Step, n
        <5> QED BY <4>2
      <4> QED BY <2>2, <3>1, <4>1, <4>3 DEF Iterates
    <3> QED BY <2>2, <3>1 DEF Iterates
  <2>4. Rec(g)
    <3> HIDE DEF Step, F, D, n
    <3> QED BY <2>2, <2>3 DEF Iterates
  <2> HIDE DEF Rec
  <2> QED BY <2>4
<1>4. Rec(w)
  <2> HIDE DEF Rec
  <2> QED BY <1>3
<1>5. w[0] \in D /\ \A i \in 1 .. n : w[i - 1] \in D => w[i] \in D
  <2>1. w[0] = {src} /\ \A i \in 1 .. n : w[i] = Step(w[i - 1])
    <3>1. w = [d \in 0 .. n |-> IF d = 0 THEN {src} ELSE Step(w[d - 1])]
      <4> HIDE DEF w, Step, n
      <4> QED BY <1>4
    <3> HIDE DEF w, Step, n
    <3>2. 0 \in 0 .. n /\ \A i \in 1 .. n : i \in 0 .. n /\ i # 0
      BY <1>1
    <3> QED BY <3>1, <3>2
  <2> HIDE DEF w, Step
  <2> QED BY <1>2, <2>1
<1>6. w[n] \in D
  <2> HIDE DEF w, D
  <2> QED BY <1>1, <1>5, StaysIn
<1>7. Dereferenced(src) = IF src \in Following THEN w[n] ELSE {src}
  BY DEF Dereferenced
<1> QED
  <2> HIDE DEF w, n
  <2> QED BY <1>6, <1>7

(* A pivot adds signers only if one who is trusted has signed it.          *)
LEMMA PivotsAreTrusted ==
    ASSUME NEW l \in Locations, tree.lists[l].revision \in Revisions(l),
           signers \subseteq TrustedSigners
    PROVE  resolvePivotChain(l) \subseteq TrustedSigners
<1> DEFINE urls == PivotURLs[l][tree.lists[l].revision]
           n == Len(urls)
           D == SUBSET TrustedSigners
           Step(i, S) == IF urls[i] \notin down /\ PivotSigner[urls[i]] \in S
                         THEN S \cup PointerSigners[urls[i]][l] ELSE S
           Rec(g) == g = [i \in 0 .. n |-> IF i = 0 THEN signers ELSE Step(i, g[i - 1])]
           w == CHOOSE g : Rec(g)
<1>1. urls \in Seq(Pivots) /\ n \in Nat
  BY TSLAssumption
<1>n. n \in Nat
  BY <1>1
<1>2. ASSUME NEW i \in 1 .. n, NEW S \in D PROVE Step(i, S) \in D
  <2>1. urls[i] \in Pivots
    BY <1>1
  <2>2. ASSUME PivotSigner[urls[i]] \in S PROVE PointerSigners[urls[i]][l] \subseteq TrustedSigners
    <3>1. PointerSigners[urls[i]][l] \subseteq Keys
      <4> HIDE DEF urls
      <4> QED BY <2>1, TSLAssumption
    <3>2. PivotSigner[urls[i]] \in TrustedSigners
      BY <2>2
    <3> HIDE DEF urls
    <3> QED BY <2>1, <3>1, <3>2 DEF TrustedSigners
  <2> HIDE DEF urls
  <2> QED BY <2>2
<1>3. \E g : Rec(g)
  <2> HIDE DEF urls
  <2> DEFINE F == [p \in (1 .. n) \X D |-> Step(p[1], p[2])]
  <2>1. signers \in D /\ F \in [(1 .. n) \X D -> D]
    <3> HIDE DEF Step, n, D
    <3> QED BY <1>2 DEF D
  <2>2. PICK g : Iterates(g, n, D, signers, F)
    <3> HIDE DEF F, D, n
    <3> QED BY <1>n, <2>1, Recursion
  <2>3. ASSUME NEW i \in 0 .. n PROVE g[i] = IF i = 0 THEN signers ELSE Step(i, g[i - 1])
    <3>1. CASE i # 0
      <4>1. i \in 1 .. n /\ i - 1 \in 0 .. n
        <5> HIDE DEF n, F, Step, D
        <5> QED BY <1>n, <3>1
      <4>2. <<i, g[i - 1]>> \in (1 .. n) \X D
        <5> HIDE DEF n, D
        <5> QED BY <2>2, <4>1 DEF Iterates
      <4>3. F[<<i, g[i - 1]>>] = Step(i, g[i - 1])
        <5> HIDE DEF D, Step, n
        <5> QED BY <4>2
      <4> HIDE DEF n, F, Step, D
      <4> QED BY <2>2, <3>1, <4>1, <4>3 DEF Iterates
    <3> QED BY <2>2, <3>1 DEF Iterates
  <2>4. Rec(g)
    <3> HIDE DEF Step, F, D, n
    <3> QED BY <2>2, <2>3 DEF Iterates
  <2> HIDE DEF Rec
  <2> QED BY <2>4
<1>4. Rec(w)
  <2> HIDE DEF Rec
  <2> QED BY <1>3
<1>5. w[0] \in D /\ \A i \in 1 .. n : w[i - 1] \in D => w[i] \in D
  <2>1. w[0] = signers /\ \A i \in 1 .. n : w[i] = Step(i, w[i - 1])
    <3> HIDE DEF w, Step, n
    <3> QED BY <1>1, <1>4
  <2> HIDE DEF w, Step, n
  <2> QED BY <1>2, <2>1
<1>6. w[n] \in D
  <2>1. n \in 0 .. n
    <3> HIDE DEF n
    <3> QED BY <1>1
  <2> HIDE DEF w, D, n
  <2> QED BY <1>1, <1>5, <2>1, StaysIn
<1>7. resolvePivotChain(l) = w[n]
  BY DEF resolvePivotChain
<1> QED
  <2> HIDE DEF w, n
  <2> QED BY <1>6, <1>7

LEMMA Earliest ==
    ASSUME NEW Ts \in SUBSET Trees
    PROVE  /\ earliestDeadline(Ts) \in Time
           /\ \A T \in Ts : \A l \in Nodes(T) : earliestDeadline(Ts) <= T.lists[l].next
<1> DEFINE X == Dates(Ts) \cup {MaxTime}
           P(t) == /\ \A d \in Dates(Ts) : t <= d
                   /\ t = MaxTime \/ t \in Dates(Ts)
<1>1. Dates(Ts) \subseteq Time
  BY Fields DEF Dates
<1>2. X \in SUBSET Nat /\ X # {} /\ MaxTime \in Nat
  BY <1>1, TSLAssumption DEF Time
<1>3. PICK t \in X : \A d \in X : ~(d < t)
  <2> HIDE DEF X
  <2> QED BY <1>2, Smallest
<1>4. t \in Time /\ P(t)
  <2>1. t \in Nat /\ t <= MaxTime
    BY <1>1, <1>2, <1>3 DEF Time
  <2>2. \A d \in Dates(Ts) : t <= d
    BY <1>1, <1>2, <1>3 DEF Time
  <2> QED BY <1>1, <1>3, <2>1, <2>2 DEF Time
<1>5. earliestDeadline(Ts) = CHOOSE u \in Time : P(u)
  BY DEF earliestDeadline
<1>6. earliestDeadline(Ts) \in Time /\ P(earliestDeadline(Ts))
  <2> HIDE DEF P
  <2> QED BY <1>4, <1>5
<1> QED BY <1>6 DEF Dates

-----------------------------------------------------------------------------
(* The types.                                                              *)
LEMMA FetchedShaped ==
    ASSUME NEW src \in Locations, edition \in [Locations -> Editions],
           \A l \in Locations : edition[l].revision \in Revisions(l)
    PROVE  Shaped(Fetched(src))
<1> DEFINE S == Dereferenced(src)
           F == Fetched(src)
           L == [l \in S |-> edition[l]]
           R == IF src \in Following THEN {p \in S \X S : p[2] \in Refs[p[1]]} ELSE {}
<1>1. src \in S /\ S \in SUBSET Locations
  BY DereferencedFound
<1>2. F = [root |-> src, lists |-> L, refs |-> R]
  BY DEF Fetched
<1> HIDE DEF S
<1>3. L \in [S -> Editions] /\ R \subseteq S \X S /\ DOMAIN L = S
  BY <1>1
<1>4. L \in UNION {[Q -> Editions] : Q \in SUBSET Locations}
  <2> HIDE DEF L
  <2> QED BY <1>1, <1>3
<1>5. F \in Trees
  <2> HIDE DEF L, R, F
  <2> QED BY <1>1, <1>2, <1>3, <1>4 DEF Trees
<1>6. Nodes(F) = S /\ F.root = src /\ F.refs = R /\ F.lists = L
  <2> HIDE DEF L, R, F
  <2> QED BY <1>2, <1>3 DEF Nodes
<1>7. \A l \in S : F.lists[l].revision \in Revisions(l)
  <2>1. \A l \in S : l \in Locations /\ L[l] = edition[l]
    BY <1>1
  <2> HIDE DEF L, R, F
  <2> QED BY <1>6, <2>1
<1>8. Shaped(F)
  <2> HIDE DEF F, L
  <2> QED BY <1>1, <1>5, <1>6, <1>7 DEF Shaped
<1> QED BY <1>8

LEMMA SignerTypes ==
    /\ TrustedSigners \subseteq Keys /\ LOTLSigners \subseteq TrustedSigners
    /\ None \notin TrustedSigners
<1>1. TrustedSigners \subseteq Keys /\ LOTLSigners \subseteq TrustedSigners
  BY TSLAssumption DEF TrustedSigners
<1> QED BY <1>1, TSLAssumption

LEMMA TypeStart == Init => TypeOK
<1> SUFFICES ASSUME Init PROVE TypeOK
  OBVIOUS
<1>1. now \in Time /\ 0 \in Time
  BY TSLAssumption DEF Init, Time
<1>2. edition \in [Locations -> Editions]
  <2>1. edition \in [Locations -> [revision : {0}, next : Time]]
    BY DEF Init
  <2>2. ASSUME NEW l \in Locations PROVE edition[l] \in Editions
    <3>1. 0 \in Revisions(l)
      BY TSLAssumption DEF Revisions
    <3>2. edition[l] \in [revision : Revisions(l), next : Time]
      BY <2>1, <3>1
    <3> QED BY <3>2 DEF Editions
  <2> QED BY <2>1, <2>2
<1>3. todo \in Seq(Locations) /\ signers \subseteq Keys
  BY TSLAssumption DEF Init
<1> QED BY <1>1, <1>2, <1>3 DEF Init, TypeOK

LEMMA Published ==
    ASSUME NEW l \in Locations, NEW next, ShapeInv, Publish(l, next)
    PROVE  edition[l].revision + 1 \in Revisions(l)
<1>1. edition[l].revision \in 0 .. LastRevision[l] /\ LastRevision[l] \in Nat
  BY TSLAssumption DEF ShapeInv, Revisions
<1>2. edition[l].revision < LastRevision[l]
  BY DEF Publish
<1> QED BY <1>1, <1>2 DEF Revisions

LEMMA TypeStep == TypeOK /\ ShapeInv /\ SignedInv /\ [Next]_vars => TypeOK'
<1> SUFFICES ASSUME TypeOK, ShapeInv, SignedInv, [Next]_vars PROVE TypeOK'
  OBVIOUS
<1> USE DEF TypeOK, world, refresh, state, request
<1>1. CASE RefreshBegin
  BY <1>1, TSLAssumption DEF RefreshBegin
<1>2. CASE FetchSource
  <2>1. Head(todo) \in Locations /\ Tail(todo) \in Seq(Locations)
    BY <1>2 DEF FetchSource
  <2>2. Fetched(Head(todo)) \in Trees
    BY <2>1, FetchedShaped DEF Shaped, ShapeInv
  <2> QED BY <1>2, <2>1, <2>2 DEF FetchSource
<1>3. CASE KeepCurrent
  <2>1. Shaped(tree)
    BY <1>3 DEF KeepCurrent, ShapeInv
  <2>2. prune(tree, now) \in Trees /\ reachable(tree, now) \subseteq Locations
    BY <2>1, PruneFields, ReachableIsCurrent, Fields DEF Shaped
  <2> QED BY <1>3, <2>2 DEF KeepCurrent
<1>4. ASSUME NEW l \in unverified, VerifyList(l) PROVE TypeOK'
  <2>1. l \in Locations /\ tree \in Trees /\ tree.lists[l].revision \in Revisions(l)
    BY <1>4 DEF VerifyList, InTurn, ShapeInv, Sound, Shaped
  <2>2. resolvePivotChain(l) \subseteq Keys
    BY <2>1, PivotsAreTrusted, SignerTypes DEF SignedInv
  <2>3. signers' \subseteq Keys
    BY <1>4, <2>2 DEF VerifyList
  <2>4. phase' \in {"load", "verify"} /\ trees' \subseteq Trees /\ tree' \in Trees \cup {NoTree}
    BY <1>4, <2>1 DEF VerifyList, InTurn
  <2> QED BY <1>4, <2>3, <2>4 DEF VerifyList
<1>5. CASE Swap
  BY <1>5 DEF Swap, Finish
<1>6. CASE LoadFails
  <2>1. /\ phase' = "idle" /\ todo' = <<>> /\ tree' = NoTree /\ unverified' = {}
        /\ signers' = {} /\ trees' = {}
        /\ UNCHANGED <<roots, loaded, now, edition, down, pc, seen, swapped>>
    BY <1>6 DEF LoadFails, Finish
  <2>2. healthy' \in BOOLEAN /\ ready' \in BOOLEAN
    BY <1>6, Zenon DEF LoadFails
  <2> QED BY <2>1, <2>2
<1>7. ASSUME NEW q \in Requests, Serve(q) PROVE TypeOK'
  <2>1. CASE Begin(q)
    BY <2>1 DEF Begin
  <2>2. CASE Check(q)
    BY <2>2 DEF Check
  <2>3. CASE expireStale(q)
    <3>1. \A T \in roots : prune(T, now) \in Trees
      BY PruneFields DEF ShapeInv, Sound
    <3>2. roots' \subseteq Trees
      BY <2>3, <3>1 DEF expireStale
    <3> QED BY <2>3, <3>2 DEF expireStale
  <2>4. CASE Decide(q)
    BY <2>4, TSLAssumption DEF Decide, Time
  <2> QED BY <1>7, <2>1, <2>2, <2>3, <2>4 DEF Serve
<1>8. CASE Tick
  <2>1. now' \in Time
    BY <1>8, TSLAssumption DEF Tick, Time
  <2> QED BY <1>8, <2>1 DEF Tick
<1>9. ASSUME NEW l \in Locations, NEW next \in Time, Publish(l, next) PROVE TypeOK'
  <2>1. edition[l].revision + 1 \in Revisions(l)
    BY <1>9, Published
  <2>2. [revision |-> edition[l].revision + 1, next |-> next] \in Editions
    BY <2>1 DEF Editions
  <2> QED BY <1>9, <2>2 DEF Publish
<1>10. ASSUME NEW f \in Failing, Toggle(f) PROVE TypeOK'
  BY <1>10 DEF Toggle
<1>11. CASE UNCHANGED vars
  BY <1>11 DEF vars
<1> QED BY <1>1, <1>2, <1>3, <1>4, <1>5, <1>6, <1>7, <1>8, <1>9, <1>10, <1>11 DEF Next, Loading

(* The shape of the sources.                                               *)
LEMMA ShapeStart == Init => ShapeInv
<1> SUFFICES ASSUME Init PROVE ShapeInv
  OBVIOUS
<1>1. ASSUME NEW l \in Locations PROVE edition[l].revision \in Revisions(l)
  BY TSLAssumption DEF Init, Revisions
<1> QED BY <1>1 DEF Init, ShapeInv

LEMMA ShapeStep == TypeOK /\ ShapeInv /\ [Next]_vars => ShapeInv'
<1> SUFFICES ASSUME TypeOK, ShapeInv, [Next]_vars PROVE ShapeInv'
  OBVIOUS
<1> USE DEF world, refresh, state, request
<1>0. \A T : \A t : Shaped(T) /\ current(T.lists[T.root], t) => Sound(prune(T, t))
  BY PruneSound
<1>1. CASE RefreshBegin
  BY <1>1 DEF RefreshBegin, ShapeInv
<1>2. CASE FetchSource
  <2>1. Shaped(Fetched(Head(todo)))
    BY <1>2, FetchedShaped DEF FetchSource, TypeOK, ShapeInv
  <2> QED BY <1>2, <2>1 DEF FetchSource, ShapeInv
<1>3. CASE KeepCurrent
  <2>1. Shaped(tree)
    BY <1>3 DEF KeepCurrent, ShapeInv
  <2>2. Sound(prune(tree, now)) /\ reachable(tree, now) = Nodes(prune(tree, now))
    BY <1>0, <1>3, <2>1, PruneFields DEF KeepCurrent, checkFresh
  <2> QED BY <1>3, <2>2 DEF KeepCurrent, ShapeInv
<1>4. ASSUME NEW l \in unverified, VerifyList(l) PROVE ShapeInv'
  <2>1. phase = "verify" /\ unverified' \subseteq unverified /\ UNCHANGED <<edition, roots, loaded>>
    BY <1>4 DEF VerifyList, InTurn
  <2>2. CASE unverified' = {}
    BY <1>4, <2>1, <2>2 DEF VerifyList, ShapeInv
  <2>3. CASE unverified' # {}
    BY <1>4, <2>1, <2>3 DEF VerifyList, ShapeInv
  <2> QED BY <2>2, <2>3
<1>5. CASE Swap
  BY <1>5 DEF Swap, Finish, ShapeInv
<1>6. CASE LoadFails
  BY <1>6 DEF LoadFails, Finish, ShapeInv
<1>7. ASSUME NEW q \in Requests, Serve(q) PROVE ShapeInv'
  <2>1. CASE expireStale(q)
    <3>1. ASSUME NEW T \in roots, reachable(T, now) # {} PROVE Sound(prune(T, now))
      BY <1>0, <3>1, ReachableIsCurrent DEF ShapeInv, Sound
    <3>2. \A T \in roots' : Sound(T)
      BY <2>1, <3>1 DEF expireStale, ShapeInv
    <3> QED BY <2>1, <3>2 DEF expireStale, ShapeInv
  <2>2. CASE Begin(q) \/ Check(q) \/ Decide(q)
    BY <2>2 DEF Begin, Check, Decide, ShapeInv
  <2> QED BY <1>7, <2>1, <2>2 DEF Serve
<1>8. CASE Tick
  BY <1>8 DEF Tick, ShapeInv
<1>9. ASSUME NEW l \in Locations, NEW next \in Time, Publish(l, next) PROVE ShapeInv'
  <2>1. edition[l].revision + 1 \in Revisions(l)
    BY <1>9, Published
  <2>2. \A m \in Locations : edition'[m].revision \in Revisions(m)
    BY <1>9, <2>1 DEF Publish, ShapeInv, TypeOK
  <2> QED BY <1>9, <2>2 DEF Publish, ShapeInv
<1>10. ASSUME NEW f \in Failing, Toggle(f) PROVE ShapeInv'
  BY <1>10 DEF Toggle, ShapeInv
<1>11. CASE UNCHANGED vars
  BY <1>11 DEF vars, ShapeInv
<1> QED BY <1>1, <1>2, <1>3, <1>4, <1>5, <1>6, <1>7, <1>8, <1>9, <1>10, <1>11 DEF Next, Loading

(* Who signed.                                                             *)
LEMMA SignedStart == Init => SignedInv
  BY SignerTypes DEF Init, SignedInv

LEMMA SignedStep == TypeOK /\ ShapeInv /\ SignedInv /\ [Next]_vars => SignedInv'
<1> SUFFICES ASSUME TypeOK, ShapeInv, SignedInv, [Next]_vars PROVE SignedInv'
  OBVIOUS
<1> USE DEF world, refresh, state, request
<1>0. UNCHANGED TrustedSigners
  BY DEF TrustedSigners
<1>1. CASE RefreshBegin
  BY <1>0, <1>1, SignerTypes DEF RefreshBegin, SignedInv
<1>2. CASE FetchSource
  BY <1>0, <1>2 DEF FetchSource, SignedInv
<1>3. CASE KeepCurrent
  <2>1. Nodes(prune(tree, now)) = reachable(tree, now)
    BY <1>3, PruneFields DEF KeepCurrent, ShapeInv
  <2> QED BY <1>0, <1>3, <2>1 DEF KeepCurrent, SignedInv
<1>4. ASSUME NEW l \in unverified, VerifyList(l) PROVE SignedInv'
  <2>1. /\ phase = "verify" /\ UNCHANGED roots
        /\ l \in Locations /\ tree.lists[l].revision \in Revisions(l)
    BY <1>4 DEF VerifyList, InTurn, ShapeInv, Sound, Shaped, TypeOK
  <2>2. resolvePivotChain(l) \subseteq TrustedSigners
    BY <2>1, PivotsAreTrusted DEF SignedInv
  <2>3. signers' \subseteq TrustedSigners
    BY <1>4, <2>2 DEF VerifyList, SignedInv
  <2>4. RequireSignature => SignedBy(tree, l) \in TrustedSigners
    BY <1>4, <2>2 DEF VerifyList, verifyTSLSignature, RolledOver, Signer, SignedBy, SignedInv
  <2>5. RequireSignature => \A m \in Nodes(tree) \ unverified' : SignedBy(tree, m) \in TrustedSigners
    BY <1>4, <2>1, <2>4 DEF VerifyList, SignedInv
  <2>6. CASE unverified' = {}
    <3>1. trees' = trees \cup {tree} /\ phase' = "load"
      BY <1>4, <2>6 DEF VerifyList
    <3> QED BY <1>0, <2>1, <2>3, <2>5, <2>6, <3>1 DEF SignedInv, SignedBy
  <2>7. CASE unverified' # {}
    <3>1. UNCHANGED <<trees, tree, phase>>
      BY <1>4, <2>7 DEF VerifyList
    <3> QED BY <1>0, <2>1, <2>3, <2>5, <3>1 DEF SignedInv, SignedBy
  <2> QED BY <2>6, <2>7
<1>5. CASE Swap
  BY <1>0, <1>5 DEF Swap, Finish, SignedInv
<1>6. CASE LoadFails
  BY <1>0, <1>6 DEF LoadFails, Finish, SignedInv
<1>7. ASSUME NEW q \in Requests, Serve(q) PROVE SignedInv'
  <2>1. CASE expireStale(q)
    <3>1. ASSUME NEW T \in roots, RequireSignature
          PROVE  \A l \in Nodes(prune(T, now)) : SignedBy(prune(T, now), l) \in TrustedSigners
      <4>1. Shaped(T)
        BY DEF ShapeInv, Sound
      <4>2. Nodes(prune(T, now)) \subseteq Nodes(T)
        BY <4>1, PruneFields, ReachableIsCurrent
      <4>3. \A l \in Nodes(prune(T, now)) : prune(T, now).lists[l] = T.lists[l]
        BY <4>1, PruneFields
      <4> QED BY <3>1, <4>2, <4>3 DEF SignedInv, SignedBy
    <3>2. RequireSignature => \A T \in roots' : \A l \in Nodes(T) : SignedBy(T, l) \in TrustedSigners
      BY <2>1, <3>1 DEF expireStale, SignedInv
    <3> QED BY <1>0, <2>1, <3>2 DEF expireStale, SignedInv, SignedBy
  <2>2. CASE Begin(q) \/ Check(q) \/ Decide(q)
    BY <1>0, <2>2 DEF Begin, Check, Decide, SignedInv, SignedBy
  <2> QED BY <1>7, <2>1, <2>2 DEF Serve
<1>8. CASE Tick \/ (\E l \in Locations, next \in Time : Publish(l, next)) \/ \E f \in Failing : Toggle(f)
  BY <1>0, <1>8 DEF Tick, Publish, Toggle, SignedInv, SignedBy
<1>9. CASE UNCHANGED vars
  BY <1>0, <1>9 DEF vars, SignedInv, SignedBy
<1> QED BY <1>1, <1>2, <1>3, <1>4, <1>5, <1>6, <1>7, <1>8, <1>9 DEF Next, Loading

(* What stays in use.                                                      *)
LEMMA LiveStart == Init => LiveInv
  BY DEF Init, LiveInv

LEMMA LiveStep == TypeOK /\ ShapeInv /\ LiveInv /\ [Next]_vars => LiveInv'
<1> SUFFICES ASSUME TypeOK, ShapeInv, LiveInv, [Next]_vars PROVE LiveInv'
  OBVIOUS
<1> USE DEF world, refresh, state, request
<1>1. ASSUME UNCHANGED <<now, roots, loaded>> PROVE LiveInv'
  BY <1>1 DEF LiveInv
<1>2. CASE Swap
  <2>1. loaded' = trees /\ roots' = trees
    BY <1>2 DEF Swap
  <2>2. \A T \in trees : PartOf(T, T) /\ reachable(T, now') \subseteq Nodes(T)
    BY ReachableIsCurrent DEF ShapeInv, Sound, PartOf
  <2> QED BY <2>1, <2>2 DEF LiveInv
<1>3. ASSUME NEW q \in Requests, expireStale(q) PROVE LiveInv'
  <2>1. UNCHANGED <<now, loaded>>
    BY <1>3 DEF expireStale
  <2>2. CASE ~Due(q)
    BY <1>1, <1>3, <2>1, <2>2 DEF expireStale
  <2>3. CASE Due(q)
    <3>1. roots' = {prune(T, now) : T \in {T \in roots : reachable(T, now) # {}}}
      BY <1>3, <2>3 DEF expireStale
    <3>2. ASSUME NEW T \in loaded, current(T.lists[T.root], now)
          PROVE  \E U \in roots' : PartOf(U, T) /\ reachable(T, now) \subseteq Nodes(U)
      <4>1. PICK U \in roots : PartOf(U, T) /\ reachable(T, now) \subseteq Nodes(U)
        BY <3>2 DEF LiveInv
      <4>2. Shaped(T) /\ Shaped(U)
        BY DEF ShapeInv, Sound
      <4>3. current(U.lists[U.root], now)
        BY <3>2, <4>1, <4>2 DEF PartOf, Shaped
      <4>4. prune(U, now) \in roots'
        BY <3>1, <4>2, <4>3, ReachableIsCurrent
      <4>5. PartOf(prune(U, now), T)
        BY <4>1, <4>2, <4>3, PruneSound DEF PartOf
      <4>6. reachable(T, now) \subseteq Nodes(prune(U, now))
        BY <4>1, <4>2, PruneKeeps, PruneFields
      <4> QED BY <4>4, <4>5, <4>6
    <3> QED BY <2>1, <3>2 DEF LiveInv
  <2> QED BY <2>2, <2>3
<1>4. CASE Tick
  <2>1. now' = now + 1 /\ UNCHANGED <<roots, loaded>>
    BY <1>4 DEF Tick
  <2>2. now \in Time /\ now' \in Time /\ now <= now'
    BY <1>4, TSLAssumption DEF Tick, Time, TypeOK
  <2>3. ASSUME NEW T \in loaded, current(T.lists[T.root], now')
        PROVE  \E U \in roots : PartOf(U, T) /\ reachable(T, now') \subseteq Nodes(U)
    <3>1. Shaped(T)
      BY DEF ShapeInv, Sound
    <3>2. reachable(T, now') \subseteq reachable(T, now) /\ reachable(T, now') # {}
      BY <2>2, <2>3, <3>1, ReachableShrinks, ReachableIsCurrent
    <3>3. current(T.lists[T.root], now)
      BY <3>1, <3>2, ReachableIsCurrent
    <3> QED BY <3>2, <3>3 DEF LiveInv
  <2> QED BY <2>1, <2>3 DEF LiveInv
<1>5. ASSUME NEW l \in unverified, VerifyList(l) PROVE LiveInv'
  BY <1>1, <1>5 DEF VerifyList
<1>6. CASE RefreshBegin \/ FetchSource \/ KeepCurrent \/ LoadFails
  BY <1>1, <1>6 DEF RefreshBegin, FetchSource, KeepCurrent, LoadFails, Finish
<1>7. ASSUME NEW q \in Requests, Begin(q) \/ Check(q) \/ Decide(q) PROVE LiveInv'
  BY <1>1, <1>7 DEF Begin, Check, Decide
<1>8. CASE (\E l \in Locations, next \in Time : Publish(l, next)) \/ \E f \in Failing : Toggle(f)
  BY <1>1, <1>8 DEF Publish, Toggle
<1>9. CASE UNCHANGED vars
  BY <1>1, <1>9 DEF vars
<1> QED BY <1>2, <1>3, <1>4, <1>5, <1>6, <1>7, <1>8, <1>9 DEF Next, Loading, Serve

(* What a request reads.                                                   *)
LEMMA NotDue ==
    ASSUME NEW q \in Requests, TypeOK, ~Due(q)
    PROVE  \A T \in roots : \A l \in Nodes(T) : current(T.lists[l], seen[q])
<1> SUFFICES ASSUME NEW T \in roots, NEW l \in Nodes(T) PROVE seen[q] <= T.lists[l].next
  BY DEF current
<1>1. T \in Trees /\ roots \in SUBSET Trees /\ seen[q] \in Int
  BY DEF TypeOK, Time
<1>2. earliestDeadline(roots) <= T.lists[l].next /\ earliestDeadline(roots) \in Int
  BY <1>1, Earliest DEF Time
<1>3. T.lists[l].next \in Int
  BY <1>1, Fields DEF Time
<1>4. ~(seen[q] > earliestDeadline(roots))
  BY DEF Due
<1> QED BY <1>1, <1>2, <1>3, <1>4

LEMMA ReadStart == Init => ReadInv
  BY DEF Init, ReadInv

LEMMA ReadStep == TypeOK /\ ShapeInv /\ ReadInv /\ [Next]_vars => ReadInv'
<1> SUFFICES ASSUME TypeOK, ShapeInv, ReadInv, [Next]_vars PROVE ReadInv'
  OBVIOUS
<1> USE DEF world, refresh, state, request
<1> DEFINE Current(Ts, q) == \A T \in Ts : \A l \in Nodes(T) : current(T.lists[l], seen[q])
<1>0. /\ now \in Int /\ \A q \in Requests : seen[q] \in Int /\ seen[q] <= now
      /\ DOMAIN seen = Requests /\ DOMAIN pc = Requests
  BY DEF TypeOK, Time, ReadInv
<1>1. ASSUME UNCHANGED <<now, roots, pc, seen, swapped>> PROVE ReadInv'
  BY <1>1 DEF ReadInv
<1>2. CASE Swap
  <2>1. UNCHANGED <<now, pc, seen>> /\ swapped' = [q \in Requests |-> pc[q] # "idle"]
    BY <1>2 DEF Swap
  <2>2. ASSUME NEW q \in Requests, pc[q] = "read" PROVE swapped'[q]
    <3>1. pc[q] # "idle"
      BY <2>2
    <3> QED BY <2>1, <3>1, Zenon
  <2>3. \A q \in Requests : pc'[q] = "read" => swapped'[q]
    BY <2>1, <2>2
  <2>4. \A q \in Requests : seen'[q] <= now'
    BY <1>0, <2>1
  <2> QED BY <2>3, <2>4, Zenon DEF ReadInv
<1>3. ASSUME NEW q \in Requests, Begin(q) PROVE ReadInv'
  <2>1. UNCHANGED <<now, roots, swapped>> /\ seen'[q] = now /\ pc'[q] = "check"
    BY <1>3 DEF Begin, TypeOK
  <2>2. \A p \in Requests \ {q} : seen'[p] = seen[p] /\ pc'[p] = pc[p]
    BY <1>3 DEF Begin, TypeOK
  <2> QED BY <1>0, <2>1, <2>2 DEF ReadInv
<1>4. ASSUME NEW q \in Requests, Check(q) PROVE ReadInv'
  <2>1. /\ UNCHANGED <<now, roots, swapped, seen>>
        /\ pc'[q] = "read" => ~Due(q)
        /\ \A p \in Requests \ {q} : pc'[p] = pc[p]
    BY <1>4 DEF Check, TypeOK
  <2>2. pc'[q] = "read" => Current(roots, q)
    BY <2>1, NotDue
  <2> QED BY <2>1, <2>2 DEF ReadInv
<1>5. ASSUME NEW q \in Requests, expireStale(q) PROVE ReadInv'
  <2>1. UNCHANGED <<now, swapped, seen>> /\ \A p \in Requests \ {q} : pc'[p] = pc[p]
    BY <1>5 DEF expireStale, TypeOK
  <2>2. CASE ~Due(q)
    <3>1. UNCHANGED roots /\ Current(roots, q)
      BY <1>5, <2>2, NotDue DEF expireStale
    <3> QED BY <2>1, <3>1 DEF ReadInv
  <2>3. CASE Due(q)
    <3>1. roots' = {prune(T, now) : T \in {T \in roots : reachable(T, now) # {}}}
      BY <1>5, <2>3 DEF expireStale
    <3>2. ASSUME NEW p \in Requests PROVE Current(roots', p)
      <4> SUFFICES ASSUME NEW T \in roots, NEW l \in Nodes(prune(T, now))
                   PROVE  current(prune(T, now).lists[l], seen[p])
        BY <3>1
      <4>1. Shaped(T)
        BY DEF ShapeInv, Sound
      <4>2. l \in Nodes(T) /\ current(T.lists[l], now) /\ prune(T, now).lists[l] = T.lists[l]
        BY <4>1, PruneFields, ReachableIsCurrent
      <4>3. T.lists[l].next \in Int
        BY <4>1, <4>2, Fields DEF Shaped, Time
      <4> QED BY <1>0, <4>2, <4>3 DEF current
    <3> QED BY <1>0, <2>1, <3>2 DEF ReadInv
  <2> QED BY <2>2, <2>3
<1>6. ASSUME NEW q \in Requests, Decide(q) PROVE ReadInv'
  <2>1. UNCHANGED <<now, roots>> /\ seen'[q] = 0 /\ pc'[q] = "idle"
    BY <1>6 DEF Decide, TypeOK
  <2>2. \A p \in Requests \ {q} : seen'[p] = seen[p] /\ pc'[p] = pc[p] /\ swapped'[p] = swapped[p]
    BY <1>6 DEF Decide, TypeOK
  <2>3. 0 <= now
    BY DEF TypeOK, Time
  <2> QED BY <1>0, <2>1, <2>2, <2>3 DEF ReadInv
<1>7. CASE Tick
  <2>1. now' = now + 1 /\ UNCHANGED <<roots, pc, seen, swapped>>
    BY <1>7 DEF Tick
  <2> QED BY <1>0, <2>1 DEF ReadInv
<1>8. ASSUME NEW l \in unverified, VerifyList(l) PROVE ReadInv'
  BY <1>1, <1>8 DEF VerifyList
<1>9. CASE RefreshBegin \/ FetchSource \/ KeepCurrent \/ LoadFails
  BY <1>1, <1>9 DEF RefreshBegin, FetchSource, KeepCurrent, LoadFails, Finish
<1>10. CASE (\E l \in Locations, next \in Time : Publish(l, next)) \/ \E f \in Failing : Toggle(f)
  BY <1>1, <1>10 DEF Publish, Toggle
<1>11. CASE UNCHANGED vars
  BY <1>1, <1>11 DEF vars
<1> QED
  BY <1>2, <1>3, <1>4, <1>5, <1>6, <1>7, <1>8, <1>9, <1>10, <1>11 DEF Next, Loading, Serve

-----------------------------------------------------------------------------
LEMMA InvIsInductive == (Init => Inv) /\ (Inv /\ [Next]_vars => Inv')
<1>1. Init => Inv
  BY TypeStart, ShapeStart, SignedStart, LiveStart, ReadStart DEF Inv
<1>2. Inv /\ [Next]_vars => Inv'
  BY TypeStep, ShapeStep, SignedStep, LiveStep, ReadStep DEF Inv
<1> QED BY <1>1, <1>2

(* Every variable keeps its type; in particular each source in use is a    *)
(* root with lists that were published where they were found.              *)
THEOREM TSLTypeCorrect == Spec => []TypeOK
<1>1. Inv => TypeOK
  BY DEF Inv
<1> QED BY <1>1, InvIsInductive, PTL DEF Spec

(* However refreshes, other requests, new editions and the clock come      *)
(* between the steps of a request, what it approves rests on the bundle or *)
(* on a service in a list that was current when it began, as was every     *)
(* list on the way there (expireStale, buildFilteredCertPool).             *)
THEOREM ApprovalsRestOnCurrentLists == Spec => []ApprovalsAreCurrent
<1>1. Inv => ApprovalsAreCurrent
  <2> SUFFICES ASSUME Inv, NEW q \in Requests, pc[q] = "read", ~swapped[q],
                      NEW r \in EvalRequests, Evaluate(roots, r), r.issuer \notin Bundle
               PROVE  \E T \in roots : \E l \in Vouched(T, seen[q]) :
                        \E s \in Services[l][T.lists[l].revision] :
                           s.cert = r.issuer /\ (Limited(r) => Validate(s, r))
    BY DEF ApprovalsAreCurrent
  <2>1. r.issuer \in buildFilteredCertPool(roots, r)
    BY DEF Evaluate
  <2>2. PICK T \in roots : \E l \in Nodes(T) : \E s \in Services[l][T.lists[l].revision] :
                              s.cert = r.issuer /\ (Limited(r) => Validate(s, r))
    <3>1. CASE roots = {} \/ ~Limited(r)
      <4>1. r.issuer \in certPool(roots)
        BY <2>1, <3>1 DEF buildFilteredCertPool
      <4>2. \E T \in roots : r.issuer \in extractCerts(T)
        BY <4>1 DEF certPool
      <4> QED BY <3>1, <4>2 DEF extractCerts
    <3>2. CASE ~(roots = {} \/ ~Limited(r))
      BY <2>1, <3>2 DEF buildFilteredCertPool
    <3> QED BY <3>1, <3>2
  <2>3. Sound(T) /\ \A l \in Nodes(T) : current(T.lists[l], seen[q])
    BY DEF Inv, ShapeInv, ReadInv
  <2>4. Vouched(T, seen[q]) = Nodes(T)
    BY <2>3, AllReached, VouchedIsReachable DEF Sound
  <2> QED BY <2>2, <2>4
<1> QED BY <1>1, InvIsInductive, PTL DEF Spec

(* Dropping what has lapsed, in any number of steps and by any number of   *)
(* requests, never drops a list that the source as it was loaded still     *)
(* leads to through current lists (prune).                                 *)
THEOREM ExpiryKeepsLiveLists == Spec => []LiveListsStay
<1>1. Inv => LiveListsStay
  <2> SUFFICES ASSUME Inv, NEW T \in loaded, NEW l \in Vouched(T, now)
               PROVE  \E U \in roots : U.root = T.root /\ l \in Nodes(U) /\ U.lists[l] = T.lists[l]
    BY DEF LiveListsStay
  <2>1. Shaped(T) /\ l \in reachable(T, now)
    BY VouchedIsReachable DEF Inv, ShapeInv, Sound
  <2>2. current(T.lists[T.root], now)
    BY <2>1, ReachableIsCurrent
  <2>3. PICK U \in roots : PartOf(U, T) /\ reachable(T, now) \subseteq Nodes(U)
    BY <2>2 DEF Inv, LiveInv
  <2> QED BY <2>1, <2>3 DEF PartOf
<1> QED BY <1>1, InvIsInductive, PTL DEF Spec

(* Whatever pivots are served and whichever cannot be read, no list comes  *)
(* into use that is signed by no one the configured signers lead to, where *)
(* signatures are required (verifyTSLSignature, resolvePivotChain).        *)
THEOREM ListsAreSignedByTrusted == Spec => []OnlyTrustedSigners
<1>1. Inv => OnlyTrustedSigners
  BY DEF Inv, SignedInv, SignedBy, OnlyTrustedSigners
<1> QED BY <1>1, InvIsInductive, PTL DEF Spec
=============================================================================

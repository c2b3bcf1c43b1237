---------------------------- MODULE MCTSLRegistry ----------------------------
(* A list of lists, with two national lists of which one refers to the     *)
(* other and that back to the list of lists: a diamond and a cycle.  Its   *)
(* signer has changed from k1 to k2 to k3; a stray pivot is signed by a    *)
(* stranger.                                                               *)
EXTENDS TSLRegistry, TLC

CONSTANTS eu, se, de, fi, ca1, ca2, ca3, k1, k2, k3, stranger, p1, p2, stray

MCSources == <<eu>>

MCRefs == (eu :> {se, de}) @@ (se :> {fi}) @@ (de :> {fi}) @@ (fi :> {eu})

MCFirstDates == (eu :> {2}) @@ (se :> {1, 2}) @@ (de :> {1, 2}) @@ (fi :> {2})

MCLastRevision == (eu :> 1) @@ (se :> 0) @@ (de :> 1) @@ (fi :> 0)

MCSignerOf == (eu :> (0 :> k1 @@ 1 :> k3)) @@ (se :> (0 :> k1)) @@ (de :> (0 :> k1 @@ 1 :> stranger)) @@ (fi :> (0 :> k1))

MCPivotURLs == (eu :> (0 :> <<>> @@ 1 :> <<p1, p2>>)) @@ (se :> (0 :> <<>>)) @@
               (de :> (0 :> <<>> @@ 1 :> <<stray>>)) @@ (fi :> (0 :> <<>>))

MCPivotSigner == (p1 :> k1) @@ (p2 :> k2) @@ (stray :> stranger)

MCPointerSigners == (p1    :> (eu :> {k2} @@ se :> {} @@ de :> {} @@ fi :> {})) @@
                    (p2    :> (eu :> {k3} @@ se :> {} @@ de :> {} @@ fi :> {})) @@
                    (stray :> (eu :> {} @@ se :> {} @@ de :> {stranger} @@ fi :> {}))

CA(c, t, s) == [type |-> t, status |-> s, cert |-> c]

MCServices == (eu :> (0 :> {} @@ 1 :> {})) @@
              (se :> (0 :> {CA(ca1, "eaa", "withdrawn")})) @@
              (de :> (0 :> {} @@ 1 :> {})) @@
              (fi :> (0 :> {CA(ca1, "pid", "granted"), CA(ca2, "eaa", "granted")}))
=============================================================================

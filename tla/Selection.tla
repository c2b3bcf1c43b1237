------------------------------ MODULE Selection ------------------------------
(***************************************************************************)
(* The loops that copy the elements of a slice that pass a test, in their  *)
(* order.                                                                  *)
(***************************************************************************)
EXTENDS Naturals, Sequences

(* What s holds at the positions in I.                                     *)
Picked(s, I) ==
    LET upTo[i \in 0 .. Len(s)] ==
            IF i = 0 THEN <<>>
            ELSE IF i \in I THEN Append(upTo[i - 1], s[i]) ELSE upTo[i - 1]
    IN upTo[Len(s)]
=============================================================================

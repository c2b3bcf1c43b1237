------------------------------- MODULE Base58 -------------------------------
(***************************************************************************)
(* The two base58 conversions of the DID registries: base58btcEncode of    *)
(* pkg/registry/didwebvh (hashes and SCIDs) and base58Decode of            *)
(* pkg/registry/did (multibase keys).  Bytes are 0 .. 255; a digit is the  *)
(* index of its character in the alphabet, so "1" is 0.  Both functions    *)
(* are long multiplication; the buffer below is least significant first.   *)
(***************************************************************************)
EXTENDS Integers, SequencesExt

(* The digits of n in the radix: the tail of the loop, that empties carry. *)
Digits(n, radix) ==
    LET d[k \in 0 .. n] == IF k = 0 THEN <<>> ELSE <<k % radix>> \o d[k \div radix]
    IN d[n]

(* buffer * factor + c: one turn of the outer loop.                        *)
MultiplyAdd(buffer, factor, c, radix) ==
    LET carry[i \in 0 .. Len(buffer)] ==
            IF i = 0 THEN c ELSE (carry[i - 1] + factor * buffer[i]) \div radix
    IN [i \in 1 .. Len(buffer) |-> (carry[i - 1] + factor * buffer[i]) % radix]
       \o Digits(carry[Len(buffer)], radix)

(* The zeros s starts with, which the number does not record.              *)
LeadingZeros(s) == [i \in {i \in 1 .. Len(s) : \A j \in 1 .. i : s[j] = 0} |-> 0]

(* The outer loop, over the digits of s.                                   *)
Convert(s, from, to) ==
    LET buffer[i \in 0 .. Len(s)] ==
            IF i = 0 THEN <<>> ELSE MultiplyAdd(buffer[i - 1], from, s[i], to)
    IN buffer[Len(s)]

base58btcEncode(data) == LeadingZeros(data) \o Reverse(Convert(data, 256, 58))

\* The leading ones are forgotten.
base58DecodeDroppingOnes(input) == Reverse(Convert(input, 58, 256))

(* The carry loop of base58Decode keeps its result most significant first  *)
(* and prepends; the leading ones of the input become leading zero bytes.  *)
base58Decode(input) == LeadingZeros(input) \o Reverse(Convert(input, 58, 256))
=============================================================================

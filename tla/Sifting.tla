------------------------------- MODULE Sifting -------------------------------
(***************************************************************************)
(* Two loops over a slice, as recursive functions of the number of         *)
(* elements that have been seen, which proofs can use: what SelectSeq and  *)
(* FlattenSeq are for any test and any pieces, these are for the elements  *)
(* of a set and for the pieces a function gives.                           *)
(***************************************************************************)
EXTENDS Naturals, Sequences

(* The elements of s that are in S, in their order. *)
Sift(s, S) ==
    LET kept[n \in 0..Len(s)] ==
            IF n = 0 THEN <<>>
            ELSE IF s[n] \in S THEN Append(kept[n - 1], s[n]) ELSE kept[n - 1]
    IN  kept[Len(s)]

(* The pieces of the elements of s, one behind the other. *)
Strung(s, piece) ==
    LET strung[n \in 0..Len(s)] == IF n = 0 THEN <<>> ELSE strung[n - 1] \o piece[s[n]]
    IN  strung[Len(s)]
==============================================================================

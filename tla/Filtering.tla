----------------------------- MODULE Filtering ------------------------------
(***************************************************************************)
(* The loop "for _, x := range xs { if keep(x) { out = append(out, x) } }" *)
(* that the agent's readers, the row filter and the resolver share.        *)
(***************************************************************************)
EXTENDS Integers, Sequences

(* The elements of s at the places K, in their order. *)
Subsequence(s, K) ==
  LET taken[k \in 0..Len(s)] ==
        IF k = 0 THEN << >>
        ELSE IF k \in K THEN Append(taken[k - 1], s[k]) ELSE taken[k - 1]
  IN  taken[Len(s)]
=============================================================================

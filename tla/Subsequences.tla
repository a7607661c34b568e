---------------------------- MODULE Subsequences ----------------------------
(***************************************************************************)
(* The loops that keep some elements of a slice, by position.              *)
(***************************************************************************)
EXTENDS Integers, SequencesExt

\* The elements at the positions in I, in their order.
Keep(s, I) == FlattenSeq([i \in DOMAIN s |-> IF i \in I THEN <<s[i]>> ELSE <<>>])

\* Each element once, where it occurs first.
Firsts(s) == Keep(s, {i \in DOMAIN s : \A j \in 1..(i - 1) : s[j] # s[i]})
=============================================================================

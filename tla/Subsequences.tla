---------------------------- MODULE Subsequences ----------------------------
(***************************************************************************)
(* Picking some of the elements of a sequence, by the set of their         *)
(* positions: what the comprehensions of the code do,                      *)
(* [x for x in s if ...].  Unlike SelectSeq this is not defined by         *)
(* recursion, so that proofs can reason about it.                          *)
(***************************************************************************)
EXTENDS Integers, FiniteSets

(* The element of S, a set of numbers, with n smaller elements in S. *)
Nth(S, n) == CHOOSE i \in S : Cardinality({j \in S : j < i}) = n

(* The elements of s at the positions in S, in their order. *)
Subsequence(s, S) == [n \in 1 .. Cardinality(S) |-> s[Nth(S, n - 1)]]

=============================================================================

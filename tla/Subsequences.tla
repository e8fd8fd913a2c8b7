---------------------------- MODULE Subsequences ----------------------------
(***************************************************************************)
(* A sequence made of some of the elements of another, in their order, and *)
(* the order of a set of numbers, in closed form: what SelectSeq defines   *)
(* by recursion is defined here by counting.                               *)
(***************************************************************************)
EXTENDS Integers, Sequences, FiniteSets

(* The number of members of S before x, and the member with k before it.   *)
Rank(S, x) == Cardinality({y \in S : y < x})

Nth(S, k) == CHOOSE x \in S : Rank(S, x) = k

(* The elements of q at the places in P.                                   *)
Subsequence(q, P) == [k \in 1 .. Cardinality(P) |-> q[Nth(P, k - 1)]]

(* The elements of q that are in S.                                        *)
Only(q, S) == Subsequence(q, {i \in DOMAIN q : q[i] \in S})
=============================================================================

----------------------------- MODULE Selecting -----------------------------
(***************************************************************************)
(* What is left of a sequence when only some of its positions are kept,    *)
(* defined so that the order of what is left can be reasoned about.        *)
(***************************************************************************)
EXTENDS Integers, Sequences, FiniteSets

(* The members of a finite set of numbers in ascending order.              *)
Ascending(P) ==
    CHOOSE a \in [1..Cardinality(P) -> P] : \A i, j \in 1..Cardinality(P) : i < j => a[i] < a[j]

(* What of s is at the positions P, in the order it has in s.              *)
Select(s, P) == [i \in 1..Cardinality(P) |-> s[Ascending(P)[i]]]
=============================================================================

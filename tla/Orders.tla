------------------------------- MODULE Orders -------------------------------
(* The elements of a finite set as a sequence, in the order of a relation. *)
EXTENDS Integers, FiniteSets

Less(S) == {p \in S \X S : p[1] < p[2]}

Rank(S, R, x) == Cardinality({y \in S : <<y, x>> \in R})

InOrder(S, R) == [k \in 1..Cardinality(S) |-> CHOOSE x \in S : Rank(S, R, x) = k - 1]
=============================================================================

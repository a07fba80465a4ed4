------------------------------ MODULE Selection ------------------------------
(***************************************************************************)
(* What a list comprehension with a condition makes of a list: the         *)
(* elements at the places where the condition holds, in their order.       *)
(***************************************************************************)
EXTENDS Naturals, Sequences, FiniteSets

\* The n-th of the places I.
Place(I, n) == CHOOSE i \in I : Cardinality({j \in I : j < i}) = n - 1

Selected(s, I) == [n \in 1 .. Cardinality(I) |-> s[Place(I, n)]]
=============================================================================

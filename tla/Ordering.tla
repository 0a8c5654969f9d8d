------------------------------- MODULE Ordering -------------------------------
(***************************************************************************)
(* Python's comprehensions with a condition and its sorted(), on finite    *)
(* sequences and sets.                                                     *)
(***************************************************************************)
EXTENDS Naturals, FiniteSets

(* The elements of a sequence at some of its indices, in their order.      *)
Those(seq, at) ==
  [n \in 1..Cardinality(at) |-> seq[CHOOSE i \in at : Cardinality({j \in at : j <= i}) = n]]

(* The elements of S from the first to the last; `before` holds the pairs  *)
(* <<x, y>> of which x comes first.                                        *)
Sorted(S, before) ==
  [n \in 1..Cardinality(S) |->
     CHOOSE x \in S : Cardinality({y \in S : <<y, x>> \in before}) = n - 1]
===============================================================================

------------------------------- MODULE Ordering -------------------------------
(***************************************************************************)
(* Numbers in order, for the modules of the recognition: the smaller and   *)
(* the greater of two, a finite set of numbers as a sequence, and the      *)
(* elements of a sequence at given places, as a loop over it that skips    *)
(* the others collects them.                                               *)
(***************************************************************************)
EXTENDS Integers, FiniteSets

Least(a, b) == IF a < b THEN a ELSE b
Most(a, b) == IF a > b THEN a ELSE b

InOrder(S) ==
  CHOOSE s \in [1..Cardinality(S) -> S] :
    \A i, j \in 1..Cardinality(S) : i < j => s[i] < s[j]

ElementsAt(s, places) ==
  [k \in 1..Cardinality(places) |-> s[InOrder(places)[k]]]
=============================================================================

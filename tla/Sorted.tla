------------------------------- MODULE Sorted -------------------------------
(***************************************************************************)
(* The order in which a BTreeMap gives its keys.                           *)
(***************************************************************************)
EXTENDS Naturals, FiniteSets

\* From the smallest on.
InOrder(S) ==
  [i \in 1..Cardinality(S) |-> CHOOSE n \in S : Cardinality({m \in S : m <= n}) = i]
=============================================================================

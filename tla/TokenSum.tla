------------------------------ MODULE TokenSum ------------------------------
(***************************************************************************)
(* Sums of token amounts over finite sets.  The sum of f over S is the     *)
(* size of the disjoint union of the intervals 1..f[x], one per x in S: a  *)
(* definition without recursion, which the provers can reason about with   *)
(* the facts on finite sets and TLC can evaluate on small amounts.         *)
(***************************************************************************)
EXTENDS Integers, FiniteSets

\* One pair <<x, i>> for each token counted by f[x].
Units(f, S) == UNION {{x} \X (1 .. f[x]) : x \in S}

\* The sum of f[x] over x in S, for f[x] \in Nat.
TokenSum(f, S) == Cardinality(Units(f, S))

=============================================================================

-------------------------- MODULE MCRouteBLineage --------------------------
(* Instances of RouteBLineage for TLC.                                     *)
EXTENDS RouteBLineage, TLC

CONSTANTS a1, a2, l1, l2

\* One authority mints every lineage.
OneOwner == [l \in Lineage |-> a1]

CallSymmetry == Permutations(Call)
PairSymmetry == Permutations(Call) \cup Permutations(Lineage)
=============================================================================

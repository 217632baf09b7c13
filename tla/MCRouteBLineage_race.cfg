\* Three callers with copies of the handles of one lineage: the five samples of
\* a complete lifecycle and two more that are blocked or lose the race.
CONSTANTS
  a1 = a1
  a2 = a2
  l1 = l1
  l2 = l2
  Authority = {a1}
  Lineage = {l1}
  Owner <- OneOwner
  Call = {c1, c2, c3}
  MaxGeneration = 7
  None = None
SPECIFICATION Spec
SYMMETRY CallSymmetry
INVARIANT TypeOK
INVARIANT ExclusiveTransition
INVARIANT PayloadReleased
INVARIANT NoRunAfterRetire
INVARIANT PreparedCircuitIsLive
PROPERTY EvidenceAdvances

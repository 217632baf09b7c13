\* Two lineages of one authority and a second authority that owns none, two
\* callers: samples for one whole lifecycle and the first two stages of the other.
CONSTANTS
  a1 = a1
  a2 = a2
  l1 = l1
  l2 = l2
  Authority = {a1, a2}
  Lineage = {l1, l2}
  Owner <- OneOwner
  Call = {c1, c2}
  MaxGeneration = 7
  None = None
SPECIFICATION Spec
SYMMETRY PairSymmetry
INVARIANT OneSampleOneTransition
PROPERTY PayloadOfWinnerOnly
PROPERTY ImplementsLifecycle

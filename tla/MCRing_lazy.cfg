CONSTANTS
  MaxDepth = 2
  FeatureIds = {0, 1}
  Operands <- Thresholds2
  LeafValues = {0, 1}
  Inputs <- Features2
  ScalarKind = "signed"
  BitWidth = 2
  LeftRange <- Left2
  RightRange <- Right2
\* A transform that is done has nothing left to do.
CHECK_DEADLOCK FALSE
SPECIFICATION Transforms
INVARIANT LazyOutputAsDocumented

CONSTANTS
  TopLevel = 20
  Den = 256
  LeafValues = {0, 1, 3}
SPECIFICATION Spec
INVARIANT ExactPrefixAuthenticates
CHECK_DEADLOCK FALSE

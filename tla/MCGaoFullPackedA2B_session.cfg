\* Two stores of two factors, three callers.
CONSTANTS
  Store = {"cts", "stc"}
  FactorCount = 2
  Call = {c1, c2, c3}
  None = None
SPECIFICATION Both
\* A construction that failed leaves nothing to do.
CHECK_DEADLOCK FALSE
INVARIANT ReadsAreSound
INVARIANT DirectoriesRemoved
INVARIANT OnlineIsUndisturbed
PROPERTY CallsReturn

\* The comment of Close on a store whose directory could not be removed.
CONSTANTS
  Store = {st1}
  FactorCount = 1
SPECIFICATION StoreSpec
CHECK_DEADLOCK FALSE
INVARIANT CloseRemoves

\* Two A2B sessions, or one of either kind, and two callers who may mix up their
\* handles; and one lineage with two callers.  The code asks whether calls is 0.
CONSTANTS
  Session = {s1, s2, s3}
  a1 = a1
  l1 = l1
  s1 = s1
  s2 = s2
  s3 = s3
  A2BSession = {s1, s2}
  Call = {c1, c2}
  MaxCalls = 1
  MaxBegun = 2
  None = None
\* Both constructors may have failed: then nobody is obliged to do anything.
CHECK_DEADLOCK FALSE
SPECIFICATION Scenes
INVARIANT OwnKeyOnly
INVARIANT NotClosedDuringRun
INVARIANT CallsCounted
INVARIANT FailedLeavesNothing
PROPERTY CloseRetires
PROPERTY CallsReturn

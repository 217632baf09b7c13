CONSTANTS
  TopLevel = 20
  Den = 256
  LeafValues <- Mixed
  Cases <- AllCases
SPECIFICATION MCSpec
INVARIANT ResultsCorrect
INVARIANT WithinCertificate
INVARIANT CleanRunsReturn
INVARIANT FailuresAuthenticate
CHECK_DEADLOCK FALSE

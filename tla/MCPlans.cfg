SPECIFICATION Spec
\* A plan, a forest or a route that is finished has nothing left to do.
CHECK_DEADLOCK FALSE
INVARIANT CertificatesHold
INVARIANT OnlyWellFormed
INVARIANT EvaluatesAsSource
PROPERTY RoutesAsBinary
PROPERTY WalksEnd

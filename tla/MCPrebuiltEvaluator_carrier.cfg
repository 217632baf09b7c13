CONSTANTS
  c1 = c1
  c2 = c2
  Callers = {c1, c2, c3}
  KindCount = 1
  MaxCounter = 2
  MaxEntries <- Two
  Donors = {d1, d2}
  EncodeOf = {d1}
  DecodeOf = {d2}
  Cells = {x1}
  None = None
  decoding = decoding
  encoding = encoding
  s1 = s1
  s2 = s2
  e1 = e1
  e2 = e2
  e3 = e3
  Constructions = {decoding, encoding}
  FactorsOf <- Factors
  Transformations = {s1, s2, e1, e2, e3}
  FitOf <- Fit
  Nothing = Nothing
SPECIFICATION Scenes
INVARIANT MovedOnce
INVARIANT GivenIsSound
INVARIANT DeltaBounds
INVARIANT StreamedIsSound
PROPERTY Returns
CHECK_DEADLOCK FALSE

\* Units of 256 bytes; the largest word is the largest that TLC multiplies exactly.
CONSTANTS
  ByteUnit = 256
  MaxWord = 536870911
  MinimumGuard = 2097152
  Snapshots <- Memory
  PeakContract <- Contract
  MaxChanges = 2
SPECIFICATION AdmissionSpec
\* A caller that has built has nothing left to do.
CHECK_DEADLOCK FALSE
INVARIANT AcceptedIsOwn
INVARIANT AdmittedFits

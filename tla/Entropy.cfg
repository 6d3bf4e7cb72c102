CONSTANTS
  MaxCodeLength = 6
  MaxEobRun = 3
  MAX_CORR_BITS = 66
  Jobs <- MCJobs
SPECIFICATION CodingSpec
INVARIANTS
  PrecisionReached
  CodedWithoutError
  CodingInv
  DamageContained
CHECK_DEADLOCK FALSE

SPECIFICATION Spec
CONSTANTS
  None = None
  Datasets <- TwoDatasets
  Jobs = 2
  MaxAttempts = 2
  Faults = {"verify"}
  MaxFaults = 1
INVARIANT SucceededIsVerified

SPECIFICATION FairSpec
CONSTANTS
  None = None
  Datasets <- TwoDatasets
  Jobs = 2
  MaxAttempts = 2
  Faults = {"crash", "sigint", "io", "verify", "journal", "source", "panic"}
  MaxFaults = 3
INVARIANTS TypeOK SucceededHasOutput CompletedIsTerminal AttemptBudget ExitZeroMeansRepaired
PROPERTIES SucceededIsFinal OutputBuiltOnce EventuallyCompleted

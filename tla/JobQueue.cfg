SPECIFICATION FairSpec
CONSTANTS
  None = None
  Jobs = {scan, repair}
  Scans = {scan}
  Workers = {w1, w2}
  Backends = {"sqlite", "postgres"}
  MaxAttempts = 2
  MaxCrashes = 2
  MaxStalls = 1
  MaxCancels = 1
  MaxEvents = 3
INVARIANTS TypeOK AttemptLimit RunningIsLeased SucceededScanHasRun
INVARIANTS ExclusiveExecution FailureIsReal
PROPERTIES TerminalIsFinal EveryJobTerminates

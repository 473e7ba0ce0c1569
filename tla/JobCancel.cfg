SPECIFICATION Spec
CONSTANTS
  None = None
  Jobs = {scan}
  Scans = {scan}
  Workers = {w1, w2}
  Backends = {"sqlite"}
  MaxAttempts = 2
  MaxCrashes = 0
  MaxStalls = 0
  MaxCancels = 1
  MaxEvents = 2
INVARIANT LeaseOutlivesCancel
SYMMETRY WorkerSymmetry

SPECIFICATION FairSpec
CONSTANTS
  r1 = r1  r2 = r2  p1 = p1  p2 = p2  p3 = p3
  None = None
  Runs = {r1, r2}
  Procs = {p1, p2}
  RunOf <- OneProcessPerRun
  N = 2
  Execs = {e1, e2, e3, e4}
  MaxFailures = 2
INVARIANTS TypeOK StateFileSound WriterExclusion
PROPERTIES AtomicPublication EveryRunSettles
CHECK_DEADLOCK FALSE

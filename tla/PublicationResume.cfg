SPECIFICATION FairSpec
CONSTANTS
  r1 = r1  r2 = r2  p1 = p1  p2 = p2  p3 = p3
  None = None
  Runs = {r1}
  Procs = {p1}
  RunOf <- LoneRun
  N = 2
  Execs = {e1, e2, e3}
  MaxFailures = 1
PROPERTY ResumeCommits

CHECK_DEADLOCK FALSE

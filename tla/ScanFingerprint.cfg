SPECIFICATION Spec
CONSTANTS
  None = None
  Files <- SevenFiles
  PathOf <- Paths
  Contents <- Pieces
  Trees <- SmallTrees
  Targets = {"directory", "file", "missing"}
  MaxFiles = 3
  MaxEdits = 0
  Truncations = {0, 8192}
  MaxScans = 2
  Areas = {"scan"}
  Keys = {1, 2, 3}
  Limits = {0, 1, 2, 9}
  MaxPage = 2
  MaxTokens = 3
  Clients = {c1, c2}
  MaxStarts = 2
  Backends = {"sqlite", "postgres"}
INVARIANT UnchangedScansAgree
CHECK_DEADLOCK FALSE

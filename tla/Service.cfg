SPECIFICATION Spec
CONSTANTS
  None = None
  Files <- SevenFiles
  PathOf <- Paths
  Contents <- Pieces
  Trees <- SmallTrees
  Targets = {"directory", "file", "missing"}
  MaxFiles = 3
  MaxEdits = 1
  Truncations = {0, 8192}
  MaxScans = 1
  Areas = {"scan", "lists", "tokens"}
  Keys = {1, 2, 3}
  Limits = {0, 1, 2, 9}
  MaxPage = 2
  MaxTokens = 3
  Clients = {c1, c2}
  MaxStarts = 2
  Backends = {"sqlite", "postgres"}
SYMMETRY ClientSymmetry
INVARIANTS TypeOK StoredRunsAreWhole RefusalsAreExplained WalkSeesEveryRow OneHolderPerToken
CHECK_DEADLOCK FALSE

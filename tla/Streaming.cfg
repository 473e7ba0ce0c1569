SPECIFICATION FairSpec
CONSTANTS
  None = None
  Null = Null
  NumFiles = 2
  MaxBatches = 2
  MaxFaults = 3
  Routes = {"local", "routed", "remote", "resumable", "partition", "spec"}
  Capacity = 1
  Pools = {1, 2, 3, 4}
  PartSize = 2
  MaxStarts = 2
  PartitionValues <- Values
  PartitionBatches = 3
  MaxOpens = {0, 1, 2}
  SpecRows <- Contents
  SpecOps <- Operations
  MaxOps = 3
INVARIANTS TypeOK OkMeansWhole PublishedHoldsEveryGoodInput CommittedIsWhole PartitionedWhole SpecApplied
PROPERTIES ConversionEnds ResumeCompletes PartsAreFinal
CHECK_DEADLOCK FALSE

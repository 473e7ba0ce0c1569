SPECIFICATION Spec
CONSTANTS
  None = None
  Areas = {"repair"}
  Names <- MCNames
  Datasets <- MCTakenName
  Footers <- MCFooters
  Policies <- MCPolicies
  MaxEdits = 0
  ScanCap = 5
  Configs <- MCConfigs
  TextPrefixes <- MCTextPrefixes
  PlanEdits <- MCPlanEdits
  UriReads <- MCUriReads
  NoHosts <- MCNoHosts
  Existing <- MCExisting
  PlainFiles <- MCPlainFiles
  Links <- MCLinks
  Stored <- MCStored
  WorkingDir <- MCWorkingDir
  Inputs <- MCInputs
  Conflicts = {"strict", "widen", "stringify"}
  Exclusions = {{}, {"y"}}
INVARIANT SafeRepairKeepsRows
CHECK_DEADLOCK FALSE

SPECIFICATION Spec
CONSTANTS
  None = None
  Areas = {"repair", "batch", "schema"}
  Names <- MCNames
  Datasets <- MCDatasets
  Footers <- MCFooters
  Policies <- MCPolicies
  MaxEdits = 1
  ScanCap = 5
  Configs <- MCConfigs
  TextPrefixes <- MCTextPrefixes
  PlanEdits <- MCPlanEdits
  UriReads <- MCUriReads
  NoHosts <- MCNoHosts
  Existing <- MCExisting
  PlainFiles <- MCPlainFiles
  Links <- MCLinks
  Stored <- MCStored
  WorkingDir <- MCWorkingDir
  Inputs <- MCInputs
  Conflicts = {"strict", "widen", "stringify"}
  Exclusions = {{}, {"y"}}
INVARIANTS TypeOK ManifestIsRight RunsAreDisjoint UnificationIsFaithful
CHECK_DEADLOCK FALSE

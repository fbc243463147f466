SPECIFICATION MCSpec
CONSTANTS
  LowerCase <- MCLower
  NoTime = NoTime
  Nothing = Nothing
  Unknown = Unknown
  Skew = 5
  Markers = {9}
  Negations = {10, 11}
  Suppressed = {"z"}
  Dir <- MCDir
  MinClusterSize = 2
  MaxIterations = 6
  NoCluster = NoCluster
  Processes = {1, 2}
  Argvs <- MCArgvs
  Requested <- MCGiven
  Malformed = {"[x"}
  Lists <- MCLists
  BadNames = {"bad"}
  ToolCalls <- MCToolCalls
  Failures = {"ATLAS_NOT_FOUND", "ATLAS_INTERNAL"}
  MaxStarts = 2
  MaxCalls = 1
INVARIANTS RulesSound
PROPERTIES CommunitySound HostSound
CHECK_DEADLOCK FALSE

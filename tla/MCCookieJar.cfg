SPECIFICATION Spec
CONSTANTS
  Host <- PortalHost
  SuffixList <- PublicSuffixes
  Slash = 47
  Cookies <- Headers
  RequestPaths <- RequestedPaths
  StepsBack <- OneStepBack
  DurationLimit = 3
  MaxTime = 2
  MaxNumber = 3
  None = None
INVARIANTS
  TypeOK
  SentAsSet
  LongestPathFirst
  SavedSessionLoads

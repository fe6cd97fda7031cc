SPECIFICATION Spec
CONSTANTS
  PageSize = 2
  PageLimit = 3
  Shown <- SometimesShown
  MaxPublished = 5
  MaxCorrections = 0
  MaxRemovals = 0
  None = None
INVARIANTS
  NoHistoryAnnounced

SPECIFICATION UninterruptedSpec
CONSTANTS
  PageSize = 2
  PageLimit = 2
  Shown <- AlwaysShown
  MaxPublished = 4
  MaxCorrections = 1
  MaxRemovals = 0
  None = None
PROPERTIES
  HeadIsCurrent
  CatchesUp

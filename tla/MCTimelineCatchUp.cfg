SPECIFICATION Spec
CONSTANTS
  PageSize = 2
  PageLimit = 3
  Shown <- SometimesShown
  MaxPublished = 7
  MaxCorrections = 0
  MaxRemovals = 1
  None = None
INVARIANTS
  TypeOK
  NothingMissedUnlessRemoved
  AddedOnce
  NoHistoryUnlessHidden
  NoReappearanceBySliding

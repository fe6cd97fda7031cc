SPECIFICATION HistorySpec
CONSTANTS
  Procs = {p1, p2}
  NoProc = NoProc
  Budget = 2
  Pace = 2
  LockWait = 2
  Day = 4
  Epoch = 4
  MaxTime = 11
  MaxRequests = 2
  Jumps <- BackAndForth
  RetrySeconds = {2, 9}
  RetryDates = {9}
  DurationLimit = 8
SYMMETRY Symmetry
INVARIANTS
  TypeOK
  FileCoherent
  BudgetPerWindow
  CountedBeforeSent
  DayBudgetPlusOne
PROPERTIES
  RecordOnlyGrows
  PacedWithinWindow
  RetryAfterKeptWithinWindow

SPECIFICATION HistorySpec
CONSTANTS
  Procs = {p1, p2}
  NoProc = NoProc
  Budget = 2
  Pace = 2
  LockWait = 2
  Day = 4
  Epoch = 4
  MaxTime = 12
  MaxRequests = 2
  Jumps <- NoJumps
  RetrySeconds = {2, 9}
  RetryDates = {9}
  DurationLimit = 8
SYMMETRY Symmetry
PROPERTIES
  RetryAfterHonored

SPECIFICATION FairSpec
CONSTANTS
  Procs = {p1, p2}
  NoProc = NoProc
  Budget = 2
  Pace = 2
  LockWait = 2
  Day = 3
  Epoch = 3
  MaxTime = 6
  MaxRequests = 2
  Jumps <- DayBackAndForth
  RetrySeconds = {2}
  RetryDates = {5}
  DurationLimit = 8
PROPERTIES
  CommandEnds

\* Two processes, two goroutines, two administrators, one with the page.
SPECIFICATION MCSpec
CONSTANTS
  Runners = {"r1", "r2"}
  Workers = {"w1", "w2"}
  Operators = {"o1", "o2"}
  Console = "o1"
  Requests = {1, 2}
  MaxTasks = 2
  Rows = {1, 2}
  Receipts = {1}
  Targets = {2, 3}
  BatchSize = 1
  MaxFaults = 1
  MaxSlow = 1
  MaxLost = 1
INVARIANTS SuccessIsClean ReportIsWhole LoserStops
PROPERTIES ProgressIsKept CleanupEnds PollsMoveForward ShownCleanupEnds
CHECK_DEADLOCK FALSE

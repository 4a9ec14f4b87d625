\* Two processes, one reader, two mutations, one failure or crash.
SPECIFICATION MCFairSpec
CONSTANTS
  Processes = {"p1", "p2"}
  Readers = {"r1"}
  MaxWrites = 2
  MaxFaults = 1
INVARIANT TrustedIsTrue
PROPERTY FenceIsLifted
CHECK_DEADLOCK FALSE

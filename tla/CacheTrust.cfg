\* A reader takes the hash before it asks for the pending tasks.
SPECIFICATION MCSpec
CONSTANTS
  Processes = {"p1", "p2"}
  Readers = {"r1"}
  MaxWrites = 2
  MaxFaults = 1
PROPERTY FreshReads
CHECK_DEADLOCK FALSE

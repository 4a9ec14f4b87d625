CONSTANTS
  Ids = {1, 2}
  Quotas = {0, 1}
  NoQuota = NoQuota
  Calls = {1, 2}
  MaxRevision = 2
  MaxFaults = 1
SPECIFICATION MCSpec
INVARIANTS ToldIsTrue AnswerIsWhole
PROPERTIES AsksWhatIsShown
CHECK_DEADLOCK FALSE

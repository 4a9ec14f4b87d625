\* One polling process: every task ends, and keeps its evidence until it does.
SPECIFICATION FairSpec
CONSTANTS
  Pollers = {"p1"}
  Readers = {}
  Kinds = {"plan", "invalid", "placeholder", "delta", "unconfirmed"}
  Reservation = 2
  FinalQuotas = {1, 3}
PROPERTY EventuallyEnds

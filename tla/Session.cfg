SPECIFICATION MCSpec
CONSTANTS
  g1 = g1
  g2 = g2
  r1 = r1
  req = req
  NoInput = NoInput
  NoTask = NoTask
  NoRequest = NoRequest
  NoClaim = NoClaim
  Callers = {g1, g2}
  Runners = {r1}
  Tasks = {}
  Requests = {req}
  Keys <- SessionKeys
  Inputs <- SessionInputs
  InitialWallet = 2
  InitialToken = 3
  InitialTaskQuota <- NoTaskQuota
  UnlimitedToken = FALSE
  SubscriptionClaim <- MinusOne
  MaxWallet = 0
  ThisRequest = req
  Amounts = {0, 1, 2}
  Effects = {TRUE, FALSE}
  Playground = FALSE
  MaxAttempts = 2
  MaxReserves = 2
INVARIANTS
  SessionKnowsItsRows
  NetChargeIsWhole
  OneOutcome
CHECK_DEADLOCK FALSE

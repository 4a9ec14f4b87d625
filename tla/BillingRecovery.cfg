SPECIFICATION RecoverySpec
CONSTANTS
  c1 = c1
  c2 = c2
  r1 = r1
  t1 = t1
  req = req
  NoInput = NoInput
  NoTask = NoTask
  NoRequest = NoRequest
  NoClaim = NoClaim
  Callers = {c1}
  Runners = {r1}
  Tasks = {}
  Requests = {}
  Keys <- RecoveryKeys
  Inputs <- RecoveryInputs
  InitialWallet = 2
  InitialToken = 3
  InitialTaskQuota <- TwoUnits
  UnlimitedToken = FALSE
  SubscriptionClaim <- MinusOne
  MaxWallet = 2
PROPERTIES
  PendingIsResolved
  EffectsLand

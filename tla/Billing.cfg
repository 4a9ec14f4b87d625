SPECIFICATION MCSpec
CONSTANTS
  c1 = c1
  c2 = c2
  r1 = r1
  t1 = t1
  req = req
  NoInput = NoInput
  NoTask = NoTask
  NoRequest = NoRequest
  NoClaim = NoClaim
  Callers = {c1, c2}
  Runners = {r1}
  Tasks = {t1}
  Requests = {req}
  Keys <- StoreKeys
  Inputs <- StoreInputs
  InitialWallet = 2
  InitialToken = 3
  InitialTaskQuota <- TwoUnits
  UnlimitedToken = FALSE
  SubscriptionClaim <- MinusOne
  MaxWallet = 2
INVARIANTS
  TypeOK
  RowsAndProcsAgree
  BooksBalance
  NeverOverdrawn
  SuccessMeansApplied
  EffectFollowsFunds
  OneSourcePerRequest
PROPERTIES
  RowsAreFrozen
  MoneyMovesWithItsRow
  ImplementsLedger

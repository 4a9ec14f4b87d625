\* Every kind of task; two polling processes and a realtime read.
SPECIFICATION MCSpec
CONSTANTS
  Pollers = {p1, p2}
  Readers = {"r1"}
  Kinds = {"plan", "invalid", "placeholder", "delta", "unconfirmed"}
  Reservation = 2
  FinalQuotas = {0, 1, 3}
SYMMETRY Alike
INVARIANTS TerminalIsSettled SuccessIsTheProviders
PROPERTIES TerminalIsFinal ImplementsTaskQuota

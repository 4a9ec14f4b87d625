\* A realtime read rewrites the row that a poller published evidence in.
SPECIFICATION Spec
CONSTANTS
  Pollers = {"p1"}
  Readers = {"r1"}
  Kinds = {"plan"}
  Reservation = 2
  FinalQuotas = {1}
INVARIANT NotMisclassified

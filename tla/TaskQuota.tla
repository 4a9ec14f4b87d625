------------------------------ MODULE TaskQuota ------------------------------
(***************************************************************************)
(* What the settlement of an asynchronous task promises its user: the      *)
(* quota reserved at submission is settled at most once, a part of it      *)
(* given back or more taken, and Task.Quota always shows what was kept.    *)
(* How many settlement rows, administrators, polls and retries it takes is *)
(* not visible here.                                                       *)
(***************************************************************************)
EXTENDS Integers

CONSTANTS
  Reservation,  \* Task.Quota frozen at submission
  Quotas        \* what it may be settled for

VARIABLES
  quota,    \* Task.Quota
  refunded  \* what the user got back, below 0 what was charged on top

vars == <<quota, refunded>>

Init == quota = Reservation /\ refunded = 0

(* A settlement that keeps the whole reservation changes nothing.          *)
Settle(q) ==
  /\ quota = Reservation
  /\ quota' = q
  /\ refunded' = refunded + Reservation - q

Next == \E q \in Quotas : Settle(q)

Spec == Init /\ [][Next]_vars
=============================================================================

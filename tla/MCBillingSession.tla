--------------------------- MODULE MCBillingSession ---------------------------
(***************************************************************************)
(* Instances of BillingSession: one request, up to two of its goroutines,  *)
(* and the retry runner of another node.                                   *)
(***************************************************************************)
EXTENDS BillingSession, TLC

CONSTANTS g1, g2, r1, req

VARIABLE scene  \* what happens to the request: "race" | "reserve" | "effect"

Largest == 2
Deltas == -Largest .. Largest

SessionKeys == {PreKey, FinalKey} \cup {ReserveKey(n) : n \in Reserves}

SessionInputs ==
  {PreConsumeInput(q, e) : q \in 0 .. Largest, e \in 0 .. Largest}
    \cup {ReserveInput(n, d) : n \in Reserves, d \in 1 .. Largest}
    \cup {SettleInput(d, q, e) : d \in Deltas, q \in 0 .. Largest, e \in BOOLEAN}
    \cup {RefundInput(f, t) : f \in 1 .. Largest, t \in 0 .. Largest}

NoTaskQuota == [t \in Tasks |-> 0]
MinusOne == -1

(* Two goroutines settle and refund at once without an effect; or one      *)
(* reserves up to twice before it does, and is metered at nothing or at    *)
(* two units; or one settles with its usage, on a request that may have    *)
(* been trusted.  In the races one goroutine opens.  Only in the last of   *)
(* the scenes the token is deleted and the node dies.                      *)
Opens(quota) ==
  phase = "new" /\ phase' = "opening" => \E p \in Callers : arg'[p] # NoInput /\ arg'[p].claim = quota
NoReserve == \A p \in Callers : job'[p] # "reserve"
Undisturbed == ~trusted' /\ tokenLive' /\ phase' # "dead"
Takes ==
  \/ scene = "race" /\ Opens(1) /\ NoReserve /\ Undisturbed /\ job'[g2] # "open"
  \/ scene = "reserve" /\ (Opens(0) \/ Opens(1)) /\ Undisturbed /\ job'[g2] = "none"
     /\ \A a \in asked' : a.quota # 1
  \/ scene = "effect" /\ Opens(1) /\ NoReserve /\ job'[g2] = "none"

MCInit == SessionInit /\ scene \in {"race", "reserve", "effect"}
MCNext ==
  /\ SessionNext
  /\ UNCHANGED scene
  /\ Takes
  /\ \A a \in asked' : a.effect = (scene = "effect")
MCSpec == MCInit /\ [][MCNext]_<<allVars, scene>>
=============================================================================

------------------------------ MODULE BillingSession ------------------------------
(***************************************************************************)
(* The billing session of one wallet-funded request                        *)
(* (service/billing_session.go) over the settlement store it calls: the    *)
(* in-memory state behind the session's mutex, and the goroutines of the   *)
(* request that pre-consume, reserve, settle and refund through it.        *)
(*                                                                         *)
(* Every call of ApplyBillingSettlementOnce is the store's own sequence of *)
(* round trips (BillingSettlement), so the runners of other nodes work on  *)
(* the request's rows between any two steps of the session, and a session  *)
(* that was told of a failure may find its operation applied later.        *)
(*                                                                         *)
(* The request id is unique to the delivery (middleware/request-id.go), so *)
(* the keys below belong to this session alone.                            *)
(***************************************************************************)
EXTENDS BillingSettlement

CONSTANTS
  ThisRequest,  \* the request id
  Amounts,      \* the quotas a request may be estimated or metered at
  Effects,      \* whether settlements carry an effect: a subset of BOOLEAN
  Playground,   \* relayInfo.IsPlayground: the wallet pays, no token does
  MaxAttempts,  \* settleWithEffect's maxAttempts, 3 in the code
  MaxReserves   \* bound on the reservations of the request

PreKey == <<"pre-consume", 0>>
ReserveKey(n) == <<"reserve", n>>
FinalKey == <<"finalize", 0>>

Reserves == 1 .. MaxReserves

ASSUME SessionAssumption ==
  /\ ThisRequest \in Requests
  /\ Amounts \subseteq Nat
  /\ Effects \subseteq BOOLEAN
  /\ Playground \in BOOLEAN
  /\ MaxAttempts \in Nat \ {0}
  /\ MaxReserves \in Nat
  /\ {PreKey, FinalKey} \cup {ReserveKey(n) : n \in Reserves} \subseteq Keys

VARIABLES
  phase,            \* "new" | "opening" | "open" | "refused" | "dead"
  trusted,          \* the trust bypass was taken
  preConsumed,      \* preConsumedQuota
  consumed,         \* WalletFunding.consumed
  tokenConsumed,
  reserveRevision,
  settled, refunded, settleInFlight, refundInFlight,
  locked,           \* the mutex is held over a call of the store (Reserve)
  released,         \* the request was sent upstream
  closing,          \* the request has called Settle or Refund
  job,              \* [Callers -> what the goroutine is doing to the session]
  goal,             \* [Callers -> the actual quota it settles at]
  effect,           \* [Callers -> whether that settlement has an effect]
  attempt,          \* [Callers -> failed attempts of that settlement]
  asked,            \* history: what Settle was called with, [quota, effect]
  failedReserves    \* history: revisions whose Reserve returned an error, with
                    \* the status of the row at that time

holdings == <<preConsumed, consumed, tokenConsumed, reserveRevision>>
flags == <<settled, refunded, settleInFlight, refundInFlight>>
course == <<phase, trusted, locked, released, closing, failedReserves>>
calls == <<job, goal, effect, attempt, asked>>
sessionVars == <<holdings, flags, course, calls>>
allVars == <<vars, sessionVars>>

SessionInit ==
  /\ Init
  /\ phase = "new"
  /\ trusted = FALSE
  /\ preConsumed = 0
  /\ consumed = 0
  /\ tokenConsumed = 0
  /\ reserveRevision = 0
  /\ settled = FALSE
  /\ refunded = FALSE
  /\ settleInFlight = FALSE
  /\ refundInFlight = FALSE
  /\ locked = FALSE
  /\ released = FALSE
  /\ closing = FALSE
  /\ job = [p \in Callers |-> "none"]
  /\ goal = [p \in Callers |-> 0]
  /\ effect = [p \in Callers |-> FALSE]
  /\ attempt = [p \in Callers |-> 0]
  /\ asked = {}
  /\ failedReserves = {}

-----------------------------------------------------------------------------
(* The operations a session submits. *)

TokenLegOf(delta) == IF Playground THEN 0 ELSE delta

Operation(key, delta) ==
  [key |-> key, funding |-> delta, token |-> TokenLegOf(delta), allowMissing |-> FALSE,
   manualOnFailure |-> FALSE, task |-> NoTask, taskQuota |-> 0,
   request |-> NoRequest, claim |-> 0,
   payload |-> FALSE, actual |-> FALSE, quota |-> 0, updateUsage |-> FALSE]

PreConsumeInput(quota, effective) ==
  [Operation(PreKey, effective) EXCEPT
     !.manualOnFailure = TRUE, !.request = ThisRequest, !.claim = quota]

ReserveInput(n, delta) ==
  [Operation(ReserveKey(n), delta) EXCEPT !.manualOnFailure = TRUE]

SettleInput(delta, actual, withEffect) ==
  [Operation(FinalKey, delta) EXCEPT
     !.payload = withEffect, !.actual = withEffect, !.updateUsage = withEffect,
     !.quota = IF withEffect THEN actual ELSE 0]

RefundInput(funding, token) ==
  [Operation(FinalKey, -funding) EXCEPT !.token = TokenLegOf(-token), !.allowMissing = TRUE]

(* Nothing else is submitted by a session: a reservation raises, what was  *)
(* taken is one of the amounts, or nothing of a trusted request.           *)
ASSUME SubmittedAssumption ==
  /\ \A q \in Amounts : {PreConsumeInput(q, 0), PreConsumeInput(q, q)} \subseteq Inputs
  /\ \A q \in Amounts, taken \in Amounts \cup {0} :
       /\ q > taken => \A n \in Reserves : ReserveInput(n, q - taken) \in Inputs
       /\ \A e \in Effects : SettleInput(q - taken, q, e) \in Inputs
  /\ \A q \in Amounts : q > 0 => RefundInput(q, TokenLegOf(q)) \in Inputs

(* The goroutine p is free to enter the session, whose mutex is free. *)
Free(p) == phase = "open" /\ job[p] = "none" /\ pc[p] = "idle" /\ ~locked

Starts(p, what) == job' = [job EXCEPT ![p] = what]
Ends(p) == job' = [job EXCEPT ![p] = "none"]

-----------------------------------------------------------------------------
(* NewBillingSession and preConsume, for a wallet that covers the estimate *)
(* at the time of the friendly check; the debit itself checks again.  The  *)
(* trust bypass depends on cached balances: it may be taken or not, and    *)
(* then nothing is taken in advance.                                       *)
OpenSession(p, quota, trust) ==
  /\ phase = "new"
  /\ wallet > 0 /\ wallet >= quota
  /\ Call(p, PreConsumeInput(quota, IF trust THEN 0 ELSE quota))
  /\ phase' = "opening"
  /\ trusted' = trust
  /\ Starts(p, "open")
  /\ UNCHANGED <<holdings, flags, locked, released, closing, failedReserves,
                 goal, effect, attempt, asked>>

OpenedWith(in) == in.funding

OpenEnds(p) ==
  /\ job[p] = "open"
  /\ Return(p)
  /\ Ends(p)
  /\ IF pc[p] = "ok"
       THEN /\ phase' = "open"
            /\ preConsumed' = OpenedWith(arg[p])
            /\ consumed' = OpenedWith(arg[p])
            /\ tokenConsumed' = arg[p].token
       ELSE /\ phase' = "refused"
            /\ UNCHANGED <<preConsumed, consumed, tokenConsumed>>
  /\ UNCHANGED <<reserveRevision, flags, trusted, locked, released, closing,
                 failedReserves, goal, effect, attempt, asked>>

(* The request is sent to the provider; a request whose last reservation   *)
(* failed is not. *)
Release ==
  /\ phase = "open"
  /\ ~released /\ ~closing /\ ~locked
  /\ failedReserves = {}
  /\ released' = TRUE
  /\ UNCHANGED <<vars, holdings, flags, phase, trusted, locked, closing,
                 failedReserves, calls>>

(* Reserve raises the reservation to a target, under the mutex throughout. *)
(* Every caller is done with reserving before it settles or refunds.       *)
Reserve(p, target) ==
  /\ Free(p)
  /\ ~closing
  /\ ~settled /\ ~refunded /\ ~trusted
  /\ target > preConsumed
  /\ reserveRevision < MaxReserves
  /\ Call(p, ReserveInput(reserveRevision + 1, target - preConsumed))
  /\ locked' = TRUE
  /\ failedReserves' = {f \in failedReserves : f.revision # reserveRevision + 1}
  /\ Starts(p, "reserve")
  /\ UNCHANGED <<holdings, flags, phase, trusted, released, closing,
                 goal, effect, attempt, asked>>

AlwaysRevised(ok) == reserveRevision + 1  \* regression: a failure takes a revision
RevisionAfter(ok) == IF ok THEN reserveRevision + 1 ELSE reserveRevision

NotCounted(ok, delta) == consumed  \* regression: the reserve is not added to the refund
ConsumedAfter(ok, delta) == IF ok THEN consumed + delta ELSE consumed

ReserveEnds(p) ==
  LET ok == pc[p] = "ok"
      delta == arg[p].funding
  IN
  /\ job[p] = "reserve"
  /\ Return(p)
  /\ Ends(p)
  /\ locked' = FALSE
  /\ reserveRevision' = RevisionAfter(ok)
  /\ consumed' = ConsumedAfter(ok, delta)
  /\ preConsumed' = IF ok THEN preConsumed + delta ELSE preConsumed
  /\ tokenConsumed' = IF ok THEN tokenConsumed + arg[p].token ELSE tokenConsumed
  /\ failedReserves' = IF ok THEN failedReserves ELSE
       failedReserves \cup {[revision |-> reserveRevision + 1, row |-> status[arg[p].key]]}
  /\ UNCHANGED <<flags, phase, trusted, released, closing, goal, effect, attempt, asked>>

-----------------------------------------------------------------------------
(* settleWithEffect: up to MaxAttempts attempts, each under the mutex      *)
(* except while the store is called. *)
Settle(p, actual, withEffect) ==
  /\ Free(p)
  /\ ~settled /\ ~refunded
  /\ Starts(p, "settle")
  /\ goal' = [goal EXCEPT ![p] = actual]
  /\ effect' = [effect EXCEPT ![p] = withEffect]
  /\ attempt' = [attempt EXCEPT ![p] = 0]
  /\ asked' = asked \cup {[quota |-> actual, effect |-> withEffect]}
  /\ closing' = TRUE
  /\ UNCHANGED <<vars, holdings, flags, phase, trusted, locked, released, failedReserves>>

(* An attempt has failed: another one follows, or the call returns. *)
AttemptFails(p) ==
  IF attempt[p] + 1 < MaxAttempts
  THEN attempt' = [attempt EXCEPT ![p] = @ + 1] /\ UNCHANGED job
  ELSE attempt' = [attempt EXCEPT ![p] = 0] /\ Ends(p)

AnyFlight == FALSE  \* regression: the other call in flight is not looked at
InFlight == settleInFlight \/ refundInFlight

SettleDelta(actual) == actual - preConsumed

(* Nothing to move, no effect to carry and no record to confirm. *)
NothingToSettle(p) ==
  SettleDelta(goal[p]) = 0 /\ ~effect[p] /\ status[FinalKey] = "none"

AtAttempt(p) == phase = "open" /\ job[p] = "settle" /\ pc[p] = "idle"

(* Another call has ended the session meanwhile: there is nothing to do. *)
SettleFindsEnded(p) ==
  /\ AtAttempt(p)
  /\ settled \/ refunded
  /\ Ends(p)
  /\ UNCHANGED <<vars, holdings, flags, course, goal, effect, attempt, asked>>

(* Another call is in flight, or the record cannot be looked up. *)
SettleRefused(p) ==
  /\ AtAttempt(p)
  /\ ~settled /\ ~refunded
  /\ InFlight \/ (SettleDelta(goal[p]) = 0 /\ ~effect[p])
  /\ AttemptFails(p)
  /\ UNCHANGED <<vars, holdings, flags, course, goal, effect, asked>>

SettleNothing(p) ==
  /\ AtAttempt(p)
  /\ ~settled /\ ~refunded /\ ~InFlight
  /\ NothingToSettle(p)
  /\ settled' = TRUE
  /\ Ends(p)
  /\ UNCHANGED <<vars, holdings, refunded, settleInFlight, refundInFlight, course,
                 goal, effect, attempt, asked>>

SettleSubmits(p) ==
  /\ AtAttempt(p)
  /\ ~settled /\ ~refunded /\ ~InFlight
  /\ ~NothingToSettle(p)
  /\ Call(p, SettleInput(SettleDelta(goal[p]), goal[p], effect[p]))
  /\ settleInFlight' = TRUE
  /\ UNCHANGED <<holdings, settled, refunded, refundInFlight, course, calls>>

(* A settlement whose effect is still pending, or whose row belongs to     *)
(* another effect, is settled all the same. *)
SettleEnds(p) ==
  /\ job[p] = "settle"
  /\ Return(p)
  /\ settleInFlight' = FALSE
  /\ IF pc[p] = "ok"
       THEN settled' = TRUE /\ Ends(p) /\ UNCHANGED attempt
       ELSE AttemptFails(p) /\ UNCHANGED settled
  /\ UNCHANGED <<holdings, refunded, refundInFlight, course, goal, effect, asked>>

-----------------------------------------------------------------------------
(* Refund gives back what the session knows to have been taken. *)
Refund(p) ==
  /\ Free(p)
  /\ ~settled /\ ~refunded /\ ~InFlight
  /\ consumed > 0
  /\ Call(p, RefundInput(consumed, tokenConsumed))
  /\ refundInFlight' = TRUE
  /\ closing' = TRUE
  /\ Starts(p, "refund")
  /\ UNCHANGED <<holdings, settled, refunded, settleInFlight, phase, trusted,
                 locked, released, failedReserves, goal, effect, attempt, asked>>

RefundEnds(p) ==
  /\ job[p] = "refund"
  /\ Return(p)
  /\ Ends(p)
  /\ refundInFlight' = FALSE
  /\ IF pc[p] = "ok"
       THEN refunded' = TRUE /\ tokenConsumed' = 0 /\ preConsumed' = 0
       ELSE UNCHANGED <<refunded, tokenConsumed, preConsumed>>
  /\ UNCHANGED <<consumed, reserveRevision, settled, settleInFlight, course,
                 goal, effect, attempt, asked>>

-----------------------------------------------------------------------------
(* The node dies: the session is gone with it, and each of its goroutines  *)
(* stops where it is. *)
NodeDies ==
  /\ phase # "dead"
  /\ phase' = "dead"
  /\ UNCHANGED <<vars, holdings, flags, trusted, locked, released, closing,
                 failedReserves, calls>>

GoroutineStops(p) ==
  /\ phase = "dead"
  /\ Crash(p)
  /\ UNCHANGED sessionVars

SessionCall(p) ==
  \/ \E q \in Amounts, trust \in BOOLEAN : OpenSession(p, q, trust)
  \/ \E q \in Amounts : Reserve(p, q)
  \/ \E q \in Amounts, e \in Effects : Settle(p, q, e)
  \/ SettleFindsEnded(p) \/ SettleRefused(p) \/ SettleNothing(p) \/ SettleSubmits(p)
  \/ Refund(p)

SessionReturn(p) == OpenEnds(p) \/ ReserveEnds(p) \/ SettleEnds(p) \/ RefundEnds(p)

SessionNext ==
  \/ Release \/ NodeDies
  \/ \E p \in Callers :
       \/ SessionCall(p)
       \/ phase # "dead" /\ SessionReturn(p)
       \/ phase # "dead" /\ (Apply(p) \/ Effect(p)) /\ UNCHANGED sessionVars
       \/ GoroutineStops(p)
  \/ \E r \in Runners :
       (RunnerStep(r) \/ Apply(r) \/ Effect(r) \/ Return(r) \/ Crash(r)) /\ UNCHANGED sessionVars
  \/ (TopUp \/ DeleteToken) /\ UNCHANGED sessionVars

SessionSpec == SessionInit /\ [][SessionNext]_allVars

-----------------------------------------------------------------------------
(* Properties. *)

SessionTypeOK ==
  /\ phase \in {"new", "opening", "open", "refused", "dead"}
  /\ {preConsumed, consumed, tokenConsumed} \subseteq Nat
  /\ reserveRevision \in 0 .. MaxReserves
  /\ {trusted, settled, refunded, settleInFlight, refundInFlight,
      locked, released, closing} \subseteq BOOLEAN
  /\ job \in [Callers -> {"none", "open", "reserve", "settle", "refund"}]
  /\ goal \in [Callers -> Amounts \cup {0}]
  /\ effect \in [Callers -> BOOLEAN]
  /\ attempt \in [Callers -> 0 .. MaxAttempts - 1]
  /\ asked \subseteq [quota: Amounts, effect: Effects]
  /\ \A f \in failedReserves : f.revision \in Reserves /\ f.row \in {"none", "pending", "applied", "manual"}

KnownKeys == {PreKey} \cup {ReserveKey(n) : n \in 1 .. reserveRevision}

(* What the session remembers to have taken is what its rows took: it      *)
(* counts no reservation that did not happen, and of those that happened   *)
(* without its knowledge (an unacknowledged commit, a runner) there is at  *)
(* most the one of the revision it would use next (Reserve, preConsume).   *)
(* Every variable keeps its type besides.                                  *)
SessionKnowsItsRows ==
  /\ SessionTypeOK
  /\ phase = "open" =>
    /\ \A k \in KnownKeys : status[k] = "applied"
    /\ consumed = SumFunctionOnSet(appliedDelta, KnownKeys)
    /\ ~refunded =>
         preConsumed = consumed /\ tokenConsumed = SumFunctionOnSet(appliedToken, KnownKeys)
    /\ \A n \in Reserves : n > reserveRevision + 1 => status[ReserveKey(n)] = "none"

NetCharge == SumFunctionOnSet(appliedDelta, KnownKeys \cup {FinalKey})
AskedQuotas == {a.quota : a \in asked}

(* A request pays its metered quota or nothing: whoever finalizes it (the  *)
(* session, a retry of it, or a runner after the node died), the known     *)
(* reservations and the final delta add up to a quota Settle was called    *)
(* with, or to zero after a refund (settleWithEffect, Refund).             *)
NetChargeIsWhole ==
  /\ status[FinalKey] = "applied" => NetCharge \in AskedQuotas \cup {0}
  /\ settled => NetCharge \in AskedQuotas
  /\ refunded => NetCharge = 0

IsRefund(in) == in.allowMissing

(* Settle and Refund compete for one finalize key and one of them wins,    *)
(* also when nothing has to be moved: a session is never both, and what it *)
(* says of itself is what the row says.  Once a settlement intent exists   *)
(* it is not replaced by a refund (HandleFailedBilling).  Its usage is not  *)
(* lost either: the row of a settled request owns the effect, so that some *)
(* runner projects it if the session could not (SettleWithEffect).         *)
OneOutcome ==
  /\ ~(settled /\ refunded)
  /\ settled /\ status[FinalKey] # "none" => ~IsRefund(intent[FinalKey])
  /\ refunded => status[FinalKey] = "applied" /\ IsRefund(intent[FinalKey])
  /\ settled /\ (\A a \in asked : a.effect) => effectStatus[FinalKey] \in {"pending", "applied"}

(* A reservation that failed is not retried after the request was told so: *)
(* its row is not applied behind the back of a session that goes on        *)
(* without it (ManualOnFailure, processPendingBillingSettlements).         *)
FailedReserveStaysUnapplied ==
  \A f \in failedReserves :
    f.row # "applied" => status[ReserveKey(f.revision)] # "applied"

(* No upstream request has been released for a reservation that failed.    *)
ReserveFailsBeforeRelease ==
  \A n \in Reserves : status[ReserveKey(n)] = "manual" => ~released

=============================================================================

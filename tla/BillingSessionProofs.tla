--------------------------- MODULE BillingSessionProofs ---------------------------
(***************************************************************************)
(* Proofs about BillingSession, for any goroutines, amounts, runners and   *)
(* numbers of attempts and reservations: a session is a client of the      *)
(* store, so the store's theorems hold of its rows, and it has one outcome.*)
(***************************************************************************)
EXTENDS BillingSession, BillingSettlementProofs

-----------------------------------------------------------------------------
(* The inductive invariant, beside the store's. *)

Jobs == {"none", "open", "reserve", "settle", "refund"}

(* The goroutine's call of the store is a finalization. *)
Flying(p) == job[p] = "refund" \/ (job[p] = "settle" /\ pc[p] # "idle")

(* A finalization that does not refund carries the effect Settle was asked  *)
(* for.                                                                     *)
FinalAsAsked(in) ==
  in.key = FinalKey => in.allowMissing \/ \E a \in asked : a.effect = in.payload

(* What the session holds, before it is open and until it is refunded. *)
PhaseOK ==
  /\ phase \in {"new", "opening", "open", "refused", "dead"}
  /\ phase \in {"new", "opening"} =>
       /\ preConsumed = 0 /\ consumed = 0 /\ tokenConsumed = 0
       /\ ~settled /\ ~refunded /\ ~closing
       /\ \A p \in Callers : job[p] \in {"none", "open"}
  /\ phase = "new" => \A p \in Callers : job[p] = "none"
HoldingsOK ==
  /\ preConsumed \in Amounts \cup {0} /\ reserveRevision \in 0 .. MaxReserves
  /\ ~refunded => consumed = preConsumed /\ tokenConsumed = TokenLegOf(preConsumed)
  /\ refunded => closing

(* What a goroutine does to the session, and with which input. *)
OpenJob(p) ==
  /\ phase \in {"opening", "dead"}
  /\ pc[p] # "idle" => \E q \in Amounts, e \in Amounts \cup {0} : arg[p] = PreConsumeInput(q, e)
ReserveJob(p) ==
  /\ locked /\ ~closing
  /\ pc[p] # "idle" => \E q \in Amounts :
       q > preConsumed /\ reserveRevision < MaxReserves
       /\ arg[p] = ReserveInput(reserveRevision + 1, q - preConsumed)
SettleJob(p) ==
  /\ closing /\ goal[p] \in Amounts /\ effect[p] \in Effects
  /\ [quota |-> goal[p], effect |-> effect[p]] \in asked
  /\ pc[p] # "idle" => settleInFlight /\ arg[p].key = FinalKey /\ ~arg[p].allowMissing
RefundJob(p) ==
  /\ closing /\ refundInFlight
  /\ pc[p] # "idle" => arg[p].key = FinalKey /\ arg[p].allowMissing
JobOK(p) ==
  /\ job[p] = "none" => pc[p] = "idle"
  /\ job[p] = "open" => OpenJob(p)
  /\ job[p] = "reserve" => ReserveJob(p)
  /\ job[p] = "settle" => SettleJob(p)
  /\ job[p] = "refund" => RefundJob(p)
JobsOK ==
  /\ job \in [Callers -> Jobs] /\ goal \in [Callers -> Amounts \cup {0}]
  /\ effect \in [Callers -> BOOLEAN]
  /\ \A p \in Callers : JobOK(p)

(* One goroutine at a time opens, reserves, or has a finalization in flight.*)
OneAtATime ==
  /\ \A p, q \in Callers : job[p] \in {"open", "reserve"} /\ job[q] = job[p] => p = q
  /\ \A p, q \in Callers : Flying(p) /\ Flying(q) => p = q

InputsOK ==
  /\ \A p \in Proc : pc[p] # "idle" => FinalAsAsked(arg[p])
  /\ \A k \in Keys : status[k] # "none" => FinalAsAsked(intent[k])
  /\ \A r \in Runners : pc[r] = "ensure" => status[arg[r].key] # "none"

(* A session settled without a record had nothing to move or to log, and    *)
(* no other call of it is left that could write one.                        *)
EndsOK ==
  /\ settled =>
       \/ /\ status[FinalKey] = "none" /\ \E a \in asked : ~a.effect
          /\ \A p \in Callers : ~Flying(p)
       \/ status[FinalKey] = "applied" /\ ~intent[FinalKey].allowMissing
  /\ refunded => status[FinalKey] = "applied" /\ intent[FinalKey].allowMissing

SessionInv == PhaseOK /\ HoldingsOK /\ JobsOK /\ OneAtATime /\ InputsOK /\ EndsOK

Together == IInv /\ SessionInv

-----------------------------------------------------------------------------
(* What is submitted. *)

LEMMA KeyTypes ==
  /\ PreKey \in Keys /\ FinalKey \in Keys /\ PreKey # FinalKey
  /\ \A n \in Nat : ReserveKey(n) # FinalKey
<1>1. PreKey \in Keys /\ FinalKey \in Keys
  BY SessionAssumption
<1>2. PreKey # FinalKey /\ \A n \in Nat : ReserveKey(n) # FinalKey
  BY DEF PreKey, FinalKey, ReserveKey
<1> QED
  BY <1>1, <1>2

LEMMA PreConsumeShape ==
  ASSUME NEW q, NEW e
  PROVE  /\ PreConsumeInput(q, e).key = PreKey /\ PreConsumeInput(q, e).funding = e
         /\ PreConsumeInput(q, e).token = TokenLegOf(e)
BY DEF PreConsumeInput, Operation

LEMMA ReserveShape ==
  ASSUME NEW n, NEW d
  PROVE  /\ ReserveInput(n, d).key = ReserveKey(n) /\ ReserveInput(n, d).funding = d
         /\ ReserveInput(n, d).token = TokenLegOf(d)
BY DEF ReserveInput, Operation

LEMMA SettleShape ==
  ASSUME NEW d, NEW q, NEW e
  PROVE  /\ SettleInput(d, q, e).key = FinalKey /\ SettleInput(d, q, e).allowMissing = FALSE
         /\ SettleInput(d, q, e).payload = e
BY DEF SettleInput, Operation

LEMMA RefundShape ==
  ASSUME NEW f, NEW t
  PROVE  RefundInput(f, t).key = FinalKey /\ RefundInput(f, t).allowMissing = TRUE
BY DEF RefundInput, Operation

LEMMA LegSum ==
  ASSUME NEW a \in Int, NEW b \in Int
  PROVE  TokenLegOf(0) = 0 /\ TokenLegOf(a + b) = TokenLegOf(a) + TokenLegOf(b)
BY DEF TokenLegOf

LEMMA AmountTypes == Amounts \subseteq Nat /\ Amounts \cup {0} \subseteq Nat
BY SessionAssumption

-----------------------------------------------------------------------------
(* A session is a client of the store. *)

LEMMA ClientCalls ==
  ASSUME Together, NEW p \in Callers, NEW in, Call(p, in), in \in Inputs
  PROVE  Next
BY DEF Next

LEMMA OpenSubmits ==
  ASSUME NEW p \in Callers, NEW q \in Amounts, NEW trust \in BOOLEAN, OpenSession(p, q, trust)
  PROVE  /\ PreConsumeInput(q, IF trust THEN 0 ELSE q) \in Inputs
         /\ Call(p, PreConsumeInput(q, IF trust THEN 0 ELSE q))
BY SubmittedAssumption DEF OpenSession

LEMMA ReserveSubmits ==
  ASSUME Together, NEW p \in Callers, NEW q \in Amounts, Reserve(p, q)
  PROVE  /\ ReserveInput(reserveRevision + 1, q - preConsumed) \in Inputs
         /\ Call(p, ReserveInput(reserveRevision + 1, q - preConsumed))
<1>1. q > preConsumed /\ reserveRevision < MaxReserves
      /\ Call(p, ReserveInput(reserveRevision + 1, q - preConsumed))
  BY DEF Reserve
<1>2. preConsumed \in Amounts \cup {0} /\ reserveRevision \in 0 .. MaxReserves
  BY DEF Together, SessionInv, HoldingsOK
<1>3. reserveRevision + 1 \in Reserves
  BY <1>1, <1>2, SessionAssumption DEF Reserves
<1> QED
  BY <1>1, <1>2, <1>3, SubmittedAssumption

LEMMA SettleSubmitted ==
  ASSUME Together, NEW p \in Callers, SettleSubmits(p)
  PROVE  /\ SettleInput(SettleDelta(goal[p]), goal[p], effect[p]) \in Inputs
         /\ Call(p, SettleInput(SettleDelta(goal[p]), goal[p], effect[p]))
<1>1. goal[p] \in Amounts /\ effect[p] \in Effects
  BY DEF SettleSubmits, AtAttempt, Together, SessionInv, JobsOK, JobOK, SettleJob
<1>2. preConsumed \in Amounts \cup {0}
  BY DEF Together, SessionInv, HoldingsOK
<1>3. SettleInput(goal[p] - preConsumed, goal[p], effect[p]) \in Inputs
  BY <1>1, <1>2, SubmittedAssumption
<1> QED
  BY <1>3 DEF SettleSubmits, SettleDelta

LEMMA RefundSubmits ==
  ASSUME Together, NEW p \in Callers, Refund(p)
  PROVE  /\ RefundInput(consumed, tokenConsumed) \in Inputs
         /\ Call(p, RefundInput(consumed, tokenConsumed))
<1>1. Call(p, RefundInput(consumed, tokenConsumed)) /\ consumed > 0 /\ ~refunded
  BY DEF Refund
<1>2. consumed \in Amounts \cup {0} /\ tokenConsumed = TokenLegOf(consumed)
  BY <1>1 DEF Together, SessionInv, HoldingsOK
<1>3. consumed \in Amounts
  BY <1>1, <1>2
<1> QED
  BY <1>1, <1>2, <1>3, SubmittedAssumption

(* Every step of a session is one of the store or leaves the store alone. *)
LEMMA ClientStep ==
  ASSUME Together, [SessionNext]_allVars
  PROVE  [Next]_vars
<1>1. ASSUME NEW p \in Callers, SessionCall(p)
      PROVE  [Next]_vars
  <2>1. ASSUME NEW q \in Amounts, NEW trust \in BOOLEAN, OpenSession(p, q, trust)
        PROVE  [Next]_vars
    BY <2>1, OpenSubmits, ClientCalls
  <2>2. ASSUME NEW q \in Amounts, Reserve(p, q)
        PROVE  [Next]_vars
    BY <2>2, ReserveSubmits, ClientCalls
  <2>3. CASE SettleSubmits(p)
    BY <2>3, SettleSubmitted, ClientCalls
  <2>4. CASE Refund(p)
    BY <2>4, RefundSubmits, ClientCalls
  <2>5. ASSUME NEW q \in Amounts, NEW e \in Effects, Settle(p, q, e)
        PROVE  [Next]_vars
    BY <2>5 DEF Settle
  <2>6. CASE SettleFindsEnded(p) \/ SettleRefused(p) \/ SettleNothing(p)
    BY <2>6 DEF SettleFindsEnded, SettleRefused, SettleNothing
  <2> QED
    BY <1>1, <2>1, <2>2, <2>3, <2>4, <2>5, <2>6 DEF SessionCall
<1>2. ASSUME NEW p \in Callers, SessionReturn(p)
      PROVE  [Next]_vars
  <2>1. Return(p) /\ p \in Proc
    BY <1>2 DEF SessionReturn, OpenEnds, ReserveEnds, SettleEnds, RefundEnds, Proc
  <2> QED
    BY <2>1 DEF Next
<1>3. ASSUME NEW p \in Callers, Apply(p) \/ Effect(p) \/ GoroutineStops(p)
      PROVE  [Next]_vars
  BY <1>3 DEF Next, GoroutineStops, Proc
<1>4. ASSUME NEW r \in Runners, RunnerStep(r) \/ Apply(r) \/ Effect(r) \/ Return(r) \/ Crash(r)
      PROVE  [Next]_vars
  BY <1>4 DEF Next, Proc
<1>5. CASE TopUp \/ DeleteToken
  BY <1>5 DEF Next, Environment
<1>6. CASE Release \/ NodeDies
  BY <1>6 DEF Release, NodeDies
<1>7. CASE UNCHANGED allVars
  BY <1>7 DEF allVars
<1> QED
  BY <1>1, <1>2, <1>3, <1>4, <1>5, <1>6, <1>7 DEF SessionNext

-----------------------------------------------------------------------------
(* A round trip of the store: one process moves, and a row is inserted only *)
(* by a process that ensures it, with that process's input.                *)

Keeps(p) == pc[p] # "idle" /\ arg'[p] = arg[p] /\ pc'[p] # "ensure"
Takes(p) == p \in Runners /\ \E k \in Keys : status[k] # "none" /\ arg'[p] = intent[k]
Inserted(p, k) == pc[p] = "ensure" /\ arg[p].key = k /\ intent'[k] = arg[p]
RoundTrip(p) ==
  /\ Advance
  /\ \A q \in Proc \ {p} : pc'[q] = pc[q] /\ arg'[q] = arg[q]
  /\ pc'[p] = "idle" \/ Keeps(p) \/ Takes(p)
  /\ \A k \in Keys : status[k] = "none" /\ status'[k] # "none" => Inserted(p, k)

LEMMA NoneStays ==
  ASSUME IInv, NEW p \in Proc, Apply(p), ~EnsureInserts(p), ~EnsureFails(p), NEW k \in Keys,
         status[k] = "none"
  PROVE  status'[k] = "none"
<1>1. CASE UNCHANGED status
  BY <1>1
<1>2. CASE ApplyCommits(p)
  BY <1>2 DEF ApplyCommits, Open, IInv, TypeOK
<1>3. CASE MarkFailure(p)
  BY <1>3 DEF MarkFailure, Held, Open, IInv, TypeOK
<1> QED
  BY <1>1, <1>2, <1>3 DEF Apply, EnsureFindsPending, EnsureFindsApplied, EnsureRefuses,
     ApplyFindsApplied, ApplyRefuses, ApplyFails, MarkFails, rowVars

LEMMA ApplyMoves ==
  ASSUME IInv, NEW p \in Proc, Apply(p)
  PROVE  RoundTrip(p)
<1>1. Next
  BY DEF Next
<1>2. Advance
  BY <1>1, NextStep
<1>3. pc[p] # "idle" /\ arg' = arg
  BY DEF Apply, EnsureInserts, EnsureFindsPending, EnsureFindsApplied, EnsureRefuses, EnsureFails,
     ApplyCommits, ApplyFindsApplied, ApplyRefuses, ApplyFails, MarkFailure, MarkFails
<1>4. pc'[p] # "ensure" /\ \A q \in Proc \ {p} : pc'[q] = pc[q]
  BY DEF Apply, EnsureInserts, EnsureFindsPending, EnsureFindsApplied, EnsureRefuses, EnsureFails,
     ApplyCommits, ApplyFindsApplied, ApplyRefuses, ApplyFails, MarkFailure, MarkFails,
     AfterApply, Goto, IInv, TypeOK
<1>5. ASSUME NEW k \in Keys, status[k] = "none", status'[k] # "none"
      PROVE  Inserted(p, k)
  <2>1. InsertRow(arg[p]) /\ pc[p] = "ensure"
    BY <1>5, NoneStays DEF EnsureInserts, EnsureFails, rowVars
  <2>2. arg[p].key \in Keys
    BY <1>3, BusyArg
  <2> QED
    BY <1>5, <2>1, <2>2 DEF InsertRow, Inserted, IInv, TypeOK
<1> QED
  BY <1>2, <1>3, <1>4, <1>5 DEF RoundTrip, Keeps

LEMMA OtherMoves ==
  ASSUME IInv, NEW p \in Proc,
         \/ Effect(p) \/ Crash(p) \/ Return(p)
         \/ p \in Runners /\ RunnerStep(p)
  PROVE  RoundTrip(p)
<1>1. Next
  BY DEF Next
<1>2. Advance
  BY <1>1, NextStep
<1>3. UNCHANGED status
  BY DEF Effect, EffectRead, EffectLog, EffectUsage, EffectFails, Crash, Return, RunnerStep,
     RunnerTake, RunnerTakeEffect, rowVars
<1>4. \A q \in Proc \ {p} : pc'[q] = pc[q] /\ arg'[q] = arg[q]
  BY DEF Effect, EffectRead, EffectLog, EffectUsage, EffectFails, Crash, Return, RunnerStep,
     RunnerTake, RunnerTakeEffect, Goto, IInv, TypeOK
<1>5. CASE Crash(p) \/ Return(p)
  <2>1. pc'[p] = "idle"
    BY <1>5 DEF Crash, Return, Goto, IInv, TypeOK
  <2> QED
    BY <1>2, <1>3, <1>4, <2>1 DEF RoundTrip
<1>6. CASE Effect(p)
  <2>1. pc[p] # "idle" /\ arg' = arg /\ pc'[p] # "ensure"
    BY <1>6 DEF Effect, EffectRead, EffectLog, EffectUsage, EffectFails, Goto, IInv, TypeOK
  <2> QED
    BY <1>2, <1>3, <1>4, <2>1 DEF RoundTrip, Keeps
<1>7. CASE p \in Runners /\ RunnerStep(p)
  <2>1. PICK k \in Keys : RunnerTake(p, k) \/ RunnerTakeEffect(p, k)
    BY <1>7 DEF RunnerStep
  <2>2. status[k] # "none" /\ arg'[p] = intent[k]
    BY <2>1 DEF RunnerTake, RunnerTakeEffect, Open, IInv, TypeOK
  <2> QED
    BY <1>2, <1>3, <1>4, <1>7, <2>2 DEF RoundTrip, Takes
<1> QED
  BY <1>5, <1>6, <1>7

(* The session's own knowledge survives the round trips of its goroutines  *)
(* and of all the runners.                                                 *)
LEMMA RoundTripKeeps ==
  ASSUME Together, UNCHANGED sessionVars, NEW p \in Proc, RoundTrip(p)
  PROVE  SessionInv'
<1> USE DEF sessionVars, holdings, flags, course, calls
<1>1. PhaseOK' /\ HoldingsOK'
  BY DEF Together, SessionInv, PhaseOK, HoldingsOK
<1>2. \A q \in Callers : pc'[q] = "idle" \/ (pc[q] # "idle" /\ arg'[q] = arg[q])
  BY ProcAssumption DEF RoundTrip, Keeps, Takes, Proc, Together, SessionInv, JobsOK, JobOK
<1>3. \A q \in Callers : Flying(q)' => Flying(q)
  BY <1>2 DEF Flying
<1>4. JobsOK'
  <2> SUFFICES ASSUME NEW q \in Callers
               PROVE  JobOK(q)'
    BY DEF Together, SessionInv, JobsOK
  <2>1. JobOK(q) /\ (job[q] = "none" => pc'[q] = "idle")
    BY <1>2 DEF Together, SessionInv, JobsOK, JobOK
  <2>2. (job[q] = "open" => OpenJob(q)') /\ (job[q] = "reserve" => ReserveJob(q)')
    BY <1>2, <2>1 DEF JobOK, OpenJob, ReserveJob
  <2>3. (job[q] = "settle" => SettleJob(q)') /\ (job[q] = "refund" => RefundJob(q)')
    BY <1>2, <2>1 DEF JobOK, SettleJob, RefundJob
  <2> QED
    BY <2>1, <2>2, <2>3 DEF JobOK
<1>5. OneAtATime'
  BY <1>3 DEF Together, SessionInv, OneAtATime
<1>6. \A in : FinalAsAsked(in)' <=> FinalAsAsked(in)
  BY DEF FinalAsAsked
<1>7. InputsOK'
  <2>1. ASSUME NEW q \in Proc, pc'[q] # "idle"
        PROVE  FinalAsAsked(arg'[q])
    <3>1. CASE q # p \/ Keeps(p)
      BY <2>1, <3>1 DEF RoundTrip, Keeps, Together, SessionInv, InputsOK
    <3>2. CASE q = p /\ Takes(p)
      BY <3>2 DEF Takes, Together, SessionInv, InputsOK
    <3> QED
      BY <2>1, <3>1, <3>2 DEF RoundTrip
  <2>2. ASSUME NEW k \in Keys, status'[k] # "none"
        PROVE  FinalAsAsked(intent'[k])
    <3>1. CASE status[k] # "none"
      BY <3>1 DEF RoundTrip, Advance, RowAdvances, Together, SessionInv, InputsOK
    <3>2. CASE status[k] = "none"
      BY <2>2, <3>2 DEF RoundTrip, Inserted, Together, SessionInv, InputsOK
    <3> QED
      BY <3>1, <3>2
  <2>3. ASSUME NEW r \in Runners, pc'[r] = "ensure"
        PROVE  status'[arg'[r].key] # "none"
    <3>1. CASE r # p
      <4>1. pc[r] = "ensure" /\ arg'[r] = arg[r] /\ r \in Proc
        BY <2>3, <3>1 DEF RoundTrip, Proc
      <4>2. status[arg[r].key] # "none" /\ arg[r].key \in Keys
        BY <4>1, BusyArg DEF Together, SessionInv, InputsOK
      <4> QED
        BY <4>1, <4>2 DEF RoundTrip, Advance, RowAdvances
    <3>2. CASE r = p
      <4>1. PICK k \in Keys : status[k] # "none" /\ arg'[p] = intent[k]
        BY <2>3, <3>2 DEF RoundTrip, Keeps, Takes
      <4>2. intent[k].key = k
        BY <4>1 DEF Together, IInv, RowsAndProcsAgree, RowOK
      <4> QED
        BY <3>2, <4>1, <4>2 DEF RoundTrip, Advance, RowAdvances
    <3> QED
      BY <3>1, <3>2
  <2> QED
    BY <1>6, <2>1, <2>2, <2>3 DEF InputsOK
<1>8. EndsOK'
  <2>1. FinalKey \in Keys
    BY KeyTypes
  <2>2. status[FinalKey] = "applied" => status'[FinalKey] = "applied" /\ intent'[FinalKey] = intent[FinalKey]
    BY <2>1 DEF RoundTrip, Advance, RowAdvances
  <2>3. ASSUME settled, status[FinalKey] = "none", \A q \in Callers : ~Flying(q)
        PROVE  status'[FinalKey] = "none"
    <3>1. ASSUME Inserted(p, FinalKey)
          PROVE  FALSE
      <4>1. pc[p] = "ensure" /\ arg[p].key = FinalKey
        BY <3>1 DEF Inserted
      <4>2. p \in Callers
        BY <2>3, <4>1 DEF Together, SessionInv, InputsOK, Proc
      <4>3. job[p] \in {"open", "reserve"} /\ JobOK(p)
        BY <2>3, <4>1, <4>2 DEF Flying, JobOK, Jobs, Together, SessionInv, JobsOK
      <4>4. reserveRevision + 1 \in Nat
        BY SessionAssumption DEF Together, SessionInv, HoldingsOK
      <4>5. \/ \E q \in Amounts, e \in Amounts \cup {0} : arg[p] = PreConsumeInput(q, e)
            \/ \E q \in Amounts : arg[p] = ReserveInput(reserveRevision + 1, q - preConsumed)
        BY <4>1, <4>3 DEF JobOK, OpenJob, ReserveJob
      <4>6. arg[p].key = PreKey \/ arg[p].key = ReserveKey(reserveRevision + 1)
        BY <4>5, PreConsumeShape, ReserveShape
      <4> QED
        BY <4>1, <4>4, <4>6, KeyTypes
    <3> QED
      BY <2>1, <2>3, <3>1 DEF RoundTrip
  <2> QED
    BY <1>3, <2>2, <2>3 DEF EndsOK, Together, SessionInv
<1> QED
  BY <1>1, <1>4, <1>5, <1>7, <1>8 DEF SessionInv

-----------------------------------------------------------------------------
(* The steps of the session: one goroutine moves, no row does. *)

Alone(p) ==
  /\ UNCHANGED <<status, intent>> /\ asked \subseteq asked'
  /\ \A q \in Proc \ {p} : pc'[q] = pc[q] /\ arg'[q] = arg[q]
  /\ \A q \in Callers \ {p} : job'[q] = job[q] /\ goal'[q] = goal[q] /\ effect'[q] = effect[q]
  /\ job' \in [Callers -> Jobs] /\ goal' \in [Callers -> Amounts \cup {0}]
  /\ effect' \in [Callers -> BOOLEAN]

LEMMA InputsKept ==
  ASSUME Together, NEW p \in Callers, Alone(p),
         pc'[p] # "idle" => (FinalAsAsked(arg[p]) /\ arg'[p] = arg[p]) \/ FinalAsAsked(arg'[p])
  PROVE  InputsOK'
<1>1. \A in : FinalAsAsked(in) => FinalAsAsked(in)'
  BY DEF FinalAsAsked, Alone
<1>2. InputsOK
  BY DEF Together, SessionInv
<1>3. \A q \in Proc : pc'[q] # "idle" => FinalAsAsked(arg'[q])
  BY <1>2 DEF InputsOK, Alone
<1>4. \A k \in Keys : status'[k] # "none" => FinalAsAsked(intent'[k])
  BY <1>2 DEF InputsOK, Alone
<1>5. \A r \in Runners : pc'[r] = "ensure" => status'[arg'[r].key] # "none"
  <2>1. \A r \in Runners : r \in Proc \ {p}
    BY ProcAssumption DEF Proc
  <2> QED
    BY <1>2, <2>1 DEF InputsOK, Alone
<1> QED
  BY <1>1, <1>3, <1>4, <1>5 DEF InputsOK

(* A call: the goroutine takes a job and submits its input. *)
LEMMA CallShape ==
  ASSUME Together, NEW p \in Callers, NEW in, Call(p, in)
  PROVE  /\ UNCHANGED <<status, intent>> /\ pc[p] = "idle" /\ pc'[p] = "ensure" /\ arg'[p] = in
         /\ \A q \in Proc \ {p} : pc'[q] = pc[q] /\ arg'[q] = arg[q]
<1>1. p \in Proc
  BY DEF Proc
<1> QED
  BY <1>1 DEF Call, Goto, rowVars, Together, IInv, TypeOK

LEMMA ReturnShape ==
  ASSUME Together, NEW p \in Callers, Return(p)
  PROVE  /\ UNCHANGED <<status, intent>> /\ pc[p] \in {"ok", "err"} /\ pc'[p] = "idle"
         /\ \A q \in Proc \ {p} : pc'[q] = pc[q] /\ arg'[q] = arg[q]
         /\ pc[p] = "ok" => status[arg[p].key] = "applied"
                            /\ intent[arg[p].key].allowMissing = arg[p].allowMissing
<1>1. p \in Proc
  BY DEF Proc
<1>2. /\ UNCHANGED <<status, intent>> /\ pc[p] \in {"ok", "err"} /\ pc'[p] = "idle"
      /\ \A q \in Proc \ {p} : pc'[q] = pc[q] /\ arg'[q] = arg[q]
  BY <1>1 DEF Return, Goto, rowVars, Together, IInv, TypeOK
<1>3. pc[p] = "ok" => status[arg[p].key] = "applied" /\ SameOperation(intent[arg[p].key], arg[p])
  BY <1>1 DEF Together, IInv, RowsAndProcsAgree, ProcOK
<1> QED
  BY <1>2, <1>3 DEF SameOperation

(* A goroutine's jobs, as a function. *)
LEMMA JobTypes ==
  ASSUME Together
  PROVE  /\ job \in [Callers -> Jobs] /\ goal \in [Callers -> Amounts \cup {0}]
         /\ effect \in [Callers -> BOOLEAN] /\ \A p \in Callers : JobOK(p)
BY DEF Together, SessionInv, JobsOK

LEMMA JobMoves ==
  ASSUME Together, NEW p \in Callers, NEW what \in Jobs, job' = [job EXCEPT ![p] = what]
  PROVE  job' \in [Callers -> Jobs] /\ job'[p] = what /\ \A q \in Callers \ {p} : job'[q] = job[q]
BY JobTypes

LEMMA OpenStep ==
  ASSUME Together, NEW p \in Callers, NEW q \in Amounts, NEW trust \in BOOLEAN,
         OpenSession(p, q, trust)
  PROVE  SessionInv'
<1> USE DEF holdings, flags, calls
<1> DEFINE e == IF trust THEN 0 ELSE q
           in == PreConsumeInput(q, e)
<1>1. Call(p, in) /\ e \in Amounts \cup {0}
  BY DEF OpenSession
<1> HIDE DEF e
<1>2. /\ phase = "new" /\ phase' = "opening" /\ job' = [job EXCEPT ![p] = "open"]
      /\ UNCHANGED <<holdings, flags, locked, closing, goal, effect, asked>>
  BY DEF OpenSession, Starts
<1>3. /\ job' \in [Callers -> Jobs] /\ job'[p] = "open" /\ \A c \in Callers \ {p} : job'[c] = job[c]
  BY <1>2, JobMoves DEF Jobs
<1>4. \A c \in Callers : job[c] = "none" /\ pc[c] = "idle"
  BY <1>2, JobTypes DEF Together, SessionInv, PhaseOK, JobOK
<1>5. Alone(p) /\ pc'[p] = "ensure" /\ arg'[p] = in
  BY <1>1, <1>2, <1>3, CallShape, JobTypes DEF Alone
<1>6. PhaseOK' /\ HoldingsOK'
  BY <1>2, <1>3, <1>4 DEF Together, SessionInv, PhaseOK, HoldingsOK
<1>7. JobsOK'
  <2>1. OpenJob(p)'
    BY <1>1, <1>2, <1>5 DEF OpenJob
  <2>2. \A c \in Callers \ {p} : job'[c] = "none" /\ pc'[c] = "idle"
    BY <1>3, <1>4, <1>5 DEF Alone, Proc
  <2>3. \A c \in Callers : JobOK(c)'
    BY <1>3, <2>1, <2>2 DEF JobOK
  <2> QED
    BY <1>5, <2>3 DEF JobsOK, Alone
<1>8. OneAtATime'
  BY <1>3, <1>4 DEF OneAtATime, Flying
<1>9. InputsOK'
  <2>1. FinalAsAsked(in)
    BY PreConsumeShape, KeyTypes DEF FinalAsAsked
  <2> QED
    BY <1>5, <2>1, InputsKept
<1>10. EndsOK'
  BY <1>2 DEF Together, SessionInv, PhaseOK, EndsOK
<1> QED
  BY <1>6, <1>7, <1>8, <1>9, <1>10 DEF SessionInv

LEMMA OpenEndsStep ==
  ASSUME Together, NEW p \in Callers, OpenEnds(p), phase # "dead"
  PROVE  SessionInv'
<1> USE DEF flags
<1>1. /\ job[p] = "open" /\ Return(p) /\ job' = [job EXCEPT ![p] = "none"]
      /\ UNCHANGED <<reserveRevision, flags, locked, closing, goal, effect, asked>>
  BY DEF OpenEnds, Ends
<1>2. /\ job' \in [Callers -> Jobs] /\ job'[p] = "none" /\ \A c \in Callers \ {p} : job'[c] = job[c]
  BY <1>1, JobMoves DEF Jobs
<1>3. Alone(p) /\ pc'[p] = "idle" /\ pc[p] # "idle"
  BY <1>1, <1>2, ReturnShape, JobTypes DEF Alone
<1>4. /\ phase = "opening" /\ OpenJob(p) /\ preConsumed = 0 /\ consumed = 0 /\ tokenConsumed = 0
      /\ ~settled /\ ~refunded
      /\ \A c \in Callers \ {p} : job[c] = "none" /\ pc[c] = "idle"
  <2>1. OpenJob(p) /\ phase = "opening"
    BY <1>1, JobTypes DEF JobOK, OpenJob
  <2>2. \A c \in Callers \ {p} : job[c] = "none"
    BY <1>1, <2>1 DEF Together, SessionInv, PhaseOK, OneAtATime
  <2> QED
    BY <2>1, <2>2, JobTypes DEF Together, SessionInv, PhaseOK, JobOK
<1>5. phase' \in {"open", "refused"}
  BY DEF OpenEnds
<1>6. PhaseOK'
  BY <1>5 DEF PhaseOK
<1>7. HoldingsOK'
  <2>1. PICK q \in Amounts, e \in Amounts \cup {0} : arg[p] = PreConsumeInput(q, e)
    BY <1>3, <1>4 DEF OpenJob
  <2>2. \/ preConsumed' = e /\ consumed' = e /\ tokenConsumed' = TokenLegOf(e)
        \/ UNCHANGED <<preConsumed, consumed, tokenConsumed>>
    BY <2>1, PreConsumeShape DEF OpenEnds, OpenedWith
  <2> QED
    BY <1>1, <1>4, <2>2 DEF Together, SessionInv, HoldingsOK
<1>8. JobsOK'
  <2>1. \A c \in Callers \ {p} : job'[c] = "none" /\ pc'[c] = "idle"
    BY <1>2, <1>3, <1>4 DEF Alone, Proc
  <2>2. \A c \in Callers : JobOK(c)'
    BY <1>2, <1>3, <2>1 DEF JobOK
  <2> QED
    BY <1>3, <2>2 DEF JobsOK, Alone
<1>9. OneAtATime'
  BY <1>2, <1>4 DEF OneAtATime, Flying
<1>10. InputsOK'
  BY <1>3, InputsKept
<1>11. EndsOK'
  BY <1>1, <1>4 DEF EndsOK
<1> QED
  BY <1>6, <1>7, <1>8, <1>9, <1>10, <1>11 DEF SessionInv

(* A reservation, under the mutex. *)
LEMMA ReserveStep ==
  ASSUME Together, NEW p \in Callers, NEW q \in Amounts, Reserve(p, q)
  PROVE  SessionInv'
<1> USE DEF holdings, flags
<1> DEFINE in == ReserveInput(reserveRevision + 1, q - preConsumed)
<1>1. /\ Call(p, in) /\ q > preConsumed /\ reserveRevision < MaxReserves
      /\ phase = "open" /\ job[p] = "none" /\ ~locked /\ ~closing /\ locked'
      /\ job' = [job EXCEPT ![p] = "reserve"]
      /\ UNCHANGED <<holdings, flags, phase, closing, goal, effect, asked>>
  BY DEF Reserve, Free, Starts
<1>2. /\ job' \in [Callers -> Jobs] /\ job'[p] = "reserve" /\ \A c \in Callers \ {p} : job'[c] = job[c]
  BY <1>1, JobMoves DEF Jobs
<1>3. Alone(p) /\ pc'[p] = "ensure" /\ arg'[p] = in
  BY <1>1, <1>2, CallShape, JobTypes DEF Alone
<1>4. \A c \in Callers : JobOK(c) /\ job[c] \notin {"open", "reserve", "settle", "refund"}
  <2>1. ASSUME NEW c \in Callers
        PROVE  JobOK(c) /\ job[c] \notin {"open", "reserve", "settle", "refund"}
    BY <1>1, JobTypes DEF JobOK, OpenJob, ReserveJob, SettleJob, RefundJob
  <2> QED
    BY <2>1
<1>5. \A c \in Callers : job[c] = "none"
  BY <1>4, JobTypes DEF Jobs
<1>6. PhaseOK' /\ HoldingsOK'
  BY <1>1 DEF Together, SessionInv, PhaseOK, HoldingsOK
<1>7. JobsOK'
  <2>1. ReserveJob(p)'
    BY <1>1, <1>3 DEF ReserveJob
  <2>2. \A c \in Callers \ {p} : job'[c] = "none" /\ pc'[c] = "idle"
    BY <1>2, <1>3, <1>4, <1>5 DEF Alone, Proc, JobOK
  <2>3. \A c \in Callers : JobOK(c)'
    BY <1>2, <2>1, <2>2 DEF JobOK
  <2> QED
    BY <1>3, <2>3 DEF JobsOK, Alone
<1>8. OneAtATime'
  BY <1>2, <1>5 DEF OneAtATime, Flying
<1>9. InputsOK'
  <2>1. reserveRevision + 1 \in Nat
    BY SessionAssumption DEF Together, SessionInv, HoldingsOK
  <2>2. FinalAsAsked(in)
    BY <2>1, ReserveShape, KeyTypes DEF FinalAsAsked
  <2> QED
    BY <1>3, <2>2, InputsKept
<1>10. EndsOK'
  <2>1. \A c \in Callers : ~Flying(c)'
    BY <1>2, <1>5 DEF Flying
  <2> QED
    BY <1>1, <1>3, <2>1 DEF Together, SessionInv, EndsOK, Alone
<1> QED
  BY <1>6, <1>7, <1>8, <1>9, <1>10 DEF SessionInv

LEMMA ReserveEndsStep ==
  ASSUME Together, NEW p \in Callers, ReserveEnds(p), phase # "dead"
  PROVE  SessionInv'
<1> USE DEF flags
<1>1. /\ job[p] = "reserve" /\ Return(p) /\ job' = [job EXCEPT ![p] = "none"]
      /\ UNCHANGED <<flags, phase, closing, goal, effect, asked>>
      /\ reserveRevision' = IF pc[p] = "ok" THEN reserveRevision + 1 ELSE reserveRevision
      /\ consumed' = IF pc[p] = "ok" THEN consumed + arg[p].funding ELSE consumed
      /\ preConsumed' = IF pc[p] = "ok" THEN preConsumed + arg[p].funding ELSE preConsumed
      /\ tokenConsumed' = IF pc[p] = "ok" THEN tokenConsumed + arg[p].token ELSE tokenConsumed
  BY DEF ReserveEnds, Ends, RevisionAfter, ConsumedAfter
<1>2. /\ job' \in [Callers -> Jobs] /\ job'[p] = "none" /\ \A c \in Callers \ {p} : job'[c] = job[c]
  BY <1>1, JobMoves DEF Jobs
<1>3. Alone(p) /\ pc'[p] = "idle" /\ pc[p] # "idle"
  BY <1>1, <1>2, ReturnShape, JobTypes DEF Alone
<1>4. /\ locked /\ ~closing /\ ~refunded /\ phase \notin {"new", "opening"}
      /\ ReserveJob(p)
  BY <1>1, JobTypes DEF JobOK, ReserveJob, Together, SessionInv, HoldingsOK, PhaseOK
<1>5. \A c \in Callers \ {p} : JobOK(c) /\ job[c] = "none"
  <2>1. ASSUME NEW c \in Callers \ {p}
        PROVE  JobOK(c) /\ job[c] \notin {"open", "reserve", "settle", "refund"}
    BY <1>1, <1>4, JobTypes DEF JobOK, OpenJob, SettleJob, RefundJob, Together, SessionInv, OneAtATime
  <2> QED
    BY <2>1, JobTypes DEF Jobs
<1>6. PhaseOK'
  BY <1>1, <1>4 DEF Together, SessionInv, PhaseOK
<1>7. HoldingsOK'
  <2>1. CASE pc[p] # "ok"
    BY <1>1, <2>1 DEF Together, SessionInv, HoldingsOK
  <2>2. CASE pc[p] = "ok"
    <3>1. PICK q \in Amounts : /\ q > preConsumed /\ reserveRevision < MaxReserves
                               /\ arg[p] = ReserveInput(reserveRevision + 1, q - preConsumed)
      BY <1>3, <1>4 DEF ReserveJob
    <3>2. arg[p].funding = q - preConsumed /\ arg[p].token = TokenLegOf(q - preConsumed)
      BY <3>1, ReserveShape
    <3>3. /\ preConsumed \in Amounts \cup {0} /\ preConsumed \in Nat /\ q \in Nat
          /\ consumed = preConsumed /\ tokenConsumed = TokenLegOf(preConsumed)
          /\ reserveRevision \in 0 .. MaxReserves
      BY <1>4, AmountTypes DEF Together, SessionInv, HoldingsOK
    <3>4. preConsumed' = q /\ consumed' = q
      BY <1>1, <2>2, <3>2, <3>3
    <3>5. tokenConsumed' = TokenLegOf(q)
      <4>1. tokenConsumed' = TokenLegOf(preConsumed) + TokenLegOf(q - preConsumed)
        BY <1>1, <2>2, <3>2, <3>3
      <4>2. preConsumed \in Int /\ q - preConsumed \in Int /\ preConsumed + (q - preConsumed) = q
        BY <3>3
      <4> QED
        BY <4>1, <4>2, LegSum
    <3>6. reserveRevision' \in 0 .. MaxReserves
      BY <1>1, <2>2, <3>1, <3>3, SessionAssumption
    <3> QED
      BY <1>1, <1>4, <3>4, <3>5, <3>6 DEF HoldingsOK
  <2> QED
    BY <2>1, <2>2
<1>8. JobsOK'
  <2>1. \A c \in Callers \ {p} : job'[c] = "none" /\ pc'[c] = "idle"
    BY <1>2, <1>3, <1>5 DEF Alone, Proc, JobOK
  <2>2. \A c \in Callers : JobOK(c)'
    BY <1>2, <1>3, <2>1 DEF JobOK
  <2> QED
    BY <1>3, <2>2 DEF JobsOK, Alone
<1>9. OneAtATime'
  BY <1>2, <1>5 DEF OneAtATime, Flying
<1>10. InputsOK'
  BY <1>3, InputsKept
<1>11. EndsOK'
  <2>1. \A c \in Callers : ~Flying(c)'
    BY <1>2, <1>5 DEF Flying
  <2> QED
    BY <1>1, <1>3, <2>1 DEF Together, SessionInv, EndsOK, Alone
<1> QED
  BY <1>6, <1>7, <1>8, <1>9, <1>10, <1>11 DEF SessionInv

(* A goroutine that does not reserve: what it changes of the flags is       *)
(* little, and the other goroutines see it as they saw it before.          *)
Light(p) ==
  /\ Alone(p) /\ UNCHANGED <<phase, reserveRevision, locked>>
  /\ closing' = closing \/ (~closing /\ \A c \in Callers : job[c] # "reserve")
  /\ closing => closing'

LEMMA LightJobs ==
  ASSUME Together, NEW p \in Callers, Light(p), closing \/ preConsumed' = preConsumed,
         JobOK(p)',
         \A c \in Callers \ {p} : Flying(c) => UNCHANGED <<settleInFlight, refundInFlight>>
  PROVE  JobsOK'
<1> SUFFICES ASSUME NEW c \in Callers \ {p}
             PROVE  JobOK(c)'
  BY DEF JobsOK, Light, Alone
<1>1. /\ JobOK(c) /\ c \in Proc /\ pc'[c] = pc[c] /\ arg'[c] = arg[c]
      /\ job'[c] = job[c] /\ goal'[c] = goal[c] /\ effect'[c] = effect[c]
  BY JobTypes DEF Light, Alone, Proc
<1>2. CASE job[c] = "open"
  BY <1>1, <1>2 DEF JobOK, OpenJob, Light
<1>3. CASE job[c] = "reserve"
  BY <1>1, <1>3 DEF JobOK, ReserveJob, Light
<1>4. CASE job[c] = "settle"
  BY <1>1, <1>4 DEF JobOK, SettleJob, Light, Alone, Flying
<1>5. CASE job[c] = "refund"
  BY <1>1, <1>5 DEF JobOK, RefundJob, Light, Flying
<1> QED
  BY <1>1, <1>2, <1>3, <1>4, <1>5, JobTypes DEF JobOK, Jobs

LEMMA OthersFly ==
  ASSUME NEW p \in Callers, Alone(p), NEW c \in Callers \ {p}
  PROVE  Flying(c)' <=> Flying(c)
BY DEF Alone, Flying, Proc

(* Under the mutex's flags no other finalization is in flight. *)
LEMMA FlagsKnow ==
  ASSUME Together
  PROVE  /\ ~InFlight => \A c \in Callers : ~Flying(c)
         /\ ~locked => \A c \in Callers : job[c] # "reserve"
BY JobTypes DEF InFlight, Flying, JobOK, SettleJob, RefundJob, ReserveJob

LEMMA LightStep ==
  ASSUME Together, NEW p \in Callers, Light(p), phase \notin {"new", "opening"},
         closing \/ preConsumed' = preConsumed,
         JobOK(p)', job'[p] \notin {"open", "reserve"},
         Flying(p)' => Flying(p) \/ \A c \in Callers \ {p} : ~Flying(c),
         \A c \in Callers \ {p} : Flying(c) => UNCHANGED <<settleInFlight, refundInFlight>>
  PROVE  PhaseOK' /\ JobsOK' /\ OneAtATime'
<1>1. Alone(p) /\ phase' = phase
  BY DEF Light
<1>2. PhaseOK'
  BY <1>1 DEF Together, SessionInv, PhaseOK
<1>3. JobsOK'
  BY LightJobs
<1>4. \A c \in Callers \ {p} : job'[c] = job[c] /\ (Flying(c)' <=> Flying(c))
  BY <1>1, OthersFly DEF Alone
<1>5. OneAtATime'
  BY <1>4 DEF Together, SessionInv, OneAtATime
<1> QED
  BY <1>2, <1>3, <1>5

LEMMA EndsKept ==
  ASSUME Together, NEW p \in Callers, Alone(p), UNCHANGED <<settled, refunded>>,
         settled => (Flying(p)' => Flying(p))
  PROVE  EndsOK'
<1>1. EndsOK
  BY DEF Together, SessionInv
<1>2. settled /\ (\A c \in Callers : ~Flying(c)) => \A c \in Callers : ~Flying(c)'
  BY OthersFly
<1>3. (\E a \in asked : ~a.effect) => (\E a \in asked' : ~a.effect)
  BY DEF Alone
<1> QED
  BY <1>1, <1>2, <1>3 DEF EndsOK, Alone

(* settleWithEffect: the call, its attempts, and their ends. *)
LEMMA SettleStep ==
  ASSUME Together, NEW p \in Callers, NEW q \in Amounts, NEW e \in Effects, Settle(p, q, e)
  PROVE  SessionInv'
<1> USE DEF vars, rowVars, procVars, holdings, flags
<1>1. /\ phase = "open" /\ job[p] = "none" /\ pc[p] = "idle" /\ ~locked /\ ~settled /\ ~refunded
      /\ closing' = TRUE /\ asked' = asked \cup {[quota |-> q, effect |-> e]}
      /\ job' = [job EXCEPT ![p] = "settle"]
      /\ goal' = [goal EXCEPT ![p] = q] /\ effect' = [effect EXCEPT ![p] = e]
      /\ UNCHANGED <<vars, holdings, flags, phase, locked>>
  BY DEF Settle, Free, Starts
<1>2. /\ job' \in [Callers -> Jobs] /\ job'[p] = "settle" /\ \A c \in Callers \ {p} : job'[c] = job[c]
  BY <1>1, JobMoves DEF Jobs
<1>3. /\ goal' \in [Callers -> Amounts \cup {0}] /\ goal'[p] = q
      /\ \A c \in Callers \ {p} : goal'[c] = goal[c]
  BY <1>1, JobTypes
<1>4. /\ effect' \in [Callers -> BOOLEAN] /\ effect'[p] = e
      /\ \A c \in Callers \ {p} : effect'[c] = effect[c]
  BY <1>1, JobTypes, SessionAssumption
<1>5. Alone(p)
  BY <1>1, <1>2, <1>3, <1>4 DEF Alone
<1>6. Light(p)
  BY <1>1, <1>5, FlagsKnow DEF Light
<1>7. JobOK(p)'
  BY <1>1, <1>2, <1>3, <1>4 DEF JobOK, SettleJob
<1>8. ~Flying(p)'
  BY <1>1, <1>2 DEF Flying
<1>9. PhaseOK' /\ JobsOK' /\ OneAtATime'
  BY <1>1, <1>2, <1>6, <1>7, <1>8, LightStep
<1>10. HoldingsOK'
  BY <1>1 DEF Together, SessionInv, HoldingsOK
<1>11. InputsOK'
  BY <1>1, <1>5, InputsKept
<1>12. EndsOK'
  BY <1>1, <1>5, EndsKept
<1> QED
  BY <1>9, <1>10, <1>11, <1>12 DEF SessionInv

(* What an attempt that goes on or gives up does to the goroutine's job. *)
LEMMA AttemptJob ==
  ASSUME Together, NEW p \in Callers, job[p] = "settle", AttemptFails(p) \/ Ends(p)
  PROVE  /\ job' \in [Callers -> Jobs] /\ job'[p] \in {"none", "settle"}
         /\ \A c \in Callers \ {p} : job'[c] = job[c]
<1>1. job' = job \/ job' = [job EXCEPT ![p] = "none"]
  BY DEF AttemptFails, Ends
<1> QED
  BY <1>1, JobMoves, JobTypes DEF Jobs

LEMMA AttemptStep ==
  ASSUME Together, NEW p \in Callers, SettleFindsEnded(p) \/ SettleRefused(p) \/ SettleNothing(p)
  PROVE  SessionInv'
<1> USE DEF vars, rowVars, procVars, holdings
<1>1. /\ phase = "open" /\ job[p] = "settle" /\ pc[p] = "idle"
      /\ AttemptFails(p) \/ Ends(p)
      /\ UNCHANGED <<vars, holdings, refunded, settleInFlight, refundInFlight, course, goal, effect, asked>>
  BY DEF SettleFindsEnded, SettleRefused, SettleNothing, AtAttempt, flags
<1>2. /\ job' \in [Callers -> Jobs] /\ job'[p] \in {"none", "settle"}
      /\ \A c \in Callers \ {p} : job'[c] = job[c]
  BY <1>1, AttemptJob
<1>3. Alone(p) /\ pc' = pc
  BY <1>1, <1>2, JobTypes DEF Alone
<1>4. SettleJob(p)
  BY <1>1, JobTypes DEF JobOK
<1>5. Light(p)
  BY <1>1, <1>3 DEF Light, course
<1>6. JobOK(p)'
  BY <1>1, <1>2, <1>4 DEF JobOK, SettleJob, course
<1>7. ~Flying(p)'
  BY <1>1, <1>2 DEF Flying
<1>8. PhaseOK' /\ JobsOK' /\ OneAtATime'
  BY <1>1, <1>2, <1>5, <1>6, <1>7, LightStep
<1>9. HoldingsOK'
  BY <1>1 DEF Together, SessionInv, HoldingsOK, course
<1>10. InputsOK'
  BY <1>1, <1>3, InputsKept
<1>11. EndsOK'
  <2>1. CASE UNCHANGED settled
    BY <1>1, <1>3, <1>7, <2>1, EndsKept
  <2>2. CASE SettleNothing(p)
    <3>1. ~effect[p] /\ status[FinalKey] = "none" /\ ~refunded /\ ~InFlight
      BY <2>2 DEF SettleNothing, NothingToSettle
    <3>2. \E a \in asked : ~a.effect
      BY <1>4, <3>1 DEF SettleJob
    <3>3. \A c \in Callers : ~Flying(c)'
      BY <1>3, <1>7, <3>1, FlagsKnow, OthersFly
    <3> QED
      BY <1>1, <3>1, <3>2, <3>3 DEF EndsOK
  <2> QED
    BY <2>1, <2>2 DEF SettleFindsEnded, SettleRefused, flags
<1> QED
  BY <1>8, <1>9, <1>10, <1>11 DEF SessionInv

LEMMA SettleSubmitStep ==
  ASSUME Together, NEW p \in Callers, SettleSubmits(p)
  PROVE  SessionInv'
<1> USE DEF holdings, calls
<1> DEFINE in == SettleInput(SettleDelta(goal[p]), goal[p], effect[p])
<1>1. /\ phase = "open" /\ job[p] = "settle" /\ ~settled /\ ~refunded /\ ~InFlight
      /\ Call(p, in) /\ settleInFlight' = TRUE
      /\ UNCHANGED <<holdings, settled, refunded, refundInFlight, course, calls>>
  BY DEF SettleSubmits, AtAttempt
<1>2. Alone(p) /\ pc'[p] = "ensure" /\ arg'[p] = in
  BY <1>1, CallShape, JobTypes DEF Alone
<1>3. SettleJob(p) /\ \A c \in Callers : ~Flying(c)
  BY <1>1, JobTypes, FlagsKnow DEF JobOK
<1>4. Light(p)
  BY <1>1, <1>2 DEF Light, course
<1>5. in.key = FinalKey /\ in.allowMissing = FALSE /\ in.payload = effect[p]
  BY DEF SettleInput, Operation
<1>6. JobOK(p)'
  BY <1>1, <1>2, <1>3, <1>5 DEF JobOK, SettleJob, course
<1>7. PhaseOK' /\ JobsOK' /\ OneAtATime'
  BY <1>1, <1>3, <1>4, <1>6, LightStep
<1>8. HoldingsOK'
  BY <1>1 DEF Together, SessionInv, HoldingsOK, course
<1>9. InputsOK'
  <2>1. FinalAsAsked(in)
    BY <1>3, <1>5 DEF FinalAsAsked, SettleJob
  <2> QED
    BY <1>2, <2>1, InputsKept
<1>10. EndsOK'
  BY <1>1, <1>2, EndsKept
<1> QED
  BY <1>7, <1>8, <1>9, <1>10 DEF SessionInv

LEMMA SettleEndsStep ==
  ASSUME Together, NEW p \in Callers, SettleEnds(p), phase # "dead"
  PROVE  SessionInv'
<1> USE DEF holdings
<1>1. /\ job[p] = "settle" /\ Return(p) /\ settleInFlight' = FALSE
      /\ AttemptFails(p) \/ Ends(p)
      /\ UNCHANGED <<holdings, refunded, refundInFlight, course, goal, effect, asked>>
  BY DEF SettleEnds
<1>2. /\ job' \in [Callers -> Jobs] /\ job'[p] \in {"none", "settle"}
      /\ \A c \in Callers \ {p} : job'[c] = job[c]
  BY <1>1, AttemptJob
<1>3. Alone(p) /\ pc'[p] = "idle" /\ pc[p] # "idle"
  BY <1>1, <1>2, ReturnShape, JobTypes DEF Alone
<1>4. SettleJob(p) /\ phase \notin {"new", "opening"}
  BY <1>1, JobTypes DEF JobOK, Together, SessionInv, PhaseOK
<1>5. \A c \in Callers \ {p} : ~Flying(c)
  BY <1>1, <1>3 DEF Flying, Together, SessionInv, OneAtATime
<1>6. Light(p)
  BY <1>1, <1>3 DEF Light, course
<1>7. JobOK(p)'
  BY <1>1, <1>2, <1>3, <1>4 DEF JobOK, SettleJob, course
<1>8. ~Flying(p)'
  BY <1>2, <1>3 DEF Flying
<1>9. PhaseOK' /\ JobsOK' /\ OneAtATime'
  BY <1>1, <1>2, <1>4, <1>5, <1>6, <1>7, <1>8, LightStep
<1>10. HoldingsOK'
  BY <1>1 DEF Together, SessionInv, HoldingsOK, course
<1>11. InputsOK'
  BY <1>3, InputsKept
<1>12. EndsOK'
  <2>1. CASE pc[p] # "ok"
    BY <1>1, <1>3, <1>8, <2>1, EndsKept DEF SettleEnds
  <2>2. CASE pc[p] = "ok"
    <3>1. status[FinalKey] = "applied" /\ ~intent[FinalKey].allowMissing
      BY <1>1, <1>3, <1>4, <2>2, ReturnShape DEF SettleJob
    <3>2. EndsOK
      BY DEF Together, SessionInv
    <3> QED
      BY <1>1, <1>3, <3>1, <3>2 DEF EndsOK, Alone
  <2> QED
    BY <2>1, <2>2
<1> QED
  BY <1>9, <1>10, <1>11, <1>12 DEF SessionInv

LEMMA RefundStep ==
  ASSUME Together, NEW p \in Callers, Refund(p)
  PROVE  SessionInv'
<1> USE DEF holdings
<1> DEFINE in == RefundInput(consumed, tokenConsumed)
<1>1. /\ phase = "open" /\ job[p] = "none" /\ ~locked /\ ~settled /\ ~refunded /\ ~InFlight
      /\ Call(p, in) /\ refundInFlight' = TRUE /\ closing' = TRUE
      /\ job' = [job EXCEPT ![p] = "refund"]
      /\ UNCHANGED <<holdings, settled, refunded, settleInFlight, phase, locked, goal, effect, asked>>
  BY DEF Refund, Free, Starts
<1>2. /\ job' \in [Callers -> Jobs] /\ job'[p] = "refund" /\ \A c \in Callers \ {p} : job'[c] = job[c]
  BY <1>1, JobMoves DEF Jobs
<1>3. Alone(p) /\ pc'[p] = "ensure" /\ arg'[p] = in
  BY <1>1, <1>2, CallShape, JobTypes DEF Alone
<1>4. \A c \in Callers : ~Flying(c) /\ job[c] # "reserve"
  BY <1>1, FlagsKnow
<1>5. Light(p)
  BY <1>1, <1>3, <1>4 DEF Light
<1>6. in.key = FinalKey /\ in.allowMissing = TRUE
  BY DEF RefundInput, Operation
<1>7. JobOK(p)'
  BY <1>1, <1>2, <1>3, <1>6 DEF JobOK, RefundJob
<1>8. PhaseOK' /\ JobsOK' /\ OneAtATime'
  BY <1>1, <1>2, <1>4, <1>5, <1>7, LightStep
<1>9. HoldingsOK'
  BY <1>1 DEF Together, SessionInv, HoldingsOK
<1>10. InputsOK'
  BY <1>3, <1>6, InputsKept DEF FinalAsAsked
<1>11. EndsOK'
  BY <1>1, <1>3, EndsKept
<1> QED
  BY <1>8, <1>9, <1>10, <1>11 DEF SessionInv

LEMMA RefundEndsStep ==
  ASSUME Together, NEW p \in Callers, RefundEnds(p), phase # "dead"
  PROVE  SessionInv'
<1>1. /\ job[p] = "refund" /\ Return(p) /\ refundInFlight' = FALSE
      /\ job' = [job EXCEPT ![p] = "none"]
      /\ UNCHANGED <<consumed, reserveRevision, settled, settleInFlight, course, goal, effect, asked>>
  BY DEF RefundEnds, Ends
<1>2. /\ job' \in [Callers -> Jobs] /\ job'[p] = "none" /\ \A c \in Callers \ {p} : job'[c] = job[c]
  BY <1>1, JobMoves DEF Jobs
<1>3. Alone(p) /\ pc'[p] = "idle" /\ pc[p] # "idle"
  BY <1>1, <1>2, ReturnShape, JobTypes DEF Alone
<1>4. RefundJob(p) /\ closing /\ phase \notin {"new", "opening"}
  BY <1>1, JobTypes DEF JobOK, RefundJob, Together, SessionInv, PhaseOK
<1>5. \A c \in Callers \ {p} : ~Flying(c)
  BY <1>1 DEF Flying, Together, SessionInv, OneAtATime
<1>6. Light(p)
  BY <1>1, <1>3 DEF Light, course
<1>7. JobOK(p)' /\ ~Flying(p)'
  BY <1>2, <1>3 DEF JobOK, Flying
<1>8. PhaseOK' /\ JobsOK' /\ OneAtATime'
  BY <1>2, <1>4, <1>5, <1>6, <1>7, LightStep
<1>9. InputsOK'
  BY <1>3, InputsKept
<1>10. CASE pc[p] # "ok"
  <2>1. UNCHANGED <<refunded, tokenConsumed, preConsumed>>
    BY <1>10 DEF RefundEnds
  <2>2. HoldingsOK'
    BY <1>1, <2>1 DEF Together, SessionInv, HoldingsOK, course
  <2>3. EndsOK'
    BY <1>1, <1>3, <1>7, <2>1, EndsKept
  <2> QED
    BY <1>8, <1>9, <2>2, <2>3 DEF SessionInv
<1>11. CASE pc[p] = "ok"
  <2>1. refunded' = TRUE /\ preConsumed' = 0
    BY <1>11 DEF RefundEnds
  <2>2. HoldingsOK'
    BY <1>1, <1>4, <2>1 DEF Together, SessionInv, HoldingsOK, course
  <2>3. status[FinalKey] = "applied" /\ intent[FinalKey].allowMissing
    BY <1>1, <1>3, <1>4, <1>11, ReturnShape DEF RefundJob
  <2>4. EndsOK
    BY DEF Together, SessionInv
  <2>5. EndsOK'
    BY <1>1, <1>3, <2>3, <2>4 DEF EndsOK, Alone
  <2> QED
    BY <1>8, <1>9, <2>2, <2>5 DEF SessionInv
<1> QED
  BY <1>10, <1>11

(* Sending the request, the death of the node, a top-up, the deletion of    *)
(* the token, and nothing at all: no row and no goroutine moves.           *)
LEMMA QuietStep ==
  ASSUME Together,
         \/ Release \/ NodeDies \/ UNCHANGED allVars
         \/ (TopUp \/ DeleteToken) /\ UNCHANGED sessionVars
  PROVE  SessionInv'
<1> USE DEF vars, rowVars, procVars, holdings, flags, calls
<1>1. UNCHANGED <<status, intent, pc, arg, holdings, flags, locked, closing, calls>>
  BY DEF Release, NodeDies, TopUp, DeleteToken, allVars, sessionVars, course
<1>2. phase' \in {phase, "dead"}
  BY DEF Release, NodeDies, TopUp, DeleteToken, allVars, sessionVars, course
<1>3. PhaseOK' /\ HoldingsOK'
  BY <1>1, <1>2 DEF Together, SessionInv, PhaseOK, HoldingsOK
<1>4. JobsOK'
  <2>1. ASSUME NEW c \in Callers
        PROVE  JobOK(c)'
    <3>1. JobOK(c)
      BY JobTypes
    <3>2. job[c] = "open" => OpenJob(c)'
      BY <1>1, <1>2, <3>1 DEF JobOK, OpenJob
    <3>3. job[c] = "reserve" => ReserveJob(c)'
      BY <1>1, <3>1 DEF JobOK, ReserveJob
    <3>4. (job[c] = "settle" => SettleJob(c)') /\ (job[c] = "refund" => RefundJob(c)')
      BY <1>1, <3>1 DEF JobOK, SettleJob, RefundJob
    <3> QED
      BY <1>1, <3>1, <3>2, <3>3, <3>4 DEF JobOK
  <2> QED
    BY <1>1, <2>1, JobTypes DEF JobsOK
<1>5. OneAtATime' /\ EndsOK'
  BY <1>1 DEF Together, SessionInv, OneAtATime, EndsOK, Flying
<1>6. InputsOK'
  BY <1>1 DEF Together, SessionInv, InputsOK, FinalAsAsked
<1> QED
  BY <1>3, <1>4, <1>5, <1>6 DEF SessionInv

-----------------------------------------------------------------------------
(* The theorems. *)

LEMMA NextTogether ==
  ASSUME Together, [SessionNext]_allVars
  PROVE  Together'
<1>1. IInv'
  BY ClientStep, NextStep DEF Together
<1>2. ASSUME NEW p \in Callers, SessionCall(p)
      PROVE  SessionInv'
  BY <1>2, OpenStep, ReserveStep, SettleStep, AttemptStep, SettleSubmitStep, RefundStep
     DEF SessionCall
<1>3. ASSUME NEW p \in Callers, SessionReturn(p), phase # "dead"
      PROVE  SessionInv'
  BY <1>3, OpenEndsStep, ReserveEndsStep, SettleEndsStep, RefundEndsStep DEF SessionReturn
<1>4. ASSUME NEW p \in Proc, UNCHANGED sessionVars,
             \/ Apply(p) \/ Effect(p) \/ Crash(p) \/ Return(p)
             \/ p \in Runners /\ RunnerStep(p)
      PROVE  SessionInv'
  <2>1. IInv
    BY DEF Together
  <2>2. RoundTrip(p)
    BY <1>4, <2>1, ApplyMoves, OtherMoves
  <2> QED
    BY <1>4, <2>2, RoundTripKeeps
<1>5. \A p : p \in Callers \/ p \in Runners => p \in Proc
  BY DEF Proc
<1>6. SessionInv'
  BY <1>2, <1>3, <1>4, <1>5, QuietStep DEF SessionNext, GoroutineStops
<1> QED
  BY <1>1, <1>6 DEF Together

LEMMA InitTogether == SessionInit => Together
<1> SUFFICES ASSUME SessionInit
             PROVE  Together
  OBVIOUS
<1>1. IInv
  BY InitIInv DEF SessionInit
<1>2. PhaseOK /\ HoldingsOK
  <2>1. 0 \in 0 .. MaxReserves
    BY SessionAssumption
  <2> QED
    BY <2>1 DEF SessionInit, PhaseOK, HoldingsOK, TokenLegOf
<1>3. \A p \in Proc : pc[p] = "idle"
  BY DEF SessionInit, Init
<1>4. JobsOK
  BY <1>3 DEF SessionInit, JobsOK, Jobs, JobOK, Proc
<1>5. OneAtATime
  BY DEF SessionInit, OneAtATime, Flying
<1>6. InputsOK
  BY <1>3 DEF SessionInit, Init, InputsOK, Proc
<1>7. EndsOK
  BY DEF SessionInit, EndsOK
<1> QED
  BY <1>1, <1>2, <1>4, <1>5, <1>6, <1>7 DEF Together, SessionInv

(* Every behaviour of a session, with the goroutines, runners and accidents *)
(* around it, is one of the store: what holds of every use of the store     *)
(* holds of the session's rows (BillingSession's calls of                   *)
(* ApplyBillingSettlementOnce and SettleWithEffect).                        *)
THEOREM SessionIsAClient == SessionSpec => Spec
<1>1. SessionInit => Init
  BY DEF SessionInit
<1>2. Together /\ [SessionNext]_allVars => [Next]_vars
  BY ClientStep
<1>3. Together /\ [SessionNext]_allVars => Together'
  BY NextTogether
<1> QED
  BY <1>1, <1>2, <1>3, InitTogether, PTL DEF SessionSpec, Spec

(* A session is settled or refunded, never both, says of itself what its    *)
(* finalize row says, and does not lose the effect it was asked to log      *)
(* (settleWithEffect, Refund).                                             *)
THEOREM OneOutcomeHolds == SessionSpec => []OneOutcome
<1>1. Together => OneOutcome
  <2> SUFFICES ASSUME Together
               PROVE  OneOutcome
    OBVIOUS
  <2>1. EndsOK /\ InputsOK /\ IInv /\ FinalKey \in Keys
    BY KeyTypes DEF Together, SessionInv
  <2>2. settled => status[FinalKey] = "none" \/ ~intent[FinalKey].allowMissing
    BY <2>1 DEF EndsOK
  <2>3. refunded => status[FinalKey] = "applied" /\ intent[FinalKey].allowMissing
    BY <2>1 DEF EndsOK
  <2>4. ASSUME settled, \A a \in asked : a.effect
        PROVE  effectStatus[FinalKey] \in {"pending", "applied"}
    <3>1. status[FinalKey] = "applied" /\ ~intent[FinalKey].allowMissing
      BY <2>1, <2>4 DEF EndsOK
    <3>2. FinalAsAsked(intent[FinalKey]) /\ intent[FinalKey].key = FinalKey
      BY <2>1, <3>1 DEF InputsOK, IInv, RowsAndProcsAgree, RowOK
    <3>3. \E a \in asked : a.effect = intent[FinalKey].payload
      BY <3>1, <3>2 DEF FinalAsAsked
    <3>4. intent[FinalKey].payload
      BY <2>4, <3>3
    <3>5. effectStatus[FinalKey] # "none"
      BY <2>1, <3>1, <3>4 DEF IInv, RowsAndProcsAgree, RowOK
    <3> QED
      BY <2>1, <3>5 DEF IInv, TypeOK
  <2> QED
    BY <2>2, <2>3, <2>4 DEF OneOutcome, IsRefund
<1>2. Together /\ [SessionNext]_allVars => Together'
  BY NextTogether
<1> QED
  BY <1>1, <1>2, InitTogether, PTL DEF SessionSpec

-----------------------------------------------------------------------------
(* What a session remembers of its rows.                                   *)

(* The finalization of what was taken: all of it is given back, or it is    *)
(* completed to a quota Settle was called with.                            *)
FinalOK(in) ==
  \/ in.allowMissing /\ in.funding = -consumed
  \/ ~in.allowMissing /\ in.funding + consumed \in AskedQuotas

(* From the pre-consume on, and for good once it is being finalized.        *)
Underway == phase = "open" \/ closing

KnownOK ==
  /\ \A k \in KnownKeys : status[k] = "applied"
  /\ consumed = SumFunctionOnSet(appliedDelta, KnownKeys)
  /\ ~refunded => tokenConsumed = SumFunctionOnSet(appliedToken, KnownKeys)
FinalsOK ==
  /\ \A p \in Proc : pc[p] # "idle" /\ arg[p].key = FinalKey => closing /\ FinalOK(arg[p])
  /\ status[FinalKey] # "none" => closing /\ FinalOK(intent[FinalKey])
  /\ settled => closing /\ (status[FinalKey] = "none" => consumed \in AskedQuotas)
AheadOK ==
  /\ phase \in {"new", "opening"} => reserveRevision = 0
  /\ \A n \in Reserves : n > reserveRevision + 1 => status[ReserveKey(n)] = "none"

Remembers == AheadOK /\ FinalsOK /\ (Underway => KnownOK)

LEMMA ReserveKeys ==
  /\ \A m, n : ReserveKey(m) = ReserveKey(n) => m = n
  /\ \A n : ReserveKey(n) # PreKey /\ ReserveKey(n) # FinalKey
BY DEF ReserveKey, PreKey, FinalKey

LEMMA RevisionType ==
  ASSUME Together
  PROVE  reserveRevision \in Nat /\ reserveRevision <= MaxReserves /\ MaxReserves \in Nat
BY SessionAssumption DEF Together, SessionInv, HoldingsOK

LEMMA KnownFinite ==
  ASSUME Together
  PROVE  IsFiniteSet(KnownKeys) /\ KnownKeys \subseteq Keys /\ FinalKey \notin KnownKeys
<1> DEFINE R == 1 .. reserveRevision
           T == {ReserveKey(n) : n \in R}
           f == [n \in R |-> ReserveKey(n)]
<1>1. IsFiniteSet(R) /\ R \subseteq Reserves
  BY RevisionType, FS_Interval DEF Reserves
<1> HIDE DEF R
<1>2. f \in Surjection(R, T)
  BY DEF Surjection
<1>3. IsFiniteSet(T)
  BY <1>1, <1>2, FS_Surjection
<1>4. T \subseteq Keys /\ FinalKey \notin T
  BY <1>1, ReserveKeys, SessionAssumption
<1>5. KnownKeys = T \cup {PreKey}
  BY DEF KnownKeys, R
<1> HIDE DEF T
<1>6. IsFiniteSet(T \cup {PreKey})
  BY <1>3, FS_AddElement
<1> QED
  BY <1>4, <1>5, <1>6, KeyTypes

(* The next revision is one known key more. *)
LEMMA KnownNext ==
  ASSUME Together, reserveRevision' = reserveRevision + 1
  PROVE  /\ KnownKeys' = KnownKeys \cup {ReserveKey(reserveRevision + 1)}
         /\ ReserveKey(reserveRevision + 1) \notin KnownKeys
<1>1. reserveRevision \in Nat
  BY RevisionType
<1>2. 1 .. (reserveRevision + 1) = (1 .. reserveRevision) \cup {reserveRevision + 1}
  BY <1>1
<1>3. reserveRevision + 1 \notin 1 .. reserveRevision
  BY <1>1
<1>4. KnownKeys' = {PreKey} \cup {ReserveKey(n) : n \in 1 .. (reserveRevision + 1)}
  BY DEF KnownKeys
<1>5. KnownKeys' = KnownKeys \cup {ReserveKey(reserveRevision + 1)}
  BY <1>2, <1>4 DEF KnownKeys
<1>6. ReserveKey(reserveRevision + 1) \notin KnownKeys
  BY <1>3, ReserveKeys DEF KnownKeys
<1> QED
  BY <1>5, <1>6

LEMMA KnownStays ==
  ASSUME Together, KnownOK, Advance, UNCHANGED <<consumed, reserveRevision>>,
         ~refunded' => ~refunded /\ tokenConsumed' = tokenConsumed
  PROVE  KnownOK'
<1>1. KnownKeys' = KnownKeys /\ IsFiniteSet(KnownKeys) /\ KnownKeys \subseteq Keys
  BY KnownFinite DEF KnownKeys
<1>2. \A k \in KnownKeys : /\ status'[k] = "applied"
                           /\ appliedDelta[k] = appliedDelta'[k]
                           /\ appliedToken[k] = appliedToken'[k]
  BY <1>1 DEF KnownOK, Advance, RowAdvances
<1>3. /\ SumFunctionOnSet(appliedDelta, KnownKeys) = SumFunctionOnSet(appliedDelta', KnownKeys)
      /\ SumFunctionOnSet(appliedToken, KnownKeys) = SumFunctionOnSet(appliedToken', KnownKeys)
  BY <1>1, <1>2, SumSame
<1> QED
  BY <1>1, <1>2, <1>3 DEF KnownOK

LEMMA KnownGrows ==
  ASSUME Together, KnownOK, ~refunded, NEW k \in Keys, k \notin KnownKeys,
         KnownKeys' = KnownKeys \cup {k}, status[k] = "applied",
         UNCHANGED <<status, appliedDelta, appliedToken>>,
         consumed' = consumed + appliedDelta[k],
         tokenConsumed' = tokenConsumed + appliedToken[k]
  PROVE  KnownOK'
<1>1. IsFiniteSet(KnownKeys) /\ KnownKeys \subseteq Keys
  BY KnownFinite
<1>2. \A j \in KnownKeys \cup {k} : /\ appliedDelta[j] \in Int /\ appliedToken[j] \in Int
                                    /\ status[j] = "applied"
  BY <1>1 DEF Together, IInv, TypeOK, KnownOK
<1>3. SumFunctionOnSet(appliedDelta, KnownKeys \cup {k}) =
        SumFunctionOnSet(appliedDelta, KnownKeys) + appliedDelta[k]
  BY <1>1, <1>2, SumAdd
<1>4. SumFunctionOnSet(appliedToken, KnownKeys \cup {k}) =
        SumFunctionOnSet(appliedToken, KnownKeys) + appliedToken[k]
  BY <1>1, <1>2, SumAdd
<1> QED
  BY <1>2, <1>3, <1>4 DEF KnownOK

-----------------------------------------------------------------------------
(* A round trip of the store: rows only go forward, and a finalization is   *)
(* inserted by whoever submitted one.                                      *)

LEMMA WhoInserts ==
  ASSUME Together, NEW p \in Proc, NEW k \in Keys, status[k] = "none", Inserted(p, k)
  PROVE  k = PreKey \/ k = FinalKey \/ k = ReserveKey(reserveRevision + 1)
<1>1. pc[p] = "ensure" /\ arg[p].key = k
  BY DEF Inserted
<1>2. p \in Callers
  BY <1>1 DEF Together, SessionInv, InputsOK, Proc
<1>3. JobOK(p) /\ job[p] \in Jobs \ {"none"}
  BY <1>1, <1>2, JobTypes DEF JobOK
<1>4. CASE job[p] = "open"
  <2>1. PICK q \in Amounts, e \in Amounts \cup {0} : arg[p] = PreConsumeInput(q, e)
    BY <1>1, <1>3, <1>4 DEF JobOK, OpenJob
  <2> QED
    BY <1>1, <2>1, PreConsumeShape
<1>5. CASE job[p] = "reserve"
  <2>1. PICK q \in Amounts : arg[p] = ReserveInput(reserveRevision + 1, q - preConsumed)
    BY <1>1, <1>3, <1>5 DEF JobOK, ReserveJob
  <2> QED
    BY <1>1, <2>1, ReserveShape
<1>6. CASE job[p] \in {"settle", "refund"}
  BY <1>1, <1>3, <1>6 DEF JobOK, SettleJob, RefundJob
<1> QED
  BY <1>3, <1>4, <1>5, <1>6 DEF Jobs

LEMMA RoundTripRemembers ==
  ASSUME Together, Remembers, UNCHANGED sessionVars, NEW p \in Proc, RoundTrip(p)
  PROVE  Remembers'
<1> USE DEF sessionVars, holdings, flags, course, calls
<1>1. Underway' => KnownOK'
  <2>1. Advance
    BY DEF RoundTrip
  <2>2. Underway' => Underway
    BY DEF Underway
  <2> QED
    BY <2>1, <2>2, KnownStays DEF Remembers
<1>2. AheadOK'
  <2>1. ASSUME NEW n \in Reserves, n > reserveRevision + 1, status'[ReserveKey(n)] # "none"
        PROVE  FALSE
    <3>1. status[ReserveKey(n)] = "none" /\ ReserveKey(n) \in Keys
      BY <2>1, SessionAssumption DEF Remembers, AheadOK
    <3>2. Inserted(p, ReserveKey(n))
      BY <2>1, <3>1 DEF RoundTrip
    <3>3. ReserveKey(n) = ReserveKey(reserveRevision + 1)
      BY <3>1, <3>2, WhoInserts, ReserveKeys
    <3>4. n = reserveRevision + 1 /\ reserveRevision \in Nat
      BY <3>3, ReserveKeys, RevisionType
    <3> QED
      BY <2>1, <3>4
  <2> QED
    BY <2>1 DEF Remembers, AheadOK
<1>3. \A in : FinalOK(in)' <=> FinalOK(in)
  BY DEF FinalOK, AskedQuotas
<1>4. FinalKey \in Keys /\ FinalsOK
  BY KeyTypes DEF Remembers
<1>5. ASSUME NEW q \in Proc, pc'[q] # "idle", arg'[q].key = FinalKey
      PROVE  closing' /\ FinalOK(arg[q])'
  <2>1. CASE q # p \/ Keeps(p)
    <3>1. pc[q] # "idle" /\ arg'[q] = arg[q]
      BY <1>5, <2>1 DEF RoundTrip, Keeps
    <3> QED
      BY <1>3, <1>4, <1>5, <3>1 DEF FinalsOK
  <2>2. CASE q = p /\ Takes(p)
    <3>1. PICK k \in Keys : status[k] # "none" /\ arg'[p] = intent[k]
      BY <2>2 DEF Takes
    <3>2. k = FinalKey
      BY <1>5, <2>2, <3>1 DEF Together, IInv, RowsAndProcsAgree, RowOK
    <3> QED
      BY <1>3, <1>4, <2>2, <3>1, <3>2 DEF FinalsOK
  <2> QED
    BY <1>5, <2>1, <2>2 DEF RoundTrip
<1>6. status'[FinalKey] # "none" => closing' /\ FinalOK(intent[FinalKey])'
  <2>1. CASE status[FinalKey] # "none"
    <3>1. intent'[FinalKey] = intent[FinalKey]
      BY <1>4, <2>1 DEF RoundTrip, Advance, RowAdvances
    <3> QED
      BY <1>3, <1>4, <2>1, <3>1 DEF FinalsOK
  <2>2. CASE status[FinalKey] = "none" /\ status'[FinalKey] # "none"
    <3>1. Inserted(p, FinalKey)
      BY <1>4, <2>2 DEF RoundTrip
    <3> QED
      BY <1>3, <1>4, <3>1 DEF FinalsOK, Inserted
  <2> QED
    BY <2>1, <2>2
<1>7. settled' => closing' /\ (status'[FinalKey] = "none" => consumed' \in AskedQuotas')
  <2>1. status'[FinalKey] = "none" => status[FinalKey] = "none"
    BY <1>4 DEF RoundTrip, Advance, RowAdvances
  <2> QED
    BY <1>4, <2>1 DEF FinalsOK, AskedQuotas
<1>8. FinalsOK'
  BY <1>5, <1>6, <1>7 DEF FinalsOK
<1> QED
  BY <1>1, <1>2, <1>8 DEF Remembers

-----------------------------------------------------------------------------
(* The steps of the session that move neither a row nor what is remembered. *)

Calm ==
  /\ UNCHANGED <<status, intent, appliedDelta, appliedToken, consumed, reserveRevision>>
  /\ asked \subseteq asked'
  /\ closing => closing'
  /\ Underway' => Underway
  /\ phase' \in {"new", "opening"} => phase \in {"new", "opening"}
  /\ ~refunded' => ~refunded /\ tokenConsumed' = tokenConsumed

LEMMA CalmFinals ==
  ASSUME Calm
  PROVE  \A in : FinalOK(in) => FinalOK(in)'
<1>1. AskedQuotas \subseteq AskedQuotas'
  BY DEF AskedQuotas, Calm
<1> QED
  BY <1>1 DEF FinalOK, Calm

LEMMA CalmRemembers ==
  ASSUME Together, Remembers, Calm,
         \A q \in Proc : pc'[q] # "idle" /\ arg'[q].key = FinalKey =>
           (pc[q] # "idle" /\ arg'[q] = arg[q]) \/ (closing' /\ FinalOK(arg[q])'),
         settled' => settled \/ (closing' /\ (status[FinalKey] = "none" => consumed \in AskedQuotas))
  PROVE  Remembers'
<1>1. FinalKey \in Keys /\ FinalsOK /\ AheadOK /\ (Underway => KnownOK)
  BY KeyTypes DEF Remembers
<1>2. Underway' => KnownOK'
  <2>1. KnownKeys' = KnownKeys
    BY DEF KnownKeys, Calm
  <2> QED
    BY <1>1, <2>1 DEF KnownOK, Calm
<1>3. AheadOK'
  BY <1>1 DEF AheadOK, Calm
<1>4. ASSUME NEW q \in Proc, pc'[q] # "idle", arg'[q].key = FinalKey
      PROVE  closing' /\ FinalOK(arg[q])'
  <2>1. CASE pc[q] # "idle" /\ arg'[q] = arg[q]
    <3>1. closing /\ FinalOK(arg[q])
      BY <1>1, <1>4, <2>1 DEF FinalsOK
    <3> QED
      BY <2>1, <3>1, CalmFinals DEF Calm
  <2> QED
    BY <1>4, <2>1
<1>5. status'[FinalKey] # "none" => closing' /\ FinalOK(intent[FinalKey])'
  <2>1. ASSUME status[FinalKey] # "none"
        PROVE  closing' /\ FinalOK(intent[FinalKey])'
    <3>1. closing /\ FinalOK(intent[FinalKey])
      BY <1>1, <2>1 DEF FinalsOK
    <3> QED
      BY <3>1, CalmFinals DEF Calm
  <2> QED
    BY <2>1 DEF Calm
<1>6. settled' => closing' /\ (status'[FinalKey] = "none" => consumed' \in AskedQuotas')
  <2>1. AskedQuotas \subseteq AskedQuotas'
    BY DEF AskedQuotas, Calm
  <2> QED
    BY <1>1, <2>1 DEF FinalsOK, Calm
<1>7. FinalsOK'
  BY <1>4, <1>5, <1>6 DEF FinalsOK
<1> QED
  BY <1>2, <1>3, <1>7 DEF Remembers

(* One goroutine moves. *)
LEMMA OneMoves ==
  ASSUME Together, Remembers, Calm, NEW p \in Callers,
         \A q \in Proc \ {p} : pc'[q] = pc[q] /\ arg'[q] = arg[q],
         pc'[p] # "idle" /\ arg'[p].key = FinalKey =>
           (pc[p] # "idle" /\ arg'[p] = arg[p]) \/ (closing' /\ FinalOK(arg[p])'),
         settled' => settled \/ (closing' /\ (status[FinalKey] = "none" => consumed \in AskedQuotas))
  PROVE  Remembers'
<1>1. ASSUME NEW q \in Proc, pc'[q] # "idle", arg'[q].key = FinalKey
      PROVE  (pc[q] # "idle" /\ arg'[q] = arg[q]) \/ (closing' /\ FinalOK(arg[q])')
  <2>1. CASE q = p
    BY <1>1, <2>1
  <2>2. CASE q # p
    BY <1>1, <2>2
  <2> QED
    BY <2>1, <2>2
<1> QED
  BY <1>1, CalmRemembers

LEMMA RowsStay ==
  ASSUME NEW p, NEW in, Call(p, in) \/ Return(p)
  PROVE  UNCHANGED <<status, intent, appliedDelta, appliedToken>>
BY DEF Call, Return, rowVars

LEMMA OpenRemembers ==
  ASSUME Together, Remembers, NEW p \in Callers, NEW q \in Amounts, NEW trust \in BOOLEAN,
         OpenSession(p, q, trust)
  PROVE  Remembers'
<1> DEFINE in == PreConsumeInput(q, IF trust THEN 0 ELSE q)
<1>1. /\ Call(p, in) /\ phase = "new" /\ phase' = "opening"
      /\ UNCHANGED <<holdings, flags, closing, asked>>
  BY DEF OpenSession
<1>2. in.key # FinalKey
  BY PreConsumeShape, KeyTypes
<1> HIDE DEF in
<1>3. Calm
  BY <1>1, RowsStay DEF Calm, Underway, holdings, flags
<1>4. arg'[p] = in /\ \A c \in Proc \ {p} : pc'[c] = pc[c] /\ arg'[c] = arg[c]
  BY <1>1, CallShape
<1> QED
  BY <1>1, <1>2, <1>3, <1>4, OneMoves DEF flags

LEMMA ReserveRemembers ==
  ASSUME Together, Remembers, NEW p \in Callers, NEW q \in Amounts, Reserve(p, q)
  PROVE  Remembers'
<1> DEFINE in == ReserveInput(reserveRevision + 1, q - preConsumed)
<1>1. Call(p, in) /\ UNCHANGED <<holdings, flags, phase, closing, asked>>
  BY DEF Reserve
<1>2. in.key # FinalKey
  BY ReserveShape, ReserveKeys
<1> HIDE DEF in
<1>3. Calm
  BY <1>1, RowsStay DEF Calm, Underway, holdings, flags
<1>4. arg'[p] = in /\ \A c \in Proc \ {p} : pc'[c] = pc[c] /\ arg'[c] = arg[c]
  BY <1>1, CallShape
<1> QED
  BY <1>1, <1>2, <1>3, <1>4, OneMoves DEF flags

(* What the session still holds is what the wallet gave it. *)
LEMMA HeldIsTaken ==
  ASSUME Together, ~refunded
  PROVE  preConsumed = consumed /\ consumed \in Nat
BY AmountTypes DEF Together, SessionInv, HoldingsOK

LEMMA SettleRemembers ==
  ASSUME Together, Remembers, NEW p \in Callers, NEW q \in Amounts, NEW e \in Effects,
         Settle(p, q, e)
  PROVE  Remembers'
<1>1. /\ UNCHANGED <<vars, holdings, flags, phase>> /\ phase = "open" /\ closing'
      /\ asked \subseteq asked'
  BY DEF Settle, Free
<1>2. Calm
  BY <1>1 DEF Calm, Underway, vars, rowVars, holdings, flags
<1> QED
  BY <1>1, <1>2, CalmRemembers DEF vars, procVars, flags

LEMMA AttemptRemembers ==
  ASSUME Together, Remembers, NEW p \in Callers,
         SettleFindsEnded(p) \/ SettleRefused(p) \/ SettleNothing(p)
  PROVE  Remembers'
<1>1. /\ UNCHANGED <<vars, holdings, refunded, course, asked>> /\ SettleJob(p)
  BY JobTypes DEF SettleFindsEnded, SettleRefused, SettleNothing, AtAttempt, JobOK, flags
<1>2. Calm
  BY <1>1 DEF Calm, Underway, vars, rowVars, holdings, course
<1>3. settled' => settled \/ (closing' /\ consumed \in AskedQuotas)
  <2>1. CASE UNCHANGED settled
    BY <2>1
  <2>2. CASE SettleNothing(p)
    <3>1. goal[p] - preConsumed = 0 /\ ~refunded
      BY <2>2 DEF SettleNothing, NothingToSettle, SettleDelta
    <3>2. goal[p] = consumed
      <4>1. goal[p] \in Nat /\ preConsumed = consumed /\ consumed \in Nat
        BY <1>1, <3>1, HeldIsTaken, AmountTypes DEF SettleJob
      <4> QED
        BY <3>1, <4>1
    <3>3. goal[p] \in AskedQuotas
      BY <1>1 DEF SettleJob, AskedQuotas
    <3> QED
      BY <1>1, <3>2, <3>3 DEF SettleJob, course
  <2> QED
    BY <2>1, <2>2 DEF SettleFindsEnded, SettleRefused, flags
<1> QED
  BY <1>1, <1>2, <1>3, CalmRemembers DEF vars, procVars

(* The delta of a settlement completes what was taken to what it was asked. *)
LEMMA SettleSubmitRemembers ==
  ASSUME Together, Remembers, NEW p \in Callers, SettleSubmits(p)
  PROVE  Remembers'
<1> DEFINE in == SettleInput(SettleDelta(goal[p]), goal[p], effect[p])
<1>1. /\ Call(p, in) /\ UNCHANGED <<holdings, settled, refunded, course, calls>>
      /\ ~refunded /\ SettleJob(p)
  BY JobTypes DEF SettleSubmits, AtAttempt, JobOK
<1>2. in.allowMissing = FALSE /\ in.funding = goal[p] - preConsumed
  BY DEF SettleInput, Operation, SettleDelta
<1> HIDE DEF in
<1>3. Calm
  BY <1>1, RowsStay DEF Calm, Underway, holdings, course, calls
<1>4. arg'[p] = in /\ \A c \in Proc \ {p} : pc'[c] = pc[c] /\ arg'[c] = arg[c]
  BY <1>1, CallShape
<1>5. FinalOK(in)
  <2>1. in.funding + consumed = goal[p]
    <3>1. goal[p] \in Nat /\ preConsumed = consumed /\ consumed \in Nat
      BY <1>1, HeldIsTaken, AmountTypes DEF SettleJob
    <3> QED
      BY <1>2, <3>1
  <2>2. goal[p] \in AskedQuotas
    BY <1>1 DEF SettleJob, AskedQuotas
  <2> QED
    BY <1>2, <2>1, <2>2 DEF FinalOK
<1>6. FinalOK(arg[p])'
  <2>1. PICK i : i = in
    OBVIOUS
  <2>2. FinalOK(i)' /\ arg'[p] = i
    BY <1>3, <1>4, <1>5, <2>1, CalmFinals
  <2> QED
    BY <2>2 DEF FinalOK
<1> QED
  BY <1>1, <1>3, <1>4, <1>6, OneMoves DEF SettleJob, course

LEMMA SettleEndRemembers ==
  ASSUME Together, Remembers, NEW p \in Callers, SettleEnds(p)
  PROVE  Remembers'
<1>1. /\ job[p] = "settle" /\ Return(p) /\ UNCHANGED <<holdings, refunded, course, asked>>
      /\ pc[p] # "ok" => UNCHANGED settled
  BY DEF SettleEnds
<1>2. /\ pc[p] # "idle" /\ pc'[p] = "idle" /\ \A c \in Proc \ {p} : pc'[c] = pc[c] /\ arg'[c] = arg[c]
      /\ pc[p] = "ok" => status[arg[p].key] = "applied"
  BY <1>1, ReturnShape
<1>3. Calm
  BY <1>1, RowsStay DEF Calm, Underway, holdings, course
<1>4. closing /\ arg[p].key = FinalKey
  BY <1>1, <1>2, JobTypes DEF JobOK, SettleJob
<1> QED
  BY <1>1, <1>2, <1>3, <1>4, OneMoves DEF course

(* A refund gives back what was taken. *)
LEMMA RefundRemembers ==
  ASSUME Together, Remembers, NEW p \in Callers, Refund(p)
  PROVE  Remembers'
<1> DEFINE in == RefundInput(consumed, tokenConsumed)
<1>1. /\ Call(p, in) /\ UNCHANGED <<holdings, settled, refunded, phase, asked>>
      /\ phase = "open" /\ closing'
  BY DEF Refund, Free
<1>2. in.allowMissing = TRUE /\ in.funding = -consumed
  BY DEF RefundInput, Operation
<1> HIDE DEF in
<1>3. Calm
  BY <1>1, RowsStay DEF Calm, Underway, holdings
<1>4. arg'[p] = in /\ \A c \in Proc \ {p} : pc'[c] = pc[c] /\ arg'[c] = arg[c]
  BY <1>1, CallShape
<1>5. FinalOK(arg[p])'
  <2>1. PICK i : i = in
    OBVIOUS
  <2>2. FinalOK(i)' /\ arg'[p] = i
    BY <1>2, <1>3, <1>4, <2>1, CalmFinals DEF FinalOK
  <2> QED
    BY <2>2 DEF FinalOK
<1> QED
  BY <1>1, <1>3, <1>4, <1>5, OneMoves

LEMMA RefundEndRemembers ==
  ASSUME Together, Remembers, NEW p \in Callers, RefundEnds(p)
  PROVE  Remembers'
<1>1. /\ Return(p) /\ UNCHANGED <<consumed, reserveRevision, settled, course, asked>>
      /\ ~refunded' => UNCHANGED <<refunded, tokenConsumed>>
  BY DEF RefundEnds
<1>2. pc'[p] = "idle" /\ \A c \in Proc \ {p} : pc'[c] = pc[c] /\ arg'[c] = arg[c]
  BY <1>1, ReturnShape
<1>3. Calm
  BY <1>1, RowsStay DEF Calm, Underway, course
<1> QED
  BY <1>1, <1>2, <1>3, OneMoves

LEMMA QuietRemembers ==
  ASSUME Together, Remembers,
         \/ Release \/ NodeDies \/ UNCHANGED allVars
         \/ (TopUp \/ DeleteToken) /\ UNCHANGED sessionVars
  PROVE  Remembers'
<1>1. UNCHANGED <<rowVars, pc, arg, holdings, flags, closing, calls>>
  BY DEF Release, NodeDies, TopUp, DeleteToken, allVars, sessionVars, course, vars, procVars
<1>2. phase' \in {phase, "dead"}
  BY DEF Release, NodeDies, TopUp, DeleteToken, allVars, sessionVars, course
<1>3. Calm
  BY <1>1, <1>2 DEF Calm, Underway, rowVars, holdings, flags, calls
<1> QED
  BY <1>1, <1>3, CalmRemembers DEF flags

(* A reservation that took place is one row more that the session knows of. *)

LEMMA NotClosing ==
  ASSUME Together, Remembers, ~closing, NEW p \in Callers, Return(p),
         UNCHANGED <<closing, settled>>
  PROVE  FinalsOK'
<1>1. /\ \A q \in Proc : pc[q] # "idle" => arg[q].key # FinalKey
      /\ status[FinalKey] = "none" /\ ~settled
  BY DEF Remembers, FinalsOK
<1>2. /\ UNCHANGED status /\ pc'[p] = "idle"
      /\ \A q \in Proc \ {p} : pc'[q] = pc[q] /\ arg'[q] = arg[q]
  BY ReturnShape
<1>3. \A q \in Proc : ~(pc'[q] # "idle" /\ arg'[q].key = FinalKey)
  BY <1>1, <1>2
<1> QED
  BY <1>1, <1>2, <1>3 DEF FinalsOK

(* The row of an operation that must not miss its token, and succeeded. *)
LEMMA TakenRow ==
  ASSUME Together, NEW p \in Callers, pc[p] = "ok", arg[p].allowMissing = FALSE
  PROVE  /\ arg[p].key \in Keys /\ status[arg[p].key] = "applied"
         /\ appliedDelta[arg[p].key] = arg[p].funding
         /\ appliedToken[arg[p].key] = arg[p].token
<1> DEFINE k == arg[p].key
<1>1. p \in Proc /\ IInv
  BY DEF Proc, Together
<1>2. k \in Keys
  BY <1>1, BusyArg
<1>3. status[k] = "applied" /\ SameOperation(intent[k], arg[p])
  BY <1>1 DEF IInv, RowsAndProcsAgree, ProcOK
<1>4. appliedDelta[k] = intent[k].funding /\ TokenLeg(k)
  BY <1>1, <1>2, <1>3 DEF IInv, RowsAndProcsAgree, RowOK
<1>5. /\ intent[k].funding = arg[p].funding /\ intent[k].token = arg[p].token
      /\ intent[k].allowMissing = FALSE
  BY <1>3 DEF SameOperation
<1> QED
  BY <1>2, <1>3, <1>4, <1>5 DEF TokenLeg

LEMMA OpenEndRemembers ==
  ASSUME Together, Remembers, NEW p \in Callers, OpenEnds(p), phase # "dead"
  PROVE  Remembers'
<1>1. /\ job[p] = "open" /\ Return(p) /\ phase' \in {"open", "refused"}
      /\ UNCHANGED <<reserveRevision, settled, refunded, closing, asked>>
  BY DEF OpenEnds, flags
<1>2. /\ pc[p] # "idle" /\ pc'[p] = "idle" /\ \A c \in Proc \ {p} : pc'[c] = pc[c] /\ arg'[c] = arg[c]
      /\ UNCHANGED <<status, intent, appliedDelta, appliedToken>>
  BY <1>1, ReturnShape, RowsStay
<1>3. phase = "opening" /\ OpenJob(p)
  BY <1>1, JobTypes DEF JobOK, OpenJob
<1>4. ~closing /\ ~refunded /\ AheadOK /\ reserveRevision = 0
  BY <1>3 DEF Together, SessionInv, PhaseOK, Remembers, AheadOK
<1>5. AheadOK' /\ FinalsOK'
  BY <1>1, <1>2, <1>4, NotClosing DEF AheadOK
<1>6. CASE phase' = "refused"
  BY <1>1, <1>4, <1>5, <1>6 DEF Remembers, Underway
<1>7. CASE phase' = "open"
  <2>1. pc[p] = "ok" /\ consumed' = arg[p].funding /\ tokenConsumed' = arg[p].token
    BY <1>7 DEF OpenEnds, OpenedWith
  <2>2. PICK q \in Amounts, e \in Amounts \cup {0} : arg[p] = PreConsumeInput(q, e)
    BY <1>2, <1>3 DEF OpenJob
  <2>3. arg[p].key = PreKey /\ arg[p].allowMissing = FALSE
    BY <2>2 DEF PreConsumeInput, Operation
  <2>4. /\ PreKey \in Keys /\ status[PreKey] = "applied"
        /\ appliedDelta[PreKey] = consumed' /\ appliedToken[PreKey] = tokenConsumed'
    BY <2>1, <2>3, TakenRow
  <2>5. appliedDelta[PreKey] \in Int /\ appliedToken[PreKey] \in Int
    BY <2>4 DEF Together, IInv, TypeOK
  <2>6. KnownKeys' = {PreKey}
    <3>1. 1 .. 0 = {}
      OBVIOUS
    <3> QED
      BY <1>1, <1>4, <3>1 DEF KnownKeys
  <2>7. \A f : f[PreKey] \in Int => SumFunctionOnSet(f, {PreKey}) = f[PreKey]
    <3>1. ASSUME NEW f, f[PreKey] \in Int
          PROVE  SumFunctionOnSet(f, {PreKey}) = f[PreKey]
      <4>1. IsFiniteSet({PreKey}) /\ PreKey \in {PreKey} /\ {PreKey} \ {PreKey} = {}
        BY FS_Singleton
      <4>2. SumFunctionOnSet(f, {PreKey}) = f[PreKey] + SumFunctionOnSet(f, {})
        BY <3>1, <4>1, SumTake
      <4> QED
        BY <3>1, <4>2, SumEmpty
    <3> QED
      BY <3>1
  <2>8. KnownOK'
    BY <1>2, <2>4, <2>5, <2>6, <2>7 DEF KnownOK
  <2> QED
    BY <1>5, <2>8 DEF Remembers
<1> QED
  BY <1>1, <1>6, <1>7

LEMMA ReserveEndRemembers ==
  ASSUME Together, Remembers, NEW p \in Callers, ReserveEnds(p), phase # "dead"
  PROVE  Remembers'
<1>1. /\ job[p] = "reserve" /\ Return(p)
      /\ UNCHANGED <<settled, refunded, closing, phase, asked>>
  BY DEF ReserveEnds, flags
<1>2. /\ pc[p] # "idle" /\ pc'[p] = "idle" /\ \A c \in Proc \ {p} : pc'[c] = pc[c] /\ arg'[c] = arg[c]
      /\ UNCHANGED <<status, intent, appliedDelta, appliedToken>>
  BY <1>1, ReturnShape, RowsStay
<1>3. ReserveJob(p) /\ ~closing /\ ~refunded /\ phase \notin {"new", "opening"}
  BY <1>1, JobTypes DEF JobOK, ReserveJob, Together, SessionInv, HoldingsOK, PhaseOK
<1>4. FinalsOK' /\ AheadOK
  BY <1>1, <1>3, NotClosing DEF Remembers
<1>5. CASE pc[p] # "ok"
  <2>1. UNCHANGED <<reserveRevision, consumed, tokenConsumed>>
    BY <1>5 DEF ReserveEnds, RevisionAfter, ConsumedAfter
  <2>2. Calm
    BY <1>1, <1>2, <2>1 DEF Calm, Underway
  <2> QED
    BY <1>1, <1>2, <2>2, OneMoves
<1>6. CASE pc[p] = "ok"
  <2> DEFINE k == ReserveKey(reserveRevision + 1)
  <2>1. /\ reserveRevision' = reserveRevision + 1
        /\ consumed' = consumed + arg[p].funding /\ tokenConsumed' = tokenConsumed + arg[p].token
    BY <1>6 DEF ReserveEnds, RevisionAfter, ConsumedAfter
  <2>2. PICK q \in Amounts : arg[p] = ReserveInput(reserveRevision + 1, q - preConsumed)
    BY <1>2, <1>3 DEF ReserveJob
  <2>3. arg[p].key = k /\ arg[p].allowMissing = FALSE
    BY <2>2 DEF ReserveInput, Operation
  <2>4. /\ k \in Keys /\ status[k] = "applied"
        /\ appliedDelta[k] = arg[p].funding /\ appliedToken[k] = arg[p].token
    BY <1>6, <2>3, TakenRow
  <2>5. KnownKeys' = KnownKeys \cup {k} /\ k \notin KnownKeys
    BY <2>1, KnownNext
  <2> HIDE DEF k
  <2>6. Underway' => KnownOK'
    BY <1>1, <1>2, <1>3, <2>1, <2>4, <2>5, KnownGrows DEF Remembers, Underway
  <2>7. AheadOK'
    <3>1. \A n \in Reserves : n > reserveRevision + 2 => n > reserveRevision + 1
      BY RevisionType DEF Reserves
    <3>2. reserveRevision' + 1 = reserveRevision + 2
      BY <2>1, RevisionType
    <3> QED
      BY <1>1, <1>2, <1>3, <1>4, <3>1, <3>2 DEF AheadOK
  <2> QED
    BY <1>4, <2>6, <2>7 DEF Remembers
<1> QED
  BY <1>5, <1>6

LEMMA NextRemembers ==
  ASSUME Together, Remembers, [SessionNext]_allVars
  PROVE  Remembers'
<1>1. ASSUME NEW p \in Callers, SessionCall(p)
      PROVE  Remembers'
  BY <1>1, OpenRemembers, ReserveRemembers, SettleRemembers, AttemptRemembers,
     SettleSubmitRemembers, RefundRemembers DEF SessionCall
<1>2. ASSUME NEW p \in Callers, SessionReturn(p), phase # "dead"
      PROVE  Remembers'
  BY <1>2, OpenEndRemembers, ReserveEndRemembers, SettleEndRemembers, RefundEndRemembers
     DEF SessionReturn
<1>3. ASSUME NEW p \in Proc, UNCHANGED sessionVars,
             \/ Apply(p) \/ Effect(p) \/ Crash(p) \/ Return(p)
             \/ p \in Runners /\ RunnerStep(p)
      PROVE  Remembers'
  <2>1. IInv
    BY DEF Together
  <2>2. RoundTrip(p)
    BY <1>3, <2>1, ApplyMoves, OtherMoves
  <2> QED
    BY <1>3, <2>2, RoundTripRemembers
<1>4. \A p : p \in Callers \/ p \in Runners => p \in Proc
  BY DEF Proc
<1> QED
  BY <1>1, <1>2, <1>3, <1>4, QuietRemembers DEF SessionNext, GoroutineStops

LEMMA InitRemembers ==
  ASSUME SessionInit
  PROVE  Remembers
<1>1. AheadOK
  BY SessionAssumption DEF SessionInit, Init, AheadOK
<1>2. FinalsOK
  BY KeyTypes DEF SessionInit, Init, FinalsOK
<1>3. ~Underway
  BY DEF SessionInit, Underway
<1> QED
  BY <1>1, <1>2, <1>3 DEF Remembers

(* The request paid what its rows took, and its final delta.                *)
LEMMA ChargeOf ==
  ASSUME Together, Remembers, closing
  PROVE  /\ NetCharge = consumed + appliedDelta[FinalKey]
         /\ consumed \in Int /\ appliedDelta[FinalKey] \in Int
<1>1. IsFiniteSet(KnownKeys) /\ KnownKeys \subseteq Keys /\ FinalKey \notin KnownKeys
  BY KnownFinite
<1>2. consumed = SumFunctionOnSet(appliedDelta, KnownKeys)
  BY DEF Remembers, Underway, KnownOK
<1>3. appliedDelta[FinalKey] \in Int /\ \A k \in KnownKeys : appliedDelta[k] \in Int
  BY <1>1, KeyTypes DEF Together, IInv, TypeOK
<1>4. NetCharge = SumFunctionOnSet(appliedDelta, KnownKeys) + appliedDelta[FinalKey]
  BY <1>1, <1>3, SumAdd DEF NetCharge
<1>5. consumed \in Int
  BY <1>1, <1>2, <1>3, SumType
<1> QED
  BY <1>2, <1>3, <1>4, <1>5

(* Whoever finalizes a request, the session, a retry of it or a runner      *)
(* after the node died, it has paid a quota Settle was called with, or      *)
(* nothing (settleWithEffect, Refund).                                     *)
THEOREM ChargesAreWhole == SessionSpec => []NetChargeIsWhole
<1>1. Together /\ Remembers => NetChargeIsWhole
  <2> SUFFICES ASSUME Together, Remembers
               PROVE  NetChargeIsWhole
    OBVIOUS
  <2>1. FinalsOK /\ EndsOK /\ RowOK(FinalKey)
    BY KeyTypes DEF Remembers, Together, SessionInv, IInv, RowsAndProcsAgree
  <2>2. status[FinalKey] = "applied" =>
          /\ closing /\ FinalOK(intent[FinalKey])
          /\ appliedDelta[FinalKey] = intent[FinalKey].funding
    BY <2>1 DEF FinalsOK, RowOK
  <2>3. ASSUME status[FinalKey] = "applied", intent[FinalKey].allowMissing
        PROVE  NetCharge = 0
    <3>1. appliedDelta[FinalKey] = -consumed
      BY <2>2, <2>3 DEF FinalOK
    <3> QED
      BY <2>2, <2>3, <3>1, ChargeOf
  <2>4. ASSUME status[FinalKey] = "applied", ~intent[FinalKey].allowMissing
        PROVE  NetCharge \in AskedQuotas
    <3>1. appliedDelta[FinalKey] + consumed \in AskedQuotas
      BY <2>2, <2>4 DEF FinalOK
    <3>2. NetCharge = appliedDelta[FinalKey] + consumed
      BY <2>2, <2>4, ChargeOf
    <3> QED
      BY <3>1, <3>2
  <2>5. ASSUME settled, status[FinalKey] = "none"
        PROVE  NetCharge \in AskedQuotas
    <3>1. closing /\ consumed \in AskedQuotas /\ appliedDelta[FinalKey] = 0
      BY <2>1, <2>5 DEF FinalsOK, RowOK
    <3>2. NetCharge = consumed
      BY <3>1, ChargeOf
    <3> QED
      BY <3>1, <3>2
  <2>6. settled => NetCharge \in AskedQuotas
    BY <2>1, <2>4, <2>5 DEF EndsOK
  <2>7. refunded => NetCharge = 0
    BY <2>1, <2>3 DEF EndsOK
  <2> QED
    BY <2>3, <2>4, <2>6, <2>7 DEF NetChargeIsWhole
<1>2. Together /\ Remembers /\ [SessionNext]_allVars => Together' /\ Remembers'
  BY NextTogether, NextRemembers
<1> QED
  BY <1>1, <1>2, InitTogether, InitRemembers, PTL DEF SessionSpec

-----------------------------------------------------------------------------
(* The rest of the session's state keeps its type.                         *)

FlagsTyped ==
  /\ trusted \in BOOLEAN /\ settled \in BOOLEAN /\ refunded \in BOOLEAN
  /\ settleInFlight \in BOOLEAN /\ refundInFlight \in BOOLEAN
  /\ locked \in BOOLEAN /\ released \in BOOLEAN /\ closing \in BOOLEAN
MoneyTyped == consumed \in Amounts \cup {0} /\ tokenConsumed \in Nat
AttemptsTyped == attempt \in [Callers -> 0 .. MaxAttempts - 1]
AskedTyped == asked \subseteq [quota: Amounts, effect: Effects]
FailedTyped ==
  \A f \in failedReserves : f.revision \in Reserves /\ f.row \in {"none", "pending", "applied", "manual"}

RestTyped == FlagsTyped /\ MoneyTyped /\ AttemptsTyped /\ AskedTyped /\ FailedTyped

(* What one step can do to it. *)
RestMoves ==
  /\ consumed' = consumed \/ ~refunded'
  /\ tokenConsumed' \in {tokenConsumed, 0} \/ ~refunded'
  /\ asked' = asked \/ \E q \in Amounts, e \in Effects : asked' = asked \cup {[quota |-> q, effect |-> e]}
  /\ \/ attempt' = attempt
     \/ \E p \in Callers : \/ attempt' = [attempt EXCEPT ![p] = 0]
                           \/ /\ attempt[p] + 1 < MaxAttempts
                              /\ attempt' = [attempt EXCEPT ![p] = @ + 1]
  /\ \/ failedReserves' \subseteq failedReserves
     \/ \E n \in Reserves, k \in Keys :
          failedReserves' = failedReserves \cup {[revision |-> n, row |-> status[k]]}

LEMMA CallMoves ==
  ASSUME Together, RestTyped, NEW p \in Callers, SessionCall(p)
  PROVE  FlagsTyped' /\ RestMoves
<1> USE DEF holdings, flags, course, calls
<1>1. FlagsTyped
  BY DEF RestTyped
<1>2. ASSUME NEW q \in Amounts, NEW trust \in BOOLEAN, OpenSession(p, q, trust)
      PROVE  FlagsTyped' /\ RestMoves
  BY <1>1, <1>2 DEF OpenSession, FlagsTyped, RestMoves
<1>3. ASSUME NEW q \in Amounts, Reserve(p, q)
      PROVE  FlagsTyped' /\ RestMoves
  BY <1>1, <1>3 DEF Reserve, FlagsTyped, RestMoves
<1>4. ASSUME NEW q \in Amounts, NEW e \in Effects, Settle(p, q, e)
      PROVE  FlagsTyped' /\ RestMoves
  BY <1>1, <1>4 DEF Settle, FlagsTyped, RestMoves
<1>5. CASE SettleFindsEnded(p)
  BY <1>1, <1>5 DEF SettleFindsEnded, FlagsTyped, RestMoves
<1>6. CASE SettleRefused(p)
  BY <1>1, <1>6 DEF SettleRefused, AttemptFails, FlagsTyped, RestMoves
<1>7. CASE SettleNothing(p)
  BY <1>1, <1>7 DEF SettleNothing, FlagsTyped, RestMoves
<1>8. CASE SettleSubmits(p)
  BY <1>1, <1>8 DEF SettleSubmits, FlagsTyped, RestMoves
<1>9. CASE Refund(p)
  BY <1>1, <1>9 DEF Refund, FlagsTyped, RestMoves
<1> QED
  BY <1>2, <1>3, <1>4, <1>5, <1>6, <1>7, <1>8, <1>9 DEF SessionCall

LEMMA ReturnMoves ==
  ASSUME Together, RestTyped, NEW p \in Callers, SessionReturn(p), phase # "dead"
  PROVE  FlagsTyped' /\ RestMoves
<1> USE DEF flags, course
<1>1. FlagsTyped
  BY DEF RestTyped
<1>2. CASE OpenEnds(p)
  <2>1. ~refunded
    <3>1. phase = "opening"
      BY <1>2, JobTypes DEF OpenEnds, JobOK, OpenJob
    <3> QED
      BY <3>1 DEF Together, SessionInv, PhaseOK
  <2>2. UNCHANGED <<flags, trusted, locked, released, closing, asked, attempt, failedReserves>>
    BY <1>2 DEF OpenEnds
  <2> QED
    BY <1>1, <2>1, <2>2 DEF FlagsTyped, RestMoves
<1>3. CASE ReserveEnds(p)
  <2>1. /\ job[p] = "reserve" /\ Return(p) /\ locked' = FALSE
        /\ UNCHANGED <<flags, trusted, released, closing, asked, attempt>>
        /\ \/ UNCHANGED failedReserves
           \/ failedReserves' = failedReserves \cup
                {[revision |-> reserveRevision + 1, row |-> status[arg[p].key]]}
    BY <1>3 DEF ReserveEnds
  <2>2. pc[p] # "idle" /\ ReserveJob(p) /\ ~refunded
    BY <2>1, ReturnShape, JobTypes DEF JobOK, ReserveJob, Together, SessionInv, HoldingsOK
  <2>3. reserveRevision + 1 \in Reserves
    BY <2>2, RevisionType DEF ReserveJob, Reserves
  <2>4. arg[p].key \in Keys
    BY <2>2, BusyArg DEF Together, Proc
  <2>5. FlagsTyped'
    BY <1>1, <2>1 DEF FlagsTyped
  <2> QED
    BY <2>1, <2>2, <2>3, <2>4, <2>5 DEF RestMoves
<1>4. CASE SettleEnds(p)
  BY <1>1, <1>4 DEF SettleEnds, AttemptFails, holdings, FlagsTyped, RestMoves
<1>5. CASE RefundEnds(p)
  BY <1>1, <1>5 DEF RefundEnds, FlagsTyped, RestMoves
<1> QED
  BY <1>2, <1>3, <1>4, <1>5 DEF SessionReturn

LEMMA RestKept ==
  ASSUME Together, RestTyped, Together', FlagsTyped', RestMoves
  PROVE  RestTyped'
<1>1. MoneyTyped'
  <2>1. ~refunded' => consumed' \in Amounts \cup {0} /\ tokenConsumed' \in Nat
    <3>1. ASSUME ~refunded'
          PROVE  consumed' \in Amounts \cup {0} /\ tokenConsumed' = TokenLegOf(consumed')
      BY <3>1 DEF Together, SessionInv, HoldingsOK
    <3> QED
      BY <3>1, AmountTypes DEF TokenLegOf
  <2> QED
    BY <2>1 DEF RestTyped, MoneyTyped, RestMoves
<1>2. AttemptsTyped'
  <2>1. AttemptsTyped /\ MaxAttempts \in Nat \ {0}
    BY SessionAssumption DEF RestTyped
  <2>2. ASSUME NEW p \in Callers, attempt' = [attempt EXCEPT ![p] = 0]
        PROVE  AttemptsTyped'
    BY <2>1, <2>2 DEF AttemptsTyped
  <2>3. ASSUME NEW p \in Callers, attempt[p] + 1 < MaxAttempts, attempt' = [attempt EXCEPT ![p] = @ + 1]
        PROVE  AttemptsTyped'
    BY <2>1, <2>3 DEF AttemptsTyped
  <2> QED
    BY <2>1, <2>2, <2>3 DEF RestMoves, AttemptsTyped
<1>3. AskedTyped'
  BY DEF RestTyped, AskedTyped, RestMoves
<1>4. FailedTyped'
  <2>1. \A k \in Keys : status[k] \in {"none", "pending", "applied", "manual"}
    BY DEF Together, IInv, TypeOK
  <2> QED
    BY <2>1 DEF RestTyped, FailedTyped, RestMoves
<1> QED
  BY <1>1, <1>2, <1>3, <1>4 DEF RestTyped

LEMMA NextTyped ==
  ASSUME Together, RestTyped, [SessionNext]_allVars
  PROVE  RestTyped'
<1>1. Together'
  BY NextTogether
<1>2. ASSUME NEW p \in Callers, SessionCall(p) \/ (SessionReturn(p) /\ phase # "dead")
      PROVE  RestTyped'
  BY <1>1, <1>2, CallMoves, ReturnMoves, RestKept
<1>3. CASE Release \/ NodeDies
  <2>1. FlagsTyped'
    BY <1>3 DEF Release, NodeDies, flags, RestTyped, FlagsTyped
  <2>2. RestMoves
    BY <1>3 DEF Release, NodeDies, holdings, calls, RestMoves
  <2> QED
    BY <1>1, <2>1, <2>2, RestKept
<1>4. CASE UNCHANGED sessionVars
  BY <1>4 DEF sessionVars, holdings, flags, course, calls, RestTyped, FlagsTyped, MoneyTyped,
     AttemptsTyped, AskedTyped, FailedTyped
<1> QED
  BY <1>2, <1>3, <1>4 DEF SessionNext, GoroutineStops, allVars

LEMMA InitTyped ==
  ASSUME SessionInit
  PROVE  RestTyped
<1>1. 0 \in 0 .. MaxAttempts - 1
  BY SessionAssumption
<1> QED
  BY <1>1 DEF SessionInit, RestTyped, FlagsTyped, MoneyTyped, AttemptsTyped, AskedTyped, FailedTyped

(* What the session remembers to have taken is what its rows took: it       *)
(* counts no reservation that did not happen, and of those that happened    *)
(* without its knowledge there is at most the one it would repeat under the *)
(* same key (preConsume, Reserve).                                         *)
THEOREM SessionRemembers == SessionSpec => []SessionKnowsItsRows
<1>1. Together /\ RestTyped /\ Remembers => SessionKnowsItsRows
  <2> SUFFICES ASSUME Together, RestTyped, Remembers
               PROVE  SessionKnowsItsRows
    OBVIOUS
  <2>1. {preConsumed, consumed, tokenConsumed} \subseteq Nat
    BY AmountTypes DEF RestTyped, MoneyTyped, Together, SessionInv, HoldingsOK
  <2>2. phase \in {"new", "opening", "open", "refused", "dead"} /\ reserveRevision \in 0 .. MaxReserves
    BY DEF Together, SessionInv, PhaseOK, HoldingsOK
  <2>3. {trusted, settled, refunded, settleInFlight, refundInFlight,
         locked, released, closing} \subseteq BOOLEAN
    BY DEF RestTyped, FlagsTyped
  <2>4. SessionTypeOK
    BY <2>1, <2>2, <2>3, JobTypes DEF SessionTypeOK, Jobs, RestTyped, AttemptsTyped,
       AskedTyped, FailedTyped
  <2>5. ASSUME phase = "open"
        PROVE  KnownOK
    BY <2>5 DEF Remembers, Underway
  <2>6. ~refunded => preConsumed = consumed
    BY DEF Together, SessionInv, HoldingsOK
  <2> QED
    BY <2>4, <2>5, <2>6 DEF SessionKnowsItsRows, Remembers, AheadOK, KnownOK
<1>2. Together /\ RestTyped /\ Remembers /\ [SessionNext]_allVars
        => Together' /\ RestTyped' /\ Remembers'
  BY NextTogether, NextTyped, NextRemembers
<1> QED
  BY <1>1, <1>2, InitTogether, InitTyped, InitRemembers, PTL DEF SessionSpec

=============================================================================

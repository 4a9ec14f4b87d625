---------------------------- MODULE BillingSettlement ----------------------------
(***************************************************************************)
(* The durable settlement store of model/billing_settlement.go: the table  *)
(* billing_settlements with one row per operation key, the balances its    *)
(* transactions move (user wallet, API token, task quota), and the         *)
(* processes that run ApplyBillingSettlementOnce over it: the goroutines   *)
(* of requests, and the retry runner of every node.                        *)
(*                                                                         *)
(* An application of an operation is several database round trips:         *)
(*   ensure   INSERT ... ON CONFLICT DO NOTHING, re-read, validate         *)
(*   apply    one transaction under the row lock of the record             *)
(*   mark     the guarded update that records a failed transaction         *)
(*   effect, log, usage   ProcessBillingSettlementEffect                   *)
(* so one action below is one round trip and processes interleave between  *)
(* them.  A round trip may fail, may commit without the caller learning    *)
(* it, and a process may die between any two of them.                      *)
(*                                                                         *)
(* One user, one token and the wallet source: users share no row but the   *)
(* ones of their own, and the subscription source is a leg of its own.     *)
(***************************************************************************)
EXTENDS Integers, FiniteSets, Functions

CONSTANTS
  Keys,         \* operation keys (unique index of billing_settlements)
  Inputs,       \* the BillingSettlementInput values the callers submit
  Callers,      \* goroutines of requests
  Runners,      \* one retry loop per node (StartBillingSettlementTaskRunner)
  Tasks,        \* asynchronous tasks whose quota an operation may move
  Requests,     \* request ids of pre-consume operations
  NoInput, NoTask, NoRequest, NoClaim,
  InitialWallet, InitialToken, InitialTaskQuota,
  UnlimitedToken,  \* Token.UnlimitedQuota
  SubscriptionClaim,  \* what a subscription pre-consume claims for its request
  MaxWallet     \* bound on the wallet reached by top-ups

Proc == Callers \cup Runners

(***************************************************************************)
(* An input: the operation key, the signed deltas, the task it is bound to *)
(* with the quota the task must still have, the pre-consume request it     *)
(* claims (with the source and amounts claimed), and its effect.           *)
(***************************************************************************)
InputType ==
  [key: Keys, funding: Int, token: Int, allowMissing: BOOLEAN,
   manualOnFailure: BOOLEAN, task: Tasks \cup {NoTask}, taskQuota: Int,
   request: Requests \cup {NoRequest}, claim: Int,
   payload: BOOLEAN, actual: BOOLEAN, quota: Int, updateUsage: BOOLEAN]

ASSUME InputsAssumption ==
  /\ Inputs \subseteq InputType
  /\ NoInput \notin InputType
  /\ NoTask \notin Tasks
  /\ NoRequest \notin Requests
  /\ NoClaim \notin Int

ASSUME BalanceAssumption ==
  /\ InitialWallet \in Nat
  /\ InitialToken \in Nat
  /\ InitialTaskQuota \in [Tasks -> Nat]
  /\ UnlimitedToken \in BOOLEAN
  /\ MaxWallet \in Nat
  /\ SubscriptionClaim \in Int
  /\ \A in \in Inputs : in.claim # SubscriptionClaim

(* The quota a task is left with is never negative: callers pass a target  *)
(* of 0 or of a metered quota (TaskQuotaTarget, service/task_billing.go).  *)
ASSUME TargetAssumption ==
  \A in \in Inputs : in.task # NoTask => in.taskQuota + in.funding >= 0

ASSUME ProcAssumption == Callers \cap Runners = {}

VARIABLES
  status,        \* [Keys -> "none" | "pending" | "applied" | "manual"]
  intent,        \* [Keys -> the input the row was inserted with]
  appliedDelta,  \* [Keys -> applied_funding_delta]
  appliedToken,  \* [Keys -> applied_token_delta]
  effectStatus,  \* [Keys -> "none" (stored as an empty string) | "pending" | "applied"]
  wallet,        \* User.Quota
  deposited,     \* history: everything credited to the wallet from outside
  tokenLive,     \* the token row exists
  tokenRemain, tokenUsed,  \* Token.RemainQuota, Token.UsedQuota
  taskQuota,     \* [Tasks -> Task.Quota]
  selection,     \* [Requests -> the claim stored in billing_pre_consume_selections]
  logRows,       \* [Keys -> rows of the log database carrying the key's receipt]
  usedQuota, requestCount,  \* User.UsedQuota, User.RequestCount
  pc, arg,       \* the program counter and input of every process
  permanent      \* whether the error a process is about to record is permanent

rowVars == <<status, intent, appliedDelta, appliedToken, effectStatus>>
balanceVars == <<wallet, deposited, tokenLive, tokenRemain, tokenUsed, taskQuota, selection>>
effectVars == <<logRows, usedQuota, requestCount>>
procVars == <<pc, arg, permanent>>
vars == <<rowVars, balanceVars, effectVars, procVars>>

Init ==
  /\ status = [k \in Keys |-> "none"]
  /\ intent = [k \in Keys |-> NoInput]
  /\ appliedDelta = [k \in Keys |-> 0]
  /\ appliedToken = [k \in Keys |-> 0]
  /\ effectStatus = [k \in Keys |-> "none"]
  /\ wallet = InitialWallet
  /\ deposited = 0
  /\ tokenLive = TRUE
  /\ tokenRemain = InitialToken
  /\ tokenUsed = 0
  /\ taskQuota = InitialTaskQuota
  /\ selection = [r \in Requests |-> NoClaim]
  /\ logRows = [k \in Keys |-> 0]
  /\ usedQuota = 0
  /\ requestCount = 0
  /\ pc = [p \in Proc |-> "idle"]
  /\ arg = [p \in Proc |-> NoInput]
  /\ permanent = [p \in Proc |-> FALSE]

Goto(p, label) == pc' = [pc EXCEPT ![p] = label]

-----------------------------------------------------------------------------
(* What a transaction decides from the rows it reads. *)

AnyOperation(stored, in) == TRUE  \* regression: a reused key is not compared

(* The retry of an operation must carry the financial fields of its row;   *)
(* the first persisted effect wins, and a row without pre-consume fields   *)
(* accepts an input that has them (rows written before they existed).      *)
SameOperation(stored, in) ==
  /\ stored.funding = in.funding
  /\ stored.token = in.token
  /\ stored.allowMissing = in.allowMissing
  /\ stored.manualOnFailure = in.manualOnFailure
  /\ stored.task = in.task
  /\ stored.taskQuota = in.taskQuota
  /\ stored.request # NoRequest =>
       stored.request = in.request /\ stored.claim = in.claim

OpenOrApplied(k) == status[k] \in {"pending", "applied"}  \* regression: no status re-check
OpenOrManual(k) == status[k] \in {"pending", "manual"}  \* regression: held rows are retried

(* The row is waiting to be applied. *)
Open(k) == status[k] = "pending"

AnyClaim(in) == TRUE  \* regression: the selection is not compared

(* One immutable funding source and amount per request. *)
ClaimHolds(in) ==
  in.request # NoRequest => selection[in.request] \in {NoClaim, in.claim}

(* The selection is inserted unless the request has one.                   *)
Claimed(in) ==
  [r \in Requests |-> IF r = in.request /\ selection[r] = NoClaim THEN in.claim ELSE selection[r]]

TokenMissing(in) == in.token # 0 /\ ~tokenLive /\ ~in.allowMissing

(* A missing token that may be missing takes no part in the operation.  A  *)
(* token deleted between the lookup and the update of a refund is treated  *)
(* as deleted right after the commit: the leg is recorded, and whether the *)
(* counters of the deleted token moved with it is not told apart.          *)
TokenDelta(in) == IF tokenLive THEN in.token ELSE 0

AnyTaskQuota(in) == TRUE  \* regression: no quota CAS on the task
TaskHolds(in) == in.task # NoTask => taskQuota[in.task] = in.taskQuota

AnyFunding(in) == TRUE  \* regression: UPDATE without quota >= ?
FundingCovers(in) == in.funding > 0 => wallet >= in.funding

TokenCovers(in) ==
  /\ TokenDelta(in) > 0 => UnlimitedToken \/ tokenRemain >= TokenDelta(in)
  /\ TokenDelta(in) < 0 => tokenUsed >= -TokenDelta(in)

(* Failures before the balance legs are retryable, those of the legs are   *)
(* permanent: an insufficient balance or a task that has moved on.         *)
TokenRetried(in) ==  \* regression: an insufficient token is retried
  ~ClaimHolds(in) \/ TokenMissing(in) \/ ~TokenCovers(in)
RetryableRefusal(in) == ~ClaimHolds(in) \/ TokenMissing(in)

PermanentRefusal(k, in) ==
  \/ ~SameOperation(intent[k], in)
  \/ /\ ~RetryableRefusal(in)
     /\ ~(TaskHolds(in) /\ FundingCovers(in) /\ TokenCovers(in))

Acceptable(k, in) == ~RetryableRefusal(in) /\ ~PermanentRefusal(k, in)

(* After a successful application a process goes on to the effect, if the  *)
(* caller carries one and the row owns it (BillingSettlementOwnsEffect).   *)
AfterApply(p, stored) ==
  IF arg[p].payload /\ stored.payload THEN "effect" ELSE "ok"

-----------------------------------------------------------------------------
(* ApplyBillingSettlementOnce, round trip by round trip. *)

(* A goroutine submits an operation. *)
Call(p, in) ==
  /\ p \in Callers
  /\ pc[p] = "idle"
  /\ Goto(p, "ensure")
  /\ arg' = [arg EXCEPT ![p] = in]
  /\ UNCHANGED <<rowVars, balanceVars, effectVars, permanent>>

(* The runner loads a pending row and replays it with the row's own input. *)
RunnerTake(p, k) ==
  /\ p \in Runners
  /\ pc[p] = "idle"
  /\ Open(k)
  /\ Goto(p, "ensure")
  /\ arg' = [arg EXCEPT ![p] = intent[k]]
  /\ UNCHANGED <<rowVars, balanceVars, effectVars, permanent>>

InsertRow(in) ==
  /\ status[in.key] = "none"
  /\ status' = [status EXCEPT ![in.key] = "pending"]
  /\ intent' = [intent EXCEPT ![in.key] = in]
  /\ UNCHANGED <<appliedDelta, appliedToken, effectStatus>>

(* The insert wins: the row is durable before any balance moves. *)
EnsureInserts(p) ==
  /\ pc[p] = "ensure"
  /\ InsertRow(arg[p])
  /\ Goto(p, "apply")
  /\ UNCHANGED <<balanceVars, effectVars, arg, permanent>>

(* The insert finds the row and the row is still open. *)
EnsureFindsPending(p) ==
  /\ pc[p] = "ensure"
  /\ Open(arg[p].key)
  /\ SameOperation(intent[arg[p].key], arg[p])
  /\ Goto(p, "apply")
  /\ UNCHANGED <<rowVars, balanceVars, effectVars, arg, permanent>>

(* The row was applied before: the replay reports success after it has     *)
(* made sure that the request's funding source is claimed.                 *)
EnsureFindsApplied(p) ==
  LET stored == intent[arg[p].key] IN
  /\ pc[p] = "ensure"
  /\ status[arg[p].key] = "applied"
  /\ SameOperation(stored, arg[p])
  /\ IF ClaimHolds(arg[p])
       THEN selection' = Claimed(arg[p]) /\ Goto(p, AfterApply(p, stored))
       ELSE UNCHANGED selection /\ Goto(p, "err")
  /\ UNCHANGED <<rowVars, wallet, deposited, tokenLive, tokenRemain, tokenUsed,
                 taskQuota, effectVars, arg, permanent>>

(* A reused key with other parameters, or a row held for manual review:    *)
(* an error that leaves the row as it is.                                  *)
EnsureRefuses(p) ==
  /\ pc[p] = "ensure"
  /\ status[arg[p].key] # "none"
  /\ \/ ~SameOperation(intent[arg[p].key], arg[p])
     \/ status[arg[p].key] = "manual"
  /\ Goto(p, "err")
  /\ UNCHANGED <<rowVars, balanceVars, effectVars, arg, permanent>>

(* The database fails; an insert may have been committed all the same. *)
EnsureFails(p) ==
  /\ pc[p] = "ensure"
  /\ InsertRow(arg[p]) \/ UNCHANGED rowVars
  /\ Goto(p, "err")
  /\ UNCHANGED <<balanceVars, effectVars, arg, permanent>>

(* The transaction moves every leg and closes the row, or nothing.  The    *)
(* process may not learn of the commit and then records it as a failure.   *)
ApplyCommits(p) ==
  LET in == arg[p]
      k == in.key
  IN
  /\ pc[p] = "apply"
  /\ Open(k)
  /\ Acceptable(k, in)
  /\ status' = [status EXCEPT ![k] = "applied"]
  /\ appliedDelta' = [appliedDelta EXCEPT ![k] = in.funding]
  /\ appliedToken' = [appliedToken EXCEPT ![k] = TokenDelta(in)]
  /\ effectStatus' =
       [effectStatus EXCEPT ![k] = IF intent[k].payload THEN "pending" ELSE "none"]
  /\ wallet' = wallet - in.funding
  /\ tokenRemain' = tokenRemain - TokenDelta(in)
  /\ tokenUsed' = tokenUsed + TokenDelta(in)
  /\ taskQuota' = [t \in Tasks |-> IF t = in.task THEN in.taskQuota + in.funding
                                   ELSE taskQuota[t]]
  /\ selection' = Claimed(in)
  /\ Goto(p, AfterApply(p, intent[k])) \/ Goto(p, "mark")
  /\ UNCHANGED <<intent, deposited, tokenLive, effectVars, arg, permanent>>

(* Another process applied the row since it was ensured. *)
ApplyFindsApplied(p) ==
  /\ pc[p] = "apply"
  /\ status[arg[p].key] = "applied"
  /\ SameOperation(intent[arg[p].key], arg[p])
  /\ Goto(p, AfterApply(p, intent[arg[p].key]))
  /\ UNCHANGED <<rowVars, balanceVars, effectVars, arg, permanent>>

(* A row held for review, or a leg that refuses: the transaction rolls     *)
(* back and the failure is recorded in a transaction of its own.           *)
ApplyRefuses(p) ==
  LET k == arg[p].key IN
  /\ pc[p] = "apply"
  /\ \/ status[k] = "manual"
     \/ Open(k) /\ ~Acceptable(k, arg[p])
  /\ Goto(p, "mark")
  /\ permanent' = [permanent EXCEPT ![p] =
                     status[k] = "manual" \/ PermanentRefusal(k, arg[p])]
  /\ UNCHANGED <<rowVars, balanceVars, effectVars, arg>>

(* The transaction is lost: deadlock victim, timeout, connection. *)
ApplyFails(p) ==
  /\ pc[p] = "apply"
  /\ Goto(p, "mark")
  /\ UNCHANGED <<rowVars, balanceVars, effectVars, arg, permanent>>

(* regression: the update of the failure is not guarded by the status *)
HeldUnguarded(k, isPermanent) ==
  IF intent[k].manualOnFailure \/ isPermanent
  THEN [status EXCEPT ![k] = "manual"] ELSE status

(* regression: the failure is written as a status nobody reads *)
HeldAsFailed(k, isPermanent) ==
  IF Open(k) /\ isPermanent THEN [status EXCEPT ![k] = "failed"] ELSE status

(* A permanent error, or any error of an operation that must not be        *)
(* retried, puts an open row on hold; other rows stay open.                *)
Held(k, isPermanent) ==
  IF Open(k) /\ (intent[k].manualOnFailure \/ isPermanent)
  THEN [status EXCEPT ![k] = "manual"] ELSE status

MarkFailure(p) ==
  /\ pc[p] = "mark"
  /\ status' = Held(arg[p].key, permanent[p])
  /\ Goto(p, "err")
  /\ permanent' = [permanent EXCEPT ![p] = FALSE]
  /\ UNCHANGED <<intent, appliedDelta, appliedToken, effectStatus,
                 balanceVars, effectVars, arg>>

(* The failure itself cannot be recorded; it is only logged. *)
MarkFails(p) ==
  /\ pc[p] = "mark"
  /\ Goto(p, "err")
  /\ permanent' = [permanent EXCEPT ![p] = FALSE]
  /\ UNCHANGED <<rowVars, balanceVars, effectVars, arg>>

-----------------------------------------------------------------------------
(* ProcessBillingSettlementEffect: the log first, in a database of its     *)
(* own, then the usage counters with the effect's claim.                   *)

UseActual(in) == in.actual \/ in.quota > 0

EffectQuota(k) ==
  IF UseActual(intent[k]) THEN intent[k].quota ELSE appliedDelta[k]

(* A negative amount is never projected onto the usage counters. *)
EffectRefused(k) == intent[k].updateUsage /\ EffectQuota(k) < 0

EffectLogs(k) == EffectQuota(k) # 0 \/ intent[k].actual

EffectCounts(k) ==
  intent[k].updateUsage /\ (EffectQuota(k) > 0 \/ intent[k].actual)

(* The runner scans for rows whose effect is still pending. *)
RunnerTakeEffect(p, k) ==
  /\ p \in Runners
  /\ pc[p] = "idle"
  /\ status[k] = "applied"
  /\ effectStatus[k] = "pending"
  /\ Goto(p, "effect")
  /\ arg' = [arg EXCEPT ![p] = intent[k]]
  /\ UNCHANGED <<rowVars, balanceVars, effectVars, permanent>>

EffectRead(p) ==
  LET k == arg[p].key IN
  /\ pc[p] = "effect"
  /\ Goto(p, IF effectStatus[k] # "pending" \/ EffectRefused(k) THEN "ok"
             ELSE IF EffectLogs(k) THEN "log" ELSE "usage")
  /\ UNCHANGED <<rowVars, balanceVars, effectVars, arg, permanent>>

(* regression: no receipt *)
AnotherLogRow(k) == [logRows EXCEPT ![k] = @ + 1]

(* One log row per operation key: the receipt is inserted with the row. *)
NewLogRows(k) == IF logRows[k] = 0 THEN [logRows EXCEPT ![k] = 1] ELSE logRows

EffectLog(p) ==
  /\ pc[p] = "log"
  /\ logRows' = NewLogRows(arg[p].key)
  /\ Goto(p, "usage")
  /\ UNCHANGED <<rowVars, balanceVars, usedQuota, requestCount, arg, permanent>>

AlwaysClaimed(k) == TRUE  \* regression: the claim is never won
EffectClaimed(k) == effectStatus[k] # "pending"

(* The counters move in the transaction that claims the effect; a process  *)
(* that finds it claimed has nothing left to do.                           *)
EffectUsage(p) ==
  LET k == arg[p].key IN
  /\ pc[p] = "usage"
  /\ IF EffectClaimed(k)
       THEN UNCHANGED <<effectStatus, usedQuota, requestCount>>
       ELSE /\ effectStatus' = [effectStatus EXCEPT ![k] = "applied"]
            /\ usedQuota' = usedQuota + IF EffectCounts(k) THEN EffectQuota(k) ELSE 0
            /\ requestCount' = requestCount + IF EffectCounts(k) THEN 1 ELSE 0
  /\ Goto(p, "ok")
  /\ UNCHANGED <<status, intent, appliedDelta, appliedToken, logRows,
                 balanceVars, arg, permanent>>

(* Any of the three round trips may fail; the operation stays applied and  *)
(* its effect pending.  A log whose commit was not acknowledged is there.  *)
EffectFails(p) ==
  /\ pc[p] \in {"effect", "log", "usage"}
  /\ \/ UNCHANGED logRows
     \/ pc[p] = "log" /\ logRows' = NewLogRows(arg[p].key)
  /\ Goto(p, "ok")
  /\ UNCHANGED <<rowVars, balanceVars, usedQuota, requestCount, arg, permanent>>

-----------------------------------------------------------------------------
(* A call returns; its process is free again. *)
Return(p) ==
  /\ pc[p] \in {"ok", "err"}
  /\ Goto(p, "idle")
  /\ arg' = [arg EXCEPT ![p] = NoInput]
  /\ UNCHANGED <<rowVars, balanceVars, effectVars, permanent>>

(* The process dies between two round trips; the rows remain. *)
Crash(p) ==
  /\ pc[p] # "idle"
  /\ Goto(p, "idle")
  /\ arg' = [arg EXCEPT ![p] = NoInput]
  /\ permanent' = [permanent EXCEPT ![p] = FALSE]
  /\ UNCHANGED <<rowVars, balanceVars, effectVars>>

(* The wallet is credited from outside (recharge, redemption, check-in). *)
TopUp ==
  /\ wallet < MaxWallet
  /\ wallet' = wallet + 1
  /\ deposited' = deposited + 1
  /\ UNCHANGED <<rowVars, tokenLive, tokenRemain, tokenUsed, taskQuota,
                 selection, effectVars, procVars>>

(* Another delivery of the request pays from the subscription: its         *)
(* transaction claims the same selection row.                              *)
SubscriptionClaims(r) ==
  /\ selection[r] = NoClaim
  /\ selection' = [selection EXCEPT ![r] = SubscriptionClaim]
  /\ UNCHANGED <<rowVars, wallet, deposited, tokenLive, tokenRemain, tokenUsed,
                 taskQuota, effectVars, procVars>>

(* The user deletes the token while operations are under way. *)
DeleteToken ==
  /\ tokenLive
  /\ tokenLive' = FALSE
  /\ UNCHANGED <<rowVars, wallet, deposited, tokenRemain, tokenUsed, taskQuota,
                 selection, effectVars, procVars>>

Apply(p) ==
  \/ EnsureInserts(p) \/ EnsureFindsPending(p) \/ EnsureFindsApplied(p)
  \/ EnsureRefuses(p) \/ EnsureFails(p)
  \/ ApplyCommits(p) \/ ApplyFindsApplied(p) \/ ApplyRefuses(p) \/ ApplyFails(p)
  \/ MarkFailure(p) \/ MarkFails(p)

Effect(p) ==
  \/ EffectRead(p) \/ EffectLog(p) \/ EffectUsage(p) \/ EffectFails(p)

RunnerStep(p) == \E k \in Keys : RunnerTake(p, k) \/ RunnerTakeEffect(p, k)

Environment == TopUp \/ DeleteToken \/ \E r \in Requests : SubscriptionClaims(r)

Next ==
  \/ \E p \in Callers, in \in Inputs : Call(p, in)
  \/ \E p \in Proc : RunnerStep(p) \/ Apply(p) \/ Effect(p) \/ Return(p) \/ Crash(p)
  \/ Environment

Spec == Init /\ [][Next]_vars

-----------------------------------------------------------------------------
(* Properties. *)

Labels == {"idle", "ensure", "apply", "mark", "effect", "log", "usage", "ok", "err"}

(* Every variable has its type, and the balances kept in unsigned business *)
(* terms are natural numbers. *)
TypeOK ==
  /\ status \in [Keys -> {"none", "pending", "applied", "manual"}]
  /\ intent \in [Keys -> Inputs \cup {NoInput}]
  /\ appliedDelta \in [Keys -> Int]
  /\ appliedToken \in [Keys -> Int]
  /\ effectStatus \in [Keys -> {"none", "pending", "applied"}]
  /\ wallet \in Int
  /\ deposited \in Nat
  /\ tokenLive \in BOOLEAN
  /\ tokenRemain \in Int
  /\ tokenUsed \in Int
  /\ taskQuota \in [Tasks -> Int]
  /\ selection \in [Requests -> Int \cup {NoClaim}]
  /\ logRows \in [Keys -> Nat]
  /\ usedQuota \in Int
  /\ requestCount \in Nat
  /\ pc \in [Proc -> Labels]
  /\ arg \in [Proc -> Inputs \cup {NoInput}]
  /\ permanent \in [Proc -> BOOLEAN]

(* What a row says of itself, by its status. *)
TokenLeg(k) ==
  \/ appliedToken[k] = intent[k].token
  \/ appliedToken[k] = 0 /\ intent[k].allowMissing

RowOK(k) ==
  /\ status[k] = "none" <=> intent[k] = NoInput
  /\ status[k] # "none" => intent[k].key = k
  /\ status[k] # "applied" =>
       appliedDelta[k] = 0 /\ appliedToken[k] = 0 /\ effectStatus[k] = "none" /\ logRows[k] = 0
  /\ status[k] = "applied" => appliedDelta[k] = intent[k].funding /\ TokenLeg(k)
  /\ status[k] = "applied" => (effectStatus[k] # "none" <=> intent[k].payload)
  /\ logRows[k] <= 1
  /\ logRows[k] = 1 => intent[k].payload
  /\ effectStatus[k] = "applied" /\ EffectLogs(k) => logRows[k] = 1

(* What a process knows of the row it works on, by the round trip it is at:*)
(* rows do not go back, so what it read earlier still holds in this much.  *)
ProcOK(p) ==
  LET k == arg[p].key IN
  /\ pc[p] # "idle" => arg[p] \in Inputs
  /\ pc[p] \in {"apply", "mark"} => status[k] # "none" /\ SameOperation(intent[k], arg[p])
  /\ pc[p] \in {"effect", "log", "usage", "ok"} =>
       status[k] = "applied" /\ SameOperation(intent[k], arg[p])
  /\ pc[p] \in {"effect", "log", "usage"} => intent[k].payload
  /\ pc[p] = "usage" /\ EffectLogs(k) => logRows[k] = 1

(* The inductive core of the safety properties: rows are self-consistent,  *)
(* and every process between two round trips holds an input that is that   *)
(* of the row, whoever inserted it (ApplyBillingSettlementOnce and         *)
(* ProcessBillingSettlementEffect).                                        *)
RowsAndProcsAgree == (\A k \in Keys : RowOK(k)) /\ (\A p \in Proc : ProcOK(p))

AppliedKeys == {k \in Keys : status[k] = "applied"}

(* The books balance: what left the wallet, the token and the quota of     *)
(* every task is exactly what the applied rows say, and the usage counters *)
(* are those of the applied effects, each row counted once, however often  *)
(* and by whomever its operation was retried and its effect projected, and *)
(* whether or not the commits were acknowledged                            *)
(* (ApplyBillingSettlementOnce, ProcessBillingSettlementEffect).           *)
BooksBalance ==
  /\ wallet + SumFunctionOnSet(appliedDelta, AppliedKeys) = InitialWallet + deposited
  /\ tokenUsed = SumFunctionOnSet(appliedToken, AppliedKeys)
  /\ tokenRemain + tokenUsed = InitialToken
  /\ \A t \in Tasks :
       taskQuota[t] = InitialTaskQuota[t] +
         SumFunctionOnSet(appliedDelta, {k \in AppliedKeys : intent[k].task = t})
  /\ LET counted == {k \in Keys : effectStatus[k] = "applied" /\ EffectCounts(k)}
     IN /\ requestCount = Cardinality(counted)
        /\ usedQuota = SumFunctionOnSet(
              [k \in Keys |-> IF k \in counted THEN EffectQuota(k) ELSE 0], counted)

(* Nothing is ever taken that was not there: no interleaving of charges    *)
(* overdraws the wallet or a limited token, no two refunds give back more  *)
(* of a token than was used, and no combination of the refund and the      *)
(* finalization of a task, which have different keys, takes its quota      *)
(* below zero (the guarded UPDATEs of applyFundingDeltaTx and              *)
(* applyTokenDeltaTx and the quota CAS of the task leg).                   *)
NeverOverdrawn ==
  /\ wallet >= 0
  /\ tokenUsed >= 0
  /\ ~UnlimitedToken => tokenRemain >= 0
  /\ \A t \in Tasks : taskQuota[t] >= 0

(* A caller that is told of success was charged or refunded exactly what   *)
(* it asked for, though another process may have done it, or another       *)
(* caller may have asked for something else under the same key.            *)
SuccessMeansApplied ==
  \A p \in Proc : pc[p] \in {"effect", "log", "usage", "ok"} =>
    LET k == arg[p].key IN
    /\ status[k] = "applied"
    /\ appliedDelta[k] = arg[p].funding
    /\ appliedToken[k] \in {arg[p].token, 0}
    /\ appliedToken[k] # arg[p].token => arg[p].allowMissing

(* The projection of an operation, spread over two databases, happens at   *)
(* most once and never ahead of the funds: no log row or counter without   *)
(* the balance mutation, at most one log row per operation, and no counter *)
(* before the log that explains it (ProcessBillingSettlementEffect).       *)
EffectFollowsFunds ==
  \A k \in Keys :
    /\ logRows[k] <= 1
    /\ logRows[k] = 1 => status[k] = "applied" /\ intent[k].payload
    /\ effectStatus[k] = "applied" =>
         /\ status[k] = "applied"
         /\ EffectLogs(k) => logRows[k] = 1

(* A request pays from one source: a request whose selection names the     *)
(* subscription, or a pre-consume of another amount, has no applied wallet *)
(* pre-consume, in whatever order concurrent deliveries of the request     *)
(* reach the database (claimBillingPreConsumeSourceTx).                    *)
OneSourcePerRequest ==
  \A r \in Requests, k \in AppliedKeys :
    intent[k].request = r => selection[r] = intent[k].claim

(* A row that reached an end is never touched again: an applied row keeps  *)
(* its deltas whatever late process replays or fails it, a row held for    *)
(* review is not applied behind the reviewer's back by a retry or runner   *)
(* (an explicit promotion is not an operation of this module), and the     *)
(* operation a key stands for is fixed when its row is inserted.           *)
RowsAreFrozen ==
  [][\A k \in Keys :
       /\ status[k] # "none" => intent'[k] = intent[k] /\ status'[k] # "none"
       /\ status[k] = "applied" =>
            /\ status'[k] = "applied"
            /\ appliedDelta'[k] = appliedDelta[k]
            /\ appliedToken'[k] = appliedToken[k]
       /\ status[k] = "manual" => status'[k] = "manual"]_vars

(* Balances move only with the row that accounts for them: a step that     *)
(* takes from the wallet, the token or a task closes exactly one open row  *)
(* and moves exactly that row's deltas; no other step moves them, except   *)
(* a credit from outside.                                                  *)
MovedBy(k) ==
  /\ status[k] = "pending" /\ status'[k] = "applied"
  /\ wallet - wallet' = intent[k].funding
  /\ appliedDelta'[k] = intent[k].funding
  /\ tokenUsed' - tokenUsed = appliedToken'[k]
  /\ tokenRemain - tokenRemain' = appliedToken'[k]
  /\ \A t \in Tasks :
       taskQuota'[t] = taskQuota[t] + IF t = intent[k].task THEN intent[k].funding ELSE 0
  /\ \A j \in Keys \ {k} : status'[j] = status[j]

MoneyMovesWithItsRow ==
  [][\/ UNCHANGED <<wallet, tokenRemain, tokenUsed, taskQuota>>
     \/ wallet' - wallet = deposited' - deposited /\ UNCHANGED <<status, tokenUsed, taskQuota>>
     \/ \E k \in Keys : MovedBy(k)]_vars

-----------------------------------------------------------------------------
(* Liveness.  Every runner keeps ticking and serves every row of its batch *)
(* (at most 100 rows are loaded, the model has fewer keys); a round trip   *)
(* that is tried again and again succeeds eventually, the transient errors *)
(* and crashes in between notwithstanding.  Nothing is assumed of callers. *)
RunnerFairness ==
  \A p \in Runners :
    /\ WF_vars(Apply(p) \/ Effect(p) \/ Return(p))
    /\ \A k \in Keys :
         /\ SF_vars(RunnerTake(p, k))
         /\ SF_vars(RunnerTakeEffect(p, k))
         /\ SF_vars(EnsureFindsPending(p) /\ arg[p].key = k)
         /\ SF_vars((ApplyCommits(p) \/ ApplyRefuses(p)) /\ arg[p].key = k)
         /\ SF_vars(MarkFailure(p) /\ permanent[p] /\ arg[p].key = k)
         /\ SF_vars(EffectRead(p) /\ arg[p].key = k)
         /\ SF_vars(EffectLog(p) /\ arg[p].key = k)
         /\ SF_vars(EffectUsage(p) /\ arg[p].key = k)

FairSpec == Spec /\ RunnerFairness

(* An interrupted operation is eventually applied or put on hold, even if  *)
(* its caller died, unless its own token leg needs a token that has been   *)
(* deleted: that is a retryable error, and the row is retried for ever.    *)
(* The deletion excuses no other row, neither one without a token leg nor  *)
(* a refund that may do without its token (ApplyBillingSettlementOnce).    *)
PendingIsResolved ==
  \A k \in Keys : status[k] = "pending" ~> (status[k] # "pending" \/ TokenMissing(intent[k]))

(* Every applied operation is eventually projected, unless its effect can  *)
(* never be (a negative amount for the counters).                          *)
EffectsLand ==
  \A k \in Keys : (effectStatus[k] = "pending" /\ ~EffectRefused(k)) ~> effectStatus[k] = "applied"

-----------------------------------------------------------------------------
(* The store implements the abstract ledger. *)
Outcome == [none |-> "none", pending |-> "open", applied |-> "done", manual |-> "held"]

Ledger == INSTANCE OnceLedger WITH
  InitialBalance <- InitialWallet,
  outcome <- [k \in Keys |-> Outcome[status[k]]],
  amount <- [k \in Keys |-> IF status[k] = "none" THEN 0 ELSE intent[k].funding],
  balance <- wallet

(* Every behaviour of the store, with its retries, races, lost commits and *)
(* crashes, is one of the ledger: a charge or refund is agreed once, takes *)
(* effect at most once and in one step, and never after it was put on hold.*)
ImplementsLedger == Ledger!LedgerSpec

=============================================================================

------------------------- MODULE BillingSettlementProofs -------------------------
(***************************************************************************)
(* Proofs about BillingSettlement, for every set of keys, inputs, callers, *)
(* runners, tasks and requests and every initial balance.                  *)
(***************************************************************************)
EXTENDS BillingSettlement, FiniteSetTheorems, TLAPS

-----------------------------------------------------------------------------
(* Inputs. *)

(* The fields of an input have their types. *)
LEMMA InputFields ==
  ASSUME NEW in \in Inputs
  PROVE  /\ in.key \in Keys
         /\ in.funding \in Int
         /\ in.token \in Int
         /\ in.taskQuota \in Int
         /\ in.claim \in Int
         /\ in.quota \in Int
         /\ in.request \in Requests \cup {NoRequest}
         /\ in # NoInput
BY InputsAssumption DEF InputType

(* The effective token delta and the claimed selection have their types. *)
LEMMA LegTypes ==
  ASSUME TypeOK, NEW in \in Inputs
  PROVE  /\ TokenDelta(in) \in Int
         /\ Claimed(in) \in [Requests -> Int \cup {NoClaim}]
<1>1. TokenDelta(in) \in Int
  BY InputFields DEF TokenDelta
<1>2. Claimed(in) \in [Requests -> Int \cup {NoClaim}]
  BY InputFields DEF Claimed, TypeOK
<1> QED
  BY <1>1, <1>2

(* The amount an effect projects is an integer. *)
LEMMA EffectType ==
  ASSUME TypeOK, NEW k \in Keys, intent[k] \in Inputs
  PROVE  EffectQuota(k) \in Int
BY InputFields DEF EffectQuota, TypeOK

-----------------------------------------------------------------------------
(* The inductive invariant. *)

IInv == TypeOK /\ RowsAndProcsAgree

LEMMA InitIInv == Init => IInv
<1> SUFFICES ASSUME Init PROVE IInv
  OBVIOUS
<1>1. TypeOK
  <2>1. taskQuota \in [Tasks -> Int]
    BY BalanceAssumption DEF Init
  <2>2. wallet \in Int /\ tokenRemain \in Int
    BY BalanceAssumption DEF Init
  <2>3. pc \in [Proc -> Labels] /\ arg \in [Proc -> Inputs \cup {NoInput}]
    BY DEF Init, Labels
  <2> QED
    BY <2>1, <2>2, <2>3 DEF Init, TypeOK
<1>2. \A k \in Keys : RowOK(k)
  <2> SUFFICES ASSUME NEW k \in Keys PROVE RowOK(k)
    OBVIOUS
  <2>1. /\ status[k] = "none" /\ intent[k] = NoInput
        /\ appliedDelta[k] = 0 /\ appliedToken[k] = 0
        /\ effectStatus[k] = "none" /\ logRows[k] = 0
    BY DEF Init
  <2> QED
    BY <2>1 DEF RowOK
<1>3. \A p \in Proc : ProcOK(p)
  BY DEF Init, ProcOK
<1> QED
  BY <1>1, <1>2, <1>3 DEF IInv, RowsAndProcsAgree

(* The input of a process that is not idle. *)
LEMMA BusyArg ==
  ASSUME IInv, NEW p \in Proc, pc[p] # "idle"
  PROVE  arg[p] \in Inputs /\ arg[p].key \in Keys
BY InputFields DEF IInv, RowsAndProcsAgree, ProcOK

-----------------------------------------------------------------------------
(* Every step keeps the types. *)

LEMMA TypeStep ==
  ASSUME IInv, [Next]_vars
  PROVE  TypeOK'
<1> USE DEF Goto, rowVars, balanceVars, effectVars, procVars
<1>0. TypeOK
  BY DEF IInv
<1>1. ASSUME NEW p \in Callers, NEW in \in Inputs, Call(p, in)
      PROVE  TypeOK'
  BY <1>0, <1>1 DEF TypeOK, Call, Proc, Labels
<1>2. ASSUME NEW p \in Proc, NEW k \in Keys, RunnerTake(p, k)
      PROVE  TypeOK'
  BY <1>0, <1>2 DEF TypeOK, RunnerTake, Labels
<1>3. ASSUME NEW p \in Proc, NEW k \in Keys, RunnerTakeEffect(p, k)
      PROVE  TypeOK'
  BY <1>0, <1>3 DEF TypeOK, RunnerTakeEffect, Labels
<1>4. ASSUME NEW p \in Proc, EnsureInserts(p)
      PROVE  TypeOK'
  <2>1. arg[p] \in Inputs /\ arg[p].key \in Keys
    BY <1>4, BusyArg DEF EnsureInserts
  <2> QED
    BY <1>0, <1>4, <2>1 DEF TypeOK, EnsureInserts, InsertRow, Labels
<1>5. ASSUME NEW p \in Proc,
             EnsureFindsPending(p) \/ EnsureRefuses(p) \/ ApplyFails(p)
      PROVE  TypeOK'
  BY <1>0, <1>5 DEF TypeOK, EnsureFindsPending, EnsureRefuses, ApplyFails, Labels
<1>6. ASSUME NEW p \in Proc, EnsureFindsApplied(p)
      PROVE  TypeOK'
  <2>1. arg[p] \in Inputs
    BY <1>6, BusyArg DEF EnsureFindsApplied
  <2>2. selection' \in [Requests -> Int \cup {NoClaim}]
    BY <1>0, <1>6, <2>1, LegTypes DEF EnsureFindsApplied, TypeOK
  <2> QED
    BY <1>0, <1>6, <2>2 DEF TypeOK, EnsureFindsApplied, AfterApply, Labels
<1>7. ASSUME NEW p \in Proc, EnsureFails(p)
      PROVE  TypeOK'
  <2>1. arg[p] \in Inputs /\ arg[p].key \in Keys
    BY <1>7, BusyArg DEF EnsureFails
  <2> QED
    BY <1>0, <1>7, <2>1 DEF TypeOK, EnsureFails, InsertRow, Labels
<1>8. ASSUME NEW p \in Proc, ApplyCommits(p)
      PROVE  TypeOK'
  <2> DEFINE in == arg[p]
  <2>1. in \in Inputs /\ in.key \in Keys /\ in.funding \in Int /\ in.taskQuota \in Int
    BY <1>8, BusyArg, InputFields DEF ApplyCommits
  <2>2. TokenDelta(in) \in Int /\ selection' \in [Requests -> Int \cup {NoClaim}]
    BY <1>0, <1>8, <2>1, LegTypes DEF ApplyCommits
  <2>3. taskQuota' \in [Tasks -> Int]
    BY <1>0, <1>8, <2>1 DEF ApplyCommits, TypeOK
  <2>4. wallet' \in Int /\ tokenRemain' \in Int /\ tokenUsed' \in Int
    BY <1>0, <1>8, <2>1, <2>2 DEF ApplyCommits, TypeOK
  <2>5. /\ status' \in [Keys -> {"none", "pending", "applied", "manual"}]
        /\ effectStatus' \in [Keys -> {"none", "pending", "applied"}]
        /\ pc' \in [Proc -> Labels]
    BY <1>0, <1>8, <2>1 DEF ApplyCommits, TypeOK, AfterApply, Labels
  <2>6. appliedDelta' \in [Keys -> Int] /\ appliedToken' \in [Keys -> Int]
    BY <1>0, <1>8, <2>1, <2>2 DEF ApplyCommits, TypeOK
  <2> QED
    BY <1>0, <1>8, <2>2, <2>3, <2>4, <2>5, <2>6 DEF TypeOK, ApplyCommits
<1>9. ASSUME NEW p \in Proc, ApplyFindsApplied(p)
      PROVE  TypeOK'
  BY <1>0, <1>9 DEF TypeOK, ApplyFindsApplied, AfterApply, Labels
<1>10. ASSUME NEW p \in Proc, ApplyRefuses(p)
       PROVE  TypeOK'
  <2>1. permanent' \in [Proc -> BOOLEAN]
    BY <1>0, <1>10, Zenon DEF TypeOK, ApplyRefuses
  <2> QED
    BY <1>0, <1>10, <2>1 DEF TypeOK, ApplyRefuses, Labels
<1>11. ASSUME NEW p \in Proc, MarkFailure(p) \/ MarkFails(p)
       PROVE  TypeOK'
  BY <1>0, <1>11 DEF TypeOK, MarkFailure, MarkFails, Held, Labels
<1>12. ASSUME NEW p \in Proc, EffectRead(p)
       PROVE  TypeOK'
  BY <1>0, <1>12 DEF TypeOK, EffectRead, Labels
<1>13. ASSUME NEW p \in Proc, EffectLog(p) \/ EffectFails(p)
       PROVE  TypeOK'
  BY <1>0, <1>13 DEF TypeOK, EffectLog, EffectFails, NewLogRows, Labels
<1>14. ASSUME NEW p \in Proc, EffectUsage(p)
       PROVE  TypeOK'
  <2> DEFINE k == arg[p].key
  <2>1. k \in Keys /\ intent[k] \in Inputs
    BY <1>0, <1>14, BusyArg, InputsAssumption DEF EffectUsage, IInv, RowsAndProcsAgree,
       ProcOK, RowOK, TypeOK
  <2>2. EffectQuota(k) \in Int
    BY <1>0, <2>1, EffectType
  <2>3. usedQuota' \in Int /\ requestCount' \in Nat
    BY <1>0, <1>14, <2>2 DEF TypeOK, EffectUsage
  <2> QED
    BY <1>0, <1>14, <2>1, <2>3 DEF TypeOK, EffectUsage, Labels
<1>15. ASSUME NEW p \in Proc, Return(p) \/ Crash(p)
       PROVE  TypeOK'
  BY <1>0, <1>15 DEF TypeOK, Return, Crash, Labels
<1>16. ASSUME Environment
       PROVE  TypeOK'
  <2>1. CASE TopUp
    BY <1>0, <2>1 DEF TypeOK, TopUp
  <2>2. CASE DeleteToken
    BY <1>0, <2>2 DEF TypeOK, DeleteToken
  <2>3. ASSUME NEW r \in Requests, SubscriptionClaims(r)
        PROVE  TypeOK'
    BY <1>0, <2>3, BalanceAssumption DEF TypeOK, SubscriptionClaims
  <2> QED
    BY <1>16, <2>1, <2>2, <2>3 DEF Environment
<1>17. CASE UNCHANGED vars
  BY <1>0, <1>17 DEF TypeOK, vars
<1> QED
  BY <1>1, <1>2, <1>3, <1>4, <1>5, <1>6, <1>7, <1>8, <1>9, <1>10, <1>11, <1>12,
     <1>13, <1>14, <1>15, <1>16, <1>17 DEF Next, RunnerStep, Apply, Effect

-----------------------------------------------------------------------------
(* Rows only go forward; what a process holds of its row stays true.       *)

RowAdvances(k) ==
  /\ status[k] # "none" => intent'[k] = intent[k] /\ status'[k] # "none"
  /\ status[k] = "applied" =>
       /\ status'[k] = "applied"
       /\ appliedDelta'[k] = appliedDelta[k]
       /\ appliedToken'[k] = appliedToken[k]
  /\ status[k] = "manual" => status'[k] = "manual"
  /\ logRows[k] = 1 => logRows'[k] = 1

Advance == \A k \in Keys : RowAdvances(k)

(* A process that does not move keeps its knowledge while rows advance. *)
LEMMA ProcKeeps ==
  ASSUME IInv, Advance, NEW q \in Proc, pc'[q] = pc[q], arg'[q] = arg[q]
  PROVE  ProcOK(q)'
<1>1. CASE pc[q] = "idle"
  BY <1>1 DEF ProcOK
<1>2. CASE pc[q] # "idle"
  <2> DEFINE k == arg[q].key
  <2>1. arg[q] \in Inputs /\ k \in Keys
    BY <1>2, BusyArg
  <2>2. ProcOK(q) /\ RowAdvances(k)
    BY <2>1 DEF IInv, RowsAndProcsAgree, Advance
  <2>3. arg'[q].key = k
    OBVIOUS
  <2>4. pc[q] \in {"apply", "mark", "effect", "log", "usage", "ok"} => intent'[k] = intent[k]
    BY <2>2 DEF ProcOK, RowAdvances
  <2>5. pc[q] = "usage" /\ EffectLogs(k)' => EffectLogs(k)
    BY <2>2, <2>4 DEF ProcOK, RowAdvances, EffectLogs, EffectQuota, UseActual
  <2>6. pc[q] \in {"apply", "mark"} =>
          status'[k] # "none" /\ SameOperation(intent'[k], arg'[q])
    BY <2>2, <2>4 DEF ProcOK, RowAdvances
  <2>7. pc[q] \in {"effect", "log", "usage", "ok"} =>
          status'[k] = "applied" /\ SameOperation(intent'[k], arg'[q])
    BY <2>2, <2>4 DEF ProcOK, RowAdvances
  <2>8. pc[q] \in {"effect", "log", "usage"} => intent'[k].payload
    BY <2>2, <2>4 DEF ProcOK
  <2>9. pc[q] = "usage" /\ EffectLogs(k)' => logRows'[k] = 1
    BY <2>2, <2>5 DEF ProcOK, RowAdvances
  <2> QED
    BY <2>1, <2>3, <2>6, <2>7, <2>8, <2>9 DEF ProcOK
<1> QED
  BY <1>1, <1>2

(* A step that leaves the rows and the log alone keeps every row. *)
LEMMA RowsKept ==
  ASSUME IInv, UNCHANGED <<rowVars, logRows>>
  PROVE  Advance /\ \A k \in Keys : RowOK(k)'
<1>1. Advance
  BY DEF Advance, RowAdvances, rowVars
<1>2. ASSUME NEW k \in Keys PROVE RowOK(k)'
  <2>1. RowOK(k)
    BY DEF IInv, RowsAndProcsAgree
  <2>2. EffectLogs(k)' <=> EffectLogs(k)
    BY DEF EffectLogs, EffectQuota, UseActual, rowVars
  <2> QED
    BY <2>1, <2>2 DEF RowOK, TokenLeg, rowVars
<1> QED
  BY <1>1, <1>2

-----------------------------------------------------------------------------
(* The steps that write a row. *)

RowsStep == Advance /\ \A k \in Keys : RowOK(k)'

(* An inserted row carries the input of the process that inserted it. *)
LEMMA InsertStep ==
  ASSUME IInv, NEW in \in Inputs, InsertRow(in), UNCHANGED logRows
  PROVE  RowsStep /\ status'[in.key] = "pending" /\ intent'[in.key] = in
<1>1. in.key \in Keys /\ in # NoInput
  BY InputFields
<1>2. status'[in.key] = "pending" /\ intent'[in.key] = in
  BY <1>1 DEF InsertRow, IInv, TypeOK
<1>3. ASSUME NEW k \in Keys \ {in.key}
      PROVE  status'[k] = status[k] /\ intent'[k] = intent[k]
  BY <1>1, <1>3 DEF InsertRow, IInv, TypeOK
<1>4. Advance
  BY <1>1, <1>3 DEF Advance, RowAdvances, InsertRow
<1>5. ASSUME NEW k \in Keys PROVE RowOK(k)'
  <2>1. RowOK(k)
    BY DEF IInv, RowsAndProcsAgree
  <2>2. CASE k = in.key
    BY <1>1, <1>2, <2>1, <2>2 DEF RowOK, InsertRow
  <2>3. CASE k # in.key
    <3>1. EffectLogs(k)' <=> EffectLogs(k)
      BY <1>3, <2>3 DEF EffectLogs, EffectQuota, UseActual, InsertRow
    <3> QED
      BY <1>3, <2>1, <2>3, <3>1 DEF RowOK, TokenLeg, InsertRow
  <2> QED
    BY <2>2, <2>3
<1> QED
  BY <1>2, <1>4, <1>5 DEF RowsStep

(* The transaction closes the row with the deltas of its own intent. *)
LEMMA CommitStep ==
  ASSUME IInv, NEW p \in Proc, ApplyCommits(p)
  PROVE  RowsStep /\ status'[arg[p].key] = "applied" /\ intent' = intent
<1> DEFINE in == arg[p]
           k == in.key
<1>1. in \in Inputs /\ k \in Keys /\ pc[p] = "apply"
  BY BusyArg DEF ApplyCommits
<1>2. SameOperation(intent[k], in) /\ status[k] = "pending"
  BY <1>1 DEF IInv, RowsAndProcsAgree, ProcOK, ApplyCommits, Open
<1>3. /\ status'[k] = "applied"
      /\ appliedDelta'[k] = in.funding
      /\ appliedToken'[k] = TokenDelta(in)
      /\ effectStatus'[k] = IF intent[k].payload THEN "pending" ELSE "none"
  BY <1>1 DEF ApplyCommits, IInv, TypeOK
<1>4. ASSUME NEW j \in Keys \ {k}
      PROVE  /\ status'[j] = status[j]
             /\ appliedDelta'[j] = appliedDelta[j]
             /\ appliedToken'[j] = appliedToken[j]
             /\ effectStatus'[j] = effectStatus[j]
  BY <1>1, <1>4 DEF ApplyCommits, IInv, TypeOK
<1>5. intent' = intent /\ logRows' = logRows /\ arg' = arg
  BY DEF ApplyCommits, effectVars
<1>6. Advance
  BY <1>1, <1>2, <1>3, <1>4, <1>5 DEF Advance, RowAdvances
<1>7. TokenLeg(k)'
  <2>1. CASE tokenLive
    BY <1>2, <1>3, <1>5, <2>1 DEF TokenLeg, TokenDelta, SameOperation
  <2>2. CASE ~tokenLive
    <3>1. in.token = 0 \/ in.allowMissing
      BY <2>2 DEF ApplyCommits, Acceptable, RetryableRefusal, TokenMissing
    <3>2. appliedToken'[k] = 0
      BY <1>3, <2>2 DEF TokenDelta
    <3>3. intent[k].token = in.token /\ intent[k].allowMissing = in.allowMissing
      BY <1>2 DEF SameOperation
    <3> QED
      BY <1>5, <3>1, <3>2, <3>3 DEF TokenLeg
  <2> QED
    BY <2>1, <2>2
<1>8. ASSUME NEW j \in Keys PROVE RowOK(j)'
  <2>1. RowOK(j)
    BY DEF IInv, RowsAndProcsAgree
  <2>2. CASE j = k
    <3>1. intent[k] # NoInput /\ intent[k].key = k /\ logRows[k] = 0
      BY <1>2, <2>1, <2>2, InputsAssumption DEF RowOK, IInv, TypeOK
    <3>2. appliedDelta'[k] = intent[k].funding
      BY <1>2, <1>3 DEF SameOperation
    <3> QED
      BY <1>3, <1>5, <1>7, <2>2, <3>1, <3>2 DEF RowOK
  <2>3. CASE j # k
    <3>1. EffectLogs(j)' <=> EffectLogs(j)
      BY <1>4, <1>5, <2>3 DEF EffectLogs, EffectQuota, UseActual
    <3> QED
      BY <1>4, <1>5, <2>1, <2>3, <3>1 DEF RowOK, TokenLeg
  <2> QED
    BY <2>2, <2>3
<1> QED
  BY <1>3, <1>5, <1>6, <1>8 DEF RowsStep

(* Recording a failure touches open rows only. *)
LEMMA MarkStep ==
  ASSUME IInv, NEW p \in Proc, MarkFailure(p)
  PROVE  RowsStep
<1> DEFINE k == arg[p].key
<1>1. arg[p] \in Inputs /\ k \in Keys
  BY BusyArg DEF MarkFailure
<1>2. /\ \A j \in Keys : status'[j] = status[j] \/ (status[j] = "pending" /\ status'[j] = "manual")
      /\ UNCHANGED <<intent, appliedDelta, appliedToken, effectStatus, logRows>>
  BY <1>1 DEF MarkFailure, Held, Open, effectVars, IInv, TypeOK
<1>3. Advance
  BY <1>2 DEF Advance, RowAdvances
<1>4. ASSUME NEW j \in Keys PROVE RowOK(j)'
  <2>1. RowOK(j)
    BY DEF IInv, RowsAndProcsAgree
  <2>2. EffectLogs(j)' <=> EffectLogs(j)
    BY <1>2 DEF EffectLogs, EffectQuota, UseActual
  <2> QED
    BY <1>2, <2>1, <2>2 DEF RowOK, TokenLeg
<1> QED
  BY <1>3, <1>4 DEF RowsStep

(* A log row is added for an applied row that owns an effect. *)
LEMMA LogStep ==
  ASSUME IInv, NEW k \in Keys, status[k] = "applied", intent[k].payload,
         UNCHANGED rowVars, logRows' = NewLogRows(k)
  PROVE  RowsStep /\ logRows'[k] = 1
<1>1. \A j \in Keys : RowOK(j)
  BY DEF IInv, RowsAndProcsAgree
<1>2. logRows'[k] = 1
  BY <1>1 DEF NewLogRows, RowOK, IInv, TypeOK
<1>3. \A j \in Keys \ {k} : logRows'[j] = logRows[j]
  BY DEF NewLogRows, IInv, TypeOK
<1>4. Advance
  BY <1>2, <1>3 DEF Advance, RowAdvances, rowVars
<1>5. ASSUME NEW j \in Keys PROVE RowOK(j)'
  <2>1. EffectLogs(j)' <=> EffectLogs(j)
    BY DEF EffectLogs, EffectQuota, UseActual, rowVars
  <2> QED
    BY <1>1, <1>2, <1>3, <2>1 DEF RowOK, TokenLeg, rowVars
<1> QED
  BY <1>2, <1>4, <1>5 DEF RowsStep

(* The counters move once the log is there. *)
LEMMA UsageStep ==
  ASSUME IInv, NEW p \in Proc, EffectUsage(p)
  PROVE  RowsStep
<1> DEFINE k == arg[p].key
<1>1. k \in Keys /\ pc[p] = "usage"
  BY BusyArg DEF EffectUsage
<1>2. /\ ProcOK(p)
      /\ \A j \in Keys : RowOK(j)
  BY DEF IInv, RowsAndProcsAgree
<1>3. UNCHANGED <<status, intent, appliedDelta, appliedToken, logRows>>
  BY DEF EffectUsage
<1>4. \A j \in Keys : \/ effectStatus'[j] = effectStatus[j]
                      \/ j = k /\ effectStatus[j] = "pending" /\ effectStatus'[j] = "applied"
  BY <1>1 DEF EffectUsage, EffectClaimed, IInv, TypeOK
<1>5. Advance
  BY <1>3 DEF Advance, RowAdvances
<1>6. ASSUME NEW j \in Keys PROVE RowOK(j)'
  <2>1. EffectLogs(j)' <=> EffectLogs(j)
    BY <1>3 DEF EffectLogs, EffectQuota, UseActual
  <2>2. EffectLogs(k) => logRows[k] = 1
    BY <1>1, <1>2 DEF ProcOK
  <2> QED
    BY <1>2, <1>3, <1>4, <2>1, <2>2 DEF RowOK, TokenLeg
<1> QED
  BY <1>5, <1>6 DEF RowsStep

-----------------------------------------------------------------------------
(* The step of one process keeps the rows, and leaves the process with     *)
(* knowledge that fits its new place.                                      *)

ProcStep(p) == RowsStep /\ ProcOK(p)' /\ \A q \in Proc \ {p} : pc'[q] = pc[q] /\ arg'[q] = arg[q]

LEMMA IdleSteps ==
  ASSUME IInv, NEW p \in Proc,
         \/ \E in \in Inputs : Call(p, in)
         \/ RunnerStep(p)
         \/ Return(p)
         \/ Crash(p)
  PROVE  ProcStep(p)
<1> USE DEF Goto
<1>1. RowsStep
  BY RowsKept DEF RowsStep, Call, RunnerStep, RunnerTake, RunnerTakeEffect, Return, Crash, effectVars
<1>2. \A q \in Proc \ {p} : pc'[q] = pc[q] /\ arg'[q] = arg[q]
  BY DEF Call, RunnerStep, RunnerTake, RunnerTakeEffect, Return, Crash, IInv, TypeOK
<1>3. CASE \E in \in Inputs : Call(p, in)
  BY <1>1, <1>2, <1>3 DEF ProcStep, ProcOK, Call, IInv, TypeOK
<1>4. ASSUME NEW k \in Keys, RunnerTake(p, k) \/ RunnerTakeEffect(p, k)
      PROVE  ProcStep(p)
  <2>1. RowOK(k)
    BY DEF IInv, RowsAndProcsAgree
  <2>2. intent[k] \in Inputs /\ intent[k].key = k /\ status'[k] = status[k] /\ intent' = intent
    BY <1>4, <2>1 DEF RunnerTake, RunnerTakeEffect, Open, RowOK, IInv, TypeOK, rowVars
  <2>3. arg'[p] = intent[k]
    BY <1>4 DEF RunnerTake, RunnerTakeEffect, IInv, TypeOK
  <2>4. CASE RunnerTake(p, k)
    <3>1. pc'[p] = "ensure"
      BY <2>4 DEF RunnerTake, IInv, TypeOK
    <3> QED
      BY <1>1, <1>2, <2>2, <2>3, <3>1 DEF ProcStep, ProcOK
  <2>5. CASE RunnerTakeEffect(p, k)
    <3>1. pc'[p] = "effect" /\ status[k] = "applied" /\ effectStatus[k] = "pending"
      BY <2>5 DEF RunnerTakeEffect, IInv, TypeOK
    <3>2. intent[k].payload
      BY <2>1, <3>1 DEF RowOK
    <3>3. SameOperation(intent[k], intent[k])
      BY DEF SameOperation
    <3> QED
      BY <1>1, <1>2, <2>2, <2>3, <3>1, <3>2, <3>3 DEF ProcStep, ProcOK
  <2> QED
    BY <1>4, <2>4, <2>5
<1>5. CASE Return(p) \/ Crash(p)
  <2>1. pc'[p] = "idle"
    BY <1>5 DEF Return, Crash, IInv, TypeOK
  <2> QED
    BY <1>1, <1>2, <2>1 DEF ProcStep, ProcOK
<1> QED
  BY <1>3, <1>4, <1>5 DEF RunnerStep

LEMMA EnsureSteps ==
  ASSUME IInv, NEW p \in Proc,
         \/ EnsureInserts(p) \/ EnsureFindsPending(p) \/ EnsureFindsApplied(p)
         \/ EnsureRefuses(p) \/ EnsureFails(p)
  PROVE  ProcStep(p)
<1> USE DEF Goto
<1> DEFINE k == arg[p].key
<1>1. arg[p] \in Inputs /\ k \in Keys /\ arg' = arg
  BY BusyArg DEF EnsureInserts, EnsureFindsPending, EnsureFindsApplied, EnsureRefuses, EnsureFails
<1>2. \A q \in Proc \ {p} : pc'[q] = pc[q] /\ arg'[q] = arg[q]
  BY <1>1
  DEF EnsureInserts, EnsureFindsPending, EnsureFindsApplied, EnsureRefuses, EnsureFails, IInv, TypeOK
<1>3. CASE EnsureInserts(p)
  <2>1. pc'[p] = "apply"
    BY <1>3 DEF EnsureInserts, IInv, TypeOK
  <2>2. RowsStep /\ status'[k] = "pending" /\ intent'[k] = arg[p]
    BY <1>1, <1>3, InsertStep DEF EnsureInserts, effectVars
  <2>3. SameOperation(intent'[k], arg[p])
    BY <2>2 DEF SameOperation
  <2> QED
    BY <1>1, <1>2, <2>1, <2>2, <2>3 DEF ProcStep, ProcOK
<1>4. CASE EnsureFindsPending(p)
  <2>1. pc'[p] = "apply" /\ status[k] = "pending" /\ SameOperation(intent[k], arg[p])
    BY <1>4 DEF EnsureFindsPending, Open, IInv, TypeOK
  <2>2. RowsStep /\ status' = status /\ intent' = intent
    BY <1>4, RowsKept DEF RowsStep, EnsureFindsPending, effectVars, rowVars
  <2> QED
    BY <1>1, <1>2, <2>1, <2>2 DEF ProcStep, ProcOK
<1>5. CASE EnsureFindsApplied(p)
  <2>1. /\ status[k] = "applied" /\ SameOperation(intent[k], arg[p])
        /\ pc'[p] \in {"effect", "ok", "err"}
        /\ pc'[p] = "effect" => intent[k].payload
    BY <1>5 DEF EnsureFindsApplied, AfterApply, IInv, TypeOK
  <2>2. RowsStep /\ status' = status /\ intent' = intent
    BY <1>5, RowsKept DEF RowsStep, EnsureFindsApplied, effectVars, rowVars
  <2> QED
    BY <1>1, <1>2, <2>1, <2>2 DEF ProcStep, ProcOK
<1>6. CASE EnsureRefuses(p)
  <2>1. pc'[p] = "err"
    BY <1>6 DEF EnsureRefuses, IInv, TypeOK
  <2>2. RowsStep
    BY <1>6, RowsKept DEF RowsStep, EnsureRefuses, effectVars
  <2> QED
    BY <1>1, <1>2, <2>1, <2>2 DEF ProcStep, ProcOK
<1>7. CASE EnsureFails(p)
  <2>1. pc'[p] = "err"
    BY <1>7 DEF EnsureFails, IInv, TypeOK
  <2>2. RowsStep
    BY <1>1, <1>7, InsertStep, RowsKept DEF RowsStep, EnsureFails, effectVars
  <2> QED
    BY <1>1, <1>2, <2>1, <2>2 DEF ProcStep, ProcOK
<1> QED
  BY <1>3, <1>4, <1>5, <1>6, <1>7

LEMMA ApplySteps ==
  ASSUME IInv, NEW p \in Proc,
         \/ ApplyCommits(p) \/ ApplyFindsApplied(p) \/ ApplyRefuses(p) \/ ApplyFails(p)
         \/ MarkFailure(p) \/ MarkFails(p)
  PROVE  ProcStep(p)
<1> USE DEF Goto
<1> DEFINE k == arg[p].key
<1>1. arg[p] \in Inputs /\ k \in Keys /\ arg' = arg
  BY BusyArg
  DEF ApplyCommits, ApplyFindsApplied, ApplyRefuses, ApplyFails, MarkFailure, MarkFails
<1>2. \A q \in Proc \ {p} : pc'[q] = pc[q] /\ arg'[q] = arg[q]
  BY <1>1
  DEF ApplyCommits, ApplyFindsApplied, ApplyRefuses, ApplyFails, MarkFailure, MarkFails, IInv, TypeOK
<1>3. ProcOK(p)
  BY DEF IInv, RowsAndProcsAgree
<1>4. CASE ApplyCommits(p)
  <2>1. pc[p] = "apply" /\ SameOperation(intent[k], arg[p])
    BY <1>3, <1>4 DEF ApplyCommits, ProcOK
  <2>2. pc'[p] \in {"effect", "ok", "mark"} /\ (pc'[p] = "effect" => intent[k].payload)
    BY <1>4 DEF ApplyCommits, AfterApply, IInv, TypeOK
  <2>3. RowsStep /\ status'[k] = "applied" /\ intent' = intent
    BY <1>4, CommitStep
  <2> QED
    BY <1>1, <1>2, <2>1, <2>2, <2>3 DEF ProcStep, ProcOK
<1>5. CASE ApplyFindsApplied(p)
  <2>1. /\ status[k] = "applied" /\ SameOperation(intent[k], arg[p])
        /\ pc'[p] \in {"effect", "ok"}
        /\ pc'[p] = "effect" => intent[k].payload
    BY <1>5 DEF ApplyFindsApplied, AfterApply, IInv, TypeOK
  <2>2. RowsStep /\ status' = status /\ intent' = intent
    BY <1>5, RowsKept DEF RowsStep, ApplyFindsApplied, effectVars, rowVars
  <2> QED
    BY <1>1, <1>2, <2>1, <2>2 DEF ProcStep, ProcOK
<1>6. CASE ApplyRefuses(p) \/ ApplyFails(p)
  <2>1. /\ status[k] # "none" /\ SameOperation(intent[k], arg[p])
        /\ pc'[p] = "mark"
    BY <1>3, <1>6 DEF ApplyRefuses, ApplyFails, ProcOK, IInv, TypeOK
  <2>2. RowsStep /\ status' = status /\ intent' = intent
    BY <1>6, RowsKept DEF RowsStep, ApplyRefuses, ApplyFails, effectVars, rowVars
  <2> QED
    BY <1>1, <1>2, <2>1, <2>2 DEF ProcStep, ProcOK
<1>7. CASE MarkFailure(p) \/ MarkFails(p)
  <2>1. pc'[p] = "err"
    BY <1>7 DEF MarkFailure, MarkFails, IInv, TypeOK
  <2>2. RowsStep
    BY <1>7, MarkStep, RowsKept DEF RowsStep, MarkFails, effectVars
  <2> QED
    BY <1>1, <1>2, <2>1, <2>2 DEF ProcStep, ProcOK
<1> QED
  BY <1>4, <1>5, <1>6, <1>7

LEMMA EffectSteps ==
  ASSUME IInv, NEW p \in Proc, Effect(p)
  PROVE  ProcStep(p)
<1> USE DEF Goto
<1> DEFINE k == arg[p].key
<1>1. arg[p] \in Inputs /\ k \in Keys /\ arg' = arg
  BY BusyArg DEF Effect, EffectRead, EffectLog, EffectUsage, EffectFails
<1>2. \A q \in Proc \ {p} : pc'[q] = pc[q] /\ arg'[q] = arg[q]
  BY <1>1 DEF Effect, EffectRead, EffectLog, EffectUsage, EffectFails, IInv, TypeOK
<1>3. /\ status[k] = "applied" /\ SameOperation(intent[k], arg[p]) /\ intent[k].payload
      /\ status' = status /\ intent' = intent
  BY DEF Effect, EffectRead, EffectLog, EffectUsage, EffectFails, rowVars, ProcOK,
     IInv, RowsAndProcsAgree
<1>4. CASE EffectRead(p)
  <2>1. pc'[p] \in {"ok", "log", "usage"} /\ (pc'[p] = "usage" => ~EffectLogs(k))
    BY <1>4 DEF EffectRead, IInv, TypeOK
  <2>2. RowsStep
    BY <1>4, RowsKept DEF RowsStep, EffectRead, effectVars
  <2>3. EffectLogs(k)' <=> EffectLogs(k)
    BY <1>1, <1>4 DEF EffectRead, EffectLogs, EffectQuota, UseActual, rowVars
  <2> QED
    BY <1>1, <1>2, <1>3, <2>1, <2>2, <2>3 DEF ProcStep, ProcOK
<1>5. CASE EffectLog(p)
  <2>1. pc'[p] = "usage"
    BY <1>5 DEF EffectLog, IInv, TypeOK
  <2>2. RowsStep /\ logRows'[k] = 1
    BY <1>1, <1>3, <1>5, LogStep DEF EffectLog
  <2> QED
    BY <1>1, <1>2, <1>3, <2>1, <2>2 DEF ProcStep, ProcOK
<1>6. CASE EffectUsage(p)
  <2>1. pc'[p] = "ok"
    BY <1>6 DEF EffectUsage, IInv, TypeOK
  <2>2. RowsStep
    BY <1>6, UsageStep
  <2> QED
    BY <1>1, <1>2, <1>3, <2>1, <2>2 DEF ProcStep, ProcOK
<1>7. CASE EffectFails(p)
  <2>1. pc'[p] = "ok"
    BY <1>7 DEF EffectFails, IInv, TypeOK
  <2>2. RowsStep
    BY <1>1, <1>3, <1>7, LogStep, RowsKept DEF RowsStep, EffectFails
  <2> QED
    BY <1>1, <1>2, <1>3, <2>1, <2>2 DEF ProcStep, ProcOK
<1> QED
  BY <1>4, <1>5, <1>6, <1>7 DEF Effect

-----------------------------------------------------------------------------
(* Every step keeps the invariant and lets rows only advance. *)

LEMMA NextStep ==
  ASSUME IInv, [Next]_vars
  PROVE  IInv' /\ Advance
<1>1. TypeOK'
  BY TypeStep
<1>2. ASSUME NEW p \in Proc, ProcStep(p)
      PROVE  RowsAndProcsAgree' /\ Advance
  <2>1. ASSUME NEW q \in Proc PROVE ProcOK(q)'
    <3>1. CASE q = p
      BY <1>2, <3>1 DEF ProcStep
    <3>2. CASE q # p
      <4>1. pc'[q] = pc[q] /\ arg'[q] = arg[q] /\ Advance
        BY <1>2, <3>2 DEF ProcStep, RowsStep
      <4> QED
        BY <4>1, ProcKeeps
    <3> QED
      BY <3>1, <3>2
  <2> QED
    BY <1>2, <2>1 DEF RowsAndProcsAgree, ProcStep, RowsStep
<1>3. CASE Environment \/ UNCHANGED vars
  <2>1. UNCHANGED <<rowVars, logRows>> /\ pc' = pc /\ arg' = arg
    BY <1>3 DEF Environment, TopUp, DeleteToken, SubscriptionClaims, vars, effectVars, procVars
  <2>2. Advance /\ \A k \in Keys : RowOK(k)'
    BY <2>1, RowsKept
  <2>3. \A q \in Proc : ProcOK(q)'
    BY <2>1, <2>2, ProcKeeps
  <2> QED
    BY <1>1, <2>2, <2>3 DEF IInv, RowsAndProcsAgree
<1>4. ASSUME NEW p \in Callers, NEW in \in Inputs, Call(p, in)
      PROVE  RowsAndProcsAgree' /\ Advance
  BY <1>2, <1>4, IdleSteps DEF Proc
<1>5. ASSUME NEW p \in Proc, RunnerStep(p) \/ Return(p) \/ Crash(p)
      PROVE  RowsAndProcsAgree' /\ Advance
  BY <1>2, <1>5, IdleSteps
<1>6. ASSUME NEW p \in Proc, Apply(p)
      PROVE  RowsAndProcsAgree' /\ Advance
  BY <1>2, <1>6, EnsureSteps, ApplySteps DEF Apply
<1>7. ASSUME NEW p \in Proc, Effect(p)
      PROVE  RowsAndProcsAgree' /\ Advance
  BY <1>2, <1>7, EffectSteps
<1> QED
  BY <1>1, <1>3, <1>4, <1>5, <1>6, <1>7 DEF Next, IInv

-----------------------------------------------------------------------------
(* Theorems. *)

(* The inductive invariant holds in every reachable state. *)
THEOREM Invariant == Spec => []IInv
<1>1. Init => IInv
  BY InitIInv
<1>2. IInv /\ [Next]_vars => IInv'
  BY NextStep
<1> QED
  BY <1>1, <1>2, PTL DEF Spec

(* Every variable of the store keeps its type. *)
THEOREM TypeCorrect == Spec => []TypeOK
<1>1. IInv => TypeOK
  BY DEF IInv
<1> QED
  BY <1>1, Invariant, PTL

(* Rows and the processes working on them agree, between any two round     *)
(* trips of ApplyBillingSettlementOnce and ProcessBillingSettlementEffect. *)
THEOREM RowsAgree == Spec => []RowsAndProcsAgree
<1>1. IInv => RowsAndProcsAgree
  BY DEF IInv
<1> QED
  BY <1>1, Invariant, PTL

(* A caller that is told of success was charged or refunded exactly what   *)
(* it asked for (the success returns of ApplyBillingSettlementOnce).       *)
THEOREM SuccessIsTrue == Spec => []SuccessMeansApplied
<1>1. IInv => SuccessMeansApplied
  <2> SUFFICES ASSUME IInv, NEW p \in Proc, pc[p] \in {"effect", "log", "usage", "ok"}
               PROVE  /\ status[arg[p].key] = "applied"
                      /\ appliedDelta[arg[p].key] = arg[p].funding
                      /\ appliedToken[arg[p].key] \in {arg[p].token, 0}
                      /\ appliedToken[arg[p].key] # arg[p].token => arg[p].allowMissing
    BY DEF SuccessMeansApplied
  <2> DEFINE k == arg[p].key
  <2>1. status[k] = "applied" /\ SameOperation(intent[k], arg[p])
    BY DEF IInv, RowsAndProcsAgree, ProcOK
  <2>2. k \in Keys
    BY BusyArg
  <2>3. appliedDelta[k] = intent[k].funding /\ TokenLeg(k)
    BY <2>1, <2>2 DEF IInv, RowsAndProcsAgree, RowOK
  <2> QED
    BY <2>1, <2>3 DEF SameOperation, TokenLeg
<1> QED
  BY <1>1, Invariant, PTL

(* No log row and no counter without the funds, at most one log row per    *)
(* operation, no counter before its log (ProcessBillingSettlementEffect).  *)
THEOREM EffectsFollow == Spec => []EffectFollowsFunds
<1>1. IInv => EffectFollowsFunds
  BY DEF IInv, RowsAndProcsAgree, RowOK, EffectFollowsFunds
<1> QED
  BY <1>1, Invariant, PTL

(* No late retry, failure record or reviewer-less replay changes a row     *)
(* that was applied or held, and no key ever changes its operation         *)
(* (ApplyBillingSettlementOnce, markBillingSettlementFailure).             *)
THEOREM Frozen == Spec => RowsAreFrozen
<1>1. IInv /\ [Next]_vars =>
        [\A k \in Keys :
           /\ status[k] # "none" => intent'[k] = intent[k] /\ status'[k] # "none"
           /\ status[k] = "applied" =>
                /\ status'[k] = "applied"
                /\ appliedDelta'[k] = appliedDelta[k]
                /\ appliedToken'[k] = appliedToken[k]
           /\ status[k] = "manual" => status'[k] = "manual"]_vars
  BY NextStep DEF Advance, RowAdvances
<1> QED
  BY <1>1, Invariant, PTL DEF Spec, RowsAreFrozen

-----------------------------------------------------------------------------
(* The money, on top of the inductive invariant: what moves a balance,    *)
(* that nothing is overdrawn, that a request has one source, and that the  *)
(* store implements OnceLedger.                                            *)

(* What a step can be, as far as rows and balances are concerned. *)

funds == <<wallet, tokenRemain, tokenUsed, taskQuota>>

Inserts == \E in \in Inputs : InsertRow(in) /\ UNCHANGED funds
Commits == \E p \in Proc : ApplyCommits(p)
Marks == \E p \in Proc : MarkFailure(p) /\ UNCHANGED funds
Rests == UNCHANGED <<status, intent, funds>>

(* Every step is one of these; the wallet is credited by TopUp alone. *)
LEMMA StepKinds ==
  ASSUME IInv, [Next]_vars
  PROVE  Inserts \/ Commits \/ Marks \/ TopUp \/ Rests
<1> USE DEF funds, rowVars, balanceVars, effectVars, procVars
<1>1. CASE UNCHANGED vars
  BY <1>1 DEF vars, Rests
<1>2. CASE \E p \in Callers, in \in Inputs : Call(p, in)
  BY <1>2 DEF Call, Rests
<1>3. CASE Environment
  BY <1>3 DEF Environment, DeleteToken, SubscriptionClaims, Rests
<1>4. ASSUME NEW p \in Proc, RunnerStep(p) \/ Return(p) \/ Crash(p)
      PROVE  Rests
  BY <1>4 DEF RunnerStep, RunnerTake, RunnerTakeEffect, Return, Crash, Rests
<1>5. ASSUME NEW p \in Proc, Effect(p)
      PROVE  Rests
  BY <1>5 DEF Effect, EffectRead, EffectLog, EffectUsage, EffectFails, Rests
<1>6. ASSUME NEW p \in Proc, EnsureInserts(p) \/ EnsureFails(p)
      PROVE  Inserts \/ Rests
  <2>1. arg[p] \in Inputs
    BY <1>6, BusyArg DEF EnsureInserts, EnsureFails
  <2> QED
    BY <1>6, <2>1 DEF EnsureInserts, EnsureFails, Inserts, Rests
<1>7. ASSUME NEW p \in Proc,
             \/ EnsureFindsPending(p) \/ EnsureFindsApplied(p) \/ EnsureRefuses(p)
             \/ ApplyFindsApplied(p) \/ ApplyRefuses(p) \/ ApplyFails(p) \/ MarkFails(p)
      PROVE  Rests
  BY <1>7 DEF EnsureFindsPending, EnsureFindsApplied, EnsureRefuses,
     ApplyFindsApplied, ApplyRefuses, ApplyFails, MarkFails, Rests
<1>8. ASSUME NEW p \in Proc, ApplyCommits(p) \/ MarkFailure(p)
      PROVE  Commits \/ Marks
  BY <1>8 DEF Commits, Marks, MarkFailure
<1> QED
  BY <1>1, <1>2, <1>3, <1>4, <1>5, <1>6, <1>7, <1>8 DEF Next, Apply

(* The row an insert adds is pending, and the others are as they were. *)
LEMMA InsertedRow ==
  ASSUME IInv, NEW in \in Inputs, InsertRow(in)
  PROVE  /\ in.key \in Keys
         /\ status[in.key] = "none" /\ status'[in.key] = "pending"
         /\ intent'[in.key] = in
         /\ \A j \in Keys \ {in.key} : status'[j] = status[j] /\ intent'[j] = intent[j]
BY InputFields DEF InsertRow, IInv, TypeOK

(* A failure is recorded on one open row or on none. *)
LEMMA MarkedRow ==
  ASSUME IInv, NEW p \in Proc, MarkFailure(p)
  PROVE  /\ intent' = intent
         /\ \/ status' = status
            \/ /\ arg[p].key \in Keys
               /\ status[arg[p].key] = "pending" /\ status'[arg[p].key] = "manual"
               /\ \A j \in Keys \ {arg[p].key} : status'[j] = status[j]
<1>1. arg[p].key \in Keys
  BY BusyArg DEF MarkFailure
<1> QED
  BY <1>1 DEF MarkFailure, Held, Open, IInv, TypeOK

-----------------------------------------------------------------------------
(* The transaction moves exactly the deltas of the row it closes. *)

LEMMA CommitMoves ==
  ASSUME IInv, NEW p \in Proc, ApplyCommits(p)
  PROVE  arg[p].key \in Keys /\ MovedBy(arg[p].key)
<1> DEFINE in == arg[p]
           k == in.key
<1>1. in \in Inputs /\ k \in Keys /\ pc[p] = "apply"
  BY BusyArg DEF ApplyCommits
<1>2. SameOperation(intent[k], in) /\ status[k] = "pending"
  BY <1>1 DEF IInv, RowsAndProcsAgree, ProcOK, ApplyCommits, Open
<1>3. /\ intent[k].funding = in.funding
      /\ intent[k].task = in.task
  BY <1>2 DEF SameOperation
<1>4. /\ in.funding \in Int /\ in.taskQuota \in Int /\ TokenDelta(in) \in Int
      /\ wallet \in Int /\ tokenUsed \in Int /\ tokenRemain \in Int
      /\ taskQuota \in [Tasks -> Int]
  BY <1>1, InputFields, LegTypes DEF IInv, TypeOK
<1>5. status'[k] = "applied" /\ appliedDelta'[k] = in.funding /\ appliedToken'[k] = TokenDelta(in)
  BY <1>1 DEF ApplyCommits, IInv, TypeOK
<1>6. \A j \in Keys \ {k} : status'[j] = status[j]
  BY <1>1 DEF ApplyCommits, IInv, TypeOK
<1>7. wallet - wallet' = in.funding
  BY <1>4 DEF ApplyCommits
<1>8. tokenUsed' - tokenUsed = TokenDelta(in) /\ tokenRemain - tokenRemain' = TokenDelta(in)
  BY <1>4 DEF ApplyCommits
<1>9. ASSUME NEW t \in Tasks
      PROVE  taskQuota'[t] = taskQuota[t] + IF t = in.task THEN in.funding ELSE 0
  <2>1. CASE t = in.task
    <3>1. taskQuota[t] = in.taskQuota
      BY <1>1, <2>1, InputsAssumption
      DEF ApplyCommits, Acceptable, PermanentRefusal, TaskHolds
    <3>2. taskQuota'[t] = in.taskQuota + in.funding
      BY <2>1 DEF ApplyCommits
    <3> QED
      BY <2>1, <3>1, <3>2
  <2>2. CASE t # in.task
    <3>1. taskQuota'[t] = taskQuota[t]
      BY <2>2 DEF ApplyCommits
    <3> QED
      BY <1>4, <2>2, <3>1
  <2> QED
    BY <2>1, <2>2
<1> QED
  BY <1>1, <1>2, <1>3, <1>5, <1>6, <1>7, <1>8, <1>9 DEF MovedBy

(* A step that moves a balance closes one open row and moves exactly that  *)
(* row's deltas, or is a credit from outside: no retry, runner or unknown  *)
(* outcome moves money twice (ApplyBillingSettlementOnce).                 *)
THEOREM MoneyMoves == Spec => MoneyMovesWithItsRow
<1>1. IInv /\ [Next]_vars =>
        [\/ UNCHANGED <<wallet, tokenRemain, tokenUsed, taskQuota>>
         \/ wallet' - wallet = deposited' - deposited /\ UNCHANGED <<status, tokenUsed, taskQuota>>
         \/ \E k \in Keys : MovedBy(k)]_vars
  <2> SUFFICES ASSUME IInv, [Next]_vars
               PROVE  \/ UNCHANGED funds
                      \/ wallet' - wallet = deposited' - deposited
                           /\ UNCHANGED <<status, tokenUsed, taskQuota>>
                      \/ \E k \in Keys : MovedBy(k)
    BY DEF funds
  <2>1. CASE Inserts \/ Marks \/ Rests
    BY <2>1 DEF Inserts, Marks, Rests
  <2>2. CASE Commits
    BY <2>2, CommitMoves DEF Commits
  <2>3. CASE TopUp
    BY <2>3 DEF TopUp, rowVars, IInv, TypeOK
  <2> QED
    BY <2>1, <2>2, <2>3, StepKinds
<1> QED
  BY <1>1, Invariant, PTL DEF Spec, MoneyMovesWithItsRow

-----------------------------------------------------------------------------
(* Nothing is overdrawn. *)

LEMMA CommitCovered ==
  ASSUME IInv, NeverOverdrawn, NEW p \in Proc, ApplyCommits(p)
  PROVE  NeverOverdrawn'
<1> DEFINE in == arg[p]
           k == in.key
<1>1. in \in Inputs /\ k \in Keys
  BY BusyArg DEF ApplyCommits
<1>2. FundingCovers(in) /\ TokenCovers(in)
  BY DEF ApplyCommits, Acceptable, PermanentRefusal
<1>3. /\ in.funding \in Int /\ TokenDelta(in) \in Int
      /\ wallet \in Int /\ tokenUsed \in Int /\ tokenRemain \in Int
  BY <1>1, InputFields, LegTypes DEF IInv, TypeOK
<1>4. wallet' >= 0
  BY <1>2, <1>3 DEF ApplyCommits, FundingCovers, NeverOverdrawn
<1>5. tokenUsed' >= 0
  BY <1>2, <1>3 DEF ApplyCommits, TokenCovers, NeverOverdrawn
<1>6. ~UnlimitedToken => tokenRemain' >= 0
  BY <1>2, <1>3 DEF ApplyCommits, TokenCovers, NeverOverdrawn
<1>7. ASSUME NEW t \in Tasks PROVE taskQuota'[t] >= 0
  <2>1. CASE t = in.task
    BY <1>1, <2>1, InputsAssumption, TargetAssumption DEF ApplyCommits
  <2>2. CASE t # in.task
    BY <2>2 DEF ApplyCommits, NeverOverdrawn
  <2> QED
    BY <2>1, <2>2
<1> QED
  BY <1>4, <1>5, <1>6, <1>7 DEF NeverOverdrawn

(* No interleaving of charges and refunds takes what was not there: wallet,*)
(* token and the quota of every task stay non-negative (the conditions of  *)
(* applyFundingDeltaTx and applyTokenDeltaTx, the quota CAS of the task).  *)
THEOREM NothingOverdrawn == Spec => []NeverOverdrawn
<1>1. Init => NeverOverdrawn
  BY BalanceAssumption DEF Init, NeverOverdrawn
<1>2. IInv /\ NeverOverdrawn /\ [Next]_vars => NeverOverdrawn'
  <2> SUFFICES ASSUME IInv, NeverOverdrawn, [Next]_vars
               PROVE  NeverOverdrawn'
    OBVIOUS
  <2>1. CASE Inserts \/ Marks \/ Rests
    BY <2>1 DEF Inserts, Marks, Rests, funds, NeverOverdrawn
  <2>2. CASE Commits
    BY <2>2, CommitCovered DEF Commits
  <2>3. CASE TopUp
    BY <2>3 DEF TopUp, NeverOverdrawn, IInv, TypeOK
  <2> QED
    BY <2>1, <2>2, <2>3, StepKinds
<1> QED
  BY <1>1, <1>2, Invariant, PTL DEF Spec

-----------------------------------------------------------------------------
(* One source per request. *)

(* A selection, once stored, stays. *)
LEMMA SelectionStays ==
  ASSUME IInv, [Next]_vars, NEW r \in Requests, selection[r] # NoClaim
  PROVE  selection'[r] = selection[r]
<1> USE DEF balanceVars
<1>1. ASSUME NEW in \in Inputs PROVE Claimed(in)[r] = selection[r]
  BY DEF Claimed
<1>2. ASSUME NEW p \in Proc, EnsureFindsApplied(p) \/ ApplyCommits(p)
      PROVE  selection'[r] = selection[r]
  <2>1. arg[p] \in Inputs
    BY <1>2, BusyArg DEF EnsureFindsApplied, ApplyCommits
  <2> QED
    BY <1>1, <1>2, <2>1 DEF EnsureFindsApplied, ApplyCommits
<1>3. ASSUME NEW p \in Proc, Apply(p) PROVE selection'[r] = selection[r]
  BY <1>2, <1>3 DEF Apply, EnsureInserts, EnsureFindsPending, EnsureRefuses, EnsureFails,
     ApplyFindsApplied, ApplyRefuses, ApplyFails, MarkFailure, MarkFails
<1>4. ASSUME NEW p \in Proc, RunnerStep(p) \/ Effect(p) \/ Return(p) \/ Crash(p)
      PROVE  selection'[r] = selection[r]
  BY <1>4 DEF RunnerStep, RunnerTake, RunnerTakeEffect, Return, Crash,
     Effect, EffectRead, EffectLog, EffectUsage, EffectFails
<1>5. CASE Environment
  BY <1>5 DEF Environment, TopUp, DeleteToken, SubscriptionClaims, IInv, TypeOK
<1>6. CASE \E p \in Callers, in \in Inputs : Call(p, in)
  BY <1>6 DEF Call
<1>7. CASE UNCHANGED vars
  BY <1>7 DEF vars
<1> QED
  BY <1>3, <1>4, <1>5, <1>6, <1>7 DEF Next

(* The transaction that closes a pre-consume finds or stores its claim. *)
LEMMA CommitClaims ==
  ASSUME IInv, NEW p \in Proc, ApplyCommits(p),
         NEW r \in Requests, intent[arg[p].key].request = r
  PROVE  selection'[r] = intent[arg[p].key].claim
<1> DEFINE in == arg[p]
           k == in.key
<1>1. in \in Inputs /\ k \in Keys /\ pc[p] = "apply"
  BY BusyArg DEF ApplyCommits
<1>2. SameOperation(intent[k], in)
  BY <1>1 DEF IInv, RowsAndProcsAgree, ProcOK
<1>3. in.request = r /\ intent[k].claim = in.claim /\ r # NoRequest
  BY <1>2, InputsAssumption DEF SameOperation
<1>4. selection[r] \in {NoClaim, in.claim}
  BY <1>3 DEF ApplyCommits, Acceptable, RetryableRefusal, ClaimHolds
<1>5. selection'[r] = Claimed(in)[r]
  BY DEF ApplyCommits
<1> QED
  BY <1>3, <1>4, <1>5 DEF Claimed

(* Whatever order the deliveries of a request and its subscription         *)
(* pre-consume reach the database in, an applied wallet pre-consume is the *)
(* one its request has selected (claimBillingPreConsumeSourceTx).          *)
THEOREM OneSource == Spec => []OneSourcePerRequest
<1>1. Init => OneSourcePerRequest
  BY DEF Init, OneSourcePerRequest, AppliedKeys
<1>2. IInv /\ OneSourcePerRequest /\ [Next]_vars => OneSourcePerRequest'
  <2> SUFFICES ASSUME IInv, OneSourcePerRequest, [Next]_vars,
                      NEW r \in Requests, NEW k \in Keys,
                      status'[k] = "applied", intent'[k].request = r
               PROVE  selection'[r] = intent'[k].claim
    BY DEF OneSourcePerRequest, AppliedKeys
  <2>1. CASE status[k] = "applied"
    <3>1. intent'[k] = intent[k] /\ intent[k] \in Inputs
      BY <2>1, NextStep DEF Advance, RowAdvances, IInv, TypeOK, RowsAndProcsAgree, RowOK
    <3>2. selection[r] = intent[k].claim /\ selection[r] # NoClaim
      BY <2>1, <3>1, InputFields, InputsAssumption DEF OneSourcePerRequest, AppliedKeys
    <3> QED
      BY <3>1, <3>2, SelectionStays
  <2>2. CASE status[k] # "applied"
    <3>1. CASE Commits
      <4>1. PICK p \in Proc : ApplyCommits(p)
        BY <3>1 DEF Commits
      <4>2. k = arg[p].key /\ intent' = intent
        BY <2>2, <4>1, CommitMoves DEF MovedBy, ApplyCommits
      <4> QED
        BY <4>1, <4>2, CommitClaims
    <3>2. CASE Inserts
      BY <2>2, <3>2, InsertedRow DEF Inserts
    <3>3. CASE Marks
      BY <2>2, <3>3, MarkedRow DEF Marks
    <3>4. CASE TopUp \/ Rests
      BY <2>2, <3>4 DEF TopUp, Rests, rowVars
    <3> QED
      BY <3>1, <3>2, <3>3, <3>4, StepKinds
  <2> QED
    BY <2>1, <2>2
<1> QED
  BY <1>1, <1>2, Invariant, PTL DEF Spec

-----------------------------------------------------------------------------
(* The store implements the ledger. *)

(* What a row shows of itself to the ledger. *)
LEMMA Outcomes ==
  /\ Outcome["none"] = "none"
  /\ Outcome["pending"] = "open"
  /\ Outcome["applied"] = "done"
  /\ Outcome["manual"] = "held"
BY DEF Outcome

out == [k \in Keys |-> Outcome[status[k]]]
amt == [k \in Keys |-> IF status[k] = "none" THEN 0 ELSE intent[k].funding]

(* An insert proposes the amount of its intent. *)
LEMMA InsertProposes ==
  ASSUME IInv, NEW in \in Inputs, InsertRow(in), UNCHANGED funds
  PROVE  in.key \in Keys /\ Ledger!Propose(in.key)
<1> DEFINE k == in.key
<1>1. /\ k \in Keys /\ status[k] = "none" /\ status'[k] = "pending" /\ intent'[k] = in
      /\ \A j \in Keys \ {k} : status'[j] = status[j] /\ intent'[j] = intent[j]
  BY InsertedRow
<1>2. out[k] = "none" /\ out' = [out EXCEPT ![k] = "open"]
  <2>1. \A j \in Keys : out'[j] = [out EXCEPT ![k] = "open"][j]
    BY <1>1, Outcomes DEF out
  <2> QED
    BY <1>1, <2>1, Outcomes DEF out
<1>3. amt'[k] = in.funding /\ in.funding \in Int
  BY <1>1, InputFields DEF amt
<1>4. amt' = [amt EXCEPT ![k] = amt'[k]]
  <2>1. \A j \in Keys : amt'[j] = [amt EXCEPT ![k] = amt'[k]][j]
    BY <1>1 DEF amt
  <2> QED
    BY <2>1 DEF amt
<1> QED
  BY <1>1, <1>2, <1>3, <1>4 DEF Ledger!Propose, out, amt, funds

(* A commit is one of the ledger. *)
LEMMA CommitRefines ==
  ASSUME IInv, NEW p \in Proc, ApplyCommits(p)
  PROVE  \E k \in Keys : Ledger!Commit(k)
<1> PICK k \in Keys : k = arg[p].key
  BY CommitMoves
<1>1. MovedBy(k) /\ intent' = intent
  BY CommitMoves DEF ApplyCommits
<1>2. /\ status[k] = "pending" /\ status'[k] = "applied"
      /\ \A j \in Keys \ {k} : status'[j] = status[j]
      /\ wallet - wallet' = intent[k].funding
  BY <1>1 DEF MovedBy
<1>3. out[k] = "open" /\ out' = [out EXCEPT ![k] = "done"]
  <2>1. \A j \in Keys : out'[j] = [out EXCEPT ![k] = "done"][j]
    BY <1>1, <1>2, Outcomes DEF out
  <2> QED
    BY <1>1, <1>2, <2>1, Outcomes DEF out
<1>4. amt' = amt /\ amt[k] = intent[k].funding
  BY <1>1, <1>2 DEF amt
<1>5. arg[p].funding = amt[k]
  <2>1. arg[p] \in Inputs /\ pc[p] = "apply"
    BY BusyArg DEF ApplyCommits
  <2> QED
    BY <1>4, <2>1 DEF IInv, RowsAndProcsAgree, ProcOK, SameOperation
<1>6. amt[k] > 0 => wallet >= amt[k]
  BY <1>5 DEF ApplyCommits, Acceptable, PermanentRefusal, FundingCovers
<1>7. wallet' = wallet - amt[k]
  BY <1>5 DEF ApplyCommits
<1> QED
  BY <1>3, <1>4, <1>6, <1>7 DEF Ledger!Commit, out, amt

(* Recording a failure holds the row, or shows nothing. *)
LEMMA MarkRefines ==
  ASSUME IInv, NEW p \in Proc, MarkFailure(p), UNCHANGED funds
  PROVE  (\E k \in Keys : Ledger!Hold(k)) \/ UNCHANGED <<out, amt, wallet>>
<1> DEFINE k == arg[p].key
<1>1. intent' = intent
  BY MarkedRow
<1>2. CASE status' = status
  BY <1>1, <1>2 DEF out, amt, funds
<1>3. CASE status' # status
  <2>1. /\ k \in Keys /\ status[k] = "pending" /\ status'[k] = "manual"
        /\ \A j \in Keys \ {k} : status'[j] = status[j]
    BY <1>3, MarkedRow
  <2>2. out[k] = "open" /\ out' = [out EXCEPT ![k] = "held"]
    <3>1. \A j \in Keys : out'[j] = [out EXCEPT ![k] = "held"][j]
      BY <2>1, Outcomes DEF out
    <3> QED
      BY <2>1, <3>1, Outcomes DEF out
  <2>3. amt' = amt
    BY <1>1, <2>1 DEF amt
  <2> QED
    BY <2>1, <2>2, <2>3 DEF Ledger!Hold, out, amt, funds
<1> QED
  BY <1>2, <1>3

(* Through retries, races, lost commits and crashes, a charge or refund is *)
(* agreed once, takes effect at most once, in one step, only if the wallet *)
(* covers it, and never after it was put on hold: the store implements the *)
(* ledger (ApplyBillingSettlementOnce, markBillingSettlementFailure).      *)
THEOREM StoreImplementsLedger == Spec => ImplementsLedger
<1>1. Init => Ledger!LedgerInit
  <2> SUFFICES ASSUME Init PROVE Ledger!LedgerInit
    OBVIOUS
  <2>1. out = [k \in Keys |-> "none"] /\ amt = [k \in Keys |-> 0] /\ wallet = InitialWallet
    BY Outcomes DEF Init, out, amt
  <2> QED
    BY <2>1 DEF Ledger!LedgerInit, out, amt
<1>2. IInv /\ [Next]_vars => [Ledger!LedgerNext]_(Ledger!ledgerVars)
  <2> SUFFICES ASSUME IInv, [Next]_vars
               PROVE  Ledger!LedgerNext \/ UNCHANGED <<out, amt, wallet>>
    BY DEF Ledger!ledgerVars, out, amt
  <2>1. CASE Inserts
    BY <2>1, InsertProposes DEF Inserts, Ledger!LedgerNext
  <2>2. CASE Commits
    <3>1. \E k \in Keys : Ledger!Commit(k)
      BY <2>2, CommitRefines DEF Commits
    <3> QED
      BY <3>1 DEF Ledger!LedgerNext
  <2>3. CASE Marks
    BY <2>3, MarkRefines DEF Marks, Ledger!LedgerNext
  <2>4. CASE TopUp
    <3>1. wallet' > wallet /\ UNCHANGED <<out, amt>>
      BY <2>4 DEF TopUp, rowVars, out, amt, IInv, TypeOK
    <3> QED
      BY <3>1 DEF Ledger!LedgerNext, Ledger!Credit, out, amt
  <2>5. CASE Rests
    BY <2>5 DEF Rests, funds, out, amt
  <2> QED
    BY <2>1, <2>2, <2>3, <2>4, <2>5, StepKinds
<1> QED
  BY <1>1, <1>2, Invariant, PTL DEF Spec, ImplementsLedger, Ledger!LedgerSpec

-----------------------------------------------------------------------------
(* Sums over finite sets of rows.  Induction over a finite set is had from *)
(* the well-foundedness of strict inclusion: a family of subsets has a     *)
(* smallest member, so a smallest counterexample is led to a contradiction.*)

(* The partial sums of f over the subsets of S, one element at a time.     *)
FirstOf(s) == CHOOSE x \in s : TRUE
SumAt(f, g, s) == IF s = {} THEN 0 ELSE f[FirstOf(s)] + g[s \ {FirstOf(s)}]
Sums(f, S, g) == g = [s \in SUBSET S |-> SumAt(f, g, s)]

(* A family of subsets of a finite set has a smallest member.              *)
LEMMA Smallest ==
  ASSUME NEW S, IsFiniteSet(S), NEW B \in SUBSET (SUBSET S), B # {}
  PROVE  \E T \in B : \A U \in B : U \subseteq T => U = T
<1>1. FiniteSubsetsOf(S) = SUBSET S
  BY FS_FiniteSubsetsOfFinite
<1>2. IsWellFoundedOn(StrictSubsetOrdering(S), SUBSET S)
  BY <1>1, FS_StrictSubsetOrderingWellFounded
<1>3. \E T \in B : \A U \in B : ~ (<<U, T>> \in StrictSubsetOrdering(S))
  BY <1>2, WFMin
<1> QED
  BY <1>3 DEF StrictSubsetOrdering

(* The element a fold takes first is one of the set. *)
LEMMA FirstIn == \A s : s # {} => FirstOf(s) \in s
BY DEF FirstOf

(* Two tables of the partial sums of f agree where both are defined. *)
LEMMA SumsAgree ==
  ASSUME NEW f, NEW S, IsFiniteSet(S), NEW T \in SUBSET S, NEW g, NEW h, Sums(f, S, g), Sums(f, T, h)
  PROVE  \A s \in SUBSET T : g[s] = h[s]
<1> DEFINE B == {s \in SUBSET T : g[s] # h[s]}
<1>1. SUFFICES ASSUME B # {} PROVE FALSE
  OBVIOUS
<1>2. PICK s \in B : \A u \in B : u \subseteq s => u = s
  <2>1. B \in SUBSET (SUBSET T) /\ IsFiniteSet(T)
    BY FS_Subset
  <2> HIDE DEF B
  <2> QED
    BY <1>1, <2>1, Smallest
<1>3. g[s] = SumAt(f, g, s) /\ h[s] = SumAt(f, h, s)
  BY DEF Sums
<1>4. CASE s = {}
  BY <1>3, <1>4 DEF SumAt
<1>5. CASE s # {}
  <2>1. s \ {FirstOf(s)} \in SUBSET T /\ s \ {FirstOf(s)} # s
    BY <1>5, FirstIn
  <2>2. g[s \ {FirstOf(s)}] = h[s \ {FirstOf(s)}]
    BY <1>2, <2>1
  <2> QED
    BY <1>3, <1>5, <2>2 DEF SumAt
<1> QED
  BY <1>4, <1>5

(* The partial sums over the subsets of a finite set exist. *)
LEMMA SumsExist ==
  ASSUME NEW f, NEW S, IsFiniteSet(S)
  PROVE  \E g : Sums(f, S, g)
<1> DEFINE B == {T \in SUBSET S : ~ \E g : Sums(f, T, g)}
<1>1. SUFFICES ASSUME B # {} PROVE FALSE
  OBVIOUS
<1>2. PICK T \in B : \A U \in B : U \subseteq T => U = T
  <2>1. B \in SUBSET (SUBSET S)
    OBVIOUS
  <2> HIDE DEF B
  <2> QED
    BY <1>1, <2>1, Smallest
<1> DEFINE G(U) == CHOOSE g : Sums(f, U, g)
           h == [s \in SUBSET T |-> SumAt(f, G(s \ {FirstOf(s)}), s)]
<1>3. \A U \in SUBSET T : U # T => Sums(f, U, G(U))
  BY <1>2
<1>4. ASSUME NEW s \in SUBSET T
      PROVE  h[s] = SumAt(f, h, s)
  <2>1. CASE s = {}
    BY <2>1 DEF SumAt
  <2>2. CASE s # {}
    <3> DEFINE u == s \ {FirstOf(s)}  v == u \ {FirstOf(u)}
    <3>1. u \in SUBSET T /\ u # T
      BY <2>2, FirstIn
    <3>2. Sums(f, u, G(u)) /\ IsFiniteSet(u)
      BY <1>3, <3>1, FS_Subset
    <3>3. G(u)[u] = h[u]
      <4>1. G(u)[u] = SumAt(f, G(u), u) /\ h[u] = SumAt(f, G(v), u)
        BY <3>1, <3>2 DEF Sums
      <4>2. CASE u = {}
        BY <4>1, <4>2 DEF SumAt
      <4>3. CASE u # {}
        <5>1. v \in SUBSET u /\ v # T
          BY <3>1, <4>3, FirstIn
        <5>2. Sums(f, v, G(v))
          BY <1>3, <3>1, <5>1
        <5> HIDE DEF G, u
        <5>3. G(u)[v] = G(v)[v]
          BY <3>2, <5>1, <5>2, SumsAgree
        <5> QED
          BY <4>1, <4>3, <5>3 DEF SumAt
      <4> QED
        BY <4>2, <4>3
    <3>4. h[s] = f[FirstOf(s)] + G(u)[u] /\ SumAt(f, h, s) = f[FirstOf(s)] + h[u]
      BY <2>2 DEF SumAt
    <3> QED
      BY <3>3, <3>4
  <2> QED
    BY <2>1, <2>2
<1>5. Sums(f, T, h)
  <2> DEFINE h2 == [s \in SUBSET T |-> SumAt(f, h, s)]
  <2>1. h2 = h
    <3> HIDE DEF G
    <3> QED BY <1>4
  <2> QED
    BY <2>1 DEF Sums
<1> QED
  BY <1>2, <1>5

(* The sum over a finite set, its first element taken out. *)
LEMMA SumFirst ==
  ASSUME NEW f, NEW S, IsFiniteSet(S)
  PROVE  SumFunctionOnSet(f, S) =
           IF S = {} THEN 0 ELSE f[FirstOf(S)] + SumFunctionOnSet(f, S \ {FirstOf(S)})
<1> DEFINE I(T) == CHOOSE g : Sums(f, T, g)
<1>1. \A T : SumFunctionOnSet(f, T) = I(T)[T]
  BY DEF SumFunctionOnSet, FoldFunctionOnSet, MapThenFoldSet, Sums, SumAt, FirstOf
<1>2. \A T \in SUBSET S : IsFiniteSet(T) /\ Sums(f, T, I(T))
  BY SumsExist, FS_Subset
<1> HIDE DEF I
<1>3. I(S)[S] = SumAt(f, I(S), S)
  BY <1>2 DEF Sums
<1>4. CASE S = {}
  BY <1>1, <1>3, <1>4 DEF SumAt
<1>5. CASE S # {}
  <2> DEFINE T == S \ {FirstOf(S)}
  <2>1. T \in SUBSET S
    OBVIOUS
  <2> HIDE DEF T
  <2>2. I(S)[T] = I(T)[T]
    BY <1>2, <2>1, SumsAgree
  <2> QED
    BY <1>1, <1>3, <1>5, <2>2 DEF SumAt, T
<1> QED
  BY <1>4, <1>5

(* Nothing adds up to zero, and integers to an integer. *)
LEMMA SumEmpty == \A f : SumFunctionOnSet(f, {}) = 0
BY SumFirst, FS_EmptySet

LEMMA SumType ==
  ASSUME NEW f, NEW S, IsFiniteSet(S), \A x \in S : f[x] \in Int
  PROVE  SumFunctionOnSet(f, S) \in Int
<1> DEFINE B == {T \in SUBSET S : SumFunctionOnSet(f, T) \notin Int}
<1>1. SUFFICES ASSUME B # {} PROVE FALSE
  OBVIOUS
<1>2. PICK T \in B : \A U \in B : U \subseteq T => U = T
  <2>1. B \in SUBSET (SUBSET S)
    OBVIOUS
  <2> HIDE DEF B
  <2> QED
    BY <1>1, <2>1, Smallest
<1>3. IsFiniteSet(T) /\ T # {}
  <2>1. T \in SUBSET S /\ SumFunctionOnSet(f, T) \notin Int
    OBVIOUS
  <2>2. SumFunctionOnSet(f, {}) \in Int
    BY SumEmpty
  <2> QED
    BY <2>1, <2>2, FS_Subset
<1>4. FirstOf(T) \in T
  BY <1>3, FirstIn
<1>5. SumFunctionOnSet(f, T \ {FirstOf(T)}) \in Int
  BY <1>2, <1>4
<1>6. SumFunctionOnSet(f, T) = f[FirstOf(T)] + SumFunctionOnSet(f, T \ {FirstOf(T)})
  BY <1>3, SumFirst
<1>7. f[FirstOf(T)] \in Int
  BY <1>4
<1>8. SumFunctionOnSet(f, T) \in Int
  BY <1>5, <1>6, <1>7
<1> QED
  BY <1>8

(* Any element can be the one taken out. *)
LEMMA SumTake ==
  ASSUME NEW f, NEW S, IsFiniteSet(S), \A x \in S : f[x] \in Int, NEW x \in S
  PROVE  SumFunctionOnSet(f, S) = f[x] + SumFunctionOnSet(f, S \ {x})
<1> DEFINE B == {T \in SUBSET S : \E y \in T : SumFunctionOnSet(f, T) # f[y] + SumFunctionOnSet(f, T \ {y})}
<1>1. SUFFICES ASSUME B # {} PROVE FALSE
  OBVIOUS
<1>2. PICK T \in B : \A U \in B : U \subseteq T => U = T
  <2>1. B \in SUBSET (SUBSET S)
    OBVIOUS
  <2> HIDE DEF B
  <2> QED
    BY <1>1, <2>1, Smallest
<1>3. PICK y \in T : SumFunctionOnSet(f, T) # f[y] + SumFunctionOnSet(f, T \ {y})
  OBVIOUS
<1>4. IsFiniteSet(T) /\ T # {} /\ FirstOf(T) \in T
  BY <1>3, FS_Subset, FirstIn
<1>5. SumFunctionOnSet(f, T) = f[FirstOf(T)] + SumFunctionOnSet(f, T \ {FirstOf(T)})
  BY <1>4, SumFirst
<1>6. y # FirstOf(T)
  BY <1>3, <1>5
<1> DEFINE a == FirstOf(T)
           W == (T \ {a}) \ {y}
<1>7. SumFunctionOnSet(f, T \ {a}) = f[y] + SumFunctionOnSet(f, W)
  <2>1. T \ {a} \in SUBSET S /\ T \ {a} \subseteq T /\ T \ {a} # T /\ y \in T \ {a}
    BY <1>4, <1>6
  <2> QED
    BY <1>2, <2>1
<1>8. SumFunctionOnSet(f, T \ {y}) = f[a] + SumFunctionOnSet(f, W)
  <2>1. T \ {y} \in SUBSET S /\ T \ {y} \subseteq T /\ T \ {y} # T /\ a \in T \ {y}
    BY <1>4, <1>6
  <2>2. (T \ {y}) \ {a} = W
    OBVIOUS
  <2> QED
    BY <1>2, <2>1, <2>2
<1>9. f[a] \in Int /\ f[y] \in Int
  BY <1>3, <1>4
<1>10. SumFunctionOnSet(f, W) \in Int
  <2>1. IsFiniteSet(W) /\ W \subseteq S
    BY FS_Subset
  <2> QED
    BY <2>1, SumType
<1> HIDE DEF W, a
<1> QED
  BY <1>3, <1>5, <1>7, <1>8, <1>9, <1>10 DEF a

(* Functions that agree on the set have the same sum. *)
LEMMA SumSame ==
  ASSUME NEW f, NEW g, NEW S, IsFiniteSet(S), \A x \in S : f[x] = g[x]
  PROVE  SumFunctionOnSet(f, S) = SumFunctionOnSet(g, S)
<1> DEFINE B == {T \in SUBSET S : SumFunctionOnSet(f, T) # SumFunctionOnSet(g, T)}
<1>1. SUFFICES ASSUME B # {} PROVE FALSE
  OBVIOUS
<1>2. PICK T \in B : \A U \in B : U \subseteq T => U = T
  <2>1. B \in SUBSET (SUBSET S)
    OBVIOUS
  <2> HIDE DEF B
  <2> QED
    BY <1>1, <2>1, Smallest
<1>3. IsFiniteSet(T) /\ T # {}
  BY FS_Subset, SumEmpty
<1>4. FirstOf(T) \in T
  BY <1>3, FirstIn
<1>5. SumFunctionOnSet(f, T \ {FirstOf(T)}) = SumFunctionOnSet(g, T \ {FirstOf(T)})
  BY <1>2, <1>4
<1>6. f[FirstOf(T)] = g[FirstOf(T)]
  BY <1>4
<1> QED
  BY <1>3, <1>5, <1>6, SumFirst

(* One element more, the others as they were. *)
LEMMA SumAdd ==
  ASSUME NEW f, NEW g, NEW S, IsFiniteSet(S), NEW k, k \notin S,
         \A x \in S : f[x] \in Int /\ g[x] = f[x], g[k] \in Int
  PROVE  SumFunctionOnSet(g, S \cup {k}) = SumFunctionOnSet(f, S) + g[k]
<1> DEFINE T == S \cup {k}
<1>1. IsFiniteSet(T) /\ k \in T /\ T \ {k} = S /\ \A x \in T : g[x] \in Int
  BY FS_AddElement
<1> HIDE DEF T
<1>2. SumFunctionOnSet(g, T) = g[k] + SumFunctionOnSet(g, S)
  BY <1>1, SumTake
<1>3. SumFunctionOnSet(g, S) = SumFunctionOnSet(f, S)
  BY SumSame
<1>4. SumFunctionOnSet(f, S) \in Int
  BY SumType
<1> QED
  BY <1>2, <1>3, <1>4 DEF T

-----------------------------------------------------------------------------
(* The books.                                                              *)

TaskKeys(t) == {k \in AppliedKeys : intent[k].task = t}
Counted == {k \in Keys : effectStatus[k] = "applied" /\ EffectCounts(k)}
CountedQuota == [k \in Keys |-> IF k \in Counted THEN EffectQuota(k) ELSE 0]

FundBooks ==
  /\ wallet + SumFunctionOnSet(appliedDelta, AppliedKeys) = InitialWallet + deposited
  /\ tokenUsed = SumFunctionOnSet(appliedToken, AppliedKeys)
  /\ tokenRemain + tokenUsed = InitialToken
  /\ \A t \in Tasks :
       taskQuota[t] = InitialTaskQuota[t] + SumFunctionOnSet(appliedDelta, TaskKeys(t))
UsageBooks ==
  /\ requestCount = Cardinality(Counted)
  /\ usedQuota = SumFunctionOnSet(CountedQuota, Counted)

(* Finitely many operations have been applied at any time, though the set  *)
(* of keys may be infinite.                                                *)
Books == IsFiniteSet(AppliedKeys) /\ FundBooks /\ UsageBooks

(* A step closes a row, or counts an effect, or the books do not see it.   *)
Counts == \E p \in Proc : EffectUsage(p)
Unseen ==
  /\ wallet' - wallet = deposited' - deposited
  /\ UNCHANGED <<tokenRemain, tokenUsed, taskQuota, effectStatus, usedQuota, requestCount>>
  /\ \A k \in Keys : status'[k] = "applied" <=> status[k] = "applied"

LEMMA BookKinds ==
  ASSUME IInv, [Next]_vars
  PROVE  Commits \/ Counts \/ Unseen
<1> USE DEF rowVars, balanceVars, effectVars, procVars
<1>0. wallet \in Int /\ deposited \in Int
  BY DEF IInv, TypeOK
<1> DEFINE Still == UNCHANGED <<wallet, deposited, tokenRemain, tokenUsed, taskQuota,
                                effectStatus, usedQuota, requestCount>>
<1>1. ASSUME Still, UNCHANGED status
      PROVE  Unseen
  BY <1>0, <1>1 DEF Unseen
<1>2. CASE UNCHANGED vars
  BY <1>1, <1>2 DEF vars
<1>3. CASE \E p \in Callers, in \in Inputs : Call(p, in)
  BY <1>1, <1>3 DEF Call
<1>4. CASE Environment
  <2>1. CASE TopUp
    BY <1>0, <2>1 DEF TopUp, Unseen
  <2> QED
    BY <1>1, <1>4, <2>1 DEF Environment, DeleteToken, SubscriptionClaims
<1>5. ASSUME NEW p \in Proc, RunnerStep(p) \/ Return(p) \/ Crash(p)
      PROVE  Unseen
  BY <1>1, <1>5 DEF RunnerStep, RunnerTake, RunnerTakeEffect, Return, Crash
<1>6. ASSUME NEW p \in Proc, Effect(p)
      PROVE  Counts \/ Unseen
  BY <1>1, <1>6 DEF Effect, EffectRead, EffectLog, EffectFails, Counts
<1>7. ASSUME NEW p \in Proc, EnsureInserts(p) \/ EnsureFails(p)
      PROVE  Unseen
  <2>1. Still
    BY <1>7 DEF EnsureInserts, EnsureFails, InsertRow
  <2>2. \A k \in Keys : status'[k] = "applied" <=> status[k] = "applied"
    BY <1>7 DEF EnsureInserts, EnsureFails, InsertRow, IInv, TypeOK
  <2> QED
    BY <1>0, <2>1, <2>2 DEF Unseen
<1>8. ASSUME NEW p \in Proc, MarkFailure(p)
      PROVE  Unseen
  <2>1. Still
    BY <1>8 DEF MarkFailure
  <2>2. \A k \in Keys : status'[k] = "applied" <=> status[k] = "applied"
    BY <1>8, MarkedRow
  <2> QED
    BY <1>0, <2>1, <2>2 DEF Unseen
<1>9. ASSUME NEW p \in Proc,
             \/ EnsureFindsPending(p) \/ EnsureFindsApplied(p) \/ EnsureRefuses(p)
             \/ ApplyFindsApplied(p) \/ ApplyRefuses(p) \/ ApplyFails(p) \/ MarkFails(p)
      PROVE  Unseen
  BY <1>1, <1>9 DEF EnsureFindsPending, EnsureFindsApplied, EnsureRefuses,
     ApplyFindsApplied, ApplyRefuses, ApplyFails, MarkFails
<1> QED
  BY <1>2, <1>3, <1>4, <1>5, <1>6, <1>7, <1>8, <1>9 DEF Next, Apply, Commits

(* Applied rows keep their deltas and their counted amounts. *)
LEMMA AppliedStay ==
  ASSUME IInv, [Next]_vars, NEW k \in AppliedKeys
  PROVE  /\ k \in Keys /\ k \in AppliedKeys' /\ intent'[k] = intent[k]
         /\ appliedDelta'[k] = appliedDelta[k] /\ appliedToken'[k] = appliedToken[k]
         /\ appliedDelta[k] \in Int /\ appliedToken[k] \in Int
         /\ EffectQuota(k)' = EffectQuota(k) /\ EffectQuota(k) \in Int
         /\ EffectCounts(k)' <=> EffectCounts(k)
<1>1. k \in Keys /\ status[k] = "applied"
  BY DEF AppliedKeys
<1>2. RowAdvances(k) /\ RowOK(k) /\ TypeOK
  BY <1>1, NextStep DEF Advance, IInv, RowsAndProcsAgree
<1>3. /\ status'[k] = "applied" /\ intent'[k] = intent[k]
      /\ appliedDelta'[k] = appliedDelta[k] /\ appliedToken'[k] = appliedToken[k]
  BY <1>1, <1>2 DEF RowAdvances
<1>4. intent[k] \in Inputs /\ appliedDelta[k] \in Int /\ appliedToken[k] \in Int
  BY <1>1, <1>2 DEF RowOK, TypeOK
<1>5. EffectQuota(k)' = EffectQuota(k) /\ EffectQuota(k) \in Int
  BY <1>1, <1>2, <1>3, <1>4, EffectType DEF EffectQuota, UseActual
<1>6. EffectCounts(k)' <=> EffectCounts(k)
  BY <1>3, <1>5 DEF EffectCounts
<1> QED
  BY <1>1, <1>3, <1>4, <1>5, <1>6 DEF AppliedKeys

LEMMA CountedApplied ==
  ASSUME IInv
  PROVE  Counted \subseteq AppliedKeys
BY DEF IInv, RowsAndProcsAgree, RowOK, Counted, AppliedKeys

LEMMA BalanceKept ==
  ASSUME NEW a \in Int, NEW b \in Int, NEW c \in Int, NEW d \in Int, NEW s \in Int, NEW i \in Int,
         a + s = i + c, b - a = d - c
  PROVE  b + s = i + d
OBVIOUS

(* What leaves one side of a balance is added to the other. *)
LEMMA Moved ==
  ASSUME NEW w \in Int, NEW v \in Int, NEW s \in Int, NEW d \in Int, NEW i \in Int, NEW e \in Int,
         w + s = i + e, w - v = d
  PROVE  v + (s + d) = i + e
OBVIOUS

(* Where no row is closed, what left the balances is what it was. *)
LEMMA FundsKept ==
  ASSUME IInv, Books, [Next]_vars, AppliedKeys' = AppliedKeys,
         wallet' - wallet = deposited' - deposited,
         UNCHANGED <<tokenRemain, tokenUsed, taskQuota>>
  PROVE  FundBooks'
<1>1. IsFiniteSet(AppliedKeys) /\ FundBooks
  BY DEF Books
<1>2. \A k \in AppliedKeys : /\ intent'[k] = intent[k]
                             /\ appliedDelta'[k] = appliedDelta[k]
                             /\ appliedToken'[k] = appliedToken[k]
                             /\ appliedDelta[k] \in Int
  BY AppliedStay
<1>3. SumFunctionOnSet(appliedDelta', AppliedKeys') = SumFunctionOnSet(appliedDelta, AppliedKeys)
  BY <1>1, <1>2, SumSame
<1>4. SumFunctionOnSet(appliedToken', AppliedKeys') = SumFunctionOnSet(appliedToken, AppliedKeys)
  BY <1>1, <1>2, SumSame
<1>5. ASSUME NEW t \in Tasks
      PROVE  SumFunctionOnSet(appliedDelta', TaskKeys(t)') = SumFunctionOnSet(appliedDelta, TaskKeys(t))
  <2>1. TaskKeys(t)' = TaskKeys(t)
    BY <1>2 DEF TaskKeys
  <2>2. IsFiniteSet(TaskKeys(t)) /\ \A k \in TaskKeys(t) : appliedDelta'[k] = appliedDelta[k]
    BY <1>1, <1>2, FS_Subset DEF TaskKeys
  <2> QED
    BY <2>1, <2>2, SumSame
<1>6. SumFunctionOnSet(appliedDelta, AppliedKeys) \in Int
  BY <1>1, <1>2, SumType
<1>7. /\ wallet \in Int /\ deposited \in Int /\ wallet' \in Int /\ deposited' \in Int
      /\ InitialWallet \in Int
  BY NextStep, BalanceAssumption DEF IInv, TypeOK
<1>8. wallet' + SumFunctionOnSet(appliedDelta', AppliedKeys') = InitialWallet + deposited'
  <2>1. PICK s : s = SumFunctionOnSet(appliedDelta, AppliedKeys)
    OBVIOUS
  <2>2. wallet + s = InitialWallet + deposited /\ s \in Int
    BY <1>1, <1>6, <2>1 DEF FundBooks
  <2>3. PICK w, d : w = wallet' /\ d = deposited'
    OBVIOUS
  <2>4. w \in Int /\ d \in Int /\ w - wallet = d - deposited
    BY <1>7, <2>3, Zenon
  <2>5. w + s = InitialWallet + d
    BY <1>7, <2>2, <2>4, BalanceKept
  <2> QED
    BY <1>3, <2>1, <2>3, <2>5
<1>9. /\ tokenUsed' = SumFunctionOnSet(appliedToken', AppliedKeys')
      /\ tokenRemain' + tokenUsed' = InitialToken
  BY <1>1, <1>4 DEF FundBooks
<1>10. \A t \in Tasks : taskQuota'[t] = InitialTaskQuota[t] +
                         SumFunctionOnSet(appliedDelta', TaskKeys(t)')
  BY <1>1, <1>5 DEF FundBooks
<1> QED
  BY <1>8, <1>9, <1>10 DEF FundBooks

(* The transaction that closes a row adds its deltas to the sums. *)
LEMMA FundsClosed ==
  ASSUME IInv, Books, [Next]_vars, NEW p \in Proc, ApplyCommits(p)
  PROVE  IsFiniteSet(AppliedKeys') /\ FundBooks'
<1>0. PICK k \in Keys : k = arg[p].key
  BY CommitMoves
<1>1. MovedBy(k) /\ intent' = intent /\ deposited' = deposited
  BY <1>0, CommitMoves DEF ApplyCommits
<1>2. IsFiniteSet(AppliedKeys) /\ FundBooks
  BY DEF Books
<1>3. k \notin AppliedKeys /\ AppliedKeys' = AppliedKeys \cup {k}
  BY <1>1 DEF MovedBy, AppliedKeys
<1>4. IsFiniteSet(AppliedKeys')
  BY <1>2, <1>3, FS_AddElement
<1>5. \A j \in AppliedKeys : /\ appliedDelta'[j] = appliedDelta[j]
                             /\ appliedToken'[j] = appliedToken[j]
                             /\ appliedDelta[j] \in Int /\ appliedToken[j] \in Int
  BY AppliedStay
<1>6. /\ appliedDelta'[k] \in Int /\ appliedToken'[k] \in Int
      /\ wallet \in Int /\ wallet' \in Int /\ tokenUsed \in Int /\ tokenUsed' \in Int
      /\ tokenRemain \in Int /\ tokenRemain' \in Int /\ deposited \in Int
      /\ InitialWallet \in Int
  BY NextStep, BalanceAssumption DEF IInv, TypeOK
<1>7. SumFunctionOnSet(appliedDelta', AppliedKeys') =
        SumFunctionOnSet(appliedDelta, AppliedKeys) + appliedDelta'[k]
  BY <1>2, <1>3, <1>5, <1>6, SumAdd
<1>8. SumFunctionOnSet(appliedToken', AppliedKeys') =
        SumFunctionOnSet(appliedToken, AppliedKeys) + appliedToken'[k]
  BY <1>2, <1>3, <1>5, <1>6, SumAdd
<1>9. wallet' + SumFunctionOnSet(appliedDelta', AppliedKeys') = InitialWallet + deposited'
  <2>1. PICK s \in Int : s = SumFunctionOnSet(appliedDelta, AppliedKeys)
    BY <1>2, <1>5, SumType
  <2>2. PICK d \in Int : d = appliedDelta'[k]
    BY <1>6
  <2>3. PICK w \in Int : w = wallet
    BY <1>6
  <2>4. PICK v \in Int : v = wallet'
    BY <1>6
  <2>5. w + s = InitialWallet + deposited
    BY <1>2, <2>1, <2>3 DEF FundBooks
  <2>6. w - v = d
    BY <1>1, <2>2, <2>3, <2>4 DEF MovedBy
  <2>7. v + (s + d) = InitialWallet + deposited
    BY <1>6, <2>5, <2>6, Moved
  <2> QED
    BY <1>1, <1>7, <2>1, <2>2, <2>4, <2>7
<1>10. tokenUsed' = SumFunctionOnSet(appliedToken', AppliedKeys')
  <2>1. tokenUsed = SumFunctionOnSet(appliedToken, AppliedKeys)
    BY <1>2 DEF FundBooks
  <2>2. tokenUsed' - tokenUsed = appliedToken'[k]
    BY <1>1 DEF MovedBy
  <2> QED
    BY <1>6, <1>8, <2>1, <2>2
<1>11. tokenRemain' + tokenUsed' = InitialToken
  <2>1. tokenRemain + tokenUsed = InitialToken
    BY <1>2 DEF FundBooks
  <2>2. tokenUsed' - tokenUsed = tokenRemain - tokenRemain'
    BY <1>1 DEF MovedBy
  <2> QED
    BY <1>6, <2>1, <2>2
<1>12. ASSUME NEW t \in Tasks
       PROVE  taskQuota'[t] = InitialTaskQuota[t] + SumFunctionOnSet(appliedDelta', TaskKeys(t)')
  <2> DEFINE s == SumFunctionOnSet(appliedDelta, TaskKeys(t))
  <2>1. IsFiniteSet(TaskKeys(t)) /\ k \notin TaskKeys(t)
    BY <1>2, <1>3, FS_Subset DEF TaskKeys
  <2>2. \A j \in TaskKeys(t) : appliedDelta[j] \in Int /\ appliedDelta'[j] = appliedDelta[j]
    BY <1>5 DEF TaskKeys
  <2>3. s \in Int
    BY <2>1, <2>2, SumType
  <2>4. taskQuota[t] = InitialTaskQuota[t] + s
    BY <1>2 DEF FundBooks
  <2>5. InitialTaskQuota[t] \in Int
    BY BalanceAssumption
  <2> HIDE DEF s
  <2>6. CASE intent[k].task = t
    <3>1. TaskKeys(t)' = TaskKeys(t) \cup {k}
      BY <1>1, <1>3, <2>6 DEF TaskKeys
    <3>2. SumFunctionOnSet(appliedDelta', TaskKeys(t)') = s + appliedDelta'[k]
      BY <1>6, <2>1, <2>2, <3>1, SumAdd DEF s
    <3>3. taskQuota'[t] = taskQuota[t] + appliedDelta'[k]
      BY <1>1, <2>6 DEF MovedBy
    <3> QED
      BY <1>6, <2>3, <2>4, <2>5, <3>2, <3>3
  <2>7. CASE intent[k].task # t
    <3>1. TaskKeys(t)' = TaskKeys(t)
      BY <1>1, <1>3, <2>7 DEF TaskKeys
    <3>2. SumFunctionOnSet(appliedDelta', TaskKeys(t)') = s
      BY <2>1, <2>2, <3>1, SumSame DEF s
    <3>3. taskQuota'[t] = taskQuota[t] + 0
      BY <1>1, <2>7 DEF MovedBy
    <3> QED
      BY <2>3, <2>4, <2>5, <3>2, <3>3
  <2> QED
    BY <2>6, <2>7
<1> QED
  BY <1>4, <1>9, <1>10, <1>11, <1>12 DEF FundBooks

(* Where no effect is counted, the counters are what they were. *)
LEMMA UsageKept ==
  ASSUME IInv, Books, [Next]_vars, Counted' = Counted,
         UNCHANGED <<usedQuota, requestCount>>
  PROVE  UsageBooks'
<1>1. IsFiniteSet(Counted) /\ UsageBooks
  BY CountedApplied, FS_Subset DEF Books
<1>2. ASSUME NEW k \in Counted
      PROVE  CountedQuota'[k] = CountedQuota[k]
  <2>1. k \in AppliedKeys /\ k \in Keys /\ k \in Counted'
    BY CountedApplied DEF Counted
  <2>2. EffectQuota(k)' = EffectQuota(k)
    BY <2>1, AppliedStay
  <2> QED
    BY <2>1, <2>2 DEF CountedQuota
<1>3. SumFunctionOnSet(CountedQuota', Counted) = SumFunctionOnSet(CountedQuota, Counted)
  BY <1>1, <1>2, SumSame
<1> QED
  BY <1>1, <1>3 DEF UsageBooks

(* The transaction that claims an effect counts it once. *)
LEMMA UsageCounted ==
  ASSUME IInv, Books, [Next]_vars, NEW p \in Proc, EffectUsage(p)
  PROVE  UsageBooks'
<1>0. PICK k \in Keys : k = arg[p].key
  BY BusyArg DEF EffectUsage
<1>1. UNCHANGED <<status, intent, appliedDelta>>
  BY DEF EffectUsage
<1>2. \A j \in Keys : EffectQuota(j)' = EffectQuota(j) /\ (EffectCounts(j)' <=> EffectCounts(j))
  BY <1>1 DEF EffectQuota, UseActual, EffectCounts
<1>3. IsFiniteSet(Counted) /\ UsageBooks
  BY CountedApplied, FS_Subset DEF Books
<1>4. CASE effectStatus[k] # "pending" \/ ~EffectCounts(k)
  <2>1. UNCHANGED <<usedQuota, requestCount>>
    BY <1>0, <1>4 DEF EffectUsage, EffectClaimed, IInv, TypeOK
  <2>2. \A j \in Keys : (effectStatus'[j] = "applied" /\ EffectCounts(j)) <=>
                        (effectStatus[j] = "applied" /\ EffectCounts(j))
    BY <1>0, <1>4 DEF EffectUsage, EffectClaimed, IInv, TypeOK
  <2>3. Counted' = Counted
    BY <1>2, <2>2 DEF Counted
  <2> QED
    BY <2>1, <2>3, UsageKept
<1>5. CASE effectStatus[k] = "pending" /\ EffectCounts(k)
  <2>1. /\ usedQuota' = usedQuota + EffectQuota(k)
        /\ requestCount' = requestCount + 1
        /\ effectStatus' = [effectStatus EXCEPT ![k] = "applied"]
    BY <1>0, <1>5 DEF EffectUsage, EffectClaimed
  <2>2. \A j \in Keys : effectStatus'[j] = IF j = k THEN "applied" ELSE effectStatus[j]
    BY <2>1 DEF IInv, TypeOK
  <2>3. k \notin Counted /\ Counted' = Counted \cup {k}
    BY <1>2, <1>5, <2>2 DEF Counted
  <2>4. ASSUME NEW j \in Counted
        PROVE  CountedQuota[j] \in Int /\ CountedQuota'[j] = CountedQuota[j]
    <3>1. j \in AppliedKeys /\ j \in Keys /\ j \in Counted'
      BY <2>3, CountedApplied DEF Counted
    <3>2. EffectQuota(j)' = EffectQuota(j) /\ EffectQuota(j) \in Int
      BY <3>1, AppliedStay
    <3> QED
      BY <3>1, <3>2 DEF CountedQuota
  <2>5. k \in AppliedKeys /\ EffectQuota(k) \in Int
    <3>1. RowOK(k) /\ effectStatus[k] # "none"
      BY <1>5 DEF IInv, RowsAndProcsAgree
    <3>2. k \in AppliedKeys
      BY <3>1 DEF RowOK, AppliedKeys
    <3> QED
      BY <3>2, AppliedStay
  <2>6. CountedQuota'[k] = EffectQuota(k)
    BY <1>2, <2>3 DEF CountedQuota
  <2>7. SumFunctionOnSet(CountedQuota', Counted \cup {k}) =
          SumFunctionOnSet(CountedQuota, Counted) + EffectQuota(k)
    <3>1. CountedQuota'[k] \in Int
      BY <2>5, <2>6
    <3> QED
      BY <1>3, <2>3, <2>4, <2>6, <3>1, SumAdd
  <2>8. Cardinality(Counted \cup {k}) = Cardinality(Counted) + 1
    BY <1>3, <2>3, FS_AddElement
  <2>9. requestCount' = Cardinality(Counted')
    BY <1>3, <2>1, <2>3, <2>8 DEF UsageBooks
  <2>10. usedQuota' = SumFunctionOnSet(CountedQuota', Counted')
    BY <1>3, <2>1, <2>3, <2>7 DEF UsageBooks
  <2> QED
    BY <2>9, <2>10 DEF UsageBooks
<1> QED
  BY <1>4, <1>5

(* An effect that was counted stays so, and no other is, where no effect   *)
(* changes its status.                                                     *)
LEMMA CountedKept ==
  ASSUME IInv, [Next]_vars,
         \A j \in Keys : effectStatus'[j] = "applied" <=> effectStatus[j] = "applied"
  PROVE  Counted' = Counted
<1>1. ASSUME NEW j \in Keys, effectStatus[j] = "applied"
      PROVE  EffectCounts(j)' <=> EffectCounts(j)
  <2>1. j \in AppliedKeys
    BY <1>1 DEF IInv, RowsAndProcsAgree, RowOK, AppliedKeys
  <2> QED
    BY <2>1, AppliedStay
<1> QED
  BY <1>1 DEF Counted

LEMMA BooksStep ==
  ASSUME IInv, Books, [Next]_vars
  PROVE  Books'
<1>1. CASE Commits
  <2>1. PICK p \in Proc : ApplyCommits(p)
    BY <1>1 DEF Commits
  <2>2. PICK k \in Keys : k = arg[p].key
    BY <2>1, CommitMoves
  <2>3. status[k] = "pending" /\ \A j \in Keys \ {k} : effectStatus'[j] = effectStatus[j]
    BY <2>1, <2>2, CommitMoves DEF MovedBy, ApplyCommits, IInv, TypeOK
  <2>4. effectStatus[k] = "none" /\ effectStatus'[k] # "applied"
    BY <2>1, <2>2, <2>3 DEF ApplyCommits, IInv, RowsAndProcsAgree, RowOK, TypeOK
  <2>5. Counted' = Counted
    <3>1. \A j \in Keys : effectStatus'[j] = "applied" <=> effectStatus[j] = "applied"
      BY <2>3, <2>4
    <3> QED
      BY <3>1, CountedKept
  <2>6. UNCHANGED <<usedQuota, requestCount>>
    BY <2>1 DEF ApplyCommits, effectVars
  <2>7. UsageBooks'
    BY <2>5, <2>6, UsageKept
  <2> QED
    BY <2>1, <2>7, FundsClosed DEF Books
<1>2. CASE Counts
  <2>1. PICK p \in Proc : EffectUsage(p)
    BY <1>2 DEF Counts
  <2>2. AppliedKeys' = AppliedKeys /\ wallet' - wallet = deposited' - deposited
        /\ UNCHANGED <<tokenRemain, tokenUsed, taskQuota>>
    BY <2>1 DEF EffectUsage, AppliedKeys, balanceVars, IInv, TypeOK
  <2>3. FundBooks' /\ IsFiniteSet(AppliedKeys')
    BY <2>2, FundsKept DEF Books
  <2> QED
    BY <2>1, <2>3, UsageCounted DEF Books
<1>3. CASE Unseen
  <2>1. AppliedKeys' = AppliedKeys
    BY <1>3 DEF Unseen, AppliedKeys
  <2>2. FundBooks' /\ IsFiniteSet(AppliedKeys')
    BY <1>3, <2>1, FundsKept DEF Books, Unseen
  <2>3. Counted' = Counted
    BY <1>3, CountedKept DEF Unseen
  <2>4. UsageBooks'
    BY <1>3, <2>3, UsageKept DEF Unseen
  <2> QED
    BY <2>2, <2>4 DEF Books
<1> QED
  BY <1>1, <1>2, <1>3, BookKinds

(* However often and by whomever an operation is retried and its effect    *)
(* projected, what left the wallet, the token and the quota of every task  *)
(* is the sum of the applied rows, and the usage counters are the sums of  *)
(* the applied effects: no row is counted twice and none is forgotten      *)
(* (ApplyBillingSettlementOnce, ProcessBillingSettlementEffect).           *)
THEOREM BooksAreBalanced == Spec => []BooksBalance
<1>1. Init => Books
  <2> SUFFICES ASSUME Init PROVE Books
    OBVIOUS
  <2>1. AppliedKeys = {} /\ Counted = {}
    BY DEF Init, AppliedKeys, Counted
  <2>2. \A t \in Tasks : TaskKeys(t) = {}
    BY <2>1 DEF TaskKeys
  <2>3. IsFiniteSet(AppliedKeys) /\ Cardinality(Counted) = 0
    BY <2>1, FS_EmptySet
  <2>4. FundBooks
    <3>1. /\ wallet + SumFunctionOnSet(appliedDelta, AppliedKeys) = InitialWallet + deposited
          /\ tokenUsed = SumFunctionOnSet(appliedToken, AppliedKeys)
          /\ tokenRemain + tokenUsed = InitialToken
      BY <2>1, SumEmpty, BalanceAssumption DEF Init
    <3>2. ASSUME NEW t \in Tasks
          PROVE  taskQuota[t] = InitialTaskQuota[t] + SumFunctionOnSet(appliedDelta, TaskKeys(t))
      <4>1. SumFunctionOnSet(appliedDelta, TaskKeys(t)) = 0
        BY <2>2, SumEmpty
      <4>2. taskQuota[t] = InitialTaskQuota[t] /\ InitialTaskQuota[t] \in Int
        BY BalanceAssumption DEF Init
      <4> QED
        BY <4>1, <4>2
    <3> QED
      BY <3>1, <3>2 DEF FundBooks
  <2>5. UsageBooks
    BY <2>1, <2>3, SumEmpty DEF UsageBooks, Init
  <2> QED
    BY <2>3, <2>4, <2>5 DEF Books
<1>2. IInv /\ Books /\ [Next]_vars => Books'
  BY BooksStep
<1>3. Books => BooksBalance
  <2> SUFFICES ASSUME Books PROVE BooksBalance
    OBVIOUS
  <2>1. FundBooks /\ UsageBooks
    BY DEF Books
  <2>2. \A t \in Tasks :
          taskQuota[t] = InitialTaskQuota[t] +
            SumFunctionOnSet(appliedDelta, {k \in AppliedKeys : intent[k].task = t})
    BY <2>1 DEF FundBooks, TaskKeys
  <2> QED
    BY <2>1, <2>2 DEF BooksBalance, FundBooks, UsageBooks, Counted, CountedQuota
<1> QED
  BY <1>1, <1>2, <1>3, Invariant, PTL DEF Spec

=============================================================================

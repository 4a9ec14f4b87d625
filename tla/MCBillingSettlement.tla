-------------------------- MODULE MCBillingSettlement --------------------------
(***************************************************************************)
(* Instances of BillingSettlement: what the callers may submit.            *)
(***************************************************************************)
EXTENDS BillingSettlement, TLC

CONSTANTS c1, c2, r1, t1, req

VARIABLE scene  \* whose operations the callers submit: "request" | "task"

(* An input with the fields most operations leave empty. *)
Plain(key, delta) ==
  [key |-> key, funding |-> delta, token |-> delta, allowMissing |-> FALSE,
   manualOnFailure |-> FALSE, task |-> NoTask, taskQuota |-> 0,
   request |-> NoRequest, claim |-> 0,
   payload |-> FALSE, actual |-> FALSE, quota |-> 0, updateUsage |-> FALSE]

(* One request: a pre-consume that a replay may repeat with another        *)
(* amount, and a finalize key that a settlement with its effect and a      *)
(* refund compete for.                                                     *)
PreConsume(q) ==
  [Plain("pre", q) EXCEPT !.manualOnFailure = TRUE, !.request = req, !.claim = q]
Settle ==
  [Plain("final", 1) EXCEPT !.payload = TRUE, !.actual = TRUE, !.quota = 3,
                            !.updateUsage = TRUE]
RefundAll == [Plain("final", -2) EXCEPT !.allowMissing = TRUE]

RequestInputs == {PreConsume(2), PreConsume(1), Settle, RefundAll}
RecoveryInputs == {Settle, RefundAll}
RecoveryKeys == {"final"}

(* One task that holds two units: its refund and its finalization have     *)
(* different keys, and both expect the quota the task was submitted with.  *)
TaskOperation(key, delta) ==
  [Plain(key, delta) EXCEPT !.task = t1, !.taskQuota = 2, !.allowMissing = TRUE,
                            !.payload = TRUE]
TaskReserve == [Plain("reserve", 2) EXCEPT !.manualOnFailure = TRUE]
TaskRefund == [TaskOperation("refund", -2) EXCEPT !.payload = FALSE]
TaskFinal == TaskOperation("final", -1)
TaskInputs == {TaskReserve, TaskRefund, TaskFinal}

StoreInputs == RequestInputs \cup TaskInputs
StoreKeys == {"pre", "final", "reserve", "refund"}

MinusOne == -1
TwoUnits == [t \in Tasks |-> 2]

(* One caller pre-consumes and settles while the other pre-consumes        *)
(* another amount and refunds; or one reserves for the task and refunds it,*)
(* without an effect, while the other finalizes it.  The user tops up, or  *)
(* the subscription is charged, only beside the request.                   *)
Submits(p) ==
  IF scene = "task"
    THEN IF p = c1 THEN {TaskReserve, TaskRefund} ELSE {TaskFinal}
    ELSE IF p = c1 THEN {PreConsume(2), Settle} ELSE {PreConsume(1), RefundAll}

MCInit == Init /\ scene \in {"request", "task"}
MCNext ==
  /\ Next
  /\ UNCHANGED scene
  /\ \A p \in Callers : arg'[p] \in {NoInput} \cup Submits(p)
  /\ scene = "task" => UNCHANGED <<selection, deposited>>
MCSpec == MCInit /\ [][MCNext]_<<vars, scene>>

(* The retries of one operation after its caller died. *)
RecoveryInit == Init /\ scene = "recovery"
RecoveryNext == Next /\ UNCHANGED scene
RecoverySpec ==
  RecoveryInit /\ [][RecoveryNext]_<<vars, scene>> /\ RunnerFairness
=============================================================================

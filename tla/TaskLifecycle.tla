---------------------------- MODULE TaskLifecycle ----------------------------
(***************************************************************************)
(* One asynchronous task from its submission to its terminal status, and   *)
(* the settlement that goes with it.  Every master node runs the polling   *)
(* loop (recover, sweep the timed out, poll the provider), clients read    *)
(* the task in real time, and the settlement runner retries balance        *)
(* mutations; all of them write the one task row.                          *)
(*                                                                         *)
(* Two compare-and-swap disciplines meet in that row.  A write that        *)
(* publishes billing evidence compares status and updated_at; every other  *)
(* write compares the status alone and stores the whole row as it was      *)
(* read, private data and updated_at included.                             *)
(***************************************************************************)
EXTENDS Integers, FiniteSets

CONSTANTS
  Pollers,      \* processes that run TaskPollingLoop
  Readers,      \* requests that fetch the task from the provider in real time
  Kinds,        \* kinds of task checked
  Reservation,  \* the quota consumed at submission
  FinalQuotas   \* final quotas the provider's usage may come to

ASSUME QuotaAssumption ==
  /\ Reservation \in Nat \ {0}
  /\ FinalQuotas \subseteq Nat
ASSUME ProcAssumption == IsFiniteSet(Pollers \cup Readers) /\ Pollers \cap Readers = {}

Proc == Pollers \cup Readers
(* Values of updated_at, told apart only from those some process has read. *)
Stamps == 0..(Cardinality(Proc) + 1)

VARIABLES
  kind,        \* how the task is billed, and whether the provider confirmed it
  finalQuota,  \* what the provider's usage comes to
  outcome,     \* how the provider's run ends
  provider,    \* [done, usage]: the run has ended; the usage it reports
  late,        \* the task is older than TaskTimeoutMinutes
  task,        \* the task row
  settlement,  \* [{"finalize", "refund"} -> settlement row]
  submission,  \* status of the submission's own finalize settlement
  wallet,      \* what the task's settlements gave back to the user, or took (below 0)
  pc,          \* [Proc -> program counter]
  copy,        \* [Proc -> the task row as the process read it]
  seen         \* [Proc -> the provider's answer]

vars == <<kind, finalQuota, outcome, provider, late, task, settlement, submission,
          wallet, pc, copy, seen>>
world == <<kind, finalQuota, outcome, provider, late>>
books == <<settlement, submission, wallet>>

(* A plan may turn out invalid, or not to fit the task (invalid); a task    *)
(* whose upstream id never came is billed by a plan (placeholder) or not.   *)
Plans == {"plan", "invalid", "placeholder"}
Unconfirmed == {"placeholder", "unconfirmed"}

(* What is known of the usage: partial stands for whatever cannot be        *)
(* billed, a complete one that contradicts the plan included.               *)
Usages == {"missing", "partial", "complete"}

Open == {"queued", "running"}
Terminal == {"success", "failure"}
Task == [status: Open \cup Terminal, quota: Nat, evidence: Terminal \cup {""},
         frozen: Usages, stamp: Stamps, reason: {"", "timeout", "provider", "missing"}]
Answer == [status: Terminal \cup {"", "running"}, usage: Usages]
Row == [status: {"none", "pending", "manual", "applied"}, target: Nat,
        hold: {"", "plan", "usage", "quote", "failed"}]

NoRow == [status |-> "none", target |-> Reservation, hold |-> ""]
NoCopy == [status |-> "queued", quota |-> Reservation, evidence |-> "", frozen |-> "missing",
           stamp |-> 0, reason |-> ""]
NoAnswer == [status |-> "", usage |-> "missing"]

Init ==
  /\ kind \in Kinds \cap (Plans \cup {"delta", "unconfirmed"})
  /\ finalQuota \in FinalQuotas
  /\ outcome \in Terminal
  /\ provider = [done |-> FALSE, usage |-> "missing"]
  /\ late = FALSE
  /\ \E u \in {"missing", "complete"} :
       (u = "complete" => kind = "plan") /\ task = [NoCopy EXCEPT !.frozen = u]
  /\ settlement = [r \in {"finalize", "refund"} |-> NoRow]
  /\ submission = "pending"
  /\ wallet = 0
  /\ pc = [p \in Proc |-> IF p \in Pollers THEN "recover" ELSE "idle"]
  /\ copy = [p \in Proc |-> NoCopy]
  /\ seen = [p \in Proc |-> NoAnswer]

Goto(p, label) == pc' = [pc EXCEPT ![p] = label]

(* The process goes on with its loop and forgets the task.                 *)
Continue(p, label) ==
  /\ Goto(p, label)
  /\ copy' = [copy EXCEPT ![p] = NoCopy]
  /\ seen' = [seen EXCEPT ![p] = NoAnswer]

IsOpen == task.status \in Open
Finalize == settlement["finalize"]
Fresh == CHOOSE s \in Stamps : s # task.stamp /\ \A q \in Proc : s # copy[q].stamp

-----------------------------------------------------------------------------
(* The writes to the task row. *)

(* UpdateWithStatus: the row as it was read, with its changes, replaces    *)
(* whatever is stored, provided the status has not moved.  The quota       *)
(* column is not among the written ones.                                   *)
AnyStatus(p) == TRUE  \* regression: the update is not conditional
StatusMatches(p) == task.status = copy[p].status
Stored(p, changed) == [changed EXCEPT !.quota = task.quota]

(* The guard of the writes that publish evidence.                          *)
SnapshotMatches(p) == task.status = copy[p].status /\ task.stamp = copy[p].stamp

(* ensureBillingSettlementRecordDB: an existing row must be the same       *)
(* settlement and must not be held.                                        *)
CanRecord(r, target) ==
  \/ settlement[r].status = "none"
  \/ settlement[r].status \in {"pending", "applied"} /\ settlement[r].target = target

Recorded(r, target) ==
  IF settlement[r].status = "none"
    THEN [settlement EXCEPT ![r] = [status |-> "pending", target |-> target, hold |-> ""]]
    ELSE settlement

-----------------------------------------------------------------------------
(* The sweep: first the tasks whose funding was applied. *)

(* GetAppliedTaskFinalizeRecoveryCandidates *)
Recover(p) ==
  /\ pc[p] = "recover"
  /\ IF IsOpen /\ late /\ Finalize.status = "applied"
       THEN copy' = [copy EXCEPT ![p] = task] /\ Goto(p, "recovering") /\ UNCHANGED seen
       ELSE Continue(p, "sweep")
  /\ UNCHANGED <<world, task, books>>

(* The pending evidence becomes the terminal status; without evidence the  *)
(* task fails and is left to manual reconciliation.                        *)
Recovered(c) ==
  IF c.evidence # ""
    THEN [c EXCEPT !.status = c.evidence, !.evidence = "", !.reason = "provider"]
    ELSE [c EXCEPT !.status = "failure", !.reason = "missing"]

FinishRecovery(p) ==
  /\ pc[p] = "recovering"
  /\ task' = IF StatusMatches(p) THEN Stored(p, Recovered(copy[p])) ELSE task
  /\ Continue(p, "sweep")
  /\ UNCHANGED <<world, books>>

-----------------------------------------------------------------------------
(* The sweep: then the timed out tasks no final settlement owns. *)

(* GetTimedOutUnfinishedTasksAfter *)
Sweep(p) ==
  /\ pc[p] = "sweep"
  /\ IF IsOpen /\ late /\ Finalize.status = "none"
       THEN copy' = [copy EXCEPT ![p] = task] /\ Goto(p, "swept") /\ UNCHANGED seen
       ELSE Continue(p, "claim")
  /\ UNCHANGED <<world, task, books>>

(* taskTerminalSettlementState *)
Pending == submission # "applied" \/ Finalize.status \in {"pending", "manual"}

SweepCheck(p) ==
  /\ pc[p] = "swept"
  /\ \/ Pending /\ Continue(p, "claim")
     \/ ~Pending /\ Finalize.status = "none" /\ Goto(p, "sweeping") /\ UNCHANGED <<copy, seen>>
     \/ /\ ~Pending /\ Finalize.status = "applied"
        /\ IF IsOpen
             THEN copy' = [copy EXCEPT ![p] = task] /\ Goto(p, "recovering") /\ UNCHANGED seen
             ELSE Continue(p, "claim")
  /\ UNCHANGED <<world, task, books>>

(* The usage a decision is made from (frozenTaskUsage): only one that was   *)
(* missing gives way to the answer.                                         *)
Usage(p) == IF copy[p].frozen = "missing" THEN seen[p].usage ELSE copy[p].frozen

(* prepareTaskTerminalBillingDecision *)
Billable(p) == kind = "plan" /\ Usage(p) = "complete" /\ finalQuota <= Reservation

HoldReason(p) == CASE kind = "invalid" -> "plan"
                   [] kind # "invalid" /\ Usage(p) # "complete" -> "usage"
                   [] OTHER -> "quote"

(* A plan that cannot be billed is held for manual reconciliation, with the *)
(* usage it was decided from, and stays pollable                            *)
(* (UpdateWithStatusAndManualSettlement).                                   *)
HoldManually(p) ==
  LET held == [status |-> "manual", target |-> Reservation, hold |-> HoldReason(p)] IN
  IF SnapshotMatches(p) /\ (Finalize.status = "none" \/ Finalize = held)
    THEN /\ settlement' = [settlement EXCEPT !["finalize"] = held]
         /\ task' = Stored(p, [copy[p] EXCEPT !.frozen = Usage(p), !.stamp = Fresh])
    ELSE UNCHANGED <<settlement, task>>

(* A terminal status and the intent that settles it, or neither            *)
(* (UpdateWithStatusAndSettlement).                                        *)
EndWith(p, r, target, changed, won, lost) ==
  IF StatusMatches(p) /\ CanRecord(r, target)
    THEN /\ settlement' = Recorded(r, target)
         /\ task' = Stored(p, changed)
         /\ Continue(p, won)
    ELSE UNCHANGED <<settlement, task>> /\ Continue(p, lost)

TimedOut(p) == [copy[p] EXCEPT !.status = "failure", !.reason = "timeout"]

RefundOnTimeOut(p) ==  \* regression: every timed out task is refunded in full
  EndWith(p, "refund", 0, TimedOut(p), "applyRefund", "claim")

ZeroOnTimeOut(p) ==  \* regression: a plan with frozen usage is settled for nothing
  \/ kind \in Plans /\ ~Billable(p) /\ HoldManually(p) /\ Continue(p, "claim")
  \/ Billable(p) /\ EndWith(p, "finalize", 0, TimedOut(p), "applyFinal", "claim")

TimeOut(p) ==
  \/ kind \in Plans /\ ~Billable(p) /\ HoldManually(p) /\ Continue(p, "claim")
  \/ Billable(p) /\ EndWith(p, "finalize", finalQuota, TimedOut(p), "applyFinal", "claim")
  \/ kind = "delta" /\ EndWith(p, "refund", 0, TimedOut(p), "applyRefund", "claim")
  \/ /\ kind = "unconfirmed"
     /\ task' = IF StatusMatches(p) THEN Stored(p, TimedOut(p)) ELSE task
     /\ Continue(p, "claim")
     /\ UNCHANGED settlement

SweepWrite(p) ==
  /\ pc[p] = "sweeping"
  /\ TimeOut(p)
  /\ UNCHANGED <<world, submission, wallet>>

-----------------------------------------------------------------------------
(* The poll. *)

(* GetAllUnFinishSyncTasks stamps the row it hands out; a task without an  *)
(* upstream id is not polled.                                              *)
Claim(p) ==
  /\ pc[p] = "claim"
  /\ IF IsOpen /\ kind \notin Unconfirmed
       THEN /\ task' = [task EXCEPT !.stamp = Fresh]
            /\ copy' = [copy EXCEPT ![p] = task']
            /\ Goto(p, "fetch")
            /\ UNCHANGED seen
       ELSE Continue(p, "recover") /\ UNCHANGED task
  /\ UNCHANGED <<world, books>>

TheAnswer == [status |-> IF provider.done THEN outcome ELSE "running", usage |-> provider.usage]

Fetch(p) ==
  /\ pc[p] = "fetch"
  /\ seen' = [seen EXCEPT ![p] = TheAnswer]
  /\ Goto(p, IF provider.done THEN "state" ELSE "progress")
  /\ UNCHANGED <<world, task, books, copy>>

FetchFails(p) ==
  /\ pc[p] = "fetch"
  /\ Continue(p, "recover")
  /\ UNCHANGED <<world, task, books>>

(* A non-terminal answer is stored if it changed anything.                 *)
Progress(p) ==
  /\ pc[p] = "progress"
  /\ \/ task' = IF StatusMatches(p) THEN Stored(p, [copy[p] EXCEPT !.status = "running"]) ELSE task
     \/ copy[p].status = "running" /\ UNCHANGED task
  /\ Continue(p, "recover")
  /\ UNCHANGED <<world, books>>

HeldForGood(p) ==  \* regression: a held settlement is not promoted by later polls
  /\ pc[p] = "state"
  /\ IF Pending
       THEN Continue(p, "recover")
       ELSE /\ Goto(p, IF Finalize.status = "applied" THEN "finish" ELSE "decide")
            /\ UNCHANGED <<copy, seen>>
  /\ UNCHANGED <<world, task, books>>

State(p) ==
  /\ pc[p] = "state"
  /\ \/ /\ Pending
        /\ IF Billable(p) /\ submission = "applied"
             THEN Goto(p, "evidence") /\ UNCHANGED <<copy, seen>>
             ELSE Continue(p, "recover")
     \/ /\ ~Pending
        /\ Goto(p, IF Finalize.status = "applied" THEN "finish" ELSE "decide")
        /\ UNCHANGED <<copy, seen>>
  /\ UNCHANGED <<world, task, books>>

WithEvidence(p) ==
  [copy[p] EXCEPT !.evidence = seen[p].status, !.frozen = Usage(p), !.stamp = Fresh]

(* A plan: the evidence and the intent are recorded together, the status   *)
(* stays (UpdateWithStatusAndSettlementIntent).                            *)
Intend(p) ==
  IF SnapshotMatches(p) /\ CanRecord("finalize", finalQuota)
    THEN /\ settlement' = Recorded("finalize", finalQuota)
         /\ task' = Stored(p, WithEvidence(p))
         /\ copy' = [copy EXCEPT ![p] = task']
         /\ Goto(p, "applyPlan")
         /\ UNCHANGED seen
    ELSE UNCHANGED <<settlement, task>> /\ Continue(p, "recover")

Ended(p) == [copy[p] EXCEPT !.status = seen[p].status, !.reason = "provider"]

(* The final quota of a delta may be above the reservation, and the user is *)
(* charged the rest (buildTaskFinalSettlementInput); without one, or with   *)
(* the one that was reserved, nothing is settled.                           *)
Adjusts(p) == seen[p].usage = "complete" /\ finalQuota \notin {0, Reservation}

(* A delta: the provider's status and its settlement are recorded together. *)
EndDelta(p) ==
  \/ /\ seen[p].status = "failure"
     /\ EndWith(p, "refund", 0, Ended(p), "applyRefund", "recover")
  \/ /\ seen[p].status = "success" /\ Adjusts(p)
     /\ EndWith(p, "finalize", finalQuota, Ended(p), "applyFinal", "recover")
  \/ /\ seen[p].status = "success" /\ ~Adjusts(p)
     /\ task' = IF StatusMatches(p) THEN Stored(p, Ended(p)) ELSE task
     /\ Continue(p, "recover")
     /\ UNCHANGED settlement

Decide(p) ==
  /\ pc[p] = "decide"
  /\ \/ kind \in Plans /\ ~Billable(p) /\ HoldManually(p) /\ Continue(p, "recover")
     \/ Billable(p) /\ Intend(p)
     \/ kind = "delta" /\ EndDelta(p)
  /\ UNCHANGED <<world, submission, wallet>>

(* recoverManualTaskBillingSettlement: evidence first, then the promotion. *)
Evidence(p) ==
  /\ pc[p] = "evidence"
  /\ IF SnapshotMatches(p)
       THEN /\ task' = Stored(p, WithEvidence(p))
            /\ copy' = [copy EXCEPT ![p] = task']
            /\ Goto(p, "promote")
            /\ UNCHANGED seen
       ELSE UNCHANGED task /\ Continue(p, "recover")
  /\ UNCHANGED <<world, books>>

Promotable == Finalize.status = "manual" /\ Finalize.hold = "usage"

Promote(p) ==
  /\ pc[p] = "promote"
  /\ \/ /\ Promotable
        /\ settlement' = [settlement EXCEPT !["finalize"] =
                            [status |-> "pending", target |-> finalQuota, hold |-> ""]]
        /\ Goto(p, "applyPlan")
        /\ UNCHANGED <<copy, seen>>
     \/ /\ ~Promotable /\ CanRecord("finalize", finalQuota)
        /\ Goto(p, "applyPlan")
        /\ UNCHANGED <<settlement, copy, seen>>
     \/ /\ ~Promotable /\ ~CanRecord("finalize", finalQuota)
        /\ Continue(p, "recover")
        /\ UNCHANGED settlement
  /\ UNCHANGED <<world, task, submission, wallet>>

(* The funding is applied: the provider's status may be published.         *)

Published(p) ==
  [copy[p] EXCEPT !.status = seen[p].status, !.evidence = "", !.reason = "provider"]

Finish(p) ==
  /\ pc[p] = "finish"
  /\ task' = IF StatusMatches(p) THEN Stored(p, Published(p)) ELSE task
  /\ Continue(p, "recover")
  /\ UNCHANGED <<world, books>>

-----------------------------------------------------------------------------
(* ApplyBillingSettlementOnce on a row of the task, by a poller right      *)
(* after it recorded the row or by the retry runner.                       *)

ApplyAgain(r) ==  \* regression: an applied row, or a settled task, is applied again
  /\ settlement[r].status \in {"pending", "applied"}
  /\ settlement' = [settlement EXCEPT ![r].status = "applied"]
  /\ task' = [task EXCEPT !.quota = settlement[r].target]
  /\ wallet' = wallet + Reservation - settlement[r].target

Apply(r) ==
  /\ settlement[r].status = "pending"
  /\ task.quota = Reservation
  /\ settlement' = [settlement EXCEPT ![r].status = "applied"]
  /\ task' = [task EXCEPT !.quota = settlement[r].target]
  /\ wallet' = wallet + Reservation - settlement[r].target

(* The mutation fails: the row stays pending, or is held.                  *)
ApplyFails(r) ==
  /\ settlement[r].status = "pending"
  /\ \/ UNCHANGED settlement
     \/ settlement' = [settlement EXCEPT ![r].status = "manual", ![r].hold = "failed"]
  /\ UNCHANGED <<task, wallet>>

ApplyLabel(r) == IF r = "refund" THEN {"applyRefund"} ELSE {"applyFinal", "applyPlan"}

PollerApplies(p, r) ==
  /\ pc[p] \in ApplyLabel(r)
  /\ \/ Apply(r)
     \/ settlement[r].status = "applied" /\ UNCHANGED <<settlement, task, wallet>>
  /\ IF pc[p] = "applyPlan"
       THEN Goto(p, "finish") /\ UNCHANGED <<copy, seen>>
       ELSE Continue(p, "recover")
  /\ UNCHANGED <<world, submission>>

PollerFails(p, r) ==
  /\ pc[p] \in ApplyLabel(r)
  /\ \/ ApplyFails(r)
     \/ settlement[r].status = "manual" /\ UNCHANGED <<settlement, task, wallet>>
  /\ Continue(p, "recover")
  /\ UNCHANGED <<world, submission>>

RunnerApplies(r) == Apply(r) /\ UNCHANGED <<world, submission, pc, copy, seen>>
RunnerFails(r) == ApplyFails(r) /\ UNCHANGED <<world, submission, pc, copy, seen>>

(* The runner also applies the settlement of the submission, or holds it    *)
(* for good.                                                                *)
SettleSubmission ==
  /\ submission = "pending"
  /\ submission' \in {"applied", "manual"}
  /\ UNCHANGED <<world, task, settlement, wallet, pc, copy, seen>>

-----------------------------------------------------------------------------
(* Realtime reads, crashes, the provider and the clock. *)

(* tryRealtimeFetch: a request reads the task and asks the provider.       *)
RealtimeRead(p) ==
  /\ pc[p] = "idle"
  /\ IsOpen /\ ~provider.done /\ kind \notin Unconfirmed
  /\ copy' = [copy EXCEPT ![p] = task]
  /\ Goto(p, "realtime")
  /\ UNCHANGED <<world, task, books, seen>>

(* Only a non-terminal answer is stored.                                   *)
RealtimeWrite(p) ==
  /\ pc[p] = "realtime"
  /\ task' = IF StatusMatches(p) THEN Stored(p, [copy[p] EXCEPT !.status = "running"]) ELSE task
  /\ Continue(p, "idle")
  /\ UNCHANGED <<world, books>>

Crash(p) ==
  /\ pc[p] \notin {"idle", "recover"}
  /\ Continue(p, IF p \in Pollers THEN "recover" ELSE "idle")
  /\ UNCHANGED <<world, task, books>>

ProviderEnds ==
  /\ ~provider.done
  /\ provider' \in {[done |-> TRUE, usage |-> u] : u \in Usages}
  /\ UNCHANGED <<kind, finalQuota, outcome, late, task, books, pc, copy, seen>>

UsageArrives ==
  /\ provider.done /\ provider.usage # "complete"
  /\ \E u \in {"partial", "complete"} \ {provider.usage} : provider' = [provider EXCEPT !.usage = u]
  /\ UNCHANGED <<kind, finalQuota, outcome, late, task, books, pc, copy, seen>>

Timeout ==
  /\ ~late
  /\ late' = TRUE
  /\ UNCHANGED <<kind, finalQuota, outcome, provider, task, books, pc, copy, seen>>

Poll(p) ==
  \/ Recover(p) \/ FinishRecovery(p) \/ Sweep(p) \/ SweepCheck(p) \/ SweepWrite(p)
  \/ Claim(p) \/ Fetch(p) \/ Progress(p) \/ State(p) \/ Decide(p)
  \/ Evidence(p) \/ Promote(p) \/ Finish(p)

Work ==
  \/ \E p \in Pollers :
       \/ Poll(p)
       \/ \E r \in DOMAIN settlement : PollerApplies(p, r) \/ PollerFails(p, r)
  \/ \E p \in Readers : RealtimeRead(p) \/ RealtimeWrite(p)
  \/ \E r \in DOMAIN settlement : RunnerApplies(r) \/ RunnerFails(r)
  \/ SettleSubmission \/ ProviderEnds \/ UsageArrives \/ Timeout

Faults ==
  \/ \E p \in Pollers : FetchFails(p) \/ Crash(p)
  \/ \E p \in Readers : Crash(p)

Next == Work \/ Faults

Spec == Init /\ [][Next]_vars

-----------------------------------------------------------------------------
(* Properties. *)

(* The rows have their shape, and a terminal task has no pending evidence. *)
TypeOK ==
  /\ task \in Task
  /\ task.status \in Terminal => task.reason # "" /\ task.evidence = ""
  /\ settlement \in [{"finalize", "refund"} -> Row]
  /\ wallet \in Int
  /\ \A p \in Proc : copy[p] \in Task /\ seen[p] \in Answer

(* The polls, sweeps and retries together settle the task the way a user   *)
(* sees it: once, and visibly in Task.Quota.                               *)
Promise == INSTANCE TaskQuota WITH Quotas <- FinalQuotas \cup {0}, quota <- task.quota,
                                   refunded <- wallet
ImplementsTaskQuota == Promise!Spec

(* A terminal task has the settlement its status calls for: a plan's       *)
(* settlement exists, and is applied unless a timeout ended the task; a    *)
(* delta task fails with a refund and never succeeds with one; a task      *)
(* nobody confirmed keeps its reservation for manual review.  No task has  *)
(* both a final settlement and a refund, and the one applied shows in      *)
(* Task.Quota.  Every variable keeps its type besides.                     *)
TerminalIsSettled ==
  /\ TypeOK
  /\ settlement["finalize"].status = "none" \/ settlement["refund"].status = "none"
  /\ \A r \in DOMAIN settlement :
       settlement[r].status = "applied" => task.quota = settlement[r].target
  /\ task.status \in Terminal =>
       /\ kind \in Plans => settlement["finalize"].status # "none"
       /\ kind \in Plans /\ task.reason # "timeout" => settlement["finalize"].status = "applied"
       /\ kind = "delta" => (task.status = "failure" <=> settlement["refund"].status # "none")
       /\ kind = "unconfirmed" => task.quota = Reservation

(* A task succeeds only if the provider said so, and a plan that was       *)
(* settled was settled for its usage and within its reservation: never one *)
(* that is invalid, or whose usage comes to more.                          *)
SuccessIsTheProviders ==
  /\ task.status = "success" => provider.done /\ outcome = "success"
  /\ kind \in Plans /\ settlement["finalize"].status = "applied" =>
       kind = "plan" /\ task.quota = finalQuota /\ finalQuota <= Reservation

(* Pollers, sweepers and readers never move a task out of a terminal       *)
(* status, nor rewrite why it ended.                                       *)
TerminalIsFinal ==
  [][task.status \in Terminal => task'.status = task.status /\ task'.reason = task.reason]_vars

(* A task whose funding was applied ends with the provider's status, also  *)
(* after a crash: "A crash after promotion must remain recoverable as the  *)
(* provider's terminal state, not be misclassified as missing evidence"    *)
(* (recoverManualTaskBillingSettlement).                                   *)
NotMisclassified == task.reason # "missing"
=============================================================================

---------------------------- MODULE TaskProgress ----------------------------
(***************************************************************************)
(* TaskLifecycle once the faults have ceased.  A poll that leaves a task   *)
(* as it is looks like a crash, so "no more crashes" cannot be said of the *)
(* steps of TaskLifecycle: a variable of its own says it.                  *)
(***************************************************************************)
EXTENDS TaskLifecycle

VARIABLE steady  \* the processes stay up and the provider answers

allVars == <<vars, steady>>

SteadyInit == Init /\ steady = FALSE

FaultsCease == ~steady /\ steady' = TRUE /\ UNCHANGED vars

SteadyNext ==
  \/ Work /\ UNCHANGED steady
  \/ ~steady /\ Faults /\ UNCHANGED steady
  \/ FaultsCease

(* The loop of a process goes on (TaskPollingLoop has no exit); the        *)
(* runner's retries get through in the end; the submission is settled, the *)
(* provider ends and completes its usage, and the timeout passes.          *)
Polls(p) == Poll(p) \/ \E r \in DOMAIN settlement : PollerApplies(p, r) \/ PollerFails(p, r)

FairSpec ==
  /\ SteadyInit /\ [][SteadyNext]_allVars
  /\ WF_allVars(FaultsCease)
  /\ \A p \in Pollers : WF_vars(Polls(p))
  /\ \A r \in {"finalize", "refund"} : SF_vars(RunnerApplies(r))
  /\ WF_vars(SettleSubmission) /\ WF_vars(ProviderEnds) /\ WF_vars(UsageArrives) /\ WF_vars(Timeout)

-----------------------------------------------------------------------------
(* Properties. *)

(* What only an administrator ends: a submission or a funding that was held *)
(* because it failed, and a task whose plan is invalid, whose usage was     *)
(* frozen partial or comes to more than the reservation, or was never       *)
(* confirmed upstream.                                                      *)
Recoverable ==
  kind = "plan" /\ Finalize.hold = "usage" /\ task.frozen # "partial" /\ finalQuota <= Reservation
OperatorGated == submission = "manual" \/ (Finalize.status = "manual" /\ ~Recoverable)

(* A task ends as its provider said or by its timeout, never for evidence  *)
(* that was lost on the way, unless only an administrator can end it: one  *)
(* that was held for missing usage ends when the usage comes.              *)
EventuallyEnds ==
  <>((task.status \in Terminal /\ task.reason # "missing") \/ OperatorGated)
=============================================================================

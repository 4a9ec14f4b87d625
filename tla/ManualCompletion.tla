--------------------------- MODULE ManualCompletion ---------------------------
(***************************************************************************)
(* A task whose final settlement was held for manual review, and the two   *)
(* ways out of the hold that run against each other:                       *)
(*   - an administrator approves an exact final quota: a child settlement  *)
(*     with a key of its own is recorded with the approval, applied, and   *)
(*     only then the original row is closed                                *)
(*     (CompleteManualTaskBillingSettlement, service/smart_ops_alert.go);  *)
(*   - a later poll of the provider supplies the missing usage and the     *)
(*     original row is reopened (PromoteManualTaskBillingSettlement).      *)
(* Both rows are also retried by the settlement runner, and the alert of   *)
(* the original may be reviewed by any administrator unless it needs an    *)
(* exact quota.  One action is one database round trip; a process may die  *)
(* between any two of them.                                                *)
(***************************************************************************)
EXTENDS Integers

CONSTANTS
  Admins,          \* requests of administrators; the name is the reviewer id
  Pollers,         \* task pollers
  Runners,         \* settlement retry loops
  Nobody,          \* reconciliation_reviewed_by = 0
  Notes,           \* evidence notes an administrator may type
  DefaultNote,     \* manualTaskBillingDefaultNote, the generated note
  Reservation,     \* Task.Quota frozen at submission
  ApprovedQuotas,  \* final quotas administrators approve
  PolledQuotas,    \* final quotas computed from provider usage
  MaxRevision      \* bound on the revision of the original row

Proc == Admins \cup Pollers \cup Runners
Rows == {"original", "child"}

ASSUME QuotaAssumption ==
  /\ Reservation \in Nat
  /\ ApprovedQuotas \subseteq 0..Reservation /\ ApprovedQuotas # {}
  /\ PolledQuotas \subseteq 0..Reservation
ASSUME NameAssumption ==
  /\ Nobody \notin Admins
  /\ DefaultNote \in Notes
  /\ "" \notin Notes
  /\ Admins \cap Pollers = {} /\ Admins \cap Runners = {} /\ Pollers \cap Runners = {}
ASSUME RevisionAssumption == MaxRevision \in Nat

VARIABLES
  status,     \* [Rows -> "none" | "pending" | "manual" | "applied"]
  target,     \* [Rows -> task_quota_target]; the funding delta is target - Reservation
  reviewer,   \* [Rows -> reconciliation_reviewed_by]
  note,       \* [Rows -> reconciliation_review_note]
  revision,   \* revision of the original row
  hold,       \* why the original is held: "usage" (promotable), "other", "failed"
  committed,  \* history: the rows whose own balance legs were committed
  taskQuota,  \* Task.Quota
  wallet,     \* what the settlements have given back to the user
  mirror,     \* the account mirrors (token used quota) cover a refund
  pc,         \* [Proc -> program counter]
  row,        \* [Runners -> the row the retry loop applies]
  op,         \* [Admins -> the request: revision, quota, note]
  replay,     \* [Admins -> the original was found resolved]
  quotaSeen,  \* [Admins -> Task.Quota as read by the preparation]
  polled      \* [Pollers -> the quota computed from the provider's usage]

rowVars == <<status, target, reviewer, note, revision, hold, committed>>
balanceVars == <<taskQuota, wallet, mirror>>
localVars == <<row, op, replay, quotaSeen, polled>>
vars == <<rowVars, balanceVars, localVars, pc>>

Request == [revision: 0..MaxRevision, quota: ApprovedQuotas, note: Notes]
NoRequest == [revision |-> 0, quota |-> CHOOSE q \in ApprovedQuotas : TRUE, note |-> DefaultNote]

Init ==
  /\ status = [r \in Rows |-> IF r = "original" THEN "manual" ELSE "none"]
  /\ target = [r \in Rows |-> Reservation]
  /\ reviewer = [r \in Rows |-> Nobody]
  /\ note = [r \in Rows |-> ""]
  /\ revision = 1
  /\ hold \in {"usage", "other"}
  /\ committed = {}
  /\ taskQuota = Reservation
  /\ wallet = 0
  /\ mirror \in BOOLEAN
  /\ pc = [p \in Proc |-> "idle"]
  /\ row = [p \in Runners |-> "original"]
  /\ op = [a \in Admins |-> NoRequest]
  /\ replay = [a \in Admins |-> FALSE]
  /\ quotaSeen = [a \in Admins |-> Reservation]
  /\ polled = [p \in Pollers |-> Reservation]

Goto(p, label) == pc' = [pc EXCEPT ![p] = label]
Idle(p) == pc[p] \in {"idle", "ok"}

(* A request, a poll or a retry that fails forgets what it had read. *)
Abandon(p) ==
  /\ Goto(p, "idle")
  /\ row' = [r \in Runners |-> IF r = p THEN "original" ELSE row[r]]
  /\ op' = [a \in Admins |-> IF a = p THEN NoRequest ELSE op[a]]
  /\ replay' = [a \in Admins |-> a # p /\ replay[a]]
  /\ quotaSeen' = [a \in Admins |-> IF a = p THEN Reservation ELSE quotaSeen[a]]
  /\ polled' = [q \in Pollers |-> IF q = p THEN Reservation ELSE polled[q]]

-----------------------------------------------------------------------------
(* The administrator's request: validation. *)

(* The child is applied, and carries the approval it is resolved with.     *)
Approved(r, n) ==
  status["child"] = "applied" /\ reviewer["child"] = r /\ note["child"] = n

(* The request names the revision shown to the administrator, which may be *)
(* an old one.                                                             *)
Begin(a, o) ==
  /\ Idle(a)
  /\ o.revision \in 1..revision
  /\ op' = [op EXCEPT ![a] = o]
  /\ Goto(a, "load")
  /\ UNCHANGED <<rowVars, balanceVars, replay, quotaSeen, polled, row>>

(* The original is held at the expected revision, or it has been resolved  *)
(* one revision later by an approved child (a retried request).            *)
HeldAt(e) == status["original"] = "manual" /\ revision = e
ResolvedAt(e) ==
  /\ status["original"] = "applied"
  /\ revision = e + 1
  /\ reviewer["original"] # Nobody
  /\ Approved(reviewer["original"], note["original"])

Load(a) ==
  /\ pc[a] = "load"
  /\ \/ /\ HeldAt(op[a].revision) \/ ResolvedAt(op[a].revision)
        /\ target["original"] = Reservation
        /\ replay' = [replay EXCEPT ![a] = status["original"] = "applied"]
        /\ Goto(a, "task")
        /\ UNCHANGED <<op, quotaSeen, polled, row>>
     \/ /\ ~(HeldAt(op[a].revision) \/ ResolvedAt(op[a].revision)) \/ target["original"] # Reservation
        /\ Abandon(a)
  /\ UNCHANGED <<rowVars, balanceVars>>

ReadTask(a) ==
  /\ pc[a] = "task"
  /\ quotaSeen' = [quotaSeen EXCEPT ![a] = taskQuota]
  /\ Goto(a, "prepare")
  /\ UNCHANGED <<rowVars, balanceVars, op, replay, polled, row>>

(* A child that exists fixes the quota; the task still has its reservation *)
(* unless that child has settled it.  A replay must come from the reviewer *)
(* of the resolution, whose note replaces a generated one.                 *)
Eligible(a) ==
  /\ status["child"] # "none" => target["child"] = op[a].quota
  /\ quotaSeen[a] # Reservation => quotaSeen[a] = op[a].quota /\ status["child"] = "applied"
  /\ replay[a] =>
       /\ reviewer["original"] = a
       /\ op[a].note \in {note["original"], DefaultNote}

Prepare(a) ==
  /\ pc[a] = "prepare"
  /\ \/ /\ Eligible(a)
        /\ op' = [op EXCEPT ![a].note = IF replay[a] THEN note["original"] ELSE @]
        /\ replay' = [replay EXCEPT ![a] = FALSE]
        /\ quotaSeen' = [quotaSeen EXCEPT ![a] = Reservation]
        /\ Goto(a, "ensure")
        /\ UNCHANGED <<polled, row>>
     \/ ~Eligible(a) /\ Abandon(a)
  /\ UNCHANGED <<rowVars, balanceVars>>

-----------------------------------------------------------------------------
(* The administrator's request: approval, application, resolution. *)

(* The child is inserted together with its approval.                       *)
InsertChild(a) ==
  /\ status["child"] = "none"
  /\ status' = [status EXCEPT !["child"] = "pending"]
  /\ target' = [target EXCEPT !["child"] = op[a].quota]
  /\ reviewer' = [reviewer EXCEPT !["child"] = a]
  /\ note' = [note EXCEPT !["child"] = op[a].note]

(* The approval on the child is the one of this request.                   *)
OwnApproval(a) ==
  /\ target["child"] = op[a].quota
  /\ reviewer["child"] = a
  /\ note["child"] = op[a].note

(* A held child is reopened by the administrator who approved it.          *)
Reapprove(a) ==
  /\ status["child"] = "manual"
  /\ OwnApproval(a)
  /\ status' = [status EXCEPT !["child"] = "pending"]
  /\ UNCHANGED <<target, reviewer, note>>

EnsureApproval(a) ==
  /\ pc[a] = "ensure"
  /\ \/ /\ \/ InsertChild(a)
           \/ Reapprove(a)
           \/ /\ status["child"] \in {"pending", "applied"}
              /\ OwnApproval(a)
              /\ UNCHANGED <<status, target, reviewer, note>>
        /\ Goto(a, "apply")
        /\ UNCHANGED localVars
     \/ /\ status["child"] # "none"
        /\ ~OwnApproval(a)
        /\ Abandon(a)
        /\ UNCHANGED <<status, target, reviewer, note>>
  /\ UNCHANGED <<revision, hold, committed, balanceVars>>

(* The task's quota is read back before the original is closed.            *)
Check(a) ==
  /\ pc[a] = "check"
  /\ IF taskQuota = op[a].quota THEN Goto(a, "resolve") /\ UNCHANGED localVars ELSE Abandon(a)
  /\ UNCHANGED <<rowVars, balanceVars>>

Resolvable(a) ==
  /\ Approved(a, op[a].note)
  /\ HeldAt(op[a].revision)

AlreadyResolved(a) ==
  /\ Approved(a, op[a].note)
  /\ status["original"] = "applied"
  /\ revision = op[a].revision + 1
  /\ reviewer["original"] = a
  /\ note["original"] = op[a].note

Resolve(a) ==
  /\ pc[a] = "resolve"
  /\ \/ /\ Resolvable(a)
        /\ status' = [status EXCEPT !["original"] = "applied"]
        /\ reviewer' = [reviewer EXCEPT !["original"] = a]
        /\ note' = [note EXCEPT !["original"] = op[a].note]
        /\ revision' = revision + 1
        /\ Goto(a, "ok")
        /\ UNCHANGED localVars
     \/ /\ ~Resolvable(a)
        /\ IF AlreadyResolved(a) THEN Goto(a, "ok") /\ UNCHANGED localVars ELSE Abandon(a)
        /\ UNCHANGED <<status, reviewer, note, revision>>
  /\ UNCHANGED <<target, hold, committed, balanceVars>>

-----------------------------------------------------------------------------
(* The poller reopens the original. *)

(* A poll of an unsettled task returned complete usage.                    *)
Poll(p, q) ==
  /\ Idle(p)
  /\ status["original"] \in {"manual", "pending"}
  /\ polled' = [polled EXCEPT ![p] = q]
  /\ Goto(p, "promote")
  /\ UNCHANGED <<rowVars, balanceVars, op, replay, quotaSeen, row>>

(* Only a row held for missing usage that still carries no delta.  The     *)
(* audit note of the reopening is no review and is left out.               *)
Promotable ==
  /\ status["original"] = "manual"
  /\ hold = "usage"
  /\ target["original"] = Reservation

Promote(p) ==
  /\ pc[p] = "promote"
  /\ \/ /\ Promotable
        /\ revision < MaxRevision
        /\ status' = [status EXCEPT !["original"] = "pending"]
        /\ target' = [target EXCEPT !["original"] = polled[p]]
        /\ reviewer' = [reviewer EXCEPT !["original"] = Nobody]
        /\ note' = [note EXCEPT !["original"] = ""]
        /\ revision' = revision + 1
        /\ hold' = "failed"
        /\ UNCHANGED committed
        /\ Goto(p, "apply")
        /\ UNCHANGED localVars
     \/ /\ ~Promotable
        /\ IF status["original"] # "manual" /\ target["original"] = polled[p]
           THEN Goto(p, "apply") /\ UNCHANGED localVars
           ELSE Abandon(p)
        /\ UNCHANGED rowVars
  /\ UNCHANGED balanceVars

-----------------------------------------------------------------------------
(* ApplyBillingSettlementOnce on either row. *)

(* The retry loop takes a pending row.                                     *)
RunnerTake(p, r) ==
  /\ Idle(p)
  /\ status[r] = "pending"
  /\ row' = [row EXCEPT ![p] = r]
  /\ Goto(p, "apply")
  /\ UNCHANGED <<rowVars, balanceVars, op, replay, quotaSeen, polled>>

AnyQuota(r) == mirror \/ target[r] = Reservation  \* regression: no compare of Task.Quota

(* The balance legs accept the row: the task has the quota the row was     *)
(* computed from, and the mirrors cover a refund.                          *)
LegsHold(r) ==
  /\ taskQuota = Reservation
  /\ mirror \/ target[r] = Reservation

RowOf(p) == IF p \in Admins THEN "child" ELSE IF p \in Pollers THEN "original" ELSE row[p]

(* The administrator's request goes on; a poll or a retry is over.         *)
Applied(p) ==
  IF p \in Admins THEN Goto(p, "check") /\ UNCHANGED localVars ELSE Abandon(p)

ApplyCommits(p) ==
  /\ pc[p] = "apply"
  /\ status[RowOf(p)] = "pending"
  /\ LegsHold(RowOf(p))
  /\ status' = [status EXCEPT ![RowOf(p)] = "applied"]
  /\ taskQuota' = target[RowOf(p)]
  /\ wallet' = wallet + (Reservation - target[RowOf(p)])
  /\ revision' = IF RowOf(p) = "original" THEN revision + 1 ELSE revision
  /\ committed' = committed \cup {RowOf(p)}
  /\ Applied(p)
  /\ UNCHANGED <<target, reviewer, note, hold, mirror>>

ApplyFindsApplied(p) ==
  /\ pc[p] = "apply"
  /\ status[RowOf(p)] = "applied"
  /\ Applied(p)
  /\ UNCHANGED <<rowVars, balanceVars>>

(* A held row, or legs that do not hold: a permanent error.  A pending row *)
(* may also meet an error of the database, which is retried.               *)
ApplyRefuses(p) ==
  /\ pc[p] = "apply"
  /\ status[RowOf(p)] = "manual" \/ (status[RowOf(p)] = "pending" /\ ~LegsHold(RowOf(p)))
  /\ Goto(p, "hold")
  /\ UNCHANGED <<rowVars, balanceVars, localVars>>

ApplyFails(p) ==
  /\ pc[p] = "apply"
  /\ status[RowOf(p)] = "pending"
  /\ Goto(p, "retry")
  /\ UNCHANGED <<rowVars, balanceVars, localVars>>

MarkAndReset(p) ==  \* regression: a failure always withdraws the review
  /\ IF status[RowOf(p)] = "pending" /\ (RowOf(p) = "original" => revision < MaxRevision)
     THEN /\ status' = [status EXCEPT ![RowOf(p)] = IF pc[p] = "hold" THEN "manual" ELSE "pending"]
          /\ reviewer' = [reviewer EXCEPT ![RowOf(p)] = Nobody]
          /\ note' = [note EXCEPT ![RowOf(p)] = ""]
          /\ revision' = IF RowOf(p) = "original" THEN revision + 1 ELSE revision
     ELSE UNCHANGED <<status, reviewer, note, revision>>

UnguardedFailure(p) ==  \* regression: the failure is recorded whatever became of the row
  /\ status' = [status EXCEPT ![RowOf(p)] = IF pc[p] = "hold" THEN "manual" ELSE "pending"]
  /\ UNCHANGED <<reviewer, note, revision>>

(* A failure that is news withdraws the review of the original, whoever    *)
(* made it; what is news was judged from a reading of the row one round    *)
(* trip ago, so any failure may be.  The approval a child was recorded     *)
(* with is never withdrawn.                                                *)
WithdrawReview(r) ==
  /\ r = "original"
  /\ reviewer' = [reviewer EXCEPT !["original"] = Nobody]
  /\ note' = [note EXCEPT !["original"] = ""]

(* Only a pending row is marked.                                           *)
RecordFailure(p) ==
  IF status[RowOf(p)] = "pending" /\ (RowOf(p) = "original" => revision < MaxRevision)
  THEN /\ status' = [status EXCEPT ![RowOf(p)] = IF pc[p] = "hold" THEN "manual" ELSE "pending"]
       /\ WithdrawReview(RowOf(p)) \/ UNCHANGED <<reviewer, note>>
       /\ revision' = IF RowOf(p) = "original" THEN revision + 1 ELSE revision
  ELSE UNCHANGED <<status, reviewer, note, revision>>

Mark(p) ==
  /\ pc[p] \in {"hold", "retry"}
  /\ RecordFailure(p)
  /\ Abandon(p)
  /\ UNCHANGED <<target, hold, committed, balanceVars>>

-----------------------------------------------------------------------------
(* Reviews of the alert, singly (with a note) or in a batch (without one,  *)
(* and only if nobody has reviewed it).                                    *)

(* A held task that nothing has been decided for needs an exact quota.     *)
RequiresCompletion == status["original"] = "manual" /\ target["original"] = Reservation

(* The review compares the revision it read, and whatever the refusal      *)
(* looks at moves the revision, so it is one step.  It writes the reviewer *)
(* and the note, and no revision.  A child is never reviewed.              *)
ReviewOriginal(a, n) ==
  /\ status["original"] \in {"pending", "manual"}
  /\ ~RequiresCompletion
  /\ n = "" => reviewer["original"] = Nobody
  /\ reviewer' = [reviewer EXCEPT !["original"] = a]
  /\ note' = [note EXCEPT !["original"] = n]
  /\ UNCHANGED <<status, target, revision, hold, committed, balanceVars, localVars, pc>>

-----------------------------------------------------------------------------
(* The environment. *)

(* The process serving a request, a poll or a retry is killed.             *)
Crash(p) ==
  /\ ~Idle(p)
  /\ Abandon(p)
  /\ UNCHANGED <<rowVars, balanceVars>>

(* An operator repairs the account mirrors.                                *)
Repair ==
  /\ ~mirror
  /\ mirror' = TRUE
  /\ UNCHANGED <<rowVars, taskQuota, wallet, localVars, pc>>

Apply(p) == ApplyCommits(p) \/ ApplyFindsApplied(p) \/ ApplyRefuses(p) \/ ApplyFails(p) \/ Mark(p)
Complete(a) ==
  \/ \E o \in Request : Begin(a, o)
  \/ Load(a) \/ ReadTask(a) \/ Prepare(a) \/ EnsureApproval(a) \/ Check(a) \/ Resolve(a)

Next ==
  \/ \E a \in Admins : Complete(a) \/ \E n \in Notes \cup {""} : ReviewOriginal(a, n)
  \/ \E p \in Pollers : (\E q \in PolledQuotas : Poll(p, q)) \/ Promote(p)
  \/ \E p \in Runners, r \in Rows : RunnerTake(p, r)
  \/ \E p \in Proc : Apply(p) \/ Crash(p)
  \/ Repair

Spec == Init /\ [][Next]_vars

-----------------------------------------------------------------------------
TypeOK ==
  /\ status \in [Rows -> {"none", "pending", "manual", "applied"}]
  /\ target \in [Rows -> 0..Reservation]
  /\ reviewer \in [Rows -> Admins \cup {Nobody}]
  /\ note \in [Rows -> Notes \cup {""}]
  /\ revision \in Nat
  /\ hold \in {"usage", "other", "failed"}
  /\ committed \subseteq Rows /\ mirror \in BOOLEAN
  /\ taskQuota \in 0..Reservation
  /\ wallet \in Int
  /\ pc \in [Proc -> {"idle", "load", "task", "prepare", "ensure", "promote", "apply",
                      "hold", "retry", "check", "resolve", "ok"}]
  /\ row \in [Runners -> Rows]
  /\ op \in [Admins -> [revision: Nat, quota: ApprovedQuotas, note: Notes]]
  /\ replay \in [Admins -> BOOLEAN]
  /\ quotaSeen \in [Admins -> 0..Reservation]
  /\ polled \in [Pollers -> 0..Reservation]

(* The approval of a child never changes hands: neither a failure, nor     *)
(* another administrator, nor a retry rewrites who approved what.          *)
ApprovalIsFinal ==
  [][status["child"] # "none" =>
       /\ target'["child"] = target["child"]
       /\ reviewer'["child"] = reviewer["child"]
       /\ note'["child"] = note["child"]]_vars

(* An administrator who is told that the completion succeeded finds the    *)
(* original closed with his own approval and the task at the quota he      *)
(* asked for, and nothing undoes it later.                                 *)
SuccessIsTrue == \A a \in Admins : pc[a] = "ok" =>
  /\ status["original"] = "applied"
  /\ reviewer["original"] = a
  /\ taskQuota = op[a].quota

(* No refund without a recorded approval: a child that was applied, or may *)
(* be applied by the retry loop, carries the reviewer and the note it was  *)
(* approved with.  And an original that counts as applied although its own *)
(* legs never were is backed by its child: applied, approved by the        *)
(* administrator and with the note the original names, alone, and the task *)
(* has the quota of that child.  No promotion is closed over, and no       *)
(* review of the alert counts as a completion                              *)
(* (ResolveManualTaskBillingSettlement, ReviewBillingSettlement).  Every   *)
(* variable keeps its type besides.                                        *)
ClosedByApproval ==
  /\ TypeOK
  /\ status["child"] # "none" => reviewer["child"] # Nobody /\ note["child"] # ""
  /\ status["original"] = "applied" /\ "original" \notin committed =>
       /\ reviewer["original"] # Nobody
       /\ Approved(reviewer["original"], note["original"])
       /\ committed = {"child"}
       /\ taskQuota = target["child"]

(* A refund that an administrator approved and that was paid is the        *)
(* final word on the task's quota: a promotion that comes later is refused *)
(* by the compare of Task.Quota.                                           *)
PaidApprovalStands ==
  status["child"] = "applied" /\ target["child"] < Reservation => taskQuota = target["child"]

(* The same without the condition that something was paid back: also an    *)
(* approved quota equal to the reservation is the final one.  It does not  *)
(* hold: the compare of Task.Quota cannot see such an approval.            *)
ApprovedQuotaStands == status["child"] = "applied" => taskQuota = target["child"]

(* However approvals, promotions and retries interleave, the task is       *)
(* settled the way a user sees it: once, and visibly in Task.Quota.        *)
Promise == INSTANCE TaskQuota WITH Quotas <- 0..Reservation, quota <- taskQuota, refunded <- wallet
ImplementsTaskQuota == Promise!Spec
=============================================================================

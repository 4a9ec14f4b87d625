---------------------------- MODULE BillingReview ----------------------------
(***************************************************************************)
(* The positive final settlements of one user that have not gone through,  *)
(* seen by an administrator: each is an open alert until it is applied or  *)
(* reviewed, and stays one when the review says that the user is blocked.  *)
(*                                                                         *)
(* Reviews run against the retries of the same rows.  A failure record is  *)
(* two round trips (markBillingSettlementFailure reads the row, then       *)
(* updates it), a single review two more (ReviewBillingSettlement), a      *)
(* batch review one transaction (ReviewBillingSettlements) on the          *)
(* revisions that were on the administrator's screen.  Nothing serialises  *)
(* the recorders: the caller of a settlement and the runner of every node  *)
(* may have read one row before either updates it.                         *)
(***************************************************************************)
EXTENDS Integers, FiniteSets

CONSTANTS
  Records,      \* the user's finalize rows with a positive funding delta
  Markers,      \* processes that apply a row and record its failure
  Reviewers,    \* administrators at the reconciliation console
  Nobody,       \* reconciliation_reviewed_by = 0
  Transient,    \* causes that leave a row pending
  Permanent,    \* causes that hold a row for manual reconciliation
  MaxRevision   \* bound on the revisions of a row

ASSUME RevisionAssumption == MaxRevision \in Nat \ {0}
ASSUME NameAssumption ==
  /\ Nobody \notin Reviewers
  /\ "" \notin Transient \cup Permanent
  /\ Transient \cap Permanent = {}
  /\ Markers \cap Reviewers = {}

VARIABLES
  row,          \* [Records -> the stored row]
  pc,           \* [process -> program counter]
  failing,      \* [Markers -> the row, the cause, and the row as it was read]
  shown,        \* [Reviewers -> the rows on the administrator's screen]
  snapshot,     \* [Reviewers -> the row read by a single review]
  target,       \* [Reviewers -> the row of a single review]
  evidence,     \* history: what a row's last review was a review of
  overtaken     \* history: since then, an update was not of the row its recorder had read

vars == <<row, pc, failing, shown, snapshot, target, evidence, overtaken>>
locals == <<failing, shown, snapshot, target>>
history == <<evidence, overtaken>>

Proc == Markers \cup Reviewers
Statuses == {"none", "pending", "manual", "applied"}
Causes == Transient \cup Permanent
Row == [status: Statuses, error: Causes \cup {""}, revision: 0..MaxRevision,
        reviewer: Reviewers \cup {Nobody}, override: {"null", "allow", "block"}]
NoRow == [status |-> "none", error |-> "", revision |-> 0, reviewer |-> Nobody, override |-> "null"]

(* What an administrator decides on: why the row is stuck, and how.        *)
EvidenceOf(r) == <<r.status, r.error>>

Init ==
  /\ row = [r \in Records |-> NoRow]
  /\ pc = [p \in Proc |-> "idle"]
  /\ failing = [m \in Markers |-> [row |-> NoRow, cause |-> "", id |-> CHOOSE r \in Records : TRUE]]
  /\ shown = [a \in Reviewers |-> [r \in Records |-> NoRow]]
  /\ snapshot = [a \in Reviewers |-> NoRow]
  /\ target = [a \in Reviewers |-> CHOOSE r \in Records : TRUE]
  /\ evidence = [r \in Records |-> <<"none", "">>]
  /\ overtaken = [r \in Records |-> FALSE]

Goto(p, label) == pc' = [pc EXCEPT ![p] = label]

-----------------------------------------------------------------------------
(* The scopes of the reconciliation queries. *)

Unresolved(r) == r.status \in {"pending", "manual"}
Reviewed(r) == r.reviewer # Nobody
Open(r) == Unresolved(r) /\ (~Reviewed(r) \/ r.override = "block")

-----------------------------------------------------------------------------
(* The retries: a row is applied, or its failure is recorded. *)

(* The finalization of an accepted request is recorded before it is applied. *)
Record(m, r) ==
  /\ pc[m] = "idle"
  /\ row[r].status = "none"
  /\ row' = [row EXCEPT ![r].status = "pending", ![r].revision = 1]
  /\ UNCHANGED <<pc, locals, history>>

Apply(m, r) ==
  /\ pc[m] = "idle"
  /\ row[r].status = "pending"
  /\ row[r].revision < MaxRevision
  /\ row' = [row EXCEPT ![r].status = "applied", ![r].error = "", ![r].revision = @ + 1]
  /\ UNCHANGED <<pc, locals, history>>

Fail(m, r, cause) ==
  /\ pc[m] = "idle"
  /\ row[r].status = "pending"
  /\ failing' = [failing EXCEPT ![m] = [row |-> NoRow, cause |-> cause, id |-> r]]
  /\ Goto(m, "failed")
  /\ UNCHANGED <<row, shown, snapshot, target, history>>

ReadFailed(m) ==
  /\ pc[m] = "failed"
  /\ failing' = [failing EXCEPT ![m].row = row[failing[m].id]]
  /\ Goto(m, "mark")
  /\ UNCHANGED <<row, shown, snapshot, target, history>>

StatusAfter(cause) == IF cause \in Permanent THEN "manual" ELSE "pending"

(* Whether the failure is news, judged from the row as it was read.        *)
StatusOnlyReset(f) == StatusAfter(f.cause) # f.row.status  \* regression: another error is not news

ResetReview(f) ==
  \/ f.cause # f.row.error
  \/ StatusAfter(f.cause) # f.row.status

AlwaysReset(r, f) ==  \* regression: every failure withdraws the review
  [r EXCEPT !.status = StatusAfter(f.cause), !.error = f.cause, !.revision = @ + 1,
            !.reviewer = Nobody, !.override = "null"]

Marked(r, f) ==
  LET kept == [r EXCEPT !.status = StatusAfter(f.cause), !.error = f.cause, !.revision = @ + 1]
  IN IF ResetReview(f) THEN [kept EXCEPT !.reviewer = Nobody, !.override = "null"] ELSE kept

(* The row has been updated since this process read it.                    *)
Overtaken(m) == failing[m].row.revision # row[failing[m].id].revision

(* The update is guarded by the status alone, not by the revision read.    *)
Mark(m) ==
  /\ pc[m] = "mark"
  /\ LET f == failing[m] IN
       IF row[f.id].status = "pending"
         THEN /\ row[f.id].revision < MaxRevision
              /\ row' = [row EXCEPT ![f.id] = Marked(@, f)]
              /\ overtaken' = [overtaken EXCEPT ![f.id] = @ \/ Overtaken(m)]
         ELSE UNCHANGED <<row, overtaken>>
  /\ failing' = [failing EXCEPT ![m] = [row |-> NoRow, cause |-> "", id |-> @.id]]
  /\ Goto(m, "idle")
  /\ UNCHANGED <<shown, snapshot, target, evidence>>

-----------------------------------------------------------------------------
(* The administrators. *)

(* The console lists the open alerts.                                      *)
Show(a) ==
  /\ pc[a] = "idle"
  /\ \E r \in Records : Unresolved(row[r])
  /\ shown' = [shown EXCEPT ![a] = row]
  /\ Goto(a, "shown")
  /\ UNCHANGED <<row, failing, snapshot, target, history>>

Leave(a) ==
  /\ Goto(a, "idle")
  /\ shown' = [shown EXCEPT ![a] = [r \in Records |-> NoRow]]
  /\ snapshot' = [snapshot EXCEPT ![a] = NoRow]
  /\ UNCHANGED <<failing, target>>

(* Every named row is still open at the revision that was shown.           *)
Closable(a, R) == \A r \in R : Open(row[r]) /\ row[r].revision = shown[a][r].revision

(* One transaction over all named rows: all are closed, or none is.        *)
ReviewBatch(a, R) ==
  /\ pc[a] = "shown"
  /\ \A r \in R : Open(shown[a][r])
  /\ IF Closable(a, R)
       THEN /\ row' = [r \in Records |-> IF r \in R
                         THEN [row[r] EXCEPT !.reviewer = a, !.override = "allow"] ELSE row[r]]
            /\ evidence' = [r \in Records |-> IF r \in R THEN EvidenceOf(shown[a][r]) ELSE evidence[r]]
            /\ overtaken' = [r \in Records |-> r \notin R /\ overtaken[r]]
       ELSE UNCHANGED <<row, history>>
  /\ Leave(a)

(* A single review names the row but no revision: it reads the row first.  *)
ReadForReview(a, r) ==
  /\ pc[a] = "shown"
  /\ Unresolved(shown[a][r])
  /\ snapshot' = [snapshot EXCEPT ![a] = row[r]]
  /\ target' = [target EXCEPT ![a] = r]
  /\ Goto(a, "review")
  /\ UNCHANGED <<row, failing, shown, history>>

UnreviewedSince(a) ==  \* regression: the revision is not compared
  LET r == row[target[a]] IN
    Unresolved(r) /\ r.reviewer = snapshot[a].reviewer /\ r.override = snapshot[a].override

(* billingSettlementReviewSnapshotScope: the row as it was read.           *)
Unchanged(a) ==
  LET r == row[target[a]] IN
    /\ Unresolved(r)
    /\ r.revision = snapshot[a].revision
    /\ r.reviewer = snapshot[a].reviewer
    /\ r.override = snapshot[a].override

Review(a, decision) ==
  /\ pc[a] = "review"
  /\ IF Unchanged(a)
       THEN /\ row' = [row EXCEPT ![target[a]].reviewer = a, ![target[a]].override = decision]
            /\ evidence' = [evidence EXCEPT ![target[a]] = EvidenceOf(snapshot[a])]
            /\ overtaken' = [overtaken EXCEPT ![target[a]] = FALSE]
       ELSE UNCHANGED <<row, history>>
  /\ Leave(a)

Next ==
  \/ \E m \in Markers, r \in Records :
       Record(m, r) \/ Apply(m, r) \/ \E c \in Causes : Fail(m, r, c)
  \/ \E m \in Markers : ReadFailed(m) \/ Mark(m)
  \/ \E a \in Reviewers :
       \/ Show(a)
       \/ \E R \in SUBSET Records \ {{}} : ReviewBatch(a, R)
       \/ \E r \in Records : ReadForReview(a, r)
       \/ \E d \in {"allow", "block"} : Review(a, d)

Spec == Init /\ [][Next]_vars

-----------------------------------------------------------------------------
(* Properties. *)

(* The rows, and the programs' positions, have their shape; only a stored  *)
(* row has a revision.                                                     *)
TypeOK ==
  /\ row \in [Records -> Row]
  /\ \A r \in Records : row[r].status = "none" <=> row[r].revision = 0
  /\ \A r \in Records : Reviewed(row[r]) <=> row[r].override # "null"
  /\ pc \in [Proc -> {"idle", "failed", "mark", "shown", "review"}]
  /\ overtaken \in [Records -> BOOLEAN]

(* A review stands only for the failure it was made on ("new failure       *)
(* evidence must reopen the operational alert",                            *)
(* TestBillingSettlementFailureReopensReviewedRecord) as long as every     *)
(* recorder since updated the row that it had read.  Every variable keeps  *)
(* its type besides.                                                       *)
ReviewMatchesEvidence ==
  /\ TypeOK
  /\ \A r \in Records :
       Unresolved(row[r]) /\ Reviewed(row[r]) /\ ~overtaken[r] => evidence[r] = EvidenceOf(row[r])

(* What the test says of every failure, without that exception.  It does   *)
(* not hold: an overtaken recorder stores its own cause and keeps a review *)
(* of the other one.                                                       *)
NewFailureReopens ==
  \A r \in Records : Unresolved(row[r]) /\ Reviewed(row[r]) => evidence[r] = EvidenceOf(row[r])

(* A review is written over nothing its administrator could not know: the  *)
(* row is stuck as it was on the screen of a batch, or is in every respect *)
(* as the single review read it ("the newer failure must remain visible    *)
(* for administrator review",                                              *)
(* TestReviewBillingSettlementRejectsStaleFailureEvidence).                *)
ReviewsReplaceWhatTheyRead ==
  [][\A r \in Records, a \in Reviewers :
       row'[r] # row[r] /\ pc[a] # "idle" /\ pc'[a] = "idle" =>
         /\ Unresolved(row[r])
         /\ pc[a] = "shown" => EvidenceOf(row[r]) = EvidenceOf(shown[a][r])
         /\ pc[a] = "review" => target[a] = r /\ row[r] = snapshot[a]]_vars

(* Deciding that a user stays blocked is not undone by a retry of the row  *)
(* that repeats the same failure, nor by what happens to other rows: a     *)
(* step that lifts an explicit block is a review, brings new evidence, or  *)
(* applies -- or is the update of a recorder that another one overtook.    *)
BlockIsLiftedOnPurpose ==
  [][\A r \in Records :
       row[r].override = "block" /\ row'[r].override # "block" =>
         \/ \E a \in Reviewers : pc[a] \in {"shown", "review"} /\ pc'[a] = "idle" /\ row'[r].reviewer = a
         \/ EvidenceOf(row'[r]) # EvidenceOf(row[r])
         \/ \E m \in Markers :
              pc[m] = "mark" /\ pc'[m] = "idle" /\ failing[m].id = r /\ Overtaken(m)]_vars
=============================================================================

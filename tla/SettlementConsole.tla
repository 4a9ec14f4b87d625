--------------------------- MODULE SettlementConsole ---------------------------
(***************************************************************************)
(* The reconciliation page of the web console (features/smart-ops) beside  *)
(* the endpoints it calls (service/smart_ops_alert.go).  The page shows a  *)
(* list that is fetched every ALERT_POLL_INTERVAL_MS and again after every *)
(* mutation; an administrator closes ordinary alerts, settles MiniMax-H3   *)
(* tasks at zero, or types an exact quota for every task selected.  A      *)
(* request names the revisions that were shown.  Meanwhile other processes *)
(* and another administrator write the same rows, an answer is lost while  *)
(* the server goes on, and the administrator tries again, perhaps with     *)
(* another quota.                                                          *)
(*                                                                         *)
(* A completion is one step here, or one that stops half-way with the      *)
(* quota approved: ManualCompletion has its transactions.  The dialogs are *)
(* modal, so that one is open at a time.                                   *)
(***************************************************************************)
EXTENDS Integers, FiniteSets

CONSTANTS
  Ids,          \* rows of billing_settlements
  Quotas,       \* final quotas an administrator may type, 0 among them
  NoQuota,      \* nothing approved yet
  Calls,        \* bound: the requests the administrator sends
  MaxRevision,  \* bound on the revisions other processes reach
  MaxFaults     \* bound: lost answers, failed fetches and half-way stops

ASSUME QuotaAssumption == Quotas \subseteq Nat /\ 0 \in Quotas /\ NoQuota \notin Quotas
ASSUME BoundAssumption == MaxRevision \in Nat \ {0} /\ MaxFaults \in Nat

VARIABLES
  kind,      \* [Ids -> "request" | "task" | "h3"], never written
  root,      \* the administrator is a super administrator, never written
  row,       \* [Ids -> [status, revision, review, quota]]
  call,      \* [Calls -> a request at the server]
  view,      \* [items, error, loaded]: the query's data and error
  get,       \* [pc, items]: the GET of the list that is under way
  selected,  \* selectedTargets: [Ids -> revision], 0 where absent
  dialog,    \* [kind, targets]: the item, batch or zero dialog
  mutation,  \* [pc, call, listed]: the mutation that is pending
  faults,    \* history, bounded by MaxFaults
  told       \* history: what the page was told is closed or settled

server == <<row, call>>
page == <<view, get, selected, dialog, mutation, told>>
fixed == <<kind, root>>
vars == <<fixed, server, page, faults>>

Revision == 0..MaxRevision + 1
NoTargets == [i \in Ids |-> 0]
Target == [revision: Revision, quota: Quotas \cup {NoQuota}]
NoTarget == [revision |-> 0, quota |-> NoQuota]
NoItem == [revision |-> 0, needs |-> "none"]
NoItems == [i \in Ids |-> NoItem]
NoFailures == [i \in Ids |-> "none"]
NoCall == [pc |-> "free", kind |-> "none", targets |-> [i \in Ids |-> NoTarget],
           todo |-> {}, done |-> {}, failed |-> NoFailures]
Over == [NoCall EXCEPT !.pc = "over"]
NoDialog == [kind |-> "none", targets |-> NoTargets]
NoMutation == [pc |-> "none", call |-> CHOOSE c \in Calls : TRUE, listed |-> FALSE]
NoGet == [pc |-> "none", items |-> NoItems]

Init ==
  /\ kind \in [Ids -> {"request", "task", "h3"}] /\ root \in BOOLEAN
  /\ row \in [Ids -> {[status |-> s, revision |-> 1, review |-> "none", quota |-> NoQuota] :
                      s \in {"pending", "manual"}}]
  /\ call = [c \in Calls |-> NoCall]
  /\ view = [items |-> NoItems, error |-> FALSE, loaded |-> FALSE]
  /\ get = [NoGet EXCEPT !.pc = "sent"]
  /\ selected = NoTargets /\ dialog = NoDialog /\ mutation = NoMutation
  /\ faults = 0 /\ told = {}

Fault == faults < MaxFaults /\ faults' = faults + 1

-----------------------------------------------------------------------------
(* The rows. *)

(* Only the final settlement of a task that is held asks for a quota.       *)
Needs(i) == IF kind[i] = "request" \/ row[i].status # "manual" THEN "ordinary"
            ELSE IF kind[i] = "h3" THEN "zero" ELSE "exact"
(* openBillingReconciliationAlertScope: not reviewed, or blocked on purpose. *)
Listed == {i \in Ids : row[i].status \in {"pending", "manual"} /\ row[i].review # "closed"}

(* Another process writes a row: a failure is recorded, which may withdraw  *)
(* the review; the retry is applied; a later poll reopens a held task.      *)
Rewrite(i) ==
  /\ row[i].revision < MaxRevision
  /\ \E s \in {"pending", "manual", "applied"}, v \in {row[i].review, "none"} :
       /\ row[i].status = "pending" \/ (row[i].status = "manual" /\ kind[i] # "request" /\ s = "pending")
       /\ s # row[i].status => v = IF s = "applied" THEN row[i].review ELSE "none"
       /\ row' = [row EXCEPT ![i].status = s, ![i].review = v, ![i].revision = @ + 1]
  /\ UNCHANGED <<fixed, call, page, faults>>

(* What ReviewBillingSettlement may make of a row: the user of a request is *)
(* let go or stays blocked.                                                 *)
Decisions(i) == {"closed"} \cup (IF kind[i] = "request" THEN {"blocked"} ELSE {})

(* Another administrator decides about one record, closed or not: the       *)
(* revision stays.                                                          *)
ReviewElsewhere(i) ==
  /\ row[i].status \in {"pending", "manual"} /\ Needs(i) = "ordinary"
  /\ \E d \in Decisions(i) : row' = [row EXCEPT ![i].review = d]
  /\ UNCHANGED <<fixed, call, page, faults>>

-----------------------------------------------------------------------------
(* The endpoints. *)

Targets(c) == {i \in Ids : call[c].targets[i].revision # 0}

(* ReviewBillingSettlements: one transaction closes all the alerts or none. *)
Closable(i, revision) == i \in Listed /\ row[i].revision = revision /\ Needs(i) = "ordinary"

ServeReview(c) ==
  /\ call[c].pc = "review"
  /\ IF \A i \in Targets(c) : Closable(i, call[c].targets[i].revision)
     THEN /\ row' = [i \in Ids |-> IF i \in Targets(c) THEN [row[i] EXCEPT !.review = "closed"] ELSE row[i]]
          /\ call' = [call EXCEPT ![c].pc = "answer", ![c].done = Targets(c)]
     ELSE call' = [call EXCEPT ![c].pc = "answer"] /\ UNCHANGED row
  /\ UNCHANGED <<fixed, page, faults>>

(* The row is held at the revision shown, or this very request closed it;   *)
(* the quota approved before, if any, is the one asked for.                 *)
HeldAt(i, revision) == row[i].status = "manual" /\ row[i].revision = revision
ResolvedAt(i, revision) == row[i].status = "resolved" /\ row[i].revision = revision + 1
Answerable(i, t) ==
  /\ kind[i] # "request"
  /\ HeldAt(i, t.revision) \/ ResolvedAt(i, t.revision)

(* Regression: an approved quota does not bind the next request.            *)
EligibleAnyQuota(c, i) ==
  /\ Answerable(i, call[c].targets[i])
  /\ call[c].kind = "zero" => kind[i] = "h3"

Eligible(c, i) ==
  /\ Answerable(i, call[c].targets[i])
  /\ call[c].kind = "zero" => kind[i] = "h3"
  /\ row[i].quota \in {NoQuota, call[c].targets[i].quota}

(* The targets are taken in their order.                                    *)
Takes(c, i) == i \in call[c].todo /\ \A j \in call[c].todo : i <= j

(* Regression: the refusal is written down, but the batch is not left.      *)
GoesOnAfterRefusal(request, targets) ==
  IF request.todo # {} THEN request
  ELSE IF request.failed = NoFailures THEN [request EXCEPT !.pc = "complete", !.todo = targets]
  ELSE [request EXCEPT !.pc = "complete", !.todo = targets,
          !.failed = [i \in Ids |-> IF i \in targets /\ @[i] = "none" THEN "not_attempted" ELSE @[i]]]

(* Both batches look at every target before the first completion.           *)
AfterValidation(request, targets) ==
  IF request.todo # {} THEN request
  ELSE IF request.failed = NoFailures THEN [request EXCEPT !.pc = "complete", !.todo = targets]
  ELSE [request EXCEPT !.pc = "answer",
          !.failed = [i \in Ids |-> IF i \in targets /\ @[i] = "none" THEN "not_attempted" ELSE @[i]]]

Validate(c, i) ==
  /\ call[c].pc = "validate" /\ Takes(c, i)
  /\ call' = [call EXCEPT ![c] = AfterValidation(
                [call[c] EXCEPT !.todo = @ \ {i},
                                !.failed[i] = IF Eligible(c, i) THEN "none" ELSE "conflict"], Targets(c))]
  /\ UNCHANGED <<fixed, row, page, faults>>

Resolved(c, i) == [status |-> "resolved", revision |-> call[c].targets[i].revision + 1,
                   review |-> "closed", quota |-> call[c].targets[i].quota]
Taken(c, i) == [call[c] EXCEPT !.todo = @ \ {i}, !.pc = IF call[c].todo = {i} THEN "answer" ELSE @]

(* The loop goes on with the next target.                                   *)
GoesOn(c, i, code) == [Taken(c, i) EXCEPT !.failed[i] = code]

(* The completion may also stop before or after the quota was approved.     *)
Complete(c, i) ==
  /\ call[c].pc = "complete" /\ Takes(c, i)
  /\ \/ /\ Eligible(c, i)
        /\ row' = [row EXCEPT ![i] = Resolved(c, i)]
        /\ call' = [call EXCEPT ![c] = [Taken(c, i) EXCEPT !.done = @ \cup {i}]]
        /\ UNCHANGED faults
     \/ /\ Eligible(c, i) /\ Fault
        /\ \E q \in {row[i].quota, call[c].targets[i].quota} : row' = [row EXCEPT ![i].quota = q]
        /\ call' = [call EXCEPT ![c] = GoesOn(c, i, "settlement_failed")]
     \/ /\ ~Eligible(c, i)
        /\ call' = [call EXCEPT ![c] = GoesOn(c, i, "conflict")]
        /\ UNCHANGED <<row, faults>>
  /\ UNCHANGED <<fixed, page>>

(* Nobody waits for the answer any more.                                    *)
Awaited(c) == mutation.pc = "sent" /\ mutation.call = c
Unheard(c) ==
  /\ call[c].pc = "answer" /\ ~Awaited(c)
  /\ call' = [call EXCEPT ![c] = Over]
  /\ UNCHANGED <<fixed, row, page, faults>>

Serve(c) ==
  \/ ServeReview(c) \/ Unheard(c)
  \/ \E i \in Ids : Validate(c, i) \/ Complete(c, i)

-----------------------------------------------------------------------------
(* The list. *)

(* The interval, the refresh button, the focus of the window; a fetch that  *)
(* is under way is not doubled.                                             *)
Poll ==
  /\ get.pc = "none"
  /\ get' = [NoGet EXCEPT !.pc = "sent"]
  /\ UNCHANGED <<fixed, server, view, selected, dialog, mutation, told, faults>>

GetServed ==
  /\ get.pc = "sent"
  /\ get' = [pc |-> "answered",
             items |-> [i \in Ids |-> IF i \in Listed
                                      THEN [revision |-> row[i].revision, needs |-> Needs(i)]
                                      ELSE NoItem]]
  /\ UNCHANGED <<fixed, server, view, selected, dialog, mutation, told, faults>>

Arrived == get' = NoGet /\ mutation' = [mutation EXCEPT !.listed = mutation.pc = "refetch"]
GetShown ==
  /\ get.pc = "answered" /\ Arrived
  /\ view' = [items |-> get.items, error |-> FALSE, loaded |-> TRUE]
  /\ UNCHANGED <<fixed, server, selected, dialog, told, faults>>

(* The data stays beside the error.                                         *)
GetFails ==
  /\ get.pc # "none" /\ Arrived /\ Fault
  /\ view' = [view EXCEPT !.error = TRUE]
  /\ UNCHANGED <<fixed, server, selected, dialog, told>>

-----------------------------------------------------------------------------
(* The administrator. *)

Pending == mutation.pc # "none"

(* The table is there, its buttons are enabled and no dialog covers it.     *)
TableReady == view.loaded /\ ~view.error /\ ~Pending /\ dialog = NoDialog
Needed(i) == view.items[i].needs
Selectable(i) == Needed(i) = "ordinary" \/ (Needed(i) # "none" /\ root)

(* Regression: a selection outlives the revision it was made on.            *)
AllSelected == selected

(* What was selected at a revision that is still shown.                     *)
Active == [i \in Ids |-> IF selected[i] = view.items[i].revision THEN selected[i] ELSE 0]
ActiveIds == {i \in Ids : Active[i] # 0}

ToggleItem(i) ==
  /\ TableReady /\ Selectable(i)
  /\ selected' = [Active EXCEPT ![i] = IF @ = 0 THEN view.items[i].revision ELSE 0]
  /\ UNCHANGED <<fixed, server, view, get, dialog, mutation, told, faults>>

(* getBillingSettlementSelectionPartition: ordinary alerts before tasks.    *)
Partition ==
  LET ordinary == {i \in Ids : Needed(i) = "ordinary"}
  IN IF ordinary # {} THEN ordinary ELSE {i \in Ids : Selectable(i)}
ToggleAll ==
  /\ TableReady /\ Partition # {}
  /\ selected' = IF \A i \in Partition : Active[i] # 0 THEN NoTargets
                 ELSE [i \in Ids |-> IF i \in Partition THEN view.items[i].revision ELSE 0]
  /\ UNCHANGED <<fixed, server, view, get, dialog, mutation, told, faults>>

(* classifyBillingSettlementReviewSelection.                                *)
Classify(ids) ==
  LET needs == {Needed(i) : i \in ids}
  IN IF "ordinary" \in needs THEN (IF needs = {"ordinary"} THEN "ordinary" ELSE "mixed")
     ELSE IF "exact" \in needs THEN "exact"
     ELSE IF "zero" \in needs THEN "zero" ELSE "empty"

(* The mutation is sent with what its targets ask for.                      *)
Send(which, targets, quota) ==
  \E c \in Calls :
    /\ call[c].pc = "free" /\ \A d \in Calls : call[d].pc = "free" => c <= d
    /\ call' = [call EXCEPT ![c] =
         [NoCall EXCEPT !.kind = which,
            !.pc = CASE which = "review" -> "review" [] which = "single" -> "complete"
                     [] OTHER -> "validate",
            !.targets = [i \in Ids |-> [revision |-> targets[i], quota |-> quota[i]]],
            !.todo = {i \in Ids : targets[i] # 0}]]
    /\ mutation' = [pc |-> "sent", call |-> c, listed |-> FALSE]
    /\ UNCHANGED row

Open(which, targets) == dialog' = [kind |-> which, targets |-> targets] /\ UNCHANGED <<server, mutation>>
One(i) == [NoTargets EXCEPT ![i] = view.items[i].revision]
Unasked == [i \in Ids |-> NoQuota]

(* The buttons of a row, and those over the table.                          *)
ReviewTargets(targets) ==
  LET ids == {i \in Ids : targets[i] # 0}
  IN \/ Classify(ids) = "ordinary" /\ Send("review", targets, Unasked) /\ UNCHANGED dialog
     \/ Classify(ids) = "zero" /\ Open("zero", targets)
     \/ Classify(ids) = "exact" /\ Open("batch", targets)
Act ==
  /\ TableReady
  /\ \/ \E i \in Ids : Needed(i) \in {"ordinary"} \cup (IF root THEN {"zero"} ELSE {}) /\ ReviewTargets(One(i))
     \/ \E i \in Ids : Needed(i) \in {"zero", "exact"} /\ root /\ Open("single", One(i))
     \/ ActiveIds # {} /\ ReviewTargets(Active)
     \/ Classify(ActiveIds) = "zero" /\ Open("batch", Active)
  /\ UNCHANGED <<fixed, view, get, selected, told, faults>>

(* The record changed, or the list is in doubt, since the dialog opened.    *)
Unmatched(i) ==
  \/ view.items[i].revision # dialog.targets[i]
  \/ Needed(i) \notin (IF dialog.kind = "zero" THEN {"zero"} ELSE {"zero", "exact"})
Stale == view.error \/ \E i \in Ids : dialog.targets[i] # 0 /\ Unmatched(i)

Cancel ==
  /\ dialog # NoDialog /\ ~Pending
  /\ dialog' = NoDialog
  /\ UNCHANGED <<fixed, server, view, get, selected, mutation, told, faults>>

Typed == {quota \in [Ids -> Quotas \cup {NoQuota}] :
            \A i \in Ids : quota[i] = NoQuota <=> dialog.targets[i] = 0}

(* The zero dialog closes at once, the others when they succeed.            *)
Confirm ==
  /\ dialog # NoDialog /\ ~Pending /\ ~Stale
  /\ \E quota \in Typed :
       /\ dialog.kind = "zero" => \A i \in Ids : quota[i] \in {0, NoQuota}
       /\ Send(dialog.kind, dialog.targets, quota)
  /\ dialog' = IF dialog.kind = "zero" THEN NoDialog ELSE dialog
  /\ UNCHANGED <<fixed, view, get, selected, told, faults>>

-----------------------------------------------------------------------------
(* The answers. *)

(* invalidateQueries: the fetch under way is abandoned and one more begun,  *)
(* but api.get joins the GET of the same URL that is already under way.     *)
Refetch ==
  /\ get' = IF get.pc = "none" THEN [NoGet EXCEPT !.pc = "sent"] ELSE get
  /\ mutation' = [mutation EXCEPT !.pc = "refetch"]

(* A review or a single completion that fails is an error, a batch whose    *)
(* items fail is not.                                                       *)
Succeeds(answer) == answer.kind \in {"zero", "batch"} \/ answer.done # {}
Answered ==
  LET c == mutation.call
      answer == call[c]
  IN /\ mutation.pc = "sent" /\ answer.pc = "answer"
     /\ IF Succeeds(answer)
        THEN /\ selected' = IF answer.kind = "single" THEN selected ELSE NoTargets
             /\ dialog' = NoDialog
             /\ told' = told \cup {[id |-> i, revision |-> answer.targets[i].revision,
                                    quota |-> answer.targets[i].quota] : i \in answer.done}
        ELSE UNCHANGED <<selected, dialog, told>>
     /\ call' = [call EXCEPT ![c] = Over]
     /\ Refetch
     /\ UNCHANGED <<fixed, row, view, faults>>

AnswerLost ==
  /\ mutation.pc = "sent" /\ Fault /\ Refetch
  /\ UNCHANGED <<fixed, server, view, selected, dialog, told>>

(* The process that serves the request dies.                                *)
ServerDies ==
  /\ mutation.pc = "sent" /\ Fault /\ Refetch
  /\ call' = [call EXCEPT ![mutation.call] = Over]
  /\ UNCHANGED <<fixed, row, view, selected, dialog, told>>

(* onSettled is awaited: the buttons stay disabled until the list came.     *)
Settled ==
  /\ mutation.pc = "refetch" /\ mutation.listed
  /\ mutation' = NoMutation
  /\ UNCHANGED <<fixed, server, view, get, selected, dialog, told, faults>>

Next ==
  \/ \E i \in Ids : Rewrite(i) \/ ReviewElsewhere(i) \/ ToggleItem(i)
  \/ \E c \in Calls : Serve(c)
  \/ Poll \/ GetServed \/ GetShown \/ GetFails
  \/ ToggleAll \/ Act \/ Cancel \/ Confirm
  \/ Answered \/ AnswerLost \/ ServerDies \/ Settled

Spec == Init /\ [][Next]_vars

-----------------------------------------------------------------------------
TypeOK ==
  /\ kind \in [Ids -> {"request", "task", "h3"}] /\ root \in BOOLEAN
  /\ row \in [Ids -> [status: {"pending", "manual", "applied", "resolved"},
                      revision: Revision, review: {"none", "closed", "blocked"},
                      quota: Quotas \cup {NoQuota}]]
  /\ \A c \in Calls : call[c].targets \in [Ids -> Target] /\ call[c].todo \subseteq Targets(c)
  /\ selected \in [Ids -> Revision] /\ dialog.targets \in [Ids -> Revision]
  /\ mutation.pc \in {"none", "sent", "refetch"} /\ get.pc \in {"none", "sent", "answered"}

(* What the page said stays true: a settlement reported completed has the   *)
(* very quota typed for it, whatever was lost, repeated or typed before,    *)
(* and an alert reported closed waits for no review as long as its record   *)
(* is the one that was shown: it is closed, or was opened again by another  *)
(* administrator who blocks the user.  Every variable keeps its type        *)
(* besides.                                                                 *)
ToldIsTrue ==
  /\ TypeOK
  /\ \A t \in told :
       IF t.quota = NoQuota
       THEN row[t.id].revision = t.revision => row[t.id].review # "none"
       ELSE row[t.id].status = "resolved" /\ row[t.id].quota = t.quota

(* "A stale or non-H3 item cannot leave earlier items settled while the     *)
(* batch request reports a later validation failure": an answer accounts    *)
(* for every target once, and one that says "not attempted" settled none.   *)
AnswerIsWhole == \A c \in Calls : call[c].pc = "answer" /\ call[c].kind \in {"zero", "batch"} =>
  LET failed == {i \in Ids : call[c].failed[i] # "none"}
  IN /\ call[c].done \cup failed = Targets(c) /\ call[c].done \cap failed = {}
     /\ (\E i \in failed : call[c].failed[i] = "not_attempted") => call[c].done = {}

(* A request never asks for what was not on the screen: its targets are     *)
(* shown at their revisions when it is sent, without an error, ordinary     *)
(* alerts only for a review and held H3 tasks only for a zero batch.        *)
AsksWhatIsShown ==
  [][mutation.pc = "none" /\ mutation'.pc = "sent" =>
       LET request == call'[mutation'.call]
           asked == {i \in Ids : request.targets[i].revision # 0}
       IN /\ asked # {} /\ ~view.error
          /\ \A i \in asked : view.items[i].revision = request.targets[i].revision
          /\ {Needed(i) : i \in asked} \subseteq
               CASE request.kind = "review" -> {"ordinary"}
                 [] request.kind = "zero" -> {"zero"}
                 [] OTHER -> {"zero", "exact"}]_vars

Offered(t) == view.items[t.id].revision = t.revision

(* alerts.test.tsx expects the list to be asked for again after a review:   *)
(* once the buttons are back, what was reported closed is no longer         *)
(* offered.  It does not hold: the refetch may join a GET whose answer was  *)
(* read before the review (Refetch).                                        *)
ClosedIsNotOffered == TableReady => \A t \in told : ~Offered(t)
=============================================================================

------------------------ MODULE SettlementConsoleProofs ------------------------
(***************************************************************************)
(* Proofs about SettlementConsole, for every set of rows, every quota and   *)
(* every number of requests, rewrites and faults.                          *)
(***************************************************************************)
EXTENDS SettlementConsole, TLAPS

-----------------------------------------------------------------------------
(* The inductive invariant. *)

Kinds == {"request", "task", "h3"}
Reviews == {"none", "closed", "blocked"}
Row == [status: {"pending", "manual", "applied", "resolved"}, revision: Revision,
        review: Reviews, quota: Quotas \cup {NoQuota}]
Codes == {"none", "conflict", "settlement_failed", "not_attempted"}
Request == [pc: {"free", "review", "validate", "complete", "answer", "over"},
            kind: {"none", "review", "single", "zero", "batch"}, targets: [Ids -> Target],
            todo: SUBSET Ids, done: SUBSET Ids, failed: [Ids -> Codes]]
Item == [revision: Revision, needs: {"none", "ordinary", "zero", "exact"}]

(* A settlement that is resolved is closed, with the quota it was given.    *)
RowOK(r) ==
  /\ r \in Row /\ r.revision >= 1
  /\ r.status # "resolved" => r.revision <= MaxRevision
  /\ r.status = "resolved" => r.quota # NoQuota /\ r.review # "none"

(* What may be reported of a row that was asked for at a revision.          *)
Keeps(r, revision, quota) ==
  /\ revision <= r.revision
  /\ quota = NoQuota => (r.revision = revision => r.review # "none")
  /\ quota # NoQuota => r.status = "resolved" /\ r.quota = quota

(* What a request asks for, and what it accounts for at each point.         *)
Asked(g) == {i \in Ids : g.targets[i].revision # 0}
Failed(g) == {i \in Ids : g.failed[i] # "none"}
Skipped(g) == {i \in Ids : g.failed[i] = "not_attempted"}
Account(g) ==
  /\ g.pc = "validate" => g.done = {} /\ Failed(g) \subseteq Asked(g)
  /\ g.pc = "complete" => /\ g.done \cup Failed(g) = Asked(g) \ g.todo
                          /\ g.done \cap Failed(g) = {} /\ Skipped(g) = {}
  /\ g.pc = "answer" => /\ g.done \cup Failed(g) = Asked(g) /\ g.done \cap Failed(g) = {}
                        /\ Skipped(g) # {} => g.done = {}
RequestOK(g) ==
  /\ g \in Request
  /\ g.todo \subseteq Asked(g) /\ g.done \subseteq Asked(g)
  /\ \A i \in Asked(g) : (g.targets[i].quota = NoQuota) <=> (g.kind = "review")
  /\ g.pc = "review" => g.kind = "review"
  /\ g.pc \in {"validate", "complete"} => g.kind # "review"
  /\ g.kind # "review" => Account(g)
DoneOK(table, g) == \A i \in g.done : Keeps(table[i], g.targets[i].revision, g.targets[i].quota)

RowsOK == row \in [Ids -> Row] /\ \A i \in Ids : RowOK(row[i])
CallsOK ==
  /\ call \in [Calls -> Request]
  /\ \A c \in Calls : RequestOK(call[c]) /\ DoneOK(row, call[c])
ToldOK ==
  \A t \in told : /\ t.id \in Ids /\ t.revision \in Revision
                  /\ Keeps(row[t.id], t.revision, t.quota)

(* What the page holds: an item is listed if it has a revision. *)
ItemsOK(items) ==
  /\ items \in [Ids -> Item]
  /\ \A i \in Ids : items[i].needs = "none" <=> items[i].revision = 0
ViewOK == view \in [items: [Ids -> Item], error: BOOLEAN, loaded: BOOLEAN] /\ ItemsOK(view.items)
GetOK == get \in [pc: {"none", "sent", "answered"}, items: [Ids -> Item]] /\ ItemsOK(get.items)
SelectedOK == selected \in [Ids -> Revision]
DialogOK ==
  /\ dialog \in [kind: {"none", "single", "zero", "batch"}, targets: [Ids -> Revision]]
  /\ dialog # NoDialog => dialog.kind # "none" /\ \E i \in Ids : dialog.targets[i] # 0
MutationOK ==
  /\ mutation \in [pc: {"none", "sent", "refetch"}, call: Calls \cup {NoMutation.call}, listed: BOOLEAN]
  /\ mutation.pc = "sent" => mutation.call \in Calls
PageOK == ViewOK /\ GetOK /\ SelectedOK /\ DialogOK /\ MutationOK

FixedOK == kind \in [Ids -> Kinds] /\ root \in BOOLEAN

IInv == FixedOK /\ RowsOK /\ CallsOK /\ ToldOK /\ PageOK

-----------------------------------------------------------------------------
(* The rows. *)

(* What any step may do to a row. *)
Moves(r, q) ==
  /\ r.revision <= q.revision
  /\ r.status = "resolved" => q.status = "resolved" /\ q.quota = r.quota
  /\ q.revision = r.revision /\ r.review # "none" => q.review # "none"

LEMMA RevisionType == Revision \subseteq Nat /\ (\A n \in Revision : n <= MaxRevision + 1) /\ 0 \in Revision
                      /\ MaxRevision \in Nat
BY BoundAssumption DEF Revision

LEMMA KeepsOn ==
  ASSUME NEW r \in Row, NEW q \in Row, Moves(r, q),
         NEW n \in Revision, NEW quota, Keeps(r, n, quota)
  PROVE  Keeps(q, n, quota)
<1>1. r.revision \in Nat /\ q.revision \in Nat /\ n \in Nat
  BY RevisionType DEF Row
<1>2. n <= r.revision /\ r.revision <= q.revision
  BY DEF Keeps, Moves
<1>3. quota # NoQuota => q.status = "resolved" /\ q.quota = quota
  BY DEF Keeps, Moves
<1>4. ASSUME quota = NoQuota, q.revision = n
      PROVE  q.review # "none"
  <2>1. r.revision = n /\ q.revision = r.revision
    BY <1>1, <1>2, <1>4
  <2>2. r.review # "none"
    BY <1>4, <2>1, Zenon DEF Keeps
  <2> QED
    BY <2>1, <2>2, Zenon DEF Moves
<1> QED
  BY <1>1, <1>2, <1>3, <1>4 DEF Keeps

LEMMA Stays ==
  ASSUME NEW r \in Row
  PROVE  Moves(r, r)
<1>1. r.revision \in Nat
  BY RevisionType DEF Row
<1> QED
  BY <1>1 DEF Moves

(* Every promise is kept when the rows move. *)
LEMMA RowsStep ==
  ASSUME IInv, row' \in [Ids -> Row], \A i \in Ids : RowOK(row'[i]) /\ Moves(row[i], row'[i])
  PROVE  /\ RowsOK'
         /\ \A t \in told : t.id \in Ids /\ t.revision \in Revision
                             /\ Keeps(row'[t.id], t.revision, t.quota)
         /\ \A c \in Calls : DoneOK(row', call[c])
<1>1. RowsOK'
  BY DEF RowsOK
<1>2. \A quota : \A i \in Ids, n \in Revision :
        Keeps(row[i], n, quota) => Keeps(row'[i], n, quota)
  BY KeepsOn DEF IInv, RowsOK
<1>3. \A t \in told : t.id \in Ids /\ t.revision \in Revision
                      /\ Keeps(row'[t.id], t.revision, t.quota)
  BY <1>2 DEF IInv, ToldOK
<1>4. ASSUME NEW c \in Calls
      PROVE  DoneOK(row', call[c])
  <2>1. /\ call[c] \in Request /\ DoneOK(row, call[c])
    BY DEF IInv, CallsOK, RequestOK
  <2>2. \A i \in call[c].done : i \in Ids /\ call[c].targets[i].revision \in Revision
    BY <2>1 DEF Request, Target
  <2> QED
    BY <1>2, <2>1, <2>2 DEF DoneOK
<1> QED
  BY <1>1, <1>3, <1>4

(* A step of the server: rows move, a request goes on. *)
LEMMA ServerStep ==
  ASSUME IInv, UNCHANGED <<fixed, page>>,
         row' \in [Ids -> Row], \A i \in Ids : RowOK(row'[i]) /\ Moves(row[i], row'[i]),
         NEW c \in Calls, NEW g, call' = [call EXCEPT ![c] = g], RequestOK(g), DoneOK(row', g)
  PROVE  IInv'
<1>1. FixedOK' /\ PageOK'
  BY DEF IInv, FixedOK, PageOK, ViewOK, GetOK, SelectedOK, DialogOK, MutationOK, fixed, page
<1>2. RowsOK' /\ ToldOK'
  BY RowsStep DEF ToldOK, page
<1>3. CallsOK'
  <2>1. g \in Request
    BY DEF RequestOK
  <2>2. /\ call' \in [Calls -> Request] /\ call'[c] = g
        /\ \A d \in Calls : d # c => call'[d] = call[d]
    BY <2>1 DEF IInv, CallsOK
  <2>3. \A d \in Calls : RequestOK(call[d]) /\ DoneOK(row', call[d])
    BY RowsStep DEF IInv, CallsOK
  <2> QED
    BY <2>2, <2>3 DEF CallsOK
<1> QED
  BY <1>1, <1>2, <1>3 DEF IInv

LEMMA RewriteStep ==
  ASSUME IInv, NEW i \in Ids, Rewrite(i)
  PROVE  IInv'
<1>1. PICK s \in {"pending", "manual", "applied"}, o \in {row[i].review, "none"} :
        /\ row[i].status = "pending" \/ (row[i].status = "manual" /\ kind[i] # "request" /\ s = "pending")
        /\ row' = [row EXCEPT ![i].status = s, ![i].review = o, ![i].revision = @ + 1]
  BY DEF Rewrite
<1>2. row[i].revision < MaxRevision /\ UNCHANGED <<fixed, call, page, faults>>
  BY DEF Rewrite
<1>3. row[i] \in Row /\ RowOK(row[i]) /\ row \in [Ids -> Row]
  BY DEF IInv, RowsOK
<1>4. o \in Reviews
  BY <1>3 DEF Row, Reviews
<1> DEFINE r1 == [row[i] EXCEPT !.status = s]
           r2 == [r1 EXCEPT !.review = o]
           n == row[i].revision + 1
           r3 == [r2 EXCEPT !.revision = n]
<1>5. n \in Revision /\ n <= MaxRevision /\ row[i].revision < n /\ row[i].revision \in Nat
      /\ n >= 1 /\ n \in Nat
  <2>1. row[i].revision \in Nat
    BY <1>3, RevisionType DEF Row
  <2> QED
    BY <1>2, <2>1, BoundAssumption DEF Revision
<1>6. row' = [row EXCEPT ![i] = r3]
  BY <1>1, <1>3
<1> HIDE DEF n
<1>7. r3 \in Row /\ r3.status = s /\ r3.revision = n
  <2>1. r1 \in Row /\ r1.status = s
    BY <1>3 DEF Row
  <2> HIDE DEF r1
  <2>2. r2 \in Row /\ r2.status = s
    BY <1>4, <2>1 DEF Row
  <2> HIDE DEF r2
  <2> QED
    BY <1>5, <2>2 DEF Row
<1> HIDE DEF r3
<1>8. RowOK(r3) /\ Moves(row[i], r3)
  <2>1. r3.revision >= 1 /\ r3.revision <= MaxRevision /\ r3.status # "resolved"
    BY <1>1, <1>5, <1>7
  <2>2. row[i].status # "resolved" /\ row[i].revision <= r3.revision /\ r3.revision # row[i].revision
    BY <1>1, <1>5, <1>7
  <2> QED
    BY <1>7, <2>1, <2>2 DEF RowOK, Moves
<1>9. row' \in [Ids -> Row] /\ \A j \in Ids : RowOK(row'[j]) /\ Moves(row[j], row'[j])
  <2>1. row' \in [Ids -> Row] /\ row'[i] = r3 /\ \A j \in Ids : j # i => row'[j] = row[j]
    BY <1>3, <1>6, <1>7
  <2> QED
    BY <1>8, <2>1, Stays DEF IInv, RowsOK
<1>10. RowsOK' /\ ToldOK' /\ CallsOK'
  BY <1>2, <1>9, RowsStep DEF ToldOK, CallsOK, IInv, page
<1>11. FixedOK' /\ PageOK'
  BY <1>2 DEF IInv, FixedOK, PageOK, ViewOK, GetOK, SelectedOK, DialogOK, MutationOK, fixed, page
<1> QED
  BY <1>10, <1>11 DEF IInv

(* Another administrator's decision is a review, at the same revision. *)
LEMMA ElsewhereStep ==
  ASSUME IInv, NEW i \in Ids, ReviewElsewhere(i)
  PROVE  IInv'
<1>1. PICK d \in {"closed", "blocked"} : row' = [row EXCEPT ![i].review = d]
  BY DEF ReviewElsewhere, Decisions
<1>2. row[i].status \in {"pending", "manual"} /\ UNCHANGED <<fixed, call, page, faults>>
  BY DEF ReviewElsewhere
<1>3. row[i] \in Row /\ RowOK(row[i]) /\ row \in [Ids -> Row] /\ row[i].revision \in Nat
  BY RevisionType DEF IInv, RowsOK, Row
<1> DEFINE r == [row[i] EXCEPT !.review = d]
<1>4. row' = [row EXCEPT ![i] = r]
  BY <1>1, <1>3
<1>5. /\ r \in Row /\ r.status = row[i].status /\ r.revision = row[i].revision
      /\ r.quota = row[i].quota /\ r.review = d
  BY <1>3 DEF Row, Reviews
<1> HIDE DEF r
<1>6. RowOK(r) /\ Moves(row[i], r)
  BY <1>2, <1>3, <1>5 DEF RowOK, Moves
<1>7. row' \in [Ids -> Row] /\ \A j \in Ids : RowOK(row'[j]) /\ Moves(row[j], row'[j])
  <2>1. row' \in [Ids -> Row] /\ row'[i] = r /\ \A j \in Ids : j # i => row'[j] = row[j]
    BY <1>3, <1>4, <1>5
  <2> QED
    BY <1>6, <2>1, Stays DEF IInv, RowsOK
<1>8. RowsOK' /\ ToldOK' /\ CallsOK'
  BY <1>2, <1>7, RowsStep DEF ToldOK, CallsOK, IInv, page
<1>9. FixedOK' /\ PageOK'
  BY <1>2 DEF IInv, FixedOK, PageOK, ViewOK, GetOK, SelectedOK, DialogOK, MutationOK, fixed, page
<1> QED
  BY <1>8, <1>9 DEF IInv

(* The rows stay, one request goes on. *)
LEMMA CallStep ==
  ASSUME IInv, UNCHANGED <<fixed, row, page>>,
         NEW c \in Calls, NEW g, call' = [call EXCEPT ![c] = g], RequestOK(g), DoneOK(row, g)
  PROVE  IInv'
<1>1. row' \in [Ids -> Row] /\ \A i \in Ids : RowOK(row'[i]) /\ Moves(row[i], row'[i])
  BY Stays DEF IInv, RowsOK
<1>2. UNCHANGED <<fixed, page>> /\ row' = row
  OBVIOUS
<1>3. DoneOK(row', g)
  BY <1>2
<1> QED
  BY <1>1, <1>2, <1>3, ServerStep

(* An answered request carries its fields on. *)
LEMMA CallType ==
  ASSUME IInv, NEW c \in Calls
  PROVE  /\ call[c] \in Request /\ RequestOK(call[c]) /\ DoneOK(row, call[c])
         /\ call[c].targets \in [Ids -> Target] /\ call[c].todo \in SUBSET Ids
         /\ call[c].done \in SUBSET Ids /\ call[c].failed \in [Ids -> Codes]
         /\ Targets(c) = Asked(call[c])
BY DEF IInv, CallsOK, RequestOK, Request, Targets, Asked

LEMMA Answered0 ==
  /\ NoCall \in Request /\ NoCall.pc = "free" /\ NoCall.kind = "none" /\ NoCall.done = {}
  /\ RequestOK(NoCall) /\ RequestOK(Over) /\ DoneOK(row, NoCall) /\ DoneOK(row, Over)
<1>1. NoTarget \in Target /\ NoTarget.revision = 0
  BY RevisionType DEF NoTarget, Target
<1>2. NoFailures \in [Ids -> Codes]
  BY DEF NoFailures, Codes
<1>3. /\ NoCall \in Request /\ NoCall.pc = "free" /\ NoCall.kind = "none" /\ NoCall.done = {}
      /\ NoCall.todo = {} /\ NoCall.targets = [i \in Ids |-> NoTarget]
  BY <1>1, <1>2 DEF NoCall, Request
<1>4. /\ Over \in Request /\ Over.pc = "over" /\ Over.kind = "none" /\ Over.done = {}
      /\ Over.todo = {} /\ Over.targets = [i \in Ids |-> NoTarget]
  BY <1>3 DEF Over, Request
<1>5. Asked(NoCall) = {} /\ Asked(Over) = {}
  BY <1>1, <1>3, <1>4 DEF Asked
<1>6. RequestOK(NoCall) /\ RequestOK(Over)
  BY <1>3, <1>4, <1>5 DEF RequestOK, Account
<1>7. DoneOK(row, NoCall) /\ DoneOK(row, Over)
  BY <1>3, <1>4 DEF DoneOK
<1> QED
  BY <1>3, <1>6, <1>7

LEMMA UnheardStep ==
  ASSUME IInv, NEW c \in Calls, Unheard(c)
  PROVE  IInv'
BY CallStep, Answered0 DEF Unheard

(* One transaction closes all the alerts, or none. *)
LEMMA ServeReviewStep ==
  ASSUME IInv, NEW c \in Calls, ServeReview(c)
  PROVE  IInv'
<1>1. call[c].pc = "review" /\ call[c].kind = "review" /\ UNCHANGED <<fixed, page, faults>>
  BY CallType DEF ServeReview, RequestOK
<1>2. CASE \A i \in Targets(c) : Closable(i, call[c].targets[i].revision)
  <2> DEFINE g == [call[c] EXCEPT !.pc = "answer", !.done = Targets(c)]
             closed == [i \in Ids |-> [row[i] EXCEPT !.review = "closed"]]
  <2>1. /\ row' = [i \in Ids |-> IF i \in Targets(c) THEN closed[i] ELSE row[i]]
        /\ call' = [call EXCEPT ![c].pc = "answer", ![c].done = Targets(c)]
    BY <1>2 DEF ServeReview
  <2>2. call' = [call EXCEPT ![c] = g]
    BY <2>1 DEF IInv, CallsOK
  <2>3. Targets(c) \in SUBSET Ids /\ Targets(c) = Asked(call[c])
    BY CallType DEF Targets
  <2>4. /\ g \in Request /\ g.pc = "answer" /\ g.done = Targets(c) /\ g.kind = "review"
        /\ g.targets = call[c].targets /\ g.todo = call[c].todo
    BY <1>1, <2>3, CallType DEF Request
  <2> HIDE DEF g
  <2>5. ASSUME NEW i \in Targets(c)
        PROVE  /\ i \in Ids /\ row[i].revision = call[c].targets[i].revision
               /\ row[i].status \in {"pending", "manual"}
    BY <1>2, <2>3 DEF Closable, Listed
  <2>6. ASSUME NEW i \in Ids
        PROVE  /\ closed[i] \in Row /\ closed[i].status = row[i].status
               /\ closed[i].revision = row[i].revision /\ closed[i].quota = row[i].quota
               /\ closed[i].review = "closed"
    <3>1. row[i] \in Row
      BY DEF IInv, RowsOK
    <3>2. closed[i] = [row[i] EXCEPT !.review = "closed"]
      OBVIOUS
    <3> HIDE DEF closed
    <3>3. closed[i] \in Row
      BY <3>1, <3>2 DEF Row, Reviews
    <3>4. /\ closed[i].status = row[i].status
          /\ closed[i].revision = row[i].revision /\ closed[i].quota = row[i].quota
      BY <3>1, <3>2 DEF Row
    <3>5. closed[i].review = "closed"
      BY <3>1, <3>2 DEF Row
    <3> QED
      BY <3>3, <3>4, <3>5
  <2> HIDE DEF closed
  <2>7. ASSUME NEW i \in Ids
        PROVE  RowOK(closed[i]) /\ Moves(row[i], closed[i])
    <3>1. RowOK(row[i]) /\ row[i].revision \in Nat
      BY RevisionType DEF IInv, RowsOK, Row
    <3> QED
      BY <2>6, <3>1 DEF RowOK, Moves
  <2>8. row' \in [Ids -> Row] /\ \A i \in Ids : RowOK(row'[i]) /\ Moves(row[i], row'[i])
    <3>1. row' \in [Ids -> Row]
      BY <2>1, <2>6 DEF IInv, RowsOK
    <3>2. \A i \in Ids : row'[i] = closed[i] \/ row'[i] = row[i]
      BY <2>1
    <3> QED
      BY <2>7, <3>1, <3>2, Stays DEF IInv, RowsOK
  <2>9. RequestOK(g)
    <3>1. Asked(g) = Targets(c)
      BY <2>3, <2>4 DEF Asked
    <3> QED
      BY <1>1, <2>3, <2>4, <3>1, CallType DEF RequestOK
  <2>10. DoneOK(row', g)
    <3> SUFFICES ASSUME NEW i \in Targets(c)
                 PROVE  Keeps(row'[i], call[c].targets[i].revision, call[c].targets[i].quota)
      BY <2>4 DEF DoneOK
    <3>1. row'[i] = closed[i] /\ i \in Ids
      BY <2>1, <2>5
    <3>2. /\ call[c].targets[i].quota = NoQuota
          /\ closed[i].revision = call[c].targets[i].revision /\ closed[i].revision \in Nat
      <4>1. call[c].targets[i].quota = NoQuota
        BY <1>1, <2>3, CallType DEF RequestOK
      <4>2. closed[i].revision = call[c].targets[i].revision /\ closed[i] \in Row
        BY <2>5, <2>6
      <4> QED
        BY <4>1, <4>2, RevisionType DEF Row
    <3> QED
      BY <2>6, <3>1, <3>2 DEF Keeps
  <2> QED
    BY <1>1, <2>2, <2>8, <2>9, <2>10, ServerStep
<1>3. CASE ~\A i \in Targets(c) : Closable(i, call[c].targets[i].revision)
  <2> DEFINE g == [call[c] EXCEPT !.pc = "answer"]
  <2>1. call' = [call EXCEPT ![c].pc = "answer"] /\ UNCHANGED row
    BY <1>3 DEF ServeReview
  <2>2. call' = [call EXCEPT ![c] = g]
    BY <2>1 DEF IInv, CallsOK
  <2>3. /\ g \in Request /\ g.pc = "answer" /\ g.done = call[c].done /\ g.kind = "review"
        /\ g.targets = call[c].targets /\ g.todo = call[c].todo
    BY <1>1, CallType DEF Request
  <2> HIDE DEF g
  <2>4. Asked(g) = Asked(call[c])
    BY <2>3 DEF Asked
  <2>5. RequestOK(g) /\ DoneOK(row, g)
    BY <1>1, <2>3, <2>4, CallType DEF RequestOK, DoneOK
  <2> QED
    BY <1>1, <2>1, <2>2, <2>5, CallStep
<1> QED
  BY <1>2, <1>3

(* Both batches look at every target first. *)
LEMMA ValidateStep ==
  ASSUME IInv, NEW c \in Calls, NEW i \in Ids, Validate(c, i)
  PROVE  IInv'
<1> DEFINE code == IF Eligible(c, i) THEN "none" ELSE "conflict"
           g0 == call[c]
           fails == [g0.failed EXCEPT ![i] = code]
           todo == g0.todo \ {i}
           h == [g0 EXCEPT !.todo = todo, !.failed = fails]
           g == AfterValidation(h, Targets(c))
<1>1. g0.pc = "validate" /\ i \in g0.todo /\ UNCHANGED <<fixed, row, page, faults>>
  BY DEF Validate, Takes
<1>2. /\ g0 \in Request /\ RequestOK(g0) /\ DoneOK(row, g0) /\ Targets(c) = Asked(g0)
      /\ g0.failed \in [Ids -> Codes] /\ g0.todo \in SUBSET Ids /\ g0.kind # "review"
  BY <1>1, CallType DEF RequestOK
<1>3. call' = [call EXCEPT ![c] = g]
  <2>1. call' = [call EXCEPT ![c] = AfterValidation(
                   [call[c] EXCEPT !.todo = call[c].todo \ {i}, !.failed[i] = code], Targets(c))]
    BY DEF Validate
  <2>2. [g0 EXCEPT !.todo = todo, !.failed[i] = code] = h
    BY <1>2 DEF Request
  <2> QED
    BY <2>1, <2>2
<1>4. code \in {"none", "conflict"}
  OBVIOUS
<1> HIDE DEF code
<1>5. fails \in [Ids -> Codes] /\ \A j \in Ids : fails[j] # g0.failed[j] => j = i
  BY <1>2, <1>4 DEF Codes
<1> HIDE DEF fails
<1>6. todo \in SUBSET Ids /\ todo \subseteq g0.todo
  BY <1>2
<1> HIDE DEF todo
<1>7. /\ h \in Request /\ h.pc = "validate" /\ h.kind = g0.kind /\ h.targets = g0.targets
      /\ h.done = g0.done /\ h.todo = todo /\ h.failed = fails
  BY <1>1, <1>2, <1>5, <1>6 DEF Request
<1> HIDE DEF h
<1>8. Asked(h) = Asked(g0) /\ Asked(g0) \in SUBSET Ids
  BY <1>7 DEF Asked
<1>9. g0.done = {} /\ Failed(g0) \subseteq Asked(g0) /\ i \in Asked(g0)
  BY <1>1, <1>2 DEF RequestOK, Account
<1>10. Failed(h) \subseteq Asked(g0)
  BY <1>5, <1>7, <1>9 DEF Failed
<1>11. RequestOK(g) /\ g.done = {}
  <2>1. CASE todo # {}
    <3>1. g = h
      BY <1>7, <2>1 DEF AfterValidation
    <3> QED
      BY <1>2, <1>6, <1>7, <1>8, <1>9, <1>10, <3>1 DEF RequestOK, Account
  <2>2. CASE todo = {} /\ h.failed = NoFailures
    <3> DEFINE k == [h EXCEPT !.pc = "complete", !.todo = Asked(g0)]
    <3>1. g = k
      BY <1>2, <1>7, <2>2 DEF AfterValidation
    <3>2. /\ k \in Request /\ k.pc = "complete" /\ k.kind = g0.kind /\ k.targets = g0.targets
          /\ k.done = {} /\ k.todo = Asked(g0) /\ k.failed = NoFailures
      BY <1>7, <1>8, <1>9, <2>2 DEF Request
    <3> HIDE DEF k, g
    <3>3. Asked(k) = Asked(g0) /\ Failed(k) = {} /\ Skipped(k) = {}
      BY <3>2 DEF Asked, Failed, Skipped, NoFailures
    <3> QED
      BY <1>2, <3>1, <3>2, <3>3 DEF RequestOK, Account
  <2>3. CASE todo = {} /\ h.failed # NoFailures
    <3> DEFINE codes == [j \in Ids |-> IF j \in Asked(g0) /\ h.failed[j] = "none"
                                       THEN "not_attempted" ELSE h.failed[j]]
               k == [h EXCEPT !.pc = "answer", !.failed = codes]
    <3>1. g = k
      BY <1>2, <1>7, <2>3 DEF AfterValidation
    <3>2. codes \in [Ids -> Codes] /\ {j \in Ids : codes[j] # "none"} = Asked(g0)
      <4>1. \A j \in Ids : fails[j] # "none" => j \in Asked(g0)
        BY <1>7, <1>10 DEF Failed
      <4> QED
        BY <1>5, <1>7, <1>8, <4>1 DEF Codes
    <3> HIDE DEF codes
    <3>3. /\ k \in Request /\ k.pc = "answer" /\ k.kind = g0.kind /\ k.targets = g0.targets
          /\ k.done = {} /\ k.todo = {} /\ k.failed = codes
      BY <1>7, <1>9, <2>3, <3>2 DEF Request
    <3> HIDE DEF k, g
    <3>4. Asked(k) = Asked(g0) /\ Failed(k) = Asked(g0)
      BY <3>2, <3>3 DEF Asked, Failed
    <3> QED
      BY <1>2, <3>1, <3>3, <3>4 DEF RequestOK, Account
  <2> QED
    BY <2>1, <2>2, <2>3
<1> HIDE DEF g
<1>12. DoneOK(row, g)
  BY <1>11 DEF DoneOK
<1> QED
  BY <1>1, <1>3, <1>11, <1>12, CallStep

(* One target of a request is done, or failed with a code. *)
LEMMA TakenType ==
  ASSUME IInv, NEW c \in Calls, NEW i \in Ids, call[c].pc = "complete", Takes(c, i),
         NEW code \in {"conflict", "settlement_failed"}
  PROVE  /\ RequestOK(GoesOn(c, i, code)) /\ DoneOK(row, GoesOn(c, i, code))
         /\ GoesOn(c, i, code).done = call[c].done
         /\ GoesOn(c, i, code).targets = call[c].targets
         /\ RequestOK([Taken(c, i) EXCEPT !.done = @ \cup {i}])
         /\ [Taken(c, i) EXCEPT !.done = @ \cup {i}].done = call[c].done \cup {i}
         /\ [Taken(c, i) EXCEPT !.done = @ \cup {i}].targets = call[c].targets
<1> DEFINE g0 == call[c]
           next == IF g0.todo = {i} THEN "answer" ELSE g0.pc
           todo == g0.todo \ {i}
           h == [g0 EXCEPT !.todo = todo, !.pc = next]
           fails == [g0.failed EXCEPT ![i] = code]
           k == [h EXCEPT !.failed = fails]
           done == g0.done \cup {i}
           m == [h EXCEPT !.done = done]
<1>1. /\ g0 \in Request /\ RequestOK(g0) /\ DoneOK(row, g0) /\ i \in g0.todo /\ g0.kind # "review"
      /\ g0.failed \in [Ids -> Codes] /\ g0.todo \in SUBSET Ids /\ g0.done \in SUBSET Ids
      /\ i \in Asked(g0) /\ Account(g0)
  BY CallType DEF Takes, RequestOK
<1>2. next \in {"complete", "answer"} /\ todo \in SUBSET Ids /\ (next = "answer" => todo = {})
      /\ todo \subseteq Asked(g0) /\ i \notin todo
  BY <1>1 DEF RequestOK
<1>3. Taken(c, i) = h
  BY DEF Taken
<1> HIDE DEF next, todo
<1>4. /\ h \in Request /\ h.pc = next /\ h.todo = todo /\ h.kind = g0.kind
      /\ h.targets = g0.targets /\ h.done = g0.done /\ h.failed = g0.failed
  BY <1>1, <1>2 DEF Request
<1> HIDE DEF h
<1>5. GoesOn(c, i, code) = k /\ [Taken(c, i) EXCEPT !.done = @ \cup {i}] = m
  BY <1>1, <1>3, <1>4 DEF GoesOn, Request
<1>6. fails \in [Ids -> Codes] /\ fails[i] = code /\ \A j \in Ids : j # i => fails[j] = g0.failed[j]
  BY <1>1 DEF Codes
<1> HIDE DEF fails
<1>7. done \in SUBSET Ids
  BY <1>1
<1> HIDE DEF done
<1>8. /\ k \in Request /\ k.pc = next /\ k.todo = todo /\ k.kind = g0.kind
      /\ k.targets = g0.targets /\ k.done = g0.done /\ k.failed = fails
  BY <1>4, <1>6 DEF Request
<1>9. /\ m \in Request /\ m.pc = next /\ m.todo = todo /\ m.kind = g0.kind
      /\ m.targets = g0.targets /\ m.done = done /\ m.failed = g0.failed
  BY <1>4, <1>7 DEF Request
<1> HIDE DEF k, m
<1>10. Asked(k) = Asked(g0) /\ Asked(m) = Asked(g0)
  BY <1>8, <1>9 DEF Asked
<1>11. /\ g0.done \cup Failed(g0) = Asked(g0) \ g0.todo
       /\ g0.done \cap Failed(g0) = {} /\ Skipped(g0) = {}
  BY <1>1 DEF Account
<1>12. /\ Failed(k) = Failed(g0) \cup {i} /\ Skipped(k) = {}
       /\ Failed(m) = Failed(g0) /\ Skipped(m) = {}
  BY <1>6, <1>8, <1>9, <1>11 DEF Failed, Skipped
<1>13. /\ g0.done \cup Failed(k) = Asked(g0) \ todo /\ g0.done \cap Failed(k) = {}
       /\ done \cup Failed(m) = Asked(g0) \ todo /\ done \cap Failed(m) = {}
       /\ done \subseteq Asked(g0)
  BY <1>1, <1>11, <1>12 DEF todo, done
<1>14. Account(k)
  BY <1>2, <1>8, <1>10, <1>12, <1>13 DEF Account
<1>15. Account(m)
  BY <1>2, <1>9, <1>10, <1>12, <1>13 DEF Account
<1>16. RequestOK(k)
  BY <1>1, <1>2, <1>8, <1>10, <1>14 DEF RequestOK
<1>17. RequestOK(m)
  BY <1>1, <1>2, <1>9, <1>10, <1>13, <1>15 DEF RequestOK
<1>18. DoneOK(row, k)
  BY <1>1, <1>8 DEF DoneOK
<1> QED
  BY <1>5, <1>8, <1>9, <1>16, <1>17, <1>18 DEF done

(* A target is settled with the quota asked for, or it fails. *)
LEMMA CompleteStep ==
  ASSUME IInv, NEW c \in Calls, NEW i \in Ids, Complete(c, i)
  PROVE  IInv'
<1> DEFINE g0 == call[c]
           n == g0.targets[i].revision
           asked == g0.targets[i].quota
<1>1. g0.pc = "complete" /\ Takes(c, i) /\ UNCHANGED <<fixed, page>>
  BY DEF Complete
<1>2. /\ g0 \in Request /\ RequestOK(g0) /\ DoneOK(row, g0) /\ i \in Asked(g0)
      /\ g0.kind # "review" /\ n \in Revision /\ n >= 1 /\ n \in Nat
      /\ asked \in Quotas /\ asked # NoQuota
  <2>1. g0 \in Request /\ RequestOK(g0) /\ DoneOK(row, g0) /\ i \in g0.todo /\ g0.targets[i] \in Target
    BY <1>1, CallType DEF Takes
  <2>2. i \in Asked(g0) /\ g0.kind # "review"
    BY <1>1, <2>1 DEF RequestOK
  <2>3. n \in Revision /\ asked \in Quotas \cup {NoQuota} /\ n # 0
    BY <2>1, <2>2 DEF Target, Asked
  <2>4. asked # NoQuota
    BY <2>1, <2>2 DEF RequestOK
  <2> HIDE DEF n, asked
  <2>5. n \in Nat /\ n >= 1
    BY <2>3, RevisionType
  <2> QED
    BY <2>1, <2>2, <2>3, <2>4, <2>5
<1>3. row \in [Ids -> Row] /\ row[i] \in Row /\ RowOK(row[i])
  BY DEF IInv, RowsOK
<1> HIDE DEF n, asked
<1>4. ASSUME NEW r \in Row, RowOK(r), Moves(row[i], r), row' = [row EXCEPT ![i] = r]
      PROVE  row' \in [Ids -> Row] /\ \A j \in Ids : RowOK(row'[j]) /\ Moves(row[j], row'[j])
  <2>1. row' \in [Ids -> Row] /\ row'[i] = r /\ \A j \in Ids : j # i => row'[j] = row[j]
    BY <1>3, <1>4
  <2> QED
    BY <1>4, <2>1, Stays DEF IInv, RowsOK
<1>5. ASSUME Eligible(c, i)
      PROVE  /\ row[i].quota \in {NoQuota, asked}
             /\ \/ row[i].status = "manual" /\ row[i].revision = n
                \/ row[i].status = "resolved" /\ row[i].revision = n + 1 /\ row[i].quota = asked
  BY <1>3, <1>5 DEF Eligible, Answerable, HeldAt, ResolvedAt, RowOK, n, asked
<1>6. CASE /\ Eligible(c, i)
           /\ row' = [row EXCEPT ![i] = Resolved(c, i)]
           /\ call' = [call EXCEPT ![c] = [Taken(c, i) EXCEPT !.done = @ \cup {i}]]
  <2> DEFINE r == Resolved(c, i)
             g == [Taken(c, i) EXCEPT !.done = @ \cup {i}]
  <2>1. r = [status |-> "resolved", revision |-> n + 1, review |-> "closed", quota |-> asked]
    BY DEF Resolved, n, asked
  <2>2. n + 1 \in Revision /\ n + 1 >= 1
    <3>1. n <= MaxRevision
      <4>1. CASE row[i].status = "manual" /\ row[i].revision = n
        BY <1>3, <4>1 DEF RowOK
      <4>2. CASE row[i].revision = n + 1
        BY <1>2, <1>3, <4>2, RevisionType DEF Row
      <4> QED
        BY <1>5, <1>6, <4>1, <4>2
    <3> QED
      BY <1>2, <3>1, BoundAssumption DEF Revision
  <2>3. r \in Row /\ RowOK(r)
    BY <1>2, <2>1, <2>2 DEF Row, RowOK, Reviews
  <2>4. Moves(row[i], r)
    BY <1>2, <1>5, <1>6, <2>1 DEF Moves
  <2> HIDE DEF r
  <2>5. row' \in [Ids -> Row] /\ \A j \in Ids : RowOK(row'[j]) /\ Moves(row[j], row'[j])
    BY <1>4, <1>6, <2>3, <2>4 DEF r
  <2>6. RequestOK(g) /\ g.done = g0.done \cup {i} /\ g.targets = g0.targets
    BY <1>1, TakenType
  <2> HIDE DEF g
  <2>7. DoneOK(row', g0)
    BY <2>5, RowsStep
  <2>8. Keeps(row'[i], n, asked)
    <3>1. row'[i] = r
      BY <1>3, <1>6 DEF r
    <3> QED
      BY <1>2, <2>1, <3>1 DEF Keeps, r
  <2>9. DoneOK(row', g)
    BY <2>6, <2>7, <2>8 DEF DoneOK, n, asked
  <2> QED
    BY <1>1, <1>6, <2>5, <2>6, <2>9, ServerStep DEF g
<1>7. CASE /\ Eligible(c, i)
           /\ \E q \in {row[i].quota, g0.targets[i].quota} : row' = [row EXCEPT ![i].quota = q]
           /\ call' = [call EXCEPT ![c] = GoesOn(c, i, "settlement_failed")]
  <2>1. PICK q \in {row[i].quota, asked} : row' = [row EXCEPT ![i].quota = q]
    BY <1>7 DEF asked
  <2> DEFINE r == [row[i] EXCEPT !.quota = q]
             g == GoesOn(c, i, "settlement_failed")
  <2>2. row' = [row EXCEPT ![i] = r]
    BY <1>3, <2>1
  <2>3. q \in Quotas \cup {NoQuota}
    BY <1>2, <1>3, <2>1 DEF Row
  <2>4. /\ r \in Row /\ r.status = row[i].status /\ r.revision = row[i].revision /\ r.quota = q
    BY <1>3, <2>3 DEF Row
  <2>5. r.review = row[i].review
    BY <1>3 DEF Row
  <2> HIDE DEF r
  <2>6. row[i].status = "resolved" => q = row[i].quota
    BY <1>5, <1>7, <2>1
  <2>7. RowOK(r) /\ Moves(row[i], r)
    <3>1. row[i].revision \in Nat
      BY <1>3, RevisionType DEF Row
    <3> QED
      BY <1>3, <2>4, <2>5, <2>6, <3>1 DEF RowOK, Moves
  <2>8. row' \in [Ids -> Row] /\ \A j \in Ids : RowOK(row'[j]) /\ Moves(row[j], row'[j])
    BY <1>4, <2>2, <2>4, <2>7
  <2>9. RequestOK(g) /\ g.done = g0.done /\ g.targets = g0.targets
    BY <1>1, TakenType
  <2> HIDE DEF g
  <2>10. DoneOK(row', g)
    <3>1. DoneOK(row', g0)
      BY <2>8, RowsStep
    <3> QED
      BY <2>9, <3>1 DEF DoneOK
  <2> QED
    BY <1>1, <1>7, <2>8, <2>9, <2>10, ServerStep DEF g
<1>8. CASE /\ call' = [call EXCEPT ![c] = GoesOn(c, i, "conflict")]
           /\ UNCHANGED <<row, faults>>
  <2>1. RequestOK(GoesOn(c, i, "conflict")) /\ DoneOK(row, GoesOn(c, i, "conflict"))
    BY <1>1, TakenType
  <2> QED
    BY <1>1, <1>8, <2>1, CallStep
<1> QED
  BY <1>6, <1>7, <1>8 DEF Complete

LEMMA ServeStep ==
  ASSUME IInv, NEW c \in Calls, Serve(c)
  PROVE  IInv'
BY ServeReviewStep, UnheardStep, ValidateStep, CompleteStep DEF Serve

-----------------------------------------------------------------------------
(* The page: nothing a step of it shows, selects or opens moves a row. *)

LEMMA PageStep ==
  ASSUME IInv, UNCHANGED <<fixed, server, told>>, PageOK'
  PROVE  IInv'
<1>1. UNCHANGED <<row, call>>
  BY DEF server
<1>2. FixedOK' /\ ToldOK'
  BY <1>1 DEF IInv, FixedOK, fixed, ToldOK
<1>3. RowsOK' /\ CallsOK'
  BY <1>1 DEF IInv, RowsOK, CallsOK
<1> QED
  BY <1>2, <1>3 DEF IInv

LEMMA NoGetType ==
  /\ NoGet \in [pc: {"none", "sent", "answered"}, items: [Ids -> Item]] /\ ItemsOK(NoGet.items)
  /\ LET sent == [NoGet EXCEPT !.pc = "sent"]
     IN sent \in [pc: {"none", "sent", "answered"}, items: [Ids -> Item]] /\ ItemsOK(sent.items)
<1>1. NoItem \in Item /\ NoItem.needs = "none" /\ NoItem.revision = 0
  BY RevisionType DEF NoItem, Item
<1>2. NoItems \in [Ids -> Item] /\ ItemsOK(NoItems)
  BY <1>1 DEF NoItems, ItemsOK
<1> QED
  BY <1>2 DEF NoGet

LEMMA PollStep ==
  ASSUME IInv, Poll
  PROVE  IInv'
<1>1. UNCHANGED <<fixed, server, told>>
  BY DEF Poll
<1>2. GetOK'
  BY NoGetType DEF Poll, GetOK
<1>3. ViewOK' /\ SelectedOK' /\ DialogOK' /\ MutationOK'
  BY DEF Poll, IInv, PageOK, ViewOK, SelectedOK, DialogOK, MutationOK
<1> QED
  BY <1>1, <1>2, <1>3, PageStep DEF PageOK

(* What the list says of a row. *)
LEMMA GetServedStep ==
  ASSUME IInv, GetServed
  PROVE  IInv'
<1> DEFINE item(i) == [revision |-> row[i].revision, needs |-> Needs(i)]
           items == [i \in Ids |-> IF i \in Listed THEN item(i) ELSE NoItem]
<1>1. UNCHANGED <<fixed, server, told>> /\ get' = [pc |-> "answered", items |-> items]
  BY DEF GetServed
<1>2. ASSUME NEW i \in Ids
      PROVE  item(i) \in Item /\ item(i).needs # "none" /\ item(i).revision # 0
  <2>1. row[i].revision \in Revision /\ row[i].revision # 0
    BY RevisionType DEF IInv, RowsOK, Row, RowOK
  <2>2. Needs(i) \in {"ordinary", "zero", "exact"}
    BY DEF Needs
  <2> QED
    BY <2>1, <2>2 DEF Item
<1> HIDE DEF item
<1>3. NoItem \in Item /\ NoItem.needs = "none" /\ NoItem.revision = 0
  BY RevisionType DEF NoItem, Item
<1>4. items \in [Ids -> Item] /\ ItemsOK(items)
  BY <1>2, <1>3 DEF ItemsOK
<1> HIDE DEF items
<1>5. GetOK'
  BY <1>1, <1>4 DEF GetOK
<1>6. ViewOK' /\ SelectedOK' /\ DialogOK' /\ MutationOK'
  BY DEF GetServed, IInv, PageOK, ViewOK, SelectedOK, DialogOK, MutationOK
<1> QED
  BY <1>1, <1>5, <1>6, PageStep DEF PageOK

LEMMA ArrivedType ==
  ASSUME IInv, Arrived
  PROVE  GetOK' /\ MutationOK'
<1>1. GetOK'
  BY NoGetType DEF Arrived, GetOK
<1>2. (mutation.pc = "refetch") \in BOOLEAN
  OBVIOUS
<1> DEFINE listed == mutation.pc = "refetch"
           m == [mutation EXCEPT !.listed = listed]
<1>3. mutation' = m
  BY DEF Arrived
<1> HIDE DEF listed
<1>4. MutationOK
  BY DEF IInv, PageOK
<1>5. /\ m \in [pc: {"none", "sent", "refetch"}, call: Calls \cup {NoMutation.call}, listed: BOOLEAN]
      /\ m.pc = mutation.pc /\ m.call = mutation.call
  BY <1>2, <1>4 DEF MutationOK, listed
<1> QED
  BY <1>1, <1>3, <1>4, <1>5 DEF MutationOK

LEMMA GetShownStep ==
  ASSUME IInv, GetShown
  PROVE  IInv'
<1>1. /\ UNCHANGED <<fixed, server, told, selected, dialog>> /\ Arrived
      /\ view' = [items |-> get.items, error |-> FALSE, loaded |-> TRUE]
  BY DEF GetShown
<1>2. get.items \in [Ids -> Item] /\ ItemsOK(get.items)
  BY DEF IInv, PageOK, GetOK
<1>3. ViewOK'
  BY <1>1, <1>2 DEF ViewOK
<1>4. SelectedOK' /\ DialogOK'
  BY <1>1 DEF IInv, PageOK, SelectedOK, DialogOK
<1> QED
  BY <1>1, <1>3, <1>4, ArrivedType, PageStep DEF PageOK

LEMMA GetFailsStep ==
  ASSUME IInv, GetFails
  PROVE  IInv'
<1>1. /\ UNCHANGED <<fixed, server, told, selected, dialog>> /\ Arrived
      /\ view' = [view EXCEPT !.error = TRUE]
  BY DEF GetFails
<1>2. ViewOK'
  <2>1. view \in [items: [Ids -> Item], error: BOOLEAN, loaded: BOOLEAN] /\ ItemsOK(view.items)
    BY DEF IInv, PageOK, ViewOK
  <2>2. view' \in [items: [Ids -> Item], error: BOOLEAN, loaded: BOOLEAN] /\ view'.items = view.items
    BY <1>1, <2>1
  <2> QED
    BY <2>1, <2>2 DEF ViewOK
<1>3. SelectedOK' /\ DialogOK'
  BY <1>1 DEF IInv, PageOK, SelectedOK, DialogOK
<1> QED
  BY <1>1, <1>2, <1>3, ArrivedType, PageStep DEF PageOK

-----------------------------------------------------------------------------
(* The administrator. *)

(* What is shown, selected or opened has a revision a row can have. *)
LEMMA ShownType ==
  ASSUME IInv
  PROVE  /\ \A i \in Ids : view.items[i].revision \in Revision
         /\ \A i \in Ids : Needed(i) # "none" => view.items[i].revision # 0
         /\ NoTargets \in [Ids -> Revision] /\ Active \in [Ids -> Revision]
         /\ \A i \in Ids : One(i) \in [Ids -> Revision] /\ One(i)[i] = view.items[i].revision
                           /\ \A j \in Ids : j # i => One(i)[j] = 0
<1>1. \A i \in Ids : view.items[i] \in Item
  BY DEF IInv, PageOK, ViewOK
<1>2. \A i \in Ids : view.items[i].revision \in Revision
  BY <1>1 DEF Item
<1>3. \A i \in Ids : Needed(i) # "none" => view.items[i].revision # 0
  BY DEF IInv, PageOK, ViewOK, ItemsOK, Needed
<1>4. NoTargets \in [Ids -> Revision] /\ \A i \in Ids : NoTargets[i] = 0
  BY RevisionType DEF NoTargets
<1>5. Active \in [Ids -> Revision]
  BY RevisionType DEF IInv, PageOK, SelectedOK, Active
<1>6. \A i \in Ids : /\ One(i) \in [Ids -> Revision] /\ One(i)[i] = view.items[i].revision
                     /\ \A j \in Ids : j # i => One(i)[j] = 0
  BY <1>2, <1>4 DEF One
<1> QED
  BY <1>2, <1>3, <1>4, <1>5, <1>6

LEMMA SelectedStep ==
  ASSUME IInv, UNCHANGED <<fixed, server, view, get, dialog, mutation, told>>, SelectedOK'
  PROVE  IInv'
<1>1. ViewOK' /\ GetOK' /\ DialogOK' /\ MutationOK'
  BY DEF IInv, PageOK, ViewOK, GetOK, DialogOK, MutationOK
<1> QED
  BY <1>1, PageStep DEF PageOK

LEMMA ToggleStep ==
  ASSUME IInv, ToggleAll \/ \E i \in Ids : ToggleItem(i)
  PROVE  IInv'
<1>1. ASSUME NEW i \in Ids, ToggleItem(i)
      PROVE  SelectedOK'
  <2> DEFINE new == IF Active[i] = 0 THEN view.items[i].revision ELSE 0
  <2>1. selected' = [Active EXCEPT ![i] = new]
    BY <1>1 DEF ToggleItem
  <2>2. new \in Revision
    BY ShownType, RevisionType
  <2> HIDE DEF new
  <2> QED
    BY <2>1, <2>2, ShownType DEF SelectedOK
<1>2. ASSUME ToggleAll
      PROVE  SelectedOK'
  BY <1>2, ShownType, RevisionType DEF ToggleAll, SelectedOK
<1>3. UNCHANGED <<fixed, server, view, get, dialog, mutation, told>>
  BY DEF ToggleItem, ToggleAll
<1> QED
  BY <1>1, <1>2, <1>3, SelectedStep

LEMMA CancelStep ==
  ASSUME IInv, Cancel
  PROVE  IInv'
<1>1. UNCHANGED <<fixed, server, view, get, selected, mutation, told>> /\ dialog' = NoDialog
  BY DEF Cancel
<1>2. NoDialog \in [kind: {"none", "single", "zero", "batch"}, targets: [Ids -> Revision]]
  BY RevisionType DEF NoDialog, NoTargets
<1>3. DialogOK'
  BY <1>1, <1>2 DEF DialogOK, NoDialog
<1>4. ViewOK' /\ GetOK' /\ SelectedOK' /\ MutationOK'
  BY <1>1 DEF IInv, PageOK, ViewOK, GetOK, SelectedOK, MutationOK
<1> QED
  BY <1>1, <1>3, <1>4, PageStep DEF PageOK

(* What the mutation is sent with. *)
Asking(which, targets, quota) ==
  /\ which \in {"review", "single", "zero", "batch"} /\ targets \in [Ids -> Revision]
  /\ quota \in [Ids -> Quotas \cup {NoQuota}]
  /\ \A i \in Ids : targets[i] # 0 => ((quota[i] = NoQuota) <=> (which = "review"))
Sent(which, targets) ==
  /\ mutation'.pc = "sent" /\ mutation'.call \in Calls
  /\ call'[mutation'.call].kind = which
  /\ \A i \in Ids : call'[mutation'.call].targets[i].revision = targets[i]

LEMMA SendStep ==
  ASSUME IInv, UNCHANGED fixed, NEW which, NEW targets, NEW quota,
         Asking(which, targets, quota), Send(which, targets, quota)
  PROVE  /\ Sent(which, targets) /\ CallsOK' /\ MutationOK' /\ UNCHANGED row
<1>1. PICK c \in Calls :
        /\ call' = [call EXCEPT ![c] =
             [NoCall EXCEPT !.kind = which,
                !.pc = CASE which = "review" -> "review" [] which = "single" -> "complete"
                         [] OTHER -> "validate",
                !.targets = [i \in Ids |-> [revision |-> targets[i], quota |-> quota[i]]],
                !.todo = {i \in Ids : targets[i] # 0}]]
        /\ mutation' = [pc |-> "sent", call |-> c, listed |-> FALSE]
        /\ UNCHANGED row
  BY DEF Send
<1> DEFINE pc == CASE which = "review" -> "review" [] which = "single" -> "complete"
                   [] OTHER -> "validate"
           aims == [i \in Ids |-> [revision |-> targets[i], quota |-> quota[i]]]
           todo == {i \in Ids : targets[i] # 0}
           g == [NoCall EXCEPT !.kind = which, !.pc = pc, !.targets = aims, !.todo = todo]
<1>2. call' = [call EXCEPT ![c] = g]
  BY <1>1
<1>3. /\ pc \in {"review", "complete", "validate"} /\ (pc = "review" <=> which = "review")
      /\ which \in {"review", "single", "zero", "batch"}
  BY DEF Asking
<1>4. aims \in [Ids -> Target] /\ \A i \in Ids : aims[i].revision = targets[i] /\ aims[i].quota = quota[i]
  BY DEF Asking, Target
<1>5. todo \in SUBSET Ids /\ \A i \in Ids : i \in todo <=> targets[i] # 0
  OBVIOUS
<1> HIDE DEF pc, aims, todo
<1>6. /\ g \in Request /\ g.pc = pc /\ g.kind = which /\ g.targets = aims /\ g.todo = todo
      /\ g.done = {} /\ g.failed = NoFailures
  <2>1. NoCall \in Request /\ NoCall.done = {}
    BY Answered0
  <2>2. NoCall.failed = NoFailures
    BY DEF NoCall
  <2> QED
    BY <1>3, <1>4, <1>5, <2>1, <2>2 DEF Request
<1> HIDE DEF g
<1>7. Asked(g) = todo
  BY <1>4, <1>5, <1>6 DEF Asked
<1>8. Failed(g) = {} /\ Skipped(g) = {}
  BY <1>6 DEF Failed, Skipped, NoFailures
<1>9. \A i \in todo : (g.targets[i].quota = NoQuota) <=> (which = "review")
  BY <1>4, <1>5, <1>6 DEF Asking
<1>10. RequestOK(g) /\ DoneOK(row, g)
  BY <1>3, <1>6, <1>7, <1>8, <1>9 DEF RequestOK, Account, DoneOK
<1>11. /\ call' \in [Calls -> Request] /\ call'[c] = g
       /\ \A d \in Calls : d # c => call'[d] = call[d]
  BY <1>2, <1>6 DEF IInv, CallsOK
<1>12. CallsOK'
  BY <1>1, <1>10, <1>11 DEF IInv, CallsOK
<1>13. MutationOK'
  BY <1>1 DEF MutationOK
<1>14. Sent(which, targets)
  BY <1>1, <1>4, <1>6, <1>11 DEF Sent
<1> QED
  BY <1>1, <1>12, <1>13, <1>14

(* What is opened asks for something. *)
LEMMA OpenStep ==
  ASSUME IInv, NEW which \in {"single", "zero", "batch"}, NEW targets \in [Ids -> Revision],
         \E i \in Ids : targets[i] # 0, Open(which, targets)
  PROVE  DialogOK' /\ UNCHANGED <<server, mutation>>
<1>1. dialog' = [kind |-> which, targets |-> targets] /\ UNCHANGED <<server, mutation>>
  BY DEF Open
<1> QED
  BY <1>1 DEF DialogOK

LEMMA ClassifyNonempty ==
  /\ \A ids \in SUBSET Ids : Classify(ids) \in {"ordinary", "exact", "zero"} => ids # {}
  /\ \A ids \in SUBSET Ids : Classify(ids) = "ordinary" => \A i \in ids : Needed(i) = "ordinary"
<1>1. ASSUME NEW ids \in SUBSET Ids, Classify(ids) \in {"ordinary", "exact", "zero"}, ids = {}
      PROVE  FALSE
  <2>1. {Needed(i) : i \in ids} = {}
    BY <1>1
  <2>2. Classify(ids) = "empty"
    BY <2>1 DEF Classify
  <2> QED
    BY <1>1, <2>2
<1>2. ASSUME NEW ids \in SUBSET Ids, Classify(ids) = "ordinary", NEW i \in ids
      PROVE  Needed(i) = "ordinary"
  <2>1. {Needed(j) : j \in ids} = {"ordinary"}
    BY <1>2 DEF Classify
  <2> QED
    BY <2>1
<1> QED
  BY <1>1, <1>2

(* What is sent is on the screen, and needs what is sent. *)
Fits(which, need) ==
  need \in CASE which = "review" -> {"ordinary"}
             [] which = "zero" -> {"zero"}
             [] OTHER -> {"zero", "exact"}
Shown(targets) == \A i \in Ids : targets[i] # 0 => view.items[i].revision = targets[i]
AskedRight(which, targets) ==
  /\ Sent(which, targets) /\ Shown(targets) /\ \E i \in Ids : targets[i] # 0
  /\ \A i \in Ids : targets[i] # 0 => Fits(which, Needed(i))
Goes == UNCHANGED row /\ CallsOK' /\ MutationOK' /\ DialogOK'
Question == UNCHANGED mutation \/ \E which, targets : AskedRight(which, targets)

LEMMA ReviewTargetsStep ==
  ASSUME IInv, UNCHANGED fixed, NEW targets \in [Ids -> Revision], Shown(targets),
         ReviewTargets(targets)
  PROVE  Goes /\ Question
<1> DEFINE ids == {i \in Ids : targets[i] # 0}
<1>1. CASE Classify(ids) = "ordinary" /\ Send("review", targets, Unasked) /\ UNCHANGED dialog
  <2>1. Unasked \in [Ids -> Quotas \cup {NoQuota}] /\ \A i \in Ids : Unasked[i] = NoQuota
    BY DEF Unasked
  <2>2. Asking("review", targets, Unasked)
    BY <2>1 DEF Asking
  <2>3. Sent("review", targets) /\ CallsOK' /\ MutationOK' /\ UNCHANGED row
    BY <1>1, <2>2, SendStep
  <2>4. DialogOK'
    BY <1>1 DEF IInv, PageOK, DialogOK
  <2>5. ids # {} /\ \A i \in ids : Needed(i) = "ordinary"
    BY <1>1, ClassifyNonempty
  <2>6. AskedRight("review", targets)
    BY <2>3, <2>5 DEF AskedRight, Fits
  <2> QED
    BY <2>3, <2>4, <2>6 DEF Goes, Question
<1>2. ASSUME NEW which \in {"zero", "batch"}, Classify(ids) \in {"zero", "exact"}, Open(which, targets)
      PROVE  Goes /\ Question
  <2>1. \E i \in Ids : targets[i] # 0
    BY <1>2, ClassifyNonempty
  <2>2. DialogOK' /\ UNCHANGED <<server, mutation>>
    BY <1>2, <2>1, OpenStep
  <2> QED
    BY <2>2 DEF Goes, Question, IInv, PageOK, CallsOK, MutationOK, server
<1> QED
  BY <1>1, <1>2 DEF ReviewTargets

LEMMA ActStep ==
  ASSUME IInv, Act
  PROVE  IInv' /\ Question /\ ~view.error
<1>1. UNCHANGED <<fixed, view, get, selected, told, faults>> /\ TableReady
  BY DEF Act
<1>2. /\ Active \in [Ids -> Revision] /\ Shown(Active)
      /\ \A i \in Ids : One(i) \in [Ids -> Revision] /\ Shown(One(i))
  <2>1. Active \in [Ids -> Revision] /\ \A i \in Ids : One(i) \in [Ids -> Revision]
    BY ShownType
  <2>2. Shown(Active)
    BY DEF Shown, Active
  <2>3. \A i \in Ids : Shown(One(i))
    BY ShownType DEF Shown
  <2> QED
    BY <2>1, <2>2, <2>3
<1>3. Goes /\ Question
  <2>1. ASSUME NEW i \in Ids, ReviewTargets(One(i))
        PROVE  Goes /\ Question
    BY <1>1, <1>2, <2>1, ReviewTargetsStep
  <2>2. ASSUME NEW i \in Ids, Needed(i) \in {"zero", "exact"}, Open("single", One(i))
        PROVE  Goes /\ Question
    <3>1. \E j \in Ids : One(i)[j] # 0
      BY <2>2, ShownType
    <3>2. DialogOK' /\ UNCHANGED <<server, mutation>>
      BY <1>2, <2>2, <3>1, OpenStep
    <3> QED
      BY <3>2 DEF Goes, Question, IInv, PageOK, CallsOK, MutationOK, server
  <2>3. CASE ReviewTargets(Active)
    BY <1>1, <1>2, <2>3, ReviewTargetsStep
  <2>4. CASE Classify(ActiveIds) = "zero" /\ Open("batch", Active)
    <3>1. \E i \in Ids : Active[i] # 0
      BY <2>4, ClassifyNonempty DEF ActiveIds
    <3>2. DialogOK' /\ UNCHANGED <<server, mutation>>
      BY <1>2, <2>4, <3>1, OpenStep
    <3> QED
      BY <3>2 DEF Goes, Question, IInv, PageOK, CallsOK, MutationOK, server
  <2> QED
    BY <2>1, <2>2, <2>3, <2>4 DEF Act
<1>4. FixedOK' /\ RowsOK' /\ ToldOK'
  BY <1>1, <1>3 DEF IInv, Goes, FixedOK, fixed, RowsOK, ToldOK
<1>5. ViewOK' /\ GetOK' /\ SelectedOK'
  BY <1>1 DEF IInv, PageOK, ViewOK, GetOK, SelectedOK
<1> QED
  BY <1>1, <1>3, <1>4, <1>5 DEF IInv, PageOK, Goes, TableReady

LEMMA ConfirmStep ==
  ASSUME IInv, Confirm
  PROVE  IInv' /\ Question /\ ~view.error
<1>1. PICK quota \in Typed : Send(dialog.kind, dialog.targets, quota)
  BY DEF Confirm
<1>2. /\ UNCHANGED <<fixed, view, get, selected, told, faults>> /\ dialog # NoDialog /\ ~Stale
      /\ dialog' \in {dialog, NoDialog}
  BY DEF Confirm
<1>3. /\ dialog.kind \in {"single", "zero", "batch"} /\ dialog.targets \in [Ids -> Revision]
      /\ \E i \in Ids : dialog.targets[i] # 0
  BY <1>2 DEF IInv, PageOK, DialogOK
<1>4. Asking(dialog.kind, dialog.targets, quota)
  BY <1>3 DEF Asking, Typed
<1>5. Sent(dialog.kind, dialog.targets) /\ CallsOK' /\ MutationOK' /\ UNCHANGED row
  BY <1>1, <1>2, <1>4, SendStep
<1>6. /\ ~view.error /\ Shown(dialog.targets)
      /\ \A i \in Ids : dialog.targets[i] # 0 => Fits(dialog.kind, Needed(i))
  BY <1>2, <1>3 DEF Stale, Unmatched, Shown, Fits
<1>7. AskedRight(dialog.kind, dialog.targets)
  BY <1>3, <1>5, <1>6 DEF AskedRight
<1>8. DialogOK'
  <2>1. NoDialog \in [kind: {"none", "single", "zero", "batch"}, targets: [Ids -> Revision]]
    BY RevisionType DEF NoDialog, NoTargets
  <2> QED
    BY <1>2, <2>1 DEF IInv, PageOK, DialogOK, NoDialog
<1>9. FixedOK' /\ RowsOK' /\ ToldOK' /\ ViewOK' /\ GetOK' /\ SelectedOK'
  BY <1>2, <1>5 DEF IInv, FixedOK, fixed, RowsOK, ToldOK, PageOK, ViewOK, GetOK, SelectedOK
<1> QED
  BY <1>5, <1>6, <1>7, <1>8, <1>9 DEF IInv, PageOK, Question

-----------------------------------------------------------------------------
(* The answers. *)

LEMMA RefetchType ==
  ASSUME IInv, Refetch
  PROVE  GetOK' /\ MutationOK'
<1>1. GetOK'
  BY NoGetType DEF Refetch, GetOK, IInv, PageOK
<1>2. MutationOK'
  BY DEF Refetch, MutationOK, IInv, PageOK
<1> QED
  BY <1>1, <1>2

(* The request is over, the rows stay. *)
LEMMA OverStep ==
  ASSUME IInv, UNCHANGED row, mutation.call \in Calls,
         call' = [call EXCEPT ![mutation.call] = Over]
  PROVE  CallsOK'
<1> DEFINE c == mutation.call
<1>1. RequestOK(Over) /\ DoneOK(row, Over) /\ Over \in Request
  BY Answered0 DEF RequestOK
<1>2. /\ call' \in [Calls -> Request] /\ call'[c] = Over
      /\ \A d \in Calls : d # c => call'[d] = call[d]
  BY <1>1 DEF IInv, CallsOK
<1> QED
  BY <1>1, <1>2 DEF IInv, CallsOK

LEMMA AnsweredStep ==
  ASSUME IInv, Answered
  PROVE  IInv'
<1> DEFINE answer == call[mutation.call]
           closed == {[id |-> i, revision |-> answer.targets[i].revision,
                       quota |-> answer.targets[i].quota] : i \in answer.done}
<1>1. /\ UNCHANGED <<fixed, row, view, faults>> /\ Refetch /\ mutation.pc = "sent"
      /\ call' = [call EXCEPT ![mutation.call] = Over]
  BY DEF Answered
<1>2. selected' \in {selected, NoTargets} /\ dialog' \in {dialog, NoDialog} /\ told' \in {told, told \cup closed}
  BY DEF Answered
<1>3. mutation.call \in Calls
  BY <1>1 DEF IInv, PageOK, MutationOK
<1>4. answer \in Request /\ DoneOK(row, answer)
  BY <1>3, CallType
<1>5. ASSUME NEW i \in answer.done
      PROVE  /\ i \in Ids /\ answer.targets[i].revision \in Revision
             /\ Keeps(row[i], answer.targets[i].revision, answer.targets[i].quota)
  BY <1>4 DEF Request, Target, DoneOK
<1>6. \A t \in closed : t.id \in Ids /\ t.revision \in Revision /\ Keeps(row[t.id], t.revision, t.quota)
  BY <1>5
<1>7. ToldOK'
  BY <1>1, <1>2, <1>6 DEF IInv, ToldOK
<1>8. CallsOK'
  BY <1>1, <1>3, OverStep
<1>9. SelectedOK' /\ DialogOK'
  <2>1. NoDialog \in [kind: {"none", "single", "zero", "batch"}, targets: [Ids -> Revision]]
        /\ NoTargets \in [Ids -> Revision]
    BY RevisionType DEF NoDialog, NoTargets
  <2> QED
    BY <1>2, <2>1 DEF IInv, PageOK, SelectedOK, DialogOK, NoDialog
<1>10. FixedOK' /\ RowsOK' /\ ViewOK'
  BY <1>1 DEF IInv, PageOK, FixedOK, fixed, RowsOK, ViewOK
<1> QED
  BY <1>1, <1>7, <1>8, <1>9, <1>10, RefetchType DEF IInv, PageOK

LEMMA LostStep ==
  ASSUME IInv, AnswerLost \/ ServerDies
  PROVE  IInv'
<1>1. /\ UNCHANGED <<fixed, row, view, selected, dialog, told>> /\ Refetch /\ mutation.pc = "sent"
      /\ UNCHANGED call \/ call' = [call EXCEPT ![mutation.call] = Over]
  BY DEF AnswerLost, ServerDies, server
<1>2. mutation.call \in Calls
  BY <1>1 DEF IInv, PageOK, MutationOK
<1>3. CallsOK'
  BY <1>1, <1>2, OverStep DEF IInv, CallsOK
<1>4. FixedOK' /\ RowsOK' /\ ToldOK' /\ ViewOK' /\ SelectedOK' /\ DialogOK'
  BY <1>1 DEF IInv, PageOK, FixedOK, fixed, RowsOK, ToldOK, ViewOK, SelectedOK, DialogOK
<1> QED
  BY <1>1, <1>3, <1>4, RefetchType DEF IInv, PageOK

LEMMA SettledStep ==
  ASSUME IInv, Settled
  PROVE  IInv'
<1>1. /\ UNCHANGED <<fixed, server, view, get, selected, dialog, told, faults>>
      /\ mutation' = NoMutation
  BY DEF Settled
<1>2. MutationOK'
  BY <1>1 DEF MutationOK, NoMutation
<1>3. ViewOK' /\ GetOK' /\ SelectedOK' /\ DialogOK'
  BY <1>1 DEF IInv, PageOK, ViewOK, GetOK, SelectedOK, DialogOK
<1> QED
  BY <1>1, <1>2, <1>3, PageStep DEF PageOK

-----------------------------------------------------------------------------
(* The invariant. *)

LEMMA InitIInv == Init => IInv
<1> SUFFICES ASSUME Init
             PROVE  IInv
  OBVIOUS
<1>1. FixedOK
  BY DEF Init, FixedOK, Kinds
<1>2. RowsOK
  <2>1. 1 \in Revision /\ 1 <= MaxRevision
    BY BoundAssumption DEF Revision
  <2>2. row \in [Ids -> {[status |-> s, revision |-> 1, review |-> "none", quota |-> NoQuota] :
                         s \in {"pending", "manual"}}]
    BY DEF Init
  <2>3. \A r \in {[status |-> s, revision |-> 1, review |-> "none", quota |-> NoQuota] :
                  s \in {"pending", "manual"}} : r \in Row /\ RowOK(r)
    <3> SUFFICES ASSUME NEW s \in {"pending", "manual"}, NEW r,
                        r = [status |-> s, revision |-> 1, review |-> "none", quota |-> NoQuota]
                 PROVE  r \in Row /\ RowOK(r)
      OBVIOUS
    <3> QED
      BY <2>1 DEF Row, RowOK, Reviews
  <2> QED
    BY <2>2, <2>3 DEF RowsOK
<1>3. CallsOK
  BY Answered0 DEF Init, CallsOK
<1>4. ToldOK
  BY DEF Init, ToldOK
<1>5. ViewOK /\ GetOK
  BY NoGetType DEF Init, ViewOK, GetOK, NoGet
<1>6. SelectedOK /\ DialogOK
  BY RevisionType DEF Init, SelectedOK, DialogOK, NoDialog, NoTargets
<1>7. MutationOK
  BY DEF Init, MutationOK, NoMutation
<1> QED
  BY <1>1, <1>2, <1>3, <1>4, <1>5, <1>6, <1>7 DEF IInv, PageOK

LEMMA NextIInv == IInv /\ [Next]_vars => IInv'
<1> SUFFICES ASSUME IInv, [Next]_vars
             PROVE  IInv'
  OBVIOUS
<1>1. CASE \E i \in Ids : Rewrite(i) \/ ReviewElsewhere(i) \/ ToggleItem(i)
  BY <1>1, RewriteStep, ElsewhereStep, ToggleStep
<1>2. CASE \E c \in Calls : Serve(c)
  BY <1>2, ServeStep
<1>3. CASE Poll \/ GetServed \/ GetShown \/ GetFails
  BY <1>3, PollStep, GetServedStep, GetShownStep, GetFailsStep
<1>4. CASE ToggleAll \/ Act \/ Cancel \/ Confirm
  BY <1>4, ToggleStep, ActStep, CancelStep, ConfirmStep
<1>5. CASE Answered \/ AnswerLost \/ ServerDies \/ Settled
  BY <1>5, AnsweredStep, LostStep, SettledStep
<1>6. CASE UNCHANGED vars
  <2>1. UNCHANGED <<fixed, server, page>>
    BY <1>6 DEF vars
  <2>2. PageOK'
    BY <2>1 DEF page, IInv, PageOK, ViewOK, GetOK, SelectedOK, DialogOK, MutationOK
  <2> QED
    BY <2>1, <2>2, PageStep DEF page
<1> QED
  BY <1>1, <1>2, <1>3, <1>4, <1>5, <1>6 DEF Next

LEMMA Invariance == Spec => []IInv
BY InitIInv, NextIInv, PTL DEF Spec

-----------------------------------------------------------------------------
(* The theorems. *)

(* What an administrator was told stays true: a settlement the page         *)
(* reported completed is resolved with the very quota that was typed for    *)
(* it, and an alert it reported closed waits for no review as long as the   *)
(* record is the one shown, whatever writes the rows meanwhile (another     *)
(* administrator may only close it again, or open it on purpose), whatever  *)
(* answer was lost and whatever was typed on a second try                   *)
(* (CompleteManualTaskBillingSettlement, ReviewBillingSettlements,          *)
(* ReviewBillingSettlement).                                                *)
THEOREM ToldStaysTrue == Spec => []ToldIsTrue
<1>1. ASSUME IInv
      PROVE  ToldIsTrue
  <2>1. TypeOK
    <3>1. \A c \in Calls : call[c].targets \in [Ids -> Target] /\ call[c].todo \subseteq Targets(c)
      BY <1>1, CallType DEF RequestOK
    <3>2. /\ kind \in [Ids -> {"request", "task", "h3"}] /\ root \in BOOLEAN
          /\ row \in [Ids -> [status: {"pending", "manual", "applied", "resolved"},
                              revision: Revision, review: {"none", "closed", "blocked"},
                              quota: Quotas \cup {NoQuota}]]
      BY <1>1 DEF IInv, FixedOK, Kinds, RowsOK, Row, Reviews
    <3>3. /\ selected \in [Ids -> Revision] /\ dialog.targets \in [Ids -> Revision]
          /\ mutation.pc \in {"none", "sent", "refetch"} /\ get.pc \in {"none", "sent", "answered"}
      BY <1>1 DEF IInv, PageOK, SelectedOK, DialogOK, MutationOK, GetOK
    <3> QED
      BY <3>1, <3>2, <3>3 DEF TypeOK
  <2>2. ASSUME NEW t \in told
        PROVE  IF t.quota = NoQuota
               THEN row[t.id].revision = t.revision => row[t.id].review # "none"
               ELSE row[t.id].status = "resolved" /\ row[t.id].quota = t.quota
    <3>1. Keeps(row[t.id], t.revision, t.quota)
      BY <1>1 DEF IInv, ToldOK
    <3> QED
      BY <3>1, Zenon DEF Keeps
  <2> QED
    BY <2>1, <2>2 DEF ToldIsTrue
<1> QED
  BY <1>1, Invariance, PTL

(* The answer to a batch accounts for every task it was asked for exactly   *)
(* once, and one that says "not attempted" of any of them settled none:     *)
(* both loops of the batch endpoints look at every target first.            *)
THEOREM AnswersAreWhole == Spec => []AnswerIsWhole
<1>1. ASSUME IInv
      PROVE  AnswerIsWhole
  <2> SUFFICES ASSUME NEW c \in Calls, call[c].pc = "answer", call[c].kind \in {"zero", "batch"}
               PROVE  /\ call[c].done \cup Failed(call[c]) = Targets(c)
                      /\ call[c].done \cap Failed(call[c]) = {}
                      /\ (\E i \in Failed(call[c]) : call[c].failed[i] = "not_attempted")
                           => call[c].done = {}
    BY DEF AnswerIsWhole, Failed
  <2>1. Account(call[c]) /\ Targets(c) = Asked(call[c])
    BY <1>1, CallType DEF RequestOK
  <2>2. (\E i \in Failed(call[c]) : call[c].failed[i] = "not_attempted") => Skipped(call[c]) # {}
    BY DEF Failed, Skipped
  <2> QED
    BY <2>1, <2>2 DEF Account
<1> QED
  BY <1>1, Invariance, PTL

(* A request of the page names only records that are on the screen at the   *)
(* revision it names, without an error, and that need what it asks for: the *)
(* table goes away when a fetch fails, and a dialog whose item changed      *)
(* cannot be confirmed (the alerts page and its dialogs).                   *)
THEOREM RequestsNameWhatIsShown == Spec => AsksWhatIsShown
<1> DEFINE Asks ==
      mutation.pc = "none" /\ mutation'.pc = "sent" =>
       LET request == call'[mutation'.call]
           asked == {i \in Ids : request.targets[i].revision # 0}
       IN /\ asked # {} /\ ~view.error
          /\ \A i \in asked : view.items[i].revision = request.targets[i].revision
          /\ {Needed(i) : i \in asked} \subseteq
               CASE request.kind = "review" -> {"ordinary"}
                 [] request.kind = "zero" -> {"zero"}
                 [] OTHER -> {"zero", "exact"}
<1>1. ASSUME Question, ~view.error
      PROVE  Asks
  <2> SUFFICES ASSUME mutation.pc = "none", mutation'.pc = "sent"
               PROVE  Asks
    OBVIOUS
  <2>1. PICK which, targets : AskedRight(which, targets)
    BY <1>1 DEF Question
  <2> DEFINE request == call'[mutation'.call]
  <2>2. /\ request.kind = which /\ \A i \in Ids : request.targets[i].revision = targets[i]
        /\ \E i \in Ids : targets[i] # 0
        /\ \A i \in Ids : targets[i] # 0 => view.items[i].revision = targets[i] /\ Fits(which, Needed(i))
    BY <2>1 DEF AskedRight, Sent, Shown
  <2> HIDE DEF request
  <2>3. {i \in Ids : request.targets[i].revision # 0} = {i \in Ids : targets[i] # 0}
    BY <2>2
  <2> QED
    BY <1>1, <2>2, <2>3 DEF Fits, request
<1>2. ASSUME IInv, [Next]_vars
      PROVE  [Asks]_vars
  <2> SUFFICES ASSUME Next, mutation.pc = "none", mutation'.pc = "sent"
               PROVE  Asks
    BY <1>2
  <2> HIDE DEF Asks
  <2>1. CASE \E i \in Ids : Rewrite(i) \/ ReviewElsewhere(i) \/ ToggleItem(i)
    BY <2>1 DEF Rewrite, ReviewElsewhere, ToggleItem, page
  <2>2. CASE \E c \in Calls : Serve(c)
    BY <2>2 DEF Serve, ServeReview, Unheard, Validate, Complete, page
  <2>3. CASE Poll \/ GetServed \/ ToggleAll \/ Cancel
    BY <2>3 DEF Poll, GetServed, ToggleAll, Cancel
  <2>4. CASE GetShown \/ GetFails
    <3>1. mutation'.pc = mutation.pc
      BY <1>2, <2>4 DEF GetShown, GetFails, Arrived, IInv, PageOK, MutationOK
    <3> QED
      BY <3>1
  <2>5. CASE Act \/ Confirm
    BY <1>1, <1>2, <2>5, ActStep, ConfirmStep
  <2>6. CASE Answered \/ AnswerLost \/ ServerDies \/ Settled
    <3>1. mutation'.pc \in {"refetch", "none"}
      BY <1>2, <2>6 DEF Answered, AnswerLost, ServerDies, Settled, Refetch, NoMutation,
                        IInv, PageOK, MutationOK
    <3> QED
      BY <3>1
  <2> QED
    BY <2>1, <2>2, <2>3, <2>4, <2>5, <2>6 DEF Next
<1>3. [][Asks]_vars <=> AsksWhatIsShown
  BY PTL DEF AsksWhatIsShown
<1> QED
  BY <1>2, <1>3, Invariance, PTL DEF Spec

=============================================================================

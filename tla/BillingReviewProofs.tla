--------------------------- MODULE BillingReviewProofs ---------------------------
(***************************************************************************)
(* Proofs about BillingReview, for every set of records, administrators,   *)
(* processes that record failures, and every set of causes.                *)
(***************************************************************************)
EXTENDS BillingReview, TLAPS

-----------------------------------------------------------------------------
(* The inductive invariant. *)

Labels == {"idle", "failed", "mark", "shown", "review"}
AnyRecord == CHOOSE r \in Records : TRUE
Failure == [row: Row, cause: Causes \cup {""}, id: Records \cup {AnyRecord}]

LocalType ==
  /\ failing \in [Markers -> Failure]
  /\ shown \in [Reviewers -> [Records -> Row]]
  /\ snapshot \in [Reviewers -> Row]
  /\ target \in [Reviewers -> Records \cup {AnyRecord}]
  /\ evidence \in [Records -> Statuses \X (Causes \cup {""})]

(* A row read earlier is told from the stored one by its revision, as far  *)
(* as its evidence goes.                                                   *)
Since(old, new) ==
  /\ old.revision <= new.revision
  /\ old.revision = new.revision => old.status = new.status /\ old.error = new.error

RowOK(r) ==
  row[r].revision = 0 => row[r].status = "none" /\ row[r].error = "" /\ row[r].reviewer = Nobody

(* A process about to record a failure knows the row as it once was.        *)
MarkerOK(m) ==
  /\ pc[m] \in {"failed", "mark"} =>
       /\ failing[m].id \in Records /\ failing[m].cause \in Causes
       /\ row[failing[m].id].status # "none"
  /\ pc[m] = "mark" => Since(failing[m].row, row[failing[m].id])

ReviewerOK(a) ==
  /\ \A r \in Records : Since(shown[a][r], row[r])
  /\ pc[a] = "review" => target[a] \in Records /\ Since(snapshot[a], row[target[a]])

IInv ==
  /\ ReviewMatchesEvidence
  /\ LocalType
  /\ \A r \in Records : RowOK(r)
  /\ \A m \in Markers : MarkerOK(m)
  /\ \A a \in Reviewers : ReviewerOK(a)

-----------------------------------------------------------------------------
(* What a step does to the rows. *)

RowMoves(r) ==
  /\ row'[r] \in Row /\ RowOK(r)'
  /\ row'[r].status = "none" <=> row'[r].revision = 0
  /\ Reviewed(row'[r]) <=> row'[r].override # "null"
  /\ Since(row[r], row'[r])
  /\ row[r].status # "none" => row'[r].status # "none"

LEMMA RowFields ==
  ASSUME NEW r \in Row
  PROVE  /\ r.status \in Statuses /\ r.error \in Causes \cup {""}
         /\ r.revision \in Nat /\ r.revision <= MaxRevision
         /\ r.reviewer \in Reviewers \cup {Nobody} /\ r.override \in {"null", "allow", "block"}
<1>1. /\ r.status \in Statuses /\ r.error \in Causes \cup {""} /\ r.revision \in 0..MaxRevision
      /\ r.reviewer \in Reviewers \cup {Nobody} /\ r.override \in {"null", "allow", "block"}
  BY DEF Row
<1>2. r.revision \in 0..MaxRevision
  BY <1>1
<1>3. r.revision \in Nat /\ r.revision <= MaxRevision
  BY <1>2, RevisionAssumption
<1> QED
  BY <1>1, <1>3

(* The next revision, when the bound leaves one. *)
LEMMA NextRevision ==
  ASSUME NEW r \in Row, r.revision < MaxRevision
  PROVE  1 \in 0..MaxRevision /\ r.revision + 1 \in 0..MaxRevision /\ r.revision # r.revision + 1
         /\ r.revision <= r.revision + 1 /\ r.revision + 1 # 0
<1>1. r.revision \in Nat
  BY RowFields
<1> QED
  BY <1>1, RevisionAssumption

LEMMA RowsKnown ==
  ASSUME IInv, NEW r \in Records
  PROVE  /\ row \in [Records -> Row] /\ row[r] \in Row /\ row[r].revision \in Nat /\ RowOK(r)
         /\ row[r].status = "none" <=> row[r].revision = 0
         /\ Reviewed(row[r]) <=> row[r].override # "null"
BY RowFields DEF IInv, ReviewMatchesEvidence, TypeOK

LEMMA Stays ==
  ASSUME IInv, NEW r \in Records, row'[r] = row[r]
  PROVE  RowMoves(r)
<1>1. row'[r] \in Row /\ (row'[r].status = "none" <=> row'[r].revision = 0)
      /\ (Reviewed(row'[r]) <=> row'[r].override # "null")
  BY RowsKnown
<1>2. RowOK(r)'
  BY RowsKnown DEF RowOK
<1>3. Since(row[r], row'[r])
  BY RowsKnown DEF Since
<1> QED
  BY <1>1, <1>2, <1>3 DEF RowMoves

LEMMA NoRowType == NoRow \in Row /\ EvidenceOf(NoRow) = <<"none", "">> /\ NoRow.revision = 0
BY RevisionAssumption DEF NoRow, Row, Statuses, EvidenceOf

LEMMA NoRowFirst == \A i \in Nat : NoRow.revision <= i
BY DEF NoRow

LEMMA NoRowSince ==
  ASSUME NEW r \in Row, r.revision = 0 => r.status = "none" /\ r.error = ""
  PROVE  Since(NoRow, r)
<1>1. r.revision \in Nat
  BY RowFields
<1>3. NoRow.revision <= r.revision
  BY <1>1, NoRowFirst
<1>4. NoRow.revision = r.revision => NoRow.status = r.status /\ NoRow.error = r.error
  BY DEF NoRow
<1> QED
  BY <1>3, <1>4 DEF Since

LEMMA RecordMoves ==
  ASSUME IInv, NEW m \in Markers, NEW k \in Records, Record(m, k), NEW r \in Records
  PROVE  RowMoves(r)
<1>1. CASE r # k
  BY <1>1, RowsKnown, Stays DEF Record
<1>2. CASE r = k
  <2>1. row'[r] = [row[r] EXCEPT !.status = "pending", !.revision = 1]
    BY <1>2, RowsKnown DEF Record
  <2>2. /\ row[r] \in Row /\ row[r].revision = 0 /\ (Reviewed(row[r]) <=> row[r].override # "null")
        /\ 1 \in 0..MaxRevision
    BY <1>2, RowsKnown, RevisionAssumption DEF Record
  <2>3. /\ row'[r] \in Row /\ row'[r].status = "pending" /\ row'[r].revision = 1
        /\ row'[r].reviewer = row[r].reviewer /\ row'[r].override = row[r].override
    BY <2>1, <2>2 DEF Row, Statuses
  <2> QED
    BY <2>2, <2>3 DEF RowMoves, RowOK, Since, Reviewed
<1> QED
  BY <1>1, <1>2

LEMMA ApplyMoves ==
  ASSUME IInv, NEW m \in Markers, NEW k \in Records, Apply(m, k), NEW r \in Records
  PROVE  RowMoves(r)
<1>1. CASE r # k
  BY <1>1, RowsKnown, Stays DEF Apply
<1>2. CASE r = k
  <2> DEFINE n == row[r].revision + 1
  <2>1. row'[r] = [row[r] EXCEPT !.status = "applied", !.error = "", !.revision = n]
    BY <1>2, RowsKnown DEF Apply
  <2>2. /\ row[r] \in Row /\ (Reviewed(row[r]) <=> row[r].override # "null")
        /\ n \in 0..MaxRevision /\ n # row[r].revision /\ row[r].revision <= n /\ n # 0
    BY <1>2, RowsKnown, NextRevision DEF Apply
  <2> HIDE DEF n
  <2>3. /\ row'[r] \in Row /\ row'[r].status = "applied" /\ row'[r].revision = n
        /\ row'[r].reviewer = row[r].reviewer /\ row'[r].override = row[r].override
    BY <2>1, <2>2 DEF Row, Statuses
  <2> QED
    BY <2>2, <2>3 DEF RowMoves, RowOK, Since, Reviewed
<1> QED
  BY <1>1, <1>2

(* The failure record, with or without the review it finds. *)
LEMMA MarkedRow ==
  ASSUME NEW r \in Row, NEW f \in Failure, f.cause \in Causes, r.revision < MaxRevision
  PROVE  /\ Marked(r, f) \in Row /\ Marked(r, f).revision = r.revision + 1
         /\ Marked(r, f).status = StatusAfter(f.cause) /\ Marked(r, f).error = f.cause
         /\ ResetReview(f) => Marked(r, f).reviewer = Nobody /\ Marked(r, f).override = "null"
         /\ ~ResetReview(f) => Marked(r, f).reviewer = r.reviewer /\ Marked(r, f).override = r.override
<1> DEFINE n == r.revision + 1
           kept == [r EXCEPT !.status = StatusAfter(f.cause), !.error = f.cause, !.revision = n]
           reset == [kept EXCEPT !.reviewer = Nobody, !.override = "null"]
<1>1. n \in 0..MaxRevision
  BY NextRevision
<1>2. Marked(r, f) = IF ResetReview(f) THEN reset ELSE kept
  BY DEF Marked
<1> HIDE DEF n
<1>3. StatusAfter(f.cause) \in Statuses
  BY DEF StatusAfter, Statuses
<1>4. /\ kept \in Row /\ kept.revision = n
      /\ kept.status = StatusAfter(f.cause) /\ kept.error = f.cause
      /\ kept.reviewer = r.reviewer /\ kept.override = r.override
  BY <1>1, <1>3 DEF Row
<1> HIDE DEF kept
<1>5. /\ reset \in Row /\ reset.revision = n
      /\ reset.status = StatusAfter(f.cause) /\ reset.error = f.cause
      /\ reset.reviewer = Nobody /\ reset.override = "null"
  BY <1>4 DEF Row
<1> HIDE DEF reset
<1>6. n = r.revision + 1
  BY DEF n
<1> QED
  BY <1>2, <1>4, <1>5, <1>6

(* What the marking process knows of its row when it writes it. *)
LEMMA MarkWrites ==
  ASSUME IInv, NEW m \in Markers, Mark(m), row' # row
  PROVE  LET f == failing[m] IN
         /\ f \in Failure /\ f.id \in Records /\ f.cause \in Causes
         /\ row[f.id] \in Row /\ row[f.id].status = "pending" /\ row[f.id].revision < MaxRevision
         /\ ~Overtaken(m) => EvidenceOf(f.row) = EvidenceOf(row[f.id])
         /\ row' = [row EXCEPT ![f.id] = Marked(row[f.id], f)]
         /\ overtaken' = [overtaken EXCEPT ![f.id] = @ \/ Overtaken(m)]
<1>1. /\ pc[m] = "mark" /\ row[failing[m].id].status = "pending"
      /\ row[failing[m].id].revision < MaxRevision
      /\ row' = [row EXCEPT ![failing[m].id] = Marked(row[failing[m].id], failing[m])]
      /\ overtaken' = [overtaken EXCEPT ![failing[m].id] = @ \/ Overtaken(m)]
  BY DEF Mark
<1>2. /\ failing[m] \in Failure /\ failing[m].id \in Records /\ failing[m].cause \in Causes
      /\ row[failing[m].id] \in Row /\ Since(failing[m].row, row[failing[m].id])
  BY <1>1 DEF IInv, LocalType, MarkerOK, ReviewMatchesEvidence, TypeOK
<1>3. ~Overtaken(m) => EvidenceOf(failing[m].row) = EvidenceOf(row[failing[m].id])
  BY <1>2 DEF Overtaken, Since, EvidenceOf
<1> QED
  BY <1>1, <1>2, <1>3

LEMMA MarkMoves ==
  ASSUME IInv, NEW m \in Markers, Mark(m), NEW r \in Records
  PROVE  RowMoves(r)
<1> DEFINE f == failing[m]
<1>1. CASE row' = row
  BY <1>1, Stays
<1>2. CASE row' # row /\ r # f.id
  <2>1. row' = [row EXCEPT ![f.id] = Marked(row[f.id], f)]
    BY <1>2, MarkWrites
  <2> HIDE DEF f
  <2>2. row'[r] = row[r]
    BY <1>2, <2>1, RowsKnown
  <2> QED
    BY <2>2, Stays
<1>3. CASE row' # row /\ r = f.id
  <2>1. /\ row[r] \in Row /\ row[r].status = "pending" /\ row[r].revision < MaxRevision
        /\ f \in Failure /\ f.cause \in Causes /\ row' = [row EXCEPT ![r] = Marked(row[r], f)]
    BY <1>3, MarkWrites
  <2>2. row \in [Records -> Row] /\ (Reviewed(row[r]) <=> row[r].override # "null")
    BY DEF IInv, ReviewMatchesEvidence, TypeOK
  <2>3. row'[r] = Marked(row[r], f)
    BY <2>1, <2>2
  <2> HIDE DEF f
  <2>4. /\ row'[r] \in Row /\ row'[r].revision = row[r].revision + 1
        /\ row'[r].status = StatusAfter(f.cause)
    BY <2>1, <2>3, MarkedRow
  <2>5. row[r].revision \in Nat
    BY <2>1, RowFields
  <2>6. Reviewed(row'[r]) <=> row'[r].override # "null"
    BY <2>1, <2>2, <2>3, MarkedRow DEF Reviewed
  <2> QED
    BY <2>4, <2>5, <2>6 DEF RowMoves, RowOK, Since, StatusAfter
<1> QED
  BY <1>1, <1>2, <1>3

(* A review writes its reviewer and decision. *)
LEMMA ReviewedMoves ==
  ASSUME IInv, NEW a \in Reviewers, NEW d \in {"allow", "block"}, NEW r \in Records,
         Unresolved(row[r]), row'[r] = [row[r] EXCEPT !.reviewer = a, !.override = d]
  PROVE  RowMoves(r) /\ EvidenceOf(row'[r]) = EvidenceOf(row[r])
<1>1. row[r] \in Row /\ RowOK(r) /\ (row[r].status = "none" <=> row[r].revision = 0)
      /\ row[r].revision \in Nat
  BY RowsKnown
<1>2. /\ row'[r] \in Row /\ row'[r].status = row[r].status /\ row'[r].error = row[r].error
      /\ row'[r].revision = row[r].revision /\ row'[r].reviewer = a /\ row'[r].override = d
  BY <1>1 DEF Row
<1>3. Reviewed(row'[r]) <=> row'[r].override # "null"
  BY <1>2, NameAssumption DEF Reviewed
<1>4. RowOK(r)'
  BY <1>1, <1>2 DEF RowOK, Unresolved
<1>5. Since(row[r], row'[r])
  BY <1>1, <1>2 DEF Since
<1> QED
  BY <1>1, <1>2, <1>3, <1>4, <1>5 DEF RowMoves, EvidenceOf

-----------------------------------------------------------------------------
(* What is known survives the steps of the others. *)

Matches(r) ==
  Unresolved(row[r]) /\ Reviewed(row[r]) /\ ~overtaken[r] => evidence[r] = EvidenceOf(row[r])

RowsMove == row' \in [Records -> Row] /\ \A r \in Records : RowMoves(r)

LEMMA SinceOn ==
  ASSUME NEW o \in Row, NEW r \in Row, NEW s \in Row, Since(o, r), Since(r, s)
  PROVE  Since(o, s)
<1>1. o.revision \in Nat /\ r.revision \in Nat /\ s.revision \in Nat
  BY RowFields
<1>2. o.revision <= s.revision
  BY <1>1 DEF Since
<1>3. o.revision = s.revision => o.revision = r.revision /\ r.revision = s.revision
  BY <1>1 DEF Since
<1> QED
  BY <1>2, <1>3 DEF Since

LEMMA ReviewerKeeps ==
  ASSUME IInv, RowsMove, NEW a \in Reviewers, shown'[a] = shown[a],
         pc'[a] = pc[a] /\ snapshot'[a] = snapshot[a] /\ target'[a] = target[a]
  PROVE  ReviewerOK(a)'
<1>1. ReviewerOK(a) /\ shown[a] \in [Records -> Row] /\ snapshot[a] \in Row
  BY DEF IInv, LocalType
<1>2. \A r \in Records : row[r] \in Row /\ row'[r] \in Row /\ Since(row[r], row'[r])
  BY RowsKnown DEF RowsMove, RowMoves
<1>3. \A r \in Records : Since(shown[a][r], row'[r])
  BY <1>1, <1>2, SinceOn DEF ReviewerOK
<1>4. pc[a] = "review" => target[a] \in Records /\ Since(snapshot[a], row'[target[a]])
  BY <1>1, <1>2, SinceOn DEF ReviewerOK
<1> QED
  BY <1>3, <1>4 DEF ReviewerOK

LEMMA MarkerKeeps ==
  ASSUME IInv, RowsMove, NEW m \in Markers, failing'[m] = failing[m], pc'[m] = pc[m]
  PROVE  MarkerOK(m)'
<1>1. MarkerOK(m) /\ failing[m].row \in Row
  BY DEF IInv, LocalType, Failure
<1>2. pc[m] \in {"failed", "mark"} =>
        /\ failing[m].id \in Records /\ row[failing[m].id].status # "none"
        /\ row'[failing[m].id].status # "none"
        /\ row[failing[m].id] \in Row /\ row'[failing[m].id] \in Row
        /\ Since(row[failing[m].id], row'[failing[m].id])
  BY <1>1, RowsKnown DEF MarkerOK, RowsMove, RowMoves
<1>3. pc[m] = "mark" => Since(failing[m].row, row'[failing[m].id])
  BY <1>1, <1>2, SinceOn DEF MarkerOK
<1> QED
  BY <1>1, <1>2, <1>3 DEF MarkerOK

LEMMA Parts ==
  ASSUME IInv
  PROVE  /\ row \in [Records -> Row] /\ pc \in [Proc -> Labels]
         /\ overtaken \in [Records -> BOOLEAN] /\ LocalType
         /\ \A r \in Records : Matches(r)
         /\ \A m \in Markers : MarkerOK(m)
         /\ \A a \in Reviewers : ReviewerOK(a)
BY DEF IInv, ReviewMatchesEvidence, TypeOK, Labels, Matches

LEMMA Whole ==
  ASSUME RowsMove, LocalType', overtaken' \in [Records -> BOOLEAN], pc' \in [Proc -> Labels],
         \A r \in Records : Matches(r)', \A m \in Markers : MarkerOK(m)',
         \A a \in Reviewers : ReviewerOK(a)'
  PROVE  IInv'
<1>1. \A r \in Records : RowOK(r)'
  BY DEF RowsMove, RowMoves
<1>2. TypeOK'
  BY DEF RowsMove, RowMoves, TypeOK, Labels
<1> QED
  BY <1>1, <1>2 DEF IInv, ReviewMatchesEvidence, Matches

LEMMA StaysAll ==
  ASSUME IInv, UNCHANGED row
  PROVE  RowsMove
<1>1. row' \in [Records -> Row] /\ \A r \in Records : RowMoves(r)
  BY RowsKnown, Stays DEF IInv, ReviewMatchesEvidence, TypeOK
<1> QED
  BY <1>1 DEF RowsMove

-----------------------------------------------------------------------------
(* The steps. *)

(* A record is made or applied: no process of the others is concerned. *)
LEMMA OutcomeStep ==
  ASSUME IInv, NEW m \in Markers, NEW k \in Records, Record(m, k) \/ Apply(m, k)
  PROVE  IInv'
<1> USE DEF locals, history
<1>1. /\ UNCHANGED <<pc, locals, history>>
      /\ row' = [row EXCEPT ![k] = row'[k]]
      /\ row'[k].status = "applied" \/ (row[k].status = "none" /\ row'[k].status = "pending")
      /\ row'[k].reviewer = row[k].reviewer
  <2>1. row \in [Records -> Row] /\ row[k] \in Row
    BY RowsKnown
  <2>2. CASE Record(m, k)
    BY <2>1, <2>2 DEF Record, Row
  <2>3. CASE Apply(m, k)
    BY <2>1, <2>3 DEF Apply, Row
  <2> QED
    BY <2>2, <2>3
<1>2. RowsMove
  <2>1. \A r \in Records : RowMoves(r)
    BY RecordMoves, ApplyMoves
  <2> QED
    BY <1>1, <2>1, Parts DEF RowsMove, RowMoves
<1>4. \A r \in Records : Matches(r)'
  <2>1. ASSUME NEW r \in Records, r # k
        PROVE  Matches(r)'
    BY <1>1, <2>1, Parts DEF Matches
  <2>2. row[k].status = "none" => ~Reviewed(row[k])
    BY RowsKnown DEF RowOK, Reviewed
  <2> QED
    BY <1>1, <2>1, <2>2 DEF Matches, Unresolved, Reviewed
<1>5. \A a \in Markers : MarkerOK(a)'
  BY <1>1, <1>2, MarkerKeeps
<1>6. \A a \in Reviewers : ReviewerOK(a)'
  BY <1>1, <1>2, ReviewerKeeps
<1>7. LocalType'
  BY <1>1, Parts DEF LocalType
<1> QED
  BY <1>1, <1>2, <1>4, <1>5, <1>6, <1>7, Parts, Whole

(* A process fails, and reads the row it will write. *)
LEMMA FailStep ==
  ASSUME IInv, NEW m \in Markers, NEW k \in Records, NEW c \in Causes, Fail(m, k, c)
  PROVE  IInv'
<1>1. /\ UNCHANGED <<row, shown, snapshot, target, evidence, overtaken>>
      /\ row[k].status = "pending"
      /\ failing' = [failing EXCEPT ![m] = [row |-> NoRow, cause |-> c, id |-> k]]
      /\ pc' = [pc EXCEPT ![m] = "failed"]
  BY DEF Fail, Goto, history
<1>2. /\ failing' \in [Markers -> Failure] /\ failing'[m].cause = c /\ failing'[m].id = k
      /\ \A n \in Markers \ {m} : failing'[n] = failing[n]
  BY <1>1, Parts, NoRowType DEF LocalType, Failure
<1>3. /\ pc' \in [Proc -> Labels] /\ pc'[m] = "failed" /\ \A p \in Proc \ {m} : pc'[p] = pc[p]
  BY <1>1, Parts DEF Labels, Proc
<1>4. RowsMove
  BY <1>1, StaysAll
<1>5. ASSUME NEW n \in Markers
      PROVE  MarkerOK(n)'
  <2>1. CASE n = m
    BY <1>1, <1>2, <1>3, <2>1 DEF MarkerOK
  <2>2. CASE n # m
    <3>1. pc'[n] = pc[n] /\ failing'[n] = failing[n] /\ MarkerOK(n)
      BY <1>2, <1>3, <2>2, Parts DEF Proc
    <3> QED
      BY <1>4, <3>1, MarkerKeeps
  <2> QED
    BY <2>1, <2>2
<1>6. \A a \in Reviewers : ReviewerOK(a)'
  <2>1. \A a \in Reviewers : pc'[a] = pc[a]
    BY <1>3, NameAssumption DEF Proc
  <2> QED
    BY <1>1, <1>4, <2>1, ReviewerKeeps
<1>7. \A r \in Records : Matches(r)'
  BY <1>1, Parts DEF Matches
<1>8. LocalType'
  BY <1>1, <1>2, Parts DEF LocalType
<1> QED
  BY <1>1, <1>3, <1>4, <1>5, <1>6, <1>7, <1>8, Parts, Whole

LEMMA ReadFailedStep ==
  ASSUME IInv, NEW m \in Markers, ReadFailed(m)
  PROVE  IInv'
<1>1. /\ UNCHANGED <<row, shown, snapshot, target, evidence, overtaken>>
      /\ pc[m] = "failed" /\ pc' = [pc EXCEPT ![m] = "mark"]
      /\ failing' = [failing EXCEPT ![m].row = row[failing[m].id]]
  BY DEF ReadFailed, Goto, history
<1>2. failing[m].id \in Records /\ failing[m].cause \in Causes /\ row[failing[m].id].status # "none"
      /\ row[failing[m].id] \in Row /\ failing[m] \in Failure
  BY <1>1, Parts DEF MarkerOK, LocalType
<1>3. /\ failing' \in [Markers -> Failure] /\ failing'[m].cause = failing[m].cause
      /\ failing'[m].id = failing[m].id /\ failing'[m].row = row[failing[m].id]
      /\ \A n \in Markers \ {m} : failing'[n] = failing[n]
  BY <1>1, <1>2, Parts DEF LocalType, Failure
<1>4. /\ pc' \in [Proc -> Labels] /\ pc'[m] = "mark" /\ \A p \in Proc \ {m} : pc'[p] = pc[p]
  BY <1>1, Parts DEF Labels, Proc
<1>5. RowsMove
  BY <1>1, StaysAll
<1>6. ASSUME NEW n \in Markers
      PROVE  MarkerOK(n)'
  <2>1. CASE n = m
    <3>1. Since(row[failing[m].id], row[failing[m].id])
      BY <1>1, <1>2, <1>5 DEF RowsMove, RowMoves
    <3> QED
      BY <1>1, <1>2, <1>3, <1>4, <2>1, <3>1 DEF MarkerOK
  <2>2. CASE n # m
    <3>1. pc'[n] = pc[n] /\ failing'[n] = failing[n] /\ MarkerOK(n)
      BY <1>3, <1>4, <2>2, Parts DEF Proc
    <3> QED
      BY <1>5, <3>1, MarkerKeeps
  <2> QED
    BY <2>1, <2>2
<1>7. \A a \in Reviewers : ReviewerOK(a)'
  <2>1. \A a \in Reviewers : pc'[a] = pc[a]
    BY <1>4, NameAssumption DEF Proc
  <2> QED
    BY <1>1, <1>5, <2>1, ReviewerKeeps
<1>8. \A r \in Records : Matches(r)'
  BY <1>1, Parts DEF Matches
<1>9. LocalType'
  BY <1>1, <1>3, Parts DEF LocalType
<1> QED
  BY <1>1, <1>4, <1>5, <1>6, <1>7, <1>8, <1>9, Parts, Whole

(* A failure is recorded: a review is kept only with what it was made on,  *)
(* unless another recorder was faster.                                     *)
LEMMA MarkStep ==
  ASSUME IInv, NEW m \in Markers, Mark(m)
  PROVE  IInv'
<1> DEFINE k == failing[m].id
<1>1. /\ UNCHANGED <<shown, snapshot, target, evidence>>
      /\ pc[m] = "mark" /\ pc' = [pc EXCEPT ![m] = "idle"]
      /\ failing' = [failing EXCEPT ![m] = [row |-> NoRow, cause |-> "", id |-> @.id]]
  BY DEF Mark, Goto
<1>2. /\ failing' \in [Markers -> Failure] /\ \A n \in Markers \ {m} : failing'[n] = failing[n]
  BY <1>1, Parts, NoRowType DEF LocalType, Failure
<1>3. /\ pc' \in [Proc -> Labels] /\ pc'[m] = "idle" /\ \A p \in Proc \ {m} : pc'[p] = pc[p]
  BY <1>1, Parts DEF Labels, Proc
<1>4. \A r \in Records : r # k => row'[r] = row[r]
  BY MarkWrites, Parts
<1>10. /\ overtaken' \in [Records -> BOOLEAN]
       /\ \A r \in Records : row'[r] = row[r] /\ overtaken[r] => overtaken'[r]
  <2>1. overtaken' = overtaken \/ overtaken' = [overtaken EXCEPT ![k] = @ \/ Overtaken(m)]
    BY DEF Mark
  <2>2. Overtaken(m) \in BOOLEAN /\ overtaken \in [Records -> BOOLEAN]
    BY Parts DEF Overtaken
  <2> HIDE DEF k
  <2> QED
    BY <2>1, <2>2
<1>5. RowsMove
  <2>1. row' \in [Records -> Row]
    <3>1. CASE row' = row
      BY <3>1, Parts
    <3>2. CASE row' # row
      BY <3>2, Parts, MarkWrites, MarkedRow
    <3> QED
      BY <3>1, <3>2
  <2> QED
    BY <2>1, MarkMoves DEF RowsMove
<1>6. ASSUME NEW n \in Markers
      PROVE  MarkerOK(n)'
  <2>1. CASE n = m
    BY <1>3, <2>1 DEF MarkerOK
  <2>2. CASE n # m
    <3>1. pc'[n] = pc[n] /\ failing'[n] = failing[n] /\ MarkerOK(n)
      BY <1>2, <1>3, <2>2, Parts DEF Proc
    <3> QED
      BY <1>5, <3>1, MarkerKeeps
  <2> QED
    BY <2>1, <2>2
<1>7. \A a \in Reviewers : ReviewerOK(a)'
  <2>1. \A a \in Reviewers : pc'[a] = pc[a]
    BY <1>3, NameAssumption DEF Proc
  <2> QED
    BY <1>1, <1>5, <2>1, ReviewerKeeps
<1>8. ASSUME NEW r \in Records
      PROVE  Matches(r)'
  <2>1. CASE row'[r] = row[r]
    BY <1>1, <1>10, <2>1, Parts DEF Matches
  <2>2. CASE row'[r] # row[r]
    <3>1. r = k /\ row' # row
      BY <1>4, <2>2
    <3>2. /\ failing[m] \in Failure /\ failing[m].cause \in Causes
          /\ row[r] \in Row /\ row[r].status = "pending" /\ row[r].revision < MaxRevision
          /\ ~Overtaken(m) => EvidenceOf(failing[m].row) = EvidenceOf(row[r])
          /\ row'[r] = Marked(row[r], failing[m])
          /\ overtaken'[r] = (overtaken[r] \/ Overtaken(m))
      BY <3>1, MarkWrites, Parts
    <3>3. /\ row'[r].status = StatusAfter(failing[m].cause) /\ row'[r].error = failing[m].cause
          /\ ResetReview(failing[m]) => row'[r].reviewer = Nobody
          /\ ~ResetReview(failing[m]) => row'[r].reviewer = row[r].reviewer
      BY <3>2, MarkedRow
    <3>4. ~ResetReview(failing[m]) /\ ~Overtaken(m) => EvidenceOf(row'[r]) = EvidenceOf(row[r])
      BY <3>2, <3>3 DEF ResetReview, EvidenceOf
    <3>5. ResetReview(failing[m]) => ~Reviewed(row'[r])
      BY <3>3 DEF Reviewed
    <3>6. ~ResetReview(failing[m]) /\ Reviewed(row'[r]) /\ ~overtaken'[r] => evidence[r] = EvidenceOf(row[r])
      BY <3>2, <3>3, Parts DEF Matches, Reviewed, Unresolved
    <3> QED
      BY <1>1, <3>2, <3>4, <3>5, <3>6 DEF Matches
  <2> QED
    BY <2>1, <2>2
<1>9. LocalType'
  BY <1>1, <1>2, Parts DEF LocalType
<1> QED
  BY <1>1, <1>3, <1>5, <1>6, <1>7, <1>8, <1>9, <1>10, Parts, Whole

(* The administrators. *)
LEMMA OthersKept ==
  ASSUME IInv, RowsMove, NEW a \in Proc \ Markers,
         UNCHANGED failing, \A p \in Proc \ {a} : pc'[p] = pc[p]
  PROVE  \A m \in Markers : MarkerOK(m)'
<1> SUFFICES ASSUME NEW m \in Markers
             PROVE  MarkerOK(m)'
  OBVIOUS
<1>1. pc'[m] = pc[m] /\ failing'[m] = failing[m]
  BY DEF Proc
<1> QED
  BY <1>1, MarkerKeeps

LEMMA ShowStep ==
  ASSUME IInv, NEW a \in Reviewers, Show(a)
  PROVE  IInv'
<1>1. /\ UNCHANGED <<row, failing, snapshot, target, evidence, overtaken>>
      /\ shown' = [shown EXCEPT ![a] = row] /\ pc' = [pc EXCEPT ![a] = "shown"]
  BY DEF Show, Goto, history
<1>2. /\ shown' \in [Reviewers -> [Records -> Row]] /\ shown'[a] = row
      /\ \A b \in Reviewers \ {a} : shown'[b] = shown[b]
  BY <1>1, Parts DEF LocalType
<1>3. /\ pc' \in [Proc -> Labels] /\ pc'[a] = "shown" /\ \A p \in Proc \ {a} : pc'[p] = pc[p]
      /\ a \in Proc \ Markers
  BY <1>1, Parts, NameAssumption DEF Labels, Proc
<1>4. RowsMove
  BY <1>1, StaysAll
<1>5. \A m \in Markers : MarkerOK(m)'
  BY <1>1, <1>3, <1>4, OthersKept
<1>6. ASSUME NEW b \in Reviewers
      PROVE  ReviewerOK(b)'
  <2>1. CASE b = a
    BY <1>1, <1>2, <1>3, <1>4, <2>1 DEF ReviewerOK, RowsMove, RowMoves
  <2>2. CASE b # a
    <3>1. pc'[b] = pc[b]
      BY <1>3, <2>2 DEF Proc
    <3> QED
      BY <1>1, <1>2, <1>4, <2>2, <3>1, ReviewerKeeps
  <2> QED
    BY <2>1, <2>2
<1>7. \A r \in Records : Matches(r)'
  BY <1>1, Parts DEF Matches
<1>8. LocalType'
  BY <1>1, <1>2, Parts DEF LocalType
<1> QED
  BY <1>1, <1>3, <1>4, <1>5, <1>6, <1>7, <1>8, Parts, Whole

LEMMA ReadForReviewStep ==
  ASSUME IInv, NEW a \in Reviewers, NEW k \in Records, ReadForReview(a, k)
  PROVE  IInv'
<1>1. /\ UNCHANGED <<row, failing, shown, evidence, overtaken>>
      /\ snapshot' = [snapshot EXCEPT ![a] = row[k]] /\ target' = [target EXCEPT ![a] = k]
      /\ pc' = [pc EXCEPT ![a] = "review"]
  BY DEF ReadForReview, Goto, history
<1>2. /\ snapshot' \in [Reviewers -> Row] /\ snapshot'[a] = row[k]
      /\ \A b \in Reviewers \ {a} : snapshot'[b] = snapshot[b]
  BY <1>1, Parts, RowsKnown DEF LocalType
<1>3. /\ target' \in [Reviewers -> Records \cup {AnyRecord}] /\ target'[a] = k
      /\ \A b \in Reviewers \ {a} : target'[b] = target[b]
  BY <1>1, Parts DEF LocalType
<1>4. /\ pc' \in [Proc -> Labels] /\ pc'[a] = "review" /\ \A p \in Proc \ {a} : pc'[p] = pc[p]
      /\ a \in Proc \ Markers
  BY <1>1, Parts, NameAssumption DEF Labels, Proc
<1>5. RowsMove
  BY <1>1, StaysAll
<1>6. \A m \in Markers : MarkerOK(m)'
  BY <1>1, <1>4, <1>5, OthersKept
<1>7. ASSUME NEW b \in Reviewers
      PROVE  ReviewerOK(b)'
  <2>1. CASE b = a
    <3>1. Since(row[k], row[k])
      BY <1>1, <1>5 DEF RowsMove, RowMoves
    <3>2. \A r \in Records : Since(shown[b][r], row[r])
      BY Parts DEF ReviewerOK
    <3> QED
      BY <1>1, <1>2, <1>3, <2>1, <3>1, <3>2 DEF ReviewerOK
  <2>2. CASE b # a
    <3>1. pc'[b] = pc[b]
      BY <1>4, <2>2 DEF Proc
    <3> QED
      BY <1>1, <1>2, <1>3, <1>5, <2>2, <3>1, ReviewerKeeps
  <2> QED
    BY <2>1, <2>2
<1>8. \A r \in Records : Matches(r)'
  BY <1>1, Parts DEF Matches
<1>9. LocalType'
  BY <1>1, <1>2, <1>3, Parts DEF LocalType
<1> QED
  BY <1>1, <1>4, <1>5, <1>6, <1>7, <1>8, <1>9, Parts, Whole

(* What an administrator does when the answer came, whatever it was. *)
LEMMA LeaveStep ==
  ASSUME IInv, NEW a \in Reviewers, Leave(a), RowsMove, overtaken' \in [Records -> BOOLEAN],
         evidence' \in [Records -> Statuses \X (Causes \cup {""})],
         \A r \in Records : Matches(r)'
  PROVE  IInv'
<1>1. /\ UNCHANGED <<failing, target>> /\ pc' = [pc EXCEPT ![a] = "idle"]
      /\ shown' = [shown EXCEPT ![a] = [r \in Records |-> NoRow]]
      /\ snapshot' = [snapshot EXCEPT ![a] = NoRow]
  BY DEF Leave, Goto
<1>2. /\ shown' \in [Reviewers -> [Records -> Row]] /\ shown'[a] = [r \in Records |-> NoRow]
      /\ \A b \in Reviewers \ {a} : shown'[b] = shown[b]
  BY <1>1, Parts, NoRowType DEF LocalType
<1>3. /\ snapshot' \in [Reviewers -> Row]
      /\ \A b \in Reviewers \ {a} : snapshot'[b] = snapshot[b]
  BY <1>1, Parts, NoRowType DEF LocalType
<1>4. /\ pc' \in [Proc -> Labels] /\ pc'[a] = "idle" /\ \A p \in Proc \ {a} : pc'[p] = pc[p]
      /\ a \in Proc \ Markers
  BY <1>1, Parts, NameAssumption DEF Labels, Proc
<1>5. \A m \in Markers : MarkerOK(m)'
  BY <1>1, <1>4, OthersKept
<1>6. ASSUME NEW b \in Reviewers
      PROVE  ReviewerOK(b)'
  <2>1. CASE b = a
    <3>1. ASSUME NEW r \in Records
          PROVE  Since(NoRow, row'[r])
      <4>1. row'[r] \in Row /\ RowOK(r)'
        BY DEF RowsMove, RowMoves
      <4> QED
        BY <4>1, NoRowSince DEF RowOK
    <3> QED
      BY <1>2, <1>4, <2>1, <3>1 DEF ReviewerOK
  <2>2. CASE b # a
    <3>1. pc'[b] = pc[b]
      BY <1>4, <2>2 DEF Proc
    <3> QED
      BY <1>1, <1>2, <1>3, <2>2, <3>1, ReviewerKeeps
  <2> QED
    BY <2>1, <2>2
<1>7. LocalType'
  BY <1>1, <1>2, <1>3, Parts DEF LocalType
<1> QED
  BY <1>1, <1>4, <1>5, <1>6, <1>7, Parts, Whole

LEMMA EvidenceType ==
  ASSUME NEW r \in Row
  PROVE  EvidenceOf(r) \in Statuses \X (Causes \cup {""})
BY RowFields DEF EvidenceOf

(* A batch closes rows at the revision that was shown. *)
LEMMA BatchStep ==
  ASSUME IInv, NEW a \in Reviewers, NEW R \in SUBSET Records, ReviewBatch(a, R)
  PROVE  IInv'
<1>1. Leave(a) /\ \A r \in R : Open(shown[a][r])
  BY DEF ReviewBatch
<1>2. CASE UNCHANGED <<row, history>>
  <2>1. RowsMove
    BY <1>2, StaysAll
  <2>2. \A r \in Records : Matches(r)'
    BY <1>2, Parts DEF Matches, history
  <2> QED
    BY <1>1, <1>2, <2>1, <2>2, LeaveStep, Parts DEF LocalType, history
<1>3. CASE ~UNCHANGED <<row, history>>
  <2>1. /\ Closable(a, R)
        /\ row' = [r \in Records |-> IF r \in R
                     THEN [row[r] EXCEPT !.reviewer = a, !.override = "allow"] ELSE row[r]]
        /\ evidence' = [r \in Records |-> IF r \in R THEN EvidenceOf(shown[a][r]) ELSE evidence[r]]
        /\ overtaken' = [r \in Records |-> r \notin R /\ overtaken[r]]
    BY <1>3 DEF ReviewBatch
  <2>2. ASSUME NEW r \in Records
        PROVE  RowMoves(r) /\ Matches(r)'
               /\ evidence'[r] \in Statuses \X (Causes \cup {""})
    <3>1. CASE r \notin R
      <4>1. row'[r] = row[r] /\ evidence'[r] = evidence[r] /\ (overtaken'[r] <=> overtaken[r])
        BY <2>1, <3>1
      <4>2. Matches(r)'
        BY <4>1, Parts DEF Matches
      <4> QED
        BY <4>1, <4>2, Stays, Parts DEF LocalType
    <3>2. CASE r \in R
      <4>1. /\ row'[r] = [row[r] EXCEPT !.reviewer = a, !.override = "allow"]
            /\ evidence'[r] = EvidenceOf(shown[a][r])
            /\ Unresolved(row[r]) /\ row[r].revision = shown[a][r].revision
        BY <2>1, <3>2 DEF Closable, Open
      <4>2. RowMoves(r) /\ EvidenceOf(row'[r]) = EvidenceOf(row[r])
        BY <4>1, ReviewedMoves
      <4>3. EvidenceOf(shown[a][r]) = EvidenceOf(row[r]) /\ shown[a][r] \in Row
        <5>1. Since(shown[a][r], row[r])
          BY Parts DEF ReviewerOK
        <5>2. EvidenceOf(shown[a][r]) = EvidenceOf(row[r])
          BY <4>1, <5>1 DEF Since, EvidenceOf
        <5> QED
          BY <5>2, Parts DEF LocalType
      <4> QED
        BY <4>1, <4>2, <4>3, EvidenceType DEF Matches
    <3> QED
      BY <3>1, <3>2
  <2>3. RowsMove /\ evidence' \in [Records -> Statuses \X (Causes \cup {""})]
        /\ overtaken' \in [Records -> BOOLEAN]
    BY <2>1, <2>2 DEF RowsMove, RowMoves
  <2> QED
    BY <1>1, <2>2, <2>3, LeaveStep
<1> QED
  BY <1>2, <1>3

(* A single review compares the row with the one it read. *)
LEMMA ReviewStep ==
  ASSUME IInv, NEW a \in Reviewers, NEW d \in {"allow", "block"}, Review(a, d)
  PROVE  IInv'
<1>1. Leave(a) /\ pc[a] = "review"
  BY DEF Review
<1>2. CASE UNCHANGED <<row, history>>
  <2>1. RowsMove
    BY <1>2, StaysAll
  <2>2. \A r \in Records : Matches(r)'
    BY <1>2, Parts DEF Matches, history
  <2> QED
    BY <1>1, <1>2, <2>1, <2>2, LeaveStep, Parts DEF LocalType, history
<1>3. CASE ~UNCHANGED <<row, history>>
  <2> PICK k : k = target[a]
    OBVIOUS
  <2>1. /\ Unresolved(row[k]) /\ row[k].revision = snapshot[a].revision
        /\ row' = [row EXCEPT ![k].reviewer = a, ![k].override = d]
        /\ evidence' = [evidence EXCEPT ![k] = EvidenceOf(snapshot[a])]
        /\ overtaken' = [overtaken EXCEPT ![k] = FALSE]
    BY <1>3 DEF Review, Unchanged
  <2>2. k \in Records /\ EvidenceOf(snapshot[a]) = EvidenceOf(row[k]) /\ snapshot[a] \in Row
    BY <1>1, <2>1, Parts DEF ReviewerOK, Since, EvidenceOf, LocalType
  <2>3. /\ row' \in [Records -> Row] /\ row'[k] = [row[k] EXCEPT !.reviewer = a, !.override = d]
        /\ \A r \in Records \ {k} : row'[r] = row[r]
    <3>1. row \in [Records -> Row] /\ row[k] \in Row
      BY <2>2, RowsKnown
    <3>2. [row[k] EXCEPT !.reviewer = a, !.override = d] \in Row
      BY <3>1 DEF Row
    <3> QED
      BY <2>1, <2>2, <3>1, <3>2
  <2>4. /\ evidence' \in [Records -> Statuses \X (Causes \cup {""})]
        /\ evidence'[k] = EvidenceOf(snapshot[a])
        /\ \A r \in Records \ {k} : evidence'[r] = evidence[r] /\ overtaken'[r] = overtaken[r]
        /\ overtaken' \in [Records -> BOOLEAN]
    BY <2>1, <2>2, EvidenceType, Parts DEF LocalType
  <2>5. RowMoves(k) /\ EvidenceOf(row'[k]) = EvidenceOf(row[k])
    BY <2>1, <2>2, <2>3, ReviewedMoves
  <2>6. Matches(k)'
    <3>1. evidence'[k] = EvidenceOf(row'[k])
      BY <2>2, <2>4, <2>5
    <3> QED
      BY <3>1 DEF Matches
  <2>7. ASSUME NEW r \in Records, r # k
        PROVE  RowMoves(r) /\ Matches(r)'
    <3>1. row'[r] = row[r] /\ evidence'[r] = evidence[r] /\ overtaken'[r] = overtaken[r]
      BY <2>3, <2>4, <2>7
    <3> QED
      BY <3>1, Stays, Parts DEF Matches
  <2>8. RowsMove
    BY <2>3, <2>5, <2>7 DEF RowsMove
  <2>9. \A r \in Records : Matches(r)'
    BY <2>6, <2>7
  <2> QED
    BY <1>1, <2>4, <2>8, <2>9, LeaveStep
<1> QED
  BY <1>2, <1>3

LEMMA StutterStep ==
  ASSUME IInv, UNCHANGED vars
  PROVE  IInv'
<1> USE DEF vars
<1>1. RowsMove
  BY StaysAll
<1>2. \A m \in Markers : MarkerOK(m)'
  BY <1>1, MarkerKeeps
<1>3. \A a \in Reviewers : ReviewerOK(a)'
  BY <1>1, ReviewerKeeps
<1>4. \A r \in Records : Matches(r)'
  BY Parts DEF Matches
<1>5. LocalType'
  BY Parts DEF LocalType
<1> QED
  BY <1>1, <1>2, <1>3, <1>4, <1>5, Parts, Whole

LEMMA InitIInv ==
  ASSUME Init
  PROVE  IInv
<1>1. /\ row = [r \in Records |-> NoRow] /\ overtaken = [r \in Records |-> FALSE]
      /\ pc = [p \in Proc |-> "idle"]
      /\ evidence = [r \in Records |-> <<"none", "">>]
      /\ failing = [m \in Markers |-> [row |-> NoRow, cause |-> "", id |-> AnyRecord]]
      /\ shown = [a \in Reviewers |-> [r \in Records |-> NoRow]]
      /\ snapshot = [a \in Reviewers |-> NoRow] /\ target = [a \in Reviewers |-> AnyRecord]
  BY DEF Init, AnyRecord
<1>2. \A r \in Records : row[r] = NoRow
  BY <1>1
<1>3. /\ NoRow.status = "none" /\ NoRow.error = "" /\ NoRow.revision = 0
      /\ NoRow.reviewer = Nobody /\ NoRow.override = "null"
  BY DEF NoRow
<1>4. TypeOK
  <2>1. row \in [Records -> Row]
    BY <1>1, NoRowType
  <2>2. \A r \in Records : (row[r].status = "none" <=> row[r].revision = 0)
                           /\ (Reviewed(row[r]) <=> row[r].override # "null")
    BY <1>2, <1>3 DEF Reviewed
  <2> QED
    BY <1>1, <2>1, <2>2 DEF TypeOK
<1>5. \A r \in Records : Matches(r) /\ RowOK(r)
  BY <1>2, <1>3 DEF Matches, RowOK, Reviewed
<1>6. LocalType
  <2>1. [row |-> NoRow, cause |-> "", id |-> AnyRecord] \in Failure
    BY NoRowType DEF Failure
  <2>2. <<"none", "">> \in Statuses \X (Causes \cup {""})
    BY DEF Statuses
  <2> QED
    BY <1>1, <2>1, <2>2, NoRowType DEF LocalType
<1>7. \A m \in Markers : MarkerOK(m)
  BY <1>1 DEF MarkerOK, Proc
<1>8. \A a \in Reviewers : ReviewerOK(a)
  <2>1. Since(NoRow, NoRow)
    BY <1>3, NoRowType, NoRowSince
  <2> QED
    BY <1>1, <1>2, <2>1 DEF ReviewerOK, Proc
<1> QED
  BY <1>4, <1>5, <1>6, <1>7, <1>8 DEF IInv, ReviewMatchesEvidence, Matches

LEMMA NextStep ==
  ASSUME IInv, [Next]_vars
  PROVE  IInv'
<1>1. CASE UNCHANGED vars
  BY <1>1, StutterStep
<1>2. ASSUME NEW m \in Markers, NEW r \in Records, Record(m, r) \/ Apply(m, r)
      PROVE  IInv'
  BY <1>2, OutcomeStep
<1>3. ASSUME NEW m \in Markers, NEW r \in Records, NEW c \in Causes, Fail(m, r, c)
      PROVE  IInv'
  BY <1>3, FailStep
<1>4. ASSUME NEW m \in Markers, ReadFailed(m) \/ Mark(m)
      PROVE  IInv'
  BY <1>4, ReadFailedStep, MarkStep
<1>5. ASSUME NEW a \in Reviewers, Show(a)
      PROVE  IInv'
  BY <1>5, ShowStep
<1>6. ASSUME NEW a \in Reviewers, NEW R \in SUBSET Records, ReviewBatch(a, R)
      PROVE  IInv'
  BY <1>6, BatchStep
<1>7. ASSUME NEW a \in Reviewers, NEW r \in Records, ReadForReview(a, r)
      PROVE  IInv'
  BY <1>7, ReadForReviewStep
<1>8. ASSUME NEW a \in Reviewers, NEW d \in {"allow", "block"}, Review(a, d)
      PROVE  IInv'
  BY <1>8, ReviewStep
<1> QED
  BY <1>1, <1>2, <1>3, <1>4, <1>5, <1>6, <1>7, <1>8 DEF Next

-----------------------------------------------------------------------------
(* What an explicit block survives. *)

Lifted(r) == row[r].override = "block" /\ row'[r].override # "block"
OnPurpose(r) ==
  \/ \E a \in Reviewers : pc[a] \in {"shown", "review"} /\ pc'[a] = "idle" /\ row'[r].reviewer = a
  \/ EvidenceOf(row'[r]) # EvidenceOf(row[r])
  \/ \E m \in Markers :
       pc[m] = "mark" /\ pc'[m] = "idle" /\ failing[m].id = r /\ Overtaken(m)

LEMMA OutcomeKeepsBlock ==
  ASSUME IInv, NEW m \in Markers, NEW k \in Records, Record(m, k) \/ Apply(m, k), NEW r \in Records
  PROVE  ~Lifted(r)
<1>1. row \in [Records -> Row] /\ row[r] \in Row
  BY RowsKnown
<1>2. row'[r].override = row[r].override
  <2>1. CASE Record(m, k)
    BY <1>1, <2>1 DEF Record, Row
  <2>2. CASE Apply(m, k)
    BY <1>1, <2>2 DEF Apply, Row
  <2> QED
    BY <2>1, <2>2
<1> QED
  BY <1>2 DEF Lifted

(* A recorder that nobody overtook resets a review only for another        *)
(* failure.                                                                *)
LEMMA MarkLifts ==
  ASSUME IInv, NEW m \in Markers, Mark(m), NEW r \in Records, Lifted(r)
  PROVE  \/ EvidenceOf(row'[r]) # EvidenceOf(row[r])
         \/ pc[m] = "mark" /\ pc'[m] = "idle" /\ failing[m].id = r /\ Overtaken(m)
<1>1. row' # row
  BY DEF Lifted
<1>2. PICK f : f = failing[m]
  OBVIOUS
<1>3. /\ f \in Failure /\ f.id \in Records /\ f.cause \in Causes
      /\ row[f.id] \in Row /\ row[f.id].revision < MaxRevision
      /\ ~Overtaken(m) => EvidenceOf(f.row) = EvidenceOf(row[f.id])
      /\ row' = [row EXCEPT ![f.id] = Marked(row[f.id], f)]
  BY <1>1, <1>2, MarkWrites
<1>4. r = f.id /\ row'[r] = Marked(row[r], f)
  BY <1>3, Parts DEF Lifted
<1>5. /\ row'[r].status = StatusAfter(f.cause) /\ row'[r].error = f.cause
      /\ ~ResetReview(f) => row'[r].override = row[r].override
  BY <1>3, <1>4, MarkedRow
<1>6. ResetReview(f)
  BY <1>5 DEF Lifted
<1>7. ~Overtaken(m) => EvidenceOf(row'[r]) # EvidenceOf(row[r])
  BY <1>3, <1>4, <1>5, <1>6 DEF ResetReview, EvidenceOf
<1>8. pc[m] = "mark" /\ pc'[m] = "idle"
  BY Parts DEF Mark, Goto, Proc
<1> QED
  BY <1>2, <1>4, <1>7, <1>8

LEMMA BatchLifts ==
  ASSUME IInv, NEW a \in Reviewers, NEW R \in SUBSET Records, ReviewBatch(a, R),
         NEW r \in Records, Lifted(r)
  PROVE  pc[a] \in {"shown", "review"} /\ pc'[a] = "idle" /\ row'[r].reviewer = a
<1>1. pc[a] = "shown" /\ pc'[a] = "idle"
  BY Parts DEF ReviewBatch, Leave, Goto, Proc
<1>2. row' = [s \in Records |-> IF s \in R
                THEN [row[s] EXCEPT !.reviewer = a, !.override = "allow"] ELSE row[s]]
  BY DEF ReviewBatch, Lifted
<1>3. r \in R
  BY <1>2 DEF Lifted
<1>4. row[r] \in Row /\ row'[r] = [row[r] EXCEPT !.reviewer = a, !.override = "allow"]
  BY <1>2, <1>3, RowsKnown
<1>5. row'[r].reviewer = a
  BY <1>4 DEF Row
<1> QED
  BY <1>1, <1>5

LEMMA ReviewLifts ==
  ASSUME IInv, NEW a \in Reviewers, NEW d \in {"allow", "block"}, Review(a, d),
         NEW r \in Records, Lifted(r)
  PROVE  pc[a] \in {"shown", "review"} /\ pc'[a] = "idle" /\ row'[r].reviewer = a
<1>1. pc[a] = "review" /\ pc'[a] = "idle"
  BY Parts DEF Review, Leave, Goto, Proc
<1>2. row' = [row EXCEPT ![target[a]].reviewer = a, ![target[a]].override = d]
  BY DEF Review, Lifted
<1>3. r = target[a]
  BY <1>2, RowsKnown DEF Lifted
<1>4. row[r] \in Row /\ row'[r] = [row[r] EXCEPT !.reviewer = a, !.override = d]
  BY <1>2, <1>3, RowsKnown
<1>5. row'[r].reviewer = a
  BY <1>4 DEF Row
<1> QED
  BY <1>1, <1>5

LEMMA LiftStep ==
  ASSUME IInv, [Next]_vars, NEW r \in Records, Lifted(r)
  PROVE  OnPurpose(r)
<1>1. row' # row
  BY DEF Lifted
<1>2. ASSUME NEW m \in Markers, NEW k \in Records, Record(m, k) \/ Apply(m, k)
      PROVE  OnPurpose(r)
  BY <1>2, OutcomeKeepsBlock
<1>3. ASSUME NEW m \in Markers, Mark(m)
      PROVE  OnPurpose(r)
  BY <1>3, MarkLifts DEF OnPurpose
<1>4. ASSUME NEW a \in Reviewers, NEW R \in SUBSET Records, ReviewBatch(a, R)
      PROVE  OnPurpose(r)
  BY <1>4, BatchLifts DEF OnPurpose
<1>5. ASSUME NEW a \in Reviewers, NEW d \in {"allow", "block"}, Review(a, d)
      PROVE  OnPurpose(r)
  BY <1>5, ReviewLifts DEF OnPurpose
<1> QED
  BY <1>1, <1>2, <1>3, <1>4, <1>5
     DEF Next, vars, Fail, ReadFailed, Show, ReadForReview

-----------------------------------------------------------------------------
(* What a review replaces. *)

Replaces(a, r) == row'[r] # row[r] /\ pc[a] # "idle" /\ pc'[a] = "idle"
AsItRead(a, r) ==
  /\ Unresolved(row[r])
  /\ pc[a] = "shown" => EvidenceOf(row[r]) = EvidenceOf(shown[a][r])
  /\ pc[a] = "review" => target[a] = r /\ row[r] = snapshot[a]

(* Two rows with the same fields are the same row. *)
LEMMA SameRow ==
  ASSUME NEW r \in Row, NEW s \in Row, Since(s, r), r.revision = s.revision,
         r.reviewer = s.reviewer, r.override = s.override
  PROVE  r = s
<1>1. r.status = s.status /\ r.error = s.error
  BY DEF Since
<1>2. /\ r = [status |-> r.status, error |-> r.error, revision |-> r.revision,
              reviewer |-> r.reviewer, override |-> r.override]
      /\ s = [status |-> s.status, error |-> s.error, revision |-> s.revision,
              reviewer |-> s.reviewer, override |-> s.override]
  BY DEF Row
<1> QED
  BY <1>1, <1>2

LEMMA BatchReplaces ==
  ASSUME IInv, NEW a \in Reviewers, NEW R \in SUBSET Records, ReviewBatch(a, R),
         NEW r \in Records, row'[r] # row[r]
  PROVE  AsItRead(a, r)
<1>1. /\ pc[a] = "shown" /\ Closable(a, R)
      /\ row' = [s \in Records |-> IF s \in R
                   THEN [row[s] EXCEPT !.reviewer = a, !.override = "allow"] ELSE row[s]]
  BY DEF ReviewBatch
<1>2. r \in R
  BY <1>1
<1>3. Unresolved(row[r]) /\ row[r].revision = shown[a][r].revision
  BY <1>1, <1>2 DEF Closable, Open
<1>4. Since(shown[a][r], row[r])
  BY Parts DEF ReviewerOK
<1> QED
  BY <1>1, <1>3, <1>4 DEF AsItRead, Since, EvidenceOf

LEMMA ReviewReplaces ==
  ASSUME IInv, NEW a \in Reviewers, NEW d \in {"allow", "block"}, Review(a, d),
         NEW r \in Records, row'[r] # row[r]
  PROVE  AsItRead(a, r)
<1>1. /\ pc[a] = "review" /\ Unchanged(a)
      /\ row' = [row EXCEPT ![target[a]].reviewer = a, ![target[a]].override = d]
  BY DEF Review
<1>2. r = target[a]
  BY <1>1, RowsKnown
<1>3. Since(snapshot[a], row[r]) /\ snapshot[a] \in Row /\ row[r] \in Row
  BY <1>1, <1>2, Parts DEF ReviewerOK, LocalType
<1>4. row[r] = snapshot[a]
  BY <1>1, <1>2, <1>3, SameRow DEF Unchanged
<1> QED
  BY <1>1, <1>2, <1>4 DEF AsItRead, Unchanged

(* Only the reviewer's own step takes it back to rest.                     *)
LEMMA ReplaceStep ==
  ASSUME IInv, [Next]_vars, NEW a \in Reviewers, NEW r \in Records, Replaces(a, r)
  PROVE  AsItRead(a, r)
<1>1. row' # row /\ pc'[a] # pc[a]
  BY DEF Replaces
<1>2. ASSUME NEW m \in Markers, Mark(m)
      PROVE  FALSE
  BY <1>1, <1>2, NameAssumption, Parts DEF Mark, Goto, Proc
<1>3. ASSUME NEW m \in Markers, NEW k \in Records, Record(m, k) \/ Apply(m, k)
      PROVE  FALSE
  BY <1>1, <1>3 DEF Record, Apply
<1>4. ASSUME NEW b \in Reviewers, NEW R \in SUBSET Records, ReviewBatch(b, R)
      PROVE  AsItRead(a, r)
  <2>1. b = a
    BY <1>1, <1>4, Parts DEF ReviewBatch, Leave, Goto, Proc
  <2> QED
    BY <1>4, <2>1, BatchReplaces DEF Replaces
<1>5. ASSUME NEW b \in Reviewers, NEW d \in {"allow", "block"}, Review(b, d)
      PROVE  AsItRead(a, r)
  <2>1. b = a
    BY <1>1, <1>5, Parts DEF Review, Leave, Goto, Proc
  <2> QED
    BY <1>5, <2>1, ReviewReplaces DEF Replaces
<1> QED
  BY <1>1, <1>2, <1>3, <1>4, <1>5 DEF Next, vars, Fail, ReadFailed, Show, ReadForReview

-----------------------------------------------------------------------------
(* What the console may rely on. *)

(* A standing review is a review of the failure the row shows now, as long *)
(* as every recorder since it was written updated the row it had read: a   *)
(* failure with another cause or outcome withdraws it in the update that   *)
(* records it (markBillingSettlementFailure), and a review is stored only  *)
(* on the revision it was made of.                                         *)
THEOREM ReviewsCoverWhatTheySaw == Spec => []ReviewMatchesEvidence
<1>1. Init => IInv
  BY InitIInv
<1>2. IInv /\ [Next]_vars => IInv'
  BY NextStep
<1>3. IInv => ReviewMatchesEvidence
  BY DEF IInv
<1> QED
  BY <1>1, <1>2, <1>3, PTL DEF Spec

(* A user an administrator keeps blocked stays blocked while the retries   *)
(* repeat the same failure: only a review, another failure, the row's      *)
(* application, or an update from a reading that is no longer the row's    *)
(* lifts the block (resetReview in markBillingSettlementFailure), however  *)
(* many processes record failures.                                         *)
THEOREM BlocksAreLiftedOnPurpose == Spec => BlockIsLiftedOnPurpose
<1>1. Init => IInv
  BY InitIInv
<1>2. IInv /\ [Next]_vars => IInv'
  BY NextStep
<1>3. IInv /\ [Next]_vars =>
        [\A r \in Records :
           row[r].override = "block" /\ row'[r].override # "block" =>
             \/ \E a \in Reviewers :
                  pc[a] \in {"shown", "review"} /\ pc'[a] = "idle" /\ row'[r].reviewer = a
             \/ EvidenceOf(row'[r]) # EvidenceOf(row[r])
             \/ \E m \in Markers :
                  pc[m] = "mark" /\ pc'[m] = "idle" /\ failing[m].id = r /\ Overtaken(m)]_vars
  BY LiftStep DEF Lifted, OnPurpose
<1> QED
  BY <1>1, <1>2, <1>3, PTL DEF Spec, BlockIsLiftedOnPurpose

(* A review replaces nothing its administrator could not know, whatever    *)
(* the recorders and the other administrators do meanwhile: the revision   *)
(* tells the failures of a row apart, and the single review also compares  *)
(* the review it replaces (billingSettlementReviewSnapshotScope).          *)
THEOREM ReviewsKnowWhatTheyReplace == Spec => ReviewsReplaceWhatTheyRead
<1>1. Init => IInv
  BY InitIInv
<1>2. IInv /\ [Next]_vars => IInv'
  BY NextStep
<1>3. IInv /\ [Next]_vars =>
        [\A r \in Records, a \in Reviewers :
           row'[r] # row[r] /\ pc[a] # "idle" /\ pc'[a] = "idle" =>
             /\ Unresolved(row[r])
             /\ pc[a] = "shown" => EvidenceOf(row[r]) = EvidenceOf(shown[a][r])
             /\ pc[a] = "review" => target[a] = r /\ row[r] = snapshot[a]]_vars
  BY ReplaceStep DEF Replaces, AsItRead
<1> QED
  BY <1>1, <1>2, <1>3, PTL DEF Spec, ReviewsReplaceWhatTheyRead

=============================================================================

------------------------- MODULE ManualCompletionProofs -------------------------
(***************************************************************************)
(* Proofs about ManualCompletion, for every set of administrators, pollers *)
(* and retry loops, every reservation and every quota they may come to.    *)
(***************************************************************************)
EXTENDS ManualCompletion, TLAPS

-----------------------------------------------------------------------------
(* The inductive invariant. *)

(* What was paid is recorded in the rows, and the child alone decides the  *)
(* quota while the original has not been paid.                             *)
RowsAgree ==
  /\ "original" \in committed => status["original"] = "applied"
  /\ "child" \in committed <=> status["child"] = "applied"
  /\ status["child"] # "none" => reviewer["child"] \in Admins /\ note["child"] \in Notes
  /\ status["child"] = "applied" /\ "original" \notin committed => taskQuota = target["child"]

(* From the approval to the answer a request works on a child that carries *)
(* its own quota, reviewer and note, and that is applied when the quota is *)
(* read back; a replay was found resolved.                                 *)
Approving == {"apply", "hold", "retry", "check", "resolve", "ok"}
Paid == {"check", "resolve", "ok"}
RequestOK(a) ==
  /\ pc[a] \in Approving => status["child"] # "none" /\ OwnApproval(a)
  /\ replay[a] => status["original"] = "applied" /\ note["original"] \in Notes
  /\ pc[a] \in Paid => status["child"] = "applied"
  /\ pc[a] = "ok" =>
       status["original"] = "applied" /\ reviewer["original"] = a /\ taskQuota = op[a].quota

(* The revision a request was loaded at dates what others did since: a     *)
(* promotion moves it once, and the commit of the promoted row, the only   *)
(* one that may change the quota after it was read back, a second time.    *)
Loaded == {"task", "prepare", "ensure", "apply", "hold", "retry", "check", "resolve"}
RevisionOK(a) ==
  /\ pc[a] \in Loaded => revision >= op[a].revision
  /\ pc[a] \in Loaded /\ status["original"] = "pending" => revision > op[a].revision
  /\ pc[a] = "resolve" /\ taskQuota # op[a].quota =>
       status["original"] = "applied" /\ revision > op[a].revision + 1

IInv ==
  /\ ClosedByApproval
  /\ PaidApprovalStands
  /\ RowsAgree
  /\ \A a \in Admins : RequestOK(a) /\ RevisionOK(a)

LEMMA InitIInv == Init => IInv
<1> SUFFICES ASSUME Init PROVE IInv
  OBVIOUS
<1>1. NoRequest \in [revision : Nat, quota : ApprovedQuotas, note : Notes]
  BY QuotaAssumption, NameAssumption DEF NoRequest
<1>2. TypeOK
  <2>1. op \in [Admins -> [revision : Nat, quota : ApprovedQuotas, note : Notes]]
    BY <1>1 DEF Init
  <2>2. row \in [Runners -> Rows] /\ status \in [Rows -> {"none", "pending", "manual", "applied"}]
    BY DEF Init, Rows
  <2>3. /\ target \in [Rows -> 0..Reservation] /\ taskQuota \in 0..Reservation
        /\ quotaSeen \in [Admins -> 0..Reservation] /\ polled \in [Pollers -> 0..Reservation]
    <3>1. Reservation \in 0..Reservation
      BY QuotaAssumption
    <3> QED
      BY <3>1 DEF Init
  <2>4. reviewer \in [Rows -> Admins \cup {Nobody}] /\ note \in [Rows -> Notes \cup {""}]
    BY DEF Init
  <2>5. replay \in [Admins -> BOOLEAN]
    <3>1. replay = [a \in Admins |-> FALSE]
      BY DEF Init
    <3> QED
      BY <3>1, Zenon
  <2>6. /\ revision \in Nat /\ hold \in {"usage", "other", "failed"} /\ committed \subseteq Rows
        /\ wallet \in Int
    <3>1. /\ revision = 1 /\ hold \in {"usage", "other"} /\ committed = {} /\ wallet = 0
      BY Zenon DEF Init
    <3> QED
      BY <3>1
  <2>8. mirror \in BOOLEAN
    BY Zenon DEF Init
  <2>7. pc \in [Proc -> {"idle", "load", "task", "prepare", "ensure", "promote", "apply",
                         "hold", "retry", "check", "resolve", "ok"}]
    BY DEF Init
  <2> QED
    BY <2>1, <2>2, <2>3, <2>4, <2>5, <2>6, <2>7, <2>8, Zenon DEF TypeOK
<1>3. status["original"] = "manual" /\ status["child"] = "none"
  BY DEF Init, Rows
<1>4. RowsAgree /\ ClosedByApproval /\ PaidApprovalStands
  BY <1>2, <1>3 DEF Init, RowsAgree, ClosedByApproval, PaidApprovalStands
<1>5. \A a \in Admins : RequestOK(a) /\ RevisionOK(a)
  BY DEF Init, Proc, RequestOK, RevisionOK, Approving, Paid, Loaded
<1> QED
  BY <1>4, <1>5 DEF IInv

-----------------------------------------------------------------------------
(* What the actions have in common. *)

(* Every step of a process is one of these. *)
LEMMA StepCases ==
  ASSUME Next
  PROVE  \/ \E a \in Admins : Complete(a)
         \/ \E a \in Admins, n \in Notes \cup {""} : ReviewOriginal(a, n)
         \/ \E p \in Pollers : (\E q \in PolledQuotas : Poll(p, q)) \/ Promote(p)
         \/ \E p \in Runners, r \in Rows : RunnerTake(p, r)
         \/ \E p \in Proc : Apply(p) \/ Crash(p)
         \/ Repair
BY DEF Next

(* A program counter stays within its labels. *)
Labels == {"idle", "load", "task", "prepare", "ensure", "promote", "apply",
           "hold", "retry", "check", "resolve", "ok"}
LEMMA GotoType ==
  ASSUME TypeOK, NEW p \in Proc, NEW label \in Labels, Goto(p, label)
  PROVE  pc' \in [Proc -> Labels]
BY DEF TypeOK, Goto, Labels

(* A process that gives up leaves no half-read request, poll or retry. *)
LEMMA AbandonType ==
  ASSUME TypeOK, NEW p \in Proc, Abandon(p)
  PROVE  /\ pc' \in [Proc -> Labels]
         /\ row' \in [Runners -> Rows]
         /\ op' \in [Admins -> [revision : Nat, quota : ApprovedQuotas, note : Notes]]
         /\ replay' \in [Admins -> BOOLEAN]
         /\ quotaSeen' \in [Admins -> 0..Reservation]
         /\ polled' \in [Pollers -> 0..Reservation]
<1>1. NoRequest \in [revision : Nat, quota : ApprovedQuotas, note : Notes]
  BY QuotaAssumption, NameAssumption DEF NoRequest
<1>2. "idle" \in Labels
  BY DEF Labels
<1>3. pc' \in [Proc -> Labels]
  BY <1>2, GotoType DEF Abandon
<1>4. op' \in [Admins -> [revision : Nat, quota : ApprovedQuotas, note : Notes]]
  BY <1>1 DEF Abandon, TypeOK
<1>5. replay' \in [Admins -> BOOLEAN]
  BY DEF Abandon, TypeOK
<1>6. row' \in [Runners -> Rows]
  BY DEF Abandon, TypeOK, Rows
<1>7. Reservation \in 0..Reservation
  BY QuotaAssumption
<1>8. polled' \in [Pollers -> 0..Reservation]
  BY <1>7 DEF Abandon, TypeOK
<1>9. quotaSeen' \in [Admins -> 0..Reservation]
  BY <1>7 DEF Abandon, TypeOK
<1> QED
  BY <1>3, <1>4, <1>5, <1>6, <1>8, <1>9

(* The row a process applies is one of the two. *)
LEMMA RowOfType ==
  ASSUME TypeOK, NEW p \in Proc
  PROVE  RowOf(p) \in Rows /\ (p \in Admins => RowOf(p) = "child")
BY DEF RowOf, Rows, TypeOK, Proc

-----------------------------------------------------------------------------
(* Every step keeps the types. *)

LocalType ==
  /\ pc \in [Proc -> Labels]
  /\ row \in [Runners -> Rows]
  /\ op \in [Admins -> [revision : Nat, quota : ApprovedQuotas, note : Notes]]
  /\ replay \in [Admins -> BOOLEAN]
  /\ quotaSeen \in [Admins -> 0..Reservation]
  /\ polled \in [Pollers -> 0..Reservation]

RowType ==
  /\ status \in [Rows -> {"none", "pending", "manual", "applied"}]
  /\ target \in [Rows -> 0..Reservation]
  /\ reviewer \in [Rows -> Admins \cup {Nobody}]
  /\ note \in [Rows -> Notes \cup {""}]
  /\ hold \in {"usage", "other", "failed"}
  /\ committed \subseteq Rows

NumberType == revision \in Nat /\ taskQuota \in 0..Reservation /\ wallet \in Int

LEMMA TypeParts == TypeOK <=> LocalType /\ RowType /\ NumberType /\ mirror \in BOOLEAN
BY Zenon DEF TypeOK, LocalType, RowType, NumberType, Labels

(* What a process remembers keeps its type. *)
LEMMA LocalTypeStep ==
  ASSUME IInv, [Next]_vars
  PROVE  LocalType'
<1>0. TypeOK /\ LocalType
  BY TypeParts DEF IInv, ClosedByApproval
<1>1. /\ "idle" \in Labels /\ "load" \in Labels /\ "task" \in Labels /\ "prepare" \in Labels
      /\ "ensure" \in Labels /\ "promote" \in Labels /\ "apply" \in Labels /\ "hold" \in Labels
      /\ "retry" \in Labels /\ "check" \in Labels /\ "resolve" \in Labels /\ "ok" \in Labels
  BY DEF Labels
<1>2. ASSUME NEW p \in Proc, NEW label \in Labels, Goto(p, label), UNCHANGED localVars
      PROVE  LocalType'
  BY <1>0, <1>2, GotoType DEF LocalType, localVars
<1>3. ASSUME NEW p \in Proc, Abandon(p)
      PROVE  LocalType'
  BY <1>0, <1>3, AbandonType DEF LocalType
<1>4. ASSUME NEW a \in Admins, Complete(a)
      PROVE  LocalType'
  <2>0. a \in Proc
    BY DEF Proc
  <2>1. ASSUME NEW o \in Request, Begin(a, o)
        PROVE  LocalType'
    <3>1. o \in [revision : Nat, quota : ApprovedQuotas, note : Notes]
      BY RevisionAssumption DEF Request
    <3>2. pc' \in [Proc -> Labels]
      BY <1>0, <1>1, <2>0, <2>1, GotoType DEF Begin
    <3> QED
      BY <1>0, <2>1, <3>1, <3>2 DEF Begin, LocalType
  <2>2. ASSUME Load(a)
        PROVE  LocalType'
    <3>1. CASE Abandon(a)
      BY <1>3, <2>0, <3>1
    <3>2. CASE /\ replay' = [replay EXCEPT ![a] = status["original"] = "applied"]
               /\ Goto(a, "task")
               /\ UNCHANGED <<op, quotaSeen, polled, row>>
      <4>1. pc' \in [Proc -> Labels]
        BY <1>0, <1>1, <2>0, <3>2, GotoType
      <4>2. (status["original"] = "applied") \in BOOLEAN
        OBVIOUS
      <4>3. replay' \in [Admins -> BOOLEAN]
        BY <1>0, <3>2, <4>2, Zenon DEF LocalType
      <4> QED
        BY <1>0, <3>2, <4>1, <4>3 DEF LocalType
    <3> QED
      BY <2>2, <3>1, <3>2 DEF Load
  <2>3. ASSUME ReadTask(a)
        PROVE  LocalType'
    <3>1. pc' \in [Proc -> Labels]
      BY <1>0, <1>1, <2>0, <2>3, GotoType DEF ReadTask
    <3> QED
      BY <1>0, <2>3, <3>1 DEF ReadTask, LocalType, TypeOK
  <2>4. ASSUME Prepare(a)
        PROVE  LocalType'
    <3>1. CASE Abandon(a)
      BY <1>3, <2>0, <3>1
    <3>2. CASE Eligible(a) /\ ~Abandon(a)
      <4>1. pc' \in [Proc -> Labels]
        BY <1>0, <1>1, <2>0, <2>4, <3>2, GotoType DEF Prepare
      <4>2. replay[a] => note["original"] \in Notes
        BY DEF IInv, RequestOK
      <4>3. op' \in [Admins -> [revision : Nat, quota : ApprovedQuotas, note : Notes]]
        BY <1>0, <2>4, <3>2, <4>2 DEF Prepare, LocalType
      <4>4. replay' \in [Admins -> BOOLEAN]
        BY <1>0, <2>4, <3>2, Zenon DEF Prepare, LocalType
      <4>5. quotaSeen' \in [Admins -> 0..Reservation]
        BY <1>0, <2>4, <3>2, QuotaAssumption DEF Prepare, LocalType
      <4> QED
        BY <1>0, <2>4, <3>2, <4>1, <4>3, <4>4, <4>5 DEF Prepare, LocalType
    <3> QED
      BY <2>4, <3>1, <3>2 DEF Prepare
  <2>5. ASSUME EnsureApproval(a)
        PROVE  LocalType'
    BY <1>1, <1>2, <1>3, <2>0, <2>5 DEF EnsureApproval
  <2>6. ASSUME Check(a)
        PROVE  LocalType'
    BY <1>1, <1>2, <1>3, <2>0, <2>6 DEF Check
  <2>7. ASSUME Resolve(a)
        PROVE  LocalType'
    BY <1>1, <1>2, <1>3, <2>0, <2>7 DEF Resolve
  <2> QED
    BY <1>4, <2>1, <2>2, <2>3, <2>4, <2>5, <2>6, <2>7 DEF Complete
<1>5. ASSUME NEW p \in Pollers, NEW q \in PolledQuotas, Poll(p, q)
      PROVE  LocalType'
  <2>1. p \in Proc /\ q \in 0..Reservation
    BY QuotaAssumption DEF Proc
  <2>2. pc' \in [Proc -> Labels]
    BY <1>0, <1>1, <1>5, <2>1, GotoType DEF Poll
  <2> QED
    BY <1>0, <1>5, <2>1, <2>2 DEF Poll, LocalType
<1>6. ASSUME NEW p \in Pollers, Promote(p)
      PROVE  LocalType'
  <2>1. p \in Proc
    BY DEF Proc
  <2> QED
    BY <1>1, <1>2, <1>3, <1>6, <2>1 DEF Promote
<1>7. ASSUME NEW p \in Runners, NEW r \in Rows, RunnerTake(p, r)
      PROVE  LocalType'
  <2>1. p \in Proc
    BY DEF Proc
  <2>2. pc' \in [Proc -> Labels]
    BY <1>0, <1>1, <1>7, <2>1, GotoType DEF RunnerTake
  <2> QED
    BY <1>0, <1>7, <2>2 DEF RunnerTake, LocalType
<1>8. ASSUME NEW p \in Proc, Apply(p) \/ Crash(p)
      PROVE  LocalType'
  <2>1. CASE Crash(p) \/ Mark(p)
    BY <1>3, <2>1 DEF Crash, Mark
  <2>2. CASE ApplyCommits(p) \/ ApplyFindsApplied(p)
    BY <1>1, <1>2, <1>3, <2>2 DEF ApplyCommits, ApplyFindsApplied, Applied
  <2>3. CASE ApplyRefuses(p) \/ ApplyFails(p)
    BY <1>1, <1>2, <2>3 DEF ApplyRefuses, ApplyFails
  <2> QED
    BY <1>8, <2>1, <2>2, <2>3 DEF Apply
<1>9. ASSUME NEW a \in Admins, NEW n \in Notes \cup {""}, ReviewOriginal(a, n)
      PROVE  LocalType'
  BY <1>0, <1>9 DEF ReviewOriginal, localVars, LocalType
<1>10. CASE Repair \/ UNCHANGED vars
  BY <1>0, <1>10 DEF Repair, vars, localVars, LocalType
<1> QED
  BY <1>4, <1>5, <1>6, <1>7, <1>8, <1>9, <1>10, StepCases

(* The steps that touch the rows or the balances, and all the others. *)
LEMMA RowSteps ==
  ASSUME [Next]_vars
  PROVE  \/ \E a \in Admins : EnsureApproval(a) \/ Resolve(a)
         \/ \E a \in Admins, n \in Notes \cup {""} : ReviewOriginal(a, n)
         \/ \E p \in Pollers : Promote(p)
         \/ \E p \in Proc : ApplyCommits(p) \/ Mark(p)
         \/ Repair
         \/ UNCHANGED <<rowVars, balanceVars>>
<1>1. ASSUME NEW a \in Admins, Complete(a)
      PROVE  EnsureApproval(a) \/ Resolve(a) \/ UNCHANGED <<rowVars, balanceVars>>
  BY <1>1 DEF Complete, Begin, Load, ReadTask, Prepare, Check
<1>2. ASSUME NEW p \in Pollers, NEW q \in PolledQuotas, Poll(p, q)
      PROVE  UNCHANGED <<rowVars, balanceVars>>
  BY <1>2 DEF Poll
<1>3. ASSUME NEW p \in Runners, NEW r \in Rows, RunnerTake(p, r)
      PROVE  UNCHANGED <<rowVars, balanceVars>>
  BY <1>3 DEF RunnerTake
<1>4. ASSUME NEW p \in Proc, Apply(p) \/ Crash(p)
      PROVE  ApplyCommits(p) \/ Mark(p) \/ UNCHANGED <<rowVars, balanceVars>>
  BY <1>4 DEF Apply, Crash, ApplyFindsApplied, ApplyRefuses, ApplyFails
<1>5. ASSUME UNCHANGED vars
      PROVE  UNCHANGED <<rowVars, balanceVars>>
  BY <1>5 DEF vars
<1> QED
  BY <1>1, <1>2, <1>3, <1>4, <1>5, StepCases

(* The revision of the original only grows, one by one. *)
LEMMA RevisionGrows ==
  ASSUME [Next]_vars
  PROVE  revision' = revision \/ revision' = revision + 1
<1>1. ASSUME NEW a \in Admins, EnsureApproval(a) \/ Resolve(a)
      PROVE  revision' = revision \/ revision' = revision + 1
  BY <1>1 DEF EnsureApproval, Resolve
<1>2. ASSUME NEW p \in Pollers, Promote(p)
      PROVE  revision' = revision \/ revision' = revision + 1
  BY <1>2 DEF Promote, rowVars
<1>3. ASSUME NEW p \in Proc, ApplyCommits(p) \/ Mark(p)
      PROVE  revision' = revision \/ revision' = revision + 1
  BY <1>3 DEF ApplyCommits, Mark, RecordFailure
<1>4. ASSUME Repair \/ UNCHANGED <<rowVars, balanceVars>>
      PROVE  revision' = revision
  BY <1>4 DEF Repair, rowVars
<1>5. ASSUME NEW a \in Admins, NEW n \in Notes \cup {""}, ReviewOriginal(a, n)
      PROVE  revision' = revision
  BY <1>5 DEF ReviewOriginal
<1> QED
  BY <1>1, <1>2, <1>3, <1>4, <1>5, RowSteps

(* The mirrors are only ever repaired. *)
LEMMA MirrorType ==
  ASSUME mirror \in BOOLEAN, [Next]_vars
  PROVE  mirror' \in BOOLEAN
<1>1. mirror' = mirror \/ mirror' = TRUE
  BY RowSteps, Zenon DEF EnsureApproval, Resolve, ReviewOriginal, Promote, ApplyCommits, Mark, Repair,
                         balanceVars
<1> QED
  BY <1>1, Zenon

(* The rows keep their types. *)
LEMMA RowTypeStep ==
  ASSUME IInv, [Next]_vars
  PROVE  RowType'
<1> USE DEF RowType, Rows, rowVars
<1>0. TypeOK /\ LocalType /\ RowType
  BY TypeParts DEF IInv, ClosedByApproval
<1>1. ASSUME NEW a \in Admins, EnsureApproval(a)
      PROVE  RowType'
  <2>1. op[a].quota \in 0..Reservation /\ op[a].note \in Notes
    BY <1>0, QuotaAssumption DEF LocalType
  <2>2. CASE InsertChild(a)
    BY <1>0, <1>1, <2>1, <2>2 DEF EnsureApproval, InsertChild
  <2>3. CASE Reapprove(a)
    BY <1>0, <1>1, <2>3 DEF EnsureApproval, Reapprove
  <2> QED
    BY <1>0, <1>1, <2>2, <2>3 DEF EnsureApproval
<1>2. ASSUME NEW a \in Admins, Resolve(a)
      PROVE  RowType'
  <2>1. op[a].note \in Notes
    BY <1>0 DEF LocalType
  <2>2. /\ status' = status \/ status' = [status EXCEPT !["original"] = "applied"]
        /\ reviewer' = reviewer \/ reviewer' = [reviewer EXCEPT !["original"] = a]
        /\ note' = note \/ note' = [note EXCEPT !["original"] = op[a].note]
        /\ target' = target /\ hold' = hold /\ committed' = committed
    BY <1>2, Zenon DEF Resolve
  <2>3. status' \in [Rows -> {"none", "pending", "manual", "applied"}]
    BY <1>0, <2>2
  <2>4. reviewer' \in [Rows -> Admins \cup {Nobody}]
    BY <1>0, <2>2
  <2>5. note' \in [Rows -> Notes \cup {""}]
    <3>1. note' = note \/ note' = [note EXCEPT !["original"] = op[a].note]
      BY <2>2
    <3>2. note \in [Rows -> Notes \cup {""}]
      BY <1>0
    <3> HIDE DEF RowType
    <3> QED
      BY <2>1, <3>1, <3>2
  <2> QED
    BY <1>0, <2>2, <2>3, <2>4, <2>5
<1>3. ASSUME NEW p \in Pollers, Promote(p)
      PROVE  RowType'
  <2>1. polled[p] \in 0..Reservation
    BY <1>0 DEF LocalType
  <2>2. CASE Promotable
    <3>1. /\ status' = [status EXCEPT !["original"] = "pending"]
          /\ target' = [target EXCEPT !["original"] = polled[p]]
          /\ reviewer' = [reviewer EXCEPT !["original"] = Nobody]
          /\ note' = [note EXCEPT !["original"] = ""]
          /\ hold' = "failed" /\ committed' = committed
      BY <1>3, <2>2 DEF Promote
    <3> QED
      BY <1>0, <2>1, <3>1
  <2>3. CASE ~Promotable
    BY <1>0, <1>3, <2>3 DEF Promote
  <2> QED
    BY <2>2, <2>3
<1>4. ASSUME NEW p \in Proc, ApplyCommits(p)
      PROVE  RowType'
  BY <1>0, <1>4, RowOfType DEF ApplyCommits
<1>5. ASSUME NEW p \in Proc, Mark(p)
      PROVE  RowType'
  <2>1. RowOf(p) \in Rows
    BY <1>0, RowOfType
  <2>2. /\ \/ status' = status
           \/ status' = [status EXCEPT ![RowOf(p)] = IF pc[p] = "hold" THEN "manual" ELSE "pending"]
        /\ target' = target /\ hold' = hold /\ committed' = committed
    BY <1>5, Zenon DEF Mark, RecordFailure
  <2>3. status' \in [Rows -> {"none", "pending", "manual", "applied"}]
    BY <1>0, <2>1, <2>2
  <2>4. reviewer' \in [Rows -> Admins \cup {Nobody}] /\ note' \in [Rows -> Notes \cup {""}]
    <3>1. /\ reviewer' = reviewer \/ reviewer' = [reviewer EXCEPT !["original"] = Nobody]
          /\ note' = note \/ note' = [note EXCEPT !["original"] = ""]
      BY <1>5, Zenon DEF Mark, RecordFailure, WithdrawReview
    <3> QED
      BY <1>0, <3>1
  <2> QED
    BY <1>0, <2>2, <2>3, <2>4
<1>6. CASE Repair \/ UNCHANGED <<rowVars, balanceVars>>
  BY <1>0, <1>6 DEF Repair
<1>7. ASSUME NEW a \in Admins, NEW n \in Notes \cup {""}, ReviewOriginal(a, n)
      PROVE  RowType'
  BY <1>0, <1>7 DEF ReviewOriginal
<1> QED
  BY <1>1, <1>2, <1>3, <1>4, <1>5, <1>6, <1>7, RowSteps

(* The revision and the balances keep their types. *)
LEMMA NumberTypeStep ==
  ASSUME IInv, [Next]_vars
  PROVE  NumberType'
<1>0. TypeOK /\ RowType /\ NumberType
  BY TypeParts DEF IInv, ClosedByApproval
<1>1. revision' \in Nat
  BY <1>0, RevisionGrows DEF NumberType
<1>2. ASSUME NEW p \in Proc, ApplyCommits(p)
      PROVE  taskQuota' \in 0..Reservation /\ wallet' \in Int
  <2>1. target[RowOf(p)] \in 0..Reservation
    BY <1>0, RowOfType DEF RowType
  <2>2. taskQuota' = target[RowOf(p)] /\ wallet' = wallet + (Reservation - target[RowOf(p)])
    BY <1>2 DEF ApplyCommits
  <2> QED
    BY <1>0, <2>1, <2>2, QuotaAssumption DEF NumberType
<1>3. \/ taskQuota' = taskQuota /\ wallet' = wallet
      \/ \E p \in Proc : ApplyCommits(p)
  BY RowSteps DEF EnsureApproval, Resolve, ReviewOriginal, Promote, Mark, Repair, balanceVars
<1> QED
  BY <1>0, <1>1, <1>2, <1>3 DEF NumberType

LEMMA TypeStep ==
  ASSUME IInv, [Next]_vars
  PROVE  TypeOK'
<1>1. LocalType' /\ RowType' /\ NumberType'
  BY LocalTypeStep, RowTypeStep, NumberTypeStep
<1>2. mirror' \in BOOLEAN
  BY MirrorType, TypeParts DEF IInv, ClosedByApproval
<1> QED
  BY <1>1, <1>2, Zenon DEF TypeOK, LocalType, RowType, NumberType, Labels

-----------------------------------------------------------------------------
(* What is never taken back. *)

(* The approval of a recorded child stays as it was inserted. *)
ApprovalKept ==
  status["child"] # "none" =>
    /\ status'["child"] # "none"
    /\ target'["child"] = target["child"]
    /\ reviewer'["child"] = reviewer["child"]
    /\ note'["child"] = note["child"]

(* An applied row stays applied, and an applied original keeps its reviewer. *)
AppliedKept ==
  /\ \A r \in Rows : status[r] = "applied" => status'[r] = "applied"
  /\ status["original"] = "applied" =>
       reviewer'["original"] = reviewer["original"] /\ note'["original"] = note["original"]

LEMMA KeptStep ==
  ASSUME IInv, [Next]_vars
  PROVE  ApprovalKept /\ AppliedKept
<1> USE DEF ApprovalKept, AppliedKept, Rows, rowVars
<1>0. TypeOK /\ RowType
  BY TypeParts DEF IInv, ClosedByApproval
<1>1. ASSUME NEW a \in Admins, EnsureApproval(a)
      PROVE  ApprovalKept /\ AppliedKept
  BY <1>0, <1>1 DEF EnsureApproval, InsertChild, Reapprove, RowType
<1>2. ASSUME NEW a \in Admins, Resolve(a)
      PROVE  ApprovalKept /\ AppliedKept
  BY <1>0, <1>2 DEF Resolve, Resolvable, HeldAt, RowType
<1>3. ASSUME NEW p \in Pollers, Promote(p)
      PROVE  ApprovalKept /\ AppliedKept
  BY <1>0, <1>3 DEF Promote, Promotable, RowType
<1>4. ASSUME NEW p \in Proc, ApplyCommits(p)
      PROVE  ApprovalKept /\ AppliedKept
  BY <1>0, <1>4, RowOfType DEF ApplyCommits, RowType
<1>5. ASSUME NEW p \in Proc, Mark(p)
      PROVE  ApprovalKept /\ AppliedKept
  <2>1. RowOf(p) \in Rows
    BY <1>0, RowOfType
  <2> QED
    BY <1>0, <1>5, <2>1 DEF Mark, RecordFailure, WithdrawReview, RowType
<1>6. CASE Repair \/ UNCHANGED <<rowVars, balanceVars>>
  BY <1>6 DEF Repair
<1>7. ASSUME NEW a \in Admins, NEW n \in Notes \cup {""}, ReviewOriginal(a, n)
      PROVE  ApprovalKept /\ AppliedKept
  BY <1>0, <1>7 DEF ReviewOriginal, RowType
<1> QED
  BY <1>1, <1>2, <1>3, <1>4, <1>5, <1>6, <1>7, RowSteps

-----------------------------------------------------------------------------
(* Every step keeps the relations between rows, quota and requests. *)

(* What was paid on the child's approval stays the task's quota. *)
LEMMA PaidStep ==
  ASSUME IInv, [Next]_vars
  PROVE  PaidApprovalStands'
<1>0. TypeOK /\ RowType /\ NumberType /\ PaidApprovalStands
  BY TypeParts DEF IInv, ClosedByApproval
<1>1. ASSUME NEW p \in Proc, ApplyCommits(p)
      PROVE  PaidApprovalStands'
  <2>1. RowOf(p) \in Rows /\ taskQuota = Reservation /\ status[RowOf(p)] = "pending"
    BY <1>0, <1>1, RowOfType DEF ApplyCommits, LegsHold
  <2>2. /\ status' = [status EXCEPT ![RowOf(p)] = "applied"]
        /\ taskQuota' = target[RowOf(p)] /\ target' = target
    BY <1>1 DEF ApplyCommits
  <2>3. CASE RowOf(p) = "child"
    BY <2>2, <2>3 DEF PaidApprovalStands
  <2>4. CASE RowOf(p) = "original"
    <3>1. status'["child"] = status["child"]
      BY <2>2, <2>4, <1>0 DEF RowType, Rows
    <3>2. ~(status["child"] = "applied" /\ target["child"] < Reservation)
      BY <1>0, <2>1, QuotaAssumption DEF PaidApprovalStands
    <3> QED
      BY <2>2, <3>1, <3>2 DEF PaidApprovalStands
  <2> QED
    BY <2>1, <2>3, <2>4 DEF Rows
<1>2. ASSUME taskQuota' = taskQuota, status'["child"] = "applied" => status["child"] = "applied"
      PROVE  PaidApprovalStands'
  <2>1. status["child"] = "applied" => target'["child"] = target["child"]
    BY KeptStep DEF ApprovalKept
  <2> QED
    BY <1>0, <1>2, <2>1 DEF PaidApprovalStands
<1>3. \/ \E p \in Proc : ApplyCommits(p)
      \/ taskQuota' = taskQuota /\ (status'["child"] = "applied" => status["child"] = "applied")
  <2>1. ASSUME NEW a \in Admins, EnsureApproval(a)
        PROVE  taskQuota' = taskQuota /\ (status'["child"] = "applied" => status["child"] = "applied")
    BY <1>0, <2>1 DEF EnsureApproval, InsertChild, Reapprove, RowType, Rows, balanceVars
  <2>2. ASSUME NEW a \in Admins, Resolve(a)
        PROVE  taskQuota' = taskQuota /\ (status'["child"] = "applied" => status["child"] = "applied")
    BY <1>0, <2>2 DEF Resolve, RowType, Rows, balanceVars
  <2>3. ASSUME NEW p \in Pollers, Promote(p)
        PROVE  taskQuota' = taskQuota /\ (status'["child"] = "applied" => status["child"] = "applied")
    BY <1>0, <2>3 DEF Promote, RowType, Rows, rowVars, balanceVars
  <2>4. ASSUME NEW p \in Proc, Mark(p)
        PROVE  taskQuota' = taskQuota /\ (status'["child"] = "applied" => status["child"] = "applied")
    <3>1. RowOf(p) \in Rows
      BY <1>0, RowOfType
    <3> QED
      BY <1>0, <2>4, <3>1 DEF Mark, RecordFailure, RowType, Rows, balanceVars
  <2>5. ASSUME Repair \/ UNCHANGED <<rowVars, balanceVars>>
        PROVE  taskQuota' = taskQuota /\ (status'["child"] = "applied" => status["child"] = "applied")
    BY <2>5 DEF Repair, rowVars, balanceVars
  <2>6. ASSUME NEW a \in Admins, NEW n \in Notes \cup {""}, ReviewOriginal(a, n)
        PROVE  taskQuota' = taskQuota /\ (status'["child"] = "applied" => status["child"] = "applied")
    BY <2>6 DEF ReviewOriginal, balanceVars
  <2> QED
    BY <2>1, <2>2, <2>3, <2>4, <2>5, <2>6, RowSteps
<1> QED
  BY <1>1, <1>2, <1>3

(* An original closed without being paid is backed by its paid child (the  *)
(* last part of ClosedByApproval).                                         *)
Backed ==
  status["original"] = "applied" /\ "original" \notin committed =>
    /\ reviewer["original"] # Nobody
    /\ Approved(reviewer["original"], note["original"])
    /\ committed = {"child"}
    /\ taskQuota = target["child"]

LEMMA RowsStep ==
  ASSUME IInv, [Next]_vars
  PROVE  RowsAgree' /\ Backed'
<1> USE DEF RowsAgree, Backed, Approved, RowType, Rows, rowVars, balanceVars
<1>0. TypeOK /\ RowType /\ NumberType /\ LocalType /\ RowsAgree /\ Backed
  BY TypeParts DEF IInv, ClosedByApproval
<1>1. ASSUME NEW a \in Admins, EnsureApproval(a)
      PROVE  RowsAgree' /\ Backed'
  <2>1. op[a].note \in Notes
    BY <1>0 DEF LocalType
  <2>2. CASE InsertChild(a)
    BY <1>0, <1>1, <2>1, <2>2 DEF InsertChild, EnsureApproval
  <2>3. CASE Reapprove(a)
    BY <1>0, <1>1, <2>3 DEF Reapprove, EnsureApproval
  <2>4. CASE UNCHANGED <<status, target, reviewer, note>>
    BY <1>0, <1>1, <2>4 DEF EnsureApproval
  <2> QED
    BY <1>1, <2>2, <2>3, <2>4 DEF EnsureApproval
<1>2. ASSUME NEW a \in Admins, Resolve(a)
      PROVE  RowsAgree' /\ Backed'
  <2>1. CASE Resolvable(a)
    <3>1. /\ status' = [status EXCEPT !["original"] = "applied"]
          /\ reviewer' = [reviewer EXCEPT !["original"] = a]
          /\ note' = [note EXCEPT !["original"] = op[a].note]
          /\ target' = target /\ committed' = committed /\ taskQuota' = taskQuota
      BY <1>2, <2>1 DEF Resolve
    <3>2. status["child"] = "applied" /\ reviewer["child"] = a /\ note["child"] = op[a].note
      BY <2>1 DEF Resolvable
    <3>3. "original" \notin committed /\ "child" \in committed
      BY <1>0, <2>1, <3>2 DEF Resolvable, HeldAt
    <3>4. committed = {"child"} /\ taskQuota = target["child"]
      BY <1>0, <3>2, <3>3
    <3> QED
      BY <1>0, <3>1, <3>2, <3>3, <3>4, NameAssumption
  <2>2. CASE ~Resolvable(a)
    BY <1>0, <1>2, <2>2 DEF Resolve
  <2> QED
    BY <2>1, <2>2
<1>3. ASSUME NEW p \in Pollers, Promote(p)
      PROVE  RowsAgree' /\ Backed'
  <2>1. CASE Promotable
    <3>1. /\ status' = [status EXCEPT !["original"] = "pending"]
          /\ target' = [target EXCEPT !["original"] = polled[p]]
          /\ reviewer' = [reviewer EXCEPT !["original"] = Nobody]
          /\ note' = [note EXCEPT !["original"] = ""]
          /\ committed' = committed /\ taskQuota' = taskQuota
      BY <1>3, <2>1 DEF Promote
    <3> QED
      BY <1>0, <2>1, <3>1 DEF Promotable
  <2>2. CASE ~Promotable
    BY <1>0, <1>3, <2>2 DEF Promote
  <2> QED
    BY <2>1, <2>2
<1>4. ASSUME NEW p \in Proc, ApplyCommits(p)
      PROVE  RowsAgree' /\ Backed'
  <2>1. /\ status' = [status EXCEPT ![RowOf(p)] = "applied"]
        /\ committed' = committed \cup {RowOf(p)}
        /\ taskQuota' = target[RowOf(p)]
        /\ target' = target /\ reviewer' = reviewer /\ note' = note
        /\ status[RowOf(p)] = "pending"
    BY <1>4 DEF ApplyCommits
  <2>2. CASE RowOf(p) = "child"
    BY <1>0, <2>1, <2>2
  <2>3. CASE RowOf(p) = "original"
    BY <1>0, <2>1, <2>3
  <2> QED
    BY <1>0, <2>2, <2>3, RowOfType
<1>5. ASSUME NEW p \in Proc, Mark(p)
      PROVE  RowsAgree' /\ Backed'
  <2>1. RowOf(p) \in Rows
    BY <1>0, RowOfType
  <2>2. CASE UNCHANGED <<status, reviewer, note>>
    BY <1>0, <1>5, <2>2 DEF Mark
  <2>3. CASE ~UNCHANGED <<status, reviewer, note>>
    BY <1>0, <1>5, <2>1, <2>3 DEF Mark, RecordFailure, WithdrawReview
  <2> QED
    BY <2>2, <2>3
<1>6. CASE Repair \/ UNCHANGED <<rowVars, balanceVars>>
  BY <1>0, <1>6 DEF Repair
<1>7. ASSUME NEW a \in Admins, NEW n \in Notes \cup {""}, ReviewOriginal(a, n)
      PROVE  RowsAgree' /\ Backed'
  BY <1>0, <1>7 DEF ReviewOriginal
<1> QED
  BY <1>1, <1>2, <1>3, <1>4, <1>5, <1>6, <1>7, RowSteps

(* The quota changes only with the commit of a pending row; the one of the  *)
(* original moves its revision, as does what makes the original pending.    *)
LEMMA QuotaStep ==
  ASSUME IInv, [Next]_vars
  PROVE  /\ \/ taskQuota' = taskQuota
            \/ status["child"] = "pending"
            \/ /\ status["original"] = "pending" /\ status'["original"] = "applied"
               /\ revision' = revision + 1
         /\ status'["original"] = "pending" =>
              status["original"] = "pending" \/ revision' = revision + 1
<1> USE DEF Rows, rowVars, balanceVars
<1>0. TypeOK /\ RowType
  BY TypeParts DEF IInv, ClosedByApproval
<1> DEFINE Quota == \/ taskQuota' = taskQuota
                    \/ status["child"] = "pending"
                    \/ /\ status["original"] = "pending" /\ status'["original"] = "applied"
                       /\ revision' = revision + 1
           Pending == status'["original"] = "pending" =>
                        status["original"] = "pending" \/ revision' = revision + 1
<1>1. ASSUME NEW a \in Admins, EnsureApproval(a) \/ Resolve(a)
      PROVE  Quota /\ Pending
  BY <1>0, <1>1 DEF EnsureApproval, InsertChild, Reapprove, Resolve, RowType
<1>2. ASSUME NEW p \in Pollers, Promote(p)
      PROVE  Quota /\ Pending
  BY <1>0, <1>2 DEF Promote, RowType
<1>3. ASSUME NEW p \in Proc, ApplyCommits(p)
      PROVE  Quota /\ Pending
  <2>1. RowOf(p) \in Rows
    BY <1>0, RowOfType
  <2> QED
    BY <1>0, <1>3, <2>1 DEF ApplyCommits, RowType
<1>4. ASSUME NEW p \in Proc, Mark(p)
      PROVE  Quota /\ Pending
  <2>1. RowOf(p) \in Rows
    BY <1>0, RowOfType
  <2> QED
    BY <1>0, <1>4, <2>1 DEF Mark, RecordFailure, RowType
<1>5. ASSUME NEW a \in Admins, NEW n \in Notes \cup {""}, ReviewOriginal(a, n)
      PROVE  Quota /\ Pending
  BY <1>5 DEF ReviewOriginal
<1>6. CASE Repair \/ UNCHANGED <<rowVars, balanceVars>>
  BY <1>6 DEF Repair
<1> QED
  BY <1>1, <1>2, <1>3, <1>4, <1>5, <1>6, RowSteps

(* A request that did not move stays in order, whatever the others did. *)
LEMMA RequestKept ==
  ASSUME IInv, [Next]_vars, NEW a \in Admins,
         pc'[a] = pc[a], op'[a] = op[a], replay'[a] => replay[a]
  PROVE  RequestOK(a)'
<1>0. RequestOK(a) /\ ApprovalKept /\ AppliedKept
  BY KeptStep DEF IInv
<1>1. (pc[a] \in Approving => status["child"] # "none" /\ OwnApproval(a))'
  BY <1>0 DEF RequestOK, OwnApproval, ApprovalKept
<1>2. (replay[a] => status["original"] = "applied" /\ note["original"] \in Notes)'
  BY <1>0 DEF RequestOK, AppliedKept, Rows
<1>3. (pc[a] \in Paid => status["child"] = "applied")'
  BY <1>0 DEF RequestOK, AppliedKept, Rows
<1>4. ASSUME pc[a] = "ok"
      PROVE  (status["original"] = "applied" /\ reviewer["original"] = a /\ taskQuota = op[a].quota)'
  <2>1. status["child"] = "applied" /\ status["original"] = "applied"
    BY <1>0, <1>4 DEF RequestOK, Paid
  <2>2. taskQuota' = taskQuota
    BY <2>1, QuotaStep
  <2> QED
    BY <1>0, <1>4, <2>1, <2>2 DEF RequestOK, AppliedKept, Rows
<1> QED
  BY <1>1, <1>2, <1>3, <1>4 DEF RequestOK

(* A request that moved on between approval and answer stays in order. *)
LEMMA RequestMoved ==
  ASSUME IInv, [Next]_vars, NEW a \in Admins,
         pc[a] \in Approving, pc'[a] # "ok", op'[a] = op[a], replay'[a] => replay[a],
         pc'[a] \in Paid => pc[a] \in Paid \/ status'["child"] = "applied"
  PROVE  RequestOK(a)'
<1>1. RequestOK(a) /\ status["child"] # "none" /\ OwnApproval(a)
  BY DEF IInv, RequestOK
<1>2. (status["child"] # "none" /\ OwnApproval(a))'
  BY <1>1, KeptStep DEF OwnApproval, ApprovalKept
<1>3. (replay[a] => status["original"] = "applied" /\ note["original"] \in Notes)'
  BY <1>1, KeptStep DEF RequestOK, AppliedKept, Rows
<1>4. (pc[a] \in Paid => status["child"] = "applied")'
  BY <1>1, KeptStep DEF RequestOK, AppliedKept, Rows
<1> QED
  BY <1>2, <1>3, <1>4 DEF RequestOK

(* A step of another process leaves a request alone. *)
LEMMA OthersKeep ==
  ASSUME TypeOK, NEW a \in Admins, NEW p \in Proc, p # a,
         Abandon(p) \/ (\E label \in Labels : Goto(p, label) /\ UNCHANGED localVars)
  PROVE  pc'[a] = pc[a] /\ op'[a] = op[a] /\ (replay'[a] => replay[a])
<1>0. LocalType /\ a \in Proc
  BY TypeParts DEF Proc
<1>1. pc'[a] = pc[a] /\ op'[a] = op[a]
  BY <1>0 DEF LocalType, Abandon, Goto, localVars
<1>2. CASE Abandon(p)
  BY <1>1, <1>2 DEF Abandon
<1>3. CASE UNCHANGED localVars
  BY <1>1, <1>3 DEF localVars
<1> QED
  BY <1>2, <1>3

(* A request that was given up is in order. *)
LEMMA RequestAbandoned ==
  ASSUME TypeOK, NEW a \in Admins, Abandon(a)
  PROVE  RequestOK(a)'
BY DEF TypeOK, Abandon, Goto, RequestOK, Approving, Paid, Proc

(* The applied rows, and the answer, of a request that goes on. *)
LEMMA RequestStep ==
  ASSUME IInv, [Next]_vars, NEW a \in Admins
  PROVE  RequestOK(a)'
<1>0. TypeOK /\ LocalType /\ RowType /\ RequestOK(a) /\ a \in Proc
  BY TypeParts DEF IInv, ClosedByApproval, Proc
<1>1. ASSUME NEW b \in Admins, b # a, Complete(b)
      PROVE  RequestOK(a)'
  <2>1. pc'[a] = pc[a] /\ op'[a] = op[a] /\ (replay'[a] => replay[a])
    <3>1. b \in Proc
      BY DEF Proc
    <3>2. CASE Abandon(b)
      BY <1>0, <1>1, <3>1, <3>2, OthersKeep
    <3>3. CASE ~Abandon(b)
      <4>1. /\ pc'[a] = pc[a]
            /\ op'[a] = op[a]
        BY <1>0, <1>1, <3>1, <3>3 DEF Complete, Begin, Load, ReadTask, Prepare, EnsureApproval,
                                      Check, Resolve, Goto, LocalType, localVars
      <4>2. replay'[a] => replay[a]
        BY <1>0, <1>1, <3>3 DEF Complete, Begin, Load, ReadTask, Prepare, EnsureApproval,
                                Check, Resolve, LocalType, localVars
      <4> QED
        BY <4>1, <4>2
    <3> QED
      BY <3>2, <3>3
  <2> QED
    BY <2>1, RequestKept
<1>2. ASSUME Complete(a)
      PROVE  RequestOK(a)'
  <2>1. ASSUME NEW o \in Request, Begin(a, o)
        PROVE  RequestOK(a)'
    <3>1. pc'[a] = "load" /\ replay' = replay
      BY <1>0, <2>1 DEF Begin, Goto, LocalType
    <3> QED
      BY <1>0, <3>1, KeptStep DEF RequestOK, Approving, Paid, AppliedKept, Rows
  <2>2. CASE Load(a)
    <3>1. CASE Abandon(a)
      BY <1>0, <3>1, RequestAbandoned
    <3>2. CASE ~Abandon(a)
      <4>1. /\ HeldAt(op[a].revision) \/ ResolvedAt(op[a].revision)
            /\ pc'[a] = "task" /\ rowVars' = rowVars
            /\ replay'[a] => status["original"] = "applied"
        BY <1>0, <2>2, <3>2 DEF Load, Goto, LocalType
      <4>2. replay'[a] => note["original"] \in Notes
        BY <4>1 DEF HeldAt, ResolvedAt, Approved, IInv, RowsAgree
      <4> QED
        BY <4>1, <4>2 DEF RequestOK, Approving, Paid, rowVars
    <3> QED
      BY <3>1, <3>2
  <2>3. CASE ReadTask(a)
    <3>1. pc'[a] = "prepare" /\ replay' = replay
      BY <1>0, <2>3 DEF ReadTask, Goto, LocalType
    <3> QED
      BY <1>0, <3>1, KeptStep DEF RequestOK, Approving, Paid, AppliedKept, Rows
  <2>4. CASE Prepare(a)
    <3>1. CASE Abandon(a)
      BY <1>0, <3>1, RequestAbandoned
    <3>2. CASE ~Abandon(a)
      <4>1. pc'[a] = "ensure" /\ ~replay'[a]
        BY <1>0, <2>4, <3>2 DEF Prepare, Goto, LocalType
      <4> QED
        BY <4>1 DEF RequestOK, Approving, Paid
    <3> QED
      BY <3>1, <3>2
  <2>5. CASE EnsureApproval(a)
    <3>1. CASE Abandon(a)
      BY <1>0, <3>1, RequestAbandoned
    <3>2. CASE ~Abandon(a)
      <4>1. pc'[a] = "apply" /\ op' = op /\ replay' = replay
        BY <1>0, <2>5, <3>2 DEF EnsureApproval, Goto, LocalType, localVars
      <4>2. (status["child"] # "none" /\ OwnApproval(a))'
        <5>1. CASE InsertChild(a)
          BY <1>0, <4>1, <5>1 DEF InsertChild, OwnApproval, RowType, Rows
        <5>2. CASE Reapprove(a)
          BY <1>0, <4>1, <5>2 DEF Reapprove, OwnApproval, RowType, Rows
        <5>3. CASE /\ status["child"] \in {"pending", "applied"}
                   /\ OwnApproval(a)
                   /\ UNCHANGED <<status, target, reviewer, note>>
          BY <4>1, <5>3 DEF OwnApproval
        <5> QED
          BY <2>5, <3>2, <5>1, <5>2, <5>3 DEF EnsureApproval
      <4> QED
        BY <1>0, <4>1, <4>2, KeptStep DEF RequestOK, Paid, AppliedKept, Rows
    <3> QED
      BY <3>1, <3>2
  <2>6. CASE Check(a)
    <3>1. CASE Abandon(a)
      BY <1>0, <3>1, RequestAbandoned
    <3>2. CASE ~Abandon(a)
      <4>1. pc[a] = "check" /\ pc'[a] = "resolve" /\ op' = op /\ replay' = replay
        BY <1>0, <2>6, <3>2 DEF Check, Goto, LocalType, localVars
      <4> QED
        BY <4>1, RequestMoved DEF Approving, Paid
    <3> QED
      BY <3>1, <3>2
  <2>7. CASE Resolve(a)
    <3>1. CASE Abandon(a)
      BY <1>0, <3>1, RequestAbandoned
    <3>2. CASE ~Abandon(a)
      <4>1. pc[a] = "resolve" /\ pc'[a] = "ok" /\ op' = op /\ replay' = replay
        BY <1>0, <2>7, <3>2 DEF Resolve, Goto, LocalType, localVars
      <4>2. (status["child"] # "none" /\ OwnApproval(a))'
        BY <1>0, <4>1, KeptStep DEF RequestOK, Approving, ApprovalKept, OwnApproval
      <4>3. (status["original"] = "applied" /\ reviewer["original"] = a)'
        BY <1>0, <2>7, <3>2 DEF Resolve, AlreadyResolved, RowType, Rows
      <4>4. (replay[a] => status["original"] = "applied" /\ note["original"] \in Notes)'
        BY <1>0, <4>1, KeptStep DEF RequestOK, AppliedKept, Rows
      <4>5. (status["child"] = "applied")'
        BY <1>0, <4>1, KeptStep DEF RequestOK, Paid, AppliedKept, Rows
      <4>6. taskQuota = op[a].quota
        <5>1. HeldAt(op[a].revision) \/ revision = op[a].revision + 1
          BY <1>0, <2>7, <3>2 DEF Resolve, Resolvable, AlreadyResolved
        <5>2. status["original"] # "applied" \/ revision = op[a].revision + 1
          BY <5>1 DEF HeldAt
        <5>3. revision \in Nat /\ op[a].revision \in Nat
          BY <1>0, TypeParts DEF NumberType, LocalType
        <5> QED
          BY <4>1, <5>2, <5>3 DEF IInv, RevisionOK
      <4>7. taskQuota' = op'[a].quota
        BY <2>7, <4>1, <4>6 DEF Resolve, balanceVars
      <4> QED
        BY <4>2, <4>3, <4>4, <4>5, <4>7 DEF RequestOK
    <3> QED
      BY <3>1, <3>2
  <2> QED
    BY <1>2, <2>1, <2>2, <2>3, <2>4, <2>5, <2>6, <2>7 DEF Complete
<1>3. ASSUME NEW p \in Pollers, (\E q \in PolledQuotas : Poll(p, q)) \/ Promote(p)
      PROVE  RequestOK(a)'
  <2>1. p \in Proc /\ p # a
    BY NameAssumption DEF Proc
  <2>2. CASE Abandon(p)
    BY <1>0, <2>1, <2>2, OthersKeep, RequestKept
  <2>3. CASE ~Abandon(p)
    <3>1. pc'[a] = pc[a] /\ op' = op /\ replay' = replay
      BY <1>0, <1>3, <2>1, <2>3 DEF Poll, Promote, Goto, LocalType, localVars
    <3> QED
      BY <3>1, RequestKept
  <2> QED
    BY <2>2, <2>3
<1>4. ASSUME NEW p \in Runners, NEW r \in Rows, RunnerTake(p, r)
      PROVE  RequestOK(a)'
  <2>1. p # a
    BY NameAssumption
  <2>2. pc'[a] = pc[a] /\ op' = op /\ replay' = replay
    BY <1>0, <1>4, <2>1 DEF RunnerTake, Goto, LocalType
  <2> QED
    BY <2>2, RequestKept
<1>5. ASSUME NEW p \in Proc, Apply(p) \/ Crash(p)
      PROVE  RequestOK(a)'
  <2>1. \/ Abandon(p)
        \/ /\ pc[p] = "apply" /\ UNCHANGED localVars
           /\ \E label \in {"check", "hold", "retry"} : Goto(p, label)
    BY <1>5 DEF Apply, ApplyCommits, ApplyFindsApplied, ApplyRefuses, ApplyFails, Applied, Mark, Crash
  <2>2. CASE p # a
    BY <1>0, <2>1, <2>2, OthersKeep, RequestKept DEF Labels
  <2>3. CASE p = a /\ Abandon(p)
    BY <1>0, <2>3, RequestAbandoned
  <2>4. CASE p = a /\ ~Abandon(p)
    <3>1. pc[a] = "apply" /\ pc'[a] # "ok" /\ op' = op /\ replay' = replay
      BY <1>0, <2>1, <2>4 DEF Goto, LocalType, localVars
    <3>2. ApplyCommits(a) \/ ApplyFindsApplied(a) \/ Goto(a, "hold") \/ Goto(a, "retry")
      BY <1>5, <2>4 DEF Apply, ApplyRefuses, ApplyFails, Mark, Crash
    <3>3. RowOf(a) = "child"
      BY <1>0, RowOfType
    <3>4. CASE ApplyCommits(a) \/ ApplyFindsApplied(a)
      <4>1. status'["child"] = "applied"
        BY <1>0, <3>3, <3>4 DEF ApplyCommits, ApplyFindsApplied, RowType, Rows, rowVars
      <4> QED
        BY <3>1, <4>1, RequestMoved DEF Approving
    <3>5. CASE Goto(a, "hold") \/ Goto(a, "retry")
      <4>1. pc'[a] \notin Paid
        BY <1>0, <3>5 DEF Goto, LocalType, Paid
      <4> QED
        BY <3>1, <4>1, RequestMoved DEF Approving
    <3> QED
      BY <3>2, <3>4, <3>5
  <2> QED
    BY <2>2, <2>3, <2>4
<1>6. CASE Repair \/ UNCHANGED vars
  <2>1. pc' = pc /\ op' = op /\ replay' = replay
    BY <1>6 DEF Repair, vars, localVars
  <2> QED
    BY <2>1, RequestKept
<1>7. ASSUME NEW b \in Admins, NEW n \in Notes \cup {""}, ReviewOriginal(b, n)
      PROVE  RequestOK(a)'
  <2>1. pc' = pc /\ op' = op /\ replay' = replay
    BY <1>7 DEF ReviewOriginal, localVars
  <2> QED
    BY <2>1, RequestKept
<1> QED
  BY <1>1, <1>2, <1>3, <1>4, <1>5, <1>6, <1>7, StepCases

(* A loaded request keeps its date, unless it has just read the quota back. *)
LEMMA RevisionKept ==
  ASSUME IInv, [Next]_vars, NEW a \in Admins,
         pc'[a] \in Loaded => pc[a] \in Loaded,
         pc'[a] = "resolve" => pc[a] = "resolve" \/ taskQuota' = op'[a].quota,
         pc'[a] \in Loaded => op'[a].revision = op[a].revision /\ op'[a].quota = op[a].quota
  PROVE  RevisionOK(a)'
<1>0. /\ revision \in Nat /\ op[a].revision \in Nat
      /\ RevisionOK(a) /\ RequestOK(a) /\ AppliedKept
  BY KeptStep, TypeParts DEF IInv, ClosedByApproval, NumberType, LocalType
<1>1. SUFFICES ASSUME pc'[a] \in Loaded
               PROVE  /\ revision' >= op'[a].revision
                      /\ status'["original"] = "pending" => revision' > op'[a].revision
                      /\ pc'[a] = "resolve" /\ taskQuota' # op'[a].quota =>
                           status'["original"] = "applied" /\ revision' > op'[a].revision + 1
  BY DEF RevisionOK, Loaded
<1>2. PICK e \in Nat : e = op[a].revision /\ e = op'[a].revision
  BY <1>0, <1>1
<1>3. PICK v \in Nat : v = revision' /\ (v = revision \/ v = revision + 1)
  BY <1>0, RevisionGrows
<1>4. revision >= e /\ (status["original"] = "pending" => revision > e)
  BY <1>0, <1>1, <1>2 DEF RevisionOK
<1>5. v >= e
  BY <1>0, <1>3, <1>4
<1>6. status'["original"] = "pending" => v > e
  <2>1. status'["original"] = "pending" => status["original"] = "pending" \/ v = revision + 1
    BY <1>3, QuotaStep
  <2> QED
    BY <1>0, <1>3, <1>4, <2>1
<1>7. ASSUME pc'[a] = "resolve", taskQuota' # op'[a].quota
      PROVE  status'["original"] = "applied" /\ v > e + 1
  <2>1. pc[a] = "resolve" /\ op'[a].quota = op[a].quota /\ status["child"] = "applied"
    BY <1>0, <1>1, <1>7 DEF RequestOK, Paid
  <2>2. CASE taskQuota' = taskQuota
    <3>1. status["original"] = "applied" /\ revision > e + 1
      BY <1>0, <1>2, <1>7, <2>1, <2>2 DEF RevisionOK
    <3> QED
      BY <1>0, <1>3, <3>1 DEF AppliedKept, Rows
  <2>3. CASE taskQuota' # taskQuota
    <3>1. status["original"] = "pending" /\ status'["original"] = "applied" /\ v = revision + 1
      BY <1>3, <2>1, <2>3, QuotaStep
    <3> QED
      BY <1>0, <1>4, <3>1
  <2> QED
    BY <2>2, <2>3
<1> QED
  BY <1>2, <1>3, <1>5, <1>6, <1>7

(* The other requests' steps are covered by it; of its own, the load gives  *)
(* the date and the check the quota.                                        *)
LEMMA RevisionStep ==
  ASSUME IInv, [Next]_vars, NEW a \in Admins
  PROVE  RevisionOK(a)'
<1>0. TypeOK /\ LocalType /\ RowType /\ a \in Proc
  BY TypeParts DEF IInv, ClosedByApproval, Proc
<1>1. ASSUME pc'[a] = pc[a], op'[a] = op[a]
      PROVE  RevisionOK(a)'
  BY <1>1, RevisionKept
<1>2. ASSUME NEW p \in Proc, Abandon(p)
      PROVE  RevisionOK(a)'
  <2>1. CASE p = a
    <3>1. pc'[a] \notin Loaded
      BY <1>0, <1>2, <2>1 DEF Abandon, Goto, LocalType, Loaded
    <3> QED
      BY <3>1 DEF RevisionOK, Loaded
  <2>2. CASE p # a
    BY <1>0, <1>1, <1>2, <2>2, OthersKeep
  <2> QED
    BY <2>1, <2>2
<1>3. ASSUME NEW b \in Admins, Complete(b), ~Abandon(b)
      PROVE  RevisionOK(a)'
  <2>0. b \in Proc
    BY DEF Proc
  <2>1. CASE b # a
    <3>1. pc'[a] = pc[a] /\ op'[a] = op[a]
      BY <1>0, <1>3, <2>0, <2>1 DEF Complete, Begin, Load, ReadTask, Prepare, EnsureApproval,
                                    Check, Resolve, Goto, LocalType, localVars
    <3> QED
      BY <1>1, <3>1
  <2>2. CASE b = a /\ ((\E o \in Request : Begin(a, o)) \/ Resolve(a))
    <3>1. pc'[a] \notin Loaded
      BY <1>0, <1>3, <2>2 DEF Begin, Resolve, Goto, LocalType, Loaded
    <3> QED
      BY <3>1 DEF RevisionOK, Loaded
  <2>3. CASE b = a /\ Load(a)
    <3>1. /\ HeldAt(op[a].revision) \/ ResolvedAt(op[a].revision)
          /\ pc'[a] = "task" /\ rowVars' = rowVars /\ op' = op
      BY <1>0, <1>3, <2>3 DEF Load, Goto, LocalType
    <3>2. revision \in Nat /\ op[a].revision \in Nat
      BY <1>0, TypeParts DEF NumberType, LocalType
    <3>3. /\ revision >= op[a].revision
          /\ status["original"] # "pending"
      BY <3>1, <3>2 DEF HeldAt, ResolvedAt
    <3>4. revision' = revision /\ status' = status
      BY <3>1 DEF rowVars
    <3> QED
      BY <3>1, <3>3, <3>4 DEF RevisionOK
  <2>4. CASE b = a /\ (ReadTask(a) \/ EnsureApproval(a))
    <3>1. pc[a] \in Loaded /\ pc'[a] # "resolve" /\ op' = op
      BY <1>0, <1>3, <2>4 DEF ReadTask, EnsureApproval, Goto, LocalType, localVars, Loaded
    <3> QED
      BY <3>1, RevisionKept
  <2>5. CASE b = a /\ Prepare(a)
    <3>1. pc[a] \in Loaded /\ pc'[a] # "resolve"
      BY <1>0, <1>3, <2>5 DEF Prepare, Goto, LocalType, Loaded
    <3>2. op'[a].revision = op[a].revision /\ op'[a].quota = op[a].quota
      BY <1>0, <1>3, <2>5 DEF Prepare, LocalType
    <3> QED
      BY <3>1, <3>2, RevisionKept
  <2>6. CASE b = a /\ Check(a)
    <3>1. pc[a] \in Loaded /\ op' = op /\ taskQuota' = op'[a].quota
      BY <1>0, <1>3, <2>6 DEF Check, localVars, balanceVars, Loaded
    <3> QED
      BY <3>1, RevisionKept
  <2> QED
    BY <1>3, <2>1, <2>2, <2>3, <2>4, <2>5, <2>6 DEF Complete
<1>4. ASSUME NEW p \in Pollers, (\E q \in PolledQuotas : Poll(p, q)) \/ Promote(p), ~Abandon(p)
      PROVE  RevisionOK(a)'
  <2>1. p \in Proc /\ p # a
    BY NameAssumption DEF Proc
  <2>2. pc'[a] = pc[a] /\ op' = op
    BY <1>0, <1>4, <2>1 DEF Poll, Promote, Goto, LocalType, localVars
  <2> QED
    BY <1>1, <2>2
<1>5. ASSUME NEW p \in Runners, NEW r \in Rows, RunnerTake(p, r)
      PROVE  RevisionOK(a)'
  <2>1. p # a
    BY NameAssumption
  <2>2. pc'[a] = pc[a] /\ op' = op
    BY <1>0, <1>5, <2>1 DEF RunnerTake, Goto, LocalType
  <2> QED
    BY <1>1, <2>2
<1>6. ASSUME NEW p \in Proc, Apply(p) \/ Crash(p), ~Abandon(p)
      PROVE  RevisionOK(a)'
  <2>1. /\ pc[p] = "apply" /\ UNCHANGED localVars
        /\ \E label \in {"check", "hold", "retry"} : Goto(p, label)
    BY <1>6 DEF Apply, ApplyCommits, ApplyFindsApplied, ApplyRefuses, ApplyFails, Applied, Mark, Crash
  <2>2. op' = op /\ (p # a => pc'[a] = pc[a])
    BY <1>0, <2>1 DEF Goto, LocalType, localVars
  <2>3. p = a => pc[a] \in Loaded /\ pc'[a] # "resolve"
    BY <1>0, <2>1 DEF Goto, LocalType, Loaded
  <2>4. CASE p = a
    BY <2>2, <2>3, <2>4, RevisionKept
  <2> QED
    BY <1>1, <2>2, <2>4
<1>7. ASSUME NEW b \in Admins, NEW n \in Notes \cup {""}, ReviewOriginal(b, n)
      PROVE  RevisionOK(a)'
  BY <1>1, <1>7 DEF ReviewOriginal, localVars
<1>8. CASE Repair \/ UNCHANGED vars
  BY <1>1, <1>8 DEF Repair, vars, localVars
<1>9. ASSUME NEW b \in Admins
      PROVE  b \in Proc
  BY DEF Proc
<1>10. ASSUME NEW p \in Pollers
      PROVE  p \in Proc
  BY DEF Proc
<1> QED
  BY <1>2, <1>3, <1>4, <1>5, <1>6, <1>7, <1>8, <1>9, <1>10, StepCases

-----------------------------------------------------------------------------
(* The theorems. *)

LEMMA Inductive ==
  ASSUME IInv, [Next]_vars
  PROVE  IInv'
<1>1. TypeOK' /\ PaidApprovalStands' /\ RowsAgree' /\ Backed'
  BY TypeStep, PaidStep, RowsStep
<1>2. \A a \in Admins : RequestOK(a)' /\ RevisionOK(a)'
  BY RequestStep, RevisionStep
<1>3. ClosedByApproval'
  <2>1. (status["child"] # "none" => reviewer["child"] # Nobody /\ note["child"] # "")'
    BY <1>1, NameAssumption DEF RowsAgree
  <2> QED
    BY <1>1, <2>1 DEF ClosedByApproval, Backed
<1> QED
  BY <1>1, <1>2, <1>3 DEF IInv

LEMMA Invariance == Spec => []IInv
<1>1. IInv /\ [Next]_vars => IInv'
  BY Inductive
<1> QED
  BY <1>1, InitIInv, PTL DEF Spec

(* Every variable keeps its type, no refund goes without a recorded         *)
(* approval, and an original that was closed without being paid is backed   *)
(* by the paid child of the same approval, whatever reviews of its alert    *)
(* came before (ResolveManualTaskBillingSettlement).                        *)
THEOREM HandClosingIsBacked == Spec => []ClosedByApproval
<1>1. IInv => ClosedByApproval
  BY DEF IInv
<1> QED
  BY <1>1, Invariance, PTL

(* An administrator told "ok" by CompleteManualTaskBillingSettlement finds  *)
(* the original closed in his name and the task at the quota he asked for.  *)
THEOREM CompletionAnswerIsTrue == Spec => []SuccessIsTrue
<1>1. IInv => SuccessIsTrue
  <2> SUFFICES ASSUME IInv, NEW a \in Admins, pc[a] = "ok"
               PROVE  /\ status["original"] = "applied"
                      /\ reviewer["original"] = a
                      /\ taskQuota = op[a].quota
    BY DEF SuccessIsTrue
  <2> QED
    BY DEF IInv, RequestOK
<1> QED
  BY <1>1, Invariance, PTL

(* A refund approved by hand and paid stays the task's quota: a promotion   *)
(* that comes later is refused by the compare of Task.Quota.                *)
THEOREM PaidRefundIsFinal == Spec => []PaidApprovalStands
<1>1. IInv => PaidApprovalStands
  BY DEF IInv
<1> QED
  BY <1>1, Invariance, PTL

(* Neither a failure, nor another administrator, nor a retry rewrites the   *)
(* approval a child was inserted with (markBillingSettlementFailure).       *)
THEOREM ChildApprovalIsFinal == Spec => ApprovalIsFinal
<1>1. IInv /\ [Next]_vars =>
        [status["child"] # "none" =>
           /\ target'["child"] = target["child"]
           /\ reviewer'["child"] = reviewer["child"]
           /\ note'["child"] = note["child"]]_vars
  BY KeptStep DEF ApprovalKept
<1> QED
  BY <1>1, Invariance, PTL DEF Spec, ApprovalIsFinal

(* Approvals, promotions and retries together settle the task the way       *)
(* TaskQuota promises it: once, and visibly in Task.Quota.                  *)
THEOREM ManualRefinesTaskQuota == Spec => ImplementsTaskQuota
<1>1. Init => Promise!Init
  BY DEF Init, Promise!Init
<1>2. ASSUME IInv, [Next]_vars
      PROVE  [Promise!Next]_(Promise!vars)
  <2>0. TypeOK /\ RowType /\ NumberType
    BY <1>2, TypeParts DEF IInv, ClosedByApproval
  <2>1. ASSUME NEW p \in Proc, ApplyCommits(p)
        PROVE  Promise!Next
    <3>1. target[RowOf(p)] \in 0..Reservation
      BY <2>0, RowOfType DEF RowType
    <3>2. /\ taskQuota = Reservation
          /\ taskQuota' = target[RowOf(p)]
          /\ wallet' = wallet + (Reservation - target[RowOf(p)])
      BY <2>1 DEF ApplyCommits, LegsHold
    <3>3. wallet \in Int /\ Reservation \in Int
      BY <2>0, QuotaAssumption DEF NumberType
    <3>4. Promise!Settle(target[RowOf(p)])
      BY <3>1, <3>2, <3>3 DEF Promise!Settle
    <3> QED
      BY <3>1, <3>4 DEF Promise!Next
  <2>2. \/ \E p \in Proc : ApplyCommits(p)
        \/ taskQuota' = taskQuota /\ wallet' = wallet
    BY <1>2, RowSteps DEF EnsureApproval, Resolve, ReviewOriginal, Promote, Mark, Repair, balanceVars
  <2> QED
    BY <2>1, <2>2 DEF Promise!vars
<1> QED
  BY <1>1, <1>2, Invariance, PTL DEF Spec, ImplementsTaskQuota, Promise!Spec
=============================================================================

-------------------------- MODULE TaskLifecycleProofs --------------------------
(***************************************************************************)
(* Proofs about TaskLifecycle, for every set of pollers and readers, every *)
(* kind of task, every reservation and every final quota.                  *)
(***************************************************************************)
EXTENDS TaskLifecycle, FiniteSetTheorems, TLAPS

-----------------------------------------------------------------------------
(* The inductive invariant. *)

Labels == {"idle", "recover", "recovering", "sweep", "swept", "sweeping", "claim", "fetch",
           "progress", "state", "decide", "evidence", "promote", "finish", "realtime",
           "applyPlan", "applyFinal", "applyRefund"}

WorldType ==
  /\ finalQuota \in FinalQuotas
  /\ outcome \in Terminal
  /\ provider \in [done : BOOLEAN, usage : Usages]
  /\ pc \in [Proc -> Labels]
  /\ copy \in [Proc -> Task]
  /\ seen \in [Proc -> Answer]

(* Evidence is what the provider ended with, and was never recorded        *)
(* without the final settlement of a plan.                                 *)
EvidenceOK(t) ==
  t.evidence # "" =>
    /\ kind = "plan"
    /\ provider.done
    /\ t.evidence = outcome
    /\ settlement["finalize"].status # "none"

(* Which settlements a kind of task has, at which quota, and when.         *)
BooksAgree ==
  /\ settlement["refund"].status # "none" => kind = "delta" /\ settlement["refund"].target = 0
  /\ settlement["finalize"].status # "none" => kind \in Plans \cup {"delta"}
  /\ settlement["finalize"].status \in {"pending", "applied"} =>
       /\ settlement["finalize"].target = finalQuota
       /\ kind \in Plans => kind = "plan" /\ finalQuota <= Reservation
  /\ kind = "delta" =>
       /\ settlement["refund"].status # "none" <=> task.status = "failure"
       /\ settlement["finalize"].status # "none" => task.status = "success"
  /\ wallet = Reservation - task.quota
  /\ (\A r \in {"finalize", "refund"} : settlement[r].status # "applied") =>
       task.quota = Reservation

(* A process works on the row of an open task; before it publishes the     *)
(* provider's status it has seen it and the funding is applied.            *)
Answered == {"state", "decide", "evidence", "promote", "applyPlan", "finish"}
ProcOK(p) ==
  /\ copy[p].status \in Open
  /\ EvidenceOK(copy[p])
  /\ pc[p] \in {"swept", "sweeping"} => copy[p].evidence = ""
  /\ pc[p] \in {"recovering", "finish"} => settlement["finalize"].status = "applied"
  /\ pc[p] \in {"evidence", "promote"} =>
       kind = "plan" /\ finalQuota <= Reservation /\ settlement["finalize"].status # "none"
  /\ pc[p] \in Answered => provider.done /\ seen[p].status = outcome

IInv ==
  /\ TerminalIsSettled
  /\ SuccessIsTheProviders
  /\ WorldType
  /\ EvidenceOK(task)
  /\ BooksAgree
  /\ \A p \in Proc : ProcOK(p)

(* The parts of it that speak of the task row and its settlements. *)
TaskType ==
  /\ task \in Task
  /\ task.status \in Terminal => task.reason # "" /\ task.evidence = ""
  /\ settlement \in [{"finalize", "refund"} -> Row]
  /\ wallet \in Int

Settled ==
  /\ settlement["finalize"].status = "none" \/ settlement["refund"].status = "none"
  /\ \A r \in {"finalize", "refund"} :
       settlement[r].status = "applied" => task.quota = settlement[r].target
  /\ task.status \in Terminal =>
       /\ kind \in Plans => settlement["finalize"].status # "none"
       /\ kind \in Plans /\ task.reason # "timeout" => settlement["finalize"].status = "applied"
       /\ kind = "delta" => (task.status = "failure" <=> settlement["refund"].status # "none")
       /\ kind = "unconfirmed" => task.quota = Reservation

BookInv == TaskType /\ Settled /\ SuccessIsTheProviders /\ EvidenceOK(task) /\ BooksAgree

LEMMA InvParts == IInv <=> BookInv /\ WorldType /\ (\A p \in Proc : ProcOK(p))
<1>1. ASSUME TaskType
      PROVE  DOMAIN settlement = {"finalize", "refund"}
  BY <1>1 DEF TaskType
<1>2. ASSUME IInv
      PROVE  TaskType
  BY <1>2 DEF IInv, TerminalIsSettled, TypeOK, TaskType
<1>3. ASSUME WorldType
      PROVE  \A p \in Proc : copy[p] \in Task /\ seen[p] \in Answer
  BY <1>3 DEF WorldType
<1>4. ASSUME TaskType, WorldType
      PROVE  TerminalIsSettled <=> Settled
  BY <1>1, <1>3, <1>4 DEF TerminalIsSettled, TypeOK, TaskType, Settled
<1> QED
  BY <1>2, <1>4 DEF IInv, BookInv

-----------------------------------------------------------------------------
(* Stamps. *)

(* A process that stamps the row always finds a value of updated_at that    *)
(* nobody has read.                                                         *)
LEMMA FreshStamp ==
  ASSUME WorldType, task \in Task
  PROVE  Fresh \in Stamps
<1> DEFINE read == [q \in Proc |-> copy[q].stamp]
           taken == {copy[q].stamp : q \in Proc}
           used == taken \cup {task.stamp}
<1>1. IsFiniteSet(Proc) /\ Cardinality(Proc) \in Nat
  BY ProcAssumption, FS_CardinalityType DEF Proc
<1>2. read \in Surjection(Proc, taken)
  BY DEF Surjection
<1>3. IsFiniteSet(taken) /\ Cardinality(taken) <= Cardinality(Proc)
  BY <1>1, <1>2, FS_Surjection
<1>4. IsFiniteSet(used) /\ Cardinality(used) <= Cardinality(taken) + 1
      /\ Cardinality(taken) \in Nat /\ Cardinality(used) \in Nat
  <2>1. IsFiniteSet(used) /\ Cardinality(used) = IF task.stamp \in taken THEN Cardinality(taken)
                                                                 ELSE Cardinality(taken) + 1
    BY <1>3, FS_AddElement
  <2>2. Cardinality(taken) \in Nat
    BY <1>3, FS_CardinalityType
  <2> QED
    BY <2>1, <2>2
<1>5. Cardinality(Stamps) = Cardinality(Proc) + 2
  <2>1. Cardinality(Proc) + 1 \in Int /\ 0 \in Int /\ ~(0 > Cardinality(Proc) + 1)
    BY <1>1
  <2>2. Cardinality(0..(Cardinality(Proc) + 1)) = (Cardinality(Proc) + 1) - 0 + 1
    BY <2>1, FS_Interval
  <2> QED
    BY <1>1, <2>2 DEF Stamps
<1>6. ~(Stamps \subseteq used)
  <2> SUFFICES ASSUME Stamps \subseteq used PROVE FALSE
    OBVIOUS
  <2>1. Cardinality(Stamps) <= Cardinality(used)
    BY <1>4, FS_Subset
  <2> HIDE DEF used, taken
  <2> QED
    BY <1>1, <1>3, <1>4, <1>5, <2>1
<1>7. PICK s \in Stamps : s \notin used
  BY <1>6
<1>8. \E t \in Stamps : t # task.stamp /\ \A q \in Proc : t # copy[q].stamp
  BY <1>7
<1> QED
  BY <1>8 DEF Fresh

-----------------------------------------------------------------------------
(* The initial states. *)

LEMMA InitIInv == Init => IInv
<1> SUFFICES ASSUME Init PROVE IInv
  OBVIOUS
<1>0. Reservation \in Nat /\ 0 \in Stamps /\ finalQuota \in FinalQuotas /\ "missing" \in Usages
  <2>1. Cardinality(Proc) \in Nat
    BY ProcAssumption, FS_CardinalityType DEF Proc
  <2>2. 0 \in Stamps
    BY <2>1 DEF Stamps
  <2> QED
    BY <2>2, QuotaAssumption DEF Init, Usages
<1>1. NoCopy \in Task /\ NoCopy.status \in Open /\ NoCopy.evidence = ""
  BY <1>0 DEF NoCopy, Task, Open
<1>2. PICK u \in Usages : task = [NoCopy EXCEPT !.frozen = u]
  BY DEF Init, Usages
<1>3. /\ task \in Task /\ task.status = "queued" /\ task.evidence = "" /\ task.quota = Reservation
  BY <1>0, <1>2 DEF NoCopy, Task, Open
<1>4. /\ settlement \in [{"finalize", "refund"} -> Row]
      /\ settlement["finalize"].status = "none" /\ settlement["refund"].status = "none"
  BY <1>0 DEF Init, NoRow, Row
<1>5. wallet = 0
  BY DEF Init
<1>6. BookInv
  <2>1. TaskType
    <3>1. wallet \in Int
      BY <1>5
    <3>2. task.status \notin Terminal
      BY <1>3 DEF Terminal
    <3> QED
      BY <1>3, <1>4, <3>1, <3>2 DEF TaskType
  <2>2. Settled /\ SuccessIsTheProviders /\ EvidenceOK(task)
    BY <1>3, <1>4 DEF Settled, SuccessIsTheProviders, EvidenceOK, Terminal
  <2>3. BooksAgree
    <3>1. wallet = Reservation - task.quota
      <4>1. Reservation - Reservation = 0
        BY QuotaAssumption
      <4> QED
        BY <1>3, <1>5, <4>1
    <3> QED
      BY <1>3, <1>4, <3>1 DEF BooksAgree
  <2> QED
    BY <2>1, <2>2, <2>3 DEF BookInv
<1>7. WorldType
  <2>1. provider \in [done : BOOLEAN, usage : Usages]
    BY DEF Init, Usages
  <2>2. pc \in [Proc -> Labels]
    BY DEF Init, Labels
  <2>3. NoAnswer \in Answer
    BY DEF NoAnswer, Answer, Usages
  <2>4. copy \in [Proc -> Task] /\ seen \in [Proc -> Answer] /\ outcome \in Terminal
    BY <1>1, <2>3 DEF Init
  <2> QED
    BY <1>0, <2>1, <2>2, <2>4 DEF WorldType
<1>8. \A p \in Proc : ProcOK(p)
  BY <1>1 DEF Init, ProcOK, EvidenceOK, Answered
<1> QED
  BY <1>6, <1>7, <1>8, InvParts

-----------------------------------------------------------------------------
(* The writes of the task row and of its settlements. *)

(* The kind of the task and the provider's result are fixed, and a run that *)
(* has ended has ended.                                                     *)
SameWorld ==
  /\ kind' = kind /\ outcome' = outcome /\ finalQuota' = finalQuota
  /\ provider.done => provider'.done

(* A settlement that was recorded stays recorded, one that was applied      *)
(* stays applied.                                                           *)
BooksKept ==
  /\ settlement["finalize"].status # "none" => settlement'["finalize"].status # "none"
  /\ settlement["finalize"].status = "applied" => settlement'["finalize"].status = "applied"

(* Recording an intent adds a pending row, or finds the same one. *)
LEMMA RecordedRow ==
  ASSUME TaskType, NEW r \in {"finalize", "refund"}, NEW target \in Nat,
         settlement' = Recorded(r, target)
  PROVE  /\ settlement' \in [{"finalize", "refund"} -> Row]
         /\ \A o \in {"finalize", "refund"} : o # r => settlement'[o] = settlement[o]
         /\ settlement[r].status = "none" =>
              settlement'[r].status = "pending" /\ settlement'[r].target = target
         /\ settlement[r].status # "none" => settlement'[r] = settlement[r]
<1>1. [status |-> "pending", target |-> target, hold |-> ""] \in Row
  BY DEF Row
<1> QED
  BY <1>1 DEF Recorded, TaskType

(* An open task stays open: settlements untouched. *)
LEMMA RewriteStep ==
  ASSUME IInv, SameWorld, NEW p \in Proc, NEW c \in Task, c.status \in Open, EvidenceOK(c),
         StatusMatches(p), task' = Stored(p, c), UNCHANGED <<settlement, wallet>>
  PROVE  BookInv' /\ BooksKept
<1>1. BookInv /\ ProcOK(p)
  BY InvParts
<1>2. task.status \in Open /\ task.status \notin Terminal /\ c.status \notin Terminal
  BY <1>1 DEF ProcOK, StatusMatches, Open, Terminal
<1>3. /\ task' \in Task /\ task'.status = c.status /\ task'.quota = task.quota
      /\ task'.evidence = c.evidence
  BY <1>1 DEF Stored, Task, BookInv, TaskType
<1>4. TaskType'
  BY <1>1, <1>2, <1>3 DEF BookInv, TaskType
<1>5. Settled' /\ BooksAgree' /\ BooksKept
  BY <1>1, <1>2, <1>3 DEF BookInv, Settled, BooksAgree, BooksKept, SameWorld, Open, Terminal
<1>6. SuccessIsTheProviders' /\ EvidenceOK(task)'
  BY <1>1, <1>2, <1>3 DEF BookInv, SuccessIsTheProviders, EvidenceOK, SameWorld, Open, Terminal
<1> QED
  BY <1>4, <1>5, <1>6 DEF BookInv

(* An open task ends: no settlement changes. *)
LEMMA EndStep ==
  ASSUME IInv, SameWorld, NEW p \in Proc, NEW c \in Task,
         c.status \in Terminal, c.reason # "", c.evidence = "",
         c.status = "success" => provider.done /\ outcome = "success",
         StatusMatches(p), task' = Stored(p, c), UNCHANGED <<settlement, wallet>>,
         kind \in Plans => settlement["finalize"].status = "applied",
         kind = "delta" => c.status = "success"
  PROVE  BookInv' /\ BooksKept
<1>1. BookInv /\ ProcOK(p)
  BY InvParts
<1>2. task.status \in Open /\ task.status \notin Terminal
  BY <1>1 DEF ProcOK, StatusMatches, Open, Terminal
<1>3. /\ task' \in Task /\ task'.status = c.status /\ task'.quota = task.quota
      /\ task'.evidence = "" /\ task'.reason = c.reason
  BY <1>1 DEF Stored, Task, BookInv, TaskType
<1>4. TaskType'
  BY <1>1, <1>2, <1>3 DEF BookInv, TaskType
<1>5. Settled' /\ BooksAgree' /\ BooksKept
  BY <1>1, <1>2, <1>3 DEF BookInv, TaskType, Row, Settled, BooksAgree, BooksKept, SameWorld, Open, Terminal
<1>6. SuccessIsTheProviders' /\ EvidenceOK(task)'
  BY <1>1, <1>2, <1>3 DEF BookInv, SuccessIsTheProviders, EvidenceOK, SameWorld, Open, Terminal
<1> QED
  BY <1>4, <1>5, <1>6 DEF BookInv

(* A delta task ends together with the intent to settle it: a refund if it  *)
(* failed, the final quota if it succeeded.                                 *)
LEMMA EndDeltaStep ==
  ASSUME IInv, SameWorld, NEW p \in Proc, NEW c \in Task, kind = "delta",
         NEW r \in {"finalize", "refund"}, NEW target \in Nat,
         c.status = (IF r = "refund" THEN "failure" ELSE "success"),
         target = (IF r = "refund" THEN 0 ELSE finalQuota),
         c.reason # "", c.evidence = "",
         c.status = "success" => provider.done /\ outcome = "success",
         StatusMatches(p), task' = Stored(p, c),
         settlement' = Recorded(r, target), UNCHANGED wallet
  PROVE  BookInv' /\ BooksKept
<1>1. BookInv /\ ProcOK(p)
  BY InvParts
<1>2. task.status \in Open /\ task.status \notin Terminal /\ c.status \in Terminal
  BY <1>1 DEF ProcOK, StatusMatches, Open, Terminal
<1>3. /\ task' \in Task /\ task'.status = c.status /\ task'.quota = task.quota
      /\ task'.evidence = "" /\ task'.reason = c.reason
  BY <1>1 DEF Stored, Task, BookInv, TaskType
<1>4. settlement["finalize"].status = "none" /\ settlement["refund"].status = "none"
  BY <1>1, <1>2 DEF BookInv, BooksAgree, Terminal
<1>5. /\ settlement' \in [{"finalize", "refund"} -> Row]
      /\ \A o \in {"finalize", "refund"} : o # r => settlement'[o] = settlement[o]
      /\ settlement'[r].status = "pending" /\ settlement'[r].target = target
  BY <1>1, <1>4, RecordedRow DEF BookInv
<1>6. TaskType'
  BY <1>1, <1>3, <1>5 DEF BookInv, TaskType
<1>7. task.quota = Reservation
  BY <1>1, <1>4 DEF BookInv, BooksAgree
<1>8. CASE r = "refund"
  <2>1. Settled'
    BY <1>2, <1>3, <1>4, <1>5, <1>8 DEF Settled, SameWorld, Plans
  <2>2. BooksAgree' /\ BooksKept
    BY <1>1, <1>3, <1>4, <1>5, <1>7, <1>8 DEF BookInv, BooksAgree, BooksKept, SameWorld, Plans
  <2>3. SuccessIsTheProviders' /\ EvidenceOK(task)'
    BY <1>1, <1>3, <1>4, <1>5, <1>8 DEF BookInv, SuccessIsTheProviders, EvidenceOK, SameWorld
  <2> QED
    BY <1>6, <2>1, <2>2, <2>3 DEF BookInv
<1>9. CASE r = "finalize"
  <2>1. Settled'
    BY <1>2, <1>3, <1>4, <1>5, <1>9 DEF Settled, SameWorld, Plans
  <2>2. BooksAgree'
    <3>1. wallet' = Reservation - task'.quota /\ task'.quota = Reservation
      BY <1>1, <1>3, <1>7 DEF BookInv, BooksAgree
    <3>2. /\ settlement'["refund"].status = "none"
          /\ settlement'["finalize"].target = finalQuota'
          /\ task'.status = "success" /\ kind' = "delta"
      BY <1>3, <1>4, <1>5, <1>9 DEF SameWorld
    <3> QED
      BY <3>1, <3>2 DEF BooksAgree, Plans
  <2>4. BooksKept
    BY <1>4 DEF BooksKept
  <2>3. SuccessIsTheProviders' /\ EvidenceOK(task)'
    BY <1>1, <1>3, <1>4, <1>5, <1>9 DEF BookInv, SuccessIsTheProviders, EvidenceOK, SameWorld
  <2> QED
    BY <1>6, <2>1, <2>2, <2>3, <2>4 DEF BookInv
<1> QED
  BY <1>8, <1>9

(* The intent to settle a plan for its final quota is recorded: with the    *)
(* time out that ends it, or with the evidence while it stays open.         *)
LEMMA IntendStep ==
  ASSUME IInv, SameWorld, NEW p \in Proc, NEW c \in Task, kind = "plan",
         \/ c.status = "failure" /\ c.reason = "timeout" /\ c.evidence = ""
         \/ c.status \in Open /\ (c.evidence # "" => c.evidence = outcome /\ provider.done),
         finalQuota <= Reservation, StatusMatches(p), CanRecord("finalize", finalQuota),
         task' = Stored(p, c), settlement' = Recorded("finalize", finalQuota), UNCHANGED wallet
  PROVE  BookInv' /\ BooksKept /\ settlement'["finalize"].status # "none"
<1>1. BookInv /\ WorldType /\ ProcOK(p) /\ finalQuota \in Nat
  BY InvParts, QuotaAssumption DEF WorldType
<1>2. task.status \in Open /\ task.status \notin Terminal
  BY <1>1 DEF ProcOK, StatusMatches, Open, Terminal
<1>3. /\ task' \in Task /\ task'.status = c.status /\ task'.quota = task.quota
      /\ task'.evidence = c.evidence /\ task'.reason = c.reason
  BY <1>1 DEF Stored, Task, BookInv, TaskType
<1>4. settlement["refund"].status = "none"
  BY <1>1 DEF BookInv, BooksAgree
<1>5. /\ settlement' \in [{"finalize", "refund"} -> Row]
      /\ settlement'["refund"] = settlement["refund"]
      /\ settlement["finalize"].status = "none" =>
           settlement'["finalize"].status = "pending" /\ settlement'["finalize"].target = finalQuota
      /\ settlement["finalize"].status # "none" => settlement'["finalize"] = settlement["finalize"]
  BY <1>1, RecordedRow DEF BookInv
<1>6. settlement'["finalize"].status # "none"
  BY <1>5
<1>7. TaskType'
  BY <1>1, <1>2, <1>3, <1>5 DEF BookInv, TaskType, Open, Terminal
<1>8. Settled'
  <2>1. kind' = "plan" /\ settlement'["refund"].status = "none"
    BY <1>4, <1>5 DEF SameWorld
  <2>2. \A r \in {"finalize", "refund"} :
          settlement'[r].status = "applied" => task'.quota = settlement'[r].target
    BY <1>1, <1>3, <1>5, <2>1 DEF BookInv, Settled
  <2>3. task'.status \in Terminal => task'.reason = "timeout"
    BY <1>3 DEF Open, Terminal
  <2> QED
    BY <1>6, <2>1, <2>2, <2>3 DEF Settled, Plans
<1>9. BooksAgree'
  <2>1. settlement["finalize"].status # "none" => settlement["finalize"].target = finalQuota \/
          settlement["finalize"].status \notin {"pending", "applied"}
    BY <1>1 DEF BookInv, BooksAgree
  <2>2. settlement'["finalize"].status \in {"pending", "applied"} =>
          settlement'["finalize"].target = finalQuota
    BY <1>5, <2>1
  <2>3. /\ wallet' = Reservation - task'.quota
        /\ (\A r \in {"finalize", "refund"} : settlement'[r].status # "applied") =>
             task'.quota = Reservation
    BY <1>1, <1>3, <1>5 DEF BookInv, BooksAgree
  <2>4. kind' = "plan" /\ finalQuota' = finalQuota /\ settlement'["refund"].status = "none"
    BY <1>4, <1>5 DEF SameWorld
  <2> QED
    BY <2>2, <2>3, <2>4 DEF BooksAgree, Plans
<1>10. BooksKept
  BY <1>5, <1>6 DEF BooksKept
<1>11. SuccessIsTheProviders' /\ EvidenceOK(task)'
  BY <1>1, <1>3, <1>5, <1>6 DEF BookInv, SuccessIsTheProviders, EvidenceOK, SameWorld, Open
<1> QED
  BY <1>6, <1>7, <1>8, <1>9, <1>10, <1>11 DEF BookInv

(* A plan that cannot be billed is held, and stays open. *)
LEMMA HoldStep ==
  ASSUME IInv, SameWorld, NEW p \in Proc, kind \in Plans,
         HoldManually(p), UNCHANGED wallet
  PROVE  BookInv' /\ BooksKept
<1>0. BookInv /\ WorldType /\ ProcOK(p) /\ copy[p] \in Task
  BY InvParts DEF WorldType
<1> DEFINE held == [status |-> "manual", target |-> Reservation, hold |-> HoldReason(p)]
           c == [copy[p] EXCEPT !.frozen = Usage(p), !.stamp = Fresh]
<1>1. CASE ~(SnapshotMatches(p) /\ (Finalize.status = "none" \/ Finalize = held))
  <2>1. UNCHANGED <<settlement, task>>
    BY <1>1 DEF HoldManually
  <2> QED
    BY <1>0, <2>1 DEF BookInv, TaskType, Settled, SuccessIsTheProviders, EvidenceOK, BooksAgree,
                      BooksKept, SameWorld
<1>2. CASE SnapshotMatches(p) /\ (Finalize.status = "none" \/ Finalize = held)
  <2>1. task' = Stored(p, c) /\ settlement' = [settlement EXCEPT !["finalize"] = held]
    BY <1>2 DEF HoldManually
  <2>2. Fresh \in Stamps /\ Usage(p) \in Usages
    BY <1>0, FreshStamp DEF BookInv, TaskType, WorldType, Usage, Task, Answer
  <2>3. c \in Task /\ c.status = copy[p].status /\ c.evidence = copy[p].evidence
    BY <1>0, <2>2 DEF Task
  <2>4. task.status \in Open /\ c.status \notin Terminal /\ task.status \notin Terminal
    BY <1>0, <1>2, <2>3 DEF ProcOK, SnapshotMatches, Open, Terminal
  <2>5. /\ task' \in Task /\ task'.status = c.status /\ task'.quota = task.quota
        /\ task'.evidence = copy[p].evidence
    BY <1>0, <2>1, <2>3 DEF Stored, Task, BookInv, TaskType
  <2>6. /\ settlement' \in [{"finalize", "refund"} -> Row]
        /\ settlement'["refund"] = settlement["refund"]
        /\ settlement'["finalize"].status = "manual"
        /\ settlement["finalize"].status \in {"none", "manual"}
    <3>1. held \in Row /\ held.status = "manual"
      BY QuotaAssumption DEF Row, HoldReason
    <3>2. settlement \in [{"finalize", "refund"} -> Row]
      BY <1>0 DEF BookInv, TaskType
    <3>3. settlement["finalize"].status = "none" \/ settlement["finalize"] = held
      BY <1>2 DEF Finalize
    <3> HIDE DEF held
    <3> QED
      BY <2>1, <3>1, <3>2, <3>3
  <2>7. settlement["refund"].status = "none" /\ kind # "delta" /\ kind # "unconfirmed"
    BY <1>0 DEF BookInv, BooksAgree, Plans
  <2> HIDE DEF c, held
  <2>8. TaskType'
    BY <1>0, <2>4, <2>5, <2>6 DEF BookInv, TaskType
  <2>9. Settled' /\ BooksKept
    BY <1>0, <2>4, <2>5, <2>6, <2>7 DEF BookInv, Settled, BooksAgree, BooksKept, SameWorld
  <2>10. BooksAgree'
    <3>1. wallet' = Reservation - task'.quota
      BY <1>0, <2>5 DEF BookInv, BooksAgree
    <3>2. (\A r \in {"finalize", "refund"} : settlement'[r].status # "applied") =>
            task'.quota = Reservation
      BY <1>0, <2>5, <2>6, <2>7 DEF BookInv, BooksAgree
    <3> QED
      BY <2>6, <2>7, <3>1, <3>2 DEF BooksAgree, SameWorld
  <2>11. SuccessIsTheProviders' /\ EvidenceOK(task)'
    BY <1>0, <2>4, <2>5, <2>6 DEF BookInv, SuccessIsTheProviders, EvidenceOK, ProcOK, SameWorld, Terminal
  <2> QED
    BY <2>8, <2>9, <2>10, <2>11 DEF BookInv
<1> QED
  BY <1>1, <1>2

(* A held plan is promoted to its final quota. *)
LEMMA PromoteStep ==
  ASSUME IInv, SameWorld, kind = "plan", finalQuota <= Reservation, Promotable, UNCHANGED <<task, wallet>>,
         settlement' = [settlement EXCEPT !["finalize"] =
                          [status |-> "pending", target |-> finalQuota, hold |-> ""]]
  PROVE  BookInv' /\ BooksKept
<1>1. BookInv /\ WorldType
  BY InvParts
<1>2. /\ settlement' \in [{"finalize", "refund"} -> Row]
      /\ settlement'["refund"] = settlement["refund"]
      /\ settlement'["finalize"].status = "pending"
      /\ settlement'["finalize"].target = finalQuota
      /\ settlement["finalize"].status = "manual"
  <2>1. [status |-> "pending", target |-> finalQuota, hold |-> ""] \in Row
    BY <1>1, QuotaAssumption DEF Row, WorldType
  <2> QED
    BY <1>1, <2>1 DEF BookInv, TaskType, Promotable, Finalize
<1>3. settlement["refund"].status = "none"
  BY <1>1 DEF BookInv, BooksAgree
<1>4. TaskType' /\ Settled' /\ BooksAgree' /\ BooksKept
  BY <1>1, <1>2, <1>3 DEF BookInv, TaskType, Settled, BooksAgree, BooksKept, SameWorld
<1>5. SuccessIsTheProviders' /\ EvidenceOK(task)'
  BY <1>1, <1>2 DEF BookInv, SuccessIsTheProviders, EvidenceOK, SameWorld
<1> QED
  BY <1>4, <1>5 DEF BookInv

(* A settlement is applied: the quota and the wallet move together. *)
LEMMA ApplyStep ==
  ASSUME IInv, SameWorld, NEW r \in {"finalize", "refund"}, Apply(r)
  PROVE  /\ BookInv' /\ BooksKept
         /\ settlement'[r].status = "applied"
<1>1. BookInv /\ WorldType
  BY InvParts
<1> DEFINE q == settlement[r].target
<1>2. q \in Nat /\ settlement[r].status = "pending" /\ task.quota = Reservation
  BY <1>1 DEF BookInv, TaskType, Row, Apply
<1>3. /\ settlement' \in [{"finalize", "refund"} -> Row]
      /\ \A o \in {"finalize", "refund"} : o # r => settlement'[o] = settlement[o]
      /\ settlement'[r].status = "applied" /\ settlement'[r].target = q
  BY <1>1 DEF Apply, BookInv, TaskType, Row
<1>4. /\ task' \in Task /\ task'.quota = q /\ task'.status = task.status
      /\ task'.evidence = task.evidence /\ task'.reason = task.reason
  BY <1>1, <1>2 DEF Apply, BookInv, TaskType, Task
<1>5. wallet' = Reservation - q
  BY <1>1, <1>2, QuotaAssumption DEF Apply, BookInv, BooksAgree
<1>6. wallet' \in Int
  BY <1>2, <1>5, QuotaAssumption
<1> HIDE DEF q
<1>7. TaskType'
  BY <1>1, <1>3, <1>4, <1>6 DEF BookInv, TaskType
<1>8. \A o \in {"finalize", "refund"} : o # r => settlement[o].status = "none"
  BY <1>1, <1>2 DEF BookInv, Settled
<1>9. Settled'
  BY <1>1, <1>2, <1>3, <1>4, <1>8 DEF BookInv, Settled, SameWorld, BooksAgree
<1>10. BooksAgree'
  <2>1. /\ settlement'["refund"].status # "none" => settlement["refund"].status # "none"
        /\ settlement'["finalize"].status # "none" => settlement["finalize"].status # "none"
        /\ settlement'["refund"].target = settlement["refund"].target
        /\ settlement'["finalize"].target = settlement["finalize"].target
    BY <1>2, <1>3 DEF q
  <2>2. settlement["finalize"].status # "none" /\ settlement'["finalize"].status \in {"pending", "applied"} =>
          /\ settlement["finalize"].target = finalQuota
          /\ kind \in Plans => kind = "plan" /\ finalQuota <= Reservation
    BY <1>1, <1>2, <1>3 DEF BookInv, BooksAgree
  <2>3. /\ settlement'["refund"].status # "none" => kind' = "delta" /\ settlement'["refund"].target = 0
        /\ settlement'["finalize"].status # "none" => kind' \in Plans \cup {"delta"}
        /\ settlement'["finalize"].status \in {"pending", "applied"} =>
             /\ settlement'["finalize"].target = finalQuota'
             /\ kind' \in Plans => kind' = "plan" /\ finalQuota' <= Reservation
    BY <1>1, <2>1, <2>2 DEF BookInv, BooksAgree, SameWorld
  <2>4. kind' = "delta" =>
          /\ settlement'["refund"].status # "none" <=> task'.status = "failure"
          /\ settlement'["finalize"].status # "none" => task'.status = "success"
    BY <1>1, <1>2, <1>3, <1>4, <2>1 DEF BookInv, BooksAgree, SameWorld
  <2>5. wallet' = Reservation - task'.quota
    BY <1>4, <1>5
  <2> QED
    BY <1>3, <2>3, <2>4, <2>5 DEF BooksAgree
<1>11. BooksKept
  BY <1>2, <1>3 DEF BooksKept
<1>12. EvidenceOK(task)'
  BY <1>1, <1>3, <1>4 DEF BookInv, EvidenceOK, SameWorld
<1>13. SuccessIsTheProviders'
  <2>1. task'.status = "success" => provider'.done /\ outcome' = "success"
    BY <1>1, <1>4 DEF BookInv, SuccessIsTheProviders, SameWorld
  <2>2. kind' \in Plans /\ settlement'["finalize"].status = "applied" =>
          kind' = "plan" /\ task'.quota = finalQuota' /\ finalQuota' <= Reservation
    BY <1>8, <1>9, <1>10, <1>3 DEF Settled, BooksAgree
  <2> QED
    BY <2>1, <2>2 DEF SuccessIsTheProviders
<1> QED
  BY <1>13, <1>3, <1>7, <1>9, <1>10, <1>11, <1>12 DEF BookInv

(* An application that fails leaves the row pending, or holds it. *)
LEMMA ApplyFailsStep ==
  ASSUME IInv, SameWorld, NEW r \in {"finalize", "refund"}, ApplyFails(r)
  PROVE  BookInv' /\ BooksKept
<1>1. BookInv
  BY InvParts
<1>2. /\ settlement[r].status = "pending" /\ task' = task /\ wallet' = wallet
      /\ settlement' \in [{"finalize", "refund"} -> Row]
      /\ \A o \in {"finalize", "refund"} : o # r => settlement'[o] = settlement[o]
      /\ settlement'[r].status \in {"pending", "manual"}
      /\ settlement'[r].target = settlement[r].target
  <2>1. settlement \in [{"finalize", "refund"} -> Row] /\ settlement[r] \in Row
    BY <1>1 DEF BookInv, TaskType
  <2>2. settlement[r].status = "pending" /\ task' = task /\ wallet' = wallet
    BY DEF ApplyFails
  <2>3. CASE UNCHANGED settlement
    BY <2>1, <2>2, <2>3
  <2>4. CASE settlement' = [settlement EXCEPT ![r].status = "manual", ![r].hold = "failed"]
    <3>1. settlement' = [settlement EXCEPT ![r] = [settlement[r] EXCEPT !.status = "manual",
                                                                       !.hold = "failed"]]
      BY <2>1, <2>4
    <3>2. [settlement[r] EXCEPT !.status = "manual", !.hold = "failed"] \in Row
      BY <2>1 DEF Row
    <3>3. settlement'[r] = [settlement[r] EXCEPT !.status = "manual", !.hold = "failed"]
      BY <2>1, <3>1
    <3> QED
      BY <2>1, <2>2, <3>1, <3>2, <3>3 DEF Row
  <2> QED
    BY <2>3, <2>4 DEF ApplyFails
<1>3. TaskType' /\ BooksKept
  BY <1>1, <1>2 DEF BookInv, TaskType, BooksKept
<1>4. Settled' /\ BooksAgree'
  BY <1>1, <1>2 DEF BookInv, Settled, BooksAgree, SameWorld
<1>5. SuccessIsTheProviders' /\ EvidenceOK(task)'
  BY <1>1, <1>2 DEF BookInv, SuccessIsTheProviders, EvidenceOK, SameWorld
<1> QED
  BY <1>3, <1>4, <1>5 DEF BookInv

(* Nothing is written. *)
LEMMA QuietStep ==
  ASSUME IInv, SameWorld, UNCHANGED <<task, settlement, wallet>>
  PROVE  BookInv' /\ BooksKept
<1>1. BookInv
  BY InvParts
<1> QED
  BY <1>1 DEF BookInv, TaskType, Settled, SuccessIsTheProviders, EvidenceOK, BooksAgree,
              BooksKept, SameWorld

-----------------------------------------------------------------------------
(* Every step keeps the task row and its settlements in order. *)

LEMMA WorldStep ==
  ASSUME IInv, [Next]_vars
  PROVE  SameWorld /\ provider' \in [done : BOOLEAN, usage : Usages]
<1>0. provider \in [done : BOOLEAN, usage : Usages]
  BY DEF IInv, WorldType
<1>1. CASE UNCHANGED world
  BY <1>0, <1>1 DEF world, SameWorld
<1>2. CASE ProviderEnds
  <2>1. PICK u \in Usages : provider' = [done |-> TRUE, usage |-> u]
    BY <1>2 DEF ProviderEnds
  <2>2. provider' \in [done : BOOLEAN, usage : Usages] /\ provider'.done
    BY <2>1
  <2> QED
    BY <1>2, <2>2 DEF ProviderEnds, SameWorld
<1>3. CASE UsageArrives
  BY <1>0, <1>3 DEF UsageArrives, SameWorld, Usages
<1>4. CASE Timeout
  BY <1>0, <1>4 DEF Timeout, SameWorld
<1>5. ASSUME NEW p \in Proc, Poll(p)
      PROVE  UNCHANGED world
  BY <1>5 DEF Poll, Recover, FinishRecovery, Sweep, SweepCheck, SweepWrite, Claim, Fetch, Progress,
              State, Decide, Evidence, Promote, Finish
<1>6. ASSUME NEW p \in Proc, NEW r \in DOMAIN settlement, PollerApplies(p, r) \/ PollerFails(p, r)
      PROVE  UNCHANGED world
  BY <1>6 DEF PollerApplies, PollerFails
<1>7. ASSUME NEW p \in Proc, RealtimeRead(p) \/ RealtimeWrite(p) \/ FetchFails(p) \/ Crash(p)
      PROVE  UNCHANGED world
  BY <1>7 DEF RealtimeRead, RealtimeWrite, FetchFails, Crash
<1>8. ASSUME NEW r \in DOMAIN settlement, RunnerApplies(r) \/ RunnerFails(r)
      PROVE  UNCHANGED world
  BY <1>8 DEF RunnerApplies, RunnerFails
<1>9. SettleSubmission => UNCHANGED world
  BY DEF SettleSubmission
<1>10. UNCHANGED vars => UNCHANGED world
  BY DEF vars, world
<1> QED
  BY <1>1, <1>2, <1>3, <1>4, <1>5, <1>6, <1>7, <1>8, <1>9, <1>10 DEF Next, Work, Faults, Proc

(* What a process publishes is what the provider ended with. *)
LEMMA PublishedTypes ==
  ASSUME IInv, NEW p \in Proc
  PROVE  /\ copy[p] \in Task /\ copy[p].status \in Open /\ copy[p].status \notin Terminal
         /\ Recovered(copy[p]) \in Task
         /\ TimedOut(p) \in Task
         /\ [copy[p] EXCEPT !.status = "running"] \in Task
         /\ pc[p] \in Answered => Ended(p) \in Task /\ Published(p) \in Task
         /\ pc[p] \in Answered => WithEvidence(p) \in Task
<1>1. WorldType /\ ProcOK(p) /\ copy[p] \in Task /\ BookInv
  BY InvParts DEF WorldType
<1>2. copy[p].status \in Open /\ copy[p].status \notin Terminal
  BY <1>1 DEF ProcOK, Open, Terminal
<1>3. Recovered(copy[p]) \in Task /\ TimedOut(p) \in Task
  BY <1>1 DEF Recovered, TimedOut, Task, Terminal
<1>4. [copy[p] EXCEPT !.status = "running"] \in Task
  BY <1>1 DEF Task, Open
<1>5. Fresh \in Stamps
  BY <1>1, FreshStamp DEF BookInv, TaskType
<1>6. ASSUME pc[p] \in Answered
      PROVE  Ended(p) \in Task /\ Published(p) \in Task /\ WithEvidence(p) \in Task
  <2>1. seen[p].status \in Terminal
    BY <1>1, <1>6 DEF ProcOK, WorldType
  <2>2. Usage(p) \in Usages
    BY <1>1 DEF Usage, WorldType, Task, Answer
  <2> QED
    BY <1>1, <1>5, <2>1, <2>2 DEF Ended, Published, WithEvidence, Task, Terminal
<1> QED
  BY <1>1, <1>2, <1>3, <1>4, <1>6

LEMMA PollBooks ==
  ASSUME IInv, [Next]_vars, NEW p \in Pollers, Poll(p)
  PROVE  BookInv' /\ BooksKept
<1>0. p \in Proc /\ SameWorld /\ ProcOK(p) /\ BookInv /\ WorldType
  BY InvParts, WorldStep DEF Proc
<1>1. CASE Recover(p) \/ Sweep(p) \/ SweepCheck(p) \/ Fetch(p) \/ State(p)
  <2>1. UNCHANGED <<task, settlement, wallet>>
    BY <1>1 DEF Recover, Sweep, SweepCheck, Fetch, State, books
  <2> QED
    BY <1>0, <2>1, QuietStep
<1>2. CASE FinishRecovery(p)
  <2> DEFINE c == Recovered(copy[p])
  <2>1. /\ UNCHANGED <<settlement, wallet>>
        /\ task' = IF StatusMatches(p) THEN Stored(p, c) ELSE task
        /\ pc[p] = "recovering"
    BY <1>2 DEF FinishRecovery, books
  <2>2. CASE ~StatusMatches(p)
    BY <1>0, <2>1, <2>2, QuietStep
  <2>3. CASE StatusMatches(p)
    <3>1. settlement["finalize"].status = "applied"
      BY <1>0, <2>1 DEF ProcOK
    <3>2. kind = "plan"
      BY <1>0, <2>3, <3>1 DEF ProcOK, StatusMatches, Open, BookInv, BooksAgree
    <3>3. copy[p].evidence # "" => copy[p].evidence = outcome /\ provider.done
      BY <1>0 DEF ProcOK, EvidenceOK
    <3>4. c \in Task /\ copy[p] \in Task
      BY <1>0, PublishedTypes
    <3>5. /\ c.status \in Terminal /\ c.reason # "" /\ c.evidence = ""
          /\ c.status = "success" => provider.done /\ outcome = "success"
      BY <1>0, <3>3, <3>4 DEF Recovered, Task, Terminal, WorldType
    <3> HIDE DEF c
    <3> QED
      BY <1>0, <2>1, <2>3, <3>1, <3>2, <3>4, <3>5, EndStep
  <2> QED
    BY <2>2, <2>3
<1>3. CASE SweepWrite(p)
  <2> DEFINE c == TimedOut(p)
  <2>1. wallet' = wallet /\ pc[p] = "sweeping" /\ TimeOut(p)
    BY <1>3 DEF SweepWrite
  <2>2. /\ c \in Task /\ c.status = "failure" /\ c.reason = "timeout" /\ c.evidence = ""
        /\ c.status \in Terminal /\ copy[p] \in Task
    <3>1. copy[p].evidence = "" /\ copy[p] \in Task /\ c \in Task
      BY <1>0, <2>1, PublishedTypes DEF ProcOK
    <3> QED
      BY <3>1 DEF TimedOut, Task, Terminal
  <2>3. CASE kind \in Plans /\ HoldManually(p)
    BY <1>0, <2>1, <2>3, HoldStep
  <2>4. CASE Billable(p) /\ EndWith(p, "finalize", finalQuota, TimedOut(p), "applyFinal", "claim")
    <3>1. CASE StatusMatches(p) /\ CanRecord("finalize", finalQuota)
      <4>1. task' = Stored(p, c) /\ settlement' = Recorded("finalize", finalQuota)
        BY <2>4, <3>1 DEF EndWith
      <4> HIDE DEF c
      <4> QED
        BY <1>0, <2>1, <2>2, <2>4, <3>1, <4>1, IntendStep DEF Billable
    <3>2. CASE ~(StatusMatches(p) /\ CanRecord("finalize", finalQuota))
      <4>1. UNCHANGED <<task, settlement, wallet>>
        BY <2>1, <2>4, <3>2 DEF EndWith
      <4> QED
        BY <1>0, <4>1, QuietStep
    <3> QED
      BY <3>1, <3>2
  <2>5. CASE kind = "delta" /\ EndWith(p, "refund", 0, TimedOut(p), "applyRefund", "claim")
    <3>1. CASE StatusMatches(p) /\ CanRecord("refund", 0)
      <4>1. task' = Stored(p, c) /\ settlement' = Recorded("refund", 0)
        BY <2>5, <3>1 DEF EndWith
      <4>2. 0 \in Nat
        OBVIOUS
      <4> HIDE DEF c
      <4> QED
        BY <1>0, <2>1, <2>2, <2>5, <3>1, <4>1, <4>2, EndDeltaStep
    <3>2. CASE ~(StatusMatches(p) /\ CanRecord("refund", 0))
      <4>1. UNCHANGED <<task, settlement, wallet>>
        BY <2>1, <2>5, <3>2 DEF EndWith
      <4> QED
        BY <1>0, <4>1, QuietStep
    <3> QED
      BY <3>1, <3>2
  <2>6. CASE /\ kind = "unconfirmed"
             /\ task' = IF StatusMatches(p) THEN Stored(p, TimedOut(p)) ELSE task
             /\ UNCHANGED settlement
    <3>1. CASE StatusMatches(p)
      BY <1>0, <2>1, <2>2, <2>6, <3>1, EndStep DEF Plans
    <3>2. CASE ~StatusMatches(p)
      BY <1>0, <2>1, <2>6, <3>2, QuietStep
    <3> QED
      BY <3>1, <3>2
  <2> QED
    BY <2>1, <2>3, <2>4, <2>5, <2>6 DEF TimeOut
<1>4. CASE Claim(p)
  <2>1. CASE UNCHANGED task
    BY <1>0, <1>4, <2>1, QuietStep DEF Claim, books
  <2>2. CASE ~UNCHANGED task
    <3>1. /\ IsOpen /\ task' = [task EXCEPT !.stamp = Fresh]
          /\ UNCHANGED <<settlement, wallet>>
      BY <1>4, <2>2 DEF Claim, books
    <3>2. Fresh \in Stamps
      BY <1>0, FreshStamp DEF BookInv, TaskType
    <3>3. /\ task' \in Task /\ task'.status = task.status /\ task'.quota = task.quota
          /\ task'.evidence = task.evidence /\ task'.reason = task.reason
      BY <1>0, <3>1, <3>2 DEF BookInv, TaskType, Task
    <3> QED
      BY <1>0, <3>1, <3>3 DEF BookInv, TaskType, Settled, SuccessIsTheProviders, EvidenceOK,
                              BooksAgree, BooksKept, SameWorld
  <2> QED
    BY <2>1, <2>2
<1>5. CASE Progress(p)
  <2> DEFINE c == [copy[p] EXCEPT !.status = "running"]
  <2>1. /\ UNCHANGED <<settlement, wallet>>
        /\ \/ task' = task
           \/ StatusMatches(p) /\ task' = Stored(p, c)
    <3>1. UNCHANGED <<settlement, wallet>>
      BY <1>5 DEF Progress, books
    <3>2. \/ task' = IF StatusMatches(p) THEN Stored(p, c) ELSE task
          \/ task' = task
      BY <1>5 DEF Progress
    <3> HIDE DEF c
    <3> QED
      BY <3>1, <3>2
  <2>2. c \in Task /\ c.status \in Open /\ EvidenceOK(c)
    <3>1. copy[p] \in Task /\ c \in Task /\ EvidenceOK(copy[p])
      BY <1>0, PublishedTypes DEF ProcOK
    <3> QED
      BY <3>1 DEF EvidenceOK, Task, Open
  <2> HIDE DEF c
  <2> QED
    BY <1>0, <2>1, <2>2, QuietStep, RewriteStep
<1>6. CASE Decide(p)
  <2>0. /\ pc[p] = "decide" /\ wallet' = wallet
        /\ provider.done /\ seen[p].status = outcome
    BY <1>0, <1>6 DEF Decide, ProcOK, Answered
  <2>1. CASE kind \in Plans /\ HoldManually(p)
    BY <1>0, <2>0, <2>1, HoldStep
  <2>2. CASE Billable(p) /\ Intend(p)
    <3> DEFINE c == WithEvidence(p)
    <3>1. CASE SnapshotMatches(p) /\ CanRecord("finalize", finalQuota)
      <4>1. task' = Stored(p, c) /\ settlement' = Recorded("finalize", finalQuota) /\ StatusMatches(p)
        BY <2>2, <3>1 DEF Intend, SnapshotMatches, StatusMatches
      <4>2. c \in Task /\ copy[p] \in Task
        BY <1>0, <2>0, PublishedTypes DEF Answered
      <4>3. c.status \in Open /\ c.evidence = outcome
        BY <1>0, <2>0, <4>2 DEF WithEvidence, Task, ProcOK
      <4> HIDE DEF c
      <4> QED
        BY <1>0, <2>0, <2>2, <3>1, <4>1, <4>2, <4>3, IntendStep DEF Billable
    <3>2. CASE ~(SnapshotMatches(p) /\ CanRecord("finalize", finalQuota))
      BY <1>0, <2>0, <2>2, <3>2, QuietStep DEF Intend
    <3> QED
      BY <3>1, <3>2
  <2>3. CASE kind = "delta" /\ EndDelta(p)
    <3> DEFINE c == Ended(p)
    <3>1. /\ c \in Task /\ copy[p] \in Task /\ c.status = outcome /\ c.status \in Terminal
          /\ c.reason # "" /\ c.evidence = ""
      <4>1. c \in Task /\ copy[p] \in Task /\ copy[p].evidence = ""
        BY <1>0, <2>0, <2>3, PublishedTypes DEF Answered, ProcOK, EvidenceOK
      <4> QED
        BY <1>0, <2>0, <4>1 DEF Ended, Task, WorldType
    <3>2. CASE seen[p].status = "failure"
               /\ EndWith(p, "refund", 0, Ended(p), "applyRefund", "recover")
      <4>1. CASE StatusMatches(p) /\ CanRecord("refund", 0)
        <5>1. task' = Stored(p, c) /\ settlement' = Recorded("refund", 0)
          BY <3>2, <4>1 DEF EndWith
        <5>2. 0 \in Nat
          OBVIOUS
        <5> HIDE DEF c
        <5> QED
          BY <1>0, <2>0, <2>3, <3>1, <3>2, <4>1, <5>1, <5>2, EndDeltaStep
      <4>2. CASE ~(StatusMatches(p) /\ CanRecord("refund", 0))
        BY <1>0, <2>0, <3>2, <4>2, QuietStep DEF EndWith
      <4> QED
        BY <4>1, <4>2
    <3>3. CASE seen[p].status = "success"
               /\ EndWith(p, "finalize", finalQuota, Ended(p), "applyFinal", "recover")
      <4>1. CASE StatusMatches(p) /\ CanRecord("finalize", finalQuota)
        <5>1. task' = Stored(p, c) /\ settlement' = Recorded("finalize", finalQuota)
          BY <3>3, <4>1 DEF EndWith
        <5>2. finalQuota \in Nat
          BY <1>0, QuotaAssumption DEF WorldType
        <5> HIDE DEF c
        <5> QED
          BY <1>0, <2>0, <2>3, <3>1, <3>3, <4>1, <5>1, <5>2, EndDeltaStep
      <4>2. CASE ~(StatusMatches(p) /\ CanRecord("finalize", finalQuota))
        BY <1>0, <2>0, <3>3, <4>2, QuietStep DEF EndWith
      <4> QED
        BY <4>1, <4>2
    <3>4. CASE /\ seen[p].status = "success"
               /\ task' = IF StatusMatches(p) THEN Stored(p, Ended(p)) ELSE task
               /\ UNCHANGED settlement
      <4>1. CASE StatusMatches(p)
        BY <1>0, <2>0, <2>3, <3>1, <3>4, <4>1, EndStep DEF Plans
      <4>2. CASE ~StatusMatches(p)
        BY <1>0, <2>0, <3>4, <4>2, QuietStep
      <4> QED
        BY <4>1, <4>2
    <3> QED
      BY <2>3, <3>2, <3>3, <3>4 DEF EndDelta
  <2> QED
    BY <1>6, <2>1, <2>2, <2>3 DEF Decide
<1>7. CASE Evidence(p)
  <2> DEFINE c == WithEvidence(p)
  <2>0. /\ pc[p] = "evidence" /\ kind = "plan" /\ UNCHANGED <<settlement, wallet>>
        /\ provider.done /\ seen[p].status = outcome
        /\ settlement["finalize"].status # "none"
    BY <1>0, <1>7 DEF Evidence, ProcOK, Answered, books
  <2>1. CASE ~SnapshotMatches(p)
    BY <1>0, <1>7, <2>0, <2>1, QuietStep DEF Evidence
  <2>2. CASE SnapshotMatches(p)
    <3>1. task' = Stored(p, c) /\ StatusMatches(p)
      BY <1>7, <2>2 DEF Evidence, SnapshotMatches, StatusMatches
    <3>2. c \in Task /\ copy[p] \in Task
      BY <1>0, <2>0, PublishedTypes DEF Answered
    <3>3. c.status \in Open /\ EvidenceOK(c)
      BY <1>0, <2>0, <2>2, <3>2 DEF WithEvidence, Task, ProcOK, EvidenceOK
    <3> HIDE DEF c
    <3> QED
      BY <1>0, <2>0, <2>2, <3>1, <3>2, <3>3, RewriteStep
  <2> QED
    BY <2>1, <2>2
<1>8. CASE Promote(p)
  <2>1. kind = "plan" /\ finalQuota <= Reservation /\ wallet' = wallet /\ task' = task
    BY <1>0, <1>8 DEF Promote, ProcOK
  <2>2. CASE Promotable
    BY <1>0, <1>8, <2>1, <2>2, PromoteStep DEF Promote
  <2>3. CASE ~Promotable
    BY <1>0, <1>8, <2>1, <2>3, QuietStep DEF Promote
  <2> QED
    BY <2>2, <2>3
<1>9. CASE Finish(p)
  <2> DEFINE c == Published(p)
  <2>1. /\ UNCHANGED <<settlement, wallet>> /\ pc[p] = "finish"
        /\ task' = IF StatusMatches(p) THEN Stored(p, c) ELSE task
        /\ provider.done /\ seen[p].status = outcome
        /\ settlement["finalize"].status = "applied"
    BY <1>0, <1>9 DEF Finish, ProcOK, Answered, books
  <2>2. CASE ~StatusMatches(p)
    BY <1>0, <2>1, <2>2, QuietStep
  <2>3. CASE StatusMatches(p)
    <3>1. kind = "plan"
      BY <1>0, <2>1, <2>3 DEF ProcOK, StatusMatches, Open, BookInv, BooksAgree
    <3>2. c \in Task /\ copy[p] \in Task
      BY <1>0, <2>1, PublishedTypes DEF Answered
    <3>3. /\ c.status = outcome /\ c.status \in Terminal /\ c.reason # "" /\ c.evidence = ""
      BY <1>0, <2>1, <3>2 DEF Published, Task, WorldType
    <3> HIDE DEF c
    <3> QED
      BY <1>0, <2>1, <2>3, <3>1, <3>2, <3>3, EndStep
  <2> QED
    BY <2>2, <2>3
<1> QED
  BY <1>1, <1>2, <1>3, <1>4, <1>5, <1>6, <1>7, <1>8, <1>9 DEF Poll

(* A poller or the retry runner applies a row, or fails to. *)
LEMMA ApplyBooks ==
  ASSUME IInv, [Next]_vars, NEW r \in DOMAIN settlement,
         \/ Apply(r) \/ ApplyFails(r)
         \/ UNCHANGED <<settlement, task, wallet>>
  PROVE  BookInv' /\ BooksKept
<1>1. SameWorld /\ r \in {"finalize", "refund"}
  BY InvParts, WorldStep DEF BookInv, TaskType
<1> QED
  BY <1>1, ApplyStep, ApplyFailsStep, QuietStep

LEMMA BookStep ==
  ASSUME IInv, [Next]_vars
  PROVE  BookInv' /\ BooksKept
<1>0. SameWorld
  BY WorldStep
<1>1. ASSUME NEW p \in Pollers, Poll(p)
      PROVE  BookInv' /\ BooksKept
  BY <1>1, PollBooks
<1>2. ASSUME NEW p \in Pollers, NEW r \in DOMAIN settlement, PollerApplies(p, r) \/ PollerFails(p, r)
      PROVE  BookInv' /\ BooksKept
  <2>1. Apply(r) \/ ApplyFails(r) \/ UNCHANGED <<settlement, task, wallet>>
    BY <1>2 DEF PollerApplies, PollerFails
  <2> QED
    BY <2>1, ApplyBooks
<1>3. ASSUME NEW r \in DOMAIN settlement, RunnerApplies(r) \/ RunnerFails(r)
      PROVE  BookInv' /\ BooksKept
  BY <1>3, ApplyBooks DEF RunnerApplies, RunnerFails
<1>4. ASSUME NEW p \in Proc, RealtimeWrite(p)
      PROVE  BookInv' /\ BooksKept
  <2> DEFINE c == [copy[p] EXCEPT !.status = "running"]
  <2>1. /\ UNCHANGED <<settlement, wallet>>
        /\ task' = IF StatusMatches(p) THEN Stored(p, c) ELSE task
    BY <1>4 DEF RealtimeWrite, books
  <2>2. c \in Task /\ c.status \in Open /\ EvidenceOK(c)
    <3>1. copy[p] \in Task /\ c \in Task /\ EvidenceOK(copy[p])
      BY PublishedTypes DEF IInv, ProcOK
    <3> QED
      BY <3>1 DEF EvidenceOK, Task, Open
  <2> HIDE DEF c
  <2> QED
    BY <1>0, <2>1, <2>2, QuietStep, RewriteStep
<1>5. ASSUME NEW p \in Proc, RealtimeRead(p) \/ FetchFails(p) \/ Crash(p)
      PROVE  BookInv' /\ BooksKept
  <2>1. UNCHANGED <<task, settlement, wallet>>
    BY <1>5 DEF RealtimeRead, FetchFails, Crash, books
  <2> QED
    BY <1>0, <2>1, QuietStep
<1>6. CASE SettleSubmission \/ ProviderEnds \/ UsageArrives \/ Timeout
  <2>1. UNCHANGED <<task, settlement, wallet>>
    BY <1>6 DEF SettleSubmission, ProviderEnds, UsageArrives, Timeout, books
  <2> QED
    BY <1>0, <2>1, QuietStep
<1>7. CASE UNCHANGED vars
  BY <1>0, <1>7, QuietStep DEF vars
<1> QED
  BY <1>1, <1>2, <1>3, <1>4, <1>5, <1>6, <1>7 DEF Next, Work, Faults, Proc

-----------------------------------------------------------------------------
(* Every step keeps the processes in order. *)

LocalType ==
  pc \in [Proc -> Labels] /\ copy \in [Proc -> Task] /\ seen \in [Proc -> Answer]

(* The step of a process, seen from its own variables. *)
OwnStep(p) ==
  /\ LocalType'
  /\ \A q \in Proc \ {p} : pc'[q] = pc[q] /\ copy'[q] = copy[q] /\ seen'[q] = seen[q]
  /\ ProcOK(p)'

(* A process that did not move stays in order, whatever the others did. *)
LEMMA ProcKept ==
  ASSUME IInv, SameWorld, BooksKept, NEW q \in Proc,
         pc'[q] = pc[q], copy'[q] = copy[q], seen'[q] = seen[q]
  PROVE  ProcOK(q)'
<1>1. ProcOK(q)
  BY DEF IInv
<1> QED
  BY <1>1 DEF ProcOK, EvidenceOK, SameWorld, BooksKept

(* A process that goes on with its loop is in order. *)
LEMMA ContinueStep ==
  ASSUME IInv, NEW p \in Proc,
         NEW label \in {"idle", "recover", "sweep", "claim", "applyFinal", "applyRefund"},
         Continue(p, label)
  PROVE  OwnStep(p)
<1>1. LocalType
  BY DEF IInv, WorldType, LocalType
<1>2. NoCopy \in Task /\ NoCopy.status \in Open /\ NoCopy.evidence = ""
  <2>1. Cardinality(Proc) \in Nat
    BY ProcAssumption, FS_CardinalityType DEF Proc
  <2>2. 0 \in Stamps /\ Reservation \in Nat
    BY <2>1, QuotaAssumption DEF Stamps
  <2> QED
    BY <2>2 DEF NoCopy, Task, Open, Usages
<1>3. NoAnswer \in Answer
  BY DEF NoAnswer, Answer, Usages
<1>4. LocalType' /\ \A q \in Proc \ {p} : pc'[q] = pc[q] /\ copy'[q] = copy[q] /\ seen'[q] = seen[q]
  BY <1>1, <1>2, <1>3 DEF LocalType, Continue, Goto, Labels
<1>5. pc'[p] = label /\ copy'[p] = NoCopy
  BY <1>1 DEF LocalType, Continue, Goto
<1>6. ProcOK(p)'
  BY <1>2, <1>5 DEF ProcOK, EvidenceOK, Answered
<1> QED
  BY <1>4, <1>6 DEF OwnStep

(* A process that goes on with the row it has. *)
LEMMA GotoStep ==
  ASSUME IInv, SameWorld, BooksKept, NEW p \in Proc, NEW label \in Labels,
         Goto(p, label), UNCHANGED <<copy, seen>>,
         label \in {"swept", "sweeping"} => pc[p] \in {"swept", "sweeping"},
         label \in {"recovering", "finish"} => settlement'["finalize"].status = "applied",
         label \in {"evidence", "promote"} =>
           kind = "plan" /\ finalQuota <= Reservation /\ settlement'["finalize"].status # "none",
         label \in Answered => provider.done /\ seen[p].status = outcome
  PROVE  OwnStep(p)
<1>1. LocalType /\ ProcOK(p)
  BY DEF IInv, WorldType, LocalType
<1>2. LocalType' /\ \A q \in Proc \ {p} : pc'[q] = pc[q] /\ copy'[q] = copy[q] /\ seen'[q] = seen[q]
  BY <1>1 DEF LocalType, Goto
<1>3. pc'[p] = label /\ copy'[p] = copy[p] /\ seen'[p] = seen[p]
  BY <1>1 DEF LocalType, Goto
<1>4. ProcOK(p)'
  BY <1>1, <1>3 DEF ProcOK, EvidenceOK, SameWorld, BooksKept
<1> QED
  BY <1>2, <1>4 DEF OwnStep

(* The same of a row as a process keeps it after the step. *)
EvidenceNext(t) ==
  t.evidence # "" =>
    /\ kind' = "plan"
    /\ provider'.done
    /\ t.evidence = outcome'
    /\ settlement'["finalize"].status # "none"

(* A process that has read, or written and read back, the row. *)
LEMMA CopyStep ==
  ASSUME IInv, SameWorld, BooksKept, NEW p \in Proc, NEW label \in Labels, NEW c \in Task,
         Goto(p, label), copy' = [copy EXCEPT ![p] = c], UNCHANGED seen,
         c.status \in Open, EvidenceNext(c),
         label \in {"swept", "sweeping"} => c.evidence = "",
         label \in {"recovering", "finish"} => settlement'["finalize"].status = "applied",
         label \in {"evidence", "promote"} =>
           kind = "plan" /\ finalQuota <= Reservation /\ settlement'["finalize"].status # "none",
         label \in Answered => provider.done /\ seen[p].status = outcome
  PROVE  OwnStep(p)
<1>1. LocalType
  BY DEF IInv, WorldType, LocalType
<1>2. LocalType' /\ \A q \in Proc \ {p} : pc'[q] = pc[q] /\ copy'[q] = copy[q] /\ seen'[q] = seen[q]
  BY <1>1 DEF LocalType, Goto
<1>3. pc'[p] = label /\ copy'[p] = c /\ seen'[p] = seen[p]
  BY <1>1 DEF LocalType, Goto
<1>4. ProcOK(p)'
  BY <1>3 DEF ProcOK, EvidenceOK, EvidenceNext, SameWorld
<1> QED
  BY <1>2, <1>4 DEF OwnStep

LEMMA PollStep ==
  ASSUME IInv, [Next]_vars, NEW p \in Pollers, Poll(p)
  PROVE  OwnStep(p)
<1>0. p \in Proc /\ SameWorld /\ BooksKept /\ ProcOK(p) /\ BookInv /\ WorldType
  BY InvParts, WorldStep, BookStep DEF Proc
<1>1. task \in Task /\ EvidenceOK(task) /\ copy[p] \in Task
  BY <1>0 DEF BookInv, TaskType, WorldType
<1>2. EvidenceNext(task') /\ (task' = task => EvidenceNext(task))
  <2>1. EvidenceOK(task)'
    BY BookStep DEF BookInv
  <2> QED
    BY <2>1 DEF EvidenceOK, EvidenceNext
<1>3. /\ "recovering" \in Labels /\ "swept" \in Labels /\ "sweeping" \in Labels /\ "fetch" \in Labels
      /\ "progress" \in Labels /\ "state" \in Labels /\ "decide" \in Labels /\ "evidence" \in Labels
      /\ "promote" \in Labels /\ "finish" \in Labels /\ "applyPlan" \in Labels
  BY DEF Labels
<1>4. ASSUME NEW label \in {"idle", "recover", "sweep", "claim", "applyFinal", "applyRefund"},
             Continue(p, label)
      PROVE  OwnStep(p)
  BY <1>0, <1>4, ContinueStep
<1>5. CASE Recover(p)
  <2>1. CASE IsOpen /\ late /\ Finalize.status = "applied"
    <3>1. copy' = [copy EXCEPT ![p] = task] /\ Goto(p, "recovering") /\ UNCHANGED <<seen, task, settlement>>
      BY <1>5, <2>1 DEF Recover, books
    <3>2. task.status \in Open /\ settlement'["finalize"].status = "applied" /\ EvidenceNext(task)
      BY <1>2, <2>1, <3>1 DEF IsOpen, Finalize
    <3>3. OwnStep(p)
      BY <1>0, <1>1, <1>3, <3>1, <3>2, CopyStep DEF Answered
    <3> QED
      BY <3>3
  <2>2. CASE Continue(p, "sweep")
    BY <1>4, <2>2
  <2> QED
    BY <1>5, <2>1, <2>2 DEF Recover
<1>6. CASE Sweep(p)
  <2>1. CASE IsOpen /\ late /\ Finalize.status = "none"
    <3>1. copy' = [copy EXCEPT ![p] = task] /\ Goto(p, "swept") /\ UNCHANGED <<seen, task, settlement>>
      BY <1>6, <2>1 DEF Sweep, books
    <3>2. task.status \in Open /\ task.evidence = ""
      BY <1>1, <2>1 DEF IsOpen, Finalize, EvidenceOK
    <3> QED
      BY <1>0, <1>1, <1>2, <1>3, <3>1, <3>2, CopyStep DEF Answered
  <2>2. CASE Continue(p, "claim")
    BY <1>4, <2>2
  <2> QED
    BY <1>6, <2>1, <2>2 DEF Sweep
<1>7. CASE SweepCheck(p)
  <2>0. pc[p] = "swept" /\ UNCHANGED <<task, settlement>>
    BY <1>7 DEF SweepCheck, books
  <2>1. CASE Continue(p, "claim")
    BY <1>4, <2>1
  <2>2. CASE Goto(p, "sweeping") /\ UNCHANGED <<copy, seen>>
    BY <1>0, <1>3, <2>0, <2>2, GotoStep DEF Answered
  <2>3. CASE /\ Finalize.status = "applied" /\ IsOpen
             /\ copy' = [copy EXCEPT ![p] = task] /\ Goto(p, "recovering") /\ UNCHANGED seen
    <3>1. task.status \in Open /\ settlement'["finalize"].status = "applied" /\ EvidenceNext(task)
      BY <1>2, <2>0, <2>3 DEF IsOpen, Finalize
    <3> QED
      BY <1>0, <1>1, <1>3, <2>0, <2>3, <3>1, CopyStep DEF Answered
  <2> QED
    BY <1>7, <2>1, <2>2, <2>3 DEF SweepCheck
<1>8. CASE SweepWrite(p)
  <2>1. \E label \in {"claim", "applyFinal", "applyRefund"} : Continue(p, label)
    BY <1>8 DEF SweepWrite, TimeOut, EndWith
  <2> QED
    BY <1>4, <2>1
<1>9. CASE Claim(p)
  <2>1. CASE Continue(p, "recover")
    BY <1>4, <2>1
  <2>2. CASE /\ IsOpen /\ task' = [task EXCEPT !.stamp = Fresh]
             /\ copy' = [copy EXCEPT ![p] = task'] /\ Goto(p, "fetch") /\ UNCHANGED seen
    <3>1. Fresh \in Stamps
      BY <1>0, <1>1, FreshStamp
    <3>2. task' \in Task /\ task'.status \in Open /\ task'.evidence = task.evidence
      BY <1>1, <2>2, <3>1 DEF Task, IsOpen
    <3> DEFINE c == [task EXCEPT !.stamp = Fresh]
    <3>3. c \in Task /\ c.status \in Open /\ EvidenceNext(c) /\ copy' = [copy EXCEPT ![p] = c]
      BY <1>2, <2>2, <3>2
    <3> HIDE DEF c
    <3> QED
      BY <1>0, <1>3, <2>2, <3>3, CopyStep DEF Answered
  <2> QED
    BY <1>9, <2>1, <2>2 DEF Claim
<1>10. CASE Fetch(p)
  <2>1. /\ seen' = [seen EXCEPT ![p] = TheAnswer] /\ copy' = copy
        /\ Goto(p, IF provider.done THEN "state" ELSE "progress")
    BY <1>10 DEF Fetch
  <2>2. TheAnswer \in Answer /\ (provider.done => TheAnswer.status = outcome)
    BY <1>0 DEF TheAnswer, Answer, WorldType
  <2> DEFINE label == IF provider.done THEN "state" ELSE "progress"
  <2>3. LocalType' /\ \A q \in Proc \ {p} : pc'[q] = pc[q] /\ copy'[q] = copy[q] /\ seen'[q] = seen[q]
    BY <1>0, <1>3, <2>1, <2>2 DEF LocalType, WorldType, Goto
  <2>4. pc'[p] = label /\ copy'[p] = copy[p] /\ seen'[p] = TheAnswer
    BY <1>0, <2>1, <2>2 DEF WorldType, Goto
  <2>5. label \in {"state", "progress"} /\ (label = "state" => provider.done)
    OBVIOUS
  <2> HIDE DEF label
  <2>6. ProcOK(p)'
    BY <1>0, <2>2, <2>4, <2>5 DEF ProcOK, EvidenceOK, Answered, SameWorld, BooksKept
  <2> QED
    BY <2>3, <2>6 DEF OwnStep
<1>11. CASE Progress(p) \/ Finish(p)
  <2>1. Continue(p, "recover")
    BY <1>11 DEF Progress, Finish
  <2> QED
    BY <1>4, <2>1
<1>12. CASE State(p)
  <2>0. /\ pc[p] = "state" /\ UNCHANGED <<task, settlement>>
        /\ provider.done /\ seen[p].status = outcome
    BY <1>0, <1>12 DEF State, ProcOK, Answered, books
  <2>1. CASE Continue(p, "recover")
    BY <1>4, <2>1
  <2>2. CASE /\ Pending /\ Billable(p) /\ submission = "applied"
             /\ Goto(p, "evidence") /\ UNCHANGED <<copy, seen>>
    <3>1. settlement'["finalize"].status # "none" /\ kind = "plan" /\ finalQuota <= Reservation
      BY <2>0, <2>2 DEF Pending, Finalize, Billable
    <3> QED
      BY <1>0, <1>3, <2>0, <2>2, <3>1, GotoStep DEF Answered
  <2>3. CASE /\ ~Pending /\ UNCHANGED <<copy, seen>>
             /\ Goto(p, IF Finalize.status = "applied" THEN "finish" ELSE "decide")
    <3>1. CASE Finalize.status = "applied"
      BY <1>0, <1>3, <2>0, <2>3, <3>1, GotoStep DEF Answered, Finalize
    <3>2. CASE Finalize.status # "applied"
      BY <1>0, <1>3, <2>0, <2>3, <3>2, GotoStep DEF Answered, Finalize
    <3> QED
      BY <3>1, <3>2
  <2> QED
    BY <1>12, <2>1, <2>2, <2>3 DEF State
<1>13. CASE Decide(p)
  <2>0. /\ pc[p] = "decide" /\ provider.done /\ seen[p].status = outcome
    BY <1>0, <1>13 DEF Decide, ProcOK, Answered
  <2>1. CASE \E label \in {"recover", "applyFinal", "applyRefund"} : Continue(p, label)
    BY <1>4, <2>1
  <2>2. CASE /\ SnapshotMatches(p) /\ CanRecord("finalize", finalQuota)
             /\ task' = Stored(p, WithEvidence(p)) /\ settlement' = Recorded("finalize", finalQuota)
             /\ copy' = [copy EXCEPT ![p] = task'] /\ Goto(p, "applyPlan") /\ UNCHANGED seen
    <3> DEFINE c == Stored(p, WithEvidence(p))
    <3>1. WithEvidence(p) \in Task
      BY <1>0, <2>0, PublishedTypes DEF Answered
    <3>2. c \in Task /\ c.status \in Open
      BY <1>0, <1>1, <3>1 DEF Stored, WithEvidence, Task, ProcOK
    <3>3. EvidenceNext(c) /\ copy' = [copy EXCEPT ![p] = c]
      BY <1>2, <2>2
    <3> HIDE DEF c
    <3> QED
      BY <1>0, <1>3, <2>0, <2>2, <3>2, <3>3, CopyStep DEF Answered
  <2> QED
    BY <1>13, <2>1, <2>2 DEF Decide, Intend, EndDelta, EndWith
<1>14. CASE Evidence(p)
  <2>0. /\ pc[p] = "evidence" /\ provider.done /\ seen[p].status = outcome /\ settlement' = settlement
        /\ kind = "plan" /\ finalQuota <= Reservation /\ settlement["finalize"].status # "none"
    BY <1>0, <1>14 DEF Evidence, ProcOK, Answered, books
  <2>1. CASE Continue(p, "recover")
    BY <1>4, <2>1
  <2>2. CASE /\ task' = Stored(p, WithEvidence(p))
             /\ copy' = [copy EXCEPT ![p] = task'] /\ Goto(p, "promote") /\ UNCHANGED seen
    <3> DEFINE c == Stored(p, WithEvidence(p))
    <3>1. WithEvidence(p) \in Task
      BY <1>0, <2>0, PublishedTypes DEF Answered
    <3>2. c \in Task /\ c.status \in Open
      BY <1>0, <1>1, <3>1 DEF Stored, WithEvidence, Task, ProcOK
    <3>3. EvidenceNext(c) /\ copy' = [copy EXCEPT ![p] = c]
      BY <1>2, <2>2
    <3> HIDE DEF c
    <3> QED
      BY <1>0, <1>3, <2>0, <2>2, <3>2, <3>3, CopyStep DEF Answered
  <2> QED
    BY <1>14, <2>1, <2>2 DEF Evidence
<1>15. CASE Promote(p)
  <2>0. /\ pc[p] = "promote" /\ provider.done /\ seen[p].status = outcome
    BY <1>0, <1>15 DEF Promote, ProcOK, Answered
  <2>1. CASE Continue(p, "recover")
    BY <1>4, <2>1
  <2>2. CASE Goto(p, "applyPlan") /\ UNCHANGED <<copy, seen>>
    BY <1>0, <1>3, <2>0, <2>2, GotoStep DEF Answered
  <2> QED
    BY <1>15, <2>1, <2>2 DEF Promote
<1>16. CASE FinishRecovery(p)
  <2>1. Continue(p, "sweep")
    BY <1>16 DEF FinishRecovery
  <2> QED
    BY <1>4, <2>1
<1> QED
  BY <1>5, <1>6, <1>7, <1>8, <1>9, <1>10, <1>11, <1>12, <1>13, <1>14, <1>15, <1>16 DEF Poll

(* Every step keeps every process in order. *)
LEMMA LocalStep ==
  ASSUME IInv, [Next]_vars
  PROVE  LocalType' /\ \A q \in Proc : ProcOK(q)'
<1>0. SameWorld /\ BooksKept /\ LocalType /\ DOMAIN settlement = {"finalize", "refund"}
  BY InvParts, WorldStep, BookStep DEF WorldType, LocalType, BookInv, TaskType
<1>1. ASSUME NEW p \in Proc, OwnStep(p)
      PROVE  LocalType' /\ \A q \in Proc : ProcOK(q)'
  BY <1>0, <1>1, ProcKept DEF OwnStep
<1>2. ASSUME UNCHANGED <<pc, copy, seen>>
      PROVE  LocalType' /\ \A q \in Proc : ProcOK(q)'
  BY <1>0, <1>2, ProcKept DEF LocalType
<1>3. ASSUME NEW p \in Pollers, Poll(p)
      PROVE  LocalType' /\ \A q \in Proc : ProcOK(q)'
  BY <1>1, <1>3, PollStep DEF Proc
<1>4. ASSUME NEW p \in Pollers, NEW r \in DOMAIN settlement, PollerApplies(p, r) \/ PollerFails(p, r)
      PROVE  LocalType' /\ \A q \in Proc : ProcOK(q)'
  <2>0. p \in Proc
    BY DEF Proc
  <2>1. CASE Continue(p, "recover")
    BY <1>1, <2>0, <2>1, ContinueStep
  <2>2. CASE ~Continue(p, "recover")
    <3>1. /\ pc[p] = "applyPlan" /\ pc[p] \in ApplyLabel(r)
          /\ Goto(p, "finish") /\ UNCHANGED <<copy, seen>>
          /\ Apply(r) \/ (settlement[r].status = "applied" /\ UNCHANGED settlement)
      BY <1>4, <2>2 DEF PollerApplies, PollerFails
    <3>2. r = "finalize"
      BY <1>0, <3>1 DEF ApplyLabel
    <3>3. settlement'["finalize"].status = "applied"
      BY <1>0, <3>1, <3>2, ApplyStep
    <3>4. provider.done /\ seen[p].status = outcome
      BY <2>0, <3>1 DEF IInv, ProcOK, Answered
    <3> QED
      BY <1>0, <1>1, <2>0, <3>1, <3>3, <3>4, GotoStep DEF Labels, Answered
  <2> QED
    BY <2>1, <2>2
<1>5. ASSUME NEW p \in Proc, RealtimeRead(p)
      PROVE  LocalType' /\ \A q \in Proc : ProcOK(q)'
  <2>1. /\ copy' = [copy EXCEPT ![p] = task] /\ Goto(p, "realtime") /\ UNCHANGED <<seen, task>>
        /\ task.status \in Open
    BY <1>5 DEF RealtimeRead, IsOpen
  <2>2. task \in Task /\ EvidenceOK(task)'
    BY BookStep, InvParts DEF BookInv, TaskType
  <2>3. EvidenceNext(task)
    BY <2>1, <2>2 DEF EvidenceOK, EvidenceNext
  <2>4. OwnStep(p)
    BY <1>0, <2>1, <2>2, <2>3, CopyStep DEF Labels, Answered
  <2> QED
    BY <1>1, <2>4
<1>6. ASSUME NEW p \in Proc, RealtimeWrite(p) \/ FetchFails(p) \/ Crash(p)
      PROVE  LocalType' /\ \A q \in Proc : ProcOK(q)'
  <2>1. Continue(p, "recover") \/ Continue(p, "idle")
    BY <1>6 DEF RealtimeWrite, FetchFails, Crash
  <2> QED
    BY <1>1, <2>1, ContinueStep
<1>7. ASSUME NEW r \in DOMAIN settlement, RunnerApplies(r) \/ RunnerFails(r)
      PROVE  LocalType' /\ \A q \in Proc : ProcOK(q)'
  BY <1>2, <1>7 DEF RunnerApplies, RunnerFails
<1>8. CASE SettleSubmission \/ ProviderEnds \/ UsageArrives \/ Timeout
  BY <1>2, <1>8 DEF SettleSubmission, ProviderEnds, UsageArrives, Timeout
<1>9. CASE UNCHANGED vars
  BY <1>2, <1>9 DEF vars
<1> QED
  BY <1>3, <1>4, <1>5, <1>6, <1>7, <1>8, <1>9 DEF Next, Work, Faults, Proc

(* A poll never writes the quota column, and never moves money. *)
LEMMA PollQuota ==
  ASSUME IInv, NEW p \in Pollers, Poll(p)
  PROVE  task'.quota = task.quota /\ wallet' = wallet
<1>0. p \in Proc /\ task \in Task /\ ProcOK(p)
  BY InvParts DEF BookInv, TaskType, Proc
<1>1. ASSUME NEW c \in Task
      PROVE  Stored(p, c).quota = task.quota
  BY <1>0, <1>1 DEF Stored, Task
<1>2. [task EXCEPT !.stamp = Fresh].quota = task.quota
  BY <1>0 DEF Task
<1>3. /\ copy[p] \in Task /\ Recovered(copy[p]) \in Task /\ TimedOut(p) \in Task
      /\ [copy[p] EXCEPT !.status = "running"] \in Task
      /\ [copy[p] EXCEPT !.frozen = Usage(p), !.stamp = Fresh] \in Task
  <2>1. Fresh \in Stamps /\ Usage(p) \in Usages
    BY <1>0, FreshStamp DEF IInv, WorldType, Usage, Task, Answer
  <2>2. [copy[p] EXCEPT !.frozen = Usage(p), !.stamp = Fresh] \in Task
    BY <1>0, <2>1, PublishedTypes DEF Task
  <2> QED
    BY <1>0, <2>2, PublishedTypes
<1>4. ASSUME pc[p] \in Answered
      PROVE  Ended(p) \in Task /\ Published(p) \in Task /\ WithEvidence(p) \in Task
  BY <1>0, <1>4, PublishedTypes
<1>5. wallet' = wallet
  BY DEF Poll, Recover, FinishRecovery, Sweep, SweepCheck, SweepWrite, Claim, Fetch, Progress, State,
         Decide, Evidence, Promote, Finish, books
<1>6. CASE Recover(p) \/ Sweep(p) \/ SweepCheck(p) \/ Fetch(p) \/ State(p) \/ Promote(p)
  BY <1>5, <1>6 DEF Recover, Sweep, SweepCheck, Fetch, State, Promote
<1>7. CASE FinishRecovery(p) \/ Progress(p)
  BY <1>1, <1>3, <1>5, <1>7 DEF FinishRecovery, Progress
<1>8. CASE Finish(p)
  BY <1>1, <1>4, <1>5, <1>8 DEF Finish, Answered
<1>9. CASE Claim(p)
  BY <1>2, <1>5, <1>9 DEF Claim
<1>10. CASE Evidence(p)
  BY <1>1, <1>4, <1>5, <1>10 DEF Evidence, Answered
<1>11. CASE SweepWrite(p)
  <2>1. \/ task' = task
        \/ task' = Stored(p, TimedOut(p))
        \/ task' = Stored(p, [copy[p] EXCEPT !.frozen = Usage(p), !.stamp = Fresh])
    BY <1>11 DEF SweepWrite, TimeOut, EndWith, HoldManually
  <2> QED
    BY <1>1, <1>3, <1>5, <2>1
<1>12. CASE Decide(p)
  <2>1. \/ task' = task
        \/ task' = Stored(p, Ended(p))
        \/ task' = Stored(p, WithEvidence(p))
        \/ task' = Stored(p, [copy[p] EXCEPT !.frozen = Usage(p), !.stamp = Fresh])
    BY <1>12 DEF Decide, EndDelta, Intend, EndWith, HoldManually
  <2>2. pc[p] \in Answered
    BY <1>12 DEF Decide, Answered
  <2> QED
    BY <1>1, <1>3, <1>4, <1>5, <2>1, <2>2
<1> QED
  BY <1>6, <1>7, <1>8, <1>9, <1>10, <1>11, <1>12 DEF Poll

-----------------------------------------------------------------------------
(* The theorems. *)

LEMMA Inductive ==
  ASSUME IInv, [Next]_vars
  PROVE  IInv'
<1>1. BookInv' /\ LocalType' /\ (\A q \in Proc : ProcOK(q)')
  BY BookStep, LocalStep
<1>2. WorldType'
  <2>1. WorldType
    BY DEF IInv
  <2> QED
    BY <1>1, <2>1, WorldStep DEF WorldType, LocalType, SameWorld
<1>3. (BookInv /\ WorldType /\ (\A p \in Proc : ProcOK(p)))'
  BY <1>1, <1>2
<1>4. (IInv <=> BookInv /\ WorldType /\ (\A p \in Proc : ProcOK(p)))'
  BY InvParts, PTL
<1> QED
  BY <1>3, <1>4

LEMMA Invariance == Spec => []IInv
<1>1. IInv /\ [Next]_vars => IInv'
  BY Inductive
<1> QED
  BY <1>1, InitIInv, PTL DEF Spec

(* A terminal task has exactly the settlement its status calls for, and no  *)
(* task has both (UpdateWithStatusAndSettlement and its like).              *)
THEOREM TaskEndsSettled == Spec => []TerminalIsSettled
<1>1. IInv => TerminalIsSettled
  BY DEF IInv
<1> QED
  BY <1>1, Invariance, PTL

(* A task succeeds only if the provider said so, and a plan settled from    *)
(* usage was settled for that usage (recoverManualTaskBillingSettlement).   *)
THEOREM TaskSucceedsTruly == Spec => []SuccessIsTheProviders
<1>1. IInv => SuccessIsTheProviders
  BY DEF IInv
<1> QED
  BY <1>1, Invariance, PTL

(* The writes that compare the status never leave a terminal status, nor    *)
(* rewrite why the task ended (UpdateWithStatus).                           *)
THEOREM TaskEndsOnce == Spec => TerminalIsFinal
<1>1. ASSUME IInv, [Next]_vars, task.status \in Terminal
      PROVE  task'.status = task.status /\ task'.reason = task.reason
  <2>0. TaskType
    BY <1>1, InvParts DEF BookInv
  <2>1. ASSUME NEW p \in Proc
        PROVE  ~StatusMatches(p) /\ ~SnapshotMatches(p) /\ ~IsOpen
    BY <1>1 DEF IInv, ProcOK, StatusMatches, SnapshotMatches, IsOpen, Open, Terminal
  <2>2. ASSUME NEW p \in Proc, NEW r, NEW t, NEW c, NEW won, NEW lost, EndWith(p, r, t, c, won, lost)
        PROVE  task' = task
    BY <2>1, <2>2 DEF EndWith
  <2>3. ASSUME NEW p \in Proc, HoldManually(p)
        PROVE  task' = task
    BY <2>1, <2>3 DEF HoldManually
  <2>4. ASSUME NEW p \in Pollers, Poll(p)
        PROVE  task' = task
    <3>0. p \in Proc
      BY DEF Proc
    <3>1. CASE Recover(p) \/ Sweep(p) \/ SweepCheck(p) \/ Fetch(p) \/ State(p) \/ Promote(p)
      BY <3>1 DEF Recover, Sweep, SweepCheck, Fetch, State, Promote
    <3>2. CASE FinishRecovery(p) \/ Progress(p) \/ Finish(p)
      BY <2>1, <3>0, <3>2 DEF FinishRecovery, Progress, Finish
    <3>3. CASE Claim(p)
      BY <2>1, <3>0, <3>3 DEF Claim
    <3>4. CASE Evidence(p)
      BY <2>1, <3>0, <3>4 DEF Evidence
    <3>5. CASE SweepWrite(p)
      BY <2>1, <2>2, <2>3, <3>0, <3>5 DEF SweepWrite, TimeOut
    <3>6. CASE Decide(p)
      BY <2>1, <2>2, <2>3, <3>0, <3>6 DEF Decide, EndDelta, Intend
    <3> QED
      BY <2>4, <3>1, <3>2, <3>3, <3>4, <3>5, <3>6 DEF Poll
  <2>5. ASSUME NEW r \in DOMAIN settlement, Apply(r)
        PROVE  task'.status = task.status /\ task'.reason = task.reason
    BY <2>0, <2>5 DEF Apply, TaskType, Task
  <2>6. ASSUME NEW p \in Proc, RealtimeWrite(p)
        PROVE  task' = task
    BY <2>1, <2>6 DEF RealtimeWrite
  <2>7. \/ \E p \in Pollers : Poll(p)
        \/ \E r \in DOMAIN settlement : Apply(r)
        \/ \E p \in Proc : RealtimeWrite(p)
        \/ task' = task
    BY <1>1 DEF Next, Work, Faults, PollerApplies, PollerFails, RunnerApplies, RunnerFails, ApplyFails,
                RealtimeRead, Crash, FetchFails, SettleSubmission, ProviderEnds, UsageArrives,
                Timeout, vars, Proc
  <2> QED
    BY <2>4, <2>5, <2>6, <2>7
<1>2. IInv /\ [Next]_vars =>
        [task.status \in Terminal => task'.status = task.status /\ task'.reason = task.reason]_vars
  BY <1>1
<1> QED
  BY <1>2, Invariance, PTL DEF Spec, TerminalIsFinal

(* Polls, sweeps, recoveries and retries together settle the task the way   *)
(* TaskQuota promises it: once, and visibly in Task.Quota.                  *)
THEOREM TaskRefinesTaskQuota == Spec => ImplementsTaskQuota
<1>1. Init => Promise!Init
  BY DEF Init, NoCopy, Promise!Init
<1>2. ASSUME IInv, [Next]_vars
      PROVE  [Promise!Next]_(Promise!vars)
  <2>0. TaskType
    BY <1>2, InvParts DEF BookInv
  <2>1. ASSUME NEW r \in DOMAIN settlement, Apply(r)
        PROVE  Promise!Next
    <3>1. settlement[r].target \in FinalQuotas \cup {0}
      BY <1>2, <2>0, <2>1, InvParts DEF TaskType, BookInv, BooksAgree, WorldType, Apply
    <3>2. /\ task.quota = Reservation
          /\ task'.quota = settlement[r].target
          /\ wallet' = wallet + Reservation - settlement[r].target
      BY <2>0, <2>1 DEF Apply, TaskType, Task
    <3>3. Promise!Settle(settlement[r].target)
      BY <3>2 DEF Promise!Settle
    <3> QED
      BY <3>1, <3>3 DEF Promise!Next
  <2> DEFINE Quiet == task'.quota = task.quota /\ wallet' = wallet
  <2>2. ASSUME NEW p \in Pollers, Poll(p)
        PROVE  Quiet
    BY <1>2, <2>2, PollQuota
  <2>3. ASSUME NEW p \in Proc, RealtimeWrite(p)
        PROVE  Quiet
    <3>1. copy[p] \in Task
      BY <1>2 DEF IInv, WorldType
    <3>2. Stored(p, [copy[p] EXCEPT !.status = "running"]).quota = task.quota
      BY <3>1 DEF Stored, Task
    <3> QED
      BY <2>3, <3>2 DEF RealtimeWrite, books
  <2>4. \/ \E p \in Pollers : Poll(p)
        \/ \E r \in DOMAIN settlement : Apply(r)
        \/ \E p \in Proc : RealtimeWrite(p)
        \/ UNCHANGED <<task, wallet>>
    BY <1>2 DEF Next, Work, Faults, PollerApplies, PollerFails, RunnerApplies, RunnerFails, ApplyFails,
                RealtimeRead, Crash, FetchFails, SettleSubmission, ProviderEnds, UsageArrives,
                Timeout, vars, Proc, books
  <2> QED
    BY <2>1, <2>2, <2>3, <2>4 DEF Promise!vars
<1> QED
  BY <1>1, <1>2, Invariance, PTL DEF Spec, ImplementsTaskQuota, Promise!Spec
=============================================================================

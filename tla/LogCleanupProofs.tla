----------------------------- MODULE LogCleanupProofs -----------------------------
(***************************************************************************)
(* Proofs about LogCleanup and the maintenance page of LogCleanupConsole,  *)
(* for every set of runners, goroutines, administrators and polls, every   *)
(* log and every bound.                                                    *)
(***************************************************************************)
EXTENDS LogCleanupConsole, FiniteSetTheorems, TLAPS

-----------------------------------------------------------------------------
(* The inductive invariant. *)

N == Cardinality(Rows)

(* A cleanup's share, and what is still there of what it is to delete.      *)
Size(t) == Cardinality(Reportable(t))
Left(t) == Older(rows, task[t].target)
Cleared(t) == Size(t) - Cardinality(Left(t))

(* A counter never claims more than was deleted, by whomever.               *)
Counts(t, s) == s.processed <= s.total /\ s.total <= Size(t) /\ s.processed <= Cleared(t)

(* The row of a task. *)
RowOK(t) ==
  /\ task[t].status = "absent" => task[t] = NoTask
  /\ task[t].status \in Terminal => task[t].lease = "none"
  /\ task[t].key <=> task[t].status \in Active
  /\ task[t].deleted <= Size(t)
  /\ task[t].status = "succeeded" => Left(t) = {}
  /\ Counts(t, task[t].state)

(* A goroutine that saw no row left ends; one that lost its task does so at *)
(* its next save.                                                          *)
FoundNone(g) ==
  \/ g.pc \in {"receipts", "saveReceipts", "finish"}
  \/ g.pc = "saveCount" /\ g.remaining = 0
SawNone(w) == FoundNone(worker[w])
WorkerOK(w) ==
  /\ Working(w) => task[worker[w].task].status # "absent"
  /\ Counts(worker[w].task, worker[w].state)
  /\ worker[w].ids \subseteq Older(Rows, Target(w))
  /\ SawNone(w) => OldRows(w) = {}
  /\ worker[w].stray # 0 => worker[w].pc = "saveBatch" /\ worker[w].stray = 1

(* One cleanup at a time, in their order; nothing is deleted before the     *)
(* first.                                                                  *)
OneAtATime ==
  /\ \A t, u \in Tasks : task[t].status \in Active /\ task[u].status \in Active => t = u
  /\ \A t, u \in Tasks : t < u /\ task[u].status # "absent" => task[t].status \in Terminal
  /\ \A r \in Runners : pass[r] # 0 => task[pass[r]].status # "absent"
  /\ task[1].status = "absent" => rows = Rows

(* Only one goroutine holds a task that was not reclaimed from it, and it   *)
(* is ahead of what it saved.                                              *)
OneHolder ==
  \A w \in Workers :
    /\ \A v \in Workers :
         /\ Working(w) /\ Working(v) /\ w # v
         /\ worker[w].task = worker[v].task /\ worker[w].runner = worker[v].runner
         => worker[w].task \in doubled
    /\ Working(w) /\ Holds(w) /\ worker[w].task \notin doubled =>
         task[worker[w].task].state.processed <= worker[w].state.processed

(* Until the first cleanup ends: the total is saved before anything is      *)
(* deleted, and the goroutine that holds the task measures against it.     *)
FirstWhole ==
  1 \notin doubled =>
    /\ task[1].status \notin Terminal =>
         /\ task[1].state.total \in {0, Size(1)}
         /\ Cleared(1) # 0 => task[1].state.total = Size(1)
         /\ \A w \in Workers : Working(w) /\ worker[w].task = 1 =>
              /\ worker[w].pc \in {"pluck", "delete", "saveBatch"} => task[1].state.total = Size(1)
              /\ Holds(w) =>
                   /\ \/ worker[w].state.total = Size(1)
                      \/ /\ worker[w].pc \in {"count", "fail"}
                         /\ worker[w].state.total = 0 /\ task[1].state.total = 0
                   /\ SawNone(w) => worker[w].state.processed = Size(1)
    /\ task[1].status = "succeeded" => task[1].deleted = Size(1)

IInv ==
  /\ TypeOK
  /\ \A t \in Tasks : RowOK(t)
  /\ \A w \in Workers : WorkerOK(w)
  /\ OneAtATime
  /\ OneHolder
  /\ FirstWhole

-----------------------------------------------------------------------------
(* The operators. *)

LEMMA MaxPair ==
  ASSUME NEW a \in Int, NEW b \in Int
  PROVE  Max({a, b}) \in {a, b} /\ Max({a, b}) >= a /\ Max({a, b}) >= b
<1>1. \E x \in {a, b} : \A y \in {a, b} : x >= y
  BY DEF Max
<1> QED
  BY <1>1 DEF Max

LEMMA MinPair ==
  ASSUME NEW a \in Int, NEW b \in Int
  PROVE  Min({a, b}) \in {a, b} /\ Min({a, b}) <= a /\ Min({a, b}) <= b
<1>1. \E x \in {a, b} : \A y \in {a, b} : x =< y
  BY DEF Min
<1> QED
  BY <1>1 DEF Min

(* The one element of a set is its maximum and its minimum. *)
LEMMA OneElement ==
  ASSUME NEW S \in SUBSET Int, S # {}, \A x, y \in S : x = y
  PROVE  Max(S) \in S /\ Min(S) \in S
<1>1. PICK x \in S : S = {x}
  OBVIOUS
<1>2. (\E z \in S : \A y \in S : z >= y) /\ (\E z \in S : \A y \in S : z =< y)
  BY <1>1
<1> QED
  BY <1>2 DEF Max, Min

(* The log only shrinks, and what is missing of it was deleted. *)
LEMMA LogSize ==
  /\ IsFiniteSet(Rows) /\ N \in Nat
  /\ \A S \in SUBSET Rows : /\ IsFiniteSet(S) /\ Cardinality(S) \in Nat /\ Cardinality(S) <= N
                            /\ Cardinality(S) = 0 <=> S = {}
                            /\ Cardinality(S) = N <=> S = Rows
  /\ \A S \in SUBSET Rows, T \in SUBSET Rows :
       /\ Cardinality(S \ T) = Cardinality(S) - Cardinality(T \cap S)
       /\ Cardinality(S \ T) <= Cardinality(S)
       /\ Cardinality(T \cap S) \in Nat /\ Cardinality(T \cap S) <= Cardinality(S)
<1>1. IsFiniteSet(Rows) /\ N \in Nat
  BY CleanupAssumption, FS_CardinalityType DEF N
<1>2. ASSUME NEW S \in SUBSET Rows
      PROVE  /\ IsFiniteSet(S) /\ Cardinality(S) \in Nat /\ Cardinality(S) <= N
             /\ Cardinality(S) = 0 <=> S = {}
             /\ Cardinality(S) = N <=> S = Rows
  <2>1. IsFiniteSet(S) /\ Cardinality(S) <= N /\ (N = Cardinality(S) => Rows = S)
    BY <1>1, FS_Subset DEF N
  <2>2. Cardinality(S) \in Nat /\ (Cardinality(S) = 0 <=> S = {})
    BY <2>1, FS_CardinalityType, FS_EmptySet
  <2> QED
    BY <2>1, <2>2 DEF N
<1>3. ASSUME NEW S \in SUBSET Rows, NEW T \in SUBSET Rows
      PROVE  /\ Cardinality(S \ T) = Cardinality(S) - Cardinality(T \cap S)
             /\ Cardinality(S \ T) <= Cardinality(S)
             /\ Cardinality(T \cap S) \in Nat /\ Cardinality(T \cap S) <= Cardinality(S)
  <2>1. IsFiniteSet(S)
    BY <1>2
  <2>2. Cardinality(S \ T) = Cardinality(S) - Cardinality(S \cap T)
    BY <2>1, FS_Difference
  <2>3. S \cap T = T \cap S
    OBVIOUS
  <2>4. T \cap S \in SUBSET S /\ S \ T \in SUBSET S
    OBVIOUS
  <2>5. Cardinality(T \cap S) <= Cardinality(S) /\ Cardinality(S \ T) <= Cardinality(S)
    BY <2>1, <2>4, FS_Subset
  <2>6. Cardinality(T \cap S) \in Nat
    BY <1>2
  <2> QED
    BY <2>2, <2>3, <2>5, <2>6
<1> QED
  BY <1>1, <1>2, <1>3

(* The initial values are typed. *)
LEMMA Records ==
  /\ NoProgress \in Progress /\ NoProgress.total = 0 /\ NoProgress.processed = 0
  /\ NoTask \in TaskRow /\ NoTask.status = "absent" /\ ~NoTask.key /\ NoTask.target = 0
  /\ NoTask.state = NoProgress /\ NoTask.deleted = 0 /\ NoTask.lease = "none"
  /\ Idle \in Goroutine /\ Idle.pc = "idle" /\ Idle.state = NoProgress /\ Idle.stray = 0
  /\ Idle.ids = {} /\ Idle.task = 1
<1>1. 0 \in Count /\ 1 \in Tasks
  BY LogSize, CleanupAssumption DEF Count, N, Tasks
<1>2. NoProgress \in Progress /\ NoProgress.total = 0 /\ NoProgress.processed = 0
  BY <1>1 DEF NoProgress, Progress
<1>3. NoTask \in TaskRow
  BY <1>1, <1>2 DEF NoTask, TaskRow, Active, Terminal
<1>4. /\ NoTask.status = "absent" /\ NoTask.state = NoProgress /\ NoTask.deleted = 0
      /\ NoTask.lease = "none" /\ NoTask.target = 0
  BY DEF NoTask
<1>5. ~NoTask.key
  BY Zenon DEF NoTask
<1>6. Idle \in Goroutine
  BY <1>1, <1>2 DEF Idle, Goroutine
<1>7. /\ Idle.pc = "idle" /\ Idle.state = NoProgress /\ Idle.stray = 0
      /\ Idle.ids = {} /\ Idle.task = 1
  BY DEF Idle
<1> QED
  BY <1>2, <1>3, <1>4, <1>5, <1>6, <1>7

(* What is older than a target. *)
LEMMA OlderRows ==
  ASSUME NEW S \in SUBSET Rows, NEW c
  PROVE  /\ Older(S, c) \in SUBSET S /\ Older(S, c) \in SUBSET Rows
         /\ Older(S, c) \in SUBSET Older(Rows, c)
         /\ \A I : Older(S \ I, c) = Older(S, c) \ I
         /\ Older(S, 0) = {}
<1>1. \A i \in S : i \in Nat
  BY CleanupAssumption
<1>2. \A i \in S : ~(i < 0)
  BY <1>1
<1> QED
  BY <1>2 DEF Older

(* A row that is left and is to go is nobody else's: a cleanup that was     *)
(* done before left none under its own target.                             *)
LEMMA ShareOf ==
  ASSUME NEW t \in Tasks, \A u \in Tasks : task[u].target \in Nat, rows \in SUBSET Rows,
         \A u \in Tasks : task[u].status = "succeeded" => Left(u) = {}
  PROVE  /\ Left(t) \in SUBSET Reportable(t) /\ Reportable(t) \in SUBSET Rows
         /\ Size(t) \in Nat /\ Size(t) <= N /\ Cardinality(Left(t)) \in Nat
         /\ Cleared(t) \in Nat /\ Cleared(t) <= Size(t)
         /\ Left(t) = {} => Cleared(t) = Size(t)
<1>1. Left(t) \in SUBSET rows /\ Left(t) \in SUBSET Rows
  BY OlderRows DEF Left
<1>2. Reportable(t) \in SUBSET Rows
  BY DEF Reportable, Older
<1>3. Left(t) \in SUBSET Reportable(t)
  <2> SUFFICES ASSUME NEW i \in Left(t), NEW u \in Tasks, task[u].status = "succeeded",
                      ~(i >= task[u].target)
               PROVE  FALSE
    BY <1>1 DEF Reportable, Left, Older
  <2>1. i \in rows /\ i \notin Left(u)
    BY <1>1
  <2>2. ~(i < task[u].target)
    BY <2>1 DEF Left, Older
  <2>3. \A a, b \in Nat : a < b \/ a >= b
    OBVIOUS
  <2>4. i \in Nat /\ task[u].target \in Nat
    BY <1>1, CleanupAssumption
  <2> QED
    BY <2>2, <2>3, <2>4
<1>4. /\ Size(t) \in Nat /\ Size(t) <= N /\ Cardinality(Left(t)) \in Nat
      /\ Left(t) = {} => Cardinality(Left(t)) = 0
  BY <1>1, <1>2, LogSize DEF Size
<1>5. Cardinality(Left(t)) <= Size(t)
  <2>1. IsFiniteSet(Reportable(t))
    BY <1>2, LogSize
  <2> QED
    BY <1>3, <2>1, FS_Subset DEF Size
<1> QED
  BY <1>1, <1>2, <1>3, <1>4, <1>5 DEF Cleared

(* The first cleanup's share is all that is older than its target. *)
LEMMA FirstShare == Size(1) = Cardinality(Older(Rows, task[1].target))
<1>1. \A u \in Tasks : ~(u < 1)
  BY CleanupAssumption DEF Tasks
<1>2. Reportable(1) = Older(Rows, task[1].target)
  BY <1>1 DEF Reportable
<1> QED
  BY <1>2 DEF Size

LEMMA InitIInv == Init => IInv
<1> SUFFICES ASSUME Init PROVE IInv
  OBVIOUS
<1>1. /\ task = [t \in Tasks |-> NoTask] /\ worker = [w \in Workers |-> Idle] /\ rows = Rows
      /\ pass = [r \in Runners |-> 0] /\ 1 \in Tasks
  BY CleanupAssumption DEF Init, Tasks
<1>2. TypeOK
  <2>1. task \in [Tasks -> TaskRow] /\ worker \in [Workers -> Goroutine]
    BY <1>1, Records
  <2>2. /\ up \in SUBSET Runners /\ up # {} /\ pass \in [Runners -> Tasks \cup {0}]
        /\ rows \in SUBSET Rows /\ doubled \in SUBSET Tasks
        /\ operator \in [Operators -> [pc : {"idle", "creating"}, got : Tasks \cup {0}]]
    BY <1>1, CleanupAssumption DEF Init
  <2>3. receipts \in SUBSET Receipts /\ faults \in 0..MaxFaults /\ slow \in 0..MaxSlow
    BY CleanupAssumption DEF Init
  <2> QED
    BY <2>1, <2>2, <2>3 DEF TypeOK
<1>3. ASSUME NEW t \in Tasks
      PROVE  Left(t) = {} /\ Size(t) = 0 /\ Cleared(t) = 0
  <2>1. task[t].target = 0 /\ rows \in SUBSET Rows
    BY <1>1, Records
  <2>2. Older(Rows, 0) = {}
    BY OlderRows
  <2>3. Reportable(t) = {} /\ Left(t) = {}
    BY <1>1, <2>1, <2>2 DEF Reportable, Left
  <2> QED
    BY <2>3, FS_EmptySet DEF Size, Cleared
<1>4. \A t \in Tasks : RowOK(t)
  <2>1. NoTask.status \notin Active \cup Terminal
    BY Records DEF Active, Terminal
  <2> QED
    BY <1>1, <1>3, <2>1, Records DEF RowOK, Active, Terminal, Counts
<1>5. \A w \in Workers : WorkerOK(w) /\ ~Working(w)
  BY <1>1, <1>3, Records DEF WorkerOK, Working, Counts, SawNone, FoundNone
<1>6. OneAtATime
  BY <1>1, Records DEF OneAtATime, Active
<1>7. OneHolder
  BY <1>5 DEF OneHolder
<1>8. FirstWhole
  BY <1>1, <1>3, <1>5, Records DEF FirstWhole
<1> QED
  BY <1>2, <1>4, <1>5, <1>6, <1>7, <1>8 DEF IInv

-----------------------------------------------------------------------------
(* The types of what the steps read. *)
LEMMA Types ==
  ASSUME IInv
  PROVE  /\ 1 \in Tasks /\ N \in Nat
         /\ rows \in SUBSET Rows /\ Cardinality(rows) \in Nat /\ Cardinality(rows) <= N
         /\ \A t \in Tasks : /\ task[t] \in TaskRow
                             /\ task[t].state.total \in Count /\ task[t].state.processed \in Count
                             /\ task[t].deleted \in Count
         /\ \A w \in Workers : /\ worker[w] \in Goroutine /\ worker[w].task \in Tasks
                               /\ worker[w].state.total \in Count
                               /\ worker[w].state.processed \in Count
                               /\ worker[w].remaining \in Count
         /\ \A n \in Count : n \in Nat /\ n <= N
<1>1. 1 \in Tasks
  BY CleanupAssumption DEF Tasks
<1>2. rows \in SUBSET Rows
  BY DEF IInv, TypeOK
<1>3. N \in Nat /\ Cardinality(rows) \in Nat /\ Cardinality(rows) <= N
  BY <1>2, LogSize
<1>4. \A n \in Count : n \in Nat /\ n <= N
  BY <1>3 DEF Count, N
<1>5. ASSUME NEW t \in Tasks
      PROVE  /\ task[t] \in TaskRow
             /\ task[t].state.total \in Count /\ task[t].state.processed \in Count
             /\ task[t].deleted \in Count
  <2>1. task[t] \in TaskRow
    BY DEF IInv, TypeOK
  <2> QED
    BY <2>1 DEF TaskRow, Progress
<1>6. ASSUME NEW w \in Workers
      PROVE  /\ worker[w] \in Goroutine /\ worker[w].task \in Tasks
             /\ worker[w].state.total \in Count /\ worker[w].state.processed \in Count
             /\ worker[w].remaining \in Count
  <2>1. worker[w] \in Goroutine
    BY DEF IInv, TypeOK
  <2> QED
    BY <2>1 DEF Goroutine, Progress
<1> QED
  BY <1>1, <1>2, <1>3, <1>4, <1>5, <1>6

LEMMA TargetType ==
  ASSUME NEW row \in TaskRow
  PROVE  row.target \in Nat
<1>1. row.target \in Targets \cup {0}
  BY DEF TaskRow
<1>2. \A x \in Targets \cup {0} : x \in Nat
  BY CleanupAssumption
<1> QED
  BY <1>1, <1>2, Zenon

LEMMA Shares ==
  ASSUME IInv, NEW t \in Tasks
  PROVE  /\ Left(t) \in SUBSET Reportable(t) /\ Reportable(t) \in SUBSET Rows
         /\ Size(t) \in Nat /\ Size(t) <= N /\ Cardinality(Left(t)) \in Nat
         /\ Cleared(t) \in Nat /\ Cleared(t) <= Size(t)
         /\ Left(t) = {} => Cleared(t) = Size(t)
<1>1. \A u \in Tasks : task[u].target \in Nat
  BY Types, TargetType
<1>2. \A u \in Tasks : task[u].status = "succeeded" => Left(u) = {}
  BY DEF IInv, RowOK
<1> QED
  BY <1>1, <1>2, ShareOf, Types

(* A share is settled when its cleanup is created: only an ended cleanup    *)
(* takes away from it, and by then every earlier one has ended.             *)
LEMMA ShareKept ==
  ASSUME IInv, rows' = rows, NEW t \in Tasks,
         \A u \in Tasks :
           /\ task'[u].target = task[u].target
           /\ task[u].status \notin Active =>
                (task'[u].status = "succeeded" <=> task[u].status = "succeeded")
  PROVE  Size(t)' = Size(t) /\ Left(t)' = Left(t) /\ Cleared(t)' = Cleared(t)
<1>1. CASE task[t].status = "absent"
  <2>1. task[t].target = 0
    BY <1>1, Records DEF IInv, RowOK
  <2>2. Older(Rows, 0) = {}
    BY OlderRows
  <2>3. Reportable(t) = {} /\ Reportable(t)' = {}
    BY <2>1, <2>2 DEF Reportable
  <2> QED
    BY <2>3 DEF Size, Left, Cleared
<1>2. CASE task[t].status # "absent"
  <2>1. \A u \in Tasks : u < t => task[u].status \notin Active
    BY <1>2 DEF IInv, OneAtATime, Active, Terminal
  <2>2. \A u \in Tasks : u < t => (task'[u].status = "succeeded" <=> task[u].status = "succeeded")
    BY <2>1
  <2>3. Reportable(t)' = Reportable(t)
    BY <2>2 DEF Reportable
  <2> QED
    BY <2>3 DEF Size, Left, Cleared
<1> QED
  BY <1>1, <1>2

(* What a goroutine holds when the rows are S. *)
Measured(g, S) ==
  /\ g.state.processed <= g.state.total /\ g.state.total <= Size(g.task)
  /\ g.state.processed <= Size(g.task) - Cardinality(Older(S, task[g.task].target))
  /\ g.ids \subseteq Older(Rows, task[g.task].target)

(* What the first cleanup's goroutine must have of its new record.          *)
FirstKept(w, g) ==
  1 \notin doubled /\ task[1].status \notin Terminal =>
    /\ g.pc \in {"pluck", "delete", "saveBatch"} => task[1].state.total = Size(1)
    /\ Holds(w) =>
         /\ \/ g.state.total = Size(1)
            \/ /\ g.pc \in {"count", "fail"}
               /\ g.state.total = 0 /\ task[1].state.total = 0
         /\ FoundNone(g) => g.state.processed = Size(1)

(* A step of a goroutine that does not write to the task's row.             *)
LEMMA GoroutineStep ==
  ASSUME IInv, NEW w \in Workers, NEW g \in Goroutine,
         worker' = [worker EXCEPT ![w] = g],
         UNCHANGED <<task, operator, up, pass, slow, doubled>>,
         rows' \in SUBSET rows, receipts' \in SUBSET Receipts, faults' \in 0..MaxFaults,
         Measured(g, rows'),
         g.stray # 0 => g.pc = "saveBatch" /\ g.stray = 1,
         FoundNone(g) => Older(rows', task[g.task].target) = {},
         rows' # rows => Working(w) /\ worker[w].pc = "delete",
         g.pc # "idle" =>
           /\ Working(w) /\ g.task = worker[w].task /\ g.runner = worker[w].runner
           /\ worker[w].state.processed <= g.state.processed
           /\ worker[w].task = 1 => FirstKept(w, g)
  PROVE  IInv'
<1>1. TypeOK'
  BY DEF IInv, TypeOK
<1>2. /\ worker'[w] = g
      /\ \A v \in Workers : v # w => worker'[v] = worker[v]
  BY DEF IInv, TypeOK
<1>3. ASSUME NEW t \in Tasks
      PROVE  /\ Size(t)' = Size(t) /\ Left(t)' \in SUBSET Left(t)
             /\ Cleared(t)' \in Nat /\ Cleared(t)' >= Cleared(t)
             /\ Cleared(t)' = Size(t) - Cardinality(Older(rows', task[t].target))
  <2>1. Size(t)' = Size(t)
    BY DEF Size, Reportable
  <2>2. rows \in SUBSET Rows /\ rows' \in SUBSET Rows
    BY DEF IInv, TypeOK
  <2>3. Left(t)' \in SUBSET Left(t)
    BY DEF Left, Older
  <2>4. Left(t) \in SUBSET Rows /\ IsFiniteSet(Left(t))
    BY <2>2, OlderRows, LogSize DEF Left
  <2>5. Cardinality(Left(t)') <= Cardinality(Left(t)) /\ Cardinality(Left(t)') \in Nat
    BY <2>3, <2>4, FS_Subset, LogSize
  <2>6. Size(t) \in Nat /\ Cardinality(Left(t)) \in Nat /\ Cleared(t) \in Nat
    BY Shares
  <2>7. /\ Cleared(t) = Size(t) - Cardinality(Left(t))
        /\ Cleared(t)' = Size(t) - Cardinality(Left(t)')
    BY <2>1 DEF Cleared
  <2>8. Size(t) - Cardinality(Left(t)') >= Size(t) - Cardinality(Left(t))
    BY <2>5, <2>6
  <2>9. Cleared(t)' \in Nat /\ Cleared(t)' >= Cleared(t)
    <3>1. PICK c \in Nat : c = Size(t) - Cardinality(Left(t)')
      BY <2>5, <2>6, <2>7, <2>8
    <3> QED
      BY <2>7, <2>8, <3>1
  <2>10. Left(t)' = Older(rows', task[t].target)
    BY DEF Left
  <2> QED
    BY <2>1, <2>3, <2>7, <2>9, <2>10
<1>4. \A t \in Tasks : RowOK(t)'
  <2> SUFFICES ASSUME NEW t \in Tasks
               PROVE  RowOK(t)'
    OBVIOUS
  <2>1. RowOK(t) /\ task[t].state.processed \in Nat /\ Cleared(t) \in Nat
    BY Types, Shares DEF IInv
  <2>2. Counts(t, task[t].state)'
    BY <1>3, <2>1 DEF RowOK, Counts
  <2> QED
    BY <1>3, <2>1, <2>2 DEF RowOK
<1>5. \A v \in Workers : WorkerOK(v)'
  <2> SUFFICES ASSUME NEW v \in Workers
               PROVE  WorkerOK(v)'
    OBVIOUS
  <2>1. /\ WorkerOK(v) /\ worker[v].state.processed \in Nat /\ worker[v].task \in Tasks
        /\ Cleared(worker[v].task) \in Nat /\ g.task \in Tasks
    BY Types, Shares DEF IInv, Goroutine
  <2>2. CASE v = w
    <3>1. /\ worker'[v] = g /\ task' = task
          /\ Size(g.task)' = Size(g.task)
          /\ Cleared(g.task)' = Size(g.task) - Cardinality(Older(rows', task[g.task].target))
      BY <1>2, <1>3, <2>1, <2>2
    <3>2. Counts(worker[v].task, worker[v].state)'
      BY <3>1 DEF Counts, Measured
    <3>3. /\ worker'[v].ids \subseteq Older(Rows, Target(v)')
          /\ SawNone(v)' => Older(rows', Target(v)') = {}
      BY <3>1 DEF Measured, Target, SawNone
    <3>4. Working(v)' => task'[worker'[v].task].status # "absent"
      BY <2>1, <2>2, <3>1 DEF Working, WorkerOK
    <3> QED
      BY <3>1, <3>2, <3>3, <3>4 DEF WorkerOK, OldRows
  <2>3. CASE v # w
    <3>1. /\ worker'[v] = worker[v] /\ task' = task
          /\ Size(worker[v].task)' = Size(worker[v].task)
          /\ Cleared(worker[v].task)' >= Cleared(worker[v].task)
          /\ Cleared(worker[v].task)' \in Nat
      BY <1>2, <1>3, <2>1, <2>3
    <3>2. Counts(worker[v].task, worker[v].state)'
      BY <2>1, <3>1 DEF WorkerOK, Counts
    <3>3. OldRows(v)' \in SUBSET OldRows(v) /\ Target(v)' = Target(v)
      BY <3>1 DEF OldRows, Target, Older
    <3> QED
      BY <2>1, <3>1, <3>2, <3>3 DEF WorkerOK, Working, SawNone
  <2> QED
    BY <2>2, <2>3
<1>6. OneAtATime'
  <2>1. CASE rows' = rows
    BY <2>1 DEF IInv, OneAtATime
  <2>2. CASE rows' # rows
    <3>1. /\ worker[w].task \in Tasks /\ task[worker[w].task].status # "absent"
          /\ worker[w].task = 1 \/ 1 < worker[w].task
      BY <2>2, Types, CleanupAssumption DEF IInv, WorkerOK, Tasks
    <3>2. task[1].status # "absent"
      BY <3>1, Types DEF IInv, OneAtATime, Terminal
    <3> QED
      BY <3>2 DEF IInv, OneAtATime
  <2> QED
    BY <2>1, <2>2
<1>7. \A v \in Workers : Working(v)' =>
        /\ Working(v) /\ worker'[v].task = worker[v].task /\ worker'[v].runner = worker[v].runner
        /\ worker[v].state.processed <= worker'[v].state.processed
        /\ Holds(v)' <=> Holds(v)
  <2> SUFFICES ASSUME NEW v \in Workers, Working(v)'
               PROVE  /\ Working(v) /\ worker'[v].task = worker[v].task
                      /\ worker'[v].runner = worker[v].runner
                      /\ worker[v].state.processed <= worker'[v].state.processed
                      /\ Holds(v)' <=> Holds(v)
    OBVIOUS
  <2>1. worker[v].state.processed \in Nat
    BY Types
  <2>2. CASE v = w
    BY <1>2, <2>2 DEF Working, Holds
  <2>3. CASE v # w
    BY <1>2, <2>1, <2>3 DEF Working, Holds
  <2> QED
    BY <2>2, <2>3
<1>8. OneHolder'
  <2>1. ASSUME NEW v \in Workers, Working(v)', Holds(v)', worker'[v].task \notin doubled'
        PROVE  task'[worker'[v].task].state.processed <= worker'[v].state.processed
    <3>1. task[worker[v].task].state.processed <= worker[v].state.processed
      BY <1>7, <2>1 DEF IInv, OneHolder
    <3>2. /\ task[worker[v].task].state.processed \in Nat
          /\ worker[v].state.processed \in Nat /\ worker'[v].state.processed \in Nat
      <4>1. worker'[v] \in Goroutine
        BY <1>1 DEF TypeOK
      <4> QED
        BY <4>1, Types DEF Goroutine, Progress
    <3> QED
      BY <1>7, <2>1, <3>1, <3>2
  <2>2. ASSUME NEW v \in Workers, NEW u \in Workers, Working(v)', Working(u)', v # u,
               worker'[v].task = worker'[u].task, worker'[v].runner = worker'[u].runner
        PROVE  worker'[v].task \in doubled'
    BY <1>7, <2>2 DEF IInv, OneHolder
  <2> QED
    BY <2>1, <2>2 DEF OneHolder
<1>9. Size(1)' = Size(1)
  BY DEF Size, Reportable
<1>10. FirstWhole'
  <2> SUFFICES ASSUME 1 \notin doubled
               PROVE  /\ task[1].status \notin Terminal =>
                           /\ Cleared(1)' # 0 => task[1].state.total = Size(1)
                           /\ \A v \in Workers : Working(v)' /\ worker'[v].task = 1 =>
                                /\ worker'[v].pc \in {"pluck", "delete", "saveBatch"} =>
                                     task[1].state.total = Size(1)
                                /\ Holds(v)' =>
                                     /\ \/ worker'[v].state.total = Size(1)
                                        \/ /\ worker'[v].pc \in {"count", "fail"}
                                           /\ worker'[v].state.total = 0 /\ task[1].state.total = 0
                                     /\ SawNone(v)' => worker'[v].state.processed = Size(1)
    BY <1>9 DEF IInv, FirstWhole
  <2>1. SUFFICES ASSUME task[1].status \notin Terminal
                 PROVE  /\ Cleared(1)' # 0 => task[1].state.total = Size(1)
                        /\ \A v \in Workers : Working(v)' /\ worker'[v].task = 1 =>
                             /\ worker'[v].pc \in {"pluck", "delete", "saveBatch"} =>
                                  task[1].state.total = Size(1)
                             /\ Holds(v)' =>
                                  /\ \/ worker'[v].state.total = Size(1)
                                     \/ /\ worker'[v].pc \in {"count", "fail"}
                                        /\ worker'[v].state.total = 0 /\ task[1].state.total = 0
                                  /\ SawNone(v)' => worker'[v].state.processed = Size(1)
    OBVIOUS
  <2>2. Cleared(1)' # 0 => task[1].state.total = Size(1)
    <3>1. CASE rows' = rows
      <4>1. Cleared(1)' = Cleared(1)
        BY <1>9, <3>1 DEF Cleared, Left
      <4> QED
        BY <2>1, <4>1 DEF IInv, FirstWhole
    <3>2. CASE rows' # rows
      <4>1. worker[w].task \in Tasks /\ task[worker[w].task].status # "absent"
        BY <3>2, Types DEF IInv, WorkerOK
      <4>2. worker[w].task = 1
        <5>1. worker[w].task = 1 \/ 1 < worker[w].task
          BY <4>1, CleanupAssumption DEF Tasks
        <5> QED
          BY <2>1, <4>1, <5>1, Types DEF IInv, OneAtATime
      <4> QED
        BY <2>1, <3>2, <4>2 DEF IInv, FirstWhole
    <3> QED
      BY <3>1, <3>2
  <2>3. ASSUME NEW v \in Workers, Working(v)', worker'[v].task = 1
        PROVE  /\ worker'[v].pc \in {"pluck", "delete", "saveBatch"} => task[1].state.total = Size(1)
               /\ Holds(v)' =>
                    /\ \/ worker'[v].state.total = Size(1)
                       \/ /\ worker'[v].pc \in {"count", "fail"}
                          /\ worker'[v].state.total = 0 /\ task[1].state.total = 0
                    /\ SawNone(v)' => worker'[v].state.processed = Size(1)
    <3>1. Working(v) /\ worker[v].task = 1 /\ (Holds(v)' <=> Holds(v))
      BY <1>7, <2>3
    <3>2. CASE v = w
      BY <1>2, <2>1, <2>3, <3>1, <3>2 DEF FirstKept, SawNone, Working
    <3>3. CASE v # w
      BY <1>2, <2>1, <3>1, <3>3 DEF IInv, FirstWhole, SawNone
    <3> QED
      BY <3>2, <3>3
  <2> QED
    BY <2>2, <2>3
<1> QED
  BY <1>1, <1>4, <1>5, <1>6, <1>8, <1>10 DEF IInv

(* Counting anew keeps what was counted, within the total. *)
LEMMA SyncedState ==
  ASSUME NEW s \in Progress, NEW n \in Count, NEW M \in Nat, M <= N,
         s.processed <= s.total, s.total <= M, s.processed <= M - n, n <= M
  PROVE  /\ Synced(s, n) \in Progress
         /\ Synced(s, n).processed <= Synced(s, n).total
         /\ Synced(s, n).total <= M
         /\ s.processed <= Synced(s, n).processed
         /\ Synced(s, n).processed <= M - n
         /\ s.total # 0 => Synced(s, n).total = s.total
         /\ s.total = 0 => Synced(s, n).total = n
         /\ s.total = M /\ n = 0 => Synced(s, n).processed = M
         /\ s.total = 0 => Synced(s, n).processed = 0
<1>1. s.total \in 0..N /\ s.processed \in 0..N /\ n \in 0..N /\ N \in Nat
  BY LogSize DEF Progress, Count, N
<1>2. CASE s.total = 0
  <2>1. Synced(s, n) = [total |-> n, processed |-> 0]
    BY <1>2 DEF Synced
  <2>2. Synced(s, n).total = n /\ Synced(s, n).processed = 0
    BY <2>1
  <2>3. Synced(s, n) \in Progress
    BY <1>1, <2>1 DEF Progress, Count, N
  <2>4. s.processed = 0
    BY <1>1, <1>2
  <2> QED
    BY <1>1, <1>2, <2>2, <2>3, <2>4
<1>3. CASE s.total # 0
  <2> DEFINE m == Max({s.processed, s.total - n})
  <2>1. m \in {s.processed, s.total - n} /\ m >= s.processed /\ m >= s.total - n
    <3>1. s.processed \in Int /\ s.total - n \in Int
      BY <1>1
    <3> QED
      BY <3>1, MaxPair
  <2>2. Synced(s, n) = [s EXCEPT !.processed = m]
    BY <1>3 DEF Synced
  <2> HIDE DEF m
  <2>3. m \in 0..N /\ m <= s.total /\ m <= M - n
    BY <1>1, <2>1
  <2>4. /\ Synced(s, n).total = s.total /\ Synced(s, n).processed = m
        /\ Synced(s, n) \in Progress
    BY <2>2, <2>3 DEF Progress, Count, N
  <2> QED
    BY <1>1, <1>3, <2>1, <2>3, <2>4
<1> QED
  BY <1>2, <1>3

LEMMA CountStep ==
  ASSUME IInv, NEW w \in Workers, CountOldLog(w)
  PROVE  IInv'
<1> DEFINE k == worker[w].task
           n == Cardinality(OldRows(w))
           s == Synced(worker[w].state, n)
           g == [worker[w] EXCEPT !.pc = "saveCount", !.progressed = FALSE,
                                  !.remaining = n, !.state = Synced(worker[w].state, n)]
<1>1. /\ worker[w].pc = "count" /\ worker[w] \in Goroutine /\ worker[w].state \in Progress
      /\ worker[w].state.processed \in Nat /\ k \in Tasks
  BY Types DEF CountOldLog, Goroutine
<1>2. /\ OldRows(w) = Left(k) /\ n = Cardinality(Left(k)) /\ Left(k) \in SUBSET Rows
      /\ n \in Nat /\ n \in Count /\ n <= Size(k) /\ Size(k) \in Nat /\ Size(k) <= N
      /\ Cleared(k) = Size(k) - n /\ (n = 0 <=> OldRows(w) = {}) /\ (n = 0 => Cleared(k) = Size(k))
  <2>1. OldRows(w) = Left(k)
    BY DEF OldRows, Left, Target
  <2>2. /\ Size(k) \in Nat /\ Size(k) <= N /\ n \in Nat /\ Cleared(k) \in Nat
        /\ Left(k) \in SUBSET Rows /\ Cleared(k) = Size(k) - n
    BY <1>1, <2>1, Shares DEF Cleared
  <2>3. n = 0 <=> OldRows(w) = {}
    BY <2>1, <2>2, LogSize
  <2>4. n <= Size(k) /\ (n = 0 => Cleared(k) = Size(k))
    BY <2>2
  <2>5. n \in Count
    BY <2>2, <2>4, LogSize DEF Count, N
  <2> QED
    BY <2>1, <2>2, <2>3, <2>4, <2>5
<1>3. /\ worker[w].state.processed <= worker[w].state.total
      /\ worker[w].state.total <= Size(k) /\ worker[w].state.processed <= Size(k) - n
  BY <1>2 DEF IInv, WorkerOK, Counts
<1>4. /\ worker' = [worker EXCEPT ![w] = g]
      /\ UNCHANGED <<task, operator, up, pass, slow, doubled, rows, receipts, faults>>
  BY DEF CountOldLog, outside, IInv, TypeOK
<1>5. /\ s \in Progress /\ s.processed <= s.total /\ s.total <= Size(k)
      /\ worker[w].state.processed <= s.processed /\ s.processed <= Size(k) - n
      /\ worker[w].state.total # 0 => s.total = worker[w].state.total
      /\ worker[w].state.total = 0 => s.total = n /\ s.processed = 0
      /\ worker[w].state.total = Size(k) /\ n = 0 => s.processed = Size(k)
  <2> DEFINE e == worker[w].state
             M == Size(k)
  <2>1. /\ e \in Progress /\ n \in Count /\ M \in Nat /\ M <= N /\ e.processed <= e.total
        /\ e.total <= M /\ e.processed <= M - n /\ n <= M
    BY <1>1, <1>2, <1>3
  <2> HIDE DEF e, n, M
  <2>2. /\ Synced(e, n) \in Progress
        /\ Synced(e, n).processed <= Synced(e, n).total /\ Synced(e, n).total <= M
        /\ e.processed <= Synced(e, n).processed /\ Synced(e, n).processed <= M - n
        /\ e.total # 0 => Synced(e, n).total = e.total
        /\ e.total = 0 => Synced(e, n).total = n /\ Synced(e, n).processed = 0
        /\ e.total = M /\ n = 0 => Synced(e, n).processed = M
    BY <2>1, SyncedState
  <2> QED
    BY <2>2 DEF e, M
<1> HIDE DEF s, n
<1>6. /\ g \in Goroutine /\ g.pc = "saveCount" /\ g.task = k
      /\ g.runner = worker[w].runner /\ g.remaining = n /\ g.state = s /\ g.stray = worker[w].stray
      /\ g.ids = worker[w].ids
  <2>1. g = [worker[w] EXCEPT !.pc = "saveCount", !.progressed = FALSE,
                              !.remaining = n, !.state = s]
    BY DEF s
  <2> HIDE DEF g
  <2> QED
    BY <1>1, <1>2, <1>5, <2>1 DEF Goroutine
<1>7. worker[w].stray = 0 /\ worker[w].ids \subseteq Older(Rows, task[k].target)
  BY <1>1 DEF IInv, WorkerOK, Target
<1> HIDE DEF g
<1>8. Measured(g, rows')
  <2>1. Older(rows', task[k].target) = Left(k)
    BY <1>4 DEF Left
  <2> QED
    BY <1>2, <1>5, <1>6, <1>7, <2>1 DEF Measured
<1>9. FoundNone(g) => n = 0 /\ Older(rows', task[g.task].target) = {}
  <2>1. FoundNone(g) => n = 0
    BY <1>6 DEF FoundNone
  <2> QED
    BY <1>2, <1>4, <1>6, <2>1 DEF Left
<1>10. ASSUME k = 1
       PROVE  FirstKept(w, g)
  <2> SUFFICES ASSUME 1 \notin doubled, task[1].status \notin Terminal, Holds(w)
               PROVE  g.state.total = Size(1) /\ (FoundNone(g) => g.state.processed = Size(1))
    BY <1>6 DEF FirstKept
  <2>1. /\ worker[w].state.total = Size(1)
           \/ (worker[w].state.total = 0 /\ task[1].state.total = 0)
        /\ Cleared(1) # 0 => task[1].state.total = Size(1)
    BY <1>1, <1>10 DEF IInv, FirstWhole, Working
  <2>2. CASE worker[w].state.total # 0
    <3>1. s.total = Size(1) /\ (n = 0 => s.processed = Size(1))
      BY <1>5, <1>10, <2>1, <2>2
    <3> QED
      BY <1>6, <1>9, <3>1
  <2>3. CASE worker[w].state.total = 0
    <3>1. Size(1) = 0 \/ Cleared(1) = 0
      BY <2>1, <2>3
    <3>2. n = Size(1)
      BY <1>2, <1>10, <3>1
    <3>3. s.total = n /\ s.processed = 0
      BY <1>5, <2>3
    <3> QED
      BY <1>6, <1>9, <3>2, <3>3
  <2> QED
    BY <2>2, <2>3
<1>11. /\ receipts' \in SUBSET Receipts /\ faults' \in 0..MaxFaults
       /\ rows' \in SUBSET rows /\ rows' = rows
  BY <1>4 DEF IInv, TypeOK
<1>12. worker[w].state.processed <= g.state.processed /\ Working(w)
  BY <1>1, <1>5, <1>6 DEF Working
<1> QED
  BY <1>4, <1>6, <1>7, <1>8, <1>9, <1>10, <1>11, <1>12, GoroutineStep

(* An empty batch: recount or fail. *)
LEMMA EmptyBatchType ==
  ASSUME NEW w \in Workers, worker[w] \in Goroutine
  PROVE  LET g == EmptyBatch(w)
         IN  /\ g \in Goroutine /\ g.pc \in {"count", "fail"} /\ g.task = worker[w].task
             /\ g.runner = worker[w].runner /\ g.state = worker[w].state /\ g.stray = worker[w].stray
             /\ g.ids = {}
<1> DEFINE label == IF worker[w].progressed THEN "count" ELSE "fail"
           g == [worker[w] EXCEPT !.pc = label, !.ids = {}]
<1>1. label \in {"count", "fail"}
  OBVIOUS
<1>2. EmptyBatch(w) = g
  BY DEF EmptyBatch
<1> HIDE DEF label
<1>3. /\ g \in Goroutine /\ g.pc = label /\ g.task = worker[w].task
      /\ g.runner = worker[w].runner /\ g.state = worker[w].state /\ g.stray = worker[w].stray
      /\ g.ids = {}
  BY <1>1 DEF Goroutine
<1> QED
  BY <1>1, <1>2, <1>3

LEMMA ReceiptsType ==
  ASSUME IInv
  PROVE  /\ receipts \in SUBSET Receipts /\ faults \in 0..MaxFaults
         /\ \A I : receipts \ I \in SUBSET Receipts
BY DEF IInv, TypeOK

(* A goroutine that goes on with its counters as they are. *)
LEMMA OnwardStep ==
  ASSUME IInv, NEW w \in Workers, Working(w), NEW g \in Goroutine,
         g.pc # "idle", g.task = worker[w].task, g.runner = worker[w].runner,
         g.state = worker[w].state, g.stray = 0,
         FoundNone(g) => SawNone(w),
         g.pc \in {"pluck", "delete", "saveBatch"} => worker[w].pc \in {"pluck", "delete", "saveBatch"},
         worker[w].pc \in {"count", "fail"} => g.pc \in {"count", "fail"},
         worker' = [worker EXCEPT ![w] = g],
         UNCHANGED <<task, operator, up, pass, slow, doubled>>,
         g.ids \subseteq Older(Rows, Target(w)),
         rows' = rows, receipts' \in SUBSET Receipts, faults' \in 0..MaxFaults
  PROVE  IInv'
<1>1. worker[w].state.processed \in Nat /\ worker[w].task \in Tasks
  BY Types
<1>2. Older(rows', task[g.task].target) = Left(worker[w].task)
  BY DEF Left
<1>3. Measured(g, rows')
  BY <1>2 DEF Measured, IInv, WorkerOK, Counts, Cleared, Target
<1>4. FoundNone(g) => Older(rows', task[g.task].target) = {}
  BY DEF IInv, WorkerOK, OldRows, Target
<1>5. worker[w].task = 1 => FirstKept(w, g)
  BY DEF IInv, FirstWhole, FirstKept, SawNone
<1>6. worker[w].state.processed <= g.state.processed /\ rows' \in SUBSET rows
  BY <1>1
<1> QED
  BY <1>3, <1>4, <1>5, <1>6, GoroutineStep

LEMMA PluckStep ==
  ASSUME IInv, NEW w \in Workers, Pluck(w)
  PROVE  IInv'
<1>1. /\ worker[w].pc = "pluck" /\ worker[w] \in Goroutine /\ rows \in SUBSET Rows
      /\ receipts' \in SUBSET Receipts
      /\ UNCHANGED <<task, operator, up, pass, slow, doubled, rows, faults>>
  BY Types, ReceiptsType DEF Pluck, outside
<1>2. worker[w].stray = 0
  BY <1>1 DEF IInv, WorkerOK
<1>3. CASE OldRows(w) = {}
  <2> DEFINE g == EmptyBatch(w)
  <2>1. worker' = [worker EXCEPT ![w] = g]
    BY <1>3 DEF Pluck
  <2>2. /\ g \in Goroutine /\ g.pc \in {"count", "fail"} /\ g.task = worker[w].task
        /\ g.runner = worker[w].runner /\ g.state = worker[w].state /\ g.stray = worker[w].stray
        /\ g.ids = {}
    BY <1>1, EmptyBatchType
  <2> HIDE DEF g
  <2> QED
    BY <1>1, <1>2, <2>1, <2>2, OnwardStep, ReceiptsType DEF FoundNone, Working
<1>4. CASE OldRows(w) # {}
  <2> DEFINE ids == Batch(rows, Target(w))
             g == [worker[w] EXCEPT !.pc = "delete", !.ids = ids]
  <2>1. worker' = [worker EXCEPT ![w] = g]
    BY <1>4 DEF Pluck, IInv, TypeOK
  <2>2. ids \in SUBSET Rows /\ ids \subseteq Older(Rows, Target(w))
    BY <1>1 DEF Batch, Older
  <2> HIDE DEF ids
  <2>3. /\ g \in Goroutine /\ g.pc = "delete" /\ g.task = worker[w].task
        /\ g.runner = worker[w].runner /\ g.state = worker[w].state /\ g.stray = worker[w].stray
        /\ g.ids = ids
    BY <1>1, <2>2 DEF Goroutine
  <2> HIDE DEF g
  <2> QED
    BY <1>1, <1>2, <2>1, <2>2, <2>3, OnwardStep, ReceiptsType DEF FoundNone, Working
<1> QED
  BY <1>3, <1>4

LEMMA DeleteReceiptsStep ==
  ASSUME IInv, NEW w \in Workers, DeleteReceipts(w)
  PROVE  IInv'
<1> DEFINE more == Cardinality(OldReceipts(w)) >= BatchSize
           g == [worker[w] EXCEPT !.pc = "saveReceipts", !.more = more]
<1>1. /\ worker[w].pc = "receipts" /\ worker[w] \in Goroutine
      /\ receipts' \in SUBSET Receipts
      /\ UNCHANGED <<task, operator, up, pass, slow, doubled, rows, faults>>
  BY Types, ReceiptsType DEF DeleteReceipts, outside
<1>2. worker[w].stray = 0 /\ worker[w].ids \subseteq Older(Rows, Target(w))
  BY <1>1 DEF IInv, WorkerOK
<1>3. worker' = [worker EXCEPT ![w] = g]
  BY DEF DeleteReceipts, IInv, TypeOK
<1>4. more \in BOOLEAN
  OBVIOUS
<1> HIDE DEF more
<1>5. /\ g \in Goroutine /\ g.pc = "saveReceipts" /\ g.task = worker[w].task
      /\ g.runner = worker[w].runner /\ g.state = worker[w].state /\ g.stray = worker[w].stray
      /\ g.ids = worker[w].ids
  BY <1>1, <1>4 DEF Goroutine
<1> HIDE DEF g
<1> QED
  BY <1>1, <1>2, <1>3, <1>5, OnwardStep, ReceiptsType DEF FoundNone, SawNone, Working

(* A batch counts the rows it deleted, and knows no more of them. *)
LEMMA DeleteStep ==
  ASSUME IInv, NEW w \in Workers, Delete(w)
  PROVE  IInv'
<1> DEFINE k == worker[w].task
           n == Cardinality(worker[w].ids \cap rows)
<1>1. /\ worker[w].pc = "delete" /\ worker[w] \in Goroutine /\ rows \in SUBSET Rows
      /\ worker[w].ids \in SUBSET Rows /\ rows' = rows \ worker[w].ids
      /\ receipts' \in SUBSET Receipts /\ faults' \in 0..MaxFaults
      /\ UNCHANGED <<task, operator, up, pass, slow, doubled>>
  <2>1. worker[w] \in Goroutine
    BY Types
  <2> QED
    BY <2>1, Types, ReceiptsType DEF Delete, outside, Goroutine
<1>2. worker[w].stray = 0 /\ worker[w].ids \subseteq Older(Rows, task[k].target)
  BY <1>1 DEF IInv, WorkerOK, Target
<1>3. /\ k \in Tasks /\ Size(k) \in Nat /\ Size(k) <= N /\ N \in Nat
      /\ rows' \in SUBSET rows /\ Left(k) \in SUBSET Rows
      /\ worker[w].ids \cap rows = worker[w].ids \cap Left(k)
      /\ Older(rows', task[k].target) = Left(k) \ worker[w].ids
  <2>1. k \in Tasks /\ N \in Nat
    BY Types
  <2>2. worker[w].ids \cap rows = worker[w].ids \cap Left(k)
    BY <1>1, <1>2 DEF Left, Older
  <2>3. Older(rows', task[k].target) = Left(k) \ worker[w].ids
    BY <1>1 DEF Left, Older
  <2> QED
    BY <1>1, <2>1, <2>2, <2>3, Shares
<1>4. /\ n \in Nat /\ n <= Cardinality(Left(k)) /\ Cardinality(Left(k)) \in Nat
      /\ Cardinality(Older(rows', task[k].target)) = Cardinality(Left(k)) - n
      /\ Cleared(k) = Size(k) - Cardinality(Left(k)) /\ Cleared(k) \in Nat
  <2>1. n = Cardinality(worker[w].ids \cap Left(k))
    BY <1>3
  <2>2. /\ Cardinality(Left(k) \ worker[w].ids) = Cardinality(Left(k)) - n
        /\ n \in Nat /\ n <= Cardinality(Left(k))
    <3> DEFINE L == Left(k)
               I == worker[w].ids
    <3>1. L \in SUBSET Rows /\ I \in SUBSET Rows /\ n = Cardinality(I \cap L)
      BY <1>1, <1>3, <2>1
    <3> HIDE DEF L, I, n
    <3>2. /\ Cardinality(L \ I) = Cardinality(L) - Cardinality(I \cap L)
          /\ Cardinality(I \cap L) \in Nat /\ Cardinality(I \cap L) <= Cardinality(L)
      BY <3>1, LogSize
    <3> QED
      BY <3>1, <3>2 DEF L, I
  <2> HIDE DEF n
  <2> QED
    BY <1>3, <2>2, Shares DEF Cleared
<1>5. n = 0 => rows' = rows
  <2>1. worker[w].ids \cap rows \in SUBSET Rows
    BY <1>1
  <2>2. n = 0 => worker[w].ids \cap rows = {}
    BY <2>1, LogSize
  <2> QED
    BY <1>1, <2>2
<1>6. CASE n = 0
  <2> DEFINE g == EmptyBatch(w)
  <2>1. worker' = [worker EXCEPT ![w] = g]
    BY <1>6 DEF Delete
  <2>2. /\ g \in Goroutine /\ g.pc \in {"count", "fail"} /\ g.task = worker[w].task
        /\ g.runner = worker[w].runner /\ g.state = worker[w].state /\ g.stray = worker[w].stray
        /\ g.ids = {}
    BY <1>1, EmptyBatchType
  <2> HIDE DEF g
  <2> QED
    BY <1>1, <1>2, <1>5, <1>6, <2>1, <2>2, OnwardStep DEF FoundNone, Working
<1>7. CASE n # 0
  <2> DEFINE s == worker[w].state
             done == s.processed + n
             total == Max({s.total, done})
             left == Max({worker[w].remaining - n, 0})
             stray == IF Holds(w) THEN 0 ELSE Min({worker[w].stray + 1, 2})
             st == [total |-> total, processed |-> done]
             g == [worker[w] EXCEPT !.pc = "saveBatch", !.ids = {}, !.progressed = TRUE,
                                    !.state = st, !.remaining = left, !.stray = stray]
  <2>1. worker' = [worker EXCEPT ![w] = g]
    BY <1>7 DEF Delete, Counted
  <2>2. /\ s.total \in Nat /\ s.processed \in Nat /\ worker[w].remaining \in 0..N
        /\ s.processed <= s.total /\ s.total <= Size(k) /\ s.processed <= Cleared(k)
    BY Types DEF IInv, WorkerOK, Counts, Count, N
  <2>3. /\ done \in 0..N /\ s.processed <= done /\ done <= Size(k)
        /\ done <= Size(k) - Cardinality(Older(rows', task[k].target))
    <3> DEFINE c == Cardinality(Left(k))
               m == Size(k)
               o == Cardinality(Older(rows', task[k].target))
    <3>1. /\ c \in Nat /\ m \in Nat /\ n \in Nat /\ n <= c /\ o = c - n /\ m <= N /\ N \in Nat
          /\ s.processed \in Nat /\ s.processed <= m - c
      BY <1>3, <1>4, <2>2
    <3> HIDE DEF c, m, o, n
    <3>2. /\ s.processed + n \in 0..N /\ s.processed <= s.processed + n
          /\ s.processed + n <= m /\ s.processed + n <= m - o
      BY <3>1
    <3> QED
      BY <3>2 DEF m, o
  <2>4. /\ total \in 0..N /\ done <= total /\ total <= Size(k)
        /\ s.total = Size(k) => total = Size(k)
    <3>1. s.total \in Int /\ done \in Int
      BY <2>2, <2>3
    <3>2. total \in {s.total, done} /\ total >= s.total /\ total >= done
      BY <3>1, MaxPair
    <3> HIDE DEF total, done
    <3> QED
      BY <1>3, <2>2, <2>3, <3>2
  <2>5. left \in 0..N
    <3> DEFINE rest == worker[w].remaining - n
    <3>1. rest \in Int /\ rest <= N
      BY <1>3, <1>4, <2>2
    <3> HIDE DEF rest
    <3>2. Max({rest, 0}) \in {rest, 0} /\ Max({rest, 0}) >= 0
      BY <3>1, MaxPair
    <3> QED
      BY <1>3, <3>1, <3>2 DEF rest
  <2>6. stray \in {0, 1}
    <3>1. Min({1, 2}) \in {1, 2} /\ Min({1, 2}) <= 1
      BY MinPair
    <3>2. Min({1, 2}) = 1
      BY <3>1
    <3> QED
      BY <1>2, <3>2
  <2> HIDE DEF total, done, left, stray
  <2>7. /\ st \in Progress /\ st.total = total /\ st.processed = done
        /\ left \in Count /\ stray \in 0..2
    BY <2>3, <2>4, <2>5, <2>6 DEF Progress, Count, N
  <2> HIDE DEF st
  <2>8. /\ g \in Goroutine /\ g.pc = "saveBatch" /\ g.task = worker[w].task
        /\ g.runner = worker[w].runner /\ g.state.total = total /\ g.state.processed = done
        /\ g.stray = stray /\ g.ids = {}
    <3>1. g \in Goroutine
      BY <1>1, <2>7 DEF Goroutine
    <3>2. /\ g.pc = "saveBatch" /\ g.task = worker[w].task /\ g.runner = worker[w].runner
          /\ g.state = st /\ g.stray = stray /\ g.ids = {}
      BY <1>1 DEF Goroutine
    <3> QED
      BY <2>7, <3>1, <3>2
  <2> HIDE DEF g
  <2>9. k = 1 => FirstKept(w, g)
    BY <1>1, <2>4, <2>8 DEF IInv, FirstWhole, FirstKept, FoundNone, Working
  <2>10. ~FoundNone(g) /\ Working(w)
    BY <1>1, <2>8 DEF FoundNone, Working
  <2>11. Measured(g, rows')
    BY <2>3, <2>4, <2>8 DEF Measured
  <2>12. worker[w].state.processed <= g.state.processed
    BY <2>3, <2>8
  <2> HIDE DEF s
  <2> QED
    BY <1>1, <1>3, <2>1, <2>6, <2>8, <2>9, <2>10, <2>11, <2>12, GoroutineStep
<1> QED
  BY <1>6, <1>7

(* A goroutine that returns. *)
LEMMA ReturnStep ==
  ASSUME IInv, NEW w \in Workers, worker' = [worker EXCEPT ![w] = Idle],
         UNCHANGED <<task, operator, up, pass, slow, doubled, rows, receipts>>,
         faults' \in 0..MaxFaults
  PROVE  IInv'
<1>1. Idle \in Goroutine /\ Idle.pc = "idle" /\ Idle.stray = 0 /\ Idle.task \in Tasks
  BY Records, Types
<1>2. Measured(Idle, rows')
  <2>1. Older(rows', task[Idle.task].target) = Left(Idle.task)
    BY DEF Left
  <2>2. Size(Idle.task) \in Nat /\ Cleared(Idle.task) \in Nat
    BY <1>1, Shares
  <2> QED
    BY <2>1, <2>2, Records DEF Measured, Cleared
<1>3. ~FoundNone(Idle)
  BY <1>1 DEF FoundNone
<1> QED
  BY <1>1, <1>2, <1>3, GoroutineStep, ReceiptsType

LEMMA DatabaseErrorStep ==
  ASSUME IInv, NEW w \in Workers, DatabaseError(w)
  PROVE  IInv'
<1>1. /\ Working(w) /\ worker[w] \in Goroutine /\ faults' \in 0..MaxFaults
      /\ UNCHANGED <<task, operator, up, pass, slow, doubled, rows, receipts>>
  BY Types, CleanupAssumption DEF DatabaseError, outside, IInv, TypeOK
<1>2. CASE worker[w].pc \in {"count", "pluck", "delete", "receipts"}
  <2> DEFINE g == [worker[w] EXCEPT !.pc = "fail"]
  <2>1. worker' = [worker EXCEPT ![w] = g]
    BY <1>2 DEF DatabaseError, IInv, TypeOK
  <2>2. /\ g \in Goroutine /\ g.pc = "fail" /\ g.task = worker[w].task
        /\ g.runner = worker[w].runner /\ g.state = worker[w].state /\ g.stray = worker[w].stray
        /\ g.ids = worker[w].ids
    BY <1>1 DEF Goroutine
  <2>3. worker[w].stray = 0 /\ worker[w].ids \subseteq Older(Rows, Target(w))
    BY <1>2 DEF IInv, WorkerOK
  <2> HIDE DEF g
  <2> QED
    BY <1>1, <2>1, <2>2, <2>3, OnwardStep, ReceiptsType DEF FoundNone
<1>3. CASE worker[w].pc \notin {"count", "pluck", "delete", "receipts"}
  <2>1. worker' = [worker EXCEPT ![w] = Idle]
    BY <1>3 DEF DatabaseError, IInv, TypeOK
  <2> QED
    BY <1>1, <2>1, ReturnStep
<1> QED
  BY <1>2, <1>3

(* A goroutine that still holds the task saves its counters and goes on.   *)
LEMMA HeldSave ==
  ASSUME IInv, NEW w \in Workers, Working(w), Holds(w),
         worker[w].pc \in {"saveCount", "saveBatch", "saveReceipts"},
         NEW next \in {"receipts", "pluck", "count", "finish"},
         next \in {"receipts", "finish"} => SawNone(w), Written(w, next)
  PROVE  IInv'
<1> DEFINE k == worker[w].task
           s == worker[w].state
           row == [task[k] EXCEPT !.state = s, !.lease = "held"]
           g == [worker[w] EXCEPT !.pc = next, !.stray = 0]
<1>1. /\ worker[w] \in Goroutine /\ k \in Tasks /\ task[k] \in TaskRow /\ s \in Progress
      /\ task[k].status = "running" /\ task[k].lockedBy = worker[w].runner
  <2>1. worker[w] \in Goroutine
    BY Types
  <2> QED
    BY <2>1, Types DEF Goroutine, Holds
<1>2. UNCHANGED <<operator, up, pass, slow, doubled, rows, receipts, faults>>
  BY DEF Written, outside
<1>3. task' = [task EXCEPT ![k] = row]
  <2>1. task' = [task EXCEPT ![k].state = s, ![k].lease = "held"]
    BY DEF Written
  <2>2. task \in [Tasks -> TaskRow]
    BY DEF IInv, TypeOK
  <2>3. task' = [[task EXCEPT ![k] = [task[k] EXCEPT !.state = s]]
                   EXCEPT ![k] = [[task[k] EXCEPT !.state = s] EXCEPT !.lease = "held"]]
    BY <1>1, <2>1, <2>2
  <2> QED
    BY <1>1, <2>2, <2>3
<1>4. worker' = [worker EXCEPT ![w] = g]
  BY DEF Written, IInv, TypeOK
<1>5. row \in TaskRow /\ row.status = "running" /\ row.state = s
  BY <1>1 DEF TaskRow
<1>6. /\ row.deleted = task[k].deleted /\ row.lockedBy = task[k].lockedBy
      /\ row.target = task[k].target
  BY <1>1 DEF TaskRow
<1>7. row.key <=> task[k].key
  BY <1>1, Zenon DEF TaskRow
<1>8. /\ g \in Goroutine /\ g.pc = next /\ g.stray = 0
      /\ g.task = k /\ g.runner = worker[w].runner /\ g.state = s /\ g.ids = worker[w].ids
  <2> DEFINE moved == [worker[w] EXCEPT !.pc = next]
  <2>1. moved \in Goroutine
    BY <1>1 DEF Goroutine
  <2>2. g \in Goroutine
    <3>1. g = [moved EXCEPT !.stray = 0] /\ 0 \in 0..2
      OBVIOUS
    <3> HIDE DEF moved, g
    <3> QED
      BY <2>1, <3>1 DEF Goroutine
  <2>3. /\ g.pc = next /\ g.stray = 0 /\ g.task = k /\ g.runner = worker[w].runner
        /\ g.state = s /\ g.ids = worker[w].ids
    BY <1>1 DEF Goroutine
  <2> QED
    BY <2>2, <2>3
<1> HIDE DEF row, g
<1>9. /\ task' \in [Tasks -> TaskRow] /\ task'[k] = row
      /\ \A t \in Tasks : t # k => task'[t] = task[t]
  BY <1>1, <1>3, <1>5 DEF IInv, TypeOK
<1>10. /\ worker' \in [Workers -> Goroutine] /\ worker'[w] = g
       /\ \A v \in Workers : v # w => worker'[v] = worker[v]
  BY <1>4, <1>8 DEF IInv, TypeOK
<1>11. \A t \in Tasks : /\ task'[t].status = task[t].status
                        /\ task'[t].deleted = task[t].deleted
                        /\ task'[t].lockedBy = task[t].lockedBy
                        /\ task'[t].target = task[t].target
  BY <1>1, <1>5, <1>6, <1>9
<1>12. \A v \in Workers : /\ worker'[v].task = worker[v].task
                          /\ worker'[v].runner = worker[v].runner
                          /\ worker'[v].state = worker[v].state
                          /\ worker'[v].ids = worker[v].ids
                          /\ Working(v)' <=> Working(v)
                          /\ SawNone(v)' => SawNone(v)
                          /\ Holds(v)' <=> Holds(v)
  <2> SUFFICES ASSUME NEW v \in Workers
               PROVE  /\ worker'[v].task = worker[v].task
                      /\ worker'[v].runner = worker[v].runner
                      /\ worker'[v].state = worker[v].state
                      /\ worker'[v].ids = worker[v].ids
                      /\ Working(v)' <=> Working(v)
                      /\ SawNone(v)' => SawNone(v)
                      /\ Holds(v)' <=> Holds(v)
    OBVIOUS
  <2>1. /\ worker'[v].task = worker[v].task /\ worker'[v].runner = worker[v].runner
        /\ worker'[v].state = worker[v].state /\ worker'[v].ids = worker[v].ids
        /\ Working(v)' <=> Working(v)
        /\ SawNone(v)' => SawNone(v)
    BY <1>8, <1>10 DEF Working, SawNone, FoundNone
  <2>2. worker[v].task \in Tasks
    BY Types
  <2> QED
    BY <1>11, <2>1, <2>2 DEF Holds
<1>13. \A t \in Tasks : Size(t)' = Size(t) /\ Left(t)' = Left(t) /\ Cleared(t)' = Cleared(t)
  BY <1>2, <1>11, ShareKept
(* Nobody else holds the task, unless it was doubled. *)
<1>14. ASSUME NEW v \in Workers, Working(v), Holds(v), worker[v].task = k, k \notin doubled
       PROVE  v = w
  BY <1>1, <1>14 DEF IInv, OneHolder, Holds
<1>15. TypeOK'
  BY <1>2, <1>9, <1>10 DEF IInv, TypeOK
<1>16. \A t \in Tasks : RowOK(t)'
  <2> SUFFICES ASSUME NEW t \in Tasks
               PROVE  RowOK(t)'
    OBVIOUS
  <2>1. RowOK(t)
    BY DEF IInv
  <2>2. CASE t # k
    BY <1>2, <1>9, <1>13, <2>1, <2>2 DEF RowOK, Counts
  <2>3. CASE t = k
    <3>1. Counts(t, task[t].state)'
      BY <1>1, <1>5, <1>9, <1>13, <2>3 DEF IInv, WorkerOK, Counts
    <3>2. (task[t].key <=> task[t].status \in Active)'
      <4>1. task'[t].status = task[t].status
        BY <1>11
      <4>2. task'[t].key <=> task[t].key
        BY <1>7, <1>9, <2>3, Zenon
      <4> QED
        BY <2>1, <4>1, <4>2 DEF RowOK
    <3>3. (task[t].deleted <= Size(t))'
      BY <1>11, <1>13, <2>1 DEF RowOK
    <3>4. task'[t].status = "running"
      BY <1>5, <1>9, <2>3
    <3> QED
      BY <3>1, <3>2, <3>3, <3>4 DEF RowOK, Terminal
  <2> QED
    BY <2>2, <2>3
<1>17. \A v \in Workers : WorkerOK(v)'
  <2> SUFFICES ASSUME NEW v \in Workers
               PROVE  WorkerOK(v)'
    OBVIOUS
  <2>1. WorkerOK(v) /\ worker[v].task \in Tasks
    BY Types DEF IInv
  <2>2. worker'[v].stray # 0 => worker'[v].pc = "saveBatch" /\ worker'[v].stray = 1
    BY <1>8, <1>10, <2>1 DEF WorkerOK
  <2>3. Counts(worker[v].task, worker[v].state)'
    BY <1>12, <1>13, <2>1 DEF WorkerOK, Counts
  <2>4. Target(v)' = Target(v) /\ OldRows(v)' = OldRows(v)
    BY <1>2, <1>11, <1>12, <2>1 DEF Target, OldRows
  <2>5. Working(v)' => task'[worker'[v].task].status # "absent"
    BY <1>11, <1>12, <2>1 DEF WorkerOK
  <2> QED
    BY <1>12, <2>1, <2>2, <2>3, <2>4, <2>5 DEF WorkerOK
<1>18. OneAtATime'
  <2>1. 1 \in Tasks /\ \A r \in Runners : pass[r] # 0 => pass[r] \in Tasks
    BY Types DEF IInv, TypeOK
  <2> QED
    BY <1>2, <1>11, <2>1 DEF IInv, OneAtATime
<1>19. OneHolder'
  <2>1. ASSUME NEW v \in Workers, Working(v)', Holds(v)', worker'[v].task \notin doubled'
        PROVE  task'[worker'[v].task].state.processed <= worker'[v].state.processed
    <3>1. Working(v) /\ Holds(v) /\ worker[v].task \in Tasks
      BY <1>12, <2>1, Types
    <3>2. CASE worker[v].task = k
      <4>1. v = w
        BY <1>2, <1>12, <1>14, <2>1, <3>1, <3>2
      <4>2. s.processed \in Nat
        BY Types
      <4> QED
        BY <1>5, <1>8, <1>9, <1>10, <4>1, <4>2
    <3>3. CASE worker[v].task # k
      BY <1>2, <1>9, <1>12, <2>1, <3>1, <3>3 DEF IInv, OneHolder
    <3> QED
      BY <3>2, <3>3
  <2>2. ASSUME NEW v \in Workers, NEW u \in Workers, Working(v)', Working(u)', v # u,
               worker'[v].task = worker'[u].task, worker'[v].runner = worker'[u].runner
        PROVE  worker'[v].task \in doubled'
    BY <1>2, <1>12, <2>2 DEF IInv, OneHolder
  <2> QED
    BY <2>1, <2>2 DEF OneHolder
<1>20. FirstWhole'
  <2> SUFFICES ASSUME 1 \notin doubled
               PROVE  /\ task'[1].status \notin Terminal =>
                           /\ task'[1].state.total \in {0, Size(1)}
                           /\ Cleared(1) # 0 => task'[1].state.total = Size(1)
                           /\ \A v \in Workers : Working(v)' /\ worker'[v].task = 1 =>
                                /\ worker'[v].pc \in {"pluck", "delete", "saveBatch"} =>
                                     task'[1].state.total = Size(1)
                                /\ Holds(v)' =>
                                     /\ \/ worker'[v].state.total = Size(1)
                                        \/ /\ worker'[v].pc \in {"count", "fail"}
                                           /\ worker'[v].state.total = 0 /\ task'[1].state.total = 0
                                     /\ SawNone(v)' => worker'[v].state.processed = Size(1)
                      /\ task'[1].status = "succeeded" => task'[1].deleted = Size(1)
    BY <1>2, <1>13, Types DEF FirstWhole
  <2>1. 1 \in Tasks
    BY Types
  <2>2. CASE k # 1
    <3>1. task'[1] = task[1]
      BY <1>9, <2>1, <2>2
    <3>2. \A v \in Workers : worker'[v].task = 1 => worker'[v] = worker[v]
      BY <1>8, <1>10, <2>2
    <3> QED
      BY <1>12, <3>1, <3>2 DEF IInv, FirstWhole
  <2>3. CASE k = 1
    <3>1. s.total = Size(1) /\ (SawNone(w) => s.processed = Size(1))
      BY <1>1, <2>3 DEF IInv, FirstWhole, Terminal
    <3>2. task'[1].state.total = Size(1) /\ task'[1].status = "running"
      BY <1>5, <1>9, <2>3, <3>1
    <3>3. ASSUME NEW v \in Workers, Working(v)', worker'[v].task = 1, Holds(v)'
          PROVE  worker'[v].state.total = Size(1) /\ (SawNone(v)' => worker'[v].state.processed = Size(1))
      <4>1. v = w
        BY <1>12, <1>14, <2>3, <3>3
      <4> QED
        BY <1>8, <1>10, <1>12, <3>1, <4>1
    <3> QED
      BY <3>2, <3>3
  <2> QED
    BY <2>2, <2>3
<1> QED
  BY <1>15, <1>16, <1>17, <1>18, <1>19, <1>20 DEF IInv

LEMMA SaveStep ==
  ASSUME IInv, NEW w \in Workers, SaveCount(w) \/ SaveBatch(w) \/ SaveReceipts(w)
  PROVE  IInv'
<1>1. PICK next \in {"receipts", "pluck", "count", "finish"} :
        /\ worker[w].pc \in {"saveCount", "saveBatch", "saveReceipts"}
        /\ next \in {"receipts", "finish"} => SawNone(w)
        /\ Save(w, next)
  <2>1. CASE SaveCount(w)
    <3>1. CASE worker[w].remaining = 0
      BY <2>1, <3>1 DEF SaveCount, SawNone, FoundNone
    <3>2. CASE worker[w].remaining # 0
      BY <2>1, <3>2 DEF SaveCount
    <3> QED
      BY <3>1, <3>2
  <2>2. CASE SaveBatch(w)
    BY <2>2 DEF SaveBatch
  <2>3. CASE SaveReceipts(w)
    BY <2>3 DEF SaveReceipts, SawNone, FoundNone
  <2> QED
    BY <2>1, <2>2, <2>3
<1>2. Working(w)
  BY <1>1 DEF Working
<1>3. CASE Holds(w) /\ Written(w, next)
  BY <1>1, <1>2, <1>3, HeldSave
<1>4. CASE ~Holds(w) \/ GivesUp(w)
  <2>1. /\ worker' = [worker EXCEPT ![w] = Idle]
        /\ UNCHANGED <<task, operator, up, pass, slow, doubled, rows, receipts, faults>>
    BY <1>1, <1>4 DEF Save, Written, GivesUp, Unchanged, outside
  <2> QED
    BY <2>1, ReturnStep, ReceiptsType
<1> QED
  BY <1>1, <1>3, <1>4 DEF Save

(* The end of a task, by the goroutine that holds it. *)
LEMMA FinishStep ==
  ASSUME IInv, NEW w \in Workers, Finish(w)
  PROVE  IInv'
<1> DEFINE k == worker[w].task
           s == worker[w].state
           status == IF worker[w].pc = "finish" THEN "succeeded" ELSE "failed"
           deleted == IF worker[w].pc = "finish" THEN s.processed ELSE 0
           row == Ended(task[k], status, deleted)
<1>1. /\ worker[w].pc \in {"finish", "fail"} /\ worker' = [worker EXCEPT ![w] = Idle]
      /\ UNCHANGED <<operator, up, pass, slow, doubled, rows, receipts, faults>>
  BY DEF Finish, outside
<1>2. CASE ~Holds(w)
  <2>1. UNCHANGED task
    BY <1>2 DEF Finish
  <2> QED
    BY <1>1, <2>1, ReturnStep, ReceiptsType
<1>3. CASE Holds(w)
  <2>1. /\ k \in Tasks /\ task[k] \in TaskRow /\ s.processed \in Count /\ s.processed \in Nat
        /\ task[k].status = "running" /\ 0 \in Count /\ Working(w)
    BY <1>1, <1>3, Types, Records DEF Holds, Progress, Working
  <2>2. task' = [task EXCEPT ![k] = row]
    <3>1. task' = [task EXCEPT ![k] = IF worker[w].pc = "finish"
                                      THEN Ended(task[k], "succeeded", s.processed)
                                      ELSE Ended(task[k], "failed", 0)]
      BY <1>3, <2>1 DEF Finish, IInv, TypeOK
    <3> QED
      BY <3>1
  <2>3. status \in Terminal /\ deleted \in Count /\ deleted \in Nat
    BY <2>1 DEF Terminal
  <2>4. /\ status = "succeeded" => OldRows(w) = {} /\ SawNone(w) /\ deleted = s.processed
        /\ status # "succeeded" => deleted = 0
        /\ s.processed <= Size(k) /\ Size(k) \in Nat
    <3>1. s.processed <= Cleared(k)
      BY DEF IInv, WorkerOK, Counts
    <3>2. s.processed <= Size(k) /\ Size(k) \in Nat
      BY <2>1, <3>1, Shares
    <3> QED
      BY <1>1, <3>2 DEF IInv, WorkerOK, SawNone, FoundNone
  <2> HIDE DEF status, deleted
  <2>5. /\ row \in TaskRow /\ row.status = status /\ row.deleted = deleted
        /\ row.lease = "none" /\ row.state = task[k].state /\ row.target = task[k].target
    <3>1. row = [task[k] EXCEPT !.status = status, !.deleted = deleted, !.key = FALSE,
                                !.lockedBy = "", !.lease = "none"]
      BY DEF Ended
    <3>2. row \in TaskRow
      BY <2>1, <2>3, <3>1 DEF TaskRow, Active, Terminal
    <3>3. row.status = status /\ row.deleted = deleted /\ row.lease = "none"
          /\ row.state = task[k].state /\ row.target = task[k].target
      BY <2>1, <3>1 DEF TaskRow
    <3> QED
      BY <3>2, <3>3
  <2>6. ~row.key
    BY <2>1, Zenon DEF Ended, TaskRow
  <2> HIDE DEF row
  <2>7. /\ task' \in [Tasks -> TaskRow] /\ task'[k] = row
        /\ \A t \in Tasks : t # k => task'[t] = task[t]
    BY <2>1, <2>2, <2>5 DEF IInv, TypeOK
  <2>8. /\ worker' \in [Workers -> Goroutine] /\ worker'[w] = Idle /\ Idle.pc = "idle"
        /\ \A v \in Workers : v # w => worker'[v] = worker[v]
    BY <1>1, Records DEF IInv, TypeOK
  <2>9. \A v \in Workers : Working(v)' => v # w /\ worker'[v] = worker[v] /\ Working(v)
    BY <2>8 DEF Working
  <2>10. \A t \in Tasks : Size(t)' = Size(t) /\ Left(t)' = Left(t) /\ Cleared(t)' = Cleared(t)
    <3>1. \A u \in Tasks :
            /\ task'[u].target = task[u].target
            /\ task[u].status \notin Active =>
                 (task'[u].status = "succeeded" <=> task[u].status = "succeeded")
      BY <2>1, <2>5, <2>7 DEF Active
    <3> QED
      BY <1>1, <3>1, ShareKept
  <2>11. TypeOK'
    BY <1>1, <2>7, <2>8 DEF IInv, TypeOK
  <2>12. \A t \in Tasks : RowOK(t)'
    <3> SUFFICES ASSUME NEW t \in Tasks
                 PROVE  RowOK(t)'
      OBVIOUS
    <3>1. RowOK(t)
      BY DEF IInv
    <3>2. CASE t # k
      BY <1>1, <2>7, <2>10, <3>1, <3>2 DEF RowOK, Counts
    <3>3. CASE t = k
      <4>1. (task[t].key <=> task[t].status \in Active)'
        <5>1. task'[t].status \notin Active
          BY <2>3, <2>5, <2>7, <3>3 DEF Active, Terminal
        <5>2. ~task'[t].key
          BY <2>6, <2>7, <3>3, Zenon
        <5> QED
          BY <5>1, <5>2
      <4>2. /\ task'[t].status \in Terminal /\ task'[t].lease = "none"
            /\ Counts(t, task[t].state)'
        BY <2>1, <2>3, <2>5, <2>7, <2>10, <3>1, <3>3 DEF RowOK, Counts
      <4>3. (task[t].deleted <= Size(t))'
        BY <2>1, <2>4, <2>5, <2>7, <2>10, <3>3
      <4>4. (task[t].status = "succeeded" => Left(t) = {})'
        BY <2>1, <2>4, <2>5, <2>7, <2>10, <3>3 DEF OldRows, Left, Target
      <4> QED
        BY <4>1, <4>2, <4>3, <4>4 DEF RowOK, Terminal
    <3> QED
      BY <3>2, <3>3
  <2>13. \A v \in Workers : WorkerOK(v)'
    <3> SUFFICES ASSUME NEW v \in Workers
                 PROVE  WorkerOK(v)'
      OBVIOUS
    <3>1. CASE v = w
      <4>1. Counts(worker[v].task, worker[v].state)'
        <5>1. 1 \in Tasks /\ Size(1) \in Nat /\ Cleared(1) \in Nat
          BY Shares, Types
        <5> QED
          BY <2>8, <2>10, <3>1, <5>1, Records DEF Counts
      <4> QED
        BY <2>8, <3>1, <4>1, Records DEF WorkerOK, Working, SawNone, FoundNone
    <3>2. CASE v # w
      <4>1. WorkerOK(v) /\ worker[v].task \in Tasks /\ worker'[v] = worker[v]
        BY <2>8, <3>2, Types DEF IInv
      <4>2. Working(v) => task'[worker[v].task].status # "absent"
        BY <2>3, <2>5, <2>7, <4>1 DEF WorkerOK, Terminal
      <4>3. Counts(worker[v].task, worker[v].state)'
        BY <2>10, <4>1 DEF WorkerOK, Counts
      <4>4. Target(v)' = Target(v) /\ OldRows(v)' = OldRows(v)
        BY <1>1, <2>5, <2>7, <4>1 DEF Target, OldRows
      <4> QED
        BY <4>1, <4>2, <4>3, <4>4 DEF WorkerOK, Working, SawNone
    <3> QED
      BY <3>1, <3>2
  <2>14. OneAtATime'
    <3>1. \A t \in Tasks : /\ task'[t].status \in Active => task[t].status \in Active
                           /\ task'[t].status = "absent" <=> task[t].status = "absent"
                           /\ task[t].status \in Terminal => task'[t].status \in Terminal
      BY <2>1, <2>3, <2>5, <2>7 DEF Active, Terminal
    <3>2. 1 \in Tasks /\ \A r \in Runners : pass[r] # 0 => pass[r] \in Tasks
      BY Types DEF IInv, TypeOK
    <3> QED
      BY <1>1, <3>1, <3>2 DEF IInv, OneAtATime
  <2>15. OneHolder'
    <3>1. \A v \in Workers : Working(v)' /\ Holds(v)' =>
            /\ worker[v].task # k /\ Holds(v)
            /\ task'[worker'[v].task] = task[worker[v].task]
      BY <2>3, <2>5, <2>7, <2>9, Types DEF Holds, Terminal
    <3> QED
      BY <1>1, <2>9, <3>1 DEF IInv, OneHolder
  <2>16. FirstWhole'
    <3>1. CASE k # 1
      <4>1. task'[1] = task[1]
        BY <2>7, <3>1, Types
      <4>2. \A v \in Workers : Working(v)' => /\ Working(v) /\ worker'[v] = worker[v]
                                              /\ worker[v].task = 1 /\ Holds(v)' => Holds(v)
                                              /\ SawNone(v)' => SawNone(v)
        BY <2>9, <4>1 DEF Holds, SawNone
      <4> QED
        BY <1>1, <2>10, <4>1, <4>2, Types DEF IInv, FirstWhole
    <3>2. CASE k = 1
      <4>1. ASSUME 1 \notin doubled, status = "succeeded"
            PROVE  deleted = Size(1)
        <5>1. SawNone(w)
          BY <2>4, <4>1
        <5>2. s.processed = Size(1)
          BY <1>3, <2>1, <3>2, <4>1, <5>1 DEF IInv, FirstWhole, Terminal
        <5> QED
          BY <2>4, <4>1, <5>2
      <4>2. task'[1].status = status /\ task'[1].deleted = deleted
        BY <2>5, <2>7, <3>2
      <4> QED
        BY <1>1, <2>3, <2>10, <4>1, <4>2, Types DEF FirstWhole
    <3> QED
      BY <3>1, <3>2
  <2> QED
    BY <2>11, <2>12, <2>13, <2>14, <2>15, <2>16 DEF IInv
<1> QED
  BY <1>2, <1>3

-----------------------------------------------------------------------------
(* The administrators and the runners. *)

(* A step that leaves the rows alone, and at most ends goroutines. *)
LEMMA AsideStep ==
  ASSUME IInv, TypeOK', UNCHANGED <<task, rows, doubled>>,
         \A w \in Workers : worker'[w] \in {worker[w], Idle},
         \A r \in Runners : pass'[r] # 0 => task[pass'[r]].status # "absent"
  PROVE  IInv'
<1>1. \A t \in Tasks : Size(t)' = Size(t) /\ Left(t)' = Left(t) /\ Cleared(t)' = Cleared(t)
  BY ShareKept
<1>2. \A t \in Tasks : RowOK(t)'
  <2> SUFFICES ASSUME NEW t \in Tasks
               PROVE  RowOK(t)'
    OBVIOUS
  <2>1. RowOK(t)
    BY DEF IInv
  <2> QED
    BY <1>1, <2>1 DEF RowOK, Counts
<1>3. \A w \in Workers : Working(w)' => Working(w) /\ worker'[w] = worker[w]
  BY Records DEF Working
<1>4. \A w \in Workers : WorkerOK(w)'
  <2> SUFFICES ASSUME NEW w \in Workers
               PROVE  WorkerOK(w)'
    OBVIOUS
  <2>1. CASE worker'[w] = worker[w]
    <3>1. WorkerOK(w) /\ worker[w].task \in Tasks
      BY Types DEF IInv
    <3>2. Counts(worker[w].task, worker[w].state)'
      BY <1>1, <2>1, <3>1 DEF WorkerOK, Counts
    <3>3. Target(w)' = Target(w) /\ OldRows(w)' = OldRows(w)
      BY <2>1 DEF Target, OldRows
    <3> QED
      BY <1>3, <2>1, <3>1, <3>2, <3>3 DEF WorkerOK, SawNone
  <2>2. CASE worker'[w] = Idle
    <3>1. Counts(worker[w].task, worker[w].state)'
      <4>1. 1 \in Tasks /\ Size(1) \in Nat /\ Cleared(1) \in Nat
        BY Shares, Types
      <4> QED
        BY <1>1, <2>2, <4>1, Records DEF Counts
    <3> QED
      BY <2>2, <3>1, Records DEF WorkerOK, Working, SawNone, FoundNone
  <2> QED
    BY <2>1, <2>2
<1>5. OneAtATime'
  BY DEF IInv, OneAtATime
<1>6. OneHolder'
  BY <1>3 DEF IInv, OneHolder, Holds
<1>7. FirstWhole'
  <2>1. \A w \in Workers : Working(w)' => (Holds(w)' => Holds(w)) /\ (SawNone(w)' => SawNone(w))
    BY <1>3 DEF Holds, SawNone
  <2> QED
    BY <1>1, <1>3, <2>1, Types DEF IInv, FirstWhole
<1> QED
  BY <1>2, <1>4, <1>5, <1>6, <1>7 DEF IInv

LEMMA JoinType ==
  ASSUME IInv, ActiveTasks # {}
  PROVE  Max(ActiveTasks) \in ActiveTasks /\ Max(ActiveTasks) \in Tasks
<1>1. ActiveTasks \in SUBSET Int /\ ActiveTasks \in SUBSET Tasks
  BY CleanupAssumption DEF ActiveTasks, Tasks
<1>2. \A t, u \in ActiveTasks : t = u
  BY DEF ActiveTasks, IInv, OneAtATime
<1> QED
  BY <1>1, <1>2, OneElement

(* Asking for a cleanup, and joining one. *)
LEMMA AskStep ==
  ASSUME IInv, NEW o \in Operators, UNCHANGED <<task, cleaning>>,
         NEW pc \in {"idle", "creating"}, NEW got \in Tasks \cup {0},
         operator' = [operator EXCEPT ![o] = [pc |-> pc, got |-> got]]
  PROVE  IInv'
<1>1. [pc |-> pc, got |-> got] \in [pc : {"idle", "creating"}, got : Tasks \cup {0}]
  OBVIOUS
<1>2. operator' \in [Operators -> [pc : {"idle", "creating"}, got : Tasks \cup {0}]]
  BY <1>1 DEF IInv, TypeOK
<1>3. TypeOK'
  BY <1>2 DEF IInv, TypeOK, cleaning
<1> QED
  BY <1>3, AsideStep DEF cleaning, IInv, OneAtATime

LEMMA JoinStep ==
  ASSUME IInv, NEW o \in Operators, Join(o)
  PROVE  IInv'
BY AskStep, JoinType DEF Join

LEMMA StartStep ==
  ASSUME IInv, NEW o \in Operators, Start(o)
  PROVE  IInv'
<1>1. CASE Join(o)
  BY <1>1, JoinStep
<1>2. CASE ~Join(o)
  <2>1. /\ operator' = [operator EXCEPT ![o].pc = "creating"]
        /\ UNCHANGED <<task, cleaning>>
    BY <1>2 DEF Start
  <2>2. operator[o] \in [pc : {"idle", "creating"}, got : Tasks \cup {0}]
    BY DEF IInv, TypeOK
  <2>3. /\ [operator[o] EXCEPT !.pc = "creating"] = [pc |-> "creating", got |-> operator[o].got]
        /\ operator[o].got \in Tasks \cup {0}
    BY <2>2
  <2>4. operator' = [operator EXCEPT ![o] = [pc |-> "creating", got |-> operator[o].got]]
    BY <2>1, <2>3
  <2> QED
    BY <2>1, <2>3, <2>4, AskStep
<1> QED
  BY <1>1, <1>2

(* The insert that the free active key lets through. *)
LEMMA InsertStep ==
  ASSUME IInv, NEW o \in Operators, NEW k \in Tasks, NEW target \in Targets, KeyFree,
         \A u \in Tasks : (task[u].status = "absent") <=> (u >= k),
         task' = [task EXCEPT ![k] = [NoTask EXCEPT !.status = "pending", !.key = TRUE,
                                                     !.target = target]],
         operator' = [operator EXCEPT ![o] = [pc |-> "idle", got |-> k]],
         UNCHANGED cleaning
  PROVE  IInv'
<1> DEFINE row == [NoTask EXCEPT !.status = "pending", !.key = TRUE, !.target = target]
<1>1. /\ row \in TaskRow /\ row.status = "pending" /\ row.state = NoProgress /\ row.deleted = 0
  <2>1. row \in TaskRow
    BY Records DEF TaskRow, Active
  <2>2. row.status = "pending" /\ row.state = NoProgress /\ row.deleted = 0
    BY DEF NoTask
  <2> QED
    BY <2>1, <2>2
<1>2. row.key
  BY Records, Zenon DEF NoTask
<1>3. task' = [task EXCEPT ![k] = row]
  OBVIOUS
<1> HIDE DEF row
<1>4. /\ task' \in [Tasks -> TaskRow] /\ task'[k] = row
      /\ \A t \in Tasks : t # k => task'[t] = task[t]
  BY <1>1, <1>3 DEF IInv, TypeOK
<1>5. UNCHANGED <<up, pass, worker, rows, receipts, faults, slow, doubled>>
  BY DEF cleaning
<1>6. /\ task[k].status = "absent" /\ task[k].state = NoProgress /\ task[k].deleted = 0
      /\ task[k].target = 0
  <2>1. k >= k
    BY CleanupAssumption DEF Tasks
  <2>2. task[k] = NoTask
    BY <2>1 DEF IInv, RowOK
  <2> QED
    BY <2>2, Records
<1>7. \A t \in Tasks : task[t].status \notin Active
  BY DEF KeyFree, IInv, RowOK
<1>8. \A t \in Tasks : t < k => task[t].status \in Terminal
  <2> SUFFICES ASSUME NEW t \in Tasks, t < k
               PROVE  task[t].status \in Terminal
    OBVIOUS
  <2>1. ~(t >= k)
    BY CleanupAssumption DEF Tasks
  <2>2. task[t].status \in {"absent"} \cup Active \cup Terminal
    BY DEF IInv, TypeOK, TaskRow
  <2> QED
    BY <1>7, <2>1, <2>2
(* The shares of the others stay, and the new one has what is left. *)
<1>9. /\ \A t \in Tasks : t # k =>
           Size(t)' = Size(t) /\ Left(t)' = Left(t) /\ Cleared(t)' = Cleared(t)
      /\ Size(k) = 0 /\ Cleared(k) = 0
      /\ Size(k)' \in Nat /\ Cleared(k)' \in Nat
  <2>1. ASSUME NEW t \in Tasks, t # k
        PROVE  Size(t)' = Size(t) /\ Left(t)' = Left(t) /\ Cleared(t)' = Cleared(t)
    <3>1. \A u \in Tasks : task'[u].status = "succeeded" <=> task[u].status = "succeeded"
      BY <1>1, <1>4, <1>6
    <3>2. task'[t].target = task[t].target /\ rows' = rows
      BY <1>4, <1>5, <2>1
    <3>3. CASE task[t].status = "absent"
      <4>1. task[t].target = 0
        BY <3>3, Records DEF IInv, RowOK
      <4>2. Older(Rows, 0) = {}
        BY OlderRows
      <4>3. Reportable(t) = {} /\ Reportable(t)' = {}
        BY <3>2, <4>1, <4>2 DEF Reportable
      <4> QED
        BY <3>2, <4>3 DEF Size, Left, Cleared
    <3>4. CASE task[t].status # "absent"
      <4>1. \A u \in Tasks : u < t => u # k
        BY <3>4, CleanupAssumption DEF Tasks
      <4>2. \A u \in Tasks : u < t => task'[u] = task[u]
        BY <1>4, <4>1
      <4>3. Reportable(t)' = Reportable(t)
        BY <3>2, <4>2 DEF Reportable
      <4> QED
        BY <3>2, <4>3 DEF Size, Left, Cleared
    <3> QED
      BY <3>3, <3>4
  <2>2. Size(k) = 0 /\ Cleared(k) = 0
    <3>1. Older(Rows, 0) = {} /\ Older(rows, 0) = {}
      BY OlderRows, Types
    <3>2. Reportable(k) = {} /\ Left(k) = {}
      BY <1>6, <3>1 DEF Reportable, Left
    <3> QED
      BY <3>2, FS_EmptySet DEF Size, Cleared
  <2>3. Size(k)' \in Nat /\ Cleared(k)' \in Nat
    <3>1. \A u \in Tasks : task'[u].status = "succeeded" => Left(u)' = {}
      <4>1. \A u \in Tasks : task'[u].status = "succeeded" => u # k /\ task[u].status = "succeeded"
        BY <1>1, <1>4
      <4> QED
        BY <2>1, <4>1 DEF IInv, RowOK
    <3>2. rows' \in SUBSET Rows
      BY <1>5, Types
    <3>3. /\ Reportable(k)' \in SUBSET Rows /\ Left(k)' \in SUBSET Reportable(k)'
      <4>1. Reportable(k)' \in SUBSET Rows
        BY DEF Reportable, Older
      <4>2. ASSUME NEW i \in Left(k)', NEW u \in Tasks, task'[u].status = "succeeded",
                   ~(i >= task'[u].target)
            PROVE  FALSE
        <5>1. i \in rows' /\ i \notin Left(u)'
          BY <3>1, <4>2 DEF Left, Older
        <5>2. i \in Nat /\ task'[u].target \in Nat
          <6>1. task'[u] \in TaskRow /\ i \in Rows /\ Rows \subseteq Nat
            BY <1>4, <3>2, <5>1, CleanupAssumption
          <6> QED
            BY <6>1, TargetType
        <5>3. \A a, b \in Nat : a < b \/ a >= b
          OBVIOUS
        <5>4. i < task'[u].target
          BY <4>2, <5>2, <5>3
        <5> QED
          BY <5>1, <5>4 DEF Left, Older
      <4>3. \A i \in Left(k)' : i \in Rows /\ i < task'[k].target
        BY <3>2 DEF Left, Older
      <4> QED
        BY <4>1, <4>2, <4>3 DEF Reportable, Older
    <3>4. /\ IsFiniteSet(Reportable(k)') /\ Cardinality(Reportable(k)') \in Nat
          /\ Left(k)' \in SUBSET Rows /\ Cardinality(Left(k)') \in Nat
      BY <3>3, LogSize
    <3>5. Cardinality(Left(k)') <= Cardinality(Reportable(k)')
      BY <3>3, <3>4, FS_Subset
    <3>6. Size(k)' = Cardinality(Reportable(k)') /\ Cleared(k)' = Size(k)' - Cardinality(Left(k)')
      BY DEF Size, Cleared
    <3>7. \A a, b \in Nat : b <= a => a - b \in Nat
      OBVIOUS
    <3> QED
      BY <3>4, <3>5, <3>6, <3>7
  <2> QED
    BY <2>1, <2>2, <2>3
<1>10. TypeOK'
  <2>1. operator' \in [Operators -> [pc : {"idle", "creating"}, got : Tasks \cup {0}]]
    BY DEF IInv, TypeOK
  <2> QED
    BY <1>4, <1>5, <2>1 DEF IInv, TypeOK
<1>11. \A t \in Tasks : RowOK(t)'
  <2> SUFFICES ASSUME NEW t \in Tasks
               PROVE  RowOK(t)'
    OBVIOUS
  <2>1. RowOK(t)
    BY DEF IInv
  <2>2. CASE t # k
    BY <1>4, <1>9, <2>1, <2>2 DEF RowOK, Counts
  <2>3. CASE t = k
    <3>1. (task[t].key <=> task[t].status \in Active)'
      <4>1. task'[t].status \in Active
        BY <1>1, <1>4, <2>3 DEF Active
      <4>2. task'[t].key
        BY <1>2, <1>4, <2>3, Zenon
      <4> QED
        BY <4>1, <4>2
    <3>2. Counts(t, task[t].state)'
      BY <1>1, <1>4, <1>9, <2>3, Records DEF Counts
    <3>3. task'[t].status = "pending" /\ task'[t].deleted = 0 /\ (task[t].deleted <= Size(t))'
      <4>1. task'[t].status = "pending" /\ task'[t].deleted = 0
        BY <1>1, <1>4, <2>3
      <4>2. PICK a \in Nat : a = Size(t)'
        BY <1>9, <2>3
      <4>3. 0 <= a
        OBVIOUS
      <4> QED
        BY <4>1, <4>2, <4>3
    <3>4. /\ task'[t].status # "absent" /\ task'[t].status \notin Terminal
          /\ task'[t].status # "succeeded"
      BY <3>3 DEF Terminal
    <3> QED
      BY <3>1, <3>2, <3>3, <3>4 DEF RowOK
  <2> QED
    BY <2>2, <2>3
<1>12. \A v \in Workers : WorkerOK(v)' /\ (Working(v) => worker[v].task # k)
  <2> SUFFICES ASSUME NEW v \in Workers
               PROVE  WorkerOK(v)' /\ (Working(v) => worker[v].task # k)
    OBVIOUS
  <2>1. WorkerOK(v) /\ worker[v].task \in Tasks
    BY Types DEF IInv
  <2>2. Working(v) => worker[v].task # k
    BY <1>6, <2>1 DEF WorkerOK
  <2>3. CASE worker[v].task # k
    <3>1. Counts(worker[v].task, worker[v].state)'
      BY <1>5, <1>9, <2>1, <2>3 DEF WorkerOK, Counts
    <3>2. Target(v)' = Target(v) /\ OldRows(v)' = OldRows(v)
      BY <1>4, <1>5, <2>1, <2>3 DEF Target, OldRows
    <3>3. Working(v)' => task'[worker'[v].task].status # "absent"
      BY <1>4, <1>5, <2>1, <2>3 DEF WorkerOK, Working
    <3> QED
      BY <1>5, <2>1, <2>2, <3>1, <3>2, <3>3 DEF WorkerOK, SawNone
  <2>4. CASE worker[v].task = k
    <3>1. /\ worker[v].state.processed \in Nat /\ worker[v].state.total \in Nat
          /\ worker[v].state.processed = 0 /\ worker[v].state.total = 0
      BY <1>9, <2>1, <2>4, Types DEF WorkerOK, Counts
    <3>2. Counts(worker[v].task, worker[v].state)'
      BY <1>5, <1>9, <2>4, <3>1 DEF Counts
    <3>3. worker[v].ids = {}
      <4>1. Older(Rows, 0) = {}
        BY OlderRows
      <4> QED
        BY <1>6, <2>1, <2>4, <4>1 DEF WorkerOK, Target
    <3>4. ~Working(v) /\ ~Working(v)' /\ ~SawNone(v)'
      BY <1>5, <2>2, <2>4 DEF Working, SawNone, FoundNone
    <3>5. worker'[v] = worker[v] /\ worker[v].stray = 0
      BY <1>5, <2>1, <3>4 DEF WorkerOK, Working
    <3> QED
      BY <2>2, <3>2, <3>3, <3>4, <3>5 DEF WorkerOK
  <2> QED
    BY <2>3, <2>4
<1>13. OneAtATime'
  <2>1. \A t, u \in Tasks : task'[t].status \in Active /\ task'[u].status \in Active => t = u
    BY <1>4, <1>7
  <2>2. ASSUME NEW t \in Tasks, NEW u \in Tasks, t < u, task'[u].status # "absent"
        PROVE  task'[t].status \in Terminal
    <3>1. u <= k
      <4>1. CASE u = k
        BY <4>1, CleanupAssumption DEF Tasks
      <4>2. CASE u # k
        BY <1>4, <2>2, <4>2, CleanupAssumption DEF Tasks
      <4> QED
        BY <4>1, <4>2
    <3>2. t < k /\ t # k
      BY <2>2, <3>1, CleanupAssumption DEF Tasks
    <3> QED
      BY <1>4, <1>8, <3>2
  <2>3. \A r \in Runners : pass'[r] # 0 => task'[pass'[r]].status # "absent"
    <3>1. \A r \in Runners : pass[r] # 0 => pass[r] \in Tasks /\ task[pass[r]].status # "absent"
      BY DEF IInv, TypeOK, OneAtATime
    <3> QED
      BY <1>1, <1>4, <1>5, <3>1
  <2>4. task'[1].status = "absent" => rows' = Rows
    BY <1>1, <1>4, <1>5, Types DEF IInv, OneAtATime
  <2> QED
    BY <2>1, <2>2, <2>3, <2>4 DEF OneAtATime
<1>14. \A v \in Workers : Working(v) => (Holds(v)' <=> Holds(v))
  BY <1>4, <1>5, <1>12, Types DEF Holds
<1>15. OneHolder'
  <2>1. ASSUME NEW v \in Workers, Working(v)
        PROVE  task'[worker[v].task] = task[worker[v].task]
    BY <1>4, <1>12, <2>1, Types
  <2>2. \A v \in Workers : worker'[v] = worker[v] /\ (Working(v)' <=> Working(v))
    BY <1>5 DEF Working
  <2>3. ASSUME NEW v \in Workers, Working(v)', Holds(v)', worker'[v].task \notin doubled'
        PROVE  task'[worker'[v].task].state.processed <= worker'[v].state.processed
    BY <1>5, <1>14, <2>1, <2>2, <2>3 DEF IInv, OneHolder
  <2>4. ASSUME NEW v \in Workers, NEW u \in Workers, Working(v)', Working(u)', v # u,
               worker'[v].task = worker'[u].task, worker'[v].runner = worker'[u].runner
        PROVE  worker'[v].task \in doubled'
    BY <1>5, <2>2, <2>4 DEF IInv, OneHolder
  <2> QED
    BY <2>3, <2>4 DEF OneHolder
<1>16. FirstWhole'
  <2>1. CASE k # 1
    <3>1. task'[1] = task[1]
      BY <1>4, <2>1, Types
    <3> QED
      BY <1>5, <1>9, <1>14, <2>1, <3>1, Types DEF IInv, FirstWhole, Working, SawNone
  <2>2. CASE k = 1
    <3>1. task'[1].state.total = 0 /\ task'[1].status \notin Terminal /\ task'[1].status # "succeeded"
      BY <1>1, <1>4, <2>2, Records DEF Terminal
    <3>2. \A v \in Workers : Working(v) => worker[v].task # 1
      BY <1>12, <2>2
    <3>3. Cleared(1)' = 0
      <4>1. rows' = Rows
        BY <1>5, <1>6, <2>2 DEF IInv, OneAtATime
      <4>2. Size(1)' = Cardinality(Older(Rows, task'[1].target))
        <5>1. \A u \in Tasks : ~(u < 1)
          BY CleanupAssumption DEF Tasks
        <5>2. Reportable(1)' = Older(Rows, task'[1].target)
          BY <5>1 DEF Reportable
        <5> QED
          BY <5>2 DEF Size
      <4>3. Cleared(1)' = Size(1)' - Cardinality(Older(Rows, task'[1].target))
        BY <4>1 DEF Cleared, Left
      <4> QED
        BY <1>9, <2>2, <4>2, <4>3
    <3> QED
      BY <1>5, <3>1, <3>2, <3>3 DEF FirstWhole, Working
  <2> QED
    BY <2>1, <2>2
<1> QED
  BY <1>10, <1>11, <1>12, <1>13, <1>15, <1>16 DEF IInv

LEMMA CreateStep ==
  ASSUME IInv, NEW o \in Operators, Create(o)
  PROVE  IInv'
<1>1. CASE KeyFree
  <2>1. PICK k \in Tasks, target \in Targets :
          /\ \A u \in Tasks : (task[u].status = "absent") <=> (u >= k)
          /\ task' = [task EXCEPT ![k] = [NoTask EXCEPT !.status = "pending", !.key = TRUE,
                                                      !.target = target]]
          /\ operator' = [operator EXCEPT ![o] = [pc |-> "idle", got |-> k]]
    BY <1>1 DEF Create
  <2>2. UNCHANGED cleaning
    BY <1>1 DEF Create
  <2> QED
    BY <1>1, <2>1, <2>2, InsertStep
<1>2. CASE Join(o)
  BY <1>2, JoinStep
<1>3. CASE ~KeyFree /\ ~Join(o)
  <2>1. /\ operator' = [operator EXCEPT ![o] = [pc |-> "idle", got |-> 0]]
        /\ UNCHANGED <<task, cleaning>>
    BY <1>3 DEF Create
  <2> QED
    BY <2>1, AskStep
<1> QED
  BY <1>1, <1>2, <1>3

LEMMA FindStep ==
  ASSUME IInv, NEW r \in Runners, Find(r)
  PROVE  IInv'
<1>1. Min(Claimable) \in Claimable /\ Claimable \in SUBSET Tasks
  <2>1. Claimable \in SUBSET Int /\ Claimable \in SUBSET Tasks
    BY CleanupAssumption DEF Claimable, Tasks
  <2>2. \A t, u \in Claimable : t = u
    BY DEF Claimable, IInv, OneAtATime
  <2> QED
    BY <2>1, <2>2, OneElement DEF Find
<1>2. Min(Claimable) \in Tasks /\ task[Min(Claimable)].status # "absent"
  BY <1>1 DEF Claimable, Active
<1> DEFINE k == Min(Claimable)
<1>3. pass' = [pass EXCEPT ![r] = k] /\ k \in Tasks /\ task[k].status # "absent"
  BY <1>2 DEF Find
<1> HIDE DEF k
<1>4. UNCHANGED <<task, operator, up, worker, rows, receipts, faults, slow, doubled>>
  BY DEF Find
<1>5. TypeOK'
  BY <1>3, <1>4 DEF IInv, TypeOK
<1>6. \A p \in Runners : pass'[p] # 0 => task[pass'[p]].status # "absent"
  BY <1>3 DEF IInv, TypeOK, OneAtATime
<1> QED
  BY <1>4, <1>5, <1>6, AsideStep

LEMMA CrashStep ==
  ASSUME IInv, NEW r \in Runners, Crash(r)
  PROVE  IInv'
<1>1. TypeOK'
  <2>1. up' \in SUBSET Runners /\ up' # {} /\ faults' \in 0..MaxFaults
    BY CleanupAssumption DEF Crash, IInv, TypeOK
  <2>2. pass' \in [Runners -> Tasks \cup {0}]
    BY DEF Crash, IInv, TypeOK
  <2>3. worker' \in [Workers -> Goroutine]
    BY Records DEF Crash, IInv, TypeOK
  <2> QED
    BY <2>1, <2>2, <2>3 DEF Crash, IInv, TypeOK
<1>2. \A w \in Workers : worker'[w] \in {worker[w], Idle}
  BY DEF Crash
<1>3. \A p \in Runners : pass'[p] # 0 => task[pass'[p]].status # "absent"
  BY DEF Crash, IInv, TypeOK, OneAtATime
<1>4. UNCHANGED <<task, rows, doubled>>
  BY DEF Crash
<1> QED
  BY <1>1, <1>2, <1>3, <1>4, AsideStep

(* A lease that runs out says nothing of who holds the row. *)
LEMMA LapseStep ==
  ASSUME IInv, NEW k \in Tasks, Lapse(k)
  PROVE  IInv'
<1> DEFINE row == [task[k] EXCEPT !.lease = "lapsed"]
<1>1. /\ task' = [task EXCEPT ![k] = row] /\ task[k] \in TaskRow /\ task[k].lease = "held"
      /\ UNCHANGED <<operator, up, pass, worker, rows, receipts, faults, doubled>>
  BY Types DEF Lapse, IInv, TypeOK
<1>2. slow' \in 0..MaxSlow
  BY CleanupAssumption DEF Lapse, IInv, TypeOK
<1>3. /\ row \in TaskRow /\ row.status = task[k].status /\ row.state = task[k].state
      /\ row.deleted = task[k].deleted /\ row.lockedBy = task[k].lockedBy
      /\ row.target = task[k].target
  BY <1>1 DEF TaskRow
<1>4. row.key <=> task[k].key
  BY <1>1, Zenon DEF TaskRow
<1> HIDE DEF row
<1>5. /\ task' \in [Tasks -> TaskRow] /\ task'[k] = row
      /\ \A t \in Tasks : t # k => task'[t] = task[t]
  BY <1>1, <1>3 DEF IInv, TypeOK
<1>6. \A t \in Tasks : /\ task'[t].status = task[t].status /\ task'[t].state = task[t].state
                       /\ task'[t].deleted = task[t].deleted
                       /\ task'[t].lockedBy = task[t].lockedBy
                       /\ task'[t].target = task[t].target
  BY <1>3, <1>5
<1>7. \A t \in Tasks : task'[t].key <=> task[t].key
  BY <1>4, <1>5, Zenon
<1>8. \A t \in Tasks : Size(t)' = Size(t) /\ Left(t)' = Left(t) /\ Cleared(t)' = Cleared(t)
  BY <1>1, <1>6, ShareKept
<1>9. task[k].status \notin Terminal /\ task[k].status # "absent"
  BY <1>1, Records DEF IInv, RowOK
<1>10. TypeOK'
  BY <1>1, <1>2, <1>5 DEF IInv, TypeOK
<1>11. \A t \in Tasks : RowOK(t)'
  <2> SUFFICES ASSUME NEW t \in Tasks
               PROVE  RowOK(t)'
    OBVIOUS
  <2>1. RowOK(t)
    BY DEF IInv
  <2>2. (task[t].key <=> task[t].status \in Active)'
    BY <1>6, <1>7, <2>1, Zenon DEF RowOK
  <2>3. /\ task'[t].status = "absent" => task'[t] = NoTask
        /\ task'[t].status \in Terminal => task'[t].lease = "none"
    BY <1>5, <1>6, <1>9, <2>1 DEF RowOK
  <2>4. /\ (task[t].deleted <= Size(t))'
        /\ (task[t].status = "succeeded" => Left(t) = {})'
        /\ Counts(t, task[t].state)'
    BY <1>1, <1>6, <1>8, <2>1 DEF RowOK, Counts
  <2> QED
    BY <2>2, <2>3, <2>4 DEF RowOK
<1>12. \A w \in Workers : worker[w].task \in Tasks /\ (Holds(w)' <=> Holds(w))
  BY <1>1, <1>6, Types DEF Holds
<1>13. \A w \in Workers : WorkerOK(w)'
  <2> SUFFICES ASSUME NEW w \in Workers
               PROVE  WorkerOK(w)'
    OBVIOUS
  <2>1. WorkerOK(w) /\ worker'[w] = worker[w] /\ worker[w].task \in Tasks
    BY <1>1, <1>12 DEF IInv
  <2>2. Counts(worker[w].task, worker[w].state)'
    BY <1>8, <2>1 DEF WorkerOK, Counts
  <2>3. Target(w)' = Target(w) /\ OldRows(w)' = OldRows(w)
    BY <1>1, <1>6, <2>1 DEF Target, OldRows
  <2> QED
    BY <1>6, <2>1, <2>2, <2>3 DEF WorkerOK, Working, SawNone
<1>14. OneAtATime'
  <2>1. 1 \in Tasks /\ \A r \in Runners : pass[r] # 0 => pass[r] \in Tasks
    BY Types DEF IInv, TypeOK
  <2> QED
    BY <1>1, <1>6, <2>1 DEF IInv, OneAtATime
<1>15. OneHolder'
  BY <1>1, <1>6, <1>12 DEF IInv, OneHolder, Working
<1>16. FirstWhole'
  <2>1. 1 \in Tasks
    BY Types
  <2> QED
    BY <1>1, <1>6, <1>8, <1>12, <2>1 DEF IInv, FirstWhole, Working, SawNone
<1> QED
  BY <1>10, <1>11, <1>13, <1>14, <1>15, <1>16 DEF IInv

(* A runner takes the task and starts a goroutine on it. *)
TakenRow(r, k, row) ==
  /\ row \in TaskRow /\ row.status = "running" /\ row.state = task[k].state
  /\ row.deleted = task[k].deleted /\ row.lockedBy = r /\ row.target = task[k].target
  /\ row.key <=> task[k].key
NewGoroutine(r, k, g) ==
  /\ g \in Goroutine /\ g.pc = "count" /\ g.task = k /\ g.runner = r
  /\ g.state = task[k].state /\ g.stray = 0 /\ g.ids = {}
Doubles(r, k) ==
  /\ doubled \in SUBSET doubled'
  /\ \A v \in Workers : Working(v) /\ worker[v].task = k /\ worker[v].runner = r => k \in doubled'

LEMMA TakenStep ==
  ASSUME IInv, NEW r \in Runners, NEW k \in Tasks, task[k].status \in Active,
         NEW row, TakenRow(r, k, row), task' = [task EXCEPT ![k] = row],
         NEW w \in Workers, ~Working(w),
         NEW g, NewGoroutine(r, k, g), worker' = [worker EXCEPT ![w] = g],
         TypeOK', Doubles(r, k),
         \A p \in Runners : pass'[p] # 0 => pass'[p] = pass[p], UNCHANGED rows
  PROVE  IInv'
<1>3. /\ row \in TaskRow /\ row.status = "running" /\ row.state = task[k].state
      /\ row.deleted = task[k].deleted /\ row.lockedBy = r /\ row.target = task[k].target
  BY DEF TakenRow
<1>4. row.key <=> task[k].key
  BY Zenon DEF TakenRow
<1>5. /\ g.pc = "count" /\ g.task = k /\ g.runner = r /\ g.state = task[k].state /\ g.stray = 0
      /\ g \in Goroutine /\ g.ids = {}
  BY DEF NewGoroutine
<1>7. /\ task'[k] = row
      /\ \A t \in Tasks : t # k => task'[t] = task[t]
  BY <1>3 DEF IInv, TypeOK
<1>8. /\ worker'[w] = g
      /\ \A v \in Workers : v # w => worker'[v] = worker[v]
  BY <1>5 DEF IInv, TypeOK
<1>9. /\ doubled \in SUBSET doubled'
      /\ \A v \in Workers : Working(v) /\ worker[v].task = k /\ worker[v].runner = r => k \in doubled'
  BY DEF Doubles
<1>11. \A t \in Tasks : /\ task'[t].state = task[t].state
                        /\ task'[t].deleted = task[t].deleted
                        /\ task'[t].status \in Active <=> task[t].status \in Active
                        /\ task'[t].status \in Terminal <=> task[t].status \in Terminal
                        /\ task'[t].status = "absent" <=> task[t].status = "absent"
                        /\ task'[t].status = "succeeded" <=> task[t].status = "succeeded"
                        /\ task'[t].target = task[t].target
  BY <1>3, <1>7 DEF Active, Terminal
<1>12. \A t \in Tasks : Size(t)' = Size(t) /\ Left(t)' = Left(t) /\ Cleared(t)' = Cleared(t)
  BY <1>11, ShareKept
<1>13. \A t \in Tasks : RowOK(t)'
  <2> SUFFICES ASSUME NEW t \in Tasks
               PROVE  RowOK(t)'
    OBVIOUS
  <2>1. RowOK(t)
    BY DEF IInv
  <2>2. task'[t].key <=> task[t].key
    BY <1>4, <1>7, Zenon
  <2>3. (task[t].key <=> task[t].status \in Active)'
    BY <1>11, <2>1, <2>2, Zenon DEF RowOK
  <2>4. /\ task'[t].status = "absent" => task'[t] = NoTask
        /\ task'[t].status \in Terminal => task'[t].lease = "none"
    BY <1>3, <1>7, <2>1 DEF RowOK, Terminal
  <2>5. /\ (task[t].deleted <= Size(t))'
        /\ (task[t].status = "succeeded" => Left(t) = {})'
        /\ Counts(t, task[t].state)'
    BY <1>12, <1>11, <2>1 DEF RowOK, Counts
  <2> QED
    BY <2>3, <2>4, <2>5 DEF RowOK
<1>14. \A v \in Workers : WorkerOK(v)'
  <2> SUFFICES ASSUME NEW v \in Workers
               PROVE  WorkerOK(v)'
    OBVIOUS
  <2>1. CASE v = w
    <3>1. Counts(worker[v].task, worker[v].state)'
      BY <1>5, <1>8, <1>12, <2>1 DEF IInv, RowOK, Counts
    <3>2. task'[k].status # "absent"
      BY <1>3, <1>7
    <3> QED
      BY <1>5, <1>8, <2>1, <3>1, <3>2 DEF WorkerOK, SawNone, FoundNone
  <2>2. CASE v # w
    <3>1. WorkerOK(v) /\ worker[v].task \in Tasks /\ worker'[v] = worker[v]
      BY <1>8, <2>2, Types DEF IInv
    <3>2. Working(v) => task'[worker[v].task].status # "absent"
      BY <1>11, <3>1 DEF WorkerOK
    <3>3. Counts(worker[v].task, worker[v].state)'
      BY <1>12, <3>1 DEF WorkerOK, Counts
    <3>4. Target(v)' = Target(v) /\ OldRows(v)' = OldRows(v)
      BY <1>11, <3>1 DEF Target, OldRows
    <3> QED
      BY <3>1, <3>2, <3>3, <3>4 DEF WorkerOK, Working, SawNone
  <2> QED
    BY <2>1, <2>2
<1>15. OneAtATime'
  <2>1. 1 \in Tasks /\ \A p \in Runners : pass[p] # 0 => pass[p] \in Tasks
    BY Types DEF IInv, TypeOK
  <2>2. \A p \in Runners : pass'[p] # 0 => pass'[p] = pass[p]
    OBVIOUS
  <2>3. \A t, u \in Tasks : task'[t].status \in Active /\ task'[u].status \in Active => t = u
    BY <1>11 DEF IInv, OneAtATime
  <2>4. /\ \A t, u \in Tasks : t < u /\ task'[u].status # "absent" => task'[t].status \in Terminal
        /\ task'[1].status = "absent" => rows' = Rows
    BY <1>11, <2>1 DEF IInv, OneAtATime
  <2>5. \A p \in Runners : pass'[p] # 0 => task'[pass'[p]].status # "absent"
    BY <1>11, <2>1, <2>2 DEF IInv, OneAtATime
  <2> QED
    BY <2>3, <2>4, <2>5 DEF OneAtATime
(* Only the new goroutine holds the task it was started on. *)
<1>16. \A v \in Workers : v # w /\ Working(v)' =>
         /\ Working(v) /\ worker'[v] = worker[v]
         /\ Holds(v)' /\ worker[v].task \notin doubled' =>
              Holds(v) /\ worker[v].task # k /\ worker[v].task \notin doubled
  <2> SUFFICES ASSUME NEW v \in Workers, v # w, Working(v)'
               PROVE  /\ Working(v) /\ worker'[v] = worker[v]
                      /\ Holds(v)' /\ worker[v].task \notin doubled' =>
                           Holds(v) /\ worker[v].task # k /\ worker[v].task \notin doubled
    OBVIOUS
  <2>1. Working(v) /\ worker'[v] = worker[v] /\ worker[v].task \in Tasks
    BY <1>8, Types DEF Working
  <2>2. ASSUME Holds(v)', worker[v].task \notin doubled'
        PROVE  Holds(v) /\ worker[v].task # k
    <3>1. worker[v].task # k
      BY <1>3, <1>7, <1>9, <2>1, <2>2 DEF Holds
    <3> QED
      BY <1>7, <2>1, <2>2, <3>1 DEF Holds
  <2> QED
    BY <1>9, <2>1, <2>2
<1>17. OneHolder'
  <2>1. ASSUME NEW v \in Workers, Working(v)', Holds(v)', worker'[v].task \notin doubled'
        PROVE  task'[worker'[v].task].state.processed <= worker'[v].state.processed
    <3>1. CASE v = w
      <4>1. /\ worker'[v].task = k /\ worker'[v].state = task[k].state
            /\ task'[k].state = task[k].state
        BY <1>3, <1>5, <1>7, <1>8, <3>1
      <4>2. task[k].state.processed \in Nat
        BY Types
      <4> QED
        BY <4>1, <4>2
    <3>2. CASE v # w
      BY <1>11, <1>16, <2>1, <3>2, Types DEF IInv, OneHolder
    <3> QED
      BY <3>1, <3>2
  <2>2. ASSUME NEW v \in Workers, NEW u \in Workers, Working(v)', Working(u)', v # u,
               worker'[v].task = worker'[u].task, worker'[v].runner = worker'[u].runner
        PROVE  worker'[v].task \in doubled'
    <3>1. CASE v = w \/ u = w
      BY <1>5, <1>8, <1>9, <1>16, <2>2, <3>1
    <3>2. CASE v # w /\ u # w
      BY <1>9, <1>16, <2>2, <3>2 DEF IInv, OneHolder
    <3> QED
      BY <3>1, <3>2
  <2> QED
    BY <2>1, <2>2 DEF OneHolder
<1>18. FirstWhole'
  <2> SUFFICES ASSUME 1 \notin doubled'
               PROVE  /\ task'[1].status \notin Terminal =>
                           /\ task'[1].state.total \in {0, Size(1)}
                           /\ Cleared(1) # 0 => task'[1].state.total = Size(1)
                           /\ \A v \in Workers : Working(v)' /\ worker'[v].task = 1 =>
                                /\ worker'[v].pc \in {"pluck", "delete", "saveBatch"} =>
                                     task'[1].state.total = Size(1)
                                /\ Holds(v)' =>
                                     /\ \/ worker'[v].state.total = Size(1)
                                        \/ /\ worker'[v].pc \in {"count", "fail"}
                                           /\ worker'[v].state.total = 0 /\ task'[1].state.total = 0
                                     /\ SawNone(v)' => worker'[v].state.processed = Size(1)
                      /\ task'[1].status = "succeeded" => task'[1].deleted = Size(1)
    BY <1>12, Types DEF FirstWhole
  <2>1. 1 \in Tasks /\ 1 \notin doubled
    BY <1>9, Types
  <2>2. /\ task'[1].state = task[1].state /\ task'[1].deleted = task[1].deleted
        /\ task'[1].status = "succeeded" <=> task[1].status = "succeeded"
        /\ task'[1].status \notin Terminal => task[1].status \notin Terminal
    BY <1>11, <2>1
  <2>3. ASSUME task'[1].status \notin Terminal, NEW v \in Workers, Working(v)', worker'[v].task = 1
        PROVE  /\ worker'[v].pc \in {"pluck", "delete", "saveBatch"} => task'[1].state.total = Size(1)
               /\ Holds(v)' =>
                    /\ \/ worker'[v].state.total = Size(1)
                       \/ /\ worker'[v].pc \in {"count", "fail"}
                          /\ worker'[v].state.total = 0 /\ task'[1].state.total = 0
                    /\ SawNone(v)' => worker'[v].state.processed = Size(1)
    <3>1. CASE v = w
      <4>1. k = 1 /\ worker'[v].pc = "count" /\ worker'[v].state.total = task[1].state.total
        BY <1>5, <1>8, <2>3, <3>1
      <4>2. task[1].state.total \in {0, Size(1)}
        BY <2>1, <2>2, <2>3 DEF IInv, FirstWhole
      <4> QED
        BY <2>2, <4>1, <4>2 DEF SawNone, FoundNone
    <3>2. CASE v # w
      <4>1. Working(v) /\ worker'[v] = worker[v] /\ worker[v].task = 1 /\ (Holds(v)' => Holds(v))
        BY <1>16, <2>3, <3>2
      <4> QED
        BY <2>1, <2>2, <2>3, <4>1 DEF IInv, FirstWhole, SawNone
    <3> QED
      BY <3>1, <3>2
  <2> QED
    BY <2>1, <2>2, <2>3 DEF IInv, FirstWhole
<1> QED
  BY <1>13, <1>14, <1>15, <1>17, <1>18 DEF IInv

LEMMA TakeStep ==
  ASSUME IInv, NEW r \in Runners, NEW k \in Tasks, task[k].status \in Active,
         task' = [task EXCEPT ![k].status = "running", ![k].lockedBy = r, ![k].lease = "held"],
         NEW w \in Workers, ~Working(w),
         worker' = [worker EXCEPT ![w] = [Idle EXCEPT !.pc = "count", !.task = k,
                                                !.runner = r, !.state = task[k].state]],
         doubled' = IF \E v \in Workers : Working(v) /\ worker[v].task = k
                                            /\ worker[v].runner = r
                    THEN doubled \cup {k} ELSE doubled,
         pass' = [pass EXCEPT ![r] = 0],
         UNCHANGED <<operator, up, rows, receipts, faults, slow>>
  PROVE  IInv'
<1> DEFINE row == [task[k] EXCEPT !.status = "running", !.lockedBy = r, !.lease = "held"]
           g == [Idle EXCEPT !.pc = "count", !.task = k, !.runner = r, !.state = task[k].state]
<1>1. task[k] \in TaskRow /\ task[k].state \in Progress
  BY Types DEF TaskRow
<1>2. task' = [task EXCEPT ![k] = row]
  <2> DEFINE r1 == [task[k] EXCEPT !.status = "running"]
             r2 == [r1 EXCEPT !.lockedBy = r]
             r3 == [r2 EXCEPT !.lease = "held"]
  <2>1. task' = [[[task EXCEPT ![k] = r1] EXCEPT ![k] = r2] EXCEPT ![k] = r3]
    BY DEF IInv, TypeOK
  <2>2. row = r3
    OBVIOUS
  <2> HIDE DEF r1, r2, r3, row
  <2> QED
    BY <2>1, <2>2 DEF IInv, TypeOK
<1>3. /\ row \in TaskRow /\ row.status = "running" /\ row.state = task[k].state
      /\ row.deleted = task[k].deleted /\ row.lockedBy = r /\ row.target = task[k].target
  <2>1. row \in TaskRow
    BY <1>1 DEF TaskRow, Active
  <2>2. /\ row.status = "running" /\ row.state = task[k].state
        /\ row.deleted = task[k].deleted /\ row.lockedBy = r /\ row.target = task[k].target
    BY <1>1 DEF TaskRow
  <2> QED
    BY <2>1, <2>2
<1>4. row.key <=> task[k].key
  BY <1>1, Zenon DEF TaskRow
<1>5. /\ g \in Goroutine /\ g.pc = "count" /\ g.task = k /\ g.runner = r
      /\ g.state = task[k].state /\ g.stray = 0 /\ g.ids = {}
  <2>1. Idle \in Goroutine /\ Idle.stray = 0 /\ Idle.ids = {}
    BY Records
  <2>2. g \in Goroutine
    BY <1>1, <2>1 DEF Goroutine
  <2>3. /\ g.pc = "count" /\ g.task = k /\ g.runner = r /\ g.state = task[k].state
        /\ g.stray = 0 /\ g.ids = {}
    BY <2>1 DEF Goroutine
  <2> QED
    BY <2>2, <2>3
<1>6. worker' = [worker EXCEPT ![w] = g]
  OBVIOUS
<1> HIDE DEF row, g
<1>7. task' \in [Tasks -> TaskRow]
  <2>1. task \in [Tasks -> TaskRow]
    BY DEF IInv, TypeOK
  <2> QED
    BY <1>2, <1>3, <2>1
<1>8. worker' \in [Workers -> Goroutine]
  <2>1. worker \in [Workers -> Goroutine]
    BY DEF IInv, TypeOK
  <2> QED
    BY <1>5, <1>6, <2>1
<1>9. /\ doubled' \in SUBSET Tasks /\ doubled \in SUBSET doubled'
      /\ \A v \in Workers : Working(v) /\ worker[v].task = k /\ worker[v].runner = r => k \in doubled'
  BY DEF IInv, TypeOK
<1>10. TypeOK'
  <2>1. pass' \in [Runners -> Tasks \cup {0}]
    BY DEF IInv, TypeOK
  <2> QED
    BY <1>7, <1>8, <1>9, <2>1 DEF IInv, TypeOK
<1>11. \A p \in Runners : pass'[p] # 0 => pass'[p] = pass[p]
  <2>1. pass \in [Runners -> Tasks \cup {0}]
    BY DEF IInv, TypeOK
  <2> QED
    BY <2>1
<1> QED
  <2>1. TakenRow(r, k, row)
    BY <1>3, <1>4, Zenon DEF TakenRow
  <2>2. NewGoroutine(r, k, g)
    BY <1>5 DEF NewGoroutine
  <2>3. Doubles(r, k) /\ UNCHANGED rows
    BY <1>9 DEF Doubles
  <2> QED
    BY <1>2, <1>6, <1>10, <1>11, <2>1, <2>2, <2>3, TakenStep

LEMMA ClaimStep ==
  ASSUME IInv, NEW r \in Runners, Claim(r)
  PROVE  IInv'
<1> DEFINE k == pass[r]
<1>1. /\ k \in Tasks /\ pass' = [pass EXCEPT ![r] = 0]
      /\ UNCHANGED <<operator, up, rows, receipts, faults, slow>>
  BY DEF Claim, IInv, TypeOK
<1>2. CASE MayClaim(r, k)
  <2>1. PICK w \in Workers :
          /\ ~Working(w)
          /\ worker' = [worker EXCEPT ![w] = [Idle EXCEPT !.pc = "count", !.task = k,
                                                 !.runner = r, !.state = task[k].state]]
    BY <1>2 DEF Claim
  <2>2. /\ task' = [task EXCEPT ![k].status = "running", ![k].lockedBy = r, ![k].lease = "held"]
        /\ doubled' = IF \E v \in Workers : Working(v) /\ worker[v].task = k
                                              /\ worker[v].runner = r
                      THEN doubled \cup {k} ELSE doubled
    BY <1>2 DEF Claim
  <2>3. task[k].status \in Active
    BY <1>2 DEF MayClaim
  <2> HIDE DEF k
  <2> QED
    BY <1>1, <2>1, <2>2, <2>3, TakeStep
<1>3. CASE ~MayClaim(r, k)
  <2>1. UNCHANGED <<task, worker, doubled>>
    BY <1>3 DEF Claim
  <2>2. TypeOK'
    BY <1>1, <2>1 DEF IInv, TypeOK
  <2>3. \A p \in Runners : pass'[p] # 0 => task[pass'[p]].status # "absent"
    BY <1>1 DEF IInv, TypeOK, OneAtATime
  <2> QED
    BY <1>1, <2>1, <2>2, <2>3, AsideStep
<1> QED
  BY <1>2, <1>3

-----------------------------------------------------------------------------
(* The theorems. *)

LEMMA WorkStep ==
  ASSUME IInv, NEW w \in Workers, Work(w)
  PROVE  IInv'
<1>1. CASE CountOldLog(w)
  BY <1>1, CountStep
<1>2. CASE SaveCount(w)
  BY <1>2, SaveStep
<1>3. CASE Pluck(w)
  BY <1>3, PluckStep
<1>4. CASE Delete(w)
  BY <1>4, DeleteStep
<1>5. CASE SaveBatch(w)
  BY <1>5, SaveStep
<1>6. CASE DeleteReceipts(w)
  BY <1>6, DeleteReceiptsStep
<1>7. CASE SaveReceipts(w)
  BY <1>7, SaveStep
<1>8. CASE Finish(w)
  BY <1>8, FinishStep
<1> QED
  BY <1>1, <1>2, <1>3, <1>4, <1>5, <1>6, <1>7, <1>8 DEF Work

LEMMA NextIInv == IInv /\ [Next]_vars => IInv'
<1> SUFFICES ASSUME IInv, [Next]_vars PROVE IInv'
  OBVIOUS
<1>1. ASSUME NEW o \in Operators, Start(o) \/ Create(o)
      PROVE  IInv'
  BY <1>1, StartStep, CreateStep
<1>2. ASSUME NEW r \in Runners, Find(r) \/ Claim(r) \/ Crash(r)
      PROVE  IInv'
  BY <1>2, FindStep, ClaimStep, CrashStep
<1>3. ASSUME NEW t \in Tasks, Lapse(t)
      PROVE  IInv'
  BY <1>3, LapseStep
<1>4. ASSUME NEW w \in Workers, Work(w) \/ DatabaseError(w)
      PROVE  IInv'
  BY <1>4, WorkStep, DatabaseErrorStep
<1>5. CASE UNCHANGED vars
  <2>1. UNCHANGED <<task, operator, up, pass, worker, rows, receipts, faults, slow, doubled>>
    BY <1>5 DEF vars
  <2>2. TypeOK'
    BY <2>1 DEF IInv, TypeOK
  <2> QED
    BY <2>1, <2>2, AsideStep DEF IInv, OneAtATime
<1> QED
  BY <1>1, <1>2, <1>3, <1>4, <1>5 DEF Next

LEMMA Invariance == Spec => []IInv
<1>1. Init => IInv
  BY InitIInv
<1>2. IInv /\ [Next]_vars => IInv'
  BY NextIInv
<1> QED
  BY <1>1, <1>2, PTL DEF Spec

(* A runner whose lease was taken over, or whose task ended, deletes at     *)
(* most the batch it had begun: UpdateSystemTaskState compares the holder   *)
(* and the status, ErrSystemTaskLockLost sends the goroutine home.  For     *)
(* every number of runners, goroutines, rows, faults and lapsed leases.     *)
THEOREM LateRunnerStops == Spec => []LoserStops
<1>1. IInv => LoserStops
  <2> SUFFICES ASSUME IInv, NEW w \in Workers
               PROVE  worker[w].stray <= 1
    BY DEF LoserStops
  <2>1. worker[w].stray # 0 => worker[w].stray = 1
    BY DEF IInv, WorkerOK
  <2> QED
    BY <2>1
<1> QED
  BY <1>1, Invariance, PTL

(* A cleanup that FinishSystemTask marks succeeded left no log older than   *)
(* the target of its own payload, and its deleted_count is for rows that no *)
(* cleanup was done with before, whatever dates the administrators ask for  *)
(* and whoever else still deletes; active_key lets one cleanup be under way *)
(* at a time.  Every variable keeps its type.                               *)
THEOREM SuccessLeavesNothing == Spec => []SuccessIsClean
<1>1. IInv => SuccessIsClean
  <2> SUFFICES ASSUME IInv
               PROVE  SuccessIsClean
    OBVIOUS
  <2>1. \A t \in Tasks : task[t].status = "succeeded" => Older(rows, task[t].target) = {}
    BY DEF IInv, RowOK, Left
  <2>2. \A t \in Tasks : task[t].deleted <= Cardinality(Reportable(t))
    BY DEF IInv, RowOK, Size
  <2> QED
    BY <2>1, <2>2 DEF SuccessIsClean, IInv, RowOK, OneAtATime
<1> QED
  BY <1>1, Invariance, PTL

(* The first cleanup reports every old row there was, over any sequence of  *)
(* crashes, failed statements, saves taken for lost and changes of runner:  *)
(* the total that syncLogCleanupStateFromRemaining saved before the first   *)
(* deletion is what every recount is measured against.  Unless a runner     *)
(* reclaimed the task from its own goroutine.                               *)
THEOREM ReportSurvivesTakeover == Spec => []ReportIsWhole
<1>1. IInv => ReportIsWhole
  BY FirstShare DEF IInv, FirstWhole, ReportIsWhole
<1> QED
  BY <1>1, Invariance, PTL

(* What a step does to the rows: the status is compared by every write. *)
Kept ==
  \A t \in Tasks :
    /\ task[t].status \in Terminal => task'[t] = task[t]
    /\ t \notin doubled' => task'[t].state.processed >= task[t].state.processed

LEMMA KeptStep ==
  ASSUME IInv, [Next]_vars
  PROVE  Kept
<1> SUFFICES ASSUME NEW t \in Tasks
             PROVE  /\ task[t].status \in Terminal => task'[t] = task[t]
                    /\ t \notin doubled' => task'[t].state.processed >= task[t].state.processed
  BY DEF Kept
<1>1. /\ task[t].state.processed \in Nat /\ task \in [Tasks -> TaskRow]
      /\ task[t].status \in Terminal => task[t].status \notin Active \cup {"absent", "running"}
  BY Types DEF IInv, TypeOK, Active, Terminal
<1>2. CASE task'[t] = task[t]
  BY <1>1, <1>2
<1>3. ASSUME NEW o \in Operators, Start(o) \/ Create(o), task'[t] # task[t]
      PROVE  task[t].status = "absent" /\ task'[t].state = task[t].state
  <2>1. PICK k \in Tasks, target \in Targets :
          /\ \A u \in Tasks : (task[u].status = "absent") <=> (u >= k)
          /\ task' = [task EXCEPT ![k] = [NoTask EXCEPT !.status = "pending", !.key = TRUE,
                                                      !.target = target]]
    BY <1>3 DEF Start, Create, Join
  <2>2. t = k
    BY <1>1, <1>3, <2>1
  <2>3. task[t].status = "absent" /\ task[t] = NoTask
    BY <2>1, <2>2, CleanupAssumption DEF Tasks, IInv, RowOK
  <2>4. task'[t] = [NoTask EXCEPT !.status = "pending", !.key = TRUE, !.target = target]
    BY <1>1, <2>1, <2>2
  <2>5. task'[t].state = NoTask.state
    BY <2>4 DEF NoTask
  <2> QED
    BY <2>3, <2>5
<1>4. ASSUME NEW r \in Runners, Find(r) \/ Claim(r) \/ Crash(r), task'[t] # task[t]
      PROVE  task[t].status \in Active /\ task'[t].state = task[t].state
  <2> DEFINE k == pass[r]
  <2>1. /\ MayClaim(r, k)
        /\ task' = [task EXCEPT ![k].status = "running", ![k].lockedBy = r, ![k].lease = "held"]
    BY <1>4 DEF Find, Claim, Crash
  <2> HIDE DEF k
  <2>2. t = k
    BY <1>1, <1>4, <2>1
  <2>3. task'[t].state = task[t].state
    BY <1>1, <2>1, <2>2, Types DEF TaskRow
  <2> QED
    BY <2>1, <2>2, <2>3 DEF MayClaim
<1>5. ASSUME NEW k \in Tasks, Lapse(k), task'[t] # task[t]
      PROVE  task[t].status \notin Terminal /\ task'[t].state = task[t].state
  <2>1. task' = [task EXCEPT ![k].lease = "lapsed"] /\ task[k].lease = "held"
    BY <1>5 DEF Lapse
  <2>2. t = k
    BY <1>1, <1>5, <2>1
  <2>3. task'[t].state = task[t].state
    BY <1>1, <2>1, <2>2, Types DEF TaskRow
  <2> QED
    BY <2>1, <2>2, <2>3 DEF IInv, RowOK
<1>6. ASSUME NEW w \in Workers, Work(w) \/ DatabaseError(w), task'[t] # task[t]
      PROVE  /\ task[t].status = "running"
             /\ t \notin doubled' => task'[t].state.processed >= task[t].state.processed
  <2> DEFINE k == worker[w].task
  <2>1. CASE \E next : Save(w, next) /\ Working(w)
    <3>1. PICK next : Save(w, next)
      BY <2>1
    <3>2. Written(w, next) /\ Holds(w) /\ UNCHANGED doubled
      BY <1>6, <3>1 DEF Save, Written, GivesUp, outside
    <3>3. task' = [task EXCEPT ![k].state = worker[w].state, ![k].lease = "held"]
      BY <3>2 DEF Written
    <3>4. t = k
      BY <1>1, <1>6, <3>3
    <3>5. task'[t].state = worker[w].state
      BY <1>1, <3>3, <3>4, Types DEF TaskRow
    <3>6. t \notin doubled => task[t].state.processed <= worker[w].state.processed
      BY <2>1, <3>2, <3>4 DEF IInv, OneHolder
    <3>7. worker[w].state.processed \in Nat
      BY Types
    <3> QED
      BY <1>1, <3>2, <3>4, <3>5, <3>6, <3>7 DEF Holds
  <2>2. CASE Finish(w)
    <3>1. Holds(w)
      BY <1>6, <2>2 DEF Finish
    <3>2. PICK status, deleted : task' = [task EXCEPT ![k] = Ended(task[k], status, deleted)]
      BY <1>1, <2>2, <3>1, Types DEF Finish
    <3>3. t = k
      BY <1>1, <1>6, <3>2
    <3>4. task'[t].state = task[t].state
      BY <1>1, <3>2, <3>3, Types DEF TaskRow, Ended
    <3> QED
      BY <1>1, <3>1, <3>3, <3>4 DEF Holds
  <2>3. CASE ~Finish(w) /\ ~\E next : Save(w, next) /\ Working(w)
    BY <1>6, <2>3 DEF Work, CountOldLog, SaveCount, Pluck, Delete, SaveBatch, DeleteReceipts,
                      SaveReceipts, DatabaseError, Working
  <2> QED
    BY <2>1, <2>2, <2>3
<1> QED
  BY <1>1, <1>2, <1>3, <1>4, <1>5, <1>6 DEF Next, vars

(* The row of a cleanup that ended is never written again, and the          *)
(* processed count an administrator watches never falls while runners hand  *)
(* the task on: each save is one of the goroutine that holds the row, and   *)
(* that goroutine started from what was saved.                              *)
THEOREM ProgressSurvivesTakeover == Spec => ProgressIsKept
<1>1. IInv /\ [Next]_vars => [Kept]_vars
  BY KeptStep
<1>2. Spec => [][Kept]_vars
  BY <1>1, Invariance, PTL DEF Spec
<1> QED
  BY <1>2 DEF ProgressIsKept, Kept

-----------------------------------------------------------------------------
(* The log maintenance page.                                               *)

Snaps == [id: Tasks \cup {0}, status: {"absent"} \cup Active \cup Terminal, processed: Nat]
GoodSnap(s) == s \in Snaps /\ (s.id = 0 => s = Nothing)
Polled == [pc: {"none", "sent", "answered"}, snap: Snaps, waiters: Nat]

(* u may follow s on the screen, a reclaimed task (one of D) with a lower  *)
(* count; s is no news beside the row.                                     *)
AtMost(D, s, u) ==
  /\ s.id \notin D => s.processed <= u.processed
  /\ s.status \in Terminal => u = s
Behind(s) == AtMost(doubled, s, Snapshot(task[s.id], s.id))

PageTyped ==
  /\ GoodSnap(screen) /\ GoodSnap(first.snap) /\ GoodSnap(reply.snap)
  /\ polls \in [Requests -> Polled]
  /\ effect = NoEffect \/ effect.id \in Tasks

(* The answer of the one poll under way is about the task of the effect,   *)
(* read after the answer on the screen and not after the row as it is.     *)
AnswerOK(q) ==
  /\ polls[q].snap.id = effect.id /\ Behind(polls[q].snap)
  /\ polled /\ screen.id = effect.id => AtMost(doubled, screen, polls[q].snap)
PollOK(q) ==
  polls[q].pc # "none" =>
    /\ effect.id \in Tasks
    /\ \A r \in Requests : polls[r].pc # "none" => q = r
    /\ polls[q].pc = "answered" => AnswerOK(q)
ScreenOK == polled => screen.id \in Tasks /\ Behind(screen)

PageInv == PageTyped /\ ScreenOK /\ \A q \in Requests : PollOK(q)

LEMMA NothingGood == GoodSnap(Nothing)
BY CleanupAssumption DEF GoodSnap, Snaps, Nothing, Tasks

LEMMA NoPollTyped == NoPoll \in Polled
BY NothingGood DEF NoPoll, Polled, GoodSnap

LEMMA RowTyped ==
  ASSUME NEW row \in TaskRow
  PROVE  row.status \in {"absent"} \cup Active \cup Terminal /\ row.state.processed \in Nat
<1>1. row.status \in {"absent"} \cup Active \cup Terminal /\ row.state \in Progress
  BY DEF TaskRow
<1>2. row.state.processed \in Count
  BY <1>1 DEF Progress
<1>3. N \in Nat /\ Count = 0..N
  BY LogSize DEF Count, N
<1> QED
  BY <1>1, <1>2, <1>3

LEMMA RowSnap ==
  ASSUME NEW row \in TaskRow, NEW t \in Tasks
  PROVE  GoodSnap(Snapshot(row, t))
<1>1. row.status \in {"absent"} \cup Active \cup Terminal /\ row.state.processed \in Nat
  BY RowTyped
<1>2. t # 0
  BY CleanupAssumption DEF Tasks
<1> QED
  BY <1>1, <1>2 DEF Snapshot, GoodSnap, Snaps

LEMMA PageInit == ConsoleInit => PageInv
<1> SUFFICES ASSUME ConsoleInit
             PROVE  PageInv
  OBVIOUS
<1>1. first.snap = Nothing /\ reply.snap = Nothing /\ screen = Nothing
  BY DEF ConsoleInit, NoRequest
<1>2. PageTyped
  BY <1>1, NothingGood, NoPollTyped DEF ConsoleInit, PageTyped
<1>3. ScreenOK
  BY DEF ConsoleInit, ScreenOK
<1>4. ASSUME NEW q \in Requests
      PROVE  PollOK(q)
  BY DEF ConsoleInit, PollOK, NoPoll
<1> QED
  BY <1>2, <1>3, <1>4 DEF PageInv

LEMMA DoubledGrows ==
  ASSUME [Next]_vars
  PROVE  doubled \subseteq doubled'
BY DEF Next, vars, Start, Create, Join, cleaning, Find, Claim, Crash, Lapse, Work,
       DatabaseError, outside, CountOldLog, SaveCount, Save, Written, GivesUp, Pluck, Delete,
       SaveBatch, DeleteReceipts, SaveReceipts, Finish

(* A row goes on from what was read of it.                                 *)
LEMMA BehindKept ==
  ASSUME IInv, IInv', [Next]_vars, NEW s \in Snaps, s.id \in Tasks, Behind(s)
  PROVE  AtMost(doubled', s, Snapshot(task'[s.id], s.id))
<1> DEFINE t == s.id
<1>1. task[t] \in TaskRow /\ task'[t] \in TaskRow
  BY DEF IInv, TypeOK
<1>2. /\ task[t].status \in Terminal => task'[t] = task[t]
      /\ t \notin doubled' => task'[t].state.processed >= task[t].state.processed
      /\ t \notin doubled' => t \notin doubled
  BY KeptStep, DoubledGrows DEF Kept
<1>3. task[t].state.processed \in Nat /\ task'[t].state.processed \in Nat
  BY <1>1, RowTyped
<1>4. /\ t \notin doubled => s.processed <= task[t].state.processed
      /\ s.status \in Terminal => Snapshot(task[t], t) = s
  BY DEF Behind, AtMost, Snapshot
<1>5. ASSUME t \notin doubled'
      PROVE  s.processed <= task'[t].state.processed
  <2>1. PICK a \in Nat, b \in Nat : a = task[t].state.processed /\ b = task'[t].state.processed
    BY <1>3
  <2>2. s.processed \in Nat
    BY DEF Snaps
  <2>3. s.processed <= a /\ b >= a
    BY <1>2, <1>4, <1>5, <2>1
  <2> QED
    BY <2>1, <2>2, <2>3
<1>6. ASSUME s.status \in Terminal
      PROVE  Snapshot(task'[t], t) = s
  <2>1. task[t].status = s.status
    BY <1>4, <1>6 DEF Snapshot
  <2> QED
    BY <1>2, <1>4, <1>6, <2>1
<1> QED
  BY <1>5, <1>6 DEF AtMost, Snapshot

(* What the console does is done by an operator, or to nobody's rows.      *)
LEMMA ConsoleStep == ConsoleNext => [Next]_vars
<1>1. Browse => [Next]_vars
  <2>1. StartServed => Next
    BY ConsoleAssumption DEF StartServed, Next
  <2> QED
    BY <2>1 DEF Browse, FirstServed, FirstShown, StartShown, Render, Tick, PollServed, PollShown
<1>2. Elsewhere => Next
  BY DEF Elsewhere
<1> QED
  BY <1>1, <1>2 DEF ConsoleNext, OpenDialog, Confirm, Lose

(* The rows move on behind what the page holds.                            *)
Onward == IInv /\ IInv' /\ [Next]_vars /\ PageInv

LEMMA ScreenKept ==
  ASSUME Onward, UNCHANGED <<screen, polled>>
  PROVE  ScreenOK'
<1> SUFFICES ASSUME polled
             PROVE  screen.id \in Tasks /\ AtMost(doubled', screen, Snapshot(task'[screen.id], screen.id))
  BY DEF ScreenOK, Behind
<1>1. screen.id \in Tasks /\ Behind(screen) /\ screen \in Snaps
  BY DEF Onward, PageInv, PageTyped, ScreenOK, GoodSnap
<1> QED
  BY <1>1, BehindKept DEF Onward

LEMMA AnswerKept ==
  ASSUME Onward, NEW q \in Requests, polls[q].pc = "answered",
         polls'[q].snap = polls[q].snap, effect'.id = effect.id,
         polled' => polled /\ screen' = screen
  PROVE  AnswerOK(q)'
<1> DEFINE s == polls[q].snap
<1>1. effect.id \in Tasks /\ AnswerOK(q)
  BY DEF Onward, PageInv, PollOK
<1>2. s \in Snaps
  BY DEF Onward, PageInv, PageTyped, Polled
<1>3. s.id \in Tasks /\ Behind(s)
  BY <1>1 DEF AnswerOK
<1>4. AtMost(doubled', s, Snapshot(task'[s.id], s.id))
  BY <1>2, <1>3, BehindKept DEF Onward
<1>5. Behind(polls[q].snap)'
  BY <1>4 DEF Behind
<1>6. polled' /\ screen'.id = effect'.id => AtMost(doubled', screen', polls'[q].snap)
  BY <1>1, DoubledGrows DEF AnswerOK, AtMost, Onward
<1> QED
  BY <1>1, <1>5, <1>6 DEF AnswerOK

(* Nothing on the screen and no poll changes.                              *)
LEMMA PageKept ==
  ASSUME Onward, UNCHANGED <<screen, polled, effect, polls>>,
         GoodSnap(first'.snap), GoodSnap(reply'.snap)
  PROVE  PageInv'
<1>1. PageTyped'
  BY DEF Onward, PageInv, PageTyped
<1>2. ScreenOK'
  BY ScreenKept
<1>3. ASSUME NEW q \in Requests
      PROVE  PollOK(q)'
  <2>1. polls[q].pc = "answered" => AnswerOK(q)'
    BY AnswerKept
  <2> QED
    BY <2>1 DEF Onward, PageInv, PollOK
<1> QED
  BY <1>1, <1>2, <1>3 DEF PageInv

LEMMA AnswerStep ==
  ASSUME Onward, FirstServed \/ StartServed
  PROVE  PageInv'
<1>1. \A t \in Tasks : GoodSnap(Snapshot(task[t], t)) /\ GoodSnap(Snapshot(task'[t], t))
  BY RowSnap DEF Onward, IInv, TypeOK
<1>2. CASE FirstServed
  <2>1. first'.snap = Current
    BY <1>2 DEF FirstServed
  <2>2. ActiveTasks # {} => Max(ActiveTasks) \in Tasks
    BY JoinType DEF Onward
  <2>3. GoodSnap(Current)
    BY <1>1, <2>2, NothingGood DEF Current
  <2> QED
    BY <1>2, <2>1, <2>3, PageKept DEF FirstServed, Onward, PageInv, PageTyped
<1>3. CASE StartServed
  <2>1. operator'[Console].got \in Tasks \cup {0}
    BY ConsoleAssumption DEF Onward, IInv, TypeOK
  <2>2. CASE reply' = reply
    BY <1>3, <2>2, PageKept DEF StartServed, Onward, PageInv, PageTyped
  <2>3. CASE reply' = [pc |-> "answered",
                       snap |-> IF operator'[Console].got = 0 THEN Nothing
                                ELSE Snapshot(task'[operator'[Console].got],
                                              operator'[Console].got)]
    <3>1. GoodSnap(reply'.snap)
      BY <1>1, <2>1, <2>3, NothingGood
    <3> QED
      BY <1>3, <3>1, PageKept DEF StartServed, Onward, PageInv, PageTyped
  <2> QED
    BY <1>3, <2>2, <2>3 DEF StartServed
<1> QED
  BY <1>2, <1>3

(* An answer that is no poll's is shown: the screen starts anew.           *)
LEMMA ShownStep ==
  ASSUME Onward, FirstShown \/ StartShown
  PROVE  PageInv'
<1>1. /\ GoodSnap(first'.snap) /\ GoodSnap(reply'.snap) /\ UNCHANGED <<effect, polls>>
      /\ UNCHANGED <<screen, polled>> \/ (GoodSnap(screen') /\ polled' = FALSE)
  <2>1. first'.snap \in {first.snap, Nothing} /\ reply'.snap \in {reply.snap, Nothing}
    <3>1. \A x : [NoRequest EXCEPT !.pc = x].snap = Nothing
      BY DEF NoRequest
    <3>2. NoRequest.snap = Nothing
      BY DEF NoRequest
    <3>3. FirstShown => first'.snap = Nothing /\ reply' = reply
      BY <3>1 DEF FirstShown
    <3>4. StartShown => reply'.snap = Nothing /\ first' = first
      BY <3>2 DEF StartShown
    <3> QED
      BY <3>3, <3>4
  <2>2. UNCHANGED <<screen, polled>> \/ (screen' \in {first.snap, reply.snap} /\ polled' = FALSE)
    BY DEF FirstShown, StartShown, Show
  <2>3. UNCHANGED <<effect, polls>>
    BY DEF FirstShown, StartShown
  <2> QED
    BY <2>1, <2>2, <2>3, NothingGood DEF Onward, PageInv, PageTyped
<1>2. CASE UNCHANGED <<screen, polled>>
  BY <1>1, <1>2, PageKept
<1>3. CASE GoodSnap(screen') /\ polled' = FALSE
  <2>1. PageTyped'
    BY <1>1, <1>3 DEF Onward, PageInv, PageTyped
  <2>2. ScreenOK'
    BY <1>3 DEF ScreenOK
  <2>3. ASSUME NEW q \in Requests
        PROVE  PollOK(q)'
    <3>1. polls[q].pc = "answered" => AnswerOK(q)'
      BY <1>1, <1>3, AnswerKept
    <3> QED
      BY <1>1, <3>1 DEF Onward, PageInv, PollOK
  <2> QED
    BY <2>1, <2>2, <2>3 DEF PageInv
<1> QED
  BY <1>1, <1>2, <1>3

(* A render installs the polling of the task on the screen, which joins    *)
(* the poll under way when it is the same one.                             *)
LEMMA RenderStep ==
  ASSUME Onward, Render
  PROVE  PageInv'
<1>1. /\ effect' = Key
      /\ polls' = [q \in Requests |-> IF Key.id = effect.id THEN [polls[q] EXCEPT !.waiters = 0]
                                      ELSE NoPoll]
      /\ UNCHANGED <<screen, first, reply, polled>>
  BY DEF Render
<1>2. Key = NoEffect \/ Key.id \in Tasks
  <2>1. ASSUME ShowsActive(screen)
        PROVE  screen.id \in Tasks
    BY <2>1 DEF ShowsActive, Onward, PageInv, PageTyped, GoodSnap, Snaps, Nothing, Active
  <2> QED
    BY <2>1 DEF Key
<1>3. \A q \in Requests : /\ polls[q] \in Polled /\ NoPoll \in Polled
                          /\ [polls[q] EXCEPT !.waiters = 0] \in Polled
  BY NoPollTyped DEF Onward, PageInv, PageTyped, Polled
<1>4. PageTyped'
  BY <1>1, <1>2, <1>3 DEF Onward, PageInv, PageTyped
<1>5. ScreenOK'
  BY <1>1, ScreenKept
<1>6. ASSUME NEW q \in Requests, polls'[q].pc # "none"
      PROVE  Key.id = effect.id /\ polls'[q].pc = polls[q].pc /\ polls'[q].snap = polls[q].snap
  <2>1. polls'[q] = IF Key.id = effect.id THEN [polls[q] EXCEPT !.waiters = 0] ELSE NoPoll
    BY <1>1
  <2>2. polls[q] \in Polled /\ NoPoll.pc = "none"
    BY <1>3 DEF NoPoll
  <2>3. Key.id = effect.id /\ polls'[q] = [polls[q] EXCEPT !.waiters = 0]
    BY <1>6, <2>1, <2>2
  <2> QED
    BY <2>2, <2>3 DEF Polled
<1>7. ASSUME NEW q \in Requests
      PROVE  PollOK(q)'
  <2> SUFFICES ASSUME polls'[q].pc # "none"
               PROVE  /\ effect'.id \in Tasks
                      /\ \A r \in Requests : polls'[r].pc # "none" => q = r
                      /\ polls'[q].pc = "answered" => AnswerOK(q)'
    BY DEF PollOK
  <2>1. polls[q].pc # "none" /\ PollOK(q) /\ effect'.id = effect.id
    BY <1>1, <1>6 DEF Onward, PageInv
  <2>2. \A r \in Requests : polls'[r].pc # "none" => q = r
    BY <1>6, <2>1 DEF PollOK
  <2>3. polls'[q].pc = "answered" => AnswerOK(q)'
    BY <1>1, <1>6, <2>1, AnswerKept
  <2> QED
    BY <2>1, <2>2, <2>3 DEF PollOK
<1> QED
  BY <1>4, <1>5, <1>7 DEF PageInv

LEMMA AskedPoll ==
  ASSUME NEW e \in Polled, NEW x \in {"none", "sent", "answered"}
  PROVE  /\ [e EXCEPT !.waiters = 1, !.pc = x] \in Polled
         /\ [e EXCEPT !.waiters = 1, !.pc = x].snap = e.snap
         /\ [e EXCEPT !.waiters = 1, !.pc = x].pc = x
<1> DEFINE f == [e EXCEPT !.waiters = 1]
<1>1. f \in Polled /\ f.snap = e.snap
  BY DEF Polled
<1> HIDE DEF f
<1>2. /\ [f EXCEPT !.pc = x] \in Polled
      /\ [f EXCEPT !.pc = x].snap = f.snap
      /\ [f EXCEPT !.pc = x].pc = x
  BY <1>1 DEF Polled
<1>3. [e EXCEPT !.waiters = 1, !.pc = x] = [f EXCEPT !.pc = x]
  BY DEF f
<1> QED
  BY <1>1, <1>2, <1>3

(* A tick asks, unless a poll is under way for it to join.                 *)
LEMMA TickStep ==
  ASSUME Onward, Tick
  PROVE  PageInv'
<1>1. PICK p \in Requests :
        /\ Joins(p)
        /\ polls' = [polls EXCEPT ![p] = Asked(p)]
  BY DEF Tick
<1>2. UNCHANGED <<screen, effect, first, reply, polled>> /\ effect # NoEffect
  BY DEF Tick
<1>3. polls \in [Requests -> Polled] /\ effect.id \in Tasks
  BY <1>2 DEF Onward, PageInv, PageTyped
<1>4. /\ polls'[p] \in Polled /\ polls'[p].snap = polls[p].snap
      /\ polls'[p].pc = IF polls[p].pc = "none" THEN "sent" ELSE polls[p].pc
  <2> DEFINE asked == IF polls[p].pc = "none" THEN "sent" ELSE polls[p].pc
  <2>1. polls'[p] = [polls[p] EXCEPT !.waiters = 1, !.pc = asked]
    BY <1>1, <1>3 DEF Asked
  <2>2. polls[p] \in Polled /\ asked \in {"none", "sent", "answered"}
    BY <1>3 DEF Polled
  <2> HIDE DEF asked
  <2>3. polls'[p] \in Polled /\ polls'[p].snap = polls[p].snap /\ polls'[p].pc = asked
    <3> DEFINE e == polls[p]
               f == [e EXCEPT !.waiters = 1, !.pc = asked]
    <3>1. f \in Polled /\ f.snap = e.snap /\ f.pc = asked
      <4>1. e \in Polled
        BY <2>2
      <4> HIDE DEF e
      <4> QED
        BY <2>2, <4>1, AskedPoll
    <3>2. polls'[p] = f
      BY <2>1
    <3> HIDE DEF f
    <3> QED
      BY <3>1, <3>2
  <2> QED
    BY <2>3 DEF asked
<1>5. \A q \in Requests : q # p => polls'[q] = polls[q] /\ polls[q].pc = "none"
  <2>1. \A q \in Requests : q # p => polls'[q] = polls[q]
    BY <1>1, <1>3
  <2>2. \A q \in Requests : q # p => polls[q].pc = "none"
    BY <1>1 DEF Joins, UnderWay, Onward, PageInv, PollOK
  <2> QED
    BY <2>1, <2>2
<1>6. PageTyped'
  <2>1. polls' \in [Requests -> Polled]
    BY <1>1, <1>3, <1>4, <1>5
  <2> QED
    BY <1>2, <2>1 DEF Onward, PageInv, PageTyped
<1>7. ScreenOK'
  BY <1>2, ScreenKept
<1>8. ASSUME NEW q \in Requests, polls'[q].pc # "none"
      PROVE  /\ \A r \in Requests : polls'[r].pc # "none" => q = r
             /\ polls'[q].pc = "answered" => AnswerOK(q)'
  <2>1. q = p
    BY <1>5, <1>8
  <2>2. polls'[q].pc = "answered" => polls[q].pc = "answered"
    BY <1>4, <2>1
  <2>3. polls'[q].pc = "answered" => AnswerOK(q)'
    BY <1>2, <1>4, <2>1, <2>2, AnswerKept
  <2> QED
    BY <1>5, <2>1, <2>3
<1> QED
  BY <1>2, <1>3, <1>6, <1>7, <1>8 DEF PageInv, PollOK

(* A poll is answered from the row as it is.                               *)
LEMMA PollServedStep ==
  ASSUME Onward, NEW p \in Requests, PollServed(p)
  PROVE  PageInv'
<1> DEFINE now == Snapshot(task[effect.id], effect.id)
<1>1. /\ polls' = [polls EXCEPT ![p].pc = "answered", ![p].snap = now]
      /\ UNCHANGED <<vars, screen, effect, first, reply, polled>> /\ polls[p].pc = "sent"
  BY DEF PollServed
<1>2. /\ polls \in [Requests -> Polled] /\ effect.id \in Tasks
      /\ \A r \in Requests : polls[r].pc # "none" => p = r
  BY <1>1 DEF Onward, PageInv, PageTyped, PollOK
<1>3. GoodSnap(now) /\ now.id = effect.id
  <2>1. task[effect.id] \in TaskRow
    BY <1>2 DEF Onward, IInv, TypeOK
  <2> QED
    BY <1>2, <2>1, RowSnap DEF Snapshot
<1>4. polls'[p] = [polls[p] EXCEPT !.pc = "answered", !.snap = now]
  BY <1>1, <1>2
<1>5. polls'[p] \in Polled /\ polls'[p].snap = now /\ polls'[p].pc = "answered"
  BY <1>2, <1>3, <1>4 DEF Polled, GoodSnap
<1>6. \A q \in Requests : q # p => polls'[q] = polls[q]
  BY <1>1, <1>2
<1>7. PageTyped'
  <2>1. polls' \in [Requests -> Polled]
    BY <1>1, <1>2, <1>5, <1>6
  <2> QED
    BY <1>1, <2>1 DEF Onward, PageInv, PageTyped
<1>8. ScreenOK'
  BY <1>1, ScreenKept
<1>9. AnswerOK(p)'
  <2>1. now.processed <= now.processed
    BY <1>3 DEF GoodSnap, Snaps
  <2>2. UNCHANGED <<task, doubled>>
    BY <1>1 DEF vars
  <2>3. Snapshot(task'[now.id], now.id) = now
    BY <1>3, <2>2
  <2>4. AtMost(doubled, now, Snapshot(task'[now.id], now.id))
    BY <2>1, <2>3 DEF AtMost
  <2>5. polled /\ screen.id = effect.id => AtMost(doubled, screen, now)
    BY DEF Onward, PageInv, ScreenOK, Behind
  <2> HIDE DEF now
  <2> QED
    BY <1>1, <1>3, <1>5, <2>2, <2>4, <2>5 DEF AnswerOK, Behind
<1>10. ASSUME NEW q \in Requests
       PROVE  PollOK(q)'
  BY <1>1, <1>2, <1>6, <1>9 DEF PollOK
<1> QED
  BY <1>7, <1>8, <1>10 DEF PageInv

(* A poll's answer is shown, or nobody waits for it; the next one is asked *)
(* after it.                                                               *)
LEMMA PollShownStep ==
  ASSUME Onward, NEW p \in Requests, PollShown(p)
  PROVE  /\ PageInv'
         /\ polled /\ polled' /\ screen'.id = screen.id => AtMost(doubled, screen, screen')
<1>1. /\ polls' = [polls EXCEPT ![p] = NoPoll] /\ polls[p].pc = "answered"
      /\ UNCHANGED <<vars, effect, first, reply>>
  BY DEF PollShown
<1>2. /\ polls \in [Requests -> Polled] /\ polls[p].snap \in Snaps
      /\ effect.id \in Tasks /\ AnswerOK(p)
      /\ \A r \in Requests : polls[r].pc # "none" => p = r
  BY <1>1 DEF Onward, PageInv, PageTyped, PollOK, Polled
<1>3. effect.id # 0
  BY <1>2, CleanupAssumption DEF Tasks
<1>4. UNCHANGED <<screen, polled>> \/ screen' = polls[p].snap
  BY DEF PollShown, Show
<1>5. polls' \in [Requests -> Polled] /\ \A q \in Requests : polls'[q].pc = "none"
  <2>1. NoPoll.pc = "none"
    BY DEF NoPoll
  <2> QED
    BY <1>1, <1>2, <2>1, NoPollTyped
<1>6. \A q \in Requests : PollOK(q)'
  BY <1>5 DEF PollOK
<1>7. CASE UNCHANGED <<screen, polled>>
  <2>1. PageTyped'
    BY <1>1, <1>5, <1>7 DEF Onward, PageInv, PageTyped
  <2>2. ScreenOK'
    BY <1>7, ScreenKept
  <2>3. polled => AtMost(doubled, screen, screen)
    BY DEF Onward, PageInv, PageTyped, GoodSnap, Snaps, AtMost
  <2> QED
    BY <1>6, <1>7, <2>1, <2>2, <2>3 DEF PageInv
<1>8. CASE screen' = polls[p].snap
  <2>1. polls[p].snap.id = effect.id /\ Behind(polls[p].snap)
    BY <1>2 DEF AnswerOK
  <2>2. GoodSnap(screen') /\ screen'.id \in Tasks
    BY <1>2, <1>3, <1>8, <2>1 DEF GoodSnap
  <2>3. PageTyped'
    BY <1>1, <1>5, <2>2 DEF Onward, PageInv, PageTyped
  <2>4. Behind(screen)'
    BY <1>1, <1>8, <2>1 DEF Behind, vars
  <2>5. ScreenOK'
    BY <2>2, <2>4 DEF ScreenOK
  <2>6. polled /\ screen'.id = screen.id => AtMost(doubled, screen, screen')
    BY <1>2, <1>8, <2>1 DEF AnswerOK
  <2> QED
    BY <1>6, <2>3, <2>5, <2>6 DEF PageInv
<1> QED
  BY <1>4, <1>7, <1>8

(* An answer that is lost leaves no trace.                                 *)
LEMMA LoseStep ==
  ASSUME Onward, Lose
  PROVE  PageInv'
<1>1. UNCHANGED <<vars, screen, effect, polled>>
  BY DEF Lose
<1>2. /\ first'.snap \in {first.snap, Nothing} /\ reply'.snap \in {reply.snap, Nothing}
      /\ polls' = polls \/ \E p \in Requests : polls' = [polls EXCEPT ![p] = NoPoll]
  <2>1. NoRequest.snap = Nothing /\ [NoRequest EXCEPT !.pc = "done"].snap = Nothing
    BY DEF NoRequest
  <2>2. first' \in {first, [NoRequest EXCEPT !.pc = "done"]} /\ reply' \in {reply, NoRequest}
    BY DEF Lose
  <2>3. polls' = polls \/ \E p \in Requests : polls' = [polls EXCEPT ![p] = NoPoll]
    BY DEF Lose
  <2> QED
    BY <2>1, <2>2, <2>3
<1>3. GoodSnap(first'.snap) /\ GoodSnap(reply'.snap)
  BY <1>2, NothingGood DEF Onward, PageInv, PageTyped
<1>4. CASE polls' = polls
  BY <1>1, <1>3, <1>4, PageKept
<1>5. ASSUME NEW p \in Requests, polls' = [polls EXCEPT ![p] = NoPoll]
      PROVE  PageInv'
  <2>1. polls \in [Requests -> Polled]
    BY DEF Onward, PageInv, PageTyped
  <2>2. \A q \in Requests : polls'[q] = IF q = p THEN NoPoll ELSE polls[q]
    BY <1>5, <2>1
  <2>3. polls' \in [Requests -> Polled]
    BY <1>5, <2>1, NoPollTyped
  <2>4. PageTyped'
    BY <1>1, <1>3, <2>3 DEF Onward, PageInv, PageTyped
  <2>5. ScreenOK'
    BY <1>1, ScreenKept
  <2>6. ASSUME NEW q \in Requests, polls'[q].pc # "none"
        PROVE  /\ effect'.id \in Tasks
               /\ \A r \in Requests : polls'[r].pc # "none" => q = r
               /\ polls'[q].pc = "answered" => AnswerOK(q)'
    <3>1. \A r \in Requests : polls'[r].pc # "none" => polls'[r] = polls[r]
      BY <2>2 DEF NoPoll
    <3>2. polls[q].pc # "none" /\ PollOK(q)
      BY <2>6, <3>1 DEF Onward, PageInv
    <3>3. polls'[q].pc = "answered" => AnswerOK(q)'
      BY <1>1, <2>6, <3>1, AnswerKept
    <3> QED
      BY <1>1, <3>1, <3>2, <3>3 DEF PollOK
  <2> QED
    BY <2>4, <2>5, <2>6 DEF PageInv, PollOK
<1> QED
  BY <1>2, <1>4, <1>5

LEMMA PageStep ==
  ASSUME IInv, PageInv, [ConsoleNext]_consoleVars
  PROVE  /\ IInv' /\ PageInv'
         /\ polled /\ polled' /\ screen'.id = screen.id => AtMost(doubled, screen, screen')
<1>1. [Next]_vars
  BY ConsoleStep DEF consoleVars
<1>2. Onward
  BY <1>1, NextIInv DEF Onward
<1>3. AtMost(doubled, screen, screen)
  BY DEF PageInv, PageTyped, GoodSnap, Snaps, AtMost
<1>4. CASE FirstServed \/ StartServed
  <2>1. UNCHANGED <<screen, polled>>
    BY <1>4 DEF FirstServed, StartServed
  <2> QED
    BY <1>2, <1>3, <1>4, <2>1, AnswerStep DEF Onward
<1>5. CASE FirstShown \/ StartShown
  <2>1. UNCHANGED <<screen, polled>> \/ polled' = FALSE
    BY <1>5 DEF FirstShown, StartShown, Show
  <2> QED
    BY <1>2, <1>3, <1>5, <2>1, ShownStep DEF Onward
<1>6. CASE Render
  BY <1>2, <1>3, <1>6, RenderStep DEF Onward, Render
<1>7. CASE Tick
  BY <1>2, <1>3, <1>7, TickStep DEF Onward, Tick
<1>8. ASSUME NEW q \in Requests, PollServed(q)
      PROVE  /\ IInv' /\ PageInv'
             /\ polled /\ polled' /\ screen'.id = screen.id => AtMost(doubled, screen, screen')
  BY <1>2, <1>3, <1>8, PollServedStep DEF Onward, PollServed
<1>9. ASSUME NEW q \in Requests, PollShown(q)
      PROVE  /\ IInv' /\ PageInv'
             /\ polled /\ polled' /\ screen'.id = screen.id => AtMost(doubled, screen, screen')
  BY <1>2, <1>9, PollShownStep DEF Onward
<1>10. CASE Lose
  BY <1>2, <1>3, <1>10, LoseStep DEF Onward, Lose
<1>11. CASE OpenDialog \/ Confirm \/ Elsewhere \/ UNCHANGED consoleVars
  <2>1. UNCHANGED <<screen, polled, effect, polls, first>>
    BY <1>11 DEF OpenDialog, Confirm, Elsewhere, consoleVars, page
  <2>2. reply'.snap \in {reply.snap, Nothing}
    <3>1. Confirm => reply'.snap = Nothing
      <4>1. [NoRequest EXCEPT !.pc = "sent"].snap = Nothing
        BY DEF NoRequest
      <4> QED
        BY <4>1 DEF Confirm
    <3>2. OpenDialog \/ Elsewhere \/ UNCHANGED consoleVars => reply' = reply
      BY DEF OpenDialog, Elsewhere, consoleVars, page
    <3> QED
      BY <1>11, <3>1, <3>2
  <2>3. GoodSnap(first'.snap) /\ GoodSnap(reply'.snap)
    BY <2>1, <2>2, NothingGood DEF PageInv, PageTyped
  <2> QED
    BY <1>2, <1>3, <2>1, <2>3, PageKept DEF Onward
<1> QED
  BY <1>4, <1>5, <1>6, <1>7, <1>8, <1>9, <1>10, <1>11 DEF ConsoleNext, Browse

(* Polls never take the maintenance page back: of two polls' answers about *)
(* one task that are shown one after the other, the later shows no ended   *)
(* task running again, and has no lower count unless a runner reclaimed    *)
(* the task from its own goroutine (api.get joins the request under way,   *)
(* and the effect's cleanup cancels what still waits).                     *)
THEOREM PollsGoForward == ConsoleSpec => PollsMoveForward
<1>1. ConsoleInit => IInv /\ PageInv
  BY InitIInv, PageInit DEF ConsoleInit
<1>2. IInv /\ PageInv /\ [ConsoleNext]_consoleVars => IInv' /\ PageInv'
  BY PageStep
<1>3. IInv /\ PageInv /\ [ConsoleNext]_consoleVars =>
        [(polled /\ polled' /\ screen'.id = screen.id)
         => /\ screen.id \notin doubled => screen'.processed >= screen.processed
            /\ screen.status \in Terminal => screen' = screen]_consoleVars
  <2> SUFFICES ASSUME IInv, PageInv, [ConsoleNext]_consoleVars,
                      polled, polled', screen'.id = screen.id
               PROVE  /\ screen.id \notin doubled => screen'.processed >= screen.processed
                      /\ screen.status \in Terminal => screen' = screen
    OBVIOUS
  <2>1. AtMost(doubled, screen, screen') /\ PageInv'
    BY PageStep
  <2>2. screen.processed \in Nat /\ screen'.processed \in Nat
    BY <2>1 DEF PageInv, PageTyped, GoodSnap, Snaps
  <2> QED
    BY <2>1, <2>2 DEF AtMost
<1> QED
  BY <1>1, <1>2, <1>3, PTL DEF ConsoleSpec, PollsMoveForward

=============================================================================

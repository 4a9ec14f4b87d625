----------------------------- MODULE CacheFenceProofs -----------------------------
(***************************************************************************)
(* Proofs about CacheFence, for every set of processes and readers and     *)
(* every bound on the commits and the faults.                              *)
(***************************************************************************)
EXTENDS CacheFence, TLAPS

-----------------------------------------------------------------------------
(* The inductive invariant. *)

Task == [id : Nat, revision : Nat]
Values == Missing..Gone
Batches == Seq([delete : BOOLEAN, task : Task])

DatabaseType ==
  /\ row \in [value : 0..MaxWrites, gone : BOOLEAN]
  /\ writes \in 0..MaxWrites /\ row.value <= writes
  /\ outbox \in [BOOLEAN -> Task] /\ lastId \in Nat
RedisType ==
  /\ hash \in [{"base", "quota"} -> Values]
  /\ generation \in Nat /\ sequence \in Nat /\ generation <= sequence
WriterType ==
  writer \in [Processes -> [pc : {"idle", "execute", "complete", "direct", "persist"},
                            delete : BOOLEAN, task : Task, value : 0..MaxWrites]]
RetryType ==
  retry \in [Processes -> [on : BOOLEAN, revision : Nat, attempt : Nat, executed : BOOLEAN,
                           value : 0..MaxWrites]]
RunnerType ==
  /\ runner \in [Processes -> [pc : {"idle", "execute", "complete", "reschedule"},
                               batch : Batches]]
  /\ \A p \in Processes : runner[p].pc # "idle" => runner[p].batch # <<>>
ReaderType ==
  /\ reader \in [Readers -> [pc : {"idle", "hash", "fence", "version", "load", "refill", "put"},
                             narrow : BOOLEAN, since : 0..Gone, snapshot : Values,
                             version : Nat]]
  /\ \A r \in Readers : /\ reader[r].version <= sequence
                        /\ reader[r].pc \in {"refill", "put"} => reader[r].version # 0

(* What a reader may be promised was committed.                            *)
PromiseKept ==
  /\ promised \in 0..Gone
  /\ ~row.gone => promised <= row.value
  /\ \A p \in Processes : writer[p].value <= row.value /\ retry[p].value <= row.value

(* A task some process has in hand is one the outbox holds, or held: the    *)
(* next one with its identity has a higher revision.                       *)
InWriter(p, d, t) ==
  writer[p].pc \in {"execute", "complete"} /\ writer[p].delete = d /\ writer[p].task = t
InRunner(p, d, t) ==
  \E i \in 1..Len(runner[p].batch) :
    runner[p].batch[i].delete = d /\ runner[p].batch[i].task = t
Held(d, t) == \E p \in Processes : InWriter(p, d, t) \/ InRunner(p, d, t)
Staged(d, t) ==
  /\ t.id \in 1..lastId
  /\ t.id = outbox[d].id => t.revision <= outbox[d].revision
HeldWasStaged ==
  /\ \A d \in BOOLEAN : /\ outbox[d].id <= lastId
                        /\ outbox[d].id = 0 <=> outbox[d].revision = 0
  /\ \A d \in BOOLEAN, t \in Task : Held(d, t) => Staged(d, t)

(* The task of the outbox that a process has executed and will complete.    *)
Executed(d) ==
  \E p \in Processes :
    \/ writer[p].pc = "complete" /\ writer[p].delete = d /\ writer[p].task = outbox[d]
    \/ /\ runner[p].pc = "complete"
       /\ First(p).delete = d /\ First(p).task = outbox[d]

(* A value that is cached, or can still be.                                *)
Storable(r) == reader[r].pc \in {"refill", "put"} /\ reader[r].version = generation
Stale ==
  \/ \E f \in {"base", "quota"} : hash[f] # Missing /\ hash[f] < promised
  \/ \E r \in Readers : Storable(r) /\ reader[r].snapshot < promised

(* A stale value waits for a task that nobody has executed yet.            *)
StaleIsFenced == Stale => \E d \in BOOLEAN : outbox[d] # NoTask /\ ~Executed(d)

TypeInv == DatabaseType /\ RedisType /\ WriterType /\ RetryType /\ RunnerType /\ ReaderType

IInv == TypeInv /\ PromiseKept /\ HeldWasStaged /\ StaleIsFenced

LEMMA InitIInv == Init => IInv
<1> SUFFICES ASSUME Init PROVE IInv
  OBVIOUS
<1>1. DatabaseType /\ RedisType
  BY MaxWritesAssumption DEF Init, DatabaseType, RedisType, NoTask, Task, NoHash, Values, Missing, Gone
<1>2. WriterType
  BY MaxWritesAssumption DEF Init, WriterType, NoWriter, NoTask, Task
<1>3. RetryType
  BY MaxWritesAssumption DEF Init, RetryType, NoRetry
<1>4. RunnerType
  BY DEF Init, RunnerType, NoRunner, Batches
<1>5. ReaderType
  BY MaxWritesAssumption DEF Init, ReaderType, NoReader, Values, Missing, Gone
<1>6. PromiseKept
  BY MaxWritesAssumption DEF Init, PromiseKept, NoWriter, NoRetry, Gone
<1>7. HeldWasStaged
  <2>1. \A d, t : ~Held(d, t)
    BY DEF Init, Held, InWriter, InRunner, NoWriter, NoRunner
  <2> QED
    BY <2>1 DEF Init, HeldWasStaged, NoTask
<1>8. ~Stale
  BY DEF Init, Stale, Storable, NoHash, NoReader
<1> QED
  BY <1>1, <1>2, <1>3, <1>4, <1>5, <1>6, <1>7, <1>8 DEF IInv, TypeInv, StaleIsFenced

-----------------------------------------------------------------------------
(* The operators. *)

LEMMA AtLeastIsMax ==
  ASSUME NEW a \in Int, NEW b \in Int
  PROVE  AtLeast(a, b) \in {a, b} /\ AtLeast(a, b) >= a /\ AtLeast(a, b) >= b
BY DEF AtLeast

(* A loaded batch holds copies of the tasks that wait. *)
LEMMA LoadedTasks ==
  ASSUME DatabaseType
  PROVE  /\ Loaded \in Batches
         /\ \A i \in 1..Len(Loaded) : \E d \in BOOLEAN :
              Loaded[i] = Copy(d) /\ outbox[d] # NoTask
<1> DEFINE first == CHOOSE d \in Waiting : \A e \in Waiting : outbox[d].id <= outbox[e].id
<1>1. CASE Waiting = {}
  <2>1. Loaded = <<>>
    BY <1>1 DEF Loaded, InOrder
  <2> QED
    BY <2>1 DEF Batches
<1>2. CASE Waiting # {}
  <2>1. \E d \in Waiting : \A e \in Waiting : outbox[d].id <= outbox[e].id
    <3>1. \A d \in BOOLEAN : outbox[d].id \in Nat
      BY DEF DatabaseType, Task
    <3>2. Waiting \subseteq BOOLEAN
      BY DEF Waiting
    <3>3. CASE outbox[TRUE].id <= outbox[FALSE].id
      BY <1>2, <3>1, <3>2, <3>3
    <3>4. CASE outbox[FALSE].id <= outbox[TRUE].id
      BY <1>2, <3>1, <3>2, <3>4
    <3>5. outbox[TRUE].id \in Nat /\ outbox[FALSE].id \in Nat
      BY <3>1
    <3>6. \A a, b \in Nat : a <= b \/ b <= a
      OBVIOUS
    <3>7. outbox[TRUE].id <= outbox[FALSE].id \/ outbox[FALSE].id <= outbox[TRUE].id
      BY <3>5, <3>6, Zenon
    <3> QED
      BY <3>3, <3>4, <3>7, Zenon
  <2>2. first \in Waiting
    BY <2>1
  <2> HIDE DEF first
  <2>3. first \in BOOLEAN /\ outbox[first] # NoTask
    BY <2>2 DEF Waiting
  <2>4. \A d \in BOOLEAN : Copy(d) \in [delete : BOOLEAN, task : Task]
    BY DEF Copy, DatabaseType
  <2>5. CASE Waiting = {first}
    <3>1. Loaded = <<Copy(first)>>
      BY <1>2, <2>5 DEF Loaded, InOrder, first
    <3> QED
      BY <2>3, <2>4, <3>1 DEF Batches, Copy
  <2>6. CASE Waiting # {first}
    <3>1. Loaded = <<Copy(first), Copy(~first)>>
      BY <1>2, <2>6 DEF Loaded, InOrder, first
    <3>2. (~first) \in BOOLEAN
      OBVIOUS
    <3>3. (~first) \in Waiting
      BY <2>2, <2>3, <2>6 DEF Waiting
    <3>4. outbox[~first] # NoTask
      BY <3>3 DEF Waiting
    <3> DEFINE second == ~first
    <3>5. second \in BOOLEAN /\ outbox[second] # NoTask
      BY <3>2, <3>4
    <3>6. Loaded = <<Copy(first), Copy(second)>>
      BY <3>1
    <3> HIDE DEF second
    <3>7. Loaded \in Batches
      BY <2>3, <2>4, <3>5, <3>6 DEF Batches
    <3>8. Len(Loaded) = 2 /\ Loaded[1] = Copy(first) /\ Loaded[2] = Copy(second)
      BY <3>6
    <3> QED
      BY <2>3, <3>5, <3>7, <3>8 DEF Copy
  <2> QED
    BY <2>5, <2>6
<1> QED
  BY <1>1, <1>2

(* Staging adds a task, or raises the revision of the one that waits. *)
LEMMA UpsertType ==
  ASSUME DatabaseType, NEW d \in BOOLEAN
  PROVE  /\ Upserted(d) \in Task
         /\ Upsert(d) => /\ outbox' \in [BOOLEAN -> Task] /\ lastId' \in Nat
                         /\ lastId' >= lastId
                         /\ outbox' = [outbox EXCEPT ![d] = Upserted(d)]
                         /\ lastId' >= Upserted(d).id
<1>1. outbox[d] \in Task
  BY DEF DatabaseType
<1>2. Upserted(d) \in Task
  BY <1>1 DEF Upserted, DatabaseType, Task
<1>3. Upserted(d).id \in Nat /\ lastId \in Nat
  BY <1>2 DEF Task, DatabaseType
<1>4. ASSUME Upsert(d)
      PROVE  lastId' \in Nat /\ lastId' >= lastId /\ lastId' >= Upserted(d).id
  BY <1>3, <1>4, AtLeastIsMax DEF Upsert
<1>5. ASSUME Upsert(d)
      PROVE  outbox' \in [BOOLEAN -> Task] /\ outbox' = [outbox EXCEPT ![d] = Upserted(d)]
  BY <1>2, <1>5 DEF Upsert, DatabaseType
<1> QED
  BY <1>2, <1>4, <1>5

(* An executed task empties the hash and leaves no reader the generation    *)
(* it read before.                                                         *)
LEMMA Flushed ==
  ASSUME RedisType, ReaderType, Invalidate \/ Delete, UNCHANGED reader
  PROVE  /\ RedisType' /\ ReaderType'
         /\ ~Stale'
<1>1. generation \in Nat /\ sequence \in Nat
  BY DEF RedisType
<1>2. /\ AtLeast(generation, sequence) \in Nat
      /\ AtLeast(generation, sequence) >= sequence
  BY <1>1, AtLeastIsMax
<1>3. hash' = NoHash
  BY DEF Invalidate, Delete
<1>4. /\ sequence' \in Nat /\ sequence' >= sequence
      /\ \/ generation' = sequence' /\ sequence' > sequence
         \/ generation' = 0
  <2> DEFINE top == AtLeast(generation, sequence)
  <2>1. \/ sequence' = top + 1 /\ generation' = sequence'
        \/ sequence' = top /\ generation' = 0
    BY DEF Invalidate, Delete
  <2> HIDE DEF top
  <2>2. top \in Nat /\ top >= sequence
    BY <1>2 DEF top
  <2> QED
    BY <1>1, <2>1, <2>2
<1>5. RedisType'
  BY <1>3, <1>4, MaxWritesAssumption DEF RedisType, NoHash, Values, Missing, Gone
<1>6. \A r \in Readers : reader[r].version \in Nat /\ reader[r].version <= sequence
  BY DEF ReaderType
<1>7. ReaderType'
  <2>1. \A r \in Readers : reader'[r].version <= sequence'
    BY <1>1, <1>4, <1>6
  <2> QED
    BY <2>1 DEF ReaderType, Values
<1>8. \A r \in Readers : ~Storable(r)'
  <2> SUFFICES ASSUME NEW r \in Readers, Storable(r)'
               PROVE  FALSE
    OBVIOUS
  <2>1. reader[r].version # 0 /\ reader[r].version = generation'
    BY DEF Storable, ReaderType
  <2> QED
    BY <1>1, <1>4, <1>6, <2>1
<1>9. \A f \in {"base", "quota"} : hash'[f] = Missing
  BY <1>3 DEF NoHash
<1> QED
  BY <1>5, <1>7, <1>8, <1>9 DEF Stale

-----------------------------------------------------------------------------
(* The tasks in hand. *)

(* A task that was just staged, or scheduled again, is in nobody's hands.   *)
LEMMA NobodyHoldsTheNext ==
  ASSUME DatabaseType, HeldWasStaged, NEW d \in BOOLEAN
  PROVE  /\ Upserted(d) # NoTask /\ ~Held(d, Upserted(d))
         /\ outbox[d] # NoTask =>
              LET next == [outbox[d] EXCEPT !.revision = @ + 1]
              IN next \in Task /\ next # NoTask /\ ~Held(d, next)
<1>1. /\ outbox[d] \in Task /\ outbox[d].id \in Nat /\ outbox[d].revision \in Nat
      /\ lastId \in Nat /\ outbox[d].id <= lastId
  BY DEF DatabaseType, HeldWasStaged, Task
<1> DEFINE next == [outbox[d] EXCEPT !.revision = @ + 1]
<1>2. /\ next \in Task /\ next.id = outbox[d].id /\ next.revision = outbox[d].revision + 1
      /\ next # NoTask
  BY <1>1 DEF Task, NoTask
<1> HIDE DEF next
<1>3. ~Held(d, next)
  <2> SUFFICES ASSUME Held(d, next) PROVE FALSE
    OBVIOUS
  <2>1. Staged(d, next)
    BY <1>2 DEF HeldWasStaged
  <2>2. next.revision <= outbox[d].revision
    BY <1>2, <2>1 DEF Staged
  <2> QED
    BY <1>1, <1>2, <2>2
<1>4. CASE outbox[d] = NoTask
  <2> DEFINE new == Upserted(d)
  <2>1. new = [id |-> lastId + 1, revision |-> 1]
    BY <1>4 DEF Upserted
  <2>2. new \in Task /\ new # NoTask /\ new.id = lastId + 1
    BY <1>1, <2>1 DEF Task, NoTask
  <2> HIDE DEF new
  <2>3. ~Held(d, new)
    BY <1>1, <2>2 DEF HeldWasStaged, Staged
  <2> QED
    BY <1>4, <2>2, <2>3 DEF new
<1>5. CASE outbox[d] # NoTask
  BY <1>2, <1>3, <1>5 DEF Upserted, next
<1> QED
  BY <1>4, <1>5

LEMMA HeadInBatch ==
  ASSUME RunnerType, NEW p \in Processes, runner[p].pc # "idle"
  PROVE  /\ First(p) \in [delete : BOOLEAN, task : Task]
         /\ InRunner(p, First(p).delete, First(p).task)
<1> DEFINE b == runner[p].batch
           S == [delete : BOOLEAN, task : Task]
<1>1. b \in Batches /\ b # <<>>
  BY DEF RunnerType
<1> HIDE DEF b, S
<1>2. b \in Seq(S)
  BY <1>1 DEF Batches, S
<1>3. 1 \in 1..Len(b) /\ Head(b) = b[1] /\ Head(b) \in S
  BY <1>1, <1>2
<1>4. b[1].delete = Head(b).delete /\ b[1].task = Head(b).task
  BY <1>3, Zenon
<1>5. First(p) = Head(b)
  BY DEF First, b
<1>6. \E i \in 1..Len(b) : b[i].delete = First(p).delete /\ b[i].task = First(p).task
  BY <1>3, <1>4, <1>5, Zenon
<1> QED
  BY <1>3, <1>5, <1>6, Zenon DEF InRunner, b, S

(* Where no task is executed, a task that was executed was so before.       *)
NoneExecuted ==
  /\ \A p \in Processes : writer'[p].pc = "complete" => writer'[p] = writer[p]
  /\ \A p \in Processes : runner'[p].pc = "complete" => runner'[p] = runner[p]

LEMMA ExecutedBefore ==
  ASSUME RunnerType, NoneExecuted, NEW d \in BOOLEAN, Executed(d)'
  PROVE  /\ Held(d, outbox'[d])
         /\ outbox'[d] = outbox[d] => Executed(d)
<1>1. PICK p \in Processes :
        \/ writer'[p].pc = "complete" /\ writer'[p].delete = d /\ writer'[p].task = outbox'[d]
        \/ /\ runner'[p].pc = "complete"
           /\ First(p)'.delete = d /\ First(p)'.task = outbox'[d]
  BY DEF Executed
<1>2. CASE writer'[p].pc = "complete" /\ writer'[p].delete = d /\ writer'[p].task = outbox'[d]
  <2>1. writer'[p] = writer[p]
    BY <1>2 DEF NoneExecuted
  <2> QED
    BY <1>2, <2>1 DEF Held, InWriter, Executed
<1>3. CASE runner'[p].pc = "complete" /\ First(p)'.delete = d /\ First(p)'.task = outbox'[d]
  <2>1. runner'[p] = runner[p]
    BY <1>3 DEF NoneExecuted
  <2>2. runner[p].pc = "complete" /\ First(p).delete = d /\ First(p).task = outbox'[d]
    BY <1>3, <2>1 DEF First
  <2>3. InRunner(p, d, outbox'[d])
    BY <2>2, HeadInBatch
  <2> QED
    BY <2>2, <2>3 DEF Held, Executed
<1> QED
  BY <1>1, <1>2, <1>3

-----------------------------------------------------------------------------
(* The steps. *)

(* Nothing about the tasks changes, or what is in hand only shrinks. *)
LEMMA OutboxKept ==
  ASSUME TypeInv, HeldWasStaged, StaleIsFenced, NoneExecuted, UNCHANGED <<outbox, lastId>>,
         \A d \in BOOLEAN, t \in Task : Held(d, t)' => Held(d, t),
         Stale' => Stale
  PROVE  HeldWasStaged' /\ StaleIsFenced'
<1>1. HeldWasStaged'
  BY DEF HeldWasStaged, Staged
<1>2. ASSUME Stale'
      PROVE  \E d \in BOOLEAN : outbox'[d] # NoTask /\ ~Executed(d)'
  <2>1. PICK d \in BOOLEAN : outbox[d] # NoTask /\ ~Executed(d)
    BY <1>2 DEF StaleIsFenced
  <2>2. ~Executed(d)'
    BY <2>1, ExecutedBefore DEF TypeInv
  <2> QED
    BY <2>1, <2>2
<1> QED
  BY <1>1, <1>2 DEF StaleIsFenced

(* The outbox gets a task that nobody has in hand: the value that was       *)
(* stale, or just became so, waits for it.                                 *)
LEMMA OutboxGrows ==
  ASSUME TypeInv, HeldWasStaged, NoneExecuted, NEW d \in BOOLEAN, Upsert(d),
         \A e \in BOOLEAN, t \in Task :
           Held(e, t)' => Held(e, t) \/ (e = d /\ t = Upserted(d))
  PROVE  HeldWasStaged' /\ StaleIsFenced'
<1> DEFINE new == Upserted(d)
<1>1. /\ new \in Task /\ new # NoTask /\ ~Held(d, new)
      /\ outbox' = [outbox EXCEPT ![d] = new] /\ outbox' \in [BOOLEAN -> Task]
      /\ lastId' \in Nat /\ lastId' >= lastId /\ lastId' >= new.id
  BY NobodyHoldsTheNext, UpsertType DEF TypeInv
<1>2. /\ new.id >= 1 /\ new.revision >= 1
      /\ new.id = outbox[d].id => new.revision >= outbox[d].revision
      /\ outbox[d].id <= lastId
      /\ new.id # outbox[d].id => new.id = lastId + 1
  <2>1. outbox[d] \in Task /\ lastId \in Nat /\ outbox[d].id <= lastId
        /\ (outbox[d].id = 0 <=> outbox[d].revision = 0)
    BY DEF TypeInv, DatabaseType, HeldWasStaged
  <2>2. outbox[d].id = 0 => outbox[d] = NoTask
    BY <2>1 DEF Task, NoTask
  <2>3. CASE outbox[d] = NoTask
    BY <2>1, <2>3 DEF Upserted, NoTask
  <2>4. CASE outbox[d] # NoTask
    BY <2>1, <2>2, <2>4 DEF Upserted, Task
  <2> QED
    BY <2>3, <2>4
<1> HIDE DEF new
<1>3. \A e \in BOOLEAN : outbox[e] \in Task /\ outbox[e].id \in Nat /\ outbox[e].revision \in Nat
  BY DEF TypeInv, DatabaseType, Task
<1>4. new.id \in Nat /\ new.revision \in Nat /\ lastId \in Nat
  BY <1>1 DEF Task, TypeInv, DatabaseType
<1>5. outbox'[d] = new /\ \A e \in BOOLEAN : e # d => outbox'[e] = outbox[e]
  BY <1>1 DEF TypeInv, DatabaseType
<1>6. \A e \in BOOLEAN : outbox'[e].id <= lastId' /\ (outbox'[e].id = 0 <=> outbox'[e].revision = 0)
  <2> SUFFICES ASSUME NEW e \in BOOLEAN
               PROVE  outbox'[e].id <= lastId' /\ (outbox'[e].id = 0 <=> outbox'[e].revision = 0)
    OBVIOUS
  <2>1. CASE e = d
    BY <1>1, <1>2, <1>4, <1>5, <2>1
  <2>2. CASE e # d
    <3>1. outbox'[e] = outbox[e] /\ outbox[e].id <= lastId /\ (outbox[e].id = 0 <=> outbox[e].revision = 0)
      BY <1>5, <2>2 DEF HeldWasStaged
    <3> QED
      BY <1>1, <1>3, <1>4, <3>1
  <2> QED
    BY <2>1, <2>2
<1>7. ASSUME NEW e \in BOOLEAN, NEW t \in Task, Held(e, t)'
      PROVE  Staged(e, t)'
  <2>1. CASE e = d /\ t = new
    BY <1>1, <1>2, <1>4, <1>5, <2>1 DEF Staged
  <2>2. CASE ~(e = d /\ t = new)
    <3>1. Staged(e, t)
      BY <1>7, <2>2 DEF HeldWasStaged, new
    <3>2. t.id \in Nat /\ t.revision \in Nat /\ t.id \in 1..lastId
      BY <3>1 DEF Staged, Task
    <3>3. CASE e # d
      BY <1>1, <1>4, <1>5, <3>1, <3>2, <3>3 DEF Staged
    <3>4. CASE e = d
      <4>1. t.id = new.id => new.id = outbox[d].id
        BY <1>2, <1>3, <1>4, <3>2
      <4>2. t.id = new.id => t.revision <= new.revision
        BY <1>2, <1>3, <1>4, <3>1, <3>2, <3>4, <4>1 DEF Staged
      <4> QED
        BY <1>1, <1>4, <1>5, <3>2, <3>4, <4>2 DEF Staged
    <3> QED
      BY <3>3, <3>4
  <2> QED
    BY <2>1, <2>2
<1>8. outbox'[d] # NoTask /\ ~Executed(d)'
  BY <1>1, <1>5, ExecutedBefore DEF TypeInv
<1> QED
  BY <1>6, <1>7, <1>8 DEF HeldWasStaged, StaleIsFenced

(* A task is taken out of the outbox, or scheduled again, by the process    *)
(* that has it in hand: a stale value waits for another one.                *)
LEMMA OutboxAnswers ==
  ASSUME TypeInv, HeldWasStaged, StaleIsFenced, NoneExecuted, NEW d \in BOOLEAN, NEW t \in Task,
         \/ outbox' = Completed(d, t) /\ (t = outbox[d] => Executed(d))
         \/ outbox' = Rescheduled(d, t),
         Held(d, t), UNCHANGED lastId,
         \A e \in BOOLEAN, u \in Task : Held(e, u)' => Held(e, u),
         Stale' => Stale
  PROVE  outbox' \in [BOOLEAN -> Task] /\ HeldWasStaged' /\ StaleIsFenced'
<1>1. /\ outbox \in [BOOLEAN -> Task] /\ lastId \in Nat
      /\ \A e \in BOOLEAN : outbox[e] \in Task /\ outbox[e].id \in Nat /\ outbox[e].revision \in Nat
  BY DEF TypeInv, DatabaseType, Task
<1>2. CASE outbox' = outbox
  BY <1>1, <1>2, OutboxKept
<1>3. CASE outbox' = [outbox EXCEPT ![d] = NoTask] /\ t = outbox[d] /\ Executed(d)
  <2>1. NoTask \in Task /\ NoTask.id = 0 /\ NoTask.revision = 0
    BY DEF NoTask, Task
  <2>2. /\ outbox' \in [BOOLEAN -> Task] /\ outbox'[d] = NoTask
        /\ \A e \in BOOLEAN : e # d => outbox'[e] = outbox[e]
    BY <1>1, <1>3, <2>1
  <2>3. \A e \in BOOLEAN : outbox'[e] = NoTask \/ outbox'[e] = outbox[e]
    BY <2>2
  <2>4. HeldWasStaged'
    BY <1>1, <2>1, <2>3 DEF HeldWasStaged, Staged
  <2>5. ASSUME Stale'
        PROVE  \E e \in BOOLEAN : outbox'[e] # NoTask /\ ~Executed(e)'
    <3>1. PICK e \in BOOLEAN : outbox[e] # NoTask /\ ~Executed(e)
      BY <2>5 DEF StaleIsFenced
    <3>2. e # d
      BY <1>3, <3>1
    <3>3. outbox'[e] = outbox[e] /\ ~Executed(e)'
      BY <2>2, <3>1, <3>2, ExecutedBefore DEF TypeInv
    <3> QED
      BY <3>1, <3>3
  <2> QED
    BY <2>2, <2>4, <2>5 DEF StaleIsFenced
<1>4. CASE outbox' = [outbox EXCEPT ![d].revision = @ + 1] /\ t = outbox[d]
  <2> DEFINE next == [outbox[d] EXCEPT !.revision = @ + 1]
  <2>1. Staged(d, t)
    BY DEF HeldWasStaged
  <2>2. outbox[d].id # 0 /\ outbox[d] # NoTask
    BY <1>1, <1>4, <2>1 DEF Staged, NoTask
  <2>3. next \in Task /\ next # NoTask /\ ~Held(d, next)
    BY <2>2, NobodyHoldsTheNext DEF TypeInv
  <2>4. next.id = outbox[d].id /\ next.revision = outbox[d].revision + 1
    BY <1>1 DEF Task
  <2>5. outbox' = [outbox EXCEPT ![d] = next]
    BY <1>4
  <2> HIDE DEF next
  <2>6. /\ outbox' \in [BOOLEAN -> Task] /\ outbox'[d] = next
        /\ \A e \in BOOLEAN : e # d => outbox'[e] = outbox[e]
    BY <1>1, <2>3, <2>5
  <2>7. \A e \in BOOLEAN : /\ outbox'[e].id = outbox[e].id
                           /\ outbox'[e].revision >= outbox[e].revision
                           /\ outbox'[e].id = 0 <=> outbox'[e].revision = 0
    <3> SUFFICES ASSUME NEW e \in BOOLEAN
                 PROVE  /\ outbox'[e].id = outbox[e].id
                        /\ outbox'[e].revision >= outbox[e].revision
                        /\ outbox'[e].id = 0 <=> outbox'[e].revision = 0
      OBVIOUS
    <3>1. CASE e = d
      BY <1>1, <2>2, <2>4, <2>6, <3>1
    <3>2. CASE e # d
      BY <1>1, <2>6, <3>2 DEF HeldWasStaged
    <3> QED
      BY <3>1, <3>2
  <2>8. \A e \in BOOLEAN : outbox'[e] \in Task /\ outbox'[e].id \in Nat /\ outbox'[e].revision \in Nat
    BY <2>6 DEF Task
  <2>9. ASSUME NEW e \in BOOLEAN, NEW u \in Task, Held(e, u)'
        PROVE  Staged(e, u)'
    <3>1. Staged(e, u) /\ u.revision \in Nat
      BY <2>9 DEF HeldWasStaged, Task
    <3> QED
      BY <1>1, <2>7, <2>8, <3>1 DEF Staged
  <2>10. \A e \in BOOLEAN : outbox'[e].id <= lastId'
    BY <1>1, <2>7 DEF HeldWasStaged
  <2>11. ASSUME Stale'
         PROVE  outbox'[d] # NoTask /\ ~Executed(d)'
    BY <2>3, <2>6, ExecutedBefore DEF TypeInv
  <2> QED
    BY <2>6, <2>7, <2>9, <2>10, <2>11 DEF StaleIsFenced, HeldWasStaged
<1> QED
  BY <1>2, <1>3, <1>4 DEF Completed, Rescheduled, Matches

(* A step that leaves the processes and the outbox alone. *)
LEMMA CacheStep ==
  ASSUME IInv, UNCHANGED <<database, writer, retry, runner, promised>>,
         RedisType', ReaderType', Stale' => Stale
  PROVE  IInv'
<1>1. UNCHANGED <<row, writes, outbox, lastId>>
  BY DEF database
<1>2. NoneExecuted
  BY DEF NoneExecuted
<1>3. \A d \in BOOLEAN, t \in Task : Held(d, t)' => Held(d, t)
  BY DEF Held, InWriter, InRunner
<1>4. TypeInv' /\ PromiseKept'
  BY <1>1 DEF IInv, TypeInv, DatabaseType, WriterType, RetryType, RunnerType, PromiseKept
<1>5. HeldWasStaged' /\ StaleIsFenced'
  BY <1>1, <1>2, <1>3, OutboxKept DEF IInv
<1> QED
  BY <1>4, <1>5 DEF IInv

(* A step of one process that touches neither the database nor the cache.   *)
LEMMA ProcessStep ==
  ASSUME IInv, UNCHANGED <<database, redis, reader, promised>>,
         WriterType', RetryType', RunnerType', PromiseKept', NoneExecuted,
         \A d \in BOOLEAN, t \in Task : Held(d, t)' => Held(d, t)
  PROVE  IInv'
<1>1. UNCHANGED <<row, writes, outbox, lastId, hash, generation, sequence>>
  BY DEF database, redis
<1>2. TypeInv'
  BY <1>1 DEF IInv, TypeInv, DatabaseType, RedisType, ReaderType
<1>3. Stale' => Stale
  BY <1>1 DEF Stale, Storable
<1>4. HeldWasStaged' /\ StaleIsFenced'
  BY <1>1, <1>3, OutboxKept DEF IInv
<1> QED
  BY <1>2, <1>4 DEF IInv

(* A step that empties the cache. *)
LEMMA FlushStep ==
  ASSUME IInv, Invalidate \/ Delete, UNCHANGED <<database, reader>>,
         WriterType', RetryType', RunnerType', PromiseKept',
         \A d \in BOOLEAN, t \in Task : Held(d, t)' => Held(d, t)
  PROVE  IInv'
<1>1. UNCHANGED <<row, writes, outbox, lastId>>
  BY DEF database
<1>2. RedisType' /\ ReaderType' /\ ~Stale'
  BY Flushed DEF IInv, TypeInv
<1>3. TypeInv'
  BY <1>1, <1>2 DEF IInv, TypeInv, DatabaseType
<1>4. HeldWasStaged'
  BY <1>1 DEF IInv, HeldWasStaged, Staged
<1> QED
  BY <1>2, <1>3, <1>4 DEF IInv, StaleIsFenced

(* A reader refills with the row it loads, at the generation it read        *)
(* before; nothing older becomes storable by that.                         *)
LEMMA ReaderStep ==
  ASSUME IInv, NEW r \in Readers, Read(r)
  PROVE  IInv'
<1>1. TypeInv /\ PromiseKept /\ RedisType /\ ReaderType
  BY DEF IInv, TypeInv
<1>2. /\ \A q \in Readers : /\ reader[q].version \in Nat /\ reader[q].version <= sequence
                            /\ reader[q].pc \in {"refill", "put"} => reader[q].version # 0
      /\ generation \in Nat /\ sequence \in Nat
  BY <1>1 DEF ReaderType, RedisType
<1> DEFINE RecordType == [pc : {"idle", "hash", "fence", "version", "load", "refill", "put"},
                          narrow : BOOLEAN, since : 0..Gone, snapshot : Values, version : Nat]
<1>3. reader \in [Readers -> RecordType]
  BY <1>1 DEF ReaderType
<1>4. reader[r] \in RecordType
  BY <1>3
<1>5. NoReader \in RecordType
  BY MaxWritesAssumption DEF NoReader, Values, Missing, Gone
<1>6. ASSUME NEW next \in RecordType, Step(r, next), next.version <= sequence',
             next.pc \in {"refill", "put"} => next.version # 0,
             sequence' \in Nat, sequence' >= sequence
      PROVE  /\ ReaderType'
             /\ reader'[r] = next
             /\ \A q \in Readers : q # r => reader'[q] = reader[q]
  <2>1. /\ reader' \in [Readers -> RecordType] /\ reader'[r] = next
        /\ \A q \in Readers : q # r => reader'[q] = reader[q]
    BY <1>3, <1>6 DEF Step
  <2> HIDE DEF RecordType
  <2>2. \A q \in Readers : /\ reader'[q].version <= sequence'
                           /\ reader'[q].pc \in {"refill", "put"} => reader'[q].version # 0
    BY <1>2, <1>6, <2>1
  <2>3. ReaderType'
    BY <2>1, <2>2 DEF ReaderType, RecordType, Gone, Values
  <2> QED
    BY <2>1, <2>3
<1>7. ASSUME NEW next \in RecordType, Step(r, next), next.version <= sequence,
             next.pc \in {"refill", "put"} =>
               /\ next.version # 0
               /\ \/ next.snapshot >= promised
                  \/ /\ reader[r].pc \in {"refill", "put"}
                     /\ next.version = reader[r].version /\ next.snapshot = reader[r].snapshot,
             UNCHANGED <<database, redis, writer, retry, runner, promised>>
      PROVE  IInv'
  <2>1. UNCHANGED <<hash, generation, sequence>>
    BY <1>7 DEF redis
  <2>2. /\ ReaderType' /\ reader'[r] = next
        /\ \A q \in Readers : q # r => reader'[q] = reader[q]
    <3> HIDE DEF RecordType
    <3>1. sequence' \in Nat /\ sequence' >= sequence /\ next.version <= sequence'
      BY <1>2, <1>7, <2>1
    <3> QED
      BY <1>6, <1>7, <3>1
  <2>3. RedisType'
    BY <1>1, <2>1 DEF RedisType
  <2>4. next.snapshot \in Int /\ promised \in Int
    BY <1>1, MaxWritesAssumption DEF PromiseKept, Gone, Values, Missing
  <2>5. ASSUME NEW q \in Readers, Storable(q)', reader'[q].snapshot < promised'
        PROVE  Storable(q) /\ reader[q].snapshot < promised
    <3>1. CASE q = r
      BY <1>7, <2>1, <2>2, <2>4, <2>5, <3>1 DEF Storable
    <3>2. CASE q # r
      BY <1>7, <2>1, <2>2, <2>5, <3>2 DEF Storable
    <3> QED
      BY <3>1, <3>2
  <2>6. Stale' => Stale
    BY <1>7, <2>1, <2>5 DEF Stale
  <2> QED
    BY <1>7, <2>2, <2>3, <2>6, CacheStep
<1>8. CASE Begin(r)
  <2>1. PICK narrow \in BOOLEAN :
          Step(r, [NoReader EXCEPT !.narrow = narrow, !.since = promised,
                                   !.pc = IF narrow THEN "version" ELSE "hash"])
    BY <1>8 DEF Begin
  <2> DEFINE next == [NoReader EXCEPT !.narrow = narrow, !.since = promised,
                                      !.pc = IF narrow THEN "version" ELSE "hash"]
  <2>2. next \in RecordType /\ next.version = 0 /\ next.pc \in {"version", "hash"}
    BY <1>1, <1>5 DEF NoReader, PromiseKept
  <2> HIDE DEF next, RecordType
  <2>3. next.version <= sequence /\ next.pc \notin {"refill", "put"}
    BY <1>2, <2>2
  <2> QED
    BY <1>7, <1>8, <2>1, <2>2, <2>3 DEF Begin, redis, next
<1>9. CASE ReadHash(r)
  <2> DEFINE next == IF hash.base = Missing THEN [reader[r] EXCEPT !.pc = "version"]
                     ELSE [reader[r] EXCEPT !.pc = "fence",
                             !.snapshot = IF hash.base <= hash.quota THEN hash.base ELSE hash.quota]
  <2>1. hash.base \in Values /\ hash.quota \in Values
    BY <1>1 DEF RedisType
  <2>2. next \in RecordType /\ next.version = reader[r].version /\ next.pc \in {"version", "fence"}
    BY <1>4, <2>1
  <2> HIDE DEF next, RecordType
  <2>3. next.version <= sequence /\ next.pc \notin {"refill", "put"}
    BY <1>2, <2>2
  <2> QED
    BY <1>7, <1>9, <2>2, <2>3 DEF ReadHash, next
<1>10. CASE Fence(r)
  <2> DEFINE next == IF Pending THEN [reader[r] EXCEPT !.pc = "version"] ELSE NoReader
  <2>1. /\ next \in RecordType /\ next.version \in {reader[r].version, 0}
        /\ next.pc \in {"version", "idle"}
    BY <1>4, <1>5 DEF NoReader
  <2> HIDE DEF next, RecordType
  <2>2. next.version <= sequence /\ next.pc \notin {"refill", "put"}
    BY <1>2, <2>1
  <2> QED
    BY <1>7, <1>10, <2>1, <2>2 DEF Fence, next
<1>11. CASE ReadVersion(r)
  <2>1. \/ /\ \/ generation # 0 /\ UNCHANGED <<generation, sequence>>
              \/ generation = 0 /\ sequence' = sequence + 1 /\ generation' = sequence'
           /\ Step(r, [reader[r] EXCEPT !.pc = "load", !.version = generation'])
        \/ /\ Step(r, [reader[r] EXCEPT !.pc = "load", !.version = 0])
           /\ UNCHANGED <<generation, sequence>>
    BY <1>11 DEF ReadVersion
  <2>2. UNCHANGED <<database, hash, writer, retry, runner, promised>>
    BY <1>11 DEF ReadVersion
  <2>3. PICK version \in {0, generation'} :
          Step(r, [reader[r] EXCEPT !.pc = "load", !.version = version])
    BY <2>1
  <2>4. /\ generation' \in Nat /\ sequence' \in Nat /\ generation' <= sequence' /\ sequence' >= sequence
        /\ generation' = generation \/ generation' > sequence
    BY <1>1, <1>2, <2>1 DEF RedisType
  <2> DEFINE next == [reader[r] EXCEPT !.pc = "load", !.version = version]
  <2>5. version \in Nat /\ version <= sequence'
    BY <2>3, <2>4
  <2>6. next \in RecordType /\ next.version = version /\ next.pc = "load"
    BY <1>4, <2>5
  <2> HIDE DEF next, RecordType
  <2>7. /\ ReaderType' /\ reader'[r] = next
        /\ \A q \in Readers : q # r => reader'[q] = reader[q]
    BY <1>6, <2>3, <2>4, <2>5, <2>6 DEF next
  <2>8. RedisType'
    BY <1>1, <2>2, <2>4 DEF RedisType
  <2>9. ASSUME NEW q \in Readers, Storable(q)'
        PROVE  Storable(q) /\ reader'[q] = reader[q]
    <3>1. q # r
      BY <2>6, <2>7, <2>9 DEF Storable
    <3>2. reader'[q] = reader[q]
      BY <2>7, <3>1
    <3>3. generation' = generation
      BY <1>2, <2>4, <2>9, <3>2 DEF Storable
    <3> QED
      BY <2>9, <3>2, <3>3 DEF Storable
  <2>10. Stale' => Stale
    BY <2>2, <2>9 DEF Stale
  <2> QED
    BY <2>2, <2>7, <2>8, <2>10, CacheStep
<1>12. CASE Load(r)
  <2> DEFINE next == IF (row.gone /\ ~reader[r].narrow) \/ reader[r].version = 0 THEN NoReader
                     ELSE [reader[r] EXCEPT !.pc = "refill", !.since = 0, !.snapshot = Newest(row)]
  <2>1. row.value \in 0..MaxWrites /\ (~row.gone => promised <= row.value) /\ promised \in 0..Gone
    BY DEF IInv, TypeInv, DatabaseType, PromiseKept
  <2>2. Newest(row) \in Values /\ Newest(row) >= promised /\ 0 \in 0..Gone
    BY <2>1, MaxWritesAssumption DEF Newest, Values, Missing, Gone
  <2>3. CASE (row.gone /\ ~reader[r].narrow) \/ reader[r].version = 0
    <3>1. next \in RecordType /\ next.version = 0 /\ next.pc = "idle"
      BY <1>5, <2>3 DEF NoReader
    <3> HIDE DEF next, RecordType
    <3>2. next.version <= sequence /\ next.pc \notin {"refill", "put"}
      BY <1>2, <3>1
    <3> QED
      BY <1>7, <1>12, <3>1, <3>2 DEF Load, next
  <2>4. CASE ~((row.gone /\ ~reader[r].narrow) \/ reader[r].version = 0)
    <3>1. /\ next \in RecordType /\ next.version = reader[r].version
          /\ next.snapshot = Newest(row)
      BY <1>4, <2>2, <2>4
    <3> HIDE DEF next, RecordType
    <3>2. next.version <= sequence /\ next.version # 0 /\ next.snapshot >= promised
      BY <1>2, <2>2, <2>4, <3>1
    <3> QED
      BY <1>7, <1>12, <3>1, <3>2 DEF Load, next
  <2> QED
    BY <2>3, <2>4
<1>13. CASE Refill(r)
  <2> DEFINE next == IF Pending THEN NoReader ELSE [reader[r] EXCEPT !.pc = "put"]
  <2>1. CASE Pending
    <3>1. next \in RecordType /\ next.version = 0 /\ next.pc = "idle"
      BY <1>5, <2>1 DEF NoReader
    <3> HIDE DEF next, RecordType
    <3>2. next.version <= sequence /\ next.pc \notin {"refill", "put"}
      BY <1>2, <3>1
    <3> QED
      BY <1>7, <1>13, <3>1, <3>2 DEF Refill, next
  <2>2. CASE ~Pending
    <3>1. /\ next \in RecordType /\ next.version = reader[r].version
          /\ next.snapshot = reader[r].snapshot
      BY <1>4, <2>2
    <3>2. reader[r].pc = "refill"
      BY <1>13 DEF Refill
    <3> HIDE DEF next, RecordType
    <3>3. next.version <= sequence /\ next.version # 0 /\ reader[r].pc \in {"refill", "put"}
      BY <1>2, <3>1, <3>2
    <3> QED
      BY <1>7, <1>13, <3>1, <3>3 DEF Refill, next
  <2> QED
    BY <2>1, <2>2
<1>14. CASE Put(r)
  <2>1. /\ UNCHANGED <<database, generation, sequence, writer, retry, runner, promised>>
        /\ Step(r, NoReader) /\ reader[r].pc = "put"
        /\ \/ hash' = hash
           \/ /\ generation = reader[r].version
              /\ hash' = [base |-> IF reader[r].narrow THEN hash.base ELSE reader[r].snapshot,
                          quota |-> reader[r].snapshot]
    BY <1>14 DEF Put
  <2>2. NoReader.version = 0 /\ NoReader.pc = "idle"
    BY DEF NoReader
  <2>3. /\ ReaderType' /\ reader'[r] = NoReader
        /\ \A q \in Readers : q # r => reader'[q] = reader[q]
    <3> HIDE DEF RecordType
    <3>1. NoReader.version <= sequence' /\ sequence' \in Nat /\ sequence' >= sequence
      BY <1>2, <2>1, <2>2
    <3> QED
      BY <1>5, <1>6, <2>1, <2>2, <3>1
  <2>4. \A f \in {"base", "quota"} :
          hash'[f] = hash[f] \/ (hash'[f] = reader[r].snapshot /\ Storable(r))
    BY <2>1 DEF Storable
  <2>5. RedisType'
    <3>1. hash.base \in Values /\ hash.quota \in Values /\ reader[r].snapshot \in Values
      BY <1>1, <1>4 DEF RedisType
    <3>2. hash' \in [{"base", "quota"} -> Values]
      BY <1>1, <2>1, <3>1 DEF RedisType
    <3> QED
      BY <1>1, <2>1, <3>2 DEF RedisType, Values
  <2>6. Stale' => Stale
    <3>1. \A f \in {"base", "quota"} : hash'[f] # Missing /\ hash'[f] < promised' => Stale
      BY <2>1, <2>4 DEF Stale
    <3>2. \A q \in Readers : Storable(q)' => q # r /\ Storable(q) /\ reader'[q] = reader[q]
      BY <2>1, <2>2, <2>3 DEF Storable
    <3> QED
      BY <2>1, <3>1, <3>2 DEF Stale
  <2> QED
    BY <2>1, <2>3, <2>5, <2>6, CacheStep
<1> QED
  BY <1>8, <1>9, <1>10, <1>11, <1>12, <1>13, <1>14 DEF Read

(* The process's own records, one by one. *)
Writers == [pc : {"idle", "execute", "complete", "direct", "persist"},
            delete : BOOLEAN, task : Task, value : 0..MaxWrites]
Retries == [on : BOOLEAN, revision : Nat, attempt : Nat, executed : BOOLEAN, value : 0..MaxWrites]
Runners == [pc : {"idle", "execute", "complete", "reschedule"}, batch : Batches]

LEMMA NoRecords ==
  /\ NoWriter \in Writers /\ NoWriter.pc = "idle" /\ NoWriter.value = 0
  /\ NoRetry \in Retries /\ NoRetry.value = 0
  /\ NoRunner \in Runners /\ NoRunner.pc = "idle" /\ NoRunner.batch = <<>>
<1>1. NoWriter \in Writers /\ NoWriter.pc = "idle" /\ NoWriter.value = 0
  BY MaxWritesAssumption DEF NoWriter, Writers, NoTask, Task
<1>2. NoRetry \in Retries /\ NoRetry.value = 0
  BY MaxWritesAssumption DEF NoRetry, Retries
<1>3. NoRunner \in Runners /\ NoRunner.pc = "idle" /\ NoRunner.batch = <<>>
  BY DEF NoRunner, Runners, Batches
<1> QED
  BY <1>1, <1>2, <1>3

LEMMA WriterSet ==
  ASSUME WriterType, NEW p \in Processes, NEW w \in Writers,
         writer' = [writer EXCEPT ![p] = w]
  PROVE  /\ WriterType'
         /\ writer'[p] = w
         /\ \A q \in Processes : q # p => writer'[q] = writer[q]
<1>1. writer \in [Processes -> Writers]
  BY DEF WriterType, Writers
<1>2. /\ writer' \in [Processes -> Writers] /\ writer'[p] = w
      /\ \A q \in Processes : q # p => writer'[q] = writer[q]
  BY <1>1
<1> QED
  BY <1>2 DEF WriterType, Writers, Task

LEMMA RetrySet ==
  ASSUME RetryType, NEW p \in Processes, NEW e \in Retries,
         retry' = [retry EXCEPT ![p] = e]
  PROVE  /\ RetryType'
         /\ retry'[p] = e
         /\ \A q \in Processes : q # p => retry'[q] = retry[q]
<1>1. retry \in [Processes -> Retries]
  BY DEF RetryType, Retries
<1>2. /\ retry' \in [Processes -> Retries] /\ retry'[p] = e
      /\ \A q \in Processes : q # p => retry'[q] = retry[q]
  BY <1>1
<1> QED
  BY <1>2 DEF RetryType, Retries

LEMMA RunnerSet ==
  ASSUME RunnerType, NEW p \in Processes, NEW e \in Runners,
         e.pc # "idle" => e.batch # <<>>,
         runner' = [runner EXCEPT ![p] = e]
  PROVE  /\ RunnerType'
         /\ runner'[p] = e
         /\ \A q \in Processes : q # p => runner'[q] = runner[q]
<1>1. runner \in [Processes -> Runners]
  BY DEF RunnerType, Runners
<1>2. /\ runner' \in [Processes -> Runners] /\ runner'[p] = e
      /\ \A q \in Processes : q # p => runner'[q] = runner[q]
  BY <1>1
<1>3. \A q \in Processes : runner'[q].pc # "idle" => runner'[q].batch # <<>>
  <2> SUFFICES ASSUME NEW q \in Processes
               PROVE  runner'[q].pc # "idle" => runner'[q].batch # <<>>
    OBVIOUS
  <2>1. CASE q = p
    BY <1>2, <2>1
  <2>2. CASE q # p
    BY <1>2, <2>2 DEF RunnerType
  <2> QED
    BY <2>1, <2>2
<1> QED
  BY <1>2, <1>3 DEF RunnerType, Runners, Batches, Task

(* What the request of a process has in hand is what it had, or nothing.    *)
LEMMA WriterKeeps ==
  ASSUME NEW p \in Processes, NEW w, writer'[p] = w, UNCHANGED runner,
         \A q \in Processes : q # p => writer'[q] = writer[q],
         w.pc \in {"execute", "complete"} =>
           /\ writer[p].pc \in {"execute", "complete"}
           /\ w.delete = writer[p].delete /\ w.task = writer[p].task
  PROVE  \A d \in BOOLEAN, t \in Task : Held(d, t)' => Held(d, t)
<1> SUFFICES ASSUME NEW d \in BOOLEAN, NEW t \in Task, Held(d, t)'
             PROVE  Held(d, t)
  OBVIOUS
<1>1. PICK q \in Processes : InWriter(q, d, t)' \/ InRunner(q, d, t)'
  BY DEF Held
<1>2. InRunner(q, d, t)' => InRunner(q, d, t)
  BY DEF InRunner
<1>3. InWriter(q, d, t)' => InWriter(q, d, t)
  <2>1. CASE q = p
    BY <2>1, Zenon DEF InWriter
  <2>2. CASE q # p
    BY <2>2 DEF InWriter
  <2> QED
    BY <2>1, <2>2
<1> QED
  BY <1>1, <1>2, <1>3 DEF Held

(* The same of a runner. *)
LEMMA RunnerKeeps ==
  ASSUME NEW p \in Processes, NEW e, runner'[p] = e, UNCHANGED writer,
         \A q \in Processes : q # p => runner'[q] = runner[q],
         \A i \in 1..Len(e.batch) : \E j \in 1..Len(runner[p].batch) :
           e.batch[i] = runner[p].batch[j]
  PROVE  \A d \in BOOLEAN, t \in Task : Held(d, t)' => Held(d, t)
<1> SUFFICES ASSUME NEW d \in BOOLEAN, NEW t \in Task, Held(d, t)'
             PROVE  Held(d, t)
  OBVIOUS
<1>1. PICK q \in Processes : InWriter(q, d, t)' \/ InRunner(q, d, t)'
  BY DEF Held
<1>2. InWriter(q, d, t)' => InWriter(q, d, t)
  BY DEF InWriter
<1>3. InRunner(q, d, t)' => InRunner(q, d, t)
  <2>1. CASE q = p
    <3> SUFFICES ASSUME InRunner(q, d, t)'
                 PROVE  InRunner(q, d, t)
      OBVIOUS
    <3>1. PICK i \in 1..Len(e.batch) : e.batch[i].delete = d /\ e.batch[i].task = t
      BY <2>1, Zenon DEF InRunner
    <3>2. PICK j \in 1..Len(runner[p].batch) : e.batch[i] = runner[p].batch[j]
      BY <3>1
    <3>3. runner[p].batch[j].delete = d /\ runner[p].batch[j].task = t
      BY <3>1, <3>2, Zenon
    <3> QED
      BY <2>1, <3>2, <3>3, Zenon DEF InRunner
  <2>2. CASE q # p
    BY <2>2 DEF InRunner
  <2> QED
    BY <2>1, <2>2
<1> QED
  BY <1>1, <1>2, <1>3 DEF Held

-----------------------------------------------------------------------------
(* The mutations. *)

(* A commit numbers the row higher than before, unless it is gone. *)
LEMMA CommitRow ==
  ASSUME IInv, NEW g \in BOOLEAN, writes < MaxWrites, writes' = writes + 1, row' = Written(g)
  PROVE  /\ row' \in [value : 0..MaxWrites, gone : BOOLEAN]
         /\ writes' \in 0..MaxWrites /\ row'.value <= writes' /\ row'.value >= row.value
         /\ Newest(row') \in 0..Gone
         /\ ~row'.gone => Newest(row') <= row'.value
         /\ ~row.gone /\ ~g => row'.value = writes' /\ ~row'.gone
<1>1. /\ row.value \in 0..MaxWrites /\ writes \in 0..MaxWrites /\ row.value <= writes
      /\ MaxWrites \in Nat /\ row \in [value : 0..MaxWrites, gone : BOOLEAN]
  BY MaxWritesAssumption DEF IInv, TypeInv, DatabaseType
<1>2. CASE row.gone
  BY <1>1, <1>2 DEF Written, Newest, Gone
<1>3. CASE ~row.gone
  <2>1. row' = [value |-> writes + 1, gone |-> g]
    BY <1>3 DEF Written
  <2>2. row'.value = writes + 1 /\ (row'.gone <=> g) /\ row' \in [value : 0..MaxWrites, gone : BOOLEAN]
    BY <1>1, <2>1
  <2>3. Newest(row') \in {Gone, writes + 1} /\ (~g => Newest(row') = writes + 1)
    BY <2>2 DEF Newest
  <2> QED
    BY <1>1, <1>3, <2>2, <2>3 DEF Gone
<1> QED
  BY <1>2, <1>3

LEMMA CommitStagedStep ==
  ASSUME IInv, NEW p \in Processes, NEW d \in BOOLEAN, CommitStaged(p, d)
  PROVE  IInv'
<1> DEFINE w == [NoWriter EXCEPT !.pc = "execute", !.delete = d, !.task = Upserted(d)]
<1>1. /\ writes < MaxWrites /\ writes' = writes + 1 /\ row' = Written(d) /\ Upsert(d)
      /\ writer' = [writer EXCEPT ![p] = w]
      /\ promised' = Newest(row') /\ UNCHANGED <<redis, retry, runner, reader>>
  BY DEF CommitStaged
<1>2. DatabaseType /\ WriterType /\ RetryType /\ RunnerType
  BY DEF IInv, TypeInv
<1>3. Upserted(d) \in Task
  BY <1>2, UpsertType
<1>4. w \in Writers /\ w.pc = "execute" /\ w.value = 0
  <2>1. NoWriter \in Writers /\ NoWriter.value = 0
    BY NoRecords
  <2>2. w \in Writers
    BY <1>3, <2>1 DEF Writers
  <2>3. w.pc = "execute" /\ w.value = NoWriter.value
    BY <2>1 DEF Writers
  <2> QED
    BY <2>1, <2>2, <2>3
<1>5. w.task = Upserted(d)
  BY <1>3 DEF NoWriter
<1>6. w.delete = d
  BY DEF NoWriter
<1> HIDE DEF w
<1>7. WriterType' /\ writer'[p] = w /\ \A q \in Processes : q # p => writer'[q] = writer[q]
  BY <1>1, <1>2, <1>4, WriterSet
<1>8. TypeInv'
  <2>1. DatabaseType'
    BY <1>1, <1>2, UpsertType, CommitRow DEF DatabaseType, Task
  <2> QED
    BY <1>1, <1>7, <2>1 DEF IInv, TypeInv, redis, RedisType, RetryType, RunnerType, ReaderType
<1>9. PromiseKept'
  <2>1. row.value \in Int /\ row'.value \in Int /\ row'.value >= row.value /\ row'.value >= 0
    BY <1>1, <1>2, CommitRow DEF DatabaseType
  <2>2. \A q \in Processes : writer'[q].value <= row'.value /\ retry'[q].value <= row'.value
    <3> SUFFICES ASSUME NEW q \in Processes
                 PROVE  writer'[q].value <= row'.value /\ retry'[q].value <= row'.value
      OBVIOUS
    <3>1. /\ writer[q].value \in Int /\ retry[q].value \in Int
          /\ writer[q].value <= row.value /\ retry[q].value <= row.value
      BY <1>2 DEF IInv, PromiseKept, WriterType, RetryType
    <3>2. writer'[q].value \in {writer[q].value, 0}
      BY <1>4, <1>7
    <3> QED
      BY <1>1, <2>1, <3>1, <3>2
  <2> QED
    BY <1>1, <2>2, CommitRow DEF PromiseKept
<1>10. NoneExecuted
  BY <1>1, <1>4, <1>7 DEF NoneExecuted
<1>11. ASSUME NEW e \in BOOLEAN, NEW t \in Task, Held(e, t)'
       PROVE  Held(e, t) \/ (e = d /\ t = Upserted(d))
  <2>1. PICK q \in Processes : InWriter(q, e, t)' \/ InRunner(q, e, t)'
    BY <1>11 DEF Held
  <2>2. InRunner(q, e, t)' => InRunner(q, e, t)
    BY <1>1 DEF InRunner
  <2>3. q # p => (InWriter(q, e, t)' => InWriter(q, e, t))
    BY <1>7 DEF InWriter
  <2>4. q = p => (InWriter(q, e, t)' => e = d /\ t = Upserted(d))
    BY <1>5, <1>6, <1>7, Zenon DEF InWriter
  <2> QED
    BY <2>1, <2>2, <2>3, <2>4 DEF Held
<1>12. HeldWasStaged' /\ StaleIsFenced'
  BY <1>1, <1>10, <1>11, OutboxGrows DEF IInv
<1> QED
  BY <1>8, <1>9, <1>12 DEF IInv

LEMMA CommitDirectStep ==
  ASSUME IInv, NEW p \in Processes, CommitDirect(p)
  PROVE  IInv'
<1> DEFINE w == [NoWriter EXCEPT !.pc = "direct", !.value = writes + 1]
<1>1. /\ writes < MaxWrites /\ writes' = writes + 1 /\ row' = Written(FALSE) /\ ~row.gone
      /\ writer' = [writer EXCEPT ![p] = w]
      /\ UNCHANGED <<outbox, lastId, redis, retry, runner, reader, promised>>
  BY DEF CommitDirect
<1>2. DatabaseType /\ WriterType /\ RetryType /\ RunnerType /\ PromiseKept
  BY DEF IInv, TypeInv
<1>3. writes + 1 \in 0..MaxWrites
  BY <1>1, <1>2, MaxWritesAssumption DEF DatabaseType
<1>4. w \in Writers /\ w.pc = "direct" /\ w.value = writes + 1
  BY <1>3, NoRecords DEF Writers, NoWriter
<1> HIDE DEF w
<1>5. WriterType' /\ writer'[p] = w /\ \A q \in Processes : q # p => writer'[q] = writer[q]
  BY <1>1, <1>2, <1>4, WriterSet
<1>6. /\ row' \in [value : 0..MaxWrites, gone : BOOLEAN]
      /\ writes' \in 0..MaxWrites /\ row'.value = writes' /\ row'.value >= row.value /\ ~row'.gone
      /\ row'.value <= writes'
  BY <1>1, <1>2, CommitRow
<1>7. TypeInv'
  <2>1. DatabaseType'
    BY <1>1, <1>2, <1>6 DEF DatabaseType, Task
  <2> QED
    BY <2>1, <1>1, <1>5, <1>6 DEF IInv, TypeInv, DatabaseType, redis, RedisType, RetryType, RunnerType, ReaderType
<1>8. PromiseKept'
  <2>1. /\ row.value \in Int /\ row'.value \in Int /\ promised \in 0..Gone /\ promised <= row.value
        /\ writes \in Int /\ row'.value >= row.value /\ row'.value = writes + 1
    <3>1. row.value \in 0..MaxWrites /\ writes \in 0..MaxWrites
      BY <1>2 DEF DatabaseType
    <3>2. row'.value \in 0..MaxWrites
      BY <1>6
    <3>3. promised \in 0..Gone /\ promised <= row.value
      BY <1>1, <1>2 DEF PromiseKept
    <3>4. writes' = writes + 1 /\ row'.value = writes' /\ row'.value >= row.value
      BY <1>1, <1>6
    <3>5. MaxWrites \in Int
      BY MaxWritesAssumption
    <3> QED
      BY <3>1, <3>2, <3>3, <3>4, <3>5
  <2>3. promised \in Int /\ promised <= row'.value
    BY <2>1, MaxWritesAssumption DEF Gone
  <2>2. \A q \in Processes : writer'[q].value <= row'.value /\ retry'[q].value <= row'.value
    <3> SUFFICES ASSUME NEW q \in Processes
                 PROVE  writer'[q].value <= row'.value /\ retry'[q].value <= row'.value
      OBVIOUS
    <3>1. /\ writer[q].value \in Int /\ retry[q].value \in Int
          /\ writer[q].value <= row.value /\ retry[q].value <= row.value
      BY <1>2 DEF PromiseKept, WriterType, RetryType
    <3>2. writer'[q].value \in {writer[q].value, writes + 1} /\ retry' = retry
      BY <1>1, <1>4, <1>5
    <3> QED
      BY <2>1, <3>1, <3>2
  <2> QED
    BY <1>1, <2>1, <2>2, <2>3 DEF PromiseKept, Gone
<1>9. NoneExecuted
  BY <1>1, <1>4, <1>5 DEF NoneExecuted
<1>10. \A e \in BOOLEAN, t \in Task : Held(e, t)' => Held(e, t)
  BY <1>1, <1>4, <1>5, WriterKeeps
<1>11. Stale' => Stale
  BY <1>1 DEF Stale, Storable, redis
<1>12. HeldWasStaged' /\ StaleIsFenced'
  BY <1>1, <1>9, <1>10, <1>11, OutboxKept DEF IInv
<1> QED
  BY <1>7, <1>8, <1>12 DEF IInv

(* What was staged or executed was committed. *)
LEMMA PromiseRises ==
  ASSUME IInv, NEW v \in 0..MaxWrites, v <= row.value
  PROVE  /\ AtLeast(promised, v) \in 0..Gone
         /\ ~row.gone => AtLeast(promised, v) <= row.value
<1>1. promised \in 0..Gone /\ row.value \in Int /\ (~row.gone => promised <= row.value)
  BY DEF IInv, PromiseKept, TypeInv, DatabaseType
<1>2. v \in 0..Gone
  BY MaxWritesAssumption DEF Gone
<1>3. AtLeast(promised, v) \in {promised, v}
  BY DEF AtLeast
<1> QED
  BY <1>1, <1>2, <1>3

LEMMA PersistStep ==
  ASSUME IInv, NEW p \in Processes, Persist(p)
  PROVE  IInv'
<1>1. /\ writer' = [writer EXCEPT ![p] = NoWriter]
      /\ UNCHANGED <<row, writes, redis, retry, runner, reader>>
      /\ \/ Upsert(FALSE) /\ promised' = AtLeast(promised, writer[p].value)
         \/ UNCHANGED <<outbox, lastId, promised>>
  BY DEF Persist
<1>2. DatabaseType /\ WriterType /\ RetryType /\ RunnerType /\ PromiseKept
  BY DEF IInv, TypeInv
<1>3. WriterType' /\ writer'[p] = NoWriter /\ \A q \in Processes : q # p => writer'[q] = writer[q]
  BY <1>1, <1>2, NoRecords, WriterSet
<1>4. TypeInv'
  <2>1. DatabaseType'
    BY <1>1, <1>2, UpsertType DEF DatabaseType, Task
  <2> QED
    BY <1>1, <1>3, <2>1 DEF IInv, TypeInv, redis, RedisType, RetryType, RunnerType, ReaderType
<1>5. PromiseKept'
  <2>1. writer[p].value \in 0..MaxWrites /\ writer[p].value <= row.value /\ row.value >= 0
    BY <1>2 DEF PromiseKept, WriterType, DatabaseType
  <2>2. promised' \in 0..Gone /\ (~row.gone => promised' <= row.value)
    BY <1>1, <1>2, <2>1, PromiseRises DEF PromiseKept
  <2>3. \A q \in Processes : writer'[q].value <= row.value /\ retry[q].value <= row.value
    BY <1>2, <1>3, <2>1, NoRecords DEF PromiseKept
  <2> QED
    BY <1>1, <2>2, <2>3 DEF PromiseKept, Gone
<1>6. NoneExecuted
  BY <1>1, <1>3, NoRecords DEF NoneExecuted
<1>7. \A e \in BOOLEAN, t \in Task : Held(e, t)' => Held(e, t)
  BY <1>1, <1>3, NoRecords, WriterKeeps
<1>8. CASE Upsert(FALSE)
  BY <1>4, <1>5, <1>6, <1>7, <1>8, OutboxGrows DEF IInv
<1>9. CASE UNCHANGED <<outbox, lastId, promised>>
  <2>1. Stale' => Stale
    BY <1>1, <1>9 DEF Stale, Storable, redis
  <2> QED
    BY <1>4, <1>5, <1>6, <1>7, <1>9, <2>1, OutboxKept DEF IInv
<1> QED
  BY <1>1, <1>8, <1>9

(* A dispatch executes the staged task, or leaves it to the runners. *)
LEMMA ExecuteStep ==
  ASSUME IInv, NEW p \in Processes, Execute(p)
  PROVE  IInv'
<1> DEFINE w == [writer[p] EXCEPT !.pc = "complete"]
<1>1. /\ writer[p].pc = "execute"
      /\ \/ (Invalidate \/ Delete) /\ writer' = [writer EXCEPT ![p] = w]
         \/ writer' = [writer EXCEPT ![p] = NoWriter] /\ UNCHANGED redis
      /\ UNCHANGED <<database, retry, runner, reader, promised>>
  BY DEF Execute, ExecuteTask
<1>2. DatabaseType /\ WriterType /\ RetryType /\ RunnerType /\ PromiseKept
  BY DEF IInv, TypeInv
<1>3. /\ w \in Writers /\ w.pc = "complete" /\ w.value = writer[p].value
      /\ w.delete = writer[p].delete /\ w.task = writer[p].task
  BY <1>2 DEF WriterType, Writers
<1> HIDE DEF w
<1>4. UNCHANGED <<row, writes, outbox, lastId>>
  BY <1>1 DEF database
<1>5. RetryType' /\ RunnerType'
  BY <1>1, <1>2 DEF RetryType, RunnerType
<1>6. writer[p].value >= 0 /\ writer[p].value <= row.value /\ row.value >= 0
  BY <1>2 DEF PromiseKept, WriterType, DatabaseType
<1>7. CASE (Invalidate \/ Delete) /\ writer' = [writer EXCEPT ![p] = w]
  <2>1. WriterType' /\ writer'[p] = w /\ \A q \in Processes : q # p => writer'[q] = writer[q]
    BY <1>2, <1>3, <1>7, WriterSet
  <2>2. \A d \in BOOLEAN, t \in Task : Held(d, t)' => Held(d, t)
    BY <1>1, <1>3, <2>1, WriterKeeps
  <2>3. PromiseKept'
    BY <1>1, <1>2, <1>3, <1>4, <2>1 DEF PromiseKept, Gone
  <2> QED
    BY <1>1, <1>5, <1>7, <2>1, <2>2, <2>3, FlushStep
<1>8. CASE writer' = [writer EXCEPT ![p] = NoWriter] /\ UNCHANGED redis
  <2>1. /\ WriterType' /\ writer'[p] = NoWriter
        /\ \A q \in Processes : q # p => writer'[q] = writer[q]
    BY <1>2, <1>8, NoRecords, WriterSet
  <2>2. \A d \in BOOLEAN, t \in Task : Held(d, t)' => Held(d, t)
    BY <1>1, <2>1, NoRecords, WriterKeeps
  <2>3. PromiseKept'
    BY <1>1, <1>2, <1>4, <1>6, <2>1, NoRecords DEF PromiseKept, Gone
  <2>4. NoneExecuted
    BY <1>1, <2>1, NoRecords DEF NoneExecuted
  <2> QED
    BY <1>1, <1>5, <1>8, <2>1, <2>2, <2>3, <2>4, ProcessStep
<1> QED
  BY <1>1, <1>7, <1>8

(* The completion takes away exactly the task that was executed. *)
LEMMA CompleteStep ==
  ASSUME IInv, NEW p \in Processes, Complete(p)
  PROVE  IInv'
<1> DEFINE d == writer[p].delete
           t == writer[p].task
<1>1. /\ writer[p].pc = "complete" /\ writer' = [writer EXCEPT ![p] = NoWriter]
      /\ outbox' = Completed(d, t) \/ outbox' = outbox
      /\ UNCHANGED <<row, writes, lastId, redis, retry, runner, reader, promised>>
  BY DEF Complete
<1>2. DatabaseType /\ WriterType /\ RetryType /\ RunnerType /\ PromiseKept
  BY DEF IInv, TypeInv
<1>3. /\ WriterType' /\ writer'[p] = NoWriter
      /\ \A q \in Processes : q # p => writer'[q] = writer[q]
  BY <1>1, <1>2, NoRecords, WriterSet
<1>4. d \in BOOLEAN /\ t \in Task
  BY <1>2 DEF WriterType
<1>5. t = outbox[d] => Executed(d)
  BY <1>1 DEF Executed
<1>6. Held(d, t)
  BY <1>1 DEF Held, InWriter
<1>7. \A e \in BOOLEAN, u \in Task : Held(e, u)' => Held(e, u)
  BY <1>1, <1>3, NoRecords, WriterKeeps
<1>8. NoneExecuted
  BY <1>1, <1>3, NoRecords DEF NoneExecuted
<1>9. Stale' => Stale
  BY <1>1 DEF Stale, Storable, redis
<1> HIDE DEF d, t
<1>10. outbox' \in [BOOLEAN -> Task] /\ HeldWasStaged' /\ StaleIsFenced'
  <2>1. CASE outbox' = Completed(d, t)
    BY <1>1, <1>4, <1>5, <1>6, <1>7, <1>8, <1>9, <2>1, OutboxAnswers DEF IInv
  <2>2. CASE outbox' = outbox
    <3>1. HeldWasStaged' /\ StaleIsFenced'
      BY <1>1, <1>7, <1>8, <1>9, <2>2, OutboxKept DEF IInv
    <3> QED
      BY <1>2, <2>2, <3>1 DEF DatabaseType
  <2> QED
    BY <1>1, <2>1, <2>2
<1>11. TypeInv'
  <2>1. DatabaseType'
    BY <1>1, <1>2, <1>10 DEF DatabaseType, Task
  <2> QED
    BY <1>1, <1>3, <2>1 DEF IInv, TypeInv, redis, RedisType, RetryType, RunnerType, ReaderType
<1>12. PromiseKept'
  <2>1. row.value >= 0
    BY <1>2 DEF DatabaseType
  <2> QED
    BY <1>1, <1>2, <1>3, <2>1, NoRecords DEF PromiseKept, Gone
<1> QED
  BY <1>10, <1>11, <1>12 DEF IInv

(* The invalidation after a commit that staged nothing, and its retries. *)
LEMMA InvalidateDirectStep ==
  ASSUME IInv, NEW p \in Processes, InvalidateDirect(p)
  PROVE  IInv'
<1> DEFINE w == IF retry[p].on THEN NoWriter ELSE [writer[p] EXCEPT !.pc = "persist"]
<1>1. /\ writer[p].pc = "direct"
      /\ \/ /\ Invalidate /\ promised' = AtLeast(promised, writer[p].value)
            /\ writer' = [writer EXCEPT ![p] = NoWriter] /\ UNCHANGED retry
         \/ /\ retry' = [retry EXCEPT ![p] = Enqueued(p)]
            /\ writer' = [writer EXCEPT ![p] = w]
            /\ UNCHANGED <<redis, promised>>
      /\ UNCHANGED <<database, runner, reader>>
  BY DEF InvalidateDirect
<1>2. DatabaseType /\ WriterType /\ RetryType /\ RunnerType /\ PromiseKept
  BY DEF IInv, TypeInv
<1>3. writer[p].value \in 0..MaxWrites /\ writer[p].value <= row.value /\ row.value >= 0
  BY <1>2 DEF WriterType, PromiseKept, DatabaseType
<1>4. writer[p] \in Writers /\ retry[p] \in Retries
  BY <1>2 DEF WriterType, Writers, RetryType, Retries
<1>5. /\ w \in Writers /\ w.pc \in {"idle", "persist"}
      /\ w.value = 0 \/ w.value = writer[p].value
  <2>1. CASE retry[p].on
    BY <2>1, NoRecords
  <2>2. CASE ~retry[p].on
    BY <1>4, <2>2 DEF Writers
  <2> QED
    BY <2>1, <2>2
<1> HIDE DEF w
<1>6. UNCHANGED <<row, writes, outbox, lastId>>
  BY <1>1 DEF database
<1>7. RunnerType'
  BY <1>1, <1>2 DEF RunnerType
<1>8. CASE /\ Invalidate /\ promised' = AtLeast(promised, writer[p].value)
           /\ writer' = [writer EXCEPT ![p] = NoWriter] /\ UNCHANGED retry
  <2>1. /\ WriterType' /\ writer'[p] = NoWriter
        /\ \A q \in Processes : q # p => writer'[q] = writer[q]
    BY <1>2, <1>8, NoRecords, WriterSet
  <2>2. \A d \in BOOLEAN, t \in Task : Held(d, t)' => Held(d, t)
    BY <1>1, <2>1, NoRecords, WriterKeeps
  <2>3. PromiseKept'
    <3>1. promised' \in 0..Gone /\ (~row.gone => promised' <= row.value)
      BY <1>3, <1>8, PromiseRises
    <3>2. \A q \in Processes : writer'[q].value <= row.value /\ retry[q].value <= row.value
      BY <1>2, <1>3, <2>1, NoRecords DEF PromiseKept
    <3> QED
      BY <1>6, <1>8, <3>1, <3>2 DEF PromiseKept, Gone
  <2>4. RetryType'
    BY <1>2, <1>8 DEF RetryType
  <2> QED
    BY <1>1, <1>7, <1>8, <2>1, <2>2, <2>3, <2>4, FlushStep
<1>9. CASE /\ retry' = [retry EXCEPT ![p] = Enqueued(p)]
           /\ writer' = [writer EXCEPT ![p] = w]
           /\ UNCHANGED <<redis, promised>>
  <2>1. /\ WriterType' /\ writer'[p] = w
        /\ \A q \in Processes : q # p => writer'[q] = writer[q]
    BY <1>2, <1>5, <1>9, WriterSet
  <2>2. \A d \in BOOLEAN, t \in Task : Held(d, t)' => Held(d, t)
    BY <1>1, <1>5, <2>1, WriterKeeps
  <2>3. Enqueued(p) \in Retries /\ Enqueued(p).value = writer[p].value
    <3>1. retry[p].revision + 1 \in Nat
      BY <1>4 DEF Retries
    <3>2. Enqueued(p) = [retry[p] EXCEPT !.on = TRUE, !.revision = retry[p].revision + 1,
                                         !.value = writer[p].value]
      BY DEF Enqueued
    <3> QED
      BY <1>3, <1>4, <3>1, <3>2 DEF Retries
  <2>4. /\ RetryType' /\ retry'[p] = Enqueued(p)
        /\ \A q \in Processes : q # p => retry'[q] = retry[q]
    BY <1>2, <1>9, <2>3, RetrySet
  <2>5. PromiseKept'
    <3>1. \A q \in Processes : writer'[q].value <= row.value /\ retry'[q].value <= row.value
      BY <1>2, <1>3, <1>5, <2>1, <2>3, <2>4 DEF PromiseKept
    <3> QED
      BY <1>2, <1>6, <1>9, <3>1 DEF PromiseKept, Gone
  <2>6. NoneExecuted
    BY <1>1, <1>5, <2>1 DEF NoneExecuted
  <2> QED
    BY <1>1, <1>7, <1>9, <2>1, <2>2, <2>4, <2>5, <2>6, ProcessStep
<1> QED
  BY <1>1, <1>8, <1>9

(* A change of the retry entry of one process alone. *)
LEMMA RetryEntryStep ==
  ASSUME IInv, NEW p \in Processes, NEW e \in Retries, retry' = [retry EXCEPT ![p] = e],
         e.value = 0 \/ e.value = retry[p].value,
         UNCHANGED <<database, writer, runner, reader, promised>>
  PROVE  /\ RetryType' /\ PromiseKept'
         /\ UNCHANGED redis => IInv'
<1>1. DatabaseType /\ WriterType /\ RetryType /\ RunnerType /\ PromiseKept
  BY DEF IInv, TypeInv
<1>2. UNCHANGED <<row, writes, outbox, lastId>>
  BY DEF database
<1>3. RetryType' /\ retry'[p] = e /\ \A q \in Processes : q # p => retry'[q] = retry[q]
  BY <1>1, RetrySet
<1>4. row.value >= 0
  BY <1>1 DEF DatabaseType
<1>5. PromiseKept'
  BY <1>1, <1>2, <1>3, <1>4 DEF PromiseKept, Gone
<1>6. NoneExecuted /\ \A d \in BOOLEAN, t \in Task : Held(d, t)' => Held(d, t)
  BY DEF NoneExecuted, Held, InWriter, InRunner
<1>7. WriterType' /\ RunnerType'
  BY <1>1 DEF WriterType, RunnerType
<1> QED
  BY <1>3, <1>5, <1>6, <1>7, ProcessStep

LEMMA RetryStep ==
  ASSUME IInv, NEW p \in Processes, Retry(p)
  PROVE  IInv'
<1>1. DatabaseType /\ WriterType /\ RetryType /\ RunnerType /\ PromiseKept
  BY DEF IInv, TypeInv
<1>2. retry \in [Processes -> Retries] /\ retry[p] \in Retries
  BY <1>1 DEF RetryType, Retries
<1>3. CASE RetryClaim(p)
  <2> DEFINE e == [retry[p] EXCEPT !.attempt = retry[p].revision]
  <2>1. e \in Retries /\ e.value = retry[p].value
    BY <1>2 DEF Retries
  <2>2. retry' = [retry EXCEPT ![p] = e] /\ UNCHANGED <<database, redis, writer, runner, reader, promised>>
    BY <1>2, <1>3 DEF RetryClaim
  <2> HIDE DEF e
  <2> QED
    BY <2>1, <2>2, RetryEntryStep
<1>4. CASE RetryAttempt(p)
  <2>1. \/ /\ Invalidate /\ promised' = AtLeast(promised, retry[p].value)
           /\ retry' = [retry EXCEPT ![p].executed = TRUE]
        \/ retry' = [retry EXCEPT ![p].attempt = 0] /\ UNCHANGED <<redis, promised>>
    BY <1>4 DEF RetryAttempt
  <2>2. UNCHANGED <<database, writer, runner, reader>>
    BY <1>4 DEF RetryAttempt
  <2>3. UNCHANGED <<row, writes, outbox, lastId>>
    BY <2>2 DEF database
  <2>4. CASE /\ Invalidate /\ promised' = AtLeast(promised, retry[p].value)
             /\ retry' = [retry EXCEPT ![p].executed = TRUE]
    <3> DEFINE e == [retry[p] EXCEPT !.executed = TRUE]
    <3>1. e \in Retries /\ e.value = retry[p].value
      BY <1>2 DEF Retries
    <3>2. retry' = [retry EXCEPT ![p] = e]
      BY <1>2, <2>4
    <3> HIDE DEF e
    <3>3. RetryType' /\ retry'[p] = e /\ \A q \in Processes : q # p => retry'[q] = retry[q]
      BY <1>1, <3>1, <3>2, RetrySet
    <3>4. retry[p].value \in 0..MaxWrites /\ retry[p].value <= row.value
      BY <1>1, <1>2 DEF Retries, PromiseKept
    <3>5. promised' \in 0..Gone /\ (~row.gone => promised' <= row.value)
      BY <2>4, <3>4, PromiseRises
    <3>6. \A q \in Processes : writer[q].value <= row.value /\ retry'[q].value <= row.value
      BY <1>1, <3>1, <3>3, <3>4 DEF PromiseKept
    <3>7. PromiseKept'
      BY <2>2, <2>3, <3>5, <3>6 DEF PromiseKept, Gone
    <3>8. \A d \in BOOLEAN, t \in Task : Held(d, t)' => Held(d, t)
      BY <2>2 DEF Held, InWriter, InRunner
    <3>9. WriterType' /\ RunnerType'
      BY <1>1, <2>2 DEF WriterType, RunnerType
    <3> QED
      BY <2>2, <2>4, <3>3, <3>7, <3>8, <3>9, FlushStep
  <2>5. CASE retry' = [retry EXCEPT ![p].attempt = 0] /\ UNCHANGED <<redis, promised>>
    <3> DEFINE e == [retry[p] EXCEPT !.attempt = 0]
    <3>1. e \in Retries /\ e.value = retry[p].value
      BY <1>2 DEF Retries
    <3>2. retry' = [retry EXCEPT ![p] = e]
      BY <1>2, <2>5
    <3> HIDE DEF e
    <3> QED
      BY <2>2, <2>5, <3>1, <3>2, RetryEntryStep
  <2> QED
    BY <2>1, <2>4, <2>5
<1>5. CASE RetryComplete(p)
  <2> DEFINE e == IF retry[p].revision = retry[p].attempt THEN NoRetry
                  ELSE [retry[p] EXCEPT !.attempt = 0, !.executed = FALSE]
  <2>1. e \in Retries /\ (e.value = 0 \/ e.value = retry[p].value)
    <3>1. CASE retry[p].revision = retry[p].attempt
      BY <3>1, NoRecords
    <3>2. CASE retry[p].revision # retry[p].attempt
      BY <1>2, <3>2 DEF Retries
    <3> QED
      BY <3>1, <3>2
  <2>2. retry' = [retry EXCEPT ![p] = e] /\ UNCHANGED <<database, redis, writer, runner, reader, promised>>
    BY <1>2, <1>5 DEF RetryComplete
  <2> HIDE DEF e
  <2> QED
    BY <2>1, <2>2, RetryEntryStep
<1>6. CASE RetryExpires(p)
  <2>1. retry' = [retry EXCEPT ![p] = NoRetry] /\ UNCHANGED <<database, redis, writer, runner, reader, promised>>
    BY <1>6 DEF RetryExpires
  <2> QED
    BY <2>1, NoRecords, RetryEntryStep
<1> QED
  BY <1>3, <1>4, <1>5, <1>6 DEF Retry

-----------------------------------------------------------------------------
(* The runners. *)

(* What follows the first task of a batch. *)
LEMMA FollowingBatch ==
  ASSUME RunnerType, NEW p \in Processes, runner[p].pc # "idle"
  PROVE  /\ Following(p) \in Runners /\ Following(p).pc \in {"idle", "execute"}
         /\ Following(p).pc # "idle" => Following(p).batch # <<>>
         /\ \A i \in 1..Len(Following(p).batch) : \E j \in 1..Len(runner[p].batch) :
              Following(p).batch[i] = runner[p].batch[j]
<1> DEFINE S == [delete : BOOLEAN, task : Task]
           b == runner[p].batch
<1>1. b \in Seq(S) /\ b # <<>>
  BY DEF RunnerType, Batches
<1> HIDE DEF S, b
<1>2. /\ Tail(b) \in Seq(S)
      /\ \A i \in 1..Len(Tail(b)) : i + 1 \in 1..Len(b) /\ Tail(b)[i] = b[i + 1]
  BY <1>1
<1>3. CASE Tail(b) = <<>>
  <2>1. Following(p) = NoRunner
    BY <1>3 DEF Following, b
  <2> QED
    BY <2>1, NoRecords
<1>4. CASE Tail(b) # <<>>
  <2>1. Following(p) = [pc |-> "execute", batch |-> Tail(b)]
    BY <1>4 DEF Following, b
  <2>2. Tail(b) \in Batches
    BY <1>2 DEF Batches, S
  <2>3. /\ Following(p) \in Runners /\ Following(p).pc = "execute"
        /\ Following(p).batch = Tail(b)
    BY <2>1, <2>2 DEF Runners
  <2>4. \A i \in 1..Len(Tail(b)) : \E j \in 1..Len(b) : Tail(b)[i] = b[j]
    BY <1>2
  <2> QED
    BY <1>4, <2>3, <2>4 DEF b
<1> QED
  BY <1>3, <1>4

LEMMA RunnerLoadsStep ==
  ASSUME IInv, NEW p \in Processes, RunnerLoads(p)
  PROVE  IInv'
<1> DEFINE e == [pc |-> "execute", batch |-> Loaded]
<1>1. /\ runner[p].pc = "idle" /\ Loaded # <<>> /\ runner' = [runner EXCEPT ![p] = e]
      /\ UNCHANGED <<database, redis, writer, retry, reader, promised>>
  BY DEF RunnerLoads
<1>2. DatabaseType /\ WriterType /\ RetryType /\ RunnerType /\ PromiseKept
  BY DEF IInv, TypeInv
<1>3. e \in Runners /\ e.pc = "execute" /\ e.batch = Loaded
  BY <1>2, LoadedTasks DEF Runners
<1> HIDE DEF e
<1>4. RunnerType' /\ runner'[p] = e /\ \A q \in Processes : q # p => runner'[q] = runner[q]
  BY <1>1, <1>2, <1>3, RunnerSet
<1>5. UNCHANGED <<row, writes, outbox, lastId, hash, generation, sequence>>
  BY <1>1 DEF database, redis
<1>6. TypeInv'
  BY <1>1, <1>4, <1>5 DEF IInv, TypeInv, DatabaseType, RedisType, WriterType, RetryType, ReaderType
<1>7. PromiseKept'
  BY <1>1, <1>2, <1>5 DEF PromiseKept, Gone
<1>8. NoneExecuted
  BY <1>1, <1>3, <1>4 DEF NoneExecuted
<1>9. Stale' => Stale
  BY <1>1, <1>5 DEF Stale, Storable
<1>10. ASSUME NEW d \in BOOLEAN, NEW t \in Task, Held(d, t)'
       PROVE  Held(d, t) \/ (t = outbox[d] /\ outbox[d] # NoTask)
  <2>1. PICK q \in Processes : InWriter(q, d, t)' \/ InRunner(q, d, t)'
    BY <1>10 DEF Held
  <2>2. InWriter(q, d, t)' => InWriter(q, d, t)
    BY <1>1 DEF InWriter
  <2>3. q # p => (InRunner(q, d, t)' => InRunner(q, d, t))
    BY <1>4 DEF InRunner
  <2>4. ASSUME q = p, InRunner(p, d, t)'
        PROVE  t = outbox[d] /\ outbox[d] # NoTask
    <3>1. PICK i \in 1..Len(Loaded) : Loaded[i].delete = d /\ Loaded[i].task = t
      BY <1>3, <1>4, <2>4, Zenon DEF InRunner
    <3>2. PICK c \in BOOLEAN : Loaded[i] = Copy(c) /\ outbox[c] # NoTask
      BY <1>2, LoadedTasks
    <3>3. Copy(c).delete = c /\ Copy(c).task = outbox[c]
      BY Zenon DEF Copy
    <3> QED
      BY <3>1, <3>2, <3>3, Zenon
  <2> QED
    BY <2>1, <2>2, <2>3, <2>4 DEF Held
<1>11. HeldWasStaged'
  <2>1. ASSUME NEW d \in BOOLEAN, outbox[d] # NoTask
        PROVE  Staged(d, outbox[d])
    <3>1. outbox[d] \in Task /\ outbox[d].id <= lastId /\ (outbox[d].id = 0 <=> outbox[d].revision = 0)
          /\ lastId \in Nat
      BY <1>2 DEF IInv, HeldWasStaged, DatabaseType
    <3>2. outbox[d].id # 0
      BY <2>1, <3>1 DEF Task, NoTask
    <3> QED
      BY <3>1, <3>2 DEF Staged, Task
  <2>2. \A d \in BOOLEAN, t \in Task : Held(d, t)' => Staged(d, t)
    BY <1>10, <2>1 DEF IInv, HeldWasStaged
  <2> QED
    BY <1>5, <2>2 DEF IInv, HeldWasStaged, Staged
<1>12. StaleIsFenced'
  <2> SUFFICES ASSUME Stale'
               PROVE  \E d \in BOOLEAN : outbox'[d] # NoTask /\ ~Executed(d)'
    BY DEF StaleIsFenced
  <2>1. PICK d \in BOOLEAN : outbox[d] # NoTask /\ ~Executed(d)
    BY <1>9 DEF IInv, StaleIsFenced
  <2> QED
    BY <1>2, <1>5, <1>8, <2>1, ExecutedBefore
<1> QED
  BY <1>6, <1>7, <1>11, <1>12 DEF IInv

LEMMA RunnerExecutesStep ==
  ASSUME IInv, NEW p \in Processes, RunnerExecutes(p)
  PROVE  IInv'
<1>1. /\ runner[p].pc = "execute" /\ UNCHANGED <<database, writer, retry, reader, promised>>
      /\ \/ (Invalidate \/ Delete) /\ runner' = [runner EXCEPT ![p].pc = "complete"]
         \/ runner' = [runner EXCEPT ![p].pc = "reschedule"] /\ UNCHANGED redis
  BY DEF RunnerExecutes, ExecuteTask
<1>2. DatabaseType /\ WriterType /\ RetryType /\ RunnerType /\ PromiseKept
  BY DEF IInv, TypeInv
<1>3. PICK label \in {"complete", "reschedule"} :
        /\ runner' = [runner EXCEPT ![p].pc = label]
        /\ (Invalidate \/ Delete) \/ (label = "reschedule" /\ UNCHANGED redis)
  BY <1>1
<1> DEFINE e == [runner[p] EXCEPT !.pc = label]
<1>4. runner \in [Processes -> Runners] /\ runner[p] \in Runners
  BY <1>2 DEF RunnerType, Runners
<1>5. e \in Runners /\ e.pc = label /\ e.batch = runner[p].batch
  BY <1>4 DEF Runners
<1>6. runner' = [runner EXCEPT ![p] = e]
  BY <1>3, <1>4
<1>7. e.batch # <<>>
  BY <1>1, <1>2, <1>5 DEF RunnerType
<1> HIDE DEF e
<1>8. RunnerType' /\ runner'[p] = e /\ \A q \in Processes : q # p => runner'[q] = runner[q]
  BY <1>2, <1>5, <1>6, <1>7, RunnerSet
<1>9. \A d \in BOOLEAN, t \in Task : Held(d, t)' => Held(d, t)
  BY <1>1, <1>5, <1>8, RunnerKeeps
<1>10. UNCHANGED <<row, writes, outbox, lastId>>
  BY <1>1 DEF database
<1>11. PromiseKept' /\ WriterType' /\ RetryType'
  BY <1>1, <1>2, <1>10 DEF PromiseKept, Gone, WriterType, RetryType
<1>12. CASE Invalidate \/ Delete
  BY <1>1, <1>8, <1>9, <1>11, <1>12, FlushStep
<1>13. CASE label = "reschedule" /\ UNCHANGED redis
  <2>1. NoneExecuted
    BY <1>1, <1>5, <1>8, <1>13 DEF NoneExecuted
  <2> QED
    BY <1>1, <1>8, <1>9, <1>11, <1>13, <2>1, ProcessStep
<1> QED
  BY <1>3, <1>12, <1>13

LEMMA RunnerEndsStep ==
  ASSUME IInv, NEW p \in Processes, RunnerEnds(p)
  PROVE  IInv'
<1> DEFINE d == First(p).delete
           t == First(p).task
<1>1. /\ runner[p].pc \in {"complete", "reschedule"}
      /\ runner' = [runner EXCEPT ![p] = Following(p)]
      /\ \/ runner[p].pc = "complete" /\ outbox' = Completed(d, t)
         \/ outbox' = Rescheduled(d, t)
         \/ outbox' = outbox
      /\ UNCHANGED <<row, writes, lastId, redis, writer, retry, reader, promised>>
  BY DEF RunnerEnds
<1>2. DatabaseType /\ WriterType /\ RetryType /\ RunnerType /\ PromiseKept
  BY DEF IInv, TypeInv
<1>3. /\ Following(p) \in Runners /\ Following(p).pc \in {"idle", "execute"}
      /\ Following(p).pc # "idle" => Following(p).batch # <<>>
      /\ \A i \in 1..Len(Following(p).batch) : \E j \in 1..Len(runner[p].batch) :
           Following(p).batch[i] = runner[p].batch[j]
  BY <1>1, <1>2, FollowingBatch
<1>4. /\ RunnerType' /\ runner'[p] = Following(p)
      /\ \A q \in Processes : q # p => runner'[q] = runner[q]
  BY <1>1, <1>2, <1>3, RunnerSet
<1>5. First(p) \in [delete : BOOLEAN, task : Task] /\ InRunner(p, d, t)
  BY <1>1, <1>2, HeadInBatch
<1>6. d \in BOOLEAN /\ t \in Task
  BY <1>5
<1>7. runner[p].pc = "complete" /\ t = outbox[d] => Executed(d)
  BY DEF Executed
<1>8. Held(d, t)
  BY <1>5 DEF Held
<1>9. \A e \in BOOLEAN, u \in Task : Held(e, u)' => Held(e, u)
  BY <1>1, <1>3, <1>4, RunnerKeeps
<1>10. NoneExecuted
  BY <1>1, <1>3, <1>4 DEF NoneExecuted
<1>11. Stale' => Stale
  BY <1>1 DEF Stale, Storable, redis
<1> HIDE DEF d, t
<1>12. outbox' \in [BOOLEAN -> Task] /\ HeldWasStaged' /\ StaleIsFenced'
  <2>1. CASE runner[p].pc = "complete" /\ outbox' = Completed(d, t)
    BY <1>1, <1>6, <1>7, <1>8, <1>9, <1>10, <1>11, <2>1, OutboxAnswers DEF IInv
  <2>2. CASE outbox' = Rescheduled(d, t)
    BY <1>1, <1>6, <1>8, <1>9, <1>10, <1>11, <2>2, OutboxAnswers DEF IInv
  <2>3. CASE outbox' = outbox
    <3>1. HeldWasStaged' /\ StaleIsFenced'
      BY <1>1, <1>9, <1>10, <1>11, <2>3, OutboxKept DEF IInv
    <3> QED
      BY <1>2, <2>3, <3>1 DEF DatabaseType
  <2> QED
    BY <1>1, <2>1, <2>2, <2>3
<1>13. TypeInv'
  <2>1. DatabaseType'
    BY <1>1, <1>2, <1>12 DEF DatabaseType, Task
  <2> QED
    BY <1>1, <1>4, <2>1 DEF IInv, TypeInv, redis, RedisType, RetryType, WriterType, ReaderType
<1>14. PromiseKept'
  BY <1>1, <1>2 DEF PromiseKept, Gone
<1> QED
  BY <1>12, <1>13, <1>14 DEF IInv

-----------------------------------------------------------------------------
LEMMA CrashStep ==
  ASSUME IInv, NEW p \in Processes, Crash(p)
  PROVE  IInv'
<1>1. /\ writer' = [writer EXCEPT ![p] = NoWriter] /\ retry' = [retry EXCEPT ![p] = NoRetry]
      /\ runner' = [runner EXCEPT ![p] = NoRunner]
      /\ UNCHANGED <<database, redis, reader, promised>>
  BY DEF Crash
<1>2. DatabaseType /\ WriterType /\ RetryType /\ RunnerType /\ PromiseKept
  BY DEF IInv, TypeInv
<1>3. /\ WriterType' /\ writer'[p] = NoWriter
      /\ \A q \in Processes : q # p => writer'[q] = writer[q]
  BY <1>1, <1>2, NoRecords, WriterSet
<1>4. RetryType' /\ retry'[p] = NoRetry /\ \A q \in Processes : q # p => retry'[q] = retry[q]
  BY <1>1, <1>2, NoRecords, RetrySet
<1>5. /\ RunnerType' /\ runner'[p] = NoRunner
      /\ \A q \in Processes : q # p => runner'[q] = runner[q]
  BY <1>1, <1>2, NoRecords, RunnerSet
<1>6. PromiseKept'
  <2>1. row.value >= 0 /\ UNCHANGED row
    BY <1>1, <1>2 DEF DatabaseType, database
  <2> QED
    BY <1>1, <1>2, <1>3, <1>4, <2>1, NoRecords DEF PromiseKept, Gone
<1>7. NoneExecuted
  BY <1>3, <1>5, NoRecords DEF NoneExecuted
<1>8. ASSUME NEW d \in BOOLEAN, NEW t \in Task, Held(d, t)'
      PROVE  Held(d, t)
  <2>1. PICK q \in Processes : InWriter(q, d, t)' \/ InRunner(q, d, t)'
    BY <1>8 DEF Held
  <2>2. q # p
    <3>1. ~InWriter(p, d, t)'
      BY <1>3, NoRecords DEF InWriter
    <3>2. ~InRunner(p, d, t)'
      BY <1>5, NoRecords DEF InRunner
    <3> QED
      BY <2>1, <3>1, <3>2
  <2>3. InWriter(q, d, t) \/ InRunner(q, d, t)
    BY <1>3, <1>5, <2>1, <2>2 DEF InWriter, InRunner
  <2> QED
    BY <2>3 DEF Held
<1> QED
  BY <1>1, <1>3, <1>4, <1>5, <1>6, <1>7, <1>8, ProcessStep

LEMMA ExpireStep ==
  ASSUME IInv, Expire
  PROVE  IInv'
<1>1. hash' = NoHash /\ UNCHANGED <<database, generation, sequence, writer, retry, runner, reader, promised>>
  BY DEF Expire
<1>2. RedisType'
  BY <1>1, MaxWritesAssumption DEF IInv, TypeInv, RedisType, NoHash, Values, Missing, Gone
<1>3. ReaderType'
  BY <1>1 DEF IInv, TypeInv, ReaderType, Values, Gone
<1>4. Stale' => Stale
  BY <1>1 DEF Stale, Storable, NoHash
<1> QED
  BY <1>1, <1>2, <1>3, <1>4, CacheStep

LEMMA NextIInv == IInv /\ [Next]_vars => IInv'
<1> SUFFICES ASSUME IInv, [Next]_vars
             PROVE  IInv'
  OBVIOUS
<1>1. ASSUME NEW p \in Processes, Mutate(p)
      PROVE  IInv'
  BY <1>1, CommitStagedStep, CommitDirectStep, ExecuteStep, CompleteStep, InvalidateDirectStep,
     PersistStep DEF Mutate
<1>2. ASSUME NEW p \in Processes, Runner(p)
      PROVE  IInv'
  BY <1>2, RunnerLoadsStep, RunnerExecutesStep, RunnerEndsStep DEF Runner
<1>3. CASE UNCHANGED vars
  <2>1. UNCHANGED <<database, redis, writer, retry, runner, reader, promised>>
    BY <1>3 DEF vars
  <2>2. UNCHANGED <<hash, generation, sequence>>
    BY <2>1 DEF redis
  <2>3. RedisType' /\ ReaderType'
    BY <2>1, <2>2 DEF IInv, TypeInv, RedisType, ReaderType, Values, Gone
  <2>4. Stale' => Stale
    BY <2>1, <2>2 DEF Stale, Storable
  <2> QED
    BY <2>1, <2>3, <2>4, CacheStep
<1> QED
  BY <1>1, <1>2, <1>3, RetryStep, CrashStep, ReaderStep, ExpireStep DEF Next

LEMMA Invariance == Spec => []IInv
BY InitIInv, NextIInv, PTL DEF Spec

(* A reader of the whole row makes an error of one that is gone, and only   *)
(* such a reader stores a base.                                            *)
NoBaseOfAGone ==
  /\ hash.base # Gone
  /\ \A r \in Readers : reader[r].pc \in {"refill", "put"} /\ ~reader[r].narrow
                         => reader[r].snapshot # Gone

LEMMA InitNoBase == Init => NoBaseOfAGone
BY MaxWritesAssumption DEF Init, NoBaseOfAGone, NoHash, NoReader, Missing, Gone

LEMMA NextNoBase == IInv /\ NoBaseOfAGone /\ [Next]_vars => NoBaseOfAGone'
<1> SUFFICES ASSUME IInv, NoBaseOfAGone, [Next]_vars
             PROVE  NoBaseOfAGone'
  OBVIOUS
<1> USE DEF Gone
<1>1. NoHash.base # Gone
  BY MaxWritesAssumption DEF NoHash, Missing
<1>2. ASSUME UNCHANGED reader, hash' = hash \/ hash' = NoHash
      PROVE  NoBaseOfAGone'
  BY <1>1, <1>2 DEF NoBaseOfAGone
<1>3. ASSUME NEW p \in Processes, Mutate(p) \/ Retry(p) \/ Runner(p) \/ Crash(p)
      PROVE  NoBaseOfAGone'
  <2>1. UNCHANGED reader
    BY <1>3 DEF Mutate, CommitStaged, CommitDirect, Execute, Complete, InvalidateDirect, Persist,
         Retry, RetryClaim, RetryAttempt, RetryComplete, RetryExpires,
         Runner, RunnerLoads, RunnerExecutes, RunnerEnds, Crash
  <2>2. hash' = hash \/ hash' = NoHash
    BY <1>3 DEF Mutate, CommitStaged, CommitDirect, Execute, Complete, InvalidateDirect, Persist,
         Retry, RetryClaim, RetryAttempt, RetryComplete, RetryExpires,
         Runner, RunnerLoads, RunnerExecutes, RunnerEnds, Crash,
         ExecuteTask, Invalidate, Delete, redis
  <2> QED
    BY <1>2, <2>1, <2>2
<1>4. CASE Expire \/ UNCHANGED vars
  BY <1>2, <1>4 DEF Expire, vars, redis
<1>5. ASSUME NEW r \in Readers, NEW next, Step(r, next), UNCHANGED hash,
             next.pc \in {"refill", "put"} /\ ~next.narrow => next.snapshot # Gone
      PROVE  NoBaseOfAGone'
  <2>1. reader \in [Readers -> [pc : {"idle", "hash", "fence", "version", "load", "refill", "put"},
                                narrow : BOOLEAN, since : 0..Gone, snapshot : Values,
                                version : Nat]]
    BY DEF IInv, TypeInv, ReaderType
  <2>2. reader'[r] = next /\ \A q \in Readers : q # r => reader'[q] = reader[q]
    BY <1>5, <2>1 DEF Step
  <2> QED
    BY <1>5, <2>2 DEF NoBaseOfAGone
<1>6. ASSUME NEW r \in Readers, Read(r)
      PROVE  NoBaseOfAGone'
  <2>1. reader[r] \in [pc : {"idle", "hash", "fence", "version", "load", "refill", "put"},
                       narrow : BOOLEAN, since : 0..Gone, snapshot : Values, version : Nat]
    BY <1>6 DEF IInv, TypeInv, ReaderType
  <2>2. CASE Begin(r)
    <3>1. PICK narrow \in BOOLEAN :
            Step(r, [NoReader EXCEPT !.narrow = narrow, !.since = promised,
                                     !.pc = IF narrow THEN "version" ELSE "hash"])
      BY <2>2 DEF Begin
    <3> QED
      BY <1>5, <2>2, <3>1 DEF Begin, redis, NoReader
  <2>3. CASE ReadHash(r)
    BY <1>5, <2>1, <2>3 DEF ReadHash, redis
  <2>4. CASE Fence(r)
    BY <1>5, <2>1, <2>4 DEF Fence, redis, NoReader
  <2>5. CASE ReadVersion(r)
    <3>1. UNCHANGED hash
      BY <2>5 DEF ReadVersion
    <3>2. CASE Step(r, [reader[r] EXCEPT !.pc = "load", !.version = generation'])
      BY <1>5, <2>1, <3>1, <3>2
    <3>3. CASE Step(r, [reader[r] EXCEPT !.pc = "load", !.version = 0])
      BY <1>5, <2>1, <3>1, <3>3
    <3> QED
      BY <2>5, <3>2, <3>3 DEF ReadVersion
  <2>6. CASE Load(r)
    <3> DEFINE next == IF (row.gone /\ ~reader[r].narrow) \/ reader[r].version = 0 THEN NoReader
                       ELSE [reader[r] EXCEPT !.pc = "refill", !.since = 0, !.snapshot = Newest(row)]
    <3>1. ~row.gone => Newest(row) # Gone
      BY MaxWritesAssumption DEF IInv, TypeInv, DatabaseType, Newest
    <3>2. next.pc \in {"refill", "put"} /\ ~next.narrow => next.snapshot # Gone
      BY <2>1, <3>1 DEF NoReader
    <3>3. Step(r, next) /\ UNCHANGED hash
      BY <2>6 DEF Load, redis
    <3> HIDE DEF next
    <3> QED
      BY <1>5, <3>2, <3>3
  <2>7. CASE Refill(r)
    <3> DEFINE next == IF Pending THEN NoReader ELSE [reader[r] EXCEPT !.pc = "put"]
    <3>1. next.pc \in {"refill", "put"} /\ ~next.narrow => next.snapshot # Gone
      BY <2>1, <2>7 DEF Refill, NoReader, NoBaseOfAGone
    <3>2. Step(r, next) /\ UNCHANGED hash
      BY <2>7 DEF Refill, redis
    <3> HIDE DEF next
    <3> QED
      BY <1>5, <3>1, <3>2
  <2>8. CASE Put(r)
    <3>1. Step(r, NoReader) /\ reader[r].pc = "put"
      BY <2>8 DEF Put
    <3>2. hash'.base \in {hash.base, reader[r].snapshot}
          /\ (hash'.base = hash.base \/ ~reader[r].narrow)
      BY <2>8 DEF Put
    <3>3. hash'.base # Gone
      BY <3>1, <3>2 DEF NoBaseOfAGone
    <3>4. \A q \in Readers : reader'[q] = reader[q] \/ reader'[q] = NoReader
      BY <3>1 DEF Step, IInv, TypeInv, ReaderType
    <3> QED
      BY <3>3, <3>4 DEF NoBaseOfAGone, NoReader
  <2> QED
    BY <1>6, <2>2, <2>3, <2>4, <2>5, <2>6, <2>7, <2>8 DEF Read
<1> QED
  BY <1>3, <1>4, <1>6 DEF Next

LEMMA NoBase == Spec => []NoBaseOfAGone
BY Invariance, InitNoBase, NextNoBase, PTL DEF Spec

-----------------------------------------------------------------------------
(* The theorem. *)

(* Once the outbox is empty no reader is given, and none stores, a value    *)
(* older than the last mutation that was staged or executed, whatever was   *)
(* committed, executed, completed, rescheduled, retried or lost meanwhile   *)
(* (cacheInvalidationTaskPending, redisHSetIfVersion): every stale value    *)
(* that is cached, or can still be stored, waits for a task which nobody    *)
(* has executed, and an execution leaves none.  What a narrow reader stores *)
(* for a row that is gone was read after the deletion (user.go, the Find of *)
(* GetUserQuota) and brings no base with it.                               *)
THEOREM EmptyOutboxMeansFresh == Spec => []TrustedIsTrue
<1>1. IInv /\ NoBaseOfAGone => TrustedIsTrue
  <2> SUFFICES ASSUME IInv, NoBaseOfAGone PROVE TrustedIsTrue
    OBVIOUS
  <2>1. TypeOK
    <3>1. row \in [value : 0..MaxWrites, gone : BOOLEAN] /\ promised \in 0..Gone
      BY DEF IInv, TypeInv, DatabaseType, PromiseKept
    <3>2. hash \in [{"base", "quota"} -> Missing..Gone] /\ generation <= sequence
      BY DEF IInv, TypeInv, RedisType, Values
    <3>3. \A d \in BOOLEAN : outbox[d].id <= lastId /\ (outbox[d].id = 0 <=> outbox[d].revision = 0)
      BY DEF IInv, HeldWasStaged
    <3> QED
      BY <3>1, <3>2, <3>3 DEF TypeOK
  <2>2. ASSUME ~Pending, NEW f \in {"base", "quota"}, hash[f] # Missing
        PROVE  hash[f] >= promised
    <3>1. ~Stale
      BY <2>2 DEF IInv, StaleIsFenced, Pending
    <3>2. hash[f] \in Int /\ promised \in Int
      BY MaxWritesAssumption DEF IInv, TypeInv, RedisType, Values, Missing, PromiseKept, Gone
    <3> QED
      BY <2>2, <3>1, <3>2 DEF Stale
  <2>3. ASSUME ~Pending, promised = Gone, hash.base # Missing
        PROVE  FALSE
    <3>1. hash.base >= Gone
      BY <2>2, <2>3
    <3>2. hash.base \in Missing..Gone
      BY DEF IInv, TypeInv, RedisType, Values
    <3> QED
      BY <3>1, <3>2, MaxWritesAssumption DEF NoBaseOfAGone, Gone, Missing
  <2> QED
    BY <2>1, <2>2, <2>3 DEF TrustedIsTrue
<1> QED
  BY <1>1, Invariance, NoBase, PTL

=============================================================================

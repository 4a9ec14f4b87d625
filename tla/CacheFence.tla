------------------------------ MODULE CacheFence ------------------------------
(* One cached entity (a user, or a token) between the database and Redis:   *)
(* model/cache_invalidation_task.go, model/user_cache.go, the readers of    *)
(* model/user.go and the scripts of common/redis.go.  A mutation stages an  *)
(* invalidation in its own transaction (the outbox), dispatches it after    *)
(* the commit, and the runner of every process repeats what was not done.   *)
(* Some mutations (invalidateSubscriptionUserCache) stage nothing and fall  *)
(* back on a retry that lives in the memory of the process.  Readers trust  *)
(* the cached hash, and refill it, only while the outbox holds no task, and *)
(* refill it only at the generation they read before the row.               *)
(* Redis keeps its data; other entities are left out.                       *)
EXTENDS Integers, Sequences

CONSTANTS Processes, Readers,
          MaxWrites,  \* bound: commits
          MaxFaults   \* bound: failed calls and crashes

ASSUME MaxWritesAssumption == MaxWrites \in Nat \ {0}

VARIABLES
  row,       \* the row: the number of its last mutation, and whether it is gone
  writes,    \* the commits so far
  outbox,    \* the cache_invalidation_tasks of the entity, by delete_entry
  lastId,    \* the last id given to a task
  hash,      \* the cached hash, by field
  generation, sequence,  \* the version key of the entity, the shared sequence
  writer,    \* what the request of each process mutates
  retry,     \* its userCacheRetries entry
  runner,    \* its cache invalidation runner
  reader,    \* the readers
  promised,  \* the last mutation that a reader starting now may not miss
  faults

database == <<row, writes, outbox, lastId>>
redis == <<hash, generation, sequence>>
vars == <<database, redis, writer, retry, runner, reader, promised, faults>>

Missing == -1
Gone == MaxWrites + 1
NoTask == [id |-> 0, revision |-> 0]
NoHash == [base |-> Missing, quota |-> Missing]
NoRetry == [on |-> FALSE, revision |-> 0, attempt |-> 0, executed |-> FALSE, value |-> 0]
NoWriter == [pc |-> "idle", delete |-> FALSE, task |-> NoTask, value |-> 0]
NoRunner == [pc |-> "idle", batch |-> <<>>]
NoReader == [pc |-> "idle", narrow |-> FALSE, since |-> 0, snapshot |-> Missing, version |-> 0]

Init ==
  /\ row = [value |-> 0, gone |-> FALSE] /\ writes = 0
  /\ outbox = [d \in BOOLEAN |-> NoTask] /\ lastId = 0
  /\ hash = NoHash /\ generation = 0 /\ sequence = 0
  /\ writer = [p \in Processes |-> NoWriter] /\ retry = [p \in Processes |-> NoRetry]
  /\ runner = [p \in Processes |-> NoRunner] /\ reader = [r \in Readers |-> NoReader]
  /\ promised = 0 /\ faults = 0

Fault == faults < MaxFaults /\ faults' = faults + 1
AtLeast(a, b) == IF a >= b THEN a ELSE b

-----------------------------------------------------------------------------
(* The outbox. *)

Pending == \E d \in BOOLEAN : outbox[d] # NoTask

(* upsertCacheInvalidationTask: a task that waits is staged once more by    *)
(* another revision.                                                        *)
Upserted(d) == IF outbox[d] = NoTask THEN [id |-> lastId + 1, revision |-> 1]
               ELSE [outbox[d] EXCEPT !.revision = @ + 1]
Upsert(d) == /\ outbox' = [outbox EXCEPT ![d] = Upserted(d)]
             /\ lastId' = AtLeast(lastId, Upserted(d).id)

(* Regression: a task is deleted whatever was staged in the meantime.       *)
MatchesId(d, task) == outbox[d].id = task.id

(* WHERE id = ? AND revision = ?                                            *)
Matches(d, task) == outbox[d] = task
Completed(d, task) == IF Matches(d, task) THEN [outbox EXCEPT ![d] = NoTask] ELSE outbox
Rescheduled(d, task) == IF Matches(d, task) THEN [outbox EXCEPT ![d].revision = @ + 1] ELSE outbox

-----------------------------------------------------------------------------
(* Redis. *)

(* RedisInvalidateVersionedHash and RedisDeleteVersionedHash.               *)
Invalidate ==
  /\ sequence' = AtLeast(generation, sequence) + 1
  /\ generation' = sequence'
  /\ hash' = NoHash
Delete ==
  /\ sequence' = AtLeast(generation, sequence)
  /\ generation' = 0
  /\ hash' = NoHash
ExecuteTask(d) == IF d THEN Delete ELSE Invalidate

Expire ==
  /\ hash # NoHash /\ hash' = NoHash
  /\ UNCHANGED <<database, generation, sequence, writer, retry, runner, reader, promised, faults>>

-----------------------------------------------------------------------------
(* Mutations. *)

Written(gone) == IF row.gone THEN row ELSE [value |-> writes + 1, gone |-> gone]
Newest(written) == IF written.gone THEN Gone ELSE written.value

(* The mutation and its task commit together.  The tokens of a user are     *)
(* invalidated with it, deleted ones too (stageUserTokenCacheInvalidationsTx). *)
CommitStaged(p, d) ==
  /\ writer[p].pc = "idle" /\ writes < MaxWrites /\ (d => ~row.gone)
  /\ writes' = writes + 1
  /\ row' = Written(d)
  /\ Upsert(d)
  /\ writer' = [writer EXCEPT ![p] = [NoWriter EXCEPT !.pc = "execute", !.delete = d, !.task = Upserted(d)]]
  /\ promised' = Newest(row')
  /\ UNCHANGED <<redis, retry, runner, reader, faults>>

(* dispatchStagedCacheInvalidation: what fails stays pending.               *)
Execute(p) ==
  /\ writer[p].pc = "execute"
  /\ \/ /\ ExecuteTask(writer[p].delete)
        /\ writer' = [writer EXCEPT ![p].pc = "complete"]
        /\ UNCHANGED faults
     \/ writer' = [writer EXCEPT ![p] = NoWriter] /\ Fault /\ UNCHANGED redis
  /\ UNCHANGED <<database, retry, runner, reader, promised>>
Complete(p) ==
  /\ writer[p].pc = "complete"
  /\ \/ outbox' = Completed(writer[p].delete, writer[p].task) /\ UNCHANGED faults
     \/ UNCHANGED outbox /\ Fault
  /\ writer' = [writer EXCEPT ![p] = NoWriter]
  /\ UNCHANGED <<row, writes, lastId, redis, retry, runner, reader, promised>>

(* A mutation that stages nothing.                                          *)
CommitDirect(p) ==
  /\ writer[p].pc = "idle" /\ writes < MaxWrites /\ ~row.gone
  /\ writes' = writes + 1
  /\ row' = Written(FALSE)
  /\ writer' = [writer EXCEPT ![p] = [NoWriter EXCEPT !.pc = "direct", !.value = writes + 1]]
  /\ UNCHANGED <<outbox, lastId, redis, retry, runner, reader, promised, faults>>

(* enqueueUserCacheRetry: only the first failure is written to the outbox.  *)
Enqueued(p) == [retry[p] EXCEPT !.on = TRUE, !.revision = @ + 1, !.value = writer[p].value]
InvalidateDirect(p) ==
  /\ writer[p].pc = "direct"
  /\ \/ /\ Invalidate /\ promised' = AtLeast(promised, writer[p].value)
        /\ writer' = [writer EXCEPT ![p] = NoWriter]
        /\ UNCHANGED <<retry, faults>>
     \/ /\ Fault
        /\ retry' = [retry EXCEPT ![p] = Enqueued(p)]
        /\ writer' = [writer EXCEPT ![p] = IF retry[p].on THEN NoWriter ELSE [@ EXCEPT !.pc = "persist"]]
        /\ UNCHANGED <<redis, promised>>
  /\ UNCHANGED <<database, runner, reader>>
Persist(p) ==
  /\ writer[p].pc = "persist"
  /\ \/ Upsert(FALSE) /\ promised' = AtLeast(promised, writer[p].value) /\ UNCHANGED faults
     \/ Fault /\ UNCHANGED <<outbox, lastId, promised>>
  /\ writer' = [writer EXCEPT ![p] = NoWriter]
  /\ UNCHANGED <<row, writes, redis, retry, runner, reader>>

-----------------------------------------------------------------------------
(* runUserCacheRetryWorker: an attempt ends the entry only if nothing was   *)
(* enqueued since it was claimed.                                           *)
RetryClaim(p) ==
  /\ retry[p].on /\ retry[p].attempt = 0
  /\ retry' = [retry EXCEPT ![p].attempt = retry[p].revision]
  /\ UNCHANGED <<database, redis, writer, runner, reader, promised, faults>>
RetryAttempt(p) ==
  /\ retry[p].attempt # 0 /\ ~retry[p].executed
  /\ \/ /\ Invalidate /\ promised' = AtLeast(promised, retry[p].value)
        /\ retry' = [retry EXCEPT ![p].executed = TRUE]
        /\ UNCHANGED faults
     \/ Fault /\ retry' = [retry EXCEPT ![p].attempt = 0] /\ UNCHANGED <<redis, promised>>
  /\ UNCHANGED <<database, writer, runner, reader>>
RetryComplete(p) ==
  /\ retry[p].executed
  /\ retry' = [retry EXCEPT ![p] = IF @.revision = @.attempt THEN NoRetry
                                   ELSE [@ EXCEPT !.attempt = 0, !.executed = FALSE]]
  /\ UNCHANGED <<database, redis, writer, runner, reader, promised, faults>>

(* The deadline: what was cached before the mutation has run out by then.   *)
RetryExpires(p) ==
  /\ retry[p].on /\ retry[p].attempt = 0
  /\ \A f \in {"base", "quota"} : hash[f] \notin 0..(retry[p].value - 1)
  /\ retry' = [retry EXCEPT ![p] = NoRetry]
  /\ UNCHANGED <<database, redis, writer, runner, reader, promised, faults>>

-----------------------------------------------------------------------------
(* processCacheInvalidationTasks: the tasks are read at once and executed   *)
(* one after the other.                                                     *)
Waiting == {d \in BOOLEAN : outbox[d] # NoTask}
Copy(d) == [delete |-> d, task |-> outbox[d]]
InOrder(D) ==
  IF D = {} THEN <<>>
  ELSE LET first == CHOOSE d \in D : \A e \in D : outbox[d].id <= outbox[e].id
       IN IF D = {first} THEN <<Copy(first)>> ELSE <<Copy(first), Copy(~first)>>

(* Regression: a task that failed is not loaded again.                      *)
NeverTried == InOrder({d \in Waiting : outbox[d].revision = 1})

Loaded == InOrder(Waiting)

RunnerLoads(p) ==
  /\ runner[p].pc = "idle" /\ Loaded # <<>>
  /\ runner' = [runner EXCEPT ![p] = [pc |-> "execute", batch |-> Loaded]]
  /\ UNCHANGED <<database, redis, writer, retry, reader, promised, faults>>

First(p) == Head(runner[p].batch)
Following(p) == LET rest == Tail(runner[p].batch)
                IN IF rest = <<>> THEN NoRunner ELSE [pc |-> "execute", batch |-> rest]

RunnerExecutes(p) ==
  /\ runner[p].pc = "execute"
  /\ \/ /\ ExecuteTask(First(p).delete)
        /\ runner' = [runner EXCEPT ![p].pc = "complete"]
        /\ UNCHANGED faults
     \/ Fault /\ runner' = [runner EXCEPT ![p].pc = "reschedule"] /\ UNCHANGED redis
  /\ UNCHANGED <<database, writer, retry, reader, promised>>
RunnerEnds(p) ==
  /\ \/ /\ runner[p].pc = "complete"
        /\ outbox' = Completed(First(p).delete, First(p).task)
        /\ UNCHANGED faults
     \/ /\ runner[p].pc = "reschedule"
        /\ outbox' = Rescheduled(First(p).delete, First(p).task)
        /\ UNCHANGED faults
     \/ /\ runner[p].pc \in {"complete", "reschedule"} /\ Fault
        /\ UNCHANGED outbox
  /\ runner' = [runner EXCEPT ![p] = Following(p)]
  /\ UNCHANGED <<row, writes, lastId, redis, writer, retry, reader, promised>>

Runner(p) == RunnerLoads(p) \/ RunnerExecutes(p) \/ RunnerEnds(p)

(* What a process has in memory is gone.                                    *)
Crash(p) ==
  /\ <<writer[p], retry[p], runner[p]>> # <<NoWriter, NoRetry, NoRunner>> /\ Fault
  /\ writer' = [writer EXCEPT ![p] = NoWriter] /\ retry' = [retry EXCEPT ![p] = NoRetry]
  /\ runner' = [runner EXCEPT ![p] = NoRunner]
  /\ UNCHANGED <<database, redis, reader, promised>>

-----------------------------------------------------------------------------
(* Readers: GetUserCache for all the fields, or GetUserQuota and its like,  *)
(* asked for the row, for one.                                              *)
Step(r, next) == reader' = [reader EXCEPT ![r] = next]

Begin(r) ==
  /\ reader[r].pc = "idle"
  /\ \E narrow \in BOOLEAN :
       Step(r, [NoReader EXCEPT !.narrow = narrow, !.since = promised,
                                !.pc = IF narrow THEN "version" ELSE "hash"])
  /\ UNCHANGED <<database, redis, writer, retry, runner, promised, faults>>

(* A hash without its role and status is no hit (cacheGetUserBase).         *)
ReadHash(r) ==
  /\ reader[r].pc = "hash"
  /\ Step(r, IF hash.base = Missing THEN [reader[r] EXCEPT !.pc = "version"]
             ELSE [reader[r] EXCEPT !.pc = "fence",
                     !.snapshot = IF hash.base <= hash.quota THEN hash.base ELSE hash.quota])
  /\ UNCHANGED <<database, redis, writer, retry, runner, promised, faults>>
Fence(r) ==
  /\ reader[r].pc = "fence"
  /\ Step(r, IF Pending THEN [reader[r] EXCEPT !.pc = "version"]
             ELSE NoReader)
  /\ UNCHANGED <<database, redis, writer, retry, runner, promised, faults>>

(* RedisGetCacheVersion: a missing generation is taken from the sequence.   *)
ReadVersion(r) ==
  /\ reader[r].pc = "version"
  /\ \/ /\ IF generation # 0 THEN UNCHANGED <<generation, sequence>>
           ELSE sequence' = sequence + 1 /\ generation' = sequence'
        /\ Step(r, [reader[r] EXCEPT !.pc = "load", !.version = generation'])
        /\ UNCHANGED faults
     \/ /\ Fault /\ Step(r, [reader[r] EXCEPT !.pc = "load", !.version = 0])
        /\ UNCHANGED <<generation, sequence>>
  /\ UNCHANGED <<database, hash, writer, retry, runner, promised>>

(* The caller has its answer; a goroutine refills the cache.  Of a row that *)
(* is gone, GetUserById makes an error, and the Find of GetUserQuota,       *)
(* GetUserGroup and GetUserSetting a zero, which is cached as well: here as *)
(* Gone, since it was read after the deletion.                              *)
Load(r) ==
  /\ reader[r].pc = "load"
  /\ Step(r, IF (row.gone /\ ~reader[r].narrow) \/ reader[r].version = 0 THEN NoReader
             ELSE [reader[r] EXCEPT !.pc = "refill", !.since = 0, !.snapshot = Newest(row)])
  /\ UNCHANGED <<database, redis, writer, retry, runner, promised, faults>>
Refill(r) ==
  /\ reader[r].pc = "refill"
  /\ Step(r, IF Pending THEN NoReader ELSE [reader[r] EXCEPT !.pc = "put"])
  /\ UNCHANGED <<database, redis, writer, retry, runner, promised, faults>>

(* redisHSetIfVersion: a missing generation equals none.                    *)
Put(r) ==
  /\ reader[r].pc = "put"
  /\ hash' = IF generation # reader[r].version THEN hash
             ELSE [base |-> IF reader[r].narrow THEN hash.base ELSE reader[r].snapshot,
                   quota |-> reader[r].snapshot]
  /\ Step(r, NoReader)
  /\ UNCHANGED <<database, generation, sequence, writer, retry, runner, promised, faults>>

-----------------------------------------------------------------------------
Mutate(p) == \/ \E d \in BOOLEAN : CommitStaged(p, d)
             \/ CommitDirect(p)
             \/ Execute(p) \/ Complete(p) \/ InvalidateDirect(p) \/ Persist(p)
Retry(p) == RetryClaim(p) \/ RetryAttempt(p) \/ RetryComplete(p) \/ RetryExpires(p)
Read(r) == \/ Begin(r) \/ ReadHash(r) \/ Fence(r)
           \/ ReadVersion(r) \/ Load(r) \/ Refill(r) \/ Put(r)

Next ==
  \/ \E p \in Processes : Mutate(p) \/ Retry(p) \/ Runner(p) \/ Crash(p)
  \/ \E r \in Readers : Read(r)
  \/ Expire

Spec == Init /\ [][Next]_vars

(* The runner ticks every second (StartCacheInvalidationTaskRunner).        *)
FairSpec == Spec /\ \A p \in Processes : WF_vars(Runner(p))

-----------------------------------------------------------------------------
TypeOK ==
  /\ row \in [value: 0..MaxWrites, gone: BOOLEAN]
  /\ hash \in [{"base", "quota"} -> Missing..Gone]
  /\ generation <= sequence /\ promised \in 0..Gone
  /\ \A d \in BOOLEAN : outbox[d].id <= lastId /\ (outbox[d].id = 0 <=> outbox[d].revision = 0)

(* While the outbox is empty the cache may be trusted: no field of the hash *)
(* is older than the last mutation that was staged, or whose invalidation   *)
(* was executed.  Of a deleted row this leaves at most the zero that a      *)
(* reader of one field found after the deletion, and never the base without *)
(* which a hash answers nobody (cacheGetUserBase).  Nothing older gets      *)
(* there by a snapshot stored late, a generation that comes back, or a task *)
(* that another one's completion took away.  Every variable keeps its type. *)
TrustedIsTrue ==
  /\ TypeOK
  /\ ~Pending => /\ \A f \in {"base", "quota"} : hash[f] # Missing => hash[f] >= promised
                 /\ promised = Gone => hash.base = Missing

(* Whatever failed or died, the outbox is emptied and the cache is trusted  *)
(* again (processCacheInvalidationTasks).                                   *)
FenceIsLifted == Pending ~> ~Pending

(* "Readers must not trust or refill that entity cache while its task is    *)
(* still pending" (cacheInvalidationTaskPending): nobody is answered from   *)
(* the cache with less than what was committed and staged when he asked.    *)
FreshReads ==
  [][\A r \in Readers : reader[r].pc = "fence" /\ reader'[r].pc = "idle"
                         => reader[r].snapshot >= reader[r].since]_vars
=============================================================================

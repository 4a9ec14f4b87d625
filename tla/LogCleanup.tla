------------------------------ MODULE LogCleanup ------------------------------
(***************************************************************************)
(* The system task that deletes old logs: its row in the database, the     *)
(* lease a runner takes on it, and the goroutines that do the work.  A     *)
(* runner (one per process start) claims a task whose lease is unset or    *)
(* has run out and starts a goroutine for it; nothing stops a goroutine    *)
(* whose lease ran out, it finds out at its next write to the task's row,  *)
(* and the deletions themselves are not fenced.                            *)
(***************************************************************************)
EXTENDS Integers, FiniteSets, FiniteSetsExt

CONSTANTS
  Runners,       \* runner identities: one per start of a master process
  Workers,       \* goroutines that run logCleanupHandler
  Operators,     \* administrators who start cleanups
  MaxTasks,      \* bound: cleanup tasks ever created
  Rows,          \* the log rows, each by the second it was written in
  Receipts,      \* the billing log receipts, likewise
  Targets,       \* target timestamps an administrator may ask for
  BatchSize,     \* logCleanupBatchSize
  MaxFaults,     \* bound: statements that fail, and crashes
  MaxSlow        \* bound: leases that run out under a live goroutine

ASSUME CleanupAssumption ==
  /\ MaxTasks \in Nat \ {0} /\ BatchSize \in Nat \ {0}
  /\ MaxFaults \in Nat /\ MaxSlow \in Nat /\ Targets \subseteq Nat \ {0}
  /\ Rows \subseteq Nat /\ IsFiniteSet(Rows) /\ Receipts \subseteq Nat /\ Runners # {}

VARIABLES
  task,      \* the system_tasks rows, by id
  operator,  \* [pc, got]: a request to start a cleanup, and the task it was given
  up,        \* the runners whose process is alive
  pass,      \* [Runners -> the task a claim pass found, 0 for none]
  worker,    \* [Workers -> goroutine]
  rows,      \* the log rows that are left
  receipts,  \* the receipts that are left
  faults, slow,  \* history, bounded by MaxFaults and MaxSlow
  doubled    \* history: the tasks a runner reclaimed from its own live goroutine

vars == <<task, operator, up, pass, worker, rows, receipts, faults, slow, doubled>>

Tasks == 1..MaxTasks
Active == {"pending", "running"}
Terminal == {"succeeded", "failed"}
Count == 0..Cardinality(Rows)
Progress == [total: Count, processed: Count]
NoProgress == [total |-> 0, processed |-> 0]

(* status "absent" is the row not created yet; key is active_key; target is *)
(* the one of the payload, up to which this cleanup deletes.               *)
TaskRow == [status: {"absent"} \cup Active \cup Terminal, key: BOOLEAN,
            target: Targets \cup {0}, state: Progress,
            deleted: Count, lockedBy: Runners \cup {""}, lease: {"none", "held", "lapsed"}]
NoTask == [status |-> "absent", key |-> FALSE, target |-> 0, state |-> NoProgress, deleted |-> 0,
           lockedBy |-> "", lease |-> "none"]

(* stray counts the batches a goroutine deleted since it lost the task.    *)
Goroutine == [pc: {"idle", "count", "saveCount", "pluck", "delete", "saveBatch", "receipts",
                   "saveReceipts", "finish", "fail"},
              task: Tasks, runner: Runners \cup {""}, state: Progress, remaining: Count,
              ids: SUBSET Rows, progressed: BOOLEAN, more: BOOLEAN, stray: 0..2]
Idle == [pc |-> "idle", task |-> 1, runner |-> "", state |-> NoProgress, remaining |-> 0,
         ids |-> {}, progressed |-> FALSE, more |-> FALSE, stray |-> 0]

Init ==
  /\ task = [t \in Tasks |-> NoTask]
  /\ operator = [o \in Operators |-> [pc |-> "idle", got |-> 0]]
  /\ up = Runners
  /\ pass = [r \in Runners |-> 0]
  /\ worker = [w \in Workers |-> Idle]
  /\ rows = Rows
  /\ receipts = Receipts
  /\ faults = 0 /\ slow = 0
  /\ doubled = {}

-----------------------------------------------------------------------------
(* Starting a cleanup                                                       *)

(* GetActiveSystemTask: the latest one that holds the active key.           *)
ActiveTasks == {t \in Tasks : task[t].key /\ task[t].status \in Active}

cleaning == <<up, pass, worker, rows, receipts, faults, slow, doubled>>

(* StartLogCleanupTask joins the cleanup under way.                         *)
Join(o) ==
  /\ ActiveTasks # {}
  /\ operator' = [operator EXCEPT ![o] = [pc |-> "idle", got |-> Max(ActiveTasks)]]
  /\ UNCHANGED <<task, cleaning>>

Start(o) ==
  /\ operator[o].pc = "idle"
  /\ \/ Join(o)
     \/ /\ ActiveTasks = {}
        /\ operator' = [operator EXCEPT ![o].pc = "creating"]
        /\ UNCHANGED <<task, cleaning>>

(* Two rows cannot hold the active key: the insert of the second fails.     *)
KeyFree == \A t \in Tasks : ~task[t].key

(* bound: past MaxTasks nobody creates one more.                            *)
Create(o) ==
  /\ operator[o].pc = "creating"
  /\ \/ /\ KeyFree
        /\ \E t \in Tasks, target \in Targets :
             /\ \A u \in Tasks : (task[u].status = "absent") <=> (u >= t)
             /\ task' = [task EXCEPT ![t] = [NoTask EXCEPT !.status = "pending", !.key = TRUE,
                                                         !.target = target]]
             /\ operator' = [operator EXCEPT ![o] = [pc |-> "idle", got |-> t]]
        /\ UNCHANGED cleaning
     \/ ~KeyFree /\ Join(o)
     \/ /\ ~KeyFree /\ ActiveTasks = {}  \* it ended meanwhile: the error is reported
        /\ operator' = [operator EXCEPT ![o] = [pc |-> "idle", got |-> 0]]
        /\ UNCHANGED <<task, cleaning>>

-----------------------------------------------------------------------------
(* The lease                                                                *)

Working(w) == worker[w].pc # "idle"
(* Regression: a lease that ran out is not taken over.                      *)
ClaimableUnleased == {t \in Tasks : task[t].status \in Active /\ task[t].lease = "none"}
Claimable == {t \in Tasks : task[t].status \in Active /\ task[t].lease # "held"}

(* FindRunnableSystemTasks, with limit 1.                                   *)
Find(r) ==
  /\ r \in up /\ pass[r] = 0
  /\ Claimable # {}
  /\ pass' = [pass EXCEPT ![r] = Min(Claimable)]
  /\ UNCHANGED <<task, operator, up, worker, rows, receipts, faults, slow, doubled>>

MayClaim(r, t) ==
  /\ task[t].status \in Active
  /\ task[t].lease # "held" \/ task[t].lockedBy = r

Claim(r) ==
  /\ r \in up /\ pass[r] # 0
  /\ LET t == pass[r] IN
     \/ /\ MayClaim(r, t)
        /\ task' = [task EXCEPT ![t].status = "running", ![t].lockedBy = r, ![t].lease = "held"]
        /\ \E w \in Workers :
             /\ ~Working(w)
             /\ worker' = [worker EXCEPT ![w] = [Idle EXCEPT !.pc = "count", !.task = t,
                                                   !.runner = r, !.state = task[t].state]]
        /\ doubled' = IF \E w \in Workers : Working(w) /\ worker[w].task = t
                                            /\ worker[w].runner = r
                      THEN doubled \cup {t} ELSE doubled
     \/ ~MayClaim(r, t) /\ UNCHANGED <<task, worker, doubled>>
  /\ pass' = [pass EXCEPT ![r] = 0]
  /\ UNCHANGED <<operator, up, rows, receipts, faults, slow>>

(* systemTaskLockTTL passes without a renewal.                              *)
Attended(t) == \E w \in Workers : Working(w) /\ worker[w].task = t
                                  /\ worker[w].runner = task[t].lockedBy
Lapse(t) ==
  /\ task[t].lease = "held"
  /\ \/ ~Attended(t) /\ UNCHANGED slow
     \/ Attended(t) /\ slow < MaxSlow /\ slow' = slow + 1
  /\ task' = [task EXCEPT ![t].lease = "lapsed"]
  /\ UNCHANGED <<operator, up, pass, worker, rows, receipts, faults, doubled>>

(* The process dies with its goroutines.  When it comes back it takes a     *)
(* fresh identity, so that it is another runner; one runner stays.          *)
Crash(r) ==
  /\ r \in up /\ up # {r} /\ faults < MaxFaults
  /\ faults' = faults + 1
  /\ up' = up \ {r}
  /\ pass' = [pass EXCEPT ![r] = 0]
  /\ worker' = [w \in Workers |-> IF worker[w].runner = r THEN Idle ELSE worker[w]]
  /\ UNCHANGED <<task, operator, rows, receipts, slow, doubled>>

-----------------------------------------------------------------------------
(* runLogCleanupTask                                                        *)

outside == <<operator, up, pass, slow, doubled>>

(* What is older than the target of the task a goroutine runs.              *)
Older(S, target) == {i \in S : i < target}
Target(w) == task[worker[w].task].target
OldRows(w) == Older(rows, Target(w))

(* UpdateSystemTaskState and FinishSystemTask compare the status and the    *)
(* holder; a goroutine that finds the row changed returns.                  *)
Holds(w) ==
  /\ task[worker[w].task].status = "running"
  /\ task[worker[w].task].lockedBy = worker[w].runner

(* Regressions: the lost lock is ignored, or not even looked for.           *)
SaveThoughLost(w, next) ==
  /\ task' = IF Holds(w)
             THEN [task EXCEPT ![worker[w].task].state = worker[w].state,
                               ![worker[w].task].lease = "held"]
             ELSE task
  /\ worker' = [worker EXCEPT ![w] = [@ EXCEPT !.pc = next]]
  /\ UNCHANGED <<outside, rows, receipts, faults>>
SaveUnfenced(w, next) ==
  /\ task' = [task EXCEPT ![worker[w].task].state = worker[w].state]
  /\ worker' = [worker EXCEPT ![w].pc = next]
  /\ UNCHANGED <<outside, rows, receipts, faults>>

(* A save that changes nothing: the same counts, in the second of the last  *)
(* write.  MySQL reports no affected row for it, which is taken for a lost  *)
(* lock; the task stays with its holder until the lease runs out.  There is *)
(* no percentage here, so that the model allows this of a first count of no *)
(* row too, which changes the stored 0 per cent to 100.                     *)
Unchanged(w) ==
  /\ Holds(w)
  /\ task[worker[w].task].lease = "held" /\ task[worker[w].task].state = worker[w].state
GivesUp(w) ==
  /\ Unchanged(w)
  /\ worker' = [worker EXCEPT ![w] = Idle]
  /\ UNCHANGED <<task, outside, rows, receipts, faults>>

Written(w, next) ==
  /\ task' = IF Holds(w)
             THEN [task EXCEPT ![worker[w].task].state = worker[w].state,
                               ![worker[w].task].lease = "held"]
             ELSE task
  /\ worker' = [worker EXCEPT ![w] = IF Holds(w) THEN [@ EXCEPT !.pc = next, !.stray = 0]
                                                 ELSE Idle]
  /\ UNCHANGED <<outside, rows, receipts, faults>>

Save(w, next) == Written(w, next) \/ GivesUp(w)

(* Regression: counting anew.                                               *)
SyncedAnew(state, n) == [total |-> n, processed |-> 0]

(* syncLogCleanupStateFromRemaining.                                        *)
Synced(state, n) ==
  IF state.total = 0 THEN [total |-> n, processed |-> 0]
  ELSE [state EXCEPT !.processed = Max({@, state.total - n})]

CountOldLog(w) ==
  /\ worker[w].pc = "count"
  /\ worker' = [worker EXCEPT ![w].pc = "saveCount", ![w].progressed = FALSE,
                              ![w].remaining = Cardinality(OldRows(w)),
                              ![w].state = Synced(@, Cardinality(OldRows(w)))]
  /\ UNCHANGED <<task, outside, rows, receipts, faults>>

SaveCount(w) ==
  /\ worker[w].pc = "saveCount"
  /\ Save(w, IF worker[w].remaining = 0 THEN "receipts" ELSE "pluck")

(* Regression: an empty batch is taken for the end of the log.              *)
EmptyBatchEnds(w) == [worker[w] EXCEPT !.pc = "receipts", !.ids = {}]

(* The batch came out empty: recount if an earlier one did not, else fail.  *)
EmptyBatch(w) ==
  [worker[w] EXCEPT !.pc = IF worker[w].progressed THEN "count" ELSE "fail",
                    !.ids = {}]

(* DeleteOldLogBatch selects the oldest rows, then deletes them; a batch of *)
(* receipts goes with it.                                                  *)
Batch(S, target) ==
  {i \in Older(S, target) : Cardinality(Older(S, i)) < BatchSize}
OldReceipts(w) == Batch(receipts, Target(w))

Pluck(w) ==
  /\ worker[w].pc = "pluck"
  /\ worker' = [worker EXCEPT ![w] = IF OldRows(w) = {} THEN EmptyBatch(w)
                                     ELSE [@ EXCEPT !.pc = "delete",
                                                    !.ids = Batch(rows, Target(w))]]
  /\ receipts' = IF OldRows(w) = {} THEN receipts \ OldReceipts(w) ELSE receipts
  /\ UNCHANGED <<task, outside, rows, faults>>

(* rowsAffected rows were deleted, which is n.                              *)
Counted(w, n) ==
  LET done == worker[w].state.processed + n
      left == worker[w].remaining - n
  IN [worker[w] EXCEPT !.pc = "saveBatch", !.ids = {}, !.progressed = TRUE,
                       !.state = [total |-> Max({@.total, done}), processed |-> done],
                       !.remaining = Max({left, 0}),
                       !.stray = IF Holds(w) THEN 0 ELSE Min({@ + 1, 2})]

Delete(w) ==
  /\ worker[w].pc = "delete"
  /\ LET n == Cardinality(worker[w].ids \cap rows) IN
     worker' = [worker EXCEPT ![w] = IF n = 0 THEN EmptyBatch(w) ELSE Counted(w, n)]
  /\ rows' = rows \ worker[w].ids
  /\ receipts' = receipts \ OldReceipts(w)
  /\ UNCHANGED <<task, outside, faults>>

SaveBatch(w) ==
  /\ worker[w].pc = "saveBatch"
  /\ Save(w, IF worker[w].remaining > 0 THEN "pluck" ELSE "count")

DeleteReceipts(w) ==
  /\ worker[w].pc = "receipts"
  /\ receipts' = receipts \ OldReceipts(w)
  /\ worker' = [worker EXCEPT ![w].pc = "saveReceipts",
                              ![w].more = Cardinality(OldReceipts(w)) >= BatchSize]
  /\ UNCHANGED <<task, outside, rows, faults>>

SaveReceipts(w) ==
  /\ worker[w].pc = "saveReceipts"
  /\ Save(w, IF worker[w].more THEN "receipts" ELSE "finish")

(* FinishSystemTask releases the active key and the lease.                  *)
Ended(row, status, deleted) ==
  [row EXCEPT !.status = status, !.deleted = deleted, !.key = FALSE,
              !.lockedBy = "", !.lease = "none"]

Finish(w) ==
  /\ worker[w].pc \in {"finish", "fail"}
  /\ task' = IF ~Holds(w) THEN task
             ELSE [task EXCEPT ![worker[w].task] =
                     IF worker[w].pc = "finish"
                     THEN Ended(@, "succeeded", worker[w].state.processed)
                     ELSE Ended(@, "failed", 0)]
  /\ worker' = [worker EXCEPT ![w] = Idle]
  /\ UNCHANGED <<outside, rows, receipts, faults>>

(* A statement on the logs fails and fails the task; one on the task's row  *)
(* fails and the goroutine leaves the task to the lease.                    *)
DatabaseError(w) ==
  /\ Working(w) /\ faults < MaxFaults
  /\ faults' = faults + 1
  /\ worker' = [worker EXCEPT ![w] =
                  IF @.pc \in {"count", "pluck", "delete", "receipts"}
                  THEN [@ EXCEPT !.pc = "fail"] ELSE Idle]
  /\ UNCHANGED <<task, outside, rows, receipts>>

Work(w) ==
  \/ CountOldLog(w) \/ SaveCount(w) \/ Pluck(w) \/ Delete(w) \/ SaveBatch(w)
  \/ DeleteReceipts(w) \/ SaveReceipts(w) \/ Finish(w)

Next ==
  \/ \E o \in Operators : Start(o) \/ Create(o)
  \/ \E r \in Runners : Find(r) \/ Claim(r) \/ Crash(r)
  \/ \E t \in Tasks : Lapse(t)
  \/ \E w \in Workers : Work(w) \/ DatabaseError(w)

Spec == Init /\ [][Next]_vars

(* The ticker wakes the runners that are up, goroutines run, administrators *)
(* get their answer, and the lease of a goroutine that is gone runs out.    *)
RunnerFairness ==
  /\ \A o \in Operators : WF_vars(Create(o))
  /\ \A r \in Runners : WF_vars(Find(r)) /\ WF_vars(Claim(r))
  /\ \A t \in Tasks : WF_vars(~Attended(t) /\ Lapse(t))
  /\ \A w \in Workers : WF_vars(Work(w))

-----------------------------------------------------------------------------
(* Properties                                                               *)

(* Every variable keeps the shape the database and the goroutines give it.  *)
TypeOK ==
  /\ task \in [Tasks -> TaskRow]
  /\ operator \in [Operators -> [pc: {"idle", "creating"}, got: Tasks \cup {0}]]
  /\ up \in SUBSET Runners /\ up # {}
  /\ pass \in [Runners -> Tasks \cup {0}]
  /\ worker \in [Workers -> Goroutine]
  /\ rows \in SUBSET Rows /\ receipts \in SUBSET Receipts
  /\ faults \in 0..MaxFaults /\ slow \in 0..MaxSlow /\ doubled \in SUBSET Tasks

(* What a cleanup may report: the rows older than its target that no        *)
(* earlier one reached and was done with.                                   *)
Reportable(t) ==
  {i \in Older(Rows, task[t].target) :
     \A u \in Tasks : u < t /\ task[u].status = "succeeded" => i >= task[u].target}

(* A cleanup that reports success left no log older than its own target,    *)
(* whoever else deleted, and its report (deleted_count) is for rows no      *)
(* earlier report was for, though cleanups of any dates follow each other   *)
(* and late goroutines of one still delete during the next.  Of two         *)
(* administrators who find none under way at the same moment one starts it  *)
(* (active_key), and an ended cleanup lets the next one in.  Every variable *)
(* keeps its type besides.                                                  *)
SuccessIsClean ==
  /\ TypeOK
  /\ \A t, u \in Tasks : task[t].status \in Active /\ task[u].status \in Active => t = u
  /\ \A t \in Tasks : task[t].key <=> task[t].status \in Active
  /\ \A t \in Tasks : task[t].status = "succeeded" => Older(rows, task[t].target) = {}
  /\ \A t \in Tasks : task[t].deleted <= Cardinality(Reportable(t))

(* The first cleanup's report counts every row it deleted, over crashes,    *)
(* failed statements and a change of runner in mid-batch: the saved total   *)
(* is what recounting is measured against.  Not when a runner reclaimed the *)
(* task from its own goroutine, which may overwrite that total.             *)
ReportIsWhole ==
  task[1].status = "succeeded" /\ 1 \notin doubled =>
    task[1].deleted = Cardinality(Older(Rows, task[1].target))

(* A goroutine that lost its task to another runner, or to the task's end,  *)
(* deletes at most the batch it had begun (ErrSystemTaskLockLost).          *)
LoserStops == \A w \in Workers : worker[w].stray <= 1

(* What a cleanup achieved is kept: late goroutines do not touch the row of *)
(* one that ended, and the processed count an administrator watches never   *)
(* falls, whichever runner goes on with the task; as in ReportIsWhole one   *)
(* runner's two goroutines may undo each other.                             *)
ProgressIsKept ==
  [][\A t \in Tasks : /\ task[t].status \in Terminal => task'[t] = task[t]
                      /\ t \notin doubled' =>
                           task'[t].state.processed >= task[t].state.processed]_vars

(* A database that reports the rows an update matched, and not only those   *)
(* it changed (PostgreSQL, SQLite), never has a goroutine give up a task it *)
(* holds.  It is enough if one from some time on does not.                  *)
SavesAreSeen == <>[][\A w \in Workers : ~GivesUp(w)]_vars

(* Every cleanup that was started ends, in spite of crashes, failed         *)
(* statements and lost leases.  It fails where UpdateSystemTaskState reports *)
(* a save that changed nothing as a lost lock: each goroutine gives up.     *)
Ends == \A t \in Tasks : task[t].status = "pending" ~> task[t].status \in Terminal

(* The same wherever the database reports the rows an update matched: the   *)
(* runner's passes find the task again after each lease that ran out.       *)
CleanupEnds == SavesAreSeen => Ends
=============================================================================

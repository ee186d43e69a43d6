------------------------- MODULE TaskQueueInvariant -------------------------
(***************************************************************************)
(* The inductive invariant of TaskQueue, and the steps of clients and of   *)
(* workers that hold a lease: they preserve it.  TaskQueueProofs adds the  *)
(* claims and the passing of time and draws the conclusions.               *)
(***************************************************************************)
EXTENDS TaskQueue, TLAPS

-----------------------------------------------------------------------------
(* The inductive invariant *)

Working(w) == worker[w].pc \in {"executing", "lost", "returned"}

\* A polling or stopped worker remembers nothing of the task it had.
IdleInv ==
    \A w \in Worker : ~Working(w) => worker[w] = Unoccupied(worker[w].pc)

\* A lease belongs to a running task and its epoch counts some of the claims;
\* a task that waits for a retry has a failed latest attempt.
LeaseOK(t) ==
    /\ task[t].lease.epoch <= task[t].attemptCount
    /\ task[t].status = "absent" => task[t].attemptCount = 0
    /\ task[t].status = "running" => task[t].attemptCount \in Attempts
    /\ task[t].status # "running" => task[t].lease = NoLease
    /\ task[t].status = "queued" =>
         \A n \in Attempts : n = task[t].attemptCount => attempt[t][n] = "failed"

LeaseInv == \A t \in Task : LeaseOK(t)

\* What a worker knows of the attempt it executes: the attempt is its own, it
\* is not recorded completed or failed behind its back, and the worker's copy
\* of the lease is the task's lease or one that has expired.
OwnsAttempt(w) ==
    LET t == worker[w].task
        n == worker[w].lease.token
    IN  /\ t \in Task
        /\ worker[w].lease.worker = w
        /\ n \in 1..task[t].attemptCount
        /\ attempt[t][n] \in {"running", "abandoned", "canceled"}
        /\ worker[w].pc = "returned" =>
             /\ worker[w].result \in {"ok", "retry", "fail"}
             /\ verdict[t][n] = worker[w].result
        /\ task[t].status = "queued" => worker[w].lease.expires <= 0
        /\ task[t].status = "running" =>
             \/ worker[w].lease = task[t].lease
             \/ n # task[t].lease.token /\ worker[w].lease.expires <= 0

WorkerInv ==
    \A w \in Worker : Working(w) => OwnsAttempt(w)

\* No two workers execute the same attempt, and of two that execute attempts
\* of one task one knows that its lease has expired.
DistinctInv ==
    \A v, w \in Worker :
        Working(v) /\ Working(w) /\ v # w /\ worker[v].task = worker[w].task =>
            /\ worker[v].lease.token # worker[w].lease.token
            /\ worker[v].lease.expires <= 0 \/ worker[w].lease.expires <= 0

IInv ==
    /\ TypeOK
    /\ IdleInv
    /\ LeaseInv
    /\ AttemptLedger
    /\ WorkerInv
    /\ DistinctInv
    /\ OutcomeIntegrity
    /\ CompletedRunIsTerminal
    /\ AttemptBudget

-----------------------------------------------------------------------------
(* Consequences of the invariant used in many steps *)

LEMMA CountType ==
    ASSUME IInv, NEW t \in Task
    PROVE  /\ task[t].attemptCount \in 0..AttemptBound
           /\ task[t].attemptCount \in Nat
           /\ task[t].attemptCount > 0 => task[t].attemptCount \in Attempts
  BY TaskQueueAssumption DEF IInv, TypeOK, TaskRecord, Attempts

LEMMA OwnedToken ==
    ASSUME IInv, NEW w \in Worker, Working(w)
    PROVE  /\ worker[w].task \in Task
           /\ worker[w].lease.token \in Attempts
           /\ OwnsAttempt(w)
<1>1. OwnsAttempt(w)
  BY DEF IInv, WorkerInv
<1>2. task[worker[w].task].attemptCount \in 0..AttemptBound
  BY <1>1, CountType DEF OwnsAttempt
<1> QED
  BY <1>1, <1>2, TaskQueueAssumption DEF OwnsAttempt, Attempts

\* A worker keeps its attempt through a step that leaves the worker, its task
\* and its attempt alone.
LEMMA KeepsUntouched ==
    ASSUME NEW w \in Worker, OwnsAttempt(w), NEW t, NEW n,
           t = worker[w].task, n = worker[w].lease.token,
           worker'[w] = worker[w], task'[t] = task[t],
           attempt'[t][n] = attempt[t][n], verdict'[t][n] = verdict[t][n]
    PROVE  OwnsAttempt(w)'
  BY DEF OwnsAttempt

\* A worker whose lease has expired keeps its attempt when others settle or
\* claim the task.
LEMMA KeepsExpired ==
    ASSUME NEW w \in Worker, OwnsAttempt(w), NEW t, NEW n,
           t = worker[w].task, n = worker[w].lease.token,
           worker'[w] = worker[w], worker[w].lease.expires <= 0,
           n \in 1..task'[t].attemptCount,
           attempt'[t][n] \in {"running", "abandoned", "canceled"},
           verdict'[t][n] = verdict[t][n],
           task'[t].status = "running" => n # task'[t].lease.token
    PROVE  OwnsAttempt(w)'
  BY DEF OwnsAttempt

\* A worker keeps its attempt when the lease of its task and its own copy are
\* renewed together.
LEMMA KeepsRenewed ==
    ASSUME NEW w \in Worker, OwnsAttempt(w), NEW t, NEW n,
           t = worker[w].task, n = worker[w].lease.token,
           worker'[w].task = t, worker'[w].pc # "returned",
           worker'[w].lease.worker = worker[w].lease.worker,
           worker'[w].lease.token = n,
           task'[t].status = "running", worker'[w].lease = task'[t].lease,
           task'[t].attemptCount = task[t].attemptCount,
           attempt'[t][n] = attempt[t][n]
    PROVE  OwnsAttempt(w)'
  BY DEF OwnsAttempt

\* A worker whose heartbeat failed keeps its attempt.
LEMMA KeepsLost ==
    ASSUME NEW w \in Worker, OwnsAttempt(w),
           worker'[w].task = worker[w].task, worker'[w].lease = worker[w].lease,
           worker'[w].pc # "returned", UNCHANGED <<task, attempt>>
    PROVE  OwnsAttempt(w)'
  BY DEF OwnsAttempt

\* What the handler of a worker's attempt returned.
LEMMA OwnedVerdict ==
    ASSUME NEW w \in Worker, OwnsAttempt(w), NEW t, NEW n,
           t = worker[w].task, n = worker[w].lease.token,
           worker[w].pc = "returned"
    PROVE  verdict[t][n] = worker[w].result
  BY DEF OwnsAttempt

\* A lease is sound as long as its task is left alone.
LEMMA LeaseUntouched ==
    ASSUME NEW t, LeaseOK(t), task'[t] = task[t],
           \A m \in Attempts : attempt'[t][m] = attempt[t][m]
    PROVE  LeaseOK(t)'
  BY DEF LeaseOK

\* The record of the attempt that a worker executes.
LEMMA OwnedRecord ==
    ASSUME NEW w \in Worker, OwnsAttempt(w), NEW t, NEW n,
           t = worker[w].task, n = worker[w].lease.token
    PROVE  /\ n \in 1..task[t].attemptCount
           /\ attempt[t][n] \in {"running", "abandoned", "canceled"}
  BY DEF OwnsAttempt

\* The records of the attempts before the latest one, and of those to come.
LEMMA LedgerElsewhere ==
    ASSUME NEW t, Ledger(t), NEW c, c = task[t].attemptCount,
           NEW m \in Attempts, m # c
    PROVE  /\ attempt[t][m] = "none" <=> m > c
           /\ attempt[t][m] # "running"
           /\ attempt[t][m] # "completed"
           /\ m < c => attempt[t][m] \in {"failed", "abandoned"}
  BY DEF Ledger

LEMMA LedgerUntouched ==
    ASSUME NEW t, Ledger(t), task'[t] = task[t],
           \A m \in Attempts : attempt'[t][m] = attempt[t][m]
    PROVE  Ledger(t)'
  BY DEF Ledger

LEMMA LedgerRenewed ==
    ASSUME NEW t, Ledger(t), task'[t].status = task[t].status,
           task'[t].attemptCount = task[t].attemptCount,
           task'[t].lease.token = task[t].lease.token,
           \A m \in Attempts : attempt'[t][m] = attempt[t][m]
    PROVE  Ledger(t)'
  BY DEF Ledger

\* The ledger of a task that is no longer running.
LEMMA LedgerSettled ==
    ASSUME NEW t, NEW c \in Nat, c = task'[t].attemptCount,
           task'[t].status # "running", task'[t].lease.token = 0,
           \A m \in Attempts : m \in Nat,
           \A m \in Attempts : m # c =>
             /\ attempt'[t][m] = "none" <=> m > c
             /\ attempt'[t][m] # "running"
             /\ attempt'[t][m] # "completed"
             /\ m < c => attempt'[t][m] \in {"failed", "abandoned"},
           attempt'[t][c] \notin {"none", "running"},
           attempt'[t][c] = "completed" <=> task'[t].status = "completed"
    PROVE  Ledger(t)'
  BY DEF Ledger

-----------------------------------------------------------------------------
(* Steps that change workers only *)

\* A worker forgets its task: it polls again or its process is gone.
LEMMA WorkerForgets ==
    ASSUME IInv, NEW w \in Worker, NEW p \in {"idle", "down"},
           worker' = [worker EXCEPT ![w] = Unoccupied(p)],
           UNCHANGED <<task, attempt, seen, fenced, runDone, verdict>>
    PROVE  IInv'
<1>1. Unoccupied(p) \in WorkerRecord
  BY TaskQueueAssumption DEF Unoccupied, WorkerRecord, NoLease, Lease, Verdict
<1>2. TypeOK'
  BY <1>1 DEF IInv, TypeOK
<1>3. /\ worker'[w] = Unoccupied(p)
      /\ \A v \in Worker : v # w => worker'[v] = worker[v]
  BY DEF IInv, TypeOK
<1>4. Unoccupied(p).pc = p
  BY DEF Unoccupied
<1>5. IdleInv'
  BY <1>3, <1>4 DEF IInv, IdleInv, Working
<1>6. WorkerInv'
  BY <1>3, <1>4 DEF IInv, WorkerInv, OwnsAttempt, Working
<1>7. DistinctInv'
  BY <1>3, <1>4 DEF IInv, DistinctInv, Working
<1>8. LeaseInv' /\ AttemptLedger' /\ OutcomeIntegrity'
  BY DEF IInv, LeaseInv, LeaseOK, AttemptLedger, Ledger, OutcomeIntegrity
<1>9. CompletedRunIsTerminal' /\ AttemptBudget'
  BY DEF IInv, CompletedRunIsTerminal, AttemptBudget, AttemptsLeft
<1> QED
  BY <1>2, <1>5, <1>6, <1>7, <1>8, <1>9 DEF IInv

LEMMA HeartbeatErrorStep ==
    ASSUME IInv, NEW w \in Worker, HeartbeatError(w)
    PROVE  IInv'
<1>1. /\ worker'[w].pc = "lost"
      /\ worker'[w].task = worker[w].task
      /\ worker'[w].lease = worker[w].lease
      /\ worker'[w].result = worker[w].result
      /\ worker'[w] \in WorkerRecord
      /\ \A v \in Worker : v # w => worker'[v] = worker[v]
  BY Zenon DEF IInv, TypeOK, HeartbeatError, WorkerRecord
<1>2. Working(w)
  BY DEF HeartbeatError, Working
<1>3. TypeOK'
  BY <1>1 DEF IInv, TypeOK, HeartbeatError
<1>4. IdleInv'
  BY <1>1 DEF IInv, IdleInv, Working
<1>5. WorkerInv'
  <2> SUFFICES ASSUME NEW v \in Worker, Working(v)'
               PROVE  OwnsAttempt(v)'
    BY DEF WorkerInv
  <2>1. UNCHANGED <<task, attempt, verdict>>
    BY DEF HeartbeatError
  <2>2. CASE v = w
    <3>1. OwnsAttempt(w)
      BY <1>2, OwnedToken
    <3> QED
      BY <2>1, <2>2, <3>1, <1>1, KeepsLost
  <2>3. CASE v # w
    <3>1. Working(v) /\ worker'[v] = worker[v]
      BY <2>3, <1>1 DEF Working
    <3>2. OwnsAttempt(v)
      BY <3>1, OwnedToken
    <3> QED
      BY <2>1, <3>1, <3>2, KeepsUntouched
  <2> QED
    BY <2>2, <2>3
<1>6. DistinctInv'
  BY <1>1, <1>2 DEF IInv, DistinctInv, Working
<1>7. LeaseInv' /\ AttemptLedger' /\ OutcomeIntegrity'
  BY DEF IInv, LeaseInv, LeaseOK, AttemptLedger, Ledger, OutcomeIntegrity, HeartbeatError
<1>8. CompletedRunIsTerminal' /\ AttemptBudget'
  BY DEF IInv, CompletedRunIsTerminal, AttemptBudget, AttemptsLeft, HeartbeatError
<1> QED
  BY <1>3, <1>4, <1>5, <1>6, <1>7, <1>8 DEF IInv

\* The handler of attempt n returns.  The attempt is not recorded completed or
\* failed yet, and no other worker executes it: the verdict is new.
LEMMA HandlerReturnsStep ==
    ASSUME IInv, NEW w \in Worker, NEW result \in {"ok", "retry", "fail"},
           HandlerReturns(w, result)
    PROVE  IInv'
<1> DEFINE t == worker[w].task
           n == worker[w].lease.token
<1>1. /\ Working(w)
      /\ t \in Task
      /\ n \in Attempts
      /\ attempt[t][n] \in {"running", "abandoned", "canceled"}
  BY TaskQueueAssumption
     DEF IInv, TypeOK, WorkerInv, OwnsAttempt, Working, HandlerReturns, TaskRecord, Attempts
<1>2. /\ worker[w].pc = "lost" => worker'[w] = Unoccupied("idle")
      /\ worker[w].pc # "lost" =>
           /\ worker'[w].pc = "returned"
           /\ worker'[w].task = worker[w].task
           /\ worker'[w].lease = worker[w].lease
           /\ worker'[w].result = result
      /\ worker'[w] \in WorkerRecord
      /\ \A v \in Worker : v # w => worker'[v] = worker[v]
  <2>1. Unoccupied("idle") \in WorkerRecord
    BY TaskQueueAssumption DEF Unoccupied, WorkerRecord, NoLease, Lease, Verdict
  <2> QED
    BY <2>1, Zenon DEF IInv, TypeOK, HandlerReturns, WorkerRecord, Verdict
<1>3. /\ verdict' \in [Task -> [Attempts -> Verdict]]
      /\ verdict'[t][n] = result
      /\ \A u \in Task : \A m \in Attempts :
            u # t \/ m # n => verdict'[u][m] = verdict[u][m]
  BY <1>1 DEF IInv, TypeOK, HandlerReturns, Verdict
<1>4. TypeOK'
  BY <1>2, <1>3 DEF IInv, TypeOK, HandlerReturns
<1>5. IdleInv'
  BY <1>2 DEF IInv, IdleInv, Working, Unoccupied
<1>6. WorkerInv'
  <2> SUFFICES ASSUME NEW v \in Worker, Working(v)'
               PROVE  OwnsAttempt(v)'
    BY DEF WorkerInv
  <2>1. UNCHANGED <<task, attempt>>
    BY DEF HandlerReturns
  <2>2. CASE v = w
    <3>1. worker[w].pc # "lost"
      BY <2>2, <1>2 DEF Working, Unoccupied
    <3>2. OwnsAttempt(w)
      BY <1>1, OwnedToken
    <3> QED
      BY <2>1, <2>2, <3>1, <3>2, <1>2, <1>3, SMTT(30) DEF OwnsAttempt
  <2>3. CASE v # w
    <3>1. worker'[v] = worker[v] /\ Working(v)
      BY <2>3, <1>2 DEF Working
    <3>2. /\ OwnsAttempt(v)
          /\ worker[v].task \in Task
          /\ worker[v].lease.token \in Attempts
      BY <3>1, OwnedToken
    <3>3. worker[v].task # t \/ worker[v].lease.token # n
      BY <2>3, <3>1, <1>1 DEF IInv, DistinctInv
    <3>4. verdict'[worker[v].task][worker[v].lease.token]
            = verdict[worker[v].task][worker[v].lease.token]
      BY <3>2, <3>3, <1>3
    <3> QED
      BY <2>1, <3>1, <3>2, <3>4, KeepsUntouched
  <2> QED
    BY <2>2, <2>3
<1>7. DistinctInv'
  BY <1>1, <1>2 DEF IInv, DistinctInv, Working, Unoccupied
<1>8. OutcomeIntegrity'
  BY <1>1, <1>3 DEF IInv, OutcomeIntegrity, HandlerReturns
<1>9. LeaseInv' /\ AttemptLedger'
  BY DEF IInv, LeaseInv, LeaseOK, AttemptLedger, Ledger, HandlerReturns
<1>10. CompletedRunIsTerminal' /\ AttemptBudget'
  BY DEF IInv, CompletedRunIsTerminal, AttemptBudget, AttemptsLeft, HandlerReturns
<1> QED
  BY <1>4, <1>5, <1>6, <1>7, <1>8, <1>9, <1>10 DEF IInv

-----------------------------------------------------------------------------
(* Steps of the clients *)

LEMMA EnqueueStep ==
    ASSUME IInv, NEW t \in Task, Enqueue(t)
    PROVE  IInv'
<1>1. /\ task'[t].status = "queued"
      /\ task[t].status = "absent"
      /\ task'[t].attemptCount = task[t].attemptCount
      /\ task'[t].lease = task[t].lease
      /\ task' \in [Task -> TaskRecord]
      /\ \A u \in Task : u # t => task'[u] = task[u]
  <2>1. task[t].attemptCount = 0 /\ task[t].lease = NoLease
    BY DEF IInv, LeaseInv, LeaseOK, Enqueue
  <2>2. [status |-> "queued", attemptCount |-> 0, wait |-> 0, lease |-> NoLease]
          \in TaskRecord
    BY TaskQueueAssumption DEF TaskRecord, TaskStatus, NoLease, Lease
  <2> QED
    BY <2>1, <2>2 DEF IInv, TypeOK, Enqueue, Update
<1>2. task[t].attemptCount = 0
  BY DEF IInv, LeaseInv, LeaseOK, Enqueue
<1>3. TypeOK'
  BY <1>1 DEF IInv, TypeOK, Enqueue, Update
<1>4. IdleInv'
  BY DEF IInv, IdleInv, Working, Enqueue
<1>5. LeaseInv'
  BY <1>1, <1>2 DEF IInv, LeaseInv, LeaseOK, Enqueue, Attempts
<1>6. AttemptLedger'
  BY <1>1, <1>2 DEF IInv, AttemptLedger, Ledger, Enqueue, Attempts
<1>7. WorkerInv'
  <2> SUFFICES ASSUME NEW v \in Worker, Working(v)
               PROVE  OwnsAttempt(v)'
    BY DEF WorkerInv, Working, Enqueue
  <2>1. UNCHANGED <<worker, attempt, verdict>>
    BY DEF Enqueue
  <2>2. OwnsAttempt(v) /\ worker[v].task \in Task
    BY OwnedToken
  <2>3. worker[v].task # t
    BY <2>2, <1>2, OwnedRecord
  <2>4. task'[worker[v].task] = task[worker[v].task]
    BY <2>2, <2>3, <1>1
  <2> QED
    BY <2>1, <2>2, <2>4, KeepsUntouched
<1>8. DistinctInv' /\ OutcomeIntegrity'
  BY DEF IInv, DistinctInv, OutcomeIntegrity, Working, Enqueue
<1>9. CompletedRunIsTerminal' /\ AttemptBudget'
  BY TaskQueueAssumption, <1>1
     DEF IInv, CompletedRunIsTerminal, AttemptBudget, AttemptsLeft, Enqueue
<1> QED
  BY <1>3, <1>4, <1>5, <1>6, <1>7, <1>8, <1>9 DEF IInv

LEMMA CancelStep ==
    ASSUME IInv, NEW t \in Task, Cancel(t)
    PROVE  IInv'
<1> DEFINE c == task[t].attemptCount
<1>1. /\ task'[t].status = "canceled"
      /\ task[t].status \notin {"absent", "completed", "canceled"}
      /\ task'[t].attemptCount = c
      /\ task'[t].lease = NoLease
      /\ task' \in [Task -> TaskRecord]
      /\ \A u \in Task : u # t => task'[u] = task[u]
  <2>1. [status |-> "canceled", attemptCount |-> c, wait |-> task[t].wait,
         lease |-> NoLease] \in TaskRecord
    BY TaskQueueAssumption
       DEF IInv, TypeOK, TaskRecord, TaskStatus, Settled, NoLease, Lease
  <2> QED
    BY <2>1 DEF IInv, TypeOK, Cancel, Cancelable, Update
<1>2. c \in Nat /\ (c > 0 => c \in Attempts)
  BY TaskQueueAssumption DEF IInv, TypeOK, TaskRecord, Attempts
<1>3. /\ attempt' \in [Task -> [Attempts -> AttemptStatus]]
      /\ c > 0 => attempt'[t][c] = "canceled"
      /\ \A u \in Task : \A n \in Attempts :
            u # t \/ n # c => attempt'[u][n] = attempt[u][n]
  <2>1. CASE c > 0
    <3>1. attempt' = [attempt EXCEPT ![t][c] = "canceled"]
      BY <2>1 DEF Cancel, UpdateAttempt
    <3> QED
      BY <2>1, <3>1, <1>2 DEF IInv, TypeOK, AttemptStatus
  <2>2. CASE ~(c > 0)
    BY <2>2 DEF IInv, TypeOK, Cancel
  <2> QED
    BY <2>1, <2>2
<1>4. TypeOK'
  BY <1>1, <1>3 DEF IInv, TypeOK, Cancel, Update
<1>5. IdleInv' /\ DistinctInv'
  BY DEF IInv, IdleInv, DistinctInv, Working, Cancel
<1>6. LeaseInv'
  BY <1>1, <1>2, <1>3 DEF IInv, LeaseInv, LeaseOK, NoLease
<1>7. AttemptLedger'
  BY <1>1, <1>2, <1>3 DEF IInv, AttemptLedger, Ledger, NoLease, Attempts
<1>8. WorkerInv'
  <2> SUFFICES ASSUME NEW w \in Worker, Working(w)
               PROVE  OwnsAttempt(w)'
    BY DEF WorkerInv, Working, Cancel
  <2> DEFINE u == worker[w].task
             n == worker[w].lease.token
  <2>1. u \in Task /\ n \in Attempts /\ OwnsAttempt(w)
    BY OwnedToken
  <2>2. UNCHANGED <<worker, verdict>>
    BY DEF Cancel
  <2>3. CASE u = t
    <3>1. attempt'[t][n] \in {"running", "abandoned", "canceled"}
      BY <2>1, <2>3, <1>2, <1>3 DEF OwnsAttempt
    <3> QED
      BY <2>1, <2>2, <2>3, <3>1, <1>1 DEF OwnsAttempt
  <2>4. CASE u # t
    <3>1. task'[u] = task[u] /\ attempt'[u][n] = attempt[u][n]
      BY <2>1, <2>4, <1>1, <1>3
    <3> QED
      BY <2>1, <2>2, <3>1, KeepsUntouched
  <2> QED
    BY <2>3, <2>4
<1>9. OutcomeIntegrity'
  BY <1>2, <1>3 DEF IInv, OutcomeIntegrity, Cancel, Attempts
<1>10. CompletedRunIsTerminal' /\ AttemptBudget'
  BY TaskQueueAssumption, <1>1
     DEF IInv, CompletedRunIsTerminal, AttemptBudget, AttemptsLeft, Cancel
<1> QED
  BY <1>4, <1>5, <1>6, <1>7, <1>8, <1>9, <1>10 DEF IInv

LEMMA OtherClientStep ==
    ASSUME IInv, NEW t \in Task,
           ReadTask(t) \/ RunTerminates(t) \/ FenceRunDeletion(t)
    PROVE  IInv'
<1>1. UNCHANGED <<task, attempt, worker, verdict>>
  BY DEF ReadTask, RunTerminates, FenceRunDeletion
<1>2. \A u \in Task : runDone[u] => runDone'[u]
  BY DEF IInv, TypeOK, ReadTask, RunTerminates, FenceRunDeletion
<1>3. TypeOK'
  <2>1. /\ seen' \in [Task -> BOOLEAN]
        /\ runDone' \in [Task -> BOOLEAN]
        /\ fenced' \in SUBSET Task
    <3>1. CASE ReadTask(t)
      BY <3>1 DEF IInv, TypeOK, ReadTask
    <3>2. CASE RunTerminates(t)
      BY <3>2 DEF IInv, TypeOK, RunTerminates
    <3>3. CASE FenceRunDeletion(t)
      BY <3>3 DEF IInv, TypeOK, FenceRunDeletion
    <3> QED
      BY <3>1, <3>2, <3>3
  <2> QED
    BY <1>1, <2>1 DEF IInv, TypeOK
<1>4. IdleInv' /\ LeaseInv' /\ WorkerInv' /\ DistinctInv'
  <2>1. IdleInv' /\ DistinctInv'
    BY <1>1 DEF IInv, IdleInv, DistinctInv, Working
  <2>2. LeaseInv'
    BY <1>1, LeaseUntouched DEF IInv, LeaseInv
  <2>3. ASSUME NEW v \in Worker, Working(v)
        PROVE  OwnsAttempt(v)'
    <3>1. OwnsAttempt(v)
      BY <2>3, OwnedToken
    <3> QED
      BY <1>1, <3>1, KeepsUntouched
  <2>4. WorkerInv'
    BY <1>1, <2>3 DEF WorkerInv, Working
  <2> QED
    BY <2>1, <2>2, <2>4
<1>5. AttemptLedger' /\ OutcomeIntegrity' /\ AttemptBudget'
  BY <1>1 DEF IInv, AttemptLedger, Ledger, OutcomeIntegrity, AttemptBudget, AttemptsLeft
<1>6. CompletedRunIsTerminal'
  BY TaskQueueAssumption, <1>1, <1>2 DEF IInv, CompletedRunIsTerminal
<1> QED
  BY <1>3, <1>4, <1>5, <1>6 DEF IInv

-----------------------------------------------------------------------------
(* Steps of the holder of a lease *)

\* validateTaskLease accepts only the worker of the latest attempt.
LEMMA ValidLeaseIsCurrent ==
    ASSUME IInv, NEW w \in Worker, Working(w), NEW lag \in Nat,
           ValidLease(worker[w].task, worker[w].lease, lag)
    PROVE  LET t == worker[w].task
           IN  /\ t \in Task
               /\ task[t].status = "running"
               /\ worker[w].lease = task[t].lease
               /\ worker[w].lease.token = task[t].attemptCount
               /\ task[t].attemptCount \in Attempts
               /\ attempt[t][task[t].attemptCount] = "running"
               /\ \A v \in Worker : Working(v) /\ v # w /\ worker[v].task = t =>
                    /\ worker[v].lease.token # task[t].attemptCount
                    /\ worker[v].lease.expires <= 0
<1> DEFINE t == worker[w].task
<1>1. t \in Task /\ OwnsAttempt(w)
  BY OwnedToken
<1>2. task[t].status = "running" /\ worker[w].lease = task[t].lease
  BY <1>1 DEF OwnsAttempt, ValidLease
<1>3. /\ worker[w].lease.token = task[t].attemptCount
      /\ task[t].attemptCount \in Attempts
      /\ attempt[t][task[t].attemptCount] = "running"
  BY <1>1, <1>2 DEF IInv, AttemptLedger, Ledger, LeaseInv, LeaseOK
<1>4. ASSUME NEW v \in Worker, Working(v), v # w, worker[v].task = t
      PROVE  /\ worker[v].lease.token # task[t].attemptCount
             /\ worker[v].lease.expires <= 0
  <2>1. worker[v].lease.token # worker[w].lease.token
    BY <1>4 DEF IInv, DistinctInv
  <2>2. OwnsAttempt(v)
    BY <1>4, OwnedToken
  <2> QED
    BY <1>2, <1>3, <1>4, <2>1, <2>2 DEF OwnsAttempt
<1> QED
  BY <1>1, <1>2, <1>3, <1>4

LEMMA HeartbeatStep ==
    ASSUME IInv, NEW w \in Worker, Heartbeat(w)
    PROVE  IInv'
<1> DEFINE t == worker[w].task
           c == task[t].attemptCount
<1>1. PICK lag \in 0..ClockLag :
        LET lease == Renewed(task[t].lease, lag)
        IN  /\ ValidLease(t, worker[w].lease, lag)
            /\ Update(t, "running", c, task[t].wait, lease)
            /\ worker' = [worker EXCEPT ![w].lease = lease]
  BY Zenon DEF Heartbeat
<1> DEFINE lease == Renewed(task[t].lease, lag)
<1>2. Working(w) /\ worker[w].pc = "executing" /\ lag \in Nat
  BY TaskQueueAssumption DEF Heartbeat, Working
<1>3. /\ t \in Task
      /\ task[t].status = "running"
      /\ worker[w].lease = task[t].lease
      /\ worker[w].lease.token = c
      /\ c \in Attempts
      /\ attempt[t][c] = "running"
      /\ \A v \in Worker : Working(v) /\ v # w /\ worker[v].task = t =>
           /\ worker[v].lease.token # c
           /\ worker[v].lease.expires <= 0
  BY <1>1, <1>2, ValidLeaseIsCurrent
<1>4. /\ lease \in Lease
      /\ lease.worker = task[t].lease.worker
      /\ lease.token = task[t].lease.token
      /\ lease.epoch = task[t].lease.epoch
  <2>1. task[t].lease \in Lease
    BY <1>3 DEF IInv, TypeOK, TaskRecord
  <2>2. LeaseTTL - lag \in -ClockLag..LeaseTTL
    BY TaskQueueAssumption
  <2> QED
    BY <2>1, <2>2 DEF Renewed, Lease
<1>5. /\ worker'[w].lease = lease
      /\ worker'[w].pc = worker[w].pc
      /\ worker'[w].task = t
      /\ worker'[w].result = worker[w].result
      /\ worker' \in [Worker -> WorkerRecord]
      /\ \A v \in Worker : v # w => worker'[v] = worker[v]
  <2> HIDE DEF lease
  <2> QED
    BY <1>1, <1>4, SMTT(30) DEF IInv, TypeOK, WorkerRecord, lease
<1>6. /\ task'[t].status = "running"
      /\ task'[t].attemptCount = c
      /\ task'[t].lease = lease
      /\ task' \in [Task -> TaskRecord]
      /\ \A u \in Task : u # t => task'[u] = task[u]
  <2>1. [status |-> "running", attemptCount |-> c, wait |-> task[t].wait,
         lease |-> lease] \in TaskRecord
    BY <1>3, <1>4 DEF IInv, TypeOK, TaskRecord, TaskStatus
  <2> QED
    BY <1>1, <1>3, <2>1 DEF IInv, TypeOK, Update
<1>7. attempt' \in [Task -> [Attempts -> AttemptStatus]]
      /\ \A u \in Task : \A n \in Attempts : attempt'[u][n] = attempt[u][n]
  BY <1>3 DEF IInv, TypeOK, Heartbeat, UpdateAttempt, AttemptStatus
<1> HIDE DEF lease
<1>8. TypeOK'
  BY <1>1, <1>5, <1>6, <1>7 DEF IInv, TypeOK, Heartbeat, Update
<1>9. IdleInv'
  BY <1>2, <1>5 DEF IInv, IdleInv, Working
<1>10. LeaseInv'
  <2> SUFFICES ASSUME NEW u \in Task
               PROVE  LeaseOK(u)'
    BY DEF LeaseInv
  <2>1. LeaseOK(u)
    BY DEF IInv, LeaseInv
  <2>2. CASE u = t
    <3> HIDE DEF t, c
    <3> QED
      BY <2>1, <2>2, <1>3, <1>4, <1>6, SMTT(30) DEF LeaseOK, c
  <2>3. CASE u # t
    <3>1. task'[u] = task[u] /\ \A m \in Attempts : attempt'[u][m] = attempt[u][m]
      BY <2>3, <1>6, <1>7
    <3> QED
      BY <2>1, <3>1, LeaseUntouched
  <2> QED
    BY <2>2, <2>3
<1>11. AttemptLedger'
  <2> SUFFICES ASSUME NEW u \in Task
               PROVE  Ledger(u)'
    BY DEF AttemptLedger
  <2>1. Ledger(u)
    BY DEF IInv, AttemptLedger
  <2>2. \A m \in Attempts : attempt'[u][m] = attempt[u][m]
    BY <1>7
  <2>3. CASE u = t
    <3>1. /\ task'[u].status = task[u].status
          /\ task'[u].attemptCount = task[u].attemptCount
          /\ task'[u].lease.token = task[u].lease.token
      BY <2>3, <1>3, <1>4, <1>6
    <3> QED
      BY <2>1, <2>2, <3>1, LedgerRenewed
  <2>4. CASE u # t
    <3>1. task'[u] = task[u]
      BY <2>4, <1>6
    <3> QED
      BY <2>1, <2>2, <3>1, LedgerUntouched
  <2> QED
    BY <2>3, <2>4
<1>12. WorkerInv'
  <2> SUFFICES ASSUME NEW v \in Worker, Working(v)'
               PROVE  OwnsAttempt(v)'
    BY DEF WorkerInv
  <2> DEFINE u == worker[v].task
             n == worker[v].lease.token
  <2>1. Working(v)
    BY <1>2, <1>5 DEF Working
  <2>2. u \in Task /\ n \in Attempts /\ OwnsAttempt(v)
    BY <2>1, OwnedToken
  <2>3. attempt'[u][n] = attempt[u][n] /\ verdict' = verdict
    BY <2>2, <1>7 DEF Heartbeat
  <2>4. CASE v = w
    <3>1. n = c /\ u = t /\ worker'[v].lease = task'[t].lease
      BY <2>4, <1>3, <1>5, <1>6
    <3>2. worker'[v].lease.token = c /\ worker'[v].lease.worker = worker[v].lease.worker
      BY <2>4, <1>3, <1>4, <1>5
    <3>3. worker'[v].pc = worker[v].pc /\ worker'[v].task = t /\ task'[t].status = "running"
      BY <2>4, <1>5, <1>6
    <3>4. worker'[v].pc # "returned"
      BY <2>4, <1>2, <1>5
    <3> QED
      <4> HIDE DEF u, n, t, c
      <4>1. t = worker[v].task /\ n = worker[v].lease.token
        BY <3>1 DEF u, n
      <4>2. task'[t].attemptCount = task[t].attemptCount
        BY <1>6 DEF c
      <4>3. attempt'[t][n] = attempt[t][n] /\ worker'[v].lease.token = n
        BY <2>3, <3>1, <3>2
      <4> QED
        BY <2>2, <3>1, <3>2, <3>3, <3>4, <4>1, <4>2, <4>3, KeepsRenewed
  <2>5. CASE v # w /\ u = t
    <3>1. n # task'[t].lease.token /\ worker[v].lease.expires <= 0
      BY <2>1, <2>5, <1>3, <1>4, <1>6
    <3>2. /\ n \in 1..task'[t].attemptCount
          /\ attempt'[t][n] \in {"running", "abandoned", "canceled"}
      <4>1. /\ n \in 1..task[u].attemptCount
            /\ attempt[u][n] \in {"running", "abandoned", "canceled"}
        BY <2>2, OwnedRecord
      <4> QED
        BY <2>3, <2>5, <4>1, <1>6
    <3>3. worker'[v] = worker[v]
      BY <2>5, <1>5
    <3> QED
      BY <2>2, <2>3, <2>5, <3>1, <3>2, <3>3, KeepsExpired
  <2>6. CASE v # w /\ u # t
    <3>1. task'[u] = task[u] /\ worker'[v] = worker[v]
      BY <2>2, <2>6, <1>5, <1>6
    <3> QED
      BY <2>2, <2>3, <3>1, KeepsUntouched
  <2> QED
    BY <2>4, <2>5, <2>6
<1>13. DistinctInv'
  BY <1>2, <1>3, <1>4, <1>5 DEF IInv, DistinctInv, Working
<1>14. OutcomeIntegrity'
  BY <1>7 DEF IInv, OutcomeIntegrity, Heartbeat
<1>15. CompletedRunIsTerminal' /\ AttemptBudget'
  BY TaskQueueAssumption, <1>3, <1>6
     DEF IInv, CompletedRunIsTerminal, AttemptBudget, AttemptsLeft, Heartbeat
<1> QED
  BY <1>8, <1>9, <1>10, <1>11, <1>12, <1>13, <1>14, <1>15 DEF IInv

\* Complete and Fail: the latest attempt and the task get their result
\* together, and the worker that reports it forgets the task.
Settle(w, status, wait, a) ==
    LET t == worker[w].task IN
    /\ worker[w].pc = "returned"
    /\ ValidLease(t, worker[w].lease, 0)
    /\ a = "completed" <=> status = "completed"
    /\ a = "completed" => worker[w].result = "ok" /\ MayComplete(t)
    /\ a = "failed" => worker[w].result \in {"retry", "fail"}
    /\ status = "dead" => ~AttemptsLeft(t)
    /\ Update(t, status, task[t].attemptCount, wait, NoLease)
    /\ UpdateAttempt(t, a)
    /\ worker' = [worker EXCEPT ![w] = Unoccupied("idle")]
    /\ UNCHANGED <<fenced, runDone, verdict>>

LEMMA SettleStep ==
    ASSUME IInv, NEW w \in Worker,
           NEW status \in {"completed", "queued", "failed", "dead"},
           NEW wait \in -ClockLag..RetryDelay,
           NEW a \in {"completed", "failed"},
           Settle(w, status, wait, a)
    PROVE  IInv'
<1> DEFINE t == worker[w].task
           c == task[t].attemptCount
<1>1. Working(w)
  BY DEF Working, Settle
<1>2. /\ t \in Task
      /\ task[t].status = "running"
      /\ worker[w].lease.token = c
      /\ c \in Attempts
      /\ attempt[t][c] = "running"
      /\ \A v \in Worker : Working(v) /\ v # w /\ worker[v].task = t =>
           /\ worker[v].lease.token # c
           /\ worker[v].lease.expires <= 0
  <2>1. ValidLease(t, worker[w].lease, 0)
    BY DEF Settle
  <2> QED
    BY <1>1, <2>1, ValidLeaseIsCurrent
<1>3. /\ a = "completed" => verdict[t][c] = "ok"
      /\ a = "failed" => verdict[t][c] \in {"retry", "fail"}
      /\ verdict' = verdict
  <2>1. worker[w].pc = "returned" => verdict[t][c] = worker[w].result
    <3>1. OwnsAttempt(w)
      BY <1>1, OwnedToken
    <3> QED
      BY <3>1, <1>2, OwnedVerdict
  <2> QED
    BY <2>1 DEF Settle
<1>4. /\ worker'[w] = Unoccupied("idle")
      /\ worker' \in [Worker -> WorkerRecord]
      /\ \A v \in Worker : v # w => worker'[v] = worker[v]
  <2>1. Unoccupied("idle") \in WorkerRecord
    BY TaskQueueAssumption DEF Unoccupied, WorkerRecord, NoLease, Lease, Verdict
  <2> QED
    BY <2>1 DEF IInv, TypeOK, Settle
<1>5. Unoccupied("idle").pc = "idle"
  BY DEF Unoccupied
<1>6. /\ task'[t].status = status
      /\ task'[t].attemptCount = c
      /\ task'[t].lease = NoLease
      /\ task' \in [Task -> TaskRecord]
      /\ \A u \in Task : u # t => task'[u] = task[u]
  <2>1. [status |-> status, attemptCount |-> c, wait |-> wait, lease |-> NoLease]
          \in TaskRecord
    BY <1>2, TaskQueueAssumption
       DEF IInv, TypeOK, TaskRecord, TaskStatus, Settled, NoLease, Lease
  <2> QED
    BY <1>2, <2>1 DEF IInv, TypeOK, Update, Settle
<1>7. /\ attempt' \in [Task -> [Attempts -> AttemptStatus]]
      /\ attempt'[t][c] = a
      /\ \A u \in Task : \A n \in Attempts :
            u # t \/ n # c => attempt'[u][n] = attempt[u][n]
  BY <1>2 DEF IInv, TypeOK, UpdateAttempt, AttemptStatus, Settle
<1>8. TypeOK'
  BY <1>4, <1>6, <1>7 DEF IInv, TypeOK, Update, Settle
<1>9. IdleInv'
  BY <1>4, <1>5 DEF IInv, IdleInv, Working
<1>10. LeaseInv'
  <2> SUFFICES ASSUME NEW u \in Task
               PROVE  LeaseOK(u)'
    BY DEF LeaseInv
  <2>1. CASE u = t
    <3>1. NoLease.epoch <= c
      BY <1>2, TaskQueueAssumption DEF NoLease, Attempts
    <3>2. status = "queued" => attempt'[t][c] = "failed"
      BY <1>7 DEF Settle
    <3> QED
      BY <2>1, <3>1, <3>2, <1>6 DEF LeaseOK
  <2>2. CASE u # t
    <3>1. LeaseOK(u)
      BY DEF IInv, LeaseInv
    <3> QED
      BY <2>2, <3>1, <1>6, <1>7 DEF LeaseOK
  <2> QED
    BY <2>1, <2>2
<1>11. AttemptLedger'
  <2> SUFFICES ASSUME NEW u \in Task
               PROVE  Ledger(u)'
    BY DEF AttemptLedger
  <2>1. Ledger(u)
    BY DEF IInv, AttemptLedger
  <2>2. CASE u = t
    <3>1. NoLease.token = 0
      BY DEF NoLease
    <3>2. \A m \in Attempts : m \in Nat
      BY TaskQueueAssumption DEF Attempts
    <3>3. \A m \in Attempts : m # c =>
            /\ attempt'[t][m] = "none" <=> m > c
            /\ attempt'[t][m] # "running"
            /\ attempt'[t][m] # "completed"
            /\ m < c => attempt'[t][m] \in {"failed", "abandoned"}
      <4> SUFFICES ASSUME NEW m \in Attempts, m # c
                   PROVE  /\ attempt'[t][m] = "none" <=> m > c
                          /\ attempt'[t][m] # "running"
                          /\ attempt'[t][m] # "completed"
                          /\ m < c => attempt'[t][m] \in {"failed", "abandoned"}
        OBVIOUS
      <4>1. attempt'[t][m] = attempt[t][m]
        BY <1>2, <1>7
      <4> QED
        BY <2>1, <2>2, <4>1, LedgerElsewhere
    <3>4. /\ c \in Nat
          /\ attempt'[t][c] \notin {"none", "running"}
          /\ attempt'[t][c] = "completed" <=> status = "completed"
      BY <3>2, <1>2, <1>7 DEF Settle
    <3>5. status # "running"
      OBVIOUS
    <3> QED
      <4> HIDE DEF t, c
      <4> QED
        BY <2>2, <3>1, <3>2, <3>3, <3>4, <3>5, <1>6, LedgerSettled
  <2>3. CASE u # t
    <3>1. task'[u] = task[u] /\ \A m \in Attempts : attempt'[u][m] = attempt[u][m]
      BY <2>3, <1>6, <1>7
    <3> QED
      BY <2>1, <3>1, LedgerUntouched
  <2> QED
    BY <2>2, <2>3
<1>12. WorkerInv'
  <2> SUFFICES ASSUME NEW v \in Worker, Working(v)'
               PROVE  OwnsAttempt(v)'
    BY DEF WorkerInv
  <2>1. v # w /\ Working(v) /\ worker'[v] = worker[v]
    BY <1>4, <1>5 DEF Working
  <2> DEFINE u == worker[v].task
             n == worker[v].lease.token
  <2>2. u \in Task /\ n \in Attempts /\ OwnsAttempt(v)
    BY <2>1, OwnedToken
  <2>3. CASE u = t
    <3>1. n # c /\ worker[v].lease.expires <= 0
      BY <2>1, <2>3, <1>2
    <3>2. /\ n \in 1..task'[t].attemptCount
          /\ attempt'[t][n] \in {"running", "abandoned", "canceled"}
      <4>1. /\ n \in 1..task[u].attemptCount
            /\ attempt[u][n] \in {"running", "abandoned", "canceled"}
        BY <2>2, OwnedRecord
      <4>2. attempt'[t][n] = attempt[t][n]
        BY <2>2, <3>1, <1>2, <1>7
      <4> QED
        BY <2>3, <4>1, <4>2, <1>6
    <3> QED
      BY <2>1, <2>2, <2>3, <3>1, <3>2, <1>3, <1>6, KeepsExpired
  <2>4. CASE u # t
    <3>1. task'[u] = task[u] /\ attempt'[u][n] = attempt[u][n]
      BY <2>2, <2>4, <1>6, <1>7
    <3> QED
      BY <2>1, <2>2, <3>1, <1>3, KeepsUntouched
  <2> QED
    BY <2>3, <2>4
<1>13. DistinctInv'
  BY <1>4, <1>5 DEF IInv, DistinctInv, Working
<1>14. OutcomeIntegrity'
  <2> SUFFICES ASSUME NEW u \in Task, NEW m \in Attempts
               PROVE  /\ attempt'[u][m] = "completed" => verdict'[u][m] = "ok"
                      /\ attempt'[u][m] = "failed" => verdict'[u][m] \in {"retry", "fail"}
    BY DEF OutcomeIntegrity
  <2>1. CASE u = t /\ m = c
    BY <2>1, <1>3, <1>7
  <2>2. CASE u # t \/ m # c
    <3>1. attempt'[u][m] = attempt[u][m]
      BY <2>2, <1>7
    <3> QED
      BY <3>1, <1>3 DEF IInv, OutcomeIntegrity
  <2> QED
    BY <2>1, <2>2
<1>15. CompletedRunIsTerminal'
  BY TaskQueueAssumption, <1>6 DEF IInv, CompletedRunIsTerminal, MayComplete, Settle
<1>16. AttemptBudget'
  BY <1>2, <1>6 DEF IInv, AttemptBudget, AttemptsLeft, Settle
<1> QED
  BY <1>8, <1>9, <1>10, <1>11, <1>12, <1>13, <1>14, <1>15, <1>16 DEF IInv

LEMMA CompleteStep ==
    ASSUME IInv, NEW w \in Worker, Complete(w)
    PROVE  IInv'
<1>1. worker[w].task \in Task
  BY OwnedToken DEF Complete, Working
<1>2. task[worker[w].task].wait \in -ClockLag..RetryDelay
  BY <1>1 DEF IInv, TypeOK, TaskRecord
<1>3. Settle(w, "completed", task[worker[w].task].wait, "completed")
  BY DEF Complete, Settle
<1> QED
  BY <1>2, <1>3, SettleStep

LEMMA FailStep ==
    ASSUME IInv, NEW w \in Worker, Fail(w)
    PROVE  IInv'
<1> DEFINE t == worker[w].task
           status == FailedStatus(t, worker[w].result)
           wait == IF status = "queued" THEN RetryDelay ELSE task[t].wait
<1>1. t \in Task
  BY OwnedToken DEF Fail, Working
<1>2. /\ status \in {"queued", "failed", "dead"}
      /\ status = "dead" => ~AttemptsLeft(t)
  BY DEF FailedStatus
<1>3. wait \in -ClockLag..RetryDelay
  BY <1>1, TaskQueueAssumption DEF IInv, TypeOK, TaskRecord
<1>4. Settle(w, status, wait, "failed")
  BY <1>2 DEF Fail, Settle
<1> HIDE DEF status, wait
<1> QED
  BY <1>2, <1>3, <1>4, SettleStep
=============================================================================

-------------------------- MODULE TaskQueueProofs --------------------------
(***************************************************************************)
(* Proofs about TaskQueue, for every set of tasks and workers and every    *)
(* choice of limits, lease lengths, retry delays and clock lags.           *)
(***************************************************************************)
EXTENDS TaskQueueInvariant

-----------------------------------------------------------------------------
(* Claims *)

LEMMA ClaimStep ==
    ASSUME IInv, NEW w \in Worker, NEW t \in Task, Claim(w, t)
    PROVE  IInv'
<1> DEFINE c == task[t].attemptCount
           n == c + 1
<1>1. PICK lag \in 0..ClockLag :
        LET lease == [worker |-> w, token |-> n, epoch |-> task[t].lease.epoch + 1,
                      expires |-> LeaseTTL - lag]
        IN  /\ Claimable(t, lag)
            /\ Update(t, "running", n, task[t].wait, lease)
            /\ attempt' = [attempt EXCEPT ![t] = ClaimedAttempts(t, n)]
            /\ worker' = [worker EXCEPT ![w] =
                 [pc |-> "executing", task |-> t, lease |-> lease, result |-> "none"]]
  BY Zenon DEF Claim
<1> DEFINE lease == [worker |-> w, token |-> n, epoch |-> task[t].lease.epoch + 1,
                     expires |-> LeaseTTL - lag]
<1>2. /\ c \in Nat
      /\ n \in Attempts
      /\ task[t].lease \in Lease
      /\ task[t].lease.epoch \in Nat
      /\ task[t].lease.epoch <= c
      /\ task[t].status \in {"queued", "running"}
      /\ AttemptsLeft(t)
  <2>1. c < AttemptBound /\ task[t].status \in {"queued", "running"} /\ AttemptsLeft(t)
    BY <1>1 DEF Claim, Claimable
  <2>2. c \in Nat
    BY CountType
  <2>3. n \in Attempts
    BY <2>1, <2>2, TaskQueueAssumption DEF Attempts
  <2>4. task[t].lease \in Lease /\ task[t].lease.epoch <= c
    BY DEF IInv, TypeOK, TaskRecord, LeaseInv, LeaseOK
  <2> QED
    BY <2>1, <2>2, <2>3, <2>4, TaskQueueAssumption DEF Lease
<1>3. lease \in Lease /\ lease.token = n /\ lease.worker = w /\ lease.epoch <= n
  <2>1. task[t].lease.epoch + 1 \in 0..AttemptBound
    BY <1>2, TaskQueueAssumption DEF Attempts
  <2>2. LeaseTTL - lag \in -ClockLag..LeaseTTL
    BY TaskQueueAssumption
  <2>3. n \in 0..AttemptBound
    BY <1>2, TaskQueueAssumption DEF Attempts
  <2> QED
    BY <1>2, <2>1, <2>2, <2>3 DEF Lease
<1>4. \A v \in Worker : Working(v) /\ worker[v].task = t =>
        worker[v].lease.expires <= 0 /\ worker[v].lease.token \in 1..c
  <2> SUFFICES ASSUME NEW v \in Worker, Working(v), worker[v].task = t
               PROVE  worker[v].lease.expires <= 0 /\ worker[v].lease.token \in 1..c
    OBVIOUS
  <2>1. OwnsAttempt(v)
    BY OwnedToken
  <2>2. task[t].status = "running" => task[t].lease.expires <= 0
    <3>1. task[t].status = "running" => task[t].lease.expires + lag <= 0
      BY <1>1 DEF Claimable
    <3>2. task[t].lease.expires \in Int /\ lag \in Nat
      BY <1>2, TaskQueueAssumption DEF Lease
    <3> QED
      BY <3>1, <3>2
  <2> QED
    BY <1>2, <2>1, <2>2 DEF OwnsAttempt
<1> HIDE DEF lease
<1>5. /\ worker'[w].pc = "executing"
      /\ worker'[w].task = t
      /\ worker'[w].lease = lease
      /\ worker'[w].result = "none"
      /\ worker' \in [Worker -> WorkerRecord]
      /\ \A v \in Worker : v # w => worker'[v] = worker[v]
  <2>1. [pc |-> "executing", task |-> t, lease |-> lease, result |-> "none"]
          \in WorkerRecord
    BY <1>3 DEF WorkerRecord, Verdict
  <2> QED
    BY <1>1, <2>1 DEF IInv, TypeOK, lease
<1>6. /\ task'[t].status = "running"
      /\ task'[t].attemptCount = n
      /\ task'[t].lease = lease
      /\ task' \in [Task -> TaskRecord]
      /\ \A u \in Task : u # t => task'[u] = task[u]
  <2>1. [status |-> "running", attemptCount |-> n, wait |-> task[t].wait,
         lease |-> lease] \in TaskRecord
    BY <1>2, <1>3, TaskQueueAssumption DEF IInv, TypeOK, TaskRecord, TaskStatus, Attempts
  <2> QED
    BY <1>1, <2>1 DEF IInv, TypeOK, Update, lease
<1>7. /\ attempt' \in [Task -> [Attempts -> AttemptStatus]]
      /\ attempt'[t][n] = "running"
      /\ \A m \in Attempts : m # n =>
            attempt'[t][m] = IF m = n - 1 /\ task[t].lease.token # 0
                             THEN "abandoned" ELSE attempt[t][m]
      /\ \A u \in Task : u # t => attempt'[u] = attempt[u]
  BY <1>1, <1>2 DEF IInv, TypeOK, ClaimedAttempts, AttemptStatus
<1>8. TypeOK'
  BY <1>1, <1>5, <1>6, <1>7 DEF IInv, TypeOK, Claim, Update
<1>9. IdleInv'
  BY <1>5 DEF IInv, IdleInv, Working
<1>10. LeaseInv'
  <2> SUFFICES ASSUME NEW u \in Task
               PROVE  LeaseOK(u)'
    BY DEF LeaseInv
  <2>1. CASE u = t
    BY <2>1, <1>2, <1>3, <1>6 DEF LeaseOK
  <2>2. CASE u # t
    <3>1. LeaseOK(u)
      BY DEF IInv, LeaseInv
    <3> QED
      BY <2>2, <3>1, <1>6, <1>7 DEF LeaseOK
  <2> QED
    BY <2>1, <2>2
<1>11. AttemptLedger'
  <2> SUFFICES ASSUME NEW u \in Task
               PROVE  Ledger(u)'
    BY DEF AttemptLedger
  <2>1. Ledger(u) /\ LeaseOK(u)
    BY DEF IInv, AttemptLedger, LeaseInv
  <2>2. CASE u = t
    <3>1. \A m \in Attempts : m \in Nat
      BY TaskQueueAssumption DEF Attempts
    <3>2. task[t].status = "queued" => task[t].lease.token = 0
      BY <2>1, <2>2 DEF LeaseOK, NoLease
    <3>3. \A m \in Attempts : m < c => attempt'[t][m] = attempt[t][m]
      BY <3>1, <1>2, <1>7
    <3>4. \A m \in Attempts : m > n => attempt'[t][m] = attempt[t][m]
      BY <3>1, <1>2, <1>7
    <3>5. c \in Attempts => attempt'[t][c] \in {"failed", "abandoned"}
      BY <2>1, <2>2, <3>2, <1>2, <1>7 DEF Ledger, LeaseOK
    <3>6. \A m \in Attempts : m < n => attempt'[t][m] \in {"failed", "abandoned"}
      <4> SUFFICES ASSUME NEW m \in Attempts, m < n
                   PROVE  attempt'[t][m] \in {"failed", "abandoned"}
        OBVIOUS
      <4>1. m = c \/ m < c
        BY <3>1, <1>2
      <4> QED
        BY <2>1, <2>2, <3>3, <3>5, <4>1 DEF Ledger
    <3>7. \A m \in Attempts : m > n => attempt'[t][m] = "none"
      BY <2>1, <2>2, <3>1, <3>4, <1>2 DEF Ledger
    <3>8. \A m \in Attempts : m < n \/ m = n \/ m > n
      BY <3>1, <1>2
    <3>9. n \in Nat /\ n # 0
      BY <1>2
    <3> HIDE DEF n
    <3> QED
      BY <2>2, <3>1, <3>6, <3>7, <3>8, <3>9, <1>3, <1>6, <1>7 DEF Ledger
  <2>3. CASE u # t
    BY <2>1, <2>3, <1>6, <1>7 DEF Ledger
  <2> QED
    BY <2>2, <2>3
<1>12. WorkerInv'
  <2> SUFFICES ASSUME NEW v \in Worker, Working(v)'
               PROVE  OwnsAttempt(v)'
    BY DEF WorkerInv
  <2>1. CASE v = w
    <3>1. worker'[w].lease.token = n /\ worker'[w].lease.worker = w
      BY <1>3, <1>5
    <3>2. n \in 1..n
      BY <1>2
    <3> HIDE DEF n
    <3> QED
      BY <2>1, <3>1, <3>2, <1>5, <1>6, <1>7 DEF OwnsAttempt
  <2>2. CASE v # w
    <3>1. Working(v) /\ worker'[v] = worker[v]
      BY <2>2, <1>5 DEF Working
    <3> DEFINE u == worker[v].task
               k == worker[v].lease.token
    <3>2. u \in Task /\ k \in Attempts /\ OwnsAttempt(v)
      BY <3>1, OwnedToken
    <3>3. CASE u = t
      <4>1. worker[v].lease.expires <= 0 /\ k \in 1..c
        BY <3>1, <3>3, <1>4
      <4>2. k # n /\ k \in 1..n
        BY <4>1, <1>2
      <4>3. attempt'[t][k] \in {"running", "abandoned", "canceled"}
        BY <3>2, <3>3, <4>2, <1>7 DEF OwnsAttempt
      <4>4. verdict' = verdict
        BY DEF Claim
      <4>5. task'[t].lease.token = n /\ task'[t].attemptCount = n
        BY <1>3, <1>6
      <4> HIDE DEF n
      <4> QED
        BY <3>1, <3>2, <3>3, <4>1, <4>2, <4>3, <4>4, <4>5, KeepsExpired
    <3>4. CASE u # t
      <4>1. task'[u] = task[u] /\ attempt'[u] = attempt[u] /\ verdict' = verdict
        BY <3>2, <3>4, <1>6, <1>7 DEF Claim
      <4> QED
        BY <3>1, <3>2, <4>1, KeepsUntouched
    <3> QED
      BY <3>3, <3>4
  <2> QED
    BY <2>1, <2>2
<1>13. DistinctInv'
  <2> SUFFICES ASSUME NEW v \in Worker, NEW x \in Worker, Working(v)', Working(x)',
                      v # x, worker'[v].task = worker'[x].task
               PROVE  /\ worker'[v].lease.token # worker'[x].lease.token
                      /\ worker'[v].lease.expires <= 0 \/ worker'[x].lease.expires <= 0
    BY DEF DistinctInv
  <2>1. CASE v # w /\ x # w
    BY <2>1, <1>5 DEF IInv, DistinctInv, Working
  <2>2. ASSUME NEW y \in Worker, y # w, Working(y)', worker'[y].task = t
        PROVE  worker'[y].lease.token # n /\ worker'[y].lease.expires <= 0
    <3>1. worker[y].lease.expires <= 0 /\ worker[y].lease.token \in 1..c
      BY <2>2, <1>4, <1>5 DEF Working
    <3> QED
      BY <2>2, <3>1, <1>2, <1>5
  <2> HIDE DEF n
  <2> QED
    BY <2>1, <2>2, <1>3, <1>5
<1>14. OutcomeIntegrity'
  BY <1>7 DEF IInv, OutcomeIntegrity, Claim
<1>15. CompletedRunIsTerminal'
  BY TaskQueueAssumption, <1>6 DEF IInv, CompletedRunIsTerminal, Claim
<1>16. AttemptBudget'
  BY <1>2, <1>6, TaskQueueAssumption DEF IInv, AttemptBudget, AttemptsLeft
<1> QED
  BY <1>8, <1>9, <1>10, <1>11, <1>12, <1>13, <1>14, <1>15, <1>16 DEF IInv

-----------------------------------------------------------------------------
(* Time *)

LEMMA AgedLease ==
    ASSUME NEW lease \in Lease
    PROVE  /\ Aged(lease) \in Lease
           /\ Aged(lease).worker = lease.worker
           /\ Aged(lease).token = lease.token
           /\ Aged(lease).epoch = lease.epoch
           /\ lease.expires <= 0 => Aged(lease).expires <= 0
<1>1. /\ Past(lease.expires) \in -ClockLag..LeaseTTL
      /\ lease.expires <= 0 => Past(lease.expires) <= 0
  BY TaskQueueAssumption DEF Past, Lease
<1> HIDE DEF Past
<1> QED
  BY <1>1 DEF Aged, Lease

LEMMA TickStep ==
    ASSUME IInv, Tick
    PROVE  IInv'
<1>1. \A t \in Task :
        /\ task'[t].status = task[t].status
        /\ task'[t].attemptCount = task[t].attemptCount
        /\ task'[t].lease = IF task[t].status = "running"
                            THEN Aged(task[t].lease) ELSE task[t].lease
  BY DEF Tick
<1>2. task' \in [Task -> TaskRecord]
  <2>1. \A t \in Task : task[t] \in TaskRecord
    BY DEF IInv, TypeOK
  <2>2. \A t \in Task : task[t].status = "queued" => task[t].wait \in -ClockLag..RetryDelay
    BY <2>1 DEF TaskRecord
  <2>3. \A n \in -ClockLag..RetryDelay : Past(n) \in -ClockLag..RetryDelay
    BY TaskQueueAssumption DEF Past
  <2>4. \A t \in Task : task[t].lease \in Lease /\ Aged(task[t].lease) \in Lease
    BY <2>1, AgedLease DEF TaskRecord
  <2> QED
    BY <2>1, <2>2, <2>3, <2>4 DEF Tick, TaskRecord
<1>3. \A w \in Worker :
        /\ worker'[w].pc = worker[w].pc
        /\ worker'[w].task = worker[w].task
        /\ worker'[w].result = worker[w].result
        /\ Working(w) => worker'[w].lease = Aged(worker[w].lease)
        /\ ~Working(w) => worker'[w] = worker[w]
        /\ worker[w].lease \in Lease
        /\ worker'[w] \in WorkerRecord
  <2> SUFFICES ASSUME NEW w \in Worker
               PROVE  /\ worker'[w].pc = worker[w].pc
                      /\ worker'[w].task = worker[w].task
                      /\ worker'[w].result = worker[w].result
                      /\ Working(w) => worker'[w].lease = Aged(worker[w].lease)
                      /\ ~Working(w) => worker'[w] = worker[w]
                      /\ worker[w].lease \in Lease
                      /\ worker'[w] \in WorkerRecord
    OBVIOUS
  <2>1. worker[w] \in WorkerRecord /\ worker[w].lease \in Lease
    BY DEF IInv, TypeOK, WorkerRecord
  <2>2. Aged(worker[w].lease) \in Lease
    BY <2>1, AgedLease
  <2>3. CASE Working(w)
    <3>1. worker'[w] = [worker[w] EXCEPT !.lease = Aged(worker[w].lease)]
      BY <2>3 DEF Tick, Working
    <3> HIDE DEF Aged
    <3> QED
      BY <2>1, <2>2, <2>3, <3>1 DEF WorkerRecord
  <2>4. CASE ~Working(w)
    BY <2>1, <2>4 DEF Tick, Working
  <2> QED
    BY <2>3, <2>4
<1>4. worker' \in [Worker -> WorkerRecord]
  <2>1. worker' = [w \in Worker |-> worker'[w]]
    BY DEF Tick
  <2> QED
    BY <1>3, <2>1
<1>5. TypeOK'
  BY <1>2, <1>4 DEF IInv, TypeOK, Tick
<1>6. IdleInv'
  BY <1>3 DEF IInv, IdleInv, Working
<1>7. \A t \in Task : /\ task[t].lease \in Lease
                      /\ task'[t].lease.token = task[t].lease.token
                      /\ task'[t].lease.epoch = task[t].lease.epoch
  <2>1. \A t \in Task : task[t].lease \in Lease
    BY DEF IInv, TypeOK, TaskRecord
  <2> QED
    BY <1>1, <2>1, AgedLease
<1>8. LeaseInv'
  BY <1>1, <1>7 DEF IInv, LeaseInv, LeaseOK, Tick
<1>9. AttemptLedger'
  BY <1>1, <1>7 DEF IInv, AttemptLedger, Ledger, Tick
<1>10. WorkerInv'
  <2> SUFFICES ASSUME NEW w \in Worker, Working(w)'
               PROVE  OwnsAttempt(w)'
    BY DEF WorkerInv
  <2>1. Working(w)
    BY <1>3 DEF Working
  <2>2. worker[w].task \in Task /\ OwnsAttempt(w)
    BY <2>1, OwnedToken
  <2>3. /\ worker'[w].lease = Aged(worker[w].lease)
        /\ worker'[w].lease.worker = worker[w].lease.worker
        /\ worker'[w].lease.token = worker[w].lease.token
        /\ worker[w].lease.expires <= 0 => worker'[w].lease.expires <= 0
    BY <2>1, <1>3, AgedLease
  <2> DEFINE t == worker[w].task
  <2>4. /\ task'[t].status = task[t].status
        /\ task'[t].attemptCount = task[t].attemptCount
        /\ task'[t].lease.token = task[t].lease.token
        /\ task[t].status = "running" => task'[t].lease = Aged(task[t].lease)
    BY <2>2, <1>1, <1>7
  <2>5. task'[t].status = "running" =>
          \/ worker'[w].lease = task'[t].lease
          \/ /\ worker'[w].lease.token # task'[t].lease.token
             /\ worker'[w].lease.expires <= 0
    BY <2>2, <2>3, <2>4 DEF OwnsAttempt
  <2>6. task'[t].status = "queued" => worker'[w].lease.expires <= 0
    BY <2>2, <2>3, <2>4 DEF OwnsAttempt
  <2>7. /\ worker'[w].pc = worker[w].pc
        /\ worker'[w].task = worker[w].task
        /\ worker'[w].result = worker[w].result
        /\ UNCHANGED <<attempt, verdict>>
    BY <1>3 DEF Tick
  <2> QED
    BY <2>2, <2>3, <2>4, <2>5, <2>6, <2>7 DEF OwnsAttempt
<1>11. DistinctInv'
  <2>1. \A w \in Worker : Working(w) =>
          /\ worker'[w].lease.token = worker[w].lease.token
          /\ worker[w].lease.expires <= 0 => worker'[w].lease.expires <= 0
    BY <1>3, AgedLease
  <2> QED
    BY <2>1, <1>3 DEF IInv, DistinctInv, Working
<1>12. OutcomeIntegrity'
  BY DEF IInv, OutcomeIntegrity, Tick
<1>13. CompletedRunIsTerminal' /\ AttemptBudget'
  BY TaskQueueAssumption, <1>1
     DEF IInv, CompletedRunIsTerminal, AttemptBudget, AttemptsLeft, Tick
<1> QED
  BY <1>5, <1>6, <1>8, <1>9, <1>10, <1>11, <1>12, <1>13 DEF IInv

-----------------------------------------------------------------------------
(* The theorems *)

LEMMA InitInv == Init => IInv
<1> SUFFICES ASSUME Init
             PROVE  IInv
  OBVIOUS
<1>1. TypeOK
  BY TaskQueueAssumption
     DEF Init, TypeOK, TaskRecord, Lease, WorkerRecord, NoLease, Unoccupied,
         TaskStatus, AttemptStatus, Verdict
<1>2. IdleInv /\ WorkerInv /\ DistinctInv
  BY DEF Init, IdleInv, WorkerInv, DistinctInv, Working, Unoccupied
<1>3. LeaseInv /\ AttemptLedger /\ OutcomeIntegrity
  BY TaskQueueAssumption
     DEF Init, LeaseInv, LeaseOK, AttemptLedger, Ledger, OutcomeIntegrity, NoLease, Attempts
<1>4. CompletedRunIsTerminal /\ AttemptBudget
  BY TaskQueueAssumption DEF Init, CompletedRunIsTerminal, AttemptBudget
<1> QED
  BY <1>1, <1>2, <1>3, <1>4 DEF IInv

LEMMA NextInv == IInv /\ [Next]_vars => IInv'
<1> SUFFICES ASSUME IInv, [Next]_vars
             PROVE  IInv'
  OBVIOUS
<1>1. ASSUME NEW t \in Task, ClientStep(t)
      PROVE  IInv'
  BY <1>1, EnqueueStep, CancelStep, OtherClientStep DEF ClientStep
<1>2. ASSUME NEW w \in Worker, WorkerStep(w)
      PROVE  IInv'
  <2>1. ASSUME NEW t \in Task, Claim(w, t)
        PROVE  IInv'
    BY <2>1, ClaimStep
  <2>2. CASE ClaimError(w) \/ SettleError(w) \/ Crash(w) \/ Restart(w)
    <3>1. PICK p \in {"idle", "down"} : worker' = [worker EXCEPT ![w] = Unoccupied(p)]
      BY <2>2 DEF ClaimError, SettleError, Crash, Restart
    <3>2. UNCHANGED <<task, attempt, seen, fenced, runDone, verdict>>
      BY <2>2 DEF ClaimError, SettleError, Crash, Restart
    <3> QED
      BY <3>1, <3>2, WorkerForgets, Zenon
  <2>3. CASE \E result \in {"ok", "retry", "fail"} : HandlerReturns(w, result)
    BY <2>3, HandlerReturnsStep
  <2> QED
    BY <1>2, <2>1, <2>2, <2>3, HeartbeatStep, HeartbeatErrorStep, CompleteStep, FailStep
       DEF WorkerStep
<1>3. CASE UNCHANGED vars
  <2>1. UNCHANGED <<task, attempt, seen, fenced, runDone, worker, verdict>>
    BY <1>3 DEF vars
  <2>2. TypeOK' /\ LeaseInv'
    BY <2>1 DEF IInv, TypeOK, LeaseInv, LeaseOK
  <2>3. AttemptLedger' /\ OutcomeIntegrity'
    BY <2>1 DEF IInv, AttemptLedger, Ledger, OutcomeIntegrity
  <2>4. IdleInv' /\ DistinctInv'
    BY <2>1 DEF IInv, IdleInv, DistinctInv, Working
  <2>5. WorkerInv'
    BY <2>1 DEF IInv, WorkerInv, OwnsAttempt, Working
  <2>6. CompletedRunIsTerminal' /\ AttemptBudget'
    BY <2>1 DEF IInv, CompletedRunIsTerminal, AttemptBudget, AttemptsLeft
  <2> QED
    BY <2>2, <2>3, <2>4, <2>5, <2>6 DEF IInv
<1> QED
  BY <1>1, <1>2, <1>3, TickStep DEF Next

LEMMA Invariance == Spec => []IInv
  BY InitInv, NextInv, PTL DEF Spec

\* Type correctness of the queue's tables and of what the workers remember.
THEOREM TypeCorrect == Spec => []TypeOK
  BY Invariance, PTL DEF IInv

\* The two tables that Claim, Complete, Fail and Cancel write agree at all times.
THEOREM LedgerConsistent == Spec => []AttemptLedger
  BY Invariance, PTL DEF IInv

\* Fencing by token: only the handler of an attempt decides how it is recorded.
THEOREM OutcomeIsTheHandlers == Spec => []OutcomeIntegrity
  BY Invariance, PTL DEF IInv

\* No graph.run task is completed before its run is over.
THEOREM RunOverWhenCompleted == Spec => []CompletedRunIsTerminal
  BY Invariance, PTL DEF IInv

\* The limit on attempts holds through retries and takeovers.
THEOREM BudgetKept == Spec => []AttemptBudget
  BY Invariance, PTL DEF IInv

\* Two workers never both hold an unexpired lease of a task, whatever the
\* length of the leases and the lag of the clocks.
THEOREM MutualExclusion == Spec => []LeaseExclusive
<1>1. IInv => LeaseExclusive
  <2> SUFFICES ASSUME IInv, NEW t \in Task, NEW v \in Worker, NEW w \in Worker,
                      HoldsLease(v, t), HoldsLease(w, t), v # w
               PROVE  FALSE
    BY DEF LeaseExclusive
  <2>1. Working(v) /\ Working(w) /\ worker[v].task = worker[w].task
    BY DEF HoldsLease, Working
  <2>2. worker[v].lease.expires <= 0 \/ worker[w].lease.expires <= 0
    BY <2>1 DEF IInv, DistinctInv
  <2>3. worker[v].lease.expires \in Int /\ worker[w].lease.expires \in Int
    BY TaskQueueAssumption DEF IInv, TypeOK, WorkerRecord, Lease
  <2> QED
    BY <2>2, <2>3 DEF HoldsLease
<1> QED
  BY <1>1, Invariance, PTL

\* The fence of a run deletion freezes the run's task for good.
THEOREM FenceFreezes == Spec => FencedTaskIsFrozen
<1> DEFINE Frozen == \A t \in fenced : /\ task'[t].status = task[t].status
                                       /\ task'[t].attemptCount = task[t].attemptCount
                                       /\ attempt'[t] = attempt[t]
<1>1. ASSUME IInv, Next
      PROVE  Frozen
  <2>1. ASSUME NEW u \in Task, u \notin fenced, \A t \in Task : t # u => task'[t] = task[t],
               \A t \in Task : t # u => attempt'[t] = attempt[t]
        PROVE  Frozen
    BY <1>1, <2>1 DEF IInv, TypeOK
  <2>2. ASSUME UNCHANGED <<task, attempt>>
        PROVE  Frozen
    BY <2>2
  <2>3. ASSUME NEW u \in Task, ClientStep(u)
        PROVE  Frozen
    <3>1. CASE Enqueue(u)
      BY <1>1, <3>1, <2>1 DEF Enqueue, Update, IInv, TypeOK
    <3>2. CASE Cancel(u)
      BY <1>1, <3>2, <2>1 DEF Cancel, Update, UpdateAttempt, IInv, TypeOK
    <3>3. CASE ReadTask(u) \/ RunTerminates(u) \/ FenceRunDeletion(u)
      BY <3>3, <2>2 DEF ReadTask, RunTerminates, FenceRunDeletion
    <3> QED
      BY <2>3, <3>1, <3>2, <3>3 DEF ClientStep
  <2>4. ASSUME NEW w \in Worker, WorkerStep(w)
        PROVE  Frozen
    <3>1. ASSUME NEW t \in Task, Claim(w, t)
          PROVE  Frozen
      BY <1>1, <3>1, <2>1 DEF Claim, Claimable, Update, IInv, TypeOK
    <3>2. CASE Heartbeat(w) \/ Complete(w) \/ Fail(w)
      <4>1. Working(w)
        BY <3>2 DEF Heartbeat, Complete, Fail, Working
      <4>2. worker[w].task \in Task
        BY <1>1, <4>1, OwnedToken
      <4> QED
        BY <1>1, <3>2, <4>2, <2>1, Zenon
           DEF Heartbeat, Complete, Fail, Update, UpdateAttempt, IInv, TypeOK
    <3>3. CASE ClaimError(w) \/ HeartbeatError(w) \/ SettleError(w) \/ Crash(w) \/ Restart(w)
      BY <3>3, <2>2 DEF ClaimError, HeartbeatError, SettleError, Crash, Restart
    <3>4. CASE \E result \in {"ok", "retry", "fail"} : HandlerReturns(w, result)
      BY <3>4, <2>2 DEF HandlerReturns
    <3> QED
      BY <2>4, <3>1, <3>2, <3>3, <3>4 DEF WorkerStep
  <2>5. CASE Tick
    BY <1>1, <2>5 DEF Tick, IInv, TypeOK
  <2> QED
    BY <1>1, <2>3, <2>4, <2>5 DEF Next
<1>2. IInv /\ [Next]_vars => [Frozen]_vars
  BY <1>1
<1> QED
  BY <1>2, Invariance, PTL DEF Spec, FencedTaskIsFrozen
=============================================================================

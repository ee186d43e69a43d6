----------------------------- MODULE TaskQueue -----------------------------
(***************************************************************************)
(* The durable task queue of internal/runtimestore/sqlite/queue.go and the *)
(* workers of internal/worker/worker.go that drain it.                     *)
(*                                                                         *)
(* Every method of the queue runs inside one SQLite transaction, so each   *)
(* is one action.  A worker's calls are separate actions: between claiming *)
(* a task, renewing its lease and reporting the result, time passes, other *)
(* workers take the task over, clients cancel it, the worker crashes.      *)
(*                                                                         *)
(* Time is kept as distances.  lease.expires is the number of ticks until  *)
(* ExpiresAt and wait the number of ticks until AvailableAt; Tick moves    *)
(* both towards the past and stops at -ClockLag, where nothing can be told *)
(* apart any more.  A worker reads its clock before the transaction that   *)
(* uses it begins, so a call may see the time of up to ClockLag ticks ago. *)
(*                                                                         *)
(* The lease token (a fresh UUID per claim) is the number of the attempt   *)
(* the claim inserts, which no other claim of the task has.                *)
(***************************************************************************)
EXTENDS Integers

CONSTANTS Task,         \* the task IDs that may be enqueued
          Worker,       \* worker slots; a restarted slot is a new worker
          NoWorker,     \* the WorkerID of the nil lease
          NoTask,       \* what a worker that polls is working on
          GraphRun,     \* the tasks whose Kind is graph.run
          MaxAttempts,  \* Task.MaxAttempts; 0 is "no limit"
          AttemptBound, \* bound: claims of one task that are explored
          LeaseTTL,     \* worker.Config.LeaseTTL, in ticks
          RetryDelay,   \* worker.Config.RetryDelay, in ticks
          ClockLag      \* how stale the time used by a call can be, in ticks

ASSUME TaskQueueAssumption ==
    /\ NoWorker \notin Worker
    /\ NoTask \notin Task
    /\ GraphRun \subseteq Task
    /\ AttemptBound \in Nat
    /\ MaxAttempts \in [Task -> 0..AttemptBound]
    /\ ClockLag \in Nat
    /\ LeaseTTL \in Nat /\ LeaseTTL > ClockLag
    /\ RetryDelay \in Nat

VARIABLES task,     \* the tasks table
          attempt,  \* the attempts table: status of attempt n of task t
          seen,     \* a client of Cancel holds the task's current Version
          fenced,   \* the tasks whose run has a row in run_deletion_fences
          runDone,  \* the run of the task is completed, failed or canceled
          worker,   \* the workers' local state
          verdict   \* history: what the handler of attempt n returned

vars == <<task, attempt, seen, fenced, runDone, worker, verdict>>

-----------------------------------------------------------------------------
(* Records *)

Settled == {"completed", "failed", "canceled", "dead"}

TaskStatus == {"absent", "queued", "running"} \cup Settled

AttemptStatus ==
    {"none", "running", "completed", "failed", "canceled", "abandoned"}

Verdict == {"none", "ok", "retry", "fail"}

Attempts == 1..AttemptBound

Lease == [worker  : Worker \cup {NoWorker},
          token   : 0..AttemptBound,
          epoch   : 0..AttemptBound,
          expires : -ClockLag..LeaseTTL]

NoLease == [worker |-> NoWorker, token |-> 0, epoch |-> 0, expires |-> 0]

TaskRecord == [status       : TaskStatus,
               attemptCount : 0..AttemptBound,
               wait         : -ClockLag..RetryDelay,
               lease        : Lease]

\* pc: polling for a task, running the handler, running it after a failed
\* heartbeat canceled it, about to report the handler's result, stopped.
WorkerRecord == [pc : {"idle", "executing", "lost", "returned", "down"},
                 task : Task \cup {NoTask}, lease : Lease, result : Verdict]

Unoccupied(pc) ==
    [pc |-> pc, task |-> NoTask, lease |-> NoLease, result |-> "none"]

TypeOK ==
    /\ task \in [Task -> TaskRecord]
    /\ attempt \in [Task -> [Attempts -> AttemptStatus]]
    /\ seen \in [Task -> BOOLEAN]
    /\ fenced \in SUBSET Task
    /\ runDone \in [Task -> BOOLEAN]
    /\ worker \in [Worker -> WorkerRecord]
    /\ verdict \in [Task -> [Attempts -> Verdict]]

Init ==
    /\ task = [t \in Task |-> [status |-> "absent", attemptCount |-> 0,
                               wait |-> 0, lease |-> NoLease]]
    /\ attempt = [t \in Task |-> [n \in Attempts |-> "none"]]
    /\ seen = [t \in Task |-> FALSE]
    /\ fenced = {}
    /\ runDone = [t \in Task |-> FALSE]
    /\ worker = [w \in Worker |-> Unoccupied("idle")]
    /\ verdict = [t \in Task |-> [n \in Attempts |-> "none"]]

-----------------------------------------------------------------------------
(* Helpers of the store *)

\* A write of the task row: updateTaskVersion stores the new version, so no
\* client holds the current one any more.
Update(t, status, attemptCount, wait, lease) ==
    /\ task' = [task EXCEPT ![t] = [status |-> status, attemptCount |-> attemptCount,
                                   wait |-> wait, lease |-> lease]]
    /\ seen' = [seen EXCEPT ![t] = FALSE]

\* updateAttempt: the row of the task's latest attempt.
UpdateAttempt(t, status) ==
    attempt' = [attempt EXCEPT ![t][task[t].attemptCount] = status]

AttemptsLeftPlusOne(t) ==
    MaxAttempts[t] = 0 \/ task[t].attemptCount <= MaxAttempts[t]

\* Attempts remain, or there is no limit on them.
AttemptsLeft(t) ==
    MaxAttempts[t] = 0 \/ task[t].attemptCount < MaxAttempts[t]

ClaimableBeforeExpiry(t, lag) ==
    /\ \/ task[t].status = "queued" /\ task[t].wait + lag <= 0
       \/ task[t].status = "running" /\ task[t].lease.expires + lag <= 1
    /\ t \notin fenced
    /\ AttemptsLeft(t)

ClaimableWhenFenced(t, lag) ==
    /\ \/ task[t].status = "queued" /\ task[t].wait + lag <= 0
       \/ task[t].status = "running" /\ task[t].lease.expires + lag <= 0
    /\ AttemptsLeft(t)

ClaimableOnlyQueued(t, lag) ==
    /\ task[t].status = "queued" /\ task[t].wait + lag <= 0
    /\ t \notin fenced
    /\ AttemptsLeft(t)

\* The rows selectClaimableTask may return.  Its ORDER BY compares nanosecond
\* timestamps; at the resolution of a tick any of the rows can be the first.
Claimable(t, lag) ==
    /\ \/ task[t].status = "queued" /\ task[t].wait + lag <= 0
       \/ task[t].status = "running" /\ task[t].lease.expires + lag <= 0
    /\ t \notin fenced
    /\ AttemptsLeft(t)

ValidLeaseByEpoch(t, lease, lag) ==
    /\ task[t].status = "running"
    /\ task[t].lease.epoch = lease.epoch
    /\ task[t].lease.expires + lag > 0

\* validateTaskLease: the caller's lease is the task's, and has not expired.
ValidLease(t, lease, lag) ==
    /\ task[t].status = "running"
    /\ task[t].lease.token # 0
    /\ task[t].lease.worker = lease.worker
    /\ task[t].lease.token = lease.token
    /\ task[t].lease.epoch = lease.epoch
    /\ task[t].lease.expires + lag > 0

AttemptsWithoutAbandon(t, n) ==
    [attempt[t] EXCEPT ![n] = "running"]

\* The attempts of t once attempt n is claimed: insertAttempt, and
\* abandonRunningAttempt when the claim takes over a lease.
ClaimedAttempts(t, n) ==
    [m \in Attempts |->
        IF m = n THEN "running"
        ELSE IF m = n - 1 /\ task[t].lease.token # 0 THEN "abandoned"
        ELSE attempt[t][m]]

RenewedFromExpiry(lease, lag) == [lease EXCEPT !.expires = @ + LeaseTTL - lag]

\* The lease after a heartbeat: now + TTL by the clock of the caller.
Renewed(lease, lag) == [lease EXCEPT !.expires = LeaseTTL - lag]

\* The status failWithCommit gives a task: back to the queue, out of attempts,
\* or failed for good.
FailedStatus(t, result) ==
    CASE result = "retry" /\ AttemptsLeft(t) -> "queued"
      [] ~AttemptsLeft(t) -> "dead"
      [] OTHER -> "failed"

MayCompletePaused(t) == TRUE

\* completeWithCommit accepts a graph.run task only with its run over.
MayComplete(t) == t \in GraphRun => runDone[t]

CancelableWhenDone(t) == task[t].status \notin {"absent", "canceled"}

\* Cancel leaves completed and canceled tasks as they are.
Cancelable(t) == task[t].status \notin {"absent", "completed", "canceled"}

-----------------------------------------------------------------------------
(* Clients of the queue and the run they queue *)

Enqueue(t) ==
    /\ task[t].status = "absent"
    /\ t \notin fenced
    /\ Update(t, "queued", 0, 0, NoLease)
    /\ UNCHANGED <<attempt, fenced, runDone, worker, verdict>>

\* GetTask by a client that may cancel the task later.
ReadTask(t) ==
    /\ task[t].status # "absent"
    /\ ~seen[t]
    /\ seen' = [seen EXCEPT ![t] = TRUE]
    /\ UNCHANGED <<task, attempt, fenced, runDone, worker, verdict>>

\* Cancel with the version the client read.
Cancel(t) ==
    /\ seen[t]
    /\ t \notin fenced
    /\ Cancelable(t)
    /\ Update(t, "canceled", task[t].attemptCount, task[t].wait, NoLease)
    /\ IF task[t].attemptCount > 0
          THEN UpdateAttempt(t, "canceled")
          ELSE UNCHANGED attempt
    /\ UNCHANGED <<fenced, runDone, worker, verdict>>

\* The run reaches completed, failed or canceled: by its executor or by a
\* control request.
RunTerminates(t) ==
    /\ task[t].status # "absent"
    /\ ~runDone[t]
    /\ runDone' = [runDone EXCEPT ![t] = TRUE]
    /\ UNCHANGED <<task, attempt, seen, fenced, worker, verdict>>

\* The deletion of the run fences it (a paused or terminal run is deletable).
FenceRunDeletion(t) ==
    /\ task[t].status # "absent"
    /\ t \notin fenced
    /\ fenced' = fenced \cup {t}
    /\ UNCHANGED <<task, attempt, seen, runDone, worker, verdict>>

-----------------------------------------------------------------------------
(* Workers *)

Claim(w, t) ==
    /\ worker[w].pc = "idle"
    /\ task[t].attemptCount < AttemptBound
    /\ \E lag \in 0..ClockLag :
        /\ Claimable(t, lag)
        /\ LET n == task[t].attemptCount + 1
               lease == [worker |-> w, token |-> n,
                         epoch |-> task[t].lease.epoch + 1,
                         expires |-> LeaseTTL - lag]
           IN  /\ Update(t, "running", n, task[t].wait, lease)
               /\ attempt' = [attempt EXCEPT ![t] = ClaimedAttempts(t, n)]
               /\ worker' = [worker EXCEPT ![w] =
                    [pc |-> "executing", task |-> t, lease |-> lease,
                     result |-> "none"]]
    /\ UNCHANGED <<fenced, runDone, verdict>>

\* Claim returned an error other than ErrTaskNotFound: Run returns, and nothing
\* starts the worker of this process again.
ClaimError(w) ==
    /\ worker[w].pc = "idle"
    /\ worker' = [worker EXCEPT ![w] = Unoccupied("down")]
    /\ UNCHANGED <<task, attempt, seen, fenced, runDone, verdict>>

Heartbeat(w) ==
    LET t == worker[w].task IN
    /\ worker[w].pc = "executing"
    /\ t \notin fenced
    /\ \E lag \in 0..ClockLag :
        /\ ValidLease(t, worker[w].lease, lag)
        /\ LET lease == Renewed(task[t].lease, lag)
           IN  /\ Update(t, "running", task[t].attemptCount, task[t].wait, lease)
               /\ worker' = [worker EXCEPT ![w].lease = lease]
    /\ UpdateAttempt(t, "running")
    /\ UNCHANGED <<fenced, runDone, verdict>>

\* Heartbeat returned an error (the lease is gone, the run is fenced, the
\* database failed): the handler's context is canceled.
HeartbeatError(w) ==
    /\ worker[w].pc = "executing"
    /\ worker' = [worker EXCEPT ![w].pc = "lost"]
    /\ UNCHANGED <<task, attempt, seen, fenced, runDone, verdict>>

\* HandleTask returns a result, a retryable error or another error.  After a
\* heartbeat error execute drops it and the worker polls again.
HandlerReturns(w, result) ==
    LET t == worker[w].task IN
    /\ worker[w].pc \in {"executing", "lost"}
    /\ worker' = [worker EXCEPT ![w] =
                    IF @.pc = "lost"
                    THEN Unoccupied("idle")
                    ELSE [@ EXCEPT !.pc = "returned", !.result = result]]
    /\ verdict' = [verdict EXCEPT ![t][worker[w].lease.token] = result]
    /\ UNCHANGED <<task, attempt, seen, fenced, runDone>>

\* The completeWithCommit of a worker (commit = nil).  Complete reads the time
\* inside its transaction.
Complete(w) ==
    LET t == worker[w].task IN
    /\ worker[w].pc = "returned"
    /\ worker[w].result = "ok"
    /\ t \notin fenced
    /\ ValidLease(t, worker[w].lease, 0)
    /\ MayComplete(t)
    /\ Update(t, "completed", task[t].attemptCount, task[t].wait, NoLease)
    /\ UpdateAttempt(t, "completed")
    /\ worker' = [worker EXCEPT ![w] = Unoccupied("idle")]
    /\ UNCHANGED <<fenced, runDone, verdict>>

\* The failWithCommit of a worker: one transition, commit = nil.
Fail(w) ==
    LET t == worker[w].task
        status == FailedStatus(t, worker[w].result)
    IN
    /\ worker[w].pc = "returned"
    /\ worker[w].result \in {"retry", "fail"}
    /\ t \notin fenced
    /\ ValidLease(t, worker[w].lease, 0)
    /\ Update(t, status, task[t].attemptCount,
              IF status = "queued" THEN RetryDelay ELSE task[t].wait, NoLease)
    /\ UpdateAttempt(t, "failed")
    /\ worker' = [worker EXCEPT ![w] = Unoccupied("idle")]
    /\ UNCHANGED <<fenced, runDone, verdict>>

\* Complete or Fail returned an error; Run ignores what execute returns.
SettleError(w) ==
    /\ worker[w].pc = "returned"
    /\ worker' = [worker EXCEPT ![w] = Unoccupied("idle")]
    /\ UNCHANGED <<task, attempt, seen, fenced, runDone, verdict>>

\* The process of the worker dies, or its context is canceled.
Crash(w) ==
    /\ worker[w].pc \in {"executing", "lost", "returned"}
    /\ worker' = [worker EXCEPT ![w] = Unoccupied("down")]
    /\ UNCHANGED <<task, attempt, seen, fenced, runDone, verdict>>

\* A new process starts a worker: New and Run.
Restart(w) ==
    /\ worker[w].pc = "down"
    /\ worker' = [worker EXCEPT ![w] = Unoccupied("idle")]
    /\ UNCHANGED <<task, attempt, seen, fenced, runDone, verdict>>

-----------------------------------------------------------------------------
(* Time *)

Past(n) == IF n - 1 < -ClockLag THEN -ClockLag ELSE n - 1

Aged(lease) == [lease EXCEPT !.expires = Past(@)]

\* Only distances somebody can still observe move.
Tick ==
    /\ task' = [t \in Task |->
                  [status |-> task[t].status, attemptCount |-> task[t].attemptCount,
                   wait |-> IF task[t].status = "queued"
                            THEN Past(task[t].wait) ELSE task[t].wait,
                   lease |-> IF task[t].status = "running"
                             THEN Aged(task[t].lease) ELSE task[t].lease]]
    /\ worker' = [w \in Worker |->
                    IF worker[w].pc \in {"executing", "lost", "returned"}
                    THEN [worker[w] EXCEPT !.lease = Aged(@)]
                    ELSE worker[w]]
    /\ UNCHANGED <<attempt, seen, fenced, runDone, verdict>>

-----------------------------------------------------------------------------

WorkerStep(w) ==
    \/ \E t \in Task : Claim(w, t)
    \/ ClaimError(w)
    \/ Heartbeat(w)
    \/ HeartbeatError(w)
    \/ \E result \in {"ok", "retry", "fail"} : HandlerReturns(w, result)
    \/ Complete(w)
    \/ Fail(w)
    \/ SettleError(w)
    \/ Crash(w)
    \/ Restart(w)

ClientStep(t) ==
    \/ Enqueue(t)
    \/ ReadTask(t)
    \/ Cancel(t)
    \/ RunTerminates(t)
    \/ FenceRunDeletion(t)

Next ==
    \/ \E t \in Task : ClientStep(t)
    \/ \E w \in Worker : WorkerStep(w)
    \/ Tick

Spec == Init /\ [][Next]_vars

-----------------------------------------------------------------------------
(* Safety *)

Ledger(t) ==
    /\ task[t].status = "running" <=> task[t].lease.token # 0
    /\ task[t].status = "running" => task[t].lease.token = task[t].attemptCount
    /\ \A n \in Attempts :
        /\ attempt[t][n] = "none" <=> n > task[t].attemptCount
        /\ attempt[t][n] = "running" <=>
             task[t].status = "running" /\ n = task[t].attemptCount
        /\ n < task[t].attemptCount => attempt[t][n] \in {"failed", "abandoned"}
        /\ attempt[t][n] = "completed" <=>
             task[t].status = "completed" /\ n = task[t].attemptCount

\* The attempts table tells the task's story: attempts are numbered without a
\* gap, exactly the latest one runs and only while the task does, the lease of
\* a running task is the one its latest attempt was started with, and a task
\* with a result has that result on its latest attempt (Claim, Complete, Fail
\* and Cancel write the two tables separately).
AttemptLedger ==
    \A t \in Task : Ledger(t)

\* Fencing: an attempt is recorded completed or failed only if the handler of
\* that very attempt returned a result or an error.  A worker that lost its
\* lease to another one never reports for it, although epochs start again at 1
\* after a retry and so repeat (validateTaskLease).
OutcomeIntegrity ==
    \A t \in Task : \A n \in Attempts :
        /\ attempt[t][n] = "completed" => verdict[t][n] = "ok"
        /\ attempt[t][n] = "failed" => verdict[t][n] \in {"retry", "fail"}

\* A graph.run task is completed only when its run is over: a handler that
\* returned because the run paused does not complete the task.
CompletedRunIsTerminal ==
    \A t \in GraphRun : task[t].status = "completed" => runDone[t]

\* Mutual exclusion of leases as the workers see them: two workers never both
\* hold an unexpired lease of one task, each judging by the lease it was given
\* (heartbeats, takeover of an expired lease, stale clocks).
HoldsLease(w, t) ==
    /\ worker[w].pc \in {"executing", "returned"}
    /\ worker[w].task = t
    /\ worker[w].lease.expires > 0

LeaseExclusive ==
    \A t \in Task : \A v, w \in Worker :
        HoldsLease(v, t) /\ HoldsLease(w, t) => v = w

\* Nobody starts an attempt beyond MaxAttempts, retried or taken over, and a
\* task is dead only once the attempts are used up.
AttemptBudget ==
    \A t \in Task :
        /\ MaxAttempts[t] # 0 => task[t].attemptCount <= MaxAttempts[t]
        /\ task[t].status = "dead" => ~AttemptsLeft(t)

\* After the run of a task is fenced for deletion no call changes the task or
\* its attempts (ensureRunWritable in every method, NOT EXISTS in Claim).
FencedTaskIsFrozen ==
    [][\A t \in fenced : /\ task'[t].status = task[t].status
                         /\ task'[t].attemptCount = task[t].attemptCount
                         /\ attempt'[t] = attempt[t]]_vars

\* A result is final: a completed or canceled task never changes again, a
\* failed or dead one can only be canceled, and attempts before the latest
\* one keep their status.
HistoryIsStable ==
    [][\A t \in Task :
        /\ task[t].status \in {"completed", "canceled"} =>
             task'[t].status = task[t].status /\ attempt'[t] = attempt[t]
        /\ task[t].status \in {"failed", "dead"} =>
             task'[t].status \in {task[t].status, "canceled"}
        /\ \A n \in Attempts :
             n < task[t].attemptCount => attempt'[t][n] = attempt[t][n]]_vars

-----------------------------------------------------------------------------
(* Liveness *)

\* What the scheduler of the process and the passing of time guarantee:
\* handlers return, a result is reported or lost, a stopped worker's server is
\* restarted, and a polling worker that finds a task time and again claims it.
Fairness ==
    /\ WF_vars(Tick)
    /\ \A w \in Worker :
        /\ WF_vars(\E result \in {"ok", "retry", "fail"} : HandlerReturns(w, result))
        /\ WF_vars(Complete(w) \/ Fail(w) \/ SettleError(w))
        /\ WF_vars(Restart(w))
    /\ \A t \in Task : SF_vars(\E w \in Worker : Claim(w, t))

FairSpec == Spec /\ Fairness

\* The last attempt was lost: its lease ran out and the limit on attempts keeps
\* selectClaimableTask from returning the task again.
Stranded(t) ==
    /\ task[t].status = "running"
    /\ task[t].lease.expires <= 0
    /\ ~AttemptsLeft(t)

\* Every queued task gets a result, whatever crashes, lost heartbeats and
\* failed reports happen on the way, unless its run is deleted or the worker
\* of its last attempt is lost, which leaves it running for ever.
QueuedTaskIsServed ==
    \A t \in Task :
        task[t].status = "queued" ~>
            task[t].status \in Settled \/ t \in fenced \/ Stranded(t)
=============================================================================

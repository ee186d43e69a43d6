# A verification of WeaveFlow's runtime

WeaveFlow executes graphs of agent nodes. A graph *definition* is loaded into a
*session*; starting it creates a *run*, which is executed in *waves* of nodes and
persisted as it goes (run record, steps, checkpoints, events, artifacts), so that
it can be paused, resumed, canceled, taken over by another process after a crash,
and deleted. This directory holds TLA+ modules for the parts of that runtime where
several actors write the same durable state, TLC configurations that check them on
small instances, and TLAPS proofs for every value of the constants.

## Running it

    tlc -workers 2 -config TaskQueue_safety.cfg MCTaskQueue
    tlc -workers 2 -config RunExecution_takeover.cfg MCRunExecution
    tlapm TaskQueueInvariant.tla
    tlapm TaskQueueProofs.tla

`PROJECT.json` lists the runs, the source lines behind every definition, the
hazards, the mutants that show that each property can fail, and the theorems.

## The system and its parts

| Part | State it keeps | Operations | What makes it correct |
|---|---|---|---|
| Task queue (`runtimestore/sqlite/queue.go`) | tasks with version, attempt count, lease; attempts; deletion fences | Enqueue, Claim, Heartbeat, Complete, Fail, Cancel, GetTask, FenceRunDeletion | one unexpired lease per task; only the handler of an attempt decides its outcome; tables agree; attempt limit; nothing is forgotten |
| Worker (`internal/worker`) | the task and lease in hand | poll, execute, heartbeat goroutine, report | a lost lease silences it; it comes back after errors |
| Run execution (`runtime/graph_runner*.go`, `graph_runtime.go`) | the run record with status, requests, revision, lease; checkpoints; per process the active executions | Start, EnqueueStart, Resume, ResumeFromCheckpoint, node and wave commits, complete, fail, cancel, pause | one execution writes at a time; no request is lost; a finished run stays finished |
| Execution lease (`execution_lease.go`, `graph_runner_lease.go`) | owner, token, epoch, expiry in the run record | acquire, heartbeat, release | tokens are unique; a stale guard is refused |
| Run control (`run_control.go`) | none | CancelPausedRun, MarkRunExecutionLost | never behind the back of an owner |
| Run deletion (`run_deletion.go`) | reservation in every run of a tree, plan, manifest with phases | DeleteRun, ReconcileRunDeletions | all or nothing for a tree, from any crash point; nobody writes a reserved run |
| Child runs (`graph_runner.go`, `node/subgraph.go`) | pending reservation and child IDs on the parent | RunChild, reserve, finalise, resume | exactly one child per request, also after a crash |
| Stores (memory, `runtimestore/file`, `runtimestore/sqlite`) | records, journal (file), tables (SQLite) | Commit, CompareAndSwapRun, recovery | a commit is atomic, revisions are compared, recovery undoes nothing that was acknowledged |
| Scheduler (`graph/scheduler.go`) | ready tasks, pending fan-ins, attempts of nodes | waves, commands, failure routes, timeouts, retries | no fan-in too early, none never; one outcome per attempt |
| State merge (`state/parallel_merge.go`) | none (pure) | merge of patches | independent of the order of branches, or a conflict |
| Effects (`effect_resolution.go`) | effect status of a step | resolve | an unknown effect is not repeated silently |
| Server (`internal/server`) | sessions, cached graphs, event hub | control handlers, reconciliation, worker start, SSE | a run that is alive is not marked lost; replay without gaps |
| Triggers, chat channels (`internal/trigger`, `internal/chatchannel`) | trigger records, conversations | schedules, webhooks, messages | one run per event |

How they interact. The server starts a run directly, or enqueues a `graph.run` task
in the transaction that creates the pending run (EnqueueStart); a worker claims the
task and calls Resume. An execution takes the lease in the run record, renews it
from a goroutine of its own, and commits each step with its guard (token and epoch)
and the revision it read. Clients reach an execution in the same process through
memory and the run record; other processes only through the record. Deletion
reserves the record and fences the queue.

What is hard. Everything that reads a record, computes, and commits later; two
clocks that disagree on expiry; crashes between two commits; requests that arrive
while an execution is about to end; retries that are limited; recovery that runs
twice. The list, at its lines, is `hazards` in `PROJECT.json`.

## Modules

### TaskQueue

The SQLite queue and the workers that drain it. Every queue method runs in one
database transaction and is one action; everything a worker does between two calls
(the handler, the heartbeat goroutine, dying) is separate.

| Variable | In the code |
|---|---|
| `task` | row of `tasks`: status, attempt_count, available_at (`wait`), lease |
| `attempt` | rows of `attempts`, by task and number |
| `seen` | whether a canceling client holds the current Version |
| `fenced` | `run_deletion_fences` |
| `runDone` | the run of a graph.run task is completed, failed or canceled |
| `worker` | what `Worker.execute` has in its local variables |
| `verdict` | history variable: what the handler of each attempt returned |

Time is kept as the distance to now, so that the state space is finite: `Tick`
moves leases and delays towards the past. `ClockLag` is how old the time is that a
worker read before its transaction began. The lease token, a UUID in the code, is
the attempt number, which is as unique; the epoch is kept as the code computes it
(it starts again at 1 after a retry). The order in which equally claimable tasks
are taken is left open. `Stranded` names the state that QueuedTaskIsServed excepts:
the worker of the last attempt is lost, and line 605 of queue.go keeps everybody
from claiming the task again.

Reads of the queue that change nothing (lists, attempts of a task) are left out, as
are the commits of the runner that ride on Enqueue, Complete and Fail; a commit that
fails makes the whole call fail, which is SettleError.

### RunExecution

One run: its record, the processes that execute it, the clients that control it.

| Variable | In the code |
|---|---|
| `run` | RunRecord: Status, PauseRequested, CancelRequested, stage of LastCheckpointID, ExecutionLease, Deletion |
| `expires` | ticks until ExecutionLease.ExpiresAt |
| `checkpoints` | stages of the checkpoints saved so far |
| `exec` | per process: where its goroutine is, its guard, `e.run` (`local`), the record its current loop read (`seen`), conflicts so far |
| `client` | a call of Pause, Cancel, CancelPausedRun, MarkRunExecutionLost or DeleteRun |
| `current` | the actors whose snapshot has the record's Revision |

Every writer of the record runs the loop of commitRunUpdateWithRetry or a copy of
it. The read (`Load`, `ReadRun`, `Resume`) and the commit (`CompleteRun`,
`PauseRun`, `PersistRequest`, ...) are two actions; in between everybody else may
write. A commit is refused by a stale revision (`Conflict`, a new read, at most
RetryLimit times), by a lost lease or a deletion reservation (`Rejected`); a loop may
find nothing to do (`Leave`). `exec[p].pc` is `between` two nodes, in a `node`, in a loop
inside execute (`update`) or in one before or after it (`outside`); `Registered`
is membership in activeExecutions. `ProgressInFlight` and `RequestInFlight` are
runPersistMu.

Abstractions, and why they are sound:

- A revision is a number only compared for equality with the stored one, so the set
  of up-to-date snapshots says the same. The lease token is the epoch, which the
  record increments with every acquisition.
- A wave is a single node. Nodes of a wave in parallel share runPersistMu, so their
  commits come one after the other, with the same checks.
- The heartbeat's loop is one step: if its compare-and-swap succeeds, nothing was
  written since its read; if it fails it only cancels the context, and a node may
  fail at any time anyway. A Heartbeat outdates the snapshots of the others like
  every write.
- The decision what to do next is taken with the read that follows it; it uses
  nothing the record holds.
- pauseRun saves a checkpoint in a commit that only checks the record
  (RunWriteCheck) before its loop; here it is part of the pause.
- The store's own errors (disk, database) are left out, with failAsyncExecution,
  which handles them. So are the inherited guard of ensureExecutionLease (child
  runs), persistReservedControlRequest (it needs an execution that is active and not
  registered, and both questions read the same map), effects and retention.
- A terminal run that is continued from a checkpoint other than a wave barrier
  becomes a new run, which is another instance of the module; Admit ends there.
- `Reopening` says whether resumption of terminal runs is explored, `EpochBound` how
  many acquisitions are.

## What the runs show

| Run | Instance | States | Shows |
|---|---|---|---|
| task_queue_safety | 1 task, 2 workers, 3 attempts allowed, up to 4 explored, TTL 2, delay 1, lag 1 | 180 k | AttemptLedger, OutcomeIntegrity, CompletedRunIsTerminal, LeaseExclusive, AttemptBudget, FencedTaskIsFrozen, HistoryIsStable |
| task_queue_liveness | 2 attempts, TTL 1, lag 0 | 12 k | QueuedTaskIsServed |
| run_execution_takeover | 2 processes, 1 client, TTL 1, 2 acquisitions, no retry after a conflict | 1.15 M | GuardsAreUnique, OwnedRunIsRunning, StaleExecutorsAreSilent, DeletionFreezes |
| run_execution_control | 1 process, 1 client, TTL 2, lag 1, 3 acquisitions, 1 retry, reopening | 730 k | CancelWins, PauseIsNotOvertaken, FinishedRunIsReopenedKnowingly |
| run_execution_liveness | 1 process, 1 client, TTL 1, 2 acquisitions, 1 retry, reopening | 200 k | RequestIsAnswered |
| concurrent_resume | 2 processes, no client, reopening | violated | AtMostOneExecutor |
| cancel_terminal | as run_execution_control | violated | CancelIsTerminal |

The bounds. Tasks do not influence each other in the queue, so one suffices for what
the properties say; two workers are needed for a takeover, and two more attempts for
a takeover followed by a retry, the case where epochs repeat. One process can hold
several executions of a run one after the other, which is enough for the requests;
two are needed for takeovers. One conflict and one retry show a recomputation; the
code's eight only make giving up rarer, and giving up is explored. Symmetry is used
for workers and for processes in safety runs only.

concurrent_resume checks no deadlock: with no client and all acquisitions used up, a
crashed run has no step left, which is the bound's doing.

### Disagreements

- **concurrent_resume.** `acquireExecutionLease` hands out a terminal run without a
  lease (graph_runner_lease.go:54). Two calls of Resume on a finished run with a wave
  checkpoint both set it to running and execute it; neither has a guard and no lease
  is active, so the store accepts both. The test
  TestRunnerRejectsConcurrentResumeOfSameRun asks for ErrExecutionLeaseHeld; it
  resumes a paused run, where that is what happens.
- **cancel_terminal.** A canceled run with a wave checkpoint is resumed and runs again
  (graph_runner.go:1408). The observability guide says "Cancel is terminal". That
  completed and failed runs can be reopened from a wave barrier is intended and
  tested; FinishedRunIsReopenedKnowingly says what still holds.

FinishedRunIsReopenedKnowingly has one exception, in its statement: an execution
without a lease that has a pause or cancel in memory settles a run that
MarkRunExecutionLost already failed, since completeRun and
persistRunFailureWithTransition look at requests before the status.

### Fairness

- TaskQueue: time passes; handlers return; a result is reported or the report fails;
  a stopped worker's server is started again; and a task that workers find claimable
  again and again is claimed (strong fairness of Claim per task: the query orders
  tasks by availability, and a poll repeats). Heartbeats, crashes, cancels and fences
  are free to happen or not.
- RunExecution: nodes return and loops go on, clients finish the calls they made
  (strong fairness, because a loop waits for runPersistMu and a Go mutex in
  starvation mode serves its waiters in turn), and a retry of an acquisition reads
  again. Heartbeats, crashes, new calls and time are not obliged to happen.
  RequestIsAnswered does not claim that a request survives the execution: if the
  owner crashes or gives up, the request stays in the record until somebody resumes
  the run or marks it lost.

## What is proved

TaskQueueInvariant and TaskQueueProofs, for any sets of tasks and workers, any attempt
limits, any TTL larger than the clock lag, any delay (TaskQueueAssumption):

| Theorem | States |
|---|---|
| TypeCorrect | `Spec => []TypeOK` |
| LedgerConsistent | `Spec => []AttemptLedger` |
| OutcomeIsTheHandlers | `Spec => []OutcomeIntegrity` |
| RunOverWhenCompleted | `Spec => []CompletedRunIsTerminal` |
| BudgetKept | `Spec => []AttemptBudget` |
| MutualExclusion | `Spec => []LeaseExclusive` |
| FenceFreezes | `Spec => FencedTaskIsFrozen` |

None of the invariants is inductive alone. The strengthening `IInv` adds what a worker
knows of its attempt (`WorkerInv`): the attempt is its own and not yet recorded as
completed or failed, the verdict in its hand is the one in the history, and its copy
of the lease equals the task's or has expired. The last is what makes mutual
exclusion work with stale clocks: a takeover happens only when the lease has
expired by a clock that is at most as late as the true time, hence also in the old
owner's copy. `DistinctInv` says that no two workers execute one attempt, `LeaseInv`
that a lease implies a running task and that epochs never pass the attempt count,
`IdleInv` that a worker forgets its task. TaskQueueInvariant has one lemma per action
of clients and of workers that hold a lease; TaskQueueProofs adds Claim and Tick, the
actions that touch several workers' leases at once, and draws the conclusions.

Only model-checked: HistoryIsStable, everything about RunExecution, and the liveness
properties, which are out of the prover's reach (fairness and ENABLED).

## Plan

In this order; each module says which earlier one it uses.

1. *Done.* TaskQueue with its proofs; RunExecution.
2. RunExecution, proofs. Inductive invariant: every guard is at most the record's
   epoch, guards are distinct, an up-to-date snapshot equals the record up to the
   requests the execution added. From it TypeOK, GuardsAreUnique,
   StaleExecutorsAreSilent, DeletionFreezes, then CancelWins.
3. RunLifecycle, the abstract specification of a run as its clients see it (absent,
   active with requests, paused, over, deleted), and RunExecution shown to
   implement it, first with TLC, then with TLAPS.
4. FileTransaction: the journal of the file store, a commit as a sequence of file
   writes, crashes after each of them, recovery that may crash too, and
   CompareAndSwapRun beside it. Abstract specification: a store whose commits are
   atomic. Theorem: recovery leaves either all or nothing of a commit.
5. DurableRun composes TaskQueue and RunExecution through HandleTask: a paused run and
   its redelivered task, a run that fails while its task is claimed, a run marked lost
   before its worker arrives. Liveness: an enqueued run is finished, paused or
   reported dead.
6. ChildRun: reservation, creation, finalisation with crashes between them, the
   recursion of cancelPausedRun; one child per request.
7. RunDeletion: a tree of runs, the phases of the manifest, reconciliation after
   a crash at any point, a child that is created meanwhile (composed with ChildRun).
8. Scheduler: waves, fan-in, failure routes on small graphs; NodeAttempt: the race of
   timeout and result; ParallelMerge: the merge against a reference definition.
9. EventHub (replay and live events), triggers (one run per event), concurrency limits.

Bounds for these: two or three runs in a tree, graphs of up to four nodes, transactions
of two files, two deliveries of a task.

## Not modelled

HTTP handlers, graph definitions and their static validation, what single nodes,
tools and models compute, memory retrieval, the assistant, chat protocols, the web
interface and the website: input and output, or sequential code without shared
state. Everything else that `components` lists as not modelled is in the plan.

----------------------------- MODULE DurableRun -----------------------------
(***************************************************************************)
(* Queued runs of one graph as the server executes them: the trigger that  *)
(* enqueues a run with its task, the worker the runtime manager starts for *)
(* the graph, HandleTask, the user's controls, the reconciliation that     *)
(* every listing of runs makes, uploads of newer sessions, the deletion of *)
(* the graph, and the restart of the server with the SQLite backend        *)
(* (internal/server graph_runtime_manager.go, trigger_runtime.go,          *)
(* config.go, graph_cache.go, run_handlers.go, graph_deletion.go).         *)
(*                                                                         *)
(* The queue and the run record are those of TaskQueue and RunExecution,   *)
(* reduced to what crosses between them: a live process keeps its leases,  *)
(* and those of a dead process have expired when somebody looks at them;   *)
(* the limit on a task's attempts is left to TaskQueue.                    *)
(***************************************************************************)
EXTENDS Integers, FiniteSets

CONSTANTS DuRuns,          \* runs the triggers enqueue
          DuSessionBound,  \* bound: sessions uploaded
          DuCrashBound,    \* bound: crashes of the server
          DuDeleteBound,   \* bound: deletions of the graph
          DuControlBound   \* bound: pauses and cancels of one run by its user

VARIABLES duRun,   \* run records
          duTask,  \* status of each run's task
          duExec,  \* who executes the run in this process
          duSrv,   \* the runtime manager
          duWork,  \* what the worker is doing
          duLeft   \* what may still happen to the server

duVars == <<duRun, duTask, duExec, duSrv, duWork, duLeft>>

NoDuRun == [st |-> "none", sid |-> 0, old |-> FALSE, controls |-> 0]
DuIdle == [at |-> "idle", run |-> "none", verdict |-> "none"]
DuTerminal == {"completed", "failed", "canceled"}

DuInit ==
  /\ duRun = [r \in DuRuns |-> NoDuRun]
  /\ duTask = [r \in DuRuns |-> "none"]
  /\ duExec = [r \in DuRuns |-> "none"]
  /\ duSrv = [up |-> TRUE, latest |-> 1, stored |-> {1}, loaded |-> {1}, worker |-> "live"]
  /\ duWork = DuIdle
  /\ duLeft = [crashes |-> DuCrashBound, deletes |-> DuDeleteBound]

----------------------------------------------------------------------------
(* Triggers and uploads.                                                    *)

(* ensureWorker: the entry of a worker that has ended still counts.         *)
WorkerEnsured(worker) == IF worker = "none" THEN "live" ELSE worker

(* resolveTriggerRunner and EnqueueStart: run and task in one transaction.  *)
DuEnqueue(r) ==
  /\ duSrv.up /\ duSrv.latest \in duSrv.stored /\ duRun[r].st = "none"
  /\ duRun' = [duRun EXCEPT ![r] = [NoDuRun EXCEPT !.st = "pending", !.sid = duSrv.latest]]
  /\ duTask' = [duTask EXCEPT ![r] = "queued"]
  /\ duSrv' = [duSrv EXCEPT !.loaded = @ \cup {duSrv.latest},
                            !.worker = WorkerEnsured(@)]
  /\ UNCHANGED <<duExec, duWork, duLeft>>

(* A newer session, loaded as it is installed.                              *)
DuUpload ==
  /\ duSrv.up /\ duSrv.latest < DuSessionBound
  /\ LET sid == duSrv.latest + 1 IN
       duSrv' = [duSrv EXCEPT !.latest = sid, !.stored = @ \cup {sid},
                              !.loaded = @ \cup {sid}]
  /\ UNCHANGED <<duRun, duTask, duExec, duWork, duLeft>>

(* runExecutionRegistrationGracePeriod passes.                              *)
DuAge(r) ==
  /\ duRun[r].st # "none" /\ ~duRun[r].old
  /\ duRun' = [duRun EXCEPT ![r].old = TRUE]
  /\ UNCHANGED <<duTask, duExec, duSrv, duWork, duLeft>>

----------------------------------------------------------------------------
(* The worker.                                                              *)

(* Claim: a queued task, or one whose lease nobody renews any more.         *)
DuClaim(r) ==
  /\ duSrv.up /\ duSrv.worker = "live" /\ duWork = DuIdle
  /\ duTask[r] \in {"queued", "leased"}
  /\ duTask' = [duTask EXCEPT ![r] = "leased"]
  /\ duWork' = [at |-> "read", run |-> r, verdict |-> "none"]
  /\ UNCHANGED <<duRun, duExec, duSrv, duLeft>>

(* HandleTask's checks on the session and on the run it reads.              *)
ReadVerdict(r) ==
  CASE duRun[r].sid \notin duSrv.loaded -> "fail"
    [] duRun[r].st \in DuTerminal -> "complete"
    [] OTHER -> "none"

DuHandleTask(r) ==
  /\ duSrv.up /\ duWork.at = "read" /\ duWork.run = r
  /\ duWork' = [duWork EXCEPT !.verdict = ReadVerdict(r),
                              !.at = IF ReadVerdict(r) = "none" THEN "resume" ELSE "report"]
  /\ UNCHANGED <<duRun, duTask, duExec, duSrv, duLeft>>


(* The execution lease is held by another execution of this process.        *)
LeaseHeld(r) == duExec[r] # "none"

(* Resume reads the run again: a held lease is retried, a run that ended    *)
(* since is continued as a new run, which is not this one's.                *)
DuResume(r) ==
  /\ duSrv.up /\ duWork.at = "resume" /\ duWork.run = r
  /\ \/ /\ LeaseHeld(r)
        /\ duWork' = [duWork EXCEPT !.at = "report", !.verdict = "retry"]
        /\ UNCHANGED <<duRun, duExec>>
     \/ /\ ~LeaseHeld(r) /\ duRun[r].st \in DuTerminal
        /\ duWork' = [duWork EXCEPT !.at = "report", !.verdict = "complete"]
        /\ UNCHANGED <<duRun, duExec>>
     \/ /\ ~LeaseHeld(r) /\ duRun[r].st \notin DuTerminal
        /\ duRun' = [duRun EXCEPT ![r].st = "running"]
        /\ duExec' = [duExec EXCEPT ![r] = "worker"]
        /\ duWork' = [duWork EXCEPT !.at = "running"]
  /\ UNCHANGED <<duTask, duSrv, duLeft>>

(* The execution ends; a pause ends it too, without an error.               *)
DuRunEnds(r, st) ==
  /\ duSrv.up /\ duExec[r] # "none" /\ duRun[r].st = "running"
  /\ duRun' = [duRun EXCEPT ![r].st = st]
  /\ duExec' = [duExec EXCEPT ![r] = "none"]
  /\ duWork' = IF duExec[r] = "worker"
                 THEN [duWork EXCEPT !.at = "report", !.verdict = "complete"] ELSE duWork
  /\ UNCHANGED <<duTask, duSrv, duLeft>>

(* Mutant: Complete that does not look at the run.                          *)
CompletedAlways(r) == "completed"

(* Complete refuses a run that is not over, and the worker drops the error. *)
TaskCompleted(r) == IF duRun[r].st \in DuTerminal THEN "completed" ELSE duTask[r]

DuReport(r) ==
  /\ duSrv.up /\ duWork.at = "report" /\ duWork.run = r
  /\ duTask' = [duTask EXCEPT ![r] =
        CASE duWork.verdict = "complete" -> TaskCompleted(r)
          [] duWork.verdict = "retry" -> "queued"
          [] OTHER -> "failed"]
  /\ duWork' = DuIdle
  /\ UNCHANGED <<duRun, duExec, duSrv, duLeft>>

----------------------------------------------------------------------------
(* The user, and the listing of runs.                                       *)

(* Mutant: a reconciliation that trusts the age alone.                      *)
OldIsLost(r) == duRun[r].old

(* Pending or running, past the grace period, and neither executed in this  *)
(* process nor leased.                                                      *)
LooksLost(r) == duExec[r] = "none" /\ duRun[r].old

(* reconcileCachedRuns on every listing, runControlRunner on every control: *)
(* MarkRunExecutionLost.                                                    *)
DuReconcile(r) ==
  /\ duSrv.up /\ duRun[r].st \in {"pending", "running"} /\ LooksLost(r)
  /\ duRun' = [duRun EXCEPT ![r].st = "failed"]
  /\ UNCHANGED <<duTask, duExec, duSrv, duWork, duLeft>>

(* handlePauseRun and handleCancelRun on an execution of this process.      *)
DuControl(r, st) ==
  /\ duRun[r].controls < DuControlBound
  /\ duSrv.up /\ duExec[r] # "none" /\ duRun[r].st = "running"
  /\ duRun' = [duRun EXCEPT ![r].st = st, ![r].controls = @ + 1]
  /\ duExec' = [duExec EXCEPT ![r] = "none"]
  /\ duWork' = IF duExec[r] = "worker"
                 THEN [duWork EXCEPT !.at = "report", !.verdict = "complete"] ELSE duWork
  /\ UNCHANGED <<duTask, duSrv, duLeft>>

(* handleResumeRun: the session is loaded and the run resumed in the        *)
(* request's goroutine.                                                     *)
DuUserResumes(r) ==
  /\ duSrv.up /\ duRun[r].st = "paused" /\ ~LeaseHeld(r)
  /\ duRun[r].sid \in duSrv.stored
  /\ duRun' = [duRun EXCEPT ![r].st = "running"]
  /\ duExec' = [duExec EXCEPT ![r] = "user"]
  /\ duSrv' = [duSrv EXCEPT !.loaded = @ \cup {duRun[r].sid}]
  /\ UNCHANGED <<duTask, duWork, duLeft>>

(* Mutant: a deletion that leaves the sessions in the manager.              *)
UndeployedStillLoaded ==
  [duSrv EXCEPT !.stored = {}, !.worker = IF @ = "live" THEN "ended" ELSE @]

Undeployed ==
  [duSrv EXCEPT !.stored = {}, !.loaded = {}, !.worker = IF @ = "live" THEN "ended" ELSE @]

(* handleDeleteGraph: refused while runs are active; the store is closed    *)
(* and removed, the worker's next claim fails and ends it, its entry stays. *)
DuDeleteGraph ==
  /\ duSrv.up /\ duLeft.deletes > 0 /\ duSrv.stored # {}
  /\ \A r \in DuRuns : duExec[r] = "none"
  /\ duRun' = [r \in DuRuns |-> NoDuRun]
  /\ duTask' = [r \in DuRuns |-> "none"]
  /\ duSrv' = Undeployed
  /\ duWork' = DuIdle
  /\ duLeft' = [duLeft EXCEPT !.deletes = @ - 1]
  /\ UNCHANGED duExec

DuCrash ==
  /\ duSrv.up /\ duLeft.crashes > 0
  /\ duSrv' = [duSrv EXCEPT !.up = FALSE, !.loaded = {}, !.worker = "none"]
  /\ duExec' = [r \in DuRuns |-> "none"]
  /\ duWork' = DuIdle
  /\ duLeft' = [duLeft EXCEPT !.crashes = @ - 1]
  /\ UNCHANGED <<duRun, duTask>>

(* Mutant: a server that starts workers only when a trigger fires.          *)
StartedIdle == [duSrv EXCEPT !.up = TRUE]

(* Mutant: workers that start before any session is loaded.                 *)
StartedUnloaded == [duSrv EXCEPT !.up = TRUE, !.worker = "live"]

(* startDurableWorkers: the latest session of every stored graph is loaded  *)
(* and its worker started.                                                  *)
Started ==
  IF duSrv.stored = {} THEN [duSrv EXCEPT !.up = TRUE]
  ELSE [duSrv EXCEPT !.up = TRUE, !.loaded = {duSrv.latest}, !.worker = "live"]

DuRestart ==
  /\ ~duSrv.up
  /\ duSrv' = Started
  /\ UNCHANGED <<duRun, duTask, duExec, duWork, duLeft>>

----------------------------------------------------------------------------
DuWorker ==
  \/ DuRestart
  \/ \E r \in DuRuns : DuClaim(r) \/ DuHandleTask(r) \/ DuResume(r) \/ DuReport(r)

DuExecution == \E r \in DuRuns, st \in {"completed", "failed"} : DuRunEnds(r, st)

DuNext ==
  \/ DuUpload \/ DuDeleteGraph \/ DuCrash \/ DuWorker \/ DuExecution
  \/ \E r \in DuRuns :
       \/ DuEnqueue(r) \/ DuAge(r) \/ DuReconcile(r) \/ DuUserResumes(r)
       \/ \E st \in {"paused", "canceled"} : DuControl(r, st)

----------------------------------------------------------------------------
(* Types, and the worker executing exactly the run it holds.                *)
DuTypeOK ==
  /\ \A r \in DuRuns :
       /\ duRun[r].st \in {"none", "pending", "running", "paused"} \cup DuTerminal
       /\ duTask[r] \in {"none", "queued", "leased", "completed", "failed"}
       /\ (duRun[r].st = "none") <=> (duTask[r] = "none")
       /\ (duExec[r] = "worker") <=> (duWork.at = "running" /\ duWork.run = r)
  /\ duSrv.loaded \subseteq duSrv.stored

(* A task is completed only when its run is over: pauses, redeliveries and  *)
(* the user's own resumptions in between do not end it early.               *)
CompletedTaskRunIsOver ==
  \A r \in DuRuns : duTask[r] = "completed" => duRun[r].st \in DuTerminal

(* The worker's delivery and the user's resumption never execute a run at   *)
(* the same time, and a run under execution is never judged lost.           *)
ExecutedRunIsRunning ==
  \A r \in DuRuns : duExec[r] # "none" => duRun[r].st = "running"


(* A run loses its task for good, while it still waits to be executed, only *)
(* if the server restarted after a newer session was uploaded and nobody    *)
(* had loaded its own.                                                      *)
TaskFailsOnlyUnloaded ==
  \A r \in DuRuns :
    duTask[r] = "failed" /\ duRun[r].st \notin DuTerminal =>
      duRun[r].sid < duSrv.latest /\ duLeft.crashes < DuCrashBound

(* Every queued run was executed or ended, unless its task was lost with    *)
(* its session or the graph's worker ended with an earlier graph of the     *)
(* same name.                                                               *)
NoRunWaits ==
  \A r \in DuRuns :
    duRun[r].st # "pending" \/ duTask[r] = "failed" \/ duSrv.worker = "ended"

(* A queued run is executed: what SQLite's durable task execution promises  *)
(* of a run nobody canceled or deleted.  The reconciliation, which takes a  *)
(* run that still waits in the queue for a lost one, breaks it.             *)
QueuedRunIsNotLost ==
  [][\A r \in DuRuns : duRun[r].st = "pending" /\ duTask[r] = "queued" /\ duSrv.worker = "live"
        => duRun'[r].st # "failed"]_duVars

=============================================================================

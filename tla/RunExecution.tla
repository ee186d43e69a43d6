---------------------------- MODULE RunExecution ----------------------------
(***************************************************************************)
(* One run of a graph: the persisted run record, the processes that        *)
(* execute it (GraphRunner.Start, Resume, execute and what they end in),   *)
(* and the clients that control it from outside (Pause, Cancel,            *)
(* CancelPausedRun, MarkRunExecutionLost, deletion).                       *)
(*                                                                         *)
(* Every writer of the record runs the same optimistic loop: read the      *)
(* record, compute a new one from what was read, commit it if the Revision *)
(* is still the one read, else read again, at most RetryLimit times.  The  *)
(* read and the commit are separate actions here, so that whatever another *)
(* actor writes in between is explored.  Revisions are abstracted to the   *)
(* set current of the actors whose snapshot has the record's Revision.     *)
(*                                                                         *)
(* The lease token is the epoch: an acquisition increments the epoch of    *)
(* the record it replaces, so no two have the same.  ExpiresAt is kept as  *)
(* the number of ticks left.                                               *)
(***************************************************************************)
EXTENDS Integers

CONSTANTS Runner,     \* slots that execute the run, each in its own process
          NoRunner,   \* the target of a client that addresses no execution
          Client,     \* callers of the control operations
          LeaseTTL,   \* executionLeaseTTL, in ticks
          ClockLag,   \* how stale the time written into a lease can be
          RetryLimit, \* runRevisionRetryLimit
          Reopening,  \* whether resuming a terminal run is explored
          EpochBound  \* bound: lease acquisitions that are explored

ASSUME RunExecutionAssumption ==
    /\ NoRunner \notin Runner
    /\ Runner \cap Client = {}
    /\ ClockLag \in Nat
    /\ LeaseTTL \in Nat /\ LeaseTTL > ClockLag
    /\ RetryLimit \in Nat \ {0}
    /\ EpochBound \in Nat
    /\ Reopening \in BOOLEAN

VARIABLES run,         \* the persisted RunRecord
          expires,     \* ticks until run.ExecutionLease.ExpiresAt
          checkpoints, \* the stages of the checkpoints the run has saved
          exec,        \* the runners' goroutines
          client,      \* the clients' calls
          current      \* the actors whose snapshot has run.Revision

vars == <<run, expires, checkpoints, exec, client, current>>

-----------------------------------------------------------------------------
(* Records *)

Active == {"pending", "running"}

Terminal == {"completed", "failed", "canceled"}

RunStatus == {"absent", "paused"} \cup Active \cup Terminal

Stage == {"node", "wave", "final"}

Lease == [status : {"none", "active", "released"}, epoch : 0..EpochBound]

RunRecord == [status : RunStatus, pause : BOOLEAN, cancel : BOOLEAN,
              checkpoint : Stage \cup {"none"}, lease : Lease,
              deleting : BOOLEAN]

Record(status, pause, cancel, checkpoint, lease, deleting) ==
    [status |-> status, pause |-> pause, cancel |-> cancel,
     checkpoint |-> checkpoint, lease |-> lease, deleting |-> deleting]

\* No record; also the snapshot of an actor that has read nothing.
NoRun ==
    Record("absent", FALSE, FALSE, "none",
           [status |-> "none", epoch |-> 0], FALSE)

\* The loops that persist an execution's progress, the ones that settle
\* what the run ends as, and the loops on the lease.
Progress == {"before", "after", "wave"}

Settling == {"complete", "fail", "cancel", "pauseAtNode", "pauseAtWave"}

Goal == Progress \cup Settling \cup {"none", "acquire", "resume", "release"}

ExecRecord == [pc : {"idle", "admit", "between", "node", "update", "outside"},
               goal : Goal, guard : 0..EpochBound, local : RunRecord,
               seen : RunRecord, retries : 0..(RetryLimit - 1)]

\* pc is update in a loop inside execute, outside in one before or after it.
\* A goroutine that enters pc, before it reads the record again.
Phase(pc, goal, guard, local) ==
    [pc |-> pc, goal |-> goal, guard |-> guard, local |-> local,
     seen |-> NoRun, retries |-> 0]

Idle == Phase("idle", "none", 0, NoRun)

ClientRecord ==
    [op : {"none", "pause", "cancel", "cancelPaused", "lost", "delete"},
     target : Runner \cup {NoRunner}, guard : 0..EpochBound,
     phase : {"idle", "lookup", "asked", "persist", "signal"},
     seen : RunRecord, retries : 0..(RetryLimit - 1)]

Call(op, target, guard, phase) ==
    [op |-> op, target |-> target, guard |-> guard, phase |-> phase,
     seen |-> NoRun, retries |-> 0]

NoCall == Call("none", NoRunner, 0, "idle")

TypeOK ==
    /\ run \in RunRecord
    /\ expires \in 0..LeaseTTL
    /\ checkpoints \subseteq Stage
    /\ exec \in [Runner -> ExecRecord]
    /\ client \in [Client -> ClientRecord]
    /\ current \subseteq Runner \cup Client

Init ==
    /\ run = NoRun
    /\ expires = 0
    /\ checkpoints = {}
    /\ exec = [p \in Runner |-> Idle]
    /\ client = [c \in Client |-> NoCall]
    /\ current = {}

-----------------------------------------------------------------------------
(* The rules of the record *)

\* Mutant: a takeover keeps the epoch.
NextLeaseSameEpoch(lease) ==
    [status |-> "active", epoch |-> IF lease.epoch = 0 THEN 1 ELSE lease.epoch]

\* newExecutionLease
NextLease(lease) == [status |-> "active", epoch |-> lease.epoch + 1]

Released(lease) == [status |-> "released", epoch |-> lease.epoch]

\* The lease excludes another acquisition.
Held == run.lease.status = "active" /\ expires > 0

\* Mutant: the epoch of the guard is not compared.
GuardOKAnyEpoch(guard, lease) == (guard # 0) = (lease.status = "active")

\* validateExecutionLeaseGuard, and validateCommitExecutionLease for a
\* caller that has no guard.
GuardOK(guard, lease) ==
    IF guard = 0
    THEN lease.status # "active"
    ELSE lease = [status |-> "active", epoch |-> guard]

\* Mutant: the last writer wins.
RevisionIgnored(a) == a \in Runner \cup Client

\* The revision check of applyMemoryCommit and CompareAndSwapRun.
RevisionMatches(a) == a \in current

\* Mutant: a reservation does not stop writers.
WritableWhenReserved == TRUE

\* What the store asks of a write besides the revision and the lease:
\* validateRunDeletionTransition refuses a record reserved for deletion.
Writable == ~run.deleting

\* loadRunForUpdate, loadPauseRun: the requests the caller knows of are
\* added to the persisted ones, and a cancel drops a pause.
WithRequests(r, local) ==
    LET cancel == r.cancel \/ local.cancel
    IN  Record(r.status, (r.pause \/ local.pause) /\ ~cancel, cancel,
               r.checkpoint, r.lease, r.deleting)

\* Mutant: the progress of a node overwrites the requests.
WithoutRequests(r, local) ==
    Record(r.status, FALSE, FALSE, r.checkpoint, r.lease, r.deleting)

\* The node and wave commits merge the requests without dropping any.
WithProgressRequests(r, local) ==
    Record(r.status, r.pause \/ local.pause, r.cancel \/ local.cancel,
           r.checkpoint, r.lease, r.deleting)

\* The record with a status that answers every request.
Settled(r, status, checkpoint) ==
    Record(status, FALSE, FALSE, checkpoint, r.lease, r.deleting)

\* prepareCanceledRunUpdate
Canceled(r) == Settled(r, "canceled", r.checkpoint)

\* resumeExistingRun's closure: PauseRequested is kept.
Resumed(r) == Record("running", r.pause, FALSE, r.checkpoint, r.lease, r.deleting)

-----------------------------------------------------------------------------
(* Runners: where a goroutine goes next *)

\* Inside execute, hence in activeExecutions.
Registered(p) == exec[p].pc \in {"between", "node", "update"}

\* The next loop, inside execute if e is.
Go(e, goal, local) == Phase(e.pc, goal, e.guard, local)

Inside(e, goal, local) == Phase("update", goal, e.guard, local)

Outside(e, goal, local) == Phase("outside", goal, e.guard, local)

\* The call returns; the deferred finishExecutionLease comes first.
Finished(e) == IF e.guard = 0 THEN Idle ELSE Outside(e, "release", NoRun)

\* After InvokeWithConfig, a cancel the execution knows of goes first.
EndGoal(local, goal) == IF local.cancel THEN "cancel" ELSE goal

\* An error inside a loop: a node or wave error fails the execution, an
\* error of a settling loop is returned.
Stopped(e) ==
    IF e.goal \in Progress THEN Go(e, EndGoal(e.local, "fail"), e.local)
    ELSE IF e.goal \in {"acquire", "release"} THEN Idle
    ELSE Finished(e)

Become(p, e) == exec' = [exec EXCEPT ![p] = e]

\* runPersistMu, which a node or wave commit shares with the requests that
\* clients persist for the same execution.
ProgressInFlight(p) == exec[p].goal \in Progress /\ exec[p].seen # NoRun

RequestInFlight(p) ==
    \E c \in Client : client[c].target = p /\ client[c].seen # NoRun

\* Mutant: one iteration too many.
RetriesOneMore(retries) == retries < RetryLimit

RetriesLeft(retries) == retries + 1 < RetryLimit

\* Every write of the record outdates every snapshot.
Write(r) == run' = r /\ current' = {}

\* The snapshot the loop with this goal computes from.
Ready(p, goal) ==
    exec[p].goal = goal /\ exec[p].seen # NoRun

\* commitRuntime with the execution's guard.
CommitRun(p, r) ==
    /\ GuardOK(exec[p].guard, run.lease)
    /\ RevisionMatches(p)
    /\ Writable
    /\ Write(r)

-----------------------------------------------------------------------------
(* Runners: starting, resuming, the lease *)

\* Start, StartAsync: the record is created with the lease of its creator.
Start(p) ==
    /\ exec[p].pc = "idle" /\ run.status = "absent" /\ EpochBound > 0
    /\ LET r == Record("running", FALSE, FALSE, "node", NextLease(run.lease), FALSE)
       IN  /\ Write(r)
           /\ Become(p, Phase("between", "none", r.lease.epoch, r))
    /\ \E lag \in 0..ClockLag : expires' = LeaseTTL - lag
    /\ checkpoints' = {"node"}
    /\ UNCHANGED client

\* EnqueueStart: a pending run that some runner will resume.
EnqueueStart ==
    /\ run.status = "absent"
    /\ Write(Record("pending", FALSE, FALSE, "node", run.lease, FALSE))
    /\ checkpoints' = {"node"}
    /\ UNCHANGED <<expires, exec, client>>

\* Resume and ResumeFromCheckpoint begin with ensureExecutionLease; this is
\* the read of acquireExecutionLease.  A terminal run is returned without a
\* guard and without an error.
Resume(p) ==
    /\ \/ exec[p].pc = "idle" /\ run.status # "absent"
       \/ exec[p].goal = "acquire" /\ exec[p].seen = NoRun
    /\ \/ /\ run.deleting \/ (run.status \notin Terminal /\ Held)
          /\ Become(p, Idle)
          /\ UNCHANGED current
       \/ /\ ~run.deleting /\ run.status \in Terminal
          /\ Become(p, Phase("admit", "none", 0, run))
          /\ UNCHANGED current
       \/ /\ ~run.deleting /\ run.status \notin Terminal /\ ~Held
          /\ run.lease.epoch < EpochBound
          /\ Become(p, [Phase("outside", "acquire", 0, NoRun)
                          EXCEPT !.seen = run, !.retries = exec[p].retries])
          /\ current' = current \cup {p}
    /\ UNCHANGED <<run, expires, checkpoints, client>>

WithLease(r, lease) ==
    Record(r.status, r.pause, r.cancel, r.checkpoint, lease, r.deleting)

\* Its compare-and-swap.
AcquireLease(p) ==
    /\ Ready(p, "acquire") /\ RevisionMatches(p)
    /\ LET r == WithLease(exec[p].seen, NextLease(exec[p].seen.lease))
       IN  /\ Write(r)
           /\ Become(p, Phase("admit", "none", r.lease.epoch, r))
    /\ \E lag \in 0..ClockLag : expires' = LeaseTTL - lag
    /\ UNCHANGED <<checkpoints, client>>

\* What Resume checks before resumeExistingRun: the graph hash, the owner,
\* unresolved effects, the checkpoint, the input.  A terminal run whose
\* checkpoint is no wave checkpoint continues as a new run.
Admit(p) ==
    /\ exec[p].pc = "admit"
    /\ \/ Become(p, Finished(exec[p]))
       \/ /\ GuardOK(exec[p].guard, exec[p].local.lease)
          /\ \E stage \in checkpoints \ {"final"} :
                exec[p].local.status \notin Terminal \/ (stage = "wave" /\ Reopening)
          /\ Become(p, Outside(exec[p], "resume", exec[p].local))
    /\ UNCHANGED <<run, expires, checkpoints, client, current>>

\* heartbeatExecutionLease; its own goroutine, stopped before the release.
Heartbeat(p) ==
    /\ exec[p].guard # 0 /\ exec[p].goal # "release"
    /\ GuardOK(exec[p].guard, run.lease) /\ ~run.deleting
    /\ \E lag \in 0..ClockLag :
          LeaseTTL - lag >= expires /\ expires' = LeaseTTL - lag
    /\ Write(run)
    /\ UNCHANGED <<checkpoints, exec, client>>

\* releaseExecutionLease
LoadForRelease(p) ==
    /\ exec[p].goal = "release" /\ exec[p].seen = NoRun
    /\ IF run.deleting \/ ~GuardOK(exec[p].guard, run.lease)
       THEN Become(p, Idle) /\ UNCHANGED current
       ELSE /\ Become(p, [exec[p] EXCEPT !.seen = run])
            /\ current' = current \cup {p}
    /\ UNCHANGED <<run, expires, checkpoints, client>>

ReleaseLease(p) ==
    /\ Ready(p, "release") /\ RevisionMatches(p)
    /\ Write(WithLease(exec[p].seen, Released(exec[p].seen.lease)))
    /\ expires' = 0
    /\ Become(p, Idle)
    /\ UNCHANGED <<checkpoints, client>>

-----------------------------------------------------------------------------
(* Runners: the loops of an execution *)

\* The loop an execution enters next.  Between two nodes the scheduler
\* starts a task or fails, and after a wave it may find nothing left to do,
\* suspend or meet a breakpoint; a node returns a result, an error or an
\* interrupt.
Goals(e) ==
    LET ends(S) == {EndGoal(e.local, goal) : goal \in S}
    IN  IF e.pc = "between"
        THEN {"before"} \cup ends(IF e.local.checkpoint = "wave"
                                  THEN {"complete", "fail", "pauseAtWave", "pauseAtNode"}
                                  ELSE {"fail"})
        ELSE IF e.pc = "node" THEN {"after"} \cup ends({"fail", "pauseAtNode"})
        ELSE {e.goal} \cap (Progress \cup Settling \cup {"resume"})

\* What the read of each loop requires of the record.
Readable(e) ==
    /\ e.goal # "before" => GuardOK(e.guard, run.lease)
    /\ e.goal \notin {"after", "wave"} => ~run.deleting /\ run.lease = e.local.lease
    /\ e.goal \in {"before", "pauseAtNode", "pauseAtWave"} => run.status \in Active

\* The read: the requests the execution holds in memory are added.
Load(p) ==
    /\ exec[p].seen = NoRun
    /\ \E goal \in Goals(exec[p]) :
          LET e == [exec[p] EXCEPT !.goal = goal,
                       !.pc = IF Registered(p) THEN "update" ELSE "outside"]
          IN  /\ goal \in Progress => ~RequestInFlight(p)
              /\ IF Readable(e)
                 THEN /\ Become(p, [e EXCEPT !.seen =
                                      IF goal \in Progress
                                      THEN WithProgressRequests(run, e.local)
                                      ELSE WithRequests(run, e.local)])
                      /\ current' = current \cup {p}
                 ELSE Become(p, Stopped(e)) /\ UNCHANGED current
    /\ UNCHANGED <<run, expires, checkpoints, client>>

\* Mutant: a resumption does not look at the status again.
ResumesAnyway(e) == e.seen.status = "absent"

\* What resumeExistingRun does not resume: a run that changed since it was
\* admitted and is not active.
FinishedMeanwhile(e) ==
    e.seen.status # e.local.status /\ e.seen.status \notin Active

\* The loop returns without a write.
Leaves(e) ==
    LET s == e.seen
    IN  \/ e.goal = "resume" /\ ~s.cancel /\ FinishedMeanwhile(e)
        \/ /\ e.goal \in {"complete", "fail"} /\ ~s.cancel
           /\ IF s.pause THEN s.checkpoint = "final" ELSE s.status \notin Active
        \/ e.goal = "cancel" /\ s.status \in Terminal
        \/ e.goal \in {"before", "after", "pauseAtNode", "pauseAtWave"} /\ s.cancel
        \/ e.goal = "after" /\ s.status \notin Active

\* A loop of beforeNode or of a pause that meets a cancel ends in
\* cancelRunWithTransition; afterNode drops the result, so the wave has no
\* completed step and the execution fails unless it is being canceled.
Leave(p) ==
    LET e == exec[p]
    IN  /\ e.seen # NoRun /\ Leaves(e)
        /\ Become(p, IF e.goal \in {"before", "pauseAtNode", "pauseAtWave"}
                     THEN Go(e, "cancel", e.seen)
                     ELSE IF e.goal = "after"
                     THEN Go(e, EndGoal(e.local, "fail"), e.local)
                     ELSE Finished(e))
        /\ current' = current \ {p}
        /\ UNCHANGED <<run, expires, checkpoints, client>>

\* A commit that lost the race is computed again from a new read.
Conflict(p) ==
    LET e == exec[p]
    IN  /\ e.seen # NoRun /\ ~Leaves(e) /\ ~RevisionMatches(p)
        /\ e.goal \in {"acquire", "release"} \/ GuardOK(e.guard, run.lease)
        /\ Become(p, IF RetriesLeft(e.retries)
                     THEN [e EXCEPT !.seen = NoRun, !.retries = e.retries + 1]
                     ELSE Stopped(e))
        /\ UNCHANGED <<run, expires, checkpoints, client, current>>

\* A commit under a lease that is gone, or of a run reserved for deletion.
Rejected(p) ==
    LET e == exec[p]
    IN  /\ e.seen # NoRun /\ ~Leaves(e) /\ e.goal \notin {"acquire", "release"}
        /\ \/ ~GuardOK(e.guard, run.lease)
           \/ RevisionMatches(p) /\ ~Writable
        /\ Become(p, Stopped(e))
        /\ current' = current \ {p}
        /\ UNCHANGED <<run, expires, checkpoints, client>>

\* resumeExistingRun
ResumeRun(p) ==
    LET e == exec[p]
    IN  /\ Ready(p, "resume") /\ ~Leaves(e)
        /\ \/ /\ e.seen.cancel
              /\ CommitRun(p, Canceled(e.seen))
              /\ Become(p, Finished(e))
           \/ /\ ~e.seen.cancel
              /\ CommitRun(p, Resumed(e.seen))
              /\ \/ Become(p, Phase("between", "none", e.guard, Resumed(e.seen)))
                 \/ \E goal \in {"complete", "fail", "pauseAtWave"} :
                       Become(p, Outside(e, goal, Resumed(e.seen)))
        /\ UNCHANGED <<expires, checkpoints, client>>

\* beforeNode
BeforeNode(p) ==
    LET e == exec[p]
    IN  /\ Ready(p, "before") /\ ~Leaves(e)
        /\ CommitRun(p, e.seen)
        /\ IF e.seen.pause
           THEN Become(p, Inside(e, "pauseAtNode", e.seen))
           ELSE \/ Become(p, Phase("node", "none", e.guard, e.seen))
                \/ Become(p, Inside(e, "pauseAtNode", e.seen))
        /\ checkpoints' = checkpoints \cup {"node"}
        /\ UNCHANGED <<expires, client>>

WithCheckpoint(r, stage) ==
    Record(r.status, r.pause, r.cancel, stage, r.lease, r.deleting)

\* afterNode; merging the results of the wave may fail before OnGraphStep.
AfterNode(p) ==
    LET e == exec[p]
        r == WithCheckpoint(e.seen, "node")
    IN  /\ Ready(p, "after") /\ ~Leaves(e)
        /\ CommitRun(p, r)
        /\ \/ Become(p, Inside(e, "wave", r))
           \/ Become(p, Inside(e, EndGoal(r, "fail"), r))
        /\ checkpoints' = checkpoints \cup {"node"}
        /\ UNCHANGED <<expires, client>>

\* OnGraphStep
GraphStep(p) ==
    LET e == exec[p]
        r == WithCheckpoint(e.seen, "wave")
    IN  /\ Ready(p, "wave")
        /\ CommitRun(p, r)
        /\ Become(p, IF r.cancel THEN Inside(e, "cancel", r)
                     ELSE IF r.pause THEN Inside(e, "pauseAtWave", r)
                     ELSE Phase("between", "none", e.guard, r))
        /\ checkpoints' = checkpoints \cup {"wave"}
        /\ UNCHANGED <<expires, client>>

\* Mutant: an end overtakes a pause.
EndedDespitePause(s, status, checkpoint) ==
    IF s.cancel THEN Canceled(s) ELSE Settled(s, status, checkpoint)

\* What completeRun and persistRunFailureWithTransition write: a cancel
\* goes before a pause, a pause before the end itself.
Ended(s, status, checkpoint) ==
    IF s.cancel THEN Canceled(s)
    ELSE IF s.pause THEN Settled(s, "paused", s.checkpoint)
    ELSE Settled(s, status, checkpoint)

CompleteRun(p) ==
    LET e == exec[p]
        r == Ended(e.seen, "completed", "final")
    IN  /\ Ready(p, "complete") /\ ~Leaves(e)
        /\ CommitRun(p, r)
        /\ Become(p, Finished(e))
        /\ checkpoints' = IF r.status = "completed" THEN checkpoints \cup {"final"}
                                                    ELSE checkpoints
        /\ UNCHANGED <<expires, client>>

FailRun(p) ==
    LET e == exec[p]
    IN  /\ Ready(p, "fail") /\ ~Leaves(e)
        /\ CommitRun(p, Ended(e.seen, "failed", e.seen.checkpoint))
        /\ Become(p, Finished(e))
        /\ UNCHANGED <<expires, checkpoints, client>>

\* cancelRunWithTransition
CancelRun(p) ==
    LET e == exec[p]
    IN  /\ Ready(p, "cancel") /\ ~Leaves(e)
        /\ CommitRun(p, Canceled(e.seen))
        /\ Become(p, Finished(e))
        /\ UNCHANGED <<expires, checkpoints, client>>

\* pauseRun, pauseRunAtCheckpoint, with the checkpoint saved before
PauseRun(p) ==
    LET e == exec[p]
        stage == IF e.goal = "pauseAtNode" THEN "node" ELSE "wave"
    IN  /\ Ready(p, "pauseAtNode") \/ Ready(p, "pauseAtWave")
        /\ ~Leaves(e)
        /\ CommitRun(p, Settled(e.seen, "paused", stage))
        /\ Become(p, Finished(e))
        /\ checkpoints' = checkpoints \cup {stage}
        /\ UNCHANGED <<expires, client>>

\* The process dies; the calls made in it die with it.
Crash(p) ==
    /\ exec[p].pc # "idle"
    /\ Become(p, Idle)
    /\ client' = [c \in Client |-> IF client[c].target = p THEN NoCall ELSE client[c]]
    /\ current' = current \ ({p} \cup {c \in Client : client[c].target = p})
    /\ UNCHANGED <<run, expires, checkpoints>>

-----------------------------------------------------------------------------
(* Clients *)

Answer(c, call) == client' = [client EXCEPT ![c] = call]

\* Pause and Cancel of runner p read the run first.
RequestControl(c, p) ==
    /\ client[c].phase = "idle" /\ run.status \in Active
    /\ \/ Answer(c, Call("pause", p, 0, IF run.pause THEN "asked" ELSE "lookup"))
       \/ Answer(c, Call("cancel", p, 0, IF run.cancel THEN "asked" ELSE "lookup"))
    /\ UNCHANGED <<run, expires, checkpoints, exec, current>>

\* Then the execution: none, one already asked, or one to ask.  Without a
\* lease of its own an execution refuses the request.
LookUp(c) ==
    LET m == client[c]
        e == exec[m.target]
    IN  /\ \/ /\ m.phase \in {"lookup", "asked"} /\ ~Registered(m.target)
              /\ Answer(c, NoCall)
           \/ /\ m.phase = "asked" /\ Registered(m.target)
              /\ Answer(c, Call(m.op, m.target, e.guard, "signal"))
           \/ /\ m.phase = "lookup" /\ Registered(m.target)
              /\ Answer(c, IF e.guard = 0 THEN NoCall
                           ELSE Call(m.op, m.target, e.guard, "persist"))
        /\ UNCHANGED <<run, expires, checkpoints, exec, current>>

\* What each service requires of the record it reads.
Permits(op) ==
    /\ op \in {"pause", "cancel", "lost"} => run.status \in Active
    /\ op = "cancelPaused" => run.status = "paused"
    /\ op = "lost" => ~Held
    /\ op = "delete" => run.status \notin Active /\ ~run.deleting

ReadRun(c) ==
    LET m == client[c]
    IN  /\ m.phase = "persist" /\ m.seen = NoRun
        /\ m.target # NoRunner => ~ProgressInFlight(m.target)
        /\ IF Permits(m.op)
           THEN /\ Answer(c, [m EXCEPT !.seen = run])
                /\ current' = current \cup {c}
           ELSE Answer(c, NoCall) /\ UNCHANGED current
        /\ UNCHANGED <<run, expires, checkpoints, exec>>

\* CancelPausedRun, MarkRunExecutionLost, DeleteRun need no execution; a
\* call the record does not permit changes nothing.
CallService(c) ==
    /\ client[c].phase = "idle" /\ run.status # "absent"
    /\ \E op \in {"cancelPaused", "lost", "delete"} :
          /\ Permits(op)
          /\ Answer(c, [Call(op, NoRunner, 0, "persist") EXCEPT !.seen = run])
    /\ current' = current \cup {c}
    /\ UNCHANGED <<run, expires, checkpoints, exec>>

\* A request carries its execution's guard, a service the lease it read.
ClientGuardOK(m) == m.guard # 0 => GuardOK(m.guard, run.lease)

ClientConflict(c) ==
    LET m == client[c]
    IN  /\ m.phase = "persist" /\ m.seen # NoRun
        /\ ClientGuardOK(m) /\ ~RevisionMatches(c)
        /\ Answer(c, IF RetriesLeft(m.retries)
                     THEN [m EXCEPT !.seen = NoRun, !.retries = m.retries + 1]
                     ELSE NoCall)
        /\ UNCHANGED <<run, expires, checkpoints, exec, current>>

ClientRejected(c) ==
    LET m == client[c]
    IN  /\ m.phase = "persist" /\ m.seen # NoRun
        /\ ~ClientGuardOK(m) \/ (RevisionMatches(c) /\ ~Writable)
        /\ Answer(c, NoCall)
        /\ current' = current \ {c}
        /\ UNCHANGED <<run, expires, checkpoints, exec>>

\* The conditions of a client's commit.
ClientCommits(c, op) ==
    LET m == client[c]
    IN  /\ m.phase = "persist" /\ m.op = op /\ m.seen # NoRun
        /\ ClientGuardOK(m) /\ RevisionMatches(c) /\ Writable

\* The record with a request: a cancel takes the place of a pause.
WithPause(r) == Record(r.status, TRUE, r.cancel, r.checkpoint, r.lease, r.deleting)

WithCancel(r) == Record(r.status, FALSE, TRUE, r.checkpoint, r.lease, r.deleting)

\* The execution a client addressed is still the one p runs.
Addresses(m) == Registered(m.target) /\ exec[m.target].guard = m.guard

\* persistControlRequest
PersistRequest(c) ==
    LET m == client[c]
        r == IF m.op = "pause" THEN WithPause(m.seen) ELSE WithCancel(m.seen)
    IN  /\ ClientCommits(c, "pause") \/ ClientCommits(c, "cancel")
        /\ Write(r)
        /\ exec' = IF Addresses(m) THEN [exec EXCEPT ![m.target].local = r] ELSE exec
        /\ Answer(c, Call(m.op, m.target, m.guard, "signal"))
        /\ UNCHANGED <<expires, checkpoints>>

\* requestPause, requestCancel: the flags in memory.  The invocation they
\* interrupt may return at any time anyway.
Signal(c) ==
    LET m == client[c]
        local == exec[m.target].local
    IN  /\ m.phase = "signal"
        /\ exec' = IF Addresses(m)
                   THEN [exec EXCEPT ![m.target].local =
                            IF m.op = "pause" THEN WithPause(local) ELSE WithCancel(local)]
                   ELSE exec
        /\ Answer(c, NoCall)
        /\ UNCHANGED <<run, expires, checkpoints, current>>

CancelPaused(c) ==
    /\ ClientCommits(c, "cancelPaused")
    /\ Write(Canceled(client[c].seen))
    /\ Answer(c, NoCall)
    /\ UNCHANGED <<expires, checkpoints, exec>>

\* MarkRunExecutionLost releases an expired lease, then reads again and
\* fails the run.
ReleaseLost(c) ==
    /\ ClientCommits(c, "lost") /\ client[c].seen.lease.status = "active"
    /\ Write(WithLease(client[c].seen, Released(client[c].seen.lease)))
    /\ expires' = 0
    /\ Answer(c, [client[c] EXCEPT !.seen = NoRun])
    /\ UNCHANGED <<checkpoints, exec>>

\* Mutant: the run is failed under its expired lease.
MarkLostUnderLease(c) ==
    /\ ClientCommits(c, "lost")
    /\ Write(Settled(client[c].seen, "failed", client[c].seen.checkpoint))
    /\ Answer(c, NoCall)
    /\ UNCHANGED <<expires, checkpoints, exec>>

MarkLost(c) ==
    /\ ClientCommits(c, "lost") /\ client[c].seen.lease.status # "active"
    /\ Write(Settled(client[c].seen, "failed", client[c].seen.checkpoint))
    /\ Answer(c, NoCall)
    /\ UNCHANGED <<expires, checkpoints, exec>>

\* prepareRunDeletion: the reservation, which nothing takes back
ReserveDeletion(c) ==
    /\ ClientCommits(c, "delete")
    /\ Write([client[c].seen EXCEPT !.deleting = TRUE])
    /\ Answer(c, NoCall)
    /\ UNCHANGED <<expires, checkpoints, exec>>

-----------------------------------------------------------------------------
(* The system *)

Tick ==
    /\ expires > 0
    /\ expires' = expires - 1
    /\ UNCHANGED <<run, checkpoints, exec, client, current>>

RunnerStep(p) ==
    \/ AcquireLease(p) \/ Admit(p)
    \/ LoadForRelease(p) \/ ReleaseLease(p)
    \/ Load(p) \/ Leave(p) \/ Conflict(p) \/ Rejected(p)
    \/ ResumeRun(p) \/ BeforeNode(p) \/ AfterNode(p) \/ GraphStep(p)
    \/ CompleteRun(p) \/ FailRun(p) \/ CancelRun(p) \/ PauseRun(p)

ClientStep(c) ==
    \/ LookUp(c) \/ ReadRun(c) \/ ClientConflict(c) \/ ClientRejected(c)
    \/ PersistRequest(c) \/ Signal(c) \/ CancelPaused(c)
    \/ ReleaseLost(c) \/ MarkLost(c) \/ ReserveDeletion(c)

Next ==
    \/ EnqueueStart \/ Tick
    \/ \E p \in Runner :
          Start(p) \/ Resume(p) \/ RunnerStep(p) \/ Heartbeat(p) \/ Crash(p)
    \/ \E c \in Client :
          CallService(c) \/ ClientStep(c) \/ \E p \in Runner : RequestControl(c, p)

Spec == Init /\ [][Next]_vars

-----------------------------------------------------------------------------
(* Properties *)

\* p holds the guard of the lease in the record.
Owns(p) ==
    exec[p].guard # 0 /\ run.lease = [status |-> "active", epoch |-> exec[p].guard]

\* No two executions ever hold guards of the same epoch, however their
\* acquisitions interleave, so a guard names one execution.
GuardsAreUnique ==
    \A p, q \in Runner :
        p # q /\ exec[p].guard # 0 => exec[p].guard # exec[q].guard

\* An execution that lost its lease to another acquisition, to
\* MarkRunExecutionLost or to its own release writes nothing any more,
\* neither the record nor a checkpoint, whatever it was doing meanwhile.
StaleExecutorsAreSilent ==
    [][\A p \in Runner :
          exec'[p] # exec[p] /\ exec[p].guard # 0 /\ ~Owns(p)
          => run' = run /\ checkpoints' = checkpoints]_vars

\* While the owner of the lease is between two nodes or in one, nobody has
\* settled the run behind it: no service completes, fails, pauses or
\* cancels a run that an execution still owns.
OwnedRunIsRunning ==
    \A p \in Runner :
        Owns(p) /\ exec[p].pc \in {"between", "node"} => run.status = "running"

\* The step is MarkRunExecutionLost's: it fails a run nobody has a lease on.
FailsLostRun == run'.status = "failed" /\ run.lease.status # "active"

\* A persisted cancel is never overwritten, whatever was computed from an
\* older read: the record keeps the request until the run is canceled, or
\* failed because its execution was lost.
CancelWins ==
    [][run.cancel => \/ run'.cancel /\ run'.status = run.status
                     \/ run'.status = "canceled"
                     \/ FailsLostRun]_vars

\* A pause persisted in an unfinished run is neither forgotten nor overtaken
\* by the completion or the failure of the execution: it ends in a paused
\* run, or gives way to a cancel or to the loss of the execution.  (A finished
\* record can carry a pause: OnGraphStep of a second execution without a lease
\* looks at no status.)
PauseIsNotOvertaken ==
    [][run.pause /\ run.status \notin Terminal
       => \/ run'.pause /\ run'.status \notin Terminal
          \/ run'.cancel
          \/ run'.status \in {"paused", "canceled"}
          \/ FailsLostRun]_vars

\* A finished run changes its status only when somebody resumes it knowing
\* that it has that status; a resumption that was admitted before the run
\* finished never revives it.  The exception is an execution without a
\* lease that meets a request: resumeExistingRun, completeRun and
\* persistRunFailureWithTransition look at the request before the status.
FinishedRunIsReopenedKnowingly ==
    [][run.status \in Terminal /\ run'.status # run.status
       => \E p \in Runner :
             /\ exec'[p] # exec[p]
             /\ \/ /\ run'.status = "running" /\ exec[p].goal = "resume"
                   /\ exec[p].local.status = run.status
                \/ /\ run'.status \in {"paused", "canceled"} /\ exec[p].guard = 0
                   /\ exec[p].seen.pause \/ exec[p].seen.cancel]_vars

\* Once a run is reserved for deletion no execution and no client changes
\* it, also one that read it before.
DeletionFreezes == [][run.deleting => run' = run]_vars

\* Nodes return, loops go on, clients finish their calls.  It is strong
\* fairness because runPersistMu may be taken again and again by requests,
\* and a Go mutex starves no waiter.  Heartbeats, crashes, new calls and
\* time are not obliged to happen.
Fairness ==
    /\ \A p \in Runner : SF_vars(RunnerStep(p)) /\ WF_vars(Resume(p) /\ exec[p].pc # "idle")
    /\ \A c \in Client : SF_vars(ClientStep(c))

FairSpec == Spec /\ Fairness

\* A persisted request is acted on: the run stops being active, or no
\* execution owns it any more (it crashed, lost its lease, or gave up after
\* its retries).
RequestIsAnswered ==
    (run.pause \/ run.cancel) ~> (run.status \notin Active \/ \A p \in Runner : ~Owns(p))

\* What TestRunnerRejectsConcurrentResumeOfSameRun asks for: of two
\* concurrent Resume calls one gets ErrExecutionLeaseHeld, so one execution
\* at most can write at any time.
AtMostOneExecutor ==
    \A p, q \in Runner :
        p # q => ~(/\ Registered(p) /\ GuardOK(exec[p].guard, run.lease)
                   /\ Registered(q) /\ GuardOK(exec[q].guard, run.lease))

\* What the observability guide says: Cancel is terminal.
CancelIsTerminal == [][run.status = "canceled" => run'.status = "canceled"]_vars

\* A persisted pause or cancel is neither overwritten nor overtaken by what an
\* execution or another caller computed from an older read of the record.
ControlIsKept ==
    CancelWins /\ PauseIsNotOvertaken
=============================================================================

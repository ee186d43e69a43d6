------------------------------ MODULE Scheduler ------------------------------
(***************************************************************************)
(* The wave scheduler of one run (graph/scheduler.go, graph/execution.go)  *)
(* and the checkpoints its runner takes (runtime/graph_runtime.go,         *)
(* runtime/graph_runner.go).                                               *)
(*                                                                         *)
(* A wave of tasks executes in parallel.  When all have ended the next     *)
(* tasks are resolved; a task for a join node waits as pending fan-in      *)
(* while a strictly upstream task is scheduled.  The position is stored in *)
(* checkpoints, from which a paused or crashed run goes on.  Cancellation  *)
(* is in RunExecution, a single attempt of a task in NodeAttempt.          *)
(***************************************************************************)
EXTENDS Integers, FiniteSets, Relation

CONSTANTS
    SchGraphs,          \* graphs [nodes, entry, edges, outs, failTo, errs,
                        \* conds, asks]: what a node may resolve to, its failure
                        \* route, the nodes that may fail, whose condition may
                        \* fail, and that may be interrupted
    SchWorkers,         \* Limits.MaxConcurrentNodes
    SchMaxSuperSteps,   \* Limits.MaxSuperSteps
    SchMaxFanOut,       \* Limits.MaxFanOut
    SchAskBound,        \* bound: interrupts of nodes and breakpoints
    SchErrBound,        \* bound: failing nodes and conditions
    SchPauseBound,      \* bound: pause requests
    SchCrashBound       \* bound: crashes

VARIABLES
    schGraph,   \* the graph of the run
    schRun,     \* the stored run: [status, pause, ckpt], ckpt the last
                \* checkpoint [stage, cur, next, pend, steps, owed]
    schExec,    \* the execution: [wave, pend, steps, ctl, canceled]: phase of
                \* each task of the wave, pending fan-in, super-steps, the
                \* pending pause [task, req] and whether the context is canceled
    schPast,    \* history: [owed, lost, ahead]: nodes that completed tasks
                \* resolved to and that did not execute yet, the ones of them
                \* that the scheduler dropped, and the tasks that a resume
                \* after a node started without scheduling them
    schLeft     \* what the bounds leave: [ask, err, pause, crash]

schVars == <<schGraph, schRun, schExec, schPast, schLeft>>

SchNone == "none"
Static(n) == [node |-> n, src |-> n, k |-> 0, fail |-> FALSE]
Dynamic(t, n, i) == [node |-> n, src |-> t.node, k |-> i, fail |-> FALSE]
FailureTask(t) == [node |-> schGraph.failTo[t.node], src |-> t.node, k |-> 0, fail |-> TRUE]
IsDynamic(t) == t.k # 0
Statics(tasks) == {t \in tasks : ~IsDynamic(t)}
NodesOf(tasks) == {t.node : t \in tasks}
NoTask == Static(SchNone)
NoControl == [task |-> NoTask, req |-> FALSE]

-----------------------------------------------------------------------------
(* The compiled graph *)

\* compileJoinNodes: failure routes do not count
SchJoins == [g \in SchGraphs |->
    {n \in g.nodes : Cardinality({m \in g.nodes : <<m, n>> \in g.edges}) > 1}]
\* compileReachability
SchReach == [g \in SchGraphs |->
    TransitiveClosure([p \in g.nodes \X g.nodes |-> p \in g.edges], g.nodes)]

IsJoinNode(n) == n \in SchJoins[schGraph]

\* Mutant: a node of the same cycle counts as upstream.
IsUpstream(n, target) == n # target /\ SchReach[schGraph][n, target]

IsStrictUpstream(n, target) ==
    n # target /\ SchReach[schGraph][n, target] /\ ~SchReach[schGraph][target, n]

-----------------------------------------------------------------------------
(* Scheduling *)

\* storePreferredTask: one task for each node, the failure's if there is one
Preferred(tasks) ==
    {CHOOSE t \in tasks : t.node = n /\ (t.fail \/ ~\E u \in tasks : u.node = n /\ u.fail) :
        n \in NodesOf(tasks)}


HasUpstreamBlocker(n, ready, pend) == \E u \in ready \cup pend : IsStrictUpstream(u.node, n)

\* releasePendingFanIn.  A released task moves from pend to ready and blocks
\* as before, so the order of the passes does not matter.
Released(ready, pend) == {t \in pend : ~HasUpstreamBlocker(t.node, ready, pend)}

ScheduleNext(tasks, pend) ==
    LET joins == {t \in Statics(tasks) : IsJoinNode(t.node)}
        waiting == Preferred(pend \cup joins)
        ready == Preferred(Statics(tasks) \ joins)
        released == Released(ready, waiting)
    IN  [ready |-> ready \cup released \cup (tasks \ Statics(tasks)),
         pend |-> waiting \ released]

ResumeSchedule(start, pend) ==
    LET taken == {t \in pend : t.node \in NodesOf(Statics(start))}
        ready == Preferred(Statics(start) \cup taken)
        released == Released(ready, pend \ taken)
    IN  [ready |-> ready \cup released \cup (start \ Statics(start)),
         pend |-> (pend \ taken) \ released]

\* validateNextTasks: a dynamic task for a join node must be the only one
\* that leads there.
NextTasksValid(tasks, pend) ==
    /\ Cardinality(tasks) <= SchMaxFanOut
    /\ \A t \in tasks : IsDynamic(t) /\ IsJoinNode(t.node) =>
           /\ t.node \notin NodesOf(pend)
           /\ \A u \in tasks \ {t} : u.node # t.node /\ ~IsStrictUpstream(u.node, t.node)

\* resolveCommands: what the completed tasks, with their outcomes, resolve to
TasksOf(t, out) == {Static(n) : n \in out.to} \cup {Dynamic(t, s[1], s[2]) : s \in out.sends}
NextTasks(outs) == UNION {TasksOf(t, outs[t]) : t \in DOMAIN outs}
Resolutions(tasks) ==
    {outs \in [tasks -> UNION {schGraph.outs[t.node] : t \in tasks}] :
        \A t \in tasks : outs[t] \in schGraph.outs[t.node]}

-----------------------------------------------------------------------------
(* The execution *)

Idle == [wave |-> <<>>, pend |-> {}, steps |-> 0, ctl |-> NoControl, canceled |-> FALSE]
Tasks == DOMAIN schExec.wave
Phase(p) == {t \in Tasks : schExec.wave[t] = p}
\* e.active: started and not completed
Active == Phase("active") \cup Phase("intr") \cup Phase("err") \cup Phase("canceled")
WaveOver == schRun.status = "running" /\ Phase("waiting") = {} /\ Phase("active") = {}

Checkpoint(stage, cur, next, pend, steps, owed) ==
    [stage |-> stage, cur |-> cur, next |-> next, pend |-> pend, steps |-> steps, owed |-> owed]

\* pauseRun, pauseRunAtCheckpoint, preparePausedRunUpdate
PauseAt(ckpt, past) ==
    /\ schRun' = [status |-> "paused", pause |-> FALSE, ckpt |-> ckpt]
    /\ schExec' = Idle
    /\ schPast' = past

\* persistRunFailureWithTransition: a pause requested meanwhile wins
Fail(run, past) ==
    IF run.pause THEN PauseAt(run.ckpt, [past EXCEPT !.owed = run.ckpt.owed])
    ELSE /\ schRun' = [run EXCEPT !.status = "failed"]
         /\ schExec' = Idle
         /\ schPast' = past

\* Mutant: the limit is compared after the step.
OneStepTooMany(steps) == steps > SchMaxSuperSteps

\* invokeWithConfig: the limit on super steps
TooManySteps(steps) == steps >= SchMaxSuperSteps

\* The top of the loop of invokeWithConfig.
BeginWave(run, sched, steps, past) ==
    IF sched.ready = {}
    THEN /\ schRun' = [run EXCEPT !.status = "completed"]
         /\ schExec' = [Idle EXCEPT !.pend = sched.pend]
         /\ schPast' = past
    ELSE IF TooManySteps(steps) \/ Cardinality(sched.ready) > SchMaxFanOut
    THEN Fail(run, past)
    ELSE /\ schRun' = run
         /\ schExec' = [wave |-> [t \in sched.ready |-> "waiting"], pend |-> sched.pend,
                        steps |-> steps + 1, ctl |-> NoControl, canceled |-> FALSE]
         /\ schPast' = past

SchInit ==
    /\ schGraph \in SchGraphs
    /\ LET entry == {Static(schGraph.entry)} IN
       /\ schRun = [status |-> "running", pause |-> FALSE,
                    ckpt |-> Checkpoint("before_node", entry, {}, {}, 0, {schGraph.entry})]
       /\ schExec = [Idle EXCEPT !.wave = [t \in entry |-> "waiting"], !.steps = 1]
    /\ schPast = [owed |-> {schGraph.entry}, lost |-> {}, ahead |-> {}]
    /\ schLeft = [ask |-> SchAskBound, err |-> SchErrBound, pause |-> SchPauseBound, crash |-> SchCrashBound]

\* Mutant: a worker takes one task and stops.
WorkerTakesOne == Cardinality(Tasks \ Phase("waiting")) < SchWorkers

\* executeTasks: a worker that ended a task takes the next one
WorkerFree == Cardinality(Phase("active")) < SchWorkers

SetPhase(t, p) == [schExec EXCEPT !.wave[t] = p]

\* beforeNode
StartTask(t) ==
    /\ t \in Phase("waiting") /\ WorkerFree
    /\ schExec' = IF schExec.canceled THEN SetPhase(t, "skipped")
                  ELSE IF schRun.pause THEN [SetPhase(t, "intr") EXCEPT !.ctl = [task |-> t, req |-> FALSE]]
                  ELSE SetPhase(t, "active")
    /\ UNCHANGED <<schGraph, schRun, schPast, schLeft>>

\* A breakpoint before the node (beforeNode), or the node asks for input
\* (markNodeInterrupt).
InterruptTask(t) ==
    /\ t.node \in schGraph.asks /\ schLeft.ask > 0
    /\ \/ t \in Phase("active")
       \/ t \in Phase("waiting") /\ ~schExec.canceled /\ ~schRun.pause /\ WorkerFree
    /\ schExec' = [SetPhase(t, "intr") EXCEPT !.ctl = [task |-> t, req |-> FALSE]]
    /\ schLeft' = [schLeft EXCEPT !.ask = @ - 1]
    /\ UNCHANGED <<schGraph, schRun, schPast>>

\* afterNode: the checkpoint of a task that is its whole wave is resumable.
CompleteTask(t) ==
    /\ t \in Phase("active")
    /\ schExec' = [SetPhase(t, "ok") EXCEPT !.ctl = IF @.task = t THEN NoControl ELSE @]
    /\ schRun' = IF Tasks # {t} THEN schRun
                 ELSE [schRun EXCEPT !.ckpt =
                         Checkpoint("after_node", {t}, {}, schExec.pend, schExec.steps, schPast.owed)]
    /\ UNCHANGED <<schGraph, schPast, schLeft>>

FailTask(t) ==
    /\ t \in Phase("active") /\ t.node \in schGraph.errs /\ schLeft.err > 0
    /\ schExec' = SetPhase(t, "err")
    /\ schLeft' = [schLeft EXCEPT !.err = @ - 1]
    /\ UNCHANGED <<schGraph, schRun, schPast>>

CancelTask(t) ==
    /\ t \in Phase("active") /\ schExec.canceled
    /\ schExec' = SetPhase(t, "canceled")
    /\ UNCHANGED <<schGraph, schRun, schPast, schLeft>>

\* GraphRunner.Pause and requestPause: the context is canceled if exactly
\* one step is active.
RequestPause ==
    /\ schRun.status = "running" /\ ~schRun.pause /\ schLeft.pause > 0
    /\ schRun' = [schRun EXCEPT !.pause = TRUE]
    /\ schExec' = IF Cardinality(Active) # 1 THEN schExec
                  ELSE [schExec EXCEPT !.canceled = TRUE,
                        !.ctl = IF @ # NoControl THEN @
                                ELSE [task |-> CHOOSE t \in Active : TRUE, req |-> TRUE]]
    /\ schLeft' = [schLeft EXCEPT !.pause = @ - 1]
    /\ UNCHANGED <<schGraph, schPast>>

-----------------------------------------------------------------------------
(* The end of a wave *)

\* What is owed once the tasks of done executed and resolved to next.
Owed(done, next) == (schPast.owed \ NodesOf(done)) \cup NodesOf(next)

\* OnGraphStep commits the after_wave checkpoint; a requested pause, or a
\* suspend command, ends the execution there.
Barrier(sched, past, suspend) ==
    LET ckpt == Checkpoint("after_wave", {}, sched.ready, sched.pend, schExec.steps, past.owed) IN
    IF schRun.pause \/ suspend THEN PauseAt(ckpt, past)
    ELSE BeginWave([schRun EXCEPT !.ckpt = ckpt], sched, schExec.steps, past)

\* The wave is merged, its next tasks are scheduled.
Advance(done, next, dropped, suspend) ==
    LET past == [owed |-> Owed(done, next \cup dropped), ahead |-> {},
                 lost |-> (schPast.lost \ NodesOf(done)) \cup NodesOf(dropped)]
    IN  IF NextTasksValid(next, schExec.pend)
        THEN Barrier(ScheduleNext(next, schExec.pend), past, suspend)
        ELSE Fail(schRun, schPast)

WaveCompletes ==
    /\ WaveOver /\ Phase("ok") = Tasks
    /\ \E outs \in Resolutions(Tasks) :
         LET kinds == {outs[t].kind : t \in Tasks} IN
         IF kinds # {"next"} /\ Cardinality(Tasks) > 1
         THEN Fail(schRun, schPast)     \* return or suspend in a parallel wave
         ELSE IF kinds = {"return"}     \* drops the pending fan-in
         THEN IF schRun.pause
              THEN PauseAt(Checkpoint("after_wave", {}, {}, schExec.pend, schExec.steps, {}), [schPast EXCEPT !.owed = {}])
              ELSE BeginWave(schRun, [ready |-> {}, pend |-> {}], schExec.steps, [schPast EXCEPT !.owed = {}])
         ELSE Advance(Tasks, NextTasks(outs), {}, kinds = {"suspend"})
    /\ UNCHANGED <<schGraph, schLeft>>

\* The failure of a condition: only the failure route is scheduled.
ConditionFails ==
    /\ WaveOver /\ Phase("ok") = Tasks /\ schLeft.err > 0
    /\ \E t \in Tasks : \E outs \in Resolutions(Tasks \ {t}) :
         /\ t.node \in schGraph.conds
         /\ IF schGraph.failTo[t.node] = SchNone THEN Fail(schRun, schPast)
            ELSE Advance(Tasks, {FailureTask(t)}, NextTasks(outs), FALSE)
    /\ schLeft' = [schLeft EXCEPT !.err = @ - 1]
    /\ UNCHANGED schGraph

\* One failed task with a failure route.
WaveRoutes ==
    /\ WaveOver
    /\ \E t \in Phase("err") : \E outs \in Resolutions(Phase("ok")) :
         /\ Phase("ok") = Tasks \ {t} /\ schGraph.failTo[t.node] # SchNone
         /\ IF \E u \in Phase("ok") : outs[u].kind # "next" THEN Fail(schRun, schPast)
            ELSE Advance(Tasks, NextTasks(outs) \cup {FailureTask(t)}, {}, FALSE)
    /\ UNCHANGED <<schGraph, schLeft>>

\* Mutant: the interrupted task's checkpoint keeps the schedule of the wave.
WholeWave(t) == Tasks

\* handleInterrupt: the schedule of the checkpoint
InterruptSchedule(t) == {t}

\* One interrupted task, its siblings completed: the run is paused before the
\* interrupted task alone.
WaveInterrupted ==
    /\ WaveOver
    /\ \E t \in Phase("intr") : \E outs \in Resolutions(Phase("ok")) :
         /\ Phase("ok") = Tasks \ {t}
         /\ LET next == NextTasks(outs)
                owed == Owed(Phase("ok"), next)
            IN  PauseAt(Checkpoint("before_node", InterruptSchedule(t), {}, schExec.pend, schExec.steps, owed),
                        [owed |-> owed, ahead |-> {},
                         lost |-> (schPast.lost \ NodesOf(Phase("ok"))) \cup NodesOf(next)])
    /\ UNCHANGED <<schGraph, schLeft>>

\* Any other error: several interrupts or errors, or one without a route.
\* A pause that canceled the wave refreshes the checkpoint of its task, with
\* the wave's schedule (resolvePendingControl).
WaveFails ==
    LET bad == Tasks \ Phase("ok")
        errors == bad \ Phase("intr")
    IN
    /\ WaveOver /\ bad # {}
    /\ Cardinality(bad) > 1 \/ \E t \in errors : t \in Phase("err") => schGraph.failTo[t.node] = SchNone
    /\ IF /\ schExec.ctl # NoControl
          /\ schExec.ctl.req \/ (errors # {} /\ Phase("canceled") \cup Phase("skipped") # {})
       THEN PauseAt(Checkpoint("before_node", Tasks, {}, schExec.pend, schExec.steps, schPast.owed), schPast)
       ELSE Fail(schRun, schPast)
    /\ UNCHANGED <<schGraph, schLeft>>

-----------------------------------------------------------------------------
(* Resume and recovery *)

\* resumeTarget: the stages it accepts
Resumable(ckpt) == ckpt.stage = "before_node" => Cardinality(ckpt.cur) = 1

\* resumeTarget, resumeExistingRun and the start of invokeWithConfig.  With
\* no task to start the run is completed at once.
GoOn(start, past) ==
    LET ckpt == schRun.ckpt
        run == [schRun EXCEPT !.status = "running"]
    IN  IF start = {}
        THEN BeginWave(run, [ready |-> {}, pend |-> ckpt.pend], ckpt.steps,
                       [past EXCEPT !.lost = @ \cup NodesOf(ckpt.pend)])
        ELSE BeginWave(run, ResumeSchedule(start, ckpt.pend), ckpt.steps, past)

ResumeTarget ==
    LET ckpt == schRun.ckpt
        past == [schPast EXCEPT !.owed = ckpt.owed]
    IN
    /\ Resumable(ckpt)
    /\ IF ckpt.stage = "after_node"
       THEN \E outs \in Resolutions(ckpt.cur) :
              LET next == NextTasks(outs)
                  resumed == [past EXCEPT !.owed = (@ \ NodesOf(ckpt.cur)) \cup NodesOf(next),
                                          !.lost = @ \ NodesOf(ckpt.cur)]
              IN  IF \E t \in ckpt.cur : outs[t].kind = "return"
                  THEN BeginWave([schRun EXCEPT !.status = "running"], [ready |-> {}, pend |-> {}],
                                 ckpt.steps, [resumed EXCEPT !.owed = {}])
                  ELSE IF \E t \in ckpt.cur : outs[t].kind = "suspend"
                  THEN PauseAt(Checkpoint("after_wave", {}, next, ckpt.pend, ckpt.steps, resumed.owed), resumed)
                  ELSE GoOn(next, [resumed EXCEPT !.ahead = next])
       ELSE GoOn(IF ckpt.stage = "after_wave" THEN ckpt.next ELSE ckpt.cur, past)

Resume ==
    /\ schRun.status = "paused"
    /\ ResumeTarget
    /\ UNCHANGED <<schGraph, schLeft>>

\* The process dies; another one takes the run over at its last checkpoint.
TakeOver ==
    /\ schRun.status = "running" /\ schLeft.crash > 0
    /\ ResumeTarget
    /\ schLeft' = [schLeft EXCEPT !.crash = @ - 1]
    /\ UNCHANGED schGraph

-----------------------------------------------------------------------------
SchTaskSteps ==
    \E t \in Tasks : StartTask(t) \/ InterruptTask(t) \/ CompleteTask(t) \/ FailTask(t) \/ CancelTask(t)
SchWaveSteps == WaveCompletes \/ ConditionFails \/ WaveRoutes \/ WaveInterrupted \/ WaveFails
\* What the Go scheduler keeps running once a run executes.
SchRunning == SchTaskSteps \/ SchWaveSteps

SchNext == SchRunning \/ RequestPause \/ Resume \/ TakeOver

-----------------------------------------------------------------------------
(* Properties *)

SchPhases == {"waiting", "active", "ok", "intr", "err", "canceled", "skipped"}

SchTypeOK ==
    /\ schGraph \in SchGraphs
    /\ schRun.status \in {"running", "paused", "completed", "failed"}
    /\ schRun.ckpt.stage \in {"before_node", "after_node", "after_wave"}
    /\ \A t \in Tasks : schExec.wave[t] \in SchPhases /\ t.node \in schGraph.nodes
    /\ schExec.steps \in 0..SchMaxSuperSteps
    /\ schPast.owed \cup schPast.lost \subseteq schGraph.nodes
    /\ schRun.status # "running" => Tasks = {}

\* A completed run executed every node that a completed task resolved to,
\* through joins, failure routes, pauses and recoveries, but for what three
\* places drop: the siblings' next tasks when one task of a wave is
\* interrupted, the others' when a condition fails, and the pending fan-in
\* when a resume after a node resolves to the end.
OnlyDroppedIsForgotten ==
    schRun.status = "completed" => schPast.owed \subseteq schPast.lost

\* A join never runs beside, or before, a scheduled static task that leads to
\* it and that it does not lead back to (hasUpstreamBlocker).  Tasks that a
\* resume after a node starts are not held back.
JoinsWaitForUpstream ==
    \A t \in Statics(Tasks) \ schPast.ahead : IsJoinNode(t.node) =>
        \A u \in Statics(Tasks) \cup schExec.pend : ~IsStrictUpstream(u.node, t.node)

\* Only a pause request that canceled a wave can leave a paused run that
\* resumeTarget refuses; breakpoints and node interrupts never do.
UnresumableOnlyByPause ==
    [][schRun'.status = "paused" /\ schRun.status = "running" /\ ~Resumable(schRun'.ckpt)
         => schExec.canceled]_schVars

\* The run is at rest.
SchSettled == schRun.status # "running"

\* runtime.md: "Checkpoint recovery restores the recorded business state and
\* execution position": a completed run forgot no task, whatever paused it.
NothingIsForgotten == schRun.status = "completed" => schPast.owed = {}

\* observability.md: "A paused Run retains its last checkpoint and can be
\* resumed with new input when the node contract allows it."
PausedRunCanResume == schRun.status = "paused" => Resumable(schRun.ckpt)

SchSpec == SchInit /\ [][SchNext]_schVars /\ WF_schVars(SchRunning)

=============================================================================

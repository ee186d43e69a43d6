----------------------------- MODULE NodeAttempt -----------------------------
(***************************************************************************)
(* The attempts of the tasks of one wave (graph/scheduler.go:              *)
(* executeTaskWithRetry; graph/graph.go: compilePatchCollector;            *)
(* core/concurrency.go: ConcurrencyLimiter; runtime: NodeAttempt,          *)
(* ExecuteNode, afterNode).                                                *)
(*                                                                         *)
(* The worker of a task takes a permit of the graph's limiter and one of   *)
(* the node's, starts the node in a goroutine and waits for its result or  *)
(* the attempt's deadline.  The two race: NodeAttempt decides whether the  *)
(* result is committed and delivered, or the attempt is abandoned while    *)
(* its goroutine runs on.                                                  *)
(***************************************************************************)
EXTENDS Integers, FiniteSets, SequencesExt

CONSTANTS
    NaTasks,        \* the tasks of the wave, all at the same node
    NaLimits,       \* [{"graph", "node"} -> permits], the possible configurations
    NaMaxAttempts,  \* RetryPolicy.MaxAttempts
    NaTimeoutBound  \* bound: deadlines that pass

VARIABLES
    naMain,     \* [NaTasks -> [pc, n, res]]: the worker, attempt n, its result
    naNode,     \* [NaTasks -> [pc, res]]: the goroutine of the last attempt
    naDecision, \* [NaTasks -> decision of the last attempt]
    naPatch,    \* the collector: [patch, abandoned]: [NaTasks -> patch], marked tasks
    naLim,      \* [{"graph", "node"} -> [limit, active, waiters]]
    naRun       \* [canceled, merged, commits, timeouts]: the run's context, the
                \* branches merged, commits of each task, deadlines left

naVars == <<naMain, naNode, naDecision, naPatch, naLim, naRun>>

NaInit ==
    /\ naMain = [t \in NaTasks |-> [pc |-> "prepare", n |-> 0, res |-> "none"]]
    /\ naNode = [t \in NaTasks |-> [pc |-> "none", res |-> "none"]]
    /\ naDecision = [t \in NaTasks |-> "pending"]
    /\ naPatch = [patch |-> [t \in NaTasks |-> "none"], abandoned |-> {}]
    /\ \E limit \in NaLimits :
         naLim = [l \in {"graph", "node"} |-> [limit |-> limit[l], active |-> 0, waiters |-> <<>>]]
    /\ naRun = [canceled |-> FALSE, merged |-> [t \in NaTasks |-> "none"],
                commits |-> [t \in NaTasks |-> 0], timeouts |-> NaTimeoutBound]

-----------------------------------------------------------------------------
(* ConcurrencyLimiter *)

\* TryAcquire, acquireWaiter
Acquired(lim, t) ==
    IF lim.active < lim.limit THEN [lim EXCEPT !.active = @ + 1]
    ELSE [lim EXCEPT !.waiters = Append(@, t)]

\* release: the permit goes to the first waiter
PermitReleased(lim) ==
    IF lim.waiters = <<>> THEN [lim EXCEPT !.active = @ - 1]
    ELSE [lim EXCEPT !.waiters = Tail(@)]

\* Mutant: a waiter that gives up keeps the permit it was handed.
WaiterLeaves(lim, t) == [lim EXCEPT !.waiters = SelectSeq(@, LAMBDA u : u # t)]

\* Acquire, when the context is done: cancelWaiter, or release if the permit
\* was handed over meanwhile
AcquireCanceled(lim, t) ==
    IF t \in ToSet(lim.waiters) THEN [lim EXCEPT !.waiters = SelectSeq(@, LAMBDA u : u # t)]
    ELSE PermitReleased(lim)

-----------------------------------------------------------------------------
(* compilePatchCollector *)

\* record: dropped once the task is abandoned
Record(coll, t, patch) ==
    IF t \in coll.abandoned THEN coll ELSE [coll EXCEPT !.patch[t] = patch]

\* Mutant: the abandoned task keeps the patch it recorded.
MarkAbandoned(coll, t) == [coll EXCEPT !.abandoned = @ \cup {t}]

\* abandonTask
AbandonTask(coll, t) == [abandoned |-> coll.abandoned \cup {t}, patch |-> [coll.patch EXCEPT ![t] = "empty"]]

\* releaseAbandonedTask
ReleaseAbandoned(coll, t) == [coll EXCEPT !.abandoned = @ \ {t}]

-----------------------------------------------------------------------------
(* NodeAttempt *)

\* TryAccept
Accepted(d) == IF d = "pending" THEN "accepted" ELSE d


\* TryAbandon succeeds
MayAbandon(d) == d = "pending"

-----------------------------------------------------------------------------
(* The worker of a task *)

\* The task ends; executeTasks records an empty branch for an error.
TaskEnds(t, res) ==
    /\ naMain' = [naMain EXCEPT ![t] = [@ EXCEPT !.pc = "done", !.res = res]]
    /\ naPatch' = IF res = "ok" THEN naPatch ELSE Record(naPatch, t, "empty")

\* A new attempt: beforeNode, then the graph's limiter.
PrepareNode(t) ==
    /\ naMain[t].pc = "prepare"
    /\ IF naRun.canceled THEN TaskEnds(t, "canceled") /\ UNCHANGED <<naDecision, naLim>>
       ELSE /\ naMain' = [naMain EXCEPT ![t] = [pc |-> "graph", n |-> @.n + 1, res |-> "none"]]
            /\ naDecision' = [naDecision EXCEPT ![t] = "pending"]
            /\ naLim' = [naLim EXCEPT !["graph"] = Acquired(@, t)]
            /\ UNCHANGED naPatch
    /\ UNCHANGED <<naNode, naRun>>

HasPermit(t, l) == naMain[t].pc = l /\ t \notin ToSet(naLim[l].waiters)

AcquireNode(t) ==
    /\ HasPermit(t, "graph")
    /\ naMain' = [naMain EXCEPT ![t].pc = "node"]
    /\ naLim' = [naLim EXCEPT !["node"] = Acquired(@, t)]
    /\ UNCHANGED <<naNode, naDecision, naPatch, naRun>>

\* The context ends while the worker waits for a permit.
AcquireFails(t) ==
    /\ naRun.canceled /\ naMain[t].pc \in {"graph", "node"}
    /\ TaskEnds(t, "canceled")
    /\ naLim' = IF naMain[t].pc = "graph" THEN [naLim EXCEPT !["graph"] = AcquireCanceled(@, t)]
                ELSE [naLim EXCEPT !["node"] = AcquireCanceled(@, t), !["graph"] = PermitReleased(@)]
    /\ UNCHANGED <<naNode, naDecision, naRun>>

StartAttempt(t) ==
    /\ HasPermit(t, "node")
    /\ naMain' = [naMain EXCEPT ![t].pc = "wait"]
    /\ naNode' = [naNode EXCEPT ![t] = [pc |-> "running", res |-> "none"]]
    /\ UNCHANGED <<naDecision, naPatch, naLim, naRun>>

\* Mutant: MaxAttempts counts the retries.
RetriesLeft(n) == n <= NaMaxAttempts

AttemptsLeft(n) == n < NaMaxAttempts

\* Mutant: an abandoned attempt is retried like any timeout.
TimeoutRetried(t) == AttemptsLeft(naMain[t].n)

\* retryable: an abandoned attempt never is
AbandonRetried(t) == FALSE

ReceiveResult(t) ==
    /\ naMain[t].pc \in {"wait", "await"} /\ naNode[t].pc \in {"sent", "ended"}
    /\ IF naNode[t].res = "ok" THEN TaskEnds(t, "ok")
       ELSE \/ TaskEnds(t, "err")
            \/ /\ AttemptsLeft(naMain[t].n)
               /\ naMain' = [naMain EXCEPT ![t].pc = "delay"]
               /\ UNCHANGED naPatch
    /\ UNCHANGED <<naNode, naDecision, naLim, naRun>>

RetryDelay(t) ==
    /\ naMain[t].pc = "delay"
    /\ IF naRun.canceled THEN TaskEnds(t, "canceled")
       ELSE naMain' = [naMain EXCEPT ![t].pc = "prepare"] /\ UNCHANGED naPatch
    /\ UNCHANGED <<naNode, naDecision, naLim, naRun>>

\* The deadline of the attempt, or the end of the run's context.
AttemptDone(t) ==
    /\ naMain[t].pc = "wait" /\ (naRun.canceled \/ naRun.timeouts > 0)
    /\ naRun' = IF naRun.canceled THEN naRun ELSE [naRun EXCEPT !.timeouts = @ - 1]
    /\ IF MayAbandon(naDecision[t])
       THEN /\ naDecision' = [naDecision EXCEPT ![t] = "abandoned"]
            /\ naMain' = [naMain EXCEPT ![t].pc = "abandon"]
       ELSE /\ naMain' = [naMain EXCEPT ![t].pc = "await"]
            /\ UNCHANGED naDecision
    /\ UNCHANGED <<naNode, naPatch, naLim>>

Abandon(t) ==
    /\ naMain[t].pc = "abandon"
    /\ naPatch' = AbandonTask(naPatch, t)
    /\ naMain' = [naMain EXCEPT ![t] =
          IF naRun.canceled THEN [@ EXCEPT !.pc = "done", !.res = "canceled"]
          ELSE IF AbandonRetried(t) THEN [@ EXCEPT !.pc = "delay"]
          ELSE [@ EXCEPT !.pc = "done", !.res = "timeout"]]
    /\ UNCHANGED <<naNode, naDecision, naLim, naRun>>

-----------------------------------------------------------------------------
(* The goroutine of an attempt *)

NodeAt(t, pc, res) == naNode' = [naNode EXCEPT ![t] = [pc |-> pc, res |-> res]]

\* ExecuteNode: the node returned; its patch, or an empty one, is recorded.
NodeReturns(t) ==
    /\ naNode[t].pc = "running"
    /\ \/ NodeAt(t, "accept", "ok") /\ naPatch' = Record(naPatch, t, "full")
       \/ NodeAt(t, "close", "err") /\ naPatch' = Record(naPatch, t, "empty")
    /\ UNCHANGED <<naMain, naDecision, naLim, naRun>>

\* Mutant: the result is committed although the attempt was abandoned.
CommitsAnyway(d) == TRUE

\* acceptNodeAttempt returns no error
MayCommit(d) == d # "abandoned"

\* afterNode accepts the attempt before it commits.
AcceptAttempt(t) ==
    /\ naNode[t].pc = "accept"
    /\ IF MayCommit(naDecision[t])
       THEN NodeAt(t, "commit", "ok") /\ naPatch' = naPatch
       ELSE NodeAt(t, "close", "err") /\ naPatch' = Record(naPatch, t, "empty")
    /\ naDecision' = [naDecision EXCEPT ![t] = Accepted(@)]
    /\ UNCHANGED <<naMain, naLim, naRun>>

CommitResult(t) ==
    /\ naNode[t].pc = "commit"
    /\ \/ /\ NodeAt(t, "close", "ok")
          /\ naRun' = [naRun EXCEPT !.commits[t] = @ + 1]
          /\ UNCHANGED naPatch
       \/ /\ NodeAt(t, "close", "err")
          /\ naPatch' = Record(naPatch, t, "empty")
          /\ UNCHANGED naRun
    /\ UNCHANGED <<naMain, naDecision, naLim>>

\* The deferred function: the permits, then the result, then the marker.
CloseAttempt(t) ==
    /\ naNode[t].pc = "close"
    /\ NodeAt(t, "sent", naNode[t].res)
    /\ naDecision' = [naDecision EXCEPT ![t] = Accepted(@)]
    /\ naLim' = [l \in {"graph", "node"} |-> PermitReleased(naLim[l])]
    /\ UNCHANGED <<naMain, naPatch, naRun>>

EndAttempt(t) ==
    /\ naNode[t].pc = "sent"
    /\ NodeAt(t, "ended", naNode[t].res)
    /\ naPatch' = IF naDecision[t] = "abandoned" THEN ReleaseAbandoned(naPatch, t) ELSE naPatch
    /\ UNCHANGED <<naMain, naDecision, naLim, naRun>>

-----------------------------------------------------------------------------
CancelRun ==
    /\ ~naRun.canceled /\ \E t \in NaTasks : naMain[t].pc # "done"
    /\ naRun' = [naRun EXCEPT !.canceled = TRUE]
    /\ UNCHANGED <<naMain, naNode, naDecision, naPatch, naLim>>

\* mergeCompiledResults consumes the branches when every worker returned.
MergeWave ==
    /\ \A t \in NaTasks : naMain[t].pc = "done"
    /\ \E t \in NaTasks : naPatch.patch[t] # "none"
    /\ naRun' = [naRun EXCEPT !.merged = naPatch.patch]
    /\ naPatch' = [naPatch EXCEPT !.patch = [t \in NaTasks |-> "none"]]
    /\ UNCHANGED <<naMain, naNode, naDecision, naLim>>

NaWorkers == \E t \in NaTasks :
    \/ PrepareNode(t) \/ AcquireNode(t) \/ AcquireFails(t) \/ StartAttempt(t)
    \/ ReceiveResult(t) \/ RetryDelay(t) \/ Abandon(t)
NaGoroutines == \E t \in NaTasks :
    \/ NodeReturns(t) \/ AcceptAttempt(t) \/ CommitResult(t) \/ CloseAttempt(t) \/ EndAttempt(t)

NaNext == NaWorkers \/ NaGoroutines \/ MergeWave \/ CancelRun \/ \E t \in NaTasks : AttemptDone(t)
NaSpec == NaInit /\ [][NaNext]_naVars /\ WF_naVars(NaWorkers) /\ WF_naVars(NaGoroutines)

-----------------------------------------------------------------------------
(* Properties *)

NaTypeOK ==
    /\ \A t \in NaTasks :
         /\ naMain[t].pc \in {"prepare", "graph", "node", "wait", "await", "abandon", "delay", "done"}
         /\ naMain[t].n \in 0..NaMaxAttempts
         /\ naMain[t].res \in {"none", "ok", "err", "timeout", "canceled"}
         /\ naNode[t].pc \in {"none", "running", "accept", "commit", "close", "sent", "ended"}
         /\ naDecision[t] \in {"pending", "accepted", "abandoned"}
         /\ naPatch.patch[t] \in {"none", "empty", "full"}
    /\ naPatch.abandoned \subseteq NaTasks

\* Exactly one side of the race wins: the result of a task is committed to
\* the store if and only if its worker reports success, and never twice.
CommittedIffDelivered ==
    \A t \in NaTasks :
        /\ naRun.commits[t] <= 1
        /\ naMain[t].pc = "done" => (naRun.commits[t] = 1 <=> naMain[t].res = "ok")

\* The merged state holds a branch of every task, and exactly the patches of
\* the tasks whose workers report success; a goroutine that runs on after its
\* attempt was abandoned adds nothing.
MergedIffDelivered ==
    (\E t \in NaTasks : naRun.merged[t] # "none") =>
        \A t \in NaTasks : naRun.merged[t] = IF naMain[t].res = "ok" THEN "full" ELSE "empty"

\* A permit in use belongs to a worker or a goroutine, and nobody waits for a
\* free one: cancellations and abandoned attempts lose no permit.
PermitsAreConserved ==
    \A l \in {"graph", "node"} :
        LET running == {t \in NaTasks : naNode[t].pc \in {"running", "accept", "commit", "close"}}
            held == {t \in NaTasks : HasPermit(t, l) \/ (l = "graph" /\ naMain[t].pc = "node")}
        IN  /\ naLim[l].active = Cardinality(held) + Cardinality(running)
            /\ naLim[l].active <= naLim[l].limit
            /\ naLim[l].waiters # <<>> => naLim[l].active = naLim[l].limit

\* A task never has a second attempt while the first one's goroutine runs.
OneAttemptAtATime ==
    [][\A t \in NaTasks : naNode'[t].pc = "running" /\ naNode[t].pc # "running"
          => naNode[t].pc \in {"none", "sent", "ended"}]_naVars

\* Every worker returned, every goroutine ended and gave its permits back.
NaSettled ==
    /\ \A t \in NaTasks : naMain[t].pc = "done" /\ naNode[t].pc \in {"none", "ended"}
    /\ \A l \in {"graph", "node"} : naLim[l].active = 0 /\ naLim[l].waiters = <<>>

=============================================================================

------------------------------ MODULE Effects ------------------------------
(***************************************************************************)
(* What happens to the effects of nodes that fail (core/effect.go, the     *)
(* scheduler's retryable, runtime/effect_resolution.go): a run of two      *)
(* nodes, one after the other, whose first may route its failure to the    *)
(* second; the requests to resolve an effect whose outcome is unknown,     *)
(* handled at the same time and interrupted anywhere.                      *)
(*                                                                         *)
(* A node's step is written with its before-node checkpoint.  A request    *)
(* is honest: it confirms that an effect was not applied only if so.       *)
(***************************************************************************)
EXTENDS Naturals, Sequences

\* The scenes to play: [class, routed, queued, alike, actions, errors, crashes, pauses].
CONSTANT EfScenes

\* A scene has the effect class of each node, whether the first node has a failure route,
\* whether node tasks go through a queue, whether the two requests have one identity, the
\* actions they ask for, and bounds on errors, crashes of the process and pauses.
ASSUME EffectsAssumption ==
    \A s \in EfScenes :
        /\ \A n \in {1, 2} : s.class[n] \in {"read_only", "idempotent_write", "non_idempotent_write", "compensatable"}
        /\ {s.routed, s.queued, s.alike} \subseteq BOOLEAN
        /\ s.actions \subseteq {"confirm_not_applied", "compensate"}
        /\ {s.errors, s.crashes, s.pauses} \subseteq Nat

Requests == {"p", "q"}  \* each is handled by a process of its own

VARIABLES
    efScene,  \* the scene; it does not change
    efRun,    \* [status, at]: the run record, with the node of its last checkpoint
    efSteps,  \* the step records: [node, status, effect, res]
    efPc,     \* the executor: "off", "start", "handler", "returns"
    efAttempt, \* the attempts of the node, and whether this one has acted: [n, acted]
    efOut,    \* node -> how often its effect is in the world
    efTask,   \* node -> the status of its queue task
    efOps,    \* step -> the status of its compensation in the journal, and the calls made
    efReq,    \* request -> [pc, step, action, fresh]
    efLeft,   \* the errors, crashes and pauses that are left
    efOdd     \* nodes cut short or left behind by a failure route; EfOverlap

efVars == <<efScene, efRun, efSteps, efPc, efAttempt, efOut, efTask, efOps, efReq, efLeft, efOdd>>

NoRes == [id |-> "", action |-> "", status |-> ""]
NoRequest == [pc |-> "idle", step |-> 0, action |-> "", fresh |-> FALSE]
EfOverlap == 0  \* no node: two requests were handled at once
StepMax == 4  \* a bound on the steps of the run

EfInit ==
    /\ efScene \in EfScenes
    /\ efRun = [status |-> "running", at |-> 1]
    /\ efSteps = <<>>
    /\ efPc = "start" /\ efAttempt = [n |-> 1, acted |-> FALSE]
    /\ efOut = [n \in {1, 2} |-> 0]
    /\ efTask = [n \in {1, 2} |-> ""]
    /\ efOps = <<>>
    /\ efReq = [p \in Requests |-> NoRequest]
    /\ efLeft = [errors |-> efScene.errors, crashes |-> efScene.crashes, pauses |-> efScene.pauses]
    /\ efOdd = {}

\* IsWriteEffect
IsWrite(class) == class \in {"idempotent_write", "non_idempotent_write", "compensatable"}

\* Every commit of the run record is a revision the snapshots of the requests do not have.
RunChanged == [p \in Requests |-> [efReq[p] EXCEPT !.fresh = FALSE]]

LastStep == Len(efSteps)
NodeNow == efSteps[LastStep].node

-----------------------------------------------------------------------------
(* The execution *)

\* OnNodeStart finds the queue task of a node that runs again.
TaskRuns(n) == efScene.queued => efTask[n] \in {"", "queued", "running"}

\* OnNodeStart: the step, with the intent of its effect, and its checkpoint; or the queue
\* refuses the task and the run fails.
EfStart ==
    /\ efPc = "start" /\ LastStep < StepMax
    /\ IF TaskRuns(efRun.at)
       THEN /\ efSteps' = Append(efSteps, [node |-> efRun.at, status |-> "running", effect |-> "intent", res |-> NoRes])
            /\ efOps' = Append(efOps, [status |-> "", calls |-> 0])
            /\ efTask' = [efTask EXCEPT ![efRun.at] = "running"]
            /\ efPc' = "handler" /\ efAttempt' = [n |-> 1, acted |-> FALSE]
            /\ UNCHANGED efRun
       ELSE /\ efRun' = [efRun EXCEPT !.status = "failed"]
            /\ efPc' = "off" /\ UNCHANGED <<efSteps, efOps, efTask, efAttempt>>
    /\ efReq' = RunChanged
    /\ UNCHANGED <<efScene, efOut, efLeft, efOdd>>

\* The node acts on the world.  An idempotent write, made again with its operation key,
\* changes nothing.
EfAct ==
    /\ efPc = "handler" /\ ~efAttempt.acted
    /\ efAttempt' = [efAttempt EXCEPT !.acted = TRUE]
    /\ LET class == efScene.class[NodeNow]
       IN  efOut' = [efOut EXCEPT ![NodeNow] =
             IF ~IsWrite(class) \/ (class = "idempotent_write" /\ @ = 1) THEN @ ELSE @ + 1]
    /\ UNCHANGED <<efScene, efRun, efSteps, efPc, efTask, efOps, efReq, efLeft, efOdd>>

EndStep(status, effect) ==
    efSteps' = [efSteps EXCEPT ![LastStep].status = status, ![LastStep].effect = effect]

\* The node returns: the run goes on to the next node, or is completed.
EfSucceeds ==
    /\ efPc = "handler" /\ efAttempt.acted
    /\ EndStep("succeeded", "succeeded")
    /\ efTask' = [efTask EXCEPT ![NodeNow] = "completed"]
    /\ efRun' = IF NodeNow = 1 THEN [efRun EXCEPT !.at = 2] ELSE [efRun EXCEPT !.status = "completed"]
    /\ efPc' = IF NodeNow = 1 THEN "start" ELSE "off"
    /\ efReq' = RunChanged
    /\ UNCHANGED <<efScene, efAttempt, efOut, efOps, efLeft, efOdd>>

\* Mutant: writes are retried like any other node.
RetriesAll(class) == TRUE

\* retryable, for an error the policy retries: never for a write that is not idempotent.
Retryable(class) == class \notin {"non_idempotent_write", "compensatable"}

\* Mutant: the effect of a node that failed is taken not to have happened.
JustFailed(class) == "failed"

\* effectFailureStatus
FailureStatus(class) == IF IsWrite(class) THEN "unknown" ELSE "failed"

\* The node returns an error: it is tried once more if that is allowed, else the failure
\* is routed (OnFailureRouted) or the run fails (prepareFailedSteps).
EfFails ==
    /\ efPc = "handler" /\ efLeft.errors > 0
    /\ efLeft' = [efLeft EXCEPT !.errors = @ - 1]
    /\ LET class == efScene.class[NodeNow]
           routed == efScene.routed /\ NodeNow = 1
       IN  IF Retryable(class) /\ efAttempt.n = 1
           THEN /\ efAttempt' = [n |-> 2, acted |-> FALSE]
                /\ UNCHANGED <<efRun, efSteps, efPc, efTask, efReq, efOdd>>
           ELSE /\ EndStep("failed", FailureStatus(class))
                /\ efTask' = [efTask EXCEPT ![NodeNow] = "failed"]
                /\ efRun' = IF routed THEN [efRun EXCEPT !.at = 2] ELSE [efRun EXCEPT !.status = "failed"]
                /\ efPc' = IF routed THEN "start" ELSE "off"
                /\ efOdd' = IF routed THEN efOdd \cup {1, 2} ELSE efOdd
                /\ efReq' = RunChanged
                /\ UNCHANGED efAttempt
    /\ UNCHANGED <<efScene, efOut, efOps>>

\* A pause cancels the node that runs (resolvePendingControl): its step is paused and the
\* node will begin again.
EfPause ==
    /\ efPc = "handler" /\ efLeft.pauses > 0
    /\ efLeft' = [efLeft EXCEPT !.pauses = @ - 1]
    /\ efSteps' = [efSteps EXCEPT ![LastStep].status = "paused"]
    /\ efTask' = [efTask EXCEPT ![NodeNow] = "queued"]
    /\ efRun' = [efRun EXCEPT !.status = "paused"]
    /\ efPc' = "off" /\ efReq' = RunChanged
    /\ efOdd' = efOdd \cup {NodeNow}
    /\ UNCHANGED <<efScene, efAttempt, efOut, efOps>>

\* The executor's process stops; the run record stays as it is.
EfCrash ==
    /\ efPc \in {"start", "handler"} /\ efLeft.crashes > 0
    /\ efLeft' = [efLeft EXCEPT !.crashes = @ - 1]
    /\ efOdd' = IF efPc = "handler" THEN efOdd \cup {NodeNow} ELSE efOdd
    /\ efPc' = "off"
    /\ UNCHANGED <<efScene, efRun, efSteps, efAttempt, efOut, efTask, efOps, efReq>>

\* Mutant: nothing is looked at.
NotChecked == TRUE

\* ensureRunEffectsResolved
EffectsResolved ==
    efRun.status = "failed" => \A i \in DOMAIN efSteps : efSteps[i].effect # "unknown"

\* Resume, from the last checkpoint.  A failed run is continued as another run, which is
\* not followed further.
EfResume ==
    /\ efPc = "off" /\ efRun.status \in {"running", "paused", "failed"}
    /\ EffectsResolved
    /\ IF efRun.status = "failed"
       THEN efRun' = [efRun EXCEPT !.status = "continued"] /\ UNCHANGED efPc
       ELSE efRun' = [efRun EXCEPT !.status = "running"] /\ efPc' = "start"
    /\ efReq' = RunChanged
    /\ UNCHANGED <<efScene, efSteps, efAttempt, efOut, efTask, efOps, efLeft, efOdd>>

-----------------------------------------------------------------------------
(* ResolveEffect *)

IdOf(p) == IF efScene.alike THEN "r" ELSE p

\* The other fields of a request, like its actor, belong to its identity.
SameIdentity(p, res, action) == res.id = IdOf(p) /\ res.action = action

ReqTo(p, pc) == efReq' = [efReq EXCEPT ![p].pc = pc]

EfStill == UNCHANGED <<efScene, efPc, efAttempt, efTask, efLeft>>

\* Mutant: a compensation that was begun is taken to be done.
BegunIsDone(op, action) ==
    IF action = "compensate" /\ op.status = "" THEN "journal" ELSE "complete"

\* replayEffectResolution of an intent: a compensation that was begun and has no known
\* outcome is not begun again.
ReplayTo(op, action) ==
    CASE action = "confirm_not_applied" \/ op.status = "succeeded" -> "complete"
      [] action = "compensate" /\ op.status = "" -> "journal"
      [] action = "compensate" /\ op.status \in {"intent", "unknown"} -> "unknown"

\* ResolveEffect reads the run and the step: it begins a resolution, or replays the one
\* there is.
RqLoad(p, i, action) ==
    LET step == efSteps[i]
        begins == step.res.status = "" /\ efRun.status = "failed" /\ step.status = "failed" /\ step.effect = "unknown"
        replays == step.res.status = "intent" /\ SameIdentity(p, step.res, action)
    IN  /\ efReq[p].pc = "idle" /\ (begins \/ replays)
        /\ action = "confirm_not_applied" => efOut[step.node] = 0
        /\ efReq' = [efReq EXCEPT ![p] = [step |-> i, action |-> action, fresh |-> TRUE,
                                          pc |-> IF begins THEN "intent" ELSE ReplayTo(efOps[i], action)]]
        /\ efOdd' = IF \E o \in Requests \ {p} : efReq[o].pc \notin {"idle", "done"} /\ efReq[o].step = i
                    THEN efOdd \cup {EfOverlap} ELSE efOdd
        /\ EfStill /\ UNCHANGED <<efRun, efSteps, efOut, efOps>>

\* The intent of the resolution is committed.  If the run has been changed since, or a
\* resolution has been begun, the request ends: its replay finds its own claim.
RqIntent(p) ==
    LET r == efReq[p]
    IN  /\ r.pc = "intent"
        /\ IF r.fresh /\ efSteps[r.step].res.status = ""
           THEN /\ efSteps' = [efSteps EXCEPT ![r.step].res = [id |-> IdOf(p), action |-> r.action, status |-> "intent"]]
                /\ efReq' = [RunChanged EXCEPT ![p] = [r EXCEPT !.pc = IF r.action = "compensate" THEN "journal" ELSE "complete"]]
           ELSE ReqTo(p, "done") /\ UNCHANGED efSteps
        /\ EfStill /\ UNCHANGED <<efRun, efOut, efOps, efOdd>>


\* recordResolvedEffect commits under an ID made of the resolution and the status: a
\* second intent is refused.
JournalTakes(r) == r.fresh /\ efOps[r.step].status = ""

\* executeEffectCompensation records what it is about to do.
RqJournal(p) ==
    LET r == efReq[p]
    IN  /\ r.pc = "journal"
        /\ IF JournalTakes(r)
           THEN efOps' = [efOps EXCEPT ![r.step].status = "intent"] /\ ReqTo(p, "compensate")
           ELSE ReqTo(p, "unknown") /\ UNCHANGED efOps
        /\ EfStill /\ UNCHANGED <<efRun, efSteps, efOut, efOdd>>

\* The node's compensator undoes the effect; its error may come before or after.
\* A node that is not compensatable has none.
RqCompensate(p) ==
    LET r == efReq[p]
        node == efSteps[r.step].node
        undone == [efOut EXCEPT ![node] = IF @ > 0 THEN @ - 1 ELSE 0]
    IN  /\ r.pc = "compensate"
        /\ IF efScene.class[node] = "compensatable"
           THEN /\ efOps' = [efOps EXCEPT ![r.step].calls = @ + 1]
                /\ \/ efOut' = undone /\ ReqTo(p, "compensated")
                   \/ efOut' \in {undone, efOut} /\ ReqTo(p, "failed")
           ELSE ReqTo(p, "failed") /\ UNCHANGED <<efOps, efOut>>
        /\ EfStill /\ UNCHANGED <<efRun, efSteps, efOdd>>

\* Its outcome is recorded; that of a failure is not insisted on.
RqOutcome(p) ==
    LET r == efReq[p]
    IN  /\ r.pc \in {"compensated", "failed"}
        /\ efOps' = IF r.fresh THEN [efOps EXCEPT ![r.step].status = IF r.pc = "failed" THEN "unknown" ELSE "succeeded"]
                    ELSE efOps
        /\ ReqTo(p, IF r.pc = "compensated" /\ r.fresh THEN "complete" ELSE "unknown")
        /\ EfStill /\ UNCHANGED <<efRun, efSteps, efOut, efOdd>>

\* Mutant: an outcome may be replaced.
AnyTransition(from) == TRUE

\* validateStepEffectTransition: only an intent gets an outcome.
TransitionAllowed(from) == from = "intent"

\* persistUnknownEffectResolution
RqUnknown(p) ==
    LET r == efReq[p]
    IN  /\ r.pc = "unknown"
        /\ efSteps' = IF r.fresh /\ TransitionAllowed(efSteps[r.step].res.status)
                      THEN [efSteps EXCEPT ![r.step].res.status = "unknown"] ELSE efSteps
        /\ ReqTo(p, "done")
        /\ EfStill /\ UNCHANGED <<efRun, efOut, efOps, efOdd>>

\* Mutant: the step's own status is left as it is.
LeftUnknown(action) == "unknown"

\* What a resolution makes of the effect's status.
ResolvedEffect(action) == IF action = "compensate" THEN "compensated" ELSE "not_applied"

\* completeEffectResolution: the run is paused before the node.
RqComplete(p) ==
    LET r == efReq[p]
    IN  /\ r.pc = "complete"
        /\ IF r.fresh /\ TransitionAllowed(efSteps[r.step].res.status)
           THEN /\ efSteps' = [efSteps EXCEPT ![r.step].res.status = "succeeded", ![r.step].effect = ResolvedEffect(r.action)]
                /\ efRun' = [status |-> "paused", at |-> efSteps[r.step].node]
                /\ efReq' = [RunChanged EXCEPT ![p] = [r EXCEPT !.pc = "done", !.fresh = FALSE]]
           ELSE ReqTo(p, "done") /\ UNCHANGED <<efSteps, efRun>>
        /\ EfStill /\ UNCHANGED <<efOut, efOps, efOdd>>

\* The process that handles a request stops; the request may be made again.
RqCrash(p) ==
    /\ efReq[p].pc \notin {"idle", "done"} /\ efLeft.crashes > 0
    /\ efLeft' = [efLeft EXCEPT !.crashes = @ - 1]
    /\ efReq' = [efReq EXCEPT ![p] = NoRequest]
    /\ UNCHANGED <<efScene, efRun, efSteps, efPc, efAttempt, efOut, efTask, efOps, efOdd>>

-----------------------------------------------------------------------------

EfHandles(p) ==
    RqIntent(p) \/ RqJournal(p) \/ RqCompensate(p) \/ RqOutcome(p) \/ RqUnknown(p) \/ RqComplete(p)

EfRuns == EfStart \/ EfAct \/ EfSucceeds \/ \E p \in Requests : EfHandles(p)

EfNext ==
    \/ EfRuns \/ EfFails \/ EfPause \/ EfCrash \/ EfResume
    \/ \E p \in Requests : RqCrash(p) \/ \E i \in DOMAIN efSteps, a \in efScene.actions : RqLoad(p, i, a)

-----------------------------------------------------------------------------
(* Properties *)

\* The records have the values the code gives them.
EfTypeOK ==
    /\ efRun.status \in {"running", "paused", "failed", "completed", "continued"} /\ efRun.at \in {1, 2}
    /\ \A i \in DOMAIN efSteps :
         /\ efSteps[i].effect \in {"intent", "succeeded", "failed", "unknown", "not_applied", "compensated"}
         /\ efSteps[i].res.status \in {"", "intent", "succeeded", "unknown"}
         /\ efSteps[i].res.status = "succeeded" <=> efSteps[i].effect \in {"not_applied", "compensated"}
    /\ DOMAIN efOps = DOMAIN efSteps

\* An effect is compensated at most once, by however many processes a resolution is
\* handled and wherever they stop.
CompensatedOnce == \A i \in DOMAIN efOps : efOps[i].calls <= 1

\* A step is recorded as compensated only if its compensation succeeded, and given up only
\* if that is not known, unless two processes handled the resolution at once.
ResolutionIsTrue ==
    \A i \in DOMAIN efSteps :
        /\ efSteps[i].effect = "compensated" => efOps[i].status = "succeeded"
        /\ efSteps[i].res.status = "unknown" /\ efOps[i].status = "succeeded" => EfOverlap \in efOdd

\* The effect of a write that must not be repeated is never twice in the world, unless the
\* node was interrupted by a crash or a pause, or its failure was routed: then it is begun
\* again without a resolution.
WriteIsNotRepeated ==
    \A n \in {1, 2} : efOut[n] > 1 => n \in efOdd

\* A failed run is carried on as another one only when each write that failed has been
\* resolved.
CarriesOnResolved ==
    efRun.status = "continued" =>
        \A i \in DOMAIN efSteps :
            efSteps[i].status = "failed" /\ IsWrite(efScene.class[efSteps[i].node]) => efSteps[i].res.status = "succeeded"

\* The outcome of a resolution is final: neither a retry nor another process changes it.
OutcomeIsFinal ==
    [][\A i \in DOMAIN efSteps :
         efSteps[i].res.status \in {"succeeded", "unknown"} => efSteps'[i].res = efSteps[i].res]_efVars

\* "effect resolution completed; run is safe to resume" (effect_resolution.go): a run that
\* is resumed after a resolution can start its node.
SafeToResume == [][~(efPc = "start" /\ efRun'.status = "failed")]_efVars

\* Requests return, and the run stops running.
EfQuiet == (\A p \in Requests : efReq[p].pc \in {"idle", "done"}) /\ (efPc = "off" \/ LastStep = StepMax)

=============================================================================

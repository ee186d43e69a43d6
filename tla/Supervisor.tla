---------------------------- MODULE Supervisor ----------------------------
(***************************************************************************)
(* A supervisor that delegates to workers until they have met its finish   *)
(* requirements (node/supervisor), in the graph and with the tools of      *)
(* examples/supervisor_mode: workers edit a workspace and must have it     *)
(* validated by a tool; a synthesis node gives the answer.                 *)
(*                                                                         *)
(* The state is committed when a node ends, so a crash repeats the node;   *)
(* the workspace and what the tools did to it stay.  Of a result only the  *)
(* marker is kept, of the workspace which validations it would pass.       *)
(***************************************************************************)
EXTENDS Naturals, Sequences

\* The scenes to play: [members, sequential, maxTurns, attempts, markers, finisher, prefer,
\* stage, iterations, retries, crashes].
CONSTANT SvScenes

\* A scene has the configuration of the supervisor (Members, RoutingStrategy, MaxTurns,
\* RouteAttempts, FinishMarkers, FinishWorker), of the synthesis (PreferredWorkers), the
\* stage the validation tool of each worker checks ("" for a worker that may answer
\* itself), the iterations of a worker, the attempts of retryingModel, and a bound on
\* crashes.  Node.Validate refuses the other configurations.
ASSUME SupervisorAssumption ==
    \A s \in SvScenes :
        LET members == {s.members[i] : i \in DOMAIN s.members}
        IN  /\ s.members # <<>>
            /\ \A i, j \in DOMAIN s.members : s.members[i] = s.members[j] => i = j
            /\ "finish" \notin members /\ "" \notin members
            /\ {s.maxTurns, s.attempts, s.iterations, s.retries} \subseteq Nat \ {0}
            /\ s.sequential => s.maxTurns >= Len(s.members)
            /\ s.markers # {} => s.finisher # ""
            /\ s.finisher \in members \cup {"", "*"}
            /\ {s.prefer[i] : i \in DOMAIN s.prefer} \subseteq members

VARIABLES
    svScene, \* the scene; it does not change
    svNode,  \* the node that runs: "supervisor", a worker, "synthesis", "done" or "failed"
    svView,  \* [route, task, status, turns, history]: the supervisor's state, as committed
    svAsk,   \* [route, model]: the attempts at a route, and at one response, that are left
    svLoop,  \* [iter, result]: the worker's agent loop
    svSpace, \* the workspace: 0 if it does not build, 1 if its tests pass, 2 if it is accepted
    svLeft   \* the crashes that are left

svVars == <<svScene, svNode, svView, svAsk, svLoop, svSpace, svLeft>>

SvMembers == {svScene.members[i] : i \in DOMAIN svScene.members}
NewAsk == [route |-> svScene.attempts, model |-> svScene.retries]
NewLoop == [iter |-> 0, result |-> ""]

SvInit ==
    /\ svScene \in SvScenes
    /\ svNode = "supervisor"
    /\ svView = [route |-> "", task |-> FALSE, status |-> "", turns |-> 0, history |-> <<>>]
    /\ svAsk = NewAsk /\ svLoop = NewLoop
    /\ svSpace = 0
    /\ svLeft = svScene.crashes

-----------------------------------------------------------------------------
(* The supervisor *)

\* latestWorkerResult
LatestResult(history, worker) ==
    LET of == {i \in DOMAIN history : history[i].worker = worker}
    IN  IF of = {} THEN "" ELSE history[CHOOSE i \in of : \A j \in of : j <= i].result

\* Mutant: any result will do.
AnyResult(history) == history # <<>>

\* validateFinish: every marker is in the latest result of the finish worker, or in some
\* result if any worker will do.
ValidFinish(history) ==
    \A m \in svScene.markers :
        IF svScene.finisher = "*"
        THEN \E i \in DOMAIN history : history[i].result = m
        ELSE LatestResult(history, svScene.finisher) = m

\* setRoute
SetRoute(view, route, task, turns) ==
    [view EXCEPT !.route = route, !.task = task /\ route # "finish", !.turns = turns,
                 !.status = IF route = "finish" THEN "finalizing" ELSE "delegating"]

\* The edges of the graph: supervisor_route_equals for each worker, else the synthesis.
RoutesTo(view) == IF view.route \in SvMembers THEN view.route ELSE "synthesis"

SvRouted(route, turns) ==
    LET view == SetRoute(svView, route, TRUE, turns)
    IN  /\ svView' = view
        /\ svNode' = RoutesTo(view)
        /\ svAsk' = NewAsk /\ svLoop' = NewLoop
        /\ UNCHANGED <<svScene, svSpace, svLeft>>

SvFails == svNode' = "failed" /\ UNCHANGED <<svScene, svView, svAsk, svLoop, svSpace, svLeft>>

SvFinishOrFail ==
    IF ValidFinish(svView.history) THEN SvRouted("finish", svView.turns) ELSE SvFails

\* Mutant: a limit that is reached is noticed one turn later.
LateLimit(turns) == turns > svScene.maxTurns

TurnsAreUp(turns) == turns >= svScene.maxTurns

\* Node.execute: the limit ends the delegation.
SvLimit ==
    /\ svNode = "supervisor" /\ TurnsAreUp(svView.turns)
    /\ SvFinishOrFail

\* Mutant: the first member is passed over.
SkipsFirst(turns) == IF turns + 1 >= Len(svScene.members) THEN "finish" ELSE svScene.members[turns + 2]

\* selectSequentialRoute
SequentialRoute(turns) == IF turns >= Len(svScene.members) THEN "finish" ELSE svScene.members[turns + 1]

SvSequential ==
    /\ svNode = "supervisor" /\ ~TurnsAreUp(svView.turns) /\ svScene.sequential
    /\ LET route == SequentialRoute(svView.turns)
       IN  IF route = "finish" THEN SvFinishOrFail ELSE SvRouted(route, svView.turns + 1)

\* parseSupervisorRoute: an answer that names no member, or gives no task, is no route.
Parsed(answer) == answer \in SvMembers \cup {"finish"}

\* selectRoute, once the model has answered: a route that is not valid is asked for again.
SvSelect ==
    /\ svNode = "supervisor" /\ ~TurnsAreUp(svView.turns) /\ ~svScene.sequential
    /\ \E route \in SvMembers \cup {"finish", ""} :
         IF ~Parsed(route) \/ (route = "finish" /\ ~ValidFinish(svView.history))
         THEN IF svAsk.route = 1 THEN SvFails
              ELSE /\ svAsk' = [route |-> svAsk.route - 1, model |-> svScene.retries]
                   /\ UNCHANGED <<svScene, svNode, svView, svLoop, svSpace, svLeft>>
         ELSE SvRouted(route, IF route = "finish" THEN svView.turns ELSE svView.turns + 1)

\* The node that asks the model.
SvAsking ==
    \/ svNode = "supervisor" /\ ~TurnsAreUp(svView.turns) /\ ~svScene.sequential
    \/ svNode \in SvMembers /\ svLoop.result = ""

\* retryingModel.Generate: an error that can be retried is, until the attempts are used
\* up; another one fails the node.
SvModelFails ==
    /\ SvAsking
    /\ \E retryable \in BOOLEAN :
         IF retryable /\ svAsk.model > 1
         THEN /\ svAsk' = [svAsk EXCEPT !.model = @ - 1]
              /\ UNCHANGED <<svScene, svNode, svView, svLoop, svSpace, svLeft>>
         ELSE SvFails

-----------------------------------------------------------------------------
(* The workers *)

Marker == [frontend |-> "FRONTEND_READY", source |-> "SOURCE_VERIFIED", package |-> "PACKAGE_VERIFIED"]

\* Mutant: the package is only tested, not tried out.
TestsOnly(stage) == svSpace >= 1

\* validateGeneratedAcceptance and validateGeneratedExample
Acceptance == svSpace = 2

\* validateGeneratedStage: the module builds and its tests pass; a package also runs the
\* acceptance cases and its example.
StagePasses(stage) == IF stage = "package" THEN Acceptance ELSE svSpace >= 1

\* RunLoop asks the model; an iteration is used.
SvIterates ==
    /\ svNode \in SvMembers /\ svLoop.result = ""
    /\ svLoop.iter < svScene.iterations
    /\ svAsk' = NewAsk

SvStays == UNCHANGED <<svScene, svNode, svView, svLeft>>

\* The model has files written or edited; an edit that does not match is not applied.
SvEdit ==
    /\ SvIterates /\ SvStays
    /\ \E space \in 0..2 : svSpace' = space
    /\ svLoop' = [svLoop EXCEPT !.iter = @ + 1]

\* The model calls the worker's validation tool, which gives the final answer if the
\* stage passes and otherwise what there is to repair.
SvValidate ==
    /\ SvIterates /\ SvStays
    /\ LET stage == svScene.stage[svNode]
       IN  /\ stage # ""
           /\ svLoop' = [iter |-> svLoop.iter + 1, result |-> IF StagePasses(stage) THEN Marker[stage] ELSE ""]
    /\ UNCHANGED svSpace

\* A worker without a validation tool answers in words; for another one the words are not
\* the answer (RequireToolFinalAnswer).
WordsOf(worker) == IF svScene.stage[worker] = "" THEN "text" ELSE ""

SvAnswers ==
    /\ SvIterates /\ SvStays
    /\ svLoop' = [iter |-> svLoop.iter + 1, result |-> WordsOf(svNode)]
    /\ UNCHANGED svSpace

\* The iterations are used up without an answer.
SvExhausted ==
    /\ svNode \in SvMembers /\ svLoop.result = "" /\ svLoop.iter = svScene.iterations
    /\ SvFails

\* Mutant: the delegation is not taken back.
KeepsRoute(view, turn) == [view EXCEPT !.history = Append(@, turn), !.status = "routing"]

\* What WorkerNode.execute merges into the supervisor's state.
TurnDone(view, turn) ==
    [view EXCEPT !.history = Append(@, turn), !.status = "routing", !.route = "", !.task = FALSE]

\* WorkerNode.execute returns: it must have been delegated to, with a task.
SvWorkerDone ==
    /\ svNode \in SvMembers
    /\ IF svView.route # svNode \/ ~svView.task
       THEN SvFails
       ELSE /\ svLoop.result # ""
            /\ svView' = TurnDone(svView, [turn |-> svView.turns, worker |-> svNode, result |-> svLoop.result])
            /\ svNode' = "supervisor"
            /\ svLoop' = NewLoop /\ svAsk' = NewAsk
            /\ UNCHANGED <<svScene, svSpace, svLeft>>

-----------------------------------------------------------------------------

\* SynthesisNode.execute: the results of the preferred workers, all of which must be there,
\* or what the model makes of the history.
SvSynthesis ==
    /\ svNode = "synthesis"
    /\ IF \E i \in DOMAIN svScene.prefer : LatestResult(svView.history, svScene.prefer[i]) = ""
       THEN SvFails
       ELSE /\ svNode' = "done"
            /\ svView' = [svView EXCEPT !.status = "done", !.route = "finish", !.task = FALSE]
            /\ UNCHANGED <<svScene, svAsk, svLoop, svSpace, svLeft>>

\* The process stops while a node runs, and the run is resumed: the node begins again with
\* the committed state, a worker with an empty conversation.
SvCrash ==
    /\ svNode \notin {"done", "failed"} /\ svLeft > 0
    /\ svLeft' = svLeft - 1
    /\ svAsk' = NewAsk /\ svLoop' = NewLoop
    /\ UNCHANGED <<svScene, svNode, svView, svSpace>>

SvRuns ==
    \/ SvLimit \/ SvSequential \/ SvSelect \/ SvModelFails
    \/ SvEdit \/ SvValidate \/ SvAnswers \/ SvExhausted \/ SvWorkerDone \/ SvSynthesis

SvNext == SvRuns \/ SvCrash

-----------------------------------------------------------------------------
(* Properties *)

\* The supervisor's state has the shape the nodes give it.
SvTypeOK ==
    /\ svNode \in SvMembers \cup {"supervisor", "synthesis", "done", "failed"}
    /\ svView.route \in SvMembers \cup {"", "finish"}
    /\ svView.status \in {"", "delegating", "routing", "finalizing", "done"}
    /\ svView.turns \in 0..svScene.maxTurns
    /\ svLoop.iter \in 0..svScene.iterations
    /\ svSpace \in 0..2

\* The delegations are numbered one by one and each is carried out once, whatever crashes
\* there are: the turns that were counted are those in the history and the one that is
\* delegated now.
TurnLedger ==
    /\ \A i \in DOMAIN svView.history : svView.history[i].turn = i
    /\ svView.turns = Len(svView.history) + (IF svView.route \in SvMembers THEN 1 ELSE 0)

\* A sequential supervisor goes through its members in their order and ends only after
\* the last.
MembersInOrder ==
    svScene.sequential =>
        /\ \A i \in DOMAIN svView.history : svView.history[i].worker = svScene.members[i]
        /\ svNode = "done" => Len(svView.history) = Len(svScene.members)

\* The supervisor ends only if the markers were returned by workers that had them from
\* their validation tools.
FinishIsEarned ==
    svView.status \in {"finalizing", "done"} =>
        \A m \in svScene.markers :
            \E i \in DOMAIN svView.history :
                LET turn == svView.history[i]
                IN  turn.result = m /\ svScene.stage[turn.worker] # "" /\ Marker[svScene.stage[turn.worker]] = m

\* When the graph of examples/supervisor_mode is done, the workspace passes the whole
\* validation: nothing edits it after the packager has had it validated, and a packager
\* that is interrupted has it validated again.
DeliveredIsVerified ==
    svScene.sequential /\ svNode = "done" /\ svScene.stage[svScene.members[Len(svScene.members)]] = "package" =>
        svSpace = 2

\* The graph ends: with an answer or with an error.
SvSettled == svNode \in {"done", "failed"}

\* The supervisor ends with a result that its workers earned: the markers come from
\* validations that passed, and what is delivered passes them still.
ResultIsEarned ==
    FinishIsEarned /\ DeliveredIsVerified
=============================================================================

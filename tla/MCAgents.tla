------------------------------ MODULE MCAgents ------------------------------
(***************************************************************************)
(* Small instances of the chat turns, the chat channels, the agents,       *)
(* their supervisor and the Workbench.                                                          *)
(* They share no state, so each behaviour is one of one component, the one *)
(* named by part.                                                          *)
(***************************************************************************)
EXTENDS ChatTurns, WeComChannel, WeixinChannel, PlanMode, Workbench, AgentLoop, Supervisor

VARIABLE part

ChatTexts ==
    [m \in {"a", "b", "c", "d"} |->
        CASE m \in {"a", "b"} -> "text" [] m = "c" -> "/new" [] m = "d" -> "/stop"]

ToolResult(kind, ok, url) == [kind |-> kind, ok |-> ok, url |-> url]

ToolResults ==
    {ToolResult("web", TRUE, "u"), ToolResult("web", FALSE, "u"), ToolResult("search", TRUE, ""),
     ToolResult("tool", TRUE, ""), ToolResult("tool", FALSE, "")}

Planner ==
    [maxSteps |-> 1, maxReplans |-> 1, maxAttempts |-> 2, maxIterations |-> 1,
     maxEvidence |-> 2, minEvidence |-> 0, needTest |-> FALSE, allowNoOp |-> TRUE,
     critic |-> TRUE, handler |-> FALSE, strategy |-> "", finalize |-> TRUE,
     onExhausted |-> "replan", onFailure |-> "finalize", strict |-> TRUE,
     needRefs |-> TRUE, clarify |-> TRUE]

\* A critic with retries and a replan; two steps that are not tried again; a
\* handler that decides the last step; two independent sources and a test.
Planners ==
    {Planner,
     [Planner EXCEPT !.maxSteps = 2, !.maxReplans = 0, !.maxAttempts = 1, !.critic = FALSE,
                     !.clarify = FALSE, !.onExhausted = "finalize"],
     [Planner EXCEPT !.handler = TRUE, !.critic = FALSE, !.clarify = FALSE,
                     !.onFailure = "replan", !.maxAttempts = 1, !.maxEvidence = 1,
                     !.finalize = FALSE, !.strict = FALSE, !.needRefs = FALSE],
     [Planner EXCEPT !.critic = FALSE, !.clarify = FALSE, !.maxReplans = 0, !.maxAttempts = 1,
                     !.minEvidence = 2, !.needTest = TRUE, !.maxIterations = 2]}

Scene(runs, ops, ticks, user, moves, chunks, drops, errors) ==
    [runs |-> runs, ops |-> ops, ticks |-> ticks, user |-> user, moves |-> moves,
     chunks |-> chunks, drops |-> drops, errors |-> errors]

\* Deletions and selections; prompts, with changes in one millisecond; a launch and a
\* selection; a launch of a run that changes; a stream that fails; the other
\* operations; older events and another graph; requests that fail.
Deleting == Scene({"a", "b"}, {"delete"}, {1}, 2, 1, 0, 0, 0)
Scenes ==
    {Deleting,
     Scene({"a"}, {"submit", "resume", "dismiss"}, {0, 1}, 2, 1, 0, 0, 0),
     Scene({"a"}, {"start"}, {1}, 2, 0, 1, 0, 0),
     Scene({"a"}, {"start"}, {1}, 1, 1, 1, 0, 0),
     Scene({"a"}, {}, {1}, 0, 2, 0, 1, 0),
     Scene({"a"}, {"pause", "cancel", "fork", "compare"}, {1}, 1, 1, 0, 0, 0),
     Scene({"a", "b"}, {"older", "switch"}, {1}, 2, 1, 0, 0, 0),
     Scene({"a", "b"}, {"pause", "cancel", "delete", "fork", "compare", "submit", "resume", "start"}, {1}, 1, 0, 0, 0, 1)}

Answer(text, calls) == [text |-> text, calls |-> calls]

\* Parallel calls; a tool that must give the answer; calls one by one that name
\* no tool or no type, and a second visit; identifiers used twice; a journal
\* that fails.
Parallel ==
    [require |-> FALSE, parallel |-> TRUE, maxIter |-> 2, maxCalls |-> 3, limit |-> 2, reuse |-> FALSE,
     answers |-> {Answer("none", <<"tool", "tool">>), Answer("text", <<>>), Answer("error", <<>>), Answer("none", <<"tool">>)},
     results |-> {"ok", "final1", "final2", "invalid"}, visits |-> 1, crashes |-> 1, resumes |-> 2, faults |-> 0]
Agents ==
    {Parallel,
     [Parallel EXCEPT !.require = TRUE, !.maxCalls = 0, !.maxIter = 3,
        !.results = {"ok", "final1", "invalid", "unavailable"},
        !.answers = {Answer("none", <<"tool", "tool">>), Answer("text", <<>>), Answer("none", <<>>)}],
     [Parallel EXCEPT !.parallel = FALSE, !.visits = 2, !.maxIter = 3, !.resumes = 1, !.results = {"ok", "final1"},
        !.answers = {Answer("none", <<"tool", "missing">>), Answer("none", <<"untyped">>), Answer("text", <<>>), Answer("bad", <<>>)}],
     [Parallel EXCEPT !.reuse = TRUE, !.results = {"ok"}, !.maxIter = 3],
     [Parallel EXCEPT !.faults = 1, !.resumes = 1, !.results = {"ok", "final1"}]}

\* The pipeline of examples/supervisor_mode; a supervisor that chooses, with a
\* finisher; one without markers.
Pipeline ==
    [members |-> <<"design", "frontend", "packager">>, sequential |-> TRUE, maxTurns |-> 3, attempts |-> 2,
     markers |-> {"FRONTEND_READY", "PACKAGE_VERIFIED"}, finisher |-> "*", prefer |-> <<"packager">>,
     stage |-> [design |-> "", frontend |-> "frontend", packager |-> "package"],
     iterations |-> 3, retries |-> 2, crashes |-> 2]
Teams ==
    {Pipeline,
     [Pipeline EXCEPT !.sequential = FALSE, !.members = <<"frontend", "packager">>, !.finisher = "packager",
        !.markers = {"PACKAGE_VERIFIED"}, !.prefer = <<>>, !.stage = [frontend |-> "frontend", packager |-> "package"]],
     [Pipeline EXCEPT !.sequential = FALSE, !.members = <<"design", "packager">>, !.finisher = "", !.markers = {},
        !.stage = [design |-> "", packager |-> "package"]]}

agVars == <<part, chatVars, wcVars, wxVars, plVars, wbVars, alVars, svVars>>

\* A component that does nothing has one initial state.
AgInit ==
    /\ part \in {"chat", "wecom", "weixin", "plan", "workbench", "agent", "supervisor"}
    /\ ChatInit /\ WcInit /\ WxInit
    /\ PlInit /\ (part # "plan" => plCfg = Planner)
    /\ WbInit /\ (part # "workbench" => wbScene = Deleting)
    /\ AlInit /\ (part # "agent" => alScene = Parallel)
    /\ SvInit /\ (part # "supervisor" => svScene = Pipeline)

\* The other components do nothing.
AgOnly(p) ==
    /\ part = p /\ UNCHANGED part
    /\ p # "chat" => UNCHANGED chatVars
    /\ p # "wecom" => UNCHANGED wcVars
    /\ p # "weixin" => UNCHANGED wxVars
    /\ p # "plan" => UNCHANGED plVars
    /\ p # "workbench" => UNCHANGED wbVars
    /\ p # "agent" => UNCHANGED alVars
    /\ p # "supervisor" => UNCHANGED svVars

AgNext ==
    \/ AgOnly("chat") /\ ChatNext
    \/ AgOnly("wecom") /\ WcNext
    \/ AgOnly("weixin") /\ WxNext
    \/ AgOnly("plan") /\ PlNext
    \/ AgOnly("workbench") /\ WbNext
    \/ AgOnly("agent") /\ AlNext
    \/ AgOnly("supervisor") /\ SvNext

\* Handlers, workers, timers and running graphs, which the Go scheduler runs, and the
\* browser's requests and callbacks; users, the platforms, faults and crashes promise nothing.
AgGoroutines ==
    \/ AgOnly("chat") /\ \E m \in ChatMsgs : ChatSteps(m)
    \/ AgOnly("wecom") /\ WcGoroutines
    \/ AgOnly("weixin") /\ \E m \in WxMsgs : WxWorker(m)
    \/ AgOnly("plan") /\ PlRuns
    \/ AgOnly("workbench") /\ WbWork /\ UNCHANGED wbScene
    \/ AgOnly("agent") /\ AlRuns
    \/ AgOnly("supervisor") /\ SvRuns

\* The goroutines of a second kind, which the first kind must not starve.
AgLoops == AgOnly("weixin") /\ WxLoop

AgSpec == AgInit /\ [][AgNext]_agVars /\ WF_agVars(AgGoroutines) /\ WF_agVars(AgLoops)

=============================================================================

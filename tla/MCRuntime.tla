------------------------------ MODULE MCRuntime ------------------------------
(***************************************************************************)
(* Small instances of the runtime's components.  They share no state, so   *)
(* each behaviour is one of one component, the one named by part.          *)
(***************************************************************************)
EXTENDS Scheduler, NodeAttempt, RunTree, Artifacts, ToolSlots

VARIABLE part

To(nodes) == [kind |-> "next", to |-> nodes, sends |-> {}]
Sends(tasks) == [kind |-> "next", to |-> {}, sends |-> tasks]
Command(kind, nodes) == [kind |-> kind, to |-> nodes, sends |-> {}]

\* A graph; a node that outs does not name leads to the end.
Workflow(nodes, edges, outs, failTo, errs, conds, asks) ==
    [nodes |-> nodes, entry |-> "r", edges |-> edges,
     outs |-> [n \in nodes |-> IF n \in DOMAIN outs THEN outs[n] ELSE {To({})}],
     failTo |-> [n \in nodes |-> IF n \in DOMAIN failTo THEN failTo[n] ELSE SchNone],
     errs |-> errs, conds |-> conds, asks |-> asks]

NoRoute == [n \in {} |-> SchNone]

\* Two branches of different length that meet.
Uneven == Workflow({"r", "a", "b", "d", "j"},
    {<<"r", "a">>, <<"r", "b">>, <<"a", "j">>, <<"b", "d">>, <<"d", "j">>},
    [r |-> {To({"a", "b"})}, a |-> {To({"j"})}, b |-> {To({"d"})}, d |-> {To({"j"})}],
    NoRoute, {"d"}, {}, {"a", "b"})

\* A join after a join, and a condition that may skip the first.
Chained == Workflow({"r", "a", "e", "f", "j", "k"},
    {<<"r", "a">>, <<"r", "e">>, <<"a", "j">>, <<"e", "f">>, <<"f", "j">>, <<"f", "k">>, <<"j", "k">>},
    [r |-> {To({"a", "e"})}, a |-> {To({"j"})}, e |-> {To({"f"})},
     f |-> {To({"j"}), To({"k"}), To({}), Command("suspend", {"j"})},
     j |-> {To({"k"}), Command("return", {})}],
    NoRoute, {}, {}, {})

\* Failure routes of a node and of a condition, which lead to the join too.
Routed == Workflow({"r", "a", "b", "f", "j"},
    {<<"r", "a">>, <<"r", "b">>, <<"a", "j">>, <<"b", "j">>, <<"f", "j">>},
    [r |-> {To({"a", "b"})}, a |-> {To({"j"}), To({})}, b |-> {To({"j"})}, f |-> {To({"j"})}],
    [a |-> "f", b |-> "f"], {"a", "b"}, {"a"}, {"b"})

\* A join inside a loop, whose branches lead back to each other.
Looping == Workflow({"r", "a", "b", "c", "j"},
    {<<"r", "a">>, <<"r", "b">>, <<"a", "j">>, <<"b", "c">>, <<"c", "j">>, <<"j", "a">>},
    [r |-> {To({"a", "b"})}, a |-> {To({"j"})}, b |-> {To({"c"})}, c |-> {To({"j"})}, j |-> {To({"a"}), To({})}],
    NoRoute, {}, {}, {})

\* Tasks sent to one node, beside a branch that meets them.
Mapped == Workflow({"r", "a", "b", "w", "j"},
    {<<"r", "a">>, <<"r", "b">>, <<"b", "j">>, <<"w", "j">>},
    [r |-> {To({"a", "b"})}, a |-> {Sends({<<"w", 1>>, <<"w", 2>>}), Sends({<<"j", 1>>})},
     b |-> {To({"j"}), To({})}, w |-> {To({"j"})}],
    NoRoute, {"w"}, {}, {})

Workflows == {Uneven, Chained, Routed, Looping, Mapped}

\* The graph's limit is the tighter one, the node's is, or neither binds.
Permits(graph, node) == [l \in {"graph", "node"} |-> IF l = "graph" THEN graph ELSE node]
Limits == {Permits(2, 1), Permits(1, 2), Permits(2, 2)}

Tool(composite, write) == [composite |-> composite, write |-> write]

\* Agents called by agents, with one slot; parallel calls of a node and of an
\* agent, with two; the same one after the other.
Nested ==
    [limit |-> 1, parallel |-> TRUE, cancels |-> 1, faults |-> 1,
     tool |-> [a |-> Tool(TRUE, FALSE), b |-> Tool(TRUE, FALSE), x |-> Tool(FALSE, TRUE),
               y |-> Tool(FALSE, FALSE), z |-> Tool(FALSE, TRUE)],
     batch |-> [n |-> <<"a">>, m |-> <<"z">>, a |-> <<"b", "x">>, b |-> <<"y">>]]
Wide ==
    [limit |-> 2, parallel |-> TRUE, cancels |-> 1, faults |-> 1,
     tool |-> [x |-> Tool(FALSE, TRUE), y |-> Tool(FALSE, FALSE), a |-> Tool(TRUE, FALSE),
               u |-> Tool(FALSE, FALSE), v |-> Tool(FALSE, TRUE)],
     batch |-> [n |-> <<"x", "y">>, m |-> <<"a">>, a |-> <<"u", "v">>]]
Batches == {Nested, Wide, [Wide EXCEPT !.parallel = FALSE, !.limit = 1, !.faults = 0]}

rtVars == <<part, schVars, naVars, trVars, arVars, tsVars>>

\* A component that does nothing has one initial state.
RtInit ==
    /\ part \in {"scheduler", "attempt", "tree", "artifacts", "tools"}
    /\ SchInit /\ (part # "scheduler" => schGraph = Uneven)
    /\ NaInit /\ (part # "attempt" => naLim["graph"].limit = 2 /\ naLim["node"].limit = 2)
    /\ TrInit /\ (part # "tree" => trSrv.order = <<"p", "c">>)
    /\ ArInit /\ (part # "artifacts" => arKind = "file")
    /\ TsInit /\ (part # "tools" => tsScene = Nested)

\* The other components do nothing.
RtOnly(p) ==
    /\ part = p /\ UNCHANGED part
    /\ p # "scheduler" => UNCHANGED schVars
    /\ p # "attempt" => UNCHANGED naVars
    /\ p # "tree" => UNCHANGED trVars
    /\ p # "artifacts" => UNCHANGED arVars
    /\ p # "tools" => UNCHANGED tsVars

RtNext ==
    \/ RtOnly("scheduler") /\ SchNext
    \/ RtOnly("attempt") /\ NaNext
    \/ RtOnly("tree") /\ TrNext
    \/ RtOnly("artifacts") /\ ArNext
    \/ RtOnly("tools") /\ TsNext

\* What the Go scheduler runs; users, faults and crashes promise nothing.
RtGoroutines ==
    \/ RtOnly("scheduler") /\ SchRunning
    \/ RtOnly("attempt") /\ NaWorkers
    \/ RtOnly("tree") /\ TrRunning
    \/ RtOnly("artifacts") /\ ArExecution
    \/ RtOnly("tools") /\ TsRuns

RtBackground ==
    \/ RtOnly("attempt") /\ NaGoroutines
    \/ RtOnly("tree") /\ (TrDeleting \/ Start)
    \/ RtOnly("artifacts") /\ ArOpens

RtSpec == RtInit /\ [][RtNext]_rtVars /\ WF_rtVars(RtGoroutines) /\ WF_rtVars(RtBackground)

\* Whatever the users, the faults and the crashes did, the runtime comes to
\* rest: every run that executes ends or is paused, every attempt of a node is
\* over with its permits released, every deletion that can be finished is, a
\* store whose stages can be settled opens again, and no tool call waits for a
\* slot for good.
RuntimeSettles ==
    []<>(CASE part = "scheduler" -> SchSettled
           [] part = "attempt" -> NaSettled
           [] part = "tree" -> TrSettled
           [] part = "artifacts" -> ArSettled
           [] part = "tools" -> TsQuiet)
=============================================================================

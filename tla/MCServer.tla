------------------------------ MODULE MCServer ------------------------------
(***************************************************************************)
(* Small instances of the server's components, with the runs whose effects *)
(* it resolves.  They share no state, so                                   *)
(* each behaviour is one of one component, the one named by part.          *)
(***************************************************************************)
EXTENDS EventHub, TriggerService, GraphCommit, DurableRun, Effects

VARIABLE part

HubEvent(key, kind, size) == [key |-> key, kind |-> kind, size |-> size]

HubBatches ==
    {<<HubEvent("s1", "regular", 1)>>,
     <<HubEvent("s2", "regular", 5)>>,
     <<HubEvent("s1", "streaming", 1), HubEvent("s1", "regular", 1)>>}

HubFilters ==
    {[keys |-> {"s1", "s2"}, kinds |-> {"regular", "streaming"}],
     [keys |-> {"s1"}, kinds |-> {"regular"}]}

HubLimits == [kind \in {"regular", "streaming"} |-> 2]
HubByteLimits == [kind \in {"regular", "streaming"} |-> 3]

TrgKinds == [id \in {"chat", "cron"} |-> IF id = "chat" THEN "chat" ELSE "schedule"]

GcContents == [u \in {"a", "b", "c"} |-> IF u = "c" THEN "y" ELSE "x"]
GcModes == [u \in {"a", "b", "c"} |-> IF u = "a" THEN "create" ELSE "overwrite"]

\* Two writes that can be compensated, whose requests are alike, differ and
\* are paused; one that must not be repeated; a failure route; a task queue.
Compensated ==
    [class |-> <<"compensatable", "compensatable">>, routed |-> FALSE, queued |-> FALSE, alike |-> TRUE,
     actions |-> {"confirm_not_applied", "compensate"}, errors |-> 2, crashes |-> 1, pauses |-> 0]
WritingRuns ==
    {Compensated,
     [Compensated EXCEPT !.alike = FALSE, !.pauses = 1],
     [Compensated EXCEPT !.class = <<"non_idempotent_write", "read_only">>, !.errors = 3],
     [Compensated EXCEPT !.class = <<"idempotent_write", "compensatable">>, !.routed = TRUE, !.errors = 3],
     [Compensated EXCEPT !.queued = TRUE]}

srvVars == <<part, hubVars, trgVars, gcVars, duVars, efVars>>

SrvInit ==
    /\ part \in {"hub", "triggers", "commit", "durable", "effects"}
    /\ HubInit /\ TrgInit /\ GcInit /\ DuInit
    /\ EfInit /\ (part # "effects" => efScene = Compensated)

\* The other components do nothing.
SrvOnly(p) ==
    /\ part = p /\ UNCHANGED part
    /\ p # "hub" => UNCHANGED hubVars
    /\ p # "triggers" => UNCHANGED trgVars
    /\ p # "commit" => UNCHANGED gcVars
    /\ p # "durable" => UNCHANGED duVars
    /\ p # "effects" => UNCHANGED efVars

SrvNext ==
    \/ SrvOnly("hub") /\ HubNext
    \/ SrvOnly("triggers") /\ TrgNext
    \/ SrvOnly("commit") /\ GcNext
    \/ SrvOnly("durable") /\ DuNext
    \/ SrvOnly("effects") /\ EfNext

\* Handlers, workers and background goroutines, which the Go scheduler runs;
\* users, the clock, faults and crashes promise nothing.
SrvGoroutines ==
    \/ SrvOnly("hub") /\ HubHandlers
    \/ SrvOnly("triggers") /\ TrgGoroutines
    \/ SrvOnly("commit") /\ GcHandlers
    \/ SrvOnly("durable") /\ DuWorker
    \/ SrvOnly("effects") /\ EfRuns

\* The goroutines of a second kind, which the first kind must not starve.
SrvLoops ==
    \/ SrvOnly("triggers") /\ TrgAdminSteps
    \/ SrvOnly("durable") /\ DuExecution

SrvSpec == SrvInit /\ [][SrvNext]_srvVars /\ WF_srvVars(SrvGoroutines) /\ WF_srvVars(SrvLoops)

=============================================================================

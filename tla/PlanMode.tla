------------------------------ MODULE PlanMode ------------------------------
(***************************************************************************)
(* The plan-and-execute loop: the plan nodes (src/node/plan), the LLM turn  *)
(* and tool execution nodes they drive, wired the way                       *)
(* src/examples/plan_mode/main.go wires them.                               *)
(*                                                                         *)
(* A node sees only the state fields its ports declare readable             *)
(* (ProjectStateByContract), and the runtime refuses a write that its ports *)
(* do not declare, so every node works on View(node), the projection of the *)
(* state record plS.                                                        *)
(*                                                                         *)
(* The model's answers, the tools' results and the verifier handler's       *)
(* verdicts are chosen freely. Texts are abstracted to being empty or not;  *)
(* a tool result to the kind of tool, whether it succeeded and the source   *)
(* it read. Tool call IDs are unique.                                       *)
(***************************************************************************)
EXTENDS Naturals, FiniteSets, Sequences, SequencesExt

CONSTANTS
  PlConfigs,   \* the node configurations of the instance
  PlResults,   \* tool results: [kind, ok, url], url "" when there is none
  PlCalls,     \* bound: tool calls of one model turn
  PlAsks       \* bound: pauses for a clarification

\* What the nodes' Validate methods require of their configuration.
GeneratorConfig(c) == c.maxSteps > 0 /\ c.maxReplans >= 0
StepConfig(c) == c.maxIterations > 0
VerifierConfig(c) == c.maxAttempts > 0 /\ c.maxEvidence > 0 /\ c.minEvidence \in 0..c.maxEvidence
ReviewConfig(c) == {c.onExhausted, c.onFailure} \subseteq {"replan", "finalize"}

ASSUME PlConfigsAreValid ==
  \A c \in PlConfigs : GeneratorConfig(c) /\ StepConfig(c) /\ VerifierConfig(c) /\ ReviewConfig(c)

VARIABLES
  plCfg,   \* the configuration of the graph's nodes
  plS,     \* the run's state: one field per declared state path
  plAt,    \* the node to run next, or "paused", "done", "failed"
  plWhy,   \* why the run failed, "" otherwise
  plAsked  \* how often the clarification node has interrupted the run

plVars == <<plCfg, plS, plAt, plWhy, plAsked>>

-----------------------------------------------------------------------------
\* Ports: what each node may read and write.

EmptyState == [input |-> "", pending |-> FALSE, objective |-> "", status |-> "",
               steps |-> <<>>, index |-> 1, replans |-> 0, maxReplans |-> 0,
               reason |-> FALSE, answer |-> {}, result |-> {}, current |-> 0,
               tools |-> <<>>, calls |-> FALSE, text |-> FALSE,
               iteration |-> 0, maxIterations |-> 0]

Messages == {"tools", "calls"}

ClarifyPorts == [reads |-> {"input", "pending"}, writes |-> {"input", "pending"}]

GeneratePorts ==
  [reads  |-> {"input", "objective", "status", "steps", "replans", "reason"},
   writes |-> {"objective", "status", "steps", "index", "replans", "maxReplans",
               "reason", "answer", "current"}]

StepPorts ==
  [reads  |-> {"objective", "steps", "index"},
   writes |-> {"status", "steps", "current", "text", "iteration", "maxIterations"}
              \cup Messages]

TurnPorts ==
  [reads  |-> Messages \cup {"iteration", "maxIterations"},
   writes |-> Messages \cup {"text", "iteration"}]

ToolPorts == [reads |-> Messages, writes |-> Messages]

VerifyPorts ==
  [reads  |-> {"objective", "steps", "index", "current", "text"} \cup Messages,
   writes |-> {"steps"}]

\* Mutant: the reason to plan again is not declared.
PortsWithoutReason ==
  [reads  |-> {"steps", "index", "replans", "maxReplans", "text"},
   writes |-> {"status", "steps", "index"}]

ReviewPorts ==
  [reads  |-> {"steps", "index", "replans", "maxReplans", "text"},
   writes |-> {"status", "steps", "index", "reason"}]

SynthesisPorts ==
  [reads  |-> {"objective", "status", "steps"},
   writes |-> {"status", "answer", "result"}]

Ports(node) ==
  CASE node = "clarify" -> ClarifyPorts
    [] node = "generate" -> GeneratePorts
    [] node = "step" -> StepPorts
    [] node \in {"execute", "finalize_step"} -> TurnPorts
    [] node = "tools" -> ToolPorts
    [] node = "verify" -> VerifyPorts
    [] node = "review" -> ReviewPorts
    [] node = "synthesize" -> SynthesisPorts
    [] OTHER -> [reads |-> {}, writes |-> {}]

\* What the node is given: the readable fields, the others absent.
View(node) == [f \in DOMAIN plS |->
                 IF f \in Ports(node).reads THEN plS[f] ELSE EmptyState[f]]

-----------------------------------------------------------------------------
\* Evidence.

\* validHTTPStatus, the status and the error, all in one flag.
EvidenceIsSuccessful(e) == e.ok

\* Web searches and clock readings never support a claim; a fetched page does
\* when it names its URL.
EvidenceSupports(e) ==
  /\ EvidenceIsSuccessful(e)
  /\ e.kind # "search"
  /\ e.kind = "web" => e.url # ""

\* A failure that is not an unavailable source.
BlockingEvidence(e) == ~EvidenceIsSuccessful(e) /\ e.kind \notin {"web", "search"}

SameSource(a, b) == a.url # "" /\ a.url = b.url

\* Mutant: the latest answer of a source always replaces the earlier one.
LatestEvidence(previous, e) == e

\* Of two results of one source the successful one is kept, the later of two
\* successful ones.
BetterEvidence(previous, e) ==
  IF ~EvidenceIsSuccessful(previous) \/ EvidenceIsSuccessful(e) THEN e ELSE previous

MergeOne(evidence, e) ==
  LET same == {i \in DOMAIN evidence : SameSource(evidence[i], e)} IN
  IF same = {} THEN Append(evidence, e)
  ELSE LET i == CHOOSE j \in same : \A k \in same : j <= k
       IN  [evidence EXCEPT ![i] = BetterEvidence(@, e)]

\* Mutant: evidence is never dropped.
MergeUnlimited(existing, incoming, limit) == FoldLeft(MergeOne, existing, incoming)

MergeEvidenceLimit(existing, incoming, limit) ==
  LET all == FoldLeft(MergeOne, existing, incoming) IN
  IF Len(all) > limit THEN SubSeq(all, Len(all) - limit + 1, Len(all)) ELSE all

Supporting(evidence) == SelectSeq(evidence, EvidenceSupports)

Urls(evidence) == {evidence[i].url : i \in DOMAIN evidence} \ {""}

-----------------------------------------------------------------------------
\* Verification.


\* The rule for a step that must be supported by tool evidence. The test
\* evidence is the successful result of a tool that is not a source.
EvidencePasses(cfg, step) ==
  LET valid == Supporting(step.evidence) IN
  /\ ~\E i \in DOMAIN step.evidence : BlockingEvidence(step.evidence[i])
  /\ Len(valid) >= cfg.minEvidence
  /\ valid # <<>>
  /\ cfg.minEvidence > 1 /\ Urls(valid) # {} => Cardinality(Urls(valid)) >= cfg.minEvidence
  /\ step.result > 0
  /\ cfg.needTest => \E i \in DOMAIN step.evidence :
                        step.evidence[i].kind = "tool" /\ step.evidence[i].ok

GenericVerification(cfg, step) ==
  IF step.strategy = "no-op"
  THEN IF cfg.allowNoOp /\ step.result > 0 THEN "passed" ELSE "retry"
  ELSE IF EvidencePasses(cfg, step) THEN "passed" ELSE "retry"

\* A configured handler replaces the verdict of a step with its strategy, and
\* may add evidence of its own.
Verdicts(cfg, step) ==
  IF cfg.handler /\ step.strategy = "handler"
  THEN {[status |-> s, evidence |-> e] : s \in {"passed", "retry", "replan", "failed"},
                                         e \in {<<>>} \cup {<<r>> : r \in PlResults}}
  ELSE {[status |-> GenericVerification(cfg, step), evidence |-> <<>>]}

\* What the grounded critic may make of a passed step: every claim it supports
\* must refer to an item of supporting evidence, or the step is tried again.
CriticVerdicts(evidence) ==
  IF Supporting(evidence) = <<>> THEN {"retry"} ELSE {"passed", "retry"}

-----------------------------------------------------------------------------
\* The nodes.

Fail(why) ==
  /\ plAt' = "failed"
  /\ plWhy' = why
  /\ UNCHANGED <<plCfg, plS, plAsked>>

\* The failure node does nothing but fail the run.
RouteFailure == [at |-> "failed", why |-> "route"]

\* The node succeeds: its writes are applied and the run goes on at next.
GoOn(state, next) ==
  /\ plS' = state
  /\ plAt' = IF next = "route_failure" THEN RouteFailure.at ELSE next
  /\ plWhy' = IF next = "route_failure" THEN RouteFailure.why ELSE plWhy
  /\ UNCHANGED <<plCfg, plAsked>>

\* A step or review is followed by the node its status edge names.
StatusRoute(status) ==
  CASE status = "replan" -> "generate"
    [] status = "executing" -> "step"
    [] status = "finalizing" -> "synthesize"
    [] OTHER -> "route_failure"

\* The model call of a node fails, or its answer cannot be read.
ModelCallFails ==
  /\ \/ plAt \in {"clarify", "generate", "execute", "finalize_step", "synthesize"}
     \/ plAt = "verify" /\ (plCfg.critic \/ plCfg.handler)
  /\ Fail("model")

Clarify ==
  LET v == View("clarify") IN
  /\ plAt = "clarify"
  /\ \E decision \in {"ready", "needs_input"} :
       \/ /\ ~v.pending
          /\ decision = "ready"
          /\ GoOn([plS EXCEPT !.input = "normalized"], "generate")
       \/ /\ ~v.pending
          /\ decision = "needs_input"
          /\ plAsked < PlAsks
          /\ plAt' = "paused"
          /\ plAsked' = plAsked + 1
          /\ UNCHANGED <<plCfg, plS, plWhy>>
       \/ /\ v.pending
          /\ GoOn([plS EXCEPT !.pending = FALSE,
                              !.input = IF decision = "ready" THEN "normalized"
                                        ELSE "answered"], "generate")

\* The user resumes the paused run, with an answer or without one.
ResumePaused ==
  /\ plAt = "paused"
  /\ \E answer \in BOOLEAN : plS' = [plS EXCEPT !.pending = answer]
  /\ plAt' = "clarify"
  /\ UNCHANGED <<plCfg, plWhy, plAsked>>

NewStep(strategy) ==
  [strategy |-> strategy, status |-> "pending", verdict |-> "pending",
   attempts |-> 0, evidence |-> <<>>, result |-> 0]

\* The strategies of the steps a plan of n steps gets: one configured for all
\* of them, or the model's own with the configured verifier on the last step.
PlanStrategies(cfg, n) ==
  IF cfg.strategy # "" THEN {[i \in 1..n |-> cfg.strategy]}
  ELSE {[i \in 1..n |-> IF i = n /\ cfg.handler THEN "handler" ELSE f[i]] :
          f \in [1..n -> {"evidence", "no-op"}]}

\* Why the generator refuses to plan, "" when it does not.
GenerateError(v) ==
  IF v.objective = "" /\ v.input = "" THEN "objective"
  ELSE IF v.status = "replan" /\ v.replans >= plCfg.maxReplans THEN "replans"
  ELSE ""

Generate ==
  LET v == View("generate")
      isReplan == v.status = "replan" IN
  /\ plAt = "generate"
  /\ IF GenerateError(v) # "" THEN Fail(GenerateError(v))
     ELSE \E n \in 1..plCfg.maxSteps : \E strategies \in PlanStrategies(plCfg, n) :
            GoOn([plS EXCEPT
                    !.objective = IF v.objective # "" THEN v.objective ELSE v.input,
                    !.status = "executing",
                    !.steps = [i \in 1..n |-> NewStep(strategies[i])],
                    !.index = 1,
                    !.replans = IF isReplan /\ v.steps # <<>> THEN v.replans + 1
                                ELSE v.replans,
                    !.maxReplans = plCfg.maxReplans,
                    !.reason = FALSE, !.answer = {}, !.current = 0], "step")

\* The index is past the last step: nothing is left to execute.
PastEnd(v) == v.index \notin DOMAIN v.steps

PrepareStep ==
  LET v == View("step")
      state == IF PastEnd(v)
               THEN [plS EXCEPT !.status = "finalizing", !.current = 0]
               ELSE [plS EXCEPT !.steps = [v.steps EXCEPT ![v.index].status = "running"],
                                !.current = v.index,
                                !.tools = <<>>, !.calls = FALSE, !.text = FALSE,
                                !.iteration = 0, !.maxIterations = plCfg.maxIterations]
      route == StatusRoute(state.status) IN
  /\ plAt = "step"
  /\ GoOn(state, IF route = "step" THEN "execute"
                 ELSE IF route = "generate" THEN "route_failure" ELSE route)

\* The turn must answer: its tool calls are ignored.
ForceFinalization(node, v) ==
  (node = "finalize_step" \/ plCfg.finalize) /\ v.iteration >= v.maxIterations

\* One model turn. A tool call without a type is left out of the message, and
\* still counts as a call: the turn then sets no final answer.
LLMTurn(node, withCalls) ==
  LET v == View(node)
      After(calls, text) == [plS EXCEPT !.calls = calls, !.text = text,
                                        !.iteration = v.iteration + 1] IN
  /\ plAt = node
  /\ \/ /\ ForceFinalization(node, v)
        /\ \E text \in BOOLEAN :
             IF text THEN GoOn(After(FALSE, TRUE), "verify") ELSE Fail("no answer")
     \/ /\ ~ForceFinalization(node, v)
        /\ \/ \E text \in BOOLEAN : GoOn(After(FALSE, text), "verify")
           \/ \E typed \in BOOLEAN : GoOn(After(typed, plS.text), IF typed THEN withCalls ELSE "verify")

ExecuteStep == LLMTurn("execute", "tools")

FinalizeStep == LLMTurn("finalize_step", "verify")

IterationsRemaining(s) == s.iteration <= s.maxIterations

ExecuteTools ==
  LET v == View("tools") IN
  /\ plAt = "tools"
  /\ v.calls
  /\ \E n \in 1..PlCalls : \E results \in [1..n -> PlResults] :
       GoOn([plS EXCEPT !.tools = v.tools \o results, !.calls = FALSE],
            IF IterationsRemaining(plS) THEN "execute" ELSE "finalize_step")

\* Every tool result of the conversation is an item of evidence.
CollectEvidence(v) == v.tools

\* The step as the verifier records it: a new result replaces the old one, the
\* evidence of earlier attempts stays.
RecordedStep(v, step) ==
  [step EXCEPT !.result = IF v.text THEN step.attempts + 1 ELSE @,
               !.evidence = MergeEvidenceLimit(@, CollectEvidence(v), plCfg.maxEvidence),
               !.attempts = @ + 1]

VerifyError(v) ==
  IF PastEnd(v) THEN "index"
  ELSE IF v.current # 0 /\ v.current # v.index THEN "mismatch"
  ELSE ""

Verify ==
  LET v == View("verify") IN
  /\ plAt = "verify"
  /\ IF VerifyError(v) # "" THEN Fail(VerifyError(v))
     ELSE LET step == RecordedStep(v, v.steps[v.index]) IN
          \E verdict \in Verdicts(plCfg, step) :
            LET evidence == MergeEvidenceLimit(step.evidence, verdict.evidence,
                                               plCfg.maxEvidence) IN
            \E status \in IF verdict.status = "passed" /\ plCfg.critic
                          THEN CriticVerdicts(evidence) ELSE {verdict.status} :
              GoOn([plS EXCEPT !.steps = [v.steps EXCEPT ![v.index] =
                      [step EXCEPT !.verdict = status, !.evidence = evidence]]], "review")

ReviewedStatus(verdict) ==
  CASE verdict = "passed" -> "done"
    [] verdict = "retry" -> "pending"
    [] OTHER -> "failed"

\* Mutant: one replan more than configured is asked for.
LateReplan(v) == v.replans <= v.maxReplans

ReplanAllowed(v) == v.replans < v.maxReplans

ShouldReplan(verdict) ==
  \/ verdict = "replan"
  \/ verdict = "retry" /\ plCfg.onExhausted = "replan"
  \/ verdict = "failed" /\ plCfg.onFailure = "replan"

\* Where the review leaves the plan: its status, the current step, and whether
\* it gives a reason to plan again.
ReviewOutcome(v, step) ==
  IF step.verdict = "retry" /\ step.attempts < plCfg.maxAttempts
  THEN [status |-> "executing", index |-> v.index, reason |-> FALSE]
  ELSE IF ShouldReplan(step.verdict) /\ ReplanAllowed(v)
  THEN [status |-> "replan", index |-> v.index, reason |-> TRUE]
  ELSE IF ShouldReplan(step.verdict) \/ ReviewedStatus(step.verdict) = "failed"
  THEN [status |-> "finalizing", index |-> v.index, reason |-> FALSE]
  ELSE [status |-> IF v.index + 1 \in DOMAIN v.steps THEN "executing" ELSE "finalizing",
        index |-> v.index + 1, reason |-> FALSE]

Review ==
  LET v == View("review") IN
  /\ plAt = "review"
  /\ IF PastEnd(v) THEN GoOn([plS EXCEPT !.status = "finalizing"], "synthesize")
     ELSE LET step == v.steps[v.index]
              out == ReviewOutcome(v, step) IN
          GoOn([plS EXCEPT
                  !.steps = [v.steps EXCEPT ![v.index] =
                    [step EXCEPT !.status = ReviewedStatus(step.verdict),
                                 !.result = IF v.text THEN step.attempts ELSE @]],
                  !.status = out.status, !.index = out.index,
                  !.reason = out.reason \/ @], StatusRoute(out.status))

\* The references an answer may hold: <<step, item>> of the plan's evidence.
References(steps) ==
  {r \in (DOMAIN steps) \X (1..plCfg.maxEvidence) : r[2] \in DOMAIN steps[r[1]].evidence}

CanBeCited(steps, r) == EvidenceSupports(steps[r[1]].evidence[r[2]])

Complete(steps) ==
  /\ steps # <<>>
  /\ \A i \in DOMAIN steps : steps[i].status = "done" /\ steps[i].verdict = "passed"

\* Mutant: only the existence of the cited evidence is looked up.
CitesSomething(steps, refs) == refs # {} /\ refs \subseteq References(steps)

\* An answer that must be grounded cites something, and nothing else than
\* successful evidence.
Grounded(steps, refs) ==
  /\ refs # {}
  /\ refs \subseteq References(steps)
  /\ \A r \in refs : CanBeCited(steps, r)

SynthesisError(v) ==
  IF v.objective = "" THEN "objective"
  ELSE IF v.status # "finalizing" THEN "status"
  ELSE ""

\* The model answers with some references; <<0, 0>> stands for one that names
\* no evidence.
Synthesize ==
  LET v == View("synthesize") IN
  /\ plAt = "synthesize"
  /\ IF SynthesisError(v) # "" THEN Fail(SynthesisError(v))
     ELSE \E refs \in SUBSET (References(v.steps) \cup {<<0, 0>>}) :
            /\ Cardinality(refs) <= 2
            /\ IF plCfg.needRefs /\ ~Grounded(v.steps, refs) THEN Fail("references")
               ELSE GoOn([plS EXCEPT
                            !.result = refs, !.answer = refs,
                            !.status = IF plCfg.strict /\ ~Complete(v.steps)
                                       THEN "failed" ELSE "done"], "done")

PlInit ==
  /\ plCfg \in PlConfigs
  /\ plS = [EmptyState EXCEPT !.input = "raw"]
  /\ plAt = IF plCfg.clarify THEN "clarify" ELSE "generate"
  /\ plWhy = ""
  /\ plAsked = 0

PlNext ==
  \/ ModelCallFails
  \/ Clarify \/ ResumePaused
  \/ Generate \/ PrepareStep \/ ExecuteStep \/ ExecuteTools \/ FinalizeStep
  \/ Verify \/ Review \/ Synthesize

\* The scheduler keeps running the graph; the user may never answer.
PlRuns == PlNext /\ plAt # "paused"

-----------------------------------------------------------------------------
\* Properties.

StepType(cfg) ==
  [strategy : {"evidence", "no-op", "handler"},
   status : {"pending", "running", "done", "failed"},
   verdict : {"pending", "passed", "retry", "replan", "failed"},
   attempts : 0..cfg.maxAttempts, result : 0..cfg.maxAttempts,
   evidence : UNION {[1..n -> PlResults] : n \in 0..cfg.maxEvidence}]

\* Types, and the budgets: attempts of a step, replans, model turns of an
\* attempt and evidence items never exceed what is configured.
PlTypeOK ==
  /\ plCfg \in PlConfigs
  /\ plAt \in {"clarify", "generate", "step", "execute", "tools", "finalize_step",
               "verify", "review", "synthesize", "paused", "done", "failed"}
  /\ plS.status \in {"", "executing", "replan", "finalizing", "done", "failed"}
  /\ plS.index \in 1..Len(plS.steps) + 1
  /\ Len(plS.steps) <= plCfg.maxSteps
  /\ \A i \in DOMAIN plS.steps : plS.steps[i] \in StepType(plCfg)
  /\ plS.replans \in 0..plCfg.maxReplans
  /\ plS.iteration \in 0..plS.maxIterations + 2
  /\ plAsked \in 0..PlAsks

Verified(step) ==
  /\ step.status = "done" /\ step.verdict = "passed" /\ step.attempts > 0
  /\ \/ Supporting(step.evidence) # <<>>
     \/ step.strategy = "no-op" /\ step.result > 0 /\ ~plCfg.critic
     \/ step.strategy = "handler" /\ plCfg.handler /\ ~plCfg.critic

\* The retry budget of the step is spent and the review is configured to
\* finalize: the review then moves on to the next step (review.go:183-210).
LeftBehind(step) ==
  /\ plCfg.onExhausted = "finalize"
  /\ step.verdict = "retry" /\ step.status = "pending"
  /\ step.attempts = plCfg.maxAttempts

\* A plan never moves past a step that the verifier did not pass on supporting
\* evidence (or on the explicit no-op rule, or on the configured handler's
\* word), whatever the model claims, over retries and replans; except past a
\* step whose retries are exhausted under retry_exhausted_action "finalize".
PassedStepsAreVerified ==
  \A i \in 1..plS.index - 1 : Verified(plS.steps[i]) \/ LeftBehind(plS.steps[i])

\* What src/examples/plan_mode/README.md says of the review: it "only advances a
\* step after `passed`".
AdvancesOnlyVerified == \A i \in 1..plS.index - 1 : Verified(plS.steps[i])

\* A plan that ends "done" under strict completion has every step verified, one
\* that ends "failed" has a step that is not, and an answer that must be
\* grounded cites only evidence that supports a claim (synthesis.go).
AnswerIsHonest ==
  plAt = "done" =>
    /\ plCfg.strict => (plS.status = "done" <=> \A i \in DOMAIN plS.steps : Verified(plS.steps[i]))
    /\ plCfg.needRefs => plS.answer # {} /\ \A r \in plS.answer : CanBeCited(plS.steps, r)

\* The graph's routing is complete and its budgets agree: no run fails because
\* a status edge leads nowhere, because the generator finds the replan budget
\* spent, because the verifier finds another step than the one prepared, or
\* because a node that must answer still holds tool calls.
NodesAgree == plWhy \in {"", "model", "no answer", "references"}

\* A source that was read successfully stays successful evidence of its step
\* when a later attempt fails to read it, as long as the evidence limit
\* is not reached and the plan is not replaced (mergeEvidenceLimit).
GoodSourcesStay ==
  [][\A i \in DOMAIN plS.steps \cap DOMAIN plS'.steps :
       plS'.steps[i].attempts >= plS.steps[i].attempts
       /\ Len(plS'.steps[i].evidence) < plCfg.maxEvidence =>
       \A u \in Urls(Supporting(plS.steps[i].evidence)) :
         u \in Urls(Supporting(plS'.steps[i].evidence))]_plVars

\* No node writes a field its ports do not declare writable: the runtime would
\* refuse the node's patch and fail the run (ValidatePatchByContract).
WritesAreDeclared ==
  [][plAt # "paused" =>
       \A f \in DOMAIN plS : plS'[f] # plS[f] => f \in Ports(plAt).writes]_plVars

\* With the node budgets every plan ends, or waits for the user.
PlSettled == plAt \in {"paused", "done", "failed"}

=============================================================================

----------------------------- MODULE AgentLoop -----------------------------
(***************************************************************************)
(* The loop of an agent node (node/agents/agent): it asks a model, runs    *)
(* the tools the model calls, appends their results to the conversation    *)
(* and asks again, until the model or a tool gives the final answer.  The  *)
(* loop takes checkpoints (runtime/agent_invocation_recorder.go), keeps a  *)
(* budget in the run's state (runtime/agent_budget.go) and records each    *)
(* tool's intent and outcome in the effect journal (core/tool.go); the     *)
(* process may stop at any step, and the run is resumed from the last      *)
(* checkpoint.                                                             *)
(*                                                                         *)
(* A message is [role, calls]: the identifiers of the calls it makes or    *)
(* answers.  The texts, the prompts, the artifacts and the events are left *)
(* out.                                                                    *)
(***************************************************************************)
EXTENDS Naturals, Sequences, FiniteSets

\* The scenes to play: [require, parallel, maxIter, maxCalls, limit, reuse, answers,
\* results, visits, crashes, resumes, faults].
CONSTANT AlScenes

\* A scene has the node's configuration (RequireToolFinalAnswer, Parallel,
\* MaxIterations, MaxToolCalls with 0 for none), the tool concurrency limit, whether the
\* provider numbers the calls of each response anew, what the model and the tools may
\* answer, and bounds on the visits of the node, the crashes, the resumptions and the
\* failures of the store.
ASSUME AgentLoopAssumption ==
    \A s \in AlScenes :
        /\ {s.require, s.parallel, s.reuse} \subseteq BOOLEAN
        /\ {s.maxIter, s.limit, s.visits} \subseteq Nat \ {0}
        /\ {s.maxCalls, s.crashes, s.resumes, s.faults} \subseteq Nat
        /\ \A a \in s.answers : a.text \in {"none", "text", "bad", "error"}
        /\ s.results \subseteq {"ok", "final1", "final2", "invalid", "unavailable"}

VARIABLES
    alScene,   \* the scene; it does not change
    alPc,      \* where the node is: "idle", "top", "model", "tools", "results", "return",
               \* "done", "failed" or "down"
    alConv,    \* [msgs, iter, answer, iters, calls]: the conversation and the budget, in the
               \* state the node works on
    alPhase,   \* loopRunner.resumePhase
    alChoice,  \* the response that was received and not yet appended
    alJob,     \* [calls, st, out, at, cut]: executeToolCalls; cut: some calls were not run
    alErr,     \* [completion, execution]: whether executeToolCalls has met such errors
    alDisk,    \* [phase, conv]: the last checkpoint; phase "node" is the one before the node
    alJournal, \* the transactions of the effect journal: <<key, status>>
    alLeft,    \* what the bounds leave
    alHist     \* history: [ids, ran, given, kept, partial, known, told]

alVars == <<alScene, alPc, alConv, alPhase, alChoice, alJob, alErr, alDisk, alJournal, alLeft, alHist>>

NoChoice == [text |-> "none", calls |-> <<>>, ids |-> <<>>]
NoJob == [calls |-> <<>>, st |-> <<>>, out |-> <<>>, at |-> 0, cut |-> FALSE]
NoErr == [completion |-> FALSE, execution |-> FALSE]
BlankConv == [msgs |-> <<>>, iter |-> 0, answer |-> "", iters |-> 0, calls |-> 0]

Msg(role, ids) == [role |-> role, calls |-> ids]
SeqSet(s) == {s[i] : i \in DOMAIN s}
Finals == {"final1", "final2"}

AlInit ==
    /\ alScene \in AlScenes
    /\ alPc = "idle"
    /\ alConv = BlankConv /\ alPhase = "" /\ alChoice = NoChoice /\ alJob = NoJob /\ alErr = NoErr
    /\ alDisk = [phase |-> "node", conv |-> BlankConv]
    /\ alJournal = {}
    /\ alLeft = [visits |-> alScene.visits, crashes |-> alScene.crashes, resumes |-> alScene.resumes, faults |-> alScene.faults]
    /\ alHist = [ids |-> 0, ran |-> <<>>, given |-> FALSE, kept |-> FALSE, partial |-> FALSE, known |-> FALSE, told |-> {}]

\* The node fails, and the run with it: told are the calls the error is about.
AlFail(told) == alPc' = "failed" /\ alHist' = [alHist EXCEPT !.told = @ \cup told]

-----------------------------------------------------------------------------
(* The conversation and the budget *)

\* seedConversation: a conversation that already has a request is not given another.
SeedConversation(conv) ==
    IF \E i \in DOMAIN conv.msgs : conv.msgs[i].role = "human"
    THEN conv
    ELSE [conv EXCEPT !.msgs = Append(@, Msg("human", <<>>))]

\* A call is answered by a message that follows before the next response.
AnsweredIn(msgs, i, c) ==
    \E j \in i+1..Len(msgs) : msgs[j] = Msg("tool", <<c>>) /\ \A k \in i+1..j : msgs[k].role # "ai"
AllAnswered(msgs) ==
    \A i \in DOMAIN msgs : msgs[i].role = "ai" => \A c \in SeqSet(msgs[i].calls) : AnsweredIn(msgs, i, c)

\* Mutant: nothing is pending.
NothingPending(msgs) == <<>>

\* pendingToolCalls: the calls of the last message, if the model wrote it, that have no result.
PendingToolCalls(msgs) ==
    IF msgs = <<>> THEN <<>>
    ELSE LET last == msgs[Len(msgs)]
             completed == UNION {SeqSet(m.calls) : m \in {msgs[i] : i \in {j \in DOMAIN msgs : msgs[j].role = "tool"}}}
         IN  IF last.role # "ai" THEN <<>> ELSE SelectSeq(last.calls, LAMBDA c : c.id \notin {d.id : d \in completed})

\* Mutant: the calls are counted but not limited.
NoCallLimit(conv, calls) == TRUE

\* ConsumeAgentBudget for the calls of one response.
CallsFit(conv, calls) == alScene.maxCalls = 0 \/ conv.calls + Len(calls) <= alScene.maxCalls

\* Mutant: a resumed run has its whole budget again.
FreshBudget(conv) == [conv EXCEPT !.iters = 0, !.calls = 0]

\* LoadAgentBudget: the budget used is read from the state of the run.
LoadAgentBudget(conv) == conv

\* CheckpointAgentInvocation: a clone of the node's state and the phase to resume in.
AlCheckpoint(phase, conv) == alDisk' = [phase |-> phase, conv |-> conv]

-----------------------------------------------------------------------------
(* The node starts, and is resumed *)

AlEnter(conv, phase) ==
    /\ alConv' = LoadAgentBudget(SeedConversation(conv))
    /\ alPhase' = phase
    /\ alPc' = "top"
    /\ alChoice' = NoChoice /\ alJob' = NoJob /\ alErr' = NoErr

\* Node.execute
AlStart ==
    /\ alPc = "idle"
    /\ AlEnter(alConv, "")
    /\ alHist' = [alHist EXCEPT !.known = alConv.answer # "", !.given = FALSE]
    /\ UNCHANGED <<alScene, alDisk, alJournal, alLeft>>

\* resumeExistingRun: the run was interrupted or has failed.  The phase is in the
\* context of the run.
AlResume ==
    /\ alPc \in {"down", "failed"}
    /\ alLeft.resumes > 0
    /\ alLeft' = [alLeft EXCEPT !.resumes = @ - 1]
    /\ AlEnter(alDisk.conv, IF alDisk.phase = "node" THEN "" ELSE alDisk.phase)
    /\ alHist' = [alHist EXCEPT !.given = FALSE, !.kept = FALSE,
                                !.known = alDisk.conv.answer # "",
                                !.partial = @ \/ (alDisk.phase = "tool_result" /\ ~AllAnswered(alDisk.conv.msgs))
                                                 \/ (alDisk.phase = "tool_calls" /\ alScene.reuse)]
    /\ UNCHANGED <<alScene, alDisk, alJournal>>

\* The graph leads back to the node: its conversation goes on.
AlRevisit ==
    /\ alPc = "done"
    /\ alLeft.visits > 1
    /\ alLeft' = [alLeft EXCEPT !.visits = @ - 1]
    /\ alPc' = "idle"
    /\ alDisk' = [phase |-> "node", conv |-> alConv]
    /\ alHist' = [alHist EXCEPT !.given = FALSE, !.kept = FALSE]
    /\ UNCHANGED <<alScene, alConv, alPhase, alChoice, alJob, alErr, alJournal>>

\* The process stops; what was in memory is gone.
AlCrash ==
    /\ alPc \in {"top", "model", "tools", "results", "return"}
    /\ alLeft.crashes > 0
    /\ alLeft' = [alLeft EXCEPT !.crashes = @ - 1]
    /\ alPc' = "down"
    /\ alHist' = [alHist EXCEPT !.kept = FALSE]
    /\ UNCHANGED <<alScene, alConv, alPhase, alChoice, alJob, alErr, alDisk, alJournal>>

-----------------------------------------------------------------------------
(* Tool calls *)

\* executeToolCalls begins: the budget is consumed before a tool runs.
BeginTools(conv, calls) ==
    IF CallsFit(conv, calls)
    THEN /\ alPc' = "tools"
         /\ alConv' = [conv EXCEPT !.calls = @ + Len(calls)]
         /\ alJob' = [calls |-> calls, st |-> [i \in DOMAIN calls |-> "todo"], out |-> [i \in DOMAIN calls |-> ""], at |-> 0, cut |-> FALSE]
         /\ UNCHANGED alHist
    ELSE AlFail({}) /\ alConv' = conv /\ UNCHANGED alJob

AlParallel == alScene.parallel /\ Len(alJob.calls) > 1 /\ ~alScene.require

\* A required final answer ends a sequence of calls.
AnsweredBefore(i) == alScene.require /\ \E j \in 1..i-1 : alJob.out[j] \in Finals

\* The workers take the calls in order, as many at a time as the limit allows.
CanBegin(i) ==
    /\ alPc = "tools" /\ alJob.st[i] = "todo"
    /\ \A j \in 1..i-1 : alJob.st[j] # "todo"
    /\ IF AlParallel
       THEN Cardinality({j \in DOMAIN alJob.st : alJob.st[j] \in {"intent", "ran"}}) < alScene.limit
       ELSE \A j \in 1..i-1 : alJob.st[j] = "done"
    /\ ~AnsweredBefore(i)


\* recordEffect: the transaction is named by the operation's key, its status and the
\* attempt, which is 1 again after a resumption; a second one differs from the first in
\* its times and is refused.
Records(key, status) == <<key, status>> \notin alJournal

\* ExecuteToolCall until the handler is called: a tool that is not known, an intent that
\* is refused or that the store does not take.
AlIntent(i) ==
    /\ CanBegin(i)
    /\ LET call == alJob.calls[i]
           ends(out) == alJob' = [alJob EXCEPT !.st[i] = "done", !.out[i] = out]
       IN  \/ /\ call.kind = "missing"
              /\ ends("missing") /\ UNCHANGED <<alJournal, alLeft>>
           \/ /\ call.kind # "missing" /\ Records(call.id, "intent")
              /\ alJob' = [alJob EXCEPT !.st[i] = "intent"]
              /\ alJournal' = alJournal \cup {<<call.id, "intent">>}
              /\ UNCHANGED alLeft
           \/ /\ call.kind # "missing" /\ ~Records(call.id, "intent")
              /\ ends("refused") /\ UNCHANGED <<alJournal, alLeft>>
           \/ /\ call.kind # "missing" /\ alLeft.faults > 0
              /\ alLeft' = [alLeft EXCEPT !.faults = @ - 1]
              /\ ends("unrecorded") /\ UNCHANGED alJournal
    /\ UNCHANGED <<alScene, alPc, alConv, alPhase, alChoice, alErr, alDisk, alHist>>

\* The tool's handler.
AlHandler(i) ==
    /\ alPc = "tools" /\ alJob.st[i] = "intent"
    /\ \E out \in alScene.results : alJob' = [alJob EXCEPT !.st[i] = "ran", !.out[i] = out]
    /\ alHist' = [alHist EXCEPT !.ran = Append(@, alJob.calls[i].id)]
    /\ UNCHANGED <<alScene, alPc, alConv, alPhase, alChoice, alErr, alDisk, alJournal, alLeft>>

\* The outcome is recorded; a result whose outcome is not on record is an error.
AlOutcome(i) ==
    /\ alPc = "tools" /\ alJob.st[i] = "ran"
    /\ LET status == IF alJob.out[i] \in {"ok"} \cup Finals THEN "succeeded" ELSE "failed"
           key == alJob.calls[i].id
       IN  \/ /\ Records(key, status)
              /\ alJournal' = alJournal \cup {<<key, status>>}
              /\ alJob' = [alJob EXCEPT !.st[i] = "done"]
              /\ UNCHANGED alLeft
           \/ /\ alLeft.faults > 0
              /\ alLeft' = [alLeft EXCEPT !.faults = @ - 1]
              /\ alJob' = [alJob EXCEPT !.st[i] = "done", !.out[i] = "unrecorded"]
              /\ UNCHANGED alJournal
    /\ UNCHANGED <<alScene, alPc, alConv, alPhase, alChoice, alErr, alDisk, alHist>>

\* All tools have ended, or the ones that have not begun are not needed.
AlGather ==
    /\ alPc = "tools"
    /\ LET ended == {i \in DOMAIN alJob.st : alJob.st[i] = "done"}
           n == Cardinality(ended)
       IN  /\ \A i \in DOMAIN alJob.st \ ended : alJob.st[i] = "todo" /\ AnsweredBefore(i)
           /\ alJob' = [calls |-> SubSeq(alJob.calls, 1, n), st |-> SubSeq(alJob.st, 1, n),
                        out |-> SubSeq(alJob.out, 1, n), at |-> 1, cut |-> n < Len(alJob.calls)]
    /\ alPc' = "results"
    /\ UNCHANGED <<alScene, alConv, alPhase, alChoice, alErr, alDisk, alJournal, alLeft, alHist>>

\* repairableRequiredToolError: the model is told of the error and goes on.
Repairable(out) == alScene.require /\ out = "invalid"

\* Mutant: an intent that is refused ends like a tool that is not known.
ForgivesRefusal(out, stored) ==
    [completion |-> alErr.completion \/ ~stored,
     execution |-> alErr.execution \/ (out \notin {"ok", "missing", "refused"} \cup Finals /\ ~Repairable(out))]

\* The errors one execution adds to those that end the loop.
AfterResult(out, stored) ==
    [completion |-> alErr.completion \/ ~stored,
     execution |-> alErr.execution \/ (out \notin {"ok", "missing"} \cup Finals /\ ~Repairable(out))]

AlFinals(upto) == SelectSeq(SubSeq(alJob.out, 1, upto), LAMBDA o : o \in Finals)

\* Mutant: the loop goes on until the model answers.
NeverReturns(conv) == FALSE

\* After the tools the loop returns if there is a final answer, unless these were the
\* calls left over by an interrupted execution: then it goes on.
LoopReturns(conv) == alChoice # NoChoice /\ conv.answer # ""

\* The results are appended in the order of the calls, with a checkpoint after each; the
\* last one decides how executeToolCalls returns.
AlResult ==
    /\ alPc = "results"
    /\ LET k == alJob.at
           n == Len(alJob.calls)
           conv == [alConv EXCEPT !.msgs = Append(@, Msg("tool", <<alJob.calls[k]>>))]
           finals == AlFinals(n)
           answered == IF finals = <<>> THEN conv ELSE [conv EXCEPT !.answer = finals[1]]
       IN  \E stored \in IF alLeft.faults > 0 THEN BOOLEAN ELSE {TRUE} :
             LET err == AfterResult(alJob.out[k], stored)
                 completion == err.completion \/ \E f \in SeqSet(finals) : f # finals[1]
                 failed == completion \/ (err.execution /\ ~(alScene.require /\ finals # <<>>))
             IN  /\ alErr' = err
                 /\ IF stored THEN AlCheckpoint("tool_result", conv) ELSE UNCHANGED alDisk
                 /\ alLeft' = IF stored THEN alLeft ELSE [alLeft EXCEPT !.faults = @ - 1]
                 /\ IF k < n
                    THEN /\ alJob' = [alJob EXCEPT !.at = k + 1]
                         /\ alConv' = conv
                         /\ UNCHANGED <<alPc, alChoice, alHist>>
                    ELSE /\ alJob' = NoJob
                         /\ alConv' = answered
                         /\ alChoice' = NoChoice
                         /\ IF failed THEN AlFail({c.id : c \in SeqSet(alJob.calls)})
                            ELSE /\ alPc' = IF LoopReturns(answered) THEN "return" ELSE "top"
                                 /\ alHist' = [alHist EXCEPT !.given = @ \/ finals # <<>>,
                                                             !.kept = @ \/ (finals # <<>> /\ alChoice = NoChoice),
                                                             !.partial = @ \/ alJob.cut]
    /\ UNCHANGED <<alScene, alPhase, alJournal>>

-----------------------------------------------------------------------------
(* The loop *)

\* The calls of a response with the identifiers the provider gives them.
Numbered(calls) ==
    [i \in DOMAIN calls |-> [id |-> IF alScene.reuse THEN i ELSE alHist.ids + i, kind |-> calls[i]]]

IterationLimit(conv) == conv.iter >= alScene.maxIter

\* The top of the loop: the limit, the calls that an interrupted execution left, or a
\* request to the model, which is budgeted first.
AlTop ==
    /\ alPc = "top"
    /\ LET pending == IF alPhase = "tool_calls" THEN PendingToolCalls(alConv.msgs) ELSE <<>>
       IN  IF IterationLimit(alConv)
           THEN AlFail({}) /\ UNCHANGED <<alConv, alPhase, alChoice, alJob>>
           ELSE /\ alPhase' = IF alPhase = "tool_calls" THEN "" ELSE alPhase
                /\ IF pending # <<>>
                   THEN BeginTools(alConv, pending) /\ UNCHANGED alChoice
                   ELSE IF alConv.iters + 1 > alScene.maxIter
                   THEN AlFail({}) /\ UNCHANGED <<alConv, alChoice, alJob>>
                   ELSE \E a \in alScene.answers :
                          LET calls == Numbered(a.calls)
                          IN  /\ alConv' = [alConv EXCEPT !.iters = @ + 1]
                              /\ alChoice' = [text |-> a.text, calls |-> a.calls, ids |-> calls]
                              /\ alPc' = "model"
                              /\ alHist' = [alHist EXCEPT !.ids = @ + Len(calls)]
                              /\ UNCHANGED alJob
    /\ UNCHANGED <<alScene, alErr, alDisk, alJournal, alLeft>>

\* Mutant: an answer in words will do, although a tool must give it.
WordsWillDo(text) == text = "none"

\* A response without calls is not taken for the final answer.
AskedAgain(text) == text = "none" \/ alScene.require

\* The response is appended, with the calls that have a type, and is checkpointed; then
\* the loop answers, asks once more, or runs the tools: all that were called.
AlModel ==
    /\ alPc = "model"
    /\ LET typed == SelectSeq(alChoice.ids, LAMBDA c : c.kind # "untyped")
           conv == [alConv EXCEPT !.msgs = Append(@, Msg("ai", typed)), !.iter = @ + 1]
           nudged == [conv EXCEPT !.msgs = Append(@, Msg("human", <<>>))]
       IN  \/ /\ alChoice.text = "error"
              /\ AlFail({})
              /\ UNCHANGED <<alConv, alChoice, alJob, alErr, alDisk, alLeft>>
           \/ /\ alChoice.text # "error" /\ alLeft.faults > 0
              /\ alLeft' = [alLeft EXCEPT !.faults = @ - 1]
              /\ alConv' = conv
              /\ AlFail({})
              /\ UNCHANGED <<alChoice, alJob, alErr, alDisk>>
           \/ /\ alChoice.text # "error"
              /\ AlCheckpoint("tool_calls", conv)
              /\ alErr' = NoErr
              /\ CASE alChoice.ids # <<>> -> BeginTools(conv, alChoice.ids) /\ UNCHANGED alChoice
                   [] alChoice.ids = <<>> /\ AskedAgain(alChoice.text) ->
                        /\ alConv' = nudged /\ alPc' = "top" /\ alChoice' = NoChoice
                        /\ UNCHANGED <<alJob, alHist>>
                   [] OTHER ->
                        /\ alConv' = IF alChoice.text = "bad" THEN conv ELSE [conv EXCEPT !.answer = "text"]
                        /\ IF alChoice.text = "bad" THEN AlFail({})
                           ELSE alPc' = "return" /\ alHist' = [alHist EXCEPT !.given = TRUE]
                        /\ UNCHANGED <<alChoice, alJob>>
              /\ UNCHANGED alLeft
    /\ UNCHANGED <<alScene, alPhase, alJournal>>

\* The node returns and its result is committed with the state.
AlReturn ==
    /\ alPc = "return"
    /\ alPc' = "done"
    /\ alDisk' = [phase |-> "node", conv |-> alConv]
    /\ alChoice' = NoChoice
    /\ UNCHANGED <<alScene, alConv, alPhase, alJob, alErr, alJournal, alLeft, alHist>>

AlTools == \E i \in DOMAIN alJob.calls : AlIntent(i) \/ AlHandler(i) \/ AlOutcome(i)
AlRuns == AlStart \/ AlTop \/ AlModel \/ AlTools \/ AlGather \/ AlResult \/ AlReturn
AlNext == AlRuns \/ AlResume \/ AlRevisit \/ AlCrash

-----------------------------------------------------------------------------
(* Properties *)

AlPlaces == {"idle", "top", "model", "tools", "results", "return", "done", "failed", "down"}

\* The state of the loop has the shape the code gives it.
AlTypeOK ==
    /\ alPc \in AlPlaces
    /\ alPhase \in {"", "tool_calls", "tool_result"}
    /\ alDisk.phase \in {"node", "tool_calls", "tool_result"}
    /\ alConv.answer \in {"", "text"} \cup Finals
    /\ alConv.iter <= alScene.maxIter /\ alConv.iters <= alScene.maxIter
    /\ alScene.maxCalls = 0 \/ alConv.calls <= alScene.maxCalls
    /\ DOMAIN alJob.st = DOMAIN alJob.calls /\ DOMAIN alJob.out = DOMAIN alJob.calls
    /\ alPc = "results" => alJob.at \in DOMAIN alJob.calls
    /\ \A e \in alJournal : e[2] \in {"intent", "succeeded", "failed"}

\* No tool call is carried out twice, however often the process stops and the run is
\* resumed (runtime/agent_graph_integration_test.go, "ResumesWithoutRepeatingTool"): the
\* intent of an operation is on record before its handler is called and is not taken again.
HandlerRunsOnce ==
    \A i, j \in DOMAIN alHist.ran : alHist.ran[i] = alHist.ran[j] => i = j

\* The run carries out at most MaxToolCalls calls, the resumed executions and all visits
\* of the node included, although the budget that is used is only saved with the next
\* checkpoint.
CallsStayInBudget == alScene.maxCalls > 0 => Len(alHist.ran) <= alScene.maxCalls

\* The model is asked only when every call it made has its result after it, and no result
\* lacks its call; except that a run resumed between two results, or whose later calls
\* were dropped for an answer, keeps calls without results, that a resumed run takes a
\* call for answered whose identifier was used before, and that a call without a type
\* is run but not kept.
PromptAnswersCalls ==
    alPc = "model" =>
        /\ AllAnswered(alConv.msgs) \/ alHist.partial
        /\ \A j \in DOMAIN alConv.msgs :
             LET m == alConv.msgs[j]
             IN  m.role = "tool" /\ m.calls[1].kind # "untyped" =>
                   \E i \in 1..j-1 : alConv.msgs[i].role = "ai" /\ m.calls[1] \in SeqSet(alConv.msgs[i].calls)

\* The node completes with an answer that this execution was given, and if a tool must
\* give it, that a tool gave; except that a conversation that had an answer when the
\* execution began may end with it.
AnswerIsTrusted ==
    alPc = "done" =>
        /\ alHist.given \/ alHist.known
        /\ alScene.require => alConv.answer \in Finals

\* A tool call whose intent is on record and whose outcome is not does not pass in
\* silence: when the node completes, the run had failed because of it and was resumed.
\* Only an answer that a tool had to give outweighs it; a run resumed between two results
\* may forget it, and so does one with calls without a type.
UnknownEffectIsTold ==
    alPc = "done" /\ ~alScene.require /\ ~alHist.partial =>
        \A e \in alJournal :
            e[2] = "intent" =>
                \/ \E s \in {"succeeded", "failed"} : <<e[1], s>> \in alJournal
                \/ e[1] \in alHist.told
                \/ \E a \in alScene.answers : "untyped" \in SeqSet(a.calls)

\* Once it has the final answer the loop does not ask the model again; except after calls
\* that an interrupted execution had left, whose answer the loop does not look at.
AnswerEndsLoop ==
    [][alPc = "top" /\ alPc' = "model" => ~alHist.given \/ alHist.kept]_alVars

\* The node ends, or waits to be resumed.
AlQuiet == alPc \in {"done", "failed", "down"}

=============================================================================

----------------------------- MODULE ToolSlots -----------------------------
(***************************************************************************)
(* Tool calls that run at once (core/concurrency.go, core.ExecuteTool, the *)
(* worker pools of node/tool_execution.go and of the agent loop): batches  *)
(* of calls take slots of one limiter; a composite tool, an agent as a     *)
(* tool, keeps its slot and runs a batch of its own under it.  Every call  *)
(* journals its effect before and after its handler.                       *)
(***************************************************************************)
EXTENDS Naturals, Sequences, FiniteSets, SequencesExt

\* The scenes to play: [limit, tool, batch, parallel, cancels, faults].
CONSTANT TsScenes

\* A scene has the limit of the limiter (MaxConcurrentTools); for each call its tool
\* ([composite, write]); the batches, a sequence of calls for each owner, where the owner
\* is a composite call or a node that is no call; whether they are parallel; and bounds on
\* canceled batches and on failures.  Agents nest to a depth of two.
ASSUME ToolSlotsAssumption ==
    \A s \in TsScenes :
        /\ {s.limit, s.cancels, s.faults} \subseteq Nat /\ s.limit > 0
        /\ \A o \in DOMAIN s.batch : o \in DOMAIN s.tool => s.tool[o].composite
        /\ UNION {ToSet(s.batch[o]) : o \in DOMAIN s.batch} = DOMAIN s.tool
        /\ \A o \in DOMAIN s.batch, p \in DOMAIN s.batch : ToSet(s.batch[o]) \cap ToSet(s.batch[p]) # {} => o = p

VARIABLES
    tsScene,   \* the scene; it does not change
    tsPc,      \* call -> where ExecuteTool is
    tsCalled,  \* the batches that are canceled
    tsLimiter, \* [active, waiters]: the ConcurrencyLimiter
    tsSlot,    \* composite call -> the call in its permit's slot, or ""
    tsJournal, \* call -> the last status of its effect in the journal, or ""
    tsApplied, \* the calls whose handlers changed something outside
    tsResult,  \* call -> what the call returned, or ""
    tsFaults   \* the failures that are left

tsVars == <<tsScene, tsPc, tsCalled, tsLimiter, tsSlot, tsJournal, tsApplied, tsResult, tsFaults>>

TsCalls == DOMAIN tsScene.tool
Owners == DOMAIN tsScene.batch
OwnerOf(c) == CHOOSE o \in Owners : c \in ToSet(tsScene.batch[o])
Composite(c) == tsScene.tool[c].composite

\* The composite call whose permit is in the context of c: the outermost one, since a
\* composite call under a permit keeps it.  "" if there is none.
PermitOf(c) ==
    LET o == OwnerOf(c)
    IN  IF o \notin TsCalls THEN ""
        ELSE IF OwnerOf(o) \in TsCalls THEN OwnerOf(o) ELSE o

TsInit ==
    /\ tsScene \in TsScenes
    /\ tsPc = [c \in TsCalls |-> "new"]
    /\ tsCalled = {}
    /\ tsLimiter = [active |-> 0, waiters |-> <<>>]
    /\ tsSlot = [c \in {d \in TsCalls : Composite(d)} |-> ""]
    /\ tsJournal = [c \in TsCalls |-> ""]
    /\ tsApplied = {}
    /\ tsResult = [c \in TsCalls |-> ""]
    /\ tsFaults = tsScene.faults

-----------------------------------------------------------------------------
(* ConcurrencyLimiter *)

\* Mutant: a released slot is free although it was given to a waiter.
FreesAndGives(l) ==
    IF l.waiters = <<>> THEN [l EXCEPT !.active = @ - 1]
    ELSE [active |-> l.active - 1, waiters |-> Tail(l.waiters)]

\* ConcurrencyLimiter.release: the slot goes to the first waiter, or is free.
SlotReleased(l) ==
    IF l.waiters = <<>> THEN [l EXCEPT !.active = @ - 1] ELSE [l EXCEPT !.waiters = Tail(@)]

\* Mutant: the canceled waiter does not look whether it was given a slot.
NeverGivesBack(l, c) == [l EXCEPT !.waiters = SelectSeq(@, LAMBDA d : d # c)]

\* The end of Acquire for a canceled context: cancelWaiter, or release if the slot has
\* been given to the waiter.
WaiterCanceled(l, c) ==
    IF c \in ToSet(l.waiters) THEN [l EXCEPT !.waiters = SelectSeq(@, LAMBDA d : d # c)] ELSE SlotReleased(l)

-----------------------------------------------------------------------------
(* The batches *)

\* The handler of the composite call runs, or the node that owns the batch does.
OwnerRuns(o) == o \in TsCalls => tsPc[o] = "running"

\* ToolExecutionConcurrencyLimit: a batch under a permit is run by one worker.
PoolLimit(o) == IF o \in TsCalls THEN 1 ELSE tsScene.limit

Workers(o) ==
    IF ~tsScene.parallel THEN 1
    ELSE IF Len(tsScene.batch[o]) < PoolLimit(o) THEN Len(tsScene.batch[o]) ELSE PoolLimit(o)

\* A worker takes the next task of its batch.
TsDispatch(c) ==
    LET calls == tsScene.batch[OwnerOf(c)]
        at == CHOOSE i \in DOMAIN calls : calls[i] = c
    IN  /\ tsPc[c] = "new" /\ OwnerRuns(OwnerOf(c))
        /\ \A i \in 1..(at - 1) : tsPc[calls[i]] # "new"
        /\ Cardinality({d \in ToSet(calls) : tsPc[d] \notin {"new", "ended"}}) < Workers(OwnerOf(c))
        /\ tsPc' = [tsPc EXCEPT ![c] = "gate"]
        /\ UNCHANGED <<tsScene, tsCalled, tsLimiter, tsSlot, tsJournal, tsApplied, tsResult, tsFaults>>

\* The context of a batch is canceled, and with it those of the batches below.
TsCancel(o) ==
    /\ Cardinality(tsCalled) < tsScene.cancels /\ o \notin tsCalled
    /\ OwnerRuns(o)
    /\ tsCalled' = tsCalled \cup {o}
    /\ UNCHANGED <<tsScene, tsPc, tsLimiter, tsSlot, tsJournal, tsApplied, tsResult, tsFaults>>

CanceledFor(c) ==
    LET o == OwnerOf(c)
    IN  o \in tsCalled \/ (o \in TsCalls /\ OwnerOf(o) \in tsCalled)
          \/ (o \in TsCalls /\ OwnerOf(o) \in TsCalls /\ OwnerOf(OwnerOf(o)) \in tsCalled)

-----------------------------------------------------------------------------
(* ExecuteTool *)

TsFault == tsFaults > 0 /\ tsFaults' = tsFaults - 1

\* ExecuteTool returns before it has asked for a slot: the arguments are not valid, or
\* the permission or the approval is denied.
TsRefused(c) ==
    /\ tsPc[c] = "gate" /\ TsFault
    /\ tsPc' = [tsPc EXCEPT ![c] = "ended"]
    /\ \E r \in {"invalid_input", "permission_denied"} : tsResult' = [tsResult EXCEPT ![c] = r]
    /\ UNCHANGED <<tsScene, tsCalled, tsLimiter, tsSlot, tsJournal, tsApplied>>

\* Mutant: nested composite calls ask the limiter again.
AsksAgain(c) == IF PermitOf(c) # "" /\ ~Composite(c) THEN "slot" ELSE "limiter"

\* AcquireToolExecution: what a call has to hold.
Needs(c) ==
    IF PermitOf(c) = "" THEN "limiter"
    ELSE IF Composite(c) THEN "nothing" ELSE "slot"

\* AcquireToolExecution: TryAcquire and acquireWaiter, or the permit's slot.
TsAcquire(c) ==
    /\ tsPc[c] = "gate"
    /\ CASE Needs(c) = "limiter" /\ tsLimiter.active < tsScene.limit ->
              /\ tsLimiter' = [tsLimiter EXCEPT !.active = @ + 1]
              /\ tsPc' = [tsPc EXCEPT ![c] = "held"] /\ UNCHANGED tsSlot
         [] Needs(c) = "limiter" /\ tsLimiter.active >= tsScene.limit ->
              /\ tsLimiter' = [tsLimiter EXCEPT !.waiters = Append(@, c)]
              /\ tsPc' = [tsPc EXCEPT ![c] = "waiting"] /\ UNCHANGED tsSlot
         [] Needs(c) = "slot" ->
              /\ tsSlot[PermitOf(c)] = ""
              /\ tsSlot' = [tsSlot EXCEPT ![PermitOf(c)] = c]
              /\ tsPc' = [tsPc EXCEPT ![c] = "held"] /\ UNCHANGED tsLimiter
         [] Needs(c) = "nothing" ->
              tsPc' = [tsPc EXCEPT ![c] = "held"] /\ UNCHANGED <<tsLimiter, tsSlot>>
    /\ UNCHANGED <<tsScene, tsCalled, tsJournal, tsApplied, tsResult, tsFaults>>

\* Acquire returns: the waiter's channel is closed.
TsGranted(c) ==
    /\ tsPc[c] = "waiting" /\ c \notin ToSet(tsLimiter.waiters)
    /\ tsPc' = [tsPc EXCEPT ![c] = "held"]
    /\ UNCHANGED <<tsScene, tsCalled, tsLimiter, tsSlot, tsJournal, tsApplied, tsResult, tsFaults>>

\* A call that waits for its turn is canceled; the select may see this although the
\* channel is closed as well.
TsGivesUp(c) ==
    /\ CanceledFor(c)
    /\ \/ tsPc[c] = "waiting" /\ tsLimiter' = WaiterCanceled(tsLimiter, c)
       \/ /\ tsPc[c] = "gate" /\ Needs(c) = "slot" /\ tsSlot[PermitOf(c)] # ""
          /\ UNCHANGED tsLimiter
    /\ tsPc' = [tsPc EXCEPT ![c] = "ended"]
    /\ tsResult' = [tsResult EXCEPT ![c] = "canceled"]
    /\ UNCHANGED <<tsScene, tsCalled, tsSlot, tsJournal, tsApplied, tsFaults>>

\* The deferred release.
TsReturns(c, result) ==
    /\ tsPc' = [tsPc EXCEPT ![c] = "ended"]
    /\ tsResult' = [tsResult EXCEPT ![c] = result]
    /\ tsLimiter' = IF Needs(c) = "limiter" THEN SlotReleased(tsLimiter) ELSE tsLimiter
    /\ tsSlot' = IF Needs(c) = "slot" THEN [tsSlot EXCEPT ![PermitOf(c)] = ""] ELSE tsSlot

\* The intent is journaled; the context may be canceled by now and the journal fail.
TsIntent(c) ==
    /\ tsPc[c] = "held"
    /\ \/ /\ tsJournal' = [tsJournal EXCEPT ![c] = "intent"]
          /\ tsPc' = [tsPc EXCEPT ![c] = "running"]
          /\ UNCHANGED <<tsLimiter, tsSlot, tsResult, tsFaults>>
       \/ /\ TsReturns(c, "side_effect_failed")
          /\ TsFault \/ (CanceledFor(c) /\ UNCHANGED tsFaults)
          /\ UNCHANGED tsJournal
    /\ UNCHANGED <<tsScene, tsCalled, tsApplied>>

\* Mutant: a failed handler is taken to have done nothing.
FailedIsFailed(c) == [journal |-> "failed", result |-> "error"]

\* What ExecuteTool makes of a handler's error: the outcome of a write is not known.
HandlerError(c) ==
    IF tsScene.tool[c].write THEN [journal |-> "unknown", result |-> "side_effect_failed"]
    ELSE [journal |-> "failed", result |-> "error"]

\* The handler returns: a composite one when its batch is done, or without
\* calling a tool.  An error may come before or after what the handler does outside.
TsHandler(c) ==
    /\ tsPc[c] = "running"
    /\ (Composite(c) /\ c \in Owners) =>
          \/ \A d \in ToSet(tsScene.batch[c]) : tsPc[d] = "ended"
          \/ \A d \in ToSet(tsScene.batch[c]) : tsPc[d] = "new"
    /\ \/ /\ tsPc' = [tsPc EXCEPT ![c] = "succeeded"]
          /\ tsApplied' = IF tsScene.tool[c].write THEN tsApplied \cup {c} ELSE tsApplied
          /\ UNCHANGED tsFaults
       \/ /\ TsFault \/ (CanceledFor(c) /\ UNCHANGED tsFaults)
          /\ tsPc' = [tsPc EXCEPT ![c] = "erred"]
          /\ \/ tsApplied' = IF tsScene.tool[c].write THEN tsApplied \cup {c} ELSE tsApplied
             \/ UNCHANGED tsApplied
    /\ UNCHANGED <<tsScene, tsCalled, tsLimiter, tsSlot, tsJournal, tsResult>>

\* Mutant: success is returned although it could not be journaled.
ReturnsSuccess(c) == "ok"

\* What is returned if the outcome cannot be journaled.
OutcomeLost(c) == "side_effect_failed"

\* The outcome is journaled, without regard to cancellation, and the call returns;
\* validateToolResult may still refuse the result of a handler that succeeded.
TsOutcome(c) ==
    /\ tsPc[c] \in {"succeeded", "erred"}
    /\ LET outcome == IF tsPc[c] = "erred" THEN HandlerError(c) ELSE [journal |-> "succeeded", result |-> "ok"]
       IN  \/ /\ tsJournal' = [tsJournal EXCEPT ![c] = outcome.journal]
              /\ \/ TsReturns(c, outcome.result) /\ UNCHANGED tsFaults
                 \/ tsPc[c] = "succeeded" /\ TsReturns(c, "non_retryable") /\ TsFault
           \/ TsReturns(c, OutcomeLost(c)) /\ TsFault /\ UNCHANGED tsJournal
    /\ UNCHANGED <<tsScene, tsCalled, tsApplied>>

TsRuns ==
    \E c \in TsCalls :
        \/ TsDispatch(c) \/ TsAcquire(c) \/ TsGranted(c) \/ TsGivesUp(c)
        \/ TsIntent(c) \/ TsHandler(c) \/ TsOutcome(c)

TsNext == TsRuns \/ (\E c \in TsCalls : TsRefused(c)) \/ (\E o \in Owners : TsCancel(o))

-----------------------------------------------------------------------------
(* Properties *)

Holding == {c \in TsCalls : tsPc[c] \in {"held", "running", "succeeded", "erred"}}

\* The limiter and the calls have the values the code gives them.
TsTypeOK ==
    /\ tsPc \in [TsCalls -> {"new", "gate", "waiting", "held", "running", "succeeded", "erred", "ended"}]
    /\ tsLimiter.active \in 0..tsScene.limit
    /\ IsInjective(tsLimiter.waiters) /\ ToSet(tsLimiter.waiters) \subseteq TsCalls
    /\ tsJournal \in [TsCalls -> {"", "intent", "succeeded", "unknown", "failed"}]

\* No more than the limit of tools that are no agents are at work at once, however calls
\* nest, wait and are canceled.
LimitIsKept ==
    Cardinality({c \in TsCalls : tsPc[c] = "running" /\ ~Composite(c)}) <= tsScene.limit

\* The slots the limiter counts are held, or given to a call that is about to notice; a
\* call waits only while all are taken.
SlotsAreAccounted ==
    /\ tsLimiter.active =
         Cardinality({c \in TsCalls : PermitOf(c) = "" /\ (c \in Holding \/ (tsPc[c] = "waiting" /\ c \notin ToSet(tsLimiter.waiters)))})
    /\ tsLimiter.waiters # <<>> => tsLimiter.active = tsScene.limit

\* What the journal and the caller are told of a call that writes is true: an effect that
\* may have happened is never recorded as failed and never returned as an error that can
\* simply be retried, and success is returned only if it was journaled.
JournalIsHonest ==
    \A c \in TsCalls : tsPc[c] = "ended" /\ tsScene.tool[c].write =>
        /\ c \in tsApplied => tsJournal[c] \in {"intent", "succeeded", "unknown"}
        /\ c \in tsApplied /\ tsResult[c] \notin {"ok", "non_retryable"} => tsResult[c] = "side_effect_failed"
        /\ tsResult[c] \in {"ok", "non_retryable"} => tsJournal[c] = "succeeded" /\ c \in tsApplied

\* Every call that was made returns: the calls never come to wait for one another.
TsQuiet ==
    \A c \in TsCalls : tsPc[c] \in {"new", "ended"} /\ (tsPc[c] = "new" => ~OwnerRuns(OwnerOf(c)))
=============================================================================

--------------------------- MODULE TriggerService ---------------------------
(***************************************************************************)
(* The trigger service (internal/trigger/service.go, channel_manager.go,   *)
(* schedule_manager.go, graph_replacement.go, run_invoker.go, store.go).   *)
(*                                                                         *)
(* Definitions live in files, one per trigger; every operation that        *)
(* changes them holds operationMu from its first read to its last effect.  *)
(* An enabled schedule trigger has a cron, an enabled chat trigger a       *)
(* channel goroutine; replacing a channel waits for the previous one to    *)
(* return.  Cron jobs, inbound chat messages and requests look their       *)
(* definition up under the same mutex before they start a run.             *)
(*                                                                         *)
(* All triggers target one graph.  A definition is its version (each       *)
(* accepted write makes a new one) and whether it is enabled.              *)
(***************************************************************************)
EXTENDS Integers, FiniteSets

CONSTANTS
    TrgIds,             \* trigger IDs
    TrgType,            \* [TrgIds -> {"chat", "schedule", "webhook"}]
    TrgAwaits,          \* the chat triggers whose channel waits for its workers
    TrgCalls,           \* cron jobs, inbound messages and requests
    TrgVersionBound     \* bound: accepted definition writes

VARIABLES
    trgDef,     \* the files: [TrgIds -> [ver, on]], ver = 0: no file
    trgTorn,    \* history: the rollback of a replacement lost files
    trgMem,     \* [started, sched, chan]: s.cancel # nil, s.schedules, s.chatChannels
    trgInst,    \* the channel goroutines that have not closed done: [id, ver, canceled]
    trgCount,   \* accepted definition writes
    trgAdmin,   \* the holder of operationMu: [pc, prev, next, todo, at]
    trgCall,    \* [TrgCalls -> [pc, id, from, dead]]: dead is ctx.Err() # nil
    trgActive   \* s.activeRuns, for triggers with concurrency "skip"

trgVars == <<trgDef, trgCount, trgTorn, trgMem, trgInst, trgAdmin, trgCall, trgActive>>

Chats == {id \in TrgIds : TrgType[id] = "chat"}
Schedules == {id \in TrgIds : TrgType[id] = "schedule"}
NoDef == [ver |-> 0, on |-> FALSE]
NoDefs == [id \in TrgIds |-> NoDef]
Stored(defs) == {id \in TrgIds : defs[id].ver # 0}
AdminIdle == [pc |-> "idle", prev |-> NoDefs, next |-> NoDefs, todo |-> {}, at |-> "none"]
Applying(ids) ==
    IF ids = {} THEN AdminIdle ELSE [AdminIdle EXCEPT !.pc = "detach", !.todo = ids]
OperationMuFree == trgAdmin.pc = "idle"
CallIn(pc) == [pc |-> pc, id |-> "none", from |-> 0, dead |-> FALSE]
NothingLive == [id \in TrgIds |-> 0]

TrgInit ==
    /\ trgDef = NoDefs
    /\ trgCount = 0
    /\ trgTorn = FALSE
    /\ trgMem = [started |-> FALSE, sched |-> NothingLive, chan |-> NothingLive]
    /\ trgInst = {}
    /\ trgAdmin = AdminIdle
    /\ trgCall = [c \in TrgCalls |-> CallIn("none")]
    /\ trgActive = [id \in TrgIds |-> 0]

-----------------------------------------------------------------------------
(* What is live for a definition: buildSchedule, buildChatChannel,         *)
(* replaceSchedule, replaceChatChannel                                     *)

Wanted(id) == IF trgDef[id].on THEN trgDef[id].ver ELSE 0

\* cancel() of the channels of these triggers reaches their workers, too.
CancelChannels(ids) ==
    /\ trgInst' = {[i EXCEPT !.canceled = @ \/ i.id \in ids] : i \in trgInst}
    /\ trgCall' = [c \in TrgCalls |->
            [trgCall[c] EXCEPT !.dead = @ \/ (trgCall[c].id \in ids /\ trgCall[c].from # 0)]]

WithoutChannel(id) ==
    [trgMem EXCEPT !.sched[id] = IF id \in Schedules /\ trgMem.started THEN Wanted(id) ELSE 0,
                   !.chan[id] = 0]


\* replaceSchedule, and replaceChatChannel up to the wait for previous.done.
Detach(id) ==
    /\ trgMem' = WithoutChannel(id)
    /\ CancelChannels({id})


\* <-previous.done
PreviousDone(id) == \A i \in trgInst : i.id # id

\* replaceChatChannel after the wait.
Attach(id) ==
    IF id \in Chats /\ Wanted(id) # 0 /\ trgMem.started
    THEN /\ trgMem' = [trgMem EXCEPT !.chan[id] = Wanted(id)]
         /\ trgInst' = trgInst \cup {[id |-> id, ver |-> Wanted(id), canceled |-> FALSE]}
    ELSE UNCHANGED <<trgMem, trgInst>>

-----------------------------------------------------------------------------
(* Definition operations *)

\* Mutant: deleting a definition leaves what is live for it alone.
AppliedAfterWrite(ids, removed) == ids \ removed

\* The triggers whose schedule and channel an operation replaces.
AppliedAfter(ids, removed) == ids \cup removed

\* Create and Update: an error of the store ends the operation.
WriteDefinition(id, on) ==
    /\ OperationMuFree
    /\ trgCount < TrgVersionBound
    /\ trgCount' = trgCount + 1
    /\ trgDef' = [trgDef EXCEPT ![id] = [ver |-> trgCount', on |-> on]]
    /\ trgAdmin' = Applying(AppliedAfter({id}, {}))
    /\ UNCHANGED <<trgTorn, trgMem, trgInst, trgCall, trgActive>>

DeleteDefinitions(ids) ==
    /\ OperationMuFree
    /\ ids # {} /\ \A id \in ids : trgDef[id].ver # 0
    /\ trgDef' = [id \in TrgIds |-> IF id \in ids THEN NoDef ELSE trgDef[id]]
    /\ trgAdmin' = Applying(AppliedAfter({}, ids))
    /\ UNCHANGED <<trgCount, trgTorn, trgMem, trgInst, trgCall, trgActive>>

\* Service.Delete of one trigger, Service.DeleteGraph of all.
Delete(id) == DeleteDefinitions({id})
DeleteTriggersOfGraph ==
    DeleteDefinitions(Stored(trgDef))

\* PrepareGraphReplacement, with these triggers as the next set, enabled.
PrepareGraphReplacement(ids) ==
    /\ OperationMuFree
    /\ trgCount < TrgVersionBound
    /\ trgCount' = trgCount + 1
    /\ trgAdmin' = [AdminIdle EXCEPT
            !.pc = "persist", !.prev = trgDef,
            !.next = [id \in TrgIds |-> IF id \in ids
                                        THEN [ver |-> trgCount', on |-> TRUE] ELSE NoDef]]
    /\ UNCHANGED <<trgDef, trgTorn, trgMem, trgInst, trgCall, trgActive>>

\* What the files still lack of the next set; files outside it go last.
Unwritten == {id \in Stored(trgAdmin.next) : trgDef[id] # trgAdmin.next[id]}
Unwanted == Stored(trgDef) \ Stored(trgAdmin.next)

\* FileStore.ReplaceGraph writes the files of the next set one by one ...
ReplaceGraphWrites(id) ==
    /\ trgAdmin.pc = "persist" /\ id \in Unwritten
    /\ trgDef' = [trgDef EXCEPT ![id] = trgAdmin.next[id]]
    /\ UNCHANGED <<trgCount, trgTorn, trgMem, trgInst, trgAdmin, trgCall, trgActive>>

\* ... removes the others, and GraphReplacement.Commit starts.
ReplaceGraphRemoves(id) ==
    /\ trgAdmin.pc = "persist" /\ Unwritten = {} /\ id \in Unwanted
    /\ trgDef' = [trgDef EXCEPT ![id] = NoDef]
    /\ UNCHANGED <<trgCount, trgTorn, trgMem, trgInst, trgAdmin, trgCall, trgActive>>

CommitReplacement ==
    /\ trgAdmin.pc = "persist" /\ Unwritten = {} /\ Unwanted = {}
    /\ trgAdmin' = Applying(AppliedAfter(Stored(trgAdmin.next), Stored(trgAdmin.prev)))
    /\ UNCHANGED <<trgDef, trgCount, trgTorn, trgMem, trgInst, trgCall, trgActive>>

\* A write fails: rollback removes the next files and writes the previous
\* ones back, ignoring errors of its own, in which case they are lost.
ReplaceGraphFails(lost) ==
    /\ trgAdmin.pc = "persist" /\ (Unwritten # {} \/ Unwanted # {})
    /\ lost \subseteq Stored(trgAdmin.prev) \cap Stored(trgAdmin.next)
    /\ trgDef' = [id \in TrgIds |-> IF id \in lost THEN NoDef ELSE trgAdmin.prev[id]]
    /\ trgTorn' = (trgTorn \/ lost # {})
    /\ trgAdmin' = AdminIdle
    /\ UNCHANGED <<trgCount, trgMem, trgInst, trgCall, trgActive>>

\* One iteration: stop what is live for a trigger, wait, start what is next.
DetachStep(id) ==
    /\ trgAdmin.pc = "detach" /\ id \in trgAdmin.todo
    /\ Detach(id)
    /\ trgAdmin' = [trgAdmin EXCEPT !.pc = "stopping", !.at = id]
    /\ UNCHANGED <<trgDef, trgCount, trgTorn, trgActive>>

AttachStep ==
    /\ trgAdmin.pc = "stopping"
    /\ LET id == trgAdmin.at
           rest == trgAdmin.todo \ {id}
       IN /\ PreviousDone(id)
          /\ Attach(id)
          /\ trgAdmin' = IF rest = {} THEN AdminIdle ELSE Applying(rest)
    /\ UNCHANGED <<trgDef, trgCount, trgTorn, trgCall, trgActive>>

\* Service.Start: everything enabled in the files becomes live.
StartService ==
    /\ OperationMuFree /\ ~trgMem.started
    /\ trgMem' = [started |-> TRUE,
                  sched |-> [id \in TrgIds |-> IF id \in Schedules THEN Wanted(id) ELSE 0],
                  chan |-> [id \in TrgIds |-> IF id \in Chats THEN Wanted(id) ELSE 0]]
    /\ trgInst' = {[id |-> id, ver |-> Wanted(id), canceled |-> FALSE] :
                      id \in {c \in Chats : Wanted(c) # 0}}
    /\ trgTorn' = FALSE
    /\ UNCHANGED <<trgDef, trgCount, trgAdmin, trgCall, trgActive>>

\* Service.Close: cancel everything, then wait for every channel.
CloseService ==
    /\ OperationMuFree /\ trgMem.started
    /\ trgMem' = [started |-> FALSE, sched |-> NothingLive, chan |-> NothingLive]
    /\ trgInst' = {[i EXCEPT !.canceled = TRUE] : i \in trgInst}
    /\ trgCall' = [c \in TrgCalls |->
            [trgCall[c] EXCEPT !.dead = @ \/ trgCall[c].from # 0]]
    /\ trgAdmin' = [AdminIdle EXCEPT !.pc = "closing"]
    /\ UNCHANGED <<trgDef, trgCount, trgTorn, trgActive>>

CloseReturns ==
    /\ trgAdmin.pc = "closing" /\ trgInst = {}
    /\ trgAdmin' = AdminIdle
    /\ UNCHANGED <<trgDef, trgCount, trgTorn, trgMem, trgInst, trgCall, trgActive>>

\* The process dies; the files stay as they are.
TrgCrash ==
    /\ trgMem.started \/ ~OperationMuFree
    /\ trgMem' = [started |-> FALSE, sched |-> NothingLive, chan |-> NothingLive]
    /\ trgInst' = {} /\ trgAdmin' = AdminIdle
    /\ trgCall' = [c \in TrgCalls |-> CallIn(IF trgCall[c].pc = "none" THEN "none" ELSE "done")]
    /\ trgActive' = [id \in TrgIds |-> 0]
    /\ UNCHANGED <<trgDef, trgCount, trgTorn>>

-----------------------------------------------------------------------------
(* Channel goroutines: runChatChannel *)

WorkersOf(i) == {c \in TrgCalls : /\ trgCall[c].id = i.id /\ trgCall[c].from = i.ver}

\* The channel's own error (a rejected token or subscription) stops it.
ChannelFails(i) ==
    /\ ~i.canceled
    /\ CancelChannels({i.id})
    /\ UNCHANGED <<trgDef, trgCount, trgTorn, trgMem, trgAdmin, trgActive>>

\* channel.Run returns, waiting for its workers where the channel does that;
\* done is closed and the map entry dropped if it is still this one.
ChannelReturns(i) ==
    /\ i.canceled
    /\ i.id \in TrgAwaits => WorkersOf(i) = {}
    /\ trgInst' = trgInst \ {i}
    /\ trgMem' = [trgMem EXCEPT !.chan[i.id] = IF @ = i.ver THEN 0 ELSE @]
    /\ UNCHANGED <<trgDef, trgCount, trgTorn, trgAdmin, trgCall, trgActive>>

-----------------------------------------------------------------------------
(* Invocations: InvokeChat, InvokeSchedule, InvokeWebhook *)

Arrive(c, id, from) ==
    /\ trgCall[c].pc = "none"
    /\ trgCall' = [trgCall EXCEPT ![c] = [pc |-> "get", id |-> id, from |-> from, dead |-> FALSE]]
    /\ UNCHANGED <<trgDef, trgCount, trgTorn, trgMem, trgInst, trgAdmin, trgActive>>

InboundMessage(c, i) == ~i.canceled /\ Arrive(c, i.id, i.ver)
CronFires(c, id) == trgMem.sched[id] # 0 /\ Arrive(c, id, trgMem.sched[id])
\* A webhook, or a user's request to the server to fire the trigger.
RequestArrives(c, id) == Arrive(c, id, 0)

\* Mutant: a dead context does not stop the lookup.
RefusedIfDisabled(call) == ~trgDef[call.id].on

\* FileStore.Get of a dead context fails, and so does a missing trigger; the
\* invocation refuses a disabled one.
Refused(call) == call.dead \/ ~trgDef[call.id].on

\* Service.Get under operationMu, then the checks of the invocation.
GetDefinition(c) ==
    /\ trgCall[c].pc = "get" /\ OperationMuFree
    /\ trgCall' = [trgCall EXCEPT ![c] =
            IF Refused(@) THEN CallIn("done") ELSE [@ EXCEPT !.pc = "admit"]]
    /\ UNCHANGED <<trgDef, trgCount, trgTorn, trgMem, trgInst, trgAdmin, trgActive>>

\* Mutant: a busy trigger admits another run.
NeverBusy(id) == FALSE

\* invokeRun: ConcurrencySkip refuses while a run of the trigger is active.
Busy(id) == trgActive[id] > 0

AdmitRun(c) ==
    /\ trgCall[c].pc = "admit"
    /\ LET id == trgCall[c].id
       IN /\ trgActive' = IF Busy(id) THEN trgActive ELSE [trgActive EXCEPT ![id] = @ + 1]
          /\ trgCall' = [trgCall EXCEPT ![c] =
                IF Busy(id) THEN CallIn("done") ELSE [@ EXCEPT !.pc = "run"]]
    /\ UNCHANGED <<trgDef, trgCount, trgTorn, trgMem, trgInst, trgAdmin>>

\* Mutant: finishActive is forgotten.
NotReleased(id) == trgActive

Released(id) == [trgActive EXCEPT ![id] = IF @ <= 1 THEN 0 ELSE @ - 1]

\* Enqueue returns as soon as the run and its task are stored: finishActive
\* runs then, the run itself is left to a worker.  The resolver returns a
\* queued starter if the graph has a queue; every call may meet either kind.
EnqueueReturns(c) ==
    /\ trgCall[c].pc = "run" /\ trgCall[c].id \notin Chats
    /\ trgCall' = [trgCall EXCEPT ![c].pc = "queued"]
    /\ trgActive' = Released(trgCall[c].id)
    /\ UNCHANGED <<trgDef, trgCount, trgTorn, trgMem, trgInst, trgAdmin>>

QueuedRunEnds(c) ==
    /\ trgCall[c].pc = "queued"
    /\ trgCall' = [trgCall EXCEPT ![c] = CallIn("done")]
    /\ UNCHANGED <<trgDef, trgCount, trgTorn, trgMem, trgInst, trgAdmin, trgActive>>

\* Start and StartAsync hold the trigger active until the run is over.
RunEnds(c) ==
    /\ trgCall[c].pc = "run"
    /\ trgCall' = [trgCall EXCEPT ![c] = CallIn("done")]
    /\ trgActive' = Released(trgCall[c].id)
    /\ UNCHANGED <<trgDef, trgCount, trgTorn, trgMem, trgInst, trgAdmin>>

-----------------------------------------------------------------------------
TrgAdminSteps ==
    \/ \E id \in TrgIds : ReplaceGraphWrites(id) \/ ReplaceGraphRemoves(id) \/ DetachStep(id)
    \/ CommitReplacement \/ AttachStep \/ CloseReturns

TrgGoroutines ==
    \/ \E i \in trgInst : ChannelReturns(i)
    \/ \E c \in TrgCalls :
         GetDefinition(c) \/ AdmitRun(c) \/ EnqueueReturns(c) \/ QueuedRunEnds(c) \/ RunEnds(c)

TrgNext ==
    \/ TrgAdminSteps
    \/ TrgGoroutines
    \/ \E id \in TrgIds, on \in BOOLEAN : WriteDefinition(id, on)
    \/ \E id \in TrgIds : Delete(id)
    \/ DeleteTriggersOfGraph
    \/ \E ids \in SUBSET TrgIds : PrepareGraphReplacement(ids)
    \/ \E lost \in SUBSET TrgIds : ReplaceGraphFails(lost)
    \/ StartService \/ CloseService \/ TrgCrash
    \/ \E i \in trgInst : ChannelFails(i)
    \/ \E c \in TrgCalls : \E i \in trgInst : InboundMessage(c, i)
    \/ \E c \in TrgCalls, id \in TrgIds : CronFires(c, id) \/ RequestArrives(c, id)

TrgSpec == TrgInit /\ [][TrgNext]_trgVars

-----------------------------------------------------------------------------
(* Properties *)

Definition == [ver : 0..TrgVersionBound, on : BOOLEAN]

\* Types, and the count of active runs never passes the calls that hold it.
TrgTypeOK ==
    /\ trgDef \in [TrgIds -> Definition] /\ trgTorn \in BOOLEAN
    /\ trgCount \in 0..TrgVersionBound
    /\ trgMem.started \in BOOLEAN
    /\ trgMem.sched \in [TrgIds -> 0..TrgVersionBound]
    /\ trgMem.chan \in [TrgIds -> 0..TrgVersionBound]
    /\ \A i \in trgInst : i.id \in Chats /\ i.ver \in 1..TrgVersionBound
    /\ trgAdmin.pc \in {"idle", "persist", "detach", "stopping", "closing"}
    /\ \A id \in TrgIds :
         trgActive[id] = Cardinality({c \in TrgCalls : trgCall[c].id = id /\ trgCall[c].pc = "run"})

\* Two channel goroutines of one trigger never run at the same time, so a
\* message is never answered twice: replaceChatChannel waits for previous.done.
OneChannelPerTrigger ==
    \A i, j \in trgInst : i.id = j.id => i = j

\* Between two operations of a started service the crons and channels are
\* those of the stored definitions: Create, Update, Delete, DeleteGraph and
\* GraphReplacement.Commit leave nothing live that the files do not ask for,
\* unless a failed rollback lost files.
LiveMatchesStored ==
    OperationMuFree /\ trgMem.started /\ ~trgTorn =>
        /\ \A id \in Schedules : trgMem.sched[id] = Wanted(id)
        /\ \A i \in trgInst : i.canceled \/ i.ver = Wanted(i.id)

\* A trigger with concurrency "skip" never has two runs at once, when its
\* runs are not queued: invokeRun holds the trigger active until the run ends.
SkipAdmitsOneRun ==
    \A c, d \in TrgCalls :
        /\ trgCall[c].pc = "run" /\ trgCall[d].pc = "run"
        /\ trgCall[c].id = trgCall[d].id
        => c = d

\* Once Close has returned, no cron job and no channel worker starts a run.
ClosedServiceStartsNothing ==
    [][ \A c \in TrgCalls :
          /\ trgCall[c].pc = "get" /\ trgCall'[c].pc = "admit"
          => trgMem.started \/ trgCall[c].from = 0 ]_trgVars

\* Every operation that holds operationMu gives it back: the previous channel
\* returns once it is canceled, and nothing else is waited for.
OperationsReturn == ~OperationMuFree ~> OperationMuFree

=============================================================================

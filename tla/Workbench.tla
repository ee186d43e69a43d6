----------------------------- MODULE Workbench -----------------------------
(***************************************************************************)
(* The run debugger of the Workbench (useWorkbenchRuns.ts,                 *)
(* workbenchRunModel.ts, useRuntimeEventStream.ts): a list of runs and the *)
(* inspection of the selected one, kept up to date by an event stream and  *)
(* by requests whose answers come late, out of order or not at all, while  *)
(* the user selects, starts, controls and deletes runs.                    *)
(*                                                                         *)
(* A handler runs to its next await without interruption and is one step,  *)
(* after which React draws and the effects run.                            *)
(* The versions the hooks count (runContextVersionRef,                     *)
(* selectedRunRequestRef, runsRefreshStartedRef, eventPageRequestRef) are  *)
(* only compared for equality, so what is kept is the request that is      *)
(* still current; one that was superseded has no effect but to let its     *)
(* caller go on.                                                           *)
(***************************************************************************)
EXTENDS Naturals, Sequences, FiniteSets, TLC

CONSTANT WbScenes \* the scenes to play: [runs, ops, ticks, user, moves, chunks, drops, errors]

\* A scene has the runs that are there, the operations the user may call for, the
\* milliseconds that may pass between two changes, and bounds on the actions of the user,
\* the changes of runs, the chunks that are streamed, the failures of the stream and the
\* requests that fail.
ASSUME WorkbenchAssumption ==
    \A s \in WbScenes :
        /\ s.runs \subseteq {"a", "b"}
        /\ s.ops \subseteq {"pause", "cancel", "delete", "fork", "compare", "submit", "resume", "start", "older", "dismiss", "switch"}
        /\ s.ticks \subseteq Nat
        /\ {s.user, s.moves, s.chunks, s.drops, s.errors} \subseteq Nat

VARIABLES
    wbScene,  \* the scene; it does not change
    wbSrv,    \* [run -> [st, at, cp]]: the runs on the server; cp > 0 is the checkpoint
              \* of a pause that asks the user
    wbWire,   \* the events that are on their way
    wbStream, \* [st, open, cursor, lost]: RuntimeEventStreamClient; lost: a gap will be reported
    wbC,      \* what the hook keeps
    wbOp,     \* [kind, run, at, rec, next]: the operation that runBusy stands for
    wbLaunch, \* [at, rec, buffer, same]: startConfiguredRun
    wbGap,    \* handleRuntimeEventGap: "idle", "list" or "inspect"
    wbLeft,   \* what the bounds leave
    wbHist    \* history: [deleted, tied, stolen, answered, missed, seen, last]

wbVars == <<wbScene, wbSrv, wbWire, wbStream, wbC, wbOp, wbLaunch, wbGap, wbLeft, wbHist>>

WbOrder == <<"a", "b", "n">>
WbRuns == {"a", "b", "n"}
NoRec == [st |-> "absent", at |-> 0, cp |-> 0]
NoInsp == [run |-> "", for |-> "", snap |-> NoRec, served |-> FALSE]
NoList == [for |-> "", auto |-> FALSE, started |-> {}, snap |-> << >>, served |-> FALSE]
NoIntr == [run |-> "", cp |-> 0]
NoOlder == [run |-> "", valid |-> FALSE]
NoOp == [kind |-> "idle", run |-> "", at |-> "idle", rec |-> NoRec, next |-> ""]
NoLaunch == [at |-> "idle", rec |-> NoRec, buffer |-> <<>>, same |-> TRUE]

\* The hook's state: the list of runs, the selection, whose inspection is shown and
\* whose older events, the interrupt and the prompt, the prompts not to show again, the
\* requests, the event refresh, the chunks, whether a launched run has stayed selected
\* (history) and the cache.
EmptyClient ==
    [view |-> [r \in WbRuns |-> NoRec], sel |-> "", shown |-> "", older |-> "",
     intr |-> NoIntr, prompt |-> NoIntr, ignored |-> {}, loading |-> FALSE, cmp |-> "",
     insp |-> NoInsp, list |-> NoList, page |-> NoOlder, ev |-> [requested |-> FALSE, running |-> FALSE],
     live |-> {}, stayed |-> FALSE, cache |-> [r \in WbRuns |-> NoRec]]

-----------------------------------------------------------------------------
(* workbenchRunModel.ts *)

WbKnown(view) == {r \in WbRuns : view[r].st # "absent"}
WbLast(view) ==
    LET ids == SelectSeq(WbOrder, LAMBDA r : view[r].st # "absent")
    IN  IF ids = <<>> THEN "" ELSE ids[Len(ids)]
Seen(rec) == [rec EXCEPT !.cp = 0]

\* isActiveRunStatus
Active(st) == st = "running"

\* Mutant: the latest answer is always taken.
KeepsNothing(current, authoritative) == FALSE

\* shouldKeepCurrentRun
KeepsCurrent(current, authoritative) ==
    current.st # authoritative.st /\ authoritative.at < current.at

\* upsertInspectedRun
UpsertInspected(view, r, rec) ==
    IF view[r].st # "absent" /\ KeepsCurrent(view[r], rec) THEN view ELSE [view EXCEPT ![r] = Seen(rec)]

\* mergeRefreshedRuns
MergeRefreshed(view, list, started) ==
    [r \in WbRuns |->
        IF list[r].st = "absent" THEN IF r \in started THEN NoRec ELSE view[r]
        ELSE IF view[r].st = "absent" /\ r \in started THEN NoRec
        ELSE IF view[r].st # "absent" /\ KeepsCurrent(view[r], list[r]) THEN view[r] ELSE Seen(list[r])]

\* upsertRunFromEvent of a run that is listed
UpsertFromEvent(view, e) ==
    IF e.at < view[e.run].at THEN view ELSE [view EXCEPT ![e.run] = [st |-> e.st, at |-> e.at, cp |-> 0]]

\* markRunResuming
MarkResuming(view, r) == IF view[r].st = "absent" THEN view ELSE [view EXCEPT ![r].st = "running"]

\* selectedRunIDAfterDeletion
SelectedAfterDeletion(view, r, sel) ==
    IF sel # r /\ sel # "" /\ view[sel].st # "absent" THEN sel ELSE WbLast([view EXCEPT ![r] = NoRec])

-----------------------------------------------------------------------------
(* The hook's helpers, on its state c *)

\* clearSelectedRunInspection
ClearInspection(c) ==
    [c EXCEPT !.shown = "", !.older = "", !.page = NoOlder, !.intr = NoIntr, !.prompt = NoIntr]

\* updateSelectedRunID
UpdateSelected(c, r) ==
    IF c.sel = r THEN c
    ELSE [ClearInspection(c) EXCEPT !.sel = r, !.insp = NoInsp, !.loading = (r # ""), !.cmp = "", !.stayed = FALSE]

\* refreshSelectedRun, up to the await
RefreshSelected(c, r) ==
    IF r = "" THEN [ClearInspection(c) EXCEPT !.insp = NoInsp, !.loading = FALSE]
    ELSE [c EXCEPT !.insp = [NoInsp EXCEPT !.run = r], !.page.valid = FALSE]

\* applyRunInspection
ApplyInspection(c, r, rec) ==
    [c EXCEPT !.shown = r, !.older = "", !.page = NoOlder,
              !.intr = IF rec.st = "paused" /\ rec.cp > 0 THEN [run |-> r, cp |-> rec.cp] ELSE NoIntr,
              !.view = UpsertInspected(@, r, rec)]

\* Mutant: any answer is applied.
AnswerAlwaysCounts(c) == TRUE

\* refreshSelectedRun: is the answer still the one that is wanted?
AnswerCounts(c) == c.insp.run = c.sel

\* refreshRuns, up to the await
StartList(c, auto, for) ==
    [c EXCEPT !.list = [NoList EXCEPT !.for = for, !.auto = auto, !.started = WbKnown(c.view)]]

\* refreshRuns, the answer
ApplyList(c) ==
    LET merged == MergeRefreshed(c.view, c.list.snap, c.list.started)
        next == [c EXCEPT !.view = merged, !.list = NoList]
    IN  IF ~c.list.auto \/ (c.sel # "" /\ merged[c.sel].st # "absent") THEN next
        ELSE UpdateSelected(next, WbLast(merged))

\* Mutant: a request during a refresh is forgotten.
RequestIsDropped(c) ==
    IF c.ev.running THEN c
    ELSE [StartList(c, FALSE, "event") EXCEPT !.ev = [requested |-> FALSE, running |-> TRUE]]

\* requestEventRunRefresh
RequestEventRefresh(c) ==
    IF c.ev.running THEN [c EXCEPT !.ev.requested = TRUE]
    ELSE [StartList(c, FALSE, "event") EXCEPT !.ev = [requested |-> FALSE, running |-> TRUE]]

\* Mutant: the flag is cleared although the loop goes on.
LoopForgets(c) ==
    IF c.ev.requested
    THEN [StartList(c, FALSE, "event") EXCEPT !.ev = [requested |-> FALSE, running |-> FALSE]]
    ELSE [c EXCEPT !.ev.running = FALSE]

\* The loop of requestEventRunRefresh after a refresh.
EventLoop(c) ==
    IF c.ev.requested
    THEN [StartList(c, FALSE, "event") EXCEPT !.ev = [requested |-> FALSE, running |-> TRUE]]
    ELSE [c EXCEPT !.ev.running = FALSE]

\* Mutant: a pause does not refresh the inspection.
TrackEnds(c, e) ==
    IF e.kind = "chunk" THEN [c EXCEPT !.live = @ \cup {e.no}]
    ELSE IF e.st = "done" THEN RefreshSelected(c, e.run) ELSE c

\* trackRuntimeEvent; shouldRefreshRunInspectionForEvent
Track(c, e) ==
    IF e.kind = "chunk" THEN [c EXCEPT !.live = @ \cup {e.no}]
    ELSE IF e.st # "running" THEN RefreshSelected(c, e.run) ELSE c

\* Mutant: an event adds its run to the list.
EventAdds(c, e) == IF e.kind = "chunk" THEN c ELSE [c EXCEPT !.view = UpsertFromEvent(@, e)]

\* handleRuntimeEvent without the buffer: runListEventActionForKnownRun
ProjectEvent(c, e) ==
    IF e.kind = "chunk" THEN c
    ELSE IF c.view[e.run].st # "absent" THEN [c EXCEPT !.view = UpsertFromEvent(@, e)]
    ELSE RequestEventRefresh(c)

\* userInputPromptFromInterrupt
PromptOf(c) ==
    IF c.sel # "" /\ c.view[c.sel].st = "paused" /\ c.intr.run = c.sel THEN c.intr ELSE NoIntr

\* syncUserInputPrompt
SyncPrompt(c) ==
    LET p == PromptOf(c) IN
    IF p = NoIntr THEN NoIntr ELSE IF p \in c.ignored THEN c.prompt ELSE p

\* A new context (++runContextVersionRef.current): no answer is wanted any more.
NewContext(c) == [c EXCEPT !.list = NoList, !.insp = NoInsp, !.page.valid = FALSE]

\* Mutant: a selected run is not fetched.
NotDrawn(c) == c

\* The effect on selectedRunID
DrawSelected(c) == IF c.sel # wbC.sel THEN RefreshSelected(c, c.sel) ELSE c

\* The effect on the interrupt and the selected run
DrawPrompt(c) ==
    LET Selected(x) == IF x.sel = "" THEN NoRec ELSE x.view[x.sel]
    IN  IF c.intr # wbC.intr \/ c.sel # wbC.sel \/ Selected(c) # Selected(wbC)
        THEN [c EXCEPT !.prompt = SyncPrompt(c)] ELSE c

\* The state that a handler leaves, drawn before the next one runs.
Render(c) == wbC' = DrawSelected(DrawPrompt(c))

-----------------------------------------------------------------------------
(* The server, which is external *)

WbInit ==
    /\ wbScene \in WbScenes
    /\ wbSrv = [r \in WbRuns |-> IF r \notin wbScene.runs THEN NoRec ELSE [st |-> IF r = "a" THEN "running" ELSE "done", at |-> 1, cp |-> 0]]
    /\ wbWire = <<>>
    /\ wbStream = [st |-> "connecting", open |-> FALSE, cursor |-> FALSE, lost |-> FALSE]
    /\ wbC = StartList(EmptyClient, TRUE, "page")
    /\ wbOp = NoOp /\ wbLaunch = NoLaunch /\ wbGap = "idle"
    /\ wbLeft = [k \in {"user", "moves", "chunks", "drops", "errors"} |-> wbScene[k]]
    /\ wbHist = [deleted |-> {}, tied |-> {}, stolen |-> FALSE, answered |-> {}, missed |-> {}, seen |-> {}, last |-> 1]

\* The stream is graph-scoped; what is published while it is closed is replayed by
\* cursor, or lost.
WbPublish(e) == wbWire' = Append(wbWire, e)

\* Run r gets status st, and its event is published.
WbChange(r, st, cp) ==
    \E dt \in wbScene.ticks :
        LET at == wbHist.last + dt IN
        /\ wbSrv' = [wbSrv EXCEPT ![r] = [st |-> st, at |-> at, cp |-> cp]]
        /\ WbPublish([kind |-> "status", run |-> r, st |-> st, at |-> at, no |-> 0])
        /\ wbHist' = [wbHist EXCEPT !.last = at, !.tied = IF at = wbSrv[r].at THEN @ \cup {r} ELSE @]

WbMove(r) ==
    /\ wbLeft.moves > 0
    /\ \/ wbSrv[r].st = "running" /\ \E cp \in {0, 1 + wbHist.last} : WbChange(r, "paused", cp)
       \/ wbSrv[r].st = "running" /\ WbChange(r, "done", 0)
       \/ r = "n" /\ wbSrv[r].st = "absent" /\ wbLaunch.at = "idle" /\ wbHist.deleted = {} /\ WbChange(r, "running", 0)
    /\ wbLeft' = [wbLeft EXCEPT !.moves = @ - 1]
    /\ UNCHANGED <<wbStream, wbC, wbOp, wbLaunch, wbGap>>

\* llm.content_chunk of the new run
WbChunk ==
    /\ wbLeft.chunks > 0 /\ wbSrv["n"].st = "running"
    /\ WbPublish([kind |-> "chunk", run |-> "n", st |-> "", at |-> 0, no |-> wbLeft.chunks])
    /\ wbLeft' = [wbLeft EXCEPT !.chunks = @ - 1]
    /\ UNCHANGED <<wbSrv, wbStream, wbC, wbOp, wbLaunch, wbGap, wbHist>>

\* A request is served.
WbServeList ==
    /\ wbC.list.for # "" /\ ~wbC.list.served
    /\ wbC' = [wbC EXCEPT !.list.snap = wbSrv, !.list.served = TRUE]
    /\ UNCHANGED <<wbSrv, wbWire, wbStream, wbOp, wbLaunch, wbGap, wbLeft, wbHist>>

WbServeInspection ==
    /\ wbC.insp.run # "" /\ ~wbC.insp.served
    /\ wbC' = [wbC EXCEPT !.insp.snap = wbSrv[wbC.insp.run], !.insp.served = TRUE]
    /\ UNCHANGED <<wbSrv, wbWire, wbStream, wbOp, wbLaunch, wbGap, wbLeft, wbHist>>

-----------------------------------------------------------------------------
(* The event stream *)

\* connect: the response is an event stream; the effect on the status refreshes.
\* Without a cursor nothing is replayed.
WbConnected ==
    /\ wbStream.st = "connecting"
    /\ wbStream' = [wbStream EXCEPT !.st = "connected", !.open = TRUE]
    /\ wbWire' = IF wbStream.cursor /\ ~wbStream.lost THEN wbWire ELSE <<>>
    /\ LET c == RequestEventRefresh(wbC)
       IN  Render(IF c.sel # "" THEN RefreshSelected(c, c.sel) ELSE c)
    /\ UNCHANGED <<wbSrv, wbOp, wbLaunch, wbGap, wbLeft, wbHist>>

\* fail, or the stream ends
WbDrop ==
    /\ wbStream.st \in {"connected", "connecting"} /\ ~wbStream.lost /\ wbLeft.drops > 0
    /\ wbStream' = [wbStream EXCEPT !.st = "failed", !.open = FALSE]
    /\ wbLeft' = [wbLeft EXCEPT !.drops = @ - 1]
    /\ UNCHANGED <<wbSrv, wbWire, wbC, wbOp, wbLaunch, wbGap, wbHist>>

\* reconnectNow; the server may no longer know the cursor
WbReconnect ==
    /\ ~wbStream.open /\ wbStream.st # "connecting"
    /\ \E lost \in {FALSE, wbStream.cursor} :
           wbStream' = [wbStream EXCEPT !.st = "connecting", !.lost = lost]
    /\ UNCHANGED <<wbSrv, wbWire, wbC, wbOp, wbLaunch, wbGap, wbLeft, wbHist>>

\* A new run of handleRuntimeEventGap; one that is under way is superseded.
HandleGap == Render(StartList(wbC, FALSE, "gap")) /\ wbGap' = "list"

\* handleFrame of a gap
WbGapFrame ==
    /\ wbStream.open /\ wbStream.lost
    /\ wbStream' = [wbStream EXCEPT !.st = "gap", !.lost = FALSE]
    /\ HandleGap
    /\ UNCHANGED <<wbSrv, wbWire, wbOp, wbLaunch, wbLeft, wbHist>>

\* connect: 409 or 410; the stream stays closed and its cursor is forgotten
WbGapResponse ==
    /\ wbStream.st = "connecting" /\ wbStream.lost
    /\ wbStream' = [st |-> "gap", open |-> FALSE, cursor |-> FALSE, lost |-> FALSE]
    /\ wbWire' = <<>>
    /\ HandleGap
    /\ UNCHANGED <<wbSrv, wbOp, wbLaunch, wbLeft, wbHist>>

\* startConfiguredRun has no answer yet: launchPendingRef without launchRunIDRef.
Launching == wbLaunch.at \in {"call", "answered"}

\* Mutant: an event is dropped while a run is launched.
NoBuffer(e) == wbLaunch

\* launchBufferedEventsRef
Buffered(e) == [wbLaunch EXCEPT !.buffer = Append(@, e)]

\* handleFrame and handleRuntimeEvent; the first event after a gap makes the status
\* "connected" again, whose effect refreshes.
WbEvent ==
    /\ wbStream.open /\ ~wbStream.lost /\ wbWire # <<>>
    /\ wbWire' = Tail(wbWire)
    /\ wbStream' = [wbStream EXCEPT !.st = "connected", !.cursor = TRUE]
    /\ LET e == Head(wbWire)
           projected == ProjectEvent(wbC, e)
           tracked == IF ~Launching /\ e.run = wbC.sel THEN Track(projected, e) ELSE projected
           again == RequestEventRefresh(tracked)
       IN  /\ Render(IF wbStream.st # "gap" THEN tracked
                     ELSE IF again.sel # "" THEN RefreshSelected(again, again.sel) ELSE again)
           /\ wbLaunch' = IF Launching THEN Buffered(e) ELSE wbLaunch
           /\ wbHist' = IF e.kind = "chunk" THEN [wbHist EXCEPT !.seen = @ \cup {e.no}] ELSE wbHist
    /\ UNCHANGED <<wbSrv, wbOp, wbGap, wbLeft>>

-----------------------------------------------------------------------------
(* The answers to refreshRuns and refreshSelectedRun, and what waits for them *)

\* The request is one that an operation, a launch or a gap awaits.
RefreshFor(c, r, for) == [RefreshSelected(c, r) EXCEPT !.insp.for = for]

\* finishRunOperation, and the ends of the other tasks
TaskEnds(for) ==
    /\ wbOp' = IF for = "op" THEN NoOp ELSE wbOp
    /\ wbLaunch' = IF for = "launch" THEN NoLaunch ELSE wbLaunch
    /\ wbGap' = IF for = "gap" THEN "idle" ELSE wbGap

InspectsNext(for) ==
    /\ wbOp' = IF for = "op" THEN [wbOp EXCEPT !.at = "inspect"] ELSE wbOp
    /\ wbLaunch' = IF for = "launch" THEN [wbLaunch EXCEPT !.at = "inspect"] ELSE wbLaunch
    /\ wbGap' = IF for = "gap" THEN "inspect" ELSE wbGap

\* What follows refreshRuns: the inspection of the run the task is about.
AfterList(c, for) ==
    LET run == CASE for = "gap" -> c.sel
                 [] for = "launch" -> IF c.sel = "n" THEN "n" ELSE ""
                 [] wbOp.kind \in {"delete", "fork"} -> wbOp.next
                 [] OTHER -> IF c.sel = wbOp.run THEN wbOp.run ELSE ""
        moved == IF for = "op" /\ wbOp.kind = "fork" THEN UpdateSelected(c, run) ELSE c
    IN  IF for \in {"page", "event"}
        THEN /\ Render(IF for = "event" THEN EventLoop(c) ELSE c)
             /\ UNCHANGED <<wbOp, wbLaunch, wbGap, wbHist>>
        ELSE IF run = "" THEN Render(c) /\ TaskEnds(for) /\ UNCHANGED wbHist
        ELSE /\ Render(RefreshFor(moved, run, for)) /\ InspectsNext(for)
             /\ wbHist' = [wbHist EXCEPT !.stolen = @ \/ moved.sel # run]

WbListAnswer ==
    /\ wbC.list.served
    /\ AfterList(ApplyList(wbC), wbC.list.for)
    /\ UNCHANGED <<wbSrv, wbWire, wbStream, wbLeft>>

\* refreshRuns throws: the task reports it and is over.
WbListFails ==
    /\ wbC.list.for # "" /\ wbLeft.errors > 0
    /\ wbLeft' = [wbLeft EXCEPT !.errors = @ - 1]
    /\ LET c == [wbC EXCEPT !.list = NoList]
       IN  Render(IF wbC.list.for = "event" THEN EventLoop(c) ELSE c)
    /\ TaskEnds(wbC.list.for)
    /\ UNCHANGED <<wbSrv, wbWire, wbStream, wbHist>>

AwaitsList(for) ==
    CASE for = "event" -> wbC.ev.running
      [] for = "op" -> wbOp.at = "list"
      [] for = "launch" -> wbLaunch.at = "list"
      [] for = "gap" -> wbGap = "list"

\* refreshRuns returns without effect: a later one was begun.
WbListSuperseded(for) ==
    /\ AwaitsList(for) /\ wbC.list.for # for
    /\ AfterList(wbC, for)
    /\ UNCHANGED <<wbSrv, wbWire, wbStream, wbLeft>>

\* refreshSelectedRun, after the await; rememberRunInspection
WbInspectionAnswer ==
    /\ wbC.insp.served
    /\ LET c == [wbC EXCEPT !.insp = NoInsp]
           r == wbC.insp.run
           rec == wbC.insp.snap
       IN  Render(IF ~AnswerCounts(wbC) THEN c
                  ELSE IF rec.st = "absent" THEN [c EXCEPT !.loading = FALSE]
                  ELSE [ApplyInspection(c, r, rec) EXCEPT !.loading = FALSE, !.cache[r] = rec])
    /\ TaskEnds(wbC.insp.for)
    /\ UNCHANGED <<wbSrv, wbWire, wbStream, wbLeft, wbHist>>

WbInspectionFails ==
    /\ wbC.insp.run # "" /\ wbLeft.errors > 0
    /\ wbLeft' = [wbLeft EXCEPT !.errors = @ - 1]
    /\ Render([wbC EXCEPT !.insp = NoInsp, !.loading = @ /\ ~AnswerCounts(wbC)])
    /\ TaskEnds(wbC.insp.for)
    /\ UNCHANGED <<wbSrv, wbWire, wbStream, wbHist>>

\* The awaited inspection was superseded; its answer ends the task all the same.
WbInspectionSuperseded(for) ==
    /\ CASE for = "op" -> wbOp.at = "inspect"
         [] for = "launch" -> wbLaunch.at = "inspect"
         [] for = "gap" -> wbGap = "inspect"
    /\ wbC.insp.for # for
    /\ TaskEnds(for)
    /\ UNCHANGED <<wbSrv, wbWire, wbStream, wbC, wbLeft, wbHist>>

-----------------------------------------------------------------------------
(* The user *)

WbActs(op) == op \in wbScene.ops /\ wbLeft.user > 0 /\ wbLeft' = [wbLeft EXCEPT !.user = @ - 1]

\* selectRun of a run in the list
WbSelect(r) ==
    /\ wbLeft.user > 0 /\ wbLeft' = [wbLeft EXCEPT !.user = @ - 1]
    /\ wbC.view[r].st # "absent"
    /\ LET c == [UpdateSelected(wbC, r) EXCEPT !.cmp = ""]
           cached == wbC.cache[r]
       IN  Render(IF cached.st = "absent" THEN c ELSE [ApplyInspection(c, r, cached) EXCEPT !.loading = FALSE])
    /\ wbLaunch' = [wbLaunch EXCEPT !.same = @ /\ wbLaunch.at = "idle"]
    /\ UNCHANGED <<wbSrv, wbWire, wbStream, wbOp, wbGap, wbHist>>

\* loadOlderEvents
WbLoadOlder ==
    /\ WbActs("older") /\ wbC.sel # "" /\ wbC.shown = wbC.sel /\ wbC.page.run = ""
    /\ Render([wbC EXCEPT !.page = [run |-> wbC.sel, valid |-> TRUE]])
    /\ UNCHANGED <<wbSrv, wbWire, wbStream, wbOp, wbLaunch, wbGap, wbHist>>

\* loadOlderEvents: is the page still wanted?
PageCounts == wbC.page.valid /\ wbC.page.run = wbC.sel

WbOlderAnswer ==
    /\ wbC.page.run # ""
    /\ Render([wbC EXCEPT !.page = NoOlder, !.older = IF PageCounts THEN wbC.page.run ELSE @])
    /\ UNCHANGED <<wbSrv, wbWire, wbStream, wbOp, wbLaunch, wbGap, wbLeft, wbHist>>

\* beginRunOperation
MayBegin(kind) == wbOp.kind = "idle" /\ (kind \notin {"pause", "cancel"} => ~Launching)

BeginsOp(kind, run, next) ==
    /\ WbActs(kind) /\ MayBegin(kind)
    /\ wbOp' = [NoOp EXCEPT !.kind = kind, !.run = run, !.at = "call", !.next = next]
    /\ UNCHANGED <<wbSrv, wbWire, wbStream, wbLaunch, wbGap, wbHist>>

\* controlSelectedRun, forkSelectedRun, compareSelectedRun up to the await
WbControl(kind) == wbC.sel # "" /\ BeginsOp(kind, wbC.sel, "") /\ UNCHANGED wbC
WbFork == wbC.sel # "" /\ wbSrv["n"].st = "absent" /\ BeginsOp("fork", wbC.sel, "n") /\ UNCHANGED wbC
WbCompare == wbC.sel # "" /\ BeginsOp("compare", wbC.sel, "") /\ UNCHANGED wbC

\* deleteRunRecord
WbDelete(r) ==
    /\ wbC.view[r].st # "absent" /\ ~Active(wbC.view[r].st)
    /\ BeginsOp("delete", r, "") /\ UNCHANGED wbC

\* resumeSelectedRun; when a prompt is due it is shown instead
WbResume ==
    /\ wbC.sel # "" /\ wbC.view[wbC.sel].st = "paused"
    /\ IF PromptOf(wbC) # NoIntr
       THEN /\ WbActs("resume") /\ wbC.prompt # PromptOf(wbC)
            /\ Render([wbC EXCEPT !.prompt = PromptOf(wbC)])
            /\ wbHist' = [wbHist EXCEPT !.answered = @ \ {PromptOf(wbC)}]
            /\ UNCHANGED <<wbSrv, wbWire, wbStream, wbOp, wbLaunch, wbGap>>
       ELSE /\ BeginsOp("resume", wbC.sel, "")
            /\ Render([wbC EXCEPT !.view = MarkResuming(@, wbC.sel), !.intr = NoIntr])

\* Mutant: an answered prompt is forgotten.
IgnoresNothing(c) == c.ignored

\* ignoredHumanInterruptsRef
Ignores(c) == c.ignored \cup {c.prompt}

\* submitUserInputPrompt; next keeps the checkpoint
WbSubmit ==
    /\ wbC.prompt # NoIntr
    /\ BeginsOp("submit", wbC.prompt.run, wbC.prompt)
    /\ Render([wbC EXCEPT !.ignored = Ignores(wbC), !.prompt = NoIntr, !.intr = NoIntr,
                          !.view = MarkResuming(@, wbC.prompt.run)])

\* dismissUserInputPrompt
WbDismiss ==
    /\ WbActs("dismiss") /\ wbC.prompt # NoIntr
    /\ Render([wbC EXCEPT !.ignored = Ignores(wbC), !.prompt = NoIntr])
    /\ UNCHANGED <<wbSrv, wbWire, wbStream, wbOp, wbLaunch, wbGap, wbHist>>

\* startConfiguredRun up to the await
WbStart ==
    /\ WbActs("start") /\ wbOp.kind = "idle" /\ ~Launching /\ wbSrv["n"].st = "absent" /\ "n" \notin wbHist.deleted
    /\ Render([ClearInspection(UpdateSelected(NewContext(wbC), "")) EXCEPT !.live = {}, !.stayed = FALSE, !.ignored = {}])
    /\ wbLaunch' = [NoLaunch EXCEPT !.at = "call"]
    /\ wbGap' = "idle"
    /\ wbHist' = [wbHist EXCEPT !.answered = {}]
    /\ UNCHANGED <<wbSrv, wbWire, wbStream, wbOp>>

\* resetRunState, refreshRuns and a new stream, when the graph is switched
WbSwitch ==
    /\ WbActs("switch") /\ wbOp.kind = "idle" /\ ~Launching
    /\ \A r \in WbRuns : ~Active(wbC.view[r].st)
    /\ Render(StartList([EmptyClient EXCEPT !.ev = wbC.ev], TRUE, "page"))
    /\ wbStream' = [st |-> "connecting", open |-> FALSE, cursor |-> FALSE, lost |-> FALSE]
    /\ wbWire' = <<>>
    /\ wbLaunch' = NoLaunch /\ wbGap' = "idle"
    /\ UNCHANGED <<wbSrv, wbOp, wbHist>>

-----------------------------------------------------------------------------
(* The calls of operations and launches *)

OpRefused == /\ wbOp' = [wbOp EXCEPT !.at = "refused"]
           /\ UNCHANGED <<wbSrv, wbWire, wbHist>>

OpServed(rec) == wbOp' = [wbOp EXCEPT !.at = "answered", !.rec = rec]

\* The server serves the call: it answers with the record as it is then.
WbServeOp ==
    /\ wbOp.at = "call"
    /\ LET r == wbOp.run
           st == wbSrv[r].st
       IN  CASE wbOp.kind = "compare" -> OpServed(NoRec) /\ UNCHANGED <<wbSrv, wbWire, wbHist>>
             [] wbOp.kind = "pause" /\ st = "running" ->
                    \/ WbChange(r, "paused", 0) /\ OpServed(wbSrv'[r])
                    \/ OpServed(wbSrv[r]) /\ UNCHANGED <<wbSrv, wbWire, wbHist>>
             [] wbOp.kind = "cancel" /\ st \in {"running", "paused"} -> WbChange(r, "done", 0) /\ OpServed(wbSrv'[r])
             [] wbOp.kind \in {"submit", "resume"} /\ st = "paused" -> WbChange(r, "running", 0) /\ OpServed(wbSrv'[r])
             [] wbOp.kind = "fork" /\ wbSrv["n"].st = "absent" /\ st # "absent" ->
                    WbChange("n", "running", 0) /\ OpServed(wbSrv'["n"])
             [] wbOp.kind = "delete" /\ st \in {"paused", "done"} ->
                    /\ wbSrv' = [wbSrv EXCEPT ![r] = NoRec]
                    /\ OpServed(NoRec) /\ UNCHANGED <<wbWire, wbHist>>
             [] OTHER -> OpRefused
    /\ UNCHANGED <<wbStream, wbC, wbLaunch, wbGap, wbLeft>>

\* The call or its answer is lost.
WbOpLost ==
    /\ wbOp.at \in {"call", "answered"} /\ wbLeft.errors > 0
    /\ wbLeft' = [wbLeft EXCEPT !.errors = @ - 1]
    /\ OpRefused
    /\ UNCHANGED <<wbStream, wbC, wbLaunch, wbGap>>

\* The await returns.
WbOpAnswer ==
    /\ wbOp.at = "answered"
    /\ LET r == wbOp.run
           c == wbC
           upserted == [c EXCEPT !.view = UpsertInspected(@, IF wbOp.kind = "fork" THEN "n" ELSE r, wbOp.rec)]
           next == SelectedAfterDeletion(c.view, r, c.sel)
           gone == UpdateSelected([c EXCEPT !.view[r] = NoRec], next)
           emptied == IF c.sel = r \/ next = "" THEN [ClearInspection(gone) EXCEPT !.live = {}, !.stayed = FALSE] ELSE gone
           resumed == IF c.sel = r THEN [upserted EXCEPT !.intr = NoIntr] ELSE upserted
       IN  /\ Render(CASE wbOp.kind = "compare" -> [c EXCEPT !.cmp = r]
                       [] wbOp.kind = "delete" -> StartList(emptied, FALSE, "op")
                       [] wbOp.kind = "fork" -> StartList(upserted, FALSE, "op")
                       [] wbOp.kind \in {"submit", "resume"} -> StartList(resumed, TRUE, "op")
                       [] OTHER -> StartList(upserted, TRUE, "op"))
           /\ wbOp' = CASE wbOp.kind = "compare" -> NoOp
                        [] wbOp.kind = "delete" -> [wbOp EXCEPT !.at = "list", !.next = next]
                        [] OTHER -> [wbOp EXCEPT !.at = "list"]
           /\ wbHist' = CASE wbOp.kind = "delete" -> [wbHist EXCEPT !.deleted = @ \cup {r}]
                          [] wbOp.kind = "submit" -> [wbHist EXCEPT !.answered = @ \cup {wbOp.next}]
                          [] OTHER -> wbHist
    /\ UNCHANGED <<wbSrv, wbWire, wbStream, wbLaunch, wbGap, wbLeft>>

\* The await throws; refreshAfterResumeFailure
WbOpRefused ==
    /\ wbOp.at = "refused"
    /\ IF wbOp.kind \in {"submit", "resume"}
       THEN /\ wbOp' = [wbOp EXCEPT !.at = "list"]
            /\ Render(StartList(IF wbOp.kind = "resume" THEN wbC
                                ELSE [wbC EXCEPT !.ignored = @ \ {wbOp.next}, !.prompt = wbOp.next], FALSE, "op"))
       ELSE wbOp' = NoOp /\ UNCHANGED wbC
    /\ UNCHANGED <<wbSrv, wbWire, wbStream, wbLaunch, wbGap, wbLeft, wbHist>>

WbServeLaunch ==
    /\ wbLaunch.at = "call"
    /\ WbChange("n", "running", 0)
    /\ wbLaunch' = [wbLaunch EXCEPT !.at = "answered", !.rec = wbSrv'["n"]]
    /\ UNCHANGED <<wbStream, wbC, wbOp, wbGap, wbLeft>>

\* Buffered events of other runs are given up, the selected one included.
Misses(runs) ==
    wbHist' = [wbHist EXCEPT !.missed = @ \cup ({wbLaunch.buffer[i].run : i \in DOMAIN wbLaunch.buffer} \cap runs)]

WbLaunchLost ==
    /\ Launching /\ wbLeft.errors > 0
    /\ wbLeft' = [wbLeft EXCEPT !.errors = @ - 1]
    /\ wbLaunch' = NoLaunch /\ Misses(WbRuns)
    /\ UNCHANGED <<wbSrv, wbWire, wbStream, wbC, wbOp, wbGap>>

\* startConfiguredRun, after startRun; partitionLaunchRuntimeEvents
WbLaunchAnswer ==
    /\ wbLaunch.at = "answered"
    /\ LET chosen == IF wbLaunch.same THEN [UpdateSelected(wbC, "n") EXCEPT !.intr = NoIntr, !.stayed = TRUE] ELSE wbC
           matched == {wbLaunch.buffer[i] : i \in {j \in DOMAIN wbLaunch.buffer : wbLaunch.buffer[j].run = "n"}}
           shown == [chosen EXCEPT !.live = @ \cup {e.no : e \in {x \in matched : x.kind = "chunk"}}]
           tracked == IF \E e \in matched : e.kind = "status" /\ e.st # "running" THEN RefreshSelected(shown, "n") ELSE shown
       IN  Render(StartList(IF chosen.sel = "n" THEN tracked ELSE chosen, TRUE, "launch"))
    /\ wbLaunch' = [NoLaunch EXCEPT !.at = "list"] /\ Misses({"a", "b"})
    /\ UNCHANGED <<wbSrv, wbWire, wbStream, wbOp, wbGap, wbLeft>>

-----------------------------------------------------------------------------

WbUser ==
    \/ \E r \in WbRuns : WbSelect(r) \/ WbDelete(r)
    \/ \E kind \in {"pause", "cancel"} : WbControl(kind)
    \/ WbLoadOlder \/ WbFork \/ WbCompare \/ WbResume \/ WbSubmit \/ WbDismiss \/ WbStart \/ WbSwitch \/ WbReconnect

WbServer == (\E r \in WbRuns : WbMove(r)) \/ WbChunk \/ WbDrop \/ WbListFails \/ WbInspectionFails \/ WbOpLost \/ WbLaunchLost

\* What goes on by itself.
WbWork ==
    \/ WbServeList \/ WbServeInspection \/ WbServeOp \/ WbServeLaunch
    \/ WbConnected \/ WbGapFrame \/ WbGapResponse \/ WbEvent
    \/ WbListAnswer \/ WbInspectionAnswer \/ WbOlderAnswer
    \/ \E for \in {"event", "op", "launch", "gap"} : WbListSuperseded(for)
    \/ \E for \in {"op", "launch", "gap"} : WbInspectionSuperseded(for)
    \/ WbOpAnswer \/ WbOpRefused \/ WbLaunchAnswer

WbNext == (WbUser \/ WbServer \/ WbWork) /\ UNCHANGED wbScene

-----------------------------------------------------------------------------
(* Properties *)

WbRecs == [st : {"absent", "running", "paused", "done"}, at : Nat, cp : Nat]

\* The hook's state has its shape; a request is made for a task that awaits it.
WbTypeOK ==
    /\ wbSrv \in [WbRuns -> WbRecs]
    /\ wbC.view \in [WbRuns -> WbRecs] /\ wbC.cache \in [WbRuns -> WbRecs]
    /\ {wbC.sel, wbC.shown, wbC.older, wbC.insp.run, wbC.page.run} \subseteq WbRuns \cup {""}
    /\ wbC.list.for \in {"op", "launch", "gap", "event"} => AwaitsList(wbC.list.for)
    /\ wbOp.kind \in {"idle", "pause", "cancel", "delete", "fork", "compare", "submit", "resume"}

\* Nothing is on its way.
WbQuiet ==
    /\ wbC.list.for = "" /\ wbC.insp.run = "" /\ wbC.page.run = "" /\ ~wbC.ev.running
    /\ wbOp.kind = "idle" /\ wbLaunch.at = "idle" /\ wbGap = "idle"
    /\ wbStream.st # "connecting" /\ ~wbStream.lost

\* ... and the stream has brought everything, no request having failed.
WbCaughtUp == WbQuiet /\ wbStream.open /\ wbWire = <<>> /\ wbLeft.errors = wbScene.errors

\* updateSelectedRunID, refreshSelectedRun, loadOlderEvents: whatever order answers come
\* in, the steps, events and interrupt on the screen are those of the selected run.
InspectionIsOfSelection ==
    {wbC.shown, wbC.older, wbC.intr.run} \subseteq {"", wbC.sel}

\* mergeRefreshedRuns, upsertInspectedRun, upsertRunFromEvent, requestEventRunRefresh: once
\* everything has arrived, the list shows each run as it is, unless it has changed twice in
\* one millisecond.
ViewConverges ==
    WbCaughtUp => \A r \in WbRuns \ wbHist.tied : wbC.view[r].st = wbSrv[r].st

\* runInspectionLoading: the selected run is not left loading, except by a deletion that
\* inspects the run selected when it was confirmed.
SelectionLoads ==
    WbQuiet /\ wbC.loading => wbHist.stolen

\* mergeRefreshedRuns: a run that was deleted does not come back with an answer that was on
\* its way.
DeletedRunIsNotListed ==
    \A r \in wbHist.deleted : wbC.view[r].st = "absent"

\* ignoredHumanInterruptsRef: a prompt that was answered is not shown again unless the
\* user asks for it.
AnsweredPromptStays ==
    wbC.prompt \notin wbHist.answered

\* The effect on the interrupt and the selected run: the prompt of a selected run that waits
\* for the user is shown, in whatever order the pause and its interrupt become known,
\* unless its events were given up by a launch.
PromptAppears ==
    WbCaughtUp /\ wbC.sel # "" /\ ~wbHist.stolen =>
        LET rec == wbSrv[wbC.sel]
            due == [run |-> wbC.sel, cp |-> rec.cp]
        IN  rec.st = "paused" /\ rec.cp > 0 /\ due \notin wbC.ignored /\ wbC.sel \notin wbHist.tied \cup wbHist.missed
                => wbC.prompt = due

\* launchBufferedEventsRef: a started run that stays selected shows all its chunks, those
\* that came before the answer of startRun included.
LaunchShowsEverything ==
    wbC.stayed => wbHist.seen \subseteq wbC.live

\* The screen is of the selected run and comes to agree with the server, in whatever
\* order events and answers arrive.
ScreenIsTrue ==
    InspectionIsOfSelection /\ ViewConverges /\ DeletedRunIsNotListed /\ PromptAppears
=============================================================================

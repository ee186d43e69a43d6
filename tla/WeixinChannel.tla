---------------------------- MODULE WeixinChannel ----------------------------
(***************************************************************************)
(* The polling loop of the WeChat chat channel                             *)
(* (internal/chatchannel/weixin/channel.go).                               *)
(*                                                                         *)
(* Run polls the service for the messages after its cursor, starts a       *)
(* worker per message and then writes the new cursor to a file.  A worker  *)
(* shows that the bot is typing, hands the message on, and sends one final *)
(* text.  The process may die at any step, requests may fail, and a failed *)
(* request may have been carried out.                                      *)
(***************************************************************************)
EXTENDS Integers, FiniteSets

CONSTANTS
    WxCount,    \* bound: messages the service has, numbered in order
    WxBatch,    \* the most messages one poll returns
    WxStarts    \* bound: calls of Run

VARIABLES
    wxFile,     \* the cursor on disk; 0 also if the file was left empty
    wxRun,      \* [pc, cursor, next, left]: "down", "poll", "save", "stopping"
    wxWork,     \* [message -> [pc, typing, finished]]
    wxSeen,     \* [message -> times it was dispatched in this call of Run]
    wxShown,    \* [message -> texts of the current handling the user got]
    wxTyping,   \* the user is shown that the bot is typing
    wxCut,      \* messages whose handling was cut off or whose text failed
    wxStuck     \* a request to stop typing failed

wxVars == <<wxFile, wxRun, wxWork, wxSeen, wxShown, wxTyping, wxCut, wxStuck>>

WxMsgs == 1..WxCount
WxNoWork == [pc |-> "none", typing |-> FALSE, finished |-> FALSE]
WxWorking(m) == wxWork[m].pc \notin {"none", "done"}

WxInit ==
    /\ wxFile = 0
    /\ wxRun = [pc |-> "down", cursor |-> 0, next |-> 0, left |-> WxStarts]
    /\ wxWork = [m \in WxMsgs |-> WxNoWork]
    /\ wxSeen = [m \in WxMsgs |-> 0]
    /\ wxShown = [m \in WxMsgs |-> {}]
    /\ wxTyping = FALSE /\ wxCut = {} /\ wxStuck = FALSE

-----------------------------------------------------------------------------
(* Run *)

\* readCursor; an earlier call has waited for its workers.
RunStarts ==
    /\ wxRun.pc = "down" /\ wxRun.left > 0
    /\ wxRun' = [pc |-> "poll", cursor |-> wxFile, next |-> wxFile, left |-> wxRun.left - 1]
    /\ wxSeen' = [m \in WxMsgs |-> 0]
    /\ UNCHANGED <<wxFile, wxWork, wxShown, wxTyping, wxCut, wxStuck>>

\* Mutant: the last message of a batch is passed over.
BatchWithoutLast(cursor, next) == (cursor + 1)..(next - 1)

\* The messages a poll returns.
Batch(cursor, next) == (cursor + 1)..next

\* getUpdates, then handleMessages: a worker per message of the batch.
PollReturns(next) ==
    LET batch == Batch(wxRun.cursor, next)
    IN /\ wxRun.pc = "poll" /\ next - wxRun.cursor \in 1..WxBatch
       /\ \A m \in batch : ~WxWorking(m)
       /\ wxWork' = [m \in WxMsgs |-> IF m \in batch THEN [WxNoWork EXCEPT !.pc = "begin"]
                                      ELSE wxWork[m]]
       /\ wxSeen' = [m \in WxMsgs |-> IF m \in batch THEN wxSeen[m] + 1 ELSE wxSeen[m]]
       /\ wxShown' = [m \in WxMsgs |-> IF m \in batch THEN {} ELSE wxShown[m]]
       /\ wxRun' = [wxRun EXCEPT !.pc = "save", !.next = next]
       /\ UNCHANGED <<wxFile, wxTyping, wxCut, wxStuck>>


\* cursor = nextCursor
CursorMoved(run) == [run EXCEPT !.pc = "poll", !.cursor = run.next]

\* writeCursor
CursorSaved ==
    /\ wxRun.pc = "save"
    /\ wxFile' = wxRun.next
    /\ wxRun' = CursorMoved(wxRun)
    /\ UNCHANGED <<wxWork, wxSeen, wxShown, wxTyping, wxCut, wxStuck>>

\* Run is about to return: an error of writeCursor, which may have emptied
\* the file, or a rejected token, or the trigger is being stopped.  The
\* workers' context is canceled.
RunStopping(file) ==
    /\ wxRun.pc \in {"poll", "save"}
    /\ file = wxFile \/ wxRun.pc = "save"
    /\ wxFile' = file
    /\ wxRun' = [wxRun EXCEPT !.pc = "stopping"]
    /\ UNCHANGED <<wxWork, wxSeen, wxShown, wxTyping, wxCut, wxStuck>>

\* Mutant: Run returns while workers are still busy.
WorkersIgnored == TRUE

\* Mutant: Run also waits for itself.
WaitsForItself == FALSE

\* workers.Wait()
WorkersDone == \A m \in WxMsgs : ~WxWorking(m)

WxRunReturns ==
    /\ wxRun.pc = "stopping" /\ WorkersDone
    /\ wxRun' = [pc |-> "down", cursor |-> 0, next |-> 0, left |-> wxRun.left]
    /\ UNCHANGED <<wxFile, wxWork, wxSeen, wxShown, wxTyping, wxCut, wxStuck>>

\* The process dies; os.WriteFile may have truncated the cursor file.
WxCrash(file) ==
    /\ wxRun.pc # "down"
    /\ file = wxFile \/ wxRun.pc = "save"
    /\ wxFile' = file
    /\ wxRun' = [pc |-> "down", cursor |-> 0, next |-> 0, left |-> wxRun.left]
    /\ wxCut' = wxCut \cup {m \in WxMsgs : WxWorking(m)}
    /\ wxStuck' = (wxStuck \/ wxTyping)
    /\ wxWork' = [m \in WxMsgs |-> IF WxWorking(m) THEN WxNoWork ELSE wxWork[m]]
    /\ UNCHANGED <<wxSeen, wxShown, wxTyping>>

-----------------------------------------------------------------------------
(* handleMessage *)

\* Unsupported content, a group, no sender or no context token.
Unsupported(m) ==
    /\ wxWork[m].pc = "begin"
    /\ wxWork' = [wxWork EXCEPT ![m].pc = "fail"]
    /\ UNCHANGED <<wxFile, wxRun, wxSeen, wxShown, wxTyping, wxCut, wxStuck>>

\* startTyping: the session exists only if the first request succeeded; a
\* failed one may have been carried out.
StartTyping(m, ok, shown) ==
    /\ wxWork[m].pc = "begin"
    /\ ok => shown
    /\ wxWork' = [wxWork EXCEPT ![m].pc = "handle", ![m].typing = ok]
    /\ wxTyping' = (wxTyping \/ shown)
    /\ wxStuck' = (wxStuck \/ (shown /\ ~ok))
    /\ UNCHANGED <<wxFile, wxRun, wxSeen, wxShown, wxCut>>

\* The keepalive goroutine of the session.
KeepAlive(m) ==
    /\ wxWork[m].typing
    /\ wxTyping' = TRUE
    /\ UNCHANGED <<wxFile, wxRun, wxWork, wxSeen, wxShown, wxCut, wxStuck>>

\* Mutant: the keepalive goroutine survives the stop request.
KeepAliveSurvives(work) == [work EXCEPT !.pc = "stop"]

\* session.stop closes done and waits until the keepalive has returned.
KeepAliveEnds(work) == [work EXCEPT !.pc = "stop", !.typing = FALSE]

\* Emit of a message of its own: sendText with its retries.
MessageText(m, ok, shown) ==
    /\ wxWork[m].pc = "handle" /\ ~wxWork[m].finished /\ "reply" \notin wxShown[m]
    /\ ok => shown
    /\ wxShown' = IF shown THEN [wxShown EXCEPT ![m] = @ \cup {"reply"}] ELSE wxShown
    /\ UNCHANGED <<wxFile, wxRun, wxWork, wxSeen, wxTyping, wxCut, wxStuck>>

\* replySink.finish of a run: finished is set first, then the text is sent
\* with its retries.  ok = FALSE: every attempt failed, shown or not.  After
\* messages of its own a run may finish without a text.
FinalText(m, ok, shown) ==
    /\ wxWork[m].pc = "handle" /\ ~wxWork[m].finished
    /\ ok => shown \/ "reply" \in wxShown[m]
    /\ wxWork' = [wxWork EXCEPT ![m].finished = TRUE]
    /\ wxShown' = IF shown THEN [wxShown EXCEPT ![m] = @ \cup {"answer"}] ELSE wxShown
    /\ wxCut' = IF ok THEN wxCut ELSE wxCut \cup {m}
    /\ UNCHANGED <<wxFile, wxRun, wxSeen, wxTyping, wxStuck>>

\* handler.Handle returns, with an error or without; without one the final
\* text was sent.  The typing session, if any, is stopped.
WorkerHandled(m) ==
    /\ wxWork[m].pc = "handle"
    /\ wxWork' = [wxWork EXCEPT ![m] =
            IF wxWork[m].typing THEN KeepAliveEnds(wxWork[m])
            ELSE [wxWork[m] EXCEPT !.pc = "fail"]]
    /\ UNCHANGED <<wxFile, wxRun, wxSeen, wxShown, wxTyping, wxCut, wxStuck>>

\* stopTyping
StopTyping(m, ok) ==
    /\ wxWork[m].pc = "stop"
    /\ wxTyping' = IF ok THEN FALSE ELSE wxTyping
    /\ wxStuck' = (wxStuck \/ ~ok)
    /\ wxWork' = [wxWork EXCEPT ![m].pc = "fail"]
    /\ UNCHANGED <<wxFile, wxRun, wxSeen, wxShown, wxCut>>

\* Mutant: a failed final text is followed by the failure message.
FailsAgain(m) == TRUE

\* sink.fail does nothing once finish has been called.
NotFinished(m) == ~wxWork[m].finished

\* The handling ends; if there was an error and no final text, with the
\* failure message (or the unsupported message).
WorkerEnds(m, ok, shown) ==
    /\ wxWork[m].pc = "fail"
    /\ ok => shown
    /\ IF NotFinished(m)
       THEN /\ wxShown' = IF shown THEN [wxShown EXCEPT ![m] = @ \cup {"failure"}] ELSE wxShown
            /\ wxCut' = IF ok THEN wxCut ELSE wxCut \cup {m}
       ELSE ok /\ UNCHANGED <<wxShown, wxCut>>
    /\ wxWork' = [wxWork EXCEPT ![m] = [@ EXCEPT !.pc = "done", !.finished = FALSE]]
    /\ UNCHANGED <<wxFile, wxRun, wxSeen, wxTyping, wxStuck>>

-----------------------------------------------------------------------------
WxWorker(m) ==
    \/ Unsupported(m) \/ WorkerHandled(m)
    \/ \E ok, shown \in BOOLEAN : StartTyping(m, ok, shown) \/ WorkerEnds(m, ok, shown)
    \/ \E ok \in BOOLEAN : StopTyping(m, ok)

WxLoop ==
    \/ RunStarts \/ CursorSaved \/ WxRunReturns
    \/ \E next \in WxMsgs : PollReturns(next)

WxNext ==
    \/ WxLoop
    \/ \E m \in WxMsgs :
         \/ WxWorker(m) \/ KeepAlive(m)
         \/ \E ok, shown \in BOOLEAN : FinalText(m, ok, shown) \/ MessageText(m, ok, shown)
    \/ \E file \in {0, wxFile} : RunStopping(file) \/ WxCrash(file)

WxSpec == WxInit /\ [][WxNext]_wxVars

-----------------------------------------------------------------------------
(* Properties *)

\* Types, and the cursor on disk is never ahead of the loop's.
WxTypeOK ==
    /\ wxFile \in 0..WxCount /\ wxRun.pc \in {"down", "poll", "save", "stopping"}
    /\ wxRun.pc = "poll" => wxRun.cursor = wxFile
    /\ wxRun.pc = "save" => wxRun.next > wxRun.cursor
    /\ \A m \in WxMsgs : wxWork[m].pc \in {"none", "begin", "handle", "stop", "fail", "done"}

\* A message that the saved cursor has passed was handled: it is being
\* handled, the user got a text for it, or its handling was cut off by a
\* crash or by requests that failed.
PassedIsHandled ==
    \A m \in 1..wxFile : WxWorking(m) \/ wxShown[m] # {} \/ m \in wxCut

\* One call of Run handles a message at most once; only a crash or an error
\* before the cursor is on disk makes another call handle it again.
HandledOncePerRun ==
    \A m \in WxMsgs : wxSeen[m] <= 1

\* The user gets one closing text per handling: never the failure message on
\* top of an answer whose response was lost.
OneClosingText ==
    \A m \in WxMsgs : ~({"answer", "failure"} \subseteq wxShown[m])

\* When nothing is being handled the bot does not seem to be typing, unless
\* a typing request failed: no keepalive comes after the stop request.
TypingStops ==
    (\A m \in WxMsgs : ~WxWorking(m)) /\ wxTyping => wxStuck

\* When Run has returned none of its workers is active.
NoWorkerWithoutRun ==
    wxRun.pc = "down" => \A m \in WxMsgs : ~WxWorking(m)

\* Every message the service has was handled, or Run is no longer called.
NoMessageWaits ==
    \A m \in WxMsgs : wxSeen[m] > 0 \/ m <= wxFile \/ (wxRun.pc = "down" /\ wxRun.left = 0)

=============================================================================

---------------------------- MODULE WeComChannel ----------------------------
(***************************************************************************)
(* The long connection of the WeCom chat channel                           *)
(* (internal/chatchannel/wecom/channel.go).                                *)
(*                                                                         *)
(* A reader goroutine takes frames off the connection: the answer to a     *)
(* pending reply is handed to its writer, anything else goes through a     *)
(* channel of capacity one to the main loop, which starts a goroutine per  *)
(* message and answers an enter_chat event itself.  A reply sink streams   *)
(* updates of one message, at most one at a time and only the newest, and  *)
(* then the final reply; each has to be acknowledged by the platform,      *)
(* whose answers name the request and not the reply.                       *)
(***************************************************************************)
EXTENDS Integers, FiniteSets, SequencesExt

CONSTANTS
    WcMsgs,     \* requests that are text messages
    WcEnters,   \* requests that are enter_chat events
    WcOthers,   \* frames the main loop ignores
    WcUpdates,  \* bound: updates a handler streams for a message
    WcLinks     \* bound: connections

VARIABLES
    wcLink,     \* [up, left]: connection state, connections left
    wcCalls,    \* callbacks the platform has still to make
    wcIn,       \* frames on the connection, in order
    wcHeld,     \* the frame the reader is about to put into the channel
    wcChan,     \* messages, the channel of capacity one
    wcMain,     \* "loop", or the enter_chat request the main loop answers
    wcSink,     \* [WcMsgs -> reply sink and its handler]
    wcReply,    \* [request -> the reply whose answer is awaited]
    wcLate,     \* requests with a reply that was given up unanswered
    wcOwed,     \* answers the platform has still to send: [req, seq, ok]
    wcShown     \* [WcMsgs -> [content, final]]: what the user sees

wcVars == <<wcLink, wcCalls, wcIn, wcHeld, wcChan, wcMain, wcSink, wcReply, wcLate, wcOwed, wcShown>>

WcReqs == WcMsgs \cup WcEnters
WcNoFrame == [cmd |-> "none"]
WcNoReply == [kind |-> "none"]
WcFailure == WcUpdates + 1          \* the failure message
WcCallback(req) ==
    [cmd |-> IF req \in WcMsgs THEN "msg" ELSE IF req \in WcEnters THEN "enter" ELSE "other",
     req |-> req]

\* newReplySink, with the progress of its handler: "none", "run",
\* "say" (a message of its own awaits its answer), "finish"
\* (finish was called), "fail" (Fail was called), "done", "dead".
WcNewSink == [pc |-> "none", inFlight |-> FALSE, next |-> 0, pending |-> 0, last |-> 0,
              updateErr |-> FALSE, finished |-> FALSE, said |-> FALSE]

WcInit ==
    /\ wcLink = [up |-> TRUE, left |-> WcLinks - 1]
    /\ wcCalls = WcReqs \cup WcOthers
    /\ wcIn = <<>> /\ wcHeld = WcNoFrame /\ wcChan = <<>> /\ wcMain = "loop"
    /\ wcSink = [m \in WcMsgs |-> WcNewSink]
    /\ wcReply = [q \in WcReqs |-> WcNoReply]
    /\ wcLate = {} /\ wcOwed = {}
    /\ wcShown = [m \in WcMsgs |-> [content |-> 0, final |-> FALSE]]

-----------------------------------------------------------------------------
(* The platform *)

PlatformCalls(req) ==
    /\ wcLink.up
    /\ wcCalls' = wcCalls \ {req}
    /\ wcIn' = Append(wcIn, WcCallback(req))
    /\ UNCHANGED <<wcLink, wcHeld, wcChan, wcMain, wcSink, wcReply, wcLate, wcOwed, wcShown>>

\* An answer may take any time.
PlatformAnswers(a) ==
    /\ wcLink.up
    /\ wcOwed' = wcOwed \ {a}
    /\ wcIn' = Append(wcIn, [cmd |-> "ack", req |-> a.req, ok |-> a.ok])
    /\ UNCHANGED <<wcLink, wcCalls, wcHeld, wcChan, wcMain, wcSink, wcReply, wcLate, wcShown>>

-----------------------------------------------------------------------------
(* connectionWriter.WriteReply *)

\* A number that tells the reply's answer from the others still owed.
NextSeq(req) == CHOOSE n \in 1..(WcUpdates + 3) : \A a \in wcOwed : a.req = req => a.seq # n

\* The request gate is free, the frame is written and registered as pending;
\* the platform shows an accepted reply at once.
WriteReply(req, kind, content, accepted) ==
    /\ wcReply[req].kind = "none"
    /\ wcReply' = [wcReply EXCEPT ![req] =
            [kind |-> kind, answer |-> "none"]]
    /\ wcOwed' = wcOwed \cup {[req |-> req, seq |-> NextSeq(req), ok |-> accepted]}
    /\ wcShown' = IF kind \in {"update", "final"} /\ accepted
                  THEN [wcShown EXCEPT ![req] = [content |-> content, final |-> kind = "final"]]
                  ELSE wcShown

-----------------------------------------------------------------------------
(* The reader goroutine: readMessages, HandleResponse *)

\* Mutant: only the main loop looks at answers.
NeverAnswer(frame) == FALSE

\* HandleResponse
IsAnswer(frame) == frame.cmd = "ack" /\ wcReply[frame.req].kind # "none"

ReaderReads ==
    /\ wcLink.up /\ wcHeld.cmd = "none" /\ wcIn # <<>>
    /\ wcIn' = Tail(wcIn)
    /\ LET frame == Head(wcIn)
       IN IF IsAnswer(frame)
          THEN /\ wcReply' = [wcReply EXCEPT ![frame.req].answer =
                        IF @ # "none" THEN @ ELSE IF frame.ok THEN "ok" ELSE "rejected"]
               /\ UNCHANGED wcHeld
          ELSE wcHeld' = frame /\ UNCHANGED wcReply
    /\ UNCHANGED <<wcLink, wcCalls, wcChan, wcMain, wcSink, wcLate, wcOwed, wcShown>>

ReaderPushes ==
    /\ wcHeld.cmd # "none" /\ wcChan = <<>>
    /\ wcChan' = <<wcHeld>> /\ wcHeld' = WcNoFrame
    /\ UNCHANGED <<wcLink, wcCalls, wcIn, wcMain, wcSink, wcReply, wcLate, wcOwed, wcShown>>

-----------------------------------------------------------------------------
(* The main loop: serveConnection, handleIncomingFrame *)

MainStartsMessage ==
    /\ wcMain = "loop" /\ wcChan # <<>> /\ wcChan[1].cmd = "msg"
    /\ wcSink' = [wcSink EXCEPT ![wcChan[1].req].pc = "run"]
    /\ wcChan' = <<>>
    /\ UNCHANGED <<wcLink, wcCalls, wcIn, wcHeld, wcMain, wcReply, wcLate, wcOwed, wcShown>>

\* handleEventCallback writes the welcome message and waits for its answer.
MainWelcomes(accepted) ==
    /\ wcMain = "loop" /\ wcChan # <<>> /\ wcChan[1].cmd = "enter"
    /\ wcMain' = wcChan[1].req
    /\ WriteReply(wcChan[1].req, "welcome", 0, accepted)
    /\ wcChan' = <<>>
    /\ UNCHANGED <<wcLink, wcCalls, wcIn, wcHeld, wcSink, wcLate>>

\* Unknown commands, and answers nobody waits for.
MainIgnores ==
    /\ wcMain = "loop" /\ wcChan # <<>> /\ wcChan[1].cmd \in {"other", "ack"}
    /\ wcChan' = <<>>
    /\ UNCHANGED <<wcLink, wcCalls, wcIn, wcHeld, wcMain, wcSink, wcReply, wcLate, wcOwed, wcShown>>

\* serveConnection returns: the writer is closed, the session context of all
\* handlers is canceled; Run dials again.
TearDown ==
    /\ wcLink' = [wcLink EXCEPT !.up = FALSE]
    /\ wcIn' = <<>> /\ wcHeld' = WcNoFrame /\ wcChan' = <<>> /\ wcMain' = "loop"
    /\ wcSink' = [m \in WcMsgs |-> IF wcSink[m].pc \in {"none", "done"} THEN wcSink[m]
                                   ELSE [WcNewSink EXCEPT !.pc = "dead"]]
    /\ wcReply' = [q \in WcReqs |-> WcNoReply]
    /\ wcOwed' = {}
    /\ UNCHANGED <<wcCalls, wcShown>>

ConnectionBreaks == wcLink.up /\ TearDown /\ UNCHANGED wcLate

Reconnect ==
    /\ ~wcLink.up /\ wcLink.left > 0
    /\ wcLink' = [up |-> TRUE, left |-> wcLink.left - 1]
    /\ UNCHANGED <<wcCalls, wcIn, wcHeld, wcChan, wcMain, wcSink, wcReply, wcLate, wcOwed, wcShown>>

-----------------------------------------------------------------------------
(* The reply sink *)

\* emitUpdate: the first starts the update loop, later ones wait in pending.
EmitUpdates(m, content) ==
    /\ wcSink[m].pc = "run" /\ content > wcSink[m].last
    /\ ~wcSink[m].updateErr
    /\ wcSink' = [wcSink EXCEPT ![m].last = content, ![m].inFlight = TRUE,
                ![m].next = IF wcSink[m].inFlight THEN @ ELSE content,
                ![m].pending = IF wcSink[m].inFlight THEN content ELSE @]
    /\ UNCHANGED <<wcLink, wcCalls, wcIn, wcHeld, wcChan, wcMain, wcReply, wcLate, wcOwed, wcShown>>

\* runUpdateLoop sends the update it was started with, then the newest.
LoopSends(m, accepted) ==
    /\ wcSink[m].next # 0
    /\ WriteReply(m, "update", wcSink[m].next, accepted)
    /\ wcSink' = [wcSink EXCEPT ![m].next = 0]
    /\ UNCHANGED <<wcLink, wcCalls, wcIn, wcHeld, wcChan, wcMain, wcLate>>

\* Mutant: the loop goes on with the next update without saying so.
LoopHides(sink, ok) ==
    IF ok /\ sink.pending # 0 /\ sink.pc = "run"
    THEN [sink EXCEPT !.next = sink.pending, !.pending = 0, !.inFlight = FALSE]
    ELSE [sink EXCEPT !.inFlight = FALSE, !.pending = 0, !.updateErr = @ \/ ~ok]

\* The update loop after its reply returned.
LoopContinues(sink, ok) ==
    IF ok /\ sink.pending # 0 /\ sink.pc = "run"
    THEN [sink EXCEPT !.next = sink.pending, !.pending = 0]
    ELSE [sink EXCEPT !.inFlight = FALSE, !.pending = 0, !.updateErr = @ \/ ~ok]

\* Emit of a message of its own: sent when the update loop has stopped.  The
\* model's handlers emit one.
EmitMessage(m, accepted) ==
    /\ wcSink[m].pc = "run" /\ ~wcSink[m].inFlight /\ ~wcSink[m].updateErr
    /\ ~wcSink[m].said
    /\ WriteReply(m, "message", 0, accepted)
    /\ wcSink' = [wcSink EXCEPT ![m].pc = "say", ![m].said = TRUE]
    /\ UNCHANGED <<wcLink, wcCalls, wcIn, wcHeld, wcChan, wcMain, wcLate>>

\* finish: no more updates; the one on its way is waited for.
HandlerFinishes(m, failed) ==
    /\ wcSink[m].pc = "run"
    /\ wcSink' = [wcSink EXCEPT ![m].pc = IF failed THEN "fail" ELSE "finish",
                                ![m].pending = 0]
    /\ UNCHANGED <<wcLink, wcCalls, wcIn, wcHeld, wcChan, wcMain, wcReply, wcLate, wcOwed, wcShown>>


\* waitForUpdates
UpdatesOver(m) == ~wcSink[m].inFlight

\* After a failed update finish returns its error, and the handler calls Fail.
FinishGivesUp(m) ==
    /\ wcSink[m].pc = "finish" /\ UpdatesOver(m) /\ wcSink[m].updateErr
    /\ wcSink' = [wcSink EXCEPT ![m].pc = "fail"]
    /\ UNCHANGED <<wcLink, wcCalls, wcIn, wcHeld, wcChan, wcMain, wcReply, wcLate, wcOwed, wcShown>>

\* Nothing was streamed and there is nothing to say.
FinishEmpty(m) ==
    /\ wcSink[m].pc = "finish" /\ UpdatesOver(m) /\ ~wcSink[m].updateErr
    /\ wcSink[m].last = 0
    /\ wcSink' = [wcSink EXCEPT ![m] = [WcNewSink EXCEPT !.pc = "done"]]
    /\ UNCHANGED <<wcLink, wcCalls, wcIn, wcHeld, wcChan, wcMain, wcReply, wcLate, wcOwed, wcShown>>

FinishSends(m, accepted) ==
    /\ UpdatesOver(m)
    /\ \/ wcSink[m].pc = "finish" /\ ~wcSink[m].updateErr /\ wcSink[m].last > 0
       \/ wcSink[m].pc = "fail"
    /\ WriteReply(m, "final", IF wcSink[m].pc = "fail" THEN WcFailure ELSE wcSink[m].last, accepted)
    /\ UNCHANGED <<wcLink, wcCalls, wcIn, wcHeld, wcChan, wcMain, wcSink, wcLate>>

\* WriteReply returned to the one who called it.
Returned(req, ok) ==
    LET kind == wcReply[req].kind
    IN CASE kind = "update" ->
              /\ wcSink' = [wcSink EXCEPT ![req] = LoopContinues(@, ok)]
              /\ UNCHANGED <<wcLink, wcCalls, wcIn, wcHeld, wcChan, wcMain, wcOwed, wcShown>>
         [] kind = "message" ->
              /\ wcSink' = [wcSink EXCEPT ![req].pc = "run"]
              /\ UNCHANGED <<wcLink, wcCalls, wcIn, wcHeld, wcChan, wcMain, wcOwed, wcShown>>
         [] kind = "final" /\ ok ->
              /\ wcSink' = [wcSink EXCEPT ![req] = [WcNewSink EXCEPT !.pc = "done", !.finished = TRUE]]
              /\ UNCHANGED <<wcLink, wcCalls, wcIn, wcHeld, wcChan, wcMain, wcOwed, wcShown>>
         [] kind = "final" /\ ~ok /\ wcSink[req].pc = "finish" ->
              /\ wcSink' = [wcSink EXCEPT ![req].pc = "fail"]
              /\ UNCHANGED <<wcLink, wcCalls, wcIn, wcHeld, wcChan, wcMain, wcOwed, wcShown>>
         [] kind = "welcome" /\ ok ->
              /\ wcMain' = "loop"
              /\ UNCHANGED <<wcLink, wcCalls, wcIn, wcHeld, wcChan, wcSink, wcOwed, wcShown>>

\* An error of Fail or of the welcome message ends the connection.
Fatal(req) ==
    \/ wcReply[req].kind = "welcome"
    \/ wcReply[req].kind = "final" /\ wcSink[req].pc = "fail"

\* Mutant: the errcode of an answer is not looked at.
AnyAnswer(answer) == TRUE

Accepted(answer) == answer = "ok"

Answered(req) ==
    /\ wcReply[req].kind # "none" /\ wcReply[req].answer # "none"
    /\ IF ~Accepted(wcReply[req].answer) /\ Fatal(req) THEN TearDown
       ELSE /\ Returned(req, Accepted(wcReply[req].answer))
            /\ wcReply' = [wcReply EXCEPT ![req] = WcNoReply]
    /\ UNCHANGED wcLate


\* The reader can make no progress, or there is nothing to read: reading
\* takes far less time than ackTimeout, so the timer fires only then.
AckTimerFires ==
    IF wcHeld.cmd = "none" THEN wcIn = <<>> ELSE wcChan # <<>> /\ wcMain # "loop"

AckTimeout(req) ==
    /\ wcReply[req].kind # "none" /\ wcReply[req].answer = "none" /\ AckTimerFires
    /\ IF Fatal(req) THEN TearDown
       ELSE /\ Returned(req, FALSE)
            /\ wcReply' = [wcReply EXCEPT ![req] = WcNoReply]
    /\ wcLate' = wcLate \cup {req}

-----------------------------------------------------------------------------
WcGoroutines ==
    \/ ReaderReads \/ ReaderPushes \/ MainStartsMessage \/ MainIgnores
    \/ \E ok \in BOOLEAN : MainWelcomes(ok)
    \/ \E req \in WcReqs : Answered(req) \/ AckTimeout(req)
    \/ \E m \in WcMsgs :
         \/ FinishGivesUp(m) \/ FinishEmpty(m)
         \/ \E ok \in BOOLEAN : LoopSends(m, ok) \/ FinishSends(m, ok) \/ HandlerFinishes(m, ok)

WcNext ==
    \/ WcGoroutines
    \/ \E req \in wcCalls : PlatformCalls(req)
    \/ \E a \in wcOwed : PlatformAnswers(a)
    \/ \E m \in WcMsgs, content \in 1..WcUpdates : EmitUpdates(m, content)
    \/ \E m \in WcMsgs, ok \in BOOLEAN : EmitMessage(m, ok)
    \/ ConnectionBreaks \/ Reconnect

WcSpec == WcInit /\ [][WcNext]_wcVars

-----------------------------------------------------------------------------
(* Properties *)

\* Types, and the update loop and finish never await a reply at the same time.
WcTypeOK ==
    /\ wcCalls \subseteq WcReqs \cup WcOthers /\ Len(wcChan) <= 1
    /\ wcMain \in WcEnters \cup {"loop"}
    /\ \A q \in WcEnters : wcReply[q].kind = "welcome" <=> wcMain = q
    /\ \A m \in WcMsgs :
         /\ wcSink[m].pc \in {"none", "run", "say", "finish", "fail", "done", "dead"}
         /\ wcReply[m].kind = "update" => wcSink[m].inFlight
         /\ wcReply[m].kind = "final" => wcSink[m].pc \in {"finish", "fail"}

\* The user sees the updates of a message in order and then the final reply,
\* which no update that was still on its way replaces.
ShownMovesForward ==
    [][ \A m \in WcMsgs : wcShown'[m] # wcShown[m] =>
          /\ ~wcShown[m].final \/ wcShown'[m].content = WcFailure
          /\ wcShown'[m].content >= wcShown[m].content ]_wcVars

\* A sink is finished only when the user has the final reply, unless an
\* earlier reply of the request was given up: its late answer, which names
\* only the request, is then taken for that of the final reply.
FinishedMeansShown ==
    \A m \in WcMsgs : wcSink[m].finished => wcShown[m].final \/ m \in wcLate

\* No reply is given up while its answer waits to be read, unless the main
\* loop is waiting for the answer to a welcome message and so does not empty
\* the channel before which the reader waits.
AnswerIsHeard ==
    [][ \A q \in WcReqs :
          q \in wcLate' \ wcLate =>
             \/ wcMain # "loop"
             \/ \A frame \in Range(wcChan \o <<wcHeld>> \o wcIn) :
                  frame.cmd = "ack" => frame.req # q ]_wcVars

\* Every finished handler has sent its final reply, or its connection ended.
NoReplyOpen == \A m \in WcMsgs : wcSink[m].pc \notin {"finish", "fail"}

=============================================================================

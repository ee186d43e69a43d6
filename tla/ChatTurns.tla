------------------------------ MODULE ChatTurns ------------------------------
(***************************************************************************)
(* Chat turns of one user on one chat trigger (internal/trigger:           *)
(* chat_invoker.go, chat_commands.go, chat_conversation.go,                *)
(* chat_history.go, chat_history_service.go, chat_stream.go).              *)
(*                                                                         *)
(* Messages arrive concurrently.  Under the route lock a message finds the *)
(* current conversation and registers as active, or, as a command, starts  *)
(* a new conversation or stops the active ones.  Under the conversation's  *)
(* history lock it loads the earlier turns, stores a pending turn, runs    *)
(* the graph, records and delivers its replies and closes the turn.        *)
(***************************************************************************)
EXTENDS Integers, FiniteSets, SequencesExt

CONSTANTS
    ChatMsgs,       \* the messages the user sends
    ChatText,       \* [ChatMsgs -> {"text", "/new", "/stop"}]
    ChatLimit,      \* ChatSpec.HistoryLimit
    ChatReplies     \* bound: replies a run emits

VARIABLES
    chatStore,  \* files: [cur, made, turns]: current.json, conversation
                \* directories, turns [msg, conv, status, kept] in ID order
    chatExec,   \* [ChatMsgs -> [pc, conv, canceled, seen, seq, sent, last, run]]:
                \* sent are the messages delivered, last the last reply delivered
    chatLock    \* [conversation -> holder of its history lock]

chatVars == <<chatStore, chatExec, chatLock>>

ChatConvs == 1..(Cardinality(ChatMsgs) + 1)
ChatNobody == "nobody"
ChatIdle == [pc |-> "none", conv |-> 0, canceled |-> FALSE, seen |-> {},
             seq |-> 0, sent |-> {}, last |-> 0, run |-> "none"]
ChatOver(pc) == [ChatIdle EXCEPT !.pc = pc]
ChatActive(m) == chatExec[m].pc \in {"waiting", "running", "recorded", "finishing", "closing"}
ChatHolds(m) == chatExec[m].pc \in {"running", "recorded", "finishing", "closing"}

ChatInit ==
    /\ chatStore = [cur |-> 0, made |-> 0, turns |-> <<>>]
    /\ chatExec = [m \in ChatMsgs |-> ChatIdle]
    /\ chatLock = [k \in ChatConvs |-> ChatNobody]

-----------------------------------------------------------------------------
(* Under the route lock: handleChatCommand, prepareChatExecution *)

\* CreateChatConversation: the directory, then current.json; written = FALSE
\* if an error or a crash came between them.
WithConversation(store, written) ==
    [store EXCEPT !.made = @ + 1, !.cur = IF written THEN store.made + 1 ELSE @]

\* Mutant: /new leaves the executions of the old conversation running.
NothingCanceled(exec) == exec

\* cancelChatExecutions
CancelActive(exec) ==
    [m \in ChatMsgs |-> IF exec[m].pc \in {"none", "done", "dead"} THEN exec[m]
                        ELSE [exec[m] EXCEPT !.canceled = TRUE]]

CommandNew(m, written) ==
    /\ ChatText[m] = "/new" /\ chatExec[m].pc = "none"
    /\ chatExec' = [CancelActive(chatExec) EXCEPT ![m] = ChatOver("done")]
    /\ chatStore' = WithConversation(chatStore, written)
    /\ UNCHANGED chatLock

CommandStop(m) ==
    /\ ChatText[m] = "/stop" /\ chatExec[m].pc = "none"
    /\ chatExec' = [CancelActive(chatExec) EXCEPT ![m] = ChatOver("done")]
    /\ UNCHANGED <<chatStore, chatLock>>

PrepareChatExecution(m) ==
    /\ ChatText[m] = "text" /\ chatExec[m].pc = "none"
    /\ chatStore' = IF chatStore.cur = 0 THEN WithConversation(chatStore, TRUE) ELSE chatStore
    /\ chatExec' = [chatExec EXCEPT ![m].pc = "waiting", ![m].conv = chatStore'.cur]
    /\ UNCHANGED chatLock

-----------------------------------------------------------------------------
(* Under the history lock: invokeChatTrigger *)

\* Mutant: turns of a conversation do not wait for each other.
HistoryUnlocked(conv) == TRUE

\* lock.mu.Lock() of lockChatHistory can proceed.
HistoryFree(conv) == chatLock[conv] = ChatNobody

TurnsOf(conv) == SelectSeq(chatStore.turns, LAMBDA t : t.conv = conv)

\* ListChatHistory takes the newest turns; only completed ones are shown.
Remembered(conv) ==
    LET all == TurnsOf(conv)
        last == SubSeq(all, Max({1, Len(all) - ChatLimit + 1}), Len(all))
    IN {last[i].msg : i \in {j \in DOMAIN last : last[j].status = "completed"}}

\* Mutant: a message stopped while it waited runs nevertheless.
StopForgotten(m) == FALSE

\* ctx.Err() after the lock is taken.
StoppedWhileWaiting(m) == chatExec[m].canceled

\* The stopped message releases the lock and is cleaned up.
GiveUp(m) ==
    /\ chatExec[m].pc = "waiting" /\ HistoryFree(chatExec[m].conv)
    /\ StoppedWhileWaiting(m)
    /\ chatExec' = [chatExec EXCEPT ![m] = ChatOver("done")]
    /\ UNCHANGED <<chatStore, chatLock>>

\* ListChatHistory and CreateChatHistory; a store error ends the message here.
BeginTurn(m, created) ==
    /\ chatExec[m].pc = "waiting" /\ HistoryFree(chatExec[m].conv)
    /\ ~StoppedWhileWaiting(m)
    /\ IF created
       THEN /\ chatLock' = [chatLock EXCEPT ![chatExec[m].conv] = m]
            /\ chatStore' = [chatStore EXCEPT !.turns = Append(@,
                    [msg |-> m, conv |-> chatExec[m].conv, status |-> "pending", kept |-> {}])]
            /\ chatExec' = [chatExec EXCEPT ![m].pc = "running",
                                            ![m].seen = Remembered(chatExec[m].conv)]
       ELSE /\ chatExec' = [chatExec EXCEPT ![m] = ChatOver("done")]
            /\ UNCHANGED <<chatStore, chatLock>>

\* CreateRecord, the concurrency check or the resolver fails: no reply at all.
TurnRefused(m) ==
    /\ chatExec[m].pc = "running" /\ chatExec[m].seq = 0
    /\ chatExec' = [chatExec EXCEPT ![m].pc = "closing", ![m].run = "failed"]
    /\ UNCHANGED <<chatStore, chatLock>>

\* RecordReply: the turn's file with the reply added.
Recorded(m, seq) ==
    [chatStore EXCEPT !.turns =
        [i \in DOMAIN @ |-> IF @[i].msg = m THEN [@[i] EXCEPT !.kept = @ \cup {seq}] ELSE @[i]]]

\* Mutant: the reply is delivered although it could not be recorded.
EmitUnrecorded(m, recorded) ==
    /\ chatExec[m].pc = "running" /\ chatExec[m].seq < ChatReplies
    /\ chatStore' = IF recorded THEN Recorded(m, chatExec[m].seq + 1) ELSE chatStore
    /\ chatExec' = [chatExec EXCEPT ![m].seq = @ + 1, ![m].pc = "recorded"]
    /\ UNCHANGED chatLock

\* chatInvocationSink.Emit of a message: RecordReply comes first; on an error
\* the node gets it and the run goes on or fails ...
EmitRecords(m, recorded) ==
    /\ chatExec[m].pc = "running" /\ chatExec[m].seq < ChatReplies
    /\ chatStore' = IF recorded THEN Recorded(m, chatExec[m].seq + 1) ELSE chatStore
    /\ chatExec' = [chatExec EXCEPT ![m].seq = @ + 1,
                                    ![m].pc = IF recorded THEN "recorded" ELSE @]
    /\ UNCHANGED chatLock

\* ... then target.Emit, which may fail as well.
EmitDelivers(m, delivered) ==
    /\ chatExec[m].pc = "recorded"
    /\ chatExec' = [chatExec EXCEPT
            ![m].pc = "running",
            ![m].sent = IF delivered THEN @ \cup {chatExec[m].seq} ELSE @,
            ![m].last = IF delivered THEN chatExec[m].seq ELSE @]
    /\ UNCHANGED <<chatStore, chatLock>>

\* Emit of a streamed update: delivered, not recorded.
EmitUpdate(m) ==
    /\ chatExec[m].pc = "running" /\ chatExec[m].seq < ChatReplies
    /\ chatExec' = [chatExec EXCEPT ![m].seq = @ + 1, ![m].last = chatExec[m].seq + 1]
    /\ UNCHANGED <<chatStore, chatLock>>

\* runner.Start returns; a canceled run may have completed nevertheless.
RunReturns(m, status) ==
    /\ chatExec[m].pc = "running"
    /\ status = "canceled" => chatExec[m].canceled
    /\ chatExec' = [chatExec EXCEPT ![m].pc = "finishing", ![m].run = status]
    /\ UNCHANGED <<chatStore, chatLock>>

\* Mutant: a run that never replied counts as completed.
OutcomeOfRun(exec, delivered) == exec.run

\* The turn's status: ErrChatReplyMissing, or an error of the finish reply,
\* turns a completed run into a failed turn.
TurnOutcome(exec, delivered) ==
    IF exec.run = "completed" /\ (exec.last = 0 \/ ~delivered) THEN "failed" ELSE exec.run

\* configuredSink.finish
EmitFinish(m, delivered) ==
    /\ chatExec[m].pc = "finishing"
    /\ chatExec' = [chatExec EXCEPT ![m].pc = "closing",
                                    ![m].run = TurnOutcome(chatExec[m], delivered)]
    /\ UNCHANGED <<chatStore, chatLock>>

\* Mutant: the lock of a finished turn is kept.
Kept(conv) == chatLock

\* unlock
Unlocked(conv) == [chatLock EXCEPT ![conv] = ChatNobody]

\* Mutant: the history has the recorded messages only.
NoFinalAnswer(m) == {}

\* The last reply becomes the final answer, and ensureFinalMessage adds it if
\* it was only streamed.
FinalAnswer(m) == {chatExec[m].last} \ {0}

\* chatHistoryRecorder.Finish, UpdateRecord, unlock and cleanup.  If the
\* update fails the turn stays pending in its file.
FinishTurn(m, updated) ==
    /\ chatExec[m].pc = "closing"
    /\ chatStore' = IF ~updated THEN chatStore
                    ELSE [chatStore EXCEPT !.turns =
                            [i \in DOMAIN @ |-> IF @[i].msg = m
                                                THEN [@[i] EXCEPT !.status = chatExec[m].run,
                                                                  !.kept = @ \cup FinalAnswer(m)]
                                                ELSE @[i]]]
    /\ chatLock' = Unlocked(chatExec[m].conv)
    /\ chatExec' = [chatExec EXCEPT ![m] = [ChatOver("done") EXCEPT !.sent = chatExec[m].sent,
                                                                 !.last = chatExec[m].last]]

\* The process dies; the user's later messages meet the files it left.
ChatCrash ==
    /\ \E m \in ChatMsgs : ChatActive(m)
    /\ chatExec' = [m \in ChatMsgs |->
            IF ChatActive(m) THEN [ChatOver("dead") EXCEPT !.sent = chatExec[m].sent]
            ELSE chatExec[m]]
    /\ chatLock' = [k \in ChatConvs |-> ChatNobody]
    /\ UNCHANGED chatStore

-----------------------------------------------------------------------------
ChatSteps(m) ==
    \/ GiveUp(m) \/ TurnRefused(m) \/ EmitUpdate(m)
    \/ \E ok \in BOOLEAN :
         \/ BeginTurn(m, ok) \/ EmitRecords(m, ok) \/ EmitDelivers(m, ok)
         \/ EmitFinish(m, ok) \/ FinishTurn(m, ok)
    \/ \E status \in {"completed", "failed", "paused", "canceled"} : RunReturns(m, status)

ChatNext ==
    \/ \E m \in ChatMsgs :
         \/ ChatSteps(m) \/ PrepareChatExecution(m) \/ CommandStop(m)
         \/ \E ok \in BOOLEAN : CommandNew(m, ok)
    \/ ChatCrash

ChatSpec == ChatInit /\ [][ChatNext]_chatVars

-----------------------------------------------------------------------------
(* Properties *)

\* Types, and a lock is held exactly by the message that is in its turn.
ChatTypeOK ==
    /\ chatStore.cur \in 0..chatStore.made /\ chatStore.made \in 0..Cardinality(ChatMsgs)
    /\ \A i \in DOMAIN chatStore.turns :
         /\ chatStore.turns[i].msg \in ChatMsgs /\ chatStore.turns[i].conv \in 1..chatStore.made
         /\ chatStore.turns[i].status \in {"pending", "completed", "failed", "paused", "canceled"}
    /\ \A m \in ChatMsgs : ChatHolds(m) => chatLock[chatExec[m].conv] = m
    /\ \A k \in ChatConvs : chatLock[k] # ChatNobody => ChatHolds(chatLock[k])

\* What a turn was given as its history stays the truth while it runs: every
\* completed turn before it, within the limit, is in it, because no turn of
\* the conversation ends while another one has the history lock.
TurnKnowsItsPast ==
    \A m \in ChatMsgs : ChatHolds(m) =>
        LET all == TurnsOf(chatExec[m].conv)
            me == CHOOSE i \in DOMAIN all : all[i].msg = m
        IN \A i \in Max({1, me - ChatLimit})..(me - 1) :
             all[i].status = "completed" <=> all[i].msg \in chatExec[m].seen

\* A message that was stopped before its turn began never reaches the graph.
StoppedMessageNeverRuns ==
    [][ \A m \in ChatMsgs :
          chatExec[m].pc = "waiting" /\ chatExec[m].canceled
          => chatExec'[m].pc \in {"waiting", "done", "dead"} ]_chatVars

\* After /new nothing runs unstopped in an older conversation: finding the
\* conversation and registering is one critical section with /new.
OldConversationsAreStopped ==
    \A m \in ChatMsgs :
        ChatActive(m) /\ ~chatExec[m].canceled => chatExec[m].conv = chatStore.cur

\* A turn is completed, and so shown to later turns, only if the user got a
\* reply in it, and then the last thing the user got is part of it, be it a
\* message or a streamed update.
CompletedTurnWasAnswered ==
    \A i \in DOMAIN chatStore.turns :
        chatStore.turns[i].status = "completed" =>
            /\ chatExec[chatStore.turns[i].msg].last > 0
            /\ chatExec[chatStore.turns[i].msg].last \in chatStore.turns[i].kept

\* Every message the user got is in the history: it is recorded before it is
\* sent, so no error and no crash can separate them the wrong way round.
DeliveredIsRecorded ==
    \A i \in DOMAIN chatStore.turns :
        chatExec[chatStore.turns[i].msg].sent \subseteq chatStore.turns[i].kept

\* Every message that arrived is answered or given up.
NoTurnOpen == \A m \in ChatMsgs : ~ChatActive(m)

\* The history of a conversation is what happened in it: what a turn is given, what is
\* kept of it and what the user got agree, over concurrent messages, errors and crashes.
HistoryIsTrue ==
    TurnKnowsItsPast /\ CompletedTurnWasAnswered /\ DeliveredIsRecorded
=============================================================================

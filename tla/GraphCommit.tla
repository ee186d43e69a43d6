---------------------------- MODULE GraphCommit ----------------------------
(***************************************************************************)
(* Uploading and deleting one graph of the server: the commit of a graph   *)
(* session together with the triggers that point at it, its journal and    *)
(* receipts, the rollback of a failed commit, and the recovery of a commit *)
(* a crash interrupted (internal/server graph_upload.go,                   *)
(* graph_commit_recovery.go, graph_deletion.go, with the two halves of     *)
(* internal/trigger/graph_replacement.go that they drive).                 *)
(*                                                                         *)
(* A session is a number, in the order of creation; gcBorn gives the       *)
(* content (definition, version and settings, which the code compares by   *)
(* their hashes) of each.  A stored trigger set is known by the request    *)
(* that wrote it and the session it points at.                             *)
(***************************************************************************)
EXTENDS Integers, FiniteSets, FiniteSetsExt, Sequences

CONSTANTS GcUploads,       \* the upload requests, each with its request_id
          GcContent,       \* the content each of them carries
          GcMode,          \* "create" or "overwrite"
          GcRetain,        \* retainedGraphSessionCount
          GcSessionBound,  \* bound: sessions ever created
          GcRetryBound,    \* bound: requests sent again after a failure
          GcFaultBound,    \* bound: steps that fail
          GcCrashBound     \* bound: crashes

VARIABLES gcDisk,   \* what survives a crash
          gcMem,    \* the runtime manager's view
          gcLock,   \* holders of the triggers' operationMu and of graphUpdateMu
          gcReq,    \* per upload: where its handler stands
          gcDel,    \* where the delete handler stands
          gcBorn,   \* content of each session created so far
          gcLeft,   \* faults and crashes still to come
          gcPast    \* history: requests that took effect, and how the others went wrong

gcVars == <<gcDisk, gcMem, gcLock, gcReq, gcDel, gcBorn, gcLeft, gcPast>>

NoTriggers == [of |-> "none", sid |-> 0]
TornTriggers == [of |-> "torn", sid |-> 0]
NoJournal == [sid |-> 0, req |-> "none", prev |-> NoTriggers]
NewRequest == [pc |-> "new", head |-> 0, sid |-> 0, prev |-> NoTriggers,
               current |-> 0, wrote |-> FALSE]

Newest(sessions) == IF sessions = {} THEN 0 ELSE Max(sessions)

----------------------------------------------------------------------------
GcInit ==
  /\ gcDisk = [final |-> {}, cand |-> {}, journal |-> NoJournal,
               receipts |-> {}, trig |-> NoTriggers]
  /\ gcMem = [up |-> TRUE, current |-> 0, loaded |-> {}]
  /\ gcLock = [op |-> "free", upd |-> "free"]
  /\ gcReq = [u \in GcUploads |-> NewRequest]
  /\ gcDel = "new"
  /\ gcBorn = <<>>
  /\ gcLeft = [faults |-> GcFaultBound, crashes |-> GcCrashBound, retries |-> GcRetryBound]
  /\ gcPast = [took |-> {}, phantom |-> {}, unapplied |-> {}, orphaned |-> FALSE]

InFlight(u) == gcReq[u].pc \notin {"new", "ok", "error", "lost"}
At(u, pc) == gcMem.up /\ gcReq[u].pc = pc
GcGoto(u, pc) == gcReq' = [gcReq EXCEPT ![u].pc = pc]
Fault == /\ gcLeft.faults > 0
         /\ gcLeft' = [gcLeft EXCEPT !.faults = @ - 1]

----------------------------------------------------------------------------
(* The upload handler.                                                      *)

(* handleCreateGraphSession: a request whose receipt exists is answered     *)
(* from it; otherwise commitGraph begins.  The client has read the head it  *)
(* expects to overwrite.                                                    *)
ReceiveUpload(u) ==
  /\ gcMem.up /\ ~InFlight(u) /\ gcReq[u].pc # "ok"
  /\ Len(gcBorn) + Cardinality({v \in GcUploads : InFlight(v)}) < GcSessionBound
  /\ gcReq[u].pc # "new" => gcLeft.retries > 0
  /\ gcLeft' = [gcLeft EXCEPT !.retries = IF gcReq[u].pc = "new" THEN @ ELSE @ - 1]
  /\ gcReq' = [gcReq EXCEPT ![u] =
        [NewRequest EXCEPT !.pc = IF u \in gcDisk.receipts THEN "ok" ELSE "prepare",
                           !.head = Newest(gcDisk.final)]]
  /\ UNCHANGED <<gcDisk, gcMem, gcLock, gcDel, gcBorn, gcPast>>

(* PrepareGraphReplacement: the triggers' operationMu is taken and stays    *)
(* taken until Commit or Rollback.                                          *)
PrepareReplacement(u) ==
  /\ At(u, "prepare") /\ gcLock.op = "free"
  /\ gcLock' = [gcLock EXCEPT !.op = u]
  /\ gcReq' = [gcReq EXCEPT ![u].pc = "configure", ![u].prev = gcDisk.trig]
  /\ UNCHANGED <<gcDisk, gcMem, gcDel, gcBorn, gcLeft, gcPast>>

(* Mutant: validateGraphCommitHead that does not compare the heads.         *)
AnyHead(u) ==
  IF GcMode[u] = "create" THEN gcDisk.final = {} ELSE gcDisk.final # {}

(* validateGraphCommitHead.                                                 *)
HeadIsExpected(u) ==
  IF GcMode[u] = "create"
    THEN gcDisk.final = {}
    ELSE gcDisk.final # {} /\ gcReq[u].head = Newest(gcDisk.final)

(* graphUploadMatchesSession: compares with the manager's current session.  *)
MatchesCurrent(u) ==
  gcMem.current # 0 /\ gcBorn[gcMem.current] = GcContent[u]

(* configureGraphWithPublish up to its publish callback, which takes        *)
(* graphUpdateMu: the current session is refreshed, or a new one is         *)
(* written as a candidate and installed.                                    *)
ConfigureRefused(u) ==
  /\ At(u, "configure") /\ gcLock.upd = "free"
  /\ \/ ~HeadIsExpected(u) /\ UNCHANGED gcLeft
     \/ Fault
  /\ GcGoto(u, "unjournal")
  /\ UNCHANGED <<gcDisk, gcMem, gcLock, gcDel, gcBorn, gcPast>>

ConfigureSame(u) ==
  /\ At(u, "configure") /\ gcLock.upd = "free"
  /\ HeadIsExpected(u) /\ MatchesCurrent(u)
  /\ gcLock' = [gcLock EXCEPT !.upd = u]
  /\ gcMem' = [gcMem EXCEPT !.loaded = @ \cup {gcMem.current}]
  /\ gcReq' = [gcReq EXCEPT ![u].pc = "journal", ![u].sid = gcMem.current,
                            ![u].current = gcMem.current]
  /\ gcPast' = [gcPast EXCEPT !.phantom = IF gcMem.current \in gcDisk.final
                                            THEN @ ELSE @ \cup {u}]
  /\ UNCHANGED <<gcDisk, gcDel, gcBorn, gcLeft>>

ConfigureNew(u) ==
  /\ At(u, "configure") /\ gcLock.upd = "free"
  /\ HeadIsExpected(u) /\ ~MatchesCurrent(u)
  /\ LET sid == Len(gcBorn) + 1 IN
       /\ gcBorn' = Append(gcBorn, GcContent[u])
       /\ gcDisk' = [gcDisk EXCEPT !.cand = @ \cup {sid}]
       /\ gcMem' = [gcMem EXCEPT !.current = sid, !.loaded = @ \cup {sid}]
       /\ gcReq' = [gcReq EXCEPT ![u].pc = "journal", ![u].sid = sid,
                                 ![u].current = gcMem.current]
  /\ gcLock' = [gcLock EXCEPT !.upd = u]
  /\ UNCHANGED <<gcDel, gcLeft, gcPast>>

(* The publish callback: validateGraphTriggerState, then the journal, with  *)
(* the triggers to restore.                                                 *)
WriteCommitJournal(u) ==
  /\ At(u, "journal")
  /\ gcDisk' = [gcDisk EXCEPT !.journal =
        [sid |-> gcReq[u].sid, req |-> u, prev |-> gcReq[u].prev]]
  /\ GcGoto(u, "persist")
  /\ UNCHANGED <<gcMem, gcLock, gcDel, gcBorn, gcLeft, gcPast>>

(* History: the request's session is on disk and its triggers are stored.   *)
TookEffect(u) ==
  [gcPast EXCEPT !.took = IF gcReq[u].sid \in gcDisk'.final THEN @ \cup {u} ELSE @]

(* Persist writes the trigger files one at a time.                          *)
PersistBegins(u) ==
  /\ At(u, "persist")
  /\ gcDisk' = [gcDisk EXCEPT !.trig = TornTriggers]
  /\ GcGoto(u, "persisting")
  /\ UNCHANGED <<gcMem, gcLock, gcDel, gcBorn, gcLeft, gcPast>>

PersistEnds(u) ==
  /\ At(u, "persisting")
  /\ gcDisk' = [gcDisk EXCEPT !.trig = [of |-> u, sid |-> gcReq[u].sid]]
  /\ gcReq' = [gcReq EXCEPT ![u].pc = "publish", ![u].wrote = TRUE]
  /\ gcPast' = TookEffect(u)
  /\ UNCHANGED <<gcMem, gcLock, gcDel, gcBorn, gcLeft>>

(* The store undoes its own writes when one of them fails.                  *)
PersistFails(u) ==
  /\ At(u, "persisting") /\ Fault
  /\ gcDisk' = [gcDisk EXCEPT !.trig = gcReq[u].prev]
  /\ GcGoto(u, "rollback")
  /\ UNCHANGED <<gcMem, gcLock, gcDel, gcBorn, gcPast>>

(* publishGraphCandidate: the candidate directory is renamed; a refreshed   *)
(* session has none and nothing happens.                                    *)
PublishCandidate(u) ==
  /\ At(u, "publish")
  /\ gcDisk' = [gcDisk EXCEPT !.final = @ \cup ({gcReq[u].sid} \cap gcDisk.cand),
                              !.cand = @ \ {gcReq[u].sid}]
  /\ gcPast' = TookEffect(u)
  /\ GcGoto(u, "prune")
  /\ UNCHANGED <<gcMem, gcLock, gcDel, gcBorn, gcLeft>>

(* Validation, the journal write or the rename fails.                       *)
PublishFails(u) ==
  /\ At(u, "journal") \/ At(u, "publish")
  /\ Fault
  /\ GcGoto(u, "rollback")
  /\ UNCHANGED <<gcDisk, gcMem, gcLock, gcDel, gcBorn, gcPast>>

(* pruneGraphSessions: the protected session and the newest others.         *)
RetainedSessions(sessions, keep) ==
  {s \in sessions : s = keep \/ Cardinality({t \in sessions \ {keep} : t > s})
                                  < GcRetain - (IF keep \in sessions THEN 1 ELSE 0)}

(* The end of configureGraphWithPublish, which releases graphUpdateMu.      *)
PruneSessions(u) ==
  /\ At(u, "prune")
  /\ LET kept == RetainedSessions(gcDisk.final, gcReq[u].sid) IN
       /\ gcDisk' = [gcDisk EXCEPT !.final = kept]
       /\ gcMem' = [gcMem EXCEPT !.loaded = @ \ (gcDisk.final \ kept)]
  /\ gcLock' = [gcLock EXCEPT !.upd = "free"]
  /\ GcGoto(u, "receipt")
  /\ UNCHANGED <<gcDel, gcBorn, gcLeft, gcPast>>

(* writeGraphCommitReceipt; a failure is a warning, and keeps the journal.  *)
WriteReceipt(u) ==
  /\ At(u, "receipt")
  /\ gcDisk' = [gcDisk EXCEPT !.receipts = @ \cup {u}]
  /\ GcGoto(u, "cleanup")
  /\ UNCHANGED <<gcMem, gcLock, gcDel, gcBorn, gcLeft, gcPast>>

ReceiptFails(u) ==
  /\ At(u, "receipt") /\ Fault
  /\ GcGoto(u, "commit")
  /\ UNCHANGED <<gcDisk, gcMem, gcLock, gcDel, gcBorn, gcPast>>

RemoveCommitJournal(u) ==
  /\ At(u, "cleanup")
  /\ gcDisk' = [gcDisk EXCEPT !.journal = NoJournal]
  /\ GcGoto(u, "commit")
  /\ UNCHANGED <<gcMem, gcLock, gcDel, gcBorn, gcLeft, gcPast>>

(* replacement.Commit, which releases operationMu, and the answer.          *)
CommitTriggers(u) ==
  /\ At(u, "commit")
  /\ gcLock' = [gcLock EXCEPT !.op = "free"]
  /\ GcGoto(u, "ok")
  /\ UNCHANGED <<gcDisk, gcMem, gcDel, gcBorn, gcLeft, gcPast>>

(* The directories rollbackConfiguredGraph removes.                         *)
Uninstalled(disk, sid) ==
  [disk EXCEPT !.cand = @ \ {sid}, !.final = @ \ {sid}]

(* rollbackConfiguredGraph: the previous session becomes current again,     *)
(* if there was one.                                                        *)
RollbackConfigured(u) ==
  /\ At(u, "rollback")
  /\ LET sid == gcReq[u].sid
         previous == gcReq[u].current IN
       /\ gcDisk' = IF sid # previous THEN Uninstalled(gcDisk, sid) ELSE gcDisk
       /\ gcMem' = [gcMem EXCEPT
            !.loaded = (IF sid # previous THEN @ \ {sid} ELSE @)
                         \cup (IF previous # 0 THEN {previous} ELSE {}),
            !.current = IF previous # 0 THEN previous ELSE @]
  /\ gcLock' = [gcLock EXCEPT !.upd = "free"]
  /\ GcGoto(u, "unjournal")
  /\ UNCHANGED <<gcDel, gcBorn, gcLeft, gcPast>>

(* commitGraph's error branch removes the journal first ...                 *)
DropJournal(u) ==
  /\ At(u, "unjournal")
  /\ gcDisk' = [gcDisk EXCEPT !.journal = NoJournal]
  /\ GcGoto(u, "undo")
  /\ UNCHANGED <<gcMem, gcLock, gcDel, gcBorn, gcLeft, gcPast>>

(* Mutant: a Rollback that only releases the lock.                          *)
TriggersKept(u) == gcDisk.trig

(* The triggers a Rollback leaves behind.                                   *)
TriggersRestored(u) == IF gcReq[u].wrote THEN gcReq[u].prev ELSE gcDisk.trig

(* Mutant: a Rollback that keeps operationMu.                               *)
RollbackStaysLocked(u) ==
  /\ At(u, "undo")
  /\ gcDisk' = [gcDisk EXCEPT !.trig = TriggersRestored(u)]
  /\ GcGoto(u, IF u \in gcDisk.receipts THEN "ok" ELSE "error")
  /\ UNCHANGED <<gcMem, gcLock, gcDel, gcBorn, gcLeft, gcPast>>

(* ... and the deferred Rollback restores the triggers last.                *)
RollbackTriggers(u) ==
  /\ At(u, "undo")
  /\ gcDisk' = [gcDisk EXCEPT !.trig = TriggersRestored(u)]
  /\ gcLock' = [gcLock EXCEPT !.op = "free"]
  /\ GcGoto(u, IF u \in gcDisk.receipts THEN "ok" ELSE "error")
  /\ UNCHANGED <<gcMem, gcDel, gcBorn, gcLeft, gcPast>>

----------------------------------------------------------------------------
(* The delete handler: graphUpdateMu first, operationMu inside it.          *)

(* Mutant: the runtime is deleted, its current session kept.                *)
RuntimeKeepsCurrent == [gcMem EXCEPT !.loaded = {}]

(* deleteGraphRuntime.                                                      *)
RuntimeDeleted == [gcMem EXCEPT !.loaded = {}, !.current = 0]

DeleteBegins ==
  /\ gcMem.up /\ gcDel = "new" /\ gcLock.upd = "free"
  /\ IF gcDisk.final = {}
       THEN gcDel' = "new" /\ UNCHANGED <<gcMem, gcLock>>
       ELSE /\ gcLock' = [gcLock EXCEPT !.upd = "delete"]
            /\ gcMem' = RuntimeDeleted
            /\ gcDel' = "triggers"
  /\ UNCHANGED <<gcDisk, gcReq, gcBorn, gcLeft, gcPast>>

DeleteTriggers ==
  /\ gcMem.up /\ gcDel = "triggers" /\ gcLock.op = "free"
  /\ gcDisk' = [gcDisk EXCEPT !.trig = NoTriggers]
  /\ gcDel' = "storage"
  /\ UNCHANGED <<gcMem, gcLock, gcReq, gcBorn, gcLeft, gcPast>>

DeleteStorage ==
  /\ gcMem.up /\ gcDel = "storage"
  /\ gcDisk' = [gcDisk EXCEPT !.final = {}, !.cand = {}, !.receipts = {},
                              !.journal = NoJournal]
  /\ gcLock' = [gcLock EXCEPT !.upd = "free"]
  /\ gcDel' = "done"
  /\ UNCHANGED <<gcMem, gcReq, gcBorn, gcLeft, gcPast>>

----------------------------------------------------------------------------
(* A crash, and recoverGraphCommits when the server starts again.           *)

GcCrash ==
  /\ gcMem.up /\ gcLeft.crashes > 0
  /\ gcMem' = [up |-> FALSE, current |-> 0, loaded |-> {}]
  /\ gcLock' = [op |-> "free", upd |-> "free"]
  /\ gcReq' = [u \in GcUploads |->
        IF InFlight(u) THEN [NewRequest EXCEPT !.pc = "lost"] ELSE gcReq[u]]
  /\ gcDel' = IF gcDel \in {"triggers", "storage"} THEN "done" ELSE gcDel
  /\ gcLeft' = [gcLeft EXCEPT !.crashes = @ - 1]
  /\ gcPast' = [gcPast EXCEPT !.orphaned = @ \/
        \E u \in GcUploads : gcReq[u].pc = "undo" /\ gcReq[u].wrote]
  /\ UNCHANGED <<gcDisk, gcBorn>>

(* Mutant: recovery that never restores the triggers.                       *)
RecoveredForward(disk) ==
  [disk EXCEPT !.journal = NoJournal, !.cand = @ \ {disk.journal.sid},
               !.receipts = @ \cup {disk.journal.req}]

(* A published session makes the commit final; without one its triggers     *)
(* are put back.                                                            *)
Recovered(disk) ==
  LET swept == [disk EXCEPT !.journal = NoJournal, !.cand = @ \ {disk.journal.sid}] IN
  CASE disk.journal = NoJournal -> disk
    [] disk.journal.sid \in disk.final ->
         [swept EXCEPT !.receipts = @ \cup {disk.journal.req}]
    [] OTHER -> [swept EXCEPT !.trig = disk.journal.prev]

RecoverGraphCommits ==
  /\ ~gcMem.up
  /\ gcDisk' = Recovered(gcDisk)
  /\ gcMem' = [gcMem EXCEPT !.up = TRUE]
  /\ gcPast' = [gcPast EXCEPT !.unapplied = @ \cup
        {u \in GcUploads : /\ gcDisk.journal.req = u
                           /\ gcDisk.journal.sid \in gcDisk.final
                           /\ gcDisk.trig.of # u}]
  /\ UNCHANGED <<gcLock, gcReq, gcDel, gcBorn, gcLeft>>

----------------------------------------------------------------------------
GcUpload(u) ==
  \/ PrepareReplacement(u) \/ ConfigureRefused(u) \/ ConfigureSame(u)
  \/ ConfigureNew(u) \/ WriteCommitJournal(u) \/ PersistBegins(u)
  \/ PersistEnds(u) \/ PersistFails(u) \/ PublishCandidate(u) \/ PublishFails(u)
  \/ PruneSessions(u) \/ WriteReceipt(u) \/ ReceiptFails(u)
  \/ RemoveCommitJournal(u) \/ CommitTriggers(u) \/ RollbackConfigured(u)
  \/ DropJournal(u) \/ RollbackTriggers(u)

GcHandlers == (\E u \in GcUploads : GcUpload(u)) \/ DeleteTriggers \/ DeleteStorage

GcNext ==
  \/ GcHandlers
  \/ \E u \in GcUploads : ReceiveUpload(u)
  \/ DeleteBegins \/ GcCrash \/ RecoverGraphCommits

----------------------------------------------------------------------------
GcPhases == {"new", "prepare", "configure", "journal", "persist", "persisting",
             "publish", "prune", "receipt", "cleanup", "commit", "rollback",
             "unjournal", "undo", "ok", "error", "lost"}

GcSids == 0..GcSessionBound
GcTriggerSets == [of : GcUploads \cup {"none", "torn"}, sid : GcSids]

(* Types, and the locks held exactly by the handlers between taking and     *)
(* releasing them.                                                          *)
GcTypeOK ==
  /\ gcDisk.final \subseteq 1..Len(gcBorn) /\ gcDisk.cand \subseteq 1..Len(gcBorn)
  /\ gcDisk.receipts \subseteq GcUploads /\ gcDisk.trig \in GcTriggerSets
  /\ gcMem.current \in 0..Len(gcBorn) /\ gcMem.loaded \subseteq 1..Len(gcBorn)
  /\ \A u \in GcUploads :
       /\ gcReq[u].pc \in GcPhases
       /\ (gcLock.op = u) <=> InFlight(u) /\ gcReq[u].pc # "prepare"
       /\ (gcLock.upd = u) <=> gcReq[u].pc \in
            {"journal", "persist", "persisting", "publish", "prune", "rollback"}
  /\ (gcLock.upd = "delete") <=> gcDel \in {"triggers", "storage"}

(* POST /graphs/:id/sessions answers a request from its receipt, so a       *)
(* receipt must mean that the session was published and its triggers        *)
(* written.                                                                 *)
AcceptedUploadIsStored ==
  \A u \in GcUploads : u \in gcDisk.receipts => u \in gcPast.took

(* A receipt is truthful, but for the two ways in which the code writes one *)
(* for a commit that did not happen: the upload was matched with a current  *)
(* session a failed first upload had removed from disk, or a crash struck a *)
(* commit of an already published session before its triggers were          *)
(* written, and recovery took the session for proof of the commit.          *)
ReceiptsAreTrue ==
  \A u \in gcDisk.receipts : u \in gcPast.took \cup gcPast.phantom \cup gcPast.unapplied

(* Whenever no replacement is under way, the stored triggers are whole and  *)
(* point at a session on disk: a rollback, a crash with its recovery,       *)
(* pruning and deletion keep the two together.  The exceptions: a session   *)
(* matched but no longer on disk, a crash between the removal of the        *)
(* journal and the rollback of the triggers, and a crash in the middle of   *)
(* the trigger files of a commit that recovery takes for complete.          *)
TriggersPointAtSession ==
  gcMem.up /\ gcLock.op = "free" /\ gcLock.upd = "free" =>
    \/ gcDisk.trig = NoTriggers
    \/ gcDisk.trig.sid \in gcDisk.final
    \/ gcPast.phantom # {} \/ gcPast.unapplied # {} \/ gcPast.orphaned

(* A rollback that leaves the trigger store, the published sessions and the *)
(* journal as the upload found them: what an upload that answers with an    *)
(* error has changed on disk is nothing (commitGraph's error branch).       *)
FailedUploadLeavesNothing ==
  [][\A u \in GcUploads :
       gcReq[u].pc = "undo" /\ gcReq'[u].pc = "error" =>
         /\ gcDisk'.trig = gcReq[u].prev
         /\ gcDisk'.journal = NoJournal
         /\ gcReq[u].sid = gcReq[u].current \/ gcReq[u].sid \notin gcDisk'.final \cup gcDisk'.cand]_gcVars

(* An overwrite replaces only the head its client had seen, whatever was    *)
(* uploaded, deleted or recovered since (validateGraphCommitHead under      *)
(* graphUpdateMu); a create never replaces one.                             *)
OverwritesWhatItSaw ==
  [][\A u \in GcUploads :
       gcReq[u].pc = "publish" /\ gcReq'[u].pc = "prune" =>
         Newest(gcDisk.final) = IF GcMode[u] = "create" THEN 0 ELSE gcReq[u].head]_gcVars

(* The session a handler answers with, and every current session, is loaded *)
(* in the runtime manager, except the one a rollback without a previous     *)
(* session leaves behind.                                                   *)
CurrentIsLoaded ==
  gcMem.current # 0 =>
    \/ gcMem.current \in gcMem.loaded
    \/ gcMem.current \notin gcDisk.final \cup gcDisk.cand

(* An upload takes the triggers' lock and then graphUpdateMu, the deletion  *)
(* takes them in the opposite order.                                        *)
LocksCross ==
  /\ \E u \in GcUploads : gcReq[u].pc = "configure"
  /\ gcDel = "triggers"

(* Every accepted request was answered, unless an upload and the deletion   *)
(* wait for each other's lock.                                              *)
NoUploadOpen == LocksCross \/ \A u \in GcUploads : ~InFlight(u)

\* An upload replaces the session it was checked against or nothing: a concurrent one
\* is refused, a failed one leaves no trace, and the triggers follow the session.
UploadIsAllOrNothing ==
    OverwritesWhatItSaw /\ FailedUploadLeavesNothing /\ []TriggersPointAtSession
============================================================================

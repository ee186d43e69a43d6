----------------------------- MODULE FileStore -----------------------------
(***************************************************************************)
(* The file runtime store: internal/runtimestore/file/transaction.go and   *)
(* the record files of store.go, for the records of one run.               *)
(*                                                                         *)
(* Every method holds the one mutex that all components share, so at most  *)
(* one operation is in progress; what interleaves with it are crashes of   *)
(* the process and writes that fail.  A durable write (temporary file,     *)
(* sync, rename, directory sync) is one step.  It succeeds, fails without  *)
(* replacing the file, or fails in the directory sync after it did.  A     *)
(* method is therefore a sequence of steps, op.pc telling which is next.   *)
(*                                                                         *)
(* Commit, ResolveCommit, DeleteRun, FenceRunDeletion and Open begin with  *)
(* recoverLocked; the methods that write one record do not.  Every Commit  *)
(* recovers first, so there is at most one journal.                        *)
(***************************************************************************)
EXTENDS StoreRecords, FiniteSets

CONSTANTS Txn,        \* transaction IDs
          Commits,    \* the content each transaction carries
          Direct,     \* the single-record methods that are called
          RevBound,   \* bound: revisions explored
          FaultBound, \* bound: durable writes that fail
          CrashBound, \* bound: crashes of the process
          SyncFaults  \* may a write fail after it replaced the file?

ASSUME FileStoreAssumption ==
    /\ Commits \in [Txn -> Content]
    /\ Direct \subseteq {"create", "swap", "append", "update", "save",
                         "publish", "delete"}
    /\ {RevBound, FaultBound, CrashBound} \subseteq Nat
    /\ SyncFaults \in BOOLEAN

VARIABLES disk,     \* the record files
          fence,    \* the components whose deletion fence is written
          journal,  \* the journal file, or NoJournal
          results,  \* the stored results: transaction -> fingerprint
          up,       \* a process has the store open
          op,       \* the method in progress
          reply,    \* what the last Commit or ResolveCommit of t returned
          faults, crashes,
          late,     \* history: some write failed after it replaced its file
          over      \* history: a single-record method wrote a file that a
                    \* leftover journal is going to restore

store == <<disk, fence, journal, results>>
vars == <<disk, fence, journal, results, up, op, reply, faults, crashes, late,
          over>>

-----------------------------------------------------------------------------
(* State *)

NoJournal == [id |-> "none", rev |-> 0, phase |-> "none", before |-> <<>>,
              after |-> <<>>]

Idle == [kind |-> "none", pc |-> "idle", id |-> "none", rev |-> 0,
         left |-> <<>>, failed |-> FALSE]

Component == <<"exec", "ckpt", "event">>

Committed == DOMAIN results

TypeOK ==
    /\ disk \in [meta : BOOLEAN, payload : BOOLEAN,
                 events : Seq(Txn \cup {"publisher"}),
                 run : [n : Nat, del : BOOLEAN], step : 0..2]
    /\ fence \subseteq {"exec", "ckpt", "event"}
    /\ journal = NoJournal \/
          /\ journal.id \in Txn
          /\ journal.phase \in {"prepared", "committed"}
          /\ DOMAIN journal.before = DOMAIN journal.after
          /\ DOMAIN journal.after \subseteq Cell
    /\ Committed \subseteq Txn
    /\ up \in BOOLEAN
    /\ (op.kind = "none") = (op.pc = "idle")
    /\ reply \in [Txn -> {"none", "committed", "not_started", "unknown"}]
    /\ faults \in 0..FaultBound
    /\ crashes \in 0..CrashBound
    /\ {late, over} \subseteq BOOLEAN

Init ==
    /\ disk = Blank
    /\ fence = {}
    /\ journal = NoJournal
    /\ results = << >>
    /\ up = TRUE
    /\ op = Idle
    /\ reply = [t \in Txn |-> "none"]
    /\ faults = 0
    /\ crashes = 0
    /\ late = FALSE
    /\ over = FALSE

-----------------------------------------------------------------------------
(* Durable writes *)

\* How a write may end: "lost" and "late" are errors, and a late one has
\* replaced the file.
Outcome ==
    {"ok"} \cup (IF faults = FaultBound THEN {}
                 ELSE IF SyncFaults THEN {"lost", "late"} ELSE {"lost"})

Ends(r) ==
    /\ faults' = IF r = "ok" THEN faults ELSE faults + 1
    /\ late' = (late \/ r = "late")

Replace(r, cell, value) ==
    disk' = IF r = "lost" THEN disk ELSE [disk EXCEPT ![cell] = value]

Go(pc) == op' = [op EXCEPT !.pc = pc]

Return(t, answer) ==
    /\ op' = Idle
    /\ reply' = [reply EXCEPT ![t] = answer]

\* The cells of a mutation list in the order they are written; before-images
\* are written back in the reverse order.
Forward(cells) == SelectSeq(CellOrder, LAMBDA cell : cell \in cells)
Reversed(s) == [i \in 1..Len(s) |-> s[Len(s) + 1 - i]]
Backward(cells) == Reversed(Forward(cells))

-----------------------------------------------------------------------------
(* recoverLocked *)

\* Mutant: a prepared journal is replayed, too.
ReplayPrepared(j) == j.phase \in {"prepared", "committed"}

\* The phase decides which images recovery writes: only a committed journal is
\* replayed, a prepared one is undone.
UsesAfter(j) == j.phase = "committed"

\* Mutant: the replay appends the event lines instead of writing the image.
RecoveryAppends(j) ==
    IF ~UsesAfter(j) THEN j.before
    ELSE [cell \in DOMAIN j.after |->
            IF cell = "events" THEN Append(disk.events, j.id) ELSE j.after[cell]]

RecoveryImage(j) == IF UsesAfter(j) THEN j.after ELSE j.before

RecoveryOrder(j) ==
    IF UsesAfter(j) THEN Forward(DOMAIN j.after) ELSE Backward(DOMAIN j.before)

\* A method that recovers first starts with the journal, if there is one.
Begin(kind, t, rev, pc) ==
    op' = [kind |-> kind, id |-> t, rev |-> rev, failed |-> FALSE,
           pc |-> IF journal = NoJournal THEN pc ELSE "replay",
           left |-> RecoveryOrder(journal)]

AfterRecovery(kind) ==
    CASE kind = "open"    -> "opened"
      [] kind = "commit"  -> "prepare"
      [] kind = "resolve" -> "resolve"
      [] kind = "fence"   -> "fence"
      [] kind = "delete"  -> "delete"

\* An error of recoverLocked: Open gives the writer lock back, Commit and
\* ResolveCommit report an unknown outcome, the others just fail.
RecoveryFails ==
    /\ op' = Idle
    /\ up' = (up /\ op.kind # "open")
    /\ reply' = IF op.kind \in {"commit", "resolve"}
                THEN [reply EXCEPT ![op.id] = "unknown"] ELSE reply

\* applyTransactionMutations goes on after an error and reports it at the end.
Replay ==
    /\ op.pc = "replay"
    /\ \E r \in Outcome :
        /\ Ends(r)
        /\ Replace(r, Head(op.left), RecoveryImage(journal)[Head(op.left)])
        /\ IF Len(op.left) > 1
           THEN /\ op' = [op EXCEPT !.left = Tail(@),
                                    !.failed = @ \/ r # "ok"]
                /\ UNCHANGED <<up, reply>>
           ELSE IF op.failed \/ r # "ok" THEN RecoveryFails
           ELSE /\ Go(IF UsesAfter(journal) THEN "resave" ELSE "clear")
                /\ UNCHANGED <<up, reply>>
    /\ UNCHANGED <<fence, journal, results, crashes, over>>

\* Mutant: the result is never stored.
NotSaved(j) == results

\* saveTransactionResultLocked; a result that is there already is kept.
Saved(j) ==
    IF j.id \in Committed THEN results
    ELSE [t \in Committed \cup {j.id} |->
            IF t = j.id THEN j.rev ELSE results[t]]

Resave ==
    /\ op.pc = "resave"
    /\ \E r \in Outcome :
        /\ Ends(r)
        /\ results' = IF r = "lost" THEN results ELSE Saved(journal)
        /\ IF r = "ok" THEN Go("clear") /\ UNCHANGED <<up, reply>>
                       ELSE RecoveryFails
    /\ UNCHANGED <<disk, fence, journal, crashes, over>>

Clear ==
    /\ op.pc = "clear"
    /\ \E r \in Outcome :
        /\ Ends(r)
        /\ journal' = IF r = "lost" THEN journal ELSE NoJournal
        /\ IF r = "ok" THEN Go(AfterRecovery(op.kind)) /\ UNCHANGED <<up, reply>>
                       ELSE RecoveryFails
    /\ UNCHANGED <<disk, fence, results, crashes, over>>

-----------------------------------------------------------------------------
(* Commit and ResolveCommit *)

\* The runtime retries a transaction ID only when its outcome is unknown or
\* the process has lost the answer; the caller's rev may be stale.
CallCommit(t) ==
    /\ up /\ op = Idle
    /\ reply[t] \in {"none", "unknown"}
    /\ \E rev \in 0..disk.run.n :
           Begin("commit", t, rev, "prepare")
    /\ UNCHANGED <<store, up, reply, faults, crashes, late, over>>

\* A stored result answers the call, unless its fingerprint differs.
Repeat ==
    /\ op.pc = "prepare"
    /\ op.id \in Committed
    /\ Return(op.id, IF results[op.id] = op.rev THEN "committed"
                     ELSE "not_started")
    /\ UNCHANGED <<store, up, faults, crashes, late, over>>

\* Mutant: nobody looks at the fence of the execution component.
FencedNever == FALSE

Fenced == "exec" \in fence

Prepare ==
    /\ op.pc = "prepare"
    /\ op.id \notin Committed
    /\ IF ~Allowed(Commits[op.id], op.rev, disk, Fenced)
       THEN Return(op.id, "not_started")
       ELSE /\ Go(IF Writes(Commits[op.id]) = {} THEN "saveOnly" ELSE "journal")
            /\ UNCHANGED reply
    /\ UNCHANGED <<store, up, faults, crashes, late, over>>

\* A commit without mutations only stores its result.
SaveOnly ==
    /\ op.pc = "saveOnly"
    /\ \E r \in Outcome :
        /\ Ends(r)
        /\ results' = IF r = "lost" THEN results ELSE Saved(op)
        /\ Return(op.id, IF r = "ok" THEN "committed" ELSE "unknown")
    /\ UNCHANGED <<disk, fence, journal, up, crashes, over>>

PreparedJournal ==
    LET c == Commits[op.id] IN
    [id |-> op.id, rev |-> op.rev, phase |-> "prepared",
     before |-> BeforeImage(c, disk), after |-> AfterImage(op.id, c, disk)]

WriteJournal ==
    /\ op.pc = "journal"
    /\ \E r \in Outcome :
        /\ Ends(r)
        /\ journal' = IF r = "lost" THEN journal ELSE PreparedJournal
        /\ IF r = "ok"
           THEN /\ op' = [op EXCEPT !.pc = "apply",
                              !.left = Forward(Writes(Commits[op.id]))]
                /\ UNCHANGED reply
           ELSE Return(op.id, "not_started")
    /\ UNCHANGED <<disk, fence, results, up, crashes, over>>

\* Mutant: the call ends without restoring the files it has replaced.
LeftToRecovery == Idle

StartRollback == [op EXCEPT !.pc = "rollback", !.failed = FALSE,
                            !.left = Backward(DOMAIN journal.before)]

Apply ==
    /\ op.pc = "apply"
    /\ \E r \in Outcome :
        /\ Ends(r)
        /\ Replace(r, Head(op.left), journal.after[Head(op.left)])
        /\ op' = IF r # "ok" THEN StartRollback
                 ELSE IF Len(op.left) > 1 THEN [op EXCEPT !.left = Tail(@)]
                 ELSE [op EXCEPT !.pc = "mark", !.left = << >>]
    /\ UNCHANGED <<fence, journal, results, up, reply, crashes, over>>

\* The rollback leaves the journal behind: the next recovery removes it.
Rollback ==
    /\ op.pc = "rollback"
    /\ \E r \in Outcome :
        /\ Ends(r)
        /\ Replace(r, Head(op.left), journal.before[Head(op.left)])
        /\ IF Len(op.left) > 1
           THEN /\ op' = [op EXCEPT !.left = Tail(@),
                                    !.failed = @ \/ r # "ok"]
                /\ UNCHANGED reply
           ELSE Return(op.id, IF op.failed \/ r # "ok" THEN "unknown"
                              ELSE "not_started")
    /\ UNCHANGED <<fence, journal, results, up, crashes, over>>

\* The commit point: the journal is rewritten with phase committed.
Mark ==
    /\ op.pc = "mark"
    /\ \E r \in Outcome :
        /\ Ends(r)
        /\ journal' = IF r = "lost" THEN journal
                      ELSE [journal EXCEPT !.phase = "committed"]
        /\ op' = IF r = "ok" THEN [op EXCEPT !.pc = "save"] ELSE StartRollback
    /\ UNCHANGED <<disk, fence, results, up, reply, crashes, over>>

\* Mutant: a result that could not be stored is taken for a failed commit.
SaveErrorNotStarted == "not_started"

SaveError == "unknown"

SaveResult ==
    /\ op.pc = "save"
    /\ \E r \in Outcome :
        /\ Ends(r)
        /\ results' = IF r = "lost" THEN results ELSE Saved(journal)
        /\ IF r = "ok" THEN Go("remove") /\ UNCHANGED reply
                       ELSE Return(op.id, SaveError)
    /\ UNCHANGED <<disk, fence, journal, up, crashes, over>>

RemoveJournal ==
    /\ op.pc = "remove"
    /\ \E r \in Outcome :
        /\ Ends(r)
        /\ journal' = IF r = "lost" THEN journal ELSE NoJournal
        /\ Return(op.id, "committed")
    /\ UNCHANGED <<disk, fence, results, up, crashes, over>>


\* commitAndResolve asks again when the outcome is unknown.
CallResolve(t) ==
    /\ up /\ op = Idle
    /\ reply[t] = "unknown"
    /\ Begin("resolve", t, 0, "resolve")
    /\ UNCHANGED <<store, up, reply, faults, crashes, late, over>>

Resolve ==
    /\ op.pc = "resolve"
    /\ Return(op.id, IF op.id \in Committed THEN "committed" ELSE "not_started")
    /\ UNCHANGED <<store, up, faults, crashes, late, over>>

-----------------------------------------------------------------------------
(* The methods that write one record, without recovering first *)

Over(cell) == over' = (over \/ cell \in DOMAIN journal.before)

\* One durable write of a cell, under the mutex.
WriteRecord(method, cell, value) ==
    /\ up /\ op = Idle
    /\ method \in Direct
    /\ \E r \in Outcome : Ends(r) /\ Replace(r, cell, value)
    /\ Over(cell)
    /\ UNCHANGED <<fence, journal, results, up, op, reply, crashes>>

CreateRun ==
    /\ ~Fenced
    /\ disk.run.n = 0
    /\ WriteRecord("create", "run", [n |-> 1, del |-> FALSE])

\* CompareAndSwapRun: a lease or control update, or the deletion reservation.
CompareAndSwapRun ==
    /\ disk.run.n \in 1..RevBound
    /\ ~disk.run.del
    /\ \E del \in {FALSE, "delete" \in Direct} :
           WriteRecord("swap", "run", [n |-> disk.run.n + 1, del |-> del])

AppendStep ==
    /\ ~Fenced
    /\ disk.run.n > 0 /\ ~disk.run.del /\ disk.step = 0
    /\ WriteRecord("append", "step", 1)

UpdateStep ==
    /\ ~Fenced
    /\ disk.run.n > 0 /\ ~disk.run.del /\ disk.step > 0
    /\ WriteRecord("update", "step", 2)

Publish ==
    /\ "event" \notin fence
    /\ ~\E i \in DOMAIN disk.events : disk.events[i] = "publisher"
    /\ WriteRecord("publish", "events", Append(disk.events, "publisher"))

\* Checkpoint Save: the payload, then the metadata; the payload is removed
\* again when the metadata write reports an error.
SavePayload ==
    /\ up /\ op = Idle
    /\ "save" \in Direct
    /\ "ckpt" \notin fence
    /\ ~disk.meta
    /\ \E r \in Outcome :
        /\ Ends(r)
        /\ Replace(r, "payload", TRUE)
        /\ op' = IF r = "ok" THEN [Idle EXCEPT !.kind = "save", !.pc = "meta"]
                 ELSE Idle
    /\ Over("payload")
    /\ UNCHANGED <<fence, journal, results, up, reply, crashes>>

SaveMetadata ==
    /\ op.pc = "meta"
    /\ \E r \in Outcome :
        /\ Ends(r)
        /\ Replace(r, "meta", TRUE)
        /\ op' = IF r = "ok" THEN Idle ELSE [op EXCEPT !.pc = "cleanup"]
    /\ Over("meta")
    /\ UNCHANGED <<fence, journal, results, up, reply, crashes>>

SaveCleanup ==
    /\ op.pc = "cleanup"
    /\ \E r \in Outcome : Ends(r) /\ Replace(r, "payload", FALSE)
    /\ op' = Idle
    /\ Over("payload")
    /\ UNCHANGED <<fence, journal, results, up, reply, crashes>>

-----------------------------------------------------------------------------
(* Deleting the run *)

\* Called by the deletion service once the reservation is in the run record.
CallFence ==
    /\ up /\ op = Idle
    /\ "delete" \in Direct
    /\ disk.run.del
    /\ Begin("fence", "none", 0, "fence")
    /\ UNCHANGED <<store, up, reply, faults, crashes, late, over>>

\* Three fence files, one after the other; one that is there is kept.
Fence ==
    /\ op.pc = "fence"
    /\ \/ /\ \A i \in 1..3 : Component[i] \in fence
          /\ op' = Idle
          /\ UNCHANGED <<fence, faults, late>>
       \/ \E i \in 1..3, r \in Outcome :
            /\ Component[i] \notin fence
            /\ \A k \in 1..(i - 1) : Component[k] \in fence
            /\ Ends(r)
            /\ fence' = IF r = "lost" THEN fence ELSE fence \cup {Component[i]}
            /\ op' = IF r = "ok" THEN op ELSE Idle
    /\ UNCHANGED <<disk, journal, results, up, reply, crashes, over>>

CallDelete ==
    /\ up /\ op = Idle
    /\ "delete" \in Direct
    /\ "exec" \in fence
    /\ Begin("delete", "none", 0, "delete")
    /\ UNCHANGED <<store, up, reply, faults, crashes, late, over>>

\* The order in which DeleteRun removes; the run record comes last.
DeleteOrder == <<"meta", "payload", "events", "step", "run">>

\* What DeleteRun requires: all three fences and, if there still is a run
\* record, its reservation.
MayDelete ==
    /\ {"exec", "ckpt", "event"} \subseteq fence
    /\ disk.run.n > 0 => disk.run.del

Delete ==
    /\ op.pc = "delete"
    /\ IF MayDelete THEN op' = [op EXCEPT !.pc = "erase", !.left = DeleteOrder]
                    ELSE op' = Idle
    /\ UNCHANGED <<store, up, reply, faults, crashes, late, over>>

\* A removal that reports an error ends the call.  The two files of a
\* checkpoint go with their directory, in either order.
EraseCell ==
    /\ op.pc = "erase"
    /\ \E r \in Outcome, cell \in {Head(op.left)} \cup
            (IF Len(op.left) = 5 THEN {"payload"} ELSE {}) :
        /\ Ends(r)
        /\ Replace(r, cell, Blank[cell])
        /\ op' = IF r # "ok" \/ Len(op.left) = 1 THEN Idle
                 ELSE [op EXCEPT !.left = SelectSeq(@, LAMBDA x : x # cell)]
    /\ UNCHANGED <<fence, journal, results, up, reply, crashes, over>>

-----------------------------------------------------------------------------
(* The process *)

\* Whatever was written stays; the caller of a method in progress never
\* learns how it ended.
Crash ==
    /\ crashes < CrashBound
    /\ up \/ op.kind = "open"
    /\ crashes' = crashes + 1
    /\ up' = FALSE
    /\ op' = Idle
    /\ reply' = IF op.kind \in {"commit", "resolve"}
                THEN [reply EXCEPT ![op.id] = "unknown"] ELSE reply
    /\ UNCHANGED <<store, faults, late, over>>

CallOpen ==
    /\ ~up /\ op = Idle
    /\ Begin("open", "none", 0, "opened")
    /\ UNCHANGED <<store, up, reply, faults, crashes, late, over>>

Opened ==
    /\ op.pc = "opened"
    /\ up' = TRUE
    /\ op' = Idle
    /\ UNCHANGED <<store, reply, faults, crashes, late, over>>

-----------------------------------------------------------------------------
Recovery == Replay \/ Resave \/ Clear

Working ==
    \/ Recovery \/ Repeat \/ Prepare \/ SaveOnly \/ WriteJournal \/ Apply
    \/ Rollback \/ Mark \/ SaveResult \/ RemoveJournal \/ Resolve
    \/ SaveMetadata \/ SaveCleanup \/ Fence \/ Delete \/ EraseCell \/ Opened

Calls ==
    \/ \E t \in Txn : CallCommit(t) \/ CallResolve(t)
    \/ CreateRun \/ CompareAndSwapRun \/ AppendStep \/ UpdateStep \/ Publish
    \/ SavePayload \/ CallFence \/ CallDelete \/ CallOpen

Next == Working \/ Calls \/ Crash

Spec == Init /\ [][Next]_vars

\* A method runs to its end unless the process crashes, the operator starts
\* the process again, and commitAndResolve asks for an unknown outcome.
Fairness ==
    /\ WF_vars(Working)
    /\ WF_vars(CallOpen)
    /\ \A t \in Txn : SF_vars(CallResolve(t))

FairSpec == Spec /\ Fairness

-----------------------------------------------------------------------------
(* Properties *)

\* The records as the next recovery will leave them.
Settled ==
    IF journal = NoJournal THEN disk ELSE Overlay(disk, RecoveryImage(journal))

\* The transactions that the store will say are committed.
Decided ==
    Committed \cup (IF journal.phase = "committed" THEN {journal.id} ELSE {})

Atomic == INSTANCE AtomicStore WITH image <- Settled, done <- Decided

\* Whatever crashes and whichever write fails, the records change the way
\* AtomicStore says: a commit takes all of its records from before to after in
\* one step, once, and a recovery changes nothing.
CommitsAreAtomic == Atomic!Spec

\* An answer "committed" is final: the store keeps a result or a committed
\* journal for the transaction, whatever crashes follow.
CommittedIsDurable ==
    \A t \in Txn : reply[t] = "committed" => t \in Decided

\* Commit answers "not_started" only when no recovery is going to commit the
\* transaction, so that commitAndResolve may treat it as a plain error.
NotStartedIsNotApplied ==
    \A t \in Txn : reply[t] = "not_started" =>
        ~(journal.id = t /\ journal.phase = "committed")

\* The same, as far as the code keeps it: when the write of the committed
\* journal fails in its directory sync, Commit rolls back and answers
\* "not_started" although the journal is there and will be replayed.
NotStartedUnlessLate == late \/ NotStartedIsNotApplied

\* The event lines of a transaction are in the event file at most once.
EventsOnce ==
    \A i, k \in DOMAIN Settled.events :
        Settled.events[i] = Settled.events[k] => i = k

\* Readers take the mutex but do not recover: between two methods they see the
\* records of whole transactions, unless the store has told a caller that an
\* outcome is unknown, or reported an error for a write that took effect, or a
\* single-record method has written over a journal that a failed commit left
\* behind (its write is lost with the next recovery).
ReadersSeeWholeTransactions ==
    (up /\ op = Idle /\ \A t \in Txn : reply[t] # "unknown")
        => disk = Settled \/ late \/ over

\* A checkpoint that List shows can be loaded: metadata is never visible
\* without its payload, except for a run that is being deleted and for a Save
\* whose metadata write reports an error after it took effect.
CheckpointHasPayload ==
    (Settled.meta /\ ~Settled.run.del /\ Settled.run.n > 0)
        => Settled.payload \/ late

\* Fences stop new records: once a component is fenced, its records are only
\* removed, by DeleteRun and by no commit, retry or recovery.  (Unless the
\* reservation itself was lost, written over a leftover journal.)
FencedRunOnlyShrinks ==
    [][~over =>
        /\ "exec" \in fence => /\ Settled'.run \in {Settled.run, NoRun}
                               /\ Settled'.step \in {Settled.step, 0}
        /\ "event" \in fence => Settled'.events \in {Settled.events, <<>>}
        /\ "ckpt" \in fence => (Settled'.meta => Settled.meta)]_vars


\* What Commit answers is the truth and stays it, whatever crashes follow: what it
\* committed is kept, and what it did not start is never applied, as far as the code can.
AnswersAreTrue ==
    CommittedIsDurable /\ NotStartedUnlessLate

\* What readers can see is whole: the records of whole transactions, checkpoints with
\* their payloads, and each event once (recovery before each method that writes).
VisibleIsWhole ==
    ReadersSeeWholeTransactions /\ CheckpointHasPayload /\ EventsOnce
=============================================================================

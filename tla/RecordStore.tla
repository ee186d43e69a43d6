---------------------------- MODULE RecordStore ----------------------------
(***************************************************************************)
(* The four runtime stores behind one contract: MemoryRuntimeStore         *)
(* ("memory"), the separate memory stores of runtime/memory_store.go       *)
(* ("parts"), internal/runtimestore/sqlite ("sqlite") and the methods of   *)
(* internal/runtimestore/file ("file", whose durable writes FileStore.tla  *)
(* takes apart; here nothing of it fails).                                 *)
(*                                                                         *)
(* They hold a run "p" and its child "c".  Two callers load the record of  *)
(* "p", change their copy and write it back, by itself or in a commit;     *)
(* steps, checkpoints and events are written beside them, a reader pages   *)
(* through the events, and the runs are deleted.  A method that holds the  *)
(* locks, or is one SQLite transaction (_txlock=immediate), is one step;   *)
(* SQLite's fence and delete are two statements each.  A run may be        *)
(* deleted at any moment: its status, which the coordinator asks before it *)
(* reserves the run, is not kept here.                                     *)
(***************************************************************************)
EXTENDS StoreRecords, FiniteSets, SequencesExt, TLC

CONSTANTS
    RsBackends,   \* the backends that are explored
    RsActors,     \* who uses the store: the sets of actors that are explored
    RsCallers,    \* the callers; a caller's transaction carries its name
    RsContents,   \* the content of each caller's commit
    RsWrites,     \* [step, ckpt, event]: the runs whose records are written by themselves
    RsEpochBound, \* bound: execution leases that are taken
    RsEventNames, \* the events that are published, in order: their number is a bound
    RsFaultBound, \* bound: SQLite commits that report an error
    RsCrashBound, \* bound: crashes of the process
    RsPageLimit   \* the limit of an event page

ASSUME RecordStoreAssumption ==
    /\ RsBackends \subseteq {"memory", "parts", "sqlite", "file"}
    /\ RsActors \subseteq SUBSET {"callers", "writers", "reader", "deletion"}
    /\ RsContents \in [RsCallers -> Content]
    /\ RsWrites \in [{"step", "ckpt", "event"} -> SUBSET {"p", "c"}]
    /\ {RsEpochBound, RsFaultBound, RsCrashBound} \subseteq Nat
    /\ RsEventNames \in Seq(STRING)
    /\ RsPageLimit \in Nat \ {0}

VARIABLES
    rsBackend,  \* the backend
    rsActors,   \* the actors that use it
    rsRun,      \* [run -> [n, del, lease, log]]: n = 0 is absent, else Revision = n - 1;
                \* the phase of its deletion; the epoch of its active lease; the
                \* updates that made the record
    rsRows,     \* [run -> [step, ckpt, events]]: the other records
    rsFence,    \* [run -> components whose deletion fence is there]
    rsResults,  \* the stored results: transaction -> fingerprint
    rsManifest, \* [phase, plan]: the deletion manifest
    rsCall,     \* [caller -> [seen, epoch, reply]]: its copy of the record, the lease
                \* epoch it believes to hold, the answer to its commit
    rsPage,     \* [at, cursor, got, need]: a reader of the events of "p"
    rsDel,      \* [pc, todo, read]: the deletion
    rsAcked,    \* history: the updates that were acknowledged
    rsLeft      \* what the bounds leave

rsVars == <<rsBackend, rsActors, rsRun, rsRows, rsFence, rsResults, rsManifest, rsCall, rsPage, rsDel, rsAcked, rsLeft>>

RsRuns == {"p", "c"}
RsComps == {"ckpt", "event", "exec"}
Unread == [n |-> 0, del |-> "none", lease |-> 0, log |-> <<>>]
NoRows == [step |-> 0, ckpt |-> FALSE, events |-> <<>>]
NoCall == [seen |-> Unread, epoch |-> 0, reply |-> "none"]
NoPage == [at |-> "idle", cursor |-> 0, got |-> {}, need |-> {}]

RsInit ==
    /\ rsBackend \in RsBackends
    /\ rsActors \in RsActors
    /\ rsRun = [r \in RsRuns |-> Unread]
    /\ rsRows = [r \in RsRuns |-> NoRows]
    /\ rsFence = [r \in RsRuns |-> {}]
    /\ rsResults = << >>
    /\ rsManifest = [phase |-> "none", plan |-> <<>>]
    /\ rsCall = [k \in RsCallers |-> NoCall]
    /\ rsPage = NoPage
    /\ rsDel = [pc |-> "idle", todo |-> <<>>, read |-> FALSE]
    /\ rsAcked = {}
    /\ rsLeft = [faults |-> RsFaultBound, crashes |-> RsCrashBound]

RsKept(r) == rsRun[r].n > 0

-----------------------------------------------------------------------------
(* The guards *)

\* ensureMemoryRunWritable
MemoryWritable(r, comp) == comp \notin rsFence[r]

\* Mutant: the table of fences is not looked up.
SqliteUnfenced(r) == TRUE

\* ensureRunWritable: one table holds the fences of all components
SqliteWritable(r) == rsFence[r] = {}

\* ensureMemoryRunWritable, ensureRunWritable, ensureRunNotDeletingLocked
RunMayWrite(r, comp) ==
    IF rsBackend = "sqlite" THEN SqliteWritable(r) ELSE MemoryWritable(r, comp)

\* Mutant: a run that is reserved for deletion is like any other.
DeletingIsFine(run) == TRUE

\* ensureRunNotDeleting
NotDeleting(run) == run.del = "none"

\* validateNewRunParent: of the parent of "c"; "p" has none
ParentAllows(r) == r = "c" => RsKept("p") /\ NotDeleting(rsRun["p"])

\* CreateRun of the memory, SQLite and file stores
MayCreate(r) ==
    /\ RunMayWrite(r, "exec") /\ ~RsKept(r)
    /\ r = "c" => RunMayWrite("p", "exec")
    /\ ParentAllows(r)

\* applyMemoryCommit and prepareJournalLocked, RunWriteCreate; applyCommit of the
\* SQLite store does not ask for the parent's fence.
MayCommitCreate(r) ==
    /\ RunMayWrite(r, "exec") /\ ~RsKept(r)
    /\ r = "c" /\ rsBackend # "sqlite" => RunMayWrite("p", "exec")
    /\ ParentAllows(r)

\* Mutant: the expected revision is compared with the caller's copy alone.
CurrentInCopy(seen) == RsKept("p") /\ seen.n > 0

\* CompareAndSwapRun: the record is still the one the caller has read
Current(seen) == RsKept("p") /\ seen.n = rsRun["p"].n

\* Mutant: the guard of a write is not compared with the lease.
GuardIgnored(epoch) == TRUE

\* validateExecutionLeaseGuard, validateCommitExecutionLease: an active lease wants
\* its epoch, a guard wants its lease
GuardHolds(epoch) == rsRun["p"].lease = epoch

\* Save, per backend: the memory and file stores do not look at the run.
MemorySave(r) == MemoryWritable(r, "ckpt") /\ ~rsRows[r].ckpt
SqliteSave(r) == RsKept(r) /\ SqliteWritable(r) /\ ~rsRows[r].ckpt
MaySave(r) == IF rsBackend = "sqlite" THEN SqliteSave(r) ELSE MemorySave(r)

\* PublishBatch, per backend.
MemoryPublish(r) == MemoryWritable(r, "event")
SqlitePublish(r) == RsKept(r) /\ SqliteWritable(r)
MayPublish(r) == IF rsBackend = "sqlite" THEN SqlitePublish(r) ELSE MemoryPublish(r)

\* AppendStep and UpdateStep, writeStep
MayWriteStep(r) == RsKept(r) /\ NotDeleting(rsRun[r]) /\ RunMayWrite(r, "exec")

-----------------------------------------------------------------------------
(* Runs, steps, checkpoints and events *)

RsNewRun(r) == rsRun' = [rsRun EXCEPT ![r] = [Unread EXCEPT !.n = 1]]

RsCreateRun(r) ==
    /\ MayCreate(r) \/ MayCommitCreate(r)
    /\ RsNewRun(r)
    /\ UNCHANGED <<rsBackend, rsActors, rsRows, rsFence, rsResults, rsManifest, rsCall, rsPage, rsDel, rsAcked, rsLeft>>

\* A caller waits for the answer to its commit.
Calling(k) == rsCall[k].reply \in {"calling", "unknown"}

\* GetRun
RsGetRun(k) ==
    /\ ~Calling(k) /\ RsKept("p") /\ rsCall[k].seen = Unread
    /\ rsCall' = [rsCall EXCEPT ![k].seen = rsRun["p"]]
    /\ UNCHANGED <<rsBackend, rsActors, rsRun, rsRows, rsFence, rsResults, rsManifest, rsPage, rsDel, rsAcked, rsLeft>>

\* What the caller writes: its copy, with its update, at the next revision.
Updated(k, how) ==
    [rsCall[k].seen EXCEPT !.n = @ + 1, !.log = Append(@, [by |-> k, how |-> how, epoch |-> rsCall[k].epoch])]

\* Each caller makes one update, by a swap or in a commit.
RsMayUpdate(k) == rsCall[k].reply = "none" /\ rsCall[k].seen.n > 0 /\ \A e \in rsAcked : e.by # k

Acknowledge(k, how) == rsAcked' = rsAcked \cup {[by |-> k, how |-> how]}

\* CompareAndSwapRun outside lease and deletion mutations
\* (validateRunDeletionTransition, validateRunExecutionLeaseTransition)
RsSwap(k) ==
    /\ RsMayUpdate(k)
    /\ LET seen == rsCall[k].seen
           next == Updated(k, "swap")
       IN  IF Current(seen) /\ NotDeleting(rsRun["p"]) /\ GuardHolds(rsCall[k].epoch)
           THEN /\ rsRun' = [rsRun EXCEPT !["p"] = next]
                /\ rsCall' = [rsCall EXCEPT ![k].seen = Unread]
                /\ Acknowledge(k, "swap")
           ELSE /\ rsCall' = [rsCall EXCEPT ![k].seen = Unread]
                /\ UNCHANGED <<rsRun, rsAcked>>
    /\ UNCHANGED <<rsBackend, rsActors, rsRows, rsFence, rsResults, rsManifest, rsPage, rsDel, rsLeft>>

\* Mutant: the epoch is counted on twice.
EpochTwice(epoch) == epoch + 2

\* acquireExecutionLease: the epoch that follows
NextEpoch(epoch) == epoch + 1

\* CompareAndSwapRun of a lease acquisition: the first lease, or the next epoch
\* after the previous one expired.
RsAcquire(k) ==
    /\ ~Calling(k) /\ rsCall[k].seen.n > 0 /\ rsRun["p"].lease < RsEpochBound
    /\ rsCall[k].epoch = 0 \/ rsCall[k].epoch # rsRun["p"].lease
    /\ Current(rsCall[k].seen) /\ NotDeleting(rsRun["p"])
    /\ LET next == [rsCall[k].seen EXCEPT !.n = @ + 1, !.lease = NextEpoch(@)] IN
           /\ rsRun' = [rsRun EXCEPT !["p"] = next]
           /\ rsCall' = [rsCall EXCEPT ![k].seen = next, ![k].epoch = next.lease]
    /\ UNCHANGED <<rsBackend, rsActors, rsRows, rsFence, rsResults, rsManifest, rsPage, rsDel, rsAcked, rsLeft>>

\* AppendStep
RsAppendStep(r) ==
    /\ MayWriteStep(r) /\ rsRows[r].step = 0
    /\ rsRows' = [rsRows EXCEPT ![r].step = 1]
    /\ UNCHANGED <<rsBackend, rsActors, rsRun, rsFence, rsResults, rsManifest, rsCall, rsPage, rsDel, rsAcked, rsLeft>>

\* UpdateStep
RsUpdateStep(r) ==
    /\ MayWriteStep(r) /\ rsRows[r].step = 1
    /\ rsRows' = [rsRows EXCEPT ![r].step = 2]
    /\ UNCHANGED <<rsBackend, rsActors, rsRun, rsFence, rsResults, rsManifest, rsCall, rsPage, rsDel, rsAcked, rsLeft>>

\* Save.  An executor that does not know of the deletion goes on.
RsSave(r) ==
    /\ RsKept(r) \/ rsDel.pc # "idle"
    /\ MaySave(r)
    /\ rsRows' = [rsRows EXCEPT ![r].ckpt = TRUE]
    /\ UNCHANGED <<rsBackend, rsActors, rsRun, rsFence, rsResults, rsManifest, rsCall, rsPage, rsDel, rsAcked, rsLeft>>

\* Publish, PublishBatch
RsPublish(r) ==
    /\ Len(rsRows[r].events) < Len(RsEventNames)
    /\ RsKept(r) \/ rsDel.pc # "idle"
    /\ MayPublish(r)
    /\ rsRows' = [rsRows EXCEPT ![r].events = Append(@, RsEventNames[Len(@) + 1])]
    /\ UNCHANGED <<rsBackend, rsActors, rsRun, rsFence, rsResults, rsManifest, rsCall, rsPage, rsDel, rsAcked, rsLeft>>

-----------------------------------------------------------------------------
(* Commit and ResolveCommit *)

\* applyMemoryCommit: may caller k's commit be applied?  The locks of all three
\* stores are held; every record asks for the fence of the execution store.
MemoryApplies(k) ==
    LET c == RsContents[k]
        run == rsRun["p"]
    IN  /\ RsKept("p") /\ GuardHolds(rsCall[k].epoch)
        /\ c.run \in {"update", "check"} => run.n = rsCall[k].seen.n
        /\ NotDeleting(run)
        /\ c.run # "update" \/ Writes(c) # {"run"} => MemoryWritable("p", "exec")
        /\ c.step = "append" => rsRows["p"].step = 0
        /\ c.step = "update" => rsRows["p"].step > 0
        /\ c.ckpt => ~rsRows["p"].ckpt

\* applyCommit and validateCommitRunWrite of the SQLite store: the run is asked for
\* its fence and its deletion in every mode.
SqliteApplies(k) ==
    LET c == RsContents[k] IN
    /\ RsKept("p") /\ GuardHolds(rsCall[k].epoch)
    /\ c.run \in {"update", "check"} => rsRun["p"].n = rsCall[k].seen.n
    /\ SqliteWritable("p") /\ NotDeleting(rsRun["p"])
    /\ c.step = "append" => rsRows["p"].step = 0
    /\ c.step = "update" => rsRows["p"].step > 0
    /\ c.ckpt => ~rsRows["p"].ckpt

Applies(k) == IF rsBackend = "sqlite" THEN SqliteApplies(k) ELSE MemoryApplies(k)

\* Mutant: the result of the transaction is not stored.
Unrecorded(k) == rsResults

\* store.transactions[...] = result; INSERT INTO transactions
Recorded(k) == (k :> rsCall[k].seen.n) @@ rsResults

CommitApplied(k) ==
    LET c == RsContents[k]
        next == Updated(k, "commit")
    IN  /\ rsRun' = IF c.run = "update" THEN [rsRun EXCEPT !["p"] = next] ELSE rsRun
        /\ rsRows' = [rsRows EXCEPT !["p"] =
               [step |-> CASE c.step = "append" -> 1 [] c.step = "update" -> 2 [] OTHER -> @.step,
                ckpt |-> @.ckpt \/ c.ckpt,
                events |-> IF c.event THEN Append(@.events, k) ELSE @.events]]
        /\ rsResults' = Recorded(k)

\* The answer acknowledges the update of the record.
RsCommitted(k, yes) ==
    IF yes /\ RsContents[k].run = "update" THEN Acknowledge(k, "commit") ELSE UNCHANGED rsAcked

Answer(k, reply) == rsCall' = [rsCall EXCEPT ![k].reply = reply]

\* Commit is called with the revision of the caller's copy, and again with the same
\* transaction while its outcome is unknown.
RsCallCommit(k) ==
    /\ RsMayUpdate(k) \/ rsCall[k].reply = "unknown"
    /\ Answer(k, "calling")
    /\ UNCHANGED <<rsBackend, rsActors, rsRun, rsRows, rsFence, rsResults, rsManifest, rsPage, rsDel, rsAcked, rsLeft>>

\* Mutant: the stored results are not looked up.
NeverStored(k) == FALSE

\* loadTransaction; store.transactions
Stored(k) == k \in DOMAIN rsResults

\* Commit: a stored result with the same fingerprint is the answer.
RsCommitAgain(k) ==
    /\ rsCall[k].reply = "calling" /\ Stored(k)
    /\ Answer(k, IF rsResults[k] = rsCall[k].seen.n THEN "committed" ELSE "not_started")
    /\ RsCommitted(k, rsResults[k] = rsCall[k].seen.n)
    /\ UNCHANGED <<rsBackend, rsActors, rsRun, rsRows, rsFence, rsResults, rsManifest, rsPage, rsDel, rsLeft>>

RsCommitRefused(k) ==
    /\ rsCall[k].reply = "calling" /\ ~Stored(k) /\ ~Applies(k)
    /\ Answer(k, "not_started")
    /\ UNCHANGED <<rsBackend, rsActors, rsRun, rsRows, rsFence, rsResults, rsManifest, rsPage, rsDel, rsAcked, rsLeft>>

RsCommit(k) ==
    /\ rsCall[k].reply = "calling" /\ ~Stored(k) /\ Applies(k)
    /\ CommitApplied(k)
    /\ Answer(k, "committed")
    /\ RsCommitted(k, TRUE)
    /\ UNCHANGED <<rsBackend, rsActors, rsFence, rsManifest, rsPage, rsDel, rsLeft>>

\* tx.Commit of the SQLite store reports an error: the transaction may be there.
RsCommitError(k) ==
    /\ rsBackend = "sqlite" /\ rsLeft.faults > 0
    /\ rsCall[k].reply = "calling" /\ ~Stored(k) /\ Applies(k)
    /\ CommitApplied(k) \/ UNCHANGED <<rsRun, rsRows, rsResults>>
    /\ Answer(k, "unknown")
    /\ rsLeft' = [rsLeft EXCEPT !.faults = @ - 1]
    /\ UNCHANGED <<rsBackend, rsActors, rsFence, rsManifest, rsPage, rsDel, rsAcked>>

\* ResolveCommit, which commitAndResolve calls
RsResolve(k) ==
    /\ rsCall[k].reply = "unknown"
    /\ Answer(k, IF Stored(k) THEN "committed" ELSE "not_started")
    /\ RsCommitted(k, Stored(k))
    /\ UNCHANGED <<rsBackend, rsActors, rsRun, rsRows, rsFence, rsResults, rsManifest, rsPage, rsDel, rsLeft>>

-----------------------------------------------------------------------------
(* ListEventPage *)

RsEvents == rsRows["p"].events


\* PaginateEventsNewestFirst: the cursor counts from the newest event
IndexPage(cursor) ==
    LET end == IF cursor + RsPageLimit < Len(RsEvents) THEN cursor + RsPageLimit ELSE Len(RsEvents)
    IN  [items |-> {RsEvents[Len(RsEvents) - i] : i \in cursor..end - 1},
         next |-> end, more |-> end < Len(RsEvents)]

\* eventFileCursorOffset, readPreviousJSONLine: the cursor is the offset of the oldest
\* event of the page before; an empty cursor is the end of the file
FilePage(offset) ==
    LET start == IF offset > RsPageLimit THEN offset - RsPageLimit ELSE 0
    IN  [items |-> {RsEvents[i] : i \in start + 1..offset}, next |-> start, more |-> start > 0]

PageAt(cursor, first) ==
    IF rsBackend = "file" THEN FilePage(IF first THEN Len(RsEvents) ELSE cursor)
    ELSE IndexPage(IF first THEN 0 ELSE cursor)

\* The run was deleted between two pages: the cursor is beyond the end, or nothing
\* is left.
PageGone == rsPage.at = "more" /\ rsPage.cursor > Len(RsEvents)

RsListEventPage ==
    /\ rsPage.at = "more" \/ (rsPage.at = "idle" /\ RsEvents # <<>>)
    /\ IF PageGone THEN rsPage' = [rsPage EXCEPT !.at = "failed"]
       ELSE LET page == PageAt(rsPage.cursor, rsPage.at = "idle")
            IN  rsPage' = [at |-> IF page.more THEN "more" ELSE "done", cursor |-> page.next,
                           got |-> rsPage.got \cup page.items,
                           need |-> IF rsPage.at = "idle" THEN Range(RsEvents) ELSE rsPage.need]
    /\ UNCHANGED <<rsBackend, rsActors, rsRun, rsRows, rsFence, rsResults, rsManifest, rsCall, rsDel, rsAcked, rsLeft>>

-----------------------------------------------------------------------------
(* The deletion of "p" and its child, as RunDeletionCoordinator calls the stores *)

\* Mutant: the loop over the components ends one early.
LoopEndsEarly(here, next) == IF Len(rsDel.todo) = 2 THEN next ELSE here

\* The loop over the runs of the plan and their components.
LoopEnds(here, next) == IF Len(rsDel.todo) = 1 THEN next ELSE here

DelGoes(pc, todo) == rsDel' = [pc |-> pc, todo |-> todo, read |-> FALSE]

\* The components in the order of uniqueRunDeletionStores: execution comes last.
OnStores(plan) ==
    FlattenSeq([i \in 1..Len(plan) |-> [j \in 1..3 |-> [run |-> plan[i], comp |-> <<"ckpt", "event", "exec">>[j]]]])

\* CompareAndSwapRun under a deletion mutation: the root is reserved.
RsReserve ==
    /\ rsDel.pc = "idle" /\ RsKept("p") /\ NotDeleting(rsRun["p"])
    /\ rsRun' = [rsRun EXCEPT !["p"].n = @ + 1, !["p"].del = "reserved"]
    /\ DelGoes("plan", <<>>)
    /\ UNCHANGED <<rsBackend, rsActors, rsRows, rsFence, rsResults, rsManifest, rsCall, rsPage, rsAcked, rsLeft>>

\* ListRuns with the filter ParentRunID
Children(r) == IF r = "p" /\ RsKept("c") THEN <<"c">> ELSE <<>>

\* Mutant: the children are not reserved.
ChildLeft(run) == run

\* reserveRunDeletion of a descendant
ReservedChild(run) == [run EXCEPT !.n = @ + 1, !.del = "reserved"]

\* collectDescendantRunIDs; the child is reserved before the plan is written.
RsPlanDeletion ==
    /\ rsDel.pc = "plan"
    /\ LET plan == Children("p") \o <<"p">> IN
           /\ rsRun' = [rsRun EXCEPT !["p"].n = @ + 1, !["p"].del = "planned",
                            !["c"] = IF RsKept("c") THEN ReservedChild(@) ELSE @]
           /\ DelGoes("manifest", OnStores(plan))
    /\ UNCHANGED <<rsBackend, rsActors, rsRows, rsFence, rsResults, rsManifest, rsCall, rsPage, rsAcked, rsLeft>>

PlannedRuns == SelectSeq(<<"c", "p">>, LAMBDA r : \E i \in DOMAIN rsDel.todo : rsDel.todo[i].run = r)

\* SaveRunDeletionManifest of a new manifest
RsSaveManifest ==
    /\ rsDel.pc = "manifest"
    /\ rsManifest' = [phase |-> "planned", plan |-> PlannedRuns]
    /\ DelGoes("fence", rsDel.todo)
    /\ UNCHANGED <<rsBackend, rsActors, rsRun, rsRows, rsFence, rsResults, rsCall, rsPage, rsAcked, rsLeft>>

\* Mutant: a SQLite fence is one for the component alone.
FenceSetsOne(comp) == {comp}

\* FenceRunDeletion of MemoryRuntimeStore, and the table of the SQLite store, fence
\* all components at once.
FenceSets(comp) == IF rsBackend \in {"memory", "sqlite"} THEN RsComps ELSE {comp}

\* The file store's execution component wants the reservation.
MayFence(r, comp) == rsBackend = "file" /\ comp = "exec" /\ RsKept(r) => rsRun[r].del # "none"

\* SQLite reads the fence and inserts it in another statement.
RsFenceRead ==
    /\ rsDel.pc = "fence" /\ rsBackend = "sqlite" /\ ~rsDel.read
    /\ rsDel' = IF rsFence[Head(rsDel.todo).run] = {} THEN [rsDel EXCEPT !.read = TRUE]
                ELSE [rsDel EXCEPT !.todo = Tail(@), !.pc = LoopEnds("fence", "unlink")]
    /\ UNCHANGED <<rsBackend, rsActors, rsRun, rsRows, rsFence, rsResults, rsManifest, rsCall, rsPage, rsAcked, rsLeft>>

RsFenceRunDeletion ==
    /\ rsDel.pc = "fence"
    /\ rsBackend = "sqlite" => rsDel.read
    /\ LET t == Head(rsDel.todo) IN
           /\ MayFence(t.run, t.comp)
           /\ rsFence' = [rsFence EXCEPT ![t.run] = @ \cup FenceSets(t.comp)]
    /\ DelGoes(LoopEnds("fence", "unlink"), Tail(rsDel.todo))
    /\ UNCHANGED <<rsBackend, rsActors, rsRun, rsRows, rsResults, rsManifest, rsCall, rsPage, rsAcked, rsLeft>>

\* advanceRunDeletionPhase, then updateRunDeletionManifest
RsUnlink ==
    /\ rsDel.pc = "unlink"
    /\ rsRun' = [rsRun EXCEPT !["p"].n = @ + 1, !["p"].del = "unlinked"]
    /\ DelGoes("update", <<>>)
    /\ UNCHANGED <<rsBackend, rsActors, rsRows, rsFence, rsResults, rsManifest, rsCall, rsPage, rsAcked, rsLeft>>

\* validateManifestUpdate of the file store; the memory and SQLite stores do not look
\* at the phase
ManifestMoves(next) ==
    rsBackend = "file" =>
        CASE rsManifest.phase = "planned"  -> next \in {"planned", "unlinked", "deleted"}
          [] rsManifest.phase = "unlinked" -> next \in {"unlinked", "deleted"}
          [] OTHER -> next = rsManifest.phase

RsUpdateManifest ==
    /\ rsDel.pc = "update" /\ ManifestMoves("unlinked")
    /\ rsManifest' = [rsManifest EXCEPT !.phase = "unlinked"]
    /\ DelGoes("delete", OnStores(rsManifest.plan))
    /\ UNCHANGED <<rsBackend, rsActors, rsRun, rsRows, rsFence, rsResults, rsCall, rsPage, rsAcked, rsLeft>>

\* validateMemoryRunFenceDeletion, requireRunDeletionLocked, deleteRunComponent: only
\* behind the fence.
MayErase(r, comp) == comp \in rsFence[r]

RsDeleteRead ==
    /\ rsDel.pc = "delete" /\ rsBackend = "sqlite" /\ ~rsDel.read
    /\ MayErase(Head(rsDel.todo).run, Head(rsDel.todo).comp)
    /\ rsDel' = [rsDel EXCEPT !.read = TRUE]
    /\ UNCHANGED <<rsBackend, rsActors, rsRun, rsRows, rsFence, rsResults, rsManifest, rsCall, rsPage, rsAcked, rsLeft>>

\* DeleteRun of MemoryRuntimeStore erases everything, so does DELETE FROM runs with its
\* foreign keys; the others erase their component.
Erased(r, comp) ==
    LET all == rsBackend = "memory" \/ (rsBackend = "sqlite" /\ comp = "exec")
        rows == rsRows[r]
    IN  /\ rsRun' = IF all \/ comp = "exec" THEN [rsRun EXCEPT ![r] = Unread] ELSE rsRun
        /\ rsRows' = [rsRows EXCEPT ![r] =
               [step |-> IF all \/ comp = "exec" THEN 0 ELSE rows.step,
                ckpt |-> rows.ckpt /\ ~all /\ comp # "ckpt",
                events |-> IF all \/ comp = "event" THEN <<>> ELSE rows.events]]

RsDeleteRun ==
    /\ rsDel.pc = "delete"
    /\ rsBackend = "sqlite" => rsDel.read
    /\ LET t == Head(rsDel.todo) IN MayErase(t.run, t.comp) /\ Erased(t.run, t.comp)
    /\ DelGoes(LoopEnds("delete", "finish"), Tail(rsDel.todo))
    /\ UNCHANGED <<rsBackend, rsActors, rsFence, rsResults, rsManifest, rsCall, rsPage, rsAcked, rsLeft>>

RsDeletionDone ==
    /\ rsDel.pc = "finish" /\ ManifestMoves("deleted")
    /\ rsManifest' = [rsManifest EXCEPT !.phase = "deleted"]
    /\ DelGoes("done", <<>>)
    /\ UNCHANGED <<rsBackend, rsActors, rsRun, rsRows, rsFence, rsResults, rsCall, rsPage, rsAcked, rsLeft>>

\* The process ends; the callers are gone with it.  The next one resumes the deletion
\* where the manifest, or the reservation, says (ReconcileRunDeletions).
RsCrash ==
    /\ rsBackend \in {"sqlite", "file"} /\ rsLeft.crashes > 0
    /\ rsDel.pc \notin {"idle", "done"}
    /\ rsLeft' = [rsLeft EXCEPT !.crashes = @ - 1]
    /\ rsCall' = [k \in RsCallers |-> [NoCall EXCEPT !.reply = IF rsCall[k].reply = "none" THEN "none" ELSE "lost"]]
    /\ rsPage' = NoPage
    /\ CASE rsManifest.phase = "none"     -> DelGoes("plan", <<>>)
         [] rsManifest.phase = "planned"  -> DelGoes("fence", OnStores(rsManifest.plan))
         [] rsManifest.phase = "unlinked" -> DelGoes("delete", OnStores(rsManifest.plan))
         [] OTHER -> DelGoes("done", <<>>)
    /\ UNCHANGED <<rsBackend, rsActors, rsRun, rsRows, rsFence, rsResults, rsManifest, rsAcked>>

-----------------------------------------------------------------------------

RsDeletes ==
    \/ RsPlanDeletion \/ RsSaveManifest \/ RsFenceRead \/ RsFenceRunDeletion \/ RsUnlink
    \/ RsUpdateManifest \/ RsDeleteRead \/ RsDeleteRun \/ RsDeletionDone

RsCalls(k) == RsCommitAgain(k) \/ RsCommitRefused(k) \/ RsCommit(k) \/ RsResolve(k)

RsNext ==
    \/ RsCreateRun("p")
    \/ /\ "writers" \in rsActors
       /\ \/ RsCreateRun("c")
          \/ \E r \in RsWrites.step : RsAppendStep(r) \/ RsUpdateStep(r)
          \/ \E r \in RsWrites.ckpt : RsSave(r)
          \/ \E r \in RsWrites.event : RsPublish(r)
    \/ "callers" \in rsActors /\ \E k \in RsCallers : RsGetRun(k) \/ RsSwap(k) \/ RsAcquire(k) \/ RsCallCommit(k) \/ RsCalls(k) \/ RsCommitError(k)
    \/ "reader" \in rsActors /\ RsListEventPage
    \/ "deletion" \in rsActors /\ RsReserve
    \/ RsDeletes \/ RsCrash

-----------------------------------------------------------------------------
(* Properties *)

\* The variables have their types.
RsTypeOK ==
    /\ rsBackend \in RsBackends
    /\ \A r \in RsRuns :
           /\ rsRun[r].n \in Nat /\ rsRun[r].del \in {"none", "reserved", "planned", "unlinked"}
           /\ rsRun[r].lease \in 0..RsEpochBound
           /\ rsRows[r].step \in 0..2 /\ rsRows[r].ckpt \in BOOLEAN
           /\ rsFence[r] \subseteq RsComps
    /\ DOMAIN rsResults \subseteq RsCallers
    /\ rsManifest.phase \in {"none", "planned", "unlinked", "deleted"}
    /\ \A k \in RsCallers : rsCall[k].reply \in {"none", "calling", "unknown", "committed", "not_started", "lost"}
    /\ rsPage.at \in {"idle", "more", "done", "failed"}
    /\ rsDel.pc \in {"idle", "plan", "manifest", "fence", "unlink", "update", "delete", "finish", "done"}

\* An update of a run that a store has acknowledged (CompareAndSwapRun, Commit) is in
\* the record as long as there is one, whoever else writes it in between.
NoUpdateIsLost ==
    RsKept("p") => \A e \in rsAcked : \E i \in DOMAIN rsRun["p"].log :
                       rsRun["p"].log[i].by = e.by /\ rsRun["p"].log[i].how = e.how

\* The executor whose lease was taken over no longer writes the run: the epochs of
\* the updates of a record never go down (validateExecutionLeaseGuard).
EpochsNeverGoDown ==
    \A i, j \in DOMAIN rsRun["p"].log : i < j => rsRun["p"].log[i].epoch <= rsRun["p"].log[j].epoch

\* Every backend does what AtomicStore promises for the records of "p".
RsAtomic == INSTANCE AtomicStore WITH
    Txn <- RsCallers, Commits <- RsContents,
    image <- [meta |-> rsRows["p"].ckpt, payload |-> rsRows["p"].ckpt, events |-> rsRows["p"].events,
              run |-> [n |-> rsRun["p"].n, del |-> rsRun["p"].del # "none"], step |-> rsRows["p"].step],
    done <- DOMAIN rsResults

RsCommitsAreAtomic == RsAtomic!Spec

\* The answer to a commit is the truth: a committed transaction has a stored result
\* and a refused one has none (Commit, ResolveCommit, commitAndResolve).
RsOutcomeIsTrue ==
    \A k \in RsCallers :
        /\ rsCall[k].reply = "committed" => k \in DOMAIN rsResults
        /\ rsCall[k].reply = "not_started" => k \notin DOMAIN rsResults

\* A run that was deleted is gone from every component, and nobody brings a part of
\* it back (FenceRunDeletion before DeleteRun).
DeletedRunStaysGone ==
    rsDel.pc \in {"finish", "done"} =>
        \A r \in Range(rsManifest.plan) : ~RsKept(r) /\ rsRows[r] = NoRows

\* The plan of a deletion holds every child of the run: none is created once the plan
\* was made (validateNewRunParent), and no child outlives its parent.
NoChildEscapesDeletion ==
    /\ rsManifest.phase # "none" /\ RsKept("c") => "c" \in Range(rsManifest.plan)
    /\ RsKept("c") => RsKept("p")

\* ValidateRunDeletionFences accepts the store whenever a process may open it: behind
\* every fence there is the run it reserves or the manifest that lists it, and the root
\* of a planned manifest is there.
FencesScan ==
    /\ rsBackend = "sqlite" => \A r \in RsRuns : rsFence[r] # {} /\ rsManifest.phase = "none" => RsKept(r)
    /\ rsBackend = "file" =>
          /\ rsManifest.phase = "planned" => RsKept("p") /\ rsRun["p"].del # "none"
          /\ \A r \in RsRuns : rsFence[r] # {} =>
                 IF RsKept(r) THEN rsRun[r].del # "none" ELSE r \in Range(rsManifest.plan)


\* A deletion that was begun is never stuck: until it is done, one of its calls is
\* accepted by the store, whatever the executors of the runs still do and wherever a
\* crash made it begin again.  Each call takes it further.
DeletionGoesOn == rsDel.pc \in {"idle", "done"} \/ ENABLED RsDeletes

\* The record of a run is the history of its accepted updates: none is lost, none comes
\* from an executor that had lost its lease, and callers are told which were accepted.
UpdatesAreKept ==
    NoUpdateIsLost /\ EpochsNeverGoDown /\ RsOutcomeIsTrue

\* A deletion takes the whole tree of a run for good, and what it leaves in between is
\* a store that can be opened (PlanRunDeletion, FenceRunDeletion, DeleteRun).
DeletionIsComplete ==
    DeletedRunStaysGone /\ NoChildEscapesDeletion /\ FencesScan
=============================================================================

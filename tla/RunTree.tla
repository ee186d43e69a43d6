------------------------------- MODULE RunTree -------------------------------
(***************************************************************************)
(* A run and its child (runtime/graph_runner.go: RunChild;                 *)
(* runtime/run_control.go: CancelPausedRun; runtime/run_deletion.go).      *)
(*                                                                         *)
(* The parent "p" executes one node that runs the child "c".  The parent's *)
(* record reserves the child before it is created and links it after.      *)
(* Users pause, resume and cancel the parent, resume the child by itself,  *)
(* and delete either run; the server crashes and, before it serves again,  *)
(* reconciles every unfinished deletion.                                   *)
(*                                                                         *)
(* A compare-and-swap loop on one record is one step; where it also read   *)
(* another record, the reads are a step of their own and the swap fails    *)
(* when the record was written since (the stale flags).                    *)
(***************************************************************************)
EXTENDS Integers, FiniteSets, SequencesExt

CONSTANTS
    TrResumeBound,  \* bound: resumptions of the parent or the child
    TrControlBound, \* bound: pause and cancel requests
    TrDeleteBound,  \* bound: deletions that users ask for
    TrFaultBound,   \* bound: store operations that fail
    TrCrashBound    \* bound: crashes of the server

VARIABLES
    trRun,      \* [{"p", "c"} -> [status, root, phase, plan]]: the run records; the
                \* deletion they are reserved for, named after its root run
    trLink,     \* the parent's child: "none", "pending" (reserved), "linked"
    trStore,    \* [data, fence, manifest]: other stores, fences and manifests
    trExec,     \* [pc, canceled, want, ask, reg, gone]: the node of the parent's
                \* execution; gone, when its attempt was abandoned
    trCancel,   \* [pc, stale, child, seen]: a CancelPausedRun of the parent, whether
                \* it has to visit the child, and has
    trDel,      \* [{"p", "c"} -> [pc, stale, phase, plan]]: a deletion of each run
    trSrv,      \* [up, direct, order]: the server serves, the child executes by
                \* itself, the order of the deletion ids
    trHist,     \* [created]: how often the child was created
    trLeft      \* what the bounds leave

trVars == <<trRun, trLink, trStore, trExec, trCancel, trDel, trSrv, trHist, trLeft>>

TrRuns == {"p", "c"}
RunActive(r) == trRun[r].status = "running"
Terminal(r) == trRun[r].status \in {"completed", "failed", "canceled"}
Exists(r) == trRun[r].status # "absent"
Reserved(r) == trRun[r].root # "none"
ParentExecutes == trExec.pc # "idle" /\ ~trExec.gone

\* Mutant: the stores accept writes to a reserved run.
AlwaysWritable(r) == TRUE

\* validateRunDeletionTransition
Writable(r) == ~Reserved(r)

NoExec == [pc |-> "idle", canceled |-> FALSE, want |-> "none", ask |-> "none", reg |-> FALSE, gone |-> FALSE]
NoDeletion == [pc |-> "idle", stale |-> FALSE, phase |-> "none", plan |-> <<>>]
NoCancel == [pc |-> "idle", stale |-> FALSE, child |-> FALSE, seen |-> FALSE]
NoManifest == [phase |-> "none", plan |-> <<>>]

TrInit ==
    /\ trRun = [r \in TrRuns |-> [status |-> IF r = "p" THEN "running" ELSE "absent",
                                  root |-> "none", phase |-> "none", plan |-> <<>>]]
    /\ trLink = "none"
    /\ trStore = [data |-> {"p"}, fence |-> {}, manifest |-> [r \in TrRuns |-> NoManifest]]
    /\ trExec = [NoExec EXCEPT !.pc = "node"]
    /\ trCancel = NoCancel
    /\ trDel = [r \in TrRuns |-> NoDeletion]
    /\ \E order \in {<<"p", "c">>, <<"c", "p">>} : trSrv = [up |-> TRUE, direct |-> FALSE, order |-> order]
    /\ trHist = [created |-> 0]
    /\ trLeft = [resumes |-> TrResumeBound, controls |-> TrControlBound, deletes |-> TrDeleteBound,
                  faults |-> TrFaultBound, crashes |-> TrCrashBound]

\* what an actor read is stale; one that is idle has read nothing
Stale(a) == [a EXCEPT !.stale = a.pc # "idle"]

\* The record of run r was written.
Written(r) ==
    /\ trCancel' = IF r = "p" THEN Stale(trCancel) ELSE trCancel
    /\ trDel' = [trDel EXCEPT ![r] = Stale(@)]
NotWritten == UNCHANGED <<trCancel, trDel>>

-----------------------------------------------------------------------------
(* RunChild, in the node of the parent's execution *)

ExecAt(pc) == trExec' = [trExec EXCEPT !.pc = pc]
\* The node returns: completed, paused (NodeInterrupt) or an error.
NodeResult(res) == trExec' = [trExec EXCEPT !.pc = res, !.reg = FALSE]

\* A store call under a canceled context may fail.
RunChildFails ==
    /\ trExec.pc \in {"node", "find", "reserve", "create", "finalize", "register"} /\ trExec.canceled
    /\ NodeResult("err")
    /\ NotWritten /\ UNCHANGED <<trRun, trLink, trStore, trSrv, trHist, trLeft>>

ReadParent ==
    /\ trExec.pc = "node"
    /\ IF trRun["p"].status \in {"running", "paused"} THEN ExecAt("find") ELSE NodeResult("err")
    /\ NotWritten /\ UNCHANGED <<trRun, trLink, trStore, trSrv, trHist, trLeft>>

FindChildRun ==
    /\ trExec.pc = "find"
    /\ ExecAt(IF Exists("c") THEN "finalize" ELSE "reserve")
    /\ NotWritten /\ UNCHANGED <<trRun, trLink, trStore, trSrv, trHist, trLeft>>

\* Mutant: any parent may reserve a child.
AnyParent == TRUE

\* reservePendingChildRun: the parent is active and not being deleted
MayReserveChild == RunActive("p") /\ ~Reserved("p")

\* reservePendingChildRun: a reservation or a link is reused
ReservedLink(link) == IF link = "none" THEN "pending" ELSE link

ReserveChildRun ==
    /\ trExec.pc = "reserve"
    /\ IF MayReserveChild
       THEN /\ trLink' = ReservedLink(trLink)
            /\ ExecAt("create")
            /\ IF trLink' # trLink THEN Written("p") ELSE NotWritten
       ELSE NodeResult("err") /\ NotWritten /\ UNCHANGED trLink
    /\ UNCHANGED <<trRun, trStore, trSrv, trHist, trLeft>>

\* Mutant: the fence of a deleted child is not asked.
MayRecreateChild == Exists("p") /\ ~Reserved("p") /\ trLink = "pending" /\ ~Exists("c")

\* validateNewRunParent, and the fences of a deleted run
MayCreateChild == Exists("p") /\ ~Reserved("p") /\ trLink = "pending" /\ "c" \notin trStore.fence /\ ~Exists("c")

StartChildRun ==
    /\ trExec.pc = "create"
    /\ IF MayCreateChild
       THEN /\ trRun' = [trRun EXCEPT !["c"].status = "running"]
            /\ trStore' = [trStore EXCEPT !.data = @ \cup {"c"}]
            /\ trHist' = [created |-> trHist.created + 1]
            /\ ExecAt("finalize")
            /\ Written("c")
       ELSE NodeResult("err") /\ NotWritten /\ UNCHANGED <<trRun, trStore, trHist>>
    /\ UNCHANGED <<trLink, trSrv, trLeft>>

FinalizeChildRun ==
    /\ trExec.pc = "finalize"
    /\ IF trLink = "none" \/ (trLink = "pending" /\ Reserved("p")) THEN NodeResult("err") /\ NotWritten /\ UNCHANGED trLink
       ELSE /\ trLink' = "linked"
            /\ ExecAt("register")
            /\ IF trLink = "pending" THEN Written("p") ELSE NotWritten
    /\ UNCHANGED <<trRun, trStore, trSrv, trHist, trLeft>>

\* continueChildRun
ContinueChildRun ==
    /\ trExec.pc = "register"
    /\ CASE trRun["c"].status = "completed" -> NodeResult("completed") /\ NotWritten /\ UNCHANGED trRun
         [] trRun["c"].status \in {"absent", "failed", "canceled"} \/ Reserved("c") \/ trSrv.direct ->
                NodeResult("err") /\ NotWritten /\ UNCHANGED trRun
         [] OTHER -> /\ trRun' = [trRun EXCEPT !["c"].status = "running"]
                     /\ trExec' = [trExec EXCEPT !.pc = "child", !.reg = TRUE]
                     /\ Written("c")
    /\ UNCHANGED <<trLink, trStore, trSrv, trHist, trLeft>>

\* The child ends.  A canceled context interrupts it: it takes the request it
\* was sent, and fails if it has none.
ChildReturns ==
    /\ trExec.pc = "child"
    /\ \E s \in {"completed", "failed", "paused", "canceled"} :
         /\ s = "paused" /\ trExec.canceled => trExec.ask = "pause"
         /\ s = "canceled" => trExec.ask = "cancel"
         /\ trRun' = [trRun EXCEPT !["c"].status = s]
         /\ NodeResult(IF s \in {"completed", "paused"} THEN s ELSE "err")
    /\ Written("c")
    /\ UNCHANGED <<trLink, trStore, trSrv, trHist, trLeft>>

\* The attempt times out: the parent fails, and RunChild goes on.
AbandonNode ==
    /\ ParentExecutes /\ trExec.pc \notin {"completed", "paused", "err"} /\ trLeft.faults > 0
    /\ trExec' = [trExec EXCEPT !.gone = TRUE, !.canceled = TRUE]
    /\ trRun' = [trRun EXCEPT !["p"].status = IF trExec.want = "cancel" THEN "canceled" ELSE "failed"]
    /\ trLeft' = [trLeft EXCEPT !.faults = @ - 1]
    /\ Written("p")
    /\ UNCHANGED <<trLink, trStore, trSrv, trHist>>

\* The parent's execution ends with its node: execute, resolvePendingControl
ParentEnds ==
    /\ trExec.pc \in {"completed", "paused", "err"}
    /\ IF trExec.gone THEN UNCHANGED trRun /\ NotWritten ELSE Written("p") /\ trRun' = [trRun EXCEPT !["p"].status =
          CASE trExec.want = "cancel" -> "canceled"
            [] trExec.want = "pause" -> "paused"
            [] trExec.pc = "err" -> "failed"
            [] OTHER -> trExec.pc]
    /\ trExec' = NoExec
    /\ UNCHANGED <<trLink, trStore, trSrv, trHist, trLeft>>

-----------------------------------------------------------------------------
(* Users *)

\* requestPause, requestCancel: the registered child is asked too, then the
\* context ends; a pause reaches only a child with a single active step.
Control(kind) ==
    /\ trSrv.up /\ trLeft.controls > 0
    /\ ParentExecutes /\ trExec.want # "cancel" /\ trExec.want # kind
    /\ \E single \in BOOLEAN :
         trExec' = [trExec EXCEPT !.want = kind, !.canceled = TRUE,
                        !.ask = IF trExec.reg /\ (single \/ kind = "cancel") THEN kind ELSE @]
    /\ trLeft' = [trLeft EXCEPT !.controls = @ - 1]
    /\ NotWritten /\ UNCHANGED <<trRun, trLink, trStore, trSrv, trHist>>

\* Resume of a parent that is paused, over or lost its execution
ResumeParent ==
    /\ trSrv.up /\ trLeft.resumes > 0 /\ trExec.pc = "idle"
    /\ Exists("p") /\ Writable("p")
    /\ trRun' = [trRun EXCEPT !["p"].status = "running"]
    /\ trExec' = [NoExec EXCEPT !.pc = "node"]
    /\ trLeft' = [trLeft EXCEPT !.resumes = @ - 1]
    /\ Written("p")
    /\ UNCHANGED <<trLink, trStore, trSrv, trHist>>

ChildHasExecutor == trExec.pc \in {"finalize", "register", "child"} \/ trSrv.direct

\* The child is resumed by itself.
ResumeChild ==
    /\ trSrv.up /\ trLeft.resumes > 0 /\ ~ChildHasExecutor
    /\ trRun["c"].status = "paused" /\ Writable("c")
    /\ trRun' = [trRun EXCEPT !["c"].status = "running"]
    /\ trSrv' = [trSrv EXCEPT !.direct = TRUE]
    /\ trLeft' = [trLeft EXCEPT !.resumes = @ - 1]
    /\ Written("c")
    /\ UNCHANGED <<trLink, trStore, trExec, trHist>>

DirectChildReturns ==
    /\ trSrv.direct
    /\ \E s \in {"completed", "failed", "paused"} : trRun' = [trRun EXCEPT !["c"].status = s]
    /\ trSrv' = [trSrv EXCEPT !.direct = FALSE]
    /\ Written("c")
    /\ UNCHANGED <<trLink, trStore, trExec, trHist, trLeft>>

\* MarkRunExecutionLost
MarkLost(r) ==
    /\ trSrv.up /\ RunActive(r)
    /\ IF r = "p" THEN ~ParentExecutes ELSE ~ChildHasExecutor
    /\ trRun' = [trRun EXCEPT ![r].status = "failed"]
    /\ Written(r)
    /\ UNCHANGED <<trLink, trStore, trExec, trSrv, trHist, trLeft>>

\* cancelPausedRun reads the parent ...
CancelReads ==
    /\ trSrv.up /\ trCancel.pc = "idle" /\ trLeft.controls > 0
    /\ trRun["p"].status = "paused"
    /\ trCancel' = [pc |-> "child", stale |-> FALSE, child |-> trLink = "linked", seen |-> FALSE]
    /\ trLeft' = [trLeft EXCEPT !.controls = @ - 1]
    /\ UNCHANGED <<trRun, trLink, trStore, trExec, trDel, trSrv, trHist>>

\* Mutant: a child that runs is passed over.
SkipsRunning(s) == s \in {"completed", "failed", "canceled", "running"}

\* a child that is over needs nothing
NothingToCancel(s) == s \in {"completed", "failed", "canceled"}

\* ... cancels its linked child ...
CancelChild ==
    /\ trCancel.pc = "child"
    /\ IF ~trCancel.child
       THEN trCancel' = [trCancel EXCEPT !.pc = "parent"] /\ UNCHANGED <<trRun, trDel>>
       ELSE IF NothingToCancel(trRun["c"].status)
       THEN trCancel' = [trCancel EXCEPT !.pc = "parent", !.seen = TRUE] /\ UNCHANGED <<trRun, trDel>>
       ELSE IF trRun["c"].status = "paused" /\ Writable("c")
       THEN /\ trRun' = [trRun EXCEPT !["c"].status = "canceled"]
            /\ trCancel' = [trCancel EXCEPT !.pc = "parent", !.seen = TRUE]
            /\ trDel' = [trDel EXCEPT !["c"] = Stale(@)]
       ELSE trCancel' = NoCancel /\ UNCHANGED <<trRun, trDel>>
    /\ UNCHANGED <<trLink, trStore, trExec, trSrv, trHist, trLeft>>

\* ... and then the parent, if it is as it was read; after a conflict it
\* starts over, and visits no child twice.
CancelParent ==
    /\ trCancel.pc = "parent"
    /\ IF trCancel.stale
       THEN /\ trCancel' = IF trRun["p"].status = "absent" THEN NoCancel
                           ELSE [pc |-> "child", stale |-> FALSE, seen |-> trCancel.seen,
                                 child |-> trLink = "linked" /\ ~trCancel.seen]
            /\ UNCHANGED <<trRun, trDel>>
       ELSE /\ trCancel' = NoCancel
            /\ IF trRun["p"].status = "paused" /\ Writable("p")
               THEN /\ trRun' = [trRun EXCEPT !["p"].status = "canceled"]
                    /\ trDel' = [trDel EXCEPT !["p"] = Stale(@)]
               ELSE UNCHANGED <<trRun, trDel>>
    /\ UNCHANGED <<trLink, trStore, trExec, trSrv, trHist, trLeft>>

-----------------------------------------------------------------------------
(* RunDeletionCoordinator *)

DelAt(r, pc) == trDel' = [trDel EXCEPT ![r].pc = pc]
\* The deletion returns an error; what it wrote stays.
DelFails(r) == trDel' = [trDel EXCEPT ![r] = NoDeletion]

DeleteRun(r) ==
    /\ trSrv.up /\ trDel[r].pc = "idle" /\ Exists(r) /\ ~RunActive(r)
    /\ r = "p" => ~ParentExecutes
    /\ trLeft.deletes > 0 /\ trLeft' = [trLeft EXCEPT !.deletes = @ - 1]
    /\ DelAt(r, "prepare")
    /\ UNCHANGED <<trRun, trLink, trStore, trExec, trCancel, trSrv, trHist>>

\* A store call fails.
DelFault(r) ==
    /\ trDel[r].pc # "idle" /\ trLeft.faults > 0
    /\ DelFails(r)
    /\ trLeft' = [trLeft EXCEPT !.faults = @ - 1]
    /\ UNCHANGED <<trRun, trLink, trStore, trExec, trCancel, trSrv, trHist>>

\* validateRequestedRunDeletionParent
ParentAllows(r) ==
    r = "c" =>
        /\ Exists("p") /\ Terminal("p")
        /\ trLink # "none" \/ Reserved("c")
        /\ Reserved("p") => Reserved("c") /\ trRun["p"].phase = "reserved"

\* prepareRunDeletion reads the run and its parent.
DelPrepare(r) ==
    /\ trDel[r].pc = "prepare"
    /\ IF \/ ~Exists(r) \/ RunActive(r) \/ trRun[r].root \notin {"none", r}
          \/ (trRun[r].phase # "unlinked" /\ ~ParentAllows(r))
       THEN DelFails(r)
       ELSE trDel' = [trDel EXCEPT ![r] =
                [pc |-> IF ~Reserved(r) THEN "reserve" ELSE IF trRun[r].plan = <<>> THEN "collect" ELSE "manifest",
                 stale |-> FALSE, phase |-> trRun[r].phase, plan |-> trRun[r].plan]]
    /\ UNCHANGED <<trRun, trLink, trStore, trExec, trCancel, trSrv, trHist, trLeft>>

\* The reservation succeeds if the run is as it was read.
DelReserve(r) ==
    /\ trDel[r].pc = "reserve"
    /\ IF trDel[r].stale THEN DelAt(r, "prepare") /\ UNCHANGED <<trRun, trCancel>>
       ELSE /\ trRun' = [trRun EXCEPT ![r].root = r, ![r].phase = "reserved"]
            /\ trDel' = [trDel EXCEPT ![r].pc = "collect", ![r].phase = "reserved"]
            /\ trCancel' = IF r = "p" THEN Stale(trCancel) ELSE trCancel
    /\ UNCHANGED <<trLink, trStore, trExec, trSrv, trHist, trLeft>>

\* Mutant: only finalised children are collected.
LinkedOnly(link) == link = "linked"

\* the children of a run are its links and its reservations
HasChild(link) == link # "none"

\* collectDescendantRunIDs: the run ...
DelCollect(r) ==
    /\ trDel[r].pc = "collect"
    /\ trDel' = [trDel EXCEPT ![r] =
          IF r = "p" /\ HasChild(trLink) THEN [@ EXCEPT !.pc = "visit", !.stale = FALSE, !.plan = <<"c", "p">>]
          ELSE [@ EXCEPT !.pc = "recheck", !.stale = FALSE, !.plan = <<r>>]]
    /\ UNCHANGED <<trRun, trLink, trStore, trExec, trCancel, trSrv, trHist, trLeft>>

\* ... its child, which is reserved too; one that was never created counts ...
DelVisit(r) ==
    /\ trDel[r].pc = "visit"
    /\ IF ~Exists("c") THEN DelAt(r, "recheck") /\ UNCHANGED trRun
       ELSE IF RunActive("c") \/ trRun["c"].root = "c" THEN DelFails(r) /\ UNCHANGED trRun
       ELSE /\ trRun' = [trRun EXCEPT !["c"].root = r, !["c"].phase = "reserved"]
            /\ trDel' = [d \in TrRuns |-> IF d = "c" THEN Stale(trDel[d])
                                          ELSE [trDel[d] EXCEPT !.pc = "recheck"]]
    /\ UNCHANGED <<trLink, trStore, trExec, trCancel, trSrv, trHist, trLeft>>

\* ... and again the run: if it changed, everything is collected again.
DelRecheck(r) ==
    /\ trDel[r].pc = "recheck"
    /\ DelAt(r, IF trDel[r].stale THEN "collect" ELSE "plan")
    /\ UNCHANGED <<trRun, trLink, trStore, trExec, trCancel, trSrv, trHist, trLeft>>

\* persistRunDeletionPlan
DelPlan(r) ==
    /\ trDel[r].pc = "plan"
    /\ trRun' = [trRun EXCEPT ![r].phase = "planned", ![r].plan = trDel[r].plan]
    /\ trDel' = [trDel EXCEPT ![r].pc = "manifest", ![r].phase = "planned"]
    /\ UNCHANGED <<trLink, trStore, trExec, trCancel, trSrv, trHist, trLeft>>

\* ensureRunDeletionManifest
DelManifest(r) ==
    /\ trDel[r].pc = "manifest"
    /\ DelAt(r, "fence")
    /\ trStore' = IF trStore.manifest[r].phase = "none"
                  THEN [trStore EXCEPT !.manifest[r] = [phase |-> trDel[r].phase, plan |-> trDel[r].plan]]
                  ELSE trStore
    /\ UNCHANGED <<trRun, trLink, trExec, trCancel, trSrv, trHist, trLeft>>

\* reconcileRunDeletion: validateRunDeletionPlanRecords, then the fences
DelFence(r) ==
    /\ trDel[r].pc = "fence"
    /\ IF \E q \in ToSet(trDel[r].plan) : ~Exists(q) /\ trDel[r].phase # "unlinked"
       THEN DelFails(r) /\ UNCHANGED trStore
       ELSE /\ DelAt(r, IF trDel[r].phase = "unlinked" THEN "evidence" ELSE "unlink")
            /\ trStore' = [trStore EXCEPT !.fence = @ \cup ToSet(trDel[r].plan)]
    /\ UNCHANGED <<trRun, trLink, trExec, trCancel, trSrv, trHist, trLeft>>

\* Mutant: the parent keeps the link.
KeepsLink(link) == link

Unlinked(link) == "none"

\* unlinkRunDeletionRoot
DelUnlink(r) ==
    /\ trDel[r].pc = "unlink"
    /\ IF r = "p" THEN DelAt(r, "advance") /\ UNCHANGED <<trLink, trCancel>>
       ELSE IF ~Exists("p") \/ ~Terminal("p") \/ trRun["p"].phase \in {"planned", "unlinked"}
       THEN DelFails(r) /\ UNCHANGED <<trLink, trCancel>>
       ELSE /\ trLink' = Unlinked(trLink)
            /\ trDel' = [d \in TrRuns |-> IF d = r THEN [trDel[d] EXCEPT !.pc = "advance"]
                                          ELSE IF trLink # "none" THEN Stale(trDel[d]) ELSE trDel[d]]
            /\ trCancel' = IF trLink # "none" THEN Stale(trCancel) ELSE trCancel
    /\ UNCHANGED <<trRun, trStore, trExec, trSrv, trHist, trLeft>>

\* advanceRunDeletionPhase on the root, then the manifest
DelAdvance(r) ==
    /\ trDel[r].pc = "advance"
    /\ trRun' = [trRun EXCEPT ![r].phase = "unlinked"]
    /\ trDel' = [trDel EXCEPT ![r].pc = "update", ![r].phase = "unlinked"]
    /\ UNCHANGED <<trLink, trStore, trExec, trCancel, trSrv, trHist, trLeft>>

UpdateManifest(r) ==
    /\ trDel[r].pc = "update"
    /\ trStore' = [trStore EXCEPT !.manifest[r].phase = "unlinked"]
    /\ DelAt(r, "evidence")
    /\ UNCHANGED <<trRun, trLink, trExec, trCancel, trSrv, trHist, trLeft>>

\* Mutant: the root is deleted first.
RootFirst(plan) == Last(plan)

\* the next run of the plan
NextDeleted(plan) == Head(plan)

\* Mutant: only the evidence of the root goes.
RootEvidence(data, q) == data \ {"p"}

WithoutEvidence(data, q) == data \ {q}

\* A run of the plan leaves the checkpoints, artifacts and events ...
DeleteEvidence(r) ==
    /\ trDel[r].pc = "evidence"
    /\ IF trDel[r].plan = <<>> THEN DelAt(r, "mark") /\ UNCHANGED trStore
       ELSE /\ trStore' = [trStore EXCEPT !.data = WithoutEvidence(@, NextDeleted(trDel[r].plan))]
            /\ DelAt(r, "record")
    /\ UNCHANGED <<trRun, trLink, trExec, trCancel, trSrv, trHist, trLeft>>

\* ... and then the execution store.
DeleteRecord(r) ==
    LET q == NextDeleted(trDel[r].plan)
    IN  /\ trDel[r].pc = "record"
        /\ trRun' = [trRun EXCEPT ![q] = [status |-> "absent", root |-> "none", phase |-> "none", plan |-> <<>>]]
        /\ trLink' = IF q = "p" THEN "none" ELSE trLink
        /\ trDel' = [d \in TrRuns |-> IF d = r THEN [trDel[d] EXCEPT !.pc = "evidence", !.plan = Remove(@, q)]
                                      ELSE Stale(trDel[d])]
        /\ trCancel' = Stale(trCancel)
        /\ UNCHANGED <<trStore, trExec, trSrv, trHist, trLeft>>

MarkDeleted(r) ==
    /\ trDel[r].pc = "mark"
    /\ trStore' = [trStore EXCEPT !.manifest[r].phase = "deleted"]
    /\ DelFails(r)
    /\ UNCHANGED <<trRun, trLink, trExec, trCancel, trSrv, trHist, trLeft>>

-----------------------------------------------------------------------------
(* Crash and start *)

TrCrash ==
    /\ trLeft.crashes > 0 /\ trSrv.up
    /\ trLeft' = [trLeft EXCEPT !.crashes = @ - 1]
    /\ trExec' = NoExec /\ trCancel' = NoCancel /\ trDel' = [r \in TrRuns |-> NoDeletion]
    /\ trSrv' = [trSrv EXCEPT !.up = FALSE, !.direct = FALSE]
    /\ UNCHANGED <<trRun, trLink, trStore, trHist>>

OpenManifest(r) == trStore.manifest[r].phase \in {"planned", "unlinked"}
\* reserved, and no manifest
OpenReservation(r) == trRun[r].root = r /\ trStore.manifest[r].phase = "none"
FirstOf(runs) == CHOOSE r \in runs : trSrv.order[1] \in runs => r = trSrv.order[1]

\* ReconcileRunDeletions continues one deletion after the other, first the
\* manifests; the server serves when none is left.
Start ==
    /\ ~trSrv.up /\ \A r \in TrRuns : trDel[r].pc = "idle"
    /\ IF \E r \in TrRuns : OpenManifest(r)
       THEN LET r == FirstOf({q \in TrRuns : OpenManifest(q)})
                manifest == trStore.manifest[r]
            IN  /\ manifest.phase = "planned" => Exists(r)
                /\ trDel' = [trDel EXCEPT ![r] = [pc |-> "fence", stale |-> FALSE, phase |-> manifest.phase, plan |-> manifest.plan]]
                /\ UNCHANGED trSrv
       ELSE IF \E r \in TrRuns : OpenReservation(r)
       THEN DelAt(FirstOf({q \in TrRuns : OpenReservation(q)}), "prepare") /\ UNCHANGED trSrv
       ELSE trSrv' = [trSrv EXCEPT !.up = TRUE] /\ UNCHANGED trDel
    /\ UNCHANGED <<trRun, trLink, trStore, trExec, trCancel, trHist, trLeft>>

-----------------------------------------------------------------------------
TrRunning ==
    \/ RunChildFails \/ ReadParent \/ FindChildRun \/ ReserveChildRun \/ StartChildRun \/ FinalizeChildRun
    \/ ContinueChildRun \/ ChildReturns \/ ParentEnds \/ DirectChildReturns \/ CancelChild \/ CancelParent
TrDeleting == \E r \in TrRuns :
    \/ DelPrepare(r) \/ DelReserve(r) \/ DelCollect(r) \/ DelVisit(r) \/ DelRecheck(r) \/ DelPlan(r)
    \/ DelManifest(r) \/ DelFence(r) \/ DelUnlink(r) \/ DelAdvance(r) \/ UpdateManifest(r)
    \/ DeleteEvidence(r) \/ DeleteRecord(r) \/ MarkDeleted(r)
TrUsers ==
    \/ \E kind \in {"pause", "cancel"} : Control(kind)
    \/ ResumeParent \/ ResumeChild \/ CancelReads \/ AbandonNode
    \/ \E r \in TrRuns : MarkLost(r) \/ DeleteRun(r) \/ DelFault(r)
TrNext == TrRunning \/ TrDeleting \/ TrUsers \/ TrCrash \/ Start

TrSpec == TrInit /\ [][TrNext]_trVars /\ WF_trVars(TrRunning) /\ WF_trVars(TrDeleting \/ Start)
-----------------------------------------------------------------------------
(* Properties *)

TrTypeOK ==
    /\ \A r \in TrRuns :
         /\ trRun[r].status \in {"absent", "running", "paused", "completed", "failed", "canceled"}
         /\ trRun[r].root \in TrRuns \cup {"none"}
         /\ trRun[r].phase \in {"none", "reserved", "planned", "unlinked"}
         /\ trRun[r].plan # <<>> <=> trRun[r].phase \in {"planned", "unlinked"}
         /\ trStore.manifest[r].phase \in {"none", "planned", "unlinked", "deleted"}
    /\ trLink \in {"none", "pending", "linked"}
    /\ trLink # "none" => Exists("p")
    /\ trStore.data \subseteq TrRuns /\ trStore.fence \subseteq TrRuns

\* A child is always known to its parent, by a reservation or a link, so that
\* a resumed node finds it and a deletion collects it; only its own deletion
\* unlinks it, and the parent's deletes it before the parent.
NoOrphan ==
    Exists("c") => \/ Exists("p") /\ trLink # "none"
                   \/ trRun["c"].root = "c" /\ trRun["c"].phase \in {"planned", "unlinked"}

\* A linked child exists until the deletion of its parent reached it.
LinkedChildExists ==
    trLink = "linked" /\ ~Exists("c") => trRun["p"].phase = "unlinked" /\ trRun["c"].root = "none"

\* However often the node is resumed or retried, there is one child.
ChildIsCreatedOnce == trHist.created <= 1

\* The record of a run is deleted last: nothing is kept of a run that a
\* reader can no longer name.
EvidenceGoesFirst == \A r \in TrRuns : r \in trStore.data => Exists(r)

\* A completed deletion left nothing: no run of its plan, no evidence, no
\* link; the parent may only have reserved the child once more.
DeletedIsGone ==
    \A r \in TrRuns : trStore.manifest[r].phase = "deleted" =>
        /\ \A q \in ToSet(trStore.manifest[r].plan) : ~Exists(q) /\ q \notin trStore.data
        /\ trLink # "linked"

\* A run that a deletion reserved keeps its status until it is deleted.
ReservedIsFrozen ==
    [][\A r \in TrRuns : Reserved(r) /\ trRun'[r].status # "absent" => trRun'[r].status = trRun[r].status]_trVars

\* A paused parent is canceled with its children: none that is linked stays
\* paused or runs on.
CancelReachesChildren ==
    [][trRun["p"].status = "paused" /\ trRun'["p"].status = "canceled" /\ trLink = "linked"
          => NothingToCancel(trRun["c"].status)]_trVars

\* The deletions that the server cannot finish when it starts: the manifest is
\* at "planned" and names a run that does not exist, because it was reserved
\* and never created or was deleted by a retry that left the manifest behind;
\* a child runs under a parent that is reserved; the child is reserved by its
\* own deletion, and the parent's comes first; the child is unlinked but its
\* manifest does not say so, and the parent's deletion is planned or done;
\* the child is to be unlinked, and the parent was resumed meanwhile.
StuckDeletion ==
    \/ \E r \in TrRuns : trStore.manifest[r].phase = "planned" /\ \E q \in ToSet(trStore.manifest[r].plan) : ~Exists(q)
    \/ trRun["p"].phase = "reserved" /\ HasChild(trLink) /\ RunActive("c")
    \/ trRun["p"].phase = "reserved" /\ HasChild(trLink) /\ trRun["c"].root = "c" /\ trSrv.order[1] = "p"
    \/ trStore.manifest["c"].phase = "planned" /\ (~Exists("p") \/ trRun["p"].phase \in {"planned", "unlinked"})
    \/ trRun["c"].root = "c" /\ trStore.manifest["c"].phase \in {"none", "planned"} /\ Exists("p") /\ ~Terminal("p")

\* The server serves again after a crash, and everything it started ends.
ServerStarts == []<>(trSrv.up)

TrSettled ==
    \/ trSrv.up /\ trExec.pc = "idle" /\ trCancel.pc = "idle" /\ ~trSrv.direct /\ \A r \in TrRuns : trDel[r].pc = "idle"
    \/ ~trSrv.up /\ StuckDeletion

\* Parent, child and link are one family: created once, known to each other as long as
\* they exist, and deleted without a rest, over crashes between any two writes.
FamilyIsWhole ==
    NoOrphan /\ LinkedChildExists /\ ChildIsCreatedOnce /\ EvidenceGoesFirst /\ DeletedIsGone
=============================================================================

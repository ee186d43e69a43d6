------------------------------ MODULE Artifacts ------------------------------
(***************************************************************************)
(* The artifacts of one node: staged while it executes, named by the       *)
(* commit of its result, finalized after it or discarded, reconciled when  *)
(* the store opens again (file/artifact.go, sqlite/artifact.go,            *)
(* memory_store.go and their callers in graph_runner.go and                *)
(* graph_runtime.go).                                                      *)
(*                                                                         *)
(* An artifact is known by its number in the attempt; the transaction and  *)
(* the artifacts' names stay the same when the node is retried or executed *)
(* again after a crash.  Payload and metadata are two files, each written  *)
(* whole.                                                                  *)
(***************************************************************************)
EXTENDS Integers, FiniteSets, TLC

CONSTANTS ArBackends,       \* the stores to look at: "file", "sqlite", "memory"
          ArCount,          \* artifacts of an attempt
          ArTries,          \* attempts of an execution
          ArFaultBound, ArCrashBound

VARIABLES arKind,           \* the store
          arStage, arFinal, \* number -> its two files
          arTxn,            \* the transaction of the result: whether it is durable, what it names
          arNode,           \* the execution of the node
          arRun,            \* the run, its deletion fence and whether the store is open
          arLeft

arVars == <<arKind, arStage, arFinal, arTxn, arNode, arRun, arLeft>>

ArNumbers == 1..ArCount
\* what tells two recordings of an artifact apart: the step and the payload
ArIds == [step : 1..(ArCrashBound + 1), val : {"x", "y"}]
NoFile == [step |-> 0, val |-> "none"]
NoFiles == [pay |-> NoFile, meta |-> NoFile]
Files(id) == [pay |-> id, meta |-> id]
Empty == [n \in ArNumbers |-> NoFiles]

ArInit ==
    /\ arKind \in ArBackends
    /\ arStage = Empty /\ arFinal = Empty
    /\ arTxn = [st |-> "none", arts |-> <<>>, lost |-> FALSE]
    /\ arNode = [pc |-> "exec", step |-> 1, tries |-> ArTries, seq |-> 0, mine |-> <<>>]
    /\ arRun = [status |-> "active", fence |-> FALSE, up |-> TRUE]
    /\ arLeft = [faults |-> ArFaultBound, crashes |-> ArCrashBound]

ArAt(pc) == arRun.up /\ arNode.pc = pc

\* An operation is cut short: it answers with an error and the runner goes on
\* at node, or the process dies.
CutShort(node) ==
    \/ /\ arLeft.faults > 0 /\ arLeft' = [arLeft EXCEPT !.faults = @ - 1]
       /\ arNode' = node /\ UNCHANGED arRun
    \/ /\ arKind # "memory" /\ arLeft.crashes > 0 /\ arLeft' = [arLeft EXCEPT !.crashes = @ - 1]
       /\ arNode' = [arNode EXCEPT !.pc = "down"]
       /\ arRun' = [arRun EXCEPT !.up = FALSE]

\* What a removal of the stage directory that is cut short may leave
Removals ==
    {[n \in ArNumbers |-> [pay |-> IF n \in pays THEN NoFile ELSE arStage[n].pay,
                           meta |-> IF n \in metas THEN NoFile ELSE arStage[n].meta]] :
        pays \in SUBSET ArNumbers, metas \in SUBSET ArNumbers}

-----------------------------------------------------------------------------
(* Staging *)

\* nextArtifactStageIdentity: the number is used up, whatever comes of it.
Recorded(n, id, ok) ==
    [arNode EXCEPT !.seq = n, !.mine = IF ok THEN (n :> id) @@ @ ELSE @]

\* Mutant: what is staged is taken whatever it holds.
AnyStage(n, id) == IF arStage[n].meta = NoFile THEN "write" ELSE "reuse"

\* What Stage finds: a stage of this identity is taken as it is, one that
\* differs is an error.
StageFinds(n, id) ==
    IF arStage[n].meta = NoFile THEN "write"
    ELSE IF arStage[n] = Files(id) THEN "reuse" ELSE "refuse"

\* The file store looks at the final artifact first.
StageAnswer(n, id) ==
    IF arKind = "file" /\ arFinal[n].meta # NoFile THEN "refuse" ELSE StageFinds(n, id)

\* recordArtifact and Stage, for a node that goes on when they fail
StageArtifact(val) ==
    LET n == arNode.seq + 1
        id == [step |-> arNode.step, val |-> val]
    IN  /\ ArAt("exec") /\ n \in ArNumbers
        /\ \/ /\ StageAnswer(n, id) # "write"
              /\ arNode' = Recorded(n, arStage[n].meta, StageAnswer(n, id) = "reuse")
              /\ UNCHANGED <<arStage, arRun, arLeft>>
           \/ /\ StageAnswer(n, id) = "write"
              /\ arStage' = [arStage EXCEPT ![n] = Files(id)]
              /\ arNode' = Recorded(n, id, TRUE)
              /\ UNCHANGED <<arRun, arLeft>>
           \/ /\ StageAnswer(n, id) = "write"
              /\ \E pay \in {arStage[n].pay} \cup (IF arKind = "file" THEN {id} ELSE {}) :
                   arStage' = [arStage EXCEPT ![n].pay = pay]
              /\ CutShort(Recorded(n, id, FALSE))
        /\ UNCHANGED <<arKind, arFinal, arTxn>>

\* Mutant: the retry starts with the stages that the failed attempt listed.
RetryKeepsList ==
    /\ ArAt("exec")
    /\ arNode' = IF arNode.tries > 1
                 THEN [arNode EXCEPT !.tries = @ - 1, !.seq = 0]
                 ELSE [arNode EXCEPT !.pc = "discard"]
    /\ UNCHANGED <<arKind, arStage, arFinal, arTxn, arRun, arLeft>>

\* The node returns an error.  beforeNode forgets what the failed attempt
\* staged but does not discard it; only the last failure does (OnTaskError).
AttemptFails ==
    /\ ArAt("exec")
    /\ arNode' = IF arNode.tries > 1
                 THEN [arNode EXCEPT !.tries = @ - 1, !.seq = 0, !.mine = <<>>]
                 ELSE [arNode EXCEPT !.pc = "discard"]
    /\ UNCHANGED <<arKind, arStage, arFinal, arTxn, arRun, arLeft>>

-----------------------------------------------------------------------------
(* The commit of the result *)

\* afterNode.  A commit of the file store that fails after its journal was
\* written may be completed by the next recovery.
CommitNode ==
    /\ ArAt("exec")
    /\ \/ /\ arTxn' = [arTxn EXCEPT !.st = "done", !.arts = arNode.mine]
          /\ arNode' = [arNode EXCEPT !.pc = "finalize"]
          /\ UNCHANGED <<arRun, arLeft>>
       \/ /\ \E st \in {"none", IF arKind = "file" THEN "late" ELSE "none"} :
               arTxn' = [arTxn EXCEPT !.st = st, !.arts = arNode.mine]
          /\ CutShort([arNode EXCEPT !.pc = "discard"])
    /\ UNCHANGED <<arKind, arStage, arFinal>>

\* recoverLocked, when the store opens and before the next commit
RecoveredTxn == IF arTxn.st = "late" THEN [arTxn EXCEPT !.st = "done"] ELSE arTxn

\* Mutant: an artifact whose files were written before cannot be finalized again.
OnlyOnce(n) ==
    ~arRun.fence /\ arStage[n] = Files(arTxn.arts[n]) /\ arFinal[n].meta = NoFile

\* finalizeLocked and finalizeArtifactStage: whether artifact n can be finalized
Finalizable(n) ==
    /\ ~arRun.fence
    /\ IF arStage[n].meta = NoFile THEN arFinal[n] = Files(arTxn.arts[n])
       ELSE /\ arStage[n] = Files(arTxn.arts[n])
            /\ arFinal[n].meta # NoFile => arFinal[n].meta = arTxn.arts[n]

\* the artifacts that are finalized before the first that cannot be
FinalizedOnes ==
    {n \in DOMAIN arTxn.arts : \A m \in DOMAIN arTxn.arts : m <= n => Finalizable(m)}

\* Mutant: the metadata is written before the payload.
MetadataFirst(done, half) ==
    [n \in ArNumbers |->
        IF n \in done THEN Files(arTxn.arts[n])
        ELSE IF n \in half THEN [arFinal[n] EXCEPT !.meta = arTxn.arts[n]] ELSE arFinal[n]]

\* The final files once the artifacts of done are written, and the payload
\* of those in half.
FinalFiles(done, half) ==
    [n \in ArNumbers |->
        IF n \in done THEN Files(arTxn.arts[n])
        ELSE IF n \in half THEN [arFinal[n] EXCEPT !.pay = arTxn.arts[n]] ELSE arFinal[n]]

\* Mutant: the stages of the transaction are left behind.
StageKept == arStage

\* The stages once the transaction is finalized: SQLite removes the
\* rows that the commit named, the other stores all of the transaction.
StageGone == [n \in ArNumbers |-> IF arKind # "sqlite" \/ n \in DOMAIN arTxn.arts THEN NoFiles ELSE arStage[n]]

FinalizeWhole ==
    /\ FinalizedOnes = DOMAIN arTxn.arts
    /\ arFinal' = FinalFiles(DOMAIN arTxn.arts, {})
    /\ arStage' = StageGone

\* It is cut short between two of the file store's writes, or during the
\* removal that follows them.
FinalizePart ==
    IF arKind # "file" THEN UNCHANGED <<arStage, arFinal>>
    ELSE \/ /\ \E n \in FinalizedOnes, half \in BOOLEAN :
                 arFinal' = FinalFiles({m \in FinalizedOnes : m < n}, IF half THEN {n} ELSE {})
            /\ UNCHANGED arStage
         \/ /\ FinalizedOnes = DOMAIN arTxn.arts
            /\ arFinal' = FinalFiles(DOMAIN arTxn.arts, {})
            /\ arStage' \in Removals

\* commitRuntime finalizes after the commit; an error is only logged.
Finalize ==
    /\ ArAt("finalize")
    /\ \/ /\ IF arTxn.arts = <<>> THEN UNCHANGED <<arStage, arFinal>> ELSE FinalizeWhole
          /\ arNode' = [arNode EXCEPT !.pc = "settled"]
          /\ UNCHANGED <<arRun, arLeft>>
       \/ FinalizePart /\ CutShort([arNode EXCEPT !.pc = "settled"])
    /\ UNCHANGED <<arKind, arTxn>>

\* OnTaskError discards the stages, whatever became of the commit.
Discard ==
    /\ ArAt("discard")
    /\ arTxn' = [arTxn EXCEPT !.lost = arTxn.st = "late"]
    /\ \/ /\ arStage' = Empty
          /\ arNode' = [arNode EXCEPT !.pc = "settled"]
          /\ UNCHANGED <<arRun, arLeft>>
       \/ /\ arStage' \in IF arKind = "file" THEN Removals ELSE {arStage}
          /\ CutShort([arNode EXCEPT !.pc = "settled"])
    /\ UNCHANGED <<arKind, arFinal>>

\* The run completes or fails; its last commit recovers first.
RunIsOver ==
    /\ ArAt("settled") /\ arRun.status = "active"
    /\ arRun' = [arRun EXCEPT !.status = "over"]
    /\ arTxn' = RecoveredTxn
    /\ UNCHANGED <<arKind, arStage, arFinal, arNode, arLeft>>

-----------------------------------------------------------------------------
(* Deletion, crash and restart *)

ArFenceRun ==
    /\ arRun.up /\ arRun.status = "over" /\ ~arRun.fence
    /\ arRun' = [arRun EXCEPT !.fence = TRUE]
    /\ UNCHANGED <<arKind, arStage, arFinal, arTxn, arNode, arLeft>>

\* artifactStore.DeleteRun; the coordinator tries again after a failure.
DeleteArtifacts ==
    /\ arRun.up /\ arRun.fence /\ (arStage # Empty \/ arFinal # Empty)
    /\ \/ arStage' = Empty /\ arFinal' = Empty /\ UNCHANGED <<arNode, arRun, arLeft>>
       \/ /\ IF arKind = "file" THEN arStage' \in Removals /\ arFinal' \in {arFinal, Empty}
             ELSE UNCHANGED <<arStage, arFinal>>
          /\ CutShort(arNode)
    /\ UNCHANGED <<arKind, arTxn>>

ArCrash ==
    /\ arRun.up /\ arKind # "memory" /\ arLeft.crashes > 0
    /\ arRun' = [arRun EXCEPT !.up = FALSE]
    /\ arNode' = [arNode EXCEPT !.pc = "down"]
    /\ arLeft' = [arLeft EXCEPT !.crashes = @ - 1]
    /\ UNCHANGED <<arKind, arStage, arFinal, arTxn>>

\* Mutant: every stage that the store finds is discarded.
NeverCommitted == FALSE

\* reconcileLocked: the transaction has a result, and it is committed.
TxnCommitted == arTxn.st = "done"

ReopenSqlite ==
    /\ ~arRun.up /\ arKind = "sqlite"
    /\ arRun' = [arRun EXCEPT !.up = TRUE]
    /\ UNCHANGED <<arKind, arStage, arFinal, arTxn, arNode, arLeft>>

\* Open of the file store: transactions are recovered first.
RecoverTxn ==
    /\ ~arRun.up /\ arKind = "file" /\ arTxn.st = "late"
    /\ arTxn' = RecoveredTxn
    /\ UNCHANGED <<arKind, arStage, arFinal, arNode, arRun, arLeft>>

\* Then reconcileLocked finishes what the transactions left, and an error of
\* it is one of Open.
ReconcileArtifacts ==
    /\ ~arRun.up /\ arKind = "file" /\ arTxn.st # "late"
    /\ IF arStage = Empty THEN UNCHANGED <<arStage, arFinal>>
       ELSE IF TxnCommitted THEN FinalizeWhole
       ELSE arStage' = Empty /\ UNCHANGED arFinal
    /\ arRun' = [arRun EXCEPT !.up = TRUE]
    /\ UNCHANGED <<arKind, arTxn, arNode, arLeft>>

ReconcileCrashes ==
    /\ ~arRun.up /\ arKind = "file" /\ arTxn.st # "late" /\ arStage # Empty /\ arLeft.crashes > 0
    /\ IF TxnCommitted THEN FinalizePart
       ELSE arStage' \in Removals /\ UNCHANGED arFinal
    /\ arLeft' = [arLeft EXCEPT !.crashes = @ - 1]
    /\ UNCHANGED <<arKind, arTxn, arNode, arRun>>

\* The run is taken over: from its after_node checkpoint if the result was
\* committed, else the node is executed again as a new step.
ArTakeOver ==
    /\ ArAt("down") /\ arRun.status = "active"
    /\ arNode' = IF arTxn.st # "none" THEN [arNode EXCEPT !.pc = "settled"]
                 ELSE [arNode EXCEPT !.pc = "exec", !.step = @ + 1, !.tries = ArTries, !.seq = 0, !.mine = <<>>]
    /\ arTxn' = RecoveredTxn
    /\ UNCHANGED <<arKind, arStage, arFinal, arRun, arLeft>>

-----------------------------------------------------------------------------
ArExecution ==
    \/ \E val \in {"x", "y"} : StageArtifact(val)
    \/ AttemptFails \/ CommitNode \/ Finalize \/ Discard \/ RunIsOver \/ ArTakeOver
ArOpens == ReopenSqlite \/ RecoverTxn \/ ReconcileArtifacts
ArNext == ArExecution \/ ArOpens \/ ReconcileCrashes \/ ArFenceRun \/ DeleteArtifacts \/ ArCrash

ArSpec == ArInit /\ [][ArNext]_arVars /\ WF_arVars(ArExecution) /\ WF_arVars(ArOpens)

ArTypeOK ==
    /\ \A n \in ArNumbers, f \in {arStage, arFinal} : {f[n].pay, f[n].meta} \subseteq ArIds \cup {NoFile}
    /\ arTxn.st \in {"none", "late", "done"}
    /\ arNode.pc \in {"exec", "discard", "finalize", "settled", "down"} /\ arNode.seq \in 0..ArCount
    /\ DOMAIN arNode.mine \subseteq 1..arNode.seq

\* What a committed result names can be loaded, or is still staged so that
\* the finalization can be made up for: unless the run is being deleted, or
\* its stages were discarded after a commit that only looked failed
\* (OnTaskError does not ask what became of the transaction).
CommittedIsKept ==
    (arTxn.st # "none" /\ arNode.pc # "discard" /\ ~arTxn.lost /\ ~arRun.fence) =>
        \A n \in DOMAIN arTxn.arts :
            Files(arTxn.arts[n]) \in {arStage[n], arFinal[n]}

\* List and Load show nothing else: an artifact with metadata belongs to the
\* committed result, with the payload that the committed attempt recorded,
\* also when earlier attempts left stages of the same name behind.
ListedIsCommitted ==
    \A n \in ArNumbers : arFinal[n].meta # NoFile =>
        /\ arTxn.st = "done" /\ n \in DOMAIN arTxn.arts
        /\ arFinal[n] = Files(arTxn.arts[n])

\* What an attempt commits it recorded itself, in the step that commits.
OwnArtifacts ==
    \A n \in DOMAIN arNode.mine : arNode.mine[n].step = arNode.step

\* A file store that opens has settled every stage that it found.
OpenSettlesStages ==
    [][~arRun.up /\ arRun'.up /\ arKind = "file" =>
        /\ arStage' = Empty
        /\ arTxn'.st = "done" /\ ~arTxn.lost /\ ~arRun.fence =>
               \A n \in DOMAIN arTxn'.arts : arFinal'[n] = Files(arTxn'.arts[n])]_arVars

\* Stages of a committed result that the store can neither finalize nor
\* remove: a removal was cut short between a payload and its metadata, the
\* commit completed late while its stages were being discarded, or the run is
\* fenced.  Open fails for good (file/artifact.go:165, :178).
StuckStage ==
    /\ arKind = "file" /\ arTxn.st = "done" /\ arStage # Empty
    /\ \/ arRun.fence \/ arTxn.lost
       \/ \E n \in DOMAIN arTxn.arts : arStage[n].meta # NoFile /\ arStage[n].pay = NoFile

\* The store opens again after every crash, but for the stuck stages.
ArSettled == arRun.up \/ StuckStage

\* The artifacts that can be listed and loaded are those of the committed result, and
\* those of a committed result are not lost, over retries, faults and crashes.
ArtifactsMatchCommit ==
    CommittedIsKept /\ ListedIsCommitted
=============================================================================

---------------------------- MODULE MCTaskQueue ----------------------------
(***************************************************************************)
(* Small instances of TaskQueue.                                           *)
(***************************************************************************)
EXTENDS TaskQueue, TLC

CONSTANTS t1, w1, w2

\* Two workers and one graph.run task with the limit EnqueueStart gives it.
OneTask == {t1}
TwoWorkers == {w1, w2}
GraphRunOnly == {t1}
ThreeAttempts == [t \in Task |-> 3]
TwoAttempts == [t \in Task |-> 2]

WorkerSymmetry == Permutations(Worker)
=============================================================================

---------------------------- MODULE AtomicStore ----------------------------
(***************************************************************************)
(* What TransactionStore (runtime/transaction_store.go) promises its       *)
(* callers: a commit changes all of its records in one step or none of     *)
(* them, and a transaction ID is applied at most once.  MemoryRuntimeStore *)
(* is this specification, one clone-and-swap under its locks;              *)
(* FileStore.tla is shown to implement it in spite of crashes and failing  *)
(* writes.                                                                 *)
(***************************************************************************)
EXTENDS StoreRecords

CONSTANTS Txn,      \* transaction IDs
          Commits   \* the content each transaction carries

VARIABLES image,  \* the records
          done    \* the transactions that are committed

vars == <<image, done>>

Init == image = Blank /\ done = {}

Commit(t) ==
    /\ t \notin done
    /\ \E fenced \in BOOLEAN : Allowed(Commits[t], image.run.n, image, fenced)
    /\ done' = done \cup {t}
    /\ image' = Overlay(image, AfterImage(t, Commits[t], image))

\* CreateRun, CompareAndSwapRun, AppendStep, UpdateStep, Publish and Save: one
\* record; the file store writes the two cells of a checkpoint one by one.
Write ==
    /\ UNCHANGED done
    /\ \E cells \in {{cell} : cell \in Cell} \cup {{"meta", "payload"}} :
           /\ \A cell \in cells : image'[cell] # image[cell]
           /\ image' = Overlay(image, [cell \in cells |-> image'[cell]])
           /\ "events" \in cells => Len(image'.events) > Len(image.events)
           /\ "run" \in cells => image'.run.n > image.run.n
           /\ "step" \in cells => image'.step > image.step

\* DeleteRun removes whole cells of a run that is reserved for deletion, or of
\* which there is no record any more.
Erase ==
    /\ image.run.del \/ image.run.n = 0
    /\ UNCHANGED done
    /\ \E cells \in SUBSET Cell :
           image' = Overlay(image, [cell \in cells |-> Blank[cell]])

Next == (\E t \in Txn : Commit(t)) \/ Write \/ Erase

Spec == Init /\ [][Next]_vars
=============================================================================

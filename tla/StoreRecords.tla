---------------------------- MODULE StoreRecords ----------------------------
(***************************************************************************)
(* The records of one run as the runtime stores keep them, and the rules a *)
(* commit has to satisfy (prepareJournalLocked and ensureCommitRunLocked   *)
(* of internal/runtimestore/file/transaction.go).  An image gives every    *)
(* cell (one file of the run) its content:                                 *)
(*   run      n = 0 is "absent", otherwise Revision = n - 1; del is        *)
(*            "Deletion # nil"                                             *)
(*   step     0 absent, 1 appended, 2 updated                              *)
(*   meta, payload   the two files of a checkpoint exist                   *)
(*   events   the transactions (or publishers) whose event lines the       *)
(*            run's event file holds, in file order                        *)
(***************************************************************************)
EXTENDS Naturals, Sequences

Cell == {"meta", "payload", "events", "run", "step"}

\* The order of the mutations of a journal: sorted by path.
CellOrder == <<"meta", "payload", "events", "run", "step">>

NoRun == [n |-> 0, del |-> FALSE]

Blank == [meta |-> FALSE, payload |-> FALSE, events |-> <<>>,
          run |-> NoRun, step |-> 0]

\* The contents a Commit may have; rev is the revision its caller read.
Content == [run : {"none", "create", "update", "check"},
            step : {"none", "append", "update"},
            ckpt : BOOLEAN, event : BOOLEAN]

\* Mutant: the payload of a checkpoint is left out of the transaction.
WritesMetaOnly(c) ==
    (IF c.run \in {"create", "update"} THEN {"run"} ELSE {})
        \cup (IF c.step # "none" THEN {"step"} ELSE {})
        \cup (IF c.ckpt THEN {"meta"} ELSE {})
        \cup (IF c.event THEN {"events"} ELSE {})

\* The cells a commit writes.
Writes(c) ==
    (IF c.run \in {"create", "update"} THEN {"run"} ELSE {})
        \cup (IF c.step # "none" THEN {"step"} ELSE {})
        \cup (IF c.ckpt THEN {"meta", "payload"} ELSE {})
        \cup (IF c.event THEN {"events"} ELSE {})

\* ensureCommitRunLocked: records may be written for this run.
RunWritable(img, fenced) == img.run.n > 0 /\ ~fenced /\ ~img.run.del

\* May commit c, whose caller read revision rev, be applied to img?
Allowed(c, rev, img, fenced) ==
    /\ CASE c.run = "create" -> img.run.n = 0 /\ ~fenced
         [] c.run = "update" -> img.run.n > 0 /\ img.run.n = rev
                                    /\ ~img.run.del
         [] c.run = "check"  -> img.run.n = rev /\ RunWritable(img, fenced)
         [] c.run = "none"   -> RunWritable(img, fenced)
    /\ c.step = "append" => img.step = 0
    /\ c.step = "update" => img.step > 0
    /\ c.ckpt => ~img.meta

\* The content of a cell after commit c of transaction t is applied to img.
After(t, c, img, cell) ==
    CASE cell = "run"    -> [img.run EXCEPT !.n = @ + 1]
      [] cell = "step"   -> IF c.step = "append" THEN 1 ELSE 2
      [] cell = "events" -> Append(img.events, t)
      [] OTHER           -> TRUE

\* Img with the cells of the partial image part replaced.
Overlay(img, part) ==
    [cell \in Cell |-> IF cell \in DOMAIN part THEN part[cell] ELSE img[cell]]

AfterImage(t, c, img) == [cell \in Writes(c) |-> After(t, c, img, cell)]

\* Mutant: only the run record is saved for a rollback.
BeforeImageOfRun(c, img) == [cell \in {"run"} |-> img[cell]]

BeforeImage(c, img) == [cell \in Writes(c) |-> img[cell]]
=============================================================================

------------------------------ MODULE MCStores ------------------------------
(***************************************************************************)
(* Instances of the runtime stores and of the state that is stored: the    *)
(* durable writes of the file store, the records behind each of the four   *)
(* backends, and the merge of a fan-in.  They share no variable, so each   *)
(* behaviour is one of one of them, the one named by part.                 *)
(***************************************************************************)
EXTENDS FileStore, RecordStore, StateMerge

VARIABLE part

Txns == {"boundary", "check"}

\* A step boundary, as afterNode commits it, and the check without mutations
\* that a commit of artifacts alone makes.
BoundaryAndCheck ==
    [t \in Txns |->
        IF t = "boundary"
        THEN [run |-> "update", step |-> "append", ckpt |-> TRUE, event |-> TRUE]
        ELSE [run |-> "check", step |-> "none", ckpt |-> FALSE, event |-> FALSE]]

\* The executor commits a step boundary, a control request the record and an event.
Executors == {"w", "v"}
BoundaryAndControl ==
    [k \in Executors |->
        IF k = "w"
        THEN [run |-> "update", step |-> "append", ckpt |-> TRUE, event |-> TRUE]
        ELSE [run |-> "update", step |-> "none", ckpt |-> FALSE, event |-> TRUE]]

Scenes == {{"callers", "deletion"}, {"writers", "deletion"}, {"writers", "reader"}}
WrittenRuns == [step |-> {"p"}, ckpt |-> {"p", "c"}, event |-> {"p"}]
TwoEvents == <<"e1", "e2">>

PA == <<"shared", "a">>
PAB == <<"shared", "a", "b">>
PAC == <<"shared", "a", "c">>
PL == <<"shared", "l">>
PI == <<"internal", "i">>
Number(n) == Leaf("number", n, <<>>)
Keyed(k, n) == <<k>> :> Number(n)

Filled == (PAB :> Number(1)) @@ (PI :> Number(7)) @@ (PL :> Leaf("list", 0, <<1>>))
EmptyA == (PI :> Number(7)) @@ (PA :> EmptyObject)
ValueA == PA :> Number(1)

BranchOps ==
    {SetOp(PAB, Num(1)), SetOp(PAB, Num(2)), SetOp(PA, Keyed("c", 1)), DeleteOp(PAB),
     MergeOp(PA, Keyed("b", 2)), MergeOp(PA, Keyed("c", 1)), MergeOp(PA, <<"b">> :> EmptyObject),
     AppendOp(PL, Num(2)), ReduceOp(PAC, Num(2), "sum")}
MoreOps ==
    {SetOp(PAC, Num(1)), DeleteOp(PA), MergeOp(PA, <<"b", "x">> :> Number(1)),
     AppendOp(PL, Num(3)), SetOp(PI, Num(1))}

\* A branch of a node without a contract, and of one with.
Free(ops) == [contract |-> NoContract, has |-> FALSE, ops |-> ops, input |-> <<>>]
Bound(fields, wildRead, wildWrite, ops, input) ==
    [contract |-> [wildRead |-> wildRead, wildWrite |-> wildWrite, fields |-> fields],
     has |-> TRUE, ops |-> ops, input |-> input]

Fan(base, branches, writes) ==
    [base |-> base, branches |-> branches, schemas |-> (PA :> "object"), writes |-> writes,
     inputs |-> {PA :> Number(3), PI :> Number(3), PAC :> Number(3)}]

Appends == Bound(<<Field(PL, "readwrite", FALSE, "append", "", ""), Field(PAC, "write", FALSE, "", "sum", "")>>,
                 TRUE, FALSE, BranchOps, <<>>)
Writer(input) ==
    Bound(<<Field(PA, "readwrite", FALSE, "", "", ""), Field(PAB, "write", TRUE, "", "", "number")>>, FALSE, FALSE,
          {MergeOp(PA, Keyed("c", 1)), MergeOp(PA, Keyed("b", 2)), SetOp(PAB, Num(2)), DeleteOp(PA), SetOp(PAC, Num(1))},
          input)
Merger(wild, ops) ==
    Bound(IF wild THEN <<>> ELSE <<Field(PA, "readwrite", FALSE, "merge", "", ""), Field(PL, "write", FALSE, "append", "", "list")>>,
          TRUE, wild, ops, <<>>)
Replacer(ops) == Bound(<<Field(PAC, "readwrite", FALSE, "replace", "", "")>>, TRUE, FALSE, ops, <<>>)

Three ==
    Fan(Filled, <<Replacer({SetOp(PA, Keyed("c", 1)), SetOp(PAC, Num(1)), SetOp(PAC, Num(2)), DeleteOp(PAC)}),
                  Replacer({SetOp(PAC, Num(1)), DeleteOp(PAC)}),
                  [Appends EXCEPT !.ops = {AppendOp(PL, Num(2))}]>>, 1)

\* Two free branches over three states, one of them with two writes each; nodes
\* whose contracts meet in one object, with an input that was sent; merging
\* contracts, one of them a wildcard; three branches.
Fans ==
    {Fan(base, <<Free(BranchOps), Free(MoreOps \cup BranchOps)>>, 1) : base \in {Filled, EmptyA, ValueA}}
    \cup {Fan(Filled, <<Free({DeleteOp(PAB), MergeOp(PA, Keyed("c", 1)), AppendOp(PL, Num(3)), SetOp(PAC, Num(1))}),
                        Free(BranchOps)>>, 2)}
    \cup {Fan(EmptyA, <<Writer(input), Appends>>, 2) :
             input \in {<<>>, <<SetOp(PA, Keyed("b", 1))>>, <<SetOp(PL, List(<<1>>))>>}}
    \cup {Fan(base, <<Merger(FALSE, {MergeOp(PA, Keyed("b", 2)), MergeOp(PA, Keyed("c", 1)), AppendOp(PL, Num(2)), SetOp(PL, Num(1))}),
                      Merger(wild, {MergeOp(PA, Keyed("b", 2)), MergeOp(PA, Keyed("c", 2)), AppendOp(PL, Num(2)),
                                    SetOp(PAC, Num(1)), SetOp(PI, Num(2))})>>, 2) :
             base \in {Filled, EmptyA}, wild \in BOOLEAN}
    \cup {Three}

stVars == <<part, vars, rsVars, smVars>>

StInit ==
    /\ part \in {"files", "records", "merge"}
    /\ Init /\ RsInit /\ SmInit
    /\ part # "merge" => smScene = Three
    /\ part # "records" => rsBackend = "memory" /\ rsActors = {"writers", "reader"}

Files(A) == part = "files" /\ A /\ UNCHANGED <<part, rsVars, smVars>>
Records(A) == part = "records" /\ A /\ UNCHANGED <<part, vars, smVars>>
Merge(A) == part = "merge" /\ A /\ UNCHANGED <<part, vars, rsVars>>

StNext == Files(Next) \/ Records(RsNext) \/ Merge(SmNext)

StSpec ==
    /\ StInit /\ [][StNext]_stVars
    /\ WF_stVars(Files(Working))
    /\ WF_stVars(Files(CallOpen))
    /\ \A t \in Txn : SF_stVars(Files(CallResolve(t)))
=============================================================================

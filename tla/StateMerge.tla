----------------------------- MODULE StateMerge -----------------------------
(* The state envelope of a run and one parallel wave over it: every branch   *)
(* reads a projection of the state through its contract, records the writes  *)
(* it makes as a patch, and the patches of the wave are merged into one state *)
(* (state/*.go, core/node.go, graph/compile.go).                              *)
(*                                                                            *)
(* A state is kept flattened, the way snapshots and merge overlays are        *)
(* flattened in the code: a function from paths (the section, then the        *)
(* segments) to leaves, an empty object being a leaf of its own.  The four    *)
(* sections always exist, so an empty section has no leaf.                    *)
EXTENDS Integers, Sequences, FiniteSets, TLC, SequencesExt

CONSTANT SmScenes   \* waves to run: base state, branches, schemas and resume inputs

VARIABLES smScene,  \* the wave (rigid)
          smState,  \* the committed state of the run
          smInput,  \* branch -> the state the branch was started on
          smView,   \* branch -> the working copy behind its Access
          smPatch,  \* branch -> the operations it has recorded
          smSt,     \* branch -> "new", "exec", "done" or "failed"
          smPhase   \* the wave: "running", "merged", "failed" or "resumed"
smVars == <<smScene, smState, smInput, smView, smPatch, smSt, smPhase>>

(* ------------------------------ the envelope ------------------------------ *)
Leaf(k, n, l) == [k |-> k, n |-> n, l |-> l]
EmptyObject == Leaf("object", 0, <<>>)
Num(n) == (<<>> :> Leaf("number", n, <<>>))
List(l) == (<<>> :> Leaf("list", 0, l))
Nothing == <<>> :> EmptyObject
Absent == [p \in {} |-> EmptyObject]

ReservedPath(p) == p[1] \in {"internal", "runtime"}
Overlap(p, q) == IsPrefix(p, q) \/ IsPrefix(q, p)

Under(t, p) == {q \in DOMAIN t : IsPrefix(p, q)}
Tail_(p, q) == SubSeq(q, Len(p) + 1, Len(q))
Clean(t) == Restrict(t, {q \in DOMAIN t : Len(q) > 1 \/ t[q] # EmptyObject})

\* State.read: what is found at a path, relative to it; a section is an object.
Read(t, p) == [r \in {Tail_(p, q) : q \in Under(t, p)} |-> t[p \o r]]
Found(t, p) == Len(p) = 1 \/ Under(t, p) # {}
IsObject(v) == <<>> \notin DOMAIN v \/ v[<<>>] = EmptyObject

\* parentMap: the path goes through a value that is not an object.
Blocked(t, p) == \E q \in DOMAIN t : IsStrictPrefix(q, p) /\ t[q] # EmptyObject

\* Mutant: a value replaced by an object keeps its old leaf.
PutBeside(t, p, v) ==
  LET put == {p \o r : r \in DOMAIN v}
  IN  Clean([q \in DOMAIN t \cup put |-> IF q \in put THEN v[Tail_(p, q)] ELSE t[q]])
\* State.set; the parents it creates are the prefixes of the new leaves.
Put(t, p, v) ==
  LET keep == {q \in DOMAIN t : ~Overlap(p, q)}
      put  == {p \o r : r \in DOMAIN v}
  IN  Clean([q \in keep \cup put |-> IF q \in put THEN v[Tail_(p, q)] ELSE t[q]])

\* State.delete: an object that loses its last key stays, empty.
Drop(t, p) ==
  LET rest == Restrict(t, {q \in DOMAIN t : ~IsPrefix(p, q)})
      up   == Front(p)
  IN  IF Under(t, p) # {} /\ Len(p) > 2 /\ Under(rest, up) = {}
        THEN rest @@ (up :> EmptyObject) ELSE rest

\* mergeMap: objects merge key by key, anything else is replaced.
OverlayOn(t, p, v) ==
  LET new  == {r \in DOMAIN v : ~(v[r] = EmptyObject /\ Found(t, p \o r) /\ IsObject(Read(t, p \o r)))}
      keep == {q \in DOMAIN t : \A r \in new : ~Overlap(p \o r, q)}
  IN  Clean([q \in keep \cup {p \o r : r \in new} |-> IF q \in keep THEN t[q] ELSE v[Tail_(p, q)]])

(* -------------------------------- patches --------------------------------- *)
SetOp(p, v) == [kind |-> "set", path |-> p, value |-> v, reducer |-> ""]
DeleteOp(p) == [kind |-> "delete", path |-> p, value |-> Nothing, reducer |-> ""]
MergeOp(p, v) == [kind |-> "merge", path |-> p, value |-> v, reducer |-> ""]
AppendOp(p, v) == [kind |-> "append", path |-> p, value |-> v, reducer |-> ""]
ReduceOp(p, v, r) == [kind |-> "reduce", path |-> p, value |-> v, reducer |-> r]

\* A value to append: a list as it is, anything else as a list of one.
Items(v) == IF <<>> \in DOMAIN v /\ v[<<>>].k = "list" THEN v[<<>>].l ELSE <<v[<<>>].n>>
IsList(v) == <<>> \in DOMAIN v /\ v[<<>>].k = "list"
IsNumber(v) == <<>> \in DOMAIN v /\ v[<<>>].k = "number"

\* applyPatchOpWithReducers: the operations that are refused.
OpFails(t, op) ==
  LET cur == Read(t, op.path)
  IN  CASE op.kind = "set"    -> Blocked(t, op.path) \/ (Len(op.path) = 1 /\ ~IsObject(op.value))
        [] op.kind = "delete" -> FALSE
        [] op.kind = "merge"  -> \/ ~IsObject(op.value)
                                 \/ Blocked(t, op.path)
                                 \/ Found(t, op.path) /\ ~IsObject(cur)
        [] op.kind = "append" -> Blocked(t, op.path) \/ (Found(t, op.path) /\ ~IsList(cur))
        [] op.kind = "reduce" -> Blocked(t, op.path) \/ (Found(t, op.path) /\ ~IsNumber(cur))

\* The number reducers: the first value is taken as it comes.
Reduced(reducer, cur, v) ==
  LET a == cur[<<>>].n
      b == v[<<>>].n
  IN  Num(IF reducer = "sum" THEN a + b ELSE IF b > a THEN b ELSE a)

ApplyOp(t, op) ==
  LET cur == Read(t, op.path)
  IN  CASE op.kind = "set"    -> Put(t, op.path, op.value)
        [] op.kind = "delete" -> Drop(t, op.path)
        [] op.kind = "merge"  -> IF Found(t, op.path) THEN OverlayOn(t, op.path, op.value)
                                                      ELSE Put(t, op.path, op.value)
        [] op.kind = "append" -> Put(t, op.path, IF Found(t, op.path)
                                                   THEN List(Items(cur) \o Items(op.value))
                                                   ELSE List(Items(op.value)))
        [] op.kind = "reduce" -> Put(t, op.path, IF Found(t, op.path)
                                                   THEN Reduced(op.reducer, cur, op.value)
                                                   ELSE op.value)

\* Patch.ApplyWithReducers: the operations in order, or an error.
Applied(t, ops) ==
  FoldLeft(LAMBDA acc, op : IF ~acc.ok \/ OpFails(acc.st, op)
                              THEN [acc EXCEPT !.ok = FALSE]
                              ELSE [acc EXCEPT !.st = ApplyOp(acc.st, op)],
           [ok |-> TRUE, st |-> t], ops)

(* ------------------------------- contracts -------------------------------- *)
Field(p, mode, req, merge, red, kind) ==
  [path |-> p, mode |-> mode, required |-> req, merge |-> merge, reducer |-> red, kind |-> kind]
Reads(c) == {f \in Range(c.fields) : f.mode \in {"read", "readwrite"}}
WriteFields(c) == {f \in Range(c.fields) : f.mode \in {"write", "readwrite"}}

\* ProjectStateByContract
Projected(t, c) ==
  Restrict(t, {q \in DOMAIN t : IF c.wildRead THEN ~ReservedPath(q)
                                ELSE \E f \in Reads(c) : IsPrefix(f.path, q)})

HasKind(v, kind) ==
  CASE kind = "" -> TRUE
    [] kind = "object" -> IsObject(v)
    [] OTHER -> <<>> \in DOMAIN v /\ v[<<>>].k = kind

\* validateRequiredReadsOnly: a required read is there and fits its schema.
MissingReads(t, c) ==
  \E f \in Reads(c) : IF Found(t, f.path) THEN ~HasKind(Read(t, f.path), f.kind) ELSE f.required

\* reducerForPath and mergeStrategyForPath: the deepest write field that
\* contains the path or lies within it, the first declared of equals.
Nearest(c, p) ==
  LET near == {i \in DOMAIN c.fields : c.fields[i] \in WriteFields(c) /\ Overlap(c.fields[i].path, p)}
  IN  {i \in near : \A j \in near : \/ Len(c.fields[j].path) < Len(c.fields[i].path)
                                    \/ Len(c.fields[j].path) = Len(c.fields[i].path) /\ i <= j}
ReducerFor(c, p) == {c.fields[i].reducer : i \in Nearest(c, p)}
StrategyFor(c, p) == {c.fields[i].merge : i \in Nearest(c, p)} \ {""}

\* Mutant: a field also covers the paths above and below it.
CoversNearby(c, p) == \E f \in WriteFields(c) : Overlap(f.path, p)
MayWrite(c, p) == \E f \in WriteFields(c) : f.path = p

ReducerFits(c, op) ==
  \A r \in ReducerFor(c, op.path) :
     IF r = "" THEN op.kind # "reduce" ELSE op.kind = "reduce" /\ op.reducer = r

\* ValidatePatchByContract
PatchFits(ops, c) ==
  IF c.wildWrite THEN \A i \in DOMAIN ops : ~ReservedPath(ops[i].path)
  ELSE /\ \A i \in DOMAIN ops : MayWrite(c, ops[i].path) /\ ReducerFits(c, ops[i])
       /\ \A f \in WriteFields(c) :
             f.required => \E i \in DOMAIN ops : IsPrefix(ops[i].path, f.path)

\* The fields with a schema that a patch may have changed must fit it.
ResultFits(t, ops, c) ==
  \A f \in WriteFields(c) :
     (f.kind # "" /\ \E i \in DOMAIN ops : Overlap(f.path, ops[i].path))
       => IF Found(t, f.path) THEN HasKind(Read(t, f.path), f.kind) ELSE ~f.required

\* ValidateInputPatchByContract with ValidateInputPatch
InputFits(ops, t, c) ==
  /\ \A i \in DOMAIN ops : ~ReservedPath(ops[i].path)
  /\ c.wildRead \/ \A i \in DOMAIN ops :
        /\ \E f \in Reads(c) : f.path = ops[i].path
        /\ ReducerFits(c, ops[i])
        /\ ops[i].kind = "reduce" => ReducerFor(c, ops[i].path) \notin {{}, {""}}
  /\ ~MissingReads(t, c)

(* ---------------------------- the parallel merge -------------------------- *)
\* Mutant: keys of two overlays clash only when they are the same.
SameKeyOnly(a, b) == \A r \in DOMAIN a, s \in DOMAIN b : r = s => a[r] = b[s]
\* validateMergeOverlayConflict over the flattened overlays.
OverlaysAgree(a, b) ==
  \A r \in DOMAIN a, s \in DOMAIN b :
     IF r = s THEN a[r] = b[s] ELSE r = <<>> \/ s = <<>> \/ ~Overlap(r, s)

Identical(a, b) ==
  \/ a.kind = "set" /\ b.kind = "set" /\ a.value = b.value
  \/ a.kind = "delete" /\ b.kind = "delete"
Merging(a, b) == a.kind = "merge" /\ b.kind = "merge" /\ OverlaysAgree(a.value, b.value)

\* validateParallelPatchPairByStrategy
StrategyAllows(s, a, b) ==
  CASE s = "append"  -> a.kind = "append" /\ b.kind = "append"
    [] s = "merge"   -> Merging(a, b)
    [] s = "replace" -> Identical(a, b)

\* Mutant: only writes at the very same path are compared.
IgnoresParents(a, b) == a.path # b.path
\* WriteFields at different paths agree unless one path contains the other.
Apart(a, b) == ~Overlap(a.path, b.path)

\* validateParallelPatchPair: two writes of different branches agree.
PairAgrees(ca, a, cb, b) ==
  LET reds == ReducerFor(ca, a.path) \cup ReducerFor(cb, b.path)
      strs == StrategyFor(ca, a.path) \cup StrategyFor(cb, b.path)
  IN  \/ Apart(a, b)
      \/ /\ a.path = b.path
         /\ Cardinality(reds) <= 1
         /\ IF reds \notin {{}, {""}}
              THEN \A op \in {a, b} : op.kind = "reduce" /\ {op.reducer} = reds
            ELSE /\ Cardinality(strs) <= 1
                 /\ IF strs # {} THEN \A s \in strs : StrategyAllows(s, a, b)
                    ELSE \/ a.kind = "append" /\ b.kind = "append"
                         \/ a.kind = "reduce" /\ b.kind = "reduce" /\ a.reducer = b.reducer
                         \/ Merging(a, b)
                         \/ Identical(a, b)

NoContract == [wildRead |-> TRUE, wildWrite |-> FALSE, fields |-> <<>>]
ContractOf(b) == smScene.branches[b].contract
Branches == DOMAIN smScene.branches

\* normalizeBranchPatchEntries: every patch obeys its contract.
EntriesValid(patch) ==
  \A b \in Branches : smScene.branches[b].has => PatchFits(patch[b], ContractOf(b))

NoConflicts(patch) ==
  \A a, b \in Branches : a < b =>
     \A i \in DOMAIN patch[a], j \in DOMAIN patch[b] :
        PairAgrees(ContractOf(a), patch[a][i], ContractOf(b), patch[b][j])

\* Branches are numbered in the order the scheduler gave them; finishing
\* order plays no part in the order their operations are applied in.
InOrder(patch) == FoldLeft(LAMBDA acc, b : acc \o patch[b], <<>>, [b \in Branches |-> b])

\* Mutant: the merged state is not looked at again.
TrustsBranches(t, patch) == TRUE
\* validateParallelMergeResult
MergeResultFits(t, patch) ==
  /\ \A p \in DOMAIN smScene.schemas : Found(t, p) => HasKind(Read(t, p), smScene.schemas[p])
  /\ \A b \in Branches : smScene.branches[b].has => ResultFits(t, InOrder(patch), ContractOf(b))

\* MergeParallelPatches
Merged(t, patch) ==
  LET out == Applied(t, InOrder(patch))
  IN  [ok |-> EntriesValid(patch) /\ NoConflicts(patch) /\ out.ok /\ MergeResultFits(out.st, patch),
       st |-> out.st]
-----------------------------------------------------------------------------
SmInit ==
  /\ smScene \in SmScenes
  /\ smState = smScene.base
  /\ smInput = [b \in DOMAIN smScene.branches |-> Absent]
  /\ smView = [b \in DOMAIN smScene.branches |-> Absent]
  /\ smPatch = [b \in DOMAIN smScene.branches |-> <<>>]
  /\ smSt = [b \in DOMAIN smScene.branches |-> "new"]
  /\ smPhase = "running"

\* Graph.executeTask up to the call of the node: the send input is applied and
\* checked, the state is projected and the required reads are looked for.
SmStart(b) ==
  LET br == smScene.branches[b]
      in == Applied(smState, br.input)
      ok == /\ \A i \in DOMAIN br.input : ~ReservedPath(br.input[i].path)
            /\ in.ok
            /\ br.has => /\ br.input # <<>> => InputFits(br.input, in.st, br.contract)
                         /\ ~MissingReads(Projected(in.st, br.contract), br.contract)
  IN  /\ smPhase = "running" /\ smSt[b] = "new"
      /\ smSt' = [smSt EXCEPT ![b] = IF ok THEN "exec" ELSE "failed"]
      /\ smInput' = [smInput EXCEPT ![b] = IF ok THEN in.st ELSE @]
      /\ smView' = [smView EXCEPT ![b] = IF ok THEN Projected(in.st, br.contract) ELSE @]
      /\ UNCHANGED <<smScene, smState, smPatch, smPhase>>

\* Editor.apply: the write is made on the working copy and recorded; a refused
\* write makes the node fail.
SmWrite(b, op) ==
  /\ smPhase = "running" /\ smSt[b] = "exec" /\ Len(smPatch[b]) < smScene.writes
  /\ IF OpFails(smView[b], op)
       THEN smSt' = [smSt EXCEPT ![b] = "failed"] /\ UNCHANGED <<smView, smPatch>>
       ELSE /\ smView' = [smView EXCEPT ![b] = ApplyOp(@, op)]
            /\ smPatch' = [smPatch EXCEPT ![b] = Append(@, op)]
            /\ UNCHANGED smSt
  /\ UNCHANGED <<smScene, smState, smInput, smPhase>>

\* Mutant: only the contract says what a node may write.
NothingReserved(ops) == TRUE
\* ValidateNodePatch
NodePatchFits(ops) == \A i \in DOMAIN ops : ~ReservedPath(ops[i].path)

\* ExecuteNodeWithOptions after the node returned: the patch is checked,
\* replayed on the state the node was started on and checked again.
SmFinish(b) ==
  LET br  == smScene.branches[b]
      out == Applied(smInput[b], smPatch[b])
      ok  == /\ NodePatchFits(smPatch[b])
             /\ out.ok
             /\ br.has => PatchFits(smPatch[b], br.contract) /\ ResultFits(out.st, smPatch[b], br.contract)
  IN  /\ smPhase = "running" /\ smSt[b] = "exec"
      /\ smSt' = [smSt EXCEPT ![b] = IF ok THEN "done" ELSE "failed"]
      /\ UNCHANGED <<smScene, smState, smInput, smView, smPatch, smPhase>>

\* mergeCompiledResults once every task of the wave has ended.
SmMerge ==
  LET m == Merged(smState, smPatch)
      ok == (\A b \in Branches : smSt[b] = "done") /\ m.ok
  IN  /\ smPhase = "running" /\ \A b \in Branches : smSt[b] \in {"done", "failed"}
      /\ smPhase' = IF ok THEN "merged" ELSE "failed"
      /\ smState' = IF ok THEN m.st ELSE smState
      /\ UNCHANGED <<smScene, smInput, smView, smPatch, smSt>>

\* Mutant: a resume input may hold any section.
AnySection(in) == TRUE
\* normalizeExternalState: only business sections come from outside.
ExternalFits(in) == \A q \in DOMAIN in : ~ReservedPath(q)

\* MergeResumeInput: the input is laid over the checkpointed state.
SmResume(in) ==
  /\ smPhase = "merged" /\ ExternalFits(in)
  /\ smState' = OverlayOn(smState, <<>>, in)
  /\ smPhase' = "resumed"
  /\ UNCHANGED <<smScene, smInput, smView, smPatch, smSt>>

SmRuns == \/ \E b \in Branches : SmStart(b) \/ SmFinish(b)
          \/ SmMerge
SmNext ==
  \/ SmRuns
  \/ \E b \in Branches : \E op \in smScene.branches[b].ops : SmWrite(b, op)
  \/ \E in \in smScene.inputs : SmResume(in)
-----------------------------------------------------------------------------
(* Every state and working copy is a tree: no leaf lies inside another, and   *)
(* only objects that have no key are kept as empty objects.                   *)
IsTree(t) == \A p, q \in DOMAIN t : Overlap(p, q) => p = q
SmTypeOK ==
  /\ smScene \in SmScenes
  /\ smPhase \in {"running", "merged", "failed", "resumed"}
  /\ \A b \in Branches : /\ smSt[b] \in {"new", "exec", "done", "failed"}
                         /\ IsTree(smView[b]) /\ IsTree(smInput[b])
                         /\ Len(smPatch[b]) <= smScene.writes
  /\ IsTree(smState)

Permuted(f) == FoldLeft(LAMBDA acc, i : acc \o smPatch[f[i]], <<>>, [i \in Branches |-> i])
\* Lists compared without the order of their items.
Unordered(t) == [q \in DOMAIN t |->
  IF t[q].k = "list" THEN [k |-> "list", n |-> 0, l |-> [x \in Range(t[q].l) |->
                             Cardinality({i \in DOMAIN t[q].l : t[q].l[i] = x})]]
                     ELSE [k |-> t[q].k, n |-> t[q].n, l |-> [x \in {} |-> 0]]]

(* MergeParallelPatches "rejects ambiguous overlapping writes": a wave that   *)
(* is merged would have given the same state whatever order its branches had  *)
(* been applied in, up to the order of the items branches append.             *)
MergeIsConfluent ==
  smPhase = "merged" =>
    \A f \in {g \in [Branches -> Branches] : Range(g) = Branches} :
       LET out == Applied(smScene.base, Permuted(f))
       IN  out.ok /\ Unordered(out.st) = Unordered(smState)

(* What a branch wrote is what it finds again: after the merge every path a   *)
(* branch set or deleted reads as it did in that branch's own working copy,   *)
(* every key it merged is there and every item it appended is in the list.    *)
NothingIsLost ==
  smPhase = "merged" =>
    \A b \in Branches : \A i \in DOMAIN smPatch[b] :
       LET op == smPatch[b][i]
       IN  CASE op.kind \in {"set", "delete"} -> Read(smState, op.path) = Read(smView[b], op.path)
             [] op.kind = "merge" ->
                  \A r \in DOMAIN op.value \ {<<>>} :
                     Read(smState, op.path \o r) = Read(smView[b], op.path \o r)
             [] op.kind = "append" ->
                  \/ ~IsList(Read(smView[b], op.path))
                  \/ Range(Items(op.value)) \subseteq Range(Items(Read(smState, op.path)))
             [] OTHER -> TRUE

(* A wave changes the state only where its branches declared a write, or, for *)
(* a branch without a contract, where it wrote: a send input stays with its   *)
(* task, and a write to a parent never slips past a contract for its child.   *)
ChangesAreDeclared ==
  LET open == UNION {IF smScene.branches[b].has /\ ~ContractOf(b).wildWrite
                       THEN {f.path : f \in WriteFields(ContractOf(b))}
                       ELSE {smPatch[b][i].path : i \in DOMAIN smPatch[b]} : b \in Branches}
  IN  smPhase = "merged" =>
        \A q \in DOMAIN smState \cup DOMAIN smScene.base :
           \/ \E p \in open : IsPrefix(p, q)
           \/ q \in DOMAIN smState \cap DOMAIN smScene.base /\ smState[q] = smScene.base[q]
           \/ \E p \in open : IsStrictPrefix(q, p)

(* The reserved sections belong to the runtime: neither a node's patch nor an *)
(* input given on resume ever changes them.                                   *)
ReservedIsUntouched ==
  \A s \in {<<"internal">>, <<"runtime">>} : Read(smState, s) = Read(smScene.base, s)

(* A required output with a schema is in the merged state, and fits: a value  *)
(* the branch only had in its send input does not count.                      *)
RequiredIsDelivered ==
  smPhase = "merged" =>
    \A b \in Branches : smScene.branches[b].has /\ ~ContractOf(b).wildWrite =>
      \A f \in WriteFields(ContractOf(b)) :
         f.required /\ f.kind # "" =>
            Found(smState, f.path) /\ HasKind(Read(smState, f.path), f.kind)

\* A wave is over, or waits for a node that is still writing.
SmQuiet == smPhase # "running"

\* A fan-in that is accepted keeps what every branch wrote, whatever the order of the
\* branches, and delivers what their contracts require (MergeParallelPatches).
MergeIsFaithful ==
    MergeIsConfluent /\ NothingIsLost /\ RequiredIsDelivered
=============================================================================

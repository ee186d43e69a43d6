------------------------- MODULE RunExecutionProofs -------------------------
(***************************************************************************)
(* The safety of RunExecution for any number of runners and clients, any   *)
(* lease length and any number of retries.                                 *)
(*                                                                         *)
(* The argument: an actor whose snapshot is current has read the record as *)
(* it is (ExecSnapshots, ClientSnapshots), so a commit that passes the     *)
(* revision check keeps the lease and forgets no request; epochs only grow *)
(* and no guard is above the record's, so a guard names one execution      *)
(* (Guards); and while that execution owns the lease nobody else's commit  *)
(* passes the lease check, so the run has the status it gave it (Owned).   *)
(***************************************************************************)
EXTENDS RunExecution, TLAPS

-----------------------------------------------------------------------------
(* The inductive invariant *)

\* What the place of a goroutine says about what it carries: no loop, no
\* snapshot; an acquisition has no guard; the loops that check the record when
\* they read it have a snapshot that passed the check.
WellFormed(e) ==
    /\ e.pc = "idle" => e = Idle
    /\ e.pc \in {"admit", "between", "node"} => e.goal = "none" /\ e.seen = NoRun
    /\ e.goal \in Progress => e.pc = "update"
    /\ e.goal = "acquire" =>
         /\ e.guard = 0
         /\ e.seen # NoRun => /\ e.seen.lease.epoch < EpochBound
                              /\ ~e.seen.deleting /\ e.seen.status \notin Terminal
    /\ e.goal = "release" /\ e.seen # NoRun =>
         GuardOK(e.guard, e.seen.lease) /\ ~e.seen.deleting
    /\ e.goal \in {"before", "pauseAtNode", "pauseAtWave"} /\ e.seen # NoRun =>
         e.seen.status \in Active

ExecShape == \A p \in Runner : WellFormed(exec[p])

\* s is the record r, perhaps with requests that were not persisted.
Follows(s, r) ==
    /\ s.status = r.status /\ s.checkpoint = r.checkpoint
    /\ s.lease = r.lease /\ s.deleting = r.deleting
    /\ r.cancel => s.cancel
    /\ r.pause => s.pause \/ s.cancel

FreshSnapshot(e) ==
    /\ e.seen # NoRun /\ Follows(e.seen, run)
    /\ e.goal \in {"acquire", "release"} => e.seen = run

ExecSnapshots == \A p \in Runner : p \in current => FreshSnapshot(exec[p])

\* A call addresses a runner or is one of a service, and its snapshot passed
\* the check of its operation.
ClientWellFormed(m) ==
    /\ m.op \in {"pause", "cancel"} => m.target \in Runner
    /\ m.phase \in {"lookup", "asked", "signal"} => m.op \in {"pause", "cancel"}
    /\ m.seen # NoRun /\ m.op \in {"pause", "cancel", "lost"} => m.seen.status \in Active
    /\ m.seen # NoRun /\ m.op = "cancelPaused" => m.seen.status = "paused"

ClientShape == \A c \in Client : ClientWellFormed(client[c])

ClientSnapshots ==
    \A c \in Client : c \in current => client[c].phase = "persist" /\ client[c].seen = run

\* No guard is of an epoch the record has not reached.
Guards == \A p \in Runner : exec[p].guard <= run.lease.epoch

\* The loops of an execution that may still settle the run.
Executing(e) == e.pc \in {"between", "node", "update"} \/ e.goal \in Settling

\* The owner of the lease finds the run as it left it.
Owned ==
    \A p \in Runner : Owns(p) =>
        /\ Executing(exec[p]) => run.status = "running"
        /\ exec[p].goal # "release" => run.status \notin {"completed", "failed"}

\* Before a run is created nobody has anything to do with it.
Unborn ==
    run.status = "absent" =>
        /\ run = NoRun /\ current = {}
        /\ \A p \in Runner : exec[p] = Idle
        /\ \A c \in Client : client[c] = NoCall

IInv ==
    /\ TypeOK
    /\ ExecShape
    /\ ExecSnapshots
    /\ ClientShape
    /\ ClientSnapshots
    /\ Guards
    /\ GuardsAreUnique
    /\ Owned
    /\ Unborn

-----------------------------------------------------------------------------
(* Types *)

LEMMA RecordType ==
    ASSUME NEW status \in RunStatus, NEW pause \in BOOLEAN, NEW cancel \in BOOLEAN,
           NEW checkpoint \in Stage \cup {"none"}, NEW lease \in Lease,
           NEW deleting \in BOOLEAN
    PROVE  Record(status, pause, cancel, checkpoint, lease, deleting) \in RunRecord
  BY DEF Record, RunRecord

LEMMA RunFields ==
    ASSUME NEW r \in RunRecord
    PROVE  /\ r.status \in RunStatus /\ r.pause \in BOOLEAN /\ r.cancel \in BOOLEAN
           /\ r.checkpoint \in Stage \cup {"none"} /\ r.lease \in Lease
           /\ r.deleting \in BOOLEAN
           /\ r.lease.status \in {"none", "active", "released"}
           /\ r.lease.epoch \in 0..EpochBound /\ r.lease.epoch \in Nat
  BY RunExecutionAssumption DEF RunRecord, Lease

LEMMA NoRunType == NoRun \in RunRecord /\ NoRun.status = "absent" /\ NoRun.lease.epoch = 0
  BY RunExecutionAssumption DEF NoRun, Record, RunRecord, RunStatus, Lease

\* Every record a commit writes is a record, with the lease it was computed from.
LEMMA WrittenType ==
    ASSUME NEW r \in RunRecord, NEW status \in RunStatus, NEW stage \in Stage
    PROVE  /\ Settled(r, status, r.checkpoint) \in RunRecord
           /\ Settled(r, status, stage) \in RunRecord
           /\ Canceled(r) \in RunRecord
           /\ Resumed(r) \in RunRecord
           /\ WithCheckpoint(r, stage) \in RunRecord
           /\ WithPause(r) \in RunRecord
           /\ WithCancel(r) \in RunRecord
           /\ Ended(r, status, r.checkpoint) \in RunRecord
           /\ Ended(r, status, stage) \in RunRecord
<1> USE RunFields, RecordType
<1>1. /\ "canceled" \in RunStatus /\ "paused" \in RunStatus /\ "running" \in RunStatus
  BY DEF RunStatus, Active, Terminal
<1>3. Settled(r, status, r.checkpoint) \in RunRecord /\ Settled(r, status, stage) \in RunRecord
  BY DEF Settled
<1>4. Canceled(r) \in RunRecord /\ Settled(r, "paused", r.checkpoint) \in RunRecord
  BY <1>1 DEF Canceled, Settled
<1>5. Resumed(r) \in RunRecord
  BY <1>1 DEF Resumed
<1>6. /\ WithCheckpoint(r, stage) \in RunRecord
      /\ WithPause(r) \in RunRecord
      /\ WithCancel(r) \in RunRecord
  BY DEF WithCheckpoint, WithPause, WithCancel
<1>7. Ended(r, status, r.checkpoint) \in RunRecord /\ Ended(r, status, stage) \in RunRecord
  BY <1>3, <1>4 DEF Ended
<1> QED
  BY <1>3, <1>4, <1>5, <1>6, <1>7

LEMMA LeaseTypes ==
    ASSUME NEW r \in RunRecord
    PROVE  /\ WithLease(r, Released(r.lease)) \in RunRecord
           /\ WithLease(r, Released(r.lease)).lease.epoch = r.lease.epoch
           /\ r.lease.epoch < EpochBound =>
                /\ WithLease(r, NextLease(r.lease)) \in RunRecord
                /\ WithLease(r, NextLease(r.lease)).lease
                     = [status |-> "active", epoch |-> r.lease.epoch + 1]
<1>1. Released(r.lease) \in Lease /\ Released(r.lease).epoch = r.lease.epoch
  BY RunFields DEF Released, Lease
<1>2. r.lease.epoch < EpochBound => NextLease(r.lease) \in Lease
  BY RunFields, RunExecutionAssumption DEF NextLease, Lease
<1> QED
  BY <1>1, <1>2, RunFields, RecordType DEF WithLease, Record, NextLease

LEMMA GoalNames ==
    /\ "none" \in Goal /\ "acquire" \in Goal /\ "resume" \in Goal /\ "release" \in Goal
    /\ Progress \subseteq Goal /\ Settling \subseteq Goal
    /\ 0 \in 0..EpochBound
  BY RunExecutionAssumption DEF Goal

LEMMA PhaseType ==
    ASSUME NEW pc \in {"idle", "admit", "between", "node", "update", "outside"},
           NEW goal \in Goal, NEW guard \in 0..EpochBound, NEW local \in RunRecord
    PROVE  Phase(pc, goal, guard, local) \in ExecRecord
  BY NoRunType, RunExecutionAssumption DEF Phase, ExecRecord

LEMMA ExecFields ==
    ASSUME NEW e \in ExecRecord
    PROVE  /\ e.pc \in {"idle", "admit", "between", "node", "update", "outside"}
           /\ e.goal \in Goal /\ e.guard \in 0..EpochBound /\ e.guard \in Nat
           /\ e.local \in RunRecord /\ e.seen \in RunRecord
           /\ e.retries \in 0..(RetryLimit - 1) /\ e.retries \in Nat
  BY RunExecutionAssumption DEF ExecRecord

-----------------------------------------------------------------------------
(* The kinds of steps, and what makes each of them preserve the invariant *)

\* A goroutine moves on without writing: it reads the record, leaves a loop,
\* retries or gives up.
LEMMA QuietExec ==
    ASSUME IInv, run.status # "absent",
           NEW p \in Runner, NEW e \in ExecRecord, WellFormed(e),
           exec' = [exec EXCEPT ![p] = e],
           UNCHANGED <<run, expires, checkpoints, client>>,
           e.guard = exec[p].guard \/ e.guard = 0,
           Executing(e) => Executing(exec[p]),
           exec[p].goal = "release" => e.goal = "release" \/ e.guard = 0,
           current' \subseteq current \cup {p},
           p \in current' => FreshSnapshot(e)
    PROVE  IInv'
<1> USE DEF IInv
<1>1. TypeOK'
  BY DEF TypeOK
<1>2. ExecShape'
  BY DEF TypeOK, ExecShape
<1>3. ExecSnapshots'
  <2> SUFFICES ASSUME NEW q \in Runner, q \in current'
               PROVE  FreshSnapshot(exec[q])'
    BY DEF ExecSnapshots
  <2>1. CASE q = p
    BY <2>1 DEF TypeOK, FreshSnapshot
  <2>2. CASE q # p
    BY <2>2 DEF TypeOK, ExecSnapshots, FreshSnapshot
  <2> QED
    BY <2>1, <2>2
<1>4. ClientShape' /\ ClientSnapshots'
  BY RunExecutionAssumption DEF ClientShape, ClientSnapshots
<1>5. Guards' /\ GuardsAreUnique'
  <2>1. \A q \in Runner : exec'[q].guard = exec[q].guard \/ exec'[q].guard = 0
    BY DEF TypeOK
  <2>2. run.lease.epoch \in Nat
    BY RunFields DEF TypeOK
  <2> QED
    BY <2>1, <2>2 DEF Guards, GuardsAreUnique
<1>6. Owned'
  <2> SUFFICES ASSUME NEW q \in Runner, Owns(q)'
               PROVE  /\ Executing(exec[q])' => run.status = "running"
                      /\ exec'[q].goal # "release" => run.status \notin {"completed", "failed"}
    BY DEF Owned
  <2>1. CASE q = p
    <3>1. exec'[p] = e
      BY DEF TypeOK
    <3>2. Owns(p) /\ e.guard # 0
      BY <2>1, <3>1 DEF Owns
    <3> QED
      BY <2>1, <3>1, <3>2 DEF Owned, Executing
  <2>2. CASE q # p
    <3>1. exec'[q] = exec[q]
      BY <2>2 DEF TypeOK
    <3> QED
      BY <3>1 DEF Owned, Owns, Executing
  <2> QED
    BY <2>1, <2>2
<1>7. Unborn'
  BY DEF Unborn
<1> QED
  BY <1>1, <1>2, <1>3, <1>4, <1>5, <1>6, <1>7

\* A goroutine commits a record under its own lease.
LEMMA CommitExec ==
    ASSUME IInv, NEW p \in Runner, NEW e \in ExecRecord, WellFormed(e),
           NEW r \in RunRecord, r.lease = run.lease, r.status # "absent",
           GuardOK(exec[p].guard, run.lease), Write(r),
           exec' = [exec EXCEPT ![p] = e], client' = client,
           expires' \in 0..LeaseTTL, checkpoints' \subseteq Stage,
           e.guard = exec[p].guard \/ e.guard = 0,
           Executing(e) => r.status = "running"
                             \/ (Executing(exec[p]) /\ r.status = run.status),
           e.guard # 0 /\ e.goal # "release" => r.status \notin {"completed", "failed"}
    PROVE  IInv'
<1> USE DEF IInv, Write
<1>1. TypeOK'
  BY DEF TypeOK
<1>2. ExecShape'
  BY DEF TypeOK, ExecShape
<1>3. ExecSnapshots' /\ ClientSnapshots'
  BY DEF ExecSnapshots, ClientSnapshots
<1>4. ClientShape'
  BY DEF ClientShape
<1>5. Guards' /\ GuardsAreUnique'
  <2>1. \A q \in Runner : exec'[q].guard = exec[q].guard \/ exec'[q].guard = 0
    BY DEF TypeOK
  <2>2. run.lease.epoch \in Nat
    BY RunFields DEF TypeOK
  <2> QED
    BY <2>1, <2>2 DEF Guards, GuardsAreUnique
<1>6. Owned'
  <2> SUFFICES ASSUME NEW q \in Runner, Owns(q)'
               PROVE  /\ Executing(exec[q])' => r.status = "running"
                      /\ exec'[q].goal # "release" => r.status \notin {"completed", "failed"}
    BY DEF Owned
  <2>1. CASE q = p
    <3>1. exec'[p] = e
      BY DEF TypeOK
    <3>2. Owns(p) /\ e.guard # 0
      BY <2>1, <3>1 DEF Owns
    <3> QED
      BY <2>1, <3>1, <3>2 DEF Owned, Executing
  <2>2. CASE q # p
    <3>1. exec'[q] = exec[q]
      BY <2>2 DEF TypeOK
    <3>2. exec[q].guard # 0 /\ run.lease = [status |-> "active", epoch |-> exec[q].guard]
      BY <3>1 DEF Owns
    <3>3. exec[p].guard = exec[q].guard
      BY <3>2 DEF GuardOK
    <3> QED
      BY <2>2, <3>2, <3>3 DEF GuardsAreUnique
  <2> QED
    BY <2>1, <2>2
<1>7. Unborn'
  BY DEF Unborn
<1> QED
  BY <1>1, <1>2, <1>3, <1>4, <1>5, <1>6, <1>7

\* A step that changes of the goroutines at most the requests they know of.
OnlyRequests ==
    /\ exec' \in [Runner -> ExecRecord]
    /\ \A q \in Runner :
          /\ WellFormed(exec'[q])
          /\ exec'[q].pc = exec[q].pc /\ exec'[q].goal = exec[q].goal
          /\ exec'[q].guard = exec[q].guard /\ exec'[q].seen = exec[q].seen

LEMMA SameExec ==
    ASSUME IInv, exec' = exec
    PROVE  OnlyRequests
  BY DEF OnlyRequests, IInv, TypeOK, ExecShape

LEMMA NewRequests ==
    ASSUME IInv, NEW t \in Runner, Registered(t), NEW l \in RunRecord,
           exec' = [exec EXCEPT ![t].local = l]
    PROVE  OnlyRequests
<1>1. exec \in [Runner -> ExecRecord] /\ exec[t] \in ExecRecord
  BY DEF IInv, TypeOK
<1>2. exec'[t] = [exec[t] EXCEPT !.local = l] /\ \A q \in Runner : q # t => exec'[q] = exec[q]
  BY <1>1
<1>3. exec' \in [Runner -> ExecRecord]
  BY <1>1 DEF ExecRecord
<1>4. /\ exec'[t].pc = exec[t].pc /\ exec'[t].goal = exec[t].goal
      /\ exec'[t].guard = exec[t].guard /\ exec'[t].seen = exec[t].seen
  BY <1>1, <1>2 DEF ExecRecord
<1>5. WellFormed(exec[t]) /\ exec[t].pc # "idle"
  BY DEF IInv, ExecShape, Registered
<1>6. WellFormed(exec'[t])
  BY <1>4, <1>5 DEF WellFormed
<1> QED
  BY <1>1, <1>2, <1>3, <1>4, <1>6 DEF OnlyRequests, IInv, ExecShape

\* A call of a client moves on without writing.
LEMMA QuietClient ==
    ASSUME IInv, run.status # "absent", OnlyRequests,
           NEW c \in Client, NEW m \in ClientRecord, ClientWellFormed(m),
           client' = [client EXCEPT ![c] = m],
           UNCHANGED <<run, expires, checkpoints>>,
           current' \subseteq current \cup {c},
           c \in current' => m.phase = "persist" /\ m.seen = run
    PROVE  IInv'
<1> USE DEF IInv
<1>1. TypeOK'
  BY DEF TypeOK, OnlyRequests
<1>2. ExecShape'
  BY DEF OnlyRequests, ExecShape
<1>3. ExecSnapshots'
  BY RunExecutionAssumption DEF OnlyRequests, ExecSnapshots, FreshSnapshot
<1>4. ClientShape'
  BY DEF TypeOK, ClientShape
<1>5. ClientSnapshots'
  <2> SUFFICES ASSUME NEW d \in Client, d \in current'
               PROVE  client'[d].phase = "persist" /\ client'[d].seen = run
    BY DEF ClientSnapshots
  <2>1. CASE d = c
    BY <2>1 DEF TypeOK
  <2>2. CASE d # c
    BY <2>2 DEF TypeOK, ClientSnapshots
  <2> QED
    BY <2>1, <2>2
<1>6. Guards' /\ GuardsAreUnique'
  BY DEF OnlyRequests, Guards, GuardsAreUnique
<1>7. Owned'
  BY DEF OnlyRequests, Owned, Owns, Executing
<1>8. Unborn'
  BY DEF Unborn
<1> QED
  BY <1>1, <1>2, <1>3, <1>4, <1>5, <1>6, <1>7, <1>8

\* A client commits a record: with the lease it read and the status it read,
\* canceled if that was paused, or without a lease.
LEMMA CommitClient ==
    ASSUME IInv, OnlyRequests,
           NEW c \in Client, NEW m \in ClientRecord, ClientWellFormed(m),
           client' = [client EXCEPT ![c] = m],
           NEW r \in RunRecord, r.status # "absent", Write(r),
           r.lease.epoch = run.lease.epoch,
           r.lease.status = "active" =>
             /\ r.lease = run.lease
             /\ r.status = run.status \/ (run.status = "paused" /\ r.status = "canceled"),
           expires' \in 0..LeaseTTL, checkpoints' = checkpoints
    PROVE  IInv'
<1> USE DEF IInv, Write
<1>1. TypeOK'
  BY DEF TypeOK, OnlyRequests
<1>2. ExecShape'
  BY DEF OnlyRequests, ExecShape
<1>3. ExecSnapshots' /\ ClientSnapshots'
  BY DEF ExecSnapshots, ClientSnapshots
<1>4. ClientShape'
  BY DEF TypeOK, ClientShape
<1>5. Guards' /\ GuardsAreUnique'
  BY DEF OnlyRequests, Guards, GuardsAreUnique
<1>6. Owned'
  BY DEF OnlyRequests, Owned, Owns, Executing
<1>7. Unborn'
  BY DEF Unborn
<1> QED
  BY <1>1, <1>2, <1>3, <1>4, <1>5, <1>6, <1>7

-----------------------------------------------------------------------------
(* Where a goroutine goes next *)

LEMMA ExecFacts ==
    ASSUME IInv, NEW p \in Runner
    PROVE  /\ exec \in [Runner -> ExecRecord] /\ exec[p] \in ExecRecord /\ WellFormed(exec[p])
           /\ run \in RunRecord
           /\ exec[p] # Idle => run.status # "absent"
           /\ exec[p].seen # NoRun => run.status # "absent"
  BY DEF IInv, TypeOK, ExecShape, Unborn, Idle, Phase

LEMMA PhaseFields ==
    ASSUME NEW pc, NEW goal, NEW guard, NEW local
    PROVE  LET e == Phase(pc, goal, guard, local)
           IN  /\ e.pc = pc /\ e.goal = goal /\ e.guard = guard /\ e.local = local
               /\ e.seen = NoRun
  BY DEF Phase

\* A loop that is entered has no snapshot yet.
LEMMA PhaseShape ==
    ASSUME NEW pc, NEW goal, NEW guard, NEW local,
           pc # "idle", pc \in {"admit", "between", "node"} => goal = "none",
           goal \in Progress => pc = "update", goal = "acquire" => guard = 0
    PROVE  WellFormed(Phase(pc, goal, guard, local))
  BY PhaseFields DEF WellFormed

LEMMA IdleFacts ==
    /\ Idle \in ExecRecord /\ WellFormed(Idle) /\ ~Executing(Idle)
    /\ Idle.guard = 0 /\ Idle.seen = NoRun /\ Idle.pc = "idle" /\ Idle.goal = "none"
<1>1. Idle \in ExecRecord
  BY PhaseType, NoRunType, RunExecutionAssumption DEF Idle, Goal
<1>2. Idle.guard = 0 /\ Idle.seen = NoRun /\ Idle.pc = "idle" /\ Idle.goal = "none"
  BY DEF Idle, Phase
<1> QED
  BY <1>1, <1>2 DEF WellFormed, Executing, Progress, Settling

LEMMA FinishedFacts ==
    ASSUME NEW e \in ExecRecord
    PROVE  /\ Finished(e) \in ExecRecord /\ WellFormed(Finished(e))
           /\ ~Executing(Finished(e))
           /\ Finished(e).guard = e.guard /\ Finished(e).seen = NoRun
           /\ Finished(e).guard # 0 => Finished(e).goal = "release"
<1>1. CASE e.guard = 0
  BY <1>1, IdleFacts DEF Finished
<1>2. CASE e.guard # 0
  <2>1. Finished(e) = Phase("outside", "release", e.guard, NoRun)
    BY <1>2 DEF Finished, Outside
  <2>a. "release" \in Goal /\ e.guard \in 0..EpochBound
    BY ExecFields DEF Goal
  <2>2. Finished(e) \in ExecRecord
    BY <2>1, <2>a, PhaseType, NoRunType
  <2>3. WellFormed(Finished(e))
    BY <2>1, PhaseShape DEF Progress
  <2> QED
    BY <2>1, <2>2, <2>3, PhaseFields DEF Executing, Settling
<1> QED
  BY <1>1, <1>2

LEMMA EndGoalFacts ==
    ASSUME NEW local, NEW goal
    PROVE  EndGoal(local, goal) \in {"cancel", goal}
  BY DEF EndGoal

\* A loop that is entered from another one inside execute.
LEMMA LoopFacts ==
    ASSUME NEW pc \in {"update", "outside"}, NEW goal \in Settling \cup Progress,
           goal \in Progress => pc = "update",
           NEW guard \in 0..EpochBound, NEW local \in RunRecord
    PROVE  /\ Phase(pc, goal, guard, local) \in ExecRecord
           /\ WellFormed(Phase(pc, goal, guard, local))
           /\ Phase(pc, goal, guard, local).guard = guard
           /\ Phase(pc, goal, guard, local).seen = NoRun
           /\ Phase(pc, goal, guard, local).goal = goal
<1>1. goal \in Goal /\ goal # "acquire"
  BY DEF Goal, Settling, Progress
<1> QED
  BY <1>1, PhaseType, PhaseShape, PhaseFields

LEMMA StoppedFacts ==
    ASSUME NEW e \in ExecRecord, e.pc \in {"update", "outside"},
           e.goal \in Progress => e.pc = "update"
    PROVE  /\ Stopped(e) \in ExecRecord /\ WellFormed(Stopped(e))
           /\ Stopped(e).guard = e.guard \/ Stopped(e).guard = 0
           /\ Stopped(e).seen = NoRun
           /\ Executing(Stopped(e)) => Executing(e)
           /\ e.goal = "release" => Stopped(e).guard = 0
<1>1. CASE e.goal \in Progress
  <2>1. Stopped(e) = Phase("update", EndGoal(e.local, "fail"), e.guard, e.local)
    BY <1>1 DEF Stopped, Go
  <2>2. EndGoal(e.local, "fail") \in Settling
    BY EndGoalFacts DEF Settling
  <2> QED
    BY <1>1, <2>1, <2>2, LoopFacts, ExecFields DEF Executing, Progress
<1>2. CASE e.goal \in {"acquire", "release"}
  <2>1. Stopped(e) = Idle
    BY <1>2 DEF Stopped, Progress
  <2> QED
    BY <2>1, IdleFacts
<1>3. CASE e.goal \notin Progress \cup {"acquire", "release"}
  <2>1. Stopped(e) = Finished(e)
    BY <1>3 DEF Stopped
  <2> QED
    BY <1>3, <2>1, FinishedFacts
<1> QED
  BY <1>1, <1>2, <1>3

-----------------------------------------------------------------------------
(* Runners: starting, resuming, the lease *)

LEMMA InitInv ==
    ASSUME Init
    PROVE  IInv
<1>1. TypeOK
  BY NoRunType, IdleFacts, RunExecutionAssumption
     DEF Init, TypeOK, NoCall, Call, ClientRecord
<1>2. \A p \in Runner : exec[p] = Idle
  BY DEF Init
<1>3. \A c \in Client : client[c] = NoCall
  BY DEF Init
<1>4. ClientShape
  BY <1>3 DEF ClientShape, ClientWellFormed, NoCall, Call
<1>5. run = NoRun /\ current = {}
  BY DEF Init
<1> QED
  BY <1>1, <1>2, <1>3, <1>4, <1>5, IdleFacts, NoRunType
     DEF IInv, ExecShape, ExecSnapshots, ClientSnapshots, Guards, GuardsAreUnique,
         Owned, Owns, Unborn

\* A runner that gets a lease of a new epoch: Start and AcquireLease.
LEMMA NewLease ==
    ASSUME IInv, NEW p \in Runner, exec[p].guard = 0,
           NEW r \in RunRecord, r.status # "absent",
           r.lease = [status |-> "active", epoch |-> run.lease.epoch + 1], Write(r),
           NEW e \in ExecRecord, WellFormed(e), e.guard = r.lease.epoch,
           Executing(e) => r.status = "running",
           r.status \notin {"completed", "failed"},
           exec' = [exec EXCEPT ![p] = e], client' = client,
           expires' \in 0..LeaseTTL, checkpoints' \subseteq Stage
    PROVE  IInv'
<1> USE DEF IInv, Write
<1>1. TypeOK'
  BY DEF TypeOK
<1>2. ExecShape'
  BY DEF TypeOK, ExecShape
<1>3. ExecSnapshots' /\ ClientSnapshots'
  BY DEF ExecSnapshots, ClientSnapshots
<1>4. ClientShape'
  BY DEF ClientShape
<1>5. \A q \in Runner : exec'[q] = IF q = p THEN e ELSE exec[q]
  BY DEF TypeOK
<1>6. run.lease.epoch \in Nat /\ \A q \in Runner : exec[q].guard \in Nat
  BY RunFields, ExecFields DEF TypeOK
<1>7. Guards' /\ GuardsAreUnique'
  BY <1>5, <1>6 DEF Guards, GuardsAreUnique
<1>8. Owned'
  <2> SUFFICES ASSUME NEW q \in Runner, Owns(q)'
               PROVE  q = p
    BY <1>5 DEF Owned, Executing
  <2>1. exec'[q].guard = run.lease.epoch + 1
    BY DEF Owns
  <2> QED
    BY <1>5, <1>6, <2>1 DEF Guards
<1>9. Unborn'
  BY DEF Unborn
<1> QED
  BY <1>1, <1>2, <1>3, <1>4, <1>7, <1>8, <1>9

LEMMA StartInv ==
    ASSUME IInv, NEW p \in Runner, Start(p)
    PROVE  IInv'
<1> DEFINE r == Record("running", FALSE, FALSE, "node", NextLease(run.lease), FALSE)
           e == Phase("between", "none", r.lease.epoch, r)
<1>1. run = NoRun /\ exec[p].guard = 0
  BY IdleFacts DEF Start, IInv, Unborn
<1>2. NextLease(run.lease) = [status |-> "active", epoch |-> run.lease.epoch + 1]
  BY DEF NextLease
<1>3. NextLease(run.lease) \in Lease /\ run.lease.epoch = 0
  BY <1>1, <1>2, NoRunType, RunExecutionAssumption DEF Start, Lease
<1>4. /\ r.lease = [status |-> "active", epoch |-> run.lease.epoch + 1]
      /\ r.lease.epoch \in 0..EpochBound /\ r.status = "running"
  BY <1>2, <1>3 DEF Record, Lease
<1>5. r \in RunRecord
  BY <1>3, RecordType DEF RunStatus, Active, Stage
<1> HIDE DEF r
<1>6. e \in ExecRecord
  BY <1>4, <1>5, PhaseType DEF Goal
<1>7. WellFormed(e) /\ e.guard = r.lease.epoch
  BY PhaseShape, PhaseFields DEF Progress
<1> HIDE DEF e
<1>8. Write(r) /\ exec' = [exec EXCEPT ![p] = e] /\ client' = client
  BY DEF Start, Become, r, e
<1>9. expires' \in 0..LeaseTTL /\ checkpoints' \subseteq Stage
  BY RunExecutionAssumption DEF Start, Stage
<1> QED
  BY <1>1, <1>4, <1>5, <1>6, <1>7, <1>8, <1>9, NewLease

LEMMA EnqueueStartInv ==
    ASSUME IInv, EnqueueStart
    PROVE  IInv'
<1> DEFINE r == Record("pending", FALSE, FALSE, "node", run.lease, FALSE)
<1>1. run = NoRun /\ current = {} /\ \A p \in Runner : exec[p] = Idle
  BY DEF IInv, Unborn, EnqueueStart
<1>2. run.lease \in Lease
  BY RunFields DEF IInv, TypeOK
<1>3. r \in RunRecord /\ r.status = "pending"
  BY <1>2, RecordType DEF RunStatus, Active, Stage, Record
<1>4. run' = r /\ current' = {} /\ r.lease = run.lease
  BY DEF EnqueueStart, Write, Record
<1> HIDE DEF r
<1>5. checkpoints' \subseteq Stage /\ UNCHANGED <<expires, exec, client>>
  BY DEF EnqueueStart, Stage
<1> QED
  BY <1>1, <1>3, <1>4, <1>5, IdleFacts
     DEF IInv, TypeOK, ExecShape, ExecSnapshots, ClientShape, ClientSnapshots,
         Guards, GuardsAreUnique, Owned, Owns, Unborn

LEMMA ResumeInv ==
    ASSUME IInv, NEW p \in Runner, Resume(p)
    PROVE  IInv'
<1>0. run.status # "absent" /\ exec[p].guard = 0 /\ p \notin current
  <2>1. CASE exec[p].pc = "idle" /\ run.status # "absent"
    BY <2>1, IdleFacts DEF IInv, ExecShape, WellFormed, ExecSnapshots, FreshSnapshot
  <2>2. CASE exec[p].goal = "acquire" /\ exec[p].seen = NoRun
    BY <2>2, ExecFacts, IdleFacts DEF IInv, ExecShape, WellFormed, ExecSnapshots, FreshSnapshot
  <2> QED
    BY <2>1, <2>2 DEF Resume
<1>1. UNCHANGED <<run, expires, checkpoints, client>>
  BY DEF Resume
<1>2. CASE Become(p, Idle) /\ UNCHANGED current
  BY <1>0, <1>1, <1>2, IdleFacts, QuietExec DEF Become
<1>3. CASE Become(p, Phase("admit", "none", 0, run)) /\ UNCHANGED current
  <2> DEFINE e == Phase("admit", "none", 0, run)
  <2>1. e \in ExecRecord
    BY PhaseType, ExecFacts, RunExecutionAssumption DEF Goal
  <2>2. WellFormed(e) /\ e.guard = 0 /\ ~Executing(e)
    BY PhaseShape, PhaseFields DEF Progress, Executing, Settling
  <2> HIDE DEF e
  <2> QED
    BY <1>0, <1>1, <1>3, <2>1, <2>2, QuietExec DEF Become, e
<1>4. ASSUME ~run.deleting, run.lease.epoch < EpochBound, run.status \notin Terminal,
             Become(p, [Phase("outside", "acquire", 0, NoRun)
                          EXCEPT !.seen = run, !.retries = exec[p].retries]),
             current' = current \cup {p}
      PROVE  IInv'
  <2> DEFINE x == Phase("outside", "acquire", 0, NoRun)
             e == [x EXCEPT !.seen = run, !.retries = exec[p].retries]
  <2>0. x \in ExecRecord /\ x.pc = "outside" /\ x.goal = "acquire" /\ x.guard = 0
    BY PhaseType, PhaseFields, NoRunType, GoalNames
  <2>a. exec' = [exec EXCEPT ![p] = e]
    BY <1>4 DEF Become
  <2> HIDE DEF x
  <2>b. run \in RunRecord /\ exec[p].retries \in 0..(RetryLimit - 1)
    BY ExecFacts, ExecFields
  <2>2. e \in ExecRecord
    BY <2>0, <2>b DEF ExecRecord
  <2>1. e.pc = "outside" /\ e.goal = "acquire" /\ e.guard = 0 /\ e.seen = run
    BY <2>0 DEF ExecRecord
  <2>3. run # NoRun
    BY <1>0, NoRunType
  <2>4. WellFormed(e) /\ ~Executing(e) /\ e.guard = 0
    BY <1>4, <2>1 DEF WellFormed, Executing, Settling, Progress
  <2>5. FreshSnapshot(e)
    BY <2>1, <2>3 DEF FreshSnapshot, Follows
  <2> HIDE DEF e
  <2> QED
    BY <1>0, <1>1, <1>4, <2>2, <2>4, <2>5, <2>a, QuietExec
<1> QED
  BY <1>2, <1>3, <1>4 DEF Resume

LEMMA AcquireLeaseInv ==
    ASSUME IInv, NEW p \in Runner, AcquireLease(p)
    PROVE  IInv'
<1> DEFINE r == WithLease(exec[p].seen, NextLease(exec[p].seen.lease))
           e == Phase("admit", "none", r.lease.epoch, r)
<1>1. /\ exec[p].seen = run /\ exec[p].guard = 0
      /\ run.lease.epoch < EpochBound /\ run.status \notin Terminal
  BY DEF AcquireLease, Ready, RevisionMatches, IInv, ExecSnapshots, FreshSnapshot,
         ExecShape, WellFormed
<1>2. run.status # "absent" /\ run \in RunRecord
  BY ExecFacts DEF AcquireLease, Ready
<1>3. /\ r \in RunRecord /\ r.lease = [status |-> "active", epoch |-> run.lease.epoch + 1]
      /\ r.status = run.status
  BY <1>1, <1>2, LeaseTypes DEF WithLease, Record
<1>4. run.status \notin {"completed", "failed"}
  BY <1>1 DEF Terminal
<1>5. Write(r) /\ exec' = [exec EXCEPT ![p] = e] /\ client' = client
  BY DEF AcquireLease, Become
<1>6. expires' \in 0..LeaseTTL /\ checkpoints' \subseteq Stage
  BY RunExecutionAssumption DEF AcquireLease, IInv, TypeOK
<1> HIDE DEF r
<1>7. r.lease.epoch \in 0..EpochBound
  BY <1>3, RunFields
<1>8. e \in ExecRecord
  BY <1>3, <1>7, PhaseType, GoalNames
<1>9. WellFormed(e) /\ e.guard = r.lease.epoch /\ ~Executing(e)
  BY PhaseShape, PhaseFields DEF Progress, Executing, Settling
<1> HIDE DEF e
<1> QED
  BY <1>1, <1>2, <1>3, <1>4, <1>5, <1>6, <1>8, <1>9, NewLease

LEMMA AdmitInv ==
    ASSUME IInv, NEW p \in Runner, Admit(p)
    PROVE  IInv'
<1>1. /\ exec[p].pc = "admit" /\ exec[p].goal = "none" /\ exec[p].seen = NoRun
      /\ exec[p] # Idle
  BY IdleFacts DEF Admit, IInv, ExecShape, WellFormed
<1>2. /\ run.status # "absent" /\ exec[p] \in ExecRecord /\ p \notin current
      /\ UNCHANGED <<run, expires, checkpoints, client, current>>
  BY <1>1, ExecFacts DEF Admit, IInv, ExecSnapshots, FreshSnapshot
<1>3. CASE Become(p, Finished(exec[p]))
  BY <1>1, <1>2, <1>3, FinishedFacts, QuietExec DEF Become
<1>4. CASE Become(p, Outside(exec[p], "resume", exec[p].local))
  <2> DEFINE e == Phase("outside", "resume", exec[p].guard, exec[p].local)
  <2>1. e \in ExecRecord
    BY <1>2, PhaseType, GoalNames, ExecFields
  <2>2. WellFormed(e) /\ e.guard = exec[p].guard /\ ~Executing(e)
    BY PhaseShape, PhaseFields DEF Progress, Executing, Settling
  <2>3. exec' = [exec EXCEPT ![p] = e]
    BY <1>4 DEF Become, Outside
  <2> HIDE DEF e
  <2> QED
    BY <1>1, <1>2, <2>1, <2>2, <2>3, QuietExec
<1> QED
  BY <1>3, <1>4 DEF Admit

LEMMA HeartbeatInv ==
    ASSUME IInv, NEW p \in Runner, Heartbeat(p)
    PROVE  IInv'
<1>1. exec[p].guard # 0 /\ GuardOK(exec[p].guard, run.lease) /\ exec[p].goal # "release"
  BY DEF Heartbeat
<1>2. run.status # "absent"
  BY <1>1, ExecFacts, IdleFacts
<1>3. Write(run) /\ exec' = exec /\ client' = client
  BY DEF Heartbeat
<1>4. expires' \in 0..LeaseTTL /\ checkpoints' \subseteq Stage
  BY RunExecutionAssumption DEF Heartbeat, IInv, TypeOK
<1>5. exec' = [exec EXCEPT ![p] = exec[p]]
  BY <1>3, ExecFacts
<1>6. Owns(p)
  BY <1>1 DEF Owns, GuardOK
<1>7. run.status \notin {"completed", "failed"}
  BY <1>1, <1>6 DEF IInv, Owned
<1> QED
  BY <1>1, <1>2, <1>3, <1>4, <1>5, <1>7, ExecFacts, CommitExec

LEMMA LoadForReleaseInv ==
    ASSUME IInv, NEW p \in Runner, LoadForRelease(p)
    PROVE  IInv'
<1>1. /\ exec[p].goal = "release" /\ exec[p].seen = NoRun /\ exec[p] # Idle
      /\ UNCHANGED <<run, expires, checkpoints, client>>
  BY IdleFacts DEF LoadForRelease
<1>2. /\ run.status # "absent" /\ exec[p] \in ExecRecord /\ p \notin current
      /\ WellFormed(exec[p])
  BY <1>1, ExecFacts DEF IInv, ExecSnapshots, FreshSnapshot
<1>3. CASE Become(p, Idle) /\ UNCHANGED current
  BY <1>1, <1>2, <1>3, IdleFacts, QuietExec DEF Become
<1>4. ASSUME ~run.deleting, GuardOK(exec[p].guard, run.lease),
             Become(p, [exec[p] EXCEPT !.seen = run]), current' = current \cup {p}
      PROVE  IInv'
  <2> DEFINE e == [exec[p] EXCEPT !.seen = run]
  <2>1. e \in ExecRecord
    BY <1>2, ExecFacts DEF ExecRecord
  <2>2. e.pc = exec[p].pc /\ e.goal = "release" /\ e.guard = exec[p].guard /\ e.seen = run
    BY <1>1, <1>2 DEF ExecRecord
  <2>3. exec' = [exec EXCEPT ![p] = e]
    BY <1>4 DEF Become
  <2> HIDE DEF e
  <2>4. e.pc # "idle" /\ e.pc \notin {"admit", "between", "node"}
    BY <1>1, <1>2, <2>2, IdleFacts DEF WellFormed
  <2>5. WellFormed(e)
    BY <1>4, <2>2, <2>4 DEF WellFormed, Progress
  <2>6. FreshSnapshot(e)
    BY <1>2, <2>2, NoRunType DEF FreshSnapshot, Follows
  <2>7. Executing(e) => Executing(exec[p])
    BY <1>1, <2>2 DEF Executing
  <2> QED
    BY <1>1, <1>2, <1>4, <2>1, <2>2, <2>3, <2>5, <2>6, <2>7, QuietExec
<1> QED
  BY <1>3, <1>4 DEF LoadForRelease

LEMMA ReleaseLeaseInv ==
    ASSUME IInv, NEW p \in Runner, ReleaseLease(p)
    PROVE  IInv'
<1> DEFINE r == WithLease(exec[p].seen, Released(exec[p].seen.lease))
<1>1. exec[p].seen = run /\ GuardOK(exec[p].guard, run.lease)
  BY DEF ReleaseLease, Ready, RevisionMatches, IInv, ExecSnapshots, FreshSnapshot,
         ExecShape, WellFormed
<1>2. run.status # "absent" /\ run \in RunRecord /\ exec \in [Runner -> ExecRecord]
  BY ExecFacts DEF ReleaseLease, Ready
<1>3. /\ r \in RunRecord /\ r.lease.status = "released"
      /\ r.lease.epoch = run.lease.epoch /\ r.status = run.status
  BY <1>1, <1>2, LeaseTypes DEF WithLease, Record, Released
<1>4. /\ run' = r /\ current' = {} /\ exec' = [exec EXCEPT ![p] = Idle]
      /\ client' = client /\ checkpoints' = checkpoints /\ expires' = 0
  BY DEF ReleaseLease, Become, Write
<1> HIDE DEF r
<1>5. \A q \in Runner : exec'[q] = IF q = p THEN Idle ELSE exec[q]
  BY <1>2, <1>4
<1> USE DEF IInv
<1>6. TypeOK'
  BY <1>3, <1>4, IdleFacts, RunExecutionAssumption DEF TypeOK
<1>7. ExecShape' /\ ExecSnapshots' /\ ClientShape' /\ ClientSnapshots'
  BY <1>4, <1>5, IdleFacts DEF ExecShape, ExecSnapshots, ClientShape, ClientSnapshots
<1>8. Guards' /\ GuardsAreUnique'
  BY <1>2, <1>3, <1>4, <1>5, IdleFacts, RunFields DEF Guards, GuardsAreUnique
<1>9. Owned' /\ Unborn'
  BY <1>2, <1>3, <1>4 DEF Owned, Owns, Unborn
<1> QED
  BY <1>6, <1>7, <1>8, <1>9

-----------------------------------------------------------------------------
(* Runners: the loops of an execution *)

\* The loop an execution enters is one of execute, of its end or of a
\* resumption, and stays inside execute if the execution is.
LEMMA GoalsFacts ==
    ASSUME NEW e \in ExecRecord, WellFormed(e), NEW goal \in Goals(e)
    PROVE  /\ goal \in Progress \cup Settling \cup {"resume"}
           /\ goal \in Progress => e.pc \in {"between", "node", "update"}
           /\ goal \in Settling => Executing(e)
           /\ e.pc \notin {"idle", "admit"}
           /\ e.goal # "release"
<1>1. CASE e.pc = "between"
  BY <1>1 DEF Goals, EndGoal, Progress, Settling, Executing, WellFormed
<1>2. CASE e.pc = "node"
  BY <1>2 DEF Goals, EndGoal, Progress, Settling, Executing, WellFormed
<1>3. CASE e.pc \notin {"between", "node"}
  <2>1. goal = e.goal /\ goal \in Progress \cup Settling \cup {"resume"}
    BY <1>3 DEF Goals
  <2>2. e.pc \notin {"idle", "admit"}
    BY <2>1, IdleFacts DEF WellFormed, Progress, Settling
  <2> QED
    BY <2>1, <2>2 DEF WellFormed, Progress, Settling, Executing
<1> QED
  BY <1>1, <1>2, <1>3

LEMMA RequestsFollow ==
    ASSUME NEW r \in RunRecord, NEW l \in RunRecord
    PROVE  /\ WithRequests(r, l) \in RunRecord /\ Follows(WithRequests(r, l), r)
           /\ WithProgressRequests(r, l) \in RunRecord
           /\ Follows(WithProgressRequests(r, l), r)
<1>1. WithRequests(r, l) \in RunRecord /\ WithProgressRequests(r, l) \in RunRecord
  BY RunFields, RecordType DEF WithRequests, WithProgressRequests
<1> QED
  BY <1>1, RunFields DEF Follows, WithRequests, WithProgressRequests, Record

LEMMA LoadInv ==
    ASSUME IInv, NEW p \in Runner, Load(p)
    PROVE  IInv'
<1>1. /\ exec[p] \in ExecRecord /\ WellFormed(exec[p]) /\ exec[p].seen = NoRun
      /\ run \in RunRecord
      /\ UNCHANGED <<run, expires, checkpoints, client>>
  BY ExecFacts DEF Load
<1>2. p \notin current
  BY <1>1 DEF IInv, ExecSnapshots, FreshSnapshot
<1> DEFINE Entered(goal) == [exec[p] EXCEPT !.goal = goal,
                               !.pc = IF Registered(p) THEN "update" ELSE "outside"]
           Seen(goal) == IF goal \in Progress
                         THEN WithProgressRequests(run, Entered(goal).local)
                         ELSE WithRequests(run, Entered(goal).local)
<1>3. PICK goal \in Goals(exec[p]) :
        IF Readable(Entered(goal))
        THEN /\ Become(p, [Entered(goal) EXCEPT !.seen = Seen(goal)])
             /\ current' = current \cup {p}
        ELSE Become(p, Stopped(Entered(goal))) /\ UNCHANGED current
  BY DEF Load
<1> DEFINE e == Entered(goal)
<1>4. /\ goal \in Progress \cup Settling \cup {"resume"}
      /\ goal \in Progress => Registered(p)
      /\ goal \in Settling => Executing(exec[p])
      /\ exec[p].pc \notin {"idle", "admit"} /\ exec[p].goal # "release"
  BY <1>1, GoalsFacts DEF Registered
<1>5. goal \in Goal
  BY <1>4, GoalNames
<1>6. e \in ExecRecord
  BY <1>1, <1>5 DEF ExecRecord
<1>7. /\ e.goal = goal /\ e.pc = IF Registered(p) THEN "update" ELSE "outside"
      /\ e.guard = exec[p].guard /\ e.local = exec[p].local /\ e.seen = NoRun
  BY <1>1 DEF ExecRecord
<1>8. run.status # "absent"
  BY <1>4, ExecFacts, IdleFacts
<1>a. e.pc \in {"update", "outside"} /\ (goal \in Progress => e.pc = "update")
  BY <1>4, <1>7
<1>b. Executing(e) => Executing(exec[p])
  BY <1>4, <1>7 DEF Executing, Registered
<1>9. CASE ~Readable(e)
  <2>1. exec' = [exec EXCEPT ![p] = Stopped(e)] /\ current' = current
    BY <1>3, <1>9 DEF Become
  <2> HIDE DEF e
  <2> QED
    BY <1>1, <1>2, <1>4, <1>6, <1>7, <1>8, <1>a, <1>b, <2>1, StoppedFacts, QuietExec
<1>10. CASE Readable(e)
  <2> DEFINE s == Seen(goal)
             x == [e EXCEPT !.seen = s]
  <2>1. exec' = [exec EXCEPT ![p] = x] /\ current' = current \cup {p}
    BY <1>3, <1>10 DEF Become
  <2>a. s = IF goal \in Progress THEN WithProgressRequests(run, e.local)
                                 ELSE WithRequests(run, e.local)
    OBVIOUS
  <2>3. Readable(e)
    BY <1>10
  <2> HIDE DEF s, e
  <2>b. e.local \in RunRecord
    BY <1>6, ExecFields
  <2>2. s \in RunRecord /\ Follows(s, run)
    BY <1>1, <2>a, <2>b, RequestsFollow
  <2>4. x \in ExecRecord
    BY <1>6, <2>2 DEF ExecRecord
  <2>5. /\ x.goal = goal /\ x.pc = e.pc /\ x.guard = exec[p].guard /\ x.seen = s
    BY <1>6, <1>7 DEF ExecRecord
  <2> HIDE DEF x
  <2>6. goal \notin {"acquire", "release"}
    BY <1>4 DEF Progress, Settling
  <2>7. goal \in {"before", "pauseAtNode", "pauseAtWave"} => s.status \in Active
    BY <1>7, <2>2, <2>3 DEF Readable, Follows
  <2>8. WellFormed(x)
    BY <1>a, <2>5, <2>6, <2>7 DEF WellFormed
  <2>9. FreshSnapshot(x)
    <3>1. s # NoRun
      BY <1>8, <2>2, NoRunType DEF Follows
    <3> QED
      BY <2>2, <2>5, <2>6, <3>1 DEF FreshSnapshot
  <2>10. Executing(x) => Executing(exec[p])
    BY <1>7, <1>b, <2>5 DEF Executing
  <2> QED
    BY <1>1, <1>4, <1>8, <2>1, <2>4, <2>5, <2>8, <2>9, <2>10, QuietExec
<1> QED
  BY <1>9, <1>10

LEMMA LeaveInv ==
    ASSUME IInv, NEW p \in Runner, Leave(p)
    PROVE  IInv'
<1> DEFINE e == exec[p]
<1>1. /\ e \in ExecRecord /\ WellFormed(e) /\ e.seen # NoRun /\ Leaves(e)
      /\ run.status # "absent" /\ p \notin current' /\ current' \subseteq current
      /\ UNCHANGED <<run, expires, checkpoints, client>>
  BY ExecFacts DEF Leave
<1>2. /\ e.goal \in {"before", "after", "resume"} \cup Settling
      /\ e.pc \in {"update", "outside"}
  BY <1>1, IdleFacts, ExecFields DEF Leaves, Settling, WellFormed
<1>3. CASE e.goal \in {"before", "pauseAtNode", "pauseAtWave"}
  <2> DEFINE x == Phase(e.pc, "cancel", e.guard, e.seen)
  <2>1. exec' = [exec EXCEPT ![p] = x]
    BY <1>3 DEF Leave, Become, Go
  <2>2. "cancel" \in Settling /\ "cancel" \notin Progress
    BY DEF Settling, Progress
  <2>5. e.seen \in RunRecord /\ e.guard \in 0..EpochBound
    BY <1>1, ExecFields
  <2>3. x \in ExecRecord /\ WellFormed(x) /\ x.guard = e.guard
    BY <1>2, <2>2, <2>5, LoopFacts
  <2>4. Executing(e)
    BY <1>1, <1>3 DEF Executing, WellFormed, Settling, Progress
  <2> HIDE DEF x
  <2> QED
    BY <1>1, <1>3, <2>1, <2>3, <2>4, QuietExec
<1>4. CASE e.goal = "after"
  <2> DEFINE x == Phase(e.pc, EndGoal(e.local, "fail"), e.guard, e.local)
  <2>1. exec' = [exec EXCEPT ![p] = x]
    BY <1>4 DEF Leave, Become, Go
  <2>2. EndGoal(e.local, "fail") \in Settling /\ EndGoal(e.local, "fail") \notin Progress
    BY EndGoalFacts DEF Settling, Progress
  <2>5. e.local \in RunRecord /\ e.guard \in 0..EpochBound
    BY <1>1, ExecFields
  <2>3. x \in ExecRecord /\ WellFormed(x) /\ x.guard = e.guard
    BY <1>2, <2>2, <2>5, LoopFacts
  <2>4. Executing(e)
    BY <1>1, <1>4 DEF Executing, WellFormed, Progress
  <2> HIDE DEF x
  <2> QED
    BY <1>1, <1>4, <2>1, <2>3, <2>4, QuietExec
<1>5. CASE e.goal \notin {"before", "after", "pauseAtNode", "pauseAtWave"}
  <2>1. exec' = [exec EXCEPT ![p] = Finished(e)]
    BY <1>5 DEF Leave, Become
  <2>2. e.goal # "release"
    BY <1>2 DEF Settling
  <2> QED
    BY <1>1, <2>1, <2>2, FinishedFacts, QuietExec
<1> QED
  BY <1>3, <1>4, <1>5

\* A goroutine in a loop that has read the record.
LEMMA InLoop ==
    ASSUME IInv, NEW p \in Runner, exec[p].seen # NoRun
    PROVE  /\ exec[p].pc \in {"update", "outside"} /\ run.status # "absent"
           /\ exec[p] \in ExecRecord /\ WellFormed(exec[p])
           /\ exec[p].goal \in Progress => exec[p].pc = "update"
  BY ExecFacts, IdleFacts, ExecFields DEF WellFormed

LEMMA ConflictInv ==
    ASSUME IInv, NEW p \in Runner, Conflict(p)
    PROVE  IInv'
<1> DEFINE e == exec[p]
<1>1. /\ e.seen # NoRun /\ p \notin current
      /\ UNCHANGED <<run, expires, checkpoints, client, current>>
  BY DEF Conflict, RevisionMatches
<1>2. CASE RetriesLeft(e.retries)
  <2> DEFINE x == [e EXCEPT !.seen = NoRun, !.retries = e.retries + 1]
  <2>1. exec' = [exec EXCEPT ![p] = x]
    BY <1>2 DEF Conflict, Become
  <2>2. e \in ExecRecord /\ WellFormed(e) /\ e.retries + 1 \in 0..(RetryLimit - 1)
    BY <1>1, <1>2, InLoop, ExecFields, RunExecutionAssumption DEF RetriesLeft
  <2>3. x \in ExecRecord
    BY <2>2, NoRunType DEF ExecRecord
  <2>4. x.pc = e.pc /\ x.goal = e.goal /\ x.guard = e.guard /\ x.seen = NoRun
    BY <2>2 DEF ExecRecord
  <2> HIDE DEF x
  <2>5. WellFormed(x) /\ (Executing(x) => Executing(e))
    BY <1>1, <2>2, <2>4, InLoop DEF WellFormed, Executing
  <2> QED
    BY <1>1, <2>1, <2>3, <2>4, <2>5, InLoop, QuietExec
<1>3. CASE ~RetriesLeft(e.retries)
  <2>1. exec' = [exec EXCEPT ![p] = Stopped(e)]
    BY <1>3 DEF Conflict, Become
  <2> QED
    BY <1>1, <2>1, InLoop, StoppedFacts, QuietExec
<1> QED
  BY <1>2, <1>3

LEMMA RejectedInv ==
    ASSUME IInv, NEW p \in Runner, Rejected(p)
    PROVE  IInv'
<1> DEFINE e == exec[p]
<1>1. /\ e.seen # NoRun /\ p \notin current' /\ current' \subseteq current
      /\ UNCHANGED <<run, expires, checkpoints, client>>
      /\ exec' = [exec EXCEPT ![p] = Stopped(e)]
  BY DEF Rejected, Become
<1> QED
  BY <1>1, InLoop, StoppedFacts, QuietExec

LEMMA SettledStatus ==
    ASSUME NEW r, NEW status, NEW stage
    PROVE  Settled(r, status, stage).status = status
  BY DEF Settled, Record

LEMMA WrittenStatus ==
    ASSUME NEW r, NEW status, NEW stage
    PROVE  /\ Settled(r, status, stage).status = status
           /\ Settled(r, status, stage).lease = r.lease
           /\ Canceled(r).status = "canceled" /\ Canceled(r).lease = r.lease
           /\ Ended(r, status, stage).status \in {"canceled", "paused", status}
           /\ Ended(r, status, stage).lease = r.lease
  BY DEF Settled, Canceled, Ended, Record

LEMMA CheckpointFields ==
    ASSUME NEW r, NEW stage
    PROVE  /\ WithCheckpoint(r, stage).status = r.status /\ WithCheckpoint(r, stage).pause = r.pause
           /\ WithCheckpoint(r, stage).cancel = r.cancel
  BY DEF WithCheckpoint, Record

LEMMA WrittenFields ==
    ASSUME NEW r, NEW status, NEW stage
    PROVE  /\ Settled(r, status, stage).status = status
           /\ Settled(r, status, stage).lease = r.lease
           /\ Canceled(r).status = "canceled" /\ Canceled(r).lease = r.lease
           /\ Resumed(r).status = "running" /\ Resumed(r).lease = r.lease
           /\ Resumed(r).pause = r.pause
           /\ WithCheckpoint(r, stage).status = r.status
           /\ WithCheckpoint(r, stage).lease = r.lease
           /\ WithCheckpoint(r, stage).pause = r.pause
           /\ WithCheckpoint(r, stage).cancel = r.cancel
           /\ Ended(r, status, stage).status \in {"canceled", "paused", status}
           /\ Ended(r, status, stage).lease = r.lease
  BY DEF Settled, Canceled, Resumed, WithCheckpoint, Ended, Record

\* What a commit that passes the store's checks was computed from.
LEMMA CommitFacts ==
    ASSUME IInv, NEW p \in Runner, exec[p].seen # NoRun, NEW r, CommitRun(p, r)
    PROVE  /\ exec[p].seen \in RunRecord /\ Follows(exec[p].seen, run)
           /\ GuardOK(exec[p].guard, run.lease) /\ Write(r)
           /\ exec[p].guard # 0 => Owns(p)
<1>1. exec[p].seen \in RunRecord
  BY InLoop, ExecFields
<1>2. Follows(exec[p].seen, run)
  BY DEF CommitRun, RevisionMatches, IInv, ExecSnapshots, FreshSnapshot
<1> QED
  BY <1>1, <1>2 DEF CommitRun, GuardOK, Owns

\* A commit with which an execution ends.
LEMMA FinalCommit ==
    ASSUME IInv, NEW p \in Runner, exec[p].seen # NoRun,
           NEW r \in RunRecord, r.lease = exec[p].seen.lease, r.status # "absent",
           CommitRun(p, r), Become(p, Finished(exec[p])),
           client' = client, expires' = expires, checkpoints' \subseteq Stage
    PROVE  IInv'
<1>1. r.lease = run.lease /\ GuardOK(exec[p].guard, run.lease) /\ Write(r)
  BY CommitFacts DEF Follows
<1>2. expires' \in 0..LeaseTTL
  BY DEF IInv, TypeOK
<1>3. exec' = [exec EXCEPT ![p] = Finished(exec[p])]
  BY DEF Become
<1> QED
  BY <1>1, <1>2, <1>3, InLoop, FinishedFacts, CommitExec

\* A commit after which the execution goes on.
LEMMA ProgressCommit ==
    ASSUME IInv, NEW p \in Runner, exec[p].seen # NoRun,
           exec[p].goal \in Progress \cup {"resume"},
           NEW r \in RunRecord, r.lease = exec[p].seen.lease,
           \/ r.status = "running"
           \/ exec[p].goal \in Progress /\ r.status = exec[p].seen.status,
           NEW e \in ExecRecord, WellFormed(e), e.guard = exec[p].guard,
           CommitRun(p, r), Become(p, e),
           client' = client, expires' = expires, checkpoints' \subseteq Stage
    PROVE  IInv'
<1>1. /\ r.lease = run.lease /\ GuardOK(exec[p].guard, run.lease) /\ Write(r)
      /\ exec[p].guard # 0 => Owns(p)
      /\ r.status = "running" \/ (exec[p].goal \in Progress /\ r.status = run.status)
  BY CommitFacts DEF Follows
<1>2. expires' \in 0..LeaseTTL
  BY DEF IInv, TypeOK
<1>3. exec' = [exec EXCEPT ![p] = e]
  BY DEF Become
<1>4. exec[p].goal \in Progress => Executing(exec[p])
  BY InLoop DEF Executing
<1>5. e.guard # 0 => r.status = "running"
  BY <1>1, <1>4 DEF IInv, Owned
<1>6. r.status # "absent"
  BY <1>1, InLoop
<1> QED
  BY <1>1, <1>2, <1>3, <1>4, <1>5, <1>6, CommitExec

LEMMA BetweenFacts ==
    ASSUME NEW pc \in {"between", "node"}, NEW guard \in 0..EpochBound, NEW local \in RunRecord
    PROVE  /\ Phase(pc, "none", guard, local) \in ExecRecord
           /\ WellFormed(Phase(pc, "none", guard, local))
           /\ Phase(pc, "none", guard, local).guard = guard
<1>1. Phase(pc, "none", guard, local) \in ExecRecord
  BY PhaseType, GoalNames
<1> QED
  BY <1>1, PhaseShape, PhaseFields DEF Progress

LEMMA Statuses ==
    {"running", "pending", "completed", "failed", "canceled", "paused"} \subseteq RunStatus
  BY DEF RunStatus, Active, Terminal

LEMMA ResumeRunInv ==
    ASSUME IInv, NEW p \in Runner, ResumeRun(p)
    PROVE  IInv'
<1> DEFINE e == exec[p]
<1>1. /\ e.goal = "resume" /\ e.seen # NoRun
      /\ client' = client /\ expires' = expires /\ checkpoints' \subseteq Stage
  BY DEF ResumeRun, Ready, IInv, TypeOK
<1>2. /\ e \in ExecRecord /\ e.seen \in RunRecord /\ e.guard \in 0..EpochBound
      /\ "completed" \in RunStatus /\ "node" \in Stage
  BY <1>1, InLoop, ExecFields, Statuses DEF Stage
<1>3. Canceled(e.seen) \in RunRecord /\ Resumed(e.seen) \in RunRecord
  BY <1>2, WrittenType
<1>4. CASE CommitRun(p, Canceled(e.seen)) /\ Become(p, Finished(e))
  BY <1>1, <1>3, <1>4, WrittenFields, FinalCommit
<1>5. CASE CommitRun(p, Resumed(e.seen))
           /\ Become(p, Phase("between", "none", e.guard, Resumed(e.seen)))
  <2> DEFINE x == Phase("between", "none", e.guard, Resumed(e.seen))
  <2>1. x \in ExecRecord /\ WellFormed(x) /\ x.guard = e.guard
    BY <1>2, <1>3, BetweenFacts
  <2>2. CommitRun(p, Resumed(e.seen)) /\ Become(p, x)
    BY <1>5
  <2> HIDE DEF x
  <2> QED
    BY <1>1, <1>3, <2>1, <2>2, WrittenFields, ProgressCommit
<1>6. ASSUME NEW goal \in {"complete", "fail", "pauseAtWave"},
             CommitRun(p, Resumed(e.seen)), Become(p, Outside(e, goal, Resumed(e.seen)))
      PROVE  IInv'
  <2> DEFINE x == Phase("outside", goal, e.guard, Resumed(e.seen))
  <2>1. goal \in Settling /\ goal \notin Progress
    BY DEF Settling, Progress
  <2>2. x \in ExecRecord /\ WellFormed(x) /\ x.guard = e.guard
    BY <1>2, <1>3, <2>1, LoopFacts
  <2>3. Become(p, x)
    BY <1>6 DEF Outside
  <2> HIDE DEF x
  <2> QED
    BY <1>1, <1>3, <1>6, <2>2, <2>3, WrittenFields, ProgressCommit
<1> QED
  BY <1>4, <1>5, <1>6 DEF ResumeRun

LEMMA BeforeNodeInv ==
    ASSUME IInv, NEW p \in Runner, BeforeNode(p)
    PROVE  IInv'
<1> DEFINE e == exec[p]
<1>1. /\ e.goal = "before" /\ e.goal \in Progress /\ e.seen # NoRun /\ CommitRun(p, e.seen)
      /\ client' = client /\ expires' = expires /\ checkpoints' \subseteq Stage
  BY DEF BeforeNode, Ready, IInv, TypeOK, Stage, Progress
<1>2. e.seen \in RunRecord /\ e.guard \in 0..EpochBound
  BY <1>1, InLoop, ExecFields
<1>3. CASE Become(p, Inside(e, "pauseAtNode", e.seen))
  <2> DEFINE x == Phase("update", "pauseAtNode", e.guard, e.seen)
  <2>1. "pauseAtNode" \in Settling
    BY DEF Settling
  <2>2. x \in ExecRecord /\ WellFormed(x) /\ x.guard = e.guard
    BY <1>2, <2>1, LoopFacts
  <2>3. Become(p, x)
    BY <1>3 DEF Inside
  <2> HIDE DEF x
  <2> QED
    BY <1>1, <1>2, <2>2, <2>3, ProgressCommit
<1>4. CASE Become(p, Phase("node", "none", e.guard, e.seen))
  BY <1>1, <1>2, <1>4, BetweenFacts, ProgressCommit
<1> QED
  BY <1>3, <1>4 DEF BeforeNode

LEMMA AfterNodeInv ==
    ASSUME IInv, NEW p \in Runner, AfterNode(p)
    PROVE  IInv'
<1> DEFINE e == exec[p]
           r == WithCheckpoint(e.seen, "node")
<1>1. /\ e.goal = "after" /\ e.goal \in Progress /\ e.seen # NoRun /\ CommitRun(p, r)
      /\ client' = client /\ expires' = expires /\ checkpoints' \subseteq Stage
  BY DEF AfterNode, Ready, IInv, TypeOK, Stage, Progress
<1>2. e.seen \in RunRecord /\ e.guard \in 0..EpochBound /\ "node" \in Stage
  BY <1>1, InLoop, ExecFields DEF Stage
<1>a. "running" \in RunStatus
  BY Statuses
<1>b. r \in RunRecord
  BY <1>2, <1>a, WrittenType
<1>3. r \in RunRecord /\ r.lease = e.seen.lease /\ r.status = e.seen.status
  BY <1>b DEF WithCheckpoint, Record
<1>4. PICK goal \in {"wave", EndGoal(r, "fail")} : Become(p, Inside(e, goal, r))
  BY DEF AfterNode
<1> DEFINE x == Phase("update", goal, e.guard, r)
<1> HIDE DEF r
<1>5. goal \in Settling \cup Progress
  BY EndGoalFacts DEF Settling, Progress
<1>6. x \in ExecRecord /\ WellFormed(x) /\ x.guard = e.guard
  BY <1>2, <1>3, <1>5, LoopFacts
<1>7. Become(p, x)
  BY <1>4 DEF Inside
<1> HIDE DEF x
<1> QED
  BY <1>1, <1>3, <1>6, <1>7, ProgressCommit

LEMMA GraphStepInv ==
    ASSUME IInv, NEW p \in Runner, GraphStep(p)
    PROVE  IInv'
<1> DEFINE e == exec[p]
           r == WithCheckpoint(e.seen, "wave")
<1>1. /\ e.goal = "wave" /\ e.goal \in Progress /\ e.seen # NoRun /\ CommitRun(p, r)
      /\ client' = client /\ expires' = expires /\ checkpoints' \subseteq Stage
  BY DEF GraphStep, Ready, IInv, TypeOK, Stage, Progress
<1>2. e.seen \in RunRecord /\ e.guard \in 0..EpochBound /\ "wave" \in Stage
  BY <1>1, InLoop, ExecFields DEF Stage
<1>a. "running" \in RunStatus
  BY Statuses
<1>b. r \in RunRecord
  BY <1>2, <1>a, WrittenType
<1>3. r \in RunRecord /\ r.lease = e.seen.lease /\ r.status = e.seen.status
  BY <1>b DEF WithCheckpoint, Record
<1>4. \/ \E goal \in {"cancel", "pauseAtWave"} : Become(p, Inside(e, goal, r))
      \/ Become(p, Phase("between", "none", e.guard, r))
  BY DEF GraphStep
<1> HIDE DEF r
<1>5. CASE \E goal \in {"cancel", "pauseAtWave"} : Become(p, Inside(e, goal, r))
  <2>1. PICK goal \in {"cancel", "pauseAtWave"} : Become(p, Inside(e, goal, r))
    BY <1>5
  <2> DEFINE x == Phase("update", goal, e.guard, r)
  <2>2. goal \in Settling
    BY DEF Settling
  <2>3. x \in ExecRecord /\ WellFormed(x) /\ x.guard = e.guard
    BY <1>2, <1>3, <2>2, LoopFacts
  <2>4. Become(p, x)
    BY <2>1 DEF Inside
  <2> HIDE DEF x
  <2> QED
    BY <1>1, <1>3, <2>3, <2>4, ProgressCommit
<1>6. CASE Become(p, Phase("between", "none", e.guard, r))
  BY <1>1, <1>2, <1>3, <1>6, BetweenFacts, ProgressCommit
<1> QED
  BY <1>4, <1>5, <1>6

LEMMA CompleteRunInv ==
    ASSUME IInv, NEW p \in Runner, CompleteRun(p)
    PROVE  IInv'
<1> DEFINE e == exec[p]
           r == Ended(e.seen, "completed", "final")
<1>1. /\ e.seen # NoRun /\ CommitRun(p, r) /\ Become(p, Finished(e))
      /\ client' = client /\ expires' = expires /\ checkpoints' \subseteq Stage
  BY DEF CompleteRun, Ready, IInv, TypeOK, Stage
<1>2. e.seen \in RunRecord /\ "final" \in Stage /\ "completed" \in RunStatus
  BY <1>1, InLoop, ExecFields, Statuses DEF Stage
<1>3. r \in RunRecord
  BY <1>2, WrittenType
<1>4. r.lease = e.seen.lease /\ r.status # "absent"
  BY WrittenStatus
<1> HIDE DEF r
<1> QED
  BY <1>1, <1>3, <1>4, FinalCommit

LEMMA FailRunInv ==
    ASSUME IInv, NEW p \in Runner, FailRun(p)
    PROVE  IInv'
<1> DEFINE e == exec[p]
           r == Ended(e.seen, "failed", e.seen.checkpoint)
<1>1. /\ e.seen # NoRun /\ CommitRun(p, r) /\ Become(p, Finished(e))
      /\ client' = client /\ expires' = expires /\ checkpoints' \subseteq Stage
  BY DEF FailRun, Ready, IInv, TypeOK
<1>2. e.seen \in RunRecord /\ "final" \in Stage /\ "failed" \in RunStatus
  BY <1>1, InLoop, ExecFields, Statuses DEF Stage
<1>3. r \in RunRecord
  BY <1>2, WrittenType
<1>4. r.lease = e.seen.lease /\ r.status # "absent"
  BY WrittenStatus
<1> HIDE DEF r
<1> QED
  BY <1>1, <1>3, <1>4, FinalCommit

LEMMA CancelRunInv ==
    ASSUME IInv, NEW p \in Runner, CancelRun(p)
    PROVE  IInv'
<1> DEFINE e == exec[p]
<1>1. /\ e.seen # NoRun /\ CommitRun(p, Canceled(e.seen)) /\ Become(p, Finished(e))
      /\ client' = client /\ expires' = expires /\ checkpoints' \subseteq Stage
  BY DEF CancelRun, Ready, IInv, TypeOK
<1>2. e.seen \in RunRecord /\ "final" \in Stage /\ "canceled" \in RunStatus
  BY <1>1, InLoop, ExecFields, Statuses DEF Stage
<1>3. Canceled(e.seen) \in RunRecord
  BY <1>2, WrittenType
<1> QED
  BY <1>1, <1>3, WrittenFields, FinalCommit

LEMMA PauseRunInv ==
    ASSUME IInv, NEW p \in Runner, PauseRun(p)
    PROVE  IInv'
<1> DEFINE e == exec[p]
           stage == IF e.goal = "pauseAtNode" THEN "node" ELSE "wave"
           r == Settled(e.seen, "paused", stage)
<1>1. /\ e.seen # NoRun /\ CommitRun(p, r) /\ Become(p, Finished(e)) /\ stage \in Stage
      /\ client' = client /\ expires' = expires /\ checkpoints' \subseteq Stage
  BY DEF PauseRun, Ready, IInv, TypeOK, Stage
<1> HIDE DEF stage
<1>2. e.seen \in RunRecord /\ "paused" \in RunStatus
  BY <1>1, InLoop, ExecFields, Statuses
<1>3. r \in RunRecord
  BY <1>1, <1>2, WrittenType
<1>4. r.lease = e.seen.lease /\ r.status # "absent"
  BY WrittenStatus
<1> HIDE DEF r
<1> QED
  BY <1>1, <1>3, <1>4, FinalCommit

LEMMA NoCallFacts ==
    /\ NoCall \in ClientRecord /\ ClientWellFormed(NoCall) /\ NoCall.seen = NoRun
    /\ NoCall.phase = "idle"
<1>1. NoCall \in ClientRecord
  BY NoRunType, RunExecutionAssumption DEF NoCall, Call, ClientRecord
<1> QED
  BY <1>1 DEF NoCall, Call, ClientWellFormed

LEMMA CrashInv ==
    ASSUME IInv, NEW p \in Runner, Crash(p)
    PROVE  IInv'
<1>1. /\ exec' = [exec EXCEPT ![p] = Idle] /\ UNCHANGED <<run, expires, checkpoints>>
      /\ client' = [c \in Client |-> IF client[c].target = p THEN NoCall ELSE client[c]]
      /\ current' = current \ ({p} \cup {c \in Client : client[c].target = p})
  BY DEF Crash, Become
<1>2. run.status # "absent" /\ exec \in [Runner -> ExecRecord] /\ run \in RunRecord
  BY ExecFacts, IdleFacts DEF Crash
<1>3. \A q \in Runner : exec'[q] = IF q = p THEN Idle ELSE exec[q]
  BY <1>1, <1>2
<1> USE DEF IInv
<1>4. TypeOK'
  BY <1>1, IdleFacts, NoCallFacts DEF TypeOK
<1>5. ExecShape'
  BY <1>3, IdleFacts DEF ExecShape
<1>6. ExecSnapshots'
  BY <1>1, <1>3 DEF ExecSnapshots, FreshSnapshot
<1>7. ClientShape'
  BY <1>1, NoCallFacts DEF ClientShape
<1>8. ClientSnapshots'
  BY <1>1 DEF ClientSnapshots
<1>9. Guards' /\ GuardsAreUnique'
  BY <1>1, <1>2, <1>3, IdleFacts, RunFields DEF Guards, GuardsAreUnique
<1>10. Owned'
  BY <1>1, <1>3, IdleFacts DEF Owned, Owns, Executing
<1>11. Unborn'
  BY <1>1, <1>2 DEF Unborn
<1> QED
  BY <1>4, <1>5, <1>6, <1>7, <1>8, <1>9, <1>10, <1>11

LEMMA TickInv ==
    ASSUME IInv, Tick
    PROVE  IInv'
<1>1. expires' \in 0..LeaseTTL
  BY RunExecutionAssumption DEF IInv, TypeOK, Tick
<1> QED
  BY <1>1 DEF Tick, IInv, TypeOK, ExecShape, ExecSnapshots, FreshSnapshot, ClientShape,
              ClientSnapshots, Guards, GuardsAreUnique, Owned, Owns, Unborn

-----------------------------------------------------------------------------
(* Clients *)

LEMMA ClientFacts ==
    ASSUME IInv, NEW c \in Client
    PROVE  /\ client \in [Client -> ClientRecord] /\ client[c] \in ClientRecord
           /\ ClientWellFormed(client[c])
           /\ client[c].guard \in 0..EpochBound /\ client[c].seen \in RunRecord
           /\ client[c].target \in Runner \cup {NoRunner}
           /\ client[c].op \in {"none", "pause", "cancel", "cancelPaused", "lost", "delete"}
           /\ client[c].retries \in 0..(RetryLimit - 1)
           /\ client[c].phase # "idle" => run.status # "absent"
           /\ c \in current => client[c].phase = "persist" /\ client[c].seen = run
  BY NoCallFacts DEF IInv, TypeOK, ClientRecord, ClientShape, Unborn, ClientSnapshots

LEMMA CallType ==
    ASSUME NEW op \in {"none", "pause", "cancel", "cancelPaused", "lost", "delete"},
           NEW target \in Runner \cup {NoRunner}, NEW guard \in 0..EpochBound,
           NEW phase \in {"idle", "lookup", "asked", "persist", "signal"}
    PROVE  /\ Call(op, target, guard, phase) \in ClientRecord
           /\ Call(op, target, guard, phase).op = op
           /\ Call(op, target, guard, phase).target = target
           /\ Call(op, target, guard, phase).phase = phase
           /\ Call(op, target, guard, phase).guard = guard
           /\ Call(op, target, guard, phase).seen = NoRun
<1>1. Call(op, target, guard, phase) \in ClientRecord
  BY NoRunType, RunExecutionAssumption DEF Call, ClientRecord
<1> QED
  BY <1>1 DEF Call

\* The calls that ask an execution to pause or to cancel.
LEMMA RequestType ==
    ASSUME NEW op \in {"pause", "cancel"}, NEW target \in Runner,
           NEW guard \in 0..EpochBound,
           NEW phase \in {"lookup", "asked", "persist", "signal"}
    PROVE  /\ Call(op, target, guard, phase) \in ClientRecord
           /\ ClientWellFormed(Call(op, target, guard, phase))
           /\ Call(op, target, guard, phase).seen = NoRun
<1> DEFINE m == Call(op, target, guard, phase)
<1>1. /\ m \in ClientRecord /\ m.op = op /\ m.target = target /\ m.seen = NoRun
  BY CallType
<1> HIDE DEF m
<1>2. ClientWellFormed(m)
  BY <1>1 DEF ClientWellFormed
<1> QED
  BY <1>1, <1>2 DEF m

LEMMA RequestControlInv ==
    ASSUME IInv, NEW c \in Client, NEW p \in Runner, RequestControl(c, p)
    PROVE  IInv'
<1>1. PICK op \in {"pause", "cancel"}, phase \in {"lookup", "asked"} :
        client' = [client EXCEPT ![c] = Call(op, p, 0, phase)]
  BY DEF RequestControl, Answer
<1>2. run.status # "absent"
  BY DEF RequestControl, Active
<1>3. c \notin current /\ UNCHANGED <<run, expires, checkpoints, exec, current>>
  BY ClientFacts DEF RequestControl
<1>4. 0 \in 0..EpochBound
  BY GoalNames
<1> QED
  BY <1>1, <1>2, <1>3, <1>4, RequestType, SameExec, QuietClient

LEMMA LookUpInv ==
    ASSUME IInv, NEW c \in Client, LookUp(c)
    PROVE  IInv'
<1> DEFINE m == client[c]
<1>1. /\ m.phase \in {"lookup", "asked"} /\ c \notin current /\ run.status # "absent"
      /\ UNCHANGED <<run, expires, checkpoints, exec, current>>
      /\ m.op \in {"pause", "cancel"} /\ m.target \in Runner
  BY ClientFacts DEF LookUp, ClientWellFormed
<1>2. exec[m.target].guard \in 0..EpochBound
  BY <1>1, ExecFacts, ExecFields
<1>3. CASE client' = [client EXCEPT ![c] = NoCall]
  BY <1>1, <1>3, NoCallFacts, SameExec, QuietClient
<1>4. ASSUME NEW phase \in {"persist", "signal"},
             client' = [client EXCEPT ![c] = Call(m.op, m.target, exec[m.target].guard, phase)]
      PROVE  IInv'
  BY <1>1, <1>2, <1>4, RequestType, SameExec, QuietClient
<1> QED
  BY <1>3, <1>4 DEF LookUp, Answer

LEMMA ReadRunInv ==
    ASSUME IInv, NEW c \in Client, ReadRun(c)
    PROVE  IInv'
<1> DEFINE m == client[c]
<1>1. /\ m.phase = "persist" /\ m.seen = NoRun /\ run.status # "absent"
      /\ UNCHANGED <<run, expires, checkpoints, exec>>
  BY ClientFacts DEF ReadRun
<1>2. c \notin current
  BY <1>1, NoRunType, ClientFacts
<1>3. CASE Answer(c, NoCall) /\ UNCHANGED current
  BY <1>1, <1>2, <1>3, NoCallFacts, SameExec, QuietClient DEF Answer
<1>4. ASSUME Permits(m.op), Answer(c, [m EXCEPT !.seen = run]), current' = current \cup {c}
      PROVE  IInv'
  <2> DEFINE x == [m EXCEPT !.seen = run]
  <2>1. m \in ClientRecord /\ ClientWellFormed(m) /\ run \in RunRecord
    BY ClientFacts DEF IInv, TypeOK
  <2>2. x \in ClientRecord
    BY <2>1 DEF ClientRecord
  <2>3. x.op = m.op /\ x.target = m.target /\ x.phase = "persist" /\ x.seen = run
    BY <1>1, <2>1 DEF ClientRecord
  <2>4. client' = [client EXCEPT ![c] = x]
    BY <1>4 DEF Answer
  <2> HIDE DEF x
  <2>5. ClientWellFormed(x)
    BY <1>4, <2>1, <2>3 DEF ClientWellFormed, Permits
  <2> QED
    BY <1>1, <1>4, <2>2, <2>3, <2>4, <2>5, SameExec, QuietClient
<1> QED
  BY <1>3, <1>4 DEF ReadRun

LEMMA CallServiceInv ==
    ASSUME IInv, NEW c \in Client, CallService(c)
    PROVE  IInv'
<1>1. PICK op \in {"cancelPaused", "lost", "delete"} :
        Permits(op) /\ Answer(c, [Call(op, NoRunner, 0, "persist") EXCEPT !.seen = run])
  BY DEF CallService
<1> DEFINE m == Call(op, NoRunner, 0, "persist")
           x == [m EXCEPT !.seen = run]
<1>2. /\ run.status # "absent" /\ current' = current \cup {c}
      /\ UNCHANGED <<run, expires, checkpoints, exec>>
  BY DEF CallService
<1>a. /\ op \in {"none", "pause", "cancel", "cancelPaused", "lost", "delete"}
      /\ NoRunner \in Runner \cup {NoRunner} /\ 0 \in 0..EpochBound
  BY GoalNames
<1>3. m \in ClientRecord /\ m.op = op /\ m.phase = "persist"
  BY <1>a, CallType
<1>4. run \in RunRecord
  BY DEF IInv, TypeOK
<1>5. client' = [client EXCEPT ![c] = x]
  BY <1>1 DEF Answer
<1> HIDE DEF m
<1>6. x \in ClientRecord
  BY <1>3, <1>4 DEF ClientRecord
<1>7. x.op = op /\ x.phase = "persist" /\ x.seen = run
  BY <1>3 DEF ClientRecord
<1> HIDE DEF x
<1>8. ClientWellFormed(x)
  BY <1>1, <1>7 DEF ClientWellFormed, Permits
<1> QED
  BY <1>2, <1>5, <1>6, <1>7, <1>8, SameExec, QuietClient

LEMMA ClientConflictInv ==
    ASSUME IInv, NEW c \in Client, ClientConflict(c)
    PROVE  IInv'
<1> DEFINE m == client[c]
<1>1. /\ m.phase = "persist" /\ c \notin current /\ run.status # "absent"
      /\ UNCHANGED <<run, expires, checkpoints, exec, current>>
  BY ClientFacts DEF ClientConflict, RevisionMatches
<1>2. CASE Answer(c, NoCall)
  BY <1>1, <1>2, NoCallFacts, SameExec, QuietClient DEF Answer
<1>3. ASSUME RetriesLeft(m.retries),
             Answer(c, [m EXCEPT !.seen = NoRun, !.retries = m.retries + 1])
      PROVE  IInv'
  <2> DEFINE x == [m EXCEPT !.seen = NoRun, !.retries = m.retries + 1]
  <2>1. m \in ClientRecord /\ ClientWellFormed(m) /\ m.retries + 1 \in 0..(RetryLimit - 1)
    BY <1>3, ClientFacts, RunExecutionAssumption DEF RetriesLeft
  <2>2. x \in ClientRecord
    BY <2>1, NoRunType DEF ClientRecord
  <2>3. x.op = m.op /\ x.target = m.target /\ x.phase = m.phase /\ x.seen = NoRun
    BY <2>1 DEF ClientRecord
  <2>4. client' = [client EXCEPT ![c] = x]
    BY <1>3 DEF Answer
  <2> HIDE DEF x
  <2>5. ClientWellFormed(x)
    BY <2>1, <2>3 DEF ClientWellFormed
  <2> QED
    BY <1>1, <2>2, <2>4, <2>5, SameExec, QuietClient
<1> QED
  BY <1>2, <1>3 DEF ClientConflict

LEMMA ClientRejectedInv ==
    ASSUME IInv, NEW c \in Client, ClientRejected(c)
    PROVE  IInv'
<1>1. /\ client' = [client EXCEPT ![c] = NoCall] /\ current' = current \ {c}
      /\ UNCHANGED <<run, expires, checkpoints, exec>> /\ run.status # "absent"
  BY ClientFacts DEF ClientRejected, Answer
<1> QED
  BY <1>1, NoCallFacts, SameExec, QuietClient

\* What a client's commit was computed from.
LEMMA ClientCommitFacts ==
    ASSUME IInv, NEW c \in Client, NEW op, ClientCommits(c, op)
    PROVE  /\ client[c].seen = run /\ run \in RunRecord /\ run.status # "absent"
           /\ client[c].op = op /\ client[c].phase = "persist" /\ ~run.deleting
           /\ op \in {"pause", "cancel", "lost"} => run.status \in Active
           /\ op = "cancelPaused" => run.status = "paused"
           /\ client[c].guard # 0 => GuardOK(client[c].guard, run.lease)
<1>1. /\ client[c].seen = run /\ client[c].op = op /\ client[c].phase = "persist"
      /\ ~run.deleting /\ run.status # "absent" /\ ClientWellFormed(client[c])
      /\ client[c].guard # 0 => GuardOK(client[c].guard, run.lease)
  BY ClientFacts DEF ClientCommits, RevisionMatches, Writable, ClientGuardOK
<1>2. run # NoRun /\ run \in RunRecord
  BY <1>1, NoRunType DEF IInv, TypeOK
<1> QED
  BY <1>1, <1>2 DEF ClientWellFormed

\* A request changes nothing but the flags of a record.
LEMMA RequestFields ==
    ASSUME NEW r
    PROVE  /\ WithPause(r).status = r.status /\ WithPause(r).lease = r.lease
           /\ WithPause(r).cancel = r.cancel /\ WithPause(r).pause
           /\ WithCancel(r).status = r.status /\ WithCancel(r).lease = r.lease
           /\ WithCancel(r).cancel
  BY DEF WithPause, WithCancel, Record

LEMMA RequestRecords ==
    ASSUME NEW r \in RunRecord
    PROVE  WithPause(r) \in RunRecord /\ WithCancel(r) \in RunRecord
  BY RunFields, RecordType DEF WithPause, WithCancel

LEMMA PersistRequestInv ==
    ASSUME IInv, NEW c \in Client, PersistRequest(c)
    PROVE  IInv'
<1> DEFINE m == client[c]
           r == IF m.op = "pause" THEN WithPause(m.seen) ELSE WithCancel(m.seen)
<1>1. PICK op \in {"pause", "cancel"} : ClientCommits(c, op)
  BY DEF PersistRequest
<1>2. /\ m.seen = run /\ run \in RunRecord /\ run.status # "absent" /\ m.op \in {"pause", "cancel"}
      /\ m.target \in Runner /\ m.guard \in 0..EpochBound
  BY <1>1, ClientCommitFacts, ClientFacts DEF ClientWellFormed
<1>3. /\ Write(r) /\ client' = [client EXCEPT ![c] = Call(m.op, m.target, m.guard, "signal")]
      /\ exec' = IF Addresses(m) THEN [exec EXCEPT ![m.target].local = r] ELSE exec
      /\ UNCHANGED <<expires, checkpoints>>
  BY DEF PersistRequest, Answer
<1>4. r \in RunRecord /\ r.status = run.status /\ r.lease = run.lease
  BY <1>2, RequestFields, RequestRecords
<1> HIDE DEF r
<1>5. OnlyRequests
  <2>1. CASE Addresses(m)
    BY <1>2, <1>3, <1>4, <2>1, NewRequests DEF Addresses
  <2>2. CASE ~Addresses(m)
    BY <1>3, <2>2, SameExec
  <2> QED
    BY <2>1, <2>2
<1>6. expires' \in 0..LeaseTTL
  BY <1>3 DEF IInv, TypeOK
<1>7. /\ Call(m.op, m.target, m.guard, "signal") \in ClientRecord
      /\ ClientWellFormed(Call(m.op, m.target, m.guard, "signal"))
  BY <1>2, RequestType
<1> QED
  BY <1>2, <1>3, <1>4, <1>5, <1>6, <1>7, CommitClient

LEMMA SignalInv ==
    ASSUME IInv, NEW c \in Client, Signal(c)
    PROVE  IInv'
<1> DEFINE m == client[c]
           local == exec[m.target].local
           l == IF m.op = "pause" THEN WithPause(local) ELSE WithCancel(local)
<1>1. /\ m.phase = "signal" /\ c \notin current /\ run.status # "absent" /\ m.target \in Runner
  BY ClientFacts DEF Signal, ClientWellFormed
<1>2. /\ exec' = IF Addresses(m) THEN [exec EXCEPT ![m.target].local = l] ELSE exec
      /\ client' = [client EXCEPT ![c] = NoCall]
      /\ UNCHANGED <<run, expires, checkpoints, current>>
  BY DEF Signal, Answer
<1>3. l \in RunRecord
  BY <1>1, ExecFacts, ExecFields, RequestRecords
<1> HIDE DEF l
<1>4. OnlyRequests
  <2>1. CASE Addresses(m)
    BY <1>1, <1>2, <1>3, <2>1, NewRequests DEF Addresses
  <2>2. CASE ~Addresses(m)
    BY <1>2, <2>2, SameExec
  <2> QED
    BY <2>1, <2>2
<1> QED
  BY <1>1, <1>2, <1>4, NoCallFacts, QuietClient

LEMMA CancelPausedInv ==
    ASSUME IInv, NEW c \in Client, CancelPaused(c)
    PROVE  IInv'
<1> DEFINE r == Canceled(client[c].seen)
<1>1. client[c].seen = run /\ run \in RunRecord /\ run.status = "paused"
  BY ClientCommitFacts DEF CancelPaused
<1>2. "completed" \in RunStatus /\ "node" \in Stage
  BY Statuses DEF Stage
<1>3. r \in RunRecord /\ r.status = "canceled" /\ r.lease = run.lease
  BY <1>1, <1>2, WrittenType, WrittenFields
<1>4. /\ Write(r) /\ client' = [client EXCEPT ![c] = NoCall]
      /\ UNCHANGED <<expires, checkpoints, exec>> /\ expires' \in 0..LeaseTTL
  BY DEF CancelPaused, Answer, IInv, TypeOK
<1> HIDE DEF r
<1> QED
  BY <1>1, <1>3, <1>4, NoCallFacts, SameExec, CommitClient

LEMMA ReleaseLostInv ==
    ASSUME IInv, NEW c \in Client, ReleaseLost(c)
    PROVE  IInv'
<1> DEFINE m == client[c]
           x == [m EXCEPT !.seen = NoRun]
           r == WithLease(m.seen, Released(m.seen.lease))
<1>1. m.seen = run /\ run \in RunRecord /\ run.status # "absent"
  BY ClientCommitFacts DEF ReleaseLost
<1>2. /\ r \in RunRecord /\ r.lease.epoch = run.lease.epoch
      /\ r.lease.status = "released" /\ r.status = run.status
  BY <1>1, LeaseTypes DEF WithLease, Released, Record
<1>3. /\ Write(r) /\ client' = [client EXCEPT ![c] = x]
      /\ UNCHANGED <<checkpoints, exec>> /\ expires' \in 0..LeaseTTL
  BY RunExecutionAssumption DEF ReleaseLost, Answer
<1> HIDE DEF r
<1>4. m \in ClientRecord /\ ClientWellFormed(m)
  BY ClientFacts
<1>5. x \in ClientRecord
  BY <1>4, NoRunType DEF ClientRecord
<1>6. x.op = m.op /\ x.target = m.target /\ x.phase = m.phase /\ x.seen = NoRun
  BY <1>4 DEF ClientRecord
<1> HIDE DEF x
<1>7. ClientWellFormed(x)
  BY <1>4, <1>6 DEF ClientWellFormed
<1> QED
  BY <1>1, <1>2, <1>3, <1>5, <1>7, SameExec, CommitClient

LEMMA MarkLostInv ==
    ASSUME IInv, NEW c \in Client, MarkLost(c)
    PROVE  IInv'
<1> DEFINE r == Settled(client[c].seen, "failed", client[c].seen.checkpoint)
<1>1. client[c].seen = run /\ run \in RunRecord /\ run.lease.status # "active"
  BY ClientCommitFacts DEF MarkLost
<1>2. "failed" \in RunStatus /\ "node" \in Stage
  BY Statuses DEF Stage
<1>3. r \in RunRecord /\ r.status = "failed" /\ r.lease = run.lease
  BY <1>1, <1>2, WrittenType, WrittenStatus
<1>4. /\ Write(r) /\ client' = [client EXCEPT ![c] = NoCall]
      /\ UNCHANGED <<expires, checkpoints, exec>> /\ expires' \in 0..LeaseTTL
  BY DEF MarkLost, Answer, IInv, TypeOK
<1> HIDE DEF r
<1> QED
  BY <1>1, <1>3, <1>4, NoCallFacts, SameExec, CommitClient

LEMMA ReserveDeletionInv ==
    ASSUME IInv, NEW c \in Client, ReserveDeletion(c)
    PROVE  IInv'
<1> DEFINE r == [client[c].seen EXCEPT !.deleting = TRUE]
<1>1. client[c].seen = run /\ run \in RunRecord /\ run.status # "absent"
  BY ClientCommitFacts DEF ReserveDeletion
<1>2. r \in RunRecord /\ r.status = run.status /\ r.lease = run.lease
  BY <1>1 DEF RunRecord
<1>3. /\ Write(r) /\ client' = [client EXCEPT ![c] = NoCall]
      /\ UNCHANGED <<expires, checkpoints, exec>> /\ expires' \in 0..LeaseTTL
  BY DEF ReserveDeletion, Answer, IInv, TypeOK
<1> HIDE DEF r
<1> QED
  BY <1>1, <1>2, <1>3, NoCallFacts, SameExec, CommitClient

-----------------------------------------------------------------------------
(* What a step may do to the record *)

\* The steps that StaleExecutorsAreSilent, CancelWins, PauseIsNotOvertaken,
\* FinishedRunIsReopenedKnowingly and DeletionFreezes allow.
SilentStep ==
    \A p \in Runner :
        exec'[p] # exec[p] /\ exec[p].guard # 0 /\ ~Owns(p)
        => run' = run /\ checkpoints' = checkpoints

CancelStep ==
    run.cancel => \/ run'.cancel /\ run'.status = run.status
                  \/ run'.status = "canceled"
                  \/ FailsLostRun

PauseStep ==
    run.pause /\ run.status \notin Terminal
    => \/ run'.pause /\ run'.status \notin Terminal
       \/ run'.cancel
       \/ run'.status \in {"paused", "canceled"}
       \/ FailsLostRun

ReopenStep ==
    run.status \in Terminal /\ run'.status # run.status
    => \E p \in Runner :
          /\ exec'[p] # exec[p]
          /\ \/ /\ run'.status = "running" /\ exec[p].goal = "resume"
                /\ exec[p].local.status = run.status
             \/ /\ run'.status \in {"paused", "canceled"} /\ exec[p].guard = 0
                /\ exec[p].seen.pause \/ exec[p].seen.cancel

FrozenStep == run.deleting => run' = run

SafeStep == SilentStep /\ CancelStep /\ PauseStep /\ ReopenStep /\ FrozenStep

LEMMA QuietIsSafe ==
    ASSUME UNCHANGED <<run, checkpoints>>
    PROVE  SafeStep
  BY DEF SafeStep, SilentStep, CancelStep, PauseStep, ReopenStep, FrozenStep

LEMMA FirstWriteIsSafe ==
    ASSUME IInv, run.status = "absent"
    PROVE  SafeStep
<1>1. run = NoRun /\ \A p \in Runner : exec[p].guard = 0
  BY IdleFacts DEF IInv, Unborn
<1>2. ~run.cancel /\ ~run.pause /\ ~run.deleting /\ run.status \notin Terminal
  BY <1>1 DEF NoRun, Record, Terminal
<1> QED
  BY <1>1, <1>2 DEF SafeStep, SilentStep, CancelStep, PauseStep, ReopenStep, FrozenStep

\* Only runner p moves, and it owns the lease or has no guard.
LEMMA OwnerIsHeard ==
    ASSUME IInv, NEW p \in Runner, NEW e, Become(p, e), exec[p].guard # 0 => Owns(p)
    PROVE  SilentStep
  BY ExecFacts DEF SilentStep, Become

\* A lease is written beside the status and the requests of the record.
LEMMA LeaseFields ==
    ASSUME NEW r, NEW lease
    PROVE  /\ WithLease(r, lease).status = r.status /\ WithLease(r, lease).pause = r.pause
           /\ WithLease(r, lease).cancel = r.cancel
  BY DEF WithLease, Record

LEMMA LeaseWriteIsSafe ==
    ASSUME IInv, NEW p \in Runner, AcquireLease(p) \/ ReleaseLease(p)
    PROVE  SafeStep
<1>1. /\ exec[p].seen = run /\ ~run.deleting
      /\ exec[p].guard # 0 => Owns(p)
  BY DEF AcquireLease, ReleaseLease, Ready, RevisionMatches, IInv, ExecSnapshots,
         FreshSnapshot, ExecShape, WellFormed, GuardOK, Owns
<1>2. \E e : Become(p, e)
  BY DEF AcquireLease, ReleaseLease
<1>3. run'.status = run.status /\ run'.cancel = run.cancel /\ run'.pause = run.pause
  <2>1. \E lease : run' = WithLease(run, lease)
    BY <1>1 DEF AcquireLease, ReleaseLease, Write
  <2> QED
    BY <2>1, LeaseFields
<1> QED
  BY <1>1, <1>2, <1>3, OwnerIsHeard
     DEF SafeStep, CancelStep, PauseStep, ReopenStep, FrozenStep

\* A commit of an execution that changes the status, or not.
LEMMA CommitIsSafe ==
    ASSUME IInv, NEW p \in Runner, exec[p].seen # NoRun, NEW r, CommitRun(p, r),
           NEW e, Become(p, e), e.seen = NoRun,
           exec[p].seen.cancel => r.status = "canceled" \/ (r.cancel /\ r.status = run.status),
           exec[p].seen.pause /\ ~exec[p].seen.cancel =>
             \/ r.pause /\ (r.status = run.status \/ r.status = "running")
             \/ r.status \in {"paused", "canceled"},
           run.status \in Terminal /\ r.status # run.status =>
             \/ /\ r.status = "running" /\ exec[p].goal = "resume"
                /\ exec[p].local.status = run.status
             \/ /\ r.status \in {"paused", "canceled"} /\ exec[p].guard = 0
                /\ exec[p].seen.pause \/ exec[p].seen.cancel
    PROVE  SafeStep
<1>2. Follows(exec[p].seen, run) /\ run' = r /\ ~run.deleting
  BY CommitFacts DEF CommitRun, Write, Writable
<1>3. SilentStep
  BY CommitFacts, OwnerIsHeard
<1>4. CancelStep
  BY <1>2 DEF CancelStep, Follows
<1>5. PauseStep
  BY <1>2 DEF PauseStep, Follows, Terminal
<1>6. ReopenStep
  <2>1. exec'[p] = e /\ exec'[p] # exec[p]
    BY ExecFacts DEF Become
  <2> QED
    BY <1>2, <2>1 DEF ReopenStep
<1> QED
  BY <1>2, <1>3, <1>4, <1>5, <1>6 DEF SafeStep, FrozenStep

\* An execution that still may settle a run and owns its lease settles a run
\* that is running; one that resumes it, a run that has not ended by itself.
LEMMA OwnerMeets ==
    ASSUME IInv, NEW p \in Runner, exec[p].seen # NoRun, NEW r, CommitRun(p, r),
           exec[p].guard # 0
    PROVE  /\ Executing(exec[p]) => run.status = "running"
           /\ exec[p].goal # "release" => run.status \notin {"completed", "failed"}
  BY CommitFacts DEF IInv, Owned

LEMMA PhaseSeen ==
    ASSUME IInv, NEW p \in Runner, exec[p].seen # NoRun
    PROVE  /\ Finished(exec[p]).seen = NoRun
           /\ \A goal, l : Inside(exec[p], goal, l).seen = NoRun
           /\ \A goal, l : Outside(exec[p], goal, l).seen = NoRun
           /\ \A pc, l : Phase(pc, "none", exec[p].guard, l).seen = NoRun
  BY InLoop, FinishedFacts DEF Inside, Outside, Phase

LEMMA ResumeRunIsSafe ==
    ASSUME IInv, NEW p \in Runner, ResumeRun(p)
    PROVE  SafeStep
<1> DEFINE e == exec[p]
<1>1. e.goal = "resume" /\ e.seen # NoRun /\ ~Leaves(e)
  BY DEF ResumeRun, Ready
<1>2. CASE e.seen.cancel /\ CommitRun(p, Canceled(e.seen)) /\ Become(p, Finished(e))
  <2>1. Canceled(e.seen).status = "canceled"
    BY WrittenFields
  <2>2. run.status \in Terminal /\ run.status # "canceled" => e.guard = 0
    BY <1>1, <1>2, OwnerMeets DEF Terminal
  <2> QED
    BY <1>1, <1>2, <2>1, <2>2, PhaseSeen, CommitIsSafe
<1>3. ASSUME ~e.seen.cancel, CommitRun(p, Resumed(e.seen)),
             NEW x, x.seen = NoRun, Become(p, x)
      PROVE  SafeStep
  <2>1. Resumed(e.seen).status = "running" /\ Resumed(e.seen).pause = e.seen.pause
    BY WrittenFields
  <2>2. e.seen.status = run.status
    BY <1>1, <1>3, CommitFacts DEF Follows
  <2>3. run.status \in Terminal => e.local.status = run.status
    BY <1>1, <1>3, <2>2 DEF Leaves, FinishedMeanwhile, Terminal, Active
  <2> QED
    BY <1>1, <1>3, <2>1, <2>3, CommitIsSafe
<1>4. ~e.seen.cancel /\ CommitRun(p, Resumed(e.seen)) => \E x : x.seen = NoRun /\ Become(p, x)
  BY <1>1, PhaseSeen DEF ResumeRun
<1> QED
  BY <1>2, <1>3, <1>4 DEF ResumeRun

\* The commits of a node and of a wave keep the status and the requests.
LEMMA ProgressIsSafe ==
    ASSUME IInv, NEW p \in Runner, BeforeNode(p) \/ AfterNode(p) \/ GraphStep(p)
    PROVE  SafeStep
<1> DEFINE e == exec[p]
<1>1. e.seen # NoRun
  BY DEF BeforeNode, AfterNode, GraphStep, Ready
<1>2. PICK r \in {e.seen, WithCheckpoint(e.seen, "node"), WithCheckpoint(e.seen, "wave")} :
        CommitRun(p, r)
  BY DEF BeforeNode, AfterNode, GraphStep
<1>3. r.status = e.seen.status /\ r.pause = e.seen.pause /\ r.cancel = e.seen.cancel
  <2>1. r = e.seen \/ \E stage : r = WithCheckpoint(e.seen, stage)
    OBVIOUS
  <2> QED
    BY <2>1, CheckpointFields
<1>4. r.status = run.status
  BY <1>1, <1>2, <1>3, CommitFacts DEF Follows
<1>5. PICK x : x.seen = NoRun /\ Become(p, x)
  BY <1>1, PhaseSeen DEF BeforeNode, AfterNode, GraphStep
<1> QED
  BY <1>1, <1>2, <1>3, <1>4, <1>5, CommitIsSafe

LEMMA EndIsSafe ==
    ASSUME IInv, NEW p \in Runner, CompleteRun(p) \/ FailRun(p)
    PROVE  SafeStep
<1> DEFINE e == exec[p]
<1>1. /\ e.goal \in {"complete", "fail"} /\ e.seen # NoRun /\ ~Leaves(e)
      /\ Become(p, Finished(e))
  BY DEF CompleteRun, FailRun, Ready
<1>2. PICK status, stage : CommitRun(p, Ended(e.seen, status, stage))
  BY DEF CompleteRun, FailRun
<1> DEFINE r == Ended(e.seen, status, stage)
<1>3. /\ e.seen.cancel => r.status = "canceled"
      /\ e.seen.pause /\ ~e.seen.cancel => r.status = "paused"
  BY DEF Ended, Settled, Canceled, Record
<1>4. CommitRun(p, r) /\ e.seen.status = run.status
  BY <1>1, <1>2, CommitFacts DEF Follows
<1> HIDE DEF r
<1>5. ASSUME run.status \in Terminal
      PROVE  /\ e.seen.pause \/ e.seen.cancel
             /\ e.guard = 0
             /\ r.status \in {"paused", "canceled"}
  <2>1. run.status \notin Active /\ run.status # "running"
    BY <1>5 DEF Terminal, Active
  <2>2. e.seen.pause \/ e.seen.cancel
    BY <1>1, <1>4, <2>1 DEF Leaves
  <2>3. Executing(e)
    BY <1>1 DEF Executing, Settling
  <2>4. e.guard = 0
    BY <1>1, <1>4, <2>1, <2>3, OwnerMeets
  <2> QED
    BY <1>3, <2>2, <2>4
<1> QED
  BY <1>1, <1>3, <1>4, <1>5, PhaseSeen, CommitIsSafe

LEMMA CancelRunIsSafe ==
    ASSUME IInv, NEW p \in Runner, CancelRun(p)
    PROVE  SafeStep
<1> DEFINE e == exec[p]
<1>1. /\ e.goal = "cancel" /\ e.seen # NoRun /\ ~Leaves(e)
      /\ Become(p, Finished(e)) /\ CommitRun(p, Canceled(e.seen))
  BY DEF CancelRun, Ready
<1>2. run.status \notin Terminal
  BY <1>1, CommitFacts DEF Follows, Leaves
<1>3. Canceled(e.seen).status = "canceled"
  BY WrittenFields
<1> QED
  BY <1>1, <1>2, <1>3, PhaseSeen, CommitIsSafe

LEMMA PauseRunIsSafe ==
    ASSUME IInv, NEW p \in Runner, PauseRun(p)
    PROVE  SafeStep
<1> DEFINE e == exec[p]
<1>1. /\ e.goal \in {"pauseAtNode", "pauseAtWave"} /\ e.seen # NoRun /\ ~Leaves(e)
      /\ Become(p, Finished(e))
  BY DEF PauseRun, Ready
<1>2. PICK stage : CommitRun(p, Settled(e.seen, "paused", stage))
  BY DEF PauseRun
<1>3. ~e.seen.cancel
  BY <1>1 DEF Leaves
<1>4. run.status \notin Terminal
  <2>1. e.seen.status \in Active
    BY <1>1, InLoop DEF WellFormed
  <2> QED
    BY <1>1, <1>2, <2>1, CommitFacts DEF Follows, Active, Terminal
<1>5. Settled(e.seen, "paused", stage).status = "paused"
  BY SettledStatus
<1> QED
  BY <1>1, <1>2, <1>3, <1>4, <1>5, PhaseSeen, CommitIsSafe

\* A client's commit leaves the executions alone, or tells the one it
\* addresses of a request; only CancelPausedRun and MarkRunExecutionLost
\* settle a run, and neither a finished one.
LEMMA ClientIsSafe ==
    ASSUME IInv, NEW c \in Client,
           \/ PersistRequest(c) \/ CancelPaused(c) \/ ReleaseLost(c)
           \/ MarkLost(c) \/ ReserveDeletion(c)
    PROVE  SafeStep
<1> DEFINE m == client[c]
<1>1. PICK op \in {"pause", "cancel", "cancelPaused", "lost", "delete"} : ClientCommits(c, op)
  BY DEF PersistRequest, CancelPaused, ReleaseLost, MarkLost, ReserveDeletion
<1>2. /\ m.seen = run /\ run \in RunRecord /\ m.op = op /\ ~run.deleting
      /\ m.guard # 0 => GuardOK(m.guard, run.lease)
  BY <1>1, ClientCommitFacts
<1>3. \/ exec' = exec
      \/ /\ Addresses(m) /\ m.target \in Runner
         /\ \A q \in Runner : q # m.target => exec'[q] = exec[q]
  <2>1. CASE PersistRequest(c)
    <3>1. m.op \in {"pause", "cancel"}
      BY <2>1 DEF PersistRequest, ClientCommits
    <3>2. m.target \in Runner
      BY <3>1, ClientFacts DEF ClientWellFormed
    <3> QED
      BY <2>1, <3>2, ExecFacts DEF PersistRequest
  <2> QED
    BY <2>1 DEF CancelPaused, ReleaseLost, MarkLost, ReserveDeletion
<1>4. checkpoints' = checkpoints
  BY DEF PersistRequest, CancelPaused, ReleaseLost, MarkLost, ReserveDeletion
<1>5. SilentStep
  <2> SUFFICES ASSUME NEW p \in Runner, exec'[p] # exec[p], exec[p].guard # 0
               PROVE  Owns(p)
    BY DEF SilentStep
  <2>1. p = m.target /\ exec[p].guard = m.guard
    BY <1>3 DEF Addresses
  <2> QED
    BY <1>2, <2>1 DEF Owns, GuardOK
<1>6. CancelStep /\ PauseStep /\ ReopenStep
  <2>1. CASE PersistRequest(c)
    <3>1. run' = WithPause(run) \/ run' = WithCancel(run)
      BY <1>2, <2>1 DEF PersistRequest, Write
    <3> QED
      BY <3>1, RequestFields DEF CancelStep, PauseStep, ReopenStep
  <2>2. CASE CancelPaused(c)
    <3>1. run.status = "paused" /\ run' = Canceled(run)
      BY <1>2, <2>2, ClientCommitFacts DEF CancelPaused, Write
    <3> QED
      BY <3>1, WrittenFields DEF CancelStep, PauseStep, ReopenStep, Terminal
  <2>3. CASE ReleaseLost(c)
    <3>1. run' = WithLease(run, Released(run.lease))
      BY <1>2, <2>3 DEF ReleaseLost, Write
    <3> QED
      BY <3>1, LeaseFields DEF CancelStep, PauseStep, ReopenStep
  <2>4. CASE MarkLost(c)
    <3>1. /\ run.status \in Active /\ run.lease.status # "active"
          /\ run' = Settled(run, "failed", run.checkpoint)
      BY <1>2, <2>4, ClientCommitFacts DEF MarkLost, Write
    <3>2. FailsLostRun
      BY <3>1, WrittenStatus DEF FailsLostRun
    <3> QED
      BY <3>1, <3>2 DEF CancelStep, PauseStep, ReopenStep, Active, Terminal
  <2>5. CASE ReserveDeletion(c)
    <3>1. run' = [run EXCEPT !.deleting = TRUE]
      BY <1>2, <2>5 DEF ReserveDeletion, Write
    <3>2. run'.status = run.status /\ run'.cancel = run.cancel /\ run'.pause = run.pause
      BY <1>2, <3>1 DEF RunRecord
    <3> QED
      BY <3>2 DEF CancelStep, PauseStep, ReopenStep
  <2> QED
    BY <2>1, <2>2, <2>3, <2>4, <2>5
<1> QED
  BY <1>2, <1>5, <1>6 DEF SafeStep, FrozenStep

-----------------------------------------------------------------------------
(* The whole *)

LEMMA RunnerStepInv ==
    ASSUME IInv, NEW p \in Runner, RunnerStep(p)
    PROVE  IInv' /\ SafeStep
<1>1. IInv'
  BY AcquireLeaseInv, AdmitInv, LoadForReleaseInv, ReleaseLeaseInv, LoadInv, LeaveInv,
     ConflictInv, RejectedInv, ResumeRunInv, BeforeNodeInv, AfterNodeInv, GraphStepInv,
     CompleteRunInv, FailRunInv, CancelRunInv, PauseRunInv DEF RunnerStep
<1>2. CASE Admit(p) \/ LoadForRelease(p) \/ Load(p) \/ Leave(p) \/ Conflict(p) \/ Rejected(p)
  <2>1. UNCHANGED <<run, checkpoints>>
    BY <1>2 DEF Admit, LoadForRelease, Load, Leave, Conflict, Rejected
  <2> QED
    BY <1>1, <2>1, QuietIsSafe
<1> QED
  BY <1>1, <1>2, LeaseWriteIsSafe, ResumeRunIsSafe, ProgressIsSafe, EndIsSafe,
     CancelRunIsSafe, PauseRunIsSafe DEF RunnerStep

LEMMA ClientStepInv ==
    ASSUME IInv, NEW c \in Client, ClientStep(c)
    PROVE  IInv' /\ SafeStep
<1>1. IInv'
  BY LookUpInv, ReadRunInv, ClientConflictInv, ClientRejectedInv, PersistRequestInv,
     SignalInv, CancelPausedInv, ReleaseLostInv, MarkLostInv, ReserveDeletionInv
     DEF ClientStep
<1>2. CASE LookUp(c) \/ ReadRun(c) \/ ClientConflict(c) \/ ClientRejected(c) \/ Signal(c)
  <2>1. UNCHANGED <<run, checkpoints>>
    BY <1>2 DEF LookUp, ReadRun, ClientConflict, ClientRejected, Signal
  <2> QED
    BY <1>1, <2>1, QuietIsSafe
<1> QED
  BY <1>1, <1>2, ClientIsSafe DEF ClientStep

LEMMA NextInv ==
    ASSUME IInv, [Next]_vars
    PROVE  IInv' /\ [SafeStep]_vars
<1>1. CASE UNCHANGED vars
  BY <1>1 DEF vars, IInv, TypeOK, ExecShape, ExecSnapshots, FreshSnapshot, ClientShape,
              ClientSnapshots, Guards, GuardsAreUnique, Owned, Owns, Unborn
<1>2. CASE EnqueueStart
  BY <1>2, EnqueueStartInv, FirstWriteIsSafe DEF EnqueueStart
<1>3. CASE Tick
  <2>1. UNCHANGED <<run, checkpoints>>
    BY <1>3 DEF Tick
  <2> QED
    BY <1>3, <2>1, TickInv, QuietIsSafe
<1>4. ASSUME NEW p \in Runner,
             Start(p) \/ Resume(p) \/ RunnerStep(p) \/ Heartbeat(p) \/ Crash(p)
      PROVE  IInv' /\ SafeStep
  <2>1. CASE Start(p)
    BY <2>1, StartInv, FirstWriteIsSafe DEF Start
  <2>2. CASE Resume(p) \/ Heartbeat(p) \/ Crash(p)
    <3>1. UNCHANGED <<run, checkpoints>>
      BY <2>2 DEF Resume, Heartbeat, Crash, Write
    <3> QED
      BY <2>2, <3>1, ResumeInv, HeartbeatInv, CrashInv, QuietIsSafe
  <2> QED
    BY <1>4, <2>1, <2>2, RunnerStepInv
<1>5. ASSUME NEW c \in Client,
             CallService(c) \/ ClientStep(c) \/ \E p \in Runner : RequestControl(c, p)
      PROVE  IInv' /\ SafeStep
  <2>1. CASE CallService(c) \/ \E p \in Runner : RequestControl(c, p)
    <3>1. UNCHANGED <<run, checkpoints>>
      BY <2>1 DEF CallService, RequestControl
    <3> QED
      BY <2>1, <3>1, CallServiceInv, RequestControlInv, QuietIsSafe
  <2> QED
    BY <1>5, <2>1, ClientStepInv
<1> QED
  BY <1>1, <1>2, <1>3, <1>4, <1>5 DEF Next

\* The invariant holds in every reachable state: snapshots that are current
\* agree with the record, epochs only grow, guards are unique and the owner of
\* the lease finds the run as it left it.
THEOREM Invariance == Spec => []IInv
  BY InitInv, NextInv, PTL DEF Spec

\* Records, goroutines and calls keep their types: no epoch exceeds the bound
\* on acquisitions, no loop exceeds runRevisionRetryLimit.
THEOREM TypeCorrectness == Spec => []TypeOK
<1>1. IInv => TypeOK
  BY DEF IInv
<1> QED
  BY <1>1, Invariance, PTL

\* acquireExecutionLease: an epoch names one execution.
THEOREM UniqueGuards == Spec => []GuardsAreUnique
<1>1. IInv => GuardsAreUnique
  BY DEF IInv
<1> QED
  BY <1>1, Invariance, PTL

\* While the owner of the lease executes, nobody settles the run behind it.
THEOREM OwnersRunIsRunning == Spec => []OwnedRunIsRunning
<1>1. IInv => OwnedRunIsRunning
  BY DEF IInv, Owned, OwnedRunIsRunning, Executing
<1> QED
  BY <1>1, Invariance, PTL

\* An execution that lost its lease writes neither the record nor a checkpoint.
THEOREM StaleExecutorsStaySilent == Spec => StaleExecutorsAreSilent
<1>1. [SafeStep]_vars => [SilentStep]_vars
  BY DEF SafeStep
<1> QED
  BY <1>1, Invariance, NextInv, PTL DEF Spec, StaleExecutorsAreSilent, SilentStep

\* A persisted cancel or pause is neither overwritten nor overtaken.
THEOREM RequestsAreKept == Spec => ControlIsKept
<1>1. [SafeStep]_vars => [CancelStep]_vars /\ [PauseStep]_vars
  BY DEF SafeStep
<1> QED
  BY <1>1, Invariance, NextInv, PTL
     DEF Spec, ControlIsKept, CancelWins, PauseIsNotOvertaken, CancelStep, PauseStep

\* A finished run changes its status only by a resumption that knew it was
\* finished, or by an execution without a lease that meets a request.
THEOREM FinishedRunsStay == Spec => FinishedRunIsReopenedKnowingly
<1>1. [SafeStep]_vars => [ReopenStep]_vars
  BY DEF SafeStep
<1> QED
  BY <1>1, Invariance, NextInv, PTL DEF Spec, FinishedRunIsReopenedKnowingly, ReopenStep

\* A run reserved for deletion is changed by nobody.
THEOREM ReservedRunsStay == Spec => DeletionFreezes
<1>1. [SafeStep]_vars => [FrozenStep]_vars
  BY DEF SafeStep
<1> QED
  BY <1>1, Invariance, NextInv, PTL DEF Spec, DeletionFreezes, FrozenStep
=============================================================================

--------------------------- MODULE DeliveryProofs ---------------------------
(***************************************************************************)
(* Proofs about Delivery for any number of tasks and deliveries and any    *)
(* number of process deaths and faults.  A pipeline is a long walk over    *)
(* states of which each remembers something of the earlier ones: the       *)
(* commit main was at when the worktree was made, what the tests on main   *)
(* said.  The invariant states, place by place, what is remembered.        *)
(***************************************************************************)
EXTENDS Delivery, TLAPS

-----------------------------------------------------------------------------
(* The inductive invariant.                                                *)

\* There is one control plane, so at most one delivery is being handled.
OneRun ==
    /\ \A i, j \in Job : runner[i] = Proc /\ runner[j] = Proc => i = j
    /\ \A j \in Job : runner[j] = Proc => state[j] = "running"
    /\ pc = "idle" <=> \A j \in Job : runner[j] # Proc
    /\ \A j \in Job : state[j] = "absent" => exec[j] = "absent"

\* What the local variables hold; only tests on main say a delivery is well.
Locals ==
    /\ pc = "repairing" => run.attempt <= MaxRepairs
    /\ pc \notin {"removing", "cleanup", "reporting", "receipted", "walking",
                  "recording", "returning"} => ~run.ok
    /\ pc = "removing" => /\ run.ok <=> ~run.red
                          /\ Failing(main) => run.red
    /\ pc = "receipted" => run.ok

\* What the execution's row says while its delivery is handled.
RowOfRun ==
    \A j \in Job : runner[j] = Proc =>
        /\ pc \in {"starting"} \cup Phases.working \cup Phases.answerable
                  \cup Phases.closing => exec[j] = "running"
        /\ pc \in {"walking", "recording"} => exec[j] = "succeeded"

\* h is what main was before delivery j's own commit, if it has one.
OneCommitOn(h, j, g) ==
    \E ok \in BOOLEAN : g = Append(h, [job |-> j, ok |-> ok])

\* Until the merge main is the base; from the merge until its verdict main is
\* the base and the one commit of this delivery.
Worktree ==
    /\ pc \in Phases.working \cup {"confirming"} => run.base = main
    /\ pc \in Phases.working \ {"merging"} => run.tip = main
    /\ \A j \in Job : runner[j] = Proc =>
          /\ pc = "merging" => OneCommitOn(main, j, run.tip)
          /\ pc \in Phases.answerable => OneCommitOn(run.base, j, main)
          /\ pc = "confirming" => Delivered(of[j], main)
          /\ pc \in {"cleanup", "reporting", "receipted"} /\ run.ok =>
                Delivered(of[j], main)

\* Operators declare no task completed themselves: what they declare is not
\* what a delivery reported.
NoneDeclared == "completed" \notin OperatorTargets

\* h holds all that is reported done.
Holds(h) ==
    /\ \A j \in Job : exec[j] = "succeeded" => Delivered(of[j], h)
    /\ NoneDeclared => \A t \in Task : task[t] = "completed" => Delivered(t, h)

\* A run of j was cut short when j's commit may have been on main.
CutAfterMerge(j) == cut[j] \cap {"answerable", "closing", "reported"} # {}

CommitIn(j, h) == \E i \in DOMAIN h : h[i].job = j

\* The base a delivery may have to go back to: no more failing than main was,
\* holding what is done, and nothing of the delivery itself.
BaseIsSound ==
    pc \in Phases.answerable =>
        /\ Failing(run.base) => \E j \in Job : "answerable" \in cut[j]
        /\ Holds(run.base)
        /\ \A j \in Job :
              runner[j] = Proc /\ CommitIn(j, run.base) => CutAfterMerge(j)

\* A commit on main belongs to a delivery that succeeded, that is about to
\* answer for it or to report it well, or that was cut short.
CommitsOwned ==
    \A j \in Job : CommitIn(j, main) =>
        \/ CutAfterMerge(j)
        \/ state[j] = "succeeded" /\ exec[j] = "succeeded"
        \/ /\ runner[j] = Proc
           /\ \/ pc \in Phases.answerable
              \/ pc \in {"cleanup", "reporting", "receipted"} /\ run.ok
              \/ pc \in Phases.reported /\ exec[j] = "succeeded"

\* A success is settled, being settled, or was cut short after it was said.
SuccessOwned ==
    \A j \in Job : exec[j] = "succeeded" =>
        \/ state[j] = "succeeded"
        \/ "reported" \in cut[j]
        \/ runner[j] = Proc /\ pc \in Phases.reported

\* A worktree is in use, or was left by a run that was cut short.
LeftBehind(t) ==
    \E j \in Job : of[j] = t /\ cut[j] \cap {"working", "answerable", "closing"} # {}

WorktreesOwned ==
    \A t \in dirs :
        \/ LeftBehind(t)
        \/ /\ \E j \in Job : runner[j] = Proc /\ of[j] = t
           /\ pc \in Phases.working \cup Phases.answerable
                     \cup {"confirming", "rechecking", "cleanup"}

PipelineInv ==
    /\ OneRun /\ Locals /\ RowOfRun /\ Worktree
    /\ MainFailingExplained /\ Holds(main) /\ BaseIsSound
    /\ CommitsOwned /\ SuccessOwned /\ WorktreesOwned

-----------------------------------------------------------------------------
(* Phases and commits.                                                     *)

\* The phases by name, and the phase a place belongs to.
LEMMA PhasesAre ==
  /\ Phases.working = {"generating", "testing", "repairing", "reviewing",
                       "staging", "merging"}
  /\ Phases.answerable = {"verifying", "removing", "reverting"}
  /\ Phases.closing = {"confirming", "rechecking", "cleanup", "reporting",
                       "receipted"}
  /\ Phases.reported = {"walking", "recording", "returning"}
  BY DEF Phases

\* What phase a place of the pipeline belongs to.
LEMMA PhaseOfPlace ==
  ASSUME NEW p
  PROVE  /\ PhaseOf(p) \subseteq DOMAIN Phases
         /\ "working" \in PhaseOf(p) <=> p \in Phases.working
         /\ "answerable" \in PhaseOf(p) <=> p \in Phases.answerable
         /\ "closing" \in PhaseOf(p) <=> p \in Phases.closing
         /\ "reported" \in PhaseOf(p) <=> p \in Phases.reported
  BY DEF PhaseOf, Phases

\* A further commit takes none away, and is the only one that is new.
LEMMA OneMoreCommit ==
  ASSUME NEW h \in Seq(Commit), NEW c \in Commit
  PROVE  LET g == Append(h, c)
         IN  /\ g \in Seq(Commit)
             /\ \A t : Delivered(t, h) => Delivered(t, g)
             /\ Delivered(of[c.job], g)
             /\ \A j : CommitIn(j, g) <=> CommitIn(j, h) \/ j = c.job
  <1> DEFINE g == Append(h, c)
  <1>1. /\ g \in Seq(Commit) /\ DOMAIN h = 1..Len(h) /\ Len(h) \in Nat
        /\ DOMAIN g = 1..(Len(h) + 1)
        /\ g[Len(h) + 1] = c /\ \A i \in DOMAIN h : g[i] = h[i]
    OBVIOUS
  <1>2. \A i \in DOMAIN g : i \in DOMAIN h \/ i = Len(h) + 1
    BY <1>1
  <1>3. DOMAIN h \subseteq DOMAIN g /\ Len(h) + 1 \in DOMAIN g
    BY <1>1
  <1>4. \A t : Delivered(t, h) => Delivered(t, g)
    BY <1>1, <1>3, Zenon DEF Delivered
  <1>5. Delivered(of[c.job], g)
    BY <1>1, <1>3, Zenon DEF Delivered
  <1>6. \A j : CommitIn(j, g) <=> CommitIn(j, h) \/ j = c.job
    BY <1>1, <1>2, <1>3, Zenon DEF CommitIn
  <1>7. QED
    BY <1>1, <1>4, <1>5, <1>6

-----------------------------------------------------------------------------
(* Types.                                                                  *)

\* It holds at the start.
LEMMA DInitType == DInit => TypeOK
  <1> SUFFICES ASSUME DInit PROVE TypeOK
    OBVIOUS
  <1>1. /\ "ready" \in TaskState /\ <<>> \in Seq(Commit)
        /\ 0 \in 0..MaxRepairs + 1
    BY DeliveryAssumption DEF TaskState, FLOW
  <1>2. run \in [seen : TaskState, base : Seq(Commit), tip : Seq(Commit),
                 attempt : 0..MaxRepairs + 1, red : BOOLEAN, ok : BOOLEAN]
    BY <1>1 DEF DInit, Blank
  <1>3. LCTypeOK
    BY DEF DInit, LCInit, LCTypeOK, States
  <1>4. QED
    BY <1>1, <1>2, <1>3 DEF DInit, TypeOK, PC, Awaits

\* The queue's rows keep their type.
LEMMA LCStepType ==
  ASSUME LCTypeOK,
         \/ \E j \in Job : \/ Submit(j) \/ Abandon(j) \/ Requeue(j)
                           \/ Start(j, Proc)
                           \/ \E s \in States : Finish(j, s)
         \/ \E J \in SUBSET Job : Recover(J)
         \/ UNCHANGED lcVars
  PROVE  LCTypeOK'
  BY DeliveryAssumption
  DEF LCTypeOK, States, Submit, Abandon, Requeue, Start, Finish, Recover, lcVars

\* A step of a delivery moves its job as the abstract queue may, or not at all.
LEMMA QueueStepsOnly ==
  ASSUME [DNext]_dVars
  PROVE  \/ \E j \in Job : \/ Submit(j) \/ Abandon(j) \/ Requeue(j)
                           \/ Start(j, Proc)
                           \/ \E s \in States : Finish(j, s)
         \/ \E J \in SUBSET Job : Recover(J)
         \/ UNCHANGED lcVars
  <1>1. ASSUME NEW j \in Job, HandlerStep(j) \/ RevertMissed(j)
        PROVE  UNCHANGED lcVars \/ \E s \in States : Finish(j, s)
    <2>1. {"succeeded", "dead_letter"} \subseteq States
      BY DEF States
    <2>2. QED
      BY <1>1, <2>1
      DEF HandlerStep, RevertMissed, Begin, Seed, Governance, RefuseEngine,
          CreateWorktree, Generate, TestsFail, Repair, GatePasses, GateBlocks,
          Commits, Converges, Merge, VerifyConverged, VerifyMerged, TestMain,
          RemoveWorktree, Revert, Recheck, Cleanup, Report, Succeed, Walk,
          Record, Return, GiveUp
  <1>2. ASSUME NEW j \in Job,
               Dispatch(j) \/ RetryDeadLetter(j) \/ Claim(j) \/ Die(j)
        PROVE  Submit(j) \/ Requeue(j) \/ Start(j, Proc) \/ Abandon(j)
    BY <1>2 DEF Dispatch, RetryDeadLetter, Claim, Die
  <1>3. ASSUME NEW j \in Job, Fault(j) PROVE \E s \in States : Finish(j, s)
    BY <1>3 DEF Fault, States
  <1>4. CASE Reclaim
    <2>1. {j \in Job : state[j] = "running" /\ runner[j] = NoWorker} \in SUBSET Job
      OBVIOUS
    <2>2. QED
      BY <1>4, <2>1 DEF Reclaim
  <1>5. ASSUME NEW t \in Task, Operator(t) PROVE UNCHANGED lcVars
    BY <1>5 DEF Operator
  <1>6. CASE UNCHANGED dVars
    BY <1>6 DEF dVars
  <1>7. QED
    BY <1>1, <1>2, <1>3, <1>4, <1>5, <1>6 DEF DNext

\* What is written next to the run keeps its type.
LEMMA RowStepType ==
  ASSUME TypeOK, [DNext]_dVars
  PROVE  /\ of' \in [Job -> Task]
         /\ exec' \in [Job -> {"absent", "queued", "running", "succeeded", "failed"}]
         /\ task' \in [Task -> TaskState] /\ receipt' \subseteq Task
         /\ repo' \in {"absent", "unborn", "ready"}
         /\ branches' \subseteq Task /\ dirs' \subseteq Task
         /\ pc' \in PC
         /\ cut' \in [Job -> SUBSET DOMAIN Phases] /\ mishaps' \in Nat
  <1> DEFINE T == /\ of' \in [Job -> Task]
                  /\ exec' \in [Job -> {"absent", "queued", "running",
                                        "succeeded", "failed"}]
                  /\ task' \in [Task -> TaskState] /\ receipt' \subseteq Task
                  /\ repo' \in {"absent", "unborn", "ready"}
                  /\ branches' \subseteq Task /\ dirs' \subseteq Task
                  /\ pc' \in PC
                  /\ cut' \in [Job -> SUBSET DOMAIN Phases] /\ mishaps' \in Nat
  <1> USE DEF TypeOK, PC, Awaits, rows, repository, history
  <1>1. ASSUME NEW j \in Job,
               \/ Begin(j) \/ Seed(j) \/ Governance(j) \/ RefuseEngine(j)
               \/ Report(j) \/ Succeed(j)
        PROVE  T
    <2>1. \/ UNCHANGED exec
          \/ \E s \in {"running", "succeeded", "failed"} :
                exec' = [exec EXCEPT ![j] = s]
      BY <1>1 DEF Begin, Seed, Governance, RefuseEngine, Report, Succeed
    <2>2. of[j] \in Task
      BY <1>1
    <2>3. QED
      BY <1>1, <2>1, <2>2
      DEF Begin, Seed, Governance, RefuseEngine, Report, Succeed
  <1>2. ASSUME NEW j \in Job,
               \/ CreateWorktree(j) \/ Converges(j) \/ RemoveWorktree(j)
               \/ Cleanup(j)
        PROVE  T
    BY <1>2 DEF CreateWorktree, Converges, RemoveWorktree, Cleanup, Dismantle
  <1>3. ASSUME NEW j \in Job,
               \/ Generate(j) \/ TestsFail(j) \/ Repair(j) \/ GatePasses(j)
               \/ GateBlocks(j) \/ Commits(j) \/ Merge(j) \/ VerifyConverged(j)
               \/ VerifyMerged(j) \/ Revert(j) \/ Recheck(j) \/ Record(j)
               \/ Return(j) \/ GiveUp(j) \/ Claim(j) \/ RetryDeadLetter(j)
        PROVE  T
    <2>1. /\ UNCHANGED <<of, exec, task, receipt, repo, branches, dirs, cut,
                         mishaps>>
          /\ \/ pc' \in {"testing", "repairing", "reviewing", "staging",
                         "cleanup", "merging", "verifying", "removing"}
             \/ pc' \in {"rechecking", "returning", "idle", "entry", pc}
      BY <1>3
      DEF Generate, TestsFail, Repair, GatePasses, GateBlocks, Commits, Merge,
          VerifyConverged, VerifyMerged, TestMain, Revert, Recheck, Record,
          Return, GiveUp, Claim, RetryDeadLetter
    <2>2. QED
      BY <2>1
  <1>4. ASSUME NEW j \in Job, Walk(j) PROVE T
    <2>1. WalkTo(j) \subseteq TaskState
      BY DEF WalkTo
    <2>2. task' \in [Task -> TaskState]
      BY <1>4, <2>1 DEF Walk
    <2>3. QED
      BY <1>4, <2>2 DEF Walk
  <1>5. ASSUME NEW j \in Job, Dispatch(j) PROVE T
    BY <1>5 DEF Dispatch
  <1>6. ASSUME NEW j \in Job, RevertMissed(j) \/ Die(j) \/ Fault(j) PROVE T
    <2>1. PhaseOf(pc) \subseteq DOMAIN Phases
      BY PhaseOfPlace
    <2>2. cut' = [cut EXCEPT ![j] = @ \cup PhaseOf(pc)] /\ mishaps' = mishaps + 1
      BY <1>6 DEF RevertMissed, Die, Fault
    <2>3. cut' \in [Job -> SUBSET DOMAIN Phases] /\ mishaps' \in Nat
      BY <2>1, <2>2
    <2>4. QED
      BY <1>6, <2>3 DEF RevertMissed, Die, Fault
  <1>7. ASSUME NEW t \in Task, Operator(t) PROVE T
    BY <1>7, DeliveryAssumption DEF Operator
  <1>8. CASE Reclaim \/ UNCHANGED dVars
    BY <1>8 DEF Reclaim, dVars
  <1>9. QED
    BY <1>1, <1>2, <1>3, <1>4, <1>5, <1>6, <1>7, <1>8 DEF DNext, HandlerStep

\* So do main and the local variables of the run.
LEMMA RunStepType ==
  ASSUME TypeOK, Locals, [DNext]_dVars
  PROVE  /\ main' \in Seq(Commit)
         /\ run' \in [seen : TaskState, base : Seq(Commit), tip : Seq(Commit),
                      attempt : 0..MaxRepairs + 1, red : BOOLEAN, ok : BOOLEAN]
  <1> DEFINE R == [seen : TaskState, base : Seq(Commit), tip : Seq(Commit),
                   attempt : 0..MaxRepairs + 1, red : BOOLEAN, ok : BOOLEAN]
             T == main' \in Seq(Commit) /\ run' \in R
  <1>0. /\ run \in R /\ main \in Seq(Commit) /\ MaxRepairs \in Nat
        /\ of \in [Job -> Task] /\ task \in [Task -> TaskState]
    BY DeliveryAssumption DEF TypeOK
  <1>1. ASSUME NEW j \in Job, Begin(j) PROVE T
    <2>1. task[of[j]] \in TaskState
      BY <1>0
    <2>2. QED
      BY <1>0, <1>1, <2>1 DEF Begin
  <1>2. ASSUME NEW j \in Job, CreateWorktree(j) PROVE T
    BY <1>0, <1>2 DEF CreateWorktree
  <1>3. ASSUME NEW j \in Job, Generate(j) PROVE T
    <2>1. 1 \in 0..MaxRepairs + 1
      BY <1>0
    <2>2. QED
      BY <1>0, <1>3, <2>1 DEF Generate, repository
  <1>4. ASSUME NEW j \in Job, Repair(j) PROVE T
    <2>1. run.attempt + 1 \in 0..MaxRepairs + 1
      BY <1>0, <1>4 DEF Repair, Handling, Locals
    <2>2. QED
      BY <1>0, <1>4, <2>1 DEF Repair, repository
  <1>5. ASSUME NEW j \in Job, Commits(j) PROVE T
    <2>1. PICK ok \in BOOLEAN :
             run' = [run EXCEPT !.tip = Append(@, [job |-> j, ok |-> ok])]
      BY <1>5 DEF Commits
    <2>2. [job |-> j, ok |-> ok] \in Commit /\ run.tip \in Seq(Commit)
      BY <1>0 DEF Commit
    <2>3. Append(run.tip, [job |-> j, ok |-> ok]) \in Seq(Commit)
      BY <2>2, OneMoreCommit
    <2>4. QED
      BY <1>0, <1>5, <2>1, <2>3 DEF Commits, repository
  <1>6. ASSUME NEW j \in Job, Merge(j) \/ Revert(j) PROVE T
    BY <1>0, <1>6 DEF Merge, Revert
  <1>7. ASSUME NEW j \in Job, VerifyConverged(j) \/ VerifyMerged(j) PROVE T
    BY <1>0, <1>7 DEF VerifyConverged, VerifyMerged, TestMain, repository
  <1>8. ASSUME NEW j \in Job, RevertMissed(j) PROVE T
    BY <1>0, <1>8 DEF RevertMissed, repository
  <1>9. ASSUME UNCHANGED main, run' = Blank \/ UNCHANGED run PROVE T
    <2>1. /\ "ready" \in TaskState /\ <<>> \in Seq(Commit)
          /\ 0 \in 0..MaxRepairs + 1
      BY <1>0 DEF TaskState, FLOW
    <2>2. Blank \in R
      BY <2>1 DEF Blank
    <2>3. QED
      BY <1>0, <1>9, <2>2
  <1>10. ASSUME NEW j \in Job,
               \/ Seed(j) \/ Governance(j) \/ RefuseEngine(j) \/ TestsFail(j)
               \/ GatePasses(j) \/ GateBlocks(j) \/ Converges(j)
               \/ RemoveWorktree(j) \/ Recheck(j) \/ Cleanup(j) \/ Report(j)
               \/ Succeed(j) \/ Walk(j) \/ Record(j) \/ Return(j) \/ GiveUp(j)
               \/ Dispatch(j) \/ RetryDeadLetter(j) \/ Claim(j) \/ Die(j)
               \/ Fault(j)
        PROVE  UNCHANGED main /\ (run' = Blank \/ UNCHANGED run)
    BY <1>10
    DEF Seed, Governance, RefuseEngine, TestsFail, GatePasses, GateBlocks,
        Converges, RemoveWorktree, Recheck, Cleanup, Report, Succeed, Walk,
        Record, Return, GiveUp, Dispatch, RetryDeadLetter, Claim, Die, Fault,
        repository
  <1>11. ASSUME NEW t \in Task, Operator(t)
         PROVE  UNCHANGED main /\ (run' = Blank \/ UNCHANGED run)
    BY <1>11 DEF Operator, repository
  <1>12. ASSUME Reclaim \/ UNCHANGED dVars
         PROVE  UNCHANGED main /\ (run' = Blank \/ UNCHANGED run)
    BY <1>12 DEF Reclaim, dVars, repository
  <1>13. QED
    BY <1>1, <1>2, <1>3, <1>4, <1>5, <1>6, <1>7, <1>8, <1>9, <1>10, <1>11,
       <1>12 DEF DNext, HandlerStep

\* Every step keeps it.
LEMMA DStepType == ASSUME TypeOK, Locals, [DNext]_dVars PROVE TypeOK'
  <1>1. LCTypeOK'
    BY QueueStepsOnly, LCStepType DEF TypeOK
  <1>2. QED
    BY <1>1, RowStepType, RunStepType DEF TypeOK

-----------------------------------------------------------------------------
(* Shapes of steps: inside a run, at its end, and from outside.            *)

\* The steps of a run that leave it running.
Inside(j) ==
    \/ Begin(j) \/ Seed(j) \/ Governance(j) \/ RefuseEngine(j)
    \/ CreateWorktree(j) \/ Generate(j) \/ TestsFail(j) \/ Repair(j)
    \/ GatePasses(j) \/ GateBlocks(j) \/ Commits(j) \/ Converges(j) \/ Merge(j)
    \/ VerifyConverged(j) \/ VerifyMerged(j) \/ RemoveWorktree(j) \/ Revert(j)
    \/ Recheck(j) \/ Cleanup(j) \/ Report(j) \/ Succeed(j) \/ Walk(j)
    \/ Record(j) \/ RevertMissed(j)

\* The steps that end one, and those from outside.
Ends(j) == Return(j) \/ GiveUp(j) \/ Die(j) \/ Fault(j)

Outside ==
    \/ \E t \in Task : Operator(t)
    \/ Reclaim
    \/ \E j \in Job : Dispatch(j) \/ RetryDeadLetter(j)
    \/ UNCHANGED dVars

\* Each step of a run is of one of a few shapes.
LEMMA ShapesOfSteps ==
  ASSUME [DNext]_dVars
  PROVE  \/ \E j \in Job : Inside(j) \/ Ends(j) \/ Claim(j)
         \/ Outside
  BY DEF DNext, HandlerStep, Inside, Ends, Outside

\* Inside a run its job stays where it is in the queue, and of the executions
\* only its own changes.
LEMMA InsideFacts ==
  ASSUME TypeOK, OneRun, NEW j \in Job, Inside(j)
  PROVE  /\ UNCHANGED <<state, runner, of>> /\ runner[j] = Proc
         /\ state[j] = "running" /\ \A i \in Job : runner[i] = Proc => i = j
         /\ pc # "idle" /\ pc' # "idle"
         /\ \A i \in Job : i # j => exec'[i] = exec[i]
         /\ exec'[j] = exec[j] \/ exec'[j] \in {"running", "succeeded", "failed"}
  <1>1. UNCHANGED <<state, runner, of>> /\ runner[j] = Proc
    BY DEF Inside, Begin, Seed, Governance, RefuseEngine, CreateWorktree,
           Generate, TestsFail, Repair, GatePasses, GateBlocks, Commits,
           Converges, Merge, VerifyConverged, VerifyMerged, TestMain,
           RemoveWorktree, Revert, Recheck, Cleanup, Report, Succeed, Walk,
           Record, RevertMissed, Handling, lcVars, rows
  <1>2. pc # "idle" /\ pc' # "idle"
    BY DEF Inside, Begin, Seed, Governance, RefuseEngine, CreateWorktree,
           Generate, TestsFail, Repair, GatePasses, GateBlocks, Commits,
           Converges, Merge, VerifyConverged, VerifyMerged, TestMain,
           RemoveWorktree, Revert, Recheck, Cleanup, Report, Succeed, Walk,
           Record, RevertMissed, Handling
  <1>3. \/ UNCHANGED exec
        \/ exec' = [exec EXCEPT ![j] = "running"]
        \/ exec' = [exec EXCEPT ![j] = "succeeded"]
        \/ exec' = [exec EXCEPT ![j] = "failed"]
        \/ exec' = [exec EXCEPT ![j] = exec[j]]
    BY DEF Inside, Begin, Seed, Governance, RefuseEngine, CreateWorktree,
           Generate, TestsFail, Repair, GatePasses, GateBlocks, Commits,
           Converges, Merge, VerifyConverged, VerifyMerged, TestMain,
           RemoveWorktree, Revert, Recheck, Cleanup, Report, Succeed, Walk,
           Record, RevertMissed, rows
  <1>4. exec \in [Job -> {"absent", "queued", "running", "succeeded", "failed"}]
    BY DEF TypeOK
  <1>5. QED
    BY <1>1, <1>2, <1>3, <1>4 DEF OneRun

\* At its end the control plane is idle and nothing but its job's row and the
\* history changed.
LEMMA EndsFacts ==
  ASSUME TypeOK, OneRun, NEW j \in Job, Ends(j)
  PROVE  /\ runner[j] = Proc /\ state[j] = "running" /\ pc # "idle"
         /\ \A i \in Job : runner[i] = Proc => i = j
         /\ \A i \in Job : runner'[i] # Proc
         /\ \A i \in Job : i # j => state'[i] = state[i] /\ cut'[i] = cut[i]
         /\ state'[j] # "absent"
         /\ pc' = "idle" /\ run' = Blank
         /\ UNCHANGED <<of, exec, task, receipt, repo, main, branches, dirs>>
  <1>1. /\ runner[j] # NoWorker /\ state[j] = "running"
        /\ runner' = [runner EXCEPT ![j] = NoWorker]
        /\ \/ UNCHANGED state
           \/ \E s \in {"succeeded", "pending", "dead_letter"} :
                 state' = [state EXCEPT ![j] = s]
    BY DEF Ends, Return, GiveUp, Die, Fault, Finish, Abandon
  <1>2. runner \in [Job -> {Proc, NoWorker}] /\ state \in [Job -> States]
    BY DeliveryAssumption DEF TypeOK, LCTypeOK
  <1>3. /\ pc' = "idle" /\ run' = Blank
        /\ UNCHANGED <<of, exec, task, receipt, repo, main, branches, dirs>>
        /\ UNCHANGED cut \/ cut' = [cut EXCEPT ![j] = @ \cup PhaseOf(pc)]
    BY DEF Ends, Return, GiveUp, Die, Fault, rows, repository, history
  <1>4. cut \in [Job -> SUBSET DOMAIN Phases]
    BY DEF TypeOK
  <1>5. runner[j] = Proc /\ \A i \in Job : runner[i] = Proc => i = j
    BY <1>1, <1>2 DEF OneRun
  <1>6. \A i \in Job : runner'[i] # Proc
    BY <1>1, <1>2, <1>5, DeliveryAssumption
  <1>7. /\ \A i \in Job : i # j => state'[i] = state[i] /\ cut'[i] = cut[i]
        /\ state'[j] # "absent"
    BY <1>1, <1>2, <1>3, <1>4 DEF States
  <1>8. pc # "idle"
    BY <1>5 DEF OneRun
  <1>9. QED
    BY <1>1, <1>3, <1>5, <1>6, <1>7, <1>8

\* From outside nothing of a run changes, nor of the repository.
LEMMA OutsideFacts ==
  ASSUME TypeOK, OneRun, Outside
  PROVE  /\ UNCHANGED <<runner, of, receipt, repo, main, branches, dirs, pc, run,
                        cut>>
         /\ \A j \in Job :
               \/ exec'[j] = exec[j] /\ state'[j] = state[j]
               \/ /\ exec'[j] = exec[j] /\ state[j] \in {"running", "dead_letter"}
                  /\ state'[j] = "pending" /\ runner[j] # Proc
               \/ /\ exec[j] = "absent" /\ exec'[j] = "queued"
                  /\ state[j] = "absent" /\ state'[j] = "pending"
  <1>0. /\ state \in [Job -> States] /\ runner \in [Job -> {Proc, NoWorker}]
        /\ exec \in [Job -> {"absent", "queued", "running", "succeeded", "failed"}]
    BY DeliveryAssumption DEF TypeOK, LCTypeOK
  <1> DEFINE T == /\ UNCHANGED <<runner, of, receipt, repo, main, branches, dirs,
                                 pc, run, cut>>
                  /\ \A j \in Job :
                        \/ exec'[j] = exec[j] /\ state'[j] = state[j]
                        \/ /\ exec'[j] = exec[j]
                           /\ state[j] \in {"running", "dead_letter"}
                           /\ state'[j] = "pending" /\ runner[j] # Proc
                        \/ /\ exec[j] = "absent" /\ exec'[j] = "queued"
                           /\ state[j] = "absent" /\ state'[j] = "pending"
  <1>1. ASSUME NEW t \in Task, Operator(t) PROVE T
    BY <1>1 DEF Operator, lcVars, repository, history
  <1>2. CASE UNCHANGED dVars
    BY <1>2 DEF dVars, lcVars, rows, repository, history
  <1>3. CASE Reclaim
    BY <1>0, <1>3, DeliveryAssumption DEF Reclaim, Recover, rows, repository, history
  <1>4. ASSUME NEW j \in Job, Dispatch(j) PROVE T
    <2>1. exec[j] = "absent"
      BY <1>4 DEF Dispatch, Submit, OneRun
    <2>2. QED
      BY <1>0, <1>4, <2>1 DEF Dispatch, Submit, repository, history
  <1>5. ASSUME NEW j \in Job, RetryDeadLetter(j) PROVE T
    BY <1>0, <1>5
    DEF RetryDeadLetter, Requeue, OneRun, rows, repository, history
  <1>6. QED
    BY <1>1, <1>2, <1>3, <1>4, <1>5 DEF Outside

\* A claim starts a run at its entry.
LEMMA ClaimFacts ==
  ASSUME TypeOK, OneRun, NEW j \in Job, Claim(j)
  PROVE  /\ \A i \in Job : runner[i] # Proc
         /\ runner'[j] = Proc /\ \A i \in Job : i # j => runner'[i] # Proc
         /\ state[j] = "pending" /\ state'[j] = "running"
         /\ \A i \in Job : i # j => state'[i] = state[i]
         /\ pc = "idle" /\ pc' = "entry"
         /\ UNCHANGED <<of, exec, task, receipt, repo, main, branches, dirs, run,
                        cut>>
  BY DeliveryAssumption
  DEF Claim, Start, TypeOK, LCTypeOK, OneRun, rows, repository, history

-----------------------------------------------------------------------------
(* Step by step, conjunct by conjunct.                                     *)

\* No step starts a second run.
LEMMA KeepsOneRun ==
  ASSUME TypeOK, OneRun, [DNext]_dVars PROVE OneRun'
  <1>1. ASSUME NEW j \in Job, Inside(j) PROVE OneRun'
    BY <1>1, InsideFacts DEF OneRun
  <1>2. ASSUME NEW j \in Job, Ends(j) PROVE OneRun'
    BY <1>2, EndsFacts DEF OneRun
  <1>3. ASSUME NEW j \in Job, Claim(j) PROVE OneRun'
    BY <1>3, ClaimFacts DEF OneRun
  <1>4. CASE Outside
    BY <1>4, OutsideFacts DEF OneRun
  <1>5. QED
    BY <1>1, <1>2, <1>3, <1>4, ShapesOfSteps

\* What the tests would say of main depends on main alone.
LEMMA SameMain ==
  ASSUME UNCHANGED <<of, main>>
  PROVE  /\ Failing(main)' <=> Failing(main)
         /\ \A t \in Task : Delivered(t, main)' <=> Delivered(t, main)
  BY DEF Failing, Delivered

\* What a run remembers stays what its place says.
LEMMA KeepsLocals ==
  ASSUME TypeOK, OneRun, Locals, [DNext]_dVars PROVE Locals'
  <1>0. /\ run \in [seen : TaskState, base : Seq(Commit), tip : Seq(Commit),
                    attempt : 0..MaxRepairs + 1, red : BOOLEAN, ok : BOOLEAN]
        /\ MaxRepairs \in Nat /\ Blank.ok = FALSE
    BY DeliveryAssumption DEF TypeOK, Blank
  <1>1. ASSUME NEW j \in Job, Inside(j) PROVE Locals'
    <2>1. CASE \/ Begin(j) \/ CreateWorktree(j) \/ Commits(j) \/ Generate(j)
      BY <1>0, <2>1
      DEF Begin, CreateWorktree, Commits, Generate, Handling, Locals
    <2>2. CASE \/ Seed(j) \/ Governance(j) \/ RefuseEngine(j) \/ TestsFail(j)
               \/ GatePasses(j) \/ GateBlocks(j) \/ Converges(j) \/ Merge(j)
               \/ Revert(j) \/ Recheck(j) \/ Cleanup(j) \/ Report(j)
               \/ Succeed(j) \/ Walk(j) \/ Record(j)
      <3>1. UNCHANGED run /\ pc' \notin {"removing"}
        BY <2>2
        DEF Seed, Governance, RefuseEngine, TestsFail, GatePasses, GateBlocks,
            Converges, Merge, Revert, Recheck, Cleanup, Report, Succeed, Walk,
            Record, Handling
      <3>2. pc' = "repairing" => run.attempt <= MaxRepairs
        BY <2>2
        DEF Seed, Governance, RefuseEngine, TestsFail, RepairBudget, GatePasses,
            GateBlocks, Converges, Merge, Revert, Recheck, Cleanup, Report,
            Succeed, Walk, Record, Handling
      <3>3. pc' = "receipted" => run.ok
        BY <2>2
        DEF Seed, Governance, RefuseEngine, TestsFail, GatePasses, GateBlocks,
            Converges, Merge, Revert, Recheck, Cleanup, Report, Succeed, Walk,
            Record, Handling
      <3>4. pc' \in {"cleanup", "reporting", "receipted", "walking",
                     "recording", "returning"} \/ ~run.ok
        BY <2>2
        DEF Seed, Governance, RefuseEngine, TestsFail, GatePasses, GateBlocks,
            Converges, Merge, Revert, Recheck, Cleanup, Report, Succeed, Walk,
            Record, Handling, Locals
      <3>5. QED
        BY <3>1, <3>2, <3>3, <3>4 DEF Locals
    <2>3. CASE Repair(j)
      BY <1>0, <2>3 DEF Repair, Handling, Locals
    <2>4. CASE VerifyConverged(j) \/ VerifyMerged(j)
      <3>1. PICK failed \in BOOLEAN :
               /\ Failing(main) => failed
               /\ run' = [run EXCEPT !.red = failed, !.ok = ~failed]
        BY <2>4 DEF VerifyConverged, VerifyMerged, TestMain
      <3>2. UNCHANGED <<of, main>> /\ pc' \in {"removing", "cleanup"}
        BY <2>4 DEF VerifyConverged, VerifyMerged, TestMain, rows, repository
      <3>3. run'.red = failed /\ run'.ok = ~failed
        BY <1>0, <3>1
      <3>4. QED
        BY <3>1, <3>2, <3>3, SameMain DEF Locals
    <2>5. CASE RemoveWorktree(j)
      <3>1. UNCHANGED run /\ pc = "removing"
            /\ pc' = IF run.red THEN "reverting" ELSE "cleanup"
        BY <2>5 DEF RemoveWorktree, Handling
      <3>2. run.red \in BOOLEAN /\ run.ok \in BOOLEAN
        BY <1>0
      <3>3. QED
        BY <3>1, <3>2 DEF Locals
    <2>6. CASE RevertMissed(j)
      BY <1>0, <2>6 DEF RevertMissed, Locals
    <2>7. QED
      BY <1>1, <2>1, <2>2, <2>3, <2>4, <2>5, <2>6 DEF Inside
  <1>2. ASSUME NEW j \in Job, Ends(j) PROVE Locals'
    BY <1>0, <1>2, EndsFacts DEF Locals
  <1>3. ASSUME NEW j \in Job, Claim(j) PROVE Locals'
    BY <1>3, ClaimFacts DEF Locals
  <1>4. CASE Outside
    BY <1>4, OutsideFacts, SameMain DEF Locals
  <1>5. QED
    BY <1>1, <1>2, <1>3, <1>4, ShapesOfSteps

\* The row of a run under way stays its row.
LEMMA KeepsRowOfRun ==
  ASSUME TypeOK, OneRun, RowOfRun, [DNext]_dVars PROVE RowOfRun'
  <1> USE PhasesAre
  <1>1. ASSUME NEW j \in Job, Inside(j) PROVE RowOfRun'
    <2>1. SUFFICES
            /\ pc' \in {"starting"} \cup Phases.working \cup Phases.answerable
                       \cup Phases.closing => exec'[j] = "running"
            /\ pc' \in {"walking", "recording"} => exec'[j] = "succeeded"
      BY <1>1, InsideFacts DEF RowOfRun
    <2>2. exec \in [Job -> {"absent", "queued", "running", "succeeded", "failed"}]
      BY DEF TypeOK
    <2>3. CASE \/ Begin(j) \/ Seed(j) \/ Governance(j) \/ RefuseEngine(j)
               \/ Report(j) \/ Succeed(j)
      BY <1>1, <2>2, <2>3
      DEF Begin, Seed, Governance, RefuseEngine, Report, Succeed, Handling,
          RowOfRun, rows
    <2>4. CASE \/ CreateWorktree(j) \/ Generate(j) \/ TestsFail(j) \/ Repair(j)
               \/ GatePasses(j) \/ GateBlocks(j) \/ Commits(j) \/ Converges(j)
               \/ Merge(j) \/ VerifyConverged(j) \/ VerifyMerged(j)
               \/ RemoveWorktree(j) \/ Revert(j) \/ Recheck(j) \/ Cleanup(j)
               \/ RevertMissed(j)
      <3>1. /\ pc \in {"starting"} \cup Phases.working \cup Phases.answerable
                      \cup Phases.closing
            /\ pc' \notin {"walking", "recording"}
            /\ UNCHANGED exec /\ runner[j] = Proc
        BY <2>4
        DEF CreateWorktree, Generate, TestsFail, Repair, GatePasses, GateBlocks,
            Commits, Converges, Merge, VerifyConverged, VerifyMerged, TestMain,
            RemoveWorktree, Revert, Recheck, Cleanup, RevertMissed, Handling,
            rows
      <3>2. QED
        BY <3>1 DEF RowOfRun
    <2>5. CASE Walk(j) \/ Record(j)
      BY <1>1, <2>5 DEF Walk, Record, Handling, RowOfRun, rows
    <2>6. QED
      BY <1>1, <2>3, <2>4, <2>5 DEF Inside
  <1>2. ASSUME NEW j \in Job, Ends(j) PROVE RowOfRun'
    BY <1>2, EndsFacts DEF RowOfRun
  <1>3. ASSUME NEW j \in Job, Claim(j) PROVE RowOfRun'
    BY <1>3, ClaimFacts DEF RowOfRun
  <1>4. CASE Outside
    <2>1. ASSUME NEW j \in Job, runner[j] = Proc PROVE exec'[j] = exec[j]
      BY <1>4, <2>1, OutsideFacts DEF OneRun
    <2>2. UNCHANGED <<runner, pc>>
      BY <1>4, OutsideFacts
    <2>3. QED
      BY <2>1, <2>2 DEF RowOfRun
  <1>5. QED
    BY <1>1, <1>2, <1>3, <1>4, ShapesOfSteps

\* Only a merge and a revert move main; only a revert that is missed is
\* history while its run goes on.
LEMMA InsideHistory ==
  ASSUME TypeOK, NEW j \in Job, Inside(j)
  PROVE  /\ Merge(j) \/ Revert(j) \/ UNCHANGED main
         /\ RevertMissed(j) \/ UNCHANGED cut
         /\ Walk(j) \/ UNCHANGED task
         /\ Succeed(j) \/ \A i \in Job :
               exec'[i] = "succeeded" => exec[i] = "succeeded"
  <1>1. Merge(j) \/ Revert(j) \/ UNCHANGED main
    BY DEF Inside, Begin, Seed, Governance, RefuseEngine, CreateWorktree,
           Generate, TestsFail, Repair, GatePasses, GateBlocks, Commits,
           Converges, VerifyConverged, VerifyMerged, TestMain, RemoveWorktree,
           Recheck, Cleanup, Report, Succeed, Walk, Record, RevertMissed,
           repository
  <1>2. RevertMissed(j) \/ UNCHANGED cut
    BY DEF Inside, Begin, Seed, Governance, RefuseEngine, CreateWorktree,
           Generate, TestsFail, Repair, GatePasses, GateBlocks, Commits,
           Converges, Merge, VerifyConverged, VerifyMerged, TestMain,
           RemoveWorktree, Revert, Recheck, Cleanup, Report, Succeed, Walk,
           Record, history
  <1>3. Walk(j) \/ UNCHANGED task
    BY DEF Inside, Begin, Seed, Governance, RefuseEngine, CreateWorktree,
           Generate, TestsFail, Repair, GatePasses, GateBlocks, Commits,
           Converges, Merge, VerifyConverged, VerifyMerged, TestMain,
           RemoveWorktree, Revert, Recheck, Cleanup, Report, Succeed, Record,
           RevertMissed, rows
  <1>4. \/ Succeed(j)
        \/ UNCHANGED exec
        \/ exec' = [exec EXCEPT ![j] = "running"]
        \/ exec' = [exec EXCEPT ![j] = "failed"]
        \/ exec' = [exec EXCEPT ![j] = exec[j]]
    BY DEF Inside, Begin, Seed, Governance, RefuseEngine, CreateWorktree,
           Generate, TestsFail, Repair, GatePasses, GateBlocks, Commits,
           Converges, Merge, VerifyConverged, VerifyMerged, TestMain,
           RemoveWorktree, Revert, Recheck, Cleanup, Report, Walk,
           Record, RevertMissed, rows
  <1>5. exec \in [Job -> {"absent", "queued", "running", "succeeded", "failed"}]
    BY DEF TypeOK
  <1>6. QED
    BY <1>1, <1>2, <1>3, <1>4, <1>5

\* Where the worktree's base, tip and verdict come from.
LEMMA KeepsWorktree ==
  ASSUME TypeOK, OneRun, Locals, Worktree, [DNext]_dVars PROVE Worktree'
  <1> USE PhasesAre
  <1>0. /\ run \in [seen : TaskState, base : Seq(Commit), tip : Seq(Commit),
                    attempt : 0..MaxRepairs + 1, red : BOOLEAN, ok : BOOLEAN]
        /\ main \in Seq(Commit) /\ Blank.ok = FALSE
    BY DEF TypeOK, Blank
  <1>1. ASSUME NEW j \in Job, Inside(j) PROVE Worktree'
    <2>0. /\ UNCHANGED <<runner, of>> /\ runner[j] = Proc
          /\ \A i \in Job : runner'[i] = Proc => i = j
      BY <1>1, InsideFacts
    <2>1. SUFFICES
            /\ pc' \in Phases.working \cup {"confirming"} => run'.base = main'
            /\ pc' \in Phases.working \ {"merging"} => run'.tip = main'
            /\ pc' = "merging" => OneCommitOn(main', j, run'.tip)
            /\ pc' \in Phases.answerable => OneCommitOn(run'.base, j, main')
            /\ pc' = "confirming" => Delivered(of[j], main)'
            /\ pc' \in {"cleanup", "reporting", "receipted"} /\ run'.ok =>
                  Delivered(of[j], main)'
      <3>1. \A i \in Job : runner'[i] = Proc =>
               /\ OneCommitOn(main', j, run'.tip) => OneCommitOn(main', i, run'.tip)
               /\ OneCommitOn(run'.base, j, main') => OneCommitOn(run'.base, i, main')
        BY <2>0
      <3>2. \A i \in Job : runner'[i] = Proc =>
               (Delivered(of[j], main)' => Delivered(of[i], main)')
        BY <2>0 DEF Delivered
      <3>3. QED
        BY <2>1, <3>1, <3>2 DEF Worktree
    <2>2. UNCHANGED main => (Delivered(of[j], main)' <=> Delivered(of[j], main))
      BY <2>0 DEF Delivered
    <2>3. CASE CreateWorktree(j)
      BY <1>0, <2>3 DEF CreateWorktree, Locals, Handling
    <2>4. CASE Commits(j)
      <3>1. /\ pc' = "merging" /\ UNCHANGED main /\ run.base = main /\ run.tip = main
        BY <2>4 DEF Commits, Handling, repository, Worktree
      <3>2. PICK ok \in BOOLEAN :
               run' = [run EXCEPT !.tip = Append(@, [job |-> j, ok |-> ok])]
        BY <2>4 DEF Commits
      <3>3. /\ run'.base = run.base
            /\ run'.tip = Append(run.tip, [job |-> j, ok |-> ok])
        BY <1>0, <3>2
      <3>4. OneCommitOn(main', j, run'.tip)
        BY <3>1, <3>3 DEF OneCommitOn
      <3>5. QED
        BY <3>1, <3>3, <3>4
    <2>5. CASE Converges(j)
      BY <2>2, <2>5
      DEF Converges, Handling, Worktree
    <2>6. CASE Merge(j)
      <3>1. /\ pc' = "verifying" /\ UNCHANGED run /\ main' = run.tip
            /\ run.base = main /\ OneCommitOn(main, j, run.tip)
        BY <2>0, <2>6 DEF Merge, Handling, Worktree
      <3>2. QED
        BY <3>1
    <2>7. CASE VerifyMerged(j)
      <3>1. /\ pc' = "removing" /\ run'.base = run.base /\ UNCHANGED main
            /\ OneCommitOn(run.base, j, main)
        BY <1>0, <2>0, <2>7
        DEF VerifyMerged, TestMain, Handling, Worktree, repository
      <3>2. QED
        BY <3>1
    <2>8. CASE VerifyConverged(j)
      <3>1. /\ pc' = "cleanup" /\ UNCHANGED main /\ Delivered(of[j], main)
        BY <2>0, <2>8
        DEF VerifyConverged, TestMain, Handling, Worktree, repository
      <3>2. QED
        BY <2>2, <3>1
    <2>9. CASE RemoveWorktree(j)
      <3>1. /\ UNCHANGED <<main, run>> /\ OneCommitOn(run.base, j, main)
            /\ pc' \in {"reverting", "cleanup"}
        BY <2>0, <2>9 DEF RemoveWorktree, Handling, Worktree
      <3>2. Delivered(of[j], main)
        <4>1. PICK ok \in BOOLEAN : main = Append(run.base, [job |-> j, ok |-> ok])
          BY <3>1 DEF OneCommitOn
        <4>2. [job |-> j, ok |-> ok] \in Commit /\ run.base \in Seq(Commit)
          BY <1>0 DEF Commit
        <4>3. Delivered(of[[job |-> j, ok |-> ok].job], main)
          BY <4>1, <4>2, OneMoreCommit
        <4>4. QED
          BY <4>3
      <3>3. QED
        BY <2>2, <3>1, <3>2
    <2>10. CASE Revert(j)
      BY <2>10 DEF Revert
    <2>11. CASE RevertMissed(j)
      BY <1>0, <2>11 DEF RevertMissed
    <2>12. CASE \/ Generate(j) \/ TestsFail(j) \/ Repair(j) \/ GatePasses(j)
                \/ GateBlocks(j)
      <3>1. /\ UNCHANGED main /\ run'.base = run.base /\ run'.tip = run.tip
            /\ run'.ok = run.ok
        BY <1>0, <2>12
        DEF Generate, TestsFail, Repair, GatePasses, GateBlocks, repository
      <3>2. /\ pc \in Phases.working
            /\ \/ pc' \in Phases.working \ {"merging"} /\ pc # "merging"
               \/ pc' = "cleanup"
        BY <2>12
        DEF Generate, TestsFail, Repair, GatePasses, GateBlocks, Handling
      <3>3. QED
        BY <3>1, <3>2 DEF Worktree, Locals
    <2>13. CASE \/ Begin(j) \/ Seed(j) \/ Governance(j) \/ RefuseEngine(j)
                \/ Succeed(j) \/ Walk(j) \/ Record(j)
      <3>1. pc' \in PC \ (Phases.working \cup Phases.answerable
                         \cup {"confirming", "cleanup", "reporting", "receipted"})
        BY <2>13
        DEF Begin, Seed, Governance, RefuseEngine, Succeed, Walk, Record,
            Handling, PC, Awaits
      <3>2. QED
        BY <3>1
    <2>14. CASE Recheck(j)
      BY <2>14 DEF Recheck, Handling, Locals
    <2>15. CASE Cleanup(j) \/ Report(j)
      <3>1. /\ UNCHANGED <<main, run>> /\ pc \in {"cleanup", "reporting"}
            /\ pc' \in {"reporting", "receipted", "returning"}
        BY <2>15 DEF Cleanup, Report, Handling, repository
      <3>2. QED
        BY <2>0, <2>2, <3>1 DEF Worktree
    <2>16. QED
      BY <1>1, <2>3, <2>4, <2>5, <2>6, <2>7, <2>8, <2>9, <2>10, <2>11, <2>12,
         <2>13, <2>14, <2>15 DEF Inside
  <1>2. ASSUME NEW j \in Job, Ends(j) PROVE Worktree'
    BY <1>2, EndsFacts DEF Worktree
  <1>3. ASSUME NEW j \in Job, Claim(j) PROVE Worktree'
    BY <1>3, ClaimFacts DEF Worktree
  <1>4. CASE Outside
    <2>1. UNCHANGED <<runner, of, main, pc, run>>
      BY <1>4, OutsideFacts
    <2>2. \A j \in Job : Delivered(of[j], main)' <=> Delivered(of[j], main)
      BY <2>1 DEF Delivered
    <2>3. QED
      BY <2>1, <2>2 DEF Worktree
  <1>5. QED
    BY <1>1, <1>2, <1>3, <1>4, ShapesOfSteps

\* A death, a fault or a missed revert writes into the history where it struck.
LEMMA CutFacts ==
  ASSUME TypeOK, NEW j \in Job, RevertMissed(j) \/ Die(j) \/ Fault(j)
  PROVE  /\ \A i \in Job : cut[i] \subseteq cut'[i]
         /\ pc \in Phases.working => "working" \in cut'[j]
         /\ pc \in Phases.answerable => "answerable" \in cut'[j]
         /\ pc \in Phases.closing => "closing" \in cut'[j]
         /\ pc \in Phases.reported => "reported" \in cut'[j]
  <1>1. cut' = [cut EXCEPT ![j] = @ \cup PhaseOf(pc)]
    BY DEF RevertMissed, Die, Fault
  <1>2. cut \in [Job -> SUBSET DOMAIN Phases]
    BY DEF TypeOK
  <1>3. cut'[j] = cut[j] \cup PhaseOf(pc) /\ \A i \in Job : i # j => cut'[i] = cut[i]
    BY <1>1, <1>2
  <1>4. QED
    BY <1>3, PhaseOfPlace

\* The history only grows.
LEMMA CutGrows ==
  ASSUME TypeOK, [DNext]_dVars, NEW i \in Job PROVE cut[i] \subseteq cut'[i]
  <1>1. ASSUME NEW j \in Job, Inside(j) PROVE cut[i] \subseteq cut'[i]
    BY <1>1, InsideHistory, CutFacts
  <1>2. ASSUME NEW j \in Job, Ends(j) PROVE cut[i] \subseteq cut'[i]
    BY <1>2, CutFacts DEF Ends, Return, GiveUp, history
  <1>3. QED
    BY <1>1, <1>2, ShapesOfSteps
    DEF Claim, Outside, Operator, Reclaim, Dispatch, RetryDeadLetter, dVars,
        history

\* A main that fails keeps its explanation.
LEMMA KeepsMainExplained ==
  ASSUME TypeOK, OneRun, Locals, BaseIsSound, MainFailingExplained, [DNext]_dVars
  PROVE  MainFailingExplained'
  <1> USE PhasesAre DEF MainFailingExplained
  <1>1. ASSUME UNCHANGED <<of, main>>, pc \notin Phases.answerable
        PROVE  MainFailingExplained'
    BY <1>1, SameMain, CutGrows
  <1>2. ASSUME NEW j \in Job, Inside(j) PROVE MainFailingExplained'
    <2>0. UNCHANGED of
      BY <1>2, InsideFacts
    <2>1. CASE Merge(j)
      BY <2>1 DEF Merge
    <2>2. CASE Revert(j)
      <3>1. pc = "reverting" /\ main' = run.base
        BY <2>2 DEF Revert, Handling
      <3>2. Failing(main)' <=> Failing(run.base)
        BY <2>0, <3>1 DEF Failing
      <3>3. QED
        BY <3>1, <3>2, CutGrows DEF BaseIsSound
    <2>3. CASE RevertMissed(j)
      <3>1. "answerable" \in cut'[j]
        BY <2>3, CutFacts DEF RevertMissed, Handling
      <3>2. QED
        BY <3>1
    <2>4. CASE VerifyMerged(j)
      BY <2>4 DEF VerifyMerged, TestMain
    <2>5. CASE RemoveWorktree(j)
      <3>1. /\ UNCHANGED main /\ pc = "removing"
            /\ pc' = IF run.red THEN "reverting" ELSE "cleanup"
        BY <2>5 DEF RemoveWorktree, Handling
      <3>2. QED
        BY <2>0, <3>1, SameMain DEF Locals
    <2>6. CASE ~(\/ Merge(j) \/ Revert(j) \/ RevertMissed(j) \/ VerifyMerged(j)
                 \/ RemoveWorktree(j))
      <3>1. pc \notin Phases.answerable
        BY <1>2, <2>6
        DEF Inside, Begin, Seed, Governance, RefuseEngine, CreateWorktree,
            Generate, TestsFail, Repair, GatePasses, GateBlocks, Commits,
            Converges, VerifyConverged, Recheck, Cleanup, Report, Succeed, Walk,
            Record, Handling
      <3>2. UNCHANGED main
        BY <1>2, <2>6, InsideHistory
      <3>3. QED
        BY <1>1, <2>0, <3>1, <3>2
    <2>7. QED
      BY <2>1, <2>2, <2>3, <2>4, <2>5, <2>6
  <1>3. ASSUME NEW j \in Job, Ends(j) PROVE MainFailingExplained'
    <2>1. UNCHANGED <<of, main>>
      BY <1>3, EndsFacts
    <2>2. CASE Die(j)
      <3>1. pc \in Phases.answerable => "answerable" \in cut'[j]
        BY <2>2, CutFacts
      <3>2. QED
        BY <1>1, <2>1, <3>1
    <2>3. CASE ~Die(j)
      <3>1. pc \notin Phases.answerable
        BY <1>3, <2>3 DEF Ends, Return, GiveUp, Fault, Handling
      <3>2. QED
        BY <1>1, <2>1, <3>1
    <2>4. QED
      BY <2>2, <2>3
  <1>4. ASSUME NEW j \in Job, Claim(j) PROVE MainFailingExplained'
    <2>1. UNCHANGED <<of, main>> /\ pc = "idle"
      BY <1>4, ClaimFacts
    <2>2. QED
      BY <1>1, <2>1
  <1>5. CASE Outside
    <2>1. UNCHANGED <<of, main, pc, cut>>
      BY <1>5, OutsideFacts
    <2>2. QED
      BY <2>1, SameMain
  <1>6. QED
    BY <1>2, <1>3, <1>4, <1>5, ShapesOfSteps

\* A success is settled, being settled, or in the history.
LEMMA KeepsSuccessOwned ==
  ASSUME TypeOK, OneRun, RowOfRun, SuccessOwned, [DNext]_dVars
  PROVE  SuccessOwned'
  <1> USE PhasesAre DEF SuccessOwned
  <1>1. ASSUME NEW j \in Job, Inside(j) PROVE SuccessOwned'
    <2>1. /\ UNCHANGED <<state, runner>> /\ runner[j] = Proc
          /\ state[j] = "running"
          /\ \A i \in Job : i # j => exec'[i] = exec[i] /\ runner[i] # Proc
      BY <1>1, InsideFacts
    <2>2. Succeed(j) \/ (exec'[j] = "succeeded" => exec[j] = "succeeded")
      BY <1>1, InsideHistory
    <2>3. CASE Succeed(j)
      BY <2>1, <2>3, CutGrows DEF Succeed
    <2>4. CASE Walk(j) \/ Record(j)
      <3>1. pc' \in Phases.reported
        BY <2>4 DEF Walk, Record, Handling
      <3>2. QED
        BY <2>1, <3>1, CutGrows
    <2>5. CASE ~(Succeed(j) \/ Walk(j) \/ Record(j))
      <3>1. pc \notin Phases.reported
        BY <1>1, <2>5
        DEF Inside, Begin, Seed, Governance, RefuseEngine, CreateWorktree,
            Generate, TestsFail, Repair, GatePasses, GateBlocks, Commits,
            Converges, Merge, VerifyConverged, VerifyMerged, RemoveWorktree,
            Revert, Recheck, Cleanup, Report, RevertMissed, Handling
      <3>2. QED
        BY <2>1, <2>2, <2>5, <3>1, CutGrows
    <2>6. QED
      BY <2>3, <2>4, <2>5
  <1>2. ASSUME NEW j \in Job, Ends(j) PROVE SuccessOwned'
    <2>1. /\ UNCHANGED exec
          /\ \A i \in Job : i # j => state'[i] = state[i] /\ runner[i] # Proc
          /\ state[j] = "running"
      BY <1>2, EndsFacts
    <2>2. pc \in Phases.reported => state'[j] = "succeeded" \/ "reported" \in cut'[j]
      <3>1. CASE Return(j)
        BY <3>1 DEF Return, Finish, TypeOK, LCTypeOK
      <3>2. CASE Die(j) \/ Fault(j)
        BY <3>2, CutFacts
      <3>3. CASE GiveUp(j)
        BY <3>3 DEF GiveUp, Handling
      <3>4. QED
        BY <1>2, <3>1, <3>2, <3>3 DEF Ends
    <2>3. QED
      BY <2>1, <2>2, CutGrows
  <1>3. ASSUME NEW j \in Job, Claim(j) PROVE SuccessOwned'
    BY <1>3, ClaimFacts
  <1>4. CASE Outside
    BY <1>4, OutsideFacts DEF OneRun
  <1>5. QED
    BY <1>1, <1>2, <1>3, <1>4, ShapesOfSteps

\* What is reported done outlives every step that neither reports more nor
\* shortens the history h is about.
LEMMA HoldsStill ==
  ASSUME NEW h, NEW g, UNCHANGED of, Holds(h),
         \A t \in Task : Delivered(t, h) => Delivered(t, g),
         of \in [Job -> Task],
         \A j \in Job : exec'[j] = "succeeded" => exec[j] = "succeeded"
                                                 \/ Delivered(of[j], g),
         NoneDeclared => \A t \in Task :
            task'[t] = "completed" => task[t] = "completed" \/ Delivered(t, g)
  PROVE  /\ \A j \in Job : exec'[j] = "succeeded" => Delivered(of[j], g)
         /\ NoneDeclared =>
               \A t \in Task : task'[t] = "completed" => Delivered(t, g)
  BY DEF Holds

\* From outside nothing is reported done but by operators.
LEMMA OperatorCompletesNone ==
  ASSUME TypeOK, OneRun,
         Outside \/ \E j \in Job : Ends(j) \/ Claim(j)
  PROVE  /\ UNCHANGED <<of, main>>
         /\ \A j \in Job : exec'[j] = "succeeded" => exec[j] = "succeeded"
         /\ NoneDeclared =>
               \A t \in Task : task'[t] = "completed" => task[t] = "completed"
  <1>1. ASSUME NEW t \in Task, Operator(t), NoneDeclared
        PROVE  \A u \in Task : task'[u] = "completed" => task[u] = "completed"
    BY <1>1 DEF Operator, TypeOK, NoneDeclared
  <1>2. Outside /\ NoneDeclared =>
          \A t \in Task : task'[t] = "completed" => task[t] = "completed"
    BY <1>1
    DEF Outside, Reclaim, Dispatch, RetryDeadLetter, dVars, rows
  <1>3. Outside => /\ UNCHANGED <<of, main>>
                   /\ \A j \in Job : exec'[j] = "succeeded" => exec[j] = "succeeded"
    BY OutsideFacts
  <1>4. ASSUME NEW j \in Job, Ends(j) \/ Claim(j)
        PROVE  UNCHANGED <<of, main, exec, task>>
    BY <1>4, EndsFacts, ClaimFacts
  <1>5. QED
    BY <1>2, <1>3, <1>4

\* What holds of the files of a run is kept.
LEMMA KeepsHolds ==
  ASSUME TypeOK, OneRun, Locals, RowOfRun,
         Worktree, BaseIsSound, Holds(main), [DNext]_dVars
  PROVE  Holds(main)'
  <1> USE PhasesAre
  <1>0. of \in [Job -> Task] /\ task \in [Task -> TaskState]
    BY DEF TypeOK
  <1>1. ASSUME UNCHANGED <<of, main>>,
               \A j \in Job : exec'[j] = "succeeded" => exec[j] = "succeeded"
                                                       \/ Delivered(of[j], main),
               NoneDeclared => \A t \in Task :
                  task'[t] = "completed" => task[t] = "completed"
                                              \/ Delivered(t, main)
        PROVE  Holds(main)'
    BY <1>0, <1>1, HoldsStill DEF Holds, Delivered
  <1>2. ASSUME NEW j \in Job, Inside(j) PROVE Holds(main)'
    <2>0. UNCHANGED of /\ runner[j] = Proc
          /\ \A i \in Job : i # j => exec'[i] = exec[i]
      BY <1>2, InsideFacts
    <2>1. CASE Succeed(j)
      <3>1. Delivered(of[j], main)
        BY <2>0, <2>1 DEF Succeed, Handling, Worktree, Locals
      <3>2. UNCHANGED <<task, main>>
        BY <2>1 DEF Succeed, repository
      <3>3. QED
        BY <1>1, <2>0, <3>1, <3>2
    <2>2. CASE Walk(j)
      <3>1. exec[j] = "succeeded" /\ UNCHANGED <<exec, main>>
        BY <2>0, <2>2 DEF Walk, Handling, RowOfRun, repository
      <3>2. Delivered(of[j], main)
        BY <3>1 DEF Holds
      <3>3. \A t \in Task : t # of[j] => task'[t] = task[t]
        BY <1>0, <2>2 DEF Walk
      <3>4. QED
        BY <1>1, <2>0, <3>1, <3>2, <3>3
    <2>3. CASE ~Succeed(j) /\ ~Walk(j)
      <3>1. /\ UNCHANGED task
            /\ \A i \in Job : exec'[i] = "succeeded" => exec[i] = "succeeded"
        BY <1>2, <2>3, InsideHistory
      <3>2. CASE Merge(j)
        <4>1. main' = run.tip /\ OneCommitOn(main, j, run.tip)
          BY <2>0, <3>2 DEF Merge, Handling, Worktree
        <4>2. PICK ok \in BOOLEAN : main' = Append(main, [job |-> j, ok |-> ok])
          BY <4>1 DEF OneCommitOn
        <4>3. [job |-> j, ok |-> ok] \in Commit /\ main \in Seq(Commit)
          BY DEF Commit, TypeOK
        <4>4. \A t : Delivered(t, main) => Delivered(t, main')
          BY <4>2, <4>3, OneMoreCommit
        <4>5. QED
          BY <1>0, <2>0, <3>1, <4>4, HoldsStill, ZenonT(40) DEF Holds, Delivered
      <3>3. CASE Revert(j)
        <4>1. main' = run.base /\ Holds(run.base)
          BY <3>3 DEF Revert, Handling, BaseIsSound
        <4>2. QED
          BY <1>0, <2>0, <3>1, <4>1, HoldsStill DEF Holds, Delivered
      <3>4. CASE UNCHANGED main
        BY <1>1, <2>0, <3>1, <3>4
      <3>5. QED
        BY <1>2, <3>2, <3>3, <3>4, InsideHistory
    <2>4. QED
      BY <2>1, <2>2, <2>3
  <1>3. QED
    BY <1>1, <1>2, OperatorCompletesNone, ShapesOfSteps

\* The base of a run stays on main.
LEMMA KeepsBaseIsSound ==
  ASSUME TypeOK, OneRun, Worktree,
         MainFailingExplained, Holds(main), CommitsOwned, BaseIsSound,
         [DNext]_dVars
  PROVE  BaseIsSound'
  <1> USE PhasesAre
  <1>0. of \in [Job -> Task]
    BY DEF TypeOK
  \* What is said of the base stays true while nothing more is reported.
  <1>1. ASSUME UNCHANGED of, run'.base = run.base, pc \in Phases.answerable,
               \A j \in Job : runner'[j] = Proc => runner[j] = Proc,
               \A j \in Job : exec'[j] = "succeeded" => exec[j] = "succeeded",
               NoneDeclared =>
                  \A t \in Task : task'[t] = "completed" => task[t] = "completed"
        PROVE  BaseIsSound'
    <2>1. Failing(run.base)' => \E j \in Job : "answerable" \in cut'[j]
      BY <1>1, CutGrows DEF BaseIsSound, Failing
    <2>2. Holds(run.base)'
      BY <1>0, <1>1, HoldsStill DEF BaseIsSound, Holds, Delivered
    <2>3. \A j \in Job : runner'[j] = Proc /\ CommitIn(j, run.base)'
                         => CutAfterMerge(j)'
      BY <1>1, CutGrows DEF BaseIsSound, CommitIn, CutAfterMerge
    <2>4. QED
      BY <2>1, <2>2, <2>3 DEF BaseIsSound
  <1>2. ASSUME NEW j \in Job, Inside(j) PROVE BaseIsSound'
    <2>0. UNCHANGED <<of, runner, state>> /\ runner[j] = Proc
          /\ state[j] = "running"
          /\ \A i \in Job : runner[i] = Proc => i = j
      BY <1>2, InsideFacts
    <2>1. CASE Merge(j)
      <3>1. /\ pc = "merging" /\ UNCHANGED <<run, exec, task, cut>>
            /\ run.base = main
        BY <2>1 DEF Merge, Handling, Worktree, rows, history
      <3>2. Failing(run.base)' => \E i \in Job : "answerable" \in cut'[i]
        BY <2>0, <3>1 DEF MainFailingExplained, Failing
      <3>3. Holds(run.base)'
        BY <1>0, <2>0, <3>1, HoldsStill DEF Holds, Delivered
      \* No commit of a run's own is on main before its merge.
      <3>4. CommitIn(j, main) => CutAfterMerge(j)
        BY <2>0, <3>1 DEF CommitsOwned
      <3>5. \A i \in Job : runner'[i] = Proc /\ CommitIn(i, run.base)'
                           => CutAfterMerge(i)'
        BY <2>0, <3>1, <3>4 DEF CommitIn, CutAfterMerge
      <3>6. QED
        BY <3>2, <3>3, <3>5 DEF BaseIsSound
    <2>2. CASE VerifyMerged(j) \/ RemoveWorktree(j)
      <3>1. /\ pc \in Phases.answerable /\ UNCHANGED <<exec, task>>
            /\ run'.base = run.base
        BY <2>2
        DEF VerifyMerged, TestMain, RemoveWorktree, Handling, rows, TypeOK
      <3>2. QED
        BY <1>1, <2>0, <3>1
    <2>3. CASE ~(Merge(j) \/ VerifyMerged(j) \/ RemoveWorktree(j))
      <3>1. pc' \notin Phases.answerable
        BY <1>2, <2>3
        DEF Inside, Begin, Seed, Governance, RefuseEngine, CreateWorktree,
            Generate, TestsFail, Repair, GatePasses, GateBlocks, Commits,
            Converges, VerifyConverged, TestMain, Revert, RevertMissed, Recheck,
            Cleanup, Report, Succeed, Walk, Record, Handling
      <3>2. QED
        BY <3>1 DEF BaseIsSound
    <2>4. QED
      BY <2>1, <2>2, <2>3
  <1>3. ASSUME NEW j \in Job, Ends(j) \/ Claim(j) PROVE BaseIsSound'
    BY <1>3, EndsFacts, ClaimFacts DEF BaseIsSound
  <1>4. CASE Outside
    <2>1. UNCHANGED <<of, runner, pc, run>>
      BY <1>4, OutsideFacts
    <2>2. CASE pc \in Phases.answerable
      BY <1>1, <1>4, <2>1, <2>2, OperatorCompletesNone
    <2>3. CASE pc \notin Phases.answerable
      BY <2>1, <2>3 DEF BaseIsSound
    <2>4. QED
      BY <2>2, <2>3
  <1>5. QED
    BY <1>2, <1>3, <1>4, ShapesOfSteps

\* Whose commits are on main: another delivery's stay what they were, and the
\* commit of the one that runs is answered for, reverted or in the history.
LEMMA KeepsCommitsOwned ==
  ASSUME TypeOK, OneRun, Locals, RowOfRun, Worktree, BaseIsSound, CommitsOwned,
         [DNext]_dVars
  PROVE  CommitsOwned'
  <1> USE PhasesAre
  <1>0. ASSUME NEW i \in Job PROVE CutAfterMerge(i) => CutAfterMerge(i)'
    BY CutGrows DEF CutAfterMerge
  <1>1. ASSUME NEW j \in Job, Inside(j) PROVE CommitsOwned'
    <2>0. /\ UNCHANGED <<state, runner, of>> /\ runner[j] = Proc
          /\ state[j] = "running"
          /\ \A i \in Job : i # j => exec'[i] = exec[i] /\ runner[i] # Proc
      BY <1>1, InsideFacts
    \* It suffices to look at the delivery that runs, and at what is new.
    <2>1. ASSUME \A i \in Job : i # j /\ CommitIn(i, main)' => CommitIn(i, main),
                 CommitIn(j, main)' =>
                    \/ CutAfterMerge(j)'
                    \/ pc' \in Phases.answerable
                    \/ pc' \in {"cleanup", "reporting", "receipted"} /\ run'.ok
                    \/ pc' \in Phases.reported /\ exec'[j] = "succeeded"
          PROVE  CommitsOwned'
      <3>1. ASSUME NEW i \in Job, i # j, CommitIn(i, main)'
            PROVE  \/ CutAfterMerge(i)'
                   \/ state'[i] = "succeeded" /\ exec'[i] = "succeeded"
        BY <1>0, <2>0, <2>1, <3>1 DEF CommitsOwned
      <3>2. ASSUME NEW i \in Job, i = j
            PROVE  CommitIn(i, main)' => CommitIn(j, main)'
        BY <3>2 DEF CommitIn
      <3>3. ASSUME NEW i \in Job, i = j
            PROVE  CutAfterMerge(j)' => CutAfterMerge(i)'
        BY <3>3 DEF CutAfterMerge
      <3>4. ASSUME NEW i \in Job, i = j, CommitIn(i, main)'
            PROVE  \/ CutAfterMerge(i)'
                   \/ /\ runner'[i] = Proc
                      /\ \/ pc' \in Phases.answerable
                         \/ pc' \in {"cleanup", "reporting", "receipted"} /\ run'.ok
                         \/ pc' \in Phases.reported /\ exec'[i] = "succeeded"
        BY <2>0, <2>1, <3>2, <3>3, <3>4
      <3>5. QED
        BY <3>1, <3>4 DEF CommitsOwned
    <2>2. CommitIn(j, main) =>
             \/ CutAfterMerge(j)
             \/ pc \in Phases.answerable
             \/ pc \in {"cleanup", "reporting", "receipted"} /\ run.ok
             \/ pc \in Phases.reported /\ exec[j] = "succeeded"
      BY <2>0 DEF CommitsOwned
    <2>3. UNCHANGED main => \A i \in Job : CommitIn(i, main)' <=> CommitIn(i, main)
      BY DEF CommitIn
    <2>4. CASE Merge(j)
      <3>1. main' = run.tip /\ OneCommitOn(main, j, run.tip) /\ pc' = "verifying"
        BY <2>0, <2>4 DEF Merge, Handling, Worktree
      <3>2. PICK ok \in BOOLEAN : main' = Append(main, [job |-> j, ok |-> ok])
        BY <3>1 DEF OneCommitOn
      <3>3. [job |-> j, ok |-> ok] \in Commit /\ main \in Seq(Commit)
        BY DEF Commit, TypeOK
      <3>4. \A i : CommitIn(i, main') => CommitIn(i, main) \/ i = j
        BY <3>2, <3>3, OneMoreCommit
      <3>5. \A i \in Job : CommitIn(i, main)' => CommitIn(i, main')
        BY DEF CommitIn
      <3>6. QED
        BY <2>1, <3>1, <3>4, <3>5
    <2>5. CASE Revert(j)
      <3>1. pc = "reverting" /\ main' = run.base /\ OneCommitOn(run.base, j, main)
        BY <2>0, <2>5 DEF Revert, Handling, Worktree
      <3>2. PICK ok \in BOOLEAN : main = Append(run.base, [job |-> j, ok |-> ok])
        BY <3>1 DEF OneCommitOn
      <3>3. [job |-> j, ok |-> ok] \in Commit /\ run.base \in Seq(Commit)
        BY DEF Commit, TypeOK
      <3>4. \A i : CommitIn(i, run.base) => CommitIn(i, main)
        BY <3>2, <3>3, OneMoreCommit
      <3>5. \A i \in Job : CommitIn(i, main)' => CommitIn(i, run.base)
        BY <3>1 DEF CommitIn
      <3>6. CommitIn(j, run.base) => CutAfterMerge(j)
        BY <2>0, <3>1 DEF BaseIsSound
      <3>7. QED
        BY <1>0, <2>1, <3>4, <3>5, <3>6
    <2>6. CASE RevertMissed(j)
      <3>1. "answerable" \in cut'[j] /\ UNCHANGED main
        BY <2>6, CutFacts DEF RevertMissed, Handling, repository
      <3>2. CutAfterMerge(j)'
        BY <3>1 DEF CutAfterMerge
      <3>3. QED
        BY <2>1, <2>3, <3>1, <3>2
    <2>7. CASE VerifyMerged(j) \/ RemoveWorktree(j)
      <3>1. UNCHANGED main
        BY <2>7 DEF VerifyMerged, TestMain, RemoveWorktree, repository
      <3>2. \/ pc' \in Phases.answerable
            \/ pc = "removing" /\ pc' = "cleanup" /\ UNCHANGED run /\ ~run.red
        BY <2>7 DEF VerifyMerged, TestMain, RemoveWorktree, Handling
      <3>3. \/ pc' \in Phases.answerable
            \/ pc' = "cleanup" /\ run'.ok
        BY <3>2 DEF Locals
      <3>4. QED
        BY <2>1, <2>3, <3>1, <3>3
    <2>8. CASE Cleanup(j) \/ Report(j) \/ Succeed(j) \/ Walk(j) \/ Record(j)
      <3>1. UNCHANGED <<main, run>>
        BY <2>8 DEF Cleanup, Report, Succeed, Walk, Record, repository
      <3>2. /\ pc \in {"cleanup", "reporting", "receipted"} /\ run.ok =>
                  \/ pc' \in {"reporting", "receipted"}
                  \/ pc' = "walking" /\ exec'[j] = "succeeded"
            /\ pc \in Phases.reported /\ exec[j] = "succeeded" =>
                  pc' \in Phases.reported /\ exec'[j] = "succeeded"
            /\ pc \notin Phases.answerable
        BY <2>8 DEF Cleanup, Report, Succeed, Walk, Record, Handling, rows, TypeOK
      <3>3. QED
        BY <1>0, <2>1, <2>2, <2>3, <3>1, <3>2
    <2>9. CASE \/ Begin(j) \/ Seed(j) \/ Governance(j) \/ RefuseEngine(j)
               \/ CreateWorktree(j) \/ Generate(j) \/ TestsFail(j) \/ Repair(j)
               \/ GatePasses(j) \/ GateBlocks(j) \/ Commits(j) \/ Converges(j)
               \/ VerifyConverged(j) \/ Recheck(j)
      <3>1. /\ UNCHANGED main
            /\ pc \notin Phases.answerable \cup Phases.reported
                         \cup {"cleanup", "reporting", "receipted"}
        BY <2>9
        DEF Begin, Seed, Governance, RefuseEngine, CreateWorktree, Generate,
            TestsFail, Repair, GatePasses, GateBlocks, Commits, Converges,
            VerifyConverged, TestMain, Recheck, Handling, repository
      <3>2. QED
        BY <1>0, <2>1, <2>2, <2>3, <3>1
    <2>10. QED
      BY <1>1, <2>4, <2>5, <2>6, <2>7, <2>8, <2>9 DEF Inside
  <1>2. ASSUME NEW j \in Job, Ends(j) PROVE CommitsOwned'
    <2>0. /\ UNCHANGED <<exec, main>> /\ runner[j] = Proc /\ state[j] = "running"
          /\ \A i \in Job : i # j => state'[i] = state[i] /\ runner[i] # Proc
      BY <1>2, EndsFacts
    <2>1. \A i \in Job : CommitIn(i, main)' <=> CommitIn(i, main)
      BY <2>0 DEF CommitIn
    <2>2. CommitIn(j, main) =>
             \/ CutAfterMerge(j)'
             \/ state'[j] = "succeeded" /\ exec'[j] = "succeeded"
      <3>1. CASE Die(j) \/ Fault(j)
        <4>1. pc \in Phases.answerable \cup Phases.closing \cup Phases.reported
              => CutAfterMerge(j)'
          BY <3>1, CutFacts DEF CutAfterMerge
        <4>2. QED
          BY <1>0, <2>0, <4>1 DEF CommitsOwned
      <3>2. CASE Return(j)
        <4>1. pc = "returning" /\ state'[j] = "succeeded"
          BY <3>2 DEF Return, Finish, Handling, TypeOK, LCTypeOK
        <4>2. QED
          BY <1>0, <2>0, <4>1 DEF CommitsOwned
      <3>3. CASE GiveUp(j)
        BY <1>0, <2>0, <3>3 DEF GiveUp, Handling, CommitsOwned
      <3>4. QED
        BY <1>2, <3>1, <3>2, <3>3 DEF Ends
    <2>3. QED
      BY <1>0, <2>0, <2>1, <2>2 DEF CommitsOwned
  <1>3. ASSUME NEW j \in Job, Claim(j) PROVE CommitsOwned'
    <2>1. /\ UNCHANGED <<exec, main>> /\ state[j] = "pending"
          /\ \A i \in Job : i # j => state'[i] = state[i]
          /\ \A i \in Job : runner[i] # Proc
      BY <1>3, ClaimFacts
    <2>2. \A i \in Job : CommitIn(i, main)' <=> CommitIn(i, main)
      BY <2>1 DEF CommitIn
    <2>3. QED
      BY <1>0, <2>1, <2>2 DEF CommitsOwned
  <1>4. CASE Outside
    <2>1. UNCHANGED <<runner, main, pc, run>>
      BY <1>4, OutsideFacts
    <2>2. \A i \in Job : CommitIn(i, main)' <=> CommitIn(i, main)
      BY <2>1 DEF CommitIn
    <2>3. ASSUME NEW i \in Job
          PROVE  \/ exec'[i] = exec[i] /\ state'[i] = state[i]
                 \/ state[i] # "succeeded" /\ runner[i] # Proc
      BY <1>4, OutsideFacts DEF OneRun
    <2>4. QED
      BY <1>0, <2>1, <2>2, <2>3 DEF CommitsOwned
  <1>5. QED
    BY <1>1, <1>2, <1>3, <1>4, ShapesOfSteps

\* A worktree is taken away by the run that made it, or its run was cut short.
LEMMA KeepsWorktreesOwned ==
  ASSUME TypeOK, OneRun, WorktreesOwned, [DNext]_dVars PROVE WorktreesOwned'
  <1> DEFINE Using == Phases.working \cup Phases.answerable
                      \cup {"confirming", "rechecking", "cleanup"}
  <1> USE PhasesAre
  <1>0. UNCHANGED of => \A t \in Task : LeftBehind(t) => LeftBehind(t)'
    BY CutGrows DEF LeftBehind
  <1>1. dirs \subseteq Task
    BY DEF TypeOK
  <1>2. ASSUME NEW j \in Job, Inside(j) PROVE WorktreesOwned'
    <2>0. /\ UNCHANGED <<of, runner>> /\ runner[j] = Proc
          /\ \A i \in Job : runner[i] = Proc => i = j
      BY <1>2, InsideFacts
    <2>1. CASE CreateWorktree(j)
      <3>1. /\ pc = "starting"
            /\ \/ UNCHANGED dirs
               \/ dirs' = dirs \cup {of[j]} /\ pc' = "generating"
        BY <2>1 DEF CreateWorktree, Handling
      <3>2. QED
        BY <1>0, <1>1, <2>0, <3>1 DEF WorktreesOwned
    <2>2. CASE Converges(j) \/ RemoveWorktree(j) \/ Cleanup(j)
      <3>1. dirs' = dirs \ {of[j]}
        BY <2>2 DEF Converges, RemoveWorktree, Cleanup, Dismantle
      <3>2. QED
        BY <1>0, <1>1, <2>0, <3>1 DEF WorktreesOwned
    <2>3. CASE ~(CreateWorktree(j) \/ Converges(j) \/ RemoveWorktree(j)
                 \/ Cleanup(j))
      <3>1. UNCHANGED dirs
        BY <1>2, <2>3
        DEF Inside, Begin, Seed, Governance, RefuseEngine, Generate, TestsFail,
            Repair, GatePasses, GateBlocks, Commits, Merge, VerifyConverged,
            VerifyMerged, TestMain, Revert, RevertMissed, Recheck, Report,
            Succeed, Walk, Record, repository
      <3>2. pc \in Using => pc' \in Using
        BY <1>2, <2>3
        DEF Inside, Begin, Seed, Governance, RefuseEngine, Generate, TestsFail,
            Repair, GatePasses, GateBlocks, Commits, Merge, VerifyConverged,
            VerifyMerged, TestMain, Revert, RevertMissed, Recheck, Report,
            Succeed, Walk, Record, Handling
      <3>3. QED
        BY <1>0, <1>1, <2>0, <3>1, <3>2 DEF WorktreesOwned
    <2>4. QED
      BY <2>1, <2>2, <2>3
  <1>3. ASSUME NEW j \in Job, Ends(j) PROVE WorktreesOwned'
    <2>0. /\ UNCHANGED <<of, dirs>> /\ \A i \in Job : runner[i] = Proc => i = j
      BY <1>3, EndsFacts
    <2>1. pc \in Using => LeftBehind(of[j])'
      <3>1. CASE Die(j)
        BY <2>0, <3>1, CutFacts DEF LeftBehind
      <3>2. CASE Return(j) \/ GiveUp(j) \/ Fault(j)
        BY <3>2 DEF Return, GiveUp, Fault, Handling
      <3>3. QED
        BY <1>3, <3>1, <3>2 DEF Ends
    <2>2. ASSUME NEW t \in dirs, ~LeftBehind(t) PROVE t = of[j] /\ pc \in Using
      BY <2>0, <2>2 DEF WorktreesOwned
    <2>3. ASSUME NEW t \in dirs, ~LeftBehind(t) PROVE LeftBehind(t)'
      BY <2>0, <2>1, <2>2, <2>3 DEF LeftBehind
    <2>4. QED
      BY <1>0, <1>1, <2>0, <2>3 DEF WorktreesOwned
  <1>4. ASSUME NEW j \in Job, Claim(j) PROVE WorktreesOwned'
    <2>1. UNCHANGED <<of, dirs>> /\ pc = "idle"
      BY <1>4, ClaimFacts
    <2>2. QED
      BY <1>0, <1>1, <2>1 DEF WorktreesOwned
  <1>5. CASE Outside
    <2>1. UNCHANGED <<of, dirs, pc, runner>>
      BY <1>5, OutsideFacts
    <2>2. QED
      BY <1>0, <1>1, <2>1 DEF WorktreesOwned
  <1>6. QED
    BY <1>2, <1>3, <1>4, <1>5, ShapesOfSteps

-----------------------------------------------------------------------------
(* The invariant holds.                                                    *)

\* Nothing has run and nothing is on main.
LEMMA PipelineInit == DInit => PipelineInv
  <1> SUFFICES ASSUME DInit PROVE PipelineInv
    OBVIOUS
  <1> USE DEF DInit, LCInit
  <1>1. OneRun
    BY DeliveryAssumption DEF OneRun
  <1>2. \A j \in Job : runner[j] # Proc
    BY DeliveryAssumption
  <1>3. ~Failing(main) /\ \A j \in Job : ~CommitIn(j, main)
    BY DEF Failing, CommitIn
  <1>4. Holds(main)
    BY DEF Holds
  <1>5. Locals /\ MainFailingExplained
    BY <1>3 DEF Locals, Blank, MainFailingExplained
  <1>6. RowOfRun /\ CommitsOwned /\ SuccessOwned /\ WorktreesOwned
    BY <1>2, <1>3 DEF RowOfRun, CommitsOwned, SuccessOwned, WorktreesOwned
  <1>7. Worktree /\ BaseIsSound
    BY <1>2, PhasesAre DEF Worktree, BaseIsSound
  <1>8. QED
    BY <1>1, <1>4, <1>5, <1>6, <1>7 DEF PipelineInv

\* Every step keeps it.
LEMMA PipelineStep ==
  TypeOK /\ PipelineInv /\ [DNext]_dVars => TypeOK' /\ PipelineInv'
  BY DStepType, KeepsOneRun, KeepsLocals, KeepsRowOfRun, KeepsWorktree,
     KeepsMainExplained, KeepsHolds, KeepsBaseIsSound, KeepsCommitsOwned,
     KeepsSuccessOwned, KeepsWorktreesOwned
  DEF PipelineInv

\* Of every delivery that runs, the state agrees with what its pipeline has
\* done so far (executeDelivery() and runDeliveryPipeline(), statement by
\* statement).
THEOREM PipelineInvariant == DSpec => [](TypeOK /\ PipelineInv)
  <1>1. DInit => TypeOK /\ PipelineInv
    BY DInitType, PipelineInit
  <1>2. QED
    BY <1>1, PipelineStep, PTL DEF DSpec

\* Rows, repository, local variables and history keep their types: no repair
\* is attempted beyond the budget, no task takes a status outside its state
\* machine.
THEOREM DeliveryTypes == DSpec => []TypeOK
  BY PipelineInvariant, PTL

-----------------------------------------------------------------------------
(* What main says.                                                         *)

\* What the invariant says of a run that failed.
LEMMA InvFailedLeavesNothing == PipelineInv => FailedLeavesNothing
  <1> SUFFICES ASSUME PipelineInv, NEW j \in Job, exec[j] = "failed", MadeCommit(j)
               PROVE  CutAfterMerge(j)
    BY DEF FailedLeavesNothing, CutAfterMerge
  <1>1. CommitIn(j, main)
    BY DEF MadeCommit, CommitIn
  <1>2. CASE runner[j] = Proc
    BY <1>1, <1>2, PhasesAre DEF PipelineInv, CommitsOwned, RowOfRun
  <1>3. CASE runner[j] # Proc
    BY <1>1, <1>3 DEF PipelineInv, CommitsOwned
  <1>4. QED
    BY <1>2, <1>3

\* What it says of worktrees.
LEMMA InvWorktreeRemoved == TypeOK /\ PipelineInv => WorktreeRemoved
  <1> SUFFICES ASSUME TypeOK, PipelineInv, NEW t \in dirs, ~LeftBehind(t)
               PROVE  \E j \in Job :
                         /\ of[j] = t
                         /\ runner[j] = Proc
                         /\ PhaseOf(pc) \cap {"working", "answerable", "closing"}
                              # {}
    BY DEF WorktreeRemoved, LeftBehind
  <1>1. PICK j \in Job : runner[j] = Proc /\ of[j] = t
    BY DEF PipelineInv, WorktreesOwned
  <1>2. pc \in Phases.working \cup Phases.answerable
               \cup {"confirming", "rechecking", "cleanup"}
    BY DEF PipelineInv, WorktreesOwned
  <1>3. pc \in Phases.working \cup Phases.answerable \cup Phases.closing
    BY <1>2, PhasesAre
  <1>4. PhaseOf(pc) \cap {"working", "answerable", "closing"} # {}
    BY <1>3, PhaseOfPlace
  <1>5. QED
    BY <1>1, <1>4

\* What it says of tasks that are done.
LEMMA InvDoneIsOnMain == NoneDeclared /\ PipelineInv => DoneIsOnMain
  BY DEF PipelineInv, Holds, DoneIsOnMain

\* Whatever operators declare: main is left failing only by a run that was cut
\* short, holds the code of every delivery that is reported as succeeded and
\* none of those reported as failed, and no worktree stands in the way.
THEOREM MainOfReports ==
  DSpec => []( /\ MainFailingExplained /\ FailedLeavesNothing /\ WorktreeRemoved
               /\ \A j \in Job : exec[j] = "succeeded" => Delivered(of[j], main) )
  <1>1. TypeOK /\ PipelineInv =>
           /\ MainFailingExplained /\ FailedLeavesNothing /\ WorktreeRemoved
           /\ \A j \in Job : exec[j] = "succeeded" => Delivered(of[j], main)
    BY InvFailedLeavesNothing, InvWorktreeRemoved DEF PipelineInv, Holds
  <1>2. QED
    BY <1>1, PipelineInvariant, PTL

\* And where operators complete no task themselves, what is on main is also
\* what the tasks say is done.
THEOREM MainIsTrue == ASSUME NoneDeclared PROVE DSpec => []MainTrue
  <1>1. TypeOK /\ PipelineInv => MainTrue
    BY InvFailedLeavesNothing, InvWorktreeRemoved, InvDoneIsOnMain
    DEF PipelineInv, MainTrue
  <1>2. QED
    BY <1>1, PipelineInvariant, PTL

-----------------------------------------------------------------------------
(* What was said last.                                                     *)

\* A step that takes a success back belongs to a run that had to be redelivered.
LEMMA StepSuccessStands ==
  ASSUME TypeOK, PipelineInv, [DNext]_dVars,
         NEW i \in Job, exec[i] = "succeeded", exec'[i] # "succeeded"
  PROVE  "reported" \in cut[i]
  <1>1. ASSUME NEW j \in Job, Inside(j) PROVE "reported" \in cut[i]
    <2>1. /\ runner[j] = Proc /\ state[j] = "running"
          /\ \A k \in Job : k # j => exec'[k] = exec[k]
      BY <1>1, InsideFacts DEF PipelineInv
    <2>2. i = j
      BY <2>1
    <2>3. pc \notin Phases.reported
      <3>1. ASSUME pc \in Phases.reported PROVE UNCHANGED exec
        BY <1>1, <3>1, PhasesAre
        DEF Inside, Begin, Seed, Governance, RefuseEngine, CreateWorktree,
            Generate, TestsFail, Repair, GatePasses, GateBlocks, Commits,
            Converges, Merge, VerifyConverged, VerifyMerged, RemoveWorktree,
            Revert, Recheck, Cleanup, Report, Succeed, Walk, Record,
            RevertMissed, Handling, rows
      <3>2. QED
        BY <3>1
    <2>4. QED
      BY <2>1, <2>2, <2>3 DEF PipelineInv, SuccessOwned
  <1>2. CASE Outside
    BY <1>2, OutsideFacts DEF PipelineInv
  <1>3. ASSUME NEW j \in Job, Ends(j) \/ Claim(j) PROVE UNCHANGED exec
    BY <1>3, EndsFacts, ClaimFacts DEF PipelineInv
  <1>4. QED
    BY <1>1, <1>2, <1>3, ShapesOfSteps

\* A status outside the chain is at no place of it, so the walk would begin
\* with "draft", which nothing may become.
LEMMA WalkStops ==
  ASSUME NEW j \in Job, task[of[j]] \in {"blocked", "failed", "cancelled"}
  PROVE  WalkTo(j) = {}
  <1>1. /\ \A k \in 1..12 : CHAIN[k] # task[of[j]]
        /\ Len(CHAIN) = 12
    BY DEF CHAIN
  <1>2. IndexInChain(task[of[j]]) = 0
    BY <1>1 DEF IndexInChain, SelectInSeq
  <1>3. \A s \in TaskState : "draft" \notin FLOW[s]
    BY DEF TaskState, FLOW
  <1>4. CHAIN[1] = "draft"
    BY DEF CHAIN
  <1>5. QED
    BY <1>2, <1>3, <1>4 DEF WalkTo, WalkFrom, CanTransition, TaskState, FLOW

\* While a delivery walks its task no operator's request is served.
LEMMA StepPulledBackStays ==
  ASSUME TypeOK, PipelineInv, [DNext]_dVars, NEW t \in Task,
         task[t] \in {"blocked", "failed", "cancelled"}, task'[t] # task[t]
  PROVE  pc # "walking"
  <1>1. ASSUME NEW j \in Job, Inside(j) PROVE FALSE
    <2>1. CASE Walk(j)
      <3>1. PICK s \in WalkTo(j) : task' = [task EXCEPT ![of[j]] = s]
        BY <2>1 DEF Walk
      <3>2. t = of[j]
        BY <3>1 DEF TypeOK
      <3>3. QED
        BY <3>1, <3>2, WalkStops
    <2>2. QED
      BY <1>1, <2>1, InsideHistory
  <1>2. ASSUME NEW j \in Job, Ends(j) \/ Claim(j) PROVE FALSE
    BY <1>2, EndsFacts, ClaimFacts DEF PipelineInv
  <1>3. CASE Outside
    BY <1>3
    DEF Outside, Operator, Awaits, Reclaim, Dispatch, RetryDeadLetter, dVars, rows
  <1>4. QED
    BY <1>1, <1>2, <1>3, ShapesOfSteps

\* What a delivery or an operator said last is not taken back by a redelivery
\* nor by the walk at the end of a pipeline.
THEOREM VerdictsStand == DSpec => VerdictStands
  <1>1. ASSUME TypeOK, PipelineInv, [DNext]_dVars
        PROVE  [\A j \in Job : exec[j] = "succeeded" /\ exec'[j] # "succeeded" =>
                  "reported" \in cut[j]]_dVars
    BY <1>1, StepSuccessStands
  <1>2. ASSUME TypeOK, PipelineInv, [DNext]_dVars
        PROVE  [\A t \in Task :
                  task[t] \in {"blocked", "failed", "cancelled"} /\ task'[t] # task[t]
                     => pc # "walking"]_dVars
    BY <1>2, StepPulledBackStays
  <1>3. DSpec => SuccessStands
    BY <1>1, PipelineInvariant, PTL DEF DSpec, SuccessStands
  <1>4. DSpec => PulledBackStays
    BY <1>2, PipelineInvariant, PTL DEF DSpec, PulledBackStays
  <1>5. QED
    BY <1>3, <1>4 DEF VerdictStands
=============================================================================

------------------------------ MODULE Delivery ------------------------------
(***************************************************************************)
(* Autonomous deliveries of one project: the deliver_task handler          *)
(* (apps/control-plane/src/delivery-worker.ts, delivery.ts), the pipeline  *)
(* of packages/delivery/src/pipeline.ts and the git worktrees it works in. *)
(* Jobs behave as JobLifecycle, which JobQueue implements, promises.       *)
(*                                                                         *)
(* The repository is on the process's own disk (data/repos), so there is   *)
(* one control plane; its job loop runs one delivery at a time.  Requests  *)
(* of operators come in where the handler awaits.  A process death can     *)
(* fall between any two writes, whether awaited or not, so every SQL or    *)
(* git command whose effect survives the process is a step of its own.     *)
(*                                                                         *)
(* Code is abstracted to what the pipeline tells apart: does it differ from *)
(* main, and do the tests pass once it is there.  What the gates before  *)
(* the merge find is a free choice.  Tasks deliver different modules.      *)
(***************************************************************************)
EXTENDS JobLifecycle, TaskFlow, Naturals, Sequences, SequencesExt

CONSTANTS Task,
          Proc,            \* the one control-plane process
          SpecOf,          \* what each task's description holds
          Demo,            \* deliveries dispatched with injectFault
          MaxRepairs,      \* maxRepairAttempts
          OperatorTargets, \* bound: statuses operators set tasks to
          MaxMishaps       \* bound: process deaths, database and disk errors

\* A DeliverySpec; one with more than four ops; one that wants an engine the
\* process has no key for; or not a DeliverySpec at all.
SpecKind == {"delivery", "service", "agentic", "invalid"}

ASSUME DeliveryAssumption ==
    /\ Worker = {Proc} /\ Proc # NoWorker
    /\ SpecOf \in [Task -> SpecKind]
    /\ Demo \subseteq Job /\ OperatorTargets \subseteq TaskState
    /\ MaxRepairs \in Nat /\ MaxMishaps \in Nat

VARIABLES
    of,       \* executions.task_id
    exec,     \* executions.status
    task,     \* tasks.status
    receipt,  \* tasks with a quality receipt
    \* the managed repository: the commits on main, agency/task-* branches,
    \* directories in .agency-worktrees
    repo, main, branches, dirs,
    \* the handler: where it is, and its local variables
    pc, run,
    \* history: in which phases runs of a delivery were cut short; spent bound
    cut, mishaps

rows == <<of, exec, task, receipt>>
repository == <<repo, main, branches, dirs>>
history == <<cut, mishaps>>
dVars == <<lcVars, rows, repository, pc, run, history>>

\* In the order of the code.  Where the handler awaits:
Awaits == {"governance", "starting", "generating", "testing", "repairing",
           "reviewing", "verifying", "confirming", "rechecking"}
PC == Awaits \cup
      {"idle", "entry", "seeding", "staging", "merging", "removing",
       "reverting", "cleanup", "reporting", "receipted", "walking",
       "recording", "refused", "returning"}

\* What a run that is cut short leaves behind depends on how far it was:
\* in its worktree; on main, not yet verified or not yet reverted; past
\* that, not yet reported; reported as succeeded, the job not yet settled.
Phases == [working |-> {"generating", "testing", "repairing", "reviewing",
                        "staging", "merging"},
           answerable |-> {"verifying", "removing", "reverting"},
           closing |-> {"confirming", "rechecking", "cleanup", "reporting",
                        "receipted"},
           reported |-> {"walking", "recording", "returning"}]
PhaseOf(p) == {f \in DOMAIN Phases : p \in Phases[f]}

\* A commit is named by the delivery that made it; ok: main's tests pass.
Commit == [job : Job, ok : BOOLEAN]

Blank == [seen |-> "ready", base |-> <<>>, tip |-> <<>>,
          attempt |-> 0, red |-> FALSE, ok |-> FALSE]

TypeOK ==
    /\ LCTypeOK
    /\ of \in [Job -> Task]
    /\ exec \in [Job -> {"absent", "queued", "running", "succeeded", "failed"}]
    /\ task \in [Task -> TaskState] /\ receipt \subseteq Task
    /\ repo \in {"absent", "unborn", "ready"} /\ main \in Seq(Commit)
    /\ branches \subseteq Task /\ dirs \subseteq Task
    /\ pc \in PC
    /\ run \in [seen : TaskState, base : Seq(Commit), tip : Seq(Commit),
                attempt : 0..MaxRepairs + 1, red : BOOLEAN, ok : BOOLEAN]
    /\ cut \in [Job -> SUBSET DOMAIN Phases] /\ mishaps \in Nat

DInit ==
    /\ LCInit
    /\ of \in [Job -> Task]
    /\ exec = [j \in Job |-> "absent"]
    /\ task = [t \in Task |-> "ready"] /\ receipt = {}
    /\ repo = "absent" /\ main = <<>> /\ branches = {} /\ dirs = {}
    /\ pc = "idle" /\ run = Blank
    /\ cut = [j \in Job |-> {}] /\ mishaps = 0

Handling(j, at) == runner[j] = Proc /\ pc = at

-----------------------------------------------------------------------------
(* Around the handler.                                                     *)

\* POST /delivery/runs.  What can come between its statements is modelled
\* in Execution, whose dispatch has the same shape.
Dispatch(j) ==
    /\ pc \in Awaits \cup {"idle"}
    /\ Submit(j)
    /\ exec' = [exec EXCEPT ![j] = "queued"]
    /\ UNCHANGED <<of, task, receipt, repository, pc, run, history>>

\* POST /tasks/:id/transition.  Bound: only tasks whose delivery has been
\* dispatched, before which a change would show no earlier than after it.
Operator(t) ==
    /\ pc \in Awaits \cup {"idle"}
    /\ \E j \in Job : of[j] = t /\ exec[j] # "absent"
    /\ \E s \in OperatorTargets :
          /\ CanTransition(task[t], s)
          /\ task' = [task EXCEPT ![t] = s]
    /\ UNCHANGED <<lcVars, of, exec, receipt, repository, pc, run, history>>

\* An operator requeues a dead letter.
RetryDeadLetter(j) ==
    /\ pc \in Awaits \cup {"idle"}
    /\ Requeue(j)
    /\ UNCHANGED <<rows, repository, pc, run, history>>

Claim(j) ==
    /\ Start(j, Proc)
    /\ pc' = "entry"
    /\ UNCHANGED <<rows, repository, run, history>>

\* reclaimStale(), between two jobs
Reclaim ==
    /\ pc = "idle"
    /\ Recover({j \in Job : state[j] = "running" /\ runner[j] = NoWorker})
    /\ UNCHANGED <<rows, repository, pc, run, history>>

\* The process dies, or is shut down: server.ts does not wait for the
\* handler.  Rows and repository keep what was written.
Die(j) ==
    /\ mishaps < MaxMishaps
    /\ Abandon(j)
    /\ cut' = [cut EXCEPT ![j] = @ \cup PhaseOf(pc)]
    /\ mishaps' = mishaps + 1
    /\ pc' = "idle" /\ run' = Blank
    /\ UNCHANGED <<rows, repository>>

\* A database error outside the pipeline's own try block: the job is retried
\* or, once its attempts are used up, dead-lettered.
Fault(j) ==
    /\ mishaps < MaxMishaps
    /\ pc \in {"governance", "reporting", "receipted", "recording"}
    /\ \E s \in {"pending", "dead_letter"} : Finish(j, s)
    /\ cut' = [cut EXCEPT ![j] = @ \cup PhaseOf(pc)]
    /\ mishaps' = mishaps + 1
    /\ pc' = "idle" /\ run' = Blank
    /\ UNCHANGED <<rows, repository>>

-----------------------------------------------------------------------------
(* executeDelivery(), up to the pipeline.                                  *)

\* The task is read, and the project's repository created on first use.
\* An invalid description throws: permanent, so the execution is failed
\* unless it has ended, and the job will be dead-lettered.
Begin(j) ==
    /\ Handling(j, "entry")
    /\ IF SpecOf[of[j]] = "invalid"
       THEN /\ exec' = [exec EXCEPT ![j] =
                          IF @ \in {"succeeded", "failed"} THEN @ ELSE "failed"]
            /\ pc' = "refused"
            /\ UNCHANGED <<run, repo>>
       ELSE /\ run' = [run EXCEPT !.seen = task[of[j]]]
            /\ repo' = IF repo = "absent" THEN "unborn" ELSE repo
            /\ pc' = IF repo = "absent" THEN "seeding" ELSE "governance"
            /\ UNCHANGED exec
    /\ UNCHANGED <<lcVars, of, task, receipt, main, branches, dirs, history>>

\* The first commit, without which no worktree can be made.
Seed(j) ==
    /\ Handling(j, "seeding")
    /\ repo' = "ready"
    /\ pc' = "governance"
    /\ UNCHANGED <<lcVars, rows, main, branches, dirs, run, history>>

\* evaluateGovernance() on the status read before the await, and a budget
\* that may be exceeded.  A blocked execution is failed, whatever it was.
Governance(j) ==
    /\ Handling(j, "governance")
    /\ \E budgetAllows \in BOOLEAN :
          IF SpecOf[of[j]] = "service"
          THEN exec' = [exec EXCEPT ![j] = "failed"] /\ pc' = "returning"
          ELSE IF run.seen # "ready" \/ ~budgetAllows
          THEN exec' = [exec EXCEPT ![j] = "failed"] /\ pc' = "refused"
          ELSE exec' = [exec EXCEPT ![j] = "running"] /\ pc' = "starting"
    /\ UNCHANGED <<lcVars, of, task, receipt, repository, run, history>>

\* selectEngine() throws for want of a key: permanent.
RefuseEngine(j) ==
    /\ Handling(j, "starting")
    /\ SpecOf[of[j]] = "agentic"
    /\ exec' = [exec EXCEPT ![j] = "failed"]
    /\ pc' = "refused"
    /\ UNCHANGED <<lcVars, of, task, receipt, repository, run, history>>

-----------------------------------------------------------------------------
(* runDeliveryPipeline().                                                  *)

\* Leftover directories show up in git status; git refuses a branch that
\* exists and a repository without a commit.
CanCreate(t) == repo = "ready" /\ dirs = {} /\ t \notin branches

CreateWorktree(j) ==
    /\ Handling(j, "starting")
    /\ SpecOf[of[j]] = "delivery"
    /\ IF CanCreate(of[j])
       THEN /\ branches' = branches \cup {of[j]} /\ dirs' = dirs \cup {of[j]}
            /\ run' = [run EXCEPT !.base = main, !.tip = main]
            /\ pc' = "generating"
       ELSE /\ pc' = "reporting"
            /\ UNCHANGED <<branches, dirs, run>>
    /\ UNCHANGED <<lcVars, rows, repo, main, history>>

\* What generation and repair produce shows when it is staged.
Generate(j) ==
    /\ Handling(j, "generating")
    /\ run' = [run EXCEPT !.attempt = 1]
    /\ pc' = "testing"
    /\ UNCHANGED <<lcVars, rows, repository, history>>

\* Mutant: one repair too many.
Bug_RepairBudget(n) == n <= MaxRepairs + 1
RepairBudget(n) == n <= MaxRepairs

\* A test run in the worktree, with a failure that can be repaired
TestsFail(j) ==
    /\ Handling(j, "testing")
    /\ RepairBudget(run.attempt)
    /\ pc' = "repairing"
    /\ UNCHANGED <<lcVars, rows, repository, run, history>>

Repair(j) ==
    /\ Handling(j, "repairing")
    /\ run' = [run EXCEPT !.attempt = @ + 1]
    /\ pc' = "testing"
    /\ UNCHANGED <<lcVars, rows, repository, history>>

\* The tests in the worktree pass; contract, benchmark and review do.
GatePasses(j) ==
    /\ \/ Handling(j, "testing") /\ pc' = "reviewing"
       \/ Handling(j, "reviewing") /\ pc' = "staging"
    /\ UNCHANGED <<lcVars, rows, repository, run, history>>

\* Static findings, no repair left or known, a gate says no, or the engine or
\* a git command up to the merge throws.
GateBlocks(j) ==
    /\ \E p \in {"generating", "testing", "repairing", "reviewing",
                 "staging", "merging"} : Handling(j, p)
    /\ pc' = "cleanup"
    /\ UNCHANGED <<lcVars, rows, repository, run, history>>

\* svc.remove(): directory and branch
Dismantle(j) ==
    /\ dirs' = dirs \ {of[j]}
    /\ branches' = branches \ {of[j]}

Delivered(t, h) == \E i \in DOMAIN h : of[h[i].job] = t

\* git add; there is a diff to main, which is committed ...
Commits(j) ==
    /\ Handling(j, "staging")
    /\ \E ok \in BOOLEAN :
          run' = [run EXCEPT !.tip = Append(@, [job |-> j, ok |-> ok])]
    /\ pc' = "merging"
    /\ UNCHANGED <<lcVars, rows, repository, history>>

\* ... or, where the task's module is there already, perhaps none.
Converges(j) ==
    /\ Handling(j, "staging")
    /\ Delivered(of[j], run.base)
    /\ Dismantle(j)
    /\ pc' = "confirming"
    /\ UNCHANGED <<lcVars, rows, repo, main, run, history>>

\* git merge --ff-only
Merge(j) ==
    /\ Handling(j, "merging")
    /\ IsPrefix(main, run.tip)
    /\ main' = run.tip
    /\ pc' = "verifying"
    /\ UNCHANGED <<lcVars, rows, repo, branches, dirs, run, history>>

\* The tests of a module fail on main when its last delivery makes them.
Failing(h) ==
    \E i \in DOMAIN h : /\ ~h[i].ok
                        /\ \A k \in DOMAIN h : k > i => of[h[k].job] # of[h[i].job]

\* runTests() on main; a run that times out counts as failed.
TestMain(j, next) ==
    \E failed \in BOOLEAN :
        /\ Failing(main) => failed
        /\ run' = [run EXCEPT !.red = failed, !.ok = ~failed]
        /\ pc' = next
        /\ UNCHANGED <<lcVars, rows, repository, history>>

VerifyConverged(j) == Handling(j, "confirming") /\ TestMain(j, "cleanup")
VerifyMerged(j) == Handling(j, "verifying") /\ TestMain(j, "removing")

\* Mutant: a failure on main is reported and left there.
Bug_NoRevert(j) ==
    /\ Handling(j, "removing")
    /\ Dismantle(j)
    /\ pc' = "cleanup"
    /\ UNCHANGED <<lcVars, rows, repo, main, run, history>>

RemoveWorktree(j) ==
    /\ Handling(j, "removing")
    /\ Dismantle(j)
    /\ pc' = IF run.red THEN "reverting" ELSE "cleanup"
    /\ UNCHANGED <<lcVars, rows, repo, main, run, history>>

\* Mutant: reset to the repository's first commit, not to the base.
Bug_ResetToSeed(j) ==
    /\ Handling(j, "reverting")
    /\ main' = <<>>
    /\ pc' = "rechecking"
    /\ UNCHANGED <<lcVars, rows, repo, branches, dirs, run, history>>

\* git reset --hard baseCommit
Revert(j) ==
    /\ Handling(j, "reverting")
    /\ main' = run.base
    /\ pc' = "rechecking"
    /\ UNCHANGED <<lcVars, rows, repo, branches, dirs, run, history>>

\* The worktree cannot be removed, which ends the pipeline before its revert,
\* or the reset fails, which is only recorded: main keeps the merge.
RevertMissed(j) ==
    /\ \E p \in {"removing", "reverting"} : Handling(j, p)
    /\ mishaps < MaxMishaps
    /\ cut' = [cut EXCEPT ![j] = @ \cup PhaseOf(pc)]
    /\ mishaps' = mishaps + 1
    /\ run' = [run EXCEPT !.ok = FALSE]
    /\ pc' = "cleanup"
    /\ UNCHANGED <<lcVars, rows, repository>>

\* runTests() once more; the result is only recorded.
Recheck(j) ==
    /\ Handling(j, "rechecking")
    /\ pc' = "cleanup"
    /\ UNCHANGED <<lcVars, rows, repository, run, history>>

\* Mutant: only a pipeline that went through removes its worktree.
Bug_CleanupOnSuccess(j) ==
    /\ Handling(j, "cleanup")
    /\ dirs' = IF run.ok THEN dirs \ {of[j]} ELSE dirs
    /\ pc' = "reporting"
    /\ UNCHANGED <<lcVars, rows, repo, main, branches, run, history>>

\* The finally block: the directory, but not the branch
Cleanup(j) ==
    /\ Handling(j, "cleanup")
    /\ dirs' = dirs \ {of[j]}
    /\ pc' = "reporting"
    /\ UNCHANGED <<lcVars, rows, repo, main, branches, run, history>>

-----------------------------------------------------------------------------
(* executeDelivery(), after the pipeline.                                  *)

\* Mutant: a delivery its gates block is not recorded as failed.
Bug_SilentBlock(j) ==
    /\ Handling(j, "reporting")
    /\ IF run.ok
       THEN receipt' = receipt \cup {of[j]} /\ pc' = "receipted"
       ELSE pc' = "returning" /\ UNCHANGED receipt
    /\ UNCHANGED <<lcVars, of, exec, task, repository, run, history>>

\* A receipt for a delivery that went through; otherwise the execution fails.
Report(j) ==
    /\ Handling(j, "reporting")
    /\ IF run.ok
       THEN /\ receipt' = receipt \cup {of[j]}
            /\ pc' = "receipted"
            /\ UNCHANGED exec
       ELSE /\ exec' = [exec EXCEPT ![j] = "failed"]
            /\ pc' = "returning"
            /\ UNCHANGED receipt
    /\ UNCHANGED <<lcVars, of, task, repository, run, history>>

Succeed(j) ==
    /\ Handling(j, "receipted")
    /\ exec' = [exec EXCEPT ![j] = "succeeded"]
    /\ pc' = "walking"
    /\ UNCHANGED <<lcVars, of, task, receipt, repository, run, history>>

CHAIN == <<"draft", "ready", "planned", "in_progress", "review", "qa", "security",
           "approval", "deploying", "deployed", "monitoring", "completed">>

\* indexOf(), counting from 1: 0 for a status outside the chain
IndexInChain(s) == SelectInSeq(CHAIN, LAMBDA c : c = s)

\* Mutant: a task outside the chain is taken up where deliveries begin.
Bug_WalkFrom(s) == IF IndexInChain(s) = 0 THEN 2 ELSE IndexInChain(s)
WalkFrom(s) == IndexInChain(s)

\* The next status on the way to the target, if the state machine allows it
WalkTo(j) ==
    LET s == task[of[j]]
        i == WalkFrom(s) + 1
        end == IndexInChain(IF j \in Demo THEN "review" ELSE "completed")
    IN  {c \in TaskState : i <= end /\ c = CHAIN[i] /\ CanTransition(s, c)}

Walk(j) ==
    /\ Handling(j, "walking")
    /\ IF WalkTo(j) = {}
       THEN pc' = "recording" /\ UNCHANGED task
       ELSE /\ \E s \in WalkTo(j) : task' = [task EXCEPT ![of[j]] = s]
            /\ UNCHANGED pc
    /\ UNCHANGED <<lcVars, of, exec, receipt, repository, run, history>>

\* Hand-over note, SBOM, audit record
Record(j) ==
    /\ Handling(j, "recording")
    /\ pc' = "returning"
    /\ UNCHANGED <<lcVars, rows, repository, run, history>>

\* processOne(): succeeded, also for a blocked delivery
Return(j) ==
    /\ Handling(j, "returning")
    /\ Finish(j, "succeeded")
    /\ pc' = "idle" /\ run' = Blank
    /\ UNCHANGED <<rows, repository, history>>

\* The handler's catch block on a permanent error
GiveUp(j) ==
    /\ Handling(j, "refused")
    /\ Finish(j, "dead_letter")
    /\ pc' = "idle" /\ run' = Blank
    /\ UNCHANGED <<rows, repository, history>>

-----------------------------------------------------------------------------
HandlerStep(j) ==
    \/ Begin(j) \/ Seed(j) \/ Governance(j) \/ RefuseEngine(j)
    \/ CreateWorktree(j) \/ Generate(j) \/ TestsFail(j) \/ Repair(j)
    \/ GatePasses(j) \/ GateBlocks(j) \/ Commits(j) \/ Converges(j) \/ Merge(j)
    \/ VerifyConverged(j) \/ VerifyMerged(j) \/ RemoveWorktree(j) \/ Revert(j)
    \/ Recheck(j) \/ Cleanup(j) \/ Report(j) \/ Succeed(j) \/ Walk(j)
    \/ Record(j) \/ Return(j) \/ GiveUp(j)

DNext ==
    \/ \E t \in Task : Operator(t)
    \/ Reclaim
    \/ \E j \in Job :
          \/ Dispatch(j) \/ RetryDeadLetter(j) \/ Claim(j)
          \/ HandlerStep(j) \/ RevertMissed(j) \/ Die(j) \/ Fault(j)

\* Every await of the handler ends: tests, benchmark and engines have their
\* timeouts.  The loop takes the job due longest and reclaims between two
\* jobs, so neither a job nor the reclaiming is passed over for ever.
DFairness ==
    /\ SF_dVars(Reclaim)
    /\ \A j \in Job : SF_dVars(Claim(j)) /\ WF_dVars(HandlerStep(j))

DSpec == DInit /\ [][DNext]_dVars
DFairSpec == DSpec /\ DFairness

-----------------------------------------------------------------------------
(* Properties.                                                             *)

\* Post-merge verification and automatic revert keep main from being left
\* failing: its tests fail only while a delivery is still answerable for its
\* merge, or because one was cut short there and nobody reverts it.
MainFailingExplained ==
    Failing(main) => \/ pc \in Phases.answerable
                     \/ \E j \in Job : "answerable" \in cut[j]

\* What is reported done is on main, and a later delivery's revert, the death
\* of a process or a second run of the same job never takes it away.
DoneIsOnMain ==
    /\ \A j \in Job : exec[j] = "succeeded" => Delivered(of[j], main)
    /\ \A t \in Task : task[t] = "completed" => Delivered(t, main)

MadeCommit(j) == \E i \in DOMAIN main : main[i].job = j

\* A delivery reported as failed left no commit of its own on main, unless
\* one of its runs was cut short after its merge.
FailedLeavesNothing ==
    \A j \in Job : exec[j] = "failed" /\ MadeCommit(j) =>
        cut[j] \cap {"answerable", "closing", "reported"} # {}

\* Every way out of the pipeline removes the worktree, which would make the
\* repository dirty for all deliveries to come; only a death leaves it there.
WorktreeRemoved ==
    \A t \in dirs :
        \E j \in Job :
            /\ of[j] = t
            /\ \/ /\ runner[j] = Proc
                  /\ PhaseOf(pc) \cap {"working", "answerable", "closing"} # {}
               \/ cut[j] \cap {"working", "answerable", "closing"} # {}

\* main says what was reported: it is not left failing, holds what is reported
\* done and nothing of what is reported failed, and no worktree stands in the
\* way of the next delivery, but for runs that a death cut short.
MainTrue ==
    MainFailingExplained /\ DoneIsOnMain /\ FailedLeavesNothing /\ WorktreeRemoved

\* A delivery that succeeded is reported as failed later only if a run was
\* cut short after it said so; its redelivery then finds the task done.
SuccessStands ==
    [][\A j \in Job : exec[j] = "succeeded" /\ exec'[j] # "succeeded" =>
          "reported" \in cut[j]]_dVars

\* A task an operator blocked, failed or cancelled while its pipeline ran is
\* not walked on by the delivery; only operators take it up again.
PulledBackStays ==
    [][\A t \in Task :
          task[t] \in {"blocked", "failed", "cancelled"} /\ task'[t] # task[t]
              => pc # "walking"]_dVars

\* What a delivery or an operator said last is not taken back by a redelivery,
\* nor by the walk at the end of a pipeline.
VerdictStands == SuccessStands /\ PulledBackStays

\* Every dispatched delivery is reported as succeeded or failed, or its job
\* is left to the operators as a dead letter.
DeliveryEnds ==
    \A j \in Job : exec[j] = "queued" ~>
        exec[j] \in {"succeeded", "failed"} \/ state[j] = "dead_letter"
=============================================================================

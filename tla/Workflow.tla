------------------------------ MODULE Workflow ------------------------------
(***************************************************************************)
(* The persisted workflow engine, packages/orchestration/src/workflow.ts:  *)
(* one run, driven by processes that call advance(), pauseForApproval()    *)
(* and resume().                                                           *)
(*                                                                         *)
(* advance() loads the row, awaits the stage handler (or the handlers of   *)
(* all unfinished branches of a fan-out) and then writes back the state it *)
(* loaded, so calls that overlap overwrite each other.  The engine takes   *)
(* no lock; "serial" runs are those whose driver makes one call at a time, *)
(* as the tests do.  A process may die at any point of a call.             *)
(*                                                                         *)
(* Stage i is named <<i, 0>> and its k-th branch <<i, k>>.  Of             *)
(* completedStages the model keeps how often each name occurs.             *)
(***************************************************************************)
EXTENDS Integers, FiniteSets

CONSTANTS NStages,      \* stages of the definition
          MaxWidth,     \* branches of the widest fan-out
          Definitions,  \* workflow definitions: width and lowRiskSkip per stage
          Caller,       \* processes that drive the run
          MaxFailures,  \* bound: handlers that throw
          MaxCrashes,   \* bound: process deaths
          MaxPauses     \* bound: calls of pauseForApproval

Index == 1..NStages
Name == Index \X (0..MaxWidth)

ASSUME WorkflowAssumption ==
    /\ NStages \in Nat \ {0} /\ MaxWidth \in Nat
    /\ MaxFailures \in Nat /\ MaxCrashes \in Nat /\ MaxPauses \in Nat
    /\ Definitions \subseteq [width : [Index -> 0..MaxWidth], skip : SUBSET Index]

VARIABLES
    \* what start() was given, and the handlers nobody registered
    defn, low, missing,
    serial,
    \* columns of workflow_runs; state_json is completed, outputs and asked
    status, stage, completed, outputs, asked,
    \* the call each process is in the middle of, and the state it loaded
    pc, at, mine, stored, knows, ended, failed,
    \* history: handlers that ran to the end, and spent budgets
    ran, failures, crashes, pauses

given == <<defn, low, missing, serial>>
row == <<status, stage, completed, outputs, asked>>
call == <<pc, at, mine, stored, knows, ended, failed>>
history == <<ran, failures, crashes, pauses>>
vars == <<given, row, call, history>>

Done == NStages + 1   \* the stage "__done__"
Stages(i) == <<i, 0>>
Branches(i) == {<<i, k>> : k \in 1..defn.width[i]}
FansOut(i) == defn.width[i] > 0

\* riskTier === "low" && lowRiskSkip
Skips(i) == low /\ i \in defn.skip

\* The handlers a stage can call.
Handlers(i) == IF FansOut(i) THEN Branches(i) ELSE {Stages(i)}

Statuses == {"running", "waiting_approval", "blocked", "failed", "succeeded"}
Pcs == {"idle", "loaded", "handler", "returned", "branches", "converge"}

GivenOK ==
    /\ defn \in Definitions /\ low \in BOOLEAN
    /\ missing \subseteq Name /\ serial \in BOOLEAN
RowOK ==
    /\ status \in Statuses /\ stage \in 1..Done
    /\ completed \in [Name -> Nat] /\ outputs \subseteq Name /\ asked \in BOOLEAN
CallOK ==
    /\ pc \in [Caller -> Pcs] /\ at \in [Caller -> 1..Done]
    /\ mine \in [Caller -> [Name -> Nat]] /\ stored \in [Caller -> SUBSET Name]
    /\ knows \in [Caller -> BOOLEAN]
    /\ ended \in [Caller -> SUBSET Name] /\ failed \in [Caller -> SUBSET Name]
HistoryOK ==
    /\ ran \in [Name -> Nat]
    /\ failures \in Nat /\ crashes \in Nat /\ pauses \in Nat
TypeOK == GivenOK /\ RowOK /\ CallOK /\ HistoryOK

None == [n \in Name |-> 0]

\* start(), called once.
Init ==
    /\ defn \in Definitions /\ low \in BOOLEAN
    /\ missing \in {{}} \cup {{n} : n \in UNION {Handlers(i) : i \in Index}}
    /\ serial \in BOOLEAN
    /\ status = "running" /\ stage = 1
    /\ completed = None /\ outputs = {} /\ asked = FALSE
    /\ pc = [c \in Caller |-> "idle"]
    /\ at = [c \in Caller |-> 1]
    /\ mine = [c \in Caller |-> None]
    /\ stored = [c \in Caller |-> {}]
    /\ knows = [c \in Caller |-> FALSE]
    /\ ended = [c \in Caller |-> {}]
    /\ failed = [c \in Caller |-> {}]
    /\ ran = None /\ failures = 0 /\ crashes = 0 /\ pauses = 0

-----------------------------------------------------------------------------
(* Persistence.                                                            *)

\* A driver may call the engine.
MayCall(c) == pc[c] = "idle" /\ (serial => \A d \in Caller : pc[d] = "idle")

Return(c) ==
    /\ pc' = [pc EXCEPT ![c] = "idle"]
    /\ at' = [at EXCEPT ![c] = 1]
    /\ mine' = [mine EXCEPT ![c] = None]
    /\ stored' = [stored EXCEPT ![c] = {}]
    /\ knows' = [knows EXCEPT ![c] = FALSE]
    /\ ended' = [ended EXCEPT ![c] = {}]
    /\ failed' = [failed EXCEPT ![c] = {}]

\* Mutant: the index of the next stage is counted from one.
Bug_PersistNext(c, done, out, next) ==
    completed' = done /\ outputs' = out /\ stage' = next + 1 /\ asked' = knows[c]
\* persistState(): the state as this call has it, whatever the row says now.
Persist(c, done, out, next) ==
    /\ completed' = done
    /\ outputs' = out
    /\ stage' = next
    /\ asked' = knows[c]

\* The stage is complete: checkpoint and move on, or finish the run.
Checkpoint(c, done, out) ==
    /\ Persist(c, done, out, at[c] + 1)
    /\ status' = IF at[c] = NStages THEN "succeeded" ELSE status
    /\ Return(c)

Push(done, names) == [n \in Name |-> done[n] + (IF n \in names THEN 1 ELSE 0)]

-----------------------------------------------------------------------------
(* advance().                                                              *)

\* Load the row; only running runs advance, and "__done__" is no stage.
AdvanceRead(c) ==
    /\ MayCall(c)
    /\ status = "running" /\ stage # Done
    /\ pc' = [pc EXCEPT ![c] = "loaded"]
    /\ at' = [at EXCEPT ![c] = stage]
    /\ mine' = [mine EXCEPT ![c] = completed]
    /\ stored' = [stored EXCEPT ![c] = outputs]
    /\ knows' = [knows EXCEPT ![c] = asked]
    /\ UNCHANGED <<given, row, ended, failed, history>>

\* One turn of the pruning loop: each skip is checkpointed by itself.
SkipStage(c) ==
    LET done == Push(mine[c], {Stages(at[c])}) IN
    /\ pc[c] = "loaded" /\ Skips(at[c])
    /\ IF at[c] = NStages
       THEN Checkpoint(c, done, stored[c])
       ELSE /\ Persist(c, done, stored[c], at[c] + 1)
            /\ at' = [at EXCEPT ![c] = @ + 1]
            /\ mine' = [mine EXCEPT ![c] = done]
            /\ UNCHANGED <<status, pc, stored, knows, ended, failed>>
    /\ UNCHANGED <<given, history>>

\* No handler: the run is blocked.
BlockRun(c) ==
    /\ pc[c] = "loaded" /\ ~Skips(at[c]) /\ ~FansOut(at[c])
    /\ Stages(at[c]) \in missing
    /\ status' = "blocked"
    /\ Return(c)
    /\ UNCHANGED <<given, stage, completed, outputs, asked, history>>

CallHandler(c) ==
    /\ pc[c] = "loaded" /\ ~Skips(at[c]) /\ ~FansOut(at[c])
    /\ Stages(at[c]) \notin missing
    /\ pc' = [pc EXCEPT ![c] = "handler"]
    /\ UNCHANGED <<given, row, at, mine, stored, knows, ended, failed, history>>

\* The handler has done its work; the engine has not yet recorded it.
HandlerEnds(c) ==
    /\ pc[c] = "handler"
    /\ pc' = [pc EXCEPT ![c] = "returned"]
    /\ ran' = [ran EXCEPT ![Stages(at[c])] = @ + 1]
    /\ UNCHANGED <<given, row, at, mine, stored, knows, ended, failed, failures,
                   crashes, pauses>>

HandlerThrows(c) ==
    /\ pc[c] = "handler" /\ failures < MaxFailures
    /\ status' = "failed"
    /\ failures' = failures + 1
    /\ Return(c)
    /\ UNCHANGED <<given, stage, completed, outputs, asked, ran, crashes, pauses>>

RecordStage(c) ==
    /\ pc[c] = "returned"
    /\ Checkpoint(c, Push(mine[c], {Stages(at[c])}), stored[c])
    /\ UNCHANGED <<given, history>>

-----------------------------------------------------------------------------
(* advanceFanOut().                                                        *)

\* Mutant: a branch that succeeded before is run again.
Bug_Pending(c) == Branches(at[c])
\* Branches not yet completed in the state this call loaded.
Pending(c) == {b \in Branches(at[c]) : mine[c][b] = 0}

StartBranches(c) ==
    /\ pc[c] = "loaded" /\ ~Skips(at[c]) /\ FansOut(at[c])
    /\ pc' = [pc EXCEPT ![c] = IF Pending(c) = {} THEN "converge" ELSE "branches"]
    /\ UNCHANGED <<given, row, at, mine, stored, knows, ended, failed, history>>

\* The branches run concurrently and settle in any order.
BranchEnds(c, b) ==
    /\ pc[c] = "branches" /\ b \in Pending(c) \ (ended[c] \cup failed[c])
    /\ b \notin missing
    /\ ended' = [ended EXCEPT ![c] = @ \cup {b}]
    /\ ran' = [ran EXCEPT ![b] = @ + 1]
    /\ UNCHANGED <<given, row, pc, at, mine, stored, knows, failed, failures, crashes,
                   pauses>>

BranchThrows(c, b) ==
    /\ pc[c] = "branches" /\ b \in Pending(c) \ (ended[c] \cup failed[c])
    /\ \/ b \in missing /\ UNCHANGED failures
       \/ failures < MaxFailures /\ failures' = failures + 1
    /\ failed' = [failed EXCEPT ![c] = @ \cup {b}]
    /\ UNCHANGED <<given, row, pc, at, mine, stored, knows, ended, ran, crashes, pauses>>

\* Mutant: the outputs of earlier rounds are not merged.
Bug_Merged(c) == (stored[c] \ Branches(at[c])) \cup ended[c]
Merged(c) == stored[c] \cup ended[c]

\* Mutant: the whole round is thrown away when one branch failed.
Bug_Settled(c) == IF failed[c] = {} THEN Push(mine[c], ended[c]) ELSE mine[c]
Settled(c) == Push(mine[c], ended[c])

\* Mutant: a round with failures converges.
Bug_SettleBranches(c) ==
    /\ pc[c] = "branches" /\ Pending(c) = ended[c] \cup failed[c]
    /\ Persist(c, Settled(c), Merged(c), at[c])
    /\ pc' = [pc EXCEPT ![c] = "converge"]
    /\ mine' = [mine EXCEPT ![c] = Settled(c)]
    /\ stored' = [stored EXCEPT ![c] = Merged(c)]
    /\ UNCHANGED <<given, status, at, knows, ended, failed, history>>
\* allSettled: the successes are checkpointed on the same stage; a failure is
\* thrown to the driver and the run stays running.
SettleBranches(c) ==
    /\ pc[c] = "branches" /\ Pending(c) = ended[c] \cup failed[c]
    /\ Persist(c, Settled(c), Merged(c), at[c])
    /\ IF failed[c] # {}
       THEN Return(c)
       ELSE /\ pc' = [pc EXCEPT ![c] = "converge"]
            /\ mine' = [mine EXCEPT ![c] = Settled(c)]
            /\ stored' = [stored EXCEPT ![c] = Merged(c)]
            /\ UNCHANGED <<at, knows, ended, failed>>
    /\ UNCHANGED <<given, status, history>>

\* Every branch is in: a second write completes the stage.
Converge(c) ==
    /\ pc[c] = "converge"
    /\ Checkpoint(c, Push(mine[c], {Stages(at[c])}), stored[c])
    /\ UNCHANGED <<given, history>>

-----------------------------------------------------------------------------
\* pauseForApproval(): whatever the run is doing, it now waits.
PauseForApproval(c) ==
    /\ MayCall(c) /\ pauses < MaxPauses
    /\ status' = "waiting_approval" /\ asked' = TRUE
    /\ pauses' = pauses + 1
    /\ UNCHANGED <<given, stage, completed, outputs, call, ran, failures, crashes>>

\* Mutant: only blocked runs can be resumed.
Bug_Resume(c) ==
    /\ MayCall(c) /\ status = "blocked"
    /\ status' = "running"
    /\ UNCHANGED <<given, stage, completed, outputs, asked, call, history>>
\* resume(): a failed run is refused.
Resume(c) ==
    /\ MayCall(c)
    /\ status \in {"waiting_approval", "blocked"}
    /\ status' = "running"
    /\ UNCHANGED <<given, stage, completed, outputs, asked, call, history>>

\* The process dies; the row is all that is left of the call.
Crash(c) ==
    /\ pc[c] # "idle" /\ crashes < MaxCrashes
    /\ crashes' = crashes + 1
    /\ Return(c)
    /\ UNCHANGED <<given, row, ran, failures, pauses>>

AdvanceStep(c) ==
    \/ SkipStage(c) \/ BlockRun(c) \/ CallHandler(c)
    \/ HandlerEnds(c) \/ HandlerThrows(c) \/ RecordStage(c)
    \/ StartBranches(c) \/ SettleBranches(c) \/ Converge(c)
    \/ \E b \in Name : BranchEnds(c, b) \/ BranchThrows(c, b)

Next ==
    \E c \in Caller :
        \/ AdvanceRead(c) \/ AdvanceStep(c)
        \/ PauseForApproval(c) \/ Resume(c) \/ Crash(c)

\* A driver that does not give up: it calls advance and resume again and
\* again, and handlers return.  The engine itself has no timer.
Fairness ==
    \A c \in Caller :
        /\ SF_vars(AdvanceRead(c)) /\ WF_vars(AdvanceStep(c)) /\ SF_vars(Resume(c))

Spec == Init /\ [][Next]_vars
FairSpec == Spec /\ Fairness

-----------------------------------------------------------------------------
(* Properties.                                                             *)

Work(i) == IF Skips(i) THEN {} ELSE Handlers(i)

\* The run never gets past a stage whose work was not done, and never does
\* the work of a stage its risk tier prunes: not even when overlapping calls
\* write back states that are out of date.
StagesDone ==
    /\ \A i \in Index : i < stage => \A n \in Work(i) : ran[n] > 0
    /\ \A n \in Name : ran[n] > 0 => n \in Work(n[1])

\* A branch counts as completed exactly when its output is checkpointed, so
\* a retry of the failed branches loses nothing of the others.
OutputsKept ==
    \A i \in Index : \A b \in Branches(i) : completed[b] > 0 <=> b \in outputs

\* The checkpoint is exact: the stages before the current one are recorded
\* once, with all their branches, and nothing later is recorded.
CheckpointExact ==
    serial => \A i \in Index :
        /\ completed[Stages(i)] = IF i < stage THEN 1 ELSE 0
        /\ \A b \in Branches(i) :
              /\ completed[b] <= 1
              /\ i < stage /\ ~Skips(i) => completed[b] = 1
              /\ i > stage \/ Skips(i) => completed[b] = 0

\* A handler that succeeded is repeated only because a process died before
\* the engine had recorded it, however often other branches are retried and
\* the run is blocked, paused and resumed.
RepeatedOnlyAfterDeath == serial => \A n \in Name : ran[n] <= 1 + crashes

\* The checkpoint never lags behind or runs ahead of the handlers: outputs are
\* kept with their branches whatever the callers do, and with one call at a time
\* every stage and branch is recorded once and repeated only after a death.
ProgressExact == OutputsKept /\ CheckpointExact /\ RepeatedOnlyAfterDeath

\* A request for approval survives every later checkpoint and resume.
ApprovalRemembered == [][serial /\ asked => asked']_vars

\* A run whose handlers are all there ends, unless its driver gives up.
RunEnds == serial /\ missing = {} => <>(status \in {"succeeded", "failed"})

\* Runs driven by one call at a time come to their end, and none forgets on the
\* way that it had asked for an approval.
RunsEnd == ApprovalRemembered /\ RunEnds

\* Why StagesDone holds whatever the calls overwrite: every state that can be
\* written back, in the row or in a call, only claims work that was done.
Did(i) == \A n \in Work(i) : ran[n] > 0
Honest(done) ==
    \A i \in Index : \A b \in Branches(i) : done[b] > 0 => ran[b] > 0
CallInv(c) ==
    /\ \A i \in Index : i < at[c] => Did(i)
    /\ pc[c] # "idle" => at[c] \in Index
    /\ pc[c] \in {"handler", "returned"} => Work(at[c]) = {Stages(at[c])}
    /\ pc[c] \in {"branches", "converge"} => Work(at[c]) = Branches(at[c])
    /\ pc[c] \in {"returned", "converge"} => Did(at[c])
    /\ Honest(mine[c])
    /\ \A b \in ended[c] : ran[b] > 0
WorkInv ==
    /\ StagesDone
    /\ Honest(completed)
    /\ \A c \in Caller : CallInv(c)
=============================================================================

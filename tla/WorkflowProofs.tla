--------------------------- MODULE WorkflowProofs ---------------------------
(***************************************************************************)
(* For every definition, any number of overlapping callers, failures and   *)
(* deaths: the workflow engine never gets past a stage whose work was not  *)
(* done.  The calls may overwrite each other's checkpoints, but whatever a *)
(* call writes back it either loaded from the row or earned itself, and    *)
(* neither ever claims work that was not done (WorkInv).                   *)
(***************************************************************************)
EXTENDS Workflow, TLAPS

\* A call that is under way is at a stage of the definition.
AtStage == \A c \in Caller : pc[c] # "idle" => at[c] \in Index

-----------------------------------------------------------------------------
(* Names and the helpers that build states.                                *)

\* Stages are numbered from one.
LEMMA IndexFacts ==
    /\ Index \subseteq 1..Done
    /\ \A i \in Index : i + 1 \in 1..Done /\ (i # NStages => i + 1 \in Index)
    /\ 1 \in 1..Done
    BY WorkflowAssumption DEF Index, Done

\* A branch has a name of its own.
LEMMA NameFacts ==
    ASSUME GivenOK
    PROVE  \A i \in Index : Stages(i) \in Name /\ Branches(i) \subseteq Name
<1>1. ASSUME NEW i \in Index PROVE Stages(i) \in Name
    BY WorkflowAssumption DEF Stages, Name
<1>2. ASSUME NEW i \in Index, NEW k \in 1..defn.width[i] PROVE <<i, k>> \in Name
    <2>1. defn.width[i] \in 0..MaxWidth
        BY WorkflowAssumption DEF GivenOK
    <2> QED
        BY <2>1, WorkflowAssumption DEF Name
<1> QED
    BY <1>1, <1>2 DEF Branches

\* Counting names up keeps a count.
LEMMA PushType ==
    ASSUME NEW done \in [Name -> Nat], NEW names
    PROVE  Push(done, names) \in [Name -> Nat]
    BY DEF Push

\* A call that ends leaves its fields typed, and no call at a wrong stage.
LEMMA ReturnTyped ==
    ASSUME CallOK, AtStage, NEW c \in Caller, Return(c)
    PROVE  CallOK' /\ AtStage'
<1>1. None \in [Name -> Nat]
    BY DEF None
<1>2. CallOK'
    BY <1>1, IndexFacts DEF CallOK, Return, Pcs
<1>3. AtStage'
    BY DEF AtStage, CallOK, Return
<1> QED
    BY <1>2, <1>3

\* So does one that completes its stage.
LEMMA CheckpointTyped ==
    ASSUME TypeOK, AtStage, NEW c \in Caller, pc[c] # "idle",
           NEW done \in [Name -> Nat], NEW out \in SUBSET Name,
           Checkpoint(c, done, out)
    PROVE  RowOK' /\ CallOK' /\ AtStage'
<1>1. CallOK' /\ AtStage'
    BY ReturnTyped DEF TypeOK, Checkpoint
<1>2. at[c] + 1 \in 1..Done
    BY IndexFacts DEF AtStage
<1>3. knows[c] \in BOOLEAN
    BY DEF TypeOK, CallOK
<1>4. RowOK'
    BY <1>2, <1>3 DEF TypeOK, RowOK, Checkpoint, Persist, Statuses
<1> QED
    BY <1>1, <1>4

-----------------------------------------------------------------------------
(* Types.                                                                  *)

\* Every step keeps it.
LEMMA StepType == TypeOK /\ AtStage /\ [Next]_vars => (TypeOK /\ AtStage)'
<1> SUFFICES ASSUME TypeOK, AtStage, [Next]_vars PROVE TypeOK' /\ AtStage'
    OBVIOUS
<1> USE DEF TypeOK
<1>1. ASSUME NEW c \in Caller, AdvanceRead(c) PROVE TypeOK' /\ AtStage'
    <2>1. stage \in Index
        BY <1>1, WorkflowAssumption DEF AdvanceRead, RowOK, Index, Done
    <2> QED
        BY <1>1, <2>1 DEF AdvanceRead, given, row, history, GivenOK, RowOK,
           CallOK, HistoryOK, Pcs, AtStage
<1>2. ASSUME NEW c \in Caller, SkipStage(c) PROVE TypeOK' /\ AtStage'
    <2> DEFINE done == Push(mine[c], {Stages(at[c])})
    <2>1. done \in [Name -> Nat] /\ stored[c] \subseteq Name
        BY PushType DEF CallOK
    <2>2. pc[c] # "idle" /\ at[c] \in Index
        BY <1>2 DEF SkipStage, AtStage
    <2>3. GivenOK' /\ HistoryOK'
        BY <1>2 DEF SkipStage, given, history, GivenOK, HistoryOK
    <2>4. CASE at[c] = NStages
        <3>1. Checkpoint(c, done, stored[c])
            BY <1>2, <2>4 DEF SkipStage
        <3> QED
            BY <2>1, <2>2, <2>3, <3>1, CheckpointTyped
    <2>5. CASE at[c] # NStages
        <3> HIDE DEF done
        <3>1. /\ Persist(c, done, stored[c], at[c] + 1)
              /\ at' = [at EXCEPT ![c] = @ + 1]
              /\ mine' = [mine EXCEPT ![c] = done]
              /\ UNCHANGED <<status, pc, stored, knows, ended, failed>>
            BY <1>2, <2>5 DEF SkipStage, done
        <3>2. at[c] + 1 \in Index /\ at[c] + 1 \in 1..Done
            BY <2>2, <2>5, IndexFacts
        <3>3. RowOK'
            BY <2>1, <3>1, <3>2 DEF RowOK, CallOK, Persist
        <3>4. CallOK' /\ AtStage'
            BY <2>1, <3>1, <3>2 DEF CallOK, AtStage
        <3> QED
            BY <2>3, <3>3, <3>4
    <2> QED
        BY <2>4, <2>5
<1>3. ASSUME NEW c \in Caller, BlockRun(c) PROVE TypeOK' /\ AtStage'
    <2>1. CallOK' /\ AtStage'
        BY <1>3, ReturnTyped DEF BlockRun
    <2> QED
        BY <1>3, <2>1 DEF BlockRun, given, history, GivenOK, RowOK, HistoryOK, Statuses
<1>4. ASSUME NEW c \in Caller, CallHandler(c) PROVE TypeOK' /\ AtStage'
    BY <1>4 DEF CallHandler, given, row, history, GivenOK, RowOK, CallOK,
       HistoryOK, Pcs, AtStage
<1>5. ASSUME NEW c \in Caller, HandlerEnds(c) PROVE TypeOK' /\ AtStage'
    <2>1. Stages(at[c]) \in Name
        BY <1>5, NameFacts DEF HandlerEnds, AtStage
    <2>2. HistoryOK'
        BY <1>5, <2>1 DEF HandlerEnds, HistoryOK
    <2>3. GivenOK' /\ RowOK'
        BY <1>5 DEF HandlerEnds, given, row, GivenOK, RowOK
    <2>4. CallOK' /\ AtStage'
        BY <1>5 DEF HandlerEnds, CallOK, Pcs, AtStage
    <2> QED
        BY <2>2, <2>3, <2>4
<1>6. ASSUME NEW c \in Caller, HandlerThrows(c) PROVE TypeOK' /\ AtStage'
    <2>1. CallOK' /\ AtStage'
        BY <1>6, ReturnTyped DEF HandlerThrows
    <2> QED
        BY <1>6, <2>1 DEF HandlerThrows, given, GivenOK, RowOK, HistoryOK, Statuses
<1>7. ASSUME NEW c \in Caller, RecordStage(c) PROVE TypeOK' /\ AtStage'
    <2>1. mine[c] \in [Name -> Nat] /\ stored[c] \in SUBSET Name
        BY DEF CallOK
    <2>2. Push(mine[c], {Stages(at[c])}) \in [Name -> Nat]
        BY <2>1, PushType
    <2>3. RowOK' /\ CallOK' /\ AtStage'
        BY <1>7, <2>1, <2>2, CheckpointTyped DEF RecordStage
    <2> QED
        BY <1>7, <2>3 DEF RecordStage, given, history, GivenOK, HistoryOK
<1>8. ASSUME NEW c \in Caller, StartBranches(c) PROVE TypeOK' /\ AtStage'
    BY <1>8 DEF StartBranches, given, row, history, GivenOK, RowOK, CallOK,
       HistoryOK, Pcs, AtStage
<1>9. ASSUME NEW c \in Caller, NEW b \in Name, BranchEnds(c, b)
      PROVE  TypeOK' /\ AtStage'
    <2>1. HistoryOK'
        BY <1>9 DEF BranchEnds, HistoryOK
    <2>2. GivenOK' /\ RowOK'
        BY <1>9 DEF BranchEnds, given, row, GivenOK, RowOK
    <2>3. CallOK' /\ AtStage'
        BY <1>9 DEF BranchEnds, CallOK, AtStage
    <2> QED
        BY <2>1, <2>2, <2>3
<1>10. ASSUME NEW c \in Caller, NEW b \in Name, BranchThrows(c, b)
       PROVE  TypeOK' /\ AtStage'
    <2>1. HistoryOK'
        BY <1>10 DEF BranchThrows, HistoryOK
    <2>2. GivenOK' /\ RowOK'
        BY <1>10 DEF BranchThrows, given, row, GivenOK, RowOK
    <2>3. CallOK' /\ AtStage'
        BY <1>10 DEF BranchThrows, CallOK, AtStage
    <2> QED
        BY <2>1, <2>2, <2>3
<1>11. ASSUME NEW c \in Caller, SettleBranches(c) PROVE TypeOK' /\ AtStage'
    <2>1. mine[c] \in [Name -> Nat] /\ stored[c] \in SUBSET Name
          /\ ended[c] \in SUBSET Name /\ at[c] \in 1..Done /\ knows[c] \in BOOLEAN
        BY DEF CallOK
    <2>2. Settled(c) \in [Name -> Nat]
        BY <2>1, PushType DEF Settled
    <2>3. Merged(c) \in SUBSET Name
        BY <2>1 DEF Merged
    <2>4. GivenOK' /\ HistoryOK'
        BY <1>11 DEF SettleBranches, given, history, GivenOK, HistoryOK
    <2>5. RowOK'
        BY <1>11, <2>1, <2>2, <2>3 DEF SettleBranches, Persist, RowOK
    <2>6. CASE failed[c] # {}
        <3>1. Return(c)
            BY <1>11, <2>6 DEF SettleBranches
        <3> QED
            BY <2>4, <2>5, <3>1, ReturnTyped
    <2>7. CASE failed[c] = {}
        <3>1. /\ pc' = [pc EXCEPT ![c] = "converge"]
              /\ mine' = [mine EXCEPT ![c] = Settled(c)]
              /\ stored' = [stored EXCEPT ![c] = Merged(c)]
              /\ UNCHANGED <<at, knows, ended, failed>>
            BY <1>11, <2>7 DEF SettleBranches
        <3>2. CallOK'
            BY <2>2, <2>3, <3>1 DEF CallOK, Pcs
        <3>3. pc[c] # "idle"
            BY <1>11 DEF SettleBranches
        <3>4. AtStage'
            BY <3>1, <3>3 DEF AtStage, CallOK
        <3> QED
            BY <2>4, <2>5, <3>2, <3>4
    <2> QED
        BY <2>6, <2>7
<1>12. ASSUME NEW c \in Caller, Converge(c) PROVE TypeOK' /\ AtStage'
    <2>1. mine[c] \in [Name -> Nat] /\ stored[c] \in SUBSET Name
        BY DEF CallOK
    <2>2. Push(mine[c], {Stages(at[c])}) \in [Name -> Nat]
        BY <2>1, PushType
    <2>3. RowOK' /\ CallOK' /\ AtStage'
        BY <1>12, <2>1, <2>2, CheckpointTyped DEF Converge
    <2> QED
        BY <1>12, <2>3 DEF Converge, given, history, GivenOK, HistoryOK
<1>13. ASSUME NEW c \in Caller, PauseForApproval(c) PROVE TypeOK' /\ AtStage'
    <2>1. GivenOK' /\ RowOK' /\ HistoryOK'
        BY <1>13 DEF PauseForApproval, given, GivenOK, RowOK, HistoryOK, Statuses
    <2>2. CallOK' /\ AtStage'
        BY <1>13 DEF PauseForApproval, call, CallOK, AtStage
    <2> QED
        BY <2>1, <2>2
<1>14. ASSUME NEW c \in Caller, Resume(c) PROVE TypeOK' /\ AtStage'
    <2>1. GivenOK' /\ RowOK' /\ HistoryOK'
        BY <1>14 DEF Resume, given, history, GivenOK, RowOK, HistoryOK, Statuses
    <2>2. CallOK' /\ AtStage'
        BY <1>14 DEF Resume, call, CallOK, AtStage
    <2> QED
        BY <2>1, <2>2
<1>15. ASSUME NEW c \in Caller, Crash(c) PROVE TypeOK' /\ AtStage'
    <2>1. CallOK' /\ AtStage'
        BY <1>15, ReturnTyped DEF Crash
    <2> QED
        BY <1>15, <2>1 DEF Crash, given, row, GivenOK, RowOK, HistoryOK
<1>16. CASE UNCHANGED vars
    <2>1. GivenOK' /\ RowOK' /\ HistoryOK'
        BY <1>16 DEF vars, given, row, history, GivenOK, RowOK, HistoryOK
    <2>2. CallOK' /\ AtStage'
        BY <1>16 DEF vars, call, CallOK, AtStage
    <2> QED
        BY <2>1, <2>2
<1> QED
    BY <1>1, <1>2, <1>3, <1>4, <1>5, <1>6, <1>7, <1>8, <1>9, <1>10, <1>11,
       <1>12, <1>13, <1>14, <1>15, <1>16 DEF Next, AdvanceStep

\* It holds at the start.
LEMMA InitType == Init => TypeOK /\ AtStage
<1> SUFFICES ASSUME Init PROVE TypeOK /\ AtStage
    OBVIOUS
<1>1. defn \in Definitions /\ low \in BOOLEAN /\ serial \in BOOLEAN
    BY DEF Init
<1>2. \A i \in Index : Stages(i) \in Name /\ Branches(i) \subseteq Name
    <2>1. ASSUME NEW i \in Index PROVE Stages(i) \in Name
        BY WorkflowAssumption DEF Stages, Name
    <2>2. ASSUME NEW i \in Index, NEW k \in 1..defn.width[i] PROVE <<i, k>> \in Name
        <3>1. defn.width[i] \in 0..MaxWidth
            BY <1>1, WorkflowAssumption
        <3> QED
            BY <3>1, WorkflowAssumption DEF Name
    <2> QED
        BY <2>1, <2>2 DEF Branches
<1>3. missing \subseteq Name
    BY <1>2 DEF Init, Handlers
<1>4. None \in [Name -> Nat]
    BY DEF None
<1>5. RowOK /\ CallOK /\ HistoryOK
    BY <1>4, IndexFacts DEF Init, RowOK, CallOK, HistoryOK, Statuses, Pcs
<1>6. AtStage
    BY DEF Init, AtStage
<1> QED
    BY <1>1, <1>3, <1>5, <1>6 DEF TypeOK, GivenOK

\* Every variable keeps its type in every behaviour of the engine.
THEOREM WorkflowTyped == Spec => []TypeOK
    BY InitType, StepType, PTL DEF Spec

-----------------------------------------------------------------------------
(* No stage is passed with its work undone.                                *)

\* What every step does to the work: it is never undone.
Grows == UNCHANGED given /\ \A n \in Name : ran[n] > 0 => ran'[n] > 0

RowHonest == StagesDone /\ Honest(completed)

\* What leaves a stage alone keeps what was done for it.
LEMMA WorkKept ==
    ASSUME TypeOK, Grows
    PROVE  /\ \A i \in Index : Work(i)' = Work(i) /\ Branches(i)' = Branches(i)
           /\ \A i \in Index : Work(i) \subseteq Name
           /\ \A i \in Index : Did(i) => Did(i)'
<1>1. ASSUME NEW i \in Index PROVE Work(i)' = Work(i) /\ Branches(i)' = Branches(i)
    BY DEF Grows, given, Work, Skips, Handlers, FansOut, Branches, Stages
<1>2. ASSUME NEW i \in Index PROVE Work(i) \subseteq Name
    BY NameFacts DEF TypeOK, Work, Handlers
<1>3. ASSUME NEW i \in Index, Did(i) PROVE Did(i)'
    <2>1. \A n \in Work(i) : n \in Name /\ ran[n] > 0
        BY <1>2, <1>3 DEF Did
    <2>2. \A n \in Work(i)' : ran'[n] > 0
        BY <1>1, <2>1 DEF Grows
    <2> QED
        BY <2>2 DEF Did
<1> QED
    BY <1>1, <1>2, <1>3

\* A call another caller's step does not touch.
LEMMA CallKept ==
    ASSUME TypeOK, AtStage, Grows, NEW d \in Caller, CallInv(d),
           pc'[d] = pc[d], at'[d] = at[d], mine'[d] = mine[d], ended'[d] = ended[d]
    PROVE  CallInv(d)'
<1>1. at[d] \in 1..Done /\ ended[d] \subseteq Name /\ Index \subseteq 1..Done
    BY IndexFacts DEF TypeOK, CallOK
<1>2. \A i \in Index : i < at'[d] => Did(i)'
    BY WorkKept DEF CallInv
<1>3. pc'[d] # "idle" => at'[d] \in Index
    BY DEF CallInv
<1>4. pc'[d] \in {"handler", "returned"} => Work(at[d])' = {Stages(at[d])'}
    BY <1>3, WorkKept DEF CallInv, Stages
<1>5. pc'[d] \in {"branches", "converge"} => Work(at[d])' = Branches(at[d])'
    <2>1. ASSUME pc'[d] \in {"branches", "converge"}
          PROVE  Work(at[d])' = Branches(at[d])'
        <3>1. at[d] \in Index /\ Work(at[d]) = Branches(at[d])
            BY <2>1 DEF CallInv
        <3>2. PICK i \in Index : i = at[d]
            BY <3>1
        <3>3. Work(i)' = Branches(i)'
            BY <3>1, <3>2, WorkKept
        <3> QED
            BY <3>2, <3>3 DEF Work, Branches, Skips, Handlers, FansOut, Stages
    <2> QED
        BY <2>1
<1>6. pc'[d] \in {"returned", "converge"} => Did(at[d])'
    <2>1. ASSUME pc'[d] \in {"returned", "converge"} PROVE Did(at[d])'
        <3>1. PICK i \in Index : i = at[d] /\ Did(i)
            BY <2>1 DEF CallInv
        <3>2. Did(i)'
            BY <3>1, WorkKept
        <3> QED
            BY <3>1, <3>2 DEF Did, Work, Branches, Skips, Handlers, FansOut, Stages
    <2> QED
        BY <2>1
<1>7. Honest(mine[d])'
    BY WorkKept, NameFacts DEF CallInv, Honest, Grows, TypeOK
<1>8. \A b \in ended'[d] : ran'[b] > 0
    BY <1>1 DEF CallInv, Grows
<1> QED
    BY <1>2, <1>3, <1>4, <1>5, <1>6, <1>7, <1>8 DEF CallInv

\* A call that ends claims nothing.
LEMMA CallReturned ==
    ASSUME TypeOK, Grows, NEW c \in Caller, Return(c)
    PROVE  CallInv(c)' /\ \A d \in Caller \ {c} :
               pc'[d] = pc[d] /\ at'[d] = at[d] /\ mine'[d] = mine[d] /\ ended'[d] = ended[d]
<1>1. pc'[c] = "idle" /\ at'[c] = 1 /\ mine'[c] = None /\ ended'[c] = {}
    BY DEF TypeOK, CallOK, Return
<1>2. Honest(mine[c])'
    <2>1. \A i \in Index : \A b \in Branches(i)' : mine'[c][b] = 0
        BY <1>1, WorkKept, NameFacts DEF None, TypeOK
    <2> QED
        BY <2>1 DEF Honest
<1>3. \A i \in Index : ~(i < 1)
    BY DEF Index
<1>4. CallInv(c)'
    BY <1>1, <1>2, <1>3 DEF CallInv
<1> QED
    BY <1>4 DEF Return, TypeOK, CallOK

\* A step of one caller that leaves the row's claims and its own true.
LEMMA StepOf ==
    ASSUME TypeOK, AtStage, WorkInv, Grows, NEW c \in Caller,
           \A d \in Caller \ {c} :
               pc'[d] = pc[d] /\ at'[d] = at[d] /\ mine'[d] = mine[d] /\ ended'[d] = ended[d],
           CallInv(c)', StagesDone', Honest(completed)'
    PROVE  WorkInv'
<1>1. ASSUME NEW d \in Caller PROVE CallInv(d)'
    <2>1. CASE d = c
        BY <2>1
    <2>2. CASE d # c
        BY <2>2, CallKept DEF WorkInv
    <2> QED
        BY <2>1, <2>2
<1> QED
    BY <1>1 DEF WorkInv

\* The row's claims survive every step that leaves its stage and its
\* checkpoint alone and undoes no work.
LEMMA RowKept ==
    ASSUME TypeOK, WorkInv, Grows, UNCHANGED <<stage, completed>>,
           \A n \in Name : ran'[n] > 0 => ran[n] > 0 \/ n \in Work(n[1])
    PROVE  StagesDone' /\ Honest(completed)'
<1>1. \A i \in Index : i < stage' => Did(i)'
    BY WorkKept DEF WorkInv, StagesDone, Did
<1>2. \A n \in Name : n[1] \in Index
    BY DEF Name
<1>3. \A n \in Name : ran'[n] > 0 => n \in Work(n[1])'
    BY <1>2, WorkKept DEF WorkInv, StagesDone
<1>4. Honest(completed)'
    BY WorkKept, NameFacts DEF WorkInv, Honest, Grows, TypeOK
<1> QED
    BY <1>1, <1>3, <1>4 DEF StagesDone, Did

\* Writing back an honest state, at a stage whose predecessors are done.
LEMMA RowWritten ==
    ASSUME TypeOK, WorkInv, UNCHANGED <<given, ran>>,
           \A i \in Index : i < stage' => Did(i),
           NEW done, Honest(done), completed' = done
    PROVE  StagesDone' /\ Honest(completed)'
<1>1. Grows
    BY DEF Grows
<1>2. \A i \in Index : i < stage' => Did(i)'
    BY <1>1, WorkKept
<1>3. \A n \in Name : n[1] \in Index
    BY DEF Name
<1>4. \A n \in Name : ran'[n] > 0 => n \in Work(n[1])'
    BY <1>1, <1>3, WorkKept DEF WorkInv, StagesDone
<1>5. Honest(completed)'
    BY <1>1, WorkKept DEF Honest
<1> QED
    BY <1>2, <1>4, <1>5 DEF StagesDone, Did

\* The marker of a stage says nothing about branches.
LEMMA PushStage ==
    ASSUME TypeOK, NEW done \in [Name -> Nat], NEW s \in Index, Honest(done)
    PROVE  Honest(Push(done, {Stages(s)}))
<1>1. ASSUME NEW i \in Index, NEW b \in Branches(i) PROVE b \in Name
    BY NameFacts DEF TypeOK
<1>2. ASSUME NEW i \in Index, NEW b \in Branches(i) PROVE b # Stages(s)
    <2>1. PICK k \in 1..defn.width[i] : b = <<i, k>>
        BY DEF Branches
    <2>2. k # 0
        OBVIOUS
    <2> QED
        BY <2>1, <2>2 DEF Stages
<1> QED
    BY <1>1, <1>2 DEF Honest, Push

\* A call at a stage whose work is done may write it off.
LEMMA CheckpointWork ==
    ASSUME TypeOK, AtStage, WorkInv, UNCHANGED <<given, ran>>,
           NEW c \in Caller, pc[c] # "idle", Did(at[c]),
           NEW done \in [Name -> Nat], Honest(done), NEW out, Checkpoint(c, done, out)
    PROVE  WorkInv'
<1>1. stage' = at[c] + 1 /\ completed' = done /\ Return(c)
    BY DEF Checkpoint, Persist
<1>2. at[c] \in Index /\ \A i \in Index : i < at[c] => Did(i)
    BY DEF AtStage, WorkInv, CallInv
<1>3. ASSUME NEW i \in Index, i < stage' PROVE Did(i)
    <2>1. i < at[c] \/ i = at[c]
        BY <1>1, <1>2, <1>3 DEF Index
    <2> QED
        BY <1>2, <2>1
<1>4. StagesDone' /\ Honest(completed)'
    BY <1>1, <1>3, RowWritten
<1>5. Grows
    BY DEF Grows
<1> QED
    BY <1>1, <1>4, <1>5, CallReturned, StepOf

\* The work of a stage that is not pruned.
LEMMA StageWork ==
    ASSUME NEW i \in Index, ~Skips(i)
    PROVE  /\ ~FansOut(i) => Work(i) = {Stages(i)}
           /\ FansOut(i) => Work(i) = Branches(i)
    BY DEF Work, Handlers

\* Every step keeps it.
LEMMA StepWork == TypeOK /\ AtStage /\ WorkInv /\ [Next]_vars => WorkInv'
<1> SUFFICES ASSUME TypeOK, AtStage, WorkInv, [Next]_vars PROVE WorkInv'
    OBVIOUS
<1>a. ASSUME UNCHANGED <<given, ran>> PROVE Grows
    BY <1>a DEF Grows
<1>b. ASSUME UNCHANGED <<given, ran, stage, completed>>
      PROVE  StagesDone' /\ Honest(completed)'
    BY <1>a, <1>b, RowKept
<1>c. ASSUME NEW c \in Caller, Return(c), UNCHANGED <<given, ran, stage, completed>>
      PROVE  WorkInv'
    BY <1>a, <1>b, <1>c, CallReturned, StepOf
<1>1. ASSUME NEW c \in Caller, AdvanceRead(c) PROVE WorkInv'
    <2>1. UNCHANGED <<given, ran, stage, completed>>
        BY <1>1 DEF AdvanceRead, row, history
    <2>2. /\ pc'[c] = "loaded" /\ at'[c] = stage /\ mine'[c] = completed
          /\ ended'[c] = ended[c]
        BY <1>1 DEF AdvanceRead, TypeOK, CallOK
    <2>3. stage \in Index
        BY <1>1, WorkflowAssumption DEF AdvanceRead, TypeOK, RowOK, Index, Done
    <2>4. \A i \in Index : i < at'[c] => Did(i)'
        BY <2>1, <2>2, <1>b DEF StagesDone, Did
    <2>5. Honest(mine[c])'
        BY <2>1, <2>2, <1>b DEF Honest
    <2>6. \A b \in ended'[c] : ran'[b] > 0
        BY <2>1, <2>2 DEF WorkInv, CallInv
    <2>7. CallInv(c)'
        BY <2>2, <2>3, <2>4, <2>5, <2>6 DEF CallInv
    <2> QED
        BY <1>1, <1>a, <1>b, <2>1, <2>7, StepOf DEF AdvanceRead, TypeOK, CallOK
<1>2. ASSUME NEW c \in Caller, SkipStage(c) PROVE WorkInv'
    <2> DEFINE done == Push(mine[c], {Stages(at[c])})
    <2>1. pc[c] = "loaded" /\ at[c] \in Index /\ Skips(at[c])
        BY <1>2 DEF SkipStage, AtStage
    <2>2. mine[c] \in [Name -> Nat] /\ Honest(mine[c])
        BY DEF TypeOK, CallOK, WorkInv, CallInv
    <2>3. done \in [Name -> Nat] /\ Honest(done)
        BY <2>1, <2>2, PushType, PushStage
    <2>4. Did(at[c])
        BY <2>1 DEF Did, Work
    <2>5. UNCHANGED <<given, ran>>
        BY <1>2 DEF SkipStage, history
    <2>6. CASE at[c] = NStages
        <3>1. Checkpoint(c, done, stored[c])
            BY <1>2, <2>6 DEF SkipStage
        <3> QED
            BY <2>1, <2>3, <2>4, <2>5, <3>1, CheckpointWork
    <2>7. CASE at[c] # NStages
        <3> HIDE DEF done
        <3>1. /\ Persist(c, done, stored[c], at[c] + 1)
              /\ at' = [at EXCEPT ![c] = @ + 1]
              /\ mine' = [mine EXCEPT ![c] = done]
              /\ UNCHANGED <<pc, ended>>
            BY <1>2, <2>7 DEF SkipStage, done
        <3>2. /\ pc'[c] = "loaded" /\ at'[c] = at[c] + 1 /\ mine'[c] = done
              /\ ended'[c] = ended[c]
              /\ stage' = at[c] + 1 /\ completed' = done
            BY <2>1, <3>1 DEF Persist, TypeOK, CallOK
        <3>3. ASSUME NEW i \in Index, i < at[c] + 1 PROVE Did(i)
            <4>1. i < at[c] \/ i = at[c]
                BY <2>1, <3>3 DEF Index
            <4> QED
                BY <2>4, <4>1 DEF WorkInv, CallInv
        <3>4. StagesDone' /\ Honest(completed)'
            BY <2>3, <2>5, <3>2, <3>3, RowWritten
        <3>5. at'[c] \in Index
            BY <2>1, <2>7, <3>2, IndexFacts
        <3>6. \A i \in Index : i < at'[c] => Did(i)'
            BY <2>5, <3>2, <3>3, <1>a, WorkKept
        <3>7. Honest(mine[c])'
            BY <3>2, <3>4 DEF Honest
        <3>8. \A b \in ended'[c] : ran'[b] > 0
            BY <2>5, <3>2 DEF WorkInv, CallInv
        <3>9. CallInv(c)'
            BY <3>2, <3>5, <3>6, <3>7, <3>8 DEF CallInv
        <3> QED
            BY <2>5, <1>a, <3>1, <3>4, <3>9, StepOf DEF TypeOK, CallOK
    <2> QED
        BY <2>6, <2>7
<1>3. ASSUME NEW c \in Caller, BlockRun(c) PROVE WorkInv'
    BY <1>3, <1>c DEF BlockRun, history
<1>4. ASSUME NEW c \in Caller, CallHandler(c) PROVE WorkInv'
    <2>1. UNCHANGED <<given, ran, stage, completed, at, mine, ended>>
        BY <1>4 DEF CallHandler, row, history
    <2>2. pc'[c] = "handler" /\ at[c] \in Index /\ Work(at[c]) = {Stages(at[c])}
        BY <1>4, StageWork DEF CallHandler, TypeOK, CallOK, AtStage
    <2>3. CallInv(c)'
        BY <2>1, <2>2 DEF WorkInv, CallInv, Did, Work, Skips, Handlers, FansOut,
           Branches, Stages, Honest, given
    <2> QED
        BY <1>4, <1>a, <1>b, <2>1, <2>3, StepOf DEF CallHandler
<1>5. ASSUME NEW c \in Caller, HandlerEnds(c) PROVE WorkInv'
    <2>1. UNCHANGED <<given, stage, completed, at, mine, ended>>
        BY <1>5 DEF HandlerEnds, row
    <2>2. at[c] \in Index /\ Work(at[c]) = {Stages(at[c])} /\ Stages(at[c]) \in Name
        BY <1>5, NameFacts DEF HandlerEnds, AtStage, WorkInv, CallInv, TypeOK
    <2>3. /\ pc'[c] = "returned" /\ pc' = [pc EXCEPT ![c] = "returned"]
          /\ ran' = [ran EXCEPT ![Stages(at[c])] = @ + 1]
          /\ ran \in [Name -> Nat]
        BY <1>5 DEF HandlerEnds, TypeOK, CallOK, HistoryOK
    <2>4. \A n \in Name : /\ ran[n] > 0 => ran'[n] > 0
                          /\ ran'[n] > 0 => ran[n] > 0 \/ n = Stages(at[c])
        BY <2>2, <2>3
    <2>5. ran'[Stages(at[c])] > 0
        BY <2>2, <2>3
    <2>6. Grows
        BY <2>1, <2>4 DEF Grows
    <2>7. Stages(at[c]) \in Work(Stages(at[c])[1])
        BY <2>2 DEF Stages
    <2>8. StagesDone' /\ Honest(completed)'
        BY <2>1, <2>4, <2>6, <2>7, RowKept
    <2>9. CallInv(c)'
        <3>1. Work(at[c])' = Work(at[c]) /\ Stages(at[c])' = Stages(at[c])
            BY <2>1 DEF given, Work, Skips, Handlers, FansOut, Branches, Stages
        <3>2. Did(at[c])'
            BY <2>2, <2>5, <3>1 DEF Did
        <3>3. \A i \in Index : i < at'[c] => Did(i)'
            BY <2>1, <2>6, WorkKept DEF WorkInv, CallInv
        <3>4. Honest(mine[c])'
            BY <2>1, <2>4, <2>6, WorkKept, NameFacts DEF WorkInv, CallInv, Honest, TypeOK
        <3>5. \A b \in ended'[c] : ran'[b] > 0
            BY <2>1, <2>4 DEF WorkInv, CallInv, TypeOK, CallOK
        <3> QED
            BY <2>1, <2>2, <2>3, <3>1, <3>2, <3>3, <3>4, <3>5 DEF CallInv
    <2> QED
        BY <2>1, <2>3, <2>6, <2>8, <2>9, StepOf
<1>6. ASSUME NEW c \in Caller, HandlerThrows(c) PROVE WorkInv'
    BY <1>6, <1>c DEF HandlerThrows
<1>7. ASSUME NEW c \in Caller, RecordStage(c) PROVE WorkInv'
    <2>1. pc[c] = "returned" /\ at[c] \in Index /\ Did(at[c])
        BY <1>7 DEF RecordStage, AtStage, WorkInv, CallInv
    <2>2. mine[c] \in [Name -> Nat] /\ Honest(mine[c])
        BY DEF TypeOK, CallOK, WorkInv, CallInv
    <2>3. Push(mine[c], {Stages(at[c])}) \in [Name -> Nat]
          /\ Honest(Push(mine[c], {Stages(at[c])}))
        BY <2>1, <2>2, PushType, PushStage
    <2> QED
        BY <1>7, <2>1, <2>3, CheckpointWork DEF RecordStage, history
<1>8. ASSUME NEW c \in Caller, StartBranches(c) PROVE WorkInv'
    <2>1. UNCHANGED <<given, ran, stage, completed, at, mine, ended>>
        BY <1>8 DEF StartBranches, row, history
    <2>2. at[c] \in Index /\ Work(at[c]) = Branches(at[c])
        BY <1>8, StageWork DEF StartBranches, AtStage
    <2>3. /\ pc' = [pc EXCEPT ![c] = IF Pending(c) = {} THEN "converge" ELSE "branches"]
          /\ pc'[c] \in {"converge", "branches"}
          /\ pc'[c] = "converge" => Pending(c) = {}
        BY <1>8 DEF StartBranches, TypeOK, CallOK
    <2>4. ASSUME Pending(c) = {} PROVE Did(at[c])
        <3>1. \A b \in Branches(at[c]) : b \in Name /\ mine[c][b] # 0
            BY <2>2, <2>4, NameFacts DEF Pending, TypeOK
        <3>2. \A b \in Branches(at[c]) : mine[c][b] > 0
            BY <3>1 DEF TypeOK, CallOK
        <3> QED
            BY <2>2, <3>2 DEF Did, WorkInv, CallInv, Honest
    <2>5. CallInv(c)'
        BY <2>1, <2>2, <2>3, <2>4 DEF WorkInv, CallInv, Did, Work, Skips, Handlers,
           FansOut, Branches, Stages, Honest, given
    <2> QED
        BY <1>a, <1>b, <2>1, <2>3, <2>5, StepOf
<1>9. ASSUME NEW c \in Caller, NEW b \in Name, BranchEnds(c, b) PROVE WorkInv'
    <2>1. UNCHANGED <<given, stage, completed, pc, at, mine>>
        BY <1>9 DEF BranchEnds, row
    <2>2. /\ pc[c] = "branches" /\ at[c] \in Index /\ Work(at[c]) = Branches(at[c])
          /\ b \in Branches(at[c])
        BY <1>9 DEF BranchEnds, Pending, AtStage, WorkInv, CallInv
    <2>3. /\ ended' = [ended EXCEPT ![c] = @ \cup {b}]
          /\ ran' = [ran EXCEPT ![b] = @ + 1] /\ ran \in [Name -> Nat]
        BY <1>9 DEF BranchEnds, TypeOK, HistoryOK
    <2>4. \A n \in Name : /\ ran[n] > 0 => ran'[n] > 0
                          /\ ran'[n] > 0 => ran[n] > 0 \/ n = b
        BY <2>3
    <2>5. ran'[b] > 0
        BY <2>3
    <2>6. Grows
        BY <2>1, <2>4 DEF Grows
    <2>7. b[1] = at[c]
        BY <2>2 DEF Branches
    <2>8. StagesDone' /\ Honest(completed)'
        BY <2>1, <2>2, <2>4, <2>6, <2>7, RowKept
    <2>9. CallInv(c)'
        <3>1. Work(at[c])' = Work(at[c]) /\ Branches(at[c])' = Branches(at[c])
            BY <2>1 DEF given, Work, Skips, Handlers, FansOut, Branches, Stages
        <3>2. \A i \in Index : i < at'[c] => Did(i)'
            BY <2>1, <2>6, WorkKept DEF WorkInv, CallInv
        <3>3. Honest(mine[c])'
            BY <2>1, <2>4, <2>6, WorkKept, NameFacts DEF WorkInv, CallInv, Honest, TypeOK
        <3>4. \A n \in ended'[c] : ran'[n] > 0
            BY <2>3, <2>4, <2>5 DEF WorkInv, CallInv, TypeOK, CallOK
        <3> QED
            BY <2>1, <2>2, <3>1, <3>2, <3>3, <3>4 DEF CallInv
    <2> QED
        BY <2>1, <2>3, <2>6, <2>8, <2>9, StepOf
<1>10. ASSUME NEW c \in Caller, NEW b \in Name, BranchThrows(c, b) PROVE WorkInv'
    <2>1. UNCHANGED <<given, ran, stage, completed, pc, at, mine, ended>>
        BY <1>10 DEF BranchThrows, row
    <2>2. CallInv(c)'
        BY <2>1, <1>a, CallKept DEF WorkInv
    <2> QED
        BY <1>a, <1>b, <2>1, <2>2, StepOf
<1>11. ASSUME NEW c \in Caller, SettleBranches(c) PROVE WorkInv'
    <2>1. /\ pc[c] = "branches" /\ at[c] \in Index /\ Work(at[c]) = Branches(at[c])
          /\ Pending(c) = ended[c] \cup failed[c] /\ UNCHANGED <<given, ran>>
          /\ stage' = at[c] /\ completed' = Settled(c)
        BY <1>11 DEF SettleBranches, Persist, history, AtStage, WorkInv, CallInv
    <2>2. Honest(Settled(c))
        BY NameFacts DEF Settled, Push, Honest, WorkInv, CallInv, TypeOK, CallOK
    <2>3. \A i \in Index : i < stage' => Did(i)
        BY <2>1 DEF WorkInv, CallInv
    <2>4. StagesDone' /\ Honest(completed)'
        BY <2>1, <2>2, <2>3, RowWritten
    <2>5. CASE failed[c] # {}
        <3>1. Return(c)
            BY <1>11, <2>5 DEF SettleBranches
        <3> QED
            BY <1>a, <2>1, <2>4, <3>1, CallReturned, StepOf
    <2>6. CASE failed[c] = {}
        <3>1. /\ pc' = [pc EXCEPT ![c] = "converge"]
              /\ mine' = [mine EXCEPT ![c] = Settled(c)]
              /\ UNCHANGED <<at, ended>>
            BY <1>11, <2>6 DEF SettleBranches
        <3>2. pc'[c] = "converge" /\ mine'[c] = Settled(c)
            BY <3>1 DEF TypeOK, CallOK
        <3>3. Did(at[c])
            <4>1. ASSUME NEW b \in Branches(at[c]) PROVE ran[b] > 0
                <5>1. CASE mine[c][b] = 0
                    BY <2>1, <2>6, <5>1 DEF Pending, WorkInv, CallInv
                <5>2. CASE mine[c][b] # 0
                    <6>1. b \in Name
                        BY <2>1, NameFacts DEF TypeOK
                    <6>2. mine[c][b] > 0
                        BY <5>2, <6>1 DEF TypeOK, CallOK
                    <6> QED
                        BY <2>1, <6>2 DEF WorkInv, CallInv, Honest
                <5> QED
                    BY <5>1, <5>2
            <4> QED
                BY <2>1, <4>1 DEF Did
        <3>4. Honest(mine[c])'
            BY <2>1, <2>4, <3>2 DEF Honest
        <3>5. /\ \A i \in Index : i < at'[c] => Did(i)'
              /\ Did(at[c])'
            <4>1. \A i \in Index : Did(i) => Did(i)'
                BY <1>a, <2>1, WorkKept
            <4>2. \A i \in Index : i < at'[c] => Did(i)'
                BY <3>1, <4>1 DEF WorkInv, CallInv
            <4>3. Did(at[c])'
                BY <2>1, <3>1, <3>3 DEF Did, Work, Skips, Handlers, FansOut, Branches,
                   Stages, given
            <4> QED
                BY <4>2, <4>3
        <3>6. Work(at[c])' = Branches(at[c])'
            BY <2>1, <3>1 DEF given, Work, Skips, Handlers, FansOut, Branches, Stages
        <3>7. \A b \in ended'[c] : ran'[b] > 0
            BY <2>1, <3>1 DEF WorkInv, CallInv
        <3>8. CallInv(c)'
            BY <2>1, <3>1, <3>2, <3>4, <3>5, <3>6, <3>7 DEF CallInv
        <3> QED
            BY <1>a, <2>1, <2>4, <3>1, <3>8, StepOf
    <2> QED
        BY <2>5, <2>6
<1>12. ASSUME NEW c \in Caller, Converge(c) PROVE WorkInv'
    <2>1. pc[c] = "converge" /\ at[c] \in Index /\ Did(at[c])
        BY <1>12 DEF Converge, AtStage, WorkInv, CallInv
    <2>2. mine[c] \in [Name -> Nat] /\ Honest(mine[c])
        BY DEF TypeOK, CallOK, WorkInv, CallInv
    <2>3. Push(mine[c], {Stages(at[c])}) \in [Name -> Nat]
          /\ Honest(Push(mine[c], {Stages(at[c])}))
        BY <2>1, <2>2, PushType, PushStage
    <2> QED
        BY <1>12, <2>1, <2>3, CheckpointWork DEF Converge, history
<1>13. ASSUME UNCHANGED <<given, ran, stage, completed, call>> PROVE WorkInv'
    <2>1. \A c \in Caller : CallInv(c)'
        BY <1>13, <1>a, CallKept DEF WorkInv, call
    <2> QED
        BY <1>13, <1>b, <2>1 DEF WorkInv
<1>14. ASSUME NEW c \in Caller, PauseForApproval(c) \/ Resume(c) PROVE WorkInv'
    BY <1>13, <1>14 DEF PauseForApproval, Resume, history
<1>15. ASSUME NEW c \in Caller, Crash(c) PROVE WorkInv'
    BY <1>15, <1>c DEF Crash, row
<1>16. CASE UNCHANGED vars
    BY <1>13, <1>16 DEF vars, row, history
<1> QED
    BY <1>1, <1>2, <1>3, <1>4, <1>5, <1>6, <1>7, <1>8, <1>9, <1>10, <1>11, <1>12,
       <1>14, <1>15, <1>16 DEF Next, AdvanceStep

\* It holds at the start.
LEMMA InitWork == Init => WorkInv
<1> SUFFICES ASSUME Init PROVE WorkInv
    OBVIOUS
<1>1. TypeOK /\ \A i \in Index : Branches(i) \subseteq Name
    BY InitType, NameFacts DEF TypeOK
<1>2. \A n \in Name : None[n] = 0 /\ ~(0 > 0)
    BY DEF None
<1>3. Honest(None)
    BY <1>1, <1>2 DEF Honest
<1>4. \A i \in Index : ~(i < 1)
    BY DEF Index
<1>5. StagesDone
    BY <1>2, <1>4 DEF Init, StagesDone
<1>6. \A c \in Caller : CallInv(c)
    BY <1>3, <1>4 DEF Init, CallInv
<1> QED
    BY <1>3, <1>5, <1>6 DEF Init, WorkInv

\* In every behaviour, whatever the callers overwrite: the row never stands
\* past a stage whose handlers have not all run to the end, and no handler
\* of a pruned stage ever runs.
THEOREM NoStagePassedUndone == Spec => []StagesDone
<1>1. TypeOK /\ AtStage /\ WorkInv /\ [Next]_vars => (TypeOK /\ AtStage /\ WorkInv)'
    BY StepType, StepWork
<1>2. WorkInv => StagesDone
    BY DEF WorkInv
<1> QED
    BY InitType, InitWork, <1>1, <1>2, PTL DEF Spec

-----------------------------------------------------------------------------
(* Progress is recorded exactly.                                           *)

\* The branches a state calls completed are those whose output it holds.
Kept(done, out) == \A i \in Index : \A b \in Branches(i) : done[b] > 0 <=> b \in out

\* So it is in the row and in every state a call may write back.
KeptInv == Kept(completed, outputs) /\ \A c \in Caller : Kept(mine[c], stored[c])

\* What a state calls completed when the run stands at stage next.
Exact(done, next) ==
    \A i \in Index :
        /\ done[Stages(i)] = IF i < next THEN 1 ELSE 0
        /\ \A b \in Branches(i) :
              /\ done[b] <= 1
              /\ i < next /\ ~Skips(i) => done[b] = 1
              /\ i > next \/ Skips(i) => done[b] = 0

\* c has run handler n and not yet recorded it.
Flies(c, n) ==
    \/ pc[c] = "returned" /\ n = Stages(at[c])
    \/ pc[c] = "branches" /\ n \in ended[c]

\* The one call of a serial run knows what the row says.
CallExact(c) ==
    /\ pc[c] \in {"idle", "loaded"} => ended[c] = {}
    /\ pc[c] # "idle" =>
          /\ \A d \in Caller : pc[d] # "idle" => d = c
          /\ at[c] = stage /\ mine[c] = completed /\ knows[c] = asked
    /\ pc[c] \in {"handler", "returned"} => ~Skips(at[c]) /\ ~FansOut(at[c])
    /\ pc[c] \in {"branches", "converge"} => ~Skips(at[c])
    /\ pc[c] = "branches" => ended[c] \subseteq Pending(c)
    /\ pc[c] = "converge" => Pending(c) = {}

\* A handler that is neither recorded nor about to be has run once at most for
\* every call that died.
RanExact ==
    \A n \in Name :
        /\ ran[n] <= 1 + crashes
        /\ completed[n] = 0 /\ (\A c \in Caller : ~Flies(c, n)) => ran[n] <= crashes

SerialInv ==
    serial => /\ Exact(completed, stage)
              /\ \A c \in Caller : CallExact(c)
              /\ RanExact

\* A branch is no stage, and belongs to one stage.
LEMMA BranchFacts ==
    ASSUME GivenOK, NEW i \in Index
    PROVE  /\ Stages(i) \in Name /\ Branches(i) \subseteq Name
           /\ ~FansOut(i) => Branches(i) = {}
           /\ \A k \in Index : /\ Stages(k) = Stages(i) => k = i
                               /\ Stages(k) \notin Branches(i)
                               /\ \A b \in Branches(i) : b \in Branches(k) => k = i
<1>1. defn.width[i] \in 0..MaxWidth
    BY WorkflowAssumption DEF GivenOK
<1>2. ~FansOut(i) => Branches(i) = {}
    BY <1>1, WorkflowAssumption DEF FansOut, Branches
<1> QED
    BY <1>2, NameFacts DEF Stages, Branches

\* Recording a stage says nothing of branches; settling a round keeps outputs
\* with their branches.
LEMMA PushKept ==
    ASSUME GivenOK, NEW done \in [Name -> Nat], NEW out, Kept(done, out)
    PROVE  /\ \A i \in Index : Kept(Push(done, {Stages(i)}), out)
           /\ \A new : Kept(Push(done, new), out \cup new)
    BY BranchFacts DEF Kept, Push

\* The row and every call hold what one of them held, what is written now, or
\* nothing.
LEMMA KeptStep ==
    ASSUME TypeOK, KeptInv, UNCHANGED given, NEW done, NEW out, Kept(done, out),
           completed' = done, outputs' = out,
           \A d \in Caller :
              \/ mine'[d] = mine[d] /\ stored'[d] = stored[d]
              \/ mine'[d] = None /\ stored'[d] = {}
              \/ mine'[d] = completed /\ stored'[d] = outputs
              \/ mine'[d] = done /\ stored'[d] = out
    PROVE  KeptInv'
<1>1. \A i \in Index : Branches(i)' = Branches(i)
    BY DEF given, Branches
<1>2. \A i \in Index : \A b \in Branches(i) : None[b] = 0
    BY BranchFacts DEF TypeOK, None
<1>3. Kept(None, {})
    BY <1>2 DEF Kept
<1>4. ASSUME NEW d \in Caller PROVE Kept(mine'[d], stored'[d])
    BY <1>3 DEF KeptInv
<1> QED
    BY <1>1, <1>4 DEF KeptInv, Kept

\* Every step keeps it.
LEMMA StepKept == TypeOK /\ AtStage /\ KeptInv /\ [Next]_vars => KeptInv'
<1> SUFFICES ASSUME TypeOK, AtStage, KeptInv, [Next]_vars PROVE KeptInv'
    OBVIOUS
<1>0. /\ GivenOK /\ mine \in [Caller -> [Name -> Nat]]
      /\ stored \in [Caller -> SUBSET Name]
      /\ Kept(completed, outputs) /\ \A d \in Caller : Kept(mine[d], stored[d])
    BY DEF TypeOK, CallOK, KeptInv
<1>1. ASSUME UNCHANGED <<given, completed, outputs, mine, stored>> PROVE KeptInv'
    BY <1>0, <1>1, KeptStep
<1>2. ASSUME NEW c \in Caller, Return(c), UNCHANGED given, NEW done, NEW out,
             Kept(done, out), completed' = done, outputs' = out
      PROVE  KeptInv'
    <2>1. \A d \in Caller : \/ mine'[d] = mine[d] /\ stored'[d] = stored[d]
                            \/ mine'[d] = None /\ stored'[d] = {}
        BY <1>0, <1>2 DEF Return
    <2> QED
        BY <1>2, <2>1, KeptStep
<1>3. ASSUME NEW c \in Caller, pc[c] # "idle", UNCHANGED given,
             Checkpoint(c, Push(mine[c], {Stages(at[c])}), stored[c])
      PROVE  KeptInv'
    <2>1. Kept(Push(mine[c], {Stages(at[c])}), stored[c])
        BY <1>0, <1>3, PushKept DEF AtStage
    <2> QED
        BY <1>2, <1>3, <2>1 DEF Checkpoint, Persist
<1>4. ASSUME NEW c \in Caller, AdvanceRead(c) PROVE KeptInv'
    <2>1. /\ UNCHANGED <<given, completed, outputs>>
          /\ \A d \in Caller : \/ mine'[d] = mine[d] /\ stored'[d] = stored[d]
                               \/ mine'[d] = completed /\ stored'[d] = outputs
        BY <1>0, <1>4 DEF AdvanceRead, row
    <2> QED
        BY <1>0, <2>1, KeptStep
<1>5. ASSUME NEW c \in Caller, SkipStage(c) PROVE KeptInv'
    <2> DEFINE done == Push(mine[c], {Stages(at[c])})
    <2>1. pc[c] # "idle" /\ UNCHANGED given /\ at[c] \in Index
        BY <1>5 DEF SkipStage, AtStage
    <2>2. CASE at[c] = NStages
        BY <1>3, <1>5, <2>1, <2>2 DEF SkipStage
    <2>3. CASE at[c] # NStages
        <3>1. Kept(done, stored[c])
            BY <1>0, <2>1, PushKept
        <3> HIDE DEF done
        <3>2. /\ completed' = done /\ outputs' = stored[c] /\ UNCHANGED stored
              /\ mine' = [mine EXCEPT ![c] = done]
            BY <1>5, <2>3 DEF SkipStage, Persist, done
        <3>3. \A d \in Caller : \/ mine'[d] = mine[d] /\ stored'[d] = stored[d]
                                \/ mine'[d] = done /\ stored'[d] = stored[c]
            BY <1>0, <3>2
        <3> QED
            BY <2>1, <3>1, <3>2, <3>3, KeptStep
    <2> QED
        BY <2>2, <2>3
<1>6. ASSUME NEW c \in Caller, SettleBranches(c) PROVE KeptInv'
    <2>1. Kept(Settled(c), Merged(c))
        BY <1>0, PushKept DEF Settled, Merged
    <2>2. completed' = Settled(c) /\ outputs' = Merged(c) /\ UNCHANGED given
        BY <1>6 DEF SettleBranches, Persist
    <2>3. CASE failed[c] # {}
        BY <1>2, <1>6, <2>1, <2>2, <2>3 DEF SettleBranches
    <2>4. CASE failed[c] = {}
        <3>1. \A d \in Caller : \/ mine'[d] = mine[d] /\ stored'[d] = stored[d]
                                \/ mine'[d] = Settled(c) /\ stored'[d] = Merged(c)
            BY <1>0, <1>6, <2>4 DEF SettleBranches
        <3> QED
            BY <2>1, <2>2, <3>1, KeptStep
    <2> QED
        BY <2>3, <2>4
<1>7. ASSUME NEW c \in Caller, RecordStage(c) \/ Converge(c) PROVE KeptInv'
    BY <1>3, <1>7 DEF RecordStage, Converge
<1>8. ASSUME NEW c \in Caller, BlockRun(c) \/ HandlerThrows(c) \/ Crash(c)
      PROVE  KeptInv'
    BY <1>0, <1>2, <1>8 DEF BlockRun, HandlerThrows, Crash, row
<1>9. ASSUME NEW c \in Caller,
             \/ CallHandler(c) \/ HandlerEnds(c) \/ StartBranches(c)
             \/ PauseForApproval(c) \/ Resume(c)
             \/ \E b \in Name : BranchEnds(c, b) \/ BranchThrows(c, b)
      PROVE  KeptInv'
    BY <1>1, <1>9
    DEF CallHandler, HandlerEnds, StartBranches, PauseForApproval, Resume,
        BranchEnds, BranchThrows, row, call
<1>10. CASE UNCHANGED vars
    BY <1>1, <1>10 DEF vars, row, call
<1> QED
    BY <1>4, <1>5, <1>6, <1>7, <1>8, <1>9, <1>10 DEF Next, AdvanceStep

\* A branch counts as completed exactly when its output is checkpointed,
\* however many calls write over each other.
THEOREM OutputsAreKept == Spec => []OutputsKept
<1>1. Init => KeptInv
    <2> SUFFICES ASSUME Init PROVE KeptInv
        OBVIOUS
    <2>1. \A i \in Index : \A b \in Branches(i) : None[b] = 0
        BY InitType, BranchFacts DEF TypeOK, None
    <2>2. Kept(None, {})
        BY <2>1 DEF Kept
    <2> QED
        BY <2>2 DEF Init, KeptInv
<1>2. TypeOK /\ AtStage /\ KeptInv /\ [Next]_vars => (TypeOK /\ AtStage /\ KeptInv)'
    BY StepType, StepKept
<1>3. KeptInv => OutputsKept
    BY DEF KeptInv, Kept, OutputsKept
<1> QED
    BY InitType, <1>1, <1>2, <1>3, PTL DEF Spec

\* A stage that is recorded where the run stands is recorded exactly, once all
\* its branches are.
LEMMA ExactNext ==
    ASSUME GivenOK, NEW done \in [Name -> Nat], NEW i \in Index, Exact(done, i),
           \A b \in Branches(i) : ~Skips(i) => done[b] # 0
    PROVE  Exact(Push(done, {Stages(i)}), i + 1)
<1> DEFINE new == Push(done, {Stages(i)})
<1>1. ASSUME NEW k \in Index
      PROVE  /\ new[Stages(k)] = IF k < i + 1 THEN 1 ELSE 0
             /\ \A b \in Branches(k) : new[b] = done[b]
    <2>1. /\ Stages(k) \in Name /\ Branches(k) \subseteq Name
          /\ Stages(k) = Stages(i) => k = i
          /\ Stages(i) \notin Branches(k)
        BY BranchFacts
    <2>2. \A b \in Branches(k) : b \in Name /\ b # Stages(i) /\ done[b] + 0 = done[b]
        BY <2>1
    <2>3. \A b \in Branches(k) : new[b] = done[b]
        BY <2>2 DEF Push
    <2>4. done[Stages(k)] = IF k < i THEN 1 ELSE 0
        BY DEF Exact
    <2>5. CASE k = i
        BY <2>1, <2>4, <2>5 DEF Push, Index
    <2>6. CASE k # i
        BY <2>1, <2>4, <2>6 DEF Push, Index
    <2> QED
        BY <2>3, <2>5, <2>6
<1>2. ASSUME NEW k \in Index, NEW b \in Branches(k)
      PROVE  /\ new[b] <= 1
             /\ k < i + 1 /\ ~Skips(k) => new[b] = 1
             /\ k > i + 1 \/ Skips(k) => new[b] = 0
    <2> HIDE DEF new
    <2>1. new[b] = done[b] /\ done[b] \in Nat
        BY <1>1, <1>2, BranchFacts
    <2>2. /\ done[b] <= 1
          /\ k < i /\ ~Skips(k) => done[b] = 1
          /\ k > i \/ Skips(k) => done[b] = 0
        BY DEF Exact
    <2>3. k = i /\ ~Skips(k) => done[b] = 1
        BY <2>1, <2>2
    <2> QED
        BY <2>1, <2>2, <2>3 DEF Index
<1> HIDE DEF new
<1>3. Exact(new, i + 1)
    BY <1>1, <1>2 DEF Exact
<1> QED
    BY <1>3 DEF new

\* A round of branches that were not recorded leaves the run where it stands.
LEMMA ExactSettled ==
    ASSUME GivenOK, NEW done \in [Name -> Nat], NEW i \in Index, Exact(done, i),
           ~Skips(i), NEW new,
           \A b \in new : b \in Branches(i) /\ done[b] = 0
    PROVE  Exact(Push(done, new), i)
<1>1. ASSUME NEW k \in Index
      PROVE  /\ Push(done, new)[Stages(k)] = done[Stages(k)]
             /\ k # i => \A b \in Branches(k) : Push(done, new)[b] = done[b]
             /\ \A b \in Branches(k) : \/ Push(done, new)[b] = done[b]
                                       \/ Push(done, new)[b] = 1 /\ k = i
    <2>1. /\ Stages(k) \in Name /\ Branches(k) \subseteq Name
          /\ Stages(k) \notin Branches(i)
          /\ \A b \in Branches(k) : b \in Branches(i) => k = i
        BY BranchFacts
    <2>2. Push(done, new)[Stages(k)] = done[Stages(k)]
        BY <2>1 DEF Push
    <2>3. ASSUME NEW b \in Branches(k)
          PROVE  \/ b \notin new /\ Push(done, new)[b] = done[b]
                 \/ b \in new /\ k = i /\ Push(done, new)[b] = 1
        BY <2>1, <2>3 DEF Push
    <2> QED
        BY <2>2, <2>3
<1>2. ASSUME NEW k \in Index, NEW b \in Branches(k)
      PROVE  /\ Push(done, new)[b] <= 1
             /\ k < i /\ ~Skips(k) => Push(done, new)[b] = 1
             /\ k > i \/ Skips(k) => Push(done, new)[b] = 0
    <2>1. CASE Push(done, new)[b] = done[b]
        BY <2>1 DEF Exact
    <2>2. CASE Push(done, new)[b] = 1 /\ k = i
        BY <2>2 DEF Index
    <2> QED
        BY <1>1, <2>1, <2>2
<1> QED
    BY <1>1, <1>2 DEF Exact

\* In a serial run a step is the only call's, so what is left to show is about
\* the row, this call and the handlers.
LEMMA SerialStepOf ==
    ASSUME SerialInv, serial, UNCHANGED given, NEW c \in Caller,
           \A d \in Caller : d # c =>
               pc[d] = "idle" /\ pc'[d] = "idle" /\ ended'[d] = ended[d],
           Exact(completed, stage)', CallExact(c)', RanExact'
    PROVE  SerialInv'
<1>1. ASSUME NEW d \in Caller, d # c PROVE CallExact(d)'
    BY <1>1 DEF SerialInv, CallExact
<1>2. \A d \in Caller : CallExact(d)'
    BY <1>1
<1> QED
    BY <1>2 DEF SerialInv

\* No handler runs in this step, and each stays recorded or about to be unless
\* its call died.
LEMMA RanStep ==
    ASSUME TypeOK, SerialInv, serial, UNCHANGED ran, NEW c \in Caller,
           \A d \in Caller : d # c => pc[d] = "idle",
           crashes' \in Nat, crashes' >= crashes,
           \A n \in Name : completed'[n] = 0 /\ ~Flies(c, n)' =>
               crashes' > crashes \/ (completed[n] = 0 /\ ~Flies(c, n))
    PROVE  RanExact'
<1> SUFFICES ASSUME NEW n \in Name
             PROVE  /\ ran'[n] <= 1 + crashes'
                    /\ completed'[n] = 0 /\ (\A d \in Caller : ~Flies(d, n)')
                          => ran'[n] <= crashes'
    BY DEF RanExact
<1>1. ran[n] \in Nat /\ crashes \in Nat /\ ran'[n] = ran[n]
    BY DEF TypeOK, HistoryOK
<1>2. /\ ran[n] <= 1 + crashes
      /\ completed[n] = 0 /\ (\A d \in Caller : ~Flies(d, n)) => ran[n] <= crashes
    BY DEF SerialInv, RanExact
<1>3. \A d \in Caller : d # c => ~Flies(d, n)
    BY DEF Flies
<1>4. ASSUME completed'[n] = 0, \A d \in Caller : ~Flies(d, n)'
      PROVE  ran[n] <= crashes'
    <2>1. crashes' > crashes \/ (completed[n] = 0 /\ ~Flies(c, n))
        BY <1>4
    <2>2. CASE crashes' > crashes
        BY <1>1, <1>2, <2>2
    <2>3. CASE completed[n] = 0 /\ ~Flies(c, n)
        <3>1. \A d \in Caller : ~Flies(d, n)
            BY <1>3, <2>3
        <3>2. ran[n] <= crashes
            BY <1>2, <2>3, <3>1
        <3> QED
            BY <1>1, <3>2
    <2> QED
        BY <2>1, <2>2, <2>3
<1> QED
    BY <1>1, <1>2, <1>4

\* A call that has returned knows nothing and owes nothing.
LEMMA ReturnExact ==
    ASSUME TypeOK, NEW c \in Caller, Return(c)
    PROVE  /\ CallExact(c)' /\ \A n : ~Flies(c, n)'
           /\ \A d \in Caller : d # c => pc'[d] = pc[d] /\ ended'[d] = ended[d]
<1>1. pc'[c] = "idle" /\ ended'[c] = {}
    BY DEF TypeOK, CallOK, Return
<1>2. \A d \in Caller : d # c => pc'[d] = pc[d] /\ ended'[d] = ended[d]
    BY DEF TypeOK, CallOK, Return
<1> QED
    BY <1>1, <1>2 DEF CallExact, Flies

\* The row says the same of the same stage.
LEMMA ExactStill ==
    ASSUME UNCHANGED <<given, stage, completed>>, Exact(completed, stage)
    PROVE  Exact(completed, stage)'
    BY DEF given, Exact, Branches, Stages, Skips

\* The row is written anew.
LEMMA ExactWritten ==
    ASSUME UNCHANGED given, NEW done, NEW next, Exact(done, next),
           completed' = done, stage' = next
    PROVE  Exact(completed, stage)'
    BY DEF given, Exact, Branches, Stages, Skips

\* A serial call that ends with its stage recorded.
LEMMA CheckpointExactly ==
    ASSUME TypeOK, AtStage, SerialInv, serial, UNCHANGED <<given, ran, crashes>>,
           NEW c \in Caller, pc[c] \in {"loaded", "returned", "converge"},
           Checkpoint(c, Push(mine[c], {Stages(at[c])}), stored[c]),
           pc[c] = "loaded" => Skips(at[c])
    PROVE  SerialInv'
<1>0. GivenOK /\ mine[c] \in [Name -> Nat] /\ crashes \in Nat
    BY DEF TypeOK, CallOK, HistoryOK
<1>1. /\ at[c] \in Index /\ at[c] = stage /\ mine[c] = completed
      /\ \A d \in Caller : d # c => pc[d] = "idle"
      /\ Exact(mine[c], at[c]) /\ CallExact(c)
    BY DEF AtStage, SerialInv, CallExact
<1>2. \A b \in Branches(at[c]) : ~Skips(at[c]) => mine[c][b] # 0
    BY <1>0, <1>1, BranchFacts DEF CallExact, Pending
<1>3. /\ completed' = Push(mine[c], {Stages(at[c])}) /\ stage' = at[c] + 1
      /\ Return(c)
    BY DEF Checkpoint, Persist
<1>4. Exact(completed, stage)'
    <2>1. Exact(Push(mine[c], {Stages(at[c])}), at[c] + 1)
        BY <1>0, <1>1, <1>2, ExactNext
    <2> QED
        BY <1>3, <2>1, ExactWritten
<1>5. ASSUME NEW n \in Name, completed'[n] = 0
      PROVE  completed[n] = 0 /\ ~Flies(c, n)
    <2>1. /\ completed[n] \in Nat
          /\ completed[n] + (IF n \in {Stages(at[c])} THEN 1 ELSE 0) = 0
        BY <1>0, <1>1, <1>3, <1>5 DEF Push
    <2>2. completed[n] = 0 /\ n # Stages(at[c])
        BY <2>1
    <2> QED
        BY <2>2 DEF Flies
<1>6. RanExact'
    BY <1>0, <1>1, <1>5, RanStep
<1> QED
    BY <1>1, <1>3, <1>4, <1>6, ReturnExact, SerialStepOf

\* While no run is overtaken, its handlers follow one another.
LEMMA StepSerial ==
    ASSUME TypeOK, AtStage, SerialInv, serial, [Next]_vars PROVE SerialInv'
<1>0. /\ GivenOK /\ mine \in [Caller -> [Name -> Nat]] /\ crashes \in Nat
      /\ ran \in [Name -> Nat] /\ completed \in [Name -> Nat]
      /\ ended \in [Caller -> SUBSET Name] /\ pc \in [Caller -> Pcs]
      /\ at \in [Caller -> 1..Done]
    BY DEF TypeOK, RowOK, CallOK, HistoryOK
<1>1. ASSUME NEW c \in Caller, pc[c] # "idle"
      PROVE  /\ at[c] \in Index /\ at[c] = stage /\ mine[c] = completed
             /\ knows[c] = asked /\ \A d \in Caller : d # c => pc[d] = "idle"
             /\ Exact(completed, stage) /\ CallExact(c)
    BY <1>1 DEF AtStage, SerialInv, CallExact
\* Calls that end without a word to the row, those that died among them.
<1>2. ASSUME NEW c \in Caller, pc[c] # "idle", Return(c),
             UNCHANGED <<given, stage, completed, ran>>,
             \/ UNCHANGED crashes /\ pc[c] \notin {"returned", "branches"}
             \/ crashes' = crashes + 1
      PROVE  SerialInv'
    <2>1. Exact(completed, stage)'
        BY <1>1, <1>2, ExactStill
    <2>2. crashes' \in Nat /\ crashes' >= crashes
        BY <1>0, <1>2
    <2>3. \A n \in Name : crashes' > crashes \/ ~Flies(c, n)
        BY <1>0, <1>2 DEF Flies
    <2>4. RanExact'
        BY <1>1, <1>2, <2>2, <2>3, RanStep
    <2> QED
        BY <1>1, <1>2, <2>1, <2>4, ReturnExact, SerialStepOf
\* Steps in the middle of a call that leave the row and the handlers alone.
<1>3. ASSUME NEW c \in Caller, pc[c] # "idle",
             UNCHANGED <<given, stage, completed, ran, crashes>>,
             \A d \in Caller : d # c => pc'[d] = pc[d] /\ ended'[d] = ended[d],
             CallExact(c)', \A n \in Name : Flies(c, n) => Flies(c, n)'
      PROVE  SerialInv'
    <2>1. Exact(completed, stage)'
        BY <1>1, <1>3, ExactStill
    <2>2. RanExact'
        BY <1>0, <1>1, <1>3, RanStep
    <2> QED
        BY <1>1, <1>3, <2>1, <2>2, SerialStepOf
<1>4. ASSUME NEW c \in Caller, AdvanceRead(c) PROVE SerialInv'
    <2>1. /\ UNCHANGED <<given, stage, completed, asked, ended, ran, crashes>>
          /\ \A d \in Caller : pc[d] = "idle"
          /\ \A d \in Caller : d # c => pc'[d] = "idle"
          /\ pc'[c] = "loaded" /\ at'[c] = stage /\ mine'[c] = completed
          /\ knows'[c] = asked
        BY <1>0, <1>4 DEF AdvanceRead, MayCall, row, history, TypeOK, CallOK
    <2>2. ended[c] = {}
        BY <2>1 DEF SerialInv, CallExact
    <2>3. CallExact(c)'
        BY <2>1, <2>2 DEF CallExact
    <2>4. Exact(completed, stage)'
        BY <2>1, ExactStill DEF SerialInv
    <2>5. \A n \in Name : ~Flies(c, n)
        BY <2>1 DEF Flies
    <2>6. RanExact'
        BY <1>0, <2>1, <2>5, RanStep
    <2> QED
        BY <2>1, <2>3, <2>4, <2>6, SerialStepOf
<1>5. ASSUME NEW c \in Caller, SkipStage(c) PROVE SerialInv'
    <2> DEFINE done == Push(mine[c], {Stages(at[c])})
    <2>1. pc[c] = "loaded" /\ Skips(at[c]) /\ UNCHANGED <<given, ran, crashes>>
        BY <1>5 DEF SkipStage, history
    <2>2. CASE at[c] = NStages
        BY <1>5, <2>1, <2>2, CheckpointExactly DEF SkipStage
    <2>3. CASE at[c] # NStages
        <3>1. Exact(done, at[c] + 1) /\ \A n \in Name : done[n] = 0 => completed[n] = 0
            <4>1. at[c] \in Index /\ mine[c] = completed /\ Exact(mine[c], at[c])
                BY <1>1, <2>1
            <4>2. Exact(done, at[c] + 1)
                BY <1>0, <2>1, <4>1, ExactNext
            <4>3. \A n \in Name : done[n] = 0 => completed[n] = 0
                BY <1>0, <4>1 DEF Push
            <4> QED
                BY <4>2, <4>3
        <3> HIDE DEF done
        <3>2. /\ completed' = done /\ stage' = at[c] + 1 /\ asked' = knows[c]
              /\ at' = [at EXCEPT ![c] = @ + 1] /\ mine' = [mine EXCEPT ![c] = done]
              /\ UNCHANGED <<pc, knows, ended>>
            BY <1>5, <2>3 DEF SkipStage, Persist, done
        <3>3. at'[c] = stage' /\ mine'[c] = completed'
            BY <1>0, <3>2
        <3>4. CallExact(c)'
            BY <1>1, <2>1, <3>2, <3>3 DEF CallExact
        <3>5. Exact(completed, stage)'
            BY <2>1, <3>1, <3>2, ExactWritten
        <3>6. \A n \in Name : ~Flies(c, n)
            BY <2>1 DEF Flies
        <3>7. RanExact'
            BY <1>0, <1>1, <2>1, <3>1, <3>2, <3>6, RanStep
        <3> QED
            BY <1>1, <2>1, <3>2, <3>4, <3>5, <3>7, SerialStepOf
    <2> QED
        BY <2>2, <2>3
<1>6. ASSUME NEW c \in Caller, BlockRun(c) \/ HandlerThrows(c) \/ Crash(c)
      PROVE  SerialInv'
    BY <1>2, <1>6 DEF BlockRun, HandlerThrows, Crash, row, history
<1>7. ASSUME NEW c \in Caller, CallHandler(c) \/ StartBranches(c) PROVE SerialInv'
    <2>1. /\ pc[c] = "loaded" /\ ~Skips(at[c])
          /\ UNCHANGED <<given, row, at, mine, knows, ended, ran, crashes>>
          /\ \/ ~FansOut(at[c]) /\ pc' = [pc EXCEPT ![c] = "handler"]
             \/ Pending(c) = {} /\ pc' = [pc EXCEPT ![c] = "converge"]
             \/ pc' = [pc EXCEPT ![c] = "branches"]
        BY <1>7 DEF CallHandler, StartBranches, history
    <2>2. /\ \A d \in Caller : d # c => pc'[d] = pc[d]
          /\ \/ ~FansOut(at[c]) /\ pc'[c] = "handler"
             \/ Pending(c) = {} /\ pc'[c] = "converge"
             \/ pc'[c] = "branches"
        BY <1>0, <2>1
    <2>3. ended[c] = {}
        BY <1>1, <2>1 DEF CallExact
    <2>4. CallExact(c)'
        BY <1>1, <2>1, <2>2, <2>3
        DEF CallExact, given, row, Skips, FansOut, Pending, Branches
    <2>5. \A n \in Name : ~Flies(c, n)
        BY <2>1 DEF Flies
    <2> QED
        BY <1>3, <2>1, <2>2, <2>4, <2>5 DEF row
<1>8. ASSUME NEW c \in Caller, HandlerEnds(c) PROVE SerialInv'
    <2>1. /\ pc[c] = "handler" /\ pc' = [pc EXCEPT ![c] = "returned"]
          /\ ran' = [ran EXCEPT ![Stages(at[c])] = @ + 1]
          /\ UNCHANGED <<given, row, at, mine, knows, ended, crashes>>
        BY <1>8 DEF HandlerEnds
    <2>2. /\ pc'[c] = "returned" /\ \A d \in Caller : d # c => pc'[d] = pc[d]
        BY <1>0, <2>1
    <2>3. CallExact(c)'
        BY <1>1, <2>1, <2>2 DEF CallExact, given, row, Skips, FansOut
    <2>4. completed[Stages(at[c])] = 0 /\ Stages(at[c]) \in Name
        BY <1>0, <1>1, <2>1, BranchFacts DEF Exact, Index
    <2>5. \A d \in Caller : \A n \in Name : ~Flies(d, n)
        BY <1>1, <2>1 DEF Flies
    <2>6. Flies(c, Stages(at[c]))'
        BY <2>2 DEF Flies
    <2>7. ASSUME NEW n \in Name
          PROVE  /\ ran'[n] <= 1 + crashes'
                 /\ completed'[n] = 0 /\ (\A d \in Caller : ~Flies(d, n)')
                       => ran'[n] <= crashes'
        <3>1. ran[n] \in Nat /\ ran[n] <= 1 + crashes
              /\ (completed[n] = 0 => ran[n] <= crashes)
            BY <1>0, <2>5 DEF SerialInv, RanExact
        <3>2. CASE n = Stages(at[c])
            <4>1. Flies(c, n)'
                BY <2>1, <2>2, <3>2 DEF Flies, Stages
            <4>2. ran[n] <= crashes /\ ran'[n] = ran[n] + 1
                BY <1>0, <2>1, <2>4, <3>1, <3>2
            <4> QED
                BY <1>0, <2>1, <3>1, <4>1, <4>2
        <3>3. CASE n # Stages(at[c])
            BY <1>0, <2>1, <3>1, <3>3 DEF row
        <3> QED
            BY <3>2, <3>3
    <2>8. RanExact'
        BY <2>7 DEF RanExact
    <2>9. Exact(completed, stage)'
        BY <1>1, <2>1, ExactStill DEF row
    <2> QED
        BY <1>1, <2>1, <2>2, <2>3, <2>8, <2>9, SerialStepOf
<1>9. ASSUME NEW c \in Caller, RecordStage(c) \/ Converge(c) PROVE SerialInv'
    BY <1>9, CheckpointExactly DEF RecordStage, Converge, history
<1>10. ASSUME NEW c \in Caller, NEW b \in Name, BranchEnds(c, b) PROVE SerialInv'
    <2>1. /\ pc[c] = "branches" /\ b \in Pending(c) /\ b \notin ended[c]
          /\ ended' = [ended EXCEPT ![c] = @ \cup {b}]
          /\ ran' = [ran EXCEPT ![b] = @ + 1]
          /\ UNCHANGED <<given, row, pc, at, mine, knows, crashes>>
        BY <1>10 DEF BranchEnds
    <2>2. /\ ended'[c] = ended[c] \cup {b}
          /\ \A d \in Caller : d # c => ended'[d] = ended[d]
        BY <1>0, <2>1
    <2>3. CallExact(c)'
        BY <1>1, <2>1, <2>2
        DEF CallExact, given, row, Skips, FansOut, Pending, Branches
    <2>4. completed[b] = 0
        BY <1>1, <2>1 DEF Pending
    <2>5. ASSUME NEW n \in Name
          PROVE  /\ ran'[n] <= 1 + crashes'
                 /\ completed'[n] = 0 /\ (\A d \in Caller : ~Flies(d, n)')
                       => ran'[n] <= crashes'
        <3>1. /\ ran[n] \in Nat /\ ran[n] <= 1 + crashes
              /\ completed[n] = 0 /\ (\A d \in Caller : ~Flies(d, n))
                    => ran[n] <= crashes
            BY <1>0 DEF SerialInv, RanExact
        <3>2. \A d \in Caller : Flies(d, n) => d = c /\ n \in ended[c]
            BY <1>1, <2>1 DEF Flies
        <3>3. n = b \/ n \in ended[c] => Flies(c, n)'
            BY <2>1, <2>2 DEF Flies
        <3>4. CASE n = b
            <4>1. ran[n] <= crashes /\ ran'[n] = ran[n] + 1
                BY <1>0, <2>1, <2>4, <3>1, <3>2, <3>4
            <4> QED
                BY <1>0, <2>1, <3>1, <3>3, <3>4, <4>1
        <3>5. CASE n # b
            <4>1. ran'[n] = ran[n] /\ crashes' = crashes /\ completed'[n] = completed[n]
                BY <1>0, <2>1, <3>5 DEF row
            <4> QED
                BY <3>1, <3>2, <3>3, <4>1
        <3> QED
            BY <3>4, <3>5
    <2>6. RanExact'
        BY <2>5 DEF RanExact
    <2>7. Exact(completed, stage)'
        BY <1>1, <2>1, ExactStill DEF row
    <2> QED
        BY <1>1, <2>1, <2>2, <2>3, <2>6, <2>7, SerialStepOf
<1>11. ASSUME NEW c \in Caller, NEW b \in Name, BranchThrows(c, b) PROVE SerialInv'
    <2>1. /\ pc[c] = "branches"
          /\ UNCHANGED <<given, row, pc, at, mine, knows, ended, ran, crashes>>
        BY <1>11 DEF BranchThrows
    <2>2. CallExact(c)'
        BY <1>1, <2>1 DEF CallExact, given, row, Skips, FansOut, Pending, Branches
    <2>3. \A n \in Name : Flies(c, n) => Flies(c, n)'
        BY <2>1 DEF Flies
    <2> QED
        BY <1>3, <2>1, <2>2, <2>3 DEF row
<1>12. ASSUME NEW c \in Caller, SettleBranches(c) PROVE SerialInv'
    <2>1. /\ pc[c] = "branches" /\ Pending(c) = ended[c] \cup failed[c]
          /\ completed' = Settled(c) /\ stage' = at[c] /\ asked' = knows[c]
          /\ UNCHANGED <<given, ran, crashes>>
        BY <1>12 DEF SettleBranches, Persist, history
    <2>2. /\ at[c] \in Index /\ Exact(mine[c], at[c]) /\ mine[c] = completed
          /\ ~Skips(at[c]) /\ ended[c] \subseteq Pending(c)
        BY <1>1, <2>1 DEF CallExact
    <2>3. Exact(completed, stage)'
        <3>1. \A b \in ended[c] : b \in Branches(at[c]) /\ mine[c][b] = 0
            BY <2>2 DEF Pending
        <3>2. Exact(Settled(c), at[c])
            BY <1>0, <2>2, <3>1, ExactSettled DEF Settled
        <3> QED
            BY <2>1, <3>2, ExactWritten
    <2>4. \A n \in Name : /\ Settled(c)[n] \in Nat
                          /\ Settled(c)[n] = 0 => completed[n] = 0 /\ n \notin ended[c]
        BY <1>0, <2>2 DEF Settled, Push
    <2>5. \A n \in Name : completed'[n] = 0 => completed[n] = 0 /\ ~Flies(c, n)
        BY <2>1, <2>4 DEF Flies
    <2>6. RanExact'
        BY <1>0, <1>1, <2>1, <2>5, RanStep
    <2>7. CASE failed[c] # {}
        BY <1>1, <1>12, <2>1, <2>3, <2>6, <2>7, ReturnExact, SerialStepOf
        DEF SettleBranches
    <2>8. CASE failed[c] = {}
        <3>1. /\ pc' = [pc EXCEPT ![c] = "converge"]
              /\ mine' = [mine EXCEPT ![c] = Settled(c)]
              /\ UNCHANGED <<at, knows, ended>>
            BY <1>12, <2>8 DEF SettleBranches
        <3>2. /\ pc'[c] = "converge" /\ mine'[c] = Settled(c)
              /\ \A d \in Caller : d # c => pc'[d] = pc[d]
            BY <1>0, <3>1
        <3>3. \A b \in Branches(at[c]) : b \in Name /\ Settled(c)[b] # 0
            <4>1. ASSUME NEW b \in Branches(at[c]) PROVE b \in Name /\ Settled(c)[b] # 0
                <5>1. b \in Name
                    BY <1>0, <2>2, BranchFacts
                <5>2. mine[c][b] # 0 \/ b \in ended[c]
                    BY <2>1, <2>8 DEF Pending
                <5> QED
                    BY <2>2, <2>4, <5>1, <5>2
            <4> QED
                BY <4>1
        <3>4. Pending(c)' = {}
            BY <2>1, <3>1, <3>2, <3>3 DEF Pending, Branches, given
        <3>5. ~Skips(at[c])'
            BY <2>1, <2>2, <3>1 DEF Skips, given
        <3>6. CallExact(c)'
            BY <1>1, <2>1, <3>1, <3>2, <3>4, <3>5 DEF CallExact
        <3> QED
            BY <1>1, <2>1, <2>3, <2>6, <3>1, <3>2, <3>6, SerialStepOf
    <2> QED
        BY <2>7, <2>8
<1>13. ASSUME NEW c \in Caller, PauseForApproval(c) \/ Resume(c) PROVE SerialInv'
    <2>1. /\ UNCHANGED <<given, stage, completed, pc, ended, ran, crashes>>
          /\ \A d \in Caller : pc[d] = "idle"
        BY <1>13 DEF PauseForApproval, Resume, MayCall, call, history
    <2>2. CallExact(c)'
        BY <2>1 DEF SerialInv, CallExact
    <2>3. Exact(completed, stage)'
        BY <2>1, ExactStill DEF SerialInv
    <2>4. \A n \in Name : ~Flies(c, n)
        BY <2>1 DEF Flies
    <2>5. RanExact'
        BY <1>0, <2>1, <2>4, RanStep
    <2> QED
        BY <2>1, <2>2, <2>3, <2>5, SerialStepOf
<1>14. CASE UNCHANGED vars
    <2>1. UNCHANGED <<given, row, pc, at, mine, knows, ended, ran, crashes>>
        BY <1>14 DEF vars, call, history
    <2>2. Exact(completed, stage)'
        BY <2>1, ExactStill DEF SerialInv, row
    <2>3. \A c \in Caller : CallExact(c)'
        BY <2>1
        DEF SerialInv, CallExact, given, row, Skips, FansOut, Pending, Branches
    <2>4. RanExact'
        BY <2>1 DEF SerialInv, RanExact, Flies, row, Stages
    <2> QED
        BY <2>2, <2>3, <2>4 DEF SerialInv
<1> QED
    BY <1>4, <1>5, <1>6, <1>7, <1>8, <1>9, <1>10, <1>11, <1>12, <1>13, <1>14
    DEF Next, AdvanceStep

\* It holds at the start.
LEMMA InitSerial == Init => SerialInv
<1> SUFFICES ASSUME Init PROVE SerialInv
    OBVIOUS
<1>1. TypeOK /\ \A n \in Name : None[n] = 0
    BY InitType DEF None
<1>2. \A i \in Index : Stages(i) \in Name /\ Branches(i) \subseteq Name
    BY <1>1, BranchFacts DEF TypeOK
<1>3. Exact(None, 1)
    BY <1>1, <1>2 DEF Exact, Index
<1>4. \A c \in Caller : CallExact(c)
    BY DEF Init, CallExact
<1>5. RanExact
    BY <1>1 DEF Init, RanExact
<1> QED
    BY <1>3, <1>4, <1>5 DEF Init, SerialInv

\* The invariant of runs that nobody overtakes.
LEMMA SerialAlways == Spec => [](TypeOK /\ AtStage /\ SerialInv)
<1>1. SerialInv /\ TypeOK /\ AtStage /\ [Next]_vars => SerialInv'
    <2> SUFFICES ASSUME SerialInv, TypeOK, AtStage, [Next]_vars PROVE SerialInv'
        OBVIOUS
    <2>1. CASE serial
        BY <2>1, StepSerial
    <2>2. CASE ~serial
        <3>1. UNCHANGED serial
            BY ZenonT(40) DEF Next, AdvanceStep, AdvanceRead, SkipStage, BlockRun, CallHandler,
               HandlerEnds, HandlerThrows, RecordStage, StartBranches, SettleBranches,
               Converge, BranchEnds, BranchThrows, PauseForApproval, Resume, Crash,
               vars, given
        <3> QED
            BY <2>2, <3>1 DEF SerialInv
    <2> QED
        BY <2>1, <2>2
<1> QED
    BY InitType, InitSerial, StepType, <1>1, PTL DEF Spec

\* With one call at a time the checkpoint is exact, and a handler that
\* succeeded is repeated only because a process died before it was recorded:
\* no retry of a fan-out, no pause and no resume does either.
THEOREM ProgressIsExact == Spec => []ProgressExact
<1>1. SerialInv => CheckpointExact
    BY DEF SerialInv, Exact, CheckpointExact
<1>2. SerialInv => RepeatedOnlyAfterDeath
    BY DEF SerialInv, RanExact, RepeatedOnlyAfterDeath
<1>3. OutputsKept /\ SerialInv => ProgressExact
    BY <1>1, <1>2 DEF ProgressExact
<1> QED
    BY OutputsAreKept, SerialAlways, <1>3, PTL

\* A request for approval survives every later checkpoint and resume: the one
\* call of a serial run knows of it before it writes the state back.
THEOREM ApprovalIsRemembered == Spec => ApprovalRemembered
<1>1. ASSUME SerialInv, [Next]_vars PROVE [serial /\ asked => asked']_vars
    <2>1. ASSUME NEW c \in Caller, pc[c] # "idle", serial
          PROVE  knows[c] = asked
        BY <1>1, <2>1 DEF SerialInv, CallExact
    <2>2. asked' = asked \/ asked' = TRUE
          \/ \E c \in Caller : pc[c] # "idle" /\ asked' = knows[c]
        BY <1>1, ZenonT(40)
        DEF Next, AdvanceStep, AdvanceRead, SkipStage, BlockRun, CallHandler,
            HandlerEnds, HandlerThrows, RecordStage, StartBranches, SettleBranches,
            Converge, BranchEnds, BranchThrows, PauseForApproval, Resume, Crash,
            Checkpoint, Persist, vars, row
    <2> QED
        BY <2>1, <2>2
<1> QED
    BY <1>1, SerialAlways, PTL DEF Spec, ApprovalRemembered
=============================================================================

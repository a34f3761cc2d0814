---------------------------- MODULE HandlerProofs ---------------------------
(***************************************************************************)
(* What the handlers of the control plane promise of the rows they write   *)
(* in several statements, for any requests, replicas and deaths: tasks,    *)
(* delivery dispatches, tenants, deployments, task cards, and what lets    *)
(* people in: keys, sessions, tickets and logins.  Then what calls them    *)
(* and what they call: the MCP server and the browser, commands and        *)
(* requests to other servers.  Each component has an inductive invariant   *)
(* of its own.                                                             *)
(***************************************************************************)
EXTENDS Tasks, DeliveryDispatch, Tenancy, Deployments, TaskCards, ApiKeys, Sessions,
        OidcLogin, Commands, Outbound, McpServer, Console, LiveView,
        FiniteSetTheorems, SequenceTheorems, TLAPS

-----------------------------------------------------------------------------
(* Tasks.  That no acknowledged move is lost rests on the version: a write *)
(* that still finds the version it read finds the status it read as well.  *)
(* That nothing waits for itself rests on ids being fresh: only the edges  *)
(* of a creation lead away from the task it creates.                       *)

Existing == {t \in TaskId : Exists(t)}

\* A write under way has read a version the row had; while the row has it
\* still, it has the status too.
WriteInv ==
    \A w \in Writer : write[w] # NoWrite =>
        /\ write[w].task \in TaskId
        /\ Exists(write[w].task)
        /\ write[w].version <= row[write[w].task].version
        /\ VersionHolds(w) /\ IsMove(w) =>
              row[write[w].task].status = write[w].from

\* No task was created after all those that exist.
BornInv ==
    \A t \in TaskId : Exists(t) => born[t] <= Cardinality(Existing)

TasksInv == TasksTypeOK /\ WriteInv /\ NoLostMove /\ BornInv /\ EdgesLeadBack

\* The life cycle leads from task states to task states.
LEMMA FlowStates ==
    ASSUME NEW s \in TaskState, NEW to, CanTransition(s, to)
    PROVE  to \in TaskState
BY DEF CanTransition, TaskState, FLOW

\* A row that is not there has no status of the life cycle.
LEMMA AbsentIsNoState == "absent" \notin TaskState
BY DEF TaskState, FLOW

\* The empty table, and one task of an earlier life, satisfy the invariant.
LEMMA TasksInitInv == TasksInit => TasksInv
<1> SUFFICES ASSUME TasksInit PROVE TasksInv
    OBVIOUS
<1> USE TaskAssumption, AbsentIsNoState
<1>1. edges = {} /\ write = [w \in Writer |-> NoWrite]
    BY DEF TasksInit
<1>2. WriteInv /\ EdgesLeadBack
    BY <1>1 DEF WriteInv, EdgesLeadBack
<1>3. NoLostMove
    BY DEF TasksInit, NoLostMove
<1>4. IsFiniteSet(Existing)
    BY FS_Subset DEF Existing
<1>5. CASE row = [t \in TaskId |-> Unborn] /\ born = [t \in TaskId |-> 0]
    <2>1. TasksTypeOK
        BY <1>1, <1>5 DEF TasksInit, TasksTypeOK, Unborn, NoWrite
    <2>2. BornInv
        BY <1>5 DEF BornInv, Exists, Unborn
    <2> QED
        BY <1>2, <1>3, <2>1, <2>2 DEF TasksInv
<1>6. ASSUME NEW t \in TaskId, NEW s \in Seed,
             row = [u \in TaskId |-> IF u = t
                      THEN [status |-> s.status, version |-> s.version,
                            receipt |-> FALSE]
                      ELSE Unborn],
             born = [u \in TaskId |-> IF u = t THEN 1 ELSE 0]
      PROVE  TasksInv
    <2>1. s.status \in TaskState /\ s.version \in Nat
        OBVIOUS
    <2>2. TasksTypeOK
        <3>1. row \in [TaskId -> [status : TaskState \cup {"absent"},
                                  version : Nat, receipt : BOOLEAN]]
            BY <1>6, <2>1 DEF Unborn
        <3>2. ledger = [u \in TaskId |-> row[u].status]
            BY DEF TasksInit
        <3>3. ledger \in [TaskId -> TaskState \cup {"absent", "broken"}]
            BY <3>1, <3>2
        <3> QED
            BY <1>1, <1>6, <3>1, <3>3 DEF TasksTypeOK, NoWrite
    <2>3. Existing = {t}
        BY <1>6, <2>1 DEF Existing, Exists, Unborn
    <2>4. BornInv
        <3>1. Cardinality(Existing) = 1
            BY <2>3, FS_Singleton
        <3> QED
            BY <1>6, <3>1 DEF BornInv, Exists, Unborn
    <2> QED
        BY <1>2, <1>3, <2>2, <2>4 DEF TasksInv
<1> QED
    BY <1>5, <1>6 DEF TasksInit

\* Steps that create no task keep what is about the order of creation.
LEMMA SameTasks ==
    ASSUME TasksTypeOK, BornInv, EdgesLeadBack, UNCHANGED <<edges, born>>,
           \A t \in TaskId : Exists(t)' <=> Exists(t)
    PROVE  BornInv' /\ EdgesLeadBack'
<1>1. Existing' = Existing
    BY DEF Existing
<1>2. BornInv'
    BY <1>1 DEF BornInv
<1>3. ASSUME NEW e \in edges'
      PROVE  Exists(e[1])' /\ Exists(e[2])' /\ CreatedBefore(e[2], e[1])'
    <2>1. e \in edges /\ e[1] \in TaskId /\ e[2] \in TaskId
        BY <1>3 DEF TasksTypeOK
    <2> QED
        BY <2>1 DEF EdgesLeadBack, CreatedBefore
<1> QED
    BY <1>2, <1>3 DEF EdgesLeadBack

\* A new task is younger than all that exist, and nothing waits for it yet.
LEMMA CreateKeeps ==
    ASSUME TasksInv, NEW t \in TaskId, NEW deps \in SUBSET TaskId, CreateTask(t, deps)
    PROVE  TasksInv'
<1> USE TaskAssumption DEF TasksInv
<1>1. IsFiniteSet(Existing) /\ t \notin Existing
    BY FS_Subset DEF Existing, CreateTask
<1>2. /\ row' = [row EXCEPT ![t].status = "draft", ![t].version = 1]
      /\ edges' = edges \cup {<<t, d>> : d \in deps}
      /\ born' = [born EXCEPT ![t] = Cardinality(Existing) + 1]
      /\ ledger' = [ledger EXCEPT ![t] = "draft"]
      /\ write' = write
    BY DEF CreateTask, Existing
<1>3. Cardinality(Existing) \in Nat
    BY <1>1, FS_CardinalityType
<1>4. "draft" \in TaskState
    BY DEF TaskState, FLOW
<1>5. TasksTypeOK'
    <2>1. row' \in [TaskId -> [status : TaskState \cup {"absent"},
                               version : Nat, receipt : BOOLEAN]]
        <3>1. row[t] \in [status : TaskState \cup {"absent"}, version : Nat,
                          receipt : BOOLEAN]
            BY DEF TasksTypeOK
        <3>2. [row[t] EXCEPT !.status = "draft", !.version = 1]
                \in [status : TaskState \cup {"absent"}, version : Nat,
                     receipt : BOOLEAN]
            BY <1>4, <3>1
        <3>3. row' = [row EXCEPT ![t] = [row[t] EXCEPT !.status = "draft",
                                                       !.version = 1]]
            BY <1>2 DEF TasksTypeOK
        <3> QED
            BY <3>2, <3>3 DEF TasksTypeOK
    <2>2. edges' \subseteq TaskId \X TaskId
        BY <1>2 DEF TasksTypeOK
    <2>3. born' \in [TaskId -> Nat]
        BY <1>2, <1>3 DEF TasksTypeOK
    <2>4. ledger' \in [TaskId -> TaskState \cup {"absent", "broken"}]
        BY <1>2, <1>4 DEF TasksTypeOK
    <2> QED
        BY <1>2, <2>1, <2>2, <2>3, <2>4 DEF TasksTypeOK
<1>6. \A u \in TaskId : Exists(u)' <=> Exists(u) \/ u = t
    BY <1>2 DEF Exists, TasksTypeOK
<1>7. Existing' = Existing \cup {t}
    BY <1>6 DEF Existing
<1>8. Cardinality(Existing') = Cardinality(Existing) + 1
    BY <1>1, <1>7, FS_AddElement
<1>9. BornInv'
    <2>1. ASSUME NEW u \in TaskId, Exists(u)'
          PROVE  born'[u] <= Cardinality(Existing) + 1
        <3>1. CASE u = t
            BY <1>2, <1>3, <3>1 DEF TasksTypeOK
        <3>2. CASE u # t
            <4>1. born'[u] = born[u] /\ Exists(u)
                BY <1>2, <1>6, <2>1, <3>2 DEF TasksTypeOK
            <4>2. born[u] <= Cardinality(Existing) /\ born[u] \in Nat
                BY <4>1 DEF BornInv, TasksTypeOK
            <4> QED
                BY <1>3, <4>1, <4>2
        <3> QED
            BY <3>1, <3>2
    <2> QED
        BY <1>8, <2>1 DEF BornInv
<1>10. NoLostMove'
    BY <1>2 DEF NoLostMove, TasksTypeOK
<1>11. WriteInv'
    <2>1. ASSUME NEW w \in Writer, write'[w] # NoWrite
          PROVE  write[w].task \in TaskId /\ write[w].task # t /\ Exists(write[w].task)
        BY <1>2, <2>1 DEF WriteInv, CreateTask
    <2> QED
        BY <1>2, <1>6, <2>1 DEF WriteInv, VersionHolds, IsMove, TasksTypeOK
<1>12. EdgesLeadBack'
    <2>1. ASSUME NEW e \in edges
          PROVE  Exists(e[1])' /\ Exists(e[2])' /\ CreatedBefore(e[2], e[1])'
        <3>1. /\ e[1] \in TaskId /\ e[2] \in TaskId
              /\ Exists(e[1]) /\ Exists(e[2]) /\ born[e[2]] < born[e[1]]
            BY DEF TasksTypeOK, EdgesLeadBack, CreatedBefore
        <3>2. e[1] # t /\ e[2] # t
            BY <3>1 DEF CreateTask
        <3> QED
            BY <1>2, <1>6, <3>1, <3>2 DEF CreatedBefore, TasksTypeOK
    <2>2. ASSUME NEW d \in deps
          PROVE  Exists(t)' /\ Exists(d)' /\ CreatedBefore(d, t)'
        <3>1. d \in TaskId /\ Exists(d) /\ d # t
            BY DEF CreateTask, DependencyAccepted
        <3>2. born[d] <= Cardinality(Existing) /\ born[d] \in Nat
            BY <3>1 DEF BornInv, TasksTypeOK
        <3> QED
            BY <1>2, <1>3, <1>6, <3>1, <3>2 DEF CreatedBefore, TasksTypeOK
    <2> QED
        BY <1>2, <2>1, <2>2 DEF EdgesLeadBack
<1> QED
    BY <1>5, <1>9, <1>10, <1>11, <1>12

\* A write commits only while the row is as it was read, and moves on from there.
LEMMA CommitKeeps ==
    ASSUME TasksInv, NEW w \in Writer, WriteCommits(w)
    PROVE  TasksInv'
<1> USE DEF TasksInv
<1> DEFINE t == write[w].task
<1>1. t \in TaskId /\ Exists(t) /\ VersionHolds(w)
    BY DEF WriteCommits, WriteInv
<1>2. /\ row' = [row EXCEPT ![t].status = IF IsMove(w) THEN write[w].to ELSE @,
                            ![t].version = @ + 1]
      /\ ledger' = [ledger EXCEPT ![t] =
                      IF ~IsMove(w) THEN @
                      ELSE IF @ = write[w].from THEN write[w].to ELSE "broken"]
      /\ write' = [write EXCEPT ![w] = NoWrite]
      /\ edges' = edges /\ born' = born
    BY DEF WriteCommits
<1>3. IsMove(w) => row[t].status = write[w].from /\ write[w].to \in TaskState
    BY <1>1 DEF WriteCommits, WriteInv, IsMove, TasksTypeOK
<1>4. TasksTypeOK'
    <2>1. row' \in [TaskId -> [status : TaskState \cup {"absent"},
                               version : Nat, receipt : BOOLEAN]]
        BY <1>1, <1>2, <1>3 DEF TasksTypeOK
    <2>2. ledger' \in [TaskId -> TaskState \cup {"absent", "broken"}]
        BY <1>1, <1>2, <1>3 DEF TasksTypeOK
    <2>3. write' \in [Writer -> [task : TaskId \cup {NoTask},
                             from : TaskState \cup {"absent"},
                             to : TaskState \cup {"absent"}, version : Nat]]
        BY <1>2 DEF TasksTypeOK, NoWrite
    <2> QED
        BY <1>2, <2>1, <2>2, <2>3 DEF TasksTypeOK
<1>5. \A u \in TaskId : Exists(u)' <=> Exists(u)
    BY <1>1, <1>2, <1>3, AbsentIsNoState DEF Exists, TasksTypeOK
<1>6. BornInv' /\ EdgesLeadBack'
    BY <1>2, <1>5, SameTasks
<1>7. NoLostMove'
    BY <1>1, <1>2, <1>3 DEF NoLostMove, TasksTypeOK
<1>8. WriteInv'
    <2>1. ASSUME NEW v \in Writer, write'[v] # NoWrite
          PROVE  /\ write'[v].task \in TaskId
                 /\ Exists(write[v].task)'
                 /\ write'[v].version <= row'[write'[v].task].version
                 /\ VersionHolds(v)' /\ IsMove(v)' =>
                       row'[write'[v].task].status = write'[v].from
        <3>1. v # w /\ write'[v] = write[v] /\ write[v] # NoWrite
            BY <1>2, <2>1 DEF TasksTypeOK
        <3>2. /\ write[v].task \in TaskId /\ Exists(write[v].task)
              /\ write[v].version <= row[write[v].task].version
              /\ VersionHolds(v) /\ IsMove(v) =>
                    row[write[v].task].status = write[v].from
            BY <3>1 DEF WriteInv
        <3>3. write[v].version \in Nat /\ row[write[v].task].version \in Nat
            BY <3>2 DEF TasksTypeOK
        <3>4. CASE write[v].task = t
            <4>1. row'[t].version = row[t].version + 1
                BY <1>1, <1>2 DEF TasksTypeOK
            <4>2. ~VersionHolds(v)'
                BY <3>1, <3>2, <3>3, <3>4, <4>1 DEF VersionHolds
            <4> QED
                BY <1>5, <3>1, <3>2, <3>3, <3>4, <4>1, <4>2
        <3>5. CASE write[v].task # t
            <4>1. row'[write[v].task] = row[write[v].task]
                BY <1>2, <3>2, <3>5 DEF TasksTypeOK
            <4> QED
                BY <1>5, <3>1, <3>2, <4>1 DEF VersionHolds, IsMove
        <3> QED
            BY <3>4, <3>5
    <2> QED
        BY <2>1 DEF WriteInv
<1> QED
    BY <1>4, <1>6, <1>7, <1>8

\* Every step keeps the invariant.
LEMMA TasksStepInv == TasksInv /\ [TasksNext]_tskVars => TasksInv'
<1> SUFFICES ASSUME TasksInv, [TasksNext]_tskVars PROVE TasksInv'
    OBVIOUS
<1> USE TaskAssumption, AbsentIsNoState
<1>1. ASSUME NEW t \in TaskId, NEW deps \in SUBSET TaskId, CreateTask(t, deps)
      PROVE  TasksInv'
    BY <1>1, CreateKeeps
<1>2. ASSUME NEW t \in TaskId, IssueReceipt(t)
      PROVE  TasksInv'
    <2>1. \A u \in TaskId : /\ row'[u].status = row[u].status
                            /\ row'[u].version = row[u].version
        BY <1>2 DEF IssueReceipt, TasksInv, TasksTypeOK
    <2>2. TasksTypeOK'
        BY <1>2, ZenonT(40) DEF IssueReceipt, TasksInv, TasksTypeOK
    <2>3. BornInv' /\ EdgesLeadBack'
        BY <1>2, <2>1, SameTasks DEF IssueReceipt, TasksInv, Exists
    <2>4. NoLostMove' /\ WriteInv'
        BY <1>2, <2>1 DEF IssueReceipt, TasksInv, NoLostMove, WriteInv, Exists,
           VersionHolds, IsMove
    <2> QED
        BY <2>2, <2>3, <2>4 DEF TasksInv
<1>3. ASSUME NEW w \in Writer, NEW t \in TaskId, ReadForAssign(w, t)
      PROVE  TasksInv'
    <2>1. write' = [write EXCEPT ![w] = [task |-> t, from |-> "absent",
                                         to |-> "absent",
                                         version |-> row[t].version]]
        BY <1>3 DEF ReadForAssign
    <2>2. TasksTypeOK'
        <3>1. row[t].version \in Nat
            BY DEF TasksInv, TasksTypeOK
        <3> QED
            BY <1>3, <2>1, <3>1 DEF ReadForAssign, TasksInv, TasksTypeOK
    <2>3. BornInv' /\ EdgesLeadBack'
        BY <1>3, SameTasks DEF ReadForAssign, TasksInv, Exists
    <2>4. NoLostMove'
        BY <1>3 DEF ReadForAssign, TasksInv, NoLostMove
    <2>5. WriteInv'
        BY <1>3, <2>1 DEF ReadForAssign, TasksInv, WriteInv, Exists, VersionHolds,
           IsMove, NoWrite, TasksTypeOK
    <2> QED
        BY <2>2, <2>3, <2>4, <2>5 DEF TasksInv
<1>4. ASSUME NEW w \in Writer, NEW t \in TaskId, NEW to \in TaskState,
             ReadForTransition(w, t, to)
      PROVE  TasksInv'
    <2>1. write' = [write EXCEPT ![w] = [task |-> t, from |-> row[t].status,
                                         to |-> to, version |-> row[t].version]]
        BY <1>4 DEF ReadForTransition
    <2>2. TasksTypeOK'
        BY <1>4, <2>1 DEF ReadForTransition, TasksInv, TasksTypeOK
    <2>3. BornInv' /\ EdgesLeadBack'
        BY <1>4, SameTasks DEF ReadForTransition, TasksInv, Exists
    <2>4. NoLostMove'
        BY <1>4 DEF ReadForTransition, TasksInv, NoLostMove
    <2>5. WriteInv'
        BY <1>4, <2>1 DEF ReadForTransition, TasksInv, WriteInv, Exists, VersionHolds,
           IsMove, TasksTypeOK
    <2> QED
        BY <2>2, <2>3, <2>4, <2>5 DEF TasksInv
<1>5. ASSUME NEW w \in Writer, WriteCommits(w)
      PROVE  TasksInv'
    BY <1>5, CommitKeeps
<1>6. ASSUME NEW w \in Writer, WriteConflicts(w)
      PROVE  TasksInv'
    <2>1. TasksTypeOK'
        BY <1>6 DEF WriteConflicts, TasksInv, TasksTypeOK, NoWrite
    <2>2. BornInv' /\ EdgesLeadBack'
        BY <1>6, SameTasks DEF WriteConflicts, TasksInv, Exists
    <2>3. NoLostMove'
        BY <1>6 DEF WriteConflicts, TasksInv, NoLostMove
    <2>4. WriteInv'
        BY <1>6 DEF WriteConflicts, TasksInv, WriteInv, Exists, VersionHolds, IsMove,
           TasksTypeOK
    <2> QED
        BY <2>1, <2>2, <2>3, <2>4 DEF TasksInv
<1>7. CASE UNCHANGED tskVars
    <2>1. BornInv' /\ EdgesLeadBack'
        BY <1>7, SameTasks DEF TasksInv, tskVars, Exists
    <2> QED
        BY <1>7, <2>1 DEF TasksInv, tskVars, TasksTypeOK, NoLostMove, WriteInv, Exists,
           VersionHolds, IsMove
<1> QED
    BY <1>1, <1>2, <1>3, <1>4, <1>5, <1>6, <1>7 DEF TasksNext

\* So it holds for ever.
THEOREM TasksInductive == TasksSpec => []TasksInv
<1> QED
    BY TasksInitInv, TasksStepInv, PTL DEF TasksSpec

\* Whatever tasks there are and however many replicas write at once, the moves
\* the service acknowledged for a task form one path that ends in its status,
\* and every dependency leads to an older task, so that none closes a cycle.
THEOREM TasksAreConsistent == TasksSpec => []TasksConsistent
<1>1. TasksInv => TasksConsistent
    BY DEF TasksInv, TasksConsistent
<1> QED
    BY <1>1, TasksInductive, PTL

-----------------------------------------------------------------------------
(* Delivery dispatch.  A key names one request, the one that stored it,    *)
(* and for good; only that request starts an execution under the key, and  *)
(* everybody is answered it.                                               *)

Steps == {"new", "put", "agent", "insert", "enqueue", "answered", "failed", "died"}
Making == {"agent", "insert", "enqueue"}

AskTypeOK ==
    /\ engineer \in BOOLEAN
    /\ ask \in [Submission -> [pc : Steps, key : Key \cup {NoKey}]]

\* A key is answered with a request that came past it, whatever became of it.
KeyInv ==
    \A k \in Key : keyOf[k] # NoRun =>
        /\ ask[keyOf[k]].key = k
        /\ \/ ask[keyOf[k]].pc \in Making \cup {"failed", "died"}
           \/ (ask[keyOf[k]].pc = "answered" /\ keyOf[k] \in queued)

\* A request that makes, or made, an execution owns its key.
OwnerInv ==
    \A r \in Submission :
        /\ ask[r].pc = "new" => ask[r].key = NoKey
        /\ ask[r].pc = "put" => ask[r].key \in Key
        /\ ask[r].pc \in {"new", "put"} \cup Making => answer[r] = NoRun
        /\ r \in runs => ask[r].pc \notin {"new", "put", "agent", "insert"}
        /\ ask[r].pc = "enqueue" => r \in runs
        /\ ask[r].pc \in Making \/ r \in runs =>
              ask[r].key = NoKey \/ keyOf[ask[r].key] = r

\* Whoever was answered was answered what its key names, or its own run.
AnswerInv ==
    \A r \in Submission : answer[r] # NoRun =>
        /\ ask[r].pc = "answered"
        /\ IF ask[r].key = NoKey THEN answer[r] = r /\ r \in queued
           ELSE answer[r] = keyOf[ask[r].key]

AskInv == DispatchTypeOK /\ AskTypeOK /\ KeyInv /\ OwnerInv /\ AnswerInv

\* Nobody has asked yet.
LEMMA AskInitInv == DispatchInit => AskInv
BY DispatchAssumption
   DEF DispatchInit, AskInv, DispatchTypeOK, AskTypeOK, KeyInv, OwnerInv, AnswerInv,
       Steps, Making

\* The invariant says that answers agree.
LEMMA AskInvAgrees == AskInv => AnswersAgree
<1> SUFFICES ASSUME AskInv PROVE AnswersAgree
    OBVIOUS
<1> USE DispatchAssumption
<1>1. ASSUME NEW r \in Submission, NEW q \in Submission,
             ask[r].key = ask[q].key, ask[r].key # NoKey
      PROVE  /\ {answer[r], answer[q]} \subseteq {keyOf[ask[r].key], NoRun}
             /\ {r, q} \subseteq runs => r = q
    <2>1. {answer[r], answer[q]} \subseteq {keyOf[ask[r].key], NoRun}
        BY <1>1 DEF AskInv, AnswerInv
    <2>2. ASSUME r \in runs, q \in runs PROVE r = q
        BY <1>1, <2>2 DEF AskInv, OwnerInv
    <2> QED
        BY <2>1, <2>2
<1>2. ASSUME NEW r \in Submission, answer[r] # NoRun
      PROVE  answer[r] \in queued \/ ask[answer[r]].pc \notin {"new", "answered"}
    <2>1. CASE ask[r].key = NoKey
        BY <1>2, <2>1 DEF AskInv, AnswerInv
    <2>2. CASE ask[r].key # NoKey
        <3>1. ask[r].key \in Key /\ answer[r] = keyOf[ask[r].key]
            BY <1>2, <2>2 DEF AskInv, AnswerInv, AskTypeOK
        <3> QED
            BY <1>2, <3>1 DEF AskInv, KeyInv, Making
    <2> QED
        BY <2>1, <2>2
<1> QED
    BY <1>1, <1>2 DEF AnswersAgree

\* A step of one request that leaves the keys and the tables alone only moves it on.
LEMMA MoveKeepsAsk ==
    ASSUME AskInv, NEW r \in Submission, NEW to \in Steps,
           ask' = [ask EXCEPT ![r].pc = to],
           UNCHANGED <<engineer, keyOf, runs, queued, answer>>,
           \/ ask[r].pc \in {"put"} \cup Making /\ to \in {"failed", "died"}
           \/ ask[r].pc = "agent" /\ to = "insert"
    PROVE  AskInv'
<1> USE DispatchAssumption
<1>1. /\ ask'[r].pc = to /\ ask'[r].key = ask[r].key
      /\ \A q \in Submission \ {r} : ask'[q] = ask[q]
    BY DEF AskInv, AskTypeOK
<1>2. DispatchTypeOK' /\ AskTypeOK'
    BY DEF AskInv, DispatchTypeOK, AskTypeOK
<1>3. KeyInv'
    <2>1. ASSUME NEW k \in Key, keyOf[k] # NoRun
          PROVE  /\ ask'[keyOf[k]].key = k
                 /\ \/ ask'[keyOf[k]].pc \in Making \cup {"failed", "died"}
                    \/ (ask'[keyOf[k]].pc = "answered" /\ keyOf[k] \in queued)
        <3>1. keyOf[k] \in Submission
            BY <2>1 DEF AskInv, DispatchTypeOK
        <3>2. /\ ask[keyOf[k]].key = k
              /\ \/ ask[keyOf[k]].pc \in Making \cup {"failed", "died"}
                 \/ (ask[keyOf[k]].pc = "answered" /\ keyOf[k] \in queued)
            BY <2>1 DEF AskInv, KeyInv
        <3> QED
            BY <1>1, <3>1, <3>2 DEF Making
    <2> QED
        BY <2>1 DEF KeyInv
<1>4. OwnerInv'
    BY <1>1 DEF AskInv, OwnerInv, Making
<1>5. AnswerInv'
    BY <1>1 DEF AskInv, OwnerInv, AnswerInv, Making
<1> QED
    BY <1>2, <1>3, <1>4, <1>5 DEF AskInv

\* A request under a key that is known is answered, and any other goes on.
LEMMA LookUpKeepsAsk ==
    ASSUME AskInv, NEW r \in Submission, NEW k \in Key \cup {NoKey}, LookUpKey(r, k)
    PROVE  AskInv'
<1> USE DispatchAssumption
<1>1. /\ ask[r].pc = "new" /\ ask[r].key = NoKey /\ answer[r] = NoRun /\ r \notin runs
      /\ r \notin queued
    BY DEF LookUpKey, AskInv, OwnerInv, DispatchTypeOK
<1>2. \A j \in Key : keyOf[j] # NoRun => keyOf[j] # r /\ keyOf[j] \in Submission
    BY <1>1 DEF AskInv, KeyInv, DispatchTypeOK, Making
<1>3. /\ UNCHANGED <<engineer, keyOf, runs, queued>>
      /\ \A q \in Submission \ {r} : ask'[q] = ask[q] /\ answer'[q] = answer[q]
    BY DEF LookUpKey, AskInv, AskTypeOK, DispatchTypeOK
<1>4. CASE k # NoKey /\ keyOf[k] # NoRun
    <2>1. /\ ask' = [ask EXCEPT ![r] = [pc |-> "answered", key |-> k]]
          /\ answer' = [answer EXCEPT ![r] = keyOf[k]]
        BY <1>4 DEF LookUpKey
    <2>2. DispatchTypeOK' /\ AskTypeOK'
        BY <1>2, <1>3, <1>4, <2>1 DEF AskInv, DispatchTypeOK, AskTypeOK, Steps
    <2>3. KeyInv'
        BY <1>2, <1>3 DEF AskInv, KeyInv
    <2>4. OwnerInv'
        BY <1>1, <1>3, <2>1 DEF AskInv, OwnerInv, Making, AskTypeOK
    <2>5. AnswerInv'
        BY <1>1, <1>3, <1>4, <2>1 DEF AskInv, AnswerInv, AskTypeOK, DispatchTypeOK
    <2> QED
        BY <2>2, <2>3, <2>4, <2>5 DEF AskInv
<1>5. CASE ~(k # NoKey /\ keyOf[k] # NoRun)
    <2>1. /\ ask' = [ask EXCEPT ![r] = [pc |-> IF k = NoKey THEN "agent" ELSE "put",
                                        key |-> k]]
          /\ answer' = answer
        BY <1>5 DEF LookUpKey
    <2>2. DispatchTypeOK' /\ AskTypeOK'
        BY <1>3, <2>1 DEF AskInv, DispatchTypeOK, AskTypeOK, Steps
    <2>3. KeyInv'
        BY <1>2, <1>3 DEF AskInv, KeyInv
    <2>4. OwnerInv'
        BY <1>1, <1>3, <2>1 DEF AskInv, OwnerInv, Making, AskTypeOK
    <2>5. AnswerInv'
        BY <1>1, <1>3, <2>1 DEF AskInv, AnswerInv, AskTypeOK
    <2> QED
        BY <2>2, <2>3, <2>4, <2>5 DEF AskInv
<1> QED
    BY <1>4, <1>5

\* The first to store a key owns it, and the next is answered the owner.
LEMMA PutKeepsAsk ==
    ASSUME AskInv, NEW r \in Submission, PutKey(r)
    PROVE  AskInv'
<1> USE DispatchAssumption
<1> DEFINE k == ask[r].key
<1>1. /\ ask[r].pc = "put" /\ k \in Key /\ answer[r] = NoRun /\ r \notin runs
      /\ r \notin queued
    BY DEF PutKey, AskInv, OwnerInv, DispatchTypeOK
<1>2. \A j \in Key : keyOf[j] # NoRun => keyOf[j] # r /\ keyOf[j] \in Submission
    BY <1>1 DEF AskInv, KeyInv, DispatchTypeOK, Making
<1>3. /\ UNCHANGED <<engineer, runs, queued>>
      /\ \A q \in Submission \ {r} : ask'[q] = ask[q] /\ answer'[q] = answer[q]
      /\ ask'[r].key = k
    BY DEF PutKey, AnswerWith, AskInv, AskTypeOK, DispatchTypeOK
<1>4. CASE keyOf[k] = NoRun
    <2>1. /\ keyOf' = [keyOf EXCEPT ![k] = r]
          /\ ask' = [ask EXCEPT ![r].pc = "agent"]
          /\ answer' = answer
        BY <1>4 DEF PutKey
    <2>2. DispatchTypeOK' /\ AskTypeOK'
        BY <1>1, <1>3, <2>1 DEF AskInv, DispatchTypeOK, AskTypeOK, Steps
    <2>3. KeyInv'
        <3>1. /\ keyOf'[k] = r /\ ask'[r].key = k /\ ask'[r].pc = "agent"
              /\ \A j \in Key \ {k} : keyOf'[j] = keyOf[j]
            BY <1>1, <1>3, <2>1 DEF AskInv, DispatchTypeOK, AskTypeOK
        <3>2. ASSUME NEW j \in Key \ {k}, keyOf[j] # NoRun
              PROVE  /\ ask'[keyOf[j]].key = j
                     /\ \/ ask'[keyOf[j]].pc \in Making \cup {"failed", "died"}
                        \/ (ask'[keyOf[j]].pc = "answered" /\ keyOf[j] \in queued')
            BY <1>2, <1>3, <3>2 DEF AskInv, KeyInv
        <3> QED
            BY <3>1, <3>2 DEF KeyInv, Making
    <2>4. OwnerInv'
        <3>1. ASSUME NEW q \in Submission \ {r}, ask[q].key = k,
                     ask[q].pc \in Making \/ q \in runs
              PROVE  FALSE
            BY <1>1, <1>4, <3>1 DEF AskInv, OwnerInv
        <3> QED
            BY <1>1, <1>3, <2>1, <3>1 DEF AskInv, OwnerInv, Making, AskTypeOK, DispatchTypeOK
    <2>5. AnswerInv'
        <3>1. ASSUME NEW q \in Submission, answer[q] # NoRun
              PROVE  q # r /\ ask[q].key # k
            BY <1>1, <1>4, <3>1 DEF AskInv, AnswerInv
        <3> QED
            BY <1>3, <2>1, <3>1 DEF AskInv, AnswerInv, DispatchTypeOK, AskTypeOK
    <2> QED
        BY <2>2, <2>3, <2>4, <2>5 DEF AskInv
<1>5. CASE keyOf[k] # NoRun
    <2>1. /\ keyOf' = keyOf
          /\ ask' = [ask EXCEPT ![r].pc = "answered"]
          /\ answer' = [answer EXCEPT ![r] = keyOf[k]]
        BY <1>5 DEF PutKey, AnswerWith
    <2>2. DispatchTypeOK' /\ AskTypeOK'
        BY <1>1, <1>2, <1>3, <1>5, <2>1 DEF AskInv, DispatchTypeOK, AskTypeOK, Steps
    <2>3. KeyInv'
        BY <1>2, <1>3, <2>1 DEF AskInv, KeyInv
    <2>4. OwnerInv'
        BY <1>1, <1>3, <2>1 DEF AskInv, OwnerInv, Making, AskTypeOK
    <2>5. AnswerInv'
        BY <1>1, <1>3, <1>5, <2>1 DEF AskInv, AnswerInv, AskTypeOK, DispatchTypeOK
    <2> QED
        BY <2>2, <2>3, <2>4, <2>5 DEF AskInv
<1> QED
    BY <1>4, <1>5

\* Only the owner of a key inserts the execution and enqueues its job.
LEMMA MakeKeepsAsk ==
    ASSUME AskInv, NEW r \in Submission, InsertRun(r) \/ EnqueueRun(r)
    PROVE  AskInv'
<1> USE DispatchAssumption
<1>1. CASE InsertRun(r)
    <2>1. /\ ask[r].pc = "insert" /\ ask' = [ask EXCEPT ![r].pc = "enqueue"]
          /\ runs' = runs \cup {r} /\ UNCHANGED <<engineer, keyOf, queued, answer>>
        BY <1>1 DEF InsertRun, Step
    <2>2. DispatchTypeOK' /\ AskTypeOK'
        BY <2>1 DEF AskInv, DispatchTypeOK, AskTypeOK, Steps
    <2>3. KeyInv'
        BY <2>1 DEF AskInv, KeyInv, DispatchTypeOK, AskTypeOK, Making
    <2>4. OwnerInv' /\ AnswerInv'
        BY <2>1 DEF AskInv, OwnerInv, AnswerInv, DispatchTypeOK, AskTypeOK, Making
    <2> QED
        BY <2>2, <2>3, <2>4 DEF AskInv
<1>2. CASE EnqueueRun(r)
    <2>1. /\ ask[r].pc = "enqueue" /\ ask' = [ask EXCEPT ![r].pc = "answered"]
          /\ answer' = [answer EXCEPT ![r] = r]
          /\ queued' = queued \cup {r} /\ UNCHANGED <<engineer, keyOf, runs>>
        BY <1>2 DEF EnqueueRun, AnswerWith
    <2>2. /\ ask'[r].pc = "answered" /\ ask'[r].key = ask[r].key /\ answer'[r] = r
          /\ \A q \in Submission \ {r} : ask'[q] = ask[q] /\ answer'[q] = answer[q]
          /\ r \in runs
          /\ ask[r].key = NoKey \/ keyOf[ask[r].key] = r
        BY <2>1 DEF AskInv, OwnerInv, DispatchTypeOK, AskTypeOK, Making
    <2>3. DispatchTypeOK' /\ AskTypeOK'
        BY <2>1, <2>2 DEF AskInv, DispatchTypeOK, AskTypeOK, Steps
    <2>4. KeyInv'
        <3>1. ASSUME NEW k \in Key, keyOf[k] # NoRun
              PROVE  /\ ask'[keyOf[k]].key = k
                     /\ \/ ask'[keyOf[k]].pc \in Making \cup {"failed", "died"}
                        \/ (ask'[keyOf[k]].pc = "answered" /\ keyOf[k] \in queued')
            <4>1. keyOf[k] \in Submission /\ ask[keyOf[k]].key = k
                BY <3>1 DEF AskInv, KeyInv, DispatchTypeOK
            <4>2. CASE keyOf[k] = r
                BY <2>1, <2>2, <4>1, <4>2
            <4>3. CASE keyOf[k] # r
                BY <2>1, <2>2, <3>1, <4>1, <4>3 DEF AskInv, KeyInv
            <4> QED
                BY <4>2, <4>3
        <3> QED
            BY <2>1, <3>1 DEF KeyInv
    <2>5. OwnerInv'
        BY <2>1, <2>2 DEF AskInv, OwnerInv, Making
    <2>6. AnswerInv'
        BY <2>1, <2>2 DEF AskInv, AnswerInv
    <2> QED
        BY <2>3, <2>4, <2>5, <2>6 DEF AskInv
<1> QED
    BY <1>1, <1>2

\* Every step keeps the invariant, and so does a step of something else.
LEMMA AskStepInv == AskInv /\ [DispatchNext]_dispVars => AskInv'
<1> SUFFICES ASSUME AskInv, [DispatchNext]_dispVars PROVE AskInv'
    OBVIOUS
<1>1. CASE DispatchNext
    <2>1. PICK r \in Submission :
              \/ \E k \in Key \cup {NoKey} : LookUpKey(r, k)
              \/ PutKey(r) \/ ResolveAgent(r) \/ InsertRun(r) \/ EnqueueRun(r)
              \/ DispatcherDies(r)
        BY <1>1 DEF DispatchNext
    <2>2. CASE \E k \in Key \cup {NoKey} : LookUpKey(r, k)
        BY <2>2, LookUpKeepsAsk
    <2>3. CASE PutKey(r)
        BY <2>3, PutKeepsAsk
    <2>4. CASE ResolveAgent(r)
        BY <2>4, MoveKeepsAsk DEF ResolveAgent, Step, Steps, Making
    <2>5. CASE InsertRun(r) \/ EnqueueRun(r)
        BY <2>5, MakeKeepsAsk
    <2>6. CASE DispatcherDies(r)
        BY <2>6, MoveKeepsAsk DEF DispatcherDies, Steps, Making
    <2> QED
        BY <2>1, <2>2, <2>3, <2>4, <2>5, <2>6
<1>2. CASE UNCHANGED dispVars
    BY <1>2 DEF dispVars, AskInv, DispatchTypeOK, AskTypeOK, KeyInv, OwnerInv, AnswerInv
<1> QED
    BY <1>1, <1>2

\* Requests with one key get one execution, however they interleave and
\* wherever a process dies (POST /delivery/runs).
THEOREM AnswersAlwaysAgree == DispatchSpec => []AnswersAgree
<1>1. AskInv /\ [DispatchNext]_dispVars => AskInv'
    BY AskStepInv
<1> QED
    BY AskInitInv, AskInvAgrees, <1>1, PTL DEF DispatchSpec

-----------------------------------------------------------------------------
(* API keys.  A key that is active has been ended by nobody, one that is   *)
(* revoked by exactly one call: the UPDATE of the other matched no row.    *)

\* Who ended each key: nobody while it is absent or active, then one call.
EndInv ==
    \A k \in KeyId :
        IF keyRow[k] = "revoked" THEN \E c \in Caller : endedBy[k] = {c}
        ELSE endedBy[k] = {}

\* A rotation is about a key that was there when it began, and keys stay.
RotationInv ==
    \A c \in Caller : rotation[c].pc \in {"read", "created"} =>
        /\ rotation[c].old \in KeyId
        /\ keyRow[rotation[c].old] # "absent"

KeysInv == KeysTypeOK /\ EndInv /\ RotationInv

\* One key is active, and nothing was ended.
LEMMA KeysInitInv == KeysInit => KeysInv
BY ApiKeyAssumption
   DEF KeysInit, KeysInv, KeysTypeOK, EndInv, RotationInv, NotRotating

\* Every statement of a creation, a revocation or a rotation keeps it.
LEMMA KeysStepInv == KeysInv /\ [KeysNext]_keyVars => KeysInv'
<1> SUFFICES ASSUME KeysInv, [KeysNext]_keyVars PROVE KeysInv'
    OBVIOUS
<1> USE ApiKeyAssumption DEF KeysInv
<1>1. ASSUME NEW k \in KeyId, CreateKey(k) PROVE KeysInv'
    BY <1>1 DEF CreateKey, Unused, KeysTypeOK, EndInv, RotationInv
<1>2. ASSUME NEW c \in Caller, NEW k \in KeyId, RevokeKey(c, k) PROVE KeysInv'
    BY <1>2, SMTT(30) DEF RevokeKey, RevokeMatches, KeysTypeOK, EndInv, RotationInv
<1>3. ASSUME NEW c \in Caller, NEW k \in KeyId, RotateRead(c, k) PROVE KeysInv'
    BY <1>3 DEF RotateRead, KeysTypeOK, EndInv, RotationInv
<1>4. ASSUME NEW c \in Caller, NEW k \in KeyId, RotateCreate(c, k) PROVE KeysInv'
    BY <1>4, ZenonT(40) DEF RotateCreate, Unused, KeysTypeOK, EndInv, RotationInv
<1>5. ASSUME NEW c \in Caller, RotateRevoke(c) PROVE KeysInv'
    <2>1. PICK k \in KeyId : /\ k = rotation[c].old /\ keyRow[k] # "absent"
                             /\ keyRow' = [keyRow EXCEPT ![k] = "revoked"]
                             /\ endedBy' = IF keyRow[k] = "active"
                                           THEN [endedBy EXCEPT ![k] = @ \cup {c}]
                                           ELSE endedBy
        BY <1>5 DEF RotateRevoke, RotationInv, RevokeMatches
    <2>2. rotation' = [rotation EXCEPT ![c].pc = "done"]
        BY <1>5 DEF RotateRevoke
    <2>3. KeysTypeOK'
        BY <2>1, <2>2 DEF KeysTypeOK
    <2>4. EndInv'
        <3>1. keyRow[k] \in {"active", "revoked"}
            BY <2>1 DEF KeysTypeOK
        <3> QED
            BY <2>1, <3>1 DEF EndInv, KeysTypeOK
    <2>5. RotationInv'
        BY <2>1, <2>2 DEF RotationInv, KeysTypeOK
    <2> QED
        BY <2>3, <2>4, <2>5
<1>6. ASSUME NEW c \in Caller, RotateDies(c) PROVE KeysInv'
    BY <1>6 DEF RotateDies, KeysTypeOK, EndInv, RotationInv
<1>7. CASE UNCHANGED keyVars
    BY <1>7 DEF keyVars, KeysTypeOK, EndInv, RotationInv
<1> QED
    BY <1>1, <1>2, <1>3, <1>4, <1>5, <1>6, <1>7 DEF KeysNext

\* The invariant says that a key is ended once.
LEMMA KeysInvEnds == KeysInv => KeyEndsOnce
<1> SUFFICES ASSUME KeysInv, NEW k \in KeyId
             PROVE  /\ Cardinality(endedBy[k]) <= 1
                    /\ endedBy[k] # {} <=> keyRow[k] = "revoked"
    BY DEF KeyEndsOnce
<1>1. CASE keyRow[k] = "revoked"
    <2>1. PICK c \in Caller : endedBy[k] = {c}
        BY <1>1 DEF KeysInv, EndInv
    <2>2. Cardinality({c}) = 1
        BY FS_Singleton
    <2> QED
        BY <1>1, <2>1, <2>2
<1>2. CASE keyRow[k] # "revoked"
    <2>1. endedBy[k] = {}
        BY <1>2 DEF KeysInv, EndInv
    <2> QED
        BY <1>2, <2>1, FS_EmptySet
<1> QED
    BY <1>1, <1>2

\* However many calls revoke and rotate one key, on whichever replicas and
\* wherever one dies, exactly one of them ends it and takes itself to have.
THEOREM KeysEndOnce == KeysSpec => []KeyEndsOnce
<1> QED
    BY KeysInitInv, KeysStepInv, KeysInvEnds, PTL DEF KeysSpec

-----------------------------------------------------------------------------
(* Sessions, tickets and login states.                                     *)

\* What can still let somebody in has let nobody in yet, and a session whose
\* logout was acknowledged is neither live nor asked for.
SpentInv ==
    /\ \A t \in Ticket : /\ ticket[t].state \in {"asked", "live"} => entries[t] = 0
                         /\ entries[t] <= 1
    /\ \A l \in LoginState :
          /\ login[l].state \in {"live", "exchanging"} => entries[l] = 0
          /\ entries[l] <= 1
    /\ \A s \in loggedOut : session[s].state \notin {"asked", "live"}

SessionsInv == SessionsTypeOK /\ SpentInv

\* What a slot may hold.
LEMMA TimedFits ==
    ASSUME SessionsTypeOK, NEW k \in Bearer \cup {NoBearer},
           NEW ttl \in {SessionTtl, TicketTtl, StateTtl}
    PROVE  /\ Gone \in Timed /\ Gone.state = "absent" /\ Gone.key = NoBearer
           /\ Asked(k) \in Timed /\ Asked(k).state = "asked" /\ Asked(k).key = k
           /\ Lives(k, ttl) \in Timed /\ Lives(k, ttl).state = "live"
           /\ Lives(k, ttl).key = k
<1>1. time + ttl \in Nat
    BY SessionAssumption DEF SessionsTypeOK
<1> QED
    BY <1>1 DEF Gone, Timed, Asked, Lives

\* It holds at the start.
LEMMA SessionsInitInv == SessionsInit => SessionsInv
BY SessionAssumption
   DEF SessionsInit, SessionsInv, SessionsTypeOK, SpentInv, Gone, Timed

\* Creating a session deletes others and revives none.
LEMMA CleanUp ==
    ASSUME SessionsInv, NEW s \in SessionId, s \notin loggedOut,
           NEW k \in Bearer \cup {NoBearer}
    PROVE  /\ SessionsAfter(s, k) \in [SessionId -> Timed]
           /\ SessionsAfter(s, k)[s].key = k
           /\ \A x \in SessionId \ {s} : SessionsAfter(s, k)[x] \in {session[x], Gone}
           /\ \A x \in loggedOut : SessionsAfter(s, k)[x].state \notin {"asked", "live"}
<1>1. SessionTtl \in {SessionTtl, TicketTtl, StateTtl} /\ loggedOut \subseteq SessionId
      /\ session \in [SessionId -> Timed]
    BY DEF SessionsInv, SessionsTypeOK
<1>2. \A x \in loggedOut : session[x].state \notin {"asked", "live"}
    BY DEF SessionsInv, SpentInv
<1>3. Gone \in Timed /\ Gone.state = "absent" /\ Lives(k, SessionTtl) \in Timed
      /\ Lives(k, SessionTtl).key = k
    BY <1>1, TimedFits DEF SessionsInv
<1>4. \A x \in SessionId : /\ x = s => SessionsAfter(s, k)[x] = Lives(k, SessionTtl)
                           /\ x # s => SessionsAfter(s, k)[x] \in {session[x], Gone}
    BY DEF SessionsAfter
<1>5. SessionsAfter(s, k) \in [SessionId -> Timed]
    BY <1>1, <1>3 DEF SessionsAfter
<1> QED
    BY <1>1, <1>2, <1>3, <1>4, <1>5

\* Every request, restart and tick keeps it.
LEMMA SessionsStepInv == SessionsInv /\ [SessionsNext]_accVars => SessionsInv'
<1> SUFFICES ASSUME SessionsInv, [SessionsNext]_accVars PROVE SessionsInv'
    OBVIOUS
<1> USE SessionAssumption DEF SessionsInv, sessionVars, memoryVars
<1>1. ASSUME NEW s \in SessionId, CreateSession(s) PROVE SessionsInv'
    <2>1. session[s].state = "asked" /\ session[s].key \in Bearer \cup {NoBearer}
        BY <1>1 DEF CreateSession, SessionsTypeOK, Timed
    <2>2. s \notin loggedOut
        BY <2>1 DEF SpentInv
    <2>3. /\ session' \in [SessionId -> Timed]
          /\ \A x \in loggedOut : session'[x].state \notin {"asked", "live"}
        BY <1>1, <2>1, <2>2, CleanUp DEF CreateSession
    <2> QED
        BY <1>1, <2>3 DEF CreateSession, SessionsTypeOK, SpentInv
<1>2. ASSUME NEW s \in SessionId, Logout(s) PROVE SessionsInv'
    BY <1>2 DEF Logout, SessionsTypeOK, SpentInv, Timed
<1>3. ASSUME NEW t \in Ticket, IssueTicket(t) PROVE SessionsInv'
    <2>1. ticket[t].state = "asked" /\ ticket[t].key \in Bearer \cup {NoBearer}
        BY <1>3 DEF IssueTicket, SessionsTypeOK, Timed
    <2>2. PICK v \in {Lives(ticket[t].key, TicketTtl), Gone} :
             ticket' = [ticket EXCEPT ![t] = v]
        BY <1>3 DEF IssueTicket
    <2>3. v \in Timed
        BY <2>1, <2>2, TimedFits
    <2> QED
        BY <1>3, <2>1, <2>2, <2>3 DEF IssueTicket, SessionsTypeOK, SpentInv
<1>4. ASSUME NEW t \in Ticket, ConsumeTicket(t) PROVE SessionsInv'
    BY <1>4 DEF ConsumeTicket, SessionsTypeOK, SpentInv, Timed, Gone
<1>5. ASSUME NEW l \in LoginState, LoginBegins(l) PROVE SessionsInv'
    BY <1>5, TimedFits DEF LoginBegins, SessionsTypeOK, SpentInv
<1>6. ASSUME NEW l \in LoginState, CallbackArrives(l) PROVE SessionsInv'
    BY <1>6 DEF CallbackArrives, SessionsTypeOK, SpentInv, Timed, Gone
<1>7. ASSUME NEW l \in LoginState, CallbackFails(l) PROVE SessionsInv'
    BY <1>7 DEF CallbackFails, SessionsTypeOK, SpentInv, Timed, Gone
<1>8. ASSUME NEW l \in LoginState, NEW s \in SessionId, CallbackSucceeds(l, s)
      PROVE  SessionsInv'
    <2>1. /\ session' \in [SessionId -> Timed]
          /\ \A x \in loggedOut : session'[x].state \notin {"asked", "live"}
        BY <1>8, CleanUp DEF CallbackSucceeds
    <2> QED
        BY <1>8, <2>1 DEF CallbackSucceeds, SessionsTypeOK, SpentInv, Timed, Gone
<1>9. CASE AccessRestart
    BY <1>9 DEF AccessRestart, SessionsTypeOK, SpentInv, Timed, Gone
<1>10. CASE AccessTick \/ UNCHANGED accVars
    BY <1>10 DEF AccessTick, accVars, SessionsTypeOK, SpentInv
<1>11. ASSUME NEW k \in Bearer \cup {NoBearer}, NEW s \in SessionId, AskSession(s, k)
       PROVE  SessionsInv'
    <2>1. Asked(k) \in Timed /\ s \notin loggedOut
        BY <1>11, TimedFits DEF AskSession
    <2> QED
        BY <1>11, <2>1 DEF AskSession, SessionsTypeOK, SpentInv
<1>12. ASSUME NEW k \in Bearer \cup {NoBearer}, NEW t \in Ticket, AskTicket(t, k)
       PROVE  SessionsInv'
    <2>1. Asked(k) \in Timed
        BY TimedFits
    <2> QED
        BY <1>12, <2>1 DEF AskTicket, SessionsTypeOK, SpentInv
<1>13. ASSUME NEW s \in SessionId, SessionRefused(s) PROVE SessionsInv'
    BY <1>13 DEF SessionRefused, SessionsTypeOK, SpentInv, Timed, Gone
<1>14. ASSUME NEW k \in Bearer, EndKey(k) PROVE SessionsInv'
    BY <1>14 DEF EndKey, SessionsTypeOK, SpentInv
<1> QED
    BY <1>1, <1>2, <1>3, <1>4, <1>5, <1>6, <1>7, <1>8, <1>9, <1>10, <1>11, <1>12, <1>13,
       <1>14
    DEF SessionsNext

\* A session slot that comes to be asked for or live in a step names a key that
\* let somebody in, or that was named in it before.
LEMMA KeyStaysOut ==
    ASSUME SessionsInv, [SessionsNext]_accVars, NEW k \in Bearer, KeyIsOut(k)
    PROVE  KeyIsOut(k)'
<1> USE SessionAssumption DEF sessionVars, memoryVars
<1>1. /\ k # NoBearer /\ k \in keyEnded /\ ~LetsIn(k)
      /\ session \in [SessionId -> Timed] /\ ticket \in [Ticket -> Timed]
      /\ time \in Nat
    BY DEF KeyIsOut, LetsIn, SessionsInv, SessionsTypeOK
<1>2. /\ \A s \in SessionId : /\ session[s].key \in Bearer \cup {NoBearer}
                              /\ session[s].expires \in Nat
      /\ \A t \in Ticket : /\ ticket[t].key \in Bearer \cup {NoBearer}
                           /\ ticket[t].expires \in Nat
    BY <1>1 DEF Timed
<1> DEFINE SessionOut(s) == session[s].key = k =>
                               ~Honoured(s) /\ session[s].state # "asked"
           TicketOut(t) == ticket[t].key = k =>
                              /\ ticket[t].state # "asked"
                              /\ ticket[t].state = "live" => ticket[t].expires < time
<1>3. (\A s \in SessionId : SessionOut(s)) /\ (\A t \in Ticket : TicketOut(t))
    BY DEF KeyIsOut
<1>4. SUFFICES /\ keyEnded \subseteq keyEnded'
               /\ \A s \in SessionId : SessionOut(s)'
               /\ \A t \in Ticket : TicketOut(t)'
    BY <1>1 DEF KeyIsOut
<1>5. Gone.state = "absent"
    BY DEF Gone
<1> HIDE DEF SessionOut, TicketOut
<1>6. ASSUME NEW s \in SessionId, session'[s] \in {session[s], Gone}, time' = time
      PROVE  SessionOut(s)'
    BY <1>3, <1>5, <1>6 DEF SessionOut, Honoured
<1>7. ASSUME NEW t \in Ticket, ticket'[t] \in {ticket[t], Gone}, time' = time
      PROVE  TicketOut(t)'
    BY <1>3, <1>5, <1>7 DEF TicketOut
<1>8. ASSUME NEW s \in SessionId, session'[s].key # k PROVE SessionOut(s)'
    BY <1>8 DEF SessionOut
<1>9. ASSUME NEW t \in Ticket, ticket'[t].key # k PROVE TicketOut(t)'
    BY <1>9 DEF TicketOut
<1>10. ASSUME NEW s \in SessionId, CreateSession(s)
       PROVE  /\ keyEnded \subseteq keyEnded'
              /\ \A x \in SessionId : SessionOut(x)'
              /\ \A t \in Ticket : TicketOut(t)'
    <2>1. session[s].state = "asked" /\ session[s].key # k /\ s \notin loggedOut
        BY <1>3, <1>10 DEF CreateSession, SessionOut, SessionsInv, SpentInv
    <2>2. session'[s].key # k /\ \A x \in SessionId \ {s} : session'[x] \in {session[x], Gone}
        BY <1>2, <1>10, <2>1, CleanUp DEF CreateSession
    <2> QED
        BY <1>6, <1>7, <1>8, <1>10, <2>2 DEF CreateSession
<1>11. ASSUME NEW l \in LoginState, NEW s \in SessionId, CallbackSucceeds(l, s)
       PROVE  /\ keyEnded \subseteq keyEnded'
              /\ \A x \in SessionId : SessionOut(x)'
              /\ \A t \in Ticket : TicketOut(t)'
    <2>1. session'[s].key # k /\ \A x \in SessionId \ {s} : session'[x] \in {session[x], Gone}
        BY <1>1, <1>11, CleanUp DEF CallbackSucceeds
    <2> QED
        BY <1>6, <1>7, <1>8, <1>11, <2>1 DEF CallbackSucceeds
<1>12. ASSUME NEW j \in Bearer \cup {NoBearer}, LetsIn(j),
              \/ \E s \in SessionId : AskSession(s, j)
              \/ \E t \in Ticket : AskTicket(t, j)
       PROVE  /\ keyEnded \subseteq keyEnded'
              /\ \A x \in SessionId : SessionOut(x)'
              /\ \A t \in Ticket : TicketOut(t)'
    <2>1. j # k /\ Asked(j).key # k
        BY <1>1, <1>12 DEF Asked, Gone
    <2>2. CASE \E s \in SessionId : AskSession(s, j)
        <3>1. PICK s \in SessionId : AskSession(s, j)
            BY <2>2
        <3>2. session'[s].key # k /\ \A x \in SessionId \ {s} : session'[x] = session[x]
            BY <1>1, <2>1, <3>1 DEF AskSession
        <3> QED
            BY <1>6, <1>7, <1>8, <3>1, <3>2 DEF AskSession
    <2>3. CASE \E t \in Ticket : AskTicket(t, j)
        <3>1. PICK t \in Ticket : AskTicket(t, j)
            BY <2>3
        <3>2. ticket'[t].key # k /\ \A x \in Ticket \ {t} : ticket'[x] = ticket[x]
            BY <1>1, <2>1, <3>1 DEF AskTicket
        <3> QED
            BY <1>6, <1>7, <1>9, <3>1, <3>2 DEF AskTicket
    <2> QED
        BY <1>12, <2>2, <2>3
<1>13. ASSUME NEW s \in SessionId, SessionRefused(s) \/ Logout(s)
       PROVE  /\ keyEnded \subseteq keyEnded'
              /\ \A x \in SessionId : SessionOut(x)'
              /\ \A t \in Ticket : TicketOut(t)'
    <2>1. session'[s] = Gone \/ session'[s].state = "revoked"
        BY <1>1, <1>13 DEF SessionRefused, Logout, Timed
    <2>2. /\ \A x \in SessionId \ {s} : session'[x] = session[x]
          /\ UNCHANGED <<keyEnded, ticket, time>>
        BY <1>1, <1>13 DEF SessionRefused, Logout
    <2>3. SessionOut(s)'
        BY <1>5, <2>1 DEF SessionOut, Honoured
    <2> QED
        BY <1>6, <1>7, <2>2, <2>3
<1>14. ASSUME NEW t \in Ticket, IssueTicket(t) \/ ConsumeTicket(t)
       PROVE  /\ keyEnded \subseteq keyEnded'
              /\ \A x \in SessionId : SessionOut(x)'
              /\ \A u \in Ticket : TicketOut(u)'
    <2>1. /\ \A u \in Ticket \ {t} : ticket'[u] = ticket[u]
          /\ UNCHANGED <<keyEnded, session, time>>
        BY <1>1, <1>14 DEF IssueTicket, ConsumeTicket
    <2>2. ticket'[t] = Gone \/ ticket'[t].key # k
        <3>1. CASE ConsumeTicket(t)
            BY <1>1, <3>1 DEF ConsumeTicket
        <3>2. CASE IssueTicket(t)
            <4>1. ticket[t].state = "asked" /\ ticket[t].key # k
                BY <1>3, <3>2 DEF IssueTicket, TicketOut
            <4>2. Lives(ticket[t].key, TicketTtl).key = ticket[t].key
                BY DEF Lives
            <4> QED
                BY <1>1, <3>2, <4>1, <4>2 DEF IssueTicket
        <3> QED
            BY <1>14, <3>1, <3>2
    <2> QED
        BY <1>6, <1>7, <1>9, <2>1, <2>2
<1>15. CASE \/ \E j \in Bearer : EndKey(j)
            \/ \E l \in LoginState : \/ LoginBegins(l) \/ CallbackArrives(l)
                                     \/ CallbackFails(l)
            \/ AccessRestart \/ UNCHANGED accVars
    <2>1. /\ keyEnded \subseteq keyEnded' /\ session' = session /\ time' = time
          /\ \A t \in Ticket : ticket'[t] \in {ticket[t], Gone}
        BY <1>15 DEF EndKey, LoginBegins, CallbackArrives, CallbackFails, AccessRestart, accVars
    <2> QED
        BY <1>6, <1>7, <2>1
<1>16. CASE AccessTick
    <2>1. time' = time + 1 /\ UNCHANGED <<session, ticket, keyEnded>>
        BY <1>16 DEF AccessTick
    <2>2. ASSUME NEW s \in SessionId PROVE SessionOut(s)'
        BY <1>1, <1>2, <1>3, <2>1 DEF SessionOut, Honoured
    <2>3. ASSUME NEW t \in Ticket PROVE TicketOut(t)'
        BY <1>1, <1>2, <1>3, <2>1 DEF TicketOut
    <2> QED
        BY <2>1, <2>2, <2>3
<1> QED
    BY <1>10, <1>11, <1>12, <1>13, <1>14, <1>15, <1>16
    DEF SessionsNext, AskSession, AskTicket

\* The invariant says that what is spent stays spent.
LEMMA SessionsInvSpent == SessionsInv => SpentStaysSpent
BY DEF SessionsInv, SpentInv, SpentStaysSpent, Honoured

\* A ticket opens one stream, a login state gives one session, and a session
\* that was logged out is never honoured again, whatever expires, is cleaned
\* up, restarted or awaited.
THEOREM SpentForEver == SessionsSpec => []SpentStaysSpent
<1> QED
    BY SessionsInitInv, SessionsStepInv, SessionsInvSpent, PTL DEF SessionsSpec

-----------------------------------------------------------------------------
(* Logins.  A set of keys stands for the time at which the provider had    *)
(* them; what is cached is older than its stamp by no more than an answer  *)
(* travels.                                                                *)

\* keys were the provider's, no longer than d before time at.
SeenAt(keys, at, d) ==
    \A k \in Kid :
        /\ k \in keys /\ signing[k].state = "withdrawn" => at <= signing[k].until + d
        /\ k \notin keys /\ signing[k].state = "published" => at <= signing[k].from + d

\* Answers under way and caches know the provider's keys of not long ago, and
\* nothing happened in the future.
CacheInv ==
    /\ \A k \in Kid : signing[k].from <= hour /\ signing[k].until <= hour
    /\ \A i \in Instance : jwks[i].fetched =>
          jwks[i].at <= hour /\ SeenAt(jwks[i].keys, jwks[i].at, Transit)
    /\ \A c \in Callback : callback[c].pc = "answered" =>
          /\ callback[c].at <= hour /\ hour <= callback[c].at + Transit
          /\ SeenAt(callback[c].sent, callback[c].at, 0)

\* The key of a token was published once.
TokenInv ==
    \A c \in Callback : callback[c].pc \in Verifying \cup Decided =>
        signing[callback[c].kid].state # "made"

\* Nothing is awaited by two callbacks of one instance that are both decided.
TurnInv ==
    \A c, d \in Callback :
        c # d /\ callback[c].home = callback[d].home =>
            callback[c].pc \notin Decided \/ callback[d].pc \notin Decided

\* A subject that got its row after a first login looked was let in elsewhere.
TieInv ==
    \A c \in Callback : callback[c].pc = "new" /\ callback[c].sub \in users =>
        \E d \in Callback : /\ callback[d].pc = "in"
                            /\ callback[d].home # callback[c].home
                            /\ callback[d].sub = callback[c].sub

OidcInv == /\ OidcTypeOK /\ CacheInv /\ TokenInv /\ TurnInv /\ TieInv
           /\ WithdrawnKeyFades /\ NewKeyIsLearnt /\ OneFirstLogin

\* It holds at the start.
LEMMA OidcInitInv == OidcInit => OidcInv
<1> SUFFICES ASSUME OidcInit PROVE OidcInv
    OBVIOUS
<1> USE OidcAssumption
<1>1. /\ FirstKid \in Kid /\ (CHOOSE i \in Instance : TRUE) \in Instance
      /\ (CHOOSE s \in Sub : TRUE) \in Sub
    BY DEF FirstKid
<1>2. OidcTypeOK
    BY <1>1 DEF OidcInit, OidcTypeOK, Placed, Cold
<1>3. CacheInv
    BY DEF OidcInit, CacheInv, Placed, Cold
<1>4. /\ \A c \in Callback : callback[c].pc = "code"
      /\ users = {}
    BY DEF OidcInit, Placed
<1> QED
    BY <1>2, <1>3, <1>4
    DEF OidcInv, TokenInv, TurnInv, TieInv, WithdrawnKeyFades, NewKeyIsLearnt,
        OneFirstLogin, Stands, Verifying, Decided

\* The provider publishes or withdraws a key: what was seen before then stays
\* as old as it was.
LEMMA ProviderKeeps ==
    ASSUME OidcInv, NEW k \in Kid, Publish(k) \/ Withdraw(k)
    PROVE  OidcInv'
<1> USE OidcAssumption DEF OidcInv
<1>0. /\ hour \in Nat
      /\ signing[k] \in [state : {"made", "published", "withdrawn"}, from : Nat,
                         until : Nat]
    BY DEF OidcTypeOK
<1>1. PICK s \in [state : {"published", "withdrawn"}, from : Nat, until : Nat] :
          /\ signing' = [signing EXCEPT ![k] = s]
          /\ s.from <= hour /\ s.until <= hour
          /\ s.state = "published" => signing[k].state = "made" /\ s.from = hour
          /\ s.state = "withdrawn" => signing[k].state = "published" /\ s.until = hour
    <2>1. CASE Publish(k)
        <3> DEFINE s == [signing[k] EXCEPT !.state = "published", !.from = hour]
        <3>1. s \in [state : {"published", "withdrawn"}, from : Nat, until : Nat]
            BY <1>0
        <3>2. s.state = "published" /\ s.from = hour /\ s.until = signing[k].until
            BY <1>0
        <3>3. signing' = [signing EXCEPT ![k] = s]
            BY <2>1 DEF Publish
        <3>4. signing[k].from <= hour /\ signing[k].until <= hour
            BY DEF CacheInv
        <3>5. signing[k].state = "made"
            BY <2>1 DEF Publish
        <3> HIDE DEF s
        <3> WITNESS s \in [state : {"published", "withdrawn"}, from : Nat, until : Nat]
        <3> QED
            BY <1>0, <3>2, <3>3, <3>4, <3>5
    <2>2. CASE Withdraw(k)
        <3> DEFINE s == [signing[k] EXCEPT !.state = "withdrawn", !.until = hour]
        <3>1. s \in [state : {"published", "withdrawn"}, from : Nat, until : Nat]
            BY <1>0
        <3>2. s.state = "withdrawn" /\ s.until = hour /\ s.from = signing[k].from
            BY <1>0
        <3>3. signing' = [signing EXCEPT ![k] = s]
            BY <2>2 DEF Withdraw
        <3>4. signing[k].from <= hour /\ signing[k].until <= hour
            BY DEF CacheInv
        <3>5. signing[k].state = "published"
            BY <2>2 DEF Withdraw
        <3> HIDE DEF s
        <3> WITNESS s \in [state : {"published", "withdrawn"}, from : Nat, until : Nat]
        <3> QED
            BY <1>0, <3>2, <3>3, <3>4, <3>5
    <2> QED
        BY <2>1, <2>2
<1>2. /\ signing'[k] = s
      /\ \A j \in Kid \ {k} : signing'[j] = signing[j]
      /\ UNCHANGED <<jwks, callback, users, hour>>
    BY <1>1 DEF Publish, Withdraw, OidcTypeOK
<1>3. OidcTypeOK'
    BY <1>1, <1>2 DEF OidcTypeOK
<1>4. ASSUME NEW keys \in SUBSET Kid, NEW at \in Nat, NEW d \in Nat, at <= hour,
             SeenAt(keys, at, d)
      PROVE  SeenAt(keys, at, d)'
    <2>1. ASSUME NEW j \in Kid
          PROVE  /\ j \in keys /\ signing'[j].state = "withdrawn" =>
                        at <= signing'[j].until + d
                 /\ j \notin keys /\ signing'[j].state = "published" =>
                        at <= signing'[j].from + d
        <3>1. CASE j = k
            BY <1>1, <1>2, <1>4, <3>1 DEF OidcTypeOK
        <3>2. CASE j # k
            BY <1>2, <1>4, <3>2 DEF SeenAt
        <3> QED
            BY <3>1, <3>2
    <2> QED
        BY <2>1 DEF SeenAt
<1>5. CacheInv'
    <2>1. \A j \in Kid : signing'[j].from <= hour /\ signing'[j].until <= hour
        BY <1>1, <1>2 DEF CacheInv
    <2>2. ASSUME NEW i \in Instance, jwks[i].fetched
          PROVE  jwks[i].at <= hour /\ SeenAt(jwks[i].keys, jwks[i].at, Transit)'
        BY <1>2, <1>4, <2>2 DEF CacheInv, OidcTypeOK, SeenAt
    <2>3. ASSUME NEW c \in Callback, callback[c].pc = "answered"
          PROVE  /\ callback[c].at <= hour /\ hour <= callback[c].at + Transit
                 /\ SeenAt(callback[c].sent, callback[c].at, 0)'
        BY <1>2, <1>4, <2>3 DEF CacheInv, OidcTypeOK, SeenAt
    <2> QED
        BY <1>2, <2>1, <2>2, <2>3 DEF CacheInv, SeenAt
<1>6. \A c \in Callback : callback[c].kid \in Kid
    BY DEF OidcTypeOK
<1>7. TokenInv'
    BY <1>1, <1>2, <1>6 DEF TokenInv
<1>8. WithdrawnKeyFades'
    BY <1>1, <1>2, <1>6 DEF WithdrawnKeyFades, OidcTypeOK
<1>9. NewKeyIsLearnt'
    BY <1>1, <1>2, <1>6 DEF NewKeyIsLearnt, TokenInv, Decided, OidcTypeOK, Stands
<1> QED
    BY <1>2, <1>3, <1>5, <1>7, <1>8, <1>9
    DEF TurnInv, TieInv, OneFirstLogin, Stands, HomeOf

\* A callback moves, and at most replaces a cache: what is left to be shown is
\* about this callback.
LEMMA CallbackKeeps ==
    ASSUME OidcInv, NEW c \in Callback, UNCHANGED <<signing, hour>>,
           \/ jwks' = jwks
           \/ /\ jwks' \in [Instance -> [fetched : BOOLEAN, keys : SUBSET Kid, at : Nat]]
              /\ \A i \in Instance : jwks'[i].fetched =>
                    jwks'[i].at <= hour /\ SeenAt(jwks'[i].keys, jwks'[i].at, Transit),
           NEW to \in [pc : {"code"} \cup Verifying \cup Decided \cup Over,
                       home : Instance, sub : Sub, kid : Kid, sent : SUBSET Kid,
                       at : Nat],
           callback' = [callback EXCEPT ![c] = to],
           callback[c].pc # "in", callback[c].pc # "conflict",
           \/ users' = users
           \/ /\ users' = users \cup {to.sub} /\ to.pc = "in"
              /\ callback[c].pc \in Decided /\ to.home = callback[c].home,
           to.pc = "in" => to.sub \in users',
           to.pc = "new" => to.sub \notin users',
           to.pc = "answered" => to.at = hour /\ SeenAt(to.sent, hour, 0),
           to.pc \in Verifying \cup Decided => signing[to.kid].state # "made",
           to.pc \in Decided => OneAtATime(c, to.home),
           to.pc \in {"verified", "known", "new"} /\ signing[to.kid].state = "withdrawn" =>
              hour < signing[to.kid].until + JwksCache + Transit,
           to.pc = "unknownKey" /\ signing[to.kid].state # "withdrawn" =>
              hour < signing[to.kid].from + JwksCache + Transit,
           to.pc = "conflict" =>
              \E d \in Callback : /\ callback[d].pc = "in"
                                  /\ callback[d].home # to.home
                                  /\ callback[d].sub = to.sub
    PROVE  OidcInv'
<1> USE OidcAssumption DEF OidcInv
<1>1. /\ callback'[c] = to
      /\ \A d \in Callback \ {c} : callback'[d] = callback[d]
      /\ callback' \in [Callback -> [pc : {"code"} \cup Verifying \cup Decided \cup Over,
                                     home : Instance, sub : Sub, kid : Kid,
                                     sent : SUBSET Kid, at : Nat]]
    BY DEF OidcTypeOK
<1>2. OidcTypeOK'
    BY <1>1 DEF OidcTypeOK
<1>3. CacheInv'
    <2>2. \A i \in Instance : jwks'[i].fetched =>
              jwks'[i].at <= hour /\ SeenAt(jwks'[i].keys, jwks'[i].at, Transit)
        BY DEF CacheInv
    <2>3. ASSUME NEW d \in Callback, callback'[d].pc = "answered"
          PROVE  /\ callback'[d].at <= hour /\ hour <= callback'[d].at + Transit
                 /\ SeenAt(callback'[d].sent, callback'[d].at, 0)
        <3>1. CASE d = c
            BY <1>1, <2>3, <3>1 DEF OidcTypeOK
        <3>2. CASE d # c
            BY <1>1, <2>3, <3>2 DEF CacheInv
        <3> QED
            BY <3>1, <3>2
    <2> QED
        BY <2>2, <2>3 DEF CacheInv, SeenAt
<1>4. TokenInv'
    BY <1>1 DEF TokenInv
<1>5. TurnInv'
    BY <1>1 DEF TurnInv, OneAtATime
<1>6. TieInv'
    <2>1. ASSUME NEW d \in Callback, callback'[d].pc = "new",
                 callback'[d].sub \in users'
          PROVE  \E e \in Callback : /\ callback'[e].pc = "in"
                                     /\ callback'[e].home # callback'[d].home
                                     /\ callback'[e].sub = callback'[d].sub
        <3>1. CASE d = c
            BY <1>1, <2>1, <3>1 DEF Over
        <3>2. CASE d # c /\ callback[d].sub \in users
            <4>1. PICK e \in Callback : /\ callback[e].pc = "in"
                                        /\ callback[e].home # callback[d].home
                                        /\ callback[e].sub = callback[d].sub
                BY <1>1, <2>1, <3>2 DEF TieInv
            <4> QED
                BY <1>1, <3>2, <4>1
        <3>3. CASE d # c /\ callback[d].sub \notin users
            <4>1. /\ callback[d].sub = to.sub /\ to.pc = "in"
                  /\ callback[c].pc \in Decided /\ to.home = callback[c].home
                BY <1>1, <2>1, <3>3
            <4>2. callback[d].pc \in Decided
                BY <1>1, <2>1, <3>3 DEF Decided
            <4>3. callback[d].home # to.home
                BY <3>3, <4>1, <4>2 DEF TurnInv
            <4> QED
                BY <1>1, <3>3, <4>1, <4>3
        <3> QED
            BY <3>1, <3>2, <3>3
    <2> QED
        BY <2>1 DEF TieInv
<1>7. WithdrawnKeyFades'
    BY <1>1 DEF WithdrawnKeyFades, Decided
<1>8. NewKeyIsLearnt'
    BY <1>1 DEF NewKeyIsLearnt, Stands
<1>9. OneFirstLogin'
    <2>1. \A d \in Callback : callback'[d].pc = "in" => callback'[d].sub \in users'
        BY <1>1 DEF OneFirstLogin, Stands
    <2>2. ASSUME NEW d \in Callback, callback'[d].pc = "conflict"
          PROVE  \E e \in Callback : /\ callback'[e].pc = "in"
                                     /\ callback'[e].home # callback'[d].home
                                     /\ callback'[e].sub = callback'[d].sub
        <3>1. PICK e \in Callback : /\ callback[e].pc = "in"
                                    /\ callback[e].home # callback'[d].home
                                    /\ callback[e].sub = callback'[d].sub
            BY <1>1, <2>2 DEF OneFirstLogin, Stands, HomeOf
        <3> QED
            BY <1>1, <3>1
    <2> QED
        BY <2>1, <2>2 DEF OneFirstLogin, Stands, HomeOf
<1> QED
    BY <1>2, <1>3, <1>4, <1>5, <1>6, <1>7, <1>8, <1>9

\* Every step of the provider, of a callback, of an instance and of time keeps it.
LEMMA OidcStepInv == OidcInv /\ [OidcNext]_oidcVars => OidcInv'
<1> SUFFICES ASSUME OidcInv, [OidcNext]_oidcVars PROVE OidcInv'
    OBVIOUS
<1> USE OidcAssumption DEF OidcInv
<1> DEFINE Records == [pc : {"code"} \cup Verifying \cup Decided \cup Over,
                       home : Instance, sub : Sub, kid : Kid, sent : SUBSET Kid,
                       at : Nat]
<1>1. \A c \in Callback : callback[c] \in Records
    BY DEF OidcTypeOK
<1>2. hour \in Nat /\ FirstKid \in Kid
    BY DEF OidcTypeOK, FirstKid
<1>3. ASSUME NEW c \in Callback, NEW i \in Instance, NEW k \in Kid, NEW s \in Sub,
             ExchangeCode(c, i, k, s)
      PROVE  OidcInv'
    <2> DEFINE to == [pc |-> "token", home |-> i, sub |-> s, kid |-> k, sent |-> {},
                      at |-> 0]
    <2>1. callback' = [callback EXCEPT ![c] = to]
        <3>1. [Placed("token", i, s) EXCEPT !.kid = k] = to
            BY DEF Placed
        <3> QED
            BY <1>3, <3>1 DEF ExchangeCode
    <2>2. to \in Records /\ to.pc = "token" /\ to.kid = k
        BY DEF Verifying
    <2>3. signing[k].state # "made" /\ callback[c].pc = "code"
        BY <1>3 DEF ExchangeCode, Served, Stands
    <2> HIDE DEF to
    <2> QED
        BY <1>3, <2>1, <2>2, <2>3, CallbackKeeps DEF ExchangeCode, Decided, Verifying
<1>4. ASSUME NEW c \in Callback, AskJwks(c)
      PROVE  OidcInv'
    <2> DEFINE to == [callback[c] EXCEPT !.pc = "asked"]
    <2>1. callback' = [callback EXCEPT ![c] = to]
        BY <1>4 DEF AskJwks, Reach
    <2>2. to \in Records /\ to.pc = "asked" /\ to.kid = callback[c].kid
        BY <1>1 DEF Verifying
    <2>3. callback[c].pc = "token" /\ signing[callback[c].kid].state # "made"
        BY <1>4 DEF AskJwks, Stands, TokenInv, Verifying
    <2> HIDE DEF to
    <2> QED
        BY <1>4, <2>1, <2>2, <2>3, CallbackKeeps DEF AskJwks, Decided, Verifying
<1>5. ASSUME NEW c \in Callback, JwksAnswered(c)
      PROVE  OidcInv'
    <2> DEFINE to == [callback[c] EXCEPT !.pc = "answered", !.sent = Served, !.at = hour]
    <2>1. callback' = [callback EXCEPT ![c] = to]
        BY <1>5 DEF JwksAnswered
    <2>2. /\ to \in Records /\ to.pc = "answered" /\ to.kid = callback[c].kid
          /\ to.sent = Served /\ to.at = hour
        BY <1>1, <1>2 DEF Verifying, Served
    <2>3. callback[c].pc = "asked" /\ signing[callback[c].kid].state # "made"
        BY <1>5 DEF JwksAnswered, Stands, TokenInv, Verifying
    <2>4. SeenAt(Served, hour, 0)
        BY <1>2 DEF SeenAt, Served
    <2>5. to.at = hour /\ SeenAt(to.sent, hour, 0)
        BY <2>2, <2>4
    <2>6. UNCHANGED <<signing, jwks, users, hour>>
        BY <1>5 DEF JwksAnswered
    <2>7. "answered" \notin Decided \cup Over
        BY DEF Decided, Over
    <2> HIDE DEF to
    <2> QED
        BY <2>1, <2>2, <2>3, <2>5, <2>6, <2>7, CallbackKeeps DEF Over
<1>6. ASSUME NEW c \in Callback, VerifyCached(c)
      PROVE  OidcInv'
    <2> DEFINE to == [callback[c] EXCEPT !.pc = KeyVerdict(c, jwks[HomeOf(c)].keys)]
    <2>1. callback' = [callback EXCEPT ![c] = to]
        BY <1>6 DEF VerifyCached, Reach
    <2>2. /\ to \in Records /\ to.pc \in {"verified", "unknownKey"}
          /\ to.kid = callback[c].kid /\ to.home = callback[c].home
          /\ to.pc = "verified" <=> callback[c].kid \in jwks[HomeOf(c)].keys
        BY <1>1 DEF Decided, KeyVerdict
    <2>3. callback[c].pc = "token" /\ signing[callback[c].kid].state # "made"
        BY <1>6 DEF VerifyCached, Stands, TokenInv, Verifying
    <2>4. /\ SeenAt(jwks[HomeOf(c)].keys, jwks[HomeOf(c)].at, Transit)
          /\ hour < jwks[HomeOf(c)].at + JwksCache
        BY <1>1, <1>6 DEF VerifyCached, CacheFresh, CacheInv, HomeOf
    <2>5. /\ callback[c].kid \in Kid /\ jwks[HomeOf(c)].at \in Nat
          /\ signing[callback[c].kid]
                \in [state : {"made", "published", "withdrawn"}, from : Nat, until : Nat]
        BY <1>1 DEF OidcTypeOK, HomeOf
    <2>6. to.pc = "verified" /\ signing[to.kid].state = "withdrawn" =>
              hour < signing[to.kid].until + JwksCache + Transit
        BY <1>2, <2>2, <2>4, <2>5 DEF SeenAt
    <2>7. to.pc = "unknownKey" /\ signing[to.kid].state # "withdrawn" =>
              hour < signing[to.kid].from + JwksCache + Transit
        BY <1>2, <2>2, <2>3, <2>4, <2>5 DEF SeenAt
    <2>8. OneAtATime(c, to.home) /\ UNCHANGED <<signing, jwks, users, hour>>
        BY <1>6, <2>2 DEF VerifyCached, HomeOf
    <2> HIDE DEF to
    <2> QED
        BY <2>1, <2>2, <2>3, <2>6, <2>7, <2>8, CallbackKeeps DEF Decided, Verifying

<1>7. ASSUME NEW c \in Callback, VerifyFetched(c)
      PROVE  OidcInv'
    <2> DEFINE i == HomeOf(c)
               cache == [fetched |-> TRUE, keys |-> callback[c].sent, at |-> hour]
               to == [callback[c] EXCEPT !.pc = KeyVerdict(c, callback[c].sent)]
    <2>1. callback' = [callback EXCEPT ![c] = to] /\ jwks' = [jwks EXCEPT ![i] = cache]
        BY <1>7 DEF VerifyFetched, Reach
    <2>2. /\ to \in Records /\ to.pc \in {"verified", "unknownKey"}
          /\ to.kid = callback[c].kid /\ to.home = i
          /\ to.pc = "verified" <=> callback[c].kid \in callback[c].sent
        BY <1>1 DEF Decided, KeyVerdict, HomeOf
    <2>3. callback[c].pc = "answered" /\ signing[callback[c].kid].state # "made"
        BY <1>7 DEF VerifyFetched, Stands, TokenInv, Verifying
    <2>4. /\ SeenAt(callback[c].sent, callback[c].at, 0)
          /\ hour <= callback[c].at + Transit
        BY <2>3 DEF CacheInv
    <2>5. /\ callback[c].kid \in Kid /\ callback[c].at \in Nat /\ i \in Instance
          /\ callback[c].sent \in SUBSET Kid
        BY <1>1 DEF HomeOf
    <2>6. \A k \in Kid : signing[k] \in [state : {"made", "published", "withdrawn"},
                                         from : Nat, until : Nat]
        BY DEF OidcTypeOK
    <2>7. SeenAt(callback[c].sent, hour, Transit)
        BY <1>2, <2>4, <2>5, <2>6 DEF SeenAt
    <2>8. to.pc = "verified" /\ signing[to.kid].state = "withdrawn" =>
              hour < signing[to.kid].until + JwksCache + Transit
        BY <1>2, <2>2, <2>5, <2>6, <2>7 DEF SeenAt
    <2>9. to.pc = "unknownKey" /\ signing[to.kid].state # "withdrawn" =>
              hour < signing[to.kid].from + JwksCache + Transit
        BY <1>2, <2>2, <2>3, <2>5, <2>6, <2>7 DEF SeenAt
    <2>10. OneAtATime(c, to.home) /\ UNCHANGED <<signing, users, hour>>
        BY <1>7, <2>2 DEF VerifyFetched
    \* The cache is replaced under the same stamp.
    <2>11. /\ jwks' \in [Instance -> [fetched : BOOLEAN, keys : SUBSET Kid, at : Nat]]
           /\ \A j \in Instance : jwks'[j].fetched =>
                 jwks'[j].at <= hour /\ SeenAt(jwks'[j].keys, jwks'[j].at, Transit)
        <3>1. /\ jwks'[i] = cache /\ \A j \in Instance \ {i} : jwks'[j] = jwks[j]
              /\ jwks' \in [Instance -> [fetched : BOOLEAN, keys : SUBSET Kid, at : Nat]]
            BY <1>2, <2>1, <2>5 DEF OidcTypeOK
        <3>2. cache.fetched /\ cache.keys = callback[c].sent /\ cache.at = hour
            OBVIOUS
        <3> HIDE DEF cache, i
        <3>3. ASSUME NEW j \in Instance, jwks'[j].fetched
              PROVE  jwks'[j].at <= hour /\ SeenAt(jwks'[j].keys, jwks'[j].at, Transit)
            <4>1. CASE j = i
                BY <1>2, <2>7, <3>1, <3>2, <4>1
            <4>2. CASE j # i
                BY <3>1, <3>3, <4>2 DEF CacheInv
            <4> QED
                BY <4>1, <4>2
        <3> QED
            BY <3>1, <3>3
    <2> HIDE DEF to, cache, i
    <2> QED
        BY <2>1, <2>2, <2>3, <2>8, <2>9, <2>10, <2>11, CallbackKeeps
        DEF Decided, Verifying
<1>8. ASSUME NEW c \in Callback, LoginFails(c) \/ RefuseToken(c)
      PROVE  OidcInv'
    <2> DEFINE to == [pc |-> "failed", home |-> callback[c].home,
                      sub |-> callback[c].sub, kid |-> FirstKid, sent |-> {}, at |-> 0]
    <2>1. callback' = [callback EXCEPT ![c] = to]
        BY <1>8 DEF LoginFails, RefuseToken, Leave, Placed
    <2>2. to \in Records /\ to.pc = "failed"
        BY <1>1, <1>2 DEF Over
    <2>3. callback[c].pc \in Verifying \cup {"unknownKey"}
        BY <1>8 DEF LoginFails, RefuseToken, Stands
    <2> HIDE DEF to
    <2> QED
        BY <1>8, <2>1, <2>2, <2>3, CallbackKeeps
        DEF LoginFails, RefuseToken, Decided, Verifying
<1>9. ASSUME NEW c \in Callback, LookUpUser(c)
      PROVE  OidcInv'
    <2> DEFINE to == [callback[c] EXCEPT !.pc = IF callback[c].sub \in users
                                                THEN "known" ELSE "new"]
    <2>1. callback' = [callback EXCEPT ![c] = to]
        BY <1>9 DEF LookUpUser, Reach
    <2>2. /\ to \in Records /\ to.pc \in {"known", "new"} /\ to.kid = callback[c].kid
          /\ to.home = callback[c].home /\ to.sub = callback[c].sub
          /\ to.pc = "new" => to.sub \notin users
        BY <1>1 DEF Decided
    <2>3. callback[c].pc = "verified"
        BY <1>9 DEF LookUpUser, Stands
    <2>4. signing[callback[c].kid].state # "made" /\ OneAtATime(c, callback[c].home)
        BY <2>3 DEF TokenInv, Verifying, Decided, TurnInv, OneAtATime
    <2>5. signing[callback[c].kid].state = "withdrawn" =>
              hour < signing[callback[c].kid].until + JwksCache + Transit
        BY <2>3 DEF WithdrawnKeyFades, Decided
    <2> HIDE DEF to
    <2> QED
        BY <1>9, <2>1, <2>2, <2>3, <2>4, <2>5, CallbackKeeps
        DEF LookUpUser, Decided, Verifying
<1>10. ASSUME NEW c \in Callback, StoreUser(c)
      PROVE  OidcInv'
    <2> DEFINE refused == callback[c].pc = "new" /\ callback[c].sub \in users
               to == [pc |-> IF refused THEN "conflict" ELSE "in",
                      home |-> callback[c].home,
                      sub |-> callback[c].sub, kid |-> FirstKid, sent |-> {}, at |-> 0]
    <2>1. /\ callback' = [callback EXCEPT ![c] = to]
          /\ users' = users \cup {callback[c].sub}
        BY <1>10 DEF StoreUser, Leave, Placed, Stands
    <2>2. /\ to \in Records /\ to.pc = IF refused THEN "conflict" ELSE "in"
          /\ to.home = callback[c].home /\ to.sub = callback[c].sub
        BY <1>1, <1>2 DEF Over
    <2>3. callback[c].pc \in {"known", "new"} /\ UNCHANGED <<signing, jwks, hour>>
        BY <1>10 DEF StoreUser, Stands
    <2>4. refused => \E d \in Callback : /\ callback[d].pc = "in"
                                         /\ callback[d].home # callback[c].home
                                         /\ callback[d].sub = callback[c].sub
        BY DEF TieInv
    <2> HIDE DEF to
    <2>5. CASE refused
        <3>1. users' = users
            BY <2>1, <2>5
        <3> QED
            BY <2>1, <2>2, <2>3, <2>4, <2>5, <3>1, CallbackKeeps DEF Decided, Verifying
    <2>6. CASE ~refused
        <3>1. users' = users \cup {to.sub} /\ to.pc = "in" /\ to.sub \in users'
            BY <2>1, <2>2, <2>6
        <3> QED
            BY <2>1, <2>2, <2>3, <3>1, CallbackKeeps DEF Decided, Verifying
    <2> QED
        BY <2>5, <2>6

<1>11. ASSUME NEW i \in Instance, OidcRestart(i)
       PROVE  OidcInv'
    <2>1. /\ UNCHANGED <<signing, users, hour>>
          /\ jwks' = [jwks EXCEPT ![i] = Cold]
          /\ \A c \in Callback :
                \/ callback'[c] = callback[c]
                \/ /\ callback'[c] = Placed("failed", i, callback[c].sub)
                   /\ callback[c].pc \notin {"code"} \cup Over
        BY <1>11 DEF OidcRestart
    <2>2. \A c \in Callback :
             \/ callback'[c] = callback[c]
             \/ /\ callback'[c].pc = "failed" /\ callback'[c] \in Records
                /\ callback[c].pc \notin {"in", "conflict"}
        <3>1. ASSUME NEW c \in Callback
              PROVE  /\ Placed("failed", i, callback[c].sub) \in Records
                     /\ Placed("failed", i, callback[c].sub).pc = "failed"
            <4>1. callback[c].sub \in Sub
                BY <1>1
            <4>2. "failed" \in Over
                BY DEF Over
            <4> QED
                BY <1>2, <4>1, <4>2 DEF Placed
        <3> HIDE DEF Records
        <3> QED
            BY <2>1, <3>1 DEF Over
    <2>3. callback' \in [Callback -> Records]
        BY <1>1, <1>11, <2>2 DEF OidcRestart
    <2>4. OidcTypeOK'
        BY <2>1, <2>3 DEF OidcTypeOK, Cold
    <2>5. CacheInv'
        BY <2>1, <2>2 DEF CacheInv, SeenAt, Cold, OidcTypeOK
    <2>6. TokenInv' /\ TurnInv' /\ TieInv'
        <3>1. TokenInv'
            BY <2>1, <2>2 DEF TokenInv, Verifying, Decided
        <3>2. TurnInv'
            BY <2>2 DEF TurnInv, Decided
        <3>3. ASSUME NEW c \in Callback, callback'[c].pc = "new",
                     callback'[c].sub \in users
              PROVE  \E d \in Callback : /\ callback'[d].pc = "in"
                                         /\ callback'[d].home # callback'[c].home
                                         /\ callback'[d].sub = callback'[c].sub
            <4>1. callback'[c] = callback[c]
                BY <2>2, <3>3
            <4>2. PICK d \in Callback : /\ callback[d].pc = "in"
                                        /\ callback[d].home # callback[c].home
                                        /\ callback[d].sub = callback[c].sub
                BY <3>3, <4>1 DEF TieInv
            <4> QED
                BY <2>2, <4>1, <4>2
        <3> QED
            BY <2>1, <3>1, <3>2, <3>3 DEF TieInv
    <2>7. WithdrawnKeyFades' /\ NewKeyIsLearnt'
        BY <2>1, <2>2 DEF WithdrawnKeyFades, NewKeyIsLearnt, Stands, Decided
    <2>8. OneFirstLogin'
        <3>1. ASSUME NEW c \in Callback, callback'[c].pc = "conflict"
              PROVE  \E d \in Callback : /\ callback'[d].pc = "in"
                                         /\ callback'[d].home # callback'[c].home
                                         /\ callback'[d].sub = callback'[c].sub
            <4>1. callback'[c] = callback[c]
                BY <2>2, <3>1
            <4>2. PICK d \in Callback : /\ callback[d].pc = "in"
                                        /\ callback[d].home # callback[c].home
                                        /\ callback[d].sub = callback[c].sub
                BY <3>1, <4>1 DEF OneFirstLogin, Stands, HomeOf
            <4> QED
                BY <2>2, <4>1, <4>2
        <3>2. \A c \in Callback : callback'[c].pc = "in" => callback'[c].sub \in users
            BY <2>2 DEF OneFirstLogin, Stands
        <3> QED
            BY <2>1, <3>1, <3>2 DEF OneFirstLogin, Stands, HomeOf
    <2> QED
        BY <2>4, <2>5, <2>6, <2>7, <2>8
<1>12. CASE OidcTick
    <2>1. /\ UNCHANGED <<signing, jwks, callback, users>> /\ hour' = hour + 1
          /\ hour < LastHour
          /\ \A c \in Callback : /\ callback[c].pc \notin Decided
                                 /\ callback[c].pc = "answered" =>
                                       hour < callback[c].at + Transit
        BY <1>12 DEF OidcTick, Stands
    <2>2. OidcTypeOK'
        BY <1>2, <2>1 DEF OidcTypeOK
    <2>3. CacheInv'
        <3>1. \A k \in Kid : signing[k].from \in Nat /\ signing[k].until \in Nat
            BY DEF OidcTypeOK
        <3>2. \A j \in Instance : jwks[j].at \in Nat
            BY DEF OidcTypeOK
        <3>3. \A c \in Callback : callback[c].at \in Nat
            BY <1>1
        <3> QED
            BY <1>2, <2>1, <3>1, <3>2, <3>3 DEF CacheInv, SeenAt
    <2>4. TokenInv' /\ TurnInv' /\ TieInv'
        BY <2>1 DEF TokenInv, TurnInv, TieInv
    <2>5. WithdrawnKeyFades' /\ NewKeyIsLearnt' /\ OneFirstLogin'
        BY <2>1 DEF WithdrawnKeyFades, NewKeyIsLearnt, OneFirstLogin, Stands, HomeOf,
           Decided
    <2> QED
        BY <2>2, <2>3, <2>4, <2>5
<1>13. CASE UNCHANGED oidcVars
    BY <1>13 DEF oidcVars, OidcTypeOK, CacheInv, SeenAt, TokenInv, TurnInv, TieInv,
       WithdrawnKeyFades, NewKeyIsLearnt, OneFirstLogin, Stands, HomeOf
<1>14. ASSUME NEW k \in Kid, Publish(k) \/ Withdraw(k)
       PROVE  OidcInv'
    BY <1>14, ProviderKeeps
<1> QED
    BY <1>3, <1>4, <1>5, <1>6, <1>7, <1>8, <1>9, <1>10, <1>11, <1>12, <1>13, <1>14
    DEF OidcNext

\* Whatever keys the provider publishes and withdraws and whichever answers
\* overtake each other: a withdrawn key lets nobody in for longer than caches
\* and answers last, a new one is refused no longer, and of two first logins of
\* one subject at most the second is refused.
THEOREM LoginsAreSound == OidcSpec => []LoginsSound
<1>1. OidcInv => LoginsSound
    BY DEF OidcInv, LoginsSound
<1> QED
    BY OidcInitInv, OidcStepInv, <1>1, PTL DEF OidcSpec

-----------------------------------------------------------------------------
(* Tenants.                                                                *)

\* What a request says of itself; the name of a requirement is its number.
ReqTypeOK ==
    req \in [Req -> [pc : {"new", "look", "insert", "key", "roster", "answered",
                           "refused", "failed", "died"},
                     kind : RowKinds \cup {"none"}, name : Slug \cup Nat]]

\* The requirements are numbered from 1, and a number that was drawn but not
\* inserted is the next or one that is taken by now.
NumberInv ==
    \E n \in Nat :
        /\ Refs = 1..n
        /\ \A r \in Req : req[r].pc = "insert" /\ req[r].kind = "requirement" =>
              req[r].name \in 1..(n + 1)

\* Names are unique within a kind, and rows are what their requests asked for.
RowInv ==
    /\ \A row_, other \in rows :
          row_.kind = other.kind /\ row_.name = other.name => row_ = other
    /\ \A row_ \in rows : row_.kind = "organization" =>
          Whole(row_.by) \/ req[row_.by].pc \in {"key", "roster", "died"}
    /\ \A r \in Req :
          /\ req[r].pc \in {"look", "insert"} => req[r].kind \in RowKinds
          /\ req[r].pc = "roster" => r \in keyed
          /\ req[r].pc = "refused" =>
                /\ req[r].kind \in {"organization", "project"}
                /\ NameTaken(req[r].kind, req[r].name)

TenancyInv == TenancyTypeOK /\ ReqTypeOK /\ NumberInv /\ RowInv

\* It holds at the start.
LEMMA TenancyInitInv == TenancyInit => TenancyInv
<1> SUFFICES ASSUME TenancyInit PROVE TenancyInv
    OBVIOUS
<1>1. /\ rows = {} /\ keyed = {} /\ rostered = {}
      /\ req = [r \in Req |-> [pc |-> "new", kind |-> "none", name |-> 0]]
    BY DEF TenancyInit
<1>2. TenancyTypeOK /\ ReqTypeOK /\ RowInv
    BY <1>1 DEF TenancyTypeOK, ReqTypeOK, RowInv
<1>3. Refs = 1..0
    BY <1>1 DEF Refs
<1> QED
    BY <1>1, <1>2, <1>3 DEF TenancyInv, NumberInv

\* A step of one request that writes no row: what is left to be shown is what
\* it says of itself.
LEMMA RequestKeeps ==
    ASSUME TenancyInv, NEW r \in Req, rows' = rows,
           NEW to \in [pc : {"look", "insert", "key", "roster", "answered",
                             "refused", "failed", "died"},
                       kind : RowKinds \cup {"none"}, name : Slug \cup Nat],
           req' = [req EXCEPT ![r] = to],
           keyed \subseteq keyed', keyed' \subseteq keyed \cup {r},
           rostered \subseteq rostered', rostered' \subseteq rostered \cup {r},
           to.pc = "insert" /\ to.kind = "requirement" =>
              to.name \in 1..(Cardinality(Refs) + 1),
           req[r].pc \in {"key", "roster"} =>
              to.pc \in {"key", "roster", "died"} \/ (r \in keyed' /\ r \in rostered'),
           req[r].pc # "died",
           to.pc \in {"look", "insert"} => to.kind \in RowKinds,
           to.pc = "roster" => r \in keyed',
           to.pc = "refused" => /\ to.kind \in {"organization", "project"}
                                /\ NameTaken(to.kind, to.name)
    PROVE  TenancyInv'
<1> USE DEF TenancyInv
<1>1. req'[r] = to /\ \A q \in Req \ {r} : req'[q] = req[q]
    BY DEF ReqTypeOK
<1>2. TenancyTypeOK' /\ ReqTypeOK'
    BY <1>1 DEF TenancyTypeOK, ReqTypeOK
<1>3. NumberInv'
    <2>1. PICK n \in Nat :
              /\ Refs = 1..n
              /\ \A q \in Req : req[q].pc = "insert" /\ req[q].kind = "requirement" =>
                    req[q].name \in 1..(n + 1)
        BY DEF NumberInv
    <2>2. Cardinality(Refs) = n
        BY <2>1, FS_Interval
    <2>3. Refs' = Refs
        BY DEF Refs
    <2>4. \A q \in Req : req'[q].pc = "insert" /\ req'[q].kind = "requirement" =>
              req'[q].name \in 1..(n + 1)
        BY <1>1, <2>1, <2>2
    <2> QED
        BY <2>1, <2>3, <2>4 DEF NumberInv
<1>4. RowInv'
    <2>1. ASSUME NEW x \in rows, x.kind = "organization"
          PROVE  \/ x.by \in keyed' /\ x.by \in rostered'
                 \/ req'[x.by].pc \in {"key", "roster", "died"}
        <3>1. x.by \in Req
            BY DEF TenancyTypeOK
        <3>2. \/ x.by \in keyed /\ x.by \in rostered
              \/ req[x.by].pc \in {"key", "roster", "died"}
            BY <2>1 DEF RowInv, Whole
        <3> QED
            BY <1>1, <3>1, <3>2
    <2>2. ASSUME NEW q \in Req
          PROVE  /\ req'[q].pc \in {"look", "insert"} => req'[q].kind \in RowKinds
                 /\ req'[q].pc = "roster" => q \in keyed'
                 /\ req'[q].pc = "refused" =>
                      /\ req'[q].kind \in {"organization", "project"}
                      /\ NameTaken(req'[q].kind, req'[q].name)
        BY <1>1 DEF RowInv
    <2> QED
        BY <2>1, <2>2 DEF RowInv, NameTaken, Whole
<1> QED
    BY <1>2, <1>3, <1>4

\* Every statement of every handler keeps it.
LEMMA TenancyStepInv == TenancyInv /\ [TenancyNext]_tenVars => TenancyInv'
<1> SUFFICES ASSUME TenancyInv, [TenancyNext]_tenVars PROVE TenancyInv'
    OBVIOUS
<1> USE DEF TenancyInv
<1> DEFINE Records == [pc : {"look", "insert", "key", "roster", "answered",
                             "refused", "failed", "died"},
                       kind : RowKinds \cup {"none"}, name : Slug \cup Nat]
<1>1. ASSUME NEW r \in Req,
             NEW pc \in {"look", "insert", "key", "roster", "answered", "refused",
                         "failed", "died"},
             Goto(r, pc)
      PROVE  \E to \in Records :
                /\ to.pc = pc /\ to.kind = req[r].kind /\ to.name = req[r].name
                /\ req' = [req EXCEPT ![r] = to]
    <2> DEFINE to == [req[r] EXCEPT !.pc = pc]
    <2>1. /\ to \in Records
          /\ to.pc = pc /\ to.kind = req[r].kind /\ to.name = req[r].name
        BY DEF ReqTypeOK
    <2>2. req' = [req EXCEPT ![r] = to]
        BY <1>1 DEF Goto
    <2> HIDE DEF to
    <2> QED
        BY <2>1, <2>2
<1>3. PICK n \in Nat :
          /\ Refs = 1..n /\ Cardinality(Refs) = n
          /\ \A q \in Req : req[q].pc = "insert" /\ req[q].kind = "requirement" =>
                req[q].name \in 1..(n + 1)
    <2>1. PICK n \in Nat :
             /\ Refs = 1..n
             /\ \A q \in Req : req[q].pc = "insert" /\ req[q].kind = "requirement" =>
                   req[q].name \in 1..(n + 1)
        BY DEF NumberInv
    <2>2. Cardinality(1..n) = n
        BY FS_Interval
    <2> QED
        BY <2>1, <2>2
<1>4. ASSUME NEW r \in Req, NEW kind \in RowKinds, NEW name \in Slug, Ask(r, kind, name)
      PROVE  TenancyInv'
    <2> DEFINE to == [pc |-> "look", kind |-> kind, name |-> name]
    <2>1. /\ to \in Records /\ req' = [req EXCEPT ![r] = to] /\ to.pc = "look"
          /\ to.kind = kind
        BY <1>4 DEF Ask
    <2> HIDE DEF to
    <2> QED
        BY <1>4, <2>1, RequestKeeps DEF Ask, AtStep
<1>5. ASSUME NEW r \in Req, LookForSlug(r)
      PROVE  TenancyInv'
    <2>1. PICK pc \in {"refused", "insert"} :
              /\ Goto(r, pc)
              /\ pc = "refused" => NameTaken(req[r].kind, req[r].name)
        BY <1>5 DEF LookForSlug
    <2>2. PICK to \in Records :
              /\ to.pc = pc /\ to.kind = req[r].kind /\ to.name = req[r].name
              /\ req' = [req EXCEPT ![r] = to]
        BY <1>1, <2>1
    <2>3. /\ req[r].kind \in {"organization", "project"} /\ req[r].pc = "look"
          /\ req[r].kind \in RowKinds
        BY <1>5 DEF LookForSlug, AtStep, RowKinds
    <2> QED
        BY <1>5, <2>1, <2>2, <2>3, RequestKeeps DEF LookForSlug
<1>6. ASSUME NEW r \in Req, LookForMember(r)
      PROVE  TenancyInv'
    <2>1. PICK pc \in {"answered", "insert"} : Goto(r, pc)
        BY <1>6 DEF LookForMember
    <2>2. PICK to \in Records :
              /\ to.pc = pc /\ to.kind = req[r].kind
              /\ req' = [req EXCEPT ![r] = to]
        BY <1>1, <2>1
    <2>3. req[r].kind = "agent" /\ req[r].pc = "look" /\ "agent" \in RowKinds
        BY <1>6 DEF LookForMember, AtStep, RowKinds
    <2> QED
        BY <1>6, <2>2, <2>3, RequestKeeps DEF LookForMember
<1>7. ASSUME NEW r \in Req, CountRefs(r)
      PROVE  TenancyInv'
    <2> DEFINE to == [pc |-> "insert", kind |-> "requirement",
                      name |-> Cardinality(Refs) + 1]
    <2>1. /\ req[r].pc = "look" /\ req[r].kind = "requirement"
          /\ req' = [req EXCEPT ![r] = to] /\ UNCHANGED <<rows, keyed, rostered>>
        BY <1>7 DEF CountRefs, AtStep
    <2>2. /\ to \in Records /\ to.pc = "insert" /\ to.kind \in RowKinds
          /\ to.name = Cardinality(Refs) + 1
        <3>1. Cardinality(Refs) + 1 \in Nat
            BY <1>3
        <3> QED
            BY <3>1 DEF RowKinds
    <2>3. to.name \in 1..(Cardinality(Refs) + 1)
        BY <1>3, <2>2
    <2> HIDE DEF to
    <2> QED
        BY <2>1, <2>2, <2>3, RequestKeeps
<1>8. ASSUME NEW r \in Req, CreateOwnerKey(r)
      PROVE  TenancyInv'
    <2>1. PICK to \in Records : to.pc = "roster" /\ req' = [req EXCEPT ![r] = to]
        BY <1>1, <1>8 DEF CreateOwnerKey
    <2>2. req[r].pc = "key" /\ keyed' = keyed \cup {r} /\ UNCHANGED <<rows, rostered>>
        BY <1>8 DEF CreateOwnerKey, AtStep
    <2> QED
        BY <2>1, <2>2, RequestKeeps
<1>9. ASSUME NEW r \in Req, SeedRoster(r)
      PROVE  TenancyInv'
    <2>1. PICK to \in Records : to.pc = "answered" /\ req' = [req EXCEPT ![r] = to]
        BY <1>1, <1>9 DEF SeedRoster
    <2>2. req[r].pc = "roster" /\ rostered' = rostered \cup {r} /\ UNCHANGED <<rows, keyed>>
        BY <1>9 DEF SeedRoster, AtStep
    <2>3. r \in keyed
        BY <2>2 DEF RowInv
    <2> QED
        BY <2>1, <2>2, <2>3, RequestKeeps
<1>10. ASSUME NEW r \in Req, RequestDies(r)
       PROVE  TenancyInv'
    <2>1. PICK to \in Records : to.pc = "died" /\ req' = [req EXCEPT ![r] = to]
        BY <1>1, <1>10 DEF RequestDies
    <2> QED
        BY <1>10, <2>1, RequestKeeps DEF RequestDies
<1>11. ASSUME NEW r \in Req, InsertRow(r), NameTaken(req[r].kind, req[r].name)
       PROVE  TenancyInv'
    <2>1. PICK to \in Records : to.pc = "failed" /\ req' = [req EXCEPT ![r] = to]
        BY <1>1, <1>11 DEF InsertRow
    <2> QED
        BY <1>11, <2>1, RequestKeeps DEF InsertRow, AtStep
<1>12. ASSUME NEW r \in Req, InsertRow(r), ~NameTaken(req[r].kind, req[r].name)
       PROVE  TenancyInv'
    <2> DEFINE new == [kind |-> req[r].kind, name |-> req[r].name, by |-> r]
               pc == IF req[r].kind = "organization" THEN "key" ELSE "answered"
    <2>1. /\ rows' = rows \cup {new} /\ UNCHANGED <<keyed, rostered>>
          /\ req[r].pc = "insert" /\ req[r].kind \in RowKinds
        BY <1>12 DEF InsertRow, AtStep, RowInv
    <2>2. PICK to \in Records :
              /\ to.pc = pc /\ to.kind = req[r].kind /\ to.name = req[r].name
              /\ req' = [req EXCEPT ![r] = to]
        BY <1>1, <1>12 DEF InsertRow
    <2>3. new.kind = req[r].kind /\ new.name = req[r].name /\ new.by = r
        OBVIOUS
    <2>4. pc \in {"key", "answered"} /\ (pc = "key" <=> req[r].kind = "organization")
        OBVIOUS
    <2> HIDE DEF new, pc
    <2>5. req'[r] = to /\ \A q \in Req \ {r} : req'[q] = req[q]
        BY <2>2 DEF ReqTypeOK
    <2>6. TenancyTypeOK' /\ ReqTypeOK'
        BY <2>1, <2>2, <2>3, <2>4, <2>5 DEF TenancyTypeOK, ReqTypeOK
    <2>7. ASSUME req[r].kind = "requirement" PROVE NumberInv'
        <3>1. req[r].name \in 1..(n + 1)
            BY <1>3, <2>1, <2>7
        <3>2. req[r].name \notin Refs
            BY <1>12, <2>7 DEF NameTaken, Refs
        <3>3. req[r].name = n + 1
            BY <1>3, <3>1, <3>2
        <3>4. Refs' = Refs \cup {n + 1}
            BY <2>1, <2>3, <2>7, <3>3 DEF Refs
        <3>5. Refs' = 1..(n + 1)
            BY <1>3, <3>4
        <3>6. \A q \in Req : req'[q].pc = "insert" /\ req'[q].kind = "requirement" =>
                  req'[q].name \in 1..((n + 1) + 1)
            BY <1>3, <2>2, <2>4, <2>5
        <3> QED
            BY <3>5, <3>6 DEF NumberInv
    <2>8. ASSUME req[r].kind # "requirement" PROVE NumberInv'
        <3>1. Refs' = Refs
            BY <2>1, <2>3, <2>8 DEF Refs
        <3>2. \A q \in Req : req'[q].pc = "insert" /\ req'[q].kind = "requirement" =>
                  req'[q].name \in 1..(n + 1)
            BY <1>3, <2>2, <2>4, <2>5
        <3> QED
            BY <1>3, <3>1, <3>2 DEF NumberInv
    <2>9. RowInv'
        <3>1. ASSUME NEW x \in rows', NEW y \in rows', x.kind = y.kind, x.name = y.name
              PROVE  x = y
            BY <1>12, <2>1, <2>3, <3>1 DEF RowInv, NameTaken
        <3>2. ASSUME NEW x \in rows', x.kind = "organization"
              PROVE  Whole(x.by)' \/ req'[x.by].pc \in {"key", "roster", "died"}
            <4>1. CASE x = new
                BY <2>2, <2>3, <2>4, <2>5, <3>2, <4>1
            <4>2. CASE x \in rows
                <5>1. x.by \in Req /\ (Whole(x.by) \/ req[x.by].pc \in {"key", "roster", "died"})
                    BY <3>2, <4>2 DEF RowInv, TenancyTypeOK
                <5> QED
                    BY <2>1, <2>5, <5>1 DEF Whole
            <4> QED
                BY <2>1, <4>1, <4>2
        <3>3. ASSUME NEW q \in Req
              PROVE  /\ req'[q].pc \in {"look", "insert"} => req'[q].kind \in RowKinds
                     /\ req'[q].pc = "roster" => q \in keyed'
                     /\ req'[q].pc = "refused" =>
                          /\ req'[q].kind \in {"organization", "project"}
                          /\ NameTaken(req'[q].kind, req'[q].name)
            BY <2>1, <2>2, <2>4, <2>5 DEF RowInv
        <3>4. \A kind, name : NameTaken(kind, name) => NameTaken(kind, name)'
            BY <2>1 DEF NameTaken
        <3> QED
            BY <3>1, <3>2, <3>3, <3>4, <2>1 DEF RowInv, NameTaken
    <2> QED
        BY <2>6, <2>7, <2>8, <2>9
<1>13. ASSUME NEW r \in Req, NEW name \in Slug, RemoveMember(r, name)
       PROVE  TenancyInv'
    <2>1. PICK to \in Records : /\ to.pc = "answered" /\ req[r].pc = "new"
                                /\ req' = [req EXCEPT ![r] = to]
        BY <1>1, <1>13 DEF RemoveMember, AtStep
    <2>2. /\ rows' \subseteq rows /\ UNCHANGED <<keyed, rostered>>
          /\ \A x \in rows : x.kind # "agent" => x \in rows'
        BY <1>13 DEF RemoveMember
    <2>3. req'[r] = to /\ \A q \in Req \ {r} : req'[q] = req[q]
        BY <2>1 DEF ReqTypeOK
    <2>4. TenancyTypeOK' /\ ReqTypeOK'
        BY <2>1, <2>2, <2>3 DEF TenancyTypeOK, ReqTypeOK
    <2>5. Refs' = Refs
        BY <2>2 DEF Refs
    <2>6. NumberInv'
        BY <1>3, <2>1, <2>3, <2>5 DEF NumberInv
    <2>7. \A kind \in {"organization", "project"} :
              \A x : NameTaken(kind, x) => NameTaken(kind, x)'
        BY <2>2 DEF NameTaken
    <2>8. ASSUME NEW x \in rows', x.kind = "organization"
          PROVE  Whole(x.by)' \/ req'[x.by].pc \in {"key", "roster", "died"}
        <3>1. x.by \in Req /\ (Whole(x.by) \/ req[x.by].pc \in {"key", "roster", "died"})
            BY <2>2, <2>8 DEF RowInv, TenancyTypeOK
        <3> QED
            BY <2>1, <2>2, <2>3, <3>1 DEF Whole
    <2>9. ASSUME NEW q \in Req
          PROVE  /\ req'[q].pc \in {"look", "insert"} => req'[q].kind \in RowKinds
                 /\ req'[q].pc = "roster" => q \in keyed'
                 /\ req'[q].pc = "refused" =>
                      /\ req'[q].kind \in {"organization", "project"}
                      /\ NameTaken(req'[q].kind, req'[q].name)
        BY <2>1, <2>2, <2>3 DEF RowInv
    <2>10. RowInv'
        BY <2>2, <2>7, <2>8, <2>9 DEF RowInv, NameTaken
    <2> QED
        BY <2>4, <2>6, <2>10
<1>14. CASE UNCHANGED tenVars
    <2>1. Refs' = Refs
        BY <1>14 DEF tenVars, Refs
    <2>2. NumberInv'
        BY <1>3, <1>14, <2>1 DEF NumberInv, tenVars
    <2> QED
        BY <1>14, <2>2 DEF tenVars, TenancyTypeOK, ReqTypeOK, RowInv, NameTaken, Whole
<1> QED
    BY <1>4, <1>5, <1>6, <1>7, <1>8, <1>9, <1>10, <1>11, <1>12, <1>13, <1>14
    DEF TenancyNext

\* The invariant says that the rows are accounted for.
LEMMA TenancyInvAccounts == TenancyInv => RowsAccounted
<1> SUFFICES ASSUME TenancyInv PROVE RowsAccounted
    OBVIOUS
<1>1. Refs = 1..Cardinality(Refs)
    BY FS_Interval DEF TenancyInv, NumberInv
<1> QED
    BY <1>1 DEF TenancyInv, RowInv, RowsAccounted, AtStep

\* However many requests overlap and wherever they die: requirements are numbered
\* without gap or double, an organisation nobody can use is one whose creator
\* died or is still at it, and a slug is refused only while it is taken.
THEOREM RowsAreAccounted == TenancySpec => []RowsAccounted
<1> QED
    BY TenancyInitInv, TenancyStepInv, TenancyInvAccounts, PTL DEF TenancySpec

-----------------------------------------------------------------------------
(* Deployments: an approval each, and what undoes what.                     *)

\* First deployments to production, and those approved whose row is to come.
FirstDeployments == {d \in Deployment : /\ environment[d] = "production"
                                        /\ rollbackOf[d] = NoDeployment}
ApprovedDeployments == {d \in Deployment : handler[d] = "approved"}

\* Each of them has used up an approval.
GrantInv ==
    /\ IsFiniteSet(FirstDeployments \cup ApprovedDeployments)
    /\ Cardinality(FirstDeployments \cup ApprovedDeployments) <= used

\* A row that is not there undoes nothing and is undone by nothing; what a
\* rollback points at is there; a rollback that has been marked shows, until a
\* later report; nothing reads rolled_back without a rollback.
UndoneInv ==
    /\ \A d \in Deployment :
          /\ handler[d] \in {"none", "approved"} =>
                rollbackOf[d] = NoDeployment /\ depStatus[d] = "none"
          /\ handler[d] = "marking" => rollbackOf[d] # NoDeployment
          /\ depStatus[d] = "rolled_back" => \E r \in Deployment : rollbackOf[r] = d
          /\ rollbackOf[d] # NoDeployment =>
                /\ depStatus[rollbackOf[d]] # "none"
                /\ \/ depStatus[rollbackOf[d]] = "rolled_back"
                   \/ rollbackOf[d] \in reported
                   \/ handler[d] \in {"marking", "died"}

DeploymentsInv == DeploymentsTypeOK /\ GrantInv /\ UndoneInv

\* It holds at the start.
LEMMA DeploymentsInitInv == DeploymentsInit => DeploymentsInv
<1> SUFFICES ASSUME DeploymentsInit PROVE DeploymentsInv
    OBVIOUS
<1>1. FirstDeployments \cup ApprovedDeployments = {}
    BY DEF DeploymentsInit, FirstDeployments, ApprovedDeployments
<1>2. GrantInv
    BY <1>1, FS_EmptySet DEF GrantInv, DeploymentsInit
<1>3. DeploymentsTypeOK /\ UndoneInv
    BY DeploymentAssumption DEF DeploymentsInit, DeploymentsTypeOK, UndoneInv
<1> QED
    BY <1>2, <1>3 DEF DeploymentsInv

\* A step after which no more deployments need an approval keeps the count.
LEMMA GrantKeeps ==
    ASSUME GrantInv, DeploymentsTypeOK, DeploymentsTypeOK',
           FirstDeployments' \cup ApprovedDeployments'
                \subseteq FirstDeployments \cup ApprovedDeployments,
           used' >= used
    PROVE  GrantInv'
<1>1. /\ IsFiniteSet(FirstDeployments' \cup ApprovedDeployments')
      /\ Cardinality(FirstDeployments' \cup ApprovedDeployments')
            <= Cardinality(FirstDeployments \cup ApprovedDeployments)
    BY FS_Subset DEF GrantInv
<1>2. /\ Cardinality(FirstDeployments' \cup ApprovedDeployments') \in Nat
      /\ Cardinality(FirstDeployments \cup ApprovedDeployments) \in Nat
      /\ used \in Nat /\ used' \in Nat
    BY <1>1, FS_CardinalityType DEF GrantInv, DeploymentsTypeOK
<1> QED
    BY <1>1, <1>2 DEF GrantInv

\* A new row gets the status deploying; whichever row it is to undo is there.
LEMMA InsertKeeps ==
    ASSUME DeploymentsInv,
           NEW d \in Deployment, NEW env \in {"none", "staging", "production"},
           NEW original \in Deployment \cup {NoDeployment},
           NEW pc \in {"marking", "done"},
           InsertDeployment(d, env, original),
           handler' = [handler EXCEPT ![d] = pc],
           UNCHANGED <<granted, used, reported>>,
           handler[d] \in {"none", "approved"},
           pc = "marking" <=> original # NoDeployment,
           original # NoDeployment => depStatus[original] # "none",
           env = "production" /\ original = NoDeployment => handler[d] = "approved"
    PROVE  DeploymentsInv'
<1>1. DeploymentsTypeOK'
    BY DEF DeploymentsInv, DeploymentsTypeOK, InsertDeployment
<1>2. FirstDeployments' \cup ApprovedDeployments'
          \subseteq FirstDeployments \cup ApprovedDeployments
    BY DEF DeploymentsInv, DeploymentsTypeOK, InsertDeployment, FirstDeployments,
           ApprovedDeployments
<1>3. GrantInv'
    BY <1>1, <1>2, GrantKeeps DEF DeploymentsInv, DeploymentsTypeOK
<1>4. /\ depStatus'[d] = "deploying" /\ rollbackOf'[d] = original /\ handler'[d] = pc
      /\ \A x \in Deployment \ {d} : /\ depStatus'[x] = depStatus[x]
                                     /\ rollbackOf'[x] = rollbackOf[x]
                                     /\ handler'[x] = handler[x]
    BY DEF DeploymentsInv, DeploymentsTypeOK, InsertDeployment
<1>5. /\ depStatus[d] = "none" /\ rollbackOf[d] = NoDeployment
      /\ \A x \in Deployment : rollbackOf[x] # d
    BY DeploymentAssumption DEF DeploymentsInv, UndoneInv
<1>6. original # d
    BY <1>5, DeploymentAssumption
<1>7. ASSUME NEW x \in Deployment
      PROVE  /\ handler'[x] \in {"none", "approved"} =>
                   rollbackOf'[x] = NoDeployment /\ depStatus'[x] = "none"
             /\ handler'[x] = "marking" => rollbackOf'[x] # NoDeployment
    BY <1>4 DEF DeploymentsInv, UndoneInv
<1>8. ASSUME NEW x \in Deployment, depStatus'[x] = "rolled_back"
      PROVE  \E r \in Deployment : rollbackOf'[r] = x
    <2>1. PICK r \in Deployment : rollbackOf[r] = x
        BY <1>4, <1>8 DEF DeploymentsInv, UndoneInv
    <2> QED
        BY <1>4, <1>5, <2>1, DeploymentAssumption
<1>9. ASSUME NEW x \in Deployment, rollbackOf'[x] # NoDeployment
      PROVE  /\ depStatus'[rollbackOf'[x]] # "none"
             /\ \/ depStatus'[rollbackOf'[x]] = "rolled_back"
                \/ rollbackOf'[x] \in reported'
                \/ handler'[x] \in {"marking", "died"}
    <2>1. CASE x = d
        BY <1>4, <1>6, <1>9, <2>1
    <2>2. CASE x # d
        <3>1. rollbackOf'[x] = rollbackOf[x] /\ rollbackOf[x] \in Deployment \ {d}
            BY <1>4, <1>5, <1>9, <2>2 DEF DeploymentsInv, DeploymentsTypeOK
        <3> QED
            BY <1>4, <1>9, <2>2, <3>1 DEF DeploymentsInv, UndoneInv
    <2> QED
        BY <2>1, <2>2
<1>10. UndoneInv'
    BY <1>7, <1>8, <1>9 DEF UndoneInv
<1> QED
    BY <1>1, <1>3, <1>10 DEF DeploymentsInv

\* Every step keeps it.
LEMMA DeploymentsStepInv == DeploymentsInv /\ [DeploymentsNext]_depVars => DeploymentsInv'
<1> SUFFICES ASSUME DeploymentsInv, [DeploymentsNext]_depVars PROVE DeploymentsInv'
    OBVIOUS
<1> USE DEF DeploymentsInv
<1>1. CASE Grant
    <2>1. DeploymentsTypeOK'
        BY <1>1, DeploymentAssumption DEF Grant, DeploymentsTypeOK
    <2>2. GrantInv' /\ UndoneInv'
        BY <1>1 DEF Grant, GrantInv, UndoneInv, FirstDeployments, ApprovedDeployments
    <2> QED
        BY <2>1, <2>2
<1>2. ASSUME NEW d \in Deployment, AssertApproved(d)
      PROVE  DeploymentsInv'
    <2>1. DeploymentsTypeOK'
        BY <1>2, DeploymentAssumption DEF AssertApproved, DeploymentsTypeOK
    <2>2. FirstDeployments' \cup ApprovedDeployments'
              = (FirstDeployments \cup ApprovedDeployments) \cup {d}
        BY <1>2 DEF AssertApproved, FirstDeployments, ApprovedDeployments,
                    DeploymentsTypeOK
    <2> DEFINE S == FirstDeployments \cup ApprovedDeployments
    <2>3. IsFiniteSet(S) /\ Cardinality(S) \in Nat /\ Cardinality(S) <= used
        BY FS_CardinalityType DEF GrantInv
    <2> HIDE DEF S
    <2>4. IsFiniteSet(S \cup {d}) /\ Cardinality(S \cup {d}) <= Cardinality(S) + 1
        BY <2>3, FS_AddElement
    <2>5. Cardinality(S \cup {d}) \in Nat /\ used \in Nat /\ used' = used + 1
        BY <1>2, <2>4, FS_CardinalityType DEF AssertApproved, DeploymentsTypeOK
    <2>6. Cardinality(S \cup {d}) <= used'
        BY <2>3, <2>4, <2>5
    <2>7. GrantInv'
        BY <2>2, <2>4, <2>6 DEF GrantInv, S
    <2>8. UndoneInv'
        BY <1>2 DEF AssertApproved, NextFree, UndoneInv, DeploymentsTypeOK
    <2> QED
        BY <2>1, <2>7, <2>8
<1>3. ASSUME NEW d \in Deployment, MarkRolledBack(d)
      PROVE  DeploymentsInv'
    <2>1. rollbackOf[d] \in Deployment
        BY <1>3 DEF MarkRolledBack, UndoneInv, DeploymentsTypeOK
    <2>2. DeploymentsTypeOK'
        BY <1>3, <2>1 DEF MarkRolledBack, DeploymentsTypeOK
    <2>3. GrantInv'
        BY <1>3, <2>2, GrantKeeps
        DEF MarkRolledBack, DeploymentsTypeOK, FirstDeployments, ApprovedDeployments
    <2>4. UndoneInv'
        BY <1>3, <2>1 DEF MarkRolledBack, UndoneInv, DeploymentsTypeOK
    <2> QED
        BY <2>2, <2>3, <2>4
<1>4. ASSUME NEW d \in Deployment, HandlerDies(d)
      PROVE  DeploymentsInv'
    <2>1. DeploymentsTypeOK'
        BY <1>4 DEF HandlerDies, DeploymentsTypeOK
    <2>2. GrantInv'
        BY <1>4, <2>1, GrantKeeps
        DEF HandlerDies, DeploymentsTypeOK, FirstDeployments, ApprovedDeployments
    <2>3. UndoneInv'
        BY <1>4 DEF HandlerDies, UndoneInv, DeploymentsTypeOK
    <2> QED
        BY <2>1, <2>2, <2>3
<1>5. ASSUME NEW d \in Deployment, NEW env \in {"staging", "production"},
             StartDeployment(d, env)
      PROVE  DeploymentsInv'
    BY <1>5, InsertKeeps DEF StartDeployment, NextFree
<1>6. ASSUME NEW d \in Deployment, NEW original \in Deployment,
             InsertRollback(d, original)
      PROVE  DeploymentsInv'
    <2>1. environment[original] \in {"none", "staging", "production"}
        BY DEF DeploymentsTypeOK
    <2> QED
        BY <1>6, <2>1, InsertKeeps, DeploymentAssumption DEF InsertRollback, NextFree
<1>7. ASSUME NEW d \in Deployment, NEW outcome \in {"succeeded", "failed"},
             Report(d, outcome)
      PROVE  DeploymentsInv'
    <2>1. DeploymentsTypeOK'
        BY <1>7 DEF Report, DeploymentsTypeOK
    <2>2. GrantInv'
        BY <1>7, <2>1, GrantKeeps
        DEF Report, DeploymentsTypeOK, FirstDeployments, ApprovedDeployments
    <2>3. UndoneInv'
        BY <1>7 DEF Report, UndoneInv, DeploymentsTypeOK
    <2> QED
        BY <2>1, <2>2, <2>3
<1>8. CASE UNCHANGED depVars
    BY <1>8 DEF depVars, DeploymentsTypeOK, GrantInv, UndoneInv, FirstDeployments,
                ApprovedDeployments
<1> QED
    BY <1>1, <1>2, <1>3, <1>4, <1>5, <1>6, <1>7, <1>8 DEF DeploymentsNext

\* The invariant explains the deployments.
LEMMA DeploymentsInvExplains == DeploymentsInv => DeploymentsExplained
<1> SUFFICES ASSUME DeploymentsInv PROVE DeploymentsExplained
    OBVIOUS
<1>1. /\ IsFiniteSet(FirstDeployments)
      /\ Cardinality(FirstDeployments)
            <= Cardinality(FirstDeployments \cup ApprovedDeployments)
    BY FS_Subset DEF DeploymentsInv, GrantInv
<1>2. /\ Cardinality(FirstDeployments) \in Nat /\ used \in Nat
      /\ Cardinality(FirstDeployments \cup ApprovedDeployments) \in Nat
    BY <1>1, FS_CardinalityType DEF DeploymentsInv, GrantInv, DeploymentsTypeOK
<1>3. Cardinality(FirstDeployments) <= used
    BY <1>1, <1>2 DEF DeploymentsInv, GrantInv
<1> QED
    BY <1>3 DEF DeploymentsInv, UndoneInv, DeploymentsExplained, FirstDeployments

\* However many rollbacks, reports and deaths of handlers: every first deployment
\* to production has an approval of its own, and what was undone says so.
THEOREM DeploymentsAreExplained == DeploymentsSpec => []DeploymentsExplained
<1> QED
    BY DeploymentsInitInv, DeploymentsStepInv, DeploymentsInvExplains, PTL
    DEF DeploymentsSpec

-----------------------------------------------------------------------------
(* Task cards: the acknowledgement an acceptance is answered.               *)

Calls == [pc : {"idle", "update", "reread", "answered"},
          want : CardStatus \cup {"none"}, saw : Token \cup {NoToken}]
Cards == [status : CardStatus \cup {"none"}, ack_token : Token \cup {NoToken}]

CardsTyped ==
    /\ card \in Cards
    /\ call \in [Partner -> Calls]
    /\ reply \in [Partner -> Token \cup {NoToken}]

\* A call asks for a status, of a card that is there.
AskedInv ==
    \A c \in Partner : call[c].pc # "idle" =>
        card.status # "none" /\ call[c].want # "none"

\* A token that was read or answered is never taken off the card, and an
\* acceptance is answered one.
AckInv ==
    \A c \in Partner :
        /\ call[c].pc # "idle" /\ call[c].saw # NoToken => card.ack_token # NoToken
        /\ call[c].pc \in {"reread", "answered"} /\ call[c].want = "accepted" =>
              card.ack_token # NoToken
        /\ call[c].pc = "answered" /\ call[c].want = "accepted" =>
              /\ reply[c] # NoToken
              /\ overlapped \/ reply[c] = card.ack_token

\* Unless acceptances overlapped, one that will mint a token is the only one
\* there is.
OnlyInv ==
    ~overlapped => \A c \in Minting : \A o \in Partner \ {c} :
                        call[o].pc # "idle" => call[o].want # "accepted"

CardsInv == CardsTyped /\ AskedInv /\ AckInv /\ OnlyInv

\* It holds at the start.
LEMMA CardsInitInv == CardsInit => CardsInv
<1> SUFFICES ASSUME CardsInit PROVE CardsInv
    OBVIOUS
<1>1. CardsTyped
    BY DEF CardsInit, CardsTyped, Cards, Calls
<1>2. \A c \in Partner : call[c].pc = "idle" /\ call[c].saw = NoToken
    BY DEF CardsInit
<1> QED
    BY <1>1, <1>2 DEF CardsInv, AskedInv, AckInv, OnlyInv, Minting

\* Every step keeps it.
LEMMA CardsStepInv == CardsInv /\ [CardsNext]_cardVars => CardsInv'
<1> SUFFICES ASSUME CardsInv, [CardsNext]_cardVars PROVE CardsInv'
    OBVIOUS
<1> USE CardAssumption DEF CardsInv
<1>1. ASSUME NEW s \in CardStatus, NEW t \in Token \cup {NoToken}, CreateCard(s, t)
      PROVE  CardsInv'
    <2>1. \A c \in Partner : call[c].pc = "idle"
        BY <1>1 DEF CreateCard, AskedInv
    <2>2. CardsTyped'
        <3>1. [status |-> s, ack_token |-> t] \in Cards
            BY DEF Cards
        <3> QED
            BY <1>1, <3>1 DEF CreateCard, CardsTyped
    <2>3. AskedInv' /\ OnlyInv'
        BY <1>1, <2>1 DEF CreateCard, AskedInv, OnlyInv, Minting
    <2>4. AckInv'
        BY <1>1, <2>1, <2>2 DEF CreateCard, AckInv
    <2> QED
        BY <2>2, <2>3, <2>4
<1>2. ASSUME NEW c \in Partner, NEW want \in CardStatus, ReadCard(c, want)
      PROVE  CardsInv'
    <2> DEFINE to == [pc |-> "update", want |-> want, saw |-> card.ack_token]
    <2>1. to \in Calls /\ to.pc = "update" /\ to.want = want /\ to.saw = card.ack_token
        BY DEF CardsTyped, Cards, Calls
    <2>2. /\ call[c].pc = "idle" /\ card.status # "none"
          /\ call' = [call EXCEPT ![c] = to] /\ UNCHANGED <<card, reply>>
          /\ overlapped' = (overlapped \/ (want = "accepted" /\ Minting # {}))
        BY <1>2 DEF ReadCard
    <2> HIDE DEF to
    <2>3. call'[c] = to /\ \A o \in Partner \ {c} : call'[o] = call[o]
        BY <2>2 DEF CardsTyped
    <2>4. CardsTyped' /\ AskedInv' /\ AckInv'
        <3>1. CardsTyped'
            BY <2>1, <2>2 DEF CardsTyped
        <3>2. AskedInv'
            BY <2>1, <2>2, <2>3 DEF AskedInv, CardStatus
        <3>3. overlapped => overlapped'
            BY <2>2
        <3>4. AckInv'
            BY <2>1, <2>2, <2>3, <3>3 DEF AckInv
        <3> QED
            BY <3>1, <3>2, <3>4
    <2>5. ASSUME ~overlapped', NEW d \in Minting', NEW o \in Partner \ {d},
                 call'[o].pc # "idle", call'[o].want = "accepted"
          PROVE  FALSE
        <3>1. /\ d \in Partner /\ call'[d].pc = "update" /\ call'[d].want = "accepted"
              /\ call'[d].saw = NoToken
            BY <2>5 DEF Minting
        <3>2. ~overlapped /\ (want = "accepted" => Minting = {})
            BY <2>2, <2>5
        <3>3. CASE d = c
            <4>1. want = "accepted" /\ card.ack_token = NoToken /\ call'[o] = call[o]
                BY <2>1, <2>3, <2>5, <3>1, <3>3
            <4>2. call[o].pc = "update" /\ call[o].saw = NoToken
                BY <2>5, <4>1 DEF AckInv, CardsTyped, Calls
            <4>3. o \in Minting
                BY <2>5, <4>1, <4>2 DEF Minting
            <4> QED
                BY <3>2, <4>1, <4>3
        <3>4. CASE d # c
            <4>1. d \in Minting
                BY <2>3, <3>1, <3>4 DEF Minting
            <4>2. want # "accepted"
                BY <3>2, <4>1
            <4>3. o # c
                BY <2>1, <2>3, <2>5, <4>2
            <4> QED
                BY <2>3, <2>5, <3>2, <4>1, <4>3 DEF OnlyInv
        <3> QED
            BY <3>3, <3>4
    <2>6. OnlyInv'
        BY <2>5 DEF OnlyInv
    <2> QED
        BY <2>4, <2>6
<1>3. ASSUME NEW c \in Partner, UpdateCard(c)
      PROVE  CardsInv'
    <2> DEFINE to == [call[c] EXCEPT !.pc = "reread"]
    <2>1. /\ to \in Calls /\ to.pc = "reread" /\ to.want = call[c].want
          /\ to.saw = call[c].saw
        BY DEF CardsTyped, Calls
    <2>2. /\ call[c].pc = "update" /\ call' = [call EXCEPT ![c] = to]
          /\ UNCHANGED <<reply, overlapped>>
        BY <1>3 DEF UpdateCard
    <2> HIDE DEF to
    <2>3. call'[c] = to /\ \A o \in Partner \ {c} : call'[o] = call[o]
        BY <2>2 DEF CardsTyped
    <2>4. Minting' \subseteq Minting \ {c}
        BY <2>1, <2>3 DEF Minting
    <2>5. OnlyInv'
        <3> SUFFICES ASSUME ~overlapped', NEW d \in Minting', NEW o \in Partner \ {d},
                            call'[o].pc # "idle"
                     PROVE  call'[o].want # "accepted"
            BY DEF OnlyInv
        <3>1. d \in Minting /\ call'[o].want = call[o].want
            BY <2>1, <2>3, <2>4
        <3>2. call[o].pc # "idle"
            BY <2>2, <2>3
        <3> QED
            BY <2>2, <3>1, <3>2 DEF OnlyInv
    <2>6. CASE c \in Minting
        <3>1. PICK t \in Token : card' = [status |-> "accepted", ack_token |-> t]
            BY <1>3, <2>6 DEF UpdateCard
        <3>2. /\ card'.status = "accepted" /\ card'.ack_token = t /\ t # NoToken
              /\ card' \in Cards
            BY <3>1 DEF Cards, CardStatus
        <3>3. CardsTyped' /\ AskedInv'
            BY <2>1, <2>2, <2>3, <3>2 DEF CardsTyped, AskedInv
        <3>4. ASSUME NEW o \in Partner,
                     call'[o].pc = "answered", call'[o].want = "accepted"
              PROVE  reply'[o] # NoToken /\ overlapped'
            <4>1. o # c /\ call'[o] = call[o]
                BY <2>1, <2>3, <3>4
            <4> QED
                BY <2>2, <2>6, <3>4, <4>1 DEF AckInv, OnlyInv
        <3>5. AckInv'
            BY <3>2, <3>4 DEF AckInv
        <3> QED
            BY <2>5, <3>3, <3>5
    <2>7. CASE c \notin Minting
        <3>1. card' = [card EXCEPT !.status = call[c].want]
            BY <1>3, <2>7 DEF UpdateCard
        <3>2. call[c].want \in CardStatus
            BY <2>2 DEF AskedInv, CardsTyped, Calls
        <3>3. /\ card'.status = call[c].want /\ card'.ack_token = card.ack_token
              /\ card' \in Cards
            BY <3>1, <3>2 DEF CardsTyped, Cards
        <3>4. call[c].want # "none"
            BY <2>2 DEF AskedInv
        <3>5. CardsTyped' /\ AskedInv'
            BY <2>1, <2>2, <2>3, <3>3, <3>4 DEF CardsTyped, AskedInv
        <3>6. call[c].want = "accepted" => card.ack_token # NoToken
            BY <2>2, <2>7 DEF Minting, AckInv
        <3>7. AckInv'
            BY <2>1, <2>2, <2>3, <3>3, <3>6 DEF AckInv
        <3> QED
            BY <2>5, <3>5, <3>7
    <2> QED
        BY <2>6, <2>7
<1>4. ASSUME NEW c \in Partner, Reread(c)
      PROVE  CardsInv'
    <2> DEFINE to == [call[c] EXCEPT !.pc = "answered"]
    <2>1. /\ to \in Calls /\ to.pc = "answered" /\ to.want = call[c].want
          /\ to.saw = call[c].saw
        BY DEF CardsTyped, Calls
    <2>2. /\ call[c].pc = "reread" /\ call' = [call EXCEPT ![c] = to]
          /\ reply' = [reply EXCEPT ![c] = card.ack_token]
          /\ UNCHANGED <<card, overlapped>>
        BY <1>4 DEF Reread
    <2> HIDE DEF to
    <2>3. /\ call'[c] = to /\ \A o \in Partner \ {c} : call'[o] = call[o]
          /\ reply'[c] = card.ack_token /\ \A o \in Partner \ {c} : reply'[o] = reply[o]
        BY <2>2 DEF CardsTyped
    <2>4. CardsTyped'
        BY <2>1, <2>2 DEF CardsTyped, Cards
    <2>5. AskedInv'
        BY <2>1, <2>2, <2>3 DEF AskedInv
    <2>6. AckInv'
        BY <2>1, <2>2, <2>3 DEF AckInv
    <2>7. Minting' = Minting
        BY <2>1, <2>2, <2>3 DEF Minting
    <2>8. OnlyInv'
        BY <2>1, <2>2, <2>3, <2>7 DEF OnlyInv
    <2> QED
        BY <2>4, <2>5, <2>6, <2>8
<1>5. CASE UNCHANGED cardVars
    BY <1>5 DEF cardVars, CardsTyped, AskedInv, AckInv, OnlyInv, Minting
<1> QED
    BY <1>1, <1>2, <1>3, <1>4, <1>5 DEF CardsNext

\* The invariant contains what callers rely on.
LEMMA CardsInvStands == CardsInv => AcknowledgementStands
BY DEF CardsInv, AckInv, AcknowledgementStands

\* Whoever accepts a card, in whatever order with others: the answer bears a
\* token, and the card's own unless two acceptances overlapped.
THEOREM AcknowledgementsStand == CardsSpec => []AcknowledgementStands
<1> QED
    BY CardsInitInv, CardsStepInv, CardsInvStands, PTL DEF CardsSpec

-----------------------------------------------------------------------------
(* Commands: what an answer says of the child and of its work.              *)

CommandRecord ==
    [kind : Kinds, pc : {"new", "probing", "running", "answered", "refused"},
     child : {"none", "alive", "exited", "killed"}, code : {"null", "ok", "bad"},
     work : BOOLEAN, holds : BOOLEAN, timer : {"off", "armed", "fired"},
     late : BOOLEAN, answer : {"none", "null", "ok", "bad", "error"}]

\* What a call is at each point of its life: only a running one has a child that
\* lives, only an ended child has left a code, and work in a container is over
\* when its client said ok.
CommandFits(r) ==
    /\ r.pc \in {"new", "probing", "refused"} =>
          r.child = "none" /\ ~r.work /\ r.answer = "none"
    /\ r.pc = "running" => r.child # "none" /\ r.answer = "none"
    /\ r.pc = "answered" =>
          /\ r.child # "alive" /\ ~r.holds
          /\ r.child = "none" => r.answer = "error" /\ ~r.work
          /\ r.child # "none" => r.answer = r.code
    /\ r.child = "exited" => r.code # "null"
    /\ r.child # "exited" => r.code = "null"
    /\ r.child \in {"none", "alive"} => ~r.holds
    /\ r.child = "killed" => r.late /\ r.timer # "armed"
    /\ InContainer(r.kind) /\ r.code = "ok" => ~r.work

\* Calls are made one after the other.
OneCall ==
    \A c, d \in Command :
        c # d => \/ cmd[c].pc \in {"new", "answered", "refused"}
                 \/ cmd[d].pc \in {"new", "answered", "refused"}

CommandsInv ==
    /\ cmd \in [Command -> CommandRecord]
    /\ \A c \in Command : CommandFits(cmd[c])
    /\ OneCall

\* It holds at the start.
LEMMA CommandsInitInv == CommandsInit => CommandsInv
<1> SUFFICES ASSUME CommandsInit PROVE CommandsInv
    OBVIOUS
<1>1. NoCall \in CommandRecord /\ CommandFits(NoCall) /\ NoCall.pc = "new"
    BY DEF NoCall, CommandRecord, Kinds, CommandFits
<1> QED
    BY <1>1 DEF CommandsInit, CommandsInv, OneCall

\* One call's step keeps the invariant when what it is afterwards fits, and it
\* starts only when no other is under way.
LEMMA CallKeeps ==
    ASSUME CommandsInv, NEW c \in Command, NEW to \in CommandRecord,
           CommandFits(to), Put(c, to),
           \/ Free
           \/ cmd[c].pc \notin {"new", "answered", "refused"}
           \/ to.pc \in {"new", "answered", "refused"}
    PROVE  CommandsInv'
<1>1. cmd'[c] = to /\ \A d \in Command \ {c} : cmd'[d] = cmd[d]
    BY DEF Put, CommandsInv
<1>2. cmd' \in [Command -> CommandRecord]
    BY DEF Put, CommandsInv
<1>3. \A d \in Command : CommandFits(cmd'[d])
    BY <1>1 DEF CommandsInv
<1>4. OneCall'
    BY <1>1 DEF OneCall, Free, CommandsInv
<1> QED
    BY <1>2, <1>3, <1>4 DEF CommandsInv

\* Every step keeps it.
LEMMA CommandsStepInv == CommandsInv /\ [CommandsNext]_cmdVars => CommandsInv'
<1> SUFFICES ASSUME CommandsInv, [CommandsNext]_cmdVars PROVE CommandsInv'
    OBVIOUS
<1>1. \A c \in Command : cmd[c] \in CommandRecord /\ CommandFits(cmd[c])
    BY DEF CommandsInv
<1>2. ASSUME NEW c \in Command, NEW r \in CommandRecord, CommandFits(r),
             r.pc \in {"new", "probing"}
      PROVE  Started(r) \in CommandRecord /\ CommandFits(Started(r))
    <2> DEFINE to == Started(r)
    <2>1. /\ to \in CommandRecord /\ to.pc = "running" /\ to.child = "alive"
          /\ to.code = r.code /\ to.answer = r.answer /\ to.holds = r.holds
        BY DEF Started, CommandRecord
    <2>2. to.code = "null" /\ to.answer = "none" /\ ~to.holds
        BY <1>2, <2>1 DEF CommandFits
    <2> HIDE DEF to
    <2>3. to \in CommandRecord /\ CommandFits(to)
        BY <2>1, <2>2 DEF CommandFits
    <2> QED
        BY <2>3 DEF to
<1>3. ASSUME NEW c \in Command, CallCommand(c)
      PROVE  CommandsInv'
    <2>1. PICK k \in Kinds, allowed \in BOOLEAN :
              Put(c, CASE k # "process" /\ ~allowed ->
                             [[NoCall EXCEPT !.kind = k] EXCEPT !.pc = "refused"]
                       [] k = "run" -> [[NoCall EXCEPT !.kind = k] EXCEPT !.pc = "probing"]
                       [] OTHER -> Started([NoCall EXCEPT !.kind = k]))
        BY <1>3 DEF CallCommand
    <2> DEFINE r == [NoCall EXCEPT !.kind = k]
               no == [r EXCEPT !.pc = "refused"]
               probe == [r EXCEPT !.pc = "probing"]
    <2>2. r \in CommandRecord /\ r.pc = "new" /\ CommandFits(r)
        BY DEF NoCall, CommandRecord, CommandFits
    <2>3. no \in CommandRecord /\ no.pc = "refused" /\ CommandFits(no)
        BY DEF NoCall, CommandRecord, CommandFits
    <2>4. probe \in CommandRecord /\ probe.pc = "probing" /\ CommandFits(probe)
        BY DEF NoCall, CommandRecord, CommandFits
    <2>5. Started(r) \in CommandRecord /\ CommandFits(Started(r))
        BY <1>2, <2>2
    <2>6. Put(c, no) \/ Put(c, probe) \/ Put(c, Started(r))
        <3>1. CASE k # "process" /\ ~allowed
            BY <2>1, <3>1
        <3>2. CASE ~(k # "process" /\ ~allowed) /\ k = "run"
            BY <2>1, <3>2
        <3>3. CASE ~(k # "process" /\ ~allowed) /\ k # "run"
            BY <2>1, <3>3
        <3> QED
            BY <3>1, <3>2, <3>3
    <2>7. Free
        BY <1>3 DEF CallCommand
    <2> HIDE DEF r, no, probe
    <2> QED
        BY <2>3, <2>4, <2>5, <2>6, <2>7, CallKeeps
<1>4. ASSUME NEW c \in Command, ProbeEnds(c)
      PROVE  CommandsInv'
    <2> DEFINE no == [cmd[c] EXCEPT !.pc = "refused"]
    <2>1. cmd[c].pc = "probing" /\ (Put(c, Started(cmd[c])) \/ Put(c, no))
        BY <1>4 DEF ProbeEnds, Now
    <2>2. /\ no \in CommandRecord /\ no.pc = "refused" /\ no.child = cmd[c].child
          /\ no.work = cmd[c].work /\ no.holds = cmd[c].holds
          /\ no.answer = cmd[c].answer /\ no.code = cmd[c].code
        BY <1>1 DEF CommandRecord
    <2> HIDE DEF no
    <2>3. CommandFits(no)
        BY <1>1, <2>1, <2>2 DEF CommandFits
    <2> QED
        BY <1>1, <1>2, <2>1, <2>2, <2>3, CallKeeps
<1>5. ASSUME NEW c \in Command, SpawnFails(c)
      PROVE  CommandsInv'
    <2> DEFINE to == [cmd[c] EXCEPT !.pc = "answered", !.child = "none", !.work = FALSE,
                         !.timer = IF Sandboxed(cmd[c].kind) THEN "off" ELSE @,
                         !.answer = "error"]
    <2>1. cmd[c].pc = "running" /\ cmd[c].child = "alive" /\ Put(c, to)
        BY <1>5 DEF SpawnFails, Now
    <2>2. /\ to \in CommandRecord /\ to.pc = "answered" /\ to.child = "none"
          /\ to.work = FALSE /\ to.answer = "error" /\ to.holds = cmd[c].holds
          /\ to.code = cmd[c].code
        BY <1>1 DEF CommandRecord
    <2> HIDE DEF to
    <2>3. cmd[c].code = "null" /\ ~cmd[c].holds
        BY <1>1, <2>1 DEF CommandFits
    <2>4. CommandFits(to)
        BY <2>2, <2>3 DEF CommandFits
    <2> QED
        BY <2>1, <2>2, <2>4, CallKeeps
<1>6. ASSUME NEW c \in Command, ChildExits(c)
      PROVE  CommandsInv'
    <2>1. PICK gave \in {"ok", "bad"}, left \in BOOLEAN, holds \in BOOLEAN :
              /\ left => ~InContainer(cmd[c].kind) \/ gave = "bad"
              /\ Put(c, [cmd[c] EXCEPT !.child = "exited", !.code = gave,
                                        !.work = left, !.holds = holds])
        BY <1>6 DEF ChildExits
    <2> DEFINE to == [cmd[c] EXCEPT !.child = "exited", !.code = gave,
                                    !.work = left, !.holds = holds]
    <2>2. cmd[c].child = "alive" /\ cmd[c].pc = "running" /\ cmd[c].answer = "none"
        BY <1>1, <1>6 DEF ChildExits, CommandFits, CommandRecord
    <2>3. /\ to \in CommandRecord /\ to.child = "exited" /\ to.code = gave
          /\ to.work = left /\ to.pc = cmd[c].pc /\ to.answer = cmd[c].answer
          /\ to.kind = cmd[c].kind
        BY <1>1, ZenonT(40) DEF CommandRecord
    <2>4. Put(c, to)
        BY <2>1
    <2> HIDE DEF to
    <2>5. CommandFits(to)
        BY <2>1, <2>2, <2>3 DEF CommandFits
    <2> QED
        BY <2>2, <2>3, <2>4, <2>5, CallKeeps
<1>7. ASSUME NEW c \in Command, CommandTimesOut(c)
      PROVE  CommandsInv'
    <2>1. cmd[c].timer = "armed"
        BY <1>7 DEF CommandTimesOut
    <2>2. CASE cmd[c].child = "alive"
        <3>1. PICK holds \in BOOLEAN, left \in BOOLEAN :
                  Put(c, [cmd[c] EXCEPT !.timer = "fired", !.late = TRUE,
                             !.child = "killed", !.work = left, !.holds = holds])
            BY <1>7, <2>2 DEF CommandTimesOut
        <3> DEFINE to == [cmd[c] EXCEPT !.timer = "fired", !.late = TRUE,
                             !.child = "killed", !.work = left, !.holds = holds]
        <3>2. /\ cmd[c].pc = "running" /\ cmd[c].answer = "none" /\ cmd[c].code = "null"
            BY <1>1, <2>2 DEF CommandFits, CommandRecord
        <3>3. /\ to \in CommandRecord /\ to.child = "killed" /\ to.late
              /\ to.timer = "fired" /\ to.pc = cmd[c].pc /\ to.answer = cmd[c].answer
              /\ to.code = cmd[c].code
            BY <1>1 DEF CommandRecord
        <3>4. Put(c, to)
            BY <3>1
        <3> HIDE DEF to
        <3>5. CommandFits(to)
            BY <3>2, <3>3 DEF CommandFits
        <3> QED
            BY <3>2, <3>3, <3>4, <3>5, CallKeeps
    <2>3. CASE cmd[c].child # "alive"
        <3> DEFINE to == [cmd[c] EXCEPT !.timer = "fired", !.late = Now(c, "running")]
        <3>1. Put(c, to)
            BY <1>7, <2>3 DEF CommandTimesOut
        <3>2. /\ to \in CommandRecord /\ to.timer = "fired" /\ to.child = cmd[c].child
              /\ to.pc = cmd[c].pc /\ to.answer = cmd[c].answer /\ to.code = cmd[c].code
              /\ to.work = cmd[c].work /\ to.holds = cmd[c].holds
              /\ to.kind = cmd[c].kind
            BY <1>1 DEF CommandRecord, Now
        <3> HIDE DEF to
        <3>3. cmd[c].child # "killed"
            BY <1>1, <2>1 DEF CommandFits
        <3>4. CommandFits(to)
            BY <1>1, <3>2, <3>3 DEF CommandFits
        <3> QED
            BY <3>1, <3>2, <3>4, CallKeeps
    <2> QED
        BY <2>2, <2>3
<1>8. ASSUME NEW c \in Command, WorkEndsLate(c)
      PROVE  CommandsInv'
    <2> DEFINE to == [cmd[c] EXCEPT !.work = FALSE, !.holds = FALSE]
    <2>1. Put(c, to)
        BY <1>8 DEF WorkEndsLate
    <2>2. /\ to \in CommandRecord /\ to.work = FALSE /\ to.holds = FALSE
          /\ to.child = cmd[c].child /\ to.pc = cmd[c].pc /\ to.timer = cmd[c].timer
          /\ to.answer = cmd[c].answer /\ to.code = cmd[c].code /\ to.late = cmd[c].late
        BY <1>1 DEF CommandRecord
    <2> HIDE DEF to
    <2>3. CommandFits(to)
        BY <1>1, <2>2 DEF CommandFits
    <2> QED
        BY <2>1, <2>2, <2>3, CallKeeps
<1>9. ASSUME NEW c \in Command, CommandAnswers(c)
      PROVE  CommandsInv'
    <2> DEFINE to == [cmd[c] EXCEPT !.pc = "answered", !.answer = cmd[c].code,
                         !.timer = IF Sandboxed(cmd[c].kind) THEN "off" ELSE @]
    <2>1. /\ cmd[c].pc = "running" /\ cmd[c].child \in {"exited", "killed"}
          /\ ~cmd[c].holds /\ Put(c, to)
        BY <1>9 DEF CommandAnswers, Now, Closed
    <2>2. /\ to \in CommandRecord /\ to.pc = "answered" /\ to.answer = cmd[c].code
          /\ to.timer \in {"off", cmd[c].timer} /\ to.child = cmd[c].child
          /\ to.work = cmd[c].work /\ to.holds = cmd[c].holds
          /\ to.code = cmd[c].code /\ to.late = cmd[c].late /\ to.kind = cmd[c].kind
        BY <1>1 DEF CommandRecord
    <2> HIDE DEF to
    <2>3. CommandFits(to)
        BY <1>1, <2>1, <2>2 DEF CommandFits
    <2> QED
        BY <2>1, <2>2, <2>3, CallKeeps
<1>10. CASE UNCHANGED cmdVars
    BY <1>10 DEF cmdVars, CommandsInv, OneCall
<1> QED
    BY <1>3, <1>4, <1>5, <1>6, <1>7, <1>8, <1>9, <1>10 DEF CommandsNext

\* The invariant says what an answer means, and when two commands may work at once.
LEMMA CommandsInvSettles == CommandsInv => CommandsSettle
<1> SUFFICES ASSUME CommandsInv PROVE CommandsSettle
    OBVIOUS
<1>1. \A c \in Command : cmd[c] \in CommandRecord /\ CommandFits(cmd[c])
    BY DEF CommandsInv
<1>2. \A c \in Command :
          LET r == cmd[c] IN
          /\ r.pc = "answered" => r.child # "alive" /\ ~r.holds
          /\ r.pc = "refused" => r.child = "none" /\ ~r.work
          /\ r.answer \in {"ok", "bad"} => r.child = "exited"
          /\ r.child = "killed" => r.late /\ r.answer \in {"none", "null"}
          /\ InContainer(r.kind) /\ r.answer = "ok" => ~r.work
    BY <1>1 DEF CommandFits, CommandRecord
<1>3. ASSUME NEW c \in Command, NEW d \in Command, c # d, cmd[c].work, cmd[d].work
      PROVE  \E e \in {c, d} : /\ cmd[e].child \in {"exited", "killed"}
                               /\ cmd[e].pc = "answered"
    <2>1. PICK e \in {c, d} : cmd[e].pc \in {"new", "answered", "refused"}
        BY <1>3 DEF CommandsInv, OneCall
    <2>2. cmd[e].work /\ e \in Command
        BY <1>3
    <2> QED
        BY <1>1, <2>1, <2>2 DEF CommandFits, CommandRecord
<1> QED
    BY <1>2, <1>3 DEF CommandsSettle

-----------------------------------------------------------------------------
(* Requests that are tried again.                                           *)

Outgoing == Msg \cup Fetch

\* How far a request is fits what it heard, how often it was tried and what
\* came of it.  A sleep with no tries left is a webhook's last.
OutboundInv ==
    /\ out \in [Outgoing -> {"idle", "sent", "body", "asleep", "ended"}]
    /\ came \in [Outgoing -> {"none", "true", "false", "page", "raised", "died"}]
    /\ tried \in [Outgoing -> Nat] /\ taken \in [Msg -> Nat]
    /\ heard \in [Outgoing -> {"none", "2xx", "4xx", "429", "5xx", "error"}]
    /\ \A x \in Outgoing :
          /\ tried[x] <= Tries(x)
          /\ out[x] = "idle" => tried[x] = 0 /\ heard[x] = "none"
          /\ out[x] # "ended" <=> came[x] = "none"
    /\ \A x \in Msg :
          /\ out[x] # "body" /\ came[x] \notin {"page", "raised"}
          /\ taken[x] <= tried[x]
          /\ out[x] = "sent" => taken[x] < tried[x]
          /\ heard[x] \in {"2xx", "4xx", "429"} => out[x] = "ended"
          /\ came[x] = "true" => heard[x] = "2xx" /\ taken[x] > 0
          /\ came[x] = "false" => heard[x] \in {"4xx", "429"} \/ tried[x] = 3
    /\ \A x \in Fetch :
          /\ out[x] = "body" => heard[x] \in {"2xx", "4xx", "429", "5xx"}
          /\ out[x] = "asleep" => tried[x] < Tries(x)
          /\ came[x] = "raised" \/ (came[x] = "page" /\ heard[x] \in {"429", "5xx"}) =>
                tried[x] = Retries + 1

\* It holds at the start.
LEMMA OutboundInitInv == OutboundInit => OutboundInv
BY OutboundAssumption DEF OutboundInit, OutboundInv, Outgoing, Tries

\* Every step keeps it.
LEMMA OutboundStepInv == OutboundInv /\ [OutboundNext]_outVars => OutboundInv'
<1> SUFFICES ASSUME OutboundInv, [OutboundNext]_outVars PROVE OutboundInv'
    OBVIOUS
<1> USE OutboundAssumption
<1>1. \A x \in Outgoing : Tries(x) \in Nat \ {0}
    BY DEF Tries, Outgoing
<1>2. ASSUME NEW x \in Outgoing, Send(x)
      PROVE  OutboundInv'
    <2>1. /\ tried'[x] = tried[x] + 1 /\ out'[x] = "sent"
          /\ \A y \in Outgoing \ {x} : tried'[y] = tried[y] /\ out'[y] = out[y]
          /\ UNCHANGED <<heard, came, taken>>
        BY <1>2 DEF Send, OutboundInv
    <2>2. tried[x] + 1 <= Tries(x) /\ came[x] = "none" /\ out[x] \in {"idle", "asleep"}
        BY <1>1, <1>2 DEF Send, OutboundInv
    <2> QED
        BY <1>2, <2>1, <2>2 DEF Send, OutboundInv, Outgoing
<1>3. ASSUME NEW x \in Outgoing, WebhookAnswered(x)
      PROVE  OutboundInv'
    <2>1. PICK says \in {"2xx", "4xx", "429", "5xx", "error"}, took \in BOOLEAN :
              /\ says = "2xx" => took
              /\ taken' = [taken EXCEPT ![x] = @ + (IF took THEN 1 ELSE 0)]
              /\ Settle(x, says)
        BY <1>3 DEF WebhookAnswered
    <2>2. x \in Msg /\ out[x] = "sent" /\ x \notin Fetch /\ UNCHANGED tried
        BY <1>3 DEF WebhookAnswered
    <2>3. CASE says \in {"5xx", "error"}
        BY <2>1, <2>2, <2>3 DEF OutboundInv, Settle, Retried, Sleeps, Outgoing, Tries
    <2>4. CASE says \in {"2xx", "4xx", "429"}
        BY <2>1, <2>2, <2>4 DEF OutboundInv, Settle, Retried, Ends, Outgoing, Tries
    <2> QED
        BY <2>3, <2>4
<1>4. ASSUME NEW x \in Outgoing, WebhookGivenUp(x)
      PROVE  OutboundInv'
    BY <1>4 DEF WebhookGivenUp, Ends, OutboundInv, Outgoing, Tries
<1>5. ASSUME NEW x \in Outgoing, HeadersArrive(x)
      PROVE  OutboundInv'
    BY <1>5 DEF HeadersArrive, OutboundInv, Outgoing, Tries
<1>6. ASSUME NEW x \in Outgoing, NEW says \in {"2xx", "4xx", "429", "5xx", "error"},
             x \in Fetch, out[x] \in {"sent", "body"}, Settle(x, says),
             UNCHANGED <<tried, taken>>
      PROVE  OutboundInv'
    <2>1. x \notin Msg /\ came[x] = "none" /\ heard'[x] = says
        BY <1>6 DEF Settle, OutboundInv
    <2>2. CASE Retried(x, says)
        BY <1>6, <2>1, <2>2 DEF OutboundInv, Settle, Retried, Sleeps, Outgoing, Tries
    <2>3. CASE ~Retried(x, says)
        BY <1>6, <2>1, <2>3 DEF OutboundInv, Settle, Retried, Ends, Outgoing, Tries
    <2> QED
        BY <2>2, <2>3
<1>7. ASSUME NEW x \in Outgoing, BodyArrives(x)
      PROVE  OutboundInv'
    <2>1. x \in Fetch /\ heard[x] \in {"2xx", "4xx", "429", "5xx"}
        BY <1>7 DEF BodyArrives, OutboundInv, Outgoing
    <2> QED
        BY <1>6, <1>7, <2>1 DEF BodyArrives
<1>8. ASSUME NEW x \in Outgoing, FetchBreaks(x)
      PROVE  OutboundInv'
    BY <1>6, <1>8 DEF FetchBreaks
<1>9. ASSUME NEW x \in Outgoing, CallerDies(x)
      PROVE  OutboundInv'
    BY <1>9 DEF CallerDies, Ends, OutboundInv, Outgoing, Tries
<1>10. CASE UNCHANGED outVars
    BY <1>10 DEF outVars, OutboundInv
<1> QED
    BY <1>2, <1>3, <1>4, <1>5, <1>7, <1>8, <1>9, <1>10 DEF OutboundNext, Outgoing

\* The invariant contains what a result says of the tries.
LEMMA OutboundInvHonest == OutboundInv => RetriesHonest
BY DEF OutboundInv, RetriesHonest, Outgoing

-----------------------------------------------------------------------------
(* The MCP server: one reply per line, and what it says.                    *)

\* A line that was not read yet has nothing; calls are a tool's, and only a
\* write, which is one call, has an effect.
LineInv ==
    \A i \in Line :
        /\ i > nread => request[i] = NoRequest /\ effect[i] = 0 /\ Replies(i) = {}
        /\ request[i].text \notin Tools => request[i].asked = 0 /\ ~request[i].failed
        /\ effect[i] = 1 => request[i].text = "write"
        /\ request[i].text = "write" => request[i].asked <= 1

\* A line that wants a reply has it as soon as its calls are settled.
SettledInv ==
    \A i \in Line :
        /\ request[i].text \in {"silent", "null"} => Replies(i) = {}
        /\ request[i].text \notin {"silent", "null"} =>
              (Replies(i) # {} <=> (request[i].asked = 0 \/ request[i].failed))

\* No line has two, and only a tool's reply is overtaken.
OrderInv ==
    \A k, l \in DOMAIN stdout :
        /\ stdout[k][1] = stdout[l][1] => k = l
        /\ k < l /\ stdout[k][1] > stdout[l][1] => request[stdout[l][1]].text \in Tools

\* A result is what all the calls of its line brought.
ResultInv ==
    \A k \in DOMAIN stdout : stdout[k][2] = "result" =>
        /\ request[stdout[k][1]].asked = 0 /\ ~request[stdout[k][1]].failed
        /\ request[stdout[k][1]].text = "write" => effect[stdout[k][1]] = 1

McpInv == McpTypeOK /\ LineInv /\ SettledInv /\ OrderInv /\ ResultInv

\* It holds at the start.
LEMMA McpInitInv == McpInit => McpInv
BY McpAssumption DEF McpInit, McpInv, McpTypeOK, LineInv, SettledInv, OrderInv,
   ResultInv, NoRequest, Replies, Texts, Tools, Line

\* A reply is put at the end.
LEMMA ReplyAtEnd ==
    ASSUME stdout \in Seq(Line \X {"result", "error", "refused"}),
           NEW i \in Line, NEW what \in {"result", "error", "refused"}, Out(i, what)
    PROVE  /\ stdout' \in Seq(Line \X {"result", "error", "refused"})
           /\ Len(stdout) \in Nat /\ DOMAIN stdout = 1..Len(stdout)
           /\ DOMAIN stdout' = 1..(Len(stdout) + 1)
           /\ \A k \in DOMAIN stdout : /\ stdout'[k] = stdout[k]
                                       /\ stdout[k][1] \in Line
           /\ stdout'[Len(stdout) + 1][1] = i /\ stdout'[Len(stdout) + 1][2] = what
           /\ \A j \in Line : Replies(j)' = IF j = i THEN Replies(j) \cup {Len(stdout) + 1}
                                            ELSE Replies(j)
<1>1. /\ stdout' \in Seq(Line \X {"result", "error", "refused"})
      /\ Len(stdout) \in Nat /\ DOMAIN stdout = 1..Len(stdout)
      /\ DOMAIN stdout' = 1..(Len(stdout) + 1)
      /\ \A k \in DOMAIN stdout : stdout'[k] = stdout[k]
      /\ stdout'[Len(stdout) + 1] = <<i, what>>
    BY DEF Out
<1>2. \A k \in DOMAIN stdout : stdout[k][1] \in Line
    BY <1>1
<1>3. stdout'[Len(stdout) + 1][1] = i /\ stdout'[Len(stdout) + 1][2] = what
    BY <1>1
<1>4. \A j \in Line : Replies(j)' = IF j = i THEN Replies(j) \cup {Len(stdout) + 1}
                                    ELSE Replies(j)
    BY <1>1, <1>3 DEF Replies
<1> QED
    BY <1>1, <1>2, <1>3, <1>4

\* A line's step keeps the invariant: it puts out nothing, or the one reply of
\* that line, and the line is settled exactly if it has one.
LEMMA LineKeeps ==
    ASSUME McpInv, NEW i \in Line,
           NEW to \in [text : Texts, asked : 0..3, failed : BOOLEAN],
           request' = [request EXCEPT ![i] = to], UNCHANGED effect,
           life' \in {"up", "doomed", "down"}, nread' \in 0..NLines,
           i <= nread', \A j \in Line \ {i} : j > nread' => j > nread,
           to.text \notin Tools => to.asked = 0 /\ ~to.failed,
           effect[i] = 1 => to.text = "write",
           to.text = "write" => to.asked <= 1,
           Replies(i) # {} => to.text = request[i].text /\ request[i].failed,
           to.text \in Tools \/ (\A k \in DOMAIN stdout : stdout[k][1] <= i),
           \/ /\ UNCHANGED stdout
              /\ to.text \in {"silent", "null"} => Replies(i) = {}
              /\ to.text \notin {"silent", "null"} =>
                    (Replies(i) # {} <=> (to.asked = 0 \/ to.failed))
           \/ \E what \in {"result", "error", "refused"} :
                 /\ Out(i, what) /\ Replies(i) = {}
                 /\ to.text \notin {"silent", "null"} /\ (to.asked = 0 \/ to.failed)
                 /\ what = "result" =>
                       /\ to.asked = 0 /\ ~to.failed
                       /\ to.text = "write" => effect[i] = 1
    PROVE  McpInv'
<1> USE McpAssumption DEF McpInv
<1>1. /\ stdout \in Seq(Line \X {"result", "error", "refused"})
      /\ Len(stdout) \in Nat /\ DOMAIN stdout = 1..Len(stdout)
      /\ \A k \in DOMAIN stdout : stdout[k][1] \in Line
    BY DEF McpTypeOK
<1>2. request'[i] = to /\ \A j \in Line \ {i} : request'[j] = request[j]
    BY DEF McpTypeOK
<1>3. i \in Nat /\ nread' \in Nat /\ ~(i > nread')
    BY DEF Line
<1>4. ASSUME UNCHANGED stdout,
             to.text \in {"silent", "null"} => Replies(i) = {},
             to.text \notin {"silent", "null"} =>
                 (Replies(i) # {} <=> (to.asked = 0 \/ to.failed))
      PROVE  McpInv'
    <2>1. \A j \in Line : Replies(j)' = Replies(j)
        BY <1>4 DEF Replies
    <2>2. McpTypeOK'
        BY <1>4 DEF McpTypeOK
    <2>3. LineInv'
        BY <1>2, <1>3, <2>1 DEF LineInv
    <2>4. SettledInv'
        BY <1>2, <1>4, <2>1 DEF SettledInv
    <2>5. OrderInv'
        <3>1. \A l \in DOMAIN stdout : request'[stdout[l][1]].text
                                            = request[stdout[l][1]].text
            BY <1>1, <1>2 DEF Replies
        <3> QED
            BY <1>4, <3>1 DEF OrderInv
    <2>6. ResultInv'
        <3>1. ASSUME NEW k \in DOMAIN stdout, stdout[k][2] = "result"
              PROVE  stdout[k][1] # i
            BY <3>1 DEF ResultInv, Replies
        <3> QED
            BY <1>1, <1>2, <1>4, <3>1 DEF ResultInv
    <2> QED
        BY <2>2, <2>3, <2>4, <2>5, <2>6
<1>5. ASSUME NEW what \in {"result", "error", "refused"},
             Out(i, what), Replies(i) = {},
             to.text \notin {"silent", "null"}, to.asked = 0 \/ to.failed,
             what = "result" => /\ to.asked = 0 /\ ~to.failed
                                /\ to.text = "write" => effect[i] = 1
      PROVE  McpInv'
    <2> DEFINE n == Len(stdout) + 1
    <2>1. /\ stdout' \in Seq(Line \X {"result", "error", "refused"})
          /\ DOMAIN stdout' = 1..n
          /\ \A k \in 1..Len(stdout) : stdout'[k] = stdout[k]
          /\ stdout'[n][1] = i /\ stdout'[n][2] = what
          /\ \A j \in Line : Replies(j)' = IF j = i THEN Replies(j) \cup {n}
                                           ELSE Replies(j)
        BY <1>1, <1>5, ReplyAtEnd
    <2>2. n \in Nat /\ n > 0 /\ Len(stdout) = n - 1
        BY <1>1
    <2> HIDE DEF n
    <2>3. McpTypeOK'
        BY <2>1 DEF McpTypeOK
    <2>4. LineInv'
        <3>1. ASSUME NEW j \in Line, j > nread'
              PROVE  request'[j] = NoRequest /\ effect[j] = 0 /\ Replies(j)' = {}
            <4>1. j # i /\ j > nread
                BY <1>3, <3>1
            <4>2. request'[j] = request[j] /\ Replies(j)' = Replies(j)
                BY <1>2, <2>1, <4>1
            <4> QED
                BY <4>1, <4>2 DEF LineInv
        <3> QED
            BY <1>2, <3>1 DEF LineInv
    <2>5. SettledInv'
        <3>1. ASSUME NEW j \in Line \ {i}
              PROVE  request'[j] = request[j] /\ Replies(j)' = Replies(j)
            BY <1>2, <2>1
        <3>2. Replies(i)' # {}
            BY <2>1
        <3> QED
            BY <1>2, <1>5, <3>1, <3>2 DEF SettledInv
    <2>6. \A k \in 1..Len(stdout) : stdout[k][1] # i
        BY <1>1, <1>5 DEF Replies
    <2>7. OrderInv'
        <3> SUFFICES ASSUME NEW k \in 1..n, NEW l \in 1..n
                     PROVE  /\ stdout'[k][1] = stdout'[l][1] => k = l
                            /\ k < l /\ stdout'[k][1] > stdout'[l][1] =>
                                  request'[stdout'[l][1]].text \in Tools
            BY <2>1 DEF OrderInv
        <3>1. CASE k # n /\ l # n
            <4>1. /\ k \in DOMAIN stdout /\ l \in DOMAIN stdout
                  /\ stdout'[k] = stdout[k] /\ stdout'[l] = stdout[l]
                  /\ stdout[l][1] \in Line \ {i}
                BY <1>1, <2>1, <2>2, <2>6, <3>1
            <4> QED
                BY <1>2, <4>1 DEF OrderInv
        <3>2. CASE k = n /\ l # n
            BY <1>1, <2>1, <2>2, <2>6, <3>2
        <3>3. CASE k # n /\ l = n
            <4>1. k \in DOMAIN stdout /\ stdout'[k] = stdout[k] /\ stdout[k][1] \in Nat
                BY <1>1, <2>1, <2>2, <3>3 DEF Line
            <4> QED
                BY <1>1, <1>2, <1>3, <2>1, <2>6, <3>3, <4>1
        <3>4. CASE k = n /\ l = n
            BY <2>2, <3>4
        <3> QED
            BY <3>1, <3>2, <3>3, <3>4
    <2>8. ResultInv'
        <3> SUFFICES ASSUME NEW k \in 1..n, stdout'[k][2] = "result"
                     PROVE  /\ request'[stdout'[k][1]].asked = 0
                            /\ ~request'[stdout'[k][1]].failed
                            /\ request'[stdout'[k][1]].text = "write" =>
                                  effect[stdout'[k][1]] = 1
            BY <2>1 DEF ResultInv
        <3>1. CASE k = n
            BY <1>2, <1>5, <2>1, <3>1
        <3>2. CASE k # n
            <4>1. k \in DOMAIN stdout /\ stdout'[k] = stdout[k]
                  /\ stdout[k][1] \in Line \ {i}
                BY <1>1, <2>1, <2>2, <2>6, <3>2
            <4> QED
                BY <1>2, <4>1 DEF ResultInv
        <3> QED
            BY <3>1, <3>2
    <2> QED
        BY <2>3, <2>4, <2>5, <2>7, <2>8
<1> QED
    BY <1>4, <1>5

\* Every step keeps it.
LEMMA McpStepInv == McpInv /\ [McpNext]_mcpVars => McpInv'
<1> SUFFICES ASSUME McpInv, [McpNext]_mcpVars PROVE McpInv'
    OBVIOUS
<1> USE McpAssumption
<1>1. ASSUME NEW text \in Texts, ReadLine(text)
      PROVE  McpInv'
    <2> DEFINE to == [text |-> text, failed |-> FALSE,
                      asked |-> IF text \in Tools THEN Reads(text) ELSE 0]
    <2>0. nread + 1 \in Line /\ nread \in Nat
        BY <1>1 DEF ReadLine, McpInv, McpTypeOK, Line
    <2>1. PICK i \in Line :
              i = nread + 1 /\ nread' = i /\ nread \in Nat /\ nread' \in 0..NLines
        BY <1>1, <2>0 DEF ReadLine, Line
    <2>2. /\ to.text = text /\ ~to.failed
          /\ to \in [text : Texts, asked : 0..3, failed : BOOLEAN]
          /\ (text \notin Tools \/ text = "unknown") <=> to.asked = 0
          /\ text = "write" => to.asked = 1
        BY DEF Reads, Tools
    <2>3. /\ request' = [request EXCEPT ![i] = to] /\ UNCHANGED effect
          /\ life' \in {"up", "doomed", "down"}
        BY <1>1, <2>1 DEF ReadLine, McpInv, McpTypeOK
    <2>4. /\ Replies(i) = {} /\ effect[i] = 0
          /\ \A k \in DOMAIN stdout : stdout[k][1] <= i
        <3>1. /\ \A j \in Line : j > nread => Replies(j) = {}
              /\ effect[i] = 0 /\ i > nread
            BY <2>1 DEF McpInv, LineInv
        <3>2. \A k \in DOMAIN stdout : stdout[k][1] \in Line
            BY DEF McpInv, McpTypeOK
        <3>3. \A k \in DOMAIN stdout : ~(stdout[k][1] > nread)
            BY <3>1, <3>2 DEF Replies
        <3> QED
            BY <2>1, <3>1, <3>2, <3>3 DEF Line
    <2>5. \A j \in Line \ {i} : j > nread' => j > nread
        BY <2>1 DEF Line
    <2>6. i <= nread'
        BY <2>1
    <2> HIDE DEF to
    <2>7. CASE text \in {"silent", "null", "read", "context", "write"}
        <3>1. UNCHANGED stdout
            BY <1>1, <2>7 DEF ReadLine
        <3>2. /\ to.text \notin {"silent", "null"} => to.asked # 0
              /\ to.text = "write" => to.asked <= 1
              /\ to.text \notin Tools => to.asked = 0 /\ ~to.failed
            BY <2>2, <2>7 DEF Tools
        <3>3. /\ effect[i] # 1
              /\ to.text \in Tools \/ \A k \in DOMAIN stdout : stdout[k][1] <= i
            BY <2>4
        <3> QED
            BY <2>1, <2>2, <2>3, <2>4, <2>5, <2>6, <3>1, <3>2, <3>3, LineKeeps
    <2>8. CASE text \in {"plain", "unknown", "no_method", "broken"}
        <3>1. PICK what \in {"result", "error", "refused"} : Out(i, what)
            BY <1>1, <2>1, <2>8 DEF ReadLine
        <3>2. /\ to.text \notin {"silent", "null", "write"}
              /\ to.asked = 0 /\ ~to.failed
            BY <2>2, <2>8 DEF Tools
        <3>3. /\ effect[i] # 1
              /\ to.text \in Tools \/ \A k \in DOMAIN stdout : stdout[k][1] <= i
            BY <2>4
        <3> QED
            BY <2>1, <2>2, <2>3, <2>4, <2>5, <2>6, <3>1, <3>2, <3>3, LineKeeps
    <2> QED
        BY <2>7, <2>8 DEF Texts, Tools
<1>2. ASSUME NEW i \in Line, CarryOut(i)
      PROVE  McpInv'
    <2>1. /\ UNCHANGED <<life, nread, request, stdout>> /\ effect' = [effect EXCEPT ![i] = 1]
          /\ request[i].text = "write" /\ request[i].asked > 0
        BY <1>2 DEF CarryOut
    <2>2. /\ effect'[i] = 1 /\ \A j \in Line \ {i} : effect'[j] = effect[j]
          /\ effect' \in [Line -> {0, 1}]
        BY <2>1 DEF McpInv, McpTypeOK
    <2>3. \A j \in Line : Replies(j)' = Replies(j)
        BY <2>1 DEF Replies
    <2>4. request[i] # NoRequest
        BY <2>1 DEF NoRequest
    <2>5. McpTypeOK' /\ LineInv' /\ SettledInv' /\ OrderInv'
        BY <2>1, <2>2, <2>3, <2>4 DEF McpInv, McpTypeOK, LineInv, SettledInv, OrderInv
    <2>6. ResultInv'
        <3>1. \A k \in DOMAIN stdout : stdout[k][1] \in Line
            BY DEF McpInv, McpTypeOK
        <3> QED
            BY <2>1, <2>2, <3>1 DEF McpInv, ResultInv
    <2> QED
        BY <2>5, <2>6 DEF McpInv
<1>3. ASSUME NEW i \in Line, NEW how \in {"data", "refused", "lost"}, CallEnds(i, how)
      PROVE  McpInv'
    <2> DEFINE to == [request[i] EXCEPT !.asked = @ - 1, !.failed = @ \/ how # "data"]
    <2>1. /\ request[i].asked > 0 /\ request[i].text \in Texts
          /\ request[i].asked \in 0..3 /\ request[i].failed \in BOOLEAN
        BY <1>3 DEF CallEnds, McpInv, McpTypeOK
    <2>2. /\ to.text = request[i].text /\ to.asked = request[i].asked - 1
          /\ to.failed = (request[i].failed \/ how # "data")
          /\ to \in [text : Texts, asked : 0..3, failed : BOOLEAN]
        <3>1. /\ to.text = request[i].text /\ to.asked = request[i].asked - 1
              /\ to.asked \in 0..3
            BY <2>1 DEF McpInv, McpTypeOK
        <3>2. to.failed = (request[i].failed \/ how # "data")
            BY <2>1 DEF McpInv, McpTypeOK
        <3>3. to \in [text : Texts, asked : 0..3, failed : BOOLEAN]
            BY <2>1, <3>1, <3>2 DEF McpInv, McpTypeOK
        <3> QED
            BY <3>1, <3>2, <3>3
    <2>3. /\ request' = [request EXCEPT ![i] = to] /\ UNCHANGED <<life, nread, effect>>
          /\ IF Settled(i, to) /\ ~request[i].failed
             THEN Out(i, IF to.failed THEN "error" ELSE "result")
             ELSE UNCHANGED stdout
        BY <1>3 DEF CallEnds
    <2>4. request[i].text = "write" /\ ~to.failed => effect[i] = 1
        BY <1>3, <2>2 DEF CallEnds
    <2> HIDE DEF to
    <2>5. nread' \in 0..NLines /\ life' \in {"up", "doomed", "down"} /\ nread' = nread
        BY <2>3 DEF McpInv, McpTypeOK
    <2>6. i <= nread'
        <3>1. ~(i > nread)
            BY <2>1 DEF McpInv, LineInv, NoRequest
        <3> QED
            BY <2>5, <3>1 DEF Line
    <2>7. /\ to.text \in Tools /\ to.text \notin {"silent", "null"}
          /\ effect[i] = 1 => to.text = "write"
          /\ to.text = "write" => to.asked <= 1
          /\ Replies(i) # {} <=> request[i].failed
        BY <2>1, <2>2 DEF McpInv, LineInv, SettledInv, Tools
    <2>8. CASE Settled(i, to) /\ ~request[i].failed
        <3>1. PICK what \in {"result", "error", "refused"} :
                  Out(i, what) /\ (what = "result" => ~to.failed)
            BY <2>3, <2>8
        <3>2. to.asked = 0 \/ to.failed
            BY <2>8 DEF Settled
        <3> QED
            BY <2>2, <2>3, <2>4, <2>5, <2>6, <2>7, <2>8, <3>1, <3>2, LineKeeps
    <2>9. CASE ~(Settled(i, to) /\ ~request[i].failed)
        <3>1. UNCHANGED stdout /\ (request[i].failed <=> (to.asked = 0 \/ to.failed))
            BY <2>2, <2>3, <2>9 DEF Settled
        <3> QED
            BY <2>2, <2>3, <2>5, <2>6, <2>7, <3>1, LineKeeps
    <2> QED
        BY <2>8, <2>9
<1>4. CASE ProcessExits
    BY <1>4 DEF ProcessExits, McpInv, McpTypeOK, LineInv, SettledInv, OrderInv, ResultInv,
                Replies
<1>5. CASE UNCHANGED mcpVars
    BY <1>5 DEF mcpVars, McpInv, McpTypeOK, LineInv, SettledInv, OrderInv, ResultInv,
                Replies
<1> QED
    BY <1>1, <1>2, <1>3, <1>4, <1>5 DEF McpNext

\* The invariant says what a client can make of the replies.
LEMMA McpInvAnswers == McpInv => McpAnswers
<1> SUFFICES ASSUME McpInv PROVE McpAnswers
    OBVIOUS
<1> USE McpAssumption DEF McpInv, Replies
<1>1. \A i \in Line, k, l \in DOMAIN stdout :
          k \in Replies(i) /\ l \in Replies(i) => k = l
    BY DEF OrderInv
<1>2. ASSUME NEW i \in 1..nread
      PROVE  /\ i \in Line
             /\ request[i].text \notin {"silent", "null"} /\ ~InFlight(i) =>
                   Replies(i) # {}
             /\ Replies(i) # {} => request[i].text \notin {"silent", "null"}
    <2>1. i \in Line /\ request[i].asked \in 0..3
        BY DEF McpTypeOK, Line
    <2> QED
        BY <2>1 DEF SettledInv, InFlight
<1>3. ASSUME NEW i \in 1..nread, NEW k \in DOMAIN stdout, stdout[k] = <<i, "result">>
      PROVE  /\ ~InFlight(i) /\ ~request[i].failed
             /\ request[i].text = "write" => effect[i] = 1
    BY <1>3 DEF ResultInv, InFlight
<1> QED
    BY <1>1, <1>2, <1>3 DEF McpAnswers, OrderInv

-----------------------------------------------------------------------------
(* Streams of pages that come and go.                                       *)

VisitRecord ==
    [page : {"hidden", "shown", "left"}, first : BOOLEAN,
     pc : {"off", "ticket", "open", "waiting", "gone"},
     left : {"off", "ticket", "open", "waiting", "gone"}, failed : BOOLEAN]

\* A stream starts with its page; one that is left lives on only by the timer.
VisitFits(s) ==
    /\ s.page = "hidden" <=> s.pc = "off"
    /\ s.page = "shown" /\ s.pc = "gone" => s.failed
    /\ s.page = "left" /\ s.pc # "gone" =>
          s.left = "waiting" \/ (s.left = "ticket" /\ ~s.first)

ViewInv == view \in [Visit -> VisitRecord] /\ \A v \in Visit : VisitFits(view[v])

\* It holds at the start.
LEMMA ViewInitInv == ViewInit => ViewInv
<1>1. NoVisit \in VisitRecord /\ VisitFits(NoVisit)
    BY DEF NoVisit, VisitRecord, VisitFits
<1> QED
    BY <1>1 DEF ViewInit, ViewInv

\* Every step keeps it.
LEMMA ViewStepInv == ViewInv /\ [ViewNext]_viewVars => ViewInv'
<1> SUFFICES ASSUME ViewInv, [ViewNext]_viewVars PROVE ViewInv'
    OBVIOUS
<1>1. ASSUME NEW v \in Visit, NEW to \in VisitRecord, VisitFits(to),
             view' = [view EXCEPT ![v] = to]
      PROVE  ViewInv'
    BY <1>1 DEF ViewInv
<1>2. \A v \in Visit : view[v] \in VisitRecord /\ VisitFits(view[v])
    BY DEF ViewInv
<1>3. ASSUME NEW v \in Visit, ShowPage(v)
      PROVE  ViewInv'
    <2> DEFINE to == [view[v] EXCEPT !.page = "shown", !.pc = "ticket"]
    <2>1. /\ to \in VisitRecord /\ to.page = "shown" /\ to.pc = "ticket"
        BY <1>2 DEF VisitRecord
    <2>2. view' = [view EXCEPT ![v] = to]
        BY <1>3 DEF ShowPage
    <2> HIDE DEF to
    <2> QED
        BY <1>1, <2>1, <2>2 DEF VisitFits
<1>4. ASSUME NEW v \in Visit, LeavePage(v)
      PROVE  ViewInv'
    <2> DEFINE to == [view[v] EXCEPT !.page = "left", !.left = view[v].pc,
                                     !.pc = Cleaned(view[v])]
    <2>1. Cleaned(view[v]) \in {"gone", view[v].pc}
        BY DEF Cleaned
    <2>2. /\ to \in VisitRecord /\ to.page = "left" /\ to.left = view[v].pc
          /\ to.pc = Cleaned(view[v]) /\ to.first = view[v].first
        BY <1>2, <2>1 DEF VisitRecord
    <2>3. view[v].page = "shown" /\ view' = [view EXCEPT ![v] = to]
        BY <1>4 DEF LeavePage
    <2> HIDE DEF to
    <2>4. VisitFits(to)
        BY <1>2, <2>2, <2>3 DEF VisitFits, VisitRecord, Cleaned
    <2> QED
        BY <1>1, <2>2, <2>3, <2>4
<1>5. ASSUME NEW v \in Visit, NEW pc \in {"open", "waiting"}, view[v].pc # "off",
             view[v].pc # "gone", view' = [view EXCEPT ![v].pc = pc]
      PROVE  ViewInv'
    <2> DEFINE to == [view[v] EXCEPT !.pc = pc]
    <2>1. /\ to \in VisitRecord /\ to.pc = pc /\ to.page = view[v].page
          /\ to.left = view[v].left /\ to.first = view[v].first
        BY <1>2 DEF VisitRecord
    <2>2. view' = [view EXCEPT ![v] = to]
        BY <1>5
    <2> HIDE DEF to
    <2>3. VisitFits(to)
        BY <1>2, <1>5, <2>1 DEF VisitFits
    <2> QED
        BY <1>1, <2>1, <2>2, <2>3
<1>6. ASSUME NEW v \in Visit, TicketArrives(v) \/ StreamFails(v)
      PROVE  ViewInv'
    BY <1>5, <1>6 DEF TicketArrives, StreamFails, AtPc
<1>7. ASSUME NEW v \in Visit, TicketFails(v)
      PROVE  ViewInv'
    <2> DEFINE to == [view[v] EXCEPT !.pc = "gone", !.failed = TRUE]
    <2>1. /\ to \in VisitRecord /\ to.pc = "gone" /\ to.failed
          /\ to.page = view[v].page
        BY <1>2 DEF VisitRecord
    <2>2. view[v].pc = "ticket" /\ view' = [view EXCEPT ![v] = to]
        BY <1>7 DEF TicketFails, AtPc
    <2> HIDE DEF to
    <2>3. VisitFits(to)
        BY <1>2, <2>1, <2>2 DEF VisitFits
    <2> QED
        BY <1>1, <2>1, <2>2, <2>3
<1>8. ASSUME NEW v \in Visit, Reconnects(v)
      PROVE  ViewInv'
    <2> DEFINE to == [view[v] EXCEPT !.pc = "ticket", !.first = FALSE]
    <2>1. /\ to \in VisitRecord /\ to.pc = "ticket" /\ ~to.first
          /\ to.page = view[v].page /\ to.left = view[v].left
        BY <1>2 DEF VisitRecord
    <2>2. view[v].pc = "waiting" /\ view' = [view EXCEPT ![v] = to]
        BY <1>8 DEF Reconnects, AtPc
    <2> HIDE DEF to
    <2>3. VisitFits(to)
        BY <1>2, <2>1, <2>2 DEF VisitFits
    <2> QED
        BY <1>1, <2>1, <2>2, <2>3
<1>9. CASE UNCHANGED viewVars
    BY <1>9 DEF viewVars, ViewInv
<1> QED
    BY <1>3, <1>4, <1>6, <1>7, <1>8, <1>9 DEF ViewNext

\* The invariant explains the streams there are.
LEMMA ViewInvExplains == ViewInv => StreamsExplained
BY DEF ViewInv, VisitFits, VisitRecord, StreamsExplained, AtPc

-----------------------------------------------------------------------------
(* Who a browser is.                                                        *)

KeyOrNone == Credential \cup {NoCredential}
CallRecord == [pc : {"idle", "first", "exchange", "retry", "by_key"}, by : KeyOrNone,
               with : Nat, probe : BOOLEAN, late : BOOLEAN]

ConsoleTyped ==
    /\ memKey \in KeyOrNone /\ sessionReady \in BOOLEAN /\ authed \in BOOLEAN
    /\ raced \in BOOLEAN /\ cut \in BOOLEAN
    /\ issued \in Seq(KeyOrNone) /\ cookie \in 0..Len(issued)
    /\ calls \in [ApiCall -> CallRecord]
    /\ logout.sent \in BOOLEAN /\ logout.with \in 0..Len(issued)

\* A session that is believed in is the cookie's, of the key held.
BeliefInv ==
    sessionReady => \/ raced \/ cut
                    \/ Signed(cookie) /\ issued[cookie] = memKey

\* A key is exchanged for the session of the key held, unless that has changed;
\* the call that follows has a session; and one that went out without, and was
\* not overtaken by an exchange, is answered while there is none.
CallInv ==
    \A c \in ApiCall :
        /\ calls[c].pc = "exchange" =>
              calls[c].by # NoCredential /\ (raced \/ calls[c].by = memKey)
        /\ calls[c].pc = "retry" => calls[c].with # 0
        /\ calls[c].pc = "first" /\ calls[c].with = 0 /\ ~calls[c].late =>
              ~sessionReady \/ raced \/ cut

ConsoleInv ==
    ConsoleTyped /\ BeliefInv /\ CallInv /\ refusal # "unexplained"

\* It holds at the start.
LEMMA ConsoleInitInv == ConsoleInit => ConsoleInv
<1> SUFFICES ASSUME ConsoleInit PROVE ConsoleInv
    OBVIOUS
<1>1. /\ NoApiCall \in CallRecord /\ NoApiCall.pc = "idle"
      /\ <<>> \in Seq(KeyOrNone) /\ Len(<<>>) = 0
    BY DEF NoApiCall, CallRecord, KeyOrNone
<1>2. ConsoleTyped
    <2>1. logout.sent = FALSE /\ logout.with = 0
        BY DEF ConsoleInit, NoLogout
    <2>2. calls \in [ApiCall -> CallRecord]
        BY <1>1 DEF ConsoleInit
    <2>3. issued \in Seq(KeyOrNone) /\ Len(issued) = 0
        BY <1>1 DEF ConsoleInit
    <2>4. /\ memKey = NoCredential /\ sessionReady = FALSE /\ authed = FALSE
          /\ cookie = 0 /\ raced = FALSE /\ cut = FALSE
        BY DEF ConsoleInit
    <2>5. cookie \in 0..Len(issued) /\ logout.with \in 0..Len(issued)
        BY <2>1, <2>3, <2>4
    <2>6. logout.sent \in BOOLEAN /\ memKey \in KeyOrNone
        BY <2>1, <2>4 DEF KeyOrNone
    <2> QED
        BY <2>2, <2>3, <2>4, <2>5, <2>6 DEF ConsoleTyped
<1>3. \A c \in ApiCall : calls[c].pc = "idle"
    BY <1>1 DEF ConsoleInit
<1> QED
    BY <1>2, <1>3 DEF ConsoleInit, ConsoleInv, BeliefInv, CallInv

\* A call's step that concerns only calls.
LEMMA CallOnlyKeeps ==
    ASSUME ConsoleInv, NEW c \in ApiCall, NEW to \in CallRecord,
           calls' = [calls EXCEPT ![c] = to],
           UNCHANGED <<memKey, sessionReady, issued, cookie, raced, cut, logout>>,
           authed' \in BOOLEAN, refusal' # "unexplained",
           to.pc = "exchange" => to.by # NoCredential /\ to.by = memKey,
           to.pc # "retry",
           to.pc = "first" => to.with = cookie
    PROVE  ConsoleInv'
<1>1. calls'[c] = to /\ \A d \in ApiCall \ {c} : calls'[d] = calls[d]
    BY DEF ConsoleInv, ConsoleTyped
<1>2. ConsoleTyped' /\ BeliefInv'
    BY DEF ConsoleInv, ConsoleTyped, BeliefInv, Signed
<1>3. CallInv'
    BY <1>1 DEF ConsoleInv, CallInv, BeliefInv, Signed
<1> QED
    BY <1>2, <1>3 DEF ConsoleInv

\* The server's sessions, one of them ended.
LEMMA RevokedSessions ==
    ASSUME issued \in Seq(KeyOrNone), NEW s \in 0..Len(issued)
    PROVE  /\ Revoked(s) \in Seq(KeyOrNone) /\ Len(Revoked(s)) = Len(issued)
           /\ \A i \in 1..Len(issued) : i # s => Revoked(s)[i] = issued[i]
<1>1. CASE s = 0
    BY <1>1 DEF Revoked
<1>2. CASE s # 0
    <2>1. s \in 1..Len(issued) /\ NoCredential \in KeyOrNone
        BY <1>2 DEF KeyOrNone
    <2>2. Revoked(s) = [issued EXCEPT ![s] = NoCredential]
        BY <1>2 DEF Revoked
    <2> QED
        BY <2>1, <2>2, ExceptSeq
<1> QED
    BY <1>1, <1>2

\* Every step keeps it.
LEMMA ConsoleStepInv == ConsoleInv /\ [ConsoleNext]_conVars => ConsoleInv'
<1> SUFFICES ASSUME ConsoleInv, [ConsoleNext]_conVars PROVE ConsoleInv'
    OBVIOUS
<1>1. /\ \A c \in ApiCall : calls[c] \in CallRecord
      /\ NoApiCall \in CallRecord /\ NoApiCall.pc = "idle"
      /\ Len(issued) \in Nat /\ memKey \in KeyOrNone
    BY DEF ConsoleInv, ConsoleTyped, NoApiCall, CallRecord, KeyOrNone
<1>2. ASSUME NEW c \in ApiCall, NEW key,
             Refused(c, key) \/ Succeeds(c), UNCHANGED <<logout, keyState>>,
             Refused(c, key) =>
                \/ key = NoCredential \/ calls[c].with # 0 \/ calls[c].late
                \/ raced \/ cut
      PROVE  ConsoleInv'
    <2>1. refusal' # "unexplained" /\ calls' = [calls EXCEPT ![c] = NoApiCall]
        BY <1>2 DEF Refused, Succeeds
    <2>2. authed' \in BOOLEAN
        <3>1. calls[c].probe \in BOOLEAN /\ authed \in BOOLEAN
            BY <1>1 DEF CallRecord, ConsoleInv, ConsoleTyped
        <3> QED
            BY <1>2, <3>1 DEF Refused, Succeeds
    <2> QED
        BY <1>1, <1>2, <2>1, <2>2, CallOnlyKeeps DEF keyState
<1>3. ASSUME NEW c \in ApiCall, NEW pc \in {"by_key", "exchange"}, Goes(c, pc),
             UNCHANGED <<logout, keyState>>, pc = "exchange" => memKey # NoCredential
      PROVE  ConsoleInv'
    <2> DEFINE to == [calls[c] EXCEPT !.pc = pc, !.by = memKey, !.with = 0]
    <2>1. to \in CallRecord /\ to.pc = pc /\ to.by = memKey
        BY <1>1 DEF CallRecord
    <2>2. /\ calls' = [calls EXCEPT ![c] = to] /\ refusal' = "none"
          /\ authed' \in BOOLEAN
        BY <1>3 DEF Goes, ConsoleInv, ConsoleTyped
    <2> HIDE DEF to
    <2> QED
        BY <1>3, <2>1, <2>2, CallOnlyKeeps DEF keyState
<1>4. ASSUME NEW c \in ApiCall, SendCall(c)
      PROVE  ConsoleInv'
    <2> DEFINE to == [NoApiCall EXCEPT !.pc = "first", !.with = cookie]
    <2>1. cookie \in Nat
        BY <1>1 DEF ConsoleInv, ConsoleTyped
    <2>2. to \in CallRecord /\ to.pc = "first" /\ to.with = cookie
        BY <2>1 DEF CallRecord, NoApiCall, KeyOrNone
    <2>3. calls' = [calls EXCEPT ![c] = to] /\ refusal' = "none" /\ authed' \in BOOLEAN
        BY <1>4 DEF SendCall, ConsoleInv, ConsoleTyped
    <2> HIDE DEF to
    <2> QED
        BY <1>4, <2>2, <2>3, CallOnlyKeeps DEF SendCall, keyState
<1>5. ASSUME NEW c \in ApiCall, FirstAnswered(c)
      PROVE  ConsoleInv'
    <2>1. UNCHANGED <<logout, keyState>> /\ calls[c].pc = "first"
        BY <1>5 DEF FirstAnswered
    <2>2. CASE Signed(calls[c].with)
        BY <1>2, <1>5, <2>1, <2>2 DEF FirstAnswered
    <2>3. CASE ~Signed(calls[c].with) /\ sessionReady
        <3>1. calls[c].with # 0 \/ calls[c].late \/ raced \/ cut
            BY <2>1, <2>3 DEF ConsoleInv, CallInv
        <3> QED
            BY <1>2, <1>5, <2>1, <2>3, <3>1 DEF FirstAnswered
    <2>4. CASE ~Signed(calls[c].with) /\ ~sessionReady
        BY <1>3, <1>5, <2>1, <2>4 DEF FirstAnswered
    <2> QED
        BY <2>2, <2>3, <2>4
<1>6. ASSUME NEW c \in ApiCall, ExchangeFails(c)
      PROVE  ConsoleInv'
    BY <1>3, <1>6 DEF ExchangeFails
<1>7. ASSUME NEW c \in ApiCall, LastAnswered(c)
      PROVE  ConsoleInv'
    <2>1. UNCHANGED <<logout, keyState>> /\ calls[c].pc \in {"retry", "by_key"}
        BY <1>7 DEF LastAnswered
    <2>2. Refused(c, calls[c].by) \/ Succeeds(c)
        BY <1>7 DEF LastAnswered
    <2>3. calls[c].pc = "retry" => calls[c].with # 0
        BY DEF ConsoleInv, CallInv
    <2>4. calls[c].pc = "by_key" /\ calls[c].by # NoCredential => Succeeds(c)
        BY <1>7 DEF LastAnswered
    <2>5. CASE Succeeds(c)
        BY <1>2, <2>1, <2>3, <2>4, <2>5 DEF Refused
    <2>6. CASE ~Succeeds(c)
        BY <1>2, <2>1, <2>2, <2>3, <2>4, <2>6
    <2> QED
        BY <2>5, <2>6
<1>8. ASSUME NEW c \in ApiCall, NetworkFails(c)
      PROVE  ConsoleInv'
    <2>1. /\ calls' = [calls EXCEPT ![c] = NoApiCall] /\ refusal' = "none"
          /\ UNCHANGED <<authed, logout, keyState>>
        BY <1>8 DEF NetworkFails
    <2>2. authed' \in BOOLEAN
        BY <2>1 DEF ConsoleInv, ConsoleTyped
    <2> QED
        BY <1>1, <2>1, <2>2, CallOnlyKeeps DEF keyState
<1>9. ASSUME NEW c \in ApiCall, ExchangeAnswered(c)
      PROVE  ConsoleInv'
    <2> DEFINE of == [calls[c] EXCEPT !.pc = "retry", !.with = cookie']
               late(d) == [calls[d] EXCEPT !.late = @ \/ calls[d].pc = "first"]
    <2>1. /\ calls[c].pc = "exchange" /\ issued' = Append(issued, calls[c].by)
          /\ cookie' = Len(issued') /\ sessionReady' = TRUE
          /\ calls' = [d \in ApiCall |-> IF d = c THEN of ELSE late(d)]
          /\ refusal' = "none" /\ UNCHANGED <<memKey, authed, logout, raced>>
          /\ cut' = FALSE
        BY <1>9 DEF ExchangeAnswered
    <2>2. /\ calls[c].by # NoCredential /\ (raced \/ calls[c].by = memKey)
          /\ calls[c].by \in KeyOrNone
        BY <1>1, <2>1 DEF ConsoleInv, CallInv, CallRecord
    <2>3. /\ issued' \in Seq(KeyOrNone) /\ Len(issued') = Len(issued) + 1
          /\ cookie' = Len(issued) + 1 /\ issued'[cookie'] = calls[c].by
        BY <1>1, <2>1, <2>2 DEF ConsoleInv, ConsoleTyped
    <2>4. cookie' \in Nat /\ cookie' # 0
        BY <1>1, <2>3
    <2>5. of \in CallRecord /\ of.pc = "retry" /\ of.with = cookie'
        BY <1>1, <2>4 DEF CallRecord
    <2>6. ASSUME NEW d \in ApiCall
          PROVE  /\ late(d) \in CallRecord /\ late(d).pc = calls[d].pc
                 /\ late(d).by = calls[d].by /\ late(d).with = calls[d].with
                 /\ calls[d].pc = "first" => late(d).late
        <3>1. calls[d].late \in BOOLEAN /\ (calls[d].late \/ calls[d].pc = "first") \in BOOLEAN
            BY <1>1 DEF CallRecord
        <3>2. late(d).late = (calls[d].late \/ calls[d].pc = "first")
            BY <1>1 DEF CallRecord
        <3>3. /\ late(d).pc = calls[d].pc /\ late(d).by = calls[d].by
              /\ late(d).with = calls[d].with
            BY <1>1 DEF CallRecord
        <3>4. late(d) \in CallRecord
            BY <1>1, <3>1, <3>2 DEF CallRecord
        <3> QED
            BY <3>2, <3>3, <3>4
    <2> HIDE DEF of, late
    <2>7. /\ calls'[c] = of /\ \A d \in ApiCall \ {c} : calls'[d] = late(d)
          /\ calls' \in [ApiCall -> CallRecord]
        BY <2>1, <2>5, <2>6
    <2>8. ConsoleTyped'
        <3>1. logout'.sent \in BOOLEAN /\ logout'.with \in 0..Len(issued')
            BY <1>1, <2>1, <2>3 DEF ConsoleInv, ConsoleTyped
        <3>2. cookie' \in 0..Len(issued')
            BY <1>1, <2>3
        <3> QED
            BY <2>1, <2>3, <2>7, <3>1, <3>2 DEF ConsoleInv, ConsoleTyped
    <2>9. BeliefInv'
        BY <2>1, <2>2, <2>3, <2>4 DEF BeliefInv, Signed
    <2>10. CallInv'
        BY <2>1, <2>4, <2>5, <2>6, <2>7 DEF ConsoleInv, CallInv
    <2> QED
        BY <2>1, <2>8, <2>9, <2>10 DEF ConsoleInv
<1>10. ASSUME NEW k \in KeyOrNone, SetApiKey(k), authed' \in BOOLEAN,
              logout' = logout \/ logout' = [sent |-> TRUE, with |-> cookie],
              refusal' = "none", UNCHANGED <<issued, cookie, calls, cut>>
       PROVE  ConsoleInv'
    <2>1. memKey' = k /\ sessionReady' = FALSE /\ raced' = (raced \/ Exchanging)
        BY <1>10 DEF SetApiKey
    <2>2. ConsoleTyped'
        <3>1. logout'.sent \in BOOLEAN /\ logout'.with \in 0..Len(issued)
            <4>1. CASE logout' = logout
                BY <4>1 DEF ConsoleInv, ConsoleTyped
            <4>2. CASE logout' = [sent |-> TRUE, with |-> cookie]
                <5>1. logout'.sent = TRUE /\ logout'.with = cookie
                    BY <4>2
                <5> QED
                    BY <5>1 DEF ConsoleInv, ConsoleTyped
            <4> QED
                BY <1>10, <4>1, <4>2
        <3>2. raced' \in BOOLEAN
            BY <2>1 DEF ConsoleInv, ConsoleTyped
        <3> QED
            BY <1>10, <2>1, <3>1, <3>2 DEF ConsoleInv, ConsoleTyped
    <2>3. CallInv'
        BY <1>10, <2>1 DEF ConsoleInv, CallInv, Exchanging
    <2> QED
        BY <1>10, <2>1, <2>2, <2>3 DEF ConsoleInv, BeliefInv
<1>11. CASE (\E k \in Credential : SaveKey(k)) \/ Lock
    BY <1>10, <1>11 DEF SaveKey, Lock, KeyOrNone
<1>12. CASE ClearApiKey
    <2>1. authed' \in BOOLEAN
        BY <1>12 DEF ClearApiKey, ConsoleInv, ConsoleTyped
    <2> QED
        BY <1>10, <1>12, <2>1 DEF ClearApiKey, KeyOrNone
<1>13. CASE LogoutAnswered
    <2>1. /\ issued' = Revoked(logout.with) /\ cookie' = 0 /\ cut' = (cut \/ sessionReady)
          /\ logout' = NoLogout /\ refusal' = "none"
          /\ UNCHANGED <<memKey, sessionReady, authed, calls, raced>>
        BY <1>13 DEF LogoutAnswered
    <2>2. issued' \in Seq(KeyOrNone) /\ Len(issued') = Len(issued)
        BY <2>1, RevokedSessions DEF ConsoleInv, ConsoleTyped
    <2>3. cut' \in BOOLEAN
        BY <2>1 DEF ConsoleInv, ConsoleTyped
    <2>4. ConsoleTyped'
        BY <1>1, <2>1, <2>2, <2>3 DEF ConsoleInv, ConsoleTyped, NoLogout
    <2>5. BeliefInv' /\ CallInv'
        BY <2>1 DEF ConsoleInv, BeliefInv, CallInv
    <2> QED
        BY <2>1, <2>4, <2>5 DEF ConsoleInv
<1>14. CASE LogoutFails
    <2>1. /\ logout' = NoLogout /\ refusal' = "none"
          /\ UNCHANGED <<authed, calls, memKey, sessionReady, issued, cookie, raced, cut>>
        BY <1>14 DEF LogoutFails, keyState
    <2>2. ConsoleTyped'
        BY <1>1, <2>1 DEF ConsoleInv, ConsoleTyped, NoLogout
    <2> QED
        BY <2>1, <2>2 DEF ConsoleInv, BeliefInv, CallInv, Signed
<1>15. ASSUME NEW s \in DOMAIN issued, SessionEnds(s)
       PROVE  ConsoleInv'
    <2>1. /\ issued' = Revoked(s) /\ cut' = (cut \/ (sessionReady /\ s = cookie))
          /\ refusal' = "none"
          /\ UNCHANGED <<memKey, sessionReady, authed, cookie, calls, logout, raced>>
        BY <1>15 DEF SessionEnds
    <2>2. s \in 0..Len(issued) /\ issued \in Seq(KeyOrNone)
        BY DEF ConsoleInv, ConsoleTyped
    <2>3. /\ issued' \in Seq(KeyOrNone) /\ Len(issued') = Len(issued)
          /\ \A i \in 1..Len(issued) : i # s => issued'[i] = issued[i]
        BY <2>1, <2>2, RevokedSessions
    <2>4. cut' \in BOOLEAN
        BY <2>1 DEF ConsoleInv, ConsoleTyped
    <2>5. ConsoleTyped'
        BY <2>1, <2>3, <2>4 DEF ConsoleInv, ConsoleTyped
    <2>6. BeliefInv'
        <3>1. cookie \in 0..Len(issued)
            BY DEF ConsoleInv, ConsoleTyped
        <3>2. CASE s = cookie
            BY <2>1, <3>2 DEF BeliefInv
        <3>3. CASE s # cookie
            <4>1. cookie # 0 => issued'[cookie] = issued[cookie]
                BY <1>1, <2>3, <3>1, <3>3
            <4> QED
                BY <2>1, <4>1 DEF ConsoleInv, BeliefInv, Signed
        <3> QED
            BY <3>2, <3>3
    <2>7. CallInv'
        BY <2>1 DEF ConsoleInv, CallInv
    <2> QED
        BY <2>1, <2>5, <2>6, <2>7 DEF ConsoleInv
<1>16. CASE Reload
    <2>1. /\ memKey' = NoCredential /\ sessionReady' = FALSE /\ authed' = FALSE
          /\ issued' \in {issued, Revoked(logout.with)}
          /\ Loaded(CHOOSE c \in ApiCall : TRUE)
          /\ logout' = NoLogout /\ raced' = FALSE /\ cut' = FALSE
          /\ refusal' = "none" /\ UNCHANGED cookie
        BY <1>16 DEF Reload
    <2>2. issued' \in Seq(KeyOrNone) /\ Len(issued') = Len(issued)
        BY <2>1, RevokedSessions DEF ConsoleInv, ConsoleTyped
    <2> DEFINE to == [NoApiCall EXCEPT !.pc = "first", !.with = cookie, !.probe = TRUE]
    <2>3. to \in CallRecord /\ to.pc = "first"
        <3>1. cookie \in Nat
            BY <1>1 DEF ConsoleInv, ConsoleTyped
        <3> QED
            BY <3>1 DEF CallRecord, NoApiCall, KeyOrNone
    <2>4. PICK first : calls' = [d \in ApiCall |-> IF d = first THEN to ELSE NoApiCall]
        BY <2>1 DEF Loaded
    <2> HIDE DEF to
    <2>5. /\ calls' \in [ApiCall -> CallRecord]
          /\ \A d \in ApiCall : calls'[d].pc \in {"first", "idle"}
        BY <1>1, <2>3, <2>4
    <2>6. ConsoleTyped'
        <3>1. logout'.sent = FALSE /\ logout'.with = 0
            BY <2>1 DEF NoLogout
        <3>2. cookie' \in 0..Len(issued') /\ 0 \in 0..Len(issued')
            BY <1>1, <2>1, <2>2 DEF ConsoleInv, ConsoleTyped
        <3> QED
            BY <2>1, <2>2, <2>5, <3>1, <3>2 DEF ConsoleTyped, KeyOrNone
    <2>7. BeliefInv' /\ CallInv'
        BY <2>1, <2>5 DEF BeliefInv, CallInv
    <2> QED
        BY <2>1, <2>6, <2>7 DEF ConsoleInv
<1>17. CASE UNCHANGED conVars
    BY <1>17 DEF conVars, ConsoleInv, ConsoleTyped, BeliefInv, CallInv, Signed
<1> QED
    BY <1>4, <1>5, <1>6, <1>7, <1>8, <1>9, <1>11, <1>12, <1>13, <1>14, <1>15, <1>16, <1>17
    DEF ConsoleNext

\* The invariant contains what the browser may believe.
LEMMA ConsoleInvSound == ConsoleInv => ConsoleSound
BY DEF ConsoleInv, BeliefInv, ConsoleSound
=============================================================================

------------------------------- MODULE Tasks --------------------------------
(***************************************************************************)
(* The task service (packages/orchestration/src/tasks.ts) behind the task  *)
(* endpoints of apps/control-plane/src/app.ts: creation with dependencies, *)
(* guarded transitions, assignment, receipts and the ready queue.          *)
(*                                                                         *)
(* A writer is a request being served.  On PostgreSQL a transition and an  *)
(* assignment are a SELECT and a later UPDATE that is conditional on the   *)
(* version the SELECT saw, and other replicas run in between.              *)
(***************************************************************************)
EXTENDS TaskFlow, Naturals, FiniteSets

CONSTANTS TaskId, Writer, NoTask,
          Seed,        \* [status, version] a task row may already have
          WriteAt      \* bound: versions at which a write may begin

ASSUME TaskAssumption ==
    /\ NoTask \notin TaskId /\ IsFiniteSet(TaskId)
    /\ WriteAt \subseteq Nat
    /\ Seed \subseteq [status : TaskState, version : Nat]

VARIABLES
    row,      \* tasks: status, version, whether a receipt is attached
    edges,    \* task_dependencies: <<task, the task it waits for>>
    born,     \* the order of creation, by which ids are told apart
    write,    \* the versioned write each writer is in the middle of
    ledger    \* status the acknowledged transitions lead to, or "broken"

tskVars == <<row, edges, born, write, ledger>>

Unborn == [status |-> "absent", version |-> 0, receipt |-> FALSE]
NoWrite == [task |-> NoTask, from |-> "absent", to |-> "absent", version |-> 0]
Exists(t) == row[t].status # "absent"
CreatedBefore(d, t) == born[d] < born[t]

TasksTypeOK ==
    /\ row \in [TaskId -> [status : TaskState \cup {"absent"},
                           version : Nat, receipt : BOOLEAN]]
    /\ edges \subseteq TaskId \X TaskId
    /\ born \in [TaskId -> Nat]
    /\ write \in [Writer -> [task : TaskId \cup {NoTask},
                             from : TaskState \cup {"absent"},
                             to : TaskState \cup {"absent"}, version : Nat]]
    /\ ledger \in [TaskId -> TaskState \cup {"absent", "broken"}]

\* The service starts on an empty table or on one task of an earlier life.
TasksInit ==
    /\ edges = {}
    /\ write = [w \in Writer |-> NoWrite]
    /\ \/ row = [t \in TaskId |-> Unborn] /\ born = [t \in TaskId |-> 0]
       \/ \E t \in TaskId, s \in Seed :
             /\ row = [u \in TaskId |-> IF u = t
                         THEN [status |-> s.status, version |-> s.version,
                               receipt |-> FALSE]
                         ELSE Unborn]
             /\ born = [u \in TaskId |-> IF u = t THEN 1 ELSE 0]
    /\ ledger = [t \in TaskId |-> row[t].status]

-----------------------------------------------------------------------------
\* reaches(): does a chain of dependencies lead from one task to another?
Reaches(from, to) ==
    \A S \in SUBSET TaskId :
        from \in S /\ (\A e \in edges : e[1] \in S => e[2] \in S) => to \in S

\* addDependency() accepts an edge to another, existing task that closes no
\* cycle.
DependencyAccepted(t, d) == d # t /\ Exists(d) /\ ~Reaches(d, t)

\* create(): the row and its edges in one transaction; a dependency that is
\* refused rolls the whole creation back.  The id is fresh, so nothing can
\* wait for the task before it is committed.
CreateTask(t, deps) ==
    /\ ~Exists(t)
    /\ \A d \in deps : DependencyAccepted(t, d)
    /\ row' = [row EXCEPT ![t].status = "draft", ![t].version = 1]
    /\ edges' = edges \cup {<<t, d>> : d \in deps}
    /\ born' = [born EXCEPT ![t] = Cardinality({u \in TaskId : Exists(u)}) + 1]
    /\ ledger' = [ledger EXCEPT ![t] = "draft"]
    /\ UNCHANGED write

\* transition(), its SELECT: the target must follow from the status read.
ReadForTransition(w, t, to) ==
    /\ write[w] = NoWrite
    /\ Exists(t) /\ row[t].version \in WriteAt
    /\ CanTransition(row[t].status, to)
    /\ write' = [write EXCEPT ![w] = [task |-> t, from |-> row[t].status,
                                      to |-> to, version |-> row[t].version]]
    /\ UNCHANGED <<row, edges, born, ledger>>

\* assign(), its SELECT: no condition on the status.
ReadForAssign(w, t) ==
    /\ write[w] = NoWrite
    /\ Exists(t) /\ row[t].version \in WriteAt
    /\ write' = [write EXCEPT ![w] = [task |-> t, from |-> "absent", to |-> "absent",
                                      version |-> row[t].version]]
    /\ UNCHANGED <<row, edges, born, ledger>>

\* Mutant: the UPDATE repeats the status it read, not the version.
Bug_VersionHolds(w) == Exists(write[w].task)

\* updateById(): "WHERE id = ? AND version = n".
VersionHolds(w) == row[write[w].task].version = write[w].version

IsMove(w) == write[w].to # "absent"

\* The UPDATE matched: the row moves on and the caller is told so.
WriteCommits(w) ==
    /\ write[w] # NoWrite
    /\ VersionHolds(w)
    /\ LET t == write[w].task IN
       /\ row' = [row EXCEPT
                    ![t].status = IF IsMove(w) THEN write[w].to ELSE @,
                    ![t].version = @ + 1]
       /\ ledger' = [ledger EXCEPT ![t] =
                       IF ~IsMove(w) THEN @
                       ELSE IF @ = write[w].from THEN write[w].to
                       ELSE "broken"]
    /\ write' = [write EXCEPT ![w] = NoWrite]
    /\ UNCHANGED <<edges, born>>

\* No row changed: "concurrent modification detected".
WriteConflicts(w) ==
    /\ write[w] # NoWrite
    /\ ~VersionHolds(w)
    /\ write' = [write EXCEPT ![w] = NoWrite]
    /\ UNCHANGED <<row, edges, born, ledger>>

\* issueQualityReceipt(): attached without looking at the version or moving
\* it; for an unknown task the UPDATE changes nothing and a receipt is
\* returned all the same.
IssueReceipt(t) ==
    /\ Exists(t)
    /\ row' = [row EXCEPT ![t].receipt = TRUE]
    /\ UNCHANGED <<edges, born, write, ledger>>

\* readyQueue(): not begun, and waiting for nothing that is not completed.
ReadyQueue ==
    {t \in TaskId : /\ row[t].status \in {"draft", "ready"}
                    /\ \A d \in TaskId : <<t, d>> \in edges =>
                          row[d].status = "completed"}

TasksNext ==
    \/ \E t \in TaskId, deps \in SUBSET TaskId : CreateTask(t, deps)
    \/ \E t \in TaskId : IssueReceipt(t)
    \/ \E w \in Writer, t \in TaskId :
          \/ ReadForAssign(w, t)
          \/ \E to \in TaskState : ReadForTransition(w, t, to)
    \/ \E w \in Writer : WriteCommits(w) \/ WriteConflicts(w)

TasksSpec == TasksInit /\ [][TasksNext]_tskVars

-----------------------------------------------------------------------------
(* Properties.                                                             *)

\* However writers race, the transitions the service acknowledged form one
\* path through the life cycle that ends in the status stored now: none is
\* lost, repeated or taken from a status that was no longer there.
NoLostMove == \A t \in TaskId : ledger[t] = row[t].status

\* Nothing waits for itself through others: every edge leads to a task that
\* was created earlier.
EdgesLeadBack ==
    \A e \in edges : Exists(e[1]) /\ Exists(e[2]) /\ CreatedBefore(e[2], e[1])

\* What the requests for tasks leave behind is what they were told they did.
TasksConsistent == NoLostMove /\ EdgesLeadBack
=============================================================================

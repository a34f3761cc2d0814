----------------------------- MODULE Execution ------------------------------
(***************************************************************************)
(* Agent executions: POST /api/v1/executions (apps/control-plane/src/app.ts)*)
(* and its background handler execute_task (workers.ts), on top of the job *)
(* queue.  Execution j is carried by job j (the payload's executionId).    *)
(*                                                                         *)
(* A dispatch writes three rows with no transaction around them: the       *)
(* client's idempotency key, the execution, the job.  Each SQL statement   *)
(* is a step, because another replica or a process death can come between. *)
(* The handler awaits once, for the model router; what it writes before    *)
(* and after that is also cut where a death or an error shows.  Any of its *)
(* statements may throw, inside its try and outside; errors counts them.   *)
(***************************************************************************)
EXTENDS JobQueue

CONSTANTS Request,     \* dispatch requests, client retries included
          Key, NoKey,  \* client idempotency keys, and "none supplied"
          AgentRef,    \* what a request's agentId may name: an agent of its
                       \* own organisation, one of another, or none
          MaxErrors    \* bound on database errors in the handling of one job

ASSUME RequestAssumption ==
    NoKey \notin Key /\ AgentRef \subseteq {"own", "foreign", "missing"}

VARIABLES
    req,      \* progress of each dispatch request
    keyRow,   \* idempotency_keys: the execution id stored for a key
    exec,     \* executions.status
    foreign,  \* executions whose agent belongs to another organisation
    stage,    \* where the handler run by a worker is
    errors,   \* database errors thrown while a job was handled
    charged,  \* completions charged to an execution
    agent,    \* status of the agent the executions are assigned to
    task      \* status of its task: not begun (ready, planned), in_progress

dispatchVars == <<req, keyRow, foreign>>
taskVars == <<stage, errors, charged, agent, task>>
execVars == <<dispatchVars, exec, taskVars>>
eVars == <<vars, execVars>>

ExecStatus == {"absent", "queued", "running", "succeeded", "failed", "timeout"}

NewRequest == [pc |-> "new", key |-> NoKey, names |-> "own", id |-> NoJob]

ETypeOK ==
    /\ TypeOK
    /\ req \in [Request ->
          [pc : {"new", "checked", "owner", "inserted", "replied", "lost"},
           key : Key \cup {NoKey}, names : {"own", "foreign", "missing"},
           id : Job \cup {NoJob}]]
    /\ keyRow \in [Key -> Job \cup {NoJob}]
    /\ exec \in [Job -> ExecStatus] /\ foreign \subseteq Job
    /\ stage \in [Worker -> {"entry", "model", "recorded", "done", "failed"}]
    /\ errors \in [Job -> Nat]
    /\ charged \in [Job -> Nat]
    /\ agent \in {"idle", "busy"}
    /\ task \in [Job -> {"ready", "in_progress"}]

EInit ==
    /\ Init
    /\ req = [r \in Request |-> NewRequest]
    /\ keyRow = [k \in Key |-> NoJob]
    /\ exec = [j \in Job |-> "absent"] /\ foreign = {}
    /\ stage = [w \in Worker |-> "entry"]
    /\ errors = [j \in Job |-> 0]
    /\ charged = [j \in Job |-> 0]
    /\ agent = "idle"
    /\ task = [j \in Job |-> "ready"]

-----------------------------------------------------------------------------
(* Dispatch.                                                               *)

FreshId == {j \in Job : \A r \in Request : req[r].id # j}

\* SELECT response_hash FROM idempotency_keys ... A stored answer is replayed;
\* otherwise the request draws its execution id.
DispatchCheck(r) ==
    /\ req[r].pc = "new"
    /\ \E k \in Key \cup {NoKey}, names \in AgentRef :
          IF k \in Key /\ keyRow[k] # NoJob
          THEN req' = [req EXCEPT ![r] = [pc |-> "replied", key |-> k,
                                          names |-> names, id |-> keyRow[k]]]
          ELSE \E j \in FreshId :
               req' = [req EXCEPT ![r] =
                         [pc |-> IF k = NoKey THEN "owner" ELSE "checked",
                          key |-> k, names |-> names, id |-> j]]
    /\ UNCHANGED <<vars, keyRow, foreign, exec, taskVars>>

\* Mutant: check-then-insert, as before atomicIdempotencyPut.
Bug_PutOverwrites(r) ==
    /\ req[r].pc = "checked"
    /\ keyRow' = [keyRow EXCEPT ![req[r].key] = req[r].id]
    /\ req' = [req EXCEPT ![r].pc = "owner"]
    /\ UNCHANGED <<vars, foreign, exec, taskVars>>

\* atomicIdempotencyPut(): insert first; the loser replays the winner's answer.
DispatchPut(r) ==
    LET k == req[r].key IN
    /\ req[r].pc = "checked"
    /\ IF keyRow[k] = NoJob
       THEN /\ keyRow' = [keyRow EXCEPT ![k] = req[r].id]
            /\ req' = [req EXCEPT ![r].pc = "owner"]
       ELSE /\ req' = [req EXCEPT ![r].pc = "replied", ![r].id = keyRow[k]]
            /\ UNCHANGED keyRow
    /\ UNCHANGED <<vars, foreign, exec, taskVars>>

\* INSERT INTO executions.  A missing agent violates the foreign key: the
\* request fails, and the key already stored stays behind.  The key only asks
\* that the agent exists, not whose it is.
DispatchInsert(r) ==
    LET j == req[r].id IN
    /\ req[r].pc = "owner"
    /\ IF req[r].names # "missing"
       THEN /\ exec' = [exec EXCEPT ![j] = "queued"]
            /\ foreign' = IF req[r].names = "foreign" THEN foreign \cup {j} ELSE foreign
            /\ req' = [req EXCEPT ![r].pc = "inserted"]
       ELSE /\ req' = [req EXCEPT ![r].pc = "lost"]
            /\ UNCHANGED <<exec, foreign>>
    /\ UNCHANGED <<vars, keyRow, taskVars>>

\* ctx.jobs.enqueue(), then the 202 answer
DispatchEnqueue(r) ==
    /\ req[r].pc = "inserted"
    /\ Enqueue(req[r].id)
    /\ req' = [req EXCEPT ![r].pc = "replied"]
    /\ UNCHANGED <<keyRow, foreign, exec, taskVars>>

\* The process serving the request dies between two statements, or a statement
\* throws and the request is answered 500.
DispatchDies(r) ==
    /\ crashes < MaxCrashes
    /\ req[r].pc \in {"checked", "owner", "inserted"}
    /\ crashes' = crashes + 1
    /\ req' = [req EXCEPT ![r].pc = "lost"]
    /\ UNCHANGED <<now, rowVars, workerVars, requeues, keyRow, foreign, exec,
                   taskVars>>

-----------------------------------------------------------------------------
(* The execute_task handler.                                               *)

\* Mutant: the handler does not look at what an earlier attempt did.
Bug_NeverFinished(j) == FALSE
\* Mutant: a running execution is taken to be in somebody else's hands.
Bug_OnlyQueued(j) == exec[j] # "queued"
\* if (exec.status === "succeeded" || exec.status === "failed") return;
AlreadyFinished(j) == exec[j] \in {"succeeded", "failed"}

\* The handler returns at once; processOne() then marks the job succeeded.
TaskSkips(w) ==
    /\ stage[w] = "entry"
    /\ phase[w] = "executing" /\ AlreadyFinished(picked[w])
    /\ HandlerSucceeds(w)
    /\ UNCHANGED execVars

\* Database errors thrown by the handler of job j; those of the queue's own
\* statements in its catch end the process (WorkerDies).
Throws(j, n) ==
    /\ errors[j] + n <= MaxErrors
    /\ errors' = [errors EXCEPT ![j] = @ + n]

\* Mark the execution running and the agent busy, then await the router.
TaskStarts(w) ==
    /\ stage[w] = "entry" /\ picked[w] \notin foreign
    /\ phase[w] = "executing" /\ ~AlreadyFinished(picked[w])
    /\ exec' = [exec EXCEPT ![picked[w]] = "running"]
    /\ agent' = "busy"
    /\ stage' = [stage EXCEPT ![w] = "model"]
    /\ UNCHANGED <<vars, dispatchVars, errors, charged, task>>

\* The row is marked running, but then setStatus() throws, before the try: it
\* finds no such agent in this organisation, or the database fails it.
TaskNeverStarts(w) ==
    /\ stage[w] = "entry"
    /\ phase[w] = "executing" /\ ~AlreadyFinished(picked[w])
    /\ IF picked[w] \in foreign THEN UNCHANGED errors ELSE Throws(picked[w], 1)
    /\ exec' = [exec EXCEPT ![picked[w]] = "running"]
    /\ HandlerFails(w)
    /\ UNCHANGED <<dispatchVars, stage, charged, agent, task>>

\* The completion arrived: artifact and hand-over note are written and the spend
\* is billed, scope by scope.  A billing that is cut short counts as one.
TaskRecords(w) ==
    /\ phase[w] = "executing" /\ stage[w] = "model"
    /\ charged' = [charged EXCEPT ![picked[w]] = @ + 1]
    /\ stage' = [stage EXCEPT ![w] = "recorded"]
    /\ UNCHANGED <<vars, dispatchVars, exec, errors, agent, task>>

\* ... the execution succeeds, ...
TaskSucceeds(w) ==
    /\ phase[w] = "executing" /\ stage[w] = "recorded"
    /\ exec' = [exec EXCEPT ![picked[w]] = "succeeded"]
    /\ stage' = [stage EXCEPT ![w] = "done"]
    /\ UNCHANGED <<vars, dispatchVars, errors, charged, agent, task>>

\* ... the task is advanced to in_progress (or is not: that error is swallowed),
\* the agent is released, and processOne() settles the job.
TaskReturns(w) ==
    /\ phase[w] = "executing" /\ stage[w] = "done"
    /\ \/ task' = [task EXCEPT ![picked[w]] = "in_progress"] /\ UNCHANGED errors
       \/ UNCHANGED task /\ Throws(picked[w], 1)
    /\ agent' = "idle"
    /\ stage' = [stage EXCEPT ![w] = "entry"]
    /\ HandlerSucceeds(w)
    /\ UNCHANGED <<dispatchVars, exec, charged>>

\* Mutant: the failure is not recorded.
Bug_FailsSilently(w) ==
    /\ phase[w] = "executing" /\ stage[w] = "model"
    /\ stage' = [stage EXCEPT ![w] = "failed"]
    /\ UNCHANGED <<vars, dispatchVars, exec, errors, charged, agent, task>>

\* The catch: the router threw or, anywhere in the try, the database did, after
\* the billing and even after the success.  The execution is failed or, when the
\* message mentions a timeout, timed out; unless this update throws as well.
TaskFails(w) ==
    /\ phase[w] = "executing" /\ stage[w] \in {"model", "recorded", "done"}
    /\ LET inTry == IF stage[w] = "model" THEN 0 ELSE 1 IN
       \/ /\ Throws(picked[w], inTry)
          /\ \E s \in {"failed", "timeout"} : exec' = [exec EXCEPT ![picked[w]] = s]
       \/ /\ Throws(picked[w], inTry + 1)
          /\ UNCHANGED exec
    /\ stage' = [stage EXCEPT ![w] = "failed"]
    /\ UNCHANGED <<vars, dispatchVars, charged, agent, task>>

\* The finally releases the agent, unless it throws; the job is retried or
\* dead-lettered.
TaskThrows(w) ==
    /\ phase[w] = "executing" /\ stage[w] = "failed"
    /\ \/ agent' = "idle" /\ UNCHANGED errors
       \/ UNCHANGED agent /\ Throws(picked[w], 1)
    /\ stage' = [stage EXCEPT ![w] = "entry"]
    /\ HandlerFails(w)
    /\ UNCHANGED <<dispatchVars, exec, charged, task>>

\* The database fails a read at the entry, the release of the agent after a
\* success, or the update that would settle the job: the job is retried or
\* dead-lettered, and the execution stays what it was.
TaskBreaks(w) ==
    /\ phase[w] = "executing" /\ stage[w] \in {"entry", "done"}
    /\ Throws(picked[w], 1)
    /\ stage' = [stage EXCEPT ![w] = "entry"]
    /\ HandlerFails(w)
    /\ UNCHANGED <<dispatchVars, exec, charged, agent, task>>

\* A process death loses the handler's position and nothing else.
WorkerDies(w) ==
    /\ Crash(w)
    /\ stage' = [stage EXCEPT ![w] = "entry"]
    /\ UNCHANGED <<dispatchVars, exec, errors, charged, agent, task>>

TaskStep(w) ==
    \/ TaskSkips(w) \/ TaskStarts(w) \/ TaskNeverStarts(w) \/ TaskRecords(w)
    \/ TaskSucceeds(w) \/ TaskReturns(w) \/ TaskFails(w) \/ TaskThrows(w)
    \/ TaskBreaks(w)

\* Steps of the queue that leave executions alone.
QueueStep ==
    /\ \/ Tick
       \/ \E j \in Job : RetryDeadLetter(j)
       \/ \E w \in Worker : \/ ClaimSelect(w) \/ ClaimUpdate(w)
                            \/ ClaimLost(w) \/ ReclaimStale(w)
    /\ UNCHANGED execVars

ENext ==
    \/ \E r \in Request :
          \/ DispatchCheck(r) \/ DispatchPut(r) \/ DispatchInsert(r)
          \/ DispatchEnqueue(r) \/ DispatchDies(r)
    \/ \E w \in Worker :
          \/ TaskSkips(w) \/ TaskStarts(w) \/ TaskNeverStarts(w)
          \/ TaskRecords(w) \/ TaskSucceeds(w) \/ TaskReturns(w)
          \/ TaskFails(w) \/ TaskThrows(w) \/ TaskBreaks(w) \/ WorkerDies(w)
    \/ QueueStep

\* A dispatch that began goes on unless its process dies; handlers, polling,
\* reclaiming and time go on as in JobQueue.
EFairness ==
    /\ WF_eVars(Tick /\ UNCHANGED execVars)
    /\ \A r \in Request :
          WF_eVars(DispatchPut(r) \/ DispatchInsert(r) \/ DispatchEnqueue(r))
    /\ \A w \in Worker :
          /\ WF_eVars(ClaimSelect(w) /\ UNCHANGED execVars)
          /\ WF_eVars((ClaimUpdate(w) \/ ClaimLost(w)) /\ UNCHANGED execVars)
          /\ WF_eVars(ReclaimStale(w) /\ UNCHANGED execVars)
          /\ WF_eVars(TaskStep(w))

ESpec == EInit /\ [][ENext]_eVars

-----------------------------------------------------------------------------
(* Properties.                                                             *)

\* However often a client repeats a dispatch under one key, and on whichever
\* replicas the repetitions meet, at most one execution is created for it.
OneExecutionPerKey ==
    \A q, r \in Request :
        /\ req[q].key = req[r].key /\ req[q].key # NoKey
        /\ {req[q].id, req[r].id} \subseteq {j \in Job : exec[j] # "absent"}
        => req[q].id = req[r].id

\* An answered dispatch names an execution that exists, or that the request
\* owning the key is still about to insert.
ReplyStands ==
    \A r \in Request : req[r].pc = "replied" =>
        \/ exec[req[r].id] # "absent"
        \/ \E q \in Request : req[q].pc = "owner" /\ req[q].id = req[r].id

\* A job is reported succeeded only when its execution succeeded.
OutcomesAgree ==
    \A j \in Job : status[j] = "succeeded" => exec[j] = "succeeded"

\* A dead-lettered job left its execution failed or timed out, so the operator
\* who reads the dead letters sees why; with two exceptions.  With an agent of
\* another organisation it reads running for ever, and database errors outside
\* the try, or in the catch itself, can leave it anything.
DeadLetterExplained ==
    \A j \in Job : status[j] = "dead_letter" /\ errors[j] = 0 =>
        IF j \in foreign THEN exec[j] = "running" ELSE exec[j] \in {"failed", "timeout"}

\* An execution is billed once, plus at most once for every process that died,
\* and every database error thrown, after a billing: a run that timed out
\* is billed again only for these.
BilledOnce == \A j \in Job : charged[j] <= 1 + crashes + errors[j]

\* What the rows and the ledger say of an execution agrees with what happened
\* to it, through retries, timeouts, errors and deaths (workers.ts).
WorkAccounted == DeadLetterExplained /\ BilledOnce

\* A success is final: no retry, redelivery or other replica takes it back, also
\* when the process died before the job was settled.  The one exception is the
\* run that wrote it, whose catch overwrites it when the database fails a later
\* statement of the same try.
ExecutionSuccessFinal ==
    [][\A j \in Job : exec[j] = "succeeded" /\ exec'[j] # "succeeded" =>
          /\ errors'[j] > errors[j]
          /\ \E w \in Worker : /\ Executing(w, j) /\ stage[w] = "done"
                               /\ stage'[w] = "failed"]_eVars

\* An execution that began ends, also when its process dies in the middle: the
\* reclaimed job runs it again.  Left running for ever are those, and only
\* those, whose job was given up for another organisation's agent or after an
\* error of the database.
ExecutionEnds ==
    \A j \in Job : exec[j] = "running" ~>
        \/ exec[j] \in {"succeeded", "failed", "timeout"}
        \/ status[j] = "dead_letter" /\ (j \in foreign \/ errors[j] > 0)

\* Execution and job come to an end together, through failures, errors, deaths
\* and reclaims, when the workers go on.
WorkEnds == ExecutionEnds /\ EveryJobSettles
=============================================================================

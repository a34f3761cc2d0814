------------------------------ MODULE JobQueue ------------------------------
(***************************************************************************)
(* The persistent job queue of packages/orchestration/src/jobs.ts: one row *)
(* per job in the "jobs" table, shared by the polling loops of one or more *)
(* control-plane replicas.                                                 *)
(*                                                                         *)
(* The database driver is synchronous, so inside one process everything    *)
(* between two awaits is one step; a step of this module is what runs      *)
(* between two points where another process can act.  claim() is two SQL   *)
(* statements in a transaction that PostgreSQL runs at READ COMMITTED, so  *)
(* its SELECT and its conditional UPDATE are two steps.  Each process runs *)
(* one sequential loop (JobQueue.loop), hence at most one handler.         *)
(***************************************************************************)
EXTENDS Integers, FiniteSets

CONSTANTS Job,          \* rows of the jobs table
          Worker,       \* control-plane processes
          NoJob, NoWorker,
          Kinds,        \* handler kinds used: subset of HandlerKinds
          MaxAttempts,  \* jobs.max_attempts
          BaseBackoff, MaxBackoff, \* 500 ms and 60 000 ms in the code
          StaleAfter,   \* age at which a lock is stale (10 min)
          HandlerBound, \* no handler runs longer (environment)
          MaxCrashes,   \* bound: process crashes in a behaviour
          MaxRequeues   \* bound: retryDeadLetter calls in a behaviour

HandlerKinds == {"ordinary", "permanent"}

ASSUME SentinelAssumption == NoJob \notin Job /\ NoWorker \notin Worker
ASSUME KindsAssumption == Kinds \subseteq HandlerKinds
ASSUME NumberAssumption ==
    /\ MaxAttempts \in Nat \ {0}
    /\ BaseBackoff \in Nat /\ MaxBackoff \in Nat
    /\ StaleAfter \in Nat /\ HandlerBound \in Nat
    /\ MaxCrashes \in Nat /\ MaxRequeues \in Nat

VARIABLES
    now,       \* the clock all replicas read
    \* columns of the jobs table
    status, attempts, runAfter, lockedAt, lockedBy,
    \* one polling loop per process
    phase,     \* "idle", "claiming" (between SELECT and UPDATE), "executing"
    picked,    \* the job claimed or being claimed
    startedAt, \* when the handler was called
    \* budgets that keep behaviours finite
    crashes, requeues

rowVars == <<status, attempts, runAfter, lockedAt, lockedBy>>
workerVars == <<phase, picked, startedAt>>
budgetVars == <<crashes, requeues>>
vars == <<now, rowVars, workerVars, budgetVars>>

RowStatus == {"absent", "pending", "running", "succeeded", "dead_letter"}
Never == -1   \* locked_at IS NULL

TypeOK ==
    /\ now \in Nat
    /\ status \in [Job -> RowStatus]
    /\ attempts \in [Job -> Nat]
    /\ runAfter \in [Job -> Int]
    /\ lockedAt \in [Job -> Nat \cup {Never}]
    /\ lockedBy \in [Job -> Worker \cup {NoWorker}]
    /\ phase \in [Worker -> {"idle", "claiming", "executing"}]
    /\ picked \in [Worker -> Job \cup {NoJob}]
    /\ startedAt \in [Worker -> Nat]
    /\ crashes \in Nat /\ requeues \in Nat
    /\ \A w \in Worker : phase[w] # "idle" => picked[w] \in Job

Init ==
    /\ now = 0
    /\ status = [j \in Job |-> "absent"]
    /\ attempts = [j \in Job |-> 0]
    /\ runAfter = [j \in Job |-> 0]
    /\ lockedAt = [j \in Job |-> Never]
    /\ lockedBy = [j \in Job |-> NoWorker]
    /\ phase = [w \in Worker |-> "idle"]
    /\ picked = [w \in Worker |-> NoJob]
    /\ startedAt = [w \in Worker |-> 0]
    /\ crashes = 0 /\ requeues = 0

-----------------------------------------------------------------------------
(* Time.  The clock moves only while some deadline lies in the future:     *)
(* once every deadline has passed, waiting longer enables nothing.  It     *)
(* also never carries a handler beyond HandlerBound.                       *)

Executing(w, j) == phase[w] = "executing" /\ picked[w] = j

DeadlineAhead ==
    \E j \in Job :
        \/ status[j] = "pending" /\ runAfter[j] > now
        \/ status[j] = "running" /\ lockedAt[j] >= now - StaleAfter

Tick ==
    /\ DeadlineAhead
    /\ \A w \in Worker :
          phase[w] = "executing" => now - startedAt[w] < HandlerBound
    /\ now' = now + 1
    /\ UNCHANGED <<rowVars, workerVars, budgetVars>>

-----------------------------------------------------------------------------
(* Producers.                                                              *)

\* enqueue(): the branch that inserts.  The branches that find a row with
\* the same idempotency key return its id and write nothing.
Enqueue(j) ==
    /\ status[j] = "absent"
    /\ status' = [status EXCEPT ![j] = "pending"]
    /\ runAfter' = [runAfter EXCEPT ![j] = now]
    /\ UNCHANGED <<now, attempts, lockedAt, lockedBy, workerVars, budgetVars>>

\* retryDeadLetter(): an operator gives a dead letter a fresh budget.
RetryDeadLetter(j) ==
    /\ requeues < MaxRequeues
    /\ status[j] = "dead_letter"
    /\ status' = [status EXCEPT ![j] = "pending"]
    /\ attempts' = [attempts EXCEPT ![j] = 0]
    /\ runAfter' = [runAfter EXCEPT ![j] = now]
    /\ requeues' = requeues + 1
    /\ UNCHANGED <<now, lockedAt, lockedBy, workerVars, crashes>>

-----------------------------------------------------------------------------
(* A replica's loop.                                                       *)

Due == {j \in Job : status[j] = "pending" /\ runAfter[j] <= now}

\* ORDER BY run_after LIMIT 1
NextDue == {j \in Due : \A i \in Due : runAfter[j] <= runAfter[i]}

\* claim(), the SELECT
ClaimSelect(w) ==
    /\ phase[w] = "idle"
    /\ \E j \in NextDue : picked' = [picked EXCEPT ![w] = j]
    /\ phase' = [phase EXCEPT ![w] = "claiming"]
    /\ UNCHANGED <<now, rowVars, startedAt, budgetVars>>

\* Mutant: the UPDATE only refuses running rows.
Bug_ClaimUnlessRunning(j) == status[j] # "running"

\* The row the conditional UPDATE of driverRunClaim() still matches.
Claimable(j) == status[j] = "pending"

\* claim(), the conditional UPDATE, then the call of the handler
ClaimUpdate(w) ==
    LET j == picked[w] IN
    /\ phase[w] = "claiming"
    /\ Claimable(j)
    /\ status' = [status EXCEPT ![j] = "running"]
    /\ lockedBy' = [lockedBy EXCEPT ![j] = w]
    /\ lockedAt' = [lockedAt EXCEPT ![j] = now]
    /\ attempts' = [attempts EXCEPT ![j] = @ + 1]
    /\ phase' = [phase EXCEPT ![w] = "executing"]
    /\ startedAt' = [startedAt EXCEPT ![w] = now]
    /\ UNCHANGED <<now, runAfter, picked, budgetVars>>

\* The UPDATE matched no row: another process was faster.
ClaimLost(w) ==
    /\ phase[w] = "claiming"
    /\ ~Claimable(picked[w])
    /\ phase' = [phase EXCEPT ![w] = "idle"]
    /\ picked' = [picked EXCEPT ![w] = NoJob]
    /\ UNCHANGED <<now, rowVars, startedAt, budgetVars>>

\* Mutant: the loop forgets the job but not that it is busy.
Bug_StaysBusy(w) ==
    /\ picked' = [picked EXCEPT ![w] = NoJob]
    /\ UNCHANGED <<phase, startedAt>>

\* processOne() is over; the loop polls again.  startedAt only times a
\* running handler, so it is reset.
BackToIdle(w) ==
    /\ phase' = [phase EXCEPT ![w] = "idle"]
    /\ picked' = [picked EXCEPT ![w] = NoJob]
    /\ startedAt' = [startedAt EXCEPT ![w] = 0]

\* UPDATE ... SET status='succeeded' WHERE id=? AND status='running'
HandlerSucceeds(w) ==
    LET j == picked[w] IN
    /\ phase[w] = "executing"
    /\ IF status[j] = "running"
       THEN /\ status' = [status EXCEPT ![j] = "succeeded"]
            /\ lockedBy' = [lockedBy EXCEPT ![j] = NoWorker]
       ELSE UNCHANGED <<status, lockedBy>>
    /\ BackToIdle(w)
    /\ UNCHANGED <<now, attempts, runAfter, lockedAt, budgetVars>>

\* Math.min(60_000, 500 * 2 ** attempts)
Backoff(n) ==
    IF BaseBackoff * 2^n < MaxBackoff THEN BaseBackoff * 2^n ELSE MaxBackoff

Exhausted(j) == attempts[j] >= MaxAttempts

\* A throwing handler, or a job type nobody registered: the catch block.
\* Both updateById calls are unconditional.
HandlerFails(w) ==
    LET j == picked[w] IN
    /\ phase[w] = "executing"
    /\ IF Exhausted(j)
       THEN /\ status' = [status EXCEPT ![j] = "dead_letter"]
            /\ UNCHANGED <<runAfter, lockedBy>>
       ELSE /\ status' = [status EXCEPT ![j] = "pending"]
            /\ runAfter' = [runAfter EXCEPT ![j] = now + Backoff(attempts[j])]
            /\ lockedBy' = [lockedBy EXCEPT ![j] = NoWorker]
    /\ BackToIdle(w)
    /\ UNCHANGED <<now, attempts, lockedAt, budgetVars>>

\* deliver_task on a permanent error: the handler itself dead-letters the
\* row and returns, and processOne's conditional UPDATE then matches nothing.
HandlerDeadLetters(w) ==
    LET j == picked[w] IN
    /\ "permanent" \in Kinds
    /\ phase[w] = "executing"
    /\ status' = [status EXCEPT ![j] = "dead_letter"]
    /\ BackToIdle(w)
    /\ UNCHANGED <<now, attempts, runAfter, lockedAt, lockedBy, budgetVars>>

\* Mutant: reclaiming every running row.
Bug_StaleAtOnce(j) == status[j] = "running"

\* locked_at < cutoff, with cutoff = now - olderThanMs
Stale(j) ==
    /\ status[j] = "running"
    /\ lockedAt[j] # Never
    /\ lockedAt[j] < now - StaleAfter

\* Mutant: a stale job is given up instead of retried.
Bug_ReclaimToDeadLetter(w) ==
    /\ phase[w] = "idle"
    /\ \E j \in Job : Stale(j)
    /\ status' = [j \in Job |-> IF Stale(j) THEN "dead_letter" ELSE status[j]]
    /\ UNCHANGED <<now, attempts, runAfter, lockedAt, lockedBy, workerVars,
                   budgetVars>>

\* reclaimStale(), run by the loop between two processOne() calls
ReclaimStale(w) ==
    /\ phase[w] = "idle"
    /\ \E j \in Job : Stale(j)
    /\ status' = [j \in Job |-> IF Stale(j) THEN "pending" ELSE status[j]]
    /\ UNCHANGED <<now, attempts, runAfter, lockedAt, lockedBy, workerVars,
                   budgetVars>>

-----------------------------------------------------------------------------
\* The process dies (or is stopped: shutdown() in server.ts exits without
\* waiting for the handler in flight) and is started again.  Only its memory is lost.
Crash(w) ==
    /\ crashes < MaxCrashes
    /\ phase[w] # "idle"
    /\ BackToIdle(w)
    /\ crashes' = crashes + 1
    /\ UNCHANGED <<now, rowVars, requeues>>

HandlerReturns(w) ==
    HandlerSucceeds(w) \/ HandlerFails(w) \/ HandlerDeadLetters(w)

Next ==
    \/ Tick
    \/ \E j \in Job : Enqueue(j) \/ RetryDeadLetter(j)
    \/ \E w \in Worker :
          \/ ClaimSelect(w) \/ ClaimUpdate(w) \/ ClaimLost(w)
          \/ HandlerSucceeds(w) \/ HandlerFails(w) \/ HandlerDeadLetters(w)
          \/ ReclaimStale(w) \/ Crash(w)

\* Time passes, the loop of every replica keeps polling and reclaiming, and
\* a handler returns (HandlerBound).  Nothing forces producers or crashes.
Fairness ==
    /\ WF_vars(Tick)
    /\ \A w \in Worker :
          /\ WF_vars(ClaimSelect(w))
          /\ WF_vars(ClaimUpdate(w) \/ ClaimLost(w))
          /\ WF_vars(HandlerReturns(w))
          /\ WF_vars(ReclaimStale(w))

Spec == Init /\ [][Next]_vars
FairSpec == Spec /\ Fairness

-----------------------------------------------------------------------------
(* Properties.                                                             *)

Settled == {"succeeded", "dead_letter"}

\* A handler is stopped or returns before its lock counts as stale.  The
\* code does not enforce this: it is the deployment assumption under which
\* several replicas are safe.
Timely == HandlerBound <= StaleAfter

\* Two processes never run the handler of the same job at once, whatever
\* they crash, fail, reclaim or claim in between (tests G-05 and G-05b check
\* it inside one process).
NoDoubleExecution ==
    \A v, w \in Worker, j \in Job :
        Executing(v, j) /\ Executing(w, j) => v = w

\* While a handler runs, its row still carries the lock taken by the claim
\* that started it: nobody reclaimed, re-claimed or settled it meanwhile.
RunnerHoldsLock ==
    \A w \in Worker : phase[w] = "executing" =>
        LET j == picked[w] IN
        /\ status[j] = "running"
        /\ lockedBy[j] = w
        /\ lockedAt[j] = startedAt[w]

\* The inductive form of the two above: a handler has not outlived its bound,
\* so the lock it holds is not stale.
LockInv ==
    /\ RunnerHoldsLock
    /\ \A w \in Worker : phase[w] = "executing" =>
          startedAt[w] <= now /\ now - startedAt[w] <= HandlerBound

\* The attempt budget is exceeded only by claims whose process then died:
\* reclaimStale() returns such a job to the queue without looking at
\* max_attempts.
AttemptsBounded ==
    \A j \in Job : attempts[j] <= MaxAttempts + crashes

\* Shared by several replicas, a running handler keeps its lock and no job is
\* started more often than its budget and the deaths explain.
QueueSafe == LockInv /\ AttemptsBounded

\* Its inductive form: a job that will be claimed again has an attempt left.
Orphan(j) == status[j] = "running" /\ \A w \in Worker : ~Executing(w, j)
AttemptsInv ==
    /\ AttemptsBounded
    /\ \A j \in Job :
          status[j] \in {"absent", "pending"} \/ Orphan(j) =>
              attempts[j] < MaxAttempts + crashes

\* A job that succeeded is never run, retried or dead-lettered again.
SucceededIsFinal ==
    [][\A j \in Job : status[j] = "succeeded" => status'[j] = "succeeded"]_vars

\* At-least-once delivery: every enqueued job ends as succeeded or as a
\* dead letter, through failures, process deaths and lost claims.
EveryJobSettles ==
    \A j \in Job : status[j] # "absent" ~> status[j] \in Settled

\* The queue implements the life cycle of JobLifecycle, in which a running
\* job is owned by the one worker whose handler executes it.
RunnerOf ==
    [j \in Job |-> IF \E w \in Worker : Executing(w, j)
                   THEN CHOOSE w \in Worker : Executing(w, j)
                   ELSE NoWorker]

LC == INSTANCE JobLifecycle WITH state <- status, runner <- RunnerOf

\* Every step of the queue is a step of the abstract life cycle or invisible
\* to it: recovery never takes a job from a live worker, a lost claim and a
\* tick change nothing.
Lifecycle == LC!LCSpec
=============================================================================

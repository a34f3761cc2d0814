--------------------------- MODULE ExecutionProofs --------------------------
(***************************************************************************)
(* Proofs about Execution for any number of requests, keys, executions and *)
(* replicas.  They are about the whole of ESpec: every interleaving of the *)
(* dispatching requests with the workers, which the model-checked scenes   *)
(* of MCExecution separate.  What concerns the rows of a dispatch needs no *)
(* assumption; what concerns the workers needs Timely, as in JobQueue.     *)
(***************************************************************************)
EXTENDS Execution, TLAPS

-----------------------------------------------------------------------------
(* The queue.  TypeOK needs no assumption.  The safety of the lock needs   *)
(* Timely: a handler stops within the time after which its lock counts as  *)
(* stale.                                                                  *)

\* The backoff delay is an integer.
LEMMA BackoffInt == ASSUME NEW n \in Nat PROVE Backoff(n) \in Int
  <1>1. 2^n \in Int
    BY SMT
  <1>2. QED
    BY <1>1, NumberAssumption, SMT DEF Backoff

-----------------------------------------------------------------------------
\* Every variable keeps its type, whatever handlers, crashes and clocks do.
LEMMA InitType == Init => TypeOK
  BY SentinelAssumption DEF Init, TypeOK, RowStatus, Never

\* Every step keeps it.
LEMMA StepType == TypeOK /\ [Next]_vars => TypeOK'
  <1> SUFFICES ASSUME TypeOK, [Next]_vars PROVE TypeOK'
    OBVIOUS
  <1> USE DEF TypeOK, RowStatus
  <1>1. CASE Tick
    BY <1>1 DEF Tick, rowVars, workerVars, budgetVars
  <1>2. ASSUME NEW j \in Job, Enqueue(j) PROVE TypeOK'
    BY <1>2 DEF Enqueue, workerVars, budgetVars
  <1>3. ASSUME NEW j \in Job, RetryDeadLetter(j) PROVE TypeOK'
    BY <1>3 DEF RetryDeadLetter, workerVars
  <1>4. ASSUME NEW w \in Worker, ClaimSelect(w) PROVE TypeOK'
    BY <1>4 DEF ClaimSelect, NextDue, Due, rowVars, budgetVars
  <1>5. ASSUME NEW w \in Worker, ClaimUpdate(w) PROVE TypeOK'
    <2>1. picked[w] \in Job
      BY <1>5 DEF ClaimUpdate
    <2>2. QED
      BY <1>5, <2>1 DEF ClaimUpdate, budgetVars
  <1>6. ASSUME NEW w \in Worker, ClaimLost(w) PROVE TypeOK'
    BY <1>6 DEF ClaimLost, rowVars, budgetVars
  <1>7. ASSUME NEW w \in Worker, HandlerSucceeds(w) PROVE TypeOK'
    <2>1. picked[w] \in Job
      BY <1>7 DEF HandlerSucceeds
    <2>2. QED
      BY <1>7, <2>1 DEF HandlerSucceeds, BackToIdle, budgetVars
  <1>8. ASSUME NEW w \in Worker, HandlerFails(w) PROVE TypeOK'
    <2>1. picked[w] \in Job /\ attempts[picked[w]] \in Nat
      BY <1>8 DEF HandlerFails
    <2>2. now + Backoff(attempts[picked[w]]) \in Int
      BY <2>1, BackoffInt
    <2>3. runAfter' \in [Job -> Int]
      BY <1>8, <2>2 DEF HandlerFails
    <2>4. QED
      BY <1>8, <2>1, <2>3 DEF HandlerFails, BackToIdle, budgetVars
  <1>9. ASSUME NEW w \in Worker, HandlerDeadLetters(w) PROVE TypeOK'
    BY <1>9 DEF HandlerDeadLetters, BackToIdle, budgetVars
  <1>10. ASSUME NEW w \in Worker, ReclaimStale(w) PROVE TypeOK'
    BY <1>10 DEF ReclaimStale, workerVars, budgetVars
  <1>11. ASSUME NEW w \in Worker, Crash(w) PROVE TypeOK'
    BY <1>11 DEF Crash, BackToIdle, rowVars
  <1>12. CASE UNCHANGED vars
    BY <1>12 DEF vars, rowVars, workerVars, budgetVars
  <1>13. QED
    BY <1>1, <1>2, <1>3, <1>4, <1>5, <1>6, <1>7, <1>8, <1>9, <1>10, <1>11,
       <1>12 DEF Next

\* Every variable keeps its type in every behaviour of the queue.
THEOREM TypeCorrect == Spec => []TypeOK
  BY InitType, StepType, PTL DEF Spec

-----------------------------------------------------------------------------
(* The lock.                                                               *)

\* It holds at the start.
LEMMA InitLock == Init => LockInv
  BY DEF Init, LockInv, RunnerHoldsLock

\* Every step keeps the locks, when handlers keep their time.
LEMMA StepLock ==
  ASSUME Timely
  PROVE  TypeOK /\ LockInv /\ [Next]_vars => LockInv'
  <1> SUFFICES ASSUME TypeOK, LockInv, [Next]_vars PROVE LockInv'
    OBVIOUS
  <1> USE NumberAssumption DEF TypeOK, LockInv, RunnerHoldsLock
  <1>1. CASE Tick
    BY <1>1 DEF Tick, rowVars, workerVars, budgetVars
  <1>2. ASSUME NEW j \in Job, Enqueue(j) PROVE LockInv'
    BY <1>2 DEF Enqueue, workerVars, budgetVars
  <1>3. ASSUME NEW j \in Job, RetryDeadLetter(j) PROVE LockInv'
    BY <1>3 DEF RetryDeadLetter, workerVars
  <1>4. ASSUME NEW w \in Worker, ClaimSelect(w) PROVE LockInv'
    BY <1>4 DEF ClaimSelect, rowVars, budgetVars
  <1>5. ASSUME NEW w \in Worker, ClaimUpdate(w) PROVE LockInv'
    \* The row was pending, so no other worker was executing it.
    <2>1. \A v \in Worker : phase[v] = "executing" => picked[v] # picked[w]
      BY <1>5 DEF ClaimUpdate, Claimable
    <2>2. QED
      BY <1>5, <2>1 DEF ClaimUpdate, budgetVars
  <1>6. ASSUME NEW w \in Worker, ClaimLost(w) PROVE LockInv'
    BY <1>6 DEF ClaimLost, rowVars, budgetVars
  <1>7. ASSUME NEW w \in Worker, HandlerReturns(w) PROVE LockInv'
    \* The lock of the returning worker is nobody else's.
    <2>1. /\ phase[w] = "executing"
          /\ \A v \in Worker :
                phase[v] = "executing" /\ v # w => picked[v] # picked[w]
      BY <1>7 DEF HandlerReturns, HandlerSucceeds, HandlerFails,
                  HandlerDeadLetters
    <2>2. CASE HandlerSucceeds(w)
      BY <2>1, <2>2 DEF HandlerSucceeds, BackToIdle, budgetVars
    <2>3. CASE HandlerFails(w)
      BY <2>1, <2>3 DEF HandlerFails, BackToIdle, budgetVars
    <2>4. CASE HandlerDeadLetters(w)
      BY <2>1, <2>4 DEF HandlerDeadLetters, BackToIdle, budgetVars
    <2>5. QED
      BY <1>7, <2>2, <2>3, <2>4 DEF HandlerReturns
  <1>8. ASSUME NEW w \in Worker, ReclaimStale(w) PROVE LockInv'
    \* A lock that is held is at most HandlerBound old, hence not stale.
    <2>1. \A v \in Worker : phase[v] = "executing" => ~Stale(picked[v])
      BY DEF Stale, Timely
    <2>2. QED
      BY <1>8, <2>1 DEF ReclaimStale, workerVars
  <1>9. ASSUME NEW w \in Worker, Crash(w) PROVE LockInv'
    BY <1>9 DEF Crash, BackToIdle, rowVars
  <1>10. CASE UNCHANGED vars
    BY <1>10 DEF vars, rowVars, workerVars, budgetVars
  <1>11. QED
    BY <1>1, <1>2, <1>3, <1>4, <1>5, <1>6, <1>7, <1>8, <1>9, <1>10
    DEF Next, HandlerReturns

\* With handlers shorter than the staleness limit, a handler keeps the lock of
\* its row until it returns or dies.
THEOREM LockHeld == ASSUME Timely PROVE Spec => []LockInv
  <1>1. TypeOK /\ LockInv /\ [Next]_vars => LockInv'
    BY StepLock
  <1>2. QED
    BY <1>1, InitLock, TypeCorrect, PTL DEF Spec

\* With handlers shorter than the staleness limit, no job is ever executed by
\* two processes at once, for any number of jobs, replicas and crashes.
THEOREM MutualExclusion == ASSUME Timely PROVE Spec => []NoDoubleExecution
  <1>1. LockInv => NoDoubleExecution
    BY DEF LockInv, RunnerHoldsLock, NoDoubleExecution, Executing
  <1>2. QED
    BY <1>1, LockHeld, PTL

-----------------------------------------------------------------------------
(* Success is final.                                                       *)

\* No step takes back a success.
LEMMA StepFinal ==
  ASSUME TypeOK, LockInv, [Next]_vars, NEW j \in Job, status[j] = "succeeded"
  PROVE  status'[j] = "succeeded"
  <1> USE DEF TypeOK, LockInv, RunnerHoldsLock
  <1>1. ASSUME NEW w \in Worker, ClaimUpdate(w) PROVE status'[j] = "succeeded"
    BY <1>1 DEF ClaimUpdate, Claimable
  <1>2. ASSUME NEW w \in Worker, HandlerReturns(w)
        PROVE  status'[j] = "succeeded"
    BY <1>2 DEF HandlerReturns, HandlerSucceeds, HandlerFails,
                HandlerDeadLetters
  <1>3. ASSUME NEW w \in Worker, ReclaimStale(w) PROVE status'[j] = "succeeded"
    BY <1>3 DEF ReclaimStale, Stale
  <1>4. ASSUME NEW i \in Job, Enqueue(i) \/ RetryDeadLetter(i)
        PROVE  status'[j] = "succeeded"
    BY <1>4 DEF Enqueue, RetryDeadLetter
  <1>5. QED
    BY <1>1, <1>2, <1>3, <1>4
    DEF Next, HandlerReturns, Tick, ClaimSelect, ClaimLost, Crash, vars, rowVars

\* With handlers shorter than the staleness limit, a late success or failure
\* never reopens a job that succeeded.
THEOREM SuccessFinal == ASSUME Timely PROVE Spec => SucceededIsFinal
  <1>1. TypeOK /\ LockInv /\ [Next]_vars =>
          [\A j \in Job :
             status[j] = "succeeded" => status'[j] = "succeeded"]_vars
    BY StepFinal
  <1>2. QED
    BY <1>1, LockHeld, TypeCorrect, PTL DEF Spec, SucceededIsFinal

-----------------------------------------------------------------------------
(* The attempt budget.                                                     *)

\* No step starts a job beyond its attempts.
LEMMA StepAttempts ==
  ASSUME Timely
  PROVE  TypeOK /\ LockInv /\ AttemptsInv /\ [Next]_vars => AttemptsInv'
  <1> SUFFICES ASSUME TypeOK, LockInv, AttemptsInv, [Next]_vars
               PROVE  AttemptsInv'
    OBVIOUS
  <1> USE NumberAssumption
      DEF TypeOK, LockInv, RunnerHoldsLock, AttemptsInv, AttemptsBounded,
          Orphan, Executing
  <1>1. CASE Tick
    BY <1>1 DEF Tick, rowVars, workerVars, budgetVars
  <1>2. ASSUME NEW j \in Job, Enqueue(j) PROVE AttemptsInv'
    BY <1>2 DEF Enqueue, workerVars, budgetVars
  <1>3. ASSUME NEW j \in Job, RetryDeadLetter(j) PROVE AttemptsInv'
    BY <1>3 DEF RetryDeadLetter, workerVars
  <1>4. ASSUME NEW w \in Worker, ClaimSelect(w) PROVE AttemptsInv'
    BY <1>4 DEF ClaimSelect, rowVars, budgetVars
  <1>5. ASSUME NEW w \in Worker, ClaimUpdate(w) PROVE AttemptsInv'
    BY <1>5 DEF ClaimUpdate, Claimable, budgetVars
  <1>6. ASSUME NEW w \in Worker, ClaimLost(w) PROVE AttemptsInv'
    BY <1>6 DEF ClaimLost, rowVars, budgetVars
  <1>7. ASSUME NEW w \in Worker, HandlerSucceeds(w) PROVE AttemptsInv'
    BY <1>7 DEF HandlerSucceeds, BackToIdle, budgetVars
  <1>8. ASSUME NEW w \in Worker, HandlerFails(w) PROVE AttemptsInv'
    BY <1>8 DEF HandlerFails, Exhausted, BackToIdle, budgetVars
  <1>9. ASSUME NEW w \in Worker, HandlerDeadLetters(w) PROVE AttemptsInv'
    BY <1>9 DEF HandlerDeadLetters, BackToIdle, budgetVars
  <1>10. ASSUME NEW w \in Worker, ReclaimStale(w) PROVE AttemptsInv'
    \* Only an orphan is stale, and an orphan has an attempt left.
    <2>1. \A j \in Job : Stale(j) => Orphan(j)
      BY DEF Stale, Timely
    <2>2. QED
      BY <1>10, <2>1 DEF ReclaimStale, workerVars, budgetVars
  <1>11. ASSUME NEW w \in Worker, Crash(w) PROVE AttemptsInv'
    BY <1>11 DEF Crash, BackToIdle, rowVars
  <1>12. CASE UNCHANGED vars
    BY <1>12 DEF vars, rowVars, workerVars, budgetVars
  <1>13. QED
    BY <1>1, <1>2, <1>3, <1>4, <1>5, <1>6, <1>7, <1>8, <1>9, <1>10, <1>11,
       <1>12 DEF Next

\* With handlers shorter than the staleness limit, a job is started at most
\* max_attempts times, plus once for every process death.
THEOREM AttemptBudget == ASSUME Timely PROVE Spec => []AttemptsBounded
  <1>1. Init => AttemptsInv
    BY NumberAssumption DEF Init, AttemptsInv, AttemptsBounded, Orphan
  <1>2. TypeOK /\ LockInv /\ AttemptsInv /\ [Next]_vars => AttemptsInv'
    BY StepAttempts
  <1>3. AttemptsInv => AttemptsBounded
    BY DEF AttemptsInv
  <1>4. QED
    BY <1>1, <1>2, <1>3, LockHeld, TypeCorrect, PTL DEF Spec

-----------------------------------------------------------------------------
(* Refinement of JobLifecycle.                                             *)

\* The worker the refinement mapping names is the one that executes the job.
LEMMA RunnerOfValue ==
  ASSUME TypeOK, LockInv, NEW j \in Job
  PROVE  /\ \A w \in Worker : Executing(w, j) => RunnerOf[j] = w
         /\ (\A w \in Worker : ~Executing(w, j)) => RunnerOf[j] = NoWorker
  BY DEF TypeOK, LockInv, RunnerHoldsLock, RunnerOf, Executing

\* A step after which the same workers execute the same jobs maps to a step
\* that leaves every runner alone.
LEMMA RunnerUnchanged ==
  ASSUME \A w \in Worker, j \in Job : Executing(w, j)' <=> Executing(w, j)
  PROVE  RunnerOf' = RunnerOf
  <1>1. ASSUME NEW j \in Job
        PROVE  (IF \E w \in Worker : Executing(w, j)
                THEN CHOOSE w \in Worker : Executing(w, j)
                ELSE NoWorker)' =
               (IF \E w \in Worker : Executing(w, j)
                THEN CHOOSE w \in Worker : Executing(w, j)
                ELSE NoWorker)
    <2>1. (CHOOSE w \in Worker : Executing(w, j))' =
          (CHOOSE w \in Worker : Executing(w, j))
      BY Zenon
    <2>2. QED
      BY <2>1
  <1>2. QED
    BY <1>1, Zenon DEF RunnerOf

\* The queue starts as the life cycle does.
LEMMA InitRefines == Init => LC!LCInit
  <1> SUFFICES ASSUME Init PROVE LC!LCInit
    OBVIOUS
  <1>1. \A w \in Worker, j \in Job : ~Executing(w, j)
    BY DEF Init, Executing
  <1>2. RunnerOf = [j \in Job |-> NoWorker]
    BY <1>1 DEF RunnerOf
  <1>3. QED
    BY <1>2 DEF Init, LC!LCInit

\* What the runners become when worker w starts or stops executing job j.
LEMMA RunnerChanged ==
  ASSUME TypeOK, LockInv, TypeOK', LockInv', NEW w \in Worker, NEW j \in Job,
         \A v \in Worker, i \in Job :
            v # w => (Executing(v, i)' <=> Executing(v, i)),
         \A i \in Job : i # j => ~Executing(w, i) /\ ~Executing(w, i)'
  PROVE  /\ Executing(w, j)' => RunnerOf' = [RunnerOf EXCEPT ![j] = w]
         /\ Executing(w, j) /\ ~Executing(w, j)' =>
               RunnerOf' = [RunnerOf EXCEPT ![j] = NoWorker]
  <1>1. ASSUME NEW i \in Job, i # j PROVE RunnerOf'[i] = RunnerOf[i]
    <2>1. \A v \in Worker : Executing(v, i)' <=> Executing(v, i)
      BY <1>1
    <2>2. (CHOOSE v \in Worker : Executing(v, i))' =
          (CHOOSE v \in Worker : Executing(v, i))
      BY <2>1, Zenon
    <2>3. QED
      BY <2>1, <2>2, Zenon DEF RunnerOf
  <1>2. /\ \A v \in Worker : Executing(v, j)' => RunnerOf'[j] = v
        /\ (\A v \in Worker : ~Executing(v, j)') => RunnerOf'[j] = NoWorker
    BY DEF TypeOK, LockInv, RunnerHoldsLock, RunnerOf, Executing
  <1>3. Executing(w, j) => \A v \in Worker : v # w => ~Executing(v, j)
    BY DEF TypeOK, LockInv, RunnerHoldsLock, Executing
  <1>4. /\ RunnerOf = [i \in Job |-> RunnerOf[i]]
        /\ RunnerOf' = [i \in Job |-> RunnerOf'[i]]
    BY DEF RunnerOf
  <1>5. QED
    BY <1>1, <1>2, <1>3, <1>4

\* Every step is one of the life cycle or none.
LEMMA StepRefines ==
  ASSUME Timely, TypeOK, LockInv, TypeOK', LockInv', [Next]_vars
  PROVE  [LC!LCNext]_<<status, RunnerOf>>
  <1>1. ASSUME UNCHANGED status, UNCHANGED workerVars
        PROVE  UNCHANGED <<status, RunnerOf>>
    BY <1>1, RunnerUnchanged DEF workerVars, Executing
  <1>2. CASE Tick
    BY <1>1, <1>2 DEF Tick, rowVars
  <1>3. ASSUME NEW j \in Job, Enqueue(j) PROVE LC!LCNext
    <2>1. RunnerOf' = RunnerOf
      BY <1>3, RunnerUnchanged DEF Enqueue, workerVars, Executing
    <2>2. LC!Submit(j)
      BY <1>3, <2>1 DEF Enqueue, LC!Submit
    <2>3. QED
      BY <2>2 DEF LC!LCNext
  <1>4. ASSUME NEW j \in Job, RetryDeadLetter(j) PROVE LC!LCNext
    <2>1. RunnerOf' = RunnerOf
      BY <1>4, RunnerUnchanged DEF RetryDeadLetter, workerVars, Executing
    <2>2. LC!Requeue(j)
      BY <1>4, <2>1 DEF RetryDeadLetter, LC!Requeue
    <2>3. QED
      BY <2>2 DEF LC!LCNext
  <1>5. ASSUME NEW w \in Worker, ClaimSelect(w) \/ ClaimLost(w)
        PROVE  UNCHANGED <<status, RunnerOf>>
    <2>1. \A v \in Worker, j \in Job : Executing(v, j)' <=> Executing(v, j)
      BY <1>5 DEF ClaimSelect, ClaimLost, Executing, TypeOK
    <2>2. RunnerOf' = RunnerOf
      BY <2>1, RunnerUnchanged
    <2>3. QED
      BY <1>5, <2>2 DEF ClaimSelect, ClaimLost, rowVars
  <1>6. ASSUME NEW w \in Worker, ClaimUpdate(w) PROVE LC!LCNext
    <2>0. PICK j \in Job : j = picked[w]
      BY <1>6 DEF ClaimUpdate, TypeOK
    <2>1. /\ j \in Job /\ status[j] = "pending"
          /\ status' = [status EXCEPT ![j] = "running"]
          /\ Executing(w, j)'
      BY <1>6, <2>0 DEF ClaimUpdate, Claimable, Executing, TypeOK
    <2>2. /\ \A v \in Worker, i \in Job :
                v # w => (Executing(v, i)' <=> Executing(v, i))
          /\ \A i \in Job : ~Executing(w, i)
          /\ \A i \in Job : i # j => ~Executing(w, i)'
      BY <1>6, <2>0 DEF ClaimUpdate, Executing, TypeOK
    <2>3. RunnerOf' = [RunnerOf EXCEPT ![j] = w]
      BY <2>1, <2>2, RunnerChanged
    <2>4. \A v \in Worker : ~Executing(v, j)
      BY <2>1 DEF LockInv, RunnerHoldsLock, Executing
    <2>5. RunnerOf[j] = NoWorker
      BY <2>1, <2>4 DEF RunnerOf
    <2>6. \A i \in Job : RunnerOf[i] # w
      BY <2>2, SentinelAssumption DEF RunnerOf
    <2>7. LC!Start(j, w)
      BY <2>1, <2>3, <2>5, <2>6 DEF LC!Start
    <2>8. QED
      BY <2>1, <2>7 DEF LC!LCNext
  <1>7. ASSUME NEW w \in Worker, HandlerReturns(w) PROVE LC!LCNext
    <2>0. PICK j \in Job : j = picked[w]
      BY <1>7 DEF HandlerReturns, HandlerSucceeds, HandlerFails,
                  HandlerDeadLetters, TypeOK
    <2>1. /\ j \in Job /\ status[j] = "running" /\ Executing(w, j)
          /\ phase[w] = "executing"
      BY <1>7, <2>0 DEF HandlerReturns, HandlerSucceeds, HandlerFails,
                        HandlerDeadLetters, Executing, TypeOK, LockInv,
                        RunnerHoldsLock
    <2>2. PICK s \in {"succeeded", "pending", "dead_letter"} :
             status' = [status EXCEPT ![j] = s]
      BY <1>7, <2>0, <2>1 DEF HandlerReturns, HandlerSucceeds, HandlerFails,
                             HandlerDeadLetters
    <2>3. BackToIdle(w)
      BY <1>7 DEF HandlerReturns, HandlerSucceeds, HandlerFails,
                  HandlerDeadLetters
    <2>4. /\ \A v \in Worker, i \in Job :
                v # w => (Executing(v, i)' <=> Executing(v, i))
          /\ \A i \in Job : i # j => ~Executing(w, i)
          /\ \A i \in Job : ~Executing(w, i)'
      BY <2>0, <2>3 DEF BackToIdle, Executing, TypeOK
    <2>5. RunnerOf' = [RunnerOf EXCEPT ![j] = NoWorker]
      BY <2>1, <2>4, RunnerChanged
    <2>6. RunnerOf[j] # NoWorker
      BY <2>1, RunnerOfValue, SentinelAssumption
    <2>7. LC!Finish(j, s)
      BY <2>1, <2>2, <2>5, <2>6 DEF LC!Finish
    <2>8. QED
      BY <2>1, <2>2, <2>7 DEF LC!LCNext, LC!States
  <1>8. ASSUME NEW w \in Worker, ReclaimStale(w) PROVE LC!LCNext
    <2> DEFINE J == {j \in Job : Stale(j)}
    <2>1. \A j \in J : status[j] = "running" /\ \A v \in Worker : ~Executing(v, j)
      BY NumberAssumption
      DEF Stale, Timely, LockInv, RunnerHoldsLock, Executing, TypeOK
    <2>2. \A j \in J : RunnerOf[j] = NoWorker
      BY <2>1 DEF RunnerOf
    <2>3. RunnerOf' = RunnerOf
      BY <1>8, RunnerUnchanged DEF ReclaimStale, workerVars, Executing
    <2>4. LC!Recover(J)
      BY <1>8, <2>1, <2>2, <2>3 DEF ReclaimStale, LC!Recover
    <2>5. QED
      BY <2>4 DEF LC!LCNext
  <1>9. ASSUME NEW w \in Worker, Crash(w)
        PROVE  LC!LCNext \/ UNCHANGED <<status, RunnerOf>>
    <2>0. PICK j \in Job : j = picked[w]
      BY <1>9 DEF Crash, TypeOK
    <2>1. j \in Job /\ BackToIdle(w) /\ UNCHANGED status
      BY <1>9 DEF Crash, TypeOK, rowVars
    <2>2. /\ \A v \in Worker, i \in Job :
                v # w => (Executing(v, i)' <=> Executing(v, i))
          /\ \A i \in Job : i # j => ~Executing(w, i)
          /\ \A i \in Job : ~Executing(w, i)'
      BY <2>0, <2>1 DEF BackToIdle, Executing, TypeOK
    <2>3. CASE Executing(w, j)
      <3>1. RunnerOf' = [RunnerOf EXCEPT ![j] = NoWorker]
        BY <2>1, <2>2, <2>3, RunnerChanged
      <3>2. RunnerOf[j] # NoWorker
        BY <2>1, <2>3, RunnerOfValue, SentinelAssumption
      <3>3. status[j] = "running"
        BY <2>3 DEF Executing, LockInv, RunnerHoldsLock
      <3>4. LC!Abandon(j)
        BY <2>1, <3>1, <3>2, <3>3 DEF LC!Abandon
      <3>5. QED
        BY <2>1, <3>4 DEF LC!LCNext
    <2>4. CASE ~Executing(w, j)
      <3>1. RunnerOf' = RunnerOf
        BY <2>2, <2>4, RunnerUnchanged
      <3>2. QED
        BY <2>1, <3>1
    <2>5. QED
      BY <2>3, <2>4
  <1>10. CASE UNCHANGED vars
    BY <1>1, <1>10 DEF vars, rowVars
  <1>11. QED
    BY <1>2, <1>3, <1>4, <1>5, <1>6, <1>7, <1>8, <1>9, <1>10
    DEF Next, HandlerReturns

\* With handlers shorter than the staleness limit the queue implements the
\* life cycle of JobLifecycle: every job is owned by at most one worker, and
\* is taken from it only when it finished or died.
THEOREM QueueImplementsLifecycle == ASSUME Timely PROVE Spec => Lifecycle
  <1>1. TypeOK /\ LockInv /\ TypeOK' /\ LockInv' /\ [Next]_vars =>
          [LC!LCNext]_<<status, RunnerOf>>
    BY StepRefines
  <1>2. QED
    BY <1>1, InitRefines, LockHeld, TypeCorrect, PTL
    DEF Spec, Lifecycle, LC!LCSpec, LC!lcVars

-----------------------------------------------------------------------------
(* A single replica.                                                       *)

\* A replica alone keeps them in any case.
LEMMA StepLockAlone ==
  ASSUME \A v, w \in Worker : v = w
  PROVE  TypeOK /\ RunnerHoldsLock /\ [Next]_vars => RunnerHoldsLock'
  <1> SUFFICES ASSUME TypeOK, RunnerHoldsLock, [Next]_vars
               PROVE  RunnerHoldsLock'
    OBVIOUS
  <1> USE DEF TypeOK, RunnerHoldsLock
  <1>1. CASE Tick
    BY <1>1 DEF Tick, rowVars, workerVars, budgetVars
  <1>2. ASSUME NEW j \in Job, Enqueue(j) PROVE RunnerHoldsLock'
    BY <1>2 DEF Enqueue, workerVars
  <1>3. ASSUME NEW j \in Job, RetryDeadLetter(j) PROVE RunnerHoldsLock'
    BY <1>3 DEF RetryDeadLetter, workerVars
  <1>4. ASSUME NEW w \in Worker, ClaimSelect(w) PROVE RunnerHoldsLock'
    BY <1>4 DEF ClaimSelect, rowVars
  <1>5. ASSUME NEW w \in Worker, ClaimUpdate(w) PROVE RunnerHoldsLock'
    BY <1>5 DEF ClaimUpdate
  <1>6. ASSUME NEW w \in Worker, ClaimLost(w) PROVE RunnerHoldsLock'
    BY <1>6 DEF ClaimLost, rowVars
  <1>7. ASSUME NEW w \in Worker, HandlerReturns(w) PROVE RunnerHoldsLock'
    \* The loop is idle again, and there is no other.
    <2>1. phase' = [phase EXCEPT ![w] = "idle"]
      BY <1>7 DEF HandlerReturns, HandlerSucceeds, HandlerFails,
                  HandlerDeadLetters, BackToIdle
    <2>2. QED
      BY <2>1
  <1>8. ASSUME NEW w \in Worker, ReclaimStale(w) PROVE RunnerHoldsLock'
    \* The loop reclaims between two jobs, when no handler runs.
    BY <1>8 DEF ReclaimStale, workerVars
  <1>9. ASSUME NEW w \in Worker, Crash(w) PROVE RunnerHoldsLock'
    BY <1>9 DEF Crash, BackToIdle
  <1>10. CASE UNCHANGED vars
    BY <1>10 DEF vars, rowVars, workerVars
  <1>11. QED
    BY <1>1, <1>2, <1>3, <1>4, <1>5, <1>6, <1>7, <1>8, <1>9, <1>10
    DEF Next, HandlerReturns

\* In a deployment with one replica a running handler keeps its lock however
\* long it takes: the loop that would reclaim its row waits for it.
THEOREM LoneReplicaHoldsLock ==
  ASSUME \A v, w \in Worker : v = w
  PROVE  Spec => []RunnerHoldsLock
  <1>1. Init => RunnerHoldsLock
    BY DEF Init, RunnerHoldsLock
  <1>2. TypeOK /\ RunnerHoldsLock /\ [Next]_vars => RunnerHoldsLock'
    BY StepLockAlone
  <1>3. QED
    BY <1>1, <1>2, TypeCorrect, PTL DEF Spec

-----------------------------------------------------------------------------
(* Both invariants of the runs at once.                                    *)

\* With handlers shorter than the staleness limit, the queue keeps the locks of
\* running handlers and the attempt budgets, for any number of replicas.
THEOREM QueueIsSafe == ASSUME Timely PROVE Spec => []QueueSafe
  <1>1. LockInv /\ AttemptsBounded => QueueSafe
    BY DEF QueueSafe
  <1>2. QED
    BY <1>1, LockHeld, AttemptBudget, PTL

-----------------------------------------------------------------------------
(* The inductive invariants.                                               *)

\* A request that drew an execution id and has not answered yet.
Holds(r) == req[r].pc \in {"checked", "owner", "inserted"}

\* How far a request is says what the rows hold of its execution id.
RequestRows ==
    \A r \in Request :
        /\ req[r].pc = "new" => req[r].id = NoJob
        /\ Holds(r) => req[r].id \in Job
        /\ req[r].pc = "checked" =>
              req[r].key \in Key /\ \A k \in Key : keyRow[k] # req[r].id
        /\ req[r].pc = "owner" /\ req[r].key # NoKey =>
              keyRow[req[r].key] = req[r].id
        /\ req[r].pc \in {"checked", "owner"} => exec[req[r].id] = "absent"
        /\ req[r].pc = "inserted" => exec[req[r].id] # "absent"

\* An id that two requests carry was handed from one to the other by the row
\* of their common key; only one of the two is still working on it.
SharedIds ==
    \A q, r \in Request :
        q # r /\ req[q].id = req[r].id /\ req[r].id \in Job =>
            /\ req[r].key \in Key /\ req[q].key = req[r].key
            /\ keyRow[req[r].key] = req[r].id
            /\ ~(Holds(q) /\ Holds(r))

\* A key row names an id drawn under that key, and an execution in the table
\* was drawn by a request and, if that had a key, is the one its row names.
KeyRows ==
    /\ \A k \in Key, r \in Request :
          keyRow[k] \in Job /\ req[r].id = keyRow[k] => req[r].key = k
    /\ \A k \in Key :
          keyRow[k] \in Job => \E r \in Request : req[r].id = keyRow[k]
    /\ \A j \in Job :
          exec[j] # "absent" => \E r \in Request : req[r].id = j
    /\ \A r \in Request :
          /\ req[r].key # NoKey /\ req[r].id \in Job
          /\ exec[req[r].id] # "absent"
          => keyRow[req[r].key] = req[r].id

\* A job is enqueued for, and picked up for, executions that exist.
JobsHaveExecutions ==
    /\ \A j \in Job : status[j] # "absent" => exec[j] # "absent"
    /\ \A w \in Worker : phase[w] # "idle" => status[picked[w]] # "absent"

DispatchInv ==
    RequestRows /\ SharedIds /\ KeyRows /\ JobsHaveExecutions

\* Where the handler is says what the execution reads; it never gets as far as
\* the model with another organisation's agent.
HandlerRows ==
    \A w \in Worker :
        /\ phase[w] # "executing" => stage[w] = "entry"
        /\ phase[w] = "executing" =>
              LET s == exec[picked[w]] IN
              /\ stage[w] \in {"model", "recorded"} => s = "running"
              /\ stage[w] = "done" => s = "succeeded"
              /\ stage[w] = "failed" =>
                    s \in {"failed", "timeout"} \/ errors[picked[w]] > 0
              /\ stage[w] # "entry" => picked[w] \notin foreign

\* One bill of an execution is accounted for by its success, or by the worker
\* that is about to record it; every other one by a process death or an error.
Paid(j) ==
    \/ exec[j] = "succeeded"
    \/ \E w \in Worker : Executing(w, j) /\ stage[w] = "recorded"

ChargesExplained ==
    \A j \in Job :
        charged[j] <= crashes + errors[j] + (IF Paid(j) THEN 1 ELSE 0)

WorkInv == HandlerRows /\ DeadLetterExplained /\ ChargesExplained

-----------------------------------------------------------------------------
(* A step of the composition is a step of the queue, leaves the queue      *)
(* alone, or is the death of a dispatching process, which the queue only   *)
(* sees in its count of deaths.                                            *)

\* What the queue sees of a step, once requests enqueue only drawn ids.
LEMMA QueueSees ==
  ASSUME RequestRows, [ENext]_eVars
  PROVE  [Next]_vars \/ \E r \in Request : DispatchDies(r)
  <1>1. ASSUME NEW r \in Request,
               DispatchCheck(r) \/ DispatchPut(r) \/ DispatchInsert(r)
        PROVE  UNCHANGED vars
    BY <1>1 DEF DispatchCheck, DispatchPut, DispatchInsert
  <1>2. ASSUME NEW r \in Request, DispatchEnqueue(r) PROVE Next
    <2>1. req[r].id \in Job /\ Enqueue(req[r].id)
      BY <1>2 DEF DispatchEnqueue, RequestRows, Holds
    <2>2. QED
      BY <2>1 DEF Next
  <1>3. ASSUME NEW w \in Worker, TaskSkips(w) \/ TaskReturns(w) PROVE Next
    BY <1>3 DEF TaskSkips, TaskReturns, Next
  <1>4. ASSUME NEW w \in Worker,
               \/ TaskStarts(w) \/ TaskRecords(w) \/ TaskSucceeds(w)
               \/ TaskFails(w)
        PROVE  UNCHANGED vars
    BY <1>4 DEF TaskStarts, TaskRecords, TaskSucceeds, TaskFails
  <1>5. ASSUME NEW w \in Worker,
               \/ TaskThrows(w) \/ TaskNeverStarts(w) \/ TaskBreaks(w)
               \/ WorkerDies(w)
        PROVE  Next
    BY <1>5 DEF TaskThrows, TaskNeverStarts, TaskBreaks, WorkerDies, Next
  <1>6. CASE QueueStep
    BY <1>6 DEF QueueStep, Next
  <1>7. CASE UNCHANGED eVars
    BY <1>7 DEF eVars
  <1>8. QED
    BY <1>1, <1>2, <1>3, <1>4, <1>5, <1>6, <1>7 DEF ENext

\* Such a death disturbs nothing the queue keeps of its jobs.
LEMMA DeathUnseen ==
  ASSUME NEW r \in Request, DispatchDies(r), TypeOK
  PROVE  /\ TypeOK' /\ (LockInv => LockInv') /\ (AttemptsInv => AttemptsInv')
         /\ UNCHANGED <<now, rowVars, workerVars>>
         /\ UNCHANGED <<status, RunnerOf>>
  <1>1. UNCHANGED <<now, rowVars, workerVars, requeues>> /\ crashes' = crashes + 1
    BY DEF DispatchDies
  <1>2. TypeOK'
    BY <1>1 DEF TypeOK, rowVars, workerVars
  <1>3. LockInv => LockInv'
    BY <1>1 DEF LockInv, RunnerHoldsLock, rowVars, workerVars
  <1>4. AttemptsInv => AttemptsInv'
    BY <1>1, NumberAssumption
    DEF TypeOK, AttemptsInv, AttemptsBounded, Orphan, Executing, rowVars,
        workerVars
  <1>5. UNCHANGED <<status, RunnerOf>>
    BY <1>1, RunnerUnchanged DEF rowVars, workerVars, Executing
  <1>6. QED
    BY <1>1, <1>2, <1>3, <1>4, <1>5

-----------------------------------------------------------------------------
(* Types.                                                                  *)

\* It holds at the start.
LEMMA EInitType == EInit => ETypeOK
  <1> SUFFICES ASSUME EInit PROVE ETypeOK
    OBVIOUS
  <1>1. TypeOK
    BY InitType DEF EInit
  <1>2. NewRequest \in
          [pc : {"new", "checked", "owner", "inserted", "replied", "lost"},
           key : Key \cup {NoKey}, names : {"own", "foreign", "missing"},
           id : Job \cup {NoJob}]
    BY DEF NewRequest
  <1>3. QED
    BY <1>1, <1>2 DEF EInit, ETypeOK, ExecStatus

\* Every step keeps it.
LEMMA EStepType == ETypeOK /\ RequestRows /\ [ENext]_eVars => ETypeOK'
  <1> SUFFICES ASSUME ETypeOK, RequestRows, [ENext]_eVars PROVE ETypeOK'
    OBVIOUS
  <1>0. TypeOK'
    <2>1. ASSUME NEW r \in Request, DispatchDies(r) PROVE TypeOK'
      BY <2>1, DeathUnseen DEF ETypeOK
    <2>2. QED
      BY <2>1, QueueSees, StepType DEF ETypeOK
  <1> USE <1>0 DEF ETypeOK, ExecStatus
  <1>1. ASSUME NEW r \in Request, DispatchCheck(r) PROVE ETypeOK'
    <2>1. UNCHANGED <<keyRow, foreign, exec, stage, errors, charged, agent, task>>
      BY <1>1 DEF DispatchCheck, taskVars
    <2>2. PICK k \in Key \cup {NoKey}, names \in AgentRef :
             IF k \in Key /\ keyRow[k] # NoJob
             THEN req' = [req EXCEPT ![r] = [pc |-> "replied", key |-> k,
                                             names |-> names, id |-> keyRow[k]]]
             ELSE \E j \in FreshId :
                  req' = [req EXCEPT ![r] =
                            [pc |-> IF k = NoKey THEN "owner" ELSE "checked",
                             key |-> k, names |-> names, id |-> j]]
      BY <1>1 DEF DispatchCheck
    <2>3. names \in {"own", "foreign", "missing"}
      BY RequestAssumption
    <2>4. CASE k \in Key /\ keyRow[k] # NoJob
      <3>1. keyRow[k] \in Job
        BY <2>4
      <3>2. QED
        BY <2>1, <2>2, <2>3, <2>4, <3>1
    <2>5. CASE ~(k \in Key /\ keyRow[k] # NoJob)
      <3>1. PICK j \in FreshId :
               req' = [req EXCEPT ![r] =
                         [pc |-> IF k = NoKey THEN "owner" ELSE "checked",
                          key |-> k, names |-> names, id |-> j]]
        BY <2>2, <2>5
      <3>2. j \in Job
        BY DEF FreshId
      <3>3. QED
        BY <2>1, <2>3, <3>1, <3>2
    <2>6. QED
      BY <2>4, <2>5
  <1>2. ASSUME NEW r \in Request, DispatchPut(r) PROVE ETypeOK'
    BY <1>2, SMTT(30) DEF DispatchPut, taskVars, RequestRows
  <1>3. ASSUME NEW r \in Request, DispatchInsert(r) PROVE ETypeOK'
    <2>1. req[r].id \in Job
      BY <1>3 DEF DispatchInsert, RequestRows, Holds
    <2>2. /\ req' \in [Request ->
                [pc : {"new", "checked", "owner", "inserted", "replied", "lost"},
                 key : Key \cup {NoKey}, names : {"own", "foreign", "missing"},
                 id : Job \cup {NoJob}]]
          /\ exec' \in [Job -> ExecStatus]
      <3>1. exec' = exec \/ exec' = [exec EXCEPT ![req[r].id] = "queued"]
        BY <1>3 DEF DispatchInsert
      <3>2. \E pc \in {"inserted", "lost"} : req' = [req EXCEPT ![r].pc = pc]
        BY <1>3 DEF DispatchInsert
      <3>3. exec' \in [Job -> ExecStatus]
        BY <2>1, <3>1
      <3>4. QED
        BY <1>3, <3>2, <3>3
    <2>3. foreign' \subseteq Job
      <3>1. foreign' = foreign \/ foreign' = foreign \cup {req[r].id}
        BY <1>3 DEF DispatchInsert
      <3>2. foreign \subseteq Job
        OBVIOUS
      <3>3. QED
        BY <2>1, <3>1, <3>2
    <2>4. UNCHANGED <<keyRow, stage, errors, charged, agent, task>>
      BY <1>3 DEF DispatchInsert, taskVars
    <2>5. QED
      BY <2>2, <2>3, <2>4
  <1>4. ASSUME NEW r \in Request, DispatchEnqueue(r) PROVE ETypeOK'
    BY <1>4 DEF DispatchEnqueue, taskVars
  <1>5. ASSUME NEW r \in Request, DispatchDies(r) PROVE ETypeOK'
    BY <1>5 DEF DispatchDies, taskVars
  <1>t. ASSUME NEW w \in Worker, NEW n \in Nat, phase[w] = "executing",
               Throws(picked[w], n)
        PROVE  errors' \in [Job -> Nat]
    <2>1. picked[w] \in Job
      BY <1>t DEF TypeOK
    <2>2. errors[picked[w]] + n \in Nat
      BY <2>1
    <2>3. QED
      BY <1>t, <2>1, <2>2 DEF Throws
  <1>6. ASSUME NEW w \in Worker, TaskStarts(w) PROVE ETypeOK'
    BY <1>6 DEF TaskStarts, dispatchVars
  <1>7. ASSUME NEW w \in Worker, TaskRecords(w) PROVE ETypeOK'
    <2>1. picked[w] \in Job
      BY <1>7 DEF TaskRecords, TypeOK
    <2>2. charged[picked[w]] + 1 \in Nat
      BY <2>1
    <2>3. QED
      BY <1>7, <2>1, <2>2 DEF TaskRecords, dispatchVars
  <1>8. ASSUME NEW w \in Worker, TaskSucceeds(w) PROVE ETypeOK'
    BY <1>8 DEF TaskSucceeds, dispatchVars
  <1>9. ASSUME NEW w \in Worker, TaskReturns(w) PROVE ETypeOK'
    <2>1. errors' \in [Job -> Nat]
      BY <1>9, <1>t DEF TaskReturns
    <2>2. task' \in [Job -> {"ready", "in_progress"}]
      BY <1>9 DEF TaskReturns
    <2>3. QED
      BY <1>9, <2>1, <2>2 DEF TaskReturns, dispatchVars
  <1>10. ASSUME NEW w \in Worker, TaskFails(w) PROVE ETypeOK'
    <2>1. errors' \in [Job -> Nat]
      BY <1>10, <1>t DEF TaskFails
    <2>2. exec' \in [Job -> ExecStatus]
      BY <1>10, ZenonT(40) DEF TaskFails
    <2>3. QED
      BY <1>10, <2>1, <2>2 DEF TaskFails, dispatchVars
  <1>11. ASSUME NEW w \in Worker, TaskThrows(w) \/ WorkerDies(w) PROVE ETypeOK'
    <2>1. errors' \in [Job -> Nat]
      BY <1>11, <1>t DEF TaskThrows, WorkerDies
    <2>2. QED
      BY <1>11, <2>1 DEF TaskThrows, WorkerDies, dispatchVars
  <1>12. ASSUME NEW w \in Worker, TaskNeverStarts(w) \/ TaskBreaks(w)
         PROVE  ETypeOK'
    <2>1. errors' \in [Job -> Nat]
      BY <1>12, <1>t DEF TaskNeverStarts, TaskBreaks
    <2>2. QED
      BY <1>12, <2>1 DEF TaskNeverStarts, TaskBreaks, dispatchVars
  <1>13. ASSUME UNCHANGED execVars PROVE ETypeOK'
    BY <1>13 DEF execVars, dispatchVars, taskVars
  <1>14. QED
    BY <1>1, <1>2, <1>3, <1>4, <1>5, <1>6, <1>7, <1>8, <1>9, <1>10, <1>11,
       <1>12, <1>13 DEF ENext, TaskSkips, QueueStep, eVars

-----------------------------------------------------------------------------
(* The rows of a dispatch.                                                 *)

\* It holds at the start.
LEMMA EInitDispatch == EInit => DispatchInv
  BY SentinelAssumption
  DEF EInit, Init, NewRequest, DispatchInv, RequestRows, SharedIds, KeyRows,
      JobsHaveExecutions, Holds

\* What a worker, the operator or the clock does to the queue never makes a
\* row of a job that was not enqueued, and only existing rows are picked.
LEMMA JobsKept ==
  ASSUME TypeOK, JobsHaveExecutions,
         \/ Tick
         \/ \E j \in Job : RetryDeadLetter(j)
         \/ \E w \in Worker :
               \/ ClaimSelect(w) \/ ClaimUpdate(w) \/ ClaimLost(w)
               \/ HandlerSucceeds(w) \/ HandlerFails(w)
               \/ ReclaimStale(w) \/ Crash(w)
         \/ UNCHANGED vars
  PROVE  /\ \A j \in Job : status'[j] # "absent" => status[j] # "absent"
         /\ \A w \in Worker :
               phase'[w] # "idle" => status'[picked'[w]] # "absent"
  <1> USE DEF TypeOK, RowStatus, JobsHaveExecutions
  <1> DEFINE Kept ==
        /\ \A j \in Job : status'[j] # "absent" => status[j] # "absent"
        /\ \A w \in Worker :
              phase'[w] # "idle" => status'[picked'[w]] # "absent"
  <1>1. CASE Tick \/ UNCHANGED vars
    BY <1>1 DEF Tick, vars, rowVars, workerVars
  <1>2. ASSUME NEW j \in Job, RetryDeadLetter(j) PROVE Kept
    BY <1>2 DEF RetryDeadLetter, workerVars
  <1>3. ASSUME NEW w \in Worker, ClaimSelect(w) PROVE Kept
    BY <1>3 DEF ClaimSelect, NextDue, Due, rowVars
  <1>4. ASSUME NEW w \in Worker, ClaimUpdate(w) PROVE Kept
    BY <1>4 DEF ClaimUpdate, Claimable
  <1>5. ASSUME NEW w \in Worker, ClaimLost(w) PROVE Kept
    BY <1>5 DEF ClaimLost, rowVars
  <1>6. ASSUME NEW w \in Worker, HandlerSucceeds(w) PROVE Kept
    BY <1>6 DEF HandlerSucceeds, BackToIdle
  <1>7. ASSUME NEW w \in Worker, HandlerFails(w) PROVE Kept
    BY <1>7 DEF HandlerFails, BackToIdle
  <1>8. ASSUME NEW w \in Worker, ReclaimStale(w) PROVE Kept
    BY <1>8 DEF ReclaimStale, Stale, workerVars
  <1>9. ASSUME NEW w \in Worker, Crash(w) PROVE Kept
    BY <1>9 DEF Crash, BackToIdle, rowVars
  <1>10. QED
    BY <1>1, <1>2, <1>3, <1>4, <1>5, <1>6, <1>7, <1>8, <1>9

\* The invariant says nothing of an execution but whether it exists.
LEMMA RowsKept ==
  ASSUME ETypeOK, DispatchInv, UNCHANGED dispatchVars,
         \A j \in Job : exec'[j] = "absent" <=> exec[j] = "absent",
         \A j \in Job : status'[j] # "absent" => status[j] # "absent",
         \A w \in Worker :
            phase'[w] # "idle" => status'[picked'[w]] # "absent"
  PROVE  DispatchInv'
  <1> USE DEF ETypeOK, DispatchInv, dispatchVars
  <1>1. RequestRows'
    BY DEF RequestRows, Holds
  <1>2. SharedIds'
    BY DEF SharedIds, Holds
  <1>3. KeyRows'
    BY DEF KeyRows
  <1>4. JobsHaveExecutions'
    BY DEF JobsHaveExecutions
  <1>5. QED
    BY <1>1, <1>2, <1>3, <1>4

\* Workers, the operator and the clock.
LEMMA WorkerKeepsDispatch ==
  ASSUME ETypeOK, DispatchInv,
         \/ QueueStep
         \/ \E w \in Worker : TaskStep(w) \/ WorkerDies(w)
         \/ UNCHANGED eVars
  PROVE  DispatchInv'
  <1>1. UNCHANGED dispatchVars
    BY DEF QueueStep, TaskStep, TaskSkips, TaskStarts, TaskNeverStarts, TaskRecords,
           TaskSucceeds, TaskReturns, TaskFails, TaskThrows, TaskBreaks, WorkerDies,
           execVars, eVars
  <1>2. \/ Tick
        \/ \E j \in Job : RetryDeadLetter(j)
        \/ \E w \in Worker :
              \/ ClaimSelect(w) \/ ClaimUpdate(w) \/ ClaimLost(w)
              \/ HandlerSucceeds(w) \/ HandlerFails(w)
              \/ ReclaimStale(w) \/ Crash(w)
        \/ UNCHANGED vars
    BY DEF QueueStep, TaskStep, TaskSkips, TaskStarts, TaskNeverStarts, TaskRecords,
           TaskSucceeds, TaskReturns, TaskFails, TaskThrows, TaskBreaks, WorkerDies, eVars
  <1>3. TypeOK /\ JobsHaveExecutions
    BY DEF ETypeOK, DispatchInv
  <1>4. \A j \in Job : exec'[j] = "absent" <=> exec[j] = "absent"
    <2>1. CASE UNCHANGED exec
      BY <2>1
    <2>2. ASSUME NEW w \in Worker, phase[w] = "executing",
                 NEW s \in {"running", "succeeded", "failed", "timeout"},
                 exec' = [exec EXCEPT ![picked[w]] = s]
          PROVE  \A j \in Job : exec'[j] = "absent" <=> exec[j] = "absent"
      <3>1. picked[w] \in Job /\ status[picked[w]] # "absent"
        BY <1>3, <2>2 DEF TypeOK, JobsHaveExecutions
      <3>2. exec[picked[w]] # "absent"
        BY <1>3, <3>1 DEF JobsHaveExecutions
      <3>3. QED
        BY <2>2, <3>1, <3>2 DEF ETypeOK
    <2>3. QED
      BY <2>1, <2>2
      DEF QueueStep, TaskStep, TaskSkips, TaskStarts, TaskNeverStarts, TaskRecords,
          TaskSucceeds, TaskReturns, TaskFails, TaskThrows, TaskBreaks, WorkerDies,
          execVars, eVars
  <1>5. QED
    BY <1>1, <1>2, <1>3, <1>4, JobsKept, RowsKept

\* Looking a key up keeps the rows of a dispatch.
LEMMA CheckKeepsDispatch ==
  ASSUME ETypeOK, DispatchInv, NEW r \in Request, DispatchCheck(r)
  PROVE  DispatchInv'
  <1> USE DEF ETypeOK
  <1>1. UNCHANGED <<vars, keyRow, exec>> /\ req[r].pc = "new"
    BY DEF DispatchCheck
  <1>2. req[r].id \notin Job
    BY <1>1, SentinelAssumption DEF DispatchInv, RequestRows
  <1>3. JobsHaveExecutions'
    BY <1>1 DEF DispatchInv, JobsHaveExecutions, vars, rowVars, workerVars
  <1>4. PICK k \in Key \cup {NoKey}, names \in AgentRef :
           IF k \in Key /\ keyRow[k] # NoJob
           THEN req' = [req EXCEPT ![r] = [pc |-> "replied", key |-> k,
                                           names |-> names, id |-> keyRow[k]]]
           ELSE \E j \in FreshId :
                req' = [req EXCEPT ![r] =
                          [pc |-> IF k = NoKey THEN "owner" ELSE "checked",
                           key |-> k, names |-> names, id |-> j]]
    BY DEF DispatchCheck
  <1>5. CASE k \in Key /\ keyRow[k] # NoJob
    <2>1. keyRow[k] \in Job
      BY <1>5
    <2>2. /\ req'[r].pc = "replied" /\ req'[r].key = k /\ req'[r].id = keyRow[k]
          /\ \A q \in Request : q # r => req'[q] = req[q]
      BY <1>4, <1>5
    <2>3. RequestRows'
      BY <1>1, <2>2 DEF DispatchInv, RequestRows, Holds
    <2>4. SharedIds'
      BY <1>1, <1>5, <2>1, <2>2
      DEF DispatchInv, SharedIds, KeyRows, Holds
    <2>5. KeyRows'
      BY <1>1, <1>2, <1>5, <2>1, <2>2, SMTT(30) DEF DispatchInv, KeyRows
    <2>6. QED
      BY <1>3, <2>3, <2>4, <2>5 DEF DispatchInv
  <1>6. CASE ~(k \in Key /\ keyRow[k] # NoJob)
    <2>0. PICK j \in FreshId :
             req' = [req EXCEPT ![r] =
                       [pc |-> IF k = NoKey THEN "owner" ELSE "checked",
                        key |-> k, names |-> names, id |-> j]]
      BY <1>4, <1>6
    <2>1. j \in Job /\ \A q \in Request : req[q].id # j
      BY DEF FreshId
    <2>2. /\ req'[r].pc = IF k = NoKey THEN "owner" ELSE "checked"
          /\ req'[r].key = k /\ req'[r].id = j
          /\ \A q \in Request : q # r => req'[q] = req[q]
      BY <2>0
    <2>3. exec[j] = "absent" /\ \A i \in Key : keyRow[i] # j
      BY <2>1 DEF DispatchInv, KeyRows
    <2>4. RequestRows'
      BY <1>1, <2>1, <2>2, <2>3, RequestAssumption
      DEF DispatchInv, RequestRows, Holds
    <2>5. SharedIds'
      BY <1>1, <2>1, <2>2 DEF DispatchInv, SharedIds, Holds
    <2>6. KeyRows'
      <3>1. \A i \in Key : keyRow'[i] = keyRow[i] /\ keyRow[i] # j
        BY <1>1, <2>3
      <3>2. \A i \in Job : exec'[i] = exec[i]
        BY <1>1
      <3>3. \A i \in Key, q \in Request :
               keyRow'[i] \in Job /\ req'[q].id = keyRow'[i] => req'[q].key = i
        BY <2>2, <3>1 DEF DispatchInv, KeyRows
      <3>4. \A i \in Job :
               (\E q \in Request : req[q].id = i) => \E q \in Request : req'[q].id = i
        BY <1>2, <2>2
      <3>5. \A i \in Key :
               keyRow'[i] \in Job => \E q \in Request : req'[q].id = keyRow'[i]
        <4>1. \A i \in Key :
                 keyRow[i] \in Job => \E q \in Request : req[q].id = keyRow[i]
          BY DEF DispatchInv, KeyRows
        <4>2. QED
          BY <3>1, <3>4, <4>1
      <3>6. \A i \in Job :
               exec'[i] # "absent" => \E q \in Request : req'[q].id = i
        BY <3>2, <3>4 DEF DispatchInv, KeyRows
      <3>7. ASSUME NEW q \in Request, req'[q].key # NoKey, req'[q].id \in Job,
                   exec'[req'[q].id] # "absent"
            PROVE  keyRow'[req'[q].key] = req'[q].id
        <4>1. q # r
          BY <1>1, <2>2, <2>3, <3>7
        <4>2. req'[q] = req[q] /\ req[q].key \in Key
          BY <2>2, <3>7, <4>1
        <4>3. QED
          BY <3>1, <3>2, <3>7, <4>2 DEF DispatchInv, KeyRows
      <3>8. QED
        BY <3>3, <3>5, <3>6, <3>7 DEF KeyRows
    <2>7. QED
      BY <1>3, <2>4, <2>5, <2>6 DEF DispatchInv
  <1>7. QED
    BY <1>5, <1>6

\* Storing a key keeps them.
LEMMA PutKeepsDispatch ==
  ASSUME ETypeOK, DispatchInv, NEW r \in Request, DispatchPut(r)
  PROVE  DispatchInv'
  <1> DEFINE k == req[r].key
  <1> USE DEF ETypeOK
  <1>1. /\ UNCHANGED <<vars, exec>> /\ req[r].pc = "checked"
        /\ k \in Key /\ req[r].id \in Job
        /\ \A i \in Key : keyRow[i] # req[r].id
        /\ exec[req[r].id] = "absent"
    BY DEF DispatchPut, DispatchInv, RequestRows, Holds
  <1>2. JobsHaveExecutions'
    BY <1>1 DEF DispatchInv, JobsHaveExecutions, vars, rowVars, workerVars
  \* The id was drawn by this request and nobody else knows it.
  <1>3. \A q \in Request : q # r => req[q].id # req[r].id
    BY <1>1 DEF DispatchInv, SharedIds
  <1>4. CASE keyRow[k] = NoJob
    <2>1. /\ keyRow' = [keyRow EXCEPT ![k] = req[r].id]
          /\ req' = [req EXCEPT ![r].pc = "owner"]
      BY <1>4 DEF DispatchPut
    <2>2. /\ req'[r].pc = "owner" /\ req'[r].key = k /\ req'[r].id = req[r].id
          /\ \A q \in Request : q # r => req'[q] = req[q]
          /\ keyRow'[k] = req[r].id
          /\ \A i \in Key : i # k => keyRow'[i] = keyRow[i]
      BY <1>1, <2>1
    <2>3. RequestRows'
      BY <1>1, <1>3, <1>4, <2>2, SentinelAssumption
      DEF DispatchInv, RequestRows, Holds
    <2>4. SharedIds'
      BY <1>1, <1>3, <1>4, <2>2, SentinelAssumption
      DEF DispatchInv, SharedIds, Holds
    <2>5. KeyRows'
      <3>1. \A i \in Key, q \in Request :
               keyRow'[i] \in Job /\ req'[q].id = keyRow'[i] => req'[q].key = i
        BY <1>1, <1>3, <2>2 DEF DispatchInv, KeyRows
      <3>2. \A i \in Key :
               keyRow'[i] \in Job => \E q \in Request : req'[q].id = keyRow'[i]
        <4>1. \A q \in Request : req'[q].id = req[q].id
          BY <2>2
        <4>2. QED
          BY <2>2, <4>1 DEF DispatchInv, KeyRows
      <3>3. \A j \in Job :
               exec'[j] # "absent" => \E q \in Request : req'[q].id = j
        <4>1. \A q \in Request : req'[q].id = req[q].id
          BY <2>2
        <4>2. QED
          BY <1>1, <4>1 DEF DispatchInv, KeyRows
      <3>4. ASSUME NEW q \in Request, req'[q].key # NoKey, req'[q].id \in Job,
                   exec'[req'[q].id] # "absent"
            PROVE  keyRow'[req'[q].key] = req'[q].id
        <4>1. q # r /\ keyRow[req[q].key] = req[q].id
          BY <1>1, <2>2, <3>4 DEF DispatchInv, KeyRows
        <4>2. req[q].key \in Key \ {k}
          BY <1>4, <2>2, <3>4, <4>1, SentinelAssumption
        <4>3. QED
          BY <2>2, <4>1, <4>2
      <3>5. QED
        BY <3>1, <3>2, <3>3, <3>4 DEF KeyRows
    <2>6. QED
      BY <1>2, <2>3, <2>4, <2>5 DEF DispatchInv
  <1>5. CASE keyRow[k] # NoJob
    <2>1. /\ req' = [req EXCEPT ![r].pc = "replied", ![r].id = keyRow[k]]
          /\ UNCHANGED keyRow
      BY <1>5 DEF DispatchPut
    <2>2. /\ req'[r].pc = "replied" /\ req'[r].key = k /\ req'[r].id = keyRow[k]
          /\ \A q \in Request : q # r => req'[q] = req[q]
      BY <1>1, <2>1
    <2>3. keyRow[k] \in Job
      BY <1>1, <1>5
    <2>4. RequestRows'
      BY <1>1, <2>1, <2>2 DEF DispatchInv, RequestRows, Holds
    <2>5. SharedIds'
      BY <1>1, <2>1, <2>2, <2>3 DEF DispatchInv, SharedIds, KeyRows, Holds
    <2>6. KeyRows'
      BY <1>1, <2>1, <2>2, <2>3 DEF DispatchInv, KeyRows
    <2>7. QED
      BY <1>2, <2>4, <2>5, <2>6 DEF DispatchInv
  <1>6. QED
    BY <1>4, <1>5

\* A request that only moves on, keeping its id, with the execution it writes.
LEMMA MoveKeepsDispatch ==
  ASSUME ETypeOK, DispatchInv, NEW r \in Request,
         NEW pc \in {"inserted", "replied", "lost"},
         req' = [req EXCEPT ![r].pc = pc], UNCHANGED keyRow, Holds(r),
         \/ UNCHANGED exec
         \/ req[r].pc = "owner" /\ exec' = [exec EXCEPT ![req[r].id] = "queued"],
         pc = "inserted" => exec'[req[r].id] # "absent",
         JobsHaveExecutions'
  PROVE  DispatchInv'
  <1> USE DEF ETypeOK
  <1>1. /\ req'[r].pc = pc /\ req'[r].key = req[r].key /\ req'[r].id = req[r].id
        /\ \A q \in Request : q # r => req'[q] = req[q]
        /\ req[r].id \in Job
    BY DEF DispatchInv, RequestRows
  <1>2. /\ \A j \in Job : j # req[r].id => exec'[j] = exec[j]
        /\ exec'[req[r].id] = exec[req[r].id] \/ req[r].pc = "owner"
    BY <1>1
  \* Whoever else carries the id has left the table alone for good.
  <1>3. \A q \in Request : q # r /\ Holds(q) => req[q].id # req[r].id
    BY <1>1 DEF DispatchInv, SharedIds
  <1>4. RequestRows'
    <2>1. ASSUME NEW q \in Request, q # r PROVE
            /\ req'[q].pc = "new" => req'[q].id = NoJob
            /\ Holds(q)' => req'[q].id \in Job
            /\ req'[q].pc = "checked" =>
                  req'[q].key \in Key /\ \A k \in Key : keyRow'[k] # req'[q].id
            /\ req'[q].pc = "owner" /\ req'[q].key # NoKey =>
                  keyRow'[req'[q].key] = req'[q].id
            /\ req'[q].pc \in {"checked", "owner"} => exec'[req'[q].id] = "absent"
            /\ req'[q].pc = "inserted" => exec'[req'[q].id] # "absent"
      BY <1>1, <1>2, <1>3, <2>1 DEF DispatchInv, RequestRows, Holds
    <2>2. QED
      BY <1>1, <2>1 DEF RequestRows, Holds
  <1>5. SharedIds'
    BY <1>1 DEF DispatchInv, SharedIds, Holds
  <1>6. KeyRows'
    <2>1. \A q \in Request :
             req[q].id = req[r].id /\ req[r].pc = "owner" /\ req[q].key # NoKey
             => keyRow[req[q].key] = req[q].id
      BY <1>1 DEF DispatchInv, SharedIds, RequestRows
    <2>2. QED
      BY <1>1, <1>2, <2>1 DEF DispatchInv, KeyRows
  <1>7. QED
    BY <1>4, <1>5, <1>6 DEF DispatchInv

\* So do the other steps of a request.
LEMMA RequestKeepsDispatch ==
  ASSUME ETypeOK, DispatchInv, NEW r \in Request,
         DispatchInsert(r) \/ DispatchEnqueue(r) \/ DispatchDies(r)
  PROVE  DispatchInv'
  <1> USE DEF ETypeOK
  <1>1. CASE DispatchInsert(r)
    <2>1. req[r].pc = "owner" /\ req[r].id \in Job /\ Holds(r)
      BY <1>1 DEF DispatchInsert, DispatchInv, RequestRows, Holds
    <2>2. UNCHANGED <<vars, keyRow>>
      BY <1>1 DEF DispatchInsert
    <2>3. CASE req[r].names # "missing"
      <3>1. /\ exec' = [exec EXCEPT ![req[r].id] = "queued"]
            /\ req' = [req EXCEPT ![r].pc = "inserted"]
        BY <1>1, <2>3 DEF DispatchInsert
      <3>2. JobsHaveExecutions'
        BY <2>1, <2>2, <3>1
        DEF DispatchInv, JobsHaveExecutions, vars, rowVars, workerVars
      <3>3. exec'[req[r].id] # "absent"
        BY <2>1, <3>1
      <3>4. QED
        BY <2>1, <2>2, <3>1, <3>2, <3>3, MoveKeepsDispatch
    <2>4. CASE ~(req[r].names # "missing")
      <3>1. UNCHANGED exec /\ req' = [req EXCEPT ![r].pc = "lost"]
        BY <1>1, <2>4 DEF DispatchInsert
      <3>2. JobsHaveExecutions'
        BY <2>2, <3>1
        DEF DispatchInv, JobsHaveExecutions, vars, rowVars, workerVars
      <3>3. QED
        BY <2>1, <2>2, <3>1, <3>2, MoveKeepsDispatch
    <2>5. QED
      BY <2>3, <2>4
  <1>2. CASE DispatchEnqueue(r)
    <2>1. /\ req[r].id \in Job /\ exec[req[r].id] # "absent" /\ Holds(r)
      BY <1>2 DEF DispatchEnqueue, DispatchInv, RequestRows, Holds
    <2>2. /\ Enqueue(req[r].id) /\ req' = [req EXCEPT ![r].pc = "replied"]
          /\ UNCHANGED <<keyRow, exec>>
      BY <1>2 DEF DispatchEnqueue
    <2>3. JobsHaveExecutions'
      BY <2>1, <2>2
      DEF DispatchInv, JobsHaveExecutions, Enqueue, workerVars, TypeOK
    <2>4. QED
      BY <2>1, <2>2, <2>3, MoveKeepsDispatch
  <1>3. CASE DispatchDies(r)
    <2>1. /\ req' = [req EXCEPT ![r].pc = "lost"] /\ Holds(r)
          /\ UNCHANGED <<keyRow, exec, rowVars, workerVars>>
      BY <1>3 DEF DispatchDies, Holds
    <2>2. JobsHaveExecutions'
      BY <2>1 DEF DispatchInv, JobsHaveExecutions, rowVars, workerVars
    <2>3. QED
      BY <2>1, <2>2, MoveKeepsDispatch
  <1>4. QED
    BY <1>1, <1>2, <1>3

\* Every step keeps it.
LEMMA EStepDispatch ==
  ASSUME ETypeOK, DispatchInv, [ENext]_eVars PROVE DispatchInv'
  BY CheckKeepsDispatch, PutKeepsDispatch, RequestKeepsDispatch,
     WorkerKeepsDispatch DEF ENext, TaskStep

\* Every variable keeps its type in every behaviour, whatever requests,
\* workers and deaths do; and so do the rows a dispatch writes.
THEOREM DispatchRows == ESpec => [](ETypeOK /\ DispatchInv)
  <1>1. DispatchInv => RequestRows
    BY DEF DispatchInv
  <1>2. ETypeOK /\ DispatchInv /\ [ENext]_eVars => (ETypeOK /\ DispatchInv)'
    BY <1>1, EStepType, EStepDispatch
  <1>3. QED
    BY <1>2, EInitType, EInitDispatch, PTL DEF ESpec

\* However often a client repeats a dispatch under one key, on however many
\* replicas, one execution at most is created for it.
THEOREM ExecutionPerKey == ESpec => []OneExecutionPerKey
  <1>1. ETypeOK /\ DispatchInv => OneExecutionPerKey
    BY DEF DispatchInv, KeyRows, OneExecutionPerKey
  <1>2. QED
    BY <1>1, DispatchRows, PTL

\* Every variable keeps its type, in the queue and in what is built on it.
THEOREM ExecutionTypes == ESpec => []ETypeOK
  BY DispatchRows, PTL

-----------------------------------------------------------------------------
(* The queue under the workers that run executions.                        *)

\* Every step of the whole keeps the locks and the attempts of the queue, when handlers keep their time.
LEMMA EStepQueue ==
  ASSUME Timely
  PROVE  /\ ETypeOK /\ DispatchInv /\ LockInv /\ [ENext]_eVars => LockInv'
         /\ ETypeOK /\ DispatchInv /\ LockInv /\ AttemptsInv /\ [ENext]_eVars
               => AttemptsInv'
  <1> SUFFICES ASSUME ETypeOK, DispatchInv, LockInv, [ENext]_eVars
               PROVE  LockInv' /\ (AttemptsInv => AttemptsInv')
    OBVIOUS
  <1>1. TypeOK /\ RequestRows
    BY DEF ETypeOK, DispatchInv
  <1>2. ASSUME NEW r \in Request, DispatchDies(r)
        PROVE  LockInv' /\ (AttemptsInv => AttemptsInv')
    BY <1>1, <1>2, DeathUnseen
  <1>3. QED
    BY <1>1, <1>2, QueueSees, StepLock, StepAttempts

\* With handlers shorter than the staleness limit, an execution's worker keeps
\* the lock of its job and the attempt budget holds, also while dispatching
\* requests come, race and die.
THEOREM ExecutionQueueSafe == ASSUME Timely PROVE ESpec => []QueueSafe
  <1>1. EInit => LockInv /\ AttemptsInv
    BY InitLock, NumberAssumption
    DEF EInit, Init, AttemptsInv, AttemptsBounded, Orphan
  <1>2. LockInv /\ AttemptsInv => QueueSafe
    BY DEF QueueSafe, AttemptsInv
  <1>3. QED
    BY <1>1, <1>2, EStepQueue, DispatchRows, PTL DEF ESpec

-----------------------------------------------------------------------------
(* What the handler writes.                                                *)

\* It holds at the start.
LEMMA EInitWork == EInit => WorkInv
  BY NumberAssumption
  DEF EInit, Init, WorkInv, HandlerRows, DeadLetterExplained,
      ChargesExplained, Paid, Executing

\* The worker that executes a job is the only one, and the row reads running.
LEMMA AloneOnJob ==
  ASSUME TypeOK, LockInv, NEW w \in Worker, phase[w] = "executing"
  PROVE  /\ picked[w] \in Job /\ status[picked[w]] = "running"
         /\ \A v \in Worker : phase[v] = "executing" /\ picked[v] = picked[w]
                              => v = w
  BY DEF TypeOK, LockInv, RunnerHoldsLock

\* A step of the handler of worker w that leaves the queue alone: w's stage
\* and execution agree again, and no other worker or dead letter is concerned.
LEMMA HandlerMoves ==
  ASSUME ETypeOK, LockInv, WorkInv, NEW w \in Worker, phase[w] = "executing",
         picked[w] \notin foreign, ETypeOK',
         NEW t \in {"model", "recorded", "done", "failed"},
         NEW s \in {"running", "succeeded", "failed", "timeout"},
         stage' = [stage EXCEPT ![w] = t],
         exec' = [exec EXCEPT ![picked[w]] = s], UNCHANGED <<vars, foreign>>,
         \A j \in Job : errors'[j] >= errors[j],
         t \in {"model", "recorded"} => s = "running",
         t = "done" => s = "succeeded",
         t = "failed" => s \in {"failed", "timeout"} \/ errors'[picked[w]] > 0
  PROVE  HandlerRows' /\ DeadLetterExplained'
  <1> USE DEF ETypeOK
  <1>1. /\ picked[w] \in Job /\ status[picked[w]] = "running"
        /\ \A v \in Worker : phase[v] = "executing" /\ picked[v] = picked[w]
                             => v = w
    BY AloneOnJob
  <1>2. UNCHANGED <<status, phase, picked>>
    BY DEF vars, rowVars, workerVars
  <1>3. HandlerRows'
    <2>1. ASSUME NEW v \in Worker, v # w, phase[v] = "executing"
          PROVE  /\ picked[v] \in Job /\ picked[v] # picked[w]
                 /\ errors[picked[v]] > 0 => errors'[picked[v]] > 0
      BY <1>1, <2>1, AloneOnJob
    <2>2. ASSUME NEW v \in Worker, v # w, phase[v] = "executing"
          PROVE  exec'[picked[v]] = exec[picked[v]]
      BY <2>1, <2>2
    <2>3. stage'[w] = t /\ exec'[picked[w]] = s
      BY <1>1
    <2>4. \A v \in Worker : v # w => stage'[v] = stage[v]
      OBVIOUS
    <2>5. ASSUME NEW v \in Worker, v # w
          PROVE  /\ phase[v] # "executing" => stage'[v] = "entry"
                 /\ phase[v] = "executing" =>
                    /\ stage'[v] \in {"model", "recorded"} => exec'[picked[v]] = "running"
                    /\ stage'[v] = "done" => exec'[picked[v]] = "succeeded"
                    /\ stage'[v] = "failed" =>
                          exec'[picked[v]] \in {"failed", "timeout"} \/ errors'[picked[v]] > 0
                    /\ stage'[v] # "entry" => picked[v] \notin foreign
      BY <2>1, <2>2, <2>4, <2>5 DEF WorkInv, HandlerRows
    <2>6. QED
      BY <1>2, <2>3, <2>5 DEF HandlerRows
  <1>4. DeadLetterExplained'
    <2>1. ASSUME NEW j \in Job, status[j] = "dead_letter", errors'[j] = 0
          PROVE  errors[j] = 0 /\ exec'[j] = exec[j]
      BY <1>1, <2>1
    <2>2. QED
      BY <1>2, <2>1 DEF WorkInv, DeadLetterExplained
  <1>5. QED
    BY <1>3, <1>4

\* The bills: of one execution nothing worsens when the deaths and errors do not
\* get fewer and it stays paid, or when one more of them accounts for the bill.
LEMMA ChargesKept ==
  ASSUME ETypeOK, ChargesExplained, ETypeOK',
         \A j \in Job :
            /\ charged'[j] = charged[j]
            /\ \/ crashes' + errors'[j] >= crashes + errors[j] /\ (Paid(j) => Paid(j)')
               \/ crashes' + errors'[j] > crashes + errors[j]
  PROVE  ChargesExplained'
  <1> SUFFICES ASSUME NEW j \in Job
               PROVE  charged'[j] <= crashes' + errors'[j] + (IF Paid(j)' THEN 1 ELSE 0)
    BY DEF ChargesExplained
  <1>1. /\ charged[j] \in Nat /\ crashes \in Nat /\ crashes' \in Nat
        /\ errors[j] \in Nat /\ errors'[j] \in Nat
        /\ charged[j] <= crashes + errors[j] + (IF Paid(j) THEN 1 ELSE 0)
    BY DEF ETypeOK, TypeOK, ChargesExplained
  <1>2. QED
    BY <1>1

\* An error raises the count of its job, and of no other.
LEMMA ThrowsCounts ==
  ASSUME ETypeOK, NEW p \in Job, NEW n \in Nat, Throws(p, n)
  PROVE  /\ errors'[p] = errors[p] + n
         /\ \A j \in Job : j # p => errors'[j] = errors[j]
         /\ \A j \in Job : errors[j] \in Nat /\ errors'[j] >= errors[j]
  BY DEF Throws, ETypeOK

\* The steps of the handler before it returns.
LEMMA WorkGoesOn ==
  ASSUME ETypeOK, LockInv, WorkInv, ETypeOK', NEW w \in Worker,
         TaskStarts(w) \/ TaskRecords(w) \/ TaskSucceeds(w) \/ TaskFails(w)
  PROVE  WorkInv'
  <1> DEFINE p == picked[w]
  <1>0. /\ phase[w] = "executing" /\ UNCHANGED <<vars, foreign>>
    BY DEF TaskStarts, TaskRecords, TaskSucceeds, TaskFails, dispatchVars
  <1>1. /\ p \in Job /\ status[p] = "running"
        /\ \A v \in Worker : phase[v] = "executing" /\ picked[v] = p => v = w
    BY <1>0, AloneOnJob DEF ETypeOK
  <1>2. /\ UNCHANGED <<status, phase, picked, crashes>>
        /\ \A v \in Worker, j \in Job : Executing(v, j)' <=> Executing(v, j)
    BY <1>0 DEF vars, rowVars, workerVars, budgetVars, Executing
  <1>3. Executing(w, p) /\ \A v \in Worker : Executing(v, p) => v = w
    BY <1>0, <1>1 DEF Executing
  \* It had got past the agent's check, or does so now.
  <1>p. p \notin foreign
    BY <1>0 DEF TaskStarts, TaskRecords, TaskSucceeds, TaskFails, WorkInv,
                HandlerRows
  \* The bill of an execution that w does not run is as it was.
  <1>4. ASSUME NEW t \in {"model", "recorded", "done", "failed"},
               stage' = [stage EXCEPT ![w] = t],
               NEW j \in Job, j # p, exec'[j] = exec[j]
        PROVE  Paid(j) => Paid(j)'
    <2>1. \A v \in Worker : Executing(v, j) => v # w
      BY <1>4 DEF Executing
    <2>2. QED
      BY <1>2, <1>4, <2>1 DEF Paid, ETypeOK
  <1>5. /\ crashes \in Nat /\ crashes' = crashes /\ charged \in [Job -> Nat]
        /\ errors \in [Job -> Nat] /\ errors' \in [Job -> Nat]
    BY <1>2 DEF ETypeOK, TypeOK
  <1>e. ASSUME UNCHANGED errors PROVE \A j \in Job : errors'[j] >= errors[j]
    BY <1>5, <1>e
  <1>6. CASE TaskStarts(w)
    <2>1. /\ exec' = [exec EXCEPT ![p] = "running"]
          /\ stage' = [stage EXCEPT ![w] = "model"]
          /\ UNCHANGED charged /\ exec[p] # "succeeded" /\ stage[w] = "entry"
          /\ UNCHANGED errors
      BY <1>6 DEF TaskStarts, AlreadyFinished
    <2>2. HandlerRows' /\ DeadLetterExplained'
      BY <1>0, <1>e, <1>p, <2>1, HandlerMoves
    <2>3. ~Paid(p)
      BY <1>3, <2>1 DEF Paid
    <2>4. ASSUME NEW j \in Job PROVE Paid(j) => Paid(j)'
      <3>1. CASE j = p
        BY <2>3, <3>1
      <3>2. CASE j # p
        <4>1. exec'[j] = exec[j]
          BY <2>1, <3>2 DEF ETypeOK
        <4>2. QED
          BY <1>4, <2>1, <3>2, <4>1
      <3>3. QED
        BY <3>1, <3>2
    <2>5. ChargesExplained'
      BY <1>5, <2>1, <2>4, ChargesKept DEF WorkInv
    <2>6. QED
      BY <2>2, <2>5 DEF WorkInv
  <1>7. CASE TaskRecords(w)
    <2>1. /\ charged' = [charged EXCEPT ![p] = @ + 1]
          /\ stage' = [stage EXCEPT ![w] = "recorded"]
          /\ UNCHANGED exec /\ stage[w] = "model" /\ UNCHANGED errors
      BY <1>7 DEF TaskRecords
    <2>2. exec[p] = "running"
      BY <1>0, <2>1 DEF WorkInv, HandlerRows
    <2>3. exec' = [exec EXCEPT ![p] = "running"]
      BY <1>1, <2>1, <2>2 DEF ETypeOK
    <2>4. HandlerRows' /\ DeadLetterExplained'
      BY <1>0, <1>e, <1>p, <2>1, <2>3, HandlerMoves
    \* Before, each bill was down to a death or an error; w accounts for one more.
    <2>5. charged[p] <= crashes + errors[p]
      <3>1. ~Paid(p)
        BY <1>3, <2>1, <2>2 DEF Paid
      <3>2. QED
        BY <1>1, <1>5, <3>1 DEF WorkInv, ChargesExplained
    <2>6. \A j \in Job : j = p => Paid(j)'
      BY <1>2, <1>3, <2>1 DEF Paid, ETypeOK
    <2>7. charged'[p] <= crashes' + errors'[p] + 1
      BY <1>1, <1>5, <2>1, <2>5
    <2>8. ASSUME NEW j \in Job, j # p
          PROVE  charged'[j] <= crashes' + errors'[j] + (IF Paid(j)' THEN 1 ELSE 0)
      <3>1. Paid(j) => Paid(j)'
        BY <1>4, <2>1, <2>8
      <3>2. /\ charged'[j] = charged[j] /\ charged[j] \in Nat
            /\ errors'[j] = errors[j] /\ errors[j] \in Nat
        BY <1>5, <2>1, <2>8
      <3>3. charged[j] <= crashes + errors[j] + (IF Paid(j) THEN 1 ELSE 0)
        BY DEF WorkInv, ChargesExplained
      <3>4. QED
        BY <1>5, <3>1, <3>2, <3>3
    <2>9. ChargesExplained'
      BY <2>6, <2>7, <2>8 DEF ChargesExplained
    <2>10. QED
      BY <2>4, <2>9 DEF WorkInv
  <1>8. CASE TaskSucceeds(w)
    <2>1. /\ exec' = [exec EXCEPT ![p] = "succeeded"]
          /\ stage' = [stage EXCEPT ![w] = "done"]
          /\ UNCHANGED charged /\ UNCHANGED errors
      BY <1>8 DEF TaskSucceeds
    <2>2. HandlerRows' /\ DeadLetterExplained'
      BY <1>0, <1>e, <1>p, <2>1, HandlerMoves
    <2>3. ASSUME NEW j \in Job PROVE Paid(j) => Paid(j)'
      <3>1. CASE j = p
        BY <1>1, <2>1, <3>1 DEF Paid, ETypeOK
      <3>2. CASE j # p
        <4>1. exec'[j] = exec[j]
          BY <2>1, <3>2 DEF ETypeOK
        <4>2. QED
          BY <1>4, <2>1, <3>2, <4>1
      <3>3. QED
        BY <3>1, <3>2
    <2>4. ChargesExplained'
      BY <1>5, <2>1, <2>3, ChargesKept DEF WorkInv
    <2>5. QED
      BY <2>2, <2>4 DEF WorkInv
  <1>9. CASE TaskFails(w)
    <2>1. PICK n \in 0..2 :
             /\ Throws(p, n)
             /\ n = 0 => stage[w] = "model"
             /\ \/ \E s \in {"failed", "timeout"} : exec' = [exec EXCEPT ![p] = s]
                \/ UNCHANGED exec /\ n > 0
      BY <1>9 DEF TaskFails
    <2>2. /\ stage' = [stage EXCEPT ![w] = "failed"]
          /\ stage[w] \in {"model", "recorded", "done"} /\ UNCHANGED charged
      BY <1>9 DEF TaskFails
    <2>3. /\ errors'[p] = errors[p] + n /\ errors[p] \in Nat
          /\ \A j \in Job : errors'[j] >= errors[j]
      BY <1>1, <2>1, ThrowsCounts
    <2>4. exec[p] \in {"running", "succeeded"}
      BY <1>0, <2>2 DEF WorkInv, HandlerRows
    <2>5. PICK s \in {"running", "succeeded", "failed", "timeout"} :
             /\ exec' = [exec EXCEPT ![p] = s]
             /\ s \in {"failed", "timeout"} \/ n > 0
      <3>1. CASE UNCHANGED exec /\ n > 0
        <4>1. exec' = [exec EXCEPT ![p] = exec[p]]
          BY <1>1, <3>1 DEF ETypeOK
        <4>2. QED
          BY <2>4, <3>1, <4>1
      <3>2. CASE \E x \in {"failed", "timeout"} : exec' = [exec EXCEPT ![p] = x]
        BY <3>2
      <3>3. QED
        BY <2>1, <3>1, <3>2
    <2>6. HandlerRows' /\ DeadLetterExplained'
      <3>1. s \in {"failed", "timeout"} \/ errors'[p] > 0
        BY <2>3, <2>5
      <3>2. QED
        BY <1>0, <1>p, <2>2, <2>3, <2>5, <3>1, HandlerMoves
    \* What had been billed is no longer paid, but for an error that was thrown.
    <2>7. n = 0 => ~Paid(p)
      <3>1. n = 0 => stage[w] = "model" /\ exec[p] = "running"
        BY <1>0, <2>1 DEF WorkInv, HandlerRows
      <3>2. QED
        BY <1>3, <3>1 DEF Paid
    <2>8. ASSUME NEW j \in Job
          PROVE  /\ charged'[j] = charged[j]
                 /\ \/ /\ crashes' + errors'[j] >= crashes + errors[j]
                       /\ Paid(j) => Paid(j)'
                    \/ crashes' + errors'[j] > crashes + errors[j]
      <3>1. CASE j = p
        <4>1. charged'[p] = charged[p]
          BY <2>2
        <4>2. CASE n = 0
          <5>1. errors'[p] = errors[p] /\ ~Paid(p)
            BY <2>3, <2>7, <4>2
          <5>2. QED
            BY <1>5, <2>3, <3>1, <4>1, <5>1
        <4>3. CASE n > 0
          BY <1>5, <2>3, <3>1, <4>1, <4>3
        <4>4. QED
          BY <2>1, <4>2, <4>3
      <3>2. CASE j # p
        <4>1. exec'[j] = exec[j]
          BY <2>5, <3>2 DEF ETypeOK
        <4>2. Paid(j) => Paid(j)'
          BY <1>4, <2>2, <3>2, <4>1
        <4>3. errors'[j] >= errors[j] /\ errors[j] \in Nat /\ errors'[j] \in Nat
          BY <1>5, <2>3
        <4>4. QED
          BY <1>5, <2>2, <4>2, <4>3
      <3>3. QED
        BY <3>1, <3>2
    <2>9. ChargesExplained'
      BY <2>8, ChargesKept DEF WorkInv
    <2>10. QED
      BY <2>6, <2>9 DEF WorkInv
  <1>10. QED
    BY <1>6, <1>7, <1>8, <1>9

\* The steps in which worker w is done with its handler, or dies.
LEMMA WorkEndsWell ==
  ASSUME ETypeOK, LockInv, WorkInv, ETypeOK', NEW w \in Worker,
         TaskSkips(w) \/ TaskReturns(w) \/ TaskThrows(w) \/ WorkerDies(w)
  PROVE  WorkInv'
  <1> DEFINE p == picked[w]
  <1> USE DEF ETypeOK
  <1>1. /\ BackToIdle(w) /\ UNCHANGED <<exec, charged, foreign>>
        /\ stage' = [stage EXCEPT ![w] = "entry"]
    BY DEF TaskSkips, TaskReturns, TaskThrows, WorkerDies, HandlerSucceeds,
           HandlerFails, Crash, execVars, taskVars, dispatchVars
  <1>2. /\ \A v \in Worker : v # w =>
              /\ phase'[v] = phase[v] /\ picked'[v] = picked[v]
              /\ stage'[v] = stage[v]
        /\ phase'[w] = "idle" /\ stage'[w] = "entry"
    BY <1>1 DEF BackToIdle, TypeOK
  <1>e. \A j \in Job : /\ errors[j] \in Nat /\ errors'[j] \in Nat
                       /\ errors'[j] >= errors[j]
    <2>1. \A j \in Job : errors[j] \in Nat /\ errors'[j] \in Nat
      OBVIOUS
    <2>2. CASE UNCHANGED errors
      BY <2>1, <2>2
    <2>3. CASE p \in Job /\ Throws(p, 1)
      BY <2>1, <2>3, ThrowsCounts
    <2>4. p \in Job \/ UNCHANGED errors
      BY DEF TaskSkips, TaskReturns, TaskThrows, WorkerDies, TypeOK, execVars,
             taskVars
    <2>5. QED
      BY <2>2, <2>3, <2>4
      DEF TaskSkips, TaskReturns, TaskThrows, WorkerDies, execVars, taskVars
  <1>3. HandlerRows'
    <2>1. ASSUME NEW v \in Worker, v # w, phase[v] = "executing"
          PROVE  errors[picked[v]] > 0 => errors'[picked[v]] > 0
      BY <1>e, <2>1, AloneOnJob
    <2>2. QED
      BY <1>1, <1>2, <2>1 DEF WorkInv, HandlerRows
  <1>4. DeadLetterExplained'
    <2>0. \A j \in Job : errors'[j] = 0 => errors[j] = 0
      BY <1>e
    <2>1. CASE TaskThrows(w)
      <3>1. /\ p \in Job
            /\ exec[p] \in {"failed", "timeout"} \/ errors[p] > 0
            /\ phase[w] = "executing" /\ p \notin foreign
        BY <2>1 DEF TaskThrows, WorkInv, HandlerRows, TypeOK
      <3>2. p \in Job
        BY <3>1 DEF TypeOK
      <3>3. \A j \in Job : j # p => status'[j] = status[j]
        BY <2>1, <3>2 DEF TaskThrows, HandlerFails, TypeOK
      <3>4. errors'[p] = 0 => exec[p] \in {"failed", "timeout"}
        BY <2>0, <3>1, <3>2
      <3>5. QED
        BY <1>1, <2>0, <3>1, <3>3, <3>4 DEF WorkInv, DeadLetterExplained
    <2>2. CASE ~TaskThrows(w)
      <3>1. \A j \in Job : status'[j] = "dead_letter" => status[j] = "dead_letter"
        BY <2>2
        DEF TaskSkips, TaskReturns, WorkerDies, HandlerSucceeds, Crash,
            rowVars, TypeOK
      <3>2. QED
        BY <1>1, <2>0, <3>1 DEF WorkInv, DeadLetterExplained
    <2>3. QED
      BY <2>1, <2>2
  <1>5. ChargesExplained'
    <2>1. ASSUME NEW j \in Job, Paid(j), ~Paid(j)' PROVE WorkerDies(w)
      \* Only the worker that recorded the bill was accounting for it.
      <3>1. /\ exec[j] # "succeeded"
            /\ \E v \in Worker : Executing(v, j) /\ stage[v] = "recorded"
        BY <1>1, <2>1 DEF Paid
      <3>2. stage[w] = "recorded"
        BY <1>2, <2>1, <3>1 DEF Paid, Executing
      <3>3. QED
        BY <3>2 DEF TaskSkips, TaskReturns, TaskThrows
    <2>2. /\ WorkerDies(w) => crashes' = crashes + 1
          /\ ~WorkerDies(w) => crashes' = crashes
          /\ crashes \in Nat
      BY DEF TaskSkips, TaskReturns, TaskThrows, WorkerDies, HandlerSucceeds,
             HandlerFails, Crash, budgetVars, TypeOK
    <2>3. ASSUME NEW j \in Job
          PROVE  /\ charged'[j] = charged[j]
                 /\ \/ /\ crashes' + errors'[j] >= crashes + errors[j]
                       /\ Paid(j) => Paid(j)'
                    \/ crashes' + errors'[j] > crashes + errors[j]
      <3>1. errors[j] \in Nat /\ errors'[j] \in Nat /\ errors'[j] >= errors[j]
        BY <1>e
      <3>2. QED
        BY <1>1, <2>1, <2>2, <3>1
    <2>4. QED
      BY <2>3, ChargesKept DEF WorkInv
  <1>6. QED
    BY <1>3, <1>4, <1>5 DEF WorkInv

\* The steps in which the handler of w throws outside its try.
LEMMA WorkBreaks ==
  ASSUME ETypeOK, LockInv, WorkInv, ETypeOK', NEW w \in Worker,
         TaskNeverStarts(w) \/ TaskBreaks(w)
  PROVE  WorkInv'
  <1> DEFINE p == picked[w]
  <1> USE DEF ETypeOK
  <1>0. phase[w] = "executing"
    BY DEF TaskNeverStarts, TaskBreaks
  <1>1. /\ p \in Job /\ status[p] = "running"
        /\ \A v \in Worker : phase[v] = "executing" /\ picked[v] = p => v = w
    BY <1>0, AloneOnJob
  <1>2. /\ BackToIdle(w) /\ UNCHANGED <<charged, foreign, crashes>>
        /\ stage' = [stage EXCEPT ![w] = "entry"]
        /\ stage[w] # "recorded"
        /\ \A j \in Job : j # p => status'[j] = status[j]
    BY <1>1 DEF TaskNeverStarts, TaskBreaks, HandlerFails, dispatchVars,
                budgetVars, TypeOK
  <1>3. /\ \A v \in Worker : v # w =>
              /\ phase'[v] = phase[v] /\ picked'[v] = picked[v]
              /\ stage'[v] = stage[v]
        /\ phase'[w] = "idle" /\ stage'[w] = "entry"
    BY <1>2 DEF BackToIdle, TypeOK
  <1>4. /\ \A j \in Job : j # p => exec'[j] = exec[j]
        /\ exec'[p] = exec[p] \/ exec[p] # "succeeded"
    BY <1>1 DEF TaskNeverStarts, TaskBreaks, AlreadyFinished
  <1>5. /\ \A j \in Job : /\ errors[j] \in Nat /\ errors'[j] \in Nat
                          /\ errors'[j] >= errors[j]
        /\ errors'[p] = 0 => p \in foreign /\ exec'[p] = "running"
    <2>1. CASE UNCHANGED errors /\ p \in foreign /\ TaskNeverStarts(w)
      BY <1>1, <2>1 DEF TaskNeverStarts
    <2>2. CASE Throws(p, 1)
      BY <1>1, <2>2, ThrowsCounts
    <2>3. QED
      BY <2>1, <2>2 DEF TaskNeverStarts, TaskBreaks
  <1>6. HandlerRows'
    <2>1. ASSUME NEW v \in Worker, v # w, phase[v] = "executing"
          PROVE  /\ picked[v] \in Job /\ picked[v] # p
                 /\ errors[picked[v]] > 0 => errors'[picked[v]] > 0
                 /\ exec'[picked[v]] = exec[picked[v]]
      <3>1. picked[v] \in Job /\ picked[v] # p
        BY <1>1, <2>1, AloneOnJob
      <3>2. QED
        BY <1>4, <1>5, <3>1
    <2>2. QED
      BY <1>2, <1>3, <2>1 DEF WorkInv, HandlerRows
  <1>7. DeadLetterExplained'
    <2>1. ASSUME NEW j \in Job, j # p, status'[j] = "dead_letter", errors'[j] = 0
          PROVE  status[j] = "dead_letter" /\ errors[j] = 0 /\ exec'[j] = exec[j]
      BY <1>2, <1>4, <1>5, <2>1
    <2>2. QED
      BY <1>2, <1>5, <2>1 DEF WorkInv, DeadLetterExplained
  <1>8. ASSUME NEW j \in Job PROVE Paid(j) => Paid(j)'
    <2>1. CASE exec[j] = "succeeded"
      BY <1>4, <2>1 DEF Paid
    <2>2. ASSUME NEW v \in Worker, Executing(v, j), stage[v] = "recorded"
          PROVE  Paid(j)'
      <3>1. v # w
        BY <1>2, <2>2
      <3>2. QED
        BY <1>3, <2>2, <3>1 DEF Paid, Executing
    <2>3. QED
      BY <2>1, <2>2 DEF Paid
  <1>9. ChargesExplained'
    <2>1. ASSUME NEW j \in Job
          PROVE  /\ charged'[j] = charged[j]
                 /\ crashes' + errors'[j] >= crashes + errors[j]
                 /\ Paid(j) => Paid(j)'
      <3>1. /\ crashes \in Nat /\ crashes' = crashes
            /\ errors[j] \in Nat /\ errors'[j] \in Nat /\ errors'[j] >= errors[j]
        BY <1>2, <1>5 DEF TypeOK
      <3>2. crashes' + errors'[j] >= crashes + errors[j]
        BY <3>1
      <3>3. QED
        BY <1>2, <1>8, <3>2
    <2>2. QED
      BY <2>1, ChargesKept DEF WorkInv
  <1>10. QED
    BY <1>6, <1>7, <1>9 DEF WorkInv

\* A request that inserts an execution, or does anything else.
LEMMA WorkUnderDispatch ==
  ASSUME ETypeOK, DispatchInv, LockInv, WorkInv, ETypeOK', NEW r \in Request,
         \/ DispatchCheck(r) \/ DispatchPut(r) \/ DispatchInsert(r)
         \/ DispatchEnqueue(r) \/ DispatchDies(r)
  PROVE  WorkInv'
  <1> USE DEF ETypeOK
  <1>1. /\ UNCHANGED <<phase, picked, stage, charged, errors>>
        /\ crashes' = crashes \/ crashes' = crashes + 1
    BY DEF DispatchCheck, DispatchPut, DispatchInsert, DispatchEnqueue,
           DispatchDies, Enqueue, vars, workerVars, budgetVars, taskVars
  <1>2. \A j \in Job : status'[j] = "dead_letter" => status[j] = "dead_letter"
    <2>1. CASE DispatchEnqueue(r)
      BY <2>1 DEF DispatchEnqueue, Enqueue, TypeOK
    <2>2. CASE ~DispatchEnqueue(r)
      BY <2>2
      DEF DispatchCheck, DispatchPut, DispatchInsert, DispatchDies, vars,
          rowVars
    <2>3. QED
      BY <2>1, <2>2
  \* An execution is inserted once, before its job exists.
  <1>3. \A j \in Job : exec'[j] = exec[j] \/ exec[j] = "absent"
    <2>1. CASE DispatchInsert(r)
      BY <2>1 DEF DispatchInsert, DispatchInv, RequestRows
    <2>2. CASE ~DispatchInsert(r)
      BY <2>2
      DEF DispatchCheck, DispatchPut, DispatchEnqueue, DispatchDies
    <2>3. QED
      BY <2>1, <2>2
  <1>f. \A j \in Job : (j \in foreign' <=> j \in foreign) \/ exec[j] = "absent"
    <2>1. CASE DispatchInsert(r)
      <3>1. exec[req[r].id] = "absent"
        BY <2>1 DEF DispatchInsert, DispatchInv, RequestRows
      <3>2. foreign' = foreign \/ foreign' = foreign \cup {req[r].id}
        BY <2>1 DEF DispatchInsert
      <3>3. QED
        BY <3>1, <3>2
    <2>2. CASE ~DispatchInsert(r)
      BY <2>2
      DEF DispatchCheck, DispatchPut, DispatchEnqueue, DispatchDies
    <2>3. QED
      BY <2>1, <2>2
  <1>4. HandlerRows'
    <2>1. ASSUME NEW w \in Worker, phase[w] = "executing"
          PROVE  /\ exec'[picked[w]] = exec[picked[w]]
                 /\ picked[w] \in foreign' <=> picked[w] \in foreign
      <3>1. picked[w] \in Job /\ exec[picked[w]] # "absent"
        BY <2>1, AloneOnJob DEF DispatchInv, JobsHaveExecutions
      <3>2. QED
        BY <1>3, <1>f, <3>1
    <2>2. QED
      BY <1>1, <2>1 DEF WorkInv, HandlerRows
  <1>5. DeadLetterExplained'
    <2>1. ASSUME NEW j \in Job, status'[j] = "dead_letter"
          PROVE  /\ status[j] = "dead_letter" /\ exec'[j] = exec[j]
                 /\ j \in foreign' <=> j \in foreign
      <3>1. status[j] # "absent" /\ exec[j] # "absent"
        BY <1>2, <2>1 DEF DispatchInv, JobsHaveExecutions
      <3>2. QED
        BY <1>2, <1>3, <1>f, <2>1, <3>1
    <2>2. QED
      BY <1>1, <2>1 DEF WorkInv, DeadLetterExplained
  <1>6. ASSUME NEW j \in Job PROVE Paid(j) => Paid(j)'
    BY <1>1, <1>3 DEF Paid, Executing
  <1>7. \A j \in Job : crashes' + errors'[j] >= crashes + errors[j]
    <2>1. \A j \in Job : errors[j] \in Nat /\ errors'[j] = errors[j]
      BY <1>1
    <2>2. crashes \in Nat
      BY DEF TypeOK
    <2>3. QED
      BY <1>1, <2>1, <2>2
  <1>8. ChargesExplained'
    BY <1>1, <1>6, <1>7, ChargesKept DEF WorkInv
  <1>9. QED
    BY <1>4, <1>5, <1>8 DEF WorkInv

\* The queue's own steps start a handler at its entry and settle no job.
LEMMA WorkUnderQueue ==
  ASSUME ETypeOK, LockInv, WorkInv, ETypeOK', QueueStep \/ UNCHANGED eVars
  PROVE  WorkInv'
  <1> USE DEF ETypeOK
  <1>1. UNCHANGED <<exec, foreign, stage, charged, errors, crashes>>
    BY DEF QueueStep, eVars, execVars, taskVars, dispatchVars, vars, budgetVars, Tick,
           RetryDeadLetter, ClaimSelect, ClaimUpdate, ClaimLost, ReclaimStale
  <1>2. \A w \in Worker :
           \/ phase'[w] = phase[w] /\ picked'[w] = picked[w]
           \/ phase[w] # "executing" /\
              (phase'[w] # "executing" \/ picked'[w] = picked[w])
    BY DEF QueueStep, eVars, execVars, taskVars, vars, workerVars, Tick,
           RetryDeadLetter, ClaimSelect, ClaimUpdate, ClaimLost, ReclaimStale,
           TypeOK
  <1>3. \A j \in Job : status'[j] = "dead_letter" => status[j] = "dead_letter"
    <2>1. ASSUME NEW w \in Worker, ClaimUpdate(w)
          PROVE  \A j \in Job : status'[j] # "dead_letter" \/ status'[j] = status[j]
      BY <2>1 DEF ClaimUpdate, TypeOK
    <2>2. ASSUME NEW w \in Worker, ReclaimStale(w)
          PROVE  \A j \in Job : status'[j] # "dead_letter" \/ status'[j] = status[j]
      BY <2>2 DEF ReclaimStale, TypeOK
    <2>3. ASSUME NEW i \in Job, RetryDeadLetter(i)
          PROVE  \A j \in Job : status'[j] # "dead_letter" \/ status'[j] = status[j]
      BY <2>3 DEF RetryDeadLetter, TypeOK
    <2>4. QED
      BY <2>1, <2>2, <2>3
      DEF QueueStep, eVars, vars, rowVars, Tick, ClaimSelect, ClaimLost
  <1>4. HandlerRows'
    BY <1>1, <1>2 DEF WorkInv, HandlerRows
  <1>5. DeadLetterExplained'
    BY <1>1, <1>3 DEF WorkInv, DeadLetterExplained
  <1>6. ASSUME NEW j \in Job PROVE Paid(j) => Paid(j)'
    BY <1>1, <1>2 DEF Paid, Executing
  <1>7. \A j \in Job : crashes' + errors'[j] >= crashes + errors[j]
    <2>1. \A j \in Job : errors[j] \in Nat /\ errors'[j] = errors[j]
      BY <1>1
    <2>2. crashes \in Nat
      BY DEF TypeOK
    <2>3. QED
      BY <1>1, <2>1, <2>2
  <1>8. ChargesExplained'
    BY <1>1, <1>6, <1>7, ChargesKept DEF WorkInv
  <1>9. QED
    BY <1>4, <1>5, <1>8 DEF WorkInv

\* Every step keeps it.
LEMMA EStepWork ==
  ASSUME ETypeOK, DispatchInv, LockInv, WorkInv, ETypeOK', [ENext]_eVars
  PROVE  WorkInv'
  BY WorkGoesOn, WorkEndsWell, WorkBreaks, WorkUnderDispatch, WorkUnderQueue
     DEF ENext

\* With handlers shorter than the staleness limit: where a handler is agrees
\* with its execution's row, and every bill and every dead letter is explained.
THEOREM WorkInvariant ==
  ASSUME Timely PROVE ESpec => [](ETypeOK /\ DispatchInv /\ LockInv /\ WorkInv)
  <1>1. EInit => LockInv /\ WorkInv
    BY InitLock, EInitWork DEF EInit
  <1>2. QED
    BY <1>1, EStepQueue, EStepWork, DispatchRows, PTL DEF ESpec

\* With handlers shorter than the staleness limit, and up to database errors
\* that are counted, a dead letter left its execution failed or timed out, or
\* running when its agent is another organisation's; and an execution is billed
\* once, plus at most once for every death and every error, for any number of
\* replicas, requests and retries.
THEOREM WorkIsAccounted == ASSUME Timely PROVE ESpec => []WorkAccounted
  <1>1. ETypeOK /\ WorkInv => WorkAccounted
    <2> SUFFICES ASSUME ETypeOK, WorkInv, NEW j \in Job
                 PROVE  charged[j] <= 1 + crashes + errors[j]
      BY DEF WorkAccounted, WorkInv, BilledOnce
    <2>1. /\ charged[j] \in Nat /\ crashes \in Nat /\ errors[j] \in Nat
          /\ charged[j] <= crashes + errors[j] + (IF Paid(j) THEN 1 ELSE 0)
      BY DEF ETypeOK, TypeOK, WorkInv, ChargesExplained
    <2>2. QED
      BY <2>1
  <1>2. QED
    BY <1>1, WorkInvariant, PTL

-----------------------------------------------------------------------------
(* Success is final, for the execution as for its job.                     *)

\* Only the catch of the run that wrote it, after an error of the database, takes
\* back an execution that succeeded.
LEMMA EStepFinal ==
  ASSUME ETypeOK, DispatchInv, LockInv, WorkInv, [ENext]_eVars,
         NEW j \in Job, exec[j] = "succeeded", exec'[j] # "succeeded"
  PROVE  /\ errors'[j] > errors[j]
         /\ \E w \in Worker : /\ Executing(w, j) /\ stage[w] = "done"
                              /\ stage'[w] = "failed"
  <1> USE DEF ETypeOK
  <1>1. ASSUME NEW r \in Request, DispatchInsert(r) PROVE FALSE
    BY <1>1 DEF DispatchInsert, DispatchInv, RequestRows
  <1>2. ASSUME NEW w \in Worker, TaskStarts(w) \/ TaskNeverStarts(w) PROVE FALSE
    BY <1>2 DEF TaskStarts, TaskNeverStarts, AlreadyFinished
  <1>3. ASSUME NEW w \in Worker, TaskSucceeds(w) PROVE FALSE
    BY <1>3 DEF TaskSucceeds
  <1>4. ASSUME NEW w \in Worker, TaskFails(w)
        PROVE  /\ errors'[j] > errors[j]
               /\ Executing(w, j) /\ stage[w] = "done" /\ stage'[w] = "failed"
    <2>1. /\ phase[w] = "executing" /\ stage[w] \in {"model", "recorded", "done"}
          /\ stage' = [stage EXCEPT ![w] = "failed"]
          /\ \A i \in Job : i # picked[w] => exec'[i] = exec[i]
      BY <1>4 DEF TaskFails
    <2>2. j = picked[w]
      BY <2>1
    <2>3. stage[w] = "done"
      BY <2>1, <2>2 DEF WorkInv, HandlerRows
    <2>4. \E n \in 1..2 : Throws(j, n)
      BY <1>4, <2>2, <2>3 DEF TaskFails
    <2>5. errors'[j] > errors[j]
      <3>1. PICK n \in 1..2 : Throws(j, n)
        BY <2>4
      <3>2. errors'[j] = errors[j] + n /\ errors[j] \in Nat
        BY <3>1, ThrowsCounts
      <3>3. QED
        BY <3>2
    <2>6. QED
      BY <2>1, <2>2, <2>3, <2>5 DEF Executing
  <1>5. CASE UNCHANGED exec
    BY <1>5
  <1>6. QED
    BY <1>1, <1>2, <1>3, <1>4, <1>5
    DEF ENext, DispatchCheck, DispatchPut, DispatchEnqueue, DispatchDies,
        TaskSkips, TaskRecords, TaskReturns, TaskThrows, TaskBreaks, WorkerDies,
        QueueStep, execVars, eVars

\* With handlers shorter than the staleness limit, a success is taken back by no
\* retry, redelivery or replica, whichever process died before its job was
\* settled: only by the run that wrote it, for an error of the database.
THEOREM ExecutionFinal == ASSUME Timely PROVE ESpec => ExecutionSuccessFinal
  <1>1. ETypeOK /\ DispatchInv /\ LockInv /\ WorkInv /\ [ENext]_eVars =>
          [\A j \in Job : exec[j] = "succeeded" /\ exec'[j] # "succeeded" =>
             /\ errors'[j] > errors[j]
             /\ \E w \in Worker : /\ Executing(w, j) /\ stage[w] = "done"
                                  /\ stage'[w] = "failed"]_eVars
    BY EStepFinal
  <1>2. QED
    BY <1>1, WorkInvariant, PTL DEF ESpec, ExecutionSuccessFinal

-----------------------------------------------------------------------------
(* The composition still implements the abstract queue.                    *)

\* With handlers shorter than the staleness limit, the queue that executions
\* use, with their dispatching requests and handlers, implements the life
\* cycle of JobLifecycle.
THEOREM ExecutionImplementsLifecycle == ASSUME Timely PROVE ESpec => Lifecycle
  <1>1. ETypeOK /\ ETypeOK' /\ DispatchInv /\ LockInv /\ LockInv'
        /\ [ENext]_eVars => [LC!LCNext]_<<status, RunnerOf>>
    <2> SUFFICES ASSUME ETypeOK, ETypeOK', DispatchInv, LockInv, LockInv',
                        [ENext]_eVars
                 PROVE  [LC!LCNext]_<<status, RunnerOf>>
      OBVIOUS
    <2>1. TypeOK /\ TypeOK' /\ RequestRows
      BY DEF ETypeOK, DispatchInv
    <2>2. CASE [Next]_vars
      BY <2>1, <2>2, StepRefines
    <2>3. ASSUME NEW r \in Request, DispatchDies(r)
          PROVE  UNCHANGED <<status, RunnerOf>>
      BY <2>1, <2>3, DeathUnseen
    <2>4. QED
      BY <2>1, <2>2, <2>3, QueueSees
  <1>2. EInit => LC!LCInit
    BY InitRefines DEF EInit
  <1>3. QED
    BY <1>1, <1>2, WorkInvariant, PTL DEF ESpec, Lifecycle, LC!LCSpec, LC!lcVars
=============================================================================

---------------------------- MODULE JobLifecycle ----------------------------
(***************************************************************************)
(* What the persistent job queue promises, without leases, clocks or SQL:  *)
(* a job runs under at most one worker at a time, a job that succeeded is  *)
(* never touched again, and a job leaves the running state only because    *)
(* its own worker finished it or because that worker is gone.              *)
(* JobQueue implements this specification (see JobQueue!Lifecycle).        *)
(***************************************************************************)
CONSTANTS Job,      \* job identifiers
          Worker,   \* processes that poll the queue
          NoWorker  \* "nobody is running this job"

VARIABLES state,    \* life-cycle state of every job
          runner    \* the worker whose handler is executing the job

lcVars == <<state, runner>>

States == {"absent", "pending", "running", "succeeded", "dead_letter"}

LCTypeOK ==
    /\ state \in [Job -> States]
    /\ runner \in [Job -> Worker \cup {NoWorker}]

LCInit ==
    /\ state = [j \in Job |-> "absent"]
    /\ runner = [j \in Job |-> NoWorker]

Submit(j) ==
    /\ state[j] = "absent"
    /\ state' = [state EXCEPT ![j] = "pending"]
    /\ UNCHANGED runner

Start(j, w) ==
    /\ state[j] = "pending" /\ runner[j] = NoWorker
    /\ \A i \in Job : runner[i] # w
    /\ state' = [state EXCEPT ![j] = "running"]
    /\ runner' = [runner EXCEPT ![j] = w]

\* The runner finishes: done, to be retried, or given up.
Finish(j, s) ==
    /\ state[j] = "running" /\ runner[j] # NoWorker
    /\ s \in {"succeeded", "pending", "dead_letter"}
    /\ state' = [state EXCEPT ![j] = s]
    /\ runner' = [runner EXCEPT ![j] = NoWorker]

\* The runner dies; the job still reads "running".
Abandon(j) ==
    /\ state[j] = "running" /\ runner[j] # NoWorker
    /\ runner' = [runner EXCEPT ![j] = NoWorker]
    /\ UNCHANGED state

\* Abandoned jobs, several at once, go back to the queue.
Recover(J) ==
    /\ J # {}
    /\ \A j \in J : state[j] = "running" /\ runner[j] = NoWorker
    /\ state' = [j \in Job |-> IF j \in J THEN "pending" ELSE state[j]]
    /\ UNCHANGED runner

Requeue(j) ==
    /\ state[j] = "dead_letter"
    /\ state' = [state EXCEPT ![j] = "pending"]
    /\ UNCHANGED runner

LCNext ==
    \/ \E j \in Job : Submit(j) \/ Abandon(j) \/ Requeue(j)
    \/ \E j \in Job, w \in Worker : Start(j, w)
    \/ \E j \in Job, s \in States : Finish(j, s)
    \/ \E J \in SUBSET Job : Recover(J)

LCSpec == LCInit /\ [][LCNext]_lcVars
=============================================================================

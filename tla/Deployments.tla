----------------------------- MODULE Deployments -----------------------------
(***************************************************************************)
(* Deployments and their rollbacks (apps/control-plane/src/app.ts).  A     *)
(* deployment to production first uses up an approval; a rollback is a     *)
(* deployment of its own that points back at the one it undoes, inserted   *)
(* before that one is marked; success and failure are reported by callers, *)
(* at any time, and written without looking at the status.  The rows of    *)
(* deployment_events are a log that nothing reads back, and left out.      *)
(***************************************************************************)
EXTENDS Naturals, FiniteSets

CONSTANTS Deployment, NoDeployment,
          MaxGrants         \* bound: approvals of deploy:production

ASSUME DeploymentAssumption == NoDeployment \notin Deployment /\ MaxGrants \in Nat

VARIABLES
    depStatus,         \* deployments.status, "none" for no row
    environment,    \* deployments.environment
    rollbackOf,     \* deployments.rollback_of
    handler,        \* how far the request that makes the row is
    granted, used,  \* approvals of deploy:production given, and consumed
    reported        \* deployments reported on after they were rolled back

depVars == <<depStatus, environment, rollbackOf, handler, granted, used, reported>>

DeploymentsInit ==
    /\ depStatus = [d \in Deployment |-> "none"]
    /\ environment = [d \in Deployment |-> "none"]
    /\ rollbackOf = [d \in Deployment |-> NoDeployment]
    /\ handler = [d \in Deployment |-> "none"]
    /\ granted = 0 /\ used = 0 /\ reported = {}

InsertDeployment(d, env, original) ==
    /\ depStatus' = [depStatus EXCEPT ![d] = "deploying"]
    /\ environment' = [environment EXCEPT ![d] = env]
    /\ rollbackOf' = [rollbackOf EXCEPT ![d] = original]

\* A request makes a row of a fresh id.
NextFree(d) == handler[d] = "none" /\ d = CHOOSE x \in Deployment : handler[x] = "none"

\* Somebody approves (Approvals: an approval is consumed at most once).
Grant ==
    /\ granted < MaxGrants
    /\ granted' = granted + 1
    /\ UNCHANGED <<depStatus, environment, rollbackOf, handler, used, reported>>

\* assertApproved(): no live approval, no deployment.
AssertApproved(d) ==
    /\ NextFree(d) /\ used < granted
    /\ used' = used + 1
    /\ handler' = [handler EXCEPT ![d] = "approved"]
    /\ UNCHANGED <<depStatus, environment, rollbackOf, granted, reported>>

\* The row; development and staging come straight here.
StartDeployment(d, env) ==
    /\ IF env = "production" THEN handler[d] = "approved" ELSE NextFree(d)
    /\ InsertDeployment(d, env, NoDeployment)
    /\ handler' = [handler EXCEPT ![d] = "done"]
    /\ UNCHANGED <<granted, used, reported>>

\* POST .../rollback: the corrective row, in the environment of the original
\* and without an approval.
InsertRollback(d, original) ==
    /\ NextFree(d) /\ depStatus[original] # "none"
    /\ InsertDeployment(d, environment[original], original)
    /\ handler' = [handler EXCEPT ![d] = "marking"]
    /\ UNCHANGED <<granted, used, reported>>

\* Mutant: the corrective row is marked instead of the original.
Bug_MarkRolledBack(d) ==
    /\ handler[d] = "marking"
    /\ depStatus' = [depStatus EXCEPT ![d] = "rolled_back"]
    /\ handler' = [handler EXCEPT ![d] = "done"]
    /\ UNCHANGED <<environment, rollbackOf, granted, used, reported>>

MarkRolledBack(d) ==
    /\ handler[d] = "marking"
    /\ depStatus' = [depStatus EXCEPT ![rollbackOf[d]] = "rolled_back"]
    /\ handler' = [handler EXCEPT ![d] = "done"]
    /\ reported' = reported \ {rollbackOf[d]}
    /\ UNCHANGED <<environment, rollbackOf, granted, used>>

\* POST .../succeed and .../fail update by id alone.
Report(d, outcome) ==
    /\ depStatus[d] # "none"
    /\ depStatus' = [depStatus EXCEPT ![d] = outcome]
    /\ reported' = IF depStatus[d] = "rolled_back" THEN reported \cup {d} ELSE reported
    /\ UNCHANGED <<environment, rollbackOf, handler, granted, used>>

HandlerDies(d) ==
    /\ handler[d] \in {"approved", "marking"}
    /\ handler' = [handler EXCEPT ![d] = "died"]
    /\ UNCHANGED <<depStatus, environment, rollbackOf, granted, used, reported>>

DeploymentsNext ==
    \/ Grant
    \/ \E d \in Deployment :
        \/ AssertApproved(d) \/ MarkRolledBack(d) \/ HandlerDies(d)
        \/ \E env \in {"staging", "production"} : StartDeployment(d, env)
        \/ \E original \in Deployment : InsertRollback(d, original)
        \/ \E outcome \in {"succeeded", "failed"} : Report(d, outcome)

DeploymentsSpec == DeploymentsInit /\ [][DeploymentsNext]_depVars

-----------------------------------------------------------------------------
(* Properties.                                                             *)

DeploymentsTypeOK ==
    /\ depStatus \in [Deployment -> {"none", "deploying", "succeeded", "failed",
                                  "rolled_back"}]
    /\ environment \in [Deployment -> {"none", "staging", "production"}]
    /\ rollbackOf \in [Deployment -> Deployment \cup {NoDeployment}]
    /\ handler \in [Deployment -> {"none", "approved", "marking", "done",
                                   "died"}]
    /\ granted \in 0..MaxGrants /\ used \in 0..granted

\* Whatever is rolled back how often, each first deployment to production has
\* an approval of its own; and a deployment undone by another reads
\* rolled_back, unless the request that undoes it has not marked it yet or
\* died, or a report came in afterwards.
DeploymentsExplained ==
    /\ Cardinality({d \in Deployment : environment[d] = "production"
                                         /\ rollbackOf[d] = NoDeployment}) <= used
    /\ \A d \in Deployment : depStatus[d] = "rolled_back" =>
          \E r \in Deployment : rollbackOf[r] = d
    /\ \A r \in Deployment : rollbackOf[r] # NoDeployment =>
          \/ depStatus[rollbackOf[r]] = "rolled_back"
          \/ rollbackOf[r] \in reported
          \/ handler[r] \in {"marking", "died"}
=============================================================================

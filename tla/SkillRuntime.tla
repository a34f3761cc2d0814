----------------------------- MODULE SkillRuntime -----------------------------
(***************************************************************************)
(* One execution of a skill (packages/skills/src/runtime.ts, called by     *)
(* POST /skills/runtime/execute of app.ts): the gates, the attempts with   *)
(* their steps and the verification, the timeout of each, the escalation   *)
(* and the row written at the end.  A timeout gives up waiting; it does    *)
(* not stop what it waited for.                                            *)
(***************************************************************************)
EXTENDS Naturals, FiniteSets, Sequences

CONSTANTS NSteps,      \* steps of the procedure; NSteps + 1 is verify()
          Handlings    \* failureHandling contracts looked at

\* parseFailureHandling(): retry(maxAttempts=n), escalate(target=...) or fail.
ASSUME SkillAssumption ==
    /\ NSteps \in Nat
    /\ Handlings \subseteq [kind : {"retry", "escalate", "fail"},
                            maxAttempts : Nat \ {0}]
    /\ \A h \in Handlings : h.kind # "retry" => h.maxAttempts = 1

\* The gates in the order they are asked.
Gates == <<"tool_failed", "permission_denied", "budget_exceeded",
           "dependency_blocked", "precondition_failed">>
Retryable == {"instruction_failed", "timeout", "verification_failed"}
VERIFY == NSteps + 1

VARIABLES
    handling,    \* skill.failureHandling, parsed
    refusing,    \* gates that refuse this execution
    attempt,     \* the attempt under way; 0 before
    step,        \* what the attempt awaits; 0: nothing (asleep, or not running)
    strays,      \* what timed out and is still running: <<attempt, step>>
    held,        \* context: which attempt the output of each step comes from
    failure,     \* class of the last failure, or "none"
    result,      \* what execute() returned: "none", "ok", or the failure class
    escalated,   \* calls of the escalated() hook
    skillRow          \* skill_executions: "none", "success" or "failed"

skillVars == <<handling, refusing, attempt, step, strays, held, failure,
               result, escalated, skillRow>>

SkillInit ==
    /\ handling \in Handlings
    /\ \E G \in SUBSET {Gates[i] : i \in DOMAIN Gates} :
          Cardinality(G) <= 2 /\ refusing = G
    /\ attempt = 0 /\ step = 0 /\ strays = {} /\ escalated = 0
    /\ held = [i \in 1..NSteps |-> 0]
    /\ failure = "none" /\ result = "none" /\ skillRow = "none"

\* escalateFor() and escalationTargetFor(): only an escalate contract has one.
Escalates == handling.kind = "escalate"

Fail(class) ==
    /\ result' = class
    /\ escalated' = escalated + (IF Escalates THEN 1 ELSE 0)

FirstRefusal ==
    LET no == {i \in DOMAIN Gates : Gates[i] \in refusing}
    IN Gates[CHOOSE i \in no : \A j \in no : i <= j]

\* execute() up to its first await: the gates, or the first step is started.
ExecuteSkill ==
    /\ attempt = 0 /\ result = "none"
    /\ \/ /\ refusing # {}
          /\ Fail(FirstRefusal)
          /\ UNCHANGED <<attempt, step>>
       \/ /\ refusing = {}
          /\ attempt' = 1 /\ step' = 1
          /\ UNCHANGED <<result, escalated>>
    /\ UNCHANGED <<handling, refusing, strays, held, failure, skillRow>>

\* What a step returned is copied into the context, and the next is started.
StepDone ==
    /\ step \in 1..NSteps
    /\ held' = [held EXCEPT ![step] = attempt]
    /\ step' = step + 1
    /\ UNCHANGED <<handling, refusing, attempt, strays, failure, result,
                   escalated, skillRow>>

\* verify() says yes.
Verified ==
    /\ step = VERIFY
    /\ result' = "ok" /\ step' = 0
    /\ UNCHANGED <<handling, refusing, attempt, strays, held, failure,
                   escalated, skillRow>>

\* The attempt failed: another one, after a sleep, unless this was the last.
AttemptFails(class) ==
    /\ step' = 0
    /\ failure' = class
    /\ IF class \in Retryable /\ attempt < handling.maxAttempts
       THEN UNCHANGED <<result, escalated>>
       ELSE Fail(class)
    /\ UNCHANGED <<handling, refusing, attempt, held, skillRow>>

StepRaises ==
    /\ step # 0 /\ AttemptFails("instruction_failed") /\ UNCHANGED strays

NotVerified ==
    /\ step = VERIFY /\ AttemptFails("verification_failed") /\ UNCHANGED strays

\* withStepTimeout() rejects; the promise it raced goes on.
StepTimesOut ==
    /\ step # 0 /\ AttemptFails("timeout")
    /\ strays' = strays \cup {<<attempt, step>>}

\* It settles after all: nobody listens.
StrayEnds(s) ==
    /\ strays' = strays \ {s}
    /\ UNCHANGED <<handling, refusing, attempt, step, held, failure, result,
                   escalated, skillRow>>

\* Mutant: the attempt resumes after the outputs there are already.
Bug_NextAttempt ==
    /\ attempt > 0 /\ step = 0 /\ result = "none"
    /\ attempt' = attempt + 1
    /\ step' = 1 + Cardinality({i \in 1..NSteps : held[i] > 0})
    /\ failure' = "none"
    /\ UNCHANGED <<handling, refusing, strays, held, result, escalated, skillRow>>

\* The sleep between two attempts is over.  The context is not reset.
NextAttempt ==
    /\ attempt > 0 /\ step = 0 /\ result = "none"
    /\ attempt' = attempt + 1 /\ step' = 1
    /\ failure' = "none"
    /\ UNCHANGED <<handling, refusing, strays, held, result, escalated, skillRow>>

\* The route writes what came of it.
RecordSkill ==
    /\ result # "none" /\ skillRow = "none"
    /\ skillRow' = IF result = "ok" THEN "success" ELSE "failed"
    /\ UNCHANGED <<handling, refusing, attempt, step, strays, held, failure,
                   result, escalated>>

SkillNext ==
    \/ ExecuteSkill \/ StepDone \/ Verified \/ StepRaises \/ NotVerified
    \/ StepTimesOut \/ NextAttempt \/ RecordSkill
    \/ \E s \in strays : StrayEnds(s)

SkillSpec == SkillInit /\ [][SkillNext]_skillVars

-----------------------------------------------------------------------------
(* Properties.                                                             *)

SkillTypeOK ==
    /\ handling \in Handlings
    /\ attempt \in 0..handling.maxAttempts /\ step \in 0..VERIFY
    /\ strays \subseteq (1..attempt) \X (1..VERIFY)
    /\ held \in [1..NSteps -> 0..attempt]
    /\ escalated \in 0..1
    /\ skillRow \in {"none", "success", "failed"}

\* A success is one attempt's work: no gate refused, every output in the
\* context is that attempt's own (nothing a timed out step of an earlier one
\* came up with late), and it was verified.  A refusal by a gate is final: no
\* step ran.  At most one step of each earlier attempt is still running beside
\* the current one, and a failure is escalated once, if the contract says so.
SuccessIsOneAttempt ==
    /\ result = "ok" =>
          /\ refusing = {} /\ escalated = 0
          /\ \A i \in 1..NSteps : held[i] = attempt
    /\ result \in refusing => attempt = 0
    /\ \A s, t \in strays : s[1] = t[1] => s = t
    /\ step # 0 => \A s \in strays : s[1] < attempt
    /\ result \notin {"none", "ok"} => escalated = (IF Escalates THEN 1 ELSE 0)
    /\ skillRow = "success" => result = "ok"
=============================================================================

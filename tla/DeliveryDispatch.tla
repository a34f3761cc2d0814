--------------------------- MODULE DeliveryDispatch ---------------------------
(***************************************************************************)
(* POST /delivery/runs (apps/control-plane/src/app.ts): dispatch under an  *)
(* idempotency key that is stored, with the answer, before there is an     *)
(* agent, an execution or a job.                                           *)
(***************************************************************************)
EXTENDS Naturals, FiniteSets

CONSTANTS Submission, Key, NoKey, NoRun

ASSUME DispatchAssumption == NoKey \notin Key /\ NoRun \notin Submission

VARIABLES
    engineer,     \* an ENGINEERING agent exists in the organisation
    ask,        \* per request: how far it is, and its key
    keyOf,      \* idempotency_keys: the execution a key answers with
    runs,       \* executions, each named after the request that made it
    queued,     \* those with a deliver_task job
    answer      \* per request: the execution it was answered

dispVars == <<engineer, ask, keyOf, runs, queued, answer>>

DispatchInit ==
    /\ engineer \in BOOLEAN
    /\ ask = [r \in Submission |-> [pc |-> "new", key |-> NoKey]]
    /\ keyOf = [k \in Key |-> NoRun]
    /\ runs = {} /\ queued = {}
    /\ answer = [r \in Submission |-> NoRun]

Step(r, from, to) == ask[r].pc = from /\ ask' = [ask EXCEPT ![r].pc = to]
AnswerWith(r, run) ==
    /\ ask' = [ask EXCEPT ![r].pc = "answered"]
    /\ answer' = [answer EXCEPT ![r] = run]

\* A key that is known is answered as it was; a request without one goes on.
LookUpKey(r, k) ==
    /\ ask[r].pc = "new"
    /\ IF k # NoKey /\ keyOf[k] # NoRun
       THEN /\ ask' = [ask EXCEPT ![r] = [pc |-> "answered", key |-> k]]
            /\ answer' = [answer EXCEPT ![r] = keyOf[k]]
       ELSE /\ ask' = [ask EXCEPT ![r] = [pc |-> IF k = NoKey THEN "agent" ELSE "put",
                                          key |-> k]]
            /\ UNCHANGED answer
    /\ UNCHANGED <<engineer, keyOf, runs, queued>>

\* Mutant: the key is stored over the one that came first.
Bug_PutKey(r) ==
    /\ ask[r].pc = "put"
    /\ keyOf' = [keyOf EXCEPT ![ask[r].key] = r]
    /\ ask' = [ask EXCEPT ![r].pc = "agent"]
    /\ UNCHANGED <<engineer, runs, queued, answer>>

\* atomicIdempotencyPut(): the loser answers with the winner's execution.
PutKey(r) ==
    /\ ask[r].pc = "put"
    /\ IF keyOf[ask[r].key] = NoRun
       THEN /\ keyOf' = [keyOf EXCEPT ![ask[r].key] = r]
            /\ ask' = [ask EXCEPT ![r].pc = "agent"]
            /\ UNCHANGED answer
       ELSE AnswerWith(r, keyOf[ask[r].key]) /\ UNCHANGED keyOf
    /\ UNCHANGED <<engineer, runs, queued>>

\* The agent named, or any engineer; without one the request fails, and its
\* key stays.
ResolveAgent(r) ==
    /\ Step(r, "agent", IF engineer THEN "insert" ELSE "failed")
    /\ UNCHANGED <<engineer, keyOf, runs, queued, answer>>

InsertRun(r) ==
    /\ Step(r, "insert", "enqueue")
    /\ runs' = runs \cup {r}
    /\ UNCHANGED <<engineer, keyOf, queued, answer>>

EnqueueRun(r) ==
    /\ ask[r].pc = "enqueue"
    /\ queued' = queued \cup {r}
    /\ AnswerWith(r, r)
    /\ UNCHANGED <<engineer, keyOf, runs>>

DispatcherDies(r) ==
    /\ ask[r].pc \in {"put", "agent", "insert", "enqueue"}
    /\ ask' = [ask EXCEPT ![r].pc = "died"]
    /\ UNCHANGED <<engineer, keyOf, runs, queued, answer>>

DispatchNext ==
    \E r \in Submission :
        \/ \E k \in Key \cup {NoKey} : LookUpKey(r, k)
        \/ PutKey(r) \/ ResolveAgent(r) \/ InsertRun(r) \/ EnqueueRun(r) \/ DispatcherDies(r)

DispatchSpec == DispatchInit /\ [][DispatchNext]_dispVars

-----------------------------------------------------------------------------
(* Properties.                                                             *)

DispatchTypeOK ==
    /\ keyOf \in [Key -> Submission \cup {NoRun}]
    /\ runs \subseteq Submission /\ queued \subseteq runs
    /\ answer \in [Submission -> Submission \cup {NoRun}]

\* Requests with the same key are all answered the same execution, and start
\* at most one; an answer names an execution that runs, or one whose own
\* request is still making it, died over it, or found no agent for it.
AnswersAgree ==
    /\ \A r, q \in Submission : ask[r].key = ask[q].key /\ ask[r].key # NoKey =>
          /\ {answer[r], answer[q]} \subseteq {keyOf[ask[r].key], NoRun}
          /\ {r, q} \subseteq runs => r = q
    /\ \A r \in Submission : answer[r] # NoRun =>
          answer[r] \in queued \/ ask[answer[r]].pc \notin {"new", "answered"}
=============================================================================

----------------------------- MODULE Approvals ------------------------------
(***************************************************************************)
(* Human approval gates: packages/security/src/approvals.ts, the expiry    *)
(* sweeper of apps/control-plane/src/sweeper.ts, and the one consumer, a   *)
(* production deployment (POST /deployments in app.ts).                    *)
(*                                                                         *)
(* All rows here ask for the same action on the same resource: the gate    *)
(* never compares rows of different resources.  A replica is a control     *)
(* plane process; each operation is synchronous, so a replica is busy with *)
(* one operation at a time and its SQL statements interleave only with     *)
(* those of other replicas.  With one replica every operation is atomic.   *)
(***************************************************************************)
EXTENDS Integers, FiniteSets

CONSTANTS Approval,   \* rows of the approvals table
          Replica,    \* control-plane processes
          NoApproval,
          Ttls,       \* requested times to live
          MaxTime,    \* bound: the clock stops here
          MaxCrashes  \* bound: process deaths in a behaviour

ASSUME ApprovalAssumption ==
    /\ NoApproval \notin Approval
    /\ Ttls \subseteq Nat
    /\ MaxTime \in Nat /\ MaxCrashes \in Nat

VARIABLES
    now,
    \* columns of the approvals table
    decision, createdAt, expiresAt, consumed,
    \* what each replica is in the middle of
    op,
    \* history: answers given to deciders, uses of a grant, deployments made
    answers, uses, deployments,
    crashes

rowVars == <<decision, createdAt, expiresAt, consumed>>
histVars == <<answers, uses, deployments>>
vars == <<now, rowVars, op, histVars, crashes>>

Decisions == {"absent", "pending", "approved", "rejected", "expired"}
Verdicts == {"approved", "rejected"}

\* An operation between two of its statements: the row it works on, the value
\* it will write, and the rows a sweep still has to update.
Ops == [kind : {"none", "decide", "consume", "deploy", "sweepPending",
                "sweepApproved"},
        row : Approval \cup {NoApproval},
        write : {"none", "approved", "rejected", "expired"},
        rows : SUBSET Approval,
        at : Nat]
NoOp == [kind |-> "none", row |-> NoApproval, write |-> "none", rows |-> {},
         at |-> 0]

TypeOK ==
    /\ now \in Nat
    /\ decision \in [Approval -> Decisions]
    /\ createdAt \in [Approval -> Nat]
    /\ expiresAt \in [Approval -> Nat]
    /\ consumed \in [Approval -> BOOLEAN]
    /\ op \in [Replica -> Ops]
    /\ answers \in [Approval -> SUBSET (Replica \X Verdicts)]
    /\ uses \in [Approval -> Nat]
    /\ deployments \in [Approval -> Nat]
    /\ crashes \in Nat

Init ==
    /\ now = 0
    /\ decision = [a \in Approval |-> "absent"]
    /\ createdAt = [a \in Approval |-> 0]
    /\ expiresAt = [a \in Approval |-> 0]
    /\ consumed = [a \in Approval |-> FALSE]
    /\ op = [p \in Replica |-> NoOp]
    /\ answers = [a \in Approval |-> {}]
    /\ uses = [a \in Approval |-> 0]
    /\ deployments = [a \in Approval |-> 0]
    /\ crashes = 0

Free(p) == op[p] = NoOp
Begin(p, kind, a, write) ==
    op' = [op EXCEPT ![p] = [kind |-> kind, row |-> a, write |-> write,
                             rows |-> {}, at |-> 0]]
BeginSweep(p, kind, rows, at) ==
    op' = [op EXCEPT ![p] = [kind |-> kind, row |-> NoApproval, write |-> "none",
                             rows |-> rows, at |-> at]]
End(p) == op' = [op EXCEPT ![p] = NoOp]

Tick ==
    /\ now < MaxTime
    /\ now' = now + 1
    /\ UNCHANGED <<rowVars, op, histVars, crashes>>

\* newId(): any identifier that no row has is as good as another.
Fresh(a) == a = CHOOSE b \in Approval : decision[b] = "absent"

\* request(): the requester chooses the time to live, zero included.
RequestApproval(p, a) ==
    /\ Free(p)
    /\ decision[a] = "absent" /\ Fresh(a)
    /\ decision' = [decision EXCEPT ![a] = "pending"]
    /\ createdAt' = [createdAt EXCEPT ![a] = now]
    /\ \E ttl \in Ttls : expiresAt' = [expiresAt EXCEPT ![a] = now + ttl]
    /\ UNCHANGED <<now, consumed, op, histVars, crashes>>

-----------------------------------------------------------------------------
(* decide().                                                               *)

\* Mutant: decided rows can be decided again.
Bug_Undecided(a) == decision[a] # "absent"
\* Row already decided: CONFLICT.
Undecided(a) == decision[a] = "pending"

\* The SELECT and the checks: what the second statement will write.
DecideRead(p, a, verdict) ==
    /\ Free(p)
    /\ Undecided(a)
    /\ Begin(p, "decide", a, IF expiresAt[a] < now THEN "expired" ELSE verdict)
    /\ UNCHANGED <<now, rowVars, histVars, crashes>>

\* Mutant: the word of the request body is stored as it came.
Bug_DecideWrite(p) ==
    /\ op[p].kind = "decide"
    /\ decision' = [decision EXCEPT ![op[p].row] = "approve"]
    /\ End(p)
    /\ UNCHANGED <<now, createdAt, expiresAt, consumed, histVars, crashes>>
\* updateById(): unconditional.  Only a verdict is answered with success.
DecideWrite(p) ==
    LET a == op[p].row  v == op[p].write IN
    /\ op[p].kind = "decide"
    /\ decision' = [decision EXCEPT ![a] = v]
    /\ answers' = [answers EXCEPT ![a] = @ \cup ({p} \X ({v} \cap Verdicts))]
    /\ End(p)
    /\ UNCHANGED <<now, createdAt, expiresAt, consumed, uses, deployments,
                   crashes>>

-----------------------------------------------------------------------------
(* assertApproved() and the deployment it protects.                        *)

\* Mutant: the gate also sees requests nobody decided.
Bug_Candidates == {a \in Approval : decision[a] \in {"pending", "approved"}}
Candidates == {a \in Approval : decision[a] = "approved"}

\* ORDER BY created_at DESC LIMIT 1
Newest == {a \in Candidates : \A b \in Candidates : createdAt[b] <= createdAt[a]}

\* row.expires_at <= now
Lapsed(a) == expiresAt[a] <= now

\* The SELECT and the refusals, which change nothing.
GateRead(p) ==
    /\ Free(p)
    /\ \E a \in Newest :
         /\ ~Lapsed(a) /\ ~consumed[a]
         /\ Begin(p, "consume", a, "none")
    /\ UNCHANGED <<now, rowVars, histVars, crashes>>

\* Mutant: the UPDATE is not conditional.
Bug_Consumable(a) == TRUE
\* WHERE id = ? AND consumed_at IS NULL
Consumable(a) == ~consumed[a]

GateConsume(p) ==
    LET a == op[p].row IN
    /\ op[p].kind = "consume"
    /\ IF Consumable(a)
       THEN /\ consumed' = [consumed EXCEPT ![a] = TRUE]
            /\ uses' = [uses EXCEPT ![a] = @ + 1]
            /\ Begin(p, "deploy", a, "none")
       ELSE /\ End(p)
            /\ UNCHANGED <<consumed, uses>>
    /\ UNCHANGED <<now, decision, createdAt, expiresAt, answers, deployments,
                   crashes>>

\* INSERT INTO deployments; it fails when the project does not exist.
Deploy(p) ==
    LET a == op[p].row IN
    /\ op[p].kind = "deploy"
    /\ \/ deployments' = [deployments EXCEPT ![a] = @ + 1]
       \/ UNCHANGED deployments
    /\ End(p)
    /\ UNCHANGED <<now, rowVars, answers, uses, crashes>>

-----------------------------------------------------------------------------
(* sweepExpiredApprovals(): two passes, each a SELECT followed by one       *)
(* conditional UPDATE per row.                                              *)

SweepRead(p) ==
    /\ Free(p)
    /\ BeginSweep(p, "sweepPending",
           {a \in Approval : decision[a] = "pending" /\ expiresAt[a] < now}, now)
    /\ UNCHANGED <<now, rowVars, histVars, crashes>>

StillPending(a) == decision[a] = "pending"

\* Mutant: a row is passed over.
Bug_SweepKeepsRow(p, a) ==
    /\ op[p].kind = "sweepPending" /\ a \in op[p].rows
    /\ BeginSweep(p, op[p].kind, op[p].rows \ {a}, op[p].at)
    /\ UNCHANGED <<now, rowVars, histVars, crashes>>
SweepPendingRow(p, a) ==
    /\ op[p].kind = "sweepPending" /\ a \in op[p].rows
    /\ decision' = IF StillPending(a) THEN [decision EXCEPT ![a] = "expired"]
                                      ELSE decision
    /\ BeginSweep(p, op[p].kind, op[p].rows \ {a}, op[p].at)
    /\ UNCHANGED <<now, createdAt, expiresAt, consumed, histVars, crashes>>

\* The first pass is done; the second one selects its rows by the same time.
SweepSecondRead(p) ==
    /\ op[p].kind = "sweepPending" /\ op[p].rows = {}
    /\ BeginSweep(p, "sweepApproved",
           {a \in Approval : /\ decision[a] = "approved" /\ ~consumed[a]
                             /\ expiresAt[a] < op[p].at}, op[p].at)
    /\ UNCHANGED <<now, rowVars, histVars, crashes>>

\* Mutant: the UPDATE of the second pass forgets "consumed_at IS NULL".
Bug_StillUnused(a) == decision[a] = "approved"
StillUnused(a) == decision[a] = "approved" /\ ~consumed[a]

SweepApprovedRow(p, a) ==
    /\ op[p].kind = "sweepApproved" /\ a \in op[p].rows
    /\ IF StillUnused(a)
       THEN /\ decision' = [decision EXCEPT ![a] = "expired"]
            /\ consumed' = [consumed EXCEPT ![a] = TRUE]
       ELSE UNCHANGED <<decision, consumed>>
    /\ BeginSweep(p, op[p].kind, op[p].rows \ {a}, op[p].at)
    /\ UNCHANGED <<now, createdAt, expiresAt, histVars, crashes>>

SweepDone(p) ==
    /\ op[p].kind = "sweepApproved" /\ op[p].rows = {}
    /\ End(p)
    /\ UNCHANGED <<now, rowVars, histVars, crashes>>

-----------------------------------------------------------------------------
\* A replica dies between two statements and is restarted.
Crash(p) ==
    /\ crashes < MaxCrashes
    /\ ~Free(p)
    /\ End(p)
    /\ crashes' = crashes + 1
    /\ UNCHANGED <<now, rowVars, histVars>>

SweepStep(p) ==
    \/ SweepSecondRead(p) \/ SweepDone(p)
    \/ \E a \in Approval : SweepPendingRow(p, a) \/ SweepApprovedRow(p, a)

Next ==
    \/ Tick
    \/ \E p \in Replica :
          \/ \E a \in Approval :
                \/ RequestApproval(p, a)
                \/ \E v \in Verdicts : DecideRead(p, a, v)
                \/ SweepPendingRow(p, a) \/ SweepApprovedRow(p, a)
          \/ DecideWrite(p)
          \/ GateRead(p) \/ GateConsume(p) \/ Deploy(p)
          \/ SweepRead(p) \/ SweepSecondRead(p) \/ SweepDone(p)
          \/ Crash(p)

\* The interval timer keeps sweeping and an operation that began finishes.
\* Operators, requesters and deployers owe nothing.
Fairness ==
    /\ WF_vars(Tick)
    /\ \A p \in Replica :
          /\ SF_vars(SweepRead(p))
          /\ WF_vars(DecideWrite(p) \/ GateConsume(p) \/ Deploy(p) \/ SweepStep(p))

Spec == Init /\ [][Next]_vars
FairSpec == Spec /\ Fairness

-----------------------------------------------------------------------------
(* Properties.                                                             *)

\* A grant authorises at most one action, however many replicas read it as
\* unconsumed before one of them consumes it.
SingleUse == \A a \in Approval : deployments[a] <= uses[a] /\ uses[a] <= 1

Approved(a) == \E p \in Replica : <<p, "approved">> \in answers[a]

\* What the gate let through was approved by a decider at some time, although
\* the gate reads the row in one statement and consumes it in another.
UsedWasApproved ==
    \A a \in Approval : uses[a] > 0 => Approved(a)

\* A row that authorised an action is never shown as expired: neither the
\* sweeper nor a late decider rewrites it from a stale read.
UsedNotExpired == \A a \in Approval : uses[a] > 0 => decision[a] # "expired"

\* A replica confirms one verdict per request, however the other replicas
\* decide, expire or sweep the row in between.
OneVerdictPerReplica ==
    \A a \in Approval, p \in Replica :
        Cardinality({v \in Verdicts : <<p, v>> \in answers[a]}) <= 1

\* A row tells the truth about its grant: it authorised only what a decider
\* had approved, is never shown as expired after that, and no replica confirms
\* two verdicts on it, although reads and writes of the gate, the deciders and
\* the sweeper are statements that others come between.
GrantSound == UsedWasApproved /\ UsedNotExpired /\ OneVerdictPerReplica

\* What the documents claim of the whole system: of two racing decisions one
\* is refused.  The code keeps it inside one replica only.
OneVerdict == \A a \in Approval : Cardinality(answers[a]) <= 1

\* Nothing waits for a human forever: a request past its time to live is
\* decided or expired, although sweeps are cut short by process deaths.
PendingEnds ==
    \A a \in Approval :
        (decision[a] = "pending" /\ expiresAt[a] < MaxTime) ~> (decision[a] # "pending")

\* The inductive strengthening of the three invariants above.
Working(p, kind, a) == op[p].kind = kind /\ op[p].row = a
Consuming(a) == \E p \in Replica : Working(p, "consume", a)
\* Somebody read the row as pending and past its time.
Expiring(a) == \E p \in Replica : Working(p, "decide", a) /\ op[p].write = "expired"

RowInv ==
    \A p \in Replica :
        /\ op[p].kind \in {"decide", "consume", "deploy"} => op[p].row \in Approval
        /\ op[p].kind = "decide" => op[p].write # "none"
UseInv == \A a \in Approval : uses[a] <= 1 /\ (uses[a] = 1 => consumed[a])
DeployInv ==
    /\ \A a \in Approval : deployments[a] <= uses[a]
    /\ \A p \in Replica, a \in Approval :
         Working(p, "deploy", a) => uses[a] = 1 /\ deployments[a] = 0
    /\ \A p, q \in Replica, a \in Approval :
         Working(p, "deploy", a) /\ Working(q, "deploy", a) => p = q
AnswerInv ==
    /\ UsedWasApproved
    /\ \A a \in Approval :
         decision[a] = "approved" \/ Consuming(a) => Approved(a)
\* p confirmed v to a decider of a.
Answered(p, a, v) == <<p, v>> \in answers[a]
VerdictInv ==
    /\ \A p \in Replica, a \in Approval, v \in Verdicts :
         Answered(p, a, v) => decision[a] \notin {"absent", "pending"}
    /\ \A p \in Replica, a \in Approval, v \in Verdicts :
         Working(p, "decide", a) => ~Answered(p, a, v) /\ decision[a] # "absent"
    /\ \A p \in Replica, a \in Approval, v, w \in Verdicts :
         Answered(p, a, v) /\ Answered(p, a, w) => v = w
ExpiryInv ==
    \A a \in Approval :
        /\ decision[a] \in {"absent", "pending"} => uses[a] = 0 /\ ~Consuming(a)
        /\ Expiring(a) => expiresAt[a] < now /\ uses[a] = 0 /\ ~Consuming(a)
                         /\ decision[a] # "absent"
        /\ decision[a] = "expired" => uses[a] = 0 /\ (consumed[a] \/ ~Consuming(a))
GrantInv == RowInv /\ UseInv /\ DeployInv /\ AnswerInv /\ VerdictInv /\ ExpiryInv
=============================================================================

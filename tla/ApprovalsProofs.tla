-------------------------- MODULE ApprovalsProofs ---------------------------
(***************************************************************************)
(* What Approvals promises for any number of rows, replicas and crashes.   *)
(* The single-use guarantee rests on the conditional UPDATE of the gate;   *)
(* that a used grant is never rewritten as expired rests on the three      *)
(* comparisons with the clock being the same way round: whoever read a row *)
(* as past its time did so when the gate could no longer begin to use it.  *)
(***************************************************************************)
EXTENDS Approvals, FiniteSetTheorems, TLAPS

\* Every step keeps the type invariant.
LEMMA StepTypeOK ==
    TypeOK /\ RowInv /\ [Next]_vars => TypeOK'
<1> SUFFICES ASSUME TypeOK, RowInv, [Next]_vars
             PROVE  TypeOK'
    OBVIOUS
<1> USE ApprovalAssumption
<1>1. CASE Tick
    BY <1>1 DEF Tick, rowVars, histVars, TypeOK, RowInv, Ops, Decisions,
       Verdicts
<1>2. ASSUME NEW p \in Replica, NEW a \in Approval, RequestApproval(p, a)
     PROVE  TypeOK'
    BY <1>2 DEF RequestApproval, Free, NoOp, rowVars, histVars, TypeOK,
       RowInv, Ops, Decisions, Verdicts
<1>3. ASSUME NEW p \in Replica, NEW a \in Approval, NEW v \in Verdicts,
            DecideRead(p, a, v)
     PROVE  TypeOK'
    BY <1>3 DEF DecideRead, Undecided, Begin, Free, NoOp, rowVars, histVars,
       TypeOK, RowInv, Ops, Decisions, Verdicts
<1>4. ASSUME NEW p \in Replica, DecideWrite(p)
     PROVE  TypeOK'
    BY <1>4 DEF DecideWrite, End, NoOp, rowVars, histVars, TypeOK, RowInv,
       Ops, Decisions, Verdicts
<1>5. ASSUME NEW p \in Replica, GateRead(p)
     PROVE  TypeOK'
    BY <1>5 DEF GateRead, Newest, Candidates, Lapsed, Begin, Free, NoOp,
       rowVars, histVars, TypeOK, RowInv, Ops, Decisions, Verdicts
<1>6. ASSUME NEW p \in Replica, GateConsume(p)
     PROVE  TypeOK'
    <2>1. PICK a \in Approval : op[p].row = a /\ op[p].kind = "consume"
        BY <1>6 DEF GateConsume, RowInv
    <2>2. CASE consumed[a]
        <3>1. op' = [op EXCEPT ![p] = NoOp] /\ UNCHANGED <<consumed, uses>>
            BY <1>6, <2>1, <2>2 DEF GateConsume, Consumable, End
        <3> QED
            BY <1>6, <2>1, <3>1 DEF GateConsume, NoOp,
               TypeOK, Ops, Decisions, Verdicts
    <2>3. CASE ~consumed[a]
        <3>1. /\ op' = [op EXCEPT ![p] = [kind |-> "deploy", row |-> a, write |-> "none",
                                         rows |-> {}, at |-> 0]]
              /\ consumed' = [consumed EXCEPT ![a] = TRUE]
              /\ uses' = [uses EXCEPT ![a] = @ + 1]
              /\ UNCHANGED <<now, decision, createdAt, expiresAt, answers,
                             deployments, crashes>>
            BY <1>6, <2>1, <2>3 DEF GateConsume, Consumable, Begin
        <3> QED
            BY <2>1, <2>3, <3>1 DEF TypeOK, Ops, Decisions, Verdicts
    <2> QED
        BY <2>2, <2>3
<1>7. ASSUME NEW p \in Replica, Deploy(p)
     PROVE  TypeOK'
    <2>1. PICK a \in Approval : op[p].row = a
        BY <1>7 DEF Deploy, RowInv
    <2>2. deployments' \in [Approval -> Nat]
        BY <1>7, <2>1 DEF Deploy, TypeOK
    <2>3. op' \in [Replica -> Ops]
        BY <1>7 DEF Deploy, End, NoOp, TypeOK, Ops
    <2> QED
        BY <1>7, <2>2, <2>3 DEF Deploy, TypeOK, rowVars
<1>8. ASSUME NEW p \in Replica, SweepRead(p)
     PROVE  TypeOK'
    BY <1>8 DEF SweepRead, BeginSweep, Free, NoOp, rowVars, histVars, TypeOK,
       RowInv, Ops, Decisions, Verdicts
<1>9. ASSUME NEW p \in Replica, NEW a \in Approval, SweepPendingRow(p, a)
     PROVE  TypeOK'
    BY <1>9 DEF SweepPendingRow, StillPending, BeginSweep, rowVars, histVars,
       TypeOK, RowInv, Ops, Decisions, Verdicts
<1>10. ASSUME NEW p \in Replica, SweepSecondRead(p)
     PROVE  TypeOK'
    BY <1>10 DEF SweepSecondRead, BeginSweep, rowVars, histVars, TypeOK,
       RowInv, Ops, Decisions, Verdicts
<1>11. ASSUME NEW p \in Replica, NEW a \in Approval, SweepApprovedRow(p, a)
     PROVE  TypeOK'
    BY <1>11 DEF SweepApprovedRow, StillUnused, BeginSweep, rowVars,
       histVars, TypeOK, RowInv, Ops, Decisions, Verdicts
<1>12. ASSUME NEW p \in Replica, SweepDone(p)
     PROVE  TypeOK'
    BY <1>12 DEF SweepDone, End, NoOp, rowVars, histVars, TypeOK, RowInv,
       Ops, Decisions, Verdicts
<1>13. ASSUME NEW p \in Replica, Crash(p)
     PROVE  TypeOK'
    BY <1>13 DEF Crash, End, Free, NoOp, rowVars, histVars, TypeOK, RowInv,
       Ops, Decisions, Verdicts
<1>14. CASE UNCHANGED vars
    BY <1>14 DEF vars, rowVars, histVars, TypeOK, RowInv, Ops, Decisions,
       Verdicts
<1> QED
    BY <1>1, <1>2, <1>3, <1>4, <1>5, <1>6, <1>7, <1>8, <1>9, <1>10, <1>11,
       <1>12, <1>13, <1>14 DEF Next

\* An operation between two statements works on an existing row.
LEMMA StepRowInv ==
    TypeOK /\ RowInv /\ [Next]_vars => RowInv'
<1> SUFFICES ASSUME TypeOK, RowInv, [Next]_vars
             PROVE  RowInv'
    OBVIOUS
<1> USE ApprovalAssumption
<1>1. CASE Tick
    BY <1>1 DEF Tick, rowVars, histVars, TypeOK, RowInv, Ops, Verdicts
<1>2. ASSUME NEW p \in Replica, NEW a \in Approval, RequestApproval(p, a)
     PROVE  RowInv'
    BY <1>2 DEF RequestApproval, Free, NoOp, rowVars, histVars, TypeOK,
       RowInv, Ops, Verdicts
<1>3. ASSUME NEW p \in Replica, NEW a \in Approval, NEW v \in Verdicts,
            DecideRead(p, a, v)
     PROVE  RowInv'
    BY <1>3 DEF DecideRead, Undecided, Begin, Free, NoOp, rowVars, histVars,
       TypeOK, RowInv, Ops, Verdicts
<1>4. ASSUME NEW p \in Replica, DecideWrite(p)
     PROVE  RowInv'
    BY <1>4 DEF DecideWrite, End, NoOp, rowVars, histVars, TypeOK, RowInv,
       Ops, Verdicts
<1>5. ASSUME NEW p \in Replica, GateRead(p)
     PROVE  RowInv'
    BY <1>5 DEF GateRead, Newest, Candidates, Lapsed, Begin, Free, NoOp,
       rowVars, histVars, TypeOK, RowInv, Ops, Verdicts
<1>6. ASSUME NEW p \in Replica, GateConsume(p)
     PROVE  RowInv'
    <2>1. PICK a \in Approval : a = op[p].row
        BY <1>6 DEF GateConsume, RowInv
    <2>2. CASE Consumable(a)
        <3>1. op' = [op EXCEPT ![p] = [kind |-> "deploy", row |-> a, write |-> "none",
                                       rows |-> {}, at |-> 0]]
            BY <1>6, <2>1, <2>2 DEF GateConsume, Begin
        <3> QED
            BY <3>1 DEF TypeOK, RowInv
    <2>3. CASE ~Consumable(a)
        <3>1. op' = [op EXCEPT ![p] = NoOp]
            BY <1>6, <2>1, <2>3 DEF GateConsume, End
        <3> QED
            BY <3>1 DEF TypeOK, RowInv, NoOp
    <2> QED
        BY <2>2, <2>3
<1>7. ASSUME NEW p \in Replica, Deploy(p)
     PROVE  RowInv'
    BY <1>7 DEF Deploy, End, NoOp, rowVars, histVars, TypeOK, RowInv, Ops,
       Verdicts
<1>8. ASSUME NEW p \in Replica, SweepRead(p)
     PROVE  RowInv'
    BY <1>8 DEF SweepRead, BeginSweep, Free, NoOp, rowVars, histVars, TypeOK,
       RowInv, Ops, Verdicts
<1>9. ASSUME NEW p \in Replica, NEW a \in Approval, SweepPendingRow(p, a)
     PROVE  RowInv'
    BY <1>9 DEF SweepPendingRow, StillPending, BeginSweep, rowVars, histVars,
       TypeOK, RowInv, Ops, Verdicts
<1>10. ASSUME NEW p \in Replica, SweepSecondRead(p)
     PROVE  RowInv'
    BY <1>10 DEF SweepSecondRead, BeginSweep, rowVars, histVars, TypeOK,
       RowInv, Ops, Verdicts
<1>11. ASSUME NEW p \in Replica, NEW a \in Approval, SweepApprovedRow(p, a)
     PROVE  RowInv'
    BY <1>11 DEF SweepApprovedRow, StillUnused, BeginSweep, rowVars,
       histVars, TypeOK, RowInv, Ops, Verdicts
<1>12. ASSUME NEW p \in Replica, SweepDone(p)
     PROVE  RowInv'
    BY <1>12 DEF SweepDone, End, NoOp, rowVars, histVars, TypeOK, RowInv,
       Ops, Verdicts
<1>13. ASSUME NEW p \in Replica, Crash(p)
     PROVE  RowInv'
    BY <1>13 DEF Crash, End, Free, NoOp, rowVars, histVars, TypeOK, RowInv,
       Ops, Verdicts
<1>14. CASE UNCHANGED vars
    BY <1>14 DEF vars, rowVars, histVars, TypeOK, RowInv, Ops, Verdicts
<1> QED
    BY <1>1, <1>2, <1>3, <1>4, <1>5, <1>6, <1>7, <1>8, <1>9, <1>10, <1>11,
       <1>12, <1>13, <1>14 DEF Next

\* A step uses a row only if it is the first to consume it.
LEMMA StepUseInv ==
    TypeOK /\ RowInv /\ UseInv /\ [Next]_vars => UseInv'
<1> SUFFICES ASSUME TypeOK, RowInv, UseInv, [Next]_vars
             PROVE  UseInv'
    OBVIOUS
<1> USE ApprovalAssumption
<1>1. CASE Tick
    BY <1>1 DEF Tick, rowVars, histVars, TypeOK, RowInv, UseInv, Ops
<1>2. ASSUME NEW p \in Replica, NEW a \in Approval, RequestApproval(p, a)
     PROVE  UseInv'
    BY <1>2 DEF RequestApproval, Free, NoOp, rowVars, histVars, TypeOK,
       RowInv, UseInv, Ops
<1>3. ASSUME NEW p \in Replica, NEW a \in Approval, NEW v \in Verdicts,
            DecideRead(p, a, v)
     PROVE  UseInv'
    BY <1>3 DEF DecideRead, Undecided, Begin, Free, NoOp, rowVars, histVars,
       TypeOK, RowInv, UseInv, Ops
<1>4. ASSUME NEW p \in Replica, DecideWrite(p)
     PROVE  UseInv'
    BY <1>4 DEF DecideWrite, End, NoOp, rowVars, histVars, TypeOK, RowInv,
       UseInv, Ops
<1>5. ASSUME NEW p \in Replica, GateRead(p)
     PROVE  UseInv'
    BY <1>5 DEF GateRead, Newest, Candidates, Lapsed, Begin, Free, NoOp,
       rowVars, histVars, TypeOK, RowInv, UseInv, Ops
<1>6. ASSUME NEW p \in Replica, GateConsume(p)
     PROVE  UseInv'
    <2>1. PICK a \in Approval : a = op[p].row
        BY <1>6 DEF GateConsume, RowInv
    <2>2. CASE Consumable(a)
        <3>1. /\ consumed' = [consumed EXCEPT ![a] = TRUE]
              /\ uses' = [uses EXCEPT ![a] = @ + 1]
            BY <1>6, <2>1, <2>2 DEF GateConsume
        <3>2. uses[a] = 0
            BY <2>2 DEF Consumable, TypeOK, UseInv
        <3> QED
            BY <3>1, <3>2 DEF TypeOK, UseInv
    <2>3. CASE ~Consumable(a)
        <3>1. UNCHANGED <<consumed, uses>>
            BY <1>6, <2>1, <2>3 DEF GateConsume
        <3> QED
            BY <3>1 DEF UseInv
    <2> QED
        BY <2>2, <2>3
<1>7. ASSUME NEW p \in Replica, Deploy(p)
     PROVE  UseInv'
    BY <1>7 DEF Deploy, End, NoOp, rowVars, histVars, TypeOK, RowInv, UseInv,
       Ops
<1>8. ASSUME NEW p \in Replica, SweepRead(p)
     PROVE  UseInv'
    BY <1>8 DEF SweepRead, BeginSweep, Free, NoOp, rowVars, histVars, TypeOK,
       RowInv, UseInv, Ops
<1>9. ASSUME NEW p \in Replica, NEW a \in Approval, SweepPendingRow(p, a)
     PROVE  UseInv'
    BY <1>9 DEF SweepPendingRow, StillPending, BeginSweep, rowVars, histVars,
       TypeOK, RowInv, UseInv, Ops
<1>10. ASSUME NEW p \in Replica, SweepSecondRead(p)
     PROVE  UseInv'
    BY <1>10 DEF SweepSecondRead, BeginSweep, rowVars, histVars, TypeOK,
       RowInv, UseInv, Ops
<1>11. ASSUME NEW p \in Replica, NEW a \in Approval, SweepApprovedRow(p, a)
     PROVE  UseInv'
    BY <1>11 DEF SweepApprovedRow, StillUnused, BeginSweep, rowVars,
       histVars, TypeOK, RowInv, UseInv, Ops
<1>12. ASSUME NEW p \in Replica, SweepDone(p)
     PROVE  UseInv'
    BY <1>12 DEF SweepDone, End, NoOp, rowVars, histVars, TypeOK, RowInv,
       UseInv, Ops
<1>13. ASSUME NEW p \in Replica, Crash(p)
     PROVE  UseInv'
    BY <1>13 DEF Crash, End, Free, NoOp, rowVars, histVars, TypeOK, RowInv,
       UseInv, Ops
<1>14. CASE UNCHANGED vars
    BY <1>14 DEF vars, rowVars, histVars, TypeOK, RowInv, UseInv, Ops
<1> QED
    BY <1>1, <1>2, <1>3, <1>4, <1>5, <1>6, <1>7, <1>8, <1>9, <1>10, <1>11,
       <1>12, <1>13, <1>14 DEF Next

\* A step makes a deployment only with a use of its own.
LEMMA StepDeployInv ==
    TypeOK /\ RowInv /\ UseInv /\ DeployInv /\ [Next]_vars => DeployInv'
<1> SUFFICES ASSUME TypeOK, RowInv, UseInv, DeployInv, [Next]_vars
             PROVE  DeployInv'
    OBVIOUS
<1> USE ApprovalAssumption
<1>1. CASE Tick
    BY <1>1 DEF Tick, rowVars, histVars, TypeOK, RowInv, UseInv, DeployInv,
       Working, Ops
<1>2. ASSUME NEW p \in Replica, NEW a \in Approval, RequestApproval(p, a)
     PROVE  DeployInv'
    BY <1>2 DEF RequestApproval, Free, NoOp, rowVars, histVars, TypeOK,
       RowInv, UseInv, DeployInv, Working, Ops
<1>3. ASSUME NEW p \in Replica, NEW a \in Approval, NEW v \in Verdicts,
            DecideRead(p, a, v)
     PROVE  DeployInv'
    BY <1>3 DEF DecideRead, Undecided, Begin, Free, NoOp, rowVars, histVars,
       TypeOK, RowInv, UseInv, DeployInv, Working, Ops
<1>4. ASSUME NEW p \in Replica, DecideWrite(p)
     PROVE  DeployInv'
    BY <1>4 DEF DecideWrite, End, NoOp, rowVars, histVars, TypeOK, RowInv,
       UseInv, DeployInv, Working, Ops
<1>5. ASSUME NEW p \in Replica, GateRead(p)
     PROVE  DeployInv'
    BY <1>5 DEF GateRead, Newest, Candidates, Lapsed, Begin, Free, NoOp,
       rowVars, histVars, TypeOK, RowInv, UseInv, DeployInv, Working, Ops
<1>6. ASSUME NEW p \in Replica, GateConsume(p)
     PROVE  DeployInv'
    <2>1. PICK a \in Approval : op[p].row = a /\ op[p].kind = "consume"
        BY <1>6 DEF GateConsume, RowInv
    <2>2. CASE consumed[a]
        <3>1. op' = [op EXCEPT ![p] = NoOp] /\ UNCHANGED <<consumed, uses>>
            BY <1>6, <2>1, <2>2 DEF GateConsume, Consumable, End
        <3> QED
            BY <1>6, <2>1, <3>1 DEF GateConsume, NoOp,
               TypeOK, UseInv, DeployInv, Working, Ops
    <2>3. CASE ~consumed[a]
        <3>1. /\ op' = [op EXCEPT ![p] = [kind |-> "deploy", row |-> a, write |-> "none",
                                         rows |-> {}, at |-> 0]]
              /\ consumed' = [consumed EXCEPT ![a] = TRUE]
              /\ uses' = [uses EXCEPT ![a] = @ + 1]
              /\ UNCHANGED <<now, decision, createdAt, expiresAt, answers,
                             deployments, crashes>>
            BY <1>6, <2>1, <2>3 DEF GateConsume, Consumable, Begin
        <3>2. uses[a] = 0 /\ deployments[a] = 0 /\ uses'[a] = 1
            <4>1. uses \in [Approval -> Nat] /\ deployments \in [Approval -> Nat]
                BY DEF TypeOK
            <4>2. uses[a] = 0
                BY <2>3, <4>1 DEF UseInv
            <4>3. deployments[a] = 0
                BY <4>1, <4>2 DEF DeployInv
            <4> QED
                BY <3>1, <4>1, <4>2, <4>3
        <3>3. \A q \in Replica : ~Working(q, "deploy", a)
            BY <3>2 DEF DeployInv
        <3>4. \A q \in Replica, b \in Approval :
                 Working(q, "deploy", b)' <=> IF q = p THEN b = a
                                              ELSE Working(q, "deploy", b)
            BY <2>1, <3>1 DEF Working, TypeOK
        <3>5. \A b \in Approval : b # a => uses'[b] = uses[b]
            BY <3>1 DEF TypeOK
        <3>6. \A b \in Approval : deployments'[b] <= uses'[b]
            BY <3>1, <3>2, <3>5 DEF TypeOK, DeployInv
        <3>7. \A q \in Replica, b \in Approval :
                 Working(q, "deploy", b)' => uses'[b] = 1 /\ deployments'[b] = 0
            BY <3>1, <3>2, <3>3, <3>4, <3>5 DEF DeployInv
        <3>8. \A q, r \in Replica, b \in Approval :
                 Working(q, "deploy", b)' /\ Working(r, "deploy", b)' => q = r
            BY <3>3, <3>4 DEF DeployInv
        <3> QED
            BY <3>6, <3>7, <3>8 DEF DeployInv
    <2> QED
        BY <2>2, <2>3
<1>7. ASSUME NEW p \in Replica, Deploy(p)
     PROVE  DeployInv'
    <2>1. PICK a \in Approval : op[p].row = a /\ op[p].kind = "deploy"
        BY <1>7 DEF Deploy, RowInv
    <2>2. Working(p, "deploy", a) /\ uses[a] = 1 /\ deployments[a] = 0
        BY <2>1 DEF Working, DeployInv
    <2>3. \A q \in Replica, b \in Approval :
             Working(q, "deploy", b)' <=> q # p /\ Working(q, "deploy", b)
        BY <1>7 DEF Deploy, End, NoOp, Working, TypeOK
    <2>4. \A q \in Replica : Working(q, "deploy", a) => q = p
        BY <2>2 DEF DeployInv
    <2>5. UNCHANGED uses /\ \A b \in Approval : b # a => deployments'[b] = deployments[b]
        BY <1>7, <2>1 DEF Deploy, histVars, TypeOK
    <2>6. deployments'[a] <= 1
        BY <1>7, <2>1, <2>2 DEF Deploy, TypeOK
    <2>7. \A b \in Approval : deployments'[b] <= uses'[b]
        BY <2>2, <2>5, <2>6 DEF DeployInv
    <2>8. \A q \in Replica, b \in Approval :
             Working(q, "deploy", b)' => uses'[b] = 1 /\ deployments'[b] = 0
        BY <2>3, <2>4, <2>5 DEF DeployInv
    <2>9. \A q, r \in Replica, b \in Approval :
             Working(q, "deploy", b)' /\ Working(r, "deploy", b)' => q = r
        BY <2>3 DEF DeployInv
    <2> QED
        BY <2>7, <2>8, <2>9 DEF DeployInv
<1>8. ASSUME NEW p \in Replica, SweepRead(p)
     PROVE  DeployInv'
    BY <1>8 DEF SweepRead, BeginSweep, Free, NoOp, rowVars, histVars, TypeOK,
       RowInv, UseInv, DeployInv, Working, Ops
<1>9. ASSUME NEW p \in Replica, NEW a \in Approval, SweepPendingRow(p, a)
     PROVE  DeployInv'
    BY <1>9 DEF SweepPendingRow, StillPending, BeginSweep, rowVars, histVars,
       TypeOK, RowInv, UseInv, DeployInv, Working, Ops
<1>10. ASSUME NEW p \in Replica, SweepSecondRead(p)
     PROVE  DeployInv'
    BY <1>10 DEF SweepSecondRead, BeginSweep, rowVars, histVars, TypeOK,
       RowInv, UseInv, DeployInv, Working, Ops
<1>11. ASSUME NEW p \in Replica, NEW a \in Approval, SweepApprovedRow(p, a)
     PROVE  DeployInv'
    BY <1>11 DEF SweepApprovedRow, StillUnused, BeginSweep, rowVars,
       histVars, TypeOK, RowInv, UseInv, DeployInv, Working, Ops
<1>12. ASSUME NEW p \in Replica, SweepDone(p)
     PROVE  DeployInv'
    BY <1>12 DEF SweepDone, End, NoOp, rowVars, histVars, TypeOK, RowInv,
       UseInv, DeployInv, Working, Ops
<1>13. ASSUME NEW p \in Replica, Crash(p)
     PROVE  DeployInv'
    BY <1>13 DEF Crash, End, Free, NoOp, rowVars, histVars, TypeOK, RowInv,
       UseInv, DeployInv, Working, Ops
<1>14. CASE UNCHANGED vars
    BY <1>14 DEF vars, rowVars, histVars, TypeOK, RowInv, UseInv, DeployInv,
       Working, Ops
<1> QED
    BY <1>1, <1>2, <1>3, <1>4, <1>5, <1>6, <1>7, <1>8, <1>9, <1>10, <1>11,
       <1>12, <1>13, <1>14 DEF Next

\* What is approved, or about to be used, was answered "approved".
LEMMA StepAnswerInv ==
    TypeOK /\ RowInv /\ AnswerInv /\ [Next]_vars => AnswerInv'
<1> SUFFICES ASSUME TypeOK, RowInv, AnswerInv, [Next]_vars
             PROVE  AnswerInv'
    OBVIOUS
<1> USE ApprovalAssumption
<1>1. CASE Tick
    BY <1>1 DEF Tick, rowVars, histVars, TypeOK, RowInv, AnswerInv,
       UsedWasApproved, Approved, Consuming, Working, Ops, Verdicts
<1>2. ASSUME NEW p \in Replica, NEW a \in Approval, RequestApproval(p, a)
     PROVE  AnswerInv'
    BY <1>2 DEF RequestApproval, Free, NoOp, rowVars, histVars, TypeOK,
       RowInv, AnswerInv, UsedWasApproved, Approved, Consuming, Working, Ops,
       Verdicts
<1>3. ASSUME NEW p \in Replica, NEW a \in Approval, NEW v \in Verdicts,
            DecideRead(p, a, v)
     PROVE  AnswerInv'
    BY <1>3 DEF DecideRead, Undecided, Begin, Free, NoOp, rowVars, histVars,
       TypeOK, RowInv, AnswerInv, UsedWasApproved, Approved, Consuming,
       Working, Ops, Verdicts
<1>4. ASSUME NEW p \in Replica, DecideWrite(p)
     PROVE  AnswerInv'
    BY <1>4 DEF DecideWrite, End, NoOp, rowVars, histVars, TypeOK, RowInv,
       AnswerInv, UsedWasApproved, Approved, Consuming, Working, Ops,
       Verdicts
<1>5. ASSUME NEW p \in Replica, GateRead(p)
     PROVE  AnswerInv'
    <2>1. PICK a \in Newest : Begin(p, "consume", a, "none")
        BY <1>5 DEF GateRead
    <2>2. a \in Approval /\ decision[a] = "approved"
        BY DEF Newest, Candidates
    <2>3. \A b \in Approval : Consuming(b)' => Consuming(b) \/ b = a
        BY <2>1 DEF Begin, Consuming, Working, TypeOK
    <2>4. UNCHANGED <<decision, answers, uses>>
        BY <1>5 DEF GateRead, rowVars, histVars
    <2> QED
        BY <2>2, <2>3, <2>4 DEF AnswerInv, UsedWasApproved, Approved
<1>6. ASSUME NEW p \in Replica, GateConsume(p)
     PROVE  AnswerInv'
    <2>1. PICK a \in Approval : op[p].row = a /\ op[p].kind = "consume"
        BY <1>6 DEF GateConsume, RowInv
    <2>2. CASE consumed[a]
        <3>1. op' = [op EXCEPT ![p] = NoOp] /\ UNCHANGED <<consumed, uses>>
            BY <1>6, <2>1, <2>2 DEF GateConsume, Consumable, End
        <3> QED
            BY <1>6, <2>1, <3>1 DEF GateConsume, NoOp,
               TypeOK, AnswerInv, UsedWasApproved, Approved, Consuming, Working, Ops, Verdicts
    <2>3. CASE ~consumed[a]
        <3>1. /\ op' = [op EXCEPT ![p] = [kind |-> "deploy", row |-> a, write |-> "none",
                                         rows |-> {}, at |-> 0]]
              /\ consumed' = [consumed EXCEPT ![a] = TRUE]
              /\ uses' = [uses EXCEPT ![a] = @ + 1]
              /\ UNCHANGED <<now, decision, createdAt, expiresAt, answers,
                             deployments, crashes>>
            BY <1>6, <2>1, <2>3 DEF GateConsume, Consumable, Begin
        <3> QED
            BY <2>1, <2>3, <3>1 DEF TypeOK, AnswerInv, UsedWasApproved, Approved, Consuming, Working, Ops, Verdicts
    <2> QED
        BY <2>2, <2>3
<1>7. ASSUME NEW p \in Replica, Deploy(p)
     PROVE  AnswerInv'
    BY <1>7 DEF Deploy, End, NoOp, rowVars, histVars, TypeOK, RowInv,
       AnswerInv, UsedWasApproved, Approved, Consuming, Working, Ops,
       Verdicts
<1>8. ASSUME NEW p \in Replica, SweepRead(p)
     PROVE  AnswerInv'
    BY <1>8 DEF SweepRead, BeginSweep, Free, NoOp, rowVars, histVars, TypeOK,
       RowInv, AnswerInv, UsedWasApproved, Approved, Consuming, Working, Ops,
       Verdicts
<1>9. ASSUME NEW p \in Replica, NEW a \in Approval, SweepPendingRow(p, a)
     PROVE  AnswerInv'
    BY <1>9 DEF SweepPendingRow, StillPending, BeginSweep, rowVars, histVars,
       TypeOK, RowInv, AnswerInv, UsedWasApproved, Approved, Consuming,
       Working, Ops, Verdicts
<1>10. ASSUME NEW p \in Replica, SweepSecondRead(p)
     PROVE  AnswerInv'
    BY <1>10 DEF SweepSecondRead, BeginSweep, rowVars, histVars, TypeOK,
       RowInv, AnswerInv, UsedWasApproved, Approved, Consuming, Working, Ops,
       Verdicts
<1>11. ASSUME NEW p \in Replica, NEW a \in Approval, SweepApprovedRow(p, a)
     PROVE  AnswerInv'
    BY <1>11 DEF SweepApprovedRow, StillUnused, BeginSweep, rowVars,
       histVars, TypeOK, RowInv, AnswerInv, UsedWasApproved, Approved,
       Consuming, Working, Ops, Verdicts
<1>12. ASSUME NEW p \in Replica, SweepDone(p)
     PROVE  AnswerInv'
    BY <1>12 DEF SweepDone, End, NoOp, rowVars, histVars, TypeOK, RowInv,
       AnswerInv, UsedWasApproved, Approved, Consuming, Working, Ops,
       Verdicts
<1>13. ASSUME NEW p \in Replica, Crash(p)
     PROVE  AnswerInv'
    BY <1>13 DEF Crash, End, Free, NoOp, rowVars, histVars, TypeOK, RowInv,
       AnswerInv, UsedWasApproved, Approved, Consuming, Working, Ops,
       Verdicts
<1>14. CASE UNCHANGED vars
    BY <1>14 DEF vars, rowVars, histVars, TypeOK, RowInv, AnswerInv,
       UsedWasApproved, Approved, Consuming, Working, Ops, Verdicts
<1> QED
    BY <1>1, <1>2, <1>3, <1>4, <1>5, <1>6, <1>7, <1>8, <1>9, <1>10, <1>11,
       <1>12, <1>13, <1>14 DEF Next

\* A replica answers a request it has not answered before.
LEMMA StepVerdictInv ==
    TypeOK /\ RowInv /\ VerdictInv /\ [Next]_vars => VerdictInv'
<1> SUFFICES ASSUME TypeOK, RowInv, VerdictInv, [Next]_vars
             PROVE  VerdictInv'
    OBVIOUS
<1> USE ApprovalAssumption
<1>1. CASE Tick
    BY <1>1 DEF Tick, rowVars, histVars, TypeOK, RowInv, VerdictInv,
       Answered, Working, Ops, Verdicts, Decisions
<1>2. ASSUME NEW p \in Replica, NEW a \in Approval, RequestApproval(p, a)
     PROVE  VerdictInv'
    BY <1>2 DEF RequestApproval, Free, NoOp, rowVars, histVars, TypeOK,
       RowInv, VerdictInv, Answered, Working, Ops, Verdicts, Decisions
<1>3. ASSUME NEW p \in Replica, NEW a \in Approval, NEW v \in Verdicts,
            DecideRead(p, a, v)
     PROVE  VerdictInv'
    BY <1>3 DEF DecideRead, Undecided, Begin, Free, NoOp, rowVars, histVars,
       TypeOK, RowInv, VerdictInv, Answered, Working, Ops, Verdicts,
       Decisions
<1>4. ASSUME NEW p \in Replica, DecideWrite(p)
     PROVE  VerdictInv'
    BY <1>4 DEF DecideWrite, End, NoOp, rowVars, histVars, TypeOK, RowInv,
       VerdictInv, Answered, Working, Ops, Verdicts, Decisions
<1>5. ASSUME NEW p \in Replica, GateRead(p)
     PROVE  VerdictInv'
    BY <1>5 DEF GateRead, Newest, Candidates, Lapsed, Begin, Free, NoOp,
       rowVars, histVars, TypeOK, RowInv, VerdictInv, Answered, Working, Ops,
       Verdicts, Decisions
<1>6. ASSUME NEW p \in Replica, GateConsume(p)
     PROVE  VerdictInv'
    <2>1. \A q \in Replica, b \in Approval :
             Working(q, "decide", b)' => Working(q, "decide", b)
        <3>1. PICK a \in Approval : op[p].row = a /\ op[p].kind = "consume"
            BY <1>6 DEF GateConsume, RowInv
        <3>2. CASE consumed[a]
            BY <1>6, <3>1, <3>2 DEF GateConsume, Consumable, End, NoOp, Working, TypeOK
        <3>3. CASE ~consumed[a]
            BY <1>6, <3>1, <3>3 DEF GateConsume, Consumable, Begin, Working, TypeOK
        <3> QED
            BY <3>2, <3>3
    <2>2. UNCHANGED <<decision, answers>>
        BY <1>6 DEF GateConsume
    <2> QED
        BY <2>1, <2>2 DEF VerdictInv, Answered
<1>7. ASSUME NEW p \in Replica, Deploy(p)
     PROVE  VerdictInv'
    BY <1>7 DEF Deploy, End, NoOp, rowVars, histVars, TypeOK, RowInv,
       VerdictInv, Answered, Working, Ops, Verdicts, Decisions
<1>8. ASSUME NEW p \in Replica, SweepRead(p)
     PROVE  VerdictInv'
    BY <1>8 DEF SweepRead, BeginSweep, Free, NoOp, rowVars, histVars, TypeOK,
       RowInv, VerdictInv, Answered, Working, Ops, Verdicts, Decisions
<1>9. ASSUME NEW p \in Replica, NEW a \in Approval, SweepPendingRow(p, a)
     PROVE  VerdictInv'
    BY <1>9 DEF SweepPendingRow, StillPending, BeginSweep, rowVars, histVars,
       TypeOK, RowInv, VerdictInv, Answered, Working, Ops, Verdicts,
       Decisions
<1>10. ASSUME NEW p \in Replica, SweepSecondRead(p)
     PROVE  VerdictInv'
    BY <1>10 DEF SweepSecondRead, BeginSweep, rowVars, histVars, TypeOK,
       RowInv, VerdictInv, Answered, Working, Ops, Verdicts, Decisions
<1>11. ASSUME NEW p \in Replica, NEW a \in Approval, SweepApprovedRow(p, a)
     PROVE  VerdictInv'
    BY <1>11 DEF SweepApprovedRow, StillUnused, BeginSweep, rowVars,
       histVars, TypeOK, RowInv, VerdictInv, Answered, Working, Ops,
       Verdicts, Decisions
<1>12. ASSUME NEW p \in Replica, SweepDone(p)
     PROVE  VerdictInv'
    BY <1>12 DEF SweepDone, End, NoOp, rowVars, histVars, TypeOK, RowInv,
       VerdictInv, Answered, Working, Ops, Verdicts, Decisions
<1>13. ASSUME NEW p \in Replica, Crash(p)
     PROVE  VerdictInv'
    BY <1>13 DEF Crash, End, Free, NoOp, rowVars, histVars, TypeOK, RowInv,
       VerdictInv, Answered, Working, Ops, Verdicts, Decisions
<1>14. CASE UNCHANGED vars
    BY <1>14 DEF vars, rowVars, histVars, TypeOK, RowInv, VerdictInv,
       Answered, Working, Ops, Verdicts, Decisions
<1> QED
    BY <1>1, <1>2, <1>3, <1>4, <1>5, <1>6, <1>7, <1>8, <1>9, <1>10, <1>11,
       <1>12, <1>13, <1>14 DEF Next

\* A row read as past its time is neither used nor about to be.
LEMMA StepExpiryInv ==
    TypeOK /\ RowInv /\ UseInv /\ ExpiryInv /\ [Next]_vars => ExpiryInv'
<1> SUFFICES ASSUME TypeOK, RowInv, UseInv, ExpiryInv, [Next]_vars
             PROVE  ExpiryInv'
    OBVIOUS
<1> USE ApprovalAssumption
<1>1. CASE Tick
    BY <1>1 DEF Tick, rowVars, histVars, TypeOK, RowInv, UseInv, ExpiryInv,
       Consuming, Expiring, Working, Ops, Verdicts, Decisions
<1>2. ASSUME NEW p \in Replica, NEW a \in Approval, RequestApproval(p, a)
     PROVE  ExpiryInv'
    BY <1>2 DEF RequestApproval, Free, NoOp, rowVars, histVars, TypeOK,
       RowInv, UseInv, ExpiryInv, Consuming, Expiring, Working, Ops,
       Verdicts, Decisions
<1>3. ASSUME NEW p \in Replica, NEW a \in Approval, NEW v \in Verdicts,
            DecideRead(p, a, v)
     PROVE  ExpiryInv'
    BY <1>3 DEF DecideRead, Undecided, Begin, Free, NoOp, rowVars, histVars,
       TypeOK, RowInv, UseInv, ExpiryInv, Consuming, Expiring, Working, Ops,
       Verdicts, Decisions
<1>4. ASSUME NEW p \in Replica, DecideWrite(p)
     PROVE  ExpiryInv'
    BY <1>4 DEF DecideWrite, End, NoOp, rowVars, histVars, TypeOK, RowInv,
       UseInv, ExpiryInv, Consuming, Expiring, Working, Ops, Verdicts,
       Decisions
<1>5. ASSUME NEW p \in Replica, GateRead(p)
     PROVE  ExpiryInv'
    BY <1>5 DEF GateRead, Newest, Candidates, Lapsed, Begin, Free, NoOp,
       rowVars, histVars, TypeOK, RowInv, UseInv, ExpiryInv, Consuming,
       Expiring, Working, Ops, Verdicts, Decisions
<1>6. ASSUME NEW p \in Replica, GateConsume(p)
     PROVE  ExpiryInv'
    <2>1. PICK a \in Approval : op[p].row = a /\ op[p].kind = "consume"
        BY <1>6 DEF GateConsume, RowInv
    <2>2. CASE consumed[a]
        <3>1. op' = [op EXCEPT ![p] = NoOp] /\ UNCHANGED <<consumed, uses>>
            BY <1>6, <2>1, <2>2 DEF GateConsume, Consumable, End
        <3> QED
            BY <1>6, <2>1, <3>1 DEF GateConsume, NoOp,
               TypeOK, UseInv, ExpiryInv, Consuming, Expiring, Working, Ops, Verdicts, Decisions
    <2>3. CASE ~consumed[a]
        <3>1. /\ op' = [op EXCEPT ![p] = [kind |-> "deploy", row |-> a, write |-> "none",
                                         rows |-> {}, at |-> 0]]
              /\ consumed' = [consumed EXCEPT ![a] = TRUE]
              /\ uses' = [uses EXCEPT ![a] = @ + 1]
              /\ UNCHANGED <<now, decision, createdAt, expiresAt, answers,
                             deployments, crashes>>
            BY <1>6, <2>1, <2>3 DEF GateConsume, Consumable, Begin
        <3> QED
            BY <2>1, <2>3, <3>1 DEF TypeOK, UseInv, ExpiryInv, Consuming, Expiring, Working, Ops, Verdicts, Decisions
    <2> QED
        BY <2>2, <2>3
<1>7. ASSUME NEW p \in Replica, Deploy(p)
     PROVE  ExpiryInv'
    BY <1>7 DEF Deploy, End, NoOp, rowVars, histVars, TypeOK, RowInv, UseInv,
       ExpiryInv, Consuming, Expiring, Working, Ops, Verdicts, Decisions
<1>8. ASSUME NEW p \in Replica, SweepRead(p)
     PROVE  ExpiryInv'
    BY <1>8 DEF SweepRead, BeginSweep, Free, NoOp, rowVars, histVars, TypeOK,
       RowInv, UseInv, ExpiryInv, Consuming, Expiring, Working, Ops,
       Verdicts, Decisions
<1>9. ASSUME NEW p \in Replica, NEW a \in Approval, SweepPendingRow(p, a)
     PROVE  ExpiryInv'
    BY <1>9 DEF SweepPendingRow, StillPending, BeginSweep, rowVars, histVars,
       TypeOK, RowInv, UseInv, ExpiryInv, Consuming, Expiring, Working, Ops,
       Verdicts, Decisions
<1>10. ASSUME NEW p \in Replica, SweepSecondRead(p)
     PROVE  ExpiryInv'
    BY <1>10 DEF SweepSecondRead, BeginSweep, rowVars, histVars, TypeOK,
       RowInv, UseInv, ExpiryInv, Consuming, Expiring, Working, Ops,
       Verdicts, Decisions
<1>11. ASSUME NEW p \in Replica, NEW a \in Approval, SweepApprovedRow(p, a)
     PROVE  ExpiryInv'
    <2>1. /\ \A b \in Approval : Consuming(b)' <=> Consuming(b)
          /\ \A b \in Approval : Expiring(b)' <=> Expiring(b)
        BY <1>11 DEF SweepApprovedRow, BeginSweep, Consuming, Expiring, Working, TypeOK
    <2>2. UNCHANGED <<now, expiresAt, uses>>
        BY <1>11 DEF SweepApprovedRow, histVars
    <2>3. CASE StillUnused(a)
        <3>1. uses[a] = 0
            BY <2>3 DEF StillUnused, UseInv, TypeOK
        <3>2. /\ decision' = [decision EXCEPT ![a] = "expired"]
              /\ consumed' = [consumed EXCEPT ![a] = TRUE]
            BY <1>11, <2>3 DEF SweepApprovedRow
        <3> QED
            BY <2>1, <2>2, <3>1, <3>2 DEF ExpiryInv, TypeOK
    <2>4. CASE ~StillUnused(a)
        <3>1. UNCHANGED <<decision, consumed>>
            BY <1>11, <2>4 DEF SweepApprovedRow
        <3> QED
            BY <2>1, <2>2, <3>1 DEF ExpiryInv
    <2> QED
        BY <2>3, <2>4
<1>12. ASSUME NEW p \in Replica, SweepDone(p)
     PROVE  ExpiryInv'
    BY <1>12 DEF SweepDone, End, NoOp, rowVars, histVars, TypeOK, RowInv,
       UseInv, ExpiryInv, Consuming, Expiring, Working, Ops, Verdicts,
       Decisions
<1>13. ASSUME NEW p \in Replica, Crash(p)
     PROVE  ExpiryInv'
    BY <1>13 DEF Crash, End, Free, NoOp, rowVars, histVars, TypeOK, RowInv,
       UseInv, ExpiryInv, Consuming, Expiring, Working, Ops, Verdicts,
       Decisions
<1>14. CASE UNCHANGED vars
    BY <1>14 DEF vars, rowVars, histVars, TypeOK, RowInv, UseInv, ExpiryInv,
       Consuming, Expiring, Working, Ops, Verdicts, Decisions
<1> QED
    BY <1>1, <1>2, <1>3, <1>4, <1>5, <1>6, <1>7, <1>8, <1>9, <1>10, <1>11,
       <1>12, <1>13, <1>14 DEF Next

-----------------------------------------------------------------------------
\* Nothing is granted at the start.
LEMMA InitGrant == Init => TypeOK /\ GrantInv
<1> USE ApprovalAssumption
<1> SUFFICES ASSUME Init PROVE TypeOK /\ GrantInv
    OBVIOUS
<1>1. TypeOK
    BY DEF Init, TypeOK, Ops, NoOp, Decisions, Verdicts
<1>2. RowInv /\ UseInv /\ DeployInv
    BY DEF Init, RowInv, UseInv, DeployInv, Working, NoOp
<1>3. VerdictInv
    BY DEF Init, VerdictInv, Answered, Working, NoOp
<1>4. AnswerInv /\ ExpiryInv
    BY DEF Init, AnswerInv, UsedWasApproved, ExpiryInv, Consuming, Expiring,
       Working, NoOp
<1> QED
    BY <1>1, <1>2, <1>3, <1>4 DEF GrantInv

\* The strengthening holds in every reachable state.
LEMMA GrantInvHolds == Spec => [](TypeOK /\ GrantInv)
<1>1. TypeOK /\ GrantInv /\ [Next]_vars => (TypeOK /\ GrantInv)'
    BY StepTypeOK, StepRowInv, StepUseInv, StepDeployInv, StepAnswerInv,
       StepVerdictInv, StepExpiryInv DEF GrantInv
<1> QED
    BY InitGrant, <1>1, PTL DEF Spec

\* Every variable keeps its type in every behaviour of the approvals.
THEOREM ApprovalsTyped == Spec => []TypeOK
    BY GrantInvHolds, PTL

\* A grant authorises at most one deployment: assertApproved() may be read by
\* any number of replicas at once, its conditional UPDATE succeeds for one.
THEOREM GrantUsedOnce == Spec => []SingleUse
<1>1. TypeOK /\ GrantInv => SingleUse
    BY DEF GrantInv, UseInv, DeployInv, SingleUse
<1> QED
    BY <1>1, GrantInvHolds, PTL

\* Whatever the gate let through was approved by a decider: the row that
\* assertApproved() consumes is the one it read as approved.
THEOREM GrantWasApproved == Spec => []UsedWasApproved
<1>1. TypeOK /\ GrantInv => UsedWasApproved
    BY DEF GrantInv, AnswerInv
<1> QED
    BY <1>1, GrantInvHolds, PTL

\* A used grant is never rewritten as expired, although decide() and both
\* passes of the sweeper write from rows they read earlier.
THEOREM UsedGrantKept == Spec => []UsedNotExpired
<1>1. TypeOK /\ GrantInv => UsedNotExpired
    BY DEF TypeOK, GrantInv, ExpiryInv, UsedNotExpired
<1> QED
    BY <1>1, GrantInvHolds, PTL

\* A replica never confirms both an approval and a rejection of a request:
\* inside one process decide() is not interrupted, and no other replica makes
\* a decided row pending again.
THEOREM ReplicaVerdictFinal == Spec => []OneVerdictPerReplica
<1>1. TypeOK /\ GrantInv => OneVerdictPerReplica
    <2> SUFFICES ASSUME GrantInv, NEW a \in Approval, NEW p \in Replica
                 PROVE  Cardinality({v \in Verdicts : <<p, v>> \in answers[a]}) <= 1
        BY DEF OneVerdictPerReplica
    <2> DEFINE said == {v \in Verdicts : <<p, v>> \in answers[a]}
    <2>1. \A v, w \in said : v = w
        BY DEF GrantInv, VerdictInv, Answered
    <2>2. Cardinality(said) <= 1
        <3> HIDE DEF said
        <3>1. CASE said = {}
            BY <3>1, FS_EmptySet
        <3>2. CASE said # {}
            <4>1. PICK v \in said : TRUE
                BY <3>2
            <4>2. said = {v}
                BY <2>1, <4>1
            <4>3. Cardinality({v}) = 1
                BY FS_Singleton
            <4> QED
                BY <4>2, <4>3
        <3> QED
            BY <3>1, <3>2
    <2> QED
        BY <2>2
<1> QED
    BY <1>1, GrantInvHolds, PTL

\* What a row says of its grant is true, whatever statements of the gate, the
\* deciders and the sweeper come between each other.
THEOREM GrantsSound == Spec => []GrantSound
<1>1. UsedWasApproved /\ UsedNotExpired /\ OneVerdictPerReplica => GrantSound
    BY DEF GrantSound
<1> QED
    BY <1>1, GrantWasApproved, UsedGrantKept, ReplicaVerdictFinal, PTL
=============================================================================

---------------------------- MODULE ModelRouter ----------------------------
(***************************************************************************)
(* The model router of one control plane: ModelRouter.complete() and the   *)
(* circuit breakers of packages/models, over the budgets and the cost      *)
(* events of apps/control-plane/src/budget.ts.                             *)
(*                                                                         *)
(* Requests overlap at the two awaits of complete(): the provider's answer *)
(* and the backoff between attempts.  Everything between them is one step: *)
(* the budget check and the walk over the breakers up to the first call,   *)
(* or an answer, its bookkeeping and the walk to the next candidate.       *)
(*                                                                         *)
(* A breaker's clock is the part of its cooldown that is left.  A timeout  *)
(* is a failed attempt: the provider's late answer is dropped.             *)
(***************************************************************************)
EXTENDS Integers, Sequences, FiniteSets

CONSTANTS Request,      \* callers of complete(), one request at a time each
          Workers,      \* those that record the cost of the answer again
          Wanted,       \* tiers requests ask for; "none" is any
          NModels,      \* models of all providers, numbered cheaper first
          TierOf,       \* tier of a model
          Narrow,       \* models whose context window holds no big request
          Estimate,     \* pre-flight estimate when the model is first choice
          Price,        \* what an answer of the model costs,
          MaxPrice,     \* and the most any of them does
          Budgets,      \* configured budgets: limit and action by scope
          Threshold, Cooldown, MaxRetries, MaxFallbacks,
          MaxFaults,    \* bound: failing attempts
          MaxSpend      \* bound: spend in a scope no budget stops

Model == 1..NModels
Tier == {"FAST", "STANDARD", "REASONING", "REVIEW", "SECURITY", "VISION", "LOCAL"}
Scopes == <<"org", "daily", "monthly">>   \* in order of evaluation
Scope == {"org", "daily", "monthly"}
Action == {"block", "downgrade", "approve_required"}

ASSUME RouterAssumption ==
    /\ IsFiniteSet(Request) /\ Workers \subseteq Request
    /\ Wanted \subseteq Tier \cup {"none"}
    /\ NModels \in Nat \ {0}
    /\ TierOf \in [Model -> Tier] /\ Narrow \subseteq Model
    /\ Estimate \in [Model -> Nat] /\ Price \in [Model -> 0..MaxPrice]
    /\ MaxPrice \in Nat
    /\ \A b \in Budgets : \E S \in SUBSET Scope :
           b \in [limit : [S -> Nat], action : [S -> Action]]
    /\ Threshold \in Nat \ {0} /\ Cooldown \in Nat
    /\ MaxRetries \in Nat /\ MaxFallbacks \in Nat
    /\ MaxFaults \in Nat /\ MaxSpend \in Nat

VARIABLES
    \* a breaker per model: CircuitBreaker.state, failures, time to half open
    state, failures, cool,
    \* the request each caller is making: its candidates, the one it is at
    pc, cands, current, attempt,
    \* table budgets, and the cost_events inside the window of each budget
    budget, spent,
    \* history: failed candidates since the last answer; spent fault budget
    streak, faults

breakers == <<state, failures, cool>>
requests == <<pc, cands, current, attempt>>
costs == <<budget, spent>>
history == <<streak, faults>>
vars == <<breakers, requests, costs, history>>

States == {"closed", "open", "half_open"}
Pcs == {"idle", "calling", "sleeping", "answered"}

BreakersOK ==
    /\ state \in [Model -> States]
    /\ failures \in [Model -> 0..Threshold] /\ cool \in [Model -> 0..Cooldown]
RequestsOK ==
    /\ pc \in [Request -> Pcs] /\ cands \in [Request -> SUBSET Model]
    /\ current \in [Request -> 0..NModels] /\ attempt \in [Request -> 0..MaxRetries]
CostsOK == budget \in Budgets /\ spent \in [Scope -> Nat]
HistoryOK == streak \in [Model -> 0..Threshold] /\ faults \in Nat
TypeOK == BreakersOK /\ RequestsOK /\ CostsOK /\ HistoryOK

Init ==
    /\ state = [m \in Model |-> "closed"]
    /\ failures = [m \in Model |-> 0] /\ cool = [m \in Model |-> 0]
    /\ pc = [r \in Request |-> "idle"] /\ cands = [r \in Request |-> {}]
    /\ current = [r \in Request |-> 0] /\ attempt = [r \in Request |-> 0]
    /\ budget \in Budgets /\ spent = [s \in Scope |-> 0]
    /\ streak = [m \in Model |-> 0] /\ faults = 0

-----------------------------------------------------------------------------
(* Budgets.                                                                *)

\* Scopes whose limit the estimate would exceed, by evaluation order.
Violated(estimate) ==
    {i \in 1..Len(Scopes) :
        LET s == Scopes[i] IN
        s \in DOMAIN budget.limit /\ spent[s] + estimate > budget.limit[s]}

\* evaluate(): the first violated scope decides.
Evaluate(estimate) ==
    LET bad == Violated(estimate) IN
    IF bad = {} THEN "allow"
    ELSE budget.action[Scopes[CHOOSE i \in bad : \A j \in bad : i <= j]]

\* recommendedTierFor(); the cheapest tiers and REVIEW have none.
Recommended(tier) ==
    CASE tier \in {"REASONING", "SECURITY"} -> "STANDARD"
      [] tier = "STANDARD" -> "FAST"
      [] OTHER -> "none"

\* The limit of the i-th scope stops requests: it does not merely downgrade,
\* and no scope evaluated before it does, for then it is never looked at.
Hard(i) ==
    /\ Scopes[i] \in DOMAIN budget.limit
    /\ \A j \in 1..i : Scopes[j] \in DOMAIN budget.limit =>
           budget.action[Scopes[j]] # "downgrade"

\* recordSpend(): an event per scope, k of them if the k+1st insert fails.
\* Spend in a scope without a budget is never read.
Charged(m, k) ==
    [s \in Scope |->
        IF s \in DOMAIN budget.limit /\ s \in {Scopes[i] : i \in 1..k}
        THEN spent[s] + Price[m] ELSE spent[s]]

\* A new day or month, or org spend that is more than 30 days old.
WindowMoves(S) ==
    /\ S \in {{"daily"}, {"daily", "monthly"}}
    /\ \E s \in S : spent[s] > 0
    /\ spent' = [s \in Scope |-> IF s \in S THEN 0 ELSE spent[s]]
    /\ UNCHANGED <<breakers, requests, budget, history>>

OrgSpendAges ==
    /\ \E k \in 0..(spent["org"] - 1) : spent' = [spent EXCEPT !["org"] = k]
    /\ UNCHANGED <<breakers, requests, budget, history>>

-----------------------------------------------------------------------------
(* Circuit breakers.                                                       *)

\* Mutant: the breaker half opens at once.
Bug_Cooling(m, st, co) == FALSE
\* Mutant: the breaker never half opens.
Bug_NoHalfOpen(m, st, co) == st[m] = "open"
\* currentState is "open": acquire() throws.
Cooling(m, st, co) == st[m] = "open" /\ co[m] > 0

\* onSuccess()
Closed(m) == [state EXCEPT ![m] = "closed"]
\* Mutant: an answer closes the breaker but the count goes on.
Bug_Zeroed(m) == failures
Zeroed(m) == [failures EXCEPT ![m] = 0]

\* onFailure() trips the breaker.
Trips(m, st, fl) == st[m] = "half_open" \/ fl[m] + 1 >= Threshold

Tick ==
    /\ \E m \in Model : cool[m] > 0
    /\ cool' = [m \in Model |-> IF cool[m] > 0 THEN cool[m] - 1 ELSE 0]
    /\ UNCHANGED <<state, failures, requests, costs, history>>

-----------------------------------------------------------------------------
(* complete().                                                             *)

\* select(), cut to the first choice and its fallbacks.
Select(tier) ==
    LET matching == {m \in Model : tier \in {"none", TierOf[m]}} IN
    {m \in matching : Cardinality({n \in matching : n < m}) <= MaxFallbacks}

FirstOf(models) == CHOOSE m \in models : \A n \in models : m <= n

\* The budget wants a cheaper tier; without one the first selection stands.
Candidates(tier) ==
    LET first == Select(tier)
        cheaper == Select(Recommended("STANDARD"))
    IN  IF Evaluate(Estimate[FirstOf(first)]) = "downgrade" /\ cheaper # {}
        THEN cheaper ELSE first

Fitting(models, big) == {m \in models : ~(big /\ m \in Narrow)}

End(r) ==
    /\ pc' = [pc EXCEPT ![r] = "idle"]
    /\ cands' = [cands EXCEPT ![r] = {}]
    /\ current' = [current EXCEPT ![r] = 0]
    /\ attempt' = [attempt EXCEPT ![r] = 0]

\* Walk the candidates after a given one, with the breakers as the caller
\* left them: call the first whose breaker lets it, or give up.
Enter(r, models, after, st, co) ==
    LET admitting == {m \in models : m > after /\ ~Cooling(m, st, co)} IN
    \/ admitting = {} /\ End(r) /\ state' = st
    \/ \E m \in admitting :
        /\ \A n \in admitting : m <= n
        /\ pc' = [pc EXCEPT ![r] = "calling"]
        /\ cands' = [cands EXCEPT ![r] = models]
        /\ current' = [current EXCEPT ![r] = m]
        /\ attempt' = [attempt EXCEPT ![r] = 0]
        /\ state' = IF st[m] = "open" THEN [st EXCEPT ![m] = "half_open"] ELSE st

\* Mutant: the estimate is not checked against the budgets.
Bug_Allowed(estimate) == TRUE
Allowed(estimate) == Evaluate(estimate) \in {"allow", "downgrade"}

\* complete() up to its first await.  A request that finds no model, no
\* budget or no window large enough is refused and leaves no trace.
Arrive(r, tier, big) ==
    LET first == Select(tier) IN
    /\ pc[r] = "idle"
    /\ \A i \in 1..Len(Scopes) : Hard(i) \/ spent[Scopes[i]] <= MaxSpend
    /\ first # {} /\ Allowed(Estimate[FirstOf(first)])
    /\ LET fits == Fitting(Candidates(tier), big) IN
       fits # {} /\ Enter(r, fits, 0, state, cool)
    /\ UNCHANGED <<failures, cool, costs, history>>

\* The answer is in and its cost recorded; a worker still has to store it.
CallSucceeds(r) ==
    LET m == current[r] IN
    /\ pc[r] = "calling"
    /\ state' = Closed(m) /\ failures' = Zeroed(m)
    /\ streak' = [streak EXCEPT ![m] = 0]
    /\ spent' = Charged(m, Len(Scopes))
    /\ IF r \in Workers
       THEN pc' = [pc EXCEPT ![r] = "answered"] /\ UNCHANGED <<cands, current, attempt>>
       ELSE End(r)
    /\ UNCHANGED <<cool, budget, faults>>

\* runExecution() records the same cost again.
WorkerRecords(r) ==
    /\ pc[r] = "answered"
    /\ spent' = Charged(current[r], Len(Scopes))
    /\ End(r)
    /\ UNCHANGED <<breakers, budget, history>>

\* Mutant: a candidate is tried for ever.
Bug_Retries(r, retryable) == retryable
Retries(r, retryable) == retryable /\ attempt[r] < MaxRetries

\* A failed attempt, with the breaker of its model as the attempt left it:
\* back off, or count one failure of the candidate and go on to the next.
AttemptFailed(r, retryable, st, fl, sk) ==
    LET m == current[r]
        trips == Trips(m, st, fl)
    IN
    \/ /\ Retries(r, retryable)
       /\ pc' = [pc EXCEPT ![r] = "sleeping"]
       /\ state' = st /\ failures' = fl /\ streak' = sk
       /\ UNCHANGED <<cands, current, attempt, cool>>
    \/ /\ ~Retries(r, retryable)
       /\ failures' = [fl EXCEPT ![m] = IF trips THEN Threshold ELSE @ + 1]
       /\ streak' = [sk EXCEPT ![m] = IF @ < Threshold THEN @ + 1 ELSE @]
       /\ cool' = IF trips THEN [cool EXCEPT ![m] = Cooldown] ELSE cool
       /\ Enter(r, cands[r], m,
                IF trips THEN [st EXCEPT ![m] = "open"] ELSE st, cool')

\* An error or a timeout.
CallFails(r, retryable) ==
    /\ pc[r] = "calling" /\ faults < MaxFaults
    /\ faults' = faults + 1
    /\ AttemptFailed(r, retryable, state, failures, streak)
    /\ UNCHANGED costs

\* The provider answered, but an insert of a cost event fails after k others:
\* the catch takes it for a failed attempt.
RecordingFails(r, k) ==
    LET m == current[r] IN
    /\ pc[r] = "calling" /\ faults < MaxFaults /\ Price[m] > 0
    /\ faults' = faults + 1
    /\ spent' = Charged(m, k)
    /\ AttemptFailed(r, TRUE, Closed(m), Zeroed(m), [streak EXCEPT ![m] = 0])
    /\ UNCHANGED budget

\* The backoff is over: the next attempt asks no breaker.
Wake(r) ==
    /\ pc[r] = "sleeping"
    /\ pc' = [pc EXCEPT ![r] = "calling"]
    /\ attempt' = [attempt EXCEPT ![r] = @ + 1]
    /\ UNCHANGED <<breakers, cands, current, costs, history>>

Step(r) ==
    \/ CallSucceeds(r) \/ WorkerRecords(r) \/ Wake(r)
    \/ \E retryable \in BOOLEAN : CallFails(r, retryable)
    \/ \E k \in 0..(Len(Scopes) - 1) : RecordingFails(r, k)

Next ==
    \/ Tick \/ OrgSpendAges \/ \E S \in SUBSET Scope : WindowMoves(S)
    \/ \E r \in Request :
          \/ \E tier \in Wanted, big \in BOOLEAN : Arrive(r, tier, big)
          \/ Step(r)

\* Time passes, calls return or time out, backoffs end, and clients keep
\* asking.
Fairness ==
    /\ WF_vars(Tick)
    /\ \A r \in Request : WF_vars(Step(r)) /\ SF_vars(Arrive(r, "none", FALSE))

Spec == Init /\ [][Next]_vars
FairSpec == Spec /\ Fairness

-----------------------------------------------------------------------------
(* Properties.                                                             *)

\* A breaker opens only when that many candidates in a row failed on its
\* model; an answer in between, also one that comes late, starts over.
OpenedByFailures == \A m \in Model : state[m] # "closed" => streak[m] = Threshold

\* Requests under way at a model; they make their retries even if it trips.
CallsOn(m) == {r \in Request : pc[r] \in {"calling", "sleeping"} /\ current[r] = m}

\* While a model cools down, no request that was not at it gets to it.
CoolingAdmitsNobody ==
    \A m \in Model :
        state[m] = "open" /\ cool[m] > 0 => CallsOn(m)' \subseteq CallsOn(m)

\* A breaker opens for failures in a row only, and while it cools down nobody
\* else is let in, whatever answers, retries and late failures overlap.
BreakersSound == [][OpenedByFailures' /\ CoolingAdmitsNobody]_vars

\* How far a hard limit can be overdrawn, although the cost is recorded only
\* after the answer: one answer per caller let in together, two if the caller
\* records it again, and one per failed insert.
OvershootBounded ==
    \A i \in 1..Len(Scopes) : Hard(i) =>
        spent[Scopes[i]] <= budget.limit[Scopes[i]]
            + MaxPrice * (Cardinality(Request) + Cardinality(Workers) + faults)

\* Every request is answered or fails, through all retries and fallbacks.
RequestEnds == \A r \in Request : pc[r] # "idle" ~> pc[r] = "idle"

\* When the faults stop the first choice is used again, and stays in use: no
\* late failure keeps its breaker open for good.
PreferredRecovers ==
    DOMAIN budget.limit = {} => <>[](state[1] = "closed")

\* Requests end, and once the faults stop the first choice is used again.
RouterRecovers == RequestEnds /\ PreferredRecovers

\* Why the overdraft is bounded: what was recorded and what callers still owe
\* fits, at every step, in the limit and one round of callers.
AtModel ==
    \A r \in Request :
        /\ pc[r] # "idle" => current[r] \in Model
        /\ pc[r] = "sleeping" => attempt[r] < MaxRetries
        /\ pc[r] = "answered" => r \in Workers
First == {r \in Request : pc[r] \in {"calling", "sleeping"}}
Second == {r \in Workers : pc[r] # "idle"}
SpendInv ==
    \A i \in 1..Len(Scopes) : Hard(i) =>
        spent[Scopes[i]] + MaxPrice * (Cardinality(First) + Cardinality(Second))
            <= budget.limit[Scopes[i]]
                + MaxPrice * (Cardinality(Request) + Cardinality(Workers) + faults)
=============================================================================

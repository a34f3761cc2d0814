------------------------- MODULE ModelRouterProofs -------------------------
(***************************************************************************)
(* For any number of callers, models and candidates, any prices and any    *)
(* budgets: a hard limit is overdrawn by no more than the answers of the   *)
(* callers that were under way together.  A caller is let in only while    *)
(* the scope is within its limit, so that what was spent and what the      *)
(* callers under way will still record never exceeds the limit and one     *)
(* round of all callers (SpendInv).  And a breaker opens for failures in a *)
(* row only and keeps newcomers out while it cools down (BreakInv).        *)
(***************************************************************************)
EXTENDS ModelRouter, FiniteSetTheorems, WellFoundedInduction, TLAPS

\* Models are numbered, and there is a number before the first.
LEMMA ModelFacts ==
    /\ Model \subseteq 0..NModels /\ Model \subseteq Nat /\ 0 \in 0..NModels
    /\ 0 \in 0..Threshold /\ Threshold \in 0..Threshold
    /\ 0 \in 0..Cooldown /\ Cooldown \in 0..Cooldown /\ 0 \in 0..MaxRetries
    BY RouterAssumption DEF Model

\* A charge keeps the ledger a ledger.
LEMMA ChargedType ==
    ASSUME CostsOK, NEW m \in Model, NEW k
    PROVE  Charged(m, k) \in [Scope -> Nat]
<1>1. Price[m] \in Nat
    BY RouterAssumption
<1> QED
    BY <1>1 DEF CostsOK, Charged

\* The end of a call keeps the types.
LEMMA EndTyped ==
    ASSUME RequestsOK, AtModel, NEW r \in Request, End(r)
    PROVE  RequestsOK' /\ AtModel'
<1>1. RequestsOK'
    BY ModelFacts DEF RequestsOK, End, Pcs
<1>2. AtModel'
    BY DEF RequestsOK, End, AtModel
<1> QED
    BY <1>1, <1>2

\* So does the move to the next model.
LEMMA EnterTyped ==
    ASSUME RequestsOK, AtModel, NEW r \in Request, NEW models \in SUBSET Model,
           NEW after, NEW st \in [Model -> States], NEW co,
           Enter(r, models, after, st, co)
    PROVE  RequestsOK' /\ AtModel' /\ state' \in [Model -> States]
<1>1. CASE End(r) /\ state' = st
    BY <1>1, EndTyped
<1>2. ASSUME NEW m \in models,
             pc' = [pc EXCEPT ![r] = "calling"],
             cands' = [cands EXCEPT ![r] = models],
             current' = [current EXCEPT ![r] = m],
             attempt' = [attempt EXCEPT ![r] = 0],
             state' = IF st[m] = "open" THEN [st EXCEPT ![m] = "half_open"] ELSE st
      PROVE  RequestsOK' /\ AtModel' /\ state' \in [Model -> States]
    <2>1. m \in Model /\ m \in 0..NModels
        BY ModelFacts
    <2>2. RequestsOK'
        BY <1>2, <2>1, ModelFacts DEF RequestsOK, Pcs
    <2>3. AtModel'
        BY <1>2, <2>1 DEF RequestsOK, AtModel
    <2>4. state' \in [Model -> States]
        BY <1>2 DEF States
    <2> QED
        BY <2>2, <2>3, <2>4
<1> QED
    BY <1>1, <1>2 DEF Enter

\* So does an attempt.
LEMMA AttemptTyped ==
    ASSUME BreakersOK, RequestsOK, AtModel, NEW r \in Request, pc[r] = "calling",
           NEW retryable \in BOOLEAN, NEW st \in [Model -> States],
           NEW fl \in [Model -> 0..Threshold], NEW sk \in [Model -> 0..Threshold],
           AttemptFailed(r, retryable, st, fl, sk)
    PROVE  BreakersOK' /\ RequestsOK' /\ AtModel' /\ streak' \in [Model -> 0..Threshold]
<1> DEFINE m == current[r]
           trips == Trips(m, st, fl)
<1>1. m \in Model
    BY DEF AtModel
<1>2. CASE /\ Retries(r, retryable) /\ pc' = [pc EXCEPT ![r] = "sleeping"]
           /\ state' = st /\ failures' = fl /\ streak' = sk
           /\ UNCHANGED <<cands, current, attempt, cool>>
    <2>1. RequestsOK' /\ AtModel'
        BY <1>1, <1>2 DEF RequestsOK, AtModel, Pcs, Retries
    <2> QED
        BY <1>2, <2>1 DEF BreakersOK
<1>3. CASE /\ failures' = [fl EXCEPT ![m] = IF trips THEN Threshold ELSE @ + 1]
           /\ streak' = [sk EXCEPT ![m] = IF @ < Threshold THEN @ + 1 ELSE @]
           /\ cool' = IF trips THEN [cool EXCEPT ![m] = Cooldown] ELSE cool
           /\ Enter(r, cands[r], m,
                    IF trips THEN [st EXCEPT ![m] = "open"] ELSE st, cool')
    <2>1. ~trips => fl[m] + 1 \in 0..Threshold
        BY <1>1, RouterAssumption DEF Trips
    <2>2. failures' \in [Model -> 0..Threshold]
        <3> HIDE DEF trips, m
        <3> QED BY <1>1, <1>3, <2>1, ModelFacts
    <2>3. sk[m] < Threshold => sk[m] + 1 \in 0..Threshold
        BY <1>1, RouterAssumption
    <2>4. streak' \in [Model -> 0..Threshold]
        BY <1>1, <1>3, <2>3
    <2>5. cool' \in [Model -> 0..Cooldown]
        <3> HIDE DEF trips, m
        <3> QED BY <1>3, ModelFacts DEF BreakersOK
    <2> DEFINE after == IF trips THEN [st EXCEPT ![m] = "open"] ELSE st
    <2>6. after \in [Model -> States] /\ cands[r] \in SUBSET Model
        <3> HIDE DEF trips, m
        <3> QED BY DEF States, RequestsOK
    <2>7. RequestsOK' /\ AtModel' /\ state' \in [Model -> States]
        <3> HIDE DEF after, m
        <3>1. Enter(r, cands[r], m, after, cool')
            BY <1>3 DEF after
        <3> QED BY <2>6, <3>1, EnterTyped
    <2> QED
        BY <2>2, <2>4, <2>5, <2>7 DEF BreakersOK
<1> QED
    BY <1>2, <1>3 DEF AttemptFailed

\* Every step keeps it.
LEMMA StepType == TypeOK /\ AtModel /\ [Next]_vars => (TypeOK /\ AtModel)'
<1> SUFFICES ASSUME TypeOK, AtModel, [Next]_vars PROVE TypeOK' /\ AtModel'
    OBVIOUS
<1> USE DEF TypeOK
<1>a. ASSUME UNCHANGED requests PROVE RequestsOK' /\ AtModel'
    BY <1>a DEF requests, RequestsOK, AtModel
<1>1. CASE Tick
    <2>1. cool' \in [Model -> 0..Cooldown]
        BY <1>1, RouterAssumption DEF Tick, BreakersOK
    <2> QED
        BY <1>1, <1>a, <2>1 DEF Tick, costs, history, BreakersOK, CostsOK, HistoryOK
<1>2. CASE OrgSpendAges
    <2>1. spent' \in [Scope -> Nat]
        <3>1. PICK k \in 0..(spent["org"] - 1) : spent' = [spent EXCEPT !["org"] = k]
            BY <1>2 DEF OrgSpendAges
        <3>2. spent["org"] \in Nat
            BY DEF CostsOK, Scope
        <3>3. k \in Nat
            BY <3>2
        <3> QED
            BY <3>1, <3>3 DEF CostsOK
    <2> QED
        BY <1>2, <1>a, <2>1 DEF OrgSpendAges, breakers, history, BreakersOK, CostsOK, HistoryOK
<1>3. ASSUME NEW S \in SUBSET Scope, WindowMoves(S) PROVE TypeOK' /\ AtModel'
    <2>1. spent' \in [Scope -> Nat]
        BY <1>3 DEF WindowMoves, CostsOK
    <2> QED
        BY <1>3, <1>a, <2>1 DEF WindowMoves, breakers, history, BreakersOK, CostsOK, HistoryOK
<1>4. ASSUME NEW r \in Request, NEW tier \in Wanted, NEW big \in BOOLEAN,
             Arrive(r, tier, big)
      PROVE  TypeOK' /\ AtModel'
    <2> DEFINE fits == Fitting(Candidates(tier), big)
    <2>1. fits \in SUBSET Model
        BY DEF Fitting, Candidates, Select
    <2>2. Enter(r, fits, 0, state, cool)
        BY <1>4 DEF Arrive
    <2>3. RequestsOK' /\ AtModel' /\ state' \in [Model -> States]
        <3> HIDE DEF fits
        <3> QED BY <2>1, <2>2, EnterTyped DEF BreakersOK
    <2> QED
        BY <1>4, <2>3 DEF Arrive, costs, history, BreakersOK, CostsOK, HistoryOK
<1>5. ASSUME NEW r \in Request, CallSucceeds(r) PROVE TypeOK' /\ AtModel'
    <2>1. current[r] \in Model
        BY <1>5 DEF CallSucceeds, AtModel
    <2>2. BreakersOK'
        BY <1>5, <2>1, ModelFacts DEF CallSucceeds, Closed, Zeroed, BreakersOK, States
    <2>3. CostsOK'
        BY <1>5, <2>1, ChargedType DEF CallSucceeds, CostsOK
    <2>4. HistoryOK'
        BY <1>5, <2>1, ModelFacts DEF CallSucceeds, HistoryOK
    <2>5. CASE End(r)
        BY <2>2, <2>3, <2>4, <2>5, EndTyped
    <2>6. CASE /\ r \in Workers /\ pc' = [pc EXCEPT ![r] = "answered"]
               /\ UNCHANGED <<cands, current, attempt>>
        BY <2>1, <2>2, <2>3, <2>4, <2>6 DEF RequestsOK, AtModel, Pcs
    <2> QED
        BY <1>5, <2>5, <2>6 DEF CallSucceeds
<1>6. ASSUME NEW r \in Request, WorkerRecords(r) PROVE TypeOK' /\ AtModel'
    <2>1. current[r] \in Model
        BY <1>6 DEF WorkerRecords, AtModel
    <2>2. CostsOK'
        BY <1>6, <2>1, ChargedType DEF WorkerRecords, CostsOK
    <2> QED
        BY <1>6, <2>2, EndTyped DEF WorkerRecords, breakers, history, BreakersOK, HistoryOK
<1>7. ASSUME NEW r \in Request, NEW retryable \in BOOLEAN, CallFails(r, retryable)
      PROVE  TypeOK' /\ AtModel'
    <2>1. BreakersOK' /\ RequestsOK' /\ AtModel' /\ streak' \in [Model -> 0..Threshold]
        BY <1>7, AttemptTyped DEF CallFails, BreakersOK, HistoryOK
    <2> QED
        BY <1>7, <2>1 DEF CallFails, costs, CostsOK, HistoryOK
<1>8. ASSUME NEW r \in Request, NEW k \in 0..(Len(Scopes) - 1), RecordingFails(r, k)
      PROVE  TypeOK' /\ AtModel'
    <2> DEFINE m == current[r]
    <2>1. m \in Model
        BY <1>8 DEF RecordingFails, AtModel
    <2>2. /\ Closed(m) \in [Model -> States] /\ Zeroed(m) \in [Model -> 0..Threshold]
          /\ [streak EXCEPT ![m] = 0] \in [Model -> 0..Threshold]
        BY <2>1, ModelFacts DEF Closed, Zeroed, BreakersOK, HistoryOK, States
    <2>3. AttemptFailed(r, TRUE, Closed(m), Zeroed(m), [streak EXCEPT ![m] = 0])
          /\ pc[r] = "calling"
        BY <1>8 DEF RecordingFails
    <2>4. BreakersOK' /\ RequestsOK' /\ AtModel' /\ streak' \in [Model -> 0..Threshold]
        BY <2>2, <2>3, AttemptTyped
    <2>5. CostsOK'
        BY <1>8, <2>1, ChargedType DEF RecordingFails, CostsOK
    <2> QED
        BY <1>8, <2>4, <2>5 DEF RecordingFails, HistoryOK
<1>9. ASSUME NEW r \in Request, Wake(r) PROVE TypeOK' /\ AtModel'
    <2>1. attempt[r] + 1 \in 0..MaxRetries
        BY <1>9, RouterAssumption DEF Wake, AtModel, RequestsOK
    <2>2. RequestsOK' /\ AtModel'
        BY <1>9, <2>1 DEF Wake, RequestsOK, AtModel, Pcs
    <2> QED
        BY <1>9, <2>2 DEF Wake, breakers, costs, history, BreakersOK, CostsOK, HistoryOK
<1>10. CASE UNCHANGED vars
    BY <1>10, <1>a DEF vars, breakers, costs, history, BreakersOK, CostsOK, HistoryOK
<1> QED
    BY <1>1, <1>2, <1>3, <1>4, <1>5, <1>6, <1>7, <1>8, <1>9, <1>10 DEF Next, Step

\* It holds at the start.
LEMMA InitType == Init => TypeOK /\ AtModel
    BY ModelFacts DEF Init, TypeOK, BreakersOK, RequestsOK, CostsOK, HistoryOK, AtModel,
       States, Pcs

\* Every variable of the router keeps its type.
THEOREM RouterTyped == Spec => []TypeOK
    BY InitType, StepType, PTL DEF Spec

-----------------------------------------------------------------------------
(* The overdraft.                                                          *)

\* Answers still to be recorded by the callers under way.
Load == Cardinality(First) + Cardinality(Second)

\* Sets of requests and of workers are finite and counted.
LEMMA Counted ==
    ASSUME NEW F \in SUBSET Request, NEW G \in SUBSET Workers
    PROVE  /\ IsFiniteSet(F) /\ IsFiniteSet(G)
           /\ Cardinality(F) \in Nat /\ Cardinality(G) \in Nat
           /\ Cardinality(Request) \in Nat /\ Cardinality(Workers) \in Nat
           /\ Cardinality(F) <= Cardinality(Request)
           /\ Cardinality(G) <= Cardinality(Workers)
<1>1. IsFiniteSet(Request) /\ IsFiniteSet(Workers)
    BY RouterAssumption, FS_Subset
<1>2. /\ IsFiniteSet(F) /\ Cardinality(F) <= Cardinality(Request)
      /\ IsFiniteSet(G) /\ Cardinality(G) <= Cardinality(Workers)
    BY <1>1, FS_Subset
<1> QED
    BY <1>1, <1>2, FS_CardinalityType

\* Multiplication is monotone.
LEMMA Monotone ==
    ASSUME NEW p \in Nat, NEW a \in Nat, NEW b \in Nat, a <= b
    PROVE  p * a <= p * b
<1>1. p * (b - a) >= 0
    OBVIOUS
<1>2. p * (b - a) = p * b - p * a
    OBVIOUS
<1> QED
    BY <1>1, <1>2

\* The arithmetic of a charge.
LEMMA Linear ==
    ASSUME NEW x \in Int, NEW y \in Int, NEW limit \in Int, NEW pLoad \in Int,
           NEW pNext \in Int, NEW pAll \in Int, NEW pf \in Int, NEW pg \in Int,
           NEW pd \in Int,
           x + pLoad <= limit + (pAll + pf), y <= x + pd,
           pd + pNext + pf <= pLoad + pg
    PROVE  y + pNext <= limit + (pAll + pg)
    OBVIOUS

\* What a step spends, d answers of at most p, it takes off the account.
LEMMA Ledger ==
    ASSUME NEW p \in Nat, NEW x \in Nat, NEW y \in Nat, NEW limit \in Nat,
           NEW load \in Nat, NEW next \in Nat, NEW all \in Nat,
           NEW f \in Nat, NEW g \in Nat, NEW d \in Nat,
           x + p * load <= limit + p * (all + f),
           y <= x + p * d, d + next + f <= load + g
    PROVE  y + p * next <= limit + p * (all + g)
<1>1. p * (d + next + f) <= p * (load + g)
    BY Monotone
<1>2. /\ p * (d + next + f) = p * d + p * next + p * f
      /\ p * (load + g) = p * load + p * g
      /\ p * (all + f) = p * all + p * f
      /\ p * (all + g) = p * all + p * g
    OBVIOUS
<1>3. /\ p * d \in Int /\ p * next \in Int /\ p * f \in Int
      /\ p * load \in Int /\ p * g \in Int /\ p * all \in Int
    OBVIOUS
<1>4. p * d + p * next + p * f <= p * load + p * g
    BY <1>1, <1>2
<1>5. x + p * load <= limit + (p * all + p * f)
    BY <1>2
<1>6. y + p * next <= limit + (p * all + p * g)
    BY <1>3, <1>4, <1>5, Linear
<1> QED
    BY <1>2, <1>6

\* The rows of a budget are numbers.
LEMMA LimitType ==
    ASSUME CostsOK, NEW s \in Scope, s \in DOMAIN budget.limit
    PROVE  budget.limit[s] \in Nat /\ spent[s] \in Nat /\ budget.action[s] \in Action
<1>1. PICK S \in SUBSET Scope : budget \in [limit : [S -> Nat], action : [S -> Action]]
    BY RouterAssumption DEF CostsOK
<1> QED
    BY <1>1 DEF CostsOK

\* There are three scopes.
LEMMA ScopesAt == Len(Scopes) = 3 /\ \A i \in 1..3 : Scopes[i] \in Scope
    BY DEF Scopes, Scope

\* A step that records no more than it takes off the callers' account.
LEMMA SpendStep ==
    ASSUME TypeOK, TypeOK', SpendInv, UNCHANGED budget,
           NEW d \in Nat, d + Load' + faults <= Load + faults',
           \A s \in Scope : spent'[s] <= spent[s] + MaxPrice * d
    PROVE  SpendInv'
<1> SUFFICES ASSUME NEW i \in 1..3, Hard(i)'
             PROVE  spent'[Scopes[i]] + MaxPrice * Load' <=
                        budget.limit[Scopes[i]] + MaxPrice *
                            (Cardinality(Request) + Cardinality(Workers) + faults')
    BY ScopesAt DEF SpendInv, Load
<1> DEFINE s == Scopes[i]
           all == Cardinality(Request) + Cardinality(Workers)
<1>1. Hard(i) /\ s \in Scope /\ s \in DOMAIN budget.limit
    BY ScopesAt DEF Hard
<1>2. spent[s] + MaxPrice * Load <= budget.limit[s] + MaxPrice * (all + faults)
    BY <1>1, ScopesAt DEF SpendInv, Load
<1>3. /\ budget.limit[s] \in Nat /\ spent[s] \in Nat
      /\ spent'[s] \in Nat /\ spent'[s] <= spent[s] + MaxPrice * d
    BY <1>1, LimitType DEF TypeOK, CostsOK
<1>4. Load \in Nat /\ all \in Nat
    BY Counted DEF Load, First, Second
<1>5. Load' \in Nat
    <2>1. First' \in SUBSET Request /\ Second' \in SUBSET Workers
        BY DEF First, Second
    <2>2. Cardinality(First') \in Nat /\ Cardinality(Second') \in Nat
        BY <2>1, Counted
    <2> QED
        BY <2>2 DEF Load
<1>6. MaxPrice \in Nat /\ faults \in Nat /\ faults' \in Nat
    BY RouterAssumption DEF TypeOK, HistoryOK
<1>7. spent'[s] + MaxPrice * Load' <= budget.limit[s] + MaxPrice * (all + faults')
    <2> HIDE DEF s, all
    <2> QED BY <1>2, <1>3, <1>4, <1>5, <1>6, Ledger
<1> QED
    BY <1>7 DEF s, all

\* Fewer callers under way owe less.
LEMMA LoadFalls ==
    ASSUME NEW F \in SUBSET Request, NEW G \in SUBSET Workers,
           NEW A \in SUBSET F, NEW B \in SUBSET G
    PROVE  /\ Cardinality(A) + Cardinality(B) \in Nat
           /\ Cardinality(F) + Cardinality(G) \in Nat
           /\ Cardinality(A) + Cardinality(B) <= Cardinality(F) + Cardinality(G)
<1>1. IsFiniteSet(F) /\ IsFiniteSet(G) /\ Cardinality(F) \in Nat /\ Cardinality(G) \in Nat
    BY Counted
<1>2. /\ IsFiniteSet(A) /\ Cardinality(A) <= Cardinality(F)
      /\ IsFiniteSet(B) /\ Cardinality(B) <= Cardinality(G)
    BY <1>1, FS_Subset
<1>3. Cardinality(A) \in Nat /\ Cardinality(B) \in Nat
    BY <1>2, FS_CardinalityType
<1> QED
    BY <1>1, <1>2, <1>3

\* A charge adds its price to each of its scopes and takes from none.
LEMMA ChargedGrows ==
    ASSUME CostsOK, NEW m \in Model, NEW k, NEW s \in Scope
    PROVE  Charged(m, k)[s] <= spent[s] + MaxPrice * 1
<1>1. /\ Price[m] \in Nat /\ Price[m] <= MaxPrice /\ MaxPrice \in Nat
      /\ spent[s] \in Nat /\ MaxPrice * 1 = MaxPrice
    BY RouterAssumption DEF CostsOK
<1>2. Charged(m, k)[s] \in {spent[s] + Price[m], spent[s]}
    BY DEF Charged
<1> QED
    BY <1>1, <1>2

\* A set of numbers has a least one.
LEMMA Least == ASSUME NEW S \in SUBSET Nat, S # {} PROVE \E m \in S : \A n \in S : m <= n
<1> DEFINE R == OpToRel(<, Nat)
<1>1. \A x, y \in Nat : ~(<<y, x>> \in R) => x <= y
    BY DEF OpToRel
<1>2. IsWellFoundedOn(R, Nat)
    BY NatLessThanWellFounded
<1> HIDE DEF R
<1>3. \E m \in S : \A n \in S : ~(<<n, m>> \in R)
    BY <1>2, WFMin
<1> QED
    BY <1>1, <1>3

\* A scope with a hard limit that stops requests decides before any that
\* only downgrades.
LEMMA AllowedWithinLimit ==
    ASSUME CostsOK, NEW e \in Nat, Allowed(e), NEW i \in 1..3, Hard(i)
    PROVE  spent[Scopes[i]] <= budget.limit[Scopes[i]]
<1>1. Scopes[i] \in Scope /\ Scopes[i] \in DOMAIN budget.limit
    BY ScopesAt DEF Hard
<1>2. budget.limit[Scopes[i]] \in Nat /\ spent[Scopes[i]] \in Nat
    BY <1>1, LimitType
<1>3. i \notin Violated(e)
    <2> SUFFICES ASSUME i \in Violated(e) PROVE FALSE
        OBVIOUS
    <2>1. Violated(e) \in SUBSET Nat /\ Violated(e) \subseteq 1..3
        BY ScopesAt DEF Violated
    <2> DEFINE j == CHOOSE k \in Violated(e) : \A l \in Violated(e) : k <= l
    <2>2. \E k \in Violated(e) : \A l \in Violated(e) : k <= l
        BY <2>1, Least
    <2>3. j \in Violated(e) /\ \A l \in Violated(e) : j <= l
        BY <2>2
    <2>4. Evaluate(e) = budget.action[Scopes[j]]
        BY DEF Evaluate
    <2> HIDE DEF j
    <2>5. j \in 1..i /\ j \in 1..3
        BY <2>1, <2>3
    <2>6. Scopes[j] \in DOMAIN budget.limit
        BY <2>3 DEF Violated
    <2>7. budget.action[Scopes[j]] # "downgrade"
        BY <2>5, <2>6 DEF Hard
    <2>8. budget.action[Scopes[j]] \in Action
        BY <2>5, <2>6, LimitType, ScopesAt
    <2> QED
        BY <2>4, <2>7, <2>8 DEF Allowed, Action
<1> QED
    BY <1>1, <1>2, <1>3, ScopesAt DEF Violated

\* The first model of a set is of the set.
LEMMA FirstOfIn == ASSUME NEW S \in SUBSET Model, S # {} PROVE FirstOf(S) \in S
<1>1. S \in SUBSET Nat
    BY ModelFacts
<1>2. \E m \in S : \A n \in S : m <= n
    BY <1>1, Least
<1> QED
    BY <1>2 DEF FirstOf

\* A caller that leaves the provider call, for the next candidate, the
\* backoff or for good, owes no more than before.
LEMMA AttemptLoad ==
    ASSUME RequestsOK, NEW r \in Request, pc[r] = "calling",
           NEW retryable, NEW st, NEW fl, NEW sk,
           AttemptFailed(r, retryable, st, fl, sk)
    PROVE  First' \in SUBSET First /\ Second' \in SUBSET Second
<1>1. PICK q \in Pcs : pc' = [pc EXCEPT ![r] = q]
    BY DEF AttemptFailed, Enter, End, Pcs
<1> QED
    BY <1>1 DEF First, Second, RequestsOK

\* It holds at the start.
LEMMA InitSpend == Init => SpendInv
<1> SUFFICES ASSUME Init, NEW i \in 1..3, Hard(i)
             PROVE  spent[Scopes[i]] + MaxPrice * (Cardinality(First) + Cardinality(Second))
                        <= budget.limit[Scopes[i]] + MaxPrice *
                            (Cardinality(Request) + Cardinality(Workers) + faults)
    BY ScopesAt DEF SpendInv
<1>1. Scopes[i] \in Scope /\ Scopes[i] \in DOMAIN budget.limit
    BY ScopesAt DEF Hard
<1>2. budget.limit[Scopes[i]] \in Nat /\ spent[Scopes[i]] = 0 /\ faults = 0
    BY <1>1, LimitType, InitType DEF Init, TypeOK
<1> DEFINE all == Cardinality(Request) + Cardinality(Workers)
<1>3. /\ Cardinality(First) + Cardinality(Second) \in Nat /\ all \in Nat
      /\ Cardinality(First) + Cardinality(Second) <= all
    BY Counted DEF First, Second
<1>4. MaxPrice * (Cardinality(First) + Cardinality(Second)) <= MaxPrice * all
    BY <1>3, Monotone, RouterAssumption
<1>5. MaxPrice * all \in Int /\ MaxPrice * (Cardinality(First) + Cardinality(Second)) \in Int
    BY <1>3, RouterAssumption
<1>6. all + faults = all
    BY <1>2, <1>3
<1> QED
    BY <1>2, <1>4, <1>5, <1>6

\* Every step keeps it.
LEMMA StepSpend == TypeOK /\ AtModel /\ SpendInv /\ [Next]_vars => SpendInv'
<1> SUFFICES ASSUME TypeOK, AtModel, SpendInv, [Next]_vars PROVE SpendInv'
    OBVIOUS
<1>t. TypeOK'
    BY StepType
<1>u. First \in SUBSET Request /\ Second \in SUBSET Workers
    BY DEF First, Second
<1>n. Load \in Nat /\ faults \in Nat /\ 0 \in Nat /\ 1 \in Nat /\ MaxPrice \in Nat
    BY <1>u, Counted, RouterAssumption DEF Load, TypeOK, HistoryOK
<1>f. \A s \in Scope : spent[s] \in Nat
    BY DEF TypeOK, CostsOK
\* Steps in which nobody comes, nobody leaves, and no scope spends.
<1>a. ASSUME UNCHANGED <<pc, budget, faults>>, \A s \in Scope : spent'[s] <= spent[s]
      PROVE  SpendInv'
    <2>1. Load' = Load /\ 0 + Load' + faults <= Load + faults'
        <3>1. First' = First /\ Second' = Second
            BY <1>a DEF First, Second
        <3> QED BY <3>1, <1>a, <1>n DEF Load
    <2>2. \A s \in Scope : spent'[s] <= spent[s] + MaxPrice * 0
        BY <1>a, <1>n, <1>f, <1>t DEF TypeOK, CostsOK
    <2> QED
        BY <1>a, <1>n, <1>t, <2>1, <2>2, SpendStep
\* Steps of a caller under way.
<1>b. ASSUME UNCHANGED budget, NEW m \in Model, NEW k,
             spent' = spent \/ spent' = Charged(m, k),
             faults' = faults + 1, First' \in SUBSET First, Second' \in SUBSET Second
      PROVE  SpendInv'
    <2>1. 1 + Load' + faults <= Load + faults'
        BY <1>b, <1>n, <1>u, LoadFalls DEF Load
    <2>2. \A s \in Scope : spent'[s] <= spent[s] + MaxPrice * 1
        BY <1>b, <1>n, <1>f, ChargedGrows DEF TypeOK
    <2> QED
        BY <1>b, <1>n, <1>t, <2>1, <2>2, SpendStep
<1>1. CASE Tick
    BY <1>1, <1>a, <1>f DEF Tick, requests, costs, history
<1>2. CASE OrgSpendAges
    <2>1. PICK k \in 0..(spent["org"] - 1) : spent' = [spent EXCEPT !["org"] = k]
        BY <1>2 DEF OrgSpendAges
    <2>2. \A s \in Scope : spent'[s] <= spent[s]
        BY <2>1, <1>f DEF TypeOK, CostsOK, Scope
    <2> QED
        BY <1>2, <2>2, <1>a DEF OrgSpendAges, requests, history
<1>3. ASSUME NEW S \in SUBSET Scope, WindowMoves(S) PROVE SpendInv'
    <2>1. \A s \in Scope : spent'[s] <= spent[s]
        <3> SUFFICES ASSUME NEW s \in Scope PROVE spent'[s] <= spent[s]
            OBVIOUS
        <3>1. spent'[s] = IF s \in S THEN 0 ELSE spent[s]
            BY <1>3 DEF WindowMoves
        <3> QED BY <3>1, <1>f
    <2> QED
        BY <1>3, <2>1, <1>a DEF WindowMoves, requests, history
<1>4. ASSUME NEW r \in Request, NEW tier \in Wanted, NEW big \in BOOLEAN,
             Arrive(r, tier, big)
      PROVE  SpendInv'
    <2> DEFINE first == Select(tier)
               all == Cardinality(Request) + Cardinality(Workers)
    <2> SUFFICES ASSUME NEW i \in 1..3, Hard(i)'
                 PROVE  spent'[Scopes[i]] + MaxPrice * Load'
                            <= budget'.limit[Scopes[i]] + MaxPrice * (all + faults')
        BY ScopesAt DEF SpendInv, Load
    <2>1. UNCHANGED <<spent, budget, faults>>
        BY <1>4 DEF Arrive, costs, history
    <2>2. Hard(i) /\ Scopes[i] \in Scope /\ Scopes[i] \in DOMAIN budget.limit
        BY <2>1, ScopesAt DEF Hard
    <2>3. Estimate[FirstOf(first)] \in Nat /\ Allowed(Estimate[FirstOf(first)])
        <3>1. first \in SUBSET Model /\ first # {} /\ Allowed(Estimate[FirstOf(first)])
            BY <1>4 DEF Arrive, Select
        <3> HIDE DEF first
        <3>2. FirstOf(first) \in Model
            BY <3>1, FirstOfIn
        <3> QED BY <3>1, <3>2, RouterAssumption
    <2> HIDE DEF first
    <2>4. spent[Scopes[i]] <= budget.limit[Scopes[i]]
        BY <2>2, <2>3, AllowedWithinLimit DEF TypeOK
    <2>5. spent[Scopes[i]] \in Nat /\ budget.limit[Scopes[i]] \in Nat
        BY <2>2, LimitType DEF TypeOK
    <2>6. Load' \in Nat /\ all \in Nat /\ Load' <= all
        <3>1. First' \in SUBSET Request /\ Second' \in SUBSET Workers
            BY DEF First, Second
        <3> QED BY <3>1, Counted DEF Load
    <2> HIDE DEF all
    <2>7. MaxPrice * Load' <= MaxPrice * (all + faults)
        <3>1. all + faults \in Nat /\ Load' <= all + faults
            BY <2>6, <1>n
        <3> HIDE DEF Load
        <3> QED BY <2>6, <3>1, <1>n, Monotone
    <2>8. MaxPrice * Load' \in Int /\ MaxPrice * (all + faults) \in Int
        BY <2>6, <1>n
    <2> QED
        BY <2>1, <2>4, <2>5, <2>7, <2>8
<1>5. ASSUME NEW r \in Request, CallSucceeds(r) PROVE SpendInv'
    <2>1. /\ current[r] \in Model /\ r \in First
          /\ UNCHANGED <<budget, faults>> /\ spent' = Charged(current[r], Len(Scopes))
        BY <1>5 DEF CallSucceeds, AtModel, First
    <2>2. First' = First \ {r} /\ Second' \in SUBSET Second
        <3>1. PICK q \in {"answered", "idle"} : pc' = [pc EXCEPT ![r] = q]
            BY <1>5 DEF CallSucceeds, End
        <3>2. pc[r] = "calling"
            BY <1>5 DEF CallSucceeds
        <3> QED BY <3>1, <3>2 DEF First, Second, TypeOK, RequestsOK
    <2>3. 1 + Load' + faults <= Load + faults'
        <3>1. Cardinality(First') = Cardinality(First) - 1
            BY <2>1, <2>2, <1>u, Counted, FS_RemoveElement
        <3>2. Cardinality(Second') <= Cardinality(Second)
            BY <2>2, <1>u, Counted, FS_Subset
        <3>3. Cardinality(Second') \in Nat /\ Cardinality(Second) \in Nat /\ Cardinality(First) \in Nat
            BY <2>2, <1>u, Counted
        <3> QED BY <2>1, <3>1, <3>2, <3>3, <1>n DEF Load
    <2>4. \A s \in Scope : spent'[s] <= spent[s] + MaxPrice * 1
        BY <2>1, ChargedGrows DEF TypeOK
    <2> QED
        BY <2>1, <2>3, <2>4, <1>n, <1>t, SpendStep
<1>6. ASSUME NEW r \in Request, WorkerRecords(r) PROVE SpendInv'
    <2>1. /\ current[r] \in Model /\ r \in Second
          /\ UNCHANGED <<budget, faults>> /\ spent' = Charged(current[r], Len(Scopes))
        BY <1>6 DEF WorkerRecords, AtModel, Second, history
    <2>2. First' \in SUBSET First /\ Second' = Second \ {r}
        <3>1. pc' = [pc EXCEPT ![r] = "idle"]
            BY <1>6 DEF WorkerRecords, End
        <3> QED BY <2>1, <3>1 DEF First, Second, TypeOK, RequestsOK
    <2>3. 1 + Load' + faults <= Load + faults'
        <3>1. Cardinality(Second') = Cardinality(Second) - 1
            BY <2>1, <2>2, <1>u, Counted, FS_RemoveElement
        <3>2. Cardinality(First') <= Cardinality(First)
            BY <2>2, <1>u, Counted, FS_Subset
        <3>3. Cardinality(First') \in Nat /\ Cardinality(Second) \in Nat /\ Cardinality(First) \in Nat
            BY <2>2, <1>u, Counted
        <3> QED BY <2>1, <3>1, <3>2, <3>3, <1>n DEF Load
    <2>4. \A s \in Scope : spent'[s] <= spent[s] + MaxPrice * 1
        BY <2>1, ChargedGrows DEF TypeOK
    <2> QED
        BY <2>1, <2>3, <2>4, <1>n, <1>t, SpendStep
<1>7. ASSUME NEW r \in Request, NEW retryable \in BOOLEAN, CallFails(r, retryable)
      PROVE  SpendInv'
    <2>1. First' \in SUBSET First /\ Second' \in SUBSET Second
        BY <1>7, AttemptLoad DEF CallFails, TypeOK
    <2>2. current[r] \in Model /\ faults' = faults + 1 /\ UNCHANGED <<spent, budget>>
        BY <1>7 DEF CallFails, AtModel, costs
    <2> QED
        BY <2>1, <2>2, <1>b
<1>8. ASSUME NEW r \in Request, NEW k \in 0..(Len(Scopes) - 1), RecordingFails(r, k)
      PROVE  SpendInv'
    <2>1. First' \in SUBSET First /\ Second' \in SUBSET Second
        BY <1>8, AttemptLoad DEF RecordingFails, TypeOK
    <2>2. /\ current[r] \in Model /\ faults' = faults + 1
          /\ spent' = Charged(current[r], k) /\ UNCHANGED budget
        BY <1>8 DEF RecordingFails, AtModel
    <2> QED
        BY <2>1, <2>2, <1>b
<1>9. ASSUME NEW r \in Request, Wake(r) PROVE SpendInv'
    <2>1. First' = First /\ Second' = Second
        BY <1>9 DEF Wake, First, Second, TypeOK, RequestsOK
    <2>2. UNCHANGED <<spent, budget, faults>>
        BY <1>9 DEF Wake, costs, history
    <2> QED
        BY <2>1, <2>2 DEF SpendInv, Hard
<1>10. CASE UNCHANGED vars
    BY <1>10, <1>a, <1>f DEF vars, requests, costs, history
<1> QED
    BY <1>1, <1>2, <1>3, <1>4, <1>5, <1>6, <1>7, <1>8, <1>9, <1>10 DEF Next, Step

\* The overshoot that follows from what is in flight.
LEMMA SpendBounds == TypeOK /\ SpendInv => OvershootBounded
<1> SUFFICES ASSUME TypeOK, SpendInv, NEW i \in 1..3, Hard(i)
             PROVE  spent[Scopes[i]] <= budget.limit[Scopes[i]] + MaxPrice *
                        (Cardinality(Request) + Cardinality(Workers) + faults)
    BY ScopesAt DEF OvershootBounded
<1> DEFINE all == Cardinality(Request) + Cardinality(Workers) + faults
<1>1. spent[Scopes[i]] + MaxPrice * Load <= budget.limit[Scopes[i]] + MaxPrice * all
    BY ScopesAt DEF SpendInv, Load
<1>2. Load \in Nat /\ MaxPrice \in Nat /\ all \in Nat
    BY Counted, RouterAssumption DEF Load, First, Second, TypeOK, HistoryOK
<1>3. Scopes[i] \in Scope /\ Scopes[i] \in DOMAIN budget.limit
    BY ScopesAt DEF Hard
<1>4. spent[Scopes[i]] \in Nat /\ budget.limit[Scopes[i]] \in Nat
    BY <1>3, LimitType DEF TypeOK
<1> HIDE DEF all
<1>5. MaxPrice * Load >= 0 /\ MaxPrice * Load \in Int /\ MaxPrice * all \in Int
    BY <1>2
<1>6. spent[Scopes[i]] <= budget.limit[Scopes[i]] + MaxPrice * all
    BY <1>1, <1>4, <1>5
<1> QED
    BY <1>6 DEF all

\* However requests overlap, time out, retry, fall back and fail halfway
\* through recording their cost, a hard limit is overdrawn by no more than one
\* answer per caller, one more per recording worker and one per fault.
THEOREM OverdraftBounded == Spec => []OvershootBounded
<1>1. Init => TypeOK /\ AtModel /\ SpendInv
    BY InitType, InitSpend
<1>2. TypeOK /\ AtModel /\ SpendInv /\ [Next]_vars => (TypeOK /\ AtModel /\ SpendInv)'
    BY StepType, StepSpend
<1>3. TypeOK /\ AtModel /\ SpendInv => OvershootBounded
    BY SpendBounds
<1> QED
    BY <1>1, <1>2, <1>3, PTL DEF Spec

-----------------------------------------------------------------------------
(* The breakers.                                                           *)

\* The breaker counts no more failures than really came in a row, and it is
\* closed unless they reached the threshold: a late answer starts both over.
BreakInv == /\ \A m \in Model : failures[m] <= streak[m]
            /\ OpenedByFailures

\* The walk over the candidates trips no breaker, and gets only to a model
\* that is not cooling.
LEMMA EnterBreaks ==
    ASSUME RequestsOK, NEW r \in Request, NEW models \in SUBSET Model,
           NEW after \in Nat, NEW st \in [Model -> States], NEW co,
           Enter(r, models, after, st, co), NEW m \in Model
    PROVE  /\ state'[m] # "closed" => st[m] # "closed"
           /\ CallsOn(m)' \subseteq CallsOn(m) \/ (m > after /\ ~Cooling(m, st, co))
<1>1. CASE End(r) /\ state' = st
    BY <1>1 DEF End, CallsOn, RequestsOK
<1>2. ASSUME NEW n \in models, n > after, ~Cooling(n, st, co),
             pc' = [pc EXCEPT ![r] = "calling"],
             current' = [current EXCEPT ![r] = n],
             state' = IF st[n] = "open" THEN [st EXCEPT ![n] = "half_open"] ELSE st
      PROVE  /\ state'[m] # "closed" => st[m] # "closed"
             /\ CallsOn(m)' \subseteq CallsOn(m) \/ (m > after /\ ~Cooling(m, st, co))
    <2>1. state'[m] # "closed" => st[m] # "closed"
        BY <1>2
    <2>2. CASE m = n
        BY <1>2, <2>1, <2>2
    <2>3. CASE m # n
        BY <1>2, <2>1, <2>3 DEF CallsOn, RequestsOK
    <2> QED
        BY <2>2, <2>3
<1> QED
    BY <1>1, <1>2 DEF Enter

\* A failed attempt counts for its model what it counts for the breaker, and
\* opens the breaker at the threshold only.
LEMMA AttemptBreaks ==
    ASSUME TypeOK, AtModel, NEW r \in Request, pc[r] = "calling",
           NEW retryable \in BOOLEAN, NEW st \in [Model -> States],
           NEW fl \in [Model -> 0..Threshold], NEW sk \in [Model -> 0..Threshold],
           \A n \in Model \ {current[r]} : st[n] = state[n],
           \A n \in Model : fl[n] <= sk[n] /\ (st[n] # "closed" => sk[n] = Threshold),
           AttemptFailed(r, retryable, st, fl, sk)
    PROVE  BreakInv' /\ CoolingAdmitsNobody
<1> DEFINE m == current[r]
           trips == Trips(m, st, fl)
<1>1. m \in Model /\ m \in Nat
    BY ModelFacts DEF AtModel
<1>2. CASE /\ pc' = [pc EXCEPT ![r] = "sleeping"]
           /\ state' = st /\ failures' = fl /\ streak' = sk
           /\ UNCHANGED <<cands, current, attempt, cool>>
    <2>1. BreakInv'
        BY <1>2 DEF BreakInv, OpenedByFailures
    <2>2. CoolingAdmitsNobody
        BY <1>2 DEF CoolingAdmitsNobody, CallsOn, TypeOK, RequestsOK
    <2> QED
        BY <2>1, <2>2
<1>3. CASE /\ failures' = [fl EXCEPT ![m] = IF trips THEN Threshold ELSE @ + 1]
           /\ streak' = [sk EXCEPT ![m] = IF @ < Threshold THEN @ + 1 ELSE @]
           /\ cool' = IF trips THEN [cool EXCEPT ![m] = Cooldown] ELSE cool
           /\ Enter(r, cands[r], m,
                    IF trips THEN [st EXCEPT ![m] = "open"] ELSE st, cool')
    <2> DEFINE left == IF trips THEN [st EXCEPT ![m] = "open"] ELSE st
    <2>1. trips <=> st[m] = "half_open" \/ fl[m] + 1 >= Threshold
        BY DEF Trips
    <2>2. /\ fl[m] \in Nat /\ sk[m] \in Nat /\ sk[m] <= Threshold
          /\ fl[m] <= sk[m] /\ Threshold \in Nat
          /\ st[m] = "half_open" => sk[m] = Threshold
        BY <1>1, RouterAssumption
    <2> HIDE DEF trips
    <2>3. left \in [Model -> States] /\ cands[r] \in SUBSET Model
        BY DEF States, TypeOK, RequestsOK
    <2>4. \A n \in Model :
              /\ state'[n] # "closed" => left[n] # "closed"
              /\ CallsOn(n)' \subseteq CallsOn(n) \/ (n > m /\ ~Cooling(n, left, cool'))
        <3> HIDE DEF left, m
        <3>1. Enter(r, cands[r], m, left, cool')
            BY <1>3 DEF left
        <3> QED
            BY <1>1, <2>3, <3>1, EnterBreaks DEF TypeOK
    <2>5. \A n \in Model \ {m} :
              /\ failures'[n] = fl[n] /\ streak'[n] = sk[n] /\ cool'[n] = cool[n]
              /\ left[n] = st[n]
        <3> HIDE DEF m
        <3> QED BY <1>1, <1>3 DEF TypeOK, BreakersOK
    <2>6. /\ failures'[m] = IF trips THEN Threshold ELSE fl[m] + 1
          /\ streak'[m] = IF sk[m] < Threshold THEN sk[m] + 1 ELSE sk[m]
          /\ ~trips => left[m] = st[m]
        <3> HIDE DEF m
        <3> QED BY <1>1, <1>3
    <2> HIDE DEF left
    <2>7. failures'[m] <= streak'[m] /\ (left[m] # "closed" => streak'[m] = Threshold)
        <3>1. CASE trips
            BY <3>1, <2>1, <2>2, <2>6
        <3>2. CASE ~trips
            <4>1. left[m] # "closed" => sk[m] = Threshold
                BY <1>1, <2>6, <3>2
            <4> QED
                BY <3>2, <4>1, <2>1, <2>2, <2>6
        <3> QED
            BY <3>1, <3>2
    <2>8. BreakInv'
        <3> SUFFICES ASSUME NEW n \in Model
                     PROVE  /\ failures'[n] <= streak'[n]
                            /\ state'[n] # "closed" => streak'[n] = Threshold
            BY DEF BreakInv, OpenedByFailures
        <3>1. CASE n = m
            BY <2>4, <2>7, <3>1
        <3>2. CASE n # m
            <4> HIDE DEF m
            <4> QED BY <2>4, <2>5, <3>2
        <3> QED
            BY <3>1, <3>2
    <2>9. CoolingAdmitsNobody
        <3> SUFFICES ASSUME NEW n \in Model, state[n] = "open", cool[n] > 0
                     PROVE  CallsOn(n)' \subseteq CallsOn(n)
            BY DEF CoolingAdmitsNobody
        <3>1. CASE n > m
            <4>1. n # m
                BY <1>1, <3>1
            <4>2. Cooling(n, left, cool')
                BY <2>5, <4>1 DEF Cooling
            <4> QED
                BY <2>4, <4>2
        <3>2. CASE ~(n > m)
            BY <2>4, <3>2
        <3> QED
            BY <3>1, <3>2
    <2> QED
        BY <2>8, <2>9
<1> QED
    BY <1>2, <1>3 DEF AttemptFailed

\* Every step keeps it, and admits nobody to a model that cools down.
LEMMA StepBreaks ==
    ASSUME TypeOK, AtModel, BreakInv, [Next]_vars
    PROVE  BreakInv' /\ CoolingAdmitsNobody
<1>a. ASSUME UNCHANGED <<state, failures, streak>> PROVE BreakInv'
    BY <1>a DEF BreakInv, OpenedByFailures
<1>b. ASSUME UNCHANGED <<pc, current>> PROVE CoolingAdmitsNobody
    BY <1>b DEF CoolingAdmitsNobody, CallsOn
<1>1. CASE Tick
    BY <1>1, <1>a, <1>b DEF Tick, requests, history
<1>2. CASE OrgSpendAges
    BY <1>2, <1>a, <1>b DEF OrgSpendAges, breakers, requests, history
<1>3. ASSUME NEW S \in SUBSET Scope, WindowMoves(S)
      PROVE  BreakInv' /\ CoolingAdmitsNobody
    BY <1>3, <1>a, <1>b DEF WindowMoves, breakers, requests, history
<1>4. ASSUME NEW r \in Request, NEW tier \in Wanted, NEW big \in BOOLEAN,
             Arrive(r, tier, big)
      PROVE  BreakInv' /\ CoolingAdmitsNobody
    <2> DEFINE fits == Fitting(Candidates(tier), big)
    <2>1. fits \in SUBSET Model
        BY DEF Fitting, Candidates, Select
    <2>2. Enter(r, fits, 0, state, cool) /\ UNCHANGED <<failures, streak>>
        BY <1>4 DEF Arrive, history
    <2> HIDE DEF fits
    <2>3. \A m \in Model :
              /\ state'[m] # "closed" => state[m] # "closed"
              /\ CallsOn(m)' \subseteq CallsOn(m) \/ ~Cooling(m, state, cool)
        BY <2>1, <2>2, EnterBreaks DEF TypeOK, BreakersOK
    <2>4. BreakInv'
        BY <2>2, <2>3 DEF BreakInv, OpenedByFailures
    <2>5. CoolingAdmitsNobody
        BY <2>3 DEF CoolingAdmitsNobody, Cooling
    <2> QED
        BY <2>4, <2>5
<1>5. ASSUME NEW r \in Request, CallSucceeds(r) PROVE BreakInv' /\ CoolingAdmitsNobody
    <2>1. current[r] \in Model
        BY <1>5 DEF CallSucceeds, AtModel
    <2>2. /\ state' = [state EXCEPT ![current[r]] = "closed"]
          /\ failures' = [failures EXCEPT ![current[r]] = 0]
          /\ streak' = [streak EXCEPT ![current[r]] = 0]
        BY <1>5 DEF CallSucceeds, Closed, Zeroed
    <2>3. BreakInv'
        BY <2>1, <2>2 DEF BreakInv, OpenedByFailures, TypeOK, BreakersOK, HistoryOK
    <2>4. pc[r] = "calling" /\ (\/ pc' = [pc EXCEPT ![r] = "answered"] /\ UNCHANGED current
                                \/ End(r))
        BY <1>5 DEF CallSucceeds
    <2>5. CoolingAdmitsNobody
        BY <2>4 DEF End, CoolingAdmitsNobody, CallsOn, TypeOK, RequestsOK
    <2> QED
        BY <2>3, <2>5
<1>6. ASSUME NEW r \in Request, WorkerRecords(r) PROVE BreakInv' /\ CoolingAdmitsNobody
    <2>1. CoolingAdmitsNobody
        BY <1>6 DEF WorkerRecords, End, CoolingAdmitsNobody, CallsOn, TypeOK, RequestsOK
    <2> QED
        BY <1>6, <1>a, <2>1 DEF WorkerRecords, breakers, history
<1>7. ASSUME NEW r \in Request, NEW retryable \in BOOLEAN, CallFails(r, retryable)
      PROVE  BreakInv' /\ CoolingAdmitsNobody
    <2>1. pc[r] = "calling" /\ AttemptFailed(r, retryable, state, failures, streak)
        BY <1>7 DEF CallFails
    <2>2. \A n \in Model : /\ failures[n] <= streak[n]
                           /\ state[n] # "closed" => streak[n] = Threshold
        BY DEF BreakInv, OpenedByFailures
    <2>3. /\ state \in [Model -> States] /\ failures \in [Model -> 0..Threshold]
          /\ streak \in [Model -> 0..Threshold]
        BY DEF TypeOK, BreakersOK, HistoryOK
    <2> QED
        BY <2>1, <2>2, <2>3, AttemptBreaks
<1>8. ASSUME NEW r \in Request, NEW k \in 0..(Len(Scopes) - 1), RecordingFails(r, k)
      PROVE  BreakInv' /\ CoolingAdmitsNobody
    <2> DEFINE m == current[r]
               sk == [streak EXCEPT ![m] = 0]
    <2>1. m \in Model /\ pc[r] = "calling" /\ AttemptFailed(r, TRUE, Closed(m), Zeroed(m), sk)
        BY <1>8 DEF RecordingFails, AtModel
    <2>2. /\ Closed(m) \in [Model -> States] /\ Zeroed(m) \in [Model -> 0..Threshold]
          /\ sk \in [Model -> 0..Threshold]
        BY <2>1, ModelFacts DEF Closed, Zeroed, TypeOK, BreakersOK, HistoryOK, States
    <2>3. \A n \in Model \ {m} : Closed(m)[n] = state[n]
        BY DEF Closed, TypeOK, BreakersOK
    <2>4. \A n \in Model : /\ Zeroed(m)[n] <= sk[n]
                           /\ Closed(m)[n] # "closed" => sk[n] = Threshold
        BY <2>1 DEF Closed, Zeroed, BreakInv, OpenedByFailures, TypeOK, BreakersOK, HistoryOK
    <2> HIDE DEF sk
    <2> QED
        BY <2>1, <2>2, <2>3, <2>4, AttemptBreaks
<1>9. ASSUME NEW r \in Request, Wake(r) PROVE BreakInv' /\ CoolingAdmitsNobody
    <2>1. CoolingAdmitsNobody
        BY <1>9 DEF Wake, CoolingAdmitsNobody, CallsOn, TypeOK, RequestsOK
    <2> QED
        BY <1>9, <1>a, <2>1 DEF Wake, breakers, history
<1>10. CASE UNCHANGED vars
    BY <1>10, <1>a, <1>b DEF vars, breakers, requests, history
<1> QED
    BY <1>1, <1>2, <1>3, <1>4, <1>5, <1>6, <1>7, <1>8, <1>9, <1>10 DEF Next, Step

\* It holds at the start.
LEMMA InitBreaks == Init => BreakInv
    BY DEF Init, BreakInv, OpenedByFailures

\* However answers, retries, fallbacks and late failures overlap: a breaker is
\* open only after as many failures in a row as its threshold, and while it
\* cools down no request that was not at its model gets to it.
THEOREM BreakersAreSound == Spec => BreakersSound
<1>1. Init => TypeOK /\ AtModel /\ BreakInv
    BY InitType, InitBreaks
<1>2. /\ TypeOK /\ AtModel /\ BreakInv /\ [Next]_vars
      => (TypeOK /\ AtModel /\ BreakInv)' /\ CoolingAdmitsNobody
    BY StepType, StepBreaks
<1>3. /\ (TypeOK /\ AtModel /\ BreakInv)' /\ CoolingAdmitsNobody
      => [OpenedByFailures' /\ CoolingAdmitsNobody]_vars
    BY DEF BreakInv
<1> QED
    BY <1>1, <1>2, <1>3, PTL DEF Spec, BreakersSound
=============================================================================

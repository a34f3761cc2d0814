----------------------------- MODULE ServerProofs -----------------------------
(***************************************************************************)
(* What a server process keeps, for any number of replicas and any bounds: *)
(* its start and its secrets, the skills it runs, its bridge to the        *)
(* database, its event stream and rate limits, the audit log it writes,    *)
(* the work graphs, the crawls and the code changes it works on.  Each     *)
(* component has an inductive invariant of its own.                        *)
(***************************************************************************)
EXTENDS SkillRuntime, SkillCatalog, Secrets, Boot, EventStream, PgBridge, AuditLog,
        ChangeGates, WorkGraph, Crawl, RateLimiter,
        FiniteSetTheorems, SequenceTheorems, WellFoundedInduction, TLAPS

-----------------------------------------------------------------------------
(* Sets of numbers.                                                         *)

\* A set of naturals that is not empty has a least element.
LEMMA LeastOf ==
    ASSUME NEW S \in SUBSET Nat, S # {}
    PROVE  \E i \in S : \A j \in S : i <= j
<1> DEFINE R == OpToRel(<, Nat)
<1>1. IsWellFoundedOn(R, Nat)
    BY NatLessThanWellFounded
<1>2. \A i, j \in Nat : <<j, i>> \in R <=> j < i
    BY DEF OpToRel
<1> HIDE DEF R
<1>3. PICK i \in S : \A j \in S : ~(<<j, i>> \in R)
    <2>1. S \subseteq Nat
        OBVIOUS
    <2> QED
        BY <1>1, <2>1, WFMin, Zenon
<1>4. \A j \in S : ~(j < i)
    BY <1>2, <1>3
<1> QED
    BY <1>4

\* One that is bounded has a greatest element.
LEMMA GreatestOf ==
    ASSUME NEW n \in Nat, NEW S \in SUBSET (0..n), S # {}
    PROVE  \E i \in S : \A j \in S : j <= i
<1> DEFINE U == {u \in Nat : \A j \in S : j <= u}
<1>1. n \in U
    OBVIOUS
<1>2. PICK u \in U : \A v \in U : u <= v
    <2>1. U \in SUBSET Nat /\ U # {}
        BY <1>1
    <2> HIDE DEF U
    <2> QED
        BY <2>1, LeastOf, Zenon
<1>3. u \in S
    <2> SUFFICES ASSUME u \notin S PROVE FALSE
        OBVIOUS
    <2>1. \A j \in S : j < u
        OBVIOUS
    <2>2. PICK j \in S : TRUE
        OBVIOUS
    <2>3. u - 1 \in Nat
        BY <2>1, <2>2
    <2>4. \A i \in S : i <= u - 1
        BY <2>1
    <2>5. u <= u - 1
        BY <1>2, <2>3, <2>4
    <2> QED
        BY <2>3, <2>5
<1> QED
    BY <1>3

\* Induction up to n, over the numbers of a set.
LEMMA UpTo ==
    ASSUME NEW n \in Nat, NEW S, 0 \in S, \A k \in 1..n : k - 1 \in S => k \in S
    PROVE  \A k \in 0..n : k \in S
<1> DEFINE Bad == {k \in 0..n : k \notin S}
<1> SUFFICES ASSUME Bad # {} PROVE FALSE
    OBVIOUS
<1>1. PICK b \in Bad : \A c \in Bad : b <= c
    <2>1. Bad \in SUBSET Nat
        OBVIOUS
    <2> HIDE DEF Bad
    <2> QED
        BY <2>1, LeastOf
<1>2. b \in 1..n /\ b - 1 \in 0..n
    OBVIOUS
<1>3. b - 1 \in S
    <2>1. ~(b <= b - 1)
        BY <1>2
    <2> QED
        BY <1>1, <1>2, <2>1
<1> QED
    BY <1>2, <1>3

\* f has v for its first value, and each next one from the one before.
Iterates(n, v, G, f) == f[0] = v /\ \A k \in 1..n : f[k] = G[k][f[k - 1]]

\* There is such a function.
LEMMA Recursion ==
    ASSUME NEW n \in Nat, NEW V, NEW v \in V, NEW G \in [1..n -> [V -> V]]
    PROVE  \E f \in [0..n -> V] : Iterates(n, v, G, f)
<1> DEFINE Good(m, f) == /\ f \in [0..m -> V] /\ f[0] = v
                         /\ \A k \in 1..m : f[k] = G[k][f[k - 1]]
           S == {m \in Nat : \E f : Good(m, f)}
<1>1. 0 \in S
    <2> DEFINE f == [k \in 0..0 |-> v]
    <2>1. Good(0, f)
        OBVIOUS
    <2> QED
        BY <2>1
<1>2. ASSUME NEW k \in 1..n, k - 1 \in S PROVE k \in S
    <2>1. PICK f : Good(k - 1, f)
        BY <1>2
    <2> DEFINE g == [j \in 0..k |-> IF j = k THEN G[k][f[k - 1]] ELSE f[j]]
    <2>2. k - 1 \in Nat /\ f[k - 1] \in V /\ G[k] \in [V -> V]
        BY <2>1
    <2>3. g \in [0..k -> V]
        BY <2>1, <2>2
    <2>4. g[0] = v
        BY <2>1
    <2>5. ASSUME NEW j \in 1..k PROVE g[j] = G[j][g[j - 1]]
        <3>1. j - 1 \in 0..k /\ j - 1 # k /\ g[j - 1] = f[j - 1]
            OBVIOUS
        <3>2. CASE j = k
            BY <3>1, <3>2
        <3>3. CASE j # k
            BY <2>1, <3>1, <3>3
        <3> QED
            BY <3>2, <3>3
    <2>6. Good(k, g)
        BY <2>3, <2>4, <2>5
    <2>7. k \in Nat
        OBVIOUS
    <2> HIDE DEF g, Good
    <2> QED
        BY <2>6, <2>7
<1>3. n \in S
    <2> HIDE DEF S
    <2>1. \A k \in 1..n : k - 1 \in S => k \in S
        BY <1>2
    <2>2. \A k \in 0..n : k \in S
        BY <1>1, <2>1, UpTo
    <2> QED
        BY <2>2
<1> QED
    BY <1>3 DEF Iterates

-----------------------------------------------------------------------------
(* One execution of a skill.                                                *)

\* The attempt under way has made the outputs up to its step, and whatever is
\* still running beside it is of an earlier one; a sleep has attempts left.
AttemptInv ==
    /\ attempt = 0 => step = 0 /\ strays = {}
    /\ attempt > 0 => refusing = {}
    /\ step # 0 => /\ result = "none"
                   /\ \A i \in 1..NSteps : i < step => held[i] = attempt
                   /\ \A s \in strays : s[1] < attempt
    /\ attempt > 0 /\ step = 0 /\ result = "none" => attempt < handling.maxAttempts
    /\ \A s, t \in strays : s[1] = t[1] => s = t

\* A result is final: escalated as the contract says, or verified with outputs
\* that are all of the last attempt.
FinalInv ==
    /\ refusing \subseteq {Gates[i] : i \in 1..5}
    /\ result = "none" => escalated = 0 /\ skillRow = "none"
    /\ result = "ok" => /\ refusing = {} /\ escalated = 0
                        /\ \A i \in 1..NSteps : held[i] = attempt
    /\ result \notin {"none", "ok"} => escalated = (IF Escalates THEN 1 ELSE 0)
    /\ skillRow = "success" => result = "ok"

SkillInv == SkillTypeOK /\ AttemptInv /\ FinalInv

\* The contract is one of those looked at, and its attempts are counted.
LEMMA Contracts ==
    ASSUME NEW h \in Handlings
    PROVE  h.maxAttempts \in Nat \ {0}
BY SkillAssumption

\* It holds at the start.
LEMMA SkillInitInv == SkillInit => SkillInv
<1> SUFFICES ASSUME SkillInit PROVE SkillInv
    OBVIOUS
<1>1. handling.maxAttempts \in Nat \ {0}
    BY Contracts DEF SkillInit
<1>2. refusing \subseteq {Gates[i] : i \in 1..5}
    BY DEF SkillInit, Gates
<1> QED
    BY <1>1, <1>2, SkillAssumption
    DEF SkillInit, SkillInv, SkillTypeOK, AttemptInv, FinalInv, VERIFY

\* An attempt that fails leaves a failure, or a sleep with attempts left.
LEMMA AttemptKeeps ==
    ASSUME SkillInv, NEW class \in Retryable, AttemptFails(class), step # 0,
           \/ UNCHANGED strays
           \/ strays' = strays \cup {<<attempt, step>>}
    PROVE  SkillInv'
<1> USE DEF SkillInv
<1>1. /\ attempt \in Nat /\ attempt > 0 /\ handling.maxAttempts \in Nat \ {0}
      /\ attempt <= handling.maxAttempts /\ result = "none" /\ escalated = 0
      /\ step \in 1..VERIFY /\ VERIFY \in Nat
    BY Contracts, SkillAssumption DEF SkillTypeOK, AttemptInv, FinalInv, VERIFY
<1>2. /\ step' = 0 /\ UNCHANGED <<handling, refusing, attempt, held, skillRow>>
      /\ \/ attempt < handling.maxAttempts /\ UNCHANGED <<result, escalated>>
         \/ result' = class /\ escalated' = (IF Escalates THEN 1 ELSE 0)
    BY <1>1 DEF AttemptFails, Fail
<1>3. class \notin {"none", "ok"} /\ skillRow = "none" /\ Escalates' = Escalates
    BY <1>1, <1>2 DEF Retryable, FinalInv, Escalates
<1>4. strays' \subseteq (1..attempt) \X (1..VERIFY)
    BY <1>1 DEF SkillTypeOK
<1>5. \A s, t \in strays' : s[1] = t[1] => s = t
    BY <1>1 DEF AttemptInv
<1>6. SkillTypeOK'
    BY <1>1, <1>2, <1>3, <1>4 DEF SkillTypeOK
<1>7. AttemptInv'
    BY <1>1, <1>2, <1>3, <1>5 DEF AttemptInv
<1>8. FinalInv'
    BY <1>1, <1>2, <1>3 DEF FinalInv
<1> QED
    BY <1>6, <1>7, <1>8

\* Every step keeps it.
LEMMA SkillStepInv == SkillInv /\ [SkillNext]_skillVars => SkillInv'
<1> SUFFICES ASSUME SkillInv, [SkillNext]_skillVars PROVE SkillInv'
    OBVIOUS
<1> USE DEF SkillInv
<1>1. /\ attempt \in Nat /\ handling.maxAttempts \in Nat \ {0} /\ NSteps \in Nat
      /\ attempt <= handling.maxAttempts /\ step \in 0..VERIFY /\ VERIFY \in Nat
      /\ VERIFY = NSteps + 1 /\ handling \in Handlings
    BY Contracts, SkillAssumption DEF SkillTypeOK, VERIFY
<1>2. CASE ExecuteSkill /\ refusing # {}
    <2>1. /\ attempt = 0 /\ result = "none" /\ result' = FirstRefusal
          /\ escalated' = escalated + (IF Escalates THEN 1 ELSE 0)
          /\ UNCHANGED <<attempt, step, handling, refusing, strays, held, skillRow>>
        BY <1>2 DEF ExecuteSkill, Fail
    <2>2. FirstRefusal \notin {"none", "ok"}
        <3> DEFINE no == {i \in 1..5 : Gates[i] \in refusing}
        <3>1. PICK i \in no : \A j \in no : i <= j
            <4>1. no # {}
                BY <1>2 DEF FinalInv
            <4> QED
                BY <4>1
        <3>2. FirstRefusal = Gates[CHOOSE k \in no : \A j \in no : k <= j]
            BY DEF FirstRefusal, Gates
        <3>3. \E k \in 1..5 : FirstRefusal = Gates[k]
            BY <3>1, <3>2
        <3> QED
            BY <3>3 DEF Gates
    <2>3. escalated = 0 /\ skillRow = "none" /\ Escalates' = Escalates
        BY <2>1 DEF FinalInv, Escalates
    <2> QED
        BY <1>1, <1>2, <2>1, <2>2, <2>3 DEF SkillTypeOK, AttemptInv, FinalInv
<1>3. CASE ExecuteSkill /\ refusing = {}
    <2>1. /\ attempt = 0 /\ result = "none" /\ attempt' = 1 /\ step' = 1
          /\ UNCHANGED <<result, escalated, handling, refusing, strays, held, skillRow>>
        BY <1>3 DEF ExecuteSkill
    <2>2. strays = {} /\ held \in [1..NSteps -> 0..1]
        BY <2>1 DEF SkillTypeOK, AttemptInv
    <2> QED
        BY <1>1, <1>3, <2>1, <2>2 DEF SkillTypeOK, AttemptInv, FinalInv
<1>4. CASE StepDone
    <2>1. /\ held' = [held EXCEPT ![step] = attempt] /\ step' = step + 1
          /\ step \in 1..NSteps
          /\ UNCHANGED <<handling, refusing, attempt, strays, result, escalated, skillRow>>
        BY <1>4 DEF StepDone
    <2>2. /\ held'[step] = attempt
          /\ \A i \in 1..NSteps : i # step => held'[i] = held[i]
          /\ held' \in [1..NSteps -> 0..attempt]
        BY <1>1, <2>1 DEF SkillTypeOK
    <2>3. result = "none" /\ attempt > 0 /\ Escalates' = Escalates
        BY <1>1, <2>1 DEF AttemptInv, Escalates
    <2>4. SkillTypeOK' /\ FinalInv'
        BY <1>1, <2>1, <2>2, <2>3 DEF SkillTypeOK, FinalInv
    <2>5. \A i \in 1..NSteps : i < step' => held'[i] = attempt
        BY <1>1, <2>1, <2>2 DEF AttemptInv
    <2>6. AttemptInv'
        BY <1>1, <2>1, <2>3, <2>5 DEF AttemptInv
    <2> QED
        BY <2>4, <2>6
<1>5. CASE Verified
    <2>1. /\ step = VERIFY /\ result' = "ok" /\ step' = 0
          /\ UNCHANGED <<handling, refusing, attempt, strays, held, escalated, skillRow>>
        BY <1>5 DEF Verified
    <2>2. /\ result = "none" /\ attempt > 0 /\ refusing = {}
          /\ \A i \in 1..NSteps : held[i] = attempt
        BY <1>1, <2>1 DEF AttemptInv
    <2>3. escalated = 0 /\ skillRow = "none"
        BY <2>2 DEF FinalInv
    <2> QED
        BY <1>1, <2>1, <2>2, <2>3 DEF SkillTypeOK, AttemptInv, FinalInv
<1>6. CASE StepRaises \/ NotVerified \/ StepTimesOut
    BY <1>1, <1>6, AttemptKeeps DEF StepRaises, NotVerified, StepTimesOut, Retryable
<1>7. CASE NextAttempt
    <2>1. /\ attempt > 0 /\ step = 0 /\ result = "none"
          /\ attempt' = attempt + 1 /\ step' = 1
          /\ UNCHANGED <<handling, refusing, strays, held, result, escalated, skillRow>>
        BY <1>7 DEF NextAttempt
    <2>2. attempt < handling.maxAttempts
        BY <2>1 DEF AttemptInv
    <2>3. strays \subseteq (1..(attempt + 1)) \X (1..VERIFY)
        BY <1>1 DEF SkillTypeOK
    <2>4. \A s \in strays : s[1] < attempt + 1
        BY <1>1 DEF SkillTypeOK
    <2>5. held \in [1..NSteps -> 0..(attempt + 1)]
        BY <1>1 DEF SkillTypeOK
    <2> QED
        BY <1>1, <2>1, <2>2, <2>3, <2>4, <2>5 DEF SkillTypeOK, AttemptInv, FinalInv
<1>8. CASE RecordSkill
    <2>1. Escalates' = Escalates
        BY <1>8 DEF RecordSkill, Escalates
    <2> QED
        BY <1>1, <1>8, <2>1 DEF RecordSkill, SkillTypeOK, AttemptInv, FinalInv
<1>9. ASSUME NEW s \in strays, StrayEnds(s)
      PROVE  SkillInv'
    <2>1. Escalates' = Escalates /\ strays' \subseteq strays
        BY <1>9 DEF StrayEnds, Escalates
    <2> QED
        BY <1>1, <1>9, <2>1 DEF StrayEnds, SkillTypeOK, AttemptInv, FinalInv
<1>10. CASE UNCHANGED skillVars
    <2>1. Escalates' = Escalates
        BY <1>10 DEF skillVars, Escalates
    <2> QED
        BY <1>10, <2>1 DEF skillVars, SkillTypeOK, AttemptInv, FinalInv
<1> QED
    BY <1>2, <1>3, <1>4, <1>5, <1>6, <1>7, <1>8, <1>9, <1>10 DEF SkillNext, ExecuteSkill

\* The invariant says that a success is one attempt's.
LEMMA SkillInvIsOne == SkillInv => SuccessIsOneAttempt
<1> SUFFICES ASSUME SkillInv PROVE SuccessIsOneAttempt
    OBVIOUS
<1>1. result \in refusing => attempt = 0
    BY DEF SkillInv, AttemptInv, SkillTypeOK
<1> QED
    BY <1>1 DEF SkillInv, AttemptInv, FinalInv, SuccessIsOneAttempt

-----------------------------------------------------------------------------
(* SkillCatalog: contracts are an organisation's own, claims keep backing.  *)

\* What an execution holds: the contract it was started under, which was valid
\* where it runs, and, after a success, a record for each of its claims.
ContractOf(r) ==
    LET by == skillRuns[r].contract IN
    /\ skillRuns[r].skill \in Registered(skillRuns[r].pod)
    /\ by # NoOverride =>
          by.by = skillRuns[r].agency /\ by.enabled /\ Accepts(skillRuns[r].pod, by.loose)

RunHolds(r) ==
    /\ skillRuns[r].pc \in {"new", "running", "refused", "success", "failed"}
    /\ skillRuns[r].pc \in {"running", "success", "failed"} => ContractOf(r)
    /\ skillRuns[r].pc = "success" =>
          Unbacked(skillRuns[r].agency, skillRuns[r].claims) = {}

PostInv ==
    /\ post.pc \in {"idle", "inserted"}
    /\ post.pc = "idle" /\ post # NoPost =>
          Unbacked(post.agency, post.claims) \subseteq post.told

\* An override is the one its organisation stored.
OverrideInv ==
    /\ override \in [Agency \X Skill -> [by : Agency \cup {"nobody"}, loose : BOOLEAN,
                                         enabled : BOOLEAN]]
    /\ \A a \in Agency, s \in Skill : override[<<a, s>>] = NoOverride \/ override[<<a, s>>].by = a

CatalogInv == /\ OverrideInv /\ PostInv
              /\ skillRuns = [r \in Run |-> skillRuns[r]]
              /\ records \in Seq(Agency \X EvidenceType)
              /\ \A r \in Run : RunHolds(r)

\* It holds at the start.
LEMMA CatalogInitInv == CatalogInit => CatalogInv
<1> SUFFICES ASSUME CatalogInit PROVE CatalogInv
    OBVIOUS
<1>1. OverrideInv
    BY DEF CatalogInit, OverrideInv, NoOverride
<1>2. PostInv
    BY DEF CatalogInit, PostInv, NoPost
<1>3. skillRuns = [r \in Run |-> skillRuns[r]]
    BY DEF CatalogInit
<1>4. \A r \in Run : RunHolds(r)
    BY DEF CatalogInit, RunHolds, NotStarted
<1>5. records \in Seq(Agency \X EvidenceType)
    BY DEF CatalogInit
<1> QED
    BY <1>1, <1>2, <1>3, <1>4, <1>5 DEF CatalogInv

\* What is backed stays backed: records are only added.
LEMMA RecordsStay ==
    ASSUME CatalogInv, CatalogNext,
           records' = records \/ \E a \in Agency, t \in EvidenceType :
                                    records' = Append(records, <<a, t>>)
    PROVE  \A a, C : Unbacked(a, C)' \subseteq Unbacked(a, C)
<1>1. ASSUME NEW a PROVE Types(a) \subseteq Types(a)'
    <2>1. CASE records' = records
        BY <2>1 DEF Types
    <2>2. CASE \E b \in Agency, t \in EvidenceType : records' = Append(records, <<b, t>>)
        <3>1. DOMAIN records \subseteq DOMAIN records'
            BY <2>2 DEF CatalogInv
        <3>2. \A i \in DOMAIN records : records'[i] = records[i]
            BY <2>2 DEF CatalogInv
        <3> QED
            BY <3>1, <3>2 DEF Types
    <2> QED
        BY <2>1, <2>2
<1> QED
    BY <1>1 DEF Unbacked

\* An execution that is left alone keeps what it holds.
LEMMA RunKeeps ==
    ASSUME CatalogInv, NEW r \in Run, skillRuns'[r] = skillRuns[r],
           \A a, C : Unbacked(a, C)' \subseteq Unbacked(a, C)
    PROVE  RunHolds(r)'
<1>1. skillRuns[r].pc \in {"running", "success", "failed"} => ContractOf(r)'
    BY DEF CatalogInv, RunHolds, ContractOf, Registered, Accepts, NoOverride
<1>2. ASSUME skillRuns[r].pc = "success",
             NEW a, NEW C, a = skillRuns[r].agency, C = skillRuns[r].claims
      PROVE  Unbacked(skillRuns[r].agency, skillRuns[r].claims)' = {}
    <2>1. Unbacked(a, C) = {}
        BY <1>2 DEF CatalogInv, RunHolds
    <2>2. Unbacked(a, C)' = {}
        BY <2>1, Zenon
    <2> QED
        BY <1>2, <2>2 DEF Unbacked, Types
<1>3. skillRuns[r].pc = "success" =>
         Unbacked(skillRuns[r].agency, skillRuns[r].claims)' = {}
    BY <1>2
<1> QED
    BY <1>1, <1>3 DEF CatalogInv, RunHolds

\* Every step keeps it.
LEMMA CatalogStepInv == CatalogInv /\ [CatalogNext]_catVars => CatalogInv'
<1> SUFFICES ASSUME CatalogInv, [CatalogNext]_catVars PROVE CatalogInv'
    OBVIOUS
<1>1. CASE UNCHANGED catVars
    BY <1>1 DEF CatalogInv, OverrideInv, PostInv, RunHolds, ContractOf, Unbacked, Types,
                catVars
<1>2. ASSUME NEW p \in Pod, NEW a \in Agency, NEW s \in Skill, NEW b \in BOOLEAN,
             NEW e \in BOOLEAN, PutOverride(p, a, s, b, e)
      PROVE  CatalogInv'
    <2>1. UNCHANGED <<skillRuns, records, post>>
        BY <1>2 DEF PutOverride
    <2>2. OverrideInv'
        BY <1>2 DEF PutOverride, CatalogInv, OverrideInv, NoOverride
    <2> QED
        BY <2>1, <2>2 DEF CatalogInv, PostInv, RunHolds, ContractOf, Unbacked, Types
<1>3. ASSUME NEW a \in Agency, NEW s \in Skill, DeleteOverride(a, s) PROVE CatalogInv'
    <2>1. UNCHANGED <<skillRuns, records, post>>
        BY <1>3 DEF DeleteOverride
    <2>2. OverrideInv'
        BY <1>3 DEF DeleteOverride, CatalogInv, OverrideInv, NoOverride
    <2> QED
        BY <2>1, <2>2 DEF CatalogInv, PostInv, RunHolds, ContractOf, Unbacked, Types
<1>4. ASSUME NEW r \in Run, NEW p \in Pod, NEW a \in Agency, NEW s \in Skill,
             NEW C \in SUBSET EvidenceType, StartRun(r, p, a, s, C)
      PROVE  CatalogInv'
    <2>1. UNCHANGED <<override, records, post>>
        BY <1>4 DEF StartRun
    <2>2. /\ skillRuns' = [j \in Run |-> skillRuns'[j]]
          /\ \A j \in Run \ {r} : skillRuns'[j] = skillRuns[j]
        BY <1>4 DEF StartRun, CatalogInv
    <2>3. \A j \in Run \ {r} : RunHolds(j)'
        BY <2>1, <2>2, RunKeeps DEF Unbacked, Types
    <2>4. RunHolds(r)'
        <3>1. CASE Unreadable(p, a, s)
            <4>1. skillRuns'[r].pc = "refused"
                BY <1>4, <3>1 DEF StartRun, CatalogInv
            <4> QED
                BY <4>1 DEF RunHolds
        <3>2. CASE ~Unreadable(p, a, s)
            <4>1. skillRuns'[r] = [pc |-> "running", pod |-> p, agency |-> a, skill |-> s,
                                   claims |-> C, contract |-> ActiveOverride(a, s)]
                BY <1>4, <3>2 DEF StartRun, CatalogInv
            <4>2. s \in Registered(p)
                BY <3>2 DEF Unreadable
            <4>3. ActiveOverride(a, s) # NoOverride =>
                     /\ ActiveOverride(a, s).by = a /\ ActiveOverride(a, s).enabled
                     /\ Accepts(p, ActiveOverride(a, s).loose)
                BY <3>2 DEF Unreadable, ActiveOverride, CatalogInv, OverrideInv
            <4>4. ContractOf(r)'
                BY <4>1, <4>2, <4>3, <2>1 DEF ContractOf, Registered, Accepts, NoOverride
            <4> QED
                BY <4>1, <4>4 DEF RunHolds
        <3> QED
            BY <3>1, <3>2
    <2> QED
        BY <2>1, <2>2, <2>3, <2>4 DEF CatalogInv, OverrideInv, PostInv, Unbacked, Types
<1>5. ASSUME NEW r \in Run, EndRun(r) PROVE CatalogInv'
    <2>1. UNCHANGED <<override, records, post>>
        BY <1>5 DEF EndRun
    <2>2. PICK verdict_ \in {"success", "failed"} :
             /\ skillRuns' = [skillRuns EXCEPT ![r].pc = verdict_]
             /\ verdict_ = "success" =>
                   Unbacked(skillRuns[r].agency, skillRuns[r].claims) = {}
        BY <1>5 DEF EndRun
    <2>3. /\ skillRuns' = [j \in Run |-> skillRuns'[j]]
          /\ \A j \in Run \ {r} : skillRuns'[j] = skillRuns[j]
        BY <2>2 DEF CatalogInv
    <2>4. \A j \in Run \ {r} : RunHolds(j)'
        BY <2>1, <2>3, RunKeeps DEF Unbacked, Types
    <2>5. skillRuns'[r] = [skillRuns[r] EXCEPT !.pc = verdict_]
        BY <2>2 DEF CatalogInv
    <2>6. ContractOf(r) /\ skillRuns[r].pc = "running"
        BY <1>5 DEF EndRun, CatalogInv, RunHolds
    <2>7. /\ skillRuns'[r].pc = verdict_
          /\ skillRuns'[r].contract = skillRuns[r].contract
          /\ skillRuns'[r].skill = skillRuns[r].skill
          /\ skillRuns'[r].pod = skillRuns[r].pod
          /\ skillRuns'[r].agency = skillRuns[r].agency
          /\ skillRuns'[r].claims = skillRuns[r].claims
        BY <2>5, <2>6
    <2>8. RunHolds(r)'
        BY <2>1, <2>2, <2>6, <2>7
        DEF RunHolds, ContractOf, Registered, Accepts, NoOverride, Unbacked, Types
    <2> QED
        BY <2>1, <2>3, <2>4, <2>8 DEF CatalogInv, OverrideInv, PostInv, Unbacked, Types
<1>6. ASSUME NEW a \in Agency, NEW t \in EvidenceType, NEW C \in SUBSET EvidenceType,
             InsertEvidence(a, t, C)
      PROVE  CatalogInv'
    <2>1. /\ UNCHANGED <<override, skillRuns>> /\ records' = Append(records, <<a, t>>)
          /\ post'.pc = "inserted"
        BY <1>6 DEF InsertEvidence
    <2>2. \A b, D : Unbacked(b, D)' \subseteq Unbacked(b, D)
        BY <1>6, <2>1, RecordsStay DEF CatalogNext
    <2>3. \A r \in Run : RunHolds(r)'
        BY <2>1, <2>2, RunKeeps
    <2>4. records' \in Seq(Agency \X EvidenceType)
        BY <2>1 DEF CatalogInv
    <2> QED
        BY <2>1, <2>3, <2>4 DEF CatalogInv, OverrideInv, PostInv
<1>7. CASE AnswerEvidence
    <2>1. UNCHANGED <<override, skillRuns, records>>
        BY <1>7 DEF AnswerEvidence
    <2>2. PostInv'
        BY <1>7 DEF AnswerEvidence, PostInv, NoPost, Unbacked, Types
    <2> QED
        BY <2>1, <2>2 DEF CatalogInv, OverrideInv, RunHolds, ContractOf, Unbacked, Types
<1> QED
    BY <1>1, <1>2, <1>3, <1>4, <1>5, <1>6, <1>7 DEF CatalogNext

\* Executions run under a contract of their own organisation, claims are backed.
LEMMA CatalogInvContracts == CatalogInv => ContractsSound
BY DEF CatalogInv, RunHolds, ContractOf, PostInv, ContractsSound

-----------------------------------------------------------------------------
(* Secrets: what a process may start with, and whom it asks.                *)

\* A process that is up was not refused, and found the keys of its environment.
FoundInv ==
    Up => /\ ~Refusals(env)
          /\ \A n \in Sensitive : (config[n] # 0) = (n \in env.keys)

\* What was read is what was valid then, and it is until the next rotation.
FreshInv ==
    Up /\ ~since => \A n \in Sensitive : config[n] \in {0, version}
                                      /\ cache[n] \in {0, version}

\* What prime() has dealt with is in the cache or known to be missing, the rest
\* is in neither.
PrimedInv ==
    /\ \A i \in 1..3 :
          /\ i <= prime => (cache[Names[i]] # 0) = (Names[i] \notin absent)
          /\ i > prime => cache[Names[i]] = 0 /\ Names[i] \notin absent
    /\ proc = "priming" => prime < 3 /\ keyUse = "none"

\* What the last use of a key came to, as SecretsSound explains it.
UseInv ==
    /\ keyUse \in {"rejected", "signed_wrong"} => since \/ env.backend = "mock"
    /\ keyUse = "no_key" =>
          /\ MODEL \notin env.keys
          /\ env.backend = "vault" => MODEL \in absent \/ prime = 0
    /\ keyUse \in {"template", "engine_refused"} => MODEL \notin env.keys

SecretsInv == SecretsTypeOK /\ FoundInv /\ FreshInv /\ PrimedInv /\ UseInv

\* The names of the secrets are three.
LEMMA ThreeNames ==
    /\ Len(Names) = 3 /\ Names \in [1..3 -> Sensitive]
    /\ Sensitive = {Names[1], Names[2], Names[3]}
    /\ MODEL = Names[1] /\ WEBHOOK = Names[2] /\ MODEL \in Sensitive
    /\ WEBHOOK \in Sensitive
    /\ \A i, j \in 1..3 : Names[i] = Names[j] => i = j
<1>1. /\ Len(Names) = 3 /\ DOMAIN Names = 1..3
    BY DEF Names
<1>2. /\ Names[1] = "MODEL_PROVIDER_API_KEY" /\ Names[2] = "WEBHOOK_OUTBOUND_SECRET"
      /\ Names[3] = "GITHUB_TOKEN"
    BY DEF Names
<1>3. Sensitive = {Names[1], Names[2], Names[3]}
    BY <1>1 DEF Sensitive
<1>4. Names = [i \in 1..3 |-> Names[i]]
    BY DEF Names
<1>5. Names \in [1..3 -> Sensitive]
    BY <1>3, <1>4
<1>6. \A i, j \in 1..3 : Names[i] = Names[j] => i = j
    BY <1>2
<1> QED
    BY <1>1, <1>3, <1>5, <1>6 DEF MODEL, WEBHOOK

\* It holds at the start.
LEMMA SecretsInitInv == SecretsInit => SecretsInv
<1> SUFFICES ASSUME SecretsInit PROVE SecretsInv
    OBVIOUS
<1>1. SecretsTypeOK
    <2>1. NoKeys \in [Sensitive -> 0..MaxVersion]
        BY SecretsAssumption DEF NoKeys
    <2>2. version \in 1..MaxVersion /\ prime \in 0..Len(Names) /\ starts \in 0..MaxStarts
        BY ThreeNames, SecretsAssumption DEF SecretsInit
    <2>3. loggedIn \in BOOLEAN /\ proc \in {"down", "priming", "serving", "refused"}
        BY DEF SecretsInit
    <2> QED
        BY <2>1, <2>2, <2>3, Zenon DEF SecretsInit, SecretsTypeOK
<1>2. PrimedInv
    BY ThreeNames DEF SecretsInit, PrimedInv, NoKeys
<1> QED
    BY <1>1, <1>2 DEF SecretsInit, SecretsInv, FoundInv, FreshInv, UseInv, Up

\* Every step keeps it.
LEMMA SecretsStepInv == SecretsInv /\ [SecretsNext]_secVars => SecretsInv'
<1> SUFFICES ASSUME SecretsInv, [SecretsNext]_secVars PROVE SecretsInv'
    OBVIOUS
<1> USE ThreeNames, SecretsAssumption
<1>1. CASE UNCHANGED secVars
    BY <1>1 DEF SecretsInv, SecretsTypeOK, FoundInv, FreshInv, PrimedInv, UseInv, Up,
                Refusals, secVars
<1>2. CASE StartProcess
    <2>1. /\ UNCHANGED <<env, version>> /\ starts' = starts + 1 /\ starts < MaxStarts
          /\ cache' = NoKeys /\ absent' = {} /\ prime' = 0 /\ since' = FALSE
          /\ keyUse' = "none"
        BY <1>2 DEF StartProcess
    <2>2. \/ proc' = "refused" /\ config' = config /\ loggedIn' = loggedIn
          \/ /\ ~Refusals(env) /\ proc' \in {"priming", "serving"}
             /\ config' = [n \in Sensitive |-> IF n \in env.keys THEN version ELSE 0]
             /\ loggedIn' = (env.login = "token")
        BY <1>2 DEF StartProcess
    <2>3. /\ env \in Envs /\ version \in 1..MaxVersion /\ version \in Nat /\ version # 0
          /\ config \in [Sensitive -> 0..MaxVersion] /\ loggedIn \in BOOLEAN
          /\ starts \in 0..MaxStarts
        BY DEF SecretsInv, SecretsTypeOK
    <2>4. config' \in [Sensitive -> 0..MaxVersion]
        BY <2>2, <2>3
    <2>5. loggedIn' \in BOOLEAN
        BY <2>2, <2>3
    <2>6. cache' \in [Sensitive -> 0..MaxVersion] /\ starts' \in 0..MaxStarts
        BY <2>1, <2>3 DEF NoKeys
    <2>7. SecretsTypeOK'
        BY <2>1, <2>2, <2>3, <2>4, <2>5, <2>6 DEF SecretsTypeOK
    <2>8. FoundInv'
        BY <2>1, <2>2, <2>3 DEF FoundInv, Up, Refusals
    <2>9. FreshInv'
        BY <2>1, <2>2, <2>3 DEF FreshInv, Up, NoKeys
    <2>10. PrimedInv'
        BY <2>1 DEF PrimedInv, NoKeys
    <2> QED
        BY <2>1, <2>7, <2>8, <2>9, <2>10 DEF SecretsInv, UseInv
<1>3. CASE PrimeName
    <2>1. /\ UNCHANGED <<env, version, config, starts, since, keyUse>>
          /\ proc = "priming" /\ loggedIn' = TRUE /\ prime' = prime + 1
          /\ proc' \in {"priming", "serving"} /\ (proc' = "priming" => prime' # 3)
        BY <1>3 DEF PrimeName
    <2>2. PICK n \in Sensitive :
             /\ n = Names[prime + 1]
             /\ \/ cache' = [cache EXCEPT ![n] = version] /\ absent' = absent
                \/ absent' = absent \cup {n} /\ cache' = cache
        BY <1>3 DEF PrimeName, SecretsInv, SecretsTypeOK, PrimedInv
    <2>3. /\ prime \in 0..2 /\ version \in 1..MaxVersion /\ absent \subseteq Sensitive
          /\ cache \in [Sensitive -> 0..MaxVersion] /\ keyUse = "none"
        BY <2>1 DEF SecretsInv, SecretsTypeOK, PrimedInv
    <2>4. cache' \in [Sensitive -> 0..MaxVersion] /\ absent' \subseteq Sensitive
        <3>1. version \in 0..MaxVersion
            BY <2>3
        <3> QED
            BY <2>2, <2>3, <3>1
    <2>5. SecretsTypeOK'
        BY <2>1, <2>3, <2>4 DEF SecretsInv, SecretsTypeOK
    <2>6. ASSUME NEW i \in 1..3, i # prime + 1
          PROVE  cache'[Names[i]] = cache[Names[i]]
                 /\ (Names[i] \in absent') = (Names[i] \in absent)
        BY <2>2, <2>3, <2>6
    <2>7. (cache'[n] # 0) = (n \notin absent')
        <3>1. cache[n] = 0 /\ n \notin absent
            BY <2>2, <2>3 DEF SecretsInv, PrimedInv
        <3> QED
            BY <2>2, <2>3, <3>1
    <2>8. PrimedInv'
        BY <2>1, <2>2, <2>3, <2>6, <2>7 DEF SecretsInv, PrimedInv
    <2>9. FreshInv'
        BY <2>1, <2>2, <2>3 DEF SecretsInv, SecretsTypeOK, FreshInv, Up
    <2> QED
        BY <2>1, <2>3, <2>5, <2>8, <2>9 DEF SecretsInv, FoundInv, UseInv, Up, Refusals
<1>4. CASE PrimeThrows
    BY <1>4 DEF PrimeThrows, SecretsInv, SecretsTypeOK, FoundInv, FreshInv, PrimedInv,
                UseInv, Up, Refusals
<1>5. CASE Rotate
    <2>1. /\ UNCHANGED <<env, proc, config, cache, absent, loggedIn, prime, starts, keyUse>>
          /\ version' = version + 1 /\ since' = TRUE /\ version < MaxVersion
        BY <1>5 DEF Rotate
    <2> QED
        BY <2>1 DEF SecretsInv, SecretsTypeOK, FoundInv, FreshInv, PrimedInv, UseInv, Up,
                    Refusals
<1>6. CASE ProcessEnds
    BY <1>6 DEF ProcessEnds, SecretsInv, SecretsTypeOK, FoundInv, FreshInv, PrimedInv,
                UseInv, Up, Refusals
<1>7. ASSUME proc = "serving", UseInv',
             UNCHANGED <<env, version, proc, config, cache, absent, loggedIn, prime,
                         starts, since>>
      PROVE  SecretsInv'
    BY <1>7 DEF SecretsInv, SecretsTypeOK, FoundInv, FreshInv, PrimedInv, Up, Refusals
<1>8. ASSUME proc = "serving"
      PROVE  /\ config[MODEL] # 0 <=> MODEL \in env.keys
             /\ ~since /\ env.backend # "mock" =>
                   ModelKey \in {0, version} /\ WebhookSecret \in {0, version}
             /\ ModelKey = 0 =>
                   /\ config[MODEL] = 0
                   /\ env.backend = "vault" => cache[MODEL] = 0
             /\ version # 0
    <2>1. config[MODEL] # 0 <=> MODEL \in env.keys
        BY <1>8 DEF SecretsInv, FoundInv, Up
    <2>2. version \in Nat /\ version # 0
        BY DEF SecretsInv, SecretsTypeOK
    <2>3. ~since => /\ config[MODEL] \in {0, version} /\ cache[MODEL] \in {0, version}
                    /\ config[WEBHOOK] \in {0, version} /\ cache[WEBHOOK] \in {0, version}
        BY <1>8 DEF SecretsInv, FreshInv, Up
    <2>4. ModelKey = 0 => config[MODEL] = 0 /\ (env.backend = "vault" => cache[MODEL] = 0)
        BY DEF ModelKey, Get
    <2>5. ~since /\ env.backend # "mock" => ModelKey \in {0, version}
        BY <2>3 DEF ModelKey, Get
    <2>6. ~since /\ env.backend # "mock" => WebhookSecret \in {0, version}
        BY <2>3 DEF WebhookSecret, Get
    <2> QED
        BY <2>1, <2>2, <2>4, <2>5, <2>6
<1>9. CASE CallProvider
    <2>1. cache[MODEL] = 0 => MODEL \in absent \/ prime = 0
        BY DEF SecretsInv, SecretsTypeOK, PrimedInv
    <2>2. UseInv'
        BY <1>8, <1>9, <2>1 DEF CallProvider, Uses, UseInv
    <2> QED
        BY <1>7, <1>9, <2>2 DEF CallProvider
<1>10. CASE SignWebhook
    <2>1. UseInv'
        BY <1>8, <1>10 DEF SignWebhook, UseInv
    <2> QED
        BY <1>7, <1>10, <2>1 DEF SignWebhook
<1>11. CASE ChooseEngine
    <2>1. UseInv'
        BY <1>8, <1>11 DEF ChooseEngine, UseInv
    <2> QED
        BY <1>7, <1>11, <2>1 DEF ChooseEngine
<1> QED
    BY <1>1, <1>2, <1>3, <1>4, <1>5, <1>6, <1>9, <1>10, <1>11 DEF SecretsNext

\* A process that serves may, and knows of every secret it lacks.
LEMMA SecretsInvSound == SecretsInv => SecretsSound
<1> SUFFICES ASSUME SecretsInv PROVE SecretsSound
    OBVIOUS
<1>1. Up => ~Refusals(env)
    BY DEF SecretsInv, FoundInv
<1>2. Up /\ env.prod /\ env.strict /\ (\E n \in Sensitive : config[n] # 0) =>
         env.backend # "env"
    BY DEF SecretsInv, FoundInv, Refusals
<1>3. \A n \in Sensitive : cache[n] # 0 => n \notin absent
    <2>1. \A i \in 1..3 : cache[Names[i]] # 0 => Names[i] \notin absent
        BY DEF SecretsInv, SecretsTypeOK, PrimedInv
    <2> QED
        BY <2>1, ThreeNames
<1> QED
    BY <1>1, <1>2, <1>3 DEF SecretsInv, UseInv, SecretsSound, Refusals

-----------------------------------------------------------------------------
(* Boot: replicas that trip over each other while they start.               *)

\* Migrations 1..n of the table are those of the image of s.
HasRun(s, n) == n <= Len(applied) /\ \A m \in 1..n : applied[m] = image[s][m]

\* What a replica read of the table still is in it; what it has passed is done;
\* a key it has cached is the one that is stored.
ReplicaInv(s) ==
    /\ boot[s].pc # "down" =>
          /\ Len(boot[s].known) <= Len(applied)
          /\ \A m \in 1..Len(boot[s].known) : boot[s].known[m] = applied[m]
    /\ boot[s].pc = "migrate" =>
          /\ boot[s].at # 0 /\ boot[s].at - 1 <= Len(image[s])
          /\ HasRun(s, boot[s].at - 1)
    /\ boot[s].pc \in {"seed", "serving"} => HasRun(s, Len(image[s]))
    /\ boot[s].pc = "seed" =>
          /\ boot[s].at \in 1..5 /\ (boot[s].missed => boot[s].at # 5)
          /\ \A i \in 1..4 : i < boot[s].at => Seeds[i] \in seeded
    /\ boot[s].pc = "serving" => \A i \in 1..4 : Seeds[i] \in seeded
    /\ cachedDek[s] \in {NoDataKey, dek}

BootRecord == [pc : {"down", "migrate", "seed", "serving"}, at : Nat, missed : BOOLEAN,
               known : Seq(STRING)]

BootShape ==
    /\ image \in Images /\ image \in [Server -> Seq(STRING)]
    /\ applied \in Seq(STRING) /\ schema = 1..Len(applied)
    /\ seeded \subseteq {Seeds[i] : i \in 1..4}
    /\ boot \in [Server -> BootRecord]
    /\ dek \in DataKey \cup {NoDataKey}
    /\ cachedDek \in [Server -> DataKey \cup {NoDataKey}]

BootInv == BootShape /\ \A s \in Server : ReplicaInv(s)

\* Numbers that bound each other are the same.
LEMMA Between == ASSUME NEW a \in Int, NEW b \in Int, a >= b, a <= b PROVE a = b
OBVIOUS

\* The seeds are four.
LEMMA FourSeeds == Len(Seeds) = 4 /\ DOMAIN Seeds = 1..4
BY DEF Seeds

\* A replica that is down fits its record.
LEMMA DownFits ==
    /\ Down \in BootRecord /\ Down.pc = "down"
BY DEF Down, BootRecord

\* It holds at the start.
LEMMA BootInitInv == BootInit => BootInv
<1> SUFFICES ASSUME BootInit PROVE BootInv
    OBVIOUS
<1>1. image \in [Server -> Seq(STRING)]
    BY BootAssumption DEF BootInit
<1>2. /\ boot = [s \in Server |-> Down] /\ cachedDek = [s \in Server |-> NoDataKey]
      /\ image \in Images /\ applied = <<>> /\ schema = {} /\ seeded = {} /\ dek = NoDataKey
    BY DEF BootInit
<1>3. BootShape
    BY <1>1, <1>2, DownFits DEF BootShape
<1>4. ASSUME NEW s \in Server PROVE ReplicaInv(s)
    BY <1>2, DownFits DEF ReplicaInv
<1> QED
    BY <1>3, <1>4 DEF BootInv

\* A replica is not disturbed by what the others add to the tables.
LEMMA ReplicaKeeps ==
    ASSUME BootInv, BootShape', NEW s \in Server, boot'[s] = boot[s], image' = image,
           Len(applied) <= Len(applied'), \A m \in 1..Len(applied) : applied'[m] = applied[m],
           seeded \subseteq seeded', cachedDek'[s] \in {NoDataKey, dek'}
    PROVE  ReplicaInv(s)'
<1> DEFINE n == Len(image[s])
           k == Len(boot[s].known)
           a == Len(applied)
           b == Len(applied')
<1>1. n \in Nat /\ k \in Nat /\ a \in Nat /\ b \in Nat /\ a <= b
    BY DEF BootInv, BootShape, BootRecord
<1>2. boot[s] \in BootRecord /\ boot[s].at \in Nat
    BY DEF BootInv, BootShape, BootRecord
<1>3. ASSUME NEW j \in Int, HasRun(s, j) PROVE HasRun(s, j)'
    <2>1. j <= a /\ \A m \in 1..j : applied[m] = image[s][m]
        BY <1>3 DEF HasRun
    <2>2. \A m \in 1..j : m \in 1..a
        BY <2>1, <1>1
    <2> QED
        BY <2>1, <2>2, <1>1 DEF HasRun
<1>4. ReplicaInv(s)
    BY DEF BootInv
<1>5. ASSUME boot[s].pc # "down"
      PROVE  k <= b /\ \A m \in 1..k : boot[s].known[m] = applied'[m]
    <2>1. k <= a /\ \A m \in 1..k : boot[s].known[m] = applied[m]
        BY <1>4, <1>5 DEF ReplicaInv
    <2>2. \A m \in 1..k : m \in 1..a
        BY <1>1, <2>1
    <2> QED
        BY <1>1, <2>1, <2>2
<1>6. boot[s].pc = "migrate" => HasRun(s, boot[s].at - 1)'
    BY <1>2, <1>3, <1>4 DEF ReplicaInv, HasRun
<1>7. ASSUME boot[s].pc \in {"seed", "serving"} PROVE HasRun(s, n)'
    <2>1. HasRun(s, n)
        BY <1>4, <1>7 DEF ReplicaInv
    <2> QED
        BY <1>1, <1>3, <2>1
<1> QED
    BY <1>4, <1>5, <1>6, <1>7 DEF ReplicaInv, HasRun

\* Every step keeps it.
LEMMA BootStepInv == BootInv /\ [BootNext]_bootVars => BootInv'
<1> SUFFICES ASSUME BootInv, [BootNext]_bootVars PROVE BootInv'
    OBVIOUS
<1> USE BootAssumption
<1>1. CASE UNCHANGED bootVars
    BY <1>1 DEF BootInv, BootShape, ReplicaInv, HasRun, bootVars
\* A step that moves one replica, and adds to what the replicas share.
<1>2. ASSUME NEW s \in Server, NEW to \in BootRecord, boot' = [boot EXCEPT ![s] = to],
             image' = image, BootShape', ReplicaInv(s)',
             Len(applied) <= Len(applied'),
             \A m \in 1..Len(applied) : applied'[m] = applied[m], seeded \subseteq seeded',
             \A t \in Server \ {s} : cachedDek'[t] \in {NoDataKey, dek'}
      PROVE  BootInv'
    <2>1. \A t \in Server \ {s} : boot'[t] = boot[t]
        BY <1>2 DEF BootInv, BootShape
    <2>2. \A t \in Server \ {s} : ReplicaInv(t)'
        BY <1>2, <2>1, ReplicaKeeps
    <2> QED
        BY <1>2, <2>2 DEF BootInv
<1>3. \A s \in Server : /\ boot[s] \in BootRecord /\ boot[s].at \in Nat
                        /\ boot[s].known \in Seq(STRING) /\ boot[s].missed \in BOOLEAN
                        /\ ReplicaInv(s) /\ image[s] \in Seq(STRING)
                        /\ cachedDek[s] \in {NoDataKey, dek}
    BY DEF BootInv, BootShape, BootRecord, ReplicaInv
\* What the others share is left alone, by most steps.
<1>4. ASSUME NEW s \in Server, NEW to \in BootRecord, boot' = [boot EXCEPT ![s] = to],
             UNCHANGED <<image, applied, schema, seeded, dek>>,
             cachedDek' = cachedDek \/ cachedDek' = [cachedDek EXCEPT ![s] = NoDataKey],
             ReplicaInv(s)'
      PROVE  BootInv'
    <2>1. BootShape'
        BY <1>4 DEF BootInv, BootShape
    <2>2. \A t \in Server \ {s} : cachedDek'[t] \in {NoDataKey, dek'}
        BY <1>3, <1>4 DEF BootInv, BootShape
    <2>3. Len(applied) <= Len(applied)
        BY DEF BootInv, BootShape
    <2> QED
        BY <1>2, <1>4, <2>1, <2>2, <2>3
<1>5. ASSUME NEW s \in Server, Exit(s), UNCHANGED <<image, applied, schema, seeded, dek>>
      PROVE  BootInv'
    <2>1. boot'[s] = Down /\ cachedDek'[s] = NoDataKey
        BY <1>5 DEF Exit, BootInv, BootShape
    <2>2. ReplicaInv(s)'
        BY <2>1, DownFits DEF ReplicaInv
    <2> QED
        BY <1>4, <1>5, <2>2, DownFits DEF Exit
<1>6. ASSUME NEW s \in Server, NEW pc_ \in {"migrate", "seed", "serving"}, NEW at_ \in Nat,
             Go(s, pc_, at_)
      PROVE  \E to \in BootRecord :
                /\ boot' = [boot EXCEPT ![s] = to] /\ boot'[s] = to
                /\ to.pc = pc_ /\ to.at = at_ /\ ~to.missed /\ to.known = boot[s].known
    <2> DEFINE to == [boot[s] EXCEPT !.pc = pc_, !.at = at_, !.missed = FALSE]
    <2>1. /\ to \in BootRecord
          /\ to.pc = pc_ /\ to.at = at_ /\ ~to.missed /\ to.known = boot[s].known
        BY <1>3 DEF BootRecord
    <2>2. boot' = [boot EXCEPT ![s] = to]
        BY <1>6 DEF Go
    <2> HIDE DEF to
    <2>3. boot'[s] = to
        BY <2>2 DEF BootInv, BootShape
    <2> QED
        BY <2>1, <2>2, <2>3
<1>7. ASSUME NEW s \in Server, StartUp(s) PROVE BootInv'
    <2> DEFINE to == [pc |-> "migrate", at |-> 1, missed |-> FALSE, known |-> applied]
    <2>1. /\ to \in BootRecord
          /\ to.pc = "migrate" /\ to.at = 1 /\ ~to.missed /\ to.known = applied
        BY DEF BootRecord, BootInv, BootShape
    <2>2. boot' = [boot EXCEPT ![s] = to]
        BY <1>7 DEF StartUp
    <2> HIDE DEF to
    <2>3. boot'[s] = to
        BY <2>2 DEF BootInv, BootShape
    <2>4. UNCHANGED <<image, applied, schema, seeded, dek, cachedDek>>
        BY <1>7 DEF StartUp
    <2>5. Len(applied) \in Nat /\ Len(image[s]) \in Nat /\ cachedDek[s] \in {NoDataKey, dek}
        BY <1>3 DEF BootInv, BootShape
    <2>6. HasRun(s, 0)'
        BY <2>4, <2>5 DEF HasRun
    <2>7. ReplicaInv(s)'
        BY <2>1, <2>3, <2>4, <2>5, <2>6 DEF ReplicaInv
    <2> QED
        BY <1>4, <2>1, <2>2, <2>4, <2>7
<1>8. ASSUME NEW s \in Server, Migrate(s) PROVE BootInv'
    <2>0. PICK m \in Nat : m = boot[s].at
        BY <1>3
    <2>1. /\ UNCHANGED <<image, seeded, dek>> /\ boot[s].pc = "migrate" /\ m <= Len(image[s])
        BY <1>8, <2>0 DEF Migrate, At
    <2>2. /\ m \in Nat /\ m # 0 /\ m - 1 <= Len(applied) /\ HasRun(s, m - 1)
          /\ Len(applied) \in Nat /\ Len(boot[s].known) \in Nat /\ Len(image[s]) \in Nat
          /\ Len(boot[s].known) <= Len(applied)
          /\ \A i \in 1..Len(boot[s].known) : boot[s].known[i] = applied[i]
          /\ cachedDek[s] \in {NoDataKey, dek}
        BY <1>3, <2>0, <2>1 DEF ReplicaInv, HasRun, BootInv, BootShape
    <2>3. CASE Exit(s) /\ UNCHANGED <<applied, schema>>
        BY <1>5, <2>1, <2>3
    <2>4. CASE /\ m <= Len(boot[s].known) /\ boot[s].known[m] = image[s][m]
               /\ Go(s, "migrate", m + 1) /\ UNCHANGED <<cachedDek, applied, schema>>
        <3>1. PICK to \in BootRecord :
                 /\ boot' = [boot EXCEPT ![s] = to] /\ boot'[s] = to
                 /\ to.pc = "migrate" /\ to.at = m + 1 /\ ~to.missed
                 /\ to.known = boot[s].known
            BY <1>6, <2>2, <2>4
        <3>2. HasRun(s, m)'
            <4>1. m \in 1..Len(boot[s].known) /\ applied[m] = image[s][m] /\ m <= Len(applied)
                BY <2>2, <2>4
            <4>2. \A i \in 1..m : i = m \/ i \in 1..(m - 1)
                BY <2>2
            <4>3. \A i \in 1..(m - 1) : applied[i] = image[s][i]
                BY <2>2 DEF HasRun
            <4> QED
                BY <2>1, <2>4, <4>1, <4>2, <4>3 DEF HasRun
        <3>3. HasRun(s, boot[s].at - 1)' /\ boot'[s].at - 1 = m
            BY <3>1, <3>2 DEF HasRun
        <3>4. ReplicaInv(s)'
            BY <2>1, <2>2, <2>4, <3>1, <3>3 DEF ReplicaInv
        <3> QED
            BY <1>4, <2>1, <2>4, <3>1, <3>4
    <2>5. CASE /\ ~(m <= Len(boot[s].known)) /\ m \notin schema /\ schema' = schema \cup {m}
               /\ applied' = Append(applied, image[s][m])
               /\ Go(s, "migrate", m + 1) /\ UNCHANGED cachedDek
        <3>1. PICK to \in BootRecord :
                 /\ boot' = [boot EXCEPT ![s] = to] /\ boot'[s] = to
                 /\ to.pc = "migrate" /\ to.at = m + 1 /\ ~to.missed
                 /\ to.known = boot[s].known
            BY <1>6, <2>2, <2>5
        <3>2. m = Len(applied) + 1
            BY <2>2, <2>5 DEF BootInv, BootShape
        <3>3. image[s][m] \in STRING
            BY <1>3, <2>1, <2>2
        <3>4. /\ applied' \in Seq(STRING) /\ Len(applied') = m /\ applied'[m] = image[s][m]
              /\ \A i \in 1..Len(applied) : applied'[i] = applied[i]
            BY <2>5, <3>2, <3>3 DEF BootInv, BootShape
        <3>5. schema' = 1..Len(applied')
            BY <2>2, <2>5, <3>2, <3>4 DEF BootInv, BootShape
        <3>6. BootShape'
            BY <2>1, <2>5, <3>1, <3>4, <3>5 DEF BootInv, BootShape
        <3>7. HasRun(s, m)'
            <4>1. \A i \in 1..m : i = m \/ i \in 1..Len(applied)
                BY <2>2, <3>2
            <4>2. \A i \in 1..Len(applied) : applied[i] = image[s][i]
                BY <2>2, <3>2 DEF HasRun
            <4> QED
                BY <2>1, <3>4, <4>1, <4>2 DEF HasRun
        <3>11. HasRun(s, boot[s].at - 1)' /\ boot'[s].at - 1 = m
            BY <3>1, <3>7 DEF HasRun
        <3>12. \A i \in 1..Len(boot[s].known) : boot[s].known[i] = applied'[i]
            BY <2>2, <3>4
        <3>8. ReplicaInv(s)'
            BY <2>1, <2>2, <2>5, <3>1, <3>2, <3>4, <3>11, <3>12 DEF ReplicaInv
        <3>9. \A t \in Server \ {s} : cachedDek'[t] \in {NoDataKey, dek'}
            BY <1>3, <2>1, <2>5
        <3>10. /\ Len(applied) <= Len(applied') /\ seeded \subseteq seeded' /\ image' = image
               /\ \A i \in 1..Len(applied) : applied'[i] = applied[i]
               /\ boot' = [boot EXCEPT ![s] = to]
            BY <2>1, <2>2, <3>1, <3>2, <3>4
        <3> QED
            BY <1>2, <3>6, <3>8, <3>9, <3>10
    <2> QED
        BY <1>8, <2>0, <2>3, <2>4, <2>5 DEF Migrate
<1>18. ASSUME NEW s \in Server, NEW to \in BootRecord, boot'[s] = to,
              to.pc = "seed", to.known = boot[s].known, boot[s].pc # "down",
              to.at \in 1..5, to.missed => to.at # 5,
              \A i \in 1..4 : i < to.at => Seeds[i] \in seeded',
              UNCHANGED <<image, applied, dek, cachedDek>>, HasRun(s, Len(image[s]))
       PROVE  ReplicaInv(s)'
    <2>1. HasRun(s, Len(image[s]))'
        BY <1>18 DEF HasRun
    <2>2. /\ Len(boot[s].known) <= Len(applied) /\ cachedDek[s] \in {NoDataKey, dek}
          /\ \A i \in 1..Len(boot[s].known) : boot[s].known[i] = applied[i]
        BY <1>3, <1>18 DEF ReplicaInv
    <2> QED
        BY <1>18, <2>1, <2>2 DEF ReplicaInv
<1>19. \A s \in Server : boot[s].pc = "seed" =>
          /\ boot[s].at \in 1..5 /\ (boot[s].missed => boot[s].at # 5)
          /\ HasRun(s, Len(image[s]))
          /\ \A i \in 1..4 : i < boot[s].at => Seeds[i] \in seeded
    BY <1>3 DEF ReplicaInv
<1>14. ASSUME NEW s \in Server, NEW b \in BOOLEAN
       PROVE  /\ [boot[s] EXCEPT !.missed = b] \in BootRecord
              /\ [boot[s] EXCEPT !.missed = b].pc = boot[s].pc
              /\ [boot[s] EXCEPT !.missed = b].at = boot[s].at
              /\ [boot[s] EXCEPT !.missed = b].known = boot[s].known
              /\ boot = [boot EXCEPT ![s] = boot[s]]
    BY <1>3 DEF BootRecord, BootInv, BootShape
<1>9. ASSUME NEW s \in Server, Migrated(s) PROVE BootInv'
    <2>1. PICK to \in BootRecord :
             /\ boot' = [boot EXCEPT ![s] = to] /\ boot'[s] = to
             /\ to.pc = "seed" /\ to.at = 1 /\ ~to.missed /\ to.known = boot[s].known
        BY <1>6, <1>9 DEF Migrated
    <2>2. UNCHANGED <<image, applied, schema, seeded, dek, cachedDek>>
        BY <1>9 DEF Migrated
    <2>3. boot[s].pc = "migrate" /\ HasRun(s, Len(image[s]))
        <3>1. /\ boot[s].pc = "migrate" /\ boot[s].at - 1 >= Len(image[s])
              /\ boot[s].at \in Nat /\ Len(image[s]) \in Nat
            BY <1>3, <1>9 DEF Migrated, At
        <3>2. HasRun(s, boot[s].at - 1) /\ boot[s].at - 1 <= Len(image[s])
            BY <1>3, <3>1 DEF ReplicaInv
        <3>3. boot[s].at - 1 = Len(image[s])
            <4>1. boot[s].at - 1 \in Int /\ Len(image[s]) \in Int
                BY <3>1
            <4> QED
                BY <3>1, <3>2, <4>1, Between
        <3> QED
            BY <3>1, <3>2, <3>3
    <2>4. ReplicaInv(s)'
        BY <1>18, <2>1, <2>2, <2>3
    <2> QED
        BY <1>4, <2>1, <2>2, <2>4
<1>10. ASSUME NEW s \in Server, LookFor(s) PROVE BootInv'
    <2>1. /\ UNCHANGED <<image, applied, schema, seeded, dek, cachedDek>>
          /\ boot[s].pc = "seed" /\ boot[s].at \in 1..4
        BY <1>10, <1>19, FourSeeds DEF LookFor, At
    <2>2. CASE Seeds[boot[s].at] \in seeded /\ Go(s, "seed", boot[s].at + 1)
        <3>1. PICK to \in BootRecord :
                 /\ boot' = [boot EXCEPT ![s] = to] /\ boot'[s] = to
                 /\ to.pc = "seed" /\ to.at = boot[s].at + 1 /\ ~to.missed
                 /\ to.known = boot[s].known
            BY <1>3, <1>6, <2>2
        <3>2. ReplicaInv(s)'
            <4>1. \A i \in 1..4 : i < boot[s].at + 1 => Seeds[i] \in seeded'
                BY <1>19, <2>1, <2>2
            <4> QED
                BY <1>18, <1>19, <2>1, <3>1, <4>1
        <3> QED
            BY <1>4, <2>1, <3>1, <3>2
    <2>3. CASE boot' = [boot EXCEPT ![s].missed = TRUE]
        <3> DEFINE to == [boot[s] EXCEPT !.missed = TRUE]
        <3>1. /\ to \in BootRecord /\ to.pc = boot[s].pc /\ to.at = boot[s].at
              /\ to.known = boot[s].known
            BY <1>14
        <3>2. boot' = [boot EXCEPT ![s] = to]
            BY <2>3
        <3> HIDE DEF to
        <3>3. boot'[s] = to
            BY <3>2 DEF BootInv, BootShape
        <3>4. ReplicaInv(s)'
            BY <1>18, <1>19, <2>1, <3>1, <3>3
        <3> QED
            BY <1>4, <2>1, <3>1, <3>2, <3>4
    <2> QED
        BY <1>10, <2>2, <2>3 DEF LookFor
<1>11. ASSUME NEW s \in Server, InsertSeed(s) PROVE BootInv'
    <2>1. /\ UNCHANGED <<image, applied, schema, dek>>
          /\ boot[s].pc = "seed" /\ boot[s].at \in 1..4
        BY <1>11, <1>19 DEF InsertSeed, At
    <2>2. CASE Exit(s) /\ UNCHANGED seeded
        BY <1>5, <2>1, <2>2
    <2>3. CASE /\ seeded' = seeded \cup {Seeds[boot[s].at]}
               /\ Go(s, "seed", boot[s].at + 1) /\ UNCHANGED cachedDek
        <3>1. PICK to \in BootRecord :
                 /\ boot' = [boot EXCEPT ![s] = to] /\ boot'[s] = to
                 /\ to.pc = "seed" /\ to.at = boot[s].at + 1 /\ ~to.missed
                 /\ to.known = boot[s].known
            BY <1>3, <1>6, <2>3
        <3>2. BootShape'
            BY <2>1, <2>3, <3>1 DEF BootInv, BootShape
        <3>3. ReplicaInv(s)'
            <4>1. \A i \in 1..4 : i < boot[s].at + 1 => Seeds[i] \in seeded'
                BY <1>19, <2>1, <2>3
            <4> QED
                BY <1>18, <1>19, <2>1, <2>3, <3>1, <4>1, SMTT(30)
        <3>4. /\ \A t \in Server \ {s} : cachedDek'[t] \in {NoDataKey, dek'}
              /\ Len(applied) <= Len(applied) /\ seeded \subseteq seeded'
            BY <1>3, <2>1, <2>3 DEF BootInv, BootShape
        <3> QED
            BY <1>2, <2>1, <3>1, <3>2, <3>3, <3>4
    <2> QED
        BY <1>11, <2>2, <2>3 DEF InsertSeed
<1>12. ASSUME NEW s \in Server, Serve(s) PROVE BootInv'
    <2>1. PICK to \in BootRecord :
             /\ boot' = [boot EXCEPT ![s] = to] /\ boot'[s] = to
             /\ to.pc = "serving" /\ to.at = 0 /\ ~to.missed /\ to.known = boot[s].known
        BY <1>6, <1>12 DEF Serve
    <2>2. /\ UNCHANGED <<image, applied, schema, seeded, dek, cachedDek>>
          /\ boot[s].pc = "seed" /\ boot[s].at > 4
        BY <1>12, FourSeeds DEF Serve, At
    <2>3. HasRun(s, Len(image[s]))' /\ \A i \in 1..4 : Seeds[i] \in seeded
        BY <1>19, <2>2 DEF HasRun
    <2>4. /\ Len(boot[s].known) <= Len(applied) /\ cachedDek[s] \in {NoDataKey, dek}
          /\ \A i \in 1..Len(boot[s].known) : boot[s].known[i] = applied[i]
        BY <1>3, <2>2 DEF ReplicaInv
    <2>5. ReplicaInv(s)'
        BY <2>1, <2>2, <2>3, <2>4 DEF ReplicaInv
    <2> QED
        BY <1>4, <2>1, <2>2, <2>5
<1>13. ASSUME NEW s \in Server, NEW to \in BootRecord, boot' = [boot EXCEPT ![s] = to],
              to.pc = boot[s].pc, to.known = boot[s].known, to.at = boot[s].at,
              boot[s].pc = "serving", UNCHANGED <<image, applied, schema, seeded>>,
              \/ UNCHANGED <<dek, cachedDek>>
              \/ /\ dek' = dek /\ dek # NoDataKey /\ cachedDek' = [cachedDek EXCEPT ![s] = dek]
              \/ /\ dek = NoDataKey /\ dek' \in DataKey
                 /\ cachedDek' = [cachedDek EXCEPT ![s] = dek']
       PROVE  BootInv'
    <2>1. BootShape'
        BY <1>13 DEF BootInv, BootShape
    <2>2. \A t \in Server : cachedDek'[t] \in {NoDataKey, dek'}
        BY <1>3, <1>13 DEF BootInv, BootShape
    <2>3. boot'[s] = to
        BY <1>13 DEF BootInv, BootShape
    <2>4. ReplicaInv(s)'
        BY <1>3, <1>13, <2>2, <2>3 DEF ReplicaInv, HasRun
    <2>5. Len(applied) <= Len(applied)
        BY DEF BootInv, BootShape
    <2> QED
        BY <1>2, <1>13, <2>1, <2>2, <2>4, <2>5
<1>15. ASSUME NEW s \in Server, ReadDek(s) PROVE BootInv'
    <2>1. UNCHANGED <<image, applied, schema, seeded, dek>> /\ boot[s].pc = "serving"
        BY <1>15 DEF ReadDek, At
    <2>2. CASE dek # NoDataKey /\ cachedDek' = [cachedDek EXCEPT ![s] = dek] /\ boot' = boot
        BY <1>3, <1>13, <1>14, <2>1, <2>2
    <2>3. CASE boot' = [boot EXCEPT ![s].missed = TRUE] /\ UNCHANGED cachedDek
        <3> DEFINE to == [boot[s] EXCEPT !.missed = TRUE]
        <3>1. /\ to \in BootRecord /\ to.pc = boot[s].pc /\ to.at = boot[s].at
              /\ to.known = boot[s].known /\ boot' = [boot EXCEPT ![s] = to]
            BY <1>14, <2>3
        <3> QED
            BY <1>13, <2>1, <2>3, <3>1
    <2> QED
        BY <1>15, <2>2, <2>3 DEF ReadDek
<1>16. ASSUME NEW s \in Server, NEW k \in DataKey, InsertDek(s, k) PROVE BootInv'
    <2> DEFINE to == [boot[s] EXCEPT !.missed = FALSE]
    <2>1. /\ to \in BootRecord /\ to.pc = boot[s].pc /\ to.at = boot[s].at
          /\ to.known = boot[s].known /\ boot' = [boot EXCEPT ![s] = to]
        BY <1>14, <1>16 DEF InsertDek
    <2> HIDE DEF to
    <2>2. /\ UNCHANGED <<image, applied, schema, seeded>> /\ boot[s].pc = "serving"
          /\ \/ UNCHANGED <<dek, cachedDek>>
             \/ /\ dek = NoDataKey /\ dek' \in DataKey
                /\ cachedDek' = [cachedDek EXCEPT ![s] = dek']
        BY <1>16 DEF InsertDek, At
    <2> QED
        BY <1>13, <2>1, <2>2
<1>17. ASSUME NEW s \in Server, Die(s) PROVE BootInv'
    BY <1>5, <1>17 DEF Die
<1> QED
    BY <1>1, <1>7, <1>8, <1>9, <1>10, <1>11, <1>12, <1>15, <1>16, <1>17
    DEF BootNext, BootStep

\* A replica that serves has every migration of its image and every row.
LEMMA BootInvReady == BootInv => ServesReady
<1> SUFFICES ASSUME BootInv, NEW s \in Server, At(s, "serving")
             PROVE  /\ Len(applied) >= Len(image[s])
                    /\ \A m \in 1..Len(image[s]) : applied[m] = image[s][m]
                    /\ seeded = {Seeds[i] : i \in DOMAIN Seeds}
                    /\ cachedDek[s] \in {NoDataKey, dek}
    BY DEF ServesReady
<1>1. ReplicaInv(s) /\ boot[s].pc = "serving" /\ HasRun(s, Len(image[s]))
    BY DEF BootInv, ReplicaInv, At
<1>2. \A i \in 1..4 : Seeds[i] \in seeded
    BY <1>1 DEF ReplicaInv
<1>3. Len(applied) >= Len(image[s]) /\ \A m \in 1..Len(image[s]) : applied[m] = image[s][m]
    BY <1>1 DEF HasRun, BootInv, BootShape
<1> QED
    BY <1>1, <1>2, <1>3, FourSeeds DEF ReplicaInv, BootInv, BootShape

-----------------------------------------------------------------------------
(* EventStream: what opens a gap.                                           *)

StreamRange ==
    /\ table \in Seq(Nat) /\ buffer \in Seq(Nat)
    /\ published \in Nat /\ liveSeq \in Nat /\ lastId \in Nat /\ from \in Nat
    /\ open \in BOOLEAN /\ lossy \in BOOLEAN
    /\ \A i \in 1..Len(table) : table[i] <= published

\* A stored event of its organisation that the client has known of, or will when
\* it reconnects: counted from the first one it saw, it is missed by nobody.
Heard(i) == table[i] \in foreign \/ table[i] < from \/ table[i] \in got

\* Unless the stream lost count, an open stream has delivered everything, and a
\* closed one everything up to the id the client will name.
CountInv ==
    ~lossy =>
        /\ lastId <= Len(table) /\ (open => liveSeq <= Len(table))
        /\ from > 0 => \A i \in 1..Len(table) : open \/ i <= lastId => Heard(i)

\* There is a first event seen as soon as there is an id to name.
IdInv == lastId = 0 <=> from = 0

StreamInv == StreamRange /\ CountInv /\ IdInv

\* It holds at the start.
LEMMA StreamInitInv == StreamInit => StreamInv
<1> SUFFICES ASSUME StreamInit PROVE StreamInv
    OBVIOUS
<1>1. StreamRange
    <2>1. <<>> \in Seq(Nat) /\ Len(<<>>) = 0
        OBVIOUS
    <2>2. table \in Seq(Nat) /\ buffer \in Seq(Nat) /\ \A i \in 1..Len(table) : FALSE
        BY <2>1 DEF StreamInit
    <2>3. /\ published \in Nat /\ liveSeq \in Nat /\ lastId \in Nat /\ from \in Nat
          /\ open \in BOOLEAN /\ lossy \in BOOLEAN
        BY DEF StreamInit
    <2> QED
        BY <2>2, <2>3 DEF StreamRange
<1>2. CountInv
    BY DEF StreamInit, CountInv
<1>3. IdInv
    BY DEF StreamInit, IdInv
<1> QED
    BY <1>1, <1>2, <1>3 DEF StreamInv

\* The newest rows of a table of numbers are numbers.
LEMMA LastNType ==
    ASSUME NEW s \in Seq(Nat), NEW n \in Nat
    PROVE  LastN(s, n) \in Seq(Nat)
BY DEF LastN

\* Every step keeps it.
LEMMA StreamStepInv == StreamInv /\ [StreamNext]_evtVars => StreamInv'
<1> SUFFICES ASSUME StreamInv, [StreamNext]_evtVars PROVE StreamInv'
    OBVIOUS
<1> USE StreamAssumption
<1>1. CASE UNCHANGED evtVars
    BY <1>1 DEF StreamInv, StreamRange, CountInv, IdInv, Heard, evtVars
<1>2. /\ table \in Seq(Nat) /\ buffer \in Seq(Nat) /\ Len(table) \in Nat
      /\ published \in Nat /\ liveSeq \in Nat /\ lastId \in Nat /\ from \in Nat
      /\ open \in BOOLEAN /\ lossy \in BOOLEAN
      /\ \A i \in 1..Len(table) : table[i] \in Nat /\ table[i] <= published
      /\ lastId = 0 <=> from = 0
    <2>1. table \in Seq(Nat) /\ \A i \in 1..Len(table) : table[i] <= published
        BY DEF StreamInv, StreamRange
    <2>2. Len(table) \in Nat /\ \A i \in 1..Len(table) : table[i] \in Nat
        BY <2>1
    <2> QED
        BY <2>1, <2>2 DEF StreamInv, StreamRange, IdInv
\* Whatever is emitted, and whether it is stored or not.
<1>3. ASSUME NEW other \in BOOLEAN, NEW kept \in BOOLEAN, Emit(published + 1, other),
             open' = open,
             table' = IF kept THEN Append(table, published + 1) ELSE table,
             lossy' = (lossy \/ (open /\ ~other /\ ~kept))
      PROVE  StreamInv'
    <2> DEFINE e == published + 1
    <2>1. /\ published' = e /\ foreign' = (IF other THEN foreign \cup {e} ELSE foreign)
          /\ buffer' = LastN(Append(buffer, e), BufferSize)
        BY <1>3 DEF Emit
    <2>2. \/ /\ open /\ ~other /\ liveSeq' = liveSeq + 1 /\ lastId' = liveSeq + 1
             /\ got' = got \cup {e} /\ from' = IF from = 0 THEN e ELSE from
          \/ ~(open /\ ~other) /\ UNCHANGED <<liveSeq, lastId, got, from>>
        BY <1>3 DEF Emit
    <2>3. buffer' \in Seq(Nat)
        <3>1. Append(buffer, e) \in Seq(Nat) /\ BufferSize \in Nat
            BY <1>2
        <3> QED
            BY <2>1, <3>1, LastNType
    <2>4. /\ table' \in Seq(Nat) /\ Len(table') \in Nat /\ Len(table) <= Len(table')
          /\ \A i \in 1..Len(table) : table'[i] = table[i]
          /\ kept => Len(table') = Len(table) + 1 /\ table'[Len(table) + 1] = e
          /\ ~kept => table' = table
        <3>1. CASE kept
            <4>1. table' = Append(table, e) /\ e \in Nat
                BY <1>2, <1>3, <3>1
            <4> HIDE DEF e
            <4> QED
                BY <1>2, <3>1, <4>1
        <3>2. CASE ~kept
            BY <1>2, <1>3, <3>2
        <3> QED
            BY <3>1, <3>2
    <2>5. \A i \in 1..Len(table') : i \in 1..Len(table) \/ (kept /\ i = Len(table) + 1)
        BY <1>2, <2>4, SMTT(30)
    <2>6. ASSUME NEW i \in 1..Len(table') PROVE table'[i] <= published'
        <3>1. CASE i \in 1..Len(table)
            <4>1. table'[i] = table[i] /\ table[i] \in Nat /\ table[i] <= published
                BY <1>2, <2>4, <3>1
            <4> QED
                BY <1>2, <2>1, <4>1
        <3>2. CASE kept /\ i = Len(table) + 1
            <4>1. table'[i] = e
                BY <2>4, <3>2
            <4> QED
                BY <1>2, <2>1, <4>1
        <3> QED
            BY <2>5, <3>1, <3>2
    <2>7. StreamRange'
        <3>1. published' \in Nat /\ liveSeq' \in Nat /\ lastId' \in Nat /\ from' \in Nat
            BY <1>2, <2>1, <2>2, SMTT(30)
        <3>2. open' \in BOOLEAN /\ lossy' \in BOOLEAN
            BY <1>2, <1>3
        <3> QED
            BY <2>3, <2>4, <2>6, <3>1, <3>2 DEF StreamRange
    <2>8. IdInv'
        BY <1>2, <2>2 DEF IdInv
    <2>9. ASSUME ~lossy' PROVE CountInv'
        <3>1. /\ ~lossy /\ lastId <= Len(table) /\ (open => liveSeq <= Len(table))
              /\ from > 0 => \A i \in 1..Len(table) : open \/ i <= lastId => Heard(i)
            BY <1>2, <1>3, <2>9 DEF StreamInv, CountInv
        <3>2. lastId' <= Len(table') /\ (open' => liveSeq' <= Len(table'))
            BY <1>2, <1>3, <2>2, <2>4, <2>9, <3>1, SMTT(30)
        <3>3. ASSUME from' > 0, NEW i \in 1..Len(table'), open' \/ i <= lastId'
              PROVE  Heard(i)'
            <4>1. CASE i \in 1..Len(table)
                <5>1. CASE from = 0
                    <6>1. from' = e
                        BY <2>2, <3>3, <5>1
                    <6>2. table'[i] = table[i] /\ table[i] \in Nat /\ table[i] <= published
                        BY <1>2, <2>4, <4>1
                    <6>3. table'[i] < from'
                        BY <1>2, <6>1, <6>2
                    <6> QED
                        BY <6>3 DEF Heard
                <5>2. CASE from > 0
                    <6>1. Heard(i)
                        <7>1. open \/ i <= lastId
                            BY <1>3, <2>2, <3>3
                        <7> QED
                            BY <3>1, <4>1, <5>2, <7>1
                    <6>2. from' = from /\ got \subseteq got' /\ foreign \subseteq foreign'
                        BY <1>2, <2>1, <2>2, <5>2
                    <6> QED
                        BY <2>4, <4>1, <6>1, <6>2 DEF Heard
                <5> QED
                    BY <1>2, <5>1, <5>2
            <4>2. CASE kept /\ i = Len(table) + 1
                <5>1. CASE open /\ ~other
                    BY <2>2, <2>4, <4>2, <5>1 DEF Heard
                <5>2. CASE other
                    BY <2>1, <2>4, <4>2, <5>2 DEF Heard
                <5>3. CASE ~open
                    BY <1>2, <1>3, <2>2, <3>1, <3>3, <4>2, <5>3
                <5> QED
                    BY <5>1, <5>2, <5>3
            <4> QED
                BY <2>5, <4>1, <4>2
        <3> QED
            BY <3>2, <3>3 DEF CountInv
    <2> QED
        BY <2>7, <2>8, <2>9 DEF StreamInv, CountInv
<1>4. ASSUME NEW other \in BOOLEAN, NEW stored_ \in BOOLEAN, PublishEvent(other, stored_)
      PROVE  StreamInv'
    BY <1>3, <1>4 DEF PublishEvent
<1>5. ASSUME NEW other \in BOOLEAN, WorkerPublishes(other) PROVE StreamInv'
    <2>1. lossy' = (lossy \/ (open /\ ~other /\ ~FALSE))
        BY <1>5 DEF WorkerPublishes
    <2>2. table' = IF FALSE THEN Append(table, published + 1) ELSE table
        BY <1>5 DEF WorkerPublishes
    <2> QED
        BY <1>3, <1>5, <2>1, <2>2 DEF WorkerPublishes
<1>6. CASE Connect
    <2>1. /\ ~open /\ open' = TRUE /\ liveSeq' = lastId
          /\ UNCHANGED <<table, foreign, buffer, published, from, breaks>>
          /\ got \subseteq got' /\ {table[i] : i \in Replayed} \subseteq got'
          /\ lossy' = (lossy \/ Replayed # MissedRows)
        BY <1>6 DEF Connect
    <2>2. Replayed \subseteq MissedRows /\ MissedRows \subseteq (lastId + 1)..Len(table)
          /\ (Replayed # {} => lastId # 0)
        BY DEF Replayed, MissedRows
    <2>3. IF Replayed = {} THEN lastId' = lastId ELSE lastId' \in Replayed
        <3>1. CASE Replayed = {}
            BY <1>6, <3>1 DEF Connect
        <3>2. CASE Replayed # {}
            <4>1. Replayed \in SUBSET (0..Len(table))
                <5>1. (lastId + 1)..Len(table) \subseteq 0..Len(table)
                    BY <1>2
                <5> QED
                    BY <2>2, <5>1
            <4>2. \E i \in Replayed : \A j \in Replayed : j <= i
                BY <1>2, <3>2, <4>1, GreatestOf, Zenon
            <4> QED
                BY <1>6, <3>2, <4>2 DEF Connect
        <3> QED
            BY <3>1, <3>2
    <2>4. lastId' \in Nat /\ (lastId' = 0 <=> lastId = 0) /\ lastId <= lastId'
          /\ (lastId <= Len(table) => lastId' <= Len(table))
        <3>1. CASE Replayed = {}
            BY <1>2, <2>3, <3>1
        <3>2. CASE Replayed # {}
            <4>1. lastId' \in (lastId + 1)..Len(table)
                BY <2>2, <2>3, <3>2
            <4> QED
                BY <1>2, <2>2, <3>2, <4>1
        <3> QED
            BY <3>1, <3>2
    <2>5. StreamRange' /\ IdInv'
        BY <1>2, <2>1, <2>4 DEF StreamRange, IdInv
    <2>6. ASSUME ~lossy' PROVE CountInv'
        <3>1. /\ ~lossy /\ Replayed = MissedRows /\ lastId <= Len(table)
              /\ from > 0 => \A i \in 1..Len(table) : i <= lastId => Heard(i)
            BY <2>1, <2>6 DEF StreamInv, CountInv
        <3>2. ASSUME from > 0, NEW i \in 1..Len(table) PROVE Heard(i)'
            <4>1. CASE i <= lastId
                BY <2>1, <3>1, <3>2, <4>1 DEF Heard
            <4>2. CASE ~(i <= lastId) /\ table[i] \notin foreign
                <5>1. i \in MissedRows
                    BY <1>2, <3>2, <4>2 DEF MissedRows
                <5> QED
                    BY <2>1, <3>1, <5>1 DEF Heard
            <4>3. CASE table[i] \in foreign
                BY <2>1, <4>3 DEF Heard
            <4> QED
                BY <4>1, <4>2, <4>3
        <3> QED
            BY <1>2, <2>1, <2>4, <3>1, <3>2 DEF CountInv
    <2> QED
        BY <2>5, <2>6 DEF StreamInv, CountInv
<1>7. CASE Break \/ ServerRestarts
    <2>1. /\ open' = FALSE /\ buffer' \in {buffer, <<>>}
          /\ UNCHANGED <<table, foreign, published, lossy, liveSeq, lastId, got, from>>
        BY <1>7 DEF Break, ServerRestarts
    <2>2. buffer' \in Seq(Nat)
        <3>1. <<>> \in Seq(Nat)
            OBVIOUS
        <3> QED
            BY <1>2, <2>1, <3>1
    <2> QED
        BY <2>1, <2>2 DEF StreamInv, StreamRange, CountInv, IdInv, Heard
<1> QED
    BY <1>1, <1>4, <1>5, <1>6, <1>7 DEF StreamNext

\* A gap is explained by what the stream lost count of.
LEMMA StreamInvExplains == StreamInv => GapExplained
<1> SUFFICES ASSUME StreamInv, ~lossy, NEW e \in Gap PROVE FALSE
    BY DEF GapExplained
<1>1. open /\ from > 0 /\ e \in ToSet(table) /\ e \notin foreign /\ e >= from /\ e \notin got
    BY DEF Gap, Mine
<1>2. PICK i \in 1..Len(table) : e = table[i]
    BY <1>1 DEF ToSet, StreamInv, StreamRange
<1>3. Heard(i)
    BY <1>1, <1>2 DEF StreamInv, CountInv
<1> QED
    BY <1>1, <1>2, <1>3 DEF Heard, StreamInv, StreamRange

-----------------------------------------------------------------------------
(* PgBridge: separate calls that add up to a transaction.                   *)

PgCalls == {"begin", "single", "write", "commit", "rollback"}

ConnRecord ==
    [open : BOOLEAN, writes : SUBSET (Txn \X (1..NWrites)),
     doing : [kind : PgCalls \cup {"none"}, write : (0..MaxTxns) \X (0..NWrites)]]

MainRecord == [pc : PgCalls \cup {"out", "body", "caught"}, done : 0..NWrites,
               on : Conn \cup {NoConn}]

\* The statement a connection executes.
DoingInv ==
    \A c \in Conn :
        /\ conn[c].doing.kind \in {"write", "single"} =>
              conn[c].doing.write \in Txn \X (1..NWrites)
        /\ conn[c].doing.kind = "none" => conn[c].doing = Nothing

\* A connection is idle once, and never while it executes a statement; the one
\* the thread waits for executes what it was asked.
PoolInv ==
    /\ idle \in Seq(Conn)
    /\ \A i, j \in 1..Len(idle) : idle[i] = idle[j] => i = j
    /\ \A i \in 1..Len(idle) : conn[idle[i]].doing = Nothing
    /\ main.on # NoConn <=> main.pc \in PgCalls
    /\ main.on # NoConn => conn[main.on].doing.kind = main.pc

PgRange ==
    /\ conn \in [Conn -> ConnRecord] /\ main \in MainRecord
    /\ main.pc = "write" => main.done < NWrites
    /\ txn \in 0..MaxTxns /\ (main.pc # "out" => txn # 0)
    /\ outcome \in [Txn -> {"none", "committed", "written", "failed", "unknown"}]
    /\ stored \subseteq Txn \X (1..NWrites) /\ timeouts \in 0..MaxTimeouts

\* As long as no call timed out: one statement at a time, one transaction open at
\* most, on the connection that is waited for or handed out next.
OpenInv ==
    /\ \A c \in Conn : conn[c].doing.kind # "none" => c = main.on
    /\ \A c \in Conn : conn[c].open =>
          \/ main.pc \in {"body", "caught"} /\ idle # <<>> /\ c = idle[Len(idle)]
          \/ main.pc \in {"write", "commit", "rollback"} /\ c = main.on
    /\ \A c \in Conn : ~conn[c].open => conn[c].writes = {}

\* What the transaction under way has written, on its connection.
BodyInv ==
    /\ main.pc \in {"out", "begin", "single"} => main.done = 0
    /\ main.pc = "body" =>
          /\ idle # <<>> /\ conn[idle[Len(idle)]].open
          /\ conn[idle[Len(idle)]].writes = {txn} \X (1..main.done)
    /\ main.pc \in {"write", "commit"} =>
          conn[main.on].open /\ conn[main.on].writes = {txn} \X (1..main.done)
    /\ main.pc = "write" =>
          main.done < NWrites /\ conn[main.on].doing.write = <<txn, main.done + 1>>
    /\ main.pc = "commit" => main.done = NWrites
    /\ main.pc = "single" => conn[main.on].doing.write = <<txn, 1>>

NoneOrAll(t) == StoredOf(t) = {} \/ StoredOf(t) = {t} \X (1..NWrites)

\* What is stored of a transaction, and what was said of it.
StoreInv ==
    \A t \in Txn :
        /\ t > txn => outcome[t] = "none" /\ StoredOf(t) = {}
        /\ t = txn /\ main.pc # "out" =>
              /\ outcome[t] = "none" /\ NoneOrAll(t)
              /\ main.pc \notin {"caught", "rollback"} => StoredOf(t) = {}
        /\ outcome[t] = "committed" => StoredOf(t) = {t} \X (1..NWrites)
        /\ outcome[t] = "failed" => NoneOrAll(t)
        /\ outcome[t] = "written" => StoredOf(t) = {<<t, 1>>}
        /\ outcome[t] = "unknown" => StoredOf(t) \subseteq {<<t, 1>>}

PgInv == /\ PgRange /\ DoingInv /\ PoolInv
         /\ timeouts = 0 => OpenInv /\ BodyInv /\ StoreInv

\* A fresh connection fits its record and does nothing.
LEMMA FreshFits == Fresh \in ConnRecord /\ Fresh.doing = Nothing /\ ~Fresh.open
                   /\ Fresh.writes = {} /\ Nothing.kind = "none" /\ Fresh.doing.kind = "none"
BY PgAssumption DEF Fresh, Nothing, ConnRecord

\* So does a thread that is in no transaction.
LEMMA OutsideFits == Outside \in MainRecord /\ Outside.pc = "out" /\ Outside.done = 0
                     /\ Outside.on = NoConn
BY PgAssumption DEF Outside, MainRecord

\* It holds at the start.
LEMMA PgInitInv == PgInit => PgInv
<1> SUFFICES ASSUME PgInit PROVE PgInv
    OBVIOUS
<1>1. /\ conn = [c \in Conn |-> Fresh] /\ idle = <<>> /\ main = Outside /\ txn = 0
      /\ outcome = [t \in Txn |-> "none"] /\ stored = {} /\ timeouts = 0
    BY DEF PgInit
<1>2. PgRange
    BY <1>1, FreshFits, OutsideFits, PgAssumption DEF PgRange
<1>3. DoingInv
    BY <1>1, FreshFits DEF DoingInv
<1>4. PoolInv
    BY <1>1, OutsideFits DEF PoolInv, PgCalls
<1>5. OpenInv
    BY <1>1, FreshFits DEF OpenInv
<1>6. BodyInv
    BY <1>1, OutsideFits DEF BodyInv
<1>7. StoreInv
    BY <1>1, OutsideFits DEF StoreInv, StoredOf
<1> QED
    BY <1>2, <1>3, <1>4, <1>5, <1>6, <1>7 DEF PgInv

\* What the invariant says of the variables, one by one.
LEMMA PgFacts ==
    ASSUME PgInv
    PROVE  /\ \A c \in Conn : /\ conn[c] \in ConnRecord /\ conn[c].open \in BOOLEAN
                              /\ conn[c].writes \subseteq Txn \X (1..NWrites)
                              /\ conn[c].doing.kind \in PgCalls \cup {"none"}
           /\ main.pc \in PgCalls \cup {"out", "body", "caught"} /\ main.done \in 0..NWrites
           /\ main.on \in Conn \cup {NoConn} /\ Len(idle) \in Nat /\ txn \in Nat
           /\ idle \in Seq(Conn) /\ \A i \in 1..Len(idle) : idle[i] \in Conn
           /\ DOMAIN idle = 1..Len(idle)
BY DEF PgInv, PgRange, PoolInv, ConnRecord, MainRecord

\* A statement is given to a connection that has none and leaves the pool.
LEMMA PostTakes ==
    ASSUME PgInv, NEW k, NEW w, Post(k, w)
    PROVE  \E c \in Conn :
              /\ conn[c].doing = Nothing
              /\ conn' = [conn EXCEPT ![c].doing = [kind |-> k, write |-> w]]
              /\ main' = [main EXCEPT !.pc = k, !.on = c]
              /\ idle' \in Seq(Conn) /\ Len(idle') <= Len(idle)
              /\ \A i \in 1..Len(idle') : idle'[i] = idle[i] /\ idle'[i] # c
              /\ idle # <<>> => c = idle[Len(idle)]
              /\ UNCHANGED <<outcome, stored, timeouts>>
<1>1. PICK c \in Taken :
         /\ conn' = [conn EXCEPT ![c].doing = [kind |-> k, write |-> w]]
         /\ idle' = (IF idle = <<>> THEN idle ELSE SubSeq(idle, 1, Len(idle) - 1))
         /\ main' = [main EXCEPT !.pc = k, !.on = c]
         /\ UNCHANGED <<outcome, stored, timeouts>>
    BY DEF Post
<1>2. CASE idle = <<>>
    <2>1. c \in Conn /\ c \notin Busy
        BY <1>1, <1>2 DEF Taken
    <2>2. conn[c].doing = Nothing
        BY <2>1 DEF Busy
    <2>3. idle' = idle /\ Len(idle) = 0 /\ idle' \in Seq(Conn) /\ Len(idle') <= Len(idle)
          /\ \A i \in 1..Len(idle') : FALSE
        BY <1>1, <1>2
    <2> QED
        BY <1>1, <1>2, <2>1, <2>2, <2>3
<1>3. CASE idle # <<>>
    <2>1. Len(idle) \in Nat /\ Len(idle) # 0 /\ idle \in Seq(Conn)
        BY <1>3, PgFacts
    <2>2. c = idle[Len(idle)] /\ c \in Conn
        BY <1>1, <1>3, <2>1, PgFacts DEF Taken
    <2>3. conn[c].doing = Nothing
        BY <2>1, <2>2 DEF PgInv, PoolInv
    <2>4. /\ idle' \in Seq(Conn) /\ Len(idle') = Len(idle) - 1
          /\ \A i \in 1..Len(idle') : idle'[i] = idle[i]
        <3>1. PICK n \in Nat : n = Len(idle) - 1
            BY <2>1
        <3>2. idle' = SubSeq(idle, 1, n)
            BY <1>1, <1>3, <3>1
        <3>3. \A i \in 1..n : idle[i] \in Conn
            BY <2>1, <3>1
        <3>4. /\ SubSeq(idle, 1, n) \in Seq(Conn)
              /\ Len(SubSeq(idle, 1, n)) = IF 1 <= n THEN n - 1 + 1 ELSE 0
              /\ \A i \in 1..(n - 1 + 1) : SubSeq(idle, 1, n)[i] = idle[1 + i - 1]
            <4>1. 1 \in Int /\ n \in Int
                BY <3>1
            <4> QED
                BY <3>3, <4>1, SubSeqProperties, SMTT(20)
        <3>5. /\ n - 1 + 1 = n /\ (~(1 <= n) => n = 0)
              /\ \A i \in 1..n : 1 + i - 1 = i
            BY <3>1
        <3>6. Len(idle') = n
            BY <3>2, <3>4, <3>5
        <3>7. \A i \in 1..n : idle'[i] = idle[i]
            BY <3>2, <3>4, <3>5
        <3> QED
            BY <3>1, <3>2, <3>4, <3>6, <3>7
    <2>5. ASSUME NEW i \in 1..Len(idle') PROVE idle'[i] # c
        <3>1. i \in 1..Len(idle) /\ Len(idle) \in 1..Len(idle) /\ i # Len(idle)
              /\ idle'[i] = idle[i]
            BY <2>1, <2>4
        <3> QED
            BY <2>2, <3>1 DEF PgInv, PoolInv
    <2>6. Len(idle') <= Len(idle)
        BY <2>1, <2>4
    <2> QED
        BY <1>1, <2>2, <2>3, <2>4, <2>5, <2>6
<1> QED
    BY <1>2, <1>3

\* A call that is posted leaves pool and connections in shape.
LEMMA PostKeeps ==
    ASSUME PgInv, NEW k \in PgCalls, NEW w \in (0..MaxTxns) \X (0..NWrites), Post(k, w),
           k \in {"write", "single"} => w \in Txn \X (1..NWrites),
           main.pc \notin PgCalls, txn' \in Txn, k = "write" => main.done < NWrites
    PROVE  \E c \in Conn :
              /\ PgRange' /\ DoingInv' /\ PoolInv'
              /\ UNCHANGED <<outcome, stored, timeouts>>
              /\ conn[c].doing = Nothing /\ (idle # <<>> => c = idle[Len(idle)])
              /\ \A d \in Conn \ {c} : conn'[d] = conn[d]
              /\ conn'[c].open = conn[c].open /\ conn'[c].writes = conn[c].writes
              /\ conn'[c].doing.kind = k /\ conn'[c].doing.write = w
              /\ main'.pc = k /\ main'.on = c /\ main'.done = main.done
<1>1. PICK c \in Conn :
         /\ conn[c].doing = Nothing
         /\ conn' = [conn EXCEPT ![c].doing = [kind |-> k, write |-> w]]
         /\ main' = [main EXCEPT !.pc = k, !.on = c]
         /\ idle' \in Seq(Conn) /\ Len(idle') <= Len(idle)
         /\ \A i \in 1..Len(idle') : idle'[i] = idle[i] /\ idle'[i] # c
         /\ idle # <<>> => c = idle[Len(idle)]
         /\ UNCHANGED <<outcome, stored, timeouts>>
    BY PostTakes
<1> DEFINE to == [conn[c] EXCEPT !.doing = [kind |-> k, write |-> w]]
<1>2. /\ to \in ConnRecord /\ to.open = conn[c].open /\ to.writes = conn[c].writes
      /\ to.doing = [kind |-> k, write |-> w] /\ to.doing.kind = k /\ to.doing.write = w
    BY PgFacts DEF ConnRecord
<1>3. conn' = [conn EXCEPT ![c] = to]
    BY <1>1
<1> HIDE DEF to
<1>4. conn'[c] = to /\ \A d \in Conn \ {c} : conn'[d] = conn[d]
    BY <1>3 DEF PgInv, PgRange
<1>5. /\ main' \in MainRecord /\ main'.pc = k /\ main'.on = c /\ main'.done = main.done
    BY <1>1 DEF PgInv, PgRange, MainRecord
<1>6. PgRange'
    <2>1. conn' \in [Conn -> ConnRecord]
        BY <1>2, <1>3 DEF PgInv, PgRange
    <2>2. txn' \in 0..MaxTxns /\ txn' # 0
        BY PgAssumption DEF Txn
    <2> QED
        BY <1>1, <1>5, <2>1, <2>2 DEF PgInv, PgRange
<1>7. DoingInv'
    <2>1. "none" \notin PgCalls
        BY DEF PgCalls
    <2> QED
        BY <1>2, <1>4, <2>1 DEF PgInv, DoingInv
<1>8. PoolInv'
    <2>1. \A i \in 1..Len(idle') : i \in 1..Len(idle)
        BY <1>1, PgFacts
    <2>2. \A i \in 1..Len(idle') : idle'[i] \in Conn /\ conn'[idle'[i]] = conn[idle[i]]
        BY <1>1, <1>4, <2>1, PgFacts
    <2>3. \A i, j \in 1..Len(idle') : idle'[i] = idle'[j] => i = j
        BY <1>1, <2>1 DEF PgInv, PoolInv
    <2>4. \A i \in 1..Len(idle') : conn'[idle'[i]].doing = Nothing
        BY <2>1, <2>2 DEF PgInv, PoolInv
    <2>5. c # NoConn
        BY PgAssumption
    <2> QED
        BY <1>1, <1>2, <1>4, <1>5, <2>3, <2>4, <2>5 DEF PoolInv
<1> QED
    BY <1>1, <1>2, <1>4, <1>5, <1>6, <1>7, <1>8

\* No connection but the one waited for is busy; with none waited for, none is.
LEMMA PgPostStep ==
    ASSUME PgInv, Begin \/ AutoCommit \/ Write \/ Commit \/ Rollback
    PROVE  PgInv'
<1>1. /\ Begin => main.pc = "out" /\ txn' = txn + 1 /\ txn < MaxTxns
      /\ AutoCommit => main.pc = "out" /\ txn' = txn + 1 /\ txn < MaxTxns
      /\ Write => main.pc = "body" /\ txn' = txn /\ main.done < NWrites
      /\ Commit => main.pc = "body" /\ txn' = txn /\ main.done = NWrites
      /\ Rollback => main.pc = "caught" /\ txn' = txn
    BY DEF Begin, AutoCommit, Write, Commit, Rollback
<1>2. main.pc \notin PgCalls /\ txn' \in Txn /\ main.on = NoConn
    BY <1>1, PgAssumption DEF PgInv, PgRange, PoolInv, PgCalls, Txn
<1>3. \E k_ \in PgCalls, w \in (0..MaxTxns) \X (0..NWrites) :
         /\ Post(k_, w) /\ (k_ \in {"write", "single"} => w \in Txn \X (1..NWrites))
         /\ \/ k_ \in {"begin", "single"} /\ main.pc = "out" /\ txn' = txn + 1
               /\ (k_ = "single" => w = <<txn + 1, 1>>)
            \/ k_ = "write" /\ main.pc = "body" /\ txn' = txn /\ main.done < NWrites
               /\ w = <<txn, main.done + 1>>
            \/ k_ = "commit" /\ main.pc = "body" /\ txn' = txn /\ main.done = NWrites
            \/ k_ = "rollback" /\ main.pc = "caught" /\ txn' = txn
    <2>1. <<0, 0>> \in (0..MaxTxns) \X (0..NWrites)
        BY PgAssumption
    <2>2. CASE Begin
        BY <1>1, <2>1, <2>2 DEF Begin, PgCalls
    <2>3. CASE AutoCommit
        <3>1. Post("single", <<txn + 1, 1>>) /\ txn + 1 \in Txn
            BY <1>1, <1>2, <2>3 DEF AutoCommit
        <3>2. 1 \in 1..NWrites /\ 1 \in 0..NWrites /\ txn + 1 \in 0..MaxTxns
            BY <3>1, PgAssumption DEF Txn
        <3> QED
            BY <1>1, <2>3, <3>1, <3>2 DEF PgCalls
    <2>4. CASE Write
        <3>1. Post("write", <<txn, main.done + 1>>) /\ txn \in Txn
            BY <1>1, <1>2, <2>4 DEF Write
        <3>2. /\ main.done + 1 \in 1..NWrites /\ main.done + 1 \in 0..NWrites
              /\ txn \in 0..MaxTxns
            BY <1>1, <2>4, <3>1, PgFacts, PgAssumption DEF Txn
        <3> QED
            BY <1>1, <2>4, <3>1, <3>2 DEF PgCalls
    <2>5. CASE Commit
        BY <1>1, <2>1, <2>5 DEF Commit, PgCalls
    <2>6. CASE Rollback
        BY <1>1, <2>1, <2>6 DEF Rollback, PgCalls
    <2> QED
        BY <2>2, <2>3, <2>4, <2>5, <2>6
<1>4. PICK k_ \in PgCalls, w \in (0..MaxTxns) \X (0..NWrites) :
         /\ Post(k_, w) /\ (k_ \in {"write", "single"} => w \in Txn \X (1..NWrites))
         /\ \/ k_ \in {"begin", "single"} /\ main.pc = "out" /\ txn' = txn + 1
               /\ (k_ = "single" => w = <<txn + 1, 1>>)
            \/ k_ = "write" /\ main.pc = "body" /\ txn' = txn /\ main.done < NWrites
               /\ w = <<txn, main.done + 1>>
            \/ k_ = "commit" /\ main.pc = "body" /\ txn' = txn /\ main.done = NWrites
            \/ k_ = "rollback" /\ main.pc = "caught" /\ txn' = txn
    BY <1>3
<1>5. PICK c \in Conn :
         /\ PgRange' /\ DoingInv' /\ PoolInv'
         /\ UNCHANGED <<outcome, stored, timeouts>>
         /\ conn[c].doing = Nothing /\ (idle # <<>> => c = idle[Len(idle)])
         /\ \A d \in Conn \ {c} : conn'[d] = conn[d]
         /\ conn'[c].open = conn[c].open /\ conn'[c].writes = conn[c].writes
         /\ conn'[c].doing.kind = k_ /\ conn'[c].doing.write = w
         /\ main'.pc = k_ /\ main'.on = c /\ main'.done = main.done
    BY <1>2, <1>4, PostKeeps
<1>6. ASSUME timeouts = 0 PROVE OpenInv' /\ BodyInv' /\ StoreInv'
    <2>1. OpenInv /\ BodyInv /\ StoreInv
        BY <1>6 DEF PgInv
    <2>2. \A d \in Conn : conn[d].doing.kind = "none"
        <3>1. \A d \in Conn : d # NoConn
            BY PgAssumption
        <3> QED
            BY <1>2, <2>1, <3>1, PgFacts DEF OpenInv
    <2>3. \A d \in Conn : conn'[d].open = conn[d].open /\ conn'[d].writes = conn[d].writes
        BY <1>5
    <2>4. \A d \in Conn : conn'[d].doing.kind # "none" => d = main'.on
        BY <1>5, <2>2
    <2>5. \A d \in Conn : conn[d].open => d = c /\ main.pc \in {"body", "caught"}
        BY <1>2, <1>5, <2>1 DEF OpenInv, PgCalls
    <2>6. OpenInv'
        <3>1. \A d \in Conn : conn'[d].open =>
                 main'.pc \in {"write", "commit", "rollback"} /\ d = main'.on
            BY <1>4, <1>5, <2>3, <2>5
        <3>2. \A d \in Conn : ~conn'[d].open => conn'[d].writes = {}
            BY <2>1, <2>3 DEF OpenInv
        <3> QED
            BY <2>4, <3>1, <3>2 DEF OpenInv
    <2>7. BodyInv'
        <3>1. CASE main.pc = "out"
            BY <1>4, <1>5, <2>1, <3>1 DEF BodyInv
        <3>2. CASE main.pc = "body"
            BY <1>4, <1>5, <2>1, <3>2 DEF BodyInv
        <3>3. CASE main.pc = "caught"
            BY <1>4, <1>5, <3>3 DEF BodyInv
        <3> QED
            BY <1>4, <3>1, <3>2, <3>3
    <2>8. StoreInv'
        <3>1. ASSUME NEW t \in Txn
              PROVE  /\ StoredOf(t)' = StoredOf(t) /\ NoneOrAll(t)' = NoneOrAll(t)
                     /\ outcome'[t] = outcome[t] /\ t \in Nat
            BY <1>5 DEF StoredOf, NoneOrAll, Txn
        <3>2. CASE main.pc = "out"
            <4>1. txn' = txn + 1 /\ txn \in Nat /\ main'.pc \in {"begin", "single"}
                BY <1>4, <1>5, <3>2, PgFacts
            <4> QED
                BY <2>1, <3>1, <4>1 DEF StoreInv, NoneOrAll
        <3>3. CASE main.pc # "out"
            <4>1. txn' = txn /\ (main.pc = "caught" => main'.pc = "rollback")
                  /\ main.pc \in {"body", "caught"}
                BY <1>4, <1>5, <3>3
            <4> QED
                BY <2>1, <3>1, <3>3, <4>1 DEF StoreInv
        <3> QED
            BY <3>2, <3>3
    <2> QED
        BY <2>6, <2>7, <2>8
<1> QED
    BY <1>5, <1>6 DEF PgInv

\* What a statement makes of its connection, and of the tables.
LEMMA SessionIs ==
    ASSUME PgInv, NEW c \in Conn, c \in Busy
    PROVE  /\ Session(c) \in ConnRecord /\ Session(c).doing = Nothing
           /\ Committed(c) \subseteq Txn \X (1..NWrites)
           /\ conn[c].doing.kind = "begin" =>
                 /\ Session(c).open /\ Session(c).writes = conn[c].writes
                 /\ Committed(c) = {}
           /\ conn[c].doing.kind \in {"write", "single"} /\ conn[c].open =>
                 /\ Session(c).open /\ Committed(c) = {}
                 /\ Session(c).writes = conn[c].writes \cup {conn[c].doing.write}
           /\ conn[c].doing.kind \in {"write", "single"} /\ ~conn[c].open =>
                 /\ ~Session(c).open /\ Session(c).writes = conn[c].writes
                 /\ Committed(c) = {conn[c].doing.write}
           /\ conn[c].doing.kind = "commit" => Committed(c) = conn[c].writes
           /\ conn[c].doing.kind = "rollback" => Committed(c) = {}
           /\ conn[c].doing.kind \in {"commit", "rollback"} => Session(c) = Fresh
<1> DEFINE s == [conn[c] EXCEPT !.doing = Nothing]
<1>1. conn[c].doing # Nothing /\ conn[c].doing.kind \in PgCalls
    BY PgFacts DEF Busy, PgInv, DoingInv, PgCalls
<1>2. Nothing \in [kind : PgCalls \cup {"none"}, write : (0..MaxTxns) \X (0..NWrites)]
    BY PgAssumption DEF Nothing
<1>3. /\ s \in ConnRecord /\ s.doing = Nothing /\ s.open = conn[c].open
      /\ s.writes = conn[c].writes /\ s.open \in BOOLEAN
      /\ s.writes \subseteq Txn \X (1..NWrites)
    BY <1>2, PgFacts, ZenonT(40) DEF ConnRecord
<1>4. conn[c].doing.kind \in {"write", "single"} =>
         conn[c].doing.write \in Txn \X (1..NWrites)
    BY DEF PgInv, DoingInv
<1>5. CASE conn[c].doing.kind = "begin"
    <2>1. Session(c) = [s EXCEPT !.open = TRUE] /\ Committed(c) = {}
        BY <1>5 DEF Session, Committed
    <2> HIDE DEF s
    <2>2. /\ Session(c) \in ConnRecord /\ Session(c).doing = Nothing /\ Session(c).open
          /\ Session(c).writes = conn[c].writes
        BY <1>3, <2>1 DEF ConnRecord
    <2> QED
        BY <1>5, <2>1, <2>2
<1>6. CASE conn[c].doing.kind \in {"write", "single"} /\ conn[c].open
    <2> DEFINE u == conn[c].writes \cup {conn[c].doing.write}
    <2>1. Session(c) = [s EXCEPT !.writes = @ \cup {conn[c].doing.write}] /\ Committed(c) = {}
        BY <1>3, <1>6 DEF Session, Committed
    <2>3. u \in SUBSET (Txn \X (1..NWrites))
        BY <1>3, <1>4, <1>6
    <2> HIDE DEF s
    <2>4. Session(c) = [s EXCEPT !.writes = u]
        BY <1>3, <2>1
    <2> HIDE DEF u
    <2>5. /\ Session(c) \in ConnRecord /\ Session(c).doing = Nothing /\ Session(c).open
          /\ Session(c).writes = u
        BY <1>3, <1>6, <2>3, <2>4 DEF ConnRecord
    <2> USE DEF u
    <2>2. /\ Session(c) \in ConnRecord /\ Session(c).doing = Nothing /\ Session(c).open
          /\ Session(c).writes = conn[c].writes \cup {conn[c].doing.write}
        BY <2>5
    <2> QED
        BY <1>6, <2>1, <2>2
<1>7. CASE conn[c].doing.kind \in {"write", "single"} /\ ~conn[c].open
    <2>1. Session(c) = s /\ Committed(c) = {conn[c].doing.write}
        BY <1>3, <1>7 DEF Session, Committed
    <2> HIDE DEF s
    <2> QED
        BY <1>3, <1>4, <1>7, <2>1
<1>8. CASE conn[c].doing.kind \in {"commit", "rollback"}
    <2>1. Session(c) = Fresh
        BY <1>8 DEF Session
    <2>2. /\ conn[c].doing.kind = "commit" => Committed(c) = conn[c].writes
          /\ conn[c].doing.kind = "rollback" => Committed(c) = {}
        BY <1>8 DEF Committed
    <2> QED
        BY <1>8, <2>1, <2>2, FreshFits, PgFacts
<1> QED
    BY <1>1, <1>5, <1>6, <1>7, <1>8 DEF PgCalls

\* What the thread makes of an answer, or of the lack of one.
LEMMA AnsweredIs ==
    ASSUME PgInv, main.on # NoConn, Answered
    PROVE  /\ main' \in MainRecord /\ main'.on = NoConn
           /\ outcome' \in [Txn -> {"none", "committed", "written", "failed", "unknown"}]
           /\ main.pc = "begin" =>
                 main'.pc = "body" /\ main'.done = main.done /\ outcome' = outcome
           /\ main.pc = "write" =>
                 main'.pc = "body" /\ main'.done = main.done + 1 /\ outcome' = outcome
           /\ main.pc = "commit" =>
                 main' = Outside /\ outcome' = [outcome EXCEPT ![txn] = "committed"]
           /\ main.pc = "single" =>
                 main' = Outside /\ outcome' = [outcome EXCEPT ![txn] = "written"]
           /\ main.pc = "rollback" =>
                 main' = Outside /\ outcome' = [outcome EXCEPT ![txn] = "failed"]
<1>1. main.pc \in PgCalls /\ main \in MainRecord
      /\ outcome \in [Txn -> {"none", "committed", "written", "failed", "unknown"}]
    BY DEF PgInv, PoolInv, PgRange
<1>2. CASE main.pc = "begin"
    <2>1. main' = [main EXCEPT !.pc = "body", !.on = NoConn] /\ outcome' = outcome
        BY <1>2 DEF Answered
    <2> QED
        BY <1>1, <1>2, <2>1 DEF MainRecord
<1>3. CASE main.pc = "write"
    <2>1. /\ main' = [main EXCEPT !.pc = "body", !.on = NoConn, !.done = @ + 1]
          /\ outcome' = outcome
        BY <1>3 DEF Answered
    <2>2. main.done + 1 \in 0..NWrites
        BY <1>3, PgFacts, PgAssumption DEF PgInv, PgRange
    <2> QED
        BY <1>1, <1>3, <2>1, <2>2 DEF MainRecord
<1>4. CASE main.pc = "commit"
    <2>1. Tell("committed")
        BY <1>4 DEF Answered
    <2> QED
        BY <1>1, <1>4, <2>1, OutsideFits DEF Tell
<1>5. CASE main.pc = "single"
    <2>1. Tell("written")
        BY <1>5 DEF Answered
    <2> QED
        BY <1>1, <1>5, <2>1, OutsideFits DEF Tell
<1>6. CASE main.pc = "rollback"
    <2>1. Tell("failed")
        BY <1>6 DEF Answered
    <2> QED
        BY <1>1, <1>6, <2>1, OutsideFits DEF Tell
<1> QED
    BY <1>1, <1>2, <1>3, <1>4, <1>5, <1>6 DEF PgCalls

\* What a body that throws leaves behind.
LEMMA ThrownIs ==
    ASSUME PgInv, main.on # NoConn, Thrown
    PROVE  /\ main' \in MainRecord /\ main'.on = NoConn
           /\ outcome' \in [Txn -> {"none", "committed", "written", "failed", "unknown"}]
           /\ main.pc \in {"write", "commit"} =>
                 main'.pc = "caught" /\ main'.done = main.done /\ outcome' = outcome
           /\ main.pc = "single" =>
                 main' = Outside /\ outcome' = [outcome EXCEPT ![txn] = "unknown"]
           /\ main.pc \in {"begin", "rollback"} =>
                 main' = Outside /\ outcome' = [outcome EXCEPT ![txn] = "failed"]
<1>1. main.pc \in PgCalls /\ main \in MainRecord
      /\ outcome \in [Txn -> {"none", "committed", "written", "failed", "unknown"}]
    BY DEF PgInv, PoolInv, PgRange
<1>2. CASE main.pc \in {"write", "commit"}
    <2>1. main' = [main EXCEPT !.pc = "caught", !.on = NoConn] /\ outcome' = outcome
        BY <1>2 DEF Thrown
    <2> QED
        BY <1>1, <1>2, <2>1 DEF MainRecord
<1>3. CASE main.pc = "single"
    <2>1. Tell("unknown")
        BY <1>3 DEF Thrown
    <2> QED
        BY <1>1, <1>3, <2>1, OutsideFits DEF Tell
<1>4. CASE main.pc \in {"begin", "rollback"}
    <2>1. Tell("failed")
        BY <1>4 DEF Thrown
    <2> QED
        BY <1>1, <1>4, <2>1, OutsideFits DEF Tell
<1> QED
    BY <1>1, <1>2, <1>3, <1>4 DEF PgCalls

\* The end of a query leaves pool and connections in shape.
LEMMA QueryKeeps ==
    ASSUME PgInv, NEW c \in Busy, NEW to \in ConnRecord, to.doing = Nothing,
           conn' = [conn EXCEPT ![c] = to], idle' = idle \/ idle' = Append(idle, c),
           \/ main.on = c /\ main' \in MainRecord /\ main'.on = NoConn /\ main'.pc \notin PgCalls
           \/ main.on # c /\ main' = main,
           outcome' \in [Txn -> {"none", "committed", "written", "failed", "unknown"}],
           stored' \subseteq Txn \X (1..NWrites), UNCHANGED <<txn, timeouts>>
    PROVE  PgRange' /\ DoingInv' /\ PoolInv'
<1>1. c \in Conn /\ conn[c].doing # Nothing
    BY DEF Busy
<1>2. conn'[c] = to /\ \A d \in Conn \ {c} : conn'[d] = conn[d]
    BY <1>1 DEF PgInv, PgRange
<1>3. PgRange'
    <2>1. conn' \in [Conn -> ConnRecord]
        BY <1>1 DEF PgInv, PgRange
    <2>2. main' \in MainRecord /\ (main'.pc # "out" => txn # 0)
        <3>1. main.on = c => main.pc # "out"
            BY <1>1, PgAssumption DEF PgInv, PoolInv, PgCalls
        <3> QED
            BY <3>1 DEF PgInv, PgRange
    <2>3. main'.pc = "write" => main'.done < NWrites
        <3>1. "write" \in PgCalls
            BY DEF PgCalls
        <3> QED
            BY <3>1 DEF PgInv, PgRange
    <2> QED
        BY <2>1, <2>2, <2>3 DEF PgInv, PgRange
<1>4. DoingInv'
    BY <1>2, FreshFits DEF PgInv, DoingInv
<1>5. PoolInv'
    <2>1. idle \in Seq(Conn) /\ Len(idle) \in Nat
        BY DEF PgInv, PoolInv
    <2>2. \A i \in 1..Len(idle) : idle[i] # c
        BY <1>1 DEF PgInv, PoolInv
    <2>3. /\ idle' \in Seq(Conn)
          /\ \A i \in 1..Len(idle) : i \in 1..Len(idle') /\ idle'[i] = idle[i]
          /\ \A i \in 1..Len(idle') : i \in 1..Len(idle) \/ (i = Len(idle) + 1 /\ idle'[i] = c)
        <3>1. CASE idle' = idle
            BY <2>1, <3>1
        <3>2. CASE idle' = Append(idle, c)
            BY <1>1, <2>1, <3>2
        <3> QED
            BY <3>1, <3>2
    <2>4. ASSUME NEW i \in 1..Len(idle'), NEW j \in 1..Len(idle'), idle'[i] = idle'[j]
          PROVE  i = j
        BY <2>2, <2>3, <2>4 DEF PgInv, PoolInv
    <2>5. ASSUME NEW i \in 1..Len(idle') PROVE conn'[idle'[i]].doing = Nothing
        <3>1. CASE i \in 1..Len(idle)
            <4>1. idle'[i] = idle[i] /\ idle[i] \in Conn \ {c} /\ conn[idle[i]].doing = Nothing
                BY <2>2, <2>3, <3>1, PgFacts DEF PgInv, PoolInv
            <4> QED
                BY <1>2, <4>1
        <3>2. CASE idle'[i] = c
            BY <1>2, <3>2
        <3> QED
            BY <2>3, <3>1, <3>2
    <2>6. main'.on # NoConn <=> main'.pc \in PgCalls
        BY <1>1, PgAssumption DEF PgInv, PoolInv
    <2>7. main'.on # NoConn => conn'[main'.on].doing.kind = main'.pc
        <3>1. ASSUME main'.on # NoConn PROVE conn'[main'.on].doing.kind = main'.pc
            <4>1. main' = main /\ main.on # c /\ main.on \in Conn
                BY <3>1, PgFacts
            <4>2. conn[main.on].doing.kind = main.pc
                BY <3>1, <4>1 DEF PgInv, PoolInv
            <4> QED
                BY <1>2, <4>1, <4>2
        <3> QED
            BY <3>1
    <2> QED
        BY <2>3, <2>4, <2>5, <2>6, <2>7 DEF PoolInv
<1> QED
    BY <1>3, <1>4, <1>5

\* What is stored of the transaction under way; the others are left alone.
LEMMA StoredIs ==
    ASSUME PgInv, NEW X \in SUBSET ({txn} \X (1..NWrites)), stored' = stored \cup X,
           UNCHANGED txn
    PROVE  /\ \A t \in Txn : t # txn => StoredOf(t)' = StoredOf(t)
           /\ StoredOf(txn)' = StoredOf(txn) \cup X
<1>1. \A w \in X : w[1] = txn
    OBVIOUS
<1> QED
    BY <1>1 DEF StoredOf

\* A statement that ends keeps the invariant.
LEMMA QueryEndsStep == ASSUME PgInv, NEW c \in Conn, QueryEnds(c) PROVE PgInv'
<1>1. /\ c \in Busy /\ conn' = [conn EXCEPT ![c] = Session(c)]
      /\ stored' = stored \cup Committed(c) /\ idle' = Append(idle, c)
      /\ IF main.on = c THEN Answered ELSE UNCHANGED <<main, outcome>>
      /\ UNCHANGED <<txn, timeouts>>
    BY DEF QueryEnds, Waiting
<1>2. c # NoConn /\ (main.on = c => main.pc \in PgCalls /\ conn[c].doing.kind = main.pc)
    BY PgAssumption DEF PgInv, PoolInv
<1>3. main.on = c => main' \in MainRecord /\ main'.on = NoConn /\ main'.pc \notin PgCalls
    <2>1. "body" \notin PgCalls /\ "out" \notin PgCalls
        BY DEF PgCalls
    <2> QED
        BY <1>1, <1>2, <2>1, AnsweredIs, OutsideFits DEF PgCalls
<1>4. outcome' \in [Txn -> {"none", "committed", "written", "failed", "unknown"}]
    BY <1>1, <1>2, AnsweredIs DEF PgInv, PgRange
<1>5. stored' \subseteq Txn \X (1..NWrites)
    BY <1>1, SessionIs DEF PgInv, PgRange
<1>6. PgRange' /\ DoingInv' /\ PoolInv'
    <2>1. Session(c) \in ConnRecord /\ Session(c).doing = Nothing
        BY <1>1, SessionIs
    <2> QED
        BY <1>1, <1>3, <1>4, <1>5, <2>1, QueryKeeps
<1>7. ASSUME timeouts = 0 PROVE OpenInv' /\ BodyInv' /\ StoreInv'
    <2>1. OpenInv /\ BodyInv /\ StoreInv
        BY <1>7 DEF PgInv
    <2>2. main.on = c /\ conn[c].doing.kind = main.pc /\ main.pc \in PgCalls /\ Answered
        <3>1. conn[c].doing.kind # "none"
            BY <1>1 DEF Busy, PgInv, DoingInv
        <3> QED
            BY <1>1, <1>2, <2>1, <3>1 DEF OpenInv
    <2>3. conn'[c] = Session(c) /\ \A d \in Conn \ {c} : conn'[d] = conn[d]
        BY <1>1 DEF PgInv, PgRange
    <2>4. \A d \in Conn \ {c} : conn[d].doing.kind = "none" /\ ~conn[d].open
        <3>1. main.pc \notin {"body", "caught"}
            BY <2>2 DEF PgCalls
        <3> QED
            BY <2>1, <2>2, <3>1, PgFacts DEF OpenInv
    <2>5. idle' # <<>> /\ idle'[Len(idle')] = c
        BY <1>1, PgFacts
    <2>6. Session(c).doing.kind = "none"
        BY <1>1, SessionIs, FreshFits
    <2>7. txn \in Txn /\ main.done \in Nat /\ txn \in Nat
        BY <2>2, PgAssumption, PgFacts DEF PgInv, PgRange, Txn, PgCalls
    <2>8. ASSUME ~Session(c).open => Session(c).writes = {},
                 Session(c).open => main'.pc = "body"
          PROVE  OpenInv'
        BY <2>1, <2>3, <2>4, <2>5, <2>6, <2>8 DEF OpenInv
    \* The transaction goes on, and nothing is stored of it yet.
    <2>9. ASSUME main'.pc = "body", outcome' = outcome, Session(c).open, Committed(c) = {},
                 Session(c).writes = {txn} \X (1..main'.done)
          PROVE  OpenInv' /\ BodyInv' /\ StoreInv'
        <3>1. OpenInv'
            BY <2>8, <2>9
        <3>2. BodyInv'
            <4>1. conn'[idle'[Len(idle')]] = Session(c) /\ txn' = txn
                BY <1>1, <2>3, <2>5
            <4>2. /\ conn'[idle'[Len(idle')]].open
                  /\ conn'[idle'[Len(idle')]].writes = {txn'} \X (1..main'.done)
                BY <2>9, <4>1
            <4>3. main'.pc = "body" /\ idle' # <<>>
                BY <2>5, <2>9
            <4> QED
                BY <4>2, <4>3 DEF BodyInv
        <3>3. stored' = stored
            BY <1>1, <2>9
        <3>4. main.pc \in {"begin", "write"}
            BY <1>2, <2>2, <2>9, AnsweredIs, OutsideFits DEF PgCalls
        <3>5. StoreInv'
            BY <1>1, <2>1, <2>9, <3>3, <3>4 DEF StoreInv, StoredOf, NoneOrAll
        <3> QED
            BY <3>1, <3>2, <3>5
    \* It ends.
    <2>10. ASSUME main' = Outside, ~Session(c).open, Session(c).writes = {},
                  Committed(c) \subseteq {txn} \X (1..NWrites),
                  NEW said \in {"committed", "written", "failed"},
                  outcome' = [outcome EXCEPT ![txn] = said],
                  said = "committed" => Committed(c) = {txn} \X (1..NWrites),
                  said = "written" => Committed(c) = {<<txn, 1>>},
                  said = "failed" => Committed(c) = {},
                  said # "failed" => main.pc \notin {"caught", "rollback"}
           PROVE  OpenInv' /\ BodyInv' /\ StoreInv'
        <3>1. OpenInv'
            BY <2>8, <2>10
        <3>2. BodyInv'
            BY <2>10, OutsideFits DEF BodyInv
        <3>3. /\ \A t \in Txn : t # txn => StoredOf(t)' = StoredOf(t)
              /\ StoredOf(txn)' = StoredOf(txn) \cup Committed(c)
            BY <1>1, <2>10, StoredIs
        <3>4. /\ outcome'[txn] = said
              /\ \A t \in Txn : t # txn => outcome'[t] = outcome[t]
            BY <2>7, <2>10 DEF PgInv, PgRange
        <3>5. main'.pc = "out" /\ main.pc # "out" /\ txn' = txn
            BY <1>1, <2>2, <2>10, OutsideFits DEF PgCalls
        <3>6. StoreInv'
            <4> SUFFICES ASSUME NEW t \in Txn
                         PROVE  /\ t > txn => outcome'[t] = "none" /\ StoredOf(t)' = {}
                                /\ outcome'[t] = "committed" =>
                                      StoredOf(t)' = {t} \X (1..NWrites)
                                /\ outcome'[t] = "failed" => NoneOrAll(t)'
                                /\ outcome'[t] = "written" => StoredOf(t)' = {<<t, 1>>}
                                /\ outcome'[t] = "unknown" => StoredOf(t)' \subseteq {<<t, 1>>}
                BY <3>5 DEF StoreInv
            <4>1. CASE t # txn
                <5>1. StoredOf(t)' = StoredOf(t) /\ outcome'[t] = outcome[t]
                    BY <3>3, <3>4, <4>1
                <5> QED
                    BY <2>1, <5>1 DEF StoreInv, NoneOrAll
            <4>2. CASE t = txn
                <5>1. NoneOrAll(txn) /\ StoredOf(t)' = StoredOf(txn) \cup Committed(c)
                    BY <2>1, <2>7, <3>3, <3>5, <4>2, <1>1 DEF StoreInv, StoredOf
                <5>2. said # "failed" => StoredOf(txn) = {}
                    BY <2>1, <2>7, <2>10, <3>5 DEF StoreInv
                <5>3. outcome'[t] = said /\ ~(t > txn)
                    BY <2>7, <3>4, <4>2
                <5>4. CASE said = "failed"
                    <6>1. StoredOf(t)' = StoredOf(txn)
                        BY <2>10, <5>1, <5>4
                    <6> QED
                        BY <4>2, <5>1, <5>3, <5>4, <6>1 DEF NoneOrAll
                <5>5. CASE said # "failed"
                    <6>1. StoredOf(t)' = Committed(c)
                        BY <5>1, <5>2, <5>5
                    <6> QED
                        BY <2>10, <4>2, <5>3, <5>5, <6>1
                <5> QED
                    BY <5>4, <5>5
            <4> QED
                BY <4>1, <4>2
        <3> QED
            BY <3>1, <3>2, <3>6
    <2>11. CASE main.pc = "begin"
        <3>1. ~conn[c].open /\ main.done = 0
            BY <2>1, <2>2, <2>11 DEF OpenInv, BodyInv
        <3>2. conn[c].writes = {} /\ {txn} \X (1..0) = {}
            BY <2>1, <3>1 DEF OpenInv
        <3>3. /\ Session(c).open /\ Session(c).writes = {} /\ Committed(c) = {}
            BY <1>1, <2>2, <2>11, <3>2, SessionIs
        <3>4. main'.pc = "body" /\ main'.done = 0 /\ outcome' = outcome
            BY <1>2, <2>2, <2>11, <3>1, AnsweredIs
        <3> QED
            BY <2>9, <3>2, <3>3, <3>4
    <2>12. CASE main.pc = "write"
        <3>1. /\ conn[c].open /\ conn[c].writes = {txn} \X (1..main.done)
              /\ conn[c].doing.write = <<txn, main.done + 1>>
            BY <2>1, <2>2, <2>12 DEF BodyInv
        <3>2. main'.pc = "body" /\ main'.done = main.done + 1 /\ outcome' = outcome
            BY <1>2, <2>2, <2>12, AnsweredIs
        <3>3. ({txn} \X (1..main.done)) \cup {<<txn, main.done + 1>>}
                 = {txn} \X (1..(main.done + 1))
            BY <2>7
        <3> QED
            BY <1>1, <2>2, <2>9, <2>12, <3>1, <3>2, <3>3, SessionIs
    <2>13. CASE main.pc = "commit"
        <3>1. /\ conn[c].open /\ conn[c].writes = {txn} \X (1..main.done)
              /\ main.done = NWrites
            BY <2>1, <2>2, <2>13 DEF BodyInv
        <3>2. Session(c) = Fresh /\ Committed(c) = conn[c].writes
            BY <1>1, <2>2, <2>13, SessionIs
        <3>3. main' = Outside /\ outcome' = [outcome EXCEPT ![txn] = "committed"]
            BY <1>2, <2>2, <2>13, AnsweredIs
        <3>4. Committed(c) = {txn} \X (1..NWrites)
            BY <3>1, <3>2
        <3> QED
            BY <2>10, <2>13, <3>2, <3>3, <3>4, FreshFits
    <2>14. CASE main.pc = "single"
        <3>1. ~conn[c].open /\ conn[c].doing.write = <<txn, 1>> /\ conn[c].writes = {}
            BY <2>1, <2>2, <2>14 DEF OpenInv, BodyInv
        <3>2. /\ ~Session(c).open /\ Session(c).writes = {}
              /\ Committed(c) = {<<txn, 1>>}
            BY <1>1, <2>2, <2>14, <3>1, SessionIs
        <3>3. main' = Outside /\ outcome' = [outcome EXCEPT ![txn] = "written"]
            BY <1>2, <2>2, <2>14, AnsweredIs
        <3>4. {<<txn, 1>>} \subseteq {txn} \X (1..NWrites)
            BY PgAssumption
        <3> QED
            BY <2>10, <2>14, <3>2, <3>3, <3>4
    <2>15. CASE main.pc = "rollback"
        <3>1. Session(c) = Fresh /\ Committed(c) = {}
            BY <1>1, <2>2, <2>15, SessionIs
        <3>2. main' = Outside /\ outcome' = [outcome EXCEPT ![txn] = "failed"]
            BY <1>2, <2>2, <2>15, AnsweredIs
        <3> QED
            BY <2>10, <3>1, <3>2, FreshFits
    <2> QED
        BY <2>2, <2>11, <2>12, <2>13, <2>14, <2>15 DEF PgCalls
<1> QED
    BY <1>1, <1>6, <1>7 DEF PgInv

\* So does one that fails.
LEMMA QueryFailsStep == ASSUME PgInv, NEW c \in Conn, QueryFails(c) PROVE PgInv'
<1>1. /\ c \in Busy /\ conn' = [conn EXCEPT ![c] = Fresh]
      /\ IF main.on = c THEN Thrown ELSE UNCHANGED <<main, outcome>>
      /\ UNCHANGED <<idle, txn, timeouts>>
    BY DEF QueryFails, Waiting
<1>2. c # NoConn /\ (main.on = c => main.pc \in PgCalls /\ conn[c].doing.kind = main.pc)
    BY PgAssumption DEF PgInv, PoolInv
<1>3. PICK X \in {{}, Committed(c)} :
         stored' = stored \cup X /\ (X # {} => conn[c].doing.kind \in {"commit", "single"})
    BY DEF QueryFails
<1>4. main.on = c => main' \in MainRecord /\ main'.on = NoConn /\ main'.pc \notin PgCalls
    <2>1. "caught" \notin PgCalls /\ "out" \notin PgCalls
        BY DEF PgCalls
    <2> QED
        BY <1>1, <1>2, <2>1, ThrownIs, OutsideFits DEF PgCalls
<1>5. outcome' \in [Txn -> {"none", "committed", "written", "failed", "unknown"}]
    BY <1>1, <1>2, ThrownIs DEF PgInv, PgRange
<1>6. stored' \subseteq Txn \X (1..NWrites)
    BY <1>1, <1>3, SessionIs DEF PgInv, PgRange
<1>7. PgRange' /\ DoingInv' /\ PoolInv'
    BY <1>1, <1>4, <1>5, <1>6, QueryKeeps, FreshFits
<1>8. ASSUME timeouts = 0 PROVE OpenInv' /\ BodyInv' /\ StoreInv'
    <2>1. OpenInv /\ BodyInv /\ StoreInv
        BY <1>8 DEF PgInv
    <2>2. main.on = c /\ conn[c].doing.kind = main.pc /\ main.pc \in PgCalls /\ Thrown
        <3>1. conn[c].doing.kind # "none"
            BY <1>1 DEF Busy, PgInv, DoingInv
        <3> QED
            BY <1>1, <1>2, <2>1, <3>1 DEF OpenInv
    <2>3. conn'[c] = Fresh /\ \A d \in Conn \ {c} : conn'[d] = conn[d]
        BY <1>1 DEF PgInv, PgRange
    <2>4. \A d \in Conn \ {c} : conn[d].doing.kind = "none" /\ ~conn[d].open
        <3>1. main.pc \notin {"body", "caught"}
            BY <2>2 DEF PgCalls
        <3> QED
            BY <2>1, <2>2, <3>1, PgFacts DEF OpenInv
    <2>5. main'.pc \in {"out", "caught"} /\ (main'.pc = "out" => main'.done = 0)
        BY <1>2, <2>2, ThrownIs, OutsideFits DEF PgCalls
    <2>6. OpenInv'
        <3>1. \A d \in Conn : conn'[d].doing.kind = "none" /\ ~conn'[d].open
            BY <2>3, <2>4, FreshFits
        <3>2. \A d \in Conn : conn'[d].writes = {}
            BY <2>1, <2>3, <2>4, FreshFits DEF OpenInv
        <3> QED
            BY <3>1, <3>2 DEF OpenInv
    <2>7. BodyInv'
        BY <2>5 DEF BodyInv
    <2>8. txn \in Txn /\ txn \in Nat /\ main.pc # "out" /\ txn' = txn
        BY <1>1, <2>2, PgAssumption, PgFacts DEF PgInv, PgRange, Txn, PgCalls
    <2>9. X \in SUBSET ({txn} \X (1..NWrites))
          /\ \/ X = {}
             \/ main.pc = "commit" /\ X = {txn} \X (1..NWrites)
             \/ main.pc = "single" /\ X = {<<txn, 1>>}
        <3>1. CASE X = {}
            BY <3>1
        <3>2. CASE X # {} /\ main.pc = "commit"
            <4>1. X = conn[c].writes
                BY <1>1, <1>3, <2>2, <3>2, SessionIs
            <4>2. conn[c].writes = {txn} \X (1..NWrites)
                BY <2>1, <2>2, <3>2 DEF BodyInv
            <4> QED
                BY <3>2, <4>1, <4>2
        <3>3. CASE X # {} /\ main.pc = "single"
            <4>1. ~conn[c].open /\ conn[c].doing.write = <<txn, 1>>
                BY <2>1, <2>2, <3>3 DEF OpenInv, BodyInv
            <4>2. X = {<<txn, 1>>}
                BY <1>1, <1>3, <2>2, <3>3, <4>1, SessionIs
            <4>3. <<txn, 1>> \in {txn} \X (1..NWrites)
                BY PgAssumption
            <4> QED
                BY <3>3, <4>2, <4>3
        <3> QED
            BY <1>3, <2>2, <3>1, <3>2, <3>3
    <2>10. /\ \A t \in Txn : t # txn => StoredOf(t)' = StoredOf(t)
           /\ StoredOf(txn)' = StoredOf(txn) \cup X
        BY <1>1, <1>3, <2>9, StoredIs
    <2>11. /\ \A t \in Txn : t # txn => outcome'[t] = outcome[t]
           /\ main'.pc = "caught" => outcome'[txn] = "none"
           /\ main'.pc = "out" =>
                 \/ outcome'[txn] = "unknown" /\ main.pc = "single"
                 \/ outcome'[txn] = "failed" /\ main.pc \in {"begin", "rollback"}
           /\ main'.pc = "caught" => main.pc \in {"write", "commit"}
        <3>1. main.on # NoConn /\ outcome[txn] = "none"
            BY <1>2, <2>1, <2>2, <2>8 DEF StoreInv
        <3>2. CASE main.pc \in {"write", "commit"}
            BY <2>2, <3>1, <3>2, ThrownIs
        <3>3. CASE main.pc = "single"
            <4>1. main' = Outside /\ outcome' = [outcome EXCEPT ![txn] = "unknown"]
                BY <2>2, <3>1, <3>3, ThrownIs
            <4> QED
                BY <2>8, <3>3, <4>1, OutsideFits DEF PgInv, PgRange
        <3>4. CASE main.pc \in {"begin", "rollback"}
            <4>1. main' = Outside /\ outcome' = [outcome EXCEPT ![txn] = "failed"]
                BY <2>2, <3>1, <3>4, ThrownIs
            <4> QED
                BY <2>8, <3>4, <4>1, OutsideFits DEF PgInv, PgRange
        <3> QED
            BY <2>2, <3>2, <3>3, <3>4 DEF PgCalls
    <2>12. StoreInv'
        <3>1. ASSUME NEW t \in Txn, t # txn
              PROVE  /\ t > txn' => outcome'[t] = "none" /\ StoredOf(t)' = {}
                     /\ outcome'[t] = "committed" => StoredOf(t)' = {t} \X (1..NWrites)
                     /\ outcome'[t] = "failed" => NoneOrAll(t)'
                     /\ outcome'[t] = "written" => StoredOf(t)' = {<<t, 1>>}
                     /\ outcome'[t] = "unknown" => StoredOf(t)' \subseteq {<<t, 1>>}
            <4>1. StoredOf(t)' = StoredOf(t) /\ outcome'[t] = outcome[t]
                BY <2>10, <2>11, <3>1
            <4> QED
                BY <2>1, <2>8, <4>1 DEF StoreInv, NoneOrAll
        <3>2. ASSUME NEW t \in Txn, t = txn
              PROVE  /\ ~(t > txn') /\ outcome'[t] \in {"none", "failed", "unknown"}
                     /\ main'.pc # "out" => outcome'[t] = "none" /\ main'.pc = "caught"
                     /\ main'.pc # "out" \/ outcome'[t] = "failed" => NoneOrAll(t)'
                     /\ outcome'[t] = "unknown" => StoredOf(t)' \subseteq {<<t, 1>>}
            <4>1. /\ ~(t > txn') /\ outcome'[t] \in {"none", "failed", "unknown"}
                  /\ main'.pc # "out" => outcome'[t] = "none" /\ main'.pc = "caught"
                BY <2>5, <2>8, <2>11, <3>2
            <4>2. NoneOrAll(txn)
                BY <2>1, <2>8 DEF StoreInv
            <4>3. CASE main.pc = "single"
                <5>1. StoredOf(txn) = {} /\ main'.pc = "out" /\ outcome'[txn] = "unknown"
                    BY <2>1, <2>5, <2>8, <2>11, <4>3 DEF StoreInv
                <5>2. StoredOf(txn)' \subseteq {<<txn, 1>>}
                    BY <2>9, <2>10, <4>3, <5>1
                <5> QED
                    BY <2>8, <3>2, <4>1, <5>1, <5>2 DEF StoredOf
            <4>4. CASE main.pc # "single"
                <5>1. StoredOf(txn)' = {} \/ StoredOf(txn)' = {txn} \X (1..NWrites)
                    BY <2>9, <2>10, <4>2, <4>4 DEF NoneOrAll
                <5>2. outcome'[txn] # "unknown"
                    BY <2>5, <2>11, <4>4
                <5> QED
                    BY <2>8, <3>2, <4>1, <5>1, <5>2 DEF NoneOrAll
            <4> QED
                BY <4>3, <4>4
        <3> QED
            BY <2>8, <3>1, <3>2 DEF StoreInv
    <2> QED
        BY <2>6, <2>7, <2>12
<1> QED
    BY <1>1, <1>7, <1>8 DEF PgInv

\* Every step keeps it.
LEMMA PgStepInv == PgInv /\ [PgNext]_pgVars => PgInv'
<1> SUFFICES ASSUME PgInv, [PgNext]_pgVars PROVE PgInv'
    OBVIOUS
<1>1. CASE UNCHANGED pgVars
    <2>1. UNCHANGED <<conn, idle, main, txn, outcome, stored, timeouts>>
        BY <1>1 DEF pgVars
    <2>2. PgRange' /\ DoingInv' /\ PoolInv'
        BY <2>1 DEF PgInv, PgRange, DoingInv, PoolInv
    <2>3. (OpenInv => OpenInv') /\ (BodyInv => BodyInv')
        BY <2>1 DEF OpenInv, BodyInv
    <2>4. StoreInv => StoreInv'
        BY <2>1 DEF StoreInv, NoneOrAll, StoredOf
    <2> QED
        BY <2>1, <2>2, <2>3, <2>4 DEF PgInv
<1>2. CASE BodyThrows
    <2>1. /\ main.pc = "body" /\ main' = [main EXCEPT !.pc = "caught"]
          /\ UNCHANGED <<conn, idle, txn, outcome, stored, timeouts>>
        BY <1>2 DEF BodyThrows
    <2>2. /\ main' \in MainRecord /\ main'.pc = "caught" /\ main'.on = main.on
          /\ main'.done = main.done
        BY <2>1 DEF PgInv, PgRange, MainRecord
    <2>3. main.on = NoConn /\ "caught" \notin PgCalls
        BY <2>1 DEF PgInv, PoolInv, PgCalls
    <2>4. PgRange' /\ DoingInv' /\ PoolInv'
        BY <2>1, <2>2, <2>3 DEF PgInv, PgRange, DoingInv, PoolInv
    <2>5. ASSUME timeouts = 0 PROVE OpenInv' /\ BodyInv' /\ StoreInv'
        <3>1. OpenInv'
            BY <2>1, <2>2, <2>5 DEF PgInv, OpenInv
        <3>2. BodyInv'
            BY <2>2 DEF BodyInv
        <3>3. StoreInv'
            BY <2>1, <2>2, <2>5 DEF PgInv, StoreInv, NoneOrAll, StoredOf
        <3> QED
            BY <3>1, <3>2, <3>3
    <2> QED
        BY <2>1, <2>4, <2>5 DEF PgInv
<1>3. CASE CallTimesOut
    <2>1. /\ main.on # NoConn /\ timeouts < MaxTimeouts /\ timeouts' = timeouts + 1 /\ Thrown
          /\ UNCHANGED <<conn, idle, txn, stored>>
        BY <1>3 DEF CallTimesOut
    <2>2. main.pc \in PgCalls
        BY <2>1 DEF PgInv, PoolInv
    <2>3. main' \in MainRecord /\ main'.on = NoConn /\ main'.pc \in {"caught", "out"}
          /\ outcome' \in [Txn -> {"none", "committed", "written", "failed", "unknown"}]
        BY <2>1, <2>2, ThrownIs, OutsideFits DEF PgCalls
    <2>4. PgRange'
        <3>1. timeouts' \in 0..MaxTimeouts /\ txn # 0
            BY <2>1, <2>2, PgAssumption DEF PgInv, PgRange, PgCalls
        <3> QED
            BY <2>1, <2>3, <3>1 DEF PgInv, PgRange
    <2>5. DoingInv' /\ PoolInv'
        BY <2>1, <2>3 DEF PgInv, DoingInv, PoolInv, PgCalls
    <2>6. timeouts' # 0
        BY <2>1, PgAssumption DEF PgInv, PgRange
    <2> QED
        BY <2>4, <2>5, <2>6 DEF PgInv
<1>4. CASE Reap
    <2>1. /\ idle # <<>> /\ main.pc \notin {"body", "caught"} /\ idle' = Tail(idle)
          /\ UNCHANGED <<main, txn, outcome, stored, timeouts>>
        BY <1>4 DEF Reap
    <2>2. PICK c \in Conn : c = idle[1] /\ c = Head(idle) /\ Len(idle) \in Nat /\ Len(idle) # 0
        BY <2>1, PgFacts
    <2>3. /\ conn' = [conn EXCEPT ![c] = Fresh] /\ conn'[c] = Fresh
          /\ \A d \in Conn \ {c} : conn'[d] = conn[d]
        BY <1>4, <2>2 DEF Reap, PgInv, PgRange
    <2>4. /\ idle' \in Seq(Conn) /\ Len(idle') = Len(idle) - 1
          /\ \A i \in 1..Len(idle') : idle'[i] = idle[i + 1]
        BY <2>1, <2>2, PgFacts
    <2>5. ASSUME NEW i \in 1..Len(idle')
          PROVE  /\ i + 1 \in 1..Len(idle) /\ idle'[i] = idle[i + 1] /\ idle'[i] \in Conn
                 /\ idle'[i] # c /\ conn'[idle'[i]].doing = Nothing
        <3>1. i + 1 \in 1..Len(idle) /\ 1 \in 1..Len(idle) /\ i + 1 # 1
            BY <2>2, <2>4
        <3>2. idle'[i] = idle[i + 1] /\ idle[i + 1] \in Conn
            BY <2>4, <3>1, PgFacts
        <3>3. idle[i + 1] # c /\ conn[idle[i + 1]].doing = Nothing
            BY <2>2, <3>1 DEF PgInv, PoolInv
        <3> QED
            BY <2>3, <3>1, <3>2, <3>3
    <2>6. \A i, j \in 1..Len(idle') : idle'[i] = idle'[j] => i = j
        <3> SUFFICES ASSUME NEW i \in 1..Len(idle'), NEW j \in 1..Len(idle'),
                            idle'[i] = idle'[j]
                     PROVE  i = j
            OBVIOUS
        <3>1. i + 1 = j + 1
            BY <2>5 DEF PgInv, PoolInv
        <3> QED
            BY <2>4, <2>2, <3>1
    <2>7. main.on # c
        <3>1. conn[c].doing.kind = "none"
            BY <2>2, FreshFits DEF PgInv, PoolInv
        <3> QED
            BY <3>1, PgAssumption DEF PgInv, PoolInv, PgCalls
    <2>8. PgRange'
        <3>1. conn' \in [Conn -> ConnRecord]
            BY <2>3, FreshFits DEF PgInv, PgRange
        <3> QED
            BY <2>1, <3>1 DEF PgInv, PgRange
    <2>9. DoingInv'
        BY <2>3, FreshFits DEF PgInv, DoingInv
    <2>10. PoolInv'
        <3>1. main.on # NoConn => conn'[main.on].doing.kind = main.pc
            BY <2>3, <2>7, PgFacts DEF PgInv, PoolInv
        <3>2. main.on # NoConn <=> main.pc \in PgCalls
            BY DEF PgInv, PoolInv
        <3> QED
            BY <2>1, <2>4, <2>5, <2>6, <3>1, <3>2 DEF PoolInv
    <2>11. ASSUME timeouts = 0 PROVE OpenInv' /\ BodyInv' /\ StoreInv'
        <3>1. OpenInv /\ BodyInv /\ StoreInv
            BY <2>11 DEF PgInv
        <3>2. OpenInv'
            BY <2>1, <2>3, <3>1, FreshFits DEF OpenInv
        <3>3. BodyInv'
            <4>1. main.pc \in {"write", "commit", "single"} => conn'[main.on] = conn[main.on]
                BY <2>3, <2>7, PgFacts DEF PgInv, PoolInv, PgCalls
            <4> QED
                BY <2>1, <3>1, <4>1 DEF BodyInv
        <3>4. StoreInv'
            BY <2>1, <3>1 DEF StoreInv, NoneOrAll, StoredOf
        <3> QED
            BY <3>2, <3>3, <3>4
    <2> QED
        BY <2>1, <2>8, <2>9, <2>10, <2>11 DEF PgInv
<1> QED
    BY <1>1, <1>2, <1>3, <1>4, PgPostStep, QueryEndsStep, QueryFailsStep DEF PgNext

\* A product of one number with 1..n has n elements.
LEMMA RowOf ==
    ASSUME NEW t, NEW n \in Nat
    PROVE  Cardinality({t} \X (1..n)) = n
<1> DEFINE f == [k \in 1..n |-> <<t, k>>]
           S == {t} \X (1..n)
<1>1. f \in [1..n -> S] /\ \A k \in 1..n : f[k] = <<t, k>>
    OBVIOUS
<1>2. \A x \in S : \E k \in 1..n : x = <<t, k>>
    OBVIOUS
<1> HIDE DEF S, f
<1>3. f \in Injection(1..n, S)
    BY <1>1 DEF Injection, IsInjective
<1>4. f \in Surjection(1..n, S)
    BY <1>1, <1>2 DEF Surjection
<1>5. ExistsBijection(1..n, S)
    BY <1>3, <1>4 DEF ExistsBijection, Bijection
<1>6. Cardinality(S) = n
    BY <1>5, FS_CountingElements
<1> QED
    BY <1>6 DEF S

\* Until a call times out, the calls of a transaction make one.
LEMMA PgInvUnits == PgInv => UnitsUntilTimeout
<1> SUFFICES ASSUME PgInv, timeouts = 0
             PROVE  /\ \A t \in Txn :
                          /\ outcome[t] = "committed" => WholeTxn(t)
                          /\ outcome[t] = "failed" => StoredOf(t) = {} \/ WholeTxn(t)
                          /\ outcome[t] = "written" => StoredOf(t) = {<<t, 1>>}
                          /\ outcome[t] = "unknown" => StoredOf(t) \subseteq {<<t, 1>>}
                    /\ main.pc = "out" => \A i \in DOMAIN idle : ~conn[idle[i]].open
    BY DEF UnitsUntilTimeout
<1>1. OpenInv /\ StoreInv
    BY DEF PgInv
<1>2. ASSUME NEW t \in Txn, StoredOf(t) = {t} \X (1..NWrites) PROVE WholeTxn(t)
    BY <1>2, RowOf, PgAssumption DEF WholeTxn
<1>3. main.pc = "out" => \A i \in DOMAIN idle : ~conn[idle[i]].open
    BY <1>1, PgFacts DEF OpenInv
<1>4. ASSUME NEW t \in Txn
      PROVE  /\ outcome[t] = "committed" => WholeTxn(t)
             /\ outcome[t] = "failed" => StoredOf(t) = {} \/ WholeTxn(t)
             /\ outcome[t] = "written" => StoredOf(t) = {<<t, 1>>}
             /\ outcome[t] = "unknown" => StoredOf(t) \subseteq {<<t, 1>>}
    <2>1. outcome[t] = "committed" => StoredOf(t) = {t} \X (1..NWrites)
        BY <1>1 DEF StoreInv
    <2>2. outcome[t] = "failed" => StoredOf(t) = {} \/ StoredOf(t) = {t} \X (1..NWrites)
        BY <1>1 DEF StoreInv, NoneOrAll
    <2>3. /\ outcome[t] = "written" => StoredOf(t) = {<<t, 1>>}
          /\ outcome[t] = "unknown" => StoredOf(t) \subseteq {<<t, 1>>}
        BY <1>1 DEF StoreInv
    <2> QED
        BY <1>2, <2>1, <2>2, <2>3
<1>5. \A t \in Txn : /\ outcome[t] = "committed" => WholeTxn(t)
                     /\ outcome[t] = "failed" => StoredOf(t) = {} \/ WholeTxn(t)
                     /\ outcome[t] = "written" => StoredOf(t) = {<<t, 1>>}
                     /\ outcome[t] = "unknown" => StoredOf(t) \subseteq {<<t, 1>>}
    BY <1>4
<1> QED
    BY <1>3, <1>5

\* What the bridge keeps to.
LEMMA PgInvTypes == PgInv => PgTypeOK
<1> SUFFICES ASSUME PgInv PROVE PgTypeOK
    OBVIOUS
<1>1. main.on # NoConn => main.on \in Busy
    BY PgFacts, FreshFits DEF PgInv, PoolInv, Busy, PgCalls
<1>2. Busy \cap Pooled = {}
    BY PgFacts DEF PgInv, PoolInv, Busy, Pooled
<1>3. Cardinality(Pooled) = Len(idle)
    <2> DEFINE n == Len(idle)
    <2>1. /\ n \in Nat /\ idle \in [1..n -> Pooled]
          /\ \A i, j \in 1..n : idle[i] = idle[j] => i = j
          /\ \A c \in Pooled : \E i \in 1..n : idle[i] = c
        BY PgFacts DEF PgInv, PoolInv, Pooled
    <2> HIDE DEF n
    <2>2. idle \in Injection(1..n, Pooled) /\ idle \in Surjection(1..n, Pooled)
        BY <2>1 DEF Injection, IsInjective, Surjection
    <2>3. ExistsBijection(1..n, Pooled)
        BY <2>2 DEF ExistsBijection, Bijection
    <2>4. Cardinality(Pooled) = n
        BY <2>1, <2>3, FS_CountingElements
    <2> QED
        BY <2>4 DEF n
<1>4. main.pc \in {"out", "begin", "single", "body", "write", "commit", "caught", "rollback"}
    BY PgFacts DEF PgCalls
<1> QED
    BY <1>1, <1>2, <1>3, <1>4, PgFacts DEF PgTypeOK, PgInv, PgRange

-----------------------------------------------------------------------------
(* AuditLog: what verification can tell.                                    *)

AuditBody == [id : Nat, org : Org]
AuditHash == Seq(AuditBody)
AuditRow == [seq : Nat, body : AuditBody, org : Org, prev : AuditHash, after : Nat,
             hash : AuditHash]

\* A hash h that was read from row s (0: an empty table): its last body bears
\* that number, and if the row is still there, it is its hash.
NamesRow(h, s) ==
    /\ h \in AuditHash /\ s \in 0..appends
    /\ (s = 0) <=> (h = GENESIS)
    /\ h # GENESIS => h[Len(h)].id = s
    /\ \A j \in 1..Len(events) : events[j].seq = s => events[j].hash = h

\* The hash of a row is that of what was appended after what it had read; of the
\* row itself only the id may be another now.
RowHolds(r) ==
    /\ r \in AuditRow /\ r.seq \in 1..appends
    /\ r.body \in {[id |-> r.seq, org |-> r.org], [id |-> 0, org |-> r.org]}
    /\ r.hash = HashOf(r.prev, [id |-> r.seq, org |-> r.org])
    /\ NamesRow(r.prev, r.after)

AuditInv ==
    /\ appends \in 0..MaxAppends /\ edits \in 0..MaxEdits
    /\ events \in Seq(AuditRow)
    /\ \A i \in 1..Len(events) : RowHolds(events[i])
    /\ \A i, j \in 1..Len(events) : j < i => events[j].seq < events[i].seq
    /\ DOMAIN tip = Appender
    /\ \A a \in Appender :
          \/ tip[a] = NoTip
          \/ /\ Len(tip[a]) = 1 /\ tip[a] = <<tip[a][1]>>
             /\ NamesRow(tip[a][1].hash, tip[a][1].seq)

\* What a hash is made of can be told from it.
LEMMA HashTells ==
    ASSUME NEW p \in AuditHash, NEW b \in AuditBody, NEW q \in AuditHash, NEW c \in AuditBody
    PROVE  /\ HashOf(p, b) \in AuditHash /\ HashOf(p, b) # GENESIS
           /\ HashOf(p, b)[Len(HashOf(p, b))] = b
           /\ HashOf(p, b) = HashOf(q, c) => b = c
<1>1. /\ Append(p, b) \in Seq(AuditBody) /\ Len(Append(p, b)) = Len(p) + 1
      /\ Append(p, b)[Len(p) + 1] = b
    BY DEF AuditHash
<1>2. /\ Len(Append(q, c)) = Len(q) + 1 /\ Append(q, c)[Len(q) + 1] = c
    BY DEF AuditHash
<1>3. Len(p) \in Nat
    BY DEF AuditHash
<1>4. Append(p, b) # << >>
    BY <1>1, <1>3
<1> QED
    BY <1>1, <1>2, <1>4 DEF HashOf, AuditHash, GENESIS

\* It holds at the start.
LEMMA AuditInitInv == AuditInit => AuditInv
BY AuditAssumption DEF AuditInit, AuditInv

\* Rows that go away, or are written with a new number, leave a name what it is.
LEMMA NamesKeep ==
    ASSUME NEW h, NEW s, NamesRow(h, s), appends \in Nat, appends' \in Nat, appends <= appends',
           \A j \in 1..Len(events') :
               \/ events'[j].seq > appends
               \/ \E i \in 1..Len(events) : /\ events'[j].seq = events[i].seq
                                            /\ events'[j].hash = events[i].hash
    PROVE  NamesRow(h, s)'
<1>1. s \in 0..appends' /\ s <= appends
    BY DEF NamesRow
<1>2. ASSUME NEW j \in 1..Len(events'), events'[j].seq = s PROVE events'[j].hash = h
    BY <1>1, <1>2 DEF NamesRow
<1> QED
    BY <1>1, <1>2 DEF NamesRow

\* A row keeps what it holds when its log grows or its text is edited.
LEMMA RowKeeps ==
    ASSUME NEW w, RowHolds(w), appends \in Nat, appends' \in Nat, appends <= appends',
           \A j \in 1..Len(events') :
               \/ events'[j].seq > appends
               \/ \E i \in 1..Len(events) : /\ events'[j].seq = events[i].seq
                                            /\ events'[j].hash = events[i].hash
    PROVE  RowHolds(w)'
<1>1. NamesRow(w.prev, w.after)'
    BY NamesKeep DEF RowHolds
<1>2. w.seq \in 1..appends'
    BY DEF RowHolds
<1> QED
    BY <1>1, <1>2 DEF RowHolds

\* Rows chain as they were read, and nothing an operator does to one brings it
\* back in order.
LEMMA AuditStepInv == AuditInv /\ [AuditNext]_audVars => AuditInv'
<1> SUFFICES ASSUME AuditInv, [AuditNext]_audVars PROVE AuditInv'
    OBVIOUS
<1> USE AuditAssumption
<1> DEFINE n == Len(events)
<1>1. /\ events \in Seq(AuditRow) /\ n \in Nat
      /\ \A i \in 1..n : events[i] \in AuditRow /\ RowHolds(events[i])
      /\ \A i, j \in 1..n : j < i => events[j].seq < events[i].seq
      /\ appends \in Nat /\ edits \in Nat /\ DOMAIN tip = Appender
    BY DEF AuditInv
<1>2. CASE UNCHANGED audVars
    BY <1>2 DEF AuditInv, RowHolds, NamesRow, audVars
<1>3. ASSUME NEW a \in Appender, ReadTip(a) PROVE AuditInv'
    <2>1. /\ tip' = [tip EXCEPT ![a] = <<LastRow>>]
          /\ UNCHANGED <<events, appends, edits>>
        BY <1>3 DEF ReadTip
    <2>2. NamesRow(LastRow.hash, LastRow.seq)
        <3>1. CASE events = << >>
            <4>1. LastRow = [hash |-> GENESIS, seq |-> 0]
                BY <3>1 DEF LastRow
            <4>2. GENESIS \in AuditHash
                BY DEF GENESIS, AuditHash
            <4> QED
                BY <1>1, <3>1, <4>1, <4>2 DEF NamesRow
        <3>2. CASE events # << >>
            <4>1. n \in 1..n /\ LastRow = [hash |-> events[n].hash, seq |-> events[n].seq]
                BY <1>1, <3>2 DEF LastRow
            <4> DEFINE r == events[n]
            <4>2. /\ RowHolds(r) /\ r \in AuditRow /\ r.seq \in 1..appends
                  /\ r.hash = HashOf(r.prev, [id |-> r.seq, org |-> r.org])
                BY <1>1, <4>1 DEF RowHolds
            <4>3. r.prev \in AuditHash /\ [id |-> r.seq, org |-> r.org] \in AuditBody
                BY <4>2 DEF AuditRow, AuditBody
            <4>4. r.hash \in AuditHash /\ r.hash # GENESIS /\ r.hash[Len(r.hash)].id = r.seq
                BY <4>2, <4>3, HashTells
            <4>5. \A j \in 1..n : events[j].seq = r.seq => j = n
                BY <1>1, <4>1 DEF AuditRow
            <4> QED
                BY <1>1, <4>1, <4>2, <4>4, <4>5 DEF NamesRow
        <3> QED
            BY <3>1, <3>2
    <2>3. NamesRow(LastRow.hash, LastRow.seq)'
        BY <2>1, <2>2 DEF NamesRow, LastRow
    <2>4. \A i \in 1..n : RowHolds(events[i])'
        BY <1>1, <2>1 DEF RowHolds, NamesRow
    <2>5. ASSUME NEW b \in Appender
          PROVE  \/ tip'[b] = NoTip
                 \/ /\ Len(tip'[b]) = 1 /\ tip'[b] = <<tip'[b][1]>>
                    /\ NamesRow(tip[b][1].hash, tip[b][1].seq)'
        <3>1. CASE b = a
            <4>1. tip'[b] = <<LastRow>>
                BY <1>1, <2>1, <3>1
            <4> QED
                BY <2>1, <2>3, <4>1 DEF LastRow
        <3>2. CASE b # a
            BY <1>1, <2>1, <3>2 DEF AuditInv, NamesRow
        <3> QED
            BY <3>1, <3>2
    <2>6. DOMAIN tip' = Appender
        BY <1>1, <2>1
    <2> QED
        BY <1>1, <2>1, <2>4, <2>5, <2>6 DEF AuditInv
<1>4. ASSUME NEW a \in Appender, Insert(a) PROVE AuditInv'
    <2>1. /\ tip[a] # NoTip /\ appends < MaxAppends /\ appends' = appends + 1
          /\ tip' = [tip EXCEPT ![a] = NoTip] /\ edits' = edits
        BY <1>4 DEF Insert
    <2>2. PICK e, h, s : e = appends + 1 /\ h = tip[a][1].hash /\ s = tip[a][1].seq
        OBVIOUS
    <2>3. PICK o \in Org :
              events' = Append(events, [seq |-> e, body |-> [id |-> e, org |-> o], org |-> o,
                                        prev |-> h, after |-> s,
                                        hash |-> HashOf(h, [id |-> e, org |-> o])])
        BY <1>4, <2>2 DEF Insert
    <2>4. NamesRow(h, s) /\ h \in AuditHash /\ s \in 0..appends /\ e \in Nat
        BY <1>1, <2>1, <2>2 DEF AuditInv, NamesRow
    <2> DEFINE r == [seq |-> e, body |-> [id |-> e, org |-> o], org |-> o, prev |-> h,
                     after |-> s, hash |-> HashOf(h, [id |-> e, org |-> o])]
    <2>5. /\ r \in AuditRow /\ r.seq = e /\ r.body = [id |-> r.seq, org |-> r.org]
          /\ r.prev = h /\ r.after = s /\ r.hash = HashOf(r.prev, [id |-> r.seq, org |-> r.org])
        <3>1. [id |-> e, org |-> o] \in AuditBody
            BY <2>4 DEF AuditBody
        <3>2. HashOf(h, [id |-> e, org |-> o]) \in AuditHash
            BY <2>4, <3>1, HashTells
        <3> QED
            BY <1>1, <2>4, <3>1, <3>2 DEF AuditRow
    <2>6. events' = Append(events, r)
        BY <2>3
    <2> HIDE DEF r
    <2>7. /\ events' \in Seq(AuditRow) /\ Len(events') = n + 1 /\ events'[n + 1] = r
          /\ \A i \in 1..n : events'[i] = events[i]
        BY <1>1, <2>5, <2>6
    <2>8. \A i \in 1..(n + 1) : i \in 1..n \/ i = n + 1
        BY <1>1
    <2>9. ASSUME NEW j \in 1..Len(events')
          PROVE  \/ events'[j].seq > appends
                 \/ \E i \in 1..n : /\ events'[j].seq = events[i].seq
                                    /\ events'[j].hash = events[i].hash
        <3>1. CASE j \in 1..n
            BY <2>7, <3>1
        <3>2. CASE j = n + 1
            BY <1>1, <2>2, <2>5, <2>7, <3>2
        <3> QED
            BY <2>7, <2>8, <3>1, <3>2
    <2>10. appends' \in Nat /\ appends <= appends'
        BY <1>1, <2>1
    <2>11. ASSUME NEW i \in 1..Len(events') PROVE RowHolds(events[i])'
        <3>1. PICK w : w = events'[i]
            OBVIOUS
        <3>2. CASE i \in 1..n
            <4>1. RowHolds(w)
                BY <1>1, <2>7, <3>1, <3>2
            <4>2. RowHolds(w)'
                BY <1>1, <2>9, <2>10, <4>1, RowKeeps
            <4> QED
                BY <3>1, <4>2
        <3>3. CASE i = n + 1
            <4>1. NamesRow(h, s)'
                BY <1>1, <2>4, <2>9, <2>10, NamesKeep
            <4>2. w = r
                BY <2>7, <3>1, <3>3
            <4>3. w.seq \in 1..appends'
                BY <1>1, <2>1, <2>2, <2>5, <4>2
            <4>4. RowHolds(w)'
                BY <2>5, <4>1, <4>2, <4>3 DEF RowHolds
            <4> QED
                BY <3>1, <4>4
        <3> QED
            BY <2>7, <2>8, <3>2, <3>3
    <2>12. ASSUME NEW i \in 1..Len(events'), NEW j \in 1..Len(events'), j < i
           PROVE  events'[j].seq < events'[i].seq
        <3>1. j \in 1..n
            BY <1>1, <2>7, <2>12
        <3>2. events'[j] = events[j] /\ events[j].seq \in 1..appends
            BY <1>1, <2>7, <3>1 DEF RowHolds
        <3>3. CASE i \in 1..n
            BY <1>1, <2>7, <2>12, <3>1, <3>2, <3>3
        <3>4. CASE i = n + 1
            BY <1>1, <2>2, <2>5, <2>7, <3>2, <3>4
        <3> QED
            BY <2>7, <2>8, <3>3, <3>4
    <2>13. ASSUME NEW b \in Appender
          PROVE  \/ tip'[b] = NoTip
                 \/ /\ Len(tip'[b]) = 1 /\ tip'[b] = <<tip'[b][1]>>
                    /\ NamesRow(tip[b][1].hash, tip[b][1].seq)'
        <3>1. CASE b = a
            BY <1>1, <2>1, <3>1
        <3>2. CASE b # a /\ tip[b] # NoTip
            <4>1. PICK g, z : g = tip[b][1].hash /\ z = tip[b][1].seq
                OBVIOUS
            <4>2. NamesRow(g, z) /\ tip'[b] = tip[b]
                BY <1>1, <2>1, <3>2, <4>1 DEF AuditInv
            <4>3. NamesRow(g, z)'
                BY <1>1, <2>9, <2>10, <4>2, NamesKeep
            <4> QED
                BY <3>2, <4>1, <4>2, <4>3 DEF AuditInv
        <3>3. CASE b # a /\ tip[b] = NoTip
            BY <1>1, <2>1, <3>3
        <3> QED
            BY <3>1, <3>2, <3>3
    <2>14. DOMAIN tip' = Appender /\ appends' \in 0..MaxAppends /\ edits' \in 0..MaxEdits
        BY <1>1, <2>1 DEF AuditInv
    <2> QED
        BY <2>7, <2>11, <2>12, <2>13, <2>14 DEF AuditInv
<1>5. ASSUME NEW k \in 1..MaxAppends, EditRow(k) PROVE AuditInv'
    <2>1. k \in 1..n /\ edits < MaxEdits /\ edits' = edits + 1 /\ UNCHANGED <<appends, tip>>
          /\ events' = [events EXCEPT ![k].body.id = 0]
        BY <1>5 DEF EditRow
    <2> DEFINE r == [events[k] EXCEPT !.body.id = 0]
    <2>2. events' = [events EXCEPT ![k] = r]
        BY <2>1
    <2>3. events[k] \in AuditRow /\ RowHolds(events[k])
        BY <1>1, <2>1
    <2>4. /\ r \in AuditRow /\ r.body = [id |-> 0, org |-> r.org] /\ r.seq = events[k].seq
          /\ r.org = events[k].org /\ r.prev = events[k].prev /\ r.after = events[k].after
          /\ r.hash = events[k].hash
        BY <2>3 DEF RowHolds, AuditRow, AuditBody
    <2> HIDE DEF r
    <2>5. /\ events' \in Seq(AuditRow) /\ Len(events') = n
          /\ \A i \in 1..n : events'[i] = IF i = k THEN r ELSE events[i]
        <3>1. events \in Seq(AuditRow) /\ k \in 1..Len(events) /\ r \in AuditRow
            BY <1>1, <2>1, <2>4
        <3>2. /\ [events EXCEPT ![k] = r] \in Seq(AuditRow)
              /\ Len([events EXCEPT ![k] = r]) = Len(events)
              /\ \A j \in 1..Len(events) :
                     [events EXCEPT ![k] = r][j] = IF j = k THEN r ELSE events[j]
            BY <3>1, ExceptSeq
        <3> QED
            BY <2>2, <3>2
    <2>6. \A i \in 1..n : events'[i].seq = events[i].seq /\ events'[i].hash = events[i].hash
        BY <2>4, <2>5
    <2>7. ASSUME NEW h, NEW s, NamesRow(h, s) PROVE NamesRow(h, s)'
        BY <1>1, <2>1, <2>5, <2>6, <2>7, NamesKeep
    <2>8. ASSUME NEW i \in 1..n PROVE RowHolds(events[i])'
        <3>1. PICK w : w = events'[i]
            OBVIOUS
        <3>2. CASE i # k
            <4>1. RowHolds(w)
                BY <1>1, <2>5, <3>1, <3>2
            <4>2. RowHolds(w)'
                BY <2>1, <2>7, <4>1 DEF RowHolds
            <4> QED
                BY <3>1, <4>2
        <3>3. CASE i = k
            <4>1. w = r
                BY <2>5, <3>1, <3>3
            <4>2. NamesRow(w.prev, w.after)
                BY <2>3, <2>4, <4>1 DEF RowHolds
            <4>3. NamesRow(w.prev, w.after)'
                BY <2>7, <4>2
            <4>4. w.hash = HashOf(w.prev, [id |-> w.seq, org |-> w.org]) /\ w.seq \in 1..appends'
                BY <2>1, <2>3, <2>4, <4>1 DEF RowHolds
            <4>5. RowHolds(w)'
                BY <2>4, <4>1, <4>3, <4>4 DEF RowHolds
            <4> QED
                BY <3>1, <4>5
        <3> QED
            BY <3>2, <3>3
    <2>9. ASSUME NEW b \in Appender, tip[b] # NoTip
          PROVE  NamesRow(tip[b][1].hash, tip[b][1].seq)'
        <3>1. PICK g, z : g = tip[b][1].hash /\ z = tip[b][1].seq
            OBVIOUS
        <3>2. NamesRow(g, z)'
            BY <2>7, <2>9, <3>1 DEF AuditInv
        <3> QED
            BY <2>1, <3>1, <3>2
    <2>10. \A i, j \in 1..n : j < i => events'[j].seq < events'[i].seq
        BY <1>1, <2>6
    <2>11. edits' \in 0..MaxEdits
        BY <1>1, <2>1
    <2> QED
        BY <2>1, <2>5, <2>8, <2>9, <2>10, <2>11 DEF AuditInv
<1>6. ASSUME NEW k \in 1..MaxAppends, DropRow(k) PROVE AuditInv'
    <2>1. k \in 1..n /\ edits < MaxEdits /\ edits' = edits + 1 /\ UNCHANGED <<appends, tip>>
          /\ events' = SubSeq(events, 1, k - 1) \o SubSeq(events, k + 1, n)
        BY <1>6 DEF DropRow
    <2>2. PICK m : m = n
        OBVIOUS
    <2> DEFINE at(i) == IF i < k THEN i ELSE i + 1
    <2>3. /\ events' \in Seq(AuditRow) /\ Len(events') = m - 1
          /\ \A i \in 1..(m - 1) : events'[i] = events[at(i)]
        <3> DEFINE l == SubSeq(events, 1, k - 1)
                   r == SubSeq(events, k + 1, n)
        <3>1. /\ l \in Seq(AuditRow) /\ Len(l) = k - 1
              /\ \A i \in 1..(k - 1) : l[i] = events[i]
            BY <1>1, <2>1, SubSeqProperties
        <3>2. /\ r \in Seq(AuditRow) /\ Len(r) = n - k
              /\ \A i \in 1..(n - k) : r[i] = events[k + i]
            <4>1. CASE k = n
                BY <1>1, <2>1, <4>1, SubSeqProperties
            <4>2. CASE k < n
                BY <1>1, <2>1, <4>2, SubSeqProperties
            <4> QED
                BY <1>1, <2>1, <4>1, <4>2
        <3> HIDE DEF l, r
        <3>3. events' = l \o r
            BY <2>1 DEF l, r
        <3>4. /\ l \o r \in Seq(AuditRow) /\ Len(l \o r) = Len(l) + Len(r)
              /\ \A i \in 1..(Len(l) + Len(r)) :
                     (l \o r)[i] = IF i <= Len(l) THEN l[i] ELSE r[i - Len(l)]
            BY <3>1, <3>2, ConcatProperties
        <3>5. Len(l) + Len(r) = m - 1
            BY <1>1, <2>1, <2>2, <3>1, <3>2
        <3>6. ASSUME NEW i \in 1..(m - 1) PROVE events'[i] = events[at(i)]
            <4>1. CASE i < k
                <5>1. i \in 1..(k - 1) /\ i <= Len(l) /\ i \in 1..(Len(l) + Len(r))
                    BY <1>1, <2>1, <2>2, <3>1, <3>5, <4>1
                <5> QED
                    BY <3>1, <3>3, <3>4, <4>1, <5>1
            <4>2. CASE ~(i < k)
                <5>1. ~(i <= Len(l)) /\ i - Len(l) \in 1..(n - k) /\ k + (i - Len(l)) = i + 1
                    BY <1>1, <2>1, <2>2, <3>1, <4>2
                <5> QED
                    BY <3>2, <3>3, <3>4, <3>5, <4>2, <5>1
            <4> QED
                BY <4>1, <4>2
        <3> QED
            BY <3>3, <3>4, <3>5, <3>6
    <2>4. \A i \in 1..(m - 1) : at(i) \in 1..n
        BY <1>1, <2>1, <2>2
    <2>5. \A i, j \in 1..(m - 1) : j < i => at(j) < at(i)
        BY <1>1, <2>1, <2>2
    <2> HIDE DEF at
    <2>6. \A i \in 1..(m - 1) : \E j \in 1..n : events'[i] = events[j]
        BY <2>3, <2>4
    <2>7. \A j \in 1..Len(events') :
              \/ events'[j].seq > appends
              \/ \E i \in 1..n : events'[j].seq = events[i].seq /\ events'[j].hash = events[i].hash
        BY <2>3, <2>6
    <2>12. appends \in Nat /\ appends' \in Nat /\ appends <= appends'
        BY <1>1, <2>1
    <2>8. ASSUME NEW i \in 1..(m - 1) PROVE RowHolds(events[i])'
        <3>1. PICK w : w = events'[i]
            OBVIOUS
        <3>2. RowHolds(w)
            BY <1>1, <2>6, <3>1
        <3>3. RowHolds(w)'
            BY <2>7, <2>12, <3>2, RowKeeps
        <3> QED
            BY <3>1, <3>3
    <2>9. ASSUME NEW b \in Appender, tip[b] # NoTip
          PROVE  NamesRow(tip[b][1].hash, tip[b][1].seq)'
        <3>1. PICK g, z : g = tip[b][1].hash /\ z = tip[b][1].seq
            OBVIOUS
        <3>2. NamesRow(g, z)
            BY <2>9, <3>1 DEF AuditInv
        <3>3. NamesRow(g, z)'
            BY <2>7, <2>12, <3>2, NamesKeep
        <3> QED
            BY <2>1, <3>1, <3>3
    <2>10. \A i, j \in 1..(m - 1) : j < i => events'[j].seq < events'[i].seq
        BY <1>1, <2>3, <2>4, <2>5
    <2>11. edits' \in 0..MaxEdits
        BY <1>1, <2>1
    <2> QED
        BY <2>1, <2>3, <2>8, <2>9, <2>10, <2>11 DEF AuditInv
<1> QED
    BY <1>2, <1>3, <1>4, <1>5, <1>6 DEF AuditNext

\* Whether a row fits the one before it, told by what was done to it.
LEMMA FollowsWhen ==
    ASSUME AuditInv, NEW i \in 1..Len(events)
    PROVE  Follows(events, i) <=>
               /\ events[i].body.id = events[i].seq
               /\ events[i].after = IF i = 1 THEN 0 ELSE events[i - 1].seq
<1> DEFINE r == events[i]
           p == IF i = 1 THEN GENESIS ELSE events[i - 1].hash
           b == [id |-> r.seq, org |-> r.org]
<1>1. RowHolds(r) /\ r \in AuditRow /\ r.seq \in 1..appends /\ appends \in Nat
    BY DEF AuditInv, RowHolds
<1>2. /\ r.prev \in AuditHash /\ b \in AuditBody /\ r.body \in AuditBody
      /\ r.body \in {b, [id |-> 0, org |-> r.org]} /\ r.hash = HashOf(r.prev, b)
    BY <1>1 DEF RowHolds, AuditRow, AuditBody
<1>3. HashOf(r.prev, r.body) = r.hash <=> r.body = b
    BY <1>2, HashTells
<1>4. r.body = b <=> r.body.id = r.seq
    BY <1>1, <1>2
<1>5. r.prev = p <=> r.after = IF i = 1 THEN 0 ELSE events[i - 1].seq
    <2>1. CASE i = 1
        BY <1>1, <2>1 DEF RowHolds, NamesRow
    <2>2. CASE i # 1
        <3> DEFINE w == events[i - 1]
                   c == [id |-> w.seq, org |-> w.org]
        <3>1. i - 1 \in 1..Len(events)
            BY <2>2 DEF AuditInv
        <3>2. /\ RowHolds(w) /\ w \in AuditRow /\ w.seq \in 1..appends
              /\ w.prev \in AuditHash /\ c \in AuditBody /\ w.hash = HashOf(w.prev, c)
            BY <3>1 DEF AuditInv, RowHolds, AuditRow, AuditBody
        <3>3. w.hash # GENESIS /\ w.hash[Len(w.hash)] = c
            BY <3>2, HashTells
        <3>4. ASSUME r.prev = w.hash PROVE r.after = w.seq
            BY <1>1, <3>3, <3>4 DEF RowHolds, NamesRow
        <3>5. ASSUME r.after = w.seq PROVE r.prev = w.hash
            BY <1>1, <3>1, <3>5 DEF RowHolds, NamesRow
        <3> QED
            BY <2>2, <3>4, <3>5
    <2> QED
        BY <2>1, <2>2
<1>6. Follows(events, i) <=> r.prev = p /\ r.hash = HashOf(p, r.body)
    BY DEF Follows
<1> QED
    BY <1>3, <1>4, <1>5, <1>6

\* verify() accepts what nobody touched, and points at no row before the damage.
LEMMA AuditInvTells == AuditInv => TamperEvident
<1> SUFFICES ASSUME AuditInv PROVE TamperEvident
    OBVIOUS
<1> DEFINE n == Len(events)
           B == BrokenRows(events)
<1>0. /\ n \in Nat /\ \A i, j \in 1..n : j < i => events[j].seq < events[i].seq
      /\ \A l \in 1..n : events[l].seq \in Nat
    <2>1. events \in Seq(AuditRow) /\ \A l \in 1..n : events[l] \in AuditRow
        BY DEF AuditInv, RowHolds
    <2>2. \A i, j \in 1..n : j < i => events[j].seq < events[i].seq
        BY DEF AuditInv
    <2> QED
        BY <2>1, <2>2 DEF AuditRow
<1>1. B \in SUBSET Nat /\ B \subseteq 1..n
    BY <1>0 DEF BrokenRows
<1>2. \A i \in 1..n : i \in B <=> ~ (/\ events[i].body.id = events[i].seq
                                  /\ events[i].after = IF i = 1 THEN 0 ELSE events[i - 1].seq)
    BY FollowsWhen DEF BrokenRows
<1> HIDE DEF B
<1>3. Untouched <=> B = {}
    BY <1>0, <1>1, <1>2 DEF Untouched
<1>4. CASE B = {}
    <2>1. VerifyAll = [valid |-> TRUE, brokenAtSeq |-> 0]
        BY <1>4 DEF VerifyAll, Verify, B
    <2> QED
        BY <1>3, <1>4, <2>1 DEF TamperEvident
<1>5. CASE B # {}
    <2> DEFINE f == CHOOSE i \in B : \A j \in B : i <= j
    <2>1. f \in B /\ \A j \in B : f <= j
        BY <1>1, <1>5, LeastOf
    <2>2. VerifyAll = [valid |-> FALSE, brokenAtSeq |-> events[f].seq]
        BY <1>5 DEF VerifyAll, Verify, B
    <2> HIDE DEF f
    <2>3. ASSUME NEW i \in 1..n, events[i].seq < events[f].seq
          PROVE  events[i].body.id = events[i].seq
        <3>1. i < f
            <4>1. f \in 1..n /\ i \in Nat /\ f \in Nat
                BY <1>0, <1>1, <2>1
            <4>2. f < i => events[f].seq < events[i].seq
                BY <1>0, <4>1
            <4>3. events[f].seq \in Nat /\ events[i].seq \in Nat
                BY <1>0, <4>1
            <4> QED
                BY <2>3, <4>1, <4>2, <4>3
        <3>2. i \notin B
            BY <1>1, <2>1, <3>1
        <3> QED
            BY <1>2, <3>2
    <2> QED
        BY <1>3, <1>5, <2>2, <2>3 DEF TamperEvident
<1> QED
    BY <1>4, <1>5

-----------------------------------------------------------------------------
(* ChangeGates: what a merged change is, and what is given up.              *)

Ops == DOMAIN order.ops
Underway == {"test", "repair", "bench", "review", "approved"} \cup OnMain
Start(i) == Faulty(Template).sym[i]
Right(i) == \A c \in Cases(i) : Fits(code.sym[i], c)

\* Functions that were repaired; those among them that were doubtful and are right.
Moved == {i \in Ops : code.sym[i] # Start(i)}
MadeRight == {i \in Moved \cap Doubtful : Right(i)}

GatesShape ==
    /\ order \in Orders /\ repairs \in Nat
    /\ phase \in Underway \cup {"generate", "blocked", "raised"}
    /\ phase # "blocked" => why = "none"
    /\ phase = "generate" => repairs = 0 /\ verdict = "none"
    /\ phase \in Underway \/ why = "repair budget exhausted" => code \in Modules

\* What the gates that were passed have seen is the change as it is.
PassedInv ==
    /\ phase = "repair" => FailingVectors # {}
    /\ phase \in {"bench", "review", "approved"} \cup OnMain =>
          code.exact /\ (FailingVectors # {} => order.budget < 0 /\ repairs = 0)
    /\ phase \in {"review", "approved"} \cup OnMain => measured # "slow"
    /\ phase \in {"approved"} \cup OnMain => code.has \cap {"secret", "log"} = {}
    /\ phase = "delivered" => FailingVectors = {}
    /\ phase \in Underway /\ "forbidden" \in code.has => order.engine = "llm" /\ repairs > 0
    /\ verdict # "none" => /\ phase \in {"approved", "blocked", "raised"} \cup OnMain
                           /\ verdict = "BLOCK" <=> "secret" \in code.has

\* Each repair of the template either moves a function off its start, or settles
\* a doubtful one, unless it goes to and fro or mistakes one test for another.
RepairInv ==
    order.engine = "template" /\ Satisfiable =>
        /\ why = "no repair" => FailingVectors \cap Garbled # {}
        /\ why = "repair budget exhausted" => repairs >= order.budget
        /\ phase \in Underway \/ why = "repair budget exhausted" =>
              \/ Torn # {} \/ Garbled # {}
              \/ /\ repairs <= Cardinality(Moved) + Cardinality(MadeRight)
                 /\ \A i \in Moved :
                       /\ i \in StartWrong
                       /\ \/ Right(i)
                          \/ \E c \in Cases(i) : Guess(c) = {code.sym[i]} /\ ~Fits(Start(i), c)

GatesInv == GatesShape /\ PassedInv /\ RepairInv

\* It holds at the start.
LEMMA GatesInitInv == GatesInit => GatesInv
BY GatesAssumption DEF GatesInit, GatesInv, GatesShape, PassedInv, RepairInv, Underway, OnMain

\* The functions of an order are finitely many.
LEMMA OpsFinite ==
    ASSUME order \in Orders
    PROVE  /\ order.ops \in Seq(OpSpecs)
           /\ Ops = 1..Len(order.ops) /\ IsFiniteSet(Ops)
<1>1. order.ops \in Seq(OpSpecs)
    BY GatesAssumption
<1>2. Ops = 1..Len(order.ops) /\ Len(order.ops) \in Nat
    BY <1>1 DEF Ops
<1> QED
    BY <1>1, <1>2, FS_Interval

\* There is a module for every order.
LEMMA ModulesExist == order \in Orders => \E c : c \in Modules
<1> SUFFICES ASSUME order \in Orders PROVE \E c : c \in Modules
    OBVIOUS
<1> DEFINE c == [sym |-> [i \in DOMAIN order.ops |-> "+"], exact |-> TRUE, has |-> {}]
<1>1. c \in Modules
    BY DEF Modules, Symbol
<1> QED
    BY <1>1

\* What the template starts from, with a fault or without, has its operators.
LEMMA FaultyFits ==
    ASSUME order \in Orders, NEW c \in Modules
    PROVE  /\ Faulty(c) \in Modules /\ Faulty(c).has = c.has /\ Faulty(c).exact = c.exact
           /\ Template \in Modules
           /\ \A i \in Ops : Start(i) \in Symbol
<1> DEFINE F(d) == [d EXCEPT !.sym[1] = IF @ = "+" THEN "-" ELSE "+"]
<1>1. ASSUME NEW d \in Modules PROVE F(d) \in Modules /\ F(d).has = d.has /\ F(d).exact = d.exact
    <2> DEFINE z == [d.sym EXCEPT ![1] = IF @ = "+" THEN "-" ELSE "+"]
    <2>1. z \in [DOMAIN order.ops -> Symbol]
        BY <1>1 DEF Modules, Symbol
    <2>2. F(d) = [d EXCEPT !.sym = z]
        BY <1>1 DEF Modules
    <2> HIDE DEF z
    <2> QED
        BY <1>1, <2>1, <2>2 DEF Modules
<1>2. Template \in Modules
    <2>1. \A i \in DOMAIN order.ops : order.ops[i].named \in Symbol
        <3>1. order.ops \in Seq(OpSpecs) /\ \A f \in OpSpecs : f.named \in Symbol
            BY OpsFinite DEF OpSpecs
        <3> QED
            BY <3>1
    <2> QED
        BY <2>1 DEF Template, Modules
<1>3. ASSUME NEW d \in Modules PROVE Faulty(d) \in Modules /\ Faulty(d).has = d.has
                                              /\ Faulty(d).exact = d.exact
    BY <1>1, <1>3 DEF Faulty
<1>4. \A i \in Ops : Start(i) \in Symbol
    BY <1>2, <1>3 DEF Start, Modules, Ops
<1> QED
    BY <1>2, <1>3, <1>4

\* An order has the same vectors, and the same functions that start wrong, as
\* long as it lasts.
LEMMA OrderStays ==
    ASSUME order' = order
    PROVE  /\ Ops' = Ops /\ Vectors' = Vectors /\ Torn' = Torn /\ Garbled' = Garbled
           /\ \A i : Cases(i)' = Cases(i) /\ Start(i)' = Start(i)
           /\ \A v : CaseOf(v)' = CaseOf(v)
           /\ Satisfiable' = Satisfiable /\ StartWrong' = StartWrong /\ Doubtful' = Doubtful
<1>1. Vectors' = Vectors /\ \A v : CaseOf(v)' = CaseOf(v)
    BY DEF Vectors, CaseOf, CasesOf
<1>2. \A i : Cases(i)' = Cases(i) /\ Start(i)' = Start(i)
    BY <1>1 DEF Cases, Start, Faulty, Template
<1>3. Ops' = Ops /\ Torn' = Torn /\ Garbled' = Garbled
    BY <1>1, <1>2 DEF Ops, Torn, Garbled, Titled
<1>4. Satisfiable' = Satisfiable /\ StartWrong' = StartWrong /\ Doubtful' = Doubtful
    BY <1>2 DEF Satisfiable, StartWrong, Doubtful, Start
<1> QED
    BY <1>1, <1>2, <1>3, <1>4

\* A module that is left alone is as right or wrong as it was.
LEMMA CodeStays ==
    ASSUME order' = order, code' = code
    PROVE  FailingVectors' = FailingVectors /\ Moved' = Moved /\ MadeRight' = MadeRight
           /\ \A i : Right(i)' = Right(i)
<1>1. FailingVectors' = FailingVectors /\ \A i : Right(i)' = Right(i)
    BY OrderStays DEF FailingVectors, Right
<1>2. Moved' = Moved
    BY OrderStays DEF Moved
<1>3. MadeRight' = MadeRight
    BY <1>1, <1>2, OrderStays DEF MadeRight
<1> QED
    BY <1>1, <1>2, <1>3

\* What leaves the code alone keeps what is counted of its repairs.
LEMMA RepairKeeps ==
    ASSUME RepairInv, order' = order, code' = code, repairs' = repairs,
           phase \in Underway, why' # "no repair",
           why' = "repair budget exhausted" => repairs >= order.budget
    PROVE  RepairInv'
<1> DEFINE Count == repairs <= Cardinality(Moved) + Cardinality(MadeRight)
           Way == \A i \in Moved :
                      /\ i \in StartWrong
                      /\ \/ Right(i)
                         \/ \E c \in Cases(i) : Guess(c) = {code.sym[i]} /\ ~Fits(Start(i), c)
<1>1. Count' = Count
    BY CodeStays
<1>2. Way' = Way
    BY CodeStays, OrderStays
<1>3. order.engine = "template" /\ Satisfiable => Torn # {} \/ Garbled # {} \/ (Count /\ Way)
    BY DEF RepairInv
<1>4. Torn' = Torn /\ Garbled' = Garbled /\ Satisfiable' = Satisfiable
    BY OrderStays
<1> HIDE DEF Count, Way
<1> QED
    BY <1>1, <1>2, <1>3, <1>4 DEF RepairInv, Count, Way

\* The vectors of an order lie within its functions, and are triples.
LEMMA VectorsFit ==
    ASSUME order \in Orders, NEW v \in Vectors
    PROVE  v.op \in Nat /\ v.nr \in Nat /\ v = [op |-> v.op, nr |-> v.nr]
           /\ CaseOf(v) \in Int \X Int \X Int
<1>1. PICK i \in Ops : \E k \in DOMAIN CasesOf(order.ops[i]) : v = [op |-> i, nr |-> k]
    BY DEF Vectors, Ops
<1>2. PICK k \in DOMAIN CasesOf(order.ops[i]) : v = [op |-> i, nr |-> k]
    BY <1>1
<1>3. order.ops[i] \in OpSpecs /\ i \in Nat
    <2>1. order.ops \in Seq(OpSpecs) /\ Ops = 1..Len(order.ops) /\ Len(order.ops) \in Nat
        BY OpsFinite
    <2> QED
        BY <2>1
<1>4. CasesOf(order.ops[i]) \in Seq(Int \X Int \X Int)
    <2>1. order.ops[i].cases \in Seq(Int \X Int \X Int)
        BY <1>3 DEF OpSpecs
    <2>2. \A sym : <<Canonical(sym)>> \in Seq(Int \X Int \X Int)
        <3>1. \A sym : Canonical(sym) \in Int \X Int \X Int
            BY DEF Canonical
        <3> QED
            BY <3>1
    <2> QED
        BY <2>1, <2>2 DEF CasesOf
<1>5. k \in Nat /\ CasesOf(order.ops[i])[k] \in Int \X Int \X Int
    BY <1>2, <1>4
<1>6. v.op = i /\ v.nr = k
    BY <1>2
<1> QED
    BY <1>2, <1>3, <1>5, <1>6 DEF CaseOf

\* Of the failures one is the earliest.
LEMMA EarliestExists ==
    ASSUME order \in Orders, FailingVectors # {}
    PROVE  \E v \in FailingVectors : Earliest(v, FailingVectors)
<1>1. \A w \in FailingVectors : w.op \in Nat /\ w.nr \in Nat
    BY VectorsFit DEF FailingVectors
<1> DEFINE FailIn == {w.op : w \in FailingVectors}
<1>2. PICK i \in FailIn : \A j \in FailIn : i <= j
    <2>1. FailIn \in SUBSET Nat /\ FailIn # {}
        BY <1>1
    <2> HIDE DEF FailIn
    <2> QED
        BY <2>1, LeastOf, Zenon
<1> DEFINE NrsOf == {w.nr : w \in {x \in FailingVectors : x.op = i}}
<1>3. PICK k \in NrsOf : \A m \in NrsOf : k <= m
    <2>1. NrsOf \in SUBSET Nat /\ NrsOf # {}
        BY <1>1, <1>2
    <2> HIDE DEF NrsOf
    <2> QED
        BY <2>1, LeastOf, Zenon
<1>4. PICK v \in FailingVectors : v.op = i /\ v.nr = k
    BY <1>3
<1>5. ASSUME NEW w \in FailingVectors PROVE v.op < w.op \/ (v.op = w.op /\ v.nr <= w.nr)
    <2>1. i <= w.op /\ (w.op = i => k <= w.nr)
        BY <1>2, <1>3
    <2> QED
        BY <1>1, <1>4, <2>1
<1> QED
    BY <1>4, <1>5 DEF Earliest

\* Where the titles of the failures can be read, the template is told of one and
\* the same test.
LEMMA FixesOfOne ==
    ASSUME order \in Orders, FailingVectors \cap Garbled = {}, NEW v \in FailingVectors
    PROVE  /\ Readable = FailingVectors
           /\ Earliest(v, FailingVectors) =>
                 Fixes(v) = Guess(CaseOf(v)) \ {code.sym[v.op]}
           /\ Fixes(v) # {} => Earliest(v, FailingVectors)
<1>1. Readable = FailingVectors
    BY DEF Readable, Garbled, FailingVectors
<1>2. Hinted(v, v) = CaseOf(v)
    BY VectorsFit DEF FailingVectors, Hinted
<1>3. ASSUME NEW w \in FailingVectors, Earliest(v, FailingVectors), Earliest(w, FailingVectors)
      PROVE  w = v
    BY <1>3, VectorsFit DEF Earliest, FailingVectors
<1>4. \A c : Guess(c) \subseteq Symbol
    BY DEF Guess, Symbol
<1>5. ASSUME Earliest(v, FailingVectors) PROVE Fixes(v) = Guess(CaseOf(v)) \ {code.sym[v.op]}
    BY <1>1, <1>2, <1>3, <1>4, <1>5 DEF Fixes
<1> QED
    BY <1>1, <1>5 DEF Fixes

\* A repair of the template: it moves a function off its start, settles a doubtful
\* one, or goes to and fro.
LEMMA RepairCounts ==
    ASSUME GatesInv, order.engine = "template", Satisfiable, Torn = {}, phase \in Underway,
           Garbled = {}, NEW v \in Readable, NEW s \in Fixes(v),
           order' = order, code' = [code EXCEPT !.sym[v.op] = s]
    PROVE  /\ Cardinality(Moved) + Cardinality(MadeRight) + 1
                  <= Cardinality(Moved') + Cardinality(MadeRight')
           /\ \A i \in Moved' :
                 /\ i \in StartWrong
                 /\ \/ Right(i)'
                    \/ \E c \in Cases(i) : Guess(c) = {code'.sym[i]} /\ ~Fits(Start(i), c)
<1> DEFINE i == v.op
           o == code.sym[i]
           d == CaseOf(v)
<1>1. /\ code \in Modules /\ order \in Orders /\ IsFiniteSet(Ops) /\ code.sym \in [Ops -> Symbol]
    BY OpsFinite DEF GatesInv, GatesShape, Modules, Ops
<1>0. v \in FailingVectors /\ s \in Guess(d) /\ s # o
    <2>1. v \in FailingVectors
        BY DEF Readable
    <2> QED
        BY <1>1, <2>1, FixesOfOne
<1>2. v \in Vectors /\ ~Fits(o, d) /\ i \in Ops /\ d \in Cases(i)
    BY <1>0 DEF FailingVectors, Vectors, Cases, Ops
<1>3. s \in Symbol /\ Fits(s, d) /\ Guess(d) = {s} /\ o \in Symbol /\ s # o
    <2>1. s \in Symbol /\ Fits(s, d) /\ Guess(d) = {s}
        BY <1>0 DEF Guess, Symbol
    <2> QED
        BY <1>0, <1>1, <1>2, <2>1
<1>4. PICK a \in Symbol : \A c \in Cases(i) : Fits(a, c)
    BY <1>2 DEF Satisfiable, Ops
<1>5. a # o
    BY <1>2, <1>4
<1>6. /\ code'.sym[i] = s /\ \A j \in Ops \ {i} : code'.sym[j] = code.sym[j]
    <2> DEFINE z == [code.sym EXCEPT ![v.op] = s]
    <2>1. z[i] = s /\ \A j \in Ops \ {i} : z[j] = code.sym[j]
        BY <1>1, <1>2
    <2>2. code' = [code EXCEPT !.sym = z]
        BY <1>1 DEF Modules
    <2> HIDE DEF z
    <2>3. code'.sym = z
        BY <1>1, <2>2 DEF Modules
    <2> QED
        BY <2>1, <2>3
<1>7. /\ \A j \in Ops \ {i} : Right(j)' = Right(j)
      /\ Right(i)' <=> \A c \in Cases(i) : Fits(s, c)
      /\ Right(i) <=> \A c \in Cases(i) : Fits(o, c)
    BY <1>6, OrderStays DEF Right
<1>8. ~Right(i)
    BY <1>2, <1>7
<1>9. /\ Moved \subseteq Ops /\ Moved' \subseteq Ops /\ Moved \ {i} = Moved' \ {i}
      /\ i \in Moved <=> o # Start(i)
      /\ i \in Moved' <=> s # Start(i)
    BY <1>2, <1>6, OrderStays DEF Moved
<1>10. IsFiniteSet(Moved) /\ IsFiniteSet(MadeRight) /\ IsFiniteSet(Moved') /\ IsFiniteSet(MadeRight')
    <2>1. MadeRight \subseteq Moved /\ MadeRight' \subseteq Moved'
        BY DEF MadeRight
    <2> QED
        BY <1>1, <1>9, <2>1, FS_Subset
<1>11. /\ \A j \in Moved : /\ j \in StartWrong
                            /\ \/ Right(j)
                               \/ \E c \in Cases(j) : Guess(c) = {code.sym[j]} /\ ~Fits(Start(j), c)
    BY DEF GatesInv, RepairInv
<1>12. \A j \in Moved' \ {i} :
          /\ j \in StartWrong
          /\ \/ Right(j)'
             \/ \E c \in Cases(j) : Guess(c) = {code'.sym[j]} /\ ~Fits(Start(j), c)
    BY <1>6, <1>7, <1>9, <1>11
<1>13. MadeRight \subseteq MadeRight' /\ MadeRight' \subseteq MadeRight \cup {i} /\ i \notin MadeRight
    BY <1>7, <1>8, <1>9, OrderStays DEF MadeRight
<1>14. CASE i \notin Moved
    <2>1. o = Start(i) /\ Moved' = Moved \cup {i}
        BY <1>3, <1>9, <1>14
    <2>2. Cardinality(Moved') = Cardinality(Moved) + 1
        BY <1>10, <1>14, <2>1, FS_AddElement
    <2>3. Cardinality(MadeRight) <= Cardinality(MadeRight')
        BY <1>10, <1>13, FS_Subset
    <2>4. i \in StartWrong
        BY <1>2, <2>1 DEF StartWrong, Ops, Start
    <2>5. Guess(d) = {code'.sym[i]} /\ ~Fits(Start(i), d)
        BY <1>2, <1>3, <1>6, <2>1
    <2>6. /\ Cardinality(Moved) \in Nat /\ Cardinality(MadeRight) \in Nat
          /\ Cardinality(Moved') \in Nat /\ Cardinality(MadeRight') \in Nat
        BY <1>10, FS_CardinalityType
    <2>7. Cardinality(Moved) + Cardinality(MadeRight) + 1
              <= Cardinality(Moved') + Cardinality(MadeRight')
        BY <2>2, <2>3, <2>6
    <2>8. \A j \in Moved' : j = i \/ j \in Moved' \ {i}
        OBVIOUS
    <2> QED
        BY <1>2, <1>12, <2>4, <2>5, <2>7, <2>8
<1>15. CASE i \in Moved
    <2>1. PICK c \in Cases(i) : Guess(c) = {o} /\ ~Fits(Start(i), c)
        BY <1>8, <1>11, <1>15
    <2>2. Fits(o, c) /\ Fits(a, c) /\ Start(i) # a /\ Start(i) # o /\ Start(i) \in Symbol
        BY <1>1, <1>2, <1>3, <1>4, <2>1, FaultyFits DEF Guess, GatesInv, GatesShape
    <2>3. i \in Doubtful
        BY <1>2, <1>3, <1>4, <1>5, <2>2 DEF Doubtful, Ops
    <2>4. s = a
        <3> SUFFICES ASSUME s # a PROVE FALSE
            OBVIOUS
        <3>1. s = Start(i)
            BY <1>3, <1>4, <1>5, <2>2 DEF Symbol
        <3>2. Fits(a, d) /\ Fits(a, c)
            BY <1>2, <1>4
        <3>3. Guess(d) = {s} /\ Guess(c) = {o} /\ ~Fits(s, c) /\ ~Fits(o, d)
            BY <1>2, <1>3, <2>1, <3>1
        <3>4. a = "+" /\ {s, o} = {"-", "*"}
            BY <1>3, <1>4, <1>5, <3>2, <3>3 DEF Guess, Symbol
        <3>5. i \in Torn
            <4>1. CASE s = "-"
                BY <1>2, <1>4, <3>3, <3>4, <4>1 DEF Torn, Ops
            <4>2. CASE s = "*"
                BY <1>2, <1>4, <3>3, <3>4, <4>2 DEF Torn, Ops
            <4> QED
                BY <3>4, <4>1, <4>2
        <3> QED
            BY <3>5
    <2>5. Right(i)' /\ i \in Moved' /\ Moved' = Moved
        BY <1>4, <1>7, <1>9, <1>15, <2>2, <2>4
    <2>6. MadeRight' = MadeRight \cup {i}
        BY <1>13, <2>3, <2>5, OrderStays DEF MadeRight
    <2>7. Cardinality(MadeRight') = Cardinality(MadeRight) + 1
        BY <1>10, <1>13, <2>6, FS_AddElement
    <2>8. Cardinality(Moved) \in Nat /\ Cardinality(MadeRight) \in Nat
        BY <1>10, FS_CardinalityType
    <2>9. i \in StartWrong
        BY <1>11, <1>15
    <2> QED
        BY <1>12, <2>5, <2>7, <2>8, <2>9
<1> QED
    BY <1>14, <1>15

\* What the base reviewer says follows from the traits it knows.
LEMMA VerdictOfTraits ==
    /\ BaseVerdict = "BLOCK" <=> "secret" \in code.has
    /\ BaseVerdict = "APPROVE" => code.has \cap {"secret", "log"} = {}
    /\ BaseVerdict \in {"BLOCK", "REQUEST_CHANGES", "APPROVE"}
<1> DEFINE Weight(t) == CASE t = "secret" -> "blocker" [] t = "log" -> "major" [] OTHER -> "minor"
           Known == code.has \cap {"secret", "log", "todo"}
<1>1. BaseFindings = {[severity |-> Weight(t), key |-> t] : t \in Known}
    BY DEF BaseFindings
<1>2. /\ Weight("secret") = "blocker" /\ Weight("log") = "major"
      /\ \A t \in Known : Weight(t) = "blocker" => t = "secret"
    OBVIOUS
<1> HIDE DEF Weight
<1> HIDE DEF Known
<1>0. /\ \A f \in BaseFindings : \E t \in Known : f.severity = Weight(t)
      /\ \A t \in Known : \E f \in BaseFindings : f.severity = Weight(t)
    <2> DEFINE Found(t) == [severity |-> Weight(t), key |-> t]
    <2>1. \A t \in Known : Found(t) \in BaseFindings
        BY <1>1
    <2>2. \A f \in BaseFindings : \E t \in Known : f = Found(t)
        BY <1>1
    <2>3. \A t \in Known : Found(t).severity = Weight(t)
        OBVIOUS
    <2> HIDE DEF Found
    <2> QED
        BY <2>1, <2>2, <2>3
<1>3. (\E f \in BaseFindings : f.severity = "blocker") <=> (\E t \in Known : Weight(t) = "blocker")
    BY <1>0
<1>4. (\E f \in BaseFindings : f.severity = "major") <=> (\E t \in Known : Weight(t) = "major")
    BY <1>0
<1>5. (\E t \in Known : Weight(t) = "blocker") <=> "secret" \in code.has
    BY <1>2 DEF Known
<1>6. "log" \in code.has => \E t \in Known : Weight(t) = "major"
    BY <1>2 DEF Known
<1>7. "secret" \in code.has => BaseVerdict = "BLOCK"
    BY <1>3, <1>5 DEF BaseVerdict
<1>8. "secret" \notin code.has => BaseVerdict \in {"REQUEST_CHANGES", "APPROVE"}
    BY <1>3, <1>5 DEF BaseVerdict
<1>9. "secret" \notin code.has /\ "log" \in code.has => BaseVerdict = "REQUEST_CHANGES"
    BY <1>3, <1>4, <1>5, <1>6 DEF BaseVerdict
<1> QED
    BY <1>7, <1>8, <1>9

\* Every step keeps it.
LEMMA GatesStepInv == GatesInv /\ [GatesNext]_gateVars => GatesInv'
<1> SUFFICES ASSUME GatesInv, [GatesNext]_gateVars PROVE GatesInv'
    OBVIOUS
<1> USE GatesAssumption DEF GatesInv
<1>1. /\ order \in Orders /\ repairs \in Nat /\ order.budget \in Int
      /\ phase # "blocked" => why = "none"
    BY DEF GatesShape
<1>2. ASSUME order' = order, code' = code, repairs' = repairs, phase \in Underway,
             why' # "no repair", why' = "repair budget exhausted" => repairs >= order.budget,
             phase' \in Underway \cup {"blocked", "raised"}, phase' # "blocked" => why' = "none"
      PROVE  GatesShape' /\ RepairInv' /\ FailingVectors' = FailingVectors
    <2>1. Modules' = Modules
        BY <1>2 DEF Modules
    <2> QED
        BY <1>2, <2>1, CodeStays, RepairKeeps DEF GatesShape, Underway, OnMain
<1>3. CASE UNCHANGED gateVars
    <2>1. order' = order /\ code' = code
        BY <1>3 DEF gateVars
    <2>2. GatesShape'
        BY <1>3 DEF GatesShape, gateVars, Ops, Modules
    <2>3. PassedInv'
        BY <1>3, <2>1, CodeStays DEF PassedInv, gateVars
    <2>4. RepairInv'
        <3>1. Satisfiable' = Satisfiable /\ Torn' = Torn /\ Garbled' = Garbled /\ StartWrong' = StartWrong
            BY <2>1, OrderStays
        <3>2. \A i : Cases(i)' = Cases(i) /\ Start(i)' = Start(i) /\ Right(i)' = Right(i)
            BY <2>1, OrderStays, CodeStays
        <3>3. Moved' = Moved /\ MadeRight' = MadeRight /\ FailingVectors' = FailingVectors
            BY <2>1, CodeStays
        <3> QED
            BY <1>3, <3>1, <3>2, <3>3 DEF RepairInv, gateVars
    <2> QED
        BY <2>2, <2>3, <2>4
<1>4. CASE GenerateCode
    <2>1. phase = "generate" /\ repairs = 0 /\ verdict = "none" /\ why = "none"
          /\ UNCHANGED <<order, repairs, measured, advice, verdict>>
        BY <1>1, <1>4 DEF GenerateCode, GatesShape
    <2>2. PICK c \in IF order.engine = "template" THEN {Template} ELSE Modules :
              IF "forbidden" \in c.has
              THEN code' = c /\ phase' = "blocked" /\ why' = "static analysis"
              ELSE /\ code' = Faulty(c)
                   /\ \/ order.budget >= 0 /\ phase' = "test" /\ why' = why
                      \/ order.budget < 0 /\ c.exact /\ phase' = "bench" /\ why' = why
                      \/ phase' = "blocked" /\ why' = "contract mismatch"
        <3>1. PICK c \in IF order.engine = "template" THEN {Template} ELSE Modules :
                  IF "forbidden" \in c.has
                  THEN code' = c /\ Block("static analysis")
                  ELSE /\ code' = Faulty(c)
                       /\ IF order.budget < 0 THEN CheckContract(c)
                          ELSE phase' = "test" /\ UNCHANGED why
            BY <1>4 DEF GenerateCode
        <3>2. CASE "forbidden" \in c.has
            BY <3>1, <3>2 DEF Block
        <3>3. CASE "forbidden" \notin c.has
            <4>1. /\ code' = Faulty(c)
                  /\ order.budget < 0 => CheckContract(c)
                  /\ ~(order.budget < 0) => phase' = "test" /\ why' = why
                BY <3>1, <3>3
            <4>2. CheckContract(c) => \/ c.exact /\ phase' = "bench" /\ why' = why
                                      \/ phase' = "blocked" /\ why' = "contract mismatch"
                BY DEF CheckContract, Block
            <4>3. order.budget < 0 \/ order.budget >= 0
                BY <1>1
            <4>4. \/ order.budget >= 0 /\ phase' = "test" /\ why' = why
                  \/ order.budget < 0 /\ c.exact /\ phase' = "bench" /\ why' = why
                  \/ phase' = "blocked" /\ why' = "contract mismatch"
                BY <4>1, <4>2, <4>3
            <4> QED
                BY <3>1, <3>3, <4>1, <4>4, Zenon
        <3> QED
            BY <3>2, <3>3
    <2>3. c \in Modules /\ Faulty(c) \in Modules /\ Faulty(c).has = c.has
          /\ Faulty(c).exact = c.exact /\ Modules' = Modules
        <3>1. Template \in Modules
            BY <1>1, FaultyFits, ModulesExist
        <3>2. c \in Modules
            BY <2>2, <3>1
        <3> QED
            BY <1>1, <2>1, <3>2, FaultyFits DEF Modules
    <2>4. CASE "forbidden" \in c.has
        <3>1. phase' = "blocked" /\ why' = "static analysis"
            BY <2>2, <2>4
        <3> QED
            BY <1>1, <2>1, <3>1 DEF GatesShape, PassedInv, RepairInv, Underway, OnMain
    <2>5. CASE "forbidden" \notin c.has
        <3>1. /\ code' = Faulty(c) /\ code'.exact = c.exact /\ "forbidden" \notin code'.has
              /\ \/ phase' = "test" /\ why' = "none"
                 \/ order.budget < 0 /\ c.exact /\ phase' = "bench" /\ why' = "none"
                 \/ phase' = "blocked" /\ why' = "contract mismatch"
            BY <2>1, <2>2, <2>3, <2>5
        <3>2. GatesShape' /\ PassedInv'
            BY <1>1, <2>1, <2>3, <3>1 DEF GatesShape, PassedInv, Underway, OnMain
        <3>3. order.engine = "template" => Moved' = {}
            <4>1. order.engine = "template" => code' = Faulty(Template)
                BY <2>2, <3>1
            <4>2. order' = order /\ Ops' = Ops /\ \A i : Start(i)' = Start(i)
                BY <2>1, OrderStays
            <4>3. order.engine = "template" => \A i \in Ops' : code'.sym[i] = Start(i)'
                BY <4>1, <4>2 DEF Start
            <4> QED
                BY <4>3 DEF Moved
        <3>4. order.engine = "template" => MadeRight' = {}
            BY <3>3 DEF MadeRight
        <3>5. repairs' = 0 /\ Cardinality({}) = 0
            BY <2>1, FS_EmptySet
        <3>6. order.engine = "template" => repairs' <= Cardinality(Moved') + Cardinality(MadeRight')
            <4> SUFFICES ASSUME order.engine = "template"
                         PROVE  repairs' <= Cardinality(Moved') + Cardinality(MadeRight')
                OBVIOUS
            <4>1. Cardinality(Moved') = 0 /\ Cardinality(MadeRight') = 0
                BY <3>3, <3>4, <3>5
            <4> QED
                BY <3>5, <4>1
        <3>7. order' = order
            BY <2>1
        <3>8. RepairInv'
            BY <3>1, <3>3, <3>6, <3>7 DEF RepairInv
        <3> QED
            BY <3>2, <3>8
    <2> QED
        BY <2>4, <2>5
<1>5. CASE PipelineRaises
    <2>1. phase' = "raised" /\ phase # "blocked" /\ why' = "none"
          /\ UNCHANGED <<order, code, repairs, verdict>>
        BY <1>1, <1>5 DEF PipelineRaises, OnMain
    <2>2. phase \in {"generate", "repair", "test", "bench", "approved"}
        BY <1>5 DEF PipelineRaises
    <2>3. PassedInv'
        BY <2>1, <2>2 DEF PassedInv, Underway, OnMain
    <2> QED
        BY <1>1, <2>1, <2>3 DEF GatesShape, RepairInv, Underway, OnMain
<1>6. CASE TestsPass
    <2>1. phase = "test" /\ FailingVectors = {} /\ verdict = "none" /\ why = "none"
          /\ UNCHANGED <<order, code, repairs, measured, advice, verdict>>
          /\ \/ code.exact /\ phase' = "bench" /\ why' = why
             \/ phase' = "blocked" /\ why' = "contract mismatch"
        BY <1>1, <1>6 DEF TestsPass, CheckContract, Block, PassedInv, OnMain
    <2>2. GatesShape' /\ RepairInv' /\ FailingVectors' = FailingVectors
        BY <1>2, <2>1 DEF Underway, OnMain
    <2>3. phase \in Underway /\ phase' \in {"bench", "blocked"}
        BY <2>1 DEF Underway
    <2>4. PassedInv'
        BY <2>1, <2>2, <2>3 DEF PassedInv, OnMain
    <2> QED
        BY <2>2, <2>4
<1>7. CASE TestsFail
    <2>1. phase = "test" /\ verdict = "none" /\ why = "none"
          /\ UNCHANGED <<order, code, repairs, measured, advice, verdict>>
          /\ \/ repairs >= order.budget /\ phase' = "blocked" /\ why' = "repair budget exhausted"
             \/ phase' = "blocked" /\ why' = "unparseable failure"
             \/ phase' = "repair" /\ why' = why /\ FailingVectors # {}
        <3>1. phase = "test" /\ UNCHANGED <<order, code, repairs, measured, advice, verdict>>
            BY <1>7 DEF TestsFail
        <3>2. \/ repairs >= order.budget /\ phase' = "blocked" /\ why' = "repair budget exhausted"
              \/ phase' = "blocked" /\ why' = "unparseable failure"
              \/ phase' = "repair" /\ why' = why /\ FailingVectors # {}
            BY <1>7 DEF TestsFail, Block
        <3>3. verdict = "none" /\ why = "none"
            BY <1>1, <3>1 DEF PassedInv, OnMain
        <3> QED
            BY <3>1, <3>2, <3>3
    <2>2. GatesShape' /\ RepairInv' /\ FailingVectors' = FailingVectors
        BY <1>2, <2>1 DEF Underway, OnMain
    <2>3. PassedInv'
        BY <2>1, <2>2 DEF PassedInv, Underway, OnMain
    <2> QED
        BY <2>2, <2>3
<1>8. CASE RepairTemplate
    <2>1. PICK v \in Readable : \E s \in Fixes(v) : code' = [code EXCEPT !.sym[v.op] = s]
        BY <1>8 DEF RepairTemplate, Repaired
    <2>0. PICK s \in Fixes(v) : code' = [code EXCEPT !.sym[v.op] = s]
        BY <2>1
    <2>2. phase = "repair" /\ order.engine = "template" /\ repairs' = repairs + 1
          /\ phase' = "test" /\ UNCHANGED <<order, measured, advice, verdict, why>>
        BY <1>8 DEF RepairTemplate, Repaired
    <2>7. why = "none" /\ verdict = "none"
        BY <1>1, <2>2 DEF PassedInv, OnMain
    <2>4. /\ code' \in Modules /\ code'.has = code.has /\ Modules' = Modules
        <3> DEFINE z == [code.sym EXCEPT ![v.op] = s]
        <3>1. code \in Modules /\ s \in Symbol
            BY <2>2 DEF GatesShape, Underway, Fixes
        <3>2. z \in [DOMAIN order.ops -> Symbol]
            BY <3>1 DEF Modules
        <3>3. code' = [code EXCEPT !.sym = z]
            BY <2>0, <3>1 DEF Modules
        <3> HIDE DEF z
        <3> QED
            BY <2>2, <3>1, <3>2, <3>3 DEF Modules
    <2>8. GatesShape'
        BY <1>1, <2>2, <2>4, <2>7 DEF GatesShape, Underway
    <2>9. phase' = "test" /\ verdict' = "none" /\ code'.has = code.has /\ order' = order
        BY <2>2, <2>4, <2>7
    <2>10. "forbidden" \notin code.has
        BY <2>2 DEF PassedInv, Underway
    <2>11. "forbidden" \notin code'.has
        BY <2>9, <2>10
    <2>12. PassedInv'
        BY <2>9, <2>11 DEF PassedInv, OnMain
    <2>5. GatesShape' /\ PassedInv'
        BY <2>8, <2>12
    <2>6. RepairInv'
        <3> SUFFICES ASSUME Satisfiable, Torn = {}, Garbled = {} PROVE RepairInv'
            <4>1. /\ Satisfiable' = Satisfiable /\ Torn' = Torn /\ Garbled' = Garbled
                  /\ why' = "none"
                BY <2>2, <2>7, OrderStays
            <4> QED
                BY <4>1 DEF RepairInv
        <3>1. repairs <= Cardinality(Moved) + Cardinality(MadeRight)
            BY <2>2 DEF RepairInv, Underway
        <3>2. /\ Cardinality(Moved) + Cardinality(MadeRight) + 1
                     <= Cardinality(Moved') + Cardinality(MadeRight')
              /\ \A i \in Moved' :
                    /\ i \in StartWrong
                    /\ \/ Right(i)'
                       \/ \E c \in Cases(i) : Guess(c) = {code'.sym[i]} /\ ~Fits(Start(i), c)
            BY <2>0, <2>2, RepairCounts DEF Underway
        <3>3. /\ Cardinality(Moved) \in Nat /\ Cardinality(MadeRight) \in Nat
              /\ Cardinality(Moved') \in Nat /\ Cardinality(MadeRight') \in Nat
            <4>1. IsFiniteSet(Ops) /\ IsFiniteSet(Ops')
                BY <1>1, <2>2, OpsFinite, OrderStays
            <4>2. Moved \subseteq Ops /\ Moved' \subseteq Ops' /\ MadeRight \subseteq Ops /\ MadeRight' \subseteq Ops'
                BY DEF Moved, MadeRight
            <4> QED
                BY <4>1, <4>2, FS_Subset, FS_CardinalityType
        <3>4. repairs' <= Cardinality(Moved') + Cardinality(MadeRight')
            BY <1>1, <2>2, <3>1, <3>2, <3>3
        <3>5. \A i : Cases(i)' = Cases(i) /\ Start(i)' = Start(i)
            BY <2>2, OrderStays
        <3>6. StartWrong' = StartWrong
            BY <2>2, OrderStays
        <3>7. \A j \in Moved' :
                  /\ j \in StartWrong'
                  /\ \/ Right(j)'
                     \/ \E c \in Cases(j)' : Guess(c) = {code'.sym[j]} /\ ~Fits(Start(j)', c)
            BY <3>2, <3>5, <3>6
        <3>8. why' = "none"
            BY <2>2, <2>7
        <3> QED
            BY <3>4, <3>7, <3>8 DEF RepairInv
    <2> QED
        BY <2>5, <2>6
<1>9. CASE RepairByModel
    <2>1. PICK c \in Modules : Repaired(c)
        BY <1>9 DEF RepairByModel
    <2>2. phase = "repair" /\ order.engine = "llm" /\ code' = c /\ repairs' = repairs + 1
          /\ phase' = "test" /\ UNCHANGED <<order, measured, advice, verdict, why>>
        BY <1>9, <2>1 DEF RepairByModel, Repaired
    <2>0. why = "none" /\ verdict = "none"
        BY <1>1, <2>2 DEF PassedInv, OnMain
    <2>3. Modules' = Modules
        BY <2>2 DEF Modules
    <2>4. order'.engine # "template"
        BY <2>2
    <2>5. GatesShape'
        BY <1>1, <2>0, <2>1, <2>2, <2>3 DEF GatesShape, Underway
    <2>6. PassedInv'
        BY <1>1, <2>0, <2>2, <2>3 DEF PassedInv, GatesShape, Underway, OnMain
    <2>7. RepairInv'
        BY <2>4 DEF RepairInv
    <2> QED
        BY <2>5, <2>6, <2>7
<1>10. CASE RepairGivesUp
    <2>1. phase = "repair" /\ phase' = "blocked" /\ why' = "no repair"
          /\ UNCHANGED <<order, code, repairs, measured, advice, verdict>>
          /\ verdict = "none" /\ FailingVectors # {}
        BY <1>10 DEF RepairGivesUp, Block, PassedInv, OnMain
    <2>2. order.engine = "template" /\ Satisfiable => FailingVectors \cap Garbled # {}
        <3> SUFFICES ASSUME order.engine = "template", Satisfiable, FailingVectors \cap Garbled = {}
                     PROVE  FALSE
            OBVIOUS
        <3>1. PICK v \in FailingVectors : Earliest(v, FailingVectors)
            BY <1>1, <2>1, EarliestExists
        <3>2. v.op \in DOMAIN order.ops /\ CaseOf(v) \in Cases(v.op)
            BY DEF FailingVectors, Vectors, Cases
        <3>3. PICK s \in Symbol : Fits(s, CaseOf(v))
            BY <3>2 DEF Satisfiable
        <3>4. PICK g \in Guess(CaseOf(v)) : Fits(g, CaseOf(v))
            BY <3>3 DEF Guess, Symbol
        <3>5. v \in Readable /\ Fixes(v) = Guess(CaseOf(v)) \ {code.sym[v.op]}
            BY <1>1, <3>1, FixesOfOne
        <3>6. Fixes(v) = {}
            BY <1>10, <3>5 DEF RepairGivesUp
        <3>7. ~Fits(code.sym[v.op], CaseOf(v))
            BY DEF FailingVectors
        <3> QED
            BY <3>4, <3>5, <3>6, <3>7
    <2>3. FailingVectors' = FailingVectors /\ Garbled' = Garbled /\ Satisfiable' = Satisfiable
        BY <2>1, CodeStays, OrderStays
    <2>4. RepairInv'
        BY <2>1, <2>2, <2>3 DEF RepairInv, Underway, OnMain
    <2>5. PassedInv'
        BY <2>1 DEF PassedInv, Underway, OnMain
    <2> QED
        BY <1>1, <2>1, <2>4, <2>5 DEF GatesShape, Underway, OnMain
<1>11. CASE RunBenchmark
    <2>1. phase = "bench" /\ verdict = "none" /\ why = "none"
          /\ UNCHANGED <<order, code, repairs, advice, verdict>>
          /\ \/ phase' = "blocked" /\ why' = "benchmark budget exceeded"
             \/ phase' = "review" /\ why' = why /\ measured' # "slow"
        BY <1>1, <1>11 DEF RunBenchmark, Block, PassedInv, OnMain
    <2>2. GatesShape' /\ RepairInv' /\ FailingVectors' = FailingVectors
        BY <1>2, <2>1 DEF Underway, OnMain
    <2>3. PassedInv'
        BY <2>1, <2>2 DEF PassedInv, Underway, OnMain
    <2> QED
        BY <2>2, <2>3
<1>12. CASE Review
    <2>1. phase = "review" /\ why = "none" /\ verdict' = MergedVerdict(advice')
          /\ UNCHANGED <<order, code, repairs, measured>>
          /\ \/ verdict' = "APPROVE" /\ phase' = "approved" /\ why' = why
             \/ phase' = "blocked" /\ why' = "review"
        BY <1>1, <1>12 DEF Review, Block
    <2>2. GatesShape' /\ RepairInv' /\ FailingVectors' = FailingVectors
        BY <1>2, <2>1 DEF Underway, OnMain
    <2>3. /\ verdict' = "BLOCK" <=> "secret" \in code.has
          /\ verdict' = "APPROVE" => code.has \cap {"secret", "log"} = {}
        <3>1. verdict' \in {BaseVerdict, "REQUEST_CHANGES"} /\ (verdict' # BaseVerdict => BaseVerdict = "APPROVE")
            BY <2>1 DEF MergedVerdict
        <3>2. BaseVerdict = "BLOCK" <=> "secret" \in code.has
            BY VerdictOfTraits
        <3>3. BaseVerdict = "APPROVE" => code.has \cap {"secret", "log"} = {}
            BY VerdictOfTraits
        <3> QED
            BY <3>1, <3>2, <3>3
    <2>4. PassedInv'
        BY <2>1, <2>2, <2>3 DEF PassedInv, Underway, OnMain
    <2> QED
        BY <2>2, <2>4
<1>13. CASE Merge \/ VerifyOnMain
    <2>1. /\ phase \in {"approved", "merged"} /\ phase' \in OnMain /\ why = "none"
          /\ UNCHANGED <<order, code, repairs, measured, advice, verdict, why>>
          /\ phase' = "delivered" => FailingVectors = {}
        BY <1>1, <1>13 DEF Merge, VerifyOnMain, OnMain
    <2>2. GatesShape' /\ RepairInv' /\ FailingVectors' = FailingVectors
        BY <1>2, <2>1 DEF Underway, OnMain
    <2>3. PassedInv'
        BY <2>1, <2>2 DEF PassedInv, Underway, OnMain
    <2> QED
        BY <2>2, <2>3
<1> QED
    BY <1>3, <1>4, <1>5, <1>6, <1>7, <1>8, <1>9, <1>10, <1>11, <1>12, <1>13 DEF GatesNext

\* What is merged passed every gate, and what is given up was too much.
LEMMA GatesInvSound == GatesInv => ChangeSound
<1> SUFFICES ASSUME GatesInv PROVE ChangeSound
    OBVIOUS
<1>1. ASSUME order.engine = "template", Satisfiable, Torn = {}, Garbled = {},
             FailingVectors # {}, why = "repair budget exhausted"
      PROVE  Cardinality(StartWrong) + Cardinality(Doubtful) > order.budget
    <2>1. /\ repairs >= order.budget /\ repairs <= Cardinality(Moved) + Cardinality(MadeRight)
          /\ \A i \in Moved :
                /\ i \in StartWrong
                /\ \/ Right(i)
                   \/ \E c \in Cases(i) : Guess(c) = {code.sym[i]} /\ ~Fits(Start(i), c)
        BY <1>1 DEF GatesInv, RepairInv
    <2>2. PICK v \in FailingVectors : TRUE
        BY <1>1
    <2> DEFINE i == v.op
    <2>3. i \in Ops /\ CaseOf(v) \in Cases(i) /\ ~Fits(code.sym[i], CaseOf(v)) /\ ~Right(i)
        BY DEF FailingVectors, Vectors, Cases, Ops, Right
    <2>4. /\ order \in Orders /\ code \in Modules
        BY <1>1 DEF GatesInv, GatesShape
    <2>5. Moved \subseteq StartWrong /\ MadeRight \subseteq Doubtful /\ i \notin MadeRight
        BY <2>1, <2>3 DEF MadeRight
    <2>6. IsFiniteSet(StartWrong) /\ IsFiniteSet(Doubtful)
        <3>1. StartWrong \subseteq Ops /\ Doubtful \subseteq Ops
            BY DEF StartWrong, Doubtful, Ops
        <3> QED
            BY <2>4, <3>1, OpsFinite, FS_Subset
    <2>7. /\ Cardinality(Moved) \in Nat /\ Cardinality(MadeRight) \in Nat
          /\ Cardinality(StartWrong) \in Nat /\ Cardinality(Doubtful) \in Nat
          /\ Cardinality(Moved) <= Cardinality(StartWrong)
          /\ Cardinality(MadeRight) <= Cardinality(Doubtful)
        <3>1. IsFiniteSet(Moved) /\ Cardinality(Moved) <= Cardinality(StartWrong)
            BY <2>5, <2>6, FS_Subset
        <3>2. IsFiniteSet(MadeRight) /\ Cardinality(MadeRight) <= Cardinality(Doubtful)
            BY <2>5, <2>6, FS_Subset
        <3>3. Cardinality(Moved) \in Nat /\ Cardinality(MadeRight) \in Nat
            BY <3>1, <3>2, FS_CardinalityType
        <3>4. Cardinality(StartWrong) \in Nat /\ Cardinality(Doubtful) \in Nat
            BY <2>6, FS_CardinalityType
        <3> QED
            BY <3>1, <3>2, <3>3, <3>4
    <2>8. order.budget \in Int /\ repairs \in Nat
        BY GatesAssumption DEF GatesInv, GatesShape
    <2>9. CASE i \notin Moved
        <3>1. i \in StartWrong
            BY <2>3, <2>9 DEF Moved, StartWrong, Start, Ops
        <3>2. Moved # StartWrong
            BY <2>9, <3>1
        <3>3. Cardinality(Moved) < Cardinality(StartWrong)
            BY <2>5, <2>6, <2>7, <3>2, FS_Subset
        <3> QED
            BY <2>1, <2>7, <2>8, <3>3
    <2>10. CASE i \in Moved
        <3>1. PICK c \in Cases(i) : Guess(c) = {code.sym[i]}
            BY <2>1, <2>3, <2>10
        <3>2. PICK a \in Symbol : \A d \in Cases(i) : Fits(a, d)
            BY <1>1, <2>3 DEF Satisfiable, Ops
        <3>3. /\ a # code.sym[i] /\ Fits(a, c) /\ Fits(code.sym[i], c) /\ code.sym[i] \in Symbol
            BY <2>3, <3>1, <3>2 DEF Guess, Symbol
        <3>4. i \in Doubtful
            BY <2>3, <3>2, <3>3 DEF Doubtful, Ops
        <3>5. Cardinality(MadeRight) < Cardinality(Doubtful)
            BY <2>5, <2>6, <2>7, <3>4, FS_Subset
        <3> QED
            BY <2>1, <2>7, <2>8, <3>5
    <2> QED
        BY <2>9, <2>10
<1> QED
    BY <1>1 DEF ChangeSound, GatesInv, PassedInv, RepairInv, Underway, OnMain

-----------------------------------------------------------------------------
(* WorkGraph: the order in a level makes no difference.                     *)

Results == {"completed", "skipped", "blocked"}
NodeStates == Results \cup {"unseen", "running"}

\* The result of a node whose dependencies came to w.
Judged(w, n) ==
    IF \E d \in After(n) : w[d] = "blocked" THEN "blocked"
    ELSE IF n \in plan.unmet \/ \E d \in After(n) : w[d] = "skipped" THEN "skipped"
    ELSE IF n \in plan.fails THEN "blocked" ELSE "completed"

\* What is entered is what the results say; the skipped nodes of a level are
\* entered at its end, those with a skipped dependency at its start.
GraphInv ==
    /\ level \subseteq visited /\ visited \subseteq GraphNode
    /\ state \in [GraphNode -> NodeStates]
    /\ plan.after \in [GraphNode -> SUBSET (GraphNode \cup {Dangling})]
    /\ WholeGraph =>
          /\ \A n \in visited : After(n) \subseteq visited \ level
          /\ \A n \in GraphNode : /\ n \in visited <=> state[n] # "unseen"
                                  /\ state[n] = "running" => n \in level \ plan.unmet
          /\ barred = {n \in GraphNode : state[n] = "blocked"}
          /\ {n \in visited \ level : state[n] = "skipped"} \subseteq passed
          /\ passed \subseteq {n \in GraphNode : state[n] = "skipped"}
          /\ OrderFree

\* A graph without cycles has a node that waits for no other of a set.
LEMMA SomeFirst ==
    ASSUME WholeGraph, NEW S \in SUBSET GraphNode, S # {},
           plan.after \in [GraphNode -> SUBSET (GraphNode \cup {Dangling})]
    PROVE  \E n \in S : After(n) \cap S = {} /\ After(n) \subseteq GraphNode \ S
<1>1. PICK n \in S : After(n) \cap S = {}
    BY DEF WholeGraph, Cyclic
<1>2. After(n) \subseteq GraphNode
    BY DEF WholeGraph, After
<1> QED
    BY <1>1, <1>2

\* The steps of Verdict: what is known from what was known.
Verdict1(w) == [n \in GraphNode |-> IF \E d \in After(n) : w[d] = "unseen" THEN "unseen"
                                    ELSE Judged(w, n)]

\* The rounds of the verdict exist, and the last is the verdict.
LEMMA VerdictGrows ==
    ASSUME plan.after \in [GraphNode -> SUBSET (GraphNode \cup {Dangling})], WholeGraph
    PROVE  \E f \in [0..NNodes -> [GraphNode -> NodeStates]] :
              /\ f[0] = [n \in GraphNode |-> "unseen"]
              /\ \A k \in 1..NNodes : f[k] = Verdict1(f[k - 1])
              /\ Verdict = f[NNodes]
<1>n. NNodes \in Nat
    BY WorkGraphAssumption
<1> USE <1>n
<1> DEFINE V == [GraphNode -> NodeStates]
           v == [n \in GraphNode |-> "unseen"]
           G == [k \in 1..NNodes |-> [w \in V |-> Verdict1(w)]]
           Body(g) == [k \in 0..NNodes |->
                          IF k = 0 THEN [n \in GraphNode |-> "unseen"]
                          ELSE [n \in GraphNode |->
                IF \E d \in plan.after[n] : g[k - 1][d] = "unseen" THEN "unseen"
                ELSE IF \E d \in plan.after[n] : g[k - 1][d] = "blocked" THEN "blocked"
                ELSE IF \/ n \in plan.unmet
                        \/ \E d \in plan.after[n] : g[k - 1][d] = "skipped" THEN "skipped"
                ELSE IF n \in plan.fails THEN "blocked" ELSE "completed"]]
           h == CHOOSE g : g = Body(g)
<1>1. \A w \in V : Verdict1(w) \in V
    BY DEF Verdict1, Judged, NodeStates, Results
<1>2. v \in V /\ G \in [1..NNodes -> [V -> V]]
    BY <1>1 DEF NodeStates
<1>3. PICK f \in [0..NNodes -> V] : f[0] = v /\ \A k \in 1..NNodes : f[k] = G[k][f[k - 1]]
    <2> HIDE DEF V, v, G
    <2>1. \E f \in [0..NNodes -> V] : Iterates(NNodes, v, G, f)
        BY <1>2, Recursion
    <2> QED
        BY <2>1 DEF Iterates
<1>4. \A g : \A k \in 1..NNodes : Body(g)[k] = Verdict1(g[k - 1])
    BY DEF Verdict1, Judged, After
<1>5. \A g : Body(g)[0] = v
    OBVIOUS
<1>6. \A g : Body(g) = [k \in 0..NNodes |-> Body(g)[k]]
    OBVIOUS
<1>7. Verdict = h[NNodes]
    BY DEF Verdict
<1> HIDE DEF Body, Verdict1
<1>8. ASSUME NEW k \in 1..NNodes PROVE f[k] = Verdict1(f[k - 1])
    <2>1. k - 1 \in 0..NNodes
        OBVIOUS
    <2>2. f[k - 1] \in V
        BY <2>1
    <2>3. G[k][f[k - 1]] = Verdict1(f[k - 1])
        BY <2>2
    <2> QED
        BY <1>3, <2>3
<1>9. \A k \in 0..NNodes : Body(f)[k] = f[k]
    <2>1. \A k \in 0..NNodes : k = 0 \/ k \in 1..NNodes
        OBVIOUS
    <2> QED
        BY <1>3, <1>4, <1>5, <1>8, <2>1
<1>10. f = Body(f)
    BY <1>3, <1>6, <1>9
<1>11. h = Body(h)
    BY <1>10
<1> HIDE DEF h
<1>12. \A k \in 1..NNodes : h[k] = Verdict1(h[k - 1])
    BY <1>4, <1>11
<1>13. h[0] = v
    BY <1>5, <1>11
<1>14. h \in [0..NNodes -> V]
    <2> DEFINE S == {k \in 0..NNodes : h[k] \in V}
    <2>1. 0 \in S
        BY <1>2, <1>13
    <2>2. ASSUME NEW k \in 1..NNodes, k - 1 \in S PROVE k \in S
        <3>1. h[k - 1] \in V
            BY <2>2
        <3>2. Verdict1(h[k - 1]) \in V
            BY <1>1, <3>1
        <3> QED
            BY <1>12, <3>2
    <2>3. \A k \in 0..NNodes : k \in S
        <3> HIDE DEF S
        <3>1. \A k \in 1..NNodes : k - 1 \in S => k \in S
            BY <2>2
        <3> QED
            BY <2>1, <3>1, UpTo
    <2>4. h = [k \in 0..NNodes |-> h[k]]
        BY <1>6, <1>11
    <2>5. \A k \in 0..NNodes : h[k] \in V
        BY <2>3
    <2> HIDE DEF V, S
    <2> QED
        BY <2>4, <2>5
<1> QED
    BY <1>7, <1>12, <1>13, <1>14

\* On a whole graph the definition says of every node what its dependencies make it.
LEMMA VerdictFixed ==
    ASSUME plan.after \in [GraphNode -> SUBSET (GraphNode \cup {Dangling})], WholeGraph
    PROVE  \A n \in GraphNode : Verdict[n] \in Results /\ Verdict[n] = Judged(Verdict, n)
<1>n. NNodes \in Nat
    BY WorkGraphAssumption
<1> USE <1>n
<1>1. PICK f \in [0..NNodes -> [GraphNode -> NodeStates]] :
              /\ f[0] = [n \in GraphNode |-> "unseen"]
              /\ \A k \in 1..NNodes : f[k] = Verdict1(f[k - 1])
              /\ Verdict = f[NNodes]
    BY VerdictGrows
<1> DEFINE Known(k) == {n \in GraphNode : f[k][n] # "unseen"}
           Grew(k) == \A n \in Known(k - 1) : f[k][n] = f[k - 1][n]
<1>0. \A n \in GraphNode : After(n) \subseteq GraphNode
    BY DEF WholeGraph, After
<1>2. ASSUME NEW k \in 1..NNodes, NEW n \in GraphNode
      PROVE  /\ n \in Known(k) <=> After(n) \subseteq Known(k - 1)
             /\ n \in Known(k) => f[k][n] = Judged(f[k - 1], n)
    <2>1. f[k][n] = IF \E d \in After(n) : f[k - 1][d] = "unseen" THEN "unseen"
                    ELSE Judged(f[k - 1], n)
        BY <1>1 DEF Verdict1
    <2>2. Judged(f[k - 1], n) # "unseen"
        BY DEF Judged
    <2> QED
        BY <1>0, <2>1, <2>2
<1>3. \A k \in 1..NNodes : Grew(k)
    <2> DEFINE S == {k \in 0..NNodes : k = 0 \/ Grew(k)}
    <2>1. 0 \in S
        OBVIOUS
    <2>2. ASSUME NEW k \in 1..NNodes, k - 1 \in S PROVE k \in S
        <3>1. CASE k = 1
            BY <1>1, <3>1
        <3>2. CASE k # 1
            <4>1. k - 1 \in 1..NNodes /\ Grew(k - 1)
                BY <2>2, <3>2
            <4>2. ASSUME NEW n \in Known(k - 1) PROVE f[k][n] = f[k - 1][n]
                <5>1. After(n) \subseteq Known(k - 1 - 1) /\ f[k - 1][n] = Judged(f[k - 1 - 1], n)
                    BY <1>2, <4>1
                <5>2. \A d \in After(n) : f[k - 1][d] = f[k - 1 - 1][d]
                    BY <4>1, <5>1
                <5>3. After(n) \subseteq Known(k - 1)
                    BY <1>0, <5>1, <5>2
                <5>4. f[k][n] = Judged(f[k - 1], n)
                    BY <1>2, <5>3
                <5> QED
                    BY <5>1, <5>2, <5>4 DEF Judged
            <4>3. Grew(k)
                BY <4>2
            <4> HIDE DEF Grew
            <4> QED
                BY <4>3
        <3> QED
            BY <3>1, <3>2
    <2>3. \A k \in 0..NNodes : k \in S
        <3> HIDE DEF S
        <3>1. \A k \in 1..NNodes : k - 1 \in S => k \in S
            BY <2>2
        <3> QED
            BY <2>1, <3>1, UpTo
    <2> HIDE DEF Grew
    <2> QED
        BY <2>3
<1>4. \A k \in 0..NNodes : Known(k) \subseteq GraphNode /\ IsFiniteSet(Known(k))
                           /\ Cardinality(Known(k)) \in Nat
    <2>1. IsFiniteSet(GraphNode)
        BY FS_Interval DEF GraphNode
    <2>2. \A k \in 0..NNodes : IsFiniteSet(Known(k))
        BY <2>1, FS_Subset
    <2> QED
        BY <2>2, FS_CardinalityType
<1>5. \A k \in 0..NNodes : Known(k) = GraphNode \/ k <= Cardinality(Known(k))
    <2> DEFINE S == {k \in 0..NNodes : Known(k) = GraphNode \/ k <= Cardinality(Known(k))}
    <2>1. 0 \in S
        <3>1. Cardinality(Known(0)) \in Nat
            <4> HIDE DEF Known
            <4> QED
                BY <1>4
        <3> QED
            BY <3>1
    <2>2. ASSUME NEW k \in 1..NNodes, k - 1 \in S PROVE k \in S
        <3>1. Known(k - 1) \subseteq Known(k)
            BY <1>3
        <3>2. CASE Known(k - 1) = GraphNode
            BY <3>1, <3>2
        <3>3. CASE Known(k - 1) # GraphNode
            <4>1. PICK n \in GraphNode \ Known(k - 1) :
                      After(n) \subseteq GraphNode \ (GraphNode \ Known(k - 1))
                BY <3>3, SomeFirst, ZenonT(40)
            <4>2. n \in Known(k)
                BY <1>2, <4>1
            <4>3. Cardinality(Known(k - 1)) < Cardinality(Known(k))
                <5>1. Known(k - 1) # Known(k)
                    BY <4>1, <4>2
                <5> HIDE DEF Known
                <5>2. IsFiniteSet(Known(k))
                    BY <1>4
                <5>3. /\ Cardinality(Known(k - 1)) <= Cardinality(Known(k))
                      /\ Cardinality(Known(k - 1)) = Cardinality(Known(k)) => Known(k - 1) = Known(k)
                    BY <3>1, <5>2, FS_Subset
                <5>4. Cardinality(Known(k - 1)) \in Nat /\ Cardinality(Known(k)) \in Nat
                    BY <1>4
                <5> QED
                    BY <5>1, <5>3, <5>4
            <4>4. k - 1 <= Cardinality(Known(k - 1))
                BY <2>2, <3>3
            <4> HIDE DEF Known
            <4>5. Cardinality(Known(k - 1)) \in Nat /\ Cardinality(Known(k)) \in Nat
                BY <1>4
            <4> QED
                BY <4>3, <4>4, <4>5
        <3> QED
            BY <3>2, <3>3
    <2>3. \A k \in 0..NNodes : k \in S
        <3> HIDE DEF S
        <3>1. \A k \in 1..NNodes : k - 1 \in S => k \in S
            BY <2>2
        <3> QED
            BY <2>1, <3>1, UpTo
    <2> HIDE DEF Known
    <2> QED
        BY <2>3
<1>6. Known(NNodes) = GraphNode
    <2>1. IsFiniteSet(GraphNode) /\ Cardinality(GraphNode) = NNodes
        BY FS_Interval DEF GraphNode
    <2> HIDE DEF Known
    <2>2. Known(NNodes) \subseteq GraphNode /\ Cardinality(Known(NNodes)) \in Nat
        BY <1>4
    <2>3. Known(NNodes) = GraphNode \/ NNodes <= Cardinality(Known(NNodes))
        BY <1>5
    <2> QED
        BY <2>1, <2>2, <2>3, FS_Subset
<1>7. SUFFICES ASSUME NEW n \in GraphNode
               PROVE  f[NNodes][n] \in Results /\ f[NNodes][n] = Judged(f[NNodes], n)
    BY <1>1
<1>8. NNodes \in 1..NNodes /\ n \in Known(NNodes)
    BY <1>6 DEF GraphNode
<1>9. After(n) \subseteq Known(NNodes - 1) /\ f[NNodes][n] = Judged(f[NNodes - 1], n)
    BY <1>2, <1>8
<1>10. \A d \in After(n) : f[NNodes][d] = f[NNodes - 1][d]
    BY <1>3, <1>8, <1>9
<1> QED
    BY <1>9, <1>10 DEF Judged, Results

\* g is the sweep in roster order from B over the nodes T that wait for A.
Sweeps(n, B, A, T, g) ==
    /\ g[0] = B
    /\ \A k \in 1..n : g[k] = IF k \in T /\ A[k] \cap g[k - 1] # {}
                              THEN g[k - 1] \cup {k} ELSE g[k - 1]

\* There is one, and if no node waits for another of them, it comes to what each
\* makes of the nodes before the sweep.
LEMMA SweepIs ==
    ASSUME NEW n \in Nat, NEW B, NEW A, NEW T \in SUBSET (1..n), \A i \in T : A[i] \cap T = {}
    PROVE  /\ \E g \in [0..n -> SUBSET (B \cup T)] : Sweeps(n, B, A, T, g)
           /\ \A g : Sweeps(n, B, A, T, g) =>
                 \A i : i \in g[n] <=> i \in B \/ (i \in T /\ A[i] \cap B # {})
<1> DEFINE Sum(k) == B \cup {i \in T : i <= k /\ A[i] \cap B # {}}
           f == [k \in 0..n |-> Sum(k)]
<1>0. \A i \in T : i \in Nat /\ ~(i <= 0) /\ i <= n
    <2> SUFFICES ASSUME NEW i \in T PROVE i \in Nat /\ ~(i <= 0) /\ i <= n
        OBVIOUS
    <2>1. i \in 1..n
        OBVIOUS
    <2> QED
        BY <2>1
<1>1. ASSUME NEW k \in 1..n
      PROVE  Sum(k) = IF k \in T /\ A[k] \cap Sum(k - 1) # {} THEN Sum(k - 1) \cup {k} ELSE Sum(k - 1)
    <2>1. B \subseteq Sum(k - 1) /\ Sum(k - 1) \subseteq B \cup T
        OBVIOUS
    <2>2. \A i \in T : i <= k <=> i <= k - 1 \/ i = k
        BY <1>0
    <2>3. Sum(k) = IF k \in T /\ A[k] \cap B # {} THEN Sum(k - 1) \cup {k} ELSE Sum(k - 1)
        BY <2>2
    <2> HIDE DEF Sum
    <2>4. k \in T => A[k] \cap Sum(k - 1) = A[k] \cap B
        BY <2>1
    <2> QED
        BY <2>3, <2>4
<1>2. Sum(0) = B /\ Sum(n) = B \cup {i \in T : A[i] \cap B # {}}
    BY <1>0
<1> HIDE DEF Sum
<1>3. f \in [0..n -> SUBSET (B \cup T)] /\ \A k \in 0..n : f[k] = Sum(k)
    <2>1. \A k \in 0..n : Sum(k) \in SUBSET (B \cup T)
        BY DEF Sum
    <2> QED
        BY <2>1
<1> HIDE DEF f
<1>4. ASSUME NEW k \in 1..n
      PROVE  f[k] = IF k \in T /\ A[k] \cap f[k - 1] # {} THEN f[k - 1] \cup {k} ELSE f[k - 1]
    <2>1. k \in 0..n /\ k - 1 \in 0..n
        OBVIOUS
    <2> QED
        BY <1>1, <1>3, <2>1
<1>5. 0 \in 0..n /\ f[0] = B
    BY <1>2, <1>3
<1>6. ASSUME NEW h, Sweeps(n, B, A, T, h) PROVE h[n] = Sum(n)
    <2> DEFINE S == {k \in 0..n : h[k] = Sum(k)}
    <2>1. 0 \in S
        BY <1>2, <1>5, <1>6 DEF Sweeps
    <2>2. ASSUME NEW k \in 1..n, k - 1 \in S PROVE k \in S
        <3>1. k \in 0..n /\ h[k - 1] = Sum(k - 1)
            BY <2>2
        <3>2. h[k] = Sum(k)
            BY <1>1, <1>6, <3>1 DEF Sweeps
        <3> QED
            BY <3>1, <3>2
    <2>3. \A k \in 1..n : k - 1 \in S => k \in S
        BY <2>2
    <2>4. \A k \in 0..n : k \in S
        <3> HIDE DEF S
        <3> QED
            BY <2>1, <2>3, UpTo
    <2> QED
        BY <2>4
<1>7. Sweeps(n, B, A, T, f)
    BY <1>4, <1>5 DEF Sweeps
<1> QED
    BY <1>2, <1>3, <1>6, <1>7

\* What bars and what passes a level, when none of its nodes waits for another.
LEMMA LevelIs ==
    ASSUME NEW lv \in SUBSET GraphNode, \A n \in lv : After(n) \cap lv = {}, NEW before
    PROVE  /\ Blocked(lv) = barred \cup {i \in lv : After(i) \cap barred # {}}
           /\ Skipped(lv, before) =
                 before \cup {i \in lv \ (Blocked(lv) \cup plan.unmet) : After(i) \cap before # {}}
<1>1. NNodes \in Nat /\ lv \in SUBSET (1..NNodes)
    BY WorkGraphAssumption DEF GraphNode
<1>2. ASSUME NEW B, NEW T \in SUBSET lv
      PROVE  LET h == CHOOSE g : g = [i \in 0..NNodes |->
                          IF i = 0 THEN B ELSE IF i \in T /\ After(i) \cap g[i - 1] # {}
                                               THEN g[i - 1] \cup {i} ELSE g[i - 1]]
             IN  h[NNodes] = B \cup {i \in T : After(i) \cap B # {}}
    <2> DEFINE Body(g) == [i \in 0..NNodes |->
                          IF i = 0 THEN B ELSE IF i \in T /\ After(i) \cap g[i - 1] # {}
                                               THEN g[i - 1] \cup {i} ELSE g[i - 1]]
               h == CHOOSE g : g = Body(g)
    <2>1. T \in SUBSET (1..NNodes) /\ \A i \in T : plan.after[i] \cap T = {}
        BY <1>1 DEF After
    <2> DEFINE A == plan.after
               Sweep(g) == Sweeps(NNodes, B, A, T, g)
    <2>2. /\ \E g \in [0..NNodes -> SUBSET (B \cup T)] : Sweep(g)
          /\ \A g : Sweep(g) => \A i : i \in g[NNodes] <=> i \in B \/ (i \in T /\ A[i] \cap B # {})
        <3>1. \A i \in T : A[i] \cap T = {}
            BY <2>1
        <3> HIDE DEF A
        <3> QED
            BY <1>1, <2>1, <3>1, SweepIs
    <2>3. \A g : Body(g)[0] = B /\ \A k \in 1..NNodes : Body(g)[k] =
                     IF k \in T /\ plan.after[k] \cap g[k - 1] # {} THEN g[k - 1] \cup {k} ELSE g[k - 1]
        BY <1>1 DEF After
    <2>4. \A g : Body(g) = [i \in 0..NNodes |-> Body(g)[i]]
        OBVIOUS
    <2> HIDE DEF Body
    <2>5. PICK f \in [0..NNodes -> SUBSET (B \cup T)] : Sweep(f)
        BY <2>2
    <2>6. \A k \in 0..NNodes : k = 0 \/ k \in 1..NNodes
        BY <1>1
    <2>7. \A k \in 0..NNodes : f[k] = Body(f)[k]
        BY <2>3, <2>5, <2>6 DEF Sweeps
    <2>8. f = Body(f)
        BY <2>4, <2>7
    <2>9. h = Body(h)
        BY <2>8
    <2> HIDE DEF h
    <2>10. Sweep(h)
        BY <2>3, <2>9 DEF Sweeps
    <2>11. h[NNodes] = B \cup {i \in T : After(i) \cap B # {}}
        BY <2>2, <2>10 DEF After
    <2> QED
        BY <2>11 DEF h, Body
<1>3. Blocked(lv) = barred \cup {i \in lv : After(i) \cap barred # {}}
    <2>1. lv \in SUBSET lv
        OBVIOUS
    <2> QED
        BY <1>2, <2>1 DEF Blocked
<1> DEFINE T == lv \ (Blocked(lv) \cup plan.unmet)
<1>4. Skipped(lv, before) = before \cup {i \in T : After(i) \cap before # {}}
    <2>1. T \in SUBSET lv
        OBVIOUS
    <2> QED
        BY <1>2, <2>1 DEF Skipped
<1> QED
    BY <1>3, <1>4

\* It holds at the start.
LEMMA GraphInitInv == GraphInit => GraphInv
<1> SUFFICES ASSUME GraphInit PROVE GraphInv
    OBVIOUS
<1>1. /\ level = {} /\ visited = {} /\ barred = {} /\ passed = {}
      /\ state = [n \in GraphNode |-> "unseen"]
    BY DEF GraphInit
<1>2. OrderFree
    BY <1>1 DEF OrderFree
<1>3. plan.after \in [GraphNode -> SUBSET (GraphNode \cup {Dangling})]
    BY WorkGraphAssumption DEF GraphInit
<1> QED
    BY <1>1, <1>2, <1>3 DEF GraphInv, NodeStates

\* A graph stays the graph it is.
LEMMA GraphStays ==
    ASSUME plan' = plan
    PROVE  /\ WholeGraph' = WholeGraph /\ Verdict' = Verdict /\ \A n : After(n)' = After(n)
<1>1. \A n : After(n)' = After(n)
    BY DEF After
<1>2. Verdict' = Verdict
    BY DEF Verdict
<1> QED
    BY <1>1, <1>2 DEF WholeGraph, Cyclic

\* The next level begins: its nodes come to what their dependencies make of them.
LEMMA LevelStarts ==
    ASSUME GraphInv, NEW before, NEW lv, lv = LevelAfter(visited), StartLevel(lv, before),
           \A n \in level : state[n] # "running",
           WholeGraph => before = {n \in GraphNode : state[n] = "skipped"}
    PROVE  GraphInv'
<1>1. /\ level' = lv /\ visited' = visited \cup lv /\ plan' = plan
      /\ state' = [n \in GraphNode |-> StateAtStart(lv, before, n)]
      /\ barred' = Blocked(lv) /\ passed' = Skipped(lv, before)
    BY DEF StartLevel
<1>2. lv \in SUBSET GraphNode
    BY DEF LevelAfter, Freed
<1>3. level' \subseteq visited' /\ visited' \subseteq GraphNode
    BY <1>1, <1>2 DEF GraphInv
<1>4. state' \in [GraphNode -> NodeStates]
    <2>1. \A n \in GraphNode : StateAtStart(lv, before, n) \in NodeStates
        BY DEF StateAtStart, GraphInv, NodeStates, Results
    <2> QED
        BY <1>1, <2>1
<1>5. plan'.after \in [GraphNode -> SUBSET (GraphNode \cup {Dangling})]
    BY <1>1 DEF GraphInv
<1>6. ASSUME WholeGraph
      PROVE  /\ \A n \in visited' : After(n) \subseteq visited' \ level'
             /\ \A n \in GraphNode : /\ n \in visited' <=> state'[n] # "unseen"
                                     /\ state'[n] = "running" => n \in level' \ plan.unmet
             /\ barred' = {n \in GraphNode : state'[n] = "blocked"}
             /\ {n \in visited' \ level' : state'[n] = "skipped"} \subseteq passed'
             /\ passed' \subseteq {n \in GraphNode : state'[n] = "skipped"}
             /\ \A n \in GraphNode :
                   /\ state'[n] \in {"running", "completed"} =>
                         \A d \in After(n) : state'[d] = "completed"
                   /\ state'[n] \notin {"unseen", "running"} => state'[n] = Verdict[n]
    <2>1. lv \subseteq GraphNode \ visited /\ \A n \in lv : After(n) \subseteq visited
        <3>1. Freed(visited) = {} => GraphNode \ visited = {}
            <4> SUFFICES ASSUME Freed(visited) = {}, GraphNode \ visited # {} PROVE FALSE
                OBVIOUS
            <4>1. PICK n \in GraphNode \ visited : After(n) \subseteq GraphNode \ (GraphNode \ visited)
                BY <1>6, SomeFirst DEF GraphInv
            <4>2. n \in Freed(visited)
                BY <4>1 DEF Freed
            <4> QED
                BY <4>2
        <3>2. lv = Freed(visited)
            BY <3>1 DEF LevelAfter
        <3> QED
            BY <3>2 DEF Freed
    <2>2. /\ \A n \in lv : After(n) \cap lv = {}
          /\ \A n \in visited : After(n) \subseteq visited
          /\ \A n \in visited : n \in GraphNode /\ state[n] \in Results
          /\ barred = {n \in GraphNode : state[n] = "blocked"}
        BY <1>6, <2>1 DEF GraphInv, NodeStates
    <2>3. /\ Blocked(lv) = barred \cup {i \in lv : After(i) \cap barred # {}}
          /\ Skipped(lv, before) =
                before \cup {i \in lv \ (Blocked(lv) \cup plan.unmet) : After(i) \cap before # {}}
        BY <1>2, <2>2, LevelIs
    <2>4. ASSUME NEW n \in lv
          PROVE  /\ n \in Blocked(lv) <=> \E d \in After(n) : state[d] = "blocked"
                 /\ n \notin Blocked(lv) =>
                       (n \in plan.unmet \cup Skipped(lv, before)
                            <=> n \in plan.unmet \/ \E d \in After(n) : state[d] = "skipped")
        <3>1. n \in GraphNode /\ state[n] = "unseen" /\ After(n) \subseteq GraphNode
            BY <1>2, <1>6, <2>1, <2>2 DEF GraphInv
        <3>2. n \notin barred /\ n \notin before
            BY <1>6, <2>2, <3>1
        <3>3. /\ After(n) \cap barred # {} <=> \E d \in After(n) : state[d] = "blocked"
              /\ After(n) \cap before # {} <=> \E d \in After(n) : state[d] = "skipped"
            BY <1>6, <2>2, <3>1
        <3> QED
            BY <2>3, <3>2, <3>3
    <2>5. ASSUME NEW n \in lv
          PROVE  state'[n] = IF \E d \in After(n) : state[d] = "blocked" THEN "blocked"
                             ELSE IF n \in plan.unmet \/ \E d \in After(n) : state[d] = "skipped"
                                  THEN "skipped" ELSE "running"
        <3>1. state'[n] = StateAtStart(lv, before, n)
            BY <1>1, <1>2
        <3> QED
            BY <2>4, <3>1 DEF StateAtStart
    <2>6. \A n \in GraphNode \ lv : state'[n] = state[n]
        BY <1>1 DEF StateAtStart
    <2>7. \A n \in visited : n \notin lv /\ state'[n] = state[n] /\ state[n] = Verdict[n]
        BY <1>6, <2>1, <2>2, <2>6 DEF GraphInv, OrderFree, Results
    <2>8. ASSUME NEW n \in lv
          PROVE  /\ state'[n] = "running" => /\ n \notin plan.unmet
                                             /\ \A d \in After(n) : state'[d] = "completed"
                 /\ state'[n] # "running" => state'[n] = Verdict[n]
        <3>1. \A d \in After(n) : /\ state[d] \in Results /\ Verdict[d] = state[d]
                                  /\ state'[d] = state[d]
            BY <2>1, <2>2, <2>7
        <3>2. Verdict[n] = Judged(Verdict, n)
            BY <1>2, <1>6, VerdictFixed DEF GraphInv
        <3>3. state'[n] = "running" => /\ n \notin plan.unmet
                                       /\ \A d \in After(n) : state'[d] = "completed"
            BY <2>5, <3>1 DEF Results
        <3>4. state'[n] # "running" => state'[n] = Verdict[n]
            BY <2>5, <3>1, <3>2 DEF Judged
        <3> QED
            BY <3>3, <3>4
    <2>9. \A n \in GraphNode : n \in visited' <=> state'[n] # "unseen"
        BY <1>1, <1>6, <2>5, <2>6, <2>7 DEF GraphInv
    <2>10. \A n \in GraphNode : state'[n] = "running" => n \in level' \ plan.unmet
        <3>1. \A n \in GraphNode \ lv : state[n] # "running"
            BY <1>6 DEF GraphInv
        <3> QED
            BY <1>1, <2>6, <2>8, <3>1
    <2>11. barred' = {n \in GraphNode : state'[n] = "blocked"}
        <3>1. \A n \in GraphNode : n \in Blocked(lv) <=> state'[n] = "blocked"
            <4>1. \A n \in lv : n \in Blocked(lv) <=> state'[n] = "blocked"
                BY <2>4, <2>5
            <4>2. \A n \in GraphNode \ lv : n \in Blocked(lv) <=> state[n] = "blocked"
                BY <2>2, <2>3
            <4> QED
                BY <2>6, <4>1, <4>2
        <3>2. Blocked(lv) \subseteq GraphNode
            BY <1>2, <2>2, <2>3
        <3> QED
            BY <1>1, <3>1, <3>2
    <2>12. /\ {n \in visited' \ level' : state'[n] = "skipped"} \subseteq passed'
           /\ passed' \subseteq {n \in GraphNode : state'[n] = "skipped"}
        <3>1. before \subseteq GraphNode \ lv /\ \A n \in GraphNode \ lv : n \in before <=> state[n] = "skipped"
            BY <1>6, <2>1 DEF GraphInv
        <3>2. \A n \in lv : n \in Skipped(lv, before) => state'[n] = "skipped"
            <4>1. \A n \in lv : n \in Skipped(lv, before) => n \notin Blocked(lv)
                BY <2>3, <3>1
            <4> QED
                BY <2>4, <2>5, <4>1
        <3>3. /\ Skipped(lv, before) \subseteq GraphNode
              /\ \A n \in GraphNode \ lv : n \in Skipped(lv, before) <=> state[n] = "skipped"
            BY <1>2, <2>3, <3>1
        <3> QED
            BY <1>1, <1>3, <2>6, <3>2, <3>3
    <2>13. ASSUME NEW n \in GraphNode
           PROVE  /\ state'[n] \in {"running", "completed"} =>
                         \A d \in After(n) : state'[d] = "completed"
                  /\ state'[n] \notin {"unseen", "running"} => state'[n] = Verdict[n]
        <3>1. CASE n \in lv
            <4>1. state'[n] # "completed"
                BY <2>5, <3>1
            <4> QED
                BY <2>8, <3>1, <4>1
        <3>2. CASE n \in visited
            <4>1. \A d \in After(n) : state'[d] = state[d]
                BY <2>2, <2>7, <3>2
            <4>2. state'[n] = state[n] /\ state[n] \in Results
                BY <2>2, <2>7, <3>2
            <4>3. state[n] = "completed" => \A d \in After(n) : state[d] = "completed"
                BY <1>6 DEF GraphInv, OrderFree
            <4> QED
                BY <2>7, <3>2, <4>1, <4>2, <4>3 DEF Results
        <3>3. CASE n \notin visited'
            BY <2>9, <3>3
        <3> QED
            BY <1>1, <3>1, <3>2, <3>3
    <2>14. \A n \in visited' : After(n) \subseteq visited' \ level'
        BY <1>1, <2>1, <2>2
    <2> QED
        BY <2>9, <2>10, <2>11, <2>12, <2>13, <2>14
<1> QED
    BY <1>1, <1>3, <1>4, <1>5, <1>6, GraphStays DEF GraphInv, OrderFree

\* Every step keeps it.
LEMMA GraphStepInv == GraphInv /\ [GraphNext]_graphVars => GraphInv'
<1> SUFFICES ASSUME GraphInv, [GraphNext]_graphVars PROVE GraphInv'
    OBVIOUS
<1>1. CASE UNCHANGED graphVars
    BY <1>1, GraphStays DEF graphVars, GraphInv, OrderFree
<1>2. CASE ExecuteGraph
    <2>1. visited = {} /\ StartLevel(LevelAfter(visited), {})
        BY <1>2 DEF ExecuteGraph
    <2>2. level = {}
        BY <2>1 DEF GraphInv
    <2>3. WholeGraph => {} = {n \in GraphNode : state[n] = "skipped"}
        BY <2>1 DEF GraphInv
    <2> QED
        BY <2>1, <2>2, <2>3, LevelStarts
<1>3. CASE LevelSettles
    <2> DEFINE before == passed \cup {n \in level : state[n] = "skipped"}
    <2>1. StartLevel(LevelAfter(visited), before) /\ \A n \in level : state[n] # "running"
        BY <1>3 DEF LevelSettles
    <2>2. WholeGraph => before = {n \in GraphNode : state[n] = "skipped"}
        BY DEF GraphInv
    <2> HIDE DEF before
    <2> QED
        BY <2>1, <2>2, LevelStarts
<1>4. ASSUME NEW n \in GraphNode, HandlerDone(n) PROVE GraphInv'
    <2> DEFINE to == IF n \in plan.fails THEN "blocked" ELSE "completed"
    <2>1. /\ state[n] = "running" /\ state' = [state EXCEPT ![n] = to]
          /\ barred' = IF n \in plan.fails THEN barred \cup {n} ELSE barred
          /\ UNCHANGED <<plan, level, visited, passed>>
        BY <1>4 DEF HandlerDone
    <2>2. state \in [GraphNode -> NodeStates] /\ to \in NodeStates
        BY DEF GraphInv, NodeStates, Results
    <2>3. state' \in [GraphNode -> NodeStates]
        BY <2>1, <2>2
    <2>4. state'[n] = to /\ \A m \in GraphNode : m # n => state'[m] = state[m]
        BY <2>1, <2>2
    <2>5. ASSUME WholeGraph
          PROVE  /\ \A m \in visited : After(m) \subseteq visited \ level
                 /\ \A m \in GraphNode : /\ m \in visited <=> state'[m] # "unseen"
                                         /\ state'[m] = "running" => m \in level \ plan.unmet
                 /\ barred' = {m \in GraphNode : state'[m] = "blocked"}
                 /\ {m \in visited \ level : state'[m] = "skipped"} \subseteq passed
                 /\ passed \subseteq {m \in GraphNode : state'[m] = "skipped"}
                 /\ \A m \in GraphNode :
                       /\ state'[m] \in {"running", "completed"} =>
                             \A d \in After(m) : state'[d] = "completed"
                       /\ state'[m] \notin {"unseen", "running"} => state'[m] = Verdict[m]
        <3>1. n \in level \ plan.unmet /\ \A d \in After(n) : state[d] = "completed"
            BY <2>1, <2>5 DEF GraphInv, OrderFree
        <3>2. \A d \in After(n) : d # n /\ d \in GraphNode /\ Verdict[d] = "completed"
            BY <2>1, <2>5, <3>1 DEF GraphInv, OrderFree, WholeGraph, After
        <3>3. Verdict[n] = to
            BY <2>5, <3>1, <3>2, VerdictFixed DEF GraphInv, Judged
        <3>4. barred' = {m \in GraphNode : state'[m] = "blocked"}
            BY <2>1, <2>4, <2>5 DEF GraphInv
        <3>5. ASSUME NEW m \in GraphNode
              PROVE  /\ m \in visited <=> state'[m] # "unseen"
                     /\ state'[m] = "running" => m \in level \ plan.unmet
            BY <2>1, <2>4, <2>5 DEF GraphInv
        <3>6. ASSUME NEW m \in GraphNode
              PROVE  /\ state'[m] \in {"running", "completed"} =>
                            \A d \in After(m) : state'[d] = "completed"
                     /\ state'[m] \notin {"unseen", "running"} => state'[m] = Verdict[m]
            <4>1. CASE m = n
                BY <2>4, <3>1, <3>2, <3>3, <4>1
            <4>2. CASE m # n
                <5>1. state[m] \in {"running", "completed"} => \A d \in After(m) : state[d] = "completed"
                    BY <2>5 DEF GraphInv, OrderFree
                <5>2. \A d \in After(m) : d \in GraphNode
                    BY <2>5 DEF GraphInv, WholeGraph, After
                <5>3. \A d \in After(m) : state[d] = "completed" => state'[d] = "completed"
                    BY <2>1, <2>4, <5>2
                <5>4. state[m] \notin {"unseen", "running"} => state[m] = Verdict[m]
                    BY <2>5 DEF GraphInv, OrderFree
                <5> QED
                    BY <2>4, <4>2, <5>1, <5>3, <5>4
            <4> QED
                BY <4>1, <4>2
        <3>7. /\ {m \in visited \ level : state'[m] = "skipped"} \subseteq passed
              /\ passed \subseteq {m \in GraphNode : state'[m] = "skipped"}
              /\ \A m \in visited : After(m) \subseteq visited \ level
            <4>1. /\ \A m \in visited : m \in GraphNode /\ After(m) \subseteq visited \ level
                  /\ \A m \in visited \ level : state[m] = "skipped" => m \in passed
                  /\ \A m \in passed : m \in GraphNode /\ state[m] = "skipped"
                BY <2>5 DEF GraphInv
            <4> QED
                BY <2>1, <2>4, <3>1, <4>1
        <3> QED
            BY <3>4, <3>5, <3>6, <3>7
    <2>6. /\ level' \subseteq visited' /\ visited' \subseteq GraphNode
          /\ plan'.after \in [GraphNode -> SUBSET (GraphNode \cup {Dangling})]
        BY <2>1 DEF GraphInv
    <2> HIDE DEF to
    <2> QED
        BY <2>1, <2>3, <2>5, <2>6, GraphStays DEF GraphInv, OrderFree
<1> QED
    BY <1>1, <1>2, <1>3, <1>4 DEF GraphNext

\* However a level's handlers interleave, every result is the definition's.
LEMMA GraphInvFree == GraphInv => OrderFree
BY DEF GraphInv, OrderFree

-----------------------------------------------------------------------------
(* Crawl: what is listed is what the links lead to, by the shortest way.    *)

Linked(p) == {site.links[p][i] : i \in DOMAIN site.links[p]} \cap site.home
Queued == [url : Page, depth : 0..Depth]
Entries == [url : Page, is : {"blocked", "failed", "fetched"}]
Got(listed) == {listed[i].url : i \in {k \in DOMAIN listed : listed[k].is = "fetched"}}
Urls(listed) == {listed[i].url : i \in DOMAIN listed}

\* A crawl's listing, of pages and rules as far as it has got.
Listing(b) ==
    /\ b = [rules |-> b.rules, queue |-> b.queue, visited |-> b.visited, pages |-> b.pages]
    /\ b.pages \in Seq(Entries)
    /\ Len(b.pages) <= MaxPages
    /\ b.visited = Urls(b.pages)
    /\ IsFiniteSet(b.visited) /\ Cardinality(b.visited) = Len(b.pages)
    /\ \A p \in Got(b.pages) : CanFetch(b.rules, p)

\* A page was led to in n steps: it is the seed, or a page fetched one step
\* nearer links to it.
LedTo(b, p, n, d) == \/ n = 0 /\ p = SeedUrl
                     \/ \E q \in Got(b.pages) : d[q] = n - 1 /\ p \in Linked(q)

\* It is listed at n steps or fewer, or waits to be looked at there.
Known(b, p, n, d) ==
    \/ p \in b.visited /\ d[p] <= n
    \/ \E i \in 1..Len(b.queue) : b.queue[i].url = p /\ b.queue[i].depth <= n

\* The queue of a breadth-first crawl holds two neighbouring depths at most, and
\* nothing nearer than what was visited; d are the depths of the visited.
Frontier(b, d) ==
    /\ d \in [b.visited -> 0..Depth]
    /\ b.queue \in Seq(Queued)
    /\ \A p \in b.visited : LedTo(b, p, d[p], d)
    /\ \A i \in 1..Len(b.queue) :
          /\ LedTo(b, b.queue[i].url, b.queue[i].depth, d)
          /\ \A p \in b.visited : d[p] <= b.queue[i].depth
          /\ \A j \in i..Len(b.queue) : /\ b.queue[i].depth <= b.queue[j].depth
                                        /\ b.queue[j].depth <= b.queue[i].depth + 1
    /\ Known(b, SeedUrl, 0, d)
    /\ \A p \in Got(b.pages) : d[p] < Depth => \A l \in Linked(p) : Known(b, l, d[p] + 1, d)

\* A crawl under way.
UnderWay(b) == Listing(b) /\ \E d : Frontier(b, d)

Places == {"idle", "entry", "mark", "crawling", "stored", "raised"}
HasEnded == scrape \in {"succeeded", "failed"}

\* Until a crawl outlasts its lock, one process at most holds the job, and where
\* it is says what has become of the row.
OneCrawler ==
    /\ \A c \in Crawler : crawlAt[c] # "idle" => job = "running"
    /\ \A c, e \in Crawler : crawlAt[c] # "idle" /\ crawlAt[e] # "idle" => c = e
    /\ \A c \in Crawler : crawlAt[c] = "stored" => HasEnded
    /\ \A c \in Crawler : crawlAt[c] = "raised" /\ trouble = {} => scrape = "failed"
    /\ job = "succeeded" => HasEnded

CrawlInv ==
    /\ site \in Sites
    /\ crawlAt \in [Crawler -> Places] /\ crawl = [c \in Crawler |-> crawl[c]]
    /\ trouble \subseteq {"error", "slow"}
    /\ scrape \in {"none", "queued", "running", "succeeded", "failed"}
    /\ job \in {"none", "pending", "running", "succeeded", "dead_letter"}
    /\ submit = "new" => scrape = "none" /\ job = "none"
    /\ submit \in {"inserted", "died"} => scrape = "queued" /\ job = "none"
    /\ submit \in {"new", "inserted", "died"} \/ (scrape # "none" /\ job # "none")
    /\ job = "none" => \A c \in Crawler : crawlAt[c] = "idle"
    /\ \A c \in Crawler : \A b : crawlAt[c] = "crawling" /\ b = crawl[c] => UnderWay(b)
    /\ "slow" \notin trouble => OneCrawler
    /\ trouble = {} => /\ scrape = "running" => job \in {"running", "pending"}
                       /\ job = "dead_letter" => scrape = "failed"
    /\ CrawlExact

\* The queue after the links of a page were pushed holds what it held, then links
\* of the page one step further, and every link of this host not yet visited.
LEMMA PushedIs ==
    ASSUME site \in Sites, NEW rest \in Seq(Queued), NEW item \in Queued, NEW seen,
           item.depth < Depth, NEW q, q = Pushed(rest, item, seen)
    PROVE  /\ q \in Seq(Queued) /\ Len(rest) <= Len(q)
           /\ \A i \in 1..Len(rest) : q[i] = rest[i]
           /\ \A i \in 1..Len(q) : i > Len(rest) =>
                 q[i].depth = item.depth + 1 /\ q[i].url \in Linked(item.url)
           /\ \A l \in Linked(item.url) \ seen :
                 \E i \in 1..Len(q) : q[i].url = l /\ q[i].depth = item.depth + 1
<1> DEFINE links == site.links[item.url]
           n == Len(links)
           next(i) == [url |-> links[i], depth |-> item.depth + 1]
           V == Seq(Queued)
           G == [k \in 1..n |-> [w \in V |-> IF links[k] \in site.home \ seen
                                             THEN Append(w, next(k)) ELSE w]]
           Body(g) == [i \in 0..n |->
                         IF i = 0 THEN rest
                         ELSE IF links[i] \in site.home \ seen
                              THEN Append(g[i - 1], [url |-> links[i], depth |-> item.depth + 1])
                              ELSE g[i - 1]]
           h == CHOOSE g : g = Body(g)
<1>1. /\ links \in Seq(Page) /\ n \in Nat /\ Depth \in Nat
      /\ item.url \in Page /\ item.depth \in 0..Depth
    BY CrawlAssumption DEF Queued
<1>2. \A k \in 1..n : next(k) \in Queued
    BY <1>1 DEF Queued
<1>3. G \in [1..n -> [V -> V]]
    BY <1>2
<1>4. PICK f \in [0..n -> V] : f[0] = rest /\ \A k \in 1..n : f[k] = G[k][f[k - 1]]
    <2>1. rest \in V /\ n \in Nat
        BY <1>1
    <2> HIDE DEF V, G, n
    <2>2. \E f \in [0..n -> V] : Iterates(n, rest, G, f)
        BY <1>3, <2>1, Recursion
    <2> QED
        BY <2>2 DEF Iterates
<1>5. Pushed(rest, item, seen) = h[n]
    BY DEF Pushed
<1>6. \A g : Body(g) = [k \in 0..n |-> Body(g)[k]]
    OBVIOUS
<1>7. \A g : /\ Body(g)[0] = rest
             /\ \A k \in 1..n : Body(g)[k] = IF links[k] \in site.home \ seen
                                             THEN Append(g[k - 1], next(k)) ELSE g[k - 1]
    BY <1>1
<1>8. f = Body(f)
    <2>0. \A k \in 1..n : k - 1 \in 0..n
        BY <1>1
    <2>1. \A k \in 1..n : k - 1 \in 0..n /\ f[k - 1] \in V
        <3> HIDE DEF V, n
        <3> QED
            BY <1>4, <2>0
    <2>2. \A k \in 1..n : f[k] = Body(f)[k]
        BY <1>4, <1>7, <2>1
    <2>3. \A k \in 0..n : k = 0 \/ k \in 1..n
        BY <1>1
    <2>4. \A k \in 0..n : f[k] = Body(f)[k]
        BY <1>4, <1>7, <2>2, <2>3
    <2> HIDE DEF Body
    <2> QED
        BY <1>4, <1>6, <2>4
<1>9. h = Body(h)
    BY <1>8
<1> HIDE DEF Body, h
<1> DEFINE S == {k \in 0..n :
                   /\ h[k] \in Seq(Queued) /\ Len(rest) <= Len(h[k])
                   /\ \A i \in 1..Len(rest) : h[k][i] = rest[i]
                   /\ \A i \in 1..Len(h[k]) : i > Len(rest) =>
                         h[k][i].depth = item.depth + 1 /\ h[k][i].url \in Linked(item.url)
                   /\ \A j \in 1..k : links[j] \in site.home \ seen =>
                         \E i \in 1..Len(h[k]) : h[k][i] = next(j)}
<1>10. 0 \in S
    <2>1. h[0] = rest
        BY <1>7, <1>9
    <2> QED
        BY <1>1, <2>1
<1>11. ASSUME NEW k \in 1..n, k - 1 \in S PROVE k \in S
    <2> DEFINE w == h[k - 1]
               z == h[k]
    <2>1. z = IF links[k] \in site.home \ seen THEN Append(w, next(k)) ELSE w
        BY <1>7, <1>9
    <2>2. /\ w \in Seq(Queued) /\ Len(rest) <= Len(w) /\ Len(rest) \in Nat /\ Len(w) \in Nat
          /\ \A i \in 1..Len(rest) : w[i] = rest[i]
          /\ \A i \in 1..Len(w) : i > Len(rest) =>
                w[i].depth = item.depth + 1 /\ w[i].url \in Linked(item.url)
          /\ \A j \in 1..(k - 1) : links[j] \in site.home \ seen =>
                \E i \in 1..Len(w) : w[i] = next(j)
        BY <1>11
    <2>3. k \in 0..n /\ \A j \in 1..k : j = k \/ j \in 1..(k - 1)
        BY <1>1
    <2> HIDE DEF z, w
    <2>4. CASE links[k] \notin site.home \ seen
        <3>1. z = w
            BY <2>1, <2>4
        <3> QED
            BY <2>2, <2>3, <2>4, <3>1 DEF z
    <2>5. CASE links[k] \in site.home \ seen
        <3>1. z = Append(w, next(k))
            BY <2>1, <2>5
        <3>2. next(k) \in Queued
            BY <1>2
        <3> HIDE DEF next
        <3>3. /\ z \in Seq(Queued) /\ Len(z) = Len(w) + 1
              /\ \A i \in 1..Len(w) : z[i] = w[i]
              /\ z[Len(w) + 1] = next(k)
            BY <2>2, <3>1, <3>2
        <3>8. \A i \in 1..Len(z) : i = Len(w) + 1 \/ i \in 1..Len(w)
            BY <2>2, <3>3
        <3>4. next(k).depth = item.depth + 1 /\ next(k).url \in Linked(item.url)
            BY <1>1, <2>5 DEF next, Linked
        <3>5. \A i \in 1..Len(z) : i > Len(rest) =>
                 z[i].depth = item.depth + 1 /\ z[i].url \in Linked(item.url)
            BY <2>2, <3>3, <3>4, <3>8
        <3>6. \A j \in 1..k : links[j] \in site.home \ seen => \E i \in 1..Len(z) : z[i] = next(j)
            <4>1. Len(w) + 1 \in 1..Len(z) /\ \A i \in 1..Len(w) : i \in 1..Len(z)
                BY <2>2, <3>3
            <4> QED
                BY <2>2, <2>3, <3>3, <4>1
        <3>7. Len(rest) <= Len(z) /\ \A i \in 1..Len(rest) : z[i] = rest[i]
            <4>1. \A i \in 1..Len(rest) : i \in 1..Len(w)
                BY <2>2
            <4> QED
                BY <2>2, <3>3, <4>1
        <3> QED
            BY <2>3, <3>3, <3>5, <3>6, <3>7 DEF z
    <2> QED
        BY <2>4, <2>5
<1>12. n \in S
    <2> HIDE DEF S
    <2>1. \A k \in 1..n : k - 1 \in S => k \in S
        BY <1>11
    <2>2. \A k \in 0..n : k \in S
        <3> HIDE DEF n
        <3> QED
            BY <1>1, <1>10, <2>1, UpTo
    <2> QED
        BY <1>1, <2>2
<1>13. ASSUME NEW l \in Linked(item.url) \ seen
       PROVE  \E i \in 1..Len(h[n]) : h[n][i].url = l /\ h[n][i].depth = item.depth + 1
    <2>1. PICK j \in 1..n : l = links[j] /\ links[j] \in site.home \ seen
        BY <1>1 DEF Linked
    <2>2. \A i \in 1..n : links[i] \in site.home \ seen =>
                 \E m \in 1..Len(h[n]) : h[n][m] = next(i)
        BY <1>12
    <2>3. next(j).url = l /\ next(j).depth = item.depth + 1
        BY <2>1
    <2> HIDE DEF next, n
    <2> QED
        BY <2>1, <2>2, <2>3
<1>14. /\ h[n] \in Seq(Queued) /\ Len(rest) <= Len(h[n])
       /\ \A i \in 1..Len(rest) : h[n][i] = rest[i]
       /\ \A i \in 1..Len(h[n]) : i > Len(rest) =>
             h[n][i].depth = item.depth + 1 /\ h[n][i].url \in Linked(item.url)
    <2> HIDE DEF n, links, next
    <2> QED
        BY <1>12
<1>15. q = h[n]
    BY <1>5
<1> HIDE DEF n, links, next, S
<1> QED
    BY <1>13, <1>14, <1>15

\* What Within() says, level by level.
LEMMA WithinIs ==
    ASSUME site \in Sites, NEW had
    PROVE  \E f \in [0..Depth -> SUBSET ({SeedUrl} \cup site.home)] :
              /\ f[0] = {SeedUrl}
              /\ \A n \in 1..Depth : f[n] = f[n - 1] \cup UNION {Linked(p) : p \in f[n - 1] \cap had}
              /\ Within(had) = f[Depth]
<1> DEFINE V == SUBSET ({SeedUrl} \cup site.home)
           v == {SeedUrl}
           More1(w) == w \cup UNION {Linked(p) : p \in w \cap had}
           G == [k \in 1..Depth |-> [w \in V |-> More1(w)]]
           Links(p) == {site.links[p][i] : i \in DOMAIN site.links[p]} \cap site.home
           Body(g) == [n \in 0..Depth |->
                IF n = 0 THEN {SeedUrl}
                ELSE g[n - 1] \cup UNION {Links(p) : p \in g[n - 1] \cap had}]
           h == CHOOSE g : g = Body(g)
<1>1. Depth \in Nat
    BY CrawlAssumption
<1>2. \A w \in V : More1(w) \in V
    BY DEF Linked
<1>3. v \in V /\ G \in [1..Depth -> [V -> V]]
    <2> HIDE DEF More1
    <2> QED
        BY <1>2
<1>4. PICK f \in [0..Depth -> V] : f[0] = v /\ \A k \in 1..Depth : f[k] = G[k][f[k - 1]]
    <2> HIDE DEF V, G, v
    <2>1. \E f \in [0..Depth -> V] : Iterates(Depth, v, G, f)
        BY <1>1, <1>3, Recursion
    <2> QED
        BY <2>1 DEF Iterates
<1>5. Within(had) = h[Depth]
    BY DEF Within
<1>6. \A g : Body(g) = [k \in 0..Depth |-> Body(g)[k]]
    OBVIOUS
<1>7. \A g : Body(g)[0] = {SeedUrl} /\ \A k \in 1..Depth : Body(g)[k] = More1(g[k - 1])
    BY <1>1 DEF Linked
<1> HIDE DEF Body, h, More1
<1>8. f = Body(f)
    <2>1. \A k \in 1..Depth : k - 1 \in 0..Depth /\ f[k - 1] \in V
        BY <1>1, <1>4
    <2>2. \A k \in 1..Depth : f[k] = Body(f)[k]
        BY <1>4, <1>7, <2>1
    <2>3. \A k \in 0..Depth : k = 0 \/ k \in 1..Depth
        BY <1>1
    <2>4. \A k \in 0..Depth : f[k] = Body(f)[k]
        BY <1>4, <1>7, <2>2, <2>3
    <2>5. f = [k \in 0..Depth |-> f[k]]
        BY <1>4
    <2>6. Body(f) = [k \in 0..Depth |-> Body(f)[k]]
        BY <1>6
    <2> QED
        BY <2>4, <2>5, <2>6
<1>9. h = Body(h)
    BY <1>8 DEF h
<1>10. \A k \in 0..Depth : h[k] \in V
    <2> DEFINE S == {k \in 0..Depth : h[k] \in V}
    <2>1. 0 \in S
        BY <1>1, <1>3, <1>7, <1>9
    <2>2. \A k \in 1..Depth : k - 1 \in S => k \in S
        BY <1>1, <1>2, <1>7, <1>9
    <2>3. \A k \in 0..Depth : k \in S
        <3> HIDE DEF S
        <3> QED
            BY <1>1, <2>1, <2>2, UpTo
    <2> QED
        BY <2>3
<1>11. h \in [0..Depth -> V]
    <2>1. h = [k \in 0..Depth |-> h[k]]
        BY <1>6, <1>9
    <2> HIDE DEF V
    <2> QED
        BY <1>10, <2>1
<1>12. \A k \in 1..Depth : h[k] = More1(h[k - 1])
    BY <1>7, <1>9
<1> QED
    BY <1>5, <1>7, <1>9, <1>11, <1>12 DEF More1

\* What the crawl has listed is within reach, and all of it when nothing waits.
LEMMA ListedIs ==
    ASSUME site \in Sites, NEW b, Listing(b), NEW d, Frontier(b, d)
    PROVE  /\ b.visited \subseteq Within(Got(b.pages))
           /\ b.queue = <<>> => b.visited = Within(Got(b.pages))
<1>1. Depth \in Nat
    BY CrawlAssumption
<1> DEFINE had == Got(b.pages)
<1>2. PICK f \in [0..Depth -> SUBSET ({SeedUrl} \cup site.home)] :
         /\ f[0] = {SeedUrl}
         /\ \A n \in 1..Depth : f[n] = f[n - 1] \cup UNION {Linked(p) : p \in f[n - 1] \cap had}
         /\ Within(had) = f[Depth]
    BY WithinIs
<1>3. had \subseteq b.visited
    BY DEF Listing, Got, Urls
<1>4. \A p \in b.visited : d[p] \in 0..Depth /\ LedTo(b, p, d[p], d)
    BY DEF Frontier
<1>5. \A n \in 1..Depth : \A p \in f[n - 1] : /\ p \in f[n]
                                              /\ p \in had => Linked(p) \subseteq f[n]
    BY <1>2
<1>6. \A n \in 1..Depth : \A l \in f[n] : \/ l \in f[n - 1]
                                          \/ \E p \in f[n - 1] \cap had : l \in Linked(p)
    BY <1>2
<1> DEFINE Near(n) == {p \in b.visited : d[p] <= n}
           S == {n \in 0..Depth : Near(n) \subseteq f[n]}
<1>7. \A n \in 0..Depth : n \in S
    <2>1. 0 \in S
        <3>1. ASSUME NEW p \in Near(0) PROVE p = SeedUrl
            <4>1. d[p] = 0 /\ LedTo(b, p, 0, d)
                BY <1>1, <1>4
            <4>2. ASSUME NEW q \in had PROVE d[q] # 0 - 1
                BY <1>1, <1>3, <1>4
            <4> QED
                BY <4>1, <4>2 DEF LedTo
        <3> QED
            BY <1>1, <1>2, <3>1
    <2>2. ASSUME NEW n \in 1..Depth, n - 1 \in S PROVE n \in S
        <3>1. ASSUME NEW p \in Near(n) PROVE p \in f[n]
            <4>1. CASE d[p] <= n - 1
                BY <1>5, <2>2, <4>1
            <4>2. CASE d[p] = n
                <5>1. PICK q \in had : d[q] = n - 1 /\ p \in Linked(q)
                    BY <1>1, <1>4, <4>2 DEF LedTo
                <5>2. q \in f[n - 1]
                    BY <1>3, <2>2, <5>1
                <5> QED
                    BY <1>5, <5>1, <5>2
            <4> QED
                BY <1>1, <1>4, <4>1, <4>2
        <3>2. n \in 0..Depth
            BY <1>1
        <3> QED
            BY <3>1, <3>2
    <2>3. \A k \in 1..Depth : k - 1 \in S => k \in S
        BY <2>2
    <2> HIDE DEF S
    <2> QED
        BY <1>1, <2>1, <2>3, UpTo
<1>8. b.visited \subseteq f[Depth]
    <2>1. Depth \in S
        BY <1>1, <1>7
    <2> QED
        BY <1>1, <1>4, <2>1
<1>9. ASSUME b.queue = <<>> PROVE f[Depth] \subseteq b.visited
    <2> DEFINE T == {n \in 0..Depth : f[n] \subseteq Near(n)}
    <2>1. \A p, n : Known(b, p, n, d) => p \in b.visited /\ d[p] <= n
        BY <1>9 DEF Known
    <2>2. 0 \in T
        <3>1. SeedUrl \in Near(0)
            BY <2>1 DEF Frontier
        <3> QED
            BY <1>1, <1>2, <3>1
    <2>3. ASSUME NEW n \in 1..Depth, n - 1 \in T PROVE n \in T
        <3>1. ASSUME NEW l \in f[n] PROVE l \in Near(n)
            <4>1. CASE l \in f[n - 1]
                <5>1. l \in b.visited /\ d[l] <= n - 1 /\ d[l] \in 0..Depth
                    BY <1>4, <2>3, <4>1
                <5> QED
                    BY <1>1, <5>1
            <4>2. CASE \E p \in f[n - 1] \cap had : l \in Linked(p)
                <5>1. PICK p \in f[n - 1] \cap had : l \in Linked(p)
                    BY <4>2
                <5>2. p \in b.visited /\ d[p] <= n - 1 /\ d[p] \in 0..Depth
                    BY <1>4, <2>3, <5>1
                <5>3. d[p] < Depth
                    BY <1>1, <5>2
                <5>4. Known(b, l, d[p] + 1, d)
                    BY <5>1, <5>3 DEF Frontier
                <5>5. l \in b.visited /\ d[l] <= d[p] + 1 /\ d[l] \in 0..Depth
                    BY <1>4, <2>1, <5>4
                <5> QED
                    BY <1>1, <5>2, <5>5
            <4> QED
                BY <1>6, <4>1, <4>2
        <3>2. n \in 0..Depth
            BY <1>1
        <3> QED
            BY <3>1, <3>2
    <2>4. \A k \in 1..Depth : k - 1 \in T => k \in T
        BY <2>3
    <2>5. \A n \in 0..Depth : n \in T
        <3> HIDE DEF T
        <3> QED
            BY <1>1, <2>2, <2>4, UpTo
    <2>6. Depth \in T
        BY <1>1, <2>5
    <2> QED
        BY <2>6
<1>10. b.queue = <<>> => b.visited = f[Depth]
    BY <1>8, <1>9, Zenon
<1>11. Within(had) = f[Depth]
    BY <1>2
<1> QED
    BY <1>8, <1>10, <1>11, Zenon

\* What is got and listed when one more page is.
LEMMA OneMore ==
    ASSUME NEW listed \in Seq(Entries), NEW e \in Entries
    PROVE  /\ Append(listed, e) \in Seq(Entries)
           /\ Len(Append(listed, e)) = Len(listed) + 1
           /\ Urls(Append(listed, e)) = Urls(listed) \cup {e.url}
           /\ Got(Append(listed, e)) = Got(listed) \cup (IF e.is = "fetched" THEN {e.url} ELSE {})
<1> DEFINE more == Append(listed, e)
           n == Len(listed)
<1>1. n \in Nat /\ DOMAIN listed = 1..n
    OBVIOUS
<1>2. more \in Seq(Entries) /\ Len(more) = n + 1
    OBVIOUS
<1>3. DOMAIN more = 1..(n + 1) /\ \A i \in 1..n : more[i] = listed[i]
    BY <1>1, <1>2
<1>4. more[n + 1] = e
    BY <1>1, <1>2
<1>5. \A i \in 1..(n + 1) : i = n + 1 \/ i \in 1..n
    BY <1>1
<1>6. n + 1 \in 1..(n + 1) /\ \A i \in 1..n : i \in 1..(n + 1)
    BY <1>1
<1> HIDE DEF more, n
<1>7. Urls(more) = Urls(listed) \cup {e.url}
    BY <1>1, <1>3, <1>4, <1>5, <1>6 DEF Urls
<1>8. \A q : q \in Got(more) <=> q \in Got(listed) \/ (q = e.url /\ e.is = "fetched")
    <2>1. \A l, q : q \in Got(l) <=> \E i \in DOMAIN l : l[i].is = "fetched" /\ l[i].url = q
        BY DEF Got
    <2> QED
        BY <1>1, <1>3, <1>4, <1>5, <1>6, <2>1
<1>9. Got(more) = Got(listed) \cup (IF e.is = "fetched" THEN {e.url} ELSE {})
    BY <1>8
<1> QED
    BY <1>2, <1>7, <1>9 DEF more, n

\* From b to a, p, at n steps and before q in the queue, is looked at: its links
\* join the queue if it is got now.
QueueMoves(b, a, p, n, q) ==
    /\ a.visited = b.visited \cup {p}
    /\ Got(b.pages) \subseteq Got(a.pages) /\ Got(a.pages) \subseteq Got(b.pages) \cup {p}
    /\ p \in b.visited => Got(a.pages) = Got(b.pages)
    /\ a.queue \in Seq(Queued) /\ Len(q) <= Len(a.queue)
    /\ \A i \in 1..Len(q) : a.queue[i] = q[i]
    /\ \A i \in 1..Len(a.queue) : i > Len(q) =>
          /\ p \in Got(a.pages) \ b.visited
          /\ a.queue[i].depth = n + 1 /\ a.queue[i].url \in Linked(p)
    /\ p \in Got(a.pages) /\ p \notin b.visited /\ n < Depth =>
          \A l \in Linked(p) \ a.visited :
             \E i \in 1..Len(a.queue) : a.queue[i].url = l /\ a.queue[i].depth = n + 1

\* It leaves a frontier.
LEMMA FrontierMoves ==
    ASSUME site \in Sites, NEW a, NEW b, Listing(b), NEW d, Frontier(b, d), b.queue # <<>>,
           NEW p, NEW n, NEW q, p = Head(b.queue).url, n = Head(b.queue).depth, q = Tail(b.queue),
           QueueMoves(b, a, p, n, q)
    PROVE  \E e : Frontier(a, e)
<1> USE DEF QueueMoves
<1>1. Depth \in Nat
    BY CrawlAssumption
<1>2. /\ b.queue \in Seq(Queued) /\ Len(b.queue) \in Nat /\ 1 \in 1..Len(b.queue)
      /\ Head(b.queue) = b.queue[1] /\ Head(b.queue) \in Queued
    <2>1. b.queue \in Seq(Queued)
        BY DEF Frontier
    <2> QED
        BY <2>1
<1>3. /\ q \in Seq(Queued) /\ Len(q) \in Nat /\ Len(b.queue) = Len(q) + 1
      /\ \A i \in 1..Len(q) : q[i] = b.queue[i + 1] /\ i + 1 \in 1..Len(b.queue)
      /\ \A i \in 1..Len(b.queue) : i = 1 \/ (i - 1 \in 1..Len(q) /\ b.queue[i] = q[i - 1])
    <2>1. q \in Seq(Queued) /\ Len(q) \in Nat /\ Len(b.queue) = Len(q) + 1
        BY <1>2
    <2>2. \A i \in 1..Len(q) : q[i] = b.queue[i + 1] /\ i + 1 \in 1..Len(b.queue)
        BY <1>2
    <2>3. \A i \in 1..Len(b.queue) : i = 1 \/ (i - 1 \in 1..Len(q) /\ i = (i - 1) + 1)
        BY <1>2, <2>1
    <2> QED
        BY <2>1, <2>2, <2>3
<1>4. p \in Page /\ n \in 0..Depth /\ \A i \in 1..Len(q) : q[i].depth \in 0..Depth
    <2>1. p \in Page /\ n \in 0..Depth
        BY <1>2 DEF Queued
    <2>2. \A i \in 1..Len(q) : q[i] \in Queued
        BY <1>3
    <2> QED
        BY <2>1, <2>2 DEF Queued
<1>5. /\ d \in [b.visited -> 0..Depth]
      /\ \A x \in b.visited : d[x] \in 0..Depth /\ LedTo(b, x, d[x], d)
      /\ LedTo(b, p, n, d) /\ \A x \in b.visited : d[x] <= n
    BY <1>2 DEF Frontier
<1>6. \A i \in 1..Len(q) : /\ LedTo(b, q[i].url, q[i].depth, d) /\ n <= q[i].depth /\ q[i].depth <= n + 1
                           /\ \A j \in i..Len(q) : /\ q[i].depth <= q[j].depth
                                                   /\ q[j].depth <= q[i].depth + 1
    <2> SUFFICES ASSUME NEW i \in 1..Len(q)
                 PROVE  /\ LedTo(b, q[i].url, q[i].depth, d) /\ n <= q[i].depth /\ q[i].depth <= n + 1
                        /\ \A j \in i..Len(q) : /\ q[i].depth <= q[j].depth
                                                /\ q[j].depth <= q[i].depth + 1
        OBVIOUS
    <2>1. i + 1 \in 1..Len(b.queue) /\ q[i] = b.queue[i + 1]
        BY <1>3
    <2>2. LedTo(b, q[i].url, q[i].depth, d)
        BY <2>1 DEF Frontier
    <2>3. i + 1 \in 1..Len(b.queue)
        BY <2>1
    <2>4. n <= q[i].depth /\ q[i].depth <= n + 1
        BY <1>2, <2>1, <2>3 DEF Frontier
    <2>5. ASSUME NEW j \in i..Len(q)
          PROVE  q[i].depth <= q[j].depth /\ q[j].depth <= q[i].depth + 1
        <3>1. j \in 1..Len(q) /\ j + 1 \in (i + 1)..Len(b.queue)
            BY <1>3
        <3>2. q[j] = b.queue[j + 1]
            BY <1>3, <3>1
        <3> QED
            BY <2>1, <3>1, <3>2 DEF Frontier
    <2> QED
        BY <2>2, <2>4, <2>5
<1>7. Got(b.pages) \subseteq b.visited
    BY DEF Listing, Got, Urls
<1>8. PICK e :
      /\ e \in [a.visited -> 0..Depth]
      /\ \A x \in b.visited : e[x] = d[x]
      /\ p \in a.visited /\ e[p] <= n /\ (p \notin b.visited => e[p] = n)
      /\ \A x \in a.visited : x \in b.visited \/ (x = p /\ p \notin b.visited)
    <2> DEFINE f == [x \in b.visited \cup {p} |-> IF x \in b.visited THEN d[x] ELSE n]
    <2>1. /\ f \in [a.visited -> 0..Depth]
          /\ \A x \in b.visited : f[x] = d[x]
          /\ p \in a.visited /\ f[p] <= n /\ (p \notin b.visited => f[p] = n)
          /\ \A x \in a.visited : x \in b.visited \/ (x = p /\ p \notin b.visited)
        BY <1>1, <1>4, <1>5
    <2> HIDE DEF f
    <2> QED
        BY <2>1
<1>9. e[p] \in 0..Depth /\ \A x \in a.visited : e[x] \in 0..Depth /\ e[x] <= n
    BY <1>5, <1>8
<1>11. ASSUME NEW x, NEW m, LedTo(b, x, m, d) PROVE LedTo(a, x, m, e)
    <2>1. CASE m = 0 /\ x = SeedUrl
        BY <2>1 DEF LedTo
    <2>2. CASE \E r \in Got(b.pages) : d[r] = m - 1 /\ x \in Linked(r)
        <3>1. PICK r \in Got(b.pages) : d[r] = m - 1 /\ x \in Linked(r)
            BY <2>2
        <3>2. r \in Got(a.pages) /\ e[r] = m - 1 /\ x \in Linked(r)
            BY <1>7, <1>8, <3>1
        <3> QED
            BY <3>2 DEF LedTo
    <2> QED
        BY <1>11, <2>1, <2>2 DEF LedTo
<1>12. ASSUME NEW x, NEW m \in Nat, Known(b, x, m, d) PROVE Known(a, x, m, e)
    <2>1. CASE x \in b.visited /\ d[x] <= m
        BY <1>8, <2>1 DEF Known
    <2>2. CASE \E i \in 1..Len(b.queue) : b.queue[i].url = x /\ b.queue[i].depth <= m
        <3>1. PICK i \in 1..Len(b.queue) : b.queue[i].url = x /\ b.queue[i].depth <= m
            BY <2>2
        <3>2. CASE i = 1
            <4>1. x = p /\ n <= m
                BY <1>2, <3>1, <3>2
            <4>2. e[p] <= m
                BY <1>4, <1>8, <1>9, <4>1
            <4> QED
                BY <1>8, <4>1, <4>2 DEF Known
        <3>3. CASE i # 1
            <4>1. i - 1 \in 1..Len(q) /\ b.queue[i] = q[i - 1]
                BY <1>3, <3>3
            <4>2. a.queue[i - 1] = b.queue[i]
                BY <4>1
            <4>3. i - 1 \in 1..Len(a.queue)
                BY <1>3, <4>1
            <4> QED
                BY <3>1, <4>2, <4>3 DEF Known
        <3> QED
            BY <3>2, <3>3
    <2> QED
        BY <1>12, <2>1, <2>2 DEF Known
<1>13. \A i \in 1..Len(a.queue) : \/ i \in 1..Len(q) /\ a.queue[i] = q[i]
                                 \/ /\ i > Len(q) /\ p \in Got(a.pages) /\ p \notin b.visited
                                    /\ a.queue[i].depth = n + 1 /\ a.queue[i].url \in Linked(p)
    BY <1>3
<1>14. \A x \in a.visited : LedTo(a, x, e[x], e)
    BY <1>5, <1>8, <1>11
<1>15. ASSUME NEW i \in 1..Len(a.queue) PROVE LedTo(a, a.queue[i].url, a.queue[i].depth, e)
    <2>1. CASE i \in 1..Len(q) /\ a.queue[i] = q[i]
        BY <1>6, <1>11, <2>1
    <2>2. CASE /\ p \in Got(a.pages) /\ p \notin b.visited
               /\ a.queue[i].depth = n + 1 /\ a.queue[i].url \in Linked(p)
        <3>1. e[p] = a.queue[i].depth - 1
            BY <1>4, <1>8, <2>2
        <3> QED
            BY <2>2, <3>1 DEF LedTo
    <2> QED
        BY <1>13, <2>1, <2>2
<1>16. \A i \in 1..Len(a.queue) : n <= a.queue[i].depth /\ a.queue[i].depth <= n + 1
    <2> SUFFICES ASSUME NEW i \in 1..Len(a.queue)
                 PROVE  n <= a.queue[i].depth /\ a.queue[i].depth <= n + 1
        OBVIOUS
    <2>1. CASE i \in 1..Len(q) /\ a.queue[i] = q[i]
        BY <1>6, <2>1
    <2>2. CASE a.queue[i].depth = n + 1
        BY <1>1, <1>4, <2>2
    <2> QED
        BY <1>13, <2>1, <2>2
<1>22. \A i \in 1..Len(a.queue) : a.queue[i].depth \in Nat
    <2>1. \A i \in 1..Len(a.queue) : a.queue[i] \in Queued
        OBVIOUS
    <2>2. \A x \in Queued : x.depth \in Nat
        BY <1>1 DEF Queued
    <2> QED
        BY <2>1, <2>2
<1>17. ASSUME NEW i \in 1..Len(a.queue), NEW j \in i..Len(a.queue)
       PROVE  a.queue[i].depth <= a.queue[j].depth /\ a.queue[j].depth <= a.queue[i].depth + 1
    <2>1. j \in 1..Len(a.queue)
        OBVIOUS
    <2>2. /\ a.queue[i].depth \in Nat /\ a.queue[j].depth \in Nat
          /\ n <= a.queue[i].depth /\ a.queue[i].depth <= n + 1
          /\ n <= a.queue[j].depth /\ a.queue[j].depth <= n + 1
        BY <1>16, <1>22, <2>1
    <2>3. CASE j \in 1..Len(q)
        <3>1. i \in 1..Len(q) /\ j \in i..Len(q)
            BY <1>3, <2>3
        <3> QED
            BY <1>6, <2>3, <3>1
    <2>4. CASE j \notin 1..Len(q)
        <3>1. a.queue[j].depth = n + 1
            BY <1>13, <2>1, <2>4
        <3> QED
            BY <1>4, <2>2, <3>1, SMTT(30)
    <2> QED
        BY <2>3, <2>4
<1>18. ASSUME NEW i \in 1..Len(a.queue), NEW x \in a.visited PROVE e[x] <= a.queue[i].depth
    <2>1. a.queue[i].depth \in Nat /\ n <= a.queue[i].depth
        BY <1>16, <1>22
    <2>2. n \in Nat /\ e[x] \in 0..Depth /\ e[x] <= n
        BY <1>1, <1>4, <1>9
    <2>3. e[x] \in Int
        BY <2>2
    <2> QED
        BY <2>1, <2>2, <2>3
<1>19. Known(a, SeedUrl, 0, e)
    BY <1>12 DEF Frontier
<1>20. ASSUME NEW x \in Got(a.pages), e[x] < Depth, NEW l \in Linked(x)
       PROVE  Known(a, l, e[x] + 1, e)
    <2>1. CASE x \in Got(b.pages)
        <3>1. e[x] = d[x] /\ d[x] \in 0..Depth
            BY <1>5, <1>7, <1>8, <2>1
        <3>2. Known(b, l, d[x] + 1, d)
            BY <1>20, <2>1, <3>1 DEF Frontier
        <3>3. d[x] + 1 \in Nat
            BY <1>1, <3>1
        <3> QED
            BY <1>12, <3>1, <3>2, <3>3
    <2>2. CASE x \notin Got(b.pages)
        <3>1. x = p /\ p \notin b.visited
            BY <1>20, <2>2
        <3>2. e[p] = n
            BY <1>8, <3>1
        <3>3. CASE l \in a.visited
            <4>1. e[l] <= n + 1
                BY <1>4, <1>9, <3>3
            <4> QED
                BY <3>1, <3>2, <3>3, <4>1 DEF Known
        <3>4. CASE l \notin a.visited
            <4>1. \E i \in 1..Len(a.queue) : a.queue[i].url = l /\ a.queue[i].depth = n + 1
                BY <1>20, <3>1, <3>2, <3>4
            <4>2. n + 1 <= n + 1
                BY <1>4
            <4> QED
                BY <3>1, <3>2, <4>1, <4>2 DEF Known
        <3> QED
            BY <3>3, <3>4
    <2> QED
        BY <2>1, <2>2
<1>21. \A x \in Got(a.pages) : e[x] < Depth => \A l \in Linked(x) : Known(a, l, e[x] + 1, e)
    BY <1>20
<1> QED
    BY <1>8, <1>14, <1>15, <1>17, <1>18, <1>19, <1>21 DEF Frontier

\* A turn of the loop keeps the listing and the frontier.
LEMMA VisitKeeps ==
    ASSUME site \in Sites, NEW b, Listing(b), NEW d, Frontier(b, d), More(b), NEW a \in Turns(b)
    PROVE  Listing(a) /\ \E e : Frontier(a, e)
<1> DEFINE item == Head(b.queue)
<1>1. PICK p, n, q : p = item.url /\ n = item.depth /\ q = Tail(b.queue)
    OBVIOUS
<1>2. /\ b.queue \in Seq(Queued) /\ b.queue # <<>> /\ item \in Queued
      /\ q \in Seq(Queued) /\ Len(q) \in Nat
    <2>1. b.queue \in Seq(Queued) /\ b.queue # <<>>
        BY DEF Frontier, More
    <2> QED
        BY <1>1, <2>1
<1>3. p \in Page /\ n \in 0..Depth /\ Depth \in Nat /\ MaxPages \in Nat
    BY <1>1, <1>2, CrawlAssumption DEF Queued
<1>5. \A i \in 1..Len(q) : ~(i > Len(q))
    BY <1>2
<1>4. Len(b.pages) < MaxPages
    BY DEF More
<1>6. /\ a = [rules |-> b.rules, queue |-> a.queue, visited |-> b.visited \cup {p}, pages |-> a.pages]
      /\ \/ p \in b.visited /\ a.queue = q /\ a.pages = b.pages
         \/ /\ p \notin b.visited /\ a.queue = q
            /\ \E o \in {"blocked", "failed"} : a.pages = Append(b.pages, [url |-> p, is |-> o])
         \/ /\ p \notin b.visited /\ CanFetch(b.rules, p)
            /\ a.pages = Append(b.pages, [url |-> p, is |-> "fetched"])
            /\ a.queue = Pushed(q, item, a.visited)
    <2> DEFINE As(is) == Append(b.pages, [url |-> p, is |-> is])
               Leaves(rest, listed) == [rules |-> b.rules, queue |-> rest,
                                        visited |-> b.visited \cup {p}, pages |-> listed]
    <2>1. \/ p \in b.visited /\ a = Leaves(q, b.pages)
          \/ p \notin b.visited /\ \E o \in {"blocked", "failed"} : a = Leaves(q, As(o))
          \/ /\ p \notin b.visited /\ CanFetch(b.rules, p)
             /\ a = Leaves(Pushed(q, item, b.visited \cup {p}), As("fetched"))
        <3>1. CASE p \in b.visited
            BY <1>1, <3>1 DEF Turns
        <3>2. CASE p \notin b.visited /\ ~CanFetch(b.rules, p)
            BY <1>1, <3>2 DEF Turns
        <3>3. CASE p \notin b.visited /\ CanFetch(b.rules, p)
            BY <1>1, <3>3 DEF Turns
        <3> QED
            BY <3>1, <3>2, <3>3
    <2> HIDE DEF item
    <2>2. \A rest, listed : a = Leaves(rest, listed) =>
             a.queue = rest /\ a.visited = b.visited \cup {p} /\ a.pages = listed
        OBVIOUS
    <2> HIDE DEF As
    <2>3. CASE p \in b.visited /\ a = Leaves(q, b.pages)
        BY <2>2, <2>3
    <2>4. CASE p \notin b.visited /\ \E o \in {"blocked", "failed"} : a = Leaves(q, As(o))
        BY <2>2, <2>4 DEF As
    <2>5. CASE /\ p \notin b.visited /\ CanFetch(b.rules, p)
               /\ a = Leaves(Pushed(q, item, b.visited \cup {p}), As("fetched"))
        BY <2>2, <2>5 DEF As
    <2> QED
        BY <2>1, <2>3, <2>4, <2>5
<1>11. a.rules = b.rules /\ a.visited = b.visited \cup {p}
    BY <1>6
<1>7. CASE p \in b.visited /\ a.queue = q /\ a.pages = b.pages
    <2>1. a.visited = b.visited
        BY <1>7, <1>11
    <2>2. Listing(a)
        BY <1>6, <1>7, <1>11, <2>1 DEF Listing
    <2>3. \E e : Frontier(a, e)
        <3>1. Got(a.pages) = Got(b.pages)
            BY <1>7
        <3>2. a.queue \in Seq(Queued) /\ Len(q) <= Len(a.queue)
            BY <1>2, <1>7
        <3>3. QueueMoves(b, a, p, n, q)
            BY <1>5, <1>7, <1>11, <3>1, <3>2 DEF QueueMoves
        <3> QED
            BY <1>1, <1>2, <3>3, FrontierMoves
    <2> QED
        BY <2>2, <2>3
<1>8. ASSUME p \notin b.visited, NEW o \in {"blocked", "failed", "fetched"},
             a.pages = Append(b.pages, [url |-> p, is |-> o]),
             o = "fetched" => CanFetch(b.rules, p)
      PROVE  /\ Listing(a)
             /\ Got(a.pages) = Got(b.pages) \cup (IF o = "fetched" THEN {p} ELSE {})
    <2>1. /\ a.pages \in Seq(Entries) /\ Len(a.pages) = Len(b.pages) + 1
          /\ Urls(a.pages) = Urls(b.pages) \cup {p}
          /\ Got(a.pages) = Got(b.pages) \cup (IF o = "fetched" THEN {p} ELSE {})
        <3> DEFINE e == [url |-> p, is |-> o]
        <3>1. e \in Entries /\ e.url = p /\ e.is = o
            BY <1>3 DEF Entries
        <3>2. b.pages \in Seq(Entries) /\ a.pages = Append(b.pages, e)
            BY <1>8 DEF Listing
        <3> HIDE DEF e
        <3>3. PICK l : l = b.pages
            OBVIOUS
        <3>4. /\ Append(l, e) \in Seq(Entries) /\ Len(Append(l, e)) = Len(l) + 1
              /\ Urls(Append(l, e)) = Urls(l) \cup {e.url}
              /\ Got(Append(l, e)) = Got(l) \cup (IF e.is = "fetched" THEN {e.url} ELSE {})
            BY <3>1, <3>2, <3>3, OneMore
        <3> QED
            BY <3>1, <3>2, <3>3, <3>4
    <2>2. Len(b.pages) \in Nat /\ Len(a.pages) <= MaxPages
        <3>1. Len(b.pages) \in Nat
            BY DEF Listing
        <3> QED
            BY <1>3, <1>4, <2>1, <3>1
    <2>3. a.visited = Urls(a.pages)
        BY <1>11, <2>1 DEF Listing
    <2>4. IsFiniteSet(a.visited) /\ Cardinality(a.visited) = Len(a.pages)
        <3>1. IsFiniteSet(b.visited) /\ Cardinality(b.visited) = Len(b.pages)
            BY DEF Listing
        <3>2. /\ IsFiniteSet(b.visited \cup {p})
              /\ Cardinality(b.visited \cup {p}) = Cardinality(b.visited) + 1
            BY <1>8, <3>1, FS_AddElement
        <3> QED
            BY <1>11, <2>1, <3>1, <3>2
    <2>5. \A x \in Got(a.pages) : CanFetch(b.rules, x)
        BY <1>8, <2>1 DEF Listing
    <2> QED
        BY <1>6, <1>11, <2>1, <2>2, <2>3, <2>4, <2>5 DEF Listing
<1>9. CASE p \notin b.visited /\ a.queue = q
           /\ \E o \in {"blocked", "failed"} : a.pages = Append(b.pages, [url |-> p, is |-> o])
    <2>1. PICK o \in {"blocked", "failed"} : a.pages = Append(b.pages, [url |-> p, is |-> o])
        BY <1>9
    <2>2. o \in {"blocked", "failed", "fetched"} /\ o # "fetched"
        OBVIOUS
    <2>3. Listing(a) /\ Got(a.pages) = Got(b.pages)
        BY <1>8, <1>9, <2>1, <2>2
    <2>4. a.queue \in Seq(Queued) /\ Len(q) <= Len(a.queue)
        BY <1>2, <1>9
    <2>5. p \notin Got(a.pages)
        BY <1>9, <2>3 DEF Listing, Got, Urls
    <2>6. \E e : Frontier(a, e)
        <3>1. QueueMoves(b, a, p, n, q)
            BY <1>5, <1>9, <1>11, <2>3, <2>4, <2>5 DEF QueueMoves
        <3> QED
            BY <1>1, <1>2, <3>1, FrontierMoves
    <2> QED
        BY <2>3, <2>6
<1>10. CASE /\ p \notin b.visited /\ CanFetch(b.rules, p)
            /\ a.pages = Append(b.pages, [url |-> p, is |-> "fetched"])
            /\ a.queue = Pushed(q, item, a.visited)
    <2>1. Listing(a) /\ Got(a.pages) = Got(b.pages) \cup {p}
        BY <1>8, <1>10
    <2>2. /\ a.queue \in Seq(Queued) /\ Len(q) <= Len(a.queue)
          /\ \A i \in 1..Len(q) : a.queue[i] = q[i]
          /\ \A i \in 1..Len(a.queue) : i > Len(q) =>
                a.queue[i].depth = n + 1 /\ a.queue[i].url \in Linked(p)
          /\ n < Depth => \A l \in Linked(p) \ a.visited :
                \E i \in 1..Len(a.queue) : a.queue[i].url = l /\ a.queue[i].depth = n + 1
        <3>1. CASE n < Depth
            <4>1. item.depth < Depth
                BY <1>1, <3>1
            <4> HIDE DEF item
            <4>2. PICK z, s : z = a.queue /\ s = a.visited
                OBVIOUS
            <4>3. z = Pushed(q, item, s)
                BY <1>10, <4>2
            <4>4. /\ z \in Seq(Queued) /\ Len(q) <= Len(z)
                  /\ \A i \in 1..Len(q) : z[i] = q[i]
                  /\ \A i \in 1..Len(z) : i > Len(q) =>
                        z[i].depth = item.depth + 1 /\ z[i].url \in Linked(item.url)
                  /\ \A l \in Linked(item.url) \ s :
                        \E i \in 1..Len(z) : z[i].url = l /\ z[i].depth = item.depth + 1
                BY <1>2, <4>1, <4>3, PushedIs
            <4> QED
                BY <1>1, <4>2, <4>4
        <3>2. CASE ~(n < Depth)
            <4>1. a.queue = q
                BY <1>1, <1>10, <3>2 DEF Pushed
            <4> QED
                BY <1>2, <1>5, <3>2, <4>1
        <3> QED
            BY <3>1, <3>2
    <2>3. \A i \in 1..Len(a.queue) : i > Len(q) =>
             /\ p \in Got(a.pages) \ b.visited
             /\ a.queue[i].depth = n + 1 /\ a.queue[i].url \in Linked(p)
        BY <1>10, <2>1, <2>2
    <2>4. Got(b.pages) \subseteq Got(a.pages) /\ Got(a.pages) \subseteq Got(b.pages) \cup {p}
        BY <2>1
    <2>5. \E e : Frontier(a, e)
        <3>1. p \in b.visited => Got(a.pages) = Got(b.pages)
            BY <1>10
        <3>2. p \in Got(a.pages) /\ p \notin b.visited /\ n < Depth =>
                 \A l \in Linked(p) \ a.visited :
                    \E i \in 1..Len(a.queue) : a.queue[i].url = l /\ a.queue[i].depth = n + 1
            BY <2>2
        <3>3. /\ a.queue \in Seq(Queued) /\ Len(q) <= Len(a.queue)
              /\ \A i \in 1..Len(q) : a.queue[i] = q[i]
            BY <2>2
        <3>4. QueueMoves(b, a, p, n, q)
            BY <1>11, <2>3, <2>4, <3>1, <3>2, <3>3 DEF QueueMoves
        <3> QED
            BY <1>1, <1>2, <3>4, FrontierMoves
    <2> QED
        BY <2>1, <2>5
<1> QED
    BY <1>6, <1>7, <1>9, <1>10

\* It holds at the start.
LEMMA CrawlInitInv == CrawlInit => CrawlInv
BY DEF CrawlInit, CrawlInv, CrawlExact, OneCrawler, Places

\* A crawl begins with the seed in the queue, and nothing listed.
LEMMA CrawlBegins ==
    ASSUME NEW a \in Begun
    PROVE  UnderWay(a)
<1>1. Depth \in Nat /\ MaxPages \in Nat /\ SeedUrl \in Page
    BY CrawlAssumption
<1>2. PICK r : a = [rules |-> r, queue |-> <<[url |-> SeedUrl, depth |-> 0]>>,
                    visited |-> {}, pages |-> <<>>]
    BY DEF Begun, NoCrawl
<1>3. /\ a.rules = r /\ a.queue = <<[url |-> SeedUrl, depth |-> 0]>>
      /\ a.visited = {} /\ a.pages = <<>>
    BY <1>2
<1>4. Urls(a.pages) = {} /\ Got(a.pages) = {}
    BY <1>3 DEF Urls, Got
<1>5. Listing(a)
    <2>1. IsFiniteSet({}) /\ Cardinality({}) = 0
        BY FS_EmptySet
    <2>2. /\ a.pages \in Seq(Entries)
          /\ Len(a.pages) = 0
        BY <1>3
    <2> QED
        BY <1>1, <1>2, <1>3, <1>4, <2>1, <2>2 DEF Listing
<1>6. PICK e : e \in [{} -> 0..Depth]
    <2>1. [x \in {} |-> 0] \in [{} -> 0..Depth]
        OBVIOUS
    <2> QED
        BY <2>1
<1>7. /\ a.queue \in Seq(Queued) /\ Len(a.queue) = 1
      /\ a.queue[1].url = SeedUrl /\ a.queue[1].depth = 0
    BY <1>1, <1>3 DEF Queued
<1>8. LedTo(a, SeedUrl, 0, e) /\ Known(a, SeedUrl, 0, e)
    BY <1>7 DEF LedTo, Known
<1>9. \A i \in 1..Len(a.queue) : i = 1 /\ \A j \in i..Len(a.queue) : j = 1
    BY <1>7
<1>10. Frontier(a, e)
    BY <1>3, <1>4, <1>6, <1>7, <1>8, <1>9 DEF Frontier
<1> QED
    BY <1>5, <1>10 DEF UnderWay

\* A row that is not written stays exact, and so does one that has not succeeded.
LEMMA ExactStays ==
    ASSUME CrawlExact, site' = site,
           (scraped' = scraped /\ scrape' = scrape) \/ scrape' # "succeeded"
    PROVE  CrawlExact'
<1>1. \A g : Within(g)' = Within(g)
    BY DEF Within
<1> QED
    BY <1>1 DEF CrawlExact

\* What a crawl that ends lists is exact.
LEMMA FinishIsExact ==
    ASSUME site \in Sites, NEW b, UnderWay(b), ~More(b), scraped' = b, site' = site
    PROVE  CrawlExact'
<1>1. PICK d : Frontier(b, d)
    BY DEF UnderWay
<1>2. Listing(b) /\ (b.queue = <<>> \/ ~(Len(b.pages) < MaxPages))
    BY DEF UnderWay, More
<1>3. /\ Cardinality(Urls(b.pages)) = Len(b.pages) /\ Len(b.pages) <= MaxPages
      /\ b.visited = Urls(b.pages) /\ \A p \in Got(b.pages) : CanFetch(b.rules, p)
    BY <1>2 DEF Listing
<1>4. /\ Urls(b.pages) \subseteq Within(Got(b.pages))
      /\ Len(b.pages) < MaxPages => Urls(b.pages) = Within(Got(b.pages))
    BY <1>1, <1>2, <1>3, ListedIs
<1>5. \A g : Within(g)' = Within(g)
    BY DEF Within
<1> QED
    BY <1>3, <1>4, <1>5 DEF CrawlExact, Urls, Got

\* Every step keeps it.
LEMMA CrawlStepInv == CrawlInv /\ [CrawlNext]_crawlVars => CrawlInv'
<1> SUFFICES ASSUME CrawlInv, [CrawlNext]_crawlVars PROVE CrawlInv'
    OBVIOUS
<1> USE DEF CrawlInv
<1>1. site' = site
    BY DEF CrawlNext, crawlVars, InsertScrape, EnqueueScrape, SubmitDies, ReclaimScrape,
        RequeueScrape, ClaimScrape, SkipScrape, ReadScrape, MarkRunning, VisitNext, StoreListing,
        SettleJob, CrawlRaises, Rethrow, Breaks, CrawlerDies, Returns, Throws
<1>2. ASSUME NEW b PROVE UnderWay(b)' <=> UnderWay(b)
    BY <1>1 DEF UnderWay, Frontier, LedTo, Known, Linked, Listing, Urls, Got
\* What the crawls of a step that begins none are.
<1>3. ASSUME \A c \in Crawler : crawlAt'[c] = "crawling" =>
                 crawlAt[c] = "crawling" /\ crawl'[c] = crawl[c]
      PROVE  (\A c \in Crawler : \A b : crawlAt[c] = "crawling" /\ b = crawl[c] => UnderWay(b))'
    BY <1>2, <1>3
<1>4. ASSUME scraped' = scraped, scrape' = scrape \/ scrape' # "succeeded" PROVE CrawlExact'
    BY <1>1, <1>4, ExactStays
<1>5. ASSUME NEW c \in Crawler, NEW src, NEW to \in Places, Moves(c, src, to)
      PROVE  /\ crawlAt' \in [Crawler -> Places]
             /\ crawlAt[c] = src /\ crawlAt'[c] = to
             /\ \A e \in Crawler \ {c} : crawlAt'[e] = crawlAt[e]
    BY <1>5 DEF Moves
<1>6. {"idle", "entry", "mark", "crawling", "stored", "raised"} \subseteq Places
    BY DEF Places
<1>7. CASE InsertScrape
    BY <1>3, <1>4, <1>7 DEF InsertScrape, OneCrawler, HasEnded
<1>8. CASE EnqueueScrape
    BY <1>3, <1>4, <1>8 DEF EnqueueScrape, OneCrawler, HasEnded
<1>9. CASE SubmitDies
    BY <1>3, <1>4, <1>9 DEF SubmitDies, OneCrawler, HasEnded
<1>10. CASE ReclaimScrape
    BY <1>3, <1>4, <1>10 DEF ReclaimScrape, OneCrawler, HasEnded
<1>11. CASE RequeueScrape
    BY <1>3, <1>4, <1>11 DEF RequeueScrape, OneCrawler, HasEnded
<1>12. ASSUME NEW c \in Crawler, ClaimScrape(c) PROVE CrawlInv'
    BY <1>3, <1>4, <1>5, <1>6, <1>12 DEF ClaimScrape, OneCrawler, HasEnded
<1>13. ASSUME NEW c \in Crawler, SkipScrape(c) PROVE CrawlInv'
    BY <1>3, <1>4, <1>5, <1>6, <1>13 DEF SkipScrape, Returns, OneCrawler, HasEnded
<1>14. ASSUME NEW c \in Crawler, ReadScrape(c) PROVE CrawlInv'
    BY <1>3, <1>4, <1>5, <1>6, <1>14 DEF ReadScrape, OneCrawler, HasEnded
<1>15. ASSUME NEW c \in Crawler, MarkRunning(c) PROVE CrawlInv'
    <2>1. PICK k \in Begun : crawl' = [crawl EXCEPT ![c] = k]
        BY <1>15 DEF MarkRunning
    <2>2. /\ crawl' = [e \in Crawler |-> crawl'[e]] /\ crawl'[c] = k
          /\ \A e \in Crawler \ {c} : crawl'[e] = crawl[e]
        BY <2>1
    <2>3. /\ Moves(c, "mark", "crawling") /\ scrape' = "running"
          /\ UNCHANGED <<site, scraped, job, tries, submit, trouble>>
        BY <1>15 DEF MarkRunning
    <2>4. /\ crawlAt' \in [Crawler -> Places]
          /\ crawlAt[c] = "mark" /\ crawlAt'[c] = "crawling"
          /\ \A e \in Crawler \ {c} : crawlAt'[e] = crawlAt[e]
        BY <1>5, <1>6, <2>3
    <2>5. (\A e \in Crawler : \A b : crawlAt[e] = "crawling" /\ b = crawl[e] => UnderWay(b))'
        BY <1>2, <2>2, <2>4, CrawlBegins
    <2>6. CrawlExact'
        BY <1>4, <2>3
    <2>7. OneCrawler => OneCrawler'
        BY <2>3, <2>4 DEF OneCrawler
    <2>8. job # "none" /\ submit \notin {"new", "inserted", "died"}
        BY <2>4
    <2>9. trouble = {} => job = "running"
        BY <2>4 DEF OneCrawler
    <2> QED
        BY <2>2, <2>3, <2>4, <2>5, <2>6, <2>7, <2>8, <2>9
<1>16. ASSUME NEW c \in Crawler, VisitNext(c) PROVE CrawlInv'
    <2>1. PICK k \in Turns(crawl[c]) : crawl' = [crawl EXCEPT ![c] = k]
        BY <1>16 DEF VisitNext
    <2>2. /\ crawl' = [e \in Crawler |-> crawl'[e]] /\ crawl'[c] = k
          /\ \A e \in Crawler \ {c} : crawl'[e] = crawl[e]
        BY <2>1
    <2>3. /\ crawlAt[c] = "crawling" /\ More(crawl[c])
          /\ UNCHANGED <<site, scrape, scraped, job, tries, submit, crawlAt, trouble>>
        BY <1>16 DEF VisitNext
    <2>4. UnderWay(k)
        <3>1. PICK b : b = crawl[c]
            OBVIOUS
        <3>2. UnderWay(b) /\ More(b) /\ k \in Turns(b)
            BY <2>1, <2>3, <3>1
        <3> QED
            BY <3>2, VisitKeeps DEF UnderWay
    <2>5. (\A e \in Crawler : \A b : crawlAt[e] = "crawling" /\ b = crawl[e] => UnderWay(b))'
        BY <1>2, <2>2, <2>3, <2>4
    <2>6. CrawlExact'
        BY <1>4, <2>3
    <2>7. OneCrawler => OneCrawler'
        BY <2>3 DEF OneCrawler, HasEnded
    <2> QED
        BY <2>2, <2>3, <2>5, <2>6, <2>7
<1>17. ASSUME NEW c \in Crawler, StoreListing(c) PROVE CrawlInv'
    <2>1. /\ ~More(crawl[c]) /\ Moves(c, "crawling", "stored")
          /\ scrape' = "succeeded" /\ scraped' = crawl[c]
          /\ crawl' = [crawl EXCEPT ![c] = NoCrawl]
          /\ UNCHANGED <<site, job, tries, submit, trouble>>
        BY <1>17 DEF StoreListing
    <2>2. /\ crawl' = [e \in Crawler |-> crawl'[e]]
          /\ \A e \in Crawler \ {c} : crawl'[e] = crawl[e]
        BY <2>1
    <2>3. /\ crawlAt' \in [Crawler -> Places]
          /\ crawlAt[c] = "crawling" /\ crawlAt'[c] = "stored"
          /\ \A e \in Crawler \ {c} : crawlAt'[e] = crawlAt[e]
        BY <1>5, <1>6, <2>1
    <2>4. (\A e \in Crawler : \A b : crawlAt[e] = "crawling" /\ b = crawl[e] => UnderWay(b))'
        BY <1>3, <2>2, <2>3
    <2>5. CrawlExact'
        <3>1. PICK b : b = crawl[c]
            OBVIOUS
        <3>2. UnderWay(b) /\ ~More(b) /\ scraped' = b
            BY <2>1, <2>3, <3>1
        <3> QED
            BY <1>1, <3>2, FinishIsExact
    <2>6. OneCrawler => OneCrawler'
        BY <2>1, <2>3 DEF OneCrawler, HasEnded
    <2>7. job # "none" /\ submit \notin {"new", "inserted", "died"}
        BY <2>3
    <2>8. trouble = {} => job = "running"
        BY <2>3 DEF OneCrawler
    <2> QED
        BY <2>1, <2>2, <2>3, <2>4, <2>5, <2>6, <2>7, <2>8
<1>18. ASSUME NEW c \in Crawler, SettleJob(c) PROVE CrawlInv'
    BY <1>3, <1>4, <1>5, <1>6, <1>18 DEF SettleJob, Returns, OneCrawler, HasEnded
<1>19. ASSUME NEW c \in Crawler, CrawlRaises(c) PROVE CrawlInv'
    <2>1. /\ Moves(c, "crawling", "raised")
          /\ \/ scrape' = "failed" /\ trouble' = trouble
             \/ trouble' = trouble \cup {"error"} /\ scrape' = scrape
          /\ crawl' = [crawl EXCEPT ![c] = NoCrawl]
          /\ UNCHANGED <<site, scraped, job, tries, submit>>
        BY <1>19 DEF CrawlRaises
    <2>2. /\ crawl' = [e \in Crawler |-> crawl'[e]]
          /\ \A e \in Crawler \ {c} : crawl'[e] = crawl[e]
        BY <2>1
    <2>3. /\ crawlAt' \in [Crawler -> Places]
          /\ crawlAt[c] = "crawling" /\ crawlAt'[c] = "raised"
          /\ \A e \in Crawler \ {c} : crawlAt'[e] = crawlAt[e]
        BY <1>5, <1>6, <2>1
    <2>4. (\A e \in Crawler : \A b : crawlAt[e] = "crawling" /\ b = crawl[e] => UnderWay(b))'
        BY <1>3, <2>2, <2>3
    <2>5. CrawlExact'
        BY <1>4, <2>1
    <2>6. job # "none" /\ submit \notin {"new", "inserted", "died"}
        BY <2>3
    <2>7. "slow" \notin trouble' => OneCrawler'
        BY <2>1, <2>3 DEF OneCrawler, HasEnded
    <2>8. trouble' # {} \/ (trouble = {} /\ scrape' = "failed")
        BY <2>1
    <2>9. trouble' \subseteq {"error", "slow"} /\ scrape' \in {scrape, "failed"}
        BY <2>1
    <2> QED
        BY <2>1, <2>2, <2>3, <2>4, <2>5, <2>6, <2>7, <2>8, <2>9
<1>20. ASSUME NEW c \in Crawler, Rethrow(c) PROVE CrawlInv'
    BY <1>3, <1>4, <1>5, <1>6, <1>20 DEF Rethrow, Throws, OneCrawler, HasEnded
<1>21. ASSUME NEW c \in Crawler, Breaks(c) PROVE CrawlInv'
    <2>1. PICK src \in {"entry", "mark", "stored"} : Throws(c, src)
        BY <1>21 DEF Breaks
    <2>2. /\ Moves(c, src, "idle") /\ job' \in {"pending", "dead_letter"}
          /\ trouble' = trouble \cup {"error"}
          /\ UNCHANGED <<site, scrape, scraped, tries, submit, crawl>>
        BY <1>21, <2>1 DEF Breaks, Throws
    <2>3. /\ crawlAt' \in [Crawler -> Places]
          /\ crawlAt[c] # "idle" /\ crawlAt'[c] = "idle"
          /\ \A e \in Crawler \ {c} : crawlAt'[e] = crawlAt[e]
        BY <1>5, <1>6, <2>1, <2>2
    <2>4. (\A e \in Crawler : \A b : crawlAt[e] = "crawling" /\ b = crawl[e] => UnderWay(b))'
        BY <1>3, <2>2, <2>3
    <2>5. CrawlExact'
        BY <1>4, <2>2
    <2>6. job # "none" /\ submit \notin {"new", "inserted", "died"}
        BY <2>3
    <2>7. "slow" \notin trouble' => OneCrawler'
        BY <2>2, <2>3 DEF OneCrawler, HasEnded
    <2> QED
        BY <2>2, <2>3, <2>4, <2>5, <2>6, <2>7
<1>22. ASSUME NEW c \in Crawler, CrawlerDies(c) PROVE CrawlInv'
    <2>1. /\ crawlAt' = [crawlAt EXCEPT ![c] = "idle"] /\ crawl' = [crawl EXCEPT ![c] = NoCrawl]
          /\ UNCHANGED <<site, scrape, scraped, job, tries, submit, trouble>>
        BY <1>22 DEF CrawlerDies
    <2>2. /\ crawl' = [e \in Crawler |-> crawl'[e]]
          /\ \A e \in Crawler \ {c} : crawl'[e] = crawl[e]
        BY <2>1
    <2>3. /\ crawlAt' \in [Crawler -> Places] /\ crawlAt'[c] = "idle"
          /\ \A e \in Crawler \ {c} : crawlAt'[e] = crawlAt[e]
        BY <1>6, <2>1
    <2>4. (\A e \in Crawler : \A b : crawlAt[e] = "crawling" /\ b = crawl[e] => UnderWay(b))'
        BY <1>3, <2>2, <2>3
    <2>5. CrawlExact'
        BY <1>4, <2>1
    <2>6. OneCrawler => OneCrawler'
        BY <2>1, <2>3 DEF OneCrawler, HasEnded
    <2> QED
        BY <2>1, <2>2, <2>3, <2>4, <2>5, <2>6
<1>23. CASE UNCHANGED crawlVars
    <2>1. UNCHANGED <<site, scrape, scraped, job, submit, crawlAt, crawl, trouble>>
        BY <1>23 DEF crawlVars
    <2> QED
        BY <1>3, <1>4, <2>1 DEF OneCrawler, HasEnded
<1> QED
    BY <1>7, <1>8, <1>9, <1>10, <1>11, <1>12, <1>13, <1>14, <1>15, <1>16, <1>17, <1>18, <1>19,
       <1>20, <1>21, <1>22, <1>23 DEF CrawlNext

\* What the invariant says of a scrape.
LEMMA CrawlInvSound == CrawlInv => ScrapeSound
<1> SUFFICES ASSUME CrawlInv PROVE ScrapeSettles
    BY DEF CrawlInv, ScrapeSound
<1>1. ASSUME OneCrawler PROVE Cardinality({c \in Crawler : crawlAt[c] # "idle"}) <= 1
    <2> DEFINE busy == {c \in Crawler : crawlAt[c] # "idle"}
    <2>1. \A c, e \in busy : c = e
        BY <1>1 DEF OneCrawler
    <2>2. busy = {} \/ \E c : busy = {c}
        BY <2>1
    <2> HIDE DEF busy
    <2>3. Cardinality(busy) \in {0, 1}
        BY <2>2, FS_EmptySet, FS_Singleton
    <2> QED
        BY <2>3 DEF busy
<1> QED
    BY <1>1 DEF CrawlInv, ScrapeSettles, OneCrawler, HasEnded

-----------------------------------------------------------------------------
(* RateLimiter: an interval as long as a window meets two windows at most.  *)

\* g adds up f from the present on.
Sums(f, g) == /\ g \in [0..WindowMs -> Nat] /\ g[0] = 0
              /\ \A n \in 1..WindowMs : g[n] = g[n - 1] + f[n - 1]

\* The number of the last WindowMs steps that b's window reaches over.
Spans(now, b) == IF now - b.start < WindowMs THEN now - b.start + 1 ELSE WindowMs

\* What was admitted in the window of b is counted by b and within the limit, what
\* was admitted before it within the limit too, and nothing after it.
Bounded(now, f, b) ==
    /\ f \in [Ages -> Nat] /\ b \in [start : 0..now, count : Nat]
    /\ \E g : /\ Sums(f, g)
              /\ g[Spans(now, b)] <= b.count /\ g[Spans(now, b)] <= Limit
              /\ g[WindowMs] <= g[Spans(now, b)] + Limit
    /\ \A a \in Ages : b.count = 0 \/ now - a >= b.start + WindowMs => f[a] = 0

RateInv ==
    /\ clock \in Nat
    /\ bucket \in [Replica -> [start : 0..clock, count : Nat]]
    /\ admittedBy \in [Replica -> [Ages -> Nat]]
    /\ Bounded(clock, admitted, counter)
    /\ \A p \in Replica : Bounded(clock, admittedBy[p], bucket[p])

\* The sum is the one Total() takes.
LEMMA TotalIs ==
    ASSUME NEW f \in [Ages -> Nat], NEW g, Sums(f, g)
    PROVE  Total(f) = g[WindowMs]
<1>1. WindowMs \in Nat
    BY RateAssumption
<1> DEFINE Body(s) == [n \in 0..WindowMs |-> IF n = 0 THEN 0 ELSE s[n - 1] + f[n - 1]]
           h == CHOOSE s : s = Body(s)
<1>2. Total(f) = h[WindowMs]
    BY DEF Total
<1>3. /\ \A s : Body(s) = [n \in 0..WindowMs |-> Body(s)[n]]
      /\ \A s : Body(s)[0] = 0 /\ \A n \in 1..WindowMs : Body(s)[n] = s[n - 1] + f[n - 1]
    BY <1>1
<1> HIDE DEF Body
<1>4. g = Body(g)
    <2>1. \A n \in 0..WindowMs : n = 0 \/ n \in 1..WindowMs
        BY <1>1
    <2>2. \A n \in 0..WindowMs : g[n] = Body(g)[n]
        BY <1>3, <2>1 DEF Sums
    <2>3. g = [n \in 0..WindowMs |-> g[n]]
        BY DEF Sums
    <2> QED
        BY <1>3, <2>2, <2>3
<1>5. h = Body(h)
    BY <1>4
<1> HIDE DEF h
<1>6. h[0] = 0 /\ \A n \in 1..WindowMs : h[n] = h[n - 1] + f[n - 1]
    BY <1>3, <1>5
<1> DEFINE S == {n \in 0..WindowMs : h[n] = g[n]}
<1>7. 0 \in S
    BY <1>1, <1>6 DEF Sums
<1>8. \A n \in 1..WindowMs : n - 1 \in S => n \in S
    BY <1>1, <1>6 DEF Sums
<1>9. \A n \in 0..WindowMs : n \in S
    <2> HIDE DEF S
    <2> QED
        BY <1>1, <1>7, <1>8, UpTo
<1> QED
    BY <1>1, <1>2, <1>9

\* A sum does not fall as its interval grows.
LEMMA SumsGrow ==
    ASSUME NEW f \in [Ages -> Nat], NEW g, Sums(f, g), NEW i \in 0..WindowMs
    PROVE  \A j \in 0..WindowMs : i <= j => g[i] <= g[j]
<1>1. WindowMs \in Nat
    BY RateAssumption
<1> DEFINE S == {j \in 0..WindowMs : i <= j => g[i] <= g[j]}
<1>2. 0 \in S
    BY <1>1 DEF Sums
<1>3. ASSUME NEW j \in 1..WindowMs, j - 1 \in S PROVE j \in S
    <2>1. j - 1 \in Ages /\ j - 1 \in 0..WindowMs /\ j \in 0..WindowMs
        BY <1>1 DEF Ages
    <2>2. g[i] \in Nat /\ g[j - 1] \in Nat /\ f[j - 1] \in Nat /\ g[j] = g[j - 1] + f[j - 1]
        BY <2>1 DEF Sums
    <2>3. i <= j - 1 => g[i] <= g[j - 1]
        BY <1>3
    <2>4. i <= j => i = j \/ i <= j - 1
        BY <1>1
    <2> QED
        BY <2>1, <2>2, <2>3, <2>4
<1>4. \A j \in 1..WindowMs : j - 1 \in S => j \in S
    BY <1>3
<1>5. \A j \in 0..WindowMs : j \in S
    <2> HIDE DEF S
    <2> QED
        BY <1>1, <1>2, <1>4, UpTo
<1> QED
    BY <1>5

\* What is bounded by two windows is bounded by twice the limit.
LEMMA BoundedIsTwice ==
    ASSUME NEW now, NEW f, NEW b, now \in Nat, Bounded(now, f, b)
    PROVE  Total(f) <= 2 * Limit
<1>1. PICK g : /\ Sums(f, g) /\ g[Spans(now, b)] <= Limit
               /\ g[WindowMs] <= g[Spans(now, b)] + Limit
    BY DEF Bounded
<1>2. Total(f) = g[WindowMs]
    BY <1>1, TotalIs DEF Bounded
<1>3. WindowMs \in Nat /\ WindowMs > 0 /\ Limit \in Nat
    BY RateAssumption
<1>4. Spans(now, b) \in 0..WindowMs
    BY <1>3 DEF Spans, Bounded
<1>5. g[WindowMs] \in Nat /\ g[Spans(now, b)] \in Nat
    BY <1>1, <1>3, <1>4 DEF Sums
<1> QED
    BY <1>1, <1>2, <1>3, <1>5

\* Time goes on: the window of b reaches over one step more, or all of them.
LEMMA OlderBounded ==
    ASSUME NEW now \in Nat, NEW f, NEW b, Bounded(now, f, b)
    PROVE  Bounded(now + 1, Older(f), b)
<1>1. WindowMs \in Nat /\ WindowMs > 0 /\ Limit \in Nat
    BY RateAssumption
<1>2. f \in [Ages -> Nat] /\ b \in [start : 0..now, count : Nat]
    BY DEF Bounded
<1>3. b.start \in 0..now /\ b.count \in Nat
    BY <1>2
<1> DEFINE F == Older(f)
<1>4. /\ F \in [Ages -> Nat] /\ F[0] = 0
      /\ \A n \in 2..WindowMs : F[n - 1] = f[n - 2]
      /\ \A a \in Ages : a # 0 => a - 1 \in Ages /\ F[a] = f[a - 1]
    BY <1>1, <1>2 DEF Older, Ages
<1> HIDE DEF F
<1>5. PICK g : /\ Sums(f, g)
               /\ g[Spans(now, b)] <= b.count /\ g[Spans(now, b)] <= Limit
               /\ g[WindowMs] <= g[Spans(now, b)] + Limit
    BY DEF Bounded
<1>6. /\ g \in [0..WindowMs -> Nat] /\ g[0] = 0
      /\ \A n \in 1..WindowMs : g[n] = g[n - 1] + f[n - 1]
    BY <1>5 DEF Sums
<1> DEFINE G == [n \in 0..WindowMs |-> IF n = 0 THEN 0 ELSE g[n - 1]]
<1>7. /\ G \in [0..WindowMs -> Nat] /\ G[0] = 0
      /\ \A n \in 1..WindowMs : G[n] = g[n - 1]
    BY <1>1, <1>6
<1> HIDE DEF G
<1>8. Sums(F, G)
    <2>1. ASSUME NEW n \in 1..WindowMs PROVE G[n] = G[n - 1] + F[n - 1]
        <3>1. CASE n = 1
            BY <1>1, <1>4, <1>6, <1>7, <3>1
        <3>2. CASE n # 1
            <4>1. n \in 2..WindowMs /\ n - 1 \in 1..WindowMs /\ (n - 1) - 1 = n - 2
                BY <1>1, <3>2
            <4>2. g[n - 1] = g[n - 2] + f[n - 2]
                BY <1>6, <4>1
            <4>3. G[n] = g[n - 1] /\ G[n - 1] = g[n - 2] /\ F[n - 1] = f[n - 2]
                BY <1>4, <1>7, <4>1
            <4> QED
                BY <4>2, <4>3
        <3> QED
            BY <3>1, <3>2
    <2> QED
        BY <1>7, <2>1 DEF Sums
<1> DEFINE k == Spans(now, b)
           K == Spans(now + 1, b)
<1>9. /\ k \in 1..WindowMs /\ K \in 1..WindowMs
      /\ K = k + 1 \/ (k = WindowMs /\ K = WindowMs)
    BY <1>1, <1>3 DEF Spans
<1> HIDE DEF k, K
<1>10. g[WindowMs - 1] <= g[WindowMs] /\ g[WindowMs - 1] \in Nat /\ g[WindowMs] \in Nat /\ g[k] \in Nat
    <2>1. WindowMs - 1 \in 0..WindowMs /\ WindowMs \in 0..WindowMs /\ WindowMs - 1 <= WindowMs
          /\ k \in 0..WindowMs
        BY <1>1, <1>9
    <2>2. g[WindowMs - 1] <= g[WindowMs]
        BY <1>2, <1>5, <2>1, SumsGrow
    <2> QED
        BY <1>6, <2>1, <2>2
<1>11. G[K] = g[K - 1] /\ G[WindowMs] = g[WindowMs - 1]
    BY <1>1, <1>7, <1>9
<1>12. G[K] <= b.count /\ G[K] <= Limit /\ G[WindowMs] <= G[K] + Limit
    <2>1. CASE K = k + 1
        <3>1. K - 1 = k
            BY <1>9, <2>1
        <3> QED
            BY <1>1, <1>3, <1>5, <1>10, <1>11, <3>1 DEF k
    <2>2. CASE k = WindowMs /\ K = WindowMs
        BY <1>1, <1>3, <1>5, <1>10, <1>11, <2>2 DEF k
    <2> QED
        BY <1>9, <2>1, <2>2
<1>13. ASSUME NEW a \in Ages, b.count = 0 \/ (now + 1) - a >= b.start + WindowMs
       PROVE  F[a] = 0
    <2>1. CASE a = 0
        BY <1>4, <2>1
    <2>2. CASE a # 0
        <3>1. a - 1 \in Ages /\ F[a] = f[a - 1]
            BY <1>4, <2>2
        <3>2. a \in Nat /\ now - (a - 1) = (now + 1) - a
            BY <1>1 DEF Ages
        <3>3. b.count = 0 \/ now - (a - 1) >= b.start + WindowMs
            BY <1>13, <3>2
        <3> QED
            BY <3>1, <3>3 DEF Bounded
    <2> QED
        BY <2>1, <2>2
<1>14. b \in [start : 0..(now + 1), count : Nat]
    BY <1>2
<1> QED
    BY <1>4, <1>8, <1>12, <1>13, <1>14 DEF Bounded, F, K

\* A request is counted, in a new window when the old one is over, and admitted if
\* that is allowed.
LEMMA AdmitBounded ==
    ASSUME NEW now \in Nat, NEW f, NEW b, Bounded(now, f, b), NEW c,
           \/ c = [start |-> now, count |-> 1] /\ (b.count = 0 \/ now - b.start >= WindowMs)
           \/ c = [b EXCEPT !.count = b.count + 1] /\ now - b.start < WindowMs
    PROVE  Bounded(now, Admit(f, c), c)
<1>1. WindowMs \in Nat /\ WindowMs > 0 /\ Limit \in Nat /\ Limit > 0
    BY RateAssumption
<1>2. f \in [Ages -> Nat] /\ b \in [start : 0..now, count : Nat]
    BY DEF Bounded
<1>3. b.start \in 0..now /\ b.count \in Nat
    BY <1>2
<1>13. \A a \in Ages : b.count = 0 \/ now - a >= b.start + WindowMs => f[a] = 0
    BY DEF Bounded
<1>4. PICK g : /\ Sums(f, g)
               /\ g[Spans(now, b)] <= b.count /\ g[Spans(now, b)] <= Limit
               /\ g[WindowMs] <= g[Spans(now, b)] + Limit
    BY DEF Bounded
<1>5. /\ g \in [0..WindowMs -> Nat] /\ g[0] = 0
      /\ \A n \in 1..WindowMs : g[n] = g[n - 1] + f[n - 1]
    BY <1>4 DEF Sums
<1>14. f[0] \in Nat => g[1] = f[0]
    <2>1. 1 \in 1..WindowMs /\ 1 - 1 = 0
        BY <1>1
    <2>2. g[1] = g[0] + f[0]
        BY <1>5, <2>1
    <2> QED
        BY <1>5, <2>2
<1>6. PICK one : one = IF Allowed(c) THEN 1 ELSE 0
    OBVIOUS
<1> DEFINE F == Admit(f, c)
           G == [n \in 0..WindowMs |-> IF n = 0 THEN 0 ELSE g[n] + one]
<1>7. 0 \in Ages /\ one \in {0, 1}
    BY <1>1, <1>6 DEF Ages
<1>8. /\ F \in [Ages -> Nat] /\ F[0] = f[0] + one
      /\ \A a \in Ages : a # 0 => F[a] = f[a]
    BY <1>2, <1>6, <1>7 DEF Admit
<1>9. /\ G \in [0..WindowMs -> Nat] /\ G[0] = 0
      /\ \A n \in 1..WindowMs : G[n] = g[n] + one
    BY <1>1, <1>5, <1>7
<1> HIDE DEF F, G
<1>10. Sums(F, G)
    <2>1. ASSUME NEW n \in 1..WindowMs PROVE G[n] = G[n - 1] + F[n - 1]
        <3>1. CASE n = 1
            <4>1. g[1] = f[0] /\ f[0] \in Nat
                BY <1>2, <1>7, <1>14
            <4> QED
                BY <1>1, <1>7, <1>8, <1>9, <3>1, <4>1
        <3>2. CASE n # 1
            <4>1. n - 1 \in 1..WindowMs /\ n - 1 \in Ages /\ n - 1 # 0
                BY <1>1, <3>2 DEF Ages
            <4>2. g[n] = g[n - 1] + f[n - 1] /\ g[n - 1] \in Nat /\ f[n - 1] \in Nat
                BY <1>2, <1>5, <4>1
            <4>3. G[n] = g[n] + one /\ G[n - 1] = g[n - 1] + one /\ F[n - 1] = f[n - 1]
                BY <1>8, <1>9, <4>1
            <4> QED
                BY <1>7, <4>2, <4>3
        <3> QED
            BY <3>1, <3>2
    <2> QED
        BY <1>9, <2>1 DEF Sums
<1>11. CASE c = [start |-> now, count |-> 1] /\ (b.count = 0 \/ now - b.start >= WindowMs)
    <2>1. c \in [start : 0..now, count : Nat] /\ c.start = now /\ c.count = 1
        BY <1>11
    <2>2. one = 1
        BY <1>1, <1>6, <2>1 DEF Allowed
    <2>3. Spans(now, c) = 1
        BY <1>1, <2>1 DEF Spans
    <2>4. f[0] = 0
        <3>1. b.count = 0 \/ now - 0 >= b.start + WindowMs
            BY <1>1, <1>3, <1>11
        <3> QED
            BY <1>7, <1>13, <3>1
    <2>5. g[1] = 0
        BY <1>14, <2>4
    <2>6. g[WindowMs] <= Limit /\ g[WindowMs] \in Nat
        <3>1. CASE b.count = 0
            <4>1. Spans(now, b) \in 0..WindowMs
                BY <1>1, <1>3 DEF Spans
            <4>2. g[Spans(now, b)] \in Nat /\ g[WindowMs] \in Nat
                BY <1>1, <1>5, <4>1
            <4> QED
                BY <1>1, <1>4, <3>1, <4>2
        <3>2. CASE now - b.start >= WindowMs
            <4>1. Spans(now, b) = WindowMs
                BY <1>1, <1>3, <3>2 DEF Spans
            <4> QED
                BY <1>1, <1>4, <1>5, <4>1
        <3> QED
            BY <1>11, <3>1, <3>2
    <2>7. 1 \in 1..WindowMs /\ WindowMs \in 1..WindowMs
        BY <1>1
    <2>8. G[1] = 1 /\ G[WindowMs] = g[WindowMs] + 1
        BY <1>9, <2>2, <2>5, <2>7
    <2>9. G[1] <= c.count /\ G[1] <= Limit /\ G[WindowMs] <= G[1] + Limit
        BY <1>1, <2>1, <2>6, <2>8
    <2>10. \A a \in Ages : ~(c.count = 0 \/ now - a >= c.start + WindowMs)
        BY <1>1, <2>1 DEF Ages
    <2> QED
        BY <1>8, <1>10, <2>1, <2>3, <2>9, <2>10 DEF Bounded, F
<1>12. CASE c = [b EXCEPT !.count = b.count + 1] /\ now - b.start < WindowMs
    <2>1. c \in [start : 0..now, count : Nat] /\ c.start = b.start /\ c.count = b.count + 1
        BY <1>2, <1>12
    <2>2. Spans(now, c) = Spans(now, b) /\ Spans(now, b) \in 1..WindowMs
        BY <1>1, <1>3, <1>12, <2>1 DEF Spans
    <2> DEFINE k == Spans(now, b)
    <2> HIDE DEF k
    <2>3. k \in 1..WindowMs /\ k \in 0..WindowMs /\ WindowMs \in 1..WindowMs /\ WindowMs \in 0..WindowMs
        BY <1>1, <2>2 DEF k
    <2>4. g[k] \in Nat /\ g[WindowMs] \in Nat /\ G[k] = g[k] + one /\ G[WindowMs] = g[WindowMs] + one
        BY <1>5, <1>9, <2>3
    <2>5. one = 1 => b.count + 1 <= Limit
        BY <1>6, <2>1 DEF Allowed
    <2>6. g[k] <= b.count /\ g[k] <= Limit /\ g[WindowMs] <= g[k] + Limit
        BY <1>4 DEF k
    <2>7. G[k] <= c.count /\ G[k] <= Limit /\ G[WindowMs] <= G[k] + Limit
        BY <1>1, <1>3, <1>7, <2>1, <2>4, <2>5, <2>6
    <2>8. ASSUME NEW a \in Ages, c.count = 0 \/ now - a >= c.start + WindowMs PROVE F[a] = 0
        <3>1. a # 0 /\ now - a >= b.start + WindowMs
            BY <1>1, <1>3, <1>12, <2>1, <2>8 DEF Ages
        <3>2. f[a] = 0
            BY <3>1 DEF Bounded
        <3> QED
            BY <1>8, <3>1, <3>2
    <2> QED
        BY <1>8, <1>10, <2>1, <2>2, <2>7, <2>8 DEF Bounded, F, k
<1> QED
    BY <1>11, <1>12

\* Nothing admitted and no bucket.
LEMMA NoneBounded ==
    ASSUME NEW now \in Nat
    PROVE  Bounded(now, [a \in Ages |-> 0], NoBucket)
<1>1. WindowMs \in Nat /\ WindowMs > 0 /\ Limit \in Nat
    BY RateAssumption
<1>2. NoBucket \in [start : 0..now, count : Nat] /\ NoBucket.start = 0 /\ NoBucket.count = 0
    BY DEF NoBucket
<1> DEFINE f == [a \in Ages |-> 0]
           g == [n \in 0..WindowMs |-> 0]
<1>3. f \in [Ages -> Nat] /\ \A a \in Ages : f[a] = 0
    OBVIOUS
<1>4. g \in [0..WindowMs -> Nat] /\ \A n \in 0..WindowMs : g[n] = 0
    OBVIOUS
<1>5. \A n \in 1..WindowMs : n \in 0..WindowMs /\ n - 1 \in 0..WindowMs /\ n - 1 \in Ages
    BY <1>1 DEF Ages
<1>6. 0 \in 0..WindowMs /\ WindowMs \in 0..WindowMs /\ Spans(now, NoBucket) \in 0..WindowMs
    BY <1>1, <1>2 DEF Spans
<1> HIDE DEF f, g
<1>7. Sums(f, g)
    BY <1>3, <1>4, <1>5, <1>6 DEF Sums
<1>8. /\ g[Spans(now, NoBucket)] <= NoBucket.count /\ g[Spans(now, NoBucket)] <= Limit
      /\ g[WindowMs] <= g[Spans(now, NoBucket)] + Limit
    BY <1>1, <1>2, <1>4, <1>6
<1>9. Bounded(now, f, NoBucket)
    BY <1>2, <1>3, <1>7, <1>8 DEF Bounded
<1> QED
    BY <1>9 DEF f

\* It holds at the start.
LEMMA RateInitInv == RateInit => RateInv
<1> SUFFICES ASSUME RateInit PROVE RateInv
    OBVIOUS
<1>1. 0 \in Nat /\ NoBucket \in [start : 0..0, count : Nat]
    BY DEF NoBucket
<1>2. Bounded(0, [a \in Ages |-> 0], NoBucket)
    BY NoneBounded
<1> QED
    BY <1>1, <1>2 DEF RateInit, RateInv

\* Every step keeps it.
LEMMA RateStepInv == RateInv /\ [RateNext]_rateVars => RateInv'
<1> SUFFICES ASSUME RateInv, [RateNext]_rateVars PROVE RateInv'
    OBVIOUS
<1>1. /\ clock \in Nat
      /\ bucket \in [Replica -> [start : 0..clock, count : Nat]]
      /\ admittedBy \in [Replica -> [Ages -> Nat]]
      /\ Bounded(clock, admitted, counter)
      /\ \A p \in Replica : Bounded(clock, admittedBy[p], bucket[p])
    BY DEF RateInv
<1>2. CASE RateTick
    <2>1. /\ clock' = clock + 1 /\ bucket' = bucket /\ counter' = counter
          /\ admitted' = Older(admitted)
          /\ admittedBy' = [p \in Replica |-> Older(admittedBy[p])]
        BY <1>2 DEF RateTick
    <2>2. \A p \in Replica : Bounded(clock + 1, Older(admittedBy[p]), bucket[p])
        BY <1>1, OlderBounded
    <2>3. Bounded(clock + 1, Older(admitted), counter)
        BY <1>1, OlderBounded
    <2>4. \A p \in Replica : admittedBy'[p] = Older(admittedBy[p]) /\ Older(admittedBy[p]) \in [Ages -> Nat]
        BY <2>1, <2>2 DEF Bounded
    <2>5. admittedBy' \in [Replica -> [Ages -> Nat]]
        BY <2>1, <2>4
    <2>6. clock' \in Nat /\ bucket' \in [Replica -> [start : 0..clock', count : Nat]]
        BY <1>1, <2>1
    <2> QED
        BY <2>1, <2>2, <2>3, <2>4, <2>5, <2>6 DEF RateInv
<1>3. ASSUME NEW p \in Replica, Request(p) PROVE RateInv'
    <2> DEFINE b == Counted(Pruned(p))
               c == Upserted(counter)
    <2>1. /\ clock' = clock
          /\ bucket' = [bucket EXCEPT ![p] = b]
          /\ admittedBy' = [admittedBy EXCEPT ![p] = Admit(admittedBy[p], b)]
          /\ counter' = c /\ admitted' = Admit(admitted, c)
        BY <1>3 DEF Request
    <2>2. bucket[p] \in [start : 0..clock, count : Nat] /\ bucket[p].start \in 0..clock
        BY <1>1
    <2>3. Bounded(clock, Admit(admittedBy[p], b), b)
        <3>1. \/ b = [start |-> clock, count |-> 1]
                 /\ (bucket[p].count = 0 \/ clock - bucket[p].start >= WindowMs)
              \/ b = [bucket[p] EXCEPT !.count = bucket[p].count + 1] /\ clock - bucket[p].start < WindowMs
            <4>1. CASE Pruned(p) = bucket[p]
                BY <1>1, <2>2, <4>1, RateAssumption DEF Counted
            <4>2. CASE Pruned(p) # bucket[p]
                <5>1. Pruned(p) = NoBucket /\ clock - bucket[p].start > PruneAge
                    BY <4>2 DEF Pruned
                <5>2. b = [start |-> clock, count |-> 1]
                    BY <5>1 DEF Counted, NoBucket
                <5>3. clock - bucket[p].start >= WindowMs
                    BY <1>1, <2>2, <5>1, RateAssumption, RateWindowAssumption
                <5> QED
                    BY <5>2, <5>3
            <4> QED
                BY <4>1, <4>2
        <3> HIDE DEF b
        <3> QED
            BY <1>1, <3>1, AdmitBounded
    <2>4. Bounded(clock, Admit(admitted, c), c)
        <3>1. counter.start \in 0..clock
            BY <1>1 DEF Bounded
        <3>2. \/ c = [start |-> clock, count |-> 1]
                 /\ (counter.count = 0 \/ clock - counter.start >= WindowMs)
              \/ c = [counter EXCEPT !.count = counter.count + 1] /\ clock - counter.start < WindowMs
            BY <1>1, <3>1, RateAssumption DEF Upserted
        <3> HIDE DEF c
        <3> QED
            BY <1>1, <3>2, AdmitBounded
    <2>5. b \in [start : 0..clock, count : Nat] /\ Admit(admittedBy[p], b) \in [Ages -> Nat]
        BY <2>3 DEF Bounded
    <2> HIDE DEF b, c
    <2>6. /\ bucket' \in [Replica -> [start : 0..clock', count : Nat]]
          /\ admittedBy' \in [Replica -> [Ages -> Nat]]
        BY <1>1, <2>1, <2>5
    <2>7. ASSUME NEW r \in Replica PROVE Bounded(clock, admittedBy'[r], bucket'[r])
        <3>1. CASE r = p
            BY <1>1, <2>1, <2>3, <3>1
        <3>2. CASE r # p
            BY <1>1, <2>1, <3>2
        <3> QED
            BY <3>1, <3>2
    <2> QED
        BY <1>1, <2>1, <2>4, <2>6, <2>7 DEF RateInv
<1>4. ASSUME NEW p \in Replica, RateRestart(p) PROVE RateInv'
    <2> DEFINE z == [a \in Ages |-> 0]
    <2>1. /\ clock' = clock /\ counter' = counter /\ admitted' = admitted
          /\ bucket' = [bucket EXCEPT ![p] = NoBucket]
          /\ admittedBy' = [admittedBy EXCEPT ![p] = z]
        BY <1>4 DEF RateRestart
    <2>2. Bounded(clock, z, NoBucket)
        BY <1>1, NoneBounded
    <2>3. NoBucket \in [start : 0..clock, count : Nat] /\ z \in [Ages -> Nat]
        BY <2>2 DEF Bounded
    <2> HIDE DEF z
    <2>4. /\ bucket' \in [Replica -> [start : 0..clock', count : Nat]]
          /\ admittedBy' \in [Replica -> [Ages -> Nat]]
        BY <1>1, <2>1, <2>3
    <2>5. ASSUME NEW r \in Replica PROVE Bounded(clock, admittedBy'[r], bucket'[r])
        <3>1. CASE r = p
            BY <1>1, <2>1, <2>2, <3>1
        <3>2. CASE r # p
            BY <1>1, <2>1, <3>2
        <3> QED
            BY <3>1, <3>2
    <2> QED
        BY <1>1, <2>1, <2>4, <2>5 DEF RateInv
<1>5. CASE UNCHANGED rateVars
    BY <1>1, <1>5 DEF rateVars, RateInv
<1> QED
    BY <1>2, <1>3, <1>4, <1>5 DEF RateNext

\* What the invariant says of any interval of a window.
LEMMA RateInvBounds == RateInv => BurstBounded
BY BoundedIsTwice DEF RateInv, BurstBounded
=============================================================================

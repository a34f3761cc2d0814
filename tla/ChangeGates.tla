---------------------------- MODULE ChangeGates ----------------------------
(***************************************************************************)
(* What the gates of the delivery pipeline say of a change (packages/      *)
(* delivery/src: pipeline.ts, gates.ts, reviewer.ts, the engines in        *)
(* codeng.ts, llm-codegen.ts and agentic.ts, diagnose.ts).  Delivery has   *)
(* the worktree, the branches and the crashes; here is the content: an     *)
(* operator per function, the test vectors it is held to, and the traits   *)
(* the static rules and the reviewer look for.                             *)
(***************************************************************************)
EXTENDS Integers, FiniteSets, Sequences

CONSTANT Orders   \* delivery specs, with the engine, fault and repairs asked for

Symbol == {"+", "-", "*"}
Traits == {"forbidden", "secret", "log", "todo"}

\* named: the operator the function's name suggests; plain: the name is of
\* letters only; cases: <<a, b, expected>>.
OpSpecs == [named : Symbol, plain : BOOLEAN, cases : Seq(Int \X Int \X Int)]

\* budget: maxRepairAttempts as the handlers pass it on, 2 where it is absent
\* or 0; nothing keeps it from being negative, and a fraction counts as its floor.
ASSUME GatesAssumption ==
    \A o \in Orders :
       /\ o.engine \in {"template", "llm"} /\ o.fault \in BOOLEAN
       /\ o.budget \in Int /\ o.ops \in Seq(OpSpecs)

VARIABLES
    order,       \* the delivery under way
    code,        \* the module: [sym: operator per function, exact: exports as
                 \* specified, has: traits]
    phase,       \* what the pipeline awaits next, or how it ended
    repairs,     \* repairs applied
    measured,    \* the benchmark: "none", "fast", "slow" or "nothing"
    advice,      \* findings of the advisory reviewer that were merged
    verdict,     \* of the review
    why          \* reason of a blocked delivery

gateVars == <<order, code, phase, repairs, measured, advice, verdict, why>>

-----------------------------------------------------------------------------
(* The engines.                                                            *)

Apply(sym, a, b) == CASE sym = "+" -> a + b [] sym = "-" -> a - b [] OTHER -> a * b

\* TemplateCodegen: vectors of the spec win over the canonical one.
Canonical(sym) == CASE sym = "+" -> <<2, 3, 5>> [] sym = "*" -> <<2, 3, 6>>
                    [] OTHER -> <<7, 4, 3>>
CasesOf(op) == IF order.engine = "template" /\ op.cases = <<>>
               THEN <<Canonical(op.named)>> ELSE op.cases

\* The generated tests, in their order.
Vectors == UNION {{[op |-> i, nr |-> k] : k \in DOMAIN CasesOf(order.ops[i])} :
                     i \in DOMAIN order.ops}
CaseOf(v) == CasesOf(order.ops[v.op])[v.nr]

\* assert.strictEqual tells the -0 a product may be from the 0 a test can name.
MinusZero(sym, a, b) == sym = "*" /\ ((a = 0 /\ b < 0) \/ (a < 0 /\ b = 0))
Fits(sym, case) ==
    Apply(sym, case[1], case[2]) = case[3] /\ ~MinusZero(sym, case[1], case[2])
FailingVectors == {v \in Vectors : ~Fits(code.sym[v.op], CaseOf(v))}

Earliest(v, vs) ==
    v \in vs /\ \A w \in vs : v.op < w.op \/ (v.op = w.op /\ v.nr <= w.nr)

\* parseFailure(): the values are those of the first test that fails; the name
\* and the operands those of the first whose title it can read, letters and
\* digits without a sign, which may be another test.
Titled(v) == order.ops[v.op].plain /\ CaseOf(v)[1] >= 0 /\ CaseOf(v)[2] >= 0
Readable == {v \in FailingVectors : Titled(v)}
Hinted(u, v) == <<CaseOf(u)[1], CaseOf(u)[2], CaseOf(v)[3]>>

Template == [sym |-> [i \in DOMAIN order.ops |-> order.ops[i].named],
             exact |-> TRUE, has |-> {}]

\* What a model may answer: any module at all.
Modules == [sym : [DOMAIN order.ops -> Symbol], exact : BOOLEAN, has : SUBSET Traits]

\* injectFault breaks the first function.
Faulty(c) == IF order.fault
             THEN [c EXCEPT !.sym[1] = IF @ = "+" THEN "-" ELSE "+"] ELSE c

\* TemplateCodegen.repair(): of "+", "-" and "*" the last that fits the case.
Guess(case) ==
    LET fits == {s \in Symbol : Fits(s, case)}
    IN  IF "*" \in fits THEN {"*"} ELSE IF "-" \in fits THEN {"-"} ELSE fits

\* What it changes in u's function, for the values of the first failure: nothing
\* when no title can be read, no operator fits, or the one that fits is there.
Fixes(u) == {s \in Symbol \ {code.sym[u.op]} :
                Earliest(u, Readable) /\ \E v \in FailingVectors :
                    Earliest(v, FailingVectors) /\ s \in Guess(Hinted(u, v))}

-----------------------------------------------------------------------------
(* The reviewer.                                                           *)

\* reviewDiff(): one finding for each trait it knows.
BaseFindings == {[severity |-> CASE t = "secret" -> "blocker" [] t = "log" -> "major"
                                 [] OTHER -> "minor", key |-> t] :
                    t \in code.has \cap {"secret", "log", "todo"}}

BaseVerdict ==
    IF \E f \in BaseFindings : f.severity = "blocker" THEN "BLOCK"
    ELSE IF \E f \in BaseFindings : f.severity = "major" THEN "REQUEST_CHANGES"
    ELSE "APPROVE"

\* What an advisory may come to; makeAdvisoryReviewer() drops its blockers.
Advices == SUBSET [severity : {"major", "minor"}, key : {"todo", "style"}]

\* mergeAdvisories(): what the base has found already is not found again.
Merging(findings) ==
    {f \in findings : \A b \in BaseFindings : b.key # f.key}

\* Mutant: the advisory's majors decide.
Bug_MergedVerdict(findings) ==
    IF \E f \in findings : f.severity = "major" THEN "REQUEST_CHANGES" ELSE "APPROVE"

MergedVerdict(findings) ==
    IF BaseVerdict = "APPROVE" /\ \E f \in findings : f.severity = "major"
    THEN "REQUEST_CHANGES" ELSE BaseVerdict

-----------------------------------------------------------------------------
(* The pipeline, from await to await.                                      *)

GatesInit ==
    /\ order \in Orders
    /\ code = [sym |-> <<>>, exact |-> FALSE, has |-> {}]
    /\ phase = "generate" /\ repairs = 0 /\ measured = "none"
    /\ advice = {} /\ verdict = "none" /\ why = "none"

Block(reason) == phase' = "blocked" /\ why' = reason

\* The contract is looked at after the last test run.
CheckContract(c) ==
    IF c.exact THEN phase' = "bench" /\ UNCHANGED why ELSE Block("contract mismatch")

\* The engine answers; the static rules are asked once, before the fault.  With
\* a negative budget the loop of tests and repairs is not entered.
GenerateCode ==
    /\ phase = "generate"
    /\ \E c \in IF order.engine = "template" THEN {Template} ELSE Modules :
          IF "forbidden" \in c.has
          THEN code' = c /\ Block("static analysis")
          ELSE /\ code' = Faulty(c)
               /\ IF order.budget < 0 THEN CheckContract(c)
                  ELSE phase' = "test" /\ UNCHANGED why
    /\ UNCHANGED <<order, repairs, measured, advice, verdict>>

\* The model does not answer, or its first module lacks an export; a command
\* that cannot be run at all, as without the container it is meant for; git.
PipelineRaises ==
    /\ \/ phase \in {"generate", "repair"} /\ order.engine = "llm"
       \/ phase \in {"test", "bench", "approved"}
    /\ phase' = "raised"
    /\ UNCHANGED <<order, code, repairs, measured, advice, verdict, why>>

\* The tests pass.
TestsPass ==
    /\ phase = "test" /\ FailingVectors = {} /\ CheckContract(code)
    /\ UNCHANGED <<order, code, repairs, measured, advice, verdict>>

\* They do not, or are killed at their timeout: then nothing can be parsed.
TestsFail ==
    /\ phase = "test"
    /\ \E killed \in BOOLEAN :
          /\ killed \/ FailingVectors # {}
          /\ IF repairs >= order.budget THEN Block("repair budget exhausted")
             ELSE IF killed THEN Block("unparseable failure")
             ELSE phase' = "repair" /\ UNCHANGED why
    /\ UNCHANGED <<order, code, repairs, measured, advice, verdict>>

Repaired(c) ==
    /\ code' = c /\ repairs' = repairs + 1 /\ phase' = "test"
    /\ UNCHANGED <<order, measured, advice, verdict, why>>

RepairTemplate ==
    /\ phase = "repair" /\ order.engine = "template"
    /\ \E u \in Readable : \E s \in Fixes(u) : Repaired([code EXCEPT !.sym[u.op] = s])

\* The model's repair replaces the module, never the tests; the names it
\* exports are looked at, the static rules are not asked again.
RepairByModel ==
    /\ phase = "repair" /\ order.engine = "llm"
    /\ \E c \in Modules : c # code /\ Repaired(c)

\* Nothing to change, or the model's answer is of no use or the same again.
RepairGivesUp ==
    /\ phase = "repair"
    /\ order.engine = "template" => \A u \in Readable : Fixes(u) = {}
    /\ Block("no repair")
    /\ UNCHANGED <<order, code, repairs, measured, advice, verdict>>

\* runBenchmark(): a run that prints no result has none that is too slow.
RunBenchmark ==
    /\ phase = "bench"
    /\ measured' \in {"fast", "slow", "nothing"}
    /\ IF measured' = "slow" THEN Block("benchmark budget exceeded")
       ELSE phase' = "review" /\ UNCHANGED why
    /\ UNCHANGED <<order, code, repairs, advice, verdict>>

\* The review, with the advice there is: none when it is off, late or wrong.
Review ==
    /\ phase = "review"
    /\ \E a \in Advices : advice' = Merging(a)
    /\ verdict' = MergedVerdict(advice')
    /\ IF verdict' = "APPROVE" THEN phase' = "approved" /\ UNCHANGED why
       ELSE Block("review")
    /\ UNCHANGED <<order, code, repairs, measured>>

\* The commit and its merge.
Merge ==
    /\ phase = "approved" /\ phase' = "merged"
    /\ UNCHANGED <<order, code, repairs, measured, advice, verdict, why>>

\* The tests once more, on main: ok is reported when they pass.  When they fail,
\* for whatever reason, main is reset; where the tests, the worktree's removal or
\* the reset raise, or the change was on main before, it stays and ok is not
\* reported.
VerifyOnMain ==
    /\ phase = "merged"
    /\ \/ FailingVectors = {} /\ phase' = "delivered"
       \/ phase' \in {"reverted", "left"}
    /\ UNCHANGED <<order, code, repairs, measured, advice, verdict, why>>

GatesNext ==
    \/ GenerateCode \/ PipelineRaises \/ TestsPass \/ TestsFail
    \/ RepairTemplate \/ RepairByModel \/ RepairGivesUp \/ RunBenchmark \/ Review
    \/ Merge \/ VerifyOnMain

GatesSpec == GatesInit /\ [][GatesNext]_gateVars

-----------------------------------------------------------------------------
(* Properties.                                                             *)

OnMain == {"merged", "delivered", "left", "reverted"}

GatesTypeOK ==
    /\ order \in Orders /\ repairs \in Nat
    /\ phase \in {"generate", "test", "repair", "bench", "review", "approved",
                  "blocked", "raised"} \cup OnMain
    /\ code.has \subseteq Traits /\ advice \in Advices
    /\ verdict \in {"none", "APPROVE", "REQUEST_CHANGES", "BLOCK"}

\* Some operator fits all cases of every function.
Cases(i) == {CaseOf(v) : v \in {w \in Vectors : w.op = i}}
Satisfiable == \A i \in DOMAIN order.ops : \E s \in Symbol :
                  \A c \in Cases(i) : Fits(s, c)

\* Functions that start wrong; with a case that does not tell all operators apart;
\* those of "+" where one case looks like "-" and another like "*"; tests whose
\* failure could not be read.
StartWrong == {i \in DOMAIN order.ops : \E c \in Cases(i) : ~Fits(Faulty(Template).sym[i], c)}
Doubtful == {i \in DOMAIN order.ops : \E c \in Cases(i) : \E s, t \in Symbol :
                s # t /\ Fits(s, c) /\ Fits(t, c)}
Torn == {i \in DOMAIN order.ops :
            /\ \A c \in Cases(i) : Fits("+", c)
            /\ \E c, d \in Cases(i) : /\ Guess(c) = {"-"} /\ Guess(d) = {"*"}
                                     /\ ~Fits("-", d)}
Garbled == {v \in Vectors : ~Titled(v)}

\* A change that comes to main was approved, has the specified exports and
\* nothing a reviewer objects to, and was not measured as slow, whoever repaired
\* it how often; what the static rules forbid can be in it only by a model's
\* repair.  It meets every test vector, unless a negative budget let it by
\* untested; what is reported as delivered meets them all, always.  The advice of
\* a model never lifts a verdict and never blocks.  A spec that the template could
\* satisfy is given up without a try only for a failure whose title cannot be
\* read; where all can, it is given up only when more functions are wrong, or
\* doubtful, than it has repairs for, or when its repairs go to and fro between
\* two cases of one (pipeline.ts, diagnose.ts, codeng.ts).
ChangeSound ==
    /\ phase \in OnMain =>
          /\ code.exact /\ measured # "slow" /\ code.has \cap {"secret", "log"} = {}
          /\ "forbidden" \in code.has => order.engine = "llm" /\ repairs > 0
          /\ FailingVectors # {} => order.budget < 0 /\ repairs = 0
    /\ phase = "delivered" => FailingVectors = {}
    /\ verdict # "none" => (verdict = "BLOCK" <=> "secret" \in code.has)
    /\ order.engine = "template" /\ Satisfiable =>
          /\ why = "no repair" => FailingVectors \cap Garbled # {}
          /\ /\ why = "repair budget exhausted" /\ FailingVectors # {}
             /\ Torn = {} /\ Garbled = {}
             => Cardinality(StartWrong) + Cardinality(Doubtful) > order.budget
=============================================================================

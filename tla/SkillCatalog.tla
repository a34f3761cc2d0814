---------------------------- MODULE SkillCatalog ----------------------------
(***************************************************************************)
(* The contracts skills are executed under, and the evidence their claims  *)
(* need: the registry each process loads (packages/skills/src/             *)
(* registry.ts), the overrides organisations store, effectiveSkill() and   *)
(* the routes for executions and evidence of apps/control-plane/src/       *)
(* app.ts, with the guard of packages/orchestration/src/evidence.ts.       *)
(* Replicas of two images serve at the same time during a rollout: their   *)
(* skill files differ, and the newer schema refuses what the older took.   *)
(***************************************************************************)
EXTENDS Naturals, Sequences, FiniteSets

CONSTANTS Agency,       \* organisations
          Pod, NewPods, \* replicas, and those of the newer image
          Skill,
          SkillFiles,   \* the skill files of an image: BOOLEAN -> Seq([skill, ok])
          Run,          \* executions through the runtime
          EvidenceType, \* one per gated claim: DEFAULT_CLAIM_EVIDENCE_TYPES
          MaxRecords, MaxOverrides      \* stored at the same time

ASSUME CatalogAssumption ==
    /\ NewPods \subseteq Pod /\ MaxRecords \in Nat /\ MaxOverrides \in Nat
    /\ \A b \in BOOLEAN : SkillFiles[b] \in Seq([skill : Skill, ok : BOOLEAN])

VARIABLES
    override,   \* org_skill_overrides: per organisation and skill
    skillRuns,  \* per execution: where it is and what it runs under
    records,    \* evidence_records: <<organisation, type>>, in their order
    post        \* a POST /evidence between its insert and its read, or what the
                \* last one said

catVars == <<override, skillRuns, records, post>>

NoOverride == [by |-> "nobody", loose |-> FALSE, enabled |-> FALSE]
NotStarted == [pc |-> "new"]
NoPost == [pc |-> "idle", claims |-> {}, told |-> {}]

CatalogInit ==
    /\ override = [k \in Agency \X Skill |-> NoOverride]
    /\ skillRuns = [r \in Run |-> NotStarted]
    /\ records = <<>>
    /\ post = NoPost

-----------------------------------------------------------------------------
(* SkillRegistry.load(): in the order of the files, what is broken is an   *)
(* issue, and so is a second definition of a name.                         *)
Registered(p) ==
    LET files == SkillFiles[(p \in NewPods)]
    IN  {files[i].skill : i \in {k \in DOMAIN files : files[k].ok}}

\* validateSkill() of the replica's image.
Accepts(p, loose) == p \notin NewPods \/ ~loose

\* PUT /skills/overrides/:name: the skill must be registered here, the
\* definition valid here and of the same name.
PutOverride(p, a, s, loose, enabled) ==
    /\ s \in Registered(p) /\ Accepts(p, loose)
    /\ Cardinality({k \in (Agency \X Skill) \ {<<a, s>>} : override[k] # NoOverride})
          < MaxOverrides
    /\ override' = [override EXCEPT ![<<a, s>>] = [by |-> a, loose |-> loose,
                                               enabled |-> enabled]]
    /\ UNCHANGED <<skillRuns, records, post>>

DeleteOverride(a, s) ==
    /\ override[<<a, s>>] # NoOverride
    /\ override' = [override EXCEPT ![<<a, s>>] = NoOverride]
    /\ UNCHANGED <<skillRuns, records, post>>

\* Mutant: a disabled override is layered on top too.
Bug_ActiveOverride(a, s) == override[<<a, s>>]

\* orgSkillOverride(): WHERE enabled = 1.
ActiveOverride(a, s) == IF override[<<a, s>>].enabled THEN override[<<a, s>>] ELSE NoOverride

\* effectiveSkill() throws: not registered here, or the stored override is not
\* valid here.
Unreadable(p, a, s) ==
    \/ s \notin Registered(p)
    \/ ActiveOverride(a, s) # NoOverride /\ ~Accepts(p, ActiveOverride(a, s).loose)

-----------------------------------------------------------------------------
(* Executions.                                                             *)

\* unbackedCompletionClaims(): a claim is named by the type it needs.
Types(a) == {t \in EvidenceType : \E i \in DOMAIN records : records[i] = <<a, t>>}
Unbacked(a, claims) == claims \ Types(a)

\* POST /skills/runtime/execute: the contract is read once, at the start.
StartRun(r, p, a, s, claims) ==
    /\ skillRuns[r].pc = "new"
    /\ skillRuns' = [skillRuns EXCEPT ![r] =
          IF Unreadable(p, a, s)
          THEN [pc |-> "refused", pod |-> p, agency |-> a, skill |-> s]
          ELSE [pc |-> "running", pod |-> p, agency |-> a, skill |-> s, claims |-> claims,
                contract |-> ActiveOverride(a, s)]]
    /\ UNCHANGED <<override, records, post>>

\* verify() and the row; the steps in between are SkillRuntime's.
EndRun(r) ==
    /\ skillRuns[r].pc = "running"
    /\ \E rubric \in BOOLEAN :
          skillRuns' = [skillRuns EXCEPT ![r].pc =
             IF rubric /\ Unbacked(skillRuns[r].agency, skillRuns[r].claims) = {}
             THEN "success" ELSE "failed"]
    /\ UNCHANGED <<override, records, post>>

-----------------------------------------------------------------------------
(* Evidence.                                                               *)
\* POST /evidence inserts the record.
InsertEvidence(a, type, claims) ==
    /\ post.pc = "idle" /\ Len(records) < MaxRecords
    /\ records' = Append(records, <<a, type>>)
    /\ post' = [pc |-> "inserted", agency |-> a, claims |-> claims]
    /\ UNCHANGED <<override, skillRuns>>

\* It then says which of its claims no record backs; it may die before.
AnswerEvidence ==
    /\ post.pc = "inserted"
    /\ \/ post' = NoPost
       \/ post' = [pc |-> "idle", agency |-> post.agency, claims |-> post.claims,
                   told |-> Unbacked(post.agency, post.claims)]
    /\ UNCHANGED <<override, skillRuns, records>>

CatalogNext ==
    \/ \E p \in Pod, a \in Agency, s \in Skill, b \in BOOLEAN, e \in BOOLEAN :
          PutOverride(p, a, s, b, e)
    \/ \E a \in Agency, s \in Skill : DeleteOverride(a, s)
    \/ \E r \in Run, p \in Pod, a \in Agency, s \in Skill, C \in SUBSET EvidenceType :
          StartRun(r, p, a, s, C)
    \/ \E r \in Run : EndRun(r)
    \/ \E a \in Agency, t \in EvidenceType, C \in SUBSET EvidenceType :
          InsertEvidence(a, t, C)
    \/ AnswerEvidence

CatalogSpec == CatalogInit /\ [][CatalogNext]_catVars

-----------------------------------------------------------------------------
(* Properties.                                                             *)

CatalogTypeOK ==
    /\ override \in [Agency \X Skill -> [by : Agency \cup {"nobody"}, loose : BOOLEAN,
                                         enabled : BOOLEAN]]
    /\ \A r \in Run : skillRuns[r].pc \in {"new", "running", "refused", "success", "failed"}
    /\ post.pc \in {"idle", "inserted"}

\* An execution runs under the registry's contract or one that its own
\* organisation stored, enabled then and valid where it runs, whatever replica
\* stored it and whatever has become of it since; a replica that does not know
\* the skill runs nothing.  A success has a record of its organisation for each
\* claim it made, and keeps it; so has a claim that a poster was not told of.
ContractsSound ==
    /\ \A r \in Run : skillRuns[r].pc \in {"running", "success", "failed"} =>
          LET by == skillRuns[r].contract IN
          /\ skillRuns[r].skill \in Registered(skillRuns[r].pod)
          /\ by # NoOverride =>
                by.by = skillRuns[r].agency /\ by.enabled /\ Accepts(skillRuns[r].pod, by.loose)
    /\ \A r \in Run : skillRuns[r].pc = "success" =>
          Unbacked(skillRuns[r].agency, skillRuns[r].claims) = {}
    /\ post.pc = "idle" /\ post # NoPost =>
          Unbacked(post.agency, post.claims) \subseteq post.told
=============================================================================

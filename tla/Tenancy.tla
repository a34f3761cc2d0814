------------------------------- MODULE Tenancy -------------------------------
(***************************************************************************)
(* The rows a tenant is made of, as apps/control-plane/src/app.ts inserts  *)
(* them: organisations, projects, requirements and the agents of a         *)
(* project.  Every handler first looks (is the slug taken, is the agent a  *)
(* member, how many requirements are there) and then inserts; replicas on  *)
(* one database interleave between the two, the UNIQUE constraint of the   *)
(* table decides, and no handler holds a transaction over its steps.       *)
(***************************************************************************)
EXTENDS Naturals, FiniteSets

CONSTANTS Req,      \* HTTP requests
          Slug      \* slugs, and agents that may join the team

VARIABLES
    req,        \* per request: what it asks, how far it is, what it read
    rows,       \* the tables: [kind, name, by], name UNIQUE within a kind
    keyed,      \* organisations (by their request) that have an owner key
    rostered    \* organisations whose agents are seeded

tenVars == <<req, rows, keyed, rostered>>

RowKinds == {"organization", "project", "requirement", "agent"}

TenancyInit ==
    /\ req = [r \in Req |-> [pc |-> "new", kind |-> "none", name |-> 0]]
    /\ rows = {} /\ keyed = {} /\ rostered = {}

NameTaken(kind, name) == \E row \in rows : row.kind = kind /\ row.name = name
Refs == {row.name : row \in {x \in rows : x.kind = "requirement"}}
AtStep(r, pc) == req[r].pc = pc
Goto(r, pc) == req' = [req EXCEPT ![r].pc = pc]

Ask(r, kind, name) ==
    /\ AtStep(r, "new")
    /\ req' = [req EXCEPT ![r] = [pc |-> "look", kind |-> kind, name |-> name]]
    /\ UNCHANGED <<rows, keyed, rostered>>

\* SELECT id FROM organizations / projects WHERE slug = ?: a slug in use is
\* refused with CONFLICT.
LookForSlug(r) ==
    /\ AtStep(r, "look") /\ req[r].kind \in {"organization", "project"}
    /\ Goto(r, IF NameTaken(req[r].kind, req[r].name) THEN "refused" ELSE "insert")
    /\ UNCHANGED <<rows, keyed, rostered>>

\* An agent that is a member already is answered 200 with alreadyMember.
LookForMember(r) ==
    /\ AtStep(r, "look") /\ req[r].kind = "agent"
    /\ Goto(r, IF NameTaken("agent", req[r].name) THEN "answered" ELSE "insert")
    /\ UNCHANGED <<rows, keyed, rostered>>

\* The reference of a requirement is the number of those it counted, plus one.
CountRefs(r) ==
    /\ AtStep(r, "look") /\ req[r].kind = "requirement"
    /\ req' = [req EXCEPT ![r] = [pc |-> "insert", kind |-> "requirement",
                                  name |-> Cardinality(Refs) + 1]]
    /\ UNCHANGED <<rows, keyed, rostered>>

\* Mutant: the organisation is answered as soon as its row is there.
Bug_InsertRow(r) ==
    /\ AtStep(r, "insert")
    /\ IF NameTaken(req[r].kind, req[r].name)
       THEN Goto(r, "failed") /\ UNCHANGED rows
       ELSE /\ rows' = rows \cup {[kind |-> req[r].kind, name |-> req[r].name, by |-> r]}
            /\ Goto(r, "answered")
    /\ UNCHANGED <<keyed, rostered>>

\* INSERT; the UNIQUE constraint turns the later of two into an error.
InsertRow(r) ==
    /\ AtStep(r, "insert")
    /\ IF NameTaken(req[r].kind, req[r].name)
       THEN Goto(r, "failed") /\ UNCHANGED rows
       ELSE /\ rows' = rows \cup {[kind |-> req[r].kind, name |-> req[r].name, by |-> r]}
            /\ Goto(r, IF req[r].kind = "organization" THEN "key" ELSE "answered")
    /\ UNCHANGED <<keyed, rostered>>

\* createKey(), then seedRoster() in a transaction of its own; then the reply,
\* which is the only copy of the owner key there will be.
CreateOwnerKey(r) ==
    /\ AtStep(r, "key")
    /\ keyed' = keyed \cup {r}
    /\ Goto(r, "roster")
    /\ UNCHANGED <<rows, rostered>>

SeedRoster(r) ==
    /\ AtStep(r, "roster")
    /\ rostered' = rostered \cup {r}
    /\ Goto(r, "answered")
    /\ UNCHANGED <<rows, keyed>>

\* DELETE of a team member, whether or not it is one.
RemoveMember(r, name) ==
    /\ AtStep(r, "new")
    /\ rows' = {row \in rows : ~(row.kind = "agent" /\ row.name = name)}
    /\ Goto(r, "answered")
    /\ UNCHANGED <<keyed, rostered>>

\* The replica dies in the middle of the request.
RequestDies(r) ==
    /\ req[r].pc \in {"look", "insert", "key", "roster"}
    /\ Goto(r, "died")
    /\ UNCHANGED <<rows, keyed, rostered>>

TenancyNext ==
    \E r \in Req :
        \/ \E kind \in RowKinds, name \in Slug : Ask(r, kind, name)
        \/ LookForSlug(r) \/ LookForMember(r) \/ CountRefs(r) \/ InsertRow(r)
        \/ CreateOwnerKey(r) \/ SeedRoster(r) \/ RequestDies(r)
        \/ \E name \in Slug : RemoveMember(r, name)

TenancySpec == TenancyInit /\ [][TenancyNext]_tenVars

-----------------------------------------------------------------------------
(* Properties.                                                             *)

TenancyTypeOK ==
    /\ \A r \in Req : req[r].pc \in {"new", "look", "insert", "key", "roster",
                                     "answered", "refused", "failed", "died"}
    /\ \A row \in rows : row.kind \in RowKinds /\ row.by \in Req
    /\ keyed \subseteq Req /\ rostered \subseteq Req

\* The organisation of request r can be used.
Whole(r) == r \in keyed /\ r \in rostered

\* The numbering of requirements has no gap and no double, however many are
\* added at once; an organisation that cannot be used, because nobody holds a
\* key for it or it has no agents, is one whose creator died or is still at
\* it, so that a creation that was answered is whole; and a slug is refused
\* only while an organisation or project bears it.
RowsAccounted ==
    /\ Refs = 1..Cardinality(Refs)
    /\ \A row, other \in rows :
          row.kind = other.kind /\ row.name = other.name => row = other
    /\ \A row \in rows : row.kind = "organization" =>
          Whole(row.by) \/ req[row.by].pc \in {"key", "roster", "died"}
    /\ \A r \in Req : AtStep(r, "refused") => NameTaken(req[r].kind, req[r].name)
=============================================================================

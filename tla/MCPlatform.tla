----------------------------- MODULE MCPlatform -----------------------------
(***************************************************************************)
(* Model-checking instance of the smaller components.  They share no state *)
(* in these modules, so a behaviour of all of them together is one of each *)
(* on its own: instead of their product, TLC explores their sum.  A        *)
(* subject is chosen first; it moves, and the others rest in an initial    *)
(* state of theirs.                                                        *)
(***************************************************************************)
EXTENDS Tasks, AuditLog, RateLimiter, EventStream, ApiKeys, Sessions, WorkGraph,
        SkillRuntime, PgBridge, Boot, Tenancy, Deployments, TaskCards, Crawl,
        DeliveryDispatch, ChangeGates, Commands, Outbound, Secrets, SkillCatalog,
        McpServer, Console, LiveView, OidcLogin

VARIABLE subject
Subjects == {"tasks", "audit", "rate", "stream", "keys", "sessions", "graph", "skill",
             "pg", "boot", "tenancy", "deployments", "cards", "crawl", "dispatch",
             "gates", "commands", "outbound", "secrets", "catalog", "mcp", "console", "view",
             "oidc"}

-----------------------------------------------------------------------------
(* Values of the constants.                                                *)

\* A task that has been through most of its life already.
MCSeed == {[status |-> "monitoring", version |-> 11]}

\* Every dependency graph on the nodes, with a dangling dependency too.
MCPlans ==
    [after : {a \in [1..NNodes -> SUBSET (0..NNodes)] :
                 \A i \in 1..NNodes : i \notin a[i]},
     unmet : SUBSET (1..NNodes),
     fails : {S \in SUBSET (1..NNodes) : Cardinality(S) <= 1}]

MCHandlings == {[kind |-> "retry", maxAttempts |-> 3],
                [kind |-> "escalate", maxAttempts |-> 1],
                [kind |-> "fail", maxAttempts |-> 1]}

\* The same image everywhere; an older one beside it; two that disagree.
CONSTANTS s1, s2
MCImages == {[s \in Server |-> IF s = s1 THEN old ELSE <<"a", "b">>] :
                old \in {<<"a", "b">>, <<"a">>, <<"a", "c">>}}

\* Two ways to page 3 and back, page 6 on another host; with no robots.txt, one
\* that bars all but a prefix, and one with a group for this crawler.  And a slow
\* one of two pages.
Agent(name) == [key |-> "user-agent", agent |-> name, pages |-> {}, length |-> 0]
Rule(key, pages_, length) == [key |-> key, agent |-> "", pages |-> pages_,
                              length |-> length]
MCSite(links, home, robots) == [links |-> links, home |-> home, robots |-> robots]
MCSlow == {MCSite([p \in Page |-> IF p = 1 THEN <<2>> ELSE <<1>>], {1, 2},
                  <<Agent("*"), Rule("disallow", {2}, 2)>>)}
MCSites ==
    MCSlow \cup
    {MCSite(<<<<3, 2, 6>>, <<3, 1, 5>>, <<4, 7>>, <<>>, <<>>, <<>>, <<>>>>, (1..7) \ {6}, r) :
        r \in
        {<<>>,
         <<Agent("*"), Rule("disallow", 1..7, 1), Rule("allow", {1, 2}, 2)>>,
         <<Agent("*"), Rule("disallow", {3}, 3),
           Agent("us"), Rule("disallow", {2}, 2), Rule("allow", {2}, 2),
           Rule("disallow", {4}, 2)>>}}

\* Specs that fit the template or contradict it, with ambiguous cases and two
\* that are at odds; failures whose title cannot be read, first, later and alone;
\* budgets that skip the tests; and one for a model, which never sees the
\* canonical cases.
Fn(named, cases) == [named |-> named, plain |-> TRUE, cases |-> cases]
Numbered(named, cases) == [Fn(named, cases) EXCEPT !.plain = FALSE]
MCOrders ==
    [engine : {"template"}, fault : BOOLEAN, budget : {-1, 0, 2},
     ops : {<<Fn("+", <<>>), Fn("*", <<>>)>>,
            <<Fn("+", <<<<2, 2, 4>>, <<3, 0, 3>>>>), Fn("-", <<<<5, 1, 4>>>>)>>,
            <<Fn("+", <<<<2, 2, 4>>, <<1, 3, 4>>>>), Fn("-", <<<<2, 3, 6>>>>)>>,
            <<Fn("*", <<<<2, 2, 4>>, <<1, 1, 7>>>>)>>,
            <<Fn("+", <<<<5, 0, 5>>, <<2, 2, 4>>>>)>>,
            <<Fn("+", <<<<-1, 2, 1>>>>), Fn("-", <<<<2, 1, 1>>>>)>>,
            <<Numbered("+", <<<<2, 2, 4>>, <<3, 1, 4>>>>), Fn("-", <<<<2, 4, 8>>>>)>>,
            <<Fn("*", <<<<0, -3, 0>>>>)>>}]
    \cup [engine : {"llm"}, fault : {FALSE}, budget : {-1, 1},
          ops : {<<Fn("+", <<<<2, 2, 4>>>>), Fn("+", <<>>)>>}]

\* All backends and policies with the key of a model, of the webhook or none; and
\* a production that lacks one of the things it must have.
GoodEnv == [prod |-> TRUE, adminKey |-> TRUE, postgres |-> TRUE, origins |-> TRUE,
            sandboxed |-> TRUE, strict |-> FALSE, backend |-> "env", keys |-> {},
            login |-> "none", atRest |-> FALSE, master |-> FALSE]
MCEnvs ==
    {[GoodEnv EXCEPT !.strict = s, !.backend = b, !.keys = k, !.login = l] :
        s \in BOOLEAN, b \in {"env", "mock", "vault"}, k \in {{}, {MODEL}, {WEBHOOK}},
        l \in {"none", "approle"}}
    \cup {[GoodEnv EXCEPT !.prod = FALSE, !.backend = "vault", !.login = "token"]}
    \cup {[GoodEnv EXCEPT !.prod = p, !.adminKey = FALSE] : p \in BOOLEAN}
    \cup {[GoodEnv EXCEPT !.postgres = FALSE], [GoodEnv EXCEPT !.origins = FALSE],
          [GoodEnv EXCEPT !.sandboxed = FALSE], [GoodEnv EXCEPT !.atRest = TRUE],
          [GoodEnv EXCEPT !.atRest = TRUE, !.master = TRUE]}

\* The older image has both skills, the newer cannot read the second one's file.
CONSTANTS y1, y2
MCSkillFiles ==
    [new \in BOOLEAN |-> IF new THEN <<[skill |-> y1, ok |-> TRUE],
                                       [skill |-> y2, ok |-> FALSE]>>
                         ELSE <<[skill |-> y1, ok |-> TRUE],
                                [skill |-> y1, ok |-> FALSE],
                                [skill |-> y2, ok |-> TRUE]>>]

-----------------------------------------------------------------------------
Is(c) == subject = c
Still(c) ==
    /\ UNCHANGED subject
    /\ IF c = "tasks" THEN TRUE ELSE UNCHANGED tskVars
    /\ IF c = "audit" THEN TRUE ELSE UNCHANGED audVars
    /\ IF c = "rate" THEN TRUE ELSE UNCHANGED rateVars
    /\ IF c = "stream" THEN TRUE ELSE UNCHANGED evtVars
    /\ IF c = "keys" THEN TRUE ELSE UNCHANGED keyVars
    /\ IF c = "sessions" THEN TRUE ELSE UNCHANGED accVars
    /\ IF c = "graph" THEN TRUE ELSE UNCHANGED graphVars
    /\ IF c = "skill" THEN TRUE ELSE UNCHANGED skillVars
    /\ IF c = "pg" THEN TRUE ELSE UNCHANGED pgVars
    /\ IF c = "boot" THEN TRUE ELSE UNCHANGED bootVars
    /\ IF c = "tenancy" THEN TRUE ELSE UNCHANGED tenVars
    /\ IF c = "deployments" THEN TRUE ELSE UNCHANGED depVars
    /\ IF c = "cards" THEN TRUE ELSE UNCHANGED cardVars
    /\ IF c = "crawl" THEN TRUE ELSE UNCHANGED crawlVars
    /\ IF c = "dispatch" THEN TRUE ELSE UNCHANGED dispVars
    /\ IF c = "gates" THEN TRUE ELSE UNCHANGED gateVars
    /\ IF c = "commands" THEN TRUE ELSE UNCHANGED cmdVars
    /\ IF c = "outbound" THEN TRUE ELSE UNCHANGED outVars
    /\ IF c = "secrets" THEN TRUE ELSE UNCHANGED secVars
    /\ IF c = "catalog" THEN TRUE ELSE UNCHANGED catVars
    /\ IF c = "mcp" THEN TRUE ELSE UNCHANGED mcpVars
    /\ IF c = "console" THEN TRUE ELSE UNCHANGED conVars
    /\ IF c = "view" THEN TRUE ELSE UNCHANGED viewVars
    /\ IF c = "oidc" THEN TRUE ELSE UNCHANGED oidcVars

\* Where a component has several initial states, it rests in one of them.
TasksRest ==
    /\ row = [t \in TaskId |-> Unborn] /\ born = [t \in TaskId |-> 0]
    /\ edges = {} /\ write = [w \in Writer |-> NoWrite]
    /\ ledger = [t \in TaskId |-> "absent"]

KeysRest ==
    /\ keyRow = [k \in KeyId |-> IF k = CHOOSE j \in KeyId : TRUE THEN "active"
                                 ELSE "absent"]
    /\ rotation = [c \in Caller |-> NotRotating]
    /\ endedBy = [k \in KeyId |-> {}]

GraphRest ==
    /\ plan = [after |-> [n \in GraphNode |-> {}], unmet |-> {}, fails |-> {}]
    /\ level = {} /\ visited = {} /\ barred = {} /\ passed = {}
    /\ state = [n \in GraphNode |-> "unseen"]

MCInit ==
    /\ subject \in Subjects
    /\ IF Is("tasks") THEN TasksInit ELSE TasksRest
    /\ IF Is("keys") THEN KeysInit ELSE KeysRest
    /\ IF Is("graph") THEN GraphInit ELSE GraphRest
    /\ AuditInit /\ RateInit /\ StreamInit /\ SessionsInit /\ PgInit
    /\ TenancyInit /\ DeploymentsInit /\ CardsInit
    /\ (Is("boot") \/ image = CHOOSE i \in Images : TRUE) /\ BootInit
    /\ (Is("crawl") \/ site = CHOOSE s \in Sites : s.robots = <<>>) /\ CrawlInit
    /\ (Is("dispatch") \/ engineer = TRUE) /\ DispatchInit
    /\ (Is("gates") \/ order = CHOOSE o \in Orders : TRUE) /\ GatesInit
    /\ (Is("skill") \/ (refusing = {} /\ handling = CHOOSE h \in Handlings : TRUE))
    /\ SkillInit
    /\ (Is("secrets") \/ env = CHOOSE e \in Envs : TRUE) /\ SecretsInit
    /\ CommandsInit /\ OutboundInit /\ CatalogInit
    /\ McpInit /\ ConsoleInit /\ ViewInit /\ OidcInit

MCNext ==
    \/ Is("tasks") /\ TasksNext /\ Still("tasks")
    \/ Is("audit") /\ AuditNext /\ Still("audit")
    \/ Is("rate") /\ RateNext /\ Still("rate")
    \/ Is("stream") /\ StreamNext /\ Still("stream")
    \/ Is("keys") /\ KeysNext /\ Still("keys")
    \/ Is("sessions") /\ SessionsNext /\ Still("sessions")
    \/ Is("graph") /\ GraphNext /\ Still("graph")
    \/ Is("skill") /\ SkillNext /\ Still("skill")
    \/ Is("pg") /\ PgNext /\ Still("pg")
    \/ Is("boot") /\ BootNext /\ Still("boot")
    \/ Is("tenancy") /\ TenancyNext /\ Still("tenancy")
    \/ Is("deployments") /\ DeploymentsNext /\ Still("deployments")
    \/ Is("cards") /\ CardsNext /\ Still("cards")
    \/ Is("crawl") /\ CrawlNext /\ Still("crawl")
    \/ Is("dispatch") /\ DispatchNext /\ Still("dispatch")
    \/ Is("gates") /\ GatesNext /\ Still("gates")
    \/ Is("commands") /\ CommandsNext /\ Still("commands")
    \/ Is("outbound") /\ OutboundNext /\ Still("outbound")
    \/ Is("secrets") /\ SecretsNext /\ Still("secrets")
    \/ Is("catalog") /\ CatalogNext /\ Still("catalog")
    \/ Is("mcp") /\ McpNext /\ Still("mcp")
    \/ Is("console") /\ ConsoleNext /\ Still("console")
    \/ Is("view") /\ ViewNext /\ Still("view")
    \/ Is("oidc") /\ OidcNext /\ Still("oidc")

mcVars == <<subject, tskVars, audVars, rateVars, evtVars, keyVars, accVars, graphVars,
            skillVars, pgVars, bootVars, tenVars, depVars, cardVars, crawlVars, dispVars,
            gateVars, cmdVars, outVars, secVars, catVars, mcpVars, conVars, viewVars, oidcVars>>

\* The fairness of Boot, the one component with a liveness property here.
MCSpec == MCInit /\ [][MCNext]_mcVars
            /\ \A s \in Server : WF_bootVars(Is("boot") /\ BootStep(s) /\ Still("boot"))

-----------------------------------------------------------------------------
\* Every variable of the component that moves keeps to its type; the others rest.
TypesOK ==
    /\ (Is("tasks") => TasksTypeOK) /\ (Is("audit") => AuditTypeOK)
    /\ (Is("rate") => RateTypeOK) /\ (Is("stream") => StreamTypeOK)
    /\ (Is("keys") => KeysTypeOK) /\ (Is("sessions") => SessionsTypeOK)
    /\ (Is("graph") => GraphTypeOK) /\ (Is("skill") => SkillTypeOK)
    /\ (Is("pg") => PgTypeOK) /\ (Is("boot") => BootTypeOK)
    /\ (Is("tenancy") => TenancyTypeOK) /\ (Is("deployments") => DeploymentsTypeOK)
    /\ (Is("cards") => CardsTypeOK) /\ (Is("crawl") => CrawlTypeOK)
    /\ (Is("dispatch") => DispatchTypeOK) /\ (Is("gates") => GatesTypeOK)
    /\ (Is("commands") => CommandsTypeOK) /\ (Is("outbound") => OutboundTypeOK)
    /\ (Is("secrets") => SecretsTypeOK) /\ (Is("catalog") => CatalogTypeOK)
    /\ (Is("mcp") => McpTypeOK) /\ (Is("console") => ConsoleTypeOK)
    /\ (Is("view") => ViewTypeOK) /\ (Is("oidc") => OidcTypeOK)

\* What ends a key, a session, a ticket, a login state or a key of the provider
\* ends that one for good (auth.ts, oidc.ts), whatever races, expires or restarts.
\* It does not end what came from it: the sessions of a revoked key live on until
\* they end themselves, and from then on the key lets nobody in again.
AccessEnds ==
    [](KeyEndsOnce /\ SpentStaysSpent /\ LoginsSound) /\ [][KeysStayOut]_accVars

\* The rows that handlers write in several statements: tenants, deployments and
\* task cards (app.ts).
HandlersSound == RowsAccounted /\ DeploymentsExplained /\ AcknowledgementStands

\* Skills run under the right contract and succeed by one attempt (runtime.ts,
\* app.ts).
SkillsSound == SuccessIsOneAttempt /\ ContractsSound

\* What a process has when it serves (context.ts, config.ts, secrets.ts).
StartsSound == ServesReady /\ SecretsSound

\* Calls to processes and to other servers (exec-transport.ts, sandbox.ts,
\* integrations, fetcher.ts).
CallsSound == CommandsSettle /\ RetriesHonest

\* What the clients make of the control plane: the MCP server's replies, the
\* browser's session and its streams (mcp-server, dashboard).
ClientsSound == McpAnswers /\ ConsoleSound /\ StreamsExplained

\* Replicas that start end up serving (Boot).
AllServe == Is("boot") => BootsEnd
=============================================================================

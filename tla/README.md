# TLA+ verification of the Enterprise AI Agency OS

This directory holds TLA+ specifications of the agency operating system - its
control plane, the packages it is composed of, and its two clients -, the TLC
configurations that model-check them on small instances, and theorems about them
that TLAPS checks for every instance.

## 1. The system

The program is a TypeScript monorepo. One process, the *control plane*
(`apps/control-plane`), serves an HTTP API, runs a background job loop and an
approval sweeper, and keeps all durable state in one SQL database. The domain
logic lives in packages it composes (`packages/*`). A browser dashboard and an MCP
server are its clients.

**Execution model.** Node runs one thread, and the database driver is
synchronous for both engines (SQLite in-process; PostgreSQL through a worker and
`Atomics.wait`). So inside one process everything between two `await`s is
atomic. Interleaving comes from two places: across the `await`s of one process,
and between *replicas* - the Helm chart scales the control plane to three
replicas over PostgreSQL, where a transaction is READ COMMITTED and each SQL
statement is a separate step. The modules choose their grain of atomicity by
these rules and say so in their headers.

### 1.1 Inventory

| Component | State | Operations | Talks to | Hard behaviour | Correct when |
|---|---|---|---|---|---|
| Job queue `orchestration/jobs.ts` | `jobs` rows, one loop per process | enqueue, claim, process, reclaim, requeue | every background handler | two replicas claim; a process dies holding a row; retry, backoff | one worker per job; success final; every job settles |
| Dispatch and worker handlers `app.ts`, `workers.ts`, `delivery-worker.ts` | `executions`, `idempotency_keys`, artifacts | dispatch under a key, execute, deliver, scrape | queue, router, budget, tasks | death between two writes; retries; duplicated requests | one execution per key; rows and ledger agree |
| Approvals `security/approvals.ts`, `sweeper.ts` | `approvals` | request, decide, assert-and-consume, expire | deployments, delivery | two deciders; decision against expiry and use | one approval authorises one action |
| Workflow engine `orchestration/workflow.ts` | `workflow_runs`, checkpoints | start, advance, pause, resume, fan-out | stage handlers | state read before an `await`, written after | no stage passed undone; exact checkpoint |
| Delivery `delivery/*`, `control-plane/delivery.ts` | git worktrees, branches, `main` | generate, test, repair, review, merge, revert | queue, governance, tasks | redelivery after a crash; content that passes the gates | main is not left failing; what is merged is what was asked |
| Model router, breakers, budgets `models/*`, `budget.ts` | breakers, spend | select, complete, retry, fall back, charge | providers | late answers; check before an `await`, charge after | cooling models rest; bounded overdraft |
| Tasks `orchestration/tasks.ts` | `tasks`, dependencies | create, transition, assign, receipts | workers, delivery | optimistic locking | no move lost; acyclic |
| Audit log `security/audit.ts` | hash chain | append, verify | every handler | two appenders; many organisations; edits | every tampering and no honest log is reported |
| Rate limiter `ratelimit.ts` | fixed windows | check, prune | HTTP hook | boundaries, pruning, restarts | bounded burst |
| Events `core/events.ts`, `GET /events` | bus, buffer, `domain_events` | publish, replay, stream | dashboard | reconnects, ids of two counters | nothing missed silently |
| Access `auth.ts`, `oidc.ts` | keys, sessions, tickets, login states, cached JWKS | create, revoke, rotate, log in and out | browser, provider | overlapping ends; stale caches; sessions that outlive their key | what is ended stays ended |
| Work graph `workgraph.ts` | in-memory graph | compile, execute | agents | order inside a level | the result does not depend on it |
| Skills `skills/*`, `evidence.ts` | registry, overrides, evidence, runs | gates, steps, retries, timeout | approvals | a timed-out step goes on; two images | a success is one attempt's, under the right contract |
| Database `db/*` | connection pool, migrations | call, transaction, migrate | PostgreSQL | timeouts, replicas booting at once | units hold; replicas come up |
| Tenants, deployments, task cards `app.ts` | their rows | look, insert, then more statements | - | stale looks, deaths half way | rows explained |
| Scraper `scraper/*` | frontier | submit, crawl, fetch | queue, network | two live crawls; errors; robots rules | the listing is exact, the row settles |
| Commands `exec-transport.ts`, `sandbox.ts` | child, container | start, time out, answer | docker, host | the work outlives the child | answers mean what they say |
| Integrations, fetcher | attempts | emit, retry | network | lost answers | no needless repetition |
| Config and secrets `core/*` | env, Vault cache | load, prime, resolve | Vault | rotation, partial priming | no unsafe start |
| MCP server, dashboard | requests; key, cookie, streams | relay, sign in, subscribe | control plane | overlapping calls; pages left | replies and sessions match |

### 1.2 Hazards

`PROJECT.json` lists the hazards at their lines under `hazards`, each with the
properties that watch it. Four families dominate: state read before an
`await` or in one SQL statement and used after another actor wrote it; a process
death between two writes that no transaction joins; retries that meet what an
earlier attempt left behind; and work that outlives the timeout that gave it up.

## 2. How the project is built

    JobLifecycle (abstract)            TaskFlow (task transitions)
       ^ implemented by                 |            |
    JobQueue <-- extended by -- Execution          Tasks
       |
       +-- its promise is used by --> Delivery (EXTENDS JobLifecycle, TaskFlow)
    Approvals      Workflow      ModelRouter
    MCPlatform: 24 smaller components, side by side

`Execution` composes with the queue in full, because its hazards are about the
queue's own steps (a death between two writes, a second attempt). `Delivery`
needs only what the queue promises, so it composes with the abstract
`JobLifecycle`, and the refinement (run `queue_replicas`, theorem
`QueueImplementsLifecycle`) justifies the exchange. `ChangeGates` is the data
side of `Delivery`: there a commit passes its tests or not, here it has content.

**The platform run.** The twenty-four components of `MCPlatform` share no variable:
each keeps what it needs of its neighbours as a choice of the environment. A
behaviour of their product is therefore one behaviour of each, and an invariant of
one cannot tell the product from that one alone. `MCPlatform` explores their
*sum*: a `subject` is chosen first, its component moves through its whole state
space, and the others rest in an initial state. Its invariants are conjunctions
over components; where a conjunction could hide a part that nothing can break,
the part has a mutant of its own.

**The proof modules.** `ApprovalsProofs`, `DeliveryProofs`, `ExecutionProofs` (which
proves about the queue first), `ModelRouterProofs` and `WorkflowProofs` extend the module
they are about. `HandlerProofs` (HTTP handlers, and who calls and is called) and
`ServerProofs` (what one server process runs) extend the components of the platform,
and `PlatformProofs` adds them up over `MCPlatform`.

### 2.1 What could be added

Every safety property of the runs is proved, so what is left is to say more. An
abstract specification of the change that is delivered, which `Delivery` and
`ChangeGates` both implement, would join the two in a theorem. The expiry sweeper and
the job loop could share one process, to show that neither starves the other. The
components of the platform could be composed in pairs where they meet: the
dispatch of deliveries with the pipeline, the stream with the console.

## 3. The modules

Each module states its grain of atomicity in its header. Common to all:
identifiers are model values; a process death keeps the rows and drops what the
process was doing. Operators named `Bug_...` are not part of any specification:
each is a plausible bug in the definition below it, and `PROJECT.json` (`mutants`)
says which property fails when it takes that definition's place.

### 3.1 The core

**JobLifecycle** - what a queue promises: states of a job and the worker whose
handler executes it. A job has one runner; only its runner finishes it; it is
recovered only once its runner is gone; success is final.

**JobQueue** (`packages/orchestration/src/jobs.ts`). The columns of `jobs` that
decisions use, a clock, and per process the phase of its loop.

| Action | Code |
|---|---|
| `Enqueue`, `RetryDeadLetter` | `enqueue()`, `retryDeadLetter()` |
| `ClaimSelect`, `ClaimUpdate`, `ClaimLost` | the SELECT of `claim()`; its conditional UPDATE, with the lost case |
| `HandlerSucceeds`, `HandlerFails`, `HandlerDeadLetters` | the three ends of `processOne()`, with backoff and `PermanentJobError` |
| `ReclaimStale` | `reclaimStale()` |
| `Crash` | death of the process; its row stays `running` |

The clock moves freely but not past a handler's bound (`HandlerBound`, an
assumption on the environment: the code neither bounds nor renews a handler).

**Execution** (POST /executions, `execute_task`). Adds the idempotency keys, the
executions, the task and the agent's status. A dispatch is four steps (check key,
put key, insert, enqueue), each of which another replica or a death can follow. The
handler is `TaskSkips`, `TaskStarts`, `TaskRecords` (cost and artifact after the
model answered), `TaskSucceeds`, `TaskReturns`. Lines 58-152 of `workers.ts` are one
`try`, so an error can be thrown at any of these places, after the billing or after
the success too: `TaskFails` is the catch, which writes "failed" or "timeout" over
whatever is there unless that write throws as well, and `TaskThrows` the `finally`.
Outside the `try`, `TaskNeverStarts` is `setStatus` throwing when the row already reads
running (always, for an agent of another organisation), and `TaskBreaks` a read at the
entry or the settling of the job that fails. `errors` counts what the database
threw. An HTTP request that was answered by no one (`lost`) never comes back.

**Approvals** (`approvals.ts`, `sweeper.ts`, POST /deployments). Reads and writes of
`decide()`, `assertApproved()` and the two passes of the sweeper are separate
steps of the replica that is busy with them (`op`); the deployment is the step after
the gate. History variables count uses and deployments and keep the verdicts confirmed.

**Workflow** (`workflow.ts`). The row and, for each caller, the state it loaded
before its `await`. `AdvanceRead` loads; `SkipStage` prunes; `CallHandler`,
`HandlerEnds`, `HandlerThrows`, `RecordStage` run a stage; `StartBranches`,
`BranchEnds`, `BranchThrows`, `SettleBranches`, `Converge` a fan-out with its two
writes; `BlockRun` is the missing handler; `PauseForApproval`, `Resume`.

**ModelRouter** (`router.ts`, `breaker.ts`, `budget.ts`). `Arrive` is the budget
check, `select()`, the context guard and the walk over the breakers up to the first
call; `CallSucceeds` and `CallFails` are an answer and all its bookkeeping up to
the next `await`; `RecordingFails` is `recordSpend()` throwing after `k` inserts;
`OrgSpendAges` and `WindowMoves` move the budget windows.

**Delivery** (`delivery-worker.ts`, `delivery.ts`, `pipeline.ts`, `worktree.ts`).
Rows, the managed repository (commits of `main`, branches, worktree directories)
and the handler's program counter. One action per SQL or git command whose effect
outlives the process, from `Begin`, `Seed`, `Governance` over the bounded repair loop and
the gate to `Converges`, `Merge`, `TestMain`, `Revert`, `Cleanup`, `Report`,
`Walk`, `Record`. `Operator` moves tasks while the handler awaits; `Die` and `Fault`
cut a run short anywhere, and `cut` remembers in which phase. One process, because
repositories are on its own disk.

### 3.2 The components of MCPlatform

| Module | Code | What moves | Property |
|---|---|---|---|
| `Tasks` | `tasks.ts` | creation with dependencies; transition and assignment as a read and a versioned write | `TasksConsistent`: no acknowledged move is lost, edges lead to older tasks |
| `AuditLog` | `audit.ts` | two appenders, edits and deletions behind the service's back; a hash is the record of its input | `TamperEvident`: `verify()` accepts exactly the untouched chains |
| `RateLimiter` | `ratelimit.ts` | both stores, windows, pruning, restarts | `BurstBounded`: at most twice the limit in any window's length |
| `EventStream` | `events.ts`, `app.ts` | publish, bus, replay, breaks, restarts, one EventSource | `GapExplained` |
| `ApiKeys` | `auth.ts` | create, revoke, rotate in three statements, deaths | `KeyEndsOnce` |
| `Sessions` | `auth.ts`, `oidc.ts`, `app.ts` | cookies, tickets and the key they came from, login states, clean-up, restarts | `SpentStaysSpent`, `KeysStayOut` |
| `OidcLogin` | `oidc.ts`, `app.ts` | code exchange, JWKS cache of two instances, keys published and withdrawn, answers that overtake | `LoginsSound` |
| `WorkGraph` | `workgraph.ts` | levels, conditions, failures, every order inside a level | `OrderFree`: against a reference definition |
| `SkillRuntime` | `runtime.ts` | gates, attempts, verification, steps that outlive their timeout | `SuccessIsOneAttempt` |
| `SkillCatalog` | `registry.ts`, `evidence.ts`, `app.ts` | overrides, two images serving at once, evidence behind claims | `ContractsSound` |
| `PgBridge` | `pgdriver.ts`, `pgworker.cjs` | BEGIN, statements, COMMIT over a pool; timeouts, query errors | `UnitsUntilTimeout` |
| `Boot` | `migrate.ts`, `context.ts`, `server.ts`, `encryption.ts` | replicas booting together, deaths | `ServesReady`, and `BootsEnd` (liveness) |
| `Secrets` | `config.ts`, `secrets.ts` | what is refused at start, priming, rotation | `SecretsSound` |
| `Tenancy` | `app.ts`, `registry.ts` | organisations, projects, members, requirements: look, insert, go on | `RowsAccounted` |
| `Deployments` | `app.ts` | create, report, roll back, in any order | `DeploymentsExplained` |
| `TaskCards` | `app.ts` | status changes of one A2A card | `AcknowledgementStands` |
| `Crawl` | `crawler.ts`, `robots.ts`, `workers.ts` | the crawl and its job statement by statement, with deaths, errors, requeues and crawls that outlast their lock | `ScrapeSound`: against the set of reachable pages; the row settles with its job |
| `DeliveryDispatch` | `app.ts` | POST /delivery/runs under a key | `AnswersAgree` |
| `ChangeGates` | `pipeline.ts`, `gates.ts`, `reviewer.ts`, `codeng.ts`, ... | what a change contains: an operator per function, vectors, traits; generation, diagnosis, repair, verdicts | `ChangeSound` |
| `Commands` | `exec-transport.ts`, `sandbox.ts` | child, container, held output, timeout | `CommandsSettle` |
| `Outbound` | integrations, `fetcher.ts` | attempts, lost answers | `RetriesHonest` |
| `McpServer` | `mcp-server/src/index.ts` | overlapping tools, end of stdin | `McpAnswers` |
| `Console` | `api.ts`, `App.tsx`, `Settings.tsx` | key, cookie, exchange and retry, sign-out | `ConsoleSound` |
| `LiveView` | `useEventStream.ts` | streams of pages that come and go | `StreamsExplained` |

Many of these say "X happens only if Y": `GapExplained` that a client misses an
event only if ids ran ahead of the table or a replay was cut; `DeploymentsExplained`
that an undone deployment does not read so only for three named reasons. They are
stated so because the unconditional claim is false of the code (section 6.2) and
the exact exception is what a maintainer needs.

## 4. The runs

All passing runs are exhaustive.

| Run | Instance | States | What it shows |
|---|---|---|---|
| `queue_replicas` | 2 jobs, 2 replicas, 2 attempts, backoff 1..3, stale 1, handler bound 1, 1 death, 1 requeue | 585,424 | the lock of a running handler is never taken, so that no job runs twice at once; attempts stay in budget; the queue implements `JobLifecycle`, where a success is final |
| `exec` | two scenes: 2 dispatches with 1 key and an agent that is the organisation's, another's or missing; 1 execution, 2 replicas, 1 death, 2 errors, 1 requeue | 243,092 | one execution per key; one bill, and at most one more per death and per error; a success is taken back only by the catch of the run that wrote it; dead letters explained; executions end, jobs settle |
| `approval_replicas` | 2 requests, 2 replicas, clock to 2, 1 death | 629,316 | a grant is used once, only if approved, and is not swept afterwards; a replica confirms one verdict; pending requests end |
| `workflow` | shapes of 2 stages, width up to 2, both risk tiers, 2 callers, 1 failure, 1 death, 1 pause | 320,127 | no stage is passed undone under any overlap; with one call at a time the checkpoint is exact, only a death repeats a handler, an approval request is kept and the run ends |
| `delivery` | 2 deliveries, 4 kinds of task, 1 repair, operators, 1 death or fault | 176,131 | `main` fails only while a merge is being answered for, or where a run was cut short there; what is done is on `main`; failures leave nothing; no worktree stays; every delivery ends |
| `router` | 2 callers, 2 models, 3 budget configurations, threshold 2, 1 retry, 1 fallback, 4 faults | 108,956 | breakers open for failures in a row, admit nobody while cooling and recover; requests end; the overdraft of a hard limit is bounded |
| `platform` | 24 components, one at a time (section 2) | 581,512 | the properties of section 3.2; `AccessEnds`, `HandlersSound`, `SkillsSound`, `StartsSound`, `CallsSound` and `ClientsSound` are conjunctions over components; replicas that boot end up serving |

Five runs find a counterexample to what the documents say (section 6):
`queue_slow_handler`, `exec_retry`, `exec_bad_agent`, `approval_race`, `audit_org`.

**The two scenes of `exec`.** Liveness is about the worker's side and dispatch
races about the HTTP side. `MCExecution` explores the same specification from
two starts: in scene "dispatch" two requests race each other before a worker moves, in
scene "work" one execution is run by two replicas through a death, two errors, timeouts
and a requeue.

**Why the bounds are enough.** Two replicas give every pairwise race; a third acts as
the first did. Two jobs are needed for a worker to be busy elsewhere while its old job
is reclaimed. Two attempts give a first, a retried and a last one. One death can fall
between any two steps; in scene "work" two errors can also fall in one run and its
catch, or in a run and its redelivery. Backoff 1..3 reaches its cap. The queue's clock
ticks only while a backoff or the staleness of a lock still lies ahead, so it needs no
limit; that of the approvals stops one past the expiry of a request made at the start,
when each comparison with it (`<`, `<=`) has been true and false. In `delivery` a
second delivery lets a merge be built on, reverted under, or blocked by, the first;
the fault budget is shared by deaths and errors. In `router` four faults trip a
breaker twice, so that a probe can fail. In `platform` the small bounds are those of
the `.cfg`: every graph of three nodes with every dangling dependency, every path of a
seven-page site with three kinds of robots.txt, a crawl that outlasts its lock beside
a second one, orders with operands of either sign and budgets from -1 to 2, sessions
made of sessions, two appenders and organisations with four appends, two windows and
both sides of each, two instances and two signing keys with a cache of one tick, and
so on; each is large enough that the parts of its property fail under their mutants.

**Symmetry** is used over jobs and replicas in `queue_replicas` only, whose
refinement is checked as step simulation and where `RunnerOf` chooses among at
most one worker; runs with liveness use none. The requests of `approval_replicas` are
instead made in the order of their identifiers (`Fresh`): which identifier `newId()`
returns makes no difference.

**Deadlock** is not checked in runs of systems that come to rest (every job
settled, the run finished); `router` and `approval_replicas` check it.

**Fairness.** A formula is fair only where the code has a loop, a timer or a
timeout that makes it so.

| Specification | Assumed | Why |
|---|---|---|
| `SceneSpec` (the queue under `Execution`) | weak fairness of time, polling, claim, reclaim, and the handler's next step; a dispatch that began goes on | the loop of `jobs.ts` polls and reclaims for as long as the process lives; an HTTP handler has no further wait. No producer, requeue or death is assumed |
| `Approvals` | weak fairness of time and of an operation begun; strong fairness of starting a sweep | the sweeper runs on an interval; an operation of the same process, being synchronous, can delay it but not for ever |
| `Workflow` | strong fairness of `AdvanceRead` and `Resume`, weak of a call's steps | the engine has no timer: the property is about a driver who does not give up |
| `ModelRouter` | weak fairness of time and of a request's next step; strong fairness of new requests | calls have timeouts, backoffs are timers; a breaker leaves half-open only through a request |
| `Delivery` | weak fairness of the handler's next step; strong fairness of `Claim(j)` and `Reclaim` | every await has a timeout; the loop takes the job due longest and reclaims between two jobs |
| `MCSpec` (platform) | weak fairness of each server's boot step | a container that exits is started again, and `main()` waits for nothing else |

## 5. The proofs

Checked by TLAPS for every number of jobs, replicas, requests, models, tasks, pages,
nodes, and every value of the bounds. **Every safety invariant, every action
property and the refinement that a passing run checks is the statement of a
theorem below**; the runs show them on an instance and keep the liveness. Assumptions
are the named `ASSUME`s of the modules, which TLC evaluates in the runs, and, where
said, one of two conditions:

- `Timely`: `HandlerBound <= StaleAfter`, no handler runs longer than the staleness
  limit. The code does not enforce it, and `queue_slow_handler` shows what happens without.
- `NoneDeclared`: operators complete no task by hand. Only "a task that reads completed
  is on `main`" rests on it; a human may say of any task that it is done. In the run
  operators move tasks to `blocked` and `ready` only.

| Module | Theorem | Says |
|---|---|---|
| `ExecutionProofs` (queue) | `TypeCorrect` | types |
| | `LockHeld`, `MutualExclusion` (Timely) | a running handler keeps its lock; no job is executed by two processes at once |
| | `SuccessFinal`, `AttemptBudget` (Timely) | success is final; attempts are within budget plus one per death |
| | `QueueIsSafe` (Timely) | the invariant of the run, `QueueSafe` |
| | `LoneReplicaHoldsLock` | one replica needs no `Timely`: the loop that reclaims is the one that runs the handler |
| | `QueueImplementsLifecycle` (Timely) | `Spec => LC!LCSpec` |
| `ExecutionProofs` (with handlers) | `ExecutionTypes`, `ExecutionPerKey` | types; one execution per idempotency key |
| | `ExecutionQueueSafe`, `ExecutionImplementsLifecycle` (Timely) | real handlers and dispatches take nothing from the queue: it is as safe, and implements the life cycle |
| | `WorkIsAccounted`, `ExecutionFinal` (Timely) | dead letters have failed executions, with two exceptions (an agent of another organisation, errors outside the `try`); one bill, and at most one more per death and per error; a success is taken back only by the catch of the run that wrote it |
| `ApprovalsProofs` | `ApprovalsTyped`, `GrantUsedOnce`, `GrantWasApproved`, `UsedGrantKept`, `ReplicaVerdictFinal`, `GrantsSound` | types and the safety invariants of the run |
| `WorkflowProofs` | `WorkflowTyped`, `NoStagePassedUndone` | types; no stage passed undone |
| | `OutputsAreKept` | a branch counts as completed exactly when its output is checkpointed, under any overlap |
| | `ProgressIsExact`, `ApprovalIsRemembered` | with one call at a time: the checkpoint is exact, only a death repeats a handler, an approval request is kept |
| `DeliveryProofs` | `DeliveryTypes`, `MainOfReports` | types; `main` fails only by a run cut short, a failed delivery leaves nothing, no worktree stays, a reported success is on `main` |
| | `MainIsTrue` (NoneDeclared) | `MainTrue`: also, a completed task is on `main` |
| | `VerdictsStand` | which verdicts may be taken back, and when |
| `ModelRouterProofs` | `RouterTyped`, `OverdraftBounded`, `BreakersAreSound` | types; the bound of the overdraft; breakers open for failures in a row and admit nobody while cooling |
| `HandlerProofs` | `TasksInductive`, `TasksAreConsistent` | no acknowledged move is lost; the dependency graph is acyclic |
| | `AnswersAlwaysAgree` | one delivery per key, and everybody is answered it |
| | `KeysEndOnce`, `SpentForEver`, `LoginsAreSound` | keys, sessions and tickets, logins: what is ended itself stays ended (`AccessEnds` adds what becomes of a revoked key's sessions) |
| | `RowsAreAccounted`, `DeploymentsAreExplained`, `AcknowledgementsStand` | tenants, deployments, task cards |
| `PlatformProofs` | `TypesAreOK` | types and bounds of all 24 components |
| | `AccessAlwaysEnds`, `HandlersAreSound`, `CallsAreSound`, `ClientsAreSound`, `SkillsAreSound`, `StartsAreSound` | the conjunctions of the platform run, from the parts in `HandlerProofs` and `ServerProofs` |
| | `GapsAreExplained`, `UnitsHoldUntilTimeout`, `BurstsAreBounded` | event stream, PostgreSQL bridge, rate limiter |
| | `LogIsTamperEvident`, `ChangesAreSound` | audit log, change gates |
| | `ResultsAreOrderFree`, `ScrapesAreSound` | work graph and crawl agree with their reference definitions; a scrape settles with its job |

`ServerProofs` holds the inductive invariants of the components a server process
runs, which `PlatformProofs` adds up. The other theorems of each module
(`DispatchRows`, `WorkInvariant`, `PipelineInvariant`, `PlatformInductive`, ...)
are inductive invariants.

### 5.1 The arguments: the core

*Queue.* `NoDoubleExecution` is not inductive: nothing in it forbids reclaiming
a live row. `LockInv` adds that the row of a running handler carries the very
lock of its claim and that the handler is within its bound; with `Timely` its
lock is then never older than `StaleAfter`, so `ReclaimStale` skips it, and the
conditional UPDATE of another claim finds it not pending. Success finality and
the simulation follow from `LockInv`. The attempt bound needs that a job which
will be claimed again still has an attempt left (`AttemptsInv`), where a row
whose worker died is paid for by the death.

*Execution.* `DispatchInv` ties the place of a request to the rows: who is past
storing its key and before its insert owns the row of that key, and two requests that
carry one execution id are a winner and one that was handed the id by the key row
(`SharedIds`); hence one execution per key, whoever dies in between. `WorkInv` says
that the place of a handler is what its execution's row reads (after a failure, unless
an error kept the catch from writing), and that of the bills of an execution one is
paid for by its success, or by the worker about to record it, and every other by a
death or an error: the catch that takes a success back is itself the work of an error.
It needs the queue's lock: a second worker on the same job would bill again.
`QueueSees` shows each step of the whole to be a step of the queue, none, or the death
of a dispatching process, so the queue's results carry over. The theorems are about
all of `ESpec`; the run explores its two scenes.

*Approvals.* `GrantInv` is six parts. `SingleUse` needs to know that a replica
between gate and deployment holds the grant's only use (`DeployInv`).
`UsedNotExpired` needs that whoever is about to write "expired" read the row
past its time, when no gate can any longer be about to consume it
(`ExpiryInv`): it rests on the strict and non-strict comparisons of
`decide()`, the gate and the sweeper fitting together. `VerdictInv` keeps a row
with a confirmed verdict from being pending again.

*Workflow.* The row alone is no invariant: a caller may overwrite it with a
state loaded long ago. `WorkInv` says that every state that can be written back,
in the row or in a call, claims only work that was done, and that a call is at a
stage whose predecessors are done; `AtStage` types the call. `KeptInv` says of every
such state that it holds the outputs of exactly the branches it calls completed.
`SerialInv` is about one call at a time: the row, the call's copy and what the
call has run but not recorded determine each other, and a handler has run
once, plus at most once for each death that lost its record.

*Delivery.* `PipelineInv` states place by place what the pipeline remembers: until
the merge its base is `main` (`Worktree`), from the merge to the verdict `main` is
the base and one commit of this delivery, and the base is one it may go back to -
no more failing than `main` was, and holding everything that is done
(`BaseIsSound`). `CommitsOwned` gives every commit on `main` an owner: a delivery that
succeeded, one that is still to answer for it, or one that was cut short.

*Router.* The limit is compared before the call and the cost recorded after it,
so `OvershootBounded` is not inductive. `SpendInv` adds to what was recorded
what callers still owe: one answer if the request is under way, one more if the
worker will record it again. `BreakInv` says that a breaker counts no more failures
than really came in a row; so when its count trips it, or a probe fails, the row of
failures has reached the threshold too.

### 5.2 The arguments: the components of the platform

*Tasks.* `WriteInv` relates a write under way to the row: it read a version the row
had, and while the row has it still, the row has the status that was read. So the
write that commits moves the task from where it really is. Acyclicity rests on
creation order: `BornInv` says that a task is created after all that exist
(a fresh id, counted by `Cardinality`), so that only edges to older tasks are ever
added, and an edge never turns round.

*Delivery dispatch.* `KeyInv` says that a key is answered with a request that came
past it and is still making, has made, or died or failed over its execution;
`OwnerInv` that whoever makes an execution under a key owns that key. From the two,
whoever is answered is answered the owner (`AnswerInv`), and two requests with one
key that both started an execution are the same.

*Access.* A key that is active was ended by nobody, a revoked one by exactly one call,
whose conditional UPDATE matched (`EndInv`). What can still let somebody in has let
nobody in yet (`SpentInv`). `KeysStayOut` is about a step: who gets a session or a
ticket presents a key that is not revoked, or a session or ticket of that key that was
honoured, so that when neither is left nothing of the key comes back. `CacheInv` says
that answers under way, and caches, know the provider's keys as they were at most
`Transit`, and caches at most `JwksCache` more, ago; it needs a cache that lives at
all (`JwksCache > 0`). `TieInv` says who can have beaten a first login to its row: one
on another instance.

*Tenants, deployments, cards.* `NumberInv`: requirements are numbered from 1 without
a gap, and a number drawn but not inserted is the next or one taken by now. In
`GrantInv` first deployments to production, with those approved whose row is to
come, are no more than the approvals used up. `UndoneInv` follows a rollback from
its row to its mark. `OnlyInv`: as long as acceptances have not overlapped, the one
that will mint a token is the only one there is.

*Calls and clients.* `CommandFits` relates the fields of one command (no child, no
work; an answer means the child is gone), `OutboundInv` those of one request (what was
heard, how often it was tried, what came of it). `SettledInv`: a line that
wants a reply has it exactly when its calls are settled. In the console `BeliefInv`
says that a session believed in is the cookie's, of the key held, unless exchanges
raced or the session was cut; `CallInv` follows the calls that will set it.
`VisitFits` says that the stream of a page that was left lives on by its timer only.

*Skills.* `AttemptInv`: outputs up to the step under way are this attempt's, and
what still runs beside it is of an earlier one; so a success is verified over the
outputs of one attempt. `RunHolds`: an execution's contract was its organisation's own
and valid on the image it runs on; records only grow, so claims keep their backing.

*Starts.* `ReplicaInv`: what a replica read of the migrations table is still
there, what it has passed is done, whoever did it. `PrimedInv` and `UseInv`: what
`prime()` has dealt with is cached or known to be missing, and a use that went wrong
had a rotation, or a key that was never there, before it.

*Stream.* `CountInv`: unless the stream lost count, an open one has delivered
everything since the client's first event, a closed one everything up to the id the
client will name.

*PostgreSQL bridge.* `PoolInv` holds always: a connection is idle once and never while
it executes. While no call has timed out, at most one transaction is open, on the
connection waited for or handed out next (`OpenInv`), with exactly the writes the body
made (`BodyInv`); so what is stored of a transaction is nothing or all, and all when
its caller was told it is committed (`StoreInv`).

*Audit log.* Hashes are collision-free terms. `RowHolds`: the hash of a stored row is
still that of what was appended to what its appender had read. `NamesRow`: a hash that
was read names its row, and if that row is still there it is its hash. Then a chain that
follows from the first row to the last has all its rows unaltered (`FollowsWhen`), and
where it breaks something was altered, removed or forked before.

*Change gates.* What a gate has passed is true of the change as it now is, because
every repair goes back to the tests (`PassedInv`) - except that a negative budget has
no tests to go back to, so that there alone a change on main may fail a vector, until
the tests on main find it: a delivered one meets them all. For the template engine
`RepairInv` counts: each repair moves a function off its start or settles a
doubtful one, so repairs do not outnumber the two. Two exceptions are needed, without
which the claim is false: two cases of one function that guess different operators
(`Torn`), for which repairs go to and fro, and cases whose title cannot be read
(`Garbled`), for which a repair takes the operands of another title or gives up.

*Work graph.* The reference definition is recursive; it is used through its equations,
which `Recursion` shows to have a solution (built by `UpTo`, an induction on numbers,
from the least counterexample). In a graph without cycles each set of nodes has a first
one (`SomeFirst`), so the rounds of the verdict reach a fixed point that the results of
dependencies determine (`VerdictFixed`). `GraphInv` then says that what is entered so
far is what the verdict says, in whatever order the handlers of a level end.

*Crawl.* `Frontier`: the queue of a breadth-first crawl holds two neighbouring
depths, each listed page was led to from a fetched page one step nearer, and each
link of a fetched page is listed or waits, near enough. When nothing waits, an
induction on the depth gives equality with the reachable pages (`FinishIsExact`); a
retried job begins from the seed again, and two crawls that overlap each have a
frontier of their own, so that whichever writes last writes an exact listing. That
the row settles with its job needs one crawler at a time (`OneCrawler`), which holds until
a lock is outlasted: `trouble` remembers that, and errors of the database.

*Rate limiter.* An interval of a window's length meets two windows. `Bounded` adds up the
admissions by their age: those inside the present window are at most its count and the
limit, those before it at most the limit, and none are later.

*The sum.* A step of the platform is to each component a step of its own or none
(`StepsOfOne`), so each invariant holds of the sum (`PlatformInductive`).
`TypesAreOK` adds the bounds and ranges that no argument needed (`PlatformHolds`).

**Only model-checked:** liveness (`WorkEnds`, `PendingEnds`, `RunsEnd`,
`RouterRecovers`, `DeliveryEnds`, `AllServe`) and everything about fairness and
`ENABLED`, which are out of the prover's reach; and the five counterexamples, which
are facts about an instance. Recursive functions (of
`WorkGraph`, `Crawl` and `RateLimiter`) are reasoned about by well-foundedness of the natural
numbers, since the library's induction theorems take an operator that the installed
provers cannot instantiate.

## 6. What the code does that the documents do not say

### 6.1 With a counterexample

1. **A slow handler is executed twice** (`queue_slow_handler`, `jobs.ts:184`).
   `reclaimStale` takes every row locked for longer than ten minutes, alive or
   not. docs/PERFORMANCE-REPORT.md:24-25 says claims "cannot double-execute";
   that holds of one process, and of several under `Timely`.
2. **A failed execution is never retried** (`exec_retry`, `workers.ts:45`). The
   retry finds the status its own failed attempt left, returns, and the job is
   reported succeeded.
3. **A key answers for an execution that does not exist** (`exec_bad_agent`,
   `app.ts:1844`). The key is stored before the insert that fails.
4. **Two verdicts on one request** (`approval_race`, `approvals.ts:90`). Two
   replicas both find it pending and both are told they decided it.
5. **An untouched audit log verifies as broken** (`audit_org`, `audit.ts:83`).
   Records are chained across organisations and verified within one.

### 6.2 Read in the code or met as an exception, without a run

*Queue and dispatch.* A claim's UPDATE repeats only the status of its SELECT, so a
row requeued with a backoff between the two is claimed before its time
(`jobs.ts:125`). A death between inserting an execution and enqueuing its job leaves
it queued for good (`app.ts:1865`); so does one in POST /scrape
(`app.ts:1638-1648`). An agent marked busy by a handler that died stays busy until
its next task, overlapping executions of one agent overwrite each other's mark
(`workers.ts:52-55,151,155`), and `setStatus` of an agent of another organisation
throws outside the handler's `try`: the job dead-letters and the execution reads running
for ever (`workers.ts:54-55`, `DeadLetterExplained`). A database error after the success
is written (`workers.ts:120`) is caught at 145, which makes a success "failed" or a
"timeout" that is run and billed again; one after the billing (114) is billed again
if its message says timeout (`ExecutionSuccessFinal` and `BilledOnce` name these). A scrape
that raised has marked its row failed, so the retry of its job ends at once and
succeeds (`workers.ts:171,195`). A crawl has no bound: one longer than ten minutes is
overtaken by a second, both write the row unconditionally (`workers.ts:173-195`), the
last one wins even over a success, and the row may read running under a job that
succeeded. A database error outside the `try` (165, 173) or in the catch (190) leaves the row
queued or running under a dead job (`ScrapeSettles` says exactly when it settles).

*Approvals.* The gate looks at the newest grant only, which hides an older one that
is still live (`approvals.ts:126`). A consumed grant is lost when the deployment
then fails. A delivery with an automatic approval asks for a new one at each retry,
and nothing consumes it (`delivery.ts:142-162`).

*Workflow.* `pauseForApproval()` accepts a run that has ended and, resumed, it reads
running (`workflow.ts:352`); an overlapping `advance()` overwrites a pause
(`ApprovalRemembered` and `CheckpointExact` are therefore stated of serial runs, the
only drivers the repository has). A branch without a handler keeps a run running
where a stage without one blocks it.

*Router and budgets.* The breaker's header says OPEN closes by a probe; `onSuccess`
closes it from any state, so a late answer of a call that began before it opened
does too (`breaker.ts:42`). The router evaluates a budget without the tier, so that
REVIEW and VISION are downgraded to FAST, which `budget.ts:22-25` says of REVIEW
never happens. `execute_task` records the cost of an answer twice (`router.ts:220`,
`workers.ts:114`). The first violated scope decides, so an organisation's downgrade
hides a daily block. A call that timed out costs nothing in the books. `POST
/budgets` without a scopeId stores `*`, which the organisation's lookup never
matches. `routing.ts:68-71` promises eligibility by tools, tier and budget; tools
only affect the score and the budget is unused.

*Delivery.* A death, or a worktree that cannot be removed, between the merge
(`pipeline.ts:262`) and the revert (`:277`) leaves `main` failing, where
`pipeline.ts:273` says it never is; `MainFailingExplained` states exactly this
exception. A leftover worktree makes the repository dirty and blocks all later
deliveries of the project. A blocked delivery leaves its branch, so a second
delivery of the same task is always blocked. A repository created but not yet seeded
when the process died is never seeded. A redelivery of a delivery that succeeded
finds its task no longer ready, and governance overwrites its execution as failed
(`SuccessStands` names this exception). The stage view shows stages nobody recorded
of a run that succeeded as done, and puts the failure one further
(`app.ts:1745-1757`). The static scan is not repeated after a model's repair; the
template repair takes the last operator that fits a case, so two ambiguous cases can
use up the budget of a spec that the template could satisfy, and two of one function
can send its repairs to and fro until any budget (2 by default) is spent. A failure is
read by a title with unsigned operands and a name of letters (`diagnose.ts:14`): with a
negative operand, or a digit in the function's name, there are no operands and the
repair gives up a spec it could satisfy, or takes those of the next title that can be
read. `maxRepairAttempts` may be negative (`app.ts:1592`): then the test loop
(`pipeline.ts:132`) never runs and an untested change comes to `main`, where the
post-merge tests find what fails; `Delivery` models the budgets from 0 up, `ChangeGates`
the negative ones too. The `rmSync` of `pipeline.ts:306` is taken not to throw. A benchmark
without numbers passes (`gates.ts:127-130`); an advisory finding that repeats a minor one is
dropped. A spec for a model gets the template engine under Vault, because
`hasModelKey` reads the configuration only (`delivery.ts:241`, `context.ts:134`).

*Database.* A PostgreSQL call that times out leaves its query, and its open
transaction, running; later calls may join it, so the units of `pgdriver.ts:13-14`
hold only until the first timeout (`UnitsUntilTimeout`). `PostgresStore` of the rate
limiter names its columns ambiguously in the upsert (`ratelimit.ts:86-88`). Two
PostgreSQL appenders fork the audit chain (`audit.ts:37`), which verification then
reports as tampering.

*API.* An organisation is made of a row, a key and a roster without a transaction: a
death leaves a slug nobody can use (`app.ts:286-291`). A late success report
overwrites `rolled_back` (`app.ts:2061`). Overlapping acceptances of a task card
replace its token (`app.ts:1484`). The ids of live events are counted by the stream
and those of replayed ones come from the table (`app.ts:2409-2410`,
`workers.ts:217`), so a publication that stored nothing, or a cut replay, loses
events after a reconnect. One invalid override makes the whole listing of skills
fail (`app.ts:988`); `avgDurationMs` is that of the first outcome only
(`app.ts:1131`). Evidence that is verified without its content but with a hash is
called intact (`evidence.ts:64-71`). `handoff.ts:19` ("must exist for high
confidence") is not checked. A level of the work graph can strand nodes with a
missing dependency (`workgraph.ts:37-38`).

*Access.* Revocation "takes effect immediately" (`auth.ts:70`) for the key, not for what
came from it: `authenticateSession()` (178-215) never looks at the key of a session,
so its sessions and event-stream tickets go on until they end themselves; and
POST /auth/session, which says that it requires a Bearer key (`app.ts:728`), accepts
the cookie, so that a session of a revoked key can make another, and so on without
end. `KeysStayOut` states what is left of the promise. `rotateKey()` can die between
creating and revoking (`auth.ts:86-88`).
JWKS are not fetched for an unknown key id, an overtaken older answer replaces the
newer keys under a fresh stamp, discovery is cached for ever, and of two first
logins of one subject on two instances one is answered 500 (`oidc.ts:72-82,169-178`,
`app.ts:816-825`). Login states live in one replica's memory. `resolveSensitive`,
which would enforce the resolver's half of the STRICT policy of
docs/runbooks/SECRETS-ROTATION.md:3, has no caller; and a rotated key is seen only
after a restart, which line 4 there says is not required of keys read per call: none
is.

*Clients and network.* The MCP server ends with calls in flight when stdin ends, or
a line is the JSON value `null`. `api.ts:93` promises one exchange and retry after a
401; once `sessionReady` is set and the session ends there is none, and parallel
first calls make several sessions or get a 401. Locking the console keeps the
cookie, and a late answer to a sign-out removes that of a newer session. A
reconnecting event stream outlives its page and a refused ticket is never retried;
`lastIdRef` is unused (`useEventStream.ts:23,37`). The query keys of
`Tasks.tsx:13-15` lack the project. The body of a fetch has no timeout
(`fetcher.ts:102-105`). `crawler.ts:6` promises the larger of the configured and the
crawl-delay, `:105` takes the crawl-delay even when it is smaller; of consecutive
user-agent lines in robots.txt only the last gets the rules that follow, where
`robots.ts:12` says that explicit disallows are always honoured.

## 7. Not modelled

`PROJECT.json` lists every component with its status. Left out: pure functions of
one call (routing scores, policy laws, coverage, mission and hand-off validators,
capability tables), formatting and listing endpoints, single-statement writes,
metrics and tracing, the permission table (data), the pages of the dashboard that
only render, declarative deployment files and scripts. Of the scraper the extraction
and the delay are left out, of the database drivers the translation of SQL. The
database engines, the connection pool, docker, git, the identity provider, other
servers and the clock appear as what `src/` relies on them for. Model providers,
operators and test suites are external: any answer at any time. Taken as facts: a
docker client that reports a result has left nothing in its container; the outputs of a
skill are held per step, where `runtime.ts:294` keys them by name (its only caller names
each once). What the console promises after exchanges that raced is little (`raced` is
not reset). The agents' status
decides nothing and is an observation above, not a model.

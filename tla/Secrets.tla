------------------------------- MODULE Secrets -------------------------------
(***************************************************************************)
(* What a process may start with, and where it has its secrets from:       *)
(* loadConfig() (packages/core/src/config.ts), the backends and Vault's    *)
(* cache (packages/core/src/secrets.ts), main() of server.ts, and those    *)
(* who use a key: the model provider (context.ts, packages/models/src/     *)
(* providers/openai.ts), and the engine and the webhook of a delivery      *)
(* (delivery.ts).  A key is a version: operators rotate it.                *)
(***************************************************************************)
EXTENDS Naturals, Sequences, FiniteSets

CONSTANTS Envs,           \* environments a process may be started with
          MaxVersion, MaxStarts

\* SENSITIVE_KEYS; env.keys are those the environment itself holds.
Names == <<"MODEL_PROVIDER_API_KEY", "WEBHOOK_OUTBOUND_SECRET", "GITHUB_TOKEN">>
Sensitive == {Names[i] : i \in DOMAIN Names}
MODEL == Names[1]
WEBHOOK == Names[2]

\* Without a wildcard: "origins"; sandboxed: docker, or inside a container.
ASSUME SecretsAssumption ==
    /\ MaxVersion \in Nat \ {0} /\ MaxStarts \in Nat
    /\ Envs \subseteq [prod : BOOLEAN, adminKey : BOOLEAN, postgres : BOOLEAN,
                       origins : BOOLEAN, sandboxed : BOOLEAN, strict : BOOLEAN,
                       backend : {"env", "mock", "vault"}, keys : SUBSET Sensitive,
                       login : {"none", "token", "approle"},
                       atRest : BOOLEAN, master : BOOLEAN]

VARIABLES
    env,         \* the environment, the same at every start but for rotations
    version,     \* the version of every secret that its issuer accepts now
    proc,        \* "down", "priming", "serving" or "refused"
    config,      \* the sensitive keys loadConfig() found: name -> version, 0: none
    cache,       \* VaultSecretResolver.cache, likewise
    absent,      \* and its list missing, as a set
    loggedIn,    \* and whether it has a token
    prime,       \* names prime() has dealt with
    starts,      \* processes started
    since,       \* whether secrets were rotated since the process started
    keyUse       \* what the last use of a key came to

secVars == <<env, version, proc, config, cache, absent, loggedIn, prime, starts,
             since, keyUse>>

NoKeys == [n \in Sensitive |-> 0]

SecretsInit ==
    /\ env \in Envs
    /\ version = 1 /\ proc = "down" /\ config = NoKeys /\ cache = NoKeys
    /\ absent = {} /\ loggedIn = FALSE /\ prime = 0 /\ starts = 0
    /\ since = FALSE /\ keyUse = "none"

-----------------------------------------------------------------------------
\* Mutant: the strict policy is left to the resolver.
Bug_Refusals(e) ==
    \/ e.prod /\ (~e.adminKey \/ ~e.postgres \/ ~e.origins \/ ~e.sandboxed)
    \/ e.backend = "vault" /\ e.login = "none"
    \/ e.atRest /\ ~e.master

\* loadConfig() throws.
Refusals(e) ==
    \/ e.prod /\ (~e.adminKey \/ ~e.postgres \/ ~e.origins \/ ~e.sandboxed)
    \/ e.prod /\ e.strict /\ e.backend = "env" /\ e.keys # {}
    \/ e.backend = "vault" /\ e.login = "none"
    \/ e.atRest /\ ~e.master

\* buildContext(), as far as secrets go; main() primes Vault before it serves.
StartProcess ==
    /\ proc = "down" /\ starts < MaxStarts
    /\ starts' = starts + 1
    /\ IF Refusals(env) THEN proc' = "refused" /\ UNCHANGED <<config, loggedIn>>
       ELSE /\ proc' = IF env.backend = "vault" THEN "priming" ELSE "serving"
            /\ config' = [n \in Sensitive |-> IF n \in env.keys THEN version ELSE 0]
            /\ loggedIn' = (env.login = "token")
    /\ cache' = NoKeys /\ absent' = {} /\ prime' = 0 /\ since' = FALSE
    /\ keyUse' = "none"
    /\ UNCHANGED <<env, version>>

\* readOne() of the next name: a login by AppRole first if there is no token,
\* then the secret, or 404.
PrimeName ==
    /\ proc = "priming"
    /\ loggedIn' = TRUE
    /\ LET n == Names[prime + 1] IN
          \/ cache' = [cache EXCEPT ![n] = version] /\ UNCHANGED absent
          \/ absent' = absent \cup {n} /\ UNCHANGED cache
    /\ prime' = prime + 1
    /\ proc' = IF prime' = Len(Names) THEN "serving" ELSE "priming"
    /\ UNCHANGED <<env, version, config, starts, since, keyUse>>

\* Vault, or its login, fails: the rest is not asked for, and the server serves.
PrimeThrows ==
    /\ proc = "priming"
    /\ proc' = "serving" /\ loggedIn' \in {loggedIn, TRUE}
    /\ UNCHANGED <<env, version, config, cache, absent, prime, starts, since, keyUse>>

\* An operator renews every secret where it is issued, and in the backend.
Rotate ==
    /\ version < MaxVersion
    /\ version' = version + 1 /\ since' = TRUE
    /\ UNCHANGED <<env, proc, config, cache, absent, loggedIn, prime, starts, keyUse>>

ProcessEnds ==
    /\ proc \in {"priming", "serving", "refused"}
    /\ proc' = "down"
    /\ UNCHANGED <<env, version, config, cache, absent, loggedIn, prime, starts,
                   since, keyUse>>

-----------------------------------------------------------------------------
(* Those who use a key.  A mock backend answers for every name, with a     *)
(* value no issuer accepts.                                                *)
MOCK == MaxVersion + 1

Get(n) == CASE env.backend = "vault" -> cache[n]
            [] env.backend = "mock" -> MOCK
            [] OTHER -> config[n]

\* The provider asks the configuration first, the webhook the backend.
ModelKey == IF config[MODEL] # 0 THEN config[MODEL] ELSE Get(MODEL)
WebhookSecret == IF Get(WEBHOOK) # 0 THEN Get(WEBHOOK) ELSE config[WEBHOOK]

Uses(key) == CASE key = 0 -> "no_key" [] key = version -> "accepted"
               [] OTHER -> "rejected"

CallProvider ==
    /\ proc = "serving" /\ keyUse' = Uses(ModelKey)
    /\ UNCHANGED <<env, version, proc, config, cache, absent, loggedIn, prime,
                   starts, since>>

\* The end of a delivery: no webhook without a secret.
SignWebhook ==
    /\ proc = "serving"
    /\ keyUse' = (CASE WebhookSecret = 0 -> "unsigned"
                    [] WebhookSecret = version -> "signed"
                    [] OTHER -> "signed_wrong")
    /\ UNCHANGED <<env, version, proc, config, cache, absent, loggedIn, prime,
                   starts, since>>

\* A delivery whose spec asks for a model: only the configuration is asked
\* whether there is a key.
ChooseEngine ==
    /\ proc = "serving"
    /\ \/ keyUse' = IF config[MODEL] # 0 THEN "llm" ELSE "template"
       \/ keyUse' = IF config[MODEL] # 0 THEN "agentic" ELSE "engine_refused"
    /\ UNCHANGED <<env, version, proc, config, cache, absent, loggedIn, prime,
                   starts, since>>

SecretsNext ==
    \/ StartProcess \/ PrimeName \/ PrimeThrows \/ Rotate \/ ProcessEnds
    \/ CallProvider \/ SignWebhook \/ ChooseEngine

SecretsSpec == SecretsInit /\ [][SecretsNext]_secVars

-----------------------------------------------------------------------------
(* Properties.                                                             *)

SecretsTypeOK ==
    /\ env \in Envs /\ version \in 1..MaxVersion /\ prime \in 0..Len(Names)
    /\ proc \in {"down", "priming", "serving", "refused"}
    /\ config \in [Sensitive -> 0..MaxVersion] /\ cache \in [Sensitive -> 0..MaxVersion]
    /\ absent \subseteq Sensitive /\ loggedIn \in BOOLEAN /\ starts \in 0..MaxStarts

Up == proc \in {"priming", "serving"}

\* A process that is up in production has an admin key of its own, PostgreSQL,
\* no wildcard origin and a sandbox, and under the strict policy no secret from
\* the environment unless another backend was chosen; it never encrypts without
\* a key.  A secret is rejected only when it was rotated after the process had
\* started (or is a mock), and lacking only when nobody supplied it at that
\* start: Vault had it not, or its priming had failed before.  A delivery that
\* asked for a model goes without although Vault has the key.
SecretsSound ==
    /\ Up /\ env.prod => env.adminKey /\ env.postgres /\ env.origins /\ env.sandboxed
    /\ Up /\ env.prod /\ env.strict /\ (\E n \in Sensitive : config[n] # 0) =>
          env.backend # "env"
    /\ Up => (env.atRest => env.master)
    /\ keyUse \in {"rejected", "signed_wrong"} => since \/ env.backend = "mock"
    /\ keyUse = "no_key" =>
          /\ MODEL \notin env.keys
          /\ env.backend = "vault" => MODEL \in absent \/ prime = 0
    /\ keyUse \in {"template", "engine_refused"} => MODEL \notin env.keys
    /\ proc = "serving" => \A n \in Sensitive : cache[n] # 0 => n \notin absent
=============================================================================

--------------------------------- MODULE Boot ---------------------------------
(***************************************************************************)
(* Replicas starting up on one PostgreSQL database: buildContext() with    *)
(* migrate() (packages/db/src/migrate.ts), the default organisation, the   *)
(* bootstrap key, the roster and the daily budget of server.ts, and, once  *)
(* they serve, the data key of an organisation made at its first use       *)
(* (packages/orchestration/src/encryption.ts).  Every row is looked for,   *)
(* then inserted; a UNIQUE constraint decides who was first, and a replica *)
(* whose boot throws exits and is started again.  The replicas share one   *)
(* ADMIN_BOOTSTRAP_KEY (without it each registers a key of its own).       *)
(***************************************************************************)
EXTENDS Naturals, Sequences, FiniteSets

CONSTANTS Server,       \* replicas
          Images,       \* images they may run: Server -> the checksums of the
                        \* migration files 1..n
          DataKey, NoDataKey,
          MaxDeaths

ASSUME BootAssumption ==
    /\ NoDataKey \notin DataKey /\ MaxDeaths \in Nat
    /\ \A i \in Images : i \in [Server -> Seq(STRING)]

\* The rows a boot makes sure of, in this order.
Seeds == <<"org", "key", "roster", "budget">>

VARIABLES
    image,      \* the migration files each replica carries
    applied,    \* _migrations: the checksums, by version
    schema,     \* migrations whose SQL is in effect
    seeded,     \* rows of Seeds that exist
    boot,       \* per replica: how far it is, and what its last read said
    dek,        \* org_data_keys
    cachedDek,  \* OrgKeyEncryption.keys, per replica
    deaths

bootVars == <<image, applied, schema, seeded, boot, dek, cachedDek, deaths>>

Down == [pc |-> "down", at |-> 0, missed |-> FALSE, known |-> <<>>]

BootInit ==
    /\ image \in Images
    /\ applied = <<>> /\ schema = {} /\ seeded = {}
    /\ boot = [s \in Server |-> Down]
    /\ dek = NoDataKey
    /\ cachedDek = [s \in Server |-> NoDataKey]
    /\ deaths = 0

At(s, pc) == boot[s].pc = pc
Go(s, pc, at) == boot' = [boot EXCEPT ![s] = [@ EXCEPT !.pc = pc, !.at = at,
                                                     !.missed = FALSE]]

\* The process ends: an error while booting, or a death.
Exit(s) ==
    /\ boot' = [boot EXCEPT ![s] = Down]
    /\ cachedDek' = [cachedDek EXCEPT ![s] = NoDataKey]

\* The container is started; migrate() reads what is applied.
StartUp(s) ==
    /\ At(s, "down")
    /\ boot' = [boot EXCEPT ![s] = [pc |-> "migrate", at |-> 1, missed |-> FALSE,
                                    known |-> applied]]
    /\ UNCHANGED <<image, applied, schema, seeded, dek, cachedDek, deaths>>

\* Mutant: the migration is run and not recorded.
Bug_Migrate(s) ==
    LET m == boot[s].at IN
    /\ At(s, "migrate") /\ m <= Len(image[s])
    /\ IF m \in schema
       THEN Exit(s) /\ UNCHANGED schema
       ELSE schema' = schema \cup {m} /\ Go(s, "migrate", m + 1) /\ UNCHANGED cachedDek
    /\ UNCHANGED <<applied, image, seeded, dek, deaths>>

\* One turn of migrate(): a file already applied must be the one applied; any
\* other is run and recorded in one transaction, which fails when another
\* replica ran it since the read (its tables exist, its version is taken).
Migrate(s) ==
    LET m == boot[s].at IN
    /\ At(s, "migrate") /\ m <= Len(image[s])
    /\ IF m <= Len(boot[s].known)
       THEN /\ IF boot[s].known[m] = image[s][m]
               THEN Go(s, "migrate", m + 1) /\ UNCHANGED cachedDek
               ELSE Exit(s)
            /\ UNCHANGED <<applied, schema>>
       ELSE IF m \in schema
            THEN Exit(s) /\ UNCHANGED <<applied, schema>>
            ELSE /\ schema' = schema \cup {m}
                 /\ applied' = Append(applied, image[s][m])
                 /\ Go(s, "migrate", m + 1)
                 /\ UNCHANGED cachedDek
    /\ UNCHANGED <<image, seeded, dek, deaths>>

Migrated(s) ==
    /\ At(s, "migrate") /\ boot[s].at > Len(image[s])
    /\ Go(s, "seed", 1)
    /\ UNCHANGED <<image, applied, schema, seeded, dek, cachedDek, deaths>>

\* defaultOrgId(), ensureBootstrapKey(), seedRoster(), the daily budget: is the
\* row there?
LookFor(s) ==
    /\ At(s, "seed") /\ boot[s].at <= Len(Seeds) /\ ~boot[s].missed
    /\ IF Seeds[boot[s].at] \in seeded
       THEN Go(s, "seed", boot[s].at + 1)
       ELSE boot' = [boot EXCEPT ![s].missed = TRUE]
    /\ UNCHANGED <<image, applied, schema, seeded, dek, cachedDek, deaths>>

\* It was not: the INSERT, refused when somebody else's came first.
InsertSeed(s) ==
    /\ At(s, "seed") /\ boot[s].missed
    /\ IF Seeds[boot[s].at] \in seeded
       THEN Exit(s) /\ UNCHANGED seeded
       ELSE /\ seeded' = seeded \cup {Seeds[boot[s].at]}
            /\ Go(s, "seed", boot[s].at + 1)
            /\ UNCHANGED cachedDek
    /\ UNCHANGED <<image, applied, schema, dek, deaths>>

\* The workers are registered, the queue is started, the port is bound.
Serve(s) ==
    /\ At(s, "seed") /\ boot[s].at > Len(Seeds)
    /\ Go(s, "serving", 0)
    /\ UNCHANGED <<image, applied, schema, seeded, dek, cachedDek, deaths>>

-----------------------------------------------------------------------------
(* orgKey(): the first use of an organisation's data key on this replica.  *)

ReadDek(s) ==
    /\ At(s, "serving") /\ cachedDek[s] = NoDataKey /\ ~boot[s].missed
    /\ IF dek # NoDataKey
       THEN cachedDek' = [cachedDek EXCEPT ![s] = dek] /\ UNCHANGED boot
       ELSE boot' = [boot EXCEPT ![s].missed = TRUE] /\ UNCHANGED cachedDek
    /\ UNCHANGED <<image, applied, schema, seeded, dek, deaths>>

\* Mutant: the key is remembered before it is inserted.
Bug_InsertDek(s, k) ==
    /\ At(s, "serving") /\ boot[s].missed
    /\ boot' = [boot EXCEPT ![s].missed = FALSE]
    /\ dek' = (IF dek = NoDataKey THEN k ELSE dek)
    /\ cachedDek' = [cachedDek EXCEPT ![s] = k]
    /\ UNCHANGED <<image, applied, schema, seeded, deaths>>

\* A key of its own is inserted, and only then remembered; refused (org_id is
\* the primary key), the request fails and the next one reads.
InsertDek(s, k) ==
    /\ At(s, "serving") /\ boot[s].missed
    /\ boot' = [boot EXCEPT ![s].missed = FALSE]
    /\ IF dek = NoDataKey
       THEN dek' = k /\ cachedDek' = [cachedDek EXCEPT ![s] = k]
       ELSE UNCHANGED <<dek, cachedDek>>
    /\ UNCHANGED <<image, applied, schema, seeded, deaths>>

Die(s) ==
    /\ ~At(s, "down") /\ deaths < MaxDeaths
    /\ deaths' = deaths + 1
    /\ Exit(s)
    /\ UNCHANGED <<image, applied, schema, seeded, dek>>

BootStep(s) ==
    \/ StartUp(s) \/ Migrate(s) \/ Migrated(s) \/ LookFor(s) \/ InsertSeed(s)
    \/ Serve(s)

BootNext ==
    \E s \in Server :
        \/ BootStep(s) \/ ReadDek(s) \/ Die(s)
        \/ \E k \in DataKey : InsertDek(s, k)

\* A process runs on, and one that ended is started again.
BootFairness == \A s \in Server : WF_bootVars(BootStep(s))
BootSpec == BootInit /\ [][BootNext]_bootVars /\ BootFairness

-----------------------------------------------------------------------------
(* Properties.                                                             *)

BootTypeOK ==
    /\ image \in Images
    /\ schema = 1..Len(applied)
    /\ seeded \subseteq {Seeds[i] : i \in DOMAIN Seeds}
    /\ \A s \in Server : boot[s].pc \in {"down", "migrate", "seed", "serving"}
    /\ dek \in DataKey \cup {NoDataKey}
    /\ cachedDek \in [Server -> DataKey \cup {NoDataKey}]

SameFiles ==
    \A s, t \in Server : \A m \in 1..Len(image[s]) :
        m <= Len(image[t]) => image[s][m] = image[t][m]

\* A replica takes requests only when every migration of its image is in
\* effect, as its own file has it, each one run once, and every row a boot
\* makes sure of is there; and the key a replica encrypts with is the one the
\* others will decrypt with.
ServesReady ==
    \A s \in Server : At(s, "serving") =>
        /\ Len(applied) >= Len(image[s])
        /\ \A m \in 1..Len(image[s]) : applied[m] = image[s][m]
        /\ seeded = {Seeds[i] : i \in DOMAIN Seeds}
        /\ cachedDek[s] \in {NoDataKey, dek}

\* Replicas that trip over each other while booting end up serving, all of
\* them, unless the images disagree about a migration.
BootsEnd == SameFiles => <>[](\A s \in Server : At(s, "serving"))
=============================================================================

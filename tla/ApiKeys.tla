------------------------------ MODULE ApiKeys -------------------------------
(***************************************************************************)
(* API keys (apps/control-plane/src/auth.ts and the key routes of app.ts): *)
(* creation, revocation and rotation.  Keys are rows every replica sees;   *)
(* rotateKey() is three statements in no transaction, and on PostgreSQL    *)
(* requests of other replicas come in between.                             *)
(***************************************************************************)
EXTENDS Naturals, FiniteSets

CONSTANTS KeyId, NoKeyId,
          Caller    \* requests that revoke or rotate a key, each on a replica

ASSUME ApiKeyAssumption == NoKeyId \notin KeyId

VARIABLES
    keyRow,     \* api_keys: absent, active or revoked
    rotation,   \* where each caller is in rotateKey()
    endedBy     \* callers whose UPDATE ended the key

keyVars == <<keyRow, rotation, endedBy>>

NotRotating == [pc |-> "idle", old |-> NoKeyId, new |-> NoKeyId]

KeysTypeOK ==
    /\ keyRow \in [KeyId -> {"absent", "active", "revoked"}]
    /\ rotation \in [Caller -> [pc : {"idle", "read", "created", "done"},
                                old : KeyId \cup {NoKeyId},
                                new : KeyId \cup {NoKeyId}]]
    /\ endedBy \in [KeyId -> SUBSET Caller]

\* ensureBootstrapKey(): the first key exists when the service takes requests.
KeysInit ==
    /\ \E k \in KeyId : keyRow = [j \in KeyId |-> IF j = k THEN "active"
                                                   ELSE "absent"]
    /\ rotation = [c \in Caller |-> NotRotating]
    /\ endedBy = [k \in KeyId |-> {}]

Unused(k) == keyRow[k] = "absent"

\* POST /keys: the material is shown once, in the reply.
CreateKey(k) ==
    /\ Unused(k)
    /\ keyRow' = [keyRow EXCEPT ![k] = "active"]
    /\ UNCHANGED <<rotation, endedBy>>

\* UPDATE api_keys SET revoked_at ... WHERE revoked_at IS NULL: did it match?
RevokeMatches(k) == keyRow[k] = "active"

\* DELETE /keys/:id
RevokeKey(c, k) ==
    /\ rotation[c].pc = "idle"
    /\ RevokeMatches(k)
    /\ keyRow' = [keyRow EXCEPT ![k] = "revoked"]
    /\ endedBy' = [endedBy EXCEPT ![k] = @ \cup {c}]
    /\ rotation' = [rotation EXCEPT ![c].pc = "done"]

\* rotateKey(), its SELECT: the key must be active.
RotateRead(c, k) ==
    /\ rotation[c].pc = "idle"
    /\ keyRow[k] = "active"
    /\ rotation' = [rotation EXCEPT ![c] = [pc |-> "read", old |-> k,
                                            new |-> NoKeyId]]
    /\ UNCHANGED <<keyRow, endedBy>>

\* The replacement is created before the old key is revoked.
RotateCreate(c, k) ==
    /\ rotation[c].pc = "read" /\ Unused(k)
    /\ keyRow' = [keyRow EXCEPT ![k] = "active"]
    /\ rotation' = [rotation EXCEPT ![c].pc = "created", ![c].new = k]
    /\ UNCHANGED endedBy

\* Mutant: a rotation takes the key to be ended by itself in any case.
Bug_RotateRevoke(c) ==
    LET k == rotation[c].old IN
    /\ rotation[c].pc = "created"
    /\ keyRow' = [keyRow EXCEPT ![k] = "revoked"]
    /\ endedBy' = [endedBy EXCEPT ![k] = @ \cup {c}]
    /\ rotation' = [rotation EXCEPT ![c].pc = "done"]

\* The old key is revoked; only if this call did it is the new material
\* returned, else the caller is told "not found or already revoked".
RotateRevoke(c) ==
    LET k == rotation[c].old IN
    /\ rotation[c].pc = "created"
    /\ keyRow' = [keyRow EXCEPT ![k] = "revoked"]
    /\ endedBy' = IF RevokeMatches(k)
                  THEN [endedBy EXCEPT ![k] = @ \cup {c}] ELSE endedBy
    /\ rotation' = [rotation EXCEPT ![c].pc = "done"]

\* The process of the call dies between two statements: they are in no
\* transaction, so what it wrote stays and the new material is lost.
RotateDies(c) ==
    /\ rotation[c].pc \in {"read", "created"}
    /\ rotation' = [rotation EXCEPT ![c].pc = "done"]
    /\ UNCHANGED <<keyRow, endedBy>>

KeysNext ==
    \/ \E k \in KeyId : CreateKey(k)
    \/ \E c \in Caller, k \in KeyId :
          RevokeKey(c, k) \/ RotateRead(c, k) \/ RotateCreate(c, k)
    \/ \E c \in Caller : RotateRevoke(c) \/ RotateDies(c)

KeysSpec == KeysInit /\ [][KeysNext]_keyVars

-----------------------------------------------------------------------------
(* Properties.                                                             *)

\* However revocations and rotations of one key race, on whichever replicas,
\* exactly one call ended it and takes itself to have: a key is never replaced twice,
\* nor replaced for one caller and revoked for another.
KeyEndsOnce ==
    \A k \in KeyId :
        /\ Cardinality(endedBy[k]) <= 1
        /\ endedBy[k] # {} => keyRow[k] = "revoked"
        /\ keyRow[k] = "revoked" => endedBy[k] # {}
=============================================================================

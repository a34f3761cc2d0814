----------------------------- MODULE OidcLogin -----------------------------
(***************************************************************************)
(* What happens between a login callback and its session: the code is      *)
(* exchanged, the ID token is verified against the provider's keys, which  *)
(* a replica caches, and the identity is stored (OidcClient of             *)
(* apps/control-plane/src/oidc.ts and GET /auth/oidc/callback of app.ts).  *)
(* The provider publishes signing keys and withdraws them meanwhile.       *)
(* Module Sessions has the login states and the session; here a callback   *)
(* has consumed its state.                                                 *)
(***************************************************************************)
EXTENDS Naturals

CONSTANTS Kid, Callback, Sub, Instance,
          JwksCache,   \* JWKS_CACHE_MS
          Transit,     \* bound on the time an answer of the provider takes
          LastHour     \* bound on the clock

ASSUME OidcAssumption ==
    /\ {JwksCache, Transit, LastHour} \subseteq Nat /\ JwksCache > 0
    /\ Kid # {} /\ Sub # {} /\ Instance # {}

VARIABLES
    signing,   \* the provider's keys: published and withdrawn when
    jwks,      \* the cached keys of each instance, and when they arrived
    callback,  \* where each callback is and at which instance, its token, the
               \* keys sent to it and when
    users,     \* oidc_users
    hour

oidcVars == <<signing, jwks, callback, users, hour>>

Verifying == {"token", "asked", "answered"}
Decided == {"unknownKey", "verified", "known", "new"}
Over == {"in", "failed", "conflict"}

OidcTypeOK ==
    /\ signing \in [Kid -> [state : {"made", "published", "withdrawn"},
                            from : Nat, until : Nat]]
    /\ jwks \in [Instance -> [fetched : BOOLEAN, keys : SUBSET Kid, at : Nat]]
    /\ callback \in [Callback -> [pc : {"code"} \cup Verifying \cup Decided \cup Over,
                                  home : Instance, sub : Sub, kid : Kid,
                                  sent : SUBSET Kid, at : Nat]]
    /\ users \subseteq Sub /\ hour \in 0..LastHour

FirstKid == CHOOSE k \in Kid : TRUE
Cold == [fetched |-> FALSE, keys |-> {}, at |-> 0]
Placed(pc, home, sub) == [pc |-> pc, home |-> home, sub |-> sub, kid |-> FirstKid,
                          sent |-> {}, at |-> 0]

\* One key is published from the start.
OidcInit ==
    /\ signing = [k \in Kid |-> [state |-> IF k = FirstKid THEN "published" ELSE "made",
                                 from |-> 0, until |-> 0]]
    /\ jwks = [i \in Instance |-> Cold]
    /\ callback = [c \in Callback |-> Placed("code", CHOOSE i \in Instance : TRUE,
                                             CHOOSE s \in Sub : TRUE)]
    /\ users = {} /\ hour = 0

Served == {k \in Kid : signing[k].state = "published"}
Stands(c, pc) == callback[c].pc = pc
Reach(c, pc) == callback' = [callback EXCEPT ![c].pc = pc]
HomeOf(c) == callback[c].home
Leave(c, pc) == callback' = [callback EXCEPT ![c] = Placed(pc, @.home, @.sub)]

\* Nothing is awaited between the verification and the session, so that only
\* other instances come between the two statements on oidc_users.
OneAtATime(c, i) == \A d \in Callback \ {c} :
                 callback[d].home = i => callback[d].pc \notin Decided

-----------------------------------------------------------------------------
(* The provider.                                                           *)

Publish(k) ==
    /\ signing[k].state = "made"
    /\ signing' = [signing EXCEPT ![k] = [@ EXCEPT !.state = "published", !.from = hour]]
    /\ UNCHANGED <<jwks, callback, users, hour>>

Withdraw(k) ==
    /\ signing[k].state = "published" /\ Served # {k}
    /\ signing' = [signing EXCEPT ![k] = [@ EXCEPT !.state = "withdrawn", !.until = hour]]
    /\ UNCHANGED <<jwks, callback, users, hour>>

\* The keys a callback asked for leave the provider.
JwksAnswered(c) ==
    /\ Stands(c, "asked")
    /\ callback' = [callback EXCEPT ![c] = [@ EXCEPT !.pc = "answered",
                                                     !.sent = Served, !.at = hour]]
    /\ UNCHANGED <<signing, jwks, users, hour>>

-----------------------------------------------------------------------------
(* The callback.                                                           *)

\* The instance that holds the login state exchanges the code, discover()
\* included, for the provider's token.
ExchangeCode(c, i, k, s) ==
    /\ Stands(c, "code") /\ k \in Served /\ OneAtATime(c, i)
    /\ callback' = [callback EXCEPT ![c] = [Placed("token", i, s) EXCEPT !.kid = k]]
    /\ UNCHANGED <<signing, jwks, users, hour>>

\* verifyIdToken() with the keys at hand.  The only key there is, when it has
\* another id, is tried and does not verify the signature.
KeyVerdict(c, keys) == IF callback[c].kid \in keys THEN "verified" ELSE "unknownKey"

\* Mutant: the cached keys never age.
Bug_CacheFresh(i) == jwks[i].fetched

CacheFresh(i) == jwks[i].fetched /\ hour < jwks[i].at + JwksCache

VerifyCached(c) ==
    /\ Stands(c, "token") /\ CacheFresh(HomeOf(c)) /\ OneAtATime(c, HomeOf(c))
    /\ Reach(c, KeyVerdict(c, jwks[HomeOf(c)].keys))
    /\ UNCHANGED <<signing, jwks, users, hour>>

AskJwks(c) ==
    /\ Stands(c, "token") /\ ~CacheFresh(HomeOf(c)) /\ OneAtATime(c, HomeOf(c))
    /\ Reach(c, "asked")
    /\ UNCHANGED <<signing, jwks, users, hour>>

\* The answer replaces the cache and is stamped with the time it arrived, also
\* when a later answer has overtaken it.
VerifyFetched(c) ==
    /\ Stands(c, "answered") /\ OneAtATime(c, HomeOf(c))
    /\ jwks' = [jwks EXCEPT ![HomeOf(c)] =
                   [fetched |-> TRUE, keys |-> callback[c].sent, at |-> hour]]
    /\ Reach(c, KeyVerdict(c, callback[c].sent))
    /\ UNCHANGED <<signing, users, hour>>

\* The code, or the keys, are not given out, or the token is expired, for another nonce
\* or audience: the login state is spent all the same.
LoginFails(c) ==
    /\ callback[c].pc \in Verifying /\ OneAtATime(c, HomeOf(c))
    /\ Leave(c, "failed")
    /\ UNCHANGED <<signing, jwks, users, hour>>

\* 401, no matching key or an invalid signature.
RefuseToken(c) ==
    /\ Stands(c, "unknownKey")
    /\ Leave(c, "failed")
    /\ UNCHANGED <<signing, jwks, users, hour>>

LookUpUser(c) ==
    /\ Stands(c, "verified")
    /\ Reach(c, IF callback[c].sub \in users THEN "known" ELSE "new")
    /\ UNCHANGED <<signing, jwks, users, hour>>

\* UPDATE, or INSERT, which is refused when the subject has a row by now.
StoreUser(c) ==
    /\ Stands(c, "known") \/ Stands(c, "new")
    /\ Leave(c, IF Stands(c, "new") /\ callback[c].sub \in users THEN "conflict" ELSE "in")
    /\ users' = users \cup {callback[c].sub}
    /\ UNCHANGED <<signing, jwks, hour>>

\* An instance restarts: its cache goes with its memory, its callbacks fail.
OidcRestart(i) ==
    /\ jwks' = [jwks EXCEPT ![i] = Cold]
    /\ callback' = [c \in Callback |->
                      IF callback[c].home = i /\ callback[c].pc \notin {"code"} \cup Over
                      THEN Placed("failed", i, callback[c].sub) ELSE callback[c]]
    /\ UNCHANGED <<signing, users, hour>>

\* No answer travels longer than Transit, and what is decided does not wait.
OidcTick ==
    /\ hour < LastHour
    /\ \A c \in Callback : /\ callback[c].pc \notin Decided
                           /\ Stands(c, "answered") => hour < callback[c].at + Transit
    /\ hour' = hour + 1
    /\ UNCHANGED <<signing, jwks, callback, users>>

OidcNext ==
    \/ \E k \in Kid : Publish(k) \/ Withdraw(k)
    \/ \E c \in Callback :
          \/ \E i \in Instance, k \in Kid, s \in Sub : ExchangeCode(c, i, k, s)
          \/ AskJwks(c) \/ JwksAnswered(c) \/ VerifyCached(c) \/ VerifyFetched(c)
          \/ LoginFails(c) \/ RefuseToken(c) \/ LookUpUser(c) \/ StoreUser(c)
    \/ \E i \in Instance : OidcRestart(i)
    \/ OidcTick

OidcSpec == OidcInit /\ [][OidcNext]_oidcVars

-----------------------------------------------------------------------------
(* Properties.                                                             *)

\* A key that the provider withdrew lets nobody in for longer than the keys are
\* cached and an answer travels, whichever answers overtake each other.
WithdrawnKeyFades ==
    \A c \in Callback :
        LET key == signing[callback[c].kid]
        IN  callback[c].pc \in Decided \ {"unknownKey"} /\ key.state = "withdrawn"
            => hour < key.until + JwksCache + Transit

\* A key that is published is unknown for no longer than that either: a good
\* token is refused only while the keys are cached from before its key.
NewKeyIsLearnt ==
    \A c \in Callback :
        LET key == signing[callback[c].kid]
        IN  Stands(c, "unknownKey") => \/ key.state = "withdrawn"
                                   \/ hour < key.from + JwksCache + Transit

\* The row of a subject is refused only to one of two first logins, the other
\* of which stored it on another instance, and nobody is let in without a row.
OneFirstLogin ==
    \A c \in Callback :
        /\ Stands(c, "in") => callback[c].sub \in users
        /\ Stands(c, "conflict") => \E d \in Callback : /\ Stands(d, "in") /\ HomeOf(d) # HomeOf(c)
                                                    /\ callback[d].sub = callback[c].sub

\* A login lets in whom the provider vouches for, and only the staleness of the
\* keys or a tie of two first logins turns a good one away.
LoginsSound == WithdrawnKeyFades /\ NewKeyIsLearnt /\ OneFirstLogin
=============================================================================

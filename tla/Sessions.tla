------------------------------ MODULE Sessions ------------------------------
(***************************************************************************)
(* Cookie sessions, one-time tickets for the event stream, and the login   *)
(* through an OIDC provider (apps/control-plane/src/auth.ts, oidc.ts and   *)
(* their routes and the onRequest hook of app.ts).  Sessions are rows and  *)
(* carry the id of the API key they came from, which is not looked at      *)
(* again; tickets and login states live in the memory of one replica.  The *)
(* hook lets a request in and awaits the rate limiter before the handler   *)
(* runs.  ApiKeys has the revocation of keys, which is one step here.      *)
(***************************************************************************)
EXTENDS Naturals

CONSTANTS SessionId, Ticket, LoginState,
          Bearer, NoBearer,      \* API keys; a user of the provider has none
          SessionTtl, TicketTtl, StateTtl,
          LastTime               \* bound on the clock

ASSUME SessionAssumption ==
    /\ {SessionTtl, TicketTtl, StateTtl, LastTime} \subseteq Nat
    /\ Ticket \cap LoginState = {} /\ NoBearer \notin Bearer

VARIABLES
    session,    \* auth_sessions: state, expiry and key_id
    loggedOut,  \* sessions whose logout was acknowledged
    keyEnded,   \* API keys that were revoked
    ticket,     \* sseTickets of the replica
    login,      \* OidcStateStore of the replica
    entries,    \* streams and sessions each ticket and login state gave
    time

sessionVars == <<session, loggedOut, keyEnded>>
memoryVars == <<ticket, login, entries>>
accVars == <<sessionVars, memoryVars, time>>

\* A request was let in for what is "asked"; its handler has not run yet.
Gone == [state |-> "absent", expires |-> 0, key |-> NoBearer]
Timed == [state : {"absent", "asked", "live", "revoked", "exchanging"},
          expires : Nat, key : Bearer \cup {NoBearer}]
Asked(k) == [Gone EXCEPT !.state = "asked", !.key = k]
Lives(k, ttl) == [state |-> "live", expires |-> time + ttl, key |-> k]

SessionsTypeOK ==
    /\ session \in [SessionId -> Timed] /\ loggedOut \subseteq SessionId
    /\ keyEnded \subseteq Bearer
    /\ ticket \in [Ticket -> Timed] /\ login \in [LoginState -> Timed]
    /\ entries \in [Ticket \cup LoginState -> Nat]
    /\ time \in 0..LastTime

SessionsInit ==
    /\ session = [s \in SessionId |-> Gone] /\ loggedOut = {} /\ keyEnded = {}
    /\ ticket = [t \in Ticket |-> Gone] /\ login = [l \in LoginState |-> Gone]
    /\ entries = [x \in Ticket \cup LoginState |-> 0]
    /\ time = 0

-----------------------------------------------------------------------------
(* Sessions.                                                               *)

Honoured(s) == session[s].state = "live" /\ session[s].expires > time

\* Mutant: authenticate() does not look at revoked_at.
Bug_LetsIn(k) ==
    \/ k \in Bearer
    \/ \E s \in SessionId : Honoured(s) /\ session[s].key = k

\* The hook: a key that is not revoked, or a session in whose row it is named.
LetsIn(k) ==
    \/ k \in Bearer \ keyEnded
    \/ \E s \in SessionId : Honoured(s) /\ session[s].key = k

\* createSession(): expired and revoked rows are deleted on the way.
SessionsAfter(s, k) ==
    [x \in SessionId |->
        IF x = s THEN Lives(k, SessionTtl)
        ELSE IF \/ session[x].state = "revoked"
                \/ session[x].state = "live" /\ session[x].expires < time
        THEN Gone ELSE session[x]]

\* POST /auth/session: let in, by the key or by a session of it; ...
AskSession(s, k) ==
    /\ session[s] = Gone /\ s \notin loggedOut /\ LetsIn(k)
    /\ session' = [session EXCEPT ![s] = Asked(k)]
    /\ UNCHANGED <<loggedOut, keyEnded, memoryVars, time>>

\* ... handled, with the identity found then; ...
CreateSession(s) ==
    /\ session[s].state = "asked"
    /\ session' = SessionsAfter(s, session[s].key)
    /\ UNCHANGED <<loggedOut, keyEnded, memoryVars, time>>

\* ... or over its rate, or its replica dead.
SessionRefused(s) ==
    /\ session[s].state = "asked"
    /\ session' = [session EXCEPT ![s] = Gone]
    /\ UNCHANGED <<loggedOut, keyEnded, memoryVars, time>>

\* revokeKey(), by DELETE /keys/:id or at the end of a rotation.
EndKey(k) ==
    /\ k \notin keyEnded /\ keyEnded' = keyEnded \cup {k}
    /\ UNCHANGED <<session, loggedOut, memoryVars, time>>

\* DELETE /auth/session: allowed to anybody, also when expired.
Logout(s) ==
    /\ session[s].state = "live"
    /\ session' = [session EXCEPT ![s].state = "revoked"]
    /\ loggedOut' = loggedOut \cup {s}
    /\ UNCHANGED <<keyEnded, memoryVars, time>>

-----------------------------------------------------------------------------
(* Tickets and logins, in the memory of the replica.                       *)

\* POST /events/ticket: let in, ...
AskTicket(t, k) ==
    /\ ticket[t] = Gone /\ entries[t] = 0 /\ LetsIn(k)
    /\ ticket' = [ticket EXCEPT ![t] = Asked(k)]
    /\ UNCHANGED <<sessionVars, login, entries, time>>

\* ... and handled, or refused.
IssueTicket(t) ==
    /\ ticket[t].state = "asked"
    /\ \/ ticket' = [ticket EXCEPT ![t] = Lives(ticket[t].key, TicketTtl)]
       \/ ticket' = [ticket EXCEPT ![t] = Gone]
    /\ UNCHANGED <<sessionVars, login, entries, time>>

\* Mutant: a ticket is only deleted when it has expired.
Bug_ConsumeTicket(t) ==
    /\ ticket[t].state = "live"
    /\ IF time > ticket[t].expires
       THEN ticket' = [ticket EXCEPT ![t] = Gone] /\ UNCHANGED entries
       ELSE entries' = [entries EXCEPT ![t] = @ + 1] /\ UNCHANGED ticket
    /\ UNCHANGED <<sessionVars, login, time>>

\* consumeSseTicket(): deleted first, then its age is looked at.
ConsumeTicket(t) ==
    /\ ticket[t].state = "live"
    /\ ticket' = [ticket EXCEPT ![t] = Gone]
    /\ entries' = IF time > ticket[t].expires THEN entries
                  ELSE [entries EXCEPT ![t] = @ + 1]
    /\ UNCHANGED <<sessionVars, login, time>>

\* GET /auth/oidc/login
LoginBegins(l) ==
    /\ login[l] = Gone /\ entries[l] = 0
    /\ login' = [login EXCEPT ![l] = Lives(NoBearer, StateTtl)]
    /\ UNCHANGED <<sessionVars, ticket, entries, time>>

\* GET /auth/oidc/callback: the state is consumed before the first await.
CallbackArrives(l) ==
    /\ login[l].state = "live"
    /\ login' = [login EXCEPT ![l] = IF time > login[l].expires THEN Gone
                                     ELSE [@ EXCEPT !.state = "exchanging"]]
    /\ UNCHANGED <<sessionVars, ticket, entries, time>>

\* The provider's answers were awaited and its token verified.
CallbackSucceeds(l, s) ==
    /\ login[l].state = "exchanging"
    /\ session[s] = Gone /\ s \notin loggedOut
    /\ session' = SessionsAfter(s, NoBearer)
    /\ login' = [login EXCEPT ![l] = Gone]
    /\ entries' = [entries EXCEPT ![l] = @ + 1]
    /\ UNCHANGED <<loggedOut, keyEnded, ticket, time>>

\* The provider refused, was unreachable, or its token did not verify.
CallbackFails(l) ==
    /\ login[l].state = "exchanging"
    /\ login' = [login EXCEPT ![l] = Gone]
    /\ UNCHANGED <<sessionVars, ticket, entries, time>>

\* The replica that holds the tickets and login states restarts.
AccessRestart ==
    /\ ticket' = [t \in Ticket |-> Gone]
    /\ login' = [l \in LoginState |-> Gone]
    /\ UNCHANGED <<sessionVars, entries, time>>

AccessTick ==
    /\ time < LastTime /\ time' = time + 1
    /\ UNCHANGED <<sessionVars, memoryVars>>

SessionsNext ==
    \/ \E k \in Bearer \cup {NoBearer} : \/ \E s \in SessionId : AskSession(s, k)
                                       \/ \E t \in Ticket : AskTicket(t, k)
    \/ \E s \in SessionId : CreateSession(s) \/ SessionRefused(s) \/ Logout(s)
    \/ \E k \in Bearer : EndKey(k)
    \/ \E t \in Ticket : IssueTicket(t) \/ ConsumeTicket(t)
    \/ \E l \in LoginState : \/ LoginBegins(l) \/ CallbackArrives(l)
                             \/ CallbackFails(l)
                             \/ \E s \in SessionId : CallbackSucceeds(l, s)
    \/ AccessRestart \/ AccessTick

SessionsSpec == SessionsInit /\ [][SessionsNext]_accVars

-----------------------------------------------------------------------------
(* Properties.                                                             *)

\* What was spent or ended never lets anybody in again: a ticket opens one
\* stream, a login state gives one session, and a session whose logout was
\* acknowledged is not honoured, whatever expires, is cleaned up, restarted
\* or awaited in between.
SpentStaysSpent ==
    /\ \A x \in Ticket \cup LoginState : entries[x] <= 1
    /\ \A s \in loggedOut : ~Honoured(s)

\* Nothing is left of a revoked key: no session or ticket that is honoured, and
\* no request that was let in before.
KeyIsOut(k) ==
    /\ k \in keyEnded
    /\ \A s \in SessionId : session[s].key = k =>
          ~Honoured(s) /\ session[s].state # "asked"
    /\ \A t \in Ticket : ticket[t].key = k =>
          /\ ticket[t].state # "asked"
          /\ ticket[t].state = "live" => ticket[t].expires < time

\* Revoking a key ends the key, not the sessions and tickets that came from it,
\* nor those that their holders ask for in turn (authenticateSession() never
\* looks at the key again).  Once none of them is left, though, the key lets
\* nobody in any more, whoever still holds it.
KeysStayOut == \A k \in Bearer : KeyIsOut(k) => KeyIsOut(k)'
=============================================================================

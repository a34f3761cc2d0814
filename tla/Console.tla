------------------------------- MODULE Console -------------------------------
(***************************************************************************)
(* Who a browser is to the control plane (apps/dashboard/src: api.ts,      *)
(* App.tsx, pages/Settings.tsx): the key in memory, the session cookie,    *)
(* and the calls that exchange one for the other.  Calls go out with what  *)
(* the browser holds then and are answered later; pages make several at a  *)
(* time.  Sessions has the server's side.                                  *)
(***************************************************************************)
EXTENDS Naturals, Sequences

CONSTANTS Credential, NoCredential,    \* valid API keys, and none
          ApiCall,                     \* calls of the pages
          MaxIssued, MaxChanges        \* bounds: sessions; new keys and pages

ASSUME ConsoleAssumption ==
    MaxIssued \in Nat /\ MaxChanges \in Nat /\ NoCredential \notin Credential

VARIABLES
    memKey, sessionReady,   \* the variables of api.ts
    authed,                 \* App shows the console
    issued,                 \* the server's sessions, in their order: the key, none
                            \*   for one that is over
    cookie,                 \* the one the browser has, 0 for none
    calls,                  \* per call: [pc, by, with, probe, late]
    logout,                 \* a DELETE under way: [sent, with]
    raced,                  \* a key changed while a call exchanged one
    cut,                    \* a session ended, or its cookie went, when it was ready
    changes,                \* new keys and pages so far
    refusal                 \* what the 401 of this step came from, if there is one

conVars == <<memKey, sessionReady, authed, issued, cookie, calls, logout, raced, cut,
            refusal, changes>>
keyState == <<changes, memKey, sessionReady, issued, cookie, raced, cut>>

NoApiCall == [pc |-> "idle", by |-> NoCredential, with |-> 0, probe |-> FALSE,
              late |-> FALSE]
NoLogout == [sent |-> FALSE, with |-> 0]

\* A page is loaded: App asks for the session there may be.
Loaded(c) == calls' = [d \in ApiCall |-> IF d = c
                 THEN [NoApiCall EXCEPT !.pc = "first", !.with = cookie, !.probe = TRUE]
                 ELSE NoApiCall]

ConsoleInit ==
    /\ memKey = NoCredential /\ sessionReady = FALSE /\ authed = FALSE
    /\ issued = <<>> /\ cookie = 0 /\ calls = [c \in ApiCall |-> NoApiCall]
    /\ logout = NoLogout /\ raced = FALSE /\ cut = FALSE /\ refusal = "none"
    /\ changes = 0

-----------------------------------------------------------------------------
(* api(): with the cookie first.                                           *)
Signed(with_) == with_ # 0 /\ issued[with_] # NoCredential

Succeeds(c) ==
    /\ calls' = [calls EXCEPT ![c] = NoApiCall]
    /\ authed' = (authed \/ calls[c].probe) /\ refusal' = "none"

\* 401, though there was a key.
Refused(c, key) ==
    /\ calls' = [calls EXCEPT ![c] = NoApiCall]
    /\ refusal' = IF key = NoCredential THEN "no_key"
                  ELSE IF calls[c].with # 0 \/ calls[c].late \/ raced \/ cut
                       THEN "session_over" ELSE "unexplained"
    /\ UNCHANGED authed

Goes(c, pc) ==
    /\ calls' = [calls EXCEPT ![c] = [@ EXCEPT !.pc = pc, !.by = memKey, !.with = 0]]
    /\ refusal' = "none" /\ UNCHANGED authed

\* The slots of calls are alike: the next call takes the first free one.
SendCall(c) ==
    /\ calls[c].pc = "idle" /\ c = CHOOSE d \in ApiCall : calls[d].pc = "idle"
    /\ calls' = [calls EXCEPT ![c] = [NoApiCall EXCEPT !.pc = "first", !.with = cookie]]
    /\ refusal' = "none"
    /\ UNCHANGED <<authed, logout, keyState>>

\* A 401 is the end of it when there is a session already; else ensureSession(),
\* and when there is no key either, the call itself once more.
FirstAnswered(c) ==
    /\ calls[c].pc = "first"
    /\ IF Signed(calls[c].with) THEN Succeeds(c)
       ELSE IF sessionReady THEN Refused(c, memKey)
       ELSE Goes(c, IF memKey = NoCredential THEN "by_key" ELSE "exchange")
    /\ UNCHANGED <<logout, keyState>>

\* The server issues a session to the key the call was sent with, whatever the
\* browser holds by now, and the call is sent again.
ExchangeAnswered(c) ==
    /\ calls[c].pc = "exchange" /\ Len(issued) < MaxIssued
    /\ issued' = Append(issued, calls[c].by)
    /\ cookie' = Len(issued') /\ sessionReady' = TRUE /\ cut' = FALSE
    /\ calls' = [d \in ApiCall |->
                    IF d = c THEN [calls[c] EXCEPT !.pc = "retry", !.with = cookie']
                    ELSE [calls[d] EXCEPT !.late = @ \/ calls[d].pc = "first"]]
    /\ refusal' = "none" /\ UNCHANGED <<changes, memKey, authed, logout, raced>>

\* It does not: then with the key itself.
ExchangeFails(c) ==
    /\ calls[c].pc = "exchange" /\ Goes(c, "by_key")
    /\ UNCHANGED <<logout, keyState>>

LastAnswered(c) ==
    /\ calls[c].pc \in {"retry", "by_key"}
    /\ IF IF calls[c].pc = "retry" THEN Signed(calls[c].with)
          ELSE calls[c].by # NoCredential
       THEN Succeeds(c) ELSE Refused(c, calls[c].by)
    /\ UNCHANGED <<logout, keyState>>

NetworkFails(c) ==
    /\ calls[c].pc \in {"first", "retry", "by_key"}
    /\ calls' = [calls EXCEPT ![c] = NoApiCall]
    /\ refusal' = "none" /\ UNCHANGED <<authed, logout, keyState>>

-----------------------------------------------------------------------------
(* Signing in, locking, signing out.                                       *)
Changes == changes < MaxChanges /\ changes' = changes + 1
Exchanging == \E c \in ApiCall : calls[c].pc = "exchange"

\* Mutant: a new key does not call for a new session.
Bug_SetApiKey(k) ==
    /\ memKey' = k /\ UNCHANGED sessionReady
    /\ raced' = (raced \/ Exchanging) /\ Changes

SetApiKey(k) ==
    /\ memKey' = k /\ sessionReady' = FALSE
    /\ raced' = (raced \/ Exchanging) /\ Changes

\* Login and Settings.  The cookie of an earlier key stays, and goes first.
SaveKey(k) ==
    /\ SetApiKey(k) /\ authed' = TRUE
    /\ refusal' = "none" /\ UNCHANGED <<issued, cookie, calls, logout, cut>>

\* "Lock console" forgets the key and shows the login, no more.
Lock ==
    /\ authed /\ SetApiKey(NoCredential) /\ authed' = FALSE
    /\ refusal' = "none" /\ UNCHANGED <<issued, cookie, calls, logout, cut>>

\* Settings with no key: clearApiKey() signs out and waits for nothing.
ClearApiKey ==
    /\ authed /\ ~logout.sent /\ SetApiKey(NoCredential)
    /\ logout' = [sent |-> TRUE, with |-> cookie]
    /\ refusal' = "none" /\ UNCHANGED <<authed, issued, cookie, calls, cut>>

Revoked(s) == IF s = 0 THEN issued ELSE [issued EXCEPT ![s] = NoCredential]

\* The server ends the session it was sent; the answer takes away the cookie
\* there is by now.
LogoutAnswered ==
    /\ logout.sent /\ logout' = NoLogout
    /\ issued' = Revoked(logout.with)
    /\ cookie' = 0 /\ cut' = (cut \/ sessionReady)
    /\ refusal' = "none" /\ UNCHANGED <<changes, memKey, sessionReady, authed, calls,
                                       raced>>

LogoutFails ==
    /\ logout.sent /\ logout' = NoLogout
    /\ refusal' = "none" /\ UNCHANGED <<authed, calls, keyState>>

\* A session's time is over.
SessionEnds(s) ==
    /\ Signed(s) /\ issued' = Revoked(s)
    /\ cut' = (cut \/ (sessionReady /\ s = cookie))
    /\ refusal' = "none" /\ UNCHANGED <<changes, memKey, sessionReady, authed, cookie,
                                       calls, logout, raced>>

\* The page is loaded again; a DELETE under way may still be carried out.
Reload ==
    /\ memKey' = NoCredential /\ sessionReady' = FALSE /\ authed' = FALSE
    /\ issued' \in {issued, Revoked(logout.with)}
    /\ Loaded(CHOOSE c \in ApiCall : TRUE)
    /\ logout' = NoLogout /\ raced' = FALSE /\ cut' = FALSE
    /\ refusal' = "none"
    /\ Changes /\ UNCHANGED cookie

ConsoleNext ==
    \/ \E c \in ApiCall :
          \/ SendCall(c) \/ FirstAnswered(c) \/ ExchangeAnswered(c)
          \/ ExchangeFails(c) \/ LastAnswered(c) \/ NetworkFails(c)
    \/ \E k \in Credential : SaveKey(k)
    \/ \E s \in DOMAIN issued : SessionEnds(s)
    \/ Lock \/ ClearApiKey \/ LogoutAnswered \/ LogoutFails \/ Reload

ConsoleSpec == ConsoleInit /\ [][ConsoleNext]_conVars

-----------------------------------------------------------------------------
(* Properties.                                                             *)

ConsoleTypeOK ==
    /\ memKey \in Credential \cup {NoCredential}
    /\ changes \in 0..MaxChanges
    /\ sessionReady \in BOOLEAN /\ authed \in BOOLEAN
    /\ Len(issued) \in 0..MaxIssued /\ cookie \in 0..Len(issued)
    /\ refusal \in {"none", "no_key", "session_over", "unexplained"}
    /\ \A c \in ApiCall :
          /\ calls[c].pc \in {"idle", "first", "exchange", "retry", "by_key"}
          /\ calls[c].with \in 0..Len(issued)

\* While the browser believes in a session it has the cookie of a live one that
\* was issued to the key it holds, unless the key was changed during an exchange,
\* or the session has ended or its cookie was taken away by a late sign-out:
\* then nothing but a new key or a new page helps.  A call is refused although
\* there is a key only for one of these reasons, or for a session that ended, or
\* because another call made its session while this one was out.
ConsoleSound ==
    /\ sessionReady =>
          \/ raced \/ cut
          \/ Signed(cookie) /\ issued[cookie] = memKey
    /\ refusal # "unexplained"
=============================================================================

------------------------------ MODULE TaskCards ------------------------------
(***************************************************************************)
(* One A2A task card (POST /a2a/cards and /a2a/cards/:id/status of         *)
(* apps/control-plane/src/app.ts).  A change of status reads the card,     *)
(* writes the status, with a new acknowledgement token when the card is    *)
(* accepted and it read none, and reads the card again for its reply.      *)
(***************************************************************************)
EXTENDS Naturals, FiniteSets

CONSTANTS Partner, Token, NoToken

ASSUME CardAssumption == NoToken \notin Token

VARIABLES
    card,       \* [status, ack_token], or "none"
    call,       \* per caller: how far, the status it asks for, what it read
    reply,      \* per caller: the ackToken it was answered
    minted,     \* tokens newToken() has drawn
    overlapped  \* an acceptance read the card while another was at it

cardVars == <<card, call, reply, minted, overlapped>>

CardStatus == {"received", "accepted", "completed"}   \* of A2A_STATUSES

CardsInit ==
    /\ card = [status |-> "none", ack_token |-> NoToken]
    /\ call = [c \in Partner |-> [pc |-> "idle", want |-> "none", saw |-> NoToken]]
    /\ reply = [c \in Partner |-> NoToken]
    /\ minted = {} /\ overlapped = FALSE

\* The card, with a token when the partner sends one.
CreateCard(status, token) ==
    /\ card.status = "none"
    /\ card' = [status |-> status, ack_token |-> token]
    /\ minted' = minted \cup ({token} \ {NoToken})
    /\ UNCHANGED <<call, reply, overlapped>>

\* Mutant: every acceptance mints a token.
Bug_Minting == {c \in Partner : call[c].pc = "update" /\ call[c].want = "accepted"}

\* Calls between their read and their write that will mint a token.
Minting == {c \in Partner : /\ call[c].pc = "update" /\ call[c].want = "accepted"
                           /\ call[c].saw = NoToken}

ReadCard(c, want) ==
    /\ call[c].pc = "idle" /\ card.status # "none"
    /\ call' = [call EXCEPT ![c] = [pc |-> "update", want |-> want,
                                    saw |-> card.ack_token]]
    /\ overlapped' = (overlapped \/ (want = "accepted" /\ Minting # {}))
    /\ UNCHANGED <<card, reply, minted>>

UpdateCard(c) ==
    /\ call[c].pc = "update"
    /\ IF c \in Minting
       THEN \E t \in Token \ minted :
               /\ card' = [status |-> "accepted", ack_token |-> t]
               /\ minted' = minted \cup {t}
       ELSE card' = [card EXCEPT !.status = call[c].want] /\ UNCHANGED minted
    /\ call' = [call EXCEPT ![c].pc = "reread"]
    /\ UNCHANGED <<reply, overlapped>>

Reread(c) ==
    /\ call[c].pc = "reread"
    /\ reply' = [reply EXCEPT ![c] = card.ack_token]
    /\ call' = [call EXCEPT ![c].pc = "answered"]
    /\ UNCHANGED <<card, minted, overlapped>>

CardsNext ==
    \/ \E s \in CardStatus, t \in Token \cup {NoToken} : CreateCard(s, t)
    \/ \E c \in Partner : \/ \E want \in CardStatus : ReadCard(c, want)
                         \/ UpdateCard(c) \/ Reread(c)

CardsSpec == CardsInit /\ [][CardsNext]_cardVars

-----------------------------------------------------------------------------
(* Properties.                                                             *)

CardsTypeOK ==
    /\ card.status \in CardStatus \cup {"none"}
    /\ card.ack_token \in Token \cup {NoToken}
    /\ \A c \in Partner : call[c].pc \in {"idle", "update", "reread", "answered"}
    /\ reply \in [Partner -> Token \cup {NoToken}]

\* Whoever accepts the card is answered a token; and unless two acceptances
\* overlapped, it is the one the card still bears, whoever else accepted it
\* and whatever became of the card.
AcknowledgementStands ==
    \A c \in Partner : call[c].pc = "answered" /\ call[c].want = "accepted" =>
        /\ reply[c] # NoToken
        /\ overlapped \/ reply[c] = card.ack_token
=============================================================================

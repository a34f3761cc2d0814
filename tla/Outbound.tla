------------------------------ MODULE Outbound ------------------------------
(***************************************************************************)
(* Requests to other servers that are tried again: the signed webhook a    *)
(* delivery ends with (SignedWebhookEmitter.emit() of packages/            *)
(* integrations, called and not awaited by apps/control-plane/src/         *)
(* delivery.ts) and the page fetch of the scraper (fetchWithRetry() of     *)
(* packages/scraper/src/fetcher.ts).  The server may act on a request and  *)
(* its answer be lost.                                                     *)
(***************************************************************************)
EXTENDS Naturals

CONSTANTS Msg, Fetch,     \* webhooks to emit, and pages to fetch
          Retries         \* of a fetch

ASSUME OutboundAssumption == Retries \in Nat /\ Msg \cap Fetch = {}

Tries(x) == IF x \in Msg THEN 3 ELSE Retries + 1

VARIABLES
    out,       \* per request: "idle", "sent", "body", "asleep", "ended"
    tried,     \* attempts made
    heard,     \* what the last attempt came to
    came,      \* what emit() or fetchWithRetry() came to
    taken      \* the other side: how often it acted on a webhook

outVars == <<out, tried, heard, came, taken>>

OutboundInit ==
    /\ out = [x \in Msg \cup Fetch |-> "idle"]
    /\ tried = [x \in Msg \cup Fetch |-> 0]
    /\ heard = [x \in Msg \cup Fetch |-> "none"]
    /\ came = [x \in Msg \cup Fetch |-> "none"]
    /\ taken = [x \in Msg |-> 0]

\* The request is sent: for the first time, or after a sleep with tries left.
Send(x) ==
    /\ out[x] = "idle" \/ (out[x] = "asleep" /\ tried[x] < Tries(x))
    /\ out' = [out EXCEPT ![x] = "sent"]
    /\ tried' = [tried EXCEPT ![x] = @ + 1]
    /\ UNCHANGED <<heard, came, taken>>

Ends(x, result) ==
    /\ out' = [out EXCEPT ![x] = "ended"] /\ came' = [came EXCEPT ![x] = result]

Sleeps(x) == out' = [out EXCEPT ![x] = "asleep"] /\ UNCHANGED came

\* Mutant: a webhook is tried again whenever it was not accepted.
Bug_Retried(x, answer) ==
    IF x \in Msg THEN answer # "2xx"
    ELSE answer \in {"429", "5xx", "error"} /\ tried[x] < Tries(x)

\* A webhook sleeps after its last attempt too.
Retried(x, answer) ==
    IF x \in Msg THEN answer \in {"5xx", "error"}
    ELSE answer \in {"429", "5xx", "error"} /\ tried[x] < Tries(x)

\* What an attempt that is over comes to.
Settle(x, answer) ==
    /\ heard' = [heard EXCEPT ![x] = answer]
    /\ IF Retried(x, answer) THEN Sleeps(x)
       ELSE Ends(x, CASE x \in Msg -> (IF answer = "2xx" THEN "true" ELSE "false")
                      [] answer = "error" -> "raised"
                      [] OTHER -> "page")

\* emit(): the server takes the event and says so, or takes it and the answer is
\* lost or bad, or it does not take it.
WebhookAnswered(x) ==
    /\ x \in Msg /\ out[x] = "sent"
    /\ \E answer \in {"2xx", "4xx", "429", "5xx", "error"}, took \in BOOLEAN :
          /\ answer = "2xx" => took
          /\ answer \in {"4xx", "429"} => ~took
          /\ taken' = [taken EXCEPT ![x] = @ + (IF took THEN 1 ELSE 0)]
          /\ Settle(x, answer)
    /\ UNCHANGED tried

\* emit() wakes up with no tries left.
WebhookGivenUp(x) ==
    /\ x \in Msg /\ out[x] = "asleep" /\ tried[x] = Tries(x)
    /\ Ends(x, "false")
    /\ UNCHANGED <<tried, heard, taken>>

\* fetchWithRetry(): the headers arrive in time and the timer is cleared.  From
\* here nothing limits how long the body takes.
HeadersArrive(x) ==
    /\ x \in Fetch /\ out[x] = "sent"
    /\ \E status \in {"2xx", "4xx", "429", "5xx"} : heard' = [heard EXCEPT ![x] = status]
    /\ out' = [out EXCEPT ![x] = "body"]
    /\ UNCHANGED <<tried, came, taken>>

BodyArrives(x) ==
    /\ out[x] = "body" /\ Settle(x, heard[x])
    /\ UNCHANGED <<tried, taken>>

\* The connection breaks, or is aborted while there are no headers.
FetchBreaks(x) ==
    /\ x \in Fetch /\ out[x] \in {"sent", "body"}
    /\ Settle(x, "error")
    /\ UNCHANGED <<tried, taken>>

\* The process dies: nobody remembers the request.
CallerDies(x) ==
    /\ out[x] \notin {"idle", "ended"}
    /\ Ends(x, "died")
    /\ UNCHANGED <<tried, heard, taken>>

OutboundNext ==
    \E x \in Msg \cup Fetch :
       \/ Send(x) \/ WebhookAnswered(x) \/ WebhookGivenUp(x)
       \/ HeadersArrive(x) \/ BodyArrives(x) \/ FetchBreaks(x) \/ CallerDies(x)

OutboundSpec == OutboundInit /\ [][OutboundNext]_outVars

-----------------------------------------------------------------------------
(* Properties.                                                             *)

OutboundTypeOK ==
    /\ out \in [Msg \cup Fetch -> {"idle", "sent", "body", "asleep", "ended"}]
    /\ \A x \in Msg \cup Fetch : tried[x] \in 0..Tries(x)
    /\ came \in [Msg \cup Fetch ->
                    {"none", "true", "false", "page", "raised", "died"}]
    /\ taken \in [Msg -> 0..3]

\* An event that was refused is never sent again, and one that was accepted is
\* not either: the other side has it twice only when an answer was lost or bad.
\* true means that it has it, and false that it refused it or was tried three
\* times.  A fetch gives up, or answers with a transient status, only when its
\* tries are spent.
RetriesHonest ==
    /\ \A x \in Msg :
          /\ came[x] = "true" => heard[x] = "2xx" /\ taken[x] > 0
          /\ came[x] = "false" => heard[x] \in {"4xx", "429"} \/ tried[x] = 3
          /\ heard[x] \in {"2xx", "4xx", "429"} => out[x] = "ended"
          /\ taken[x] <= tried[x]
    /\ \A x \in Fetch :
          came[x] = "raised" \/ (came[x] = "page" /\ heard[x] \in {"429", "5xx"}) =>
             tried[x] = Retries + 1
=============================================================================

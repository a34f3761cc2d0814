------------------------------ MODULE McpServer ------------------------------
(***************************************************************************)
(* The MCP server (apps/mcp-server/src/index.ts): requests come as lines   *)
(* on stdin, replies go to stdout as they are ready, and the tools are     *)
(* HTTP calls to the control plane.  Nothing waits for anything: calls     *)
(* overlap, and the end of stdin ends the process with calls under way.    *)
(***************************************************************************)
EXTENDS Naturals, Sequences

CONSTANTS NLines      \* lines a client writes

Line == 1..NLines
ASSUME McpAssumption == NLines \in Nat

\* The tools by what they ask of the control plane; the writes are create_task
\* and request_approval, "unknown" is a name that is no tool's.
Tools == {"read", "context", "write", "unknown"}
Reads(tool) == CASE tool = "context" -> 3 [] tool = "unknown" -> 0 [] OTHER -> 1

\* What a line may be.  "plain" stands for initialize, tools/list and ping;
\* "silent" for the notification and for unknown methods without an id.
Texts == {"plain", "silent", "no_method", "broken", "null"} \cup Tools

VARIABLES
    life,       \* of the process: "up", "doomed" or "down"
    nread,      \* lines it has read
    request,    \* per line: [text, asked: HTTP calls under way, failed]
    effect,     \* the control plane: writes it has carried out, per line
    stdout       \* replies: <<line, what>>

mcpVars == <<life, nread, request, effect, stdout>>

NoRequest == [text |-> "silent", asked |-> 0, failed |-> FALSE]

McpInit ==
    /\ life = "up" /\ nread = 0
    /\ request = [i \in Line |-> NoRequest] /\ effect = [i \in Line |-> 0]
    /\ stdout = <<>>

Out(i, what) == stdout' = Append(stdout, <<i, what>>)

\* handle(), up to its first await.  An unknown tool throws inside the try; for
\* null nothing catches, and the process ends when the lines that came with it
\* have been looked at.
ReadLine(text) ==
    /\ life # "down" /\ nread < NLines
    /\ nread' = nread + 1
    /\ request' = [request EXCEPT ![nread + 1] =
                      [text |-> text, failed |-> FALSE,
                       asked |-> IF text \in Tools THEN Reads(text) ELSE 0]]
    /\ life' = IF text = "null" THEN "doomed" ELSE life
    /\ \/ text = "plain" /\ Out(nread + 1, "result")
       \/ text = "unknown" /\ Out(nread + 1, "error")
       \/ text \in {"no_method", "broken"} /\ Out(nread + 1, "refused")
       \/ text \notin {"plain", "unknown", "no_method", "broken"} /\ UNCHANGED stdout
    /\ UNCHANGED effect

\* The control plane carries a write out, the process being there or not.
CarryOut(i) ==
    /\ request[i].text = "write" /\ effect[i] = 0
    /\ request[i].asked > 0
    /\ effect' = [effect EXCEPT ![i] = 1]
    /\ UNCHANGED <<life, nread, request, stdout>>

\* Mutant: the context is answered with its first part.
Bug_Settled(i, r) == TRUE

\* Promise.all: the first failure settles it, otherwise the last answer.
Settled(i, r) == r.failed \/ r.asked = 0

\* One HTTP call ends: with data, refused by the control plane, or with an
\* answer that is lost or no JSON; the last is an error too.
CallEnds(i, how) ==
    /\ life = "up" /\ request[i].asked > 0
    /\ request[i].text = "write" => (how = "data" => effect[i] = 1)
    /\ request[i].text = "write" => (how = "refused" => effect[i] = 0)
    /\ LET r == [request[i] EXCEPT !.asked = @ - 1,
                                   !.failed = @ \/ how # "data"]
       IN  /\ request' = [request EXCEPT ![i] = r]
           /\ IF Settled(i, r) /\ ~request[i].failed
              THEN Out(i, IF r.failed THEN "error" ELSE "result")
              ELSE UNCHANGED stdout
    /\ UNCHANGED <<life, nread, effect>>

\* process.on("end"), whatever is under way or was read in part; or the end of a
\* process that is doomed.
ProcessExits ==
    /\ life # "down" /\ life' = "down"
    /\ UNCHANGED <<nread, request, effect, stdout>>

McpNext ==
    \/ \E text \in Texts : ReadLine(text)
    \/ \E i \in Line : CarryOut(i)
    \/ \E i \in Line, how \in {"data", "refused", "lost"} : CallEnds(i, how)
    \/ ProcessExits

McpSpec == McpInit /\ [][McpNext]_mcpVars

-----------------------------------------------------------------------------
(* Properties.                                                             *)

McpTypeOK ==
    /\ life \in {"up", "doomed", "down"} /\ nread \in 0..NLines
    /\ request \in [Line -> [text : Texts, asked : 0..3, failed : BOOLEAN]]
    /\ effect \in [Line -> {0, 1}]
    /\ stdout \in Seq(Line \X {"result", "error", "refused"})

Replies(i) == {k \in DOMAIN stdout : stdout[k][1] = i}
InFlight(i) == request[i].asked > 0

\* Every line that wants a reply has exactly one once its calls are over, unless
\* the process has ended; none has two, however its calls end.  A result says
\* that all of its calls brought data, and of a write that it is done; an error
\* of a write leaves open whether it is.  A reply may be overtaken only while it
\* waited for the control plane (index.ts).
McpAnswers ==
    /\ \A i \in Line, k, l \in DOMAIN stdout :
          k \in Replies(i) /\ l \in Replies(i) => k = l
    /\ \A i \in 1..nread :
          request[i].text \notin {"silent", "null"} /\ ~InFlight(i) => Replies(i) # {}
    /\ \A i \in 1..nread : Replies(i) # {} => request[i].text \notin {"silent", "null"}
    /\ \A i \in 1..nread : <<i, "result">> \in {stdout[k] : k \in DOMAIN stdout} =>
          /\ ~InFlight(i) /\ ~request[i].failed
          /\ request[i].text = "write" => effect[i] = 1
    /\ \A k, l \in DOMAIN stdout : k < l /\ stdout[k][1] > stdout[l][1] =>
          request[stdout[l][1]].text \in Tools
=============================================================================

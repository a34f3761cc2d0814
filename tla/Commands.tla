------------------------------ MODULE Commands ------------------------------
(***************************************************************************)
(* Commands run for the delivery pipeline and in sandboxes: the transports *)
(* of packages/delivery/src/exec-transport.ts and the providers of         *)
(* packages/orchestration/src/sandbox.ts.  A call starts a child process, *)
(* which is the command itself or the docker client that asks a container  *)
(* for it; the call answers at the child's "close", when it has ended and  *)
(* nobody holds its output any more, and its timeout kills the child only. *)
(***************************************************************************)
EXTENDS Naturals, FiniteSets

CONSTANT Command      \* calls, made one after the other

\* process, exec: the two transports; sandbox, run: the two sandboxes.
Kinds == {"process", "exec", "sandbox", "run"}
InContainer(k) == k \in {"exec", "run"}
Sandboxed(k) == k \in {"sandbox", "run"}

VARIABLES
    cmd         \* per command: [kind, pc, child, code, work, holds, timer,
                \*   late, answer]

cmdVars == <<cmd>>

\* child: the process spawned; work: whether what it was to do is being done,
\* holds: whether that keeps the output of a child that has ended open.
NoCall == [kind |-> "process", pc |-> "new", child |-> "none", code |-> "null",
           work |-> FALSE, holds |-> FALSE, timer |-> "off", late |-> FALSE,
           answer |-> "none"]

CommandsInit == cmd = [c \in Command |-> NoCall]

Now(c, pc) == cmd[c].pc = pc
Put(c, fields) == cmd' = [cmd EXCEPT ![c] = fields]

\* Two calls are never made at the same time.
Free == \A c \in Command : cmd[c].pc \in {"new", "answered", "refused"}

Started(r) == [r EXCEPT !.pc = "running", !.child = "alive", !.work = TRUE,
                        !.timer = "armed"]

\* exec(): assertCommandSafe() may refuse a sandboxed one, and a transport into a
\* container that is not configured refuses; a DockerSandbox asks for the daemon
\* first.
CallCommand(c) ==
    /\ Now(c, "new") /\ Free
    /\ \E k \in Kinds, allowed \in BOOLEAN :
          LET r == [NoCall EXCEPT !.kind = k] IN
          Put(c, CASE k # "process" /\ ~allowed -> [r EXCEPT !.pc = "refused"]
                   [] k = "run" -> [r EXCEPT !.pc = "probing"]
                   [] OTHER -> Started(r))

\* available(): a probe that fails, times out or cannot be run is a no.
ProbeEnds(c) ==
    /\ Now(c, "probing")
    /\ \E up \in BOOLEAN :
          Put(c, IF up THEN Started(cmd[c]) ELSE [cmd[c] EXCEPT !.pc = "refused"])

\* The child cannot be spawned: "error".
SpawnFails(c) ==
    /\ Now(c, "running") /\ cmd[c].child = "alive" /\ ~cmd[c].late
    /\ Put(c, [cmd[c] EXCEPT !.pc = "answered", !.child = "none", !.work = FALSE,
                 !.timer = IF Sandboxed(cmd[c].kind) THEN "off" ELSE @,
                 !.answer = "error"])

\* The child ends by itself.  A docker client ends with the work, or loses it; a
\* command may leave processes behind, which hold its output or do not.
ChildExits(c) ==
    /\ cmd[c].child = "alive"
    /\ \E code \in {"ok", "bad"}, left, holds \in BOOLEAN :
          /\ left => ~InContainer(cmd[c].kind) \/ code = "bad"
          /\ holds => left /\ ~InContainer(cmd[c].kind)
          /\ Put(c, [cmd[c] EXCEPT !.child = "exited", !.code = code,
                                    !.work = left, !.holds = holds])

\* The timeout: SIGKILL for the child if there still is one, and for nothing
\* else.  The transports never clear their timer.
CommandTimesOut(c) ==
    /\ cmd[c].timer = "armed"
    /\ \E holds \in IF InContainer(cmd[c].kind) THEN {FALSE} ELSE BOOLEAN,
          left \in IF InContainer(cmd[c].kind) THEN {TRUE} ELSE BOOLEAN :
          /\ holds => left
          /\ Put(c, IF cmd[c].child = "alive"
                    THEN [cmd[c] EXCEPT !.timer = "fired", !.late = TRUE,
                             !.child = "killed", !.work = left, !.holds = holds]
                    ELSE [cmd[c] EXCEPT !.timer = "fired",
                             !.late = Now(c, "running")])

\* What was left behind ends.
WorkEndsLate(c) ==
    /\ cmd[c].child \in {"exited", "killed"} /\ cmd[c].work
    /\ Put(c, [cmd[c] EXCEPT !.work = FALSE, !.holds = FALSE])

\* Mutant: the call answers at the child's exit, whatever holds its output.
Bug_Closed(c) == cmd[c].child \in {"exited", "killed"}

Closed(c) == cmd[c].child \in {"exited", "killed"} /\ ~cmd[c].holds

\* "close": the first answer counts; a sandbox clears its timer.
CommandAnswers(c) ==
    /\ Now(c, "running") /\ Closed(c)
    /\ Put(c, [cmd[c] EXCEPT !.pc = "answered", !.answer = cmd[c].code,
                 !.timer = IF Sandboxed(cmd[c].kind) THEN "off" ELSE @])

CommandsNext ==
    \E c \in Command :
       \/ CallCommand(c) \/ ProbeEnds(c) \/ SpawnFails(c) \/ ChildExits(c)
       \/ CommandTimesOut(c) \/ WorkEndsLate(c) \/ CommandAnswers(c)

CommandsSpec == CommandsInit /\ [][CommandsNext]_cmdVars

-----------------------------------------------------------------------------
(* Properties.                                                             *)

CommandsTypeOK ==
    cmd \in [Command ->
        [kind : Kinds, pc : {"new", "probing", "running", "answered", "refused"},
         child : {"none", "alive", "exited", "killed"}, code : {"null", "ok", "bad"},
         work : BOOLEAN, holds : BOOLEAN, timer : {"off", "armed", "fired"},
         late : BOOLEAN, answer : {"none", "null", "ok", "bad", "error"}]]

\* A call answers when its child is gone and no one holds its output, with an
\* exit code only if that child gave one: a timeout that still found it leaves
\* none.  Nothing refused was started.  What was asked for may go on after the
\* answer: in a container when the client was killed or failed, never after it
\* said ok; on the host when the command left processes behind.  So two commands
\* work in one worktree at the same time only after such an answer.
CommandsSettle ==
    /\ \A c \in Command :
          LET r == cmd[c] IN
          /\ r.pc = "answered" => r.child # "alive" /\ ~r.holds
          /\ r.pc = "refused" => r.child = "none" /\ ~r.work
          /\ r.answer \in {"ok", "bad"} => r.child = "exited"
          /\ r.child = "killed" => r.late /\ r.answer \in {"none", "null"}
          /\ InContainer(r.kind) /\ r.answer = "ok" => ~r.work
    /\ \A c, d \in Command : c # d /\ cmd[c].work /\ cmd[d].work =>
          \E e \in {c, d} : /\ cmd[e].child \in {"exited", "killed"}
                            /\ cmd[e].pc = "answered"
=============================================================================

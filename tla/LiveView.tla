------------------------------ MODULE LiveView ------------------------------
(***************************************************************************)
(* The event streams of dashboard pages that come and go: useEventStream() *)
(* of apps/dashboard/src/components/useEventStream.ts, as Overview and the *)
(* agents of a project use it.  A stream that fails comes back by a timer, *)
(* on its own; EventStream has the server's side.                          *)
(***************************************************************************)
EXTENDS Naturals

CONSTANT Visit        \* showings of a page with a stream

VARIABLE view         \* per visit: [page, first, pc, left, failed]

viewVars == <<view>>

\* page: "hidden", "shown" or "left"; pc: "off", "ticket", "open", "waiting" for
\* the timer, or "gone"; first: connect() was called by the effect itself; left:
\* pc when the page was left; failed: no ticket came.
NoVisit == [page |-> "hidden", first |-> TRUE, pc |-> "off", left |-> "off",
            failed |-> FALSE]

ViewInit == view = [v \in Visit |-> NoVisit]

AtPc(v, pc) == view[v].pc = pc

\* The effect: connect() asks for a ticket.
ShowPage(v) ==
    /\ view[v].page = "hidden" /\ \A w \in Visit : view[w].page # "shown"
    /\ view' = [view EXCEPT ![v] = [@ EXCEPT !.page = "shown", !.pc = "ticket"]]

\* Mutant: only what the first connect() made is ended.
Bug_Cleaned(s) == IF s.first /\ s.pc # "waiting" THEN "gone" ELSE s.pc

\* The cleanup that is kept is that of the first connect(): its own flag, and the
\* stream that is open, whoever opened it.  A timer is not cleared.
Cleaned(s) == IF s.pc = "open" \/ (s.pc = "ticket" /\ s.first) THEN "gone" ELSE s.pc

LeavePage(v) ==
    /\ view[v].page = "shown"
    /\ view' = [view EXCEPT ![v] = [@ EXCEPT !.page = "left", !.left = view[v].pc,
                                             !.pc = Cleaned(view[v])]]

TicketArrives(v) == AtPc(v, "ticket") /\ view' = [view EXCEPT ![v].pc = "open"]

\* Nobody tries again.
TicketFails(v) ==
    /\ AtPc(v, "ticket")
    /\ view' = [view EXCEPT ![v] = [@ EXCEPT !.pc = "gone", !.failed = TRUE]]

StreamFails(v) == AtPc(v, "open") /\ view' = [view EXCEPT ![v].pc = "waiting"]

\* The timer: a connect() with a flag of its own.
Reconnects(v) ==
    /\ AtPc(v, "waiting")
    /\ view' = [view EXCEPT ![v] = [@ EXCEPT !.pc = "ticket", !.first = FALSE]]

ViewNext ==
    \E v \in Visit :
       \/ ShowPage(v) \/ LeavePage(v) \/ TicketArrives(v) \/ TicketFails(v)
       \/ StreamFails(v) \/ Reconnects(v)

ViewSpec == ViewInit /\ [][ViewNext]_viewVars

-----------------------------------------------------------------------------
(* Properties.                                                             *)

ViewTypeOK ==
    view \in [Visit -> [page : {"hidden", "shown", "left"}, first : BOOLEAN,
                        pc : {"off", "ticket", "open", "waiting", "gone"},
                        left : {"off", "ticket", "open", "waiting", "gone"},
                        failed : BOOLEAN]]

\* A stream outlives its page only when the page was left between a failure and
\* the stream that followed it; it then comes back for ever, and streams of pages
\* long left may be open beside that of the page shown.  A page that is shown
\* lacks its stream for good only because a ticket was refused it once.
StreamsExplained ==
    /\ \A v \in Visit : view[v].page = "left" /\ ~AtPc(v, "gone") =>
          view[v].left = "waiting" \/ (view[v].left = "ticket" /\ ~view[v].first)
    /\ \A v \in Visit : view[v].page = "shown" /\ AtPc(v, "gone") => view[v].failed
=============================================================================

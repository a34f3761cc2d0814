---------------------------- MODULE EventStream -----------------------------
(***************************************************************************)
(* Domain events on their way to a browser: publishEvent() and the event   *)
(* bus, the domain_events table, and GET /api/v1/events with its replay    *)
(* after a reconnect (apps/control-plane/src/app.ts, core/src/events.ts).  *)
(*                                                                         *)
(* One process, one table, one EventSource client.  Like any EventSource   *)
(* it remembers the id of the last message that had one, and sends it as   *)
(* Last-Event-ID when it reconnects.  An event is its number in the order  *)
(* of publication.                                                         *)
(***************************************************************************)
EXTENDS Naturals, Sequences, SequencesExt, FiniteSets

CONSTANTS MaxEvents, MaxBreaks,   \* bounds: events, connections lost
          ReplayLimit,            \* rows a replay returns at most (200)
          RecentSize,             \* events in the opening snapshot (20)
          BufferSize,             \* events the bus keeps (1000)
          Stored                  \* subset of BOOLEAN: may an INSERT fail?

ASSUME StreamAssumption ==
    /\ {MaxEvents, MaxBreaks, ReplayLimit, RecentSize, BufferSize} \subseteq Nat
    /\ Stored \subseteq BOOLEAN

VARIABLES
    table,      \* domain_events: the events stored, seq is the position
    foreign,    \* events of other organisations
    buffer,     \* EventBus.buffer
    published,  \* events emitted so far
    lossy,      \* the stream numbered an event that is not in the table, or
                \* a replay left rows behind
    open,       \* the client's stream is open
    liveSeq,    \* the stream's counter for ids of live events
    lastId,     \* the id the client would reconnect with, 0: none yet
    got,        \* events the client received
    from,       \* stored events it could know of when its first id arrived
    breaks

evtVars == <<table, foreign, buffer, published, lossy, open, liveSeq, lastId,
             got, from, breaks>>

StreamTypeOK ==
    /\ published \in 0..MaxEvents /\ breaks \in 0..MaxBreaks
    /\ IsInjective(table) /\ ToSet(table) \subseteq 1..published
    /\ got \subseteq 1..published /\ foreign \subseteq 1..published
    /\ ToSet(buffer) \subseteq 1..published /\ Len(buffer) <= BufferSize
    /\ open \in BOOLEAN /\ lossy \in BOOLEAN
    /\ liveSeq \in Nat /\ lastId \in Nat /\ from \in Nat

StreamInit ==
    /\ table = <<>> /\ buffer = <<>> /\ foreign = {} /\ got = {}
    /\ published = 0 /\ liveSeq = 0 /\ lastId = 0 /\ from = 0 /\ breaks = 0
    /\ open = FALSE /\ lossy = FALSE

LastN(s, n) == IF Len(s) <= n THEN s ELSE SubSeq(s, Len(s) - n + 1, Len(s))
Mine(S) == S \ foreign

\* EventBus.emit(): buffered, and written to the open stream of the same
\* organisation under the stream's own next id.
Emit(e, other) ==
    /\ published' = e
    /\ foreign' = IF other THEN foreign \cup {e} ELSE foreign
    /\ buffer' = LastN(Append(buffer, e), BufferSize)
    /\ IF open /\ ~other
       THEN /\ liveSeq' = liveSeq + 1
            /\ lastId' = liveSeq + 1
            /\ got' = got \cup {e}
            /\ from' = IF from = 0 THEN e ELSE from
       ELSE UNCHANGED <<liveSeq, lastId, got, from>>

\* publishEvent(): emitted first, stored second.  The process may die, or the
\* INSERT fail, in between: then the event was seen and never stored.
PublishEvent(other, stored) ==
    /\ published < MaxEvents
    /\ Emit(published + 1, other)
    /\ table' = IF stored THEN Append(table, published + 1) ELSE table
    /\ lossy' = (lossy \/ (open /\ ~other /\ ~stored))
    /\ UNCHANGED <<open, breaks>>

\* Workers and the delivery pipeline emit on the bus and store nothing.
WorkerPublishes(other) ==
    /\ published < MaxEvents
    /\ Emit(published + 1, other)
    /\ lossy' = (lossy \/ (open /\ ~other))
    /\ UNCHANGED <<table, open, breaks>>

\* Mutant: the replay starts one too late.
Bug_MissedRows ==
    IF lastId = 0 THEN {}
    ELSE {i \in (lastId + 2)..Len(table) : table[i] \notin foreign}

\* SELECT ... WHERE org_id = ? AND seq > ? ORDER BY seq LIMIT: the positions
\* replayed for a client that names a last id.
MissedRows ==
    IF lastId = 0 THEN {}
    ELSE {i \in (lastId + 1)..Len(table) : table[i] \notin foreign}
Replayed ==
    {i \in MissedRows : Cardinality({j \in MissedRows : j < i}) < ReplayLimit}

\* GET /events: replay with the stored seq as id, then the snapshot of the
\* bus without ids, then live events counted on from the id the client sent.
Connect ==
    /\ ~open
    /\ open' = TRUE
    /\ got' = got \cup {table[i] : i \in Replayed}
                  \cup Mine(ToSet(LastN(buffer, RecentSize)))
    /\ liveSeq' = lastId
    /\ lastId' = IF Replayed = {} THEN lastId
                 ELSE CHOOSE i \in Replayed : \A j \in Replayed : j <= i
    /\ lossy' = (lossy \/ Replayed # MissedRows)
    /\ UNCHANGED <<table, foreign, buffer, published, from, breaks>>

\* The connection breaks; with it goes the subscription.
Break ==
    /\ open /\ breaks < MaxBreaks
    /\ open' = FALSE /\ breaks' = breaks + 1
    /\ UNCHANGED <<table, foreign, buffer, published, lossy, liveSeq, lastId,
                   got, from>>

\* The process restarts: the bus is empty, the table is not.
ServerRestarts ==
    /\ breaks < MaxBreaks
    /\ buffer' = <<>> /\ open' = FALSE /\ breaks' = breaks + 1
    /\ UNCHANGED <<table, foreign, published, lossy, liveSeq, lastId, got, from>>

StreamNext ==
    \/ \E other \in BOOLEAN, stored \in Stored : PublishEvent(other, stored)
    \/ \E other \in BOOLEAN : WorkerPublishes(other)
    \/ Connect \/ Break \/ ServerRestarts

StreamSpec == StreamInit /\ [][StreamNext]_evtVars

-----------------------------------------------------------------------------
(* Properties.                                                             *)

\* Stored events of its organisation that the client should know of by now,
\* counted from the first live event it saw, and never received.
Gap ==
    IF open /\ from > 0 THEN {e \in Mine(ToSet(table)) : e >= from} \ got
    ELSE {}

\* A connected client misses a stored event only if the stream numbered an
\* event that was not stored, so that its ids ran ahead of the seq of the table,
\* or a replay was cut off at its limit.  Breaks, restarts and events of other
\* organisations alone never open a gap.
GapExplained == Gap # {} => lossy
=============================================================================

------------------------------ MODULE AuditLog ------------------------------
(***************************************************************************)
(* The hash-chained audit log (packages/security/src/audit.ts): append(),  *)
(* verify() over the whole table and per organisation, and what can happen *)
(* to the table behind the service's back: a stored row is edited or       *)
(* removed (ADR-0010 calls the log tamper-evident).                        *)
(*                                                                         *)
(* A hash is the record of what it was computed from, which makes it       *)
(* injective; sha256 is trusted to be that.                                *)
(***************************************************************************)
EXTENDS Naturals, Sequences

CONSTANTS Org,          \* organisations sharing the one table
          Appender,     \* processes that append
          MaxAppends, MaxEdits

ASSUME AuditAssumption == MaxAppends \in Nat /\ MaxEdits \in Nat

VARIABLES
    events,    \* audit_events, by rising seq
    appends,   \* rows ever written: the next seq, and the id of a record
    tip,       \* what each appender read and has not used yet: hash, and seq
    edits      \* changes made to stored rows so far

audVars == <<events, appends, tip, edits>>

GENESIS == <<>>
NoTip == <<>>

\* sha256(prev_hash || canonical(event)), as the sequence of what went in.
HashOf(prev, body) == Append(prev, body)

AuditInit ==
    /\ events = <<>> /\ appends = 0 /\ edits = 0
    /\ tip = [a \in Appender |-> NoTip]

LastRow ==
    IF events = <<>> THEN [hash |-> GENESIS, seq |-> 0]
    ELSE [hash |-> events[Len(events)].hash, seq |-> events[Len(events)].seq]

\* append(), its SELECT: the newest hash of the table, whichever
\* organisation wrote it.
ReadTip(a) ==
    /\ tip[a] = NoTip
    /\ tip' = [tip EXCEPT ![a] = <<LastRow>>]
    /\ UNCHANGED <<events, appends, edits>>

\* append(), its INSERT.  The body carries a fresh id.  (after is no column:
\* it remembers which row the hash came from.)
Insert(a) ==
    /\ tip[a] # NoTip /\ appends < MaxAppends
    /\ \E o \in Org :
          LET body == [id |-> appends + 1, org |-> o] IN
          events' = Append(events,
              [seq |-> appends + 1, body |-> body, org |-> o,
               prev |-> tip[a][1].hash, after |-> tip[a][1].seq,
               hash |-> HashOf(tip[a][1].hash, body)])
    /\ appends' = appends + 1
    /\ tip' = [tip EXCEPT ![a] = NoTip]
    /\ UNCHANGED edits

\* A stored row is changed in place: its id column no longer is the one that
\* went into the hash.
EditRow(i) ==
    /\ edits < MaxEdits /\ i \in 1..Len(events)
    /\ events' = [events EXCEPT ![i].body.id = 0]
    /\ edits' = edits + 1
    /\ UNCHANGED <<appends, tip>>

\* A stored row is deleted.
DropRow(i) ==
    /\ edits < MaxEdits /\ i \in 1..Len(events)
    /\ events' = SubSeq(events, 1, i - 1) \o SubSeq(events, i + 1, Len(events))
    /\ edits' = edits + 1
    /\ UNCHANGED <<appends, tip>>

AuditNext ==
    \/ \E a \in Appender : ReadTip(a) \/ Insert(a)
    \/ \E i \in 1..MaxAppends : EditRow(i) \/ DropRow(i)

AuditSpec == AuditInit /\ [][AuditNext]_audVars

-----------------------------------------------------------------------------
(* verify().                                                               *)

\* Mutant: the links are checked, the hashes are not computed again.
Bug_Follows(rows, i) == rows[i].prev = (IF i = 1 THEN GENESIS ELSE rows[i - 1].hash)

\* Row i of a result set follows the row before it and hashes to what it says.
Follows(rows, i) ==
    LET prev == IF i = 1 THEN GENESIS ELSE rows[i - 1].hash IN
    rows[i].prev = prev /\ rows[i].hash = HashOf(prev, rows[i].body)

BrokenRows(rows) == {i \in 1..Len(rows) : ~Follows(rows, i)}

\* The verdict: valid, or the seq of the first row that does not fit.
Verify(rows) ==
    IF BrokenRows(rows) = {} THEN [valid |-> TRUE, brokenAtSeq |-> 0]
    ELSE LET first == CHOOSE i \in BrokenRows(rows) :
                         \A j \in BrokenRows(rows) : i <= j
         IN [valid |-> FALSE, brokenAtSeq |-> rows[first].seq]

VerifyAll == Verify(events)

\* verify(orgId): the rows of one organisation, under the same rule.
VerifyOrg(o) == Verify(SelectSeq(events, LAMBDA r : r.org = o))

-----------------------------------------------------------------------------
(* Properties.                                                             *)

AuditTypeOK ==
    /\ appends \in 0..MaxAppends /\ edits \in 0..MaxEdits
    /\ \A i \in 1..Len(events) :
          /\ events[i].seq \in 1..appends /\ events[i].org \in Org
          /\ \A j \in 1..(i - 1) : events[j].seq < events[i].seq

\* What is missing or altered, told without hashes: every row still is what
\* was written, and each was chained to the row that stands before it.
Untouched ==
    \A i \in 1..Len(events) :
        /\ events[i].body.id = events[i].seq
        /\ events[i].after = IF i = 1 THEN 0 ELSE events[i - 1].seq

\* Verification of the whole table accepts it exactly when nothing is altered
\* and nothing is missing, except rows cut off at the end, and names a row at
\* or after the first damage, never before it.
TamperEvident ==
    /\ VerifyAll.valid <=> Untouched
    /\ ~VerifyAll.valid =>
          \A i \in 1..Len(events) : events[i].seq < VerifyAll.brokenAtSeq =>
              events[i].body.id = events[i].seq

\* The service reports the log of an organisation as valid as long as nobody
\* touched it.
OrgLogVerifies == edits = 0 => \A o \in Org : VerifyOrg(o).valid
=============================================================================

------------------------------- MODULE PgBridge -------------------------------
(***************************************************************************)
(* Transactions over the synchronous PostgreSQL bridge (packages/db/src:   *)
(* pgdriver.ts, pgworker.cjs and Db of index.ts).  BEGIN, the statements   *)
(* and COMMIT or ROLLBACK are separate calls; the worker gives each to a   *)
(* connection of its pg.Pool.  The caller waits 30 s for an answer, then   *)
(* throws, and the query goes on.  The pool is external: it hands out the  *)
(* connection released last, and destroys one whose query failed.          *)
(***************************************************************************)
EXTENDS Naturals, Sequences, FiniteSets

CONSTANTS Conn, NoConn,     \* connections the pool may open
          MaxTxns, NWrites, \* transactions run, and the writes of each
          MaxTimeouts       \* calls that wait in vain

ASSUME PgAssumption ==
    /\ NoConn \notin Conn
    /\ MaxTxns \in Nat /\ NWrites \in Nat \ {0} /\ MaxTimeouts \in Nat

VARIABLES
    conn,       \* per connection: is a transaction open, its writes so far,
                \* and the statement it executes
    idle,       \* the pool's idle connections; the last is handed out first
    main,       \* the process's one thread: where it is, and whom it waits for
    txn,        \* transactions begun; an autocommitted statement counts as one
    outcome,    \* per transaction: what its caller was told
    stored,     \* writes committed, as <<transaction, number>>
    timeouts

pgVars == <<conn, idle, main, txn, outcome, stored, timeouts>>

Txn == 1..MaxTxns
Nothing == [kind |-> "none", write |-> <<0, 0>>]
Fresh == [open |-> FALSE, writes |-> {}, doing |-> Nothing]
Outside == [pc |-> "out", done |-> 0, on |-> NoConn]

PgInit ==
    /\ conn = [c \in Conn |-> Fresh] /\ idle = <<>>
    /\ main = Outside /\ txn = 0
    /\ outcome = [t \in Txn |-> "none"]
    /\ stored = {} /\ timeouts = 0

Busy == {c \in Conn : conn[c].doing # Nothing}
Pooled == {idle[i] : i \in DOMAIN idle}

\* pool.query(): an idle connection, else a new one.  (With none left the call
\* waits in the pool; Conn is larger than MaxTimeouts, so there is one.)
Taken == IF idle # <<>> THEN {idle[Len(idle)]} ELSE Conn \ (Busy \cup Pooled)

\* call(): the statement is posted and the thread waits.
Post(kind, write) ==
    \E c \in Taken :
        /\ conn' = [conn EXCEPT ![c].doing = [kind |-> kind, write |-> write]]
        /\ idle' = IF idle = <<>> THEN idle ELSE SubSeq(idle, 1, Len(idle) - 1)
        /\ main' = [main EXCEPT !.pc = kind, !.on = c]
        /\ UNCHANGED <<outcome, stored, timeouts>>

Begin == main.pc = "out" /\ txn < MaxTxns /\ txn' = txn + 1 /\ Post("begin", <<0, 0>>)

\* run() outside a transaction.
AutoCommit ==
    /\ main.pc = "out" /\ txn < MaxTxns
    /\ txn' = txn + 1 /\ Post("single", <<txn + 1, 1>>)

Write ==
    /\ main.pc = "body" /\ main.done < NWrites
    /\ Post("write", <<txn, main.done + 1>>) /\ UNCHANGED txn

Commit ==
    /\ main.pc = "body" /\ main.done = NWrites
    /\ Post("commit", <<0, 0>>) /\ UNCHANGED txn

\* Mutant: the transaction is not rolled back when its body throws.
Bug_BodyThrows ==
    /\ main.pc = "body"
    /\ main' = Outside /\ outcome' = [outcome EXCEPT ![txn] = "failed"]
    /\ UNCHANGED <<conn, idle, txn, stored, timeouts>>

\* fn() throws something of its own.
BodyThrows ==
    /\ main.pc = "body"
    /\ main' = [main EXCEPT !.pc = "caught"]
    /\ UNCHANGED <<conn, idle, txn, outcome, stored, timeouts>>

Rollback == main.pc = "caught" /\ Post("rollback", <<0, 0>>) /\ UNCHANGED txn

-----------------------------------------------------------------------------
(* What the thread does with the answer to the call it waits for.          *)

Tell(what) == main' = Outside /\ outcome' = [outcome EXCEPT ![txn] = what]

Answered ==
    CASE main.pc = "begin" ->
            /\ main' = [main EXCEPT !.pc = "body", !.on = NoConn]
            /\ UNCHANGED outcome
      [] main.pc = "write" ->
            /\ main' = [main EXCEPT !.pc = "body", !.on = NoConn, !.done = @ + 1]
            /\ UNCHANGED outcome
      [] main.pc = "commit" -> Tell("committed")
      [] main.pc = "single" -> Tell("written")
      [] main.pc = "rollback" -> Tell("failed")

\* BEGIN stands before the try: nothing is rolled back when it throws.
Thrown ==
    IF main.pc \in {"write", "commit"}
    THEN /\ main' = [main EXCEPT !.pc = "caught", !.on = NoConn]
         /\ UNCHANGED outcome
    ELSE Tell(IF main.pc = "single" THEN "unknown" ELSE "failed")

Waiting(c) == main.on = c

\* The effect of a statement on the session of its connection.
Session(c) ==
    LET s == [conn[c] EXCEPT !.doing = Nothing]
    IN CASE conn[c].doing.kind = "begin" -> [s EXCEPT !.open = TRUE]
         [] conn[c].doing.kind \in {"write", "single"} ->
                IF s.open THEN [s EXCEPT !.writes = @ \cup {conn[c].doing.write}]
                ELSE s
         [] conn[c].doing.kind \in {"commit", "rollback"} -> Fresh

Committed(c) ==
    CASE conn[c].doing.kind \in {"write", "single"} /\ ~conn[c].open ->
            {conn[c].doing.write}
      [] conn[c].doing.kind = "commit" -> conn[c].writes
      [] OTHER -> {}

\* The query ends; its connection is released as it is.
QueryEnds(c) ==
    /\ c \in Busy
    /\ conn' = [conn EXCEPT ![c] = Session(c)]
    /\ stored' = stored \cup Committed(c)
    /\ idle' = Append(idle, c)
    /\ IF Waiting(c) THEN Answered ELSE UNCHANGED <<main, outcome>>
    /\ UNCHANGED <<txn, timeouts>>

\* The query fails: its connection is destroyed, and PostgreSQL rolls back
\* what it had open (a COMMIT, or a statement of its own, may have gone through
\* all the same).
QueryFails(c) ==
    /\ c \in Busy
    /\ conn' = [conn EXCEPT ![c] = Fresh]
    /\ \/ UNCHANGED stored
       \/ /\ conn[c].doing.kind \in {"commit", "single"}
          /\ stored' = stored \cup Committed(c)
    /\ IF Waiting(c) THEN Thrown ELSE UNCHANGED <<main, outcome>>
    /\ UNCHANGED <<idle, txn, timeouts>>

\* Atomics.wait() gives up: the caller sees an error, the query goes on.
CallTimesOut ==
    /\ main.on # NoConn /\ timeouts < MaxTimeouts
    /\ timeouts' = timeouts + 1
    /\ Thrown
    /\ UNCHANGED <<conn, idle, txn, stored>>

\* A connection idle for 10 s is closed by the pool.  (Between two calls of a
\* transaction the thread does not linger that long.)
Reap ==
    /\ idle # <<>> /\ main.pc \notin {"body", "caught"}
    /\ conn' = [conn EXCEPT ![Head(idle)] = Fresh]
    /\ idle' = Tail(idle)
    /\ UNCHANGED <<main, txn, outcome, stored, timeouts>>

PgNext ==
    \/ Begin \/ AutoCommit \/ Write \/ Commit \/ BodyThrows \/ Rollback
    \/ CallTimesOut \/ Reap
    \/ \E c \in Conn : QueryEnds(c) \/ QueryFails(c)

PgSpec == PgInit /\ [][PgNext]_pgVars

-----------------------------------------------------------------------------
(* Properties.                                                             *)

PgTypeOK ==
    /\ main.pc \in {"out", "begin", "single", "body", "write", "commit",
                    "caught", "rollback"}
    /\ main.on \in Conn \cup {NoConn} /\ main.done \in 0..NWrites
    /\ main.on # NoConn => main.on \in Busy
    /\ Busy \cap Pooled = {} /\ Cardinality(Pooled) = Len(idle)
    /\ txn \in 0..MaxTxns /\ timeouts \in 0..MaxTimeouts
    /\ stored \subseteq Txn \X (1..NWrites)

StoredOf(t) == {w \in stored : w[1] = t}
WholeTxn(t) == Cardinality(StoredOf(t)) = NWrites

\* As long as no call timed out, the separate calls add up to a transaction:
\* every write of one its caller was told committed is stored; one that failed
\* left nothing, or, when it was the COMMIT that failed, everything.  A statement
\* of its own is stored when its caller was told so, and may be when it was not.
\* No connection in the pool has a transaction open.
UnitsUntilTimeout ==
    timeouts = 0 =>
        /\ \A t \in Txn :
              /\ outcome[t] = "committed" => WholeTxn(t)
              /\ outcome[t] = "failed" => StoredOf(t) = {} \/ WholeTxn(t)
              /\ outcome[t] = "written" => StoredOf(t) = {<<t, 1>>}
              /\ outcome[t] = "unknown" => StoredOf(t) \subseteq {<<t, 1>>}
        /\ main.pc = "out" => \A i \in DOMAIN idle : ~conn[idle[i]].open
=============================================================================

---------------------------- MODULE RateLimiter -----------------------------
(***************************************************************************)
(* The rate limiter (apps/control-plane/src/ratelimit.ts) on one bucket    *)
(* (organisation, key and address, route class): MemoryStore, which every  *)
(* replica keeps for itself, and PostgresStore, one row for all.  Both are *)
(* asked about the same requests.                                          *)
(*                                                                         *)
(* Time is counted in steps of the shared clock; WindowMs, PruneEvery and  *)
(* PruneAge are the code's windowMs, 60 s and 600 s on that scale.         *)
(***************************************************************************)
EXTENDS Naturals

CONSTANTS Replica, Limit, WindowMs, PruneEvery, PruneAge,
          EndOfTime,   \* bound on the clock
          MaxBurst     \* bound on what a window counts

ASSUME RateAssumption ==
    /\ {Limit, WindowMs, PruneEvery, PruneAge, EndOfTime, MaxBurst} \subseteq Nat
    /\ Limit > 0 /\ WindowMs > 0

\* The code prunes after 600 s and its default window is 60 s.  A longer
\* window than PruneAge would be pruned while it runs.
ASSUME RateWindowAssumption == WindowMs <= PruneAge

VARIABLES
    clock,
    bucket,     \* MemoryStore: the bucket of each replica
    lastPrune,  \* MemoryStore: when each replica pruned last
    counter,    \* rate_limit_counters: the shared row
    admitted,   \* what the shared store admitted at each of the last WindowMs steps
    admittedBy  \* what each replica's own store admitted at each of them

rateVars == <<clock, bucket, lastPrune, counter, admitted, admittedBy>>

NoBucket == [start |-> 0, count |-> 0]
Times == 0..EndOfTime

\* The last WindowMs steps by their age: 0 is the present.
Ages == 0..(WindowMs - 1)

\* One step older.
Older(f) == [a \in Ages |-> IF a = 0 THEN 0 ELSE f[a - 1]]

RateTypeOK ==
    /\ clock \in Times
    /\ bucket \in [Replica -> [start : Times, count : Nat]]
    /\ lastPrune \in [Replica -> Times]
    /\ counter \in [start : Times, count : Nat]
    /\ admitted \in [Ages -> Nat]
    /\ admittedBy \in [Replica -> [Ages -> Nat]]

RateInit ==
    /\ clock = 0
    /\ bucket = [p \in Replica |-> NoBucket]
    /\ lastPrune = [p \in Replica |-> 0]
    /\ counter = NoBucket
    /\ admitted = [a \in Ages |-> 0]
    /\ admittedBy = [p \in Replica |-> [a \in Ages |-> 0]]

RateTick ==
    /\ clock < EndOfTime
    /\ clock' = clock + 1
    /\ admitted' = Older(admitted)
    /\ admittedBy' = [p \in Replica |-> Older(admittedBy[p])]
    /\ UNCHANGED <<bucket, lastPrune, counter>>

\* MemoryStore.check(): old buckets are dropped at most once per PruneEvery.
PruneDue(p) == clock - lastPrune[p] >= PruneEvery
Pruned(p) ==
    IF PruneDue(p) /\ clock - bucket[p].start > PruneAge
    THEN NoBucket ELSE bucket[p]

\* The bucket after one more request: a new window, or one more in this one.
\* A request that will be refused is counted too.
Counted(b) ==
    IF b.count = 0 \/ clock - b.start >= WindowMs
    THEN [start |-> clock, count |-> 1]
    ELSE [b EXCEPT !.count = @ + 1]

\* Mutant: compared as if this request were not counted yet.
Bug_Allowed(b) == b.count <= Limit + 1

Allowed(b) == b.count <= Limit

\* PostgresStore.check(): ON CONFLICT DO UPDATE, a new window when
\* window_start <= now - windowMs.
Upserted(c) ==
    IF c.count = 0 \/ c.start + WindowMs <= clock
    THEN [start |-> clock, count |-> 1]
    ELSE [c EXCEPT !.count = @ + 1]

\* A request that is allowed is admitted now.
Admit(f, b) == [f EXCEPT ![0] = IF Allowed(b) THEN @ + 1 ELSE @]

\* One request served by replica p.
Request(p) ==
    /\ Counted(Pruned(p)).count <= MaxBurst /\ Upserted(counter).count <= MaxBurst
    /\ LET b == Counted(Pruned(p)) IN
       /\ bucket' = [bucket EXCEPT ![p] = b]
       /\ admittedBy' = [admittedBy EXCEPT ![p] = Admit(@, b)]
    /\ lastPrune' = [lastPrune EXCEPT ![p] = IF PruneDue(p) THEN clock ELSE @]
    /\ LET c == Upserted(counter) IN
       /\ counter' = c
       /\ admitted' = Admit(admitted, c)
    /\ UNCHANGED clock

\* A replica restarts with an empty map; its admissions are counted afresh.
RateRestart(p) ==
    /\ bucket[p] # NoBucket
    /\ bucket' = [bucket EXCEPT ![p] = NoBucket]
    /\ lastPrune' = [lastPrune EXCEPT ![p] = 0]
    /\ admittedBy' = [admittedBy EXCEPT ![p] = [a \in Ages |-> 0]]
    /\ UNCHANGED <<clock, counter, admitted>>

RateNext == RateTick \/ \E p \in Replica : Request(p) \/ RateRestart(p)
RateSpec == RateInit /\ [][RateNext]_rateVars

-----------------------------------------------------------------------------
(* Properties.                                                             *)

\* All that was admitted in the last WindowMs steps.
Total(f) ==
    LET sum[n \in 0..WindowMs] == IF n = 0 THEN 0 ELSE sum[n - 1] + f[n - 1]
    IN  sum[WindowMs]

\* Whatever the arrival pattern, and wherever windows and prunes fall, no
\* interval as long as a window sees more than twice the limit admitted: by
\* the shared store over all replicas together, by the store of a replica
\* between two of its restarts.
BurstBounded ==
    /\ Total(admitted) <= 2 * Limit
    /\ \A p \in Replica : Total(admittedBy[p]) <= 2 * Limit
=============================================================================

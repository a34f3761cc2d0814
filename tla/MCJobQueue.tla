----------------------------- MODULE MCJobQueue -----------------------------
(* Model-checking instances of JobQueue. *)
EXTENDS JobQueue, TLC

\* Jobs are interchangeable, and so are replicas.
Symm == Permutations(Job) \cup Permutations(Worker)
=============================================================================

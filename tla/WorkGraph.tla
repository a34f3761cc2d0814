------------------------------ MODULE WorkGraph ------------------------------
(***************************************************************************)
(* The work graph (packages/orchestration/src/workgraph.ts): compile()     *)
(* cuts the nodes into levels, execute() starts the handlers of a level    *)
(* together and waits for all of them.  Nodes are numbered in roster order *)
(* (the order of the array).                                               *)
(***************************************************************************)
EXTENDS Naturals, FiniteSets

CONSTANTS NNodes,    \* nodes of the graph: 1..NNodes
          Plans      \* the executions looked at

GraphNode == 1..NNodes
Dangling == 0        \* a dependency that names no node

\* after: dependsOn.  unmet: nodes whose condition is false.  fails: nodes
\* whose handler rejects.
ASSUME WorkGraphAssumption ==
    /\ NNodes \in Nat
    /\ Plans \subseteq [after : [GraphNode -> SUBSET (GraphNode \cup {Dangling})],
                        unmet : SUBSET GraphNode, fails : SUBSET GraphNode]

VARIABLES
    plan,      \* the execution at hand
    level,     \* nodes of the level being executed
    visited,   \* nodes of this level and the levels before it
    state,     \* per node: "unseen", "running", or its result
    barred,    \* blockedNodes
    passed     \* skippedNodes

graphVars == <<plan, level, visited, state, barred, passed>>

After(n) == plan.after[n]

-----------------------------------------------------------------------------
(* compile().                                                              *)

\* A set of nodes each of which waits for another one of the set: findCycles()
\* reports something exactly when there is one.
Cyclic == \E S \in SUBSET GraphNode : S # {} /\ \A n \in S : After(n) \cap S # {}

\* Mutant: a node is placed with the first of its dependencies.
Bug_Freed(placed) ==
    {n \in GraphNode \ placed : After(n) = {} \/ After(n) \cap placed # {}}

\* Kahn: the nodes whose last dependency is among the nodes already placed.
Freed(placed) == {n \in GraphNode \ placed : After(n) \subseteq placed}

\* The level after those that cover placed: the stranded nodes all go in a
\* last level of their own, unless a cycle was found, which drops them.
LevelAfter(placed) ==
    IF Freed(placed) # {} THEN Freed(placed)
    ELSE IF Cyclic THEN {} ELSE GraphNode \ placed

-----------------------------------------------------------------------------
(* execute().  level.map() runs the part of every node's function before   *)
(* its first await, in roster order, in one go: a node blocked there is in *)
(* blockedNodes when a later node of the level looks.                      *)

Blocked(lv) ==
    LET sweep[i \in 0..NNodes] ==
            IF i = 0 THEN barred
            ELSE IF i \in lv /\ After(i) \cap sweep[i - 1] # {}
                 THEN sweep[i - 1] \cup {i} ELSE sweep[i - 1]
    IN sweep[NNodes]

\* A condition that is not met is only entered in skippedNodes when the level
\* has settled, a skipped dependency at once.  before: skippedNodes so far.
Skipped(lv, before) ==
    LET sweep[i \in 0..NNodes] ==
            IF i = 0 THEN before
            ELSE IF /\ i \in lv \ (Blocked(lv) \cup plan.unmet)
                    /\ After(i) \cap sweep[i - 1] # {}
                 THEN sweep[i - 1] \cup {i} ELSE sweep[i - 1]
    IN sweep[NNodes]

StateAtStart(lv, before, n) ==
    IF n \notin lv THEN state[n]
    ELSE IF n \in Blocked(lv) THEN "blocked"
    ELSE IF n \in plan.unmet \cup Skipped(lv, before) THEN "skipped"
    ELSE "running"

\* The next turn of the loop over the levels, if there is one.
StartLevel(lv, before) ==
    /\ level' = lv
    /\ visited' = visited \cup lv
    /\ state' = [n \in GraphNode |-> StateAtStart(lv, before, n)]
    /\ barred' = Blocked(lv) /\ passed' = Skipped(lv, before)
    /\ UNCHANGED plan

GraphInit ==
    /\ plan \in Plans
    /\ level = {} /\ visited = {} /\ barred = {} /\ passed = {}
    /\ state = [n \in GraphNode |-> "unseen"]

ExecuteGraph == visited = {} /\ LevelAfter({}) # {} /\ StartLevel(LevelAfter({}), {})

\* A handler answers: the handlers of a level end in any order.
HandlerDone(n) ==
    /\ state[n] = "running"
    /\ IF n \in plan.fails
       THEN /\ state' = [state EXCEPT ![n] = "blocked"]
            /\ barred' = barred \cup {n}
       ELSE /\ state' = [state EXCEPT ![n] = "completed"]
            /\ UNCHANGED barred
    /\ UNCHANGED <<plan, level, visited, passed>>

\* Promise.all() settles: the level's skipped nodes are entered, and the next
\* level starts or the execution is over.
LevelSettles ==
    /\ level # {} /\ \A n \in level : state[n] # "running"
    /\ StartLevel(LevelAfter(visited),
                  passed \cup {n \in level : state[n] = "skipped"})

GraphNext ==
    \/ ExecuteGraph \/ LevelSettles
    \/ \E n \in GraphNode : HandlerDone(n)

GraphSpec == GraphInit /\ [][GraphNext]_graphVars

-----------------------------------------------------------------------------
(* Properties.                                                             *)

GraphTypeOK ==
    /\ plan \in Plans
    /\ level \subseteq visited /\ visited \subseteq GraphNode
    /\ state \in [GraphNode -> {"unseen", "running", "completed",
                                "skipped", "blocked"}]
    /\ barred \subseteq visited /\ passed \subseteq visited

WholeGraph == ~Cyclic /\ \A n \in GraphNode : Dangling \notin After(n)

\* What the execution must come to, node by node and in no order: a node with
\* a failed dependency behind it is blocked, whether it was skipped or not.
Verdict ==
    LET after == plan.after
        end[k \in 0..NNodes] ==
            IF k = 0 THEN [n \in GraphNode |-> "unseen"]
            ELSE [n \in GraphNode |->
                IF \E d \in after[n] : end[k - 1][d] = "unseen" THEN "unseen"
                ELSE IF \E d \in after[n] : end[k - 1][d] = "blocked" THEN "blocked"
                ELSE IF \/ n \in plan.unmet
                        \/ \E d \in after[n] : end[k - 1][d] = "skipped" THEN "skipped"
                ELSE IF n \in plan.fails THEN "blocked" ELSE "completed"]
    IN end[NNodes]

\* The engine is deterministic: on a graph without cycles and dangling
\* dependencies, however the handlers of a level interleave, no handler runs
\* before all the nodes it depends on are completed, and every result is the
\* one the definition gives.
OrderFree ==
    WholeGraph =>
        \A n \in GraphNode :
            /\ state[n] \in {"running", "completed"} =>
                  \A d \in After(n) : state[d] = "completed"
            /\ state[n] \notin {"unseen", "running"} => state[n] = Verdict[n]
=============================================================================

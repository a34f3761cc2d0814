---------------------------- MODULE MCExecution -----------------------------
(***************************************************************************)
(* Model-checking instances of Execution.  The large one looks at two      *)
(* scenes rather than at their product: requests that race each other,     *)
(* before any worker claims, and one request whose execution the workers   *)
(* run.  The fairness of the workers makes liveness a matter of the second.*)
(***************************************************************************)
EXTENDS Execution

CONSTANTS Alone    \* the request of the second scene
ASSUME AloneAssumption == Alone \in Request

VARIABLE scene

\* In the second scene the processes of the other requests are gone, and the one
\* that is left gives no key.
SceneInit ==
    /\ scene \in {"dispatch", "work"}
    /\ Init
    /\ req = [r \in Request |-> IF scene = "dispatch" \/ r = Alone THEN NewRequest
                                ELSE [NewRequest EXCEPT !.pc = "lost"]]
    /\ keyRow = [k \in Key |-> NoJob]
    /\ exec = [j \in Job |-> "absent"] /\ foreign = {}
    /\ stage = [w \in Worker |-> "entry"]
    /\ errors = [j \in Job |-> 0]
    /\ charged = [j \in Job |-> 0]
    /\ agent = "idle"
    /\ task = [j \in Job |-> "ready"]

SceneNext ==
    /\ ENext
    /\ scene = "dispatch" => UNCHANGED workerVars
    /\ scene = "work" => req'[Alone].key = NoKey
    /\ UNCHANGED scene

SceneSpec == SceneInit /\ [][SceneNext]_<<eVars, scene>> /\ EFairness
=============================================================================

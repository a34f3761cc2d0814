----------------------------- MODULE MCWorkflow -----------------------------
(* Model-checking instance of Workflow: the shapes of two-stage definitions. *)
EXTENDS Workflow

MCDefinitions ==
    {[width |-> <<0, 2>>, skip |-> {1}],     \* a prunable start, then a fan-out
     [width |-> <<2, 0>>, skip |-> {2}],     \* a fan-out, then a prunable end
     [width |-> <<1, 0>>, skip |-> {1, 2}]}  \* everything prunable
=============================================================================

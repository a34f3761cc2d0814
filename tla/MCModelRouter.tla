---------------------------- MODULE MCModelRouter ----------------------------
(* Model-checking instance of ModelRouter: two models, cheaper first. *)
EXTENDS ModelRouter

MCTierOf == <<"FAST", "STANDARD">>
MCEstimate == <<0, 1>>
MCPrice == <<1, 1>>

NoBudget == [limit |-> <<>>, action |-> <<>>]
Daily(act) == [limit |-> [s \in {"daily"} |-> 1], action |-> [s \in {"daily"} |-> act]]
\* An organisation budget that downgrades in front of a daily one that blocks.
Masking == [limit |-> [s \in {"org", "daily"} |-> 1],
            action |-> [s \in {"org", "daily"} |->
                           IF s = "org" THEN "downgrade" ELSE "block"]]
MCBudgets == {NoBudget, Daily("block"), Masking}
=============================================================================

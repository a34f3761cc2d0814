----------------------------- MODULE MCDelivery -----------------------------
(* Model-checking instance of Delivery: two dispatches of any of the tasks. *)
EXTENDS Delivery

CONSTANTS t1, t2, t3, t4
MCSpecOf == [t \in {t1, t2, t3, t4} |->
                CASE t = t1 -> "delivery" [] t = t2 -> "invalid"
                  [] t = t3 -> "service"  [] OTHER -> "agentic"]
=============================================================================

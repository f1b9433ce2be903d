------------------------- MODULE MCOperatorSchedule -------------------------
(***************************************************************************)
(* OperatorSchedule on a one-shot and a recurring schedule of one Operator. *)
(***************************************************************************)
EXTENDS OperatorSchedule

CONSTANTS oper

OneOperator == [s \in {1, 2} |-> oper]
Rules == <<[kind |-> "once", step |-> 1], [kind |-> "interval", step |-> 2]>>
Graces == <<0, NoTime>>

OnceAndDaily == <<[kind |-> "once", step |-> 1], [kind |-> "daily", step |-> 1]>>
=============================================================================

--------------------------- MODULE MCManagerQueue ---------------------------
(* Model values for checking ManagerQueue with TLC.                        *)
EXTENDS ManagerQueue

CONSTANTS chat1, chat2, sched1, oper, old, new

OneLane == [q \in Requests |-> oper]
=============================================================================

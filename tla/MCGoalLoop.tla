----------------------------- MODULE MCGoalLoop -----------------------------
(***************************************************************************)
(* GoalLoop for TLC: it needs nothing but its constants.                    *)
(***************************************************************************)
EXTENDS GoalLoop
=============================================================================

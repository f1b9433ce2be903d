--------------------------- MODULE MCActionLedger ---------------------------
(* Model values for checking ActionLedger with TLC.                        *)
EXTENDS ActionLedger

CONSTANTS p1, p2
=============================================================================

----------------------------- MODULE MCWorkerRun -----------------------------
(***************************************************************************)
(* WorkerRun on one or two submitted runs; the other run ids are there for *)
(* retries, and no action tells them apart.                                *)
(***************************************************************************)
EXTENDS WorkerRun, TLC

CONSTANTS r1, r2, r3

Retries == Permutations({r2, r3})
=============================================================================

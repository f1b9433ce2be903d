---------------------------- MODULE RunOwnership ----------------------------
(***************************************************************************)
(* What the owner leases of worker runs promise                            *)
(* (docs/specs/worker-owner-exit-brief.md, C1, C4 and C5), without         *)
(* workers, probes, kills or statuses: a run has at most one owner at a    *)
(* time; owners are numbered; a new one starts only when the last one has  *)
(* been given up; one that has been given up never returns.                *)
(***************************************************************************)
EXTENDS Naturals

CONSTANT Runs

VARIABLES
    owner,      \* the generation that owns a run, 0 for none
    last        \* the last generation a run has had

Init == /\ owner = [r \in Runs |-> 0]
        /\ last = [r \in Runs |-> 0]

Take(r) == /\ owner[r] = 0
           /\ last' = [last EXCEPT ![r] = @ + 1]
           /\ owner' = [owner EXCEPT ![r] = last[r] + 1]

GiveUp(r) == /\ owner[r] # 0
             /\ owner' = [owner EXCEPT ![r] = 0]
             /\ UNCHANGED last

Next == \E r \in Runs : Take(r) \/ GiveUp(r)

Spec == Init /\ [][Next]_<<owner, last>>
=============================================================================

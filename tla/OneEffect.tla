----------------------------- MODULE OneEffect ------------------------------
(***************************************************************************)
(* What the action control plane promises of an external action            *)
(* (docs/specs/action-control-plane-brief.md, sections 1 and 2), without   *)
(* approvals, attempts, leases or probes: an approved intent is tried      *)
(* once; while it is in doubt its effect may appear, once; it is called    *)
(* done only when the effect is there and void only when there is none,    *)
(* and then none ever appears.                                             *)
(***************************************************************************)
EXTENDS Naturals

CONSTANT Intents

VARIABLES
    phase,      \* open, tried (in doubt), done or void
    effects     \* how often the intent took effect

Init == /\ phase = [i \in Intents |-> "open"]
        /\ effects = [i \in Intents |-> 0]

Try(i) == /\ phase[i] = "open"
          /\ phase' = [phase EXCEPT ![i] = "tried"]
          /\ UNCHANGED effects

TakeEffect(i) == /\ phase[i] = "tried" /\ effects[i] = 0
                 /\ effects' = [effects EXCEPT ![i] = 1]
                 /\ UNCHANGED phase

\* What took effect may be doubted, several intents at once, and found again.
Settle(i) == /\ phase' = [phase EXCEPT ![i] = IF effects[i] = 0 THEN "void" ELSE "done"]
             /\ phase[i] = "tried"
             /\ UNCHANGED effects
Doubt(I) == /\ \A i \in I : phase[i] = "done"
            /\ phase' = [i \in Intents |-> IF i \in I THEN "tried" ELSE phase[i]]
            /\ UNCHANGED effects

Next == \/ \E i \in Intents : Try(i) \/ TakeEffect(i) \/ Settle(i)
        \/ \E I \in SUBSET Intents : Doubt(I)

Spec == Init /\ [][Next]_<<phase, effects>>
=============================================================================

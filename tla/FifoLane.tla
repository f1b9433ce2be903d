------------------------------ MODULE FifoLane ------------------------------
(***************************************************************************)
(* What the message queue promises, without processes, claims or leases    *)
(* (docs/manager-message-queue.md, "Decision"): items are admitted at the  *)
(* end of their lane, one item of a lane is worked on at a time, the       *)
(* oldest waiting one first; an item given back keeps its place; a         *)
(* finished item is never worked on again.                                 *)
(*                                                                         *)
(* One step may finish, give back, forget and admit items, and then begin  *)
(* the heads of lanes left free: the code drains a lane in the same step   *)
(* that frees it.                                                          *)
(***************************************************************************)
EXTENDS Naturals

CONSTANTS Items, Lanes, LaneOf

VARIABLES
    state,      \* absent, waiting, active or done
    place       \* admission number of an item that is not absent

States == {"absent", "waiting", "active", "done"}

Init == /\ state = [i \in Items |-> "absent"]
        /\ place = [i \in Items |-> 0]

\* What may happen to an item before the lanes are drained.
Moves == {<<"absent", "waiting">>,                          \* admitted
          <<"active", "waiting">>,                          \* given back
          <<"active", "done">>, <<"waiting", "done">>,      \* finished
          <<"waiting", "absent">>, <<"done", "absent">>}    \* forgotten

Moved(mid) ==
    \A i \in Items :
        mid[i] = state[i] \/ <<state[i], mid[i]>> \in Moves

\* An admitted item goes behind every item of its lane; the others keep their
\* places while they are present.
Placed(mid) ==
    \A i \in Items :
        /\ state[i] = "absent" /\ mid[i] = "waiting" =>
               \A j \in Items \ {i} :
                   LaneOf[j] = LaneOf[i] /\ mid[j] # "absent" =>
                       place'[j] < place'[i]
        /\ state[i] # "absent" /\ mid[i] # "absent" => place'[i] = place[i]

\* Begin nothing, or the head of a lane in which nothing is active.
Begun(mid) ==
    \A i \in Items :
        \/ state'[i] = mid[i]
        \/ /\ mid[i] = "waiting" /\ state'[i] = "active"
           /\ \A j \in Items \ {i} :
                  LaneOf[j] = LaneOf[i] =>
                      /\ mid[j] # "active"
                      /\ mid[j] = "waiting" => place'[i] < place'[j]

Step == \E mid \in [Items -> States] : Moved(mid) /\ Placed(mid) /\ Begun(mid)

Spec == Init /\ [][Step]_<<state, place>>
=============================================================================

------------------------- MODULE ManagerQueueProofs -------------------------
(***************************************************************************)
(* Proofs about ManagerQueue for every set of requests, lanes and owners   *)
(* and every value of the bounds.                                          *)
(***************************************************************************)
EXTENDS ManagerQueue, TLAPS

-----------------------------------------------------------------------------
(* Types                                                                   *)

\* Every prepared UPDATE turns a row into a row (managerMessageQueueService,
\* the `stmts' table).
LEMMA UpdatesKeepRows ==
    ASSUME NEW r \in Row
    PROVE  /\ Unclaimed(r) \in Row
           /\ \A n \in Nat : Queued(r, n) \in Row
           /\ \A o \in Owners : Claimed(r, o) \in Row
           /\ \A run \in Nat : Processing(r, run) \in Row
           /\ \A ready \in BOOLEAN : Released(r, ready) \in Row
           /\ \A s \in Statuses, y \in Reasons : Ended(r, s, y) \in Row
           /\ Discarded(r) \in Row
           /\ \A result : Completed(r, result) \in Row
           /\ SessionLost(r) \in Row
           /\ \A error : Refused(r, error) \in Row
<1>1. Unclaimed(r) \in Row
  BY DEF Row, Unclaimed
<1>2. \A n \in Nat : Queued(r, n) \in Row
  BY DEF Row, Queued, Statuses, Reasons, NoRun
<1>3. ASSUME NEW o \in Owners
      PROVE  Claimed(r, o) \in Row
  <2>1. /\ r.claims + 1 \in Nat
        /\ r.attempts + 1 \in Nat
    BY DEF Row
  <2> QED
    BY <2>1 DEF Row, Claimed, Statuses
<1>4. \A run \in Nat : Processing(r, run) \in Row
  BY DEF Row, Processing, Statuses
<1>5. \A ready \in BOOLEAN : Released(r, ready) \in Row
  BY <1>1 DEF Row, Released, Statuses, NoRun
<1>6. \A s \in Statuses, y \in Reasons : Ended(r, s, y) \in Row
  BY <1>1 DEF Row, Ended
<1>7. Discarded(r) \in Row
  BY DEF Row, Discarded, NoRow, Statuses, Reasons, NoRun
<1>8. \A result : Completed(r, result) \in Row
  BY <1>6 DEF Completed, Statuses, Reasons
<1>9. SessionLost(r) \in Row
  BY <1>6 DEF SessionLost, Statuses, Reasons
<1>10. \A error : Refused(r, error) \in Row
  BY <1>5, <1>6 DEF Refused, Statuses, Reasons
<1> QED
  BY <1>1, <1>2, <1>3, <1>4, <1>5, <1>6, <1>7, <1>8, <1>9, <1>10

\* A drain keeps the table and the calls well typed.
LEMMA DrainKeepsTypes ==
    ASSUME NEW o \in Owners, NEW cs, NEW R, NEW K,
           R \in [Requests -> Row], K \subseteq Call,
           Drain(o, cs, R, K)
    PROVE  row' \in [Requests -> Row] /\ calls' \subseteq Call
<1>1. \A q \in Requests : Claimed(R[q], o) \in Row
  BY UpdatesKeepRows
<1>2. row' \in [Requests -> Row]
  BY <1>1 DEF Drain
<1>3. ASSUME NEW q \in Requests
      PROVE  [owner |-> o, req |-> q, tok |-> R[q].claims + 1,
              phase |-> "dispatching", run |-> NoRun, again |-> FALSE] \in Call
  BY DEF Call, Row, NoRun
<1>4. calls' \subseteq Call
  BY <1>3 DEF Drain
<1> QED
  BY <1>2, <1>4

LEMMA KickKeepsTypes ==
    ASSUME NEW o \in Owners, NEW cs, NEW R, NEW K,
           R \in [Requests -> Row], K \subseteq Call,
           Kick(o, cs, R, K)
    PROVE  row' \in [Requests -> Row] /\ calls' \subseteq Call
  BY DrainKeepsTypes DEF Kick

LEMMA ChainedKeepsTypes ==
    ASSUME NEW o, NEW cs, NEW K, K \subseteq Call
    PROVE  Chained(K, o, cs) \subseteq Call
<1>1. \A k \in Call : [k EXCEPT !.again = TRUE] \in Call
  BY DEF Call
<1> QED
  BY <1>1 DEF Chained

\* Every step of every process keeps the types.
LEMMA NextKeepsTypes == TypeOK /\ [Next]_vars => TypeOK'
<1> USE QueueAssumption
<1> SUFFICES ASSUME TypeOK, [Next]_vars
             PROVE  TypeOK'
  OBVIOUS
<1>t. /\ row \in [Requests -> Row]
      /\ calls \subseteq Call
      /\ turns \subseteq [owner : Owners, req : Requests, run : Nat]
      /\ lastSeq \in Nat /\ lastRun \in Nat
      /\ slot \in [Owners -> [Lanes -> Slot]]
  BY DEF TypeOK
<1>1. ASSUME NEW o \in Owners, NEW q \in Requests, Enqueue(o, q)
      PROVE  TypeOK'
  <2>0. lastSeq + 1 \in Nat
    BY <1>t
  <2>1. [row EXCEPT ![q] = Queued(@, lastSeq + 1)] \in [Requests -> Row]
    BY <1>t, <2>0, UpdatesKeepRows
  <2>2. Kick(o, {LaneOf[q]}, [row EXCEPT ![q] = Queued(@, lastSeq + 1)], calls)
    BY <1>1 DEF Enqueue
  <2>3. row' \in [Requests -> Row] /\ calls' \subseteq Call
    BY <1>t, <2>1, <2>2, KickKeepsTypes
  <2> QED
    BY <1>1, <2>0, <2>3 DEF TypeOK, Enqueue
<1>2. ASSUME NEW o \in Owners, NEW q \in Requests, EnqueueDuplicate(o, q)
      PROVE  TypeOK'
  <2>1. row' \in [Requests -> Row] /\ calls' \subseteq Call
    BY <1>t, <1>2, KickKeepsTypes DEF EnqueueDuplicate
  <2> QED
    BY <1>2, <2>1 DEF TypeOK, EnqueueDuplicate
<1>3. ASSUME NEW o \in Owners, NEW q \in Requests, EnqueueReturns(o, q)
      PROVE  TypeOK'
  <2>1. row' \in [Requests -> Row]
    BY <1>t, <1>3, UpdatesKeepRows DEF EnqueueReturns
  <2> QED
    BY <1>3, <2>1 DEF TypeOK, EnqueueReturns
<1>4. ASSUME NEW o \in Owners, NEW q \in Requests, Cancel(o, q)
      PROVE  TypeOK'
  <2>1. row' \in [Requests -> Row]
    BY <1>t, <1>4, UpdatesKeepRows DEF Cancel, Statuses, Reasons
  <2> QED
    BY <1>4, <2>1 DEF TypeOK, Cancel
<1>5. ASSUME NEW o \in Owners, NEW c \in Lanes, Archive(o, c)
      PROVE  TypeOK'
  <2>1. row' \in [Requests -> Row]
    BY <1>t, <1>5, UpdatesKeepRows DEF Archive, Statuses, Reasons
  <2> QED
    BY <1>5, <2>1 DEF TypeOK, Archive
<1>6. ASSUME NEW o \in Owners, NEW c \in Lanes, SessionDies(o, c)
      PROVE  TypeOK'
  <2>1. [run |-> slot[o][c].run, alive |-> FALSE] \in Slot
    BY <1>t DEF Slot
  <2>2. slot' \in [Owners -> [Lanes -> Slot]]
    BY <1>t, <1>6, <2>1 DEF SessionDies
  <2> QED
    BY <1>6, <2>2 DEF TypeOK, SessionDies
<1>7. ASSUME NEW o \in Owners, NEW c \in Lanes, SlotCleared(o, c)
      PROVE  TypeOK'
  <2> DEFINE run == slot[o][c].run
             lost == {q \in Requests : /\ LaneOf[q] = c
                                       /\ row[q].run = run
                                       /\ row[q].status \in InFlight}
             R == [q \in Requests |-> IF q \in lost THEN SessionLost(row[q])
                                                    ELSE row[q]]
  <2>1. R \in [Requests -> Row]
    BY <1>t, UpdatesKeepRows
  <2>2. Kick(o, IF lost = {} THEN {} ELSE {c}, R, calls)
    BY <1>7 DEF SlotCleared
  <2>3. row' \in [Requests -> Row] /\ calls' \subseteq Call
    BY <1>t, <2>1, <2>2, KickKeepsTypes
  <2>4. slot' \in [Owners -> [Lanes -> Slot]]
    BY <1>t, <1>7 DEF SlotCleared, Slot, EmptySlot, NoRun
  <2> QED
    BY <1>7, <2>3, <2>4 DEF TypeOK, SlotCleared
<1>8. ASSUME NEW k \in calls, AdapterAccepts(k)
      PROVE  TypeOK'
  <2>1. k \in Call
    BY <1>t
  <2>2. LaneOf[k.req] \in Lanes /\ k.owner \in Owners /\ k.req \in Requests
    BY <2>1 DEF Call
  <2>3. Session(k.owner, LaneOf[k.req]) \in Nat
    BY <1>t, <2>2 DEF Session, Slot
  <2>4. /\ slot' \in [Owners -> [Lanes -> Slot]]
        /\ lastRun' \in Nat
    BY <1>t, <1>8, <2>2, <2>3 DEF AdapterAccepts, UseSession, Slot
  <2>5. calls' \subseteq Call
    BY <1>t, <1>8, <2>1, <2>3 DEF AdapterAccepts, Call
  <2>6. turns' \subseteq [owner : Owners, req : Requests, run : Nat]
    BY <1>t, <1>8, <2>2, <2>3 DEF AdapterAccepts
  <2>7. started' \in [Requests -> Nat]
    <3>1. started \in [Requests -> Nat] /\ started[k.req] + 1 \in Nat
      BY <2>2 DEF TypeOK
    <3> QED
      BY <1>8, <3>1 DEF AdapterAccepts
  <2> QED
    BY <1>8, <2>4, <2>5, <2>6, <2>7 DEF TypeOK, AdapterAccepts
<1>9. ASSUME NEW k \in calls, NEW heard \in BOOLEAN,
             AdapterAcceptsStillborn(k, heard)
      PROVE  TypeOK'
  <2>1. k \in Call
    BY <1>t
  <2>2. LaneOf[k.req] \in Lanes /\ k.owner \in Owners /\ k.req \in Requests
    BY <2>1 DEF Call
  <2>3. Session(k.owner, LaneOf[k.req]) \in Nat
    BY <1>t, <2>2 DEF Session, Slot
  <2>4. /\ slot' \in [Owners -> [Lanes -> Slot]]
        /\ lastRun' \in Nat
    BY <1>t, <1>9, <2>2, <2>3 DEF AdapterAcceptsStillborn, UseSession, Slot
  <2>5. row' \in [Requests -> Row] /\ calls' \subseteq Call
    <3>1. CASE heard
      <4>1. [row EXCEPT ![k.req] = Completed(@, "failed")] \in [Requests -> Row]
        BY <1>t, <2>2, UpdatesKeepRows
      <4>2. Kick(k.owner, {LaneOf[k.req]},
                 [row EXCEPT ![k.req] = Completed(@, "failed")], calls \ {k})
        BY <1>9, <3>1 DEF AdapterAcceptsStillborn
      <4>3. calls \ {k} \subseteq Call
        BY <1>t
      <4> QED
        BY <2>2, <4>1, <4>2, <4>3, KickKeepsTypes
    <3>2. CASE ~ heard
      <4>1. /\ row' = row
            /\ calls' = (calls \ {k}) \cup
                  {[k EXCEPT !.phase = "accepted",
                             !.run = Session(k.owner, LaneOf[k.req])]}
        BY <1>9, <3>2 DEF AdapterAcceptsStillborn
      <4>2. [k EXCEPT !.phase = "accepted",
                      !.run = Session(k.owner, LaneOf[k.req])] \in Call
        BY <2>1, <2>3 DEF Call
      <4> QED
        BY <1>t, <4>1, <4>2
    <3> QED
      BY <3>1, <3>2
  <2>6. outcome' \in [Requests -> [Runs -> {"none", "completed", "failed"}]]
    BY <1>9, <2>2 DEF TypeOK, AdapterAcceptsStillborn
  <2> QED
    BY <1>9, <2>4, <2>5, <2>6 DEF TypeOK, AdapterAcceptsStillborn
<1>10. ASSUME NEW k \in calls,
              NEW R \in [Requests -> Row],
              Unwind(k, R),
              UNCHANGED <<lastSeq, mode, waiting, slot, lastRun, turns, outcome,
                          archived, started, recoveries, stalls>>
       PROVE  TypeOK'
  <2>1. k.owner \in Owners
    BY <1>t DEF Call
  <2>2. calls \ {k} \subseteq Call
    BY <1>t
  <2>3. row' \in [Requests -> Row] /\ calls' \subseteq Call
    BY <1>10, <2>1, <2>2, KickKeepsTypes DEF Unwind
  <2> QED
    BY <1>10, <2>3 DEF TypeOK
<1>11. ASSUME NEW k \in calls, MarkProcessing(k)
       PROVE  TypeOK'
  <2>1. k.req \in Requests /\ k.run \in Nat
    BY <1>t DEF Call
  <2>2. (IF Held(k) THEN [row EXCEPT ![k.req] = Processing(@, k.run)] ELSE row)
           \in [Requests -> Row]
    BY <1>t, <2>1, UpdatesKeepRows
  <2> QED
    BY <1>10, <1>11, <2>2 DEF MarkProcessing
<1>12. ASSUME NEW k \in calls, NEW error, DispatchFails(k, error)
       PROVE  TypeOK'
  <2>1. k.req \in Requests
    BY <1>t DEF Call
  <2>2. [row EXCEPT ![k.req] = Refused(@, error)] \in [Requests -> Row]
    BY <1>t, <2>1, UpdatesKeepRows
  <2> QED
    BY <1>10, <1>12, <2>2 DEF DispatchFails
<1>13. ASSUME NEW k \in calls, DispatchFenced(k)
       PROVE  TypeOK'
  BY <1>t, <1>10, <1>13 DEF DispatchFenced
<1>14. ASSUME NEW k \in calls, DispatchTimesOut(k)
       PROVE  TypeOK'
  <2> DEFINE R == IF Held(k)
                  THEN [row EXCEPT ![k.req] = Ended(@, "failed", "delivery")]
                  ELSE row
             K == (calls \ {k}) \cup
                      {[k EXCEPT !.phase = "late", !.again = FALSE]}
  <2>1. k \in Call /\ k.req \in Requests /\ k.owner \in Owners
    BY <1>t DEF Call
  <2>2. R \in [Requests -> Row]
    BY <1>t, <2>1, UpdatesKeepRows DEF Statuses, Reasons
  <2>3. K \subseteq Call
    BY <1>t, <2>1 DEF Call
  <2>4. Kick(k.owner, IF k.again THEN {LaneOf[k.req]} ELSE {}, R, K)
    BY <1>14 DEF DispatchTimesOut
  <2>5. row' \in [Requests -> Row] /\ calls' \subseteq Call
    BY <2>1, <2>2, <2>3, <2>4, KickKeepsTypes
  <2> QED
    BY <1>14, <2>5 DEF TypeOK, DispatchTimesOut
<1>15. ASSUME NEW t \in turns, NEW result \in {"completed", "failed"},
              NEW heard \in BOOLEAN, TurnEnds(t, result, heard)
       PROVE  TypeOK'
  <2>1. t.owner \in Owners /\ t.req \in Requests
    BY <1>t
  <2>2. row' \in [Requests -> Row] /\ calls' \subseteq Call
    <3>1. CASE heard /\ Completable(row[t.req], t.run)
      <4>1. [row EXCEPT ![t.req] = Completed(@, result)] \in [Requests -> Row]
        BY <1>t, <2>1, UpdatesKeepRows
      <4>2. Chained(calls, t.owner, {LaneOf[t.req]}) \subseteq Call
        BY <1>t, ChainedKeepsTypes
      <4>3. Kick(t.owner, {LaneOf[t.req]},
                 [row EXCEPT ![t.req] = Completed(@, result)],
                 Chained(calls, t.owner, {LaneOf[t.req]}))
        BY <1>15, <3>1 DEF TurnEnds
      <4> QED
        BY <2>1, <4>1, <4>2, <4>3, KickKeepsTypes
    <3>2. CASE ~ (heard /\ Completable(row[t.req], t.run))
      BY <1>t, <1>15, <3>2 DEF TurnEnds
    <3> QED
      BY <3>1, <3>2
  <2>3. outcome' \in [Requests -> [Runs -> {"none", "completed", "failed"}]]
    BY <1>15, <2>1 DEF TypeOK, TurnEnds
  <2> QED
    BY <1>15, <2>2, <2>3 DEF TypeOK, TurnEnds
<1>16. ASSUME NEW o \in Owners, Sweep(o)
       PROVE  /\ row' \in [Requests -> Row]
              /\ calls' \subseteq Call
              /\ recoveries' \in [Requests -> Nat]
  <2>1. \A q \in Requests : [row[q] EXCEPT !.fresh = TRUE] \in Row
    BY ZenonT(60), <1>t DEF Row
  <2>2. Swept(o) \in [Requests -> Row]
    BY <1>t, <2>1, UpdatesKeepRows DEF Swept, Statuses, Reasons
  <2>3. Chained(calls, o, {LaneOf[q] : q \in Proven(o)}) \subseteq Call
    BY <1>t, ChainedKeepsTypes
  <2>4. recoveries' \in [Requests -> Nat]
    BY <1>16 DEF TypeOK, Sweep
  <2> QED
    BY <1>16, <2>2, <2>3, <2>4, DrainKeepsTypes DEF Sweep
<1>17. ASSUME NEW o \in Owners, Tick(o)
       PROVE  TypeOK'
  BY <1>16, <1>17 DEF TypeOK, Tick, Sweep
<1>18. ASSUME NEW o \in Owners, Boot(o)
       PROVE  TypeOK'
  BY <1>16, <1>18 DEF TypeOK, Boot, Sweep
<1>19. ASSUME NEW o \in Owners, Stop(o)
       PROVE  TypeOK'
  BY <1>19 DEF TypeOK, Stop
<1>20. ASSUME NEW o \in Owners, Crash(o)
       PROVE  TypeOK'
  <2>1. slot' \in [Owners -> [Lanes -> Slot]]
    BY <1>t, <1>20 DEF Crash, Slot, EmptySlot, NoRun
  <2> QED
    BY <1>20, <2>1 DEF TypeOK, Crash
<1>21. ASSUME NEW q \in Requests, LeaseExpires(q)
       PROVE  TypeOK'
  <2>1. row' \in [Requests -> Row]
    BY ZenonT(60), <1>t, <1>21 DEF LeaseExpires, Row
  <2>2. stalls' \in Nat
    BY <1>21 DEF TypeOK, LeaseExpires
  <2> QED
    BY <1>21, <2>1, <2>2 DEF TypeOK, LeaseExpires
<1>22. ASSUME NEW q \in Requests, BackoffElapses(q)
       PROVE  TypeOK'
  <2>1. row' \in [Requests -> Row]
    BY ZenonT(60), <1>t, <1>22 DEF BackoffElapses, Row
  <2> QED
    BY <1>22, <2>1 DEF TypeOK, BackoffElapses
<1>23. CASE UNCHANGED vars
  BY <1>23 DEF TypeOK, vars
<1> QED
  BY <1>1, <1>2, <1>3, <1>4, <1>5, <1>6, <1>7, <1>8, <1>9, <1>11, <1>12,
     <1>13, <1>14, <1>15, <1>17, <1>18, <1>19, <1>20, <1>21, <1>22, <1>23
     DEF Next, CallStep, TurnStep

LEMMA InitTypes == Init => TypeOK
<1>1. NoRow \in Row
  BY DEF Row, NoRow, Statuses, Reasons, NoRun
<1>2. EmptySlot \in Slot
  BY DEF Slot, EmptySlot, NoRun
<1> QED
  BY <1>1, <1>2 DEF Init, TypeOK

\* Type correctness: no step of any process corrupts the table or the memory of
\* a process.
THEOREM TypeCorrect == Spec => []TypeOK
  BY InitTypes, NextKeepsTypes, PTL DEF Spec

-----------------------------------------------------------------------------
(* The table: single flight, order, and the silence of archived lanes      *)

\* The invariants as predicates of any table, of the highest sequence number
\* and of the archived lanes, so that the tables inside a step have them too.
Singled(R) ==
    \A p, q \in Requests :
        /\ LaneOf[p] = LaneOf[q]
        /\ R[p].status \in InFlight /\ R[q].status \in InFlight
        => p = q

Ordered(R) ==
    \A p, q \in Requests :
        /\ LaneOf[p] = LaneOf[q]
        /\ R[p].status = "queued" /\ R[q].status \in InFlight
        => R[q].seq < R[p].seq

Numbered(R, n) ==
    /\ \A q \in Requests : R[q].status # "none" => R[q].seq <= n
    /\ \A p, q \in Requests :
           R[p].status # "none" /\ R[q].status # "none" /\ p # q =>
               R[p].seq # R[q].seq

Quiet(R, A) ==
    \A q \in Requests : LaneOf[q] \in A => R[q].status \notin Unsettled

TableOK(R, n, A) ==
    /\ R \in [Requests -> Row]
    /\ Singled(R) /\ Ordered(R) /\ Numbered(R, n) /\ Quiet(R, A)

TableInv == TypeOK /\ TableOK(row, lastSeq, archived)

\* The fence of claimed writes: only a claim changes the token of a row, and
\* nothing else makes a row held.
Keeps(r, s) == /\ s.claims = r.claims
               /\ s.status = "sending" => r.status = "sending" /\ s.by = r.by

\* What an update other than a claim or an admission may do to a row.
Lower(r, s) ==
    \/ s.status = "none" /\ r.status \notin InFlight
    \/ /\ r.status # "none" /\ s.status # "none" /\ s.seq = r.seq
       /\ s.status \in InFlight => r.status \in InFlight
       /\ s.status = "queued" => r.status \in Unsettled

\* Settling, releasing, recovering, renewing and deleting rows, any number of
\* them at once, keep a table good.
LEMMA LoweredTable ==
    ASSUME NEW R, NEW S \in [Requests -> Row], NEW n \in Nat, NEW A,
           TableOK(R, n, A),
           \A q \in Requests : Lower(R[q], S[q])
    PROVE  TableOK(S, n, A)
<1>1. R \in [Requests -> Row]
  BY DEF TableOK
<1>2. Singled(S)
  BY DEF TableOK, Singled, Lower, InFlight
<1>3. Ordered(S)
  <2> SUFFICES ASSUME NEW p \in Requests, NEW q \in Requests,
                      LaneOf[p] = LaneOf[q],
                      S[p].status = "queued", S[q].status \in InFlight
               PROVE  S[q].seq < S[p].seq
    BY DEF Ordered
  <2>1. /\ R[q].status \in InFlight /\ S[q].seq = R[q].seq
        /\ R[p].status \in Unsettled /\ S[p].seq = R[p].seq
    BY DEF Lower, InFlight
  <2>2. R[p].status = "queued"
    <3>1. p # q
      BY DEF InFlight
    <3> QED
      BY <2>1, <3>1 DEF TableOK, Singled, Unsettled
  <2> QED
    BY <2>1, <2>2 DEF TableOK, Ordered
<1>4. Numbered(S, n)
  BY DEF TableOK, Numbered, Lower
<1>5. Quiet(S, A)
  <2> SUFFICES ASSUME NEW q \in Requests, LaneOf[q] \in A,
                      S[q].status \in Unsettled
               PROVE  FALSE
    BY DEF Quiet
  <2>1. R[q].status \in Unsettled
    BY DEF Lower, Unsettled, InFlight
  <2> QED
    BY <2>1 DEF TableOK, Quiet
<1> QED
  BY <1>2, <1>3, <1>4, <1>5 DEF TableOK

\* The head of a lane in which nothing is in flight.
Head(R, q) ==
    /\ R[q].status = "queued"
    /\ \A p \in Requests :
           LaneOf[p] = LaneOf[q] =>
               /\ R[p].status \notin InFlight
               /\ R[p].status = "queued" => R[q].seq <= R[p].seq

LEMMA OneHead ==
    ASSUME NEW R, NEW n \in Nat, NEW A, TableOK(R, n, A),
           NEW p \in Requests, NEW q \in Requests, LaneOf[p] = LaneOf[q],
           Head(R, p), Head(R, q)
    PROVE  p = q
<1>1. /\ R[p].seq <= R[q].seq /\ R[q].seq <= R[p].seq
      /\ R[p].status = "queued" /\ R[q].status = "queued"
  BY DEF Head
<1>2. R[p].seq \in Nat /\ R[q].seq \in Nat
  BY DEF TableOK, Row
<1>3. R[p].seq = R[q].seq
  BY <1>1, <1>2
<1> QED
  BY <1>1, <1>3 DEF TableOK, Numbered

\* What a drain does to the table and to the calls: it claims heads of lanes
\* that its owner does not drain yet.
LEMMA DrainClaimsHeads ==
    ASSUME NEW o \in Owners, NEW cs, NEW R \in [Requests -> Row], NEW K,
           Drain(o, cs, R, K)
    PROVE  \E P \in SUBSET Requests :
               /\ \A q \in P : Head(R, q) /\ ~ Draining(K, o, LaneOf[q])
               /\ \A q \in Requests :
                      row'[q] = IF q \in P THEN Claimed(R[q], o) ELSE R[q]
               /\ calls' = K \cup {[owner |-> o, req |-> q,
                                    tok |-> R[q].claims + 1,
                                    phase |-> "dispatching", run |-> NoRun,
                                    again |-> FALSE] : q \in P}
<1> DEFINE P == {q \in Requests : /\ LaneOf[q] \in cs
                                  /\ q \in Claimable(R, LaneOf[q])
                                  /\ ~ Draining(K, o, LaneOf[q])}
<1>1. \A q \in P : Head(R, q) /\ ~ Draining(K, o, LaneOf[q])
  BY DEF Claimable, Pending, Head
<1>2. \A q \in Requests : row'[q] = IF q \in P THEN Claimed(R[q], o) ELSE R[q]
  BY DEF Drain
<1>3. calls' = K \cup {[owner |-> o, req |-> q, tok |-> R[q].claims + 1,
                        phase |-> "dispatching", run |-> NoRun,
                        again |-> FALSE] : q \in P}
  BY DEF Drain
<1> HIDE DEF P
<1>4. P \in SUBSET Requests
  BY DEF P
<1> QED
  BY <1>1, <1>2, <1>3, <1>4

\* claimTx keeps a table good: it claims at most the head of a lane in which
\* nothing is in flight.
LEMMA DrainKeepsTable ==
    ASSUME NEW o \in Owners, NEW cs, NEW R, NEW K, NEW n \in Nat, NEW A,
           TableOK(R, n, A),
           Drain(o, cs, R, K)
    PROVE  TableOK(row', n, A)
<1>1. R \in [Requests -> Row]
  BY DEF TableOK
<1>0. PICK P \in SUBSET Requests :
          /\ \A q \in P : Head(R, q)
          /\ \A q \in Requests :
                 row'[q] = IF q \in P THEN Claimed(R[q], o) ELSE R[q]
  BY <1>1, DrainClaimsHeads
<1> DEFINE Picked(q) == q \in P
<1>2. \A q \in Requests : row'[q] = IF Picked(q) THEN Claimed(R[q], o) ELSE R[q]
  BY <1>0
<1>3. row' \in [Requests -> Row]
  <2>1. \A q \in Requests : Claimed(R[q], o) \in Row
    BY <1>1, UpdatesKeepRows
  <2> QED
    BY <1>1, <2>1 DEF Drain
<1>4. ASSUME NEW q \in Requests, Picked(q)
      PROVE  /\ R[q].status = "queued"
             /\ \A p \in Requests :
                   LaneOf[p] = LaneOf[q] =>
                       /\ R[p].status \notin InFlight
                       /\ R[p].status = "queued" => R[q].seq <= R[p].seq
  BY <1>0, <1>4 DEF Head
<1>5. \A q \in Requests : Claimed(R[q], o).status = "sending"
                        /\ Claimed(R[q], o).seq = R[q].seq
  BY <1>1 DEF Claimed, Row
<1>6. \A q \in Requests : row'[q].seq = R[q].seq
  BY <1>2, <1>5
<1>7. \A p, q \in Requests :
         LaneOf[p] = LaneOf[q] /\ Picked(p) /\ Picked(q) => p = q
  BY <1>0, OneHead
<1>8. Singled(row')
  <2> SUFFICES ASSUME NEW p \in Requests, NEW q \in Requests,
                      LaneOf[p] = LaneOf[q],
                      row'[p].status \in InFlight, row'[q].status \in InFlight
               PROVE  p = q
    BY DEF Singled
  <2>1. CASE Picked(p) /\ Picked(q)
    BY <1>7, <2>1
  <2>2. CASE Picked(p) /\ ~ Picked(q)
    BY <1>2, <1>4, <2>2
  <2>3. CASE ~ Picked(p) /\ Picked(q)
    BY <1>2, <1>4, <2>3
  <2>4. CASE ~ Picked(p) /\ ~ Picked(q)
    BY <1>2, <2>4 DEF TableOK, Singled
  <2> QED
    BY <2>1, <2>2, <2>3, <2>4
<1>9. Ordered(row')
  <2> SUFFICES ASSUME NEW p \in Requests, NEW q \in Requests,
                      LaneOf[p] = LaneOf[q],
                      row'[p].status = "queued", row'[q].status \in InFlight
               PROVE  row'[q].seq < row'[p].seq
    BY DEF Ordered
  <2>1. ~ Picked(p) /\ R[p].status = "queued" /\ p # q
    BY <1>2, <1>5 DEF InFlight
  <2>2. CASE Picked(q)
    <3>1. R[q].seq <= R[p].seq /\ R[q].status = "queued"
      BY <1>4, <2>1, <2>2
    <3>2. R[q].seq # R[p].seq
      BY <2>1, <3>1 DEF TableOK, Numbered
    <3>3. R[p].seq \in Nat /\ R[q].seq \in Nat
      BY <1>1 DEF Row
    <3> QED
      BY <1>6, <3>1, <3>2, <3>3
  <2>3. CASE ~ Picked(q)
    BY <1>2, <1>6, <2>1, <2>3 DEF TableOK, Ordered
  <2> QED
    BY <2>2, <2>3
<1>10. Numbered(row', n)
  <2>1. \A q \in Requests : row'[q].status # "none" => R[q].status # "none"
    BY <1>2, <1>4
  <2> QED
    BY <1>6, <2>1 DEF TableOK, Numbered
<1>11. Quiet(row', A)
  <2> SUFFICES ASSUME NEW q \in Requests, LaneOf[q] \in A,
                      row'[q].status \in Unsettled
               PROVE  FALSE
    BY DEF Quiet
  <2>1. R[q].status \in Unsettled
    BY <1>2, <1>4 DEF Unsettled
  <2> QED
    BY <2>1 DEF TableOK, Quiet
<1> QED
  BY <1>3, <1>8, <1>9, <1>10, <1>11 DEF TableOK

LEMMA KickKeepsTable ==
    ASSUME NEW o \in Owners, NEW cs, NEW R, NEW K, NEW n \in Nat, NEW A,
           TableOK(R, n, A),
           Kick(o, cs, R, K)
    PROVE  TableOK(row', n, A)
  BY DrainKeepsTable DEF Kick

\* enqueueTx keeps a table good: the new row goes last, in a lane that is open.
LEMMA AdmitKeepsTable ==
    ASSUME NEW R, NEW n \in Nat, NEW A, NEW q \in Requests,
           TableOK(R, n, A),
           R[q].status = "none", LaneOf[q] \notin A
    PROVE  TableOK([R EXCEPT ![q] = Queued(@, n + 1)], n + 1, A)
<1> DEFINE S == [R EXCEPT ![q] = Queued(@, n + 1)]
<1>1. R \in [Requests -> Row]
  BY DEF TableOK
<1>2. S \in [Requests -> Row]
  BY <1>1, UpdatesKeepRows
<1>3. /\ S[q].status = "queued" /\ S[q].seq = n + 1
      /\ \A p \in Requests \ {q} : S[p] = R[p]
  BY <1>1 DEF Queued, Row
<1>4. \A p \in Requests : R[p].seq \in Nat
  BY <1>1 DEF Row
<1> HIDE DEF S
<1>5. Singled(S)
  BY <1>3 DEF TableOK, Singled, InFlight
<1>6. Ordered(S)
  BY <1>3, <1>4 DEF TableOK, Ordered, Numbered, InFlight
<1>7. Numbered(S, n + 1)
  BY <1>3, <1>4 DEF TableOK, Numbered
<1>8. Quiet(S, A)
  BY <1>3 DEF TableOK, Quiet
<1>9. TableOK(S, n + 1, A)
  BY <1>2, <1>5, <1>6, <1>7, <1>8 DEF TableOK
<1> QED
  BY <1>9 DEF S

\* Which updates lower a row, and from which statuses.
LEMMA UpdatesLower ==
    ASSUME NEW r \in Row
    PROVE  /\ Lower(r, r)
           /\ r.status \notin InFlight => Lower(r, Discarded(r))
           /\ r.status \in Unsettled => \A s \in Settled, y \in Reasons :
                  Lower(r, Ended(r, s, y))
           /\ r.status \in InFlight => \A result : Lower(r, Completed(r, result))
           /\ r.status \in InFlight => Lower(r, SessionLost(r))
           /\ r.status \in InFlight => \A ready \in BOOLEAN :
                  Lower(r, Released(r, ready))
           /\ r.status \in InFlight => \A error : Lower(r, Refused(r, error))
           /\ r.status \in InFlight => Lower(r, [r EXCEPT !.fresh = TRUE])
           /\ Lower(r, [r EXCEPT !.fresh = FALSE])
           /\ Lower(r, [r EXCEPT !.ready = TRUE])
           /\ r.status = "sending" => \A run : Lower(r, Processing(r, run))
<1>1. Lower(r, r)
  BY DEF Lower, Row, Statuses, Unsettled, InFlight
<1>2. r.status \notin InFlight => Lower(r, Discarded(r))
  BY DEF Lower, Discarded, NoRow
<1>3. ASSUME r.status \in Unsettled, NEW st \in Settled, NEW y \in Reasons
      PROVE  Lower(r, Ended(r, st, y))
  BY <1>3 DEF Lower, Ended, Unclaimed, Row, Settled, Unsettled, InFlight
<1>4. ASSUME r.status \in InFlight, NEW result
      PROVE  Lower(r, Completed(r, result))
  BY <1>3, <1>4 DEF Completed, Settled, Unsettled, Reasons
<1>5. r.status \in InFlight => Lower(r, SessionLost(r))
  BY <1>3 DEF SessionLost, Settled, Unsettled, Reasons
<1>6. ASSUME r.status \in InFlight, NEW ready \in BOOLEAN
      PROVE  Lower(r, Released(r, ready))
  BY <1>6 DEF Lower, Released, Unclaimed, Row, Unsettled, InFlight
<1>7. ASSUME r.status \in InFlight, NEW error
      PROVE  Lower(r, Refused(r, error))
  BY <1>3, <1>6, <1>7 DEF Refused, Settled, Unsettled, Reasons
<1>8. Lower(r, [r EXCEPT !.fresh = FALSE]) /\ Lower(r, [r EXCEPT !.fresh = TRUE])
      /\ Lower(r, [r EXCEPT !.ready = TRUE])
  BY DEF Lower, Row, Statuses, Unsettled, InFlight
<1>9. ASSUME r.status = "sending", NEW run
      PROVE  Lower(r, Processing(r, run))
  BY <1>9 DEF Lower, Processing, Row, InFlight
<1> QED
  BY <1>1, <1>2, <1>3, <1>4, <1>5, <1>6, <1>7, <1>8, <1>9

\* No update but a claim makes a row held or changes its claims.
LEMMA UpdatesKeep ==
    ASSUME NEW r \in Row
    PROVE  /\ Keeps(r, r)
           /\ Keeps(r, Discarded(r))
           /\ \A n : Keeps(r, Queued(r, n))
           /\ \A s \in Settled : \A y : Keeps(r, Ended(r, s, y))
           /\ \A result : Keeps(r, Completed(r, result))
           /\ Keeps(r, SessionLost(r))
           /\ \A ready : Keeps(r, Released(r, ready))
           /\ \A error : Keeps(r, Refused(r, error))
           /\ \A fresh : Keeps(r, [r EXCEPT !.fresh = fresh])
           /\ \A ready : Keeps(r, [r EXCEPT !.ready = ready])
           /\ \A run : Keeps(r, Processing(r, run))
<1>1. Keeps(r, r)
  BY DEF Keeps
<1>2. Keeps(r, Discarded(r))
  BY DEF Keeps, Discarded, NoRow
<1>3. ASSUME NEW n
      PROVE  Keeps(r, Queued(r, n))
  BY DEF Keeps, Queued, Row
<1>4. ASSUME NEW st \in Settled, NEW y
      PROVE  Keeps(r, Ended(r, st, y))
  BY DEF Keeps, Ended, Unclaimed, Row, Settled
<1>5. ASSUME NEW result
      PROVE  Keeps(r, Completed(r, result))
  BY <1>4 DEF Completed, Settled
<1>6. Keeps(r, SessionLost(r))
  BY <1>4 DEF SessionLost, Settled
<1>7. ASSUME NEW ready
      PROVE  Keeps(r, Released(r, ready))
  BY DEF Keeps, Released, Unclaimed, Row
<1>8. ASSUME NEW error
      PROVE  Keeps(r, Refused(r, error))
  BY <1>4, <1>7 DEF Refused, Settled
<1>9. ASSUME NEW b
      PROVE  Keeps(r, [r EXCEPT !.fresh = b]) /\ Keeps(r, [r EXCEPT !.ready = b])
  BY DEF Keeps, Row
<1>10. ASSUME NEW run
       PROVE  Keeps(r, Processing(r, run))
  BY DEF Keeps, Processing, Row
<1> QED
  BY <1>1, <1>2, <1>3, <1>4, <1>5, <1>6, <1>7, <1>8, <1>9, <1>10

\* The periodic sweep of an owner only lowers rows: it settles them by stored
\* events, recovers or fails stale ones, and renews its own leases.
LEMMA SweepLowers ==
    ASSUME TypeOK, NEW o \in Owners
    PROVE  /\ Swept(o) \in [Requests -> Row]
           /\ \A q \in Requests : Lower(row[q], Swept(o)[q])
           /\ \A q \in Requests : Keeps(row[q], Swept(o)[q])
<1>1. row \in [Requests -> Row]
  BY DEF TypeOK
<1>2. ASSUME NEW q \in Requests
      PROVE  /\ Swept(o)[q] \in Row
             /\ Lower(row[q], Swept(o)[q])
             /\ Keeps(row[q], Swept(o)[q])
  <2>1. row[q] \in Row
    BY <1>1
  <2>2. CASE q \in Proven(o)
    <3>1. Swept(o)[q] = Completed(row[q], outcome[q][row[q].run])
      BY <2>2 DEF Swept
    <3>2. row[q].status \in InFlight
      BY <2>2 DEF Proven, Owned, Stale
    <3> QED
      BY <2>1, <3>1, <3>2, UpdatesKeepRows, UpdatesLower,
         UpdatesKeep
  <2>3. CASE q \notin Proven(o) /\ q \in Recovered(o)
    <3>1. Swept(o)[q] = Released(row[q], TRUE)
      BY <2>3 DEF Swept
    <3>2. row[q].status \in InFlight
      BY <2>3 DEF Recovered, Stale
    <3> QED
      BY <2>1, <3>1, <3>2, UpdatesKeepRows, UpdatesLower,
         UpdatesKeep
  <2>4. CASE q \notin Proven(o) /\ q \notin Recovered(o) /\ q \in Stale(o)
    <3>1. Swept(o)[q] = Ended(row[q], "failed", "restart_uncertain")
      BY <2>4 DEF Swept
    <3>2. row[q].status \in Unsettled
      BY <2>4 DEF Stale, Unsettled
    <3> DEFINE s == Ended(row[q], "failed", "restart_uncertain")
    <3>3. s \in Row /\ Lower(row[q], s)
      BY <2>1, <3>2, UpdatesKeepRows, UpdatesLower
         DEF Statuses, Settled, Reasons
    <3>4. Keeps(row[q], s)
      BY <2>1, UpdatesKeep DEF Settled
    <3> QED
      BY <3>1, <3>3, <3>4
  <2>5. CASE q \notin Proven(o) /\ q \notin Stale(o) /\ q \in Owned(o)
    <3>1. Swept(o)[q] = [row[q] EXCEPT !.fresh = TRUE]
      BY <2>5 DEF Swept, Recovered
    <3>2. [row[q] EXCEPT !.fresh = TRUE] \in Row
      BY <2>1 DEF Row
    <3>3. row[q].status \in InFlight
      BY <2>5 DEF Owned
    <3>4. Keeps(row[q], [row[q] EXCEPT !.fresh = TRUE])
      BY <2>1, UpdatesKeep
    <3> QED
      BY <2>1, <3>1, <3>2, <3>3, <3>4, UpdatesLower
  <2>6. CASE q \notin Proven(o) /\ q \notin Stale(o) /\ q \notin Owned(o)
    <3>1. Swept(o)[q] = row[q]
      BY <2>6 DEF Swept, Recovered
    <3> QED
      BY <2>1, <3>1, UpdatesLower, UpdatesKeep
  <2> QED
    BY <2>2, <2>3, <2>4, <2>5, <2>6 DEF Recovered
<1> QED
  BY <1>2 DEF Swept

-----------------------------------------------------------------------------
(* The calls: one holder of a claim, one drain of a lane                   *)

\* Held, read in any table.
HeldIn(R, k) == /\ R[k.req].status = "sending"
                /\ R[k.req].by = k.owner
                /\ R[k.req].claims = k.tok

\* No call has a token its row has not reached, nor has a call that was given
\* up still its claim; a claim has one call, and so has a lane in one owner.
CallsOK(R, K) ==
    /\ K \subseteq Call
    /\ \A k \in K : /\ k.tok <= R[k.req].claims
                    /\ k.phase = "late" => ~ HeldIn(R, k)
    /\ \A k, l \in K : k.req = l.req /\ k.tok = l.tok => k = l
    /\ \A k, l \in K : /\ k.owner = l.owner /\ LaneOf[k.req] = LaneOf[l.req]
                       /\ k.phase # "late" /\ l.phase # "late"
                       => k = l

\* A turn may have begun for the claim of q, or for none it still waits for.
Begun(R, K, q) ==
    /\ R[q].status \notin {"none", "queued"}
    /\ ~ \E k \in K : k.req = q /\ k.phase = "dispatching" /\ HeldIn(R, k)

\* A call goes on as another: its claim is the same and it has not gone back.
Shadow(k, l) ==
    /\ l.owner = k.owner /\ l.req = k.req /\ l.tok = k.tok
    /\ l.phase # "late" => k.phase # "late"
    /\ l.phase = "dispatching" => k.phase = "dispatching"

\* The calls L, read with the table S, are calls of this state that went on.
Shadows(S, L) ==
    \E g \in [calls -> Call] :
        /\ L \subseteq {g[k] : k \in calls}
        /\ \A k \in calls :
               /\ Shadow(k, g[k])
               /\ g[k].phase = "late" => k.phase = "late" \/ ~ HeldIn(S, k)

LEMMA ShadowsDrop ==
    ASSUME TypeOK, NEW S, NEW L, L \subseteq calls
    PROVE  Shadows(S, L)
<1> DEFINE g == [k \in calls |-> k]
<1>1. calls \subseteq Call
  BY DEF TypeOK
<1>2. g \in [calls -> Call]
  BY <1>1
<1>3. L \subseteq {g[k] : k \in calls}
  OBVIOUS
<1>4. \A k \in calls : Shadow(k, g[k])
  BY DEF Shadow
<1> QED
  BY <1>2, <1>3, <1>4 DEF Shadows

LEMMA ShadowsReplace ==
    ASSUME TypeOK, NEW S, NEW k \in calls, NEW l \in Call,
           Shadow(k, l),
           l.phase = "late" => ~ HeldIn(S, k)
    PROVE  Shadows(S, (calls \ {k}) \cup {l})
<1> DEFINE g == [j \in calls |-> IF j = k THEN l ELSE j]
<1>1. calls \subseteq Call
  BY DEF TypeOK
<1>2. g \in [calls -> Call]
  BY <1>1
<1>3. (calls \ {k}) \cup {l} \subseteq {g[j] : j \in calls}
  <2>1. g[k] = l /\ \A j \in calls \ {k} : g[j] = j
    OBVIOUS
  <2> HIDE DEF g
  <2> QED
    BY <2>1
<1>4. ASSUME NEW j \in calls
      PROVE  /\ Shadow(j, g[j])
             /\ g[j].phase = "late" => j.phase = "late" \/ ~ HeldIn(S, j)
  <2>1. Shadow(j, j)
    BY DEF Shadow
  <2> QED
    BY <2>1
<1> QED
  BY <1>2, <1>3, <1>4 DEF Shadows

LEMMA ShadowsChained ==
    ASSUME TypeOK, NEW S, NEW o, NEW cs
    PROVE  Shadows(S, Chained(calls, o, cs))
<1> DEFINE f(k) == IF k.owner = o /\ LaneOf[k.req] \in cs /\ k.phase # "late"
                   THEN [k EXCEPT !.again = TRUE] ELSE k
           g == [k \in calls |-> f(k)]
<1>1. \A k \in calls : k \in Call
  BY DEF TypeOK
<1>2. ASSUME NEW k \in calls
      PROVE  f(k) \in Call /\ Shadow(k, f(k)) /\ f(k).phase = k.phase
  BY <1>1 DEF Call, Shadow
<1>3. \A k \in calls : g[k] = f(k)
  OBVIOUS
<1>4. g \in [calls -> Call]
  BY <1>2
<1>5. Chained(calls, o, cs) \subseteq {g[k] : k \in calls}
  BY <1>3 DEF Chained
<1> HIDE DEF f, g
<1> QED
  BY <1>2, <1>3, <1>4, <1>5 DEF Shadows

\* Calls that go on over a table that keeps the fence stay good.
LEMMA ShadowedCalls ==
    ASSUME TypeOK, CallsOK(row, calls),
           NEW S \in [Requests -> Row], NEW L,
           \A q \in Requests : Keeps(row[q], S[q]),
           Shadows(S, L)
    PROVE  /\ CallsOK(S, L)
           /\ \A q \in Requests :
                  Begun(row, calls, q) /\ S[q].status \notin {"none", "queued"}
                  => Begun(S, L, q)
<1>1. PICK g \in [calls -> Call] :
          /\ L \subseteq {g[k] : k \in calls}
          /\ \A k \in calls :
                 /\ Shadow(k, g[k])
                 /\ g[k].phase = "late" => k.phase = "late" \/ ~ HeldIn(S, k)
  BY DEF Shadows
<1>2. \A k \in calls : k \in Call /\ k.req \in Requests
  BY DEF TypeOK, Call
<1>3. ASSUME NEW k \in calls
      PROVE  /\ HeldIn(S, g[k]) <=> HeldIn(S, k)
             /\ HeldIn(S, k) => HeldIn(row, k)
             /\ S[k.req].claims = row[k.req].claims
             /\ g[k].req = k.req /\ g[k].tok = k.tok /\ g[k].owner = k.owner
  BY <1>1, <1>2 DEF Shadow, Keeps, HeldIn
<1>4. L \subseteq Call
  BY <1>1
<1>5. ASSUME NEW l \in L
      PROVE  /\ l.tok <= S[l.req].claims
             /\ l.phase = "late" => ~ HeldIn(S, l)
  <2>1. PICK k \in calls : l = g[k]
    BY <1>1
  <2> QED
    BY <1>1, <1>3, <2>1 DEF CallsOK
<1>6. ASSUME NEW l \in L, NEW m \in L, l.req = m.req, l.tok = m.tok
      PROVE  l = m
  <2>1. PICK k \in calls : l = g[k]
    BY <1>1
  <2>2. PICK j \in calls : m = g[j]
    BY <1>1
  <2>3. k = j
    BY <1>3, <1>6, <2>1, <2>2 DEF CallsOK
  <2> QED
    BY <2>1, <2>2, <2>3
<1>7. ASSUME NEW l \in L, NEW m \in L,
             l.owner = m.owner, LaneOf[l.req] = LaneOf[m.req],
             l.phase # "late", m.phase # "late"
      PROVE  l = m
  <2>1. PICK k \in calls : l = g[k]
    BY <1>1
  <2>2. PICK j \in calls : m = g[j]
    BY <1>1
  <2>3. k.phase # "late" /\ j.phase # "late"
    BY <1>1, <1>7, <2>1, <2>2 DEF Shadow
  <2>4. k = j
    BY <1>3, <1>7, <2>1, <2>2, <2>3 DEF CallsOK
  <2> QED
    BY <2>1, <2>2, <2>4
<1>8. ASSUME NEW q \in Requests, Begun(row, calls, q),
             S[q].status \notin {"none", "queued"}
      PROVE  Begun(S, L, q)
  <2> SUFFICES ASSUME NEW l \in L, l.req = q, l.phase = "dispatching",
                      HeldIn(S, l)
               PROVE  FALSE
    BY <1>8 DEF Begun
  <2>1. PICK k \in calls : l = g[k]
    BY <1>1
  <2>2. k.phase = "dispatching"
    BY <1>1, <2>1 DEF Shadow
  <2>3. HeldIn(row, k) /\ k.req = q
    BY <1>3, <2>1
  <2> QED
    BY <1>8, <2>2, <2>3 DEF Begun
<1> QED
  BY <1>4, <1>5, <1>6, <1>7, <1>8 DEF CallsOK

\* claimTx keeps the calls good, and begins no turn.
LEMMA DrainKeepsCalls ==
    ASSUME NEW o \in Owners, NEW cs, NEW R, NEW K, NEW n \in Nat, NEW A,
           TableOK(R, n, A), CallsOK(R, K),
           Drain(o, cs, R, K)
    PROVE  /\ CallsOK(row', calls')
           /\ \A q \in Requests : Begun(R, K, q) <=> Begun(row', calls', q)
<1>1. R \in [Requests -> Row] /\ K \subseteq Call
  BY DEF TableOK, CallsOK
<1> DEFINE new(q) == [owner |-> o, req |-> q, tok |-> R[q].claims + 1,
                      phase |-> "dispatching", run |-> NoRun, again |-> FALSE]
<1>2. PICK P \in SUBSET Requests :
          /\ \A q \in P : Head(R, q) /\ ~ Draining(K, o, LaneOf[q])
          /\ \A q \in Requests :
                 row'[q] = IF q \in P THEN Claimed(R[q], o) ELSE R[q]
          /\ calls' = K \cup {new(q) : q \in P}
  BY <1>1, DrainClaimsHeads
<1>3. ASSUME NEW q \in Requests
      PROVE  R[q].claims \in Nat /\ R[q].claims + 1 \in Nat
  BY <1>1 DEF Row
<1>4. ASSUME NEW q \in P
      PROVE  /\ new(q) \in Call
             /\ new(q).owner = o /\ new(q).req = q
             /\ new(q).tok = R[q].claims + 1 /\ new(q).phase = "dispatching"
             /\ row'[q].claims = R[q].claims + 1
             /\ row'[q].status = "sending" /\ row'[q].by = o
             /\ R[q].status = "queued"
  BY <1>1, <1>2, <1>3 DEF Call, NoRun, Claimed, Row, Head
<1>5. \A q \in Requests : q \notin P => row'[q] = R[q]
  BY <1>2
<1>c. calls' = K \cup {new(q) : q \in P}
  BY <1>2
<1> HIDE DEF new
<1>6. calls' \subseteq Call
  BY <1>1, <1>4, <1>c
<1>7. ASSUME NEW k \in K
      PROVE  /\ k \in Call /\ k.req \in Requests /\ k.tok \in Nat
             /\ k.tok <= R[k.req].claims
             /\ k.tok <= row'[k.req].claims
             /\ HeldIn(row', k) => HeldIn(R, k)
  <2>1. k \in Call /\ k.req \in Requests /\ k.tok \in Nat
    BY <1>1 DEF Call
  <2>2. k.tok <= R[k.req].claims
    BY DEF CallsOK
  <2>3. CASE k.req \in P
    BY <1>3, <1>4, <2>1, <2>2, <2>3 DEF HeldIn
  <2>4. CASE k.req \notin P
    BY <1>5, <2>1, <2>2, <2>4 DEF HeldIn
  <2> QED
    BY <2>1, <2>2, <2>3, <2>4
<1>8. ASSUME NEW k \in calls'
      PROVE  /\ k.tok <= row'[k.req].claims
             /\ k.phase = "late" => ~ HeldIn(row', k)
  <2>1. CASE k \in K
    BY <1>7, <2>1 DEF CallsOK
  <2>2. CASE k \notin K
    <3>1. PICK q \in P : k = new(q)
      BY <1>c, <2>2
    <3> QED
      BY <1>3, <1>4, <3>1
  <2> QED
    BY <2>1, <2>2
<1>9. ASSUME NEW k \in calls', NEW l \in calls', k.req = l.req, k.tok = l.tok
      PROVE  k = l
  <2>1. CASE k \in K /\ l \in K
    BY <1>9, <2>1 DEF CallsOK
  <2>2. ASSUME NEW x \in K, NEW q \in P, x.req = q, x.tok = new(q).tok
        PROVE  FALSE
    BY <1>3, <1>4, <1>7, <2>2
  <2>3. CASE k \notin K /\ l \notin K
    <3>1. PICK p \in P : k = new(p)
      BY <1>c, <2>3
    <3>2. PICK q \in P : l = new(q)
      BY <1>c, <2>3
    <3>3. p = q
      BY <1>4, <1>9, <3>1, <3>2
    <3> QED
      BY <3>1, <3>2, <3>3
  <2>4. CASE k \in K /\ l \notin K
    <3>1. PICK q \in P : l = new(q)
      BY <1>c, <2>4
    <3> QED
      BY <1>4, <1>9, <2>2, <2>4, <3>1
  <2>5. CASE k \notin K /\ l \in K
    <3>1. PICK q \in P : k = new(q)
      BY <1>c, <2>5
    <3> QED
      BY <1>4, <1>9, <2>2, <2>5, <3>1
  <2> QED
    BY <2>1, <2>3, <2>4, <2>5
<1>10. ASSUME NEW k \in calls', NEW l \in calls',
              k.owner = l.owner, LaneOf[k.req] = LaneOf[l.req],
              k.phase # "late", l.phase # "late"
       PROVE  k = l
  <2>1. CASE k \in K /\ l \in K
    BY <1>10, <2>1 DEF CallsOK
  <2>2. ASSUME NEW x \in K, NEW q \in P, x.owner = o,
               LaneOf[x.req] = LaneOf[q], x.phase # "late"
        PROVE  FALSE
    BY <1>2, <2>2 DEF Draining, InLane
  <2>3. CASE k \notin K /\ l \notin K
    <3>1. PICK p \in P : k = new(p)
      BY <1>c, <2>3
    <3>2. PICK q \in P : l = new(q)
      BY <1>c, <2>3
    <3>3. LaneOf[p] = LaneOf[q] /\ Head(R, p) /\ Head(R, q)
      BY <1>2, <1>4, <1>10, <3>1, <3>2
    <3>4. p = q
      BY <3>3, OneHead
    <3> QED
      BY <3>1, <3>2, <3>4
  <2>4. CASE k \in K /\ l \notin K
    <3>1. PICK q \in P : l = new(q)
      BY <1>c, <2>4
    <3> QED
      BY <1>4, <1>10, <2>2, <2>4, <3>1
  <2>5. CASE k \notin K /\ l \in K
    <3>1. PICK q \in P : k = new(q)
      BY <1>c, <2>5
    <3> QED
      BY <1>4, <1>10, <2>2, <2>5, <3>1
  <2> QED
    BY <2>1, <2>3, <2>4, <2>5
<1>11. ASSUME NEW q \in Requests
       PROVE  Begun(R, K, q) <=> Begun(row', calls', q)
  <2>1. CASE q \in P
    <3>1. ~ Begun(R, K, q)
      BY <1>4, <2>1 DEF Begun
    <3>2. new(q) \in calls' /\ HeldIn(row', new(q))
      BY <1>4, <1>c, <2>1 DEF HeldIn
    <3>3. ~ Begun(row', calls', q)
      BY <1>4, <2>1, <3>2 DEF Begun
    <3> QED
      BY <3>1, <3>3
  <2>2. CASE q \notin P
    <3>1. row'[q] = R[q]
      BY <1>5, <2>2
    <3>2. \A k \in calls' : k.req = q => k \in K
      BY <1>4, <1>c, <2>2
    <3>3. \A k \in K : k \in calls' /\ (k.req = q =>
                           (HeldIn(row', k) <=> HeldIn(R, k)))
      BY <1>c, <3>1 DEF HeldIn
    <3> QED
      BY <3>1, <3>2, <3>3 DEF Begun
  <2> QED
    BY <2>1, <2>2
<1> QED
  BY <1>6, <1>8, <1>9, <1>10, <1>11 DEF CallsOK

-----------------------------------------------------------------------------
(* What every step is: updates of rows and calls, then a drain of lanes    *)

\* The step leaves the table S and the calls L, or drains lanes from them.
Then(S, L) ==
    \/ row' = S /\ calls' = L
    \/ \E o \in Owners, cs \in SUBSET Lanes :
           mode'[o] = "up" /\ Drain(o, cs, S, L)

\* One row is admitted behind all others, in a lane that is open.
Admits(q, S) ==
    /\ row[q].status = "none"
    /\ LaneOf[q] \notin archived
    /\ lastSeq' = lastSeq + 1
    /\ archived' = archived
    /\ S = [row EXCEPT ![q] = Queued(@, lastSeq + 1)]

\* A row of q goes back to the queue or is deleted only when its turn is not
\* begun, or it is recovered, or its enqueue() returns with it unserved.
Excused(q, S) ==
    S[q].status \in {"none", "queued"} =>
        \/ row[q].status \in {"none", "queued"}
        \/ q \notin Immediate /\ recoveries'[q] = recoveries[q] + 1
        \/ \E k \in calls : k.req = q /\ k.phase = "dispatching" /\ Held(k)
        \/ \E o \in Owners : /\ q \in waiting[o] /\ ~ Awaits(o, q)
                             /\ row[q].status \in {"failed", "cancelled"}

\* Rows are settled, given back, renewed or deleted, and lanes are closed.
Lowers(S) ==
    /\ lastSeq' = lastSeq
    /\ \A q \in Requests : Lower(row[q], S[q])
    /\ \A c \in archived' :
           \/ c \in archived
           \/ \A q \in Requests : LaneOf[q] = c => S[q].status \notin Unsettled
    /\ \A q \in Requests : Excused(q, S)

Updated(S, L) ==
    /\ S \in [Requests -> Row]
    /\ \A q \in Requests : Keeps(row[q], S[q])
    /\ Shadows(S, L)
    /\ Then(S, L)
    /\ started' = started \/ \E k \in calls : AdapterAccepts(k)
    /\ \A q \in Requests : recoveries'[q] \in {recoveries[q], recoveries[q] + 1}
    /\ \/ Lowers(S)
       \/ \E q \in Requests : Admits(q, S)

LEMMA KickThen ==
    ASSUME NEW o \in Owners, NEW cs \in SUBSET Lanes,
           NEW S \in [Requests -> Row], NEW L,
           mode' = mode, Kick(o, cs, S, L)
    PROVE  Then(S, L)
<1>1. CASE mode[o] = "up"
  BY <1>1 DEF Kick, Then
<1>2. CASE mode[o] # "up"
  <2>1. Drain(o, {}, S, L)
    BY <1>2 DEF Kick
  <2>2. row' = [q \in Requests |-> S[q]] /\ calls' = L
    BY <2>1 DEF Drain
  <2> QED
    BY <2>2 DEF Then
<1> QED
  BY <1>1, <1>2

\* A step that replaces one row by a lower one and lets the calls go on.
LEMMA OneRowUpdated ==
    ASSUME TypeOK, NEW q \in Requests, NEW s \in Row, NEW L,
           Lower(row[q], s), Keeps(row[q], s),
           s.status \in {"none", "queued"} =>
               \/ row[q].status \in {"none", "queued"}
               \/ \E k \in calls : /\ k.req = q /\ k.phase = "dispatching"
                                   /\ Held(k)
               \/ \E o \in Owners : /\ q \in waiting[o] /\ ~ Awaits(o, q)
                                    /\ row[q].status \in {"failed", "cancelled"},
           Shadows([row EXCEPT ![q] = s], L),
           Then([row EXCEPT ![q] = s], L),
           UNCHANGED <<lastSeq, archived, started, recoveries>>
    PROVE  Updated([row EXCEPT ![q] = s], L)
<1> DEFINE S == [row EXCEPT ![q] = s]
<1>1. row \in [Requests -> Row]
  BY DEF TypeOK
<1>2. S \in [Requests -> Row] /\ S[q] = s /\ \A p \in Requests \ {q} : S[p] = row[p]
  BY <1>1
<1>3. \A p \in Requests : Lower(row[p], row[p]) /\ Keeps(row[p], row[p])
  BY <1>1, UpdatesLower, UpdatesKeep
<1>4. Shadows(S, L) /\ Then(S, L)
  OBVIOUS
<1> HIDE DEF S
<1>5. \A p \in Requests : Lower(row[p], S[p]) /\ Keeps(row[p], S[p])
  BY <1>2, <1>3
<1>6. \A p \in Requests : Excused(p, S)
  BY <1>2 DEF Excused
<1>7. Updated(S, L)
  BY <1>2, <1>4, <1>5, <1>6 DEF Updated, Lowers
<1> QED
  BY <1>7 DEF S

\* A step that leaves the table alone and lets the calls go on.
LEMMA NoRowUpdated ==
    ASSUME TypeOK, NEW L,
           Shadows(row, L), Then(row, L),
           UNCHANGED <<lastSeq, archived, recoveries>>,
           started' = started \/ \E k \in calls : AdapterAccepts(k)
    PROVE  Updated(row, L)
<1>1. row \in [Requests -> Row]
  BY DEF TypeOK
<1>2. \A p \in Requests : Lower(row[p], row[p]) /\ Keeps(row[p], row[p])
  BY <1>1, UpdatesLower, UpdatesKeep
<1>3. \A p \in Requests : Excused(p, row)
  BY DEF Excused
<1> QED
  BY <1>1, <1>2, <1>3 DEF Updated, Lowers

\* Every step of every process has that shape.
LEMMA StepShape ==
    ASSUME TypeOK, CallsOK(row, calls), [Next]_vars
    PROVE  \E S, L : Updated(S, L)
<1> USE QueueAssumption
<1>t. /\ row \in [Requests -> Row]
      /\ \A q \in Requests : row[q] \in Row
      /\ \A k \in calls : /\ k \in Call /\ k.req \in Requests
                          /\ k.owner \in Owners /\ k.run \in Nat
                          /\ {LaneOf[k.req]} \subseteq Lanes
      /\ turns \subseteq [owner : Owners, req : Requests, run : Nat]
      /\ lastSeq + 1 \in Nat
      /\ \A q \in Requests : {LaneOf[q]} \subseteq Lanes
  BY DEF TypeOK, Call
<1>l. \A q \in Requests : Lower(row[q], row[q]) /\ Keeps(row[q], row[q])
  BY <1>t, UpdatesLower, UpdatesKeep
<1>n. Shadows(row, calls) /\ \A S : Shadows(S, calls)
  BY ShadowsDrop
<1>1. ASSUME NEW o \in Owners, NEW q \in Requests, Enqueue(o, q)
      PROVE  \E S, L : Updated(S, L)
  <2> DEFINE S == [row EXCEPT ![q] = Queued(@, lastSeq + 1)]
  <2>1. S \in [Requests -> Row]
    BY <1>t, UpdatesKeepRows
  <2>2. \A p \in Requests : Keeps(row[p], S[p])
    <3>1. Keeps(row[q], Queued(row[q], lastSeq + 1))
      BY <1>t, UpdatesKeep
    <3> QED
      BY <1>t, <1>l, <3>1
  <2>3. Kick(o, {LaneOf[q]}, S, calls) /\ mode' = mode
    BY <1>1 DEF Enqueue
  <2>4. Admits(q, S)
    BY <1>1 DEF Enqueue, Admits
  <2> HIDE DEF S
  <2>5. Then(S, calls)
    BY <1>t, <2>1, <2>3, KickThen
  <2>6. Updated(S, calls)
    BY <1>1, <1>n, <2>1, <2>2, <2>4, <2>5 DEF Updated, Enqueue
  <2> QED
    BY <2>6
<1>2. ASSUME NEW o \in Owners, NEW q \in Requests, EnqueueDuplicate(o, q)
      PROVE  \E S, L : Updated(S, L)
  <2>1. Then(row, calls)
    BY <1>t, <1>2, KickThen DEF EnqueueDuplicate
  <2>2. Updated(row, calls)
    BY <1>2, <1>n, <2>1, NoRowUpdated DEF EnqueueDuplicate
  <2> QED
    BY <2>2
<1>3. ASSUME NEW o \in Owners, NEW q \in Requests, EnqueueReturns(o, q)
      PROVE  \E S, L : Updated(S, L)
  <2>1. CASE row[q].status \in {"queued", "failed", "cancelled"}
    <3> DEFINE s == Discarded(row[q])
    <3>1. s \in Row /\ Lower(row[q], s) /\ Keeps(row[q], s)
      BY <1>t, <2>1, UpdatesKeepRows, UpdatesLower, UpdatesKeep DEF InFlight
    <3>2. Then([row EXCEPT ![q] = s], calls)
      BY <1>3, <2>1 DEF EnqueueReturns, Then
    <3>3. Shadows([row EXCEPT ![q] = s], calls)
      BY <1>n
    <3>4. \/ row[q].status \in {"none", "queued"}
          \/ /\ q \in waiting[o] /\ ~ Awaits(o, q)
             /\ row[q].status \in {"failed", "cancelled"}
      BY <1>3, <2>1 DEF EnqueueReturns
    <3> HIDE DEF s
    <3>5. Updated([row EXCEPT ![q] = s], calls)
      BY <1>3, <3>1, <3>2, <3>3, <3>4, OneRowUpdated DEF EnqueueReturns
    <3> QED
      BY <3>5
  <2>2. CASE row[q].status \notin {"queued", "failed", "cancelled"}
    <3>1. Then(row, calls)
      BY <1>3, <2>2 DEF EnqueueReturns, Then
    <3>2. Updated(row, calls)
      BY <1>3, <1>n, <3>1, NoRowUpdated DEF EnqueueReturns
    <3> QED
      BY <3>2
  <2> QED
    BY <2>1, <2>2
<1>4. ASSUME NEW o \in Owners, NEW q \in Requests, Cancel(o, q)
      PROVE  \E S, L : Updated(S, L)
  <2> DEFINE s == Ended(row[q], "cancelled", "by_user")
  <2>1. s \in Row /\ Lower(row[q], s) /\ Keeps(row[q], s)
    <3>1. row[q].status \in Unsettled /\ "cancelled" \in Settled
          /\ "cancelled" \in Statuses /\ "by_user" \in Reasons
      BY <1>4 DEF Cancel, Unsettled, Settled, Reasons, Statuses
    <3> QED
      BY <1>t, <3>1, UpdatesKeepRows, UpdatesLower, UpdatesKeep
  <2>2. Then([row EXCEPT ![q] = s], calls)
    BY <1>4 DEF Cancel, Then
  <2>3. Shadows([row EXCEPT ![q] = s], calls) /\ row[q].status = "queued"
    BY <1>4, <1>n DEF Cancel
  <2> HIDE DEF s
  <2>4. Updated([row EXCEPT ![q] = s], calls)
    BY <1>4, <2>1, <2>2, <2>3, OneRowUpdated DEF Cancel
  <2> QED
    BY <2>4
<1>5. ASSUME NEW o \in Owners, NEW c \in Lanes, Archive(o, c)
      PROVE  \E S, L : Updated(S, L)
  <2>1. ASSUME NEW q \in Requests, row[q].status \in Unsettled
        PROVE  /\ Ended(row[q], "cancelled", "operator_archived") \in Row
               /\ Lower(row[q], Ended(row[q], "cancelled", "operator_archived"))
               /\ Keeps(row[q], Ended(row[q], "cancelled", "operator_archived"))
               /\ Ended(row[q], "cancelled", "operator_archived").status
                     = "cancelled"
    <3>1. "cancelled" \in Settled /\ "operator_archived" \in Reasons
          /\ "cancelled" \in Statuses
      BY DEF Settled, Reasons, Statuses
    <3>2. Ended(row[q], "cancelled", "operator_archived").status = "cancelled"
      BY <1>t DEF Ended, Unclaimed, Row
    <3> QED
      BY <1>t, <2>1, <3>1, <3>2, UpdatesKeepRows, UpdatesLower, UpdatesKeep
  <2>2. row' = [q \in Requests |->
                   IF q \in Archivable(c)
                   THEN Ended(row[q], "cancelled", "operator_archived")
                   ELSE row[q]]
    BY <1>5 DEF Archive
  <2>3. ASSUME NEW q \in Requests
        PROVE  /\ row'[q] \in Row
               /\ Lower(row[q], row'[q]) /\ Keeps(row[q], row'[q])
               /\ row'[q].status \in {"none", "queued"} => row'[q] = row[q]
               /\ LaneOf[q] = c => row'[q].status \notin Unsettled
    <3>1. CASE q \in Archivable(c)
      <4>1. row'[q] = Ended(row[q], "cancelled", "operator_archived")
        BY <2>2, <3>1
      <4>2. row[q].status \in Unsettled
        BY <3>1 DEF Archivable
      <4> QED
        BY <2>1, <4>1, <4>2 DEF Unsettled, InFlight
    <3>2. CASE q \notin Archivable(c)
      <4>1. row'[q] = row[q]
        BY <2>2, <3>2
      <4> QED
        BY <1>t, <1>l, <3>2, <4>1 DEF Archivable
    <3> QED
      BY <3>1, <3>2
  <2>4. row' \in [Requests -> Row]
    BY <2>2, <2>3
  <2>5. \A q \in Requests : Excused(q, row')
    BY <2>3 DEF Excused
  <2>6. archived' = archived \cup {c} /\ UNCHANGED <<lastSeq, calls, started, recoveries>>
    BY <1>5 DEF Archive
  <2>7. Lowers(row')
    BY <2>3, <2>5, <2>6 DEF Lowers
  <2>8. Then(row', calls)
    BY <2>6 DEF Then
  <2>9. Updated(row', calls)
    BY <1>n, <2>3, <2>4, <2>6, <2>7, <2>8 DEF Updated
  <2> QED
    BY <2>9
<1>6. ASSUME NEW o \in Owners, NEW c \in Lanes, SlotCleared(o, c)
      PROVE  \E S, L : Updated(S, L)
  <2> DEFINE run == slot[o][c].run
             lost == {q \in Requests : /\ LaneOf[q] = c
                                       /\ row[q].run = run
                                       /\ row[q].status \in InFlight}
             R == [q \in Requests |-> IF q \in lost THEN SessionLost(row[q])
                                                    ELSE row[q]]
  <2>1. Kick(o, IF lost = {} THEN {} ELSE {c}, R, calls)
    BY <1>6 DEF SlotCleared
  <2>2. \A q \in lost : row[q].status \in InFlight
    OBVIOUS
  <2>3. \A q \in Requests : R[q] = IF q \in lost THEN SessionLost(row[q])
                                                 ELSE row[q]
    OBVIOUS
  <2>4. R \in [Requests -> Row]
    BY <1>t, UpdatesKeepRows
  <2> HIDE DEF R, lost
  <2>5. ASSUME NEW q \in Requests
        PROVE  /\ Lower(row[q], R[q]) /\ Keeps(row[q], R[q])
               /\ R[q].status \in {"none", "queued"} => R[q] = row[q]
    <3>1. CASE q \in lost
      <4>1. SessionLost(row[q]).status = "failed"
        BY <1>t DEF SessionLost, Ended, Unclaimed, Row
      <4> QED
        BY <1>t, <2>2, <2>3, <3>1, <4>1, UpdatesLower, UpdatesKeep
    <3>2. CASE q \notin lost
      BY <1>l, <2>3, <3>2
    <3> QED
      BY <3>1, <3>2
  <2>6. \A q \in Requests : Excused(q, R)
    BY <2>5 DEF Excused
  <2>7. UNCHANGED <<lastSeq, mode, archived, started, recoveries>>
    BY <1>6 DEF SlotCleared
  <2>8. Then(R, calls)
    BY <2>1, <2>4, <2>7, KickThen
  <2>9. Updated(R, calls)
    BY <1>n, <2>4, <2>5, <2>6, <2>7, <2>8 DEF Updated, Lowers
  <2> QED
    BY <2>9
<1>h. ASSUME NEW k \in calls, Held(k)
      PROVE  k.phase # "late" /\ row[k.req].status = "sending"
  BY <1>h DEF CallsOK, Held, HeldIn
<1>7. ASSUME NEW k \in calls, AdapterAccepts(k)
      PROVE  \E S, L : Updated(S, L)
  <2> DEFINE l == [k EXCEPT !.phase = "accepted",
                            !.run = Session(k.owner, LaneOf[k.req])]
  <2>1. calls' = (calls \ {k}) \cup {l}
    BY <1>7 DEF AdapterAccepts
  <2>2. l \in Call /\ Shadow(k, l) /\ l.phase = "accepted"
    <3>1. Session(k.owner, LaneOf[k.req]) \in Nat
      <4>1. slot[k.owner][LaneOf[k.req]].run \in Nat /\ lastRun + 1 \in Nat
        BY <1>t DEF TypeOK, Slot
      <4> QED
        BY <4>1 DEF Session
    <3>2. k.phase # "late"
      BY <1>7, <1>h DEF AdapterAccepts
    <3> QED
      BY <1>t, <3>1, <3>2 DEF Call, Shadow
  <2> HIDE DEF l
  <2>3. Shadows(row, calls')
    BY <2>1, <2>2, ShadowsReplace
  <2>4. Then(row, calls')
    BY <1>7 DEF Then, AdapterAccepts
  <2>5. Updated(row, calls')
    BY <1>7, <2>3, <2>4, NoRowUpdated DEF AdapterAccepts
  <2> QED
    BY <2>5
<1>8. ASSUME NEW k \in calls, NEW heard \in BOOLEAN,
             AdapterAcceptsStillborn(k, heard)
      PROVE  \E S, L : Updated(S, L)
  <2>1. k.phase # "late" /\ row[k.req].status = "sending"
    BY <1>8, <1>h DEF AdapterAcceptsStillborn
  <2>2. CASE heard
    <3> DEFINE s == Completed(row[k.req], "failed")
    <3>1. s \in Row /\ Lower(row[k.req], s) /\ Keeps(row[k.req], s)
      BY <1>t, <2>1, UpdatesKeepRows, UpdatesLower, UpdatesKeep DEF InFlight
    <3>2. s.status = "failed"
      BY <1>t DEF Completed, Ended, Unclaimed, Row
    <3>3. /\ Kick(k.owner, {LaneOf[k.req]}, [row EXCEPT ![k.req] = s],
                  calls \ {k})
          /\ mode' = mode
      BY <1>8, <2>2 DEF AdapterAcceptsStillborn
    <3> HIDE DEF s
    <3>4. [row EXCEPT ![k.req] = s] \in [Requests -> Row]
      BY <1>t, <3>1
    <3>5. Then([row EXCEPT ![k.req] = s], calls \ {k})
      BY <1>t, <3>3, <3>4, KickThen
    <3>6. Shadows([row EXCEPT ![k.req] = s], calls \ {k})
      BY ShadowsDrop
    <3>7. UNCHANGED <<lastSeq, archived, started, recoveries>>
      BY <1>8 DEF AdapterAcceptsStillborn
    <3>8. Updated([row EXCEPT ![k.req] = s], calls \ {k})
      BY <1>t, <3>1, <3>2, <3>5, <3>6, <3>7, OneRowUpdated
    <3> QED
      BY <3>8
  <2>3. CASE ~ heard
    <3> DEFINE l == [k EXCEPT !.phase = "accepted",
                              !.run = Session(k.owner, LaneOf[k.req])]
    <3>1. calls' = (calls \ {k}) \cup {l} /\ row' = row
      BY <1>8, <2>3 DEF AdapterAcceptsStillborn
    <3>2. l \in Call /\ Shadow(k, l) /\ l.phase = "accepted"
      <4>1. slot[k.owner][LaneOf[k.req]].run \in Nat /\ lastRun + 1 \in Nat
        BY <1>t DEF TypeOK, Slot
      <4>2. Session(k.owner, LaneOf[k.req]) \in Nat
        BY <4>1 DEF Session
      <4> QED
        BY <1>t, <2>1, <4>2 DEF Call, Shadow
    <3> HIDE DEF l
    <3>3. Shadows(row, calls')
      BY <3>1, <3>2, ShadowsReplace
    <3>4. Then(row, calls')
      BY <3>1 DEF Then
    <3>5. UNCHANGED <<lastSeq, archived, started, recoveries>>
      BY <1>8 DEF AdapterAcceptsStillborn
    <3>6. Updated(row, calls')
      BY <3>3, <3>4, <3>5, NoRowUpdated
    <3> QED
      BY <3>6
  <2> QED
    BY <2>2, <2>3
<1>u. ASSUME NEW k \in calls, NEW S \in [Requests -> Row], mode' = mode,
             Unwind(k, S)
      PROVE  Then(S, calls \ {k}) /\ Shadows(S, calls \ {k})
  <2>1. (IF k.again THEN {LaneOf[k.req]} ELSE {}) \in SUBSET Lanes
    BY <1>t
  <2>2. Kick(k.owner, IF k.again THEN {LaneOf[k.req]} ELSE {}, S, calls \ {k})
    BY <1>u DEF Unwind
  <2> QED
    BY <1>t, <1>u, <2>1, <2>2, KickThen, ShadowsDrop
<1>9. ASSUME NEW k \in calls, MarkProcessing(k)
      PROVE  \E S, L : Updated(S, L)
  <2>1. UNCHANGED <<lastSeq, mode, archived, started, recoveries>>
    BY <1>9 DEF MarkProcessing
  <2>2. CASE Held(k)
    <3> DEFINE s == Processing(row[k.req], k.run)
    <3>1. s \in Row /\ Lower(row[k.req], s) /\ Keeps(row[k.req], s)
      BY <1>t, <1>h, <2>2, UpdatesKeepRows, UpdatesLower, UpdatesKeep
    <3>2. s.status = "processing"
      BY <1>t DEF Processing, Row
    <3>3. Unwind(k, [row EXCEPT ![k.req] = s])
      BY <1>9, <2>2 DEF MarkProcessing
    <3> HIDE DEF s
    <3>4. [row EXCEPT ![k.req] = s] \in [Requests -> Row]
      BY <1>t, <3>1
    <3>5. Updated([row EXCEPT ![k.req] = s], calls \ {k})
      BY <1>t, <1>u, <2>1, <3>1, <3>2, <3>3, <3>4, OneRowUpdated
    <3> QED
      BY <3>5
  <2>3. CASE ~ Held(k)
    <3>1. Unwind(k, row)
      BY <1>9, <2>3 DEF MarkProcessing
    <3>2. Updated(row, calls \ {k})
      BY <1>t, <1>u, <2>1, <3>1, NoRowUpdated
    <3> QED
      BY <3>2
  <2> QED
    BY <2>2, <2>3
<1>10. ASSUME NEW k \in calls, NEW error, DispatchFails(k, error)
       PROVE  \E S, L : Updated(S, L)
  <2> DEFINE s == Refused(row[k.req], error)
  <2>1. /\ UNCHANGED <<lastSeq, mode, archived, started, recoveries>>
        /\ Held(k) /\ k.phase = "dispatching"
        /\ Unwind(k, [row EXCEPT ![k.req] = s])
    BY <1>10 DEF DispatchFails
  <2>2. s \in Row /\ Lower(row[k.req], s) /\ Keeps(row[k.req], s)
    BY <1>t, <1>h, <2>1, UpdatesKeepRows, UpdatesLower, UpdatesKeep
       DEF InFlight
  <2> HIDE DEF s
  <2>3. [row EXCEPT ![k.req] = s] \in [Requests -> Row]
    BY <1>t, <2>2
  <2>4. Updated([row EXCEPT ![k.req] = s], calls \ {k})
    BY <1>t, <1>u, <2>1, <2>2, <2>3, OneRowUpdated
  <2> QED
    BY <2>4
<1>11. ASSUME NEW k \in calls, DispatchFenced(k)
       PROVE  \E S, L : Updated(S, L)
  <2>1. /\ UNCHANGED <<lastSeq, mode, archived, started, recoveries>>
        /\ Unwind(k, row)
    BY <1>11 DEF DispatchFenced
  <2>2. Updated(row, calls \ {k})
    BY <1>t, <1>u, <2>1, NoRowUpdated
  <2> QED
    BY <2>2
<1>12. ASSUME NEW k \in calls, DispatchTimesOut(k)
       PROVE  \E S, L : Updated(S, L)
  <2> DEFINE s == Ended(row[k.req], "failed", "delivery")
             l == [k EXCEPT !.phase = "late", !.again = FALSE]
             R == IF Held(k) THEN [row EXCEPT ![k.req] = s] ELSE row
             K == (calls \ {k}) \cup {l}
  <2>1. /\ UNCHANGED <<lastSeq, mode, archived, started, recoveries>>
        /\ Kick(k.owner, IF k.again THEN {LaneOf[k.req]} ELSE {}, R, K)
    BY <1>12 DEF DispatchTimesOut
  <2>2. l \in Call /\ Shadow(k, l)
    BY <1>t DEF Call, Shadow
  <2>3. s \in Row /\ s.status = "failed" /\ Keeps(row[k.req], s)
    <3>1. s \in Row /\ Keeps(row[k.req], s)
      BY <1>t, UpdatesKeepRows, UpdatesKeep
         DEF Statuses, Reasons, Settled
    <3>2. s.status = "failed"
      BY <1>t DEF Ended, Unclaimed, Row
    <3> QED
      BY <3>1, <3>2
  <2>4. Held(k) => Lower(row[k.req], s)
    <3>1. "failed" \in Settled /\ "delivery" \in Reasons
          /\ "sending" \in Unsettled
      BY DEF Settled, Reasons, Unsettled, InFlight
    <3> QED
      BY <1>t, <1>h, <3>1, UpdatesLower
  <2>5. R \in [Requests -> Row] /\ (Held(k) => R[k.req] = s)
    BY <1>t, <2>3
  <2>6. ~ HeldIn(R, k)
    BY <1>t, <2>3, <2>5 DEF HeldIn, Held
  <2> HIDE DEF s, l
  <2>7. Then(R, K)
    <3>1. (IF k.again THEN {LaneOf[k.req]} ELSE {}) \in SUBSET Lanes
      BY <1>t
    <3> HIDE DEF R, K
    <3> QED
      BY <1>t, <2>1, <2>5, <3>1, KickThen
  <2>8. Shadows(R, K)
    <3> HIDE DEF R
    <3> QED
      BY <2>2, <2>6, ShadowsReplace
  <2>9. CASE Held(k)
    <3>1. R = [row EXCEPT ![k.req] = s]
      BY <2>9
    <3> HIDE DEF R, K
    <3>2. Updated([row EXCEPT ![k.req] = s], K)
      BY <1>t, <2>1, <2>3, <2>4, <2>7, <2>8, <2>9, <3>1, OneRowUpdated
    <3> QED
      BY <3>2
  <2>10. CASE ~ Held(k)
    <3>1. R = row
      BY <2>10
    <3> HIDE DEF R, K
    <3>2. Updated(row, K)
      BY <2>1, <2>7, <2>8, <3>1, NoRowUpdated
    <3> QED
      BY <3>2
  <2> QED
    BY <2>9, <2>10
<1>13. ASSUME NEW t \in turns, NEW result \in {"completed", "failed"},
              NEW heard \in BOOLEAN, TurnEnds(t, result, heard)
       PROVE  \E S, L : Updated(S, L)
  <2>1. t.owner \in Owners /\ t.req \in Requests
    BY <1>t
  <2>2. UNCHANGED <<lastSeq, mode, archived, started, recoveries>>
    BY <1>13 DEF TurnEnds
  <2>3. CASE heard /\ Completable(row[t.req], t.run)
    <3> DEFINE s == Completed(row[t.req], result)
               L == Chained(calls, t.owner, {LaneOf[t.req]})
    <3>1. Kick(t.owner, {LaneOf[t.req]}, [row EXCEPT ![t.req] = s], L)
      BY <1>13, <2>3 DEF TurnEnds
    <3>2. s \in Row /\ Lower(row[t.req], s) /\ Keeps(row[t.req], s)
      BY <1>t, <2>1, <2>3, UpdatesKeepRows, UpdatesLower, UpdatesKeep
         DEF Completable
    <3>3. s.status \in {"delivered", "failed"}
      BY <1>t, <2>1 DEF Completed, Ended, Unclaimed, Row
    <3>4. Shadows([row EXCEPT ![t.req] = s], L)
      BY ShadowsChained
    <3> HIDE DEF s, L
    <3>5. [row EXCEPT ![t.req] = s] \in [Requests -> Row]
      BY <1>t, <3>2
    <3>6. Then([row EXCEPT ![t.req] = s], L)
      BY <1>t, <2>1, <2>2, <3>1, <3>5, KickThen
    <3>7. Updated([row EXCEPT ![t.req] = s], L)
      BY <2>1, <2>2, <3>2, <3>3, <3>4, <3>6, OneRowUpdated
    <3> QED
      BY <3>7
  <2>4. CASE ~ (heard /\ Completable(row[t.req], t.run))
    <3>1. Then(row, calls)
      BY <1>13, <2>4 DEF TurnEnds, Then
    <3>2. Updated(row, calls)
      BY <1>n, <2>2, <3>1, NoRowUpdated
    <3> QED
      BY <3>2
  <2> QED
    BY <2>3, <2>4
<1>14. ASSUME NEW o \in Owners, Sweep(o), mode'[o] = "up", archived' = archived
       PROVE  \E S, L : Updated(S, L)
  <2> DEFINE S == Swept(o)
             L == Chained(calls, o, {LaneOf[q] : q \in Proven(o)})
  <2>1. /\ UNCHANGED <<lastSeq, archived, started>>
        /\ Drain(o, Lanes, S, L)
        /\ recoveries' = [q \in Requests |->
                             IF q \in Stale(o) \ Proven(o)
                             THEN recoveries[q] + 1 ELSE recoveries[q]]
    BY <1>14 DEF Sweep
  <2>2. Then(S, L)
    BY <1>14, <2>1 DEF Then
  <2>3. Shadows(S, L)
    BY ShadowsChained
  <2>4. /\ S \in [Requests -> Row]
        /\ \A q \in Requests : Lower(row[q], S[q]) /\ Keeps(row[q], S[q])
    BY SweepLowers
  <2>5. ASSUME NEW q \in Requests
        PROVE  Excused(q, S)
    <3>1. CASE q \in Recovered(o)
      <4>1. q \notin Immediate /\ recoveries'[q] = recoveries[q] + 1
        BY <2>1, <3>1 DEF Recovered
      <4> QED
        BY <4>1 DEF Excused
    <3>2. CASE q \notin Recovered(o)
      <4>1. \/ S[q] = Completed(row[q], outcome[q][row[q].run])
            \/ S[q] = Ended(row[q], "failed", "restart_uncertain")
            \/ S[q] = [row[q] EXCEPT !.fresh = TRUE]
            \/ S[q] = row[q]
        BY <3>2 DEF Swept
      <4>2. /\ Completed(row[q], outcome[q][row[q].run]).status
                  \in {"delivered", "failed"}
            /\ Ended(row[q], "failed", "restart_uncertain").status = "failed"
            /\ [row[q] EXCEPT !.fresh = TRUE].status = row[q].status
        BY <1>t DEF Completed, Ended, Unclaimed, Row
      <4>3. S[q].status \in {"delivered", "failed", row[q].status}
        BY <4>1, <4>2
      <4> QED
        BY <4>3 DEF Excused
    <3> QED
      BY <3>1, <3>2
  <2> HIDE DEF S, L
  <2>6. Updated(S, L)
    BY <2>1, <2>2, <2>3, <2>4, <2>5 DEF Updated, Lowers
  <2> QED
    BY <2>6
<1>15. ASSUME NEW q \in Requests, LeaseExpires(q) \/ BackoffElapses(q)
       PROVE  \E S, L : Updated(S, L)
  <2>1. PICK s : /\ s \in {[row[q] EXCEPT !.fresh = FALSE],
                           [row[q] EXCEPT !.ready = TRUE]}
                 /\ row' = [row EXCEPT ![q] = s]
    BY <1>t, <1>15 DEF LeaseExpires, BackoffElapses
  <2>2. Lower(row[q], s) /\ Keeps(row[q], s)
    <3>1. /\ Lower(row[q], [row[q] EXCEPT !.fresh = FALSE])
          /\ Lower(row[q], [row[q] EXCEPT !.ready = TRUE])
      BY <1>t, UpdatesLower
    <3>2. /\ Keeps(row[q], [row[q] EXCEPT !.fresh = FALSE])
          /\ Keeps(row[q], [row[q] EXCEPT !.ready = TRUE])
      BY <1>t, UpdatesKeep
    <3> QED
      BY <2>1, <3>1, <3>2
  <2>3. s \in Row /\ s.status = row[q].status
    BY ZenonT(60), <1>t, <2>1 DEF Row
  <2>4. UNCHANGED <<lastSeq, calls, archived, started, recoveries>>
    BY <1>15 DEF LeaseExpires, BackoffElapses
  <2>5. Then([row EXCEPT ![q] = s], calls)
    BY <2>1, <2>4 DEF Then
  <2>6. Updated([row EXCEPT ![q] = s], calls)
    BY <1>n, <2>2, <2>3, <2>4, <2>5, OneRowUpdated
  <2> QED
    BY <2>6
<1>16. ASSUME row' = row, calls' \subseteq calls,
              UNCHANGED <<lastSeq, archived, started, recoveries>>
       PROVE  \E S, L : Updated(S, L)
  <2>1. Then(row, calls') /\ Shadows(row, calls')
    BY <1>16, ShadowsDrop DEF Then
  <2>2. Updated(row, calls')
    BY <1>16, <2>1, NoRowUpdated
  <2> QED
    BY <2>2
<1>17. ASSUME NEW o \in Owners, Tick(o) \/ Boot(o)
       PROVE  \E S, L : Updated(S, L)
  <2>1. Sweep(o) /\ mode'[o] = "up" /\ archived' = archived
    BY <1>17 DEF Tick, Boot, Sweep, TypeOK
  <2> QED
    BY <1>14, <2>1
<1>18. ASSUME NEW o \in Owners, Stop(o) \/ Crash(o)
       PROVE  \E S, L : Updated(S, L)
  BY <1>16, <1>18 DEF Stop, Crash
<1>19. ASSUME NEW o \in Owners, NEW c \in Lanes, SessionDies(o, c)
       PROVE  \E S, L : Updated(S, L)
  BY <1>16, <1>19 DEF SessionDies
<1>20. CASE UNCHANGED vars
  BY <1>16, <1>20 DEF vars
<1>21. CASE Next
  BY <1>1, <1>2, <1>3, <1>4, <1>5, <1>6, <1>7, <1>8, <1>9, <1>10, <1>11, <1>12,
     <1>13, <1>15, <1>17, <1>18, <1>19, <1>21 DEF Next, CallStep, TurnStep
<1> QED
  BY <1>20, <1>21

\* The table and the calls.
QueueInv == TableInv /\ CallsOK(row, calls)

\* What a step of that shape does: the table and the calls it goes through are
\* good, and so are the ones it leaves, which differ by claims only.
LEMMA UpdatedQueue ==
    ASSUME QueueInv, NEW S, NEW L, Updated(S, L), lastSeq' \in Nat
    PROVE  /\ TableOK(S, lastSeq', archived')
           /\ CallsOK(S, L)
           /\ TableOK(row', lastSeq', archived')
           /\ CallsOK(row', calls')
           /\ \A q \in Requests : Begun(S, L, q) <=> Begun(row', calls', q)
<1> USE QueueAssumption
<1>1. /\ TypeOK /\ TableOK(row, lastSeq, archived) /\ CallsOK(row, calls)
      /\ lastSeq \in Nat /\ row \in [Requests -> Row]
  BY DEF QueueInv, TableInv, TypeOK
<1>2. /\ S \in [Requests -> Row]
      /\ \A q \in Requests : Keeps(row[q], S[q])
      /\ Shadows(S, L)
      /\ Then(S, L)
  BY DEF Updated
<1>3. TableOK(S, lastSeq', archived')
  <2>1. CASE Lowers(S)
    <3>1. TableOK(S, lastSeq, archived)
      BY <1>1, <1>2, <2>1, LoweredTable DEF Lowers
    <3>2. Quiet(S, archived')
      BY <2>1, <3>1 DEF TableOK, Quiet, Lowers
    <3> QED
      BY <2>1, <3>1, <3>2 DEF TableOK, Lowers
  <2>2. ASSUME NEW q \in Requests, Admits(q, S)
        PROVE  TableOK(S, lastSeq', archived')
    <3>1. TableOK([row EXCEPT ![q] = Queued(@, lastSeq + 1)], lastSeq + 1,
                  archived)
      BY <1>1, <2>2, AdmitKeepsTable DEF Admits
    <3> QED
      BY <2>2, <3>1 DEF Admits
  <2> QED
    BY <2>1, <2>2 DEF Updated
<1>4. CallsOK(S, L)
  BY <1>1, <1>2, ShadowedCalls
<1>5. ASSUME NEW o \in Owners, NEW cs, Drain(o, cs, S, L)
      PROVE  /\ TableOK(row', lastSeq', archived')
             /\ CallsOK(row', calls')
             /\ \A q \in Requests : Begun(S, L, q) <=> Begun(row', calls', q)
  BY <1>3, <1>4, <1>5, DrainKeepsTable, DrainKeepsCalls
<1> QED
  BY <1>2, <1>3, <1>4, <1>5 DEF Then

\* Every step of every process keeps the table and the calls good.
LEMMA NextKeepsQueue == QueueInv /\ [Next]_vars => QueueInv'
<1> SUFFICES ASSUME QueueInv, [Next]_vars
             PROVE  QueueInv'
  OBVIOUS
<1>1. TypeOK /\ TypeOK' /\ CallsOK(row, calls) /\ lastSeq' \in Nat
  BY NextKeepsTypes DEF QueueInv, TableInv, TypeOK
<1>2. PICK S, L : Updated(S, L)
  BY <1>1, StepShape
<1>3. TableOK(row', lastSeq', archived') /\ CallsOK(row', calls')
  BY <1>1, <1>2, UpdatedQueue
<1> QED
  BY <1>1, <1>3 DEF QueueInv, TableInv

LEMMA InitQueue == Init => QueueInv
<1> SUFFICES ASSUME Init
             PROVE  QueueInv
  OBVIOUS
<1>1. TypeOK
  BY InitTypes
<1>2. \A q \in Requests : row[q].status = "none"
  BY DEF Init, NoRow
<1>3. TableOK(row, lastSeq, archived)
  BY <1>1, <1>2 DEF TableOK, TypeOK, Singled, Ordered, Numbered, Quiet, InFlight,
                    Unsettled
<1>4. CallsOK(row, calls)
  BY DEF Init, CallsOK
<1> QED
  BY <1>1, <1>3, <1>4 DEF QueueInv, TableInv

\* No lane has two messages in flight, whatever processes, claims, timeouts and
\* recoveries there are.
THEOREM LaneIsSingleFlight == Spec => []SingleFlight
<1>1. QueueInv => SingleFlight
  BY DEF QueueInv, TableInv, TableOK, Singled, SingleFlight
<1> QED
  BY <1>1, InitQueue, NextKeepsQueue, PTL DEF Spec

\* Nothing in flight has overtaken an older message of its lane.
THEOREM LaneIsOrdered == Spec => []NoOvertaking
<1>1. QueueInv => NoOvertaking
  BY DEF QueueInv, TableInv, TableOK, Ordered, NoOvertaking
<1> QED
  BY <1>1, InitQueue, NextKeepsQueue, PTL DEF Spec

\* An archived lane stays quiet, whatever was in flight when it was archived.
THEOREM ArchiveIsFinal == Spec => []ArchivedLaneIsQuiet
<1>1. QueueInv => ArchivedLaneIsQuiet
  BY DEF QueueInv, TableInv, TableOK, Quiet, ArchivedLaneIsQuiet
<1> QED
  BY <1>1, InitQueue, NextKeepsQueue, PTL DEF Spec

-----------------------------------------------------------------------------
(* Refinement: the table implements single-flight FIFO lanes               *)

\* What FifoLane sees of a row, and of a table.
Phase(r) == CASE r.status = "none" -> "absent"
              [] r.status = "queued" -> "waiting"
              [] r.status \in InFlight -> "active"
              [] OTHER -> "done"
Phases(R) == [q \in Requests |-> Phase(R[q])]

LEMMA PhaseOfRow ==
    ASSUME NEW r \in Row
    PROVE  /\ Phase(r) \in Lane!States
           /\ Phase(r) = "absent" <=> r.status = "none"
           /\ Phase(r) = "waiting" <=> r.status = "queued"
           /\ Phase(r) = "active" <=> r.status \in InFlight
           /\ Phase(r) = "done" <=> r.status \in Settled
<1>1. r.status \in Statuses
  BY DEF Row
<1>2. CASE r.status = "none"
  BY <1>2 DEF Phase, Lane!States, InFlight, Settled
<1>3. CASE r.status = "queued"
  BY <1>3 DEF Phase, Lane!States, InFlight, Settled
<1>4. CASE r.status \in InFlight
  BY <1>4 DEF Phase, Lane!States, InFlight, Settled
<1>5. CASE r.status \in Settled
  BY <1>5 DEF Phase, Lane!States, InFlight, Settled
<1> QED
  BY <1>1, <1>2, <1>3, <1>4, <1>5 DEF Statuses, InFlight, Settled

\* A lowered row moves as FifoLane allows, and keeps its place.
LEMMA LowerMoves ==
    ASSUME NEW r \in Row, NEW s \in Row, Lower(r, s)
    PROVE  /\ Phase(s) = Phase(r) \/ <<Phase(r), Phase(s)>> \in Lane!Moves
           /\ ~ (Phase(r) = "absent" /\ Phase(s) = "waiting")
           /\ Phase(r) # "absent" /\ Phase(s) # "absent" => s.seq = r.seq
<1>1. r.status \in Statuses /\ s.status \in Statuses
  BY DEF Row
<1>2. CASE s.status = "none"
  <2>1. Phase(s) = "absent" /\ Phase(r) \in {"absent", "waiting", "done"}
    BY <1>1, <1>2, PhaseOfRow DEF Lower, Statuses, InFlight, Settled
  <2> QED
    BY <2>1 DEF Lane!Moves
<1>3. CASE s.status # "none"
  <2>1. /\ r.status # "none" /\ s.seq = r.seq
        /\ s.status \in InFlight => r.status \in InFlight
        /\ s.status = "queued" => r.status \in Unsettled
    BY <1>3 DEF Lower
  <2>2. CASE s.status \in InFlight
    BY <2>1, <2>2, PhaseOfRow
  <2>3. CASE s.status = "queued"
    <3>1. Phase(s) = "waiting" /\ Phase(r) \in {"waiting", "active"}
      BY <2>1, <2>3, PhaseOfRow DEF Unsettled
    <3> QED
      BY <2>1, <3>1 DEF Lane!Moves
  <2>4. CASE s.status \in Settled
    <3>1. Phase(s) = "done" /\ Phase(r) \in {"waiting", "active", "done"}
      BY <1>1, <2>1, <2>4, PhaseOfRow DEF Statuses, InFlight, Settled
    <3> QED
      BY <2>1, <3>1 DEF Lane!Moves
  <2> QED
    BY <1>1, <1>3, <2>2, <2>3, <2>4 DEF Statuses, InFlight, Settled
<1> QED
  BY <1>2, <1>3

\* A drain begins heads of lanes in which nothing is active, and moves nothing.
LEMMA DrainBegins ==
    ASSUME NEW o \in Owners, NEW cs, NEW S, NEW L, NEW n \in Nat, NEW A,
           TableOK(S, n, A), Drain(o, cs, S, L)
    PROVE  \A q \in Requests :
               /\ row'[q].seq = S[q].seq
               /\ \/ Phase(row'[q]) = Phase(S[q])
                  \/ /\ Phase(S[q]) = "waiting" /\ Phase(row'[q]) = "active"
                     /\ \A p \in Requests \ {q} :
                            LaneOf[p] = LaneOf[q] =>
                                /\ Phase(S[p]) # "active"
                                /\ Phase(S[p]) = "waiting" => S[q].seq < S[p].seq
<1>1. S \in [Requests -> Row]
  BY DEF TableOK
<1>2. PICK P \in SUBSET Requests :
          /\ \A q \in P : Head(S, q)
          /\ \A q \in Requests :
                 row'[q] = IF q \in P THEN Claimed(S[q], o) ELSE S[q]
  BY <1>1, DrainClaimsHeads
<1>3. ASSUME NEW q \in Requests, q \in P
      PROVE  /\ row'[q].seq = S[q].seq
             /\ Phase(S[q]) = "waiting" /\ Phase(row'[q]) = "active"
             /\ \A p \in Requests \ {q} :
                    LaneOf[p] = LaneOf[q] =>
                        /\ Phase(S[p]) # "active"
                        /\ Phase(S[p]) = "waiting" => S[q].seq < S[p].seq
  <2>0. Claimed(S[q], o) \in Row
    BY <1>1, UpdatesKeepRows
  <2>1. /\ Claimed(S[q], o) \in Row
        /\ Claimed(S[q], o).status = "sending"
        /\ Claimed(S[q], o).seq = S[q].seq
    BY <1>1, <2>0 DEF Claimed, Row
  <2>2. S[q].status = "queued"
    BY <1>2, <1>3 DEF Head
  <2>3. ASSUME NEW p \in Requests \ {q}, LaneOf[p] = LaneOf[q]
        PROVE  /\ Phase(S[p]) # "active"
               /\ Phase(S[p]) = "waiting" => S[q].seq < S[p].seq
    <3>1. /\ S[p].status \notin InFlight
          /\ S[p].status = "queued" => S[q].seq <= S[p].seq
      BY <1>2, <1>3, <2>3 DEF Head
    <3>2. S[p].status = "queued" => S[q].seq # S[p].seq
      BY <2>2 DEF TableOK, Numbered
    <3>3. S[p].seq \in Nat /\ S[q].seq \in Nat
      BY <1>1 DEF Row
    <3> QED
      BY <1>1, <3>1, <3>2, <3>3, PhaseOfRow
  <2>4. Phase(S[q]) = "waiting" /\ Phase(row'[q]) = "active"
    BY <1>1, <1>2, <1>3, <2>1, <2>2, PhaseOfRow DEF InFlight
  <2> QED
    BY <1>2, <1>3, <2>1, <2>3, <2>4
<1> QED
  BY <1>2, <1>3

LEMMA UpdatedRefines ==
    ASSUME QueueInv, TypeOK', NEW S, NEW L, Updated(S, L)
    PROVE  Lane!Step
<1> DEFINE mid == Phases(S)
<1>1. /\ row \in [Requests -> Row] /\ row' \in [Requests -> Row]
      /\ S \in [Requests -> Row] /\ lastSeq' \in Nat /\ lastSeq \in Nat
      /\ TableOK(row, lastSeq, archived)
  BY DEF QueueInv, TableInv, TypeOK, Updated
<1>2. TableOK(S, lastSeq', archived')
  BY <1>1, UpdatedQueue
<1>3. ASSUME NEW q \in Requests
      PROVE  /\ row'[q].seq = S[q].seq
             /\ \/ Phase(row'[q]) = Phase(S[q])
                \/ /\ Phase(S[q]) = "waiting" /\ Phase(row'[q]) = "active"
                   /\ \A p \in Requests \ {q} :
                          LaneOf[p] = LaneOf[q] =>
                              /\ Phase(S[p]) # "active"
                              /\ Phase(S[p]) = "waiting"
                                     => S[q].seq < S[p].seq
  <2>1. CASE row' = S
    BY <2>1
  <2>2. ASSUME NEW o \in Owners, NEW cs, Drain(o, cs, S, L)
        PROVE  /\ row'[q].seq = S[q].seq
               /\ \/ Phase(row'[q]) = Phase(S[q])
                  \/ /\ Phase(S[q]) = "waiting" /\ Phase(row'[q]) = "active"
                     /\ \A p \in Requests \ {q} :
                            LaneOf[p] = LaneOf[q] =>
                                /\ Phase(S[p]) # "active"
                                /\ Phase(S[p]) = "waiting"
                                       => S[q].seq < S[p].seq
    BY <1>1, <1>2, <2>2, DrainBegins
  <2> QED
    BY <2>1, <2>2 DEF Updated, Then
<1>4. ASSUME NEW q \in Requests
      PROVE  /\ \/ Phase(S[q]) = Phase(row[q])
                \/ <<Phase(row[q]), Phase(S[q])>> \in Lane!Moves
             /\ Phase(row[q]) = "absent" /\ Phase(S[q]) = "waiting" =>
                    \A p \in Requests \ {q} : Phase(S[p]) # "absent" =>
                        S[p].seq < S[q].seq
             /\ Phase(row[q]) # "absent" /\ Phase(S[q]) # "absent"
                    => S[q].seq = row[q].seq
  <2>1. CASE Lowers(S)
    <3>1. Lower(row[q], S[q]) /\ row[q] \in Row /\ S[q] \in Row
      BY <1>1, <2>1 DEF Lowers
    <3> QED
      BY <3>1, LowerMoves
  <2>2. ASSUME NEW a \in Requests, Admits(a, S)
        PROVE  /\ \/ Phase(S[q]) = Phase(row[q])
                  \/ <<Phase(row[q]), Phase(S[q])>> \in Lane!Moves
               /\ Phase(row[q]) = "absent" /\ Phase(S[q]) = "waiting" =>
                      \A p \in Requests \ {q} : Phase(S[p]) # "absent" =>
                          S[p].seq < S[q].seq
               /\ Phase(row[q]) # "absent" /\ Phase(S[q]) # "absent"
                      => S[q].seq = row[q].seq
    <3>1. /\ S[a] = Queued(row[a], lastSeq + 1)
          /\ \A p \in Requests \ {a} : S[p] = row[p]
          /\ row[a].status = "none"
      BY <1>1, <2>2 DEF Admits
    <3>2. S[a].status = "queued" /\ S[a].seq = lastSeq + 1
      BY <1>1, <3>1 DEF Queued, Row
    <3>3. Phase(row[a]) = "absent" /\ Phase(S[a]) = "waiting"
      BY <1>1, <3>1, <3>2, PhaseOfRow
    <3>4. ASSUME NEW p \in Requests \ {a}, Phase(S[p]) # "absent"
          PROVE  S[p].seq < S[a].seq
      <4>1. row[p].status # "none"
        BY <1>1, <3>1, <3>4, PhaseOfRow
      <4>2. row[p].seq <= lastSeq /\ row[p].seq \in Nat
        BY <1>1, <4>1 DEF TableOK, Numbered, Row
      <4> QED
        BY <1>1, <3>1, <3>2, <4>2
    <3>5. <<Phase(row[a]), Phase(S[a])>> \in Lane!Moves
      BY <3>3 DEF Lane!Moves
    <3>6. CASE q = a
      BY <3>3, <3>4, <3>5, <3>6
    <3>7. CASE q # a
      BY <3>1, <3>7
    <3> QED
      BY <3>6, <3>7
  <2> QED
    BY <2>1, <2>2 DEF Updated
<1>5. mid \in [Requests -> Lane!States]
  BY <1>1, PhaseOfRow DEF Phases
<1>6. \A q \in Requests : mid[q] = Phase(S[q])
  BY DEF Phases
<1>7. ASSUME NEW q \in Requests
      PROVE  /\ (CASE row[q].status = "none" -> "absent"
                   [] row[q].status = "queued" -> "waiting"
                   [] row[q].status \in InFlight -> "active"
                   [] OTHER -> "done") = Phase(row[q])
             /\ (CASE row'[q].status = "none" -> "absent"
                   [] row'[q].status = "queued" -> "waiting"
                   [] row'[q].status \in InFlight -> "active"
                   [] OTHER -> "done") = Phase(row'[q])
  BY DEF Phase
<1> HIDE DEF mid
<1>8. Lane!Moved(mid)
  BY <1>4, <1>6, <1>7 DEF Lane!Moved
<1>9. Lane!Placed(mid)
  <2>1. ASSUME NEW q \in Requests
        PROVE  /\ Phase(row[q]) = "absent" /\ mid[q] = "waiting" =>
                      \A p \in Requests \ {q} : mid[p] # "absent" =>
                          row'[p].seq < row'[q].seq
               /\ Phase(row[q]) # "absent" /\ mid[q] # "absent"
                      => row'[q].seq = row[q].seq
    BY <1>3, <1>4, <1>6
  <2> QED
    BY <1>7, <2>1 DEF Lane!Placed
<1>10. Lane!Begun(mid)
  BY <1>3, <1>6, <1>7 DEF Lane!Begun
<1> QED
  BY <1>5, <1>8, <1>9, <1>10 DEF Lane!Step

\* The queue implements FIFO lanes: whatever processes, claims, timeouts,
\* crashes and recoveries there are, its table only does what FifoLane allows.
THEOREM LanesAreFifo == Spec => ImplementsFifoLane
<1>1. Init => Lane!Init
  <2> SUFFICES ASSUME Init
               PROVE  Lane!Init
    OBVIOUS
  <2>1. \A q \in Requests : row[q].status = "none" /\ row[q].seq = 0
    BY DEF Init, NoRow
  <2>2. \A q \in Requests : (CASE row[q].status = "none" -> "absent"
                              [] row[q].status = "queued" -> "waiting"
                              [] row[q].status \in InFlight -> "active"
                              [] OTHER -> "done") = "absent"
    BY <2>1 DEF InFlight
  <2>3. [q \in Requests |-> row[q].seq] = [q \in Requests |-> 0]
    BY <2>1
  <2> QED
    BY Zenon, <2>2, <2>3 DEF Lane!Init
<1>2. QueueInv /\ TypeOK' /\ [Next]_vars => Lane!Step
  BY StepShape, UpdatedRefines DEF QueueInv, TableInv
<1>3. QueueInv => TypeOK
  BY DEF QueueInv, TableInv
<1> QED
  BY <1>1, <1>2, <1>3, InitQueue, NextKeepsQueue, PTL
     DEF Spec, ImplementsFifoLane, Lane!Spec

-----------------------------------------------------------------------------
(* Repeats: how often the model may run a request                          *)

\* A request has begun no more turns than its recoveries allow: one more than
\* them once its claim may have begun one, and a scheduler turn just one.
\* (When processes overlap, chat only.)
Budget(R, K, n, rec) ==
    \A q \in Requests :
        (Overlap => q \notin Immediate) =>
            n[q] <= (IF q \in Immediate THEN 0 ELSE rec[q])
                    + (IF Begun(R, K, q) THEN 1 ELSE 0)

\* An enqueue() that waits for a begun turn finds its row accepted, not failed.
Served(o, q) ==
    \/ started[q] = 0
    \/ \E k \in calls : /\ k.owner = o /\ k.req = q
                        /\ k.phase = "accepted" /\ Held(k)
    \/ /\ row[q].status = "processing"
       /\ ~ \E k \in calls : k.owner = o /\ k.req = q /\ k.phase # "late"

\* Calls and waiting enqueues belong to live processes; unless they overlap,
\* there is one.
Lives ==
    /\ \A k \in calls : Alive(k.owner)
    /\ \A o \in Owners : waiting[o] # {} => Alive(o)
    /\ \A o \in Owners : waiting[o] \subseteq Immediate
    /\ ~ Overlap => \A o, p \in Owners : Alive(o) /\ Alive(p) => o = p

Waits == ~ Overlap => \A o \in Owners : \A q \in waiting[o] : Served(o, q)

BudgetInv == QueueInv /\ Budget(row, calls, started, recoveries) /\ Lives /\ Waits

\* A drain leaves what is not queued, and the calls there are.
LEMMA KickLeaves ==
    ASSUME NEW o \in Owners, NEW cs, NEW R \in [Requests -> Row], NEW K,
           Kick(o, cs, R, K)
    PROVE  /\ K \subseteq calls'
           /\ \A k \in calls' : k \in K \/ (k.owner = o /\ mode[o] = "up")
           /\ \A q \in Requests :
                  R[q].status # "queued" =>
                      /\ row'[q] = R[q]
                      /\ \A k \in calls' : k.req = q => k \in K
<1>1. Drain(o, IF mode[o] = "up" THEN cs ELSE {}, R, K)
  BY DEF Kick
<1>2. PICK P \in SUBSET Requests :
          /\ \A q \in P : Head(R, q)
          /\ \A q \in Requests :
                 row'[q] = IF q \in P THEN Claimed(R[q], o) ELSE R[q]
          /\ calls' = K \cup {[owner |-> o, req |-> q, tok |-> R[q].claims + 1,
                               phase |-> "dispatching", run |-> NoRun,
                               again |-> FALSE] : q \in P}
  BY <1>1, DrainClaimsHeads
<1>3. \A q \in P : R[q].status = "queued"
  BY <1>2 DEF Head
<1>4. mode[o] # "up" => calls' = K
  BY <1>1 DEF Drain
<1> QED
  BY <1>2, <1>3, <1>4

\* An accepted call, or an enqueue() with nothing left to await, keeps its
\* process from all but the continuations that are due.
LEMMA BusyOwner ==
    ASSUME TypeOK, Lives, ~ Overlap,
           NEW o \in Owners, Alive(o), ~ Free(o),
           [Next]_vars
    PROVE  \/ \E q \in Requests : EnqueueReturns(o, q)
           \/ \E k \in calls : k.owner = o /\ MarkProcessing(k)
           \/ Crash(o)
           \/ UNCHANGED vars
<1>1. \A p \in Owners : Alive(p) => p = o
  BY DEF Lives
<1>2. \A k \in calls : k.owner \in Owners /\ k.owner = o
  BY <1>1 DEF Lives, TypeOK, Call
<1>3. ~ TimePasses
  BY DEF TimePasses
<1>4. \A t \in turns : t.owner \in Owners
  BY DEF TypeOK
<1>5. ASSUME NEW p \in Owners, NEW q \in Requests,
             \/ Enqueue(p, q) \/ EnqueueDuplicate(p, q) \/ Cancel(p, q)
      PROVE  FALSE
  BY <1>1, <1>5 DEF Enqueue, EnqueueDuplicate, Cancel
<1>6. ASSUME NEW p \in Owners, NEW q \in Requests, EnqueueReturns(p, q)
      PROVE  EnqueueReturns(o, q)
  BY <1>1, <1>6 DEF EnqueueReturns
<1>7. ASSUME NEW p \in Owners, NEW c \in Lanes,
             Archive(p, c) \/ SessionDies(p, c) \/ SlotCleared(p, c)
      PROVE  FALSE
  BY <1>1, <1>7 DEF Archive, SessionDies, SlotCleared
<1>8. ASSUME NEW k \in calls, CallStep
      PROVE  \E j \in calls : j.owner = o /\ MarkProcessing(j)
  BY <1>2, <1>8 DEF CallStep, AdapterAccepts, AdapterAcceptsStillborn,
                    DispatchFails, DispatchFenced, DispatchTimesOut
<1>9. CallStep => \E k \in calls : TRUE
  BY DEF CallStep
<1>10. ~ TurnStep
  BY <1>1, <1>4 DEF TurnStep, TurnEnds
<1>11. ASSUME NEW p \in Owners, Tick(p) \/ Stop(p)
       PROVE  FALSE
  BY <1>1, <1>11 DEF Tick, Stop, Alive
<1>12. ASSUME NEW p \in Owners, Boot(p)
       PROVE  FALSE
  BY <1>12 DEF Boot
<1>13. ASSUME NEW p \in Owners, Crash(p)
       PROVE  Crash(o)
  BY <1>1, <1>13 DEF Crash
<1>14. ASSUME NEW q \in Requests, LeaseExpires(q) \/ BackoffElapses(q)
       PROVE  FALSE
  BY <1>3, <1>14 DEF LeaseExpires, BackoffElapses
<1> QED
  BY <1>5, <1>6, <1>7, <1>8, <1>9, <1>10, <1>11, <1>12, <1>13, <1>14 DEF Next

\* How processes live and what they wait for.
LEMMA LifeSteps ==
    ASSUME TypeOK, [Next]_vars
    PROVE  /\ \/ mode' = mode
              \/ \E o \in Owners :
                     /\ \/ Boot(o)
                        \/ Stop(o)
                        \/ Crash(o)
                     /\ \A p \in Owners \ {o} : mode'[p] = mode[p]
           /\ \/ waiting' = waiting
              \/ \E o \in Owners, q \in Requests :
                     Enqueue(o, q) \/ EnqueueReturns(o, q)
              \/ \E o \in Owners : Crash(o)
<1>1. mode \in [Owners -> {"unborn", "up", "stopping", "down"}]
  BY DEF TypeOK
<1>2. \/ mode' = mode
      \/ \E o \in Owners : Boot(o) \/ Stop(o) \/ Crash(o)
  BY DEF Next, CallStep, TurnStep, Enqueue, EnqueueDuplicate, EnqueueReturns,
         Cancel, Archive, SessionDies, SlotCleared, AdapterAccepts,
         AdapterAcceptsStillborn, MarkProcessing, DispatchFails, DispatchFenced,
         DispatchTimesOut, TurnEnds, Tick, LeaseExpires, BackoffElapses, vars
<1>3. ASSUME NEW o \in Owners, Boot(o) \/ Stop(o) \/ Crash(o)
      PROVE  \A p \in Owners \ {o} : mode'[p] = mode[p]
  BY <1>1, <1>3 DEF Boot, Stop, Crash
<1>4. \/ waiting' = waiting
      \/ \E o \in Owners, q \in Requests : Enqueue(o, q) \/ EnqueueReturns(o, q)
      \/ \E o \in Owners : Crash(o)
  BY DEF Next, CallStep, TurnStep, EnqueueDuplicate,
         Cancel, Archive, SessionDies, SlotCleared, AdapterAccepts,
         AdapterAcceptsStillborn, MarkProcessing, DispatchFails, DispatchFenced,
         DispatchTimesOut, TurnEnds, Tick, Boot, Stop, Sweep, LeaseExpires,
         BackoffElapses, vars
<1> QED
  BY <1>2, <1>3, <1>4

\* Calls and waiting enqueues stay with live processes.
LEMMA NextKeepsLives == QueueInv /\ Lives /\ [Next]_vars => Lives'
<1> SUFFICES ASSUME QueueInv, Lives, [Next]_vars
             PROVE  Lives'
  OBVIOUS
<1>1. /\ TypeOK /\ CallsOK(row, calls)
      /\ mode \in [Owners -> {"unborn", "up", "stopping", "down"}]
      /\ waiting \in [Owners -> SUBSET Requests]
      /\ \A k \in calls : k.owner \in Owners
  BY DEF QueueInv, TableInv, TypeOK, Call
<1>2. ASSUME NEW k \in calls'
      PROVE  (\E j \in calls : j.owner = k.owner) \/ mode'[k.owner] = "up"
  <2>1. PICK S, L : Updated(S, L)
    BY <1>1, StepShape
  <2>2. \A l \in L : \E j \in calls : j.owner = l.owner
    BY <2>1 DEF Updated, Shadows, Shadow
  <2>3. CASE calls' = L
    BY <2>2, <2>3
  <2>4. ASSUME NEW o \in Owners, NEW cs, mode'[o] = "up", Drain(o, cs, S, L)
        PROVE  k \in L \/ k.owner = o
    BY <2>4 DEF Drain
  <2> QED
    BY <2>1, <2>2, <2>3, <2>4 DEF Updated, Then
<1>3. ASSUME NEW o \in Owners, Alive(o), ~ Crash(o)
      PROVE  Alive(o)'
  <2>1. CASE mode' = mode
    BY <1>3, <2>1 DEF Alive
  <2>2. ASSUME NEW p \in Owners, Boot(p) \/ Stop(p) \/ Crash(p),
               \A r \in Owners \ {p} : mode'[r] = mode[r]
        PROVE  Alive(o)'
    <3>1. CASE p = o
      BY <1>1, <1>3, <2>2, <3>1 DEF Boot, Stop, Alive
    <3>2. CASE p # o
      BY <1>3, <2>2, <3>2 DEF Alive
    <3> QED
      BY <3>1, <3>2
  <2> QED
    BY <1>1, <2>1, <2>2, LifeSteps
<1>4. ASSUME NEW o \in Owners, Crash(o)
      PROVE  waiting'[o] = {} /\ \A k \in calls' : k.owner # o
  BY <1>1, <1>4 DEF Crash
<1>5. \A k \in calls' : Alive(k.owner)'
  <2> SUFFICES ASSUME NEW k \in calls'
               PROVE  Alive(k.owner)'
    OBVIOUS
  <2>1. CASE mode'[k.owner] = "up"
    BY <2>1 DEF Alive
  <2>2. ASSUME NEW j \in calls, j.owner = k.owner
        PROVE  Alive(k.owner)'
    <3>1. PICK o \in Owners : o = k.owner
      BY <1>1, <2>2
    <3>2. Alive(o) /\ ~ Crash(o)
      BY <1>4, <2>2, <3>1 DEF Lives
    <3>3. mode'[o] \in {"up", "stopping"}
      BY <1>3, <3>2 DEF Alive
    <3> QED
      BY <3>1, <3>3 DEF Alive
  <2> QED
    BY <1>2, <2>1, <2>2
<1>6. ASSUME NEW o \in Owners
      PROVE  /\ waiting'[o] # {} => Alive(o)'
             /\ waiting'[o] \subseteq Immediate
  <2>1. waiting[o] # {} => Alive(o)
    BY DEF Lives
  <2>2. waiting[o] \subseteq Immediate
    BY DEF Lives
  <2>3. CASE waiting' = waiting
    BY <1>3, <1>4, <2>1, <2>2, <2>3
  <2>4. ASSUME NEW p \in Owners, NEW q \in Requests, Enqueue(p, q)
        PROVE  /\ waiting'[o] # {} => Alive(o)'
               /\ waiting'[o] \subseteq Immediate
    <3>1. mode' = mode /\ Alive(p)
      BY <2>4 DEF Enqueue
    <3>2. waiting'[o] = waiting[o] \/ (o = p /\ waiting'[o] = waiting[o] \cup {q}
                                       /\ q \in Immediate)
      BY <1>1, <2>4 DEF Enqueue
    <3> QED
      BY <2>1, <2>2, <3>1, <3>2 DEF Alive
  <2>5. ASSUME NEW p \in Owners, NEW q \in Requests, EnqueueReturns(p, q)
        PROVE  /\ waiting'[o] # {} => Alive(o)'
               /\ waiting'[o] \subseteq Immediate
    <3>1. mode' = mode /\ waiting'[o] \subseteq waiting[o]
      BY <1>1, <2>5 DEF EnqueueReturns
    <3> QED
      BY <2>1, <2>2, <3>1 DEF Alive
  <2>6. ASSUME NEW p \in Owners, Crash(p)
        PROVE  /\ waiting'[o] # {} => Alive(o)'
               /\ waiting'[o] \subseteq Immediate
    <3>1. waiting'[o] \subseteq waiting[o]
      BY <1>1, <2>6 DEF Crash
    <3> QED
      BY <1>3, <1>4, <2>1, <2>2, <3>1
  <2> QED
    BY <1>1, <2>3, <2>4, <2>5, <2>6, LifeSteps
<1>7. ~ Overlap => \A o, p \in Owners : Alive(o)' /\ Alive(p)' => o = p
  <2> SUFFICES ASSUME ~ Overlap, NEW o \in Owners, NEW p \in Owners,
                      Alive(o)', Alive(p)'
               PROVE  o = p
    OBVIOUS
  <2>1. Alive(o) /\ Alive(p) => o = p
    BY DEF Lives
  <2>2. CASE mode' = mode
    BY <2>1, <2>2 DEF Alive
  <2>3. ASSUME NEW a \in Owners, Boot(a) \/ Stop(a) \/ Crash(a),
               \A r \in Owners \ {a} : mode'[r] = mode[r]
        PROVE  o = p
    <3>1. CASE Boot(a)
      <4>1. \A r \in Owners : ~ Alive(r)
        BY <3>1 DEF Boot
      <4>2. \A r \in Owners \ {a} : ~ (mode'[r] \in {"up", "stopping"})
        BY <2>3, <4>1 DEF Alive
      <4> QED
        BY <4>2 DEF Alive
    <3>2. CASE Stop(a) \/ Crash(a)
      <4>1. Alive(a)
        BY <3>2 DEF Stop, Crash, Alive
      <4>2. \A r \in Owners \ {a} : mode'[r] \in {"up", "stopping"} => Alive(r)
        BY <2>3 DEF Alive
      <4>3. Alive(o) /\ Alive(p)
        BY <4>1, <4>2 DEF Alive
      <4> QED
        BY <2>1, <4>3
    <3> QED
      BY <2>3, <3>1, <3>2
  <2> QED
    BY <1>1, <2>2, <2>3, LifeSteps
<1> QED
  BY <1>5, <1>6, <1>7 DEF Lives

\* Every step keeps the budget: an accepted call has the only claim of its row,
\* a claim that has begun is given back only by a recovery, and a scheduler
\* row that has begun is not given back at all.
LEMMA NextKeepsBudget ==
    ASSUME BudgetInv, [Next]_vars
    PROVE  Budget(row', calls', started', recoveries')
<1>1. /\ QueueInv /\ TypeOK /\ TypeOK' /\ CallsOK(row, calls)
      /\ Budget(row, calls, started, recoveries)
      /\ started \in [Requests -> Nat] /\ recoveries \in [Requests -> Nat]
      /\ started' \in [Requests -> Nat] /\ recoveries' \in [Requests -> Nat]
      /\ lastSeq' \in Nat
      /\ \A q \in Requests : row[q] \in Row
  BY NextKeepsTypes DEF BudgetInv, QueueInv, TableInv, TypeOK
<1>2. PICK S, L : Updated(S, L)
  BY <1>1, StepShape
<1>3. /\ \A q \in Requests : Begun(S, L, q) <=> Begun(row', calls', q)
      /\ CallsOK(row', calls')
  BY <1>1, <1>2, UpdatedQueue
<1>4. \A q \in Requests :
         Begun(row, calls, q) /\ S[q].status \notin {"none", "queued"}
         => Begun(row', calls', q)
  BY <1>1, <1>2, <1>3, ShadowedCalls DEF Updated
<1>5. ASSUME NEW q \in Requests, Overlap => q \notin Immediate,
             Begun(row, calls, q), ~ Begun(row', calls', q)
      PROVE  \/ q \notin Immediate /\ recoveries'[q] = recoveries[q] + 1
             \/ q \in Immediate /\ started[q] = 0
  <2>1. S[q].status \in {"none", "queued"}
    BY <1>4, <1>5
  <2>2. row[q].status \notin {"none", "queued"}
    BY <1>5 DEF Begun
  <2>3. ~ \E a \in Requests : Admits(a, S)
    <3> SUFFICES ASSUME NEW a \in Requests, Admits(a, S)
                 PROVE  FALSE
      OBVIOUS
    <3>1. row[a].status = "none" /\ S = [row EXCEPT ![a] = Queued(@, lastSeq + 1)]
      BY DEF Admits
    <3>2. a # q
      BY <2>2, <3>1
    <3>3. S[q] = row[q]
      BY <1>1, <3>1, <3>2 DEF TypeOK
    <3> QED
      BY <2>1, <2>2, <3>3
  <2>4. Excused(q, S)
    BY <1>2, <2>3 DEF Updated, Lowers
  <2>5. ~ \E k \in calls : k.req = q /\ k.phase = "dispatching" /\ Held(k)
    BY <1>5 DEF Begun, Held, HeldIn
  <2>6. ASSUME NEW o \in Owners, q \in waiting[o],
               row[q].status \in {"failed", "cancelled"}
        PROVE  q \in Immediate /\ started[q] = 0
    <3>1. q \in Immediate
      BY <2>6 DEF BudgetInv, Lives
    <3>2. Served(o, q)
      BY <1>5, <2>6, <3>1 DEF BudgetInv, Waits
    <3> QED
      BY <2>6, <3>1, <3>2 DEF Served, Held
  <2> QED
    BY <2>1, <2>2, <2>4, <2>5, <2>6 DEF Excused
<1>6. ASSUME NEW q \in Requests, Overlap => q \notin Immediate,
             started'[q] = started[q]
      PROVE  started'[q] <= (IF q \in Immediate THEN 0 ELSE recoveries'[q])
                            + (IF Begun(row', calls', q) THEN 1 ELSE 0)
  <2>1. started[q] <= (IF q \in Immediate THEN 0 ELSE recoveries[q])
                      + (IF Begun(row, calls, q) THEN 1 ELSE 0)
    BY <1>1, <1>6 DEF Budget
  <2>2. /\ started[q] \in Nat /\ recoveries[q] \in Nat
        /\ recoveries'[q] \in {recoveries[q], recoveries[q] + 1}
    BY <1>1, <1>2 DEF Updated
  <2>3. CASE ~ Begun(row, calls, q) \/ Begun(row', calls', q)
    BY <1>6, <2>1, <2>2, <2>3
  <2>4. CASE Begun(row, calls, q) /\ ~ Begun(row', calls', q)
    BY <1>5, <1>6, <2>1, <2>2, <2>4
  <2> QED
    BY <2>3, <2>4
<1>7. ASSUME NEW q \in Requests, Overlap => q \notin Immediate,
             NEW k \in calls, AdapterAccepts(k), k.req = q
      PROVE  started'[q] <= (IF q \in Immediate THEN 0 ELSE recoveries'[q])
                            + (IF Begun(row', calls', q) THEN 1 ELSE 0)
  <2> DEFINE l == [k EXCEPT !.phase = "accepted",
                            !.run = Session(k.owner, LaneOf[k.req])]
  <2>1. /\ Held(k) /\ k.phase \in {"dispatching", "late"}
        /\ row' = row /\ recoveries' = recoveries
        /\ calls' = (calls \ {k}) \cup {l}
        /\ started'[q] = started[q] + 1
    BY <1>1, <1>7 DEF AdapterAccepts
  <2>2. k \in Call
    BY <1>1 DEF TypeOK
  <2>3. l.phase = "accepted"
    BY <2>2 DEF Call
  <2>4. k.phase = "dispatching" /\ HeldIn(row, k)
    BY <1>1, <2>1 DEF CallsOK, Held, HeldIn
  <2>5. ~ Begun(row, calls, q)
    BY <1>7, <2>4 DEF Begun
  <2>6. Begun(row', calls', q)
    <3> HIDE DEF l
    <3>1. row[q].status = "sending"
      BY <1>7, <2>4 DEF HeldIn
    <3>2. ASSUME NEW j \in calls', j.req = q, j.phase = "dispatching",
                 HeldIn(row', j)
          PROVE  FALSE
      <4>1. j \in calls /\ j # k
        BY <2>1, <2>3, <3>2
      <4>2. j.tok = k.tok
        BY <1>7, <2>1, <2>4, <3>2 DEF HeldIn
      <4> QED
        BY <1>1, <1>7, <3>2, <4>1, <4>2 DEF CallsOK
    <3> QED
      BY <2>1, <3>1, <3>2 DEF Begun
  <2>7. started[q] <= (IF q \in Immediate THEN 0 ELSE recoveries[q])
    <3>1. started[q] <= (IF q \in Immediate THEN 0 ELSE recoveries[q])
                        + (IF Begun(row, calls, q) THEN 1 ELSE 0)
      BY <1>1, <1>7 DEF Budget
    <3> QED
      BY <1>1, <2>5, <3>1
  <2> QED
    BY <1>1, <2>1, <2>6, <2>7
<1>8. ASSUME NEW q \in Requests, NEW k \in calls, AdapterAccepts(k), k.req # q
      PROVE  started'[q] = started[q]
  BY <1>1, <1>8 DEF AdapterAccepts
<1>9. ASSUME NEW q \in Requests
      PROVE  \/ started'[q] = started[q]
             \/ \E k \in calls : AdapterAccepts(k) /\ k.req = q
  BY <1>2, <1>8 DEF Updated
<1> QED
  BY <1>6, <1>7, <1>9 DEF Budget

\* An enqueue() that waits goes on waiting for its own call, or for its turn:
\* until it returns, its process does nothing else.
LEMMA NextKeepsWaits ==
    ASSUME BudgetInv, [Next]_vars
    PROVE  Waits'
<1>1. /\ QueueInv /\ TypeOK /\ CallsOK(row, calls) /\ Lives
      /\ Budget(row, calls, started, recoveries)
      /\ row \in [Requests -> Row]
      /\ started \in [Requests -> Nat]
      /\ waiting \in [Owners -> SUBSET Requests]
      /\ \A k \in calls : k \in Call /\ k.owner \in Owners /\ k.req \in Requests
  BY DEF BudgetInv, QueueInv, TableInv, TypeOK, Call
<1> SUFFICES ASSUME ~ Overlap, NEW o \in Owners, NEW q \in Requests,
                    q \in waiting'[o]
             PROVE  Served(o, q)'
  <2>1. TypeOK'
    BY <1>1, NextKeepsTypes
  <2>2. waiting' \in [Owners -> SUBSET Requests]
    BY <2>1 DEF TypeOK
  <2> QED
    BY <2>2 DEF Waits
<1>2. CASE q \notin waiting[o]
  <2>1. Enqueue(o, q)
    <3>1. ASSUME NEW p \in Owners, NEW r \in Requests, Enqueue(p, r)
          PROVE  Enqueue(o, q)
      <4>1. p = o /\ r = q
        BY <1>1, <1>2, <3>1 DEF Enqueue
      <4> QED
        BY <3>1, <4>1
    <3>2. ASSUME NEW p \in Owners, NEW r \in Requests, EnqueueReturns(p, r)
          PROVE  FALSE
      BY <1>1, <1>2, <3>2 DEF EnqueueReturns
    <3>3. ASSUME NEW p \in Owners, Crash(p)
          PROVE  FALSE
      BY <1>1, <1>2, <3>3 DEF Crash
    <3> QED
      BY <1>1, <1>2, <3>1, <3>2, <3>3, LifeSteps
  <2>2. q \in Immediate
    BY <1>2, <2>1 DEF Enqueue
  <2>3. ~ Begun(row, calls, q)
    BY <2>1 DEF Enqueue, Begun
  <2>4. started[q] <= 0
    <3>1. started[q] <= (IF q \in Immediate THEN 0 ELSE recoveries[q])
                        + (IF Begun(row, calls, q) THEN 1 ELSE 0)
      BY <1>1 DEF Budget
    <3> QED
      BY <2>2, <2>3, <3>1
  <2>5. started' = started
    BY <2>1 DEF Enqueue
  <2>6. started[q] = 0
    BY <1>1, <2>4
  <2> QED
    BY <2>5, <2>6 DEF Served
<1>3. CASE q \in waiting[o]
  <2>1. Served(o, q) /\ Alive(o)
    BY <1>1, <1>3 DEF BudgetInv, Waits, Lives
  <2>2. \A k \in calls : k.owner = o
    BY <1>1, <2>1 DEF Lives
  <2>3. CASE started[q] = 0
    <3>1. CASE started'[q] = 0
      BY <3>1 DEF Served
    <3>2. CASE started'[q] # 0
      <4>1. PICK S, L : Updated(S, L)
        BY <1>1, StepShape
      <4>2. PICK k \in calls : AdapterAccepts(k)
        BY <2>3, <3>2, <4>1 DEF Updated
      <4>3. k.req = q
        BY <1>1, <2>3, <3>2, <4>2 DEF AdapterAccepts
      <4> DEFINE l == [k EXCEPT !.phase = "accepted",
                                !.run = Session(k.owner, LaneOf[k.req])]
      <4>4. /\ l \in calls' /\ row' = row /\ Held(k)
        BY <4>2 DEF AdapterAccepts
      <4>5. /\ l.owner = o /\ l.req = q /\ l.tok = k.tok
            /\ l.phase = "accepted"
        BY <1>1, <2>2, <4>3 DEF Call
      <4> HIDE DEF l
      <4>6. PICK m : m = l
        OBVIOUS
      <4>7. m.owner = o /\ m.req = q /\ m.tok = k.tok /\ k.owner = o
        BY <2>2, <4>5, <4>6
      <4>8. Held(m)'
        BY <4>3, <4>4, <4>7 DEF Held
      <4> QED
        BY <4>4, <4>5, <4>6, <4>8 DEF Served
    <3> QED
      BY <3>1, <3>2
  <2>4. ASSUME started[q] # 0
        PROVE  /\ ~ Free(o) /\ row[q].status \in {"sending", "processing"}
    <3>1. ASSUME NEW k \in calls, k.owner = o, k.phase = "accepted", k.req = q,
                 Held(k)
          PROVE  ~ Free(o) /\ row[q].status = "sending"
      BY <3>1 DEF Free, Held
    <3>2. ASSUME row[q].status = "processing",
                 ~ \E k \in calls : /\ k.owner = o /\ k.req = q
                                    /\ k.phase # "late"
          PROVE  ~ Free(o)
      BY <1>3, <3>2 DEF Free, Awaits, InLane
    <3> QED
      BY <2>1, <2>4, <3>1, <3>2 DEF Served
  <2>5. ASSUME started[q] # 0, NEW r \in Requests, EnqueueReturns(o, r)
        PROVE  Served(o, q)'
    <3>1. r # q
      BY <1>1, <2>5 DEF EnqueueReturns
    <3>2. row'[q] = row[q] /\ calls' = calls /\ started' = started
      BY <1>1, <2>5, <3>1 DEF EnqueueReturns
    <3>3. CASE \E k \in calls : /\ k.owner = o /\ k.req = q
                                /\ k.phase = "accepted" /\ Held(k)
      <4>1. PICK k \in calls : /\ k.owner = o /\ k.req = q
                               /\ k.phase = "accepted" /\ Held(k)
        BY <3>3
      <4>2. Held(k)'
        BY <3>2, <4>1 DEF Held
      <4> QED
        BY <3>2, <4>1, <4>2 DEF Served
    <3> QED
      BY <2>1, <2>5, <3>2, <3>3 DEF Served
  <2>6. ASSUME started[q] # 0, NEW j \in calls, MarkProcessing(j)
        PROVE  Served(o, q)'
    <3> DEFINE S == IF Held(j) THEN [row EXCEPT ![j.req] = Processing(@, j.run)]
                               ELSE row
               cs == IF j.again THEN {LaneOf[j.req]} ELSE {}
    <3>1. /\ Kick(o, cs, S, calls \ {j})
          /\ j.owner = o /\ j.phase = "accepted" /\ started' = started
      BY <2>2, <2>6 DEF MarkProcessing, Unwind
    <3>2. S \in [Requests -> Row] /\ (j.req # q => S[q] = row[q])
      <4>1. Processing(row[j.req], j.run) \in Row
        BY <1>1, UpdatesKeepRows DEF Call
      <4> QED
        BY <1>1, <4>1
    <3>3. Held(j) /\ j.req = q => S[q].status = "processing"
      BY <1>1 DEF Processing, Row
    <3> HIDE DEF S, cs
    <3>4. /\ calls \ {j} \subseteq calls'
          /\ S[q].status # "queued" =>
                 /\ row'[q] = S[q]
                 /\ \A k \in calls' : k.req = q => k \in calls \ {j}
      <4> DEFINE K == calls \ {j}
      <4>1. Kick(o, cs, S, K) /\ S \in [Requests -> Row]
        BY <3>1, <3>2
      <4> HIDE DEF K
      <4>2. /\ K \subseteq calls'
            /\ \A r \in Requests :
                   S[r].status # "queued" =>
                       /\ row'[r] = S[r]
                       /\ \A k \in calls' : k.req = r => k \in K
        BY <4>1, KickLeaves
      <4> QED
        BY <4>2 DEF K
    <3>5. \A k \in calls : /\ k.owner = o /\ k.req = j.req /\ k.phase # "late"
                           => k = j
      BY <1>1, <3>1 DEF CallsOK
    <3>6. CASE \E k \in calls : /\ k.owner = o /\ k.req = q
                                /\ k.phase = "accepted" /\ Held(k)
      <4>1. PICK k \in calls : /\ k.owner = o /\ k.req = q
                               /\ k.phase = "accepted" /\ Held(k)
        BY <3>6
      <4>2. CASE k = j
        <5>1. S[q].status = "processing"
          BY <3>3, <4>1, <4>2
        <5>2. ~ \E i \in calls' : i.owner = o /\ i.req = q /\ i.phase # "late"
          BY <3>4, <3>5, <4>1, <4>2, <5>1
        <5> QED
          BY <3>4, <5>1, <5>2 DEF Served
      <4>3. CASE k # j
        <5>1. j.req # q
          BY <3>5, <4>1, <4>3
        <5>2. row'[q] = row[q] /\ k \in calls'
          BY <3>2, <3>4, <4>1, <4>3, <5>1 DEF Held
        <5>3. Held(k)'
          BY <4>1, <5>2 DEF Held
        <5> QED
          BY <4>1, <5>2, <5>3 DEF Served
      <4> QED
        BY <4>2, <4>3
    <3>7. CASE /\ row[q].status = "processing"
               /\ ~ \E k \in calls : k.owner = o /\ k.req = q /\ k.phase # "late"
      <4>1. j.req # q
        BY <3>1, <3>7
      <4>2. row'[q] = row[q] /\ \A k \in calls' : k.req = q => k \in calls
        BY <3>2, <3>4, <3>7, <4>1
      <4> QED
        BY <3>7, <4>2 DEF Served
    <3> QED
      BY <2>1, <2>6, <3>6, <3>7 DEF Served
  <2>7. ASSUME Crash(o)
        PROVE  FALSE
    BY <1>1, <2>7 DEF Crash
  <2>8. CASE UNCHANGED vars
    <3>1. UNCHANGED <<row, calls, started>>
      BY <2>8 DEF vars
    <3> QED
      BY <2>1, <3>1 DEF Served, Held
  <2> QED
    BY <1>1, <2>1, <2>3, <2>4, <2>5, <2>6, <2>7, <2>8, BusyOwner
<1> QED
  BY <1>2, <1>3

LEMMA InitBudget == Init => BudgetInv
<1> SUFFICES ASSUME Init
             PROVE  BudgetInv
  OBVIOUS
<1>1. QueueInv
  BY InitQueue
<1>2. Budget(row, calls, started, recoveries)
  BY DEF Init, Budget
<1>3. Lives /\ Waits
  BY DEF Init, Lives, Waits, Alive
<1> QED
  BY <1>1, <1>2, <1>3 DEF BudgetInv

LEMMA NextKeepsBudgetInv == BudgetInv /\ [Next]_vars => BudgetInv'
<1> SUFFICES ASSUME BudgetInv, [Next]_vars
             PROVE  BudgetInv'
  OBVIOUS
<1>1. QueueInv' /\ Lives'
  BY NextKeepsQueue, NextKeepsLives DEF BudgetInv
<1> QED
  BY <1>1, NextKeepsBudget, NextKeepsWaits DEF BudgetInv

\* The model runs a request again only after a recovery took its claim away.
THEOREM OnlyRecoveryRepeats == Spec => []RepeatsNeedRecovery
<1>1. BudgetInv => RepeatsNeedRecovery
  <2> SUFFICES ASSUME BudgetInv, NEW q \in Requests, Overlap => q \notin Immediate
               PROVE  started[q] <= 1 + recoveries[q]
    BY DEF RepeatsNeedRecovery
  <2>1. started[q] \in Nat /\ recoveries[q] \in Nat
    BY DEF BudgetInv, QueueInv, TableInv, TypeOK
  <2>2. started[q] <= (IF q \in Immediate THEN 0 ELSE recoveries[q])
                      + (IF Begun(row, calls, q) THEN 1 ELSE 0)
    BY DEF BudgetInv, Budget
  <2> QED
    BY <2>1, <2>2
<1> QED
  BY <1>1, InitBudget, NextKeepsBudgetInv, PTL DEF Spec

\* With one server process at a time a scheduler turn starts at most once.
THEOREM ImmediateRunsOnce == Spec => []ImmediateAtMostOnce
<1>1. BudgetInv => ImmediateAtMostOnce
  <2> SUFFICES ASSUME BudgetInv, ~ Overlap, NEW q \in Immediate
               PROVE  started[q] <= 1
    BY DEF ImmediateAtMostOnce
  <2>1. q \in Requests
    BY QueueAssumption
  <2>2. started[q] \in Nat
    BY <2>1 DEF BudgetInv, QueueInv, TableInv, TypeOK
  <2>3. started[q] <= (IF q \in Immediate THEN 0 ELSE recoveries[q])
                      + (IF Begun(row, calls, q) THEN 1 ELSE 0)
    BY <2>1 DEF BudgetInv, Budget
  <2> QED
    BY <2>2, <2>3
<1> QED
  BY <1>1, InitBudget, NextKeepsBudgetInv, PTL DEF Spec
=============================================================================

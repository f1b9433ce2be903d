---------------------- MODULE OperatorScheduleProofs ----------------------
(***************************************************************************)
(* Theorems about OperatorSchedule: its types, that an occurrence starts   *)
(* one turn, that an Operator has one active invocation, that nothing is   *)
(* superseded without a replacement, and that a stored outcome is kept.    *)
(***************************************************************************)
EXTENDS OperatorSchedule, Integers, TLAPS

-----------------------------------------------------------------------------
(* Arithmetic of the recurrence rules                                      *)

\* A remainder does not exceed what is divided.
LEMMA Remainder ==
    ASSUME NEW x \in Nat, NEW n \in Nat \ {0}
    PROVE  x % n \in Nat /\ x % n <= x
<1>1. x = n * (x \div n) + (x % n) OBVIOUS
<1>2. x \div n \in Nat /\ x % n \in Nat OBVIOUS
<1>3. n * (x \div n) \in Nat BY <1>2
<1> QED BY <1>1, <1>2, <1>3

\* The next fire time is a time, or NULL.
LEMMA FireType ==
    ASSUME NEW s \in Schedules, NEW t \in Nat
    PROVE  Fire(s, t) \in Nat
<1> DEFINE n == Rule[s].step
<1>1. n \in Nat \ {0} /\ Rule[s].kind \in {"once", "interval", "daily"} /\ NoTime \in Nat
  BY ScheduleAssumption
<1>2. t \div n \in Nat BY <1>1
<1>3. ((t \div n) + 1) * n \in Nat BY <1>1, <1>2
<1> QED BY <1>1, <1>3 DEF Fire

\* The occurrence a due schedule is materialised for is a time.
LEMMA LatestType ==
    ASSUME NEW s \in Schedules, TypeOK, sched[s].next <= now
    PROVE  Latest(s) \in Nat
<1>1. sched[s].next \in Nat /\ now \in Nat BY DEF TypeOK, Schedule
<1>2. Behind(s) \in Nat BY <1>1 DEF Behind
<1>3. Rule[s].step \in Nat \ {0} BY ScheduleAssumption
<1>4. Behind(s) <= now BY <1>1 DEF Behind
<1>5. Behind(s) % Rule[s].step \in Nat /\ Behind(s) % Rule[s].step <= Behind(s)
  BY <1>2, <1>3, Remainder
<1>6. now - (Behind(s) % Rule[s].step) \in Nat BY <1>1, <1>2, <1>4, <1>5
<1> QED BY <1>1, <1>6 DEF Latest

-----------------------------------------------------------------------------
(* Types                                                                   *)

\* Every UPDATE of an invocation leaves an invocation.
LEMMA RowTypes ==
    ASSUME NEW r \in Invocation, TypeOK
    PROVE  /\ \A st \in Active \cup Terminal, why \in Reasons :
                 Settled(r, st, why) \in Invocation
           /\ \A why \in Reasons : Cancelled(r, why) \in Invocation
           /\ \A why \in Reasons : Released(r, why) \in Invocation
           /\ Handed(r) \in Invocation
           /\ Unknown(r) \in Invocation
           /\ Taken(r) \in Invocation
           /\ Running(r) \in Invocation
<1>1. now \in Nat /\ now + 1 \in Nat BY DEF TypeOK
<1>5. Taken(r) \in Invocation
  <2>1. r.attempts + 1 \in Nat BY DEF Invocation
  <2> QED BY <2>1 DEF Taken, Invocation, Active, Reasons
<1>6. Running(r) \in Invocation BY <1>1 DEF Running, Invocation, Active
<1>2. \A st \in Active \cup Terminal, why \in Reasons :
          Settled(r, st, why) \in Invocation
  BY DEF Settled, Invocation
<1>3. \A why \in Reasons : Released(r, why) \in Invocation
  BY <1>1 DEF Released, Invocation, Active
<1>4. Handed(r) \in Invocation
  BY DEF Handed, Invocation, Active, Reasons
<1> QED BY <1>2, <1>3, <1>4, <1>5, <1>6 DEF Cancelled, Unknown, Terminal, Reasons

\* A fresh row is an invocation.
LEMMA NewRowType ==
    ASSUME NEW s \in Schedules, NEW t \in Nat,
           NEW src \in {"scheduled", "manual_run_now"}, TypeOK
    PROVE  Unused \in Invocation /\ Inserted(s, src, t) \in Invocation
<1>1. (CHOOSE x \in Schedules : TRUE) \in Schedules BY ScheduleAssumption
<1>2. Unused \in Invocation BY <1>1 DEF Unused, Invocation, Active, Terminal, Reasons
<1>3. sched[s].revision \in Nat /\ now \in Nat BY DEF TypeOK, Schedule
<1> QED BY <1>2, <1>3 DEF Inserted, Invocation, Active, Terminal

\* One UPDATE of several rows leaves a table.
LEMMA TableType ==
    ASSUME NEW C, NEW st \in Active \cup Terminal, NEW why \in Reasons, TypeOK
    PROVE  SettleAll(C, st, why) \in [Ids -> Invocation]
BY RowTypes DEF SettleAll, TypeOK

\* Counting a failure or a success, or retiring schedules, leaves schedules.
LEMMA ScheduleTypes ==
    ASSUME NEW s \in Schedules, TypeOK
    PROVE  /\ Blamed(s) \in [Schedules -> Schedule]
           /\ Praised(s) \in [Schedules -> Schedule]
           /\ \A S : Retired(S) \in [Schedules -> Schedule]
<1>1. NoTime \in Nat /\ MaxFailures \in Nat BY ScheduleAssumption
<1>2. \A x \in Schedules : sched[x] \in Schedule BY DEF TypeOK
<1>3. sched[s].failures + 1 \in Nat BY <1>2 DEF Schedule
<1>4. Blamed(s) \in [Schedules -> Schedule]
  <2> DEFINE n == sched[s].failures + 1
             new == [sched[s] EXCEPT
                 !.failures = n,
                 !.enabled = IF n >= MaxFailures THEN FALSE ELSE @,
                 !.next = IF n >= MaxFailures THEN NoTime ELSE @]
  <2>1. CASE n >= MaxFailures
    <3>1. new \in Schedule BY <1>1, <1>2, <1>3, <2>1 DEF Schedule
    <3> QED BY <2>1, <3>1 DEF Blamed, TypeOK
  <2>2. CASE ~ (n >= MaxFailures)
    <3>1. new \in Schedule BY <1>1, <1>2, <1>3, <2>2 DEF Schedule
    <3> QED BY <2>2, <3>1 DEF Blamed, TypeOK
  <2> QED BY <2>1, <2>2
<1>5. Praised(s) \in [Schedules -> Schedule]
  BY DEF Praised, TypeOK, Schedule
<1>6. ASSUME NEW S PROVE Retired(S) \in [Schedules -> Schedule]
  <2>1. \A x \in Schedules : sched[x].revision + 1 \in Nat BY <1>2 DEF Schedule
  <2> QED BY <1>1, <1>2, <2>1 DEF Retired, Schedule
<1> QED BY <1>4, <1>5, <1>6

\* The user's operations keep the types.
LEMMA UserKeepsTypes == TypeOK /\ UserStep => TypeOK'
<1> SUFFICES ASSUME TypeOK, UserStep PROVE TypeOK'
  OBVIOUS
<1> USE DEF process, outside, counters
<1>1. ASSUME NEW s \in Schedules, NEW enable \in BOOLEAN, Update(s, enable)
      PROVE  TypeOK'
  <2>1. Fire(s, now) \in Nat /\ NoTime \in Nat
    BY FireType, ScheduleAssumption DEF TypeOK
  <2>2. sched' \in [Schedules -> Schedule]
    <3>1. sched[s].revision + 1 \in Nat BY DEF TypeOK, Schedule
    <3>2. Edited(s, enable) \in Schedule
      BY <2>1, <3>1 DEF Edited, TypeOK, Schedule
    <3>3. sched' = [sched EXCEPT ![s] = Edited(s, enable)]
      BY <1>1 DEF Update
    <3> QED BY <3>2, <3>3 DEF TypeOK
  <2>3. inv' \in [Ids -> Invocation]
    BY <1>1, TableType DEF Update, TypeOK, Terminal, Reasons
  <2>4. edits' = edits + 1 /\ UNCHANGED <<now, lastId, process, outside, manual, crashes>>
    BY <1>1 DEF Update
  <2> QED BY <2>2, <2>3, <2>4 DEF TypeOK
<1>2. ASSUME NEW s \in Schedules, Archive(s)
      PROVE  TypeOK'
  <2>1. inv' \in [Ids -> Invocation]
    BY <1>2, TableType DEF Archive, Terminal, Reasons
  <2>2. sched' \in [Schedules -> Schedule] BY <1>2, ScheduleTypes DEF Archive
  <2>3. edits' = edits + 1 /\ UNCHANGED <<now, lastId, process, outside, manual, crashes>>
    BY <1>2 DEF Archive
  <2> QED BY <2>1, <2>2, <2>3 DEF TypeOK
<1>3. ASSUME NEW s \in Schedules, RunNow(s)
      PROVE  TypeOK'
  <2>1. lastId + 1 \in Ids BY <1>3, ScheduleAssumption DEF RunNow, TypeOK, Ids
  <2>2. Inserted(s, "manual_run_now", now) \in Invocation
    BY NewRowType DEF TypeOK
  <2> QED BY <1>3, <2>1, <2>2 DEF RunNow, TypeOK, Ids
<1>4. ASSUME NEW o \in Operators, DeleteProject(o)
      PROVE  TypeOK'
  <2>1. inv' \in [Ids -> Invocation]
    BY <1>4, TableType DEF DeleteProject, Terminal, Reasons
  <2>2. \E s \in Schedules : TRUE BY ScheduleAssumption
  <2>3. sched' \in [Schedules -> Schedule]
    BY <1>4, <2>2, ScheduleTypes DEF DeleteProject
  <2> QED BY <1>4, <2>1, <2>3 DEF DeleteProject, TypeOK
<1> QED BY <1>1, <1>2, <1>3, <1>4 DEF UserStep

\* The completion of a running row keeps the types.
LEMMA CompleteKeepsTypes ==
    ASSUME TypeOK, NEW i \in Ids, Complete(i)
    PROVE  inv' \in [Ids -> Invocation] /\ sched' \in [Schedules -> Schedule]
<1>1. inv[i] \in Invocation /\ inv[i].sched \in Schedules
  BY DEF TypeOK, Invocation
<1>2. \A st \in {"completed", "failed"} : Settled(inv[i], st, "") \in Invocation
  BY <1>1, RowTypes DEF Terminal, Reasons
<1>3. inv' \in [Ids -> Invocation] BY <1>2 DEF Complete, TypeOK
<1> QED BY <1>1, <1>3, ScheduleTypes DEF Complete

\* The synchronous part of a tick keeps the types.
LEMMA TickKeepsTypes == TypeOK /\ (Tick \/ TickStep) => TypeOK'
<1> SUFFICES ASSUME TypeOK, Tick \/ TickStep PROVE TypeOK'
  OBVIOUS
<1> USE DEF process, outside, counters
<1>1. CASE Tick BY <1>1 DEF Tick, TypeOK
<1>2. CASE Reconcile
  <2>1. CASE Provable # {}
    <3>1. PICK i \in Provable : Complete(i) BY <1>2, <2>1 DEF Reconcile
    <3>2. i \in Ids BY DEF Provable
    <3> QED BY <1>2, <2>1, <3>1, <3>2, CompleteKeepsTypes DEF Reconcile, TypeOK
  <2>2. CASE Provable = {}
    BY <1>2, <2>2 DEF Reconcile, TypeOK
  <2> QED BY <2>1, <2>2
<1>3. CASE Sweep
  <2>1. inv' \in [Ids -> Invocation]
    BY <1>3, TableType DEF Sweep, Terminal, Reasons
  <2> QED BY <1>3, <2>1 DEF Sweep, TypeOK
<1>4. CASE Backstop
  <2>1. inv' \in [Ids -> Invocation]
    BY <1>4, TableType DEF Backstop, Terminal, Reasons
  <2> QED BY <1>4, <2>1 DEF Backstop, TypeOK
<1>5. CASE Expire
  <2>1. inv' \in [Ids -> Invocation]
    BY <1>5, TableType DEF Expire, Terminal, Reasons
  <2>2. Due \subseteq Schedules BY DEF Due
  <2> QED BY <1>5, <2>1, <2>2 DEF Expire, TypeOK
<1>6. CASE OpenLanes
  BY <1>6, ScheduleAssumption DEF OpenLanes, TypeOK
<1>7. CASE LanesEnd BY <1>7 DEF LanesEnd, TypeOK
<1>8. ASSUME NEW s \in Schedules, Materialize(s)
      PROVE  TypeOK'
  <2> DEFINE t == Latest(s)
             p == Plan(s, t)
  <2>1. t \in Nat BY <1>8, LatestType DEF Materialize, Due
  <2>2. lastId + 1 \in Ids
    <3>1. lastId < MaxIds BY <1>8 DEF Materialize
    <3> QED BY <3>1, ScheduleAssumption DEF TypeOK, Ids
  <2>3. Inserted(s, "scheduled", t) \in Invocation BY <2>1, NewRowType
  <2>4. p.reason \in Reasons BY DEF Plan, Misses, Reasons, NeverRun
  <2>5. Cancelled(Inserted(s, "scheduled", t), p.reason) \in Invocation
    BY <2>3, <2>4, RowTypes
  <2>6. SettleAll(p.old, "cancelled", "superseded") \in [Ids -> Invocation]
    BY TableType DEF Terminal, Reasons
  <2>7. inv' \in [Ids -> Invocation] /\ lastId' \in 0 .. MaxIds
    <3>1. CASE OnRecord(s, t) BY <1>8, <3>1 DEF Materialize, TypeOK
    <3>2. CASE ~ OnRecord(s, t)
      <4>1. inv' = [SettleAll(p.old, "cancelled", "superseded") EXCEPT
                      ![lastId + 1] = Recorded(s, t, p.reason)]
        BY <1>8, <3>2 DEF Materialize
      <4>2. lastId' = lastId + 1 BY <1>8, <3>2 DEF Materialize
      <4>3. Recorded(s, t, p.reason) \in Invocation BY <2>3, <2>5 DEF Recorded
      <4> HIDE DEF t, p
      <4> QED BY <4>1, <4>2, <4>3, <2>2, <2>6 DEF Ids
    <3> QED BY <3>1, <3>2
  <2>8. sched' \in [Schedules -> Schedule]
    <3>1. Rule[s].step \in Nat /\ NoTime \in Nat BY ScheduleAssumption
    <3>2. t + Rule[s].step \in Nat BY <2>1, <3>1
    <3> HIDE DEF t
    <3>3. MovedPast(s, t) \in Schedule BY ZenonT(60), <3>1, <3>2 DEF MovedPast, TypeOK, Schedule
    <3>4. sched' = sched \/ sched' = [sched EXCEPT ![s] = MovedPast(s, t)]
      BY <1>8 DEF Materialize, t
    <3> QED BY <3>3, <3>4 DEF TypeOK
  <2>9. /\ todo' = todo \ {s}
        /\ UNCHANGED <<now, pc, booting, inflight, lanes, flights, outside, counters>>
    BY <1>8 DEF Materialize
  <2> QED BY <2>7, <2>8, <2>9 DEF TypeOK
<1>9. ASSUME NEW i \in Ids, Claim(i)
      PROVE  TypeOK'
  <2>1. Taken(inv[i]) \in Invocation BY RowTypes DEF TypeOK
  <2> QED BY <1>9, <2>1 DEF Claim, TypeOK
<1>10. ASSUME NEW i \in Ids, NEW why \in {"schedule_changed", "operator_disabled"},
              DeliverCancelled(i, why)
       PROVE  TypeOK'
  <2>1. Cancelled(inv[i], why) \in Invocation BY RowTypes DEF TypeOK, Reasons
  <2> QED BY <1>10, <2>1 DEF DeliverCancelled, TypeOK
<1>11. ASSUME NEW i \in Ids, NEW ready \in BOOLEAN, Deliver(i, ready)
       PROVE  TypeOK'
  <2>1. Handed(inv[i]) \in Invocation
        /\ Released(inv[i], "top_unavailable") \in Invocation
    BY RowTypes DEF TypeOK, Reasons
  <2>2. [id |-> i, token |-> inv[i].token, open |-> TRUE, up |-> FALSE] \in Flight
    BY DEF Flight, TypeOK, Invocation
  <2>3. lanes - 1 \in Nat BY <1>11 DEF Deliver, TypeOK
  <2> QED BY <1>11, <2>1, <2>2, <2>3 DEF Deliver, TypeOK
<1> QED BY <1>1, <1>2, <1>3, <1>4, <1>5, <1>6, <1>7, <1>8, <1>9, <1>10, <1>11
        DEF TickStep

\* The answers, the turns, crashes and the clock keep the types.
LEMMA EventsKeepTypes ==
    ASSUME TypeOK,
           \/ \E f \in flights : TurnStarts(f) \/ Answer(f)
           \/ \E i \in Ids : TurnOver(i) \/ RunEnds(i)
           \/ Crash \/ Boot \/ Advance
    PROVE  TypeOK'
<1> USE DEF process, outside, counters
<1>1. ASSUME NEW f \in flights, TurnStarts(f)
      PROVE  TypeOK'
  <2>1. f.id \in Ids /\ [f EXCEPT !.up = TRUE] \in Flight BY DEF TypeOK, Flight
  <2>2. started[f.id] + 1 \in Nat BY <2>1 DEF TypeOK
  <2> QED BY <1>1, <2>1, <2>2 DEF TurnStarts, TypeOK
<1>2. ASSUME NEW f \in flights, Answer(f)
      PROVE  TypeOK'
  <2>1. /\ f.id \in Ids /\ [f EXCEPT !.open = FALSE] \in Flight
        /\ inv[f.id] \in Invocation /\ inv[f.id].sched \in Schedules
    BY DEF TypeOK, Flight, Invocation
  <2>2. /\ Running(inv[f.id]) \in Invocation
        /\ Released(inv[f.id], "operator_busy") \in Invocation
        /\ Settled(inv[f.id], "failed", "") \in Invocation
        /\ Unknown(inv[f.id]) \in Invocation
    BY <2>1, RowTypes DEF Terminal, Reasons
  <2>3. ASSUME Answered(f),
               inv' \in [Ids -> Invocation], sched' \in [Schedules -> Schedule],
               flights' \subseteq Flight
        PROVE  TypeOK'
    BY <2>3 DEF Answered, TypeOK
  <2>4. CASE Accepted(f)
    BY <2>1, <2>2, <2>3, <2>4 DEF Accepted, TypeOK
  <2>5. CASE Refused(f)
    BY <2>1, <2>2, <2>3, <2>5 DEF Refused, TypeOK
  <2>6. CASE Rejected(f)
    <3>1. sched' \in [Schedules -> Schedule]
      BY <2>1, <2>6, ScheduleTypes DEF Rejected, TypeOK
    <3> QED BY <2>1, <2>2, <2>3, <2>6, <3>1 DEF Rejected, TypeOK
  <2>7. CASE Unsure(f)
    BY <2>1, <2>2, <2>3, <2>7 DEF Unsure, TypeOK
  <2> QED BY <1>2, <2>4, <2>5, <2>6, <2>7 DEF Answer
<1>3. ASSUME NEW i \in Ids, NEW ok \in BOOLEAN, NEW heard \in BOOLEAN,
             TurnEnds(i, ok, heard)
      PROVE  TypeOK'
  <2>1. inv[i] \in Invocation /\ inv[i].sched \in Schedules
    BY DEF TypeOK, Invocation
  <2>2. /\ Settled(inv[i], "completed", "") \in Invocation
        /\ Settled(inv[i], "failed", "") \in Invocation
    BY <2>1, RowTypes DEF Terminal, Reasons
  <2>3. inv' \in [Ids -> Invocation] BY <1>3, <2>2 DEF TurnEnds, TypeOK
  <2>4. sched' \in [Schedules -> Schedule]
    BY <1>3, <2>1, ScheduleTypes DEF TurnEnds, TypeOK
  <2> QED BY <1>3, <2>3, <2>4 DEF TurnEnds, TypeOK
<1>4. ASSUME NEW i \in Ids, TurnDies(i)
      PROVE  TypeOK'
  BY <1>4 DEF TurnDies, TypeOK
<1>5. ASSUME NEW i \in Ids, RunEnds(i)
      PROVE  TypeOK'
  BY <1>5 DEF RunEnds, TypeOK
<1>6. CASE Crash
  <2>1. {[f EXCEPT !.open = FALSE] : f \in flights} \subseteq Flight
    BY DEF TypeOK, Flight
  <2>2. flights' \subseteq Flight BY <1>6, <2>1 DEF Crash
  <2>3. turn' \in [Ids -> {"none", "running", "done", "failed", "lost"}]
    BY <1>6 DEF Crash, TypeOK
  <2>4. /\ pc' = "down" /\ booting' \in BOOLEAN /\ inflight' \in BOOLEAN
        /\ todo' = {} /\ lanes' = 0 /\ crashes' = crashes + 1
        /\ UNCHANGED <<now, sched, inv, lastId, ended, started, edits, manual>>
    BY <1>6 DEF Crash
  <2> QED BY <2>2, <2>3, <2>4 DEF TypeOK
<1>7. CASE Boot
  <2>1. \A i \in Ids : [Released(inv[i], "recovered_claim") EXCEPT !.after = now]
                         \in Invocation
    <3>1. \A i \in Ids : Released(inv[i], "recovered_claim") \in Invocation
      BY RowTypes DEF TypeOK, Reasons
    <3> QED BY SMTT(30), <3>1 DEF TypeOK, Invocation
  <2>2. inv' \in [Ids -> Invocation] BY <1>7, <2>1 DEF Boot, TypeOK
  <2> QED BY <1>7, <2>2 DEF Boot, TypeOK
<1>8. CASE Advance BY <1>8 DEF Advance, TypeOK
<1> QED BY <1>1, <1>2, <1>3, <1>4, <1>5, <1>6, <1>7, <1>8 DEF TurnOver

\* The initial tables are well formed.
LEMMA InitTypes == Init => TypeOK
<1> SUFFICES ASSUME Init PROVE TypeOK
  OBVIOUS
<1>1. \A s \in Schedules : Fire(s, 0) \in Nat BY FireType
<1>2. sched \in [Schedules -> Schedule] BY <1>1 DEF Init, Schedule
<1>3. Unused \in Invocation
  <2>1. (CHOOSE x \in Schedules : TRUE) \in Schedules BY ScheduleAssumption
  <2> QED BY <2>1 DEF Unused, Invocation, Reasons
<1>4. MaxIds \in Nat BY ScheduleAssumption
<1>5. inv \in [Ids -> Invocation] BY <1>3 DEF Init
<1>6. /\ now = 0 /\ lastId = 0 /\ lanes = 0 /\ pc = "down" /\ booting \in BOOLEAN
      /\ inflight \in BOOLEAN /\ todo = {} /\ flights = {}
      /\ edits = 0 /\ manual = 0 /\ crashes = 0
  BY DEF Init
<1>7. /\ turn \in [Ids -> {"none", "running", "done", "failed", "lost"}]
      /\ ended \in [Ids -> BOOLEAN] /\ started \in [Ids -> Nat]
  BY DEF Init
<1> QED BY <1>2, <1>4, <1>5, <1>6, <1>7 DEF TypeOK

\* No step breaks the types.
LEMMA StepTypes == TypeOK /\ [Next]_vars => TypeOK'
<1> SUFFICES ASSUME TypeOK, [Next]_vars PROVE TypeOK'
  OBVIOUS
<1>1. CASE UNCHANGED vars
  BY <1>1 DEF vars, TypeOK
<1>2. CASE Next
  BY <1>2, UserKeepsTypes, TickKeepsTypes, EventsKeepTypes DEF Next
<1> QED BY <1>1, <1>2

\* The tables and the process stay well formed, for every set of schedules and
\* Operators and every value of the bounds.
THEOREM TypeCorrect == Spec => []TypeOK
BY InitTypes, StepTypes, PTL DEF Spec

-----------------------------------------------------------------------------
(* An occurrence starts one turn                                           *)

Early == {"none", "pending", "claimed"}

\* Before it is handed over an invocation has neither a turn nor a delivery;
\* afterwards it has one delivery at most, whose turn has started or not.
TurnInv ==
    /\ \A i \in Ids : i > lastId => inv[i].status = "none"
    /\ \A i \in Ids : inv[i].status \in Early =>
            started[i] = 0 /\ \A f \in flights : f.id # i
    /\ \A f \in flights : ~ f.up => started[f.id] = 0
    /\ \A f, g \in flights : f.id = g.id => f = g
    /\ \A i \in Ids : started[i] \in {0, 1}

\* A step that hands nothing over, starts nothing, and puts no row back among
\* the early ones but new or early ones.
TurnsKept ==
    /\ UNCHANGED <<flights, started>>
    /\ lastId' \in 0 .. MaxIds /\ lastId' >= lastId
    /\ \A i \in Ids : /\ inv'[i].status \in Early => inv[i].status \in Early
                      /\ i > lastId' => inv'[i].status = inv[i].status

LEMMA KeepingTurns ==
    ASSUME TypeOK, TurnInv, TurnsKept
    PROVE  TurnInv'
<1>1. \A i \in Ids : i > lastId' => i > lastId
  BY DEF TurnsKept, Ids, TypeOK
<1> QED BY <1>1 DEF TurnInv, TurnsKept

\* The status of a row after the updates of the tick and of the user.
LEMMA SettledStatus ==
    ASSUME TypeOK, NEW C, NEW st, NEW why, NEW i \in Ids
    PROVE  SettleAll(C, st, why)[i].status = IF i \in C THEN st ELSE inv[i].status
BY DEF SettleAll, Settled, TypeOK, Invocation

\* Settling rows starts no turn.
LEMMA SettlingKeepsTurns ==
    ASSUME TypeOK, TurnInv, NEW C, NEW st, NEW why,
           st \notin Early, \A i \in C : i \in Ids => inv[i].status # "none",
           inv' = SettleAll(C, st, why), UNCHANGED <<flights, started, lastId>>
    PROVE  TurnsKept
<1>1. \A i \in Ids : inv'[i].status = IF i \in C THEN st ELSE inv[i].status
  BY SettledStatus
<1>2. \A i \in Ids : i > lastId => i \notin C BY DEF TurnInv
<1>3. lastId' \in 0 .. MaxIds /\ lastId' >= lastId BY DEF TypeOK
<1>4. ASSUME NEW i \in Ids
      PROVE  /\ inv'[i].status \in Early => inv[i].status \in Early
             /\ i > lastId' => inv'[i].status = inv[i].status
  BY <1>1, <1>2
<1> QED BY <1>3, <1>4 DEF TurnsKept

\* The user's operations start no turn.
LEMMA UserKeepsTurns == TypeOK /\ TurnInv /\ UserStep => TurnsKept
<1> SUFFICES ASSUME TypeOK, TurnInv, UserStep PROVE TurnsKept
  OBVIOUS
<1> USE DEF process, outside
<1>0. "cancelled" \notin Early BY DEF Early
<1>1. ASSUME NEW s \in Schedules, NEW enable \in BOOLEAN, Update(s, enable)
      PROVE  TurnsKept
  <2>1. \/ inv' = inv
        \/ inv' = SettleAll(Waiting({s}), "cancelled", "schedule_disabled")
    BY <1>1 DEF Update
  <2>2. UNCHANGED <<flights, started, lastId>> BY <1>1 DEF Update
  <2>3. CASE inv' = inv BY <2>2, <2>3 DEF TurnsKept, TypeOK
  <2>4. CASE inv' = SettleAll(Waiting({s}), "cancelled", "schedule_disabled")
    <3>1. \A i \in Waiting({s}) : inv[i].status # "none" BY DEF Waiting
    <3> QED BY <1>0, <2>2, <2>4, <3>1, SettlingKeepsTurns
  <2> QED BY <2>1, <2>3, <2>4
<1>2. ASSUME NEW s \in Schedules, Archive(s)
      PROVE  TurnsKept
  <2>1. inv' = SettleAll(Waiting({s}), "cancelled", "schedule_disabled")
        /\ UNCHANGED <<flights, started, lastId>>
    BY <1>2 DEF Archive
  <2>2. \A i \in Waiting({s}) : inv[i].status # "none" BY DEF Waiting
  <2> QED BY <1>0, <2>1, <2>2, SettlingKeepsTurns
<1>3. ASSUME NEW s \in Schedules, RunNow(s)
      PROVE  TurnsKept
  <2>1. lastId + 1 \in Ids /\ inv[lastId + 1].status = "none"
    <3>1. lastId < MaxIds BY <1>3 DEF RunNow
    <3>2. lastId + 1 \in Ids BY <3>1, ScheduleAssumption DEF TypeOK, Ids
    <3> QED BY <3>2 DEF TurnInv, TypeOK
  <2>2. /\ inv' = [inv EXCEPT ![lastId + 1] = Inserted(s, "manual_run_now", now)]
        /\ UNCHANGED <<flights, started>> /\ lastId' = lastId + 1
    BY <1>3 DEF RunNow
  <2>3. \A i \in Ids : inv'[i] = IF i = lastId + 1
                                 THEN Inserted(s, "manual_run_now", now) ELSE inv[i]
    BY <2>2 DEF TypeOK
  <2> QED BY <2>1, <2>2, <2>3 DEF TurnsKept, Early, TypeOK, Ids
<1>4. ASSUME NEW o \in Operators, DeleteProject(o)
      PROVE  TurnsKept
  <2>1. inv' = SettleAll(ActiveOf(inv, o), "cancelled", "project_deleted")
        /\ UNCHANGED <<flights, started, lastId>>
    BY <1>4 DEF DeleteProject
  <2>2. \A i \in ActiveOf(inv, o) : inv[i].status # "none" BY DEF ActiveOf, Active
  <2> QED BY <1>0, <2>1, <2>2, SettlingKeepsTurns
<1> QED BY <1>1, <1>2, <1>3, <1>4 DEF UserStep

\* The synchronous part of a tick starts no turn, and hands over early rows only.
LEMMA TickKeepsTurns == TypeOK /\ TurnInv /\ (Tick \/ TickStep) => TurnInv'
<1> SUFFICES ASSUME TypeOK, TurnInv, Tick \/ TickStep PROVE TurnInv'
  OBVIOUS
<1> USE DEF process, outside
<1>0. "cancelled" \notin Early /\ "uncertain" \notin Early
      /\ "completed" \notin Early /\ "failed" \notin Early
  BY DEF Early
<1>a. ASSUME inv' = inv, UNCHANGED <<flights, started, lastId>>
      PROVE  TurnInv'
  BY <1>a DEF TurnInv
<1>b. ASSUME NEW i \in Ids, NEW r, inv' = [inv EXCEPT ![i] = r],
             inv[i].status # "none", r.status \in Early => inv[i].status \in Early,
             UNCHANGED <<flights, started, lastId>>
      PROVE  TurnInv'
  <2>1. \A j \in Ids : inv'[j] = IF j = i THEN r ELSE inv[j] BY <1>b DEF TypeOK
  <2>2. lastId' \in 0 .. MaxIds /\ lastId' >= lastId BY <1>b DEF TypeOK
  <2>3. ASSUME NEW j \in Ids
        PROVE  /\ inv'[j].status \in Early => inv[j].status \in Early
               /\ j > lastId' => inv'[j].status = inv[j].status
    BY <1>b, <2>1 DEF TurnInv
  <2> QED BY <1>b, <2>2, <2>3, KeepingTurns DEF TurnsKept
<1>1. CASE Tick BY <1>1, <1>a DEF Tick
<1>2. CASE Reconcile
  <2>1. CASE Provable # {}
    <3>1. PICK i \in Provable : Complete(i) BY <1>2, <2>1 DEF Reconcile
    <3>2. i \in Ids /\ inv[i].status # "none" BY DEF Provable
    <3>3. PICK st \in {"completed", "failed"} :
            inv' = [inv EXCEPT ![i] = Settled(inv[i], st, "")]
      BY <3>1 DEF Complete
    <3>4. Settled(inv[i], st, "").status = st BY <3>2 DEF Settled, TypeOK, Invocation
    <3>5. UNCHANGED <<flights, started, lastId>> BY <1>2 DEF Reconcile
    <3> QED BY <1>0, <1>b, <3>2, <3>3, <3>4, <3>5
  <2>2. CASE Provable = {}
    BY <1>2, <1>a, <2>2 DEF Reconcile
  <2> QED BY <2>1, <2>2
<1>3. CASE Sweep
  <2>1. PICK C \in SUBSET Ids : /\ \A i \in C : inv[i].status # "none"
                               /\ inv' = SettleAll(C, "uncertain", "manager_run_terminal")
    <3> DEFINE lost == {i \in Ids : /\ inv[i].status = "running"
                                   /\ inv[i].begun + Stale <= now
                                   /\ ended[i]}
    <3>1. \A i \in lost : inv[i].status # "none" OBVIOUS
    <3>2. inv' = SettleAll(lost, "uncertain", "manager_run_terminal") BY <1>3 DEF Sweep
    <3> HIDE DEF lost
    <3>3. lost \in SUBSET Ids BY DEF lost
    <3> QED BY <3>1, <3>2, <3>3
  <2>2. UNCHANGED <<flights, started, lastId>> BY <1>3 DEF Sweep
  <2> QED BY <1>0, <2>1, <2>2, SettlingKeepsTurns, KeepingTurns
<1>4. CASE Backstop
  <2>1. \A i \in Unknowable : inv[i].status # "none" BY DEF Unknowable
  <2>2. inv' = SettleAll(Unknowable, "uncertain", "restart_delivery_uncertain")
        /\ UNCHANGED <<flights, started, lastId>>
    BY <1>4 DEF Backstop
  <2> QED BY <1>0, <2>1, <2>2, SettlingKeepsTurns, KeepingTurns
<1>5. CASE Expire
  <2>1. \A i \in Overdue : inv[i].status # "none" BY DEF Overdue
  <2>2. inv' = SettleAll(Overdue, "cancelled", "expired")
        /\ UNCHANGED <<flights, started, lastId>>
    BY <1>5 DEF Expire
  <2> QED BY <1>0, <2>1, <2>2, SettlingKeepsTurns, KeepingTurns
<1>6. CASE OpenLanes BY <1>6, <1>a DEF OpenLanes
<1>7. CASE LanesEnd BY <1>7, <1>a DEF LanesEnd
<1>8. ASSUME NEW s \in Schedules, Materialize(s)
      PROVE  TurnInv'
  <2> DEFINE t == Latest(s)
             p == Plan(s, t)
             T == SettleAll(p.old, "cancelled", "superseded")
  <2>1. UNCHANGED <<flights, started>> BY <1>8 DEF Materialize
  <2>2. CASE OnRecord(s, t)
    BY <1>8, <1>a, <2>2 DEF Materialize
  <2>3. CASE ~ OnRecord(s, t)
    <3>1. lastId' = lastId + 1 /\ lastId < MaxIds
          /\ inv' = [T EXCEPT ![lastId + 1] = Recorded(s, t, p.reason)]
      BY <1>8, <2>3 DEF Materialize
    <3>2. lastId' \in Ids /\ lastId' \in 0 .. MaxIds /\ lastId' >= lastId
      BY <3>1, ScheduleAssumption DEF TypeOK, Ids
    <3>3. inv[lastId'].status = "none" BY <3>1, <3>2 DEF TurnInv, TypeOK
    <3>4. \A i \in p.old : i \in Ids /\ inv[i].status # "none"
      BY DEF Plan, ActiveOf, Active
    <3> HIDE DEF t, p
    <3>5. \A i \in Ids : T[i].status = IF i \in p.old THEN "cancelled" ELSE inv[i].status
      BY SettledStatus
    <3>6. \A i \in Ids : i # lastId' => inv'[i] = T[i]
      BY <3>1, <3>2 DEF SettleAll
    <3> HIDE DEF T
    <3>7. ASSUME NEW i \in Ids
          PROVE  /\ inv'[i].status \in Early => inv[i].status \in Early
                 /\ i > lastId' => inv'[i].status = inv[i].status
      <4>1. CASE i = lastId' BY <3>2, <3>3, <4>1 DEF Early, Ids
      <4>2. CASE i # lastId'
        <5>1. i > lastId' => i \notin p.old
          BY <3>1, <3>4 DEF TurnInv, Ids, TypeOK
        <5> QED BY <1>0, <3>5, <3>6, <4>2, <5>1
      <4> QED BY <4>1, <4>2
    <3> QED BY <2>1, <3>2, <3>7, KeepingTurns DEF TurnsKept
  <2> QED BY <2>2, <2>3
<1>9. ASSUME NEW i \in Ids, Claim(i)
      PROVE  TurnInv'
  <2>1. inv[i].status = "pending" BY <1>9 DEF Claim, Runnable
  <2>2. inv' = [inv EXCEPT ![i] = Taken(inv[i])]
        /\ UNCHANGED <<flights, started, lastId>>
    BY <1>9 DEF Claim
  <2> QED BY <1>b, <2>1, <2>2 DEF Early
<1>10. ASSUME NEW i \in Ids, NEW why \in {"schedule_changed", "operator_disabled"},
              DeliverCancelled(i, why)
       PROVE  TurnInv'
  <2>1. inv[i].status = "claimed" /\ inv' = [inv EXCEPT ![i] = Cancelled(inv[i], why)]
        /\ UNCHANGED <<flights, started, lastId>>
    BY <1>10 DEF DeliverCancelled
  <2> QED BY <1>b, <2>1 DEF Early
<1>11. ASSUME NEW i \in Ids, NEW ready \in BOOLEAN, Deliver(i, ready)
       PROVE  TurnInv'
  <2>1. inv[i].status = "claimed" /\ UNCHANGED <<started, lastId>>
    BY <1>11 DEF Deliver
  <2>2. CASE ~ ready
    <3>1. inv' = [inv EXCEPT ![i] = Released(inv[i], "top_unavailable")]
          /\ UNCHANGED flights
      BY <1>11, <2>2 DEF Deliver
    <3> QED BY <1>b, <2>1, <3>1 DEF Early
  <2>3. CASE ready
    <3> DEFINE f == [id |-> i, token |-> inv[i].token, open |-> TRUE, up |-> FALSE]
    <3>1. inv' = [inv EXCEPT ![i] = Handed(inv[i])] /\ flights' = flights \cup {f}
      BY <1>11, <2>3 DEF Deliver
    <3>2. Handed(inv[i]).status = "delivering" BY DEF Handed, TypeOK, Invocation
    <3>3. started[i] = 0 /\ \A g \in flights : g.id # i BY <2>1 DEF TurnInv, Early
    <3>4. f.id = i /\ f.up = FALSE OBVIOUS
    <3>5. \A j \in Ids : inv'[j] = IF j = i THEN Handed(inv[i]) ELSE inv[j]
      BY <3>1 DEF TypeOK
    <3>6. i <= lastId BY <2>1 DEF TurnInv, Ids, TypeOK
    <3> HIDE DEF f
    <3>7. \A j \in Ids : j > lastId' => inv'[j].status = "none"
      BY <2>1, <3>5, <3>6 DEF TurnInv, Ids, TypeOK
    <3>8. ASSUME NEW j \in Ids, inv'[j].status \in Early
          PROVE  started'[j] = 0 /\ \A g \in flights' : g.id # j
      <4>1. j # i BY <3>2, <3>5, <3>8 DEF Early
      <4>2. inv[j].status \in Early BY <3>5, <3>8, <4>1
      <4> QED BY <2>1, <3>1, <3>4, <4>1, <4>2 DEF TurnInv
    <3>9. \A g \in flights' : ~ g.up => started'[g.id] = 0
      BY <2>1, <3>1, <3>3, <3>4 DEF TurnInv
    <3>10. \A g, h \in flights' : g.id = h.id => g = h
      BY <3>1, <3>3, <3>4 DEF TurnInv
    <3> QED BY <2>1, <3>7, <3>8, <3>9, <3>10 DEF TurnInv
  <2> QED BY <2>2, <2>3
<1> QED BY <1>1, <1>2, <1>3, <1>4, <1>5, <1>6, <1>7, <1>8, <1>9, <1>10, <1>11
        DEF TickStep

\* The answer of a delivery, an event or a crash puts no row with a turn among
\* the early ones: a refusal is believed only while its turn has not started.
LEMMA AnswersKeepTurns ==
    TypeOK /\ TurnInv /\ (\E f \in flights : Answer(f)) => TurnInv'
<1> SUFFICES ASSUME TypeOK, TurnInv, NEW f \in flights, Answer(f) PROVE TurnInv'
  OBVIOUS
<1> USE DEF process, outside
<1>0. f \in Flight /\ f.id \in Ids BY DEF TypeOK, Flight
<1>1. inv[f.id].status \notin Early BY <1>0 DEF TurnInv
<1>2. started' = started /\ lastId' = lastId
  BY DEF Answer, Accepted, Refused, Rejected, Unsure, Answered
<1>a. ASSUME NEW r, inv' = [inv EXCEPT ![f.id] = r] \/ inv' = inv,
             r.status \in Early => flights' = flights \ {f} /\ ~ f.up,
             \/ flights' = flights \ {f}
             \/ flights' = (flights \ {f}) \cup {[f EXCEPT !.open = FALSE]}
      PROVE  TurnInv'
  <2>1. \A j \in Ids : j # f.id => inv'[j] = inv[j]
    BY <1>a, <1>0 DEF TypeOK
  <2>2. inv'[f.id].status \in Early => flights' = flights \ {f} /\ ~ f.up
    <3>1. CASE inv' = inv BY <1>1, <3>1
    <3>2. CASE inv' = [inv EXCEPT ![f.id] = r]
      <4>1. inv'[f.id] = r BY <1>0, <3>2 DEF TypeOK
      <4> QED BY <1>a, <4>1
    <3> QED BY <1>a, <3>1, <3>2
  <2>3. \A g \in flights' : \E h \in flights : g.id = h.id /\ g.up = h.up
    <3>1. [f EXCEPT !.open = FALSE].id = f.id /\ [f EXCEPT !.open = FALSE].up = f.up
      BY <1>0 DEF Flight
    <3> QED BY <1>a, <3>1
  <2>4. \A g, h \in flights' : g.id = h.id => g = h
    <3> DEFINE e == [f EXCEPT !.open = FALSE]
    <3>1. e.id = f.id BY <1>0 DEF Flight
    <3>2. flights' \subseteq (flights \ {f}) \cup {e} BY <1>a
    <3> HIDE DEF e
    <3>3. \A g, h \in flights : g.id = h.id => g = h BY DEF TurnInv
    <3>4. \A g \in flights \ {f} : g.id # e.id BY <3>1, <3>3
    <3> QED BY <3>2, <3>3, <3>4
  <2>5. \A j \in Ids : j > lastId => j # f.id
    BY <1>1 DEF TurnInv, Early
  <2>6. ASSUME NEW j \in Ids, inv'[j].status \in Early
        PROVE  started'[j] = 0 /\ \A g \in flights' : g.id # j
    <3>1. CASE j = f.id
      <4>1. flights' = flights \ {f} /\ ~ f.up BY <2>2, <2>6, <3>1
      <4> QED BY <1>2, <3>1, <4>1 DEF TurnInv
    <3>2. CASE j # f.id
      BY <1>2, <2>1, <2>3, <2>6, <3>2 DEF TurnInv
    <3> QED BY <3>1, <3>2
  <2>7. \A g \in flights' : ~ g.up => started'[g.id] = 0
    BY <1>2, <2>3 DEF TurnInv
  <2>8. \A j \in Ids : j > lastId' => inv'[j].status = "none"
    BY <1>2, <2>1, <2>5 DEF TurnInv
  <2> QED BY <1>2, <2>4, <2>6, <2>7, <2>8 DEF TurnInv
<1>3. ASSUME Accepted(f) PROVE TurnInv'
  <2>1. Running(inv[f.id]).status = "running"
    BY <1>0 DEF Running, TypeOK, Invocation
  <2>2. flights' = flights \ {f}
        /\ (inv' = [inv EXCEPT ![f.id] = Running(inv[f.id])] \/ inv' = inv)
    BY <1>3 DEF Accepted
  <2> QED BY <1>a, <2>1, <2>2 DEF Early
<1>4. ASSUME Refused(f) PROVE TurnInv'
  <2>1. flights' = flights \ {f} /\ ~ f.up
        /\ (\/ inv' = [inv EXCEPT ![f.id] = Released(inv[f.id], "operator_busy")]
            \/ inv' = inv)
    BY <1>4 DEF Refused
  <2> QED BY <1>a, <2>1
<1>5. ASSUME Rejected(f) PROVE TurnInv'
  <2>1. flights' = flights \ {f} /\ ~ f.up
        /\ (\/ inv' = [inv EXCEPT ![f.id] = Settled(inv[f.id], "failed", "")]
            \/ inv' = inv)
    BY <1>5 DEF Rejected
  <2> QED BY <1>a, <2>1
<1>6. ASSUME Unsure(f) PROVE TurnInv'
  <2>1. Unknown(inv[f.id]).status = "uncertain"
    BY <1>0 DEF Unknown, Settled, TypeOK, Invocation
  <2>2. flights' = (flights \ {f}) \cup {[f EXCEPT !.open = FALSE]}
        /\ (inv' = [inv EXCEPT ![f.id] = Unknown(inv[f.id])] \/ inv' = inv)
    BY <1>6 DEF Unsure
  <2> QED BY <1>a, <2>1, <2>2 DEF Early
<1> QED BY <1>3, <1>4, <1>5, <1>6 DEF Answer

\* The receiver starts the turn of a delivery that has none yet.
LEMMA StartsKeepTurns ==
    TypeOK /\ TurnInv /\ (\E f \in flights : TurnStarts(f)) => TurnInv'
<1> SUFFICES ASSUME TypeOK, TurnInv, NEW f \in flights, TurnStarts(f) PROVE TurnInv'
  OBVIOUS
<1> USE DEF process, outside
<1> DEFINE u == [f EXCEPT !.up = TRUE]
<1>1. f \in Flight /\ f.id \in Ids BY DEF TypeOK, Flight
<1>2. u.id = f.id /\ u.up = TRUE BY <1>1 DEF Flight
<1>3. /\ inv' = inv /\ lastId' = lastId /\ flights' = (flights \ {f}) \cup {u}
      /\ started' = [started EXCEPT ![f.id] = started[f.id] + 1] /\ ~ f.up
  BY DEF TurnStarts
<1> HIDE DEF u
<1>4. started[f.id] = 0 /\ inv[f.id].status \notin Early BY <1>1, <1>3 DEF TurnInv
<1>5. \A i \in Ids : started'[i] = IF i = f.id THEN 1 ELSE started[i]
  BY <1>1, <1>3, <1>4 DEF TypeOK
<1>6. \A g \in flights' : \E h \in flights : g.id = h.id
  BY <1>2, <1>3
<1>7. \A i \in Ids : inv'[i].status \in Early =>
          started'[i] = 0 /\ \A g \in flights' : g.id # i
  BY <1>3, <1>4, <1>5, <1>6 DEF TurnInv
<1>8. \A g \in flights' : ~ g.up => started'[g.id] = 0
  <2> SUFFICES ASSUME NEW g \in flights', ~ g.up PROVE started'[g.id] = 0
    OBVIOUS
  <2>1. g \in flights /\ g # f BY <1>2, <1>3
  <2>2. g.id \in Ids /\ g.id # f.id BY <2>1 DEF TurnInv, TypeOK, Flight
  <2> QED BY <1>5, <2>1, <2>2 DEF TurnInv
<1>9. \A g, h \in flights' : g.id = h.id => g = h
  BY <1>2, <1>3 DEF TurnInv
<1> QED BY <1>3, <1>5, <1>7, <1>8, <1>9 DEF TurnInv

\* The ends of turns and runs, a crash, a boot and the clock start no turn.
LEMMA OthersKeepTurns ==
    ASSUME TypeOK, TurnInv,
           Crash \/ Boot \/ Advance \/ \E i \in Ids : TurnOver(i) \/ RunEnds(i)
    PROVE  TurnInv'
<1> USE DEF process, outside
<1>a. ASSUME inv' = inv, UNCHANGED <<flights, started, lastId>>
      PROVE  TurnInv'
  BY <1>a DEF TurnInv
<1>1. ASSUME Crash PROVE TurnInv'
  <2>1. /\ inv' = inv /\ lastId' = lastId /\ started' = started
        /\ flights' = {[f EXCEPT !.open = FALSE] : f \in flights}
    BY <1>1 DEF Crash
  <2>2. \A f \in flights : /\ [f EXCEPT !.open = FALSE].id = f.id
                           /\ [f EXCEPT !.open = FALSE].up = f.up
    BY DEF TypeOK, Flight
  <2>3. \A g \in flights' : \E h \in flights :
            g = [h EXCEPT !.open = FALSE] /\ g.id = h.id /\ g.up = h.up
    BY <2>1, <2>2
  <2>4. \A g, h \in flights' : g.id = h.id => g = h
    <3> SUFFICES ASSUME NEW g \in flights', NEW h \in flights', g.id = h.id
                 PROVE  g = h
      OBVIOUS
    <3>1. PICK a \in flights : g = [a EXCEPT !.open = FALSE] /\ g.id = a.id
      BY <2>3
    <3>2. PICK b \in flights : h = [b EXCEPT !.open = FALSE] /\ h.id = b.id
      BY <2>3
    <3>3. a = b BY <3>1, <3>2 DEF TurnInv
    <3> QED BY <3>1, <3>2, <3>3
  <2>5. \A i \in Ids : inv[i].status \in Early =>
            started[i] = 0 /\ \A g \in flights' : g.id # i
    BY <2>3 DEF TurnInv
  <2>6. \A g \in flights' : ~ g.up => started[g.id] = 0
    BY <2>3 DEF TurnInv
  <2> QED BY <2>1, <2>4, <2>5, <2>6 DEF TurnInv
<1>2. ASSUME Boot PROVE TurnInv'
  <2>1. UNCHANGED <<flights, started, lastId>> BY <1>2 DEF Boot
  <2>2. \A i \in Ids : inv'[i] = IF i \in Requeued
                       THEN [Released(inv[i], "recovered_claim") EXCEPT !.after = now]
                       ELSE inv[i]
    BY <1>2 DEF Boot
  <2>3. \A i \in Ids : i \in Requeued => inv[i].status = "claimed" BY DEF Requeued
  <2>4. lastId' \in 0 .. MaxIds /\ lastId' >= lastId BY <2>1 DEF TypeOK
  <2>5. ASSUME NEW i \in Ids
        PROVE  /\ inv'[i].status \in Early => inv[i].status \in Early
               /\ i > lastId' => inv'[i].status = inv[i].status
    BY <2>1, <2>2, <2>3 DEF TurnInv, Early
  <2> QED BY <2>1, <2>4, <2>5, KeepingTurns DEF TurnsKept
<1>3. ASSUME Advance PROVE TurnInv' BY <1>3, <1>a DEF Advance
<1>4. ASSUME NEW i \in Ids, TurnDies(i) PROVE TurnInv' BY <1>4, <1>a DEF TurnDies
<1>5. ASSUME NEW i \in Ids, RunEnds(i) PROVE TurnInv' BY <1>5, <1>a DEF RunEnds
<1>6. ASSUME NEW i \in Ids, NEW ok \in BOOLEAN, NEW heard \in BOOLEAN,
             TurnEnds(i, ok, heard)
      PROVE  TurnInv'
  <2>1. UNCHANGED <<flights, started, lastId>> BY <1>6 DEF TurnEnds
  <2>2. CASE heard /\ inv[i].status = "running"
    <3>1. PICK st \in {"completed", "failed"} :
            inv' = [inv EXCEPT ![i] = Settled(inv[i], st, "")]
      BY <1>6, <2>2 DEF TurnEnds
    <3>2. Settled(inv[i], st, "").status = st BY DEF Settled, TypeOK, Invocation
    <3>3. \A j \in Ids : inv'[j] = IF j = i THEN Settled(inv[i], st, "") ELSE inv[j]
      BY <3>1 DEF TypeOK
    <3>4. lastId' \in 0 .. MaxIds /\ lastId' >= lastId BY <2>1 DEF TypeOK
    <3>5. ASSUME NEW j \in Ids
          PROVE  /\ inv'[j].status \in Early => inv[j].status \in Early
                 /\ j > lastId' => inv'[j].status = inv[j].status
      BY <2>1, <2>2, <3>2, <3>3 DEF TurnInv, Early
    <3> QED BY <2>1, <3>4, <3>5, KeepingTurns DEF TurnsKept
  <2>3. CASE ~ (heard /\ inv[i].status = "running")
    BY <1>6, <1>a, <2>1, <2>3 DEF TurnEnds
  <2> QED BY <2>2, <2>3
<1> QED BY <1>1, <1>2, <1>3, <1>4, <1>5, <1>6 DEF TurnOver

LEMMA InitTurns == Init => TurnInv
<1> SUFFICES ASSUME Init PROVE TurnInv
  OBVIOUS
<1>1. inv = [i \in Ids |-> Unused] /\ Unused.status = "none"
      /\ flights = {} /\ started = [i \in Ids |-> 0]
  BY DEF Init, Unused
<1> QED BY <1>1 DEF TurnInv

LEMMA StepTurns == TypeOK /\ TurnInv /\ [Next]_vars => TurnInv'
<1> SUFFICES ASSUME TypeOK, TurnInv, [Next]_vars PROVE TurnInv'
  OBVIOUS
<1>1. CASE Tick \/ TickStep BY <1>1, TickKeepsTurns
<1>2. CASE UserStep BY <1>2, UserKeepsTurns, KeepingTurns
<1>3. CASE \E f \in flights : Answer(f) BY <1>3, AnswersKeepTurns
<1>4. CASE \E f \in flights : TurnStarts(f) BY <1>4, StartsKeepTurns
<1>5. CASE Crash \/ Boot \/ Advance \/ \E i \in Ids : TurnOver(i) \/ RunEnds(i)
  BY <1>5, OthersKeepTurns
<1>6. CASE UNCHANGED vars
  BY <1>6 DEF vars, process, outside, TurnInv
<1> QED BY <1>1, <1>2, <1>3, <1>4, <1>5, <1>6 DEF Next

\* However often an occurrence is refused, released, claimed again, recovered
\* at boot or cut off by a crash, one model turn at most is started for it.
THEOREM OccurrencesStartOnce == Spec => []OneTurn
<1>1. TurnInv => OneTurn BY DEF TurnInv, OneTurn
<1>2. Init => TypeOK /\ TurnInv BY InitTypes, InitTurns
<1>3. TypeOK /\ TurnInv /\ [Next]_vars => (TypeOK /\ TurnInv)'
  BY StepTypes, StepTurns
<1> QED BY <1>1, <1>2, <1>3, PTL DEF Spec

-----------------------------------------------------------------------------
(* A stored outcome is kept                                                *)

\* The two updates that write running rows off come after every row with a
\* stored outcome has been completed; no turn ends in between.
LookedFor == pc \in {"sweep", "backstop"} => Provable = {}

LEMMA InitLookedFor == Init => LookedFor
BY DEF Init, LookedFor

LEMMA StepLookedFor == TypeOK /\ LookedFor /\ [Next]_vars => LookedFor'
<1> SUFFICES ASSUME TypeOK, LookedFor, [Next]_vars PROVE LookedFor'
  OBVIOUS
<1> USE DEF process, outside, Idle
<1>1. ASSUME pc' \notin {"sweep", "backstop"} PROVE LookedFor'
  BY <1>1 DEF LookedFor
<1>2. CASE Reconcile
  <2>1. CASE Provable # {} BY <1>1, <1>2, <2>1 DEF Reconcile
  <2>2. CASE Provable = {} BY <1>2, <2>2 DEF Reconcile, LookedFor, Provable
  <2> QED BY <2>1, <2>2
<1>3. CASE Sweep
  <2> DEFINE lost == {i \in Ids : /\ inv[i].status = "running"
                                 /\ inv[i].begun + Stale <= now
                                 /\ ended[i]}
  <2>1. inv' = SettleAll(lost, "uncertain", "manager_run_terminal")
        /\ pc = "sweep" /\ turn' = turn
    BY <1>3 DEF Sweep
  <2> HIDE DEF lost
  <2>2. \A i \in Ids : inv'[i].status = IF i \in lost THEN "uncertain" ELSE inv[i].status
    BY <2>1, SettledStatus
  <2>3. \A i \in Ids : inv'[i].status = "running" => inv[i].status = "running"
    BY <2>2
  <2> QED BY <2>1, <2>3 DEF LookedFor, Provable
<1>4. CASE UNCHANGED vars BY <1>4 DEF vars, LookedFor, Provable
<1>5. CASE Backstop BY <1>1, <1>5 DEF Backstop
<1>6. CASE \/ Expire \/ OpenLanes \/ LanesEnd
           \/ \E s \in Schedules : Materialize(s)
           \/ \E i \in Ids : \/ Claim(i)
                             \/ \E why \in {"schedule_changed", "operator_disabled"} :
                                   DeliverCancelled(i, why)
                             \/ \E ready \in BOOLEAN : Deliver(i, ready)
  BY <1>1, <1>6
     DEF Expire, OpenLanes, LanesEnd, Materialize, Claim, DeliverCancelled, Deliver
<1>7. CASE Tick \/ Crash \/ Boot \/ Advance
  BY <1>1, <1>7 DEF Tick, Crash, Boot, Advance
<1>8. CASE UserStep
  BY <1>1, <1>8 DEF UserStep, Update, Archive, RunNow, DeleteProject
<1>9. CASE \E f \in flights : TurnStarts(f) \/ Answer(f)
  BY <1>1, <1>9 DEF TurnStarts, Answer, Accepted, Refused, Rejected, Unsure, Answered
<1>10. CASE \E i \in Ids : TurnOver(i) \/ RunEnds(i)
  BY <1>1, <1>10 DEF TurnOver, TurnDies, TurnEnds, RunEnds
<1> QED BY <1>2, <1>3, <1>4, <1>5, <1>6, <1>7, <1>8, <1>9, <1>10 DEF Next, TickStep

\* A step that changes no running row to an uncertain one.
Certain == \A i \in Ids : inv[i].status = "running" => inv'[i].status # "uncertain"

LEMMA WrittenOff ==
    ASSUME TypeOK, Next, ~ Sweep, ~ Backstop
    PROVE  Certain
<1> USE DEF process, outside
<1>a. ASSUME inv' = inv PROVE Certain BY <1>a DEF Certain
<1>b. ASSUME NEW C, NEW st, NEW why, st # "uncertain", inv' = SettleAll(C, st, why)
      PROVE  Certain
  BY <1>b, SettledStatus DEF Certain
<1>c. ASSUME NEW i \in Ids, NEW r, inv' = [inv EXCEPT ![i] = r],
             r.status # "uncertain" \/ inv[i].status # "running"
      PROVE  Certain
  BY <1>c DEF Certain, TypeOK
<1>1. CASE Tick \/ OpenLanes \/ LanesEnd \/ Crash \/ Advance
  BY <1>1, <1>a DEF Tick, OpenLanes, LanesEnd, Crash, Advance
<1>2. CASE Reconcile
  <2>1. CASE Provable # {}
    <3>1. PICK i \in Provable : Complete(i) BY <1>2, <2>1 DEF Reconcile
    <3>2. i \in Ids BY DEF Provable
    <3>3. PICK st \in {"completed", "failed"} :
            inv' = [inv EXCEPT ![i] = Settled(inv[i], st, "")]
      BY <3>1 DEF Complete
    <3>4. Settled(inv[i], st, "").status = st BY <3>2 DEF Settled, TypeOK, Invocation
    <3> QED BY <1>c, <3>2, <3>3, <3>4
  <2>2. CASE Provable = {} BY <1>2, <1>a, <2>2 DEF Reconcile
  <2> QED BY <2>1, <2>2
<1>3. CASE Expire BY <1>3, <1>b DEF Expire
<1>4. ASSUME NEW s \in Schedules, Materialize(s) PROVE Certain
  <2> DEFINE T == SettleAll(Plan(s, Latest(s)).old, "cancelled", "superseded")
             r == Recorded(s, Latest(s), Plan(s, Latest(s)).reason)
  <2>1. inv' = inv \/ (lastId < MaxIds /\ inv' = [T EXCEPT ![lastId + 1] = r])
    BY <1>4 DEF Materialize
  <2>2. r.status # "uncertain"
    BY DEF Recorded, Cancelled, Settled, Inserted, Unused
  <2>3. \A i \in Ids : inv[i].status = "running" => T[i].status # "uncertain"
    BY SettledStatus
  <2>4. T = [i \in Ids |-> T[i]] BY DEF SettleAll
  <2> HIDE DEF T, r
  <2> QED BY <1>a, <2>1, <2>2, <2>3, <2>4 DEF Certain
<1>5. ASSUME NEW i \in Ids, Claim(i) PROVE Certain
  BY <1>5, <1>c DEF Claim, Runnable
<1>6. ASSUME NEW i \in Ids,
             NEW why \in {"schedule_changed", "operator_disabled"},
             DeliverCancelled(i, why)
      PROVE  Certain
  BY <1>6, <1>c DEF DeliverCancelled
<1>7. ASSUME NEW i \in Ids, NEW ready \in BOOLEAN, Deliver(i, ready) PROVE Certain
  <2>1. inv[i].status = "claimed" BY <1>7 DEF Deliver
  <2>2. PICK r : inv' = [inv EXCEPT ![i] = r] BY <1>7 DEF Deliver
  <2> QED BY <1>c, <2>1, <2>2
<1>8. CASE UserStep
  <2>1. ASSUME NEW s \in Schedules, NEW enable \in BOOLEAN, Update(s, enable)
        PROVE  Certain
    BY <2>1, <1>a, <1>b DEF Update
  <2>2. ASSUME NEW s \in Schedules, Archive(s) PROVE Certain
    BY <2>2, <1>b DEF Archive
  <2>3. ASSUME NEW o \in Operators, DeleteProject(o) PROVE Certain
    BY <2>3, <1>b DEF DeleteProject
  <2>4. ASSUME NEW s \in Schedules, RunNow(s) PROVE Certain
    <3>1. lastId + 1 \in Ids
      BY <2>4, ScheduleAssumption DEF RunNow, TypeOK, Ids
    <3>2. Inserted(s, "manual_run_now", now).status = "pending"
      BY DEF Inserted, Unused
    <3>3. inv' = [inv EXCEPT ![lastId + 1] = Inserted(s, "manual_run_now", now)]
      BY <2>4 DEF RunNow
    <3> QED BY <1>c, <3>1, <3>2, <3>3
  <2> QED BY <1>8, <2>1, <2>2, <2>3, <2>4 DEF UserStep
<1>9. CASE Boot
  <2>1. \A i \in Ids : inv[i].status = "running" => inv'[i] = inv[i]
    BY <1>9 DEF Boot, Requeued
  <2> QED BY <2>1 DEF Certain
<1>10. ASSUME NEW f \in flights, Answer(f) \/ TurnStarts(f) PROVE Certain
  <2>1. f.id \in Ids BY DEF TypeOK, Flight
  <2>2. Running(inv[f.id]).status = "running"
    BY <2>1 DEF Running, TypeOK, Invocation
  <2>3. ASSUME Held(f) PROVE inv[f.id].status # "running" BY <2>3 DEF Held
  <2>4. CASE Accepted(f) BY <1>a, <1>c, <2>1, <2>2, <2>4 DEF Accepted
  <2>5. CASE Refused(f) BY <1>a, <1>c, <2>1, <2>3, <2>5 DEF Refused
  <2>6. CASE Rejected(f) BY <1>a, <1>c, <2>1, <2>3, <2>6 DEF Rejected
  <2>7. CASE Unsure(f) BY <1>a, <1>c, <2>1, <2>3, <2>7 DEF Unsure
  <2>8. CASE TurnStarts(f) BY <1>a, <2>8 DEF TurnStarts
  <2> QED BY <1>10, <2>4, <2>5, <2>6, <2>7, <2>8 DEF Answer
<1>11. ASSUME NEW i \in Ids, TurnDies(i) \/ RunEnds(i) PROVE Certain
  BY <1>11, <1>a DEF TurnDies, RunEnds
<1>12. ASSUME NEW i \in Ids, NEW ok \in BOOLEAN, NEW heard \in BOOLEAN,
              TurnEnds(i, ok, heard)
       PROVE  Certain
  <2>1. \/ inv' = inv
        \/ \E st \in {"completed", "failed"} :
              inv' = [inv EXCEPT ![i] = Settled(inv[i], st, "")]
    BY <1>12 DEF TurnEnds
  <2>2. \A st \in {"completed", "failed"} : Settled(inv[i], st, "").status = st
    BY DEF Settled, TypeOK, Invocation
  <2> QED BY <1>a, <1>c, <2>1, <2>2
<1> QED BY <1>1, <1>2, <1>3, <1>4, <1>5, <1>6, <1>7, <1>8, <1>9, <1>10, <1>11, <1>12
        DEF Next, TickStep, TurnOver

\* Recovery takes what is known first: a running row whose terminal event is
\* stored is never written off as uncertain.
THEOREM OutcomesAreKept == Spec => KnownOutcomeIsKept
<1> DEFINE Kept == \A i \in Ids :
               inv[i].status = "running" /\ inv'[i].status = "uncertain"
               => turn[i] \notin {"done", "failed"}
<1>1. TypeOK /\ LookedFor /\ [Next]_vars => [Kept]_vars
  <2> SUFFICES ASSUME TypeOK, LookedFor, Next PROVE Kept
    OBVIOUS
  <2>1. CASE Sweep BY <2>1 DEF Sweep, LookedFor, Provable
  <2>2. CASE Backstop BY <2>2 DEF Backstop, LookedFor, Provable
  <2>3. CASE ~ Sweep /\ ~ Backstop BY <2>3, WrittenOff DEF Certain
  <2> QED BY <2>1, <2>2, <2>3
<1>2. KnownOutcomeIsKept <=> [][Kept]_vars BY DEF KnownOutcomeIsKept
<1> HIDE DEF Kept
<1> QED BY <1>1, <1>2, TypeCorrect, InitTypes, StepTypes, InitLookedFor, StepLookedFor,
           PTL DEF Spec

-----------------------------------------------------------------------------
(* One active invocation, and no replacement lost                          *)

\* An update never makes a row another one's, nor a settled row active, and
\* gives only a new row one of the reasons of materializeDue.
Lasting == NeverRun \cup {"superseded"}
Follows(q, r) ==
    /\ q.sched = r.sched /\ q.at = r.at /\ q.source = r.source
    /\ q.status \in Active => r.status \in Active
    /\ q.reason \in Lasting => q.reason = r.reason
RowsFollow == \A i \in Ids : Follows(inv'[i], inv[i])

LEMMA UpdatesFollow ==
    ASSUME NEW r \in Invocation
    PROVE  /\ \A st \in Terminal : \A why : why \notin Lasting
                 => Follows(Settled(r, st, why), r)
           /\ \A why : why \notin Lasting => Follows(Cancelled(r, why), r)
           /\ \A why : why \notin Lasting /\ r.status \in Active
                 => Follows(Released(r, why), r)
           /\ r.status \in Active => /\ Follows(Taken(r), r)
                                     /\ Follows(Handed(r), r)
                                     /\ Follows(Running(r), r)
           /\ Follows(Unknown(r), r)
<1> USE DEF Follows, Invocation
<1>1. "" \notin Lasting /\ "delivery_uncertain" \notin Lasting
  BY DEF Lasting, NeverRun
<1>2. \A st \in Terminal : st \notin Active BY DEF Terminal, Active
<1>3. ASSUME NEW st \in Terminal, NEW why, why \notin Lasting
      PROVE  Follows(Settled(r, st, why), r)
  BY <1>2, <1>3 DEF Settled
<1>4. "cancelled" \in Terminal /\ "uncertain" \in Terminal BY DEF Terminal
<1>5. ASSUME NEW why, why \notin Lasting, r.status \in Active
      PROVE  Follows(Released(r, why), r)
  BY <1>5 DEF Released
<1>6. ASSUME r.status \in Active
      PROVE  Follows(Taken(r), r) /\ Follows(Handed(r), r) /\ Follows(Running(r), r)
  BY <1>1, <1>6 DEF Taken, Handed, Running
<1> QED BY ZenonT(60), <1>1, <1>3, <1>4, <1>5, <1>6 DEF Cancelled, Unknown

\* Every step but a run-now request and a materialisation.
Adds == (\E s \in Schedules : RunNow(s)) \/ (\E s \in Schedules : Materialize(s))

LEMMA StepsFollow ==
    ASSUME TypeOK, Next, ~ Adds
    PROVE  RowsFollow /\ lastId' = lastId
<1> USE DEF process, outside
<1>0. \A i \in Ids : inv[i] \in Invocation BY DEF TypeOK
<1>r. /\ "" \notin Lasting /\ "schedule_disabled" \notin Lasting
      /\ "project_deleted" \notin Lasting /\ "expired" \notin Lasting
      /\ "schedule_changed" \notin Lasting /\ "operator_disabled" \notin Lasting
      /\ "top_unavailable" \notin Lasting /\ "operator_busy" \notin Lasting
      /\ "recovered_claim" \notin Lasting /\ "manager_run_terminal" \notin Lasting
      /\ "restart_delivery_uncertain" \notin Lasting
  BY DEF Lasting, NeverRun
<1>t. {"cancelled", "uncertain", "completed", "failed"} \subseteq Terminal
  BY DEF Terminal
<1>v. {"pending", "claimed", "delivering", "running"} \subseteq Active BY DEF Active
<1>a. ASSUME inv' = inv PROVE RowsFollow BY <1>a DEF RowsFollow, Follows
<1>b. ASSUME NEW C, NEW st \in Terminal, NEW why, why \notin Lasting,
             inv' = SettleAll(C, st, why)
      PROVE  RowsFollow
  <2>1. \A i \in Ids : inv'[i] = IF i \in C THEN Settled(inv[i], st, why) ELSE inv[i]
    BY <1>b DEF SettleAll
  <2>2. \A i \in Ids : Follows(Settled(inv[i], st, why), inv[i])
    BY <1>0, <1>b, UpdatesFollow
  <2>3. \A i \in Ids : Follows(inv[i], inv[i]) BY DEF Follows
  <2> QED BY <2>1, <2>2, <2>3 DEF RowsFollow
<1>c. ASSUME NEW i \in Ids, NEW r, inv' = [inv EXCEPT ![i] = r], Follows(r, inv[i])
      PROVE  RowsFollow
  <2>1. \A j \in Ids : inv'[j] = IF j = i THEN r ELSE inv[j] BY <1>c DEF TypeOK
  <2>2. \A j \in Ids : Follows(inv[j], inv[j]) BY DEF Follows
  <2> QED BY <1>c, <2>1, <2>2 DEF RowsFollow
<1>1. CASE Tick \/ OpenLanes \/ LanesEnd \/ Crash \/ Advance
  BY <1>1, <1>a DEF Tick, OpenLanes, LanesEnd, Crash, Advance
<1>2. CASE Reconcile
  <2>1. CASE Provable # {}
    <3>1. PICK i \in Provable : Complete(i) BY <1>2, <2>1 DEF Reconcile
    <3>2. i \in Ids BY DEF Provable
    <3>3. PICK st \in {"completed", "failed"} :
            inv' = [inv EXCEPT ![i] = Settled(inv[i], st, "")]
      BY <3>1 DEF Complete
    <3>4. Follows(Settled(inv[i], st, ""), inv[i])
      BY <1>0, <1>r, <1>t, <3>2, UpdatesFollow
    <3>5. lastId' = lastId BY <1>2 DEF Reconcile
    <3> QED BY <1>c, <3>2, <3>3, <3>4, <3>5
  <2>2. CASE Provable = {} BY <1>2, <1>a, <2>2 DEF Reconcile
  <2> QED BY <2>1, <2>2
<1>3. CASE Sweep
  <2>1. lastId' = lastId /\ \E C : inv' = SettleAll(C, "uncertain", "manager_run_terminal")
    BY <1>3 DEF Sweep
  <2> QED BY <1>b, <1>r, <1>t, <2>1
<1>4. CASE Backstop
  <2>1. lastId' = lastId
        /\ inv' = SettleAll(Unknowable, "uncertain", "restart_delivery_uncertain")
    BY <1>4 DEF Backstop
  <2> QED BY <1>b, <1>r, <1>t, <2>1
<1>5. CASE Expire
  <2>1. lastId' = lastId /\ inv' = SettleAll(Overdue, "cancelled", "expired")
    BY <1>5 DEF Expire
  <2> QED BY <1>b, <1>r, <1>t, <2>1
<1>6. ASSUME NEW i \in Ids, Claim(i) PROVE RowsFollow /\ lastId' = lastId
  <2>1. /\ inv[i].status = "pending" /\ lastId' = lastId
        /\ inv' = [inv EXCEPT ![i] = Taken(inv[i])]
    BY <1>6 DEF Claim, Runnable
  <2>2. Follows(Taken(inv[i]), inv[i]) BY <1>0, <1>v, <2>1, UpdatesFollow
  <2> QED BY <1>c, <2>1, <2>2
<1>7. ASSUME NEW i \in Ids,
             NEW why \in {"schedule_changed", "operator_disabled"},
             DeliverCancelled(i, why)
      PROVE  RowsFollow /\ lastId' = lastId
  <2>1. lastId' = lastId /\ inv' = [inv EXCEPT ![i] = Cancelled(inv[i], why)]
    BY <1>7 DEF DeliverCancelled
  <2>2. Follows(Cancelled(inv[i], why), inv[i]) BY <1>0, <1>r, UpdatesFollow
  <2> QED BY <1>c, <2>1, <2>2
<1>8. ASSUME NEW i \in Ids, NEW ready \in BOOLEAN, Deliver(i, ready)
      PROVE  RowsFollow /\ lastId' = lastId
  <2>1. inv[i].status \in Active /\ lastId' = lastId BY <1>8, <1>v DEF Deliver
  <2>2. Follows(Handed(inv[i]), inv[i])
        /\ Follows(Released(inv[i], "top_unavailable"), inv[i])
    BY <1>0, <1>r, <2>1, UpdatesFollow
  <2>3. \/ inv' = [inv EXCEPT ![i] = Handed(inv[i])]
        \/ inv' = [inv EXCEPT ![i] = Released(inv[i], "top_unavailable")]
    BY <1>8 DEF Deliver
  <2> QED BY <1>c, <2>1, <2>2, <2>3
<1>9. CASE UserStep
  <2>1. ASSUME NEW s \in Schedules, NEW enable \in BOOLEAN, Update(s, enable)
        PROVE  RowsFollow /\ lastId' = lastId
    <3>1. lastId' = lastId
          /\ (\/ inv' = inv
              \/ inv' = SettleAll(Waiting({s}), "cancelled", "schedule_disabled"))
      BY <2>1 DEF Update
    <3> QED BY <1>a, <1>b, <1>r, <1>t, <3>1
  <2>2. ASSUME NEW s \in Schedules, Archive(s) PROVE RowsFollow /\ lastId' = lastId
    <3>1. lastId' = lastId
          /\ inv' = SettleAll(Waiting({s}), "cancelled", "schedule_disabled")
      BY <2>2 DEF Archive
    <3> QED BY <1>b, <1>r, <1>t, <3>1
  <2>3. ASSUME NEW o \in Operators, DeleteProject(o)
        PROVE  RowsFollow /\ lastId' = lastId
    <3>1. lastId' = lastId
          /\ inv' = SettleAll(ActiveOf(inv, o), "cancelled", "project_deleted")
      BY <2>3 DEF DeleteProject
    <3> QED BY <1>b, <1>r, <1>t, <3>1
  <2> QED BY <1>9, <2>1, <2>2, <2>3 DEF UserStep, Adds
<1>10. CASE Boot
  <2>1. lastId' = lastId
        /\ \A i \in Ids : inv'[i] = IF i \in Requeued
              THEN [Released(inv[i], "recovered_claim") EXCEPT !.after = now]
              ELSE inv[i]
    BY <1>10 DEF Boot
  <2>2. ASSUME NEW i \in Ids
        PROVE  Follows(inv'[i], inv[i])
    <3>1. CASE i \in Requeued
      <4>1. inv[i].status \in Active BY <1>v, <3>1 DEF Requeued
      <4>2. inv'[i] = [inv[i] EXCEPT !.status = "pending", !.token = 0, !.after = now,
                                     !.reason = "recovered_claim"]
        BY <1>0, <2>1, <3>1 DEF Released, Invocation
      <4> QED BY <1>0, <1>r, <4>1, <4>2 DEF Follows, Invocation
    <3>2. CASE i \notin Requeued BY <2>1, <3>2 DEF Follows
    <3> QED BY <3>1, <3>2
  <2> QED BY <2>1, <2>2 DEF RowsFollow
<1>11. ASSUME NEW f \in flights, Answer(f) \/ TurnStarts(f)
       PROVE  RowsFollow /\ lastId' = lastId
  <2>1. f.id \in Ids /\ inv[f.id] \in Invocation BY DEF TypeOK, Flight
  <2>2. lastId' = lastId
    BY <1>11 DEF Answer, Accepted, Refused, Rejected, Unsure, Answered, TurnStarts
  <2>3. ASSUME Held(f) PROVE inv[f.id].status \in Active BY <1>v, <2>3 DEF Held
  <2>4. /\ \A why \in {""} : Follows(Settled(inv[f.id], "failed", why), inv[f.id])
        /\ Follows(Unknown(inv[f.id]), inv[f.id])
    BY <1>r, <1>t, <2>1, UpdatesFollow
  <2>5. inv[f.id].status \in Active =>
            /\ Follows(Running(inv[f.id]), inv[f.id])
            /\ Follows(Released(inv[f.id], "operator_busy"), inv[f.id])
    BY <1>r, <2>1, UpdatesFollow
  <2>6. CASE Accepted(f) BY <1>a, <1>c, <2>1, <2>2, <2>3, <2>5, <2>6 DEF Accepted
  <2>7. CASE Refused(f) BY <1>a, <1>c, <2>1, <2>2, <2>3, <2>5, <2>7 DEF Refused
  <2>8. CASE Rejected(f) BY <1>a, <1>c, <2>1, <2>2, <2>4, <2>8 DEF Rejected
  <2>9. CASE Unsure(f) BY <1>a, <1>c, <2>1, <2>2, <2>4, <2>9 DEF Unsure
  <2>10. CASE TurnStarts(f) BY <1>a, <2>2, <2>10 DEF TurnStarts
  <2> QED BY <1>11, <2>6, <2>7, <2>8, <2>9, <2>10 DEF Answer
<1>12. ASSUME NEW i \in Ids, TurnDies(i) \/ RunEnds(i)
       PROVE  RowsFollow /\ lastId' = lastId
  BY <1>12, <1>a DEF TurnDies, RunEnds
<1>13. ASSUME NEW i \in Ids, NEW ok \in BOOLEAN, NEW heard \in BOOLEAN,
              TurnEnds(i, ok, heard)
       PROVE  RowsFollow /\ lastId' = lastId
  <2>1. /\ lastId' = lastId
        /\ \/ inv' = inv
           \/ \E st \in {"completed", "failed"} :
                 inv' = [inv EXCEPT ![i] = Settled(inv[i], st, "")]
    BY <1>13 DEF TurnEnds
  <2>2. \A st \in {"completed", "failed"} : Follows(Settled(inv[i], st, ""), inv[i])
    BY <1>0, <1>r, <1>t, UpdatesFollow
  <2> QED BY <1>a, <1>c, <2>1, <2>2
<1> QED BY <1>1, <1>2, <1>3, <1>4, <1>5, <1>6, <1>7, <1>8, <1>9, <1>10, <1>11, <1>12,
           <1>13
        DEF Next, TickStep, TurnOver, Adds

\* What a materialisation writes: nothing, or one new row, active only if all
\* active rows of its Operator give way to it.
MaterializeWrites(s) ==
    LET t == Latest(s)
        n == lastId + 1
        p == Plan(s, t)
    IN  /\ n \in Ids /\ lastId' = n
        /\ inv'[n] = Recorded(s, t, p.reason)
        /\ \A i \in Ids \ {n} :
              inv'[i] = IF i \in p.old THEN Settled(inv[i], "cancelled", "superseded")
                        ELSE inv[i]

LEMMA Materializes ==
    ASSUME TypeOK, NEW s \in Schedules, Materialize(s)
    PROVE  \/ UNCHANGED <<inv, lastId>>
           \/ MaterializeWrites(s)
<1> DEFINE t == Latest(s)
           p == Plan(s, t)
           T == SettleAll(p.old, "cancelled", "superseded")
<1>1. CASE OnRecord(s, t) BY <1>1 DEF Materialize
<1>2. CASE ~ OnRecord(s, t)
  <2>1. /\ lastId < MaxIds /\ lastId' = lastId + 1
        /\ inv' = [T EXCEPT ![lastId + 1] = Recorded(s, t, p.reason)]
    BY <1>2 DEF Materialize
  <2>2. lastId + 1 \in Ids BY <2>1, ScheduleAssumption DEF TypeOK, Ids
  <2>3. \A i \in Ids : T[i] = IF i \in p.old THEN Settled(inv[i], "cancelled", "superseded")
                              ELSE inv[i]
    BY DEF SettleAll
  <2>4. inv' = [i \in Ids |-> IF i = lastId + 1 THEN Recorded(s, t, p.reason) ELSE T[i]]
    <3>1. T = [i \in Ids |-> T[i]] BY DEF SettleAll
    <3> HIDE DEF T, p, t
    <3> QED BY <2>1, <3>1
  <2> HIDE DEF T
  <2> QED BY <2>1, <2>2, <2>3, <2>4 DEF MaterializeWrites
<1> QED BY <1>1, <1>2

\* The rows that a plan cancels, and what else it may insert beside them.
LEMMA PlanReplaces ==
    ASSUME TypeOK, NEW s \in Schedules, NEW t
    PROVE  /\ Plan(s, t).old # {} => Plan(s, t).reason = ""
           /\ Plan(s, t).reason = "" =>
                 Plan(s, t).old = ActiveOf(inv, OperatorOf[s])
           /\ \A i \in Plan(s, t).old : /\ i \in ActiveOf(inv, OperatorOf[s])
                                        /\ inv[i].at < t
           /\ Plan(s, t).reason \in NeverRun \cup {""}
BY DEF Plan, Supersedable, Misses, NeverRun

\* No active row beyond the last, one active row of an Operator, and a recorded
\* replacement for every superseded row.
Replaces(j, i) ==
    /\ j > i /\ inv[j].at > inv[i].at
    /\ OperatorOf[inv[j].sched] = OperatorOf[inv[i].sched]
    /\ inv[j].source = "scheduled"
    /\ inv[j].reason \notin NeverRun
ActiveInv ==
    /\ \A i \in Ids : i > lastId => inv[i].status \notin Active
    /\ OneActive
    /\ \A i \in Ids : inv[i].reason = "superseded" =>
            \E j \in Ids : j <= lastId /\ Replaces(j, i)

LEMMA FollowingKeepsActive ==
    ASSUME TypeOK, ActiveInv, RowsFollow, lastId' = lastId
    PROVE  ActiveInv'
<1>1. \A i \in Ids : /\ inv'[i].status \in Active => inv[i].status \in Active
                     /\ inv'[i].sched = inv[i].sched
  BY DEF RowsFollow, Follows
<1>2. OneActive' BY <1>1 DEF ActiveInv, OneActive
<1>3. ASSUME NEW i \in Ids, inv'[i].reason = "superseded"
      PROVE  \E j \in Ids : j <= lastId' /\ Replaces(j, i)'
  <2>1. inv[i].reason = "superseded" BY <1>3 DEF RowsFollow, Follows, Lasting
  <2>2. PICK j \in Ids : j <= lastId /\ Replaces(j, i) BY <2>1 DEF ActiveInv
  <2>3. Follows(inv'[i], inv[i]) /\ Follows(inv'[j], inv[j]) BY DEF RowsFollow
  <2>4. Replaces(j, i)' BY <2>2, <2>3 DEF Replaces, Follows, Lasting
  <2> QED BY <2>2, <2>4
<1>4. \A i \in Ids : i > lastId' => inv'[i].status \notin Active
  BY <1>1 DEF ActiveInv
<1> QED BY <1>2, <1>3, <1>4 DEF ActiveInv

LEMMA RunNowKeepsActive ==
    ASSUME TypeOK, ActiveInv, NEW s \in Schedules, RunNow(s)
    PROVE  ActiveInv'
<1> DEFINE n == lastId + 1
           r == Inserted(s, "manual_run_now", now)
<1>1. n \in Ids /\ lastId' = n /\ ActiveOf(inv, OperatorOf[s]) = {}
  BY ScheduleAssumption DEF RunNow, TypeOK, Ids
<1>2. inv' = [inv EXCEPT ![n] = r] BY DEF RunNow
<1>3. r.sched = s /\ r.reason = "" BY DEF Inserted, Unused
<1> HIDE DEF r
<1>4. inv'[n] = r /\ \A i \in Ids \ {n} : inv'[i] = inv[i]
  BY <1>1, <1>2 DEF TypeOK
<1>5. OneActive'
  <2>1. ASSUME NEW i \in Ids \ {n}, inv[i].status \in Active
        PROVE  OperatorOf[inv[i].sched] # OperatorOf[s]
    BY <1>1, <2>1 DEF ActiveOf
  <2> QED BY <1>3, <1>4, <2>1 DEF OneActive, ActiveInv
<1>6. ASSUME NEW i \in Ids, inv'[i].reason = "superseded"
      PROVE  \E j \in Ids : j <= lastId' /\ Replaces(j, i)'
  <2>1. i # n /\ inv'[i] = inv[i] BY <1>3, <1>4, <1>6
  <2>2. PICK j \in Ids : j <= lastId /\ Replaces(j, i) BY <1>6, <2>1 DEF ActiveInv
  <2>3. j # n /\ j <= lastId' BY <1>1, <2>2 DEF Ids, TypeOK
  <2>4. inv'[j] = inv[j] BY <1>4, <2>3
  <2>5. Replaces(j, i)' BY <2>1, <2>2, <2>4 DEF Replaces
  <2> QED BY <2>3, <2>5
<1>7. \A i \in Ids : i > lastId' => inv'[i].status \notin Active
  BY <1>1, <1>4 DEF ActiveInv, Ids, TypeOK
<1> QED BY <1>5, <1>6, <1>7 DEF ActiveInv

LEMMA MaterializeKeepsActive ==
    ASSUME TypeOK, ActiveInv, NEW s \in Schedules, Materialize(s)
    PROVE  ActiveInv'
<1>1. CASE UNCHANGED <<inv, lastId>>
  BY <1>1 DEF ActiveInv, OneActive, Replaces
<1>2. CASE MaterializeWrites(s)
  <2> DEFINE t == Latest(s)
             p == Plan(s, t)
  <2>n. PICK n \in Ids : n = lastId + 1 BY <1>2 DEF MaterializeWrites
  <2>1. /\ n \in Ids /\ lastId' = n
        /\ inv'[n] = Recorded(s, t, p.reason)
        /\ \A i \in Ids \ {n} :
              inv'[i] = IF i \in p.old THEN Settled(inv[i], "cancelled", "superseded")
                        ELSE inv[i]
    BY <1>2, <2>n DEF MaterializeWrites
  <2>2. /\ p.old # {} => p.reason = ""
        /\ p.reason = "" => p.old = ActiveOf(inv, OperatorOf[s])
        /\ \A i \in p.old : i \in ActiveOf(inv, OperatorOf[s]) /\ inv[i].at < t
        /\ p.reason \in NeverRun \cup {""}
    BY PlanReplaces
  <2>t. sched[s].next <= now BY DEF Materialize, Due
  <2>u. t \in Nat BY <2>t, LatestType
  <2> HIDE DEF p, t
  <2>3. /\ inv'[n].sched = s /\ inv'[n].at = t /\ inv'[n].source = "scheduled"
        /\ inv'[n].reason = p.reason
        /\ p.reason # "" => inv'[n].status = "cancelled"
    <3>1. CASE p.reason = "" BY <2>1, <3>1 DEF Recorded, Inserted, Unused
    <3>2. CASE p.reason # ""
      BY <2>1, <3>2 DEF Recorded, Inserted, Unused, Cancelled, Settled
    <3> QED BY <3>1, <3>2
  <2>4. "superseded" \notin NeverRun /\ "cancelled" \notin Active /\ "" \notin NeverRun
    BY DEF NeverRun, Active
  <2>5. ASSUME NEW i \in Ids \ {n}
        PROVE  /\ inv'[i].sched = inv[i].sched /\ inv'[i].at = inv[i].at
               /\ inv'[i].source = inv[i].source
               /\ i \in p.old => /\ inv'[i].status = "cancelled"
                                 /\ inv'[i].reason = "superseded"
               /\ i \notin p.old => inv'[i] = inv[i]
    <3> DEFINE q == Settled(inv[i], "cancelled", "superseded")
    <3>1. /\ q.sched = inv[i].sched /\ q.at = inv[i].at /\ q.source = inv[i].source
          /\ q.status = "cancelled" /\ q.reason = "superseded"
      BY DEF Settled, TypeOK, Invocation
    <3>2. inv'[i] = IF i \in p.old THEN q ELSE inv[i] BY <2>1
    <3> HIDE DEF q
    <3> QED BY <3>1, <3>2
  <2>6. OneActive'
    <3>1. ASSUME inv'[n].status \in Active, NEW i \in Ids \ {n}, inv'[i].status \in Active
          PROVE  OperatorOf[inv'[i].sched] # OperatorOf[s]
      <4>1. p.old = ActiveOf(inv, OperatorOf[s]) BY <2>2, <2>3, <2>4, <3>1
      <4>2. i \notin p.old /\ inv'[i] = inv[i] BY <2>4, <2>5, <3>1
      <4> QED BY <3>1, <4>1, <4>2 DEF ActiveOf
    <3>2. \A i \in Ids \ {n} : inv'[i].status \in Active => inv[i].status \in Active
      BY <2>4, <2>5
    <3>3. ASSUME NEW i \in Ids, NEW j \in Ids,
                 inv'[i].status \in Active, inv'[j].status \in Active,
                 OperatorOf[inv'[i].sched] = OperatorOf[inv'[j].sched]
          PROVE  i = j
      <4>1. CASE i = n \/ j = n BY <2>3, <3>1, <3>3, <4>1
      <4>2. CASE i # n /\ j # n
        <5>1. /\ inv[i].status \in Active /\ inv[j].status \in Active
              /\ OperatorOf[inv[i].sched] = OperatorOf[inv[j].sched]
          BY <2>5, <3>2, <3>3, <4>2
        <5> QED BY <5>1 DEF ActiveInv, OneActive
      <4> QED BY <4>1, <4>2
    <3> QED BY <3>3 DEF OneActive
  <2>7. ASSUME NEW i \in Ids, inv'[i].reason = "superseded"
        PROVE  \E j \in Ids : j <= lastId' /\ Replaces(j, i)'
    <3>1. i # n BY <2>2, <2>3, <2>4, <2>7
    <3>2. CASE i \in p.old
      <4>1. p.reason = "" /\ i \in ActiveOf(inv, OperatorOf[s]) /\ inv[i].at < t
        BY <2>2, <3>2
      <4>2. inv[i].status \in Active /\ OperatorOf[inv[i].sched] = OperatorOf[s]
        BY <4>1 DEF ActiveOf
      <4>3. n > i BY <2>n, <4>2 DEF ActiveInv, Ids, TypeOK
      <4>4. inv[i].at \in Nat BY DEF TypeOK, Invocation
      <4>5. inv'[n].at > inv'[i].at BY <2>3, <2>5, <2>u, <3>1, <4>1, <4>4
      <4>6. /\ OperatorOf[inv'[n].sched] = OperatorOf[inv'[i].sched]
            /\ inv'[n].source = "scheduled" /\ inv'[n].reason \notin NeverRun
        BY <2>3, <2>4, <2>5, <3>1, <4>1, <4>2
      <4>7. Replaces(n, i)' BY <4>3, <4>5, <4>6 DEF Replaces
      <4>8. n <= lastId' BY <2>1 DEF Ids
      <4> QED BY <2>1, <4>7, <4>8
    <3>3. CASE i \notin p.old
      <4>1. inv'[i] = inv[i] BY <2>5, <3>1, <3>3
      <4>2. PICK j \in Ids : j <= lastId /\ Replaces(j, i) BY <2>7, <4>1 DEF ActiveInv
      <4>3. j # n /\ j <= lastId' BY <2>n, <2>1, <4>2 DEF Ids, TypeOK
      <4>4. inv'[j].reason \notin NeverRun BY <2>4, <2>5, <4>2, <4>3 DEF Replaces
      <4>5. Replaces(j, i)' BY <2>5, <4>1, <4>2, <4>3, <4>4 DEF Replaces
      <4> QED BY <4>3, <4>5
    <3> QED BY <3>2, <3>3
  <2>8. \A i \in Ids : i > lastId' => inv'[i].status \notin Active
    <3>1. \A i \in Ids : i > lastId' => i # n /\ i > lastId
      BY <2>n, <2>1 DEF Ids, TypeOK
    <3> QED BY <2>4, <2>5, <3>1 DEF ActiveInv
  <2> QED BY <2>6, <2>7, <2>8 DEF ActiveInv
<1> QED BY <1>1, <1>2, Materializes

LEMMA InitActive == Init => ActiveInv
<1> SUFFICES ASSUME Init PROVE ActiveInv
  OBVIOUS
<1>1. /\ \A i \in Ids : inv[i] = Unused
      /\ Unused.status \notin Active /\ Unused.reason # "superseded"
  BY DEF Init, Unused, Active
<1> QED BY <1>1 DEF ActiveInv, OneActive

LEMMA StepActive == TypeOK /\ ActiveInv /\ [Next]_vars => ActiveInv'
<1> SUFFICES ASSUME TypeOK, ActiveInv, [Next]_vars PROVE ActiveInv'
  OBVIOUS
<1>1. CASE \E s \in Schedules : RunNow(s) BY <1>1, RunNowKeepsActive
<1>2. CASE \E s \in Schedules : Materialize(s) BY <1>2, MaterializeKeepsActive
<1>3. CASE Next /\ ~ Adds BY <1>3, StepsFollow, FollowingKeepsActive
<1>4. CASE UNCHANGED vars
  BY <1>4 DEF vars, ActiveInv, OneActive, Replaces
<1> QED BY <1>1, <1>2, <1>3, <1>4 DEF Adds

LEMMA ActiveHolds == Spec => [](TypeOK /\ ActiveInv)
<1>1. Init => TypeOK /\ ActiveInv BY InitTypes, InitActive
<1>2. TypeOK /\ ActiveInv /\ [Next]_vars => (TypeOK /\ ActiveInv)'
  BY StepTypes, StepActive
<1> QED BY <1>1, <1>2, PTL DEF Spec

\* An Operator never has two active invocations, so that the unique index of
\* the table is never hit by a materialisation.
THEOREM OperatorsHaveOneActive == Spec => []OneActive
<1>1. ActiveInv => OneActive BY DEF ActiveInv
<1> QED BY <1>1, ActiveHolds, PTL

\* An occurrence gives way only to a younger one that was really queued.
THEOREM SupersededAreReplaced == Spec => []SupersededIsReplaced
<1>1. ActiveInv => SupersededIsReplaced
  BY DEF ActiveInv, SupersededIsReplaced, Replaces
<1> QED BY <1>1, ActiveHolds, PTL

=============================================================================

-------------------------- MODULE OperatorSchedule --------------------------
(***************************************************************************)
(* Schedules of an Operator and their invocations                          *)
(* (server/services/operatorScheduleService.js) with the process that      *)
(* materialises, claims and delivers them (operatorScheduler.js).          *)
(*                                                                         *)
(* `sched' and `inv' are SQLite tables: they survive a crash.  One server  *)
(* process at a time runs the scheduler.  Its tick is one uninterrupted    *)
(* run of the event loop, but every transaction of it commits by itself,   *)
(* so each is a step and a crash may come between any two (`pc').  Only a  *)
(* delivery is awaited: `flights' are the deliveries in progress.          *)
(*                                                                         *)
(* The receiver of a delivery is the Manager message queue: it starts a    *)
(* model turn at most once per accepted delivery and refuses only what has *)
(* not started (ManagerQueue, ImmediateAtMostOnce).  It is given here no   *)
(* memory of earlier deliveries, so that nothing but the scheduler keeps a *)
(* turn from being repeated.                                               *)
(***************************************************************************)
EXTENDS Naturals, FiniteSets

CONSTANTS
    Schedules,      \* operator_schedules, their ids in order
    Operators,      \* operator instances
    OperatorOf,     \* operator_instance_id
    Rule,           \* per schedule: [kind, step]; `step' is `at' of a once rule
    Skipping,       \* schedules with misfire_policy = 'skip'
    Grace,          \* per schedule: grace_seconds; NoTime is NULL
    DailyCap,       \* max_runs_per_day
    Day,            \* length of the window countRecent looks at
    Expiry,         \* MIN_EXPIRY_AGE_MS
    Stale,          \* RUNNING_RECONCILE_MIN_AGE_MS
    MaxFailures,    \* consecutive failures that disable a schedule
    Concurrency,    \* delivery lanes of a tick
    NoTime,         \* a NULL timestamp, later than any time
    LastFire,       \* bound: nothing is materialised or run by hand later
    MaxTime,        \* bound: the clock
    MaxIds,         \* bound: invocations inserted
    MaxEdits,       \* bound: edits, archives and deletions by the user
    MaxManual,      \* bound: run-now requests
    MaxCrashes      \* bound: crashes of the server

ASSUME ScheduleAssumption ==
    /\ Schedules \subseteq Nat /\ Schedules # {}
    /\ OperatorOf \in [Schedules -> Operators]
    /\ Rule \in [Schedules -> [kind : {"once", "interval", "daily"},
                               step : Nat \ {0}]]
    /\ Skipping \subseteq Schedules
    /\ Grace \in [Schedules -> Nat]
    /\ DailyCap \in Nat \ {0}
    /\ Day \in Nat /\ Expiry \in Nat /\ Stale \in Nat
    /\ MaxFailures \in Nat \ {0}
    /\ Concurrency \in Nat \ {0}
    /\ NoTime \in Nat /\ LastFire \in Nat /\ MaxTime \in Nat
    /\ MaxTime < NoTime
    /\ MaxIds \in Nat /\ MaxEdits \in Nat /\ MaxManual \in Nat
    /\ MaxCrashes \in Nat

VARIABLES
    now,        \* the clock
    sched,      \* operator_schedules
    inv,        \* operator_invocations, by insertion order
    lastId,     \* the last invocation inserted
    pc,         \* what the server is doing between two commits
    booting,    \* is the running tick the recovery at start?
    inflight,   \* is a tick in progress (the scheduler's `inflight')?
    todo,       \* due schedules the tick still has to materialise
    lanes,      \* lanes of the tick about to claim
    flights,    \* deliveries: awaited while `open', `up' once their turn started
    turn,       \* the model turn of an invocation, by invocation
    ended,      \* has its manager run ended, or its queue row failed?
    started,    \* history: model turns started for an invocation
    edits, manual, crashes      \* counters of the bounded events

vars == <<now, sched, inv, lastId, pc, booting, inflight, todo, lanes, flights,
          turn, ended, started, edits, manual, crashes>>
process == <<pc, booting, inflight, todo, lanes, flights>>
outside == <<turn, ended, started>>
counters == <<edits, manual, crashes>>

-----------------------------------------------------------------------------
Ids == 1 .. MaxIds
Active == {"pending", "claimed", "delivering", "running"}
Terminal == {"completed", "failed", "cancelled", "uncertain"}

\* Reasons of rows that are inserted terminal.
NeverRun == {"missed_grace", "missed_skip", "daily_cap_reached",
             "operator_active_skipped"}
Reasons == NeverRun \cup {"", "schedule_disabled", "project_deleted",
    "superseded", "expired", "schedule_changed", "operator_disabled", "top_unavailable",
    "operator_busy", "delivery_uncertain", "recovered_claim",
    "restart_delivery_uncertain", "manager_run_terminal"}

Schedule == [enabled : BOOLEAN, archived : BOOLEAN, revision : Nat,
             next : Nat, failures : Nat]

\* A claim token is a fresh UUID: the number of claims of the row; 0 is NULL.
Invocation == [sched : Schedules, revision : Nat,
               source : {"scheduled", "manual_run_now"}, at : Nat,
               status : Active \cup Terminal \cup {"none"},
               after : Nat, attempts : Nat, token : Nat, begun : Nat,
               reason : Reasons]
Unused == [sched |-> CHOOSE s \in Schedules : TRUE, revision |-> 0,
           source |-> "scheduled", at |-> 0, status |-> "none", after |-> 0,
           attempts |-> 0, token |-> 0, begun |-> 0, reason |-> ""]

\* nextFireForRule: the first fire time later than t.
Fire(s, t) ==
    LET r == Rule[s] IN
    IF r.kind = "once" THEN IF r.step > t THEN r.step ELSE NoTime
    ELSE IF r.kind = "interval" THEN t + r.step
    ELSE ((t \div r.step) + 1) * r.step

ActiveOf(I, o) == {i \in Ids : I[i].status \in Active
                               /\ OperatorOf[I[i].sched] = o}

\* countRecent: rows of the last day that were not cancelled.
Capped(s) ==
    Cardinality({i \in Ids : /\ inv[i].sched = s
                             /\ inv[i].status \notin {"none", "cancelled"}
                             /\ inv[i].at + Day >= now}) >= DailyCap

\* Every terminal UPDATE clears the token; the reason says why.  The columns
\* that nothing reads of a settled row are forgotten with it.
Settled(r, status, reason) ==
    [r EXCEPT !.status = status, !.reason = reason, !.token = 0, !.revision = 0,
              !.after = 0, !.attempts = 0, !.begun = 0]
Cancelled(r, reason) == Settled(r, "cancelled", reason)

\* The rows of set C settled by one UPDATE.
SettleAll(C, status, reason) ==
    [i \in Ids |-> IF i \in C THEN Settled(inv[i], status, reason) ELSE inv[i]]

\* incrementFailures, for the schedule of an invocation.
Blamed(s) ==
    LET n == sched[s].failures + 1 IN
    [sched EXCEPT ![s].failures = n,
                  ![s].enabled = IF n >= MaxFailures THEN FALSE ELSE @,
                  ![s].next = IF n >= MaxFailures THEN NoTime ELSE @]
Praised(s) == [sched EXCEPT ![s].failures = 0]

-----------------------------------------------------------------------------
(* The user's operations                                                   *)

Idle == pc = "idle"

\* cancelPending: what has not been handed over is cancelled with its schedule.
Waiting(S) == {i \in Ids : /\ inv[i].sched \in S
                           /\ inv[i].status \in {"pending", "claimed"}}

\* updateSchedule: a new revision, the next fire time anew.
Edited(s, enable) ==
    [sched[s] EXCEPT !.enabled = enable, !.revision = @ + 1,
                     !.next = IF enable THEN Fire(s, now) ELSE NoTime]
Update(s, enable) ==
    /\ Idle /\ edits < MaxEdits
    /\ ~ sched[s].archived
    /\ enable => Fire(s, now) # NoTime
    /\ edits' = edits + 1
    /\ sched' = [sched EXCEPT ![s] = Edited(s, enable)]
    /\ inv' = IF enable THEN inv
              ELSE SettleAll(Waiting({s}), "cancelled", "schedule_disabled")
    /\ UNCHANGED <<now, lastId, process, outside, manual, crashes>>

Retired(S) == [s \in Schedules |->
    IF s \in S /\ ~ sched[s].archived
    THEN [sched[s] EXCEPT !.enabled = FALSE, !.next = NoTime,
                          !.archived = TRUE, !.revision = @ + 1]
    ELSE sched[s]]

\* archiveSchedule
Archive(s) ==
    /\ Idle /\ edits < MaxEdits
    /\ ~ sched[s].archived
    /\ edits' = edits + 1
    /\ sched' = Retired({s})
    /\ inv' = SettleAll(Waiting({s}), "cancelled", "schedule_disabled")
    /\ UNCHANGED <<now, lastId, process, outside, manual, crashes>>

\* archiveForProjectDeletion of an Operator's primary project: rows that are
\* being delivered or run are cancelled too.
DeleteProject(o) ==
    LET S == {s \in Schedules : OperatorOf[s] = o} IN
    /\ Idle /\ edits < MaxEdits
    /\ \E s \in S : ~ sched[s].archived
    /\ edits' = edits + 1
    /\ sched' = Retired(S)
    /\ inv' = SettleAll(ActiveOf(inv, o), "cancelled", "project_deleted")
    /\ UNCHANGED <<now, lastId, process, outside, manual, crashes>>

Inserted(s, source, at) ==
    [Unused EXCEPT !.sched = s, !.revision = sched[s].revision,
                   !.source = source, !.at = at, !.status = "pending", !.after = now]

\* runNow; the unique indexes refuse a second active row of the Operator and
\* a second row of an occurrence.
OnRecord(s, t) == \E i \in 1 .. lastId : inv[i].sched = s /\ inv[i].at = t
RunNow(s) ==
    /\ Idle /\ manual < MaxManual /\ now <= LastFire /\ lastId < MaxIds
    /\ ~ sched[s].archived
    /\ ~ Capped(s)
    /\ ActiveOf(inv, OperatorOf[s]) = {} /\ ~ OnRecord(s, now)
    /\ manual' = manual + 1
    /\ lastId' = lastId + 1
    /\ inv' = [inv EXCEPT ![lastId + 1] =
                  Inserted(s, "manual_run_now", now)]
    /\ UNCHANGED <<now, sched, process, outside, edits, crashes>>

-----------------------------------------------------------------------------
(* The tick: reconcile, sweep, expire, materialise, then the lanes         *)

Tick ==
    /\ Idle /\ ~ inflight
    /\ pc' = "reconcile" /\ inflight' = TRUE
    /\ UNCHANGED <<now, sched, inv, lastId, booting, todo, lanes, flights,
                   outside, counters>>

\* completeInvocation of a running row by its terminal event.
Complete(i) ==
    /\ inv' = [inv EXCEPT ![i] =
                  Settled(@, IF turn[i] = "done" THEN "completed" ELSE "failed", "")]
    /\ sched' = IF turn[i] = "done" THEN Praised(inv[i].sched)
                                    ELSE Blamed(inv[i].sched)

\* Running rows whose terminal event is stored.
\* Mutant: stored events are looked for at boot only.
Provable_BootOnly == {i \in Ids : /\ booting
                                  /\ inv[i].status = "running"
                                  /\ turn[i] \in {"done", "failed"}}
Provable == {i \in Ids : /\ inv[i].status = "running"
                         /\ turn[i] \in {"done", "failed"}}

\* reconcilePersistedTerminalEvents
Reconcile ==
    /\ pc = "reconcile"
    /\ IF Provable # {}
       THEN /\ \E i \in Provable : Complete(i)
            /\ pc' = pc
       ELSE /\ pc' = "sweep"
            /\ UNCHANGED <<inv, sched>>
    /\ UNCHANGED <<now, lastId, booting, inflight, todo, lanes, flights,
                   outside, counters>>

\* sweepTerminalRunning: old running rows whose manager run has ended.
Sweep ==
    LET lost == {i \in Ids : /\ inv[i].status = "running"
                             /\ inv[i].begun + Stale <= now
                             /\ ended[i]}
    IN  /\ pc = "sweep"
        /\ inv' = SettleAll(lost, "uncertain", "manager_run_terminal")
        /\ pc' = IF booting THEN "backstop" ELSE "expire"
        /\ UNCHANGED <<now, sched, lastId, booting, inflight, todo, lanes,
                       flights, outside, counters>>

Due == {s \in Schedules : /\ sched[s].enabled /\ ~ sched[s].archived
                          /\ sched[s].next <= now /\ now <= LastFire}

\* expiryAgeMs: a day, or two periods of a recurring rule.
ExpiryAge(r) ==
    IF r.source = "scheduled" /\ Rule[r.sched].kind # "once"
       /\ 2 * Rule[r.sched].step > Expiry
    THEN 2 * Rule[r.sched].step ELSE Expiry

\* The rows sweepExpired gives up: tried, and too old to be of use.  (A claimed
\* row whose lease ran out would be one too; in one process no claim outlives
\* the tick that made it.)  Mutant: only those never claimed.
Overdue_Untried == {i \in Ids : /\ inv[i].status = "pending"
                                /\ inv[i].attempts = 0
                                /\ now > inv[i].at + ExpiryAge(inv[i])}
Overdue == {i \in Ids : /\ inv[i].status = "pending"
                        /\ inv[i].attempts >= 1
                        /\ now > inv[i].at + ExpiryAge(inv[i])}

\* sweepExpired, then materializeDue looks for its schedules.
Expire ==
    /\ pc = "expire"
    /\ inv' = SettleAll(Overdue, "cancelled", "expired")
    /\ pc' = "materialize"
    /\ todo' = Due
    /\ UNCHANGED <<now, sched, lastId, booting, inflight, lanes, flights,
                   outside, counters>>

\* advancePastNow: the last fire time from the cursor to now, and whether
\* others were passed over.
Behind(s) == now - sched[s].next
Latest(s) == IF Rule[s].kind = "once" THEN sched[s].next
             ELSE now - (Behind(s) % Rule[s].step)
PassedOver(s) == Rule[s].kind # "once" /\ Behind(s) >= Rule[s].step

\* Why occurrence Latest(s) is not run at all, or "".
\* Mutant: a reason the console does not know.
Misses_Unnamed(s) ==
    IF Grace[s] # NoTime /\ now - Latest(s) > Grace[s] THEN "missed"
    ELSE IF s \in Skipping /\ PassedOver(s) THEN "missed"
    ELSE ""
Misses(s) ==
    IF Grace[s] # NoTime /\ now - Latest(s) > Grace[s] THEN "missed_grace"
    ELSE IF s \in Skipping /\ PassedOver(s) THEN "missed_skip"
    ELSE ""

\* An active row that a younger occurrence replaces.
Supersedable(i, t) == /\ inv[i].source = "scheduled"
                      /\ inv[i].status \in {"pending", "claimed"}
                      /\ inv[i].at < t

\* What materializeDue inserts for occurrence t of s, and what it cancels.
\* Mutants: the older row is not cancelled; it is cancelled before the cap is
\* looked at.
Plan_KeepsOld(s, t) ==
    LET A == ActiveOf(inv, OperatorOf[s]) IN
    [reason |-> IF Misses(s) = "" /\ \E i \in A : ~ Supersedable(i, t)
                THEN "operator_active_skipped" ELSE Misses(s),
     old |-> {}]
Plan_CapLast(s, t) ==
    LET A == ActiveOf(inv, OperatorOf[s])
        old == {i \in A : Supersedable(i, t)} IN
    IF Misses(s) # "" THEN [reason |-> Misses(s), old |-> {}]
    ELSE IF A # old
    THEN [reason |-> "operator_active_skipped", old |-> {}]
    ELSE IF Capped(s)
    THEN [reason |-> "daily_cap_reached", old |-> old]
    ELSE [reason |-> "", old |-> old]
Plan(s, t) ==
    LET A == ActiveOf(inv, OperatorOf[s])
        old == {i \in A : Supersedable(i, t)} IN
    IF Misses(s) # "" THEN [reason |-> Misses(s), old |-> {}]
    ELSE IF Capped(s)
    THEN [reason |-> "daily_cap_reached", old |-> {}]
    ELSE IF A # old
    THEN [reason |-> "operator_active_skipped", old |-> {}]
    ELSE [reason |-> "", old |-> old]

\* insertInvocationFromSchedule, or the row of an occurrence that is not run.
Recorded(s, t, reason) ==
    LET r == Inserted(s, "scheduled", t) IN
    IF reason = "" THEN r ELSE Cancelled(r, reason)

\* updateNextFire
MovedPast(s, t) ==
    [sched[s] EXCEPT
        !.next = IF Rule[s].kind = "once" THEN NoTime ELSE t + Rule[s].step,
        !.enabled = Rule[s].kind # "once"]

\* One transaction of materializeDue: the cursor, the superseded row and the
\* new row together.  An occurrence on record already (a manual run of that
\* instant) is not recorded as missed again; inserted as pending, it breaks the
\* unique index and the whole transaction is rolled back.
Materialize(s) ==
    LET t == Latest(s)
        p == Plan(s, t) IN
    /\ pc = "materialize" /\ s \in todo /\ s \in Due
    /\ \A u \in todo : \/ sched[s].next < sched[u].next
                       \/ sched[s].next = sched[u].next /\ s <= u
    /\ lastId < MaxIds
    /\ todo' = todo \ {s}
    /\ IF OnRecord(s, t) /\ p.reason = ""
       THEN UNCHANGED sched
       ELSE sched' = [sched EXCEPT ![s] = MovedPast(s, t)]
    /\ IF OnRecord(s, t)
       THEN UNCHANGED <<inv, lastId>>
       ELSE /\ lastId' = lastId + 1
            /\ inv' = [SettleAll(p.old, "cancelled", "superseded") EXCEPT
                          ![lastId + 1] = Recorded(s, t, p.reason)]
    /\ UNCHANGED <<now, pc, booting, inflight, lanes, flights, outside, counters>>

\* drainAll opens its lanes.
OpenLanes ==
    /\ pc = "materialize"
    /\ todo = {} \/ lastId = MaxIds
    /\ pc' = "drain" /\ lanes' = Concurrency /\ todo' = {}
    /\ UNCHANGED <<now, sched, inv, lastId, booting, inflight, flights, outside,
                   counters>>

\* dueInvocation: the first pending row whose time has come.
Before(i, j) == \/ inv[i].after < inv[j].after
                \/ inv[i].after = inv[j].after /\ inv[i].at < inv[j].at
                \/ inv[i].after = inv[j].after /\ inv[i].at = inv[j].at /\ i <= j
Runnable == {i \in Ids : inv[i].status = "pending" /\ inv[i].after <= now}

\* claimNext
Taken(r) == [r EXCEPT !.status = "claimed", !.reason = "",
                      !.attempts = @ + 1, !.token = r.attempts + 1]
Claim(i) ==
    /\ pc = "drain" /\ lanes > 0
    /\ i \in Runnable /\ \A j \in Runnable : Before(i, j)
    /\ inv' = [inv EXCEPT ![i] = Taken(@)]
    /\ pc' = "deliver"
    /\ UNCHANGED <<now, sched, lastId, booting, inflight, todo, lanes, flights,
                   outside, counters>>

\* The lanes find nothing: they end, and with the last delivery the tick.
Open == {f \in flights : f.open}
LanesEnd ==
    /\ pc = "drain"
    /\ lanes = 0 \/ Runnable = {}
    /\ pc' = "idle"
    /\ lanes' = 0
    /\ inflight' = (Open # {})
    /\ UNCHANGED <<now, sched, inv, lastId, booting, todo, flights, outside,
                   counters>>

\* releaseClaim: back to pending after a delay.
Released(r, reason) ==
    [r EXCEPT !.status = "pending", !.token = 0, !.after = now + 1,
              !.reason = reason]

\* deliver up to the await: the snapshot is checked against the schedule, the
\* Top manager and the node must be there, then the row is marked `delivering'
\* and the message handed over.  Mutant: the row stays `claimed' meanwhile.
Handed_StillClaimed(r) == r
Handed(r) == [r EXCEPT !.status = "delivering", !.reason = ""]


Fresh(i) == LET s == sched[inv[i].sched] IN
            ~ s.archived /\ s.revision = inv[i].revision

\* cancelClaim: the schedule changed under the row, or its project, folder or
\* Operator is gone or disabled.
DeliverCancelled(i, reason) ==
    /\ pc = "deliver" /\ inv[i].status = "claimed"
    /\ reason = "schedule_changed" <=> ~ Fresh(i)
    /\ inv' = [inv EXCEPT ![i] = Cancelled(@, reason)]
    /\ pc' = "drain"
    /\ UNCHANGED <<now, sched, lastId, booting, inflight, todo, lanes, flights,
                   outside, counters>>

Deliver(i, ready) ==
    /\ pc = "deliver" /\ inv[i].status = "claimed" /\ Fresh(i)
    /\ IF ready
       THEN /\ inv' = [inv EXCEPT ![i] = Handed(@)]
            /\ flights' = flights \cup {[id |-> i, token |-> inv[i].token,
                                        open |-> TRUE, up |-> FALSE]}
            /\ lanes' = lanes - 1
       ELSE /\ inv' = [inv EXCEPT ![i] = Released(@, "top_unavailable")]
            /\ UNCHANGED <<flights, lanes>>
    /\ pc' = "drain"
    /\ UNCHANGED <<now, sched, lastId, booting, inflight, todo, outside, counters>>

-----------------------------------------------------------------------------
(* The answer of a delivery, in the lane that made it                      *)

\* status IN ('claimed','delivering') AND claim_token = ?
Held(f) == /\ inv[f.id].status \in {"claimed", "delivering"}
           /\ inv[f.id].token = f.token

\* The lane goes on to claim the next row.
Answered(f) ==
    /\ Idle /\ f \in Open
    /\ lanes' = 1
    /\ pc' = "drain"
    /\ UNCHANGED <<now, lastId, booting, inflight, todo, outside, counters>>

Running(r) == [r EXCEPT !.status = "running", !.token = 0, !.begun = now]

\* markRunning; a lost claim makes it throw, and failClaim then finds nothing.
Accepted(f) ==
    /\ Answered(f) /\ f.up
    /\ flights' = flights \ {f}
    /\ inv' = IF inv[f.id].status = "delivering" /\ Held(f)
              THEN [inv EXCEPT ![f.id] = Running(@)]
              ELSE inv
    /\ UNCHANGED sched

\* Busy, missing, unavailable: tried again later under the same id.
Refused(f) ==
    /\ Answered(f) /\ ~ f.up
    /\ flights' = flights \ {f}
    /\ inv' = IF Held(f) THEN [inv EXCEPT ![f.id] = Released(@, "operator_busy")]
                         ELSE inv
    /\ UNCHANGED sched

\* A permanent refusal: failClaim, and the failure is counted.
Rejected(f) ==
    /\ Answered(f) /\ ~ f.up
    /\ flights' = flights \ {f}
    /\ IF Held(f)
       THEN /\ inv' = [inv EXCEPT ![f.id] = Settled(@, "failed", "")]
            /\ sched' = Blamed(inv[f.id].sched)
       ELSE UNCHANGED <<inv, sched>>

\* Any other error: the turn may have started, or start yet, so never again.
\* Mutant: it is tried again like a refusal.
Unknown_Retried(r) == Released(r, "operator_busy")
Unknown(r) == Settled(r, "uncertain", "delivery_uncertain")
Unsure(f) ==
    /\ Answered(f)
    /\ flights' = (flights \ {f}) \cup {[f EXCEPT !.open = FALSE]}
    /\ inv' = IF Held(f) THEN [inv EXCEPT ![f.id] = Unknown(@)] ELSE inv
    /\ UNCHANGED sched

-----------------------------------------------------------------------------
(* The receiver and its model turns                                        *)

\* The queue starts the turn of a delivery, answered or not.
TurnStarts(f) ==
    /\ Idle /\ f \in flights /\ ~ f.up
    /\ flights' = (flights \ {f}) \cup {[f EXCEPT !.up = TRUE]}
    /\ turn' = [turn EXCEPT ![f.id] = "running"]
    /\ started' = [started EXCEPT ![f.id] = @ + 1]
    /\ UNCHANGED <<now, sched, inv, lastId, pc, booting, inflight, todo, lanes,
                   ended, counters>>

\* The terminal event is stored; onEvent completes the row if it runs already.
TurnEnds(i, ok, heard) ==
    /\ Idle /\ turn[i] = "running"
    /\ turn' = [turn EXCEPT ![i] = IF ok THEN "done" ELSE "failed"]
    /\ IF heard /\ inv[i].status = "running"
       THEN /\ inv' = [inv EXCEPT ![i] =
                          Settled(@, IF ok THEN "completed" ELSE "failed", "")]
            /\ sched' = IF ok THEN Praised(inv[i].sched) ELSE Blamed(inv[i].sched)
       ELSE UNCHANGED <<inv, sched>>
    /\ UNCHANGED <<now, lastId, process, ended, started, counters>>

\* The session dies under the turn: no terminal event.
TurnDies(i) ==
    /\ Idle /\ turn[i] = "running"
    /\ turn' = [turn EXCEPT ![i] = "lost"]
    /\ ended' = [ended EXCEPT ![i] = TRUE]
    /\ UNCHANGED <<now, sched, inv, lastId, process, started, counters>>

\* A manager run that has finished its turn ends.  (Once the row is settled
\* nothing looks at its run.)
RunEnds(i) ==
    /\ Idle /\ turn[i] \in {"done", "failed"} /\ ~ ended[i]
    /\ inv[i].status \in Active
    /\ ended' = [ended EXCEPT ![i] = TRUE]
    /\ UNCHANGED <<now, sched, inv, lastId, process, turn, started, counters>>

-----------------------------------------------------------------------------
(* Crash and restart, time                                                 *)

\* A restart kills the adapter children; nothing records their turns' ends.
\* What the queue holds may still be started by its next process.
Crash ==
    /\ pc # "down" /\ crashes < MaxCrashes
    /\ crashes' = crashes + 1
    /\ pc' = "down"
    /\ booting' = FALSE /\ inflight' = FALSE
    /\ todo' = {} /\ lanes' = 0
    /\ flights' = {[f EXCEPT !.open = FALSE] : f \in flights}
    /\ turn' = [i \in Ids |-> IF turn[i] = "running" THEN "lost" ELSE turn[i]]
    /\ UNCHANGED <<now, sched, inv, lastId, ended, started, edits, manual>>

\* The rows recoverClaimed puts back.  Mutant: also those being delivered.
Requeued_Delivering == {i \in Ids : inv[i].status \in {"claimed", "delivering"}}
Requeued == {i \in Ids : inv[i].status = "claimed"}

\* start, recoverAfterRestart: recoverClaimed first.
Boot ==
    /\ pc = "down"
    /\ pc' = "reconcile" /\ booting' = TRUE /\ inflight' = TRUE
    /\ inv' = [i \in Ids |->
                  IF i \in Requeued
                  THEN [Released(inv[i], "recovered_claim") EXCEPT !.after = now]
                  ELSE inv[i]]
    /\ UNCHANGED <<now, sched, lastId, todo, lanes, flights, outside, counters>>

\* What the restart can no longer learn about.
\* Mutant: rows already `running' are left to the sweeps.
Unknowable_Delivering == {i \in Ids : inv[i].status = "delivering"}
Unknowable == {i \in Ids : inv[i].status \in {"delivering", "running"}}

\* markDeliveryUncertain, then the first tick.
Backstop ==
    /\ pc = "backstop"
    /\ inv' = SettleAll(Unknowable, "uncertain", "restart_delivery_uncertain")
    /\ pc' = "reconcile" /\ booting' = FALSE
    /\ UNCHANGED <<now, sched, lastId, inflight, todo, lanes, flights, outside,
                   counters>>

Advance ==
    /\ pc \in {"idle", "down"} /\ now < MaxTime
    /\ now' = now + 1
    /\ UNCHANGED <<sched, inv, lastId, process, outside, counters>>

-----------------------------------------------------------------------------
\* createSchedule for each of them.
Init ==
    /\ now = 0
    /\ sched = [s \in Schedules |->
                   [enabled |-> TRUE, archived |-> FALSE, revision |-> 1,
                    next |-> Fire(s, 0), failures |-> 0]]
    /\ inv = [i \in Ids |-> Unused]
    /\ lastId = 0
    /\ pc = "down" /\ booting = FALSE /\ inflight = FALSE
    /\ todo = {} /\ lanes = 0 /\ flights = {}
    /\ turn = [i \in Ids |-> "none"]
    /\ ended = [i \in Ids |-> FALSE]
    /\ started = [i \in Ids |-> 0]
    /\ edits = 0 /\ manual = 0 /\ crashes = 0

TickStep ==
    \/ Reconcile \/ Sweep \/ Backstop \/ Expire \/ OpenLanes \/ LanesEnd
    \/ \E s \in Schedules : Materialize(s)
    \/ \E i \in Ids : \/ Claim(i)
                      \/ \E why \in {"schedule_changed", "operator_disabled"} :
                            DeliverCancelled(i, why)
                      \/ \E ready \in BOOLEAN : Deliver(i, ready)

Answer(f) == Accepted(f) \/ Refused(f) \/ Rejected(f) \/ Unsure(f)

UserStep ==
    \/ \E s \in Schedules : \/ \E enable \in BOOLEAN : Update(s, enable)
                            \/ Archive(s) \/ RunNow(s)
    \/ \E o \in Operators : DeleteProject(o)

TurnOver(i) == TurnDies(i) \/ \E ok, heard \in BOOLEAN : TurnEnds(i, ok, heard)

Next ==
    \/ Tick \/ TickStep \/ UserStep \/ Crash \/ Boot \/ Advance
    \/ \E f \in flights : TurnStarts(f) \/ Answer(f)
    \/ \E i \in Ids : TurnOver(i) \/ RunEnds(i)

Spec == Init /\ [][Next]_vars

\* The interval fires, a tick goes on, a delivery is answered (the queue times
\* it out) and a dead server is started.  Ticks interrupt the rest over and
\* over, so a turn's end and the clock need strong fairness.
FairSpec ==
    /\ Spec
    /\ WF_vars(Tick) /\ WF_vars(TickStep) /\ WF_vars(Boot) /\ SF_vars(Advance)
    /\ WF_vars(\E f \in flights : Answer(f))
    /\ \A i \in Ids : SF_vars(TurnOver(i))

-----------------------------------------------------------------------------
(* Properties                                                              *)

Flight == [id : Ids, token : Nat, open : BOOLEAN, up : BOOLEAN]

\* The tables and the process are well formed.
TypeOK ==
    /\ now \in Nat /\ lastId \in 0 .. MaxIds
    /\ lanes \in Nat /\ (pc = "deliver" => lanes > 0)
    /\ sched \in [Schedules -> Schedule]
    /\ inv \in [Ids -> Invocation]
    /\ pc \in {"down", "idle", "reconcile", "sweep", "backstop", "expire",
               "materialize", "drain", "deliver"}
    /\ booting \in BOOLEAN /\ inflight \in BOOLEAN
    /\ todo \in SUBSET Schedules
    /\ flights \in SUBSET Flight
    /\ turn \in [Ids -> {"none", "running", "done", "failed", "lost"}]
    /\ ended \in [Ids -> BOOLEAN]
    /\ started \in [Ids -> Nat]
    /\ edits \in Nat /\ manual \in Nat /\ crashes \in Nat

\* An occurrence is given to a model once, whatever is retried: releases after
\* a refusal, claims recovered at boot, answers lost, deliveries cut by a crash.
OneTurn == \A i \in Ids : started[i] <= 1

\* An Operator has one active invocation (the unique index of migration 068 is
\* a backstop: hitting it would roll the materialisation back for ever).
OneActive ==
    \A i, j \in Ids : /\ inv[i].status \in Active /\ inv[j].status \in Active
                      /\ OperatorOf[inv[i].sched] = OperatorOf[inv[j].sched]
                      => i = j

\* An occurrence gives way only to a younger one of its Operator that was
\* really queued (the comment on the daily cap in materializeDue).
SupersededIsReplaced ==
    \A i \in Ids : inv[i].reason = "superseded" =>
        \E j \in Ids : /\ j > i /\ inv[j].at > inv[i].at
                       /\ OperatorOf[inv[j].sched] = OperatorOf[inv[i].sched]
                       /\ inv[j].source = "scheduled"
                       /\ inv[j].reason \notin NeverRun

\* Recovery is most informative first: a row whose terminal event is stored is
\* never written off as uncertain (recoverAfterRestart, runTick).
KnownOutcomeIsKept ==
    [][\A i \in Ids : inv[i].status = "running" /\ inv'[i].status = "uncertain"
                         => turn[i] \notin {"done", "failed"}]_vars

\* Every invocation ends: none blocks its Operator for ever.
EveryInvocationSettles ==
    \A i \in Ids : inv[i].status \in Active ~> inv[i].status \in Terminal
=============================================================================

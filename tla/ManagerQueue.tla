---------------------------- MODULE ManagerQueue ----------------------------
(***************************************************************************)
(* The durable FIFO message queue of a manager conversation                *)
(* (server/services/managerMessageQueueService.js) with the part of the    *)
(* dispatcher (conversationService.sendToManagerSlot) and of the slot      *)
(* registry (managerRegistry) that decide what happens to a row.           *)
(*                                                                         *)
(* `row' is the SQLite table.  It survives crashes.  Everything indexed by *)
(* an owner is memory of one server process: an owner is one incarnation   *)
(* of the service (its ownerId is a fresh UUID), it boots once and dies    *)
(* once.  A request is one idempotency key; it determines the lane         *)
(* (conversation) and the adapter invocation id, so at most one row exists *)
(* for a request at a time.  A request in Immediate is a scheduler turn    *)
(* (adapter_invocation_id # id), any other is a chat message.              *)
(*                                                                         *)
(* A claim token is a fresh UUID: it is modelled by the number of claims   *)
(* the request has seen, which no two claims share.                        *)
(***************************************************************************)
EXTENDS Naturals, FiniteSets

CONSTANTS
    Requests,       \* idempotency keys
    Immediate,      \* the requests of the Operator scheduler
    Lanes,          \* canonical conversation ids
    LaneOf,         \* the conversation of a request
    Owners,         \* server process incarnations
    NoOwner,        \* claimed_by IS NULL
    Cap,            \* perConversationCap
    MaxRetries,     \* MAX_TERMINAL_RETRIES
    Overlap,        \* may two server processes run at once?
    MaxClaims,      \* bound: refusals re-queue a row only below this many claims
    MaxSeq,         \* bound: AUTOINCREMENT sequence numbers used
    MaxRuns,        \* bound: manager sessions spawned
    MaxExits,       \* bound: owners that stop or crash
    MaxStalls       \* bound: leases lost by a live owner whose timers stall

ASSUME QueueAssumption ==
    /\ Immediate \subseteq Requests
    /\ LaneOf \in [Requests -> Lanes]
    /\ NoOwner \notin Owners
    /\ Cap \in Nat \ {0}
    /\ MaxRetries \in Nat
    /\ Overlap \in BOOLEAN
    /\ MaxClaims \in Nat /\ MaxSeq \in Nat /\ MaxRuns \in Nat
    /\ MaxExits \in Nat /\ MaxStalls \in Nat

VARIABLES
    row,        \* manager_message_queue, by request
    lastSeq,    \* the last AUTOINCREMENT sequence
    mode,       \* life of each owner: unborn, up, stopping, down
    calls,      \* dispatcher calls in flight
    waiting,    \* per owner: immediate enqueue() calls awaiting a drain
    slot,       \* per owner and lane: the registry entry
    lastRun,    \* the last manager run id given out
    turns,      \* model turns running in an adapter session
    outcome,    \* run_events: first terminal event by request and run
    archived,   \* lanes whose Operator instance is archived
    started,    \* history: model turns started for a request
    recoveries, \* history: stale claims of a request taken from their owner
    stalls      \* history: leases lost by a live owner

vars == <<row, lastSeq, mode, calls, waiting, slot, lastRun, turns, outcome,
          archived, started, recoveries, stalls>>

-----------------------------------------------------------------------------
Statuses == {"none", "queued", "sending", "processing",
             "delivered", "failed", "cancelled"}
InFlight == {"sending", "processing"}
Unsettled == {"queued"} \cup InFlight
Settled == {"delivered", "failed", "cancelled"}
Reasons == {"", "turn", "delivery", "session_ended", "restart_uncertain",
            "by_user", "operator_archived"}

Runs == 1 .. MaxRuns
NoRun == 0          \* run_id IS NULL, or an empty registry slot

Row == [status : Statuses, seq : Nat, attempts : Nat, claims : Nat,
        by : Owners \cup {NoOwner}, fresh : BOOLEAN, ready : BOOLEAN,
        run : Nat, reason : Reasons]

\* A dispatcher promise.  `late' is one whose drain gave up on it (timeout);
\* `again' records the drain chained behind it by completeFromEvent.
Call == [owner : Owners, req : Requests, tok : Nat,
         phase : {"dispatching", "accepted", "late"}, run : Nat,
         again : BOOLEAN]

Slot == [run : Nat, alive : BOOLEAN]
EmptySlot == [run |-> NoRun, alive |-> FALSE]

NoRow == [status |-> "none", seq |-> 0, attempts |-> 0, claims |-> 0,
          by |-> NoOwner, fresh |-> FALSE, ready |-> FALSE, run |-> NoRun,
          reason |-> ""]

Alive(o) == mode[o] \in {"up", "stopping"}

\* A drain occupies drains.get(conversationId) until its promise settles.
InLane(k, o, c) == k.owner = o /\ LaneOf[k.req] = c /\ k.phase # "late"
Draining(K, o, c) == \E k \in K : InLane(k, o, c)

\* An immediate enqueue() awaits its own dispatch, or the drain it found.
Awaits(o, q) == \/ \E k \in calls : InLane(k, o, LaneOf[q]) /\ k.req = q
                \/ /\ row[q].status = "queued" /\ row[q].attempts = 0
                   /\ Draining(calls, o, LaneOf[q])

\* The event loop of o runs the microtasks of a settled promise before any
\* timer, socket or child-process callback.
Free(o) == /\ ~ \E k \in calls : k.owner = o /\ k.phase = "accepted"
           /\ \A q \in waiting[o] : Awaits(o, q)

\* Back-offs and leases last a second or more: neither runs out inside one
\* run of the microtask queue.
TimePasses == \A o \in Owners : Alive(o) => Free(o)

\* Mutant: the fence compares the owner but not the claim token.
Held_NoToken(k) == /\ row[k.req].status = "sending"
                   /\ row[k.req].by = k.owner

\* claim_token = ? AND claimed_by = ? AND status = 'sending'
Held(k) == /\ row[k.req].status = "sending"
           /\ row[k.req].by = k.owner
           /\ row[k.req].claims = k.tok

-----------------------------------------------------------------------------
(* Row updates: one operator per prepared UPDATE statement.                *)

Unclaimed(r) == [r EXCEPT !.by = NoOwner, !.fresh = FALSE]

Queued(r, n) == [r EXCEPT !.status = "queued", !.seq = n, !.ready = TRUE,
                          !.attempts = 0, !.reason = "", !.run = NoRun]
Claimed(r, o) == [r EXCEPT !.status = "sending", !.by = o, !.fresh = TRUE,
                           !.claims = @ + 1, !.attempts = @ + 1]
Processing(r, run) == [r EXCEPT !.status = "processing", !.run = run,
                                !.fresh = TRUE]
Released(r, ready) == [Unclaimed(r) EXCEPT !.status = "queued",
                                           !.ready = ready, !.run = NoRun]
Ended(r, status, reason) == [Unclaimed(r) EXCEPT !.status = status,
                                                 !.reason = reason]
Discarded(r) == [NoRow EXCEPT !.claims = r.claims]

\* failRunActive.  Mutant: the rows of a cleared session go back in the queue.
SessionLost_Requeued(r) == Released(r, TRUE)
SessionLost(r) == Ended(r, "failed", "session_ended")

\* completeFromEvent: settle an in-flight row by the terminal event of `run'.
\* Mutants: a failed turn counts as delivered; the result is stored as the
\* status, which the CHECK of the table forbids.
Completed_AlwaysDelivered(r, result) == Ended(r, "delivered", "turn")
Completed_RawResult(r, result) == Ended(r, result, "turn")
Completable(r, run) ==
    /\ r.status \in InFlight
    /\ r.run = run \/ (r.status = "sending" /\ r.run = NoRun)
Completed(r, result) ==
    Ended(r, IF result = "completed" THEN "delivered" ELSE "failed", "turn")

-----------------------------------------------------------------------------
(* drainConversation: claim the head of the lane and call the dispatcher.  *)

Pending(R, c) == {q \in Requests : LaneOf[q] = c /\ R[q].status = "queued"}

\* Mutants: no check for a row in flight; a row that is backing off is passed.
Claimable_NoActiveCheck(R, c) ==
    {q \in Pending(R, c) :
        R[q].ready /\ \A p \in Pending(R, c) : R[q].seq <= R[p].seq}
Claimable_SkipsDelayed(R, c) ==
    {q \in Pending(R, c) :
        /\ R[q].ready
        /\ \A p \in Pending(R, c) : R[p].ready => R[q].seq <= R[p].seq
        /\ ~ \E p \in Requests : LaneOf[p] = c /\ R[p].status \in InFlight}

\* claimTx.  Head-of-line blocking: only the oldest queued row qualifies.
Claimable(R, c) ==
    {q \in Pending(R, c) :
        /\ R[q].ready
        /\ \A p \in Pending(R, c) : R[q].seq <= R[p].seq
        /\ ~ \E p \in Requests : LaneOf[p] = c /\ R[p].status \in InFlight}

\* Drain the lanes cs from the table R and the calls K of this same step.
Drain(o, cs, R, K) ==
    LET picked == {q \in Requests : /\ LaneOf[q] \in cs
                                    /\ q \in Claimable(R, LaneOf[q])
                                    /\ ~ Draining(K, o, LaneOf[q])}
    IN  /\ row' = [q \in Requests |->
                      IF q \in picked THEN Claimed(R[q], o) ELSE R[q]]
        /\ calls' = K \cup {[owner |-> o, req |-> q, tok |-> R[q].claims + 1,
                             phase |-> "dispatching", run |-> NoRun,
                             again |-> FALSE] : q \in picked}

\* `if (stopped) return null'
Kick(o, cs, R, K) == Drain(o, IF mode[o] = "up" THEN cs ELSE {}, R, K)

\* completeFromEvent drains now, or once the drain in progress has unwound.
Chained(K, o, cs) ==
    {IF k.owner = o /\ LaneOf[k.req] \in cs /\ k.phase # "late"
     THEN [k EXCEPT !.again = TRUE] ELSE k : k \in K}

\* The drain of call k ends, leaving table R.
Unwind(k, R) ==
    Kick(k.owner, IF k.again THEN {LaneOf[k.req]} ELSE {}, R, calls \ {k})

-----------------------------------------------------------------------------
(* enqueue, cancel, archive                                                *)

Load(c) == Cardinality({q \in Requests : /\ LaneOf[q] = c
                                         /\ row[q].status \in Unsettled})

\* enqueue() of a new key: durable admission, then a drain of the lane.
Enqueue(o, q) ==
    LET c == LaneOf[q] IN
    /\ Alive(o) /\ Free(o)
    /\ c \notin archived
    /\ row[q].status = "none"
    /\ Load(c) < Cap
    /\ q \in Immediate => Load(c) = 0
    /\ lastSeq < MaxSeq
    /\ lastSeq' = lastSeq + 1
    /\ Kick(o, {c}, [row EXCEPT ![q] = Queued(@, lastSeq + 1)], calls)
    /\ waiting' = [waiting EXCEPT ![o] = IF q \in Immediate THEN @ \cup {q}
                                                            ELSE @]
    /\ UNCHANGED <<mode, slot, lastRun, turns, outcome, archived, started,
                   recoveries, stalls>>

\* enqueue() of a key that already has a row returns it and kicks the lane.
EnqueueDuplicate(o, q) ==
    /\ Alive(o) /\ Free(o)
    /\ LaneOf[q] \notin archived
    /\ row[q].status # "none"
    /\ Kick(o, {LaneOf[q]}, row, calls)
    /\ UNCHANGED <<lastSeq, mode, waiting, slot, lastRun, turns, outcome,
                   archived, started, recoveries, stalls>>

\* The rest of enqueue() after `await drainConversation': a scheduler row the
\* adapter did not accept is deleted, so that the scheduler may retry its key.
EnqueueReturns(o, q) ==
    /\ Alive(o)
    /\ q \in waiting[o]
    /\ ~ Awaits(o, q)
    /\ waiting' = [waiting EXCEPT ![o] = @ \ {q}]
    /\ row' = IF row[q].status \in {"queued", "failed", "cancelled"}
              THEN [row EXCEPT ![q] = Discarded(@)]
              ELSE row
    /\ UNCHANGED <<lastSeq, mode, calls, slot, lastRun, turns, outcome,
                   archived, started, recoveries, stalls>>

Cancel(o, q) ==
    /\ Alive(o) /\ Free(o)
    /\ row[q].status = "queued"
    /\ row' = [row EXCEPT ![q] = Ended(@, "cancelled", "by_user")]
    /\ UNCHANGED <<lastSeq, mode, calls, waiting, slot, lastRun, turns,
                   outcome, archived, started, recoveries, stalls>>

\* The rows terminalizeQueuedForConversation ends.  Mutant: only queued ones.
Archivable_QueuedOnly(c) == Pending(row, c)
Archivable(c) == {q \in Requests : /\ LaneOf[q] = c
                                   /\ row[q].status \in Unsettled}

\* terminalizeQueuedForConversation, inside the archive transaction.
Archive(o, c) ==
    /\ Alive(o) /\ Free(o)
    /\ c \notin archived
    /\ archived' = archived \cup {c}
    /\ row' = [q \in Requests |->
                  IF q \in Archivable(c)
                  THEN Ended(row[q], "cancelled", "operator_archived")
                  ELSE row[q]]
    /\ UNCHANGED <<lastSeq, mode, calls, waiting, slot, lastRun, turns,
                   outcome, started, recoveries, stalls>>

-----------------------------------------------------------------------------
(* The dispatcher's answer to a call                                       *)

\* probeActive or spawn: the live session of the lane, else a new one.
Session(o, c) == IF slot[o][c].alive THEN slot[o][c].run ELSE lastRun + 1

UseSession(o, c, alive) ==
    /\ Session(o, c) \in Runs
    /\ lastRun' = IF slot[o][c].alive THEN lastRun ELSE lastRun + 1
    /\ slot' = [slot EXCEPT ![o][c] = [run |-> Session(o, c), alive |-> alive]]

\* sendToManagerSlot re-checks the fence, then adapter.runTurn accepts.
AdapterAccepts(k) ==
    LET c == LaneOf[k.req] IN
    /\ Alive(k.owner) /\ Free(k.owner)
    /\ k.phase \in {"dispatching", "late"}
    /\ Held(k)
    /\ UseSession(k.owner, c, TRUE)
    /\ calls' = (calls \ {k}) \cup
                {[k EXCEPT !.phase = "accepted", !.run = Session(k.owner, c)]}
    /\ turns' = turns \cup
                {[owner |-> k.owner, req |-> k.req, run |-> Session(k.owner, c)]}
    /\ started' = [started EXCEPT ![k.req] = @ + 1]
    /\ UNCHANGED <<row, lastSeq, mode, waiting, outcome, archived, recoveries,
                   stalls>>

\* The adapter accepts, but the child cannot be spawned: the terminal event
\* mgr.turn_failed is stored and published inside runTurn, before the drain
\* is even registered, so a heard event settles the row and drains the lane.
AdapterAcceptsStillborn(k, heard) ==
    LET c == LaneOf[k.req]
        run == Session(k.owner, c)
        q == k.req
    IN  /\ Alive(k.owner) /\ Free(k.owner)
        /\ k.phase \in {"dispatching", "late"}
        /\ Held(k)
        /\ UseSession(k.owner, c, FALSE)
        /\ \A t \in turns : t.run # run
        /\ outcome' = [outcome EXCEPT ![q][run] =
                          IF @ = "none" THEN "failed" ELSE @]
        /\ IF heard
           THEN /\ mode[k.owner] = "up"
                /\ Kick(k.owner, {c},
                        [row EXCEPT ![q] = Completed(@, "failed")], calls \ {k})
           ELSE /\ calls' = (calls \ {k}) \cup
                            {[k EXCEPT !.phase = "accepted", !.run = run]}
                /\ row' = row
        /\ UNCHANGED <<lastSeq, mode, waiting, turns, archived, started,
                       recoveries, stalls>>

\* The continuation of an accepted dispatch: markProcessing, if still held.
MarkProcessing(k) ==
    /\ Alive(k.owner)
    /\ k.phase = "accepted"
    /\ Unwind(k, IF Held(k) THEN [row EXCEPT ![k.req] = Processing(@, k.run)]
                            ELSE row)
    /\ UNCHANGED <<lastSeq, mode, waiting, slot, lastRun, turns, outcome,
                   archived, started, recoveries, stalls>>

\* retryPolicy for an error of the dispatcher.  "busy" stands for
\* OPERATOR_BUSY, OPERATOR_MISSING and any retryable 404 or 409.
Retries(r, error) ==
    \/ error = "busy"
    \/ error = "transport" /\ r.attempts < MaxRetries

Refused(r, error) == IF Retries(r, error) THEN Released(r, FALSE)
                                          ELSE Ended(r, "failed", "delivery")

\* The dispatcher throws: refused by the adapter, or stopped by the fence.
DispatchFails(k, error) ==
    /\ Alive(k.owner) /\ Free(k.owner)
    /\ k.phase = "dispatching" /\ Held(k)
    /\ Retries(row[k.req], error) => k.tok < MaxClaims
    /\ Unwind(k, [row EXCEPT ![k.req] = Refused(@, error)])
    /\ UNCHANGED <<lastSeq, mode, waiting, slot, lastRun, turns, outcome,
                   archived, started, recoveries, stalls>>

\* A call whose claim is gone: whatever it throws, nothing is written.
DispatchFenced(k) ==
    /\ Alive(k.owner) /\ Free(k.owner)
    /\ k.phase \in {"dispatching", "late"} /\ ~ Held(k)
    /\ Unwind(k, row)
    /\ UNCHANGED <<lastSeq, mode, waiting, slot, lastRun, turns, outcome,
                   archived, started, recoveries, stalls>>

\* awaitImmediateDispatch: the race is lost, the promise stays pending.
DispatchTimesOut(k) ==
    LET q == k.req
        R == IF Held(k) THEN [row EXCEPT ![q] = Ended(@, "failed", "delivery")]
                        ELSE row
    IN  /\ Alive(k.owner) /\ Free(k.owner)
        /\ k.phase = "dispatching" /\ q \in Immediate
        /\ Kick(k.owner, IF k.again THEN {LaneOf[q]} ELSE {}, R,
                (calls \ {k}) \cup
                    {[k EXCEPT !.phase = "late", !.again = FALSE]})
        /\ UNCHANGED <<lastSeq, mode, waiting, slot, lastRun, turns, outcome,
                       archived, started, recoveries, stalls>>

-----------------------------------------------------------------------------
(* Turns and sessions                                                      *)

\* The adapter stores the terminal event of a turn; the live callback
\* (onEvent) may or may not get through.
TurnEnds(t, result, heard) ==
    LET o == t.owner
        q == t.req
        c == LaneOf[q]
        settles == heard /\ Completable(row[q], t.run)
    IN  /\ Alive(o) /\ Free(o)
        /\ heard => mode[o] = "up"
        /\ turns' = turns \ {t}
        /\ outcome' = [outcome EXCEPT ![q][t.run] =
                          IF @ = "none" THEN result ELSE @]
        /\ IF settles
           THEN Kick(o, {c}, [row EXCEPT ![q] = Completed(@, result)],
                     Chained(calls, o, {c}))
           ELSE UNCHANGED <<row, calls>>
        /\ UNCHANGED <<lastSeq, mode, waiting, slot, lastRun, archived,
                       started, recoveries, stalls>>

\* The manager subprocess exits without a terminal event for its turns.
SessionDies(o, c) ==
    /\ Alive(o) /\ Free(o)
    /\ slot[o][c].alive
    /\ slot' = [slot EXCEPT ![o][c] = [run |-> @.run, alive |-> FALSE]]
    /\ turns' = {t \in turns : t.run # slot[o][c].run}
    /\ UNCHANGED <<row, lastSeq, mode, calls, waiting, lastRun, outcome,
                   archived, started, recoveries, stalls>>

\* Stop, reset, replacement, or a probe that finds the session dead: the
\* registry drops the slot and tells the queue (handleSlotCleared).
SlotCleared(o, c) ==
    LET run == slot[o][c].run
        lost == {q \in Requests : /\ LaneOf[q] = c
                                  /\ row[q].run = run
                                  /\ row[q].status \in InFlight}
    IN  /\ Alive(o) /\ Free(o)
        /\ run # NoRun
        /\ slot' = [slot EXCEPT ![o][c] = EmptySlot]
        /\ turns' = {t \in turns : t.run # run}
        /\ Kick(o, IF lost = {} THEN {} ELSE {c},
                [q \in Requests |->
                    IF q \in lost THEN SessionLost(row[q])
                                  ELSE row[q]],
                calls)
        /\ UNCHANGED <<lastSeq, mode, waiting, lastRun, outcome, archived,
                       started, recoveries, stalls>>

-----------------------------------------------------------------------------
(* The periodic sweep, and the life of a process                           *)

Evidence(q) == /\ row[q].run # NoRun
               /\ outcome[q][row[q].run] # "none"

Owned(o) == {q \in Requests : row[q].by = o /\ row[q].status \in InFlight}
Stale(o) == {q \in Requests : /\ row[q].by # o
                              /\ row[q].status \in InFlight
                              /\ ~ row[q].fresh}
\* Mutant: the owner trusts its live callbacks.
Proven_StaleOnly(o) == {q \in Stale(o) : Evidence(q)}
Proven(o) == {q \in Owned(o) \cup Stale(o) : Evidence(q)}
Recovered(o) == (Stale(o) \ Proven(o)) \ Immediate

\* tick: renewOwnLeases, reconcilePersistedTerminalEvents,
\* reconcileStaleClaims, then a drain of every lane.
Swept(o) ==
    [q \in Requests |->
        IF q \in Proven(o) THEN Completed(row[q], outcome[q][row[q].run])
        ELSE IF q \in Recovered(o) THEN Released(row[q], TRUE)
        ELSE IF q \in Stale(o) THEN Ended(row[q], "failed", "restart_uncertain")
        ELSE IF q \in Owned(o) THEN [row[q] EXCEPT !.fresh = TRUE]
        ELSE row[q]]

Sweep(o) ==
    /\ Drain(o, Lanes, Swept(o), Chained(calls, o, {LaneOf[q] : q \in Proven(o)}))
    /\ recoveries' = [q \in Requests |->
                      IF q \in Stale(o) \ Proven(o)
                         THEN recoveries[q] + 1 ELSE recoveries[q]]
    /\ UNCHANGED <<lastSeq, waiting, slot, lastRun, turns, outcome, archived,
                   started, stalls>>

Tick(o) == /\ mode[o] = "up" /\ Free(o)
           /\ Sweep(o)
           /\ UNCHANGED mode

\* start(): a stale-claim pass, the subscription, and a first tick.
Boot(o) == /\ mode[o] = "unborn"
           /\ Overlap \/ \A p \in Owners : ~ Alive(p)
           /\ mode' = [mode EXCEPT ![o] = "up"]
           /\ Sweep(o)

MayExit(o) == Cardinality({p \in Owners : mode[p] \in {"stopping", "down"}}
                          \cup {o}) <= MaxExits

\* stop(): no more claims, ticks or live callbacks; calls in flight unwind.
Stop(o) ==
    /\ mode[o] = "up" /\ Free(o)
    /\ MayExit(o)
    /\ mode' = [mode EXCEPT ![o] = "stopping"]
    /\ UNCHANGED <<row, lastSeq, calls, waiting, slot, lastRun, turns, outcome,
                   archived, started, recoveries, stalls>>

\* The process ends, by a crash at any step or at the end of a shutdown.
Crash(o) ==
    /\ Alive(o)
    /\ MayExit(o)
    /\ mode' = [mode EXCEPT ![o] = "down"]
    /\ calls' = {k \in calls : k.owner # o}
    /\ waiting' = [waiting EXCEPT ![o] = {}]
    /\ turns' = {t \in turns : t.owner # o}
    /\ slot' = [slot EXCEPT ![o] = [c \in Lanes |-> EmptySlot]]
    /\ UNCHANGED <<row, lastSeq, lastRun, outcome, archived, started, recoveries,
                   stalls>>

\* lease_expires_at passes: nobody renews the leases of a dead or stopping
\* owner; a live one loses a lease only when its timers stall for leaseMs.
LeaseExpires(q) ==
    /\ TimePasses
    /\ row[q].status \in InFlight /\ row[q].fresh
    /\ row' = [row EXCEPT ![q].fresh = FALSE]
    /\ IF mode[row[q].by] = "up"
       THEN stalls < MaxStalls /\ stalls' = stalls + 1
       ELSE UNCHANGED stalls
    /\ UNCHANGED <<lastSeq, mode, calls, waiting, slot, lastRun, turns,
                   outcome, archived, started, recoveries>>

BackoffElapses(q) ==
    /\ TimePasses
    /\ row[q].status = "queued" /\ ~ row[q].ready
    /\ row' = [row EXCEPT ![q].ready = TRUE]
    /\ UNCHANGED <<lastSeq, mode, calls, waiting, slot, lastRun, turns,
                   outcome, archived, started, recoveries, stalls>>

-----------------------------------------------------------------------------
Init ==
    /\ row = [q \in Requests |-> NoRow]
    /\ lastSeq = 0
    /\ mode = [o \in Owners |-> "unborn"]
    /\ calls = {}
    /\ waiting = [o \in Owners |-> {}]
    /\ slot = [o \in Owners |-> [c \in Lanes |-> EmptySlot]]
    /\ lastRun = 0
    /\ turns = {}
    /\ outcome = [q \in Requests |-> [r \in Runs |-> "none"]]
    /\ archived = {}
    /\ started = [q \in Requests |-> 0]
    /\ recoveries = [q \in Requests |-> 0]
    /\ stalls = 0

CallStep ==
    \E k \in calls :
        \/ AdapterAccepts(k)
        \/ \E heard \in BOOLEAN : AdapterAcceptsStillborn(k, heard)
        \/ MarkProcessing(k)
        \/ \E error \in {"busy", "transport", "terminal"} :
               DispatchFails(k, error)
        \/ DispatchFenced(k)
        \/ DispatchTimesOut(k)

TurnStep ==
    \E t \in turns, result \in {"completed", "failed"}, heard \in BOOLEAN :
        TurnEnds(t, result, heard)

Next ==
    \/ \E o \in Owners, q \in Requests :
           \/ Enqueue(o, q) \/ EnqueueDuplicate(o, q)
           \/ EnqueueReturns(o, q) \/ Cancel(o, q)
    \/ \E o \in Owners, c \in Lanes :
           Archive(o, c) \/ SessionDies(o, c) \/ SlotCleared(o, c)
    \/ CallStep
    \/ TurnStep
    \/ \E o \in Owners : Tick(o) \/ Boot(o) \/ Stop(o) \/ Crash(o)
    \/ \E q \in Requests : LeaseExpires(q) \/ BackoffElapses(q)

Spec == Init /\ [][Next]_vars

\* Timers and process supervision, and an environment that answers: a call is
\* answered, a turn ends, a dead session is probed (by the next message or a
\* status poll).  Nothing forces an enqueue, a crash, a stop or a lost lease.
Answered(o, q) ==
    \E k \in calls :
        /\ k.owner = o /\ k.req = q
        /\ \/ AdapterAccepts(k) \/ MarkProcessing(k) \/ DispatchFenced(k)
           \/ \E error \in {"busy", "transport", "terminal"} :
                  DispatchFails(k, error)

Fairness ==
    /\ \A o \in Owners :
           /\ WF_vars(Tick(o))
           /\ WF_vars(Boot(o))
           /\ WF_vars(mode[o] = "stopping" /\ Crash(o))
           /\ WF_vars(\E q \in Requests : EnqueueReturns(o, q))
    /\ \A o \in Owners, q \in Requests :
           /\ WF_vars(Answered(o, q))
           /\ WF_vars(\E t \in turns, result \in {"completed", "failed"} :
                         t.owner = o /\ t.req = q /\ TurnEnds(t, result, FALSE))
    /\ \A o \in Owners, c \in Lanes :
           WF_vars(~ slot[o][c].alive /\ SlotCleared(o, c))
    /\ \A q \in Requests :
           /\ WF_vars(/\ row[q].status \in InFlight /\ mode[row[q].by] # "up"
                     /\ LeaseExpires(q))
           /\ WF_vars(BackoffElapses(q))

FairSpec == Spec /\ Fairness

-----------------------------------------------------------------------------
(* Safety                                                                  *)

\* Types of the table, of the process memory and of the histories.
TypeOK ==
    /\ row \in [Requests -> Row]
    /\ lastSeq \in Nat
    /\ mode \in [Owners -> {"unborn", "up", "stopping", "down"}]
    /\ calls \subseteq Call
    /\ waiting \in [Owners -> SUBSET Requests]
    /\ slot \in [Owners -> [Lanes -> Slot]]
    /\ lastRun \in Nat
    /\ turns \subseteq [owner : Owners, req : Requests, run : Nat]
    /\ outcome \in [Requests -> [Runs -> {"none", "completed", "failed"}]]
    /\ archived \subseteq Lanes
    /\ started \in [Requests -> Nat]
    /\ recoveries \in [Requests -> Nat]
    /\ stalls \in Nat

\* A lane never has two rows in flight, whichever processes claim, retry,
\* recover, replay or settle them (claimTx, recoverClaim, release).
SingleFlight ==
    \A p, q \in Requests :
        /\ LaneOf[p] = LaneOf[q]
        /\ row[p].status \in InFlight /\ row[q].status \in InFlight
        => p = q

\* No row is in flight while an older row of its lane still waits: a retry,
\* a recovery or a replay goes back to its place, and nothing overtakes it.
NoOvertaking ==
    \A p, q \in Requests :
        /\ LaneOf[p] = LaneOf[q]
        /\ row[p].status = "queued" /\ row[q].status \in InFlight
        => row[q].seq < row[p].seq

\* The model runs a request again only after a stale claim of it was taken from
\* its owner: no busy retry, timeout, late dispatcher answer, lost callback
\* or second drain repeats a turn the adapter has started.  (When processes
\* overlap, chat only: the enqueue() of one may delete a scheduler row that
\* the other has run.)
RepeatsNeedRecovery ==
    \A q \in Requests :
        (Overlap => q \notin Immediate) => started[q] <= 1 + recoveries[q]

\* With one server process at a time, a scheduler turn is started at most
\* once, whatever is lost: its row is failed and never replayed, and the key
\* can be enqueued again only while nothing has started.
ImmediateAtMostOnce ==
    ~ Overlap => \A q \in Immediate : started[q] <= 1

\* A row settled by a turn agrees with a terminal event in run_events: the
\* first one of its run when it names a run, whether the live callback or a
\* later sweep settled it (no live owner having lost its lease meanwhile).
\* (When processes overlap, chat only: the key of a scheduler row that the
\* enqueue() of one deleted may run again in the same session, whose stored
\* event answers for the earlier turn.)
VerdictHasEvidence ==
    stalls = 0 => \A q \in Requests :
        /\ Overlap => q \notin Immediate
        /\ row[q].status \in Settled /\ row[q].reason = "turn"
        =>  LET verdict == IF row[q].status = "delivered" THEN "completed"
                                                          ELSE "failed"
            IN  IF row[q].run # NoRun
                THEN outcome[q][row[q].run] = verdict
                ELSE \E r \in Runs : outcome[q][r] = verdict

\* No lane runs two model turns concurrently, unless a live owner lost a
\* lease or, when processes overlap, a stopping owner, which no longer renews,
\* meets its successor or a scheduler key has run twice: the stored event of
\* its first turn then settles the second while it runs.
LaneRunsOneTurn ==
    /\ stalls = 0
    /\ Overlap => /\ \A o \in Owners : mode[o] # "stopping"
                  /\ \A q \in Immediate : started[q] <= 1
    => \A t, u \in turns : LaneOf[t.req] = LaneOf[u.req] => t = u

\* Archiving an Operator is final: no row of its lane is unsettled after it,
\* although dispatches and drains begun before it are still in flight.
ArchivedLaneIsQuiet ==
    \A q \in Requests :
        LaneOf[q] \in archived => row[q].status \notin Unsettled

\* Liveness: every admitted message is settled (or, for a scheduler row, given
\* back to the scheduler), although live callbacks are lost, owners crash in
\* any step, sessions die without a word and adapters refuse.
EveryMessageSettles ==
    \A q \in Requests :
        row[q].status \in Unsettled ~> row[q].status \notin Unsettled

\* Refinement: the table implements single-flight FIFO lanes.
Lane == INSTANCE FifoLane WITH
    Items <- Requests,
    state <- [q \in Requests |->
                 CASE row[q].status = "none" -> "absent"
                   [] row[q].status = "queued" -> "waiting"
                   [] row[q].status \in InFlight -> "active"
                   [] OTHER -> "done"],
    place <- [q \in Requests |-> row[q].seq]

\* Every step of every process, crash and recovery included, is a step of the
\* FIFO lane or leaves it unchanged.
ImplementsFifoLane == Lane!Spec
=============================================================================

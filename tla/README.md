# A TLA+ model of Palantir Console

Palantir Console is a Node.js server that supervises coding agents.  A *Top*
manager talks to the user, *Operators* (one per project or identity) run
projects, and *Workers* are agent processes started for tasks.  The server is one
event loop over one SQLite database (better-sqlite3, synchronous): a statement
or a transaction is atomic, JavaScript runs uninterrupted between two `await`s,
and everything else interleaves: timers, child processes, HTTP requests, SSH
answers, and the crash or restart of the server itself.  The database survives a
restart; maps, timers and child handles do not.

This directory models the parts where that matters, checks them with TLC on
small instances and proves the main safety properties with TLAPS for every
instance.

## 1. Inventory

Line numbers are in PROJECT.json ("map" for definitions, "hazards" for the
places where a step can go wrong).

| component | state | operations | what makes it correct |
|---|---|---|---|
| **Manager message queue** `managerMessageQueueService` | table `manager_message_queue`; drains in progress, immediate enqueues waiting, owner id | enqueue, cancel, list, drain, complete by event, sweep, recover, archive, start, stop | one message of a conversation in flight; FIFO through retries and restarts; no turn repeated without need; scheduler turns at most once; nothing forgotten |
| **Message dispatch** `conversationService` | parent notices by run, last turn context | send to a manager slot (spawn if needed), send to a worker, drain notices | the queue's claim is checked again after every wait; notices are removed only when the turn was accepted |
| **Slot registry** `managerRegistry` | live session by conversation | set, clear, probe, slot-cleared listeners | a replaced or dead session is reported exactly once, and its run ends |
| **Manager adapters** `managerAdapters/*`, `streamJsonEngine` | session state by run, child handles | start session, run turn, dispose, emit normalised events | one turn per session; every accepted turn ends by an event or by the session's death |
| **Runs** `runService`, `terminalEventReconciliation` | tables `runs`, `run_events`, `run_owner_leases` | create, claim, start, status CAS, release/abandon an owner, retry, delete, materialisation claims | terminal observations are idempotent; a stale generation cannot write; one live owner per run |
| **Worker lifecycle** `lifecycleService`, `executionEngine`, `admissionGate`, `workerLimit`, `worktreeService`, `workerSnapshot` | spawn set, retry timers, admission gate | drain the queue, spawn, exit, health and idle checks, cancel, orphan recovery at boot, shutdown sweep | no two processes for one run; no run stuck in running; limits respected; cancelled work is not retried |
| **Operator schedules** `operatorScheduleService`, `operatorScheduler` | tables of schedules and invocations; in-flight map | CRUD with revisions, materialise due invocations, claim, deliver, reconcile, sweep | each due time fires at most once, one invocation of a schedule at a time, failures disable it, uncertain deliveries are never repeated |
| **Operator instances** `operatorInstanceService`, `operatorSpawnService`, `operatorCleanupService`, `operatorIdentityLifecycleService` | instances, codebase references, threads; transitions in progress | spawn, change identity, archive, reset | one session per instance; no dispatch into a transition; archive is final |
| **Goals** `goalVerdictService`, `goalJudgeService`, `goalDeliveryService`, the Gate 2 review in `app.js` | verdict columns of runs, the outbox `goal_effects`, delivery columns of tasks; reviews in flight, circuit breaker | judge claims, persist a verdict, apply its effects, reconcile, review, deliver | one verdict and one child per attempt; no effect lost although a crash separates it from the verdict; only accepted work is delivered |
| **Action control plane** `actionLedgerService`, `actionBroker`, `actionReadback` | action ledger, approvals | propose, approve, claim, execute at an external gateway, read back, reconcile | an approved action is executed at most once although the gateway's answer may be lost |
| **Harvest** `harvestService` | harvest columns of runs | collect diff and test results of a finished worktree | each run is harvested once |
| **Materialisation** `projectMaterializationService` | workspace leases, claim tokens | clone or fetch a project's repository for a run | one writer of a checkout; late attempts are fenced by token |
| **Memory** `memoryService`, `masterMemoryService`, `memoryDistillService`, `compositionLedger`, ... | memory rows, candidates, injection ledger | record, distil, merge, inject into a turn | injection is recorded only for an accepted turn |
| **Nodes** `nodeService`, `nodeHeartbeatService`, `remoteSshExecutor`, ... | nodes, reachability | heartbeat, execute over SSH, place files | a node that is not reachable gets no dispatch |
| **Tasks, projects, trash** | tables | CRUD, status, soft delete, restore | task status follows its runs |
| **Configuration** presets, skill packs, MCP templates, model policies, agents, auth | tables, files | CRUD, prompt and argument assembly | none of it is concurrent |
| **Events, webhooks, sessions** | in-memory bus, log files | publish, notify, browse | best effort by design |
| **HTTP server, browser console** | none that is authoritative | routing, validation, views | |

How they interact.  A message reaches a manager through HTTP route → *queue* →
*dispatch* → *registry* (→ *operator spawn*) → *adapter*.  The adapter answers
twice: `accepted` synchronously, and a terminal event later, which is stored in
`run_events` and published on the event bus, where the *queue* and the
*schedules* listen.  The *scheduler* enqueues into the same *queue* (an
"immediate" message) and reconciles its invocation with the terminal event.
A worker is a row of *runs* claimed by the *lifecycle*, which holds an owner
lease, starts a process and turns its exit, its death or its silence into a
status; the status event moves the *task*, the *goal* and the *harvest* on, and
frees a place in the queue.

What is hard.  Two steps of one handler separated by an `await`; the answer of a
call that was given up; an event that is stored but not heard; a server that dies
between two writes, or overlaps its successor during a deployment; leases and
back-offs that run out; counters at their limits.

## 2. Plan

The most important behaviour comes first: who may talk to a manager and in what
order, who owns a worker, and then what is built on the two.  Every module keeps
its parameters as CONSTANTS with a named assumption, one action per operation or
stage of one, and no RECURSIVE operator, so that it can be proved about.

| step | module | what | composed with | state |
|---|---|---|---|---|
| 1 | `ManagerQueue`, implements `FifoLane` | message queue, dispatch, slot, turn | its own dispatcher, slot and adapter steps | modelled, checked; the refinement and all its safety properties proved |
| 2 | `WorkerRun`, implements `RunOwnership` | runs, leases, spawn, health check, cancel, retry, recovery | node, tmux session and exit file | modelled for remote workers; the refinement and all its safety properties proved |
| 3 | `OperatorSchedule` | due times, invocations, delivery, uncertain delivery, failure counting | a delivery as `ManagerQueue` promises it (`ImmediateAtMostOnce`) | modelled, checked; all its safety properties proved but for liveness |
| 4 | `ActionLedger`, implements `OneEffect` | action ledger, broker passes, external gateway | requests in transit, people who edit issues | modelled, checked; refinement and all invariants proved |
| 5 | `GoalLoop` | verdict, retry child, outbox, judge claim, Gate 2 review, delivery, order of the harvest | the statuses of `WorkerRun`, as an environment | modelled, checked; its safety invariants proved |
| 6 | `Materialization` | claims, attempts, cache leases, worktrees, stuck sweep | the start and end of a run, as an environment | modelled for one node, checked; its safety invariants proved |
| 7 | notices, registry listeners, Operator identity | parent notices, session replacement, archive and reset | `ManagerQueue` | left |
| 8 | memory | job leases of the distiller, injection ledger | accepted turns of `ManagerQueue` | left |

Next come the parts left out of `WorkerRun`: local engines, capacity limits, deletion.

## 3. The manager message queue

`ManagerQueue.tla` models `managerMessageQueueService.js` with the parts of
`conversationService.sendToManagerSlot`, `managerRegistry` and the adapters that
decide what happens to a row.

*State.*  `row` is the table `manager_message_queue`; `outcome` the terminal events
in `run_events`; `archived` the archived Operators.  Everything indexed by an owner
is memory of one server process: `mode`, `calls` (dispatcher promises, with the
phase they wait in), `waiting` (immediate `enqueue()` calls that will go on when
their drain ends) and `slot` (the registry).  `turns` are model turns running in an
adapter.  `started`, `recoveries` and `stalls` are histories.

*Actions* follow the service's functions: `Enqueue`, `EnqueueDuplicate`,
`EnqueueReturns`, `Cancel`, `Archive`; `Drain` and `Kick`, which claim heads of
lanes inside the step that frees them, as the code does in one transaction;
`AdapterAccepts`, `AdapterAcceptsStillborn` (Codex publishes its terminal event
inside the dispatch when its child cannot be spawned), `MarkProcessing`,
`DispatchFails`, `DispatchFenced`, `DispatchTimesOut`; `TurnEnds` (heard, or only
stored), `SessionDies`, `SlotCleared`; `Tick` (the sweep), `Boot`, `Stop`, `Crash`;
`LeaseExpires` and `BackoffElapses` for time.

*Abstractions.*
- A claim token is a fresh UUID: the number of claims of the request.
- Node runs the microtasks of a settled promise before any timer or socket, so an
  owner with such a promise does nothing else first (`Free`).  Leases and back-offs
  last a second or more and do not elapse inside a run of microtasks
  (`TimePasses`).
- A chat message and a scheduler turn ("immediate") differ in what a refusal, a
  restart or a duplicate does; payloads and idempotency strings are not modelled.
- Left out: the invalid-payload path, filling in a memory owner, database errors
  while settling, the scan past events whose JSON is rejected, and notifications.

*Bounds.*  `MaxClaims` ends the replay of one row, `MaxSeq`, `MaxRuns`, `MaxExits` and
`MaxStalls` count admissions, sessions, process ends and lost leases.  Two requests in
one lane with two claims each are enough for every race of one row against
another; a third process end or claim repeats the same states.

| run | question |
|---|---|
| `queue_restart` | a chat message and a scheduler turn in one lane of capacity 1, a stop or crash at any step: types, at most one start of a scheduler turn, evidence for verdicts, and every admitted message settled |
| `queue_overlap` | two live processes, one of which may lose a lease while its turn runs: single flight, order, one turn at a time, repeats only after a recovery, archive, and the refinement of `FifoLane` |

The model also shows a disagreement that has no run of its own: the code keeps one
counter of retries (managerMessageQueueService.js:518), so that busy answers spend
the budget of transport retries, which docs/manager-message-queue.md:102-104 says
they do not.

Two conditions in the properties are part of the code's contract.
`VerdictHasEvidence` and `LaneRunsOneTurn` suppose that no live owner lost its lease
(a stalled event loop longer than the lease).  When processes overlap, one may
delete a scheduler row that the other has run (the immediate `enqueue()` of a
stopping owner finds its row failed), so the at-most-once properties of scheduler
turns are claimed for one process at a time.  The key of a deleted row may then be
admitted again and run in the same session, where the stored event of its first turn
settles the second: with overlapping processes `VerdictHasEvidence` is claimed for
chat messages, and `LaneRunsOneTurn` while no scheduler key has run twice.

*Fairness* (`FairSpec`): the service's interval fires, a stopped process ends and
the next one boots, a dispatcher call is answered, a turn ends, leases of dead
owners and back-offs run out.  A dead session's slot is cleared only when somebody
probes it (the next message or a status poll): that is assumed.  Nothing forces an
enqueue, a crash or a heard callback.

## 4. Worker runs and their owners

`WorkerRun.tla` models a run on a remote node: the status machine, leases and
compare-and-set writes of `runService.js`, and of `lifecycleService.js`
`spawnQueuedRun`, the health check with its three passes, the idle check, the lease
sweep, `cancelRun`, the retry handler, the revocation of workers at boot and the
admission gate.

*State.*  `run` and `lease` are tables.  `session`, `exit` and `starting` are the node: the
tmux session and the exit.code file, both named after the **run**, and start
commands on their way.  `spawns`, `watch` and `cancels` are handlers in flight: every
`await` of the code is a stage of such a record (`preparing`, `starting`, ..., for a
start; `probe`, `judge`, `kill`, `killed`, ... for an observer), so every other handler
may run between two stages.  A lease is a *generation* of its run, numbered by
claims.

*How actions correspond.*  `Claim` is `claimQueuedRunTx`; `SpawnSends` the last checks
before the channel is called; `NodeStarts` and `NeverStarts` the arrival or loss of
the command; `SpawnAcked`, `SpawnSealed`, `SpawnUncertain`, `SpawnFails`, `SpawnStale`,
`SpawnAborts` the outcomes of the last part of `spawnQueuedRun`, in the order of the
`catch` branches of its inner `try` (lifecycleService.js:1597); `SetupFails`,
`AssetsUnsupported` and `SetupThrows` its errors outside of that fence; `Visit`, `Answer`, `Judge`, `Kills`, `Settle` one run or lease under an
observer's eyes; `Look`, `Reprobe`, `Resumes` the idle and needs_input branches;
`Revoked` the boot recovery; `CancelBegins` to `CancelFinishes` `cancelRun`.  `Becomes` is
`updateRunStatus` together with the synchronous `run:ended` handler that enqueues
the retry.

The errors of a preparation are of three kinds, and any run may meet any of them.
Those of presets, skill packs, the project's MCP file, bearer keys and MCP endpoints
(1384, 1418, 1423, 1448, 1503, 1544) force `failed` with no look at the lease or the
status, and their throw reaches only the `finally` that releases the lease
(`SetupFails`).  Those that mark the run as not to be retried (1147-1194 and 1746-1751)
force `failed` in the same way (`AssetsUnsupported`, then `SpawnUnwinds`); the mark is the
field `final`.  Plain throws before the inner `try` (1558, or a file that cannot be
written) release the lease and leave the run `running` without an owner, until the
health check ends it (`SetupThrows`).

*Abstractions.*
- Remote workers only.  Local tmux, subprocess and stream-json engines, deletion,
  materialisation, capacity limits, limit-reached results, goal runs, boot
  housekeeping and the local shutdown sweep are left out, hence "partly".
- `isAlive` and the read of the exit file are one step of the node, and the second
  read of the file (`detectExitCode`) is merged with the probe.
- A closed lease keeps only its state: no code reads its other columns again.
- A pass visits its list in any order.
- The age of the first unknown answer is `doubt`: noted, then expired.

*Bounds.*  `MaxGens` bounds claims of one run, `MaxEdits`, `MaxCancels`, `MaxLost` and
`MaxCrashes` the events nobody can prevent.  Two generations are what every race
between an old owner and a new one needs; one loss of each kind, at any step, is
what one handler can be surprised by, and `worker_overlap` takes two for the path
where an acknowledgement and then a probe are lost.

| run | question |
|---|---|
| `worker_restart` | one run, two generations, a lost answer, a cancellation, and a crash or a shutdown that puts the run back: refinement of `RunOwnership`, late outcomes of a start that was sent ignored, and the run ends, however its start, worker, probe or server was lost |
| `worker_retry` | a failed run is requeued and fails again, observers race, nothing is cancelled or lost: no owned run in the queue and one retry per attempt |
| `worker_overlap` | two lost answers and a crash: types, the first owner released only when dead, and a retry beside a possibly live worker only after the grace period of a held lease |
| `late_writes` | a violation: a cancelled run becomes failed when its preparation fails |

The properties named *First...* and the restriction of `RetryWaitsForOwner` to runs
claimed at most once are no accident.  An exit.code file is named after the run and
neither the next start nor a kill removes it, so only for the first owner is it
evidence: a second generation that was claimed but not recorded as reserved when the
leases were listed is released on the exit file of the first
(lifecycleService.js:2803; the comments at 2796-2798 and 3523-3524 say that it is
not).  In the same way the kill of the health check (3526-3531) hits the session of
the next generation when a cancellation, a lost answer or a crash released the lease
early.

More disagreements of this kind were met and are not given a run: `finishCancelRun`
(lifecycleService.js:4552) forces `cancelled` over a verdict written while the
cancellation waited, although "Don't cancel already-terminal runs" (4615); the idle
and needs_input branches (3663, 3732) force their status over a cancellation made
during their SSH call; and a PATCH of a running run to failed makes a retry although
the comment at 4350-4358 says that a manual edit does not.

*Fairness* (`FairSpec`): start commands arrive or are lost, workers end by
themselves, handlers go on because SSH calls are answered or time out, the health
timer fires, the grace period runs out, a server that is down is started.  `Claim` is
not fair: nothing drains the queue but another event.

## 5. Operator schedules

`OperatorSchedule.tla` models `operatorScheduleService.js` (the tables and their
transactions) and `operatorScheduler.js` (the tick that uses them).

*State.*  `now` is the clock; `sched` and `inv` the tables, invocations in the order of
insertion (`lastId`).  The server's process is `pc`, `booting`, `inflight`, `todo` (due
schedules the tick still has to materialise), `lanes` and `flights` (deliveries that
are awaited).  `turn` and `ended` are what the queue and the adapter know of the turn of
an invocation; `started` counts turns and is a history.

*Actions.*  A tick runs without an `await` until it delivers, but every transaction in
it commits by itself, so each is a step and a crash may come between any two:
`Reconcile`, `Sweep`, `Backstop`, `Expire`, `Materialize`, `Claim`, `Deliver`.  An answer is
`Accepted`, `Refused`, `Rejected` or `Unsure`; a turn `TurnStarts`, `TurnEnds` (heard or
only stored) or `TurnDies`; users `Update`, `Archive`, `DeleteProject` and `RunNow`; `Boot`
is `recoverAfterRestart` with its first tick.

*Abstractions.*  Time is a count, and a rule is "once at", "every so many" or "daily"
on it; weekly rules, weekdays and time zones are date arithmetic.  The receiver
remembers no earlier delivery, so that only the scheduler keeps a turn from being
repeated.  Left out: `maxJobs`; the two statements of `updateSchedule`,
`archiveSchedule` and `completeInvocation` that a crash may split (each is one step);
paging of candidate events; and the corner in which the unique index of active
invocations rolls a materialisation back, which `OneActive` shows unreachable here.

*Bounds.*  `LastFire`, `MaxTime`, `MaxIds`, `MaxEdits`, `MaxManual`, `MaxCrashes`.  Three
invocations of two schedules are one that runs, one that it blocks and one that
supersedes it; each user action and the crash may fall on any commit.

| run | question |
|---|---|
| `schedule_restart` | a one-shot and an interval schedule of one Operator, an edit, a manual run and a crash: types, no occurrence starts two turns, one invocation active, no occurrence superseded without a replacement, no stored outcome written off as uncertain |
| `schedule_liveness` | a one-shot and a daily schedule with misfire policies *skip* and *grace*: every invocation ends |

*Fairness.*  The interval fires, a tick goes on, a delivery is answered (the queue
times it out), a dead server is started: weak.  Ticks interrupt the end of a turn and
the clock over and over, so these two are strongly fair; that a model turn ends is
assumed.

## 6. The action control plane

`ActionLedger.tla` models `actionLedgerService.js`, `actionBroker.js` and
`actionReadback.js` with the issue tracker behind the gateway; it implements
`OneEffect.tla`, what the brief promises of an intent: tried once, in effect at most
once, called failed only when there is and will be no effect.

*State.*  `row` is the table; `calls` the broker's calls that wait for the gateway, each at
the request it waits for (`create`, `search`, `get`, `read`, `label`, `verify`); `pass` and
`running` the loops of reconciliation and repair; `transit` requests on their way, which
arrive at any time, also after their answer was given up or the server died; `issue`
the repository.  `made`, `writes` and `decider` are histories.

*Actions.*  `Declare`, `Approve`, `Expire`, `ClaimExecution` and the branches of
`Executes`, `Probes` and `Repairs` follow the broker's `await`s; `PassStep` one turn of a
loop; `Arrives` the gateway; `Meddle` people who edit or copy an issue.

*Abstractions.*  An attempt id is the number of claims.  A read and its answer are one
step.  The unique conflict of an external identity cannot be reached with one
repository; `now` passed in by a caller and the appended event log are left out.  The
broker is not yet wired into `app.js`, so nothing drives a pass and no liveness is
claimed.

| run | question |
|---|---|
| `ledger_doubt` | one action, two passes at a time, late requests, a meddled issue, a crash: types, the refinement of `OneEffect`, results only from the last claim, label requests bounded, and what was found carries the action's marker |

A disagreement without a run: `driveRepair` takes the time before its loop
(actionBroker.js:663, 678), so it may claim its second action after that action's
approval has expired, which docs/specs/action-control-plane-brief.md:66 excludes.

Six claims of one action are an execution and every succession of probe and repair up
to the bound of repairs and one past it; two issues are the real one and a copy.

## 7. Goals

`GoalLoop.tla` models one goal task: its attempts, `goalVerdictService.js`, the judge
claim, the harvest's order of check, judge and `run:harvested` (`harvestService.js`,
`goalJudgeService.js`), the Gate 2 review (`app.js`) and `goalDeliveryService.js`.

*State.*  `run`, `task` and `effect` are tables, `branch` is git.  `todo` is what the event
loop's current callback has still to do: a sequence of statements, each an operation
and the runs it has yet to visit, each committed by itself, that only a crash can cut
short.  `harvest`, `inflight`, `count` and `promote` are
the awaits and maps of the process; `heard`, `emitted` and `told` are histories.

*Abstractions.*  One process; code-mode delivery.  `pass` covers advisory and skipped
checks.  The claim of an attempt and the stamp of its goal are one step.  Left out:
B-lite goals, requeueing an attempt, the goal flag turned off, `sourceChanged` (never
wired), transient database errors, wake-ups of the queue, and sweeps with nothing to
do.

| run | question |
|---|---|
| `goal_restart` | a check, a judge, two attempts, an edit or the manager's departure, a refused promotion, a crash: types, one child per retry within the budget, no verdict against the judge's record, effects repeated only over a crash, only accepted branches delivered, every attempt concluded, the task follows its newest attempt |
| `early_verdict` | a violation: the periodic sweep (goalVerdictService.js:367) settles an attempt while the harvest still runs its check |

Disagreements without a run: the sweep of every minute reconciles attempts that have
a verdict, so a human's `done` is set back to review (goalVerdictService.js:194, 363;
lifecycleService.js:4315-4320; docs/specs/goal-delegation-brief.md:244), which is why
`Agrees` admits both; a crash during a promotion leaves `delivering` in the task's
record for ever (taskService.js:379-386); a task redone after it was delivered is
never delivered again.

*Fairness* (`FairSpec`): a callback that is due gets its turn, timers fire, workers,
checks, judges and git end or time out, a server that is down is started.

## 8. Project materialisation

`Materialization.tla` models how a queued run of a git project gets its checkout: the
claim columns of `runs` and the cache leases (`runService.js`), the attempts
(`projectMaterializationService.js`), their start, retry and stuck sweep
(`lifecycleService.js`), and the removal of the checkout when the run is harvested.

*State.*  `run`, `source`, `cache` and `lease` are tables; `disk` the worktrees of the node,
each named after its run, its claim token and the source.  `attempts` are
`ensureWorkspace` calls in progress, at the git call they wait for; `removals` the
cleanups and harvests under way; both are lost with the server.  `seen` are the runs
whose end has been harvested.  `harvested` and `excused` are histories.

*Actions.*  `Claim` is `claimQueuedRunForMaterialization` or
`restartMaterializationAttempt`; `Begins` the source read and the lease; `Fetched` and
`Fails` the cache; `Appears`, `AddFails` and `AddTimesOut` `git worktree add`;
`Materialized` the fenced `updateRunMaterialized`; `Undone` the cleanup of an attempt;
`Sweep` `sweepStuckMaterializations`; `Removed` a cleanup or harvest that gets to its
worktree, where `Removes` lets the removal fail; `Start`, `End` and `Edit` the life of the run; `ChangeSource` another
repository or ref.

*Abstractions.*  A claim token, and the token of the lease that the attempt takes, are
the number of the claim.  The touches of a lease between git calls are its not
ageing.  One node; workspace references (written, never read), root guards of
remote nodes, rows without a token, checkouts of Operators and the length of a
back-off are left out.

*Bounds.*  Two runs of one project share two claims: a late attempt and its
successor, of one run or of two.  One source change, one edit, one end of the server.

| run | question |
|---|---|
| `workspaces` | types; a run that may start or runs has its checkout, and nobody is about to remove it; every checkout is recorded, claimed or in somebody's hands; every claim and lease is given up although git hangs or the server dies |

What the histories excuse are checkouts the code does lose: those of attempts and
removals that a crash cut short, of a `git worktree add` that timed out
(`addRunWorktree` cleans up only after an exit code), of a removal that failed
(`cleanupRunWorktree`, projectMaterializationService.js:388-400, and
harvestService.js:702-712 leave it at that), of an older source (the sweep computes
the path from the source of now), and of a run that is materialised anew.
`docs/specs/project-repo-defined-brief.md:36-41` describes a collector of such
worktrees; none is implemented.  Three more observations have no run: a run that
failed and is requeued keeps its `workspace_path` after the harvest removed the
worktree (harvestService.js:705, runService.js:1476-1490), although
`docs/specs/goal-delegation-brief.md:15` expects a new one; a requeued run waits for
another event when its back-off is longer than the second after which
`scheduleMaterializeRetry` drains (lifecycleService.js:2542, 2660), or when the stuck
sweep requeued it; and `staleMaterializationLeases` uses the stuck threshold, not the
longer staleness of the lease, so that a slow `resolveCommit` loses its lease.

*Fairness* (`FairSpec`): the health timer fires, claims and leases age, a closing server
ends and a dead one is started.  No git call need ever return.

## 9. What is proved

All theorems hold for every set of runs, requests, schedules or actions, every number
of processes, lanes, passes and generations and every value of the bounds, from the
named assumptions `QueueAssumption`, `WorkerAssumption`, `ScheduleAssumption`,
`LedgerAssumption`, `GoalAssumption` and `MaterializationAssumption` alone (the shapes
of the constants).  TLC evaluates each of them on every run of its module, and every
inductive invariant was model-checked before it was proved.

`ManagerQueueProofs.tla`: `TypeCorrect`; `LaneIsSingleFlight`, `LaneIsOrdered` and
`ArchiveIsFinal` from one inductive invariant, `TableInv`: the types, single flight,
order, sequence numbers never ahead of the counter, and archived lanes quiet.
The order is needed for single flight and the counter for the order: a claim takes
the oldest row of a lane with nothing in flight, and an admission must come behind
every row.  Every step gives the table some rows that were lowered (settled, released,
recovered, deleted: `Lower`, any number at once), drops or replaces calls, and then
perhaps drains, or it admits one row (`StepShape`).  `LanesAreFifo`, the refinement of
`FifoLane`, is read off that shape: rows that are lowered leave a lane, and a drain
claims the oldest waiting row of a lane with none in flight.

`OnlyRecoveryRepeats` and `ImmediateRunsOnce` count the turns of a request.  `QueueInv`
adds to the table that a dispatcher call belongs to a claim that was made, that a
claim has at most one call and so has a lane in one owner, and that a call that was
given up no longer holds its claim (`CallsOK`).  On it rests `BudgetInv`: a row that may still be sent to the adapter has
a turn left (`Budget`), because a refusal gives back only a row whose call never
reached the model and a recovery raises the budget; with one process at a time an
owner that is not up or stopping has no calls (`Lives`), and the `enqueue()` of a
scheduler turn that waits for its drain will find its row accepted, or never started
(`Waits`).

`ManagerQueueTurnProofs.tla`: `VerdictsAreEvident` and `LanesRunOneTurn`, from `TurnInv`.
A step moves a row in one of seven ways, each with the reason the code has for it,
and a drain may then claim it (`RowSteps`).  A session is in one slot and a turn runs in
the live session of its lane (`SessionsOK`), so an event of q reaches a live session
only by the end of a turn of q in it (`ToldSteps`).  A live owner's leases are fresh
(`Leased`); hence a session that has begun q neither dispatches it again nor loses its
row before it is settled, and never runs q with an event of q stored (`Once`, which needs
`BudgetInv` to exclude that a served scheduler row is deleted).  The event of a turn is
therefore the first of its session, which gives the verdict, and the row of a running
turn is in its hand, processed or about to be (`Carried`), which with single flight
leaves a lane one turn (`OneTurn`).  The exceptions the two properties name are those
where `Once` fails.

`WorkerRunProofs.tla`: `TypeCorrect`; `OwnersAreSound`, the inductive `OwnerInv`: types,
an unclaimed run has no lease, a held lease is the latest claim of its run, and
`QueuedIsUnowned`.  Every step either claims one queued run or only closes leases
and puts no owned run into the queue (`StepKinds`); from that follow
`QueueHasNoOwner`, `AttemptsAreUnique` and `LeasesImplementOwnership`, the refinement of
`RunOwnership`.  `LateStartsAreIgnored` is about a start that was sent: each of its
outcomes asks `Startable` before it writes the run.  Before the send `late_writes` shows
that an error overwrites the end of a run.
`FirstReleasesAreDeaths` needs what the node can show: no generation that was not
claimed, a start sent once, an exit file the last thing its generation does
(`NodeInv`), and that an observer that saw a death saw an exit file (`DeathWasSeen`).

`WorkerRetryProofs.tla`: `RetriesWaitForTheOwner` from `WaitInv`.  A new retry is of one
parent (`Origins`, and `OneRetry` with the root and the number), whose failure was
written by one of three.  A spawn that fails has no start in flight (`NodeInv`).  A verdict
is about a worker seen dead, or about a run whose first lease was closed, which leaves
no worker: released means dead, and abandoned means that a kill found it
(`AbandonedIsGone`, `CancelsKnow`).  Or the lease is held and its grace is over, which
only the health check itself could take back (`DoubtKept`, `WatchersKnow`).
The theorem supposes that nobody PATCHes a run to `failed` or `running`
(`Edits \cap {"failed", "running"} = {}`), and TLC finds it violated otherwise: a manual
`failed` makes a retry beside a live worker, and a manual `running` without a claim lets
an observer that saw no lease judge a run that was claimed since.

`OperatorScheduleProofs.tla`: `TypeCorrect`; `OccurrencesStartOnce` from `TurnInv`: a row
before `delivering` has had no delivery and no turn, and a delivery that is still open
has started none.  `OutcomesAreKept` from `LookedFor`: the tick reaches its sweep and
its backstop only when no running row is provable, which nothing in between
changes.  `OperatorsHaveOneActive` and `SupersededAreReplaced` from `ActiveInv`: every step
but `Materialize` and `RunNow` lets rows follow their statuses (`RowsFollow`), and those
two insert only beside nothing active or in the place of what they supersede.

`ActionLedgerProofs.tla`: `TypeCorrect`; every step is one of eight kinds for the row it
touches (`StepsMove`: it stays open, is claimed, records an issue, goes on, is dropped,
given up or blocked, or the world moves).  From them, in order: `FenceInv` (an open
row has no claim; a held claim is the last attempt), which gives `ResultsAreFenced`;
`CallsInv` (calls and requests belong to attempts; only the first executes and
creates); `OnceInv` (claimed and not sent, in transit, and made exclude each other,
and *failed* excludes all three); `EvidenceInv` (a row or a call names only issues with
its own marker, and a marker was made), which gives `FoundAreIdentified`;
`LedgerImplementsPromise`, the refinement of `OneEffect`; and `RepairsInv` (labels sent,
with the repairs still reading, never exceed the counter), which gives
`LabelsAreBounded`.

`GoalLoopProofs.tla`: `TypeCorrect`; `OneLineageHolds`, `TheJudgeIsHeeded`,
`OnlyACrashRepeats` and `OnlyTheAcceptedIsDelivered` from one invariant.  A retry has
one child, which no other attempt has, within the budget (`Lineage`, which needs that a
row that is not born is blank: `RowsAreBorn`).  An emission or a review is
recorded by the step after it, which only a crash keeps from coming (`MarksComeNext`,
`DownIsIdle`): `ActsAreMarked` counts one act more than crashes for what is recorded or
about to be, and a review acts for the run that claimed it (`ReviewsAreClaimed`).  A
promotion under way is of an accepted run and the one that the task's record names
(`PromotesTheClaimed`), so only such a run moves the branch.

`MaterializationProofs.tla`: `TypeCorrect`; `RunsFindTheirWorkspace` and
`AttemptsLeaveNothing`.  Claims are numbered, so a token names one attempt of one run
(`TokensAreKnown`, `TokensAreUsedOnce`), a recorded checkout is on the disk and in
nobody's list of removals (`TreesStand`), an attempt whose claim is over cannot record
its result (`ClaimsAreOver`), and a checkout that is neither recorded nor claimed is in
the hands of an attempt or a removal, or its loss is excused
(`NothingIsLeftBehind`): what each step adds to the disk, or drops from a hand, is
accounted for in the same step.

## 10. What is only model-checked, and what is not modelled

Liveness (`EveryMessageSettles`, `RunsSettle`, `EveryInvocationSettles`, `GoalsProgress`,
`TaskFollowsTip`, `ClaimsAreGivenBack`) is out of the proof system's reach and stays with
TLC.  Every safety property of a passing run is stated by a theorem, one of them under a
condition on the constants: `RetryWaitsForOwner` where no user marks a run failed or
running by hand.

Not modelled, with the reasons:
- *Memory*: ranking, sanitising and merging are text processing; the job leases of
  the distiller and the injection ledger are step 8 of the plan.
- *Operator instances*: what the queue and the schedules see of their transitions is in
  those modules; the rest is step 7.
- *Tasks, projects, trash; configuration*: CRUD over SQLite, one transaction per request.
- *Events, webhooks, sessions*: best effort by design, no state that anything relies on.
- *HTTP server, database, browser*: wiring and views; boot and shutdown order is in the
  modules that depend on it, and a SQLite transaction is a step of every module.

## 11. Checking it

    tlc -workers 2 -config QueueRestart.cfg MCManagerQueue.tla
    tlc -workers 2 -config QueueOverlap.cfg MCManagerQueue.tla
    tlc -workers 2 -config GoalRestart.cfg MCGoalLoop.tla
    tlc -workers 2 -config EarlyVerdict.cfg MCGoalLoop.tla
    tlc -workers 2 -config LedgerDoubt.cfg MCActionLedger.tla
    tlc -workers 2 -config Workspaces.cfg MCMaterialization.tla
    tlc -workers 2 -config ScheduleRestart.cfg MCOperatorSchedule.tla
    tlc -workers 2 -config ScheduleLiveness.cfg MCOperatorSchedule.tla
    tlc -workers 2 -config WorkerRestart.cfg MCWorkerRun.tla
    tlc -workers 2 -config WorkerRetry.cfg MCWorkerRun.tla
    tlc -workers 2 -config WorkerOverlap.cfg MCWorkerRun.tla
    tlc -workers 2 -config LateWrites.cfg MCWorkerRun.tla
    tlapm ActionLedgerProofs.tla
    tlapm GoalLoopProofs.tla
    tlapm ManagerQueueProofs.tla
    tlapm ManagerQueueTurnProofs.tla
    tlapm MaterializationProofs.tla
    tlapm OperatorScheduleProofs.tla
    tlapm WorkerRetryProofs.tla
    tlapm WorkerRunProofs.tla

PROJECT.json lists the runs with their modules and configurations, the mutants
that show each property can fail, and the source lines of every definition.  A
definition whose name ends in an underscore and a word (`Claimable_SkipsDelayed`) is
such a mutant and no part of the model.

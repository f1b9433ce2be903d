------------------------------ MODULE WorkerRun ------------------------------
(***************************************************************************)
(* A worker run on a remote node: its status machine and owner leases      *)
(* (server/services/runService.js), and the parts of lifecycleService.js   *)
(* that spawn, watch, cancel, recover and retry it over SSH.               *)
(*                                                                         *)
(* `run' and `lease' are SQLite tables and survive crashes.  `session',    *)
(* `exit' and `starting' are the node: a tmux session named after the RUN, *)
(* the exit.code file in the run's directory, and start commands that      *)
(* crossed the SSH boundary but have not been executed yet.  The rest is   *)
(* memory of the one server process.                                       *)
(*                                                                         *)
(* Every lease of a run is one generation of its owner; a lease_id is a    *)
(* fresh UUID and is modelled by the number of claims of the run.  Every   *)
(* `await' of the code is a stage of a record, so that any other handler   *)
(* may run before the next stage.  Generation 0 stands for "no held lease".*)
(***************************************************************************)
EXTENDS Naturals, FiniteSets

CONSTANTS
    Runs,           \* run ids
    Roots,          \* the runs a user submits; the others are retries
    Granted,        \* runs whose worker got a boot-local proposal capability
    Edits,          \* statuses asked for by PATCH /api/runs/:id/status
    MaxRetry,       \* MAX_RETRY
    MaxGens,        \* bound: claims of one run
    MaxEdits,       \* bound: status edits
    MaxCancels,     \* bound: cancellations
    MaxLost,        \* bound: SSH answers that get lost
    MaxCrashes      \* bound: ends of the server process

ASSUME WorkerAssumption ==
    /\ Roots \subseteq Runs
    /\ Granted \subseteq Runs
    /\ Edits \subseteq {"queued", "running", "paused", "needs_input",
                        "completed", "failed", "cancelled", "stopped"}
    /\ MaxRetry \in Nat /\ MaxGens \in Nat \ {0} /\ MaxEdits \in Nat
    /\ MaxCancels \in Nat /\ MaxLost \in Nat /\ MaxCrashes \in Nat

VARIABLES
    run,        \* runs
    lease,      \* run_owner_leases, by run and generation
    session,    \* node: generation of the process in the run's tmux session
    exit,       \* node: generation that wrote exit.code, and its success
    starting,   \* node: start commands on their way
    mode,       \* booting, open, closing (admission gate) or down
    spawns,     \* spawnQueuedRun calls in flight
    watch,      \* the health check and the boot recovery
    cancels,    \* cancelRun calls in flight
    budget      \* what is left of the bounds

vars == <<run, lease, session, exit, starting, mode, spawns, watch, cancels, budget>>

node == <<session, exit, starting>>

-----------------------------------------------------------------------------
Terminal == {"completed", "failed", "cancelled", "stopped"}
Active == {"running", "paused", "needs_input"}
Statuses == {"none", "queued"} \cup Active \cup Terminal

\* VALID_TRANSITIONS, without the materialisation of checkouts.
Allowed(s) ==
    CASE s = "queued" -> {"running", "cancelled"}
      [] s = "running" -> {"paused", "needs_input"} \cup Terminal
      [] s = "paused" -> {"running", "cancelled", "stopped"}
      [] s = "needs_input" -> {"running", "cancelled", "failed", "stopped"}
      [] s \in {"failed", "cancelled", "stopped"} -> {"queued"}
      [] OTHER -> {}

Gens == 1 .. MaxGens

\* A retry keeps the id of the first attempt (retry_root_run_id); `tmux' says
\* that tmux_session is set, `final' that the run is marked as not to be retried.
Run == [status : Statuses, root : Runs, retry : Nat, gens : Nat,
        tmux : BOOLEAN, final : BOOLEAN]
\* `engine' says that the owner engine is recorded; `doubt' is the
\* lease_probe_unknown event and the age of the first one.
Lease == [state : {"none", "held", "released", "abandoned"},
          engine : BOOLEAN, acquired : BOOLEAN,
          doubt : {"no", "noted", "expired"}]
Exit == [gen : Nat, ok : BOOLEAN]

Spawn == [run : Runs, gen : Nat,
          phase : {"preparing", "starting", "started", "refused", "sealing",
                   "unwinding"}]

\* What a watcher looks at: the run, its status and its lease as they were
\* read, whether an exit file would be believed, where it is, what it saw.
View == [run : Runs, was : Statuses, gen : Nat, trust : BOOLEAN,
         stage : {"listed", "probe", "judge", "kill", "killed", "look",
                  "reprobe", "revoke", "revoked"},
         seen : {"alive", "dead", "unknown"}, ok : BOOLEAN]
Passes == {"idle", "running", "needs_input", "leases", "granted"}
Watch == [pass : Passes, todo : SUBSET View, at : SUBSET View]
Watchers == {"health", "boot"}

Cancel == [run : Runs, gen : Nat, trust : BOOLEAN,
           stage : {"probe", "kill", "done"}, killed : BOOLEAN]

NoLease == [state |-> "none", engine |-> FALSE, acquired |-> FALSE,
            doubt |-> "no"]
Resting == [pass |-> "idle", todo |-> {}, at |-> {}]

Spend(what) == /\ budget[what] > 0
               /\ budget' = [budget EXCEPT ![what] = @ - 1]

-----------------------------------------------------------------------------
(* Leases                                                                  *)

Holds(r, g) == g \in Gens /\ lease[r][g].state = "held"
Unowned(r) == \A g \in Gens : lease[r][g].state # "held"

\* getHeldLease: the generation that holds the run, or 0.
HeldGen(r) == IF Unowned(r) THEN 0 ELSE CHOOSE g \in Gens : Holds(r, g)

\* releaseOwner: compare-and-set on state = 'held'; only the state of a closed
\* lease is read again, so its other columns are dropped.  Mutants: the new state is
\* not one the table allows; the release is forgotten.
Closed_Forgotten(r, g, how) == lease
Closed_Unchecked(r, g, how) ==
    IF Holds(r, g) THEN [lease EXCEPT ![r][g].state = "closed"] ELSE lease
Closed(r, g, how) ==
    IF Holds(r, g) THEN [lease EXCEPT ![r][g] = [NoLease EXCEPT !.state = how]]
                   ELSE lease

\* releaseDeadOwner falls back on whatever lease is held now.
ClosedByObserver(r, g) ==
    [lease EXCEPT ![r] = [h \in Gens |->
        IF Holds(r, h) /\ g \in {0, h}
        THEN [NoLease EXCEPT !.state = "released"] ELSE @[h]]]

\* leaseStillCurrent and the fence of markRunStartedTx.  Mutant: the lease is
\* enough, the run may be terminal.
Startable_HeldOnly(r, g) == Holds(r, g)
Startable(r, g) == Holds(r, g) /\ run[r].status \notin Terminal

\* A held lease blocks the way back to the queue, even when forced.
\* Mutant: forced writes pass.
Requeueable_Always(r) == TRUE
Requeueable(r) == Unowned(r)

-----------------------------------------------------------------------------
(* Status writes, with the run:ended handler that follows a terminal one   *)

\* findRetryAttempt.  Mutant: no look for a sibling, no unique index.
Attempted_Never(r) == FALSE
Attempted(r) == \E c \in Runs : /\ run[c].root = run[r].root
                                /\ run[c].retry = run[r].retry + 1

\* started_at is set, the run is not marked, the budget is not used up, and
\* there is no sibling.
WantsRetry(r) == /\ run[r].gens > 0
                 /\ ~ run[r].final
                 /\ run[r].retry < MaxRetry
                 /\ ~ Attempted(r)

\* createRetryRun
Child(r) == [status |-> "queued", root |-> run[r].root,
             retry |-> run[r].retry + 1, gens |-> 0, tmux |-> FALSE,
             final |-> FALSE]

\* updateRunStatus(r, s) once its fences have passed.
Becomes(r, s) ==
    IF s = "failed" /\ run[r].status # "failed" /\ WantsRetry(r)
    THEN \E c \in Runs \ Roots :
             /\ run[c].status = "none"
             /\ run' = [run EXCEPT ![r].status = s, ![c] = Child(r)]
    ELSE run' = [run EXCEPT ![r].status = s]

\* requireHeldLease and requireCurrentStatus
Fenced(v) == /\ v.gen = 0 \/ Holds(v.run, v.gen)
             /\ run[v.run].status = v.was

-----------------------------------------------------------------------------
(* The node                                                                *)

\* tmux new-session -d -s palantir-run-<id>: refused while the name is taken.
\* exit.code is left as it was.
NodeStarts(r, g) ==
    /\ <<r, g>> \in starting
    /\ starting' = starting \ {<<r, g>>}
    /\ session' = IF session[r] = 0 THEN [session EXCEPT ![r] = g] ELSE session
    /\ spawns' = {IF s.run = r /\ s.gen = g /\ s.phase = "starting"
                  THEN [s EXCEPT !.phase = IF session[r] = 0 THEN "started"
                                                             ELSE "refused"]
                  ELSE s : s \in spawns}
    /\ UNCHANGED <<run, lease, exit, mode, watch, cancels, budget>>

\* A command whose sender no longer waits for it may never have arrived.
NeverStarts(r, g) ==
    /\ <<r, g>> \in starting
    /\ \A s \in spawns : <<s.run, s.gen, s.phase>> # <<r, g, "starting">>
    /\ starting' = starting \ {<<r, g>>}
    /\ UNCHANGED <<run, lease, session, exit, mode, spawns, watch, cancels, budget>>

WorkerExits(r, ok) ==
    /\ session[r] # 0
    /\ exit' = [exit EXCEPT ![r] = [gen |-> session[r], ok |-> ok]]
    /\ session' = [session EXCEPT ![r] = 0]
    /\ UNCHANGED <<run, lease, starting, mode, spawns, watch, cancels,
                   budget>>

\* A reboot of the node, or the tmux server dies: no exit file is written.
SessionLost(r) ==
    /\ session[r] # 0
    /\ session' = [session EXCEPT ![r] = 0]
    /\ Spend("lost")
    /\ UNCHANGED <<run, lease, exit, starting, mode, spawns, watch, cancels>>

\* tmux kill-session for run r, whichever generation it belongs to; the exit
\* file stays.
Kill(r) == session' = [session EXCEPT ![r] = 0]

\* ownerState of the remote channel.
OwnerState(r) == IF session[r] # 0 THEN "alive"
                 ELSE IF exit[r].gen # 0 THEN "dead" ELSE "unknown"

\* demoteReservedSentinelDead: a reserved lease never started a process, so an
\* exit file found under it is not its own.
Trusted(r, g) == IF g = 0 THEN TRUE
                 ELSE \/ lease[r][g].acquired
                      \/ ~ lease[r][g].engine /\ ~ run[r].tmux

\* The answer of probeOwner, "unknown" when the transport fails.
Probed(r, trust, seen) ==
    \/ /\ seen = IF OwnerState(r) = "dead" /\ ~ trust THEN "unknown"
                                                      ELSE OwnerState(r)
       /\ UNCHANGED budget
    \/ seen = "unknown" /\ Spend("lost")

\* Every other awaited SSH call: it is answered, or the transport fails.
Answered == UNCHANGED budget
Unanswered == Spend("lost")

-----------------------------------------------------------------------------
(* Requests                                                                *)

\* executeTask
Submit(r) ==
    /\ mode # "down"
    /\ r \in Roots /\ run[r].status = "none"
    /\ run' = [run EXCEPT ![r].status = "queued"]
    /\ UNCHANGED <<lease, node, mode, spawns, watch, cancels, budget>>

\* PATCH /api/runs/:id/status: updateRunStatus without force.
PatchStatus(r, s) ==
    /\ mode # "down"
    /\ s \in Allowed(run[r].status)
    /\ s = "queued" => Requeueable(r)
    /\ Spend("edits")
    /\ Becomes(r, s)
    /\ UNCHANGED <<lease, node, mode, spawns, watch, cancels>>

-----------------------------------------------------------------------------
(* spawnQueuedRun                                                          *)

Drops(s) == spawns' = spawns \ {s}
Moves(s, phase) == spawns' = (spawns \ {s}) \cup {[s EXCEPT !.phase = phase]}

\* claimQueuedRunTx: status, the old lease and the new one in a transaction.
Claim(r) ==
    LET g == run[r].gens + 1 IN
    /\ mode = "open"
    /\ run[r].status = "queued"
    /\ g \in Gens
    /\ run' = [run EXCEPT ![r].status = "running", ![r].gens = g]
    /\ lease' = [lease EXCEPT ![r] = [h \in Gens |->
                    IF h = g THEN [NoLease EXCEPT !.state = "held"]
                    ELSE IF Holds(r, h) THEN [NoLease EXCEPT !.state = "abandoned"]
                    ELSE @[h]]]
    /\ spawns' = spawns \cup {[run |-> r, gen |-> g, phase |-> "preparing"]}
    /\ UNCHANGED <<node, mode, watch, cancels, budget>>

\* The last checks before the channel is called: the gate, then the lease;
\* the owner engine is recorded.
SpawnSends(s) ==
    /\ s.phase = "preparing"
    /\ mode = "open"
    /\ Startable(s.run, s.gen)
    /\ lease' = [lease EXCEPT ![s.run][s.gen].engine = TRUE]
    /\ starting' = starting \cup {<<s.run, s.gen>>}
    /\ Moves(s, "starting")
    /\ UNCHANGED <<run, session, exit, mode, watch, cancels, budget>>

\* The gate is closed: release, then force the run back to the queue.
SpawnAborts(s) ==
    /\ s.phase = "preparing"
    /\ mode = "closing"
    /\ lease' = Closed(s.run, s.gen, "released")
    /\ run' = IF \A g \in Gens \ {s.gen} : ~ Holds(s.run, g)
              THEN [run EXCEPT ![s.run].status = "queued"] ELSE run
    /\ Drops(s)
    /\ UNCHANGED <<node, mode, watch, cancels, budget>>

\* An error of the last part of the preparation, of a call before the start
\* command, or of tmux, which refuses the name: the `catch' around the start.
SpawnErrs(s) ==
    \/ s.phase \in {"preparing", "refused"} /\ UNCHANGED starting
    \/ /\ s.phase = "starting" /\ <<s.run, s.gen>> \in starting
       /\ starting' = starting \ {<<s.run, s.gen>>}

SpawnFails(s) ==
    /\ SpawnErrs(s)
    /\ Startable(s.run, s.gen)
    /\ Becomes(s.run, "failed")
    /\ Moves(s, "unwinding")
    /\ UNCHANGED <<lease, session, exit, mode, watch, cancels, budget>>

\* The error of a stale generation is only noted; `finally' releases.
SpawnStale(s) ==
    /\ SpawnErrs(s)
    /\ ~ Startable(s.run, s.gen)
    /\ lease' = Closed(s.run, s.gen, "released")
    /\ Drops(s)
    /\ UNCHANGED <<run, session, exit, mode, watch, cancels, budget>>

\* After the awaited clean-up of the worktree.
SpawnUnwinds(s) ==
    /\ s.phase = "unwinding"
    /\ lease' = Closed(s.run, s.gen, "released")
    /\ Drops(s)
    /\ UNCHANGED <<run, node, mode, watch, cancels, budget>>

\* Outside of that `catch', an error of the preparation (the version of Claude,
\* skill packs, the project's MCP file, bearer keys, dead MCP endpoints) forces
\* `failed' without a look at the lease or the status, whatever was written during
\* an await before it; the throw that follows reaches only `finally'.
SetupFails(s) ==
    /\ s.phase = "preparing"
    /\ Becomes(s.run, "failed")
    /\ lease' = Closed(s.run, s.gen, "released")
    /\ Drops(s)
    /\ UNCHANGED <<node, mode, watch, cancels, budget>>

\* Files that a remote Claude worker could not read: the run is marked and failed,
\* again without a look, and its lease is released after the awaited clean-up.
AssetsUnsupported(s) ==
    /\ s.phase = "preparing"
    /\ run' = [run EXCEPT ![s.run].status = "failed", ![s.run].final = TRUE]
    /\ Moves(s, "unwinding")
    /\ UNCHANGED <<lease, node, mode, watch, cancels, budget>>

\* A plain throw of the preparation (the MCP file cannot be written): `finally'
\* releases, and the run stays as it is, running with no owner.
SetupThrows(s) ==
    /\ s.phase = "preparing"
    /\ lease' = Closed(s.run, s.gen, "released")
    /\ Drops(s)
    /\ UNCHANGED <<run, node, mode, watch, cancels, budget>>

\* markRunStartedTx for the generation of s
MarkStarted(s) ==
    /\ run' = [run EXCEPT ![s.run].status = "running", ![s.run].tmux = TRUE]
    /\ lease' = [lease EXCEPT ![s.run][s.gen].acquired = TRUE]

SpawnAcked(s) ==
    /\ s.phase = "started"
    /\ IF Startable(s.run, s.gen) THEN MarkStarted(s) /\ Drops(s)
       ELSE Moves(s, "sealing") /\ UNCHANGED <<run, lease>>
    /\ UNCHANGED <<node, mode, watch, cancels, budget>>

\* The kill of a start that was superseded; the lease is not touched.
SpawnSealed(s) ==
    /\ s.phase = "sealing"
    /\ \/ Kill(s.run) /\ Answered
       \/ UNCHANGED session /\ Unanswered
    /\ Drops(s)
    /\ UNCHANGED <<run, lease, exit, starting, mode, watch, cancels>>

\* REMOTE_SPAWN_UNCERTAIN: the acknowledgement is lost; the command may be on
\* its way, running, or never run.  Mutant: the lease is given up.
Uncertain_Released(s) == Closed(s.run, s.gen, "released")
Uncertain(s) == IF Startable(s.run, s.gen)
                THEN [lease EXCEPT ![s.run][s.gen].acquired = TRUE] ELSE lease

SpawnUncertain(s) ==
    /\ s.phase \in {"starting", "started", "refused"}
    /\ Unanswered
    /\ run' = IF Startable(s.run, s.gen)
              THEN [run EXCEPT ![s.run].status = "running",
                               ![s.run].tmux = TRUE] ELSE run
    /\ lease' = Uncertain(s)
    /\ Drops(s)
    /\ UNCHANGED <<node, mode, watch, cancels>>

SpawnStep(s) == \/ SpawnSends(s) \/ SpawnAborts(s) \/ SpawnFails(s)
                \/ SpawnStale(s) \/ SpawnUnwinds(s) \/ SetupFails(s)
                \/ AssetsUnsupported(s) \/ SetupThrows(s)
                \/ SpawnAcked(s) \/ SpawnSealed(s) \/ SpawnUncertain(s)

-----------------------------------------------------------------------------
(* _doHealthCheck, sweepHeldOwnerLeases and the part of                    *)
(* recoverOrphanSessions that revokes capabilities                         *)

Goes(w, v) == watch' = [watch EXCEPT ![w].at = {v}]
Leaves(w) == watch' = [watch EXCEPT ![w].at = {}]

Listed(r, g) == [run |-> r, was |-> run[r].status, gen |-> g,
                 trust |-> Trusted(r, g), stage |-> "listed",
                 seen |-> "unknown", ok |-> FALSE]
Starts(w, pass) ==
    watch' = [watch EXCEPT ![w] =
        [pass |-> pass, at |-> {},
         todo |-> CASE pass \in {"running", "needs_input"} ->
                         {Listed(r, 0) : r \in {q \in Runs :
                                                run[q].status = pass}}
                    [] pass = "leases" ->
                         {Listed(r, HeldGen(r)) : r \in {q \in Runs :
                                                         ~ Unowned(q)}}
                    [] OTHER -> {}]]

CheckBegins ==
    /\ mode # "down"
    /\ watch["health"].pass = "idle"
    /\ Starts("health", "running")
    /\ UNCHANGED <<run, lease, node, mode, spawns, cancels, budget>>

\* After the leases the check is over; after the granted runs boot has
\* recovered, and the admission gate opens unless a shutdown has closed it.
NextPass(w) ==
    /\ watch[w].pass # "idle" /\ watch[w].todo = {} /\ watch[w].at = {}
    /\ CASE watch[w].pass = "running" -> Starts(w, "needs_input")
         [] watch[w].pass = "needs_input" -> Starts(w, "leases")
         [] OTHER -> Starts(w, "idle")
    /\ mode' = IF w = "boot" /\ mode = "booting" THEN "open" ELSE mode
    /\ UNCHANGED <<run, lease, node, spawns, cancels, budget>>

\* The held lease is read, and the probe is sent.
Visit(w, v) ==
    LET g == IF watch[w].pass = "leases" THEN v.gen ELSE HeldGen(v.run) IN
    /\ watch[w].at = {}
    /\ v \in watch[w].todo
    /\ watch' = [watch EXCEPT
                 ![w].todo = @ \ {v},
                 ![w].at = {[v EXCEPT !.gen = g, !.stage = "probe",
                             !.trust = CASE watch[w].pass = "granted" -> TRUE
                                         [] watch[w].pass = "leases" -> v.trust
                                         [] OTHER -> Trusted(v.run, g)]}]
    /\ UNCHANGED <<run, lease, node, mode, spawns, cancels, budget>>

Doubted(v, d) == IF Holds(v.run, v.gen)
                 THEN [lease EXCEPT ![v.run][v.gen].doubt = d] ELSE lease

\* unknownGraceExpired.  Mutants: no grace; unknown never ends a run.
GraceOver_Always(v) == TRUE
GraceOver_Never(v) == FALSE
GraceOver(v) == IF v.gen = 0 THEN TRUE
                ELSE lease[v.run][v.gen].doubt = "expired"

\* The running and the needs_input pass.
RunAnswers(w, v) ==
    /\ watch[w].pass \in {"running", "needs_input"}
    /\ \/ /\ v.seen = "unknown" /\ ~ GraceOver(v)
          /\ lease' = Doubted(v, "noted")
          /\ Leaves(w)
       \/ /\ v.seen = "unknown" /\ GraceOver(v)
          /\ Goes(w, [v EXCEPT !.stage = "judge"])
          /\ UNCHANGED lease
       \/ /\ v.seen = "dead"
          /\ Goes(w, [v EXCEPT !.stage = "judge", !.ok = exit[v.run].ok])
          /\ UNCHANGED lease
       \/ /\ v.seen = "alive"
          /\ Goes(w, [v EXCEPT !.stage = "look"])
          /\ UNCHANGED lease

\* The sweep over the leases never writes a status.
LeaseAnswers(w, v) ==
    /\ watch[w].pass = "leases"
    /\ lease' = CASE v.seen = "dead" -> Closed(v.run, v.gen, "released")
                  [] v.seen = "alive" /\ Holds(v.run, v.gen) ->
                       [lease EXCEPT ![v.run][v.gen].acquired = TRUE,
                                     ![v.run][v.gen].doubt = "no"]
                  [] v.seen = "unknown" /\ Holds(v.run, v.gen)
                     /\ lease[v.run][v.gen].doubt = "no" -> Doubted(v, "noted")
                  [] OTHER -> lease
    /\ Leaves(w)

\* recoverTerminalResult: without an exit file the worker is revoked; a
\* transport failure is thrown, and boot goes on with the next run.
GrantAnswers(w, v) ==
    /\ watch[w].pass = "granted"
    /\ CASE budget' # budget -> Leaves(w)
         [] v.seen = "dead" -> Goes(w, [v EXCEPT !.stage = "judge",
                                        !.ok = exit[v.run].ok])
         [] OTHER -> Goes(w, [v EXCEPT !.stage = "revoke"])
    /\ UNCHANGED lease

Answer(w, v, seen) ==
    LET u == [v EXCEPT !.seen = seen] IN
    /\ v.stage = "probe"
    /\ Probed(v.run, v.trust, seen)
    /\ RunAnswers(w, u) \/ LeaseAnswers(w, u) \/ GrantAnswers(w, u)
    /\ UNCHANGED <<run, node, mode, spawns, cancels>>

\* The terminal write, after the output has been fetched; the lease stays until
\* the kill is over.
Judge(w, v) ==
    /\ v.stage = "judge"
    /\ IF Fenced(v)
       THEN /\ Becomes(v.run, IF v.ok THEN "completed" ELSE "failed")
            /\ Goes(w, [v EXCEPT !.stage = "kill"])
       ELSE Leaves(w) /\ UNCHANGED run
    /\ UNCHANGED <<lease, node, mode, spawns, cancels, budget>>

\* kill-session reaches the node.
Kills(w, v) ==
    /\ v.stage \in {"kill", "revoke"}
    /\ Kill(v.run)
    /\ Goes(w, [v EXCEPT !.stage = IF v.stage = "kill" THEN "killed"
                                                       ELSE "revoked"])
    /\ UNCHANGED <<run, lease, exit, starting, mode, spawns, cancels, budget>>

\* The kill is over.  Only a confirmed death gives the lease up; the health
\* check closes whatever lease is held if it had probed none.
Settle(w, v) ==
    /\ v.stage = "killed"
    /\ \/ v.seen # "dead" /\ UNCHANGED lease
       \/ v.seen = "dead" /\ w = "health"
          /\ lease' = ClosedByObserver(v.run, v.gen)
       \/ v.seen = "dead" /\ w = "boot"
          /\ lease' = Closed(v.run, v.gen, "released")
    /\ Leaves(w)
    /\ UNCHANGED <<run, node, mode, spawns, cancels, budget>>

\* Output and idle time of a live worker.  A long idle one is probed again,
\* under the lease that is held then.
Look(w, v) ==
    /\ v.stage = "look"
    /\ \/ Leaves(w)
       \/ /\ watch[w].pass = "running"
          /\ Goes(w, [v EXCEPT !.stage = "reprobe", !.gen = HeldGen(v.run),
                               !.trust = Trusted(v.run, HeldGen(v.run))])
    /\ UNCHANGED <<run, lease, node, mode, spawns, cancels, budget>>

\* Its output changed: 'running' is forced, with no fence.
Resumes(w, v) ==
    /\ v.stage = "look" /\ watch[w].pass = "needs_input"
    /\ Becomes(v.run, "running")
    /\ Leaves(w)
    /\ UNCHANGED <<lease, node, mode, spawns, cancels, budget>>

\* The second probe of an idle worker; alive, 'needs_input' is forced.
Reprobe(w, v, seen) ==
    /\ v.stage = "reprobe"
    /\ Probed(v.run, v.trust, seen)
    /\ CASE seen = "dead" -> /\ Goes(w, [v EXCEPT !.stage = "judge",
                                         !.seen = "dead", !.ok = exit[v.run].ok])
                             /\ UNCHANGED run
         [] seen = "alive" -> Becomes(v.run, "needs_input") /\ Leaves(w)
         [] OTHER -> Leaves(w) /\ UNCHANGED run
    /\ UNCHANGED <<lease, node, mode, spawns, cancels>>

\* Boot checks that the revoked worker is gone, and forces 'stopped'.
Revoked(w, v) ==
    /\ v.stage = "revoked"
    /\ IF session[v.run] = 0 THEN Becomes(v.run, "stopped") ELSE UNCHANGED run
    /\ Leaves(w)
    /\ UNCHANGED <<lease, node, mode, spawns, cancels, budget>>

\* An SSH call throws outside a probe: the health check goes on with the sweep
\* of the leases, boot with its next run (a kill after a verdict is not
\* awaited for success there).
CallFails(w, v) ==
    /\ v.stage \in {"judge", "kill", "look", "revoke", "revoked"}
    /\ Unanswered
    /\ IF w = "health"
       THEN watch' = [watch EXCEPT ![w] = [pass |-> "needs_input", todo |-> {},
                                           at |-> {}]]
       ELSE IF v.stage = "kill" THEN Goes(w, [v EXCEPT !.stage = "killed"])
       ELSE Leaves(w)
    /\ \/ UNCHANGED session
       \/ v.stage \in {"kill", "revoke"} /\ Kill(v.run)
    /\ UNCHANGED <<run, lease, exit, starting, mode, spawns, cancels>>

WatchStep(w) ==
    \/ NextPass(w)
    \/ \E v \in watch[w].todo : Visit(w, v)
    \/ \E v \in watch[w].at :
          \/ \E seen \in {"alive", "dead", "unknown"} :
                Answer(w, v, seen) \/ Reprobe(w, v, seen)
          \/ Judge(w, v) \/ Kills(w, v) \/ Settle(w, v) \/ Look(w, v)
          \/ Resumes(w, v) \/ Revoked(w, v) \/ CallFails(w, v)

\* REMOTE_OWNERSHIP_UNCERTAIN_TTL_MS after the first unknown answer.
Expire(r, g) ==
    /\ Holds(r, g) /\ lease[r][g].doubt = "noted"
    /\ lease' = [lease EXCEPT ![r][g].doubt = "expired"]
    /\ UNCHANGED <<run, node, mode, spawns, watch, cancels, budget>>

-----------------------------------------------------------------------------
(* cancelRun                                                               *)

CancelMoves(c, d) == cancels' = (cancels \ {c}) \cup {d}

CancelBegins(r) ==
    LET g == HeldGen(r) IN
    /\ mode # "down"
    /\ run[r].status \notin Terminal \cup {"none"}
    /\ Spend("cancels")
    /\ cancels' = cancels \cup {[run |-> r, gen |-> g, trust |-> Trusted(r, g),
                                 stage |-> IF g = 0 THEN "kill" ELSE "probe",
                                 killed |-> FALSE]}
    /\ UNCHANGED <<run, lease, node, mode, spawns, watch>>

\* A dead owner is released before the kill destroys the evidence.
CancelProbed(c, seen) ==
    /\ c.stage = "probe"
    /\ Probed(c.run, c.trust, seen)
    /\ IF seen = "dead"
       THEN /\ lease' = Closed(c.run, c.gen, "released")
            /\ CancelMoves(c, [c EXCEPT !.stage = "kill", !.gen = 0])
       ELSE UNCHANGED lease /\ CancelMoves(c, [c EXCEPT !.stage = "kill"])
    /\ UNCHANGED <<run, node, mode, spawns, watch>>

\* tmux reports whether there was a session to kill.
CancelKills(c) ==
    /\ c.stage = "kill"
    /\ \/ /\ Kill(c.run) /\ Answered
          /\ CancelMoves(c, [c EXCEPT !.stage = "done",
                                      !.killed = session[c.run] # 0])
       \/ /\ Kill(c.run) \/ UNCHANGED session
          /\ Unanswered
          /\ CancelMoves(c, [c EXCEPT !.stage = "done"])
    /\ UNCHANGED <<run, lease, exit, starting, mode, spawns, watch>>

\* finishCancelRun: 'cancelled' is forced, with no fence.
CancelFinishes(c) ==
    /\ c.stage = "done"
    /\ lease' = IF c.killed THEN Closed(c.run, c.gen, "abandoned") ELSE lease
    /\ Becomes(c.run, "cancelled")
    /\ cancels' = cancels \ {c}
    /\ UNCHANGED <<node, mode, spawns, watch, budget>>

CancelStep(c) == \/ \E seen \in {"alive", "dead", "unknown"} :
                       CancelProbed(c, seen)
                 \/ CancelKills(c) \/ CancelFinishes(c)

-----------------------------------------------------------------------------
(* The end of the server process, and the next one                         *)

Shutdown ==
    /\ mode \in {"booting", "open"}
    /\ Spend("crashes")
    /\ mode' = "closing"
    /\ UNCHANGED <<run, lease, node, spawns, watch, cancels>>

\* Shutdown waits for spawns in flight, but not longer than its cap.
Ends ==
    /\ mode' = "down"
    /\ spawns' = {} /\ cancels' = {}
    /\ watch' = [w \in Watchers |-> Resting]
    /\ UNCHANGED <<run, lease, node>>
Exits == mode = "closing" /\ Ends /\ UNCHANGED budget
Crash == mode \in {"booting", "open"} /\ Ends /\ Spend("crashes")

\* createApp: the gate is closed until the recovery is over.
Boot ==
    /\ mode = "down"
    /\ mode' = "booting"
    /\ watch' = [watch EXCEPT !["boot"] =
                 [pass |-> "granted", at |-> {},
                  todo |-> {Listed(r, 0) : r \in {q \in Granted :
                                 run[q].status \in Active /\ run[q].gens > 0}}]]
    /\ UNCHANGED <<run, lease, node, spawns, cancels, budget>>

-----------------------------------------------------------------------------
Init ==
    /\ run = [r \in Runs |-> [status |-> "none", root |-> r, retry |-> 0,
                              gens |-> 0, tmux |-> FALSE, final |-> FALSE]]
    /\ lease = [r \in Runs |-> [g \in Gens |-> NoLease]]
    /\ session = [r \in Runs |-> 0]
    /\ exit = [r \in Runs |-> [gen |-> 0, ok |-> FALSE]]
    /\ starting = {}
    /\ mode = "open"
    /\ spawns = {}
    /\ watch = [w \in Watchers |-> Resting]
    /\ cancels = {}
    /\ budget = [edits |-> MaxEdits, cancels |-> MaxCancels, lost |-> MaxLost,
                 crashes |-> MaxCrashes]

NodeStep == \/ \E r \in Runs, g \in Gens : NodeStarts(r, g) \/ NeverStarts(r, g)
            \/ \E r \in Runs, ok \in BOOLEAN : WorkerExits(r, ok)
            \/ \E r \in Runs : SessionLost(r)

Next ==
    \/ \E r \in Runs : Submit(r) \/ Claim(r) \/ CancelBegins(r)
    \/ \E r \in Runs, s \in Edits : PatchStatus(r, s)
    \/ \E s \in spawns : SpawnStep(s)
    \/ NodeStep
    \/ CheckBegins \/ \E w \in Watchers : WatchStep(w)
    \/ \E r \in Runs, g \in Gens : Expire(r, g)
    \/ \E c \in cancels : CancelStep(c)
    \/ Shutdown \/ Exits \/ Crash \/ Boot

Spec == Init /\ [][Next]_vars

\* Timers fire, promises settle, SSH calls return or time out, a server that
\* is down is started again, a start command arrives or is lost, and a worker
\* ends by itself.  Nothing makes users act, and nothing but another event
\* drains the queue.
Fairness ==
    /\ \A r \in Runs, g \in Gens :
          /\ WF_vars(NodeStarts(r, g) \/ NeverStarts(r, g))
          /\ WF_vars(\E s \in spawns : <<s.run, s.gen>> = <<r, g>> /\ SpawnStep(s))
          /\ WF_vars(Expire(r, g))
    /\ \A r \in Runs :
          /\ WF_vars(\E ok \in BOOLEAN : WorkerExits(r, ok))
          /\ WF_vars(\E c \in cancels : c.run = r /\ CancelStep(c))
    /\ WF_vars(CheckBegins)
    /\ \A w \in Watchers : WF_vars(WatchStep(w))
    /\ WF_vars(Exits) /\ WF_vars(Boot)

FairSpec == Spec /\ Fairness

-----------------------------------------------------------------------------
(* Properties                                                              *)

\* Every variable stays in its domain; a lease has one of the table's states.
TypeOK ==
    /\ run \in [Runs -> Run]
    /\ lease \in [Runs -> [Gens -> Lease]]
    /\ session \in [Runs -> Nat]
    /\ exit \in [Runs -> Exit]
    /\ starting \subseteq Runs \X Gens
    /\ mode \in {"booting", "open", "closing", "down"}
    /\ spawns \subseteq Spawn
    /\ watch \in [Watchers -> Watch]
    /\ cancels \subseteq Cancel
    /\ budget \in [{"edits", "cancels", "lost", "crashes"} -> Nat]

\* A run waits in the queue only when none of its generations holds a lease:
\* no requeue, abort or retry puts a run with a possibly live owner there.
QueuedIsUnowned ==
    \A r \in Runs : run[r].status \in {"none", "queued"} => Unowned(r)

\* Owners of a run never overlap: the abstract lease register.
Ownership == INSTANCE RunOwnership WITH
                 owner <- [r \in Runs |-> HeldGen(r)],
                 last <- [r \in Runs |-> run[r].gens]
ImplementsOwnership == Ownership!Spec

\* The outcome of a start that was sent (acknowledged, refused, failed, uncertain)
\* and comes after the run has ended, or after its claim is no longer the owner,
\* changes no run: the end stands, a later claim is not disturbed, and no retry is
\* enqueued.  (Before the send an error may still overwrite an end.)
LateStartIsIgnored ==
    [][\A s \in spawns \ spawns' :
          /\ s.phase # "preparing"
          /\ run[s.run].status \in Terminal \/ ~ Holds(s.run, s.gen)
          => run' = run]_vars

\* A run's first owner, whose directory on the node has no exit file but its
\* own: a lease closed as `released' is a confirmed death.  No process of that
\* generation is alive, and no start of it can still arrive.
Gone(r, g) == session[r] # g /\ <<r, g>> \notin starting
FirstReleaseIsDeath ==
    \A r \in Runs : lease[r][1].state = "released" => Gone(r, 1)

\* Two observers of one failure, or a failure that is repeated after a manual
\* requeue, enqueue one retry per attempt.
OneRetry ==
    \A c, d \in Runs : /\ run[c].retry > 0 /\ run[c].retry = run[d].retry
                       /\ run[c].root = run[d].root
                       => c = d

\* A retry is enqueued while the worker it replaces may still run, or may
\* still start, only when the grace period of a held lease has run out.  (Of a
\* run claimed more than once, an exit file may be a former owner's.)
RetryWaitsForOwner ==
    [][\A c \in Runs :
          run[c].status = "none" /\ run'[c].status # "none" /\ run'[c].retry > 0
          => \A p \in Runs :
                /\ run[p].gens <= 1
                /\ run[p].root = run'[c].root
                /\ run[p].retry + 1 = run'[c].retry
                => \/ session'[p] = 0 /\ \A g \in Gens : <<p, g>> \notin starting'
                   \/ \E g \in Gens : /\ Holds(p, g)
                                      /\ lease[p][g].doubt = "expired"]_vars

\* A run that is running or waits for input does not stay so for ever, however
\* its worker was lost: it ends, or a user paused or requeued it.
RunsSettle ==
    \A r \in Runs : run[r].status \in {"running", "needs_input"}
                    ~> run[r].status \in Terminal \cup {"paused", "queued"}

-----------------------------------------------------------------------------
(* What the code says of itself, and the model refutes                     *)

\* spawnQueuedRun, updateRunStatus: nothing late overwrites the user's newer
\* `cancelled' decision; only the user, or the abort of a shutdown, puts the run
\* back into the queue.
CancelledStays ==
    [][mode # "closing" =>
          \A r \in Runs : run[r].status = "cancelled"
                          => run'[r].status \in {"cancelled", "queued"}]_vars
=============================================================================

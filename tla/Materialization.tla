--------------------------- MODULE Materialization ---------------------------
(***************************************************************************)
(* Checkouts of a project's repository for queued runs: the claim columns   *)
(* of `runs' and the cache leases (runService.js), the attempts             *)
(* (projectMaterializationService.js), and their start, retry and stuck     *)
(* sweep (lifecycleService.js), on one node.                                *)
(*                                                                         *)
(* Tables, caches and worktrees survive a crash; attempts and removals are  *)
(* promises of the server process, whose every git call is awaited (their   *)
(* `stage').  A worktree is named after the run and the claim token.        *)
(***************************************************************************)
EXTENDS Naturals, FiniteSets

CONSTANTS
    Runs,           \* runs of one git project, in the order of their creation
    Capacity,       \* MAX_MATERIALIZING_PER_NODE
    MaxAttempts,    \* MAX_MATERIALIZE_ATTEMPTS
    MaxClaims,      \* bound: claims
    MaxChanges,     \* bound: changes of the project's source
    MaxEdits,       \* bound: cancellations and requeues by the user
    MaxCrashes      \* bound: ends of the server process

ASSUME MaterializationAssumption ==
    /\ Runs \subseteq Nat \ {0}
    /\ Capacity \in Nat \ {0} /\ MaxAttempts \in Nat
    /\ MaxClaims \in Nat /\ MaxChanges \in Nat
    /\ MaxEdits \in Nat /\ MaxCrashes \in Nat

VARIABLES
    run,        \* runs: status and materialisation columns
    source,     \* projects.source_generation
    cache,      \* project_node_workspaces.status, by generation
    lease,      \* the running lease of a generation's cache
    disk,       \* worktrees on the node
    attempts,   \* ensureWorkspace calls in progress
    removals,   \* worktrees that a cleanup or a harvest is about to remove
    up,         \* the server: open, closing (admission closed) or down
    seen,       \* runs that are harvested no more
    harvested,  \* history: worktrees of harvested runs
    excused,    \* history: worktrees whose removal nobody owes any more
    claims,     \* claims so far
    edits, crashes      \* counters of the bounded events

vars == <<run, source, cache, lease, disk, attempts, removals, up, seen,
          harvested, excused, claims, edits, crashes>>
tables == <<run, source, cache, lease, claims>>
ends == <<seen, harvested, excused>>
counters == <<edits, crashes>>

-----------------------------------------------------------------------------
Generations == 0 .. MaxChanges
Tokens == 1 .. MaxClaims

\* A claim token is a fresh UUID: the number of the claim; 0 is NULL.
\* `path' is the token in workspace_path, `of' the workspace_generation,
\* `after' materialize_run_after, `aged' whether the claim is older than
\* MATERIALIZE_STUCK_THRESHOLD_MS.
Run == [status : {"queued", "materializing", "running", "completed", "failed",
                  "cancelled"},
        token : {0} \cup Tokens, after : {"null", "future", "past"},
        attempts : Nat, aged : BOOLEAN,
        path : {0} \cup Tokens, of : Generations]
Worktree == [run : Runs, token : Tokens, of : Generations]

\* The stages of an attempt; `failed' is what a removal under way will report.
Attempt == [run : Runs, token : Tokens, of : Generations,
            stage : {"begin", "fetch", "add", "added", "undo"},
            failed : BOOLEAN]
NoLease == [run |-> 0, token |-> 0, old |-> FALSE]
Lease == [run : Runs, token : Tokens, old : BOOLEAN] \cup {NoLease}

Tree(x) == [run |-> x.run, token |-> x.token, of |-> x.of]
Recorded(r) == [run |-> r, token |-> run[r].path, of |-> run[r].of]
HasWorkspace(r) == run[r].path # 0
Ready(r) == HasWorkspace(r) /\ run[r].of = source

\* The compare-and-set of every write of an attempt.
\* Mutant: the status alone is compared.
Holds_Status(r, token) == run[r].status = "materializing"
Holds(r, token) == run[r].status = "materializing" /\ run[r].token = token

\* requeueMaterializingRun, and failOrRequeueMaterializingRun.
\* Mutant: a status that the table does not know.
Requeued_Pending(c) ==
    [c EXCEPT !.status = "pending", !.token = 0, !.after = "future",
              !.attempts = @ + 1, !.aged = FALSE]
Requeued(c) == [c EXCEPT !.status = "queued", !.token = 0, !.after = "future",
                         !.attempts = @ + 1, !.aged = FALSE]
FailedOrRequeued(c) ==
    IF c.attempts < MaxAttempts THEN Requeued(c)
    ELSE [c EXCEPT !.status = "failed", !.token = 0, !.after = "null",
                   !.attempts = @ + 1, !.aged = FALSE]

\* The first end of a run is harvested, which removes its worktree.
Trees(R) == {Recorded(r) : r \in {r \in R \ seen : HasWorkspace(r)}}
Harvests(R) ==
    /\ seen' = seen \cup R
    /\ harvested' = harvested \cup Trees(R)
    /\ removals' = removals \cup Trees(R)

\* failOrRequeueMaterializingRun of one attempt, fenced by its token.
GiveUp(a) ==
    LET R == IF Holds(a.run, a.token) /\ run[a.run].attempts >= MaxAttempts
             THEN {a.run} ELSE {}
    IN  /\ run' = IF Holds(a.run, a.token)
                  THEN [run EXCEPT ![a.run] = FailedOrRequeued(@)] ELSE run
        /\ Harvests(R)

-----------------------------------------------------------------------------
(* Claims                                                                  *)

\* getOldestMaterializableOnNode
Candidate(r) ==
    /\ ~Ready(r)
    /\ \/ run[r].status = "queued" /\ run[r].after # "future"
       \/ run[r].status = "materializing" /\ run[r].after = "past"
Busy == Cardinality({r \in Runs : run[r].status = "materializing"
                                  /\ run[r].after = "null"})

\* drainQueue: claimQueuedRunForMaterialization, or restartMaterializationAttempt.
Claim(r) ==
    /\ up = "open" /\ Busy < Capacity /\ claims < MaxClaims
    /\ Candidate(r) /\ \A q \in Runs : Candidate(q) => r <= q
    /\ claims' = claims + 1
    /\ run' = [run EXCEPT ![r].status = "materializing", ![r].token = claims',
                          ![r].after = "null", ![r].aged = FALSE]
    /\ attempts' = attempts \cup
          {[run |-> r, token |-> claims', of |-> 0, stage |-> "begin",
            failed |-> FALSE]}
    /\ UNCHANGED <<source, cache, lease, disk, removals, up, ends, counters>>

-----------------------------------------------------------------------------
(* An attempt                                                              *)

Moves(a, stage) ==
    attempts' = (attempts \ {a}) \cup {[a EXCEPT !.stage = stage]}
Finishes(a) == attempts' = attempts \ {a}

\* The deferred callback: admission has closed since the claim.
TurnedAway(a) ==
    /\ a.stage = "begin" /\ up = "closing"
    /\ run' = IF Holds(a.run, a.token)
              THEN [run EXCEPT ![a.run] = Requeued(@)] ELSE run
    /\ Finishes(a)
    /\ UNCHANGED <<source, cache, lease, claims, disk, removals, up, ends,
                   counters>>

\* ensureWorkspace up to its first await: the source is read, and the lease of
\* its cache is taken, stolen when stale, or not to be had.  Then a ready cache
\* is used as it is, and otherwise the run waits.
Begins(a) ==
    /\ a.stage = "begin" /\ up = "open"
    /\ LET b == [a EXCEPT !.of = source] IN
       \/ /\ lease[source] = NoLease \/ lease[source].old
          /\ lease' = [lease EXCEPT ![source] = [run |-> a.run, token |-> a.token,
                                                 old |-> FALSE]]
          /\ attempts' = (attempts \ {a}) \cup {[b EXCEPT !.stage = "fetch"]}
          /\ UNCHANGED run
       \/ /\ lease[source] # NoLease /\ ~lease[source].old
          /\ cache[source] = "ready"
          /\ attempts' = (attempts \ {a}) \cup {[b EXCEPT !.stage = "add"]}
          /\ UNCHANGED <<run, lease>>
       \/ /\ lease[source] # NoLease /\ ~lease[source].old
          /\ cache[source] # "ready"
          /\ run' = IF Holds(a.run, a.token)
                    THEN [run EXCEPT ![a.run].after = "future"] ELSE run
          /\ Finishes(a)
          /\ UNCHANGED lease
    /\ UNCHANGED <<source, cache, claims, disk, removals, up, ends, counters>>

Leased(a) == lease[a.of].run = a.run /\ lease[a.of].token = a.token

\* The cache is marked whoever holds the lease by now; the release is fenced.
Leaves(a, status) ==
    /\ cache' = [cache EXCEPT ![a.of] = status]
    /\ lease' = IF Leased(a) THEN [lease EXCEPT ![a.of] = NoLease] ELSE lease

\* cloneOrFetch and resolveCommit.  The lease is touched between them: it is old
\* when one of them takes long.
Fetched(a) ==
    /\ a.stage = "fetch"
    /\ Moves(a, "add") /\ Leaves(a, "ready")
    /\ UNCHANGED <<run, source, claims, disk, removals, up, ends, counters>>

\* The node cannot be used, or git fails.
Fails(a) ==
    /\ a.stage \in {"begin", "fetch"}
    /\ a.stage = "begin" => up = "open"
    /\ Finishes(a) /\ GiveUp(a)
    /\ IF a.stage = "begin" THEN UNCHANGED <<cache, lease>>
       ELSE Leaves(a, "failed")
    /\ UNCHANGED <<source, claims, disk, up, excused, counters>>

\* `git worktree add' has done its work; its answer is on the way.
Appears(a) ==
    /\ a.stage = "add"
    /\ Moves(a, "added") /\ disk' = disk \cup {Tree(a)}
    /\ UNCHANGED <<tables, removals, up, ends, counters>>

\* It exits with an error: what it left is removed before the attempt fails.
AddFails(a) ==
    /\ a.stage \in {"add", "added"}
    /\ attempts' = (attempts \ {a}) \cup
          {[a EXCEPT !.stage = "undo", !.failed = TRUE]}
    /\ UNCHANGED <<tables, disk, removals, up, ends, counters>>

\* It times out: the executor rejects instead of returning a code, and nothing
\* is removed.
AddTimesOut(a) ==
    /\ a.stage \in {"add", "added"}
    /\ Finishes(a) /\ GiveUp(a)
    /\ excused' = excused \cup ({Tree(a)} \cap disk)
    /\ UNCHANGED <<source, cache, lease, claims, disk, up, counters>>

\* updateRunMaterialized: the workspace becomes the run's under the claim, and
\* is removed otherwise.  A workspace of an older source is not looked at again.
\* Mutant: a fenced attempt returns without removing.
Materialized_Leaves(a) ==
    /\ a.stage = "added"
    /\ IF Holds(a.run, a.token)
       THEN run' = [run EXCEPT ![a.run].status = "queued", ![a.run].path = a.token,
                        ![a.run].of = a.of, ![a.run].token = 0,
                        ![a.run].after = "null"]
       ELSE UNCHANGED run
    /\ Finishes(a)
    /\ UNCHANGED <<source, cache, lease, claims, disk, removals, up, ends,
                   counters>>
Materialized(a) ==
    /\ a.stage = "added"
    /\ \/ /\ Holds(a.run, a.token)
          /\ run' = [run EXCEPT ![a.run].status = "queued", ![a.run].path = a.token,
                        ![a.run].of = a.of, ![a.run].token = 0,
                        ![a.run].after = "null"]
          /\ excused' = excused \cup (disk \cap {Recorded(a.run)})
          /\ Finishes(a)
       \/ /\ ~Holds(a.run, a.token)
          /\ Moves(a, "undo") /\ UNCHANGED <<run, excused>>
    /\ UNCHANGED <<source, cache, lease, claims, disk, removals, up, seen,
                   harvested, counters>>

\* A worktree is removed, or its removal fails, and no later step repeats it.
Removes(w) ==
    \/ disk' = disk \ {w} /\ UNCHANGED excused
    \/ UNCHANGED disk /\ excused' = excused \cup ({w} \cap disk)

\* cleanupRunWorktree of an attempt that failed or was fenced.
Undone(a) ==
    /\ a.stage = "undo"
    /\ Finishes(a) /\ Removes(Tree(a))
    /\ IF a.failed THEN GiveUp(a) ELSE UNCHANGED <<run, removals, seen, harvested>>
    /\ UNCHANGED <<source, cache, lease, claims, up, counters>>

-----------------------------------------------------------------------------
(* Cleanup                                                                 *)

\* The worktree of a given up claim, by the source of now: that of an older
\* source has another path.
Abandoned(r) == [run |-> r, token |-> run[r].token, of |-> source]

\* sweepStuckMaterializations, in the health check.
\* Mutant: a run that waits for a lease is left alone.
Stuck_NotWaiting == {r \in Runs : run[r].status = "materializing" /\ run[r].aged
                                  /\ run[r].after = "null"}
Stuck == {r \in Runs : run[r].status = "materializing" /\ run[r].aged}
Sweep ==
    /\ up = "open"
    /\ Stuck # {} \/ \E g \in Generations : lease[g].old
    /\ lease' = [g \in Generations |-> IF lease[g].old THEN NoLease ELSE lease[g]]
    /\ run' = [r \in Runs |-> IF r \in Stuck THEN FailedOrRequeued(run[r])
                              ELSE run[r]]
    /\ LET R == {r \in Stuck : run'[r].status = "failed"}
       IN  /\ seen' = seen \cup R
           /\ harvested' = harvested \cup Trees(R)
           /\ removals' = removals \cup {Abandoned(r) : r \in Stuck} \cup Trees(R)
    /\ excused' = excused \cup
          {w \in disk : /\ w.run \in Stuck /\ w.token = run[w.run].token
                            /\ w.of # source}
    /\ UNCHANGED <<source, cache, claims, disk, attempts, up, counters>>

Removed(w) ==
    /\ removals' = removals \ {w} /\ Removes(w)
    /\ UNCHANGED <<tables, attempts, up, seen, harvested, counters>>

-----------------------------------------------------------------------------
(* The run, its user, and time                                             *)

\* claimQueuedRun (WorkerRun); the end is harvested when it is a result.
Start(r) ==
    /\ up = "open" /\ run[r].status = "queued" /\ Ready(r)
    /\ run' = [run EXCEPT ![r].status = "running"]
    /\ UNCHANGED <<source, cache, lease, claims, disk, attempts, removals, up,
                   ends, counters>>
End(r, status) ==
    /\ up # "down" /\ run[r].status = "running"
    /\ run' = [run EXCEPT ![r].status = status]
    /\ Harvests({r})
    /\ UNCHANGED <<source, cache, lease, claims, disk, attempts, up, excused,
                   counters>>

\* updateRunStatus on behalf of a user: the materialisation columns stay.
Edit(r) ==
    /\ up # "down" /\ edits < MaxEdits /\ edits' = edits + 1
    /\ \/ /\ run[r].status \in {"queued", "materializing", "running"}
          /\ run' = [run EXCEPT ![r].status = "cancelled"]
       \/ /\ run[r].status \in {"failed", "cancelled"}
          /\ run' = [run EXCEPT ![r].status = "queued"]
    /\ UNCHANGED <<source, cache, lease, claims, disk, attempts, removals, up,
                   ends, crashes>>

\* updateProject: another repository or ref, hence another path.
ChangeSource ==
    /\ up # "down" /\ source < MaxChanges
    /\ source' = source + 1
    /\ UNCHANGED <<run, cache, lease, claims, disk, attempts, removals, up,
                   ends, counters>>

BackoffElapses(r) ==
    /\ run[r].after = "future"
    /\ run' = [run EXCEPT ![r].after = "past"]
    /\ UNCHANGED <<source, cache, lease, claims, disk, attempts, removals, up,
                   ends, counters>>
Ages(r) ==
    /\ run[r].status = "materializing" /\ ~run[r].aged
    /\ run' = [run EXCEPT ![r].aged = TRUE]
    /\ UNCHANGED <<source, cache, lease, claims, disk, attempts, removals, up,
                   ends, counters>>
LeaseAges(g) ==
    /\ lease[g] # NoLease /\ ~lease[g].old
    /\ lease' = [lease EXCEPT ![g].old = TRUE]
    /\ UNCHANGED <<run, source, cache, claims, disk, attempts, removals, up,
                   ends, counters>>

CloseAdmission ==
    /\ up = "open" /\ crashes < MaxCrashes
    /\ up' = "closing"
    /\ UNCHANGED <<tables, disk, attempts, removals, ends, counters>>
\* The process ends, in a shutdown or a crash.  A harvest that has left no event
\* in the table is forgotten.
Down ==
    /\ up # "down" /\ crashes < MaxCrashes
    /\ up' = "down" /\ crashes' = crashes + 1
    /\ attempts' = {} /\ removals' = {}
    /\ \E R \in SUBSET seen : seen' = R
    /\ excused' = excused \cup (disk \cap (removals \cup {Tree(a) : a \in attempts}))
    /\ UNCHANGED <<tables, disk, harvested, edits>>
Boot ==
    /\ up = "down"
    /\ up' = "open"
    /\ UNCHANGED <<tables, disk, attempts, removals, ends, counters>>

-----------------------------------------------------------------------------
Init ==
    /\ run = [r \in Runs |-> [status |-> "queued", token |-> 0, after |-> "null",
                 attempts |-> 0, aged |-> FALSE, path |-> 0, of |-> 0]]
    /\ source = 0
    /\ cache = [g \in Generations |-> "none"]
    /\ lease = [g \in Generations |-> NoLease]
    /\ disk = {} /\ attempts = {} /\ removals = {}
    /\ up = "open"
    /\ seen = {} /\ harvested = {} /\ excused = {}
    /\ claims = 0
    /\ edits = 0 /\ crashes = 0

Next ==
    \/ \E r \in Runs : \/ Claim(r) \/ Start(r) \/ Edit(r)
                       \/ \E s \in {"completed", "failed"} : End(r, s)
                       \/ BackoffElapses(r) \/ Ages(r)
    \/ \E a \in attempts : \/ TurnedAway(a) \/ Begins(a) \/ Fetched(a)
                           \/ Fails(a) \/ Appears(a)
                           \/ AddFails(a) \/ AddTimesOut(a)
                           \/ Materialized(a) \/ Undone(a)
    \/ \E w \in removals : Removed(w)
    \/ \E g \in Generations : LeaseAges(g)
    \/ Sweep \/ ChangeSource \/ CloseAdmission \/ Down \/ Boot

Spec == Init /\ [][Next]_vars

\* The health timer fires, time passes, a closing server ends and a dead one is
\* started.  No git call need ever be answered, and nothing drains the queue.
FairSpec ==
    /\ Spec
    /\ WF_vars(Sweep) /\ WF_vars(Boot) /\ WF_vars(up = "closing" /\ Down)
    /\ \A r \in Runs : WF_vars(Ages(r))
    /\ \A g \in Generations : WF_vars(LeaseAges(g))

-----------------------------------------------------------------------------
(* Properties                                                              *)

\* The tables, the node and the process are well formed.
TypeOK ==
    /\ run \in [Runs -> Run]
    /\ source \in Generations
    /\ cache \in [Generations -> {"none", "ready", "failed"}]
    /\ lease \in [Generations -> Lease]
    /\ disk \in SUBSET Worktree
    /\ attempts \in SUBSET Attempt
    /\ removals \in SUBSET Worktree
    /\ up \in {"open", "closing", "down"}
    /\ seen \in SUBSET Runs
    /\ harvested \in SUBSET Worktree /\ excused \in SUBSET Worktree
    /\ claims \in 0 .. MaxClaims
    /\ edits \in Nat /\ crashes \in Nat

\* A run that may start, or runs, finds its checkout on the node and nobody is
\* about to remove it, whatever earlier attempts of it still do, unless it is
\* the checkout of an earlier end of the run.
Uses(r) == \/ run[r].status = "running"
           \/ run[r].status = "queued" /\ Ready(r)
WorkspaceStands ==
    \A r \in Runs : Uses(r) /\ Recorded(r) \notin harvested =>
        Recorded(r) \in disk \ removals

\* A checkout on the node is recorded by its run or is in the hands of an attempt
\* or a removal: a fenced, failed or stuck attempt leaves nothing behind.
Accounted(w) ==
    \/ Recorded(w.run) = w
    \/ \E a \in attempts : Tree(a) = w
    \/ w \in removals \cup excused
NothingIsLeftBehind == \A w \in disk : Accounted(w)

\* Every claim is given up: no run stays in materializing, where it takes a
\* place of the node, and no lease blocks a cache, although git hangs or the
\* server dies in between.
Outstanding(t) == \/ \E r \in Runs : Holds(r, t)
                  \/ \E g \in Generations : lease[g].token = t
ClaimsAreGivenBack == \A t \in Tokens : Outstanding(t) ~> ~Outstanding(t)
=============================================================================

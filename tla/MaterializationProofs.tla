------------------------- MODULE MaterializationProofs -------------------------
(***************************************************************************)
(* Theorems of Materialization: type correctness, the checkouts that runs   *)
(* rely on, and those that nobody may forget.                               *)
(***************************************************************************)
EXTENDS Materialization, TLAPS

-----------------------------------------------------------------------------
(* The invariant                                                           *)

\* Of the same run, under the same claim.
Same(x, y) == x.run = y.run /\ x.token = y.token

\* No token is ahead of the counter of claims.
TokensAreKnown ==
    /\ \A r \in Runs : run[r].token <= claims /\ run[r].path <= claims
    /\ \A a \in attempts : a.token <= claims
    /\ \A w \in disk \cup removals \cup harvested : w.token <= claims

\* A token has one attempt, and none once its checkout is recorded; a run is
\* materialised under a token, and runs with a checkout.
TokensAreUsedOnce ==
    /\ \A a, b \in attempts : Same(a, b) => a = b
    /\ \A a \in attempts : run[a.run].path # a.token
    /\ \A r \in Runs : run[r].path # 0 => run[r].token # run[r].path
    /\ \A r \in Runs : run[r].status = "materializing" => run[r].token # 0
    /\ \A r \in Runs : run[r].status = "running" => run[r].path # 0

\* What an attempt has made is on the node while its claim lasts, and what a run
\* records stays there until it is harvested.
TreesStand ==
    /\ \A a \in attempts, w \in disk :
           Same(a, w) => a.stage \in {"added", "undo"} /\ w = Tree(a)
    /\ \A a \in attempts :
           a.stage = "added" /\ Holds(a.run, a.token) => Tree(a) \in disk
    /\ \A r \in Runs : HasWorkspace(r) => Recorded(r) \in disk \cup harvested

\* The claims of harvested and removed worktrees are over.
ClaimsAreOver ==
    /\ \A w \in removals \cup harvested : run[w.run].token # w.token
    /\ \A w \in removals : w \in harvested \/ run[w.run].path # w.token
    /\ \A w \in harvested, a \in attempts : ~Same(a, w)

Inv == /\ TypeOK
       /\ TokensAreKnown /\ TokensAreUsedOnce /\ TreesStand /\ ClaimsAreOver
       /\ NothingIsLeftBehind

-----------------------------------------------------------------------------
(* Types                                                                   *)

Stages == {"begin", "fetch", "add", "added", "undo"}
Statuses == {"queued", "materializing", "running", "completed", "failed",
             "cancelled"}

LEMMA TokensAreNumbers == /\ \A k \in Tokens : k \in Nat /\ k # 0
                          /\ \A g \in Generations : g \in Nat
  BY MaterializationAssumption DEF Tokens, Generations

LEMMA FieldEdits ==
  ASSUME NEW c \in Run
  PROVE  /\ \A s \in Statuses : [c EXCEPT !.status = s] \in Run
         /\ \A k \in {0} \cup Tokens : [c EXCEPT !.token = k] \in Run
         /\ \A u \in {"null", "future", "past"} : [c EXCEPT !.after = u] \in Run
         /\ \A n \in Nat : [c EXCEPT !.attempts = n] \in Run
         /\ \A b \in BOOLEAN : [c EXCEPT !.aged = b] \in Run
         /\ \A k \in {0} \cup Tokens : [c EXCEPT !.path = k] \in Run
         /\ \A g \in Generations : [c EXCEPT !.of = g] \in Run
  BY DEF Run, Statuses

LEMMA GivenUp ==
  ASSUME NEW c \in Run, NEW s \in {"queued", "failed"}, NEW u \in {"future", "null"}
  PROVE  [c EXCEPT !.status = s, !.token = 0, !.after = u,
                   !.attempts = @ + 1, !.aged = FALSE] \in Run
<1> DEFINE c1 == [c EXCEPT !.status = s]
           c2 == [c1 EXCEPT !.token = 0]
           c3 == [c2 EXCEPT !.after = u]
           c4 == [c3 EXCEPT !.attempts = c.attempts + 1]
           c5 == [c4 EXCEPT !.aged = FALSE]
<1>1. c1 \in Run
  BY FieldEdits DEF Statuses
<1>2. c2 \in Run
  BY <1>1, FieldEdits
<1>3. c3 \in Run
  BY <1>2, FieldEdits
<1>4. c4 \in Run
  <2>1. c.attempts + 1 \in Nat
    BY DEF Run
  <2> HIDE DEF c3
  <2> QED BY <2>1, <1>3, FieldEdits
<1>5. c5 \in Run
  <2> HIDE DEF c4
  <2> QED BY <1>4, FieldEdits
<1> QED BY <1>5

LEMMA RunEdits ==
  ASSUME NEW c \in Run
  PROVE  Requeued(c) \in Run /\ FailedOrRequeued(c) \in Run
  BY GivenUp DEF Requeued, FailedOrRequeued

LEMMA AttemptEdits ==
  ASSUME TypeOK, NEW a \in attempts
  PROVE  /\ a.run \in Runs /\ a.token \in Tokens /\ a.of \in Generations
         /\ a.stage \in Stages /\ a.failed \in BOOLEAN
         /\ Tree(a) \in Worktree
         /\ \A s \in Stages : [a EXCEPT !.stage = s] \in Attempt
         /\ \A s \in Stages : [a EXCEPT !.stage = s, !.failed = TRUE] \in Attempt
         /\ \A s \in Stages : [[a EXCEPT !.of = source] EXCEPT !.stage = s] \in Attempt
<1>1. a \in Attempt /\ source \in Generations
  BY DEF TypeOK
<1> QED BY <1>1 DEF Attempt, Stages, Tree, Worktree

LEMMA RunFields ==
  ASSUME TypeOK, NEW r \in Runs
  PROVE  /\ run[r] \in Run
         /\ run[r].token \in {0} \cup Tokens /\ run[r].path \in {0} \cup Tokens
         /\ run[r].of \in Generations /\ run[r].attempts \in Nat
         /\ HasWorkspace(r) => Recorded(r) \in Worktree
         /\ Requeued(run[r]) \in Run /\ FailedOrRequeued(run[r]) \in Run
<1>1. run[r] \in Run
  BY DEF TypeOK
<1>2. Requeued(run[r]) \in Run /\ FailedOrRequeued(run[r]) \in Run
  BY <1>1, RunEdits
<1> QED BY <1>1, <1>2 DEF Run, HasWorkspace, Recorded, Worktree

LEMMA Numbers ==
  ASSUME TypeOK
  PROVE  /\ \A r \in Runs : run[r].token \in Nat /\ run[r].path \in Nat
         /\ \A a \in attempts : a.run \in Runs /\ a.token \in Nat /\ a.token # 0
         /\ \A w \in Worktree : w.run \in Runs /\ w.token \in Nat /\ w.token # 0
<1>1. \A r \in Runs : run[r].token \in Nat /\ run[r].path \in Nat
  BY TokensAreNumbers DEF TypeOK, Run
<1>2. \A a \in attempts : a.run \in Runs /\ a.token \in Nat /\ a.token # 0
  BY TokensAreNumbers DEF TypeOK, Attempt
<1>3. \A w \in Worktree : w.run \in Runs /\ w.token \in Nat /\ w.token # 0
  BY TokensAreNumbers DEF Worktree
<1> QED BY <1>1, <1>2, <1>3

LEMMA HarvestTypes ==
  ASSUME TypeOK, NEW R \in SUBSET Runs
  PROVE  /\ Trees(R) \subseteq Worktree
         /\ Harvests(R) => /\ seen' \in SUBSET Runs
                           /\ harvested' \in SUBSET Worktree
                           /\ removals' \in SUBSET Worktree
<1>1. Trees(R) \subseteq Worktree
  BY RunFields DEF Trees
<1> QED BY <1>1 DEF TypeOK, Harvests

LEMMA GiveUpTypes ==
  ASSUME TypeOK, NEW a \in attempts, GiveUp(a)
  PROVE  /\ run' \in [Runs -> Run]
         /\ seen' \in SUBSET Runs /\ harvested' \in SUBSET Worktree
         /\ removals' \in SUBSET Worktree
<1>1. a.run \in Runs
  BY AttemptEdits
<1>2. run' \in [Runs -> Run]
  BY <1>1, RunFields DEF TypeOK, GiveUp
<1>3. \E R \in SUBSET Runs : Harvests(R)
  BY <1>1 DEF GiveUp
<1> QED BY <1>2, <1>3, HarvestTypes

LEMMA LeaveTypes ==
  ASSUME TypeOK, NEW a \in attempts, NEW status \in {"ready", "failed"},
         Leaves(a, status)
  PROVE  /\ cache' \in [Generations -> {"none", "ready", "failed"}]
         /\ lease' \in [Generations -> Lease]
  BY DEF TypeOK, Leaves, Lease

LEMMA InitTypes == Init => TypeOK
  BY MaterializationAssumption DEF Init, TypeOK, Run, Generations, Lease

LEMMA NextTypes ==
  ASSUME TypeOK, TokensAreUsedOnce, [Next]_vars
  PROVE  TypeOK'
<1> USE DEF TypeOK
<1>u. CASE UNCHANGED vars
  BY <1>u DEF vars, tables, ends, counters
<1>1. ASSUME NEW r \in Runs, Claim(r) PROVE TypeOK'
  <2>1. claims' \in Tokens /\ claims' \in 0 .. MaxClaims
    BY <1>1, MaterializationAssumption DEF Claim, Tokens
  <2>2. [run |-> r, token |-> claims', of |-> 0, stage |-> "begin",
         failed |-> FALSE] \in Attempt
    BY <2>1, MaterializationAssumption DEF Attempt, Generations
  <2> DEFINE c1 == [run[r] EXCEPT !.status = "materializing"]
             c2 == [c1 EXCEPT !.token = claims']
             c3 == [c2 EXCEPT !.after = "null"]
             c4 == [c3 EXCEPT !.aged = FALSE]
  <2>3. run' \in [Runs -> Run]
    <3>1. c1 \in Run
      BY RunFields, FieldEdits DEF Statuses
    <3>2. c2 \in Run
      BY <3>1, <2>1, FieldEdits
    <3>3. c3 \in Run
      BY <3>2, FieldEdits
    <3>4. c4 \in Run
      <4> HIDE DEF c3
      <4> QED BY <3>3, FieldEdits
    <3>5. run' = [run EXCEPT ![r] = c4]
      BY <1>1 DEF Claim
    <3> HIDE DEF c4
    <3> QED BY <3>4, <3>5
  <2>4. attempts' \in SUBSET Attempt
    BY <1>1, <2>2 DEF Claim
  <2> QED BY <1>1, <2>1, <2>3, <2>4 DEF Claim, ends, counters
<1>2. ASSUME NEW r \in Runs, Start(r) PROVE TypeOK'
  <2>1. run' \in [Runs -> Run]
    BY <1>2, RunFields, FieldEdits DEF Start, Statuses
  <2> QED BY <1>2, <2>1 DEF Start, ends, counters
<1>3. ASSUME NEW r \in Runs, Edit(r) PROVE TypeOK'
  <2>1. run' \in [Runs -> Run]
    <3>1. \A s \in Statuses : [run[r] EXCEPT !.status = s] \in Run
      BY RunFields, FieldEdits
    <3>2. \E s \in Statuses : run' = [run EXCEPT ![r] = [run[r] EXCEPT !.status = s]]
      BY <1>3 DEF Edit, Statuses
    <3> QED BY <3>1, <3>2
  <2>2. edits' \in Nat
    BY <1>3 DEF Edit
  <2> QED BY <1>3, <2>1, <2>2 DEF Edit, ends
<1>4. ASSUME NEW r \in Runs, NEW s \in {"completed", "failed"}, End(r, s)
      PROVE  TypeOK'
  <2>1. run' \in [Runs -> Run]
    BY <1>4, RunFields, FieldEdits DEF End, Statuses
  <2>2. Harvests({r})
    BY <1>4 DEF End
  <2> QED BY <1>4, <2>1, <2>2, HarvestTypes DEF End, counters
<1>5. ASSUME NEW r \in Runs, BackoffElapses(r) \/ Ages(r) PROVE TypeOK'
  <2>1. run' \in [Runs -> Run]
    <3>1. /\ [run[r] EXCEPT !.after = "past"] \in Run
          /\ [run[r] EXCEPT !.aged = TRUE] \in Run
      BY RunFields, FieldEdits
    <3>2. \/ run' = [run EXCEPT ![r] = [run[r] EXCEPT !.after = "past"]]
          \/ run' = [run EXCEPT ![r] = [run[r] EXCEPT !.aged = TRUE]]
      BY <1>5 DEF BackoffElapses, Ages
    <3> QED BY <3>1, <3>2
  <2> QED BY <1>5, <2>1 DEF BackoffElapses, Ages, ends, counters
<1>6. ASSUME NEW a \in attempts, TurnedAway(a) PROVE TypeOK'
  <2>1. run' \in [Runs -> Run]
    BY <1>6, RunFields, AttemptEdits DEF TurnedAway
  <2> QED BY <1>6, <2>1 DEF TurnedAway, Finishes, ends, counters
<1>7. ASSUME NEW a \in attempts, Begins(a) PROVE TypeOK'
  <2>1. lease' \in [Generations -> Lease]
    <3>1. [run |-> a.run, token |-> a.token, old |-> FALSE] \in Lease
      BY AttemptEdits DEF Lease
    <3> QED BY <1>7, <3>1 DEF Begins
  <2>2. run' \in [Runs -> Run]
    <3>1. a.run \in Runs /\ [run[a.run] EXCEPT !.after = "future"] \in Run
      BY RunFields, AttemptEdits, FieldEdits
    <3>2. \/ run' = run
          \/ run' = [run EXCEPT ![a.run] = [run[a.run] EXCEPT !.after = "future"]]
      BY <1>7 DEF Begins
    <3> QED BY <3>1, <3>2
  <2>3. attempts' \in SUBSET Attempt
    <3>1. \A s \in {"fetch", "add"} :
             [[a EXCEPT !.of = source] EXCEPT !.stage = s] \in Attempt
      BY AttemptEdits DEF Stages
    <3> QED BY <1>7, <3>1 DEF Begins, Finishes
  <2> QED BY <1>7, <2>1, <2>2, <2>3 DEF Begins, ends, counters
<1>8. ASSUME NEW a \in attempts, Fetched(a) PROVE TypeOK'
  <2>1. attempts' \in SUBSET Attempt
    BY <1>8, AttemptEdits DEF Fetched, Moves, Stages
  <2>2. Leaves(a, "ready")
    BY <1>8 DEF Fetched
  <2> QED BY <1>8, <2>1, <2>2, LeaveTypes DEF Fetched, ends, counters
<1>9. ASSUME NEW a \in attempts, Fails(a) PROVE TypeOK'
  <2>1. GiveUp(a)
    BY <1>9 DEF Fails
  <2>2. /\ cache' \in [Generations -> {"none", "ready", "failed"}]
        /\ lease' \in [Generations -> Lease]
    BY <1>9, LeaveTypes DEF Fails
  <2>3. attempts' \in SUBSET Attempt
    BY <1>9 DEF Fails, Finishes
  <2> QED BY <1>9, <2>1, <2>2, <2>3, GiveUpTypes DEF Fails, counters
<1>10. ASSUME NEW a \in attempts, Appears(a) PROVE TypeOK'
  <2>1. attempts' \in SUBSET Attempt
    BY <1>10, AttemptEdits DEF Appears, Moves, Stages
  <2>2. disk' \in SUBSET Worktree
    BY <1>10, AttemptEdits DEF Appears
  <2> QED BY <1>10, <2>1, <2>2 DEF Appears, tables, ends, counters
<1>11. ASSUME NEW a \in attempts, AddFails(a) PROVE TypeOK'
  <2>1. attempts' \in SUBSET Attempt
    BY <1>11, AttemptEdits DEF AddFails, Stages
  <2> QED BY <1>11, <2>1 DEF AddFails, tables, ends, counters
<1>12. ASSUME NEW a \in attempts, AddTimesOut(a) PROVE TypeOK'
  <2>1. GiveUp(a)
    BY <1>12 DEF AddTimesOut
  <2>2. attempts' \in SUBSET Attempt /\ excused' \in SUBSET Worktree
    BY <1>12 DEF AddTimesOut, Finishes
  <2> QED BY <1>12, <2>1, <2>2, GiveUpTypes DEF AddTimesOut, counters
<1>13. ASSUME NEW a \in attempts, Materialized(a) PROVE TypeOK'
  <2> DEFINE c1 == [run[a.run] EXCEPT !.status = "queued"]
             c2 == [c1 EXCEPT !.path = a.token]
             c3 == [c2 EXCEPT !.of = a.of]
             c4 == [c3 EXCEPT !.token = 0]
             c5 == [c4 EXCEPT !.after = "null"]
  <2>1. run' \in [Runs -> Run]
    <3>a. a.run \in Runs /\ a.token \in Tokens /\ a.of \in Generations
      BY AttemptEdits
    <3>1. c1 \in Run
      BY <3>a, RunFields, FieldEdits DEF Statuses
    <3>2. c2 \in Run
      BY <3>1, <3>a, FieldEdits
    <3>3. c3 \in Run
      BY <3>2, <3>a, FieldEdits
    <3>4. c4 \in Run
      <4> HIDE DEF c3
      <4> QED BY <3>3, FieldEdits
    <3>5. c5 \in Run
      <4> HIDE DEF c4
      <4> QED BY <3>4, FieldEdits
    <3>6. run' = run \/ run' = [run EXCEPT ![a.run] = c5]
      BY <1>13 DEF Materialized
    <3> HIDE DEF c5
    <3> QED BY <3>5, <3>6, <3>a
  <2>2. attempts' \in SUBSET Attempt /\ excused' \in SUBSET Worktree
    BY <1>13, AttemptEdits DEF Materialized, Moves, Finishes, Stages
  <2> QED BY <1>13, <2>1, <2>2 DEF Materialized, ends, counters
<1>14. ASSUME NEW a \in attempts, Undone(a) PROVE TypeOK'
  <2>1. /\ attempts' \in SUBSET Attempt
        /\ disk' \in SUBSET Worktree /\ excused' \in SUBSET Worktree
    BY <1>14 DEF Undone, Finishes, Removes
  <2>2. /\ run' \in [Runs -> Run]
        /\ seen' \in SUBSET Runs /\ harvested' \in SUBSET Worktree
        /\ removals' \in SUBSET Worktree
    <3>1. CASE a.failed
      BY <1>14, <3>1, GiveUpTypes DEF Undone
    <3>2. CASE ~a.failed
      BY <1>14, <3>2 DEF Undone
    <3> QED BY <3>1, <3>2
  <2> QED BY <1>14, <2>1, <2>2 DEF Undone, counters
<1>15. ASSUME NEW w \in removals, Removed(w) PROVE TypeOK'
  BY <1>15 DEF Removed, Removes, tables, counters
<1>16. ASSUME NEW g \in Generations, LeaseAges(g) PROVE TypeOK'
  <2>1. lease' \in [Generations -> Lease]
    BY <1>16 DEF LeaseAges, Lease
  <2> QED BY <1>16, <2>1 DEF LeaseAges, ends, counters
<1>17. CASE Sweep
  <2>1. lease' \in [Generations -> Lease]
    BY <1>17 DEF Sweep, Lease
  <2>2. run' \in [Runs -> Run]
    BY <1>17, RunFields DEF Sweep
  <2>3. \A r \in Stuck : r \in Runs /\ Abandoned(r) \in Worktree
    BY RunFields DEF Stuck, Abandoned, Worktree, TokensAreUsedOnce
  <2>4. \A R \in SUBSET Runs : Trees(R) \subseteq Worktree
    BY HarvestTypes
  <2>5. {r \in Stuck : run'[r].status = "failed"} \in SUBSET Runs
    BY DEF Stuck
  <2>6. /\ seen' \in SUBSET Runs /\ harvested' \in SUBSET Worktree
        /\ removals' \in SUBSET Worktree
    BY <1>17, <2>3, <2>4, <2>5 DEF Sweep
  <2>7. excused' \in SUBSET Worktree
    BY <1>17 DEF Sweep
  <2> QED BY <1>17, <2>1, <2>2, <2>6, <2>7 DEF Sweep, counters
<1>18. CASE ChangeSource
  <2>1. source' \in Generations
    BY <1>18, MaterializationAssumption DEF ChangeSource, Generations
  <2> QED BY <1>18, <2>1 DEF ChangeSource, ends, counters
<1>19. CASE CloseAdmission
  BY <1>19 DEF CloseAdmission, tables, ends, counters
<1>20. CASE Down
  BY <1>20 DEF Down, tables
<1>21. CASE Boot
  BY <1>21 DEF Boot, tables, ends, counters
<1> QED BY <1>u, <1>1, <1>2, <1>3, <1>4, <1>5, <1>6, <1>7, <1>8, <1>9, <1>10,
           <1>11, <1>12, <1>13, <1>14, <1>15, <1>16, <1>17, <1>18, <1>19,
           <1>20, <1>21 DEF Next

-----------------------------------------------------------------------------
(* What a step may change                                                  *)

\* The tables of the runs: apart from a claim and the record of a checkout, runs
\* only lose their claims.
RunsKeep ==
    /\ claims' = claims
    /\ \A r \in Runs :
         /\ run'[r].path = run[r].path /\ run'[r].of = run[r].of
         /\ run'[r].token \in {0, run[r].token}
         /\ run'[r].status = "materializing" =>
               run[r].status = "materializing" /\ run'[r].token = run[r].token
         /\ run'[r].status = "running" => run[r].status = "running" \/ run[r].path # 0

LEMMA GiveUpKeeps ==
  ASSUME TypeOK, NEW a \in attempts, GiveUp(a), claims' = claims
  PROVE  RunsKeep
<1>1. a.run \in Runs /\ run[a.run] \in Run /\ run \in [Runs -> Run]
  BY AttemptEdits, RunFields DEF TypeOK
<1>2. \/ run' = run
      \/ run' = [run EXCEPT ![a.run] = Requeued(run[a.run])]
      \/ run' = [run EXCEPT ![a.run] =
            [run[a.run] EXCEPT !.status = "failed", !.token = 0, !.after = "null",
                       !.attempts = @ + 1, !.aged = FALSE]]
  BY DEF GiveUp, FailedOrRequeued
<1>3. CASE run' = run
  BY <1>1, <1>3 DEF RunsKeep
<1>4. CASE run' = [run EXCEPT ![a.run] = Requeued(run[a.run])]
  BY <1>1, <1>4 DEF RunsKeep, Requeued, Run
<1>5. CASE run' = [run EXCEPT ![a.run] =
            [run[a.run] EXCEPT !.status = "failed", !.token = 0, !.after = "null",
                       !.attempts = @ + 1, !.aged = FALSE]]
  BY <1>1, <1>5 DEF RunsKeep, Run
<1> QED BY <1>2, <1>3, <1>4, <1>5

LEMMA SweepKeeps ==
  ASSUME TypeOK, Sweep
  PROVE  RunsKeep
<1>1. claims' = claims /\ \A r \in Runs : run[r] \in Run
  BY DEF TypeOK, Sweep
<1>2. ASSUME NEW r \in Runs
      PROVE  run'[r] \in {run[r], FailedOrRequeued(run[r])}
  BY DEF Sweep
<1>3. ASSUME NEW c \in Run
      PROVE  LET d == FailedOrRequeued(c)
             IN  d.path = c.path /\ d.of = c.of /\ d.token = 0
                 /\ d.status \in {"queued", "failed"}
  BY DEF FailedOrRequeued, Requeued, Run
<1> QED BY <1>1, <1>2, <1>3 DEF RunsKeep

LEMMA StepKeepsRuns ==
  ASSUME TypeOK, [Next]_vars
  PROVE  \/ RunsKeep
         \/ \E r \in Runs : Claim(r)
         \/ \E a \in attempts : Materialized(a) /\ Holds(a.run, a.token)
<1>t. /\ run \in [Runs -> Run] /\ \A r \in Runs : run[r] \in Run
      /\ \A a \in attempts : a.run \in Runs
  BY AttemptEdits DEF TypeOK
<1>s. ASSUME run' = run, claims' = claims PROVE RunsKeep
  BY <1>s, <1>t DEF RunsKeep
<1>u. CASE UNCHANGED vars
  BY <1>u, <1>s DEF vars
<1>2. ASSUME NEW r \in Runs, Start(r) PROVE RunsKeep
  BY <1>2, <1>t DEF RunsKeep, Start, Ready, HasWorkspace, Run
<1>3. ASSUME NEW r \in Runs, Edit(r) PROVE RunsKeep
  BY <1>3, <1>t DEF RunsKeep, Edit, Run
<1>4. ASSUME NEW r \in Runs, NEW s \in {"completed", "failed"}, End(r, s)
      PROVE  RunsKeep
  BY <1>4, <1>t DEF RunsKeep, End, Run
<1>5. ASSUME NEW r \in Runs, BackoffElapses(r) \/ Ages(r) PROVE RunsKeep
  BY <1>5, <1>t DEF RunsKeep, BackoffElapses, Ages, Run
<1>6. ASSUME NEW a \in attempts, TurnedAway(a) PROVE RunsKeep
  BY <1>6, <1>t DEF RunsKeep, TurnedAway, Requeued, Run
<1>7. ASSUME NEW a \in attempts, Begins(a) PROVE RunsKeep
  <2>1. run' = run \/ run' = [run EXCEPT ![a.run] = [run[a.run] EXCEPT !.after = "future"]]
    BY <1>7 DEF Begins
  <2>2. claims' = claims
    BY <1>7 DEF Begins
  <2> QED BY <2>1, <2>2, <1>t DEF RunsKeep, Run
<1>8. ASSUME NEW a \in attempts,
             Fetched(a) \/ Appears(a) \/ AddFails(a)
      PROVE  RunsKeep
  BY <1>8, <1>s DEF Fetched, Appears, AddFails, tables
<1>9. ASSUME NEW a \in attempts, Fails(a) \/ AddTimesOut(a) PROVE RunsKeep
  BY <1>9, GiveUpKeeps DEF Fails, AddTimesOut
<1>13. ASSUME NEW a \in attempts, Materialized(a), ~Holds(a.run, a.token)
       PROVE  RunsKeep
  BY <1>13, <1>s DEF Materialized
<1>14. ASSUME NEW a \in attempts, Undone(a) PROVE RunsKeep
  BY <1>14, <1>s, GiveUpKeeps DEF Undone
<1>15. ASSUME NEW w \in removals, Removed(w) PROVE RunsKeep
  BY <1>15, <1>s DEF Removed, tables
<1>16. ASSUME NEW g \in Generations, LeaseAges(g) PROVE RunsKeep
  BY <1>16, <1>s DEF LeaseAges
<1>17. CASE Sweep
  BY <1>17, SweepKeeps
<1>18. CASE ChangeSource \/ CloseAdmission \/ Down \/ Boot
  BY <1>18, <1>s DEF ChangeSource, CloseAdmission, Down, Boot, tables
<1> QED BY <1>u, <1>2, <1>3, <1>4, <1>5, <1>6, <1>7, <1>8, <1>9, <1>13, <1>14,
           <1>15, <1>16, <1>17, <1>18 DEF Next

\* A claim: a new token, for one run and one attempt.
LEMMA ClaimStep ==
  ASSUME TypeOK, NEW r \in Runs, Claim(r)
  PROVE  /\ claims' = claims + 1
         /\ \A q \in Runs : /\ run'[q].path = run[q].path /\ run'[q].of = run[q].of
                            /\ q # r => run'[q] = run[q]
         /\ run'[r].token = claims + 1 /\ run'[r].status = "materializing"
         /\ attempts' = attempts \cup
              {[run |-> r, token |-> claims + 1, of |-> 0, stage |-> "begin",
                failed |-> FALSE]}
         /\ UNCHANGED <<disk, removals, harvested, excused>>
<1>1. run \in [Runs -> Run] /\ run[r] \in Run
  BY DEF TypeOK
<1> QED BY <1>1 DEF Claim, Run, ends

\* The record of a checkout consumes the claim and its attempt.
LEMMA RecordStep ==
  ASSUME TypeOK, NEW a \in attempts, Materialized(a), Holds(a.run, a.token)
  PROVE  /\ claims' = claims /\ attempts' = attempts \ {a}
         /\ a.stage = "added" /\ a.run \in Runs /\ run[a.run].token = a.token
         /\ \A q \in Runs : q # a.run => run'[q] = run[q]
         /\ run'[a.run].token = 0 /\ run'[a.run].status = "queued"
         /\ run'[a.run].path = a.token /\ run'[a.run].of = a.of
         /\ excused' = excused \cup (disk \cap {Recorded(a.run)})
         /\ UNCHANGED <<disk, removals, harvested>>
<1>1. run \in [Runs -> Run] /\ a.run \in Runs /\ run[a.run] \in Run
  BY AttemptEdits DEF TypeOK
<1> QED BY <1>1 DEF Materialized, Holds, Finishes, Run

\* An attempt ends or moves on; once it may have made its tree it keeps it.
AttemptMoves(a, b) ==
    /\ attempts' = (attempts \ {a}) \cup {b}
    /\ Same(a, b)
    /\ a.stage \notin {"begin", "fetch"} =>
          Tree(b) = Tree(a) /\ b.stage \in {"added", "undo"}
    /\ b.stage = "added" => Tree(b) \in disk'

LEMMA StepKeepsAttempts ==
  ASSUME TypeOK, [Next]_vars
  PROVE  \/ attempts' \subseteq attempts
         \/ \E a \in attempts, b \in Attempt : AttemptMoves(a, b)
         \/ \E r \in Runs : Claim(r)
<1>a. \A a \in attempts : a \in Attempt
  BY DEF TypeOK
<1>1. ASSUME NEW a \in attempts, Begins(a)
      PROVE  attempts' \subseteq attempts
             \/ \E b \in Attempt : AttemptMoves(a, b)
  <2>1. CASE attempts' = attempts \ {a}
    BY <2>1
  <2>2. ASSUME NEW s \in {"fetch", "add"},
               attempts' = (attempts \ {a}) \cup
                               {[[a EXCEPT !.of = source] EXCEPT !.stage = s]}
        PROVE  \E b \in Attempt : AttemptMoves(a, b)
    <3>1. [[a EXCEPT !.of = source] EXCEPT !.stage = s] \in Attempt
      BY AttemptEdits DEF Stages
    <3>2. AttemptMoves(a, [[a EXCEPT !.of = source] EXCEPT !.stage = s])
      BY <1>1, <1>a, <2>2 DEF AttemptMoves, Begins, Same, Attempt
    <3> QED BY <3>1, <3>2
  <2> QED BY <1>1, <2>1, <2>2 DEF Begins, Finishes
<1>2. ASSUME NEW a \in attempts, Fetched(a)
      PROVE  \E b \in Attempt : AttemptMoves(a, b)
  <2>1. [a EXCEPT !.stage = "add"] \in Attempt
    BY AttemptEdits DEF Stages
  <2>2. AttemptMoves(a, [a EXCEPT !.stage = "add"])
    BY <1>2, <1>a DEF AttemptMoves, Fetched, Moves, Same, Attempt
  <2> QED BY <2>1, <2>2
<1>3. ASSUME NEW a \in attempts, Appears(a)
      PROVE  \E b \in Attempt : AttemptMoves(a, b)
  <2>1. [a EXCEPT !.stage = "added"] \in Attempt
    BY AttemptEdits DEF Stages
  <2>2. AttemptMoves(a, [a EXCEPT !.stage = "added"])
    BY <1>3, <1>a DEF AttemptMoves, Appears, Moves, Same, Attempt, Tree
  <2> QED BY <2>1, <2>2
<1>4. ASSUME NEW a \in attempts, AddFails(a)
      PROVE  \E b \in Attempt : AttemptMoves(a, b)
  <2>1. [a EXCEPT !.stage = "undo", !.failed = TRUE] \in Attempt
    BY AttemptEdits DEF Stages
  <2>2. AttemptMoves(a, [a EXCEPT !.stage = "undo", !.failed = TRUE])
    BY <1>4, <1>a DEF AttemptMoves, AddFails, Same, Attempt, Tree
  <2> QED BY <2>1, <2>2
<1>5. ASSUME NEW a \in attempts, Materialized(a)
      PROVE  attempts' \subseteq attempts
             \/ \E b \in Attempt : AttemptMoves(a, b)
  <2>1. CASE Holds(a.run, a.token)
    BY <1>5, <2>1 DEF Materialized, Finishes
  <2>2. CASE ~Holds(a.run, a.token)
    <3>1. [a EXCEPT !.stage = "undo"] \in Attempt
      BY AttemptEdits DEF Stages
    <3>2. AttemptMoves(a, [a EXCEPT !.stage = "undo"])
      BY <1>5, <2>2, <1>a DEF AttemptMoves, Materialized, Moves, Same, Attempt, Tree
    <3> QED BY <3>1, <3>2
  <2> QED BY <2>1, <2>2
<1>6. ASSUME NEW a \in attempts,
             TurnedAway(a) \/ Fails(a) \/ AddTimesOut(a) \/ Undone(a)
      PROVE  attempts' \subseteq attempts
  BY <1>6 DEF TurnedAway, Fails, AddTimesOut, Undone, Finishes
<1>7. CASE UNCHANGED vars \/ Sweep \/ ChangeSource \/ CloseAdmission \/ Down \/ Boot
  BY <1>7 DEF vars, Sweep, ChangeSource, CloseAdmission, Down, Boot
<1>8. ASSUME NEW r \in Runs, \/ Start(r) \/ Edit(r) \/ BackoffElapses(r) \/ Ages(r)
                             \/ \E s \in {"completed", "failed"} : End(r, s)
      PROVE  attempts' \subseteq attempts
  BY <1>8 DEF Start, Edit, End, BackoffElapses, Ages
<1>9. ASSUME NEW w \in removals, Removed(w) PROVE attempts' \subseteq attempts
  BY <1>9 DEF Removed
<1>10. ASSUME NEW g \in Generations, LeaseAges(g) PROVE attempts' \subseteq attempts
  BY <1>10 DEF LeaseAges
<1> QED BY <1>1, <1>2, <1>3, <1>4, <1>5, <1>6, <1>7, <1>8, <1>9, <1>10 DEF Next

\* The node: an attempt adds its tree, a removal and a cleanup take one away.
LEMMA StepKeepsTrees ==
  ASSUME TypeOK, [Next]_vars
  PROVE  /\ \A w \in disk' : w \in disk \/ \E a \in attempts : Appears(a) /\ w = Tree(a)
         /\ \A w \in disk : w \in disk' \/ w \in removals
                            \/ \E a \in attempts :
                                 w = Tree(a) /\ attempts' = attempts \ {a}
<1>1. ASSUME NEW a \in attempts, Appears(a)
      PROVE  disk' = disk \cup {Tree(a)}
  BY <1>1 DEF Appears
<1>2. ASSUME NEW a \in attempts, Undone(a)
      PROVE  disk' \in {disk, disk \ {Tree(a)}} /\ attempts' = attempts \ {a}
  BY <1>2 DEF Undone, Finishes, Removes
<1>3. ASSUME NEW w \in removals, Removed(w)
      PROVE  disk' \in {disk, disk \ {w}}
  BY <1>3 DEF Removed, Removes
<1>4. ASSUME NEW a \in attempts,
             \/ TurnedAway(a) \/ Begins(a) \/ Fetched(a) \/ Fails(a) \/ AddFails(a)
             \/ AddTimesOut(a) \/ Materialized(a)
      PROVE  disk' = disk
  BY <1>4 DEF TurnedAway, Begins, Fetched, Fails, AddFails, AddTimesOut, Materialized
<1>5. ASSUME NEW r \in Runs, \/ Claim(r) \/ Start(r) \/ Edit(r)
                             \/ BackoffElapses(r) \/ Ages(r)
                             \/ \E s \in {"completed", "failed"} : End(r, s)
      PROVE  disk' = disk
  BY <1>5 DEF Claim, Start, Edit, End, BackoffElapses, Ages
<1>6. CASE \/ UNCHANGED vars \/ Sweep \/ ChangeSource \/ CloseAdmission \/ Down
           \/ Boot \/ \E g \in Generations : LeaseAges(g)
  <2>1. disk' = disk
    BY <1>6 DEF vars, Sweep, ChangeSource, CloseAdmission, Down, Boot, LeaseAges
  <2> QED BY <2>1
<1> QED BY <1>1, <1>2, <1>3, <1>4, <1>5, <1>6 DEF Next

\* What is harvested is what a run records, and what is removed is harvested or
\* made under a claim that the sweep gave up.
HarvestsRecords ==
    /\ \A w \in harvested' : w \in harvested
                             \/ \E r \in Runs : HasWorkspace(r) /\ w = Recorded(r)
    /\ \A w \in removals' : \/ w \in removals \cup harvested'
                            \/ /\ RunsKeep
                               /\ \E r \in Stuck : w = Abandoned(r) /\ run'[r].token = 0

LEMMA StepHarvests ==
  ASSUME TypeOK, [Next]_vars
  PROVE  HarvestsRecords
<1>h. ASSUME NEW R \in SUBSET Runs, Harvests(R)
      PROVE  HarvestsRecords
  BY <1>h DEF HarvestsRecords, Harvests, Trees
<1>s. ASSUME harvested' = harvested, removals' \subseteq removals
      PROVE  HarvestsRecords
  BY <1>s DEF HarvestsRecords
<1>g. ASSUME NEW a \in attempts, GiveUp(a)
      PROVE  HarvestsRecords
  <2>1. a.run \in Runs
    BY AttemptEdits
  <2> QED BY <2>1, <1>g, <1>h DEF GiveUp
<1>1. ASSUME NEW a \in attempts, Fails(a) \/ AddTimesOut(a)
      PROVE  HarvestsRecords
  BY <1>1, <1>g DEF Fails, AddTimesOut
<1>2. ASSUME NEW a \in attempts, Undone(a)
      PROVE  HarvestsRecords
  BY <1>2, <1>g, <1>s DEF Undone
<1>3. ASSUME NEW a \in attempts,
             \/ TurnedAway(a) \/ Begins(a) \/ Fetched(a) \/ Appears(a) \/ AddFails(a)
             \/ Materialized(a)
      PROVE  HarvestsRecords
  BY <1>3, <1>s DEF TurnedAway, Begins, Fetched, Appears, AddFails, Materialized, ends
<1>4. ASSUME NEW r \in Runs, \/ Claim(r) \/ Start(r) \/ Edit(r)
                             \/ BackoffElapses(r) \/ Ages(r)
      PROVE  HarvestsRecords
  BY <1>4, <1>s DEF Claim, Start, Edit, BackoffElapses, Ages, ends
<1>5. ASSUME NEW r \in Runs, NEW s \in {"completed", "failed"}, End(r, s)
      PROVE  HarvestsRecords
  BY <1>5, <1>h DEF End
<1>6. ASSUME NEW w \in removals, Removed(w)
      PROVE  HarvestsRecords
  BY <1>6, <1>s DEF Removed
<1>7. CASE \/ UNCHANGED vars \/ ChangeSource \/ CloseAdmission \/ Down
           \/ Boot \/ \E g \in Generations : LeaseAges(g)
  BY <1>7, <1>s DEF vars, ChangeSource, CloseAdmission, Down, Boot, LeaseAges, ends
<1>8. CASE Sweep
  <2> DEFINE R == {r \in Stuck : run'[r].status = "failed"}
  <2>1. RunsKeep
    BY <1>8, SweepKeeps
  <2>2. ASSUME NEW r \in Stuck PROVE run'[r].token = 0
    <3>1. r \in Runs /\ run[r] \in Run
      BY RunFields DEF Stuck
    <3>2. run'[r] = FailedOrRequeued(run[r])
      BY <1>8, <3>1 DEF Sweep
    <3> QED BY <3>1, <3>2 DEF FailedOrRequeued, Requeued, Run
  <2>3. /\ harvested' = harvested \cup Trees(R)
        /\ removals' = removals \cup {Abandoned(r) : r \in Stuck} \cup Trees(R)
    BY <1>8 DEF Sweep
  <2>4. \A w \in Trees(R) : \E r \in Runs : HasWorkspace(r) /\ w = Recorded(r)
    BY DEF Trees, Stuck
  <2> HIDE DEF R
  <2> QED BY <2>1, <2>2, <2>3, <2>4 DEF HarvestsRecords
<1> QED BY <1>1, <1>2, <1>3, <1>4, <1>5, <1>6, <1>7, <1>8 DEF Next

\* The histories grow.
LEMMA HarvestsGrow ==
  ASSUME TypeOK, [Next]_vars
  PROVE  harvested \subseteq harvested' /\ excused \subseteq excused'
<1>g. ASSUME NEW a \in attempts, GiveUp(a) PROVE harvested \subseteq harvested'
  BY <1>g DEF GiveUp, Harvests
<1>1. ASSUME NEW a \in attempts, Fails(a) \/ AddTimesOut(a) \/ Undone(a)
      PROVE  harvested \subseteq harvested' /\ excused \subseteq excused'
  BY <1>1, <1>g DEF Fails, AddTimesOut, Undone, Removes
<1>2. ASSUME NEW a \in attempts,
             \/ TurnedAway(a) \/ Begins(a) \/ Fetched(a) \/ Appears(a) \/ AddFails(a)
             \/ Materialized(a)
      PROVE  harvested \subseteq harvested' /\ excused \subseteq excused'
  BY <1>2 DEF TurnedAway, Begins, Fetched, Appears, AddFails, Materialized, ends
<1>3. ASSUME NEW r \in Runs, \/ Claim(r) \/ Start(r) \/ Edit(r)
                             \/ BackoffElapses(r) \/ Ages(r)
                             \/ \E s \in {"completed", "failed"} : End(r, s)
      PROVE  harvested \subseteq harvested' /\ excused \subseteq excused'
  BY <1>3 DEF Claim, Start, Edit, End, Harvests, BackoffElapses, Ages, ends
<1>4. CASE \/ UNCHANGED vars \/ Sweep \/ ChangeSource \/ CloseAdmission \/ Down
           \/ Boot \/ \E g \in Generations : LeaseAges(g)
  BY <1>4 DEF vars, Sweep, ChangeSource, CloseAdmission, Down, Boot, LeaseAges, ends
<1>5. ASSUME NEW w \in removals, Removed(w)
      PROVE  harvested \subseteq harvested' /\ excused \subseteq excused'
  BY <1>5 DEF Removed, Removes
<1> QED BY <1>1, <1>2, <1>3, <1>4, <1>5 DEF Next

-----------------------------------------------------------------------------
(* The invariant is inductive                                              *)

LEMMA InitInv == Init => Inv
<1> SUFFICES ASSUME Init PROVE Inv
  OBVIOUS
<1>1. TypeOK
  BY InitTypes
<1>2. TokensAreKnown /\ TokensAreUsedOnce /\ TreesStand /\ ClaimsAreOver
      /\ NothingIsLeftBehind
  BY DEF Init, TokensAreKnown, TokensAreUsedOnce, TreesStand, ClaimsAreOver,
         NothingIsLeftBehind, HasWorkspace
<1> QED BY <1>1, <1>2 DEF Inv

\* Every attempt of the next state continues one of this state, or is new.
LEMMA AttemptsContinue ==
  ASSUME TypeOK, [Next]_vars, NEW a \in attempts'
  PROVE  \/ \E b \in attempts : Same(a, b)
         \/ \E r \in Runs : Claim(r) /\ a.run = r /\ a.token = claims + 1
<1>1. CASE attempts' \subseteq attempts
  BY <1>1 DEF Same
<1>2. ASSUME NEW c \in attempts, NEW b \in Attempt, AttemptMoves(c, b)
      PROVE  \E d \in attempts : Same(a, d)
  BY <1>2 DEF AttemptMoves, Same
<1>3. ASSUME NEW r \in Runs, Claim(r)
      PROVE  a \in attempts \/ (a.run = r /\ a.token = claims + 1)
  BY <1>3, ClaimStep
<1> QED BY <1>1, <1>2, <1>3, StepKeepsAttempts DEF Same

\* Tokens come from claims alone.
LEMMA TokensCome ==
  ASSUME TypeOK, [Next]_vars
  PROVE  /\ \/ claims' = claims
            \/ claims' = claims + 1 /\ \E r \in Runs : Claim(r)
         /\ \A r \in Runs :
               /\ run'[r].token \in {0, run[r].token, claims'}
               /\ \/ run'[r].path = run[r].path /\ run'[r].of = run[r].of
                  \/ \E a \in attempts : /\ a.run = r /\ Materialized(a)
                                         /\ Holds(a.run, a.token)
<1>1. CASE RunsKeep
  BY <1>1 DEF RunsKeep
<1>2. ASSUME NEW r \in Runs, Claim(r)
      PROVE  /\ claims' = claims + 1
             /\ \A q \in Runs : run'[q].token \in {run[q].token, claims'}
             /\ \A q \in Runs : run'[q].path = run[q].path /\ run'[q].of = run[q].of
  BY <1>2, ClaimStep
<1>3. ASSUME NEW a \in attempts, Materialized(a), Holds(a.run, a.token)
      PROVE  /\ claims' = claims
             /\ \A q \in Runs : run'[q].token \in {0, run[q].token}
             /\ \A q \in Runs : \/ run'[q].path = run[q].path /\ run'[q].of = run[q].of
                                \/ a.run = q
  BY <1>3, RecordStep
<1> QED BY <1>1, <1>2, <1>3, StepKeepsRuns

LEMMA NextTokensAreKnown ==
  ASSUME TypeOK, TokensAreKnown, [Next]_vars
  PROVE  TokensAreKnown'
<1>1. claims \in Nat /\ claims <= claims' /\ claims' \in Nat
  BY TokensCome DEF TypeOK
<1>2. ASSUME NEW r \in Runs
      PROVE  (run[r].token <= claims /\ run[r].path <= claims)'
  <2>1. run[r].token \in Nat /\ run[r].path \in Nat
    BY RunFields, Numbers
  <2>2. ASSUME NEW a \in attempts, a.run = r, Materialized(a), Holds(a.run, a.token)
        PROVE  run'[r].path <= claims
    BY <2>2, RecordStep DEF TokensAreKnown
  <2>3. run'[r].path \in Nat
    <3>1. run'[r].path = run[r].path \/ \E a \in attempts : run'[r].path = a.token
      BY TokensCome, RecordStep
    <3> QED BY <3>1, <2>1, AttemptEdits, Numbers
  <2>4. run'[r].path <= claims'
    BY <1>1, <2>1, <2>2, <2>3, TokensCome DEF TokensAreKnown
  <2>5. run'[r].token <= claims'
    BY <1>1, <2>1, TokensCome DEF TokensAreKnown
  <2> QED BY <2>4, <2>5
<1>3. ASSUME NEW a \in attempts'
      PROVE  a.token <= claims'
  <2>1. ASSUME NEW b \in attempts, Same(a, b)
        PROVE  a.token <= claims'
    <3>1. b.token \in Nat /\ b.token <= claims
      BY AttemptEdits, Numbers DEF TokensAreKnown
    <3> QED BY <2>1, <3>1, <1>1 DEF Same
  <2>2. ASSUME NEW r \in Runs, Claim(r), a.token = claims + 1
        PROVE  a.token <= claims'
    BY <2>2, <1>1, ClaimStep
  <2> QED BY <2>1, <2>2, AttemptsContinue
<1>4. ASSUME NEW w \in Worktree, w.token <= claims
      PROVE  w.token <= claims'
  BY <1>1, <1>4, Numbers DEF Worktree
<1>5. ASSUME NEW a \in attempts
      PROVE  Tree(a) \in Worktree /\ Tree(a).token <= claims
  BY AttemptEdits DEF Tree, TokensAreKnown
<1>6. ASSUME NEW r \in Runs, HasWorkspace(r)
      PROVE  Recorded(r) \in Worktree /\ Recorded(r).token <= claims
  BY <1>6, RunFields DEF Recorded, TokensAreKnown
<1>7. \A w \in disk \cup removals \cup harvested : w \in Worktree /\ w.token <= claims
  BY DEF TypeOK, TokensAreKnown
<1>8. \A w \in disk' : w.token <= claims'
  BY <1>4, <1>5, <1>7, StepKeepsTrees
<1>9. \A w \in harvested' : w.token <= claims'
  BY <1>4, <1>6, <1>7, StepHarvests DEF HarvestsRecords
<1>10. ASSUME NEW w \in removals' PROVE w.token <= claims'
  <2>1. ASSUME NEW r \in Stuck, w = Abandoned(r)
        PROVE  w.token <= claims'
    <3>1. r \in Runs /\ run[r].token \in Nat /\ run[r].token <= claims
      BY RunFields, Numbers DEF Stuck, TokensAreKnown
    <3> QED BY <2>1, <3>1, <1>1 DEF Abandoned
  <2> QED BY <2>1, <1>4, <1>7, <1>9, StepHarvests DEF HarvestsRecords
<1> QED BY <1>2, <1>3, <1>8, <1>9, <1>10 DEF TokensAreKnown

LEMMA NextTokensAreUsedOnce ==
  ASSUME TypeOK, TokensAreKnown, TokensAreUsedOnce, [Next]_vars
  PROVE  TokensAreUsedOnce'
<1>c. claims \in Nat
  BY DEF TypeOK
<1>t. /\ \A a \in attempts : a.run \in Runs /\ a.token \in Nat \ {0} /\ a.token <= claims
      /\ \A r \in Runs : /\ run[r].token \in Nat /\ run[r].path \in Nat
                         /\ run[r].token <= claims /\ run[r].path <= claims
  BY AttemptEdits, RunFields, Numbers DEF TokensAreKnown
<1>1. ASSUME NEW a \in attempts', NEW b \in attempts', Same(a, b) PROVE a = b
  <2>1. CASE attempts' \subseteq attempts
    BY <1>1, <2>1 DEF TokensAreUsedOnce
  <2>2. ASSUME NEW c \in attempts, NEW d \in Attempt, AttemptMoves(c, d)
        PROVE  a = b
    BY <1>1, <2>2 DEF AttemptMoves, Same, TokensAreUsedOnce
  <2>3. ASSUME NEW r \in Runs, Claim(r) PROVE a = b
    <3> DEFINE n == [run |-> r, token |-> claims + 1, of |-> 0, stage |-> "begin",
                     failed |-> FALSE]
    <3>1. attempts' = attempts \cup {n} /\ n.token = claims + 1
      BY <2>3, ClaimStep
    <3>2. \A x \in attempts : x.token # n.token
      BY <3>1, <1>t, <1>c
    <3> HIDE DEF n
    <3> QED BY <1>1, <3>1, <3>2 DEF Same, TokensAreUsedOnce
  <2> QED BY <2>1, <2>2, <2>3, StepKeepsAttempts
<1>2. ASSUME NEW a \in attempts' PROVE run'[a.run].path # a.token
  <2>1. ASSUME NEW r \in Runs, Claim(r) PROVE run'[a.run].path # a.token
    <3>1. a \in attempts \/ (a.run = r /\ a.token = claims + 1)
      BY <2>1, ClaimStep
    <3>2. a.run \in Runs /\ run'[a.run].path = run[a.run].path
      BY <2>1, <3>1, <1>t, ClaimStep
    <3> QED BY <3>1, <3>2, <1>t, <1>c DEF TokensAreUsedOnce
  <2>2. ASSUME NEW b \in attempts, Materialized(b), Holds(b.run, b.token)
        PROVE  run'[a.run].path # a.token
    <3>1. a \in attempts /\ a # b
      BY <2>2, RecordStep
    <3> QED BY <2>2, <3>1, <1>t, RecordStep DEF TokensAreUsedOnce, Same
  <2>3. CASE RunsKeep /\ \A r \in Runs : ~Claim(r)
    <3>1. PICK b \in attempts : Same(a, b)
      BY <2>3, AttemptsContinue
    <3> QED BY <2>3, <3>1, <1>t DEF RunsKeep, Same, TokensAreUsedOnce
  <2> QED BY <2>1, <2>2, <2>3, StepKeepsRuns
<1>3. ASSUME NEW r \in Runs
      PROVE  /\ run'[r].path # 0 => run'[r].token # run'[r].path
             /\ run'[r].status = "materializing" => run'[r].token # 0
             /\ run'[r].status = "running" => run'[r].path # 0
  <2>1. ASSUME NEW q \in Runs, Claim(q)
        PROVE  /\ run'[r].path # 0 => run'[r].token # run'[r].path
               /\ run'[r].status = "materializing" => run'[r].token # 0
               /\ run'[r].status = "running" => run'[r].path # 0
    BY <2>1, <1>t, <1>c, ClaimStep DEF TokensAreUsedOnce
  <2>2. ASSUME NEW b \in attempts, Materialized(b), Holds(b.run, b.token)
        PROVE  /\ run'[r].path # 0 => run'[r].token # run'[r].path
               /\ run'[r].status = "materializing" => run'[r].token # 0
               /\ run'[r].status = "running" => run'[r].path # 0
    BY <2>2, <1>t, RecordStep DEF TokensAreUsedOnce
  <2>3. CASE RunsKeep
    BY <2>3 DEF RunsKeep, TokensAreUsedOnce
  <2> QED BY <2>1, <2>2, <2>3, StepKeepsRuns
<1> QED BY <1>1, <1>2, <1>3 DEF TokensAreUsedOnce

LEMMA NextClaimsAreOver ==
  ASSUME TypeOK, TokensAreKnown, TokensAreUsedOnce, ClaimsAreOver, [Next]_vars
  PROVE  ClaimsAreOver'
<1>c. claims \in Nat
  BY DEF TypeOK
<1>w. \A w \in removals \cup harvested :
          w.run \in Runs /\ w.token \in Nat \ {0} /\ w.token <= claims
  BY DEF TypeOK, Worktree, Tokens, TokensAreKnown
<1>r. \A r \in Runs : HasWorkspace(r) =>
          /\ Recorded(r).run = r /\ Recorded(r).token = run[r].path
          /\ run[r].path \in Nat \ {0} /\ run[r].path <= claims
          /\ run[r].path # run[r].token
  BY RunFields, Numbers DEF HasWorkspace, Recorded, TokensAreKnown, TokensAreUsedOnce
<1>n. ASSUME NEW w, w.run \in Runs, w.token \in Nat \ {0}, w.token <= claims,
             run[w.run].token # w.token
      PROVE  run'[w.run].token # w.token
  <2>1. run'[w.run].token \in {0, run[w.run].token, claims + 1}
    <3>1. CASE claims' = claims + 1
      BY <1>n, <3>1, TokensCome
    <3>2. CASE RunsKeep
      BY <1>n, <3>2 DEF RunsKeep
    <3>3. ASSUME NEW a \in attempts, Materialized(a), Holds(a.run, a.token)
          PROVE  run'[w.run].token \in {0, run[w.run].token}
      BY <1>n, <3>3, RecordStep
    <3> QED BY <3>1, <3>2, <3>3, StepKeepsRuns, ClaimStep
  <2> QED BY <1>n, <2>1, <1>c
<1>1. \A w \in harvested' : run'[w.run].token # w.token
  BY <1>n, <1>w, <1>r, StepHarvests DEF HarvestsRecords, ClaimsAreOver
<1>2. \A w \in removals' : run'[w.run].token # w.token
  <2>1. ASSUME NEW r \in Stuck, run'[r].token = 0
        PROVE  run'[Abandoned(r).run].token # Abandoned(r).token
    BY <2>1 DEF Stuck, Abandoned, TokensAreUsedOnce
  <2> QED BY <1>1, <2>1, <1>n, <1>w, StepHarvests DEF HarvestsRecords, ClaimsAreOver
<1>3. ASSUME NEW w \in removals', w \notin harvested'
      PROVE  run'[w.run].path # w.token
  <2>1. CASE w \in removals
    <3>1. w \notin harvested
      BY <1>3, HarvestsGrow
    <3>2. w.run \in Runs /\ run[w.run].token # w.token /\ run[w.run].path # w.token
      BY <2>1, <3>1, <1>w DEF ClaimsAreOver
    <3>3. ASSUME NEW a \in attempts, a.run = w.run, Materialized(a),
                 Holds(a.run, a.token)
          PROVE  run'[w.run].path # w.token
      BY <3>2, <3>3, RecordStep
    <3> QED BY <3>2, <3>3, TokensCome
  <2>2. ASSUME RunsKeep, NEW r \in Stuck, w = Abandoned(r)
        PROVE  run'[w.run].path # w.token
    <3>1. /\ r \in Runs /\ w.run = r /\ w.token = run[r].token
          /\ run[r].token # 0 /\ run'[r].path = run[r].path
      BY <2>2 DEF Stuck, Abandoned, TokensAreUsedOnce, RunsKeep
    <3> QED BY <3>1 DEF TokensAreUsedOnce
  <2> QED BY <1>3, <2>1, <2>2, StepHarvests DEF HarvestsRecords
<1>4. ASSUME NEW w \in harvested', NEW a \in attempts' PROVE ~Same(w, a)
  <2>1. w.token <= claims /\ w.token \in Nat
    BY <1>w, <1>r, StepHarvests DEF HarvestsRecords
  <2>2. ASSUME NEW b \in attempts PROVE ~Same(w, b)
    <3>1. CASE w \in harvested
      BY <3>1 DEF ClaimsAreOver, Same
    <3>2. ASSUME NEW r \in Runs, HasWorkspace(r), w = Recorded(r)
          PROVE  ~Same(w, b)
      <4>1. w.run = r /\ w.token = run[r].path
        BY <3>2, <1>r
      <4>2. run[b.run].path # b.token
        BY DEF TokensAreUsedOnce
      <4> QED BY <4>1, <4>2 DEF Same
    <3> QED BY <3>1, <3>2, StepHarvests DEF HarvestsRecords
  <2> QED BY <2>1, <2>2, <1>c, AttemptsContinue DEF Same
<1> QED BY <1>1, <1>2, <1>3, <1>4 DEF ClaimsAreOver, Same

LEMMA TreeFields ==
  ASSUME NEW x
  PROVE  Tree(x).run = x.run /\ Tree(x).token = x.token
  BY DEF Tree

LEMMA NextTreesStand ==
  ASSUME TypeOK, TokensAreKnown, TokensAreUsedOnce, ClaimsAreOver, TreesStand,
         [Next]_vars
  PROVE  TreesStand'
<1>c. claims \in Nat
  BY DEF TypeOK
<1>w. \A w \in disk : w \in Worktree /\ w.token \in Nat /\ w.token <= claims
  BY Numbers DEF TypeOK, TokensAreKnown
<1>1. ASSUME NEW a \in attempts', NEW w \in disk', Same(a, w)
      PROVE  a.stage \in {"added", "undo"} /\ w = Tree(a)
  <2>1. ASSUME NEW r \in Runs, Claim(r)
        PROVE  a.stage \in {"added", "undo"} /\ w = Tree(a)
    <3>1. w \in disk /\ (a \in attempts \/ a.token = claims + 1)
      BY <2>1, ClaimStep
    <3>2. a \in attempts
      BY <1>1, <3>1, <1>w, <1>c DEF Same
    <3> QED BY <1>1, <3>1, <3>2 DEF TreesStand
  <2>2. ASSUME NEW b \in attempts, Appears(b), w = Tree(b), w \notin disk
        PROVE  a.stage \in {"added", "undo"} /\ w = Tree(a)
    <3> DEFINE d == [b EXCEPT !.stage = "added"]
    <3>1. /\ attempts' = (attempts \ {b}) \cup {d}
          /\ Same(d, b) /\ d.stage = "added" /\ Tree(d) = Tree(b)
      BY <2>2 DEF Appears, Moves, TypeOK, Attempt, Same, Tree
    <3>2. Same(a, b)
      BY <1>1, <2>2, TreeFields DEF Same
    <3> HIDE DEF d
    <3>3. a = d
      BY <3>1, <3>2 DEF TokensAreUsedOnce
    <3> QED BY <2>2, <3>1, <3>3
  <2>3. CASE w \in disk /\ attempts' \subseteq attempts
    BY <1>1, <2>3 DEF TreesStand
  <2>4. ASSUME NEW b \in attempts, NEW d \in Attempt, AttemptMoves(b, d), w \in disk
        PROVE  a.stage \in {"added", "undo"} /\ w = Tree(a)
    <3>1. CASE a \in attempts
      BY <1>1, <2>4, <3>1 DEF TreesStand
    <3>2. CASE a = d
      <4>1. Same(b, w) /\ b.stage \notin {"begin", "fetch"} =>
               Tree(d) = Tree(b) /\ d.stage \in {"added", "undo"}
        BY <1>1, <2>4, <3>2 DEF AttemptMoves, Same
      <4>2. Same(b, w)
        BY <1>1, <2>4, <3>2 DEF AttemptMoves, Same
      <4>3. b.stage \in {"added", "undo"} /\ w = Tree(b)
        BY <2>4, <4>2 DEF TreesStand
      <4> QED BY <3>2, <4>1, <4>2, <4>3
    <3> QED BY <2>4, <3>1, <3>2 DEF AttemptMoves
  <2>5. w \in disk \/ \E b \in attempts : Appears(b) /\ w = Tree(b)
    BY StepKeepsTrees
  <2> QED BY <2>1, <2>2, <2>3, <2>4, <2>5, StepKeepsAttempts
\* A tree that a live claim has made is neither removed nor cleaned up.
<1>2. ASSUME NEW a \in attempts, NEW b \in attempts', a = b,
             a.stage = "added", Holds(a.run, a.token)
      PROVE  Tree(a) \in disk'
  <2>1. Tree(a) \in disk
    BY <1>2 DEF TreesStand
  <2>2. Tree(a) \notin removals
    BY <1>2, TreeFields DEF Holds, ClaimsAreOver
  <2>3. ASSUME NEW d \in attempts, Tree(a) = Tree(d) PROVE a = d
    <3>1. Same(a, d)
      BY <2>3, TreeFields DEF Same
    <3> QED BY <3>1 DEF TokensAreUsedOnce
  <2> QED BY <1>2, <2>1, <2>2, <2>3, StepKeepsTrees
\* A claim that holds after a step has held before, or is new.
<1>3. ASSUME NEW a \in attempts, Holds(a.run, a.token)'
      PROVE  Holds(a.run, a.token)
  <2>r. a.run \in Runs /\ a.token \in Nat /\ a.token # 0 /\ a.token <= claims
    BY Numbers DEF TokensAreKnown
  <2>1. CASE RunsKeep
    BY <1>3, <2>1, <2>r DEF RunsKeep, Holds
  <2>2. ASSUME NEW r \in Runs, Claim(r) PROVE Holds(a.run, a.token)
    BY <1>3, <2>2, <2>r, <1>c, ClaimStep DEF Holds
  <2>3. ASSUME NEW b \in attempts, Materialized(b), Holds(b.run, b.token)
        PROVE  Holds(a.run, a.token)
    BY <1>3, <2>3, <2>r, RecordStep DEF Holds
  <2> QED BY <2>1, <2>2, <2>3, StepKeepsRuns
<1>4. ASSUME NEW a \in attempts', a.stage = "added", Holds(a.run, a.token)'
      PROVE  Tree(a) \in disk'
  <2>1. CASE a \in attempts
    BY <1>2, <1>3, <1>4, <2>1
  <2>2. ASSUME NEW b \in attempts, NEW d \in Attempt, AttemptMoves(b, d), a = d
        PROVE  Tree(a) \in disk'
    BY <1>4, <2>2 DEF AttemptMoves
  <2>3. ASSUME NEW r \in Runs, Claim(r) PROVE a \in attempts
    BY <1>4, <2>3, ClaimStep
  <2> QED BY <2>1, <2>2, <2>3, StepKeepsAttempts DEF AttemptMoves
<1>5. ASSUME NEW r \in Runs, HasWorkspace(r)'
      PROVE  Recorded(r)' \in disk' \cup harvested'
  <2>1. ASSUME NEW a \in attempts, a.run = r, Materialized(a), Holds(a.run, a.token)
        PROVE  Recorded(r)' \in disk' \cup harvested'
    <3>1. Recorded(r)' = Tree(a)
      BY <2>1, RecordStep DEF Recorded, Tree
    <3>2. Tree(a) \in disk /\ disk' = disk
      BY <2>1, RecordStep DEF TreesStand
    <3> QED BY <3>1, <3>2
  <2>2. CASE run'[r].path = run[r].path /\ run'[r].of = run[r].of
    <3>1. Recorded(r)' = Recorded(r) /\ HasWorkspace(r)
      BY <1>5, <2>2 DEF Recorded, HasWorkspace
    <3>2. Recorded(r).run = r /\ Recorded(r).token = run[r].path
      BY DEF Recorded
    <3>3. CASE Recorded(r) \in harvested
      BY <3>1, <3>3, HarvestsGrow
    <3>4. CASE Recorded(r) \in disk /\ Recorded(r) \notin harvested
      <4>1. Recorded(r) \notin removals
        BY <3>2, <3>4 DEF ClaimsAreOver
      <4>2. \A a \in attempts : Recorded(r) # Tree(a)
        BY <3>2, TreeFields DEF TokensAreUsedOnce
      <4> QED BY <3>1, <3>4, <4>1, <4>2, StepKeepsTrees
    <3> QED BY <3>1, <3>3, <3>4 DEF TreesStand
  <2> QED BY <2>1, <2>2, TokensCome
<1> QED BY <1>1, <1>4, <1>5 DEF TreesStand, Same, Tree

\* An attempt that has made a tree keeps it, hands it over, or is excused.
LEMMA AttemptsAccount ==
  ASSUME TypeOK, TreesStand, [Next]_vars, NEW a \in attempts,
         Tree(a) \in disk, Tree(a) \in disk'
  PROVE  \/ \E b \in attempts' : Tree(b) = Tree(a)
         \/ Tree(a) \in excused'
         \/ Recorded(a.run)' = Tree(a)
<1>s. a.stage \in {"added", "undo"}
  BY TreeFields DEF TreesStand, Same
<1>1. CASE a \in attempts'
  BY <1>1
<1>2. ASSUME NEW b \in attempts, NEW d \in Attempt, AttemptMoves(b, d)
      PROVE  \E e \in attempts' : Tree(e) = Tree(a)
  <2>1. CASE a = b
    BY <1>s, <1>2, <2>1 DEF AttemptMoves
  <2>2. CASE a # b
    BY <1>2, <2>2 DEF AttemptMoves
  <2> QED BY <2>1, <2>2
<1>3. CASE attempts' \subseteq attempts /\ a \notin attempts'
  <2>1. ASSUME NEW b \in attempts, attempts' = attempts \ {b}
        PROVE  a = b
    BY <1>3, <2>1
  <2>2. ASSUME NEW b \in attempts, Materialized(b), Holds(b.run, b.token)
        PROVE  Recorded(a.run)' = Tree(a)
    BY <2>1, <2>2, RecordStep DEF Recorded, Tree
  <2>3. ASSUME NEW b \in attempts, Undone(b) PROVE Tree(a) \in excused'
    <3>1. a = b
      BY <2>1, <2>3 DEF Undone, Finishes
    <3>2. Removes(Tree(a))
      BY <2>3, <3>1 DEF Undone
    <3> QED BY <3>2 DEF Removes
  <2>4. ASSUME NEW b \in attempts, AddTimesOut(b) PROVE Tree(a) \in excused'
    <3>1. a = b /\ excused' = excused \cup ({Tree(b)} \cap disk)
      BY <2>1, <2>4 DEF AddTimesOut, Finishes
    <3> QED BY <3>1
  <2>5. ASSUME NEW b \in attempts, TurnedAway(b) \/ Fails(b) PROVE FALSE
    <3>1. a = b /\ b.stage \in {"begin", "fetch"}
      BY <2>1, <2>5 DEF TurnedAway, Fails, Finishes
    <3> QED BY <1>s, <3>1
  <2>6. ASSUME NEW b \in attempts, Begins(b) PROVE FALSE
    <3>1. CASE attempts' = attempts \ {b}
      BY <1>s, <2>1, <2>6, <3>1 DEF Begins
    <3>2. ASSUME NEW d, attempts' = (attempts \ {b}) \cup {d} PROVE a = b
      BY <1>3, <3>2
    <3> QED BY <1>s, <2>6, <3>1, <3>2 DEF Begins, Finishes
  <2>7. CASE Down
    BY <2>7 DEF Down
  <2>8. ASSUME NEW b \in attempts,
               Fetched(b) \/ Appears(b) \/ AddFails(b)
               \/ (Materialized(b) /\ ~Holds(b.run, b.token))
        PROVE  \E e \in attempts' : Tree(e) = Tree(a)
    <3>1. ASSUME NEW d, attempts' = (attempts \ {b}) \cup {d}, Tree(d) = Tree(b)
          PROVE  \E e \in attempts' : Tree(e) = Tree(a)
      BY <1>3, <3>1
    <3>2. \A s \in Stages : Tree([b EXCEPT !.stage = s]) = Tree(b)
      BY DEF Tree, TypeOK, Attempt
    <3>3. Tree([b EXCEPT !.stage = "undo", !.failed = TRUE]) = Tree(b)
      BY DEF Tree, TypeOK, Attempt
    <3> QED BY <2>8, <3>1, <3>2, <3>3
            DEF Fetched, Appears, AddFails, Materialized, Moves, Stages
  <2>9. CASE attempts' = attempts
    BY <1>3, <2>9
  <2>10. \/ attempts' = attempts
         \/ \E r \in Runs : Claim(r)
         \/ Down
         \/ \E b \in attempts : \/ TurnedAway(b) \/ Begins(b) \/ Fetched(b)
                                \/ Fails(b) \/ Appears(b)
                                \/ AddFails(b) \/ AddTimesOut(b)
                                \/ Materialized(b) \/ Undone(b)
    BY DEF Next, Start, Edit, End, BackoffElapses, Ages, Removed, LeaseAges, Sweep,
           ChangeSource, CloseAdmission, Boot, vars
  <2>11. ASSUME NEW r \in Runs, Claim(r) PROVE a \in attempts'
    BY <2>11, ClaimStep
  <2> QED BY <1>3, <2>2, <2>3, <2>4, <2>5, <2>6, <2>7, <2>8, <2>9, <2>10, <2>11
<1>4. ASSUME NEW r \in Runs, Claim(r) PROVE a \in attempts'
  BY <1>4, ClaimStep
<1> QED BY <1>1, <1>2, <1>3, <1>4, StepKeepsAttempts

\* A removal takes its tree away or is excused.
LEMMA RemovalsAccount ==
  ASSUME TypeOK, [Next]_vars, NEW w \in removals, w \in disk, w \in disk'
  PROVE  w \in removals' \cup excused'
<1>1. ASSUME NEW a \in attempts, GiveUp(a) PROVE w \in removals'
  BY <1>1 DEF GiveUp, Harvests
<1>2. ASSUME NEW a \in attempts, Fails(a) \/ AddTimesOut(a) \/ Undone(a)
      PROVE  w \in removals'
  BY <1>2, <1>1 DEF Fails, AddTimesOut, Undone
<1>3. ASSUME NEW a \in attempts,
             \/ TurnedAway(a) \/ Begins(a) \/ Fetched(a) \/ Appears(a) \/ AddFails(a)
             \/ Materialized(a)
      PROVE  w \in removals'
  BY <1>3 DEF TurnedAway, Begins, Fetched, Appears, AddFails, Materialized
<1>4. ASSUME NEW r \in Runs, \/ Claim(r) \/ Start(r) \/ Edit(r)
                             \/ BackoffElapses(r) \/ Ages(r)
                             \/ \E s \in {"completed", "failed"} : End(r, s)
      PROVE  w \in removals'
  BY <1>4 DEF Claim, Start, Edit, End, Harvests, BackoffElapses, Ages
<1>5. CASE \/ UNCHANGED vars \/ Sweep \/ ChangeSource \/ CloseAdmission
           \/ Boot \/ \E g \in Generations : LeaseAges(g)
  BY <1>5 DEF vars, Sweep, ChangeSource, CloseAdmission, Boot, LeaseAges
<1>6. CASE Down
  BY <1>6 DEF Down
<1>7. ASSUME NEW v \in removals, Removed(v) PROVE w \in removals' \cup excused'
  BY <1>7 DEF Removed, Removes
<1> QED BY <1>2, <1>3, <1>4, <1>5, <1>6, <1>7 DEF Next

LEMMA NextLeavesNothingBehind ==
  ASSUME TypeOK, TreesStand, NothingIsLeftBehind, [Next]_vars
  PROVE  NothingIsLeftBehind'
<1> SUFFICES ASSUME NEW w \in disk' PROVE Accounted(w)'
  BY DEF NothingIsLeftBehind
<1>1. ASSUME NEW a \in attempts, Appears(a), w = Tree(a)
      PROVE  Accounted(w)'
  <2>1. [a EXCEPT !.stage = "added"] \in attempts'
    BY <1>1 DEF Appears, Moves
  <2>2. Tree([a EXCEPT !.stage = "added"]) = w
    BY <1>1 DEF Tree, TypeOK, Attempt
  <2> QED BY <2>1, <2>2 DEF Accounted, Tree
<1>2. CASE w \in disk
  <2>1. CASE Recorded(w.run) = w
    <3>1. w.run \in Runs
      BY <1>2, Numbers DEF TypeOK
    <3>2. CASE run'[w.run].path = run[w.run].path /\ run'[w.run].of = run[w.run].of
      BY <2>1, <3>2 DEF Accounted, Recorded
    <3>3. ASSUME NEW a \in attempts, a.run = w.run, Materialized(a),
                 Holds(a.run, a.token)
          PROVE  w \in excused'
      BY <1>2, <2>1, <3>3, RecordStep
    <3> QED BY <3>1, <3>2, <3>3, TokensCome DEF Accounted
  <2>2. ASSUME NEW a \in attempts, Tree(a) = w PROVE Accounted(w)'
    <3>1. w.run = a.run
      BY <2>2, TreeFields
    <3> QED BY <1>2, <2>2, <3>1, AttemptsAccount DEF Accounted, Tree
  <2>3. CASE w \in removals
    BY <1>2, <2>3, RemovalsAccount DEF Accounted
  <2>4. CASE w \in excused
    BY <2>4, HarvestsGrow DEF Accounted
  <2> QED BY <1>2, <2>1, <2>2, <2>3, <2>4 DEF NothingIsLeftBehind, Accounted
<1> QED BY <1>1, <1>2, StepKeepsTrees

LEMMA NextInv == Inv /\ [Next]_vars => Inv'
<1> SUFFICES ASSUME Inv, [Next]_vars PROVE Inv'
  OBVIOUS
<1> USE DEF Inv
<1>1. TypeOK'
  BY NextTypes
<1>2. TokensAreKnown' /\ TokensAreUsedOnce' /\ ClaimsAreOver'
  BY NextTokensAreKnown, NextTokensAreUsedOnce, NextClaimsAreOver
<1>3. TreesStand' /\ NothingIsLeftBehind'
  BY NextTreesStand, NextLeavesNothingBehind
<1> QED BY <1>1, <1>2, <1>3

LEMMA Invariance == Spec => []Inv
<1> QED BY InitInv, NextInv, PTL DEF Spec

-----------------------------------------------------------------------------
(* Theorems                                                                *)

\* The tables, the node and the attempts stay well formed: a claim has a token
\* when the sweep looks for its worktree.
THEOREM TypeCorrect == Spec => []TypeOK
<1>1. Inv => TypeOK
  BY DEF Inv
<1> QED BY <1>1, Invariance, PTL

\* A run that may start or runs has its checkout, whatever the earlier attempts
\* and the removals of its worktrees still do.
THEOREM RunsFindTheirWorkspace == Spec => []WorkspaceStands
<1>1. Inv => WorkspaceStands
  <2> SUFFICES ASSUME Inv, NEW r \in Runs, Uses(r), Recorded(r) \notin harvested
               PROVE  Recorded(r) \in disk \ removals
    BY DEF WorkspaceStands
  <2>1. HasWorkspace(r)
    BY DEF Inv, TokensAreUsedOnce, Uses, Ready, HasWorkspace
  <2>2. Recorded(r) \in disk
    BY <2>1 DEF Inv, TreesStand
  <2>3. Recorded(r) \notin removals
    BY DEF Inv, ClaimsAreOver, Recorded
  <2> QED BY <2>2, <2>3
<1> QED BY <1>1, Invariance, PTL

\* A fenced, failed or stuck attempt leaves no checkout that nobody removes.
THEOREM AttemptsLeaveNothing == Spec => []NothingIsLeftBehind
<1>1. Inv => NothingIsLeftBehind
  BY DEF Inv
<1> QED BY <1>1, Invariance, PTL
=============================================================================

------------------------------ MODULE GoalLoop ------------------------------
(***************************************************************************)
(* The goal loop of one task: its attempts (rows of runs with goal_active),  *)
(* the harvest that follows an attempt's end, the judge, the verdict and its *)
(* outbox (goalVerdictService), the Gate 2 review (app.js) and the delivery  *)
(* of the accepted branch (goalDeliveryService).                             *)
(*                                                                         *)
(* One server process.  What it does without an await is a sequence of       *)
(* steps, `todo', that only a crash can cut short; harvests, judge calls,    *)
(* deferred reviews and git wait outside of it and are lost with the server. *)
(***************************************************************************)
EXTENDS Integers, Sequences

CONSTANTS
    MaxRuns,        \* bound: rows of runs, numbered in rowid order
    Budget,         \* tasks.goal_max_attempts
    Checked,        \* the task has a verify check that a human wrote
    Judged,         \* goal_judge_active
    ReviewMax,      \* AUTO_REVIEW_MAX
    MaxExecutes,    \* bound: attempts started by hand
    MaxEdits,       \* bound: status changes by hand and departures of the
                    \* manager that reviews
    MaxRefusals,    \* bound: promotions that git refuses
    MaxCrashes      \* bound: crashes of the server

ASSUME GoalAssumption ==
    /\ MaxRuns \in Nat \ {0} /\ Budget \in Nat \ {0} /\ ReviewMax \in Nat
    /\ Checked \in BOOLEAN /\ Judged \in BOOLEAN
    /\ MaxExecutes \in Nat /\ MaxEdits \in Nat
    /\ MaxRefusals \in Nat /\ MaxCrashes \in Nat
    /\ MaxExecutes * Budget <= MaxRuns

Runs == 1..MaxRuns
Terminal == {"completed", "failed", "cancelled"}
Verdicts == {"retry", "gate2", "exhausted", "error"}
Effects == {"verdict", "end"}   \* goal:verdict; goal:exhausted or goal:error

VARIABLES
    run,        \* runs: the attempts
    task,       \* tasks: status, goal_delivery_json
    effect,     \* goal_effects
    branch,     \* the attempt palantir/goal/<task> points at, or 0
    up,         \* the server runs
    todo,       \* what the event loop's current callback has still to do
    harvest,    \* per attempt, the await its harvest is in
    inflight,   \* _reviewInFlight
    count,      \* autoReviewCounts of the task
    seated,     \* the review's receiver has an active run
    promote,    \* the delivery that awaits git
    emitted,    \* history: times an effect was on the bus
    told,       \* history: reviews handed to the receiver's queue
    budget      \* bound: what has been used of the bounds above

db == <<run, task, effect>>
memory == <<up, todo, harvest, inflight, count, promote>>
vars == <<db, branch, memory, seated, emitted, told, budget>>

NoFingerprint == [shape |-> "none", judge |-> FALSE]
Unborn == [status |-> "none", goal |-> FALSE, spawned |-> FALSE, retry |-> 0,
           acc |-> "none", judge |-> "none", late |-> FALSE,
           verdict |-> "none", fingerprint |-> NoFingerprint, child |-> 0,
           reviewed |-> FALSE, heard |-> "none"]
NoGit == [run |-> 0, stage |-> "none"]

-----------------------------------------------------------------------------
(* The decision                                                            *)

Rows == {r \in Runs : run[r].status # "none"}
Free == {r \in Runs : run[r].status = "none"}
Lowest(S) == CHOOSE r \in S : \A q \in S : r <= q
Highest(S) == CHOOSE r \in S : \A q \in S : q <= r

\* The attempts of the task, and the newest: the authority for its status.
Attempts == {r \in Rows : run[r].goal}
Tip == IF Attempts = {} THEN 0 ELSE Highest(Attempts)
Ended(r) == run[r].status \in Terminal

\* computeFingerprint: acceptance, or else how the process ended.  The judge's
\* part, and exit codes, are equal or not as Repeats says.
Fingerprint(r) == [shape |-> IF run[r].acc = "none" THEN run[r].status ELSE run[r].acc,
             judge |-> run[r].judge = "fail"]

\* fingerprintRepeat: the attempt that this one retries failed in the same way.
Repeats(r) == IF \E p \in Runs : run[p].child = r /\ run[p].fingerprint = Fingerprint(r)
              THEN BOOLEAN ELSE {FALSE}

BudgetLeft(r) == run[r].retry + 1 < Budget

\* decideGoalVerdict.  `pass' stands for an advisory or a skipped check too.
Decision(r, repeat) ==
    IF run[r].status = "failed"
    THEN IF ~run[r].spawned THEN "error"
         ELSE IF BudgetLeft(r) THEN "retry" ELSE "exhausted"
    ELSE IF run[r].acc = "fail" \/ run[r].judge = "fail"
         THEN IF repeat THEN "gate2"
              ELSE IF BudgetLeft(r) THEN "retry" ELSE "exhausted"
         ELSE "gate2"

\* VERDICT_TO_TASK_STATUS
Target(verdict) ==
    CASE verdict = "retry" -> "in_progress"
      [] verdict = "gate2" -> "review"
      [] verdict = "exhausted" -> "failed"
      [] verdict = "error" -> "review"

EffectsOf(verdict) ==
    IF verdict \in {"exhausted", "error"} THEN Effects ELSE {"verdict"}

\* syncTaskStatus: the status the newest attempt gives the task.
Synced(t) ==
    IF run[t].status = "cancelled" THEN "review"
    ELSE IF Ended(t) /\ run[t].verdict # "none" THEN Target(run[t].verdict)
    ELSE task.status

\* checkTaskCompletion: a task without attempts goes by its runs.
Aggregate ==
    IF Rows = {} \/ \E r \in Rows : ~Ended(r) THEN task.status
    ELSE IF \E r \in Rows : run[r].status = "completed" THEN "review"
    ELSE IF \E r \in Rows : run[r].status = "failed" THEN "failed"
    ELSE "todo"

StatusDue_Eldest == IF Attempts # {} THEN Synced(Lowest(Attempts)) ELSE Aggregate
StatusDue == IF Tip # 0 THEN Synced(Tip) ELSE Aggregate

-----------------------------------------------------------------------------
(* The event loop                                                          *)

\* An entry of `todo' is a call for each of its runs in turn, for (const id of
\* ids), or a call that concerns no run.
Idle == up /\ todo = <<>>
Op(name) == [op |-> name, runs |-> {0}]
On(name, r) == [op |-> name, runs |-> {r}]
Each(name, S) == IF S = {} THEN <<>> ELSE <<[op |-> name, runs |-> S]>>
Doing(name) == up /\ todo # <<>> /\ Head(todo).op = name
Subject == Lowest(Head(todo).runs)
Rest == Each(Head(todo).op, Head(todo).runs \ {Subject}) \o Tail(todo)
Next1(steps) == todo' = steps \o Rest     \* called before the rest
Return == todo' = Rest

Reconciled(r) == <<Op("sync"), On("dispatch", r)>>

Unverdicted == {r \in Attempts : Ended(r) /\ run[r].verdict = "none"}
Verdicted == {r \in Attempts : Ended(r) /\ run[r].verdict # "none"}
Unreviewed_Unmarked == {r \in Attempts : run[r].verdict \in {"gate2", "exhausted", "error"}}
Unreviewed == {r \in Attempts : /\ run[r].verdict \in {"gate2", "exhausted", "error"}
                                /\ ~run[r].reviewed}

-----------------------------------------------------------------------------
(* settle                                                                  *)

\* buildRetryChild
Child_Uncounted(r) == [Unborn EXCEPT !.status = "queued", !.goal = TRUE]
Child(r) == [Unborn EXCEPT !.status = "queued", !.goal = TRUE,
                           !.retry = run[r].retry + 1]

\* casGoalVerdict, the retry child, its link and the outbox: one transaction.
Persisted(r, verdict) ==
    LET child == IF verdict = "retry" THEN Lowest(Free) ELSE 0
        settled == [run[r] EXCEPT !.verdict = verdict, !.fingerprint = Fingerprint(r),
                                  !.child = child, !.heard = run[r].judge]
    IN  /\ run' = [q \in Runs |-> IF q = r THEN settled
                                  ELSE IF q = child THEN Child(r) ELSE run[q]]
        /\ effect' = [effect EXCEPT ![r] =
                [e \in Effects |-> IF e \in EffectsOf(verdict) THEN "pending" ELSE "none"]]

\* resolveJudge waits for a judge that is on time; one that is overdue is
\* written off as an error, and the decision is taken without it.
JudgeDue_ForEver(r) == run[r].judge = "pending"
JudgeDue(r) == run[r].judge = "pending" /\ ~run[r].late
JudgeOverdue(r) == run[r].judge = "pending" /\ run[r].late

Settleable(r) ==
    /\ run[r].goal /\ run[r].status \in {"completed", "failed"}
    /\ run[r].verdict = "none"

Settle ==
    /\ Doing("settle")
    /\ LET r == Subject IN
       \/ /\ run[r].goal /\ Ended(r) /\ run[r].verdict # "none"
          /\ Next1(Reconciled(r))
          /\ UNCHANGED db
       \/ /\ run[r].goal /\ run[r].status = "cancelled" /\ run[r].verdict = "none"
          /\ Next1(<<Op("sync")>>)
          /\ UNCHANGED db
       \/ /\ ~run[r].goal \/ ~Ended(r) \/ (Settleable(r) /\ JudgeDue(r))
          /\ Return
          /\ UNCHANGED db
       \/ /\ Settleable(r) /\ JudgeOverdue(r)
          /\ run' = [run EXCEPT ![r].judge = "error"]
          /\ UNCHANGED <<task, effect, todo>>
       \/ /\ Settleable(r) /\ ~JudgeDue(r) /\ ~JudgeOverdue(r)
          /\ \E repeat \in Repeats(r) :
                /\ Decision(r, repeat) = "retry" => Free # {}   \* MaxRuns
                /\ Persisted(r, Decision(r, repeat))
          /\ Next1(Reconciled(r))
          /\ UNCHANGED task
    /\ UNCHANGED <<branch, up, harvest, inflight, count, promote, seated,
                   emitted, told, budget>>

\* syncTaskStatus, checkTaskCompletion
Sync ==
    /\ Doing("sync")
    /\ task' = [task EXCEPT !.status = StatusDue]
    /\ Return
    /\ UNCHANGED <<run, effect, branch, up, harvest, inflight, count, promote,
                   seated, emitted, told, budget>>

\* dispatchEffects: emit, then mark sent.  goal:verdict calls the review.
Emitted(r, e, then) ==
    /\ emitted' = [emitted EXCEPT ![r][e] = @ + 1]
    /\ Next1(then)

Dispatch ==
    /\ Doing("dispatch")
    /\ LET r == Subject IN
       \/ /\ effect[r]["verdict"] = "pending"
          /\ Emitted(r, "verdict",
                     <<On("review", r), On("sent", r), On("dispatch", r)>>)
       \/ /\ effect[r]["verdict"] # "pending" /\ effect[r]["end"] = "pending"
          /\ Emitted(r, "end", <<On("sentEnd", r)>>)
       \/ /\ \A e \in Effects : effect[r][e] # "pending"
          /\ Return
          /\ UNCHANGED emitted
    /\ UNCHANGED <<db, branch, up, harvest, inflight, count, promote, seated,
                   told, budget>>
 
\* markGoalEffectSent
Sent(name, e) ==
    /\ Doing(name)
    /\ effect' = [effect EXCEPT ![Subject][e] = "sent"]
    /\ Return
    /\ UNCHANGED <<run, task, branch, up, harvest, inflight, count, promote,
                   seated, emitted, told, budget>>
MarkSent == Sent("sent", "verdict") \/ Sent("sentEnd", "end")

\* sweep, at boot and every minute: settle what has no verdict, then reconcile
\* what has one, then the outbox.  A pass with nothing to do is left out.
Sweep ==
    /\ Idle
    /\ \/ \E r \in Unverdicted : Settleable(r) /\ ~JudgeDue(r)
       \/ \E r \in Verdicted : \E e \in Effects : effect[r][e] = "pending"
       \/ /\ \E r \in Attempts : Ended(r) /\ ~Settleable(r)
          /\ task.status # StatusDue
    /\ todo' = Each("settle", Unverdicted) \o <<Op("rescan")>>
    /\ UNCHANGED <<db, branch, up, harvest, inflight, count, promote, seated,
                   emitted, told, budget>>

Rescan ==
    /\ Doing("rescan")
    /\ Next1(Each("reconcile", Verdicted))
    /\ UNCHANGED <<db, branch, up, harvest, inflight, count, promote, seated,
                   emitted, told, budget>>

\* reconcile
Reconcile ==
    /\ Doing("reconcile")
    /\ Next1(IF run[Subject].verdict = "none" THEN <<>> ELSE Reconciled(Subject))
    /\ UNCHANGED <<db, branch, up, harvest, inflight, count, promote, seated,
                   emitted, told, budget>>

-----------------------------------------------------------------------------
(* The Gate 2 review                                                       *)

\* dispatchGate2Review, dispatchReview: claim, count, and defer the send.
Reviewable(r) ==
    /\ r \in Unreviewed /\ r \notin inflight
    /\ seated /\ count < ReviewMax

Review ==
    /\ Doing("review")
    /\ IF Reviewable(Subject)
       THEN inflight' = inflight \cup {Subject} /\ count' = count + 1
       ELSE UNCHANGED <<inflight, count>>
    /\ Return
    /\ UNCHANGED <<db, branch, up, harvest, promote, seated, emitted, told,
                   budget>>

\* reviewSweep, at boot and every minute.  An empty pass is left out.
ReviewSweep ==
    /\ Idle
    /\ \E r \in Runs : Reviewable(r)
    /\ todo' = Each("review", Unreviewed)
    /\ UNCHANGED <<db, branch, up, harvest, inflight, count, promote, seated,
                   emitted, told, budget>>

Uncounted_Unguarded == count - 1
Uncounted == IF count > 0 THEN count - 1 ELSE 0

\* The deferred send: it throws when the receiver is gone, and rolls back.
SendReview(r) ==
    /\ Idle /\ r \in inflight
    /\ IF seated
       THEN /\ told' = [told EXCEPT ![r] = @ + 1]
            /\ todo' = <<On("mark", r)>>
            /\ UNCHANGED <<inflight, count>>
       ELSE /\ inflight' = inflight \ {r}
            /\ count' = Uncounted
            /\ UNCHANGED <<told, todo>>
    /\ UNCHANGED <<db, branch, up, harvest, promote, seated, emitted, budget>>

\* onSent: the durable goal:gate2_review_sent; onSettled: the claim.
MarkReviewed ==
    /\ Doing("mark")
    /\ run' = [run EXCEPT ![Subject].reviewed = TRUE]
    /\ inflight' = inflight \ {Subject}
    /\ Return
    /\ UNCHANGED <<task, effect, branch, up, harvest, count, promote, seated,
                   emitted, told, budget>>

\* onSlotCleared forgets the counts of a receiver that goes.
Leave ==
    /\ Idle /\ seated /\ budget.edits < MaxEdits
    /\ seated' = FALSE /\ count' = 0
    /\ budget' = [budget EXCEPT !.edits = @ + 1]
    /\ UNCHANGED <<db, branch, up, todo, harvest, inflight, promote, emitted,
                   told>>

Sit ==
    /\ Idle /\ ~seated
    /\ seated' = TRUE
    /\ UNCHANGED <<db, branch, memory, emitted, told, budget>>

-----------------------------------------------------------------------------
(* The delivery                                                            *)

Claimable == task.status = "done" /\ task.delivery.state \in {"none", "failed"}
Active(r) == run[r].goal /\ run[r].status \in {"queued", "running"}

AcceptedTip_Ended == Tip # 0 /\ Ended(Tip)
AcceptedTip == Tip # 0 /\ run[Tip].verdict = "gate2"

\* deliver: an accepted tip is claimed and promoted; no other attempt is.
Deliver ==
    /\ Doing("deliver")
    /\ IF /\ Claimable /\ \A r \in Runs : ~Active(r)
       THEN IF AcceptedTip
            THEN /\ task' = [task EXCEPT !.delivery = [state |-> "delivering", run |-> Tip]]
                 /\ promote' = [run |-> Tip, stage |-> "asked"]
            ELSE /\ task' = [task EXCEPT !.delivery = [state |-> "failed", run |-> Tip]]
                 /\ UNCHANGED promote
       ELSE UNCHANGED <<task, promote>>
    /\ Return
    /\ UNCHANGED <<run, effect, branch, up, harvest, inflight, count, seated,
                   emitted, told, budget>>

\* promoteGoalBranch: git branch -f, in a process of its own.
Git ==
    /\ promote.stage = "asked"
    /\ \/ /\ branch' = promote.run
          /\ promote' = [promote EXCEPT !.stage = "moved"]
          /\ UNCHANGED budget
       \/ /\ budget.refusals < MaxRefusals
          /\ promote' = [promote EXCEPT !.stage = "refused"]
          /\ budget' = [budget EXCEPT !.refusals = @ + 1]
          /\ UNCHANGED branch
    /\ UNCHANGED <<db, up, todo, harvest, inflight, count, seated, emitted,
                   told>>

\* settleGoalDelivery, by finishDelivered or recordPostFailure.
Claimed(r) == task.delivery = [state |-> "delivering", run |-> r]
Delivered ==
    /\ Idle /\ promote.stage \in {"moved", "refused"}
    /\ task' = IF Claimed(promote.run)
               THEN [task EXCEPT !.delivery.state =
                        IF promote.stage = "moved" THEN "delivered" ELSE "failed"]
               ELSE task
    /\ promote' = NoGit
    /\ UNCHANGED <<run, effect, branch, up, todo, harvest, inflight, count,
                   seated, emitted, told, budget>>

-----------------------------------------------------------------------------
(* The user                                                                *)

\* executeTask: a new row, outside the lineage of the others.
Execute ==
    /\ Idle /\ budget.executes < MaxExecutes /\ Free # {}
    /\ run' = [run EXCEPT ![Lowest(Free)] = [Unborn EXCEPT !.status = "queued"]]
    /\ budget' = [budget EXCEPT !.executes = @ + 1]
    /\ UNCHANGED <<task, effect, branch, memory, seated, emitted, told>>

\* PATCH /tasks/:id/status; `done' starts the delivery.
Edit(status) ==
    /\ Idle /\ budget.edits < MaxEdits /\ status # task.status
    /\ task' = [task EXCEPT !.status = status]
    /\ todo' = IF status = "done" THEN <<Op("deliver")>> ELSE <<>>
    /\ budget' = [budget EXCEPT !.edits = @ + 1]
    /\ UNCHANGED <<run, effect, branch, up, harvest, inflight, count, promote,
                   seated, emitted, told>>

\* POST /tasks/:id/goal/deliver, or another edit of a done task.  One that
\* would write what is written already is left out.
Redeliver ==
    /\ Idle /\ Claimable /\ \A r \in Runs : ~Active(r)
    /\ AcceptedTip \/ task.delivery # [state |-> "failed", run |-> Tip]
    /\ todo' = <<Op("deliver")>>
    /\ UNCHANGED <<db, branch, up, harvest, inflight, count, promote, seated,
                   emitted, told, budget>>

-----------------------------------------------------------------------------
(* The runs                                                                *)

\* spawnQueuedRun: claim, goal stamp, and the task in progress.
Spawn(r) ==
    /\ Idle /\ run[r].status = "queued"
    /\ run' = [run EXCEPT ![r].status = "running", ![r].goal = TRUE,
                          ![r].spawned = TRUE]
    /\ task' = [task EXCEPT !.status = "in_progress"]
    /\ UNCHANGED <<effect, branch, memory, seated, emitted, told, budget>>

\* updateRunStatus and its run:ended: the task is looked at in the same
\* callback, and the harvest of an attempt is left to a later one.  A queued
\* run fails when it is rejected.
CanEnd(r, status) ==
    \/ run[r].status = "running"
    \/ run[r].status = "queued" /\ status \in {"failed", "cancelled"}

End(r, status) ==
    /\ Idle /\ CanEnd(r, status)
    /\ run' = [run EXCEPT ![r].status = status]
    /\ harvest' = IF run[r].goal /\ status # "cancelled"
                  THEN [harvest EXCEPT ![r] = "checks"] ELSE harvest
    /\ todo' = <<Op("sync")>>
    /\ UNCHANGED <<task, effect, branch, up, inflight, count, promote, seated,
                   emitted, told, budget>>

\* runGate1Acceptance, at the end of the diff, the tests and the check.
Accept(r) ==
    /\ Idle /\ harvest[r] = "checks"
    /\ IF run[r].status = "completed" /\ Checked
       THEN \E acc \in {"pass", "fail"} : run' = [run EXCEPT ![r].acc = acc]
       ELSE UNCHANGED run
    /\ harvest' = [harvest EXCEPT ![r] = "cleanup"]
    /\ UNCHANGED <<task, effect, branch, up, todo, inflight, count, promote,
                   seated, emitted, told, budget>>

\* casJudgePending
JudgeWanted(r) ==
    /\ Judged /\ run[r].status = "completed" /\ run[r].acc # "fail"
    /\ run[r].judge = "none"

\* runGoalJudge claims the call, or the harvest ends: run:harvested, settle.
Harvested(r) ==
    /\ harvest' = [harvest EXCEPT ![r] = "none"]
    /\ todo' = <<On("settle", r)>>

AskJudge(r) ==
    /\ Idle /\ harvest[r] = "cleanup"
    /\ IF JudgeWanted(r)
       THEN /\ run' = [run EXCEPT ![r].judge = "pending"]
            /\ harvest' = [harvest EXCEPT ![r] = "judge"]
            /\ UNCHANGED todo
       ELSE Harvested(r) /\ UNCHANGED run
    /\ UNCHANGED <<task, effect, branch, up, inflight, count, promote, seated,
                   emitted, told, budget>>

\* finalizeJudge, scoped to the claim, and run:harvested.
Finalized_Unscoped(r, answer) == [run EXCEPT ![r].judge = answer]
Finalized(r, answer) ==
    IF run[r].judge = "pending" THEN [run EXCEPT ![r].judge = answer] ELSE run

JudgeAnswers(r) ==
    /\ Idle /\ harvest[r] = "judge"
    /\ \E answer \in {"pass", "fail", "error"} : run' = Finalized(r, answer)
    /\ Harvested(r)
    /\ UNCHANGED <<task, effect, branch, up, inflight, count, promote, seated,
                   emitted, told, budget>>

\* The deadline of a claim passes, also while the server is down.
Overdue(r) ==
    /\ run[r].judge = "pending" /\ ~run[r].late
    /\ run' = [run EXCEPT ![r].late = TRUE]
    /\ UNCHANGED <<task, effect, branch, memory, seated, emitted, told, budget>>

-----------------------------------------------------------------------------
(* The server                                                              *)

\* git, once asked, may still move the branch.
Crash ==
    /\ up /\ budget.crashes < MaxCrashes
    /\ up' = FALSE /\ todo' = <<>> /\ inflight' = {} /\ count' = 0
    /\ harvest' = [r \in Runs |-> "none"] /\ promote' = NoGit
    /\ \/ promote.stage = "asked" /\ branch' = promote.run
       \/ UNCHANGED branch
    /\ budget' = [budget EXCEPT !.crashes = @ + 1]
    /\ seated' = FALSE
    /\ UNCHANGED <<db, emitted, told>>

Boot ==
    /\ ~up
    /\ up' = TRUE
    /\ todo' = Each("settle", Unverdicted) \o <<Op("rescan")>>
    /\ UNCHANGED <<db, branch, harvest, inflight, count, promote, seated,
                   emitted, told, budget>>

Init ==
    /\ run = [r \in Runs |-> Unborn]
    /\ task = [status |-> "todo", delivery |-> [state |-> "none", run |-> 0]]
    /\ effect = [r \in Runs |-> [e \in Effects |-> "none"]]
    /\ branch = 0
    /\ up = TRUE /\ todo = <<>>
    /\ harvest = [r \in Runs |-> "none"]
    /\ inflight = {} /\ count = 0 /\ seated = TRUE
    /\ promote = NoGit
    /\ emitted = [r \in Runs |-> [e \in Effects |-> 0]]
    /\ told = [r \in Runs |-> 0]
    /\ budget = [executes |-> 0, edits |-> 0, refusals |-> 0, crashes |-> 0]

Step == Settle \/ Sync \/ Dispatch \/ MarkSent \/ Rescan \/ Reconcile
        \/ Review \/ MarkReviewed \/ Deliver
User == Execute \/ Redeliver \/ \E status \in {"done", "todo"} : Edit(status)
Life(r) == Spawn(r) \/ \E status \in Terminal : End(r, status)
Harvest(r) == Accept(r) \/ AskJudge(r) \/ JudgeAnswers(r)
Timer == Sweep \/ ReviewSweep

Next ==
    \/ Step \/ Timer \/ User \/ Leave \/ Sit
    \/ Git \/ Delivered \/ Crash \/ Boot
    \/ \E r \in Runs : Life(r) \/ Harvest(r) \/ Overdue(r) \/ SendReview(r)

Spec == Init /\ [][Next]_vars

\* Every callback that is due gets its turn, whatever else the event loop is
\* given to do; a boot follows a crash; workers, git and clocks do not stop.
FairSpec ==
    /\ Spec
    /\ WF_vars(Step) /\ WF_vars(Sweep) /\ WF_vars(ReviewSweep)
    /\ WF_vars(Sit) /\ WF_vars(Boot) /\ WF_vars(Git) /\ WF_vars(Delivered)
    /\ \A r \in Runs : /\ WF_vars(Life(r)) /\ WF_vars(Harvest(r))
                       /\ WF_vars(Overdue(r)) /\ WF_vars(SendReview(r))

-----------------------------------------------------------------------------
(* Properties                                                              *)

Status == {"none", "queued", "running"} \cup Terminal
Judgement == {"none", "pending", "pass", "fail", "error"}
RunRow == [status : Status, goal : BOOLEAN, spawned : BOOLEAN, retry : Nat,
           acc : {"none", "pass", "fail"}, judge : Judgement, late : BOOLEAN,
           verdict : Verdicts \cup {"none"},
           fingerprint : [shape : Status \cup {"pass", "fail"}, judge : BOOLEAN],
           child : 0..MaxRuns, reviewed : BOOLEAN, heard : Judgement]
Calls == [op : {"settle", "dispatch", "sent", "sentEnd", "reconcile", "review",
                "mark"}, runs : (SUBSET Runs) \ {{}}]
Ops == Calls \cup [op : {"sync", "rescan", "deliver"}, runs : {{0}}]

TypeOK ==
    /\ run \in [Runs -> RunRow]
    /\ task \in [status : {"todo", "in_progress", "review", "failed", "done"},
                delivery : [state : {"none", "delivering", "delivered", "failed"},
                            run : 0..MaxRuns]]
    /\ effect \in [Runs -> [Effects -> {"none", "pending", "sent"}]]
    /\ branch \in 0..MaxRuns
    /\ up \in BOOLEAN /\ seated \in BOOLEAN
    /\ todo \in Seq(Ops)
    /\ harvest \in [Runs -> {"none", "checks", "cleanup", "judge"}]
    /\ inflight \subseteq Runs
    /\ count \in Nat
    /\ promote \in [run : 0..MaxRuns, stage : {"none", "asked", "moved", "refused"}]
    /\ emitted \in [Runs -> [Effects -> Nat]]
    /\ told \in [Runs -> Nat]
    /\ budget \in [{"executes", "edits", "refusals", "crashes"} -> Nat]

\* A `retry' always has its one child, whatever crash or sweep came between,
\* and a lineage never has more attempts than the task's budget.
OneLineage ==
    \A r \in Rows :
        /\ run[r].retry < Budget
        /\ run[r].verdict = "retry" <=> run[r].child # 0
        /\ run[r].child # 0 => /\ run[run[r].child].retry = run[r].retry + 1
                               /\ run[run[r].child].status # "none"
        /\ \A q \in Rows : run[q].child # 0 /\ run[q].child = run[r].child => q = r

\* A verdict that was given after the judge had been asked agrees for ever with
\* the judge's record: the answer of a judge that was written off is not kept.
JudgeIsHeeded ==
    \A r \in Runs : run[r].heard # "none" => /\ run[r].heard # "pending"
                                             /\ run[r].judge = run[r].heard

\* An effect is emitted, and a review handed over, a second time only because
\* of a crash between the act and its mark.
RepeatsNeedCrash ==
    \A r \in Runs : /\ \A e \in Effects : emitted[r][e] <= 1 + budget.crashes
                    /\ told[r] <= 1 + budget.crashes

\* palantir/goal/<task> only ever points at an attempt that passed to Gate 2,
\* and at the one that the task's record calls delivered.
DeliveredIsAccepted ==
    /\ branch # 0 => run[branch].verdict = "gate2"
    /\ task.delivery.state = "delivered" => branch = task.delivery.run

\* Every attempt that ends is settled, its effects reach the bus, and Gate 2
\* is asked unless the circuit breaker is open; no crash loses any of it.
Concluded(r) ==
    /\ run[r].verdict # "none"
    /\ \A e \in EffectsOf(run[r].verdict) : emitted[r][e] > 0
    /\ run[r].verdict = "retry" \/ told[r] > 0 \/ count >= ReviewMax
GoalsProgress == \A r \in Runs : Settleable(r) ~> Concluded(r)

\* The status of the task comes to follow its newest attempt, and does not
\* swing back to an older one, unless a human has closed the task.
Agrees == Tip # 0 => task.status \in {Synced(Tip), "done"}
TaskFollowsTip == <>[]Agrees

-----------------------------------------------------------------------------
(* What the repository says, and the model refutes                         *)

\* The verdict on an attempt that the check was run for was given on that
\* check's result, which the harvest persists before it asks for a verdict.
VerdictSeesAcceptance ==
    \A r \in Runs : run[r].verdict # "none" /\ run[r].acc # "none"
                    => run[r].fingerprint.shape = run[r].acc
=============================================================================

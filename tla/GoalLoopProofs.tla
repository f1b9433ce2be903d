---------------------------- MODULE GoalLoopProofs ----------------------------
(***************************************************************************)
(* Theorems of GoalLoop: type correctness, the lineage of the attempts, the *)
(* judge's record, repeated effects and reviews, and the delivered branch.  *)
(***************************************************************************)
EXTENDS GoalLoop, SequenceTheorems, WellFoundedInduction, TLAPS

-----------------------------------------------------------------------------
(* The invariant                                                           *)

\* The steps that record an emission or a review come next, or after the review
\* that the emission asks for.
Marks == {"sent", "sentEnd", "mark"}
MarksComeNext ==
    \A i \in 1 .. Len(todo) : todo[i].op \in Marks =>
        /\ i = 1 \/ (i = 2 /\ todo[1].op = "review" /\ todo[2].op = "sent")
        /\ \E r \in Runs : todo[i].runs = {r}

HandOf(s, name) == {r \in Runs : \E i \in 1 .. Len(s) :
                                     s[i].op = name /\ r \in s[i].runs}
InHand(name) == HandOf(todo, name)
MarkOf(e) == IF e = "verdict" THEN "sent" ELSE "sentEnd"

\* A server that is down has nothing to do.
DownIsIdle == up \/ todo = <<>>

\* A row that is not there has nothing, and only a settled attempt has effects.
RowsAreBorn ==
    \A r \in Runs :
        /\ run[r].status = "none" => run[r] = Unborn
        /\ run[r].verdict = "none" =>
              \A e \in Effects : effect[r][e] = "none" /\ r \notin InHand(MarkOf(e))

\* One act more than crashes: the one that is marked, or about to be.
ActsAreMarked ==
    \A r \in Runs :
        /\ \A e \in Effects : emitted[r][e] <= budget.crashes +
              IF effect[r][e] = "sent" \/ r \in InHand(MarkOf(e)) THEN 1 ELSE 0
        /\ told[r] <= budget.crashes +
              IF run[r].reviewed \/ r \in InHand("mark") THEN 1 ELSE 0

\* A claimed review is of a settled attempt, unmarked until the mark is due.
ReviewsAreClaimed ==
    /\ \A r \in inflight : /\ run[r].verdict # "none"
                           /\ run[r].reviewed => r \in InHand("mark")
    /\ InHand("mark") \subseteq inflight

\* The delivery under way is of an accepted attempt, and the record's.
PromotesTheClaimed ==
    promote.stage # "none" =>
        /\ promote.run \in Runs /\ run[promote.run].verdict = "gate2"
        /\ task.delivery = [state |-> "delivering", run |-> promote.run]
        /\ promote.stage = "moved" => branch = promote.run

Lineage == \A r \in Runs :
    /\ run[r].retry < Budget
    /\ run[r].verdict = "retry" <=> run[r].child # 0
    /\ run[r].child # 0 => /\ run[run[r].child].retry = run[r].retry + 1
                           /\ run[run[r].child].status # "none"
    /\ \A q \in Runs : run[q].child # 0 /\ run[q].child = run[r].child => q = r

Inv == /\ TypeOK /\ RowsAreBorn /\ Lineage /\ JudgeIsHeeded
       /\ DownIsIdle /\ MarksComeNext /\ ActsAreMarked /\ ReviewsAreClaimed
       /\ PromotesTheClaimed /\ DeliveredIsAccepted

-----------------------------------------------------------------------------
(* The least and the greatest of a set of runs                             *)

LEMMA LowestIsLeast ==
  ASSUME NEW S \in SUBSET Nat, S # {}
  PROVE  Lowest(S) \in S /\ \A q \in S : Lowest(S) <= q
<1>1. PICK x \in S : \A y \in S : ~ (<<y, x>> \in OpToRel(<, Nat))
  BY NatLessThanWellFounded, WFMin
<1>2. \A y \in S : x <= y
  <2> SUFFICES ASSUME NEW y \in S PROVE x <= y
    OBVIOUS
  <2>1. x \in Nat /\ y \in Nat
    OBVIOUS
  <2>2. ~ (y < x)
    BY <1>1, <2>1 DEF OpToRel
  <2> QED BY <2>1, <2>2
<1> QED BY <1>2 DEF Lowest

LEMMA RunNumbers ==
  /\ MaxRuns \in Nat /\ Budget \in Nat /\ Budget > 0 /\ ReviewMax \in Nat
  /\ \A r \in Runs : r \in Nat /\ r # 0 /\ r <= MaxRuns /\ r \in 0 .. MaxRuns
  /\ \A r \in 0 .. MaxRuns : r \in Nat /\ (r # 0 => r \in Runs)
  /\ 0 \in 0 .. MaxRuns
<1>1. /\ MaxRuns \in Nat \ {0} /\ Budget \in Nat \ {0} /\ ReviewMax \in Nat
  BY GoalAssumption
<1> QED BY <1>1 DEF Runs

LEMMA HighestIsGreatest ==
  ASSUME NEW S \in SUBSET Runs, S # {}
  PROVE  Highest(S) \in S /\ \A q \in S : q <= Highest(S)
<1> DEFINE T == {MaxRuns - r : r \in S}
<1>1. T \in SUBSET Nat /\ T # {} /\ MaxRuns \in Nat
  BY RunNumbers
<1>2. Lowest(T) \in T /\ \A q \in T : Lowest(T) <= q
  <2> HIDE DEF T
  <2> QED BY <1>1, LowestIsLeast
<1>3. PICK r \in S : Lowest(T) = MaxRuns - r
  BY <1>2
<1>4. ASSUME NEW q \in S PROVE q <= r
  <2>1. MaxRuns - r <= MaxRuns - q
    BY <1>2, <1>3
  <2> QED BY <2>1, RunNumbers
<1> QED BY <1>4 DEF Highest

LEMMA TipIsARun == Tip \in 0 .. MaxRuns /\ (Tip # 0 => Tip \in Attempts)
<1>1. Attempts \in SUBSET Runs
  BY DEF Attempts, Rows
<1>2. CASE Attempts = {}
  BY <1>2, RunNumbers DEF Tip
<1>3. CASE Attempts # {}
  <2>1. Tip = Highest(Attempts) /\ Tip \in Attempts
    BY <1>1, <1>3, HighestIsGreatest DEF Tip
  <2> QED BY <1>1, <2>1, RunNumbers
<1> QED BY <1>2, <1>3

-----------------------------------------------------------------------------
(* The steps of the event loop                                             *)

Named == {"settle", "dispatch", "sent", "sentEnd", "reconcile", "review", "mark"}

LEMMA OpTypes ==
  /\ \A name \in {"sync", "rescan", "deliver"} : Op(name) \in Ops
  /\ \A name \in Named, r \in Runs : On(name, r) \in Ops
  /\ \A name \in Named, S \in SUBSET Runs : Each(name, S) \in Seq(Ops)
<1>1. \A name \in {"sync", "rescan", "deliver"} : Op(name) \in Ops
  BY DEF Op, Ops
<1>2. ASSUME NEW name \in Named, NEW S \in SUBSET Runs, S # {}
      PROVE  [op |-> name, runs |-> S] \in Ops
  <2>1. [op |-> name, runs |-> S] \in Calls
    <3>1. S \in (SUBSET Runs) \ {{}}
      BY <1>2
    <3> QED BY <3>1 DEF Calls, Named
  <2> QED BY <2>1 DEF Ops
<1>3. \A name \in Named, r \in Runs : On(name, r) \in Ops
  BY <1>2 DEF On
<1>4. ASSUME NEW name \in Named, NEW S \in SUBSET Runs
      PROVE  Each(name, S) \in Seq(Ops)
  <2>1. CASE S = {}
    BY <2>1 DEF Each
  <2>2. CASE S # {}
    BY <2>2, <1>2 DEF Each
  <2> QED BY <2>1, <2>2
<1> QED BY <1>1, <1>3, <1>4

LEMMA OpFields ==
  ASSUME NEW o \in Ops
  PROVE  /\ o.op \in Named => o.runs \in SUBSET Runs /\ o.runs # {}
         /\ o.op \notin Named => o.runs = {0}
         /\ o.op \in Named \cup {"sync", "rescan", "deliver"}
<1>1. CASE o \in Calls
  <2>1. o.op \in Named
    BY <1>1 DEF Calls, Named
  <2>2. o.runs \in (SUBSET Runs) \ {{}}
    BY <1>1 DEF Calls
  <2> QED BY <2>1, <2>2
<1>2. CASE o \in [op : {"sync", "rescan", "deliver"}, runs : {{0}}]
  <2>1. o.op \in {"sync", "rescan", "deliver"} /\ o.runs = {0}
    BY <1>2
  <2> QED BY <2>1 DEF Named
<1> QED BY <1>1, <1>2 DEF Ops

LEMMA HeadTypes ==
  ASSUME todo \in Seq(Ops), todo # <<>>
  PROVE  /\ Head(todo) \in Ops /\ Head(todo) = todo[1] /\ Len(todo) \in Nat \ {0}
         /\ Subject \in Head(todo).runs /\ Subject \in 0 .. MaxRuns
         /\ Head(todo).op \in Named => Subject \in Runs /\ Head(todo).runs \in SUBSET Runs
         /\ Head(todo).op \notin Named => Head(todo).runs = {0}
         /\ Tail(todo) \in Seq(Ops)
<1>1. Head(todo) \in Ops /\ Tail(todo) \in Seq(Ops) /\ Head(todo) = todo[1]
      /\ Len(todo) \in Nat \ {0}
  BY HeadTailProperties, EmptySeq
<1>2. Head(todo).runs \in SUBSET Nat /\ Head(todo).runs \in SUBSET (0 .. MaxRuns)
      /\ Head(todo).runs # {}
  BY <1>1, OpFields, RunNumbers
<1>3. Subject \in Head(todo).runs
  BY <1>2, LowestIsLeast DEF Subject
<1> QED BY <1>1, <1>2, <1>3, OpFields

LEMMA RestTypes ==
  ASSUME todo \in Seq(Ops), todo # <<>>
  PROVE  Rest \in Seq(Ops)
<1>1. Tail(todo) \in Seq(Ops)
  BY HeadTypes
<1>2. Each(Head(todo).op, Head(todo).runs \ {Subject}) \in Seq(Ops)
  <2>1. CASE Head(todo).op \in Named
    BY <2>1, HeadTypes, OpTypes
  <2>2. CASE Head(todo).op \notin Named
    <3>1. Head(todo).runs \ {Subject} = {}
      BY <2>2, HeadTypes
    <3> QED BY <3>1 DEF Each
  <2> QED BY <2>1, <2>2
<1> QED BY <1>1, <1>2, ConcatProperties DEF Rest

\* What a callback does next leaves a sequence of steps.
LEMMA DoingTypes ==
  ASSUME TypeOK, NEW name, Doing(name)
  PROVE  /\ up /\ todo # <<>> /\ Head(todo).op = name
         /\ Subject \in 0 .. MaxRuns
         /\ name \in Named => Subject \in Runs
         /\ Return => todo' \in Seq(Ops)
         /\ \A steps \in Seq(Ops) : Next1(steps) => todo' \in Seq(Ops)
<1>1. todo \in Seq(Ops) /\ todo # <<>> /\ Head(todo).op = name /\ up
  BY DEF TypeOK, Doing
<1>2. Rest \in Seq(Ops)
  BY <1>1, RestTypes
<1>3. \A steps \in Seq(Ops) : steps \o Rest \in Seq(Ops)
  BY <1>2, ConcatProperties
<1> QED BY <1>1, <1>2, <1>3, HeadTypes DEF Return, Next1

LEMMA ReconciledTypes ==
  ASSUME NEW r \in Runs
  PROVE  Reconciled(r) \in Seq(Ops) /\ <<Op("sync")>> \in Seq(Ops)
<1>1. Op("sync") \in Ops /\ On("dispatch", r) \in Ops
  BY OpTypes DEF Named
<1> QED BY <1>1 DEF Reconciled

-----------------------------------------------------------------------------
(* Types                                                                   *)

LEMMA FieldEdits ==
  ASSUME NEW c \in RunRow
  PROVE  /\ \A s \in Status : [c EXCEPT !.status = s] \in RunRow
         /\ \A b \in BOOLEAN : /\ [c EXCEPT !.goal = b] \in RunRow
                               /\ [c EXCEPT !.spawned = b] \in RunRow
                               /\ [c EXCEPT !.late = b] \in RunRow
                               /\ [c EXCEPT !.reviewed = b] \in RunRow
         /\ \A n \in Nat : [c EXCEPT !.retry = n] \in RunRow
         /\ \A a \in {"none", "pass", "fail"} : [c EXCEPT !.acc = a] \in RunRow
         /\ \A j \in Judgement : /\ [c EXCEPT !.judge = j] \in RunRow
                                 /\ [c EXCEPT !.heard = j] \in RunRow
         /\ \A v \in Verdicts \cup {"none"} : [c EXCEPT !.verdict = v] \in RunRow
         /\ \A f \in [shape : Status \cup {"pass", "fail"}, judge : BOOLEAN] :
               [c EXCEPT !.fingerprint = f] \in RunRow
         /\ \A k \in 0 .. MaxRuns : [c EXCEPT !.child = k] \in RunRow
  BY DEF RunRow

LEMMA UnbornType == Unborn \in RunRow
  BY RunNumbers DEF Unborn, RunRow, NoFingerprint, Status, Judgement

LEMMA RowTypes ==
  ASSUME TypeOK, NEW r \in Runs
  PROVE  /\ run[r] \in RunRow
         /\ Fingerprint(r) \in [shape : Status \cup {"pass", "fail"}, judge : BOOLEAN]
         /\ Child(r) \in RunRow
<1>1. run[r] \in RunRow
  BY DEF TypeOK
<1>2. Fingerprint(r) \in [shape : Status \cup {"pass", "fail"}, judge : BOOLEAN]
  BY <1>1 DEF Fingerprint, RunRow
<1>3. Child(r) \in RunRow
  <2> DEFINE c1 == [Unborn EXCEPT !.status = "queued"]
             c2 == [c1 EXCEPT !.goal = TRUE]
             c3 == [c2 EXCEPT !.retry = run[r].retry + 1]
  <2>1. c1 \in RunRow
    BY UnbornType, FieldEdits DEF Status
  <2>2. c2 \in RunRow
    BY <2>1, FieldEdits
  <2>3. c3 \in RunRow
    <3>1. run[r].retry + 1 \in Nat
      BY <1>1 DEF RunRow
    <3> HIDE DEF c2
    <3> QED BY <2>2, <3>1, FieldEdits
  <2> QED BY <2>3 DEF Child
<1> QED BY <1>1, <1>2, <1>3

LEMMA DecisionTypes ==
  ASSUME NEW r, NEW repeat
  PROVE  Decision(r, repeat) \in {"retry", "gate2", "exhausted", "error"}
  BY DEF Decision

LEMMA FreeTypes ==
  ASSUME Free # {}
  PROVE  Lowest(Free) \in Runs /\ run[Lowest(Free)].status = "none"
         /\ Lowest(Free) \in 0 .. MaxRuns /\ Lowest(Free) # 0
<1>1. Free \in SUBSET Nat /\ Free \in SUBSET Runs
  BY RunNumbers DEF Free
<1>2. Lowest(Free) \in Free
  BY <1>1, LowestIsLeast
<1> QED BY <1>1, <1>2, RunNumbers DEF Free

LEMMA PersistedTypes ==
  ASSUME TypeOK, NEW r \in Runs, NEW verdict \in Verdicts,
         verdict = "retry" => Free # {}, Persisted(r, verdict)
  PROVE  /\ run' \in [Runs -> RunRow]
         /\ effect' \in [Runs -> [Effects -> {"none", "pending", "sent"}]]
<1> DEFINE child == IF verdict = "retry" THEN Lowest(Free) ELSE 0
           c1 == [run[r] EXCEPT !.verdict = verdict]
           c2 == [c1 EXCEPT !.fingerprint = Fingerprint(r)]
           c3 == [c2 EXCEPT !.child = child]
           c4 == [c3 EXCEPT !.heard = run[r].judge]
<1>1. child \in 0 .. MaxRuns
  BY FreeTypes, RunNumbers
<1>2. c1 \in RunRow /\ run[r].judge \in Judgement
  <2>1. run[r] \in RunRow /\ run[r].judge \in Judgement
    BY RowTypes DEF RunRow
  <2> QED BY <2>1, FieldEdits DEF Verdicts
<1>3. c2 \in RunRow
  <2> HIDE DEF c1
  <2> QED BY <1>2, RowTypes, FieldEdits
<1>4. c3 \in RunRow
  <2> HIDE DEF c2, child
  <2> QED BY <1>1, <1>3, FieldEdits
<1>5. c4 \in RunRow
  <2> HIDE DEF c3
  <2> QED BY <1>2, <1>4, FieldEdits
<1>6. run' = [q \in Runs |-> IF q = r THEN c4
                             ELSE IF q = child THEN Child(r) ELSE run[q]]
  BY DEF Persisted
<1>7. run' \in [Runs -> RunRow]
  <2> HIDE DEF c4, child
  <2> QED BY <1>5, <1>6, RowTypes
<1>8. effect' \in [Runs -> [Effects -> {"none", "pending", "sent"}]]
  BY DEF TypeOK, Persisted
<1> QED BY <1>7, <1>8

TaskStatus == {"todo", "in_progress", "review", "failed", "done"}
Delivery == [state : {"none", "delivering", "delivered", "failed"}, run : 0 .. MaxRuns]
Task == [status : TaskStatus, delivery : Delivery]
Promote == [run : 0 .. MaxRuns, stage : {"none", "asked", "moved", "refused"}]
Counters == {"executes", "edits", "refusals", "crashes"}

LEMMA TaskEdits ==
  ASSUME task \in Task
  PROVE  /\ task.status \in TaskStatus /\ task.delivery \in Delivery
         /\ \A s \in TaskStatus : [task EXCEPT !.status = s] \in Task
         /\ \A d \in Delivery : [task EXCEPT !.delivery = d] \in Task
         /\ \A s \in {"delivered", "failed"} :
               [task EXCEPT !.delivery.state = s] \in Task
  BY DEF Task, Delivery

LEMMA DueTypes ==
  ASSUME TypeOK
  PROVE  StatusDue \in TaskStatus
<1>1. task.status \in TaskStatus
  BY TaskEdits DEF TypeOK, Task, TaskStatus, Delivery
<1>2. Aggregate \in TaskStatus
  BY <1>1 DEF Aggregate, TaskStatus
<1>3. ASSUME Tip # 0 PROVE Synced(Tip) \in TaskStatus
  <2>1. Tip \in Runs
    BY <1>3, TipIsARun, RunNumbers
  <2>2. run[Tip].verdict \in Verdicts \cup {"none"}
    BY <2>1, RowTypes DEF RunRow
  <2>3. \A v \in Verdicts : Target(v) \in TaskStatus
    BY DEF Verdicts, Target, TaskStatus
  <2> QED BY <1>1, <2>2, <2>3 DEF Synced, TaskStatus
<1> QED BY <1>2, <1>3 DEF StatusDue

LEMMA CounterTypes ==
  ASSUME budget \in [{"executes", "edits", "refusals", "crashes"} -> Nat],
         NEW c \in {"executes", "edits", "refusals", "crashes"}
  PROVE  [budget EXCEPT ![c] = @ + 1]
            \in [{"executes", "edits", "refusals", "crashes"} -> Nat]
  OBVIOUS

LEMMA ActTypes ==
  ASSUME TypeOK, NEW r \in Runs
  PROVE  /\ emitted \in [Runs -> [Effects -> Nat]] /\ told \in [Runs -> Nat]
         /\ \A e \in Effects : [emitted EXCEPT ![r][e] = @ + 1] \in [Runs -> [Effects -> Nat]]
         /\ [told EXCEPT ![r] = @ + 1] \in [Runs -> Nat]
<1>1. emitted \in [Runs -> [Effects -> Nat]] /\ told \in [Runs -> Nat]
  BY DEF TypeOK
<1> QED BY <1>1

LEMMA RowEdit ==
  ASSUME TypeOK, NEW r \in Runs, NEW c \in RunRow
  PROVE  run \in [Runs -> RunRow] /\ [run EXCEPT ![r] = c] \in [Runs -> RunRow]
<1>1. run \in [Runs -> RunRow]
  BY DEF TypeOK
<1> QED BY <1>1

LEMMA InitTypes == Init => TypeOK
<1> SUFFICES ASSUME Init PROVE TypeOK
  OBVIOUS
<1>1. run \in [Runs -> RunRow]
  BY UnbornType DEF Init
<1>2. /\ task \in [status : {"todo", "in_progress", "review", "failed", "done"},
                delivery : [state : {"none", "delivering", "delivered", "failed"},
                            run : 0..MaxRuns]]
      /\ promote \in [run : 0..MaxRuns, stage : {"none", "asked", "moved", "refused"}]
      /\ branch \in 0 .. MaxRuns
  BY RunNumbers DEF Init, NoGit
<1>3. /\ effect \in [Runs -> [Effects -> {"none", "pending", "sent"}]]
      /\ emitted \in [Runs -> [Effects -> Nat]] /\ told \in [Runs -> Nat]
      /\ harvest \in [Runs -> {"none", "checks", "cleanup", "judge"}]
      /\ inflight \subseteq Runs /\ count \in Nat /\ todo \in Seq(Ops)
      /\ up \in BOOLEAN /\ seated \in BOOLEAN
  BY DEF Init
<1>4. budget \in [{"executes", "edits", "refusals", "crashes"} -> Nat]
  BY DEF Init
<1> QED BY <1>1, <1>2, <1>3, <1>4 DEF TypeOK

LEMMA SettleTypes ==
  ASSUME TypeOK, Settle
  PROVE  TypeOK'
<1> USE DEF TypeOK
<1>1. Subject \in Runs /\ run[Subject] \in RunRow
  BY DoingTypes, RowTypes DEF Settle, Named
<1>2. todo' \in Seq(Ops)
  <2>1. \/ \E steps \in Seq(Ops) : Next1(steps)
        \/ Return
        \/ UNCHANGED todo
    BY <1>1, ReconciledTypes DEF Settle
  <2> QED BY <2>1, DoingTypes DEF Settle
<1>3. run' \in [Runs -> RunRow]
      /\ effect' \in [Runs -> [Effects -> {"none", "pending", "sent"}]]
  <2>1. [run[Subject] EXCEPT !.judge = "error"] \in RunRow
    BY <1>1, FieldEdits DEF Judgement
  <2>2. CASE \E verdict \in Verdicts :
                /\ verdict = "retry" => Free # {}
                /\ Persisted(Subject, verdict)
    BY <2>2, <1>1, PersistedTypes
  <2>3. CASE run' = [run EXCEPT ![Subject] = [run[Subject] EXCEPT !.judge = "error"]]
             /\ effect' = effect
    BY <2>1, <2>3
  <2>4. CASE UNCHANGED <<run, effect>>
    BY <2>4
  <2>5. \A repeat : Decision(Subject, repeat) \in Verdicts
    BY DecisionTypes DEF Verdicts
  <2> QED BY <2>2, <2>3, <2>4, <2>5 DEF Settle, db
<1>4. task' = task
  BY DEF Settle, db
<1> QED BY <1>2, <1>3, <1>4 DEF Settle

LEMMA StepTypes ==
  ASSUME TypeOK, Step
  PROVE  TypeOK'
<1> USE DEF TypeOK
<1>1. CASE Settle
  BY <1>1, SettleTypes
<1>2. CASE Sync
  <2>1. todo' \in Seq(Ops)
    BY <1>2, DoingTypes DEF Sync
  <2>2. task' \in Task
    BY <1>2, DueTypes, TaskEdits DEF Sync, Task, TaskStatus, Delivery
  <2> QED BY <1>2, <2>1, <2>2 DEF Sync, Task, TaskStatus, Delivery
<1>3. CASE Dispatch
  <2>1. Subject \in Runs
    BY <1>3, DoingTypes DEF Dispatch, Named
  <2>2. /\ <<On("review", Subject), On("sent", Subject), On("dispatch", Subject)>>
              \in Seq(Ops)
        /\ <<On("sentEnd", Subject)>> \in Seq(Ops)
    <3>1. \A name \in Named : On(name, Subject) \in Ops
      BY <2>1, OpTypes
    <3>2. /\ On("review", Subject) \in Ops /\ On("sent", Subject) \in Ops
          /\ On("dispatch", Subject) \in Ops /\ On("sentEnd", Subject) \in Ops
      BY <3>1 DEF Named
    <3> QED BY <3>2
  <2>3. todo' \in Seq(Ops)
    <3>1. Return \/ \E steps \in Seq(Ops) : Next1(steps)
      BY <1>3, <2>2 DEF Dispatch, Emitted
    <3> QED BY <1>3, <3>1, DoingTypes DEF Dispatch
  <2>4. emitted' \in [Runs -> [Effects -> Nat]]
    <3>1. \/ emitted' = emitted
          \/ \E e \in Effects : emitted' = [emitted EXCEPT ![Subject][e] = @ + 1]
      BY <1>3 DEF Dispatch, Emitted, Effects
    <3> HIDE DEF TypeOK
    <3> QED BY <2>1, <3>1, ActTypes
  <2> QED BY <1>3, <2>3, <2>4 DEF Dispatch, db
<1>4. ASSUME NEW name, NEW e, Sent(name, e) PROVE TypeOK'
  <2>1. todo' \in Seq(Ops)
    BY <1>4, DoingTypes DEF Sent
  <2>2. effect' \in [Runs -> [Effects -> {"none", "pending", "sent"}]]
    BY <1>4 DEF Sent
  <2> QED BY <1>4, <2>1, <2>2 DEF Sent
<1>5. CASE Rescan
  <2>1. Each("reconcile", Verdicted) \in Seq(Ops)
    <3>1. Verdicted \in SUBSET Runs
      BY DEF Verdicted, Attempts, Rows
    <3> QED BY <3>1, OpTypes DEF Named
  <2>2. todo' \in Seq(Ops)
    BY <1>5, <2>1, DoingTypes DEF Rescan
  <2> QED BY <1>5, <2>2 DEF Rescan, db
<1>6. CASE Reconcile
  <2>1. Subject \in Runs
    BY <1>6, DoingTypes DEF Reconcile, Named
  <2>2. \E steps \in Seq(Ops) : Next1(steps)
    <3>1. <<>> \in Seq(Ops)
      OBVIOUS
    <3> QED BY <1>6, <2>1, <3>1, ReconciledTypes DEF Reconcile
  <2>3. todo' \in Seq(Ops)
    BY <1>6, <2>2, DoingTypes DEF Reconcile
  <2> QED BY <1>6, <2>3 DEF Reconcile, db
<1>7. CASE Review
  <2>1. Subject \in Runs /\ todo' \in Seq(Ops)
    BY <1>7, DoingTypes DEF Review, Named
  <2>2. inflight' \subseteq Runs /\ count' \in Nat
    BY <1>7, <2>1 DEF Review
  <2> QED BY <1>7, <2>1, <2>2 DEF Review, db
<1>8. CASE MarkReviewed
  <2>1. Subject \in Runs /\ todo' \in Seq(Ops)
    BY <1>8, DoingTypes DEF MarkReviewed, Named
  <2>2. run' \in [Runs -> RunRow]
    <3>1. [run[Subject] EXCEPT !.reviewed = TRUE] \in RunRow
      BY <2>1, RowTypes, FieldEdits
    <3> QED BY <1>8, <3>1 DEF MarkReviewed
  <2> QED BY <1>8, <2>1, <2>2 DEF MarkReviewed
<1>9. CASE Deliver
  <2>1. todo' \in Seq(Ops)
    BY <1>9, DoingTypes DEF Deliver
  <2>2. Tip \in 0 .. MaxRuns
    BY TipIsARun
  <2>3. task' \in Task
    BY <1>9, <2>2, TaskEdits DEF Deliver, Task, TaskStatus, Delivery
  <2>4. promote' \in Promote
    BY <1>9, <2>2 DEF Deliver, Promote
  <2> QED BY <1>9, <2>1, <2>3, <2>4 DEF Deliver, Task, TaskStatus, Delivery, Promote
<1> QED BY <1>1, <1>2, <1>3, <1>4, <1>5, <1>6, <1>7, <1>8, <1>9 DEF Step, MarkSent

LEMMA NextTypes ==
  ASSUME TypeOK, [Next]_vars
  PROVE  TypeOK'
<1> USE DEF TypeOK
<1>s. /\ Unverdicted \in SUBSET Runs /\ Unreviewed \in SUBSET Runs
  BY DEF Unverdicted, Unreviewed, Attempts, Rows
<1>w. Each("settle", Unverdicted) \o <<Op("rescan")>> \in Seq(Ops)
  <2>1. Each("settle", Unverdicted) \in Seq(Ops) /\ <<Op("rescan")>> \in Seq(Ops)
    BY <1>s, OpTypes DEF Named
  <2> QED BY <2>1, ConcatProperties
<1>o. /\ <<Op("deliver")>> \in Seq(Ops) /\ <<Op("sync")>> \in Seq(Ops)
      /\ <<>> \in Seq(Ops)
      /\ \A r \in Runs : <<On("settle", r)>> \in Seq(Ops) /\ <<On("mark", r)>> \in Seq(Ops)
  BY OpTypes DEF Named
<1>u. CASE UNCHANGED vars
  BY <1>u DEF vars, db, memory
<1>1. CASE Step
  BY <1>1, StepTypes
<1>2. CASE Timer
  <2>1. todo' \in Seq(Ops)
    <3>1. Each("review", Unreviewed) \in Seq(Ops)
      BY <1>s, OpTypes DEF Named
    <3> QED BY <1>2, <1>w, <3>1 DEF Timer, Sweep, ReviewSweep
  <2> QED BY <1>2, <2>1 DEF Timer, Sweep, ReviewSweep, db
<1>3. CASE Execute
  <2>1. [Unborn EXCEPT !.status = "queued"] \in RunRow
    BY UnbornType, FieldEdits DEF Status
  <2>2. run' \in [Runs -> RunRow]
    BY <1>3, <2>1 DEF Execute
  <2>3. budget' \in [{"executes", "edits", "refusals", "crashes"} -> Nat]
    BY <1>3, CounterTypes DEF Execute
  <2> QED BY <1>3, <2>2, <2>3 DEF Execute, memory
<1>4. ASSUME NEW s \in {"done", "todo"}, Edit(s) PROVE TypeOK'
  <2>1. task' \in Task
    BY <1>4, TaskEdits DEF Edit, Task, TaskStatus, Delivery
  <2>2. todo' \in Seq(Ops)
    BY <1>4, <1>o DEF Edit
  <2>3. budget' \in [{"executes", "edits", "refusals", "crashes"} -> Nat]
    BY <1>4, CounterTypes DEF Edit
  <2> QED BY <1>4, <2>1, <2>2, <2>3 DEF Edit, Task, TaskStatus, Delivery
<1>5. CASE Redeliver
  <2>1. todo' \in Seq(Ops)
    BY <1>5, <1>o DEF Redeliver
  <2> QED BY <1>5, <2>1 DEF Redeliver, db
<1>6. CASE Leave
  <2>1. budget' \in [{"executes", "edits", "refusals", "crashes"} -> Nat]
    BY <1>6, CounterTypes DEF Leave
  <2> QED BY <1>6, <2>1 DEF Leave, db
<1>7. CASE Sit
  BY <1>7 DEF Sit, db, memory
<1>8. CASE Git
  <2>1. budget' \in [{"executes", "edits", "refusals", "crashes"} -> Nat]
    BY <1>8, CounterTypes DEF Git
  <2>2. branch' \in 0 .. MaxRuns /\ promote' \in Promote
    BY <1>8 DEF Git, Promote
  <2> QED BY <1>8, <2>1, <2>2 DEF Git, db, Promote
<1>9. CASE Delivered
  <2>1. task' \in Task
    BY <1>9, TaskEdits DEF Delivered, Task, TaskStatus, Delivery
  <2>2. promote' \in Promote
    BY <1>9, RunNumbers DEF Delivered, NoGit, Promote
  <2> QED BY <1>9, <2>1, <2>2 DEF Delivered, Task, TaskStatus, Delivery, Promote
<1>10. CASE Crash
  <2>1. budget' \in [{"executes", "edits", "refusals", "crashes"} -> Nat]
    BY <1>10, CounterTypes DEF Crash
  <2>2. branch' \in 0 .. MaxRuns /\ promote' \in Promote
    BY <1>10, RunNumbers DEF Crash, NoGit, Promote
  <2>3. /\ todo' \in Seq(Ops) /\ inflight' \subseteq Runs /\ count' \in Nat
        /\ up' \in BOOLEAN /\ seated' \in BOOLEAN
        /\ harvest' \in [Runs -> {"none", "checks", "cleanup", "judge"}]
    BY <1>10, <1>o DEF Crash
  <2> QED BY <1>10, <2>1, <2>2, <2>3 DEF Crash, db, Promote
<1>11. CASE Boot
  BY <1>11, <1>w DEF Boot, db
<1>12. ASSUME NEW r \in Runs, Life(r) PROVE TypeOK'
  <2>r. run[r] \in RunRow /\ Op("sync") \in Ops
    BY RowTypes, OpTypes
  <2>1. CASE Spawn(r)
    <3> DEFINE c1 == [run[r] EXCEPT !.status = "running"]
               c2 == [c1 EXCEPT !.goal = TRUE]
               c3 == [c2 EXCEPT !.spawned = TRUE]
    <3>1. c1 \in RunRow
      BY <2>r, FieldEdits DEF Status
    <3>2. c2 \in RunRow
      <4> HIDE DEF c1
      <4> QED BY <3>1, FieldEdits
    <3>3. c3 \in RunRow
      <4> HIDE DEF c2
      <4> QED BY <3>2, FieldEdits
    <3>4. run' \in [Runs -> RunRow]
      <4>1. run' = [run EXCEPT ![r] = c3]
        BY <2>1 DEF Spawn
      <4> HIDE DEF c3
      <4> QED BY <3>3, <4>1
    <3>5. task' \in Task
      BY <2>1, TaskEdits DEF Spawn, Task, TaskStatus, Delivery
    <3> QED BY <2>1, <3>4, <3>5 DEF Spawn, memory, Task, TaskStatus, Delivery
  <2>2. ASSUME NEW s \in Terminal, End(r, s) PROVE TypeOK'
    <3>1. [run[r] EXCEPT !.status = s] \in RunRow
      BY <2>r, FieldEdits DEF Status
    <3>2. run' \in [Runs -> RunRow]
      BY <2>2, <3>1 DEF End
    <3>3. harvest' \in [Runs -> {"none", "checks", "cleanup", "judge"}]
      BY <2>2 DEF End
    <3> QED BY <2>2, <3>2, <3>3, <1>o DEF End
  <2> QED BY <1>12, <2>1, <2>2 DEF Life
<1>13. ASSUME NEW r \in Runs, Harvest(r) PROVE TypeOK'
  <2>r. run[r] \in RunRow
    BY RowTypes
  <2>1. ASSUME Harvested(r)
        PROVE  /\ todo' \in Seq(Ops)
               /\ harvest' \in [Runs -> {"none", "checks", "cleanup", "judge"}]
    BY <2>1, <1>o DEF Harvested
  <2>2. CASE Accept(r)
    <3>1. \A a \in {"pass", "fail"} : [run[r] EXCEPT !.acc = a] \in RunRow
      BY <2>r, FieldEdits
    <3>2. run' \in [Runs -> RunRow]
      <4>1. \/ run' = run
            \/ \E a \in {"pass", "fail"} :
                  run' = [run EXCEPT ![r] = [run[r] EXCEPT !.acc = a]]
        BY <2>2 DEF Accept
      <4> HIDE DEF TypeOK
      <4> QED BY <3>1, <4>1, RowEdit
    <3>3. harvest' \in [Runs -> {"none", "checks", "cleanup", "judge"}]
      BY <2>2 DEF Accept
    <3> QED BY <2>2, <3>2, <3>3 DEF Accept
  <2>3. CASE AskJudge(r)
    <3>1. [run[r] EXCEPT !.judge = "pending"] \in RunRow
      BY <2>r, FieldEdits DEF Judgement
    <3>2. run' \in [Runs -> RunRow]
      BY <2>3, <3>1 DEF AskJudge
    <3>3. /\ todo' \in Seq(Ops)
          /\ harvest' \in [Runs -> {"none", "checks", "cleanup", "judge"}]
      BY <2>1, <2>3 DEF AskJudge
    <3> QED BY <2>3, <3>2, <3>3 DEF AskJudge
  <2>4. CASE JudgeAnswers(r)
    <3>1. \A j \in {"pass", "fail", "error"} : [run[r] EXCEPT !.judge = j] \in RunRow
      BY <2>r, FieldEdits DEF Judgement
    <3>2. run' \in [Runs -> RunRow]
      <4>1. \/ run' = run
            \/ \E j \in {"pass", "fail", "error"} :
                  run' = [run EXCEPT ![r] = [run[r] EXCEPT !.judge = j]]
        BY <2>4 DEF JudgeAnswers, Finalized
      <4> HIDE DEF TypeOK
      <4> QED BY <3>1, <4>1, RowEdit
    <3>3. Harvested(r)
      BY <2>4 DEF JudgeAnswers
    <3> QED BY <2>4, <2>1, <3>2, <3>3 DEF JudgeAnswers
  <2> QED BY <1>13, <2>2, <2>3, <2>4 DEF Harvest
<1>14. ASSUME NEW r \in Runs, Overdue(r) PROVE TypeOK'
  <2>1. [run[r] EXCEPT !.late = TRUE] \in RunRow
    BY RowTypes, FieldEdits
  <2>2. run' \in [Runs -> RunRow]
    BY <1>14, <2>1 DEF Overdue
  <2> QED BY <1>14, <2>2 DEF Overdue, memory
<1>15. ASSUME NEW r \in Runs, SendReview(r) PROVE TypeOK'
  <2>1. todo' \in Seq(Ops)
    <3>1. todo' = todo \/ todo' = <<On("mark", r)>>
      BY <1>15 DEF SendReview
    <3>2. todo \in Seq(Ops) /\ <<On("mark", r)>> \in Seq(Ops)
      BY <1>o
    <3> HIDE DEF TypeOK
    <3> QED BY <3>1, <3>2
  <2>2. told' \in [Runs -> Nat] /\ inflight' \subseteq Runs
    <3>1. inflight' \subseteq Runs
      BY <1>15 DEF SendReview
    <3>2. told' = told \/ told' = [told EXCEPT ![r] = @ + 1]
      BY <1>15 DEF SendReview
    <3>3. told' \in [Runs -> Nat]
      <4> HIDE DEF TypeOK
      <4> QED BY <3>2, ActTypes
    <3> QED BY <3>1, <3>3
  <2>3. count' \in Nat
    BY <1>15 DEF SendReview, Uncounted
  <2> QED BY <1>15, <2>1, <2>2, <2>3 DEF SendReview, db
<1> QED BY <1>u, <1>1, <1>2, <1>3, <1>4, <1>5, <1>6, <1>7, <1>8, <1>9, <1>10, <1>11,
           <1>12, <1>13, <1>14, <1>15 DEF Next, User

-----------------------------------------------------------------------------
(* What a step may change in the rows                                      *)

\* The rows keep their lineage and what they were judged by.
RowsKeep ==
    \A r \in Runs :
      /\ run'[r].retry = run[r].retry /\ run'[r].child = run[r].child
      /\ run'[r].verdict = run[r].verdict /\ run'[r].heard = run[r].heard
      /\ run'[r].judge = run[r].judge \/ run[r].judge \in {"none", "pending"}
      /\ run[r].status = "none" => run'[r] = run[r]
      /\ run[r].status # "none" => run'[r].status # "none"
      /\ run[r].reviewed => run'[r].reviewed
      /\ run'[r].reviewed => run[r].reviewed \/ (Doing("mark") /\ r = Subject)

\* The transaction of a verdict.
SettlesNow(r) ==
    /\ Settleable(r) /\ ~JudgeDue(r) /\ ~JudgeOverdue(r)
    /\ \E repeat \in Repeats(r) :
          /\ Decision(r, repeat) = "retry" => Free # {}
          /\ Persisted(r, Decision(r, repeat))

LEMMA UnbornFields ==
  /\ Unborn.status = "none" /\ Unborn.judge = "none" /\ Unborn.verdict = "none"
  /\ Unborn.heard = "none" /\ Unborn.child = 0 /\ Unborn.retry = 0
  /\ Unborn.reviewed = FALSE
  BY DEF Unborn

LEMMA MarkedIsInHand ==
  ASSUME TypeOK, MarksComeNext, Doing("mark")
  PROVE  Subject \in InHand("mark")
<1>1. todo \in Seq(Ops) /\ todo # <<>> /\ Head(todo).op = "mark"
  BY DEF TypeOK, Doing
<1>2. /\ Head(todo) = todo[1] /\ Len(todo) \in Nat \ {0}
      /\ Subject \in Head(todo).runs /\ Subject \in Runs
  BY <1>1, HeadTypes DEF Named
<1> QED BY <1>1, <1>2 DEF InHand, HandOf

LEMMA StepKeepsRows ==
  ASSUME TypeOK, RowsAreBorn, MarksComeNext, ReviewsAreClaimed, [Next]_vars
  PROVE  \/ RowsKeep
         \/ Execute
         \/ \E r \in Runs : SettlesNow(r)
<1>t. run \in [Runs -> RunRow] /\ \A r \in Runs : run[r] \in RunRow
  BY DEF TypeOK
<1>b. \A r \in Runs : run[r].status = "none" =>
          run[r].judge = "none" /\ run[r].verdict = "none"
  BY UnbornFields DEF RowsAreBorn
<1>s. ASSUME run' = run PROVE RowsKeep
  BY <1>s DEF RowsKeep
<1>u. CASE UNCHANGED vars
  BY <1>u, <1>s DEF vars, db
<1>1. CASE Settle
  <2>1. Subject \in Runs
    BY <1>1, DoingTypes DEF Settle, Named
  <2>2. ASSUME Settleable(Subject), JudgeOverdue(Subject),
               run' = [run EXCEPT ![Subject].judge = "error"]
        PROVE  RowsKeep
    <3>1. run[Subject].status # "none" /\ run[Subject].judge = "pending"
      BY <2>2 DEF Settleable, JudgeOverdue
    <3> QED BY <2>1, <2>2, <3>1, <1>t DEF RowsKeep, RunRow
  <2>3. CASE UNCHANGED db
    BY <2>3, <1>s DEF db
  <2> QED BY <1>1, <2>1, <2>2, <2>3 DEF Settle, SettlesNow
<1>2. CASE MarkReviewed
  <2>1. Subject \in Runs
    BY <1>2, DoingTypes DEF MarkReviewed, Named
  <2>2. run[Subject].status # "none"
    BY <1>2, <1>b, <2>1, MarkedIsInHand DEF MarkReviewed, ReviewsAreClaimed
  <2>3. /\ run' = [run EXCEPT ![Subject] = [run[Subject] EXCEPT !.reviewed = TRUE]]
        /\ Doing("mark")
    BY <1>2 DEF MarkReviewed
  <2> QED BY <2>1, <2>2, <2>3, <1>t DEF RowsKeep, RunRow
<1>3. CASE \/ Sync \/ Dispatch \/ MarkSent \/ Rescan \/ Reconcile \/ Review \/ Deliver
           \/ Timer \/ Redeliver \/ \E s \in {"done", "todo"} : Edit(s)
           \/ Leave \/ Sit \/ Git \/ Delivered \/ Crash \/ Boot
           \/ \E r \in Runs : SendReview(r)
  <2>1. run' = run
    BY <1>3 DEF Sync, Dispatch, MarkSent, Sent, Rescan, Reconcile, Review, Deliver,
       Timer, Sweep, ReviewSweep, Redeliver, Edit, Leave, Sit, Git, Delivered, Crash,
       Boot, SendReview, db
  <2> QED BY <2>1, <1>s
<1>4. ASSUME NEW r \in Runs, NEW c \in RunRow, run' = [run EXCEPT ![r] = c],
             run[r].status # "none", c.status # "none",
             c.retry = run[r].retry, c.child = run[r].child,
             c.verdict = run[r].verdict, c.heard = run[r].heard,
             c.reviewed = run[r].reviewed,
             c.judge = run[r].judge \/ run[r].judge \in {"none", "pending"}
      PROVE  RowsKeep
  BY <1>4, <1>t DEF RowsKeep
<1>5. ASSUME NEW r \in Runs, Spawn(r) PROVE RowsKeep
  <2>1. run' = [run EXCEPT ![r] = [[[run[r] EXCEPT !.status = "running"]
                                 EXCEPT !.goal = TRUE] EXCEPT !.spawned = TRUE]]
    BY <1>5 DEF Spawn
  <2>2. run[r].status = "queued"
    BY <1>5 DEF Spawn
  <2> QED BY <2>1, <2>2, <1>t DEF RowsKeep, RunRow
<1>6. ASSUME NEW r \in Runs, NEW s \in Terminal, End(r, s) PROVE RowsKeep
  <2>1. run' = [run EXCEPT ![r] = [run[r] EXCEPT !.status = s]]
    BY <1>6 DEF End
  <2>2. run[r].status # "none" /\ s # "none"
    BY <1>6 DEF End, CanEnd, Terminal
  <2> QED BY <2>1, <2>2, <1>t DEF RowsKeep, RunRow
<1>7. ASSUME NEW r \in Runs, Accept(r) PROVE RowsKeep
  <2>1. ASSUME NEW a, run[r].status = "completed",
               run' = [run EXCEPT ![r] = [run[r] EXCEPT !.acc = a]]
        PROVE  RowsKeep
    BY <2>1, <1>t DEF RowsKeep, RunRow
  <2> QED BY <1>7, <2>1, <1>s DEF Accept
<1>8. ASSUME NEW r \in Runs, NEW j, run[r].judge \in {"none", "pending"},
             run[r].status # "none",
             run' = [run EXCEPT ![r] = [run[r] EXCEPT !.judge = j]]
      PROVE  RowsKeep
  BY <1>8, <1>t DEF RowsKeep, RunRow
<1>9. ASSUME NEW r \in Runs, AskJudge(r) PROVE RowsKeep
  <2>1. CASE JudgeWanted(r)
    BY <1>9, <2>1, <1>8 DEF AskJudge, JudgeWanted
  <2>2. CASE ~JudgeWanted(r)
    BY <1>9, <2>2, <1>s DEF AskJudge
  <2> QED BY <2>1, <2>2
<1>10. ASSUME NEW r \in Runs, JudgeAnswers(r) PROVE RowsKeep
  <2>1. \/ run' = run
        \/ /\ run[r].judge = "pending"
           /\ \E j \in {"pass", "fail", "error"} :
                 run' = [run EXCEPT ![r] = [run[r] EXCEPT !.judge = j]]
    BY <1>10 DEF JudgeAnswers, Finalized
  <2> QED BY <2>1, <1>b, <1>s, <1>8
<1>11. ASSUME NEW r \in Runs, Overdue(r) PROVE RowsKeep
  <2>1. /\ run' = [run EXCEPT ![r] = [run[r] EXCEPT !.late = TRUE]]
        /\ run[r].status # "none"
    BY <1>11, <1>b DEF Overdue
  <2> QED BY <2>1, <1>t DEF RowsKeep, RunRow
<1>12. CASE Step
  BY <1>12, <1>1, <1>2, <1>3 DEF Step
<1>13. ASSUME NEW r \in Runs, Life(r) \/ Harvest(r) PROVE RowsKeep
  BY <1>13, <1>5, <1>6, <1>7, <1>9, <1>10 DEF Life, Harvest
<1> QED BY <1>u, <1>3, <1>11, <1>12, <1>13 DEF Next, User

LEMMA ExecuteRows ==
  ASSUME TypeOK, Execute
  PROVE  \E k \in Runs :
            /\ run[k].status = "none"
            /\ run' = [run EXCEPT ![k] = [Unborn EXCEPT !.status = "queued"]]
            /\ effect' = effect
  BY FreeTypes DEF Execute

\* A verdict, the child of a retry, and the outbox.
LEMMA SettledRows ==
  ASSUME TypeOK, NEW r \in Runs, SettlesNow(r)
  PROVE  \E v \in Verdicts, k \in 0 .. MaxRuns :
            /\ v = "retry" => k \in Runs /\ run[k].status = "none"
                              /\ run[r].retry + 1 < Budget
            /\ v # "retry" => k = 0
            /\ k # r
            /\ run[r].status # "none" /\ run[r].verdict = "none"
            /\ run[r].judge # "pending"
            /\ run'[r].status = run[r].status /\ run'[r].retry = run[r].retry
            /\ run'[r].reviewed = run[r].reviewed
            /\ run'[r].verdict = v /\ run'[r].child = k
            /\ run'[r].heard = run[r].judge /\ run'[r].judge = run[r].judge
            /\ k # 0 => run'[k] = Child(r)
            /\ \A q \in Runs : q \notin {r, k} => run'[q] = run[q]
            /\ \A q \in Runs \ {r} : effect'[q] = effect[q]
            /\ \A e \in Effects : effect'[r][e] # "sent"
<1>1. PICK repeat \in Repeats(r) :
          /\ Decision(r, repeat) = "retry" => Free # {}
          /\ Persisted(r, Decision(r, repeat))
  BY DEF SettlesNow
<1> DEFINE v == Decision(r, repeat)
           k == IF v = "retry" THEN Lowest(Free) ELSE 0
<1>2. v \in Verdicts
  BY DecisionTypes DEF Verdicts
<1>3. /\ v = "retry" => run[r].retry + 1 < Budget
      /\ v = "retry" => k \in Runs /\ run[k].status = "none"
      /\ v # "retry" => k = 0
      /\ k \in 0 .. MaxRuns
  <2>1. v = "retry" => BudgetLeft(r)
    BY DEF Decision
  <2> QED BY <1>1, <2>1, FreeTypes, RunNumbers DEF BudgetLeft
<1>4. /\ run[r].status # "none" /\ run[r].verdict = "none" /\ run[r].judge # "pending"
      /\ run[r] \in RunRow
  BY RowTypes DEF SettlesNow, Settleable, JudgeDue, JudgeOverdue
<1>5. k # r
  BY <1>3, <1>4, RunNumbers
<1>6. /\ run' = [q \in Runs |->
                    IF q = r THEN [run[r] EXCEPT !.verdict = v,
                                      !.fingerprint = Fingerprint(r),
                                      !.child = k, !.heard = run[r].judge]
                    ELSE IF q = k THEN Child(r) ELSE run[q]]
      /\ effect' = [effect EXCEPT ![r] =
                [e \in Effects |-> IF e \in EffectsOf(v) THEN "pending" ELSE "none"]]
  BY <1>1 DEF Persisted
<1>7. /\ \A q \in Runs \ {r} : effect'[q] = effect[q]
      /\ \A e \in Effects : effect'[r][e] # "sent"
  BY <1>6 DEF TypeOK
<1> HIDE DEF v, k
<1>8. /\ run'[r].status = run[r].status /\ run'[r].retry = run[r].retry
      /\ run'[r].reviewed = run[r].reviewed
      /\ run'[r].verdict = v /\ run'[r].child = k
      /\ run'[r].heard = run[r].judge /\ run'[r].judge = run[r].judge
  BY <1>4, <1>6 DEF RunRow
<1>9. /\ k # 0 => run'[k] = Child(r)
      /\ \A q \in Runs : q \notin {r, k} => run'[q] = run[q]
  BY <1>3, <1>5, <1>6, RunNumbers
<1> QED BY <1>2, <1>3, <1>4, <1>5, <1>7, <1>8, <1>9

LEMMA ChildFields ==
  ASSUME NEW r
  PROVE  /\ Child(r).status = "queued" /\ Child(r).retry = run[r].retry + 1
         /\ Child(r).verdict = "none" /\ Child(r).child = 0 /\ Child(r).heard = "none"
         /\ Child(r).judge = "none" /\ Child(r).reviewed = FALSE
  BY DEF Child, Unborn

-----------------------------------------------------------------------------
(* The marks in the event loop                                             *)

Unmarked(s) == \A i \in 1 .. Len(s) : s[i].op \notin Marks

LEMMA UnmarkedHands ==
  ASSUME NEW s, Unmarked(s)
  PROVE  \A name \in Marks : HandOf(s, name) = {}
  BY DEF Unmarked, HandOf

LEMMA ConcatUnmarked ==
  ASSUME NEW s \in Seq(Ops), NEW u \in Seq(Ops), Unmarked(s), Unmarked(u)
  PROVE  Unmarked(s \o u)
<1> SUFFICES ASSUME NEW i \in 1 .. Len(s \o u) PROVE (s \o u)[i].op \notin Marks
  BY DEF Unmarked
<1>1. /\ Len(s \o u) = Len(s) + Len(u) /\ Len(s) \in Nat /\ Len(u) \in Nat
      /\ (s \o u)[i] = IF i <= Len(s) THEN s[i] ELSE u[i - Len(s)]
  BY ConcatProperties, LenProperties
<1>2. CASE i <= Len(s)
  BY <1>1, <1>2 DEF Unmarked
<1>3. CASE ~(i <= Len(s))
  <2>1. i - Len(s) \in 1 .. Len(u)
    BY <1>1, <1>3
  <2> QED BY <1>1, <1>3, <2>1 DEF Unmarked
<1> QED BY <1>2, <1>3

LEMMA EachUnmarked ==
  ASSUME NEW name, name \notin Marks, NEW S
  PROVE  Unmarked(Each(name, S))
<1>1. Unmarked(<<>>)
  BY DEF Unmarked
<1>2. Unmarked(<<[op |-> name, runs |-> S]>>)
  BY DEF Unmarked
<1> QED BY <1>1, <1>2 DEF Each

\* What is left of the sequence: its first entry with a run less, or its tail.
LEMMA RestShape ==
  ASSUME todo \in Seq(Ops), todo # <<>>
  PROVE  \/ Rest = Tail(todo)
         \/ /\ Head(todo).runs # {Subject}
            /\ Len(Rest) = Len(todo) /\ Rest[1].op = Head(todo).op
            /\ \A i \in 2 .. Len(todo) : Rest[i] = todo[i]
<1> DEFINE left == Head(todo).runs \ {Subject}
           s == <<[op |-> Head(todo).op, runs |-> left]>>
<1>1. /\ Tail(todo) \in Seq(Ops) /\ Len(Tail(todo)) = Len(todo) - 1
      /\ \A i \in 1 .. Len(Tail(todo)) : Tail(todo)[i] = todo[i + 1]
      /\ Len(todo) \in Nat \ {0}
  BY HeadTailProperties, EmptySeq
<1>2. CASE left = {}
  <2>1. Rest = <<>> \o Tail(todo)
    BY <1>2 DEF Rest, Each
  <2> QED BY <1>1, <2>1, ConcatEmptySeq
<1>3. CASE left # {}
  <2>1. Rest = s \o Tail(todo)
    BY <1>3 DEF Rest, Each
  <2>2. Head(todo).op \in Named /\ left \in SUBSET Runs
    <3>1. Head(todo).op \in Named
      BY <1>3, HeadTypes
    <3> QED BY <3>1, HeadTypes
  <2>3. s \in Seq(Ops)
    <3>1. Each(Head(todo).op, left) \in Seq(Ops)
      BY <2>2, OpTypes
    <3> QED BY <1>3, <3>1 DEF Each
  <2>4. Len(s) = 1 /\ s[1].op = Head(todo).op
    OBVIOUS
  <2> HIDE DEF s
  <2>5. /\ Len(Rest) = Len(todo)
        /\ \A i \in 1 .. Len(todo) :
              Rest[i] = IF i <= 1 THEN s[i] ELSE Tail(todo)[i - 1]
    <3>1. /\ Len(s \o Tail(todo)) = Len(s) + Len(Tail(todo))
          /\ \A i \in 1 .. Len(s) + Len(Tail(todo)) :
                (s \o Tail(todo))[i] = IF i <= Len(s) THEN s[i]
                                        ELSE Tail(todo)[i - Len(s)]
      BY <1>1, <2>3, ConcatProperties
    <3>2. Len(s) + Len(Tail(todo)) = Len(todo)
      BY <1>1, <2>4
    <3> QED BY <2>1, <2>4, <3>1, <3>2
  <2>6. \A i \in 2 .. Len(todo) : Rest[i] = todo[i]
    <3> SUFFICES ASSUME NEW i \in 2 .. Len(todo) PROVE Rest[i] = todo[i]
      OBVIOUS
    <3>1. i - 1 \in 1 .. Len(Tail(todo)) /\ i \in 1 .. Len(todo) /\ ~(i <= 1)
      BY <1>1
    <3>2. Rest[i] = Tail(todo)[i - 1] /\ Tail(todo)[i - 1] = todo[(i - 1) + 1]
      BY <1>1, <2>5, <3>1
    <3> QED BY <3>2
  <2>7. Rest[1].op = Head(todo).op
    BY <1>1, <2>4, <2>5
  <2> QED BY <1>3, <2>5, <2>6, <2>7
<1> QED BY <1>2, <1>3

\* A call other than a review and a mark stands before no mark.
LEMMA PlainRest ==
  ASSUME todo \in Seq(Ops), todo # <<>>, MarksComeNext,
         Head(todo).op \notin Marks \cup {"review"}
  PROVE  Unmarked(todo) /\ Unmarked(Rest)
<1>1. Head(todo) = todo[1] /\ Len(todo) \in Nat \ {0}
  BY HeadTypes
<1>2. Unmarked(todo)
  BY <1>1 DEF Unmarked, MarksComeNext
<1>3. CASE Rest = Tail(todo)
  <2>1. /\ Len(Tail(todo)) = Len(todo) - 1
        /\ \A i \in 1 .. Len(Tail(todo)) : Tail(todo)[i] = todo[i + 1]
    BY HeadTailProperties
  <2> QED BY <1>1, <1>2, <1>3, <2>1 DEF Unmarked
<1>4. CASE /\ Len(Rest) = Len(todo) /\ Rest[1].op = Head(todo).op
           /\ \A i \in 2 .. Len(todo) : Rest[i] = todo[i]
  BY <1>1, <1>2, <1>4 DEF Unmarked
<1> QED BY <1>2, <1>3, <1>4, RestShape

\* A mark is one run's, and the only one.
LEMMA MarkedRest ==
  ASSUME todo \in Seq(Ops), todo # <<>>, MarksComeNext, Head(todo).op \in Marks
  PROVE  /\ Unmarked(Rest)
         /\ \A name \in Marks : InHand(name) =
               IF name = Head(todo).op THEN {Subject} ELSE {}
<1>1. Head(todo) = todo[1] /\ Len(todo) \in Nat \ {0} /\ 1 \in 1 .. Len(todo)
      /\ Subject \in Head(todo).runs
  BY HeadTypes
<1>2. Head(todo).runs = {Subject}
  BY <1>1 DEF MarksComeNext
<1>3. \A i \in 2 .. Len(todo) : todo[i].op \notin Marks
  BY <1>1 DEF MarksComeNext, Marks
<1>4. Unmarked(Rest)
  <2>1. Rest = Tail(todo)
    BY <1>2, RestShape
  <2>2. /\ Len(Tail(todo)) = Len(todo) - 1
        /\ \A i \in 1 .. Len(Tail(todo)) : Tail(todo)[i] = todo[i + 1]
    BY HeadTailProperties
  <2> QED BY <1>1, <1>3, <2>1, <2>2 DEF Unmarked
<1>5. Subject \in Runs
  BY HeadTypes DEF Marks, Named
<1>6. ASSUME NEW name \in Marks
      PROVE  InHand(name) = IF name = Head(todo).op THEN {Subject} ELSE {}
  <2>1. \A i \in 1 .. Len(todo) : todo[i].op = name => i = 1
    BY <1>1, <1>3
  <2> QED BY <1>1, <1>2, <1>5, <2>1 DEF InHand, HandOf
<1> QED BY <1>4, <1>6

\* A review leaves the marks where they come next.
LEMMA ReviewedRest ==
  ASSUME todo \in Seq(Ops), todo # <<>>, MarksComeNext, Head(todo).op = "review",
         todo' = Rest
  PROVE  MarksComeNext' /\ \A name \in Marks : InHand(name)' = InHand(name)
<1>1. Head(todo) = todo[1] /\ Len(todo) \in Nat \ {0} /\ todo[1].op \notin Marks
  BY HeadTypes DEF Marks
<1>2. \A i \in 1 .. Len(todo) : todo[i].op \in Marks =>
          /\ i = 2 /\ todo[2].op = "sent" /\ \E r \in Runs : todo[2].runs = {r}
  BY <1>1 DEF MarksComeNext
<1>3. CASE todo' = Tail(todo)
  <2>1. /\ Len(todo') = Len(todo) - 1 /\ Len(todo') \in Nat
        /\ \A i \in 1 .. Len(todo') : todo'[i] = todo[i + 1]
    BY <1>1, <1>3, HeadTailProperties
  <2>2. \A i \in 1 .. Len(todo') : todo'[i].op \in Marks =>
            i = 1 /\ \E r \in Runs : todo'[1].runs = {r}
    <3> SUFFICES ASSUME NEW i \in 1 .. Len(todo'), todo'[i].op \in Marks
                 PROVE  i = 1 /\ \E r \in Runs : todo'[1].runs = {r}
      OBVIOUS
    <3>1. i + 1 \in 1 .. Len(todo) /\ todo'[i] = todo[i + 1]
      BY <1>1, <2>1
    <3> QED BY <1>2, <2>1, <3>1
  <2>3. ASSUME NEW name \in Marks PROVE InHand(name)' = InHand(name)
    <3>1. ASSUME NEW r \in Runs, NEW i \in 1 .. Len(todo), todo[i].op = name,
                 r \in todo[i].runs
          PROVE  \E j \in 1 .. Len(todo') : todo'[j].op = name /\ r \in todo'[j].runs
      <4>1. i = 2
        BY <1>2, <3>1
      <4>2. 1 \in 1 .. Len(todo') /\ todo'[1] = todo[1 + 1]
        BY <1>1, <2>1, <4>1
      <4> QED BY <3>1, <4>1, <4>2
    <3>2. ASSUME NEW r \in Runs, NEW i \in 1 .. Len(todo'), todo'[i].op = name,
                 r \in todo'[i].runs
          PROVE  \E j \in 1 .. Len(todo) : todo[j].op = name /\ r \in todo[j].runs
      <4>1. i + 1 \in 1 .. Len(todo) /\ todo'[i] = todo[i + 1]
        BY <1>1, <2>1
      <4> QED BY <3>2, <4>1
    <3> QED BY <3>1, <3>2 DEF InHand, HandOf
  <2> QED BY <2>2, <2>3 DEF MarksComeNext
<1>4. CASE /\ Len(todo') = Len(todo) /\ todo'[1].op = "review"
           /\ \A i \in 2 .. Len(todo) : todo'[i] = todo[i]
  <2>1. \A i \in 1 .. Len(todo) : i = 1 \/ todo'[i] = todo[i]
    BY <1>1, <1>4
  <2>2. \A i \in 1 .. Len(todo') : todo'[i].op \in Marks =>
            i = 2 /\ todo'[i] = todo[i]
    BY <1>1, <1>2, <1>4, <2>1 DEF Marks
  <2>3. MarksComeNext'
    BY <1>2, <1>4, <2>2 DEF MarksComeNext
  <2>4. ASSUME NEW name \in Marks PROVE InHand(name)' = InHand(name)
    <3>1. \A i \in 1 .. Len(todo) : /\ todo[i].op = name => i # 1
                                    /\ todo'[i].op = name => i # 1
      BY <1>1, <1>4 DEF Marks
    <3> QED BY <1>4, <2>1, <3>1 DEF InHand, HandOf
  <2> QED BY <2>3, <2>4
<1> QED BY <1>3, <1>4, RestShape

\* What a step does to the marks, and what an act on the bus or on the queue of
\* the receiver finds and leaves.
HandsAre(name, S) == \A mark \in Marks : InHand(mark) = IF mark = name THEN S ELSE {}
NoHands == \A mark \in Marks : InHand(mark) = {}

Quiet ==
    /\ \A name \in Marks : InHand(name)' = InHand(name)
    /\ UNCHANGED <<emitted, told>> /\ budget'.crashes = budget.crashes
    /\ effect' = effect \/ \E r \in Runs : SettlesNow(r)
    /\ inflight' \ inflight \subseteq Unreviewed
    /\ InHand("mark") \cap inflight \subseteq inflight'

Emits(r, e) ==
    /\ effect[r][e] = "pending" /\ NoHands /\ HandsAre(MarkOf(e), {r})'
    /\ emitted' = [emitted EXCEPT ![r][e] = @ + 1]
    /\ UNCHANGED <<run, effect, inflight, told, budget>>

Sends(r, e) ==
    /\ HandsAre(MarkOf(e), {r}) /\ NoHands'
    /\ effect' = [effect EXCEPT ![r][e] = "sent"]
    /\ UNCHANGED <<run, inflight, emitted, told, budget>>

Tells(r) ==
    /\ r \in inflight /\ NoHands /\ HandsAre("mark", {r})'
    /\ told' = [told EXCEPT ![r] = @ + 1]
    /\ UNCHANGED <<run, effect, inflight, emitted, budget>>

Marked(r) ==
    /\ HandsAre("mark", {r}) /\ NoHands'
    /\ run' = [run EXCEPT ![r].reviewed = TRUE]
    /\ inflight' = inflight \ {r}
    /\ UNCHANGED <<effect, emitted, told, budget>>

LEMMA UnmarkedStep ==
  ASSUME Unmarked(todo), Unmarked(todo')
  PROVE  /\ MarksComeNext' /\ NoHands /\ NoHands'
         /\ \A name \in Marks : InHand(name)' = InHand(name)
<1>1. NoHands
  BY UnmarkedHands DEF NoHands, InHand
<1>2. NoHands'
  BY UnmarkedHands DEF NoHands, InHand, HandOf, Unmarked
<1> QED BY <1>1, <1>2 DEF NoHands, MarksComeNext, Unmarked

LEMMA PlainStep ==
  ASSUME TypeOK, MarksComeNext, NEW name, name \notin Marks \cup {"review"}, Doing(name),
         \/ Return \/ UNCHANGED todo
         \/ \E steps \in Seq(Ops) : Unmarked(steps) /\ Next1(steps)
  PROVE  Unmarked(todo) /\ Unmarked(todo')
<1>1. todo \in Seq(Ops) /\ todo # <<>> /\ Head(todo).op = name
  BY DEF TypeOK, Doing
<1>2. Unmarked(todo) /\ Unmarked(Rest) /\ Rest \in Seq(Ops)
  BY <1>1, PlainRest, RestTypes
<1>3. \A steps \in Seq(Ops) : Unmarked(steps) => Unmarked(steps \o Rest)
  BY <1>2, ConcatUnmarked
<1> QED BY <1>2, <1>3 DEF Return, Next1

\* A step that is one's own first entry: the mark comes next.
LEMMA FirstMark ==
  ASSUME NEW s \in Seq(Ops), NEW o \in Ops, Unmarked(s), todo' = <<o>> \o s,
         o.op \in Marks, NEW r \in Runs, o.runs = {r}
  PROVE  MarksComeNext' /\ HandsAre(o.op, {r})'
<1>1. /\ Len(todo') = 1 + Len(s) /\ Len(s) \in Nat
      /\ \A i \in 1 .. 1 + Len(s) : todo'[i] = IF i <= 1 THEN <<o>>[i] ELSE s[i - 1]
  <2>1. <<o>> \in Seq(Ops) /\ Len(<<o>>) = 1
    OBVIOUS
  <2> QED BY <2>1, ConcatProperties, LenProperties
<1>2. todo'[1] = o /\ 1 \in 1 .. Len(todo')
  BY <1>1
<1>3. \A i \in 1 .. Len(todo') : i # 1 => todo'[i].op \notin Marks
  <2> SUFFICES ASSUME NEW i \in 1 .. Len(todo'), i # 1 PROVE todo'[i].op \notin Marks
    OBVIOUS
  <2>1. i - 1 \in 1 .. Len(s) /\ todo'[i] = s[i - 1]
    BY <1>1
  <2> QED BY <2>1 DEF Unmarked
<1>4. MarksComeNext'
  BY <1>2, <1>3 DEF MarksComeNext
<1>5. ASSUME NEW mark \in Marks
      PROVE  InHand(mark)' = IF mark = o.op THEN {r} ELSE {}
  BY <1>2, <1>3 DEF InHand, HandOf
<1> QED BY <1>4, <1>5 DEF HandsAre

\* The emission of a verdict: the review comes first, then the mark.
LEMMA SecondMark ==
  ASSUME NEW s \in Seq(Ops), Unmarked(s), NEW r \in Runs,
         todo' = <<On("review", r), On("sent", r), On("dispatch", r)>> \o s
  PROVE  MarksComeNext' /\ HandsAre("sent", {r})'
<1> DEFINE new == <<On("review", r), On("sent", r), On("dispatch", r)>>
<1>1. /\ Len(todo') = 3 + Len(s) /\ Len(s) \in Nat
      /\ \A i \in 1 .. 3 + Len(s) : todo'[i] = IF i <= 3 THEN new[i] ELSE s[i - 3]
  <2>1. \A name \in Named : On(name, r) \in Ops
    BY OpTypes
  <2>2. new \in Seq(Ops) /\ Len(new) = 3
    <3>1. On("review", r) \in Ops /\ On("sent", r) \in Ops /\ On("dispatch", r) \in Ops
      BY <2>1 DEF Named
    <3> QED BY <3>1
  <2> HIDE DEF new
  <2>3. todo' = new \o s
    BY DEF new
  <2> QED BY <2>2, <2>3, ConcatProperties, LenProperties
<1>2. /\ todo'[1] = On("review", r) /\ todo'[2] = On("sent", r)
      /\ todo'[3] = On("dispatch", r)
  <2>1. 1 \in 1 .. 3 + Len(s) /\ 2 \in 1 .. 3 + Len(s) /\ 3 \in 1 .. 3 + Len(s)
    BY <1>1
  <2> QED BY <1>1, <2>1
<1>3. \A i \in 1 .. Len(todo') : i # 2 => todo'[i].op \notin Marks
  <2> SUFFICES ASSUME NEW i \in 1 .. Len(todo'), i # 2 PROVE todo'[i].op \notin Marks
    OBVIOUS
  <2>1. CASE i \in {1, 3}
    BY <1>2, <2>1 DEF On, Marks
  <2>2. CASE i \notin {1, 3}
    <3>1. i - 3 \in 1 .. Len(s) /\ todo'[i] = s[i - 3]
      BY <1>1, <2>2
    <3> QED BY <3>1 DEF Unmarked
  <2> QED BY <2>1, <2>2
<1>4. todo'[2].op = "sent" /\ todo'[2].runs = {r} /\ todo'[1].op = "review"
      /\ 2 \in 1 .. Len(todo')
  BY <1>1, <1>2 DEF On
<1>5. MarksComeNext'
  BY <1>3, <1>4 DEF MarksComeNext
<1>6. ASSUME NEW mark \in Marks
      PROVE  InHand(mark)' = IF mark = "sent" THEN {r} ELSE {}
  BY <1>3, <1>4 DEF InHand, HandOf
<1> QED BY <1>5, <1>6 DEF HandsAre

\* Steps of the event loop and of a callback that starts neither mark.
LEMMA QuietStep ==
  ASSUME Unmarked(todo), Unmarked(todo'), UNCHANGED <<emitted, told>>,
         budget'.crashes = budget.crashes,
         effect' = effect \/ \E r \in Runs : SettlesNow(r),
         inflight' \subseteq inflight
  PROVE  MarksComeNext' /\ Quiet
  BY UnmarkedStep DEF Quiet, NoHands, Marks

LEMMA NewSteps ==
  ASSUME NEW r \in Runs
  PROVE  /\ Unmarked(<<>>) /\ Unmarked(<<Op("sync")>>) /\ Unmarked(<<Op("deliver")>>)
         /\ Unmarked(Reconciled(r)) /\ Unmarked(<<On("settle", r)>>)
         /\ Unmarked(Each("settle", Unverdicted) \o <<Op("rescan")>>)
         /\ Unmarked(Each("reconcile", Verdicted)) /\ Unmarked(Each("review", Unreviewed))
         /\ Each("reconcile", Verdicted) \in Seq(Ops) /\ <<>> \in Seq(Ops)
<1>1. /\ Unmarked(<<>>) /\ Unmarked(<<Op("sync")>>) /\ Unmarked(<<Op("deliver")>>)
      /\ Unmarked(<<On("settle", r)>>) /\ Unmarked(<<Op("rescan")>>)
  BY DEF Unmarked, Op, On, Marks
<1>2. Unmarked(Reconciled(r))
  BY DEF Unmarked, Reconciled, Op, On, Marks
<1>3. /\ Unverdicted \in SUBSET Runs /\ Verdicted \in SUBSET Runs
  BY DEF Unverdicted, Verdicted, Attempts, Rows
<1>4. /\ Each("settle", Unverdicted) \in Seq(Ops) /\ <<Op("rescan")>> \in Seq(Ops)
      /\ Each("reconcile", Verdicted) \in Seq(Ops) /\ <<>> \in Seq(Ops)
  BY <1>3, OpTypes DEF Named
<1>5. /\ Unmarked(Each("settle", Unverdicted)) /\ Unmarked(Each("reconcile", Verdicted))
      /\ Unmarked(Each("review", Unreviewed))
  BY EachUnmarked DEF Marks
<1>6. Unmarked(Each("settle", Unverdicted) \o <<Op("rescan")>>)
  BY <1>1, <1>4, <1>5, ConcatUnmarked
<1> QED BY <1>1, <1>2, <1>4, <1>5, <1>6

Acts == \/ \E r \in Runs, e \in Effects : Emits(r, e) \/ Sends(r, e)
        \/ \E r \in Runs : Tells(r) \/ Marked(r)

LEMMA LoopMarks ==
  ASSUME TypeOK, MarksComeNext, Step
  PROVE  MarksComeNext' /\ (Quiet \/ Acts)
<1>t. todo \in Seq(Ops)
  BY DEF TypeOK
<1>1. CASE Settle
  <2>1. Doing("settle") /\ Subject \in Runs
    BY <1>1, DoingTypes DEF Settle, Named
  <2>2. \/ Return \/ UNCHANGED todo
        \/ \E steps \in Seq(Ops) : Unmarked(steps) /\ Next1(steps)
    BY <1>1, <2>1, NewSteps, ReconciledTypes DEF Settle
  <2>3. Unmarked(todo) /\ Unmarked(todo')
    BY <2>1, <2>2, PlainStep DEF Marks
  <2>4. effect' = effect \/ SettlesNow(Subject)
    BY <1>1 DEF Settle, SettlesNow, db
  <2>5. UNCHANGED <<emitted, told, inflight, budget>>
    BY <1>1 DEF Settle
  <2> QED BY <2>1, <2>3, <2>4, <2>5, QuietStep
<1>2. CASE Sync
  <2>1. Unmarked(todo) /\ Unmarked(todo')
    BY <1>2, PlainStep DEF Sync, Marks
  <2> QED BY <1>2, <2>1, QuietStep DEF Sync
<1>3. CASE Rescan
  <2>0. \A r \in Runs : Unmarked(Each("reconcile", Verdicted))
           /\ Each("reconcile", Verdicted) \in Seq(Ops)
    BY NewSteps
  <2>1. Unmarked(todo) /\ Unmarked(todo')
    <3>1. 1 \in Runs
      BY GoalAssumption DEF Runs
    <3> QED BY <1>3, <2>0, <3>1, PlainStep DEF Rescan, Marks
  <2> QED BY <1>3, <2>1, QuietStep DEF Rescan, db
<1>4. CASE Reconcile
  <2>1. Doing("reconcile") /\ Subject \in Runs
    BY <1>4, DoingTypes DEF Reconcile, Named
  <2>2. \E steps \in Seq(Ops) : Unmarked(steps) /\ Next1(steps)
    BY <1>4, <2>1, NewSteps, ReconciledTypes DEF Reconcile
  <2>3. Unmarked(todo) /\ Unmarked(todo')
    BY <2>1, <2>2, PlainStep DEF Marks
  <2> QED BY <1>4, <2>3, QuietStep DEF Reconcile, db
<1>5. CASE Deliver
  <2>1. Unmarked(todo) /\ Unmarked(todo')
    BY <1>5, PlainStep DEF Deliver, Marks
  <2> QED BY <1>5, <2>1, QuietStep DEF Deliver
<1>6. CASE Review
  <2>1. todo # <<>> /\ Head(todo).op = "review" /\ todo' = Rest
    BY <1>6 DEF Review, Doing, Return
  <2>2. MarksComeNext' /\ \A name \in Marks : InHand(name)' = InHand(name)
    BY <1>t, <2>1, ReviewedRest
  <2>3. inflight' \ inflight \subseteq Unreviewed /\ inflight \subseteq inflight'
    BY <1>6 DEF Review, Reviewable
  <2> QED BY <1>6, <2>2, <2>3 DEF Review, Quiet, db
<1>7. CASE Dispatch
  <2>1. /\ Doing("dispatch") /\ Subject \in Runs
        /\ todo # <<>> /\ Head(todo).op = "dispatch"
    BY <1>7, DoingTypes DEF Dispatch, Named
  <2>2. Unmarked(todo) /\ Unmarked(Rest) /\ Rest \in Seq(Ops)
    BY <1>t, <2>1, PlainRest, RestTypes DEF Marks
  <2>3. NoHands
    BY <2>2, UnmarkedHands DEF NoHands, InHand
  <2>r. PICK r \in Runs : r = Subject
    BY <2>1
  <2>4. CASE effect[r]["verdict"] = "pending"
             /\ Emitted(r, "verdict",
                     <<On("review", r), On("sent", r), On("dispatch", r)>>)
    <3>1. MarksComeNext' /\ HandsAre("sent", {r})'
      BY <2>2, <2>4, SecondMark DEF Emitted, Next1
    <3>2. MarkOf("verdict") = "sent"
      BY DEF MarkOf
    <3>3. Emits(r, "verdict")
      BY <1>7, <2>3, <2>4, <3>1, <3>2 DEF Dispatch, Emits, Emitted, db, HandsAre
    <3> QED BY <3>1, <3>3 DEF Acts, Effects
  <2>5. CASE effect[r]["end"] = "pending" /\ Emitted(r, "end", <<On("sentEnd", r)>>)
    <3>1. On("sentEnd", r) \in Ops /\ On("sentEnd", r).op = "sentEnd"
          /\ On("sentEnd", r).runs = {r}
      BY OpTypes DEF Named, On
    <3>2. MarksComeNext' /\ HandsAre(On("sentEnd", r).op, {r})'
      BY <2>2, <2>5, <3>1, FirstMark DEF Emitted, Next1, Marks
    <3>3. MarkOf("end") = On("sentEnd", r).op
      BY <3>1 DEF MarkOf
    <3>4. Emits(r, "end")
      BY <1>7, <2>3, <2>5, <3>2, <3>3 DEF Dispatch, Emits, Emitted, db, HandsAre
    <3> QED BY <3>2, <3>4 DEF Acts, Effects
  <2>6. CASE Return /\ UNCHANGED emitted
    <3>1. Unmarked(todo')
      BY <2>2, <2>6 DEF Return
    <3> QED BY <1>7, <2>2, <2>6, <3>1, QuietStep DEF Dispatch, db
  <2> QED BY <1>7, <2>r, <2>4, <2>5, <2>6 DEF Dispatch
<1>8. ASSUME NEW e \in Effects, Sent(MarkOf(e), e) PROVE MarksComeNext' /\ Acts
  <2>1. todo # <<>> /\ Head(todo).op = MarkOf(e) /\ MarkOf(e) \in Marks /\ todo' = Rest
    BY <1>8 DEF Sent, Doing, Return, MarkOf, Marks
  <2>2. Unmarked(Rest) /\ HandsAre(MarkOf(e), {Subject}) /\ Subject \in Runs
    BY <1>t, <2>1, MarkedRest, HeadTypes DEF HandsAre, Marks, Named
  <2>3. MarksComeNext' /\ NoHands'
    BY <2>1, <2>2, UnmarkedHands DEF NoHands, InHand, HandOf, Unmarked, MarksComeNext
  <2>4. Sends(Subject, e)
    BY <1>8, <2>2, <2>3 DEF Sends, Sent
  <2> QED BY <2>2, <2>3, <2>4 DEF Acts
<1>9. CASE MarkReviewed
  <2>1. todo # <<>> /\ Head(todo).op = "mark" /\ todo' = Rest
    BY <1>9 DEF MarkReviewed, Doing, Return
  <2>2. Unmarked(Rest) /\ HandsAre("mark", {Subject}) /\ Subject \in Runs
    BY <1>t, <2>1, MarkedRest, HeadTypes DEF HandsAre, Marks, Named
  <2>3. MarksComeNext' /\ NoHands'
    BY <2>1, <2>2, UnmarkedHands DEF NoHands, InHand, HandOf, Unmarked, MarksComeNext
  <2>4. Marked(Subject)
    BY <1>9, <2>2, <2>3 DEF Marked, MarkReviewed
  <2> QED BY <2>2, <2>3, <2>4 DEF Acts
<1>10. MarkSent => \E e \in Effects : Sent(MarkOf(e), e)
  BY DEF MarkSent, MarkOf, Effects
<1> QED BY <1>1, <1>2, <1>3, <1>4, <1>5, <1>6, <1>7, <1>8, <1>9, <1>10 DEF Step

LEMMA StepMarks ==
  ASSUME TypeOK, DownIsIdle, MarksComeNext, [Next]_vars
  PROVE  MarksComeNext' /\ (Quiet \/ Acts \/ (Crash /\ NoHands'))
<1>t. /\ Unmarked(<<>>) /\ Unmarked(<<Op("sync")>>) /\ Unmarked(<<Op("deliver")>>)
      /\ \A r \in Runs : Unmarked(<<On("settle", r)>>)
      /\ Unmarked(Each("settle", Unverdicted) \o <<Op("rescan")>>)
      /\ Unmarked(Each("review", Unreviewed))
  <2>1. 1 \in Runs
    BY GoalAssumption DEF Runs
  <2> QED BY <2>1, NewSteps
<1>k. ASSUME UNCHANGED <<todo, emitted, told, effect, inflight>>,
             budget'.crashes = budget.crashes
      PROVE  MarksComeNext' /\ Quiet
  BY <1>k DEF MarksComeNext, Quiet, InHand, HandOf
<1>i. ASSUME Idle, Unmarked(todo'), UNCHANGED <<emitted, told, effect>>,
             inflight' \subseteq inflight, budget'.crashes = budget.crashes
      PROVE  MarksComeNext' /\ Quiet
  BY <1>i, <1>t, QuietStep DEF Idle
<1>c. budget \in [{"executes", "edits", "refusals", "crashes"} -> Nat]
  BY DEF TypeOK
<1>u. CASE UNCHANGED vars
  BY <1>u, <1>k DEF vars, db, memory
<1>1. CASE Step
  BY <1>1, LoopMarks
<1>2. CASE Timer
  <2>1. Idle /\ Unmarked(todo') /\ UNCHANGED <<emitted, told, effect, inflight, budget>>
    BY <1>2, <1>t DEF Timer, Sweep, ReviewSweep, db
  <2> QED BY <2>1, <1>i
<1>3. CASE Execute \/ Leave \/ Sit \/ Git \/ Delivered \/ \E r \in Runs : Overdue(r) \/ Spawn(r)
  <2>1. UNCHANGED <<todo, emitted, told, effect, inflight>>
    BY <1>3 DEF Execute, Leave, Sit, Git, Delivered, Overdue, Spawn, db, memory
  <2>2. budget'.crashes = budget.crashes
    <3>1. \/ budget' = budget
          \/ \E c \in {"executes", "edits", "refusals"} : budget' = [budget EXCEPT ![c] = @ + 1]
      BY <1>3 DEF Execute, Leave, Sit, Git, Delivered, Overdue, Spawn
    <3> QED BY <1>c, <3>1
  <2> QED BY <2>1, <2>2, <1>k
<1>4. ASSUME NEW s, Edit(s) PROVE MarksComeNext' /\ Quiet
  <2>1. Idle /\ Unmarked(todo') /\ UNCHANGED <<emitted, told, effect, inflight>>
    BY <1>4, <1>t DEF Edit
  <2>2. budget'.crashes = budget.crashes
    BY <1>4, <1>c DEF Edit
  <2> QED BY <2>1, <2>2, <1>i
<1>5. CASE Redeliver
  BY <1>5, <1>i, <1>t DEF Redeliver, db
<1>6. ASSUME NEW r \in Runs, NEW s, End(r, s) PROVE MarksComeNext' /\ Quiet
  <2>1. Idle /\ Unmarked(todo') /\ UNCHANGED <<emitted, told, effect, inflight, budget>>
    BY <1>6, <1>t DEF End
  <2> QED BY <2>1, <1>i
<1>7. ASSUME NEW r \in Runs, Harvest(r) PROVE MarksComeNext' /\ Quiet
  <2>1. /\ Idle /\ UNCHANGED <<emitted, told, effect, inflight, budget>>
        /\ todo' = todo \/ todo' = <<On("settle", r)>>
    BY <1>7 DEF Harvest, Accept, AskJudge, JudgeAnswers, Harvested
  <2>2. Unmarked(todo')
    BY <2>1, <1>t DEF Idle
  <2> QED BY <2>1, <2>2, <1>i
<1>8. CASE Boot
  <2>1. UNCHANGED <<emitted, told, effect, inflight, budget>>
    BY <1>8 DEF Boot, db
  <2>2. Unmarked(todo) /\ Unmarked(todo')
    BY <1>8, <1>t DEF Boot, DownIsIdle
  <2> QED BY <2>1, <2>2, QuietStep
<1>9. CASE Crash
  <2>1. Unmarked(todo')
    BY <1>9, <1>t DEF Crash
  <2>2. MarksComeNext' /\ NoHands'
    BY <2>1, UnmarkedHands DEF NoHands, InHand, HandOf, Unmarked, MarksComeNext
  <2> QED BY <1>9, <2>2
<1>10. ASSUME NEW r \in Runs, SendReview(r) PROVE MarksComeNext' /\ (Quiet \/ Acts)
  <2>1. Idle /\ r \in inflight /\ UNCHANGED <<effect, emitted, run, budget>>
    BY <1>10 DEF SendReview, db
  <2>2. CASE seated
    <3>1. todo' = <<On("mark", r)>> /\ UNCHANGED inflight
          /\ told' = [told EXCEPT ![r] = @ + 1]
      BY <1>10, <2>2 DEF SendReview
    <3>2. /\ On("mark", r) \in Ops /\ On("mark", r).op = "mark"
          /\ On("mark", r).runs = {r} /\ <<>> \in Seq(Ops)
      BY OpTypes DEF Named, On
    <3>3. todo' = <<On("mark", r)>> \o <<>>
      BY <3>1
    <3>4. MarksComeNext' /\ HandsAre("mark", {r})'
      BY <1>t, <3>2, <3>3, FirstMark DEF Marks
    <3>5. NoHands
      BY <2>1, <1>t, UnmarkedHands DEF Idle, NoHands, InHand
    <3>6. Tells(r)
      BY <2>1, <3>1, <3>4, <3>5 DEF Tells
    <3> QED BY <3>4, <3>6 DEF Acts
  <2>3. CASE ~seated
    <3>1. UNCHANGED <<todo, told>> /\ inflight' \subseteq inflight
      BY <1>10, <2>3 DEF SendReview
    <3>2. Unmarked(todo')
      BY <1>t, <2>1, <3>1 DEF Idle
    <3> QED BY <2>1, <3>1, <3>2, <1>i
  <2> QED BY <2>2, <2>3
<1>11. User => Execute \/ Redeliver \/ \E s : Edit(s)
  BY DEF User
<1>12. ASSUME NEW r \in Runs, Life(r) PROVE Spawn(r) \/ \E s : End(r, s)
  BY <1>12 DEF Life
<1> QED BY <1>u, <1>1, <1>2, <1>3, <1>4, <1>5, <1>6, <1>7, <1>8, <1>9, <1>10, <1>11,
           <1>12 DEF Next

-----------------------------------------------------------------------------
(* The invariant is kept                                                   *)

LEMMA NextDownIsIdle ==
  ASSUME DownIsIdle, [Next]_vars
  PROVE  DownIsIdle'
<1>1. CASE UNCHANGED vars
  BY <1>1 DEF vars, memory, DownIsIdle
<1>2. CASE Step
  BY <1>2 DEF Step, Settle, Sync, Dispatch, MarkSent, Sent, Rescan, Reconcile, Review,
     MarkReviewed, Deliver, Doing, DownIsIdle
<1>3. CASE Timer \/ User \/ Leave \/ Sit \/ Delivered
  BY <1>3 DEF Timer, Sweep, ReviewSweep, User, Execute, Redeliver, Edit, Leave, Sit,
     Delivered, Idle, memory, DownIsIdle
<1>4. CASE Git \/ Crash \/ Boot
  BY <1>4 DEF Git, Crash, Boot, DownIsIdle
<1>5. ASSUME NEW r \in Runs, Life(r) \/ Harvest(r) \/ Overdue(r) \/ SendReview(r)
      PROVE  DownIsIdle'
  BY <1>5 DEF Life, Spawn, End, Harvest, Accept, AskJudge, JudgeAnswers, Harvested,
     Overdue, SendReview, Idle, memory, DownIsIdle
<1> QED BY <1>1, <1>2, <1>3, <1>4, <1>5 DEF Next

\* A step leaves the rows, adds one, or settles an attempt.
RowsStep == RowsKeep \/ Execute \/ \E r \in Runs : SettlesNow(r)

LEMMA QueuedFields ==
  LET queued == [Unborn EXCEPT !.status = "queued"] IN
  /\ queued.status = "queued" /\ queued.judge = "none" /\ queued.verdict = "none"
  /\ queued.heard = "none" /\ queued.child = 0 /\ queued.retry = 0
  /\ queued.reviewed = FALSE
  BY DEF Unborn

LEMMA NextLineage ==
  ASSUME TypeOK, RowsAreBorn, Lineage, RowsStep
  PROVE  Lineage'
<1>t. /\ run \in [Runs -> RunRow]
      /\ \A r \in Runs : /\ run[r].retry \in Nat
                         /\ run[r].child = 0 \/ run[r].child \in Runs
  <2>1. run \in [Runs -> RunRow]
    BY DEF TypeOK
  <2>2. \A r \in Runs : run[r].retry \in Nat /\ run[r].child \in 0 .. MaxRuns
    BY <2>1 DEF RunRow
  <2> QED BY <2>1, <2>2, RunNumbers
<1>1. CASE RowsKeep
  BY <1>1, <1>t DEF RowsKeep, Lineage
<1>2. CASE Execute
  <2>1. PICK k \in Runs :
            /\ run[k].status = "none"
            /\ run' = [run EXCEPT ![k] = [Unborn EXCEPT !.status = "queued"]]
    BY <1>2, ExecuteRows
  <2>2. /\ run'[k].child = 0 /\ run'[k].retry = 0 /\ run'[k].verdict = "none"
        /\ run'[k].status = "queued"
        /\ \A q \in Runs : q # k => run'[q] = run[q]
    BY <2>1, <1>t, QueuedFields
  <2>3. \A q \in Runs : run[q].child # k
    BY <2>1, RunNumbers DEF Lineage
  <2> QED BY <2>2, <2>3, <1>t, RunNumbers DEF Lineage
<1>3. ASSUME NEW r \in Runs, SettlesNow(r) PROVE Lineage'
  <2>1. PICK v \in Verdicts, k \in 0 .. MaxRuns :
            /\ v = "retry" => k \in Runs /\ run[k].status = "none"
                              /\ run[r].retry + 1 < Budget
            /\ v # "retry" => k = 0
            /\ k # r
            /\ run[r].status # "none" /\ run[r].verdict = "none"
            /\ run'[r].status = run[r].status /\ run'[r].retry = run[r].retry
            /\ run'[r].verdict = v /\ run'[r].child = k
            /\ k # 0 => run'[k] = Child(r)
            /\ \A q \in Runs : q \notin {r, k} => run'[q] = run[q]
    BY <1>3, SettledRows
  <2>2. \A q \in Runs : run[q].child = 0 \/ run[q].child # k
    BY <2>1, <1>t DEF Lineage
  <2>3. CASE v # "retry"
    <3>1. k = 0 /\ \A q \in Runs : q # r => run'[q] = run[q]
      BY <2>1, <2>3, RunNumbers
    <3>2. \A q \in Runs : run'[q].child = run[q].child /\ run'[q].retry = run[q].retry
                           /\ run'[q].status = run[q].status
      BY <2>1, <3>1 DEF Lineage
    <3>3. \A q \in Runs : run'[q].verdict = run[q].verdict
                           \/ (q = r /\ run'[q].verdict = v /\ run[q].child = 0)
      BY <2>1, <3>1 DEF Lineage
    <3> QED BY <2>1, <2>3, <3>2, <3>3, <1>t DEF Lineage
  <2>4. CASE v = "retry"
    <3>1. /\ k \in Runs /\ k # 0 /\ run'[k].retry = run[r].retry + 1
          /\ run'[k].verdict = "none" /\ run'[k].child = 0 /\ run'[k].status = "queued"
      BY <2>1, <2>4, RunNumbers, ChildFields
    <3>2. ASSUME NEW q \in Runs
          PROVE  /\ run'[q].retry < Budget
                 /\ run'[q].verdict = "retry" <=> run'[q].child # 0
      <4>1. CASE q = r
        BY <2>1, <2>4, <3>1, <4>1, <1>t DEF Lineage
      <4>2. CASE q = k
        BY <2>1, <2>4, <3>1, <4>2
      <4>3. CASE q \notin {r, k}
        BY <2>1, <4>3 DEF Lineage
      <4> QED BY <4>1, <4>2, <4>3
    <3>3. ASSUME NEW q \in Runs, run'[q].child # 0
          PROVE  /\ run'[run'[q].child].retry = run'[q].retry + 1
                 /\ run'[run'[q].child].status # "none"
      <4>1. CASE q = r
        BY <2>1, <3>1, <4>1
      <4>2. CASE q # r
        <5>1. q # k /\ run'[q] = run[q] /\ run[q].child \in Runs /\ run[q].child # k
          BY <2>1, <2>2, <3>1, <3>3, <4>2, <1>t
        <5>2. CASE run[q].child = r
          <6>1. run'[q].child = r /\ run'[q].retry = run[q].retry /\ run[q].child # 0
            BY <5>1, <5>2, <3>3
          <6>2. run[r].retry = run[q].retry + 1
            BY <5>2, <6>1 DEF Lineage
          <6> QED BY <2>1, <6>1, <6>2
        <5>3. CASE run[q].child # r
          <6>1. run'[run[q].child] = run[run[q].child]
            BY <2>1, <5>1, <5>3
          <6>2. run[q].child # 0 /\ run'[q].child = run[q].child
                /\ run'[q].retry = run[q].retry
            BY <5>1, <3>3
          <6>3. /\ run[run[q].child].retry = run[q].retry + 1
                /\ run[run[q].child].status # "none"
            BY <6>2 DEF Lineage
          <6> QED BY <6>1, <6>2, <6>3
        <5> QED BY <5>2, <5>3
      <4> QED BY <4>1, <4>2
    <3>4. ASSUME NEW p \in Runs, NEW q \in Runs, run'[q].child # 0,
                 run'[q].child = run'[p].child
          PROVE  q = p
      <4>1. \A x \in {p, q} : x # r => x # k /\ run'[x].child = run[x].child
        BY <2>1, <3>1, <3>4
      <4>2. CASE p # r /\ q # r
        BY <3>4, <4>1, <4>2 DEF Lineage
      <4>3. CASE p = r \/ q = r
        BY <2>1, <2>2, <3>4, <4>1, <4>3
      <4> QED BY <4>2, <4>3
    <3> QED BY <3>2, <3>3, <3>4 DEF Lineage
  <2> QED BY <2>3, <2>4
<1> QED BY <1>1, <1>2, <1>3 DEF RowsStep

LEMMA NextJudgeIsHeeded ==
  ASSUME TypeOK, JudgeIsHeeded, RowsStep
  PROVE  JudgeIsHeeded'
<1>1. CASE RowsKeep
  BY <1>1 DEF RowsKeep, JudgeIsHeeded
<1>2. CASE Execute
  <2>1. PICK k \in Runs :
            run' = [run EXCEPT ![k] = [Unborn EXCEPT !.status = "queued"]]
    BY <1>2, ExecuteRows
  <2>2. run'[k].heard = "none" /\ \A q \in Runs : q # k => run'[q] = run[q]
    BY <2>1, QueuedFields DEF TypeOK
  <2> QED BY <2>2 DEF JudgeIsHeeded
<1>3. ASSUME NEW r \in Runs, SettlesNow(r) PROVE JudgeIsHeeded'
  <2>1. PICK k \in 0 .. MaxRuns :
            /\ run[r].judge # "pending"
            /\ run'[r].heard = run[r].judge /\ run'[r].judge = run[r].judge
            /\ k # 0 => run'[k] = Child(r)
            /\ \A q \in Runs : q \notin {r, k} => run'[q] = run[q]
    BY <1>3, SettledRows
  <2>2. ASSUME NEW q \in Runs, q = k PROVE run'[q].heard = "none"
    BY <2>1, <2>2, ChildFields, RunNumbers
  <2> QED BY <2>1, <2>2 DEF JudgeIsHeeded
<1> QED BY <1>1, <1>2, <1>3 DEF RowsStep

\* A verdict and a mark stay; a row that is added has neither.
LEMMA RowsStay ==
  ASSUME TypeOK, RowsAreBorn, RowsStep
  PROVE  \A r \in Runs :
            /\ run[r].verdict # "none" => run'[r].verdict = run[r].verdict
            /\ run[r].reviewed => run'[r].reviewed
            /\ run'[r].reviewed => run[r].reviewed \/ (Doing("mark") /\ r = Subject)
            /\ run'[r].status = "none" => run'[r] = Unborn
            /\ run'[r].verdict = "none" => run[r].verdict = "none"
<1>b. \A r \in Runs : run[r].status = "none" =>
          run[r].verdict = "none" /\ run[r].reviewed = FALSE
  BY UnbornFields DEF RowsAreBorn
<1>1. CASE RowsKeep
  <2>1. ASSUME NEW r \in Runs, run'[r].status = "none" PROVE run'[r] = Unborn
    BY <1>1, <2>1 DEF RowsKeep, RowsAreBorn
  <2> QED BY <1>1, <2>1 DEF RowsKeep
<1>2. CASE Execute
  <2>1. PICK k \in Runs :
            /\ run[k].status = "none"
            /\ run' = [run EXCEPT ![k] = [Unborn EXCEPT !.status = "queued"]]
    BY <1>2, ExecuteRows
  <2>2. /\ run'[k].status = "queued" /\ run'[k].verdict = "none"
        /\ run'[k].reviewed = FALSE
        /\ \A q \in Runs : q # k => run'[q] = run[q]
    BY <2>1, QueuedFields DEF TypeOK
  <2> QED BY <1>b, <2>1, <2>2 DEF RowsAreBorn
<1>3. ASSUME NEW r \in Runs, SettlesNow(r)
      PROVE  \A q \in Runs :
                /\ run[q].verdict # "none" => run'[q].verdict = run[q].verdict
                /\ run'[q].reviewed = run[q].reviewed
                /\ run'[q].status = "none" => run'[q] = Unborn
                /\ run'[q].verdict = "none" => run[q].verdict = "none"
  <2>1. PICK v \in Verdicts, k \in 0 .. MaxRuns :
            /\ v = "retry" => k \in Runs /\ run[k].status = "none"
            /\ v # "retry" => k = 0
            /\ run[r].status # "none" /\ run[r].verdict = "none"
            /\ run'[r].status = run[r].status /\ run'[r].reviewed = run[r].reviewed
            /\ k # 0 => run'[k] = Child(r)
            /\ \A q \in Runs : q \notin {r, k} => run'[q] = run[q]
    BY <1>3, SettledRows
  <2>2. ASSUME NEW q \in Runs, q = k
        PROVE  /\ run[q].status = "none" /\ run'[q].verdict = "none"
               /\ run'[q].reviewed = FALSE /\ run'[q].status = "queued"
    BY <2>1, <2>2, ChildFields, RunNumbers
  <2> QED BY <1>b, <2>1, <2>2 DEF RowsAreBorn
<1> QED BY <1>1, <1>2, <1>3 DEF RowsStep

MarkNames == /\ MarkOf("verdict") = "sent" /\ MarkOf("end") = "sentEnd"
             /\ \A e \in Effects : MarkOf(e) \in Marks /\ MarkOf(e) # "mark"
             /\ \A e, f \in Effects : MarkOf(e) = MarkOf(f) => e = f

LEMMA MarkNamesHold == MarkNames
  BY DEF MarkNames, MarkOf, Marks, Effects

\* What an act finds: nothing in hand for anyone, or the one mark that is due.
LEMMA Hands ==
  ASSUME NEW name \in Marks, NEW r, HandsAre(name, {r})
  PROVE  \A mark \in Marks, q \in Runs :
            q \in InHand(mark) <=> (mark = name /\ q = r)
  BY DEF HandsAre

LEMMA NextRowsAreBorn ==
  ASSUME TypeOK, RowsAreBorn, RowsStep, Quiet \/ Acts \/ (Crash /\ NoHands')
  PROVE  RowsAreBorn'
<1>1. ASSUME NEW r \in Runs
      PROVE  /\ run'[r].status = "none" => run'[r] = Unborn
             /\ run'[r].verdict = "none" => run[r].verdict = "none"
  BY RowsStay
<1>t. effect \in [Runs -> [Effects -> {"none", "pending", "sent"}]]
  BY DEF TypeOK
<1> SUFFICES ASSUME NEW r \in Runs, run'[r].verdict = "none", NEW e \in Effects
             PROVE  effect'[r][e] = "none" /\ r \notin InHand(MarkOf(e))'
  BY <1>1 DEF RowsAreBorn, InHand, HandOf, MarkOf
<1>2. run[r].verdict = "none" /\ effect[r][e] = "none" /\ r \notin InHand(MarkOf(e))
  BY <1>1 DEF RowsAreBorn
<1>3. CASE Quiet
  <2>1. r \notin InHand(MarkOf(e))'
    BY <1>2, <1>3, MarkNamesHold DEF Quiet, MarkNames, InHand, HandOf, MarkOf
  <2>2. effect'[r] = effect[r]
    <3>1. CASE effect' = effect
      BY <3>1
    <3>2. ASSUME NEW q \in Runs, SettlesNow(q) PROVE effect'[r] = effect[r]
      <4>1. run'[q].verdict \in Verdicts /\ \A p \in Runs \ {q} : effect'[p] = effect[p]
        BY <3>2, SettledRows
      <4> QED BY <4>1 DEF Verdicts
    <3> QED BY <1>3, <3>1, <3>2 DEF Quiet
  <2> QED BY <1>2, <2>1, <2>2
<1>4. CASE Crash /\ NoHands'
  BY <1>2, <1>4, MarkNamesHold DEF Crash, db, NoHands, MarkNames, InHand, HandOf, MarkOf
<1>5. ASSUME NEW q \in Runs, NEW f \in Effects, Emits(q, f)
      PROVE  effect'[r][e] = "none" /\ r \notin InHand(MarkOf(e))'
  <2>1. effect' = effect /\ r # q
    <3>1. run[q].verdict # "none"
      BY <1>5 DEF Emits, RowsAreBorn
    <3> QED BY <1>2, <1>5, <3>1 DEF Emits
  <2>2. \A mark \in Marks : InHand(mark)' \subseteq {q}
    BY <1>5 DEF Emits, HandsAre, InHand, HandOf, MarkOf
  <2> QED BY <1>2, <2>1, <2>2, MarkNamesHold DEF MarkNames, InHand, HandOf, MarkOf
<1>6. ASSUME NEW q \in Runs, NEW f \in Effects, Sends(q, f)
      PROVE  effect'[r][e] = "none" /\ r \notin InHand(MarkOf(e))'
  <2>1. q \in InHand(MarkOf(f))
    BY <1>6, Hands, MarkNamesHold DEF Sends, MarkNames
  <2>2. run[q].verdict # "none"
    BY <2>1 DEF RowsAreBorn
  <2>3. r # q /\ effect'[r] = effect[r]
    BY <1>2, <1>6, <2>2, <1>t DEF Sends
  <2> QED BY <1>2, <1>6, <2>3, MarkNamesHold DEF Sends, NoHands, MarkNames, InHand, HandOf,
       MarkOf
<1>7. ASSUME NEW q \in Runs, Tells(q) \/ Marked(q)
      PROVE  effect'[r][e] = "none" /\ r \notin InHand(MarkOf(e))'
  <2>1. effect' = effect
    BY <1>7 DEF Tells, Marked
  <2>2. \A mark \in Marks : mark # "mark" => InHand(mark)' = {}
    BY <1>7 DEF Tells, Marked, HandsAre, NoHands, InHand, HandOf
  <2> QED BY <1>2, <2>1, <2>2, MarkNamesHold DEF MarkNames, InHand, HandOf, MarkOf
<1> QED BY <1>3, <1>4, <1>5, <1>6, <1>7 DEF Acts

LEMMA NextReviewsAreClaimed ==
  ASSUME TypeOK, RowsAreBorn, MarksComeNext, ReviewsAreClaimed, RowsStep,
         Quiet \/ Acts \/ (Crash /\ NoHands')
  PROVE  ReviewsAreClaimed'
<1>m. "mark" \in Marks /\ \A e \in Effects : MarkOf(e) \in Marks /\ MarkOf(e) # "mark"
  BY MarkNamesHold DEF MarkNames, Marks
<1>1. CASE Quiet
  <2>1. InHand("mark")' = InHand("mark")
    BY <1>1, <1>m DEF Quiet
  <2>2. ASSUME NEW r \in inflight'
        PROVE  r \in Runs /\ run[r].verdict # "none"
               /\ (run[r].reviewed => r \in InHand("mark"))
    <3>1. CASE r \in inflight
      BY <3>1 DEF ReviewsAreClaimed, TypeOK
    <3>2. CASE r \notin inflight
      <4>1. r \in Unreviewed
        BY <1>1, <2>2, <3>2 DEF Quiet
      <4> QED BY <4>1 DEF Unreviewed, Attempts, Rows
    <3> QED BY <3>1, <3>2
  <2>3. ASSUME NEW r \in inflight'
        PROVE  run'[r].verdict # "none" /\ (run'[r].reviewed => r \in InHand("mark"))
    BY <2>2, RowsStay, MarkedIsInHand
  <2>4. InHand("mark") \subseteq inflight'
    BY <1>1 DEF Quiet, ReviewsAreClaimed
  <2> QED BY <2>1, <2>3, <2>4 DEF ReviewsAreClaimed
<1>2. CASE Crash /\ NoHands'
  BY <1>2, <1>m DEF Crash, NoHands, ReviewsAreClaimed
<1>3. ASSUME NEW r \in Runs, NEW e \in Effects, Emits(r, e) \/ Sends(r, e)
      PROVE  ReviewsAreClaimed'
  <2>1. UNCHANGED <<run, inflight>> /\ InHand("mark") = {}
    BY <1>3, <1>m DEF Emits, Sends, NoHands, HandsAre
  <2>2. InHand("mark")' = {}
    BY <1>3, <1>m DEF Emits, Sends, NoHands, HandsAre, MarkOf, InHand, HandOf
  <2> QED BY <2>1, <2>2 DEF ReviewsAreClaimed
<1>4. ASSUME NEW r \in Runs, Tells(r) PROVE ReviewsAreClaimed'
  <2>1. /\ UNCHANGED <<run, inflight>> /\ InHand("mark") = {} /\ r \in inflight
        /\ InHand("mark")' = {r}
    BY <1>4, <1>m DEF Tells, NoHands, HandsAre
  <2> QED BY <2>1 DEF ReviewsAreClaimed
<1>5. ASSUME NEW r \in Runs, Marked(r) PROVE ReviewsAreClaimed'
  <2>1. /\ InHand("mark") = {r} /\ InHand("mark")' = {}
        /\ inflight' = inflight \ {r}
        /\ \A q \in Runs : q # r => run'[q] = run[q]
    BY <1>5, <1>m DEF Marked, NoHands, HandsAre, TypeOK
  <2>2. inflight \subseteq Runs
    BY DEF TypeOK
  <2> QED BY <2>1, <2>2 DEF ReviewsAreClaimed
<1> QED BY <1>1, <1>2, <1>3, <1>4, <1>5 DEF Acts

LEMMA NextActsAreMarked ==
  ASSUME TypeOK, RowsAreBorn, ReviewsAreClaimed, ActsAreMarked, RowsStep,
         Quiet \/ Acts \/ (Crash /\ NoHands')
  PROVE  ActsAreMarked'
<1>t. /\ emitted \in [Runs -> [Effects -> Nat]] /\ told \in [Runs -> Nat]
      /\ effect \in [Runs -> [Effects -> {"none", "pending", "sent"}]]
      /\ budget \in [{"executes", "edits", "refusals", "crashes"} -> Nat]
      /\ budget.crashes \in Nat
  BY DEF TypeOK
<1>m. /\ "mark" \in Marks /\ \A e \in Effects : MarkOf(e) \in Marks /\ MarkOf(e) # "mark"
      /\ \A e, f \in Effects : MarkOf(e) = MarkOf(f) => e = f
  BY MarkNamesHold DEF MarkNames, Marks
<1>r. \A r \in Runs : run[r].reviewed => run'[r].reviewed
  BY RowsStay
<1>k. ASSUME NEW r \in Runs
      PROVE  /\ told[r] <= budget.crashes + 1
             /\ \A e \in Effects : emitted[r][e] <= budget.crashes + 1
  BY <1>t DEF ActsAreMarked
<1>n. ASSUME NEW r \in Runs, NEW e \in Effects,
             effect[r][e] # "sent", r \notin InHand(MarkOf(e))
      PROVE  emitted[r][e] <= budget.crashes
  BY <1>n, <1>t DEF ActsAreMarked
<1>o. ASSUME NEW r \in Runs, ~run[r].reviewed, r \notin InHand("mark")
      PROVE  told[r] <= budget.crashes
  BY <1>o, <1>t DEF ActsAreMarked
<1> DEFINE EmitOK(r, e) == emitted'[r][e] <= budget'.crashes +
                 IF effect'[r][e] = "sent" \/ r \in InHand(MarkOf(e))' THEN 1 ELSE 0
           ToldOK(r) == told'[r] <= budget'.crashes +
                 IF run'[r].reviewed \/ r \in InHand("mark")' THEN 1 ELSE 0
<1>q. SUFFICES ASSUME NEW r \in Runs, NEW e \in Effects PROVE EmitOK(r, e) /\ ToldOK(r)
  BY DEF ActsAreMarked, MarkOf, InHand, HandOf, Effects
<1>1. CASE Quiet
  <2>1. /\ emitted' = emitted /\ told' = told /\ budget'.crashes = budget.crashes
        /\ InHand(MarkOf(e))' = InHand(MarkOf(e)) /\ InHand("mark")' = InHand("mark")
    BY <1>1, <1>m DEF Quiet, InHand, HandOf, MarkOf
  <2>2. effect'[r] = effect[r]
        \/ (effect[r][e] # "sent" /\ r \notin InHand(MarkOf(e)))
    <3>1. CASE effect' = effect
      BY <3>1
    <3>2. ASSUME NEW q \in Runs, SettlesNow(q)
          PROVE  \/ effect'[r] = effect[r]
                 \/ effect[r][e] # "sent" /\ r \notin InHand(MarkOf(e))
      <4>1. run[q].verdict = "none" /\ \A p \in Runs \ {q} : effect'[p] = effect[p]
        BY <3>2, SettledRows
      <4> QED BY <4>1 DEF RowsAreBorn
    <3> QED BY <1>1, <3>1, <3>2 DEF Quiet
  <2>3. EmitOK(r, e)
    <3>1. CASE effect'[r] = effect[r]
      BY <2>1, <3>1, <1>t DEF ActsAreMarked
    <3>2. CASE effect[r][e] # "sent" /\ r \notin InHand(MarkOf(e))
      <4>1. emitted'[r][e] <= budget'.crashes
        BY <2>1, <3>2, <1>n
      <4> QED BY <2>1, <4>1, <1>t
    <3> QED BY <2>2, <3>1, <3>2
  <2>4. ToldOK(r)
    <3>1. CASE run[r].reviewed \/ r \in InHand("mark")
      BY <2>1, <3>1, <1>r, <1>k
    <3>2. CASE ~(run[r].reviewed \/ r \in InHand("mark"))
      <4>1. told'[r] <= budget'.crashes
        BY <2>1, <3>2, <1>o
      <4> QED BY <2>1, <4>1, <1>t
    <3> QED BY <3>1, <3>2
  <2> QED BY <2>3, <2>4
<1>2. CASE Crash /\ NoHands'
  <2>1. /\ emitted' = emitted /\ told' = told /\ budget'.crashes = budget.crashes + 1
    BY <1>2, <1>t DEF Crash
  <2>2. told'[r] <= budget'.crashes /\ emitted'[r][e] <= budget'.crashes
    BY <2>1, <1>k
  <2> QED BY <2>1, <2>2, <1>t
<1>3. ASSUME NEW q \in Runs, NEW f \in Effects, Emits(q, f) PROVE EmitOK(r, e) /\ ToldOK(r)
  <2>1. /\ UNCHANGED <<run, effect, told, budget>>
        /\ emitted' = [emitted EXCEPT ![q][f] = @ + 1]
        /\ effect[q][f] = "pending" /\ InHand("mark") = {}
        /\ r \notin InHand(MarkOf(e)) /\ r \notin InHand("mark")
    BY <1>3, <1>m DEF Emits, NoHands
  <2>2. q \in InHand(MarkOf(f))'
    BY <1>3, <1>m DEF Emits, HandsAre, InHand, HandOf, MarkOf
  <2>3. ToldOK(r)
    BY <2>1, <1>t DEF ActsAreMarked
  <2>4. CASE r = q /\ e = f
    <3>1. emitted[r][e] <= budget.crashes /\ emitted'[r][e] = emitted[r][e] + 1
      BY <2>1, <2>4, <1>n, <1>t
    <3>2. r \in InHand(MarkOf(e))'
      BY <2>2, <2>4
    <3> QED BY <2>1, <2>3, <3>1, <3>2, <1>t
  <2>5. CASE ~(r = q /\ e = f)
    <3>1. emitted'[r][e] = emitted[r][e]
      BY <2>1, <2>5, <1>t
    <3> QED BY <2>1, <2>3, <3>1, <1>t DEF ActsAreMarked
  <2> QED BY <2>4, <2>5
<1>4. ASSUME NEW q \in Runs, NEW f \in Effects, Sends(q, f) PROVE EmitOK(r, e) /\ ToldOK(r)
  <2>1. /\ UNCHANGED <<run, emitted, told, budget>>
        /\ effect' = [effect EXCEPT ![q][f] = "sent"]
        /\ HandsAre(MarkOf(f), {q})
    BY <1>4 DEF Sends
  <2>2. r \notin InHand("mark") /\ (r \in InHand(MarkOf(e)) => r = q /\ e = f)
    BY <2>1, <1>m, Hands
  <2>3. ToldOK(r)
    BY <2>1, <2>2, <1>t DEF ActsAreMarked
  <2>4. effect'[r][e] = IF r = q /\ e = f THEN "sent" ELSE effect[r][e]
    BY <2>1, <1>t
  <2> QED BY <2>1, <2>2, <2>3, <2>4, <1>t DEF ActsAreMarked
<1>5. ASSUME NEW q \in Runs, Tells(q) PROVE EmitOK(r, e) /\ ToldOK(r)
  <2>1. /\ UNCHANGED <<run, effect, emitted, budget>>
        /\ told' = [told EXCEPT ![q] = @ + 1] /\ q \in inflight
        /\ InHand("mark")' = {q}
        /\ r \notin InHand(MarkOf(e)) /\ InHand("mark") = {}
    BY <1>5, <1>m DEF Tells, NoHands, HandsAre
  <2>2. EmitOK(r, e)
    BY <2>1, <1>t DEF ActsAreMarked
  <2>3. CASE r = q
    <3>1. ~run[r].reviewed
      BY <2>1, <2>3 DEF ReviewsAreClaimed
    <3>2. told[r] <= budget.crashes /\ told'[r] = told[r] + 1
      BY <2>1, <2>3, <3>1, <1>o, <1>t
    <3> QED BY <2>1, <2>2, <2>3, <3>2, <1>t
  <2>4. CASE r # q
    <3>1. told'[r] = told[r]
      BY <2>1, <2>4, <1>t
    <3> QED BY <2>1, <2>2, <3>1, <1>t DEF ActsAreMarked
  <2> QED BY <2>3, <2>4
<1>6. ASSUME NEW q \in Runs, Marked(q) PROVE EmitOK(r, e) /\ ToldOK(r)
  <2>1. /\ UNCHANGED <<effect, emitted, told, budget>>
        /\ run' = [run EXCEPT ![q].reviewed = TRUE]
        /\ HandsAre("mark", {q})
    BY <1>6 DEF Marked
  <2>2. r \notin InHand(MarkOf(e)) /\ (r \in InHand("mark") => r = q)
    BY <2>1, <1>m, Hands
  <2>3. EmitOK(r, e)
    BY <2>1, <2>2, <1>t DEF ActsAreMarked
  <2>4. r = q => run'[r].reviewed
    <3>1. run \in [Runs -> RunRow] /\ run[q] \in RunRow
      BY DEF TypeOK
    <3> QED BY <2>1, <3>1 DEF RunRow
  <2>5. ToldOK(r)
    <3>1. CASE run[r].reviewed \/ r = q
      BY <2>1, <2>4, <3>1, <1>r, <1>k
    <3>2. CASE ~(run[r].reviewed \/ r = q)
      <4>1. told'[r] <= budget'.crashes
        BY <2>1, <2>2, <3>2, <1>o
      <4> QED BY <2>1, <4>1, <1>t
    <3> QED BY <3>1, <3>2
  <2> QED BY <2>3, <2>5
<1> QED BY <1>1, <1>2, <1>3, <1>4, <1>5, <1>6 DEF Acts

-----------------------------------------------------------------------------
(* The delivery                                                            *)

\* A step that is no step of a delivery leaves its record, git and the branch.
LEMMA PlainDelivery ==
  ASSUME TypeOK, [Next]_vars, ~Deliver, ~Git, ~Delivered, ~Crash
  PROVE  task'.delivery = task.delivery /\ promote' = promote /\ branch' = branch
<1>t. \A s : [task EXCEPT !.status = s].delivery = task.delivery
  BY TaskEdits DEF TypeOK
<1>1. CASE UNCHANGED vars
  BY <1>1 DEF vars, db, memory
<1>2. CASE Step
  BY <1>2, <1>t DEF Step, Settle, Sync, Dispatch, MarkSent, Sent, Rescan, Reconcile,
     Review, MarkReviewed, db
<1>3. CASE Timer \/ Leave \/ Sit \/ Boot
  BY <1>3 DEF Timer, Sweep, ReviewSweep, Leave, Sit, Boot, db, memory
<1>4. CASE User
  BY <1>4, <1>t DEF User, Execute, Redeliver, Edit, db, memory
<1>5. ASSUME NEW r \in Runs, Life(r) \/ Harvest(r) \/ Overdue(r) \/ SendReview(r)
      PROVE  task'.delivery = task.delivery /\ promote' = promote /\ branch' = branch
  BY <1>5, <1>t DEF Life, Spawn, End, Harvest, Accept, AskJudge, JudgeAnswers, Overdue,
     SendReview, db, memory
<1> QED BY <1>1, <1>2, <1>3, <1>4, <1>5 DEF Next

LEMMA NextDelivery ==
  ASSUME TypeOK, RowsAreBorn, PromotesTheClaimed, DeliveredIsAccepted, RowsStep,
         [Next]_vars
  PROVE  PromotesTheClaimed' /\ DeliveredIsAccepted'
<1>t. /\ task.delivery \in Delivery /\ branch \in 0 .. MaxRuns
      /\ promote \in Promote
      /\ \A d : [task EXCEPT !.delivery = d].delivery = d
      /\ \A s : [task EXCEPT !.delivery.state = s].delivery = [task.delivery EXCEPT !.state = s]
  BY DEF TypeOK, Delivery, Promote
<1>g. \A r \in Runs : run[r].verdict = "gate2" => run'[r].verdict = "gate2"
  BY RowsStay
<1>b. branch # 0 => branch \in Runs
  BY <1>t, RunNumbers
<1>1. CASE ~Deliver /\ ~Git /\ ~Delivered /\ ~Crash
  <2>1. task'.delivery = task.delivery /\ promote' = promote /\ branch' = branch
    BY <1>1, PlainDelivery
  <2> QED BY <2>1, <1>g, <1>b DEF PromotesTheClaimed, DeliveredIsAccepted
<1>2. CASE Deliver
  <2>0. run' = run /\ branch' = branch
    BY <1>2 DEF Deliver
  <2>1. CASE /\ Claimable /\ AcceptedTip
             /\ task' = [task EXCEPT !.delivery = [state |-> "delivering", run |-> Tip]]
             /\ promote' = [run |-> Tip, stage |-> "asked"]
    <3>1. Tip \in Runs /\ run[Tip].verdict = "gate2"
      BY <2>1, TipIsARun, RunNumbers DEF AcceptedTip
    <3>2. task'.delivery = [state |-> "delivering", run |-> Tip]
      BY <2>1, <1>t
    <3> QED BY <2>0, <2>1, <3>1, <3>2 DEF PromotesTheClaimed, DeliveredIsAccepted
  <2>2. CASE /\ Claimable
             /\ task' = [task EXCEPT !.delivery = [state |-> "failed", run |-> Tip]]
             /\ UNCHANGED promote
    <3>1. task'.delivery.state = "failed" /\ promote.stage = "none"
      BY <2>2, <1>t DEF Claimable, PromotesTheClaimed
    <3> QED BY <2>0, <2>2, <3>1 DEF PromotesTheClaimed, DeliveredIsAccepted
  <2>3. CASE UNCHANGED <<task, promote>>
    BY <2>0, <2>3 DEF PromotesTheClaimed, DeliveredIsAccepted
  <2> QED BY <1>2, <2>1, <2>2, <2>3 DEF Deliver
<1>3. CASE Git
  <2>1. /\ run' = run /\ task' = task /\ promote.stage = "asked"
        /\ \/ branch' = promote.run /\ promote' = [promote EXCEPT !.stage = "moved"]
           \/ branch' = branch /\ promote' = [promote EXCEPT !.stage = "refused"]
    BY <1>3 DEF Git, db
  <2>2. promote'.run = promote.run /\ (promote'.stage = "moved" => branch' = promote.run)
    BY <2>1, <1>t DEF Promote
  <2>3. run[promote.run].verdict = "gate2" /\ task.delivery.state = "delivering"
        /\ promote.run \in Runs /\ task.delivery = [state |-> "delivering", run |-> promote.run]
    BY <2>1 DEF PromotesTheClaimed
  <2> QED BY <2>1, <2>2, <2>3 DEF PromotesTheClaimed, DeliveredIsAccepted
<1>4. CASE Delivered
  <2>1. /\ run' = run /\ branch' = branch /\ promote' = NoGit
        /\ promote.stage \in {"moved", "refused"}
    BY <1>4 DEF Delivered
  <2>2. /\ task.delivery = [state |-> "delivering", run |-> promote.run]
        /\ promote.stage = "moved" => branch = promote.run
    BY <2>1 DEF PromotesTheClaimed
  <2>3. task'.delivery = [task.delivery EXCEPT !.state =
            IF promote.stage = "moved" THEN "delivered" ELSE "failed"]
    BY <1>4, <2>2, <1>t DEF Delivered, Claimed
  <2>4. /\ task'.delivery.run = promote.run
        /\ task'.delivery.state = "delivered" => promote.stage = "moved"
    BY <2>2, <2>3
  <2> QED BY <2>1, <2>2, <2>4 DEF PromotesTheClaimed, DeliveredIsAccepted, NoGit
<1>5. CASE Crash
  <2>1. /\ run' = run /\ task' = task /\ promote' = NoGit
        /\ branch' = branch \/ (promote.stage = "asked" /\ branch' = promote.run)
    BY <1>5 DEF Crash, db
  <2>2. CASE branch' = branch
    BY <2>1, <2>2 DEF PromotesTheClaimed, DeliveredIsAccepted, NoGit
  <2>3. CASE promote.stage = "asked" /\ branch' = promote.run
    BY <2>1, <2>3 DEF PromotesTheClaimed, DeliveredIsAccepted, NoGit
  <2> QED BY <2>1, <2>2, <2>3
<1> QED BY <1>1, <1>2, <1>3, <1>4, <1>5

-----------------------------------------------------------------------------
(* The theorems                                                            *)

LEMMA InitInv == Init => Inv
<1> SUFFICES ASSUME Init PROVE Inv
  OBVIOUS
<1>1. TypeOK
  BY InitTypes
<1>2. /\ DownIsIdle /\ MarksComeNext
      /\ \A name : InHand(name) = {}
  BY DEF Init, DownIsIdle, MarksComeNext, InHand, HandOf
<1>3. \A r \in Runs : run[r] = Unborn /\ told[r] = 0
         /\ \A e \in Effects : effect[r][e] = "none" /\ emitted[r][e] = 0
  BY DEF Init
<1>4. RowsAreBorn /\ Lineage /\ JudgeIsHeeded
  BY <1>2, <1>3, UnbornFields, RunNumbers DEF RowsAreBorn, Lineage, JudgeIsHeeded
<1>5. ActsAreMarked
  BY <1>2, <1>3 DEF ActsAreMarked, Init
<1>6. ReviewsAreClaimed /\ PromotesTheClaimed /\ DeliveredIsAccepted
  BY <1>2 DEF Init, ReviewsAreClaimed, PromotesTheClaimed, DeliveredIsAccepted, NoGit
<1> QED BY <1>1, <1>2, <1>4, <1>5, <1>6 DEF Inv

LEMMA NextInv == Inv /\ [Next]_vars => Inv'
<1> SUFFICES ASSUME Inv, [Next]_vars PROVE Inv'
  OBVIOUS
<1> USE DEF Inv
<1>1. RowsStep
  BY StepKeepsRows DEF RowsStep
<1>2. MarksComeNext' /\ (Quiet \/ Acts \/ (Crash /\ NoHands'))
  BY StepMarks
<1>3. TypeOK' /\ DownIsIdle'
  BY NextTypes, NextDownIsIdle
<1>4. Lineage' /\ JudgeIsHeeded'
  BY <1>1, NextLineage, NextJudgeIsHeeded
<1>5. RowsAreBorn' /\ ReviewsAreClaimed' /\ ActsAreMarked'
  BY <1>1, <1>2, NextRowsAreBorn, NextReviewsAreClaimed, NextActsAreMarked
<1>6. PromotesTheClaimed' /\ DeliveredIsAccepted'
  BY <1>1, NextDelivery
<1> QED BY <1>2, <1>3, <1>4, <1>5, <1>6

LEMMA Invariance == Spec => []Inv
  BY InitInv, NextInv, PTL DEF Spec

\* The attempts, the task, the outbox and what the event loop has still to do
\* are records of the kinds that the code writes.
THEOREM TypeCorrect == Spec => []TypeOK
<1>1. Inv => TypeOK
  BY DEF Inv
<1> QED BY <1>1, Invariance, PTL

\* settle: a verdict of `retry' and its one child are written together, and no
\* lineage is longer than the budget, whatever sweeps, reconciles and crashes.
THEOREM OneLineageHolds == Spec => []OneLineage
<1>1. Inv => OneLineage
  BY DEF Inv, Lineage, OneLineage, Rows
<1> QED BY <1>1, Invariance, PTL

\* finalizeJudge: a late answer never contradicts the verdict it came too late for.
THEOREM TheJudgeIsHeeded == Spec => []JudgeIsHeeded
<1>1. Inv => JudgeIsHeeded
  BY DEF Inv
<1> QED BY <1>1, Invariance, PTL

\* dispatchEffects and dispatchReview: an act is repeated only over a crash.
THEOREM OnlyACrashRepeats == Spec => []RepeatsNeedCrash
<1>1. Inv => RepeatsNeedCrash
  <2> SUFFICES ASSUME Inv, NEW r \in Runs
               PROVE  /\ \A e \in Effects : emitted[r][e] <= 1 + budget.crashes
                      /\ told[r] <= 1 + budget.crashes
    BY DEF RepeatsNeedCrash
  <2>1. /\ emitted \in [Runs -> [Effects -> Nat]] /\ told \in [Runs -> Nat]
        /\ budget.crashes \in Nat
    BY DEF Inv, TypeOK
  <2> QED BY <2>1 DEF Inv, ActsAreMarked
<1> QED BY <1>1, Invariance, PTL

\* deliver: only an attempt that passed Gate 2 becomes the delivered branch, and
\* a task is not called delivered while its branch points at another attempt.
THEOREM OnlyTheAcceptedIsDelivered == Spec => []DeliveredIsAccepted
<1>1. Inv => DeliveredIsAccepted
  BY DEF Inv
<1> QED BY <1>1, Invariance, PTL
=============================================================================

--------------------------- MODULE WorkerRunProofs ---------------------------
(***************************************************************************)
(* Theorems about WorkerRun for every set of runs, every set of granted    *)
(* runs, every choice of edits and every bound.                            *)
(***************************************************************************)
EXTENDS WorkerRun, TLAPS

-----------------------------------------------------------------------------
(* Type correctness                                                        *)

\* A column of one row of a table is written.
LEMMA RunEdits ==
  ASSUME NEW f \in [Runs -> Run], NEW r \in Runs
  PROVE  /\ \A s \in Statuses : [f EXCEPT ![r].status = s] \in [Runs -> Run]
         /\ \A g \in Nat : [f EXCEPT ![r].gens = g] \in [Runs -> Run]
         /\ [f EXCEPT ![r].tmux = TRUE] \in [Runs -> Run]
         /\ [f EXCEPT ![r].final = TRUE] \in [Runs -> Run]
<1>1. f[r] \in Run
  OBVIOUS
<1>2. ASSUME NEW x \in Run PROVE [f EXCEPT ![r] = x] \in [Runs -> Run]
  OBVIOUS
<1>3. \A s \in Statuses : [f[r] EXCEPT !.status = s] \in Run
  BY <1>1 DEF Run
<1>4. \A g \in Nat : [f[r] EXCEPT !.gens = g] \in Run
  BY <1>1 DEF Run
<1>5. [f[r] EXCEPT !.tmux = TRUE] \in Run
  BY <1>1 DEF Run
<1>6. [f[r] EXCEPT !.final = TRUE] \in Run
  BY <1>1 DEF Run
<1> QED BY <1>2, <1>3, <1>4, <1>5, <1>6

LEMMA LeaseEdits ==
  ASSUME NEW f \in [Runs -> [Gens -> Lease]], NEW r \in Runs, NEW g \in Gens
  PROVE  /\ [f EXCEPT ![r][g].engine = TRUE] \in [Runs -> [Gens -> Lease]]
         /\ [f EXCEPT ![r][g].acquired = TRUE] \in [Runs -> [Gens -> Lease]]
         /\ \A d \in {"no", "noted", "expired"} :
               [f EXCEPT ![r][g].doubt = d] \in [Runs -> [Gens -> Lease]]
<1>1. f[r] \in [Gens -> Lease] /\ f[r][g] \in Lease
  OBVIOUS
<1>2. ASSUME NEW x \in Lease
      PROVE  [f EXCEPT ![r][g] = x] \in [Runs -> [Gens -> Lease]]
  <2>1. [f[r] EXCEPT ![g] = x] \in [Gens -> Lease]
    BY <1>1
  <2> QED BY <2>1
<1>3. /\ [f[r][g] EXCEPT !.engine = TRUE] \in Lease
      /\ [f[r][g] EXCEPT !.acquired = TRUE] \in Lease
      /\ \A d \in {"no", "noted", "expired"} : [f[r][g] EXCEPT !.doubt = d] \in Lease
  BY <1>1 DEF Lease
<1> QED BY <1>2, <1>3

LEMMA HeldGenType == \A r \in Runs : HeldGen(r) \in Nat
  BY DEF HeldGen, Unowned, Holds, Gens

\* Closing a lease, by its own generation or by an observer, keeps the table.
LEMMA ClosedType ==
  ASSUME TypeOK, NEW r \in Runs, NEW g, NEW how \in {"released", "abandoned"}
  PROVE  /\ Closed(r, g, how) \in [Runs -> [Gens -> Lease]]
         /\ ClosedByObserver(r, g) \in [Runs -> [Gens -> Lease]]
<1>1. [NoLease EXCEPT !.state = how] \in Lease
  BY DEF NoLease, Lease
<1>2. [NoLease EXCEPT !.state = "released"] \in Lease
  BY DEF NoLease, Lease
<1>3. Closed(r, g, how) \in [Runs -> [Gens -> Lease]]
  BY <1>1 DEF TypeOK, Closed, Holds
<1>4. ClosedByObserver(r, g) \in [Runs -> [Gens -> Lease]]
  BY <1>2 DEF TypeOK, ClosedByObserver
<1> QED BY <1>3, <1>4

\* A status write and the retry it may enqueue keep the table of the runs.
LEMMA BecomesType ==
  ASSUME TypeOK, NEW r \in Runs, NEW s \in Statuses, Becomes(r, s)
  PROVE  run' \in [Runs -> Run]
<1>1. \A t \in Runs : run[t] \in Run
  BY DEF TypeOK
<1>2. Child(r) \in Run
  BY <1>1 DEF Child, Run, Statuses
<1>3. [run EXCEPT ![r].status = s] \in [Runs -> Run]
  BY SMTT(30), <1>1 DEF TypeOK, Run
<1>4. CASE run' = [run EXCEPT ![r].status = s]
  BY <1>3, <1>4
<1>5. CASE \E c \in Runs \ Roots :
             run' = [run EXCEPT ![r].status = s, ![c] = Child(r)]
  <2>1. PICK c \in Runs \ Roots :
          run' = [run EXCEPT ![r].status = s, ![c] = Child(r)]
    BY <1>5
  <2>2. run' = [[run EXCEPT ![r].status = s] EXCEPT ![c] = Child(r)]
    BY <2>1
  <2> QED BY <2>2, <1>2, <1>3
<1> QED BY <1>4, <1>5 DEF Becomes

LEMMA SpendType ==
  ASSUME TypeOK, NEW what \in {"edits", "cancels", "lost", "crashes"},
         Spend(what)
  PROVE  budget' \in [{"edits", "cancels", "lost", "crashes"} -> Nat]
  BY DEF TypeOK, Spend

LEMMA ProbedType ==
  ASSUME TypeOK, NEW r, NEW trust, NEW seen, Probed(r, trust, seen)
  PROVE  /\ budget' \in [{"edits", "cancels", "lost", "crashes"} -> Nat]
         /\ seen \in {"alive", "dead", "unknown"}
  BY SpendType DEF TypeOK, Probed, OwnerState

LEMMA KillType ==
  ASSUME TypeOK, NEW r \in Runs, Kill(r)
  PROVE  session' \in [Runs -> Nat]
  BY DEF TypeOK, Kill

\* A watcher that stays with a view of the right kind, or leaves it.
LEMMA WatchType ==
  ASSUME TypeOK, NEW w \in Watchers
  PROVE  /\ Leaves(w) => watch' \in [Watchers -> Watch]
         /\ \A v \in View : Goes(w, v) => watch' \in [Watchers -> Watch]
         /\ \A v \in watch[w].todo \cup watch[w].at : v \in View
<1>1. watch \in [Watchers -> Watch]
  BY DEF TypeOK
<1>2. watch[w] \in Watch
  BY <1>1
<1>3. [watch[w] EXCEPT !.at = {}] \in Watch
  BY <1>2 DEF Watch
<1>4. ASSUME NEW v \in View
      PROVE  [watch[w] EXCEPT !.at = {v}] \in Watch
  <2>1. {v} \in SUBSET View
    BY <1>4
  <2> QED BY <1>2, <2>1 DEF Watch
<1>5. \A v \in watch[w].todo \cup watch[w].at : v \in View
  BY <1>2 DEF Watch
<1>6. ASSUME NEW x \in Watch
      PROVE  [watch EXCEPT ![w] = x] \in [Watchers -> Watch]
  BY <1>1
<1>7. Leaves(w) => watch' \in [Watchers -> Watch]
  BY <1>3, <1>6 DEF Leaves
<1>8. \A v \in View : Goes(w, v) => watch' \in [Watchers -> Watch]
  BY <1>4, <1>6 DEF Goes
<1> QED BY <1>5, <1>7, <1>8

LEMMA ListedType ==
  ASSUME TypeOK, NEW r \in Runs, NEW g \in Nat
  PROVE  Listed(r, g) \in View
<1>1. Trusted(r, g) \in BOOLEAN
  BY DEF Trusted
<1>2. run[r].status \in Statuses
  BY DEF TypeOK, Run
<1> QED BY <1>1, <1>2 DEF Listed, View

LEMMA StartsType ==
  ASSUME TypeOK, NEW w \in Watchers, NEW p \in Passes, Starts(w, p)
  PROVE  watch' \in [Watchers -> Watch]
<1>1. \A r \in Runs : Listed(r, 0) \in View /\ Listed(r, HeldGen(r)) \in View
  BY ListedType, HeldGenType
<1> DEFINE todo == CASE p \in {"running", "needs_input"} ->
                         {Listed(r, 0) : r \in {q \in Runs : run[q].status = p}}
                     [] p = "leases" ->
                         {Listed(r, HeldGen(r)) : r \in {q \in Runs : ~ Unowned(q)}}
                     [] OTHER -> {}
<1>2. todo \in SUBSET View
  BY <1>1
<1>3. watch' = [watch EXCEPT ![w] = [pass |-> p, at |-> {}, todo |-> todo]]
  BY DEF Starts
<1> HIDE DEF todo
<1>4. [pass |-> p, at |-> {}, todo |-> todo] \in Watch
  BY <1>2 DEF Watch
<1> QED BY <1>3, <1>4 DEF TypeOK

\* Every step keeps the types.
LEMMA NextKeepsTypes == TypeOK /\ [Next]_vars => TypeOK'
<1> SUFFICES ASSUME TypeOK, [Next]_vars
             PROVE  TypeOK'
  OBVIOUS
<1> USE WorkerAssumption
<1>r. \A r \in Runs : /\ run[r] \in Run
                      /\ \A g \in Gens : lease[r][g] \in Lease
  BY DEF TypeOK
<1>n. Gens \subseteq Nat /\ \A r \in Runs : HeldGen(r) \in Nat
  BY HeldGenType DEF Gens
<1>1. ASSUME NEW r \in Runs, Submit(r) PROVE TypeOK'
  <2>1. run' \in [Runs -> Run]
    BY <1>1, RunEdits DEF TypeOK, Submit, Statuses
  <2> QED BY <1>1, <2>1 DEF TypeOK, Submit, node
<1>2. ASSUME NEW r \in Runs, NEW s \in Edits, PatchStatus(r, s) PROVE TypeOK'
  <2>1. s \in Statuses
    BY DEF Statuses, Active, Terminal
  <2>2. run' \in [Runs -> Run]
    BY <1>2, <2>1, BecomesType DEF PatchStatus
  <2>3. budget' \in [{"edits", "cancels", "lost", "crashes"} -> Nat]
    BY <1>2, SpendType DEF PatchStatus
  <2> QED BY <1>2, <2>2, <2>3 DEF TypeOK, PatchStatus, node
<1>3. ASSUME NEW r \in Runs, Claim(r) PROVE TypeOK'
  <2>0. [run EXCEPT ![r].status = "running"] \in [Runs -> Run]
    BY RunEdits DEF TypeOK, Statuses, Active
  <2>1. run' \in [Runs -> Run]
    <3>1. run[r].gens + 1 \in Nat
      BY <1>r DEF Run
    <3>2. run' = [[run EXCEPT ![r].status = "running"]
                     EXCEPT ![r].gens = run[r].gens + 1]
      BY <1>3 DEF Claim
    <3> QED BY <2>0, <3>1, <3>2, RunEdits
  <2>2. /\ [NoLease EXCEPT !.state = "held"] \in Lease
        /\ [NoLease EXCEPT !.state = "abandoned"] \in Lease
    BY DEF NoLease, Lease
  <2>3. lease' \in [Runs -> [Gens -> Lease]]
    BY <1>3, <2>2 DEF TypeOK, Claim
  <2>4. [run |-> r, gen |-> run[r].gens + 1, phase |-> "preparing"] \in Spawn
    BY <1>r DEF Spawn, Run
  <2>5. spawns' \subseteq Spawn
    BY <1>3, <2>4 DEF TypeOK, Claim
  <2> QED BY <1>3, <2>1, <2>3, <2>5 DEF TypeOK, Claim, node
<1>4. ASSUME NEW r \in Runs, CancelBegins(r) PROVE TypeOK'
  <2>1. Trusted(r, HeldGen(r)) \in BOOLEAN
    BY DEF Trusted
  <2>2. cancels' \subseteq Cancel
    <3>1. [run |-> r, gen |-> HeldGen(r), trust |-> Trusted(r, HeldGen(r)),
           stage |-> IF HeldGen(r) = 0 THEN "kill" ELSE "probe",
           killed |-> FALSE] \in Cancel
      BY <1>n, <2>1 DEF Cancel
    <3> QED BY <1>4, <3>1 DEF TypeOK, CancelBegins
  <2>3. budget' \in [{"edits", "cancels", "lost", "crashes"} -> Nat]
    BY <1>4, SpendType DEF CancelBegins
  <2> QED BY <1>4, <2>2, <2>3 DEF TypeOK, CancelBegins, node
<1>5. ASSUME NEW s \in spawns, SpawnStep(s) PROVE TypeOK'
  <2>s. s \in Spawn /\ s.run \in Runs /\ s.gen \in Nat
    BY DEF TypeOK, Spawn
  <2>d. Drops(s) => spawns' \subseteq Spawn
    BY DEF TypeOK, Drops
  <2>m. \A p \in {"starting", "sealing", "unwinding"} :
           Moves(s, p) => spawns' \subseteq Spawn
    BY <2>s DEF TypeOK, Moves, Spawn
  <2>c. \A how \in {"released"} :
           Closed(s.run, s.gen, how) \in [Runs -> [Gens -> Lease]]
    BY <2>s, ClosedType
  <2>h. Startable(s.run, s.gen) => s.gen \in Gens
    BY DEF Startable, Holds
  <2>f. Becomes(s.run, "failed") => run' \in [Runs -> Run]
    BY <2>s, BecomesType DEF Statuses, Terminal
  <2>x. SpawnErrs(s) => starting' \subseteq Runs \X Gens
    BY DEF TypeOK, SpawnErrs
  <2>b. Unanswered => budget' \in [{"edits", "cancels", "lost", "crashes"} -> Nat]
    BY SpendType DEF Unanswered
  <2>r. [run EXCEPT ![s.run].status = "running", ![s.run].tmux = TRUE]
          \in [Runs -> Run]
    BY <2>s, RunEdits DEF TypeOK, Statuses, Active
  <2>l. s.gen \in Gens =>
          /\ [lease EXCEPT ![s.run][s.gen].acquired = TRUE]
               \in [Runs -> [Gens -> Lease]]
          /\ [lease EXCEPT ![s.run][s.gen].engine = TRUE]
               \in [Runs -> [Gens -> Lease]]
    BY <2>s, LeaseEdits DEF TypeOK
  <2>1. CASE SpawnSends(s)
    <3>1. starting' \subseteq Runs \X Gens
      BY <2>1, <2>s, <2>h DEF TypeOK, SpawnSends
    <3> QED BY <2>1, <2>m, <2>h, <2>l, <3>1 DEF TypeOK, SpawnSends
  <2>2. CASE SpawnAborts(s)
    <3>1. run' \in [Runs -> Run]
      BY <2>2, <2>s, RunEdits DEF TypeOK, SpawnAborts, Statuses
    <3> QED BY <2>2, <2>c, <2>d, <3>1 DEF TypeOK, SpawnAborts, node
  <2>3. CASE SpawnFails(s)
    BY <2>3, <2>f, <2>m, <2>x DEF TypeOK, SpawnFails
  <2>4. CASE SpawnStale(s)
    BY <2>4, <2>c, <2>d, <2>x DEF TypeOK, SpawnStale
  <2>5. CASE SpawnUnwinds(s)
    BY <2>5, <2>c, <2>d DEF TypeOK, SpawnUnwinds, node
  <2>6. CASE SetupFails(s)
    BY <2>6, <2>f, <2>c, <2>d DEF TypeOK, SetupFails, node
  <2>10. CASE AssetsUnsupported(s)
    <3>1. [run EXCEPT ![s.run].status = "failed"] \in [Runs -> Run]
      BY <2>s, RunEdits DEF TypeOK, Statuses, Terminal
    <3>2. run' \in [Runs -> Run]
      <4>1. run' = [[run EXCEPT ![s.run].status = "failed"]
                       EXCEPT ![s.run].final = TRUE]
        BY <2>10 DEF AssetsUnsupported
      <4> QED BY <2>s, <3>1, <4>1, RunEdits
    <3> QED BY <2>10, <2>m, <3>2 DEF TypeOK, AssetsUnsupported, node
  <2>11. CASE SetupThrows(s)
    BY <2>11, <2>c, <2>d DEF TypeOK, SetupThrows, node
  <2>7. CASE SpawnAcked(s)
    BY <2>7, <2>r, <2>l, <2>h, <2>d, <2>m DEF TypeOK, SpawnAcked, MarkStarted, node
  <2>8. CASE SpawnSealed(s)
    <3>1. session' \in [Runs -> Nat]
      BY <2>8, <2>s, KillType DEF TypeOK, SpawnSealed
    <3> QED BY <2>8, <2>d, <2>b, <3>1 DEF TypeOK, SpawnSealed, Answered
  <2>9. CASE SpawnUncertain(s)
    BY <2>9, <2>r, <2>l, <2>h, <2>d, <2>b
       DEF TypeOK, SpawnUncertain, Uncertain, node
  <2> QED BY <1>5, <2>1, <2>2, <2>3, <2>4, <2>5, <2>6, <2>7, <2>8, <2>9, <2>10,
             <2>11 DEF SpawnStep
<1>6. ASSUME NodeStep PROVE TypeOK'
  <2>1. ASSUME NEW r \in Runs, NEW g \in Gens, NodeStarts(r, g) PROVE TypeOK'
    <3>1. \A s \in Spawn, p \in {"started", "refused"} :
             [s EXCEPT !.phase = p] \in Spawn
      BY DEF Spawn
    <3>2. spawns' \subseteq Spawn
      BY ZenonT(60), <2>1, <3>1 DEF TypeOK, NodeStarts
    <3>3. session' \in [Runs -> Nat] /\ starting' \subseteq Runs \X Gens
      BY <2>1, <1>n DEF TypeOK, NodeStarts
    <3> QED BY <2>1, <3>2, <3>3 DEF TypeOK, NodeStarts
  <2>2. ASSUME NEW r \in Runs, NEW g \in Gens, NeverStarts(r, g) PROVE TypeOK'
    BY <2>2 DEF TypeOK, NeverStarts
  <2>3. ASSUME NEW r \in Runs, NEW ok \in BOOLEAN, WorkerExits(r, ok) PROVE TypeOK'
    <3>1. [gen |-> session[r], ok |-> ok] \in Exit
      BY DEF TypeOK, Exit
    <3> QED BY <2>3, <3>1 DEF TypeOK, WorkerExits
  <2>4. ASSUME NEW r \in Runs, SessionLost(r) PROVE TypeOK'
    BY <2>4, SpendType DEF TypeOK, SessionLost
  <2> QED BY <1>6, <2>1, <2>2, <2>3, <2>4 DEF NodeStep
<1>7. ASSUME CheckBegins PROVE TypeOK'
  <2>1. Starts("health", "running")
    BY <1>7 DEF CheckBegins
  <2>2. watch' \in [Watchers -> Watch]
    BY <2>1, StartsType DEF Watchers, Passes
  <2> QED BY <1>7, <2>2 DEF TypeOK, CheckBegins, node
<1>8. ASSUME NEW w \in Watchers, WatchStep(w) PROVE TypeOK'
  <2>w. watch[w] \in Watch /\ w \in {"health", "boot", "seal", "cancel"}
    BY DEF TypeOK, Watchers
  <2>v. \A v \in watch[w].todo \cup watch[w].at :
          /\ v \in View /\ v.run \in Runs /\ v.gen \in Nat
          /\ v.seen \in {"alive", "dead", "unknown"}
    BY WatchType DEF View
  <2>e. \A v \in watch[w].at : exit[v.run].ok \in BOOLEAN
    BY <2>v DEF TypeOK, Exit
  <2>g. \A v \in View : Goes(w, v) => watch' \in [Watchers -> Watch]
    BY WatchType
  <2>l. Leaves(w) => watch' \in [Watchers -> Watch]
    BY WatchType
  <2>t. \A r \in Runs, g \in Nat : Trusted(r, g) \in BOOLEAN
    BY DEF Trusted
  <2>b. Unanswered => budget' \in [{"edits", "cancels", "lost", "crashes"} -> Nat]
    BY SpendType DEF Unanswered
  <2>1. CASE NextPass(w)
    <3>1. PICK p \in Passes : Starts(w, p)
      BY <2>1 DEF NextPass, Passes
    <3>2. watch' \in [Watchers -> Watch]
      BY <3>1, StartsType
    <3> QED BY <2>1, <3>2 DEF TypeOK, NextPass, node
  <2>2. ASSUME NEW v \in watch[w].todo, Visit(w, v) PROVE TypeOK'
    <3> DEFINE g == IF watch[w].pass = "leases" THEN v.gen ELSE HeldGen(v.run)
               u == [v EXCEPT !.gen = g, !.stage = "probe",
                       !.trust = CASE watch[w].pass = "granted" -> TRUE
                                   [] watch[w].pass = "leases" -> v.trust
                                   [] OTHER -> Trusted(v.run, g)]
    <3>1. v \in View /\ v.run \in Runs /\ g \in Nat
      BY <2>v, <1>n
    <3>2. Trusted(v.run, g) \in BOOLEAN /\ v.trust \in BOOLEAN
      BY <2>t, <3>1 DEF View
    <3> HIDE DEF g
    <3>3. u \in View
      BY <3>1, <3>2 DEF View
    <3>4. watch' = [watch EXCEPT ![w].todo = @ \ {v}, ![w].at = {u}]
      BY <2>2 DEF Visit, g
    <3> HIDE DEF u
    <3>5. [watch EXCEPT ![w].todo = @ \ {v}] \in [Watchers -> Watch]
      <4>1. [watch[w] EXCEPT !.todo = @ \ {v}] \in Watch
        BY <2>w DEF Watch
      <4> QED BY <4>1 DEF TypeOK
    <3>6. ASSUME NEW f \in [Watchers -> Watch]
          PROVE  [f EXCEPT ![w].at = {u}] \in [Watchers -> Watch]
      <4>1. {u} \in SUBSET View /\ f[w] \in Watch
        BY <3>3
      <4>2. [f[w] EXCEPT !.at = {u}] \in Watch
        BY <4>1 DEF Watch
      <4> QED BY <4>2
    <3>7. watch' \in [Watchers -> Watch]
      <4>1. watch' = [[watch EXCEPT ![w].todo = @ \ {v}] EXCEPT ![w].at = {u}]
        BY <3>4
      <4> QED BY <3>5, <3>6, <4>1
    <3> QED BY <2>2, <3>7 DEF TypeOK, Visit, node
  <2>3. ASSUME NEW v \in watch[w].at, NEW seen, Answer(w, v, seen) PROVE TypeOK'
    <3>v. v \in View /\ v.run \in Runs /\ v.gen \in Nat
      BY <2>v
    <3>1. /\ budget' \in [{"edits", "cancels", "lost", "crashes"} -> Nat]
          /\ seen \in {"alive", "dead", "unknown"}
      BY <2>3, ProbedType DEF Answer
    <3> DEFINE u == [v EXCEPT !.seen = seen]
    <3>2. u \in View /\ u.run = v.run /\ u.gen = v.gen
      BY <3>v, <3>1 DEF View
    <3>3. RunAnswers(w, u) \/ LeaseAnswers(w, u) \/ GrantAnswers(w, u)
      BY <2>3 DEF Answer
    <3> HIDE DEF u
    <3>4. \A ok \in BOOLEAN : [u EXCEPT !.stage = "judge", !.ok = ok] \in View
      BY <3>2 DEF View
    <3>5. \A st \in {"judge", "look", "revoke"} : [u EXCEPT !.stage = st] \in View
      BY <3>2 DEF View
    <3>6. exit[u.run].ok \in BOOLEAN
      BY <3>2, <2>e
    <3>7. \A d \in {"no", "noted"} : Doubted(u, d) \in [Runs -> [Gens -> Lease]]
      BY <3>2, <3>v, LeaseEdits DEF TypeOK, Doubted, Holds
    <3>8. ASSUME Holds(u.run, u.gen)
          PROVE  [lease EXCEPT ![u.run][u.gen].acquired = TRUE,
                               ![u.run][u.gen].doubt = "no"]
                   \in [Runs -> [Gens -> Lease]]
      <4> DEFINE f == [lease EXCEPT ![u.run][u.gen].acquired = TRUE]
      <4>1. u.run \in Runs /\ u.gen \in Gens
        BY <3>2, <3>v, <3>8 DEF Holds
      <4>2. f \in [Runs -> [Gens -> Lease]]
        BY <4>1, LeaseEdits DEF TypeOK
      <4> HIDE DEF f
      <4>3. [f EXCEPT ![u.run][u.gen].doubt = "no"] \in [Runs -> [Gens -> Lease]]
        BY <4>1, <4>2, LeaseEdits
      <4> QED BY <4>3 DEF f
    <3>9. watch' \in [Watchers -> Watch]
      BY <3>3, <3>4, <3>5, <3>6, <2>g, <2>l
         DEF RunAnswers, LeaseAnswers, GrantAnswers
    <3>10. Closed(u.run, u.gen, "released") \in [Runs -> [Gens -> Lease]]
      BY <3>2, <3>v, ClosedType
    <3>11. lease' \in [Runs -> [Gens -> Lease]]
      <4>1. CASE RunAnswers(w, u)
        BY <4>1, <3>7 DEF TypeOK, RunAnswers
      <4>2. CASE LeaseAnswers(w, u)
        BY <4>2, <3>7, <3>8, <3>10 DEF TypeOK, LeaseAnswers
      <4>3. CASE GrantAnswers(w, u)
        BY <4>3 DEF TypeOK, GrantAnswers
      <4> QED BY <3>3, <4>1, <4>2, <4>3
    <3> QED BY <2>3, <3>1, <3>9, <3>11 DEF TypeOK, Answer, node
  <2>4. ASSUME NEW v \in watch[w].at, NEW seen, Reprobe(w, v, seen) PROVE TypeOK'
    <3>1. budget' \in [{"edits", "cancels", "lost", "crashes"} -> Nat]
      BY <2>4, ProbedType DEF Reprobe
    <3>2. [v EXCEPT !.stage = "judge", !.seen = "dead", !.ok = exit[v.run].ok] \in View
      <4>1. \A ok \in BOOLEAN :
              [v EXCEPT !.stage = "judge", !.seen = "dead", !.ok = ok] \in View
        <5>1. v \in View
          BY <2>v
        <5> QED BY <5>1 DEF View
      <4> QED BY <4>1, <2>e
    <3>3. watch' \in [Watchers -> Watch]
      BY <2>4, <3>2, <2>g, <2>l DEF Reprobe
    <3>4. run' \in [Runs -> Run]
      BY <2>4, <2>v, BecomesType DEF TypeOK, Reprobe, Statuses, Active
    <3> QED BY <2>4, <3>1, <3>3, <3>4 DEF TypeOK, Reprobe, node
  <2>5. ASSUME NEW v \in watch[w].at, Judge(w, v) PROVE TypeOK'
    <3>1. [v EXCEPT !.stage = "kill"] \in View
      BY <2>v DEF View
    <3>2. run' \in [Runs -> Run]
      BY <2>5, <2>v, BecomesType DEF TypeOK, Judge, Statuses, Terminal
    <3>3. watch' \in [Watchers -> Watch]
      BY <2>5, <3>1, <2>g, <2>l DEF Judge
    <3> QED BY <2>5, <3>2, <3>3 DEF TypeOK, Judge, node
  <2>6. ASSUME NEW v \in watch[w].at, Kills(w, v) PROVE TypeOK'
    <3>1. \A st \in {"killed", "revoked"} : [v EXCEPT !.stage = st] \in View
      BY <2>v DEF View
    <3>2. watch' \in [Watchers -> Watch]
      BY <2>6, <3>1, <2>g DEF Kills
    <3>3. session' \in [Runs -> Nat]
      BY <2>6, <2>v, <2>w, KillType DEF Kills
    <3> QED BY <2>6, <3>2, <3>3 DEF TypeOK, Kills
  <2>7. ASSUME NEW v \in watch[w].at, Settle(w, v) PROVE TypeOK'
    <3>1. lease' \in [Runs -> [Gens -> Lease]]
      BY <2>7, <2>v, ClosedType DEF TypeOK, Settle
    <3> QED BY <2>7, <3>1, <2>l DEF TypeOK, Settle, node
  <2>8. ASSUME NEW v \in watch[w].at, Look(w, v) PROVE TypeOK'
    <3>1. [v EXCEPT !.stage = "reprobe", !.gen = HeldGen(v.run),
                    !.trust = Trusted(v.run, HeldGen(v.run))] \in View
      <4>1. \A g \in Nat, x \in BOOLEAN :
              [v EXCEPT !.stage = "reprobe", !.gen = g, !.trust = x] \in View
        <5>1. v \in View
          BY <2>v
        <5> QED BY <5>1 DEF View
      <4> QED BY <4>1, <2>v, <2>t, <1>n
    <3> QED BY <2>8, <3>1, <2>g, <2>l DEF TypeOK, Look, node
  <2>9. ASSUME NEW v \in watch[w].at, Resumes(w, v) PROVE TypeOK'
    <3>1. run' \in [Runs -> Run]
      BY <2>9, <2>v, BecomesType DEF Resumes, Statuses, Active
    <3> QED BY <2>9, <3>1, <2>l DEF TypeOK, Resumes, node
  <2>10. ASSUME NEW v \in watch[w].at, Revoked(w, v) PROVE TypeOK'
    <3>1. run' \in [Runs -> Run]
      BY <2>10, <2>v, BecomesType DEF TypeOK, Revoked, Statuses, Terminal
    <3> QED BY <2>10, <3>1, <2>l DEF TypeOK, Revoked, node
  <2>11. ASSUME NEW v \in watch[w].at, CallFails(w, v) PROVE TypeOK'
    <3>1. [v EXCEPT !.stage = "killed"] \in View
      BY <2>v DEF View
    <3>2. [pass |-> "needs_input", todo |-> {}, at |-> {}] \in Watch
      BY DEF Watch, Passes
    <3>3. watch' \in [Watchers -> Watch]
      BY <2>11, <3>1, <3>2, <2>g, <2>l DEF TypeOK, CallFails
    <3>4. session' \in [Runs -> Nat]
      BY <2>11, <2>v, <2>w, KillType DEF TypeOK, CallFails
    <3> QED BY <2>11, <3>3, <3>4, <2>b DEF TypeOK, CallFails
  <2> QED BY <1>8, <2>1, <2>2, <2>3, <2>4, <2>5, <2>6, <2>7, <2>8, <2>9, <2>10,
             <2>11 DEF WatchStep
<1>9. ASSUME NEW r \in Runs, NEW g \in Gens, Expire(r, g) PROVE TypeOK'
  <2>1. lease' \in [Runs -> [Gens -> Lease]]
    BY <1>9, LeaseEdits DEF TypeOK, Expire
  <2> QED BY <1>9, <2>1 DEF TypeOK, Expire, node
<1>10. ASSUME NEW c \in cancels, CancelStep(c) PROVE TypeOK'
  <2>c. c \in Cancel /\ c.run \in Runs /\ c.gen \in Nat
    BY DEF TypeOK, Cancel
  <2>m. \A d \in Cancel : CancelMoves(c, d) => cancels' \subseteq Cancel
    BY DEF TypeOK, CancelMoves
  <2>k. \A how \in {"released", "abandoned"} :
           Closed(c.run, c.gen, how) \in [Runs -> [Gens -> Lease]]
    BY <2>c, ClosedType
  <2>1. ASSUME NEW seen, CancelProbed(c, seen) PROVE TypeOK'
    <3>1. budget' \in [{"edits", "cancels", "lost", "crashes"} -> Nat]
      BY <2>1, ProbedType DEF CancelProbed
    <3>2. /\ [c EXCEPT !.stage = "kill", !.gen = 0] \in Cancel
          /\ [c EXCEPT !.stage = "kill"] \in Cancel
      BY <2>c DEF Cancel
    <3> QED BY <2>1, <3>1, <3>2, <2>m, <2>k DEF TypeOK, CancelProbed, node
  <2>2. CASE CancelKills(c)
    <3>1. \A k \in BOOLEAN : [c EXCEPT !.stage = "done", !.killed = k] \in Cancel
      BY <2>c DEF Cancel
    <3>2. [c EXCEPT !.stage = "done"] \in Cancel
      BY <2>c DEF Cancel
    <3>3. session' \in [Runs -> Nat]
      BY <2>2, <2>c, KillType DEF TypeOK, CancelKills
    <3>4. budget' \in [{"edits", "cancels", "lost", "crashes"} -> Nat]
      BY <2>2, SpendType DEF TypeOK, CancelKills, Answered, Unanswered
    <3>5. cancels' \subseteq Cancel
      BY <2>2, <3>1, <3>2, <2>m DEF CancelKills
    <3> QED BY <2>2, <3>3, <3>4, <3>5 DEF TypeOK, CancelKills
  <2>3. CASE CancelFinishes(c)
    <3>1. run' \in [Runs -> Run]
      BY <2>3, <2>c, BecomesType DEF CancelFinishes, Statuses, Terminal
    <3> QED BY <2>3, <3>1, <2>k DEF TypeOK, CancelFinishes, node
  <2> QED BY <1>10, <2>1, <2>2, <2>3 DEF CancelStep
<1>11. ASSUME Shutdown PROVE TypeOK'
  BY <1>11, SpendType DEF TypeOK, Shutdown, node
<1>12. ASSUME Exits \/ Crash PROVE TypeOK'
  <2>1. Resting \in Watch
    BY DEF Resting, Watch, Passes
  <2>2. watch' \in [Watchers -> Watch]
    BY <1>12, <2>1 DEF Exits, Crash, Ends
  <2>3. budget' \in [{"edits", "cancels", "lost", "crashes"} -> Nat]
    BY <1>12, SpendType DEF TypeOK, Exits, Crash
  <2> QED BY <1>12, <2>2, <2>3 DEF TypeOK, Exits, Crash, Ends, node
<1>13. ASSUME Boot PROVE TypeOK'
  <2>1. \A r \in Runs : Listed(r, 0) \in View
    BY ListedType
  <2>2. [pass |-> "granted", at |-> {},
         todo |-> {Listed(r, 0) : r \in {q \in Granted :
                        run[q].status \in Active /\ run[q].gens > 0}}] \in Watch
    BY <2>1 DEF Watch, Passes
  <2>3. watch' \in [Watchers -> Watch]
    BY <1>13, <2>2 DEF TypeOK, Boot
  <2> QED BY <1>13, <2>3 DEF TypeOK, Boot, node
<1>14. CASE UNCHANGED vars
  BY <1>14 DEF TypeOK, vars
<1> QED
  BY <1>1, <1>2, <1>3, <1>4, <1>5, <1>6, <1>7, <1>8, <1>9, <1>10, <1>11,
     <1>12, <1>13, <1>14 DEF Next

LEMMA InitHasTypes == Init => TypeOK
<1> SUFFICES ASSUME Init PROVE TypeOK
  OBVIOUS
<1>1. run \in [Runs -> Run]
  BY DEF Init, Run, Statuses
<1>2. lease \in [Runs -> [Gens -> Lease]]
  BY DEF Init, NoLease, Lease
<1>3. watch \in [Watchers -> Watch]
  BY DEF Init, Resting, Watch, Passes
<1>4. exit \in [Runs -> Exit]
  BY DEF Init, Exit
<1>5. budget \in [{"edits", "cancels", "lost", "crashes"} -> Nat]
  BY WorkerAssumption DEF Init
<1> QED BY <1>1, <1>2, <1>3, <1>4, <1>5 DEF Init, TypeOK

\* Runs, leases, the node's files and every stage of every handler keep their
\* types, for every set of runs and every bound.
THEOREM TypeCorrect == Spec => []TypeOK
  BY InitHasTypes, NextKeepsTypes, PTL DEF Spec

-----------------------------------------------------------------------------
(* Owners.  A step either claims one run, or closes leases of at most one  *)
(* run and writes statuses without putting an owned run into the queue.    *)

\* A run that does not exist yet has never been claimed.
NoneIsFresh == \A r \in Runs : run[r].status = "none" => run[r].gens = 0

\* Only the last generation can hold the lease.
HeldIsLatest == \A r \in Runs, g \in Gens :
                    lease[r][g].state = "held" => g = run[r].gens

OwnerInv == TypeOK /\ NoneIsFresh /\ HeldIsLatest /\ QueuedIsUnowned

StateChanges(r, g) == lease'[r][g].state # lease[r][g].state

LeasesOnlyClose ==
  /\ \A r \in Runs, g \in Gens :
        StateChanges(r, g) => /\ lease[r][g].state = "held"
                              /\ lease'[r][g].state \in {"released", "abandoned"}
  /\ \A p, q \in Runs, g, h \in Gens :
        StateChanges(p, g) /\ StateChanges(q, h) => p = q

NoOwnedRunIsQueued ==
  /\ \A r \in Runs :
        /\ run'[r].gens = run[r].gens
        /\ run'[r].status = "none" => run[r].status = "none"
        /\ run'[r].status = "queued"
              => run[r].status \in {"none", "queued"} \/ Unowned(r)'
  /\ OneRetry => OneRetry'

LEMMA ClosingCloses ==
  ASSUME TypeOK, NEW r \in Runs, NEW g, NEW how \in {"released", "abandoned"},
         lease' = Closed(r, g, how) \/ lease' = ClosedByObserver(r, g)
  PROVE  LeasesOnlyClose
<1>1. [NoLease EXCEPT !.state = how].state = how
  BY DEF NoLease
<1>2. [NoLease EXCEPT !.state = "released"].state = "released"
  BY DEF NoLease
<1>3. CASE lease' = Closed(r, g, how)
  <2>1. \A p \in Runs, h \in Gens : StateChanges(p, h) =>
           p = r /\ h = g /\ Holds(r, g) /\ lease'[p][h].state = how
    BY <1>1, <1>3 DEF TypeOK, Closed, StateChanges, Holds
  <2> QED BY <2>1 DEF LeasesOnlyClose, Holds
<1>4. CASE lease' = ClosedByObserver(r, g)
  <2>1. \A p \in Runs, h \in Gens : StateChanges(p, h) =>
           p = r /\ Holds(r, h) /\ lease'[p][h].state = "released"
    BY <1>2, <1>4 DEF TypeOK, ClosedByObserver, StateChanges, Holds
  <2> QED BY <2>1 DEF LeasesOnlyClose, Holds
<1> QED BY <1>3, <1>4

LEMMA SameLeases == lease' = lease => LeasesOnlyClose
  BY DEF LeasesOnlyClose, StateChanges

LEMMA SameRuns == run' = run => NoOwnedRunIsQueued
  BY DEF NoOwnedRunIsQueued, OneRetry

\* A plain status write other than `queued'.
LEMMA StatusWrites ==
  ASSUME TypeOK, NEW r \in Runs, NEW s \in Statuses \ {"none", "queued"},
         run' = [run EXCEPT ![r].status = s]
           \/ run' = [run EXCEPT ![r].status = s, ![r].tmux = TRUE]
           \/ run' = [run EXCEPT ![r].status = s, ![r].final = TRUE]
  PROVE  NoOwnedRunIsQueued
<1>1. \A q \in Runs : /\ run'[q].gens = run[q].gens
                      /\ run'[q].root = run[q].root
                      /\ run'[q].retry = run[q].retry
                      /\ run'[q].status = IF q = r THEN s ELSE run[q].status
  BY DEF TypeOK, Run
<1> QED BY <1>1 DEF NoOwnedRunIsQueued, OneRetry

\* updateRunStatus: the retry it enqueues is a new run, and the only one of
\* its attempt number.
LEMMA BecomesCalmly ==
  ASSUME TypeOK, NoneIsFresh, NEW r \in Runs, NEW s \in Statuses \ {"none"},
         s = "queued" => Unowned(r)', Becomes(r, s)
  PROVE  NoOwnedRunIsQueued
<1>1. CASE run' = [run EXCEPT ![r].status = s]
  <2>1. \A q \in Runs : /\ run'[q].gens = run[q].gens
                        /\ run'[q].root = run[q].root
                        /\ run'[q].retry = run[q].retry
                        /\ run'[q].status = IF q = r THEN s ELSE run[q].status
    BY <1>1 DEF TypeOK, Run
  <2> QED BY <2>1 DEF NoOwnedRunIsQueued, OneRetry
<1>2. ASSUME WantsRetry(r), NEW c \in Runs, run[c].status = "none",
             run' = [run EXCEPT ![r].status = s, ![c] = Child(r)]
      PROVE  NoOwnedRunIsQueued
  <2>1. run[c].gens = 0 /\ c # r
    BY <1>2 DEF NoneIsFresh, WantsRetry
  <2>2. run'[c] = Child(r)
    BY <1>2 DEF TypeOK
  <2>3. \A q \in Runs \ {c} : /\ run'[q].gens = run[q].gens
                              /\ run'[q].root = run[q].root
                              /\ run'[q].retry = run[q].retry
                              /\ run'[q].status = IF q = r THEN s ELSE run[q].status
    BY <1>2, <2>1 DEF TypeOK, Run
  <2>4. /\ run'[c].gens = 0 /\ run'[c].status = "queued"
        /\ run'[c].root = run[r].root /\ run'[c].retry = run[r].retry + 1
    BY <2>2 DEF Child
  <2>5. \A q \in Runs \ {c} : run[q].root = run[r].root
                              => run[q].retry # run[r].retry + 1
    BY <1>2 DEF WantsRetry, Attempted
  <2>6. ASSUME OneRetry PROVE OneRetry'
    <3> SUFFICES ASSUME NEW p \in Runs, NEW q \in Runs, run'[p].retry > 0,
                        run'[p].retry = run'[q].retry, run'[p].root = run'[q].root
                 PROVE  p = q
      BY DEF OneRetry
    <3>1. CASE p # c /\ q # c
      BY <2>3, <2>6, <3>1 DEF OneRetry
    <3>2. CASE p = c /\ q # c
      BY <2>3, <2>4, <2>5, <3>2
    <3>3. CASE p # c /\ q = c
      BY <2>3, <2>4, <2>5, <3>3
    <3> QED BY <3>1, <3>2, <3>3
  <2>7. ASSUME NEW q \in Runs
        PROVE  /\ run'[q].gens = run[q].gens
               /\ run'[q].status = "none" => run[q].status = "none"
               /\ run'[q].status = "queued"
                     => run[q].status \in {"none", "queued"} \/ (q = r /\ s = "queued")
    <3>1. CASE q = c
      BY <1>2, <2>1, <2>4, <3>1
    <3>2. CASE q # c
      BY <2>3, <3>2
    <3> QED BY <3>1, <3>2
  <2> QED BY <2>6, <2>7 DEF NoOwnedRunIsQueued, Unowned
<1> QED BY <1>1, <1>2 DEF Becomes

\* Writes of the other columns of a lease.
ColumnsChange(r, g) ==
  \/ lease' = [lease EXCEPT ![r][g].engine = TRUE]
  \/ lease' = [lease EXCEPT ![r][g].acquired = TRUE]
  \/ \E d \in {"no", "noted", "expired"} :
        \/ lease' = [lease EXCEPT ![r][g].doubt = d]
        \/ lease' = [lease EXCEPT ![r][g].acquired = TRUE, ![r][g].doubt = d]

LEMMA ColumnsKeepStates ==
  ASSUME TypeOK, NEW r \in Runs, NEW g \in Gens, ColumnsChange(r, g)
  PROVE  \A q \in Runs, h \in Gens : lease'[q][h].state = lease[q][h].state
<1>2. ASSUME NEW f \in [Runs -> [Gens -> Lease]]
      PROVE  \A q \in Runs, h \in Gens :
                /\ [f EXCEPT ![r][g].engine = TRUE][q][h].state = f[q][h].state
                /\ [f EXCEPT ![r][g].acquired = TRUE][q][h].state = f[q][h].state
                /\ \A d : [f EXCEPT ![r][g].doubt = d][q][h].state = f[q][h].state
  BY DEF Lease
<1>3. ASSUME NEW d \in {"no", "noted", "expired"},
             lease' = [lease EXCEPT ![r][g].acquired = TRUE, ![r][g].doubt = d]
      PROVE  \A q \in Runs, h \in Gens : lease'[q][h].state = lease[q][h].state
  <2> DEFINE f == [lease EXCEPT ![r][g].acquired = TRUE]
  <2>1. f \in [Runs -> [Gens -> Lease]]
    BY LeaseEdits DEF TypeOK
  <2>2. \A q \in Runs, h \in Gens : f[q][h].state = lease[q][h].state
    BY <1>2 DEF TypeOK
  <2>3. lease' = [f EXCEPT ![r][g].doubt = d]
    BY <1>3
  <2> HIDE DEF f
  <2>4. \A q \in Runs, h \in Gens :
           [f EXCEPT ![r][g].doubt = d][q][h].state = f[q][h].state
    BY <1>2, <2>1
  <2> QED BY <2>2, <2>3, <2>4
<1>4. \A q \in Runs, h \in Gens : lease'[q][h].state = lease[q][h].state
  <2>1. lease \in [Runs -> [Gens -> Lease]]
    BY DEF TypeOK
  <2>2. CASE lease' = [lease EXCEPT ![r][g].engine = TRUE]
    BY <1>2, <2>1, <2>2
  <2>3. CASE lease' = [lease EXCEPT ![r][g].acquired = TRUE]
    BY <1>2, <2>1, <2>3
  <2>4. ASSUME NEW d \in {"no", "noted", "expired"},
               lease' = [lease EXCEPT ![r][g].doubt = d]
        PROVE  \A q \in Runs, h \in Gens : lease'[q][h].state = lease[q][h].state
    BY <1>2, <2>1, <2>4
  <2> QED BY <1>3, <2>2, <2>3, <2>4 DEF ColumnsChange
<1> QED BY <1>4

\* The kinds of a step.
LEMMA StepKinds ==
  ASSUME OwnerInv, [Next]_vars
  PROVE  \/ \E r \in Runs : Claim(r)
         \/ LeasesOnlyClose /\ NoOwnedRunIsQueued
<1> USE DEF OwnerInv
<1>b. ASSUME NEW r \in Runs, NEW s \in Statuses \ {"none", "queued"}, Becomes(r, s)
      PROVE  NoOwnedRunIsQueued
  BY <1>b, BecomesCalmly
<1>s. {"running", "needs_input", "completed", "failed", "cancelled", "stopped"}
        \subseteq Statuses \ {"none", "queued"}
  BY DEF Statuses, Active, Terminal
<1>l. ASSUME NEW r \in Runs, NEW g \in Gens, ColumnsChange(r, g)
      PROVE  LeasesOnlyClose
  BY <1>l, ColumnsKeepStates DEF LeasesOnlyClose, StateChanges
<1>1. ASSUME NEW r \in Runs, Submit(r) PROVE LeasesOnlyClose /\ NoOwnedRunIsQueued
  <2>1. \A q \in Runs : /\ run'[q].gens = run[q].gens
                        /\ run'[q].root = run[q].root
                        /\ run'[q].retry = run[q].retry
                        /\ run'[q].status = IF q = r THEN "queued" ELSE run[q].status
    BY <1>1 DEF TypeOK, Run, Submit
  <2>2. NoOwnedRunIsQueued
    BY <1>1, <2>1 DEF NoOwnedRunIsQueued, OneRetry, Submit
  <2> QED BY <1>1, <2>2, SameLeases DEF Submit
<1>2. ASSUME NEW r \in Runs, NEW s \in Edits, PatchStatus(r, s)
      PROVE  LeasesOnlyClose /\ NoOwnedRunIsQueued
  <2>1. s \in Statuses \ {"none"}
    BY WorkerAssumption DEF Statuses, Active, Terminal
  <2>2. s = "queued" => Unowned(r)'
    BY <1>2 DEF PatchStatus, Requeueable, Unowned
  <2> QED BY <1>2, <2>1, <2>2, BecomesCalmly, SameLeases DEF PatchStatus
<1>3. ASSUME NEW r \in Runs, CancelBegins(r) PROVE LeasesOnlyClose /\ NoOwnedRunIsQueued
  BY <1>3, SameLeases, SameRuns DEF CancelBegins
<1>4. ASSUME NEW s \in spawns, SpawnStep(s)
      PROVE  LeasesOnlyClose /\ NoOwnedRunIsQueued
  <2>s. s.run \in Runs /\ s.gen \in Nat
    BY DEF TypeOK, Spawn
  <2>h. Startable(s.run, s.gen) => s.gen \in Gens
    BY DEF Startable, Holds
  <2>c. lease' = Closed(s.run, s.gen, "released") => LeasesOnlyClose
    BY <2>s, ClosingCloses
  <2>f. Becomes(s.run, "failed") => NoOwnedRunIsQueued
    BY <2>s, <1>b, <1>s
  <2>r. run' = [run EXCEPT ![s.run].status = "running", ![s.run].tmux = TRUE]
           => NoOwnedRunIsQueued
    BY <2>s, <1>s, StatusWrites
  <2>1. CASE SpawnSends(s)
    BY <2>1, <2>s, <2>h, <1>l, SameRuns DEF SpawnSends, ColumnsChange
  <2>2. CASE SpawnAborts(s)
    <3>1. LeasesOnlyClose
      BY <2>2, <2>c DEF SpawnAborts
    <3>2. CASE run' = run
      BY <3>1, <3>2, SameRuns
    <3>3. CASE /\ \A g \in Gens \ {s.gen} : ~ Holds(s.run, g)
               /\ run' = [run EXCEPT ![s.run].status = "queued"]
      <4>1. \A q \in Runs : /\ run'[q].gens = run[q].gens
                            /\ run'[q].root = run[q].root
                            /\ run'[q].retry = run[q].retry
                            /\ run'[q].status = IF q = s.run THEN "queued"
                                                             ELSE run[q].status
        BY <3>3, <2>s DEF TypeOK, Run
      <4>2. ASSUME NEW g \in Gens PROVE lease'[s.run][g].state # "held"
        <5>1. CASE g = s.gen
          BY <2>2, <2>s, <5>1 DEF SpawnAborts, Closed, Holds, NoLease, TypeOK
        <5>2. CASE g # s.gen
          BY <3>1, <3>3, <2>s, <5>2 DEF LeasesOnlyClose, StateChanges, Holds
        <5> QED BY <5>1, <5>2
      <4>3. Unowned(s.run)'
        BY <4>2 DEF Unowned
      <4> QED BY <3>1, <4>1, <4>3 DEF NoOwnedRunIsQueued, OneRetry
    <3> QED BY <2>2, <3>2, <3>3 DEF SpawnAborts
  <2>3. CASE SpawnFails(s)
    BY <2>3, <2>f, SameLeases DEF SpawnFails
  <2>4. CASE SpawnStale(s)
    BY <2>4, <2>c, SameRuns DEF SpawnStale
  <2>5. CASE SpawnUnwinds(s)
    BY <2>5, <2>c, SameRuns DEF SpawnUnwinds
  <2>6. CASE SetupFails(s)
    BY <2>6, <2>c, <2>f DEF SetupFails
  <2>10. CASE AssetsUnsupported(s)
    BY <2>10, <2>s, <1>s, StatusWrites, SameLeases DEF AssetsUnsupported
  <2>11. CASE SetupThrows(s)
    BY <2>11, <2>c, SameRuns DEF SetupThrows
  <2>7. CASE SpawnAcked(s)
    BY <2>7, <2>s, <2>h, <2>r, <1>l, SameLeases, SameRuns
       DEF SpawnAcked, MarkStarted, ColumnsChange
  <2>8. CASE SpawnSealed(s)
    BY <2>8, SameLeases, SameRuns DEF SpawnSealed
  <2>9. CASE SpawnUncertain(s)
    BY <2>9, <2>s, <2>h, <2>r, <1>l, SameLeases, SameRuns
       DEF SpawnUncertain, Uncertain, ColumnsChange
  <2> QED BY <1>4, <2>1, <2>2, <2>3, <2>4, <2>5, <2>6, <2>7, <2>8, <2>9, <2>10,
             <2>11 DEF SpawnStep
<1>5. ASSUME NodeStep PROVE LeasesOnlyClose /\ NoOwnedRunIsQueued
  BY <1>5, SameLeases, SameRuns
     DEF NodeStep, NodeStarts, NeverStarts, WorkerExits, SessionLost
<1>6. ASSUME CheckBegins PROVE LeasesOnlyClose /\ NoOwnedRunIsQueued
  BY <1>6, SameLeases, SameRuns DEF CheckBegins
<1>7. ASSUME NEW w \in Watchers, WatchStep(w)
      PROVE  LeasesOnlyClose /\ NoOwnedRunIsQueued
  <2>v. \A v \in watch[w].at : v.run \in Runs /\ v.gen \in Nat
    BY WatchType DEF View
  <2>1. CASE NextPass(w)
    BY <2>1, SameLeases, SameRuns DEF NextPass
  <2>2. ASSUME NEW v \in watch[w].todo, Visit(w, v)
        PROVE  LeasesOnlyClose /\ NoOwnedRunIsQueued
    BY <2>2, SameLeases, SameRuns DEF Visit
  <2>3. ASSUME NEW v \in watch[w].at, NEW seen, Answer(w, v, seen)
        PROVE  LeasesOnlyClose /\ NoOwnedRunIsQueued
    <3> DEFINE u == [v EXCEPT !.seen = seen]
    <3>1. u.run \in Runs /\ u.gen \in Nat
      <4>1. v \in View
        BY WatchType
      <4> QED BY <4>1 DEF View
    <3>2. NoOwnedRunIsQueued
      BY <2>3, SameRuns DEF Answer
    <3>3. RunAnswers(w, u) \/ LeaseAnswers(w, u) \/ GrantAnswers(w, u)
      BY <2>3 DEF Answer
    <3> HIDE DEF u
    <3>4. \A d \in {"no", "noted"} : lease' = Doubted(u, d) => LeasesOnlyClose
      BY <3>1, <1>l, SameLeases DEF Doubted, Holds, ColumnsChange
    <3>5. CASE RunAnswers(w, u)
      BY <3>2, <3>4, <3>5, SameLeases DEF RunAnswers
    <3>6. CASE LeaseAnswers(w, u)
      <4>1. CASE lease' = Closed(u.run, u.gen, "released")
        BY <3>1, <3>2, <4>1, ClosingCloses
      <4>2. CASE Holds(u.run, u.gen)
                 /\ lease' = [lease EXCEPT ![u.run][u.gen].acquired = TRUE,
                                           ![u.run][u.gen].doubt = "no"]
        BY <3>1, <3>2, <4>2, <1>l DEF Holds, ColumnsChange
      <4>3. CASE lease' = Doubted(u, "noted") \/ lease' = lease
        BY <3>2, <3>4, <4>3, SameLeases
      <4> QED BY <3>6, <4>1, <4>2, <4>3 DEF LeaseAnswers
    <3>7. CASE GrantAnswers(w, u)
      BY <3>2, <3>7, SameLeases DEF GrantAnswers
    <3> QED BY <3>3, <3>5, <3>6, <3>7
  <2>4. ASSUME NEW v \in watch[w].at, NEW seen, Reprobe(w, v, seen)
        PROVE  LeasesOnlyClose /\ NoOwnedRunIsQueued
    BY <2>4, <2>v, <1>b, <1>s, SameLeases, SameRuns DEF Reprobe
  <2>5. ASSUME NEW v \in watch[w].at, Judge(w, v)
        PROVE  LeasesOnlyClose /\ NoOwnedRunIsQueued
    BY <2>5, <2>v, <1>b, <1>s, SameLeases, SameRuns DEF Judge
  <2>6. ASSUME NEW v \in watch[w].at, Kills(w, v)
        PROVE  LeasesOnlyClose /\ NoOwnedRunIsQueued
    BY <2>6, SameLeases, SameRuns DEF Kills
  <2>7. ASSUME NEW v \in watch[w].at, Settle(w, v)
        PROVE  LeasesOnlyClose /\ NoOwnedRunIsQueued
    BY <2>7, <2>v, ClosingCloses, SameLeases, SameRuns DEF Settle
  <2>8. ASSUME NEW v \in watch[w].at, Look(w, v)
        PROVE  LeasesOnlyClose /\ NoOwnedRunIsQueued
    BY <2>8, SameLeases, SameRuns DEF Look
  <2>9. ASSUME NEW v \in watch[w].at, Resumes(w, v)
        PROVE  LeasesOnlyClose /\ NoOwnedRunIsQueued
    BY <2>9, <2>v, <1>b, <1>s, SameLeases DEF Resumes
  <2>10. ASSUME NEW v \in watch[w].at, Revoked(w, v)
         PROVE  LeasesOnlyClose /\ NoOwnedRunIsQueued
    BY <2>10, <2>v, <1>b, <1>s, SameLeases, SameRuns DEF Revoked
  <2>11. ASSUME NEW v \in watch[w].at, CallFails(w, v)
         PROVE  LeasesOnlyClose /\ NoOwnedRunIsQueued
    BY <2>11, SameLeases, SameRuns DEF CallFails
  <2> QED BY <1>7, <2>1, <2>2, <2>3, <2>4, <2>5, <2>6, <2>7, <2>8, <2>9, <2>10,
             <2>11 DEF WatchStep
<1>8. ASSUME NEW r \in Runs, NEW g \in Gens, Expire(r, g)
      PROVE  LeasesOnlyClose /\ NoOwnedRunIsQueued
  BY <1>8, <1>l, SameRuns DEF Expire, ColumnsChange
<1>9. ASSUME NEW c \in cancels, CancelStep(c)
      PROVE  LeasesOnlyClose /\ NoOwnedRunIsQueued
  <2>c. c.run \in Runs
    BY DEF TypeOK, Cancel
  <2>1. ASSUME NEW seen, CancelProbed(c, seen)
        PROVE  LeasesOnlyClose /\ NoOwnedRunIsQueued
    BY <2>1, <2>c, ClosingCloses, SameLeases, SameRuns DEF CancelProbed
  <2>2. CASE CancelKills(c)
    BY <2>2, SameLeases, SameRuns DEF CancelKills
  <2>3. CASE CancelFinishes(c)
    BY <2>3, <2>c, <1>b, <1>s, ClosingCloses, SameLeases DEF CancelFinishes
  <2> QED BY <1>9, <2>1, <2>2, <2>3 DEF CancelStep
<1>10. ASSUME Shutdown \/ Exits \/ Crash \/ Boot \/ UNCHANGED vars
       PROVE  LeasesOnlyClose /\ NoOwnedRunIsQueued
  BY <1>10, SameLeases, SameRuns DEF Shutdown, Exits, Crash, Ends, Boot, vars
<1> QED
  BY <1>1, <1>2, <1>3, <1>4, <1>5, <1>6, <1>7, <1>8, <1>9, <1>10 DEF Next

\* A claim takes a queued run, hence one that nobody owns.
LEMMA ClaimTakes ==
  ASSUME OwnerInv, NEW r \in Runs, Claim(r)
  PROVE  /\ Unowned(r) /\ run[r].gens + 1 \in Gens
         /\ run' \in [Runs -> Run]
         /\ \A q \in Runs \ {r} : run'[q] = run[q] /\ lease'[q] = lease[q]
         /\ run'[r].gens = run[r].gens + 1 /\ run'[r].status = "running"
         /\ \A q \in Runs : run'[q].root = run[q].root /\ run'[q].retry = run[q].retry
         /\ \A g \in Gens : lease'[r][g].state =
               IF g = run[r].gens + 1 THEN "held" ELSE lease[r][g].state
<1> USE DEF OwnerInv
<1>1. Unowned(r) /\ run[r].gens + 1 \in Gens
  BY DEF Claim, QueuedIsUnowned
<1>2. run' \in [Runs -> Run]
  BY NextKeepsTypes DEF TypeOK, Next
<1>3. /\ \A q \in Runs \ {r} : run'[q] = run[q]
      /\ run'[r].gens = run[r].gens + 1 /\ run'[r].status = "running"
      /\ \A q \in Runs : run'[q].root = run[q].root /\ run'[q].retry = run[q].retry
  BY DEF TypeOK, Claim, Run
<1>4. \A q \in Runs \ {r} : lease'[q] = lease[q]
  BY DEF TypeOK, Claim
<1>5. [NoLease EXCEPT !.state = "held"].state = "held"
  BY DEF NoLease
<1>6. \A g \in Gens : lease'[r][g].state =
         IF g = run[r].gens + 1 THEN "held" ELSE lease[r][g].state
  BY <1>1, <1>5 DEF TypeOK, Claim, Unowned, Holds
<1> QED BY <1>1, <1>2, <1>3, <1>4, <1>6

LEMMA InitOwnerInv == Init => OwnerInv
<1> SUFFICES ASSUME Init PROVE OwnerInv
  OBVIOUS
<1>1. NoneIsFresh
  BY DEF Init, NoneIsFresh
<1>2. \A r \in Runs, g \in Gens : lease[r][g].state = "none"
  BY DEF Init, NoLease
<1>3. HeldIsLatest /\ QueuedIsUnowned
  BY <1>2 DEF HeldIsLatest, QueuedIsUnowned, Unowned
<1> QED BY <1>1, <1>3, InitHasTypes DEF OwnerInv

\* The owner invariant is inductive.
LEMMA NextKeepsOwnerInv == OwnerInv /\ [Next]_vars => OwnerInv'
<1> SUFFICES ASSUME OwnerInv, [Next]_vars
             PROVE  OwnerInv'
  OBVIOUS
<1> USE DEF OwnerInv
<1>1. TypeOK'
  BY NextKeepsTypes
<1>2. ASSUME NEW r \in Runs, Claim(r)
      PROVE  NoneIsFresh' /\ HeldIsLatest' /\ QueuedIsUnowned'
  <2>1. NoneIsFresh'
    BY <1>2, ClaimTakes DEF NoneIsFresh
  <2>2. HeldIsLatest'
    <3> SUFFICES ASSUME NEW q \in Runs, NEW g \in Gens, lease'[q][g].state = "held"
                 PROVE  g = run'[q].gens
      BY DEF HeldIsLatest
    <3>1. CASE q = r
      BY <1>2, <3>1, ClaimTakes DEF Unowned
    <3>2. CASE q # r
      BY <1>2, <3>2, ClaimTakes DEF HeldIsLatest
    <3> QED BY <3>1, <3>2
  <2>3. QueuedIsUnowned'
    BY <1>2, ClaimTakes DEF QueuedIsUnowned, Unowned
  <2> QED BY <2>1, <2>2, <2>3
<1>3. ASSUME LeasesOnlyClose, NoOwnedRunIsQueued
      PROVE  NoneIsFresh' /\ HeldIsLatest' /\ QueuedIsUnowned'
  <2>1. NoneIsFresh'
    BY <1>3 DEF NoneIsFresh, NoOwnedRunIsQueued
  <2>2. \A r \in Runs, g \in Gens :
           lease'[r][g].state = "held" => lease[r][g].state = "held"
    BY <1>3 DEF LeasesOnlyClose, StateChanges
  <2>3. HeldIsLatest'
    BY <1>3, <2>2 DEF HeldIsLatest, NoOwnedRunIsQueued
  <2>4. QueuedIsUnowned'
    <3> SUFFICES ASSUME NEW r \in Runs, run'[r].status \in {"none", "queued"}
                 PROVE  \A g \in Gens : lease'[r][g].state # "held"
      BY DEF QueuedIsUnowned, Unowned
    <3>1. CASE run[r].status \in {"none", "queued"}
      BY <2>2, <3>1 DEF QueuedIsUnowned, Unowned
    <3>2. CASE run[r].status \notin {"none", "queued"}
      BY <1>3, <3>2 DEF NoOwnedRunIsQueued, Unowned
    <3> QED BY <3>1, <3>2
  <2> QED BY <2>1, <2>3, <2>4
<1> QED BY <1>1, <1>2, <1>3, StepKinds

\* The owner invariant: no lease belongs to a run that was never claimed, a held
\* lease is the latest claim of its run, and a queued run has none.
THEOREM OwnersAreSound == Spec => []OwnerInv
  BY InitOwnerInv, NextKeepsOwnerInv, PTL DEF Spec

\* No requeue, no abort of a shutdown and no retry puts a run that a live
\* worker may still own back into the queue.
THEOREM QueueHasNoOwner == Spec => []QueuedIsUnowned
<1>1. OwnerInv => QueuedIsUnowned
  BY DEF OwnerInv
<1> QED BY <1>1, OwnersAreSound, PTL

LEMMA RetriesStayUnique == OwnerInv /\ OneRetry /\ [Next]_vars => OneRetry'
<1> SUFFICES ASSUME OwnerInv, OneRetry, [Next]_vars
             PROVE  OneRetry'
  OBVIOUS
<1>1. ASSUME NEW r \in Runs, Claim(r) PROVE OneRetry'
  BY <1>1, ClaimTakes DEF OneRetry
<1>2. CASE NoOwnedRunIsQueued
  BY <1>2 DEF NoOwnedRunIsQueued
<1> QED BY <1>1, <1>2, StepKinds

\* However many observers see a failure, and however often a failed run is
\* requeued, each attempt of a run is enqueued once.
THEOREM AttemptsAreUnique == Spec => []OneRetry
<1>1. Init => OneRetry
  BY DEF Init, OneRetry
<1> QED BY <1>1, OwnersAreSound, RetriesStayUnique, PTL DEF Spec

-----------------------------------------------------------------------------
(* The lease table implements the abstract ownership register              *)

LEMMA HeldGenValue ==
  ASSUME HeldIsLatest, NEW r \in Runs
  PROVE  /\ Unowned(r) => HeldGen(r) = 0
         /\ \A g \in Gens : lease[r][g].state = "held" => HeldGen(r) = g
  BY DEF HeldIsLatest, HeldGen, Unowned, Holds

LEMMA NextHeldGenValue ==
  ASSUME HeldIsLatest', NEW r \in Runs
  PROVE  /\ Unowned(r)' => HeldGen(r)' = 0
         /\ \A g \in Gens : lease'[r][g].state = "held" => HeldGen(r)' = g
  BY DEF HeldIsLatest, HeldGen, Unowned, Holds

LEMMA StepImplements ==
  OwnerInv /\ OwnerInv' /\ [Next]_vars
     => [Ownership!Next]_<<[r \in Runs |-> HeldGen(r)], [r \in Runs |-> run[r].gens]>>
<1> SUFFICES ASSUME OwnerInv, OwnerInv', [Next]_vars
             PROVE  [Ownership!Next]_<<[r \in Runs |-> HeldGen(r)],
                                       [r \in Runs |-> run[r].gens]>>
  OBVIOUS
<1>h. HeldIsLatest /\ HeldIsLatest' /\ \A r \in Runs : run[r].gens \in Nat
  BY DEF OwnerInv, TypeOK, Run
<1>s. ASSUME NEW q \in Runs, \A g \in Gens : ~ StateChanges(q, g)
      PROVE  HeldGen(q)' = HeldGen(q)
  <2>1. CASE Unowned(q)
    <3>1. Unowned(q)'
      BY <1>s, <2>1 DEF StateChanges, Unowned
    <3> QED BY <2>1, <3>1, <1>h, HeldGenValue, NextHeldGenValue
  <2>2. ASSUME NEW g \in Gens, lease[q][g].state = "held"
        PROVE  HeldGen(q)' = HeldGen(q)
    <3>1. lease'[q][g].state = "held"
      BY <1>s, <2>2 DEF StateChanges
    <3> QED BY <2>2, <3>1, <1>h, HeldGenValue, NextHeldGenValue
  <2> QED BY <2>1, <2>2 DEF Unowned
<1>1. ASSUME NEW r \in Runs, Claim(r) PROVE Ownership!Take(r)
  <2>1. HeldGen(r) = 0
    BY <1>1, <1>h, ClaimTakes, HeldGenValue
  <2>2. HeldGen(r)' = run[r].gens + 1
    BY <1>1, <1>h, ClaimTakes, NextHeldGenValue
  <2>3. \A q \in Runs \ {r} : HeldGen(q)' = HeldGen(q)
    BY <1>1, <1>s, ClaimTakes DEF StateChanges
  <2>4. \A q \in Runs : run'[q].gens = IF q = r THEN run[r].gens + 1 ELSE run[q].gens
    BY <1>1, ClaimTakes
  <2> QED BY <2>1, <2>2, <2>3, <2>4 DEF Ownership!Take
<1>2. ASSUME LeasesOnlyClose, NoOwnedRunIsQueued
      PROVE  [Ownership!Next]_<<[r \in Runs |-> HeldGen(r)],
                                [r \in Runs |-> run[r].gens]>>
  <2>1. \A q \in Runs : run'[q].gens = run[q].gens
    BY <1>2 DEF NoOwnedRunIsQueued
  <2>3. CASE \A q \in Runs, g \in Gens : ~ StateChanges(q, g)
    <3>1. /\ \A q \in Runs : HeldGen(q)' = HeldGen(q)
          /\ \A q \in Runs : run'[q].gens = run[q].gens
      BY <2>1, <2>3, <1>s
    <3> QED BY <3>1
  <2>4. ASSUME NEW r \in Runs, NEW g \in Gens, StateChanges(r, g)
        PROVE  Ownership!GiveUp(r)
    <3>1. HeldGen(r) = g /\ g # 0
      BY <2>4, <1>2, <1>h, HeldGenValue DEF LeasesOnlyClose, Gens
    <3>2. \A h \in Gens : lease'[r][h].state # "held"
      BY <2>4, <1>2, <1>h DEF LeasesOnlyClose, StateChanges, HeldIsLatest
    <3>3. HeldGen(r)' = 0
      <4>1. Unowned(r)'
        BY <3>2 DEF Unowned
      <4> QED BY <4>1, <1>h, NextHeldGenValue
    <3>4. \A q \in Runs \ {r} : HeldGen(q)' = HeldGen(q)
      <4> SUFFICES ASSUME NEW q \in Runs \ {r} PROVE HeldGen(q)' = HeldGen(q)
        OBVIOUS
      <4>1. \A h \in Gens : ~ StateChanges(q, h)
        BY <2>4, <1>2 DEF LeasesOnlyClose
      <4> QED BY <4>1, <1>s
    <3>5. \A q \in Runs : HeldGen(q)' = IF q = r THEN 0 ELSE HeldGen(q)
      BY <3>3, <3>4
    <3>6. HeldGen(r) # 0
      BY <3>1
    <3> QED BY <2>1, <3>5, <3>6 DEF Ownership!GiveUp
  <2> QED BY <2>3, <2>4 DEF Ownership!Next
<1> QED BY <1>1, <1>2, StepKinds DEF Ownership!Next

\* Owners of a run never overlap, are numbered in order and never return: the
\* lease table implements RunOwnership.
THEOREM LeasesImplementOwnership == Spec => ImplementsOwnership
<1>1. Init => Ownership!Init
  <2> SUFFICES ASSUME Init PROVE Ownership!Init
    OBVIOUS
  <2>1. \A r \in Runs : Unowned(r) /\ run[r].gens = 0
    BY DEF Init, NoLease, Unowned
  <2>2. \A r \in Runs : HeldGen(r) = 0
    BY <2>1 DEF HeldGen
  <2> QED BY <2>1, <2>2 DEF Ownership!Init
<1>2. Init /\ []OwnerInv /\ [][Next]_vars => ImplementsOwnership
  BY <1>1, StepImplements, PTL DEF ImplementsOwnership, Ownership!Spec
<1> QED BY <1>2, OwnersAreSound, PTL DEF Spec

-----------------------------------------------------------------------------
(* Late steps of a start                                                   *)

\* A start that was sent and has lost its claim, or whose run has ended, leaves
\* the table of the runs alone.
LEMMA LateStepsAreIgnored ==
  ASSUME OwnerInv, Next, NEW s \in spawns \ spawns', s.phase # "preparing",
         run[s.run].status \in Terminal \/ ~ Holds(s.run, s.gen)
  PROVE  run' = run
<1>t. TypeOK
  BY DEF OwnerInv
<1>l. ~ Startable(s.run, s.gen)
  BY DEF Startable
<1>1. ASSUME NEW r \in Runs, Claim(r) PROVE run' = run
  BY <1>1 DEF Claim
<1>2. ASSUME NEW p \in spawns, SpawnStep(p) PROVE run' = run
  <2>1. p = s
    <3>1. spawns \ {p} \subseteq spawns'
      BY <1>2 DEF SpawnStep, SpawnSends, SpawnAborts, SpawnFails, SpawnStale,
                  SpawnUnwinds, SetupFails, AssetsUnsupported, SetupThrows,
                  SpawnAcked, SpawnSealed, SpawnUncertain, Drops, Moves
    <3> QED BY <3>1
  <2> QED BY <1>2, <1>l, <2>1
             DEF SpawnStep, SpawnSends, SpawnAborts, SpawnFails, SpawnStale,
                 SpawnUnwinds, SetupFails, AssetsUnsupported, SetupThrows,
                 SpawnAcked, SpawnSealed, SpawnUncertain
<1>3. CASE NodeStep
  BY <1>3 DEF NodeStep, NodeStarts, NeverStarts, WorkerExits, SessionLost
<1>4. ASSUME NEW w \in Watchers, WatchStep(w) PROVE spawns' = spawns
  BY <1>4 DEF WatchStep, NextPass, Visit, Answer, Reprobe, Judge, Kills, Settle,
              Look, Resumes, Revoked, CallFails
<1>5. ASSUME NEW c \in cancels, CancelStep(c) PROVE spawns' = spawns
  BY <1>5 DEF CancelStep, CancelProbed, CancelKills, CancelFinishes
<1>6. CASE Exits \/ Crash
  BY <1>6 DEF Exits, Crash, Ends
<1> QED
  BY <1>1, <1>2, <1>3, <1>4, <1>5, <1>6
     DEF Next, Submit, CancelBegins, PatchStatus, CheckBegins, Expire, Shutdown, Boot

\* The outcome of a start that was sent, and that comes after the end of its run or
\* of its claim, changes no run.
THEOREM LateStartsAreIgnored == Spec => LateStartIsIgnored
<1>1. OwnerInv /\ [Next]_vars =>
        [\A s \in spawns \ spawns' :
            /\ s.phase # "preparing"
            /\ run[s.run].status \in Terminal \/ ~ Holds(s.run, s.gen)
            => run' = run]_vars
  BY LateStepsAreIgnored
<1> QED BY <1>1, OwnersAreSound, PTL DEF Spec, LateStartIsIgnored

-----------------------------------------------------------------------------
(* The first released lease is a confirmed death.  The node never shows a  *)
(* generation that was not claimed, a start is sent once, and an exit file *)
(* is the last thing its generation does; so the exit file found under the *)
(* first lease is the first generation's, and proves its end.              *)

NothingAhead ==
  \A r \in Runs :
    /\ session[r] <= run[r].gens
    /\ exit[r].gen <= run[r].gens
    /\ \A g \in Gens : <<r, g>> \in starting => g <= run[r].gens
    /\ \A s \in spawns : s.run = r => s.gen \in 1 .. run[r].gens

OneSpawnEach ==
  \A s, t \in spawns : s.run = t.run /\ s.gen = t.gen => s = t

Untouched(r, g) == Gone(r, g) /\ exit[r].gen # g

SpawnsKnowTheNode ==
  \A s \in spawns : /\ s.phase = "preparing" => Untouched(s.run, s.gen)
                    /\ s.phase \in {"refused", "unwinding"} => Gone(s.run, s.gen)

StartsOnce ==
  \A r \in Runs, g \in Gens :
     <<r, g>> \in starting => session[r] # g /\ exit[r].gen # g

ExitIsLast == \A r \in Runs : exit[r].gen # 0 => session[r] # exit[r].gen

NodeInv == NothingAhead /\ OneSpawnEach /\ SpawnsKnowTheNode /\ StartsOnce
             /\ ExitIsLast

\* A watcher that saw a dead worker saw an exit file, which never goes away.
DeathWasSeen ==
  \A w \in Watchers :
    /\ \A v \in watch[w].todo : v.seen = "unknown"
    /\ \A v \in watch[w].at : v.seen = "dead" => exit[v.run].gen # 0

\* Steps that start nothing and write no exit file.
NothingStarts ==
  /\ exit' = exit /\ starting' \subseteq starting /\ spawns' \subseteq spawns
  /\ \A r \in Runs : session'[r] \in {0, session[r]}

GensStay == \A r \in Runs : run'[r].gens = run[r].gens

LEMMA QuietStepsKeepNodeInv ==
  ASSUME OwnerInv, NodeInv, NothingStarts, GensStay
  PROVE  NodeInv'
<1> USE DEF OwnerInv, NodeInv
<1>0. \A r \in Runs : run[r].gens \in Nat /\ session[r] \in Nat /\ exit[r].gen \in Nat
  BY DEF TypeOK, Run, Exit
<1>1. NothingAhead'
  BY <1>0 DEF NothingAhead, NothingStarts, GensStay
<1>2. OneSpawnEach'
  BY DEF OneSpawnEach, NothingStarts
<1>3. SpawnsKnowTheNode'
  <2> SUFFICES ASSUME NEW s \in spawns
               PROVE  /\ s.phase = "preparing" => Untouched(s.run, s.gen)'
                      /\ s.phase \in {"refused", "unwinding"} => Gone(s.run, s.gen)'
    BY DEF SpawnsKnowTheNode, NothingStarts
  <2>1. s.run \in Runs /\ s.gen # 0
    BY <1>0 DEF TypeOK, Spawn, NothingAhead
  <2>2. Gone(s.run, s.gen) => Gone(s.run, s.gen)'
    BY <2>1 DEF Gone, NothingStarts
  <2> QED BY <2>2 DEF SpawnsKnowTheNode, Untouched, NothingStarts
<1>4. StartsOnce'
  BY DEF StartsOnce, NothingStarts, Gens
<1>5. ExitIsLast'
  BY DEF ExitIsLast, NothingStarts
<1> QED BY <1>1, <1>2, <1>3, <1>4, <1>5

\* A call of spawnQueuedRun that goes on.
LEMMA MovesKeepNodeInv ==
  ASSUME OwnerInv, NodeInv, NEW s \in spawns,
         NEW p \in {"starting", "sealing", "unwinding"}, Moves(s, p),
         session' = session, exit' = exit, GensStay,
         \/ starting' \subseteq starting
         \/ /\ starting' = starting \cup {<<s.run, s.gen>>}
            /\ s.phase = "preparing" /\ p = "starting",
         p = "unwinding" => Gone(s.run, s.gen)'
  PROVE  NodeInv'
<1> USE DEF OwnerInv, NodeInv
<1> DEFINE u == [s EXCEPT !.phase = p]
<1>0. s \in Spawn /\ u \in Spawn /\ u.run = s.run /\ u.gen = s.gen /\ u.phase = p
  BY DEF TypeOK, Spawn
<1>1. spawns' = (spawns \ {s}) \cup {u}
  BY DEF Moves
<1> HIDE DEF u
<1>2. \A t \in spawns \ {s} : t.run # s.run \/ t.gen # s.gen
  BY DEF OneSpawnEach
<1>3. \A t \in spawns : t \in Spawn
  BY DEF TypeOK
<1>4. NothingAhead'
  BY <1>0, <1>1 DEF NothingAhead, GensStay, TypeOK, Spawn
<1>5. OneSpawnEach'
  BY <1>0, <1>1, <1>2 DEF OneSpawnEach
<1>6. SpawnsKnowTheNode'
  <2> SUFFICES ASSUME NEW t \in spawns'
               PROVE  /\ t.phase = "preparing" => Untouched(t.run, t.gen)'
                      /\ t.phase \in {"refused", "unwinding"} => Gone(t.run, t.gen)'
    BY DEF SpawnsKnowTheNode
  <2>1. CASE t = u
    BY <1>0, <2>1 DEF Gone
  <2>2. CASE t \in spawns \ {s}
    <3>1. <<t.run, t.gen>> \in starting' => <<t.run, t.gen>> \in starting
      BY <1>2, <2>2
    <3> QED BY <2>2, <3>1 DEF SpawnsKnowTheNode, Untouched, Gone
  <2> QED BY <1>1, <2>1, <2>2
<1>7. StartsOnce'
  BY <1>0 DEF StartsOnce, SpawnsKnowTheNode, Untouched, Gone
<1>8. ExitIsLast'
  BY DEF ExitIsLast
<1> QED BY <1>4, <1>5, <1>6, <1>7, <1>8

LEMMA ClaimKeepsNodeInv ==
  ASSUME OwnerInv, NodeInv, NEW r \in Runs, Claim(r)
  PROVE  NodeInv'
<1> USE DEF OwnerInv, NodeInv
<1> DEFINE u == [run |-> r, gen |-> run[r].gens + 1, phase |-> "preparing"]
<1>0. \A q \in Runs : run[q].gens \in Nat /\ session[q] \in Nat /\ exit[q].gen \in Nat
  BY DEF TypeOK, Run, Exit
<1>1. \A q \in Runs : run'[q].gens = IF q = r THEN run[r].gens + 1 ELSE run[q].gens
  BY ClaimTakes
<1>2. /\ spawns' = spawns \cup {u} /\ session' = session /\ exit' = exit
      /\ starting' = starting
  BY DEF Claim, node
<1>3. u.run = r /\ u.gen = run[r].gens + 1 /\ u.phase = "preparing"
  OBVIOUS
<1> HIDE DEF u
<1>4. \A s \in spawns : s.run \in Runs /\ s.gen \in Nat /\ (s.run = r => s.gen <= run[r].gens)
  BY <1>0 DEF TypeOK, Spawn, NothingAhead
<1>5. NothingAhead'
  BY <1>0, <1>1, <1>2, <1>3, <1>4 DEF NothingAhead, Gens
<1>6. OneSpawnEach'
  BY <1>0, <1>2, <1>3, <1>4 DEF OneSpawnEach
<1>7. Untouched(r, run[r].gens + 1)
  BY <1>0, ClaimTakes DEF Untouched, Gone, NothingAhead, TypeOK
<1>8. SpawnsKnowTheNode'
  BY <1>2, <1>3, <1>7 DEF SpawnsKnowTheNode, Untouched, Gone
<1>9. StartsOnce' /\ ExitIsLast'
  BY <1>2 DEF StartsOnce, ExitIsLast
<1> QED BY <1>5, <1>6, <1>8, <1>9

LEMMA StartKeepsNodeInv ==
  ASSUME OwnerInv, NodeInv, NEW r \in Runs, NEW g \in Gens, NodeStarts(r, g)
  PROVE  NodeInv'
<1> USE DEF OwnerInv, NodeInv
<1> DEFINE Seen(s) == IF s.run = r /\ s.gen = g /\ s.phase = "starting"
                      THEN [s EXCEPT !.phase = IF session[r] = 0 THEN "started"
                                                                 ELSE "refused"]
                      ELSE s
<1>0. /\ \A q \in Runs : run[q].gens \in Nat /\ session[q] \in Nat /\ exit[q].gen \in Nat
      /\ g \in Nat \ {0}
  BY DEF TypeOK, Run, Exit, Gens
<1>1. /\ <<r, g>> \in starting /\ starting' = starting \ {<<r, g>>}
      /\ session' = IF session[r] = 0 THEN [session EXCEPT ![r] = g] ELSE session
      /\ exit' = exit /\ run' = run
      /\ spawns' = {Seen(s) : s \in spawns}
  BY DEF NodeStarts
<1>2. ASSUME NEW s \in spawns
      PROVE  /\ Seen(s).run = s.run /\ Seen(s).gen = s.gen
             /\ s.phase # "starting" => Seen(s) = s
             /\ Seen(s).phase = "refused" /\ s.phase # "refused"
                  => s.run = r /\ s.gen = g /\ session[r] # 0
             /\ Seen(s).phase \in {"preparing", "unwinding"} => Seen(s) = s
  BY DEF TypeOK, Spawn
<1> HIDE DEF Seen
<1>3. session[r] # g /\ exit[r].gen # g /\ g <= run[r].gens
  BY <1>1 DEF StartsOnce, NothingAhead
<1>4. \A q \in Runs : session'[q] = IF q = r /\ session[r] = 0 THEN g ELSE session[q]
  BY <1>1 DEF TypeOK
<1>5. NothingAhead'
  BY <1>0, <1>1, <1>2, <1>3, <1>4 DEF NothingAhead
<1>6. OneSpawnEach'
  BY <1>1, <1>2 DEF OneSpawnEach
<1>7. SpawnsKnowTheNode'
  <2> SUFFICES ASSUME NEW s \in spawns
               PROVE  /\ Seen(s).phase = "preparing" => Untouched(s.run, s.gen)'
                      /\ Seen(s).phase \in {"refused", "unwinding"}
                            => Gone(s.run, s.gen)'
    BY <1>1, <1>2 DEF SpawnsKnowTheNode
  <2>1. s.run \in Runs
    BY DEF TypeOK, Spawn
  <2>2. ASSUME Gone(s.run, s.gen) PROVE Gone(s.run, s.gen)'
    BY <1>1, <1>4, <2>1, <2>2 DEF Gone
  <2>3. CASE s.run = r /\ s.gen = g /\ session[r] # 0
    <3>1. Gone(s.run, s.gen)'
      BY <1>1, <1>3, <1>4, <2>3 DEF Gone
    <3>2. s.phase # "preparing"
      BY <1>1, <2>3 DEF SpawnsKnowTheNode, Untouched, Gone
    <3> QED BY <1>2, <3>1, <3>2
  <2>4. CASE ~ (s.run = r /\ s.gen = g /\ session[r] # 0)
    BY <1>1, <1>2, <2>2, <2>4 DEF SpawnsKnowTheNode, Untouched
  <2> QED BY <2>3, <2>4
<1>8. StartsOnce'
  BY <1>1, <1>4 DEF StartsOnce
<1>9. ExitIsLast'
  BY <1>1, <1>3, <1>4 DEF ExitIsLast
<1> QED BY <1>5, <1>6, <1>7, <1>8, <1>9

LEMMA ExitKeepsNodeInv ==
  ASSUME OwnerInv, NodeInv, NEW r \in Runs, NEW ok \in BOOLEAN, WorkerExits(r, ok)
  PROVE  NodeInv'
<1> USE DEF OwnerInv, NodeInv
<1>0. \A q \in Runs : run[q].gens \in Nat /\ session[q] \in Nat /\ exit[q].gen \in Nat
  BY DEF TypeOK, Run, Exit
<1>1. /\ session[r] # 0
      /\ \A q \in Runs : session'[q] = IF q = r THEN 0 ELSE session[q]
      /\ \A q \in Runs : exit'[q].gen = IF q = r THEN session[r] ELSE exit[q].gen
      /\ run' = run /\ starting' = starting /\ spawns' = spawns
  BY DEF WorkerExits, TypeOK
<1>2. NothingAhead'
  BY <1>0, <1>1 DEF NothingAhead
<1>3. OneSpawnEach'
  BY <1>1 DEF OneSpawnEach
<1>4. SpawnsKnowTheNode'
  <2> SUFFICES ASSUME NEW s \in spawns
               PROVE  /\ s.phase = "preparing" => Untouched(s.run, s.gen)'
                      /\ s.phase \in {"refused", "unwinding"} => Gone(s.run, s.gen)'
    BY <1>1 DEF SpawnsKnowTheNode
  <2>1. s.run \in Runs /\ s.gen # 0
    BY <1>0 DEF TypeOK, Spawn, NothingAhead
  <2> QED BY <1>1, <2>1 DEF SpawnsKnowTheNode, Untouched, Gone
<1>5. StartsOnce' /\ ExitIsLast'
  BY <1>1 DEF StartsOnce, ExitIsLast, Gens
<1> QED BY <1>2, <1>3, <1>4, <1>5

\* tmux kill-session, whoever asks for it.
LEMMA KillsAreQuiet ==
  ASSUME TypeOK, NEW r \in Runs, Kill(r)
  PROVE  \A q \in Runs : session'[q] \in {0, session[q]}
  BY DEF TypeOK, Kill

LEMMA NextKeepsNodeInv == OwnerInv /\ NodeInv /\ [Next]_vars => NodeInv'
<1> SUFFICES ASSUME OwnerInv, NodeInv, [Next]_vars
             PROVE  NodeInv'
  OBVIOUS
<1>t. TypeOK
  BY DEF OwnerInv
<1>1. ASSUME NEW r \in Runs, Claim(r) PROVE NodeInv'
  BY <1>1, ClaimKeepsNodeInv
<1>2. SUFFICES ASSUME GensStay, ~ \E r \in Runs : Claim(r)
               PROVE  NodeInv'
  BY <1>1, StepKinds DEF NoOwnedRunIsQueued, GensStay
<1>q. NothingStarts => NodeInv'
  BY <1>2, QuietStepsKeepNodeInv
<1>3. ASSUME NEW s \in spawns, SpawnStep(s) PROVE NodeInv'
  <2>s. s.run \in Runs /\ s.gen \in Nat
    BY <1>t DEF TypeOK, Spawn
  <2>d. Drops(s) => spawns' \subseteq spawns
    BY DEF Drops
  <2>e. SpawnErrs(s) => starting' \subseteq starting
    BY DEF SpawnErrs
  <2>1. CASE SpawnSends(s)
    BY <2>1, <1>2, MovesKeepNodeInv DEF SpawnSends
  <2>2. CASE SpawnAborts(s)
    BY <2>2, <2>d, <1>q DEF SpawnAborts, node, NothingStarts
  <2>3. CASE SpawnFails(s)
    <3>1. Gone(s.run, s.gen)'
      <4>1. s.phase \in {"preparing", "refused"} => Gone(s.run, s.gen)
        BY DEF NodeInv, SpawnsKnowTheNode, Untouched
      <4>2. <<s.run, s.gen>> \in starting => session[s.run] # s.gen
        BY <1>t, <2>s DEF NodeInv, StartsOnce, TypeOK
      <4> QED BY <2>3, <4>1, <4>2 DEF SpawnFails, SpawnErrs, Gone
    <3> QED BY <2>3, <2>e, <3>1, <1>2, MovesKeepNodeInv DEF SpawnFails
  <2>4. CASE SpawnStale(s)
    BY <2>4, <2>d, <2>e, <1>q DEF SpawnStale, NothingStarts
  <2>5. CASE SpawnUnwinds(s)
    BY <2>5, <2>d, <1>q DEF SpawnUnwinds, node, NothingStarts
  <2>6. CASE SetupFails(s) \/ SetupThrows(s)
    BY <2>6, <2>d, <1>q DEF SetupFails, SetupThrows, node, NothingStarts
  <2>10. CASE AssetsUnsupported(s)
    <3>1. Gone(s.run, s.gen)'
      BY <2>10 DEF AssetsUnsupported, NodeInv, SpawnsKnowTheNode, Untouched, Gone,
                   node
    <3> QED BY <2>10, <3>1, <1>2, MovesKeepNodeInv DEF AssetsUnsupported, node
  <2>7. CASE SpawnAcked(s)
    <3>1. CASE Drops(s)
      BY <2>7, <2>d, <3>1, <1>q DEF SpawnAcked, node, NothingStarts
    <3>2. CASE Moves(s, "sealing")
      BY <2>7, <3>2, <1>2, MovesKeepNodeInv DEF SpawnAcked, node
    <3> QED BY <2>7, <3>1, <3>2 DEF SpawnAcked
  <2>8. CASE SpawnSealed(s)
    <3>1. \A q \in Runs : session'[q] \in {0, session[q]}
      BY <2>8, <2>s, <1>t, KillsAreQuiet DEF SpawnSealed
    <3> QED BY <2>8, <2>d, <3>1, <1>q DEF SpawnSealed, NothingStarts
  <2>9. CASE SpawnUncertain(s)
    BY <2>9, <2>d, <1>q DEF SpawnUncertain, node, NothingStarts
  <2> QED BY <1>3, <2>1, <2>2, <2>3, <2>4, <2>5, <2>6, <2>7, <2>8, <2>9, <2>10
          DEF SpawnStep
<1>4. CASE NodeStep
  <2>1. ASSUME NEW r \in Runs, NEW g \in Gens, NeverStarts(r, g) PROVE NodeInv'
    BY <2>1, <1>q DEF NeverStarts, NothingStarts
  <2>2. ASSUME NEW r \in Runs, SessionLost(r) PROVE NodeInv'
    BY <2>2, <1>q, <1>t DEF SessionLost, NothingStarts, TypeOK
  <2> QED BY <1>4, <2>1, <2>2, StartKeepsNodeInv, ExitKeepsNodeInv DEF NodeStep
<1>5. ASSUME NEW w \in Watchers, WatchStep(w) PROVE NodeInv'
  <2>v. \A v \in watch[w].at : v.run \in Runs
    BY <1>t, WatchType DEF View
  <2>1. ASSUME NEW v \in watch[w].at, Kills(w, v) \/ CallFails(w, v)
        PROVE  NodeInv'
    <3>1. \A q \in Runs : session'[q] \in {0, session[q]}
      BY <2>1, <2>v, <1>t, KillsAreQuiet DEF Kills, CallFails
    <3> QED BY <2>1, <3>1, <1>q DEF Kills, CallFails, NothingStarts
  <2>2. UNCHANGED node /\ UNCHANGED spawns => NodeInv'
    BY <1>q DEF node, NothingStarts
  <2> QED BY <1>5, <2>1, <2>2
             DEF WatchStep, NextPass, Visit, Answer, Reprobe, Judge, Settle,
                 Look, Resumes, Revoked
<1>6. ASSUME NEW c \in cancels, CancelStep(c) PROVE NodeInv'
  <2>1. CASE CancelKills(c)
    <3>1. c.run \in Runs
      BY <1>t DEF TypeOK, Cancel
    <3>2. \A q \in Runs : session'[q] \in {0, session[q]}
      BY <2>1, <3>1, <1>t, KillsAreQuiet DEF CancelKills
    <3> QED BY <2>1, <3>2, <1>q DEF CancelKills, NothingStarts
  <2>2. UNCHANGED node /\ UNCHANGED spawns => NodeInv'
    BY <1>q DEF node, NothingStarts
  <2> QED BY <1>6, <2>1, <2>2 DEF CancelStep, CancelProbed, CancelFinishes
<1>7. CASE Exits \/ Crash
  BY <1>7, <1>q DEF Exits, Crash, Ends, node, NothingStarts
<1>8. UNCHANGED node /\ UNCHANGED spawns => NodeInv'
  BY <1>q DEF node, NothingStarts
<1>9. CASE UNCHANGED vars
  BY <1>8, <1>9 DEF vars, node
<1> QED
  BY <1>2, <1>3, <1>4, <1>5, <1>6, <1>7, <1>8, <1>9
     DEF Next, Submit, CancelBegins, PatchStatus, CheckBegins, Expire, Shutdown, Boot

\* The evidence of a death is never lost.
LEMMA NextKeepsDeathWasSeen ==
  OwnerInv /\ DeathWasSeen /\ [Next]_vars => DeathWasSeen'
<1> SUFFICES ASSUME OwnerInv, DeathWasSeen, [Next]_vars
             PROVE  DeathWasSeen'
  OBVIOUS
<1>t. TypeOK
  BY DEF OwnerInv
<1>e. \A r \in Runs : exit[r].gen # 0 => exit'[r].gen # 0
  <2>1. ASSUME NEW r \in Runs, NEW ok \in BOOLEAN, WorkerExits(r, ok)
        PROVE  \A q \in Runs : exit[q].gen # 0 => exit'[q].gen # 0
    BY <2>1, <1>t DEF WorkerExits, TypeOK
  <2>2. exit' = exit \/ \E r \in Runs, ok \in BOOLEAN : WorkerExits(r, ok)
    <3>1. ASSUME NEW s \in spawns, SpawnStep(s) PROVE exit' = exit
      BY <3>1 DEF SpawnStep, SpawnSends, SpawnAborts, SpawnFails, SpawnStale,
                  SpawnUnwinds, SetupFails, AssetsUnsupported, SetupThrows,
                  SpawnAcked, SpawnSealed, SpawnUncertain, node
    <3>2. ASSUME NEW w \in Watchers, WatchStep(w) PROVE exit' = exit
      BY <3>2 DEF WatchStep, NextPass, Visit, Answer, Reprobe, Judge, Kills,
                  Settle, Look, Resumes, Revoked, CallFails, node
    <3>3. ASSUME NEW c \in cancels, CancelStep(c) PROVE exit' = exit
      BY <3>3 DEF CancelStep, CancelProbed, CancelKills, CancelFinishes, node
    <3> QED BY <3>1, <3>2, <3>3
               DEF Next, vars, node, Submit, Claim, CancelBegins, PatchStatus,
                   NodeStep, NodeStarts, NeverStarts, SessionLost, CheckBegins,
                   Expire, Shutdown, Exits, Crash, Ends, Boot
  <2> QED BY <2>1, <2>2
<1>u. ASSUME watch' = watch PROVE DeathWasSeen'
  <2>1. \A w \in Watchers : \A v \in watch[w].at : v.run \in Runs
    BY <1>t, WatchType DEF View
  <2> QED BY <1>u, <1>e, <2>1 DEF DeathWasSeen
\* A list of runs that have not been probed.
<1>l. ASSUME NEW w \in Watchers, NEW p, NEW S,
             watch' = [watch EXCEPT ![w] = [pass |-> p, at |-> {}, todo |-> S]],
             \A v \in S : v.seen = "unknown"
      PROVE  DeathWasSeen'
  <2>1. \A x \in Watchers : watch'[x] = IF x = w THEN [pass |-> p, at |-> {}, todo |-> S]
                                                 ELSE watch[x]
    BY <1>l, <1>t DEF TypeOK
  <2>2. \A x \in Watchers : \A v \in watch[x].at : v.run \in Runs
    BY <1>t, WatchType DEF View
  <2> QED BY <1>l, <1>e, <2>1, <2>2 DEF DeathWasSeen
<1>s. ASSUME NEW w \in Watchers, NEW p \in Passes, Starts(w, p) PROVE DeathWasSeen'
  <2> DEFINE S == CASE p \in {"running", "needs_input"} ->
                         {Listed(r, 0) : r \in {q \in Runs : run[q].status = p}}
                    [] p = "leases" ->
                         {Listed(r, HeldGen(r)) : r \in {q \in Runs : ~ Unowned(q)}}
                    [] OTHER -> {}
  <2>1. \A r, g : Listed(r, g).seen = "unknown"
    BY DEF Listed
  <2>2. \A v \in S : v.seen = "unknown"
    BY <2>1
  <2>3. watch' = [watch EXCEPT ![w] = [pass |-> p, at |-> {}, todo |-> S]]
    BY <1>s DEF Starts
  <2> HIDE DEF S
  <2> QED BY <1>l, <2>2, <2>3
\* The view a watcher goes on with.
<1>g. ASSUME NEW w \in Watchers, NEW u \in View, Goes(w, u) \/ Leaves(w),
             u.seen = "dead" => exit[u.run].gen # 0
      PROVE  DeathWasSeen'
  <2>0. watch \in [Watchers -> Watch] /\ \A x \in Watchers : watch[x] \in Watch
    BY <1>t DEF TypeOK
  <2>a. ASSUME NEW B \in {{}, {u}}, watch' = [watch EXCEPT ![w].at = B]
        PROVE  \A x \in Watchers :
                  /\ watch'[x].todo = watch[x].todo
                  /\ watch'[x].at \in IF x = w THEN {{}, {u}} ELSE {watch[x].at}
    <3> DEFINE y == [watch[w] EXCEPT !.at = B]
    <3>1. y.todo = watch[w].todo /\ y.at = B
      <4>1. watch[w] \in Watch
        BY <2>0
      <4> QED BY <4>1 DEF Watch
    <3>2. watch' = [watch EXCEPT ![w] = y]
      BY <2>a
    <3> HIDE DEF y
    <3>3. \A x \in Watchers : watch'[x] = IF x = w THEN y ELSE watch[x]
      BY <2>0, <3>2
    <3> QED BY <3>1, <3>3
  <2>1. \A x \in Watchers : /\ watch'[x].todo = watch[x].todo
                            /\ watch'[x].at \in
                                  IF x = w THEN {{}, {u}} ELSE {watch[x].at}
    <3>1. CASE Goes(w, u)
      BY <3>1, <2>a DEF Goes
    <3>2. CASE Leaves(w)
      BY <3>2, <2>a DEF Leaves
    <3> QED BY <1>g, <3>1, <3>2
  <2>2. \A x \in Watchers : \A v \in watch[x].at : v.run \in Runs
    BY <1>t, WatchType DEF View
  <2>3. u.run \in Runs
    BY DEF View
  <2> QED BY <1>g, <1>e, <2>1, <2>2, <2>3 DEF DeathWasSeen
<1>1. ASSUME NEW w \in Watchers, WatchStep(w) PROVE DeathWasSeen'
  <2>v. \A v \in watch[w].todo \cup watch[w].at : v \in View
    BY <1>t, WatchType
  <2>1. CASE NextPass(w)
    BY <2>1, <1>s DEF NextPass, Passes
  <2>2. ASSUME NEW v \in watch[w].todo, Visit(w, v) PROVE DeathWasSeen'
    <3>1. PICK u : u.seen = v.seen /\
                   watch' = [watch EXCEPT ![w].todo = @ \ {v}, ![w].at = {u}]
      <4> DEFINE u == [v EXCEPT !.gen = IF watch[w].pass = "leases" THEN v.gen
                                        ELSE HeldGen(v.run),
                                !.stage = "probe",
                             !.trust = CASE watch[w].pass = "granted" -> TRUE
                                         [] watch[w].pass = "leases" -> v.trust
                                         [] OTHER -> Trusted(v.run,
                                               IF watch[w].pass = "leases" THEN v.gen
                                               ELSE HeldGen(v.run))]
      <4>1. u.seen = v.seen
        BY <2>v DEF View
      <4>2. watch' = [watch EXCEPT ![w].todo = @ \ {v}, ![w].at = {u}]
        BY <2>2 DEF Visit
      <4> HIDE DEF u
      <4> QED BY <4>1, <4>2
    <3>2. v.seen = "unknown"
      BY <2>2 DEF DeathWasSeen
    <3>3. \A x \in Watchers : /\ watch'[x].todo \subseteq watch[x].todo
                              /\ watch'[x].at \in IF x = w THEN {{u}} ELSE {watch[x].at}
      <4> DEFINE f == [watch EXCEPT ![w].todo = @ \ {v}]
      <4>1. \A x \in Watchers : watch[x] \in Watch
        BY <1>t DEF TypeOK
      <4>2. f \in [Watchers -> Watch] /\ \A x \in Watchers :
               f[x].todo \subseteq watch[x].todo /\ f[x].at = watch[x].at
        BY <1>t, <4>1 DEF TypeOK, Watch
      <4>3. watch' = [f EXCEPT ![w].at = {u}]
        BY <3>1
      <4> HIDE DEF f
      <4>4. \A x \in Watchers : f[x] \in Watch
        BY <4>2
      <4>5. \A x \in Watchers : /\ watch'[x].todo = f[x].todo
                                /\ watch'[x].at = IF x = w THEN {u} ELSE f[x].at
        BY <4>2, <4>3, <4>4 DEF Watch
      <4> QED BY <4>2, <4>5
    <3>4. \A x \in Watchers : \A y \in watch[x].at : y.run \in Runs
      BY <1>t, WatchType DEF View
    <3>5. u.seen # "dead"
      BY <3>1, <3>2
    <3>6. ASSUME NEW x \in Watchers
          PROVE  /\ \A y \in watch'[x].todo : y.seen = "unknown"
                 /\ \A y \in watch'[x].at : y.seen = "dead" => exit'[y.run].gen # 0
      <4>1. CASE x = w
        BY <3>3, <3>5, <4>1 DEF DeathWasSeen
      <4>2. CASE x # w
        BY <1>e, <3>3, <3>4, <4>2 DEF DeathWasSeen
      <4> QED BY <4>1, <4>2
    <3> QED BY <3>6 DEF DeathWasSeen
  <2>3. ASSUME NEW v \in watch[w].at, NEW seen, Answer(w, v, seen) PROVE DeathWasSeen'
    <3> DEFINE u == [v EXCEPT !.seen = seen]
    <3>1. seen = "dead" => exit[v.run].gen # 0
      BY <2>3 DEF Answer, Probed, OwnerState
    <3>2. u \in View /\ u.run = v.run /\ u.seen = seen
      BY <2>3, <2>v, <1>t, ProbedType DEF Answer, View
    <3>3. RunAnswers(w, u) \/ LeaseAnswers(w, u) \/ GrantAnswers(w, u)
      BY <2>3 DEF Answer
    <3>4. exit[v.run].ok \in BOOLEAN
      BY <1>t, <2>v DEF TypeOK, Exit, View
    <3> HIDE DEF u
    <3>5. \A ok \in BOOLEAN : LET x == [u EXCEPT !.stage = "judge", !.ok = ok]
                              IN  x \in View /\ x.run = u.run /\ x.seen = u.seen
      BY <3>2 DEF View
    <3>6. \A st \in {"judge", "look", "revoke"} :
             LET x == [u EXCEPT !.stage = st]
             IN  x \in View /\ x.run = u.run /\ x.seen = u.seen
      BY <3>2 DEF View
    <3>7. \/ Leaves(w) \/ Goes(w, [u EXCEPT !.stage = "judge", !.ok = exit[u.run].ok])
          \/ \E st \in {"judge", "look", "revoke"} : Goes(w, [u EXCEPT !.stage = st])
      BY <3>3 DEF RunAnswers, LeaseAnswers, GrantAnswers
    <3> QED BY <3>1, <3>2, <3>4, <3>5, <3>6, <3>7, <1>g
  <2>4. ASSUME NEW v \in watch[w].at, NEW seen, Reprobe(w, v, seen) PROVE DeathWasSeen'
    <3>1. seen = "dead" => exit[v.run].gen # 0
      BY <2>4 DEF Reprobe, Probed, OwnerState
    <3>2. v \in View /\ exit[v.run].ok \in BOOLEAN
      BY <1>t, <2>v DEF TypeOK, Exit, View
    <3>3. \A ok \in BOOLEAN :
             LET x == [v EXCEPT !.stage = "judge", !.seen = "dead", !.ok = ok]
             IN  x \in View /\ x.run = v.run
      BY <3>2 DEF View
    <3>4. v.seen = "dead" => exit[v.run].gen # 0
      BY DEF DeathWasSeen
    <3> QED BY <2>4, <3>1, <3>2, <3>3, <3>4, <1>g DEF Reprobe
  <2>5. ASSUME NEW v \in watch[w].at,
               \/ Judge(w, v) \/ Kills(w, v) \/ Settle(w, v) \/ Look(w, v)
               \/ Resumes(w, v) \/ Revoked(w, v) \/ CallFails(w, v)
        PROVE  DeathWasSeen'
    <3>1. v \in View /\ (v.seen = "dead" => exit[v.run].gen # 0)
      BY <2>v DEF DeathWasSeen
    <3>2. \A st \in {"kill", "killed", "revoked"} :
             LET x == [v EXCEPT !.stage = st]
             IN  x \in View /\ x.run = v.run /\ x.seen = v.seen
      BY <3>1 DEF View
    <3>3. LET x == [v EXCEPT !.stage = "reprobe", !.gen = HeldGen(v.run),
                             !.trust = Trusted(v.run, HeldGen(v.run))]
          IN  x \in View /\ x.run = v.run /\ x.seen = v.seen
      <4>1. \A g \in Nat, b \in BOOLEAN :
               LET x == [v EXCEPT !.stage = "reprobe", !.gen = g, !.trust = b]
               IN  x \in View /\ x.run = v.run /\ x.seen = v.seen
        BY <3>1 DEF View
      <4>2. HeldGen(v.run) \in Nat /\ Trusted(v.run, HeldGen(v.run)) \in BOOLEAN
        BY <3>1, HeldGenType DEF View, Trusted
      <4> QED BY <4>1, <4>2
    <3>4. \/ Leaves(w)
          \/ \E st \in {"kill", "killed", "revoked"} : Goes(w, [v EXCEPT !.stage = st])
          \/ Goes(w, [v EXCEPT !.stage = "reprobe", !.gen = HeldGen(v.run),
                              !.trust = Trusted(v.run, HeldGen(v.run))])
          \/ watch' = [watch EXCEPT ![w] = [pass |-> "needs_input", todo |-> {},
                                           at |-> {}]]
      BY <2>5 DEF Judge, Kills, Settle, Look, Resumes, Revoked, CallFails
    <3>5. CASE Leaves(w)
      BY <3>1, <3>5, <1>g
    <3>6. ASSUME NEW st \in {"kill", "killed", "revoked"}, Goes(w, [v EXCEPT !.stage = st])
          PROVE  DeathWasSeen'
      BY <3>1, <3>2, <3>6, <1>g
    <3>7. CASE Goes(w, [v EXCEPT !.stage = "reprobe", !.gen = HeldGen(v.run),
                                 !.trust = Trusted(v.run, HeldGen(v.run))])
      BY <3>1, <3>3, <3>7, <1>g
    <3>8. CASE watch' = [watch EXCEPT ![w] = [pass |-> "needs_input", todo |-> {},
                                              at |-> {}]]
      <4> DEFINE S == {}
      <4>1. \A y \in S : y.seen = "unknown"
        OBVIOUS
      <4>2. watch' = [watch EXCEPT ![w] = [pass |-> "needs_input", at |-> {},
                                           todo |-> S]]
        BY <3>8
      <4> HIDE DEF S
      <4> QED BY <4>1, <4>2, <1>l
    <3> QED BY <3>4, <3>5, <3>6, <3>7, <3>8
  <2> QED BY <1>1, <2>1, <2>2, <2>3, <2>4, <2>5 DEF WatchStep
<1>2. ASSUME Exits \/ Crash PROVE DeathWasSeen'
  BY <1>2 DEF Exits, Crash, Ends, Resting, DeathWasSeen
<1>3. ASSUME Boot PROVE DeathWasSeen'
  <2> DEFINE S == {Listed(r, 0) : r \in {q \in Granted :
                                  run[q].status \in Active /\ run[q].gens > 0}}
  <2>1. \A r, g : Listed(r, g).seen = "unknown"
    BY DEF Listed
  <2>2. \A v \in S : v.seen = "unknown"
    BY <2>1
  <2>3. watch' = [watch EXCEPT !["boot"] = [pass |-> "granted", at |-> {}, todo |-> S]]
    BY <1>3 DEF Boot
  <2> HIDE DEF S
  <2> QED BY <1>l, <2>2, <2>3 DEF Watchers
<1>4. ASSUME CheckBegins PROVE DeathWasSeen'
  BY <1>4, <1>s DEF CheckBegins, Watchers, Passes
<1>5. ASSUME NEW s \in spawns, SpawnStep(s) PROVE DeathWasSeen'
  BY <1>5, <1>u DEF SpawnStep, SpawnSends, SpawnAborts, SpawnFails, SpawnStale,
              SpawnUnwinds, SetupFails, AssetsUnsupported, SetupThrows, SpawnAcked,
              SpawnSealed, SpawnUncertain
<1>6. ASSUME NEW c \in cancels, CancelStep(c) PROVE DeathWasSeen'
  BY <1>6, <1>u DEF CancelStep, CancelProbed, CancelKills, CancelFinishes
<1> QED
  BY <1>1, <1>2, <1>3, <1>4, <1>5, <1>6, <1>u
     DEF Next, vars, Submit, Claim, CancelBegins, PatchStatus, NodeStep,
         NodeStarts, NeverStarts, WorkerExits, SessionLost, Expire, Shutdown

\* Whoever is gone stays gone when it holds no lease, or when its start was sent
\* before: a start is sent once, and under a lease.
LEMMA GoneStaysGone ==
  ASSUME OwnerInv, Next, NEW r \in Runs, Gone(r, 1),
         \/ ~ Holds(r, 1)
         \/ \A s \in spawns : s.run = r /\ s.gen = 1 => s.phase # "preparing"
  PROVE  Gone(r, 1)'
<1>t. TypeOK
  BY DEF OwnerInv
<1>q. (starting' \subseteq starting /\ session'[r] \in {0, session[r]}) => Gone(r, 1)'
  BY DEF Gone
<1>n. UNCHANGED node => Gone(r, 1)'
  BY DEF Gone, node
<1>1. ASSUME NEW s \in spawns, SpawnStep(s) PROVE Gone(r, 1)'
  <2>1. CASE SpawnSends(s)
    BY <2>1 DEF SpawnSends, Startable, Gone
  <2>2. CASE SpawnSealed(s)
    <3>1. s.run \in Runs
      BY <1>t DEF TypeOK, Spawn
    <3> QED BY <2>2, <3>1, <1>q, <1>t, KillsAreQuiet DEF SpawnSealed
  <2>3. CASE SpawnFails(s) \/ SpawnStale(s)
    BY <2>3, <1>q DEF SpawnFails, SpawnStale, SpawnErrs
  <2> QED BY <1>1, <1>n, <2>1, <2>2, <2>3
             DEF SpawnStep, SpawnAborts, SpawnUnwinds, SetupFails,
                 AssetsUnsupported, SetupThrows, SpawnAcked, SpawnUncertain, node
<1>2. CASE NodeStep
  <2>1. ASSUME NEW q \in Runs, NEW g \in Gens, NodeStarts(q, g) PROVE Gone(r, 1)'
    <3>1. starting' \subseteq starting
      BY <2>1 DEF NodeStarts
    <3>2. ~ (q = r /\ g = 1)
      BY <2>1 DEF NodeStarts, Gone
    <3>3. session'[r] \in {session[r]} \cup IF q = r THEN {g} ELSE {}
      BY <2>1, <1>t DEF NodeStarts, TypeOK
    <3> QED BY <3>1, <3>2, <3>3 DEF Gone
  <2>2. ASSUME NEW q \in Runs, NEW g \in Gens, NeverStarts(q, g) PROVE Gone(r, 1)'
    BY <2>2 DEF NeverStarts, Gone
  <2>3. ASSUME NEW q \in Runs, NEW ok \in BOOLEAN, WorkerExits(q, ok)
        PROVE  Gone(r, 1)'
    BY <2>3, <1>t, <1>q DEF WorkerExits, TypeOK
  <2>4. ASSUME NEW q \in Runs, SessionLost(q) PROVE Gone(r, 1)'
    BY <2>4, <1>t, <1>q DEF SessionLost, TypeOK
  <2> QED BY <1>2, <2>1, <2>2, <2>3, <2>4 DEF NodeStep
<1>3. ASSUME NEW w \in Watchers, WatchStep(w) PROVE Gone(r, 1)'
  <2>1. ASSUME NEW v \in watch[w].at, Kills(w, v) \/ CallFails(w, v)
        PROVE  Gone(r, 1)'
    <3>1. v.run \in Runs
      BY <1>t, WatchType DEF View
    <3> QED BY <2>1, <3>1, <1>q, <1>t, KillsAreQuiet DEF Kills, CallFails
  <2> QED BY <1>3, <1>n, <2>1
             DEF WatchStep, NextPass, Visit, Answer, Reprobe, Judge, Settle,
                 Look, Resumes, Revoked
<1>4. ASSUME NEW c \in cancels, CancelStep(c) PROVE Gone(r, 1)'
  <2>1. c.run \in Runs
    BY <1>t DEF TypeOK, Cancel
  <2>2. CASE CancelKills(c)
    BY <2>1, <2>2, <1>q, <1>t, KillsAreQuiet DEF CancelKills
  <2> QED BY <1>4, <1>n, <2>2 DEF CancelStep, CancelProbed, CancelFinishes
<1> QED
  BY <1>n, <1>1, <1>2, <1>3, <1>4
     DEF Next, Submit, Claim, CancelBegins, PatchStatus, CheckBegins, Expire,
         Shutdown, Exits, Crash, Ends, Boot

\* An exit file under the first lease is the first generation's.
LEMMA FirstExitIsOwn ==
  ASSUME OwnerInv, NodeInv, NEW r \in Runs, Holds(r, 1), exit[r].gen # 0
  PROVE  Gone(r, 1)
<1>1. run[r].gens = 1 /\ exit[r].gen \in Nat
  BY DEF OwnerInv, HeldIsLatest, Holds, TypeOK, Exit
<1>2. exit[r].gen = 1
  BY <1>1 DEF NodeInv, NothingAhead
<1> QED BY <1>2 DEF NodeInv, ExitIsLast, StartsOnce, Gone, Holds

\* Nothing but a dead worker's lease is released.
LEMMA ReleasesAreDeaths ==
  ASSUME OwnerInv, NodeInv, DeathWasSeen, Next, NEW r \in Runs, Holds(r, 1),
         lease'[r][1].state = "released"
  PROVE  Gone(r, 1)'
<1>t. TypeOK
  BY DEF OwnerInv
<1>n. UNCHANGED node /\ Gone(r, 1) => Gone(r, 1)'
  BY DEF Gone, node
<1>h. 1 \in Gens /\ lease[r][1].state = "held"
  BY DEF Holds
<1>s. ASSUME NEW q \in Runs, NEW g \in Gens, ColumnsChange(q, g) PROVE FALSE
  BY <1>s, <1>h, <1>t, ColumnsKeepStates
<1>u. lease' # lease
  BY <1>h
<1>c. ASSUME NEW q \in Runs, NEW g, lease' = Closed(q, g, "released")
      PROVE  q = r /\ g = 1
  BY <1>c, <1>h, <1>t DEF Closed, Holds, TypeOK
<1>1. ASSUME NEW q \in Runs, Claim(q) PROVE FALSE
  <2>1. lease'[r][1].state \in {lease[r][1].state, "held"}
    BY <1>1, <1>h, ClaimTakes
  <2> QED BY <1>h, <2>1
<1>2. ASSUME NEW s \in spawns, SpawnStep(s) PROVE Gone(r, 1)'
  <2>s. s.run \in Runs
    BY <1>t DEF TypeOK, Spawn
  <2>h. Startable(s.run, s.gen) => s.gen \in Gens
    BY DEF Startable, Holds
  <2>p. /\ s.phase \in {"preparing", "refused", "unwinding"} => Gone(s.run, s.gen)
        /\ <<s.run, s.gen>> \in starting => session[s.run] # s.gen
    BY <1>t DEF NodeInv, SpawnsKnowTheNode, Untouched, StartsOnce, TypeOK
  <2>1. CASE SpawnSends(s)
    BY <2>1, <2>s, <2>h, <1>s DEF SpawnSends, ColumnsChange
  <2>2. CASE SpawnAborts(s) \/ SpawnUnwinds(s) \/ SetupFails(s) \/ SetupThrows(s)
    <3>1. s.run = r /\ s.gen = 1
      BY <2>2, <2>s, <1>c DEF SpawnAborts, SpawnUnwinds, SetupFails, SetupThrows
    <3> QED BY <2>2, <2>p, <3>1, <1>n
               DEF SpawnAborts, SpawnUnwinds, SetupFails, SetupThrows
  <2>3. CASE SpawnStale(s)
    <3>1. s.run = r /\ s.gen = 1
      BY <2>3, <2>s, <1>c DEF SpawnStale
    <3> QED BY <2>3, <2>p, <3>1 DEF SpawnStale, SpawnErrs, Gone
  <2>4. CASE SpawnAcked(s)
    BY <2>4, <2>s, <2>h, <1>s, <1>u DEF SpawnAcked, MarkStarted, ColumnsChange
  <2>5. CASE SpawnUncertain(s)
    BY <2>5, <2>s, <2>h, <1>s, <1>u DEF SpawnUncertain, Uncertain, ColumnsChange
  <2>6. CASE SpawnFails(s) \/ SpawnSealed(s) \/ AssetsUnsupported(s)
    BY <2>6, <1>u DEF SpawnFails, SpawnSealed, AssetsUnsupported
  <2> QED BY <1>2, <2>1, <2>2, <2>3, <2>4, <2>5, <2>6 DEF SpawnStep
<1>3. ASSUME NEW w \in Watchers, WatchStep(w) PROVE Gone(r, 1)'
  <2>v. \A v \in watch[w].at : v.run \in Runs /\ v.gen \in Nat
    BY <1>t, WatchType DEF View
  <2>1. ASSUME NEW v \in watch[w].at, NEW seen, Answer(w, v, seen) PROVE Gone(r, 1)'
    <3> DEFINE u == [v EXCEPT !.seen = seen]
    <3>1. u.run = v.run /\ u.seen = seen
      <4>1. v \in View
        BY <1>t, WatchType
      <4> QED BY <4>1 DEF View
    <3>2. RunAnswers(w, u) \/ LeaseAnswers(w, u) \/ GrantAnswers(w, u)
      BY <2>1 DEF Answer
    <3> HIDE DEF u
    <3>3. \A d \in {"no", "noted"} : lease' # Doubted(u, d)
      <4> SUFFICES ASSUME NEW d \in {"no", "noted"}, lease' = Doubted(u, d)
                   PROVE  FALSE
        OBVIOUS
      <4>1. Holds(u.run, u.gen) /\ lease' = [lease EXCEPT ![u.run][u.gen].doubt = d]
        BY <1>u DEF Doubted
      <4>2. ColumnsChange(u.run, u.gen)
        BY <4>1 DEF ColumnsChange
      <4> QED BY <2>v, <3>1, <4>1, <4>2, <1>s DEF Holds
    <3>4. lease' = Closed(u.run, u.gen, "released") /\ seen = "dead"
      <4>1. ~ (/\ Holds(u.run, u.gen)
               /\ lease' = [lease EXCEPT ![u.run][u.gen].acquired = TRUE,
                                         ![u.run][u.gen].doubt = "no"])
        <5> SUFFICES ASSUME Holds(u.run, u.gen),
                            lease' = [lease EXCEPT ![u.run][u.gen].acquired = TRUE,
                                                   ![u.run][u.gen].doubt = "no"]
                     PROVE  FALSE
          OBVIOUS
        <5>1. ColumnsChange(u.run, u.gen)
          BY DEF ColumnsChange
        <5> QED BY <2>v, <3>1, <5>1, <1>s DEF Holds
      <4>2. LeaseAnswers(w, u)
        BY <3>2, <3>3, <1>u DEF RunAnswers, GrantAnswers
      <4> QED BY <3>1, <3>3, <4>1, <4>2, <1>u DEF LeaseAnswers
    <3>5. v.run = r /\ exit[r].gen # 0
      BY <2>1, <2>v, <3>1, <3>4, <1>c DEF Answer, Probed, OwnerState
    <3> QED BY <2>1, <3>5, <1>n, FirstExitIsOwn DEF Answer
  <2>2. ASSUME NEW v \in watch[w].at, Settle(w, v) PROVE Gone(r, 1)'
    <3>1. v.seen = "dead"
      BY <2>2, <1>u DEF Settle
    <3>2. v.run = r
      BY <2>2, <2>v, <1>t, <1>c, <1>h DEF Settle, ClosedByObserver, TypeOK
    <3>3. exit[r].gen # 0
      BY <3>1, <3>2 DEF DeathWasSeen
    <3> QED BY <2>2, <3>3, <1>n, FirstExitIsOwn DEF Settle
  <2> QED BY <1>3, <1>u, <2>1, <2>2
             DEF WatchStep, NextPass, Visit, Reprobe, Judge, Kills,
                 Look, Resumes, Revoked, CallFails
<1>4. ASSUME NEW c \in cancels, CancelStep(c) PROVE Gone(r, 1)'
  <2>c. c.run \in Runs
    BY <1>t DEF TypeOK, Cancel
  <2>1. ASSUME NEW seen, CancelProbed(c, seen) PROVE Gone(r, 1)'
    <3>1. seen = "dead" /\ c.run = r
      BY <2>1, <2>c, <1>c, <1>u DEF CancelProbed
    <3>2. exit[r].gen # 0
      BY <2>1, <3>1 DEF CancelProbed, Probed, OwnerState
    <3> QED BY <2>1, <3>2, <1>n, FirstExitIsOwn DEF CancelProbed
  <2>2. CASE CancelFinishes(c)
    <3>1. lease'[r][1].state # "released"
      <4>1. [NoLease EXCEPT !.state = "abandoned"].state = "abandoned"
        BY DEF NoLease
      <4> QED BY <2>2, <2>c, <4>1, <1>h, <1>t DEF CancelFinishes, Closed, Holds, TypeOK
    <3> QED BY <3>1
  <2> QED BY <1>4, <1>u, <2>1, <2>2 DEF CancelStep, CancelKills
<1>5. ASSUME NEW q \in Runs, NEW g \in Gens, Expire(q, g) PROVE FALSE
  BY <1>5, <1>s DEF Expire, ColumnsChange
<1> QED
  BY <1>1, <1>2, <1>3, <1>4, <1>5, <1>u
     DEF Next, Submit, CancelBegins, PatchStatus, NodeStep, NodeStarts,
         NeverStarts, WorkerExits, SessionLost, CheckBegins, Shutdown, Exits,
         Crash, Ends, Boot

DeathInv == OwnerInv /\ NodeInv /\ DeathWasSeen /\ FirstReleaseIsDeath

LEMMA InitDeathInv == Init => DeathInv
<1> SUFFICES ASSUME Init PROVE DeathInv
  OBVIOUS
<1>1. NodeInv
  BY DEF Init, NodeInv, NothingAhead, OneSpawnEach, SpawnsKnowTheNode, StartsOnce,
         ExitIsLast
<1>2. DeathWasSeen
  BY DEF Init, DeathWasSeen, Resting
<1>3. FirstReleaseIsDeath
  <2>1. 1 \in Gens
    BY WorkerAssumption DEF Gens
  <2>2. \A r \in Runs : lease[r][1].state = "none"
    BY <2>1 DEF Init, NoLease
  <2> QED BY <2>2 DEF FirstReleaseIsDeath
<1> QED BY <1>1, <1>2, <1>3, InitOwnerInv DEF DeathInv

LEMMA NextKeepsDeathInv == DeathInv /\ [Next]_vars => DeathInv'
<1> SUFFICES ASSUME DeathInv, [Next]_vars
             PROVE  DeathInv'
  OBVIOUS
<1>1. OwnerInv' /\ NodeInv' /\ DeathWasSeen'
  BY NextKeepsOwnerInv, NextKeepsNodeInv, NextKeepsDeathWasSeen DEF DeathInv
<1>2. ASSUME NEW r \in Runs, lease'[r][1].state = "released" PROVE Gone(r, 1)'
  <2>1. 1 \in Gens
    BY WorkerAssumption DEF Gens
  <2>2. CASE UNCHANGED vars
    BY <1>2, <2>2 DEF DeathInv, FirstReleaseIsDeath, Gone, vars
  <2>3. CASE Next /\ Holds(r, 1)
    BY <1>2, <2>3, ReleasesAreDeaths DEF DeathInv
  <2>4. CASE Next /\ ~ Holds(r, 1)
    <3>1. lease[r][1].state = "released"
      <4>1. CASE LeasesOnlyClose
        BY <1>2, <2>1, <2>4, <4>1 DEF LeasesOnlyClose, StateChanges, Holds
      <4>2. ASSUME NEW q \in Runs, Claim(q) PROVE lease[r][1].state = "released"
        BY <1>2, <2>1, <4>2, ClaimTakes DEF DeathInv
      <4> QED BY <4>1, <4>2, StepKinds DEF DeathInv
    <3> QED BY <2>4, <3>1, GoneStaysGone DEF DeathInv, FirstReleaseIsDeath
  <2> QED BY <2>2, <2>3, <2>4
<1> QED BY <1>1, <1>2 DEF DeathInv, FirstReleaseIsDeath

\* When the first lease of a run is given up as `released', its worker has
\* ended and cannot start any more, whatever was lost, repeated or restarted.
THEOREM FirstReleasesAreDeaths == Spec => []FirstReleaseIsDeath
<1>1. DeathInv => FirstReleaseIsDeath
  BY DEF DeathInv
<1> QED BY <1>1, InitDeathInv, NextKeepsDeathInv, PTL DEF Spec
=============================================================================

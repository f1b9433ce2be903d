-------------------------- MODULE WorkerRetryProofs --------------------------
(***************************************************************************)
(* A retry waits for the worker it replaces: the theorem about WorkerRun   *)
(* that needs to know what the watchers and the cancellations remember.    *)
(***************************************************************************)
EXTENDS WorkerRunProofs

-----------------------------------------------------------------------------
(* The table of the runs                                                   *)

Keeps(q) == /\ run'[q].root = run[q].root /\ run'[q].retry = run[q].retry
            /\ run'[q].gens = run[q].gens

Wrote(r, s) ==
  \A q \in Runs : Keeps(q) /\ run'[q].status = IF q = r THEN s ELSE run[q].status

\* r fails, and c is enqueued in its place.
Replaced(r, c) ==
  /\ WantsRetry(r) /\ c # r /\ run[c].status = "none"
  /\ run'[c] = Child(r)
  /\ \A q \in Runs \ {c} :
        Keeps(q) /\ run'[q].status = IF q = r THEN "failed" ELSE run[q].status

LEMMA BecomesWrites ==
  ASSUME OwnerInv, NEW r \in Runs, NEW s \in Statuses, Becomes(r, s)
  PROVE  Wrote(r, s) \/ (s = "failed" /\ \E c \in Runs : Replaced(r, c))
<1>t. run \in [Runs -> Run]
  BY DEF OwnerInv, TypeOK
<1>1. CASE run' = [run EXCEPT ![r].status = s]
  BY <1>t, <1>1 DEF Wrote, Keeps, Run
<1>2. ASSUME WantsRetry(r), s = "failed", NEW c \in Runs, run[c].status = "none",
             run' = [run EXCEPT ![r].status = s, ![c] = Child(r)]
      PROVE  Replaced(r, c)
  <2>1. c # r
    BY <1>2 DEF OwnerInv, NoneIsFresh, WantsRetry
  <2>2. run'[c] = Child(r)
    BY <1>t, <1>2
  <2>3. \A q \in Runs \ {c} :
           Keeps(q) /\ run'[q].status = IF q = r THEN "failed" ELSE run[q].status
    BY <1>t, <1>2, <2>1 DEF Keeps, Run
  <2> QED BY <1>2, <2>1, <2>2, <2>3 DEF Replaced
<1> QED BY <1>1, <1>2 DEF Becomes

-----------------------------------------------------------------------------
(* What the handlers know.  A run that is worked on was claimed; a first   *)
(* lease is abandoned only after a kill found its worker; a verdict is     *)
(* about a worker that is dead, that holds no lease, or whose grace period *)
(* is over.                                                                *)

\* A first attempt is its own root; a retry was enqueued with its number.
Origins == \A r \in Runs : /\ run[r].retry = 0 => run[r].root = r
                           /\ run[r].status = "none" => run[r].retry = 0

RanOnce == \A r \in Runs : run[r].status \in Active => run[r].gens > 0

ClaimsAreSeen == \A r \in Runs : run[r].gens > 0 => lease[r][1].state # "none"

AbandonedIsGone == \A r \in Runs : lease[r][1].state = "abandoned" => Gone(r, 1)

\* A cancellation that killed the session of a run under its first lease.
Cancelled(c) ==
  /\ c.gen <= run[c.run].gens
  /\ c.killed /\ c.gen = 1 /\ Holds(c.run, 1)
        => /\ Gone(c.run, 1)
           /\ \A s \in spawns : s.run = c.run /\ s.gen = 1
                                => s.phase # "preparing"
CancelsKnow == \A c \in cancels : Cancelled(c)

Claimed(v) == run[v.run].gens > 0 /\ v.gen <= run[v.run].gens

\* A view that a watcher works on in a pass.
Informed(w, pass, v) ==
  /\ Claimed(v)
  /\ pass = "leases" => v.stage = "probe"
  /\ pass # "leases" /\ v.gen = 0 /\ run[v.run].gens = 1 => ~ Holds(v.run, 1)
  /\ v.stage = "judge" =>
        \/ v.seen = "dead" \/ v.gen = 0
        \/ w = "health" /\ (Holds(v.run, v.gen)
                            => lease[v.run][v.gen].doubt = "expired")

WatchersKnow ==
  /\ watch["boot"].pass \in {"idle", "granted"}
  /\ \A w \in Watchers :
        /\ \A v \in watch[w].todo : Claimed(v)
        /\ \A v \in watch[w].at : Informed(w, watch[w].pass, v)

WaitInv == /\ DeathInv /\ OneRetry /\ Origins /\ RanOnce
           /\ ClaimsAreSeen /\ AbandonedIsGone /\ CancelsKnow /\ WatchersKnow

-----------------------------------------------------------------------------
(* What a step does to the leases                                          *)

LeasesMove ==
  \/ lease' = lease
  \/ \E r \in Runs, g \in Nat : \/ lease' = Closed(r, g, "released")
                                \/ lease' = ClosedByObserver(r, g)
  \/ \E c \in cancels : /\ c.killed /\ UNCHANGED node
                        /\ lease' = Closed(c.run, c.gen, "abandoned")
  \/ \E r \in Runs, g \in Gens :
        \/ lease' = [lease EXCEPT ![r][g].engine = TRUE]
        \/ lease' = [lease EXCEPT ![r][g].acquired = TRUE]
        \/ lease' = [lease EXCEPT ![r][g].doubt = "expired"]
        \/ WatchStep("health") /\ ColumnsChange(r, g)

\* A grace period that is over stays over while the lease is held.
DoubtKept ==
  \A r \in Runs, g \in Gens :
     /\ lease[r][g].state = "held" /\ lease[r][g].doubt = "expired"
     /\ lease'[r][g].state = "held"
     => lease'[r][g].doubt = "expired"

LEMMA LeaseSteps ==
  ASSUME OwnerInv, watch["boot"].pass \in {"idle", "granted"}, Next
  PROVE  LeasesMove \/ \E r \in Runs : Claim(r)
<1>t. TypeOK
  BY DEF OwnerInv
<1>1. ASSUME NEW s \in spawns, SpawnStep(s) PROVE LeasesMove
  <2>s. s.run \in Runs /\ s.gen \in Nat
    BY <1>t DEF TypeOK, Spawn
  <2>h. Startable(s.run, s.gen) => s.gen \in Gens
    BY DEF Startable, Holds
  <2>1. CASE SpawnSends(s)
    BY <2>1, <2>s, <2>h DEF SpawnSends, LeasesMove
  <2>2. CASE \/ SpawnAborts(s) \/ SpawnStale(s) \/ SpawnUnwinds(s)
             \/ SetupFails(s) \/ SetupThrows(s)
    BY <2>2, <2>s DEF SpawnAborts, SpawnStale, SpawnUnwinds, SetupFails,
                      SetupThrows, LeasesMove
  <2>3. CASE SpawnAcked(s)
    BY <2>3, <2>s, <2>h DEF SpawnAcked, MarkStarted, LeasesMove
  <2>4. CASE SpawnUncertain(s)
    BY <2>4, <2>s, <2>h DEF SpawnUncertain, Uncertain, LeasesMove
  <2>5. CASE SpawnFails(s) \/ SpawnSealed(s) \/ AssetsUnsupported(s)
    BY <2>5 DEF SpawnFails, SpawnSealed, AssetsUnsupported, LeasesMove
  <2> QED BY <1>1, <2>1, <2>2, <2>3, <2>4, <2>5 DEF SpawnStep
<1>2. ASSUME NEW w \in Watchers, WatchStep(w) PROVE LeasesMove
  <2>v. \A v \in watch[w].at : v \in View /\ v.run \in Runs /\ v.gen \in Nat
    BY <1>t, WatchType DEF View
  <2>1. ASSUME NEW v \in watch[w].at, NEW seen, Answer(w, v, seen)
        PROVE  LeasesMove
    <3> DEFINE u == [v EXCEPT !.seen = seen]
    <3>1. u.run \in Runs /\ u.gen \in Nat
      <4>1. v \in View
        BY <2>v
      <4> QED BY <4>1 DEF View
    <3>2. RunAnswers(w, u) \/ LeaseAnswers(w, u) \/ GrantAnswers(w, u)
      BY <2>1 DEF Answer
    <3> HIDE DEF u
    <3>3. CASE w = "boot"
      BY <3>2, <3>3 DEF RunAnswers, LeaseAnswers, GrantAnswers, LeasesMove
    <3>4. CASE w = "health"
      <4>0. WatchStep("health")
        BY <1>2, <3>4
      <4>1. \A g \in Gens : ColumnsChange(u.run, g) => LeasesMove
        BY <3>1, <4>0 DEF LeasesMove
      <4>2. \A d \in {"no", "noted"} : lease' = Doubted(u, d) => LeasesMove
        <5> SUFFICES ASSUME NEW d \in {"no", "noted"}, lease' = Doubted(u, d)
                     PROVE  LeasesMove
          OBVIOUS
        <5>1. CASE Holds(u.run, u.gen)
          BY <5>1, <4>1 DEF Doubted, Holds, ColumnsChange
        <5>2. CASE ~ Holds(u.run, u.gen)
          BY <5>2 DEF Doubted, LeasesMove
        <5> QED BY <5>1, <5>2
      <4>3. CASE RunAnswers(w, u)
        BY <4>2, <4>3 DEF RunAnswers, LeasesMove
      <4>4. CASE LeaseAnswers(w, u)
        <5>1. CASE lease' = Closed(u.run, u.gen, "released")
          BY <3>1, <5>1 DEF LeasesMove
        <5>2. CASE /\ Holds(u.run, u.gen)
                   /\ lease' = [lease EXCEPT ![u.run][u.gen].acquired = TRUE,
                                             ![u.run][u.gen].doubt = "no"]
          BY <5>2, <4>1 DEF Holds, ColumnsChange
        <5>3. CASE lease' = Doubted(u, "noted") \/ lease' = lease
          BY <4>2, <5>3 DEF LeasesMove
        <5> QED BY <4>4, <5>1, <5>2, <5>3 DEF LeaseAnswers
      <4>5. CASE GrantAnswers(w, u)
        BY <4>5 DEF GrantAnswers, LeasesMove
      <4> QED BY <3>2, <4>3, <4>4, <4>5
    <3> QED BY <3>3, <3>4 DEF Watchers
  <2>2. ASSUME NEW v \in watch[w].at, Settle(w, v) PROVE LeasesMove
    BY <2>2, <2>v DEF Settle, LeasesMove
  <2>3. lease' = lease => LeasesMove
    BY DEF LeasesMove
  <2> QED BY <1>2, <2>1, <2>2, <2>3
             DEF WatchStep, NextPass, Visit, Reprobe, Judge, Kills, Look,
                 Resumes, Revoked, CallFails
<1>3. ASSUME NEW c \in cancels, CancelStep(c) PROVE LeasesMove
  <2>c. c.run \in Runs /\ c.gen \in Nat
    BY <1>t DEF TypeOK, Cancel
  <2>1. ASSUME NEW seen, CancelProbed(c, seen) PROVE LeasesMove
    BY <2>1, <2>c DEF CancelProbed, LeasesMove
  <2>2. CASE CancelFinishes(c)
    BY <2>2 DEF CancelFinishes, LeasesMove
  <2>3. CASE CancelKills(c)
    BY <2>3 DEF CancelKills, LeasesMove
  <2> QED BY <1>3, <2>1, <2>2, <2>3 DEF CancelStep
<1>4. ASSUME NEW r \in Runs, NEW g \in Gens, Expire(r, g) PROVE LeasesMove
  BY <1>4 DEF Expire, LeasesMove
<1>5. lease' = lease => LeasesMove
  BY DEF LeasesMove
<1> QED
  BY <1>1, <1>2, <1>3, <1>4, <1>5
     DEF Next, Submit, CancelBegins, PatchStatus, NodeStep, NodeStarts,
         NeverStarts, WorkerExits, SessionLost, CheckBegins, Shutdown, Exits,
         Crash, Ends, Boot

\* Only the health check hears from a live worker and forgets a doubt.
LEMMA DoubtsStay ==
  ASSUME OwnerInv, watch["boot"].pass \in {"idle", "granted"}, Next,
         ~ WatchStep("health")
  PROVE  DoubtKept
<1>t. TypeOK
  BY DEF OwnerInv
<1>c. /\ [NoLease EXCEPT !.state = "released"].state # "held"
      /\ [NoLease EXCEPT !.state = "abandoned"].state # "held"
  BY DEF NoLease
<1>1. ASSUME NEW r \in Runs, Claim(r) PROVE DoubtKept
  <2>1. \A q \in Runs \ {r} : lease'[q] = lease[q]
    BY <1>1, ClaimTakes
  <2>2. \A g \in Gens : lease[r][g].state # "held"
    BY <1>1, ClaimTakes DEF Unowned
  <2> QED BY <2>1, <2>2 DEF DoubtKept
<1>2. ASSUME NEW r \in Runs, NEW g \in Nat, NEW how \in {"released", "abandoned"},
             lease' = Closed(r, g, how)
      PROVE  DoubtKept
  <2>1. \A q \in Runs, h \in Gens :
           lease'[q][h] = lease[q][h] \/ lease'[q][h].state # "held"
    BY <1>2, <1>c, <1>t DEF Closed, TypeOK, Holds
  <2> QED BY <2>1 DEF DoubtKept
<1>3. ASSUME NEW r \in Runs, NEW g \in Nat, lease' = ClosedByObserver(r, g)
      PROVE  DoubtKept
  <2>1. \A q \in Runs, h \in Gens :
           lease'[q][h] = lease[q][h] \/ lease'[q][h].state # "held"
    BY <1>3, <1>c, <1>t DEF ClosedByObserver, TypeOK, Holds
  <2> QED BY <2>1 DEF DoubtKept
<1>4. ASSUME NEW r \in Runs, NEW g \in Gens,
             \/ lease' = [lease EXCEPT ![r][g].engine = TRUE]
             \/ lease' = [lease EXCEPT ![r][g].acquired = TRUE]
             \/ lease' = [lease EXCEPT ![r][g].doubt = "expired"]
      PROVE  DoubtKept
  <2>1. ASSUME NEW f \in [Runs -> [Gens -> Lease]]
        PROVE  \A q \in Runs, h \in Gens :
                  /\ [f EXCEPT ![r][g].engine = TRUE][q][h].doubt = f[q][h].doubt
                  /\ [f EXCEPT ![r][g].acquired = TRUE][q][h].doubt = f[q][h].doubt
                  /\ [f EXCEPT ![r][g].doubt = "expired"][q][h].doubt
                       \in {f[q][h].doubt, "expired"}
    BY DEF Lease
  <2>2. \A q \in Runs, h \in Gens :
           lease'[q][h].doubt \in {lease[q][h].doubt, "expired"}
    <3>0. lease \in [Runs -> [Gens -> Lease]]
      BY <1>t DEF TypeOK
    <3>1. CASE lease' = [lease EXCEPT ![r][g].engine = TRUE]
      BY <2>1, <3>0, <3>1
    <3>2. CASE lease' = [lease EXCEPT ![r][g].acquired = TRUE]
      BY <2>1, <3>0, <3>2
    <3>3. CASE lease' = [lease EXCEPT ![r][g].doubt = "expired"]
      BY <2>1, <3>0, <3>3
    <3> QED BY <1>4, <3>1, <3>2, <3>3
  <2> QED BY <2>2 DEF DoubtKept
<1>5. \A c \in cancels : c.run \in Runs /\ c.gen \in Nat
  BY <1>t DEF TypeOK, Cancel
<1> QED BY <1>1, <1>2, <1>3, <1>4, <1>5, LeaseSteps DEF LeasesMove, DoubtKept

\* A lease that no claim has reached yet, or that is closed, is not held again.
LEMMA HoldsBack ==
  ASSUME OwnerInv, [Next]_vars, NEW r \in Runs
  PROVE  /\ run'[r].gens \in Nat /\ run[r].gens \in Nat
         /\ run'[r].gens >= run[r].gens
         /\ \A g \in Gens : /\ g <= run[r].gens
                            /\ lease'[r][g].state = "held"
                            => lease[r][g].state = "held"
<1>0. run[r].gens \in Nat
  BY DEF OwnerInv, TypeOK, Run
<1>1. ASSUME NEW q \in Runs, Claim(q)
      PROVE  /\ run'[r].gens \in {run[r].gens, run[r].gens + 1}
             /\ \A g \in Gens : /\ g <= run[r].gens
                                /\ lease'[r][g].state = "held"
                                => lease[r][g].state = "held"
  <2>1. CASE r = q
    BY <1>0, <1>1, <2>1, ClaimTakes
  <2>2. CASE r # q
    BY <1>1, <2>2, ClaimTakes
  <2> QED BY <2>1, <2>2
<1>2. ASSUME LeasesOnlyClose, NoOwnedRunIsQueued
      PROVE  /\ run'[r].gens = run[r].gens
             /\ \A g \in Gens : lease'[r][g].state = "held"
                                => lease[r][g].state = "held"
  BY <1>2 DEF LeasesOnlyClose, NoOwnedRunIsQueued, StateChanges
<1> QED BY <1>0, <1>1, <1>2, StepKinds

\* Nothing but a kill that found the worker has its lease abandoned.
LEMMA AbandonsAreKills ==
  ASSUME OwnerInv, CancelsKnow, watch["boot"].pass \in {"idle", "granted"}, Next,
         NEW r \in Runs, lease[r][1].state # "abandoned",
         lease'[r][1].state = "abandoned"
  PROVE  Gone(r, 1)'
<1>t. TypeOK /\ 1 \in Gens
  BY WorkerAssumption DEF OwnerInv, Gens
<1>c. [NoLease EXCEPT !.state = "released"].state = "released"
  BY DEF NoLease
<1>1. ASSUME NEW q \in Runs, Claim(q) PROVE FALSE
  <2>1. CASE q = r
    BY <1>1, <1>t, <2>1, ClaimTakes
  <2>2. CASE q # r
    BY <1>1, <1>t, <2>2, ClaimTakes
  <2> QED BY <2>1, <2>2
<1>2. ASSUME NEW q \in Runs, NEW g \in Nat,
             \/ lease' = Closed(q, g, "released")
             \/ lease' = ClosedByObserver(q, g)
      PROVE  FALSE
  <2>1. CASE lease' = Closed(q, g, "released")
    BY <2>1, <1>c, <1>t DEF Closed, TypeOK, Holds
  <2>2. CASE lease' = ClosedByObserver(q, g)
    BY <2>2, <1>c, <1>t DEF ClosedByObserver, TypeOK, Holds
  <2> QED BY <1>2, <2>1, <2>2
<1>3. ASSUME NEW q \in Runs, NEW g \in Gens, ColumnsChange(q, g) PROVE FALSE
  BY <1>3, <1>t, ColumnsKeepStates
<1>4. ASSUME NEW c \in cancels, c.killed, UNCHANGED node,
             lease' = Closed(c.run, c.gen, "abandoned")
      PROVE  Gone(r, 1)'
  <2>1. c.run \in Runs /\ c.gen \in Nat
    BY <1>t DEF TypeOK, Cancel
  <2>2. c.run = r /\ c.gen = 1 /\ Holds(r, 1)
    BY <1>4, <1>t, <2>1 DEF Closed, Holds, TypeOK
  <2>3. Gone(r, 1)
    BY <1>4, <2>2 DEF CancelsKnow, Cancelled
  <2> QED BY <1>4, <2>3 DEF Gone, node
<1> QED BY <1>1, <1>2, <1>3, <1>4, LeaseSteps DEF LeasesMove, ColumnsChange

-----------------------------------------------------------------------------
(* Cancellations                                                           *)

\* Only a claim brings a start that is still to be sent.
LEMMA PreparingIsNew ==
  ASSUME OwnerInv, Next, NEW s \in spawns', s.phase = "preparing"
  PROVE  s \in spawns \/ \E r \in Runs : Claim(r) /\ s.run = r /\ s.gen = run[r].gens + 1
<1>t. TypeOK
  BY DEF OwnerInv
<1>1. ASSUME NEW r \in Runs, Claim(r), s \notin spawns
      PROVE  s.run = r /\ s.gen = run[r].gens + 1
  <2>1. s = [run |-> r, gen |-> run[r].gens + 1, phase |-> "preparing"]
    BY <1>1 DEF Claim
  <2> QED BY <2>1
<1>2. ASSUME NEW p \in spawns, SpawnStep(p) PROVE s \in spawns
  <2>1. CASE Drops(p) \/ spawns' = spawns
    BY <2>1 DEF Drops
  <2>2. ASSUME NEW ph \in {"starting", "sealing", "unwinding"}, Moves(p, ph)
        PROVE  s \in spawns
    <3>1. [p EXCEPT !.phase = ph].phase = ph
      BY <1>t DEF TypeOK, Spawn
    <3> QED BY <2>2, <3>1 DEF Moves
  <2> QED BY <1>2, <2>1, <2>2
             DEF SpawnStep, SpawnSends, SpawnAborts, SpawnFails, SpawnStale,
                 SpawnUnwinds, SetupFails, AssetsUnsupported, SetupThrows,
                 SpawnAcked, SpawnSealed, SpawnUncertain
<1>3. ASSUME NEW r \in Runs, NEW g \in Gens, NodeStarts(r, g) PROVE s \in spawns
  <2>1. PICK p \in spawns :
           s = IF p.run = r /\ p.gen = g /\ p.phase = "starting"
               THEN [p EXCEPT !.phase = IF session[r] = 0 THEN "started"
                                                          ELSE "refused"]
               ELSE p
    BY <1>3 DEF NodeStarts
  <2>2. \A ph \in {"started", "refused"} : [p EXCEPT !.phase = ph].phase = ph
    BY <1>t DEF TypeOK, Spawn
  <2> QED BY <2>1, <2>2
<1>4. ASSUME NEW w \in Watchers, WatchStep(w) PROVE s \in spawns
  BY <1>4 DEF WatchStep, NextPass, Visit, Answer, Reprobe, Judge, Kills, Settle,
              Look, Resumes, Revoked, CallFails
<1>5. ASSUME NEW c \in cancels, CancelStep(c) PROVE s \in spawns
  BY <1>5 DEF CancelStep, CancelProbed, CancelKills, CancelFinishes
<1> QED
  BY <1>1, <1>2, <1>3, <1>4, <1>5
     DEF Next, Submit, CancelBegins, PatchStatus, NodeStep, NeverStarts,
         WorkerExits, SessionLost, CheckBegins, Expire, Shutdown, Exits, Crash,
         Ends, Boot

\* The held lease is a claim of the run.
LEMMA HeldGenBounds ==
  ASSUME OwnerInv, NEW r \in Runs
  PROVE  /\ HeldGen(r) \in Nat /\ run[r].gens \in Nat /\ HeldGen(r) <= run[r].gens
         /\ HeldGen(r) = 0 => \A g \in Gens : lease[r][g].state # "held"
<1>1. run[r].gens \in Nat /\ HeldIsLatest /\ Gens \subseteq Nat \ {0}
  BY DEF OwnerInv, TypeOK, Run, Gens
<1>2. CASE Unowned(r)
  BY <1>1, <1>2, HeldGenValue DEF Unowned
<1>3. ASSUME NEW g \in Gens, lease[r][g].state = "held"
      PROVE  HeldGen(r) = g /\ g = run[r].gens
  BY <1>1, <1>3, HeldGenValue DEF HeldIsLatest
<1> QED BY <1>1, <1>2, <1>3 DEF Unowned

\* What a cancellation knows stays true.
LEMMA KnowledgeStays ==
  ASSUME OwnerInv, Next, NEW c \in Cancel, Cancelled(c)
  PROVE  Cancelled(c)'
<1>0. c.run \in Runs /\ c.gen \in Nat /\ 1 \in Gens
  BY WorkerAssumption DEF Cancel, Gens
<1>1. /\ run'[c.run].gens \in Nat /\ run[c.run].gens \in Nat
      /\ run'[c.run].gens >= run[c.run].gens
      /\ \A g \in Gens : /\ g <= run[c.run].gens
                         /\ lease'[c.run][g].state = "held"
                         => lease[c.run][g].state = "held"
  BY <1>0, HoldsBack
<1>2. c.gen <= run'[c.run].gens
  BY <1>0, <1>1 DEF Cancelled
<1>3. ASSUME c.killed, c.gen = 1, Holds(c.run, 1)'
      PROVE  /\ Gone(c.run, 1)'
             /\ \A s \in spawns' : s.run = c.run /\ s.gen = 1
                                   => s.phase # "preparing"
  <2>1. Holds(c.run, 1)
    BY <1>0, <1>1, <1>3 DEF Holds, Cancelled
  <2>2. /\ Gone(c.run, 1)
        /\ \A s \in spawns : s.run = c.run /\ s.gen = 1 => s.phase # "preparing"
    BY <1>3, <2>1 DEF Cancelled
  <2>3. Gone(c.run, 1)'
    BY <1>0, <2>2, GoneStaysGone
  <2>4. ASSUME NEW s \in spawns', s.run = c.run, s.gen = 1, s.phase = "preparing"
        PROVE  FALSE
    <3>1. ASSUME NEW r \in Runs, Claim(r), s.run = r, s.gen = run[r].gens + 1
          PROVE  FALSE
      BY <1>1, <1>3, <2>4, <3>1 DEF Cancelled
    <3> QED BY <2>2, <2>4, <3>1, PreparingIsNew
  <2> QED BY <2>3, <2>4
<1> QED BY <1>2, <1>3 DEF Cancelled

LEMMA NextKeepsCancels ==
  ASSUME OwnerInv, NodeInv, CancelsKnow, Next
  PROVE  CancelsKnow'
<1>t. TypeOK /\ TypeOK'
  BY NextKeepsTypes DEF OwnerInv
<1>o. ASSUME NEW c \in cancels PROVE Cancelled(c)'
  <2>1. c \in Cancel
    BY <1>t DEF TypeOK
  <2> QED BY <2>1, KnowledgeStays DEF CancelsKnow
<1>s. cancels' \subseteq cancels => CancelsKnow'
  BY <1>o DEF CancelsKnow
\* A cancellation that goes on with what it knew.
<1>m. ASSUME NEW c \in cancels, NEW d \in Cancel, CancelMoves(c, d),
             d.run = c.run, d.killed = c.killed, d.gen \in {0, c.gen}
      PROVE  CancelsKnow'
  <2>0. c \in Cancel
    BY <1>t DEF TypeOK
  <2>1. Cancelled(d)
    <3>1. run[c.run].gens \in Nat /\ Cancelled(c)
      BY <1>t, <2>0 DEF Cancel, CancelsKnow, TypeOK, Run
    <3>2. CASE d.gen = 0
      BY <1>m, <3>1, <3>2 DEF Cancelled
    <3>3. CASE d.gen = c.gen
      BY <1>m, <3>1, <3>3 DEF Cancelled
    <3> QED BY <1>m, <3>2, <3>3
  <2>2. Cancelled(d)'
    BY <2>1, KnowledgeStays
  <2> QED BY <1>m, <1>o, <2>2 DEF CancelsKnow, CancelMoves
<1>1. ASSUME NEW r \in Runs, CancelBegins(r) PROVE CancelsKnow'
  <2>1. PICK d : /\ cancels' = cancels \cup {d} /\ run' = run
                 /\ d.run = r /\ d.gen = HeldGen(r) /\ ~ d.killed
    <3> DEFINE d == [run |-> r, gen |-> HeldGen(r),
                     trust |-> Trusted(r, HeldGen(r)),
                     stage |-> IF HeldGen(r) = 0 THEN "kill" ELSE "probe",
                     killed |-> FALSE]
    <3>1. cancels' = cancels \cup {d} /\ run' = run
      BY <1>1 DEF CancelBegins
    <3>2. d.run = r /\ d.gen = HeldGen(r) /\ ~ d.killed
      OBVIOUS
    <3> HIDE DEF d
    <3> QED BY <3>1, <3>2
  <2>2. d.run = r /\ ~ d.killed
    BY <2>1
  <2>3. d.gen <= run[r].gens
    BY <2>1, HeldGenBounds
  <2>4. Cancelled(d)'
    BY <2>1, <2>2, <2>3 DEF Cancelled
  <2> QED BY <1>o, <2>1, <2>4 DEF CancelsKnow
<1>2. ASSUME NEW c \in cancels, CancelStep(c) PROVE CancelsKnow'
  <2>c. c \in Cancel /\ c.run \in Runs /\ c.gen \in Nat
    BY <1>t DEF TypeOK, Cancel
  <2>1. ASSUME NEW seen, CancelProbed(c, seen) PROVE CancelsKnow'
    <3>1. LET d == [c EXCEPT !.stage = "kill", !.gen = 0]
          IN  d \in Cancel /\ d.run = c.run /\ d.killed = c.killed /\ d.gen = 0
      BY <2>c DEF Cancel
    <3>2. LET d == [c EXCEPT !.stage = "kill"]
          IN  d \in Cancel /\ d.run = c.run /\ d.killed = c.killed /\ d.gen = c.gen
      BY <2>c DEF Cancel
    <3> QED BY <2>1, <3>1, <3>2, <1>m DEF CancelProbed
  <2>2. CASE CancelKills(c)
    <3>1. LET d == [c EXCEPT !.stage = "done"]
          IN  d \in Cancel /\ d.run = c.run /\ d.killed = c.killed /\ d.gen = c.gen
      BY <2>c DEF Cancel
    <3>2. ASSUME Kill(c.run),
                 CancelMoves(c, [c EXCEPT !.stage = "done",
                                          !.killed = session[c.run] # 0])
          PROVE  CancelsKnow'
      <4>2. PICK k \in BOOLEAN : k = (session[c.run] # 0)
        OBVIOUS
      <4> DEFINE d == [c EXCEPT !.stage = "done", !.killed = k]
      <4>1. cancels' = (cancels \ {c}) \cup {d}
        BY <3>2, <4>2 DEF CancelMoves
      <4>3. d.run = c.run /\ d.gen = c.gen /\ d.killed = k
        BY <2>c, <4>2 DEF Cancel
      <4> HIDE DEF d
      <4>4. /\ run' = run /\ lease' = lease /\ starting' = starting
            /\ spawns' = spawns /\ session' = [session EXCEPT ![c.run] = 0]
        BY <2>2, <3>2 DEF CancelKills, Kill
      <4>5. c.gen <= run'[c.run].gens
        BY <4>4 DEF CancelsKnow, Cancelled
      <4>6. ASSUME k, c.gen = 1, Holds(c.run, 1)
            PROVE  /\ Gone(c.run, 1)'
                   /\ \A s \in spawns' : s.run = c.run /\ s.gen = 1
                                         => s.phase # "preparing"
        <5>1. run[c.run].gens = 1
          BY <2>c, <4>6 DEF OwnerInv, HeldIsLatest, Holds
        <5>2. session[c.run] = 1
          <6>1. session[c.run] # 0
            BY <4>2, <4>6
          <6>2. session[c.run] \in Nat /\ session[c.run] <= 1
            BY <1>t, <2>c, <5>1 DEF NodeInv, NothingAhead, TypeOK
          <6> QED BY <6>1, <6>2
        <5>3. <<c.run, 1>> \notin starting
          BY <2>c, <4>6, <5>2 DEF NodeInv, StartsOnce, Holds
        <5>4. session'[c.run] = 0
          BY <1>t, <2>c, <4>4 DEF TypeOK
        <5>5. \A s \in spawns : s.run = c.run /\ s.gen = 1 => s.phase # "preparing"
          BY <5>2 DEF NodeInv, SpawnsKnowTheNode, Untouched, Gone
        <5> QED BY <4>4, <5>3, <5>4, <5>5 DEF Gone
      <4>7. Holds(c.run, 1)' => Holds(c.run, 1)
        BY <4>4 DEF Holds
      <4>8. Cancelled(d)'
        BY <4>3, <4>5, <4>6, <4>7 DEF Cancelled
      <4> QED BY <1>o, <4>1, <4>8 DEF CancelsKnow
    <3> QED BY <2>2, <3>1, <3>2, <1>m DEF CancelKills
  <2>3. CASE CancelFinishes(c)
    BY <2>3, <1>s DEF CancelFinishes
  <2> QED BY <1>2, <2>1, <2>2, <2>3 DEF CancelStep
<1>3. CASE Exits \/ Crash
  BY <1>3, <1>s DEF Exits, Crash, Ends
<1>4. ASSUME NEW s \in spawns, SpawnStep(s) PROVE CancelsKnow'
  BY <1>4, <1>s DEF SpawnStep, SpawnSends, SpawnAborts, SpawnFails, SpawnStale,
              SpawnUnwinds, SetupFails, AssetsUnsupported, SetupThrows, SpawnAcked,
              SpawnSealed, SpawnUncertain
<1>5. ASSUME NEW w \in Watchers, WatchStep(w) PROVE CancelsKnow'
  BY <1>5, <1>s DEF WatchStep, NextPass, Visit, Answer, Reprobe, Judge, Kills,
              Settle, Look, Resumes, Revoked, CallFails
<1> QED
  BY <1>1, <1>2, <1>3, <1>4, <1>5, <1>s
     DEF Next, Submit, Claim, PatchStatus, NodeStep, NodeStarts, NeverStarts,
         WorkerExits, SessionLost, CheckBegins, Expire, Shutdown, Boot

-----------------------------------------------------------------------------
(* The watchers                                                            *)

\* What a watcher knows of a run stays true while others take steps.
LEMMA ViewsStay ==
  ASSUME OwnerInv, Next, NEW v \in View
  PROVE  /\ Claimed(v) => Claimed(v)'
         /\ \A w \in Watchers, pass \in Passes :
               Informed(w, pass, v) /\ (w = "boot" \/ DoubtKept)
                  => Informed(w, pass, v)'
<1>0. v.run \in Runs /\ v.gen \in Nat /\ 1 \in Gens
  BY WorkerAssumption DEF View, Gens
<1>1. /\ run'[v.run].gens \in Nat /\ run[v.run].gens \in Nat
      /\ run'[v.run].gens >= run[v.run].gens
      /\ \A g \in Gens : /\ g <= run[v.run].gens
                         /\ lease'[v.run][g].state = "held"
                         => lease[v.run][g].state = "held"
  BY <1>0, HoldsBack
<1>2. Claimed(v) => Claimed(v)'
  BY <1>0, <1>1 DEF Claimed
<1>3. ASSUME NEW w \in Watchers, NEW pass \in Passes, Informed(w, pass, v),
             w = "boot" \/ DoubtKept
      PROVE  Informed(w, pass, v)'
  <2>1. Claimed(v)'
    BY <1>2, <1>3 DEF Informed
  <2>2. pass # "leases" /\ v.gen = 0 /\ run'[v.run].gens = 1 => ~ Holds(v.run, 1)'
    BY <1>0, <1>1, <1>3 DEF Informed, Claimed, Holds
  <2>3. ASSUME w = "health", Holds(v.run, v.gen)',
               Holds(v.run, v.gen) => lease[v.run][v.gen].doubt = "expired"
        PROVE  lease'[v.run][v.gen].doubt = "expired"
    BY <1>0, <1>1, <1>3, <2>3 DEF Informed, Claimed, Holds, DoubtKept
  <2> QED BY <1>3, <2>1, <2>2, <2>3 DEF Informed
<1> QED BY <1>2, <1>3

\* A watcher that goes on with a view, or leaves it.
LEMMA MovesKeepWatchers ==
  ASSUME OwnerInv, WatchersKnow, Next, NEW w \in Watchers,
         w = "health" \/ DoubtKept,
         \/ Leaves(w)
         \/ \E x \in View : /\ Goes(w, x) /\ lease' = lease
                            /\ Informed(w, watch[w].pass, x)
  PROVE  WatchersKnow'
<1>0. watch \in [Watchers -> Watch] /\ \A y \in Watchers : watch[y] \in Watch
  BY DEF OwnerInv, TypeOK
<1>v. \A y \in Watchers : /\ watch[y].pass \in Passes
                          /\ watch[y].todo \subseteq View
                          /\ watch[y].at \subseteq View
  BY <1>0 DEF Watch
<1>a. ASSUME NEW B \in SUBSET View, watch' = [watch EXCEPT ![w].at = B]
      PROVE  \A y \in Watchers :
                /\ watch'[y].todo = watch[y].todo /\ watch'[y].pass = watch[y].pass
                /\ watch'[y].at = IF y = w THEN B ELSE watch[y].at
  <2> DEFINE z == [watch[w] EXCEPT !.at = B]
  <2>1. z.todo = watch[w].todo /\ z.at = B /\ z.pass = watch[w].pass
    <3>1. watch[w] \in Watch
      BY <1>0
    <3> QED BY <3>1 DEF Watch
  <2>2. watch' = [watch EXCEPT ![w] = z]
    BY <1>a
  <2> HIDE DEF z
  <2>3. \A y \in Watchers : watch'[y] = IF y = w THEN z ELSE watch[y]
    BY <1>0, <2>2
  <2> QED BY <2>1, <2>3
<1>q. PICK q \in Passes : q = watch[w].pass
  BY <1>v
<1>b. ASSUME NEW B \in SUBSET View, watch' = [watch EXCEPT ![w].at = B],
             \A x \in B : Informed(w, q, x)'
      PROVE  WatchersKnow'
  <2>1. \A y \in Watchers :
           /\ watch'[y].todo = watch[y].todo /\ watch'[y].pass = watch[y].pass
           /\ watch'[y].at = IF y = w THEN B ELSE watch[y].at
    BY <1>a, <1>b
  <2>2. watch'["boot"].pass \in {"idle", "granted"}
    BY <2>1 DEF WatchersKnow, Watchers
  <2>3. ASSUME NEW y \in Watchers, NEW x \in watch'[y].todo PROVE Claimed(x)'
    BY <2>1, <2>3, <1>v, ViewsStay DEF WatchersKnow
  <2>4. ASSUME NEW y \in Watchers, NEW x \in watch'[y].at
        PROVE  Informed(y, watch[y].pass, x)'
    <3>1. PICK p \in Passes : p = watch[y].pass /\ p = watch'[y].pass
      BY <2>1, <1>v
    <3>2. Informed(y, p, x)'
      <4>1. CASE y = w
        BY <1>b, <1>q, <2>1, <2>4, <3>1, <4>1
      <4>2. CASE y # w
        <5>1. x \in View /\ Informed(y, p, x)
          BY <2>1, <2>4, <3>1, <4>2, <1>v DEF WatchersKnow
        <5>2. y = "boot" \/ DoubtKept
          BY <4>2 DEF Watchers
        <5> QED BY <5>1, <5>2, ViewsStay
      <4> QED BY <4>1, <4>2
    <3> QED BY <3>1, <3>2 DEF Informed
  <2> QED BY <2>2, <2>3, <2>4 DEF WatchersKnow
<1>1. CASE Leaves(w)
  <2> DEFINE B == {}
  <2>1. /\ B \in SUBSET View /\ watch' = [watch EXCEPT ![w].at = B]
        /\ \A x \in B : FALSE
    BY <1>1 DEF Leaves
  <2> HIDE DEF B
  <2> QED BY <2>1, <1>b
<1>2. ASSUME NEW x \in View, Goes(w, x), lease' = lease,
             Informed(w, watch[w].pass, x)
      PROVE  WatchersKnow'
  <2>1. DoubtKept
    BY <1>2 DEF DoubtKept
  <2>2. Informed(w, q, x)'
    BY <1>2, <1>q, <2>1, ViewsStay
  <2> DEFINE B == {x}
  <2>3. /\ B \in SUBSET View /\ watch' = [watch EXCEPT ![w].at = B]
        /\ \A y \in B : y = x
    BY <1>2 DEF Goes
  <2> HIDE DEF B
  <2>4. \A y \in B : Informed(w, q, y)'
    BY <2>2, <2>3
  <2> QED BY <2>3, <2>4, <1>b
<1> QED BY <1>1, <1>2

\* A watcher that begins a pass.
LEMMA ListsKeepWatchers ==
  ASSUME OwnerInv, WatchersKnow, Next, NEW w \in Watchers, NEW p \in Passes,
         NEW S \in SUBSET View, lease' = lease,
         w = "boot" => p \in {"idle", "granted"},
         watch' = [watch EXCEPT ![w] = [pass |-> p, at |-> {}, todo |-> S]],
         \A v \in S : Claimed(v)
  PROVE  WatchersKnow'
<1>v. /\ watch \in [Watchers -> Watch]
      /\ \A y \in Watchers : /\ watch[y].pass \in Passes
                             /\ watch[y].todo \subseteq View
                             /\ watch[y].at \subseteq View
  <2>1. \A y \in Watchers : watch[y] \in Watch
    BY DEF OwnerInv, TypeOK
  <2> QED BY <2>1 DEF OwnerInv, TypeOK, Watch
<1>1. \A y \in Watchers : watch'[y] = IF y = w
                                      THEN [pass |-> p, at |-> {}, todo |-> S]
                                      ELSE watch[y]
  BY <1>v
<1>2. watch'["boot"].pass \in {"idle", "granted"}
  BY <1>1 DEF WatchersKnow, Watchers
<1>3. ASSUME NEW y \in Watchers, NEW x \in watch'[y].todo PROVE Claimed(x)'
  BY <1>1, <1>3, <1>v, ViewsStay DEF WatchersKnow
<1>4. ASSUME NEW y \in Watchers, NEW x \in watch'[y].at
      PROVE  Informed(y, watch[y].pass, x)'
  <2>1. y # w /\ x \in watch[y].at
    BY <1>1, <1>4
  <2>2. PICK q \in Passes : q = watch[y].pass /\ q = watch'[y].pass
    BY <1>1, <1>v, <2>1
  <2>3. x \in View /\ Informed(y, q, x)
    BY <2>1, <2>2, <1>v DEF WatchersKnow
  <2>4. DoubtKept
    BY DEF DoubtKept
  <2>5. Informed(y, q, x)'
    BY <2>3, <2>4, ViewsStay
  <2> QED BY <2>2, <2>5 DEF Informed
<1> QED BY <1>2, <1>3, <1>4 DEF WatchersKnow

\* Every run that a pass begins with was claimed.
LEMMA StartsKeepWatchers ==
  ASSUME OwnerInv, RanOnce, WatchersKnow, Next, NEW w \in Watchers,
         NEW p \in Passes, w = "boot" => p = "idle", Starts(w, p), lease' = lease
  PROVE  WatchersKnow'
<1>t. TypeOK
  BY DEF OwnerInv
<1> DEFINE S == CASE p \in {"running", "needs_input"} ->
                       {Listed(r, 0) : r \in {q \in Runs : run[q].status = p}}
                  [] p = "leases" ->
                       {Listed(r, HeldGen(r)) : r \in {q \in Runs : ~ Unowned(q)}}
                  [] OTHER -> {}
<1>1. watch' = [watch EXCEPT ![w] = [pass |-> p, at |-> {}, todo |-> S]]
  BY DEF Starts
<1>2. \A r, g : Listed(r, g).run = r /\ Listed(r, g).gen = g
  BY DEF Listed
<1>3. ASSUME NEW r \in Runs, run[r].status \in {"running", "needs_input"}
      PROVE  Listed(r, 0) \in View /\ Claimed(Listed(r, 0))
  <2>1. run[r].gens > 0 /\ run[r].gens \in Nat
    BY <1>3, <1>t DEF RanOnce, Active, TypeOK, Run
  <2>2. Listed(r, 0) \in View
    BY <1>t, ListedType
  <2> QED BY <1>2, <2>1, <2>2 DEF Claimed
<1>4. ASSUME NEW r \in Runs, ~ Unowned(r)
      PROVE  Listed(r, HeldGen(r)) \in View /\ Claimed(Listed(r, HeldGen(r)))
  <2>1. /\ HeldGen(r) \in Nat /\ run[r].gens \in Nat /\ HeldGen(r) <= run[r].gens
        /\ HeldGen(r) # 0
    BY <1>4, HeldGenBounds DEF Unowned
  <2>2. Listed(r, HeldGen(r)) \in View
    BY <1>t, <2>1, ListedType
  <2> QED BY <1>2, <2>1, <2>2 DEF Claimed
<1>5. \A v \in S : v \in View /\ Claimed(v)
  BY <1>3, <1>4
<1> HIDE DEF S
<1>6. S \in SUBSET View /\ \A v \in S : Claimed(v)
  BY <1>5
<1> QED BY <1>1, <1>6, ListsKeepWatchers

\* The lease is read, and the probe is sent.
LEMMA VisitsKeepWatchers ==
  ASSUME OwnerInv, WatchersKnow, Next, NEW w \in Watchers,
         NEW v \in watch[w].todo, Visit(w, v)
  PROVE  WatchersKnow'
<1>v. /\ watch \in [Watchers -> Watch]
      /\ \A y \in Watchers : /\ watch[y] \in Watch /\ watch[y].pass \in Passes
                             /\ watch[y].todo \subseteq View
                             /\ watch[y].at \subseteq View
  <2>1. \A y \in Watchers : watch[y] \in Watch
    BY DEF OwnerInv, TypeOK
  <2> QED BY <2>1 DEF OwnerInv, TypeOK, Watch
<1>0. v \in View /\ v.run \in Runs /\ v.gen \in Nat /\ Claimed(v) /\ 1 \in Gens
  BY <1>v, WorkerAssumption DEF View, WatchersKnow, Gens
<1>q. PICK q \in Passes : q = watch[w].pass
  BY <1>v
<1>1. PICK g \in Nat, b \in BOOLEAN :
         /\ g = IF q = "leases" THEN v.gen ELSE HeldGen(v.run)
         /\ watch' = [watch EXCEPT ![w].todo = @ \ {v},
                         ![w].at = {[v EXCEPT !.gen = g, !.stage = "probe",
                                              !.trust = b]}]
  <2> DEFINE h == IF q = "leases" THEN v.gen ELSE HeldGen(v.run)
             t == CASE q = "granted" -> TRUE
                    [] q = "leases" -> v.trust
                    [] OTHER -> Trusted(v.run, h)
  <2>1. h \in Nat
    BY <1>0, HeldGenType
  <2>2. t \in BOOLEAN
    BY <1>0 DEF View, Trusted
  <2>3. watch' = [watch EXCEPT ![w].todo = @ \ {v},
                         ![w].at = {[v EXCEPT !.gen = h, !.stage = "probe",
                                              !.trust = t]}]
    BY <1>q DEF Visit
  <2> HIDE DEF t
  <2> QED BY <2>1, <2>2, <2>3
<1> DEFINE u == [v EXCEPT !.gen = g, !.stage = "probe", !.trust = b]
<1>2. u \in View /\ u.run = v.run /\ u.gen = g /\ u.stage = "probe"
  BY <1>0, <1>1 DEF View
<1>3. watch' = [watch EXCEPT ![w].todo = @ \ {v}, ![w].at = {u}]
  BY <1>1
<1>l. lease' = lease
  BY DEF Visit
<1> HIDE DEF u
<1>4. \A y \in Watchers :
         /\ watch'[y].todo \subseteq watch[y].todo /\ watch'[y].pass = watch[y].pass
         /\ watch'[y].at = IF y = w THEN {u} ELSE watch[y].at
  <2> DEFINE f == [watch EXCEPT ![w].todo = @ \ {v}]
  <2>1. f \in [Watchers -> Watch] /\ \A y \in Watchers :
           /\ f[y].todo \subseteq watch[y].todo /\ f[y].pass = watch[y].pass
           /\ f[y].at = watch[y].at
    BY <1>v DEF Watch
  <2>2. watch' = [f EXCEPT ![w].at = {u}]
    BY <1>3
  <2> HIDE DEF f
  <2>3. \A y \in Watchers : f[y] \in Watch
    BY <2>1
  <2>4. \A y \in Watchers : /\ watch'[y].todo = f[y].todo
                            /\ watch'[y].pass = f[y].pass
                            /\ watch'[y].at = IF y = w THEN {u} ELSE f[y].at
    BY <2>1, <2>2, <2>3 DEF Watch
  <2> QED BY <2>1, <2>4
<1>5. Informed(w, q, u)
  <2>1. Claimed(u)
    BY <1>0, <1>1, <1>2, HeldGenBounds DEF Claimed
  <2>2. q # "leases" /\ u.gen = 0 => ~ Holds(u.run, 1)
    BY <1>0, <1>1, <1>2, HeldGenBounds DEF Holds
  <2> QED BY <1>2, <2>1, <2>2 DEF Informed
<1>d. DoubtKept
  BY <1>l DEF DoubtKept
<1>6. watch'["boot"].pass \in {"idle", "granted"}
  BY <1>4 DEF WatchersKnow, Watchers
<1>7. ASSUME NEW y \in Watchers, NEW x \in watch'[y].todo PROVE Claimed(x)'
  BY <1>4, <1>7, <1>v, ViewsStay DEF WatchersKnow
<1>8. ASSUME NEW y \in Watchers, NEW x \in watch'[y].at
      PROVE  Informed(y, watch[y].pass, x)'
  <2>1. PICK p \in Passes : p = watch[y].pass /\ p = watch'[y].pass
    BY <1>4, <1>v
  <2>2. x \in View /\ Informed(y, p, x)
    <3>1. CASE y = w
      BY <1>2, <1>4, <1>5, <1>8, <1>q, <2>1, <3>1
    <3>2. CASE y # w
      BY <1>4, <1>8, <1>v, <2>1, <3>2 DEF WatchersKnow
    <3> QED BY <3>1, <3>2
  <2>3. Informed(y, p, x)'
    BY <1>d, <2>2, ViewsStay
  <2> QED BY <2>1, <2>3 DEF Informed
<1> QED BY <1>6, <1>7, <1>8 DEF WatchersKnow

\* Every other step of a watcher leaves its view, or goes on with one that is
\* as well informed.
LEMMA WatchStepsInform ==
  ASSUME OwnerInv, WatchersKnow, NEW w \in Watchers, NEW v \in watch[w].at,
         \/ \E seen : Answer(w, v, seen) \/ Reprobe(w, v, seen)
         \/ Judge(w, v) \/ Kills(w, v) \/ Settle(w, v) \/ Look(w, v)
         \/ Resumes(w, v) \/ Revoked(w, v)
         \/ w = "boot" /\ CallFails(w, v)
  PROVE  \/ Leaves(w)
         \/ \E x \in View : /\ Goes(w, x) /\ lease' = lease
                            /\ Informed(w, watch[w].pass, x)
<1>t. TypeOK
  BY DEF OwnerInv
<1>0. /\ v \in View /\ v.run \in Runs /\ v.gen \in Nat /\ 1 \in Gens
      /\ Informed(w, watch[w].pass, v)
  BY <1>t, WatchType, WorkerAssumption DEF View, WatchersKnow, Gens
<1>b. w = "boot" => watch[w].pass \in {"idle", "granted"}
  BY DEF WatchersKnow
<1>ok. exit[v.run].ok \in BOOLEAN
  BY <1>t, <1>0 DEF TypeOK, Exit
\* The same run and lease, at a stage that is not the verdict.
<1>s. ASSUME NEW x \in View, x.run = v.run, x.gen = v.gen,
             x.stage # "judge", watch[w].pass # "leases"
      PROVE  Informed(w, watch[w].pass, x)
  BY <1>0, <1>s DEF Informed, Claimed
\* The verdict on a dead worker.
<1>d. ASSUME NEW x \in View, x.run = v.run, x.gen = v.gen,
             x.seen = "dead", watch[w].pass # "leases"
      PROVE  Informed(w, watch[w].pass, x)
  BY <1>0, <1>d DEF Informed, Claimed
<1>1. ASSUME NEW seen, Answer(w, v, seen)
      PROVE  \/ Leaves(w)
             \/ \E x \in View : /\ Goes(w, x) /\ lease' = lease
                                /\ Informed(w, watch[w].pass, x)
  <2>1. seen \in {"alive", "dead", "unknown"}
    BY <1>1, <1>t, ProbedType DEF Answer
  <2> DEFINE u == [v EXCEPT !.seen = seen]
  <2>2. u \in View /\ u.run = v.run /\ u.gen = v.gen /\ u.seen = seen
    BY <1>0, <2>1 DEF View
  <2>3. RunAnswers(w, u) \/ LeaseAnswers(w, u) \/ GrantAnswers(w, u)
    BY <1>1 DEF Answer
  <2> HIDE DEF u
  <2>4. \A st \in {"judge", "look", "revoke"} :
           LET x == [u EXCEPT !.stage = st]
           IN  /\ x \in View /\ x.run = v.run /\ x.gen = v.gen
               /\ x.seen = seen /\ x.stage = st
    BY <2>2 DEF View
  <2>5. \A ok \in BOOLEAN :
           LET x == [u EXCEPT !.stage = "judge", !.ok = ok]
           IN  x \in View /\ x.run = v.run /\ x.gen = v.gen /\ x.seen = seen
    BY <2>2 DEF View
  <2>6. ASSUME seen = "dead", watch[w].pass # "leases", lease' = lease,
               Goes(w, [u EXCEPT !.stage = "judge", !.ok = exit[u.run].ok])
        PROVE  \E x \in View : /\ Goes(w, x) /\ lease' = lease
                               /\ Informed(w, watch[w].pass, x)
    <3>1. exit[u.run].ok \in BOOLEAN
      BY <1>ok, <2>2
    <3> QED BY <2>5, <2>6, <3>1, <1>d
  <2>7. ASSUME NEW st \in {"look", "revoke"}, watch[w].pass # "leases",
               lease' = lease, Goes(w, [u EXCEPT !.stage = st])
        PROVE  \E x \in View : /\ Goes(w, x) /\ lease' = lease
                               /\ Informed(w, watch[w].pass, x)
    BY <2>4, <2>7, <1>s
  <2>8. ASSUME w = "health", watch[w].pass # "leases", GraceOver(u),
               lease' = lease, Goes(w, [u EXCEPT !.stage = "judge"])
        PROVE  \E x \in View : /\ Goes(w, x) /\ lease' = lease
                               /\ Informed(w, watch[w].pass, x)
    <3> DEFINE x == [u EXCEPT !.stage = "judge"]
    <3>1. x \in View /\ x.run = v.run /\ x.gen = v.gen
      BY <2>4
    <3>2. Goes(w, x)
      BY <2>8
    <3>3. v.gen = 0 \/ lease[v.run][v.gen].doubt = "expired"
      BY <2>2, <2>8 DEF GraceOver
    <3> HIDE DEF x
    <3>4. Informed(w, watch[w].pass, x)
      BY <1>0, <2>8, <3>1, <3>3 DEF Informed, Claimed
    <3> QED BY <2>8, <3>1, <3>2, <3>4
  <2>9. CASE RunAnswers(w, u)
    <3>1. watch[w].pass \in {"running", "needs_input"} /\ w = "health"
      BY <2>9, <1>b DEF RunAnswers, Watchers
    <3> QED BY <2>2, <2>6, <2>7, <2>8, <2>9, <3>1 DEF RunAnswers
  <2>10. CASE LeaseAnswers(w, u)
    BY <2>10 DEF LeaseAnswers
  <2>11. CASE GrantAnswers(w, u)
    BY <2>2, <2>6, <2>7, <2>11 DEF GrantAnswers
  <2> QED BY <2>3, <2>9, <2>10, <2>11
<1>2. ASSUME NEW seen, Reprobe(w, v, seen)
      PROVE  \/ Leaves(w)
             \/ \E x \in View : /\ Goes(w, x) /\ lease' = lease
                                /\ Informed(w, watch[w].pass, x)
  <2>1. \A ok \in BOOLEAN :
           LET x == [v EXCEPT !.stage = "judge", !.seen = "dead", !.ok = ok]
           IN  x \in View /\ x.run = v.run /\ x.gen = v.gen /\ x.seen = "dead"
    BY <1>0 DEF View
  <2>2. watch[w].pass # "leases" /\ lease' = lease
    BY <1>0, <1>2 DEF Reprobe, Informed
  <2> QED BY <1>2, <1>ok, <2>1, <2>2, <1>d DEF Reprobe
<1>m. ASSUME NEW st \in {"kill", "killed", "revoked"}, v.stage # "probe",
             lease' = lease, Goes(w, [v EXCEPT !.stage = st])
      PROVE  \E x \in View : /\ Goes(w, x) /\ lease' = lease
                             /\ Informed(w, watch[w].pass, x)
  <2>1. LET x == [v EXCEPT !.stage = st]
        IN  x \in View /\ x.run = v.run /\ x.gen = v.gen /\ x.stage = st
    BY <1>0 DEF View
  <2>2. watch[w].pass # "leases"
    BY <1>0, <1>m DEF Informed
  <2> QED BY <1>m, <2>1, <2>2, <1>s
<1>3. CASE Judge(w, v)
  BY <1>3, <1>m DEF Judge
<1>4. CASE Kills(w, v)
  BY <1>4, <1>m DEF Kills
<1>5. CASE w = "boot" /\ CallFails(w, v)
  BY <1>5, <1>m DEF CallFails
<1>6. CASE Look(w, v)
  <2>1. CASE Leaves(w)
    BY <2>1
  <2>2. CASE Goes(w, [v EXCEPT !.stage = "reprobe", !.gen = HeldGen(v.run),
                               !.trust = Trusted(v.run, HeldGen(v.run))])
    <3>1. PICK g \in Nat, b \in BOOLEAN :
             /\ g = HeldGen(v.run)
             /\ Goes(w, [v EXCEPT !.stage = "reprobe", !.gen = g, !.trust = b])
      <4> DEFINE b == Trusted(v.run, HeldGen(v.run))
      <4>1. b \in BOOLEAN /\ HeldGen(v.run) \in Nat
        BY <1>0, HeldGenType DEF Trusted
      <4>2. Goes(w, [v EXCEPT !.stage = "reprobe", !.gen = HeldGen(v.run),
                              !.trust = b])
        BY <2>2
      <4> HIDE DEF b
      <4> QED BY <4>1, <4>2
    <3> DEFINE x == [v EXCEPT !.stage = "reprobe", !.gen = g, !.trust = b]
    <3>2. x \in View /\ x.run = v.run /\ x.gen = g /\ x.stage = "reprobe"
      BY <1>0, <3>1 DEF View
    <3>3. Goes(w, x) /\ lease' = lease /\ watch[w].pass # "leases"
      BY <1>0, <1>6, <3>1 DEF Look, Informed
    <3> HIDE DEF x
    <3>4. Claimed(x)
      BY <1>0, <3>1, <3>2, HeldGenBounds DEF Claimed, Informed
    <3>5. x.gen = 0 => ~ Holds(x.run, 1)
      BY <1>0, <3>1, <3>2, HeldGenBounds DEF Holds
    <3>6. Informed(w, watch[w].pass, x)
      BY <3>2, <3>3, <3>4, <3>5 DEF Informed
    <3> QED BY <3>2, <3>3, <3>6
  <2> QED BY <1>6, <2>1, <2>2 DEF Look
<1>7. CASE Settle(w, v) \/ Resumes(w, v) \/ Revoked(w, v)
  BY <1>7 DEF Settle, Resumes, Revoked
<1> QED BY <1>1, <1>2, <1>3, <1>4, <1>5, <1>6, <1>7

LEMMA NextKeepsWatchers ==
  ASSUME OwnerInv, RanOnce, WatchersKnow, Next
  PROVE  WatchersKnow'
<1>t. TypeOK /\ "boot" \in Watchers /\ "health" \in Watchers
  BY DEF OwnerInv, Watchers
<1>b. watch["boot"].pass \in {"idle", "granted"}
  BY DEF WatchersKnow
<1>1. ASSUME NEW w \in Watchers, WatchStep(w), w = "health" \/ DoubtKept
      PROVE  WatchersKnow'
  <2>1. CASE NextPass(w)
    <3>1. PICK p \in Passes : Starts(w, p) /\ (w = "boot" => p = "idle")
      BY <2>1, <1>b DEF NextPass, Passes
    <3>2. lease' = lease
      BY <2>1 DEF NextPass
    <3> QED BY <3>1, <3>2, StartsKeepWatchers
  <2>2. ASSUME NEW v \in watch[w].todo, Visit(w, v) PROVE WatchersKnow'
    BY <2>2, VisitsKeepWatchers
  <2>3. ASSUME NEW v \in watch[w].at, w = "health", CallFails(w, v)
        PROVE  WatchersKnow'
    <3> DEFINE S == {}
               p == "needs_input"
    <3>1. /\ S \in SUBSET View /\ p \in Passes /\ lease' = lease
          /\ watch' = [watch EXCEPT ![w] = [pass |-> p, at |-> {}, todo |-> S]]
          /\ \A x \in S : Claimed(x)
          /\ w = "boot" => p \in {"idle", "granted"}
      BY <2>3 DEF CallFails, Passes
    <3> HIDE DEF S, p
    <3> QED BY <3>1, ListsKeepWatchers
  <2>4. ASSUME NEW v \in watch[w].at,
               \/ \E seen : Answer(w, v, seen) \/ Reprobe(w, v, seen)
               \/ Judge(w, v) \/ Kills(w, v) \/ Settle(w, v) \/ Look(w, v)
               \/ Resumes(w, v) \/ Revoked(w, v)
               \/ w = "boot" /\ CallFails(w, v)
        PROVE  WatchersKnow'
    <3>1. \/ Leaves(w)
          \/ \E x \in View : /\ Goes(w, x) /\ lease' = lease
                             /\ Informed(w, watch[w].pass, x)
      BY <2>4, WatchStepsInform
    <3> QED BY <1>1, <3>1, MovesKeepWatchers
  <2>5. w = "boot" \/ w = "health"
    BY DEF Watchers
  <2> QED BY <1>1, <2>1, <2>2, <2>3, <2>4, <2>5 DEF WatchStep
<1>2. SUFFICES ASSUME ~ WatchStep("health") PROVE WatchersKnow'
  BY <1>t, <1>1
<1>3. DoubtKept
  BY <1>2, <1>b, DoubtsStay
<1>4. ASSUME watch' = watch PROVE WatchersKnow'
  <2>v. \A y \in Watchers : /\ watch[y].pass \in Passes
                            /\ watch[y].todo \subseteq View
                            /\ watch[y].at \subseteq View
    <3>1. \A y \in Watchers : watch[y] \in Watch
      BY <1>t DEF TypeOK
    <3> QED BY <3>1 DEF Watch
  <2>1. ASSUME NEW y \in Watchers, NEW x \in watch[y].todo PROVE Claimed(x)'
    BY <2>v, ViewsStay DEF WatchersKnow
  <2>2. ASSUME NEW y \in Watchers, NEW x \in watch[y].at
        PROVE  Informed(y, watch[y].pass, x)'
    <3>1. PICK p \in Passes : p = watch[y].pass /\ p = watch'[y].pass
      BY <1>4, <2>v
    <3>2. x \in View /\ Informed(y, p, x)
      BY <2>v, <3>1 DEF WatchersKnow
    <3>3. Informed(y, p, x)'
      BY <1>3, <3>2, ViewsStay
    <3> QED BY <3>1, <3>3 DEF Informed
  <2> QED BY <1>4, <1>b, <2>1, <2>2 DEF WatchersKnow
<1>5. CASE CheckBegins
  <2>1. Starts("health", "running") /\ lease' = lease
    BY <1>5 DEF CheckBegins
  <2> QED BY <2>1, <1>t, StartsKeepWatchers DEF Passes
<1>6. CASE Boot
  <2> DEFINE S == {Listed(r, 0) : r \in {q \in Granted :
                                  run[q].status \in Active /\ run[q].gens > 0}}
             p == "granted"
  <2>1. \A r, g : Listed(r, g).run = r /\ Listed(r, g).gen = g
    BY DEF Listed
  <2>2. ASSUME NEW r \in Granted, run[r].gens > 0
        PROVE  Listed(r, 0) \in View /\ Claimed(Listed(r, 0))
    <3>1. r \in Runs /\ run[r].gens \in Nat
      BY <1>t, WorkerAssumption DEF TypeOK, Run
    <3>2. Listed(r, 0) \in View
      BY <1>t, <3>1, ListedType
    <3> QED BY <2>1, <2>2, <3>1, <3>2 DEF Claimed
  <2>3. \A v \in S : v \in View /\ Claimed(v)
    BY <2>2
  <2>4. watch' = [watch EXCEPT !["boot"] = [pass |-> p, at |-> {}, todo |-> S]]
    BY <1>6 DEF Boot
  <2>5. lease' = lease /\ p \in Passes /\ p \in {"idle", "granted"}
    BY <1>6 DEF Boot, Passes
  <2> HIDE DEF S, p
  <2>6. S \in SUBSET View
    BY <2>3
  <2> QED BY <1>t, <2>3, <2>4, <2>5, <2>6, ListsKeepWatchers
<1>7. CASE Exits \/ Crash
  BY <1>7 DEF Exits, Crash, Ends, Resting, WatchersKnow, Watchers
<1>8. ASSUME NEW s \in spawns, SpawnStep(s) PROVE watch' = watch
  BY <1>8 DEF SpawnStep, SpawnSends, SpawnAborts, SpawnFails, SpawnStale,
              SpawnUnwinds, SetupFails, AssetsUnsupported, SetupThrows, SpawnAcked,
              SpawnSealed, SpawnUncertain
<1>9. ASSUME NEW c \in cancels, CancelStep(c) PROVE watch' = watch
  BY <1>9 DEF CancelStep, CancelProbed, CancelKills, CancelFinishes
<1> QED
  BY <1>1, <1>3, <1>4, <1>5, <1>6, <1>7, <1>8, <1>9
     DEF Next, Submit, Claim, CancelBegins, PatchStatus, NodeStep, NodeStarts,
         NeverStarts, WorkerExits, SessionLost, Expire, Shutdown

-----------------------------------------------------------------------------
(* The retry                                                               *)

\* The worker of a run that was claimed once is gone, or its grace is over.
Excused(p) ==
  run[p].gens <= 1 =>
     \/ Gone(p, 1)'
     \/ \E g \in Gens : Holds(p, g) /\ lease[p][g].doubt = "expired"

\* A step that enqueues no retry; what it works on was claimed.
Plain ==
  \A q \in Runs :
     /\ Keeps(q)
     /\ run'[q].status = "none" => run[q].status = "none"
     /\ run'[q].status \in Active => run[q].gens > 0

LEMMA WritesArePlain ==
  ASSUME WaitInv, NEW r \in Runs, NEW s \in Statuses \ {"none"}, Wrote(r, s),
         s \in Active => run[r].gens > 0
  PROVE  Plain
  BY DEF Wrote, Plain, WaitInv, RanOnce

\* A verdict leaves nobody behind.
LEMMA VerdictsAreExcused ==
  ASSUME WaitInv, NEW w \in Watchers, NEW v \in watch[w].at, Judge(w, v),
         Fenced(v), WantsRetry(v.run)
  PROVE  Excused(v.run)
<1>t. OwnerInv /\ TypeOK /\ NodeInv
  BY DEF WaitInv, DeathInv, OwnerInv
<1>0. /\ v \in View /\ v.run \in Runs /\ v.gen \in Nat /\ 1 \in Gens
      /\ Informed(w, watch[w].pass, v) /\ v.stage = "judge" /\ UNCHANGED node
  BY <1>t, WatchType, WorkerAssumption DEF View, WaitInv, WatchersKnow, Gens, Judge
<1>1. SUFFICES ASSUME run[v.run].gens = 1
               PROVE  \/ Gone(v.run, 1)
                      \/ \E g \in Gens : /\ Holds(v.run, g)
                                         /\ lease[v.run][g].doubt = "expired"
  <2>1. run[v.run].gens \in Nat /\ run[v.run].gens > 0
    BY <1>t, <1>0 DEF WantsRetry, TypeOK, Run
  <2>2. run[v.run].gens <= 1 => run[v.run].gens = 1
    BY <2>1
  <2>3. Gone(v.run, 1) => Gone(v.run, 1)'
    BY <1>0 DEF Gone, node
  <2> QED BY <2>2, <2>3 DEF Excused
<1>2. CASE v.seen = "dead"
  <2>1. exit[v.run].gen # 0 /\ exit[v.run].gen \in Nat
    BY <1>0, <1>2, <1>t DEF WaitInv, DeathInv, DeathWasSeen, TypeOK, Exit
  <2>2. exit[v.run].gen = 1
    BY <1>t, <1>0, <1>1, <2>1 DEF NodeInv, NothingAhead
  <2> QED BY <1>t, <1>0, <2>2 DEF NodeInv, ExitIsLast, StartsOnce, Gone
<1>3. CASE v.gen = 0
  <2>1. ~ Holds(v.run, 1)
    BY <1>0, <1>1, <1>3 DEF Informed
  <2>2. lease[v.run][1].state \in {"released", "abandoned"}
    <3>1. lease[v.run][1] \in Lease
      BY <1>t, <1>0 DEF TypeOK
    <3>2. lease[v.run][1].state # "none"
      BY <1>0, <1>1 DEF WaitInv, ClaimsAreSeen
    <3> QED BY <1>0, <2>1, <3>1, <3>2 DEF Lease, Holds
  <2> QED BY <1>0, <2>2 DEF WaitInv, DeathInv, FirstReleaseIsDeath, AbandonedIsGone
<1>4. CASE v.gen # 0 /\ v.seen # "dead"
  <2>1. Holds(v.run, v.gen)
    BY <1>4 DEF Fenced
  <2>2. lease[v.run][v.gen].doubt = "expired"
    BY <1>0, <1>4, <2>1 DEF Informed
  <2> QED BY <2>1, <2>2 DEF Holds
<1> QED BY <1>2, <1>3, <1>4

\* The kinds of a step, as far as the runs are concerned.
LEMMA RunSteps ==
  ASSUME WaitInv, Next, Edits \cap {"failed", "running"} = {}
  PROVE  \/ \E r \in Runs : Claim(r)
         \/ Plain
         \/ \E r, c \in Runs : Replaced(r, c) /\ Excused(r)
<1>t. /\ OwnerInv /\ TypeOK /\ NodeInv /\ RanOnce
      /\ \A r \in Runs : run[r].gens \in Nat
  BY DEF WaitInv, DeathInv, OwnerInv, TypeOK, Run
<1>s. {"running", "needs_input", "completed", "failed", "cancelled", "stopped"}
        \subseteq Statuses \ {"none"}
  BY DEF Statuses, Active, Terminal
<1>k. run' = run => Plain
  BY <1>t DEF Plain, Keeps, RanOnce
<1>b. ASSUME NEW r \in Runs, NEW s \in Statuses \ {"none"}, Becomes(r, s),
             s # "failed", s \in Active => run[r].gens > 0
      PROVE  Plain
  BY <1>b, <1>t, BecomesWrites, WritesArePlain
<1>f. ASSUME NEW r \in Runs, Becomes(r, "failed"), WantsRetry(r) => Excused(r)
      PROVE  Plain \/ \E p, c \in Runs : Replaced(p, c) /\ Excused(p)
  <2>1. "failed" \in Statuses \ {"none"} /\ "failed" \notin Active
    BY <1>s DEF Active
  <2>2. CASE Wrote(r, "failed")
    BY <2>1, <2>2, WritesArePlain
  <2>3. ASSUME NEW c \in Runs, Replaced(r, c)
        PROVE  \E p, d \in Runs : Replaced(p, d) /\ Excused(p)
    BY <1>f, <2>3 DEF Replaced
  <2> QED BY <1>f, <1>t, <2>1, <2>2, <2>3, BecomesWrites
<1>1. ASSUME NEW r \in Runs, Submit(r) PROVE Plain
  <2>1. Wrote(r, "queued")
    BY <1>1, <1>t DEF Submit, Wrote, Keeps, TypeOK, Run
  <2> QED BY <2>1, WritesArePlain DEF Statuses, Active
<1>2. ASSUME NEW r \in Runs, NEW s \in Edits, PatchStatus(r, s) PROVE Plain
  <2>1. s \in Statuses \ {"none"} /\ s \notin {"failed", "running"}
    BY WorkerAssumption DEF Statuses, Active, Terminal
  <2>2. s \in Active => run[r].status \in Active
    BY <1>2, <2>1 DEF PatchStatus, Allowed, Active, Terminal
  <2>3. Becomes(r, s)
    BY <1>2 DEF PatchStatus
  <2> QED BY <1>t, <2>1, <2>2, <2>3, <1>b DEF RanOnce
<1>3. ASSUME NEW s \in spawns, SpawnStep(s)
      PROVE  Plain \/ \E p, c \in Runs : Replaced(p, c) /\ Excused(p)
  <2>s. /\ s.run \in Runs /\ s.gen \in Nat /\ s.gen >= 1 /\ s.gen <= run[s.run].gens
    BY <1>t DEF TypeOK, Spawn, NodeInv, NothingAhead
  <2>1. run[s.run].gens > 0 /\ (run[s.run].gens <= 1 => s.gen = 1)
    BY <1>t, <2>s
  <2>2. ASSUME run' = [run EXCEPT ![s.run].status = "running", ![s.run].tmux = TRUE]
        PROVE  Plain
    <3>1. Wrote(s.run, "running")
      BY <1>t, <2>s, <2>2 DEF Wrote, Keeps, TypeOK, Run
    <3> QED BY <2>s, <2>1, <3>1, <1>s, WritesArePlain
  <2>3. CASE SpawnAborts(s)
    <3>1. ASSUME run' = [run EXCEPT ![s.run].status = "queued"] PROVE Plain
      <4>1. Wrote(s.run, "queued")
        BY <1>t, <2>s, <3>1 DEF Wrote, Keeps, TypeOK, Run
      <4> QED BY <2>s, <4>1, WritesArePlain DEF Statuses, Active
    <3> QED BY <2>3, <3>1, <1>k DEF SpawnAborts
  <2>4. CASE SpawnFails(s)
    <3>1. Gone(s.run, s.gen)'
      <4>1. s.phase \in {"preparing", "refused"} => Gone(s.run, s.gen)
        BY <1>t DEF NodeInv, SpawnsKnowTheNode, Untouched
      <4>2. <<s.run, s.gen>> \in starting => session[s.run] # s.gen
        BY <1>t, <2>s DEF NodeInv, StartsOnce, TypeOK
      <4> QED BY <2>4, <4>1, <4>2 DEF SpawnFails, SpawnErrs, Gone
    <3>2. Excused(s.run)
      BY <2>1, <3>1 DEF Excused, Gone
    <3> QED BY <2>s, <2>4, <3>2, <1>f DEF SpawnFails
  <2>5. CASE SetupFails(s)
    <3>1. Gone(s.run, s.gen) /\ UNCHANGED node
      BY <1>t, <2>5 DEF SetupFails, NodeInv, SpawnsKnowTheNode, Untouched
    <3>2. Excused(s.run)
      BY <2>1, <3>1 DEF Excused, Gone, node
    <3> QED BY <2>s, <2>5, <3>2, <1>f DEF SetupFails
  <2>8. CASE AssetsUnsupported(s)
    <3>1. Wrote(s.run, "failed")
      BY <1>t, <2>s, <2>8 DEF AssetsUnsupported, Wrote, Keeps, TypeOK, Run
    <3> QED BY <2>s, <3>1, <1>s, WritesArePlain DEF Active
  <2>6. CASE SpawnAcked(s) \/ SpawnUncertain(s)
    BY <2>2, <2>6, <1>k DEF SpawnAcked, MarkStarted, SpawnUncertain
  <2>7. CASE \/ SpawnSends(s) \/ SpawnStale(s) \/ SpawnUnwinds(s) \/ SpawnSealed(s)
             \/ SetupThrows(s)
    BY <2>7, <1>k DEF SpawnSends, SpawnStale, SpawnUnwinds, SpawnSealed, SetupThrows
  <2> QED BY <1>3, <2>3, <2>4, <2>5, <2>6, <2>7, <2>8 DEF SpawnStep
<1>4. ASSUME NEW w \in Watchers, WatchStep(w)
      PROVE  Plain \/ \E p, c \in Runs : Replaced(p, c) /\ Excused(p)
  <2>v. \A v \in watch[w].at : v.run \in Runs /\ run[v.run].gens > 0
    <3>1. \A v \in watch[w].at : v.run \in Runs /\ Informed(w, watch[w].pass, v)
      BY <1>t, WatchType DEF View, WaitInv, WatchersKnow
    <3> QED BY <3>1 DEF Informed, Claimed
  <2>1. ASSUME NEW v \in watch[w].at, Judge(w, v)
        PROVE  Plain \/ \E p, c \in Runs : Replaced(p, c) /\ Excused(p)
    <3>1. CASE run' = run
      BY <3>1, <1>k
    <3>2. CASE Fenced(v) /\ Becomes(v.run, "completed")
      BY <2>v, <3>2, <1>s, <1>b DEF Active
    <3>3. CASE Fenced(v) /\ Becomes(v.run, "failed")
      BY <2>1, <2>v, <3>3, <1>f, VerdictsAreExcused
    <3> QED BY <2>1, <3>1, <3>2, <3>3 DEF Judge
  <2>2. ASSUME NEW v \in watch[w].at, NEW seen, Reprobe(w, v, seen) PROVE Plain
    BY <2>2, <2>v, <1>b, <1>k, <1>s DEF Reprobe
  <2>3. ASSUME NEW v \in watch[w].at, Resumes(w, v) PROVE Plain
    BY <2>3, <2>v, <1>b, <1>s DEF Resumes
  <2>4. ASSUME NEW v \in watch[w].at, Revoked(w, v) PROVE Plain
    BY <2>4, <2>v, <1>b, <1>k, <1>s DEF Revoked, Active
  <2> QED BY <1>4, <1>k, <2>1, <2>2, <2>3, <2>4
             DEF WatchStep, NextPass, Visit, Answer, Kills, Settle, Look, CallFails
<1>5. ASSUME NEW c \in cancels, CancelStep(c) PROVE Plain
  <2>1. c.run \in Runs
    BY <1>t DEF TypeOK, Cancel
  <2>2. CASE CancelFinishes(c)
    BY <2>1, <2>2, <1>b, <1>s DEF CancelFinishes, Active
  <2> QED BY <1>5, <1>k, <2>2 DEF CancelStep, CancelProbed, CancelKills
<1> QED
  BY <1>1, <1>2, <1>3, <1>4, <1>5, <1>k
     DEF Next, CancelBegins, NodeStep, NodeStarts, NeverStarts, WorkerExits,
         SessionLost, CheckBegins, Expire, Shutdown, Exits, Crash, Ends, Boot

-----------------------------------------------------------------------------
(* The invariant, and the theorem                                          *)

LEMMA InitWaitInv == Init => WaitInv
<1> SUFFICES ASSUME Init PROVE WaitInv
  OBVIOUS
<1>1. DeathInv /\ OneRetry
  BY InitDeathInv DEF Init, OneRetry
<1>2. Origins /\ RanOnce /\ ClaimsAreSeen
  BY DEF Init, Origins, RanOnce, ClaimsAreSeen, Active
<1>3. AbandonedIsGone
  <2>1. \A r \in Runs : lease[r][1].state = "none"
    BY WorkerAssumption DEF Init, NoLease, Gens
  <2> QED BY <2>1 DEF AbandonedIsGone
<1>4. CancelsKnow /\ WatchersKnow
  BY DEF Init, CancelsKnow, WatchersKnow, Resting, Watchers
<1> QED BY <1>1, <1>2, <1>3, <1>4 DEF WaitInv

LEMMA NextKeepsWaitInv ==
  Edits \cap {"failed", "running"} = {} => (WaitInv /\ [Next]_vars => WaitInv')
<1> SUFFICES ASSUME Edits \cap {"failed", "running"} = {}, WaitInv, [Next]_vars
             PROVE  WaitInv'
  OBVIOUS
<1>t. OwnerInv /\ TypeOK /\ NodeInv /\ 1 \in Gens
  BY WorkerAssumption DEF WaitInv, DeathInv, OwnerInv, Gens
<1>1. CASE UNCHANGED vars
  BY <1>1 DEF vars, WaitInv, DeathInv, OwnerInv, TypeOK, NoneIsFresh, HeldIsLatest,
              QueuedIsUnowned, Unowned, NodeInv, NothingAhead, OneSpawnEach,
              SpawnsKnowTheNode, Untouched, Gone, StartsOnce, ExitIsLast,
              DeathWasSeen, FirstReleaseIsDeath, OneRetry, Origins, RanOnce,
              ClaimsAreSeen, AbandonedIsGone, CancelsKnow, Cancelled, Holds,
              WatchersKnow, Claimed, Informed
<1>2. CASE Next
  <2>1. DeathInv' /\ OneRetry'
    BY NextKeepsDeathInv, RetriesStayUnique DEF WaitInv, DeathInv
  <2>2. CancelsKnow' /\ WatchersKnow'
    BY <1>t, <1>2, NextKeepsCancels, NextKeepsWatchers DEF WaitInv
  <2>3. ClaimsAreSeen'
    <3>1. ASSUME NEW q \in Runs, Claim(q) PROVE ClaimsAreSeen'
      <4>1. run[q].gens \in Nat
        BY <1>t DEF TypeOK, Run
      <4>2. lease'[q][1].state # "none"
        BY <1>t, <3>1, <4>1, ClaimTakes DEF WaitInv, ClaimsAreSeen
      <4>3. \A r \in Runs \ {q} : run'[r] = run[r] /\ lease'[r] = lease[r]
        BY <1>t, <3>1, ClaimTakes
      <4> QED BY <4>2, <4>3 DEF WaitInv, ClaimsAreSeen
    <3>2. ASSUME LeasesOnlyClose, NoOwnedRunIsQueued PROVE ClaimsAreSeen'
      BY <1>t, <3>2 DEF LeasesOnlyClose, StateChanges, NoOwnedRunIsQueued, WaitInv,
                        ClaimsAreSeen
    <3> QED BY <1>t, <3>1, <3>2, StepKinds
  <2>4. AbandonedIsGone'
    <3> SUFFICES ASSUME NEW r \in Runs, lease'[r][1].state = "abandoned"
                 PROVE  Gone(r, 1)'
      BY DEF AbandonedIsGone
    <3>1. CASE lease[r][1].state = "abandoned"
      <4>1. Gone(r, 1) /\ ~ Holds(r, 1)
        BY <3>1 DEF WaitInv, AbandonedIsGone, Holds
      <4> QED BY <1>t, <1>2, <4>1, GoneStaysGone
    <3>2. CASE lease[r][1].state # "abandoned"
      BY <1>t, <1>2, <3>2, AbandonsAreKills DEF WaitInv, WatchersKnow
    <3> QED BY <3>1, <3>2
  <2>5. Origins' /\ RanOnce'
    <3>0. \A r \in Runs : run[r].gens \in Nat /\ run[r].retry \in Nat
      BY <1>t DEF TypeOK, Run
    <3>1. ASSUME NEW q \in Runs, Claim(q) PROVE Origins' /\ RanOnce'
      <4>1. /\ run'[q].gens > 0 /\ run'[q].status # "none"
            /\ \A r \in Runs \ {q} : run'[r] = run[r]
            /\ \A r \in Runs : run'[r].root = run[r].root /\ run'[r].retry = run[r].retry
        BY <1>t, <3>0, <3>1, ClaimTakes
      <4> QED BY <4>1 DEF WaitInv, Origins, RanOnce
    <3>2. CASE Plain
      BY <3>2 DEF WaitInv, Plain, Keeps, Origins, RanOnce
    <3>3. ASSUME NEW r \in Runs, NEW c \in Runs, Replaced(r, c)
          PROVE  Origins' /\ RanOnce'
      <4>1. run'[c].status = "queued" /\ run'[c].retry = run[r].retry + 1
        BY <3>3 DEF Replaced, Child
      <4>2. \A q \in Runs \ {c} :
               /\ run'[q].root = run[q].root /\ run'[q].retry = run[q].retry
               /\ run'[q].gens = run[q].gens
               /\ run'[q].status \in {run[q].status, "failed"}
        BY <3>3 DEF Replaced, Keeps
      <4> QED BY <3>0, <4>1, <4>2 DEF WaitInv, Origins, RanOnce, Active
    <3> QED BY <1>2, <3>1, <3>2, <3>3, RunSteps
  <2> QED BY <2>1, <2>2, <2>3, <2>4, <2>5 DEF WaitInv
<1> QED BY <1>1, <1>2

\* A new retry excuses itself to every run it could replace.
LEMMA RetriesWait ==
  ASSUME WaitInv, Next, Edits \cap {"failed", "running"} = {},
         NEW c \in Runs, run[c].status = "none", run'[c].status # "none",
         run'[c].retry > 0,
         NEW p \in Runs, run[p].gens <= 1, run[p].root = run'[c].root,
         run[p].retry + 1 = run'[c].retry
  PROVE  \/ session'[p] = 0 /\ \A g \in Gens : <<p, g>> \notin starting'
         \/ \E g \in Gens : Holds(p, g) /\ lease[p][g].doubt = "expired"
<1>t. OwnerInv /\ TypeOK /\ NodeInv
  BY DEF WaitInv, DeathInv, OwnerInv
<1>0. \A r \in Runs : run[r].gens \in Nat /\ run[r].retry \in Nat
  BY <1>t DEF TypeOK, Run
<1>1. ASSUME NEW q \in Runs, Claim(q) PROVE FALSE
  <2>1. q # c
    BY <1>1 DEF Claim
  <2> QED BY <1>1, <1>t, <2>1, ClaimTakes
<1>2. ~ Plain
  BY <1>0 DEF Plain, Keeps, WaitInv, Origins
<1>3. PICK r \in Runs, d \in Runs : Replaced(r, d) /\ Excused(r)
  BY <1>1, <1>2, RunSteps
<1>4. d = c
  BY <1>0, <1>3 DEF Replaced, Keeps, WaitInv, Origins
<1>5. run'[c].root = run[r].root /\ run'[c].retry = run[r].retry + 1
  BY <1>3, <1>4 DEF Replaced, Child
<1>6. p = r
  <2>1. run[p].retry = run[r].retry /\ run[p].root = run[r].root
    BY <1>0, <1>5
  <2> QED BY <1>0, <2>1 DEF WaitInv, Origins, OneRetry
<1>7. Gone(p, 1)' \/ \E g \in Gens : Holds(p, g) /\ lease[p][g].doubt = "expired"
  BY <1>3, <1>6 DEF Excused
<1>8. ASSUME Gone(p, 1)'
      PROVE  session'[p] = 0 /\ \A g \in Gens : <<p, g>> \notin starting'
  <2>1. NodeInv' /\ TypeOK'
    BY <1>t, NextKeepsNodeInv, NextKeepsTypes
  <2>2. run'[p].gens \in Nat /\ run'[p].gens <= 1
    <3>1. p # c
      BY <1>3, <1>4, <1>6 DEF Replaced
    <3> QED BY <1>0, <1>3, <1>4, <3>1 DEF Replaced, Keeps
  <2>3. /\ session'[p] \in Nat /\ session'[p] <= run'[p].gens
        /\ \A g \in Gens : <<p, g>> \in starting' => g <= run'[p].gens
    BY <2>1 DEF NodeInv, NothingAhead, TypeOK
  <2>4. session'[p] # 1 /\ <<p, 1>> \notin starting'
    BY <1>8 DEF Gone
  <2>5. session'[p] = 0
    BY <2>2, <2>3, <2>4
  <2>6. \A g \in Gens : g \in Nat /\ g # 0
    BY DEF Gens
  <2> QED BY <2>2, <2>3, <2>4, <2>5, <2>6
<1> QED BY <1>7, <1>8

\* Where no user marks a run as failed or as running by hand, a retry of a run
\* that was claimed once is enqueued only when its worker is gone and cannot
\* start any more, or when the grace period of its held lease has run out:
\* whoever sees the failure first, and whatever was lost, cancelled or restarted.
THEOREM RetriesWaitForTheOwner ==
  ASSUME Edits \cap {"failed", "running"} = {}
  PROVE  Spec => RetryWaitsForOwner
<1>1. Init => WaitInv
  BY InitWaitInv
<1>2. WaitInv /\ [Next]_vars => WaitInv'
  BY NextKeepsWaitInv
<1>3. WaitInv /\ [Next]_vars =>
        [\A c \in Runs :
          run[c].status = "none" /\ run'[c].status # "none" /\ run'[c].retry > 0
          => \A p \in Runs :
                /\ run[p].gens <= 1
                /\ run[p].root = run'[c].root
                /\ run[p].retry + 1 = run'[c].retry
                => \/ session'[p] = 0 /\ \A g \in Gens : <<p, g>> \notin starting'
                   \/ \E g \in Gens : /\ Holds(p, g)
                                      /\ lease[p][g].doubt = "expired"]_vars
  BY RetriesWait
<1> QED BY <1>1, <1>2, <1>3, PTL DEF Spec, RetryWaitsForOwner
=============================================================================

----------------------- MODULE ManagerQueueTurnProofs -----------------------
(***************************************************************************)
(* Theorems of ManagerQueue about model turns: a verdict agrees with the   *)
(* stored event of its turn, and a lane runs one turn at a time.           *)
(***************************************************************************)
EXTENDS ManagerQueueProofs

-----------------------------------------------------------------------------
(* What a step may do to one row, with the reason the code has for it      *)

\* The call that holds the claim of q has not reached the model.
Refusable(q) == \E k \in calls : k.req = q /\ k.phase = "dispatching" /\ Held(k)

\* A running process finds the lease of q expired and no stored event.
Unproven(q) == \E o \in Owners : mode'[o] = "up" /\ q \in Stale(o) \ Proven(o)

\* The claim stays; a lease ends only when its time is over.
Kept(q, s) ==
    /\ s.status = row[q].status /\ s.run = row[q].run
    /\ s.by = row[q].by /\ s.reason = row[q].reason
    /\ row[q].fresh => s.fresh \/ LeaseExpires(q)

Admitted(q, s) == /\ row[q].status = "none"
                  /\ s.status = "queued" /\ s.run = NoRun

\* The rest of the enqueue() of a scheduler turn that was not served.
Dropped(q, s) ==
    /\ row[q].status \in {"queued", "failed", "cancelled"}
    /\ s.status = "none" /\ s.run = NoRun
    /\ \E o \in Owners : q \in waiting[o] /\ ~ Awaits(o, q)

GivenUp(q, s) ==
    /\ row[q].status \in Unsettled
    /\ s.status \in Settled /\ s.reason # "turn" /\ s.run = row[q].run
    /\ \/ row[q].status = "queued"
       \/ Refusable(q)
       \/ Unproven(q)
       \/ LaneOf[q] \in archived'
       \/ \E o \in Owners : /\ SlotCleared(o, LaneOf[q])
                            /\ row[q].run = slot[o][LaneOf[q]].run

GivenBack(q, s) ==
    /\ row[q].status \in InFlight
    /\ s.status = "queued" /\ s.run = NoRun
    /\ Refusable(q) \/ Unproven(q)

Concluded(q, s, result) ==
    /\ row[q].status \in InFlight
    /\ s.status = IF result = "completed" THEN "delivered" ELSE "failed"
    /\ s.reason = "turn" /\ s.run = row[q].run
    /\ \/ \E t \in turns : /\ t.req = q /\ Completable(row[q], t.run)
                           /\ TurnEnds(t, result, TRUE)
       \/ /\ result = "failed"
          /\ \E k \in calls : /\ k.req = q /\ Held(k)
                              /\ AdapterAcceptsStillborn(k, TRUE)
       \/ /\ outcome' = outcome
          /\ result = outcome[q][row[q].run]
          /\ \E o \in Owners : q \in Proven(o)

Accepted(q, s) ==
    /\ row[q].status = "sending" /\ s.status = "processing"
    /\ s.by = row[q].by /\ s.fresh
    /\ \E k \in calls : /\ k.req = q /\ k.phase = "accepted" /\ Held(k)
                        /\ s.run = k.run

RowMove(q, s) ==
    /\ s \in Row /\ s.claims = row[q].claims
    /\ \/ Kept(q, s) \/ Admitted(q, s) \/ Dropped(q, s) \/ GivenUp(q, s)
       \/ GivenBack(q, s) \/ Accepted(q, s)
       \/ \E result \in {"completed", "failed"} : Concluded(q, s, result)

\* The row moves, and may then be the head that a running process claims.
RowStep(q) ==
    \E s : /\ RowMove(q, s)
           /\ \/ row'[q] = s
              \/ /\ s.status = "queued"
                 /\ \E o \in Owners : mode'[o] = "up" /\ row'[q] = Claimed(s, o)

\* A drain claims queued rows and leaves the others.
LEMMA DrainedRow ==
    ASSUME NEW o \in Owners, NEW cs, NEW R \in [Requests -> Row], NEW K,
           Drain(o, cs, R, K), mode'[o] = "up",
           NEW q \in Requests, RowMove(q, R[q])
    PROVE  RowStep(q)
<1>1. PICK P \in SUBSET Requests :
          /\ \A p \in P : Head(R, p)
          /\ \A p \in Requests :
                 row'[p] = IF p \in P THEN Claimed(R[p], o) ELSE R[p]
  BY DrainClaimsHeads
<1>2. CASE q \in P
  BY <1>1, <1>2 DEF Head, RowStep
<1>3. CASE q \notin P
  BY <1>1, <1>3 DEF RowStep
<1> QED
  BY <1>2, <1>3

LEMMA KickedRow ==
    ASSUME NEW o \in Owners, NEW cs, NEW R \in [Requests -> Row], NEW K,
           Kick(o, cs, R, K), mode' = mode,
           NEW q \in Requests, RowMove(q, R[q])
    PROVE  RowStep(q)
<1>1. CASE mode[o] = "up"
  <2>1. Drain(o, cs, R, K) /\ mode'[o] = "up"
    BY <1>1 DEF Kick
  <2> QED
    BY <2>1, DrainedRow
<1>2. CASE mode[o] # "up"
  <2>1. row' = [p \in Requests |-> R[p]]
    BY <1>2 DEF Kick, Drain
  <2> QED
    BY <2>1 DEF RowStep
<1> QED
  BY <1>1, <1>2

\* Fields of the updated rows.
LEMMA UpdateFields ==
    ASSUME NEW r \in Row
    PROVE  /\ \A n : Queued(r, n).status = "queued" /\ Queued(r, n).run = NoRun
           /\ Discarded(r).status = "none" /\ Discarded(r).run = NoRun
           /\ \A st, y : LET s == Ended(r, st, y) IN
                  s.status = st /\ s.reason = y /\ s.run = r.run
           /\ \A b \in BOOLEAN : LET s == Released(r, b) IN
                  s.status = "queued" /\ s.run = NoRun
           /\ \A run : LET s == Processing(r, run) IN
                  /\ s.status = "processing" /\ s.run = run
                  /\ s.by = r.by /\ s.fresh
           /\ \A o : LET s == Claimed(r, o) IN
                  /\ s.status = "sending" /\ s.by = o /\ s.fresh
                  /\ s.claims = r.claims + 1 /\ s.run = r.run
                  /\ s.reason = r.reason
<1>1. \A n : Queued(r, n).status = "queued" /\ Queued(r, n).run = NoRun
  BY DEF Queued, Row
<1>2. Discarded(r).status = "none" /\ Discarded(r).run = NoRun
  BY DEF Discarded, NoRow
<1>3. \A st, y : LET s == Ended(r, st, y) IN
         s.status = st /\ s.reason = y /\ s.run = r.run
  BY DEF Ended, Unclaimed, Row
<1>4. \A b \in BOOLEAN : LET s == Released(r, b) IN s.status = "queued" /\ s.run = NoRun
  BY DEF Released, Unclaimed, Row
<1>5. \A run : LET s == Processing(r, run) IN
         s.status = "processing" /\ s.run = run /\ s.by = r.by /\ s.fresh
  BY DEF Processing, Row
<1>6. \A o : LET s == Claimed(r, o) IN
         /\ s.status = "sending" /\ s.by = o /\ s.fresh
         /\ s.claims = r.claims + 1 /\ s.run = r.run /\ s.reason = r.reason
  BY DEF Claimed, Row
<1> QED
  BY <1>1, <1>2, <1>3, <1>4, <1>5, <1>6

\* What the periodic sweep does to a row.
LEMMA SweptRow ==
    ASSUME TypeOK, NEW o \in Owners, mode'[o] = "up", outcome' = outcome,
           NEW q \in Requests, row[q].run \in Runs \cup {NoRun}
    PROVE  RowMove(q, Swept(o)[q])
<1> DEFINE s == Swept(o)[q]
<1> SUFFICES RowMove(q, s)
  OBVIOUS
<1>1. row[q] \in Row /\ s \in Row /\ s.claims = row[q].claims
  BY SweepLowers DEF TypeOK, Keeps
<1> DEFINE result == outcome[q][row[q].run]
<1>2. CASE q \in Proven(o)
  <2>1. /\ s = Completed(row[q], outcome[q][row[q].run])
        /\ row[q].status \in InFlight /\ Evidence(q)
    BY <1>2 DEF Swept, Proven, Owned, Stale
  <2>2. result \in {"completed", "failed"}
    <3>1. result # "none" /\ row[q].run \in Runs
      BY <2>1 DEF Evidence
    <3>2. outcome[q] \in [Runs -> {"none", "completed", "failed"}]
      BY DEF TypeOK
    <3> QED
      BY <3>1, <3>2
  <2> DEFINE st == IF result = "completed" THEN "delivered" ELSE "failed"
  <2>4. s = Ended(row[q], st, "turn")
    BY <2>1 DEF Completed
  <2> HIDE DEF s, st
  <2>5. s.status = st /\ s.reason = "turn" /\ s.run = row[q].run
    BY <1>1, <2>4, UpdateFields
  <2>3. Concluded(q, s, result)
    BY <1>2, <2>1, <2>5 DEF Concluded, st
  <2> QED
    BY <1>1, <2>2, <2>3 DEF RowMove
<1>3. CASE q \notin Proven(o) /\ q \in Stale(o)
  <2>1. row[q].status \in InFlight /\ Unproven(q)
    BY <1>3 DEF Stale, Unproven
  <2>2. CASE q \in Recovered(o)
    <3>1. s = Released(row[q], TRUE)
      BY <1>3, <2>2 DEF Swept
    <3> HIDE DEF s
    <3>3. s.status = "queued" /\ s.run = NoRun
      BY <1>1, <3>1, UpdateFields
    <3>2. GivenBack(q, s)
      BY <2>1, <3>3 DEF GivenBack
    <3> QED
      BY <1>1, <3>2 DEF RowMove
  <2>3. CASE q \notin Recovered(o)
    <3>1. s = Ended(row[q], "failed", "restart_uncertain")
      BY <1>3, <2>3 DEF Swept
    <3>2. GivenUp(q, s)
      BY <1>1, <2>1, <3>1, UpdateFields DEF GivenUp, Settled, Unsettled
    <3> QED
      BY <1>1, <3>2 DEF RowMove
  <2> QED
    BY <2>2, <2>3
<1>4. CASE q \notin Proven(o) /\ q \notin Stale(o)
  <2>1. s = row[q] \/ s = [row[q] EXCEPT !.fresh = TRUE]
    BY <1>4 DEF Swept, Recovered
  <2>2. Kept(q, s)
    BY <1>1, <2>1 DEF Kept, Row
  <2> QED
    BY <1>1, <2>2 DEF RowMove
<1> QED
  BY <1>2, <1>3, <1>4

LEMMA RowStays ==
    ASSUME TypeOK, NEW q \in Requests
    PROVE  RowMove(q, row[q]) /\ (row'[q] = row[q] => RowStep(q))
<1>1. row[q] \in Row
  BY DEF TypeOK
<1>2. RowMove(q, row[q])
  BY <1>1 DEF RowMove, Kept
<1> QED
  BY <1>2 DEF RowStep

\* One row of the table moves, the others stay.
LEMMA OneRowMoves ==
    ASSUME TypeOK, NEW p \in Requests, NEW s, RowMove(p, s)
    PROVE  /\ [row EXCEPT ![p] = s] \in [Requests -> Row]
           /\ \A q \in Requests : RowMove(q, [row EXCEPT ![p] = s][q])
<1>1. row \in [Requests -> Row] /\ s \in Row
  BY DEF TypeOK, RowMove
<1>2. ASSUME NEW q \in Requests
      PROVE  RowMove(q, [row EXCEPT ![p] = s][q])
  <2>1. CASE q = p
    BY <1>1, <2>1
  <2>2. CASE q # p
    BY <1>1, <2>2, RowStays
  <2> QED
    BY <2>1, <2>2
<1> QED
  BY <1>1, <1>2

LEMMA OneRowKicked ==
    ASSUME TypeOK, NEW p \in Requests, NEW s, RowMove(p, s),
           NEW o \in Owners, NEW cs, NEW K,
           Kick(o, cs, [row EXCEPT ![p] = s], K), mode' = mode
    PROVE  \A q \in Requests : RowStep(q)
<1> DEFINE S == [row EXCEPT ![p] = s]
<1>1. S \in [Requests -> Row] /\ \A q \in Requests : RowMove(q, S[q])
  BY OneRowMoves
<1>2. Kick(o, cs, S, K)
  OBVIOUS
<1> HIDE DEF S
<1> QED
  BY <1>1, <1>2, KickedRow

LEMMA OneRowWritten ==
    ASSUME TypeOK, NEW p \in Requests, NEW s, RowMove(p, s),
           row' = [row EXCEPT ![p] = s]
    PROVE  \A q \in Requests : RowStep(q)
  BY OneRowMoves DEF RowStep

LEMMA NoRowKicked ==
    ASSUME TypeOK, NEW o \in Owners, NEW cs, NEW K, Kick(o, cs, row, K),
           mode' = mode
    PROVE  \A q \in Requests : RowStep(q)
<1>1. row \in [Requests -> Row]
  BY DEF TypeOK
<1> QED
  BY <1>1, RowStays, KickedRow

RunsOK ==
    /\ \A q \in Requests :
           /\ row[q].run \in Runs \cup {NoRun}
           /\ row[q].status \in {"none", "queued", "sending"} => row[q].run = NoRun
    /\ \A k \in calls : k.phase = "accepted" => k.run \in Runs

\* Requests of processes.
LEMMA RequestRows ==
    ASSUME TypeOK, NEW o \in Owners, NEW q \in Requests,
           \/ Enqueue(o, q) \/ EnqueueDuplicate(o, q)
           \/ EnqueueReturns(o, q) \/ Cancel(o, q)
    PROVE  \A r \in Requests : RowStep(r)
<1>t. row[q] \in Row /\ lastSeq + 1 \in Nat
  BY DEF TypeOK
<1>1. CASE Enqueue(o, q)
  <2> DEFINE s == Queued(row[q], lastSeq + 1)
  <2>1. s \in Row /\ s.claims = row[q].claims
    BY <1>t, UpdatesKeepRows, UpdatesKeep DEF Keeps
  <2>2. s.status = "queued" /\ s.run = NoRun
    BY <1>t, UpdateFields
  <2>3. Kick(o, {LaneOf[q]}, [row EXCEPT ![q] = s], calls) /\ mode' = mode
    BY <1>1 DEF Enqueue
  <2> HIDE DEF s
  <2>4. RowMove(q, s)
    BY <1>1, <2>1, <2>2 DEF RowMove, Admitted, Enqueue
  <2> QED
    BY <2>3, <2>4, OneRowKicked
<1>2. CASE EnqueueDuplicate(o, q)
  BY <1>2, NoRowKicked DEF EnqueueDuplicate
<1>3. CASE EnqueueReturns(o, q)
  <2>1. CASE row[q].status \in {"queued", "failed", "cancelled"}
    <3> DEFINE s == Discarded(row[q])
    <3>1. s \in Row /\ s.claims = row[q].claims
      BY <1>t, UpdatesKeepRows, UpdatesKeep DEF Keeps
    <3>2. s.status = "none" /\ s.run = NoRun
      BY <1>t, UpdateFields
    <3>3. row' = [row EXCEPT ![q] = s]
      BY <1>3, <2>1 DEF EnqueueReturns
    <3> HIDE DEF s
    <3>4. RowMove(q, s)
      BY <1>3, <2>1, <3>1, <3>2 DEF RowMove, Dropped, EnqueueReturns
    <3> QED
      BY <3>3, <3>4, OneRowWritten
  <2>2. CASE row[q].status \notin {"queued", "failed", "cancelled"}
    BY <1>3, <2>2, RowStays DEF EnqueueReturns
  <2> QED
    BY <2>1, <2>2
<1>4. CASE Cancel(o, q)
  <2> DEFINE s == Ended(row[q], "cancelled", "by_user")
  <2>1. s \in Row /\ s.claims = row[q].claims
    BY <1>t, UpdatesKeepRows, UpdatesKeep DEF Keeps, Settled, Statuses, Reasons
  <2>2. s.status = "cancelled" /\ s.reason = "by_user" /\ s.run = row[q].run
    BY <1>t, UpdateFields
  <2>3. row' = [row EXCEPT ![q] = s] /\ row[q].status = "queued"
    BY <1>4 DEF Cancel
  <2> HIDE DEF s
  <2>4. RowMove(q, s)
    BY <2>1, <2>2, <2>3 DEF RowMove, GivenUp, Settled, Unsettled
  <2> QED
    BY <2>3, <2>4, OneRowWritten
<1> QED
  BY <1>1, <1>2, <1>3, <1>4

\* Lanes that are archived, and slots that are cleared.
LEMMA LaneRows ==
    ASSUME TypeOK, NEW o \in Owners, NEW c \in Lanes,
           Archive(o, c) \/ SlotCleared(o, c)
    PROVE  \A r \in Requests : RowStep(r)
<1>t. row \in [Requests -> Row]
  BY DEF TypeOK
<1>1. CASE Archive(o, c)
  <2> SUFFICES ASSUME NEW q \in Requests
               PROVE  RowStep(q)
    OBVIOUS
  <2>1. CASE q \in Archivable(c)
    <3> DEFINE s == Ended(row[q], "cancelled", "operator_archived")
    <3>1. s \in Row /\ s.claims = row[q].claims
      BY <1>t, UpdatesKeepRows, UpdatesKeep DEF Keeps, Settled, Statuses, Reasons
    <3>2. /\ s.status = "cancelled" /\ s.reason = "operator_archived"
          /\ s.run = row[q].run
      BY <1>t, UpdateFields
    <3>3. row'[q] = s /\ LaneOf[q] = c /\ c \in archived'
          /\ row[q].status \in Unsettled
      BY <1>1, <2>1 DEF Archive, Archivable
    <3> HIDE DEF s
    <3>4. RowMove(q, s)
      BY <3>1, <3>2, <3>3 DEF RowMove, GivenUp, Settled
    <3> QED
      BY <3>3, <3>4 DEF RowStep
  <2>2. CASE q \notin Archivable(c)
    BY <1>1, <2>2, RowStays DEF Archive
  <2> QED
    BY <2>1, <2>2
<1>2. CASE SlotCleared(o, c)
  <2> DEFINE run == slot[o][c].run
             lost == {q \in Requests : /\ LaneOf[q] = c
                                       /\ row[q].run = run
                                       /\ row[q].status \in InFlight}
             S == [q \in Requests |-> IF q \in lost THEN SessionLost(row[q])
                                                    ELSE row[q]]
             cs == IF lost = {} THEN {} ELSE {c}
  <2>1. Kick(o, cs, S, calls) /\ mode' = mode
    BY <1>2 DEF SlotCleared
  <2>2. S \in [Requests -> Row]
    BY <1>t, UpdatesKeepRows
  <2>3. ASSUME NEW q \in Requests
        PROVE  RowMove(q, S[q])
    <3>1. CASE q \in lost
      <4> DEFINE s == Ended(row[q], "failed", "session_ended")
      <4>1. s \in Row /\ s.claims = row[q].claims
        BY <1>t, UpdatesKeepRows, UpdatesKeep
           DEF Keeps, Settled, Statuses, Reasons
      <4>2. /\ s.status = "failed" /\ s.reason = "session_ended"
            /\ s.run = row[q].run
        BY <1>t, UpdateFields
      <4>3. S[q] = s
        BY <3>1 DEF SessionLost
      <4>4. SlotCleared(o, LaneOf[q]) /\ row[q].run = slot[o][LaneOf[q]].run
            /\ row[q].status \in Unsettled
        BY <1>2, <3>1 DEF Unsettled
      <4> HIDE DEF s, S
      <4>5. GivenUp(q, s)
        BY <4>2, <4>4 DEF GivenUp, Settled
      <4> QED
        BY <4>1, <4>3, <4>5 DEF RowMove
    <3>2. CASE q \notin lost
      BY <3>2, RowStays
    <3> QED
      BY <3>1, <3>2
  <2> HIDE DEF S, cs
  <2> QED
    BY <2>1, <2>2, <2>3, KickedRow
<1> QED
  BY <1>1, <1>2

\* The answers of a dispatcher, and the end of a turn.
LEMMA AnswerRows ==
    ASSUME TypeOK, CallsOK(row, calls), RunsOK, CallStep
    PROVE  \A r \in Requests : RowStep(r)
<1>1. PICK k \in calls :
        \/ AdapterAccepts(k)
        \/ \E heard \in BOOLEAN : AdapterAcceptsStillborn(k, heard)
        \/ MarkProcessing(k)
        \/ \E error \in {"busy", "transport", "terminal"} :
               DispatchFails(k, error)
        \/ DispatchFenced(k)
        \/ DispatchTimesOut(k)
  BY DEF CallStep
<1>t. /\ k.req \in Requests /\ k.owner \in Owners /\ k.run \in Nat
      /\ row[k.req] \in Row
  BY DEF TypeOK, Call
<1>2. CASE AdapterAccepts(k)
  BY <1>2, RowStays DEF AdapterAccepts
<1>3. ASSUME NEW heard \in BOOLEAN, AdapterAcceptsStillborn(k, heard)
      PROVE  \A r \in Requests : RowStep(r)
  <2>1. CASE ~ heard
    BY <1>3, <2>1, RowStays DEF AdapterAcceptsStillborn
  <2>2. CASE heard
    <3> DEFINE s == Ended(row[k.req], "failed", "turn")
    <3>1. s \in Row /\ s.claims = row[k.req].claims
      BY <1>t, UpdatesKeepRows, UpdatesKeep
         DEF Keeps, Settled, Statuses, Reasons
    <3>2. s.status = "failed" /\ s.reason = "turn" /\ s.run = row[k.req].run
      BY <1>t, UpdateFields
    <3>3. /\ Kick(k.owner, {LaneOf[k.req]}, [row EXCEPT ![k.req] = s],
                  calls \ {k})
          /\ mode' = mode /\ Held(k)
          /\ AdapterAcceptsStillborn(k, TRUE)
      BY <1>3, <2>2 DEF AdapterAcceptsStillborn, Completed
    <3> HIDE DEF s
    <3>4. Concluded(k.req, s, "failed")
      BY <3>2, <3>3 DEF Concluded, Held, InFlight
    <3>5. RowMove(k.req, s)
      BY <3>1, <3>4 DEF RowMove
    <3> QED
      BY <1>t, <3>3, <3>5, OneRowKicked
  <2> QED
    BY <2>1, <2>2
<1>4. CASE MarkProcessing(k)
  <2> DEFINE cs == IF k.again THEN {LaneOf[k.req]} ELSE {}
  <2>1. CASE Held(k)
    <3> DEFINE s == Processing(row[k.req], k.run)
    <3>1. s \in Row /\ s.claims = row[k.req].claims
      BY <1>t, UpdatesKeepRows, UpdatesKeep DEF Keeps
    <3>2. /\ s.status = "processing" /\ s.run = k.run
          /\ s.by = row[k.req].by /\ s.fresh
      BY <1>t, UpdateFields
    <3>3. /\ Kick(k.owner, cs, [row EXCEPT ![k.req] = s], calls \ {k})
          /\ mode' = mode /\ k.phase = "accepted"
      BY <1>4, <2>1 DEF MarkProcessing, Unwind
    <3> HIDE DEF s, cs
    <3>4. Accepted(k.req, s)
      BY <2>1, <3>2, <3>3 DEF Accepted, Held
    <3>5. RowMove(k.req, s)
      BY <3>1, <3>4 DEF RowMove
    <3> QED
      BY <1>t, <3>3, <3>5, OneRowKicked
  <2>2. CASE ~ Held(k)
    <3>1. Kick(k.owner, cs, row, calls \ {k}) /\ mode' = mode
      BY <1>4, <2>2 DEF MarkProcessing, Unwind
    <3> QED
      BY <1>t, <3>1, NoRowKicked
  <2> QED
    BY <2>1, <2>2
<1>5. ASSUME NEW error, DispatchFails(k, error)
      PROVE  \A r \in Requests : RowStep(r)
  <2> DEFINE cs == IF k.again THEN {LaneOf[k.req]} ELSE {}
             s == Refused(row[k.req], error)
  <2>1. s \in Row /\ s.claims = row[k.req].claims
    BY <1>t, UpdatesKeepRows, UpdatesKeep DEF Keeps
  <2>2. /\ Kick(k.owner, cs, [row EXCEPT ![k.req] = s], calls \ {k})
        /\ mode' = mode /\ Held(k)
        /\ Refusable(k.req) /\ row[k.req].status \in InFlight
    BY <1>5 DEF DispatchFails, Unwind, Refusable, Held, InFlight
  <2>3. CASE Retries(row[k.req], error)
    <3>1. s.status = "queued" /\ s.run = NoRun
      BY <1>t, <2>3, UpdateFields DEF Refused
    <3> HIDE DEF s, cs
    <3>2. GivenBack(k.req, s)
      BY <2>2, <3>1 DEF GivenBack
    <3>3. RowMove(k.req, s)
      BY <2>1, <3>2 DEF RowMove
    <3> QED
      BY <1>t, <2>2, <3>3, OneRowKicked
  <2>4. CASE ~ Retries(row[k.req], error)
    <3>1. /\ s.status = "failed" /\ s.reason = "delivery"
          /\ s.run = row[k.req].run
      BY <1>t, <2>4, UpdateFields DEF Refused
    <3> HIDE DEF s, cs
    <3>2. GivenUp(k.req, s)
      BY <2>2, <3>1 DEF GivenUp, Settled, Unsettled
    <3>3. RowMove(k.req, s)
      BY <2>1, <3>2 DEF RowMove
    <3> QED
      BY <1>t, <2>2, <3>3, OneRowKicked
  <2> QED
    BY <2>3, <2>4
<1>6. CASE DispatchFenced(k)
  <2> DEFINE cs == IF k.again THEN {LaneOf[k.req]} ELSE {}
  <2>1. Kick(k.owner, cs, row, calls \ {k}) /\ mode' = mode
    BY <1>6 DEF DispatchFenced, Unwind
  <2> HIDE DEF cs
  <2> QED
    BY <1>t, <2>1, NoRowKicked
<1>7. CASE DispatchTimesOut(k)
  <2> DEFINE cs == IF k.again THEN {LaneOf[k.req]} ELSE {}
             s == Ended(row[k.req], "failed", "delivery")
             L == (calls \ {k}) \cup {[k EXCEPT !.phase = "late", !.again = FALSE]}
  <2>1. CASE Held(k)
    <3>1. s \in Row /\ s.claims = row[k.req].claims
      BY <1>t, UpdatesKeepRows, UpdatesKeep
         DEF Keeps, Settled, Statuses, Reasons
    <3>2. /\ s.status = "failed" /\ s.reason = "delivery"
          /\ s.run = row[k.req].run
      BY <1>t, UpdateFields
    <3>3. /\ Kick(k.owner, cs, [row EXCEPT ![k.req] = s], L)
          /\ mode' = mode /\ Refusable(k.req)
          /\ row[k.req].status \in InFlight
      BY <1>7, <2>1 DEF DispatchTimesOut, Refusable, Held, InFlight
    <3> HIDE DEF s, cs, L
    <3>4. GivenUp(k.req, s)
      BY <3>2, <3>3 DEF GivenUp, Settled, Unsettled
    <3>5. RowMove(k.req, s)
      BY <3>1, <3>4 DEF RowMove
    <3> QED
      BY <1>t, <3>3, <3>5, OneRowKicked
  <2>2. CASE ~ Held(k)
    <3>1. Kick(k.owner, cs, row, L) /\ mode' = mode
      BY <1>7, <2>2 DEF DispatchTimesOut
    <3> HIDE DEF cs, L
    <3> QED
      BY <1>t, <3>1, NoRowKicked
  <2> QED
    BY <2>1, <2>2
<1> QED
  BY <1>1, <1>2, <1>3, <1>4, <1>5, <1>6, <1>7

LEMMA TurnRows ==
    ASSUME TypeOK, NEW t \in turns, NEW result \in {"completed", "failed"},
           NEW heard \in BOOLEAN, TurnEnds(t, result, heard)
    PROVE  \A r \in Requests : RowStep(r)
<1>t. t.req \in Requests /\ t.owner \in Owners /\ row[t.req] \in Row
  BY DEF TypeOK
<1>1. CASE ~ (heard /\ Completable(row[t.req], t.run))
  BY <1>1, RowStays DEF TurnEnds
<1>2. CASE heard /\ Completable(row[t.req], t.run)
  <2> DEFINE s == Completed(row[t.req], result)
             st == IF result = "completed" THEN "delivered" ELSE "failed"
             L == Chained(calls, t.owner, {LaneOf[t.req]})
  <2>1. s \in Row /\ s.claims = row[t.req].claims
    BY <1>t, UpdatesKeepRows, UpdatesKeep DEF Keeps
  <2>2. s.status = st /\ s.reason = "turn" /\ s.run = row[t.req].run
    <3>1. s = Ended(row[t.req], st, "turn")
      BY DEF Completed
    <3> HIDE DEF s, st
    <3> QED
      BY <1>t, <3>1, UpdateFields
  <2>3. /\ Kick(t.owner, {LaneOf[t.req]}, [row EXCEPT ![t.req] = s], L)
        /\ mode' = mode /\ TurnEnds(t, result, TRUE)
        /\ row[t.req].status \in InFlight
    BY <1>2 DEF TurnEnds, Completable
  <2> HIDE DEF s, L
  <2>4. Concluded(t.req, s, result)
    BY <1>2, <2>2, <2>3 DEF Concluded
  <2>5. RowMove(t.req, s)
    BY <2>1, <2>4 DEF RowMove
  <2> QED
    BY <1>t, <2>3, <2>5, OneRowKicked
<1> QED
  BY <1>1, <1>2

\* What any step does to any row.
LEMMA RowSteps ==
    ASSUME TypeOK, CallsOK(row, calls), RunsOK, [Next]_vars
    PROVE  \A r \in Requests : RowStep(r)
<1>t. row \in [Requests -> Row]
  BY DEF TypeOK
<1>1. ASSUME NEW o \in Owners, Tick(o) \/ Boot(o)
      PROVE  \A r \in Requests : RowStep(r)
  <2> DEFINE L == Chained(calls, o, {LaneOf[q] : q \in Proven(o)})
  <2>1. Drain(o, Lanes, Swept(o), L) /\ outcome' = outcome /\ mode'[o] = "up"
    BY <1>1 DEF Tick, Boot, Sweep, TypeOK
  <2>2. Swept(o) \in [Requests -> Row]
    BY SweepLowers
  <2>3. \A q \in Requests : RowMove(q, Swept(o)[q])
    BY <2>1, SweptRow DEF RunsOK
  <2> HIDE DEF L
  <2> QED
    BY <2>1, <2>2, <2>3, DrainedRow
<1>2. ASSUME NEW o \in Owners, Stop(o) \/ Crash(o)
      PROVE  \A r \in Requests : RowStep(r)
  BY <1>2, RowStays DEF Stop, Crash
<1>3. ASSUME NEW q \in Requests, LeaseExpires(q) \/ BackoffElapses(q)
      PROVE  \A r \in Requests : RowStep(r)
  <2>1. CASE LeaseExpires(q)
    <3> DEFINE s == [row[q] EXCEPT !.fresh = FALSE]
    <3>1. s \in Row /\ s.claims = row[q].claims /\ s.status = row[q].status
          /\ s.run = row[q].run /\ s.by = row[q].by /\ s.reason = row[q].reason
      BY <1>t DEF Row
    <3>2. row' = [row EXCEPT ![q] = s]
      BY <1>t, <2>1 DEF LeaseExpires
    <3> HIDE DEF s
    <3>3. RowMove(q, s)
      BY <2>1, <3>1 DEF RowMove, Kept
    <3> QED
      BY <3>2, <3>3, OneRowWritten
  <2>2. CASE BackoffElapses(q)
    <3> DEFINE s == [row[q] EXCEPT !.ready = TRUE]
    <3>1. s \in Row /\ s.claims = row[q].claims /\ s.status = row[q].status
          /\ s.run = row[q].run /\ s.by = row[q].by /\ s.reason = row[q].reason
          /\ s.fresh = row[q].fresh
      BY <1>t DEF Row
    <3>2. row' = [row EXCEPT ![q] = s]
      BY <1>t, <2>2 DEF BackoffElapses
    <3> HIDE DEF s
    <3>3. RowMove(q, s)
      BY <3>1 DEF RowMove, Kept
    <3> QED
      BY <3>2, <3>3, OneRowWritten
  <2> QED
    BY <1>3, <2>1, <2>2
<1>4. ASSUME NEW o \in Owners, NEW c \in Lanes, SessionDies(o, c)
      PROVE  \A r \in Requests : RowStep(r)
  BY <1>4, RowStays DEF SessionDies
<1>5. TurnStep => \A r \in Requests : RowStep(r)
  BY TurnRows DEF TurnStep
<1>6. UNCHANGED vars => \A r \in Requests : RowStep(r)
  BY RowStays DEF vars
<1> QED
  BY <1>1, <1>2, <1>3, <1>4, <1>5, <1>6, RequestRows, LaneRows, AnswerRows
     DEF Next

-----------------------------------------------------------------------------
(* What a step may do to the calls                                         *)

\* The same call, perhaps with a drain chained behind it.
SameCall(k, l) == /\ l.owner = k.owner /\ l.req = k.req /\ l.tok = k.tok
                  /\ l.phase = k.phase /\ l.run = k.run

\* The accepted calls of K are those there were, but for one whose
\* continuation runs now and one that a session of the lane accepts now.
Onward(K) ==
    /\ \A k \in calls : k.phase = "accepted" =>
           MarkProcessing(k) \/ \E l \in K : SameCall(k, l)
    /\ \A l \in K : l.phase = "accepted" =>
           \/ \E k \in calls : k.phase = "accepted" /\ k.run = l.run
           \/ l.run \in Runs

LEMMA DrainAdds ==
    ASSUME NEW o, NEW cs, NEW R, NEW K,
           Drain(o, cs, R, K) \/ Kick(o, cs, R, K)
    PROVE  K \subseteq calls' /\ \A l \in calls' : l \in K \/ l.phase = "dispatching"
  BY DEF Drain, Kick

LEMMA OnwardSubset ==
    ASSUME NEW K, K \subseteq calls,
           \A k \in calls \ K : k.phase = "accepted" => MarkProcessing(k)
    PROVE  Onward(K)
  BY DEF Onward, SameCall

LEMMA OnwardReplaced ==
    ASSUME NEW k \in calls, NEW l, k.phase # "accepted",
           l.phase = "accepted" => l.run \in Runs
    PROVE  Onward((calls \ {k}) \cup {l})
  BY DEF Onward, SameCall

LEMMA OnwardChained ==
    ASSUME TypeOK, NEW o, NEW cs
    PROVE  Onward(Chained(calls, o, cs))
<1>1. ASSUME NEW k \in calls
      PROVE  SameCall(k, k) /\ SameCall(k, [k EXCEPT !.again = TRUE])
  <2>1. k \in Call
    BY DEF TypeOK
  <2> QED
    BY <2>1 DEF Call, SameCall
<1>2. /\ \A k \in calls : \E l \in Chained(calls, o, cs) : SameCall(k, l)
      /\ \A l \in Chained(calls, o, cs) : \E k \in calls : SameCall(k, l)
  BY <1>1 DEF Chained
<1> QED
  BY <1>2 DEF Onward, SameCall

\* What any step does to the calls.
LEMMA CallSteps ==
    ASSUME TypeOK, CallsOK(row, calls), [Next]_vars
    PROVE  \/ \E K : /\ Onward(K) /\ K \subseteq calls'
                     /\ \A l \in calls' : l \in K \/ l.phase = "dispatching"
           \/ \E o \in Owners : Crash(o)
<1> DEFINE Goes == \E K : /\ Onward(K) /\ K \subseteq calls'
                          /\ \A l \in calls' : l \in K \/ l.phase = "dispatching"
<1>a. Onward(calls)
  BY OnwardSubset
<1>b. calls' = calls => Goes
  BY <1>a
<1>c. \A o, cs, R, K : Onward(K) /\ (Drain(o, cs, R, K) \/ Kick(o, cs, R, K))
                       => Goes
  BY DrainAdds
<1> HIDE DEF Goes
<1>1. ASSUME NEW o \in Owners, NEW q \in Requests,
             \/ Enqueue(o, q) \/ EnqueueDuplicate(o, q)
             \/ EnqueueReturns(o, q) \/ Cancel(o, q)
      PROVE  Goes
  BY <1>1, <1>a, <1>b, <1>c
     DEF Enqueue, EnqueueDuplicate, EnqueueReturns, Cancel
<1>2. ASSUME NEW o \in Owners, NEW c \in Lanes,
             Archive(o, c) \/ SessionDies(o, c) \/ SlotCleared(o, c)
      PROVE  Goes
  BY <1>2, <1>a, <1>b, <1>c DEF Archive, SessionDies, SlotCleared
<1>3. ASSUME NEW k \in calls, AdapterAccepts(k)
      PROVE  Goes
  <2> DEFINE run == Session(k.owner, LaneOf[k.req])
             l == [k EXCEPT !.phase = "accepted", !.run = run]
  <2>1. k \in Call
    BY DEF TypeOK
  <2>2. /\ k.phase # "accepted" /\ run \in Runs
        /\ calls' = (calls \ {k}) \cup {l}
    BY <1>3 DEF AdapterAccepts, UseSession
  <2>3. l.run = run
    BY <2>1 DEF Call
  <2> HIDE DEF l, run
  <2>4. Onward((calls \ {k}) \cup {l})
    BY <2>2, <2>3, OnwardReplaced
  <2> QED
    BY <2>2, <2>4 DEF Goes
<1>4. ASSUME NEW k \in calls, NEW heard \in BOOLEAN,
             AdapterAcceptsStillborn(k, heard)
      PROVE  Goes
  <2> DEFINE run == Session(k.owner, LaneOf[k.req])
             l == [k EXCEPT !.phase = "accepted", !.run = run]
  <2>1. k \in Call
    BY DEF TypeOK
  <2>2. k.phase # "accepted" /\ run \in Runs
    BY <1>4 DEF AdapterAcceptsStillborn, UseSession
  <2>3. l.run = run
    BY <2>1 DEF Call
  <2>4. CASE heard
    <3>1. \E R : Kick(k.owner, {LaneOf[k.req]}, R, calls \ {k})
      BY <1>4, <2>4 DEF AdapterAcceptsStillborn
    <3>2. Onward(calls \ {k})
      BY <2>2, OnwardSubset
    <3> QED
      BY <1>c, <3>1, <3>2
  <2>5. CASE ~ heard
    <3>1. calls' = (calls \ {k}) \cup {l}
      BY <1>4, <2>5 DEF AdapterAcceptsStillborn
    <3> HIDE DEF l, run
    <3>2. Onward((calls \ {k}) \cup {l})
      BY <2>2, <2>3, OnwardReplaced
    <3> QED
      BY <3>1, <3>2 DEF Goes
  <2> QED
    BY <2>4, <2>5
<1>5. ASSUME NEW k \in calls,
             \/ MarkProcessing(k) \/ DispatchFenced(k)
             \/ \E error \in {"busy", "transport", "terminal"} :
                    DispatchFails(k, error)
      PROVE  Goes
  <2>1. \E cs, R : Kick(k.owner, cs, R, calls \ {k})
    BY <1>5 DEF MarkProcessing, DispatchFenced, DispatchFails, Unwind
  <2>2. k.phase = "accepted" => MarkProcessing(k)
    BY <1>5 DEF DispatchFenced, DispatchFails
  <2>3. Onward(calls \ {k})
    BY <2>2, OnwardSubset
  <2> QED
    BY <1>c, <2>1, <2>3
<1>6. ASSUME NEW k \in calls, DispatchTimesOut(k)
      PROVE  Goes
  <2> DEFINE l == [k EXCEPT !.phase = "late", !.again = FALSE]
  <2>1. k \in Call
    BY DEF TypeOK
  <2>2. l.phase = "late"
    BY <2>1 DEF Call
  <2>3. /\ k.phase = "dispatching"
        /\ \E cs, R : Kick(k.owner, cs, R, (calls \ {k}) \cup {l})
    BY <1>6 DEF DispatchTimesOut
  <2> HIDE DEF l
  <2>4. Onward((calls \ {k}) \cup {l})
    BY <2>2, <2>3, OnwardReplaced
  <2> QED
    BY <1>c, <2>3, <2>4
<1>7. ASSUME NEW t \in turns, NEW result, NEW heard, TurnEnds(t, result, heard)
      PROVE  Goes
  <2>1. calls' = calls \/ \E R : Kick(t.owner, {LaneOf[t.req]}, R,
                                      Chained(calls, t.owner, {LaneOf[t.req]}))
    BY <1>7 DEF TurnEnds
  <2> QED
    BY <1>b, <1>c, <2>1, OnwardChained
<1>8. ASSUME NEW o \in Owners, Tick(o) \/ Boot(o)
      PROVE  Goes
  <2>1. Drain(o, Lanes, Swept(o),
              Chained(calls, o, {LaneOf[q] : q \in Proven(o)}))
    BY <1>8 DEF Tick, Boot, Sweep
  <2> QED
    BY <1>c, <2>1, OnwardChained
<1>9. ASSUME NEW o \in Owners, Stop(o)
      PROVE  Goes
  BY <1>9, <1>b DEF Stop
<1>10. ASSUME NEW q \in Requests, LeaseExpires(q) \/ BackoffElapses(q)
       PROVE  Goes
  BY <1>10, <1>b DEF LeaseExpires, BackoffElapses
<1>11. UNCHANGED vars => Goes
  BY <1>b DEF vars
<1>12. Next => Goes \/ \E o \in Owners : Crash(o)
  BY <1>1, <1>2, <1>3, <1>4, <1>5, <1>6, <1>7, <1>8, <1>9, <1>10
     DEF Next, CallStep, TurnStep
<1> QED
  BY <1>11, <1>12 DEF Goes

\* A call that is accepted stays, until its continuation runs or its process
\* dies.
LEMMA AcceptedStays ==
    ASSUME TypeOK, CallsOK(row, calls), [Next]_vars,
           NEW k \in calls, k.phase = "accepted"
    PROVE  \/ Crash(k.owner)
           \/ MarkProcessing(k)
           \/ \E l \in calls' : SameCall(k, l)
<1>1. ASSUME NEW o \in Owners, Crash(o), k.owner # o
      PROVE  \E l \in calls' : SameCall(k, l)
  BY <1>1 DEF Crash, SameCall
<1> QED
  BY <1>1, CallSteps DEF Onward

\* A call that holds its claim and has not reached the model is an old one, or
\* has been claimed just now by a running process.
LEMMA DispatchOrigin ==
    ASSUME QueueInv, [Next]_vars,
           NEW k \in calls', k.phase = "dispatching", Held(k)'
    PROVE  \/ \E j \in calls : /\ j.owner = k.owner /\ j.req = k.req
                               /\ j.phase = "dispatching" /\ Held(j)
           \/ /\ mode'[k.owner] = "up"
              /\ row'[k.req].claims = row[k.req].claims + 1
<1>1. TypeOK /\ CallsOK(row, calls) /\ HeldIn(row', k)
  BY DEF QueueInv, TableInv, Held, HeldIn
<1>2. PICK S, L : Updated(S, L)
  BY <1>1, StepShape
<1>3. \A q \in Requests : Keeps(row[q], S[q])
  BY <1>2 DEF Updated
<1>4. \A j \in calls : j.req \in Requests
  BY <1>1 DEF TypeOK, Call
<1>5. ASSUME NEW l \in L, l.phase = "dispatching", HeldIn(S, l)
      PROVE  \E j \in calls : /\ j.owner = l.owner /\ j.req = l.req
                              /\ j.phase = "dispatching" /\ Held(j)
  <2>1. PICK j \in calls : Shadow(j, l)
    BY <1>2 DEF Updated, Shadows
  <2>2. Held(j)
    BY <1>3, <1>4, <1>5, <2>1 DEF Shadow, HeldIn, Held, Keeps
  <2> QED
    BY <1>5, <2>1, <2>2 DEF Shadow
<1>6. CASE row' = S /\ calls' = L
  BY <1>1, <1>5, <1>6
<1>7. ASSUME NEW o \in Owners, NEW cs, mode'[o] = "up", Drain(o, cs, S, L)
      PROVE  \/ \E j \in calls : /\ j.owner = k.owner /\ j.req = k.req
                                 /\ j.phase = "dispatching" /\ Held(j)
             \/ /\ mode'[k.owner] = "up"
                /\ row'[k.req].claims = row[k.req].claims + 1
  <2>1. S \in [Requests -> Row]
    BY <1>2 DEF Updated
  <2>2. PICK P \in SUBSET Requests :
          /\ \A q \in P : Head(S, q) /\ ~ Draining(L, o, LaneOf[q])
          /\ \A q \in Requests :
                 row'[q] = IF q \in P THEN Claimed(S[q], o) ELSE S[q]
          /\ calls' = L \cup {[owner |-> o, req |-> q, tok |-> S[q].claims + 1,
                               phase |-> "dispatching", run |-> NoRun,
                               again |-> FALSE] : q \in P}
    BY <1>7, <2>1, DrainClaimsHeads
  <2>3. \A q \in P : row'[q].claims = row[q].claims + 1
    BY <1>3, <2>1, <2>2, UpdateFields DEF Keeps
  <2>4. CASE k \in L
    <3>1. k.req \in Requests
      BY <1>2, <1>4, <2>4 DEF Updated, Shadows, Shadow
    <3>2. PICK j \in calls : Shadow(j, k)
      BY <1>2, <2>4 DEF Updated, Shadows
    <3>3. k.req \notin P
      <4> SUFFICES ASSUME k.req \in P
                   PROVE  FALSE
        OBVIOUS
      <4>1. k.tok = row[k.req].claims + 1
        BY <1>1, <2>3 DEF HeldIn
      <4>2. k.tok <= row[k.req].claims
        BY <1>1, <3>2 DEF CallsOK, Shadow
      <4>3. row[k.req].claims \in Nat
        BY <1>1, <3>1 DEF TypeOK, Row
      <4> QED
        BY <4>1, <4>2, <4>3
    <3>4. HeldIn(S, k)
      BY <1>1, <2>2, <3>1, <3>3 DEF HeldIn
    <3> QED
      BY <1>5, <2>4, <3>4
  <2>5. CASE k \notin L
    <3>1. k.owner = o /\ k.req \in P
      BY <2>2, <2>5
    <3> QED
      BY <1>7, <2>3, <3>1
  <2> QED
    BY <2>4, <2>5
<1> QED
  BY <1>2, <1>6, <1>7 DEF Updated, Then

\* Rows and calls name sessions there are; a row that waits names none.
LEMMA NextKeepsRuns ==
    ASSUME QueueInv, RunsOK, [Next]_vars
    PROVE  RunsOK'
<1>1. TypeOK /\ CallsOK(row, calls) /\ \A q \in Requests : row[q] \in Row
  BY DEF QueueInv, TableInv, TypeOK
<1>2. ASSUME NEW q \in Requests
      PROVE  /\ row'[q].run \in Runs \cup {NoRun}
             /\ row'[q].status \in {"none", "queued", "sending"}
                => row'[q].run = NoRun
  <2>1. RowStep(q)
    BY <1>1, RowSteps
  <2>2. PICK s : /\ RowMove(q, s)
                 /\ \/ row'[q] = s
                    \/ /\ s.status = "queued"
                       /\ \E o \in Owners : row'[q] = Claimed(s, o)
    BY <2>1 DEF RowStep
  <2>3. s \in Row
    BY <2>2 DEF RowMove
  <2>4. /\ s.run \in Runs \cup {NoRun}
        /\ s.status \in {"none", "queued", "sending"} => s.run = NoRun
    <3>1. /\ row[q].run \in Runs \cup {NoRun}
          /\ row[q].status \in {"none", "queued", "sending"}
             => row[q].run = NoRun
      BY DEF RunsOK
    <3>2. CASE Kept(q, s)
      BY <3>1, <3>2 DEF Kept
    <3>3. CASE Admitted(q, s) \/ Dropped(q, s) \/ GivenBack(q, s)
      BY <3>3 DEF Admitted, Dropped, GivenBack
    <3>4. CASE GivenUp(q, s) \/ \E result \in {"completed", "failed"} :
                                    Concluded(q, s, result)
      BY <3>1, <3>4 DEF GivenUp, Concluded, Settled
    <3>5. CASE Accepted(q, s)
      BY <3>5 DEF Accepted, RunsOK
    <3> QED
      BY <2>2, <3>2, <3>3, <3>4, <3>5 DEF RowMove
  <2>5. \A o \in Owners : Claimed(s, o).run = s.run
    BY <2>3, UpdateFields
  <2> QED
    BY <2>2, <2>4, <2>5
<1>3. ASSUME NEW l \in calls', l.phase = "accepted"
      PROVE  l.run \in Runs
  <2>1. ASSUME NEW o \in Owners, Crash(o)
        PROVE  l.run \in Runs
    BY <1>3, <2>1 DEF Crash, RunsOK
  <2>2. ASSUME NEW K, Onward(K), l \in K
        PROVE  l.run \in Runs
    BY <1>3, <2>2 DEF Onward, RunsOK
  <2> QED
    BY <1>1, <1>3, <2>1, <2>2, CallSteps
<1> QED
  BY <1>2, <1>3 DEF RunsOK

-----------------------------------------------------------------------------
(* Sessions: each is in one slot, and a turn runs in the live session of   *)
(* its lane                                                                *)

SessionsOK ==
    /\ \A o \in Owners, c \in Lanes :
           /\ slot[o][c].run <= lastRun
           /\ slot[o][c].alive => Alive(o) /\ slot[o][c].run \in Runs
    /\ \A o, p \in Owners, c, d \in Lanes :
           slot[o][c].alive /\ slot[p][d].run = slot[o][c].run => o = p /\ c = d
    /\ \A t \in turns : /\ slot[t.owner][LaneOf[t.req]].run = t.run
                        /\ slot[t.owner][LaneOf[t.req]].alive
    /\ \A q \in Requests, r \in Runs : outcome[q][r] # "none" => r <= lastRun

\* What a step may do to the sessions, the turns and the stored events.
LEMMA WorldSteps ==
    ASSUME [Next]_vars
    PROVE  \/ /\ UNCHANGED <<slot, lastRun, turns, outcome, started>>
              /\ ~ \E o \in Owners : Crash(o)
           \/ \E k \in calls :
                  \/ AdapterAccepts(k)
                  \/ \E heard \in BOOLEAN : AdapterAcceptsStillborn(k, heard)
           \/ \E t \in turns, result \in {"completed", "failed"},
                 heard \in BOOLEAN : TurnEnds(t, result, heard)
           \/ \E o \in Owners, c \in Lanes : SessionDies(o, c) \/ SlotCleared(o, c)
           \/ \E o \in Owners : Crash(o)
<1>1. CASE \E o \in Owners : Crash(o)
  BY <1>1
<1>2. CASE ~ \E o \in Owners : Crash(o)
  BY <1>2 DEF Next, CallStep, TurnStep, Enqueue, EnqueueDuplicate, EnqueueReturns,
         Cancel, Archive, MarkProcessing, DispatchFails, DispatchFenced,
         DispatchTimesOut, Tick, Boot, Stop, Sweep, LeaseExpires,
         BackoffElapses, vars
<1> QED
  BY <1>1, <1>2

\* The session that an accepted message uses: the lane's live one, or a new one.
LEMMA SessionUsed ==
    ASSUME TypeOK, SessionsOK, NEW o \in Owners, NEW c \in Lanes,
           NEW b \in BOOLEAN, UseSession(o, c, b)
    PROVE  /\ Session(o, c) \in Runs /\ Session(o, c) <= lastRun'
           /\ lastRun <= lastRun' /\ lastRun' \in Nat
           /\ slot'[o][c].run = Session(o, c) /\ slot'[o][c].alive = b
           /\ \A p \in Owners, d \in Lanes :
                  p # o \/ d # c => slot'[p][d] = slot[p][d]
           /\ IF slot[o][c].alive THEN Session(o, c) = slot[o][c].run
                                  ELSE Session(o, c) > lastRun
<1>1. /\ slot \in [Owners -> [Lanes -> Slot]] /\ lastRun \in Nat
      /\ slot[o][c].run \in Nat
  BY DEF TypeOK, Slot
<1>2. /\ slot' = [slot EXCEPT ![o][c] = [run |-> Session(o, c), alive |-> b]]
      /\ lastRun' = IF slot[o][c].alive THEN lastRun ELSE lastRun + 1
      /\ Session(o, c) \in Runs
  BY DEF UseSession
<1>3. Session(o, c) = IF slot[o][c].alive THEN slot[o][c].run ELSE lastRun + 1
  BY DEF Session
<1>4. slot[o][c].alive => slot[o][c].run <= lastRun
  BY DEF SessionsOK
<1> QED
  BY <1>1, <1>2, <1>3, <1>4

\* A live session of this step was one before it, except for what is accepted now.
LEMMA NextKeepsSessions ==
    ASSUME TypeOK, TypeOK', SessionsOK, [Next]_vars
    PROVE  SessionsOK'
<1> USE QueueAssumption
<1>t. /\ slot \in [Owners -> [Lanes -> Slot]] /\ lastRun \in Nat
      /\ \A o \in Owners, c \in Lanes :
             slot[o][c].run \in Nat /\ slot[o][c].alive \in BOOLEAN
      /\ \A t \in turns : /\ t.owner \in Owners /\ t.req \in Requests
                          /\ LaneOf[t.req] \in Lanes /\ t.run \in Nat
      /\ \A k \in calls : /\ k.owner \in Owners /\ k.req \in Requests
                          /\ LaneOf[k.req] \in Lanes
      /\ \A r \in Runs : r \in Nat /\ r > 0
      /\ outcome \in [Requests -> [Runs -> {"none", "completed", "failed"}]]
      /\ mode \in [Owners -> {"unborn", "up", "stopping", "down"}]
  BY DEF TypeOK, Slot, Call, Runs
<1>m. ASSUME NEW o \in Owners, Alive(o), ~ Crash(o)
      PROVE  Alive(o)'
  <2>1. CASE mode' = mode
    BY <1>m, <2>1 DEF Alive
  <2>2. ASSUME NEW p \in Owners, Boot(p) \/ Stop(p) \/ Crash(p),
               \A r \in Owners \ {p} : mode'[r] = mode[r]
        PROVE  Alive(o)'
    BY <1>t, <1>m, <2>2 DEF Boot, Stop, Alive
  <2> QED
    BY <1>t, <2>1, <2>2, LifeSteps
<1>1. ASSUME UNCHANGED <<slot, lastRun, turns, outcome, started>>,
             ~ \E o \in Owners : Crash(o)
      PROVE  SessionsOK'
  <2>1. \A o \in Owners : Alive(o) => Alive(o)'
    BY <1>1, <1>m
  <2> QED
    BY <1>1, <2>1 DEF SessionsOK
<1>2. ASSUME NEW k \in calls, NEW b \in BOOLEAN,
             UseSession(k.owner, LaneOf[k.req], b), Alive(k.owner), mode' = mode,
             \/ b /\ outcome' = outcome
                  /\ turns' = turns \cup {[owner |-> k.owner, req |-> k.req,
                                  run |-> Session(k.owner, LaneOf[k.req])]}
             \/ /\ turns' = turns
                /\ \A t \in turns : t.run # Session(k.owner, LaneOf[k.req])
                /\ outcome' = [outcome EXCEPT
                       ![k.req][Session(k.owner, LaneOf[k.req])] =
                          IF @ = "none" THEN "failed" ELSE @]
      PROVE  SessionsOK'
  <2>1. PICK o \in Owners, c \in Lanes, R \in Runs :
             o = k.owner /\ c = LaneOf[k.req] /\ R = Session(o, c)
    BY <1>t, <1>2 DEF UseSession
  <2>2. /\ R \in Runs /\ R <= lastRun' /\ lastRun <= lastRun' /\ lastRun' \in Nat
        /\ slot'[o][c].run = R /\ slot'[o][c].alive = b
        /\ \A p \in Owners, d \in Lanes :
               p # o \/ d # c => slot'[p][d] = slot[p][d]
        /\ IF slot[o][c].alive THEN R = slot[o][c].run ELSE R > lastRun
    BY <1>2, <2>1, SessionUsed
  <2>3. \A p \in Owners : Alive(p)' <=> Alive(p)
    BY <1>2 DEF Alive
  <2>4. \A p \in Owners, d \in Lanes :
            /\ slot'[p][d].run <= lastRun'
            /\ slot'[p][d].alive => Alive(p)' /\ slot'[p][d].run \in Runs
    <3> SUFFICES ASSUME NEW p \in Owners, NEW d \in Lanes
                 PROVE  /\ slot'[p][d].run <= lastRun'
                        /\ slot'[p][d].alive => Alive(p)' /\ slot'[p][d].run \in Runs
      OBVIOUS
    <3>1. CASE p = o /\ d = c
      BY <1>2, <2>1, <2>2, <2>3, <3>1
    <3>2. CASE p # o \/ d # c
      BY <1>t, <2>2, <2>3, <3>2 DEF SessionsOK
    <3> QED
      BY <3>1, <3>2
  <2>5. ASSUME NEW p \in Owners, NEW d \in Lanes, NEW x \in Owners, NEW y \in Lanes,
               slot'[p][d].alive, slot'[x][y].run = slot'[p][d].run
        PROVE  p = x /\ d = y
    <3>1. CASE slot[o][c].alive
      <4>1. /\ slot'[p][d].run = slot[p][d].run
            /\ slot'[x][y].run = slot[x][y].run
            /\ slot[p][d].alive
        BY <2>2, <2>5, <3>1
      <4> QED
        BY <2>5, <4>1 DEF SessionsOK
    <3>2. CASE ~ slot[o][c].alive
      <4>1. \A v \in Owners, w \in Lanes : slot[v][w].run # R
        BY <1>t, <2>2, <3>2 DEF SessionsOK
      <4> QED
        BY <2>2, <2>5, <4>1 DEF SessionsOK
    <3> QED
      BY <3>1, <3>2
  <2>6. ASSUME NEW t \in turns'
        PROVE  /\ slot'[t.owner][LaneOf[t.req]].run = t.run
               /\ slot'[t.owner][LaneOf[t.req]].alive
    <3>1. CASE t \in turns
      <4>1. /\ slot[t.owner][LaneOf[t.req]].run = t.run
            /\ slot[t.owner][LaneOf[t.req]].alive
        BY <3>1 DEF SessionsOK
      <4>2. CASE t.owner = o /\ LaneOf[t.req] = c
        BY <1>2, <2>1, <2>2, <3>1, <4>1, <4>2
      <4>3. CASE t.owner # o \/ LaneOf[t.req] # c
        BY <1>t, <2>2, <3>1, <4>1, <4>3
      <4> QED
        BY <4>2, <4>3
    <3>2. CASE t \notin turns
      BY <1>2, <2>1, <2>2, <3>2
    <3> QED
      BY <3>1, <3>2
  <2>7. ASSUME NEW q \in Requests, NEW r \in Runs, outcome'[q][r] # "none"
        PROVE  r <= lastRun'
    <3>1. outcome[q][r] # "none" \/ r = R
      <4>1. CASE outcome' = outcome
        BY <2>7, <4>1
      <4>2. CASE outcome' = [outcome EXCEPT
                     ![k.req][R] = IF @ = "none" THEN "failed" ELSE @]
        BY <1>t, <2>1, <2>7, <4>2
      <4> QED
        BY <1>2, <2>1, <4>1, <4>2
    <3> QED
      BY <1>t, <2>2, <3>1 DEF SessionsOK
  <2> QED
    BY <2>4, <2>5, <2>6, <2>7 DEF SessionsOK
<1>3. ASSUME NEW t \in turns, NEW result, NEW heard, TurnEnds(t, result, heard)
      PROVE  SessionsOK'
  <2>1. /\ slot' = slot /\ lastRun' = lastRun /\ mode' = mode
        /\ turns' \subseteq turns
        /\ outcome' = [outcome EXCEPT ![t.req][t.run] =
                          IF @ = "none" THEN result ELSE @]
    BY <1>3 DEF TurnEnds
  <2>2. t.run <= lastRun
    BY <1>t DEF SessionsOK
  <2>3. ASSUME NEW q \in Requests, NEW r \in Runs, outcome'[q][r] # "none"
        PROVE  r <= lastRun
    <3>1. outcome[q][r] # "none" \/ r = t.run
      BY <1>t, <2>1, <2>3
    <3> QED
      BY <2>2, <3>1 DEF SessionsOK
  <2> QED
    BY <2>1, <2>3 DEF SessionsOK, Alive
<1>4. ASSUME NEW o \in Owners, NEW c \in Lanes, SessionDies(o, c) \/ SlotCleared(o, c)
      PROVE  SessionsOK'
  <2>1. /\ lastRun' = lastRun /\ mode' = mode /\ outcome' = outcome
        /\ turns' = {t \in turns : t.run # slot[o][c].run}
        /\ ~ slot'[o][c].alive
        /\ slot'[o][c].run \in {slot[o][c].run, 0}
        /\ \A p \in Owners, d \in Lanes :
               p # o \/ d # c => slot'[p][d] = slot[p][d]
    BY <1>t, <1>4 DEF SessionDies, SlotCleared, EmptySlot, NoRun
  <2>2. ASSUME NEW p \in Owners, NEW d \in Lanes
        PROVE  /\ slot'[p][d].run <= lastRun'
               /\ slot'[p][d].alive => Alive(p)' /\ slot'[p][d].run \in Runs
    <3>1. CASE p = o /\ d = c
      <4>1. slot[o][c].run <= lastRun
        BY DEF SessionsOK
      <4> QED
        BY <1>t, <2>1, <3>1, <4>1
    <3>2. CASE p # o \/ d # c
      BY <2>1, <3>2 DEF SessionsOK, Alive
    <3> QED
      BY <3>1, <3>2
  <2>3. ASSUME NEW p \in Owners, NEW d \in Lanes, NEW x \in Owners, NEW y \in Lanes,
               slot'[p][d].alive, slot'[x][y].run = slot'[p][d].run
        PROVE  p = x /\ d = y
    <3>1. slot'[p][d] = slot[p][d] /\ slot[p][d].alive /\ slot[p][d].run \in Runs
      BY <2>1, <2>3 DEF SessionsOK
    <3>2. slot[x][y].run = slot[p][d].run
      <4>1. CASE x = o /\ y = c
        BY <1>t, <2>1, <2>3, <3>1, <4>1
      <4>2. CASE x # o \/ y # c
        BY <2>1, <2>3, <3>1, <4>2
      <4> QED
        BY <4>1, <4>2
    <3> QED
      BY <3>1, <3>2 DEF SessionsOK
  <2>4. ASSUME NEW t \in turns'
        PROVE  /\ slot'[t.owner][LaneOf[t.req]].run = t.run
               /\ slot'[t.owner][LaneOf[t.req]].alive
    <3>1. /\ t \in turns /\ slot[t.owner][LaneOf[t.req]].run = t.run
          /\ slot[t.owner][LaneOf[t.req]].alive /\ t.run # slot[o][c].run
      BY <2>1, <2>4 DEF SessionsOK
    <3>2. t.owner # o \/ LaneOf[t.req] # c
      BY <3>1
    <3>3. slot'[t.owner][LaneOf[t.req]] = slot[t.owner][LaneOf[t.req]]
      BY <1>t, <2>1, <3>1, <3>2
    <3> QED
      BY <3>1, <3>3
  <2> QED
    BY <2>1, <2>2, <2>3, <2>4 DEF SessionsOK
<1>5. ASSUME NEW o \in Owners, Crash(o)
      PROVE  SessionsOK'
  <2>1. /\ lastRun' = lastRun /\ outcome' = outcome
        /\ turns' = {t \in turns : t.owner # o}
        /\ \A c \in Lanes : ~ slot'[o][c].alive /\ slot'[o][c].run = 0
        /\ \A p \in Owners \ {o} : slot'[p] = slot[p] /\ mode'[p] = mode[p]
    BY <1>t, <1>5 DEF Crash, EmptySlot, NoRun
  <2>2. ASSUME NEW p \in Owners, NEW d \in Lanes
        PROVE  /\ slot'[p][d].run <= lastRun'
               /\ slot'[p][d].alive => Alive(p)' /\ slot'[p][d].run \in Runs
    <3>1. CASE p = o
      BY <1>t, <2>1, <3>1
    <3>2. CASE p # o
      BY <2>1, <3>2 DEF SessionsOK, Alive
    <3> QED
      BY <3>1, <3>2
  <2>3. ASSUME NEW p \in Owners, NEW d \in Lanes, NEW x \in Owners, NEW y \in Lanes,
               slot'[p][d].alive, slot'[x][y].run = slot'[p][d].run
        PROVE  p = x /\ d = y
    <3>1. p # o /\ slot'[p] = slot[p] /\ slot[p][d].run \in Runs
      BY <2>1, <2>3 DEF SessionsOK
    <3>2. x # o
      BY <1>t, <2>1, <2>3, <3>1
    <3> QED
      BY <2>1, <2>3, <3>1, <3>2 DEF SessionsOK
  <2>4. ASSUME NEW t \in turns'
        PROVE  /\ slot'[t.owner][LaneOf[t.req]].run = t.run
               /\ slot'[t.owner][LaneOf[t.req]].alive
    BY <1>t, <2>1, <2>4 DEF SessionsOK
  <2> QED
    BY <2>1, <2>2, <2>3, <2>4 DEF SessionsOK
<1>6. ASSUME NEW k \in calls, AdapterAccepts(k)
      PROVE  SessionsOK'
  <2>1. /\ UseSession(k.owner, LaneOf[k.req], TRUE) /\ Alive(k.owner)
        /\ mode' = mode /\ outcome' = outcome
        /\ turns' = turns \cup {[owner |-> k.owner, req |-> k.req,
                                 run |-> Session(k.owner, LaneOf[k.req])]}
    BY <1>6 DEF AdapterAccepts
  <2> QED
    BY <1>2, <2>1
<1>7. ASSUME NEW k \in calls, NEW heard, AdapterAcceptsStillborn(k, heard)
      PROVE  SessionsOK'
  <2>1. /\ UseSession(k.owner, LaneOf[k.req], FALSE) /\ Alive(k.owner)
        /\ mode' = mode /\ turns' = turns
        /\ \A t \in turns : t.run # Session(k.owner, LaneOf[k.req])
        /\ outcome' = [outcome EXCEPT ![k.req][Session(k.owner, LaneOf[k.req])] =
                          IF @ = "none" THEN "failed" ELSE @]
    BY <1>7 DEF AdapterAcceptsStillborn
  <2> QED
    BY <1>2, <2>1
<1> QED
  BY <1>1, <1>3, <1>4, <1>5, <1>6, <1>7, WorldSteps

-----------------------------------------------------------------------------
(* Turns and stored events of a request in the live session of its lane    *)

\* The live session of o has a stored event of q.
Told(o, q) == /\ slot[o][LaneOf[q]].alive
              /\ outcome[q][slot[o][LaneOf[q]].run] # "none"

\* A turn of q runs in o.
Taking(o, q) == \E t \in turns : t.owner = o /\ t.req = q

Touched(o, q) == Told(o, q) \/ Taking(o, q)

Takes(o, q) == \E k \in calls : /\ AdapterAccepts(k)
                                /\ k.owner = o /\ k.req = q

LEMMA TouchedLives ==
    ASSUME TypeOK, SessionsOK, NEW o \in Owners, NEW q \in Requests, Touched(o, q)
    PROVE  Alive(o)
<1>1. LaneOf[q] \in Lanes
  BY QueueAssumption
<1> QED
  BY <1>1 DEF Touched, Told, Taking, SessionsOK

LEMMA TakingSteps ==
    ASSUME NEW o, NEW q, [Next]_vars, Taking(o, q)'
    PROVE  Taking(o, q) \/ Takes(o, q)
<1>1. ASSUME UNCHANGED turns
      PROVE  Taking(o, q)
  BY <1>1 DEF Taking
<1>2. ASSUME NEW k \in calls, AdapterAccepts(k)
      PROVE  Taking(o, q) \/ Takes(o, q)
  <2>1. turns' = turns \cup {[owner |-> k.owner, req |-> k.req,
                              run |-> Session(k.owner, LaneOf[k.req])]}
    BY <1>2 DEF AdapterAccepts
  <2> QED
    BY <1>2, <2>1 DEF Taking, Takes
<1>3. ASSUME turns' \subseteq turns
      PROVE  Taking(o, q)
  BY <1>3 DEF Taking
<1> QED
  BY <1>1, <1>2, <1>3, WorldSteps
     DEF AdapterAcceptsStillborn, TurnEnds, SessionDies, SlotCleared, Crash

\* A session gets a stored event of q only by the end of a turn of q in it.
LEMMA ToldSteps ==
    ASSUME TypeOK, SessionsOK, [Next]_vars,
           NEW o \in Owners, NEW q \in Requests, Told(o, q)'
    PROVE  Told(o, q) \/ (Taking(o, q) /\ ~ Taking(o, q)')
<1> USE QueueAssumption
<1> DEFINE c == LaneOf[q]
<1>t. /\ c \in Lanes /\ lastRun \in Nat
      /\ outcome \in [Requests -> [Runs -> {"none", "completed", "failed"}]]
      /\ slot \in [Owners -> [Lanes -> Slot]]
      /\ \A k \in calls : /\ k.owner \in Owners /\ k.req \in Requests
                          /\ LaneOf[k.req] \in Lanes
      /\ turns \subseteq [owner : Owners, req : Requests, run : Nat]
      /\ \A t \in turns : t.owner \in Owners /\ LaneOf[t.req] \in Lanes
  BY DEF TypeOK, Call
<1>n. \A p \in Owners, d \in Lanes : slot[p][d].run \in Nat
  BY <1>t DEF Slot
<1>1. ASSUME slot'[o][c] = slot[o][c] \/ ~ slot'[o][c].alive, outcome' = outcome
      PROVE  Told(o, q)
  BY <1>1 DEF Told
<1>2. ASSUME NEW k \in calls, AdapterAccepts(k)
      PROVE  Told(o, q)
  <2>1. /\ UseSession(k.owner, LaneOf[k.req], TRUE)
        /\ outcome' = outcome
    BY <1>2 DEF AdapterAccepts
  <2>2. CASE k.owner = o /\ LaneOf[k.req] = c
    <3>1. /\ slot'[o][c].run = Session(o, c) /\ Session(o, c) \in Runs
          /\ IF slot[o][c].alive THEN Session(o, c) = slot[o][c].run
                                 ELSE Session(o, c) > lastRun
      BY <1>t, <2>1, <2>2, SessionUsed
    <3>2. CASE slot[o][c].alive
      BY <2>1, <3>1, <3>2 DEF Told
    <3>3. CASE ~ slot[o][c].alive
      <4>1. outcome[q][Session(o, c)] = "none"
        BY <1>t, <3>1, <3>3 DEF SessionsOK, Runs
      <4> QED
        BY <2>1, <3>1, <4>1 DEF Told
    <3> QED
      BY <3>2, <3>3
  <2>3. CASE k.owner # o \/ LaneOf[k.req] # c
    <3>1. \A p \in Owners, d \in Lanes :
              p # k.owner \/ d # LaneOf[k.req] => slot'[p][d] = slot[p][d]
      BY <1>t, <2>1, SessionUsed
    <3>2. slot'[o][c] = slot[o][c]
      BY <1>t, <2>3, <3>1
    <3> QED
      BY <1>1, <2>1, <3>2
  <2> QED
    BY <2>2, <2>3
<1>3. ASSUME NEW k \in calls, NEW heard \in BOOLEAN,
             AdapterAcceptsStillborn(k, heard)
      PROVE  Told(o, q)
  <2> DEFINE d == LaneOf[k.req]
             R == Session(k.owner, d)
  <2>1. /\ UseSession(k.owner, d, FALSE)
        /\ outcome' = [outcome EXCEPT ![k.req][R] =
                          IF @ = "none" THEN "failed" ELSE @]
    BY <1>3 DEF AdapterAcceptsStillborn
  <2>2. /\ ~ slot'[k.owner][d].alive /\ R \in Runs
        /\ \A p \in Owners, e \in Lanes :
               p # k.owner \/ e # d => slot'[p][e] = slot[p][e]
        /\ IF slot[k.owner][d].alive THEN R = slot[k.owner][d].run
                                     ELSE R > lastRun
    BY <1>t, <2>1, SessionUsed
  <2>3. k.owner # o \/ d # c
    BY <2>2 DEF Told
  <2>4. slot'[o][c] = slot[o][c]
    BY <1>t, <2>2, <2>3
  <2>5. slot[o][c].alive /\ slot[o][c].run # R
    <3>1. slot[o][c].alive /\ slot[o][c].run <= lastRun
      BY <1>t, <2>4 DEF Told, SessionsOK
    <3>2. CASE slot[k.owner][d].alive
      BY <1>t, <2>2, <2>3, <3>1, <3>2 DEF SessionsOK
    <3>3. CASE ~ slot[k.owner][d].alive
      BY <1>t, <1>n, <2>2, <3>1, <3>3 DEF Runs
    <3> QED
      BY <3>1, <3>2, <3>3
  <2>6. PICK x \in Runs : x = slot[o][c].run
    BY <1>t, <2>5 DEF SessionsOK
  <2>7. outcome'[q][x] = outcome[q][x]
    BY <1>t, <2>1, <2>2, <2>5, <2>6
  <2> QED
    BY <2>4, <2>5, <2>6, <2>7 DEF Told
<1>4. ASSUME NEW t \in turns, NEW result, NEW heard, TurnEnds(t, result, heard)
      PROVE  Told(o, q) \/ (Taking(o, q) /\ ~ Taking(o, q)')
  <2>1. /\ slot' = slot /\ turns' = turns \ {t}
        /\ outcome' = [outcome EXCEPT ![t.req][t.run] =
                          IF @ = "none" THEN result ELSE @]
    BY <1>4 DEF TurnEnds
  <2>2. /\ slot[t.owner][LaneOf[t.req]].alive
        /\ slot[t.owner][LaneOf[t.req]].run = t.run
        /\ t.run \in Runs
    BY <1>t DEF SessionsOK
  <2>3. slot[o][c].alive /\ slot[o][c].run \in Runs
    BY <1>t, <2>1 DEF Told, SessionsOK
  <2>4. CASE q = t.req /\ slot[o][c].run = t.run
    <3>1. t.owner = o
      BY <1>t, <2>2, <2>4 DEF SessionsOK
    <3>2. ASSUME NEW u \in turns, u.owner = o, u.req = q
          PROVE  u = t
      <4>1. u.run = t.run
        BY <2>4, <3>2 DEF SessionsOK
      <4> QED
        BY <1>t, <2>4, <3>1, <3>2, <4>1
    <3>3. ~ Taking(o, q)'
      BY <2>1, <3>2 DEF Taking
    <3> QED
      BY <2>4, <3>1, <3>3 DEF Taking
  <2>5. CASE ~ (q = t.req /\ slot[o][c].run = t.run)
    <3>1. PICK x \in Runs : x = slot[o][c].run
      BY <2>3
    <3>2. outcome'[q][x] = outcome[q][x]
      BY <1>t, <2>1, <2>2, <2>5, <3>1
    <3> QED
      BY <2>1, <2>3, <3>1, <3>2 DEF Told
  <2> QED
    BY <2>4, <2>5
<1>5. ASSUME NEW p \in Owners, NEW d \in Lanes, SessionDies(p, d) \/ SlotCleared(p, d)
      PROVE  Told(o, q)
  <2>1. /\ outcome' = outcome
        /\ slot'[o][c] = slot[o][c] \/ ~ slot'[o][c].alive
    BY <1>t, <1>5 DEF SessionDies, SlotCleared, EmptySlot
  <2> QED
    BY <1>1, <2>1
<1>6. ASSUME NEW p \in Owners, Crash(p)
      PROVE  Told(o, q)
  <2>1. /\ outcome' = outcome
        /\ slot'[o][c] = slot[o][c] \/ ~ slot'[o][c].alive
    BY <1>t, <1>6 DEF Crash, EmptySlot
  <2> QED
    BY <1>1, <2>1
<1> QED
  BY <1>1, <1>2, <1>3, <1>4, <1>5, <1>6, WorldSteps

\* Nothing of the past is taken back.
LEMMA PastStays ==
    ASSUME TypeOK, [Next]_vars
    PROVE  /\ stalls \in Nat /\ stalls' \in Nat /\ stalls <= stalls'
           /\ archived \subseteq archived'
           /\ \A q \in Requests : /\ started[q] \in Nat /\ started'[q] \in Nat
                                  /\ started[q] <= started'[q]
           /\ \A o \in Owners :
                  /\ mode[o] # "unborn" => mode'[o] # "unborn"
                  /\ mode'[o] = "up" => mode[o] \in {"up", "unborn"}
<1>t. /\ stalls \in Nat /\ started \in [Requests -> Nat]
      /\ mode \in [Owners -> {"unborn", "up", "stopping", "down"}]
      /\ \A k \in calls : k.req \in Requests
      /\ TypeOK'
  BY NextKeepsTypes DEF TypeOK, Call
<1>1. stalls' = stalls \/ stalls' = stalls + 1
  BY DEF Next, CallStep, TurnStep, Enqueue, EnqueueDuplicate, EnqueueReturns,
         Cancel, Archive, SessionDies, SlotCleared, AdapterAccepts,
         AdapterAcceptsStillborn, MarkProcessing, DispatchFails, DispatchFenced,
         DispatchTimesOut, TurnEnds, Tick, Boot, Stop, Crash, Sweep,
         LeaseExpires, BackoffElapses, vars
<1>2. archived \subseteq archived'
  BY DEF Next, CallStep, TurnStep, Enqueue, EnqueueDuplicate, EnqueueReturns,
         Cancel, Archive, SessionDies, SlotCleared, AdapterAccepts,
         AdapterAcceptsStillborn, MarkProcessing, DispatchFails, DispatchFenced,
         DispatchTimesOut, TurnEnds, Tick, Boot, Stop, Crash, Sweep,
         LeaseExpires, BackoffElapses, vars
<1>3. \A q \in Requests : /\ started[q] \in Nat /\ started'[q] \in Nat
                          /\ started[q] <= started'[q]
  <2>1. \/ started' = started
        \/ \E k \in calls : started' = [started EXCEPT ![k.req] = @ + 1]
    BY WorldSteps DEF AdapterAccepts, AdapterAcceptsStillborn, TurnEnds,
       SessionDies, SlotCleared, Crash
  <2> QED
    BY <1>t, <2>1
<1>4. \A o \in Owners : /\ mode[o] # "unborn" => mode'[o] # "unborn"
                        /\ mode'[o] = "up" => mode[o] \in {"up", "unborn"}
  BY <1>t, LifeSteps DEF Boot, Stop, Crash
<1> QED
  BY <1>t, <1>1, <1>2, <1>3, <1>4

\* Every turn and every stored event of a live session has been counted.
Counted ==
    \A o \in Owners, q \in Requests :
        /\ Touched(o, q) => started[q] >= 1
        /\ Told(o, q) /\ Taking(o, q) => started[q] >= 2

LEMMA NextKeepsCounted ==
    ASSUME TypeOK, SessionsOK, Counted, [Next]_vars
    PROVE  Counted'
<1> SUFFICES ASSUME NEW o \in Owners, NEW q \in Requests
             PROVE  /\ Touched(o, q)' => started'[q] >= 1
                    /\ (Told(o, q) /\ Taking(o, q))' => started'[q] >= 2
  BY DEF Counted
<1>1. started[q] \in Nat /\ started'[q] \in Nat /\ started[q] <= started'[q]
  BY PastStays
<1>2. Takes(o, q) => started'[q] = started[q] + 1
  BY DEF Takes, AdapterAccepts, TypeOK
<1>3. /\ Taking(o, q)' => Taking(o, q) \/ Takes(o, q)
      /\ Told(o, q)' => Told(o, q) \/ (Taking(o, q) /\ ~ Taking(o, q)')
  BY TakingSteps, ToldSteps
<1>4. Touched(o, q)' => started'[q] >= 1
  BY <1>1, <1>2, <1>3 DEF Touched, Counted
<1>5. (Told(o, q) /\ Taking(o, q))' => started'[q] >= 2
  BY <1>1, <1>2, <1>3 DEF Touched, Counted
<1> QED
  BY <1>4, <1>5

\* A row in flight belongs to a process, whose leases are fresh as long as it
\* runs and its timers do.
Leased ==
    \A q \in Requests :
        row[q].status \in InFlight =>
            /\ row[q].by \in Owners /\ mode[row[q].by] # "unborn"
            /\ stalls = 0 /\ mode[row[q].by] = "up" => row[q].fresh

LEMMA NextKeepsLeased ==
    ASSUME QueueInv, RunsOK, Leased, [Next]_vars
    PROVE  Leased'
<1> SUFFICES ASSUME NEW q \in Requests, row'[q].status \in InFlight
             PROVE  /\ row'[q].by \in Owners /\ mode'[row'[q].by] # "unborn"
                    /\ stalls' = 0 /\ mode'[row'[q].by] = "up" => row'[q].fresh
  BY DEF Leased
<1>1. TypeOK /\ CallsOK(row, calls)
  BY DEF QueueInv, TableInv
<1>2. PICK s : /\ RowMove(q, s)
               /\ \/ row'[q] = s
                  \/ /\ s.status = "queued"
                     /\ \E o \in Owners : mode'[o] = "up" /\ row'[q] = Claimed(s, o)
  BY <1>1, RowSteps DEF RowStep
<1>3. s \in Row
  BY <1>2 DEF RowMove
<1>4. ASSUME NEW o \in Owners, mode'[o] = "up", row'[q] = Claimed(s, o)
      PROVE  row'[q].by = o /\ row'[q].fresh
  BY <1>3, <1>4, UpdateFields
<1>5. ASSUME row'[q] = s
      PROVE  /\ row'[q].by = row[q].by /\ row[q].status \in InFlight
             /\ \/ row'[q].fresh
                \/ row[q].fresh => row'[q].fresh \/ LeaseExpires(q)
  <2>1. Kept(q, s) \/ Accepted(q, s)
    BY <1>2, <1>5 DEF RowMove, Admitted, Dropped, GivenUp, GivenBack, Concluded,
       InFlight, Settled
  <2> QED
    BY <1>5, <2>1 DEF Kept, Accepted, InFlight
<1>6. ASSUME row'[q] = s, stalls' = 0, mode'[row'[q].by] = "up"
      PROVE  row'[q].fresh
  <2>1. stalls = 0 /\ mode[row[q].by] = "up" /\ row[q].fresh
    BY <1>1, <1>5, <1>6, PastStays DEF Leased
  <2>2. ~ LeaseExpires(q)
    BY <1>6, <2>1 DEF LeaseExpires
  <2> QED
    BY <1>5, <1>6, <2>1, <2>2
<1>7. ASSUME row'[q] = s
      PROVE  row'[q].by \in Owners /\ mode'[row'[q].by] # "unborn"
  BY <1>1, <1>5, <1>7, PastStays DEF Leased
<1> QED
  BY <1>2, <1>4, <1>6, <1>7

-----------------------------------------------------------------------------
(* A session that has begun a request keeps its row or sees it settled     *)

Sole(q) == Overlap => q \notin Immediate

Dispatching(o, q) == \E k \in calls : /\ k.owner = o /\ k.req = q
                                      /\ k.phase = "dispatching" /\ Held(k)

\* As long as no live owner loses a lease, a session that has begun a request
\* runs it once, dispatches it no more, and has its row until it is settled.
Once ==
    stalls = 0 => \A o \in Owners, q \in Requests :
        Sole(q) =>
            /\ ~ (Told(o, q) /\ Taking(o, q))
            /\ Touched(o, q) =>
                   /\ ~ Dispatching(o, q)
                   /\ mode[o] = "up" =>
                          \/ row[q].status \in Settled
                          \/ row[q].status \in InFlight /\ row[q].by = o

LEMMA HeldOnce ==
    ASSUME CallsOK(row, calls), NEW k \in calls, Held(k)
    PROVE  /\ k.phase # "late"
           /\ \A l \in calls : l.req = k.req /\ Held(l) => l = k
  BY DEF CallsOK, Held, HeldIn

LEMMA TakesHeld ==
    ASSUME CallsOK(row, calls), NEW o, NEW q, Takes(o, q)
    PROVE  /\ Dispatching(o, q) /\ row' = row
           /\ row[q].status = "sending" /\ row[q].by = o
           /\ \A k \in calls' : k.req = q /\ k.phase = "dispatching" => ~ Held(k)'
<1>1. PICK k \in calls : AdapterAccepts(k) /\ k.owner = o /\ k.req = q
  BY DEF Takes
<1>2. /\ Held(k) /\ k.phase = "dispatching" /\ row' = row
      /\ k.phase \in {"dispatching", "late"}
      /\ calls' = (calls \ {k}) \cup
             {[k EXCEPT !.phase = "accepted", !.run = Session(k.owner, LaneOf[k.req])]}
  BY <1>1, HeldOnce DEF AdapterAccepts
<1>3. [k EXCEPT !.phase = "accepted", !.run = Session(k.owner, LaneOf[k.req])].phase
         = "accepted"
  BY DEF CallsOK, Call
<1>4. ASSUME NEW l \in calls', l.req = q, l.phase = "dispatching", Held(l)'
      PROVE  FALSE
  <2>1. l \in calls /\ l # k
    BY <1>2, <1>3, <1>4
  <2>2. Held(l)
    BY <1>2, <1>4 DEF Held
  <2> QED
    BY <1>1, <1>2, <1>4, <2>1, <2>2, HeldOnce
<1> QED
  BY <1>1, <1>2, <1>4 DEF Dispatching, Held

\* What happens to the row of a request that a running process has begun.
LEMMA TouchedRow ==
    ASSUME BudgetInv, Counted, Leased, Once, stalls = 0,
           NEW o \in Owners, NEW q \in Requests, Sole(q),
           Touched(o, q), mode[o] = "up",
           NEW s, RowMove(q, s)
    PROVE  s.status \in Settled \/ (s.status \in InFlight /\ s.by = o)
<1>1. /\ ~ Dispatching(o, q)
      /\ row[q].status \in Settled \/ (row[q].status \in InFlight /\ row[q].by = o)
  BY DEF Once
<1>2. ASSUME row[q].status \in InFlight, row[q].by = o
      PROVE  ~ Refusable(q) /\ ~ Unproven(q)
  <2>1. ~ Refusable(q)
    BY <1>1, <1>2 DEF Refusable, Dispatching, Held
  <2>2. row[q].fresh
    BY <1>2 DEF Leased
  <2> QED
    BY <2>1, <2>2 DEF Unproven, Stale
<1>3. CASE Kept(q, s)
  BY <1>1, <1>3 DEF Kept
<1>4. CASE Admitted(q, s)
  BY <1>1, <1>4 DEF Admitted, Settled, InFlight
<1>5. CASE Dropped(q, s)
  <2>1. PICK p \in Owners : q \in waiting[p]
    BY <1>5 DEF Dropped
  <2>2. row[q].status \in {"failed", "cancelled"}
    BY <1>1, <1>5 DEF Dropped, Settled, InFlight
  <2>3. q \in Immediate /\ ~ Overlap
    BY <2>1 DEF BudgetInv, Lives, Sole
  <2>4. Served(p, q)
    BY <2>1, <2>3 DEF BudgetInv, Waits
  <2>5. started[q] = 0
    BY <2>2, <2>4 DEF Served, Held
  <2>6. started[q] >= 1
    BY DEF Counted
  <2> QED
    BY <2>5, <2>6
<1>6. CASE GivenUp(q, s) \/ \E result \in {"completed", "failed"} :
                                Concluded(q, s, result)
  BY <1>6 DEF GivenUp, Concluded, Settled
<1>7. CASE GivenBack(q, s)
  BY <1>1, <1>2, <1>7 DEF GivenBack, Settled, InFlight
<1>8. CASE Accepted(q, s)
  BY <1>1, <1>8 DEF Accepted, Settled, InFlight
<1> QED
  BY <1>3, <1>4, <1>5, <1>6, <1>7, <1>8 DEF RowMove

LEMMA NextKeepsOnce ==
    ASSUME BudgetInv, RunsOK, SessionsOK, Counted, Leased, Once, [Next]_vars
    PROVE  Once'
<1> SUFFICES ASSUME stalls' = 0, NEW o \in Owners, NEW q \in Requests, Sole(q)
             PROVE  /\ ~ (Told(o, q)' /\ Taking(o, q)')
                    /\ Touched(o, q)' =>
                           /\ ~ Dispatching(o, q)'
                           /\ mode'[o] = "up" =>
                                  \/ row'[q].status \in Settled
                                  \/ row'[q].status \in InFlight /\ row'[q].by = o
  BY DEF Once, Sole
<1>1. TypeOK /\ CallsOK(row, calls) /\ QueueInv
  BY DEF BudgetInv, QueueInv, TableInv
<1>2. stalls = 0
  BY <1>1, PastStays
<1>3. /\ Taking(o, q)' => Taking(o, q) \/ Takes(o, q)
      /\ Told(o, q)' => Told(o, q) \/ (Taking(o, q) /\ ~ Taking(o, q)')
  BY <1>1, TakingSteps, ToldSteps
<1>4. Touched(o, q)' => Touched(o, q) \/ Takes(o, q)
  BY <1>3 DEF Touched
<1>5. Takes(o, q) => ~ Touched(o, q)
  BY <1>1, <1>2, TakesHeld DEF Once
<1>6. ~ (Told(o, q)' /\ Taking(o, q)')
  BY <1>2, <1>3, <1>5 DEF Once, Touched
<1>7. PICK s : /\ RowMove(q, s)
               /\ \/ row'[q] = s
                  \/ /\ s.status = "queued"
                     /\ \E p \in Owners : mode'[p] = "up" /\ row'[q] = Claimed(s, p)
  BY <1>1, RowSteps DEF RowStep
<1>8. ASSUME Touched(o, q), mode'[o] = "up"
      PROVE  row'[q] = s /\ (s.status \in Settled \/ (s.status \in InFlight /\ s.by = o))
  <2>1. mode[o] = "up"
    <3>1. mode[o] # "unborn"
      BY <1>1, <1>8, TouchedLives DEF Alive
    <3> QED
      BY <1>1, <1>8, <3>1, PastStays
  <2>2. s.status \in Settled \/ (s.status \in InFlight /\ s.by = o)
    BY <1>2, <1>7, <1>8, <2>1, TouchedRow
  <2> QED
    BY <1>7, <2>2 DEF Settled, InFlight
<1>9. ASSUME Touched(o, q)', mode'[o] = "up"
      PROVE  row'[q].status \in Settled \/ (row'[q].status \in InFlight /\ row'[q].by = o)
  <2>1. CASE Touched(o, q)
    BY <1>8, <1>9, <2>1
  <2>2. CASE Takes(o, q)
    BY <1>1, <2>2, TakesHeld DEF InFlight
  <2> QED
    BY <1>4, <1>9, <2>1, <2>2
<1>10. ASSUME Touched(o, q)', Dispatching(o, q)'
       PROVE  FALSE
  <2>1. PICK k \in calls' : /\ k.owner = o /\ k.req = q
                            /\ k.phase = "dispatching" /\ Held(k)'
    BY <1>10 DEF Dispatching
  <2>2. ~ Takes(o, q)
    BY <1>1, <2>1, TakesHeld
  <2>3. Touched(o, q)
    BY <1>4, <1>10, <2>2
  <2>4. ~ Dispatching(o, q)
    BY <1>2, <2>3 DEF Once
  <2>5. mode'[o] = "up" /\ row'[q].claims = row[q].claims + 1
    BY <1>1, <2>1, <2>4, DispatchOrigin DEF Dispatching
  <2>6. row'[q] = s
    BY <1>8, <2>3, <2>5
  <2>7. s.claims = row[q].claims /\ row[q].claims \in Nat
    BY <1>1, <1>7 DEF RowMove, TypeOK, Row
  <2> QED
    BY <2>5, <2>6, <2>7
<1> QED
  BY <1>6, <1>9, <1>10

-----------------------------------------------------------------------------
(* A turn that runs has the row of its request in hand                     *)

\* The owner of t runs, and t is not a second turn of a scheduler key.
Steady(t) == Overlap => /\ mode[t.owner] = "up"
                        /\ t.req \in Immediate => started[t.req] <= 1

\* The row is processed by t, or will be when the accepting call goes on.
InHand(t) ==
    /\ row[t.req].by = t.owner
    /\ \/ row[t.req].status = "processing" /\ row[t.req].run = t.run
       \/ /\ row[t.req].status = "sending"
          /\ \E k \in calls : /\ k.phase = "accepted" /\ k.req = t.req
                              /\ Held(k) /\ k.run = t.run

Carried ==
    stalls = 0 => \A t \in turns :
        Steady(t) /\ LaneOf[t.req] \notin archived => InHand(t)

OneTurn ==
    stalls = 0 => \A t, u \in turns :
        Steady(t) /\ Steady(u) /\ LaneOf[t.req] = LaneOf[u.req] => t = u

LEMMA SteadyBefore ==
    ASSUME TypeOK, SessionsOK, [Next]_vars, NEW t \in turns, Steady(t)'
    PROVE  Steady(t)
<1>1. t.owner \in Owners /\ t.req \in Requests /\ LaneOf[t.req] \in Lanes
  BY QueueAssumption DEF TypeOK
<1>2. Alive(t.owner)
  BY <1>1 DEF SessionsOK
<1>3. mode'[t.owner] = "up" => mode[t.owner] = "up"
  BY <1>1, <1>2, PastStays DEF Alive
<1>4. started'[t.req] <= 1 => started[t.req] <= 1
  BY <1>1, PastStays
<1> QED
  BY <1>3, <1>4 DEF Steady

\* The claim of a turn in hand is not one that a dispatcher still holds.
LEMMA InHandNotRefusable ==
    ASSUME CallsOK(row, calls), NEW t, InHand(t)
    PROVE  /\ ~ \E k \in calls : /\ k.req = t.req /\ Held(k)
                                 /\ k.phase # "accepted"
           /\ ~ Refusable(t.req)
<1>1. ASSUME NEW k \in calls, k.req = t.req, Held(k), k.phase # "accepted"
      PROVE  FALSE
  <2>1. row[t.req].status = "sending"
    BY <1>1 DEF Held
  <2>2. PICK l \in calls : l.phase = "accepted" /\ l.req = t.req /\ Held(l)
    BY <2>1 DEF InHand
  <2> QED
    BY <1>1, <2>2, HeldOnce
<1> QED
  BY <1>1 DEF Refusable

\* No running process takes the row of a turn in hand for a dead one's.
LEMMA InHandNotStale ==
    ASSUME TypeOK, TypeOK', Lives', SessionsOK', Leased, stalls = 0, [Next]_vars,
           NEW t \in turns, t \in turns', Steady(t), InHand(t)
    PROVE  ~ Unproven(t.req)
<1> SUFFICES ASSUME NEW p \in Owners, mode'[p] = "up", t.req \in Stale(p)
             PROVE  FALSE
  BY DEF Unproven
<1>1. /\ t.req \in Requests /\ t.owner \in Owners /\ LaneOf[t.req] \in Lanes
      /\ row[t.req].by = t.owner /\ p # t.owner /\ ~ row[t.req].fresh
      /\ row[t.req].status \in InFlight
  BY QueueAssumption DEF TypeOK, InHand, Stale
<1>2. Alive(t.owner)'
  BY <1>1 DEF SessionsOK
<1>3. Alive(p)'
  BY DEF Alive
<1>4. Overlap
  BY <1>1, <1>2, <1>3 DEF Lives
<1> QED
  BY <1>1, <1>4 DEF Steady, Leased

\* Nor is its session the one that is cleared in this step.
LEMMA InHandNotCleared ==
    ASSUME TypeOK, RunsOK, SessionsOK,
           NEW t \in turns, t \in turns', InHand(t),
           NEW p \in Owners, SlotCleared(p, LaneOf[t.req])
    PROVE  row[t.req].run # slot[p][LaneOf[t.req]].run
<1>1. /\ t.req \in Requests /\ t.owner \in Owners /\ LaneOf[t.req] \in Lanes
  BY QueueAssumption DEF TypeOK
<1>2. /\ slot[p][LaneOf[t.req]].run # NoRun
      /\ t.run # slot[p][LaneOf[t.req]].run
  BY DEF SlotCleared
<1>3. CASE row[t.req].status = "sending"
  BY <1>1, <1>2, <1>3 DEF RunsOK
<1>4. CASE row[t.req].status = "processing" /\ row[t.req].run = t.run
  BY <1>2, <1>4
<1> QED
  BY <1>3, <1>4 DEF InHand

\* The verdict on a request is not written while another of its turns runs.
LEMMA InHandNotConcluded ==
    ASSUME BudgetInv, RunsOK, SessionsOK, Counted, Once, OneTurn, stalls = 0,
           NEW t \in turns, t \in turns', Steady(t), InHand(t),
           NEW s, NEW result
    PROVE  ~ Concluded(t.req, s, result)
<1> SUFFICES ASSUME Concluded(t.req, s, result)
             PROVE  FALSE
  OBVIOUS
<1> DEFINE q == t.req
<1>1. /\ TypeOK /\ CallsOK(row, calls)
      /\ q \in Requests /\ t.owner \in Owners /\ LaneOf[q] \in Lanes
  BY QueueAssumption DEF BudgetInv, QueueInv, TableInv, TypeOK
<1>2. ASSUME NEW u \in turns, u.req = q, TurnEnds(u, result, TRUE)
      PROVE  FALSE
  <2>1. mode[u.owner] = "up" /\ turns' = turns \ {u}
    BY <1>2 DEF TurnEnds
  <2>2. Steady(u)
    BY <1>2, <2>1 DEF Steady
  <2>3. u = t
    BY <1>2, <2>2 DEF OneTurn
  <2> QED
    BY <2>1, <2>3
<1>3. ASSUME NEW k \in calls, k.req = q, Held(k), AdapterAcceptsStillborn(k, TRUE)
      PROVE  FALSE
  BY <1>1, <1>3, InHandNotRefusable DEF AdapterAcceptsStillborn
<1>4. ASSUME NEW p \in Owners, q \in Proven(p)
      PROVE  FALSE
  <2>1. row[q].run # NoRun /\ outcome[q][row[q].run] # "none"
    BY <1>4 DEF Proven, Evidence
  <2>2. row[q].run = t.run
    BY <1>1, <2>1 DEF RunsOK, InHand
  <2>3. Told(t.owner, q) /\ Taking(t.owner, q)
    BY <1>1, <2>1, <2>2 DEF Told, Taking, SessionsOK
  <2>4. started[q] >= 2 /\ started[q] \in Nat
    BY <1>1, <2>3 DEF Counted, TypeOK
  <2>5. Sole(q)
    BY <2>4 DEF Steady, Sole
  <2> QED
    BY <1>1, <2>3, <2>5 DEF Once
<1> QED
  BY <1>2, <1>3, <1>4 DEF Concluded

\* The row of a turn that goes on stays in hand.
LEMMA InHandStays ==
    ASSUME BudgetInv, TypeOK', Lives', RunsOK, SessionsOK, SessionsOK', Counted,
           Leased, Once, OneTurn, stalls = 0, [Next]_vars,
           NEW t \in turns, t \in turns', Steady(t), InHand(t),
           LaneOf[t.req] \notin archived'
    PROVE  InHand(t)'
<1> DEFINE q == t.req
<1>1. /\ TypeOK /\ CallsOK(row, calls)
      /\ q \in Requests /\ t.owner \in Owners
      /\ row \in [Requests -> Row]
      /\ row[q].by = t.owner /\ row[q].status \in InFlight
  BY DEF BudgetInv, QueueInv, TableInv, TypeOK, InHand, InFlight
<1>2. PICK s : /\ RowMove(q, s)
               /\ \/ row'[q] = s
                  \/ /\ s.status = "queued"
                     /\ \E p \in Owners : mode'[p] = "up" /\ row'[q] = Claimed(s, p)
  BY <1>1, RowSteps DEF RowStep
<1>3. ~ Refusable(q) /\ ~ Unproven(q)
  BY <1>1, InHandNotRefusable, InHandNotStale
<1>4. ~ GivenUp(q, s)
  <2>1. ~ \E p \in Owners : SlotCleared(p, LaneOf[q])
                            /\ row[q].run = slot[p][LaneOf[q]].run
    BY <1>1, InHandNotCleared
  <2> QED
    BY <1>1, <1>3, <2>1 DEF GivenUp, InFlight
<1>5. \A result : ~ Concluded(q, s, result)
  BY InHandNotConcluded
<1>6. Kept(q, s) \/ Accepted(q, s)
  BY <1>1, <1>2, <1>3, <1>4, <1>5
     DEF RowMove, Admitted, Dropped, GivenBack, InFlight
<1>7. row'[q] = s
  BY <1>1, <1>2, <1>6 DEF Kept, Accepted, InFlight
<1>8. CASE Accepted(q, s)
  <2>1. PICK k \in calls : /\ k.req = q /\ k.phase = "accepted" /\ Held(k)
                           /\ s.run = k.run
    BY <1>8 DEF Accepted
  <2>2. row[q].status = "sending"
    BY <1>8 DEF Accepted
  <2>3. PICK l \in calls : /\ l.phase = "accepted" /\ l.req = q
                           /\ Held(l) /\ l.run = t.run
    BY <2>2 DEF InHand
  <2>4. k = l
    BY <1>1, <2>1, <2>3, HeldOnce
  <2> QED
    BY <1>1, <1>7, <1>8, <2>1, <2>3, <2>4 DEF Accepted, InHand
<1>9. CASE Kept(q, s) /\ row[q].status = "processing"
  BY <1>1, <1>7, <1>9 DEF Kept, InHand
<1>10. CASE Kept(q, s) /\ row[q].status = "sending"
  <2>1. PICK k \in calls : /\ k.phase = "accepted" /\ k.req = q
                           /\ Held(k) /\ k.run = t.run
    BY <1>10 DEF InHand
  <2>2. k.owner = t.owner /\ row[q].claims = k.tok /\ s.claims = row[q].claims
    BY <1>1, <1>2, <2>1 DEF Held, RowMove
  <2>3. CASE Crash(k.owner)
    BY <2>2, <2>3 DEF Crash
  <2>4. CASE MarkProcessing(k)
    <3> DEFINE r == Processing(row[q], k.run)
               R == [row EXCEPT ![q] = r]
               cs == IF k.again THEN {LaneOf[q]} ELSE {}
    <3>1. Kick(k.owner, cs, R, calls \ {k})
      BY <2>1, <2>4 DEF MarkProcessing, Unwind
    <3>2. r \in Row /\ r.status = "processing"
      <4>1. k.run \in Nat
        BY <1>1, <2>1 DEF CallsOK, Call
      <4>2. row[q] \in Row
        BY <1>1
      <4>3. r \in Row
        BY <4>1, <4>2, UpdatesKeepRows
      <4>4. r.status = "processing"
        BY <4>2, UpdateFields
      <4> QED
        BY <4>3, <4>4
    <3> HIDE DEF r, cs
    <3>3. R \in [Requests -> Row] /\ R[q].status = "processing"
      BY <1>1, <3>2
    <3> HIDE DEF R
    <3>4. row'[q] = R[q]
      BY <1>1, <2>2, <3>1, <3>3, KickLeaves
    <3> QED
      BY <1>7, <1>10, <3>3, <3>4 DEF Kept
  <2>5. ASSUME NEW l \in calls', SameCall(k, l)
        PROVE  InHand(t)'
    <3>1. Held(l)'
      BY <1>1, <1>7, <1>10, <2>1, <2>2, <2>5 DEF Kept, SameCall, Held
    <3> QED
      BY <1>1, <1>7, <1>10, <2>1, <2>5, <3>1 DEF Kept, SameCall, InHand
  <2> QED
    BY <1>1, <2>1, <2>3, <2>4, <2>5, AcceptedStays
<1> QED
  BY <1>1, <1>6, <1>8, <1>9, <1>10 DEF InFlight

\* A turn that begins finds its row in hand.
LEMMA InHandBegins ==
    ASSUME TypeOK, CallsOK(row, calls), NEW k \in calls, AdapterAccepts(k),
           NEW t \in turns', t \notin turns
    PROVE  InHand(t)' /\ t.owner = k.owner /\ t.req = k.req
<1> DEFINE R == Session(k.owner, LaneOf[k.req])
           l == [k EXCEPT !.phase = "accepted", !.run = R]
<1>1. /\ t.owner = k.owner /\ t.req = k.req /\ t.run = R
      /\ l \in calls' /\ row' = row /\ Held(k)
  BY DEF AdapterAccepts
<1>2. /\ l.phase = "accepted" /\ l.req = k.req /\ l.run = R
      /\ l.owner = k.owner /\ l.tok = k.tok
  BY DEF CallsOK, Call
<1> HIDE DEF l, R
<1> QED
  BY <1>1, <1>2 DEF InHand, Held

LEMMA TurnsBegin ==
    ASSUME [Next]_vars, NEW t \in turns', t \notin turns
    PROVE  \E k \in calls : AdapterAccepts(k)
  BY WorldSteps DEF AdapterAcceptsStillborn, TurnEnds, SessionDies, SlotCleared,
                    Crash

LEMMA NextKeepsCarried ==
    ASSUME BudgetInv, TypeOK', Lives', RunsOK, SessionsOK, SessionsOK', Counted,
           Leased, Once, Carried, OneTurn, [Next]_vars
    PROVE  Carried'
<1> SUFFICES ASSUME stalls' = 0, NEW t \in turns', Steady(t)',
                    LaneOf[t.req] \notin archived'
             PROVE  InHand(t)'
  BY DEF Carried
<1>1. TypeOK /\ CallsOK(row, calls) /\ archived \subseteq archived'
  BY PastStays DEF BudgetInv, QueueInv, TableInv
<1>2. stalls = 0
  BY <1>1, PastStays
<1>3. CASE t \in turns
  <2>1. Steady(t)
    BY <1>1, <1>3, SteadyBefore
  <2>2. InHand(t)
    BY <1>1, <1>2, <1>3, <2>1 DEF Carried
  <2> QED
    BY <1>2, <1>3, <2>1, <2>2, InHandStays
<1>4. CASE t \notin turns
  BY <1>1, <1>4, TurnsBegin, InHandBegins
<1> QED
  BY <1>3, <1>4

LEMMA NextKeepsOneTurn ==
    ASSUME BudgetInv, SessionsOK, Carried, OneTurn, [Next]_vars
    PROVE  OneTurn'
<1> SUFFICES ASSUME stalls' = 0, NEW t \in turns', NEW u \in turns',
                    Steady(t)', Steady(u)', LaneOf[t.req] = LaneOf[u.req]
             PROVE  t = u
  BY DEF OneTurn
<1>1. /\ TypeOK /\ CallsOK(row, calls) /\ TableOK(row, lastSeq, archived)
      /\ \A k \in calls : k.req \in Requests
      /\ \A x \in turns : x.req \in Requests
  BY DEF BudgetInv, QueueInv, TableInv, TypeOK, Call
<1>2. stalls = 0
  BY <1>1, PastStays
<1>3. CASE t \in turns /\ u \in turns
  <2>1. Steady(t) /\ Steady(u)
    BY <1>1, <1>3, SteadyBefore
  <2> QED
    BY <1>2, <1>3, <2>1 DEF OneTurn
<1>4. ASSUME NEW k \in calls, AdapterAccepts(k), NEW x \in turns, Steady(x)',
             LaneOf[x.req] = LaneOf[k.req]
      PROVE  FALSE
  <2>1. Held(k) /\ k.phase # "accepted"
    BY <1>4 DEF AdapterAccepts
  <2>2. LaneOf[k.req] \notin archived
    BY <1>1, <2>1 DEF TableOK, Quiet, Held, Unsettled, InFlight
  <2>3. InHand(x)
    BY <1>1, <1>2, <1>4, <2>2, SteadyBefore DEF Carried
  <2>4. x.req = k.req
    BY <1>1, <1>4, <2>1, <2>3 DEF TableOK, Singled, InHand, Held, InFlight
  <2> QED
    BY <1>1, <2>1, <2>3, <2>4, InHandNotRefusable
<1>5. CASE t \notin turns /\ u \notin turns
  <2>1. PICK k \in calls : AdapterAccepts(k)
    BY <1>5, TurnsBegin
  <2> QED
    BY <1>5, <2>1 DEF AdapterAccepts
<1>6. CASE t \in turns /\ u \notin turns
  <2>1. PICK k \in calls : AdapterAccepts(k)
    BY <1>6, TurnsBegin
  <2>2. u.req = k.req
    BY <1>1, <1>6, <2>1, InHandBegins
  <2> QED
    BY <1>4, <1>6, <2>1, <2>2
<1>7. CASE t \notin turns /\ u \in turns
  <2>1. PICK k \in calls : AdapterAccepts(k)
    BY <1>7, TurnsBegin
  <2>2. t.req = k.req
    BY <1>1, <1>7, <2>1, InHandBegins
  <2> QED
    BY <1>4, <1>7, <2>1, <2>2
<1> QED
  BY <1>3, <1>5, <1>6, <1>7

-----------------------------------------------------------------------------
(* The verdict on a request                                                *)

\* A stored event stays as it was first written.
LEMMA EventsStay ==
    ASSUME TypeOK, [Next]_vars, NEW q \in Requests, NEW r \in Runs,
           outcome[q][r] # "none"
    PROVE  outcome'[q][r] = outcome[q][r]
<1>1. outcome \in [Requests -> [Runs -> {"none", "completed", "failed"}]]
  BY DEF TypeOK
<1>2. ASSUME NEW p, NEW x, NEW v,
             outcome' = [outcome EXCEPT ![p][x] = IF @ = "none" THEN v ELSE @]
      PROVE  outcome'[q][r] = outcome[q][r]
  <2>1. CASE p = q /\ x = r
    BY <1>1, <1>2, <2>1
  <2>2. CASE p # q \/ x # r
    BY <1>1, <1>2, <2>2
  <2> QED
    BY <2>1, <2>2
<1>3. ASSUME NEW k, NEW heard, AdapterAcceptsStillborn(k, heard)
      PROVE  outcome'[q][r] = outcome[q][r]
  BY <1>2, <1>3 DEF AdapterAcceptsStillborn
<1>4. ASSUME NEW t, NEW result, NEW heard, TurnEnds(t, result, heard)
      PROVE  outcome'[q][r] = outcome[q][r]
  BY <1>2, <1>4 DEF TurnEnds
<1> QED
  BY <1>3, <1>4, WorldSteps DEF AdapterAccepts, SessionDies, SlotCleared, Crash

\* The verdict that is written now agrees with the event of its turn.
LEMMA ConcludedHasEvidence ==
    ASSUME BudgetInv, RunsOK, SessionsOK, Once, stalls = 0,
           NEW q \in Requests, Sole(q), NEW s,
           NEW result \in {"completed", "failed"}, Concluded(q, s, result)
    PROVE  IF s.run # NoRun THEN outcome'[q][s.run] = result
                            ELSE \E r \in Runs : outcome'[q][r] = result
<1>1. /\ TypeOK /\ CallsOK(row, calls) /\ LaneOf[q] \in Lanes
      /\ outcome \in [Requests -> [Runs -> {"none", "completed", "failed"}]]
      /\ s.run = row[q].run /\ row[q].status \in InFlight
  BY QueueAssumption DEF BudgetInv, QueueInv, TableInv, TypeOK, Concluded
<1>2. ASSUME NEW t \in turns, t.req = q, Completable(row[q], t.run),
             TurnEnds(t, result, TRUE)
      PROVE  IF s.run # NoRun THEN outcome'[q][s.run] = result
                              ELSE \E r \in Runs : outcome'[q][r] = result
  <2>1. /\ t.owner \in Owners /\ slot[t.owner][LaneOf[q]].alive
        /\ slot[t.owner][LaneOf[q]].run = t.run
    BY <1>1, <1>2 DEF SessionsOK, TypeOK
  <2>2. Taking(t.owner, q) /\ ~ Told(t.owner, q)
    BY <1>2, <2>1 DEF Once, Taking
  <2>3. PICK r \in Runs : r = t.run /\ outcome[q][r] = "none"
    BY <1>1, <2>1, <2>2 DEF SessionsOK, Told
  <2>4. outcome' = [outcome EXCEPT ![q][r] = IF @ = "none" THEN result ELSE @]
    BY <1>2, <2>3 DEF TurnEnds
  <2>5. outcome'[q][r] = result
    BY <1>1, <2>3, <2>4
  <2>6. s.run = r \/ s.run = NoRun
    BY <1>1, <1>2, <2>3 DEF Completable
  <2> QED
    BY <2>5, <2>6
<1>3. ASSUME NEW k \in calls, k.req = q, Held(k), AdapterAcceptsStillborn(k, TRUE),
             result = "failed"
      PROVE  IF s.run # NoRun THEN outcome'[q][s.run] = result
                              ELSE \E r \in Runs : outcome'[q][r] = result
  <2>1. s.run = NoRun
    BY <1>1, <1>3 DEF Held, RunsOK
  <2>2. /\ k.owner \in Owners
        /\ UseSession(k.owner, LaneOf[q], FALSE)
        /\ outcome' = [outcome EXCEPT ![q][Session(k.owner, LaneOf[q])] =
                          IF @ = "none" THEN "failed" ELSE @]
        /\ k.phase = "dispatching"
    BY <1>1, <1>3, HeldOnce DEF AdapterAcceptsStillborn, CallsOK, Call
  <2>3. /\ Session(k.owner, LaneOf[q]) \in Runs /\ lastRun \in Nat
        /\ IF slot[k.owner][LaneOf[q]].alive
           THEN Session(k.owner, LaneOf[q]) = slot[k.owner][LaneOf[q]].run
           ELSE Session(k.owner, LaneOf[q]) > lastRun
    BY <1>1, <2>2, SessionUsed DEF TypeOK
  <2>4. Dispatching(k.owner, q)
    BY <1>3, <2>2 DEF Dispatching
  <2>5. ~ Told(k.owner, q)
    BY <2>2, <2>4 DEF Once, Touched
  <2>6. PICK r \in Runs : r = Session(k.owner, LaneOf[q]) /\ outcome[q][r] = "none"
    <3>1. CASE slot[k.owner][LaneOf[q]].alive
      BY <2>3, <2>5, <3>1 DEF Told
    <3>2. CASE ~ slot[k.owner][LaneOf[q]].alive
      BY <2>3, <3>2 DEF SessionsOK, Runs
    <3> QED
      BY <3>1, <3>2
  <2>7. outcome'[q][r] = "failed"
    BY <1>1, <2>2, <2>6
  <2> QED
    BY <1>3, <2>1, <2>7
<1>4. ASSUME NEW o \in Owners, q \in Proven(o), outcome' = outcome,
             result = outcome[q][row[q].run]
      PROVE  IF s.run # NoRun THEN outcome'[q][s.run] = result
                              ELSE \E r \in Runs : outcome'[q][r] = result
  BY <1>1, <1>4 DEF Proven, Evidence
<1> QED
  BY <1>2, <1>3, <1>4 DEF Concluded

LEMMA NextKeepsVerdicts ==
    ASSUME BudgetInv, RunsOK, SessionsOK, Once, VerdictHasEvidence, [Next]_vars
    PROVE  VerdictHasEvidence'
<1> DEFINE Backs(out, run, verdict, q) ==
        IF run # NoRun THEN out[q][run] = verdict
                       ELSE \E r \in Runs : out[q][r] = verdict
           Verdict(status) == IF status = "delivered" THEN "completed"
                                                      ELSE "failed"
<1> SUFFICES ASSUME stalls' = 0, NEW q \in Requests, Sole(q),
                    row'[q].status \in Settled, row'[q].reason = "turn"
             PROVE  Backs(outcome', row'[q].run, Verdict(row'[q].status), q)
  BY DEF VerdictHasEvidence, Sole
<1>1. TypeOK /\ CallsOK(row, calls)
  BY DEF BudgetInv, QueueInv, TableInv
<1>2. stalls = 0
  BY <1>1, PastStays
<1>3. PICK s : /\ RowMove(q, s)
               /\ \/ row'[q] = s
                  \/ /\ s.status = "queued"
                     /\ \E p \in Owners : mode'[p] = "up" /\ row'[q] = Claimed(s, p)
  BY <1>1, RowSteps DEF RowStep
<1>4. row'[q] = s
  BY <1>3, UpdateFields DEF RowMove, Settled
<1>5. CASE Kept(q, s)
  <2>1. /\ row[q].status \in Settled /\ row[q].reason = "turn"
        /\ row'[q].run = row[q].run /\ row'[q].status = row[q].status
    BY <1>4, <1>5 DEF Kept
  <2>2. Backs(outcome, row[q].run, Verdict(row[q].status), q)
    BY <1>2, <2>1 DEF VerdictHasEvidence, Sole
  <2>3. \A r \in Runs : outcome[q][r] = Verdict(row[q].status)
                        => outcome'[q][r] = Verdict(row[q].status)
    BY <1>1, EventsStay
  <2>4. row[q].run \in Runs \cup {NoRun}
    BY DEF RunsOK
  <2> QED
    BY <2>1, <2>2, <2>3, <2>4
<1>6. ASSUME NEW result \in {"completed", "failed"}, Concluded(q, s, result)
      PROVE  Backs(outcome', row'[q].run, Verdict(row'[q].status), q)
  <2>1. Backs(outcome', s.run, result, q)
    BY <1>2, <1>6, ConcludedHasEvidence
  <2>2. Verdict(s.status) = result
    BY <1>6 DEF Concluded
  <2> QED
    BY <1>4, <2>1, <2>2
<1>7. Kept(q, s) \/ \E result \in {"completed", "failed"} : Concluded(q, s, result)
  BY <1>3, <1>4 DEF RowMove, Admitted, Dropped, GivenUp, GivenBack, Accepted,
                    Settled
<1> QED
  BY <1>5, <1>6, <1>7

-----------------------------------------------------------------------------
(* The theorems                                                            *)

TurnInv == /\ BudgetInv
           /\ RunsOK /\ SessionsOK
           /\ Counted /\ Leased /\ Once
           /\ Carried /\ OneTurn
           /\ VerdictHasEvidence

LEMMA InitTurns == Init => TurnInv
<1> SUFFICES ASSUME Init
             PROVE  TurnInv
  OBVIOUS
<1>1. BudgetInv
  BY InitBudget
<1>2. /\ row = [q \in Requests |-> NoRow]
      /\ calls = {} /\ turns = {} /\ lastRun = 0
      /\ slot = [o \in Owners |-> [c \in Lanes |-> EmptySlot]]
      /\ outcome = [q \in Requests |-> [r \in Runs |-> "none"]]
  BY DEF Init
<1>3. /\ \A q \in Requests : row[q].status = "none" /\ row[q].run = NoRun
      /\ \A o \in Owners, c \in Lanes : /\ ~ slot[o][c].alive
                                        /\ slot[o][c].run = 0
      /\ \A q \in Requests, r \in Runs : outcome[q][r] = "none"
  BY <1>2 DEF NoRow, EmptySlot, NoRun
<1>4. RunsOK /\ SessionsOK
  BY <1>2, <1>3 DEF RunsOK, SessionsOK
<1>5. \A o \in Owners, q \in Requests : ~ Touched(o, q)
  BY QueueAssumption, <1>2, <1>3 DEF Touched, Told, Taking
<1>6. Counted /\ Leased /\ Once
  BY <1>3, <1>5 DEF Counted, Leased, Once, InFlight, Touched
<1>7. Carried /\ OneTurn /\ VerdictHasEvidence
  BY <1>2, <1>3 DEF Carried, OneTurn, VerdictHasEvidence, Settled
<1> QED
  BY <1>1, <1>4, <1>6, <1>7 DEF TurnInv

LEMMA NextKeepsTurns == TurnInv /\ [Next]_vars => TurnInv'
<1> SUFFICES ASSUME TurnInv, [Next]_vars
             PROVE  TurnInv'
  OBVIOUS
<1>1. /\ BudgetInv /\ QueueInv /\ TypeOK
      /\ RunsOK /\ SessionsOK /\ Counted /\ Leased /\ Once
      /\ Carried /\ OneTurn /\ VerdictHasEvidence
  BY DEF TurnInv, BudgetInv, QueueInv, TableInv
<1>2. BudgetInv'
  BY <1>1, NextKeepsBudgetInv
<1>3. TypeOK' /\ Lives'
  BY <1>2 DEF BudgetInv, QueueInv, TableInv
<1>4. RunsOK' /\ SessionsOK'
  BY <1>1, <1>3, NextKeepsRuns, NextKeepsSessions
<1>5. Counted' /\ Leased' /\ Once'
  BY <1>1, NextKeepsCounted, NextKeepsLeased, NextKeepsOnce
<1>6. Carried' /\ OneTurn' /\ VerdictHasEvidence'
  BY <1>1, <1>3, <1>4, NextKeepsCarried, NextKeepsOneTurn, NextKeepsVerdicts
<1> QED
  BY <1>2, <1>4, <1>5, <1>6 DEF TurnInv

\* A verdict agrees with the first stored event of its turn, whether the live
\* callback, a child that could not be spawned or a later sweep settled it.
THEOREM VerdictsAreEvident == Spec => []VerdictHasEvidence
<1>1. TurnInv => VerdictHasEvidence
  BY DEF TurnInv
<1> QED
  BY <1>1, InitTurns, NextKeepsTurns, PTL DEF Spec

\* A lane runs one model turn at a time, across retries, lost callbacks,
\* crashes and recoveries.
THEOREM LanesRunOneTurn == Spec => []LaneRunsOneTurn
<1>1. TurnInv => LaneRunsOneTurn
  <2> SUFFICES ASSUME TurnInv, stalls = 0,
                      Overlap => /\ \A o \in Owners : mode[o] # "stopping"
                                 /\ \A q \in Immediate : started[q] <= 1,
                      NEW t \in turns, NEW u \in turns,
                      LaneOf[t.req] = LaneOf[u.req]
               PROVE  t = u
    BY DEF LaneRunsOneTurn
  <2>1. /\ OneTurn /\ SessionsOK
        /\ \A x \in turns : /\ x.owner \in Owners /\ x.req \in Requests
                            /\ LaneOf[x.req] \in Lanes
    BY QueueAssumption
       DEF TurnInv, BudgetInv, QueueInv, TableInv, TypeOK
  <2>2. \A x \in turns : Steady(x)
    BY <2>1 DEF SessionsOK, Alive, Steady
  <2> QED
    BY <2>1, <2>2 DEF OneTurn
<1> QED
  BY <1>1, InitTurns, NextKeepsTurns, PTL DEF Spec
=============================================================================

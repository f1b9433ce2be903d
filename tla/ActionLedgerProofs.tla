------------------------- MODULE ActionLedgerProofs -------------------------
(***************************************************************************)
(* Theorems about ActionLedger: its types, that the last claim decides,    *)
(* that what is called found names its issue, and that the ledger          *)
(* implements OneEffect.                                                   *)
(***************************************************************************)
EXTENDS ActionLedger, FiniteSetTheorems, TLAPS

-----------------------------------------------------------------------------
(* Types                                                                   *)

\* Every UPDATE of an action leaves an action.
LEMMA RowTypes ==
    ASSUME NEW r \in Action, NEW at \in Nat
    PROVE  /\ \A st \in Statuses : Result(r, st) \in Action
           /\ \A st \in Statuses : Taken(r, st, at) \in Action
           /\ InDoubt(r, at) \in Action
           /\ Repairing(r, at) \in Action
           /\ Recovered(r, at) \in Action
           /\ Repaired(r) \in Action
           /\ RetryOrBlock(r, at) \in Action
           /\ \A k \in Issues : Dispatched(r, k) \in Action
<1> USE DEF Action, Statuses, Claimed
<1>0. /\ r.claims + 1 \in Nat /\ r.repairs + 1 \in Nat /\ at + Backoff \in Nat
      /\ r.claims \in Nat /\ r.repairs \in Nat
  BY LedgerAssumption
<1>1. \A st \in Statuses : Result(r, st) \in Action BY DEF Result
<1>2. \A st \in Statuses : Taken(r, st, at) \in Action
  <2> TAKE st \in Statuses
  <2> DEFINE n == r.claims + 1
  <2>1. Taken(r, st, at) =
          [r EXCEPT !.status = st, !.claims = n, !.attempt = n, !.since = at]
    BY DEF Taken
  <2>2. n \in Nat BY <1>0
  <2> HIDE DEF n
  <2> QED BY <2>1, <2>2
<1>3. InDoubt(r, at) \in Action BY DEF InDoubt, Result
<1>4. Repairing(r, at) \in Action
  <2> DEFINE t == Taken(r, "repairing", at)
  <2>1. t \in Action BY <1>2
  <2> HIDE DEF t
  <2>2. [t EXCEPT !.repairs = r.repairs + 1, !.repair = 0] \in Action BY <1>0, <2>1
  <2> QED BY <2>2 DEF Repairing, t
<1>5. Recovered(r, at) \in Action BY DEF Recovered, Result
<1>6. Repaired(r) \in Action BY DEF Repaired, Result
<1>7. RetryOrBlock(r, at) \in Action
  <2>1. \A st \in Statuses, n \in Nat :
          [Result(r, st) EXCEPT !.repair = n, !.reconcile = 0] \in Action
    BY DEF Result
  <2>2. "repair_retry_wait" \in Statuses /\ "repair_blocked" \in Statuses
    OBVIOUS
  <2> HIDE DEF Action, Statuses, Claimed
  <2> QED BY <1>0, <2>1, <2>2 DEF RetryOrBlock
<1>8. \A k \in Issues : Dispatched(r, k) \in Action BY DEF Dispatched
<1> HIDE DEF Action, Statuses, Claimed
<1> QED BY <1>1, <1>2, <1>3, <1>4, <1>5, <1>6, <1>7, <1>8

\* What a probe concludes is an action too, and names no issue but one it read.
LEMMA ConcludedType ==
    ASSUME NEW r \in Action, NEW M \in SUBSET Match, NEW odd \in BOOLEAN, TypeOK
    PROVE  Concluded(r, M, odd) \in Action
<1> DEFINE m == CHOOSE m \in M : TRUE
<1>0. now + Delay \in Nat BY LedgerAssumption DEF TypeOK
<1>1. {"conflict", "succeeded", "partially_applied"} \subseteq Statuses
  BY DEF Statuses
<1>2. [Result(r, "conflict") EXCEPT !.reconcile = 0] \in Action
  BY <1>0, <1>1, RowTypes DEF Action
<1>3. InDoubt(r, now + Delay) \in Action BY <1>0, RowTypes
<1>4. ASSUME M # {}
      PROVE  [Result(r, m.verdict) EXCEPT !.node = m.on, !.reconcile = 0] \in Action
  <2>1. m \in Match BY <1>4
  <2>2. m.on \in Issues /\ m.verdict \in Statuses BY <1>1, <2>1 DEF Match
  <2> HIDE DEF m
  <2>3. Result(r, m.verdict) \in Action BY <1>0, <2>2, RowTypes
  <2> QED BY <2>2, <2>3 DEF Action
<1> QED BY <1>2, <1>3, <1>4 DEF Concluded

LEMMA VerdictType == \A k : Verdict(k) \in {"unknown", "succeeded", "partially_applied"}
BY DEF Verdict

\* The end of a call leaves an action and calls.
LEMMA RecordTypes ==
    ASSUME TypeOK, NEW c \in calls, NEW r \in Action, Record(c, r)
    PROVE  /\ row' \in [Actions -> Action] /\ calls' \in SUBSET Call
           /\ decider' \in [Actions -> Nat] /\ running' \in Passes \cup {NoPass}
           /\ UNCHANGED <<now, pass, crashes>>
<1>1. c \in Call /\ c.of \in Actions /\ c.by \in Nat /\ c.pass \in Passes \cup {NoPass}
  BY DEF TypeOK, Call
<1>2. row' = [row EXCEPT ![c.of] = r] \/ row' = row BY DEF Record
<1>3. decider' = [decider EXCEPT ![c.of] = c.by] \/ decider' = decider BY DEF Record
<1>4. calls' = calls \ {c} /\ running' = c.pass /\ UNCHANGED <<now, pass, crashes>>
  BY DEF Record
<1> QED BY <1>1, <1>2, <1>3, <1>4 DEF TypeOK

LEMMA CallTypes ==
    ASSUME TypeOK, NEW a \in Actions
    PROVE  \A op \in {"execute", "reconcile", "repair"},
              stage \in {"claimed", "search", "read"},
              p \in Passes \cup {NoPass}, at \in Nat :
                NewCall(op, a, stage, p, at) \in Call
<1>1. row[a].claims + 1 \in Nat /\ row[a].node \in {0} \cup Issues
  BY DEF TypeOK, Action
<1> QED BY <1>1 DEF NewCall, Call

\* Declarations, approvals and expiries.
LEMMA UserKeepsTypes ==
    ASSUME TypeOK,
           \/ \E a \in Actions : \/ Declare(a)
                                 \/ \E term \in Terms : Approve(a, term)
           \/ \E A \in SUBSET Actions : Expire(A)
    PROVE  TypeOK'
<1> USE DEF TypeOK, broker, gateway
<1>1. ASSUME NEW a \in Actions, Declare(a) PROVE TypeOK'
  <2>1. [row[a] EXCEPT !.status = "awaiting_approval"] \in Action
    BY DEF Action, Statuses
  <2>2. row' = [row EXCEPT ![a] = [row[a] EXCEPT !.status = "awaiting_approval"]]
    BY <1>1 DEF Declare
  <2> QED BY <1>1, <2>1, <2>2 DEF Declare
<1>2. ASSUME NEW a \in Actions, NEW term \in Terms, Approve(a, term) PROVE TypeOK'
  <2>1. now + term \in Nat BY LedgerAssumption
  <2> QED BY <1>2, <2>1 DEF Approve, Action, Statuses
<1>3. ASSUME NEW A \in SUBSET Actions, Expire(A) PROVE TypeOK'
  <2>1. \A a \in Actions : [row[a] EXCEPT !.status = "awaiting_approval"] \in Action
    BY DEF Action, Statuses
  <2>2. row' \in [Actions -> Action] BY <1>3, <2>1 DEF Expire
  <2>3. UNCHANGED <<now, calls, pass, running, transit, issue, made, meddling,
                    writes, decider, crashes>>
    BY <1>3 DEF Expire
  <2> QED BY <2>2, <2>3
<1> QED BY <1>1, <1>2, <1>3

\* Execution.
LEMMA ExecutionKeepsTypes ==
    ASSUME TypeOK,
           \/ \E a \in Actions : ClaimExecution(a)
           \/ \E c \in calls : Executes(c)
    PROVE  TypeOK'
<1> USE DEF broker, gateway
<1>s. Statuses \subseteq Statuses /\ {"executing", "failed"} \subseteq Statuses
  BY DEF Statuses, Claimed
<1>1. ASSUME NEW a \in Actions, ClaimExecution(a) PROVE TypeOK'
  <2>1. Taken(row[a], "executing", now) \in Action
    BY <1>s, RowTypes DEF TypeOK
  <2>2. NewCall("execute", a, "claimed", NoPass, now) \in Call
    BY CallTypes DEF TypeOK
  <2>3. row' = [row EXCEPT ![a] = Taken(row[a], "executing", now)]
    BY <1>1 DEF ClaimExecution
  <2> QED BY <1>1, <2>1, <2>2, <2>3 DEF ClaimExecution, TypeOK
<1>2. ASSUME NEW c \in calls, Executes(c) PROVE TypeOK'
  <2>0. /\ c \in Call /\ c.of \in Actions /\ c.by \in Nat
        /\ row[c.of] \in Action
    BY DEF TypeOK, Call
  <2>d. now + Delay \in Nat BY LedgerAssumption DEF TypeOK
  <2>1. ASSUME Post(c) PROVE TypeOK'
    <3>1. [c EXCEPT !.stage = "create"] \in Call BY <2>0 DEF Call
    <3>2. [kind |-> "create", of |-> c.of, by |-> c.by, on |-> 0] \in Request
      BY <2>0 DEF Request
    <3>3. calls' \in SUBSET Call BY <2>1, <3>1 DEF Post, Continue, TypeOK
    <3>4. transit' \in SUBSET Request BY <2>1, <3>2 DEF Post, TypeOK
    <3>5. UNCHANGED <<now, row, pass, running, issue, made, meddling, writes,
                      decider, crashes>>
      BY <2>1 DEF Post, Continue
    <3> QED BY <3>3, <3>4, <3>5 DEF TypeOK
  <2>2. ASSUME PostDenied(c) PROVE TypeOK'
    <3>1. Result(row[c.of], "failed") \in Action BY <1>s, <2>0, <2>d, RowTypes
    <3>2. Record(c, Result(row[c.of], "failed")) BY <2>2 DEF PostDenied
    <3>3. transit' \subseteq transit /\ UNCHANGED <<issue, made, meddling, writes>>
      BY <2>2 DEF PostDenied
    <3> QED BY <3>1, <3>2, <3>3, RecordTypes DEF TypeOK
  <2>3. ASSUME PostUnclear(c) PROVE TypeOK'
    <3>1. InDoubt(row[c.of], now + Delay) \in Action BY <2>0, <2>d, RowTypes
    <3>2. Record(c, InDoubt(row[c.of], now + Delay)) /\ UNCHANGED <<gateway, writes>>
      BY <2>3 DEF PostUnclear
    <3> QED BY <3>1, <3>2, RecordTypes DEF TypeOK
  <2>4. ASSUME PostAnswered(c) PROVE TypeOK'
    <3>1. PICK k \in Issues :
            IF Holds(c)
            THEN /\ row' = [row EXCEPT ![c.of] = Dispatched(row[c.of], k)]
                 /\ Continue(c, [c EXCEPT !.stage = "read", !.on = k])
            ELSE /\ calls' = calls \ {c}
                 /\ UNCHANGED <<now, row, pass, running, decider, crashes>>
      BY <2>4 DEF PostAnswered
    <3>2. Dispatched(row[c.of], k) \in Action BY <2>0, <2>d, RowTypes
    <3>3. [c EXCEPT !.stage = "read", !.on = k] \in Call BY <2>0 DEF Call
    <3>4. row' \in [Actions -> Action] BY <3>1, <3>2 DEF TypeOK
    <3>5. calls' \in SUBSET Call BY <3>1, <3>3 DEF Continue, TypeOK
    <3>6. UNCHANGED <<now, pass, running, decider, crashes>>
      BY <3>1 DEF Continue
    <3>7. UNCHANGED <<gateway, writes>> BY <2>4 DEF PostAnswered
    <3> QED BY <3>4, <3>5, <3>6, <3>7 DEF TypeOK
  <2>5. ASSUME ReadBack(c) PROVE TypeOK'
    <3>1. InDoubt(row[c.of], now + Delay) \in Action BY <2>0, <2>d, RowTypes
    <3>0. Verdict(c.on) \in Statuses BY VerdictType DEF Statuses
    <3>2. Result(row[c.of], Verdict(c.on)) \in Action BY <2>0, <2>d, <3>0, RowTypes
    <3>3. /\ \/ Record(c, Result(row[c.of], Verdict(c.on)))
             \/ Record(c, InDoubt(row[c.of], now + Delay))
          /\ UNCHANGED <<gateway, writes>>
      BY <2>5 DEF ReadBack
    <3> QED BY <3>1, <3>2, <3>3, RecordTypes DEF TypeOK
  <2> QED BY <1>2, <2>1, <2>2, <2>3, <2>4, <2>5 DEF Executes
<1> QED BY <1>1, <1>2

\* Reconciliation.
LEMMA ProbesKeepTypes ==
    ASSUME TypeOK, NEW c \in calls, Probes(c)
    PROVE  TypeOK'
<1> USE DEF broker, gateway
<1>0. /\ c \in Call /\ c.of \in Actions /\ row[c.of] \in Action
      /\ c.matches \in SUBSET Match /\ c.odd \in BOOLEAN /\ c.left \in SUBSET Issues
  BY DEF TypeOK, Call
<1>d. now + Delay \in Nat BY LedgerAssumption DEF TypeOK
<1>e. {} \in SUBSET Match OBVIOUS
<1>1. ASSUME NEW found \in SUBSET Issues, SearchAnswered(c, found) PROVE TypeOK'
  <2>1. UNCHANGED <<gateway, writes>> BY <1>1 DEF SearchAnswered
  <2>2. CASE Record(c, Concluded(row[c.of], {}, FALSE))
    <3>1. Concluded(row[c.of], {}, FALSE) \in Action BY <1>0, <1>e, ConcludedType
    <3> QED BY <2>1, <2>2, <3>1, RecordTypes DEF TypeOK
  <2>3. CASE Continue(c, [c EXCEPT !.stage = "get", !.left = found]) /\ UNCHANGED row
    <3>1. [c EXCEPT !.stage = "get", !.left = found] \in Call BY <1>0 DEF Call
    <3>2. calls' \in SUBSET Call BY <2>3, <3>1 DEF Continue, TypeOK
    <3> QED BY <2>1, <2>3, <3>2 DEF Continue, TypeOK
  <2> QED BY <1>1, <2>2, <2>3 DEF SearchAnswered
<1>2. ASSUME NEW k \in Issues, CandidateRead(c, k) PROVE TypeOK'
  <2>0. PICK M \in SUBSET Match, odd \in BOOLEAN, L \in SUBSET Issues :
           \/ Record(c, Concluded(row[c.of], M, odd))
           \/ /\ Continue(c, [c EXCEPT !.left = L, !.matches = M, !.odd = odd])
              /\ UNCHANGED row
    <3> DEFINE d == [c EXCEPT !.left = c.left \ {k},
                       !.matches = IF issue[k].valid
                                   THEN c.matches \cup {[on |-> k, verdict |-> Verdict(k)]}
                                   ELSE c.matches,
                       !.odd = IF issue[k].valid THEN c.odd ELSE TRUE]
    <3>1. \/ Record(c, Concluded(row[c.of], d.matches, d.odd))
          \/ Continue(c, d) /\ UNCHANGED row
      BY <1>2 DEF CandidateRead
    <3>2. issue[k].valid => Verdict(k) \in {"succeeded", "partially_applied"}
      BY DEF Verdict
    <3>3. issue[k].valid => [on |-> k, verdict |-> Verdict(k)] \in Match
      BY <3>2 DEF Match
    <3> DEFINE M == IF issue[k].valid
                    THEN c.matches \cup {[on |-> k, verdict |-> Verdict(k)]}
                    ELSE c.matches
               odd == IF issue[k].valid THEN c.odd ELSE TRUE
    <3>4. M \in SUBSET Match /\ odd \in BOOLEAN /\ c.left \ {k} \in SUBSET Issues
      BY <1>0, <3>3
    <3>5. d = [c EXCEPT !.left = c.left \ {k}, !.matches = M, !.odd = odd] OBVIOUS
    <3> HIDE DEF d, M, odd
    <3>6. d.matches = M /\ d.odd = odd BY <1>0, <3>5 DEF Call
    <3> QED BY <3>1, <3>4, <3>5, <3>6
  <2>1. UNCHANGED <<gateway, writes>> BY <1>2 DEF CandidateRead
  <2>2. CASE Record(c, Concluded(row[c.of], M, odd))
    <3>1. Concluded(row[c.of], M, odd) \in Action BY <1>0, ConcludedType
    <3> QED BY <2>1, <2>2, <3>1, RecordTypes DEF TypeOK
  <2>3. CASE /\ Continue(c, [c EXCEPT !.left = L, !.matches = M, !.odd = odd])
             /\ UNCHANGED row
    <3>1. [c EXCEPT !.left = L, !.matches = M, !.odd = odd] \in Call BY <1>0 DEF Call
    <3>2. calls' \in SUBSET Call BY <2>3, <3>1 DEF Continue, TypeOK
    <3> QED BY <2>1, <2>3, <3>2 DEF Continue, TypeOK
  <2> QED BY <2>0, <2>2, <2>3
<1>3. ASSUME ProbeFails(c) PROVE TypeOK'
  <2>1. InDoubt(row[c.of], now + Delay) \in Action BY <1>0, <1>d, RowTypes
  <2>2. Record(c, InDoubt(row[c.of], now + Delay)) /\ UNCHANGED <<gateway, writes>>
    BY <1>3 DEF ProbeFails
  <2> QED BY <2>1, <2>2, RecordTypes DEF TypeOK
<1> QED BY <1>1, <1>2, <1>3 DEF Probes

\* What a repair may leave of its row.
RepairEnds(c) ==
    {Repaired(row[c.of]), InDoubt(row[c.of], c.at + Delay),
     RetryOrBlock(row[c.of], c.at),
     [Result(row[c.of], "repair_blocked") EXCEPT !.repair = 0, !.reconcile = 0]}

\* A repair ends so, or goes on.
LEMMA RepairEndsOrGoesOn ==
    ASSUME TypeOK, NEW c \in calls, Repairs(c)
    PROVE  \/ \E r \in RepairEnds(c) :
                 /\ Record(c, r)
                 /\ UNCHANGED <<writes, issue, made, meddling>>
                 /\ transit' \subseteq transit
                 /\ c.op = "repair" \/ c.stage \in {"label", "verify"}
           \/ /\ c.op = "repair" /\ c.stage = "read" /\ c.on # 0
              /\ Verdict(c.on) = "partially_applied"
              /\ Continue(c, [c EXCEPT !.stage = "label"])
              /\ writes' = [writes EXCEPT ![c.of] = @ + 1]
              /\ transit' = transit \cup
                     {[kind |-> "label", of |-> c.of, by |-> c.by, on |-> c.on]}
              /\ UNCHANGED <<row, issue, made, meddling>>
           \/ /\ c.stage = "label" /\ Continue(c, [c EXCEPT !.stage = "verify"])
              /\ UNCHANGED <<row, gateway, writes>>
<1> USE DEF RepairEnds, gateway
<1>1. CASE RepairReads(c) BY <1>1 DEF RepairReads
<1>2. CASE LabelDenied(c) BY <1>2 DEF LabelDenied
<1>3. CASE RepairUnclear(c) BY <1>3 DEF RepairUnclear
<1>4. CASE LabelAnswered(c) BY <1>4 DEF LabelAnswered
<1>5. CASE RepairVerifies(c) BY <1>5 DEF RepairVerifies
<1> QED BY <1>1, <1>2, <1>3, <1>4, <1>5 DEF Repairs

LEMMA RepairEndsType ==
    ASSUME TypeOK, NEW c \in calls, NEW r \in RepairEnds(c)
    PROVE  r \in Action
<1>0. c.of \in Actions /\ row[c.of] \in Action /\ c.at \in Nat BY DEF TypeOK, Call
<1>1. c.at + Delay \in Nat BY <1>0, LedgerAssumption
<1>2. "repair_blocked" \in Statuses BY DEF Statuses
<1>3. Result(row[c.of], "repair_blocked") \in Action BY <1>0, <1>2, RowTypes
<1>4. [Result(row[c.of], "repair_blocked") EXCEPT !.repair = 0, !.reconcile = 0] \in Action
  BY <1>3 DEF Action
<1>5. /\ Repaired(row[c.of]) \in Action /\ RetryOrBlock(row[c.of], c.at) \in Action
  BY <1>0, RowTypes
<1>6. InDoubt(row[c.of], c.at + Delay) \in Action BY <1>0, <1>1, RowTypes
<1> QED BY <1>4, <1>5, <1>6 DEF RepairEnds

\* Repair.
LEMMA RepairsKeepTypes ==
    ASSUME TypeOK, NEW c \in calls, Repairs(c)
    PROVE  TypeOK'
<1> USE DEF gateway
<1>0. c \in Call /\ c.of \in Actions /\ c.by \in Nat /\ c.on \in {0} \cup Issues
  BY DEF TypeOK, Call
<1>1. ASSUME NEW r \in RepairEnds(c), Record(c, r), transit' \subseteq transit,
             UNCHANGED <<writes, issue, made, meddling>>
      PROVE  TypeOK'
  <2>1. r \in Action BY RepairEndsType
  <2> QED BY <1>1, <2>1, RecordTypes DEF TypeOK
<1>2. ASSUME Continue(c, [c EXCEPT !.stage = "label"]),
             writes' = [writes EXCEPT ![c.of] = @ + 1],
             transit' = transit \cup
                   {[kind |-> "label", of |-> c.of, by |-> c.by, on |-> c.on]},
             UNCHANGED <<row, issue, made, meddling>>
      PROVE  TypeOK'
  <2>1. [c EXCEPT !.stage = "label"] \in Call BY <1>0 DEF Call
  <2>2. [kind |-> "label", of |-> c.of, by |-> c.by, on |-> c.on] \in Request
    BY <1>0 DEF Request
  <2>3. calls' \in SUBSET Call BY <1>2, <2>1 DEF Continue, TypeOK
  <2>4. transit' \in SUBSET Request BY <1>2, <2>2 DEF TypeOK
  <2>5. writes' \in [Actions -> Nat] BY <1>0, <1>2 DEF TypeOK
  <2> QED BY <1>2, <2>3, <2>4, <2>5 DEF Continue, TypeOK
<1>3. ASSUME Continue(c, [c EXCEPT !.stage = "verify"]),
             UNCHANGED <<row, gateway, writes>>
      PROVE  TypeOK'
  <2>1. [c EXCEPT !.stage = "verify"] \in Call BY <1>0 DEF Call
  <2>2. calls' \in SUBSET Call BY <1>3, <2>1 DEF Continue, TypeOK
  <2> QED BY <1>3, <2>2 DEF Continue, TypeOK
<1> QED BY <1>1, <1>2, <1>3, RepairEndsOrGoesOn

\* The loops of the passes.
LEMMA PassesKeepTypes ==
    ASSUME TypeOK, NEW p \in Passes, PassStep(p)
    PROVE  TypeOK'
<1> USE DEF gateway
<1>0. /\ \A a \in Actions : row[a] \in Action
      /\ pass[p] \in Pass /\ pass[p].at \in Nat /\ now \in Nat
      /\ {"reconciling", "repair_blocked"} \subseteq Statuses
  BY DEF TypeOK, Pass, Statuses, Claimed
<1>v. ASSUME NEW a \in Actions, Visits(p, a)
      PROVE  pass' \in [Passes -> Pass]
  <2>1. [pass[p] EXCEPT !.left = pass[p].left \ {a}] \in Pass BY <1>0 DEF Pass
  <2>2. pass' = [pass EXCEPT ![p] = [pass[p] EXCEPT !.left = pass[p].left \ {a}]]
    BY <1>v DEF Visits
  <2> QED BY <2>1, <2>2 DEF TypeOK
<1>1. CASE BeginReconciliation(p)
  <2>1. row' \in [Actions -> Action]
    <3>1. \A a \in Actions : Recovered(row[a], now) \in Action BY <1>0, RowTypes
    <3> QED BY <1>0, <1>1, <3>1 DEF BeginReconciliation
  <2>2. pass' \in [Passes -> Pass]
    BY <1>0, <1>1 DEF BeginReconciliation, Pass, Orphans, TypeOK
  <2> QED BY <1>1, <2>1, <2>2 DEF BeginReconciliation, TypeOK
<1>2. CASE BeginRepair(p)
  <2>2. pass' \in [Passes -> Pass] BY <1>0, <1>2 DEF BeginRepair, Pass, TypeOK
  <2> QED BY <1>2, <2>2 DEF BeginRepair, TypeOK
<1>3. CASE PassEnds(p)
  <2>2. pass' \in [Passes -> Pass] BY <1>3 DEF PassEnds, NoWork, Pass, TypeOK
  <2> QED BY <1>3, <2>2 DEF PassEnds, TypeOK
<1>4. ASSUME NEW a \in Actions, ReconcileNext(p, a) PROVE TypeOK'
  <2>1. pass' \in [Passes -> Pass] BY <1>v, <1>4 DEF ReconcileNext
  <2>2. Taken(row[a], "reconciling", pass[p].at) \in Action BY <1>0, RowTypes
  <2>3. NewCall("reconcile", a, "search", p, pass[p].at) \in Call BY <1>0, CallTypes
  <2>4. \/ /\ row' = [row EXCEPT ![a] = Taken(row[a], "reconciling", pass[p].at)]
           /\ calls' = calls \cup {NewCall("reconcile", a, "search", p, pass[p].at)}
           /\ running' = NoPass
        \/ UNCHANGED <<row, calls, running>>
    BY <1>4 DEF ReconcileNext
  <2>5. UNCHANGED <<now, gateway, writes, decider, crashes>> BY <1>4 DEF ReconcileNext
  <2> QED BY <2>1, <2>2, <2>3, <2>4, <2>5 DEF TypeOK
<1>5. ASSUME NEW a \in Actions, RepairNext(p, a) PROVE TypeOK'
  <2>1. pass' \in [Passes -> Pass] BY <1>v, <1>5 DEF RepairNext
  <2>2. /\ Repairing(row[a], pass[p].at) \in Action
        /\ [row[a] EXCEPT !.status = "repair_blocked", !.repair = 0] \in Action
    <3>1. Repairing(row[a], pass[p].at) \in Action BY <1>0, RowTypes
    <3>2. [row[a] EXCEPT !.status = "repair_blocked", !.repair = 0] \in Action
      BY <1>0 DEF Action
    <3> QED BY <3>1, <3>2
  <2>3. NewCall("repair", a, "read", p, pass[p].at) \in Call BY <1>0, CallTypes
  <2>4. \/ /\ row' = [row EXCEPT ![a] = Repairing(row[a], pass[p].at)]
           /\ calls' = calls \cup {NewCall("repair", a, "read", p, pass[p].at)}
           /\ running' = NoPass
        \/ /\ row' = [row EXCEPT ![a] =
                          [row[a] EXCEPT !.status = "repair_blocked", !.repair = 0]]
           /\ UNCHANGED <<calls, running>>
        \/ UNCHANGED <<row, calls, running>>
    BY <1>5 DEF RepairNext
  <2>5. UNCHANGED <<now, gateway, writes, decider, crashes>> BY <1>5 DEF RepairNext
  <2> QED BY <2>1, <2>2, <2>3, <2>4, <2>5 DEF TypeOK
<1> QED BY <1>1, <1>2, <1>3, <1>4, <1>5 DEF PassStep

\* The gateway, people, crashes and time.
LEMMA WorldKeepsTypes ==
    ASSUME TypeOK,
           \/ \E q \in transit, labelled \in BOOLEAN : Arrives(q, labelled)
           \/ \E k \in Issues : Meddle(k)
           \/ Crash \/ Advance
    PROVE  TypeOK'
<1> USE DEF gateway, broker
<1>o. ASSUME NEW k \in Issues, NEW i \in Issue, Opens(k, i)
      PROVE  issue' \in [Issues -> Issue]
  BY <1>o DEF Opens, TypeOK
<1>1. ASSUME NEW q \in transit, NEW labelled \in BOOLEAN, Arrives(q, labelled)
      PROVE  TypeOK'
  <2>0. q \in Request /\ q.of \in Actions /\ q.by \in Nat BY DEF TypeOK, Request
  <2>1. CASE q.kind = "create"
    <3> DEFINE i == [of |-> q.of, by |-> q.by, valid |-> TRUE, labelled |-> labelled]
    <3>1. i \in Issue BY <2>0 DEF Issue
    <3>2. \E k \in Issues : Opens(k, i) BY <1>1, <2>1 DEF Arrives
    <3> HIDE DEF i
    <3>3. issue' \in [Issues -> Issue] BY <1>o, <3>1, <3>2
    <3>4. made' \in [Actions -> Nat] BY <1>1, <2>0, <2>1 DEF Arrives, TypeOK
    <3> QED BY <1>1, <3>3, <3>4 DEF Arrives, TypeOK
  <2>2. CASE q.kind # "create"
    <3>1. issue' = [issue EXCEPT ![q.on].labelled = @ \/ labelled] /\ made' = made
      BY <1>1, <2>2 DEF Arrives
    <3>2. issue' \in [Issues -> Issue]
      <4>1. \A k \in Issues : [issue[k] EXCEPT !.labelled = @ \/ labelled] \in Issue
        BY DEF TypeOK, Issue
      <4> QED BY <3>1, <4>1 DEF TypeOK
    <3> QED BY <1>1, <3>1, <3>2 DEF Arrives, TypeOK
  <2> QED BY <2>1, <2>2
<1>2. ASSUME NEW k \in Issues, Meddle(k) PROVE TypeOK'
  <2>0. /\ issue[k] \in Issue
        /\ [issue[k] EXCEPT !.valid = FALSE] \in Issue
        /\ [issue[k] EXCEPT !.labelled = FALSE] \in Issue
        /\ [issue[k] EXCEPT !.by = 0] \in Issue
    BY DEF TypeOK, Issue
  <2>1. issue' \in [Issues -> Issue]
    <3>1. CASE \E j \in Issues : Opens(j, [issue[k] EXCEPT !.by = 0])
      BY <1>o, <2>0, <3>1
    <3>2. CASE issue' = [issue EXCEPT ![k].valid = FALSE] BY <2>0, <3>2 DEF TypeOK
    <3>3. CASE issue' = [issue EXCEPT ![k].labelled = FALSE] BY <2>0, <3>3 DEF TypeOK
    <3> QED BY <1>2, <3>1, <3>2, <3>3 DEF Meddle
  <2>2. meddling' \in Nat BY <1>2 DEF Meddle, TypeOK
  <2> QED BY <1>2, <2>1, <2>2 DEF Meddle, TypeOK
<1>3. CASE Crash
  <2>1. pass' \in [Passes -> Pass] BY <1>3 DEF Crash, NoWork, Pass
  <2>2. crashes' \in Nat BY <1>3 DEF Crash, TypeOK
  <2> QED BY <1>3, <2>1, <2>2 DEF Crash, TypeOK
<1>4. CASE Advance
  <2>1. now' \in Nat BY <1>4 DEF Advance, TypeOK
  <2> QED BY <1>4, <2>1 DEF Advance, TypeOK
<1> QED BY <1>1, <1>2, <1>3, <1>4

LEMMA InitTypes == Init => TypeOK
<1> SUFFICES ASSUME Init PROVE TypeOK OBVIOUS
<1>1. Undeclared \in Action BY DEF Undeclared, Action, Statuses
<1>2. NoWork \in Pass BY DEF NoWork, Pass
<1>3. NoIssue \in Issue BY DEF NoIssue, Issue
<1> QED BY <1>1, <1>2, <1>3 DEF Init, TypeOK

LEMMA StepTypes == TypeOK /\ [Next]_vars => TypeOK'
<1> SUFFICES ASSUME TypeOK, [Next]_vars PROVE TypeOK' OBVIOUS
<1>1. CASE UNCHANGED vars BY <1>1 DEF vars, TypeOK
<1>2. ASSUME NEW a \in Actions,
             \/ Declare(a) \/ ClaimExecution(a)
             \/ \E term \in Terms : Approve(a, term)
             \/ Lapsed(a) /\ Expire({a})
      PROVE  TypeOK'
  BY <1>2, UserKeepsTypes, ExecutionKeepsTypes
<1>3. CASE Expire({a \in Actions : Lapsed(a)}) BY <1>3, UserKeepsTypes
<1>4. ASSUME NEW c \in calls, Executes(c) \/ Probes(c) \/ Repairs(c) PROVE TypeOK'
  BY <1>4, ExecutionKeepsTypes, ProbesKeepTypes, RepairsKeepTypes
<1>5. ASSUME NEW p \in Passes, PassStep(p) PROVE TypeOK' BY <1>5, PassesKeepTypes
<1> QED BY <1>1, <1>2, <1>3, <1>4, <1>5, WorldKeepsTypes DEF Next

\* The table, the calls and the repository are well formed (ActionLedger).
THEOREM TypeCorrect == Spec => []TypeOK
BY InitTypes, StepTypes, PTL DEF Spec

-----------------------------------------------------------------------------
(* The moves of the ledger.  Every step is one of these, which say only    *)
(* what the invariants below depend on.                                    *)

Open == {"none", "awaiting_approval", "queued"}

\* The issues a call has heard of.
Evidence(c) == {k \in Issues : k = c.on \/ k \in c.left \/ \E m \in c.matches : m.on = k}

\* Rows move before their first claim, or nothing moves.
StaysOpen ==
    /\ \A a \in Actions :
          \/ row'[a] = row[a]
          \/ /\ row[a].status \in Open /\ row'[a].status \in Open
             /\ row'[a].claims = row[a].claims /\ row'[a].node = row[a].node
             /\ row'[a].repairs = row[a].repairs
    /\ UNCHANGED <<calls, transit, issue, made, decider, writes>>

\* A row is claimed for a new call.
Claims(a) ==
    \E s \in Action, c \in Call :
       /\ row' = [row EXCEPT ![a] = s]
       /\ s.claims = row[a].claims + 1 /\ s.attempt = s.claims /\ s.node = row[a].node
       /\ calls' = calls \cup {c}
       /\ c.of = a /\ c.by = s.claims /\ c.on = s.node /\ c.left = {} /\ c.matches = {}
       /\ \/ /\ row[a].status = "queued" /\ s.status = "executing"
             /\ c.op = "execute" /\ c.stage = "claimed" /\ s.repairs = row[a].repairs
          \/ /\ row[a].status = "unknown" /\ s.status = "reconciling"
             /\ c.op = "reconcile" /\ c.stage = "search" /\ s.repairs = row[a].repairs
          \/ /\ row[a].status \in {"partially_applied", "repair_retry_wait"}
             /\ s.status = "repairing" /\ c.op = "repair" /\ c.stage = "read"
             /\ s.repairs = row[a].repairs + 1 /\ row[a].repairs < MaxRepairs
       /\ UNCHANGED <<transit, issue, made, decider, writes>>

\* A call ends with the result r.
Results(c, r) ==
    \/ r.status = "unknown" /\ r.node = row[c.of].node
    \/ /\ r.status = "failed" /\ r.node = row[c.of].node
       /\ c.stage = "create" /\ Sent(c) # {} /\ transit' = transit \ Sent(c)
    \/ /\ r.status \in {"succeeded", "partially_applied"} /\ r.node = row[c.of].node
       /\ c.op = "execute" /\ c.stage = "read"
    \/ /\ r.status \in {"succeeded", "repair_retry_wait", "repair_blocked"}
       /\ r.node = row[c.of].node
       /\ c.op = "repair" \/ c.stage \in {"label", "verify"}
    \/ /\ r.status \in {"succeeded", "partially_applied"}
       /\ r.node \in Evidence(c) /\ c.stage \in {"search", "get"}
    \/ /\ r.status = "conflict" /\ r.node = row[c.of].node
       /\ Evidence(c) # {} /\ c.stage \in {"search", "get"}
Records(c) ==
    \E r \in Action :
       /\ Record(c, r) /\ Results(c, r)
       /\ r.claims = row[c.of].claims /\ r.repairs = row[c.of].repairs
       /\ transit' \subseteq transit /\ UNCHANGED <<issue, made, writes>>

\* A call goes on.
GoesOn(c) ==
    \E d \in Call :
       /\ calls' = (calls \ {c}) \cup {d}
       /\ d.of = c.of /\ d.by = c.by /\ d.op = c.op /\ d.stage # "claimed"
       /\ \A k \in Evidence(d) : k \in Evidence(c) \/ issue[k].of = c.of
       /\ \/ /\ c.stage = "claimed" /\ d.stage = "create"
             /\ transit' = transit \cup
                    {[kind |-> "create", of |-> c.of, by |-> c.by, on |-> 0]}
             /\ UNCHANGED <<row, writes>>
          \/ /\ c.stage = "create" /\ d.stage = "read"
             /\ \E k \in Issues : /\ issue[k].of = c.of
                                  /\ row' = [row EXCEPT ![c.of] = Dispatched(row[c.of], k)]
             /\ UNCHANGED <<transit, writes>>
          \/ /\ c.stage \in {"search", "get"} /\ d.stage = "get"
             /\ UNCHANGED <<row, transit, writes>>
          \/ /\ c.op = "repair" /\ c.stage = "read" /\ d.stage = "label"
             /\ writes' = [writes EXCEPT ![c.of] = @ + 1]
             /\ transit' = transit \cup
                    {[kind |-> "label", of |-> c.of, by |-> c.by, on |-> c.on]}
             /\ UNCHANGED row
          \/ /\ c.stage = "label" /\ d.stage = "verify"
             /\ UNCHANGED <<row, transit, writes>>
       /\ UNCHANGED <<issue, made, decider>>

\* Calls end without a result.
Drops == /\ calls' \subseteq calls
         /\ UNCHANGED <<row, transit, issue, made, decider, writes>>

\* Old claims are given up.
GivesUp ==
    /\ \A a \in Actions :
          \/ row'[a] = row[a]
          \/ row[a].status \in Claimed /\ row'[a] = Recovered(row[a], now)
    /\ UNCHANGED <<calls, transit, issue, made, decider, writes>>

\* A repair is refused.
Blocks(a) ==
    /\ row[a].status \in {"partially_applied", "repair_retry_wait"}
    /\ row' = [row EXCEPT ![a] = [row[a] EXCEPT !.status = "repair_blocked", !.repair = 0]]
    /\ UNCHANGED <<calls, transit, issue, made, decider, writes>>

\* The repository changes.
WorldMoves ==
    /\ \/ \E q \in transit, labelled \in BOOLEAN : Arrives(q, labelled)
       \/ \E k \in Issues : Meddle(k)
    /\ UNCHANGED <<row, calls, decider, writes>>

Moves == \/ StaysOpen \/ Drops \/ GivesUp \/ WorldMoves
         \/ \E a \in Actions : Claims(a) \/ Blocks(a)
         \/ \E c \in calls : Records(c) \/ GoesOn(c)

\* What the results leave of a row: its claims, its repairs and its issue.
LEMMA ResultFields ==
    ASSUME NEW r \in Action, NEW st
    PROVE  /\ Result(r, st).status = st /\ Result(r, st).claims = r.claims
           /\ Result(r, st).node = r.node /\ Result(r, st).repairs = r.repairs
BY DEF Result, Action
LEMMA InDoubtFields ==
    ASSUME NEW r \in Action, NEW at
    PROVE  /\ InDoubt(r, at).status = "unknown" /\ InDoubt(r, at).claims = r.claims
           /\ InDoubt(r, at).node = r.node /\ InDoubt(r, at).repairs = r.repairs
BY DEF InDoubt, Result, Action
LEMMA RepairedFields ==
    ASSUME NEW r \in Action
    PROVE  /\ Repaired(r).status = "succeeded" /\ Repaired(r).claims = r.claims
           /\ Repaired(r).node = r.node /\ Repaired(r).repairs = r.repairs
BY DEF Repaired, Result, Action
LEMMA RetryFields ==
    ASSUME NEW r \in Action, NEW at
    PROVE  /\ RetryOrBlock(r, at).status \in {"repair_retry_wait", "repair_blocked"}
           /\ RetryOrBlock(r, at).claims = r.claims
           /\ RetryOrBlock(r, at).node = r.node
           /\ RetryOrBlock(r, at).repairs = r.repairs
BY DEF RetryOrBlock, Result, Action
LEMMA RecoveredFields ==
    ASSUME NEW r \in Action, NEW at
    PROVE  /\ Recovered(r, at).status = "unknown" /\ Recovered(r, at).claims = r.claims
           /\ Recovered(r, at).node = r.node /\ Recovered(r, at).repairs = r.repairs
BY DEF Recovered, Result, Action

\* A probe concludes from what it has heard of.
LEMMA ConcludedFields ==
    ASSUME TypeOK, NEW r \in Action, NEW M \in SUBSET Match, NEW odd \in BOOLEAN
    PROVE  LET s == Concluded(r, M, odd) IN
           /\ s.claims = r.claims /\ s.repairs = r.repairs
           /\ \/ s.status = "unknown" /\ s.node = r.node
              \/ s.status = "conflict" /\ s.node = r.node /\ M # {}
              \/ /\ s.status \in {"succeeded", "partially_applied"}
                 /\ \E m \in M : s.node = m.on
<1> DEFINE s == Concluded(r, M, odd)
<1>1. CASE Cardinality(M) > 1
  <2>1. M # {} BY <1>1, FS_EmptySet
  <2>2. s = [Result(r, "conflict") EXCEPT !.reconcile = 0] BY <1>1 DEF Concluded
  <2>3. s.claims = r.claims /\ s.status = "conflict" /\ s.node = r.node
        /\ s.repairs = r.repairs
    BY <2>2 DEF Result, Action
  <2> QED BY <2>1, <2>3
<1>2. CASE ~ (Cardinality(M) > 1) /\ (odd \/ M = {})
  <2>1. s = InDoubt(r, now + Delay) BY <1>2 DEF Concluded
  <2> QED BY <2>1, InDoubtFields
<1>3. CASE ~ (Cardinality(M) > 1) /\ ~ odd /\ M # {}
  <2> DEFINE m == CHOOSE m \in M : TRUE
  <2>1. m \in M BY <1>3
  <2>2. s = [Result(r, m.verdict) EXCEPT !.node = m.on, !.reconcile = 0]
    BY <1>3 DEF Concluded
  <2>3. m.verdict \in {"succeeded", "partially_applied"} BY <2>1 DEF Match
  <2> HIDE DEF m
  <2>4. s.claims = r.claims /\ s.status = m.verdict /\ s.node = m.on
        /\ s.repairs = r.repairs
    BY <2>2 DEF Result, Action
  <2> QED BY <2>1, <2>3, <2>4
<1> QED BY <1>1, <1>2, <1>3

\* Declarations, approvals, expiries and claims are moves.
LEMMA UserMoves ==
    ASSUME TypeOK,
           \/ \E a \in Actions : \/ Declare(a) \/ ClaimExecution(a)
                                 \/ \E term \in Terms : Approve(a, term)
                                 \/ Lapsed(a) /\ Expire({a})
           \/ Expire({a \in Actions : Lapsed(a)})
    PROVE  StaysOpen \/ \E a \in Actions : Claims(a)
<1> USE DEF gateway, broker
<1>0. \A a \in Actions : row[a] \in Action BY DEF TypeOK
<1>1. ASSUME NEW a \in Actions, Declare(a) PROVE StaysOpen
  <2>1. row' = [row EXCEPT ![a] = [row[a] EXCEPT !.status = "awaiting_approval"]]
    BY <1>1 DEF Declare
  <2>2. row[a].status = "none" BY <1>1 DEF Declare
  <2>3. UNCHANGED <<calls, transit, issue, made, decider, writes>> BY <1>1 DEF Declare
  <2>4. \A b \in Actions : row'[b] = IF a = b
          THEN [row[a] EXCEPT !.status = "awaiting_approval"] ELSE row[b]
    BY <2>1 DEF TypeOK
  <2> QED BY <1>0, <2>2, <2>3, <2>4 DEF StaysOpen, Open, Action
<1>2. ASSUME NEW a \in Actions, NEW term \in Terms, Approve(a, term) PROVE StaysOpen
  <2>1. row' = [row EXCEPT ![a] =
                   [row[a] EXCEPT !.status = "queued", !.expires = now + term]]
    BY <1>2 DEF Approve, TypeOK
  <2>2. row[a].status = "awaiting_approval" BY <1>2 DEF Approve
  <2>3. UNCHANGED <<calls, transit, issue, made, decider, writes>> BY <1>2 DEF Approve
  <2>4. \A b \in Actions : row'[b] = IF a = b
          THEN [row[a] EXCEPT !.status = "queued", !.expires = now + term] ELSE row[b]
    BY <2>1 DEF TypeOK
  <2>5. [row[a] EXCEPT !.status = "queued", !.expires = now + term].status = "queued"
        /\ [row[a] EXCEPT !.status = "queued", !.expires = now + term].claims = row[a].claims
        /\ [row[a] EXCEPT !.status = "queued", !.expires = now + term].node = row[a].node
        /\ [row[a] EXCEPT !.status = "queued", !.expires = now + term].repairs = row[a].repairs
    BY <1>0 DEF Action
  <2> QED BY <2>2, <2>3, <2>4, <2>5 DEF StaysOpen, Open
<1>3. ASSUME NEW A \in SUBSET Actions, \A a \in A : Lapsed(a), Expire(A)
      PROVE  StaysOpen
  <2>1. \A b \in Actions : row'[b] = IF b \in A
          THEN [row[b] EXCEPT !.status = "awaiting_approval"] ELSE row[b]
    BY <1>3 DEF Expire
  <2>2. UNCHANGED <<calls, transit, issue, made, decider, writes>> BY <1>3 DEF Expire
  <2>3. \A b \in A : row[b].status = "queued" BY <1>3 DEF Lapsed
  <2> QED BY <1>0, <2>1, <2>2, <2>3 DEF StaysOpen, Open, Action
<1>4. ASSUME NEW a \in Actions, ClaimExecution(a) PROVE Claims(a)
  <2> DEFINE s == Taken(row[a], "executing", now)
             c == NewCall("execute", a, "claimed", NoPass, now)
  <2>1. s \in Action /\ c \in Call
    <3>1. "executing" \in Statuses BY DEF Statuses, Claimed
    <3> QED BY <1>0, <3>1, RowTypes, CallTypes DEF TypeOK
  <2>2. /\ s.claims = row[a].claims + 1 /\ s.attempt = s.claims
        /\ s.node = row[a].node /\ s.status = "executing" /\ s.repairs = row[a].repairs
    BY <1>0 DEF Taken, Action
  <2>3. /\ c.of = a /\ c.by = row[a].claims + 1 /\ c.on = row[a].node /\ c.left = {}
        /\ c.matches = {} /\ c.op = "execute" /\ c.stage = "claimed"
    BY DEF NewCall
  <2>4. /\ row' = [row EXCEPT ![a] = s] /\ calls' = calls \cup {c}
        /\ row[a].status = "queued" /\ UNCHANGED <<transit, issue, made, decider, writes>>
    BY <1>4 DEF ClaimExecution
  <2> HIDE DEF s, c
  <2> QED BY <2>1, <2>2, <2>3, <2>4 DEF Claims
<1> QED BY <1>1, <1>2, <1>3, <1>4

\* Execution is made of moves.
LEMMA ExecutionMoves ==
    ASSUME TypeOK, NEW c \in calls, Executes(c)
    PROVE  Drops \/ Records(c) \/ GoesOn(c)
<1> USE DEF gateway
<1>0. c \in Call /\ c.of \in Actions /\ row[c.of] \in Action /\ now \in Nat
  BY DEF TypeOK, Call
<1>d. now + Delay \in Nat BY <1>0, LedgerAssumption
<1>t. InDoubt(row[c.of], now + Delay) \in Action BY <1>0, <1>d, RowTypes
<1>u. /\ InDoubt(row[c.of], now + Delay).status = "unknown"
      /\ InDoubt(row[c.of], now + Delay).claims = row[c.of].claims
      /\ InDoubt(row[c.of], now + Delay).node = row[c.of].node
      /\ InDoubt(row[c.of], now + Delay).repairs = row[c.of].repairs
  BY <1>0, InDoubtFields
<1>1. CASE Post(c)
  <2>1. CASE Holds(c)
    <3> DEFINE d == [c EXCEPT !.stage = "create"]
    <3>1. d \in Call BY <1>0 DEF Call
    <3>2. /\ d.of = c.of /\ d.by = c.by /\ d.op = c.op /\ d.stage = "create"
          /\ Evidence(d) = Evidence(c)
      BY <1>0 DEF Call, Evidence
    <3>3. calls' = (calls \ {c}) \cup {d} /\ UNCHANGED decider
      BY <1>1, <2>1 DEF Post, Continue
    <3>4. /\ c.stage = "claimed"
          /\ transit' = transit \cup
                {[kind |-> "create", of |-> c.of, by |-> c.by, on |-> 0]}
          /\ UNCHANGED <<row, issue, made, writes>>
      BY <1>1, <2>1 DEF Post
    <3> HIDE DEF d
    <3> QED BY <3>1, <3>2, <3>3, <3>4 DEF GoesOn
  <2>2. CASE ~ Holds(c) BY <1>1, <2>2 DEF Post, Drops
  <2> QED BY <2>1, <2>2
<1>2. CASE PostDenied(c)
  <2> DEFINE r == Result(row[c.of], "failed")
  <2>0. "failed" \in Statuses BY DEF Statuses
  <2>1. r \in Action BY <1>0, <2>0, RowTypes
  <2>2. r.status = "failed" /\ r.claims = row[c.of].claims /\ r.node = row[c.of].node
        /\ r.repairs = row[c.of].repairs
    BY <1>0, ResultFields
  <2>3. /\ Record(c, r) /\ c.stage = "create" /\ Sent(c) # {}
        /\ transit' = transit \ Sent(c) /\ UNCHANGED <<issue, made, writes>>
    BY <1>2 DEF PostDenied
  <2> HIDE DEF r
  <2>4. Results(c, r) BY <2>2, <2>3 DEF Results
  <2> QED BY <2>1, <2>2, <2>3, <2>4 DEF Records
<1>3. CASE PostUnclear(c)
  <2>1. Record(c, InDoubt(row[c.of], now + Delay)) /\ UNCHANGED <<transit, issue, made, writes>>
    BY <1>3 DEF PostUnclear
  <2>2. Results(c, InDoubt(row[c.of], now + Delay)) BY <1>u DEF Results
  <2> QED BY <1>t, <1>u, <2>1, <2>2 DEF Records
<1>4. CASE PostAnswered(c)
  <2>1. PICK k \in Issues :
          /\ issue[k].of = c.of
          /\ IF Holds(c)
             THEN /\ row' = [row EXCEPT ![c.of] = Dispatched(row[c.of], k)]
                  /\ Continue(c, [c EXCEPT !.stage = "read", !.on = k])
             ELSE /\ calls' = calls \ {c} /\ UNCHANGED <<row, decider>>
    BY <1>4 DEF PostAnswered
  <2>2. c.stage = "create" /\ UNCHANGED <<transit, issue, made, writes>>
    BY <1>4 DEF PostAnswered
  <2>3. CASE Holds(c)
    <3> DEFINE d == [c EXCEPT !.stage = "read", !.on = k]
    <3>1. d \in Call BY <1>0 DEF Call
    <3>2. /\ d.of = c.of /\ d.by = c.by /\ d.op = c.op /\ d.stage = "read"
          /\ \A i \in Evidence(d) : i \in Evidence(c) \/ i = k
      BY <1>0 DEF Call, Evidence
    <3>3. calls' = (calls \ {c}) \cup {d} /\ UNCHANGED decider
      BY <2>1, <2>3 DEF Continue
    <3> HIDE DEF d
    <3> QED BY <2>1, <2>2, <2>3, <3>1, <3>2, <3>3 DEF GoesOn
  <2>4. CASE ~ Holds(c) BY <2>1, <2>2, <2>4 DEF Drops
  <2> QED BY <2>3, <2>4
<1>5. CASE ReadBack(c)
  <2>0. c.op = "execute" /\ c.stage = "read" /\ UNCHANGED <<transit, issue, made, writes>>
    BY <1>5 DEF ReadBack
  <2>1. CASE Record(c, InDoubt(row[c.of], now + Delay))
    <3>2. Results(c, InDoubt(row[c.of], now + Delay)) BY <1>u DEF Results
    <3> QED BY <1>t, <1>u, <2>0, <2>1, <3>2 DEF Records
  <2>2. CASE Record(c, Result(row[c.of], Verdict(c.on)))
    <3> DEFINE v == Verdict(c.on)
               r == Result(row[c.of], v)
    <3>1. v \in {"unknown", "succeeded", "partially_applied"} BY VerdictType
    <3>2. v \in Statuses BY <3>1 DEF Statuses
    <3> HIDE DEF v
    <3>t. r \in Action BY <1>0, <3>2, RowTypes
    <3>3. r.status = v /\ r.claims = row[c.of].claims /\ r.node = row[c.of].node
          /\ r.repairs = row[c.of].repairs
      BY <1>0, ResultFields
    <3>4. Record(c, r) BY <2>2 DEF v
    <3> HIDE DEF r
    <3>5. Results(c, r) BY <2>0, <3>1, <3>3 DEF Results
    <3> QED BY <2>0, <3>t, <3>3, <3>4, <3>5 DEF Records
  <2> QED BY <1>5, <2>1, <2>2 DEF ReadBack
<1> QED BY <1>1, <1>2, <1>3, <1>4, <1>5 DEF Executes

\* Probes are made of moves.
LEMMA ProbesMove ==
    ASSUME TypeOK, NEW c \in calls, Probes(c)
    PROVE  Records(c) \/ GoesOn(c)
<1> USE DEF gateway
<1>0. /\ c \in Call /\ c.of \in Actions /\ row[c.of] \in Action /\ now \in Nat
      /\ c.matches \in SUBSET Match /\ c.odd \in BOOLEAN /\ c.left \in SUBSET Issues
  BY DEF TypeOK, Call
<1>d. now + Delay \in Nat BY <1>0, LedgerAssumption
<1>1. ASSUME NEW M \in SUBSET Match, NEW odd \in BOOLEAN,
             \A m \in M : m.on \in Evidence(c),
             Record(c, Concluded(row[c.of], M, odd)),
             c.stage \in {"search", "get"}, UNCHANGED <<transit, issue, made, writes>>
      PROVE  Records(c)
  <2> DEFINE r == Concluded(row[c.of], M, odd)
  <2>1. r \in Action BY <1>0, ConcludedType
  <2>2. /\ r.claims = row[c.of].claims /\ r.repairs = row[c.of].repairs
        /\ \/ r.status = "unknown" /\ r.node = row[c.of].node
           \/ r.status = "conflict" /\ r.node = row[c.of].node /\ M # {}
           \/ /\ r.status \in {"succeeded", "partially_applied"}
              /\ \E m \in M : r.node = m.on
    BY <1>0, ConcludedFields
  <2>3. Record(c, r) BY <1>1
  <2> HIDE DEF r
  <2>4. Results(c, r) BY <1>1, <2>2 DEF Results
  <2> QED BY <1>1, <2>1, <2>2, <2>3, <2>4 DEF Records
<1>2. ASSUME NEW found \in SUBSET Issues, SearchAnswered(c, found)
      PROVE  Records(c) \/ GoesOn(c)
  <2>0. c.stage = "search" /\ UNCHANGED <<transit, issue, made, writes>>
        /\ \A k \in found : issue[k].of = c.of
    BY <1>2 DEF SearchAnswered
  <2>1. CASE Record(c, Concluded(row[c.of], {}, FALSE))
    <3>1. {} \in SUBSET Match OBVIOUS
    <3> QED BY <1>1, <2>0, <2>1, <3>1
  <2>2. CASE Continue(c, [c EXCEPT !.stage = "get", !.left = found]) /\ UNCHANGED row
    <3> DEFINE d == [c EXCEPT !.stage = "get", !.left = found]
    <3>1. d \in Call BY <1>0 DEF Call
    <3>2. /\ d.of = c.of /\ d.by = c.by /\ d.op = c.op /\ d.stage = "get"
          /\ \A i \in Evidence(d) : i \in Evidence(c) \/ i \in found
      BY <1>0 DEF Call, Evidence
    <3>3. calls' = (calls \ {c}) \cup {d} /\ UNCHANGED decider
      BY <2>2 DEF Continue
    <3> HIDE DEF d
    <3> QED BY <2>0, <2>2, <3>1, <3>2, <3>3 DEF GoesOn
  <2> QED BY <1>2, <2>1, <2>2 DEF SearchAnswered
<1>3. ASSUME NEW k \in Issues, CandidateRead(c, k)
      PROVE  Records(c) \/ GoesOn(c)
  <2> DEFINE M == IF issue[k].valid
                  THEN c.matches \cup {[on |-> k, verdict |-> Verdict(k)]}
                  ELSE c.matches
             odd == IF issue[k].valid THEN c.odd ELSE TRUE
             d == [c EXCEPT !.left = c.left \ {k}, !.matches = M, !.odd = odd]
  <2>0. c.stage = "get" /\ k \in c.left /\ UNCHANGED <<transit, issue, made, writes>>
    BY <1>3 DEF CandidateRead
  <2>1. \/ Record(c, Concluded(row[c.of], d.matches, d.odd))
        \/ Continue(c, d) /\ UNCHANGED row
    BY <1>3 DEF CandidateRead
  <2>2. issue[k].valid => Verdict(k) \in {"succeeded", "partially_applied"}
    BY DEF Verdict
  <2>3. issue[k].valid => [on |-> k, verdict |-> Verdict(k)] \in Match
    BY <2>2 DEF Match
  <2>4. M \in SUBSET Match /\ odd \in BOOLEAN BY <1>0, <2>3
  <2>5. \A m \in M : m \in c.matches \/ m.on = k OBVIOUS
  <2>6. \A m \in M : m.on \in Evidence(c)
    BY <1>0, <2>0, <2>5 DEF Evidence, Match
  <2> HIDE DEF M, odd
  <2>7. /\ d \in Call /\ d.matches = M /\ d.odd = odd /\ d.of = c.of /\ d.by = c.by
        /\ d.op = c.op /\ d.stage = c.stage /\ d.on = c.on /\ d.left = c.left \ {k}
    BY <1>0, <2>4 DEF Call
  <2> HIDE DEF d
  <2>8. CASE Record(c, Concluded(row[c.of], d.matches, d.odd))
    BY <1>1, <2>0, <2>4, <2>6, <2>7, <2>8
  <2>9. CASE Continue(c, d) /\ UNCHANGED row
    <3>1. \A i \in Evidence(d) : i \in Evidence(c)
      BY <2>6, <2>7 DEF Evidence
    <3>2. calls' = (calls \ {c}) \cup {d} /\ UNCHANGED decider
      BY <2>9 DEF Continue
    <3> QED BY <2>0, <2>7, <2>9, <3>1, <3>2 DEF GoesOn
  <2> QED BY <2>1, <2>8, <2>9
<1>4. CASE ProbeFails(c)
  <2>0. InDoubt(row[c.of], now + Delay) \in Action BY <1>0, <1>d, RowTypes
  <2>1. /\ InDoubt(row[c.of], now + Delay).status = "unknown"
        /\ InDoubt(row[c.of], now + Delay).claims = row[c.of].claims
        /\ InDoubt(row[c.of], now + Delay).node = row[c.of].node
      /\ InDoubt(row[c.of], now + Delay).repairs = row[c.of].repairs
    BY <1>0, InDoubtFields
  <2>2. Record(c, InDoubt(row[c.of], now + Delay)) /\ UNCHANGED <<transit, issue, made, writes>>
    BY <1>4 DEF ProbeFails
  <2>3. Results(c, InDoubt(row[c.of], now + Delay)) BY <2>1 DEF Results
  <2> QED BY <2>0, <2>1, <2>2, <2>3 DEF Records
<1> QED BY <1>2, <1>3, <1>4 DEF Probes

\* Repairs are made of moves.
LEMMA RepairsMove ==
    ASSUME TypeOK, NEW c \in calls, Repairs(c)
    PROVE  Records(c) \/ GoesOn(c)
<1>0. /\ c \in Call /\ c.of \in Actions /\ row[c.of] \in Action
  BY DEF TypeOK, Call
<1>1. ASSUME NEW r \in RepairEnds(c), Record(c, r), transit' \subseteq transit,
             UNCHANGED <<issue, made, writes>>,
             c.op = "repair" \/ c.stage \in {"label", "verify"}
      PROVE  Records(c)
  <2>1. r \in Action BY RepairEndsType
  <2>2. r.claims = row[c.of].claims /\ r.node = row[c.of].node
        /\ r.repairs = row[c.of].repairs
        /\ r.status \in {"unknown", "succeeded", "repair_retry_wait", "repair_blocked"}
    <3>1. CASE r = [Result(row[c.of], "repair_blocked") EXCEPT !.repair = 0, !.reconcile = 0]
      <4> DEFINE q == Result(row[c.of], "repair_blocked")
      <4>1. "repair_blocked" \in Statuses BY DEF Statuses
      <4>2. q \in Action BY <1>0, <4>1, RepairEndsType, LedgerAssumption, RowTypes DEF TypeOK
      <4>3. q.status = "repair_blocked" /\ q.claims = row[c.of].claims
            /\ q.node = row[c.of].node
            /\ q.repairs = row[c.of].repairs
        BY <1>0, ResultFields
      <4>4. r = [q EXCEPT !.repair = 0, !.reconcile = 0] BY <3>1
      <4> HIDE DEF q
      <4> QED BY <4>2, <4>3, <4>4 DEF Action
    <3>2. CASE r \in {Repaired(row[c.of]), InDoubt(row[c.of], c.at + Delay),
                      RetryOrBlock(row[c.of], c.at)}
      <4>1. CASE r = Repaired(row[c.of]) BY <1>0, <4>1, RepairedFields
      <4>2. CASE r = InDoubt(row[c.of], c.at + Delay) BY <1>0, <4>2, InDoubtFields
      <4>3. CASE r = RetryOrBlock(row[c.of], c.at) BY <1>0, <4>3, RetryFields
      <4> QED BY <3>2, <4>1, <4>2, <4>3
    <3> QED BY <3>1, <3>2 DEF RepairEnds
  <2>3. Results(c, r) BY <1>1, <2>2 DEF Results
  <2> QED BY <1>1, <2>1, <2>2, <2>3 DEF Records
<1>2. ASSUME c.op = "repair", c.stage = "read",
             Continue(c, [c EXCEPT !.stage = "label"]),
             writes' = [writes EXCEPT ![c.of] = @ + 1],
             transit' = transit \cup
                   {[kind |-> "label", of |-> c.of, by |-> c.by, on |-> c.on]},
             UNCHANGED <<row, issue, made>>
      PROVE  GoesOn(c)
  <2> DEFINE d == [c EXCEPT !.stage = "label"]
  <2>1. d \in Call BY <1>0 DEF Call
  <2>2. /\ d.of = c.of /\ d.by = c.by /\ d.op = c.op /\ d.stage = "label"
        /\ Evidence(d) = Evidence(c)
    BY <1>0 DEF Call, Evidence
  <2>3. calls' = (calls \ {c}) \cup {d} /\ UNCHANGED decider
    BY <1>2 DEF Continue
  <2> HIDE DEF d
  <2> QED BY <1>2, <2>1, <2>2, <2>3 DEF GoesOn
<1>3. ASSUME c.stage = "label", Continue(c, [c EXCEPT !.stage = "verify"]),
             UNCHANGED <<row, transit, issue, made, writes>>
      PROVE  GoesOn(c)
  <2> DEFINE d == [c EXCEPT !.stage = "verify"]
  <2>1. d \in Call BY <1>0 DEF Call
  <2>2. /\ d.of = c.of /\ d.by = c.by /\ d.op = c.op /\ d.stage = "verify"
        /\ Evidence(d) = Evidence(c)
    BY <1>0 DEF Call, Evidence
  <2>3. calls' = (calls \ {c}) \cup {d} /\ UNCHANGED decider
    BY <1>3 DEF Continue
  <2> HIDE DEF d
  <2> QED BY <1>3, <2>1, <2>2, <2>3 DEF GoesOn
<1> QED BY <1>1, <1>2, <1>3, RepairEndsOrGoesOn DEF gateway

\* The loops of the passes make moves.
LEMMA PassesMove ==
    ASSUME TypeOK, NEW p \in Passes, PassStep(p)
    PROVE  StaysOpen \/ GivesUp \/ \E a \in Actions : Claims(a) \/ Blocks(a)
<1> USE DEF gateway
<1>0. /\ \A a \in Actions : row[a] \in Action
      /\ pass[p].at \in Nat
  BY DEF TypeOK, Pass
<1>i. ASSUME UNCHANGED <<row, calls, transit, issue, made, decider, writes>> PROVE StaysOpen
  BY <1>i DEF StaysOpen
<1>1. CASE BeginReconciliation(p)
  <2>1. row' = [a \in Actions |->
                  IF a \in Orphans THEN Recovered(row[a], now) ELSE row[a]]
    BY <1>1 DEF BeginReconciliation
  <2>2. \A a \in Orphans : row[a].status \in Claimed BY DEF Orphans
  <2>3. UNCHANGED <<calls, transit, issue, made, decider, writes>>
    BY <1>1 DEF BeginReconciliation
  <2>4. \A a \in Actions :
          \/ row'[a] = row[a]
          \/ row[a].status \in Claimed /\ row'[a] = Recovered(row[a], now)
    BY <2>1, <2>2
  <2> QED BY <2>3, <2>4 DEF GivesUp
<1>2. CASE BeginRepair(p) \/ PassEnds(p)
  BY <1>2, <1>i DEF BeginRepair, PassEnds
<1>3. ASSUME NEW a \in Actions, NEW s \in Action, NEW c \in Call,
             row' = [row EXCEPT ![a] = s], calls' = calls \cup {c},
             s.claims = row[a].claims + 1, s.attempt = s.claims, s.node = row[a].node,
             c.of = a, c.by = s.claims, c.on = s.node, c.left = {}, c.matches = {},
             \/ /\ row[a].status = "unknown" /\ s.status = "reconciling"
                /\ c.op = "reconcile" /\ c.stage = "search" /\ s.repairs = row[a].repairs
             \/ /\ row[a].status \in {"partially_applied", "repair_retry_wait"}
                /\ s.status = "repairing" /\ c.op = "repair" /\ c.stage = "read"
                /\ s.repairs = row[a].repairs + 1 /\ row[a].repairs < MaxRepairs,
             UNCHANGED <<transit, issue, made, decider, writes>>
      PROVE  Claims(a)
  BY <1>3 DEF Claims
<1>4. ASSUME NEW a \in Actions, ReconcileNext(p, a)
      PROVE  StaysOpen \/ Claims(a)
  <2> DEFINE s == Taken(row[a], "reconciling", pass[p].at)
             c == NewCall("reconcile", a, "search", p, pass[p].at)
  <2>1. "reconciling" \in Statuses BY DEF Statuses, Claimed
  <2>2. s \in Action BY <1>0, <2>1, RowTypes
  <2>3. c \in Call BY <1>0, CallTypes
  <2>4. /\ s.claims = row[a].claims + 1 /\ s.attempt = s.claims
        /\ s.node = row[a].node /\ s.status = "reconciling" /\ s.repairs = row[a].repairs
    BY <1>0 DEF Taken, Action
  <2>5. /\ c.of = a /\ c.by = row[a].claims + 1 /\ c.on = row[a].node /\ c.left = {}
        /\ c.matches = {} /\ c.op = "reconcile" /\ c.stage = "search"
    BY DEF NewCall
  <2>6. \/ /\ row' = [row EXCEPT ![a] = s] /\ calls' = calls \cup {c}
           /\ row[a].status = "unknown"
        \/ UNCHANGED <<row, calls>>
    BY <1>4 DEF ReconcileNext, Reconcilable
  <2>7. UNCHANGED <<transit, issue, made, decider, writes>> BY <1>4 DEF ReconcileNext
  <2> HIDE DEF s, c
  <2> QED BY <1>i, <1>3, <2>2, <2>3, <2>4, <2>5, <2>6, <2>7
<1>5. ASSUME NEW a \in Actions, RepairNext(p, a)
      PROVE  StaysOpen \/ Claims(a) \/ Blocks(a)
  <2> DEFINE s == Repairing(row[a], pass[p].at)
             c == NewCall("repair", a, "read", p, pass[p].at)
  <2>2. s \in Action BY <1>0, RowTypes
  <2>3. c \in Call BY <1>0, CallTypes
  <2>4. /\ s.claims = row[a].claims + 1 /\ s.attempt = s.claims
        /\ s.node = row[a].node /\ s.status = "repairing"
        /\ s.repairs = row[a].repairs + 1
    BY <1>0 DEF Repairing, Taken, Action
  <2>5. /\ c.of = a /\ c.by = row[a].claims + 1 /\ c.on = row[a].node /\ c.left = {}
        /\ c.matches = {} /\ c.op = "repair" /\ c.stage = "read"
    BY DEF NewCall
  <2>6. \/ /\ row' = [row EXCEPT ![a] = s] /\ calls' = calls \cup {c}
           /\ row[a].status \in {"partially_applied", "repair_retry_wait"}
           /\ row[a].repairs < MaxRepairs
        \/ /\ row' = [row EXCEPT ![a] =
                          [row[a] EXCEPT !.status = "repair_blocked", !.repair = 0]]
           /\ row[a].status \in {"partially_applied", "repair_retry_wait"}
           /\ UNCHANGED calls
        \/ UNCHANGED <<row, calls>>
    <3>1. row[a].repairs \in Nat /\ MaxRepairs \in Nat
      BY <1>0, LedgerAssumption DEF Action
    <3>2. ~ (row[a].repairs >= MaxRepairs) => row[a].repairs < MaxRepairs BY <3>1
    <3> HIDE DEF s, c
    <3>3. \/ /\ row' = [row EXCEPT ![a] = s] /\ calls' = calls \cup {c}
             /\ Repairable(a, pass[p].at) /\ ~ (row[a].repairs >= MaxRepairs)
          \/ /\ row' = [row EXCEPT ![a].status = "repair_blocked", ![a].repair = 0]
             /\ Repairable(a, pass[p].at) /\ UNCHANGED calls
          \/ UNCHANGED <<row, calls>>
      BY <1>5 DEF RepairNext, s, c
    <3>4. Repairable(a, pass[p].at)
            => row[a].status \in {"partially_applied", "repair_retry_wait"}
      BY DEF Repairable
    <3> QED BY <3>2, <3>3, <3>4 DEF TypeOK
  <2>7. UNCHANGED <<transit, issue, made, decider, writes>> BY <1>5 DEF RepairNext
  <2> HIDE DEF s, c
  <2> QED BY <1>i, <1>3, <2>2, <2>3, <2>4, <2>5, <2>6, <2>7 DEF Blocks
<1> QED BY <1>1, <1>2, <1>4, <1>5 DEF PassStep

\* Every step is a move.
LEMMA StepsMove == TypeOK /\ [Next]_vars => Moves
<1> SUFFICES ASSUME TypeOK, [Next]_vars PROVE Moves OBVIOUS
<1>i. ASSUME UNCHANGED <<row, calls, transit, issue, made, decider, writes>> PROVE Moves
  BY <1>i DEF StaysOpen, Moves
<1>1. CASE UNCHANGED vars BY <1>1, <1>i DEF vars
<1>2. ASSUME NEW a \in Actions,
             \/ Declare(a) \/ ClaimExecution(a)
             \/ \E term \in Terms : Approve(a, term)
             \/ Lapsed(a) /\ Expire({a})
      PROVE  Moves
  BY <1>2, UserMoves DEF Moves
<1>3. CASE Expire({a \in Actions : Lapsed(a)}) BY <1>3, UserMoves DEF Moves
<1>4. ASSUME NEW c \in calls, Executes(c) \/ Probes(c) \/ Repairs(c) PROVE Moves
  BY <1>4, ExecutionMoves, ProbesMove, RepairsMove DEF Moves
<1>5. ASSUME NEW p \in Passes, PassStep(p) PROVE Moves
  BY <1>5, PassesMove DEF Moves
<1>6. CASE \/ \E q \in transit, labelled \in BOOLEAN : Arrives(q, labelled)
           \/ \E k \in Issues : Meddle(k)
  <2>1. UNCHANGED <<row, calls, decider, writes>>
    BY <1>6 DEF Arrives, Meddle, broker
  <2> QED BY <1>6, <2>1 DEF WorldMoves, Moves
<1>7. CASE Crash BY <1>7 DEF Crash, Drops, Moves, gateway
<1>8. CASE Advance BY <1>8, <1>i DEF Advance, gateway, broker
<1> QED BY <1>1, <1>2, <1>3, <1>4, <1>5, <1>6, <1>7, <1>8 DEF Next

-----------------------------------------------------------------------------
(* Attempts: a claim is held by its last attempt only, so that what is     *)
(* decided was decided by it.                                              *)

Fenced(r, d) == /\ r.status \in Open <=> r.claims = 0
                /\ r.status \in Claimed => r.attempt = r.claims
                /\ r.status \in Decided => d = r.claims
FenceInv == \A a \in Actions : Fenced(row[a], decider[a])

\* A call that holds its claim is the row's last attempt.
LEMMA HoldersAreLast ==
    ASSUME FenceInv, NEW c \in calls, c.of \in Actions, Holds(c)
    PROVE  /\ row[c.of].status \in Claimed /\ c.by = row[c.of].claims
           /\ row[c.of].status = Phase(c.op)
BY DEF FenceInv, Fenced, Holds, Phase, Claimed

\* What a result leaves of the other rows.
LEMMA RecordedRows ==
    ASSUME TypeOK, NEW c \in calls, NEW r \in Action, Record(c, r)
    PROVE  \A a \in Actions :
              \/ row'[a] = row[a] /\ decider'[a] = decider[a]
              \/ a = c.of /\ Holds(c) /\ row'[a] = r /\ decider'[a] = c.by
<1>1. c.of \in Actions BY DEF TypeOK, Call
<1>2. \/ UNCHANGED <<row, decider>>
      \/ /\ Holds(c) /\ row' = [row EXCEPT ![c.of] = r]
         /\ decider' = [decider EXCEPT ![c.of] = c.by]
  BY DEF Record
<1> QED BY <1>1, <1>2 DEF TypeOK

\* A call that goes on leaves its row but for the issue it names.
LEMMA DispatchedRows ==
    ASSUME TypeOK, NEW c \in calls, GoesOn(c)
    PROVE  \A a \in Actions :
              /\ row'[a].status = row[a].status /\ row'[a].claims = row[a].claims
              /\ row'[a].attempt = row[a].attempt
              /\ \/ row'[a].node = row[a].node
                 \/ /\ a = c.of /\ c.stage = "create" /\ row'[a].node \in Issues
                    /\ issue[row'[a].node].of = a
<1>1. c.of \in Actions /\ \A a \in Actions : row[a] \in Action BY DEF TypeOK, Call
<1>2. \/ UNCHANGED row
      \/ /\ c.stage = "create"
         /\ \E k \in Issues : /\ issue[k].of = c.of
                              /\ row' = [row EXCEPT ![c.of] = Dispatched(row[c.of], k)]
  BY DEF GoesOn
<1>3. CASE UNCHANGED row BY <1>3
<1>4. ASSUME NEW k \in Issues, issue[k].of = c.of, c.stage = "create",
             row' = [row EXCEPT ![c.of] = Dispatched(row[c.of], k)],
             NEW a \in Actions
      PROVE  /\ row'[a].status = row[a].status /\ row'[a].claims = row[a].claims
             /\ row'[a].attempt = row[a].attempt
             /\ \/ row'[a].node = row[a].node
                \/ /\ a = c.of /\ c.stage = "create" /\ row'[a].node \in Issues
                   /\ issue[row'[a].node].of = a
  <2> DEFINE r == Dispatched(row[c.of], k)
  <2>1. /\ r.status = row[c.of].status /\ r.claims = row[c.of].claims
        /\ r.attempt = row[c.of].attempt /\ r.node = k
    BY <1>1 DEF Dispatched, Action
  <2>2. row'[a] = IF a = c.of THEN r ELSE row[a] BY <1>4 DEF TypeOK
  <2> HIDE DEF r
  <2> QED BY <1>4, <2>1, <2>2
<1> QED BY <1>2, <1>3, <1>4

LEMMA MovesKeepFence == TypeOK /\ FenceInv /\ Moves => FenceInv'
<1> SUFFICES ASSUME TypeOK, FenceInv, Moves, NEW a \in Actions
             PROVE  Fenced(row'[a], decider'[a])
  BY DEF FenceInv
<1>0. row[a] \in Action /\ Fenced(row[a], decider[a]) BY DEF TypeOK, FenceInv
<1>1. CASE StaysOpen
  <2>1. decider' = decider BY <1>1 DEF StaysOpen
  <2>2. CASE row'[a] = row[a] BY <1>0, <2>1, <2>2
  <2>3. CASE /\ row[a].status \in Open /\ row'[a].status \in Open
             /\ row'[a].claims = row[a].claims
    BY <1>0, <2>3 DEF Fenced, Open, Claimed, Decided
  <2> QED BY <1>1, <2>2, <2>3 DEF StaysOpen
<1>2. CASE Drops \/ WorldMoves BY <1>0, <1>2 DEF Drops, WorldMoves
<1>3. CASE GivesUp
  <2>1. decider' = decider BY <1>3 DEF GivesUp
  <2>2. CASE row'[a] = row[a] BY <1>0, <2>1, <2>2
  <2>3. CASE row[a].status \in Claimed /\ row'[a] = Recovered(row[a], now)
    <3>1. now \in Nat BY DEF TypeOK
    <3>2. row'[a].status = "unknown" /\ row'[a].claims = row[a].claims
      BY <1>0, <2>3, <3>1, RecoveredFields
    <3> QED BY <1>0, <2>3, <3>2 DEF Fenced, Open, Claimed, Decided
  <2> QED BY <1>3, <2>2, <2>3 DEF GivesUp
<1>4. ASSUME NEW b \in Actions, Claims(b) PROVE Fenced(row'[a], decider'[a])
  <2>1. PICK s \in Action : /\ row' = [row EXCEPT ![b] = s] /\ decider' = decider
                            /\ s.claims = row[b].claims + 1 /\ s.attempt = s.claims
                            /\ s.status \in {"executing", "reconciling", "repairing"}
    BY <1>4 DEF Claims
  <2>2. row'[a] = IF a = b THEN s ELSE row[a] BY <2>1 DEF TypeOK
  <2>3. row[b].claims \in Nat /\ s.claims # 0 BY <2>1 DEF TypeOK, Action
  <2> QED BY <1>0, <2>1, <2>2, <2>3 DEF Fenced, Open, Claimed, Decided
<1>5. ASSUME NEW b \in Actions, Blocks(b) PROVE Fenced(row'[a], decider'[a])
  <2> DEFINE s == [row[b] EXCEPT !.status = "repair_blocked", !.repair = 0]
  <2>1. row'[a] = IF a = b THEN s ELSE row[a] BY <1>5 DEF Blocks, TypeOK
  <2>2. row[b] \in Action /\ Fenced(row[b], decider[b]) BY DEF TypeOK, FenceInv
  <2>3. s.status = "repair_blocked" /\ s.claims = row[b].claims BY <2>2 DEF Action
  <2>4. row[b].status \in {"partially_applied", "repair_retry_wait"} /\ decider' = decider
    BY <1>5 DEF Blocks
  <2> HIDE DEF s
  <2> QED BY <1>0, <2>1, <2>2, <2>3, <2>4 DEF Fenced, Open, Claimed, Decided
<1>6. ASSUME NEW c \in calls, Records(c) PROVE Fenced(row'[a], decider'[a])
  <2>1. PICK r \in Action : Record(c, r) /\ r.claims = row[c.of].claims /\ Results(c, r)
    BY <1>6 DEF Records
  <2>2. r.status \notin Open /\ r.status \notin Claimed
    BY <2>1 DEF Results, Open, Claimed
  <2>3. CASE row'[a] = row[a] /\ decider'[a] = decider[a] BY <1>0, <2>3
  <2>4. CASE a = c.of /\ Holds(c) /\ row'[a] = r /\ decider'[a] = c.by
    <3>1. row[a].status \in Claimed /\ c.by = row[a].claims BY <2>4, HoldersAreLast
    <3> QED BY <1>0, <2>1, <2>2, <2>4, <3>1 DEF Fenced, Open, Claimed
  <2> QED BY <2>1, <2>3, <2>4, RecordedRows
<1>7. ASSUME NEW c \in calls, GoesOn(c) PROVE Fenced(row'[a], decider'[a])
  <2>1. decider' = decider BY <1>7 DEF GoesOn
  <2> QED BY <1>0, <1>7, <2>1, DispatchedRows DEF Fenced
<1> QED BY <1>1, <1>2, <1>3, <1>4, <1>5, <1>6, <1>7 DEF Moves

LEMMA InitFence == Init => FenceInv
BY DEF Init, FenceInv, Fenced, Undeclared, Open, Claimed, Decided

LEMMA FenceHolds == Spec => [](TypeOK /\ FenceInv)
<1>1. Init => TypeOK /\ FenceInv BY InitTypes, InitFence
<1>2. (TypeOK /\ FenceInv) /\ [Next]_vars => (TypeOK /\ FenceInv)'
  BY StepTypes, StepsMove, MovesKeepFence
<1> QED BY <1>1, <1>2, PTL DEF Spec

\* The result of an action is that of its last claim, whatever calls outlive
\* their lease (ActionLedger).
THEOREM ResultsAreFenced == Spec => []ResultIsOfLastClaim
<1>1. TypeOK /\ FenceInv => ResultIsOfLastClaim
  BY DEF FenceInv, Fenced, ResultIsOfLastClaim
<1> QED BY <1>1, FenceHolds, PTL

-----------------------------------------------------------------------------
(* Calls and requests belong to attempts; the execution of an action is    *)
(* its first attempt, and only it sends a request that creates.            *)

CallOk(c) ==
    /\ c.by \in Nat \ {0} /\ c.by <= row[c.of].claims
    /\ c.op = "execute" <=> c.by = 1
    /\ c.stage \in {"claimed", "create"} => c.op = "execute"
    /\ c.stage \in {"label", "verify"} => c.op = "repair"
RequestOk(q) ==
    /\ q.by \in Nat \ {0} /\ q.by <= row[q.of].claims
    /\ q.kind = "create" <=> q.by = 1
    /\ q.kind = "create" => q.on = 0
CallsInv ==
    /\ \A c \in calls : CallOk(c)
    /\ \A c, d \in calls : c.of = d.of /\ c.by = d.by => c = d
    /\ \A q \in transit : RequestOk(q)

\* Claims are never taken back.
LEMMA ClaimsGrow ==
    ASSUME TypeOK, Moves, NEW a \in Actions
    PROVE  row'[a].claims \in Nat /\ row[a].claims <= row'[a].claims
<1>0. row[a] \in Action /\ row[a].claims \in Nat BY DEF TypeOK, Action
<1>s. SUFFICES row'[a].claims = row[a].claims \/ row'[a].claims = row[a].claims + 1
  BY <1>0
<1>1. CASE StaysOpen BY <1>1 DEF StaysOpen
<1>2. CASE Drops \/ WorldMoves BY <1>2 DEF Drops, WorldMoves
<1>3. CASE GivesUp
  <2>1. now \in Nat BY DEF TypeOK
  <2> QED BY <1>0, <1>3, <2>1, RecoveredFields DEF GivesUp
<1>4. ASSUME NEW b \in Actions, Claims(b)
      PROVE  row'[a].claims = row[a].claims \/ row'[a].claims = row[a].claims + 1
  <2>1. PICK s \in Action : /\ row' = [row EXCEPT ![b] = s]
                            /\ s.claims = row[b].claims + 1
    BY <1>4 DEF Claims
  <2>2. row'[a] = IF a = b THEN s ELSE row[a] BY <2>1 DEF TypeOK
  <2> QED BY <2>1, <2>2
<1>5. ASSUME NEW b \in Actions, Blocks(b) PROVE row'[a].claims = row[a].claims
  <2> DEFINE s == [row[b] EXCEPT !.status = "repair_blocked", !.repair = 0]
  <2>1. row'[a] = IF a = b THEN s ELSE row[a] BY <1>5 DEF Blocks, TypeOK
  <2>2. row[b] \in Action BY DEF TypeOK
  <2>3. s.claims = row[b].claims BY <2>2 DEF Action
  <2> HIDE DEF s
  <2> QED BY <2>1, <2>3
<1>6. ASSUME NEW c \in calls, Records(c) PROVE row'[a].claims = row[a].claims
  <2>1. PICK r \in Action : Record(c, r) /\ r.claims = row[c.of].claims
    BY <1>6 DEF Records
  <2> QED BY <2>1, RecordedRows
<1>7. ASSUME NEW c \in calls, GoesOn(c) PROVE row'[a].claims = row[a].claims
  BY <1>7, DispatchedRows
<1> QED BY <1>1, <1>2, <1>3, <1>4, <1>5, <1>6, <1>7 DEF Moves

LEMMA CallsStayOk ==
    ASSUME TypeOK, CallsInv, Moves
    PROVE  /\ \A c \in calls : CallOk(c)'
           /\ \A q \in transit : RequestOk(q)'
<1>1. ASSUME NEW c \in calls PROVE CallOk(c)'
  <2>1. c.of \in Actions /\ c.by \in Nat /\ row[c.of].claims \in Nat
    BY DEF TypeOK, Call, Action
  <2>2. CallOk(c) BY DEF CallsInv
  <2>3. row'[c.of].claims \in Nat /\ row[c.of].claims <= row'[c.of].claims
    BY <2>1, ClaimsGrow
  <2> QED BY <2>1, <2>2, <2>3 DEF CallOk
<1>2. ASSUME NEW q \in transit PROVE RequestOk(q)'
  <2>1. q.of \in Actions /\ q.by \in Nat /\ row[q.of].claims \in Nat
    BY DEF TypeOK, Request, Action
  <2>2. RequestOk(q) BY DEF CallsInv
  <2>3. row'[q.of].claims \in Nat /\ row[q.of].claims <= row'[q.of].claims
    BY <2>1, ClaimsGrow
  <2> QED BY <2>1, <2>2, <2>3 DEF RequestOk
<1> QED BY <1>1, <1>2

LEMMA MovesKeepCalls == TypeOK /\ FenceInv /\ CallsInv /\ Moves => CallsInv'
<1> SUFFICES ASSUME TypeOK, FenceInv, CallsInv, Moves PROVE CallsInv' OBVIOUS
<1>s. ASSUME calls' \subseteq calls, transit' \subseteq transit PROVE CallsInv'
  <2>1. /\ \A c \in calls' : CallOk(c)'
        /\ \A q \in transit' : RequestOk(q)'
    BY <1>s, CallsStayOk
  <2>2. \A c, d \in calls' : c.of = d.of /\ c.by = d.by => c = d
    BY <1>s DEF CallsInv
  <2> QED BY <2>1, <2>2 DEF CallsInv
<1>1. CASE StaysOpen BY <1>1, <1>s DEF StaysOpen
<1>2. CASE Drops BY <1>2, <1>s DEF Drops
<1>3. CASE GivesUp BY <1>3, <1>s DEF GivesUp
<1>4. CASE WorldMoves
  <2>1. calls' = calls BY <1>4 DEF WorldMoves
  <2>2. transit' \subseteq transit BY <1>4 DEF WorldMoves, Arrives, Meddle
  <2> QED BY <1>s, <2>1, <2>2
<1>5. ASSUME NEW a \in Actions, Claims(a) PROVE CallsInv'
  <2>1. PICK s \in Action, c \in Call :
          /\ row' = [row EXCEPT ![a] = s] /\ s.claims = row[a].claims + 1
          /\ calls' = calls \cup {c} /\ c.of = a /\ c.by = s.claims
          /\ \/ row[a].status = "queued" /\ c.op = "execute" /\ c.stage = "claimed"
             \/ row[a].status = "unknown" /\ c.op = "reconcile" /\ c.stage = "search"
             \/ /\ row[a].status \in {"partially_applied", "repair_retry_wait"}
                /\ c.op = "repair" /\ c.stage = "read"
          /\ transit' = transit
    BY <1>5 DEF Claims
  <2>2. row[a].claims \in Nat /\ row'[a] = s BY <2>1 DEF TypeOK, Action
  <2>3. row[a].status = "queued" <=> row[a].claims = 0
    BY <2>1 DEF FenceInv, Fenced, Open
  <2>4. CallOk(c)' BY <2>1, <2>2, <2>3 DEF CallOk
  <2>5. \A d \in calls : ~ (d.of = a /\ d.by = c.by)
    BY <2>1, <2>2 DEF CallsInv, CallOk
  <2>6. \A d \in calls' : CallOk(d)' BY <2>1, <2>4, CallsStayOk
  <2>7. \A q \in transit' : RequestOk(q)' BY <2>1, CallsStayOk
  <2>8. \A d, e \in calls' : d.of = e.of /\ d.by = e.by => d = e
    BY <2>1, <2>5 DEF CallsInv
  <2> QED BY <2>6, <2>7, <2>8 DEF CallsInv
<1>6. ASSUME NEW a \in Actions, Blocks(a) PROVE CallsInv'
  BY <1>6, <1>s DEF Blocks
<1>7. ASSUME NEW c \in calls, Records(c) PROVE CallsInv'
  <2>1. calls' \subseteq calls /\ transit' \subseteq transit
    BY <1>7 DEF Records, Record
  <2> QED BY <1>s, <2>1
<1>8. ASSUME NEW c \in calls, GoesOn(c) PROVE CallsInv'
  <2>1. PICK d \in Call :
          /\ calls' = (calls \ {c}) \cup {d}
          /\ d.of = c.of /\ d.by = c.by /\ d.op = c.op /\ d.stage # "claimed"
          /\ \/ /\ c.stage = "claimed" /\ d.stage = "create"
                /\ transit' = transit \cup
                       {[kind |-> "create", of |-> c.of, by |-> c.by, on |-> 0]}
             \/ /\ d.stage \in {"read", "get"} /\ transit' = transit
             \/ /\ c.op = "repair" /\ d.stage = "label"
                /\ transit' = transit \cup
                       {[kind |-> "label", of |-> c.of, by |-> c.by, on |-> c.on]}
             \/ /\ c.stage = "label" /\ d.stage = "verify" /\ transit' = transit
    BY <1>8 DEF GoesOn
  <2>2. CallOk(c) /\ CallOk(c)' BY CallsStayOk DEF CallsInv
  <2>3. CallOk(d)' BY <2>1, <2>2 DEF CallOk
  <2>4. \A e \in calls' : CallOk(e)' BY <2>1, <2>3, CallsStayOk
  <2>5. \A e, f \in calls' : e.of = f.of /\ e.by = f.by => e = f
    BY <2>1 DEF CallsInv
  <2>6. ASSUME NEW q \in transit' PROVE RequestOk(q)'
    <3>1. CASE q \in transit BY <3>1, CallsStayOk
    <3>2. CASE /\ q = [kind |-> "create", of |-> c.of, by |-> c.by, on |-> 0]
               /\ c.stage = "claimed"
      BY <2>2, <3>2 DEF CallOk, RequestOk
    <3>3. CASE /\ q = [kind |-> "label", of |-> c.of, by |-> c.by, on |-> c.on]
               /\ c.op = "repair"
      BY <2>2, <3>3 DEF CallOk, RequestOk
    <3> QED BY <2>1, <3>1, <3>2, <3>3
  <2> QED BY <2>4, <2>5, <2>6 DEF CallsInv
<1> QED BY <1>1, <1>2, <1>3, <1>4, <1>5, <1>6, <1>7, <1>8 DEF Moves

-----------------------------------------------------------------------------
(* One effect: an action is in turn claimed, requested and made, and never *)
(* again; a failed one is neither of them.                                 *)

Unsent(a) == \E c \in calls : c.of = a /\ c.stage = "claimed"
OnTheWay(a) == \E q \in transit : q.of = a /\ q.kind = "create"

Once(a) ==
    /\ made[a] \in {0, 1}
    /\ OnTheWay(a) => made[a] = 0 /\ ~ Unsent(a)
    /\ Unsent(a) => made[a] = 0
    /\ row[a].status = "failed" => made[a] = 0 /\ ~ OnTheWay(a) /\ ~ Unsent(a)
    /\ row[a].claims = 0 => made[a] = 0
OnceInv == \A a \in Actions : Once(a)

\* The repository: a request creates an issue, or markers are copied at most.
Creates(q, k) ==
    /\ q.kind = "create" /\ issue[k].of = 0
    /\ \A j \in Issues : issue'[j].of = IF j = k THEN q.of ELSE issue[j].of
    /\ made' = [made EXCEPT ![q.of] = @ + 1]
    /\ transit' = transit \ {q}
Copies ==
    /\ \A k \in Issues :
          \/ issue'[k].of = issue[k].of
          \/ issue[k].of = 0 /\ \E j \in Issues : issue'[k].of = issue[j].of
    /\ made' = made /\ transit' \subseteq transit

LEMMA WorldFacts ==
    ASSUME TypeOK, WorldMoves
    PROVE  (\E q \in transit, k \in Issues : Creates(q, k)) \/ Copies
<1>0. /\ \A k \in Issues : issue[k] \in Issue
      /\ issue \in [Issues -> Issue]
  BY DEF TypeOK
<1>1. ASSUME NEW q \in transit, NEW labelled \in BOOLEAN, Arrives(q, labelled)
      PROVE  (\E k \in Issues : Creates(q, k)) \/ Copies
  <2>1. CASE q.kind = "create"
    <3> DEFINE i == [of |-> q.of, by |-> q.by, valid |-> TRUE, labelled |-> labelled]
    <3>1. PICK k \in Issues : Opens(k, i) BY <1>1, <2>1 DEF Arrives
    <3>2. i.of = q.of OBVIOUS
    <3> HIDE DEF i
    <3>3. issue[k].of = 0 /\ issue' = [issue EXCEPT ![k] = i]
      BY <3>1 DEF Opens, Vacant
    <3>4. \A j \in Issues : issue'[j].of = IF j = k THEN q.of ELSE issue[j].of
      BY <1>0, <3>2, <3>3
    <3>5. made' = [made EXCEPT ![q.of] = @ + 1] /\ transit' = transit \ {q}
      BY <1>1, <2>1 DEF Arrives
    <3> QED BY <2>1, <3>3, <3>4, <3>5 DEF Creates
  <2>2. CASE q.kind # "create"
    <3>1. issue' = [issue EXCEPT ![q.on].labelled = @ \/ labelled] /\ made' = made
          /\ transit' = transit \ {q}
      BY <1>1, <2>2 DEF Arrives
    <3>2. \A k \in Issues : [issue[k] EXCEPT !.labelled = @ \/ labelled].of = issue[k].of
      BY <1>0 DEF Issue
    <3>3. \A k \in Issues : issue'[k].of = issue[k].of BY <1>0, <3>1, <3>2
    <3> QED BY <3>1, <3>3 DEF Copies
  <2> QED BY <2>1, <2>2
<1>2. ASSUME NEW k \in Issues, Meddle(k) PROVE Copies
  <2>1. made' = made /\ transit' = transit BY <1>2 DEF Meddle
  <2>2. CASE issue' = [issue EXCEPT ![k].valid = FALSE]
    BY <1>0, <2>1, <2>2 DEF Copies, Issue
  <2>3. CASE issue' = [issue EXCEPT ![k].labelled = FALSE]
    BY <1>0, <2>1, <2>3 DEF Copies, Issue
  <2>4. ASSUME NEW j \in Issues, Opens(j, [issue[k] EXCEPT !.by = 0]) PROVE Copies
    <3> DEFINE i == [issue[k] EXCEPT !.by = 0]
    <3>1. i.of = issue[k].of BY <1>0 DEF Issue
    <3>2. issue[j].of = 0 /\ issue' = [issue EXCEPT ![j] = i]
      BY <2>4 DEF Opens, Vacant
    <3> HIDE DEF i
    <3>3. \A n \in Issues : issue'[n].of = IF n = j THEN issue[k].of ELSE issue[n].of
      BY <1>0, <3>1, <3>2
    <3> QED BY <2>1, <3>2, <3>3 DEF Copies
  <2> QED BY <1>2, <2>2, <2>3, <2>4 DEF Meddle
<1> QED BY <1>1, <1>2 DEF WorldMoves

LEMMA MovesKeepOnce ==
    TypeOK /\ FenceInv /\ CallsInv /\ OnceInv /\ Moves => OnceInv'
<1> SUFFICES ASSUME TypeOK, FenceInv, CallsInv, OnceInv, Moves, NEW a \in Actions
             PROVE  Once(a)'
  BY DEF OnceInv
<1>0. Once(a) /\ row[a] \in Action /\ row[a].claims \in Nat /\ row'[a].claims \in Nat
      /\ row[a].claims <= row'[a].claims /\ made[a] \in Nat
  BY ClaimsGrow DEF OnceInv, TypeOK, Action
<1>s. ASSUME made'[a] = made[a], Unsent(a)' => Unsent(a), OnTheWay(a)' => OnTheWay(a),
             row'[a].status = "failed" => row[a].status = "failed"
      PROVE  Once(a)'
  BY <1>0, <1>s DEF Once
<1>c. ASSUME calls' \subseteq calls PROVE Unsent(a)' => Unsent(a) BY <1>c DEF Unsent
<1>t. ASSUME transit' \subseteq transit PROVE OnTheWay(a)' => OnTheWay(a)
  BY <1>t DEF OnTheWay
<1>1. CASE StaysOpen
  <2>1. row'[a].status = "failed" => row[a].status = "failed"
    BY <1>1 DEF StaysOpen, Open
  <2> QED BY <1>1, <1>s, <1>c, <1>t, <2>1 DEF StaysOpen
<1>2. CASE Drops BY <1>2, <1>s, <1>c, <1>t DEF Drops
<1>3. CASE GivesUp
  <2>1. now \in Nat BY DEF TypeOK
  <2>2. row'[a].status = "failed" => row[a].status = "failed"
    BY <1>0, <1>3, <2>1, RecoveredFields DEF GivesUp
  <2> QED BY <1>3, <1>s, <1>c, <1>t, <2>2 DEF GivesUp
<1>4. CASE WorldMoves
  <2>1. UNCHANGED <<row, calls>> BY <1>4 DEF WorldMoves
  <2>2. CASE Copies BY <1>s, <1>c, <1>t, <2>1, <2>2 DEF Copies
  <2>3. ASSUME NEW q \in transit, NEW k \in Issues, Creates(q, k) PROVE Once(a)'
    <3>0. q \in Request /\ q.of \in Actions /\ q.kind = "create" /\ RequestOk(q)
      BY <2>3 DEF TypeOK, Request, CallsInv, Creates
    <3>1. made' = [made EXCEPT ![q.of] = @ + 1] /\ transit' = transit \ {q}
      BY <2>3 DEF Creates
    <3>2. CASE q.of # a
      <4>1. made'[a] = made[a] BY <3>1, <3>2 DEF TypeOK
      <4> QED BY <1>s, <1>c, <1>t, <2>1, <3>1, <4>1
    <3>3. CASE q.of = a
      <4>1. OnTheWay(a) BY <3>0, <3>3 DEF OnTheWay
      <4>2. made[a] = 0 /\ ~ Unsent(a) /\ row[a].status # "failed" /\ row[a].claims # 0
        BY <1>0, <3>0, <3>3, <4>1 DEF Once, RequestOk
      <4>3. made'[a] = 1 BY <3>1, <3>3, <4>2 DEF TypeOK
      <4>4. ~ OnTheWay(a)'
        <5> SUFFICES ASSUME NEW e \in transit, e # q, e.of = a, e.kind = "create"
                     PROVE  FALSE
          BY <3>1 DEF OnTheWay
        <5>1. e \in Request /\ RequestOk(e) BY DEF TypeOK, CallsInv
        <5> QED BY <3>0, <3>3, <5>1 DEF RequestOk, Request
      <4>5. ~ Unsent(a)' BY <1>c, <2>1, <4>2
      <4> QED BY <2>1, <4>2, <4>3, <4>4, <4>5 DEF Once
    <3> QED BY <3>2, <3>3
  <2> QED BY <1>4, <2>2, <2>3, WorldFacts
<1>5. ASSUME NEW b \in Actions, Claims(b) PROVE Once(a)'
  <2>1. PICK s \in Action, c \in Call :
          /\ row' = [row EXCEPT ![b] = s] /\ s.claims = row[b].claims + 1
          /\ s.status \in Claimed
          /\ calls' = calls \cup {c} /\ c.of = b
          /\ c.stage = "claimed" => row[b].status = "queued"
          /\ UNCHANGED <<transit, issue, made>>
    BY <1>5 DEF Claims, Claimed
  <2>2. row'[a] = IF a = b THEN s ELSE row[a] BY <2>1 DEF TypeOK
  <2>3. OnTheWay(a)' => OnTheWay(a) BY <1>t, <2>1
  <2>4. CASE Unsent(a)' => Unsent(a)
    BY <1>s, <2>1, <2>2, <2>3, <2>4 DEF Claimed
  <2>5. CASE Unsent(a)' /\ ~ Unsent(a)
    <3>1. a = b /\ c.stage = "claimed" BY <2>1, <2>5 DEF Unsent
    <3>2. row[a].claims = 0 BY <2>1, <3>1 DEF FenceInv, Fenced, Open
    <3>3. made[a] = 0 BY <1>0, <3>2 DEF Once
    <3>4. ~ OnTheWay(a) BY <3>2 DEF OnTheWay, CallsInv, RequestOk
    <3>5. row'[a].status # "failed" BY <2>1, <2>2, <3>1 DEF Claimed
    <3>6. made'[a] = 0 BY <2>1, <3>3
    <3> QED BY <2>3, <3>4, <3>5, <3>6 DEF Once
  <2> QED BY <2>4, <2>5
<1>6. ASSUME NEW b \in Actions, Blocks(b) PROVE Once(a)'
  <2>1. row' = [row EXCEPT ![b] = [row[b] EXCEPT !.status = "repair_blocked", !.repair = 0]]
        /\ UNCHANGED <<calls, transit, made>>
    BY <1>6 DEF Blocks
  <2>2. row[b] \in Action BY DEF TypeOK
  <2>3. row'[a].status = "failed" => row[a].status = "failed"
    BY <2>1, <2>2 DEF TypeOK, Action
  <2> QED BY <1>s, <1>c, <1>t, <2>1, <2>3
<1>7. ASSUME NEW c \in calls, Records(c) PROVE Once(a)'
  <2>1. PICK r \in Action : /\ Record(c, r) /\ Results(c, r)
                            /\ transit' \subseteq transit /\ made' = made
    BY <1>7 DEF Records
  <2>2. calls' \subseteq calls BY <2>1 DEF Record
  <2>3. CASE row'[a].status = "failed" => row[a].status = "failed"
    BY <1>s, <1>c, <1>t, <2>1, <2>2, <2>3
  <2>4. CASE row'[a].status = "failed" /\ row[a].status # "failed"
    <3>1. a = c.of /\ row'[a] = r BY <2>1, <2>4, RecordedRows
    <3>2. c.stage = "create" /\ Sent(c) # {} /\ transit' = transit \ Sent(c)
      BY <2>1, <2>4, <3>1 DEF Results
    <3>3. c.by = 1 BY <3>2 DEF CallsInv, CallOk
    <3>4. \A q \in transit : q.of = a => (q.kind = "create" <=> q \in Sent(c))
      BY <3>1, <3>3 DEF CallsInv, RequestOk, Sent
    <3>5. OnTheWay(a) BY <3>1, <3>2, <3>4 DEF OnTheWay, Sent
    <3>6. made[a] = 0 /\ ~ Unsent(a) BY <1>0, <3>5 DEF Once
    <3>7. ~ OnTheWay(a)' BY <3>2, <3>4 DEF OnTheWay
    <3>8. ~ Unsent(a)' /\ made'[a] = 0 BY <1>c, <2>1, <2>2, <3>6
    <3> QED BY <3>7, <3>8 DEF Once
  <2> QED BY <2>3, <2>4
<1>8. ASSUME NEW c \in calls, GoesOn(c) PROVE Once(a)'
  <2>0. row'[a].status = row[a].status /\ row'[a].claims = row[a].claims
    BY <1>8, DispatchedRows
  <2>1. PICK d \in Call :
          /\ calls' = (calls \ {c}) \cup {d} /\ d.of = c.of /\ d.stage # "claimed"
          /\ \/ /\ c.stage = "claimed"
                /\ transit' = transit \cup
                       {[kind |-> "create", of |-> c.of, by |-> c.by, on |-> 0]}
             \/ transit' = transit \cup
                       {[kind |-> "label", of |-> c.of, by |-> c.by, on |-> c.on]}
             \/ transit' = transit
          /\ made' = made
    BY <1>8 DEF GoesOn
  <2>2. Unsent(a)' => Unsent(a) BY <2>1 DEF Unsent
  <2>3. CASE OnTheWay(a)' => OnTheWay(a) BY <1>s, <2>0, <2>1, <2>2, <2>3
  <2>4. CASE OnTheWay(a)' /\ ~ OnTheWay(a)
    <3>1. c.stage = "claimed" /\ a = c.of BY <2>1, <2>4 DEF OnTheWay
    <3>2. Unsent(a) BY <3>1 DEF Unsent
    <3>3. made[a] = 0 /\ row[a].status # "failed" BY <1>0, <3>2 DEF Once
    <3>4. ~ Unsent(a)'
      <4> SUFFICES ASSUME NEW e \in calls, e # c, e.of = a, e.stage = "claimed"
                   PROVE  FALSE
        BY <2>1 DEF Unsent
      <4>1. c.by = 1 /\ e.by = 1 BY <3>1 DEF CallsInv, CallOk
      <4> QED BY <3>1, <4>1 DEF CallsInv
    <3>5. made'[a] = 0 BY <2>1, <3>3
    <3> QED BY <2>0, <3>3, <3>4, <3>5 DEF Once
  <2> QED BY <2>3, <2>4
<1> QED BY <1>1, <1>2, <1>3, <1>4, <1>5, <1>6, <1>7, <1>8 DEF Moves

-----------------------------------------------------------------------------
(* Evidence: an issue that carries a marker was made for it, and what rows *)
(* and calls name carries their own.                                       *)

MarkersAreMade == \A k \in Issues : issue[k].of # 0 => made[issue[k].of] = 1
RowNames(a) ==
    /\ row[a].node # 0 => issue[row[a].node].of = a
    /\ row[a].status \in Found => row[a].node # 0
    /\ row[a].status = "conflict" => made[a] = 1
CallNames(c) ==
    /\ \A k \in Evidence(c) : issue[k].of = c.of
    /\ c.op = "repair" => row[c.of].node # 0
    /\ c.op = "execute" /\ c.stage = "read" => row[c.of].node # 0
EvidenceInv == /\ MarkersAreMade
               /\ \A a \in Actions : RowNames(a)
               /\ \A c \in calls : CallNames(c)

LedgerInv == TypeOK /\ FenceInv /\ CallsInv /\ OnceInv /\ EvidenceInv

\* Markers stay where they are, and effects are not undone.
LEMMA MarkersStand ==
    ASSUME LedgerInv, Moves
    PROVE  /\ \A k \in Issues : issue[k].of # 0 => issue'[k].of = issue[k].of
           /\ \A a \in Actions : made[a] = 1 => made'[a] = 1
           /\ MarkersAreMade'
<1> USE DEF LedgerInv
<1>1. CASE UNCHANGED <<issue, made>> BY <1>1 DEF EvidenceInv, MarkersAreMade
<1>2. CASE Copies
  <2>1. \A k \in Issues : issue[k].of # 0 => issue'[k].of = issue[k].of
    BY <1>2 DEF Copies
  <2>2. MarkersAreMade' BY <1>2 DEF Copies, EvidenceInv, MarkersAreMade
  <2> QED BY <1>2, <2>1, <2>2 DEF Copies
<1>3. ASSUME NEW q \in transit, NEW n \in Issues, Creates(q, n)
      PROVE  /\ \A k \in Issues : issue[k].of # 0 => issue'[k].of = issue[k].of
             /\ \A a \in Actions : made[a] = 1 => made'[a] = 1
             /\ MarkersAreMade'
  <2>0. q.of \in Actions /\ q.kind = "create" BY <1>3 DEF TypeOK, Request, Creates
  <2>1. OnTheWay(q.of) BY <2>0 DEF OnTheWay
  <2>2. made[q.of] = 0 BY <2>0, <2>1 DEF OnceInv, Once
  <2>3. \A a \in Actions : made'[a] = IF a = q.of THEN 1 ELSE made[a]
    BY <1>3, <2>2 DEF Creates, TypeOK
  <2>4. \A k \in Issues : issue'[k].of = IF k = n THEN q.of ELSE issue[k].of
    BY <1>3 DEF Creates
  <2>5. issue[n].of = 0 BY <1>3 DEF Creates
  <2>6. \A k \in Issues : issue[k].of \in {0} \cup Actions BY DEF TypeOK, Issue
  <2>7. MarkersAreMade' BY <2>0, <2>3, <2>4, <2>6 DEF EvidenceInv, MarkersAreMade
  <2> QED BY <2>2, <2>3, <2>4, <2>5, <2>7
<1>4. UNCHANGED <<issue, made>> \/ WorldMoves
  <2>1. StaysOpen \/ Drops \/ GivesUp => UNCHANGED <<issue, made>>
    BY DEF StaysOpen, Drops, GivesUp
  <2>2. \A a \in Actions : Claims(a) \/ Blocks(a) => UNCHANGED <<issue, made>>
    BY DEF Claims, Blocks
  <2>3. \A c \in calls : Records(c) \/ GoesOn(c) => UNCHANGED <<issue, made>>
    BY DEF Records, GoesOn
  <2> QED BY <2>1, <2>2, <2>3 DEF Moves
<1> QED BY <1>1, <1>2, <1>3, <1>4, WorldFacts

\* A row keeps its issue, or names another that carries its marker.
LEMMA NodesStand ==
    ASSUME LedgerInv, Moves, NEW a \in Actions
    PROVE  \/ row'[a].node = row[a].node
           \/ row'[a].node \in Issues /\ issue[row'[a].node].of = a
<1> USE DEF LedgerInv
<1>0. row[a] \in Action /\ now \in Nat BY DEF TypeOK
<1>1. CASE StaysOpen BY <1>1 DEF StaysOpen
<1>2. CASE Drops \/ WorldMoves BY <1>2 DEF Drops, WorldMoves
<1>3. CASE GivesUp
  <2>1. Recovered(row[a], now).node = row[a].node BY <1>0, RecoveredFields
  <2> QED BY <1>3, <2>1 DEF GivesUp
<1>4. ASSUME NEW b \in Actions, Claims(b) PROVE row'[a].node = row[a].node
  <2>1. PICK s \in Action : row' = [row EXCEPT ![b] = s] /\ s.node = row[b].node
    BY <1>4 DEF Claims
  <2> QED BY <2>1 DEF TypeOK
<1>5. ASSUME NEW b \in Actions, Blocks(b) PROVE row'[a].node = row[a].node
  <2>1. row' = [row EXCEPT ![b] = [row[b] EXCEPT !.status = "repair_blocked", !.repair = 0]]
    BY <1>5 DEF Blocks
  <2>2. row[b] \in Action BY DEF TypeOK
  <2> QED BY <2>1, <2>2 DEF TypeOK, Action
<1>6. ASSUME NEW c \in calls, Records(c)
      PROVE  \/ row'[a].node = row[a].node
             \/ row'[a].node \in Issues /\ issue[row'[a].node].of = a
  <2>1. PICK r \in Action : Record(c, r) /\ Results(c, r) BY <1>6 DEF Records
  <2>2. row'[a] = row[a] \/ (a = c.of /\ row'[a] = r) BY <2>1, RecordedRows
  <2>3. r.node = row[c.of].node \/ r.node \in Evidence(c) BY <2>1 DEF Results
  <2>4. \A k \in Evidence(c) : k \in Issues /\ issue[k].of = c.of
    BY DEF EvidenceInv, CallNames, Evidence
  <2> QED BY <2>2, <2>3, <2>4
<1>7. ASSUME NEW c \in calls, GoesOn(c)
      PROVE  \/ row'[a].node = row[a].node
             \/ row'[a].node \in Issues /\ issue[row'[a].node].of = a
  BY <1>7, DispatchedRows
<1> QED BY <1>1, <1>2, <1>3, <1>4, <1>5, <1>6, <1>7 DEF Moves

\* What carries a marker or is named stays so.
LEMMA NamesStand ==
    ASSUME LedgerInv, Moves
    PROVE  /\ \A a \in Actions : row'[a].node # 0 => issue'[row'[a].node].of = a
           /\ \A a \in Actions : row[a].node # 0 => row'[a].node # 0
           /\ \A a \in Actions, k \in Issues : issue[k].of = a => issue'[k].of = a
<1>1. ASSUME NEW a \in Actions, NEW k \in Issues, issue[k].of = a
      PROVE  issue'[k].of = a
  <2>1. a # 0 BY LedgerAssumption
  <2> QED BY <1>1, <2>1, MarkersStand
<1>2. ASSUME NEW a \in Actions
      PROVE  /\ row[a].node # 0 => row'[a].node # 0
             /\ row'[a].node # 0 => issue'[row'[a].node].of = a
  <2>1. row[a].node \in {0} \cup Issues /\ 0 \notin Issues
    BY DEF LedgerInv, TypeOK, Action, Issues
  <2>2. row[a].node # 0 => issue[row[a].node].of = a
    BY DEF LedgerInv, EvidenceInv, RowNames
  <2>3. \/ row'[a].node = row[a].node
        \/ row'[a].node \in Issues /\ issue[row'[a].node].of = a
    BY NodesStand
  <2> QED BY <1>1, <2>1, <2>2, <2>3
<1> QED BY <1>1, <1>2

\* What a step finds or doubts: the phases of the rows.
LEMMA FoundAreNamed ==
    ASSUME LedgerInv, Moves, NEW a \in Actions
    PROVE  /\ row'[a].status \in Found => row'[a].node # 0
           /\ row'[a].status = "conflict" => made'[a] = 1
<1> USE DEF LedgerInv
<1>0. row[a] \in Action /\ now \in Nat /\ RowNames(a) BY DEF TypeOK, EvidenceInv
<1>n. row[a].node # 0 => row'[a].node # 0 BY NamesStand
<1>m. made[a] = 1 => made'[a] = 1 BY MarkersStand
<1>s. ASSUME row'[a].status = row[a].status
      PROVE  /\ row'[a].status \in Found => row'[a].node # 0
             /\ row'[a].status = "conflict" => made'[a] = 1
  BY <1>0, <1>n, <1>m, <1>s DEF RowNames
<1>1. CASE StaysOpen
  <2>1. CASE row'[a] = row[a] BY <1>s, <2>1
  <2>2. CASE row'[a].status \in Open BY <2>2 DEF Open, Found
  <2> QED BY <1>1, <2>1, <2>2 DEF StaysOpen
<1>2. CASE Drops \/ WorldMoves BY <1>2, <1>s DEF Drops, WorldMoves
<1>3. CASE GivesUp
  <2>1. CASE row'[a] = row[a] BY <1>s, <2>1
  <2>2. CASE row'[a] = Recovered(row[a], now)
    <3>1. row'[a].status = "unknown" BY <1>0, <2>2, RecoveredFields
    <3> QED BY <3>1 DEF Found
  <2> QED BY <1>3, <2>1, <2>2 DEF GivesUp
<1>4. ASSUME NEW b \in Actions, Claims(b)
      PROVE  /\ row'[a].status \in Found => row'[a].node # 0
             /\ row'[a].status = "conflict" => made'[a] = 1
  <2>1. PICK s \in Action :
          /\ row' = [row EXCEPT ![b] = s]
          /\ \/ s.status \in {"executing", "reconciling"}
             \/ s.status = "repairing" /\ row[b].status \in Found
    BY <1>4 DEF Claims, Found
  <2>2. CASE a # b
    <3>1. row'[a] = row[a] BY <2>1, <2>2 DEF TypeOK
    <3> QED BY <1>s, <3>1
  <2>3. CASE a = b
    <3>1. row'[a] = s BY <2>1, <2>3 DEF TypeOK
    <3> QED BY <1>0, <1>n, <2>1, <2>3, <3>1 DEF RowNames, Found
  <2> QED BY <2>2, <2>3
<1>5. ASSUME NEW b \in Actions, Blocks(b)
      PROVE  /\ row'[a].status \in Found => row'[a].node # 0
             /\ row'[a].status = "conflict" => made'[a] = 1
  <2>1. /\ row' = [row EXCEPT ![b] = [row[b] EXCEPT !.status = "repair_blocked", !.repair = 0]]
        /\ row[b].status \in Found
    BY <1>5 DEF Blocks, Found
  <2>2. CASE a # b
    <3>1. row'[a] = row[a] BY <2>1, <2>2 DEF TypeOK
    <3> QED BY <1>s, <3>1
  <2>3. CASE a = b
    <3>1. row'[a].status = "repair_blocked" BY <1>0, <2>1, <2>3 DEF TypeOK, Action
    <3> QED BY <1>0, <1>n, <2>1, <2>3, <3>1 DEF RowNames
  <2> QED BY <2>2, <2>3
<1>6. ASSUME NEW c \in calls, Records(c)
      PROVE  /\ row'[a].status \in Found => row'[a].node # 0
             /\ row'[a].status = "conflict" => made'[a] = 1
  <2>1. PICK r \in Action : Record(c, r) /\ Results(c, r) BY <1>6 DEF Records
  <2>2. CASE row'[a] = row[a] BY <1>s, <2>2
  <2>3. CASE a = c.of /\ row'[a] = r
    <3>0. CallNames(c) /\ CallOk(c) /\ 0 \notin Issues
      BY DEF EvidenceInv, CallsInv, Issues
    <3>1. CASE r.status \in {"unknown", "failed"} BY <2>3, <3>1 DEF Found
    <3>2. CASE r.status = "conflict" /\ Evidence(c) # {}
      <4>1. PICK k \in Issues : issue[k].of = a
        BY <2>3, <3>0, <3>2 DEF CallNames, Evidence
      <4>2. a # 0 BY LedgerAssumption
      <4>3. made[a] = 1 BY <4>1, <4>2 DEF EvidenceInv, MarkersAreMade
      <4> QED BY <1>m, <2>3, <3>2, <4>3 DEF Found
    <3>3. CASE r.status # "conflict" /\ r.node \in Evidence(c)
      <4>1. r.node \in Issues BY <3>3 DEF Evidence
      <4> QED BY <2>3, <3>0, <3>3, <4>1
    <3>4. CASE /\ r.status # "conflict" /\ r.node = row[c.of].node
               /\ \/ c.op = "repair" \/ c.stage \in {"label", "verify"}
                  \/ c.op = "execute" /\ c.stage = "read"
      <4>1. c.op = "repair" \/ (c.op = "execute" /\ c.stage = "read")
        BY <3>0, <3>4 DEF CallOk
      <4>2. row[c.of].node # 0 BY <3>0, <4>1 DEF CallNames
      <4> QED BY <2>3, <3>4, <4>2
    <3> QED BY <2>1, <3>1, <3>2, <3>3, <3>4 DEF Results
  <2> QED BY <2>1, <2>2, <2>3, RecordedRows
<1>7. ASSUME NEW c \in calls, GoesOn(c)
      PROVE  /\ row'[a].status \in Found => row'[a].node # 0
             /\ row'[a].status = "conflict" => made'[a] = 1
  BY <1>7, <1>s, DispatchedRows
<1> QED BY <1>1, <1>2, <1>3, <1>4, <1>5, <1>6, <1>7 DEF Moves

LEMMA MovesKeepEvidence == LedgerInv /\ Moves => EvidenceInv'
<1> SUFFICES ASSUME LedgerInv, Moves PROVE EvidenceInv' OBVIOUS
<1>1. MarkersAreMade' BY MarkersStand
<1>2. ASSUME NEW a \in Actions PROVE RowNames(a)'
  BY NamesStand, FoundAreNamed DEF RowNames
<1>k. ASSUME NEW c \in calls PROVE CallNames(c)'
  <2>1. c.of \in Actions BY DEF LedgerInv, TypeOK, Call
  <2>2. CallNames(c) BY DEF LedgerInv, EvidenceInv
  <2>3. \A k \in Evidence(c) : k \in Issues BY DEF Evidence
  <2> QED BY <2>1, <2>2, <2>3, NamesStand DEF CallNames
<1>3. ASSUME NEW c \in calls' PROVE CallNames(c)'
  <2>1. CASE c \in calls BY <1>k, <2>1
  <2>2. ASSUME c \notin calls, NEW a \in Actions, Claims(a) PROVE CallNames(c)'
    <3>1. PICK s \in Action, e \in Call :
            /\ row' = [row EXCEPT ![a] = s] /\ s.node = row[a].node
            /\ calls' = calls \cup {e} /\ e.of = a /\ e.on = s.node
            /\ e.left = {} /\ e.matches = {}
            /\ \/ e.stage \in {"claimed", "search"} /\ e.op # "repair"
               \/ e.op = "repair" /\ row[a].status \in Found
            /\ issue' = issue
      BY ZenonT(60), <2>2 DEF Claims, Found
    <3>2. c = e BY <1>3, <2>2, <3>1
    <3>3. RowNames(a) /\ row'[a] = s BY <3>1 DEF LedgerInv, EvidenceInv, TypeOK
    <3>4. \A k \in Evidence(e) : k \in Issues /\ k = row[a].node /\ k # 0
      BY <3>1 DEF Evidence, Issues
    <3>5. \A k \in Evidence(e) : issue'[k].of = e.of BY <3>1, <3>3, <3>4 DEF RowNames
    <3>6. e.op = "repair" => row'[e.of].node # 0 BY <3>1, <3>3 DEF RowNames
    <3> QED BY <3>1, <3>2, <3>5, <3>6 DEF CallNames
  <2>3. ASSUME c \notin calls, NEW d \in calls, GoesOn(d) PROVE CallNames(c)'
    <3>1. PICK e \in Call :
            /\ calls' = (calls \ {d}) \cup {e} /\ e.of = d.of /\ e.op = d.op
            /\ \A k \in Evidence(e) : k \in Evidence(d) \/ issue[k].of = d.of
            /\ \/ e.stage # "read"
               \/ \E k \in Issues : row' = [row EXCEPT ![d.of] = Dispatched(row[d.of], k)]
      BY <2>3 DEF GoesOn
    <3>2. c = e BY <1>3, <2>3, <3>1
    <3>3. CallNames(d) /\ d.of \in Actions /\ row[d.of] \in Action /\ 0 \notin Issues
      BY DEF LedgerInv, EvidenceInv, TypeOK, Call, Issues
    <3>4. \A k \in Evidence(e) : k \in Issues /\ issue[k].of = d.of
      BY <3>1, <3>3 DEF CallNames, Evidence
    <3>5. \A k \in Evidence(e) : issue'[k].of = e.of
      BY <3>1, <3>3, <3>4, NamesStand
    <3>6. CASE e.op = "repair" BY <3>1, <3>2, <3>3, <3>5, <3>6, NamesStand DEF CallNames
    <3>7. CASE e.op = "execute" /\ e.stage = "read"
      <4>1. PICK k \in Issues : row' = [row EXCEPT ![d.of] = Dispatched(row[d.of], k)]
        BY <3>1, <3>7
      <4>2. Dispatched(row[d.of], k).node = k BY <3>3 DEF Dispatched, Action
      <4>3. row'[d.of] = Dispatched(row[d.of], k)
        BY <3>3, <4>1 DEF LedgerInv, TypeOK
      <4> QED BY <3>1, <3>2, <3>3, <3>5, <4>2, <4>3 DEF CallNames
    <3> QED BY <3>2, <3>5, <3>6, <3>7 DEF CallNames
  <2>4. \/ calls' \subseteq calls \/ \E a \in Actions : Claims(a)
        \/ \E d \in calls : GoesOn(d)
    BY DEF Moves, StaysOpen, Drops, GivesUp, WorldMoves, Blocks, Records, Record
  <2> QED BY <1>3, <2>1, <2>2, <2>3, <2>4
<1> QED BY <1>1, <1>2, <1>3 DEF EvidenceInv

LEMMA InitLedger == Init => LedgerInv
<1> SUFFICES ASSUME Init PROVE LedgerInv OBVIOUS
<1>1. CallsInv BY DEF Init, CallsInv
<1>2. OnceInv BY DEF Init, OnceInv, Once, OnTheWay, Unsent, Undeclared
<1>3. MarkersAreMade BY DEF Init, MarkersAreMade, NoIssue
<1>4. \A a \in Actions : RowNames(a)
  BY DEF Init, RowNames, Undeclared, Found
<1>5. EvidenceInv BY <1>3, <1>4 DEF Init, EvidenceInv
<1> QED BY <1>1, <1>2, <1>5, InitTypes, InitFence DEF LedgerInv

LEMMA StepLedger == LedgerInv /\ [Next]_vars => LedgerInv' /\ Moves
BY StepTypes, StepsMove, MovesKeepFence, MovesKeepCalls, MovesKeepOnce,
   MovesKeepEvidence DEF LedgerInv

\* An action that was found names an issue that carries its marker
\* (ActionLedger).
THEOREM FoundAreIdentified == Spec => []FoundIsIdentified
<1>1. LedgerInv => FoundIsIdentified
  BY DEF LedgerInv, EvidenceInv, RowNames, FoundIsIdentified
<1> QED BY <1>1, InitLedger, StepLedger, PTL DEF Spec

-----------------------------------------------------------------------------
(* The ledger implements the promise.                                      *)

phaseOf == [a \in Actions |-> Phases(row[a])]

\* What the phase of a row says of its effect.
LEMMA PhaseFacts ==
    ASSUME LedgerInv, NEW a \in Actions
    PROVE  /\ Phases(row[a]) = "done" => made[a] = 1
           /\ Phases(row[a]) = "void" => made[a] = 0
           /\ OnTheWay(a) => Phases(row[a]) = "tried" /\ made[a] = 0
<1>0. /\ row[a].status \in Statuses /\ Fenced(row[a], decider[a]) /\ Once(a)
      /\ RowNames(a) /\ row[a].node \in {0} \cup Issues
  BY DEF LedgerInv, TypeOK, Action, FenceInv, OnceInv, EvidenceInv
<1>1. Phases(row[a]) = "done" => row[a].status \in Found \cup {"conflict"}
  BY <1>0 DEF Phases, Statuses, Claimed, Found
<1>2. row[a].status \in Found => made[a] = 1
  <2> SUFFICES ASSUME row[a].status \in Found PROVE made[a] = 1 OBVIOUS
  <2>1. row[a].node \in Issues /\ issue[row[a].node].of = a BY <1>0 DEF RowNames
  <2>2. a # 0 BY LedgerAssumption
  <2> QED BY <2>1, <2>2 DEF LedgerInv, EvidenceInv, MarkersAreMade
<1>3. row[a].status = "conflict" => made[a] = 1 BY <1>0 DEF RowNames
<1>4. Phases(row[a]) = "void" => row[a].status = "failed" BY DEF Phases
<1>5. row[a].status = "failed" => made[a] = 0 BY <1>0 DEF Once
<1>6. ASSUME OnTheWay(a) PROVE Phases(row[a]) = "tried" /\ made[a] = 0
  <2>1. made[a] = 0 BY <1>0, <1>6 DEF Once
  <2>2. row[a].claims # 0
    <3>1. PICK q \in transit : q.of = a /\ RequestOk(q)
      BY <1>6 DEF OnTheWay, LedgerInv, CallsInv
    <3>2. row[a].claims \in Nat BY DEF LedgerInv, TypeOK, Action
    <3> QED BY <3>1, <3>2 DEF RequestOk
  <2>3. row[a].status \notin Open BY <1>0, <2>2 DEF Fenced
  <2>4. row[a].status # "failed" BY <1>0, <1>6 DEF Once
  <2> QED BY <1>1, <1>2, <1>3, <2>1, <2>3, <2>4 DEF Phases, Open
<1> QED BY <1>1, <1>2, <1>3, <1>4, <1>5, <1>6

SettledBy(r, n) == /\ Phases(r) = "done" => n = 1
                   /\ Phases(r) = "void" => n = 0
Settled == \A a \in Actions : SettledBy(row[a], made[a])
LEMMA SettledNow == LedgerInv => Settled
BY PhaseFacts DEF Settled, SettledBy
LEMMA SettledNext == LedgerInv' => Settled'
BY SettledNow, PTL

\* Steps of one row, given what its phase does.
LEMMA OneRowSteps ==
    ASSUME LedgerInv, LedgerInv', made' = made, NEW a \in Actions,
           \A b \in Actions : b # a => row'[b] = row[b],
           \/ Phases(row'[a]) = Phases(row[a])
           \/ Phases(row[a]) = "open" /\ Phases(row'[a]) = "tried"
           \/ Phases(row[a]) = "tried" /\ Phases(row'[a]) \in {"done", "void"}
           \/ Phases(row[a]) = "done" /\ Phases(row'[a]) = "tried"
    PROVE  [Promise!Next]_<<phaseOf, made>>
<1>1. phaseOf' = [phaseOf EXCEPT ![a] = Phases(row'[a])] BY DEF phaseOf
<1>2. phaseOf[a] = Phases(row[a]) BY DEF phaseOf
<1>3. CASE Phases(row'[a]) = Phases(row[a]) BY <1>1, <1>2, <1>3 DEF phaseOf
<1>4. CASE Phases(row[a]) = "open" /\ Phases(row'[a]) = "tried"
  <2>1. Promise!Try(a) BY <1>1, <1>2, <1>4 DEF Promise!Try, phaseOf
  <2> QED BY <2>1 DEF Promise!Next
<1>5. CASE Phases(row[a]) = "tried" /\ Phases(row'[a]) \in {"done", "void"}
  <2>1. Phases(row'[a]) = IF made[a] = 0 THEN "void" ELSE "done"
    <3>1. /\ Phases(row'[a]) = "done" => made'[a] = 1
          /\ Phases(row'[a]) = "void" => made'[a] = 0
      <4>1. Settled' BY SettledNext
      <4>2. SettledBy(row'[a], made'[a]) BY <4>1 DEF Settled
      <4> QED BY <4>2 DEF SettledBy
    <3> QED BY <1>5, <3>1
  <2>2. Promise!Settle(a) BY <1>1, <1>2, <1>5, <2>1 DEF Promise!Settle, phaseOf
  <2> QED BY <2>2 DEF Promise!Next
<1>6. CASE Phases(row[a]) = "done" /\ Phases(row'[a]) = "tried"
  <2>1. Promise!Doubt({a}) BY <1>1, <1>2, <1>6 DEF Promise!Doubt, phaseOf
  <2> QED BY <2>1 DEF Promise!Next
<1> QED BY <1>3, <1>4, <1>5, <1>6

LEMMA StepsPromise ==
    LedgerInv /\ LedgerInv' /\ Moves => [Promise!Next]_<<phaseOf, made>>
<1> SUFFICES ASSUME LedgerInv, LedgerInv', Moves
             PROVE  [Promise!Next]_<<phaseOf, made>>
  OBVIOUS
<1>0. \A a \in Actions : row[a] \in Action BY DEF LedgerInv, TypeOK
<1>i. ASSUME made' = made, \A a \in Actions : Phases(row'[a]) = Phases(row[a])
      PROVE  [Promise!Next]_<<phaseOf, made>>
  BY <1>i DEF phaseOf
<1>1. CASE StaysOpen
  <2>1. \A a \in Actions : Phases(row'[a]) = Phases(row[a])
    BY <1>1 DEF StaysOpen, Open, Phases
  <2> QED BY <1>1, <1>i, <2>1 DEF StaysOpen
<1>2. CASE Drops BY <1>2, <1>i DEF Drops
<1>3. CASE GivesUp
  <2> DEFINE I == {a \in Actions : row'[a] # row[a] /\ row[a].status = "repairing"}
  <2>0. now \in Nat /\ made' = made BY <1>3 DEF LedgerInv, TypeOK, GivesUp
  <2>1. \A a \in Actions : row'[a] # row[a] =>
           row[a].status \in Claimed /\ Phases(row'[a]) = "tried"
    BY <1>0, <1>3, <2>0, RecoveredFields DEF GivesUp, Phases
  <2>2. \A a \in I : Phases(row[a]) = "done" BY DEF Phases
  <2>3. \A a \in Actions : Phases(row'[a]) = IF a \in I THEN "tried" ELSE Phases(row[a])
    BY <2>1 DEF Phases, Claimed
  <2>4. I \in SUBSET Actions OBVIOUS
  <2> HIDE DEF I
  <2>5. Promise!Doubt(I) BY <2>0, <2>2, <2>3, <2>4 DEF Promise!Doubt, phaseOf
  <2> QED BY <2>4, <2>5 DEF Promise!Next
<1>4. CASE WorldMoves
  <2>1. row' = row BY <1>4 DEF WorldMoves
  <2>2. CASE Copies BY <1>i, <2>1, <2>2 DEF Copies
  <2>3. ASSUME NEW q \in transit, NEW k \in Issues, Creates(q, k)
        PROVE  [Promise!Next]_<<phaseOf, made>>
    <3>1. q.of \in Actions /\ q.kind = "create" /\ made' = [made EXCEPT ![q.of] = @ + 1]
      BY <2>3 DEF LedgerInv, TypeOK, Request, Creates
    <3>2. OnTheWay(q.of) BY <3>1 DEF OnTheWay
    <3>3. Phases(row[q.of]) = "tried" /\ made[q.of] = 0 BY <3>1, <3>2, PhaseFacts
    <3>4. made' = [made EXCEPT ![q.of] = 1] BY <3>1, <3>3
    <3>5. Promise!TakeEffect(q.of)
      BY <2>1, <3>1, <3>3, <3>4 DEF Promise!TakeEffect, phaseOf
    <3> QED BY <3>1, <3>5 DEF Promise!Next
  <2> QED BY <1>4, <2>2, <2>3, WorldFacts DEF LedgerInv
<1>5. ASSUME NEW a \in Actions, Claims(a) PROVE [Promise!Next]_<<phaseOf, made>>
  <2>1. PICK s \in Action :
          /\ row' = [row EXCEPT ![a] = s] /\ made' = made
          /\ \/ row[a].status = "queued" /\ s.status = "executing"
             \/ row[a].status = "unknown" /\ s.status = "reconciling"
             \/ /\ row[a].status \in {"partially_applied", "repair_retry_wait"}
                /\ s.status = "repairing"
    BY <1>5 DEF Claims
  <2>2. row'[a] = s /\ \A b \in Actions : b # a => row'[b] = row[b]
    BY <2>1 DEF LedgerInv, TypeOK
  <2>3. \/ Phases(row'[a]) = Phases(row[a])
        \/ Phases(row[a]) = "open" /\ Phases(row'[a]) = "tried"
    BY <2>1, <2>2 DEF Phases
  <2> QED BY <2>1, <2>2, <2>3, OneRowSteps
<1>6. ASSUME NEW a \in Actions, Blocks(a) PROVE [Promise!Next]_<<phaseOf, made>>
  <2>1. /\ row' = [row EXCEPT ![a] = [row[a] EXCEPT !.status = "repair_blocked", !.repair = 0]]
        /\ row[a].status \in {"partially_applied", "repair_retry_wait"} /\ made' = made
    BY <1>6 DEF Blocks
  <2>2. row'[a].status = "repair_blocked" /\ \A b \in Actions : b # a => row'[b] = row[b]
    BY <1>0, <2>1 DEF LedgerInv, TypeOK, Action
  <2>3. Phases(row'[a]) = Phases(row[a]) BY <2>1, <2>2 DEF Phases
  <2> QED BY <2>1, <2>2, <2>3, OneRowSteps
<1>7. ASSUME NEW c \in calls, Records(c) PROVE [Promise!Next]_<<phaseOf, made>>
  <2>1. PICK r \in Action : Record(c, r) /\ Results(c, r) /\ made' = made
    BY <1>7 DEF Records
  <2>2. c.of \in Actions /\ TypeOK /\ FenceInv BY DEF LedgerInv, TypeOK, Call
  <2>3. \A b \in Actions : b # c.of => row'[b] = row[b] BY <2>1, <2>2, RecordedRows
  <2>4. CASE row'[c.of] = row[c.of] BY <1>i, <2>1, <2>3, <2>4
  <2>5. CASE Holds(c) /\ row'[c.of] = r
    <3>1. row[c.of].status = Phase(c.op) BY <2>2, <2>5, HoldersAreLast
    <3>2. r.status \in {"unknown", "failed", "succeeded", "partially_applied",
                         "repair_retry_wait", "repair_blocked", "conflict"}
      BY <2>1 DEF Results
    <3>3. r.status = "failed" => c.op = "execute"
      BY <2>1 DEF Results, LedgerInv, CallsInv, CallOk
    <3>4. Phases(row[c.of]) \in {"tried", "done"} BY <3>1 DEF Phase, Phases
    <3>5. Phases(r) \in {"tried", "done", "void"} BY <3>2 DEF Phases
    <3>6. Phases(r) = "void" => Phases(row[c.of]) = "tried"
      BY <3>1, <3>2, <3>3 DEF Phase, Phases
    <3> QED BY <2>1, <2>2, <2>3, <2>5, <3>4, <3>5, <3>6, OneRowSteps
  <2> QED BY <2>1, <2>2, <2>4, <2>5, RecordedRows
<1>8. ASSUME NEW c \in calls, GoesOn(c) PROVE [Promise!Next]_<<phaseOf, made>>
  <2>1. \A a \in Actions : row'[a].status = row[a].status
    BY <1>8, DispatchedRows DEF LedgerInv
  <2>2. \A a \in Actions : Phases(row'[a]) = Phases(row[a]) BY <2>1 DEF Phases
  <2> QED BY <1>8, <1>i, <2>2 DEF GoesOn
<1> QED BY <1>1, <1>2, <1>3, <1>4, <1>5, <1>6, <1>7, <1>8 DEF Moves

\* One request at most takes effect, a failed action has none and a found one
\* has it: the ledger implements OneEffect.
THEOREM LedgerImplementsPromise == Spec => ImplementsOneEffect
<1>1. Init => Promise!Init
  BY DEF Init, Promise!Init, Undeclared, Phases
<1>2. Spec => [](LedgerInv /\ LedgerInv)
  BY InitLedger, StepLedger, PTL DEF Spec
<1>3. LedgerInv /\ LedgerInv' /\ [Next]_vars
        => [Promise!Next]_<<[a \in Actions |-> Phases(row[a])], made>>
  BY StepLedger, StepsPromise DEF phaseOf
<1> QED BY <1>1, <1>2, <1>3, PTL DEF Spec, ImplementsOneEffect, Promise!Spec

-----------------------------------------------------------------------------
(* Repairs: a claim for a repair counts before its call may send labels,   *)
(* so that the labels sent and those a call may yet send never exceed the  *)
(* repairs counted.                                                        *)

Readers(a) == {c \in calls : c.of = a /\ c.op = "repair" /\ c.stage = "read"}
Bounded(a) == /\ writes[a] + Cardinality(Readers(a)) <= row[a].repairs
              /\ row[a].repairs <= MaxRepairs
RepairsInv == IsFiniteSet(calls) /\ \A a \in Actions : Bounded(a)

\* Steps that neither claim a repair nor send labels.
Quiet ==
    /\ writes' = writes
    /\ \A a \in Actions : /\ Readers(a)' \subseteq Readers(a)
                         /\ row'[a].repairs = row[a].repairs
RepairClaimed(a, c) ==
    /\ writes' = writes /\ calls' = calls \cup {c} /\ c.of = a
    /\ row[a].repairs < MaxRepairs
    /\ \A b \in Actions : row'[b].repairs = IF b = a THEN row[a].repairs + 1
                                                     ELSE row[b].repairs
LabelSent(c, d) ==
    /\ c \in Readers(c.of) /\ d.stage = "label"
    /\ calls' = (calls \ {c}) \cup {d} /\ row' = row
    /\ writes' = [writes EXCEPT ![c.of] = @ + 1]

LEMMA RepairSteps ==
    ASSUME TypeOK, CallsInv, Moves
    PROVE  /\ \E d : calls' \subseteq calls \cup {d}
           /\ \/ Quiet
              \/ \E a \in Actions, c \in Call : RepairClaimed(a, c)
              \/ \E c \in calls, d \in Call : LabelSent(c, d)
<1>0. \A a \in Actions : row[a] \in Action BY DEF TypeOK
<1>q. ASSUME calls' \subseteq calls, writes' = writes,
             \A a \in Actions : row'[a].repairs = row[a].repairs
      PROVE  Quiet /\ \E d : calls' \subseteq calls \cup {d}
  BY <1>q DEF Quiet, Readers
<1>1. CASE StaysOpen
  <2>1. \A a \in Actions : row'[a].repairs = row[a].repairs BY <1>1 DEF StaysOpen
  <2> QED BY <1>1, <1>q, <2>1 DEF StaysOpen
<1>2. CASE Drops BY <1>2, <1>q DEF Drops
<1>3. CASE GivesUp
  <2>1. \A a \in Actions : row'[a].repairs = row[a].repairs
    <3> TAKE a \in Actions
    <3>1. Recovered(row[a], now).repairs = row[a].repairs BY <1>0, RecoveredFields
    <3> QED BY <1>3, <3>1 DEF GivesUp
  <2> QED BY <1>3, <1>q, <2>1 DEF GivesUp
<1>4. CASE WorldMoves
  <2>1. row' = row /\ calls' = calls /\ writes' = writes BY <1>4 DEF WorldMoves
  <2> QED BY <1>q, <2>1
<1>5. ASSUME NEW a \in Actions, Claims(a)
      PROVE  /\ \E d : calls' \subseteq calls \cup {d}
             /\ Quiet \/ \E c \in Call : RepairClaimed(a, c)
  <2>1. PICK s \in Action, c \in Call :
          /\ row' = [row EXCEPT ![a] = s] /\ calls' = calls \cup {c} /\ c.of = a
          /\ \/ c.op # "repair" /\ s.repairs = row[a].repairs
             \/ s.repairs = row[a].repairs + 1 /\ row[a].repairs < MaxRepairs
          /\ writes' = writes
    BY <1>5 DEF Claims
  <2>2. \A b \in Actions : row'[b] = IF b = a THEN s ELSE row[b] BY <2>1 DEF TypeOK
  <2>3. CASE c.op # "repair" /\ s.repairs = row[a].repairs
    <3>1. \A b \in Actions : row'[b].repairs = row[b].repairs BY <2>2, <2>3
    <3>2. \A b \in Actions : Readers(b)' \subseteq Readers(b) BY <2>1, <2>3 DEF Readers
    <3> QED BY <2>1, <3>1, <3>2 DEF Quiet
  <2>4. CASE s.repairs = row[a].repairs + 1 /\ row[a].repairs < MaxRepairs
    <3>1. RepairClaimed(a, c) BY <2>1, <2>2, <2>4 DEF RepairClaimed
    <3> QED BY <2>1, <3>1
  <2> QED BY <2>1, <2>3, <2>4
<1>6. ASSUME NEW a \in Actions, Blocks(a) PROVE Quiet /\ \E d : calls' \subseteq calls \cup {d}
  <2>1. row' = [row EXCEPT ![a] = [row[a] EXCEPT !.status = "repair_blocked", !.repair = 0]]
        /\ UNCHANGED <<calls, writes>>
    BY <1>6 DEF Blocks
  <2>2. \A b \in Actions : row'[b].repairs = row[b].repairs
    BY <1>0, <2>1 DEF TypeOK, Action
  <2> QED BY <1>q, <2>1, <2>2
<1>7. ASSUME NEW c \in calls, Records(c) PROVE Quiet /\ \E d : calls' \subseteq calls \cup {d}
  <2>1. PICK r \in Action : /\ Record(c, r) /\ r.repairs = row[c.of].repairs
                            /\ writes' = writes
    BY <1>7 DEF Records
  <2>2. calls' \subseteq calls BY <2>1 DEF Record
  <2>3. \A a \in Actions : row'[a].repairs = row[a].repairs BY <2>1, RecordedRows
  <2> QED BY <1>q, <2>1, <2>2, <2>3
<1>8. ASSUME NEW c \in calls, GoesOn(c)
      PROVE  /\ \E d : calls' \subseteq calls \cup {d}
             /\ Quiet \/ \E d \in Call : LabelSent(c, d)
  <2>1. PICK d \in Call :
          /\ calls' = (calls \ {c}) \cup {d} /\ d.op = c.op
          /\ \/ /\ d.stage # "read" /\ UNCHANGED <<row, writes>>
             \/ /\ c.stage = "create" /\ UNCHANGED writes
                /\ \E k \in Issues : row' = [row EXCEPT ![c.of] = Dispatched(row[c.of], k)]
             \/ /\ c.op = "repair" /\ c.stage = "read" /\ d.stage = "label"
                /\ writes' = [writes EXCEPT ![c.of] = @ + 1]
                /\ UNCHANGED row
    BY <1>8 DEF GoesOn
  <2>2. c.of \in Actions BY DEF TypeOK, Call
  <2>3. CASE d.stage # "read" /\ UNCHANGED <<row, writes>>
    BY <2>1, <2>3 DEF Quiet, Readers
  <2>4. ASSUME c.stage = "create", UNCHANGED writes, NEW k \in Issues,
               row' = [row EXCEPT ![c.of] = Dispatched(row[c.of], k)]
        PROVE  Quiet
    <3>1. Dispatched(row[c.of], k).repairs = row[c.of].repairs
      BY <1>0, <2>2 DEF Dispatched, Action
    <3>2. \A b \in Actions : row'[b].repairs = row[b].repairs
      BY <2>4, <3>1 DEF TypeOK
    <3>3. d.op = "execute" BY <2>1, <2>4 DEF CallsInv, CallOk
    <3>4. \A b \in Actions : Readers(b)' \subseteq Readers(b) BY <2>1, <3>3 DEF Readers
    <3> QED BY <2>4, <3>2, <3>4 DEF Quiet
  <2>5. CASE /\ c.op = "repair" /\ c.stage = "read" /\ d.stage = "label"
             /\ writes' = [writes EXCEPT ![c.of] = @ + 1] /\ row' = row
    BY <2>1, <2>5 DEF LabelSent, Readers
  <2> QED BY <2>1, <2>3, <2>4, <2>5
<1> QED BY <1>1, <1>2, <1>3, <1>4, <1>5, <1>6, <1>7, <1>8 DEF Moves

LEMMA MovesKeepRepairs ==
    ASSUME TypeOK, TypeOK', CallsInv, RepairsInv, Moves
    PROVE  RepairsInv'
<1>1. IsFiniteSet(calls') BY RepairSteps, FS_AddElement, FS_Subset DEF RepairsInv
<1>f. \A a \in Actions :
        /\ IsFiniteSet(Readers(a)) /\ Cardinality(Readers(a)) \in Nat
        /\ IsFiniteSet(Readers(a)') /\ Cardinality(Readers(a)') \in Nat
        /\ writes[a] \in Nat /\ row[a].repairs \in Nat /\ MaxRepairs \in Nat
        /\ Bounded(a)
  <2> TAKE a \in Actions
  <2>1. Readers(a) \subseteq calls /\ Readers(a)' \subseteq calls' BY DEF Readers
  <2>2. IsFiniteSet(Readers(a)) /\ IsFiniteSet(Readers(a)')
    BY <1>1, <2>1, FS_Subset DEF RepairsInv
  <2>3. Cardinality(Readers(a)) \in Nat /\ Cardinality(Readers(a)') \in Nat
    BY <2>2, FS_CardinalityType
  <2>4. writes[a] \in Nat /\ row[a].repairs \in Nat /\ Bounded(a)
    BY DEF TypeOK, Action, RepairsInv
  <2> QED BY <2>2, <2>3, <2>4, LedgerAssumption
<1>2. CASE Quiet
  <2> SUFFICES ASSUME NEW a \in Actions PROVE Bounded(a)' BY <1>1 DEF RepairsInv
  <2>1. Readers(a)' \subseteq Readers(a) /\ row'[a].repairs = row[a].repairs
        /\ writes' = writes
    BY <1>2 DEF Quiet
  <2>2. Cardinality(Readers(a)') <= Cardinality(Readers(a)) BY <1>f, <2>1, FS_Subset
  <2> QED BY <1>f, <2>1, <2>2 DEF Bounded
<1>3. ASSUME NEW b \in Actions, NEW c \in Call, RepairClaimed(b, c) PROVE RepairsInv'
  <2> SUFFICES ASSUME NEW a \in Actions PROVE Bounded(a)' BY <1>1 DEF RepairsInv
  <2>1. CASE a # b
    <3>1. Readers(a)' = Readers(a) BY <1>3, <2>1 DEF RepairClaimed, Readers
    <3>2. row'[a].repairs = row[a].repairs /\ writes' = writes
      BY <1>3, <2>1 DEF RepairClaimed
    <3> QED BY <1>f, <3>1, <3>2 DEF Bounded
  <2>2. CASE a = b
    <3>1. Readers(a)' \subseteq Readers(a) \cup {c} BY <1>3 DEF RepairClaimed, Readers
    <3>2. /\ IsFiniteSet(Readers(a) \cup {c})
          /\ Cardinality(Readers(a) \cup {c}) <= Cardinality(Readers(a)) + 1
      <4> DEFINE R == Readers(a)
      <4>1. IsFiniteSet(R) /\ Cardinality(R) \in Nat BY <1>f
      <4> HIDE DEF R
      <4>2. /\ IsFiniteSet(R \cup {c})
            /\ Cardinality(R \cup {c}) = IF c \in R THEN Cardinality(R)
                                          ELSE Cardinality(R) + 1
        BY <4>1, FS_AddElement
      <4>3. Cardinality(R \cup {c}) <= Cardinality(R) + 1 BY <4>1, <4>2
      <4> QED BY <4>2, <4>3 DEF R
    <3>3. Cardinality(Readers(a)') <= Cardinality(Readers(a) \cup {c})
      BY <3>1, <3>2, FS_Subset
    <3>4. Cardinality(Readers(a) \cup {c}) \in Nat BY <3>2, FS_CardinalityType
    <3>5. /\ row'[a].repairs = row[a].repairs + 1 /\ row[a].repairs < MaxRepairs
          /\ writes' = writes
      BY <1>3, <2>2 DEF RepairClaimed
    <3> QED BY <1>f, <3>2, <3>3, <3>4, <3>5 DEF Bounded
  <2> QED BY <2>1, <2>2
<1>4. ASSUME NEW c \in calls, NEW d \in Call, LabelSent(c, d) PROVE RepairsInv'
  <2> SUFFICES ASSUME NEW a \in Actions PROVE Bounded(a)' BY <1>1 DEF RepairsInv
  <2>0. c.of \in Actions /\ row' = row BY <1>4 DEF TypeOK, Call, LabelSent
  <2>1. CASE a # c.of
    <3>1. Readers(a)' \subseteq Readers(a) BY <1>4, <2>1 DEF LabelSent, Readers
    <3>2. writes'[a] = writes[a] BY <1>4, <2>1 DEF LabelSent, TypeOK
    <3>3. Cardinality(Readers(a)') <= Cardinality(Readers(a)) BY <1>f, <3>1, FS_Subset
    <3> QED BY <1>f, <2>0, <3>2, <3>3 DEF Bounded
  <2>2. CASE a = c.of
    <3>1. c \in Readers(a) /\ Readers(a)' \subseteq Readers(a) \ {c}
      BY <1>4, <2>2 DEF LabelSent, Readers
    <3>2. writes'[a] = writes[a] + 1 BY <1>4, <2>0, <2>2 DEF LabelSent, TypeOK
    <3>3. /\ IsFiniteSet(Readers(a) \ {c})
          /\ Cardinality(Readers(a) \ {c}) = Cardinality(Readers(a)) - 1
      BY <1>f, <3>1, FS_RemoveElement
    <3>4. Cardinality(Readers(a)') <= Cardinality(Readers(a) \ {c})
      BY <3>1, <3>3, FS_Subset
    <3> QED BY <1>f, <2>0, <3>2, <3>3, <3>4 DEF Bounded
  <2> QED BY <2>1, <2>2
<1> QED BY <1>2, <1>3, <1>4, RepairSteps

LEMMA InitRepairs == Init => RepairsInv
<1> SUFFICES ASSUME Init PROVE RepairsInv OBVIOUS
<1>1. IsFiniteSet(calls) BY FS_EmptySet DEF Init
<1>2. ASSUME NEW a \in Actions PROVE Bounded(a)
  <2>1. Readers(a) = {} BY DEF Init, Readers
  <2>2. Cardinality(Readers(a)) = 0 BY <2>1, FS_EmptySet
  <2>3. writes[a] = 0 /\ row[a].repairs = 0 BY DEF Init, Undeclared
  <2> QED BY <2>2, <2>3, LedgerAssumption DEF Bounded
<1> QED BY <1>1, <1>2 DEF RepairsInv

\* Labels are sent MaxRepairs times at most, however often repairs end in doubt
\* and calls outlive their lease (ActionLedger).
THEOREM LabelsAreBounded == Spec => []RepairsAreBounded
<1>1. LedgerInv /\ RepairsInv => RepairsAreBounded
  <2> SUFFICES ASSUME LedgerInv, RepairsInv, NEW a \in Actions
               PROVE  writes[a] <= MaxRepairs
    BY DEF RepairsAreBounded
  <2>1. Readers(a) \subseteq calls BY DEF Readers
  <2>2. Cardinality(Readers(a)) \in Nat
    BY <2>1, FS_Subset, FS_CardinalityType DEF RepairsInv
  <2>3. writes[a] \in Nat /\ row[a].repairs \in Nat /\ Bounded(a)
    BY DEF LedgerInv, TypeOK, Action, RepairsInv
  <2> QED BY <2>2, <2>3, LedgerAssumption DEF Bounded
<1>2. Init => LedgerInv /\ RepairsInv BY InitLedger, InitRepairs
<1>3. LedgerInv /\ RepairsInv /\ [Next]_vars => LedgerInv' /\ RepairsInv'
  BY StepLedger, MovesKeepRepairs DEF LedgerInv
<1> QED BY <1>1, <1>2, <1>3, PTL DEF Spec
=============================================================================

---------------------------- MODULE ActionLedger ----------------------------
(***************************************************************************)
(* External actions: the ledger (server/services/actionLedgerService.js)   *)
(* and the broker that executes, reconciles and repairs them               *)
(* (actionBroker.js) through a gateway that may lose answers.              *)
(*                                                                         *)
(* `row' is the table `actions'; a transaction of the ledger is one step.  *)
(* A call of the broker waits at each request to the gateway (`stage').    *)
(* `running' is the pass whose loop the event loop is executing: until it  *)
(* waits again, nothing else of the process runs.  Requests reach the      *)
(* gateway (`transit') at any time, also after their answer was given up   *)
(* and after a crash.  Issues are edited and copied by people.             *)
(***************************************************************************)
EXTENDS Naturals, FiniteSets

CONSTANTS
    Actions,        \* rows, in the order of their creation
    Passes,         \* calls of driveReconciliation and driveRepair
    NoPass,         \* no pass
    Terms,          \* approval terms a user may choose
    Lease,          \* leaseTtlMs
    Delay,          \* reconcileDelayMs
    Backoff,        \* repairBackoffMs
    MaxRepairs,     \* maxRepairAttempts
    MaxTime,        \* bound: the clock
    MaxClaims,      \* bound: claims of one action
    MaxIssues,      \* bound: issues of the repository
    MaxMeddling,    \* bound: edits and copies of issues by people
    MaxCrashes      \* bound: crashes of the server

ASSUME LedgerAssumption ==
    /\ Actions \subseteq Nat \ {0}
    /\ NoPass \notin Passes
    /\ Terms \subseteq Nat \ {0}
    /\ Lease \in Nat /\ Delay \in Nat /\ Backoff \in Nat
    /\ MaxRepairs \in Nat /\ MaxTime \in Nat /\ MaxClaims \in Nat
    /\ MaxIssues \in Nat /\ MaxMeddling \in Nat /\ MaxCrashes \in Nat

VARIABLES
    now,        \* the clock
    row,        \* actions
    calls,      \* calls of the broker that wait for the gateway
    pass,       \* passes: the time they began, the rows still to be visited
    running,    \* the pass whose loop is being executed
    transit,    \* requests on their way to the gateway
    issue,      \* issues of the repository
    made,       \* history: issues created by requests for an action
    writes,     \* history: label requests sent for an action
    decider,    \* history: the attempt that wrote an action's last result
    meddling, crashes   \* counters of the bounded events

vars == <<now, row, calls, pass, running, transit, issue, made, writes,
          decider, meddling, crashes>>
gateway == <<transit, issue, made, meddling>>
broker == <<calls, pass, running>>

-----------------------------------------------------------------------------
Issues == 1 .. MaxIssues
Claimed == {"executing", "reconciling", "repairing"}
Statuses == Claimed \cup
    {"none", "awaiting_approval", "queued", "succeeded", "partially_applied",
     "failed", "unknown", "repair_retry_wait", "repair_blocked", "conflict"}

\* An attempt id is a fresh UUID: the number of claims of the row.  0 is NULL.
Action == [status : Statuses, expires : Nat, claims : Nat, attempt : Nat,
           since : Nat, node : {0} \cup Issues, reconcile : Nat, repair : Nat,
           repairs : Nat]
Undeclared == [status |-> "none", expires |-> 0, claims |-> 0, attempt |-> 0,
               since |-> 0, node |-> 0, reconcile |-> 0, repair |-> 0,
               repairs |-> 0]

\* `of' is the action whose marker the body carries; `by' the attempt whose
\* request made it, 0 for a copy; `valid': repository, title, body and state
\* are as expected.
Issue == [of : {0} \cup Actions, by : Nat, valid : BOOLEAN, labelled : BOOLEAN]
NoIssue == [of |-> 0, by |-> 0, valid |-> FALSE, labelled |-> FALSE]

Request == [kind : {"create", "label"}, of : Actions, by : Nat,
            on : {0} \cup Issues]

Match == [on : Issues, verdict : {"succeeded", "partially_applied"}]

\* `on' is the issue a call knows of, `left' the candidates a probe still has
\* to read, `matches' those that read well, `odd' whether one did not.
Call == [op : {"execute", "reconcile", "repair"}, of : Actions, by : Nat,
         stage : {"claimed", "create", "search", "get", "read", "label", "verify"},
         pass : Passes \cup {NoPass}, at : Nat, on : {0} \cup Issues,
         left : SUBSET Issues, matches : SUBSET Match, odd : BOOLEAN]

Pass == [kind : {"none", "reconcile", "repair"}, at : Nat, left : SUBSET Actions]
NoWork == [kind |-> "none", at |-> 0, left |-> {}]

Waits == running = NoPass

\* validateReadback.  Mutant: the reason is taken for the status.
Verdict_Reason(k) == IF ~ issue[k].valid THEN "readback_mismatch"
                     ELSE IF issue[k].labelled THEN "succeeded"
                     ELSE "partially_applied"
Verdict(k) == IF ~ issue[k].valid THEN "unknown"
              ELSE IF issue[k].labelled THEN "succeeded"
              ELSE "partially_applied"

-----------------------------------------------------------------------------
(* Declaration and approval                                                *)

\* declareAction; the same intent again changes nothing.
Declare(a) ==
    /\ Waits /\ row[a].status = "none"
    /\ row' = [row EXCEPT ![a].status = "awaiting_approval"]
    /\ UNCHANGED <<now, broker, gateway, writes, decider, crashes>>

\* approveAction
Approve(a, term) ==
    /\ Waits /\ row[a].status = "awaiting_approval"
    /\ row' = [row EXCEPT ![a].status = "queued", ![a].expires = now + term]
    /\ UNCHANGED <<now, broker, gateway, writes, decider, crashes>>

Lapsed(a) == row[a].status = "queued" /\ row[a].expires <= now

\* expireStaleApprovals, and the expiry of one row by its claim.
Expire(A) ==
    /\ Waits /\ A # {}
    /\ row' = [a \in Actions |->
                  IF a \in A THEN [row[a] EXCEPT !.status = "awaiting_approval"]
                             ELSE row[a]]
    /\ UNCHANGED <<now, broker, gateway, writes, decider, crashes>>

-----------------------------------------------------------------------------
(* Claims and results                                                      *)

Taken(r, status, at) ==
    [r EXCEPT !.status = status, !.claims = @ + 1, !.attempt = r.claims + 1,
              !.since = at]

\* The claim for a repair counts before anything is sent.
\* Mutant: it does not.
Repairing_Uncounted(r, at) ==
    [Taken(r, "repairing", at) EXCEPT !.repair = 0]
Repairing(r, at) ==
    [Taken(r, "repairing", at) EXCEPT !.repairs = r.repairs + 1, !.repair = 0]

NewCall(op, a, stage, p, at) ==
    [op |-> op, of |-> a, by |-> row[a].claims + 1, stage |-> stage,
     pass |-> p, at |-> at, on |-> row[a].node, left |-> {}, matches |-> {},
     odd |-> FALSE]

\* WHERE status = ? AND active_attempt_id = ?  Mutant: the status alone.
Phase(op) == IF op = "execute" THEN "executing"
             ELSE IF op = "reconcile" THEN "reconciling" ELSE "repairing"
Holds_StatusOnly(c) == row[c.of].status = Phase(c.op)
Holds(c) == row[c.of].status = Phase(c.op) /\ row[c.of].attempt = c.by

\* A result gives the claim up.
Result(r, status) == [r EXCEPT !.status = status, !.attempt = 0, !.since = 0]
InDoubt(r, at) == [Result(r, "unknown") EXCEPT !.reconcile = at, !.repair = 0]

\* The call ends with a result, which is evidence only when its claim is lost.
Record(c, result) ==
    /\ IF Holds(c)
       THEN /\ row' = [row EXCEPT ![c.of] = result]
            /\ decider' = [decider EXCEPT ![c.of] = c.by]
       ELSE UNCHANGED <<row, decider>>
    /\ calls' = calls \ {c}
    /\ running' = c.pass
    /\ UNCHANGED <<now, pass, crashes>>

\* The call goes on and waits again.
Continue(c, d) ==
    /\ calls' = (calls \ {c}) \cup {d}
    /\ UNCHANGED <<now, pass, running, decider, crashes>>

-----------------------------------------------------------------------------
(* Execution: claimForExecution, executeClaimedAction                      *)

ClaimExecution(a) ==
    /\ Waits /\ row[a].status = "queued" /\ row[a].expires > now
    /\ row[a].claims < MaxClaims
    /\ row' = [row EXCEPT ![a] = Taken(@, "executing", now)]
    /\ calls' = calls \cup {NewCall("execute", a, "claimed", NoPass, now)}
    /\ UNCHANGED <<now, pass, running, gateway, writes, decider, crashes>>

\* The claim is looked at again, and the request sent without a wait.
Post(c) ==
    /\ Waits /\ c.stage = "claimed"
    /\ IF Holds(c)
       THEN /\ Continue(c, [c EXCEPT !.stage = "create"])
            /\ transit' = transit \cup
                   {[kind |-> "create", of |-> c.of, by |-> c.by, on |-> 0]}
       ELSE /\ calls' = calls \ {c}
            /\ UNCHANGED <<now, pass, running, decider, crashes, transit>>
    /\ UNCHANGED <<row, issue, made, meddling, writes>>

Sent(c) == {q \in transit : q.of = c.of /\ q.by = c.by}

\* A certain refusal: the request had no effect.
PostDenied(c) ==
    /\ Waits /\ c.stage = "create" /\ Sent(c) # {}
    /\ Record(c, Result(row[c.of], "failed"))
    /\ transit' = transit \ Sent(c)
    /\ UNCHANGED <<issue, made, meddling, writes>>

\* No answer, or one that proves nothing.
PostUnclear(c) ==
    /\ Waits /\ c.stage = "create"
    /\ Record(c, InDoubt(row[c.of], now + Delay))
    /\ UNCHANGED <<gateway, writes>>

\* The identity is recorded at once, then the issue is read.
\* Mutant: it is left to the result.
Dispatched_Unnamed(r, k) == r
Dispatched(r, k) == [r EXCEPT !.node = k]
PostAnswered(c) ==
    /\ Waits /\ c.stage = "create"
    /\ \E k \in Issues :
          /\ issue[k].of = c.of /\ issue[k].by = c.by
          /\ IF Holds(c)
             THEN /\ row' = [row EXCEPT ![c.of] = Dispatched(@, k)]
                  /\ Continue(c, [c EXCEPT !.stage = "read", !.on = k])
             ELSE /\ calls' = calls \ {c}
                  /\ UNCHANGED <<now, row, pass, running, decider, crashes>>
    /\ UNCHANGED <<gateway, writes>>

ReadBack(c) ==
    /\ Waits /\ c.op = "execute" /\ c.stage = "read"
    /\ \/ Record(c, Result(row[c.of], Verdict(c.on)))
       \/ Record(c, InDoubt(row[c.of], now + Delay))
    /\ UNCHANGED <<gateway, writes>>

-----------------------------------------------------------------------------
(* driveReconciliation                                                     *)

\* recoverOrphans: a claim older than the lease is given up, never queued.
\* Mutant: it is queued.
Recovered_Requeued(r, at) == Result(r, "queued")
Recovered(r, at) == [Result(r, "unknown") EXCEPT !.reconcile = at]

Orphans == {a \in Actions : row[a].status \in Claimed /\ row[a].since + Lease <= now}
Reconcilable(a, at) == row[a].status = "unknown" /\ row[a].reconcile <= at

BeginReconciliation(p) ==
    /\ Waits /\ pass[p].kind = "none"
    /\ row' = [a \in Actions |->
                  IF a \in Orphans THEN Recovered(row[a], now) ELSE row[a]]
    /\ pass' = [pass EXCEPT ![p] =
                   [kind |-> "reconcile", at |-> now,
                    left |-> Orphans \cup {a \in Actions : Reconcilable(a, now)}]]
    /\ running' = p
    /\ UNCHANGED <<now, calls, gateway, writes, decider, crashes>>

\* The rows of a pass are visited in order.
Visits(p, a) ==
    /\ running = p
    /\ a \in pass[p].left /\ \A b \in pass[p].left : a <= b
    /\ pass' = [pass EXCEPT ![p].left = @ \ {a}]

\* One round of the loop: the row is claimed as of the beginning of the pass,
\* and the search is sent; or the row is passed over.
ReconcileNext(p, a) ==
    LET at == pass[p].at IN
    /\ pass[p].kind = "reconcile" /\ Visits(p, a)
    /\ IF Reconcilable(a, at) /\ row[a].claims < MaxClaims
       THEN /\ row' = [row EXCEPT ![a] = Taken(@, "reconciling", at)]
            /\ calls' = calls \cup {NewCall("reconcile", a, "search", p, at)}
            /\ running' = NoPass
       ELSE UNCHANGED <<row, calls, running>>
    /\ UNCHANGED <<now, gateway, writes, decider, crashes>>

PassEnds(p) ==
    /\ running = p /\ pass[p].left = {}
    /\ pass' = [pass EXCEPT ![p] = NoWork]
    /\ running' = NoPass
    /\ UNCHANGED <<now, row, calls, gateway, writes, decider, crashes>>

\* All candidates are read.
Concluded(r, matches, odd) ==
    IF Cardinality(matches) > 1 THEN [Result(r, "conflict") EXCEPT !.reconcile = 0]
    ELSE IF odd \/ matches = {} THEN InDoubt(r, now + Delay)
    ELSE LET m == CHOOSE m \in matches : TRUE IN
         [Result(r, m.verdict) EXCEPT !.node = m.on, !.reconcile = 0]

\* The search may miss issues.
SearchAnswered(c, found) ==
    /\ Waits /\ c.stage = "search"
    /\ \A k \in found : issue[k].of = c.of
    /\ IF found = {}
       THEN Record(c, Concluded(row[c.of], {}, FALSE))
       ELSE Continue(c, [c EXCEPT !.stage = "get", !.left = found]) /\ UNCHANGED row
    /\ UNCHANGED <<gateway, writes>>

CandidateRead(c, k) ==
    LET good == issue[k].valid
        d == [c EXCEPT !.left = @ \ {k},
                       !.matches = IF good
                                   THEN @ \cup {[on |-> k, verdict |-> Verdict(k)]}
                                   ELSE @,
                       !.odd = IF good THEN @ ELSE TRUE]
    IN  /\ Waits /\ c.stage = "get" /\ k \in c.left
        /\ IF d.left = {}
           THEN Record(c, Concluded(row[c.of], d.matches, d.odd))
           ELSE Continue(c, d) /\ UNCHANGED row
        /\ UNCHANGED <<gateway, writes>>

\* A search or a read fails.
ProbeFails(c) ==
    /\ Waits /\ c.stage \in {"search", "get"}
    /\ Record(c, InDoubt(row[c.of], now + Delay))
    /\ UNCHANGED <<gateway, writes>>

-----------------------------------------------------------------------------
(* driveRepair                                                             *)

Repairable(a, at) == \/ row[a].status = "partially_applied"
                     \/ row[a].status = "repair_retry_wait" /\ row[a].repair <= at

BeginRepair(p) ==
    /\ Waits /\ pass[p].kind = "none"
    /\ pass' = [pass EXCEPT ![p] =
                   [kind |-> "repair", at |-> now,
                    left |-> {a \in Actions : Repairable(a, now)}]]
    /\ running' = p
    /\ UNCHANGED <<now, row, calls, gateway, writes, decider, crashes>>

\* claimForRepair: too many attempts or an approval that has expired block it.
RepairNext(p, a) ==
    LET at == pass[p].at IN
    /\ pass[p].kind = "repair" /\ Visits(p, a)
    /\ IF ~ Repairable(a, at) \/ row[a].claims >= MaxClaims
       THEN UNCHANGED <<row, calls, running>>
       ELSE IF row[a].repairs >= MaxRepairs \/ row[a].expires <= at
       THEN /\ row' = [row EXCEPT ![a].status = "repair_blocked", ![a].repair = 0]
            /\ UNCHANGED <<calls, running>>
       ELSE /\ row' = [row EXCEPT ![a] = Repairing(@, at)]
            /\ calls' = calls \cup {NewCall("repair", a, "read", p, at)}
            /\ running' = NoPass
    /\ UNCHANGED <<now, gateway, writes, decider, crashes>>

Repaired(r) == [Result(r, "succeeded") EXCEPT !.repair = 0, !.reconcile = 0]
RetryOrBlock(r, at) ==
    IF r.repairs < MaxRepairs
    THEN [Result(r, "repair_retry_wait") EXCEPT !.repair = at + Backoff, !.reconcile = 0]
    ELSE [Result(r, "repair_blocked") EXCEPT !.repair = 0, !.reconcile = 0]

\* The issue is read; only labels that are missing are sent.
RepairReads(c) ==
    /\ Waits /\ c.op = "repair" /\ c.stage = "read"
    /\ \/ /\ c.on = 0 \/ Verdict(c.on) # "partially_applied"
          /\ Record(c, IF c.on # 0 /\ Verdict(c.on) = "succeeded"
                       THEN Repaired(row[c.of])
                       ELSE InDoubt(row[c.of], c.at + Delay))
          /\ UNCHANGED <<transit, writes>>
       \/ /\ c.on # 0 /\ Verdict(c.on) = "partially_applied"
          /\ Continue(c, [c EXCEPT !.stage = "label"])
          /\ writes' = [writes EXCEPT ![c.of] = @ + 1]
          /\ transit' = transit \cup
                 {[kind |-> "label", of |-> c.of, by |-> c.by, on |-> c.on]}
          /\ UNCHANGED row
    /\ UNCHANGED <<issue, made, meddling>>

\* A certain refusal is final; a rate limit is tried again.
LabelDenied(c) ==
    /\ Waits /\ c.stage = "label" /\ Sent(c) # {}
    /\ \/ Record(c, [Result(row[c.of], "repair_blocked") EXCEPT
                        !.repair = 0, !.reconcile = 0])
       \/ Record(c, RetryOrBlock(row[c.of], c.at))
    /\ transit' = transit \ Sent(c)
    /\ UNCHANGED <<issue, made, meddling, writes>>

\* No answer to a read or to the labels.
RepairUnclear(c) ==
    /\ Waits /\ c.op = "repair" /\ c.stage \in {"read", "label", "verify"}
    /\ Record(c, InDoubt(row[c.of], c.at + Delay))
    /\ UNCHANGED <<gateway, writes>>

LabelAnswered(c) ==
    /\ Waits /\ c.stage = "label" /\ Sent(c) = {}
    /\ Continue(c, [c EXCEPT !.stage = "verify"])
    /\ UNCHANGED <<row, gateway, writes>>

RepairVerifies(c) ==
    /\ Waits /\ c.stage = "verify"
    /\ Record(c, IF Verdict(c.on) = "succeeded" THEN Repaired(row[c.of])
                 ELSE IF Verdict(c.on) = "partially_applied"
                 THEN RetryOrBlock(row[c.of], c.at)
                 ELSE InDoubt(row[c.of], c.at + Delay))
    /\ UNCHANGED <<gateway, writes>>

-----------------------------------------------------------------------------
(* The gateway, people, time and crashes                                   *)

Vacant == {k \in Issues : issue[k].of = 0}
Opens(k, i) ==
    /\ k \in Vacant /\ \A j \in Vacant : k <= j
    /\ issue' = [issue EXCEPT ![k] = i]

\* A request takes effect; labels may be ignored without a word.
Arrives(q, labelled) ==
    /\ q \in transit
    /\ transit' = transit \ {q}
    /\ IF q.kind = "create"
       THEN /\ \E k \in Issues :
                  Opens(k, [of |-> q.of, by |-> q.by, valid |-> TRUE,
                            labelled |-> labelled])
            /\ made' = [made EXCEPT ![q.of] = @ + 1]
       ELSE /\ issue' = [issue EXCEPT ![q.on].labelled = @ \/ labelled]
            /\ UNCHANGED made
    /\ UNCHANGED <<now, row, broker, meddling, writes, decider, crashes>>

\* People close or rename an issue, take its labels away, or copy it.
Meddle(k) ==
    /\ meddling < MaxMeddling /\ k \notin Vacant
    /\ meddling' = meddling + 1
    /\ \/ issue' = [issue EXCEPT ![k].valid = FALSE]
       \/ issue' = [issue EXCEPT ![k].labelled = FALSE]
       \/ \E j \in Issues : Opens(j, [issue[k] EXCEPT !.by = 0])
    /\ UNCHANGED <<now, row, broker, transit, made, writes, decider, crashes>>

Crash ==
    /\ crashes < MaxCrashes
    /\ crashes' = crashes + 1
    /\ calls' = {} /\ pass' = [p \in Passes |-> NoWork] /\ running' = NoPass
    /\ UNCHANGED <<now, row, gateway, writes, decider>>

Advance ==
    /\ Waits /\ now < MaxTime
    /\ now' = now + 1
    /\ UNCHANGED <<row, broker, gateway, writes, decider, crashes>>

-----------------------------------------------------------------------------
Init ==
    /\ now = 0
    /\ row = [a \in Actions |-> Undeclared]
    /\ calls = {} /\ pass = [p \in Passes |-> NoWork] /\ running = NoPass
    /\ transit = {} /\ issue = [k \in Issues |-> NoIssue]
    /\ made = [a \in Actions |-> 0] /\ writes = [a \in Actions |-> 0]
    /\ decider = [a \in Actions |-> 0]
    /\ meddling = 0 /\ crashes = 0

Executes(c) == Post(c) \/ PostDenied(c) \/ PostUnclear(c) \/ PostAnswered(c) \/ ReadBack(c)
Probes(c) == \/ \E found \in SUBSET Issues : SearchAnswered(c, found)
             \/ \E k \in Issues : CandidateRead(c, k)
             \/ ProbeFails(c)
Repairs(c) == \/ RepairReads(c) \/ LabelDenied(c) \/ RepairUnclear(c)
              \/ LabelAnswered(c) \/ RepairVerifies(c)
PassStep(p) == \/ BeginReconciliation(p) \/ BeginRepair(p) \/ PassEnds(p)
               \/ \E a \in Actions : ReconcileNext(p, a) \/ RepairNext(p, a)

Next ==
    \/ \E a \in Actions : \/ Declare(a) \/ ClaimExecution(a)
                          \/ \E term \in Terms : Approve(a, term)
                          \/ Lapsed(a) /\ Expire({a})
    \/ Expire({a \in Actions : Lapsed(a)})
    \/ \E c \in calls : Executes(c) \/ Probes(c) \/ Repairs(c)
    \/ \E p \in Passes : PassStep(p)
    \/ \E q \in transit, labelled \in BOOLEAN : Arrives(q, labelled)
    \/ \E k \in Issues : Meddle(k)
    \/ Crash \/ Advance

Spec == Init /\ [][Next]_vars

-----------------------------------------------------------------------------
(* Properties                                                              *)

\* The table, the calls and the repository are well formed.
TypeOK ==
    /\ now \in Nat
    /\ row \in [Actions -> Action]
    /\ calls \in SUBSET Call
    /\ pass \in [Passes -> Pass]
    /\ running \in Passes \cup {NoPass}
    /\ transit \in SUBSET Request
    /\ issue \in [Issues -> Issue]
    /\ made \in [Actions -> Nat] /\ writes \in [Actions -> Nat]
    /\ decider \in [Actions -> Nat]
    /\ meddling \in Nat /\ crashes \in Nat

\* The ledger as the abstract intent: failed is certain to have no effect,
\* everything found is certain to have one, and the rest is in doubt.
Phases(r) ==
    IF r.status \in {"none", "awaiting_approval", "queued"} THEN "open"
    ELSE IF r.status \in {"executing", "unknown", "reconciling"} THEN "tried"
    ELSE IF r.status = "failed" THEN "void" ELSE "done"
Promise == INSTANCE OneEffect WITH
    Intents <- Actions,
    phase <- [a \in Actions |-> Phases(row[a])],
    effects <- made

\* One request at most creates an issue, whatever is lost, recovered, retried or
\* crashes; a failed action has created none and never will; a found one has.
ImplementsOneEffect == Promise!Spec

\* The result of an action is that of its last claim: no call whose lease ran
\* out overwrites what a later attempt found (attempt fencing).
Decided == {"succeeded", "partially_applied", "failed", "conflict",
            "repair_retry_wait", "repair_blocked"}
ResultIsOfLastClaim ==
    \A a \in Actions : row[a].status \in Decided => decider[a] = row[a].claims

\* Labels are sent at most MaxRepairs times, however often repairs end in doubt
\* and the action is found again.
RepairsAreBounded == \A a \in Actions : writes[a] <= MaxRepairs

\* An action that was found, or whose creation was answered, names an issue that
\* carries its marker: repairs and receipts never speak of another's.
Found == {"succeeded", "partially_applied", "repairing", "repair_retry_wait",
          "repair_blocked"}
FoundIsIdentified ==
    \A a \in Actions : row[a].status \in Found =>
        row[a].node # 0 /\ issue[row[a].node].of = a
=============================================================================

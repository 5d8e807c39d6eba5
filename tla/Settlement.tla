----------------------------- MODULE Settlement -----------------------------
(***************************************************************************)
(* How a granted request is settled: internal/publicapi/pipeline.go        *)
(* (execute, settle, Drain), internal/publicapi/settle.go (Settle, Run,    *)
(* DeliverDue, deliver, post), the outbox of                               *)
(* internal/credentialstore/settlement.go and the drain of cmd/kaana.      *)
(*                                                                         *)
(* Every task serves requests and runs one delivery worker; all of them    *)
(* share one outbox table in PostgreSQL.  Time is relative: `due' counts   *)
(* the steps until a row may be claimed again, `left' those until a post   *)
(* times out.  A task that crashed, or exited, is replaced by a fresh one  *)
(* of the same name.                                                       *)
(***************************************************************************)
EXTENDS Naturals, Sequences, FiniteSets

CONSTANTS
    Grants,        \* the grants Oxy issues, one request each
    Tasks,         \* the Kaana tasks
    Batch,         \* settlementBatch: rows one claim may lease
    Lease,         \* settlementLease
    PostTimeout,   \* settlementPostTimeout
    Tries,         \* writes Settle attempts (attempt == 3 is the last)
    MaxBackoff,    \* settlementMaxBackoff
    MaxAttempts,   \* bound: delivery attempts are counted up to here
    MaxFaults,    \* bound: crashes, drains and failed writes
    NoTask         \* a model value

ASSUME SettlementAssumption ==
    /\ {Batch, Lease, PostTimeout, Tries, MaxBackoff} \subseteq Nat \ {0}
    /\ {MaxAttempts, MaxFaults} \subseteq Nat
    /\ NoTask \notin Tasks
    /\ IsFiniteSet(Grants)

VARIABLES
    req,      \* each grant's request in its task's memory
    row,      \* each grant's row of inference_settlement_outbox
    worker,   \* each task's delivery worker
    task,     \* each task: serving or draining
    oxy,      \* what Oxy did with each grant's hold (external)
    faults

vars == <<req, row, worker, task, oxy, faults>>

(***************************************************************************)
(* State                                                                   *)
(***************************************************************************)

(* `unwritten' settled nothing it knows of: the settlement broke the       *)
(* contract, or no write was confirmed before the tries or the deadline    *)
(* ran out, or its task died before.  `unserved' named no route.           *)
RequestStages == {"granted", "executing", "settling", "written", "unwritten", "unserved"}

Requests == [st : RequestStages, task : Tasks \cup {NoTask}, tries : 0..Tries]

Done(st) == [st |-> st, task |-> NoTask, tries |-> 0]

Rows == [st : {"none", "open", "pending", "delivered"}, due : 0..(IF Lease > MaxBackoff THEN Lease ELSE MaxBackoff), attempts : 0..MaxAttempts]

NoRow == [st |-> "none", due |-> 0, attempts |-> 0]

(* post's closed failure classes: oxy_unreachable stands for the two of    *)
(* them after which Oxy may have applied the settlement (the other is      *)
(* oxy_unreadable), oxy_unavailable for the ones that applied nothing and  *)
(* back off like it (kaana_identity_unavailable, kaana_request_invalid).   *)
Classes == {"oxy_unreachable", "oxy_unavailable", "oxy_rejected"}
Statuses == {"settled", "duplicate"}

IdleWorker == [batch |-> <<>>, post |-> "idle", left |-> 0]

Init ==
    /\ req = [g \in Grants |-> Done("granted")]
    /\ row = [g \in Grants |-> NoRow]
    /\ worker = [t \in Tasks |-> IdleWorker]
    /\ task = [t \in Tasks |-> "up"]
    /\ oxy = [g \in Grants |-> "held"]
    /\ faults = 0

Committed(g) == row[g].st \in {"pending", "delivered"}

(***************************************************************************)
(* Serving                                                                 *)
(***************************************************************************)

(* admit resolved the grant and the handler calls execute. *)
execute(g, t) ==
    /\ req[g].st = "granted" /\ task[t] = "up"
    /\ req' = [req EXCEPT ![g].st = "executing", ![g].task = t]
    /\ UNCHANGED <<row, worker, task, oxy, faults>>

(* resolveGrant found no route: a settlement must name a deployment, so    *)
(* nothing is written and the hold expires at Oxy.                         *)
releaseUnserved(g) ==
    /\ req[g].st = "granted"
    /\ req' = [req EXCEPT ![g] = Done("unserved")]
    /\ UNCHANGED <<row, worker, task, oxy, faults>>

(* The executor returned, with a report or an unservedReport: Settle runs  *)
(* beside the response.  A settlement that breaks the contract is logged   *)
(* and not written.                                                        *)
settle(g, valid) ==
    /\ req[g].st = "executing"
    /\ req' = [req EXCEPT ![g] = IF valid THEN [@ EXCEPT !.st = "settling"] ELSE Done("unwritten")]
    /\ UNCHANGED <<row, worker, task, oxy, faults>>

(* RecordSettlement: the transaction records the cost events and inserts   *)
(* the row; SettlementFeed models the position it draws.                   *)
enqueue(g) ==
    /\ req[g].st = "settling" /\ row[g].st = "none"
    /\ row' = [row EXCEPT ![g].st = "open"]
    /\ UNCHANGED <<req, worker, task, oxy, faults>>

(* One RecordSettlement of the retry loop failed: another try after the    *)
(* backoff, or the error Settle logs.                                      *)
TryFailed(g) ==
    /\ faults < MaxFaults
    /\ faults' = faults + 1
    /\ req' = [req EXCEPT ![g] = IF @.tries + 1 = Tries THEN Done("unwritten") ELSE [req[g] EXCEPT !.tries = @ + 1]]

(* The commit lands, and Settle hears of it or only sees an error. *)
commit(g, heard) ==
    /\ req[g].st = "settling" /\ row[g].st = "open"
    /\ row' = [row EXCEPT ![g].st = "pending"]
    /\ IF heard THEN req' = [req EXCEPT ![g] = Done("written")] /\ UNCHANGED faults ELSE TryFailed(g)
    /\ UNCHANGED <<worker, task, oxy>>

(* A try ends in an error: its transaction is rolled back, or never began. *)
recordFailed(g) ==
    /\ req[g].st = "settling"
    /\ row' = IF Committed(g) THEN row ELSE [row EXCEPT ![g] = NoRow]
    /\ TryFailed(g)
    /\ UNCHANGED <<worker, task, oxy>>

(* A retry of a write that had committed finds the identical row. *)
replayed(g) ==
    /\ req[g].st = "settling" /\ Committed(g)
    /\ req' = [req EXCEPT ![g] = Done("written")]
    /\ UNCHANGED <<row, worker, task, oxy, faults>>

(* The write context's deadline: an open transaction ends either way, and  *)
(* Settle returns the error.                                               *)
writeDeadline(g) ==
    /\ req[g].st = "settling"
    /\ req' = [req EXCEPT ![g] = Done("unwritten")]
    /\ IF row[g].st = "open"
       THEN \E r \in {NoRow, [row[g] EXCEPT !.st = "pending"]} : row' = [row EXCEPT ![g] = r]
       ELSE row' = row
    /\ UNCHANGED <<worker, task, oxy, faults>>

(***************************************************************************)
(* Delivery                                                                *)
(***************************************************************************)

(* Mutant: rows of a transaction that has not committed are claimed. *)
DueUncommitted == {g \in Grants : row[g].st \in {"open", "pending"} /\ row[g].due = 0}

(* Mutant: a row is given up after its last counted attempt. *)
DueGivenUp == {g \in Grants : row[g].st = "pending" /\ row[g].due = 0 /\ row[g].attempts < MaxAttempts}

Due == {g \in Grants : row[g].st = "pending" /\ row[g].due = 0}

Orders(S) == {s \in [1..Cardinality(S) -> S] : \A i, j \in 1..Cardinality(S) : s[i] = s[j] => i = j}

(* deliver: the first row of what is left of a batch is signed and posted. *)
Posting(batch) ==
    IF batch = <<>> THEN IdleWorker ELSE [batch |-> batch, post |-> "sent", left |-> PostTimeout]

(* DeliverDue claims up to Batch due rows and leases each; the order among *)
(* the rows already due is by how long each has been, which `due' forgets. *)
ClaimSettlements(t) ==
    /\ task[t] = "up" /\ worker[t].batch = <<>>
    /\ \E S \in SUBSET Due :
          /\ S # {}
          /\ Cardinality(S) = (IF Cardinality(Due) < Batch THEN Cardinality(Due) ELSE Batch)
          /\ \E s \in Orders(S) : worker' = [worker EXCEPT ![t] = Posting(s)]
          /\ row' = [g \in Grants |-> IF g \in S
                                      THEN [row[g] EXCEPT !.due = Lease,
                                               !.attempts = IF @ < MaxAttempts THEN @ + 1 ELSE @]
                                      ELSE row[g]]
    /\ UNCHANGED <<req, task, oxy, faults>>

(* Oxy acknowledges: settled, or duplicate for a grant it settled before. *)
acknowledged(t) ==
    /\ worker[t].post = "sent"
    /\ LET g == Head(worker[t].batch)
       IN /\ worker' = [worker EXCEPT ![t].post = IF oxy[g] = "held" THEN "settled" ELSE "duplicate", ![t].left = 0]
          /\ oxy' = [oxy EXCEPT ![g] = "settled"]
    /\ UNCHANGED <<req, row, task, faults>>

(* No acknowledgement: an answer that is lost or unreadable may follow a   *)
(* settlement Oxy applied; a refusal or a missing token never does.        *)
failed(t, class) ==
    /\ worker[t].post = "sent"
    /\ worker' = [worker EXCEPT ![t].post = class, ![t].left = 0]
    /\ \/ class = "oxy_unreachable"
          /\ oxy' = [oxy EXCEPT ![Head(worker[t].batch)] = "settled"]
       \/ oxy' = oxy
    /\ UNCHANGED <<req, row, task, faults>>


(* kaana_mark_settlement_delivered changes an undelivered row only. *)
Marked(r) == IF r.st = "pending" THEN [r EXCEPT !.st = "delivered", !.due = 0] ELSE r

(* MarkSettlementDelivered records the acknowledgement, or fails and the   *)
(* lease runs out.                                                         *)
MarkSettlementDelivered(t, stored) ==
    /\ worker[t].post \in Statuses
    /\ worker' = [worker EXCEPT ![t] = Posting(Tail(@.batch))]
    /\ row' = IF stored THEN [row EXCEPT ![Head(worker[t].batch)] = Marked(@)] ELSE row
    /\ UNCHANGED <<req, task, oxy, faults>>

(* Two to the power of the attempts, at most the longest backoff; a        *)
(* refusal always waits the longest.                                       *)
Backoff(class, attempts) ==
    IF class = "oxy_rejected" \/ 2^attempts > MaxBackoff THEN MaxBackoff ELSE 2^attempts

(* kaana_defer_settlement changes an undelivered row only. *)
Deferred(r, class) == IF r.st = "pending" THEN [r EXCEPT !.due = Backoff(class, r.attempts)] ELSE r

DeferSettlement(t, stored) ==
    /\ worker[t].post \in Classes
    /\ worker' = [worker EXCEPT ![t] = Posting(Tail(@.batch))]
    /\ row' = IF stored THEN [row EXCEPT ![Head(worker[t].batch)] = Deferred(@, worker[t].post)] ELSE row
    /\ UNCHANGED <<req, task, oxy, faults>>

(***************************************************************************)
(* Time and task lifecycle                                                 *)
(***************************************************************************)

(* SIGTERM: no new request is accepted.  The settler runs under the signal *)
(* context, so its post is cancelled and can record nothing any more.      *)
drain(t) ==
    /\ task[t] = "up" /\ faults < MaxFaults
    /\ task' = [task EXCEPT ![t] = "draining"]
    /\ worker' = [worker EXCEPT ![t] = IdleWorker]
    /\ \/ worker[t].post = "sent" /\ oxy' = [oxy EXCEPT ![Head(worker[t].batch)] = "settled"]
       \/ oxy' = oxy
    /\ faults' = faults + 1
    /\ UNCHANGED <<req, row>>

Running(t) == {g \in Grants : req[g].task = t /\ req[g].st \in {"executing", "settling"}}

(* Shutdown waited for the requests and Drain for the settlements. *)
exit(t) ==
    /\ task[t] = "draining" /\ Running(t) = {}
    /\ task' = [task EXCEPT ![t] = "up"]
    /\ UNCHANGED <<req, row, worker, oxy, faults>>

(* The task dies, or the thirty seconds of its drain are over: what it     *)
(* still ran is lost, and its open transactions end either way.            *)
crash(t) ==
    /\ faults < MaxFaults \/ task[t] = "draining"
    /\ req' = [g \in Grants |-> IF g \in Running(t) THEN Done("unwritten") ELSE req[g]]
    /\ \E kept \in SUBSET {g \in Running(t) : row[g].st = "open"} :
          row' = [g \in Grants |-> IF g \in kept THEN [row[g] EXCEPT !.st = "pending"]
                                   ELSE IF g \in Running(t) /\ row[g].st = "open" THEN NoRow ELSE row[g]]
    /\ worker' = [worker EXCEPT ![t] = IdleWorker]
    /\ task' = [task EXCEPT ![t] = "up"]
    /\ faults' = IF task[t] = "draining" THEN faults ELSE faults + 1
    /\ UNCHANGED <<oxy>>

Less(n) == IF n = 0 THEN 0 ELSE n - 1

(* Time passes, never past a context's deadline. *)
Tick ==
    /\ \A t \in Tasks : worker[t].post = "sent" => worker[t].left > 0
    /\ \E g \in Grants : row[g].due > 0
    /\ row' = [g \in Grants |-> [row[g] EXCEPT !.due = Less(@)]]
    /\ worker' = [t \in Tasks |-> [worker[t] EXCEPT !.left = Less(@)]]
    /\ UNCHANGED <<req, task, oxy, faults>>

Next ==
    \/ \E g \in Grants :
          \/ \E t \in Tasks : execute(g, t)
          \/ releaseUnserved(g)
          \/ \E valid \in BOOLEAN : settle(g, valid)
          \/ enqueue(g)
          \/ \E heard \in BOOLEAN : commit(g, heard)
          \/ recordFailed(g)
          \/ replayed(g)
          \/ writeDeadline(g)
    \/ \E t \in Tasks :
          \/ ClaimSettlements(t)
          \/ acknowledged(t)
          \/ \E class \in Classes : failed(t, class)
          \/ \E stored \in BOOLEAN : MarkSettlementDelivered(t, stored) \/ DeferSettlement(t, stored)
          \/ drain(t)
          \/ exit(t)
          \/ crash(t)
    \/ Tick

(* Run loops on its ticker, a claimed batch is worked off, and a context   *)
(* ends at its deadline; a delivery that is retried for ever is answered   *)
(* and recorded in the end.                                              *)
Fairness ==
    /\ WF_vars(Tick)
    /\ SF_vars(\E t \in Tasks : ClaimSettlements(t))
    /\ SF_vars(\E t \in Tasks : acknowledged(t))
    /\ SF_vars(\E t \in Tasks : MarkSettlementDelivered(t, TRUE))
    /\ WF_vars(\E t \in Tasks : DeferSettlement(t, FALSE))
    /\ WF_vars(\E t \in Tasks : exit(t))

Spec == Init /\ [][Next]_vars /\ Fairness

(***************************************************************************)
(* Properties                                                              *)
(***************************************************************************)

(* Every variable keeps its type. *)
TypeOK ==
    /\ req \in [Grants -> Requests]
    /\ row \in [Grants -> Rows]
    /\ \A t \in Tasks : /\ worker[t].batch \in Seq(Grants)
                        /\ worker[t].left \in 0..PostTimeout
    /\ task \in [Tasks -> {"up", "draining"}]
    /\ oxy \in [Grants -> {"held", "settled"}]
    /\ faults \in 0..MaxFaults

(* A settlement that reached the outbox is delivered in the end, whichever *)
(* task crashes with it claimed.                                           *)
SettlementsArrive == \A g \in Grants : row[g].st = "pending" ~> row[g].st = "delivered"

(* A settlement its request was told is written, and is not durable, has   *)
(* no place in the ledger.                                                 *)
LedgerOf(g) ==
    IF row[g].st = "delivered" THEN "closed"
    ELSE IF oxy[g] = "settled" THEN "settled"
    ELSE IF Committed(g) THEN "durable"
    ELSE IF req[g].st = "written" THEN "lost"
    ELSE IF req[g].st \in {"granted", "unserved"} THEN "held" ELSE "executed"

Ledger == INSTANCE GrantLedger WITH ledger <- [g \in Grants |-> LedgerOf(g)]

(* The outbox implements the ledger: each grant runs at most once, is      *)
(* written at most once after it ran, is settled at most once and only     *)
(* from its durable row, and its row is marked delivered, for good, only   *)
(* when Oxy has settled the grant, whichever task's answer was lost, late  *)
(* or unreadable (settle.go, settlement.go).                               *)
LedgerRefinement == Ledger!Spec

=============================================================================

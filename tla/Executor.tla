------------------------------ MODULE Executor ------------------------------
(***************************************************************************)
(* internal/kaana/executor.go: requests walking their signed route lists.  *)
(*                                                                         *)
(* Requests run concurrently and share two registries: the deployment      *)
(* breakers (Rotation) and the customer credential limits (CustomerLimit). *)
(* Each request owns an emitter.  A step of a request is what it does      *)
(* between two points where another request can be seen: a registry call,  *)
(* credential resolution, the adapter's own calls, a backoff, settlement.  *)
(*                                                                         *)
(* The client may cancel at any moment, and its sink may break at any      *)
(* write.  Left to chance: whether this process can reach a route, whether *)
(* the adapter can translate the request, whether a customer credential    *)
(* resolves, and what the upstream answers.                                *)
(***************************************************************************)
EXTENDS Integers, Sequences, FiniteSets, FailureClasses, EmitterOps

CONSTANTS
  Requests,
  RouteLists,        \* the signed route lists a request may carry
  Formats,           \* subset of {"stream", "decisions", "embedding"}
  Rooms,             \* events the customer's sink may take before it breaks
  UpstreamErrors,    \* what an upstream may fail with
  Measured,          \* subset of Units: what an adapter may have measured
  Exchanges,         \* how many hedged exchanges an attempt may abandon
  MaxOutput,         \* bound: events an adapter reports in one attempt
  Deployments, FailuresToOpen, Cooldown, MaxCooldown, SuccessesToClose,
  Scopes, RejectedCooldown, ThrottleCooldown, RetryAfters, StaleAge

VARIABLES
  breakers, known, rotationPermits,   \* rotation.Registry
  entries, customerPermits,           \* customerlimit.Registry
  asked,       \* each request's format and signed routes
  pc,          \* where each request is
  loop,        \* the loop variables of execute
  abandoned,   \* the failed attempt a request is moving away from
  settling,    \* the arguments of settle
  usage,       \* the cost rows of each request's attempts
  emit,        \* the emitters
  gone,        \* whose context is cancelled
  result,
  recorded     \* whose cost rows the recorder holds

registries == <<breakers, known, rotationPermits, entries, customerPermits>>
vars == <<registries, asked, pc, loop, abandoned, settling, usage, emit, gone,
          result, recorded>>

Rotation == INSTANCE Rotation
  WITH Attempts <- Requests, permits <- rotationPermits

Limits == INSTANCE CustomerLimit
  WITH Attempts <- Requests, permits <- customerPermits

-----------------------------------------------------------------------------
\* A route of the signed list.  scope is the customer credential generation it
\* is bound to, or Platform.
Platform == "platform"
Units    == {"none", "reported", "estimated"}

ASSUME ExecutorAssumption ==
  /\ RouteLists \subseteq Seq([deployment : Deployments, scope : Scopes \cup {Platform}])
  /\ Formats \subseteq {"stream", "decisions", "embedding"}
  /\ Rooms \subseteq Nat
  /\ Measured \subseteq Units
  /\ Exchanges \subseteq Nat

\* An attempt that ended; route 0 is the absent one.
Attempt(route, err, units, cancelled) ==
  [route |-> route, err |-> err, units |-> units, cancelled |-> cancelled]
NoAttempt == Attempt(0, NoError, "none", FALSE)

NoResult == [report |-> FALSE, outcome |-> "none", units |-> "none", route |-> 0,
             switches |-> 0, failure |-> "none"]

Loop0 == [index |-> 1, retrying |-> FALSE, routeRetries |-> 0, waited |-> 0,
          wait |-> 0, switches |-> 0, skipped |-> {}]

Route(r)     == asked[r].routes[loop[r].index]
Customer(r)  == Route(r).scope # Platform

-----------------------------------------------------------------------------
\* Giving the route's one permit back; BYOK routes have no rotation permit and
\* platform routes have no customer permit.
ReportRotation(r, outcome) ==
  \E p \in rotationPermits : p.by = r /\ Rotation!Report(p, outcome)

ReportCustomer(r, kind, retryAfter) ==
  \E p \in customerPermits : p.by = r /\ Limits!Report(p, kind, retryAfter)

Give(r, outcome, kind, retryAfter) ==
  IF Customer(r)
  THEN ReportCustomer(r, kind, retryAfter) /\ UNCHANGED <<breakers, known, rotationPermits>>
  ELSE ReportRotation(r, outcome) /\ UNCHANGED <<entries, customerPermits>>

NotAttributable(r) == Give(r, "irrelevant", "not_attributable", 0)

\* settle is called with the attempt that stands for the request.
SettleWith(r, attempt, sinkErr, terminal) ==
  /\ pc' = [pc EXCEPT ![r] = "settle"]
  /\ settling' = [settling EXCEPT ![r] =
       [attempt |-> attempt, sinkErr |-> sinkErr, terminal |-> terminal]]

\* Nothing ran: the failure is the whole answer.
FailUnattempted(r, failure) ==
  /\ emit' = [emit EXCEPT ![r] = FinishWithError(@)]
  /\ result' = [result EXCEPT ![r] = [NoResult EXCEPT !.failure = failure]]
  /\ pc' = [pc EXCEPT ![r] = "done"]

\* A failure before the candidate was sent anything: the abandoned attempt, if
\* there is one, is still settled.
EndBeforeAttempt(r, failure) ==
  IF abandoned[r] # NoAttempt
  THEN SettleWith(r, abandoned[r], FALSE, failure) /\ UNCHANGED <<emit, result>>
  ELSE FailUnattempted(r, failure) /\ UNCHANGED settling

NextRoute(r) ==
  /\ loop' = [loop EXCEPT ![r].index = @ + 1, ![r].retrying = FALSE,
                          ![r].routeRetries = 0]
  /\ pc' = [pc EXCEPT ![r] = "top"]

Skip(r) ==
  /\ loop' = [loop EXCEPT ![r].index = @ + 1, ![r].retrying = FALSE,
                          ![r].routeRetries = 0,
                          ![r].skipped = @ \cup {Route(r).deployment}]
  /\ pc' = [pc EXCEPT ![r] = "top"]
-----------------------------------------------------------------------------
\* The top of the loop.  The limiter lets the customer's credential through.
AdmitCustomer(r) ==
  /\ pc[r] = "top" /\ loop[r].index <= Len(asked[r].routes) /\ Customer(r)
  /\ Limits!Admit(r, Route(r).scope)
  /\ pc' = [pc EXCEPT ![r] = "admitted"]
  /\ UNCHANGED <<breakers, known, rotationPermits, asked, loop, abandoned, settling,
                 usage, emit, gone, result, recorded>>

\* The limiter refuses it, which ends the request.
RefuseCustomer(r) ==
  /\ pc[r] = "top" /\ loop[r].index <= Len(asked[r].routes) /\ Customer(r)
  /\ Limits!Refuse(Route(r).scope)
  /\ EndBeforeAttempt(r, "customer_refusal")
  /\ UNCHANGED <<breakers, known, rotationPermits, asked, loop, abandoned,
                 usage, gone, recorded>>

\* The deployment's breaker lets a platform route through.
AdmitPlatform(r) ==
  /\ pc[r] = "top" /\ loop[r].index <= Len(asked[r].routes) /\ ~Customer(r)
  /\ Rotation!Admit(r, Route(r).deployment)
  /\ pc' = [pc EXCEPT ![r] = "admitted"]
  /\ UNCHANGED <<entries, customerPermits, asked, loop, abandoned, settling,
                 usage, emit, gone, result, recorded>>

\* The breaker refuses: the route is passed over, not switched away from.
SkipOpen(r) ==
  /\ pc[r] = "top" /\ loop[r].index <= Len(asked[r].routes) /\ ~Customer(r)
  /\ ~Rotation!Admits(breakers[Route(r).deployment])
  /\ Skip(r)
  /\ UNCHANGED <<registries, asked, abandoned, settling, usage, emit, gone,
                 result, recorded>>

\* Mutant of Unroutable: the skipped route's permit is not given back.
UnroutableKeepsPermit(r) ==
  /\ pc[r] = "admitted"
  /\ Skip(r)
  /\ UNCHANGED <<registries, asked, abandoned, settling, usage, emit, gone, result,
                 recorded>>

\* No adapter or key for the route, or no key within its funding ceiling.
Unroutable(r) ==
  /\ pc[r] = "admitted"
  /\ NotAttributable(r)
  /\ Skip(r)
  /\ UNCHANGED <<asked, abandoned, settling, usage, emit, gone, result, recorded>>

\* The abandoned attempt's output has reached the customer: nothing can replace
\* it, and it is what settles.
StopMoving(r) ==
  /\ pc[r] = "admitted" /\ abandoned[r] # NoAttempt /\ emit[r].started
  /\ NotAttributable(r)
  /\ SettleWith(r, abandoned[r], FALSE, "none")
  /\ abandoned' = [abandoned EXCEPT ![r] = NoAttempt]
  /\ UNCHANGED <<asked, loop, usage, emit, gone, result, recorded>>

MayTry(r) ==
  /\ pc[r] = "admitted"
  /\ ~(abandoned[r] # NoAttempt /\ emit[r].started)

\* The adapter cannot express the request.
Untranslatable(r) ==
  /\ MayTry(r)
  /\ NotAttributable(r)
  /\ EndBeforeAttempt(r, "translation")
  /\ UNCHANGED <<asked, loop, abandoned, usage, gone, recorded>>

\* The switch is announced by the attempt that replaces the failed one, and
\* counted once the sink has taken it.
Announce(r) ==
  /\ MayTry(r) /\ abandoned[r] # NoAttempt /\ ~loop[r].retrying
  /\ emit' = [emit EXCEPT ![r] = RouteSwitch(@)]
  /\ emit'[r].err = "none"
  /\ loop' = [loop EXCEPT ![r].switches = @ + 1]
  /\ pc' = [pc EXCEPT ![r] = "credentials"]
  /\ UNCHANGED <<registries, asked, abandoned, settling, usage, gone, result, recorded>>

\* The sink does not take the switch.
AnnounceFails(r) ==
  /\ MayTry(r) /\ abandoned[r] # NoAttempt /\ ~loop[r].retrying
  /\ emit' = [emit EXCEPT ![r] = RouteSwitch(@)]
  /\ emit'[r].err # "none"
  /\ NotAttributable(r)
  /\ SettleWith(r, abandoned[r], TRUE, "none")
  /\ UNCHANGED <<asked, loop, abandoned, usage, gone, result, recorded>>

\* A first attempt, or a retry of the same route: nothing to announce.
Proceed(r) ==
  /\ MayTry(r)
  /\ abandoned[r] = NoAttempt \/ loop[r].retrying
  /\ pc' = [pc EXCEPT ![r] = "credentials"]
  /\ UNCHANGED <<registries, asked, loop, abandoned, settling, usage, emit, gone,
                 result, recorded>>

\* credentialsForRoute succeeds and the adapter is called.
Send(r) ==
  /\ pc[r] = "credentials"
  /\ abandoned' = [abandoned EXCEPT ![r] = NoAttempt]
  /\ emit' = [emit EXCEPT ![r] = Serving(@)]
  /\ pc' = [pc EXCEPT ![r] = "streaming"]
  /\ UNCHANGED <<registries, asked, loop, settling, usage, gone, result, recorded>>

\* Mutant of CredentialFailure: the failed attempt that was moved away from is
\* forgotten.
CredentialFailureForgets(r) ==
  /\ pc[r] = "credentials" /\ Customer(r)
  /\ NotAttributable(r)
  /\ FailUnattempted(r, "credential")
  /\ UNCHANGED <<asked, loop, abandoned, settling, usage, gone, recorded>>

\* The customer's credential is missing, stale, revoked or does not decrypt.
CredentialFailure(r) ==
  /\ pc[r] = "credentials" /\ Customer(r)
  /\ NotAttributable(r)
  /\ EndBeforeAttempt(r, "credential")
  /\ UNCHANGED <<asked, loop, abandoned, usage, gone, recorded>>

-----------------------------------------------------------------------------
\* The adapter reports: Start once the upstream has answered, then progress and
\* output.  After a failed write it reports nothing more.
Reported(e) ==
  Len(e.pending) + Cardinality({i \in DOMAIN e.out : e.out[i].by = e.attempt})

AdapterReports(r) ==
  /\ pc[r] = "streaming" /\ asked[r].format = "stream" /\ emit[r].err = "none"
  /\ \/ ~emit[r].attemptStarted /\ emit' = [emit EXCEPT ![r] = Start(@)]
     \/ /\ emit[r].attemptStarted /\ Reported(emit[r]) < MaxOutput
        /\ \/ emit' = [emit EXCEPT ![r] = Progress(@)]
           \/ emit' = [emit EXCEPT ![r] = Output(@)]
  /\ UNCHANGED <<registries, asked, pc, loop, abandoned, settling, usage, gone,
                 result, recorded>>

\* What the adapter may return: the failed write's error, the cancelled
\* context's, nothing, or a failure of the upstream as it reads for this key.
Returns(r) ==
  IF emit[r].err # "none" THEN {Other("client_gone")}
  ELSE {NoError}
       \cup {CustomerCredentialFailure(err, Customer(r)) : err \in UpstreamErrors}
       \cup (IF r \in gone THEN {Other("canceled")} ELSE {})

\* isCancellation.
Cancelled(r, err) ==
  err # NoError /\ (err.kind \in {"client_gone", "canceled"} \/ r \in gone)

\* reportCustomerLimitOutcome.
CustomerVerdict(err) ==
  CASE err = NoError                                -> "succeeded"
    [] err.kind = "customer_credential"             -> "rejected"
    [] err.kind = "customer_upstream"
         /\ err.code = "rate_limited"               -> "throttled"
    [] OTHER                                        -> "not_attributable"

\* What the deployment's permit is told.
RotationVerdict(r, err) ==
  IF err = NoError THEN "served"
  ELSE IF Cancelled(r, err) \/ ~DeploymentAttributable(err) THEN "irrelevant"
  ELSE "failed"

\* reportCustomerCredentialValidation: a billing refusal says nothing of the key.
ValidationVerdict(r, err) ==
  IF ~Customer(r) THEN "none"
  ELSE IF err = NoError THEN "valid"
  ELSE IF err.kind = "customer_credential" /\ err.code = "provider_credential_invalid"
       THEN "invalid"
  ELSE "none"

\* The cost rows of one attempt: hedged exchanges that were cancelled carried
\* the same input, and precede the attempt's own row.
Row(r, units, hedged, verdict) ==
  [route |-> loop[r].index, units |-> units, hedged |-> hedged, served |-> FALSE,
   verdict |-> verdict]

Rows(r, err, units, exchanges) ==
  [i \in 1..(IF units = "none" THEN 0 ELSE exchanges) |-> Row(r, units, TRUE, "none")]
    \o <<Row(r, units, FALSE, ValidationVerdict(r, err))>>

\* Mutant of Movable: a decisions request moves like any other.
MovableAnyFormat(r, err) ==
  err # NoError /\ ~Cancelled(r, err) /\ DeploymentAttributable(err)

\* Another route, or this one again, could survive the failure; a decisions
\* request may already have been billed and never moves.
Movable(r, err) ==
  /\ err # NoError /\ ~Cancelled(r, err) /\ DeploymentAttributable(err)
  /\ asked[r].format # "decisions"

\* streamAttempt returns: both permits are told, the rows are written and the
\* request settles, waits to retry its route or goes to the next one.
Return(r, err, units, exchanges) ==
  LET attempt == Attempt(loop[r].index, err, units, Cancelled(r, err))
      retried == loop[r].routeRetries
      waited  == loop[r].waited
  IN  /\ err = NoError /\ asked[r].format # "stream" => units = "reported"
      /\ Give(r, RotationVerdict(r, err), CustomerVerdict(err), err.retryAfter)
      /\ usage' = [usage EXCEPT ![r] = @ \o Rows(r, err, units, exchanges)]
      /\ \/ /\ ~Movable(r, err)
            /\ SettleWith(r, attempt, FALSE, "none")
            /\ UNCHANGED <<loop, abandoned>>
         \/ /\ Movable(r, err)
            /\ abandoned' = [abandoned EXCEPT ![r] = attempt]
            /\ UNCHANGED settling
            /\ \/ emit[r].started /\ NextRoute(r)
               \/ ~emit[r].started /\ MayGiveUp(err, retried, waited) /\ NextRoute(r)
               \/ /\ ~emit[r].started
                  /\ \E wait \in RetryWaits(err, retried, waited) :
                       loop' = [loop EXCEPT ![r].wait = wait]
                  /\ pc' = [pc EXCEPT ![r] = "waiting"]
      /\ UNCHANGED <<asked, emit, gone, result, recorded>>

\* waitForRetry: the backoff is over.
WaitOver(r) ==
  /\ pc[r] = "waiting"
  /\ loop' = [loop EXCEPT ![r].routeRetries = @ + 1, ![r].retrying = TRUE,
                          ![r].waited = @ + loop[r].wait, ![r].wait = 0]
  /\ pc' = [pc EXCEPT ![r] = "top"]
  /\ UNCHANGED <<registries, asked, abandoned, settling, usage, emit, gone, result,
                 recorded>>

\* The client withdrew during the backoff: the failed attempt settles as
\* cancelled.
WaitCancelled(r) ==
  /\ pc[r] = "waiting" /\ r \in gone
  /\ SettleWith(r, [abandoned[r] EXCEPT !.cancelled = TRUE], FALSE, "none")
  /\ abandoned' = [abandoned EXCEPT ![r] = NoAttempt]
  /\ UNCHANGED <<registries, asked, loop, usage, emit, gone, result, recorded>>

\* The list is exhausted: the last failure settles, or every route was refused.
Exhausted(r) ==
  /\ pc[r] = "top" /\ loop[r].index > Len(asked[r].routes)
  /\ EndBeforeAttempt(r, IF abandoned[r] = NoAttempt THEN "out_of_rotation" ELSE "none")
  /\ UNCHANGED <<registries, asked, loop, abandoned, usage, gone, recorded>>

-----------------------------------------------------------------------------
\* outcomeFor.
OutcomeFor(attempt, units) ==
  IF attempt.err = NoError THEN "completed"
  ELSE IF units # "none" THEN "partial" ELSE "failed"

\* settle: whether the executor has to reconstruct the usage.
NeedsEstimate(attempt, completed, e) ==
  /\ e.attemptStarted
  /\ completed \/ e.delivered
  /\ attempt.units \in {"none", "estimated"}

\* Mutant of Served: whatever the request delivered, its last row served.
ServedAlways(r, attempt) == TRUE

\* settle: whether the terminal attempt served the customer.
Served(r, attempt) ==
  \/ emit[r].delivered
  \/ attempt.err = NoError /\ (emit[r].attemptStarted \/ asked[r].format # "stream")

MarkServed(rows, units, served) ==
  [i \in DOMAIN rows |-> IF i = Len(rows) THEN [rows[i] EXCEPT !.served = served, !.units = units]
                         ELSE rows[i]]

\* settle: how the report describes the request.
Outcome(attempt, units, interrupted, e) ==
  IF interrupted \/ (attempt.err # NoError /\ ~attempt.cancelled)
  THEN OutcomeFor(attempt, units)
  ELSE IF attempt.cancelled THEN "cancelled"
  ELSE IF e.attemptStarted THEN "completed" ELSE "failed"

Ending(e, failure) == [e |-> e, failure |-> failure]

\* settle: the emitter after the terminal event, and the failure returned.
Terminal(attempt, sinkErr, terminal, e) ==
  IF sinkErr THEN Ending(e, "undeliverable")
  ELSE IF terminal # "none" THEN Ending(FinishWithError(e), terminal)
  ELSE IF attempt.cancelled THEN Ending(e, "cancelled")
  ELSE IF attempt.err # NoError THEN Ending(FinishWithError(e), "upstream")
  ELSE IF ~e.attemptStarted THEN Ending(FinishWithError(e), "no_start")
  ELSE LET done == FinishWithDone(e)
       IN  Ending(done, IF done.err = "none" THEN "none" ELSE "undeliverable")

\* UsageReport.Validate: a completed request must report a unit.
Settleable(outcome, units) == ~(outcome = "completed" /\ units = "none")

\* The caller of a granted request records its cost itself (DeferCostRecording).
Finish(r, ending, rows, report) ==
  /\ emit' = [emit EXCEPT ![r] = ending.e]
  /\ usage' = [usage EXCEPT ![r] = rows]
  /\ result' = [result EXCEPT ![r] = [report EXCEPT !.failure = ending.failure]]
  /\ \E next \in {"record", "done"} : pc' = [pc EXCEPT ![r] = next]
  /\ UNCHANGED <<registries, asked, loop, abandoned, settling, gone, recorded>>

\* settle for a request whose answer is a stream of events, and for every
\* request that failed.
Settle(r) ==
  LET s         == settling[r]
      completed == s.attempt.err = NoError /\ ~s.sinkErr /\ s.terminal = "none"
      estimate  == NeedsEstimate(s.attempt, completed, emit[r])
      told      == IF estimate /\ ~emit[r].sinkFailed /\ ~s.sinkErr
                   THEN Progress(emit[r]) ELSE Refuse(emit[r], "none")
      sinkErr   == s.sinkErr \/ told.err # "none"
      units     == IF estimate THEN "estimated" ELSE s.attempt.units
      outcome   == Outcome(s.attempt, units, sinkErr \/ s.terminal # "none", told)
      report    == [report |-> TRUE, outcome |-> outcome, units |-> units,
                    route |-> s.attempt.route, switches |-> loop[r].switches,
                    failure |-> "none"]
      rows      == MarkServed(usage[r], units, Served(r, s.attempt))
  IN  /\ pc[r] = "settle"
      /\ ~(completed /\ asked[r].format # "stream")
      /\ IF Settleable(outcome, units)
         THEN Finish(r, Terminal(s.attempt, sinkErr, s.terminal, told), rows, report)
         ELSE Finish(r, Ending(IF sinkErr \/ s.attempt.cancelled THEN told
                               ELSE FinishWithError(told), "unsettleable"),
                     rows, NoResult)

\* settle for a decisions or an embedding answer: it is returned, not streamed,
\* and a decisions answer that does not validate is a provider failure.
SettleAnswer(r) ==
  LET s      == settling[r]
      rows   == MarkServed(usage[r], s.attempt.units, Served(r, s.attempt))
      report == [report |-> TRUE, outcome |-> "completed", units |-> s.attempt.units,
                 route |-> s.attempt.route, switches |-> loop[r].switches,
                 failure |-> "none"]
  IN  /\ pc[r] = "settle" /\ asked[r].format # "stream"
      /\ s.attempt.err = NoError
      /\ \/ Finish(r, Ending(emit[r], "none"), rows, report)
         \/ /\ asked[r].format = "decisions"
            /\ Finish(r, Ending(emit[r], "invalid_decisions"), rows,
                      [report EXCEPT !.outcome = "failed"])

\* Execute: the cost is recorded within providerCostPersistenceTimeout or given
\* up, also for a client that is gone.
Record(r) ==
  /\ pc[r] = "record"
  /\ recorded' \in {recorded, recorded \cup {r}}
  /\ pc' = [pc EXCEPT ![r] = "done"]
  /\ UNCHANGED <<registries, asked, loop, abandoned, settling, usage, emit, gone, result>>

-----------------------------------------------------------------------------
Init ==
  /\ Rotation!Init /\ Limits!Init
  /\ asked \in [Requests -> [format : Formats, routes : RouteLists]]
  /\ pc = [r \in Requests |-> "resolve"]
  /\ loop = [r \in Requests |-> Loop0]
  /\ abandoned = [r \in Requests |-> NoAttempt]
  /\ settling = [r \in Requests |-> [attempt |-> NoAttempt, sinkErr |-> FALSE,
                                      terminal |-> "none"]]
  /\ usage = [r \in Requests |-> <<>>]
  /\ \E rooms \in [Requests -> Rooms] : emit = [r \in Requests |-> NewEmitter(rooms[r])]
  /\ gone = {}
  /\ result = [r \in Requests |-> NoResult]
  /\ recorded = {}

\* resolve: the signed list agrees with the inventory, or the request is refused.
Resolve(r) ==
  /\ pc[r] = "resolve"
  /\ \/ pc' = [pc EXCEPT ![r] = "top"] /\ UNCHANGED <<emit, result>>
     \/ FailUnattempted(r, "invalid_request")
  /\ UNCHANGED <<registries, asked, loop, abandoned, settling, usage, gone, recorded>>

\* The client cancels its request.
Cancel(r) ==
  /\ r \notin gone /\ pc[r] # "done"
  /\ gone' = gone \cup {r}
  /\ UNCHANGED <<registries, asked, pc, loop, abandoned, settling, usage, emit, result,
                 recorded>>

\* Time passes for one of the registries; the inventory is reloaded.
Clock ==
  /\ \/ Rotation!Tick /\ UNCHANGED <<entries, customerPermits>>
     \/ Limits!Tick /\ UNCHANGED <<breakers, known, rotationPermits>>
  /\ UNCHANGED <<asked, pc, loop, abandoned, settling, usage, emit, gone, result, recorded>>

Reload ==
  /\ \E keep \in SUBSET Deployments : Rotation!Retain(keep)
  /\ UNCHANGED <<entries, customerPermits, asked, pc, loop, abandoned, settling, usage,
                 emit, gone, result, recorded>>

Step(r) ==
  \/ Resolve(r)
  \/ AdmitCustomer(r) \/ RefuseCustomer(r) \/ AdmitPlatform(r) \/ SkipOpen(r)
  \/ Unroutable(r) \/ StopMoving(r) \/ Untranslatable(r)
  \/ Announce(r) \/ AnnounceFails(r) \/ Proceed(r)
  \/ Send(r) \/ CredentialFailure(r)
  \/ AdapterReports(r)
  \/ /\ pc[r] = "streaming"
     /\ \E err \in Returns(r), units \in Measured, exchanges \in Exchanges :
          Return(r, err, units, exchanges)
  \/ WaitOver(r) \/ WaitCancelled(r) \/ Exhausted(r)
  \/ Settle(r) \/ SettleAnswer(r) \/ Record(r)

Next ==
  \/ \E r \in Requests : Step(r) \/ Cancel(r)
  \/ Clock
  \/ Reload

Spec == Init /\ [][Next]_vars

\* Every request runs on its own goroutine, and adapters give up on a stalled
\* upstream by themselves; time passes.
Fairness ==
  /\ WF_vars(Clock)
  /\ \A r \in Requests : WF_vars(Step(r))

FairSpec == Spec /\ Fairness

-----------------------------------------------------------------------------
InFlight == {"admitted", "credentials", "streaming"}
PCs      == {"resolve", "top", "waiting", "settle", "record", "done"} \cup InFlight

\* The requests' own state is well formed, and the backoff a request has spent
\* stays within the budget.
TypeOK ==
  /\ pc \in [Requests -> PCs]
  /\ \A r \in Requests :
       /\ loop[r].index \in 1..(Len(asked[r].routes) + 1)
       /\ loop[r].routeRetries \in 0..MaxRetriesPerRoute
       /\ loop[r].waited + loop[r].wait \in 0..Budget
       /\ emit[r] \in EmitterState
       /\ abandoned[r].route \in 0..Len(asked[r].routes)

PermitsOf(r)  == {p \in rotationPermits : p.by = r}
LimitsOf(r)   == {p \in customerPermits : p.by = r}

\* Every way out of an attempt gives its permit back, and a request holds only
\* the permit of the route it is on: a platform route never holds a customer
\* permit, and a customer's route never a breaker's.
PermitsFollowRequests ==
  \A r \in Requests :
    IF pc[r] \notin InFlight THEN PermitsOf(r) = {} /\ LimitsOf(r) = {}
    ELSE IF Customer(r)
         THEN PermitsOf(r) = {} /\ {p.scope : p \in LimitsOf(r)} = {Route(r).scope}
         ELSE LimitsOf(r) = {} /\ {p.id : p \in PermitsOf(r)} = {Route(r).deployment}

EventsOf(r, type) == {i \in DOMAIN emit[r].out : emit[r].out[i].type = type}

\* Once the customer has seen a start event no further attempt is made, on this
\* route or another: a second answer cannot follow the first one's beginning.
NeverMovesAfterDelivery ==
  [][\A r \in Requests :
       EventsOf(r, "start") # {} => emit'[r].attempt = emit[r].attempt]_vars

\* The receipt counts exactly the route switches the customer was shown: none
\* for a retry, none for a route that was passed over, and none that a broken
\* sink did not take.
SwitchesAsAnnounced ==
  \A r \in Requests :
    /\ Cardinality(EventsOf(r, "switch")) = loop[r].switches
    /\ result[r].report => result[r].switches = loop[r].switches

OwnRows(r) == {i \in DOMAIN usage[r] : ~usage[r][i].hedged}

\* Every attempt that was sent has its own cost row, whatever became of it; at
\* most the last row is served, and only if the customer got its answer.
AttemptsAreCosted ==
  \A r \in Requests :
    /\ Cardinality(OwnRows(r)) + (IF pc[r] = "streaming" THEN 1 ELSE 0) = emit[r].attempt
    /\ \A i \in DOMAIN usage[r] : usage[r][i].served =>
         /\ i = Len(usage[r]) /\ ~usage[r][i].hedged
         /\ emit[r].delivered \/ settling[r].attempt.err = NoError
    /\ pc[r] = "done" /\ emit[r].delivered => usage[r][Len(usage[r])].served

\* Attempts follow the signed order, and no route is tried more often than the
\* retry policy allows.
WalksSignedRoutes ==
  \A r \in Requests :
    /\ \A i, j \in DOMAIN usage[r] : i < j => usage[r][i].route <= usage[r][j].route
    /\ \A route \in 1..Len(asked[r].routes) :
         Cardinality({i \in OwnRows(r) : usage[r][i].route = route}) <= 1 + MaxRetriesPerRoute

\* The routes a request tries, and the moves between them it is told of, are
\* those of the signed list (execute's route loop, RetryPolicy.next and
\* emitter.routeSwitch).
RoutesAsSigned == WalksSignedRoutes /\ SwitchesAsAnnounced

\* A decisions request is sent once: it may have been accepted and billed.
DecisionsSentOnce ==
  \A r \in Requests : asked[r].format = "decisions" => emit[r].attempt <= 1

\* A request that reached an adapter is settled, for the last attempt that ran,
\* also when a later candidate failed before it was sent anything.
AttemptedIsReported ==
  \A r \in Requests :
    pc[r] = "done" /\ usage[r] # <<>> =>
      result[r].report /\ result[r].route = usage[r][Len(usage[r])].route

\* How the stream ends agrees with what is reported: done for a success, an
\* error for a failure, and nothing more for a client that cancelled.
EndsAsReported ==
  \A r \in Requests :
    pc[r] = "done" =>
      /\ result[r].failure = "none" /\ asked[r].format = "stream" => EventsOf(r, "done") # {}
      /\ result[r].failure \in {"cancelled", "undeliverable"} =>
           EventsOf(r, "done") = {} /\ EventsOf(r, "error") = {}
      /\ result[r].failure \notin {"none", "cancelled", "undeliverable", "invalid_decisions"} =>
           EventsOf(r, "error") # {} \/ emit[r].sinkFailed

\* A failure after output was delivered settles as partial, with units.
DeliveredFailureIsPartial ==
  \A r \in Requests :
    LET attempt == settling[r].attempt
    IN  pc[r] = "done" /\ emit[r].delivered /\ attempt.err # NoError /\ ~attempt.cancelled =>
          result[r].outcome = "partial" /\ result[r].units # "none"

\* The report handed over for settlement agrees with what ran and with what the
\* customer was told (settle, finalize and the terminal event).
ReportAgrees == AttemptedIsReported /\ EndsAsReported /\ DeliveredFailureIsPartial

\* Every request ends, and once they all have, every breaker and every customer
\* credential lets requests through again.
EventuallyQuiet ==
  <>[](/\ \A r \in Requests : pc[r] = "done"
       /\ \A d \in Deployments : Rotation!Admits(breakers[d])
       /\ \A s \in Scopes : Limits!Admits(entries[s]))

=============================================================================

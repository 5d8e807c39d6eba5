------------------------ MODULE CustomerCredentials ------------------------
(***************************************************************************)
(* A customer's own provider credential: Oxy creates, rotates and revokes  *)
(* it (credentialcontrol.Server, credentialstore.CustomerWriter), asks for *)
(* the validation of one exact generation (credentialvalidation.Runner)    *)
(* and is told the verdict again by the reporter (oxyvalidation.Reporter). *)
(*                                                                         *)
(* Any request may arrive at any time and any number of times: a resend of *)
(* a call whose answer was lost, a duplicate, or an operation id used for  *)
(* something else.  The SQL functions the store calls are transactions.    *)
(* A ciphertext is the secret with the scope it was encrypted for.         *)
(***************************************************************************)
EXTENDS EdgeSurface

CONSTANTS
  Connections,    \* immutable identities (provider, owner, connection, environment)
  Handles,        \* handles newHandle may draw
  Operations,     \* mutation operation ids
  Validations,    \* validation operation ids
  Validators,     \* concurrent validation calls, of any process
  Orders,         \* signed mutations and outcome queries that may arrive
  Tasks,          \* signed validation tasks that may arrive
  Fates,          \* how the first half of a probe ends
  Answers,        \* answers a provider gives a probe
  Foreign,        \* connections of another environment than the reporter's
  QueueSize,      \* verdicts the reporter's queue holds
  MaxGeneration   \* bound: leases of one validation

ASSUME ReporterAssumption == QueueSize \in Nat \ {0}
ASSUME CredentialAssumption ==
  /\ \A m \in Orders : m.body.request.op \in Operations /\ m.body.request.connection \in Connections
  /\ \A m \in Tasks : m.body.task.id \in Validations /\ m.body.task.connection \in Connections
  /\ Fates \subseteq {"ready", "late", "unserved", "untranslatable"}
  /\ Answers \subseteq {"served", "unauthorized", "billing", "rate_limited", "timed_out", "unreadable"}

VARIABLES
  rows,        \* customer_provider_credentials, one per connection
  outcomes,    \* customer_provider_credential_operations
  validations, \* customer_provider_credential_validations
  validating,  \* what each validator is doing
  reporter,    \* the queue of verdicts, what is in it and what was delivered
  told         \* history: generations written, answers and verdicts given

credentialVars == <<rows, outcomes, validations, validating, reporter, told>>

NoRow == [handle |-> "none", revision |-> 0, status |-> "none", secret |-> "none", boundTo |-> <<>>]
NoOutcome == [request |-> [op |-> "none"], status |-> "none", handle |-> "none", revision |-> 0]
NoValidation == [task |-> [id |-> "none"], state |-> "none", failure |-> "none", generation |-> 0, leased |-> FALSE,
                 judged |-> "none"]
Idle == [step |-> "idle", task |-> [id |-> "none"], generation |-> 0, judged |-> "none", state |-> "none", failure |-> "none"]

NewReporter == [queue |-> <<>>, posting |-> {}, pending |-> {}, delivered |-> {}]

ScopeOf(connection, handle, revision) == <<connection, handle, revision>>

(* ------------------------------- mutations ------------------------------ *)

Conflict(request) == [request |-> request, status |-> "conflict", handle |-> "none", revision |-> 0]
Applied(request, handle, revision) == [request |-> request, status |-> "applied", handle |-> handle, revision |-> revision]

\* The row a fresh operation finds in the state it asks for.
Names(row, request) ==
  row.status = "active" /\ row.handle = request.handle /\ row.revision = request.expected

\* What a fresh operation writes: a row nobody has, or the next revision of the
\* exact active one. The secret is encrypted for the generation it becomes.
applyCustomer(request, handle) ==
  LET row == rows[request.connection]
      next == request.expected + 1
  IN CASE request.action = "create" /\ row = NoRow ->
            [row |-> [handle |-> handle, revision |-> 1, status |-> "active", secret |-> request.secret,
                      boundTo |-> ScopeOf(request.connection, handle, 1)],
             outcome |-> Applied(request, handle, 1)]
       [] request.action = "rotate" /\ Names(row, request) ->
            [row |-> [row EXCEPT !.revision = next, !.secret = request.secret,
                                 !.boundTo = ScopeOf(request.connection, request.handle, next)],
             outcome |-> Applied(request, request.handle, next)]
       [] request.action = "revoke" /\ Names(row, request) ->
            [row |-> [row EXCEPT !.revision = next, !.status = "revoked"],
             outcome |-> Applied(request, request.handle, next)]
       [] OTHER -> [row |-> row, outcome |-> Conflict(request)]

\* A repeated operation answers as it did; another use of its id conflicts.
replaySameReference(stored, request) ==
  IF [stored.request EXCEPT !.secret = request.secret] = request THEN stored ELSE Conflict(request)
replay(stored, request) == IF stored.request = request THEN stored ELSE Conflict(request)

\* A query cannot state the secret: everything else must match exactly.
queried(stored, request) ==
  /\ stored # NoOutcome
  /\ [stored.request EXCEPT !.secret = request.secret] = request

\* One mutation; a lost answer is one Oxy does not act on. A refused call, or one
\* that fails before the transaction, changes nothing.
handleMutation(m, handle) ==
  LET request == m.body.request
      stored == outcomes[request.op]
      fresh == applyCustomer(request, handle)
      outcome == IF stored = NoOutcome THEN fresh.outcome ELSE replay(stored, request)
      writes == stored = NoOutcome /\ outcome.status = "applied" /\ request.action # "revoke"
  IN /\ m.surface = "mutation" /\ controlRefusal(m) = 0
     /\ writes => \A c \in Connections \ {request.connection} : rows[c].handle # handle
     /\ rows' = IF stored = NoOutcome THEN [rows EXCEPT ![request.connection] = fresh.row] ELSE rows
     /\ outcomes' = IF stored = NoOutcome THEN [outcomes EXCEPT ![request.op] = outcome] ELSE outcomes
     /\ told' = [told EXCEPT
          !.written = IF writes THEN @ \cup {[scope |-> fresh.row.boundTo, secret |-> request.secret, op |-> request.op]} ELSE @,
          !.answers = @ \cup {[outcome EXCEPT !.request = request]}]
     /\ UNCHANGED <<validations, validating, reporter>>

\* The outcome of one exact operation; none is not found, whatever the reason.
handleOutcome(m) ==
  LET request == m.body.request
      stored == outcomes[request.op]
  IN /\ m.surface = "outcome"
     /\ controlRefusal(m) = 0 /\ queried(stored, request)
     /\ told' = [told EXCEPT !.answers = @ \cup {stored}]
     /\ UNCHANGED <<rows, outcomes, validations, validating, reporter>>

(* ------------------------------- validation ----------------------------- *)

\* The secret of one exact active generation, or nothing.
ResolveForInference(task) ==
  LET row == rows[task.connection]
  IN IF /\ row.status = "active" /\ row.handle = task.handle /\ row.revision = task.revision
        /\ row.boundTo = ScopeOf(task.connection, task.handle, task.revision)
     THEN row.secret ELSE "none"

Terminal == {"valid", "invalid", "inconclusive"}

\* What a claim answers and leaves behind.
ClaimCustomerValidation(stored, task) ==
  LET row == IF stored = NoValidation THEN [stored EXCEPT !.task = task] ELSE stored
      answer == IF row.task # task THEN "conflict"
                ELSE IF row.state \in Terminal THEN row.state
                ELSE IF row.leased THEN "pending" ELSE "execute"
  IN [answer |-> answer,
      row |-> IF answer = "execute" THEN [row EXCEPT !.state = "running", !.generation = @ + 1, !.leased = TRUE] ELSE row]

\* The first terminal result of the generation that holds the lease; the same
\* result again is accepted, any other refused.
completeOverwrites(stored, w) ==
  [done |-> TRUE, row |-> [stored EXCEPT !.state = w.state, !.failure = w.failure, !.judged = w.judged, !.leased = FALSE]]
CompleteCustomerValidation(stored, w) ==
  IF stored.state = "running" /\ stored.generation = w.generation
  THEN [done |-> TRUE, row |-> [stored EXCEPT !.state = w.state, !.failure = w.failure, !.judged = w.judged, !.leased = FALSE]]
  ELSE [done |-> stored.generation = w.generation /\ stored.state = w.state /\ stored.failure = w.failure, row |-> stored]

Verdict(task, of) == [task |-> task, state |-> of.state, failure |-> of.failure, judged |-> of.judged]

\* Queued unless it waits there already, was the last delivered of its selector,
\* or finds the queue full.
Submit(r, v) ==
  IF v.task.connection \in Foreign \/ v \in r.pending \/ v \in r.delivered \/ Len(r.queue) >= QueueSize THEN r
  ELSE [r EXCEPT !.queue = Append(@, v), !.pending = @ \cup {v}]

\* A validation asked for: claimed, in conflict, pending, or answered from what is
\* stored.
Validate(w, m) ==
  LET task == m.body.task
      stored == validations[task.id]
      claim == ClaimCustomerValidation(stored, task)
      verdict == Verdict(task, stored)
  IN /\ m.surface = "validation"
     /\ validating[w] = Idle
     /\ validationRefusal(m) = 0
     /\ claim.row.generation <= MaxGeneration
     /\ validations' = [validations EXCEPT ![task.id] = claim.row]
     /\ validating' = IF claim.answer = "execute"
                      THEN [validating EXCEPT ![w] = [@ EXCEPT !.step = "claimed", !.task = task,
                                                               !.generation = claim.row.generation]]
                      ELSE validating
     /\ reporter' = IF claim.answer \in Terminal THEN Submit(reporter, verdict) ELSE reporter
     /\ told' = IF claim.answer \in Terminal THEN [told EXCEPT !.verdicts = @ \cup {verdict}] ELSE told
     /\ UNCHANGED <<rows, outcomes>>

\* The probe's first half: the deployment and its adapter, the secret, the call.
Resolve(w, fate) ==
  LET secret == ResolveForInference(validating[w].task)
      failure == CASE fate = "late"           -> "network"
                   [] fate = "unserved"       -> "not_found"
                   [] fate = "untranslatable" -> IF secret = "none" THEN "not_found" ELSE "unknown"
                   [] fate = "ready"          -> IF secret = "none" THEN "not_found" ELSE "none"
  IN /\ validating[w].step = "claimed"
     /\ validating' = [validating EXCEPT ![w] =
          IF failure = "none" THEN [@ EXCEPT !.step = "calling", !.judged = secret]
          ELSE [@ EXCEPT !.step = "probed", !.state = "inconclusive", !.failure = failure]]
     /\ UNCHANGED <<rows, outcomes, validations, reporter, told>>

\* What each answer of the provider proves of the key it was given.
probe(answer) ==
  CASE answer = "served"       -> [state |-> "valid", failure |-> "none"]
    [] answer = "unauthorized" -> [state |-> "invalid", failure |-> "unauthorized"]
    [] answer = "billing"      -> [state |-> "inconclusive", failure |-> "forbidden"]
    [] answer = "rate_limited" -> [state |-> "inconclusive", failure |-> "rate_limited"]
    [] answer = "timed_out"    -> [state |-> "inconclusive", failure |-> "network"]
    [] answer = "unreadable"   -> [state |-> "inconclusive", failure |-> "unknown"]

\* The provider answers the one real call of the probe.
Probed(w, answer) ==
  /\ validating[w].step = "calling"
  /\ validating' = [validating EXCEPT ![w] = [@ EXCEPT !.step = "probed", !.state = probe(answer).state,
                                                        !.failure = probe(answer).failure]]
  /\ UNCHANGED <<rows, outcomes, validations, reporter, told>>

\* The result is committed and only then told. A call whose context ended may
\* have committed and still answers nothing.
Completed(w, commits, answered) ==
  LET v == validating[w]
      stored == validations[v.task.id]
      complete == CompleteCustomerValidation(stored, v)
      verdict == Verdict(v.task, v)
      tells == commits /\ answered /\ complete.done
  IN /\ v.step = "probed"
     /\ answered => commits
     /\ validations' = IF commits THEN [validations EXCEPT ![v.task.id] = complete.row] ELSE validations
     /\ validating' = [validating EXCEPT ![w] = Idle]
     /\ reporter' = IF tells THEN Submit(reporter, verdict) ELSE reporter
     /\ told' = IF tells THEN [told EXCEPT !.verdicts = @ \cup {verdict}] ELSE told
     /\ UNCHANGED <<rows, outcomes>>

\* The 60-second lease ends, whether or not its validator is still at work.
LeaseEnds(id) ==
  /\ validations[id].leased
  /\ validations' = [validations EXCEPT ![id].leased = FALSE]
  /\ UNCHANGED <<rows, outcomes, validating, reporter, told>>

\* The process dies: its calls and its reporter's memory are gone.
Restart ==
  /\ validating' = [w \in Validators |-> Idle]
  /\ reporter' = NewReporter
  /\ UNCHANGED <<rows, outcomes, validations, told>>

(* ------------------------------- reporting ------------------------------ *)

\* A verdict is sent with a token for Oxy, and once more with a fresh one when Oxy
\* does not take the first.
report(mints, first, second) ==
  LET answer == IF first = "unauthorized" THEN second ELSE first
  IN [sent |-> mints /\ answer \in {"recorded", "unacknowledged"}, ok |-> mints /\ answer = "recorded"]

\* The reporter takes the head of the queue, which stays pending while it posts.
Taken ==
  /\ reporter.posting = {} /\ reporter.queue # <<>>
  /\ reporter' = [reporter EXCEPT !.posting = {Head(reporter.queue)}, !.queue = Tail(@)]
  /\ UNCHANGED <<rows, outcomes, validations, validating, told>>

\* It posts it once. Only what Oxy acknowledged is remembered, in place of what was
\* delivered of the same selector before. (The memory is bounded; what is forgotten
\* is resent, as after a restart.)
Posted(v, post) ==
  /\ v \in reporter.posting
  /\ reporter' = [reporter EXCEPT
       !.posting = {}, !.pending = @ \ {v},
       !.delivered = IF post.ok THEN {d \in @ : d.task # v.task} \cup {v} ELSE @]
  /\ told' = [told EXCEPT !.verdicts = IF post.sent THEN @ \cup {v} ELSE @]
  /\ UNCHANGED <<rows, outcomes, validations, validating>>

(* ----------------------------- specification ---------------------------- *)

CredentialInit ==
  /\ rows = [c \in Connections |-> NoRow]
  /\ outcomes = [o \in Operations |-> NoOutcome]
  /\ validations = [v \in Validations |-> NoValidation]
  /\ validating = [w \in Validators |-> Idle]
  /\ reporter = NewReporter
  /\ told = [written |-> {}, answers |-> {}, verdicts |-> {}]

CredentialNext ==
  \/ \E m \in Orders :
       \/ \E handle \in Handles : handleMutation(m, handle)
       \/ handleOutcome(m)
  \/ \E m \in Tasks, w \in Validators : Validate(w, m)
  \/ \E w \in Validators :
       \/ \E fate \in Fates : Resolve(w, fate)
       \/ \E answer \in Answers : Probed(w, answer)
       \/ \E commits, answered \in BOOLEAN : Completed(w, commits, answered)
  \/ \E id \in Validations : LeaseEnds(id)
  \/ Restart
  \/ Taken
  \/ \E v \in reporter.posting, mints \in BOOLEAN,
        first, second \in {"recorded", "unacknowledged", "lost", "unauthorized"} : Posted(v, report(mints, first, second))

CredentialSpec == CredentialInit /\ [][CredentialNext]_credentialVars

(* ------------------------------- properties ----------------------------- *)

\* However a mutation is resent, lost, or its operation id used again
\* (CustomerWriter.Create, Rotate, Revoke), the answers to one exact request
\* never differ; an "applied" answer names the generation that this request's
\* own secret was written as; and no generation is written twice.
AnswersAreTrue ==
  /\ \A a, b \in told.answers : a.request = b.request => a = b
  /\ \A a \in told.answers : (a.status = "applied" /\ a.request.action # "revoke") =>
       \E x \in told.written : /\ x.scope = ScopeOf(a.request.connection, a.handle, a.revision)
                               /\ x.secret = a.request.secret /\ x.op = a.request.op
  /\ \A x, y \in told.written : x.scope = y.scope => x = y

\* Every verdict Oxy is given about a validation, by an answer or by a report,
\* of whichever validator and after whichever lease, is the same one
\* (Runner.Validate, CompleteCustomerValidation); and it calls a generation valid
\* or invalid only on what the provider said of the very secret written as that
\* generation, however rotation and revocation interleave with the probe.
VerdictsAreEarned ==
  /\ \A u, v \in told.verdicts : u.task = v.task => u = v
  /\ \A v \in told.verdicts : v.state \in {"valid", "invalid"} =>
       \E x \in told.written : /\ x.scope = ScopeOf(v.task.connection, v.task.handle, v.task.revision)
                               /\ x.secret = v.judged

=============================================================================

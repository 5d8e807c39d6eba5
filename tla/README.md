# Kaana in TLA+

Kaana is the inference service of Oxy: a Go process that receives signed
requests and public API calls, walks the routes Oxy authorized for them across
upstream providers, streams the answer to the customer and settles what it cost.
This directory holds TLA+ models of the parts whose correctness depends on the
order of things, the TLC instances that check them, and TLAPS proofs of the
results that should hold for every configuration.

All paths below are relative to `src/`.

## 1. The system

| Part | State | Operations | Talks to |
|---|---|---|---|
| deployment rotation, `internal/rotation` | one circuit breaker per deployment, permits in flight | `Admit`, `Permit.Succeeded/Failed/NotAttributable`, `Retain`, `Project` | executor, inventory reloads |
| customer limits, `internal/customerlimit` | one entry per customer credential generation, permits in flight | `Admit` (with its sweep), `Permit.Succeeded/Rejected/Throttled/NotAttributable` | executor |
| emitter, `internal/kaana/emitter.go` | sequence number, held preamble, what was delivered, sticky sink failure | `serving`, `Start`, `Delta`, `ToolCall`, `Audio`, `Usage`, `routeSwitch`, `commit`, `finishWithDone`, `finishWithError` | executor, adapters, the customer's sink |
| executor, `internal/kaana/executor.go` | loop variables of each request, cost rows, report | `Execute`: admission, credential resolution, attempt, classification, retry, switch, settlement | all of the above, adapters, cost recorder |
| platform key pools, `internal/provider/credential.go`, `funding.go` | retirement of each key in each pool object, the walk of each request | `Begin`, `Next`, `Retire`, `markUsable`, `recover`, `Observe`, `WalkAttempts` | adapters, credential store |
| durable key state, migration `0011` | a row per key: verdict, retirement, lease, observation time | claim a recovery, record an attempt, reset on rotation | all replicas' pools |
| adapters, `internal/provider/openaicompat`, `anthropic`, `spokenchat` | parser state of one stream, racing exchanges and latency scores | `Translate`, `Send`, `Refuse`, `Stream` | providers, emitter |
| inventory, `internal/inventory` | installed snapshot, its age, the last reload's error | parse, reload, resolve, aggregate the catalogue | executor, public API |
| grant resolution, `publicapi/routes.go`, `contract/grant.go` | none | `resolveGrant`, `resolveAuthorizedRoutes` | inventory, key pools, executor |
| public API, `internal/publicapi` | rate buckets, cached catalogue access, one admission per request | decode, admit, execute, answer, settle | Oxy, executor |
| settlement outbox, `publicapi/settle.go`, `credentialstore/settlement.go` | a row per executed grant, leases, positions | record, claim, post, mark, defer, page | Oxy, database, all tasks |
| realtime sessions, `internal/realtime`, `kaana/session.go` | connection, replay buffer, commands seen, usage so far, timers | admit, open, attach, receive, emit, resume, finish | clients, provider sessions |
| realtime providers, `provider/openairealtime` | configuration, updates and responses in flight, transcripts, meter | `Send`, `Next`, `translate` | provider sockets |
| session ownership, `realtime/peers.go`, `sessionowner` | a leased directory row per session | claim, renew, release, forward a resume | database, peers |
| customer credentials, `credentialcontrol`, `credentialstore/customer*.go` | generations and the log of operations | create, rotate, revoke, outcome, resolve | Oxy, executor |
| validation, `credentialvalidation`, `oxyvalidation` | claims with leases, verdicts, bounded queue | claim, probe, complete, submit, post | providers, Oxy |
| HTTP surfaces, `httpapi`, `edgeauth`, `sse` | the connection, feed cursors | verify, admit, write events, page, list | Oxy |
| publisher, cost records, other adapters, assembly, helpers, TypeScript packages | see section 7 | | |

What is hard in it, and what the properties are about:

- *Permits.* Every admission hands out a permit that must be reported exactly
  once on some path. One forgotten report takes a deployment or a customer's
  credential out for good. Reports also arrive late, for a breaker that has
  opened, probed, closed or been dropped and re-created since.
- *Delivery.* Nothing may be retried once the customer has seen output, a
  switch must be announced in order, and what is billed must agree with what was
  delivered although sinks break and clients cancel at any write.
- *Shared rows.* Replicas learn about a key, claim a settlement or own a session
  through leased rows; they write out of order, lose answers, outlive their
  leases and crash.
- *Moving configuration.* Snapshots, key pools and catalogue access are replaced
  between the moment a request reads them and the moment it acts on them.
- *Conversations with a provider.* Confirmations name no command, fragments name
  no call, responses end without a word, usage comes in pieces, streams are cut.
- *Reconnection and repetition.* Clients resume, Oxy resends, validators and
  deliverers try again what may already have been done.

`PROJECT.json` lists every component and, under `hazards`, each place where the
code is exposed, with the property that watches it.

## 2. Modules

| Module | Models | Built on |
|---|---|---|
| `Rotation` | the circuit breakers | |
| `CustomerLimit` | the customer credential limits | |
| `CustomerStream` | what a customer may see: an abstract specification | |
| `EmitterOps`, `Emitter` | the emitter's methods as operators on its record; one emitter called in any order its callers can | refines `CustomerStream` |
| `FailureClasses` | classification of failures, retry policy | |
| `Executor` | concurrent requests | `FailureClasses`, `EmitterOps`, instances of `Rotation` and `CustomerLimit` |
| `Funding`, `KeyPool` | cost of a key and ceilings; pools, walks, durable rows, reloads | |
| `ProviderCalls` | requests on a provider's wire, refusals and token counts in the contract's words | |
| `ProviderStreams` | one attempt at a provider, read into the emitter | `ProviderCalls`, `EmitterOps`, `FailureClasses` |
| `HedgedExchanges` | racing embeddings | |
| `GrantLedger` | what a customer is promised about a grant: an abstract specification | |
| `Settlement` | execution, outbox and deliverers of several tasks | refines `GrantLedger` |
| `SettlementFeed` | the reconciliation feed beside the writing transactions | |
| `Inventory` | snapshot files, resolution, the catalogue's aggregation | |
| `GrantPlan` | from a grant to a list of routes, and the executor's check of it | `Inventory`, `Funding` |
| `SnapshotStore` | reloads of snapshots and keys around one request | `GrantPlan` |
| `PublicRequests` | what each endpoint reads, refuses and hands to the executor | |
| `PublicApi` | one public request from its first byte to its settlement | `PublicRequests`, `GrantPlan` |
| `PublicCatalogue`, `PublicGate` | the declared catalogue; rate limits, origins and cached access | `Inventory` |
| `RealtimeRequests` | what a session and a command may ask for | |
| `RealtimeSession` | one session on one task | `RealtimeRequests` |
| `RealtimeWire`, `RealtimeUpstream` | a dialect's conversions; one provider session | `RealtimeRequests` |
| `RealtimeTranscripts` | the caller's transcripts and tool calls | |
| `SessionOwners` | the owner directory and the hop to the owner | |
| `EdgeSurface` | the signed surfaces, the event writer, the attempt feed beside the writing transactions, the deployments batch | |
| `CustomerCredentials` | operations on, validations of and reports about a customer's credential | |
| `RotationProofs`, `EmitterProofs`, `ExecutorProofs`, `KeyPoolProofs`, `SettlementProofs`, `CustomerCredentialsProofs`, `PublicApiProofs`, `RealtimeProofs` | theorems, see section 6 | the module each is named after; `EmitterProofs` also `HedgedExchanges` and `ProviderStreams`, `SettlementProofs` also `SettlementFeed`, `CustomerCredentialsProofs` also `CustomerLimit` and `EdgeSurface`, `PublicApiProofs` also `PublicGate`, `GrantPlan` and `SnapshotStore`; `RealtimeProofs` is about `SessionOwners`, `RealtimeSession` and `RealtimeUpstream` |
| `MC*` | constants for TLC, and the sums described in section 3 | |

How they correspond to the code:

**Time.** Where deadlines matter a module keeps the number of ticks *left*
(`probesIn`, `left`, `due`, `lease`) or an age counted as far as anything compares
it, and its tick moves all of them, so the state is finite without bounding runs.
`SnapshotStore` and `PublicGate`, whose code compares absolute times, have a clock
with a bound (`MaxNow`, `MaxClock`).

**Data.** A text is its length or an identity, an audio frame its size, a secret
the generation it belongs to, a signature the record that was signed, a word of a
grammar a number ordered as the code orders its strings. Refusals are kept in the
order the code tests them, because the first one decides what the caller is told.

**Rotation, CustomerLimit.** `breakers[d]` and `entries[s]` are the structs,
`permits` the permits handed out and not reported. `Admit` (with its sweep),
`Report`, `Retain` and `Project` hold the mutex for their whole body, so each is
one action. The health score, which only feeds an operator's view, and
`SoonestProbe`, which only reads, are left out. A customer permit does not know
whether it is the trial; the model keeps that as a ghost for the properties.

**EmitterOps, Emitter, CustomerStream.** The emitter is one record and each
method an operator on it, used by `Emitter` (any order of calls), by `Executor`
(the order the executor makes) and by `ProviderStreams` (the order an adapter
makes). A sink takes a number of events and then fails for ever, as the code's
sticky error does. `CustomerStream` says what a customer may receive: route
switches, one start, output and progress of the attempt that start names and of
no other, at most one terminal event, numbered without a gap.

**Executor.** One request is one process. A step is what happens between two
points where another request, the client or the sink can be seen. `Reload` and
`Clock` are the environment. Adapters are left to chance within what their
interface allows. `Settle` is the whole of `settle` and `finalize`.

**KeyPool.** A pool is an object, so that a request can still be walking the
generation it resolved while the registry points to the next one. A walk is the
local state of `WalkAttempts`; it gives way at the claim, at the exchange and at
the write of its attempt, which may fail or come late. `old` marks secrets whose
ciphertext was rotated after they were loaded, and `overtaken` a walk whose lease a
recorded verdict replaced by a shorter retirement; no code reads either.

**ProviderCalls, ProviderStreams.** `at` is the adapter's side, with its
accumulators, its usage meter and the emitter it writes to; `said` is what the
provider really sent, and is read by properties only. Frames arrive readable or
not, the stream may be cut, go quiet or be withdrawn between any two. Three wires
are told apart: chat completions, Messages and spoken chat.

**HedgedExchanges.** An exchange is its upstream, its age and its result; races
follow one another on the scores earlier ones left behind.

**Settlement, SettlementFeed.** Every task serves requests and runs one
deliverer; all share the table. The write of a settlement, each post and each
mark or deferral is a step that may succeed, fail, or succeed with its answer
lost; a task may drain or crash between any two, and a fresh one takes its name.
The feed's rows draw their position when they are inserted and become readable
when they commit.

**Inventory, GrantPlan, SnapshotStore.** A file is the set of its rows with every
defect the parser tests. A request resolves its grant against the snapshot and
the key pools of one moment and is executed against those of a later one.

**PublicRequests, PublicApi, PublicCatalogue, PublicGate.** `PublicRequests` is
the endpoints' checks as operators, `PublicApi` the handlers' control: headers,
body, admission, Oxy's answer, execution, the five ways an answer is put on the
wire, and settlement. The executor appears there as the stream it promises
(`CustomerStream`) with a result that agrees with it. `PublicGate` keeps a ghost
bucket per credential that is never forgotten, to compare the swept map with.

**RealtimeRequests, RealtimeSession, RealtimeWire, RealtimeUpstream,
RealtimeTranscripts, SessionOwners.** `s` is the state of the session goroutine
and its handlers are functions of it, each whole: acknowledgement, emission,
replay buffer and finish included. `u` is the adapter's session, `up` the commands
in flight, `peer` the provider (external: it confirms or refuses each command in
order and may answer a turn it detected by itself). `RealtimeTranscripts` has a
transcriber that repeats, revises and carries words over. `SessionOwners` has one
session, its tasks, the leased row and one resume on its way.

**EdgeSurface, CustomerCredentials.** Any signed message may arrive at any time
and any number of times. The SQL functions the store calls are transactions;
validators hold leases, probe for as long as they like, and complete. The attempt
feed (`feed`) holds the database's clock, the writes under way and those committed:
a row stands at the start of its transaction, its request and its attempt, whatever
the order of the commits; a write may be repeated while the first is still under way
(the rows already there are kept), fail or never end. A page is read at one instant
of the clock and may be lost on its way.

## 3. Runs

Each passing run has no error, and between them they fire every action; each
property also has a mutant (a plausible slip in one mapped definition) under
which TLC finds it violated.

Where components have no variable in common, one run holds several: its MC module
adds a variable `part` that is chosen initially, and each behaviour is one of one
part. This sum has as many states as its parts together and checks each property
on the part it is about; the others stay in their initial states, where nothing
of their fairness is enabled.

| Run | Instance | States | Properties and what they show |
|---|---|---|---|
| `rotation` | 2 deployments, 3 attempts, threshold 2, cooldown 1 to 3 | 362,647 | `TrialSlotHeld`: trial slots are never lost; `FlappingKeepsBackoff`: the backoff shrinks only when the breaker closes; `NeverOutForGood` |
| `customer_credentials` | limits: 2 generations, 3 attempts; credentials: 1 connection, 3 operations, 2 validators; edge: 2 events, 2 deployments; feed: 2 requests of 2 and 1 attempts, settle window 1, clock to 4 | 327,762 | `TrialSlotHeld`, `NeverLockedOut`: as above for customers; `AnswersAreTrue`: an operation is answered with what it did, also on its replay; `VerdictsAreEarned`: a verdict is about a secret that was really sent, by the validator that holds the claim; `EdgeAnswersWhole`: frames and batches are whole or visibly not, and the feed's reader misses no attempt committed within the settle window |
| `emitter_stream` | 3 attempts, 6 events, a sink that breaks anywhere; 2 tool calls of 2 fragments on three wires; races of 3 exchanges | 544,452 | `DeliveredIsCommitted`, `ImplementsCustomerStream`: the refinement; `AnswerIsWhole`: fragments stay with their call and a completed call has all of them; `UsageIsTheProviders`; `BlameIsRight`: who is at fault for a refusal; `SentAsAsked`: nothing asked is lost or reordered on a wire; `RaceIsDecided` |
| `executor_one_request` | 1 streamed request, up to 2 routes, 1 retry | 1,144,792 | `PermitsFollowRequests`; `RoutesAsSigned`: order, number and announcement of attempts; `ReportAgrees`: the report agrees with what ran and what was told; `NeverMovesAfterDelivery` |
| `executor_answers` | streams, decisions, embeddings, all failure classes, hedges | 152,400 | `AttemptsAreCosted`, `DecisionsSentOnce` |
| `executor_shared` | 2 requests on one deployment and one credential | 40,372 | `EventuallyQuiet`: every request ends and every lane opens again |
| `keypool_walks` | 2 keys, 2 requests (one pinned), a ceiling, rotation of one key | 4,541,670 | `ToldTheLastAnswer`, `OlderEvidenceNeverWins` |
| `keypool_generations` | 1 key, 2 requests, 2 generations, endless reloads, resets shorter than lease and write | 223,994 | `OneRecoveryAtATime`, `WalksAndKeysReturn` |
| `settlement` | 2 grants, 2 tasks, 1 fault; feed of 3 rows, pages of 2 | 187,092 | `LedgerRefinement`: implements `GrantLedger`; `SettlementsArrive`; `FeedSkipsNothing` |
| `public_api` | 2 generations of keys and small snapshots, grants of 2 steps; every endpoint; 2 credentials | 165,225 | `PlanIsKept`: no route outside the grant, and what runs is the plan; `CatalogueIsHonest`: a line promises what all its deployments report, and a caller is listed models declared for it and served, at a price no deployment exceeds; `AnswerIsTruthful`: the wire ends as the execution did; `GateHolds`; `HeldIsSettled` |
| `realtime` | 2 connections, 2 held events, both dialects, 2 commands, 2 items, 2 tasks | 141,092 | `ResumesExactly`: no event lost or repeated, no command applied twice; `FollowsProvider`: configuration and turns; `SettlesWhatWasReported`; `EachPhraseOnce`; `StaysWithOwner`; `SessionSettles` |
| `realtime_relays` | as `realtime` | violation | `RelaysWhatWasAsked` (section 5) |

Several properties are conjunctions of named parts (`RoutesAsSigned`,
`ReportAgrees`, `WalksAndKeysReturn`, `PlanIsKept`, `GateHolds`, `ResumesExactly`,
`FollowsProvider`, `StaysWithOwner`); the parts are stated and commented next to
them.

Why the bounds are enough. Three attempts are the fewest with a trial, a late
report of an older admission and a newcomer. A threshold of 2 and a cooldown that
doubles once and is capped tell counting and escalation apart. Two routes and one
retry per route reach every order of retry and switch. Two keys and two requests
reach every pair of verdicts on a shared key. A configured retirement only has to be
positive and a declared reset is taken as it comes: `keypool_walks` takes the
shortest retirement that outlasts a lease and a write, `keypool_generations`
declares resets that are over when a slow write of them lands. The shipped values
(15 minutes, 1 minute, 5 seconds) leave more room. `keypool_generations` uses
exhausted quota headers as its only verdict and no rotations: an operator who
rotates and a reloader that reloads within every retirement can keep a key out for
as long as they go on.

Two tasks and two grants with a batch of two are the fewest in which the lease of
a second row runs out while its task still posts the first; one lost answer or
crash (`MaxFaults`) can fall on any write, post or mark. Three feed rows with pages
of two have a row that commits late on either side of a page's end. Two requests of
two and one attempts, read over four ticks with a settle window of one, have writes
that commit in the order of their starts and in the other, in time and too late,
with a cursor between their rows and inside a request's. Two grant steps
and two revisions of a line show a plan that a reload contradicts. Requests of the
public API are one served and several refused forms of each endpoint, each differing
from a served one in a single defect. A replay buffer of two events and two
connections reach the cases kept, partly forgotten, taken over and attached twice.
Two commands and two answers in flight are the fewest in which a refusal overtakes a
confirmation. Three operations on one connection hold create, rotate and revoke with
a replay of an earlier one after a later one, and two validators show a late
completion after a second claim.

Deadlock is checked in the rotation, customer credential and key pool runs;
elsewhere a request, a session or a bounded clock that is done has nothing left to
do.

## 4. Fairness

- `Rotation`, `CustomerLimit`: `WF(Tick)`, and weak fairness of each attempt's
  report. The executor reports on every way out of an attempt; that it does is
  itself checked (`PermitsFollowRequests`).
- `Executor`: `WF(Clock)` and weak fairness of each request's next step. Every
  request has its own goroutine, adapters give up on a stalled upstream
  (`internal/provider/stall.go` and the client's timeouts), database and
  credential calls carry the request's deadline. Nothing is assumed of clients,
  sinks, reloads or of what an upstream answers.
- `KeyPool`: `WF(Tick)` and weak fairness of each walk's next step; the write of
  an attempt is bounded by `credentialAttemptRecordTimeout`. Reloads are not
  assumed to happen.
- `Settlement`: `WF(Tick)`; strong fairness that some task claims what is due
  (every task's `Run` has a ticker), that a post is acknowledged if it is made
  again and again, and that a mark is stored if it is tried again and again; weak
  fairness of a deferral's answer and of a drained task's exit. Nothing is assumed
  of crashes, and none of a single post or write.
- `PublicApi`: weak fairness of the handler's next step; the executor ends by
  `EventuallyQuiet`. Nothing is assumed of the client.
- `RealtimeSession`: weak fairness of the opening's return (it has a deadline) and
  of the timer of the session's signed maximum duration. Nothing is assumed of
  clients or of the provider.

## 5. What the code does that its text does not say

Checked against the text (`realtime_relays`): `openairealtime/session.go:76` says
that `expected` holds what each `response.create` asked for "until the provider
creates that response". A `response.create` the provider *refuses* is never taken
out (`errorEvent` removes only updates), so the next response created, one the
server's voice detection caused for instance, is relayed with the modalities the
refused one asked for: text only where audio was due, or the reverse.

Behaviour that is in the models, with no property against it:

- *One trial.* `rotation.go:23` and `customerlimit.go:64` promise exactly one
  trial. A failure of a request admitted before the breaker opened re-opens it
  under a running trial (`rotation.go:202`), and any permit's report frees the
  customer's trial slot (`customerlimit.go:123`); the next expiry admits a
  second trial. `TrialSlotHeld` is what survives.
- *Units of a failed attempt.* `executor.go:899` says they are absent; an
  attempt that measured its input and failed before output is reported with them.
- *One recovery lease.* `docs/key-pools.md:326` grants one recovery lease across
  all replicas and `docs/operating.md:320` says exactly one task may hold it, with no
  condition. The lease lives in the key's row, and recording a verdict drops it
  (migration `0011`, 108-112) in favour of the verdict's own retirement. A
  retirement only has to be positive (`cmd/kaana/main.go:858`, migration `0014`) and
  a declared reset is taken as given (`credential.go:793`, `845`), so a retirement
  shorter than what is left of the lease lets a second task claim while the first
  still recovers. `OneRecoveryAtATime` is what holds for every setting,
  `RecoveryIsStrictlyExclusive` what holds when no retirement is that short.
- *Rotation of a key.* `docs/key-pools.md:330` says that rotating clears the old
  generation's state. The row is deleted, but a refusal of the old secret that is
  recorded afterwards creates it again and takes the new secret out for one
  retirement.
- *One deliverer.* `settle.go:187` says the lease keeps each row with one
  deliverer. A batch of twenty is leased for one minute and posted one by one for
  up to ten seconds each, so a second task may post the last ones too; Oxy settles
  a grant once, and `LedgerRefinement` holds.
- *Retryable decisions failures.* `docs/decisions.md:165` says that a decisions
  failure after an attempt is never retryable; the public projection
  (`text.go:786`, `errors.go:70`) keeps the failure's own flag.
- *Grants over two revisions.* `routes.go:41` says a step without a route is
  passed over; a first step that resolves a line to one revision and a later step
  that serves another refuse the whole plan (`routes.go:148`).
- *Refused commands.* A realtime command refused as unsupported stays among the
  commands seen (`realtime/session.go:352`), and its resend is acknowledged as a
  duplicate although it was never applied.
- *Sessions ended by a drain or a lost lease* settle as `upstream_error`.
- *Spoken chat in the public API*: `text.go:398` asks for text with an audio
  output, which `contract/request.go:432` refuses for every request.
- *Hedged exchanges*: after a refusal every upstream would repeat, a transient
  failure of another exchange still starts a further one (`hedge.go:212`).
- *Anthropic usage*: an unreadable `message_start` followed by a readable
  `message_delta` reports an input of zero as the provider's
  (`anthropic/stream.go:94`).

Seen while reading and decided by no property: a provider that never answers keeps
its permit, and so does a panicking adapter (`executor.go:596`); the retry hint of
`everyRouteOutOfRotation` also counts routes that were skipped for other reasons
(`executor.go:1176`); a pool in memory does not compare observation times
(`credential.go:1175`); a retirement between a reload's query and its installation
is lost if its write failed (`cmd/kaana/main.go:478`); an older catalogue answer may replace a newer one for as long as the TTL; the reporter drops
verdicts when its queue is full and may leave Oxy on the older of two verdicts of
inference attempts; a cancelled validation request loses a paid probe until its
lease ends; a signed message can be repeated within the five minutes of clock skew,
which is harmless only because operations are idempotent.

The attempt feed can pass a row for ever: one whose transaction ended more than the
settle window of fifteen seconds after its start (migration
`0018_provider_telemetry_feed.sql:63`). `EdgeAnswersWhole` states exactly what is left:
every row committed in time is read or still to come. The database is not told to keep
writes within the window. What does is that their callers give up after five seconds
(`executor.go:243`, `session.go:298`) or ten (`publicapi/settle.go:151`), which cancels
the statement unless the connection, or the task, is lost first.

## 6. Proofs

Eight modules, checked by TLAPS with Z3, Zenon and LS4. Every theorem is about the
component's own specification, for every value of the constants its assumptions
admit; the bounds TLC needs (`MaxGeneration`, `MaxEvents`, `MaxAttempts` and the
like) stay in the guards, and the theorems hold for every value of them too.

**RotationProofs**, from `PolicyAssumption` (thresholds and cooldowns positive,
cap not below the cooldown), for any deployments and any number of attempts. The
inductive invariant is `RotationInv == TypeOK /\ BackoffMatchesState /\
TrialSlotHeld`: that a half-open breaker's wait is over is needed to show that
`Admit` takes the slot only together with a permit. Theorems:
`RotationTypeCorrect`, `TrialSlotNeverLost`, `BackoffConsistent` and the action
property `BackoffNeverShrinks`, which needs that only a closed breaker has no
cooldown.

**EmitterProofs**, from `EmitterAssumption`, for any number of attempts and
events and any sink. `EmitterInv` has the record's type, the shape of the
delivered stream (`WellFormed`), that the held events belong to the current
attempt (`HeldIsCurrent`) and that each flag agrees with the stream
(`FlagsMatchStream`); the flags are what the methods test, so without the last
part no method could be shown to keep the order. Theorems: `EmitterTypeCorrect`,
`DeliveredCommitted`, and `StreamImplemented`: the emitter implements
`CustomerStream`.

The same module has the two components that stand beside the emitter. *Races*,
from `HedgeAssumption` (a positive limit, pinned upstreams without repetition),
for any scores, any number of exchanges and races: `HedgeInv` says that scores
have their type, that the exchanges of a race go round a plan which permutes the
pinned upstreams (`GoesRound`), and that a running race has an exchange in flight
and no success, a failed one neither, a won one as many abandoned as were in
flight (`Stands`). That `order` permutes is shown by rank: the upstreams ahead of
one are strictly more than those ahead of any upstream it follows, so ranks are
distinct and fill `1..Len(Pinned)`. Theorem: `RaceDecides`. *Streams*, from
`StreamAssumption` (bounds and counts are numbers), for every wire, request, frame
and order of frames, any number of calls and fragments, readable or not.
`UsageInv` says that the usage meter holds what the counts said so far make of it,
or falls behind only where a frame was lost (`Measures`, `KeepsUp`, and `Tallies`
when it is over); theorem `UsageIsBilled`. `AnswerInv` says that what the provider
sent is itself in order (`Sane`), that what was passed on is a list of its pieces
in its order (`Orderly`), that a reader names only calls that were opened and that
it has not ended (`Knows`), and, with no frame lost, that it has passed on every
piece, ended every call that is closed and holds the open ones (`Passed`), so that
nothing is missing at the end (`Entire`); theorem `AnswersArriveWhole`. Without
`Knows` a completion could be told of a call twice, or of none.

**ExecutorProofs**, from `ExecutorAssumption` (routes are lists over the
deployments and scopes, formats and measures are the known ones) and
`RetryPolicyAssumption`, for any number of concurrent requests, lists of any
length and every answer of upstreams, sinks and clients. The emitter's methods are
first described by lemmas (`Wrote`, `Committed`, `Told`, `Answered`, `Completed`,
`Errored`: what each leaves alone and what it adds to the stream), then every
action is shown to have one of ten effects on the request that takes it: it
advances to a route, fails, gives up, passes a route over, announces a switch,
sends, streams, comes back, tries again or ends. The inductive invariant is
`ExecutorInv == StateOK /\ \A r \in Requests : RequestOK(r)`, whose parts say what
the properties need at every program point: the request is within its policy
(`WithinPolicy`), its flags agree with its stream (`StreamOK`), nothing starts
after a delivery (`MovesOK`), settlement, cost rows, walk, switches and report are
those of the attempts made (`SettlesOK`, `RowsOK`, `WalkOK`, `SwitchesOK`,
`ReportOK`). Each part is kept by each effect. `PermitsInv` is separate: a request
on a route holds exactly one permit, of that route, and none elsewhere; the
property speaks of the set of deployments held, which two permits of one
deployment would satisfy, so it is not inductive. Theorems:
`RequestsAreWellFormed`, `SignedRoutesAreWalked`, `EveryAttemptIsCosted`,
`DecisionsAreNotRepeated`, `ReportsAgree`, `PermitsAreGivenBack` and the action
property `NoSecondAnswer`.

**KeyPoolProofs**, from `KeyAssumption` (types) and `WindowAssumption` (a retirement
and a lease are positive, as `newKeyPool` and the code's constants make them).
`PoolInv == TypeOK /\ WalksOK /\ LeasesBacked /\ OneRecoveryAtATime`: `WalksOK` says
what a walk holds at each of its steps, `LeasesBacked` that a lease a walk still holds
is kept from the others by the key's row, retired or leased for at least as long,
unless the key is usable again or a shorter retirement replaced the lease.
`RecoveryIsExclusive` therefore needs no assumption on the windows;
`RecoveryIsStrictlyExclusive` adds the hypothesis `LongWindows` (retirement and resets
outlast a lease and a write), under which no lease is ever overtaken. Theorems: `PoolsAreWellFormed`, `RecoveryIsExclusive`,
`LastAnswerIsTold` and the action property `LateEvidenceLoses`.

**SettlementProofs**. The feed, from `FeedAssumption` (a transaction is cut off
before the reader's horizon reaches it): `FeedInv == FeedTypeOK /\ PositionsOK /\
NonePassed /\ FeedSkipsNothing`, where `PositionsOK` says that positions are
distinct and a lower one is older, and `NonePassed` that an open row is younger
than the write timeout and above the cursor. Theorem: `FeedIsComplete`. The outbox,
from `SettlementAssumption`, for any finite set of grants and any tasks:
`SettleInv == Shapes /\ GrantOK /\ WorkerOK` says that a request told its settlement
is written has a durable row and that Oxy settles from a durable row only, before
it is marked delivered (`GrantOK`); that a deliverer's batch holds durable rows, and
that an acknowledgement it has not recorded yet is about a grant Oxy has settled
(`WorkerOK`). Every action is shown to be a step of `GrantLedger` or to leave the
ledger alone. Theorem: `OutboxImplementsLedger`. (The wait before a retry is a
power of two, which the provers do not compute; `SettleInv` needs only that a row
is deferred, so the exact wait is left to TLC.)

**CustomerCredentialsProofs**, from `CredentialAssumption` (messages name known
operations, connections and validations; the probe's outcomes are the ones the
runner tells apart), for any messages in any order and number, validators, leases
and restarts. `CredentialInv == MutationInv /\ ValidationInv`. The first says that
a row holds a secret written for the generation it is bound to, that what was
written is never past its row's present generation (so no generation is written
twice), and that every answer given is what the operation would be answered now.
The second says that a validator at work holds a claim on a validation that runs
under it or was claimed again since, that no two hold the same claim, and that what
was told is what is stored: this is what makes the second branch of
`CompleteCustomerValidation` unable to tell a verdict. Theorems:
`CredentialsAreKept`, `OperationsAnswerTruly`, `VerdictsHoldGood`. The signed
surfaces, with no assumption on their messages, and the feed, from `FeedAssumption`
(requests are ordered and make finitely many attempts; the settle window may be any
length): `EdgeInv` says that an open stream has written its events in order, all of
them unless a write failed, and that a cursor which was given out is older than the
settle window (`CursorSettled`). A write under way that will still commit in time
therefore stands after every cursor, and a page, being a finite set whose first rows
are taken, leaves behind only rows that follow its last. No bound on how long a write
takes is assumed. Theorem: `AnswersAreWhole`. The limits, from
`CooldownAssumption`: `LimitInv == TypeOK /\ AbsentIsEmpty /\ TrialSlotHeld`, where
`AbsentIsEmpty` (no data where the map has no key) is what makes the sweep harmless.
Theorems: `LimitTypeCorrect`, `LimitSlotNeverLost`.

**PublicApiProofs**. A request, from `ApiAssumption` (endpoints, Oxy's answers and
failures are the contract's), for every request, header, plan, buffer size and
moment at which the client leaves: the frames are typed and in order, none after a
final one and none under another status than OK (`FramesInOrder`); nothing of an
earlier request is left before execution (`Unstarted`); while the executor runs,
what the mode has written agrees with what was emitted (`Streaming`, `Running`);
the executor's result agrees with it (`Returned`); and an answered request told what
happened (`Told`). `ApiInv` is their conjunction; the property alone says nothing
about a request under way, so everything but the last part is the strengthening.
Theorem: `ClientKnows`. The gate, from `RateAssumption` (an idle bucket is full when
it is forgotten) and `AccessAssumption` (times are numbers): `GateInv` compares
every bucket with one that is never forgotten (`NoSecondBurst`), bounds each cached
access by its age and by Oxy's own expiry (`CacheIsBounded`) and keeps questions in
flight in the past (`AskedInTime`). Theorem: `GateIsKept`. The plan, from
`StoreAssumption` (decoded files and grants hold lists), for every inventory, grant,
credential generation and order of reloads: a step's candidates can be told apart by
their keys (`Comparable`), so sorting them drops none and repeats none
(`InOrderListsAll`, by rank as for the races); each is a row of a line the step
admits, and none is a deployment of an earlier step (`IsCandidate`). Each turn of
`take` keeps `PlanSoFar`: every route within its step, no deployment twice, no line
at two revisions, one route of a line in a step without failover, steps in order.
`StoreInv` adds that a snapshot that is served was parsed, and that what is executed
is the planned list, which needs that planned references are pinned: an unpinned one
would resolve to whatever is current in the later snapshot. Theorem: `PlansAreKept`.

**RealtimeProofs**. Owners, from `LeaseAssumption` and `NobodyAssumption`:
`OwnersInv` has the types; that a process that has run the session without an entry
of its own has its renewal due or a whole new lease before it (`Orphaned`); that the
owner named by the directory or by a resume on its way claimed the session or has
been replaced since (`Claimed`); and that credentials stay with the owner. Theorem:
`SessionsStayPut`. A session, with no assumption: `SessionInv` says that what an
attached connection was last told is the newest event, that what was applied is
remembered, and that a session that is over has no connection. Theorem:
`ReconnectsExactly`. The upstream, from `CountsAssumption` (audio and tokens are
numbers): `UpstreamInv` says that the updates the adapter waits for are those on the
provider's queue, in their order (`Matches`), that the response it has open is the
provider's and the one the client was told of (`OneResponse`), that the
configuration is the provider's, or the signed one before the session is open, and
that what was settled is what was reported (`MetersHeard` for the dialect that
reports no tokens). Theorems: `ProviderIsFollowed`, `SettlementIsReported`.

Where a proof needs what a recursive *function* computes (`tellAll` passing on a
list, the scores after a race, the updates of a queue), it takes the least argument
at which the claim fails, which exists because the natural numbers are
well-founded, and refutes it by the equation of the function at that argument.

What the proofs changed in the model: `ClaimDecision` of `KeyPool` was a `CASE` with
overlapping arms, whose value is not determined (TLC takes the first); it is now
the `IF` chain of the code. Some definitions were restated, with the same values on
every instance that is checked: the order of upstreams and the scores of
`HedgedExchanges` by rank and by a recursive function instead of a sort and a fold,
`tellAll` of `ProviderStreams` as a recursive function over the events it passes on,
`AnswerIsWhole` with sets of indexes where it had filtered sequences, the replay of
held events in `RealtimeSession`, and in `Inventory` and `GrantPlan` route sets as
places in the file, the sort by rank and the two loops of `resolveGrant` as recursive
functions. Everything else was proved as it stood, with
the assumptions named above.

Only model-checked:

- Liveness (`NeverOutForGood`, `NeverLockedOut`, `EventuallyQuiet`,
  `WalksAndKeysReturn`, `SettlementsArrive`, `HeldIsSettled`, `SessionSettles`),
  which is beyond the prover.
- `BlameIsRight`, a table over the refusals a provider can give: TLC evaluates every
  row of it, and a proof would do the same.
- `SentAsAsked` and `EachPhraseOnce`, stated with filters, flattened sequences and
  folds, whose definitions the prover cannot expand.
- `CatalogueIsHonest`: what it says about any snapshot is a fact about the sorts,
  filters and folds of `Inventory` and `PublicCatalogue`.

## 7. Not modelled

- `internal/publisher`, a batch command whose product is the file `Inventory`
  parses; `internal/providercost`, single inserts; `internal/platformactivity`, a
  read-only projection.
- Speech, transcription and decisions adapters and the live transcription socket
  of `xaistt`: one exchange with field mapping, whose failures reach the executor
  model as answers. The provider conformance suite is test code.
- Administration of the platform's credentials, KMS and SSM calls, SigV4, audio
  containers, configuration and flags, the TypeScript packages.
- Customer (BYOK) pools, which hold one key for one request; pools without a
  durable runtime; health probes, which only read.
- The texts of errors, receipts, timing lines and logs; token estimates; the
  health score.
- A panic in an adapter: net/http ends the goroutine and the permit is not
  reported.

## 8. Plan

1. *Done:* all modules of section 2, their runs, and the proofs of section 6.
2. Proofs next: the aggregation behind `CatalogueIsHonest`, once its folds are
   recursive functions as the loops of `resolveGrant` are.
3. Lemmas on operators: that a funding ceiling never admits a key that either
   statement puts above it (`Funding`).
4. Candidates for further modules: the publisher's guard against shrinking
   snapshots, `xaistt`'s live session, the SDK's stream reader.

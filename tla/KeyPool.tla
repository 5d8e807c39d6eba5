------------------------------ MODULE KeyPool ------------------------------
(***************************************************************************)
(* internal/provider/credential.go: one provider's pool of platform keys,  *)
(* the walk each request makes through it, and the durable runtime state   *)
(* the serving replicas share (migration 0011).                            *)
(*                                                                         *)
(* A pool is an object: a replica's registry points to its current one,    *)
(* the reloader builds a new one from the database rows and installs it,   *)
(* and a walk stays on the pool it began with.  A walk interleaves with    *)
(* everything else wherever it waits: for the provider's answer and for    *)
(* the database.                                                           *)
(*                                                                         *)
(* Time is kept relative: "left" is what is left of a window and "age" the *)
(* time since an observation, counted as far as it is ever compared.       *)
(***************************************************************************)
EXTENDS Integers, FiniteSets, Funding

CONSTANTS
  Keys,            \* the keys of the pool, by declared position
  FundingOf,       \* the stated funding of each key
  Replicas,        \* serving processes
  Pools,           \* pool objects: one per replica and those still referred to
  Walks,           \* requests in flight, on any replica
  Pins,            \* the exact bindings of the deployments each request may be for; 0 is none
  Ceilings,        \* funding ceilings a signed route may carry
  Failures,        \* classified refusals: [code, throttled]
  Headers,         \* quota headers: NoHeader, 0 is zero credits, n > 0 adds a reset time
  OnSeparateAccounts,
  Retirement,      \* KeyPolicy.Retirement, in ticks
  LeaseTime,       \* the recovery lease, in ticks
  RecordTimeout,   \* credentialAttemptRecordTimeout, in ticks
  Rotatable        \* the keys whose ciphertext an operator may rotate

NoHeader == -1
NoPool   == "no pool"

ASSUME KeyAssumption ==
  /\ Keys \subseteq Nat \ {0}
  /\ FundingOf \in [Keys -> Fundings]
  /\ Pins \in [Walks -> SUBSET (Keys \cup {0})]
  /\ Ceilings \subseteq Tiers \cup {"none"}
  /\ Headers \subseteq {NoHeader} \cup Nat
  /\ \A f \in Failures : f.throttled \in BOOLEAN
  /\ OnSeparateAccounts \in BOOLEAN
  /\ Rotatable \subseteq Keys
  /\ NoPool \notin Pools

\* newKeyPool replaces a retirement that is not positive, and nothing bounds
\* one, or a declared reset, from below.
ASSUME WindowAssumption ==
  Retirement \in Nat \ {0} /\ LeaseTime \in Nat \ {0} /\ RecordTimeout \in Nat

VARIABLES
  pools,     \* what each pool object says of each key
  current,   \* the pool of each replica's registry generation
  loading,   \* the pool each replica's reloader has built and not installed
  runtime,   \* provider_credential_runtime_state, by key
  walks      \* KeyAttempt and WalkAttempts' local state, by walk

vars == <<pools, current, loading, runtime, walks>>

-----------------------------------------------------------------------------
Reasons  == {"none", "rejected", "exhausted"}
Verdicts == {"healthy", "exhausted", "rejected", "request_fault"}
Retired  == {"rejected", "exhausted"}

\* The windows a retirement can have.
Window(header) == IF header > 0 THEN header ELSE Retirement
Windows == {Retirement, LeaseTime} \cup {Window(h) : h \in Headers}
Lefts   == {n \in Nat : \E w \in Windows : n <= w}

\* "old" marks a secret whose ciphertext was rotated since it was loaded.
PooledKey == [reason : Reasons, left : Lefts, old : BOOLEAN]

\* A usable row has no times.
Row == [state : {"absent", "usable"} \cup Retired, retired : Lefts, lease : Lefts,
        age : 0..(RecordTimeout + 1)]

NoRow == [state |-> "absent", retired |-> 0, lease |-> 0, age |-> RecordTimeout + 1]

\* What one exchange said.
Answer == [kind : {"none", "transport", "accepted"} \cup Verdicts, throttled : BOOLEAN]
NoAnswer == [kind |-> "none", throttled |-> FALSE]

Walk ==
  [pc        : {"done", "next", "claim", "recover", "sent", "record", "mark"},
   pool      : Pools \cup {NoPool},
   view      : SUBSET Keys,           \* the keys its pin and ceiling leave
   tried     : SUBSET Keys,
   transient : SUBSET Keys,           \* CredentialAttemptSequence.transient
   rotated   : BOOLEAN,               \* throttleRotations > 0
   key       : Keys \cup {0},         \* the key in use
   old       : BOOLEAN,               \* its key's secret was rotated since
   lease     : Lefts,                 \* what is left of the lease it claimed
   overtaken : BOOLEAN,               \* ghost: a shorter retirement replaced the lease
   answer    : Answer,
   header    : {NoHeader} \cup Nat,
   age       : 0..RecordTimeout,      \* time since observedAt
   refused   : Keys \cup {0},         \* refusedKey
   sent      : Keys \cup {0}]         \* ghost: the key of its last exchange

Fresh == [reason |-> "none", left |-> 0, old |-> FALSE]

Idle ==
  [pc |-> "done", pool |-> NoPool, view |-> {}, tried |-> {}, transient |-> {},
   rotated |-> FALSE, key |-> 0, old |-> FALSE, lease |-> 0, overtaken |-> FALSE,
   answer |-> NoAnswer, header |-> NoHeader, age |-> 0, refused |-> 0, sent |-> 0]

-----------------------------------------------------------------------------
\* CredentialVerdictFor, by the code the adapter chose; "unclassified" is any
\* failure no adapter classified.
CredentialVerdictFor(code) ==
  CASE code = "provider_credential_invalid" -> "rejected"
    [] code = "provider_billing_refused"    -> "exhausted"
    [] code \in {"byok_credential_invalid", "quota_exceeded", "insufficient_balance",
                 "spending_limit_exceeded", "invalid_request", "model_not_found",
                 "unsupported_modality", "context_length_exceeded", "request_too_large",
                 "output_limit_exceeded", "upstream_content_filtered", "permission_denied",
                 "authentication_failed"}   -> "request_fault"
    [] OTHER                                -> "healthy"

\* KeyPool.Retire, markUsable and recover.
Retire(e, reason, window) == [e EXCEPT !.reason = reason, !.left = window]
MarkUsable(e) == [e EXCEPT !.reason = "none", !.left = 0]

\* What newKeyPool makes of a database row.
LoadedAfresh(row) ==
  [reason |-> IF row.state \in Retired THEN row.state ELSE "none",
   left   |-> IF row.state \in Retired THEN Retirement ELSE 0,
   old    |-> FALSE]
Loaded(row) ==
  [reason |-> IF row.state \in Retired THEN row.state ELSE "none",
   left   |-> IF row.lease > row.retired THEN row.lease ELSE row.retired,
   old    |-> FALSE]

\* What observe and the verdict of the answer leave of the key.
Observed(e, answer, header) ==
  LET f == IF header = NoHeader THEN e ELSE Retire(e, "exhausted", Window(header))
  IN  IF answer.kind \in Retired THEN Retire(f, answer.kind, Retirement) ELSE f

\* The cheapest stated funding first, then the declared position.
Before(j, k) ==
  \/ Rank(FundingOf[j]) < Rank(FundingOf[k])
  \/ Rank(FundingOf[j]) = Rank(FundingOf[k]) /\ j <= k

\* KeyAttempt.next: first the keys this request has not seen fail transiently.
Leasable(x) == {k \in x.view \ x.tried : pools[x.pool][k].left = 0}
Candidates(x) ==
  IF Leasable(x) \ x.transient # {} THEN Leasable(x) \ x.transient ELSE Leasable(x)
Next1(x) == CHOOSE k \in Candidates(x) : \A j \in Candidates(x) : Before(k, j)

\* Bind and WithinFunding.
View(pin, ceiling) == {k \in Keys : pin \in {0, k} /\ Admits(ceiling, FundingOf[k])}

\* kaana_claim_provider_credential_recovery.
ClaimDecisionUnleased(row) ==
  IF row.state \notin Retired THEN "usable"
  ELSE IF row.retired = 0 THEN "claimed" ELSE "busy"
ClaimDecision(row) ==
  IF row.state \notin Retired THEN "usable"
  ELSE IF row.retired = 0 /\ row.lease = 0 THEN "claimed" ELSE "busy"

\* What recordCredentialAttempt writes.
RecordedAs(x) ==
  IF x.answer.kind \in Retired THEN x.answer.kind
  ELSE IF x.header # NoHeader THEN "exhausted" ELSE x.answer.kind
RetiredUntil(x) == IF x.answer.kind \in Retired THEN Retirement ELSE Window(x.header)
LeftOf(window, age) == IF age < window THEN window - age ELSE 0

\* kaana_record_provider_credential_attempt: only a verdict about the key
\* touches the row, and never one older than the row's own.
NotOlderAlways(row, x) == TRUE
NotOlder(row, x) == x.age <= row.age
Recorded(row, x) ==
  LET out == RecordedAs(x)
  IN  IF ~NotOlder(row, x) \/ out \notin Retired \cup {"accepted"} THEN row
      ELSE IF out = "accepted"
      THEN [state |-> "usable", retired |-> 0, lease |-> 0, age |-> x.age]
      ELSE [state |-> out, retired |-> LeftOf(RetiredUntil(x), x.age), lease |-> 0, age |-> x.age]

\* The write drops a recovery lease another request holds, and retires its key
\* for less than was left of it.
Overtakes(row, v) == row.state \in Retired /\ row.retired < v.lease

-----------------------------------------------------------------------------
Init ==
  /\ current \in {f \in [Replicas -> Pools] : \A r, s \in Replicas : f[r] = f[s] => r = s}
  /\ pools = [p \in Pools |-> [k \in Keys |-> Fresh]]
  /\ loading = [r \in Replicas |-> NoPool]
  /\ runtime = [k \in Keys |-> NoRow]
  /\ walks = [w \in Walks |-> Idle]

\* A pool nothing refers to is garbage.
Held(p, cur, ld, ws) ==
  \/ \E r \in Replicas : p \in {cur[r], ld[r]}
  \/ \E w \in Walks : ws[w].pool = p
SetPools(ps) ==
  pools' = [p \in Pools |-> IF Held(p, current', loading', walks')
                            THEN ps[p] ELSE [k \in Keys |-> Fresh]]

SetWalk(w, x) == walks' = [walks EXCEPT ![w] = x]

\* The walk returns a failure: the request may be walked again.
Failed(x) == [Idle EXCEPT !.transient = x.transient]

\* ResolveExecution, WithinFunding and Begin, for a new request or for a retry
\* of one that failed.
Begin(w, r, pin, ceiling, retry) ==
  /\ walks[w].pc = "done"
  /\ View(pin, ceiling) # {}
  /\ SetWalk(w, [Idle EXCEPT !.pc = "next", !.pool = current[r], !.view = View(pin, ceiling),
                             !.transient = IF retry THEN walks[w].transient ELSE {}])
  /\ UNCHANGED <<pools, current, loading, runtime>>

\* No key is left: the walk answers the last refusal, or, when no provider saw
\* the request, that nothing is usable.
NoneLeft(w) ==
  /\ walks[w].pc = "next"
  /\ Leasable(walks[w]) = {}
  /\ SetWalk(w, Failed(walks[w]))
  /\ UNCHANGED <<current, loading, runtime>>
  /\ SetPools(pools)

\* KeyAttempt.next leases a key.  One whose retirement is over needs the
\* replicas' recovery lease before the exchange with it begins.
Sent(x) == [x EXCEPT !.pc = "sent", !.sent = x.key]
Leased(x, k) ==
  LET y == [x EXCEPT !.tried = @ \cup {k}, !.key = k, !.old = pools[x.pool][k].old]
  IN  IF pools[x.pool][k].reason = "none" THEN Sent(y) ELSE [y EXCEPT !.pc = "claim"]

Lease(w) ==
  /\ walks[w].pc = "next"
  /\ Leasable(walks[w]) # {}
  /\ SetWalk(w, Leased(walks[w], Next1(walks[w])))
  /\ UNCHANGED <<pools, current, loading, runtime>>

\* ClaimCredentialRecovery and what the walk does with the decision.
Claim(w) ==
  LET x == walks[w]
      decision == ClaimDecision(runtime[x.key])
  IN  /\ x.pc = "claim"
      /\ \/ /\ decision = "claimed"
            /\ runtime' = [runtime EXCEPT ![x.key].lease = LeaseTime]
            /\ SetWalk(w, [Sent(x) EXCEPT !.lease = LeaseTime])
         \/ /\ decision = "busy"
            /\ SetWalk(w, [x EXCEPT !.pc = "next"])
            /\ UNCHANGED runtime
         \/ /\ decision = "usable"
            /\ SetWalk(w, [x EXCEPT !.pc = "recover"])
            /\ UNCHANGED runtime
      /\ UNCHANGED <<pools, current, loading>>

\* The claim itself fails, and the walk with it.
ClaimFails(w) ==
  /\ walks[w].pc = "claim"
  /\ SetWalk(w, Failed(walks[w]))
  /\ UNCHANGED <<current, loading, runtime>>
  /\ SetPools(pools)

\* The database said usable: KeyPool.recover, then the exchange.
Recover(w) ==
  LET x == walks[w]
  IN  /\ x.pc = "recover"
      /\ pools' = [pools EXCEPT ![x.pool][x.key] = MarkUsable(@)]
      /\ SetWalk(w, Sent(x))
      /\ UNCHANGED <<current, loading, runtime>>

\* The exchange ends; the pool learns of it at once.
Answered(w, answer, header) ==
  LET x == walks[w]
  IN  /\ x.pc = "sent"
      /\ pools' = [pools EXCEPT ![x.pool][x.key] = Observed(@, answer, header)]
      /\ SetWalk(w, [x EXCEPT !.pc = "record", !.answer = answer, !.header = header, !.age = 0])
      /\ UNCHANGED <<current, loading, runtime>>

TransportFails(w)    == Answered(w, [kind |-> "transport", throttled |-> FALSE], NoHeader)
Accepts(w, header)   == Answered(w, [kind |-> "accepted", throttled |-> FALSE], header)
Refuses(w, f, header) ==
  Answered(w, [kind |-> CredentialVerdictFor(f.code), throttled |-> f.throttled], header)

\* The walk moves on to the next key, and keeps the refusal.
MovedKeepsFirst(x) == [x EXCEPT !.pc = "next", !.refused = IF @ = 0 THEN x.key ELSE @]
Moved(x) == [x EXCEPT !.pc = "next", !.refused = x.key]

\* Where the walk goes once its attempt is recorded.
AfterRecord(x) ==
  LET y == [x EXCEPT !.answer = NoAnswer, !.header = NoHeader, !.age = 0, !.lease = 0,
                     !.overtaken = FALSE]
      z == [y EXCEPT !.transient = @ \cup {x.key}]
  IN  CASE x.answer.kind = "accepted" ->
             IF x.header = NoHeader THEN [y EXCEPT !.pc = "mark", !.age = x.age]
                                    ELSE Idle
        [] x.answer.kind \in Retired -> Moved(y)
        [] x.answer.kind = "request_fault" -> Failed(y)
        [] x.answer.kind = "transport" -> Failed(z)
        [] x.answer.kind = "healthy" ->
             IF x.answer.throttled /\ OnSeparateAccounts /\ ~x.rotated
             THEN [Moved(z) EXCEPT !.rotated = TRUE]
             ELSE Failed(z)

\* recordCredentialAttempt: the write is applied, or fails and is only logged.
Record(w) ==
  LET x == walks[w]
  IN  /\ x.pc = "record"
      /\ runtime' \in {runtime, [runtime EXCEPT ![x.key] = Recorded(@, x)]}
      /\ walks' = [v \in Walks |->
           IF v = w THEN AfterRecord(x)
           ELSE IF walks[v].key = x.key /\ runtime' # runtime /\ Overtakes(runtime'[x.key], walks[v])
           THEN [walks[v] EXCEPT !.overtaken = TRUE]
           ELSE walks[v]]
      /\ UNCHANGED <<current, loading>>
      /\ SetPools(pools)

\* An accepted exchange marks the key usable, after the write.
Mark(w) ==
  LET x == walks[w]
  IN  /\ x.pc = "mark"
      /\ SetWalk(w, Idle)
      /\ UNCHANGED <<current, loading, runtime>>
      /\ SetPools([pools EXCEPT ![x.pool][x.key] = MarkUsable(@)])

\* reloadCredentialPools: Store.Load reads the rows and a new pool is built...
Load(r, p) ==
  /\ loading[r] = NoPool
  /\ ~Held(p, current, loading, walks)
  /\ loading' = [loading EXCEPT ![r] = p]
  /\ pools' = [pools EXCEPT ![p] = [k \in Keys |-> Loaded(runtime[k])]]
  /\ UNCHANGED <<current, runtime, walks>>

\* ... and ReplaceGeneration installs it, or the reload fails on the way.
Install(r) ==
  /\ loading[r] # NoPool
  /\ current' \in {current, [current EXCEPT ![r] = loading[r]]}
  /\ loading' = [loading EXCEPT ![r] = NoPool]
  /\ UNCHANGED <<runtime, walks>>
  /\ SetPools(pools)

\* An operator rotates the key's ciphertext: the trigger deletes its row.
Rotate(k) ==
  /\ runtime' = [runtime EXCEPT ![k] = NoRow]
  /\ walks' = [w \in Walks |-> [walks[w] EXCEPT !.old = @ \/ walks[w].key = k]]
  /\ UNCHANGED <<current, loading>>
  /\ SetPools([p \in Pools |-> [pools[p] EXCEPT ![k].old = TRUE]])

\* One tick of the clock.  A write that is still out by then is given up first;
\* a claim carries the time of its lease and is decided within the tick.
Less(n) == IF n > 0 THEN n - 1 ELSE 0
Writing(x) == x.pc \in {"record", "mark"}
Tick ==
  /\ \A w \in Walks :
       walks[w].pc # "claim" /\ (Writing(walks[w]) => walks[w].age < RecordTimeout)
  /\ pools' = [p \in Pools |-> [k \in Keys |-> [pools[p][k] EXCEPT !.left = Less(@)]]]
  /\ runtime' = [k \in Keys |->
       [runtime[k] EXCEPT !.retired = Less(@), !.lease = Less(@),
                          !.age = IF @ <= RecordTimeout THEN @ + 1 ELSE @]]
  /\ walks' = [w \in Walks |->
       [walks[w] EXCEPT !.lease = Less(@), !.overtaken = @ /\ walks[w].lease > 1,
                        !.age = IF Writing(walks[w]) THEN @ + 1 ELSE @]]
  /\ UNCHANGED <<current, loading>>

\* A step of the walk's own: it and its adapter call always get on.
Step(w) ==
  \/ NoneLeft(w) \/ Lease(w) \/ Claim(w) \/ ClaimFails(w) \/ Recover(w)
  \/ TransportFails(w)
  \/ \E h \in Headers : Accepts(w, h)
  \/ \E f \in Failures, h \in Headers : Refuses(w, f, h)
  \/ Record(w) \/ Mark(w)

Next ==
  \/ \E w \in Walks : Step(w)
  \/ \E w \in Walks : \E r \in Replicas, pin \in Pins[w], ceiling \in Ceilings, retry \in BOOLEAN :
       Begin(w, r, pin, ceiling, retry)
  \/ \E r \in Replicas, p \in Pools : Load(r, p)
  \/ \E r \in Replicas : Install(r)
  \/ \E k \in Rotatable : Rotate(k)
  \/ Tick

Spec == Init /\ [][Next]_vars

\* Time passes and no walk stands still: the adapters' calls time out, the
\* database calls are bounded by the request and by RecordTimeout.
Fairness ==
  /\ WF_vars(Tick)
  /\ \A w \in Walks : WF_vars(Step(w))

FairSpec == Spec /\ Fairness

-----------------------------------------------------------------------------
\* The pools, the rows and the walks are well formed.
TypeOK ==
  /\ pools \in [Pools -> [Keys -> PooledKey]]
  /\ current \in [Replicas -> Pools]
  /\ loading \in [Replicas -> Pools \cup {NoPool}]
  /\ runtime \in [Keys -> Row]
  /\ walks \in [Walks -> Walk]

\* However many replicas find a key's retirement over, and whatever is recorded
\* about the key or rotated meanwhile, two requests hold its recovery lease at
\* once only when a verdict recorded since one of them claimed it retired the key
\* for less than was left of that lease.
OneRecoveryAtATime ==
  \A v, w \in Walks :
    v # w /\ walks[v].lease > 0 /\ walks[w].lease > 0 /\ walks[v].key = walks[w].key =>
      walks[v].overtaken \/ walks[w].overtaken

\* One request at a time holds a key's recovery lease, across all replicas: what
\* docs/key-pools.md:326 says, and what holds where no retirement is shorter than
\* a lease and the write of a verdict.
OneLeaseAtATime ==
  \A v, w \in Walks :
    v # w /\ walks[v].lease > 0 /\ walks[w].lease > 0 => walks[v].key # walks[w].key

\* When a walk asks for another key, the refusal it would answer if none were
\* left is the one of its last exchange, and it has one exactly when a provider
\* has seen the request.
ToldTheLastAnswer ==
  \A w \in Walks :
    walks[w].pc \in {"next", "claim", "recover"} => walks[w].refused = walks[w].sent

\* A verdict written late never replaces a newer one: a row's verdict changes
\* only for evidence at least as new, or when its key is rotated.
OlderEvidenceNeverWins ==
  [][\A k \in Keys :
       \/ runtime'[k].age <= runtime[k].age
       \/ runtime'[k].state \in {runtime[k].state, "absent"}]_vars

\* Every walk ends, however many keys are busy, retired or rotated under it.
WalksEnd == \A w \in Walks : walks[w].pc # "done" ~> walks[w].pc = "done"

\* No key stays out of a replica's pool for good, whatever the replicas record
\* and load meanwhile.
KeysComeBack == \A r \in Replicas, k \in Keys : []<>(pools[current[r]][k].left = 0)

\* Nothing in a pool waits for ever: walks end (WalkAttempts marks a key as tried
\* before it claims it) and keys return (newKeyPool copies a retirement's end).
WalksAndKeysReturn == WalksEnd /\ KeysComeBack

=============================================================================

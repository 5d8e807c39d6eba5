----------------------------- MODULE PublicGate -----------------------------
(***************************************************************************)
(* What stands before the public API's answers: the token bucket of each   *)
(* credential (credential.go, limiter), the browser origins (server.go,    *)
(* cors), and the catalogue access Oxy grants a credential, cached by the  *)
(* authorizer (authorize.go, Catalogue) while concurrent requests ask for  *)
(* it.                                                                     *)
(*                                                                         *)
(* One tick refills Rate tokens.  The reference bucket of a credential is  *)
(* the one it would have if none were ever forgotten.                      *)
(***************************************************************************)
EXTENDS PublicCatalogue

CONSTANTS
    Credentials,
    Burst, Rate,      \* RateLimit
    BucketLimit,      \* credentialDigestCacheLimit
    Idle,             \* how long a bucket is unused before it may be forgotten
    CatalogueTTL,     \* catalogueCacheTTL
    Origins,          \* CORS origins configured: https or loopback
    Declared,         \* the declared file
    Served,           \* the inventory
    Accesses,         \* what Oxy may answer: an audience, levels and an expiry
    MaxAsking,        \* bound: catalogue requests in flight
    MaxClock          \* bound: the clock

(* A bucket idle for so long is full again. *)
ASSUME RateAssumption == Rate \in Nat /\ Idle \in Nat /\ Burst \in Nat /\ Rate * Idle >= Burst

ASSUME AccessAssumption ==
    CatalogueTTL \in Nat /\ None \notin Nat /\ \A a \in Accesses : a.expires \in Nat \cup {None}

VARIABLES
    clock,
    buckets,    \* limiter.buckets: tokens and when it was used
    reference,  \* the tokens left in a bucket that is never forgotten
    asking,     \* requests that missed the cache and asked Oxy, with when
    cached,     \* OxyAuthorizer.catalogue
    shown,      \* the last access a request answered with
    refused     \* the last answer was a refusal

gateVars == <<clock, buckets, reference, asking, cached, shown, refused>>

Least(a, b) == IF a < b THEN a ELSE b

(* An entry set in a map. *)
With(map, key, value) == [k \in DOMAIN map \cup {key} |-> IF k = key THEN value ELSE map[k]]

GateInit ==
    /\ clock = 0 /\ buckets = [c \in {} |-> None] /\ reference = [c \in Credentials |-> Burst]
    /\ asking = {} /\ cached = [c \in {} |-> None] /\ shown = None /\ refused = FALSE

(* allow's sweep when the map is full: idle buckets are forgotten. *)
forget(b, at) == [c \in {d \in DOMAIN b : at - b[d].at <= Idle} |-> b[c]]

known(b, c, at) ==
    IF c \in DOMAIN b THEN b
    ELSE With(IF Cardinality(DOMAIN b) >= BucketLimit THEN forget(b, at) ELSE b, c, [tokens |-> Burst, at |-> at])

(* limiter.allow. *)
refilled(b, c, at) == [known(b, c, at) EXCEPT ![c] = [tokens |-> Least(Burst, @.tokens + (at - @.at) * Rate), at |-> at]]

allow(c) ==
    LET b == refilled(buckets, c, clock)
    IN IF b[c].tokens >= 1
       THEN buckets' = [b EXCEPT ![c].tokens = @ - 1] /\ reference' = [reference EXCEPT ![c] = @ - 1]
       ELSE buckets' = b /\ reference' = reference

Allowed(c) == refilled(buckets, c, clock)[c].tokens >= 1

(* cors: a preflight of another origin is refused, its other requests get  *)
(* no header a browser would need.                                         *)
cors(origin, preflight) ==
    [status |-> IF ~preflight THEN "next" ELSE IF origin \in Origins THEN "no content" ELSE "forbidden", readable |-> origin \in Origins]

ValidAccess(a) == a # None /\ a.audience \in {"public", "platform_internal"}

(* A request reads the cache, or goes on to Oxy beside others. *)
Ask(c, origin, preflight) ==
    /\ Cardinality(asking) < MaxAsking /\ cors(origin, preflight).status = "next"
    /\ allow(c)
    /\ IF ~Allowed(c) THEN refused' = TRUE /\ UNCHANGED <<asking, shown>>
       ELSE /\ refused' = FALSE
            /\ IF c \in DOMAIN cached /\ clock < cached[c].expires
               THEN shown' = [access |-> cached[c].access, asked |-> cached[c].asked, at |-> clock, hit |-> TRUE] /\ UNCHANGED asking
               ELSE asking' = asking \cup {[by |-> c, at |-> clock]} /\ UNCHANGED shown
    /\ UNCHANGED <<clock, cached>>

(* Mutant: the expiry counts from Oxy's answer. *)
expiryFromAnswer(a, asked) == Least(clock + CatalogueTTL, IF a.expires = None THEN clock + CatalogueTTL ELSE a.expires)

(* The stated expiry, or the TTL from before Oxy was asked. *)
expiry(a, asked) == Least(asked + CatalogueTTL, IF a.expires = None THEN asked + CatalogueTTL ELSE a.expires)

(* OxyAuthorizer.Catalogue when Oxy has answered, or failed to. *)
CatalogueAnswer(r, a) ==
    /\ asking' = asking \ {r}
    /\ IF ValidAccess(a)
       THEN LET kept == IF Cardinality(DOMAIN cached) > BucketLimit THEN [d \in {} |-> None] ELSE cached
            IN /\ cached' = With(kept, r.by, [access |-> a, asked |-> r.at, expires |-> expiry(a, r.at)])
               /\ shown' = [access |-> a, asked |-> r.at, at |-> clock, hit |-> FALSE] /\ refused' = FALSE
       ELSE refused' = TRUE /\ UNCHANGED <<cached, shown>>
    /\ UNCHANGED <<clock, buckets, reference>>

GateTick ==
    /\ clock < MaxClock
    /\ clock' = clock + 1
    /\ reference' = [c \in Credentials |-> Least(Burst, reference[c] + Rate)]
    /\ UNCHANGED <<buckets, asking, cached, shown, refused>>

GateNext ==
    \/ \E c \in Credentials, origin \in Origins \cup {None}, preflight \in BOOLEAN : Ask(c, origin, preflight)
    \/ \E r \in asking, a \in Accesses \cup {None} : CatalogueAnswer(r, a)
    \/ GateTick

GateSpec == GateInit /\ [][GateNext]_gateVars

(***************************************************************************)
(* Properties                                                              *)
(***************************************************************************)

(* However the map of buckets is swept, no credential spends more than a   *)
(* burst and the rate since.                                               *)
RateBound == \A c \in Credentials : reference[c] >= 0

(* What the cache shows was asked of Oxy no longer ago than it may be      *)
(* held, and has not expired by Oxy's own word, whichever answers raced.   *)
CatalogueFresh ==
    shown # None /\ shown.hit =>
        /\ shown.at < shown.asked + CatalogueTTL
        /\ shown.access.expires # None => shown.at < shown.access.expires

(* The models a caller is shown: declared for its audience, served, and    *)
(* priced so that a minute costs no more on any deployment that states     *)
(* what it meters; levels name only such lines.                            *)
ListingIsHonest ==
    shown # None =>
        LET catalogue == ParsePublicCatalogue(Declared)
            models == servedModels(catalogue, Served, shown.access.audience)
            levels == powerLevels(catalogue, models, shown.access.levels)
            vad(row) == TurnDetectionOf(row.observed.realtime.parameters, ServerVAD)
            metered(row) == row.observed # None /\ row.observed.realtime # None /\ row.observed.realtime.parameters # None /\ vad(row) # <<>>
        IN /\ \A m \in models :
                 /\ \E d \in Document(catalogue) : d.line = m.line /\ d.audience = catalogue[m.line].audience
                 /\ catalogue[m.line].audience = "public" \/ shown.access.audience = "platform_internal"
                 /\ m.revision \in m.revisions /\ modelNamed(models, [line |-> m.line, rev |-> m.revision]) = {m}
                 /\ m.price # None => \A row \in {Served.rows[p] : p \in RouteSet(Served, [line |-> m.line, rev |-> m.revision])} :
                       metered(row) => minutePrice(catalogue[m.line].prices, ToSet(vad(row)[1].units)) <= m.price
           /\ DOMAIN levels \subseteq IF shown.access.levels = {} THEN Levels ELSE shown.access.levels
           /\ \A level \in DOMAIN levels : \A line \in levels[level] : visible(catalogue[line], shown.access.audience)

(* What the gate lets through is within its bounds, whatever is swept and  *)
(* however answers race: the rate of a credential (limiter.allow) and the  *)
(* age of a cached access (authorize.go, Catalogue).                       *)
GateHolds == RateBound /\ CatalogueFresh
=============================================================================

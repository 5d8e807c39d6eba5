--------------------------- MODULE KeyPoolProofs ---------------------------
(***************************************************************************)
(* The platform key pools, for any number of keys, replicas, generations   *)
(* of the pool and requests in flight, and for every retirement, lease and *)
(* write timeout, however short a retirement or a declared reset is.       *)
(***************************************************************************)
EXTENDS KeyPool, WellFoundedInduction, TLAPS

-----------------------------------------------------------------------------
(* The inductive invariant *)

\* The walk has taken a key.
OnKey == {"claim", "recover", "sent", "record", "mark"}

\* What a walk's place in WalkAttempts says of its other fields: a walk on its
\* way has a pool, one past next has a key, and only an exchange that is not
\* recorded yet holds a recovery lease.
WalkOK(x) ==
  /\ x.pc # "done" => x.pool \in Pools
  /\ x.pc \in OnKey => x.key \in Keys
  /\ x.pc \in {"sent", "record"} => x.sent = x.key
  /\ x.pc \in {"next", "claim", "recover"} => x.refused = x.sent
  /\ x.pc = "record" => x.answer.kind # "none"
  /\ x.header \in Headers \cup {NoHeader}
  /\ x.lease > 0 => x.pc \in {"sent", "record"}
  /\ x.lease <= LeaseTime
  /\ x.overtaken => x.lease > 0

WalksOK == \A w \in Walks : WalkOK(walks[w])

\* A lease a walk still holds is kept from the others by the key's row: it is
\* retired, or leased, for at least as long, unless the key is usable again or a
\* shorter retirement has replaced the lease.
Backed(x, row) ==
  x.lease > 0 /\ ~x.overtaken /\ row.state \in Retired =>
    row.retired >= x.lease \/ row.lease >= x.lease

LeasesBacked == \A w \in Walks : Backed(walks[w], runtime[walks[w].key])

PoolInv == TypeOK /\ WalksOK /\ LeasesBacked /\ OneRecoveryAtATime

-----------------------------------------------------------------------------
(* Windows and rows *)

\* A set of naturals that is not empty has a least element.
LEMMA LeastNat ==
  ASSUME NEW T \in SUBSET Nat, T # {}
  PROVE  \E x \in T : \A y \in T : x <= y
<1> DEFINE R == {ss \in Nat \X Nat : ss[1] < ss[2]}
<1>1. IsWellFoundedOn(R, Nat)
  BY NatLessThanWellFounded, Zenon DEF OpToRel
<1> HIDE DEF R
<1>2. PICK x \in T : \A y \in T : ~ (<<y, x>> \in R)
  BY <1>1, WFMin
<1>3. ASSUME NEW y \in T
      PROVE  x <= y
  <2>1. x \in Nat /\ y \in Nat
    OBVIOUS
  <2>2. ~(<<y, x>> \in R)
    BY <1>2
  <2>3. QED
    BY <2>1, <2>2, SMT DEF R
<1>4. QED
  BY <1>3

\* The times a pool or a row may hold: natural numbers, down to zero.
LEMMA LeftsFacts ==
  /\ Lefts \subseteq Nat
  /\ 0 \in Lefts /\ Retirement \in Lefts /\ LeaseTime \in Lefts
  /\ \A h \in Headers \cup {NoHeader} : Window(h) \in Lefts
  /\ \A n \in Lefts, m \in Nat : m <= n => m \in Lefts
<1>1. Retirement \in Nat /\ LeaseTime \in Nat /\ RecordTimeout \in Nat
  BY WindowAssumption
<1>2. Windows \subseteq Nat /\ Retirement \in Windows /\ LeaseTime \in Windows
  BY <1>1, KeyAssumption DEF Windows, Window, NoHeader
<1>3. 0 \in Lefts /\ Retirement \in Lefts /\ LeaseTime \in Lefts
  BY <1>1, <1>2 DEF Lefts
<1>4. \A n \in Lefts, m \in Nat : m <= n => m \in Lefts
  BY <1>2 DEF Lefts
<1>5. ASSUME NEW h \in Headers \cup {NoHeader}
      PROVE  Window(h) \in Lefts
  <2>1. CASE h > 0
    <3>1. h \in Headers /\ h \in Nat
      BY <2>1, KeyAssumption DEF NoHeader
    <3>2. Window(h) = h /\ h \in Windows
      BY <2>1, <3>1 DEF Window, Windows
    <3>3. QED
      BY <2>1, <3>1, <3>2, WindowAssumption DEF Lefts
  <2>2. CASE ~(h > 0)
    BY <2>2, <1>1, <1>3 DEF Window
  <2>3. QED
    BY <2>1, <2>2
<1>6. QED
  BY <1>3, <1>4, <1>5 DEF Lefts

\* A tick shortens a time, and zero stays.
LEMMA LessFacts ==
  /\ \A n \in Lefts : Less(n) \in Lefts /\ Less(n) <= n
  /\ \A m, n \in Nat : m <= n => Less(m) <= Less(n)
<1>1. ASSUME NEW n \in Lefts
      PROVE  Less(n) \in Lefts /\ Less(n) <= n
  <2>1. n \in Nat
    BY LeftsFacts
  <2>2. Less(n) \in Nat /\ Less(n) <= n
    BY <2>1 DEF Less
  <2>3. QED
    BY <2>2, LeftsFacts
<1>2. \A m, n \in Nat : m <= n => Less(m) <= Less(n)
  BY DEF Less
<1>3. QED
  BY <1>1, <1>2

\* The entries the model starts with and writes are well formed.
LEMMA EntryTypes ==
  /\ Fresh \in PooledKey /\ NoRow \in Row
  /\ \A e \in PooledKey : MarkUsable(e) \in PooledKey
  /\ \A row \in Row : Loaded(row) \in PooledKey
<1>1. Fresh \in PooledKey /\ \A e \in PooledKey : MarkUsable(e) \in PooledKey
  BY LeftsFacts DEF Fresh, PooledKey, Reasons, MarkUsable
<1>2. NoRow \in Row
  BY LeftsFacts, WindowAssumption DEF NoRow, Row
<1>3. \A row \in Row : Loaded(row) \in PooledKey
  BY LeftsFacts DEF Row, Loaded, PooledKey, Reasons, Retired
<1>4. QED
  BY <1>1, <1>2, <1>3

\* observe keeps a key's entry well formed.
LEMMA ObservedType ==
  ASSUME NEW e \in PooledKey, NEW answer \in Answer, NEW h \in Headers \cup {NoHeader}
  PROVE  Observed(e, answer, h) \in PooledKey
<1> DEFINE f == IF h = NoHeader THEN e ELSE Retire(e, "exhausted", Window(h))
<1>1. f \in PooledKey
  BY LeftsFacts DEF PooledKey, Retire, Reasons
<1>2. answer.kind \in Retired => Retire(f, answer.kind, Retirement) \in PooledKey
  <2> HIDE DEF f
  <2>1. QED
    BY <1>1, LeftsFacts DEF PooledKey, Retire, Reasons, Retired
<1>3. QED
  BY <1>1, <1>2 DEF Observed

\* kaana_record_provider_credential_attempt writes a well-formed row, never for
\* older evidence than the row's own.
LEMMA RecordedFacts ==
  ASSUME NEW x \in Walk, NEW row \in Row, x.header \in Headers \cup {NoHeader}
  PROVE  /\ Recorded(row, x) \in Row
         /\ Recorded(row, x) = row \/ Recorded(row, x).age <= row.age
<1> DEFINE out == RecordedAs(x)
<1>1. x.age \in Nat /\ x.age <= RecordTimeout /\ row.age \in Nat /\ RecordTimeout \in Nat
  BY WindowAssumption DEF Walk, Row
<1>2. CASE ~NotOlder(row, x) \/ out \notin Retired \cup {"accepted"}
  <2>1. Recorded(row, x) = row
    BY <1>2 DEF Recorded
  <2>2. QED
    BY <2>1, <1>1
<1>3. CASE NotOlder(row, x) /\ out = "accepted"
  <2>1. Recorded(row, x) = [state |-> "usable", retired |-> 0, lease |-> 0, age |-> x.age]
    BY <1>3 DEF Recorded
  <2>2. x.age <= row.age
    BY <1>3 DEF NotOlder
  <2>3. QED
    BY <2>1, <2>2, <1>1, LeftsFacts DEF Row, Retired
<1>4. CASE NotOlder(row, x) /\ out \in Retired
  <2> DEFINE n == LeftOf(RetiredUntil(x), x.age)
  <2>1. Recorded(row, x) = [state |-> out, retired |-> n, lease |-> 0, age |-> x.age]
    BY <1>4 DEF Recorded, Retired
  <2>2. RetiredUntil(x) \in Lefts /\ RetiredUntil(x) \in Nat
    BY LeftsFacts, WindowAssumption DEF RetiredUntil
  <2>3. n \in Nat /\ n <= RetiredUntil(x)
    BY <2>2, <1>1 DEF LeftOf
  <2>4. n \in Lefts
    BY <2>2, <2>3, LeftsFacts
  <2>5. x.age <= row.age
    BY <1>4 DEF NotOlder
  <2> HIDE DEF n, out
  <2>6. QED
    BY <1>4, <2>1, <2>3, <2>4, <2>5, <1>1, LeftsFacts DEF Row
<1>5. QED
  BY <1>2, <1>3, <1>4

-----------------------------------------------------------------------------
(* The values a walk takes *)

\* A walk that ended, with what it keeps for a retry.
LEMMA EndedFacts ==
  /\ Idle \in Walk /\ WalkOK(Idle) /\ Idle.lease = 0 /\ Idle.transient = {}
  /\ \A x \in Walk : Failed(x) \in Walk /\ WalkOK(Failed(x)) /\ Failed(x).lease = 0
<1>1. RecordTimeout \in Nat /\ LeaseTime \in Nat /\ 0 \in Lefts
  BY WindowAssumption, LeftsFacts
<1>2. Idle \in Walk /\ Idle.lease = 0 /\ Idle.transient = {}
  BY <1>1 DEF Idle, Walk, NoAnswer, Answer, NoHeader
<1>3. WalkOK(Idle)
  BY <1>1 DEF Idle, WalkOK, OnKey
<1>4. ASSUME NEW x \in Walk
      PROVE  Failed(x) \in Walk /\ WalkOK(Failed(x)) /\ Failed(x).lease = 0
  <2>1. x.transient \in SUBSET Keys
    BY DEF Walk
  <2>2. Failed(x) \in Walk /\ Failed(x).lease = 0
    BY <1>2, <2>1 DEF Failed, Walk
  <2>3. /\ Failed(x).pc = "done" /\ Failed(x).header = NoHeader /\ Failed(x).lease = 0
        /\ ~Failed(x).overtaken
    BY DEF Failed, Idle
  <2>4. QED
    BY <2>2, <2>3, <1>1 DEF WalkOK, OnKey
<1>5. QED
  BY <1>2, <1>3, <1>4

\* KeyAttempt.next finds a key whenever one is left: of the cheapest funding,
\* the one declared first.
LEMMA NextIsAKey ==
  ASSUME NEW x \in Walk, Leasable(x) # {}
  PROVE  Next1(x) \in Leasable(x)
<1> DEFINE C == Candidates(x)
           RankOf(k) == Rank(FundingOf[k])
<1>1. C \subseteq Leasable(x) /\ C # {} /\ C \subseteq Keys
  BY DEF Candidates, Leasable, Walk
<1>2. \A k \in Keys : k \in Nat /\ RankOf(k) \in Nat
  BY KeyAssumption DEF Rank
<1> HIDE DEF C, RankOf
<1>3. PICK m \in {RankOf(k) : k \in C} : \A n \in {RankOf(k) : k \in C} : m <= n
  <2>1. {RankOf(k) : k \in C} \in SUBSET Nat /\ {RankOf(k) : k \in C} # {}
    BY <1>1, <1>2
  <2>2. QED
    BY <2>1, LeastNat
<1> DEFINE D == {k \in C : RankOf(k) = m}
<1>4. D \in SUBSET Nat /\ D # {}
  BY <1>1, <1>2, <1>3
<1>5. PICK k \in D : \A j \in D : k <= j
  <2> HIDE DEF D
  <2>1. QED
    BY <1>4, LeastNat
<1>6. k \in C /\ \A j \in C : Before(k, j)
  <2>1. ASSUME NEW j \in C
        PROVE  Before(k, j)
    <3>1. m <= RankOf(j) /\ RankOf(k) = m /\ RankOf(j) \in Nat /\ m \in Nat
      BY <1>1, <1>2, <1>3, <1>5
    <3>2. CASE RankOf(j) = m
      BY <3>1, <3>2, <1>5 DEF Before, RankOf
    <3>3. CASE RankOf(j) # m
      <4>1. RankOf(k) < RankOf(j)
        BY <3>1, <3>3
      <4>2. QED
        BY <4>1 DEF Before, RankOf
    <3>4. QED
      BY <3>2, <3>3
  <2>2. QED
    BY <2>1
<1>7. Next1(x) \in C
  BY <1>6 DEF Next1, C
<1>8. QED
  BY <1>7, <1>1

\* The walk takes the key: it is sent at once, or a recovery is claimed first.
LEMMA LeasedFacts ==
  ASSUME TypeOK, NEW x \in Walk, WalkOK(x), x.pc = "next", NEW k \in Keys
  PROVE  /\ Leased(x, k) \in Walk /\ WalkOK(Leased(x, k))
         /\ Leased(x, k).lease = 0
<1>1. x.pool \in Pools /\ x.lease = 0 /\ ~x.overtaken /\ x.refused = x.sent /\ k # 0
  <2>1. x.lease \in Nat
    BY LeftsFacts DEF Walk
  <2>2. QED
    BY <2>1, KeyAssumption DEF WalkOK
<1>2. pools[x.pool][k] \in PooledKey
  BY <1>1 DEF TypeOK
<1> DEFINE y == [x EXCEPT !.tried = @ \cup {k}, !.key = k, !.old = pools[x.pool][k].old]
<1>3. y \in Walk /\ y.lease = 0 /\ ~y.overtaken /\ y.key = k /\ y.pool = x.pool /\ y.header = x.header /\ y.refused = x.refused /\ y.sent = x.sent
  <2>1. pools[x.pool][k].old \in BOOLEAN
    BY <1>2 DEF PooledKey
  <2>2. QED
    BY <2>1, <1>1 DEF Walk
<1>4. Leased(x, k) = Sent(y) \/ Leased(x, k) = [y EXCEPT !.pc = "claim"]
  BY DEF Leased
<1> HIDE DEF y
<1>5. Sent(y) \in Walk /\ WalkOK(Sent(y)) /\ Sent(y).lease = 0
  <2>1. Sent(y) \in Walk
    BY <1>3 DEF Walk, Sent
  <2>2. /\ Sent(y).pc = "sent" /\ Sent(y).sent = k /\ Sent(y).key = k /\ Sent(y).lease = 0
        /\ Sent(y).pool = x.pool /\ Sent(y).header = x.header /\ ~Sent(y).overtaken
    BY <1>3 DEF Sent, Walk
  <2>3. QED
    BY <2>1, <2>2, <1>1, WindowAssumption DEF WalkOK, OnKey
<1>6. /\ [y EXCEPT !.pc = "claim"] \in Walk /\ WalkOK([y EXCEPT !.pc = "claim"])
      /\ [y EXCEPT !.pc = "claim"].lease = 0
  <2> DEFINE z == [y EXCEPT !.pc = "claim"]
  <2>1. z \in Walk
    BY <1>3 DEF Walk
  <2>2. /\ z.pc = "claim" /\ z.sent = x.sent /\ z.refused = x.refused /\ z.key = k /\ z.lease = 0
        /\ z.pool = x.pool /\ z.header = x.header /\ ~z.overtaken
    BY <1>3 DEF Walk
  <2> HIDE DEF z
  <2>3. WalkOK(z)
    BY <2>1, <2>2, <1>1, WindowAssumption DEF WalkOK, OnKey
  <2>4. QED
    BY <2>1, <2>2, <2>3 DEF z
<1>7. QED
  BY <1>4, <1>5, <1>6

\* Once its attempt is recorded the walk holds no lease; if it moves on, it
\* keeps the refusal of the exchange it has just had.
LEMMA AfterRecordFacts ==
  ASSUME NEW x \in Walk, WalkOK(x), x.pc = "record"
  PROVE  AfterRecord(x) \in Walk /\ WalkOK(AfterRecord(x)) /\ AfterRecord(x).lease = 0
<1> DEFINE y == [x EXCEPT !.answer = NoAnswer, !.header = NoHeader, !.age = 0, !.lease = 0,
                           !.overtaken = FALSE]
           z == [y EXCEPT !.transient = @ \cup {x.key}]
           Good(v) == v \in Walk /\ WalkOK(v) /\ v.lease = 0
<1>1. x.pool \in Pools /\ x.key \in Keys /\ x.sent = x.key /\ x.age \in 0..RecordTimeout
  BY DEF WalkOK, OnKey, Walk
<1>2. /\ y \in Walk /\ y.lease = 0 /\ ~y.overtaken /\ y.key = x.key /\ y.pool = x.pool /\ y.sent = x.key
      /\ y.header = NoHeader
  <2>1. NoAnswer \in Answer /\ 0 \in 0..RecordTimeout /\ 0 \in Lefts
    BY LeftsFacts, WindowAssumption DEF NoAnswer, Answer
  <2>2. QED
    BY <2>1, <1>1 DEF Walk
<1>3. /\ z \in Walk /\ z.lease = 0 /\ ~z.overtaken /\ z.key = x.key /\ z.pool = x.pool /\ z.sent = x.key
      /\ z.header = NoHeader
  <2> HIDE DEF y
  <2>1. QED
    BY <1>1, <1>2 DEF Walk
<1>4. AfterRecord(x) =
        CASE x.answer.kind = "accepted" ->
               IF x.header = NoHeader THEN [y EXCEPT !.pc = "mark", !.age = x.age]
                                      ELSE Idle
          [] x.answer.kind \in Retired -> Moved(y)
          [] x.answer.kind = "request_fault" -> Failed(y)
          [] x.answer.kind = "transport" -> Failed(z)
          [] x.answer.kind = "healthy" ->
               IF x.answer.throttled /\ OnSeparateAccounts /\ ~x.rotated
               THEN [Moved(z) EXCEPT !.rotated = TRUE]
               ELSE Failed(z)
  BY DEF AfterRecord
<1> HIDE DEF y, z
<1>5. x.answer.kind \in {"accepted", "request_fault", "transport", "healthy"} \cup Retired
  BY DEF WalkOK, Walk, Answer, Verdicts, Retired
<1>6. Good(Idle) /\ Good(Failed(y)) /\ Good(Failed(z))
  BY EndedFacts, <1>2, <1>3
<1>7. ASSUME NEW v \in Walk, v.lease = 0, ~v.overtaken, v.key = x.key, v.pool = x.pool, v.sent = x.key, v.header = NoHeader
      PROVE  /\ Moved(v) \in Walk /\ Moved(v).lease = 0 /\ ~Moved(v).overtaken /\ Moved(v).pc = "next"
             /\ Moved(v).pool = x.pool /\ Moved(v).sent = x.key /\ Moved(v).refused = x.key
             /\ Moved(v).header = NoHeader
  BY <1>1, <1>7 DEF Moved, Walk
<1>8. ASSUME NEW v \in Walk, v.lease = 0, ~v.overtaken, v.pc = "next", v.pool = x.pool,
             v.sent = v.refused, v.header = NoHeader
      PROVE  Good(v)
  BY <1>1, <1>8, WindowAssumption DEF WalkOK, OnKey
<1>9. Good(Moved(y))
  BY <1>2, <1>7, <1>8
<1>10. Good([Moved(z) EXCEPT !.rotated = TRUE])
  <2> DEFINE v == [Moved(z) EXCEPT !.rotated = TRUE]
  <2>1. /\ Moved(z) \in Walk /\ Moved(z).lease = 0 /\ ~Moved(z).overtaken /\ Moved(z).pc = "next" /\ Moved(z).pool = x.pool
        /\ Moved(z).sent = x.key /\ Moved(z).refused = x.key /\ Moved(z).header = NoHeader
    BY <1>3, <1>7
  <2>2. /\ v \in Walk /\ v.lease = 0 /\ ~v.overtaken /\ v.pc = "next" /\ v.pool = x.pool
        /\ v.sent = v.refused /\ v.header = NoHeader
    BY <2>1 DEF Walk
  <2> HIDE DEF v
  <2>3. Good(v)
    BY <2>2, <1>8
  <2>4. QED
    BY <2>3 DEF v
<1>11. Good([y EXCEPT !.pc = "mark", !.age = x.age])
  <2> DEFINE v == [y EXCEPT !.pc = "mark", !.age = x.age]
  <2>1. /\ v \in Walk /\ v.lease = 0 /\ ~v.overtaken /\ v.pc = "mark" /\ v.pool = x.pool /\ v.key = x.key
        /\ v.header = NoHeader
    BY <1>1, <1>2 DEF Walk
  <2> HIDE DEF v
  <2>2. Good(v)
    BY <2>1, <1>1, WindowAssumption DEF WalkOK, OnKey
  <2>3. QED
    BY <2>2 DEF v
<1> HIDE DEF Good
<1>12. Good(AfterRecord(x))
  BY <1>4, <1>5, <1>6, <1>9, <1>10, <1>11 DEF Retired
<1>13. QED
  BY <1>12 DEF Good

-----------------------------------------------------------------------------
(* The parts of a step *)

\* A pool that nothing refers to is blank; the others are as they were written.
LEMMA SetPoolsType ==
  ASSUME NEW ps \in [Pools -> [Keys -> PooledKey]], SetPools(ps)
  PROVE  pools' \in [Pools -> [Keys -> PooledKey]]
BY EntryTypes DEF SetPools

\* A walk's step leaves the other walks alone.
LEMMA SetWalkType ==
  ASSUME TypeOK, WalksOK, NEW w \in Walks, NEW x \in Walk, WalkOK(x), SetWalk(w, x)
  PROVE  walks' \in [Walks -> Walk] /\ WalksOK' /\ walks'[w] = x /\ \A v \in Walks \ {w} : walks'[v] = walks[v]
<1>1. walks' \in [Walks -> Walk] /\ walks'[w] = x /\ \A v \in Walks \ {w} : walks'[v] = walks[v]
  BY DEF TypeOK, SetWalk
<1>2. \A v \in Walks : WalkOK(walks'[v])
  BY <1>1 DEF WalksOK
<1>3. QED
  BY <1>1, <1>2 DEF WalksOK, WalkOK

\* Leases stay exclusive and backed when no walk gains one, none that was
\* overtaken stops being so, and a row is written usable, or retired for as long
\* as each lease of its key that is not overtaken.
LEMMA LeasesKept ==
  ASSUME PoolInv, walks' \in [Walks -> Walk], WalksOK', runtime' \in [Keys -> Row],
         \A w \in Walks : \/ walks'[w].lease = 0
                          \/ /\ walks'[w].lease = walks[w].lease /\ walks'[w].key = walks[w].key
                             /\ walks[w].overtaken => walks'[w].overtaken,
         \A w \in Walks : \/ walks'[w].lease = 0
                          \/ runtime'[walks[w].key] = runtime[walks[w].key]
                          \/ ~Overtakes(runtime'[walks[w].key], walks[w])
                          \/ walks'[w].overtaken
  PROVE  LeasesBacked' /\ OneRecoveryAtATime'
<1>1. OneRecoveryAtATime'
  <2>1. \A w \in Walks : walks'[w].lease \in Nat
    BY LeftsFacts DEF Walk
  <2>2. QED
    BY <2>1 DEF PoolInv, OneRecoveryAtATime
<1>2. ASSUME NEW w \in Walks
      PROVE  Backed(walks'[w], runtime'[walks'[w].key])
  <2>1. CASE walks'[w].lease = 0
    BY <2>1 DEF Backed
  <2>2. CASE walks'[w].lease # 0
    <3>1. /\ walks'[w].lease = walks[w].lease /\ walks'[w].key = walks[w].key
          /\ walks[w].overtaken => walks'[w].overtaken
      BY <2>2
    <3>2. walks'[w].lease \in Nat /\ walks'[w].lease <= LeaseTime /\ walks'[w].lease > 0
      <4>1. walks'[w].lease \in Nat
        BY LeftsFacts DEF Walk
      <4>2. walks'[w].lease <= LeaseTime
        BY DEF WalksOK, WalkOK
      <4>3. QED
        BY <2>2, <4>1, <4>2
    <3>3. walks'[w].key \in Keys
      BY <3>2 DEF WalksOK, WalkOK, OnKey
    <3>4. Backed(walks[w], runtime[walks[w].key])
      BY DEF PoolInv, LeasesBacked
    <3>5. CASE runtime'[walks'[w].key] = runtime[walks[w].key]
      BY <3>1, <3>4, <3>5 DEF Backed
    <3>6. CASE ~Overtakes(runtime'[walks[w].key], walks[w])
      <4>1. runtime'[walks[w].key].retired \in Nat /\ walks[w].lease \in Nat
        BY <3>1, <3>2, <3>3, LeftsFacts DEF Row
      <4>2. QED
        BY <3>1, <3>6, <4>1 DEF Backed, Overtakes
    <3>7. CASE walks'[w].overtaken
      BY <3>7 DEF Backed
    <3>8. QED
      BY <2>2, <3>1, <3>5, <3>6, <3>7
  <2>3. QED
    BY <2>1, <2>2
<1>3. QED
  BY <1>1, <1>2 DEF LeasesBacked, Backed

\* A walk's step that writes no row and gains no lease keeps the invariant.
LEMMA PlainStep ==
  ASSUME PoolInv, NEW w \in Walks, NEW x \in Walk, WalkOK(x), SetWalk(w, x),
         UNCHANGED <<current, loading, runtime>>,
         pools' \in [Pools -> [Keys -> PooledKey]],
         x.lease = 0 \/ (x.lease = walks[w].lease /\ x.key = walks[w].key /\ x.overtaken = walks[w].overtaken)
  PROVE  PoolInv'
<1>1. walks' \in [Walks -> Walk] /\ WalksOK' /\ walks'[w] = x /\ \A v \in Walks \ {w} : walks'[v] = walks[v]
  BY SetWalkType DEF PoolInv
<1>2. runtime' \in [Keys -> Row]
  BY DEF PoolInv, TypeOK
<1>3. LeasesBacked' /\ OneRecoveryAtATime'
  <2>1. \A v \in Walks : \/ walks'[v].lease = 0
                         \/ /\ walks'[v].lease = walks[v].lease /\ walks'[v].key = walks[v].key
                            /\ walks[v].overtaken => walks'[v].overtaken
    BY <1>1
  <2>2. \A v \in Walks : runtime'[walks[v].key] = runtime[walks[v].key]
    OBVIOUS
  <2>3. QED
    BY <1>1, <1>2, <2>1, <2>2, LeasesKept
<1>4. TypeOK'
  BY <1>1, <1>2 DEF PoolInv, TypeOK
<1>5. QED
  BY <1>1, <1>3, <1>4 DEF PoolInv

-----------------------------------------------------------------------------
(* The steps *)

\* A walk that has given its last key up, or failed to claim, is over.
LEMMA EndsKeep ==
  ASSUME PoolInv, NEW w \in Walks, NoneLeft(w) \/ ClaimFails(w)
  PROVE  PoolInv'
<1>1. /\ SetWalk(w, Failed(walks[w])) /\ UNCHANGED <<current, loading, runtime>> /\ SetPools(pools)
  BY DEF NoneLeft, ClaimFails
<1>2. Failed(walks[w]) \in Walk /\ WalkOK(Failed(walks[w])) /\ Failed(walks[w]).lease = 0
  BY EndedFacts DEF PoolInv, TypeOK
<1>3. pools' \in [Pools -> [Keys -> PooledKey]]
  BY <1>1, SetPoolsType DEF PoolInv, TypeOK
<1>4. QED
  BY <1>1, <1>2, <1>3, PlainStep

LEMMA BeginKeeps ==
  ASSUME PoolInv, NEW w \in Walks, NEW r \in Replicas, NEW pin, NEW ceiling,
         NEW retry \in BOOLEAN, Begin(w, r, pin, ceiling, retry)
  PROVE  PoolInv'
<1> DEFINE tr == IF retry THEN walks[w].transient ELSE {}
           x == [Idle EXCEPT !.pc = "next", !.pool = current[r], !.view = View(pin, ceiling),
                             !.transient = tr]
<1>1. tr \in SUBSET Keys /\ current[r] \in Pools /\ View(pin, ceiling) \in SUBSET Keys
  BY DEF PoolInv, TypeOK, Walk, View
<1>2. /\ x.pc = "next" /\ x.pool = current[r] /\ x.refused = 0 /\ x.sent = 0 /\ x.lease = 0 /\ x.header = NoHeader
      /\ ~x.overtaken
  <2> HIDE DEF tr
  <2>1. QED
    BY DEF Idle
<1>3. x \in Walk
  <2> HIDE DEF tr
  <2>1. Idle \in Walk
    BY EndedFacts
  <2>2. QED
    BY <1>1, <2>1 DEF Walk
<1>4. SetWalk(w, x) /\ UNCHANGED <<pools, current, loading, runtime>>
  BY DEF Begin
<1> HIDE DEF x
<1>5. WalkOK(x)
  BY <1>1, <1>2, WindowAssumption DEF WalkOK, OnKey
<1>6. pools' \in [Pools -> [Keys -> PooledKey]]
  BY <1>4 DEF PoolInv, TypeOK
<1>7. QED
  BY <1>2, <1>3, <1>4, <1>5, <1>6, PlainStep

LEMMA LeaseKeeps ==
  ASSUME PoolInv, NEW w \in Walks, Lease(w)
  PROVE  PoolInv'
<1> DEFINE x == Leased(walks[w], Next1(walks[w]))
<1>1. walks[w] \in Walk /\ WalkOK(walks[w]) /\ walks[w].pc = "next" /\ TypeOK
  BY DEF PoolInv, TypeOK, WalksOK, Lease
<1>2. Next1(walks[w]) \in Keys
  BY <1>1, NextIsAKey DEF Lease, Leasable, Walk
<1>3. x \in Walk /\ WalkOK(x) /\ x.lease = 0
  BY <1>1, <1>2, LeasedFacts
<1>4. SetWalk(w, x) /\ UNCHANGED <<pools, current, loading, runtime>>
  BY DEF Lease
<1> HIDE DEF x
<1>5. pools' \in [Pools -> [Keys -> PooledKey]]
  BY <1>4 DEF PoolInv, TypeOK
<1>6. QED
  BY <1>3, <1>4, <1>5, PlainStep

\* A claim that the database grants: the row was neither retired nor leased, so
\* no other walk holds a lease of the key.
LEMMA ClaimKeeps ==
  ASSUME PoolInv, NEW w \in Walks, Claim(w)
  PROVE  PoolInv'
<1> DEFINE x == walks[w]
           row == runtime[x.key]
           y == [Sent(x) EXCEPT !.lease = LeaseTime]
<1>1. /\ x \in Walk /\ WalkOK(x) /\ x.pc = "claim" /\ x.key \in Keys /\ x.pool \in Pools /\ row \in Row
  BY DEF PoolInv, TypeOK, WalksOK, WalkOK, OnKey, Claim
<1>2. pools' \in [Pools -> [Keys -> PooledKey]] /\ UNCHANGED <<pools, current, loading>>
  BY DEF Claim, PoolInv, TypeOK
<1>3. ASSUME NEW pc \in {"next", "recover"}, SetWalk(w, [x EXCEPT !.pc = pc]), UNCHANGED runtime
      PROVE  PoolInv'
  <2> DEFINE z == [x EXCEPT !.pc = pc]
  <2>1. /\ z \in Walk /\ z.pc = pc /\ z.pool = x.pool /\ z.key = x.key /\ z.sent = x.sent /\ z.refused = x.refused
        /\ z.header = x.header /\ z.lease = x.lease /\ z.overtaken = x.overtaken
    <3> HIDE DEF x
    <3>1. QED
      BY <1>1 DEF Walk
  <2> HIDE DEF z, x
  <2>2. z.lease = 0
    <3>1. x.lease \in Nat
      BY <1>1, LeftsFacts DEF Walk
    <3>2. QED
      BY <1>1, <2>1, <3>1 DEF WalkOK
  <2>3. WalkOK(z)
    BY <1>1, <2>1, <2>2, WindowAssumption DEF WalkOK, OnKey
  <2>4. SetWalk(w, z)
    BY <1>3 DEF z
  <2>5. QED
    BY <1>2, <1>3, <2>1, <2>2, <2>3, <2>4, PlainStep
<1>4. ASSUME ClaimDecision(row) = "claimed",
             runtime' = [runtime EXCEPT ![x.key].lease = LeaseTime], SetWalk(w, y)
      PROVE  PoolInv'
  <2>1. row.state \in Retired /\ row.retired = 0 /\ row.lease = 0
    <3> HIDE DEF row
    <3>1. QED
      BY <1>4 DEF ClaimDecision
  <2>2. /\ runtime' \in [Keys -> Row] /\ runtime'[x.key].lease = LeaseTime
        /\ \A k \in Keys \ {x.key} : runtime'[k] = runtime[k]
    <3> HIDE DEF x
    <3>1. QED
      BY <1>1, <1>4, LeftsFacts DEF PoolInv, TypeOK, Row
  <2>3. /\ y \in Walk /\ y.pc = "sent" /\ y.pool = x.pool /\ y.key = x.key /\ y.sent = x.key
        /\ y.header = x.header /\ y.lease = LeaseTime /\ y.overtaken = x.overtaken
    <3> HIDE DEF x
    <3>1. QED
      BY <1>1, LeftsFacts DEF Walk, Sent
  <2> HIDE DEF y
  <2>4. WalkOK(y)
    BY <1>1, <2>3, WindowAssumption DEF WalkOK, OnKey
  <2>5. walks' \in [Walks -> Walk] /\ WalksOK' /\ walks'[w] = y /\ \A v \in Walks \ {w} : walks'[v] = walks[v]
    BY <1>4, <2>3, <2>4, SetWalkType DEF PoolInv
  <2>6. ASSUME NEW v \in Walks \ {w}, walks[v].lease > 0
        PROVE  walks[v].key \in Keys /\ (walks[v].overtaken \/ walks[v].key # x.key)
    <3>1. Backed(walks[v], runtime[walks[v].key])
      BY DEF PoolInv, LeasesBacked
    <3>2. walks[v].lease \in Nat
      BY LeftsFacts DEF PoolInv, TypeOK, Walk
    <3>3. walks[v].overtaken \/ walks[v].key # x.key
      BY <2>1, <2>6, <3>1, <3>2 DEF Backed
    <3>4. QED
      BY <2>6, <3>3 DEF PoolInv, WalksOK, WalkOK, OnKey
  <2>7. OneRecoveryAtATime'
    <3>1. ASSUME NEW u \in Walks, NEW v \in Walks, u # v, walks'[u].lease > 0, walks'[v].lease > 0,
                 walks'[u].key = walks'[v].key
          PROVE  walks'[u].overtaken \/ walks'[v].overtaken
      <4>1. CASE u = w
        BY <3>1, <4>1, <2>3, <2>5, <2>6
      <4>2. CASE v = w
        BY <3>1, <4>2, <2>3, <2>5, <2>6
      <4>3. CASE u # w /\ v # w
        BY <3>1, <4>3, <2>5 DEF PoolInv, OneRecoveryAtATime
      <4>4. QED
        BY <4>1, <4>2, <4>3
    <3>2. QED
      BY <3>1 DEF OneRecoveryAtATime
  <2>8. LeasesBacked'
    <3>1. ASSUME NEW v \in Walks
          PROVE  Backed(walks'[v], runtime'[walks'[v].key])
      <4>1. CASE v = w
        BY <4>1, <2>2, <2>3, <2>5, WindowAssumption DEF Backed
      <4>2. CASE v # w /\ walks[v].lease > 0
        <5>1. CASE walks[v].overtaken
          BY <4>2, <5>1, <2>5 DEF Backed
        <5>2. CASE runtime'[walks[v].key] = runtime[walks[v].key]
          BY <4>2, <5>2, <2>5 DEF PoolInv, LeasesBacked
        <5>3. QED
          BY <4>2, <5>1, <5>2, <2>2, <2>6
      <4>3. CASE v # w /\ ~(walks[v].lease > 0)
        BY <4>3, <2>5 DEF Backed
      <4>4. QED
        BY <4>1, <4>2, <4>3
    <3>2. QED
      BY <3>1 DEF LeasesBacked, Backed
  <2>9. TypeOK'
    BY <1>2, <2>2, <2>5 DEF PoolInv, TypeOK
  <2>10. QED
    BY <2>5, <2>7, <2>8, <2>9 DEF PoolInv
<1>5. QED
  BY <1>3, <1>4 DEF Claim

LEMMA RecoverKeeps ==
  ASSUME PoolInv, NEW w \in Walks, Recover(w)
  PROVE  PoolInv'
<1> DEFINE x == walks[w]
           y == Sent(x)
<1>1. x \in Walk /\ WalkOK(x) /\ x.pc = "recover" /\ x.key \in Keys /\ x.pool \in Pools
  BY DEF PoolInv, TypeOK, WalksOK, WalkOK, OnKey, Recover
<1>2. SetWalk(w, y) /\ UNCHANGED <<current, loading, runtime>>
  BY DEF Recover
<1>3. pools' \in [Pools -> [Keys -> PooledKey]]
  <2>1. pools' = [pools EXCEPT ![x.pool][x.key] = MarkUsable(pools[x.pool][x.key])]
    BY DEF Recover
  <2>2. pools \in [Pools -> [Keys -> PooledKey]]
    BY DEF PoolInv, TypeOK
  <2>3. MarkUsable(pools[x.pool][x.key]) \in PooledKey
    BY <1>1, <2>2, EntryTypes
  <2> HIDE DEF x
  <2>4. QED
    BY <1>1, <2>1, <2>2, <2>3
<1> HIDE DEF x
<1>4. /\ y \in Walk /\ y.pc = "sent" /\ y.pool = x.pool /\ y.key = x.key /\ y.sent = x.key
      /\ y.header = x.header /\ y.lease = x.lease /\ y.overtaken = x.overtaken
  BY <1>1 DEF Walk, Sent
<1> HIDE DEF y
<1>5. WalkOK(y)
  BY <1>1, <1>4 DEF WalkOK, OnKey
<1>6. QED
  BY <1>2, <1>3, <1>4, <1>5, PlainStep DEF x

LEMMA AnsweredKeeps ==
  ASSUME PoolInv, NEW w \in Walks, NEW answer \in Answer, answer.kind # "none",
         NEW h \in Headers \cup {NoHeader}, Answered(w, answer, h)
  PROVE  PoolInv'
<1> DEFINE x == walks[w]
           y == [x EXCEPT !.pc = "record", !.answer = answer, !.header = h, !.age = 0]
<1>1. x \in Walk /\ WalkOK(x) /\ x.pc = "sent" /\ x.key \in Keys /\ x.pool \in Pools
  BY DEF PoolInv, TypeOK, WalksOK, WalkOK, OnKey, Answered
<1>2. SetWalk(w, y) /\ UNCHANGED <<current, loading, runtime>>
  BY DEF Answered
<1>3. pools' \in [Pools -> [Keys -> PooledKey]]
  <2>1. pools' = [pools EXCEPT ![x.pool][x.key] = Observed(pools[x.pool][x.key], answer, h)]
    BY DEF Answered
  <2>2. pools \in [Pools -> [Keys -> PooledKey]]
    BY DEF PoolInv, TypeOK
  <2>3. Observed(pools[x.pool][x.key], answer, h) \in PooledKey
    BY <1>1, <2>2, ObservedType
  <2> HIDE DEF x
  <2>4. QED
    BY <1>1, <2>1, <2>2, <2>3
<1> HIDE DEF x
<1>4. /\ y \in Walk /\ y.pc = "record" /\ y.pool = x.pool /\ y.key = x.key /\ y.sent = x.sent
      /\ y.header = h /\ y.lease = x.lease /\ y.overtaken = x.overtaken /\ y.answer = answer
  <2>1. h \in {NoHeader} \cup Nat /\ 0 \in 0..RecordTimeout
    BY KeyAssumption, WindowAssumption
  <2>2. QED
    BY <1>1, <2>1 DEF Walk
<1> HIDE DEF y
<1>5. WalkOK(y)
  BY <1>1, <1>4 DEF WalkOK, OnKey
<1>6. QED
  BY <1>2, <1>3, <1>4, <1>5, PlainStep DEF x

LEMMA RecordKeeps ==
  ASSUME PoolInv, NEW w \in Walks, Record(w)
  PROVE  PoolInv'
<1> DEFINE x == walks[w]
           y == AfterRecord(x)
<1>1. x \in Walk /\ WalkOK(x) /\ x.pc = "record" /\ x.key \in Keys /\ runtime \in [Keys -> Row]
  BY DEF PoolInv, TypeOK, WalksOK, WalkOK, OnKey, Record
<1>2. UNCHANGED <<current, loading>> /\ SetPools(pools)
  BY DEF Record
<1>3. runtime' = runtime \/ runtime' = [runtime EXCEPT ![x.key] = Recorded(runtime[x.key], x)]
  BY DEF Record
<1>4. y \in Walk /\ WalkOK(y) /\ y.lease = 0
  <2> HIDE DEF x
  <2>1. QED
    BY <1>1, AfterRecordFacts
<1>5. ASSUME NEW v \in Walks
      PROVE  /\ walks'[v] \in Walk /\ WalkOK(walks'[v])
             /\ \/ walks'[v].lease = 0
                \/ /\ walks'[v].lease = walks[v].lease /\ walks'[v].key = walks[v].key
                   /\ walks[v].overtaken => walks'[v].overtaken
             /\ \/ walks'[v].lease = 0
                \/ runtime'[walks[v].key] = runtime[walks[v].key]
                \/ ~Overtakes(runtime'[walks[v].key], walks[v])
                \/ walks'[v].overtaken
  <2> DEFINE u == walks[v]
             hit == u.key = x.key /\ runtime' # runtime /\ Overtakes(runtime'[x.key], u)
             z == [u EXCEPT !.overtaken = TRUE]
  <2>1. walks'[v] = IF v = w THEN y ELSE IF hit THEN z ELSE u
    BY DEF Record
  <2>2. u \in Walk /\ WalkOK(u) /\ u.lease \in Nat
    BY LeftsFacts DEF PoolInv, TypeOK, WalksOK, Walk
  <2>3. v # w /\ ~hit =>
          \/ u.lease = 0
          \/ runtime'[u.key] = runtime[u.key]
          \/ ~Overtakes(runtime'[u.key], u)
    <3>1. u.lease = 0 \/ u.key \in Keys
      <4> HIDE DEF u
      <4>1. QED
        BY <2>2 DEF WalkOK, OnKey
    <3>2. CASE u.key \in Keys /\ u.key # x.key
      <4> HIDE DEF u, x
      <4>1. runtime'[u.key] = runtime[u.key]
        BY <1>1, <1>3, <3>2
      <4>2. QED
        BY <4>1
    <3>3. CASE u.key = x.key
      BY <3>3
    <3>4. QED
      BY <3>1, <3>2, <3>3
  <2>4. hit => u.lease > 0
    <3>1. hit => runtime'[x.key] \in Row
      <4> HIDE DEF x
      <4>1. Recorded(runtime[x.key], x) \in Row
        BY <1>1, RecordedFacts DEF WalkOK
      <4>2. QED
        BY <1>1, <1>3, <4>1
    <3>2. hit => runtime'[x.key].retired \in Nat
      BY <3>1, LeftsFacts DEF Row
    <3>3. QED
      BY <2>2, <3>2 DEF Overtakes
  <2> HIDE DEF u, hit, y
  <2>5. /\ z \in Walk /\ z.lease = u.lease /\ z.key = u.key /\ z.overtaken /\ z.pc = u.pc /\ z.pool = u.pool
        /\ z.sent = u.sent /\ z.refused = u.refused /\ z.answer = u.answer /\ z.header = u.header
    BY <2>2 DEF Walk
  <2> HIDE DEF z
  <2>6. hit => WalkOK(z)
    BY <2>2, <2>4, <2>5 DEF WalkOK
  <2>7. CASE v = w
    BY <1>4, <2>1, <2>7
  <2>8. CASE v # w /\ hit
    BY <2>1, <2>5, <2>6, <2>8 DEF u
  <2>9. CASE v # w /\ ~hit
    BY <2>1, <2>2, <2>3, <2>9 DEF u
  <2>10. QED
    BY <2>7, <2>8, <2>9
<1>6. runtime' \in [Keys -> Row]
  <2> HIDE DEF x
  <2>1. Recorded(runtime[x.key], x) \in Row
    BY <1>1, RecordedFacts DEF WalkOK
  <2>2. QED
    BY <1>1, <1>3, <2>1
<1>7. walks' \in [Walks -> Walk] /\ WalksOK'
  <2>1. walks' \in [Walks -> Walk]
    <3>1. walks' = [v \in Walks |-> walks'[v]]
      BY DEF Record
    <3>2. QED
      BY <1>5, <3>1
  <2>2. QED
    BY <1>5, <2>1 DEF WalksOK, WalkOK
<1>8. LeasesBacked' /\ OneRecoveryAtATime'
  BY <1>5, <1>6, <1>7, LeasesKept
<1>9. TypeOK'
  BY <1>2, <1>6, <1>7, SetPoolsType DEF PoolInv, TypeOK
<1>10. QED
  BY <1>7, <1>8, <1>9 DEF PoolInv

LEMMA MarkKeeps ==
  ASSUME PoolInv, NEW w \in Walks, Mark(w)
  PROVE  PoolInv'
<1> DEFINE x == walks[w]
           ps == [pools EXCEPT ![x.pool][x.key] = MarkUsable(pools[x.pool][x.key])]
<1>1. x.key \in Keys /\ x.pool \in Pools /\ pools \in [Pools -> [Keys -> PooledKey]]
  BY DEF PoolInv, TypeOK, WalksOK, WalkOK, OnKey, Mark
<1>2. SetWalk(w, Idle) /\ UNCHANGED <<current, loading, runtime>> /\ SetPools(ps)
  BY DEF Mark
<1>3. ps \in [Pools -> [Keys -> PooledKey]]
  <2>1. MarkUsable(pools[x.pool][x.key]) \in PooledKey
    BY <1>1, EntryTypes
  <2> HIDE DEF x
  <2>2. QED
    BY <1>1, <2>1
<1> HIDE DEF ps
<1>4. pools' \in [Pools -> [Keys -> PooledKey]]
  BY <1>2, <1>3, SetPoolsType
<1>5. Idle \in Walk /\ WalkOK(Idle) /\ Idle.lease = 0
  BY EndedFacts
<1>6. QED
  BY <1>2, <1>4, <1>5, PlainStep

\* The reloader's steps touch no walk and no row.
LEMMA ReloadKeeps ==
  ASSUME PoolInv, NEW r \in Replicas, Install(r) \/ \E p \in Pools : Load(r, p)
  PROVE  PoolInv'
<1>1. runtime' = runtime /\ walks' = walks
  BY DEF Install, Load
<1>2. pools' \in [Pools -> [Keys -> PooledKey]] /\ current' \in [Replicas -> Pools]
         /\ loading' \in [Replicas -> Pools \cup {NoPool}]
  <2>1. CASE Install(r)
    <3>1. SetPools(pools) /\ pools \in [Pools -> [Keys -> PooledKey]]
      BY <2>1 DEF Install, PoolInv, TypeOK
    <3>2. pools' \in [Pools -> [Keys -> PooledKey]]
      BY <3>1, SetPoolsType
    <3>3. current' \in [Replicas -> Pools] /\ loading' \in [Replicas -> Pools \cup {NoPool}]
      BY <2>1 DEF Install, PoolInv, TypeOK
    <3>4. QED
      BY <3>2, <3>3
  <2>2. CASE \E p \in Pools : Load(r, p)
    <3>1. PICK p \in Pools : Load(r, p)
      BY <2>2
    <3>2. [k \in Keys |-> Loaded(runtime[k])] \in [Keys -> PooledKey]
      BY EntryTypes DEF PoolInv, TypeOK
    <3>3. QED
      BY <3>1, <3>2 DEF Load, PoolInv, TypeOK
  <2>3. QED
    BY <2>1, <2>2
<1>3. TypeOK'
  BY <1>1, <1>2 DEF PoolInv, TypeOK
<1>4. WalksOK' /\ LeasesBacked' /\ OneRecoveryAtATime'
  BY <1>1 DEF PoolInv, WalksOK, LeasesBacked, OneRecoveryAtATime
<1>5. QED
  BY <1>3, <1>4 DEF PoolInv

LEMMA RotateKeeps ==
  ASSUME PoolInv, NEW k \in Keys, Rotate(k)
  PROVE  PoolInv'
<1>1. runtime \in [Keys -> Row] /\ walks \in [Walks -> Walk] /\ pools \in [Pools -> [Keys -> PooledKey]]
  BY DEF PoolInv, TypeOK
<1>2. runtime' = [runtime EXCEPT ![k] = NoRow] /\ runtime' \in [Keys -> Row]
  BY <1>1, EntryTypes DEF Rotate
<1>3. ASSUME NEW w \in Walks
      PROVE  walks'[w] \in Walk /\ WalkOK(walks'[w]) /\ walks'[w].lease = walks[w].lease /\ walks'[w].key = walks[w].key
             /\ walks'[w].overtaken = walks[w].overtaken
  <2> DEFINE x == walks[w]
             y == [x EXCEPT !.old = x.old \/ x.key = k]
  <2>1. walks'[w] = y /\ x \in Walk /\ WalkOK(x)
    BY <1>1 DEF Rotate, PoolInv, WalksOK
  <2> HIDE DEF x
  <2>2. /\ y.pc = x.pc /\ y.pool = x.pool /\ y.key = x.key /\ y.sent = x.sent /\ y.refused = x.refused
        /\ y.answer = x.answer /\ y.header = x.header /\ y.lease = x.lease /\ y.overtaken = x.overtaken
    BY <2>1 DEF Walk
  <2>3. y \in Walk
    <3>1. (x.old \/ x.key = k) \in BOOLEAN
      OBVIOUS
    <3>2. QED
      BY <2>1, <3>1 DEF Walk
  <2> HIDE DEF y
  <2>4. QED
    BY <2>1, <2>2, <2>3 DEF WalkOK, x
<1>4. walks' \in [Walks -> Walk] /\ WalksOK'
  <2>1. walks' \in [Walks -> Walk]
    BY <1>3 DEF Rotate
  <2>2. \A w \in Walks : WalkOK(walks'[w])
    BY <1>3
  <2>3. QED
    BY <2>1, <2>2 DEF WalksOK, WalkOK
<1>5. LeasesBacked' /\ OneRecoveryAtATime'
  <2>1. \A w \in Walks : \/ walks[w].lease = 0
                         \/ runtime'[walks[w].key] = runtime[walks[w].key]
                         \/ ~Overtakes(runtime'[walks[w].key], walks[w])
    <3>1. ASSUME NEW w \in Walks
          PROVE  walks[w].lease = 0 \/ walks[w].key \in Keys
      <4>1. WalkOK(walks[w]) /\ walks[w].lease \in Nat
        BY <1>1, LeftsFacts DEF PoolInv, WalksOK, Walk
      <4>2. QED
        BY <4>1 DEF WalkOK, OnKey
    <3>2. QED
      BY <1>1, <1>2, <3>1 DEF NoRow, Retired, Overtakes
  <2>2. QED
    BY <1>2, <1>3, <1>4, <2>1, LeasesKept
<1>6. pools' \in [Pools -> [Keys -> PooledKey]]
  <2> DEFINE ps == [p \in Pools |-> [pools[p] EXCEPT ![k].old = TRUE]]
  <2>1. ps \in [Pools -> [Keys -> PooledKey]]
    <3>1. ASSUME NEW p \in Pools
          PROVE  [pools[p] EXCEPT ![k].old = TRUE] \in [Keys -> PooledKey]
      <4>1. pools[p] \in [Keys -> PooledKey]
        BY <1>1
      <4>2. \A e \in PooledKey : [e EXCEPT !.old = TRUE] \in PooledKey
        BY DEF PooledKey
      <4>3. QED
        BY <4>1, <4>2
    <3>2. QED
      BY <3>1
  <2>2. SetPools(ps)
    BY DEF Rotate
  <2> HIDE DEF ps
  <2>3. QED
    BY <2>1, <2>2, SetPoolsType
<1>7. TypeOK'
  BY <1>2, <1>4, <1>6 DEF Rotate, PoolInv, TypeOK
<1>8. QED
  BY <1>4, <1>5, <1>7 DEF PoolInv

\* Time takes as much from a lease as from the row that keeps it.
LEMMA TickKeeps ==
  ASSUME PoolInv, Tick
  PROVE  PoolInv'
<1>1. runtime \in [Keys -> Row] /\ walks \in [Walks -> Walk] /\ pools \in [Pools -> [Keys -> PooledKey]]
  BY DEF PoolInv, TypeOK
<1>2. ASSUME NEW w \in Walks
      PROVE  /\ walks'[w] \in Walk /\ WalkOK(walks'[w])
             /\ walks'[w].lease = Less(walks[w].lease) /\ walks'[w].key = walks[w].key
             /\ walks'[w].overtaken <=> walks[w].overtaken /\ walks[w].lease > 1
  <2> DEFINE x == walks[w]
             a == IF Writing(x) THEN x.age + 1 ELSE x.age
             o == x.overtaken /\ x.lease > 1
             y == [x EXCEPT !.lease = Less(x.lease), !.overtaken = o, !.age = a]
  <2>1. walks'[w] = y /\ x \in Walk /\ WalkOK(x)
    BY <1>1 DEF Tick, PoolInv, WalksOK
  <2>2. Writing(x) => x.age < RecordTimeout
    BY DEF Tick
  <2> HIDE DEF x
  <2>3. a \in 0..RecordTimeout
    BY <2>1, <2>2, WindowAssumption DEF Walk
  <2>4. Less(x.lease) \in Lefts /\ Less(x.lease) <= x.lease /\ x.lease \in Nat /\ Less(x.lease) \in Nat
    BY <2>1, LessFacts, LeftsFacts DEF Walk
  <2> HIDE DEF a, o
  <2>5. /\ y \in Walk /\ y.overtaken = o /\ y.pc = x.pc /\ y.pool = x.pool /\ y.key = x.key /\ y.sent = x.sent /\ y.refused = x.refused
        /\ y.answer = x.answer /\ y.header = x.header /\ y.lease = Less(x.lease)
    <3>1. o \in BOOLEAN
      BY DEF o
    <3>2. QED
      BY <2>1, <2>3, <2>4, <3>1 DEF Walk
  <2> HIDE DEF y
  <2>6. WalkOK(y)
    <3>1. o => Less(x.lease) > 0
      BY <2>4 DEF o, Less
    <3>2. QED
      BY <2>1, <2>4, <2>5, <3>1, WindowAssumption DEF WalkOK
  <2>7. QED
    BY <2>1, <2>5, <2>6 DEF x, o
<1>3. walks' \in [Walks -> Walk] /\ WalksOK'
  <2>1. walks' \in [Walks -> Walk]
    BY <1>2 DEF Tick
  <2>2. \A w \in Walks : WalkOK(walks'[w])
    BY <1>2
  <2>3. QED
    BY <2>1, <2>2 DEF WalksOK, WalkOK
<1>4. ASSUME NEW k \in Keys
      PROVE  /\ runtime'[k] \in Row /\ runtime'[k].state = runtime[k].state
             /\ runtime'[k].retired = Less(runtime[k].retired)
             /\ runtime'[k].lease = Less(runtime[k].lease)
  <2> DEFINE row == runtime[k]
             a == IF row.age <= RecordTimeout THEN row.age + 1 ELSE row.age
  <2>1. row \in Row /\ runtime'[k] = [row EXCEPT !.retired = Less(row.retired), !.lease = Less(row.lease), !.age = a]
    BY <1>1 DEF Tick
  <2> HIDE DEF row
  <2>2. a \in 0..(RecordTimeout + 1)
    BY <2>1, WindowAssumption DEF Row
  <2>3. Less(row.retired) \in Lefts /\ Less(row.lease) \in Lefts
    BY <2>1, LessFacts DEF Row
  <2> HIDE DEF a
  <2>4. QED
    BY <2>1, <2>2, <2>3 DEF Row, row
<1>5. runtime' \in [Keys -> Row]
  BY <1>4 DEF Tick
<1>6. \A w \in Walks : /\ walks[w].lease \in Nat
                       /\ walks'[w].lease > 0 => walks[w].lease > 0 /\ walks[w].lease > 1
                       /\ walks'[w].lease > 0 => (walks'[w].overtaken <=> walks[w].overtaken)
  <2>1. \A w \in Walks : walks[w].lease \in Nat
    BY <1>1, LeftsFacts DEF Walk
  <2>2. QED
    BY <1>2, <2>1 DEF Less
<1>7. OneRecoveryAtATime'
  BY <1>2, <1>6 DEF PoolInv, OneRecoveryAtATime
<1>8. ASSUME NEW w \in Walks, walks'[w].lease > 0
      PROVE  Backed(walks'[w], runtime'[walks'[w].key])
  <2> DEFINE k == walks[w].key
  <2>1. walks[w].lease > 0 /\ k \in Keys
    BY <1>6, <1>8 DEF PoolInv, WalksOK, WalkOK, OnKey
  <2>2. Backed(walks[w], runtime[k])
    BY DEF PoolInv, LeasesBacked
  <2>3. runtime[k].retired \in Nat /\ runtime[k].lease \in Nat
    BY <1>1, <2>1, LeftsFacts DEF Row
  <2>4. walks'[w].overtaken <=> walks[w].overtaken
    BY <1>6, <1>8
  <2>5. /\ runtime'[k].state = runtime[k].state
        /\ runtime'[k].retired = Less(runtime[k].retired)
        /\ runtime'[k].lease = Less(runtime[k].lease)
    BY <1>4, <2>1
  <2>6. walks'[w].lease = Less(walks[w].lease) /\ walks'[w].key = k /\ walks[w].lease \in Nat
    BY <1>2, <1>6
  <2> HIDE DEF k
  <2>7. QED
    BY <2>1, <2>2, <2>3, <2>4, <2>5, <2>6, LessFacts DEF Backed
<1>9. LeasesBacked'
  BY <1>8 DEF LeasesBacked, Backed
<1>10. pools' \in [Pools -> [Keys -> PooledKey]]
  <2>1. ASSUME NEW e \in PooledKey
        PROVE  [e EXCEPT !.left = Less(e.left)] \in PooledKey
    BY LessFacts DEF PooledKey
  <2>2. pools' = [p \in Pools |-> [k \in Keys |-> [pools[p][k] EXCEPT !.left = Less(pools[p][k].left)]]]
    BY DEF Tick
  <2>3. QED
    BY <1>1, <2>1, <2>2
<1>11. TypeOK'
  BY <1>3, <1>5, <1>10 DEF Tick, PoolInv, TypeOK
<1>12. QED
  BY <1>3, <1>7, <1>9, <1>11 DEF PoolInv

-----------------------------------------------------------------------------
(* The theorems *)

LEMMA PoolInit ==
  ASSUME Init
  PROVE  PoolInv
<1>1. Fresh \in PooledKey /\ NoRow \in Row /\ Idle \in Walk /\ WalkOK(Idle) /\ Idle.lease = 0
  BY EntryTypes, EndedFacts
<1>2. TypeOK
  BY <1>1 DEF Init, TypeOK
<1>3. \A w \in Walks : walks[w] = Idle
  BY DEF Init
<1>4. WalksOK /\ LeasesBacked /\ OneRecoveryAtATime
  BY <1>1, <1>3 DEF WalksOK, LeasesBacked, Backed, OneRecoveryAtATime
<1>5. QED
  BY <1>2, <1>4 DEF PoolInv

\* An exchange ends with a classified answer.
LEMMA AnswersKeep ==
  ASSUME PoolInv, NEW w \in Walks,
         \/ TransportFails(w)
         \/ \E h \in Headers : Accepts(w, h)
         \/ \E f \in Failures, h \in Headers : Refuses(w, f, h)
  PROVE  PoolInv'
<1>1. CASE TransportFails(w)
  BY <1>1, AnsweredKeeps DEF TransportFails, Answer
<1>2. CASE \E h \in Headers : Accepts(w, h)
  BY <1>2, AnsweredKeeps DEF Accepts, Answer
<1>3. CASE \E f \in Failures, h \in Headers : Refuses(w, f, h)
  <2>1. PICK f \in Failures, h \in Headers : Refuses(w, f, h)
    BY <1>3
  <2> DEFINE answer == [kind |-> CredentialVerdictFor(f.code), throttled |-> f.throttled]
  <2>2. CredentialVerdictFor(f.code) \in Verdicts
    BY DEF CredentialVerdictFor, Verdicts
  <2>3. f.throttled \in BOOLEAN
    BY KeyAssumption
  <2>4. answer \in Answer /\ answer.kind # "none"
    BY <2>2, <2>3 DEF Answer, Verdicts
  <2>5. Answered(w, answer, h)
    BY <2>1 DEF Refuses
  <2> HIDE DEF answer
  <2>6. QED
    BY <2>4, <2>5, AnsweredKeeps
<1>4. QED
  BY <1>1, <1>2, <1>3

LEMMA PoolNext ==
  ASSUME PoolInv, [Next]_vars
  PROVE  PoolInv'
<1>1. CASE \E w \in Walks : Step(w)
  <2>1. PICK w \in Walks : Step(w)
    BY <1>1
  <2>2. QED
    BY <2>1, EndsKeep, LeaseKeeps, ClaimKeeps, RecoverKeeps, AnswersKeep, RecordKeeps, MarkKeeps DEF Step
<1>2. CASE \E w \in Walks : \E r \in Replicas, pin \in Pins[w], ceiling \in Ceilings, retry \in BOOLEAN :
             Begin(w, r, pin, ceiling, retry)
  BY <1>2, BeginKeeps
<1>3. CASE \E r \in Replicas, p \in Pools : Load(r, p)
  BY <1>3, ReloadKeeps
<1>4. CASE \E r \in Replicas : Install(r)
  BY <1>4, ReloadKeeps
<1>5. CASE \E k \in Rotatable : Rotate(k)
  BY <1>5, RotateKeeps, KeyAssumption
<1>6. CASE Tick
  BY <1>6, TickKeeps
<1>7. CASE UNCHANGED vars
  BY <1>7 DEF vars, PoolInv, TypeOK, WalksOK, LeasesBacked, OneRecoveryAtATime
<1>8. QED
  BY <1>1, <1>2, <1>3, <1>4, <1>5, <1>6, <1>7 DEF Next

\* Pools, rows and walks stay well formed, and each walk's fields agree with its
\* place in WalkAttempts.
THEOREM PoolsAreWellFormed == Spec => []TypeOK
<1>1. Init => PoolInv
  BY PoolInit
<1>2. PoolInv /\ [Next]_vars => PoolInv'
  BY PoolNext
<1>3. PoolInv => TypeOK
  BY DEF PoolInv
<1>4. QED
  BY <1>1, <1>2, <1>3, PTL DEF Spec

\* However many replicas, requests and generations of a pool there are, and
\* whatever is recorded about a key or rotated meanwhile, two requests hold the
\* key's recovery lease at once only when a verdict recorded since one of them
\* claimed it retired the key for less than was left of that lease
\* (kaana_claim_provider_credential_recovery, which reads the row, and
\* kaana_record_provider_credential_attempt, which drops the lease from it).
THEOREM RecoveryIsExclusive == Spec => []OneRecoveryAtATime
<1>1. Init => PoolInv
  BY PoolInit
<1>2. PoolInv /\ [Next]_vars => PoolInv'
  BY PoolNext
<1>3. PoolInv => OneRecoveryAtATime
  BY DEF PoolInv
<1>4. QED
  BY <1>1, <1>2, <1>3, PTL DEF Spec

\* Nothing stays retired for less than a recovery lease: the configured
\* retirement and every declared reset outlast a lease and the write of a verdict.
LongWindows ==
  /\ Retirement >= LeaseTime + RecordTimeout
  /\ \A h \in Headers : h > 0 => h >= LeaseTime + RecordTimeout

NoneOvertaken == \A w \in Walks : ~walks[w].overtaken

\* Then no verdict that is recorded replaces a lease by a shorter retirement.
LEMMA NoneIsOvertaken ==
  ASSUME LongWindows, PoolInv, NoneOvertaken, [Next]_vars
  PROVE  NoneOvertaken'
<1>1. runtime \in [Keys -> Row] /\ walks \in [Walks -> Walk]
  BY DEF PoolInv, TypeOK
<1>2. CASE \E w \in Walks : Record(w)
  <2>1. PICK w \in Walks : Record(w)
    BY <1>2
  <2> DEFINE x == walks[w]
  <2>2. x \in Walk /\ WalkOK(x) /\ x.pc = "record" /\ x.key \in Keys
    BY <1>1, <2>1 DEF PoolInv, WalksOK, WalkOK, OnKey, Record
  <2>3. ASSUME NEW v \in Walks \ {w}, runtime' # runtime
        PROVE  ~Overtakes(runtime'[x.key], walks[v])
    <3> DEFINE out == RecordedAs(x)
               n == LeftOf(RetiredUntil(x), x.age)
    <3>1. runtime' = [runtime EXCEPT ![x.key] = Recorded(runtime[x.key], x)]
      BY <2>1, <2>3 DEF Record
    <3>2. walks[v].lease \in Nat /\ walks[v].lease <= LeaseTime
      BY <1>1, LeftsFacts DEF PoolInv, WalksOK, WalkOK, Walk
    <3> HIDE DEF x
    <3>3. /\ runtime'[x.key] = Recorded(runtime[x.key], x)
          /\ Recorded(runtime[x.key], x) # runtime[x.key]
      BY <1>1, <2>2, <2>3, <3>1
    <3>4. \/ runtime'[x.key] = [state |-> "usable", retired |-> 0, lease |-> 0, age |-> x.age]
          \/ runtime'[x.key] = [state |-> out, retired |-> n, lease |-> 0, age |-> x.age]
      BY <3>3 DEF Recorded
    <3>5. RetiredUntil(x) \in Nat /\ RetiredUntil(x) >= LeaseTime + RecordTimeout
      <4>1. x.header \in Headers \cup {NoHeader}
        BY <2>2 DEF WalkOK
      <4>2. /\ Retirement \in Nat /\ Retirement >= LeaseTime + RecordTimeout /\ ~(NoHeader > 0)
            /\ \A h \in Headers : h \in Nat \cup {NoHeader} /\ (h > 0 => h >= LeaseTime + RecordTimeout)
        BY KeyAssumption, WindowAssumption DEF LongWindows, NoHeader
      <4>3. Window(x.header) \in Nat /\ Window(x.header) >= LeaseTime + RecordTimeout
        BY <4>1, <4>2 DEF Window, NoHeader
      <4>4. QED
        BY <4>2, <4>3 DEF RetiredUntil
    <3>6. n >= LeaseTime /\ n \in Nat /\ LeaseTime \in Nat
      BY <2>2, <3>5, WindowAssumption DEF Walk, LeftOf
    <3> HIDE DEF n, out
    <3>7. QED
      BY <3>2, <3>4, <3>6 DEF Overtakes, Retired
  <2>4. ~AfterRecord(x).overtaken
    <3>1. AfterRecord(x) \in Walk /\ WalkOK(AfterRecord(x)) /\ AfterRecord(x).lease = 0
      BY <2>2, AfterRecordFacts
    <3>2. QED
      BY <3>1 DEF WalkOK
  <2>5. QED
    BY <1>1, <2>1, <2>3, <2>4 DEF Record, NoneOvertaken
<1>3. ASSUME NEW w \in Walks, NEW y, SetWalk(w, y), ~y.overtaken
      PROVE  NoneOvertaken'
  BY <1>1, <1>3 DEF SetWalk, NoneOvertaken
<1>4. ~Idle.overtaken /\ \A x \in Walk : ~Failed(x).overtaken
  BY DEF Failed, Idle
<1>5. ASSUME NEW w \in Walks, Step(w), ~Record(w)
      PROVE  NoneOvertaken'
  <2> DEFINE x == walks[w]
             a(k) == [x EXCEPT !.tried = @ \cup {k}, !.key = k, !.old = pools[x.pool][k].old]
  <2>1. x \in Walk /\ ~x.overtaken
    BY <1>1 DEF NoneOvertaken
  <2> HIDE DEF x
  <2>2. /\ \A k : ~a(k).overtaken
        /\ \A pc : ~[x EXCEPT !.pc = pc].overtaken
        /\ ~Sent(x).overtaken /\ ~[Sent(x) EXCEPT !.lease = LeaseTime].overtaken
        /\ \A b, h : ~[x EXCEPT !.pc = "record", !.answer = b, !.header = h, !.age = 0].overtaken
    BY <2>1 DEF Walk, Sent
  <2>3. ASSUME NEW k
        PROVE  ~Leased(x, k).overtaken
    <3>1. Leased(x, k) = Sent(a(k)) \/ Leased(x, k) = [a(k) EXCEPT !.pc = "claim"]
      BY DEF Leased
    <3>2. ~Sent(a(k)).overtaken /\ ~[a(k) EXCEPT !.pc = "claim"].overtaken
      BY <2>1 DEF Sent, Walk
    <3>3. QED
      BY <3>1, <3>2
  <2>4. CASE NoneLeft(w) \/ ClaimFails(w)
    BY <2>1, <2>4, <1>3, <1>4 DEF NoneLeft, ClaimFails, x
  <2>5. CASE Lease(w)
    BY <2>3, <2>5, <1>3 DEF Lease, x
  <2>6. CASE Claim(w)
    BY <2>2, <2>6, <1>3 DEF Claim, x
  <2>7. CASE Recover(w)
    BY <2>2, <2>7, <1>3 DEF Recover, x
  <2>8. ASSUME NEW b, NEW h, Answered(w, b, h)
        PROVE  NoneOvertaken'
    BY <2>2, <2>8, <1>3 DEF Answered, x
  <2>9. CASE Mark(w)
    BY <2>9, <1>3, <1>4 DEF Mark
  <2>10. QED
    BY <1>5, <2>4, <2>5, <2>6, <2>7, <2>8, <2>9 DEF Step, TransportFails, Accepts, Refuses
<1>6. CASE \E w \in Walks : \E r \in Replicas, pin \in Pins[w], ceiling \in Ceilings, retry \in BOOLEAN :
             Begin(w, r, pin, ceiling, retry)
  <2>1. PICK w \in Walks : \E r \in Replicas, pin \in Pins[w], ceiling \in Ceilings, retry \in BOOLEAN :
               Begin(w, r, pin, ceiling, retry)
    BY <1>6
  <2>2. PICK r \in Replicas, pin \in Pins[w], ceiling \in Ceilings, retry \in BOOLEAN :
               Begin(w, r, pin, ceiling, retry)
    BY <2>1
  <2> DEFINE y == [Idle EXCEPT !.pc = "next", !.pool = current[r], !.view = View(pin, ceiling),
                               !.transient = IF retry THEN walks[w].transient ELSE {}]
  <2>3. SetWalk(w, y)
    BY <2>2 DEF Begin
  <2>4. ~y.overtaken
    BY DEF Idle
  <2> HIDE DEF y
  <2>5. QED
    BY <2>3, <2>4, <1>3
<1>7. CASE (\E r \in Replicas : Install(r) \/ \E p \in Pools : Load(r, p)) \/ UNCHANGED vars
  BY <1>7 DEF Install, Load, vars, NoneOvertaken
<1>8. CASE \E k \in Rotatable : Rotate(k)
  <2>1. PICK k \in Rotatable : Rotate(k)
    BY <1>8
  <2>2. \A w \in Walks : [walks[w] EXCEPT !.old = walks[w].old \/ walks[w].key = k].overtaken = walks[w].overtaken
    BY <1>1 DEF Walk
  <2>3. QED
    BY <2>1, <2>2 DEF Rotate, NoneOvertaken
<1>9. CASE Tick
  <2>1. ASSUME NEW w \in Walks
        PROVE  ~walks'[w].overtaken
    <3> DEFINE x == walks[w]
               a == IF Writing(x) THEN x.age + 1 ELSE x.age
    <3>1. walks'[w] = [x EXCEPT !.lease = Less(x.lease), !.overtaken = x.overtaken /\ x.lease > 1, !.age = a]
      BY <1>9 DEF Tick
    <3>2. x \in Walk /\ ~x.overtaken
      BY <1>1 DEF NoneOvertaken
    <3> HIDE DEF x, a
    <3>3. QED
      BY <3>1, <3>2 DEF Walk
  <2>2. QED
    BY <2>1 DEF NoneOvertaken
<1>10. QED
  BY <1>2, <1>5, <1>6, <1>7, <1>8, <1>9 DEF Next

\* With such windows the lease is what docs/key-pools.md:326 says: one request at
\* a time holds it, across all replicas.
THEOREM RecoveryIsStrictlyExclusive ==
  ASSUME LongWindows
  PROVE  Spec => []OneLeaseAtATime
<1>1. Init => PoolInv /\ NoneOvertaken
  BY PoolInit DEF Init, NoneOvertaken, Idle
<1>2. PoolInv /\ NoneOvertaken /\ [Next]_vars => (PoolInv /\ NoneOvertaken)'
  BY PoolNext, NoneIsOvertaken
<1>3. PoolInv /\ NoneOvertaken => OneLeaseAtATime
  BY DEF PoolInv, OneRecoveryAtATime, NoneOvertaken, OneLeaseAtATime
<1>4. QED
  BY <1>1, <1>2, <1>3, PTL DEF Spec

\* A walk that would end now answers the refusal of its last exchange, and one
\* no provider has seen has none to answer (WalkAttempts).
THEOREM LastAnswerIsTold == Spec => []ToldTheLastAnswer
<1>1. Init => PoolInv
  BY PoolInit
<1>2. PoolInv /\ [Next]_vars => PoolInv'
  BY PoolNext
<1>3. PoolInv => ToldTheLastAnswer
  BY DEF PoolInv, WalksOK, WalkOK, ToldTheLastAnswer
<1>4. QED
  BY <1>1, <1>2, <1>3, PTL DEF Spec

\* Evidence recorded late never replaces newer evidence
\* (kaana_record_provider_credential_attempt).
THEOREM LateEvidenceLoses == Spec => OlderEvidenceNeverWins
<1> DEFINE Older(k) == \/ runtime'[k].age <= runtime[k].age
                       \/ runtime'[k].state \in {runtime[k].state, "absent"}
<1>1. Init => PoolInv
  BY PoolInit
<1>2. PoolInv /\ [Next]_vars => PoolInv'
  BY PoolNext
<1>3. ASSUME PoolInv, [Next]_vars, NEW k \in Keys
      PROVE  Older(k)
  <2>1. runtime \in [Keys -> Row] /\ walks \in [Walks -> Walk]
    BY <1>3 DEF PoolInv, TypeOK
  <2>2. CASE \E w \in Walks : Claim(w)
    <3>1. runtime'[k].state = runtime[k].state
      BY <2>1, <2>2 DEF Claim, Row
    <3>2. QED
      BY <3>1
  <2>3. CASE \E w \in Walks : Record(w)
    <3>1. PICK w \in Walks : Record(w)
      BY <2>3
    <3> DEFINE x == walks[w]
    <3>2. x \in Walk /\ x.header \in Headers \cup {NoHeader}
      BY <2>1, <1>3 DEF PoolInv, WalksOK, WalkOK
    <3>3. runtime'[k] = runtime[k] \/ (runtime'[k] = Recorded(runtime[k], x) /\ runtime[k] \in Row)
      BY <2>1, <3>1 DEF Record
    <3> HIDE DEF x
    <3>4. runtime'[k] = runtime[k] \/ runtime'[k].age <= runtime[k].age
      BY <3>2, <3>3, RecordedFacts
    <3>5. QED
      BY <3>4
  <2>4. CASE \E j \in Rotatable : Rotate(j)
    <3>1. runtime'[k] = runtime[k] \/ runtime'[k] = NoRow
      BY <2>1, <2>4 DEF Rotate
    <3>2. QED
      BY <3>1 DEF NoRow
  <2>5. CASE Tick
    <3>1. runtime'[k].state = runtime[k].state
      BY <2>1, <2>5 DEF Tick, Row
    <3>2. QED
      BY <3>1
  <2>6. CASE runtime' = runtime
    BY <2>6
  <2> HIDE DEF Older
  <2>7. QED
    BY <1>3, <2>2, <2>3, <2>4, <2>5, <2>6
    DEF Next, Step, vars, NoneLeft, Lease, ClaimFails, Recover, TransportFails, Accepts, Refuses,
        Answered, Mark, Begin, Load, Install
<1>4. PoolInv /\ [Next]_vars => [\A k \in Keys : Older(k)]_vars
  BY <1>3
<1>5. QED
  BY <1>1, <1>2, <1>4, PTL DEF Spec, OlderEvidenceNeverWins
=============================================================================

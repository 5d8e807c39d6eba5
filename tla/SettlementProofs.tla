-------------------------- MODULE SettlementProofs --------------------------
(***************************************************************************)
(* The settlement outbox, for every number of grants and tasks, every      *)
(* lease, timeout and page limit: its reconciliation feed skips nothing    *)
(* (SettlementFeed), and it implements the ledger a customer is promised   *)
(* (Settlement, GrantLedger).                                              *)
(***************************************************************************)
EXTENDS Settlement, SettlementFeed, FiniteSetTheorems, WellFoundedInduction, TLAPS

-----------------------------------------------------------------------------
(* Sets of naturals *)

\* A set of naturals that is not empty has a least element.
LEMMA LeastExists ==
  ASSUME NEW T \in SUBSET Nat, T # {}
  PROVE  \E x \in T : \A y \in T : x <= y
<1> DEFINE R == {ss \in Nat \X Nat : ss[1] < ss[2]}
<1>1. IsWellFoundedOn(R, Nat)
  BY NatLessThanWellFounded, Zenon DEF OpToRel
<1> HIDE DEF R
<1>2. PICK x \in T : \A y \in T : ~ (<<y, x>> \in R)
  BY <1>1, WFMin
<1>3. ASSUME NEW y \in T
      PROVE  x <= y
  <2>1. x \in Nat /\ y \in Nat
    OBVIOUS
  <2>2. ~(<<y, x>> \in R)
    BY <1>2
  <2>3. ~(y < x)
    BY <2>1, <2>2, SMT DEF R
  <2>4. QED
    BY <2>1, <2>3
<1>4. QED
  BY <1>3

\* One that is bounded has a greatest element.
LEMMA GreatestExists ==
  ASSUME NEW T \in SUBSET Nat, T # {}, NEW n \in Nat, \A x \in T : x <= n
  PROVE  \E x \in T : \A y \in T : y <= x
<1> DEFINE U == {m \in Nat : \E x \in T : m = n - x}
<1>1. U \in SUBSET Nat /\ U # {}
  <2>1. PICK x \in T : TRUE
    OBVIOUS
  <2>2. n - x \in U
    OBVIOUS
  <2>3. QED
    BY <2>2
<1>2. PICK u \in U : \A v \in U : u <= v
  <2> HIDE DEF U
  <2>1. QED
    BY <1>1, LeastExists
<1>3. PICK x \in T : u = n - x
  OBVIOUS
<1>4. ASSUME NEW y \in T
      PROVE  y <= x
  <2>1. n - y \in U /\ x \in Nat /\ y \in Nat
    OBVIOUS
  <2>2. u <= n - y
    BY <2>1, <1>2
  <2>3. QED
    BY <2>1, <2>2, <1>3
<1>5. QED
  BY <1>4

-----------------------------------------------------------------------------
(* The reconciliation feed *)

\* The rows whose transaction has drawn a position.
Drawn(g) == entry[g].st \in {"open", "committed"}

\* Positions are drawn within the bound, one each, and in the order of time: a
\* row with an earlier position is at least as old.
PositionsOK ==
  /\ cursor <= MaxSeq
  /\ \A g \in FeedGrants : entry[g].seq <= MaxSeq
  /\ \A g, h \in FeedGrants :
       Drawn(g) /\ Drawn(h) /\ g # h =>
         /\ entry[g].seq # entry[h].seq
         /\ entry[g].seq < entry[h].seq => entry[g].age >= entry[h].age

\* The reader never passes a transaction that is still open: one that can
\* still commit is no older than the write timeout.
NonePassed ==
  \A g \in FeedGrants : entry[g].st = "open" => entry[g].age <= WriteTimeout /\ entry[g].seq > cursor

FeedInv == FeedTypeOK /\ PositionsOK /\ NonePassed /\ FeedSkipsNothing

\* outbox_seq is past the cursor and past every position drawn.
LEMMA SeqIsNew ==
  ASSUME FeedInv
  PROVE  /\ outbox_seq \in Nat /\ outbox_seq > cursor
         /\ \A g \in FeedGrants : entry[g].seq < outbox_seq
<1> DEFINE drawn == {cursor} \cup {entry[g].seq : g \in FeedGrants}
<1>1. drawn \in SUBSET Nat /\ drawn # {} /\ MaxSeq \in Nat /\ \A n \in drawn : n <= MaxSeq
  BY FeedAssumption DEF FeedInv, FeedTypeOK, PositionsOK, Entries
<1>2. \E n \in drawn : \A m \in drawn : m <= n
  <2> HIDE DEF drawn
  <2>1. QED
    BY <1>1, GreatestExists
<1> DEFINE last == CHOOSE n \in drawn : \A m \in drawn : m <= n
<1>3. last \in drawn /\ \A m \in drawn : m <= last
  BY <1>2
<1>4. outbox_seq = 1 + last
  BY DEF outbox_seq
<1>5. /\ cursor \in drawn
      /\ \A g \in FeedGrants : entry[g].seq \in drawn
  OBVIOUS
<1> HIDE DEF last, drawn
<1>6. last \in Nat /\ cursor \in Nat /\ cursor <= last
  BY <1>1, <1>3, <1>5
<1>7. ASSUME NEW g \in FeedGrants
      PROVE  entry[g].seq \in Nat /\ entry[g].seq <= last
  BY <1>1, <1>3, <1>5
<1>8. QED
  BY <1>4, <1>6, <1>7

\* What is known of one row.
LEMMA EntryFields ==
  ASSUME FeedTypeOK, NEW g \in FeedGrants
  PROVE  /\ entry[g] \in Entries
         /\ entry[g] = [st |-> entry[g].st, seq |-> entry[g].seq, age |-> entry[g].age]
         /\ entry[g].st \in {"none", "open", "committed", "abandoned"}
         /\ entry[g].seq \in Nat /\ entry[g].age \in Nat /\ entry[g].age <= Visible + 1
BY FeedAssumption DEF FeedTypeOK, Entries

LEMMA FeedInitInv == FeedInit => FeedInv
<1> SUFFICES ASSUME FeedInit
             PROVE  FeedInv
  OBVIOUS
<1>1. FeedTypeOK
  BY FeedAssumption DEF FeedInit, FeedTypeOK, Entries, Absent
<1>2. \A g \in FeedGrants : entry[g].st = "none" /\ entry[g].seq = 0
  BY DEF FeedInit, Absent
<1>3. cursor = 0 /\ MaxSeq \in Nat
  BY FeedAssumption DEF FeedInit
<1>4. QED
  BY <1>1, <1>2, <1>3 DEF FeedInv, PositionsOK, Drawn, NonePassed, FeedSkipsNothing

\* The transaction of a row that was not there begins: the row has the last
\* position and is the youngest.
LEMMA InsertKeeps ==
  ASSUME FeedInv, NEW g \in FeedGrants, Insert(g)
  PROVE  FeedInv'
<1> DEFINE new == [st |-> "open", seq |-> outbox_seq, age |-> 0]
<1>1. entry' = [entry EXCEPT ![g] = new] /\ outbox_seq <= MaxSeq /\ cursor' = cursor /\ seen' = seen
  BY DEF Insert
<1>2. outbox_seq \in Nat /\ outbox_seq > cursor /\ \A h \in FeedGrants : entry[h].seq < outbox_seq
  BY SeqIsNew
<1>3. new \in Entries
  BY <1>2, FeedAssumption DEF Entries
<1>4. FeedTypeOK'
  BY <1>1, <1>3 DEF FeedInv, FeedTypeOK
<1>5. entry'[g] = new /\ \A h \in FeedGrants : h # g => entry'[h] = entry[h]
  BY <1>1 DEF FeedInv, FeedTypeOK
<1>6. entry'[g].st = "open" /\ entry'[g].seq = outbox_seq /\ entry'[g].age = 0
  BY <1>5
<1> HIDE DEF new
<1>7. \A h \in FeedGrants : entry[h].age \in Nat /\ entry[h].seq \in Nat
  BY EntryFields DEF FeedInv
<1>8. PositionsOK'
  BY <1>1, <1>2, <1>5, <1>6, <1>7 DEF FeedInv, PositionsOK, Drawn
<1>9. NonePassed'
  BY <1>1, <1>2, <1>5, <1>6, FeedAssumption DEF FeedInv, NonePassed
<1>10. FeedSkipsNothing'
  BY <1>1, <1>5, <1>6 DEF FeedInv, FeedSkipsNothing
<1>11. QED
  BY <1>4, <1>8, <1>9, <1>10 DEF FeedInv

\* A transaction that commits is one the reader has not passed.
LEMMA CommitKeeps ==
  ASSUME FeedInv, NEW g \in FeedGrants, Commit(g)
  PROVE  FeedInv'
<1>1. /\ entry[g].st = "open" /\ entry' = [entry EXCEPT ![g] = [entry[g] EXCEPT !.st = "committed"]]
      /\ cursor' = cursor /\ seen' = seen
  BY DEF Commit
<1>2. /\ entry'[g] = [entry[g] EXCEPT !.st = "committed"]
      /\ \A h \in FeedGrants : h # g => entry'[h] = entry[h]
  BY <1>1 DEF FeedInv, FeedTypeOK
<1>3. entry'[g].st = "committed" /\ entry'[g].seq = entry[g].seq /\ entry'[g].age = entry[g].age
      /\ entry'[g] \in Entries
  BY <1>2, EntryFields DEF FeedInv, Entries
<1>4. FeedTypeOK'
  BY <1>1, <1>2, <1>3 DEF FeedInv, FeedTypeOK
<1>5. entry[g].seq > cursor /\ Drawn(g) /\ entry[g].seq \in Nat /\ cursor \in Nat
  BY <1>1, EntryFields DEF FeedInv, NonePassed, Drawn, FeedTypeOK
<1>6. PositionsOK'
  <2>1. \A h \in FeedGrants : /\ Drawn(h)' <=> Drawn(h)
                              /\ entry'[h].seq = entry[h].seq /\ entry'[h].age = entry[h].age
    BY <1>1, <1>2, <1>3, <1>5 DEF Drawn
  <2>2. QED
    BY <1>1, <2>1 DEF FeedInv, PositionsOK
<1>7. NonePassed'
  BY <1>1, <1>2, <1>3 DEF FeedInv, NonePassed
<1>8. FeedSkipsNothing'
  BY <1>1, <1>2, <1>3, <1>5 DEF FeedInv, FeedSkipsNothing
<1>9. QED
  BY <1>4, <1>6, <1>7, <1>8 DEF FeedInv

LEMMA RollbackKeeps ==
  ASSUME FeedInv, NEW g \in FeedGrants, NEW again \in BOOLEAN, Rollback(g, again)
  PROVE  FeedInv'
<1> DEFINE st == IF again THEN "none" ELSE "abandoned"
<1>1. entry' = [entry EXCEPT ![g] = Absent(st)] /\ cursor' = cursor /\ seen' = seen
  BY DEF Rollback
<1>2. st \in {"none", "abandoned"}
  OBVIOUS
<1> HIDE DEF st
<1>3. /\ entry'[g].st = st /\ entry'[g].seq = 0 /\ entry'[g] \in Entries
      /\ \A h \in FeedGrants : h # g => entry'[h] = entry[h]
  BY <1>1, <1>2, FeedAssumption DEF FeedInv, FeedTypeOK, Absent, Entries
<1>4. FeedTypeOK'
  BY <1>1, <1>3 DEF FeedInv, FeedTypeOK
<1>5. PositionsOK'
  BY <1>1, <1>2, <1>3, FeedAssumption DEF FeedInv, PositionsOK, Drawn
<1>6. NonePassed' /\ FeedSkipsNothing'
  BY <1>1, <1>2, <1>3 DEF FeedInv, NonePassed, FeedSkipsNothing
<1>7. QED
  BY <1>4, <1>5, <1>6 DEF FeedInv

\* A page: the cursor moves to the position of a readable row, and every row at
\* an earlier position is older still, so it is committed and on this page or
\* on an earlier one.
LEMMA ReadKeeps ==
  ASSUME FeedInv, ReadSettlements
  PROVE  FeedInv'
<1>1. PICK page \in SUBSET {g \in FeedGrants : Readable(g)} :
        /\ page # {}
        /\ \A g \in FeedGrants : Readable(g) /\ g \notin page => \A h \in page : entry[h].seq < entry[g].seq
        /\ cursor' = CHOOSE n \in {entry[g].seq : g \in page} : \A g \in page : entry[g].seq <= n
        /\ seen' = seen \cup page
        /\ entry' = entry
  BY DEF ReadSettlements
<1>2. \A g \in FeedGrants : entry[g].seq \in Nat /\ entry[g].age \in Nat /\ entry[g].seq <= MaxSeq
  BY EntryFields DEF FeedInv, PositionsOK
<1> DEFINE seqs == {entry[g].seq : g \in page}
<1>3. \E n \in seqs : \A m \in seqs : m <= n
  <2>1. seqs \in SUBSET Nat /\ seqs # {} /\ MaxSeq \in Nat /\ \A n \in seqs : n <= MaxSeq
    BY <1>1, <1>2, FeedAssumption
  <2> HIDE DEF seqs
  <2>2. QED
    BY <2>1, GreatestExists
<1>4. PICK last \in page : cursor' = entry[last].seq /\ \A g \in page : entry[g].seq <= entry[last].seq
  BY <1>1, <1>3
<1>5. /\ last \in FeedGrants /\ Readable(last) /\ entry[last].seq > cursor
      /\ entry[last].st = "committed" /\ entry[last].age > Visible
  BY DEF Readable
<1>6. cursor \in Nat /\ cursor' \in Nat /\ cursor' <= MaxSeq /\ Visible \in Nat /\ WriteTimeout \in Nat
      /\ WriteTimeout <= Visible
  BY <1>2, <1>4, <1>5, FeedAssumption DEF FeedInv, FeedTypeOK
<1>7. ASSUME NEW g \in FeedGrants, Drawn(g), entry[g].seq <= cursor'
      PROVE  entry[g].age > Visible
  BY <1>2, <1>4, <1>5, <1>6, <1>7 DEF FeedInv, PositionsOK, Drawn
<1>8. FeedTypeOK'
  BY <1>1, <1>6 DEF FeedInv, FeedTypeOK
<1>9. PositionsOK'
  BY <1>1, <1>6 DEF FeedInv, PositionsOK, Drawn
<1>10. NonePassed'
  <2> SUFFICES ASSUME NEW g \in FeedGrants, entry[g].st = "open"
               PROVE  entry[g].age <= WriteTimeout /\ entry[g].seq > cursor'
    BY <1>1 DEF NonePassed
  <2>1. entry[g].age <= WriteTimeout /\ Drawn(g)
    BY DEF FeedInv, NonePassed, Drawn
  <2>2. QED
    BY <1>2, <1>6, <1>7, <2>1
<1>11. FeedSkipsNothing'
  <2> SUFFICES ASSUME NEW g \in FeedGrants, entry[g].st = "committed", entry[g].seq <= cursor', g \notin page
               PROVE  g \in seen
    BY <1>1 DEF FeedSkipsNothing
  <2>1. entry[g].age > Visible
    BY <1>7 DEF Drawn
  <2>2. ~Readable(g)
    BY <1>1, <1>2, <1>4, <1>5, <1>6
  <2>3. entry[g].seq <= cursor
    BY <1>2, <1>6, <2>1, <2>2 DEF Readable
  <2>4. QED
    BY <2>3 DEF FeedInv, FeedSkipsNothing
<1>12. QED
  BY <1>8, <1>9, <1>10, <1>11 DEF FeedInv

\* Time: all ages grow together, up to the first one that is readable.
LEMMA FeedTickKeeps ==
  ASSUME FeedInv, FeedTick
  PROVE  FeedInv'
<1> DEFINE Grows(g) == Drawn(g) /\ entry[g].age <= Visible
<1>1. /\ entry' = [g \in FeedGrants |-> IF Grows(g) THEN [entry[g] EXCEPT !.age = @ + 1] ELSE entry[g]]
      /\ cursor' = cursor /\ seen' = seen
      /\ \A g \in FeedGrants : entry[g].st = "open" => entry[g].age < WriteTimeout
  BY DEF FeedTick, Drawn
<1>2. Visible \in Nat /\ WriteTimeout \in Nat /\ WriteTimeout <= Visible
  BY FeedAssumption
<1>3. ASSUME NEW g \in FeedGrants
      PROVE  /\ entry'[g].st = entry[g].st /\ entry'[g].seq = entry[g].seq
             /\ entry'[g].age = IF Grows(g) THEN entry[g].age + 1 ELSE entry[g].age
             /\ entry'[g] \in Entries
  <2>1. entry[g] \in Entries /\ entry[g].age \in Nat
    BY EntryFields DEF FeedInv
  <2>2. CASE Grows(g)
    <3>1. entry'[g] = [entry[g] EXCEPT !.age = entry[g].age + 1]
      BY <1>1, <2>2
    <3>2. QED
      BY <1>2, <2>1, <2>2, <3>1 DEF Entries
  <2>3. CASE ~Grows(g)
    BY <1>1, <2>1, <2>3
  <2>4. QED
    BY <2>2, <2>3
<1>4. \A g \in FeedGrants : entry[g].age \in Nat /\ entry[g].age <= Visible + 1 /\ (Drawn(g)' <=> Drawn(g))
  BY <1>3, EntryFields DEF FeedInv, Drawn
<1>5. FeedTypeOK'
  BY <1>1, <1>3 DEF FeedInv, FeedTypeOK
<1>6. PositionsOK'
  BY <1>1, <1>2, <1>3, <1>4 DEF FeedInv, PositionsOK
<1>7. NonePassed'
  BY <1>1, <1>2, <1>3, <1>4 DEF FeedInv, NonePassed
<1>8. FeedSkipsNothing'
  BY <1>1, <1>3 DEF FeedInv, FeedSkipsNothing
<1>9. QED
  BY <1>5, <1>6, <1>7, <1>8 DEF FeedInv

\* The feed skips nothing (ReadSettlements, RecordSettlement): a settlement at a
\* position the reader has passed was on one of its pages, for every number of
\* concurrent writes, every write timeout no longer than the feed's delay and
\* every page limit.
THEOREM FeedIsComplete == FeedSpec => []FeedSkipsNothing
<1>1. FeedInv /\ [FeedNext]_feedVars => FeedInv'
  <2> SUFFICES ASSUME FeedInv, [FeedNext]_feedVars
               PROVE  FeedInv'
    OBVIOUS
  <2>1. CASE \E g \in FeedGrants : Insert(g) \/ Commit(g) \/ \E again \in BOOLEAN : Rollback(g, again)
    BY <2>1, InsertKeeps, CommitKeeps, RollbackKeeps
  <2>2. CASE ReadSettlements
    BY <2>2, ReadKeeps
  <2>3. CASE FeedTick
    BY <2>3, FeedTickKeeps
  <2>4. CASE UNCHANGED feedVars
    BY <2>4 DEF feedVars, FeedInv, FeedTypeOK, PositionsOK, Drawn, NonePassed, FeedSkipsNothing
  <2>5. QED
    BY <2>1, <2>2, <2>3, <2>4 DEF FeedNext
<1>2. FeedInv => FeedSkipsNothing
  BY DEF FeedInv
<1>3. QED
  BY <1>1, <1>2, FeedInitInv, PTL DEF FeedSpec

-----------------------------------------------------------------------------
(* The outbox and the ledger *)

Posts == {"idle", "sent"} \cup Classes \cup Statuses
RowStages == {"none", "open", "pending", "delivered"}

\* A row has its three fields; how long it waits and how often it was tried do
\* not matter here.
RowShape(r) == r = [st |-> r.st, due |-> r.due, attempts |-> r.attempts] /\ r.st \in RowStages

Shapes ==
  /\ req \in [Grants -> [st : RequestStages, task : Tasks \cup {NoTask}, tries : Nat]]
  /\ row = [g \in Grants |-> row[g]]
  /\ \A g \in Grants : RowShape(row[g])
  /\ worker \in [Tasks -> [batch : Seq(Grants), post : Posts, left : Nat]]
  /\ oxy \in [Grants -> {"held", "settled"}]

\* A transaction is open only while its request settles, a request that has not
\* run has no row, one that was told its settlement is written has one, and Oxy
\* settles from a durable row only, and before the row is marked delivered.
GrantOK(g) ==
  /\ row[g].st = "open" => req[g].st = "settling"
  /\ req[g].st \in {"granted", "executing", "unserved"} => row[g].st = "none"
  /\ req[g].st = "written" => Committed(g)
  /\ oxy[g] = "settled" => Committed(g)
  /\ row[g].st = "delivered" => oxy[g] = "settled"

\* A worker's batch holds durable rows, and an acknowledgement it has not
\* recorded yet is about a grant Oxy has settled.
WorkerOK(t) ==
  /\ \A i \in 1..Len(worker[t].batch) : Committed(worker[t].batch[i])
  /\ worker[t].post # "idle" => worker[t].batch # <<>>
  /\ worker[t].post \in Statuses => oxy[Head(worker[t].batch)] = "settled"

SettleInv ==
  /\ Shapes
  /\ \A g \in Grants : GrantOK(g)
  /\ \A t \in Tasks : WorkerOK(t)

LedgerVar == [g \in Grants |-> LedgerOf(g)]
LedgerStep == Ledger!Next \/ UNCHANGED LedgerVar

\* Nothing that is durable, or settled, is ever lost.
Lasting(g) ==
  /\ Committed(g) => Committed(g)'
  /\ oxy[g] = "settled" => oxy'[g] = "settled"

LEMMA StutterStep ==
  ASSUME \A g \in Grants : LedgerOf(g)' = LedgerOf(g)
  PROVE  LedgerStep
BY DEF LedgerStep, LedgerVar

LEMMA AdvanceStep ==
  ASSUME NEW S \in SUBSET Grants, NEW from, NEW to,
         \A g \in S : LedgerOf(g) = from /\ LedgerOf(g)' = to,
         \A g \in Grants \ S : LedgerOf(g)' = LedgerOf(g)
  PROVE  Ledger!Advance(S, from, to)
BY DEF Ledger!Advance

\* A worker that does not move stays well formed.
LEMMA WorkersRest ==
  ASSUME SettleInv, \A g \in Grants : Lasting(g), NEW t \in Tasks, worker'[t] = worker[t]
  PROVE  WorkerOK(t)'
<1>1. worker[t].batch \in Seq(Grants)
  BY DEF SettleInv, Shapes
<1>2. \A i \in 1..Len(worker[t].batch) : worker[t].batch[i] \in Grants
  BY <1>1
<1>3. worker[t].batch # <<>> => Head(worker[t].batch) \in Grants
  BY <1>1
<1>4. WorkerOK(t)
  BY DEF SettleInv
<1>5. \A i \in 1..Len(worker[t].batch) : Committed(worker[t].batch[i])'
  BY <1>2, <1>4 DEF WorkerOK, Lasting, Committed
<1>6. worker[t].post \in Statuses => oxy'[Head(worker[t].batch)] = "settled"
  BY <1>3, <1>4 DEF WorkerOK, Lasting, Statuses
<1>7. QED
  BY <1>4, <1>5, <1>6 DEF WorkerOK, Committed

\* A step of one request: it runs, or its row becomes durable, or the ledger
\* does not see it.
LEMMA ServingStep ==
  ASSUME SettleInv, NEW g \in Grants, Shapes', worker' = worker, oxy' = oxy,
         \A h \in Grants : h # g => req'[h] = req[h] /\ row'[h] = row[h],
         GrantOK(g)', Committed(g) => Committed(g)',
         \/ LedgerOf(g)' = LedgerOf(g)
         \/ LedgerOf(g) = "held" /\ LedgerOf(g)' = "executed"
         \/ LedgerOf(g) = "executed" /\ LedgerOf(g)' = "durable"
  PROVE  SettleInv' /\ LedgerStep
<1>1. \A h \in Grants : h # g => GrantOK(h)'
  BY DEF SettleInv, GrantOK, Committed
<1>2. \A h \in Grants : Lasting(h)
  BY DEF Lasting, Committed
<1>3. \A t \in Tasks : WorkerOK(t)'
  BY <1>2, WorkersRest
<1>4. \A h \in Grants : h # g => LedgerOf(h)' = LedgerOf(h)
  BY DEF LedgerOf, Committed
<1>5. LedgerStep
  <2>1. CASE LedgerOf(g)' = LedgerOf(g)
    BY <1>4, <2>1, StutterStep
  <2>2. CASE LedgerOf(g) = "held" /\ LedgerOf(g)' = "executed"
    <3>1. Ledger!Advance({g}, "held", "executed")
      BY <1>4, <2>2, AdvanceStep
    <3>2. QED
      BY <3>1 DEF LedgerStep, Ledger!Next, Ledger!Execute
  <2>3. CASE LedgerOf(g) = "executed" /\ LedgerOf(g)' = "durable"
    <3>1. Ledger!Advance({g}, "executed", "durable")
      BY <1>4, <2>3, AdvanceStep
    <3>2. QED
      BY <3>1 DEF LedgerStep, Ledger!Next, Ledger!Write
  <2>4. QED
    BY <2>1, <2>2, <2>3
<1>6. QED
  BY <1>1, <1>3, <1>5 DEF SettleInv

RequestRecord == [st : RequestStages, task : Tasks \cup {NoTask}, tries : Nat]

\* Replacing the request, and the row, of one grant.
LEMMA ReplaceOne ==
  ASSUME Shapes, NEW g \in Grants, NEW q \in RequestRecord, NEW r, RowShape(r),
         req' = [req EXCEPT ![g] = q], row' = [row EXCEPT ![g] = r] \/ (row' = row /\ r = row[g]),
         worker' = worker, oxy' = oxy
  PROVE  /\ Shapes'
         /\ req'[g] = q /\ row'[g] = r
         /\ \A h \in Grants : h # g => req'[h] = req[h] /\ row'[h] = row[h]
<1>1. /\ row'[g] = r /\ \A h \in Grants : h # g => row'[h] = row[h]
      /\ row' = [h \in Grants |-> row'[h]]
  BY DEF Shapes
<1>2. \A h \in Grants : RowShape(row'[h])
  BY <1>1 DEF Shapes
<1>3. /\ req' \in [Grants -> RequestRecord]
      /\ req'[g] = q /\ \A h \in Grants : h # g => req'[h] = req[h]
  BY DEF Shapes, RequestRecord
<1>4. \A h \in Grants : RowShape(row[h])'
  BY <1>2 DEF RowShape
<1>5. QED
  BY <1>1, <1>3, <1>4 DEF Shapes, RequestRecord

LEMMA DoneRecord ==
  ASSUME NEW st \in RequestStages
  PROVE  Done(st) \in RequestRecord /\ Done(st).st = st
BY DEF Done, RequestRecord

LEMMA RequestFields ==
  ASSUME Shapes, NEW g \in Grants
  PROVE  req[g] \in RequestRecord /\ RowShape(row[g]) /\ row[g].st \in RowStages /\ req[g].st \in RequestStages
BY DEF Shapes, RequestRecord, RowShape

\* A failed write: the request goes on settling, or gives up.
LEMMA TryFailedRequest ==
  ASSUME Shapes, NEW g \in Grants, req[g].st = "settling", TryFailed(g)
  PROVE  \E q \in RequestRecord : req' = [req EXCEPT ![g] = q] /\ q.st \in {"settling", "unwritten"}
<1> DEFINE again == [req[g] EXCEPT !.tries = @ + 1]
<1>1. CASE req[g].tries + 1 = Tries
  <2>1. req' = [req EXCEPT ![g] = Done("unwritten")]
    BY <1>1 DEF TryFailed
  <2>2. Done("unwritten") \in RequestRecord /\ Done("unwritten").st = "unwritten"
    BY DoneRecord DEF RequestStages
  <2>3. QED
    BY <2>1, <2>2
<1>2. CASE req[g].tries + 1 # Tries
  <2>1. req' = [req EXCEPT ![g] = again]
    BY <1>2 DEF TryFailed
  <2>2. again \in RequestRecord /\ again.st = "settling"
    BY RequestFields DEF RequestRecord
  <2> HIDE DEF again
  <2>3. QED
    BY <2>1, <2>2
<1>3. QED
  BY <1>1, <1>2

LEMMA ExecuteStep ==
  ASSUME SettleInv, NEW g \in Grants, NEW t \in Tasks, execute(g, t)
  PROVE  SettleInv' /\ LedgerStep
<1> DEFINE q == [req[g] EXCEPT !.st = "executing", !.task = t]
<1>1. req[g].st = "granted" /\ row[g].st = "none" /\ oxy[g] = "held" /\ RowShape(row[g])
  BY RequestFields DEF execute, SettleInv, GrantOK, Shapes, Committed
<1>2. req' = [req EXCEPT ![g] = q] /\ row' = row /\ worker' = worker /\ oxy' = oxy
  BY DEF execute
<1>3. q \in RequestRecord /\ q.st = "executing"
  BY RequestFields DEF SettleInv, RequestRecord, RequestStages
<1> HIDE DEF q
<1>4. Shapes' /\ req'[g] = q /\ \A h \in Grants : h # g => req'[h] = req[h] /\ row'[h] = row[h]
  BY <1>1, <1>2, <1>3, ReplaceOne DEF SettleInv
<1>5. GrantOK(g)' /\ LedgerOf(g) = "held" /\ LedgerOf(g)' = "executed" /\ ~Committed(g)
  BY <1>1, <1>2, <1>3, <1>4 DEF GrantOK, LedgerOf, Committed
<1>6. QED
  BY <1>2, <1>4, <1>5, ServingStep

LEMMA ReleaseStep ==
  ASSUME SettleInv, NEW g \in Grants, releaseUnserved(g)
  PROVE  SettleInv' /\ LedgerStep
<1> DEFINE q == Done("unserved")
<1>1. req[g].st = "granted" /\ row[g].st = "none" /\ oxy[g] = "held" /\ RowShape(row[g])
  BY RequestFields DEF releaseUnserved, SettleInv, GrantOK, Shapes, Committed
<1>2. req' = [req EXCEPT ![g] = q] /\ row' = row /\ worker' = worker /\ oxy' = oxy
  BY DEF releaseUnserved
<1>3. q \in RequestRecord /\ q.st = "unserved"
  BY DoneRecord DEF RequestStages
<1> HIDE DEF q
<1>4. Shapes' /\ req'[g] = q /\ \A h \in Grants : h # g => req'[h] = req[h] /\ row'[h] = row[h]
  BY <1>1, <1>2, <1>3, ReplaceOne DEF SettleInv
<1>5. GrantOK(g)' /\ LedgerOf(g)' = LedgerOf(g) /\ ~Committed(g)
  BY <1>1, <1>2, <1>3, <1>4 DEF GrantOK, LedgerOf, Committed
<1>6. QED
  BY <1>2, <1>4, <1>5, ServingStep

LEMMA SettleStep ==
  ASSUME SettleInv, NEW g \in Grants, NEW valid \in BOOLEAN, settle(g, valid)
  PROVE  SettleInv' /\ LedgerStep
<1> DEFINE q == IF valid THEN [req[g] EXCEPT !.st = "settling"] ELSE Done("unwritten")
<1>1. req[g].st = "executing" /\ row[g].st = "none" /\ oxy[g] = "held" /\ RowShape(row[g])
  BY RequestFields DEF settle, SettleInv, GrantOK, Shapes, Committed
<1>2. req' = [req EXCEPT ![g] = q] /\ row' = row /\ worker' = worker /\ oxy' = oxy
  BY DEF settle
<1>3. q \in RequestRecord /\ q.st \in {"settling", "unwritten"}
  <2>1. Done("unwritten") \in RequestRecord /\ Done("unwritten").st = "unwritten"
    BY DoneRecord DEF RequestStages
  <2>2. [req[g] EXCEPT !.st = "settling"] \in RequestRecord /\ [req[g] EXCEPT !.st = "settling"].st = "settling"
    BY RequestFields DEF SettleInv, RequestRecord, RequestStages
  <2>3. QED
    BY <2>1, <2>2
<1> HIDE DEF q
<1>4. Shapes' /\ req'[g] = q /\ \A h \in Grants : h # g => req'[h] = req[h] /\ row'[h] = row[h]
  BY <1>1, <1>2, <1>3, ReplaceOne DEF SettleInv
<1>5. GrantOK(g)' /\ LedgerOf(g)' = LedgerOf(g) /\ ~Committed(g)
  BY <1>1, <1>2, <1>3, <1>4 DEF GrantOK, LedgerOf, Committed
<1>6. QED
  BY <1>2, <1>4, <1>5, ServingStep

LEMMA EnqueueStep ==
  ASSUME SettleInv, NEW g \in Grants, enqueue(g)
  PROVE  SettleInv' /\ LedgerStep
<1> DEFINE r == [row[g] EXCEPT !.st = "open"]
<1>1. req[g].st = "settling" /\ row[g].st = "none" /\ oxy[g] = "held" /\ RowShape(row[g]) /\ req[g] \in RequestRecord
  BY RequestFields DEF enqueue, SettleInv, GrantOK, Shapes, Committed
<1>2. req' = req /\ row' = [row EXCEPT ![g] = r] /\ worker' = worker /\ oxy' = oxy
  BY DEF enqueue
<1>3. RowShape(r) /\ r.st = "open"
  BY <1>1 DEF RowShape, RowStages
<1> HIDE DEF r
<1>4. req' = [req EXCEPT ![g] = req[g]]
  BY <1>2 DEF SettleInv, Shapes
<1>5. Shapes' /\ req'[g] = req[g] /\ row'[g] = r /\ \A h \in Grants : h # g => req'[h] = req[h] /\ row'[h] = row[h]
  <2>1. Shapes /\ RowShape(r) /\ req[g] \in RequestRecord
    BY <1>1, <1>3 DEF SettleInv
  <2>2. QED
    BY <1>2, <1>4, <2>1, ReplaceOne
<1>6. GrantOK(g)' /\ LedgerOf(g)' = LedgerOf(g) /\ ~Committed(g)
  BY <1>1, <1>2, <1>3, <1>5 DEF GrantOK, LedgerOf, Committed
<1>7. QED
  BY <1>2, <1>5, <1>6, ServingStep

LEMMA CommitStep ==
  ASSUME SettleInv, NEW g \in Grants, NEW heard \in BOOLEAN, commit(g, heard)
  PROVE  SettleInv' /\ LedgerStep
<1> DEFINE r == [row[g] EXCEPT !.st = "pending"]
<1>1. req[g].st = "settling" /\ row[g].st = "open" /\ oxy[g] = "held" /\ RowShape(row[g])
  BY RequestFields DEF commit, SettleInv, GrantOK, Shapes, Committed
<1>2. row' = [row EXCEPT ![g] = r] /\ worker' = worker /\ oxy' = oxy
  BY DEF commit
<1>3. RowShape(r) /\ r.st = "pending"
  BY <1>1 DEF RowShape, RowStages
<1> HIDE DEF r
<1>4. PICK q \in RequestRecord : req' = [req EXCEPT ![g] = q] /\ q.st \in {"settling", "unwritten", "written"}
  <2>1. CASE heard
    <3>1. req' = [req EXCEPT ![g] = Done("written")]
      BY <2>1 DEF commit
    <3>2. Done("written") \in RequestRecord /\ Done("written").st = "written"
      BY DoneRecord DEF RequestStages
    <3>3. QED
      BY <3>1, <3>2
  <2>2. CASE ~heard
    <3>1. TryFailed(g)
      BY <2>2 DEF commit
    <3>2. QED
      BY <1>1, <3>1, TryFailedRequest DEF SettleInv
  <2>3. QED
    BY <2>1, <2>2
<1>5. Shapes' /\ req'[g] = q /\ row'[g] = r /\ \A h \in Grants : h # g => req'[h] = req[h] /\ row'[h] = row[h]
  BY <1>1, <1>2, <1>3, <1>4, ReplaceOne DEF SettleInv
<1>6. GrantOK(g)' /\ LedgerOf(g) = "executed" /\ LedgerOf(g)' = "durable" /\ Committed(g)'
  BY <1>1, <1>2, <1>3, <1>4, <1>5 DEF GrantOK, LedgerOf, Committed
<1>7. QED
  BY <1>2, <1>5, <1>6, ServingStep

LEMMA RecordFailedStep ==
  ASSUME SettleInv, NEW g \in Grants, recordFailed(g)
  PROVE  SettleInv' /\ LedgerStep
<1> DEFINE r == IF Committed(g) THEN row[g] ELSE NoRow
<1>1. req[g].st = "settling" /\ RowShape(row[g]) /\ TryFailed(g) /\ worker' = worker /\ oxy' = oxy
      /\ oxy[g] \in {"held", "settled"} /\ row[g].st \in RowStages /\ GrantOK(g)
  BY RequestFields DEF recordFailed, SettleInv, Shapes
<1>2. row' = [row EXCEPT ![g] = r] \/ (row' = row /\ r = row[g])
  BY DEF recordFailed
<1>3. RowShape(r) /\ (Committed(g) => r = row[g]) /\ (~Committed(g) => r.st = "none")
  BY <1>1 DEF RowShape, RowStages, NoRow
<1> HIDE DEF r
<1>4. PICK q \in RequestRecord : req' = [req EXCEPT ![g] = q] /\ q.st \in {"settling", "unwritten"}
  BY <1>1, TryFailedRequest DEF SettleInv
<1>5. Shapes' /\ req'[g] = q /\ row'[g] = r /\ \A h \in Grants : h # g => req'[h] = req[h] /\ row'[h] = row[h]
  BY <1>1, <1>2, <1>3, <1>4, ReplaceOne DEF SettleInv
<1>6. GrantOK(g)' /\ LedgerOf(g)' = LedgerOf(g) /\ (Committed(g) => Committed(g)')
  BY <1>1, <1>3, <1>4, <1>5 DEF GrantOK, LedgerOf, Committed
<1>7. QED
  BY <1>1, <1>5, <1>6, ServingStep

LEMMA ReplayedStep ==
  ASSUME SettleInv, NEW g \in Grants, replayed(g)
  PROVE  SettleInv' /\ LedgerStep
<1> DEFINE q == Done("written")
<1>1. req[g].st = "settling" /\ Committed(g) /\ GrantOK(g) /\ RowShape(row[g])
  BY RequestFields DEF replayed, SettleInv
<1>2. req' = [req EXCEPT ![g] = q] /\ row' = row /\ worker' = worker /\ oxy' = oxy
  BY DEF replayed
<1>3. q \in RequestRecord /\ q.st = "written"
  BY DoneRecord DEF RequestStages
<1> HIDE DEF q
<1>4. Shapes' /\ req'[g] = q /\ \A h \in Grants : h # g => req'[h] = req[h] /\ row'[h] = row[h]
  BY <1>1, <1>2, <1>3, ReplaceOne DEF SettleInv
<1>5. GrantOK(g)' /\ LedgerOf(g)' = LedgerOf(g) /\ Committed(g)'
  BY <1>1, <1>2, <1>3, <1>4 DEF GrantOK, LedgerOf, Committed
<1>6. QED
  BY <1>2, <1>4, <1>5, ServingStep

LEMMA WriteDeadlineStep ==
  ASSUME SettleInv, NEW g \in Grants, writeDeadline(g)
  PROVE  SettleInv' /\ LedgerStep
<1> DEFINE q == Done("unwritten")
<1>1. req[g].st = "settling" /\ GrantOK(g) /\ RowShape(row[g]) /\ row[g].st \in RowStages
      /\ oxy[g] \in {"held", "settled"}
  BY RequestFields DEF writeDeadline, SettleInv, Shapes
<1>2. req' = [req EXCEPT ![g] = q] /\ worker' = worker /\ oxy' = oxy
  BY DEF writeDeadline
<1>3. q \in RequestRecord /\ q.st = "unwritten"
  BY DoneRecord DEF RequestStages
<1> HIDE DEF q
<1>4. PICK r : /\ RowShape(r) /\ (row' = [row EXCEPT ![g] = r] \/ (row' = row /\ r = row[g]))
               /\ IF row[g].st = "open" THEN r.st \in {"none", "pending"} ELSE r = row[g]
  <2>1. CASE row[g].st = "open"
    <3>1. PICK r \in {NoRow, [row[g] EXCEPT !.st = "pending"]} : row' = [row EXCEPT ![g] = r]
      BY <2>1 DEF writeDeadline
    <3>2. RowShape(r) /\ r.st \in {"none", "pending"}
      BY <1>1 DEF RowShape, RowStages, NoRow
    <3>3. QED
      BY <2>1, <3>1, <3>2
  <2>2. CASE row[g].st # "open"
    BY <1>1, <2>2 DEF writeDeadline
  <2>3. QED
    BY <2>1, <2>2
<1>5. Shapes' /\ req'[g] = q /\ row'[g] = r /\ \A h \in Grants : h # g => req'[h] = req[h] /\ row'[h] = row[h]
  <2>1. Shapes /\ RowShape(r) /\ q \in RequestRecord /\ worker' = worker /\ oxy' = oxy
        /\ req' = [req EXCEPT ![g] = q] /\ (row' = [row EXCEPT ![g] = r] \/ (row' = row /\ r = row[g]))
    BY <1>2, <1>3, <1>4 DEF SettleInv
  <2>2. QED
    BY <2>1, ReplaceOne
<1>6. /\ GrantOK(g)' /\ (Committed(g) => Committed(g)')
      /\ LedgerOf(g)' = LedgerOf(g) \/ (LedgerOf(g) = "executed" /\ LedgerOf(g)' = "durable")
  BY <1>1, <1>2, <1>3, <1>4, <1>5 DEF GrantOK, LedgerOf, Committed
<1>7. QED
  BY <1>2, <1>5, <1>6, ServingStep

WorkerRecord == [batch : Seq(Grants), post : Posts, left : Nat]

\* What a worker may become.
WorkerWell(w) ==
  /\ w \in WorkerRecord
  /\ \A i \in 1..Len(w.batch) : Committed(w.batch[i])
  /\ w.post # "idle" => w.batch # <<>>

LEMMA WorkerFields ==
  ASSUME SettleInv, NEW t \in Tasks
  PROVE  /\ WorkerWell(worker[t]) /\ worker[t] \in WorkerRecord /\ worker[t].batch \in Seq(Grants)
         /\ worker[t].post # "idle" => /\ worker[t].batch # <<>> /\ Head(worker[t].batch) \in Grants
                                       /\ Committed(Head(worker[t].batch))
<1>1. worker[t] \in WorkerRecord /\ WorkerOK(t)
  BY DEF SettleInv, Shapes, WorkerRecord
<1>2. worker[t].batch \in Seq(Grants)
  BY <1>1 DEF WorkerRecord
<1> DEFINE b == worker[t].batch
<1>3. ASSUME b # <<>>
      PROVE  Head(b) \in Grants /\ Head(b) = b[1] /\ 1 \in 1..Len(b)
  <2> HIDE DEF b
  <2>1. b \in Seq(Grants)
    BY <1>2 DEF b
  <2>2. QED
    BY <1>3, <2>1
<1>4. QED
  BY <1>1, <1>2, <1>3 DEF WorkerWell, WorkerOK

LEMMA IdleWell == WorkerWell(IdleWorker) /\ IdleWorker.post = "idle"
<1>1. <<>> \in Seq(Grants) /\ Len(<<>>) = 0
  OBVIOUS
<1>2. IdleWorker \in WorkerRecord /\ IdleWorker.batch = <<>> /\ IdleWorker.post = "idle"
  BY <1>1 DEF IdleWorker, WorkerRecord, Posts
<1>3. QED
  BY <1>1, <1>2 DEF WorkerWell

\* deliver, with what is left of a batch of durable rows.
LEMMA PostingWell ==
  ASSUME NEW b \in Seq(Grants), \A i \in 1..Len(b) : Committed(b[i])
  PROVE  WorkerWell(Posting(b)) /\ Posting(b).post \in {"idle", "sent"}
<1>1. CASE b = <<>>
  BY <1>1, IdleWell DEF Posting
<1>2. CASE b # <<>>
  <2> DEFINE w == [batch |-> b, post |-> "sent", left |-> PostTimeout]
  <2>1. Posting(b) = w
    BY <1>2 DEF Posting
  <2>2. w \in WorkerRecord /\ w.batch = b /\ w.post = "sent"
    BY SettlementAssumption DEF WorkerRecord, Posts
  <2> HIDE DEF w
  <2>3. QED
    BY <1>2, <2>1, <2>2 DEF WorkerWell
<1>3. QED
  BY <1>1, <1>2

LEMMA TailWell ==
  ASSUME SettleInv, NEW t \in Tasks, worker[t].post # "idle"
  PROVE  WorkerWell(Posting(Tail(worker[t].batch))) /\ Posting(Tail(worker[t].batch)).post \in {"idle", "sent"}
<1> DEFINE b == worker[t].batch
           c == Tail(b)
<1>1. b \in Seq(Grants) /\ b # <<>> /\ \A i \in 1..Len(b) : Committed(b[i])
  BY WorkerFields DEF WorkerWell
<1> HIDE DEF b
<1>2. c \in Seq(Grants) /\ \A i \in 1..Len(c) : c[i] = b[i + 1] /\ i + 1 \in 1..Len(b)
  BY <1>1
<1> HIDE DEF c
<1>3. \A i \in 1..Len(c) : Committed(c[i])
  BY <1>1, <1>2
<1>4. WorkerWell(Posting(c)) /\ Posting(c).post \in {"idle", "sent"}
  BY <1>2, <1>3, PostingWell
<1>5. QED
  BY <1>4 DEF b, c

\* One worker moves, and holds no acknowledgement afterwards.
LEMMA WorkersMove ==
  ASSUME SettleInv, \A g \in Grants : Lasting(g), NEW t \in Tasks, NEW w, WorkerWell(w),
         worker' = [worker EXCEPT ![t] = w],
         w.post \in Statuses => oxy'[Head(w.batch)] = "settled"
  PROVE  /\ worker' \in [Tasks -> WorkerRecord]
         /\ \A u \in Tasks : WorkerOK(u)'
<1>1. worker' \in [Tasks -> WorkerRecord] /\ worker'[t] = w /\ \A u \in Tasks : u # t => worker'[u] = worker[u]
  BY DEF SettleInv, Shapes, WorkerWell, WorkerRecord
<1>2. \A i \in 1..Len(w.batch) : w.batch[i] \in Grants
  BY DEF WorkerWell, WorkerRecord
<1>3. \A i \in 1..Len(w.batch) : Committed(w.batch[i])'
  BY <1>2 DEF WorkerWell, Lasting, Committed
<1>4. WorkerOK(t)'
  BY <1>1, <1>3 DEF WorkerOK, WorkerWell, Committed
<1>5. QED
  BY <1>1, <1>4, WorkersRest

\* A step that leaves the requests, Oxy and the stages of the rows alone.
LEMMA QuietStep ==
  ASSUME SettleInv, req' = req, oxy' = oxy,
         row' = [g \in Grants |-> row'[g]], \A g \in Grants : RowShape(row'[g]) /\ row'[g].st = row[g].st,
         worker' \in [Tasks -> WorkerRecord], \A t \in Tasks : WorkerOK(t)'
  PROVE  SettleInv' /\ LedgerStep
<1>1. \A g \in Grants : Committed(g)' <=> Committed(g)
  BY DEF Committed
<1>2. \A g \in Grants : GrantOK(g)'
  BY <1>1 DEF SettleInv, GrantOK
<1>3. \A g \in Grants : LedgerOf(g)' = LedgerOf(g)
  BY <1>1 DEF LedgerOf
<1>4. LedgerStep
  BY <1>3, StutterStep
<1>5. \A g \in Grants : RowShape(row[g])'
  BY DEF RowShape
<1>6. Shapes'
  BY <1>5 DEF SettleInv, Shapes, WorkerRecord
<1>7. QED
  BY <1>2, <1>4, <1>6 DEF SettleInv

\* Oxy settles a durable grant, or had settled it before.
LEMMA OxyStep ==
  ASSUME SettleInv, NEW g \in Grants, Committed(g), req' = req, row' = row,
         oxy' = [oxy EXCEPT ![g] = "settled"],
         worker' \in [Tasks -> WorkerRecord], \A t \in Tasks : WorkerOK(t)'
  PROVE  SettleInv' /\ LedgerStep
<1>1. oxy' \in [Grants -> {"held", "settled"}] /\ oxy'[g] = "settled" /\ \A h \in Grants : h # g => oxy'[h] = oxy[h]
  BY DEF SettleInv, Shapes
<1>2. oxy[g] \in {"held", "settled"} /\ row[g].st \in {"pending", "delivered"}
  BY DEF SettleInv, Shapes, Committed
<1>3. \A h \in Grants : GrantOK(h)'
  BY <1>1, <1>2 DEF SettleInv, GrantOK, Committed
<1>4. \A h \in Grants : RowShape(row[h])'
  BY DEF SettleInv, Shapes, RowShape
<1>5. Shapes'
  BY <1>1, <1>4 DEF SettleInv, Shapes, WorkerRecord
<1>6. \A h \in Grants : h # g => LedgerOf(h)' = LedgerOf(h)
  BY <1>1 DEF LedgerOf, Committed
<1>7. \/ LedgerOf(g)' = LedgerOf(g)
      \/ LedgerOf(g) = "durable" /\ LedgerOf(g)' = "settled"
  BY <1>1, <1>2 DEF LedgerOf, Committed
<1>8. LedgerStep
  <2>1. CASE LedgerOf(g)' = LedgerOf(g)
    BY <1>6, <2>1, StutterStep
  <2>2. CASE LedgerOf(g) = "durable" /\ LedgerOf(g)' = "settled"
    <3>1. Ledger!Advance({g}, "durable", "settled")
      BY <1>6, <2>2, AdvanceStep
    <3>2. QED
      BY <3>1 DEF LedgerStep, Ledger!Next, Ledger!Settle
  <2>3. QED
    BY <1>7, <2>1, <2>2
<1>9. QED
  BY <1>3, <1>5, <1>8 DEF SettleInv

LEMMA ClaimStep ==
  ASSUME SettleInv, NEW t \in Tasks, ClaimSettlements(t)
  PROVE  SettleInv' /\ LedgerStep
<1>1. PICK S \in SUBSET Due :
        /\ \E s \in Orders(S) : worker' = [worker EXCEPT ![t] = Posting(s)]
        /\ row' = [g \in Grants |-> IF g \in S
                                    THEN [row[g] EXCEPT !.due = Lease,
                                             !.attempts = IF @ < MaxAttempts THEN @ + 1 ELSE @]
                                    ELSE row[g]]
        /\ req' = req /\ oxy' = oxy
  BY DEF ClaimSettlements
<1>2. PICK s \in Orders(S) : worker' = [worker EXCEPT ![t] = Posting(s)]
  BY <1>1
<1>3. S \subseteq Grants /\ IsFiniteSet(S) /\ \A g \in S : Committed(g)
  <2>1. S \subseteq Grants /\ \A g \in S : Committed(g)
    BY DEF Due, Committed
  <2>2. QED
    BY <2>1, SettlementAssumption, FS_Subset
<1>4. Cardinality(S) \in Nat
  BY <1>3, FS_CardinalityType
<1>5. s \in Seq(Grants) /\ Len(s) = Cardinality(S) /\ \A i \in 1..Len(s) : s[i] \in S
  <2> DEFINE n == Cardinality(S)
  <2>1. s \in [1..n -> S] /\ n \in Nat
    BY <1>4 DEF Orders
  <2> HIDE DEF n
  <2>2. s \in Seq(S) /\ Len(s) = n /\ \A i \in 1..n : s[i] \in S
    BY <2>1
  <2>3. QED
    BY <1>3, <2>2 DEF n
<1>6. WorkerWell(Posting(s)) /\ Posting(s).post \in {"idle", "sent"}
  BY <1>3, <1>5, PostingWell
<1>7. ASSUME NEW g \in Grants
      PROVE  RowShape(row'[g]) /\ row'[g].st = row[g].st
  <2>1. RowShape(row[g])
    BY DEF SettleInv, Shapes
  <2>2. CASE g \in S
    <3>1. row'[g] = [row[g] EXCEPT !.due = Lease, !.attempts = IF @ < MaxAttempts THEN @ + 1 ELSE @]
      BY <1>1, <2>2
    <3>2. QED
      BY <2>1, <3>1 DEF RowShape
  <2>3. CASE g \notin S
    BY <1>1, <2>1, <2>3
  <2>4. QED
    BY <2>2, <2>3
<1>8. \A g \in Grants : Lasting(g)
  BY <1>1, <1>7 DEF Lasting, Committed
<1>9. worker' \in [Tasks -> WorkerRecord] /\ \A u \in Tasks : WorkerOK(u)'
  BY <1>2, <1>6, <1>8, WorkersMove DEF Statuses
<1>10. row' = [g \in Grants |-> row'[g]]
  BY <1>1
<1>11. QED
  BY <1>1, <1>7, <1>9, <1>10, QuietStep

LEMMA SentIsDurable ==
  ASSUME SettleInv, NEW t \in Tasks, worker[t].post = "sent"
  PROVE  Head(worker[t].batch) \in Grants /\ Committed(Head(worker[t].batch))
BY WorkerFields

LEMMA AcknowledgedStep ==
  ASSUME SettleInv, NEW t \in Tasks, acknowledged(t)
  PROVE  SettleInv' /\ LedgerStep
<1> DEFINE g == Head(worker[t].batch)
           post == IF oxy[g] = "held" THEN "settled" ELSE "duplicate"
           w == [worker[t] EXCEPT !.post = post, !.left = 0]
<1>1. worker[t].post = "sent" /\ g \in Grants /\ Committed(g) /\ WorkerWell(worker[t])
  BY SentIsDurable, WorkerFields DEF acknowledged
<1>2. /\ worker' = [worker EXCEPT ![t] = w] /\ oxy' = [oxy EXCEPT ![g] = "settled"]
      /\ req' = req /\ row' = row
  BY DEF acknowledged
<1>3. post \in Statuses
  BY DEF Statuses
<1> HIDE DEF post
<1>4. w \in WorkerRecord /\ w.batch = worker[t].batch /\ w.post = post
  BY <1>1, <1>3 DEF WorkerWell, WorkerRecord, Posts
<1>5. WorkerWell(w)
  BY <1>1, <1>4 DEF WorkerWell
<1>6. \A h \in Grants : Lasting(h)
  BY <1>1, <1>2 DEF SettleInv, Shapes, Lasting, Committed
<1>7. oxy'[g] = "settled" /\ Head(w.batch) = g
  BY <1>1, <1>2, <1>4 DEF SettleInv, Shapes
<1> HIDE DEF w, g
<1>8. worker' \in [Tasks -> WorkerRecord] /\ \A u \in Tasks : WorkerOK(u)'
  BY <1>2, <1>5, <1>6, <1>7, WorkersMove
<1>9. QED
  BY <1>1, <1>2, <1>8, OxyStep

LEMMA FailedStep ==
  ASSUME SettleInv, NEW t \in Tasks, NEW class \in Classes, failed(t, class)
  PROVE  SettleInv' /\ LedgerStep
<1> DEFINE g == Head(worker[t].batch)
           w == [worker[t] EXCEPT !.post = class, !.left = 0]
<1>1. worker[t].post = "sent" /\ g \in Grants /\ Committed(g) /\ WorkerWell(worker[t])
  BY SentIsDurable, WorkerFields DEF failed
<1>2. /\ worker' = [worker EXCEPT ![t] = w] /\ req' = req /\ row' = row
      /\ oxy' = [oxy EXCEPT ![g] = "settled"] \/ oxy' = oxy
  BY DEF failed
<1>3. w \in WorkerRecord /\ w.batch = worker[t].batch /\ w.post = class
  BY <1>1 DEF WorkerWell, WorkerRecord, Posts
<1>4. WorkerWell(w)
  BY <1>1, <1>3 DEF WorkerWell
<1>5. \A h \in Grants : Lasting(h)
  BY <1>1, <1>2 DEF SettleInv, Shapes, Lasting, Committed
<1>6. w.post \notin Statuses
  BY <1>3 DEF Classes, Statuses
<1> HIDE DEF w, g
<1>7. worker' \in [Tasks -> WorkerRecord] /\ \A u \in Tasks : WorkerOK(u)'
  BY <1>2, <1>4, <1>5, <1>6, WorkersMove
<1>8. row' = [h \in Grants |-> row'[h]] /\ \A h \in Grants : RowShape(row'[h]) /\ row'[h].st = row[h].st
  BY <1>2 DEF SettleInv, Shapes
<1>9. QED
  BY <1>1, <1>2, <1>7, <1>8, OxyStep, QuietStep

\* A durable row of a grant Oxy has settled is marked delivered.
LEMMA DeliveredStep ==
  ASSUME SettleInv, NEW g \in Grants, Committed(g), oxy[g] = "settled",
         NEW t \in Tasks, NEW w, WorkerWell(w), w.post \notin Statuses,
         worker' = [worker EXCEPT ![t] = w], req' = req, oxy' = oxy,
         row' = [row EXCEPT ![g] = Marked(row[g])]
  PROVE  SettleInv' /\ LedgerStep
<1>1. RowShape(row[g]) /\ row[g].st \in {"pending", "delivered"} /\ GrantOK(g)
  BY DEF SettleInv, Shapes, Committed
<1>2. RowShape(Marked(row[g])) /\ Marked(row[g]).st = "delivered"
  BY <1>1 DEF Marked, RowShape, RowStages
<1>3. /\ row' = [h \in Grants |-> row'[h]] /\ RowShape(row'[g]) /\ row'[g].st = "delivered"
      /\ \A h \in Grants : h # g => row'[h] = row[h]
  BY <1>2 DEF SettleInv, Shapes
<1>4. \A h \in Grants : Lasting(h)
  BY <1>3 DEF Lasting, Committed
<1>5. worker' \in [Tasks -> WorkerRecord] /\ \A u \in Tasks : WorkerOK(u)'
  BY <1>4, WorkersMove
<1>6. \A h \in Grants : RowShape(row'[h])
  BY <1>3 DEF SettleInv, Shapes
<1>7. \A h \in Grants : RowShape(row[h])'
  BY <1>6 DEF RowShape
<1>8. Shapes'
  BY <1>3, <1>5, <1>7 DEF SettleInv, Shapes, WorkerRecord
<1>9. \A h \in Grants : GrantOK(h)'
  BY <1>1, <1>3 DEF SettleInv, GrantOK, Committed
<1>10. \A h \in Grants : h # g => LedgerOf(h)' = LedgerOf(h)
  BY <1>3 DEF LedgerOf, Committed
<1>11. LedgerOf(g)' = "closed" /\ LedgerOf(g) \in {"settled", "closed"}
  BY <1>1, <1>3 DEF LedgerOf
<1>12. LedgerStep
  <2>1. CASE LedgerOf(g) = "closed"
    BY <1>10, <1>11, <2>1, StutterStep
  <2>2. CASE LedgerOf(g) = "settled"
    <3>1. Ledger!Advance({g}, "settled", "closed")
      BY <1>10, <1>11, <2>2, AdvanceStep
    <3>2. QED
      BY <3>1 DEF LedgerStep, Ledger!Next, Ledger!Close
  <2>3. QED
    BY <1>11, <2>1, <2>2
<1>13. QED
  BY <1>5, <1>8, <1>9, <1>12 DEF SettleInv

LEMMA MarkStep ==
  ASSUME SettleInv, NEW t \in Tasks, NEW stored \in BOOLEAN, MarkSettlementDelivered(t, stored)
  PROVE  SettleInv' /\ LedgerStep
<1> DEFINE g == Head(worker[t].batch)
           w == Posting(Tail(worker[t].batch))
<1>1. worker[t].post \in Statuses /\ worker[t].post # "idle"
  BY DEF MarkSettlementDelivered, Statuses
<1>2. g \in Grants /\ Committed(g) /\ oxy[g] = "settled"
  BY <1>1, WorkerFields DEF SettleInv, WorkerOK
<1>3. WorkerWell(w) /\ w.post \notin Statuses
  BY <1>1, TailWell DEF Statuses
<1>4. /\ worker' = [worker EXCEPT ![t] = w] /\ req' = req /\ oxy' = oxy
      /\ row' = IF stored THEN [row EXCEPT ![g] = Marked(row[g])] ELSE row
  BY DEF MarkSettlementDelivered
<1> HIDE DEF w, g
<1>5. CASE ~stored
  <2>1. \A h \in Grants : Lasting(h)
    BY <1>4, <1>5 DEF Lasting, Committed
  <2>2. worker' \in [Tasks -> WorkerRecord] /\ \A u \in Tasks : WorkerOK(u)'
    BY <1>3, <1>4, <2>1, WorkersMove
  <2>3. row' = [h \in Grants |-> row'[h]] /\ \A h \in Grants : RowShape(row'[h]) /\ row'[h].st = row[h].st
    BY <1>4, <1>5 DEF SettleInv, Shapes
  <2>4. QED
    BY <1>4, <2>2, <2>3, QuietStep
<1>6. CASE stored
  BY <1>2, <1>3, <1>4, <1>6, DeliveredStep
<1>7. QED
  BY <1>5, <1>6

LEMMA DeferStep ==
  ASSUME SettleInv, NEW t \in Tasks, NEW stored \in BOOLEAN, DeferSettlement(t, stored)
  PROVE  SettleInv' /\ LedgerStep
<1> DEFINE g == Head(worker[t].batch)
           w == Posting(Tail(worker[t].batch))
           r == Deferred(row[g], worker[t].post)
<1>1. worker[t].post # "idle"
  BY DEF DeferSettlement, Classes
<1>2. g \in Grants /\ RowShape(row[g])
  BY <1>1, WorkerFields DEF SettleInv, Shapes
<1>3. WorkerWell(w) /\ w.post \notin Statuses
  BY <1>1, TailWell DEF Statuses
<1>4. /\ worker' = [worker EXCEPT ![t] = w] /\ req' = req /\ oxy' = oxy
      /\ row' = IF stored THEN [row EXCEPT ![g] = r] ELSE row
  BY DEF DeferSettlement
<1>5. RowShape(r) /\ r.st = row[g].st
  BY <1>2 DEF Deferred, RowShape
<1> HIDE DEF w, g, r
<1>6. row' = [h \in Grants |-> row'[h]] /\ \A h \in Grants : RowShape(row'[h]) /\ row'[h].st = row[h].st
  BY <1>2, <1>4, <1>5 DEF SettleInv, Shapes
<1>7. \A h \in Grants : Lasting(h)
  BY <1>4, <1>6 DEF Lasting, Committed
<1>8. worker' \in [Tasks -> WorkerRecord] /\ \A u \in Tasks : WorkerOK(u)'
  BY <1>3, <1>4, <1>7, WorkersMove
<1>9. QED
  BY <1>4, <1>6, <1>8, QuietStep

LEMMA DrainStep ==
  ASSUME SettleInv, NEW t \in Tasks, drain(t)
  PROVE  SettleInv' /\ LedgerStep
<1> DEFINE g == Head(worker[t].batch)
<1>1. /\ worker' = [worker EXCEPT ![t] = IdleWorker] /\ req' = req /\ row' = row
      /\ (worker[t].post = "sent" /\ oxy' = [oxy EXCEPT ![g] = "settled"]) \/ oxy' = oxy
  BY DEF drain
<1>2. worker[t].post = "sent" => g \in Grants /\ Committed(g)
  BY SentIsDurable
<1> HIDE DEF g
<1>3. \A h \in Grants : Lasting(h)
  BY <1>1, <1>2 DEF SettleInv, Shapes, Lasting, Committed
<1>4. worker' \in [Tasks -> WorkerRecord] /\ \A u \in Tasks : WorkerOK(u)'
  BY <1>1, <1>3, IdleWell, WorkersMove DEF Statuses
<1>5. row' = [h \in Grants |-> row'[h]] /\ \A h \in Grants : RowShape(row'[h]) /\ row'[h].st = row[h].st
  BY <1>1 DEF SettleInv, Shapes
<1>6. QED
  BY <1>1, <1>2, <1>4, <1>5, OxyStep, QuietStep

\* Nothing the invariant or the ledger is about changes.
LEMMA SameStep ==
  ASSUME SettleInv, UNCHANGED <<req, row, worker, oxy>>
  PROVE  SettleInv' /\ LedgerStep
<1>1. \A g \in Grants : Lasting(g)
  BY DEF Lasting, Committed
<1>2. \A t \in Tasks : WorkerOK(t)'
  BY <1>1, WorkersRest
<1>3. /\ row' = [h \in Grants |-> row'[h]] /\ \A h \in Grants : RowShape(row'[h]) /\ row'[h].st = row[h].st
      /\ worker' \in [Tasks -> WorkerRecord]
  BY DEF SettleInv, Shapes, WorkerRecord
<1>4. QED
  BY <1>2, <1>3, QuietStep

\* A task dies: the writes of several grants are decided at once.
LEMMA CrashStep ==
  ASSUME SettleInv, NEW t \in Tasks, crash(t)
  PROVE  SettleInv' /\ LedgerStep
<1> DEFINE run == Running(t)
<1>1. PICK kept \in SUBSET {g \in run : row[g].st = "open"} :
        row' = [g \in Grants |-> IF g \in kept THEN [row[g] EXCEPT !.st = "pending"]
                                 ELSE IF g \in run /\ row[g].st = "open" THEN NoRow ELSE row[g]]
  BY DEF crash
<1>2. /\ req' = [g \in Grants |-> IF g \in run THEN Done("unwritten") ELSE req[g]]
      /\ worker' = [worker EXCEPT ![t] = IdleWorker] /\ oxy' = oxy
  BY DEF crash
<1>3. run \subseteq Grants /\ \A g \in run : req[g].st \in {"executing", "settling"}
  BY DEF Running
<1> HIDE DEF run
<1>4. kept \in SUBSET Grants /\ \A g \in kept : g \in run /\ row[g].st = "open"
  BY <1>3
<1>5. ASSUME NEW g \in Grants
      PROVE  /\ req'[g] \in RequestRecord /\ RowShape(row'[g])
             /\ IF g \in run THEN req'[g].st = "unwritten" ELSE req'[g] = req[g]
             /\ row'[g].st = IF g \in kept THEN "pending"
                             ELSE IF g \in run /\ row[g].st = "open" THEN "none" ELSE row[g].st
  <2>1. req[g] \in RequestRecord /\ RowShape(row[g])
    BY RequestFields DEF SettleInv
  <2>2. Done("unwritten") \in RequestRecord /\ Done("unwritten").st = "unwritten"
    BY DoneRecord DEF RequestStages
  <2>3. /\ RowShape([row[g] EXCEPT !.st = "pending"]) /\ [row[g] EXCEPT !.st = "pending"].st = "pending"
        /\ RowShape(NoRow) /\ NoRow.st = "none"
    BY <2>1 DEF RowShape, RowStages, NoRow
  <2>4. /\ req'[g] \in RequestRecord
        /\ IF g \in run THEN req'[g].st = "unwritten" ELSE req'[g] = req[g]
    BY <1>2, <2>1, <2>2
  <2>5. row'[g] = IF g \in kept THEN [row[g] EXCEPT !.st = "pending"]
                  ELSE IF g \in run /\ row[g].st = "open" THEN NoRow ELSE row[g]
    BY <1>1
  <2>6. QED
    BY <2>1, <2>3, <2>4, <2>5
<1>6. \A g \in Grants : Lasting(g)
  BY <1>2, <1>4, <1>5 DEF Lasting, Committed
<1>7. worker' \in [Tasks -> WorkerRecord] /\ \A u \in Tasks : WorkerOK(u)'
  BY <1>2, <1>6, IdleWell, WorkersMove DEF Statuses
<1>8. \A g \in Grants : RowShape(row[g])'
  BY <1>5 DEF RowShape
<1>9. Shapes'
  <2>1. req' \in [Grants -> RequestRecord] /\ row' = [g \in Grants |-> row'[g]]
    BY <1>1, <1>2, <1>5
  <2>2. QED
    BY <1>2, <1>7, <1>8, <2>1 DEF SettleInv, Shapes, RequestRecord, WorkerRecord
<1>10. ASSUME NEW g \in Grants
       PROVE  /\ GrantOK(g)'
              /\ g \in kept => LedgerOf(g) = "executed" /\ LedgerOf(g)' = "durable"
              /\ g \notin kept => LedgerOf(g)' = LedgerOf(g)
  <2>1. GrantOK(g) /\ row[g].st \in RowStages /\ oxy[g] \in {"held", "settled"}
    BY RequestFields DEF SettleInv, Shapes
  <2>2. QED
    BY <1>2, <1>3, <1>4, <1>5, <2>1 DEF GrantOK, LedgerOf, Committed, RowStages
<1>11. Ledger!Advance(kept, "executed", "durable")
  BY <1>4, <1>10, AdvanceStep
<1>12. LedgerStep
  BY <1>4, <1>11 DEF LedgerStep, Ledger!Next, Ledger!Write
<1>13. QED
  BY <1>7, <1>9, <1>10, <1>12 DEF SettleInv

LEMMA TickStep ==
  ASSUME SettleInv, Tick
  PROVE  SettleInv' /\ LedgerStep
<1>1. /\ row' = [g \in Grants |-> [row[g] EXCEPT !.due = Less(@)]]
      /\ worker' = [t \in Tasks |-> [worker[t] EXCEPT !.left = Less(@)]]
      /\ req' = req /\ oxy' = oxy
  BY DEF Tick
<1>2. ASSUME NEW g \in Grants
      PROVE  RowShape(row'[g]) /\ row'[g].st = row[g].st
  <2>1. RowShape(row[g]) /\ row'[g] = [row[g] EXCEPT !.due = Less(row[g].due)]
    BY <1>1 DEF SettleInv, Shapes
  <2>2. QED
    BY <2>1 DEF RowShape
<1>3. ASSUME NEW t \in Tasks
      PROVE  worker'[t] \in WorkerRecord /\ worker'[t].batch = worker[t].batch /\ worker'[t].post = worker[t].post
  <2>1. worker[t] \in WorkerRecord /\ worker'[t] = [worker[t] EXCEPT !.left = Less(worker[t].left)]
    BY <1>1 DEF SettleInv, Shapes, WorkerRecord
  <2>2. worker[t].left \in Nat
    BY <2>1 DEF WorkerRecord
  <2>3. Less(worker[t].left) \in Nat
    BY <2>2 DEF Less
  <2>4. QED
    BY <2>1, <2>3 DEF WorkerRecord
<1>4. \A t \in Tasks : WorkerOK(t)'
  <2> SUFFICES ASSUME NEW t \in Tasks
               PROVE  WorkerOK(t)'
    OBVIOUS
  <2>1. WorkerOK(t) /\ worker[t].batch \in Seq(Grants)
    BY WorkerFields DEF SettleInv
  <2>2. \A i \in 1..Len(worker[t].batch) : worker[t].batch[i] \in Grants
    BY <2>1
  <2>3. \A i \in 1..Len(worker[t].batch) : Committed(worker[t].batch[i])'
    BY <1>1, <1>2, <2>1, <2>2, <1>3 DEF WorkerOK, Committed
  <2>4. QED
    BY <1>1, <1>3, <2>1, <2>3 DEF WorkerOK, Committed
<1>5. worker' \in [Tasks -> WorkerRecord] /\ row' = [g \in Grants |-> row'[g]]
  BY <1>1, <1>3
<1>6. QED
  BY <1>1, <1>2, <1>4, <1>5, QuietStep

LEMMA SettleInitInv == Init => SettleInv /\ Ledger!Init
<1> SUFFICES ASSUME Init
             PROVE  SettleInv /\ Ledger!Init
  OBVIOUS
<1>1. Done("granted") \in RequestRecord /\ Done("granted").st = "granted"
  BY DoneRecord DEF RequestStages
<1>2. RowShape(NoRow) /\ NoRow.st = "none"
  BY DEF RowShape, RowStages, NoRow
<1>3. WorkerWell(IdleWorker) /\ IdleWorker.post = "idle"
  BY IdleWell
<1>4. /\ req \in [Grants -> RequestRecord] /\ row = [g \in Grants |-> row[g]]
      /\ oxy \in [Grants -> {"held", "settled"}] /\ worker \in [Tasks -> WorkerRecord]
  BY <1>1, <1>3 DEF Init, WorkerWell
<1>5. \A g \in Grants : req[g].st = "granted" /\ row[g] = NoRow /\ row[g].st = "none" /\ oxy[g] = "held"
  BY <1>1, <1>2 DEF Init
<1>6. Shapes
  BY <1>2, <1>4, <1>5 DEF Shapes, RequestRecord, WorkerRecord
<1>7. \A g \in Grants : GrantOK(g) /\ LedgerOf(g) = "held"
  BY <1>5 DEF GrantOK, LedgerOf, Committed
<1>8. \A t \in Tasks : WorkerOK(t)
  BY <1>3 DEF Init, WorkerOK, WorkerWell, Statuses
<1>9. QED
  BY <1>6, <1>7, <1>8 DEF SettleInv, Ledger!Init

LEMMA SettleNextInv == SettleInv /\ [Next]_vars => SettleInv' /\ LedgerStep
<1> SUFFICES ASSUME SettleInv, [Next]_vars
             PROVE  SettleInv' /\ LedgerStep
  OBVIOUS
<1>1. ASSUME NEW g \in Grants,
             \/ \E t \in Tasks : execute(g, t)
             \/ releaseUnserved(g)
             \/ \E valid \in BOOLEAN : settle(g, valid)
             \/ enqueue(g)
             \/ \E heard \in BOOLEAN : commit(g, heard)
             \/ recordFailed(g)
             \/ replayed(g)
             \/ writeDeadline(g)
      PROVE  SettleInv' /\ LedgerStep
  BY <1>1, ExecuteStep, ReleaseStep, SettleStep, EnqueueStep, CommitStep, RecordFailedStep, ReplayedStep,
     WriteDeadlineStep
<1>2. ASSUME NEW t \in Tasks,
             \/ ClaimSettlements(t)
             \/ acknowledged(t)
             \/ \E class \in Classes : failed(t, class)
             \/ \E stored \in BOOLEAN : MarkSettlementDelivered(t, stored) \/ DeferSettlement(t, stored)
             \/ drain(t)
             \/ crash(t)
      PROVE  SettleInv' /\ LedgerStep
  BY <1>2, ClaimStep, AcknowledgedStep, FailedStep, MarkStep, DeferStep, DrainStep, CrashStep
<1>3. ASSUME NEW t \in Tasks, exit(t)
      PROVE  SettleInv' /\ LedgerStep
  BY <1>3, SameStep DEF exit
<1>4. CASE Tick
  BY <1>4, TickStep
<1>5. CASE UNCHANGED vars
  BY <1>5, SameStep DEF vars
<1>6. QED
  BY <1>1, <1>2, <1>3, <1>4, <1>5 DEF Next

\* The outbox implements the ledger (settle.go, settlement.go, pipeline.go): for
\* every number of grants and tasks and however crashes, drains, lost answers
\* and failed writes fall, a grant runs at most once, becomes durable at most
\* once and only after it ran, and is settled at most once and only from its
\* durable row; it is closed only when Oxy has settled it.
THEOREM OutboxImplementsLedger == Spec => LedgerRefinement
<1>1. SettleInv /\ [Next]_vars => [Ledger!Next]_LedgerVar
  BY SettleNextInv DEF LedgerStep
<1>2. SettleInv /\ [Next]_vars => SettleInv'
  BY SettleNextInv
<1>3. Init => SettleInv /\ Ledger!Init
  BY SettleInitInv
<1>4. QED
  BY <1>1, <1>2, <1>3, PTL DEF Spec, LedgerRefinement, Ledger!Spec, LedgerVar

=============================================================================

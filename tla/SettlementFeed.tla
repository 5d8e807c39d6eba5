--------------------------- MODULE SettlementFeed ---------------------------
(***************************************************************************)
(* The reconciliation feed of the settlement outbox: ReadSettlements of    *)
(* internal/credentialstore/settlement.go, served by                       *)
(* ReconciliationHandler of internal/publicapi/settle.go, beside the       *)
(* transactions of RecordSettlement that fill it.  A row draws its         *)
(* position (outbox_seq) and its created_at at INSERT, and becomes         *)
(* readable when its transaction commits, so positions become readable in  *)
(* any order; a reader that passed one never returns to it.                *)
(***************************************************************************)
EXTENDS Naturals, FiniteSets

CONSTANTS
    FeedGrants,    \* the grants whose settlements are written
    WriteTimeout,  \* settlementWriteTimeout: no transaction outlives it
    Visible,       \* the feed carries rows older than this
    PageLimit,     \* rows one page may carry
    MaxSeq         \* bound: the positions drawn

ASSUME FeedAssumption ==
    /\ {WriteTimeout, Visible, MaxSeq} \subseteq Nat /\ PageLimit \in Nat \ {0}
    /\ WriteTimeout <= Visible

VARIABLES
    entry,   \* each grant's outbox row
    cursor,  \* the last position a page carried
    seen     \* the grants the pages carried

(* `age' is the time since created_at, up to the first step it is readable. *)
Entries == [st : {"none", "open", "committed", "abandoned"}, seq : Nat, age : 0..(Visible + 1)]

Absent(st) == [st |-> st, seq |-> 0, age |-> 0]

FeedInit ==
    /\ entry = [g \in FeedGrants |-> Absent("none")]
    /\ cursor = 0
    /\ seen = {}

(* The identity column: past every position drawn so far.  A position that *)
(* was rolled back is drawn again here: only their order is told apart.    *)
outbox_seq ==
    LET drawn == {cursor} \cup {entry[g].seq : g \in FeedGrants}
    IN 1 + CHOOSE n \in drawn : \A m \in drawn : m <= n

(* RecordSettlement begins its transaction and inserts the row. *)
Insert(g) ==
    /\ entry[g].st = "none" /\ outbox_seq <= MaxSeq
    /\ entry' = [entry EXCEPT ![g] = [st |-> "open", seq |-> outbox_seq, age |-> 0]]
    /\ UNCHANGED <<cursor, seen>>

(* The transaction commits. *)
Commit(g) ==
    /\ entry[g].st = "open"
    /\ entry' = [entry EXCEPT ![g].st = "committed"]
    /\ UNCHANGED <<cursor, seen>>

(* It is rolled back, and Settle retries it or gives up. *)
Rollback(g, again) ==
    /\ entry[g].st = "open"
    /\ entry' = [entry EXCEPT ![g] = Absent(IF again THEN "none" ELSE "abandoned")]
    /\ UNCHANGED <<cursor, seen>>

(* Mutant: a row is readable as soon as it is committed. *)
ReadableAtOnce(g) == entry[g].st = "committed" /\ entry[g].seq > cursor

Readable(g) == entry[g].st = "committed" /\ entry[g].seq > cursor /\ entry[g].age > Visible

(* One page: the readable rows past the cursor, lowest positions first, up *)
(* to the limit; nextCursor is the position of the last of them.           *)
ReadSettlements ==
    \E page \in SUBSET {g \in FeedGrants : Readable(g)} :
        /\ page # {} /\ Cardinality(page) <= PageLimit
        /\ \A g \in FeedGrants : Readable(g) /\ g \notin page =>
              Cardinality(page) = PageLimit /\ \A h \in page : entry[h].seq < entry[g].seq
        /\ cursor' = CHOOSE n \in {entry[g].seq : g \in page} : \A g \in page : entry[g].seq <= n
        /\ seen' = seen \cup page
        /\ UNCHANGED entry

(* Time passes, and no transaction outlives the write timeout. *)
FeedTick ==
    /\ \A g \in FeedGrants : entry[g].st = "open" => entry[g].age < WriteTimeout
    /\ \E g \in FeedGrants : entry[g].st \in {"open", "committed"} /\ entry[g].age <= Visible
    /\ entry' = [g \in FeedGrants |-> IF entry[g].st \in {"open", "committed"} /\ entry[g].age <= Visible
                                  THEN [entry[g] EXCEPT !.age = @ + 1] ELSE entry[g]]
    /\ UNCHANGED <<cursor, seen>>

FeedNext ==
    \/ \E g \in FeedGrants : Insert(g) \/ Commit(g) \/ \E again \in BOOLEAN : Rollback(g, again)
    \/ ReadSettlements
    \/ FeedTick

feedVars == <<entry, cursor, seen>>

FeedSpec == FeedInit /\ [][FeedNext]_feedVars

(* Every variable keeps its type. *)
FeedTypeOK ==
    /\ entry \in [FeedGrants -> Entries]
    /\ cursor \in Nat
    /\ seen \subseteq FeedGrants

(* The feed skips nothing: a settlement that is in the outbox at a         *)
(* position the reader has passed was on one of its pages, though          *)
(* positions are drawn at INSERT and commits land in any order.            *)
FeedSkipsNothing ==
    \A g \in FeedGrants : entry[g].st = "committed" /\ entry[g].seq <= cursor => g \in seen
=============================================================================

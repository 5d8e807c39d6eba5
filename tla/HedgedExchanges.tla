--------------------------- MODULE HedgedExchanges ---------------------------
(***************************************************************************)
(* provider/openaicompat/hedge.go: an embedding of a pinned model, raced   *)
(* across its upstreams.                                                   *)
(*                                                                         *)
(* An exchange is its upstream, its age in hedge bounds and its result.    *)
(* Scores are in hundredths of a bound, rounded down.  Races follow one    *)
(* another on the scores the earlier ones left behind.                     *)
(***************************************************************************)
EXTENDS Integers, Sequences, FiniteSets, SequencesExt

CONSTANTS
  Pinned,      \* the upstreams in their reviewed order
  Limit,       \* embeddingHedgeExchanges
  MaxRaces,    \* bound: races one after another
  MaxAge,      \* bound: hedge bounds an exchange is followed for
  Unmeasured   \* the score of an upstream nothing has measured

ASSUME HedgeAssumption ==
  /\ Limit \in Nat \ {0} /\ MaxRaces \in Nat /\ MaxAge \in Nat
  /\ Pinned # <<>> /\ Pinned \in Seq(ToSet(Pinned))
  /\ \A j, k \in DOMAIN Pinned : Pinned[j] = Pinned[k] => j = k

VARIABLES race, scores

-----------------------------------------------------------------------------
(* upstreamLatency *)

upstreamFailurePenalty == Limit * 100

record(s, upstream, sample) ==
  [s EXCEPT ![upstream] = IF @ = Unmeasured THEN sample ELSE @ + (3 * (sample - @)) \div 10]

observe(s, upstream, took) == record(s, upstream, took * 100)
fail(s, upstream) == record(s, upstream, upstreamFailurePenalty)

\* order: fastest first, an unmeasured upstream at zero, ties as reviewed.
order(s) ==
  LET score(k) == IF s[Pinned[k]] = Unmeasured THEN 0 ELSE s[Pinned[k]]
      Ahead(k) == {j \in DOMAIN Pinned : score(j) < score(k) \/ (score(j) = score(k) /\ j < k)}
  IN  [i \in DOMAIN Pinned |-> Pinned[CHOOSE k \in DOMAIN Pinned : Cardinality(Ahead(k)) = i - 1]]

-----------------------------------------------------------------------------
(* Send *)

Exchange(upstream) == [upstream |-> upstream, age |-> 0, result |-> "pending"]

\* start: the next upstream of the plan, and the timer from the beginning.
start(r) ==
  [r EXCEPT !.exchanges = Append(@, Exchange(r.plan[(Len(@) % Len(r.plan)) + 1])), !.due = FALSE]

HedgeInit ==
  /\ scores = [u \in ToSet(Pinned) |-> Unmeasured]
  /\ race = [run |-> 0, stage |-> "idle", plan |-> <<>>, exchanges |-> <<>>, due |-> FALSE, launching |-> FALSE,
             answer |-> "none", abandoned |-> 0, live |-> TRUE]

Race ==
  /\ race.stage # "racing" /\ race.run < MaxRaces
  /\ race' = start([run |-> race.run + 1, stage |-> "racing", plan |-> order(scores), exchanges |-> <<>>, due |-> FALSE,
                    launching |-> TRUE, answer |-> "none", abandoned |-> 0, live |-> TRUE])
  /\ UNCHANGED scores

Pending(r) == {i \in DOMAIN r.exchanges : r.exchanges[i].result = "pending"}

aged(r) ==
  [i \in DOMAIN r.exchanges |->
     IF i \in Pending(r) THEN [r.exchanges[i] EXCEPT !.age = @ + 1] ELSE r.exchanges[i]]

\* A hedge bound passes.
Passes ==
  /\ race.stage = "racing" /\ \A i \in Pending(race) : race.exchanges[i].age < MaxAge
  /\ race' = [race EXCEPT !.due = TRUE, !.exchanges = aged(race)]
  /\ UNCHANGED scores

Fires ==
  /\ race.stage = "racing" /\ race.due /\ race.launching /\ Len(race.exchanges) < Limit
  /\ race' = start(race)
  /\ UNCHANGED scores

\* Mutant of settled: the first failure is returned.
settledAtOnce(r) == [r EXCEPT !.stage = "failed"]

\* A failure is the answer once no exchange is left.
settled(r) == IF Pending(r) = {} THEN [r EXCEPT !.stage = "failed"] ELSE r

\* What a success teaches: how long its own upstream took, and that those which
\* had waited longer are at least that slow.
measured(r, i) ==
  LET took == r.exchanges[i].age
      known[k \in 0..Len(r.exchanges)] ==
        IF k = 0 THEN observe(scores, r.exchanges[i].upstream, took)
        ELSE IF k \in Pending(r) /\ r.exchanges[k].age > took
             THEN observe(known[k - 1], r.exchanges[k].upstream, r.exchanges[k].age)
             ELSE known[k - 1]
  IN  known[Len(r.exchanges)]

\* A whole 2xx body: the others are abandoned.
Wins(i) ==
  /\ race.stage = "racing" /\ i \in Pending(race)
  /\ race' = [race EXCEPT !.stage = "won", !.answer = "success", !.exchanges[i].result = "success",
                          !.abandoned = Cardinality(Pending(race)) - 1]
  /\ scores' = measured(race, i)

\* No answer, a throttle or a fault: another exchange takes its place.
FailsTransiently(i) ==
  /\ race.stage = "racing" /\ i \in Pending(race)
  /\ LET failed == [race EXCEPT !.exchanges[i].result = "transient", !.answer = "transient"]
     IN  IF ~race.live
         THEN race' = settled([failed EXCEPT !.launching = FALSE]) /\ UNCHANGED scores
         ELSE /\ race' = IF Len(race.exchanges) < Limit THEN start(failed) ELSE settled(failed)
              /\ scores' = fail(scores, race.exchanges[i].upstream)

\* The request or the credential is refused, as every upstream would.
IsRefused(i) ==
  /\ race.stage = "racing" /\ i \in Pending(race)
  /\ race' = settled([race EXCEPT !.exchanges[i].result = "refused", !.answer = "refused", !.launching = FALSE])
  /\ UNCHANGED scores

\* The caller withdraws: every exchange's context with it.
Abandons ==
  /\ race.stage = "racing" /\ race.live
  /\ race' = [race EXCEPT !.live = FALSE]
  /\ UNCHANGED scores

HedgeNext ==
  \/ Race \/ Passes \/ Fires \/ Abandons
  \/ \E i \in 1..Limit : Wins(i) \/ FailsTransiently(i) \/ IsRefused(i)

HedgeSpec == HedgeInit /\ [][HedgeNext]_<<race, scores>>

-----------------------------------------------------------------------------
\* A race answers with a failure only when every exchange it launched has
\* failed, so no answer still on its way is thrown away for one; it answers
\* with a success at once and counts exactly the exchanges it cut off, which
\* the attempt is then costed for.  It launches at most Limit exchanges, and
\* tries every upstream before it tries one again.
RaceIsDecided ==
  LET launched == DOMAIN race.exchanges
      Results  == {race.exchanges[i].result : i \in launched}
  IN  /\ race.stage = "failed" => Results \subseteq {"transient", "refused"} /\ race.abandoned = 0
      /\ race.stage = "won" => /\ "success" \in Results
                               /\ race.abandoned = Cardinality(Pending(race))
      /\ race.stage = "racing" => Pending(race) # {}
      /\ Len(race.exchanges) <= Limit
      /\ \A i, j \in launched : i # j /\ race.exchanges[i].upstream = race.exchanges[j].upstream =>
           {race.exchanges[k].upstream : k \in launched} = ToSet(Pinned)
=============================================================================

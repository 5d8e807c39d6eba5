------------------------------ MODULE Rotation ------------------------------
(***************************************************************************)
(* internal/rotation: one circuit breaker per deployment.                  *)
(*                                                                         *)
(* Registry.Admit hands a Permit to an attempt; Permit.report returns it   *)
(* with one of three outcomes; Registry.Retain drops the breakers of the   *)
(* deployments a reloaded inventory no longer names.  Every method runs    *)
(* under Registry.mu, so each is one step; the interleavings are those of  *)
(* the attempts that hold permits between the two calls.                   *)
(*                                                                         *)
(* Time is kept as what is left of it: probesIn is probesAt - now, never   *)
(* below zero, which is all the code ever asks (now.Before(probesAt)).     *)
(* The health score feeds only the operator projection and is left out.    *)
(***************************************************************************)
EXTENDS Integers, FiniteSets

CONSTANTS
  Deployments,       \* deployment identifiers
  Attempts,          \* attempts that may hold a permit at the same time
  FailuresToOpen,    \* Policy.FailuresToOpen
  Cooldown,          \* Policy.Cooldown, in ticks
  MaxCooldown,       \* Policy.MaxCooldown, in ticks
  SuccessesToClose   \* Policy.SuccessesToClose

\* What NewRegistry guarantees after it has filled in its defaults.
ASSUME PolicyAssumption ==
  /\ FailuresToOpen \in Nat \ {0}
  /\ Cooldown \in Nat \ {0}
  /\ MaxCooldown \in Nat /\ MaxCooldown >= Cooldown
  /\ SuccessesToClose \in Nat \ {0}

VARIABLES
  breakers,   \* the entry of each deployment; FreshBreaker where there is none
  known,      \* the keys of Registry.breakers
  permits     \* the permits handed out and not yet reported

vars == <<breakers, known, permits>>

-----------------------------------------------------------------------------
States   == {"closed", "open", "half_open"}
Outcomes == {"served", "failed", "irrelevant"}

Breaker ==
  [state               : States,
   consecutiveFailures : 0..FailuresToOpen,
   trialSuccesses      : 0..SuccessesToClose,
   trialInFlight       : BOOLEAN,
   cooldown            : 0..MaxCooldown,
   probesIn            : 0..MaxCooldown]

FreshBreaker ==
  [state |-> "closed", consecutiveFailures |-> 0, trialSuccesses |-> 0,
   trialInFlight |-> FALSE, cooldown |-> 0, probesIn |-> 0]

\* The right of attempt "by" to one request on deployment "id".
Permit == [by : Attempts, id : Deployments, trial : BOOLEAN]

-----------------------------------------------------------------------------
\* When the breaker lets one more request through.
Admits(b) ==
  \/ b.state = "closed"
  \/ b.state = "open" /\ b.probesIn = 0
  \/ b.state = "half_open" /\ ~b.trialInFlight

\* The entry after a request was let through; an open one turns half-open and
\* the request becomes its trial.
Admitted(b) ==
  IF b.state = "closed" THEN b
  ELSE [b EXCEPT !.state = "half_open",
                 !.trialSuccesses = IF b.state = "open" THEN 0 ELSE @,
                 !.trialInFlight = TRUE]

\* The next cooldown: the first one, then doubled up to the ceiling.
Escalate(cooldown) ==
  IF cooldown = 0 THEN Cooldown
  ELSE IF cooldown * 2 > MaxCooldown THEN MaxCooldown ELSE cooldown * 2

\* Back to open for a longer while.
Opened(b) ==
  [b EXCEPT !.state = "open",
            !.cooldown = Escalate(@),
            !.probesIn = Escalate(b.cooldown)]

\* The count is read only as ">= FailuresToOpen", so it stops there.
CountFailure(n) == IF n < FailuresToOpen THEN n + 1 ELSE n

\* Mutant of RecordServed: the cooldown is reset by every served trial.
RecordServedResetsEarly(b, trial) ==
  LET successes == b.trialSuccesses + 1
  IN  IF ~trial THEN [b EXCEPT !.consecutiveFailures = 0]
      ELSE IF successes >= SuccessesToClose
           THEN [b EXCEPT !.consecutiveFailures = 0, !.state = "closed",
                          !.trialSuccesses = 0, !.cooldown = 0]
           ELSE [b EXCEPT !.consecutiveFailures = 0,
                          !.trialSuccesses = successes, !.cooldown = 0]

\* A served request clears the failures; enough served trials close the
\* breaker, whatever state it is in by then.
RecordServed(b, trial) ==
  LET cleared   == [b EXCEPT !.consecutiveFailures = 0]
      successes == b.trialSuccesses + 1
  IN  IF ~trial THEN cleared
      ELSE IF successes >= SuccessesToClose
           THEN [cleared EXCEPT !.state = "closed", !.trialSuccesses = 0,
                                !.cooldown = 0]
           ELSE [cleared EXCEPT !.trialSuccesses = successes]

\* A failed trial re-opens at once; any other failure opens when it is the
\* last of FailuresToOpen in a row, also while the breaker is already open.
RecordFailed(b, trial) ==
  LET counted == [b EXCEPT !.consecutiveFailures = CountFailure(@)]
  IN  IF trial THEN [Opened(counted) EXCEPT !.trialSuccesses = 0]
      ELSE IF counted.consecutiveFailures >= FailuresToOpen
           THEN Opened(counted)
           ELSE counted

\* Mutant of Recorded: NotAttributable returns before the slot is given back.
RecordedKeepsSlot(b, trial, outcome) ==
  LET released == [b EXCEPT !.trialInFlight = @ /\ ~trial]
  IN  CASE outcome = "irrelevant" -> b
        [] outcome = "served"     -> RecordServed(released, trial)
        [] outcome = "failed"     -> RecordFailed(released, trial)

\* Registry.record: a trial gives its slot back, then the outcome counts.
Recorded(b, trial, outcome) ==
  LET released == IF trial THEN [b EXCEPT !.trialInFlight = FALSE] ELSE b
  IN  CASE outcome = "irrelevant" -> released
        [] outcome = "served"     -> RecordServed(released, trial)
        [] outcome = "failed"     -> RecordFailed(released, trial)

-----------------------------------------------------------------------------
Init ==
  /\ breakers = [d \in Deployments |-> FreshBreaker]
  /\ known = {}
  /\ permits = {}

\* Registry.Admit when the breaker lets the request through.
Admit(a, d) ==
  /\ \A p \in permits : p.by # a
  /\ Admits(breakers[d])
  /\ breakers' = [breakers EXCEPT ![d] = Admitted(@)]
  /\ known' = known \cup {d}
  /\ permits' = permits \cup
       {[by |-> a, id |-> d, trial |-> breakers[d].state # "closed"]}

\* Permit.Succeeded, Permit.Failed and Permit.NotAttributable.  Reporting the
\* same permit again changes nothing, so a permit is reported once here.
Report(p, outcome) ==
  /\ breakers' = [breakers EXCEPT ![p.id] = Recorded(@, p.trial, outcome)]
  /\ known' = known \cup {p.id}
  /\ permits' = permits \ {p}

\* Registry.Retain, called with the deployments of a reloaded inventory.
Retain(keep) ==
  /\ known \ keep # {}
  /\ breakers' = [d \in Deployments |->
                    IF d \in keep THEN breakers[d] ELSE FreshBreaker]
  /\ known' = known \cap keep
  /\ UNCHANGED permits

\* Registry.Project for the operator's health page: it creates the entries it
\* is asked about.
Project(ids) ==
  /\ ids \ known # {}
  /\ known' = known \cup ids
  /\ UNCHANGED <<breakers, permits>>

\* One tick of the clock.
Tick ==
  /\ \E d \in Deployments : breakers[d].probesIn > 0
  /\ breakers' = [d \in Deployments |->
       [breakers[d] EXCEPT !.probesIn = IF @ > 0 THEN @ - 1 ELSE @]]
  /\ UNCHANGED <<known, permits>>

Next ==
  \/ \E a \in Attempts, d \in Deployments : Admit(a, d)
  \/ \E p \in permits, outcome \in Outcomes : Report(p, outcome)
  \/ \E keep \in SUBSET Deployments : Retain(keep)
  \/ \E ids \in SUBSET Deployments : Project(ids)
  \/ Tick

Spec == Init /\ [][Next]_vars

\* Time passes, and whoever holds a permit reports it: the executor does so on
\* every path out of an attempt.
Fairness ==
  /\ WF_vars(Tick)
  /\ \A a \in Attempts :
       WF_vars(\E p \in permits, outcome \in Outcomes : p.by = a /\ Report(p, outcome))

FairSpec == Spec /\ Fairness

-----------------------------------------------------------------------------
\* The registry and the permits are well formed.
TypeOK ==
  /\ breakers \in [Deployments -> Breaker]
  /\ known \in SUBSET Deployments
  /\ permits \in SUBSET Permit

\* The trials on d that are running.
TrialsOn(d) == {p \in permits : p.id = d /\ p.trial}

\* Admit takes a half-open breaker's trial slot and record gives it back: the
\* slot is never taken with no trial running that would give it back.
TrialSlotHeld ==
  \A d \in Deployments : breakers[d].trialInFlight => TrialsOn(d) # {}

\* record and escalate keep the backoff in step with the state, also when late
\* reports of older permits arrive: a breaker is closed exactly when its
\* cooldown is reset, never waits longer than its cooldown, and is half-open
\* only once the wait is over.
BackoffMatchesState ==
  \A d \in Deployments :
    /\ breakers[d].state = "closed" <=> breakers[d].cooldown = 0
    /\ breakers[d].state = "open" => breakers[d].probesIn <= breakers[d].cooldown
    /\ breakers[d].state = "half_open" => breakers[d].probesIn = 0

\* A deployment that flaps keeps its escalated backoff: until record closes the
\* breaker (or Retain drops it) the cooldown never shrinks.
FlappingKeepsBackoff ==
  [][\A d \in Deployments :
        breakers'[d].cooldown < breakers[d].cooldown
          => breakers'[d].state = "closed"]_vars

\* "The one way this package can take a recovered deployment out of rotation
\* permanently" is a permit nobody reports: as long as permits are reported,
\* every deployment is admissible again and again.
NeverOutForGood ==
  \A d \in Deployments : []<>Admits(breakers[d])

=============================================================================

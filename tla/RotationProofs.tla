--------------------------- MODULE RotationProofs ---------------------------
(***************************************************************************)
(* The rotation registry's invariants, for every policy, every number of   *)
(* deployments and every number of concurrent attempts.                    *)
(***************************************************************************)
EXTENDS Rotation, TLAPS

-----------------------------------------------------------------------------
\* escalate: a cooldown within the ceiling stays within it, is never zero and
\* never shrinks.
LEMMA EscalateBounds ==
  ASSUME NEW c \in 0..MaxCooldown
  PROVE  /\ Escalate(c) \in 1..MaxCooldown
         /\ Escalate(c) >= c
BY PolicyAssumption DEF Escalate

\* An entry whose backoff agrees with its state.
BackoffOK(b) ==
  /\ b.state = "closed" <=> b.cooldown = 0
  /\ b.state = "open" => b.probesIn <= b.cooldown
  /\ b.state = "half_open" => b.probesIn = 0

\* breakerLocked's new entry is well formed.
LEMMA FreshOK == FreshBreaker \in Breaker /\ BackoffOK(FreshBreaker)
BY PolicyAssumption DEF FreshBreaker, Breaker, States, BackoffOK

\* Admit keeps an entry well formed and its backoff consistent.
LEMMA AdmittedOK ==
  ASSUME NEW b \in Breaker, BackoffOK(b), Admits(b)
  PROVE  /\ Admitted(b) \in Breaker
         /\ BackoffOK(Admitted(b))
         /\ Admitted(b).cooldown = b.cooldown
         /\ b.state = "closed" => Admitted(b) = b
<1>1. CASE b.state = "closed"
  BY <1>1 DEF Admitted
<1>2. CASE b.state # "closed"
  <2> DEFINE successes == IF b.state = "open" THEN 0 ELSE b.trialSuccesses
             r == [state |-> "half_open", consecutiveFailures |-> b.consecutiveFailures,
                   trialSuccesses |-> successes, trialInFlight |-> TRUE,
                   cooldown |-> b.cooldown, probesIn |-> b.probesIn]
  <2>1. Admitted(b) = r
    BY <1>2 DEF Admitted, Breaker
  <2>2. b.probesIn = 0 /\ b.cooldown # 0 /\ successes \in 0..SuccessesToClose
    BY <1>2, PolicyAssumption DEF Admits, BackoffOK, Breaker, States
  <2> HIDE DEF successes
  <2>3. r \in Breaker
    BY <2>2 DEF Breaker, States
  <2>4. BackoffOK(r) /\ r.cooldown = b.cooldown
    BY <2>2 DEF BackoffOK
  <2>5. QED
    BY <1>2, <2>1, <2>3, <2>4
<1>3. QED
  BY <1>1, <1>2

\* Re-opening keeps an entry well formed, leaves the trial slot alone and does
\* not shorten the cooldown.
LEMMA OpenedOK ==
  ASSUME NEW b \in Breaker
  PROVE  /\ Opened(b) \in Breaker
         /\ BackoffOK(Opened(b))
         /\ Opened(b).cooldown >= b.cooldown
         /\ Opened(b).trialInFlight = b.trialInFlight
<1>1. Escalate(b.cooldown) \in 1..MaxCooldown /\ Escalate(b.cooldown) >= b.cooldown
  BY EscalateBounds DEF Breaker
<1> DEFINE opened == [b EXCEPT !.state = "open"]
           longer == [opened EXCEPT !.cooldown = Escalate(b.cooldown)]
           r == [longer EXCEPT !.probesIn = Escalate(b.cooldown)]
<1>2. Opened(b) = r
  BY DEF Opened
<1>3. opened \in Breaker /\ opened.state = "open" /\ opened.trialInFlight = b.trialInFlight
  BY DEF Breaker, States
<1> HIDE DEF opened
<1>4. /\ longer \in Breaker /\ longer.state = "open"
      /\ longer.trialInFlight = b.trialInFlight /\ longer.cooldown = Escalate(b.cooldown)
  BY <1>1, <1>3, PolicyAssumption DEF Breaker
<1> HIDE DEF longer
<1>5. /\ r \in Breaker /\ r.state = "open" /\ r.trialInFlight = b.trialInFlight
      /\ r.cooldown = Escalate(b.cooldown) /\ r.probesIn = Escalate(b.cooldown)
  BY <1>1, <1>4, PolicyAssumption DEF Breaker
<1> HIDE DEF r
<1>6. BackoffOK(r) /\ r.cooldown >= b.cooldown
  BY <1>1, <1>5 DEF BackoffOK
<1>7. QED
  BY <1>2, <1>5, <1>6

\* record with a served request.
LEMMA RecordServedOK ==
  ASSUME NEW b \in Breaker, BackoffOK(b), NEW trial \in BOOLEAN
  PROVE  LET r == RecordServed(b, trial)
         IN  /\ r \in Breaker
             /\ BackoffOK(r)
             /\ r.trialInFlight = b.trialInFlight
             /\ r.cooldown < b.cooldown => r.state = "closed"
<1> DEFINE cleared == [b EXCEPT !.consecutiveFailures = 0]
           successes == b.trialSuccesses + 1
           closed == [state |-> "closed", consecutiveFailures |-> 0, trialSuccesses |-> 0,
                      trialInFlight |-> b.trialInFlight, cooldown |-> 0,
                      probesIn |-> b.probesIn]
           further == [state |-> b.state, consecutiveFailures |-> 0,
                       trialSuccesses |-> successes, trialInFlight |-> b.trialInFlight,
                       cooldown |-> b.cooldown, probesIn |-> b.probesIn]
<1>1. cleared \in Breaker /\ BackoffOK(cleared) /\ cleared.trialInFlight = b.trialInFlight
      /\ cleared.cooldown = b.cooldown
  BY PolicyAssumption DEF Breaker, BackoffOK
<1>2. CASE ~trial
  <2>1. RecordServed(b, trial) = cleared /\ b.cooldown \in Int
    BY <1>2 DEF RecordServed, Breaker
  <2>2. QED
    BY <1>1, <2>1
<1>3. CASE trial /\ successes >= SuccessesToClose
  <2>1. RecordServed(b, trial) = closed
    BY <1>3 DEF RecordServed, Breaker
  <2>2. closed \in Breaker /\ BackoffOK(closed)
    BY PolicyAssumption DEF Breaker, States, BackoffOK
  <2>3. QED
    BY <2>1, <2>2
<1>4. CASE trial /\ ~(successes >= SuccessesToClose)
  <2>1. RecordServed(b, trial) = further
    BY <1>4 DEF RecordServed, Breaker
  <2>2. successes \in 0..SuccessesToClose /\ b.cooldown \in Int
    BY <1>4, PolicyAssumption DEF Breaker
  <2>3. further \in Breaker /\ BackoffOK(further)
    BY <2>2, PolicyAssumption DEF Breaker, BackoffOK
  <2>4. QED
    BY <2>1, <2>2, <2>3
<1>5. QED
  BY <1>2, <1>3, <1>4

\* record with a failed request.
LEMMA RecordFailedOK ==
  ASSUME NEW b \in Breaker, BackoffOK(b), NEW trial \in BOOLEAN
  PROVE  LET r == RecordFailed(b, trial)
         IN  /\ r \in Breaker
             /\ BackoffOK(r)
             /\ r.trialInFlight = b.trialInFlight
             /\ r.cooldown >= b.cooldown
<1> DEFINE counted == [b EXCEPT !.consecutiveFailures = CountFailure(@)]
<1>1. counted \in Breaker /\ BackoffOK(counted) /\ counted.trialInFlight = b.trialInFlight
      /\ counted.cooldown = b.cooldown
  BY PolicyAssumption DEF CountFailure, Breaker, States, BackoffOK
<1> HIDE DEF counted
<1>2. /\ Opened(counted) \in Breaker
      /\ BackoffOK(Opened(counted))
      /\ Opened(counted).cooldown >= counted.cooldown
      /\ Opened(counted).trialInFlight = counted.trialInFlight
  BY <1>1, OpenedOK
<1>3. CASE trial
  <2> DEFINE r == [Opened(counted) EXCEPT !.trialSuccesses = 0]
  <2>1. RecordFailed(b, trial) = r
    BY <1>3 DEF RecordFailed, counted
  <2>2. r \in Breaker /\ BackoffOK(r) /\ r.trialInFlight = b.trialInFlight
        /\ r.cooldown >= b.cooldown
    BY <1>1, <1>2, PolicyAssumption DEF Breaker, States, BackoffOK
  <2>3. QED
    BY <2>1, <2>2
<1>4. CASE ~trial
  <2>1. RecordFailed(b, trial) \in {Opened(counted), counted}
    BY <1>4 DEF RecordFailed, counted
  <2>2. b.cooldown \in Int /\ counted.cooldown \in Int
    BY <1>1 DEF Breaker
  <2>3. QED
    BY <1>1, <1>2, <2>1, <2>2
<1>5. QED
  BY <1>3, <1>4

\* record gives a trial's slot back and touches nobody else's; apart from a
\* served trial that closes the breaker it never shortens the cooldown.
LEMMA RecordedOK ==
  ASSUME NEW b \in Breaker, BackoffOK(b), NEW trial \in BOOLEAN,
         NEW outcome \in Outcomes
  PROVE  LET r == Recorded(b, trial, outcome)
         IN  /\ r \in Breaker
             /\ BackoffOK(r)
             /\ r.trialInFlight = (b.trialInFlight /\ ~trial)
             /\ r.cooldown < b.cooldown => r.state = "closed"
<1> DEFINE released == IF trial THEN [b EXCEPT !.trialInFlight = FALSE] ELSE b
<1>1. released \in Breaker /\ BackoffOK(released)
      /\ released.trialInFlight = (b.trialInFlight /\ ~trial)
      /\ released.cooldown = b.cooldown
  <2>1. CASE trial
    BY <2>1 DEF Breaker, BackoffOK
  <2>2. CASE ~trial
    <3>1. b.trialInFlight \in BOOLEAN
      BY DEF Breaker
    <3>2. QED
      BY <2>2, <3>1
  <2>3. QED
    BY <2>1, <2>2
<1>2. b.cooldown \in Int
  BY DEF Breaker
<1> HIDE DEF released
<1>3. CASE outcome = "irrelevant"
  <2>1. Recorded(b, trial, outcome) = released
    BY <1>3 DEF Recorded, released
  <2>2. QED
    BY <1>1, <1>2, <2>1
<1>4. CASE outcome = "served"
  <2>1. Recorded(b, trial, outcome) = RecordServed(released, trial)
    BY <1>4 DEF Recorded, released
  <2>2. QED
    BY <1>1, <2>1, RecordServedOK
<1>5. CASE outcome = "failed"
  <2>1. Recorded(b, trial, outcome) = RecordFailed(released, trial)
    BY <1>5 DEF Recorded, released
  <2>2. RecordFailed(released, trial).cooldown \in Int
    BY <1>1, RecordFailedOK DEF Breaker
  <2>3. QED
    BY <1>1, <1>2, <2>1, <2>2, RecordFailedOK
<1>6. QED
  BY <1>3, <1>4, <1>5 DEF Outcomes

-----------------------------------------------------------------------------
\* The inductive invariant: the type invariant is needed by every other part.
RotationInv == TypeOK /\ BackoffMatchesState /\ TrialSlotHeld

\* BackoffMatchesState says BackoffOK of every entry.
LEMMA BackoffPointwise ==
  BackoffMatchesState <=> \A d \in Deployments : BackoffOK(breakers[d])
BY DEF BackoffMatchesState, BackoffOK

\* The registry starts in the invariant.
LEMMA InitInv == Init => RotationInv
<1> SUFFICES ASSUME Init PROVE RotationInv
  OBVIOUS
<1>1. TypeOK
  BY FreshOK DEF Init, TypeOK
<1>2. BackoffMatchesState
  BY FreshOK, BackoffPointwise DEF Init
<1>3. TrialSlotHeld
  BY DEF Init, TrialSlotHeld, FreshBreaker
<1>4. QED
  BY <1>1, <1>2, <1>3 DEF RotationInv

\* Every method of the registry, and time, keep the invariant.
LEMMA NextInv ==
  ASSUME RotationInv, [Next]_vars
  PROVE  RotationInv'
<1> USE DEF RotationInv
<1>0. \A d \in Deployments : breakers[d] \in Breaker /\ BackoffOK(breakers[d])
  BY BackoffPointwise DEF TypeOK
<1>p. (\A d \in Deployments : BackoffOK(breakers'[d])) => BackoffMatchesState'
  BY DEF BackoffMatchesState, BackoffOK
<1>1. ASSUME NEW a \in Attempts, NEW d \in Deployments, Admit(a, d)
      PROVE  RotationInv'
  <2>1. /\ Admitted(breakers[d]) \in Breaker /\ BackoffOK(Admitted(breakers[d]))
        /\ breakers[d].state = "closed" => Admitted(breakers[d]) = breakers[d]
    BY <1>0, <1>1, AdmittedOK DEF Admit
  <2>2. breakers' = [breakers EXCEPT ![d] = Admitted(breakers[d])]
    BY <1>1 DEF Admit
  <2> DEFINE t == breakers[d].state # "closed"
             p == [by |-> a, id |-> d, trial |-> t]
  <2>t. t \in BOOLEAN
    OBVIOUS
  <2>3. permits' = permits \cup {p} /\ known' = known \cup {d}
    BY <1>1 DEF Admit
  <2>c. t \/ breakers[d].state = "closed"
    OBVIOUS
  <2> HIDE DEF t
  <2>4. TypeOK'
    BY <2>1, <2>2, <2>3, <2>t DEF TypeOK, Permit
  <2>5. BackoffMatchesState'
    BY <1>0, <1>p, <2>1, <2>2 DEF TypeOK
  <2>6. ASSUME NEW e \in Deployments, breakers'[e].trialInFlight
        PROVE  \E q \in permits' : q.id = e /\ q.trial
    <3>1. CASE e = d /\ t
      <4>1. p.id = e
        BY <3>1
      <4>2. p.trial
        BY <3>1, Zenon
      <4>3. p \in permits'
        BY <2>3
      <4> HIDE DEF p
      <4>4. QED
        BY <4>1, <4>2, <4>3
    <3>2. CASE e # d \/ breakers[d].state = "closed"
      <4>1. breakers[e].trialInFlight
        BY <3>2, <2>1, <2>2, <2>6 DEF TypeOK
      <4>2. QED
        BY <4>1, <2>3 DEF TrialSlotHeld, TrialsOn
    <3>3. QED
      BY <3>1, <3>2, <2>c
  <2>7. TrialSlotHeld'
    BY <2>6 DEF TrialSlotHeld, TrialsOn
  <2>8. QED
    BY <2>4, <2>5, <2>7
<1>2. ASSUME NEW p \in permits, NEW outcome \in Outcomes, Report(p, outcome)
      PROVE  RotationInv'
  <2> DEFINE r == Recorded(breakers[p.id], p.trial, outcome)
  <2>1. p \in Permit /\ p.id \in Deployments /\ p.trial \in BOOLEAN
    BY DEF TypeOK, Permit
  <2>2. /\ r \in Breaker /\ BackoffOK(r)
        /\ r.trialInFlight = (breakers[p.id].trialInFlight /\ ~p.trial)
    BY <1>0, <2>1, RecordedOK
  <2>3. breakers' = [breakers EXCEPT ![p.id] = r] /\ permits' = permits \ {p}
        /\ known' = known \cup {p.id}
    BY <1>2 DEF Report
  <2> HIDE DEF r
  <2>4. TypeOK'
    BY <2>1, <2>2, <2>3 DEF TypeOK
  <2>5. BackoffMatchesState'
    BY <1>0, <1>p, <2>1, <2>2, <2>3 DEF TypeOK
  <2>6. ASSUME NEW e \in Deployments, breakers'[e].trialInFlight
        PROVE  \E q \in permits' : q.id = e /\ q.trial
    <3>1. breakers[e].trialInFlight /\ (e = p.id => ~p.trial)
      BY <2>1, <2>2, <2>3, <2>6 DEF TypeOK
    <3>2. PICK q \in permits : q.id = e /\ q.trial
      BY <3>1 DEF TrialSlotHeld, TrialsOn
    <3>3. q # p
      BY <3>1, <3>2
    <3>4. QED
      BY <3>2, <3>3, <2>3
  <2>7. TrialSlotHeld'
    BY <2>6 DEF TrialSlotHeld, TrialsOn
  <2>8. QED
    BY <2>4, <2>5, <2>7
<1>3. ASSUME NEW keep \in SUBSET Deployments, Retain(keep)
      PROVE  RotationInv'
  <2>1. TypeOK'
    BY <1>3, FreshOK DEF Retain, TypeOK
  <2>2. BackoffMatchesState'
    BY <1>0, <1>3, <1>p, FreshOK DEF Retain
  <2>3. TrialSlotHeld'
    BY <1>3 DEF Retain, TrialSlotHeld, TrialsOn, FreshBreaker
  <2>4. QED
    BY <2>1, <2>2, <2>3
<1>4. ASSUME NEW ids \in SUBSET Deployments, Project(ids)
      PROVE  RotationInv'
  BY <1>4 DEF Project, TypeOK, BackoffMatchesState, TrialSlotHeld, TrialsOn
<1>5. CASE Tick
  <2>1. ASSUME NEW d \in Deployments
        PROVE  /\ breakers'[d] \in Breaker /\ BackoffOK(breakers'[d])
               /\ breakers'[d].trialInFlight = breakers[d].trialInFlight
    BY <1>0, <1>5, PolicyAssumption DEF Tick, Breaker, BackoffOK
  <2>2. TypeOK'
    BY <1>5, <2>1 DEF Tick, TypeOK
  <2>3. BackoffMatchesState'
    BY <1>p, <2>1
  <2>4. TrialSlotHeld'
    BY <1>5, <2>1 DEF Tick, TrialSlotHeld, TrialsOn
  <2>5. QED
    BY <2>2, <2>3, <2>4
<1>6. CASE UNCHANGED vars
  BY <1>6 DEF vars, TypeOK, BackoffMatchesState, TrialSlotHeld, TrialsOn
<1>7. QED
  BY <1>1, <1>2, <1>3, <1>4, <1>5, <1>6 DEF Next

-----------------------------------------------------------------------------
\* The registry is well formed in every reachable state.
THEOREM RotationTypeCorrect == Spec => []TypeOK
<1>1. RotationInv => TypeOK
  BY DEF RotationInv
<1>2. QED
  BY <1>1, InitInv, NextInv, PTL DEF Spec

\* A half-open breaker's trial slot is never lost: as long as it is taken a
\* trial is running whose report will free it.
THEOREM TrialSlotNeverLost == Spec => []TrialSlotHeld
<1>1. RotationInv => TrialSlotHeld
  BY DEF RotationInv
<1>2. QED
  BY <1>1, InitInv, NextInv, PTL DEF Spec

\* Late reports of older permits never leave a breaker with a backoff that
\* contradicts its state.
THEOREM BackoffConsistent == Spec => []BackoffMatchesState
<1>1. RotationInv => BackoffMatchesState
  BY DEF RotationInv
<1>2. QED
  BY <1>1, InitInv, NextInv, PTL DEF Spec

\* A deployment keeps its escalated backoff until it is back in rotation.
THEOREM BackoffNeverShrinks == Spec => FlappingKeepsBackoff
<1> DEFINE Keeps == \A d \in Deployments :
              breakers'[d].cooldown < breakers[d].cooldown => breakers'[d].state = "closed"
<1>1. ASSUME RotationInv, [Next]_vars
      PROVE  Keeps \/ UNCHANGED vars
  <2> USE DEF RotationInv
  <2>0. \A d \in Deployments : breakers[d] \in Breaker /\ BackoffOK(breakers[d])
                               /\ breakers[d].cooldown \in Int
    <3>1. \A d \in Deployments : breakers[d] \in Breaker /\ BackoffOK(breakers[d])
      BY BackoffPointwise, <1>1 DEF TypeOK
    <3>2. \A b \in Breaker : b.cooldown \in Int
      BY DEF Breaker
    <3>3. QED
      BY <3>1, <3>2
  <2>1. ASSUME NEW a \in Attempts, NEW e \in Deployments, Admit(a, e)
        PROVE  Keeps
    <3>1. Admitted(breakers[e]).cooldown = breakers[e].cooldown
      BY <2>0, <2>1, AdmittedOK DEF Admit
    <3>2. QED
      BY <2>0, <2>1, <3>1 DEF Admit, TypeOK
  <2>2. ASSUME NEW p \in permits, NEW outcome \in Outcomes, Report(p, outcome)
        PROVE  Keeps
    <3> DEFINE r == Recorded(breakers[p.id], p.trial, outcome)
    <3>1. p.id \in Deployments /\ p.trial \in BOOLEAN
      BY <1>1 DEF TypeOK, Permit
    <3>2. r.cooldown < breakers[p.id].cooldown => r.state = "closed"
      BY <2>0, <3>1, RecordedOK
    <3>3. breakers' = [breakers EXCEPT ![p.id] = r]
      BY <2>2 DEF Report
    <3> HIDE DEF r
    <3>4. QED
      BY <2>0, <3>1, <3>2, <3>3 DEF TypeOK
  <2>3. ASSUME NEW keep \in SUBSET Deployments, Retain(keep)
        PROVE  Keeps
    BY <2>0, <2>3 DEF Retain, FreshBreaker
  <2>4. ASSUME NEW ids \in SUBSET Deployments, Project(ids)
        PROVE  Keeps
    BY <2>0, <2>4 DEF Project
  <2>5. CASE Tick
    <3>1. \A d \in Deployments : breakers'[d].cooldown = breakers[d].cooldown
      BY <2>0, <2>5 DEF Tick, Breaker
    <3>2. QED
      BY <2>0, <3>1
  <2>6. QED
    BY <1>1, <2>1, <2>2, <2>3, <2>4, <2>5 DEF Next
<1>2. QED
  BY <1>1, InitInv, NextInv, PTL DEF Spec, FlappingKeepsBackoff

=============================================================================

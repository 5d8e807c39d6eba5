--------------------------- MODULE CustomerLimit ---------------------------
(***************************************************************************)
(* internal/customerlimit: the throttle and refusal state of each customer *)
(* credential generation (a "scope").                                      *)
(*                                                                         *)
(* A scope without an entry is healthy.  A throttle or a rejection opens   *)
(* one; after its cooldown Admit lets one attempt through to try again.    *)
(* Every method runs under Registry.mu.  Unlike a rotation permit, a       *)
(* Permit here does not remember whether it is a trial: the field "trial"  *)
(* below is what Admit decided, kept for the properties only.              *)
(*                                                                         *)
(* Time is kept relative: probesIn is what is left until probesAt, idle is *)
(* the time since lastSeen, counted no further than the stale age needs.   *)
(***************************************************************************)
EXTENDS Integers, FiniteSets

CONSTANTS
  Scopes,            \* customer credential generations
  Attempts,          \* attempts that may hold a permit at the same time
  RejectedCooldown,  \* defaultRejectedCooldown, in ticks
  ThrottleCooldown,  \* defaultThrottleCooldown, in ticks
  RetryAfters,       \* the provider's retry hints, in ticks; 0 is no hint
  StaleAge           \* staleEntryAge, in ticks

ASSUME CooldownAssumption ==
  /\ RejectedCooldown \in Nat \ {0}
  /\ ThrottleCooldown \in Nat \ {0}
  /\ RetryAfters \subseteq Nat
  /\ StaleAge \in Nat

VARIABLES
  entries,    \* Registry.entries: NoEntry where the map has no key
  permits     \* the permits handed out and not yet reported

vars == <<entries, permits>>

-----------------------------------------------------------------------------
Reasons   == {"none", "throttled", "rejected"}
Reports   == {"succeeded", "rejected", "throttled", "not_attributable"}

\* The fields of an absent entry carry no meaning.
Entry ==
  [known         : BOOLEAN,
   reason        : Reasons,
   probesIn      : Nat,
   trialInFlight : BOOLEAN,
   idle          : 0..(StaleAge + 1)]

NoEntry == [known |-> FALSE, reason |-> "none", probesIn |-> 0,
            trialInFlight |-> FALSE, idle |-> 0]

Permit == [by : Attempts, scope : Scopes, trial : BOOLEAN]

-----------------------------------------------------------------------------

\* A fresh throttle or rejection window, with no half-open state carried over.
EntryFor(reason, cooldown) ==
  [known |-> TRUE, reason |-> reason, probesIn |-> cooldown,
   trialInFlight |-> FALSE, idle |-> 0]

Stale(e) ==
  /\ e.known
  /\ ~e.trialInFlight
  /\ e.probesIn = 0
  /\ e.idle > StaleAge

\* Registry.removeStaleLocked, which every Admit runs first.
Swept == [s \in Scopes |-> IF Stale(entries[s]) THEN NoEntry ELSE entries[s]]

\* Permit.Throttled: the provider's window, or the default one without a hint.
ThrottleWindow(retryAfter) == IF retryAfter = 0 THEN ThrottleCooldown ELSE retryAfter

\* When Admit lets an attempt through.
Admits(e) ==
  \/ ~e.known
  \/ e.probesIn = 0 /\ ~e.trialInFlight

\* What Admit leaves of the entry it looked at: it was seen, and if it lets
\* the attempt through after the cooldown the attempt takes the trial slot.
Seen(e, admitted) ==
  IF e.known THEN [e EXCEPT !.idle = 0, !.trialInFlight = @ \/ admitted] ELSE e

\* Mutant of Reported: a report about something else leaves the slot taken.
ReportedKeepsSlot(e, kind, retryAfter) ==
  CASE kind = "succeeded"        -> NoEntry
    [] kind = "rejected"         -> EntryFor("rejected", RejectedCooldown)
    [] kind = "throttled"        -> EntryFor("throttled", ThrottleWindow(retryAfter))
    [] kind = "not_attributable" -> IF e.known THEN [e EXCEPT !.idle = 0] ELSE e

\* Permit.report: a success closes the lane, a verdict opens a new window, and
\* anything else frees the trial slot and leaves the window as it was.
Reported(e, kind, retryAfter) ==
  CASE kind = "succeeded"        -> NoEntry
    [] kind = "rejected"         -> EntryFor("rejected", RejectedCooldown)
    [] kind = "throttled"        -> EntryFor("throttled", ThrottleWindow(retryAfter))
    [] kind = "not_attributable" ->
         IF e.known THEN [e EXCEPT !.trialInFlight = FALSE, !.idle = 0] ELSE e

-----------------------------------------------------------------------------
Init ==
  /\ entries = [s \in Scopes |-> NoEntry]
  /\ permits = {}

\* Registry.Admit, admitting.
Admit(a, s) ==
  /\ \A p \in permits : p.by # a
  /\ Admits(Swept[s])
  /\ entries' = [Swept EXCEPT ![s] = Seen(@, TRUE)]
  /\ permits' = permits \cup {[by |-> a, scope |-> s, trial |-> Swept[s].known]}

\* Registry.Admit, refusing during the cooldown or while a trial runs.
Refuse(s) ==
  /\ ~Admits(Swept[s])
  /\ entries' = [Swept EXCEPT ![s] = Seen(@, FALSE)]
  /\ UNCHANGED permits

\* Permit.Succeeded, Rejected, Throttled and NotAttributable; a permit that was
\* already reported changes nothing.
Report(p, kind, retryAfter) ==
  /\ entries' = [entries EXCEPT ![p.scope] = Reported(@, kind, retryAfter)]
  /\ permits' = permits \ {p}

\* One tick of the clock.
Tick ==
  /\ \E s \in Scopes : entries[s].known
                       /\ (entries[s].probesIn > 0 \/ entries[s].idle <= StaleAge)
  /\ entries' = [s \in Scopes |->
       IF entries[s].known
       THEN [entries[s] EXCEPT !.probesIn = IF @ > 0 THEN @ - 1 ELSE 0,
                               !.idle = IF @ <= StaleAge THEN @ + 1 ELSE @]
       ELSE entries[s]]
  /\ UNCHANGED permits

Next ==
  \/ \E a \in Attempts, s \in Scopes : Admit(a, s)
  \/ \E s \in Scopes : Refuse(s)
  \/ \E p \in permits, kind \in Reports, retryAfter \in RetryAfters : Report(p, kind, retryAfter)
  \/ Tick

Spec == Init /\ [][Next]_vars

\* Time passes and the executor reports every permit it was given.
Fairness ==
  /\ WF_vars(Tick)
  /\ \A a \in Attempts :
       WF_vars(\E p \in permits, kind \in Reports, retryAfter \in RetryAfters :
                 p.by = a /\ Report(p, kind, retryAfter))

FairSpec == Spec /\ Fairness

-----------------------------------------------------------------------------
\* The registry and the permits are well formed.
TypeOK ==
  /\ entries \in [Scopes -> Entry]
  /\ permits \in SUBSET Permit

\* The trials on s that are running.
TrialsOn(s) == {p \in permits : p.scope = s /\ p.trial}

\* A taken trial slot has a trial that is still running: no report, and no
\* sweep of stale entries, can leave a slot nobody gives back.
TrialSlotHeld ==
  \A s \in Scopes : entries[s].trialInFlight => TrialsOn(s) # {}

\* As long as permits are reported, every credential generation is let through
\* again and again: a customer is never locked out for good.
NeverLockedOut ==
  \A s \in Scopes : []<>Admits(entries[s])

=============================================================================

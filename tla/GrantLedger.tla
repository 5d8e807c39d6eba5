----------------------------- MODULE GrantLedger -----------------------------
(***************************************************************************)
(* What a customer is promised about one grant, whatever tasks crash,      *)
(* whatever writes fail and however often a settlement is delivered: the   *)
(* request runs at most once, its settlement becomes durable at most once  *)
(* and only after it ran, and Oxy settles it at most once and only from    *)
(* the durable settlement; it is closed, for good, only once Oxy has       *)
(* settled it.  An executed grant may stay unsettled (its hold then        *)
(* expires at Oxy): a task can die before the settlement is written.       *)
(***************************************************************************)
CONSTANT Grants

VARIABLE ledger

Init == ledger = [g \in Grants |-> "held"]

(* A task's end can decide the writes of several grants at once. *)
Advance(S, from, to) ==
    /\ \A g \in S : ledger[g] = from
    /\ ledger' = [g \in Grants |-> IF g \in S THEN to ELSE ledger[g]]

Execute(g) == Advance({g}, "held", "executed")
Write(S) == Advance(S, "executed", "durable")
Settle(g) == Advance({g}, "durable", "settled")
Close(g) == Advance({g}, "settled", "closed")

Next ==
    \/ \E g \in Grants : Execute(g) \/ Settle(g) \/ Close(g)
    \/ \E S \in SUBSET Grants : Write(S)

Spec == Init /\ [][Next]_ledger
==============================================================================

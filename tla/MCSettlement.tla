---------------------------- MODULE MCSettlement ----------------------------
(***************************************************************************)
(* Small instances of the settlement outbox for TLC: its delivery          *)
(* (Settlement) and its reconciliation feed (SettlementFeed).  The two     *)
(* share only the table, which each models as far as it needs it, so one   *)
(* behaviour is about one of them: `part' says which, and the other stays  *)
(* in its initial state, where none of its fair actions is enabled.        *)
(***************************************************************************)
EXTENDS Settlement, SettlementFeed

VARIABLE part

allVars == <<vars, entry, cursor, seen, part>>

MCInit == Init /\ FeedInit /\ part \in {"delivery", "feed"}

MCNext ==
    \/ part = "delivery" /\ Next /\ UNCHANGED <<entry, cursor, seen, part>>
    \/ part = "feed" /\ FeedNext /\ UNCHANGED <<vars, part>>

MCSpec == MCInit /\ [][MCNext]_allVars /\ Fairness
=============================================================================

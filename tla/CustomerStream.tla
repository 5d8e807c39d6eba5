--------------------------- MODULE CustomerStream ---------------------------
(***************************************************************************)
(* What a customer is promised of a request's event stream: the abstract   *)
(* specification that the emitter implements.                              *)
(*                                                                         *)
(* Route switches come first, then one start event, then the output and    *)
(* progress of the attempt that start names, then at most one terminal     *)
(* event.  Events are numbered without a gap, and nothing the customer has *)
(* seen is ever taken back.                                                *)
(***************************************************************************)
EXTENDS Naturals, Sequences

VARIABLE seen   \* the events the customer has received

Types     == {"switch", "start", "progress", "output", "done", "error"}
Terminals == {"done", "error"}

\* "by" is the attempt that produced the event (0 for the executor's own).
Event == [type : Types, seq : Nat, by : Nat]

Numbered(s) == \A i \in DOMAIN s : s[i].seq = i - 1

\* Whatever an attempt produces follows that attempt's start event.
OneAnswer(s) ==
  \A i \in DOMAIN s : s[i].type \in {"progress", "output"} =>
    \E j \in 1..(i - 1) : s[j].type = "start" /\ s[j].by = s[i].by

StartOnce(s) ==
  \A i, j \in DOMAIN s : s[i].type = "start" /\ s[j].type = "start" => i = j

SwitchesFirst(s) ==
  \A i, j \in DOMAIN s : s[i].type = "start" /\ s[j].type = "switch" => j < i

TerminalLast(s) ==
  \A i \in DOMAIN s : s[i].type \in Terminals => i = Len(s)

DoneFollowsStart(s) ==
  \A i \in DOMAIN s : s[i].type = "done" => \E j \in 1..(i - 1) : s[j].type = "start"

WellFormed(s) ==
  /\ Numbered(s)
  /\ OneAnswer(s)
  /\ StartOnce(s)
  /\ SwitchesFirst(s)
  /\ TerminalLast(s)
  /\ DoneFollowsStart(s)

Prefix(s, t) == Len(s) <= Len(t) /\ \A i \in DOMAIN s : t[i] = s[i]

Init == seen = <<>>

\* The customer receives more of a well-formed stream.
Next ==
  /\ seen' \in Seq(Event)
  /\ Prefix(seen, seen')
  /\ WellFormed(seen')

Spec == Init /\ [][Next]_seen
=============================================================================

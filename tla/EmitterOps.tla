----------------------------- MODULE EmitterOps -----------------------------
(***************************************************************************)
(* internal/kaana/emitter.go: the framing of one request's event stream.   *)
(*                                                                         *)
(* An adapter's start is held, with the progress behind it, until its      *)
(* attempt delivers output or completes; a failed attempt's held events    *)
(* are dropped when the next attempt is served.                            *)
(*                                                                         *)
(* The state is one record: each operation maps it to the next one, with   *)
(* the error the call returned in "err".  room is how many more events the *)
(* sink will take; a sink that broke stays broken (sse.Writer.broken).     *)
(* attempt, and the "by" of an event, tell the attempts apart for the      *)
(* properties.                                                             *)
(***************************************************************************)
EXTENDS Naturals, Sequences

Types  == {"switch", "start", "progress", "output", "done", "error"}
Errors == {"none", "refused", "sink", "too_late"}
Event  == [type : Types, seq : Nat, by : Nat]

EmitterState ==
  [started        : BOOLEAN,      \* the start event was written
   attemptStarted : BOOLEAN,      \* the attempt being served called Start
   pendingStart   : Nat,          \* the attempt whose start is held; 0: none
   pending        : Seq(Nat),     \* the attempts of the events held behind it
   sequence       : Nat,
   terminated     : BOOLEAN,
   sinkFailed     : BOOLEAN,
   delivered      : BOOLEAN,      \* usageEstimate.outputDelivered
   attempt        : Nat,
   room           : Nat,
   out            : Seq(Event),   \* what the sink took
   err            : Errors]

\* newEmitter.
NewEmitter(room) ==
  [started |-> FALSE, attemptStarted |-> FALSE, pendingStart |-> 0,
   pending |-> <<>>, sequence |-> 0, terminated |-> FALSE, sinkFailed |-> FALSE,
   delivered |-> FALSE, attempt |-> 0, room |-> room, out |-> <<>>, err |-> "none"]

-----------------------------------------------------------------------------
Refuse(e, why) == [e EXCEPT !.err = why]

\* What send returns for the next write.
WriteError(e) == IF e.terminated THEN "refused" ELSE IF e.room = 0 THEN "sink" ELSE "none"

\* next, then send: the number is drawn even when the write fails.
Write(e, type, by) ==
  LET err == WriteError(e)
  IN  [e EXCEPT !.sequence = @ + 1,
                !.err = err,
                !.sinkFailed = @ \/ err = "sink",
                !.room = IF err = "none" THEN @ - 1 ELSE @,
                !.out = IF err = "none"
                        THEN Append(@, [type |-> type, seq |-> e.sequence, by |-> by])
                        ELSE @]

\* Mutant of serving: a failed attempt's held events are not dropped.
ServingKeepsHeld(e) ==
  [e EXCEPT !.attempt = @ + 1, !.attemptStarted = FALSE, !.err = "none"]

\* serving: the next attempt begins and what the last one held is dropped.
Serving(e) ==
  [e EXCEPT !.attempt = @ + 1, !.attemptStarted = FALSE,
            !.pendingStart = 0, !.pending = <<>>, !.err = "none"]

\* Start: held, not written.
Start(e) ==
  IF e.started \/ e.attemptStarted THEN Refuse(e, "refused")
  ELSE [e EXCEPT !.attemptStarted = TRUE, !.pendingStart = e.attempt, !.err = "none"]

\* commit's loop over the held events: stops at the first failed write.
Drained(e) ==
  LET n    == IF e.room < Len(e.pending) THEN e.room ELSE Len(e.pending)
      full == n = Len(e.pending)
  IN  [e EXCEPT !.pending = <<>>,
                !.sequence = @ + (IF full THEN n ELSE n + 1),
                !.err = IF full THEN "none" ELSE "sink",
                !.sinkFailed = @ \/ ~full,
                !.room = @ - n,
                !.out = @ \o [i \in 1..n |-> [type |-> "progress",
                                              seq  |-> e.sequence + i - 1,
                                              by   |-> e.pending[i]]]]

\* Mutant of Commit: the stream is not marked started.
CommitUnmarked(e) ==
  IF e.started THEN Refuse(e, "none")
  ELSE IF e.pendingStart = 0 THEN Refuse(e, "refused")
  ELSE LET start == Write([e EXCEPT !.pendingStart = 0], "start", e.pendingStart)
       IN  IF start.err = "none" THEN Drained(start) ELSE [start EXCEPT !.pending = <<>>]

\* commit: the held start, then everything held behind it.
Commit(e) ==
  IF e.started THEN Refuse(e, "none")
  ELSE IF e.pendingStart = 0 THEN Refuse(e, "refused")
  ELSE LET begun == [e EXCEPT !.started = TRUE, !.pendingStart = 0]
           start == Write(begun, "start", e.pendingStart)
       IN  IF start.err = "none" THEN Drained(start) ELSE [start EXCEPT !.pending = <<>>]

\* A non-empty Delta, a ToolCall or Audio: commits, then is written.
Output(e) ==
  IF ~e.attemptStarted THEN Refuse(e, "refused")
  ELSE LET committed == Commit(e)
           written   == Write(committed, "output", e.attempt)
       IN  IF committed.err # "none" THEN committed
           ELSE [written EXCEPT !.delivered = @ \/ written.err = "none"]

\* Usage with units, or an empty Delta: written once the stream has committed,
\* held until then (sendOrHold).
Progress(e) ==
  IF ~e.attemptStarted THEN Refuse(e, "refused")
  ELSE IF e.started THEN Write(e, "progress", e.attempt)
  ELSE [e EXCEPT !.pending = Append(@, e.attempt), !.err = "none"]

\* Mutant of RouteSwitch: the stream may have started.
RouteSwitchAnyTime(e) == Write(e, "switch", 0)

\* routeSwitch between routes the stream contract can describe.
RouteSwitch(e) ==
  IF e.started THEN Refuse(e, "too_late") ELSE Write(e, "switch", 0)

\* finishWithDone: an answer without output commits here.
FinishWithDone(e) ==
  IF ~e.attemptStarted THEN Refuse(e, "refused")
  ELSE LET committed == Commit(e)
       IN  IF committed.err # "none" THEN committed
           ELSE [Write(committed, "done", 0) EXCEPT !.terminated = TRUE]

\* finishWithError: needs no start, and writes no held one.
FinishWithError(e) ==
  IF e.terminated THEN Refuse(e, "refused")
  ELSE [Write(e, "error", 0) EXCEPT !.terminated = TRUE]
=============================================================================

--------------------------- MODULE ExecutorProofs ---------------------------
(***************************************************************************)
(* The executor, for any number of concurrent requests, signed route lists *)
(* of any length, every retry policy, and whatever the upstreams, sinks    *)
(* and clients do.                                                         *)
(***************************************************************************)
EXTENDS Executor, FiniteSetTheorems, SequenceTheorems, TLAPS

-----------------------------------------------------------------------------
(* The emitter's operations, as the executor relies on them *)

\* t is s with events of the types T written behind it.
Adds(s, t, T) ==
  /\ Len(s) <= Len(t)
  /\ \A i \in 1..Len(s) : t[i] = s[i]
  /\ \A i \in (Len(s) + 1)..Len(t) : t[i].type \in T

EventIn(s, type) == {i \in DOMAIN s : s[i].type = type}

\* What every operation but Serving leaves alone.
Quiet(e, f) ==
  /\ f \in EmitterState
  /\ f.attempt = e.attempt /\ f.attemptStarted = e.attemptStarted
  /\ f.delivered = e.delivered /\ f.terminated = e.terminated

\* f is e after one write of an event of this type, which may have failed.
Wrote(e, f, type) ==
  /\ Quiet(e, f) /\ f.started = e.started
  /\ Adds(e.out, f.out, {type})
  /\ f.err = "none" => Len(f.out) = Len(e.out) + 1 /\ f.out[Len(f.out)].type = type
  /\ f.err # "none" => f.out = e.out
  /\ f.err \in {"none", "refused", "sink"}
  /\ f.err = "refused" => e.terminated
  /\ f.err = "sink" => f.sinkFailed

\* f is e after the held progress was written, or as much of it as fits.
Emptied(e, f) ==
  /\ Quiet(e, f) /\ f.started = e.started
  /\ Adds(e.out, f.out, {"progress"})
  /\ f.err \in {"none", "sink"}

\* f is e after a refused call.
Refused(e, f, why) ==
  /\ Quiet(e, f) /\ f.started = e.started /\ f.out = e.out
  /\ f.err = why /\ f.sinkFailed = e.sinkFailed

\* f is e after the held start and what is behind it, if it could be written.
Committed(e, f) ==
  /\ Quiet(e, f)
  /\ Adds(e.out, f.out, {"start", "progress"})
  /\ e.started => f.started
  /\ ~f.started => f.out = e.out
  /\ f.err = "none" => f.started

\* f is e after progress, written or held.
Told(e, f) == Quiet(e, f) /\ f.started = e.started /\ Adds(e.out, f.out, {"progress"})

\* f is e after output, or after the commit before it failed.
Answered(e, f) ==
  /\ f \in EmitterState
  /\ f.attempt = e.attempt /\ f.attemptStarted = e.attemptStarted
  /\ f.terminated = e.terminated
  /\ Adds(e.out, f.out, {"start", "progress", "output"})
  /\ e.started => f.started
  /\ ~f.started => f.out = e.out
  /\ f.delivered => e.delivered \/ (f.started /\ f.attemptStarted)

\* f is e after the done event, or after the write that failed.
Completed(e, f) ==
  /\ f \in EmitterState
  /\ f.attempt = e.attempt /\ f.attemptStarted = e.attemptStarted
  /\ f.delivered = e.delivered
  /\ Adds(e.out, f.out, {"start", "progress", "done"})
  /\ e.started => f.started
  /\ ~f.started => f.out = e.out
  /\ f.err = "none" => EventIn(f.out, "done") # {}
  /\ f.err # "none" => Adds(e.out, f.out, {"start", "progress"})

\* f is e after the error event, or after the write that failed.
Errored(e, f) ==
  /\ f \in EmitterState
  /\ f.attempt = e.attempt /\ f.attemptStarted = e.attemptStarted
  /\ f.delivered = e.delivered /\ f.started = e.started
  /\ Adds(e.out, f.out, {"error"})
  /\ ~e.terminated => EventIn(f.out, "error") # {} \/ f.sinkFailed

LEMMA Fields ==
  ASSUME NEW e \in EmitterState
  PROVE  /\ e.started \in BOOLEAN /\ e.attemptStarted \in BOOLEAN
         /\ e.terminated \in BOOLEAN /\ e.sinkFailed \in BOOLEAN
         /\ e.delivered \in BOOLEAN
         /\ e.pendingStart \in Nat /\ e.pending \in Seq(Nat)
         /\ e.sequence \in Nat /\ e.attempt \in Nat /\ e.room \in Nat
         /\ e.out \in Seq(Event) /\ e.err \in Errors
BY DEF EmitterState

LEMMA AddsNothing ==
  ASSUME NEW s \in Seq(Event), NEW T
  PROVE  Adds(s, s, T)
BY DEF Adds

LEMMA AddsTogether ==
  ASSUME NEW s \in Seq(Event), NEW t \in Seq(Event), NEW u \in Seq(Event), NEW T, NEW U, NEW V,
         Adds(s, t, T), Adds(t, u, U), T \subseteq V, U \subseteq V
  PROVE  Adds(s, u, V)
<1>1. Len(s) \in Nat /\ Len(t) \in Nat /\ Len(u) \in Nat /\ Len(s) <= Len(t) /\ Len(t) <= Len(u)
  BY DEF Adds
<1>2. \A i \in 1..Len(s) : u[i] = s[i]
  BY <1>1 DEF Adds
<1>3. ASSUME NEW i \in (Len(s) + 1)..Len(u)
      PROVE  u[i].type \in V
  <2>1. CASE i <= Len(t)
    <3>1. u[i] = t[i] /\ t[i].type \in T
      BY <1>1, <2>1 DEF Adds
    <3>2. QED
      BY <3>1
  <2>2. CASE i > Len(t)
    BY <1>1, <2>2 DEF Adds
  <2>3. QED
    BY <1>1, <2>1, <2>2
<1>4. QED
  BY <1>1, <1>2, <1>3 DEF Adds

\* Events of another type are where they were.
LEMMA OtherEvents ==
  ASSUME NEW s \in Seq(Event), NEW t \in Seq(Event), NEW T, NEW type, Adds(s, t, T), type \notin T
  PROVE  EventIn(t, type) = EventIn(s, type)
<1>1. DOMAIN s = 1..Len(s) /\ DOMAIN t = 1..Len(t) /\ Len(s) \in Nat /\ Len(t) \in Nat
  OBVIOUS
<1>2. QED
  BY <1>1 DEF Adds, EventIn

\* Write adds its event, or fails and adds nothing.
LEMMA WriteFacts ==
  ASSUME NEW e \in EmitterState, NEW type \in Types, NEW by \in Nat
  PROVE  Wrote(e, Write(e, type, by), type)
<1> DEFINE err == WriteError(e)
           n  == e.sequence + 1
           b  == e.sinkFailed \/ err = "sink"
           m  == IF err = "none" THEN e.room - 1 ELSE e.room
           ev == [type |-> type, seq |-> e.sequence, by |-> by]
           o  == IF err = "none" THEN Append(e.out, ev) ELSE e.out
           f  == Write(e, type, by)
<1>1. n \in Nat
  BY Fields
<1>2. b \in BOOLEAN
  OBVIOUS
<1>3. m \in Nat
  BY Fields DEF WriteError
<1>4. e.out \in Seq(Event) /\ Len(e.out) \in Nat
  BY Fields
<1>5. ev \in Event
  BY Fields DEF Event
<1>6. err \in {"none", "refused", "sink"} /\ err \in Errors /\ (err = "refused" => e.terminated)
  BY DEF WriteError, Errors
<1>7. f = [e EXCEPT !.sequence = n, !.err = err, !.sinkFailed = b, !.room = m, !.out = o]
  BY DEF Write
<1> HIDE DEF ev
<1>8. /\ o \in Seq(Event)
      /\ err = "none" => o = Append(e.out, ev) /\ Len(o) = Len(e.out) + 1
      /\ err # "none" => o = e.out
  BY <1>4, <1>5
<1>9. Quiet(e, f) /\ f.started = e.started /\ f.err = err /\ f.sinkFailed = b /\ f.out = o
  <2> HIDE DEF n, err, b, m, o, f
  <2>1. QED
    BY <1>1, <1>2, <1>3, <1>6, <1>7, <1>8 DEF EmitterState, Quiet
<1>10. Adds(e.out, o, {type}) /\ (err = "none" => o[Len(o)].type = type)
  <2>1. CASE err = "none"
    <3>1. o[Len(e.out) + 1] = ev /\ \A i \in 1..Len(e.out) : o[i] = e.out[i]
      BY <1>4, <1>5, <1>8, <2>1
    <3>2. ev.type = type
      BY DEF ev
    <3> HIDE DEF o
    <3>3. QED
      BY <1>4, <1>8, <2>1, <3>1, <3>2 DEF Adds
  <2>2. CASE err # "none"
    BY <1>4, <1>8, <2>2, AddsNothing
  <2>3. QED
    BY <2>1, <2>2
<1> HIDE DEF n, err, m, o, f
<1>11. Wrote(e, f, type)
  BY <1>6, <1>8, <1>9, <1>10 DEF b, Wrote
<1>12. QED
  BY <1>11 DEF f

\* Drained writes held progress only, and fails only when the sink does.
LEMMA DrainedFacts ==
  ASSUME NEW e \in EmitterState
  PROVE  Emptied(e, Drained(e))
<1> DEFINE n == IF e.room < Len(e.pending) THEN e.room ELSE Len(e.pending)
           full == n = Len(e.pending)
           none == <<>>
           q == e.sequence + (IF full THEN n ELSE n + 1)
           err == IF full THEN "none" ELSE "sink"
           b == e.sinkFailed \/ ~full
           m == e.room - n
           held == [i \in 1..n |-> [type |-> "progress", seq |-> e.sequence + i - 1,
                                    by |-> e.pending[i]]]
           o == e.out \o held
           f == Drained(e)
<1>1. n \in Nat /\ n <= e.room /\ n <= Len(e.pending)
  BY Fields
<1>2. none \in Seq(Nat)
  OBVIOUS
<1>3. q \in Nat
  BY <1>1, Fields
<1>4. err \in Errors /\ err \in {"none", "sink"}
  BY DEF Errors
<1>5. b \in BOOLEAN
  OBVIOUS
<1>6. m \in Nat
  BY <1>1, Fields
<1>7. e.out \in Seq(Event) /\ Len(e.out) \in Nat
  BY Fields
<1>8. held \in Seq(Event) /\ Len(held) = n /\ \A i \in 1..n : held[i].type = "progress"
  <2>1. ASSUME NEW i \in 1..n
        PROVE  [type |-> "progress", seq |-> e.sequence + i - 1, by |-> e.pending[i]] \in Event
    <3>1. e.pending[i] \in Nat
      BY <1>1, Fields
    <3>2. e.sequence + i - 1 \in Nat
      BY <1>1, Fields
    <3>3. QED
      BY <3>1, <3>2 DEF Event, Types
  <2> HIDE DEF n
  <2>2. held \in [1..n -> Event]
    BY <2>1
  <2>3. held \in Seq(Event) /\ Len(held) = n
    BY <1>1, <2>2
  <2>4. \A i \in 1..n : held[i].type = "progress"
    OBVIOUS
  <2>5. QED
    BY <2>3, <2>4
<1>9. f = [e EXCEPT !.pending = none, !.sequence = q, !.err = err, !.sinkFailed = b,
                    !.room = m, !.out = o]
  BY DEF Drained
<1>10. o \in Seq(Event) /\ Adds(e.out, o, {"progress"})
  <2> DEFINE s == e.out
  <2>1. s \in Seq(Event) /\ o = s \o held
    BY <1>7
  <2> HIDE DEF held, n, full, err, q, b, m, s, o
  <2>2. o \in Seq(Event)
    BY <1>8, <2>1
  <2>3. Len(o) = Len(s) + Len(held) /\ Len(s) \in Nat
    BY <1>8, <2>1, ConcatProperties
  <2>4. \A i \in 1..Len(s) : o[i] = s[i]
    BY <1>8, <2>1
  <2>5. \A i \in (Len(s) + 1)..Len(o) : o[i] = held[i - Len(s)]
    BY <1>8, <2>1, <2>3
  <2>6. \A i \in (Len(s) + 1)..Len(o) : o[i].type \in {"progress"}
    BY <1>1, <1>8, <2>3, <2>5
  <2>7. Adds(s, o, {"progress"})
    BY <1>1, <1>8, <2>3, <2>4, <2>6 DEF Adds
  <2>8. QED
    BY <2>2, <2>7 DEF s
<1>11. Quiet(e, f) /\ f.started = e.started /\ f.err = err /\ f.sinkFailed = b /\ f.out = o
  <2> HIDE DEF n, full, held, none, q, err, b, m, o, f
  <2>1. QED
    BY <1>2, <1>3, <1>4, <1>5, <1>6, <1>9, <1>10 DEF EmitterState, Quiet
<1> HIDE DEF n, full, o, err, b, f
<1>12. Emptied(e, f)
  BY <1>4, <1>10, <1>11 DEF Emptied
<1>13. QED
  BY <1>12 DEF f

-----------------------------------------------------------------------------
\* A call that is refused.
LEMMA RefuseFacts ==
  ASSUME NEW e \in EmitterState, NEW why \in Errors
  PROVE  Refused(e, Refuse(e, why), why)
BY DEF Refuse, Refused, EmitterState, Quiet

LEMMA ServingFacts ==
  ASSUME NEW e \in EmitterState
  PROVE  LET f == Serving(e)
         IN  /\ f \in EmitterState
             /\ f.attempt = e.attempt + 1 /\ ~f.attemptStarted
             /\ f.started = e.started /\ f.delivered = e.delivered
             /\ f.terminated = e.terminated /\ f.out = e.out
<1> DEFINE n == e.attempt + 1
           none == <<>>
           g == [e EXCEPT !.attempt = n, !.pendingStart = 0, !.pending = none]
           f == Serving(e)
<1>1. n \in Nat
  BY Fields
<1>2. none \in Seq(Nat)
  OBVIOUS
<1>3. "none" \in Errors
  BY DEF Errors
<1>4. /\ f.attempt = n /\ ~f.attemptStarted
      /\ f.started = e.started /\ f.delivered = e.delivered
      /\ f.terminated = e.terminated /\ f.out = e.out
  BY DEF EmitterState, Serving
<1>5. f = [g EXCEPT !.attemptStarted = FALSE, !.err = "none"]
  BY DEF Serving, EmitterState
<1> HIDE DEF n, none, f
<1>6. g \in EmitterState
  BY <1>1, <1>2 DEF EmitterState
<1> HIDE DEF g
<1>7. f \in EmitterState
  BY <1>3, <1>5, <1>6 DEF EmitterState
<1>8. QED
  BY <1>4, <1>7 DEF n, f

\* Start writes nothing.
LEMMA StartFacts ==
  ASSUME NEW e \in EmitterState
  PROVE  LET f == Start(e)
         IN  /\ f \in EmitterState
             /\ f.attempt = e.attempt /\ f.started = e.started /\ f.delivered = e.delivered
             /\ f.terminated = e.terminated /\ f.out = e.out
             /\ e.attemptStarted => f.attemptStarted
<1> DEFINE f == Start(e)
<1>1. CASE e.started \/ e.attemptStarted
  <2>1. f = Refuse(e, "refused") /\ "refused" \in Errors
    BY <1>1 DEF Start, Errors
  <2>2. QED
    BY <2>1, RefuseFacts DEF Quiet, Refused
<1>2. CASE ~(e.started \/ e.attemptStarted)
  <2>1. f = [e EXCEPT !.attemptStarted = TRUE, !.pendingStart = e.attempt, !.err = "none"]
    BY <1>2 DEF Start
  <2>2. e.attempt \in Nat /\ "none" \in Errors
    BY Fields DEF Errors
  <2> HIDE DEF f
  <2>3. /\ f \in EmitterState
        /\ f.attempt = e.attempt /\ f.started = e.started /\ f.delivered = e.delivered
        /\ f.terminated = e.terminated /\ f.out = e.out
    BY <2>1, <2>2 DEF EmitterState
  <2>4. QED
    BY <1>2, <2>3 DEF f
<1>3. QED
  BY <1>1, <1>2

\* Commit writes the start and the progress held behind it, and leaves the
\* stream started unless it is refused.
LEMMA CommitFacts ==
  ASSUME NEW e \in EmitterState
  PROVE  Committed(e, Commit(e))
<1> DEFINE f == Commit(e)
<1>1. CASE e.started
  <2>1. f = Refuse(e, "none") /\ "none" \in Errors
    BY <1>1 DEF Commit, Errors
  <2>2. Adds(e.out, e.out, {"start", "progress"})
    BY Fields, AddsNothing
  <2> HIDE DEF f
  <2>3. Refused(e, f, "none")
    BY <2>1, RefuseFacts
  <2>4. QED
    BY <1>1, <2>2, <2>3 DEF Refused, Committed, f
<1>2. CASE ~e.started /\ e.pendingStart = 0
  <2>1. f = Refuse(e, "refused") /\ "refused" \in Errors
    BY <1>2 DEF Commit, Errors
  <2>2. Adds(e.out, e.out, {"start", "progress"})
    BY Fields, AddsNothing
  <2> HIDE DEF f
  <2>3. Refused(e, f, "refused")
    BY <2>1, RefuseFacts
  <2>4. QED
    BY <1>2, <2>2, <2>3 DEF Refused, Committed, f
<1>3. CASE ~e.started /\ e.pendingStart # 0
  <2> DEFINE begun == [e EXCEPT !.started = TRUE, !.pendingStart = 0]
             start == Write(begun, "start", e.pendingStart)
             none  == <<>>
  <2>1. begun \in EmitterState /\ Quiet(e, begun) /\ begun.started /\ begun.out = e.out
    BY DEF EmitterState, Quiet
  <2>2. e.pendingStart \in Nat /\ "start" \in Types /\ e.out \in Seq(Event)
    BY Fields DEF Types
  <2>3. Wrote(begun, start, "start")
    <3> HIDE DEF begun
    <3>1. QED
      BY <2>1, <2>2, WriteFacts
  <2>4. f = IF start.err = "none" THEN Drained(start) ELSE [start EXCEPT !.pending = none]
    BY <1>3 DEF Commit
  <2> HIDE DEF begun, start, f
  <2>5. /\ start \in EmitterState /\ start.started /\ Quiet(e, start)
        /\ Adds(e.out, start.out, {"start"})
    BY <2>1, <2>3 DEF Quiet, Wrote
  <2>6. start.out \in Seq(Event)
    BY <2>5, Fields
  <2>7. CASE start.err = "none"
    <3>1. Emptied(start, f)
      BY <2>4, <2>5, <2>7, DrainedFacts
    <3>2. f.out \in Seq(Event) /\ Adds(start.out, f.out, {"progress"})
      BY <3>1, Fields DEF Quiet, Emptied
    <3>3. Adds(e.out, f.out, {"start", "progress"})
      BY <2>2, <2>5, <2>6, <3>2, AddsTogether
    <3>4. Committed(e, f)
      BY <2>5, <3>1, <3>3 DEF Quiet, Emptied, Committed
    <3>5. QED
      BY <3>4 DEF f
  <2>8. CASE start.err # "none"
    <3>1. none \in Seq(Nat)
      OBVIOUS
    <3> HIDE DEF none
    <3>2. Quiet(start, f) /\ f.started = start.started /\ f.out = start.out /\ f.err = start.err
      BY <2>4, <2>5, <2>8, <3>1 DEF Quiet, EmitterState
    <3>3. Adds(e.out, f.out, {"start", "progress"})
      BY <2>2, <2>5, <2>6, <3>2, AddsNothing, AddsTogether
    <3>4. Committed(e, f)
      BY <2>5, <2>8, <3>2, <3>3 DEF Quiet, Committed
    <3>5. QED
      BY <3>4 DEF f
  <2>9. QED
    BY <2>7, <2>8
<1>4. QED
  BY <1>1, <1>2, <1>3

LEMMA ProgressFacts ==
  ASSUME NEW e \in EmitterState
  PROVE  Told(e, Progress(e))
<1> DEFINE f == Progress(e)
<1>1. e.out \in Seq(Event) /\ Adds(e.out, e.out, {"progress"})
  BY Fields, AddsNothing
<1>2. CASE ~e.attemptStarted
  <2>1. f = Refuse(e, "refused") /\ "refused" \in Errors
    BY <1>2 DEF Progress, Errors
  <2> HIDE DEF f
  <2>2. Refused(e, f, "refused")
    BY <2>1, RefuseFacts
  <2>3. QED
    BY <1>1, <2>2 DEF Refused, Told, f
<1>3. CASE e.attemptStarted /\ e.started
  <2>1. f = Write(e, "progress", e.attempt) /\ "progress" \in Types /\ e.attempt \in Nat
    BY <1>3, Fields DEF Progress, Types
  <2> HIDE DEF f
  <2>2. Wrote(e, f, "progress")
    BY <2>1, WriteFacts
  <2>3. QED
    BY <2>2 DEF Wrote, Told, f
<1>4. CASE e.attemptStarted /\ ~e.started
  <2> DEFINE held == Append(e.pending, e.attempt)
  <2>1. held \in Seq(Nat) /\ "none" \in Errors
    BY Fields DEF Errors
  <2>2. f = [e EXCEPT !.pending = held, !.err = "none"]
    BY <1>4 DEF Progress
  <2> HIDE DEF f, held
  <2>3. Quiet(e, f) /\ f.started = e.started /\ f.out = e.out
    BY <2>1, <2>2 DEF EmitterState, Quiet
  <2>4. QED
    BY <1>1, <2>3 DEF Told, f
<1>5. QED
  BY <1>2, <1>3, <1>4

LEMMA OutputFacts ==
  ASSUME NEW e \in EmitterState
  PROVE  Answered(e, Output(e))
<1> DEFINE f == Output(e)
           c == Commit(e)
           w == Write(c, "output", e.attempt)
<1>1. e.out \in Seq(Event) /\ Adds(e.out, e.out, {"start", "progress", "output"})
  BY Fields, AddsNothing
<1>2. CASE ~e.attemptStarted
  <2>1. f = Refuse(e, "refused") /\ "refused" \in Errors
    BY <1>2 DEF Output, Errors
  <2> HIDE DEF f
  <2>2. Refused(e, f, "refused")
    BY <2>1, RefuseFacts
  <2>3. QED
    BY <1>1, <2>2 DEF Refused, Quiet, Answered, f
<1>3. CASE e.attemptStarted
  <2>1. Committed(e, c)
    BY CommitFacts
  <2>2. c \in EmitterState /\ c.out \in Seq(Event) /\ "output" \in Types /\ e.attempt \in Nat
    BY <2>1, Fields DEF Committed, Quiet, Types
  <2>3. f = IF c.err # "none" THEN c ELSE [w EXCEPT !.delivered = @ \/ w.err = "none"]
    BY <1>3 DEF Output
  <2>4. Wrote(c, w, "output")
    <3> HIDE DEF c
    <3>1. QED
      BY <2>2, WriteFacts
  <2>5. w \in EmitterState /\ w.out \in Seq(Event)
    BY <2>4, Fields DEF Wrote, Quiet
  <2> HIDE DEF f, c, w
  <2>6. Adds(e.out, c.out, {"start", "progress", "output"})
    BY <1>1, <2>1, <2>2, AddsNothing, AddsTogether DEF Committed
  <2>7. Adds(e.out, w.out, {"start", "progress", "output"})
    <3>1. Adds(e.out, c.out, {"start", "progress"}) /\ Adds(c.out, w.out, {"output"})
      BY <2>1, <2>4 DEF Committed, Wrote
    <3>2. QED
      BY <1>1, <2>2, <2>5, <3>1, AddsTogether
  <2>8. CASE c.err # "none"
    <3>1. Answered(e, c)
      BY <2>1, <2>6 DEF Committed, Quiet, Answered
    <3>2. QED
      BY <2>3, <2>8, <3>1 DEF f
  <2>9. CASE c.err = "none"
    <3> DEFINE b == w.delivered \/ w.err = "none"
    <3>1. f = [w EXCEPT !.delivered = b]
      BY <2>3, <2>9
    <3>2. b \in BOOLEAN
      OBVIOUS
    <3> HIDE DEF b
    <3>3. /\ f \in EmitterState /\ f.attempt = w.attempt /\ f.started = w.started
          /\ f.attemptStarted = w.attemptStarted /\ f.terminated = w.terminated /\ f.out = w.out
      BY <2>5, <3>1, <3>2 DEF EmitterState
    <3>4. /\ f.attempt = e.attempt /\ f.attemptStarted = e.attemptStarted
          /\ f.terminated = e.terminated /\ f.started
      BY <2>1, <2>4, <2>9, <3>3 DEF Committed, Wrote, Quiet
    <3>5. QED
      BY <1>3, <2>7, <3>3, <3>4 DEF Answered, f
  <2>10. QED
    BY <2>8, <2>9
<1>4. QED
  BY <1>2, <1>3

LEMMA SwitchFacts ==
  ASSUME NEW e \in EmitterState
  PROVE  /\ ~e.started => Wrote(e, RouteSwitch(e), "switch")
         /\ e.started => Refused(e, RouteSwitch(e), "too_late")
<1>1. "switch" \in Types /\ "too_late" \in Errors
  BY DEF Types, Errors
<1>2. CASE e.started
  <2>1. RouteSwitch(e) = Refuse(e, "too_late")
    BY <1>2 DEF RouteSwitch
  <2>2. QED
    BY <1>1, <1>2, <2>1, RefuseFacts
<1>3. CASE ~e.started
  <2>1. RouteSwitch(e) = Write(e, "switch", 0)
    BY <1>3 DEF RouteSwitch
  <2>2. QED
    BY <1>1, <1>3, <2>1, WriteFacts
<1>4. QED
  BY <1>2, <1>3

LEMMA DoneFacts ==
  ASSUME NEW e \in EmitterState
  PROVE  Completed(e, FinishWithDone(e))
<1> DEFINE f == FinishWithDone(e)
           c == Commit(e)
           w == Write(c, "done", 0)
<1>1. e.out \in Seq(Event) /\ \A T : Adds(e.out, e.out, T)
  BY Fields, AddsNothing
<1>2. CASE ~e.attemptStarted
  <2>1. f = Refuse(e, "refused") /\ "refused" \in Errors
    BY <1>2 DEF FinishWithDone, Errors
  <2> HIDE DEF f
  <2>2. Refused(e, f, "refused")
    BY <2>1, RefuseFacts
  <2>3. QED
    BY <1>1, <2>2 DEF Refused, Quiet, Completed, f
<1>3. CASE e.attemptStarted
  <2>1. Committed(e, c)
    BY CommitFacts
  <2>2. c \in EmitterState /\ c.out \in Seq(Event) /\ "done" \in Types
    BY <2>1, Fields DEF Committed, Quiet, Types
  <2>3. f = IF c.err # "none" THEN c ELSE [w EXCEPT !.terminated = TRUE]
    BY <1>3 DEF FinishWithDone
  <2>4. Wrote(c, w, "done")
    <3> HIDE DEF c
    <3>1. QED
      BY <2>2, WriteFacts
  <2>5. w \in EmitterState /\ w.out \in Seq(Event)
    BY <2>4, Fields DEF Wrote, Quiet
  <2> HIDE DEF f, c, w
  <2>6. Adds(e.out, c.out, {"start", "progress"})
    BY <2>1 DEF Committed
  <2>7. Adds(e.out, c.out, {"start", "progress", "done"})
    BY <1>1, <2>2, <2>6, AddsNothing, AddsTogether
  <2>8. Adds(e.out, w.out, {"start", "progress", "done"})
    <3>1. Adds(c.out, w.out, {"done"})
      BY <2>4 DEF Wrote
    <3>2. QED
      BY <1>1, <2>2, <2>5, <2>6, <3>1, AddsTogether
  <2>9. CASE c.err # "none"
    <3>1. Completed(e, c)
      BY <2>1, <2>7, <2>9 DEF Committed, Quiet, Completed
    <3>2. QED
      BY <2>3, <2>9, <3>1 DEF f
  <2>10. CASE c.err = "none"
    <3>1. f = [w EXCEPT !.terminated = TRUE]
      BY <2>3, <2>10
    <3>2. /\ f \in EmitterState /\ f.attempt = w.attempt /\ f.started = w.started
          /\ f.attemptStarted = w.attemptStarted /\ f.delivered = w.delivered /\ f.out = w.out
          /\ f.err = w.err
      BY <2>5, <3>1 DEF EmitterState
    <3>3. /\ f.attempt = e.attempt /\ f.attemptStarted = e.attemptStarted
          /\ f.delivered = e.delivered /\ f.started
      BY <2>1, <2>4, <2>10, <3>2 DEF Committed, Wrote, Quiet
    <3>4. f.err = "none" => EventIn(f.out, "done") # {}
      <4>1. w.err = "none" => Len(w.out) \in DOMAIN w.out /\ w.out[Len(w.out)].type = "done"
        BY <2>2, <2>4, <2>5 DEF Wrote
      <4>2. QED
        BY <3>2, <4>1 DEF EventIn
    <3>5. f.err # "none" => Adds(e.out, f.out, {"start", "progress"})
      BY <2>4, <2>6, <3>2 DEF Wrote
    <3>6. QED
      BY <2>8, <3>2, <3>3, <3>4, <3>5 DEF Completed, f
  <2>11. QED
    BY <2>9, <2>10
<1>4. QED
  BY <1>2, <1>3

LEMMA ErrorFacts ==
  ASSUME NEW e \in EmitterState
  PROVE  Errored(e, FinishWithError(e))
<1> DEFINE f == FinishWithError(e)
           w == Write(e, "error", 0)
<1>1. CASE e.terminated
  <2>1. f = Refuse(e, "refused") /\ "refused" \in Errors
    BY <1>1 DEF FinishWithError, Errors
  <2>2. Adds(e.out, e.out, {"error"})
    BY Fields, AddsNothing
  <2> HIDE DEF f
  <2>3. Refused(e, f, "refused")
    BY <2>1, RefuseFacts
  <2>4. QED
    BY <1>1, <2>2, <2>3 DEF Refused, Quiet, Errored, f
<1>2. CASE ~e.terminated
  <2>1. f = [w EXCEPT !.terminated = TRUE]
    BY <1>2 DEF FinishWithError
  <2>2. "error" \in Types
    BY DEF Types
  <2>3. Wrote(e, w, "error")
    BY <2>2, WriteFacts
  <2> HIDE DEF f, w
  <2>4. w \in EmitterState /\ w.out \in Seq(Event) /\ e.out \in Seq(Event)
    BY <2>3, Fields DEF Wrote, Quiet
  <2>5. /\ f \in EmitterState /\ f.attempt = w.attempt /\ f.started = w.started
        /\ f.attemptStarted = w.attemptStarted /\ f.delivered = w.delivered /\ f.out = w.out
        /\ f.sinkFailed = w.sinkFailed
    BY <2>1, <2>4 DEF EmitterState
  <2>6. EventIn(f.out, "error") # {} \/ f.sinkFailed
    <3>1. w.err = "none" => Len(w.out) \in DOMAIN w.out /\ w.out[Len(w.out)].type = "error"
      BY <2>3, <2>4 DEF Wrote
    <3>2. w.err = "none" \/ w.sinkFailed
      BY <1>2, <2>3 DEF Wrote
    <3>3. QED
      BY <2>5, <3>1, <3>2 DEF EventIn
  <2>7. QED
    BY <2>3, <2>5, <2>6 DEF Wrote, Quiet, Errored, f
<1>3. QED
  BY <1>1, <1>2

-----------------------------------------------------------------------------
(* The requests' own state, and what a step does to it *)

LoopState ==
  [index : Nat, retrying : BOOLEAN, routeRetries : Nat, waited : Nat, wait : Nat,
   switches : Nat, skipped : SUBSET Deployments]

\* What an attempt may have returned.
Returned ==
  {NoError, Other("client_gone"), Other("canceled")}
    \cup {CustomerCredentialFailure(err, owned) : err \in UpstreamErrors, owned \in BOOLEAN}

Ended     == [route : Nat, err : Returned, units : Units, cancelled : BOOLEAN]
Terminals == {"none", "customer_refusal", "translation", "credential"}
SettleArgs == [attempt : Ended, sinkErr : BOOLEAN, terminal : Terminals]
CostRow ==
  [route : Nat, units : Units, hedged : BOOLEAN, served : BOOLEAN,
   verdict : {"none", "valid", "invalid"}]

Refusals == {"invalid_request", "customer_refusal", "translation", "credential",
             "out_of_rotation"}

StateOK ==
  /\ asked \in [Requests -> [format : Formats, routes : RouteLists]]
  /\ pc \in [Requests -> PCs]
  /\ loop \in [Requests -> LoopState]
  /\ abandoned \in [Requests -> Ended]
  /\ settling \in [Requests -> SettleArgs]
  /\ usage \in [Requests -> Seq(CostRow)]
  /\ emit \in [Requests -> EmitterState]
  /\ result = [q \in Requests |-> result[q]]

\* A step of r is a step of r's own state: nobody else's changes.
OnlyAt(r) ==
  /\ asked' = asked
  /\ pc' = [pc EXCEPT ![r] = pc'[r]]
  /\ loop' = [loop EXCEPT ![r] = loop'[r]]
  /\ abandoned' = [abandoned EXCEPT ![r] = abandoned'[r]]
  /\ settling' = [settling EXCEPT ![r] = settling'[r]]
  /\ usage' = [usage EXCEPT ![r] = usage'[r]]
  /\ emit' = [emit EXCEPT ![r] = emit'[r]]
  /\ result' = [result EXCEPT ![r] = result'[r]]

\* The request goes from one point of execute to the next.
Advances(r) ==
  /\ \/ pc[r] = "resolve" /\ pc'[r] = "top"
     \/ pc[r] = "top" /\ loop[r].index <= Len(asked[r].routes) /\ pc'[r] = "admitted"
     \/ MayTry(r) /\ (abandoned[r] = NoAttempt \/ loop[r].retrying) /\ pc'[r] = "credentials"
     \/ pc[r] = "record" /\ pc'[r] = "done"
  /\ loop'[r] = loop[r] /\ abandoned'[r] = abandoned[r] /\ settling'[r] = settling[r]
  /\ usage'[r] = usage[r] /\ emit'[r] = emit[r] /\ result'[r] = result[r]

\* It fails, and no attempt of it ran.
Fails(r) ==
  /\ \/ pc[r] = "resolve"
     \/ pc[r] \in {"top", "admitted", "credentials"} /\ abandoned[r] = NoAttempt
  /\ pc'[r] = "done" /\ emit'[r] = FinishWithError(emit[r])
  /\ \E failure \in Refusals : result'[r] = [NoResult EXCEPT !.failure = failure]
  /\ loop'[r] = loop[r] /\ abandoned'[r] = abandoned[r] /\ settling'[r] = settling[r]
  /\ usage'[r] = usage[r]

\* It gives up moving: the attempt it was moving away from settles.
GivesUp(r) ==
  /\ \/ pc[r] = "waiting"
     \/ pc[r] \in {"top", "admitted", "credentials"} /\ abandoned[r] # NoAttempt
  /\ pc'[r] = "settle"
  /\ \E attempt \in {abandoned[r], [abandoned[r] EXCEPT !.cancelled = TRUE]},
        sinkErr \in BOOLEAN, terminal \in Terminals :
       settling'[r] = [attempt |-> attempt, sinkErr |-> sinkErr, terminal |-> terminal]
  /\ abandoned'[r] \in {abandoned[r], NoAttempt}
  /\ emit'[r] = emit[r] \/ (emit'[r] = RouteSwitch(emit[r]) /\ emit'[r].err # "none")
  /\ loop'[r] = loop[r] /\ usage'[r] = usage[r] /\ result'[r] = result[r]

\* It passes the route over.
PassesOver(r) ==
  /\ (pc[r] = "top" /\ loop[r].index <= Len(asked[r].routes)) \/ pc[r] = "admitted"
  /\ pc'[r] = "top"
  /\ loop'[r] = [loop[r] EXCEPT !.index = @ + 1, !.retrying = FALSE, !.routeRetries = 0,
                                !.skipped = @ \cup {Route(r).deployment}]
  /\ abandoned'[r] = abandoned[r] /\ settling'[r] = settling[r]
  /\ usage'[r] = usage[r] /\ emit'[r] = emit[r] /\ result'[r] = result[r]

\* It tells the customer of the switch.
Announces(r) ==
  /\ MayTry(r) /\ abandoned[r] # NoAttempt
  /\ pc'[r] = "credentials"
  /\ emit'[r] = RouteSwitch(emit[r]) /\ emit'[r].err = "none"
  /\ loop'[r] = [loop[r] EXCEPT !.switches = @ + 1]
  /\ abandoned'[r] = abandoned[r] /\ settling'[r] = settling[r]
  /\ usage'[r] = usage[r] /\ result'[r] = result[r]

\* The adapter is called.
Sends(r) ==
  /\ pc[r] = "credentials" /\ pc'[r] = "streaming"
  /\ abandoned'[r] = NoAttempt /\ emit'[r] = Serving(emit[r])
  /\ loop'[r] = loop[r] /\ settling'[r] = settling[r]
  /\ usage'[r] = usage[r] /\ result'[r] = result[r]

\* The adapter reports.
Streams(r) ==
  /\ pc[r] = "streaming" /\ pc'[r] = "streaming"
  /\ \/ ~emit[r].attemptStarted /\ emit'[r] = Start(emit[r])
     \/ emit'[r] = Progress(emit[r])
     \/ emit'[r] = Output(emit[r])
  /\ loop'[r] = loop[r] /\ abandoned'[r] = abandoned[r] /\ settling'[r] = settling[r]
  /\ usage'[r] = usage[r] /\ result'[r] = result[r]

\* The adapter returns.
Comes(r, err, units, exchanges) ==
  LET attempt == Attempt(loop[r].index, err, units, Cancelled(r, err))
  IN  /\ pc[r] = "streaming"
      /\ err = NoError /\ asked[r].format # "stream" => units = "reported"
      /\ usage'[r] = usage[r] \o Rows(r, err, units, exchanges)
      /\ emit'[r] = emit[r] /\ result'[r] = result[r]
      /\ \/ /\ pc'[r] = "settle"
            /\ settling'[r] = [attempt |-> attempt, sinkErr |-> FALSE, terminal |-> "none"]
            /\ loop'[r] = loop[r] /\ abandoned'[r] = abandoned[r]
         \/ /\ Movable(r, err)
            /\ abandoned'[r] = attempt /\ settling'[r] = settling[r]
            /\ pc'[r] = "top"
            /\ loop'[r] = [loop[r] EXCEPT !.index = @ + 1, !.retrying = FALSE,
                                          !.routeRetries = 0]
         \/ /\ Movable(r, err) /\ ~emit[r].started
            /\ abandoned'[r] = attempt /\ settling'[r] = settling[r]
            /\ pc'[r] = "waiting" /\ loop[r].routeRetries < MaxRetriesPerRoute
            /\ \E wait \in 0..Budget : /\ loop[r].waited + wait <= Budget
                                       /\ loop'[r] = [loop[r] EXCEPT !.wait = wait]

ComesBack(r) ==
  \E err \in Returned, units \in Units, exchanges \in Nat : Comes(r, err, units, exchanges)

\* The backoff is over.
TriesAgain(r) ==
  /\ pc[r] = "waiting" /\ pc'[r] = "top"
  /\ loop'[r] = [loop[r] EXCEPT !.routeRetries = @ + 1, !.retrying = TRUE,
                                !.waited = @ + loop[r].wait, !.wait = 0]
  /\ abandoned'[r] = abandoned[r] /\ settling'[r] = settling[r]
  /\ usage'[r] = usage[r] /\ emit'[r] = emit[r] /\ result'[r] = result[r]

Effect(r) ==
  \/ Advances(r) \/ Fails(r) \/ GivesUp(r) \/ PassesOver(r) \/ Announces(r) \/ Sends(r)
  \/ Streams(r) \/ ComesBack(r) \/ TriesAgain(r) \/ Settle(r) \/ SettleAnswer(r)

LEMMA NoAttemptIsOne == NoAttempt \in Ended
BY DEF NoAttempt, Attempt, Ended, Returned, Units

LEMMA ResolveEffect ==
  ASSUME StateOK, NEW r \in Requests, Resolve(r)
  PROVE  OnlyAt(r) /\ (Advances(r) \/ Fails(r))
<1>1. OnlyAt(r)
  BY DEF StateOK, OnlyAt, Resolve, FailUnattempted
<1>2. CASE pc' = [pc EXCEPT ![r] = "top"] /\ UNCHANGED <<emit, result>>
  BY <1>1, <1>2 DEF StateOK, Resolve, Advances
<1>3. CASE FailUnattempted(r, "invalid_request")
  BY <1>1, <1>3 DEF StateOK, Resolve, FailUnattempted, Fails, Refusals
<1>4. QED
  BY <1>1, <1>2, <1>3 DEF Resolve

\* EndBeforeAttempt, from wherever it is called.
LEMMA EndEffect ==
  ASSUME StateOK, NEW r \in Requests, NEW failure,
         pc[r] \in {"top", "admitted", "credentials"},
         EndBeforeAttempt(r, failure), UNCHANGED <<asked, loop, abandoned, usage>>,
         abandoned[r] # NoAttempt => failure \in Terminals,
         abandoned[r] = NoAttempt => failure \in Refusals
  PROVE  OnlyAt(r) /\ (Fails(r) \/ GivesUp(r))
<1>1. OnlyAt(r)
  BY DEF StateOK, OnlyAt, EndBeforeAttempt, FailUnattempted, SettleWith
<1>2. CASE abandoned[r] # NoAttempt
  BY <1>1, <1>2 DEF StateOK, EndBeforeAttempt, SettleWith, GivesUp
<1>3. CASE abandoned[r] = NoAttempt
  BY <1>1, <1>3 DEF StateOK, EndBeforeAttempt, FailUnattempted, Fails
<1>4. QED
  BY <1>1, <1>2, <1>3

LEMMA AdmitEffect ==
  ASSUME StateOK, NEW r \in Requests, AdmitCustomer(r) \/ AdmitPlatform(r)
  PROVE  OnlyAt(r) /\ Advances(r)
<1>1. OnlyAt(r)
  BY DEF StateOK, OnlyAt, AdmitCustomer, AdmitPlatform
<1>2. QED
  BY <1>1 DEF StateOK, Advances, AdmitCustomer, AdmitPlatform

LEMMA SkipEffect ==
  ASSUME StateOK, NEW r \in Requests, SkipOpen(r) \/ Unroutable(r)
  PROVE  OnlyAt(r) /\ PassesOver(r)
<1>1. OnlyAt(r)
  BY DEF StateOK, OnlyAt, SkipOpen, Unroutable, Skip
<1>2. loop'[r] = [loop[r] EXCEPT !.index = @ + 1, !.retrying = FALSE, !.routeRetries = 0,
                                 !.skipped = @ \cup {Route(r).deployment}]
  BY DEF StateOK, SkipOpen, Unroutable, Skip
<1>3. QED
  BY <1>1, <1>2 DEF StateOK, PassesOver, SkipOpen, Unroutable, Skip

LEMMA StopEffect ==
  ASSUME StateOK, NEW r \in Requests, StopMoving(r) \/ AnnounceFails(r) \/ WaitCancelled(r)
  PROVE  OnlyAt(r) /\ GivesUp(r)
<1>1. OnlyAt(r)
  BY DEF StateOK, OnlyAt, StopMoving, AnnounceFails, WaitCancelled, SettleWith
<1>2. CASE StopMoving(r)
  BY <1>1, <1>2 DEF StateOK, StopMoving, SettleWith, GivesUp, Terminals
<1>3. CASE AnnounceFails(r)
  BY <1>1, <1>3 DEF StateOK, AnnounceFails, MayTry, SettleWith, GivesUp, Terminals
<1>4. CASE WaitCancelled(r)
  BY <1>1, <1>4 DEF StateOK, WaitCancelled, SettleWith, GivesUp, Terminals
<1>5. QED
  BY <1>2, <1>3, <1>4

LEMMA RefuseEffect ==
  ASSUME StateOK, NEW r \in Requests,
         RefuseCustomer(r) \/ Untranslatable(r) \/ CredentialFailure(r) \/ Exhausted(r)
  PROVE  OnlyAt(r) /\ (Fails(r) \/ GivesUp(r))
<1>1. CASE RefuseCustomer(r)
  BY <1>1, EndEffect DEF RefuseCustomer, Terminals, Refusals
<1>2. CASE Untranslatable(r)
  BY <1>2, EndEffect DEF Untranslatable, MayTry, Terminals, Refusals
<1>3. CASE CredentialFailure(r)
  BY <1>3, EndEffect DEF CredentialFailure, Terminals, Refusals
<1>4. CASE Exhausted(r)
  <2> DEFINE failure == IF abandoned[r] = NoAttempt THEN "out_of_rotation" ELSE "none"
  <2>1. /\ EndBeforeAttempt(r, failure) /\ UNCHANGED <<asked, loop, abandoned, usage>>
        /\ pc[r] \in {"top", "admitted", "credentials"}
    BY <1>4 DEF Exhausted
  <2>2. /\ abandoned[r] # NoAttempt => failure \in Terminals
        /\ abandoned[r] = NoAttempt => failure \in Refusals
    BY DEF Terminals, Refusals
  <2> HIDE DEF failure
  <2>3. QED
    BY <2>1, <2>2, EndEffect
<1>5. QED
  BY <1>1, <1>2, <1>3, <1>4

LEMMA AnnounceEffect ==
  ASSUME StateOK, NEW r \in Requests, Announce(r)
  PROVE  OnlyAt(r) /\ Announces(r)
<1>1. OnlyAt(r)
  BY DEF StateOK, OnlyAt, Announce
<1>2. QED
  BY <1>1 DEF StateOK, Announces, Announce

LEMMA ProceedEffect ==
  ASSUME StateOK, NEW r \in Requests, Proceed(r)
  PROVE  OnlyAt(r) /\ Advances(r)
<1>1. OnlyAt(r)
  BY DEF StateOK, OnlyAt, Proceed
<1>2. QED
  BY <1>1 DEF StateOK, Advances, Proceed

LEMMA SendEffect ==
  ASSUME StateOK, NEW r \in Requests, Send(r)
  PROVE  OnlyAt(r) /\ Sends(r)
<1>1. OnlyAt(r)
  BY DEF StateOK, OnlyAt, Send
<1>2. QED
  BY <1>1 DEF StateOK, Sends, Send

LEMMA StreamEffect ==
  ASSUME StateOK, NEW r \in Requests, AdapterReports(r)
  PROVE  OnlyAt(r) /\ Streams(r)
<1>1. OnlyAt(r)
  BY DEF StateOK, OnlyAt, AdapterReports
<1>2. QED
  BY <1>1 DEF StateOK, Streams, AdapterReports

LEMMA WaitEffect ==
  ASSUME StateOK, NEW r \in Requests, WaitOver(r)
  PROVE  OnlyAt(r) /\ TriesAgain(r)
<1>1. OnlyAt(r)
  BY DEF StateOK, OnlyAt, WaitOver
<1>2. loop'[r] = [loop[r] EXCEPT !.routeRetries = @ + 1, !.retrying = TRUE,
                                 !.waited = @ + loop[r].wait, !.wait = 0]
  BY DEF StateOK, WaitOver
<1>3. QED
  BY <1>1, <1>2 DEF StateOK, TriesAgain, WaitOver

LEMMA RecordEffect ==
  ASSUME StateOK, NEW r \in Requests, Record(r)
  PROVE  OnlyAt(r) /\ Advances(r)
<1>1. OnlyAt(r)
  BY DEF StateOK, OnlyAt, Record
<1>2. QED
  BY <1>1 DEF StateOK, Advances, Record

LEMMA FinishOnlyAt ==
  ASSUME StateOK, NEW r \in Requests, NEW ending, NEW rows, NEW report,
         Finish(r, ending, rows, report)
  PROVE  OnlyAt(r)
BY DEF StateOK, OnlyAt, Finish

LEMMA SettleEffect ==
  ASSUME StateOK, NEW r \in Requests, Settle(r) \/ SettleAnswer(r)
  PROVE  OnlyAt(r)
<1>1. CASE Settle(r)
  <2>1. \E ending, rows, report : Finish(r, ending, rows, report)
    BY <1>1 DEF Settle
  <2>2. QED
    BY <2>1, FinishOnlyAt
<1>2. CASE SettleAnswer(r)
  <2>1. \E ending, rows, report : Finish(r, ending, rows, report)
    BY <1>2 DEF SettleAnswer
  <2>2. QED
    BY <2>1, FinishOnlyAt
<1>3. QED
  BY <1>1, <1>2

LEMMA ReturnEffect ==
  ASSUME StateOK, NEW r \in Requests, pc[r] = "streaming",
         NEW err \in Returns(r), NEW units \in Measured, NEW exchanges \in Exchanges,
         Return(r, err, units, exchanges)
  PROVE  OnlyAt(r) /\ ComesBack(r)
<1> DEFINE attempt == Attempt(loop[r].index, err, units, Cancelled(r, err))
<1>1. OnlyAt(r)
  <2>1. /\ asked' = asked /\ emit' = emit /\ result' = result
        /\ \E rows : usage' = [usage EXCEPT ![r] = @ \o rows]
    BY DEF Return
  <2>2. /\ pc' = [pc EXCEPT ![r] = pc'[r]]
        /\ settling' = [settling EXCEPT ![r] = settling'[r]]
        /\ abandoned' = [abandoned EXCEPT ![r] = abandoned'[r]]
    BY DEF StateOK, Return, SettleWith, NextRoute
  <2>3. loop' = [loop EXCEPT ![r] = loop'[r]]
    BY DEF StateOK, Return, SettleWith, NextRoute
  <2>4. QED
    BY <2>1, <2>2, <2>3 DEF StateOK, OnlyAt
<1>2. err \in Returned /\ units \in Units /\ exchanges \in Nat
  <2>1. Customer(r) \in BOOLEAN
    BY DEF Customer
  <2>2. QED
    BY <2>1, ExecutorAssumption DEF Returns, Returned
<1>3. /\ err = NoError /\ asked[r].format # "stream" => units = "reported"
      /\ usage'[r] = usage[r] \o Rows(r, err, units, exchanges)
      /\ emit'[r] = emit[r] /\ result'[r] = result[r]
  BY DEF StateOK, Return
<1>4. Comes(r, err, units, exchanges)
  <2>1. CASE ~Movable(r, err) /\ SettleWith(r, attempt, FALSE, "none")
             /\ UNCHANGED <<loop, abandoned>>
    BY <1>3, <2>1 DEF StateOK, SettleWith, Comes
  <2>2. CASE /\ Movable(r, err) /\ abandoned' = [abandoned EXCEPT ![r] = attempt]
             /\ UNCHANGED settling /\ NextRoute(r)
    <3>1. loop'[r] = [loop[r] EXCEPT !.index = @ + 1, !.retrying = FALSE, !.routeRetries = 0]
      BY <2>2 DEF StateOK, NextRoute
    <3>2. QED
      BY <1>3, <2>2, <3>1 DEF StateOK, NextRoute, Comes
  <2>3. CASE /\ Movable(r, err) /\ abandoned' = [abandoned EXCEPT ![r] = attempt]
             /\ UNCHANGED settling /\ ~emit[r].started
             /\ \E wait \in RetryWaits(err, loop[r].routeRetries, loop[r].waited) :
                  loop' = [loop EXCEPT ![r].wait = wait]
             /\ pc' = [pc EXCEPT ![r] = "waiting"]
    <3>1. PICK wait \in RetryWaits(err, loop[r].routeRetries, loop[r].waited) :
                 loop' = [loop EXCEPT ![r].wait = wait]
      BY <2>3
    <3>2. /\ wait \in 0..Budget /\ loop[r].waited + wait <= Budget
          /\ ~(loop[r].routeRetries >= MaxRetriesPerRoute)
      BY <3>1 DEF RetryWaits
    <3>3. loop[r].routeRetries < MaxRetriesPerRoute
      BY <3>2, RetryPolicyAssumption DEF StateOK, LoopState
    <3>4. loop'[r] = [loop[r] EXCEPT !.wait = wait]
      BY <3>1 DEF StateOK
    <3>5. QED
      BY <1>3, <2>3, <3>2, <3>3, <3>4 DEF StateOK, Comes
  <2>4. QED
    BY <2>1, <2>2, <2>3 DEF Return
<1>5. QED
  BY <1>1, <1>2, <1>4 DEF ComesBack

\* Every step of a request is one of these, on its own state.
LEMMA StepEffect ==
  ASSUME StateOK, NEW r \in Requests, Step(r)
  PROVE  OnlyAt(r) /\ Effect(r)
BY ResolveEffect, AdmitEffect, SkipEffect, StopEffect, RefuseEffect, AnnounceEffect,
   ProceedEffect, SendEffect, StreamEffect, WaitEffect, RecordEffect, SettleEffect,
   ReturnEffect DEF Step, Effect

-----------------------------------------------------------------------------
(* The inductive invariant, request by request *)

\* Before the attempt that a request is about to make.
Choosing == {"resolve", "top", "admitted", "credentials", "waiting"}

LastRow(r) == usage[r][Len(usage[r])]

\* The walk stays on the signed list and within the retry policy.
WithinPolicy(r) ==
  /\ loop[r].index >= 1 /\ loop[r].index <= Len(asked[r].routes) + 1
  /\ pc[r] \in InFlight \cup {"waiting"} => loop[r].index <= Len(asked[r].routes)
  /\ loop[r].routeRetries <= MaxRetriesPerRoute
  /\ pc[r] = "waiting" => loop[r].routeRetries < MaxRetriesPerRoute
  /\ loop[r].waited + loop[r].wait <= Budget
  /\ abandoned[r].route <= Len(asked[r].routes)

\* What the stream shows agrees with what the emitter believes.
StreamOK(r) ==
  /\ ~emit[r].started => EventsOf(r, "start") = {} /\ ~emit[r].delivered
  /\ emit[r].delivered => emit[r].attemptStarted
  /\ pc[r] \notin {"record", "done"} =>
       /\ ~emit[r].terminated
       /\ EventsOf(r, "done") = {} /\ EventsOf(r, "error") = {}

\* A request that chooses a route has made no attempt, or moves away from the
\* last one it made; and it cannot choose once the customer has seen a start.
MovesOK(r) ==
  /\ pc[r] \in Choosing /\ abandoned[r] = NoAttempt =>
       emit[r].attempt = 0 /\ usage[r] = <<>> /\ ~emit[r].started
  /\ pc[r] \in {"resolve", "streaming"} => abandoned[r] = NoAttempt
  /\ pc[r] = "waiting" => abandoned[r] # NoAttempt
  /\ pc[r] \in {"credentials", "waiting"} => ~emit[r].started
  /\ pc[r] \in Choosing /\ abandoned[r] # NoAttempt =>
       /\ usage[r] # <<>> /\ abandoned[r].route = LastRow(r).route
       /\ abandoned[r].err # NoError /\ asked[r].format # "decisions"
  /\ asked[r].format = "decisions" => emit[r].attempt <= 1

\* settle is called for the last attempt, and with a failure if it has one.
SettlesOK(r) ==
  LET s == settling[r]
  IN  pc[r] = "settle" =>
        /\ usage[r] # <<>> /\ s.attempt.route = LastRow(r).route
        /\ s.sinkErr \/ s.terminal # "none" \/ s.attempt.cancelled => s.attempt.err # NoError
        /\ s.attempt.err = NoError /\ asked[r].format # "stream" => s.attempt.units = "reported"

\* The cost rows, which only settling marks served.
RowsOK(r) ==
  /\ usage[r] # <<>> => ~LastRow(r).hedged
  /\ pc[r] \notin {"record", "done"} => \A i \in DOMAIN usage[r] : ~usage[r][i].served
  /\ \A i \in DOMAIN usage[r] : usage[r][i].served =>
       /\ i = Len(usage[r]) /\ ~usage[r][i].hedged
       /\ emit[r].delivered \/ settling[r].attempt.err = NoError
  /\ pc[r] \in {"record", "done"} /\ emit[r].delivered => LastRow(r).served
  /\ Cardinality(OwnRows(r)) + (IF pc[r] = "streaming" THEN 1 ELSE 0) = emit[r].attempt

TriesOf(r, route) == {i \in OwnRows(r) : usage[r][i].route = route}

\* The rows are in the order of the list, and its current route has been tried
\* as often as it was retried.
WalkOK(r) ==
  /\ \A i, j \in DOMAIN usage[r] : i < j => usage[r][i].route <= usage[r][j].route
  /\ \A i \in DOMAIN usage[r] : usage[r][i].route <= loop[r].index
  /\ Cardinality(TriesOf(r, loop[r].index)) <=
       loop[r].routeRetries + (IF pc[r] \in {"waiting", "settle", "record", "done"} THEN 1 ELSE 0)
  /\ \A route \in 1..Len(asked[r].routes) : Cardinality(TriesOf(r, route)) <= 1 + MaxRetriesPerRoute

SwitchesOK(r) ==
  /\ Cardinality(EventsOf(r, "switch")) = loop[r].switches
  /\ result[r].report => result[r].switches = loop[r].switches
  /\ pc[r] \notin {"record", "done"} => ~result[r].report

\* How a request that has ended was reported.
ReportOK(r) ==
  LET attempt == settling[r].attempt
      failure == result[r].failure
  IN  pc[r] \in {"record", "done"} =>
        /\ usage[r] # <<>> => result[r].report /\ result[r].route = LastRow(r).route
        /\ failure = "none" /\ asked[r].format = "stream" => EventsOf(r, "done") # {}
        /\ failure \in {"cancelled", "undeliverable"} =>
             EventsOf(r, "done") = {} /\ EventsOf(r, "error") = {}
        /\ failure \notin {"none", "cancelled", "undeliverable", "invalid_decisions"} =>
             EventsOf(r, "error") # {} \/ emit[r].sinkFailed
        /\ emit[r].delivered /\ attempt.err # NoError /\ ~attempt.cancelled =>
             result[r].outcome = "partial" /\ result[r].units # "none"

RequestOK(r) ==
  /\ WithinPolicy(r) /\ StreamOK(r) /\ MovesOK(r) /\ SettlesOK(r)
  /\ RowsOK(r) /\ WalkOK(r) /\ SwitchesOK(r) /\ ReportOK(r)

ExecutorInv == StateOK /\ \A r \in Requests : RequestOK(r)

-----------------------------------------------------------------------------
(* Settling *)

\* f is e with the request's end written behind it, or what of it the sink took.
Closing(e, f, failure) ==
  /\ f \in EmitterState
  /\ f.attempt = e.attempt /\ f.attemptStarted = e.attemptStarted
  /\ f.delivered = e.delivered
  /\ e.started => f.started
  /\ ~f.started => EventIn(f.out, "start") = EventIn(e.out, "start")
  /\ EventIn(f.out, "switch") = EventIn(e.out, "switch")
  /\ failure = "none" => EventIn(f.out, "done") # {}
  /\ failure \in {"cancelled", "undeliverable"} =>
       /\ EventIn(f.out, "done") = EventIn(e.out, "done")
       /\ EventIn(f.out, "error") = EventIn(e.out, "error")
  /\ failure \notin {"none", "cancelled", "undeliverable", "invalid_decisions"} =>
       EventIn(f.out, "error") # {} \/ f.sinkFailed

LEMMA ClosedSilently ==
  ASSUME NEW e \in EmitterState, NEW failure \in {"cancelled", "undeliverable", "invalid_decisions"}
  PROVE  Closing(e, e, failure)
BY DEF Closing

LEMMA ClosedWithError ==
  ASSUME NEW e \in EmitterState, ~e.terminated,
         NEW failure, failure \notin {"none", "cancelled", "undeliverable"}
  PROVE  Closing(e, FinishWithError(e), failure)
<1> DEFINE f == FinishWithError(e)
<1>1. Errored(e, f)
  BY ErrorFacts
<1> HIDE DEF f
<1>2. f.out \in Seq(Event) /\ e.out \in Seq(Event)
  BY <1>1, Fields DEF Errored
<1>3. /\ EventIn(f.out, "start") = EventIn(e.out, "start")
      /\ EventIn(f.out, "switch") = EventIn(e.out, "switch")
  BY <1>1, <1>2, OtherEvents DEF Errored
<1>4. Closing(e, f, failure)
  BY <1>1, <1>3 DEF Errored, Closing
<1>5. QED
  BY <1>4 DEF f

LEMMA ClosedWithDone ==
  ASSUME NEW e \in EmitterState
  PROVE  LET done == FinishWithDone(e)
         IN  Closing(e, done, IF done.err = "none" THEN "none" ELSE "undeliverable")
<1> DEFINE f == FinishWithDone(e)
           failure == IF f.err = "none" THEN "none" ELSE "undeliverable"
<1>1. Completed(e, f)
  BY DoneFacts
<1>2. /\ f.err = "none" => failure = "none"
      /\ f.err # "none" => failure = "undeliverable"
  OBVIOUS
<1> HIDE DEF f, failure
<1>3. f.out \in Seq(Event) /\ e.out \in Seq(Event)
  BY <1>1, Fields DEF Completed
<1>4. EventIn(f.out, "switch") = EventIn(e.out, "switch")
  BY <1>1, <1>3, OtherEvents DEF Completed
<1>5. f.err # "none" => /\ EventIn(f.out, "done") = EventIn(e.out, "done")
                        /\ EventIn(f.out, "error") = EventIn(e.out, "error")
  BY <1>1, <1>3, OtherEvents DEF Completed
<1>6. Closing(e, f, failure)
  BY <1>1, <1>2, <1>4, <1>5 DEF Completed, Closing
<1>7. QED
  BY <1>6 DEF f, failure

\* Progress may be told before the end.
LEMMA ToldThenClosed ==
  ASSUME NEW e \in EmitterState, NEW t \in EmitterState, NEW f, NEW failure,
         Told(e, t), Closing(t, f, failure)
  PROVE  Closing(e, f, failure)
<1>1. t.out \in Seq(Event) /\ e.out \in Seq(Event)
  BY Fields
<1>2. \A type \in {"start", "switch", "done", "error"} : EventIn(t.out, type) = EventIn(e.out, type)
  BY <1>1, OtherEvents DEF Told
<1>3. QED
  BY <1>2 DEF Told, Quiet, Closing

LEMMA TerminalFacts ==
  ASSUME NEW e \in EmitterState, ~e.terminated,
         NEW attempt, NEW sinkErr \in BOOLEAN, NEW terminal \in Terminals
  PROVE  LET ending == Terminal(attempt, sinkErr, terminal, e)
         IN  Closing(e, ending.e, ending.failure)
<1>1. CASE sinkErr
  BY <1>1, ClosedSilently DEF Terminal, Ending
<1>2. CASE ~sinkErr /\ terminal # "none"
  BY <1>2, ClosedWithError DEF Terminal, Ending, Terminals
<1>3. CASE ~sinkErr /\ terminal = "none" /\ attempt.cancelled
  BY <1>3, ClosedSilently DEF Terminal, Ending
<1>4. CASE ~sinkErr /\ terminal = "none" /\ ~attempt.cancelled /\ attempt.err # NoError
  BY <1>4, ClosedWithError DEF Terminal, Ending
<1>5. CASE /\ ~sinkErr /\ terminal = "none" /\ ~attempt.cancelled /\ attempt.err = NoError
           /\ ~e.attemptStarted
  BY <1>5, ClosedWithError DEF Terminal, Ending
<1>6. CASE /\ ~sinkErr /\ terminal = "none" /\ ~attempt.cancelled /\ attempt.err = NoError
           /\ e.attemptStarted
  BY <1>6, ClosedWithDone DEF Terminal, Ending
<1>7. QED
  BY <1>1, <1>2, <1>3, <1>4, <1>5, <1>6

\* What settling leaves of a request.
Ends(r) ==
  LET attempt == settling[r].attempt
  IN  /\ pc[r] = "settle" /\ pc'[r] \in {"record", "done"}
      /\ loop'[r] = loop[r] /\ abandoned'[r] = abandoned[r] /\ settling'[r] = settling[r]
      /\ \E units \in Units : usage'[r] = MarkServed(usage[r], units, Served(r, attempt))
      /\ \/ Closing(emit[r], emit'[r], result'[r].failure)
         \/ /\ asked[r].format # "stream" /\ result'[r].failure = "none"
            /\ emit'[r] = emit[r]
      /\ result'[r].report
      /\ result'[r].route = attempt.route /\ result'[r].switches = loop[r].switches
      /\ emit[r].delivered /\ attempt.err # NoError /\ ~attempt.cancelled =>
           result'[r].outcome = "partial" /\ result'[r].units # "none"

LEMMA FinishFacts ==
  ASSUME StateOK, NEW r \in Requests, NEW ending, NEW rows, NEW report,
         Finish(r, ending, rows, report)
  PROVE  /\ pc'[r] \in {"record", "done"} /\ emit'[r] = ending.e /\ usage'[r] = rows
         /\ result'[r] = [report EXCEPT !.failure = ending.failure]
         /\ loop'[r] = loop[r] /\ abandoned'[r] = abandoned[r] /\ settling'[r] = settling[r]
BY DEF StateOK, Finish

LEMMA AnswerEnds ==
  ASSUME StateOK, NEW r \in Requests, SettleAnswer(r)
  PROVE  Ends(r)
<1> DEFINE s      == settling[r]
           rows   == MarkServed(usage[r], s.attempt.units, Served(r, s.attempt))
           report == [report |-> TRUE, outcome |-> "completed", units |-> s.attempt.units,
                      route |-> s.attempt.route, switches |-> loop[r].switches,
                      failure |-> "none"]
           failed == [report EXCEPT !.outcome = "failed"]
<1>1. pc[r] = "settle" /\ asked[r].format # "stream" /\ s.attempt.err = NoError
  BY DEF SettleAnswer
<1>2. s.attempt.units \in Units /\ emit[r] \in EmitterState
  BY DEF StateOK, SettleArgs, Ended
<1>3. CASE Finish(r, Ending(emit[r], "none"), rows, report)
  <2>1. /\ pc'[r] \in {"record", "done"} /\ emit'[r] = emit[r] /\ usage'[r] = rows
        /\ result'[r] = [report EXCEPT !.failure = "none"]
        /\ loop'[r] = loop[r] /\ abandoned'[r] = abandoned[r] /\ settling'[r] = settling[r]
    <3> HIDE DEF rows, report
    <3>1. QED
      BY <1>3, FinishFacts DEF Ending
  <2>2. QED
    BY <1>1, <1>2, <2>1 DEF Ends
<1>4. CASE Finish(r, Ending(emit[r], "invalid_decisions"), rows, failed)
  <2>1. /\ pc'[r] \in {"record", "done"} /\ emit'[r] = emit[r] /\ usage'[r] = rows
        /\ result'[r] = [failed EXCEPT !.failure = "invalid_decisions"]
        /\ loop'[r] = loop[r] /\ abandoned'[r] = abandoned[r] /\ settling'[r] = settling[r]
    <3> HIDE DEF rows, failed
    <3>1. QED
      BY <1>4, FinishFacts DEF Ending
  <2>2. /\ result'[r].failure = "invalid_decisions" /\ result'[r].report
        /\ result'[r].route = s.attempt.route /\ result'[r].switches = loop[r].switches
    BY <2>1
  <2>3. Closing(emit[r], emit'[r], result'[r].failure)
    BY <1>2, <2>1, <2>2, ClosedSilently
  <2>4. QED
    BY <1>1, <1>2, <2>1, <2>2, <2>3 DEF Ends
<1>5. QED
  BY <1>3, <1>4 DEF SettleAnswer

LEMMA StreamEnds ==
  ASSUME StateOK, NEW r \in Requests, StreamOK(r), SettlesOK(r), Settle(r)
  PROVE  Ends(r)
<1> DEFINE s         == settling[r]
           completed == s.attempt.err = NoError /\ ~s.sinkErr /\ s.terminal = "none"
           estimate  == NeedsEstimate(s.attempt, completed, emit[r])
           told      == IF estimate /\ ~emit[r].sinkFailed /\ ~s.sinkErr
                        THEN Progress(emit[r]) ELSE Refuse(emit[r], "none")
           sinkErr   == s.sinkErr \/ told.err # "none"
           units     == IF estimate THEN "estimated" ELSE s.attempt.units
           outcome   == Outcome(s.attempt, units, sinkErr \/ s.terminal # "none", told)
           report    == [report |-> TRUE, outcome |-> outcome, units |-> units,
                         route |-> s.attempt.route, switches |-> loop[r].switches,
                         failure |-> "none"]
           rows      == MarkServed(usage[r], units, Served(r, s.attempt))
           ending    == Terminal(s.attempt, sinkErr, s.terminal, told)
<1>1. /\ pc[r] = "settle"
      /\ Settleable(outcome, units) => Finish(r, ending, rows, report)
  BY DEF Settle
<1>2. /\ emit[r] \in EmitterState /\ s.attempt.units \in Units /\ s.sinkErr \in BOOLEAN
      /\ s.terminal \in Terminals
  BY DEF StateOK, SettleArgs, Ended
<1>3. Told(emit[r], told)
  <2>1. CASE estimate /\ ~emit[r].sinkFailed /\ ~s.sinkErr
    BY <1>2, <2>1, ProgressFacts
  <2>2. CASE ~(estimate /\ ~emit[r].sinkFailed /\ ~s.sinkErr)
    <3>1. told = Refuse(emit[r], "none") /\ "none" \in Errors
      BY <2>2 DEF Errors
    <3> HIDE DEF told
    <3>2. Refused(emit[r], told, "none")
      BY <1>2, <3>1, RefuseFacts
    <3>3. Adds(emit[r].out, emit[r].out, {"progress"})
      BY <1>2, Fields, AddsNothing
    <3>4. QED
      BY <3>2, <3>3 DEF Refused, Told
  <2>3. QED
    BY <2>1, <2>2
<1>4. told.err # "none" => s.sinkErr \/ estimate
  BY <1>2, RefuseFacts DEF Refused, Errors
<1>5. units \in Units /\ (estimate => units = "estimated") /\ (~estimate => units = s.attempt.units)
  BY <1>2 DEF Units
<1>6. estimate <=> /\ emit[r].attemptStarted
                   /\ completed \/ emit[r].delivered
                   /\ s.attempt.units \in {"none", "estimated"}
  BY DEF NeedsEstimate
<1> HIDE DEF told, estimate, units
<1>7. /\ told \in EmitterState /\ ~told.terminated /\ told.attemptStarted = emit[r].attemptStarted
  BY <1>1, <1>2, <1>3 DEF StreamOK, Told, Quiet
<1>8. Settleable(outcome, units)
  <2>1. SUFFICES ASSUME outcome = "completed", units = "none"
                 PROVE  FALSE
    BY DEF Settleable
  <2>2. s.attempt.err = NoError
    BY <2>1 DEF Outcome, OutcomeFor
  <2>3. ~s.sinkErr /\ s.terminal = "none" /\ ~s.attempt.cancelled
    BY <1>1, <2>2 DEF SettlesOK
  <2>4. ~estimate /\ s.attempt.units = "none"
    BY <1>5, <2>1
  <2>5. told.err = "none"
    BY <1>4, <2>3, <2>4
  <2>6. told.attemptStarted
    BY <2>1, <2>2, <2>3, <2>5 DEF Outcome
  <2>7. QED
    BY <1>6, <1>7, <2>2, <2>3, <2>4, <2>6
<1>9. Closing(emit[r], ending.e, ending.failure)
  <2>1. sinkErr \in BOOLEAN
    OBVIOUS
  <2>2. Closing(told, ending.e, ending.failure)
    <3> HIDE DEF sinkErr, s
    <3>1. QED
      BY <1>2, <1>7, <2>1, TerminalFacts DEF ending
  <2> HIDE DEF ending
  <2>3. QED
    BY <1>2, <1>3, <1>7, <2>2, ToldThenClosed
<1>10. /\ emit[r].delivered /\ s.attempt.err # NoError /\ ~s.attempt.cancelled =>
            outcome = "partial" /\ units # "none"
  <2>1. SUFFICES ASSUME emit[r].delivered, s.attempt.err # NoError, ~s.attempt.cancelled
                 PROVE  outcome = "partial" /\ units # "none"
    OBVIOUS
  <2>2. emit[r].attemptStarted
    BY <2>1 DEF StreamOK
  <2>3. units # "none"
    BY <1>5, <1>6, <2>1, <2>2
  <2>4. QED
    BY <2>1, <2>3 DEF Outcome, OutcomeFor
<1>11. Finish(r, ending, rows, report)
  BY <1>1, <1>8
<1>12. /\ pc'[r] \in {"record", "done"} /\ emit'[r] = ending.e /\ usage'[r] = rows
       /\ result'[r] = [report EXCEPT !.failure = ending.failure]
       /\ loop'[r] = loop[r] /\ abandoned'[r] = abandoned[r] /\ settling'[r] = settling[r]
  <2> HIDE DEF rows, report, ending
  <2>1. QED
    BY <1>11, FinishFacts
<1> HIDE DEF ending, outcome
<1>13. /\ result'[r].failure = ending.failure /\ result'[r].report
       /\ result'[r].route = s.attempt.route /\ result'[r].switches = loop[r].switches
       /\ result'[r].outcome = outcome /\ result'[r].units = units
  BY <1>12
<1>14. QED
  BY <1>1, <1>5, <1>9, <1>10, <1>12, <1>13 DEF Ends

-----------------------------------------------------------------------------
(* The cost rows *)

\* v is u with the rows of one attempt on this route behind it: its own last.
Costed(u, v, route) ==
  /\ v \in Seq(CostRow) /\ Len(u) < Len(v)
  /\ \A i \in 1..Len(u) : v[i] = u[i]
  /\ \A i \in (Len(u) + 1)..Len(v) :
       /\ v[i].route = route /\ ~v[i].served
       /\ v[i].hedged <=> i # Len(v)

\* v is u with its last row marked.
Marked(u, v, served) ==
  /\ v \in Seq(CostRow) /\ Len(v) = Len(u)
  /\ \A i \in 1..Len(u) :
       /\ v[i].route = u[i].route /\ v[i].hedged = u[i].hedged
       /\ i # Len(u) => v[i].served = u[i].served
       /\ i = Len(u) => v[i].served = served

LEMMA RowType ==
  ASSUME StateOK, NEW r \in Requests, NEW units \in Units, NEW hedged \in BOOLEAN,
         NEW verdict \in {"none", "valid", "invalid"}
  PROVE  Row(r, units, hedged, verdict) \in CostRow
BY DEF StateOK, LoopState, Row, CostRow

LEMMA RowsFacts ==
  ASSUME StateOK, NEW r \in Requests, NEW err, NEW units \in Units, NEW exchanges \in Nat
  PROVE  Costed(usage[r], usage[r] \o Rows(r, err, units, exchanges), loop[r].index)
<1> DEFINE u == usage[r]
           n == IF units = "none" THEN 0 ELSE exchanges
           hedge == Row(r, units, TRUE, "none")
           own == Row(r, units, FALSE, ValidationVerdict(r, err))
           h == [i \in 1..n |-> hedge]
           t == Rows(r, err, units, exchanges)
           v == u \o t
<1>1. n \in Nat
  OBVIOUS
<1>2. hedge \in CostRow /\ own \in CostRow
  <2>1. ValidationVerdict(r, err) \in {"none", "valid", "invalid"}
    BY DEF ValidationVerdict
  <2>2. QED
    BY <2>1, RowType
<1>3. /\ hedge.route = loop[r].index /\ ~hedge.served /\ hedge.hedged
      /\ own.route = loop[r].index /\ ~own.served /\ ~own.hedged
  BY DEF Row
<1>4. u \in Seq(CostRow) /\ Len(u) \in Nat
  BY DEF StateOK
<1>5. t = h \o <<own>>
  BY DEF Rows
<1> HIDE DEF hedge, own, n, t, u
<1>6. h \in Seq(CostRow) /\ Len(h) = n /\ \A i \in 1..n : h[i] = hedge
  <2>1. h \in [1..n -> CostRow]
    BY <1>2
  <2>2. QED
    BY <1>1, <2>1
<1> HIDE DEF h
<1>7. <<own>> \in Seq(CostRow) /\ Len(<<own>>) = 1 /\ <<own>>[1] = own
  BY <1>2
<1>8. /\ t \in Seq(CostRow) /\ Len(t) = n + 1
      /\ \A i \in 1..(n + 1) : t[i] = IF i <= n THEN h[i] ELSE <<own>>[i - n]
  BY <1>1, <1>5, <1>6, <1>7, ConcatProperties
<1>9. t[n + 1] = own /\ \A i \in 1..n : t[i] = hedge
  BY <1>1, <1>6, <1>7, <1>8
<1>10. /\ v \in Seq(CostRow) /\ Len(v) = Len(u) + (n + 1)
       /\ \A i \in 1..(Len(u) + (n + 1)) : v[i] = IF i <= Len(u) THEN u[i] ELSE t[i - Len(u)]
  <2>1. /\ v \in Seq(CostRow) /\ Len(v) = Len(u) + Len(t)
        /\ \A i \in 1..(Len(u) + Len(t)) : v[i] = IF i <= Len(u) THEN u[i] ELSE t[i - Len(u)]
    BY <1>4, <1>8, ConcatProperties
  <2>2. QED
    BY <1>8, <2>1
<1> HIDE DEF v
<1>11. \A i \in 1..Len(u) : v[i] = u[i]
  BY <1>1, <1>4, <1>10
<1>12. ASSUME NEW i \in (Len(u) + 1)..Len(v)
       PROVE  /\ v[i].route = loop[r].index /\ ~v[i].served
              /\ v[i].hedged <=> i # Len(v)
  <2>1. v[i] = t[i - Len(u)] /\ i - Len(u) \in 1..(n + 1)
    BY <1>1, <1>4, <1>10
  <2>2. CASE i = Len(v)
    <3>1. v[i] = own
      BY <1>1, <1>4, <1>9, <1>10, <2>1, <2>2
    <3>2. QED
      BY <1>3, <2>2, <3>1
  <2>3. CASE i # Len(v)
    <3>1. i - Len(u) \in 1..n
      BY <1>1, <1>4, <1>10, <2>1, <2>3
    <3>2. v[i] = hedge
      BY <1>9, <2>1, <3>1
    <3>3. QED
      BY <1>3, <2>3, <3>2
  <2>4. QED
    BY <2>2, <2>3
<1>13. Costed(u, v, loop[r].index)
  BY <1>1, <1>4, <1>10, <1>11, <1>12 DEF Costed
<1>14. QED
  BY <1>13 DEF v, u, t

LEMMA MarkFacts ==
  ASSUME NEW u \in Seq(CostRow), NEW units \in Units, NEW served \in BOOLEAN
  PROVE  Marked(u, MarkServed(u, units, served), served)
<1> DEFINE v == MarkServed(u, units, served)
<1>1. Len(u) \in Nat /\ DOMAIN u = 1..Len(u) /\ \A i \in 1..Len(u) : u[i] \in CostRow
  OBVIOUS
<1>2. v = [i \in 1..Len(u) |-> IF i = Len(u) THEN [u[i] EXCEPT !.served = served, !.units = units]
                               ELSE u[i]]
  BY <1>1 DEF MarkServed
<1> HIDE DEF v
<1>3. ASSUME NEW i \in 1..Len(u)
      PROVE  /\ v[i] \in CostRow
             /\ v[i].route = u[i].route /\ v[i].hedged = u[i].hedged
             /\ i # Len(u) => v[i].served = u[i].served
             /\ i = Len(u) => v[i].served = served
  <2>1. u[i] \in CostRow
    BY <1>1
  <2>2. CASE i = Len(u)
    <3>1. v[i] = [u[i] EXCEPT !.served = served, !.units = units]
      BY <1>2, <2>2
    <3>2. QED
      BY <2>1, <2>2, <3>1 DEF CostRow
  <2>3. CASE i # Len(u)
    <3>1. v[i] = u[i]
      BY <1>2, <2>3
    <3>2. QED
      BY <2>1, <2>3, <3>1
  <2>4. QED
    BY <2>2, <2>3
<1>4. v \in [1..Len(u) -> CostRow]
  BY <1>2, <1>3
<1>5. v \in Seq(CostRow) /\ Len(v) = Len(u)
  BY <1>1, <1>4
<1>6. Marked(u, v, served)
  BY <1>3, <1>5 DEF Marked
<1>7. QED
  BY <1>6 DEF v

-----------------------------------------------------------------------------
(* The types *)

\* What a step of r leaves of r's own state.
Change(r) ==
  \/ Advances(r) \/ Fails(r) \/ GivesUp(r) \/ PassesOver(r) \/ Announces(r) \/ Sends(r)
  \/ Streams(r) \/ ComesBack(r) \/ TriesAgain(r) \/ Ends(r)

LEMMA StepChange ==
  ASSUME StateOK, NEW r \in Requests, RequestOK(r), Step(r)
  PROVE  OnlyAt(r) /\ Change(r)
BY StepEffect, AnswerEnds, StreamEnds DEF Effect, Change, RequestOK

LEMMA ComesCosted ==
  ASSUME StateOK, NEW r \in Requests, NEW err, NEW units \in Units, NEW exchanges \in Nat,
         Comes(r, err, units, exchanges)
  PROVE  Costed(usage[r], usage'[r], loop[r].index)
BY RowsFacts DEF Comes

LEMMA EndsMarked ==
  ASSUME StateOK, NEW r \in Requests, Ends(r)
  PROVE  Marked(usage[r], usage'[r], Served(r, settling[r].attempt))
<1>1. Served(r, settling[r].attempt) \in BOOLEAN /\ usage[r] \in Seq(CostRow)
  BY DEF Served, StateOK
<1>2. PICK units \in Units : usage'[r] = MarkServed(usage[r], units, Served(r, settling[r].attempt))
  BY DEF Ends
<1>3. QED
  BY <1>1, <1>2, MarkFacts

LEMMA LoopEdits ==
  ASSUME NEW l \in LoopState
  PROVE  /\ [l EXCEPT !.retrying = FALSE, !.routeRetries = 0] \in LoopState
         /\ [l EXCEPT !.retrying = TRUE, !.wait = 0] \in LoopState
<1> DEFINE a == [l EXCEPT !.routeRetries = 0]
           b == [l EXCEPT !.wait = 0]
<1>1. a \in LoopState /\ b \in LoopState
  BY DEF LoopState
<1>2. /\ [l EXCEPT !.retrying = FALSE, !.routeRetries = 0] = [a EXCEPT !.retrying = FALSE]
      /\ [l EXCEPT !.retrying = TRUE, !.wait = 0] = [b EXCEPT !.retrying = TRUE]
  BY DEF LoopState
<1> HIDE DEF a, b
<1>3. [a EXCEPT !.retrying = FALSE] \in LoopState
  BY <1>1 DEF LoopState
<1>4. [b EXCEPT !.retrying = TRUE] \in LoopState
  BY <1>1 DEF LoopState
<1>5. QED
  BY <1>2, <1>3, <1>4

LEMMA LoopKept ==
  ASSUME StateOK, NEW r \in Requests, WithinPolicy(r), Change(r)
  PROVE  loop'[r] \in LoopState
<1>1. loop[r] \in LoopState
  BY DEF StateOK
<1>2. CASE PassesOver(r)
  <2> DEFINE next == loop[r].index + 1
             more == loop[r].skipped \cup {Route(r).deployment}
  <2>1. loop[r].index \in 1..Len(asked[r].routes)
    BY <1>1, <1>2 DEF PassesOver, WithinPolicy, InFlight, LoopState
  <2>2. asked[r].routes \in Seq([deployment : Deployments, scope : Scopes \cup {Platform}])
    BY ExecutorAssumption DEF StateOK
  <2>3. Route(r).deployment \in Deployments
    <3>1. Route(r) \in [deployment : Deployments, scope : Scopes \cup {Platform}]
      BY <2>1, <2>2, ElementOfSeq DEF Route
    <3>2. QED
      BY <3>1
  <2>4. next \in Nat /\ more \in SUBSET Deployments
    BY <1>1, <2>3 DEF LoopState
  <2> DEFINE l == [loop[r] EXCEPT !.index = next, !.skipped = more]
  <2>5. loop'[r] = [l EXCEPT !.retrying = FALSE, !.routeRetries = 0]
    BY <1>1, <1>2 DEF PassesOver, LoopState
  <2> HIDE DEF next, more
  <2>6. l \in LoopState
    BY <1>1, <2>4 DEF LoopState
  <2> HIDE DEF l
  <2>7. QED
    BY <2>5, <2>6, LoopEdits
<1>3. CASE Announces(r)
  <2> DEFINE n == loop[r].switches + 1
  <2>1. n \in Nat
    BY <1>1 DEF LoopState
  <2>2. loop'[r] = [loop[r] EXCEPT !.switches = n]
    BY <1>3 DEF Announces
  <2> HIDE DEF n
  <2>3. QED
    BY <1>1, <2>1, <2>2 DEF LoopState
<1>4. CASE ComesBack(r)
  <2>1. PICK err \in Returned, units \in Units, exchanges \in Nat : Comes(r, err, units, exchanges)
    BY <1>4 DEF ComesBack
  <2>2. CASE loop'[r] = loop[r]
    BY <1>1, <2>2
  <2>3. CASE loop'[r] = [loop[r] EXCEPT !.index = @ + 1, !.retrying = FALSE, !.routeRetries = 0]
    <3> DEFINE next == loop[r].index + 1
    <3>1. next \in Nat
      BY <1>1 DEF LoopState
    <3> DEFINE l == [loop[r] EXCEPT !.index = next]
    <3>2. loop'[r] = [l EXCEPT !.retrying = FALSE, !.routeRetries = 0]
      BY <1>1, <2>3 DEF LoopState
    <3> HIDE DEF next
    <3>3. l \in LoopState
      BY <1>1, <3>1 DEF LoopState
    <3> HIDE DEF l
    <3>4. QED
      BY <3>2, <3>3, LoopEdits
  <2>4. CASE \E wait \in 0..Budget : loop'[r] = [loop[r] EXCEPT !.wait = wait]
    <3>1. PICK wait \in 0..Budget : loop'[r] = [loop[r] EXCEPT !.wait = wait]
      BY <2>4
    <3>2. wait \in Nat
      BY RetryPolicyAssumption
    <3>3. QED
      BY <1>1, <3>1, <3>2 DEF LoopState
  <2>5. QED
    BY <2>1, <2>2, <2>3, <2>4 DEF Comes
<1>5. CASE TriesAgain(r)
  <2> DEFINE n == loop[r].routeRetries + 1
             w == loop[r].waited + loop[r].wait
  <2>1. n \in Nat /\ w \in Nat
    BY <1>1 DEF LoopState
  <2> DEFINE l == [loop[r] EXCEPT !.routeRetries = n, !.waited = w]
  <2>2. loop'[r] = [l EXCEPT !.retrying = TRUE, !.wait = 0]
    BY <1>1, <1>5 DEF TriesAgain, LoopState
  <2> HIDE DEF n, w
  <2>3. l \in LoopState
    BY <1>1, <2>1 DEF LoopState
  <2> HIDE DEF l
  <2>4. QED
    BY <2>2, <2>3, LoopEdits
<1>6. QED
  BY <1>1, <1>2, <1>3, <1>4, <1>5 DEF Change, Advances, Fails, GivesUp, Sends, Streams, Ends

LEMMA EmitKept ==
  ASSUME StateOK, NEW r \in Requests, Change(r)
  PROVE  emit'[r] \in EmitterState
<1>1. emit[r] \in EmitterState
  BY DEF StateOK
<1>2. CASE emit'[r] = emit[r]
  BY <1>1, <1>2
<1>3. CASE emit'[r] = FinishWithError(emit[r])
  BY <1>1, <1>3, ErrorFacts DEF Errored
<1>4. CASE emit'[r] = RouteSwitch(emit[r])
  BY <1>1, <1>4, SwitchFacts DEF Wrote, Refused, Quiet
<1>5. CASE emit'[r] = Serving(emit[r])
  BY <1>1, <1>5, ServingFacts
<1>6. CASE emit'[r] = Start(emit[r])
  BY <1>1, <1>6, StartFacts
<1>7. CASE emit'[r] = Progress(emit[r])
  BY <1>1, <1>7, ProgressFacts DEF Told, Quiet
<1>8. CASE emit'[r] = Output(emit[r])
  BY <1>1, <1>8, OutputFacts DEF Answered
<1>9. CASE Ends(r)
  BY <1>1, <1>9 DEF Ends, Closing
<1>10. QED
  BY <1>2, <1>3, <1>4, <1>5, <1>6, <1>7, <1>8, <1>9
     DEF Change, Advances, Fails, GivesUp, PassesOver, Announces, Sends, Streams, ComesBack,
         Comes, TriesAgain

LEMMA UsageKept ==
  ASSUME StateOK, NEW r \in Requests, Change(r)
  PROVE  usage'[r] \in Seq(CostRow)
<1>1. CASE usage'[r] = usage[r]
  BY <1>1 DEF StateOK
<1>2. CASE ComesBack(r)
  BY <1>2, ComesCosted DEF ComesBack, Costed
<1>3. CASE Ends(r)
  BY <1>3, EndsMarked DEF Marked
<1>4. QED
  BY <1>1, <1>2, <1>3
     DEF Change, Advances, Fails, GivesUp, PassesOver, Announces, Sends, Streams, TriesAgain

LEMMA AttemptType ==
  ASSUME StateOK, NEW r \in Requests, NEW err \in Returned, NEW units \in Units
  PROVE  LET a == Attempt(loop[r].index, err, units, Cancelled(r, err))
         IN  /\ a \in Ended
             /\ a.route = loop[r].index /\ a.err = err /\ a.units = units
             /\ a.cancelled => err # NoError
<1>1. loop[r].index \in Nat
  BY DEF StateOK, LoopState
<1>2. Cancelled(r, err) \in BOOLEAN /\ (Cancelled(r, err) => err # NoError)
  BY DEF Cancelled
<1> DEFINE c == Cancelled(r, err)
<1> HIDE DEF c
<1>3. QED
  <2>1. c \in BOOLEAN /\ (c => err # NoError)
    BY <1>2 DEF c
  <2>2. /\ Attempt(loop[r].index, err, units, c) \in Ended
        /\ Attempt(loop[r].index, err, units, c).route = loop[r].index
        /\ Attempt(loop[r].index, err, units, c).err = err
        /\ Attempt(loop[r].index, err, units, c).units = units
        /\ Attempt(loop[r].index, err, units, c).cancelled = c
    BY <1>1, <2>1 DEF Attempt, Ended
  <2>3. QED
    BY <2>1, <2>2 DEF c

LEMMA AbandonedKept ==
  ASSUME StateOK, NEW r \in Requests, Change(r)
  PROVE  abandoned'[r] \in Ended
<1>1. abandoned[r] \in Ended
  BY DEF StateOK
<1>2. CASE abandoned'[r] \in {abandoned[r], NoAttempt}
  BY <1>1, <1>2, NoAttemptIsOne
<1>3. CASE ComesBack(r)
  <2>1. PICK err \in Returned, units \in Units, exchanges \in Nat : Comes(r, err, units, exchanges)
    BY <1>3 DEF ComesBack
  <2>2. QED
    BY <1>1, <2>1, AttemptType DEF Comes
<1>4. QED
  BY <1>2, <1>3
     DEF Change, Advances, Fails, GivesUp, PassesOver, Announces, Sends, Streams, TriesAgain, Ends

LEMMA SettlingKept ==
  ASSUME StateOK, NEW r \in Requests, Change(r)
  PROVE  settling'[r] \in SettleArgs
<1>1. abandoned[r] \in Ended /\ settling[r] \in SettleArgs
  BY DEF StateOK
<1>2. CASE settling'[r] = settling[r]
  BY <1>1, <1>2
<1>3. CASE GivesUp(r)
  <2>1. PICK attempt \in {abandoned[r], [abandoned[r] EXCEPT !.cancelled = TRUE]},
             sinkErr \in BOOLEAN, terminal \in Terminals :
          settling'[r] = [attempt |-> attempt, sinkErr |-> sinkErr, terminal |-> terminal]
    BY <1>3 DEF GivesUp
  <2>2. attempt \in Ended
    BY <1>1, <2>1 DEF Ended
  <2>3. QED
    BY <2>1, <2>2 DEF SettleArgs
<1>4. CASE ComesBack(r)
  <2>1. PICK err \in Returned, units \in Units, exchanges \in Nat : Comes(r, err, units, exchanges)
    BY <1>4 DEF ComesBack
  <2> DEFINE a == Attempt(loop[r].index, err, units, Cancelled(r, err))
  <2>2. a \in Ended /\ "none" \in Terminals
    BY AttemptType DEF Terminals
  <2>3. settling'[r] \in {settling[r], [attempt |-> a, sinkErr |-> FALSE, terminal |-> "none"]}
    BY <2>1 DEF Comes
  <2> HIDE DEF a
  <2>4. [attempt |-> a, sinkErr |-> FALSE, terminal |-> "none"] \in SettleArgs
    BY <2>2 DEF SettleArgs
  <2>5. QED
    BY <1>1, <2>3, <2>4
<1>5. QED
  BY <1>2, <1>3, <1>4
     DEF Change, Advances, Fails, PassesOver, Announces, Sends, Streams, TriesAgain, Ends

LEMMA TypesKept ==
  ASSUME StateOK, NEW r \in Requests, WithinPolicy(r), OnlyAt(r), Change(r)
  PROVE  StateOK'
<1>1. pc'[r] \in PCs
  BY DEF PCs, InFlight, Change, Advances, Fails, GivesUp, PassesOver, Announces, Sends, Streams,
         ComesBack, Comes, TriesAgain, Ends
<1>2. asked' \in [Requests -> [format : Formats, routes : RouteLists]]
  BY DEF StateOK, OnlyAt
<1>3. pc' \in [Requests -> PCs]
  BY <1>1 DEF StateOK, OnlyAt
<1>4. loop' \in [Requests -> LoopState]
  BY LoopKept DEF StateOK, OnlyAt
<1>5. abandoned' \in [Requests -> Ended]
  BY AbandonedKept DEF StateOK, OnlyAt
<1>6. settling' \in [Requests -> SettleArgs]
  BY SettlingKept DEF StateOK, OnlyAt
<1>7. usage' \in [Requests -> Seq(CostRow)]
  BY UsageKept DEF StateOK, OnlyAt
<1>8. emit' \in [Requests -> EmitterState]
  BY EmitKept DEF StateOK, OnlyAt
<1>9. result' = [q \in Requests |-> result'[q]]
  BY DEF StateOK, OnlyAt
<1>10. QED
  BY <1>2, <1>3, <1>4, <1>5, <1>6, <1>7, <1>8, <1>9 DEF StateOK

-----------------------------------------------------------------------------
(* The step of a request keeps its own invariant *)

LEMMA PolicyKept ==
  ASSUME StateOK, StateOK', asked' = asked, NEW r \in Requests, WithinPolicy(r), Change(r)
  PROVE  WithinPolicy(r)'
<1>1. loop[r] \in LoopState /\ loop'[r] \in LoopState
  BY DEF StateOK
<1>2. asked'[r] = asked[r] /\ Len(asked[r].routes) \in Nat
  BY ExecutorAssumption DEF StateOK
<1>3. /\ loop[r].index \in Nat /\ loop[r].routeRetries \in Nat /\ loop[r].waited \in Nat
      /\ loop[r].wait \in Nat
  BY <1>1 DEF LoopState
<1>4. NoAttempt.route = 0
  BY DEF NoAttempt, Attempt
<1>5. CASE Advances(r)
  BY <1>2, <1>5 DEF WithinPolicy, Advances, MayTry, InFlight
<1>6. CASE Fails(r)
  BY <1>2, <1>6 DEF WithinPolicy, Fails, InFlight
<1>7. CASE GivesUp(r)
  BY <1>2, <1>4, <1>7 DEF WithinPolicy, GivesUp, InFlight
<1>8. CASE PassesOver(r)
  <2>1. /\ loop'[r].index = loop[r].index + 1 /\ loop'[r].routeRetries = 0
        /\ loop'[r].waited = loop[r].waited /\ loop'[r].wait = loop[r].wait
    BY <1>1, <1>8 DEF PassesOver, LoopState
  <2>2. loop[r].index <= Len(asked[r].routes) /\ pc'[r] = "top" /\ abandoned'[r] = abandoned[r]
    BY <1>8 DEF WithinPolicy, PassesOver, InFlight
  <2>3. QED
    BY <1>2, <1>3, <2>1, <2>2, RetryPolicyAssumption DEF WithinPolicy, InFlight
<1>9. CASE Announces(r)
  <2>1. /\ loop'[r].index = loop[r].index /\ loop'[r].routeRetries = loop[r].routeRetries
        /\ loop'[r].waited = loop[r].waited /\ loop'[r].wait = loop[r].wait
    BY <1>1, <1>9 DEF Announces, LoopState
  <2>2. QED
    BY <1>2, <1>9, <2>1 DEF WithinPolicy, Announces, MayTry, InFlight
<1>10. CASE Sends(r)
  BY <1>2, <1>4, <1>10 DEF WithinPolicy, Sends, InFlight
<1>11. CASE Streams(r)
  BY <1>2, <1>11 DEF WithinPolicy, Streams, InFlight
<1>12. CASE ComesBack(r)
  <2>1. PICK err \in Returned, units \in Units, exchanges \in Nat : Comes(r, err, units, exchanges)
    BY <1>12 DEF ComesBack
  <2>2. pc[r] = "streaming" /\ loop[r].index <= Len(asked[r].routes)
    BY <2>1 DEF Comes, WithinPolicy, InFlight
  <2>3. abandoned'[r].route <= Len(asked[r].routes)
    BY <2>1, <2>2, AttemptType DEF Comes, WithinPolicy
  <2>4. CASE pc'[r] = "settle" /\ loop'[r] = loop[r]
    BY <1>2, <2>3, <2>4 DEF WithinPolicy, InFlight
  <2>5. CASE /\ pc'[r] = "top"
             /\ loop'[r] = [loop[r] EXCEPT !.index = @ + 1, !.retrying = FALSE,
                                           !.routeRetries = 0]
    <3>1. /\ loop'[r].index = loop[r].index + 1 /\ loop'[r].routeRetries = 0
          /\ loop'[r].waited = loop[r].waited /\ loop'[r].wait = loop[r].wait
      BY <1>1, <2>5 DEF LoopState
    <3>2. QED
      BY <1>2, <1>3, <2>2, <2>3, <2>5, <3>1, RetryPolicyAssumption DEF WithinPolicy, InFlight
  <2>6. CASE /\ pc'[r] = "waiting" /\ loop[r].routeRetries < MaxRetriesPerRoute
             /\ \E wait \in 0..Budget : /\ loop[r].waited + wait <= Budget
                                        /\ loop'[r] = [loop[r] EXCEPT !.wait = wait]
    <3>1. PICK wait \in 0..Budget : /\ loop[r].waited + wait <= Budget
                                    /\ loop'[r] = [loop[r] EXCEPT !.wait = wait]
      BY <2>6
    <3>2. /\ loop'[r].index = loop[r].index /\ loop'[r].routeRetries = loop[r].routeRetries
          /\ loop'[r].waited = loop[r].waited /\ loop'[r].wait = wait
      BY <1>1, <3>1 DEF LoopState
    <3>3. QED
      BY <1>2, <1>3, <2>2, <2>3, <2>6, <3>1, <3>2 DEF WithinPolicy, InFlight
  <2>7. QED
    BY <2>1, <2>4, <2>5, <2>6 DEF Comes
<1>13. CASE TriesAgain(r)
  <2>1. /\ loop'[r].index = loop[r].index /\ loop'[r].routeRetries = loop[r].routeRetries + 1
        /\ loop'[r].waited = loop[r].waited + loop[r].wait /\ loop'[r].wait = 0
    BY <1>1, <1>13 DEF TriesAgain, LoopState
  <2>2. QED
    BY <1>2, <1>3, <1>13, <2>1, RetryPolicyAssumption DEF WithinPolicy, TriesAgain, InFlight
<1>14. CASE Ends(r)
  BY <1>2, <1>14 DEF WithinPolicy, Ends, InFlight
<1>15. QED
  BY <1>5, <1>6, <1>7, <1>8, <1>9, <1>10, <1>11, <1>12, <1>13, <1>14 DEF Change

\* The events of r, before and after a step.
LEMMA EventsNow ==
  ASSUME NEW r \in Requests, NEW type
  PROVE  /\ EventsOf(r, type) = EventIn(emit[r].out, type)
         /\ EventsOf(r, type)' = EventIn(emit'[r].out, type)
BY DEF EventsOf, EventIn

\* RouteSwitch adds a switch and nothing else; and says so.
LEMMA SwitchAdds ==
  ASSUME NEW e \in EmitterState, NEW f, f = RouteSwitch(e)
  PROVE  /\ f \in EmitterState
         /\ f.attempt = e.attempt /\ f.attemptStarted = e.attemptStarted
         /\ f.delivered = e.delivered /\ f.terminated = e.terminated /\ f.started = e.started
         /\ \A type \in {"start", "done", "error"} : EventIn(f.out, type) = EventIn(e.out, type)
         /\ f.err # "none" => f.out = e.out
<1>1. Quiet(e, f) /\ f.started = e.started /\ Adds(e.out, f.out, {"switch"}) /\ (f.err # "none" => f.out = e.out)
  <2>1. CASE e.started
    <3>1. Refused(e, f, "too_late")
      BY <2>1, SwitchFacts
    <3>2. Adds(e.out, e.out, {"switch"})
      BY Fields, AddsNothing
    <3>3. QED
      BY <3>1, <3>2 DEF Refused
  <2>2. CASE ~e.started
    <3>1. Wrote(e, f, "switch")
      BY <2>2, SwitchFacts
    <3>2. QED
      BY <3>1 DEF Wrote
  <2>3. QED
    BY <2>1, <2>2
<1>2. e.out \in Seq(Event) /\ f.out \in Seq(Event)
  BY <1>1, Fields DEF Quiet
<1>3. ASSUME NEW type \in {"start", "done", "error"}
      PROVE  EventIn(f.out, type) = EventIn(e.out, type)
  <2> DEFINE T == {"switch"}
  <2>1. Adds(e.out, f.out, T) /\ type \notin T
    BY <1>1
  <2> HIDE DEF T
  <2>2. QED
    BY <1>2, <2>1, OtherEvents, Zenon
<1>4. QED
  BY <1>1, <1>3 DEF Quiet

LEMMA StreamKept ==
  ASSUME StateOK, StateOK', asked' = asked, NEW r \in Requests, RequestOK(r), Change(r)
  PROVE  StreamOK(r)'
<1> DEFINE e == emit[r]
           f == emit'[r]
           Agrees(x) ==
             /\ ~x.started => EventIn(x.out, "start") = {} /\ ~x.delivered
             /\ x.delivered => x.attemptStarted
           Open(x) ==
             ~x.terminated /\ EventIn(x.out, "done") = {} /\ EventIn(x.out, "error") = {}
<1>1. e \in EmitterState /\ f \in EmitterState /\ e.out \in Seq(Event) /\ f.out \in Seq(Event)
  BY Fields DEF StateOK
<1>2. Agrees(e) /\ (pc[r] \notin {"record", "done"} => Open(e))
  BY EventsNow DEF StreamOK, RequestOK
<1>3. SUFFICES Agrees(f) /\ (pc'[r] \notin {"record", "done"} => Open(f))
  BY EventsNow DEF StreamOK
<1> HIDE DEF e, f
<1>4. CASE f = e /\ (pc[r] \in {"record", "done"} => pc'[r] \in {"record", "done"})
  BY <1>2, <1>4
<1>5. CASE Fails(r)
  <2>1. Errored(e, f) /\ pc'[r] = "done"
    BY <1>1, <1>5, ErrorFacts DEF Fails, e, f
  <2>2. EventIn(f.out, "start") = EventIn(e.out, "start")
    BY <1>1, <2>1, OtherEvents DEF Errored
  <2>3. QED
    BY <1>2, <2>1, <2>2 DEF Errored
<1>6. CASE f = RouteSwitch(e) /\ pc[r] \notin {"record", "done"}
  BY <1>1, <1>2, <1>6, SwitchAdds
<1>7. CASE Sends(r)
  <2>1. ~e.started /\ pc[r] = "credentials"
    BY <1>7 DEF RequestOK, MovesOK, Sends, e
  <2>2. f = Serving(e)
    BY <1>7 DEF Sends, e, f
  <2>3. QED
    BY <1>1, <1>2, <2>1, <2>2, ServingFacts
<1>8. CASE Streams(r)
  <2>1. pc[r] = "streaming"
    BY <1>8 DEF Streams
  <2>2. CASE f = Start(e)
    BY <1>1, <1>2, <2>1, <2>2, StartFacts
  <2>3. CASE f = Progress(e)
    <3>1. Told(e, f)
      BY <1>1, <2>3, ProgressFacts
    <3>2. \A type \in {"start", "done", "error"} : EventIn(f.out, type) = EventIn(e.out, type)
      BY <1>1, <3>1, OtherEvents DEF Told
    <3>3. QED
      BY <1>2, <2>1, <3>1, <3>2 DEF Told, Quiet
  <2>4. CASE f = Output(e)
    <3>1. Answered(e, f)
      BY <1>1, <2>4, OutputFacts
    <3>2. ASSUME NEW type \in {"done", "error"}
          PROVE  EventIn(f.out, type) = EventIn(e.out, type)
      <4>1. /\ Adds(e.out, f.out, {"start", "progress", "output"})
            /\ type \notin {"start", "progress", "output"}
        BY <3>1 DEF Answered
      <4>2. QED
        BY <1>1, <4>1, OtherEvents
    <3>3. QED
      BY <1>2, <2>1, <3>1, <3>2 DEF Answered
  <2>5. QED
    BY <1>8, <2>2, <2>3, <2>4 DEF Streams, e, f
<1>9. CASE Ends(r)
  <2>1. pc'[r] \in {"record", "done"} /\ (f = e \/ Closing(e, f, result'[r].failure))
    BY <1>9 DEF Ends, e, f
  <2>2. QED
    BY <1>2, <2>1 DEF Closing
<1>10. QED
  <2>1. \/ f = e /\ (pc[r] \in {"record", "done"} => pc'[r] \in {"record", "done"})
        \/ Fails(r) \/ (f = RouteSwitch(e) /\ pc[r] \notin {"record", "done"})
        \/ Sends(r) \/ Streams(r) \/ Ends(r)
    BY DEF Change, Advances, GivesUp, PassesOver, Announces, ComesBack, Comes, TriesAgain, MayTry, e, f
  <2>2. QED
    BY <1>4, <1>5, <1>6, <1>7, <1>8, <1>9, <2>1

\* What an attempt leaves when it comes back.
LEMMA ComesFacts ==
  ASSUME StateOK, NEW r \in Requests, WithinPolicy(r), MovesOK(r),
         NEW err \in Returned, NEW units \in Units, NEW exchanges \in Nat,
         Comes(r, err, units, exchanges)
  PROVE  LET a == Attempt(loop[r].index, err, units, Cancelled(r, err))
         IN  /\ a # NoAttempt /\ a.route = LastRow(r)'.route
             /\ usage'[r] # <<>> /\ ~LastRow(r)'.hedged
<1> DEFINE a == Attempt(loop[r].index, err, units, Cancelled(r, err))
<1>1. loop[r].index \in Nat /\ loop[r].index >= 1 /\ usage[r] \in Seq(CostRow)
  BY DEF StateOK, LoopState, WithinPolicy
<1>2. Costed(usage[r], usage'[r], loop[r].index)
  BY ComesCosted
<1>3. a.route = loop[r].index /\ NoAttempt.route = 0
  BY AttemptType DEF NoAttempt, Attempt
<1>4. /\ Len(usage[r]) \in Nat /\ Len(usage'[r]) \in Nat /\ Len(usage[r]) < Len(usage'[r])
      /\ usage'[r] \in Seq(CostRow)
  BY <1>1, <1>2 DEF Costed
<1>5. Len(usage'[r]) \in (Len(usage[r]) + 1)..Len(usage'[r])
  BY <1>4
<1>6. /\ usage'[r][Len(usage'[r])].route = loop[r].index
      /\ ~usage'[r][Len(usage'[r])].hedged
  BY <1>2, <1>5 DEF Costed
<1>7. usage'[r] # <<>>
  BY <1>4
<1> HIDE DEF a
<1>8. QED
  BY <1>1, <1>3, <1>6, <1>7 DEF LastRow, a

LEMMA MovesKept ==
  ASSUME StateOK, StateOK', asked' = asked, NEW r \in Requests, RequestOK(r), Change(r)
  PROVE  MovesOK(r)'
<1>1. emit[r] \in EmitterState /\ emit[r].attempt \in Nat /\ asked'[r] = asked[r]
  BY Fields DEF StateOK
<1>2. MovesOK(r) /\ WithinPolicy(r)
  BY DEF RequestOK
<1>3. CASE Advances(r)
  BY <1>1, <1>2, <1>3 DEF MovesOK, Advances, MayTry, Choosing, LastRow
<1>4. CASE Fails(r)
  <2>1. emit'[r].attempt = emit[r].attempt /\ pc'[r] = "done"
    BY <1>1, <1>4, ErrorFacts DEF Fails, Errored
  <2>2. QED
    BY <1>1, <1>2, <2>1 DEF MovesOK, Choosing
<1>5. CASE GivesUp(r)
  <2>1. emit'[r].attempt = emit[r].attempt /\ pc'[r] = "settle"
    BY <1>1, <1>5, SwitchAdds DEF GivesUp
  <2>2. QED
    BY <1>1, <1>2, <2>1 DEF MovesOK, Choosing
<1>6. CASE PassesOver(r)
  BY <1>1, <1>2, <1>6 DEF MovesOK, PassesOver, Choosing, LastRow
<1>7. CASE Announces(r)
  <2>1. emit'[r].attempt = emit[r].attempt /\ emit'[r].started = emit[r].started
    BY <1>1, <1>7, SwitchAdds DEF Announces
  <2>2. QED
    BY <1>1, <1>2, <1>7, <2>1 DEF MovesOK, Announces, MayTry, Choosing, LastRow
<1>8. CASE Sends(r)
  <2>1. emit'[r].attempt = emit[r].attempt + 1
    BY <1>1, <1>8, ServingFacts DEF Sends
  <2>2. asked[r].format = "decisions" => emit[r].attempt = 0
    BY <1>2, <1>8 DEF MovesOK, Sends, Choosing
  <2>3. QED
    BY <1>1, <1>2, <1>8, <2>1, <2>2 DEF MovesOK, Sends, Choosing
<1>9. CASE Streams(r)
  <2>1. emit'[r].attempt = emit[r].attempt
    BY <1>1, <1>9, StartFacts, ProgressFacts, OutputFacts DEF Streams, Told, Quiet, Answered
  <2>2. QED
    BY <1>1, <1>2, <1>9, <2>1 DEF MovesOK, Streams, Choosing
<1>10. CASE ComesBack(r)
  <2>1. PICK err \in Returned, units \in Units, exchanges \in Nat : Comes(r, err, units, exchanges)
    BY <1>10 DEF ComesBack
  <2> DEFINE a == Attempt(loop[r].index, err, units, Cancelled(r, err))
  <2>2. a # NoAttempt /\ a.route = LastRow(r)'.route /\ usage'[r] # <<>> /\ a.err = err
    BY <1>2, <2>1, ComesFacts, AttemptType
  <2>3. emit'[r] = emit[r]
    BY <2>1 DEF Comes
  <2>4. CASE pc'[r] = "settle"
    BY <1>1, <1>2, <2>3, <2>4 DEF MovesOK, Choosing
  <2>5. CASE Movable(r, err) /\ abandoned'[r] = a /\ pc'[r] = "top"
    <3>1. err # NoError /\ asked[r].format # "decisions"
      BY <2>5 DEF Movable
    <3> HIDE DEF a
    <3>2. QED
      BY <1>1, <2>2, <2>3, <2>5, <3>1 DEF MovesOK, Choosing
  <2>6. CASE Movable(r, err) /\ abandoned'[r] = a /\ pc'[r] = "waiting" /\ ~emit[r].started
    <3>1. err # NoError /\ asked[r].format # "decisions"
      BY <2>6 DEF Movable
    <3> HIDE DEF a
    <3>2. QED
      BY <1>1, <2>2, <2>3, <2>6, <3>1 DEF MovesOK, Choosing
  <2>7. QED
    BY <2>1, <2>4, <2>5, <2>6 DEF Comes
<1>11. CASE TriesAgain(r)
  BY <1>1, <1>2, <1>11 DEF MovesOK, TriesAgain, Choosing, LastRow
<1>12. CASE Ends(r)
  <2>1. emit'[r].attempt = emit[r].attempt /\ pc'[r] \in {"record", "done"}
    BY <1>12 DEF Ends, Closing
  <2>2. QED
    BY <1>1, <1>2, <2>1 DEF MovesOK, Choosing
<1>13. QED
  BY <1>3, <1>4, <1>5, <1>6, <1>7, <1>8, <1>9, <1>10, <1>11, <1>12 DEF Change

LEMMA SettlesKept ==
  ASSUME StateOK, StateOK', asked' = asked, NEW r \in Requests, RequestOK(r), Change(r)
  PROVE  SettlesOK(r)'
<1>1. MovesOK(r) /\ WithinPolicy(r) /\ asked'[r] = asked[r] /\ abandoned[r] \in Ended
  BY DEF RequestOK, StateOK
<1>2. SUFFICES ASSUME pc'[r] = "settle"
               PROVE  SettlesOK(r)'
  BY DEF SettlesOK
<1>3. CASE GivesUp(r)
  <2>1. PICK attempt \in {abandoned[r], [abandoned[r] EXCEPT !.cancelled = TRUE]},
             sinkErr \in BOOLEAN, terminal \in Terminals :
          settling'[r] = [attempt |-> attempt, sinkErr |-> sinkErr, terminal |-> terminal]
    BY <1>3 DEF GivesUp
  <2>2. attempt.err = abandoned[r].err /\ attempt.route = abandoned[r].route
    BY <1>1, <2>1 DEF Ended
  <2>3. /\ usage[r] # <<>> /\ abandoned[r].route = LastRow(r).route
        /\ abandoned[r].err # NoError /\ usage'[r] = usage[r]
    BY <1>1, <1>3 DEF GivesUp, MovesOK, Choosing
  <2>4. settling'[r].attempt = attempt
    BY <2>1
  <2>5. QED
    BY <1>2, <2>2, <2>3, <2>4 DEF SettlesOK, LastRow
<1>4. CASE ComesBack(r)
  <2>1. PICK err \in Returned, units \in Units, exchanges \in Nat : Comes(r, err, units, exchanges)
    BY <1>4 DEF ComesBack
  <2> DEFINE a == Attempt(loop[r].index, err, units, Cancelled(r, err))
  <2>2. /\ a.route = LastRow(r)'.route /\ usage'[r] # <<>> /\ a.err = err /\ a.units = units
        /\ a.cancelled => err # NoError
    BY <1>1, <2>1, ComesFacts, AttemptType
  <2>3. /\ settling'[r] = [attempt |-> a, sinkErr |-> FALSE, terminal |-> "none"]
        /\ err = NoError /\ asked[r].format # "stream" => units = "reported"
    BY <1>2, <2>1 DEF Comes
  <2> HIDE DEF a
  <2>4. settling'[r].attempt = a /\ ~settling'[r].sinkErr /\ settling'[r].terminal = "none"
    BY <2>3
  <2>5. QED
    BY <1>1, <2>2, <2>3, <2>4 DEF SettlesOK
<1>5. QED
  <2>1. GivesUp(r) \/ ComesBack(r)
    BY <1>2 DEF Change, Advances, Fails, PassesOver, Announces, Sends, Streams, TriesAgain, Ends
  <2>2. QED
    BY <1>3, <1>4, <2>1

-----------------------------------------------------------------------------
(* Counting rows and events *)

Own(u) == {i \in DOMAIN u : ~u[i].hedged}
Tries(u, route) == {i \in Own(u) : u[i].route = route}

LEMMA RowsNow ==
  ASSUME NEW r \in Requests, NEW route
  PROVE  /\ OwnRows(r) = Own(usage[r]) /\ OwnRows(r)' = Own(usage'[r])
         /\ TriesOf(r, route) = Tries(usage[r], route)
         /\ TriesOf(r, route)' = Tries(usage'[r], route)
BY DEF OwnRows, Own, TriesOf, Tries

LEMMA CountsAreFinite ==
  ASSUME NEW u \in Seq(CostRow), NEW route
  PROVE  /\ IsFiniteSet(Own(u)) /\ Cardinality(Own(u)) \in Nat
         /\ IsFiniteSet(Tries(u, route)) /\ Cardinality(Tries(u, route)) \in Nat
<1>1. DOMAIN u = 1..Len(u) /\ Len(u) \in Nat
  OBVIOUS
<1>2. IsFiniteSet(1..Len(u))
  BY <1>1, FS_Interval
<1>3. IsFiniteSet(Own(u))
  BY <1>1, <1>2, FS_Subset DEF Own
<1>4. IsFiniteSet(Tries(u, route))
  BY <1>3, FS_Subset DEF Tries
<1>5. QED
  BY <1>3, <1>4, FS_CardinalityType

\* An attempt adds one row of its own, on its route.
LEMMA AttemptCounts ==
  ASSUME NEW u \in Seq(CostRow), NEW v, NEW route, Costed(u, v, route), NEW other
  PROVE  /\ Cardinality(Own(v)) = Cardinality(Own(u)) + 1
         /\ Cardinality(Tries(v, route)) = Cardinality(Tries(u, route)) + 1
         /\ other # route => Tries(v, other) = Tries(u, other)
<1>1. /\ DOMAIN u = 1..Len(u) /\ Len(u) \in Nat /\ v \in Seq(CostRow)
      /\ DOMAIN v = 1..Len(v) /\ Len(v) \in Nat /\ Len(u) < Len(v)
  BY DEF Costed
<1>2. /\ Len(v) \in 1..Len(v) /\ Len(v) \notin 1..Len(u) /\ Len(v) \in (Len(u) + 1)..Len(v)
      /\ \A i \in 1..Len(v) : i \in 1..Len(u) \/ i \in (Len(u) + 1)..Len(v)
      /\ \A i \in 1..Len(u) : i \in 1..Len(v)
  BY <1>1
<1>3. /\ \A i \in 1..Len(u) : v[i] = u[i]
      /\ \A i \in (Len(u) + 1)..Len(v) : v[i].route = route /\ (v[i].hedged <=> i # Len(v))
  BY DEF Costed
<1>4. Own(v) = Own(u) \cup {Len(v)} /\ Len(v) \notin Own(u)
  BY <1>1, <1>2, <1>3 DEF Own
<1>5. Tries(v, route) = Tries(u, route) \cup {Len(v)} /\ Len(v) \notin Tries(u, route)
  <2>1. \A i \in Own(u) : v[i] = u[i]
    BY <1>1, <1>3 DEF Own
  <2>2. v[Len(v)].route = route
    BY <1>2, <1>3
  <2>3. QED
    BY <1>4, <2>1, <2>2 DEF Tries
<1>6. ASSUME other # route
      PROVE  Tries(v, other) = Tries(u, other)
  <2>1. \A i \in Own(u) : v[i] = u[i]
    BY <1>1, <1>3 DEF Own
  <2>2. v[Len(v)].route = route
    BY <1>2, <1>3
  <2>3. QED
    BY <1>4, <1>6, <2>1, <2>2 DEF Tries
<1>7. Cardinality(Own(v)) = Cardinality(Own(u)) + 1
  BY <1>4, CountsAreFinite, FS_AddElement
<1>8. Cardinality(Tries(v, route)) = Cardinality(Tries(u, route)) + 1
  BY <1>5, CountsAreFinite, FS_AddElement
<1>9. QED
  BY <1>6, <1>7, <1>8

\* Marking the last row served changes no count.
LEMMA MarkCounts ==
  ASSUME NEW u \in Seq(CostRow), NEW v, NEW served, Marked(u, v, served), NEW route
  PROVE  Own(v) = Own(u) /\ Tries(v, route) = Tries(u, route)
<1>1. DOMAIN u = 1..Len(u) /\ DOMAIN v = 1..Len(u)
  BY DEF Marked
<1>2. Own(v) = Own(u)
  BY <1>1 DEF Marked, Own
<1>3. \A i \in Own(u) : v[i].route = u[i].route
  BY <1>1 DEF Marked, Own
<1>4. QED
  BY <1>2, <1>3 DEF Tries

\* A switch that the sink took is one more switch on the stream.
LEMMA SwitchCounts ==
  ASSUME NEW e \in EmitterState, NEW f, f = RouteSwitch(e), f.err = "none"
  PROVE  Cardinality(EventIn(f.out, "switch")) = Cardinality(EventIn(e.out, "switch")) + 1
<1>1. Wrote(e, f, "switch")
  <2>1. e.started => f.err = "too_late"
    BY SwitchFacts DEF Refused
  <2>2. QED
    BY <2>1, SwitchFacts
<1>2. e.out \in Seq(Event) /\ f.out \in Seq(Event)
  BY <1>1, Fields DEF Wrote, Quiet
<1>3. /\ DOMAIN e.out = 1..Len(e.out) /\ Len(e.out) \in Nat
      /\ DOMAIN f.out = 1..Len(f.out) /\ Len(f.out) = Len(e.out) + 1
      /\ f.out[Len(f.out)].type = "switch"
      /\ \A i \in 1..Len(e.out) : f.out[i] = e.out[i]
  BY <1>1, <1>2 DEF Wrote, Adds
<1>4. /\ EventIn(f.out, "switch") = EventIn(e.out, "switch") \cup {Len(f.out)}
      /\ Len(f.out) \notin EventIn(e.out, "switch")
  BY <1>3 DEF EventIn
<1>5. IsFiniteSet(EventIn(e.out, "switch"))
  <2>1. IsFiniteSet(1..Len(e.out)) /\ EventIn(e.out, "switch") \subseteq 1..Len(e.out)
    BY <1>3, FS_Interval DEF EventIn
  <2>2. QED
    BY <2>1, FS_Subset
<1>6. QED
  BY <1>4, <1>5, FS_AddElement

LEMMA SwitchesKept ==
  ASSUME StateOK, StateOK', asked' = asked, NEW r \in Requests, RequestOK(r), Change(r)
  PROVE  SwitchesOK(r)'
<1> DEFINE e == emit[r]
           f == emit'[r]
           C(x) == EventIn(x.out, "switch")
<1>1. e \in EmitterState /\ f \in EmitterState /\ e.out \in Seq(Event) /\ f.out \in Seq(Event)
  BY Fields DEF StateOK
<1>2. /\ Cardinality(C(e)) = loop[r].switches
      /\ result[r].report => result[r].switches = loop[r].switches
      /\ pc[r] \notin {"record", "done"} => ~result[r].report
  BY EventsNow DEF SwitchesOK, RequestOK
<1>3. SUFFICES /\ Cardinality(C(f)) = loop'[r].switches
               /\ result'[r].report => result'[r].switches = loop'[r].switches
               /\ pc'[r] \notin {"record", "done"} => ~result'[r].report
  BY EventsNow DEF SwitchesOK
<1>4. loop[r] \in LoopState
  BY DEF StateOK
<1> HIDE DEF e, f
<1>5. CASE Advances(r)
  BY <1>2, <1>5 DEF Advances, MayTry, e, f
<1>6. CASE Fails(r)
  <2>1. Errored(e, f)
    BY <1>1, <1>6, ErrorFacts DEF Fails, e, f
  <2>2. C(f) = C(e)
    BY <1>1, <2>1, OtherEvents DEF Errored
  <2>3. ~result'[r].report /\ loop'[r] = loop[r]
    BY <1>6 DEF Fails, NoResult
  <2>4. QED
    BY <1>2, <2>2, <2>3
<1>7. CASE GivesUp(r)
  <2>1. f.out = e.out
    BY <1>1, <1>7, SwitchAdds DEF GivesUp, e, f
  <2>2. QED
    BY <1>2, <1>7, <2>1 DEF GivesUp
<1>8. CASE PassesOver(r)
  <2>1. loop'[r].switches = loop[r].switches
    BY <1>4, <1>8 DEF PassesOver, LoopState
  <2>2. QED
    BY <1>2, <1>8, <2>1 DEF PassesOver, e, f
<1>9. CASE Announces(r)
  <2>1. loop'[r].switches = loop[r].switches + 1
    BY <1>4, <1>9 DEF Announces, LoopState
  <2>2. Cardinality(C(f)) = Cardinality(C(e)) + 1
    BY <1>1, <1>9, SwitchCounts DEF Announces, e, f
  <2>3. QED
    BY <1>2, <1>9, <2>1, <2>2 DEF Announces, MayTry
<1>10. CASE Sends(r)
  <2>1. f.out = e.out
    BY <1>1, <1>10, ServingFacts DEF Sends, e, f
  <2>2. QED
    BY <1>2, <1>10, <2>1 DEF Sends
<1>11. CASE Streams(r)
  <2>1. CASE f = Start(e)
    BY <1>1, <1>2, <1>11, <2>1, StartFacts DEF Streams
  <2>2. CASE f = Progress(e)
    <3>1. Told(e, f)
      BY <1>1, <2>2, ProgressFacts
    <3>2. Adds(e.out, f.out, {"progress"}) /\ "switch" \notin {"progress"}
      BY <3>1 DEF Told
    <3>3. C(f) = C(e)
      BY <1>1, <3>2, OtherEvents
    <3>4. QED
      BY <1>2, <1>11, <3>3 DEF Streams
  <2>3. CASE f = Output(e)
    <3>1. Answered(e, f)
      BY <1>1, <2>3, OutputFacts
    <3>2. /\ Adds(e.out, f.out, {"start", "progress", "output"})
          /\ "switch" \notin {"start", "progress", "output"}
      BY <3>1 DEF Answered
    <3>3. C(f) = C(e)
      BY <1>1, <3>2, OtherEvents
    <3>4. QED
      BY <1>2, <1>11, <3>3 DEF Streams
  <2>4. QED
    BY <1>11, <2>1, <2>2, <2>3 DEF Streams, e, f
<1>12. CASE ComesBack(r)
  <2>1. PICK err \in Returned, units \in Units, exchanges \in Nat : Comes(r, err, units, exchanges)
    BY <1>12 DEF ComesBack
  <2>2. loop'[r].switches = loop[r].switches
    BY <1>4, <2>1 DEF Comes, LoopState
  <2>3. QED
    BY <1>2, <2>1, <2>2 DEF Comes, e, f
<1>13. CASE TriesAgain(r)
  <2>1. loop'[r].switches = loop[r].switches
    BY <1>4, <1>13 DEF TriesAgain, LoopState
  <2>2. QED
    BY <1>2, <1>13, <2>1 DEF TriesAgain, e, f
<1>14. CASE Ends(r)
  <2>1. C(f) = C(e)
    BY <1>14 DEF Ends, Closing, e, f
  <2>2. QED
    BY <1>2, <1>14, <2>1 DEF Ends
<1>15. QED
  BY <1>5, <1>6, <1>7, <1>8, <1>9, <1>10, <1>11, <1>12, <1>13, <1>14 DEF Change

LEMMA RowsKept ==
  ASSUME StateOK, StateOK', asked' = asked, NEW r \in Requests, RequestOK(r), Change(r)
  PROVE  RowsOK(r)'
<1>1. /\ emit[r] \in EmitterState /\ emit[r].attempt \in Nat /\ usage[r] \in Seq(CostRow)
      /\ emit[r].delivered \in BOOLEAN
  BY Fields DEF StateOK
<1>2. /\ MovesOK(r) /\ WithinPolicy(r) /\ RowsOK(r) /\ StreamOK(r) /\ SettlesOK(r)
  BY DEF RequestOK
<1>3. Cardinality(OwnRows(r)) \in Nat
  BY <1>1, CountsAreFinite, RowsNow
\* Nothing is served before the request settles.
<1>4. ASSUME pc[r] \notin {"record", "done", "streaming"}, pc'[r] \notin {"record", "done", "streaming"},
             usage'[r] = usage[r], emit'[r].attempt = emit[r].attempt
      PROVE  RowsOK(r)'
  <2>1. OwnRows(r)' = OwnRows(r)
    BY <1>4 DEF OwnRows
  <2>2. QED
    BY <1>2, <1>4, <2>1 DEF RowsOK, LastRow
<1>5. CASE Advances(r)
  <2>1. CASE pc[r] = "record"
    <3>1. OwnRows(r)' = OwnRows(r)
      BY <1>5 DEF OwnRows, Advances
    <3>2. pc'[r] = "done"
      BY <1>5, <2>1 DEF Advances, MayTry
    <3>3. QED
      BY <1>2, <1>5, <2>1, <3>1, <3>2 DEF RowsOK, LastRow, Advances
  <2>2. CASE pc[r] # "record"
    BY <1>4, <1>5, <2>2 DEF Advances, MayTry
  <2>3. QED
    BY <2>1, <2>2
<1>6. CASE Fails(r)
  <2>1. emit'[r].attempt = emit[r].attempt /\ emit'[r].delivered = emit[r].delivered
    BY <1>1, <1>6, ErrorFacts DEF Fails, Errored
  <2>2. usage[r] = <<>> /\ ~emit[r].delivered /\ pc'[r] = "done" /\ usage'[r] = usage[r]
    BY <1>2, <1>6 DEF Fails, MovesOK, StreamOK, Choosing
  <2>3. OwnRows(r)' = OwnRows(r)
    BY <2>2 DEF OwnRows
  <2>4. pc[r] # "streaming"
    BY <1>6 DEF Fails
  <2>5. QED
    BY <1>2, <2>1, <2>2, <2>3, <2>4 DEF RowsOK
<1>7. CASE GivesUp(r)
  <2>1. emit'[r].attempt = emit[r].attempt
    BY <1>1, <1>7, SwitchAdds DEF GivesUp
  <2>2. QED
    BY <1>4, <1>7, <2>1 DEF GivesUp
<1>8. CASE PassesOver(r)
  BY <1>4, <1>8 DEF PassesOver
<1>9. CASE Announces(r)
  <2>1. emit'[r].attempt = emit[r].attempt
    BY <1>1, <1>9, SwitchAdds DEF Announces
  <2>2. QED
    BY <1>4, <1>9, <2>1 DEF Announces, MayTry
<1>10. CASE Sends(r)
  <2>1. emit'[r].attempt = emit[r].attempt + 1
    BY <1>1, <1>10, ServingFacts DEF Sends
  <2>2. OwnRows(r)' = OwnRows(r)
    BY <1>10 DEF OwnRows, Sends
  <2>3. QED
    BY <1>1, <1>2, <1>3, <1>10, <2>1, <2>2 DEF RowsOK, LastRow, Sends
<1>11. CASE Streams(r)
  <2>1. emit'[r].attempt = emit[r].attempt
    BY <1>1, <1>11, StartFacts, ProgressFacts, OutputFacts DEF Streams, Told, Quiet, Answered
  <2>2. OwnRows(r)' = OwnRows(r)
    BY <1>11 DEF OwnRows, Streams
  <2>3. QED
    BY <1>2, <1>11, <2>1, <2>2 DEF RowsOK, LastRow, Streams
<1>12. CASE ComesBack(r)
  <2>1. PICK err \in Returned, units \in Units, exchanges \in Nat : Comes(r, err, units, exchanges)
    BY <1>12 DEF ComesBack
  <2>2. Costed(usage[r], usage'[r], loop[r].index)
    BY <2>1, ComesCosted
  <2>3. Cardinality(OwnRows(r)') = Cardinality(OwnRows(r)) + 1
    BY <1>1, <2>2, AttemptCounts, RowsNow
  <2>4. ~LastRow(r)'.hedged
    BY <1>2, <2>1, ComesFacts
  <2>5. \A i \in DOMAIN usage'[r] : ~usage'[r][i].served
    <3>1. /\ DOMAIN usage[r] = 1..Len(usage[r]) /\ DOMAIN usage'[r] = 1..Len(usage'[r])
          /\ Len(usage[r]) \in Nat /\ Len(usage'[r]) \in Nat
      BY <1>1, <2>2 DEF Costed
    <3>2. \A i \in 1..Len(usage[r]) : ~usage[r][i].served
      BY <1>2, <2>1, <3>1 DEF RowsOK, Comes
    <3>3. \A i \in 1..Len(usage'[r]) : i \in 1..Len(usage[r]) \/ i \in (Len(usage[r]) + 1)..Len(usage'[r])
      BY <3>1
    <3>4. QED
      BY <2>2, <3>1, <3>2, <3>3 DEF Costed
  <2>6. pc[r] = "streaming" /\ pc'[r] \notin {"record", "done", "streaming"} /\ emit'[r] = emit[r]
    BY <2>1 DEF Comes
  <2>7. Cardinality(OwnRows(r)) + 1 = emit[r].attempt
    BY <1>2, <2>6 DEF RowsOK
  <2>8. Cardinality(OwnRows(r)') + (IF pc'[r] = "streaming" THEN 1 ELSE 0) = emit'[r].attempt
    BY <1>1, <1>3, <2>3, <2>6, <2>7
  <2>9. QED
    BY <2>4, <2>5, <2>6, <2>8 DEF RowsOK
<1>13. CASE TriesAgain(r)
  BY <1>4, <1>13 DEF TriesAgain
<1>14. CASE Ends(r)
  <2> DEFINE attempt == settling[r].attempt
             served  == Served(r, attempt)
             n       == Len(usage[r])
  <2>1. Marked(usage[r], usage'[r], served)
    BY <1>14, EndsMarked
  <2>2. OwnRows(r)' = OwnRows(r)
    BY <1>1, <2>1, MarkCounts, RowsNow
  <2>3. /\ emit'[r].attempt = emit[r].attempt /\ emit'[r].delivered = emit[r].delivered
        /\ pc[r] = "settle" /\ pc'[r] \in {"record", "done"} /\ settling'[r] = settling[r]
    BY <1>14 DEF Ends, Closing
  <2>4. usage[r] # <<>>
    BY <1>2, <2>3 DEF SettlesOK
  <2>5. /\ n \in Nat /\ n > 0 /\ DOMAIN usage[r] = 1..n /\ Len(usage'[r]) = n
        /\ DOMAIN usage'[r] = 1..n
    BY <1>1, <2>1, <2>4 DEF Marked
  <2>6. n \in 1..n /\ usage'[r][n].served = served /\ usage'[r][n].hedged = usage[r][n].hedged
    BY <2>1, <2>5 DEF Marked
  <2>7. ~usage[r][n].hedged
    BY <1>2, <2>4 DEF RowsOK, LastRow
  <2>8. \A i \in 1..n : i # n => ~usage'[r][i].served
    <3>1. \A i \in 1..n : ~usage[r][i].served
      BY <1>2, <2>3, <2>5 DEF RowsOK
    <3>2. QED
      BY <2>1, <2>5, <3>1 DEF Marked
  <2>9. /\ served => emit[r].delivered \/ attempt.err = NoError
        /\ emit[r].delivered => served
    BY DEF Served
  <2> HIDE DEF served, n, attempt
  <2>10. \A i \in DOMAIN usage'[r] : usage'[r][i].served =>
           /\ i = Len(usage'[r]) /\ ~usage'[r][i].hedged
           /\ emit'[r].delivered \/ settling'[r].attempt.err = NoError
    BY <2>3, <2>5, <2>6, <2>7, <2>8, <2>9 DEF attempt
  <2>11. LastRow(r)' = usage'[r][n]
    BY <2>5 DEF LastRow
  <2>12. QED
    BY <1>2, <2>2, <2>3, <2>6, <2>7, <2>9, <2>10, <2>11 DEF RowsOK
<1>15. QED
  BY <1>5, <1>6, <1>7, <1>8, <1>9, <1>10, <1>11, <1>12, <1>13, <1>14 DEF Change

\* A route the walk has not come to has no row.
LEMMA NoRowsAhead ==
  ASSUME NEW u \in Seq(CostRow), NEW n \in Nat, \A i \in DOMAIN u : u[i].route <= n
  PROVE  Cardinality(Tries(u, n + 1)) = 0
<1>1. \A i \in DOMAIN u : u[i].route # n + 1
  <2>1. \A i \in DOMAIN u : u[i] \in CostRow
    OBVIOUS
  <2>2. \A i \in DOMAIN u : u[i].route \in Nat
    BY <2>1 DEF CostRow
  <2>3. QED
    BY <2>2
<1>2. Tries(u, n + 1) = {}
  BY <1>1 DEF Tries, Own
<1>3. QED
  BY <1>2, FS_EmptySet

LEMMA WalkKept ==
  ASSUME StateOK, StateOK', asked' = asked, NEW r \in Requests, RequestOK(r), Change(r)
  PROVE  WalkOK(r)'
<1> DEFINE Late == {"waiting", "settle", "record", "done"}
           u == usage[r]
           v == usage'[r]
           index == loop[r].index
           next == loop'[r].index
           retries == loop[r].routeRetries
           then == loop'[r].routeRetries
           Ordered(x) == \A i, j \in DOMAIN x : i < j => x[i].route <= x[j].route
           UpTo(x, n) == \A i \in DOMAIN x : x[i].route <= n
           Bounded(x) == \A route \in 1..Len(asked[r].routes) :
                           Cardinality(Tries(x, route)) <= 1 + MaxRetriesPerRoute
           N(x, n) == Cardinality(Tries(x, n))
<1>1. /\ u \in Seq(CostRow) /\ v \in Seq(CostRow)
      /\ loop[r] \in LoopState /\ loop'[r] \in LoopState
      /\ index \in Nat /\ next \in Nat /\ retries \in Nat /\ then \in Nat
  BY DEF StateOK, LoopState
<1>2. /\ Ordered(u) /\ UpTo(u, index) /\ Bounded(u)
      /\ N(u, index) <= retries + (IF pc[r] \in Late THEN 1 ELSE 0)
  BY RowsNow DEF RequestOK, WalkOK
<1>3. SUFFICES /\ Ordered(v) /\ UpTo(v, next) /\ Bounded(v)
               /\ N(v, next) <= then + (IF pc'[r] \in Late THEN 1 ELSE 0)
  BY RowsNow DEF WalkOK
<1>4. \A x \in Seq(CostRow) : \A n : N(x, n) \in Nat
  BY CountsAreFinite
<1>5. \A x \in Seq(CostRow) : \A i \in DOMAIN x : x[i].route \in Nat
  <2>1. \A x \in Seq(CostRow) : \A i \in DOMAIN x : x[i] \in CostRow
    OBVIOUS
  <2>2. QED
    BY <2>1 DEF CostRow
<1>6. WithinPolicy(r)
  BY DEF RequestOK
<1> HIDE DEF u, v, index, next, retries, then, N, Ordered, UpTo, Bounded
<1>7. CASE v = u /\ next = index /\ then = retries /\ (pc[r] \in Late => pc'[r] \in Late)
  BY <1>1, <1>2, <1>4, <1>7
<1>8. CASE PassesOver(r)
  <2>1. next = index + 1 /\ then = 0 /\ v = u
    BY <1>1, <1>8 DEF PassesOver, LoopState, u, v, index, next, then
  <2>2. N(u, index + 1) = 0
    BY <1>1, <1>2, NoRowsAhead DEF N, UpTo
  <2>3. UpTo(u, index + 1)
    BY <1>1, <1>2, <1>5 DEF UpTo
  <2>4. QED
    BY <1>2, <2>1, <2>2, <2>3
<1>9. CASE ComesBack(r)
  <2>1. PICK err \in Returned, units \in Units, exchanges \in Nat : Comes(r, err, units, exchanges)
    BY <1>9 DEF ComesBack
  <2>2. Costed(u, v, index)
    BY <2>1, ComesCosted DEF u, v, index
  <2>3. pc[r] = "streaming"
    BY <2>1 DEF Comes
  <2>4. /\ DOMAIN u = 1..Len(u) /\ DOMAIN v = 1..Len(v) /\ Len(u) \in Nat /\ Len(v) \in Nat
        /\ Len(u) < Len(v)
        /\ \A i \in 1..Len(u) : v[i] = u[i]
        /\ \A i \in (Len(u) + 1)..Len(v) : v[i].route = index
    BY <1>1, <2>2 DEF Costed
  <2>5. UpTo(v, index)
    <3>1. ASSUME NEW i \in 1..Len(v)
          PROVE  v[i].route <= index
      <4>1. CASE i \in 1..Len(u)
        BY <1>2, <2>4, <4>1 DEF UpTo
      <4>2. CASE i \in (Len(u) + 1)..Len(v)
        BY <1>1, <2>4, <4>2
      <4>3. QED
        BY <2>4, <4>1, <4>2
    <3>2. QED
      BY <2>4, <3>1 DEF UpTo
  <2>6. Ordered(v)
    <3>1. ASSUME NEW i \in 1..Len(v), NEW j \in 1..Len(v), i < j
          PROVE  v[i].route <= v[j].route
      <4>1. CASE j \in 1..Len(u)
        <5>1. i \in 1..Len(u)
          BY <2>4, <3>1, <4>1
        <5>2. QED
          BY <1>2, <2>4, <3>1, <4>1, <5>1 DEF Ordered
      <4>2. CASE j \in (Len(u) + 1)..Len(v)
        BY <2>4, <2>5, <4>2 DEF UpTo
      <4>3. QED
        BY <2>4, <4>1, <4>2
    <3>2. QED
      BY <2>4, <3>1 DEF Ordered
  <2>7. N(v, index) = N(u, index) + 1 /\ N(u, index) <= retries
    BY <1>1, <1>2, <1>4, <2>2, <2>3, AttemptCounts DEF N
  <2>8. retries <= MaxRetriesPerRoute
    BY <1>6 DEF WithinPolicy, retries
  <2>9. Bounded(v)
    <3>1. ASSUME NEW route \in 1..Len(asked[r].routes)
          PROVE  N(v, route) <= 1 + MaxRetriesPerRoute
      <4>1. CASE route = index
        BY <1>1, <1>4, <2>7, <2>8, <4>1, RetryPolicyAssumption
      <4>2. CASE route # index
        <5>1. Tries(v, route) = Tries(u, route)
          BY <1>1, <2>2, <4>2, AttemptCounts
        <5>2. QED
          BY <1>2, <5>1 DEF Bounded, N
      <4>3. QED
        BY <4>1, <4>2
    <3>2. QED
      BY <3>1 DEF Bounded, N
  <2>10. CASE next = index /\ then = retries /\ pc'[r] \in {"settle", "waiting"}
    BY <1>1, <1>4, <2>5, <2>6, <2>7, <2>9, <2>10
  <2>11. CASE next = index + 1 /\ then = 0
    <3>1. N(v, index + 1) = 0
      BY <1>1, <2>5, NoRowsAhead DEF N, UpTo
    <3>2. UpTo(v, index + 1)
      BY <1>1, <1>5, <2>5 DEF UpTo
    <3>3. QED
      BY <2>6, <2>9, <2>11, <3>1, <3>2
  <2>12. QED
    <3>1. \/ next = index /\ then = retries /\ pc'[r] \in {"settle", "waiting"}
          \/ next = index + 1 /\ then = 0
      BY <1>1, <2>1 DEF Comes, LoopState, index, next, retries, then
    <3>2. QED
      BY <2>10, <2>11, <3>1
<1>10. CASE TriesAgain(r)
  <2>1. next = index /\ then = retries + 1 /\ v = u /\ pc[r] = "waiting" /\ pc'[r] = "top"
    BY <1>1, <1>10 DEF TriesAgain, LoopState, u, v, index, next, retries, then
  <2>2. QED
    BY <1>1, <1>2, <1>4, <2>1
<1>11. CASE Ends(r)
  <2>1. Marked(u, v, Served(r, settling[r].attempt))
    BY <1>11, EndsMarked DEF u, v
  <2>2. next = index /\ then = retries /\ pc[r] = "settle" /\ pc'[r] \in Late
    BY <1>11 DEF Ends, index, next, retries, then
  <2>3. \A route : N(v, route) = N(u, route)
    BY <1>1, <2>1, MarkCounts DEF N
  <2>4. DOMAIN v = DOMAIN u /\ \A i \in DOMAIN u : v[i].route = u[i].route
    BY <1>1, <2>1 DEF Marked
  <2>5. Ordered(v) /\ UpTo(v, index) /\ Bounded(v)
    BY <1>2, <2>3, <2>4 DEF Ordered, UpTo, Bounded, N
  <2>6. QED
    BY <1>2, <2>2, <2>3, <2>5
<1>12. CASE Announces(r)
  <2>1. next = index /\ then = retries /\ v = u /\ pc[r] = "admitted"
    BY <1>1, <1>12 DEF Announces, MayTry, LoopState, u, v, index, next, retries, then
  <2>2. QED
    BY <1>7, <2>1
<1>13. QED
  <2>1. \/ v = u /\ next = index /\ then = retries /\ (pc[r] \in Late => pc'[r] \in Late)
        \/ PassesOver(r) \/ Announces(r) \/ ComesBack(r) \/ TriesAgain(r) \/ Ends(r)
    BY DEF Change, Advances, MayTry, Fails, GivesUp, Sends, Streams, u, v, index, next, retries, then
  <2>2. QED
    BY <1>7, <1>8, <1>9, <1>10, <1>11, <1>12, <2>1

LEMMA ReportKept ==
  ASSUME StateOK, StateOK', asked' = asked, NEW r \in Requests, RequestOK(r), Change(r)
  PROVE  ReportOK(r)'
<1>1. emit[r] \in EmitterState /\ asked'[r] = asked[r] /\ usage[r] \in Seq(CostRow)
  BY DEF StateOK
<1>2. MovesOK(r) /\ StreamOK(r) /\ SettlesOK(r) /\ ReportOK(r)
  BY DEF RequestOK
<1>3. SUFFICES ASSUME pc'[r] \in {"record", "done"}
               PROVE  ReportOK(r)'
  BY DEF ReportOK
<1>4. CASE Advances(r)
  <2>1. pc[r] = "record"
    BY <1>3, <1>4 DEF Advances, MayTry
  <2>2. QED
    BY <1>1, <1>2, <1>4, <2>1 DEF Advances, ReportOK, EventsOf, LastRow
<1>5. CASE Fails(r)
  <2>1. /\ usage[r] = <<>> /\ ~emit[r].delivered /\ ~emit[r].terminated
        /\ usage'[r] = usage[r]
    BY <1>2, <1>5 DEF Fails, MovesOK, StreamOK, Choosing
  <2>2. Errored(emit[r], emit'[r])
    BY <1>1, <1>5, ErrorFacts DEF Fails
  <2>3. ~emit'[r].delivered /\ (EventIn(emit'[r].out, "error") # {} \/ emit'[r].sinkFailed)
    BY <2>1, <2>2 DEF Errored
  <2>4. result'[r].failure \in Refusals
    BY <1>5 DEF Fails, NoResult
  <2>5. result'[r].failure \notin {"none", "cancelled", "undeliverable"}
    BY <2>4 DEF Refusals
  <2>6. QED
    BY <2>1, <2>3, <2>5, EventsNow DEF ReportOK
<1>6. CASE Ends(r)
  <2> DEFINE attempt == settling[r].attempt
  <2>1. /\ pc[r] = "settle" /\ settling'[r] = settling[r]
        /\ result'[r].report /\ result'[r].route = attempt.route
        /\ emit[r].delivered /\ attempt.err # NoError /\ ~attempt.cancelled =>
             result'[r].outcome = "partial" /\ result'[r].units # "none"
    BY <1>6 DEF Ends
  <2>2. usage[r] # <<>> /\ attempt.route = LastRow(r).route
    BY <1>2, <2>1 DEF SettlesOK
  <2>3. LastRow(r)'.route = LastRow(r).route
    <3>1. Marked(usage[r], usage'[r], Served(r, attempt))
      BY <1>6, EndsMarked
    <3>2. Len(usage[r]) \in 1..Len(usage[r])
      BY <1>1, <2>2
    <3>3. QED
      BY <3>1, <3>2 DEF Marked, LastRow
  <2>4. EventIn(emit[r].out, "done") = {} /\ EventIn(emit[r].out, "error") = {}
    BY <1>2, <2>1, EventsNow DEF StreamOK
  <2>5. emit'[r].delivered = emit[r].delivered
    BY <1>6 DEF Ends, Closing
  <2>6. CASE Closing(emit[r], emit'[r], result'[r].failure)
    BY <1>1, <2>1, <2>2, <2>3, <2>4, <2>5, <2>6, EventsNow DEF ReportOK, Closing
  <2>7. CASE asked[r].format # "stream" /\ result'[r].failure = "none"
    BY <1>1, <2>1, <2>2, <2>3, <2>5, <2>7 DEF ReportOK
  <2>8. QED
    BY <1>6, <2>6, <2>7 DEF Ends
<1>7. QED
  <2>1. Advances(r) \/ Fails(r) \/ Ends(r)
    BY <1>3 DEF Change, GivesUp, PassesOver, Announces, Sends, Streams, ComesBack, Comes, TriesAgain
  <2>2. QED
    BY <1>4, <1>5, <1>6, <2>1

LEMMA RequestKept ==
  ASSUME StateOK, StateOK', asked' = asked, NEW r \in Requests, RequestOK(r), Change(r)
  PROVE  RequestOK(r)'
<1>1. WithinPolicy(r)
  BY DEF RequestOK
<1>2. QED
  BY <1>1, PolicyKept, StreamKept, MovesKept, SettlesKept, RowsKept, WalkKept, SwitchesKept,
     ReportKept DEF RequestOK

\* A request whose own state does not change keeps its invariant.
SameAt(r) ==
  /\ asked'[r] = asked[r] /\ pc'[r] = pc[r] /\ loop'[r] = loop[r]
  /\ abandoned'[r] = abandoned[r] /\ settling'[r] = settling[r] /\ usage'[r] = usage[r]
  /\ emit'[r] = emit[r] /\ result'[r] = result[r]

LEMMA SameKept ==
  ASSUME NEW r \in Requests, RequestOK(r), SameAt(r)
  PROVE  RequestOK(r)'
<1>1. \A type : EventsOf(r, type)' = EventsOf(r, type)
  BY DEF SameAt, EventsOf
<1>2. /\ LastRow(r)' = LastRow(r) /\ OwnRows(r)' = OwnRows(r)
      /\ \A route : TriesOf(r, route)' = TriesOf(r, route)
  BY DEF SameAt, LastRow, OwnRows, TriesOf
<1>3. WithinPolicy(r)'
  BY DEF RequestOK, SameAt, WithinPolicy
<1>4. StreamOK(r)'
  BY <1>1 DEF RequestOK, SameAt, StreamOK
<1>5. MovesOK(r)'
  BY <1>2 DEF RequestOK, SameAt, MovesOK
<1>6. SettlesOK(r)'
  BY <1>2 DEF RequestOK, SameAt, SettlesOK
<1>7. RowsOK(r)'
  BY <1>2 DEF RequestOK, SameAt, RowsOK
<1>8. WalkOK(r)'
  BY <1>2 DEF RequestOK, SameAt, WalkOK
<1>9. SwitchesOK(r)'
  BY <1>1 DEF RequestOK, SameAt, SwitchesOK
<1>10. ReportOK(r)'
  BY <1>1, <1>2 DEF RequestOK, SameAt, ReportOK
<1>11. QED
  BY <1>3, <1>4, <1>5, <1>6, <1>7, <1>8, <1>9, <1>10 DEF RequestOK

\* Steps of the environment: a cancellation, the clocks, a reload.
Own8 == <<asked, pc, loop, abandoned, settling, usage, emit, result>>

LEMMA EnvironmentKept ==
  ASSUME ExecutorInv, UNCHANGED Own8
  PROVE  ExecutorInv'
<1>1. StateOK'
  BY DEF ExecutorInv, StateOK, Own8
<1>2. ASSUME NEW r \in Requests
      PROVE  RequestOK(r)'
  BY SameKept DEF ExecutorInv, Own8, SameAt
<1>3. QED
  BY <1>1, <1>2 DEF ExecutorInv

LEMMA ExecutorInvStep ==
  ASSUME ExecutorInv, [Next]_vars
  PROVE  ExecutorInv'
<1>1. ASSUME NEW r \in Requests, Step(r)
      PROVE  ExecutorInv'
  <2>1. OnlyAt(r) /\ Change(r)
    BY <1>1, StepChange DEF ExecutorInv
  <2>2. StateOK' /\ asked' = asked
    BY <2>1, TypesKept DEF ExecutorInv, RequestOK, OnlyAt
  <2>3. ASSUME NEW q \in Requests
        PROVE  RequestOK(q)'
    <3>1. CASE q = r
      BY <2>1, <2>2, <3>1, RequestKept DEF ExecutorInv
    <3>2. CASE q # r
      <4>1. SameAt(q)
        BY <2>1, <3>2 DEF OnlyAt, SameAt, ExecutorInv, StateOK
      <4>2. QED
        BY <4>1, SameKept DEF ExecutorInv
    <3>3. QED
      BY <3>1, <3>2
  <2>4. QED
    BY <2>2, <2>3 DEF ExecutorInv
<1>2. ASSUME NEW r \in Requests, Cancel(r)
      PROVE  ExecutorInv'
  BY <1>2, EnvironmentKept DEF Cancel, Own8
<1>3. CASE Clock
  BY <1>3, EnvironmentKept DEF Clock, Own8
<1>4. CASE Reload
  BY <1>4, EnvironmentKept DEF Reload, Own8
<1>5. CASE UNCHANGED vars
  BY <1>5, EnvironmentKept DEF vars, Own8
<1>6. QED
  BY <1>1, <1>2, <1>3, <1>4, <1>5 DEF Next

LEMMA ExecutorInvInit ==
  ASSUME Init
  PROVE  ExecutorInv
<1>1. Loop0 \in LoopState
  BY DEF Loop0, LoopState
<1>2. PICK rooms \in [Requests -> Rooms] : emit = [r \in Requests |-> NewEmitter(rooms[r])]
  BY DEF Init
<1>3. ASSUME NEW r \in Requests
      PROVE  /\ emit[r] \in EmitterState /\ emit[r].out = <<>> /\ emit[r].attempt = 0
             /\ ~emit[r].started /\ ~emit[r].delivered /\ ~emit[r].terminated
  <2>1. rooms[r] \in Nat
    <3>1. rooms[r] \in Rooms
      BY <1>2, <1>3
    <3>2. QED
      BY <3>1, ExecutorAssumption
  <2>2. emit[r] = NewEmitter(rooms[r])
    BY <1>2, <1>3
  <2>3. \A T : <<>> \in Seq(T)
    OBVIOUS
  <2>4. QED
    BY <2>1, <2>2, <2>3 DEF NewEmitter, EmitterState, Errors
<1>4. NoAttempt \in Ended /\ "none" \in Terminals
  BY NoAttemptIsOne DEF Terminals
<1>5. [attempt |-> NoAttempt, sinkErr |-> FALSE, terminal |-> "none"] \in SettleArgs
  BY <1>4 DEF SettleArgs
<1>6. StateOK
  <2>1. emit \in [Requests -> EmitterState]
    BY <1>2, <1>3
  <2>2. settling \in [Requests -> SettleArgs]
    BY <1>5 DEF Init
  <2>3. usage \in [Requests -> Seq(CostRow)]
    BY DEF Init
  <2>4. pc \in [Requests -> PCs]
    BY DEF Init, PCs
  <2>5. QED
    BY <1>1, <1>4, <2>1, <2>2, <2>3, <2>4 DEF Init, StateOK
<1>7. ASSUME NEW r \in Requests
      PROVE  RequestOK(r)
  <2>1. /\ pc[r] = "resolve" /\ loop[r] = Loop0 /\ abandoned[r] = NoAttempt /\ usage[r] = <<>>
        /\ result[r] = NoResult
    BY <1>7 DEF Init
  <2>2. /\ loop[r].index = 1 /\ loop[r].routeRetries = 0 /\ loop[r].waited = 0
        /\ loop[r].wait = 0 /\ loop[r].switches = 0 /\ abandoned[r].route = 0
        /\ ~result[r].report
    BY <2>1 DEF Loop0, NoAttempt, Attempt, NoResult
  <2>3. \A type : EventsOf(r, type) = {}
    BY <1>3 DEF EventsOf
  <2>4. OwnRows(r) = {} /\ \A route : TriesOf(r, route) = {}
    BY <2>1 DEF OwnRows, TriesOf
  <2>5. Len(asked[r].routes) \in Nat
    BY <1>6, ExecutorAssumption DEF StateOK
  <2>6. WithinPolicy(r)
    BY <2>1, <2>2, <2>5, RetryPolicyAssumption DEF WithinPolicy, InFlight
  <2>7. StreamOK(r)
    BY <1>3, <2>3 DEF StreamOK
  <2>8. MovesOK(r)
    BY <1>3, <2>1 DEF MovesOK, Choosing
  <2>9. SettlesOK(r) /\ ReportOK(r)
    BY <2>1 DEF SettlesOK, ReportOK
  <2>10. RowsOK(r)
    BY <1>3, <2>1, <2>4, FS_EmptySet DEF RowsOK
  <2>11. WalkOK(r)
    <3>1. Cardinality({}) = 0
      BY FS_EmptySet
    <3>2. DOMAIN usage[r] = {}
      BY <2>1
    <3>3. \A route : Cardinality(TriesOf(r, route)) = 0
      BY <2>4, <3>1
    <3>4. Cardinality(TriesOf(r, loop[r].index)) <=
            loop[r].routeRetries
              + (IF pc[r] \in {"waiting", "settle", "record", "done"} THEN 1 ELSE 0)
      <4>1. ~(pc[r] \in {"waiting", "settle", "record", "done"})
        BY <2>1
      <4>2. QED
        BY <2>2, <3>3, <4>1
    <3>5. \A route \in 1..Len(asked[r].routes) :
            Cardinality(TriesOf(r, route)) <= 1 + MaxRetriesPerRoute
      BY <3>3, RetryPolicyAssumption
    <3>6. QED
      BY <3>2, <3>4, <3>5 DEF WalkOK
  <2>12. SwitchesOK(r)
    BY <2>2, <2>3, FS_EmptySet DEF SwitchesOK
  <2>13. QED
    BY <2>6, <2>7, <2>8, <2>9, <2>10, <2>11, <2>12 DEF RequestOK
<1>8. QED
  BY <1>6, <1>7 DEF ExecutorInv

LEMMA ExecutorInvHolds == Spec => []ExecutorInv
<1>1. Init => ExecutorInv
  BY ExecutorInvInit
<1>2. ExecutorInv /\ [Next]_vars => ExecutorInv'
  BY ExecutorInvStep
<1>3. QED
  BY <1>1, <1>2, PTL DEF Spec

-----------------------------------------------------------------------------
(* What the invariant says of the executor *)

\* TypeOK for every policy: a request stays within its signed list, retries a
\* route no more often than RetryPolicy allows and spends no more backoff than
\* its budget (execute's loop, RetryPolicy.next and waitForRetry).
THEOREM RequestsAreWellFormed == Spec => []TypeOK
<1>1. ExecutorInv => TypeOK
  <2>1. SUFFICES ASSUME ExecutorInv, NEW r \in Requests
                 PROVE  /\ loop[r].index \in 1..(Len(asked[r].routes) + 1)
                        /\ loop[r].routeRetries \in 0..MaxRetriesPerRoute
                        /\ loop[r].waited + loop[r].wait \in 0..Budget
                        /\ emit[r] \in EmitterState
                        /\ abandoned[r].route \in 0..Len(asked[r].routes)
    BY DEF ExecutorInv, StateOK, TypeOK
  <2>2. WithinPolicy(r)
    BY <2>1 DEF ExecutorInv, RequestOK
  <2>3. /\ loop[r].index \in Nat /\ loop[r].routeRetries \in Nat
        /\ loop[r].waited \in Nat /\ loop[r].wait \in Nat
    BY <2>1 DEF ExecutorInv, StateOK, LoopState
  <2>4. emit[r] \in EmitterState
    BY <2>1 DEF ExecutorInv, StateOK
  <2>5. abandoned[r].route \in Nat
    BY <2>1 DEF ExecutorInv, StateOK, Ended
  <2>6. Len(asked[r].routes) \in Nat /\ MaxRetriesPerRoute \in Nat /\ Budget \in Nat
    BY <2>1, ExecutorAssumption, RetryPolicyAssumption DEF ExecutorInv, StateOK
  <2>7. loop[r].index \in 1..(Len(asked[r].routes) + 1)
    BY <2>2, <2>3, <2>6 DEF WithinPolicy
  <2>8. loop[r].routeRetries \in 0..MaxRetriesPerRoute
    BY <2>2, <2>3, <2>6 DEF WithinPolicy
  <2>9. loop[r].waited + loop[r].wait \in 0..Budget
    <3>1. loop[r].waited + loop[r].wait <= Budget
      BY <2>2 DEF WithinPolicy
    <3>2. loop[r].waited + loop[r].wait \in Nat
      BY <2>3
    <3>3. QED
      BY <2>6, <3>1, <3>2
  <2>10. abandoned[r].route \in 0..Len(asked[r].routes)
    BY <2>2, <2>5, <2>6 DEF WithinPolicy
  <2>11. QED
    BY <2>4, <2>7, <2>8, <2>9, <2>10
<1>2. QED
  BY <1>1, ExecutorInvHolds, PTL

\* A decisions request reaches an adapter at most once, whatever its attempt
\* returned and however many routes were signed for it: it may have been
\* accepted and billed (execute's movable test).
THEOREM DecisionsAreNotRepeated == Spec => []DecisionsSentOnce
<1>1. ExecutorInv => DecisionsSentOnce
  BY DEF ExecutorInv, RequestOK, MovesOK, DecisionsSentOnce
<1>2. QED
  BY <1>1, ExecutorInvHolds, PTL

\* Every attempt that was sent leaves its own cost row on every path out of it,
\* and a row is marked served only for the attempt that settled and only if the
\* customer got an answer (streamAttempt, settle).
THEOREM EveryAttemptIsCosted == Spec => []AttemptsAreCosted
<1>1. ExecutorInv => AttemptsAreCosted
  BY DEF ExecutorInv, RequestOK, RowsOK, LastRow, AttemptsAreCosted
<1>2. QED
  BY <1>1, ExecutorInvHolds, PTL

\* The attempts follow the signed order and stay within the retry policy, and
\* the switches on the receipt are the ones the customer was shown (execute's
\* route loop, RetryPolicy.next and emitter.routeSwitch).
THEOREM SignedRoutesAreWalked == Spec => []RoutesAsSigned
<1>1. ExecutorInv => WalksSignedRoutes
  BY DEF ExecutorInv, RequestOK, WalkOK, TriesOf, WalksSignedRoutes
<1>2. ExecutorInv => SwitchesAsAnnounced
  BY DEF ExecutorInv, RequestOK, SwitchesOK, SwitchesAsAnnounced
<1>3. QED
  BY <1>1, <1>2, ExecutorInvHolds, PTL DEF RoutesAsSigned

\* The report handed over for settlement names the last attempt that ran, ends
\* the way the stream ended, and charges a delivered failure as partial
\* (settle, outcomeFor and the emitter's terminal event).
THEOREM ReportsAgree == Spec => []ReportAgrees
<1>1. ExecutorInv => AttemptedIsReported
  BY DEF ExecutorInv, RequestOK, ReportOK, LastRow, AttemptedIsReported
<1>2. ExecutorInv => EndsAsReported
  BY DEF ExecutorInv, RequestOK, ReportOK, EndsAsReported
<1>3. ExecutorInv => DeliveredFailureIsPartial
  BY DEF ExecutorInv, RequestOK, ReportOK, DeliveredFailureIsPartial
<1>4. QED
  BY <1>1, <1>2, <1>3, ExecutorInvHolds, PTL DEF ReportAgrees

\* Only Send begins an attempt.
LEMMA OnlySendBegins ==
  ASSUME StateOK, NEW r \in Requests, Change(r), ~Sends(r)
  PROVE  emit'[r].attempt = emit[r].attempt
<1>1. emit[r] \in EmitterState
  BY DEF StateOK
<1>2. CASE Fails(r)
  BY <1>1, <1>2, ErrorFacts DEF Fails, Errored
<1>3. CASE GivesUp(r)
  BY <1>1, <1>3, SwitchAdds DEF GivesUp
<1>4. CASE Announces(r)
  BY <1>1, <1>4, SwitchAdds DEF Announces
<1>5. CASE Streams(r)
  BY <1>1, <1>5, StartFacts, ProgressFacts, OutputFacts DEF Streams, Told, Quiet, Answered
<1>6. CASE ComesBack(r)
  BY <1>6 DEF ComesBack, Comes
<1>7. CASE Ends(r)
  BY <1>7 DEF Ends, Closing
<1>8. CASE Advances(r) \/ PassesOver(r) \/ TriesAgain(r)
  BY <1>8 DEF Advances, PassesOver, TriesAgain
<1>9. QED
  BY <1>2, <1>3, <1>4, <1>5, <1>6, <1>7, <1>8 DEF Change

\* Once a start event has reached the customer's sink no attempt is begun, on
\* the same route or another, whatever fails afterwards (execute tests
\* emitter.started before it waits and before it moves on).
THEOREM NoSecondAnswer == Spec => NeverMovesAfterDelivery
<1>1. ASSUME ExecutorInv, [Next]_vars, NEW q \in Requests, EventsOf(q, "start") # {}
      PROVE  emit'[q].attempt = emit[q].attempt
  <2>1. emit[q].started
    BY <1>1 DEF ExecutorInv, RequestOK, StreamOK
  <2>2. ASSUME NEW r \in Requests, Step(r)
        PROVE  emit'[q].attempt = emit[q].attempt
    <3>1. OnlyAt(r) /\ Change(r)
      BY <1>1, <2>2, StepChange DEF ExecutorInv
    <3>2. CASE q = r
      <4>1. ~Sends(r)
        BY <1>1, <2>1, <3>2 DEF ExecutorInv, RequestOK, MovesOK, Sends
      <4>2. QED
        BY <1>1, <3>1, <3>2, <4>1, OnlySendBegins DEF ExecutorInv
    <3>3. CASE q # r
      BY <1>1, <3>1, <3>3 DEF OnlyAt, ExecutorInv, StateOK
    <3>4. QED
      BY <3>2, <3>3
  <2>3. (\E r \in Requests : Step(r)) \/ UNCHANGED emit
    BY <1>1 DEF Next, Cancel, Clock, Reload, vars
  <2>4. QED
    BY <2>2, <2>3
<1>2. ExecutorInv /\ [Next]_vars =>
        [\A r \in Requests :
           EventsOf(r, "start") # {} => emit'[r].attempt = emit[r].attempt]_vars
  BY <1>1
<1>3. Init => ExecutorInv
  BY ExecutorInvInit
<1>4. ExecutorInv /\ [Next]_vars => ExecutorInv'
  BY ExecutorInvStep
<1>5. QED
  BY <1>2, <1>3, <1>4, PTL DEF Spec, NeverMovesAfterDelivery

-----------------------------------------------------------------------------
(* Permits *)

\* A request on a route holds the one permit of that route, and no request off
\* its routes holds any: PermitsFollowRequests, with the permit counted.
HoldsOK(r) ==
  IF pc[r] \notin InFlight THEN PermitsOf(r) = {} /\ LimitsOf(r) = {}
  ELSE IF Customer(r)
       THEN PermitsOf(r) = {} /\ \E p : LimitsOf(r) = {p} /\ p.scope = Route(r).scope
       ELSE LimitsOf(r) = {} /\ \E p : PermitsOf(r) = {p} /\ p.id = Route(r).deployment

PermitsInv == \A r \in Requests : HoldsOK(r)

\* What a step of a request does to the permits: nothing, and it stays on its
\* route or off its routes; or it takes one; or it gives its own back.
Stays(r) ==
  /\ UNCHANGED <<rotationPermits, customerPermits>>
  /\ \/ pc[r] \notin InFlight /\ pc'[r] \notin InFlight
     \/ pc[r] \in InFlight /\ pc'[r] \in InFlight /\ loop'[r].index = loop[r].index

Takes(r) ==
  /\ pc[r] = "top" /\ pc'[r] = "admitted" /\ loop'[r] = loop[r]
  /\ \/ /\ Customer(r) /\ UNCHANGED rotationPermits
        /\ \E p : /\ p.by = r /\ p.scope = Route(r).scope
                  /\ customerPermits' = customerPermits \cup {p}
     \/ /\ ~Customer(r) /\ UNCHANGED customerPermits
        /\ \E p : /\ p.by = r /\ p.id = Route(r).deployment
                  /\ rotationPermits' = rotationPermits \cup {p}

Gives(r) ==
  /\ pc[r] \in InFlight /\ pc'[r] \notin InFlight
  /\ \/ /\ Customer(r) /\ UNCHANGED rotationPermits
        /\ \E p \in customerPermits : p.by = r /\ customerPermits' = customerPermits \ {p}
     \/ /\ ~Customer(r) /\ UNCHANGED customerPermits
        /\ \E p \in rotationPermits : p.by = r /\ rotationPermits' = rotationPermits \ {p}

LEMMA GiveFacts ==
  ASSUME NEW r \in Requests, NEW outcome, NEW kind, NEW retryAfter,
         Give(r, outcome, kind, retryAfter), pc[r] \in InFlight, pc'[r] \notin InFlight
  PROVE  Gives(r)
<1>1. CASE Customer(r)
  <2>1. ReportCustomer(r, kind, retryAfter) /\ UNCHANGED rotationPermits
    BY <1>1 DEF Give
  <2>2. PICK p \in customerPermits : p.by = r /\ Limits!Report(p, kind, retryAfter)
    BY <2>1 DEF ReportCustomer
  <2>3. customerPermits' = customerPermits \ {p}
    BY <2>2 DEF Limits!Report
  <2>4. QED
    BY <1>1, <2>1, <2>2, <2>3 DEF Gives
<1>2. CASE ~Customer(r)
  <2>1. ReportRotation(r, outcome) /\ UNCHANGED customerPermits
    BY <1>2 DEF Give
  <2>2. PICK p \in rotationPermits : p.by = r /\ Rotation!Report(p, outcome)
    BY <2>1 DEF ReportRotation
  <2>3. rotationPermits' = rotationPermits \ {p}
    BY <2>2 DEF Rotation!Report
  <2>4. QED
    BY <1>2, <2>1, <2>2, <2>3 DEF Gives
<1>3. QED
  BY <1>1, <1>2

LEMMA AdmitTakes ==
  ASSUME StateOK, NEW r \in Requests, AdmitCustomer(r) \/ AdmitPlatform(r)
  PROVE  Takes(r)
<1>1. pc[r] = "top" /\ pc'[r] = "admitted" /\ loop'[r] = loop[r]
  BY DEF AdmitCustomer, AdmitPlatform, StateOK
<1>2. CASE AdmitCustomer(r)
  <2> DEFINE p == [by |-> r, scope |-> Route(r).scope, trial |-> Limits!Swept[Route(r).scope].known]
  <2>1. customerPermits' = customerPermits \cup {p}
    BY <1>2 DEF AdmitCustomer, Limits!Admit
  <2>2. p.by = r /\ p.scope = Route(r).scope
    OBVIOUS
  <2>3. Customer(r) /\ UNCHANGED rotationPermits
    BY <1>2 DEF AdmitCustomer
  <2> HIDE DEF p
  <2>4. QED
    BY <1>1, <2>1, <2>2, <2>3 DEF Takes
<1>3. CASE AdmitPlatform(r)
  <2> DEFINE p == [by |-> r, id |-> Route(r).deployment,
                   trial |-> breakers[Route(r).deployment].state # "closed"]
  <2>1. rotationPermits' = rotationPermits \cup {p}
    BY <1>3 DEF AdmitPlatform, Rotation!Admit
  <2>2. p.by = r /\ p.id = Route(r).deployment
    OBVIOUS
  <2>3. ~Customer(r) /\ UNCHANGED customerPermits
    BY <1>3 DEF AdmitPlatform
  <2> HIDE DEF p
  <2>4. QED
    BY <1>1, <2>1, <2>2, <2>3 DEF Takes
<1>4. QED
  BY <1>2, <1>3

LEMMA StepPermits ==
  ASSUME StateOK, NEW r \in Requests, Step(r)
  PROVE  Stays(r) \/ Takes(r) \/ Gives(r)
<1>1. pc \in [Requests -> PCs] /\ loop \in [Requests -> LoopState] /\ loop[r] \in LoopState
  BY DEF StateOK
<1>2. CASE Resolve(r) \/ SkipOpen(r) \/ WaitOver(r) \/ WaitCancelled(r) \/ Exhausted(r)
          \/ Record(r) \/ RefuseCustomer(r)
  <2>1. UNCHANGED <<rotationPermits, customerPermits>>
    BY <1>2 DEF Resolve, SkipOpen, WaitOver, WaitCancelled, Exhausted, Record, RefuseCustomer,
                Limits!Refuse, registries
  <2>2. pc[r] \in {"resolve", "top", "waiting", "record"}
    BY <1>2 DEF Resolve, SkipOpen, WaitOver, WaitCancelled, Exhausted, Record, RefuseCustomer
  <2>3. pc'[r] \in {"top", "done", "settle"}
    BY <1>1, <1>2 DEF Resolve, SkipOpen, WaitOver, WaitCancelled, Exhausted, Record,
                RefuseCustomer, Skip, SettleWith, EndBeforeAttempt, FailUnattempted
  <2>4. QED
    BY <2>1, <2>2, <2>3 DEF Stays, InFlight
<1>3. CASE AdmitCustomer(r) \/ AdmitPlatform(r)
  BY <1>3, AdmitTakes
<1>4. CASE Unroutable(r) \/ StopMoving(r) \/ Untranslatable(r) \/ AnnounceFails(r)
          \/ CredentialFailure(r)
  <2>1. NotAttributable(r)
    BY <1>4 DEF Unroutable, StopMoving, Untranslatable, AnnounceFails, CredentialFailure
  <2>2. pc[r] \in {"admitted", "credentials"}
    BY <1>4 DEF Unroutable, StopMoving, Untranslatable, AnnounceFails, CredentialFailure, MayTry
  <2>3. pc'[r] \in {"top", "done", "settle"}
    BY <1>1, <1>4 DEF Unroutable, StopMoving, Untranslatable, AnnounceFails, CredentialFailure,
                      Skip, SettleWith, EndBeforeAttempt, FailUnattempted
  <2>4. pc[r] \in InFlight /\ pc'[r] \notin InFlight
    BY <2>2, <2>3 DEF InFlight
  <2>5. QED
    BY <2>1, <2>4, GiveFacts DEF NotAttributable
<1>5. CASE Announce(r) \/ Proceed(r) \/ Send(r) \/ AdapterReports(r)
  <2>1. UNCHANGED <<rotationPermits, customerPermits>>
    BY <1>5 DEF Announce, Proceed, Send, AdapterReports, registries
  <2>2. pc[r] \in {"admitted", "credentials", "streaming"}
    BY <1>5 DEF Announce, Proceed, Send, AdapterReports, MayTry
  <2>3. pc'[r] \in {"credentials", "streaming"}
    BY <1>1, <1>5 DEF Announce, Proceed, Send, AdapterReports
  <2>4. loop'[r].index = loop[r].index
    BY <1>1, <1>5 DEF Announce, Proceed, Send, AdapterReports, LoopState
  <2>5. QED
    BY <2>1, <2>2, <2>3, <2>4 DEF Stays, InFlight
<1>6. ASSUME pc[r] = "streaming", NEW err, NEW units, NEW exchanges, Return(r, err, units, exchanges)
      PROVE  Gives(r)
  <2>1. Give(r, RotationVerdict(r, err), CustomerVerdict(err), err.retryAfter)
    BY <1>6 DEF Return
  <2>2. pc'[r] \in {"top", "waiting", "settle"}
    BY <1>1, <1>6 DEF Return, SettleWith, NextRoute
  <2>3. QED
    BY <1>6, <2>1, <2>2, GiveFacts DEF InFlight
<1>7. ASSUME NEW ending, NEW rows, NEW report, Finish(r, ending, rows, report), pc[r] = "settle"
      PROVE  Stays(r)
  <2>1. UNCHANGED <<rotationPermits, customerPermits>>
    BY <1>7 DEF Finish, registries
  <2>2. pc'[r] \in {"record", "done"}
    BY <1>1, <1>7 DEF Finish
  <2>3. QED
    BY <1>7, <2>1, <2>2 DEF Stays, InFlight
<1>8. CASE Settle(r)
  BY <1>7, <1>8 DEF Settle
<1>9. CASE SettleAnswer(r)
  BY <1>7, <1>9 DEF SettleAnswer
<1>10. QED
  BY <1>2, <1>3, <1>4, <1>5, <1>6, <1>8, <1>9 DEF Step

\* A request's own step keeps the count of its permits right.
LEMMA OwnPermits ==
  ASSUME NEW r \in Requests, asked' = asked, HoldsOK(r), Stays(r) \/ Takes(r) \/ Gives(r)
  PROVE  HoldsOK(r)'
<1>1. CASE Stays(r)
  BY <1>1 DEF Stays, HoldsOK, PermitsOf, LimitsOf, Customer, Route
<1>2. CASE Takes(r)
  <2>1. PermitsOf(r) = {} /\ LimitsOf(r) = {}
    BY <1>2 DEF Takes, HoldsOK, InFlight
  <2>2. pc'[r] \in InFlight /\ Route(r)' = Route(r) /\ Customer(r)' = Customer(r)
    BY <1>2 DEF Takes, InFlight, Route, Customer
  <2>3. CASE Customer(r)
    <3>1. PICK p : /\ p.by = r /\ p.scope = Route(r).scope
                   /\ customerPermits' = customerPermits \cup {p}
      BY <1>2, <2>3 DEF Takes
    <3>2. LimitsOf(r)' = {p} /\ PermitsOf(r)' = {}
      BY <1>2, <2>1, <2>3, <3>1 DEF Takes, PermitsOf, LimitsOf
    <3>3. QED
      BY <2>2, <2>3, <3>1, <3>2 DEF HoldsOK
  <2>4. CASE ~Customer(r)
    <3>1. PICK p : /\ p.by = r /\ p.id = Route(r).deployment
                   /\ rotationPermits' = rotationPermits \cup {p}
      BY <1>2, <2>4 DEF Takes
    <3>2. PermitsOf(r)' = {p} /\ LimitsOf(r)' = {}
      BY <1>2, <2>1, <2>4, <3>1 DEF Takes, PermitsOf, LimitsOf
    <3>3. QED
      BY <2>2, <2>4, <3>1, <3>2 DEF HoldsOK
  <2>5. QED
    BY <2>3, <2>4
<1>3. CASE Gives(r)
  <2>1. PermitsOf(r)' = {} /\ LimitsOf(r)' = {}
    <3>1. CASE Customer(r)
      BY <1>3, <3>1 DEF Gives, HoldsOK, PermitsOf, LimitsOf
    <3>2. CASE ~Customer(r)
      BY <1>3, <3>2 DEF Gives, HoldsOK, PermitsOf, LimitsOf
    <3>3. QED
      BY <3>1, <3>2
  <2>2. QED
    BY <1>3, <2>1 DEF Gives, HoldsOK
<1>4. QED
  BY <1>1, <1>2, <1>3

\* A step of one request leaves the permits of the others alone.
LEMMA OtherPermits ==
  ASSUME NEW r \in Requests, NEW q \in Requests, q # r, Stays(r) \/ Takes(r) \/ Gives(r)
  PROVE  PermitsOf(q)' = PermitsOf(q) /\ LimitsOf(q)' = LimitsOf(q)
<1>1. CASE Stays(r)
  BY <1>1 DEF Stays, PermitsOf, LimitsOf
<1>2. CASE Takes(r)
  BY <1>2 DEF Takes, PermitsOf, LimitsOf
<1>3. CASE Gives(r)
  BY <1>3 DEF Gives, PermitsOf, LimitsOf
<1>4. QED
  BY <1>1, <1>2, <1>3

LEMMA SamePermits ==
  ASSUME NEW q \in Requests, HoldsOK(q), PermitsOf(q)' = PermitsOf(q), LimitsOf(q)' = LimitsOf(q),
         pc'[q] = pc[q], loop'[q] = loop[q], asked' = asked
  PROVE  HoldsOK(q)'
<1>1. Route(q)' = Route(q) /\ Customer(q)' = Customer(q)
  BY DEF Route, Customer
<1>2. QED
  BY <1>1 DEF HoldsOK

LEMMA PermitsInvStep ==
  ASSUME ExecutorInv, PermitsInv, [Next]_vars
  PROVE  PermitsInv'
<1>1. ASSUME NEW r \in Requests, Step(r), NEW q \in Requests
      PROVE  HoldsOK(q)'
  <2>1. OnlyAt(r)
    BY <1>1, StepChange DEF ExecutorInv
  <2>2. Stays(r) \/ Takes(r) \/ Gives(r)
    BY <1>1, StepPermits DEF ExecutorInv
  <2>3. HoldsOK(q) /\ asked' = asked
    BY <1>1, <2>1 DEF PermitsInv, OnlyAt
  <2>4. CASE q = r
    BY <2>2, <2>3, <2>4, OwnPermits
  <2>5. CASE q # r
    <3>1. pc'[q] = pc[q] /\ loop'[q] = loop[q]
      BY <1>1, <2>1, <2>5 DEF OnlyAt, ExecutorInv, StateOK
    <3>2. QED
      BY <1>1, <2>2, <2>3, <2>5, <3>1, OtherPermits, SamePermits
  <2>6. QED
    BY <2>4, <2>5
<1>2. ASSUME UNCHANGED <<rotationPermits, customerPermits, pc, loop, asked>>, NEW q \in Requests
      PROVE  HoldsOK(q)'
  <2>1. HoldsOK(q) /\ PermitsOf(q)' = PermitsOf(q) /\ LimitsOf(q)' = LimitsOf(q)
    BY <1>2 DEF PermitsInv, PermitsOf, LimitsOf
  <2>2. QED
    BY <1>2, <2>1, SamePermits
<1>3. \/ \E r \in Requests : Step(r)
      \/ UNCHANGED <<rotationPermits, customerPermits, pc, loop, asked>>
  <2>1. Clock => UNCHANGED <<rotationPermits, customerPermits, pc, loop, asked>>
    <3>1. Rotation!Tick => UNCHANGED rotationPermits
      BY DEF Rotation!Tick
    <3>2. Limits!Tick => UNCHANGED customerPermits
      BY Zenon DEF Limits!Tick
    <3>3. QED
      BY <3>1, <3>2 DEF Clock
  <2>2. Reload => UNCHANGED <<rotationPermits, customerPermits, pc, loop, asked>>
    BY DEF Reload, Rotation!Retain
  <2>3. \A r \in Requests : Cancel(r) => UNCHANGED <<rotationPermits, customerPermits, pc, loop, asked>>
    BY DEF Cancel, registries
  <2>4. UNCHANGED vars => UNCHANGED <<rotationPermits, customerPermits, pc, loop, asked>>
    BY DEF vars, registries
  <2>5. QED
    BY <2>1, <2>2, <2>3, <2>4 DEF Next
<1>4. QED
  BY <1>1, <1>2, <1>3 DEF PermitsInv

\* A permit is held exactly while its request is on the route it was admitted
\* to, and every way out of the attempt gives it back: a route passed over, a
\* translation or credential failure, a switch the sink refused, an answer, a
\* failure, a cancellation (execute, Permit.report of both registries).
THEOREM PermitsAreGivenBack == Spec => []PermitsFollowRequests
<1>1. Init => PermitsInv
  <2>1. SUFFICES ASSUME Init, NEW r \in Requests
                 PROVE  HoldsOK(r)
    BY DEF PermitsInv
  <2>2. rotationPermits = {} /\ customerPermits = {} /\ pc[r] = "resolve"
    BY <2>1 DEF Init, Rotation!Init, Limits!Init
  <2>3. QED
    BY <2>2 DEF HoldsOK, PermitsOf, LimitsOf, InFlight
<1>2. Init => ExecutorInv
  BY ExecutorInvInit
<1>3. ExecutorInv /\ [Next]_vars => ExecutorInv'
  BY ExecutorInvStep
<1>4. ExecutorInv /\ PermitsInv /\ [Next]_vars => PermitsInv'
  BY PermitsInvStep
<1>5. PermitsInv => PermitsFollowRequests
  BY DEF PermitsInv, HoldsOK, PermitsFollowRequests
<1>6. QED
  BY <1>1, <1>2, <1>3, <1>4, <1>5, PTL DEF Spec
=============================================================================

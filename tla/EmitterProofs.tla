--------------------------- MODULE EmitterProofs ---------------------------
(***************************************************************************)
(* From the provider's wire to the customer's stream.  The emitter: its    *)
(* record stays well formed, what was delivered is committed, and the      *)
(* customer sees a CustomerStream, for any number of attempts, events and  *)
(* sink failures.  Hedged exchanges: every race is decided.  Provider      *)
(* streams: what is billed is what the provider counted, and an answer     *)
(* that succeeds arrived whole and in order.                               *)
(***************************************************************************)
EXTENDS Emitter, ProviderStreams, HedgedExchanges, SequenceTheorems, FiniteSetTheorems, WellFoundedInduction, TLAPS

-----------------------------------------------------------------------------
\* Replacing one field by a value of its type leaves a well-formed record.
LEMMA SetStarted ==
  ASSUME NEW e \in EmitterState, NEW x \in BOOLEAN
  PROVE  [e EXCEPT !.started = x] \in EmitterState
BY DEF EmitterState

LEMMA SetAttemptStarted ==
  ASSUME NEW e \in EmitterState, NEW x \in BOOLEAN
  PROVE  [e EXCEPT !.attemptStarted = x] \in EmitterState
BY DEF EmitterState

LEMMA SetPendingStart ==
  ASSUME NEW e \in EmitterState, NEW x \in Nat
  PROVE  [e EXCEPT !.pendingStart = x] \in EmitterState
BY DEF EmitterState

LEMMA SetPending ==
  ASSUME NEW e \in EmitterState, NEW x \in Seq(Nat)
  PROVE  [e EXCEPT !.pending = x] \in EmitterState
BY DEF EmitterState

LEMMA SetSequence ==
  ASSUME NEW e \in EmitterState, NEW x \in Nat
  PROVE  [e EXCEPT !.sequence = x] \in EmitterState
BY DEF EmitterState

LEMMA SetTerminated ==
  ASSUME NEW e \in EmitterState, NEW x \in BOOLEAN
  PROVE  [e EXCEPT !.terminated = x] \in EmitterState
BY DEF EmitterState

LEMMA SetSinkFailed ==
  ASSUME NEW e \in EmitterState, NEW x \in BOOLEAN
  PROVE  [e EXCEPT !.sinkFailed = x] \in EmitterState
BY DEF EmitterState

LEMMA SetDelivered ==
  ASSUME NEW e \in EmitterState, NEW x \in BOOLEAN
  PROVE  [e EXCEPT !.delivered = x] \in EmitterState
BY DEF EmitterState

LEMMA SetAttempt ==
  ASSUME NEW e \in EmitterState, NEW x \in Nat
  PROVE  [e EXCEPT !.attempt = x] \in EmitterState
BY DEF EmitterState

LEMMA SetRoom ==
  ASSUME NEW e \in EmitterState, NEW x \in Nat
  PROVE  [e EXCEPT !.room = x] \in EmitterState
BY DEF EmitterState

LEMMA SetOut ==
  ASSUME NEW e \in EmitterState, NEW x \in Seq(Event)
  PROVE  [e EXCEPT !.out = x] \in EmitterState
BY DEF EmitterState

LEMMA SetErr ==
  ASSUME NEW e \in EmitterState, NEW x \in Errors
  PROVE  [e EXCEPT !.err = x] \in EmitterState
BY DEF EmitterState

LEMMA FieldTypes ==
  ASSUME NEW e \in EmitterState
  PROVE  /\ e.started \in BOOLEAN /\ e.attemptStarted \in BOOLEAN
         /\ e.terminated \in BOOLEAN /\ e.sinkFailed \in BOOLEAN
         /\ e.delivered \in BOOLEAN
         /\ e.pendingStart \in Nat /\ e.pending \in Seq(Nat)
         /\ e.sequence \in Nat /\ e.attempt \in Nat /\ e.room \in Nat
         /\ e.out \in Seq(Event) /\ e.err \in Errors
BY DEF EmitterState

-----------------------------------------------------------------------------
\* The operators below are rewritten as one replacement after the other.
LEMMA RefuseType ==
  ASSUME NEW e \in EmitterState, NEW why \in Errors
  PROVE  Refuse(e, why) \in EmitterState
BY SetErr DEF Refuse

LEMMA ServingType ==
  ASSUME NEW e \in EmitterState
  PROVE  Serving(e) \in EmitterState
<1> DEFINE n == e.attempt + 1
           none == <<>>
<1>1. n \in Nat BY FieldTypes
<1>2. none \in Seq(Nat) OBVIOUS
<1>3. "none" \in Errors BY DEF Errors
<1> DEFINE e1 == [e EXCEPT !.attempt = n]
           e2 == [e1 EXCEPT !.attemptStarted = FALSE]
           e3 == [e2 EXCEPT !.pendingStart = 0]
           e4 == [e3 EXCEPT !.pending = none]
           e5 == [e4 EXCEPT !.err = "none"]
<1> HIDE DEF n, none
<1>4. e1 \in EmitterState BY <1>1, SetAttempt
<1>5. e2 \in EmitterState BY <1>4, SetAttemptStarted DEF e2
<1> HIDE DEF e1, e2, e3, e4
<1>6. e3 \in EmitterState BY <1>5, SetPendingStart DEF e3
<1>7. e4 \in EmitterState BY <1>2, <1>6, SetPending DEF e4
<1>8. e5 \in EmitterState BY <1>3, <1>7, SetErr DEF e5
<1>9. Serving(e) = e5 BY DEF Serving, e5, e4, e3, e2, e1, n, none
<1> QED BY <1>8, <1>9

LEMMA WriteType ==
  ASSUME NEW e \in EmitterState, NEW type \in Types, NEW by \in Nat
  PROVE  Write(e, type, by) \in EmitterState
<1> DEFINE err == WriteError(e)
           n  == e.sequence + 1
           b  == e.sinkFailed \/ err = "sink"
           m  == IF err = "none" THEN e.room - 1 ELSE e.room
           o  == IF err = "none"
                 THEN Append(e.out, [type |-> type, seq |-> e.sequence, by |-> by])
                 ELSE e.out
<1>1. n \in Nat BY FieldTypes
<1>2. err \in Errors BY DEF WriteError, Errors
<1>3. b \in BOOLEAN OBVIOUS
<1>4. m \in Nat BY FieldTypes DEF WriteError
<1>5. o \in Seq(Event)
  <2>1. [type |-> type, seq |-> e.sequence, by |-> by] \in Event
    BY FieldTypes DEF Event
  <2>2. e.out \in Seq(Event) BY FieldTypes
  <2> QED BY <2>1, <2>2
<1> DEFINE e1 == [e EXCEPT !.sequence = n]
           e2 == [e1 EXCEPT !.err = err]
           e3 == [e2 EXCEPT !.sinkFailed = b]
           e4 == [e3 EXCEPT !.room = m]
           e5 == [e4 EXCEPT !.out = o]
<1> HIDE DEF n, err, b, m, o
<1>6. e1 \in EmitterState BY <1>1, SetSequence
<1> HIDE DEF e1
<1>7. e2 \in EmitterState BY <1>2, <1>6, SetErr
<1> HIDE DEF e2
<1>8. e3 \in EmitterState BY <1>3, <1>7, SetSinkFailed
<1> HIDE DEF e3
<1>9. e4 \in EmitterState BY <1>4, <1>8, SetRoom
<1> HIDE DEF e4
<1>10. e5 \in EmitterState BY <1>5, <1>9, SetOut
<1>11. Write(e, type, by) = e5 BY DEF Write, e5, e4, e3, e2, e1, n, err, b, m, o
<1> QED BY <1>10, <1>11

LEMMA WriteFields ==
  ASSUME NEW e \in EmitterState, NEW type \in Types, NEW by \in Nat
  PROVE  LET w == Write(e, type, by)
         IN  /\ w.started = e.started /\ w.attemptStarted = e.attemptStarted
             /\ w.pendingStart = e.pendingStart /\ w.pending = e.pending
             /\ w.terminated = e.terminated /\ w.delivered = e.delivered
             /\ w.attempt = e.attempt
             /\ w.sequence = e.sequence + 1
             /\ w.err = WriteError(e)
             /\ w.room = IF WriteError(e) = "none" THEN e.room - 1 ELSE e.room
             /\ w.out = IF WriteError(e) = "none"
                        THEN Append(e.out, [type |-> type, seq |-> e.sequence, by |-> by])
                        ELSE e.out
BY DEF Write, EmitterState

LEMMA DrainedType ==
  ASSUME NEW e \in EmitterState
  PROVE  Drained(e) \in EmitterState
<1> DEFINE n == IF e.room < Len(e.pending) THEN e.room ELSE Len(e.pending)
           full == n = Len(e.pending)
           none == <<>>
           q == e.sequence + (IF full THEN n ELSE n + 1)
           err == IF full THEN "none" ELSE "sink"
           b == e.sinkFailed \/ ~full
           m == e.room - n
           held == [i \in 1..n |-> [type |-> "progress", seq |-> e.sequence + i - 1,
                                    by |-> e.pending[i]]]
           o == e.out \o held
<1>1. n \in Nat /\ n <= e.room /\ n <= Len(e.pending) BY FieldTypes
<1>2. none \in Seq(Nat) OBVIOUS
<1>3. q \in Nat BY <1>1, FieldTypes
<1>4. err \in Errors BY DEF Errors
<1>5. b \in BOOLEAN OBVIOUS
<1>6. m \in Nat BY <1>1, FieldTypes
<1>7. o \in Seq(Event)
  <2>1. ASSUME NEW i \in 1..n
        PROVE  [type |-> "progress", seq |-> e.sequence + i - 1, by |-> e.pending[i]] \in Event
    <3>1. e.pending[i] \in Nat BY <1>1, FieldTypes
    <3>2. e.sequence + i - 1 \in Nat BY <1>1, FieldTypes
    <3> QED BY <3>1, <3>2 DEF Event, Types
  <2> HIDE DEF n
  <2>2. held \in [1..n -> Event] BY <2>1
  <2>3. held \in Seq(Event) BY <1>1, <2>2
  <2>4. e.out \in Seq(Event) BY FieldTypes
  <2> QED BY <2>3, <2>4
<1> DEFINE e1 == [e EXCEPT !.pending = none]
           e2 == [e1 EXCEPT !.sequence = q]
           e3 == [e2 EXCEPT !.err = err]
           e4 == [e3 EXCEPT !.sinkFailed = b]
           e5 == [e4 EXCEPT !.room = m]
           e6 == [e5 EXCEPT !.out = o]
<1> HIDE DEF none, q, err, b, m, o
<1>8. e1 \in EmitterState BY <1>2, SetPending
<1> HIDE DEF e1
<1>9. e2 \in EmitterState BY <1>3, <1>8, SetSequence
<1> HIDE DEF e2
<1>10. e3 \in EmitterState BY <1>4, <1>9, SetErr
<1> HIDE DEF e3
<1>11. e4 \in EmitterState BY <1>5, <1>10, SetSinkFailed
<1> HIDE DEF e4
<1>12. e5 \in EmitterState BY <1>6, <1>11, SetRoom
<1> HIDE DEF e5
<1>13. e6 \in EmitterState BY <1>7, <1>12, SetOut
<1>14. Drained(e) = e6 BY DEF Drained, e6, e5, e4, e3, e2, e1, none, q, err, b, m, o
<1> QED BY <1>13, <1>14

LEMMA DrainedFields ==
  ASSUME NEW e \in EmitterState
  PROVE  LET d == Drained(e)
             n == IF e.room < Len(e.pending) THEN e.room ELSE Len(e.pending)
         IN  /\ d.started = e.started /\ d.attemptStarted = e.attemptStarted
             /\ d.pendingStart = e.pendingStart /\ d.pending = <<>>
             /\ d.terminated = e.terminated /\ d.delivered = e.delivered
             /\ d.attempt = e.attempt
             /\ d.sequence = e.sequence + (IF n = Len(e.pending) THEN n ELSE n + 1)
             /\ d.err = IF n = Len(e.pending) THEN "none" ELSE "sink"
             /\ d.room = e.room - n
             /\ d.out = e.out \o [i \in 1..n |-> [type |-> "progress", seq |-> e.sequence + i - 1,
                                                  by |-> e.pending[i]]]
BY DEF Drained, EmitterState

-----------------------------------------------------------------------------
\* What the stream so far says about the events that may follow it.
Has(s, type)     == \E i \in DOMAIN s : s[i].type = type
HasStartBy(s, b) == \E i \in DOMAIN s : s[i].type = "start" /\ s[i].by = b
Unfinished(s)    == ~Has(s, "done") /\ ~Has(s, "error")

LEMMA PrefixTransitive ==
  ASSUME NEW s \in Seq(Event), NEW t \in Seq(Event), NEW u \in Seq(Event),
         Stream!Prefix(s, t), Stream!Prefix(t, u)
  PROVE  Stream!Prefix(s, u)
BY DEF Stream!Prefix

LEMMA PrefixReflexive ==
  ASSUME NEW s \in Seq(Event)
  PROVE  Stream!Prefix(s, s)
BY DEF Stream!Prefix

LEMMA PrefixHas ==
  ASSUME NEW s \in Seq(Event), NEW t \in Seq(Event), Stream!Prefix(s, t), NEW type,
         Has(s, type)
  PROVE  Has(t, type)
BY DEF Stream!Prefix, Has

LEMMA PrefixHasStartBy ==
  ASSUME NEW s \in Seq(Event), NEW t \in Seq(Event), Stream!Prefix(s, t), NEW b,
         HasStartBy(s, b)
  PROVE  HasStartBy(t, b)
BY DEF Stream!Prefix, HasStartBy

\* One more event keeps the stream well formed if its kind may come next.
LEMMA AppendOne ==
  ASSUME NEW s \in Seq(Event), Stream!WellFormed(s), Unfinished(s),
         NEW ev \in Event, ev.seq = Len(s),
         ev.type \in {"start", "switch"} => ~Has(s, "start"),
         ev.type \in {"progress", "output"} => HasStartBy(s, ev.by),
         ev.type = "done" => Has(s, "start")
  PROVE  /\ Append(s, ev) \in Seq(Event)
         /\ Stream!WellFormed(Append(s, ev))
         /\ Stream!Prefix(s, Append(s, ev))
<1> DEFINE t == Append(s, ev)
<1>1. /\ t \in Seq(Event) /\ Len(t) = Len(s) + 1
      /\ \A i \in DOMAIN s : t[i] = s[i]
      /\ t[Len(s) + 1] = ev
      /\ DOMAIN s = 1..Len(s) /\ DOMAIN t = 1..(Len(s) + 1)
      /\ Len(s) \in Nat
  OBVIOUS
<1> HIDE DEF t
<1>2. \A i \in DOMAIN t : i \in DOMAIN s \/ i = Len(s) + 1 BY <1>1
<1>3. Stream!Prefix(s, t) BY <1>1 DEF Stream!Prefix
<1>4. Stream!Numbered(t)
  BY <1>1, <1>2 DEF Stream!WellFormed, Stream!Numbered
<1>5. Stream!OneAnswer(t)
  BY <1>1, <1>2 DEF Stream!WellFormed, Stream!OneAnswer, HasStartBy
<1>6. Stream!StartOnce(t)
  BY <1>1, <1>2 DEF Stream!WellFormed, Stream!StartOnce, Has
<1>7. Stream!SwitchesFirst(t)
  BY <1>1, <1>2 DEF Stream!WellFormed, Stream!SwitchesFirst, Has
<1>8. Stream!TerminalLast(t)
  BY <1>1, <1>2 DEF Stream!WellFormed, Stream!TerminalLast, Stream!Terminals, Unfinished, Has
<1>9. Stream!DoneFollowsStart(t)
  BY <1>1, <1>2 DEF Stream!WellFormed, Stream!DoneFollowsStart, Has
<1> QED BY <1>1, <1>3, <1>4, <1>5, <1>6, <1>7, <1>8, <1>9 DEF Stream!WellFormed, t

\* So do the held progress events of the attempt that has started.
LEMMA AppendHeld ==
  ASSUME NEW s \in Seq(Event), Stream!WellFormed(s), Unfinished(s),
         NEW n \in Nat, NEW b \in Nat, HasStartBy(s, b),
         NEW held \in Seq(Event), Len(held) = n,
         \A i \in 1..n : held[i] = [type |-> "progress", seq |-> Len(s) + i - 1, by |-> b]
  PROVE  /\ s \o held \in Seq(Event)
         /\ Stream!WellFormed(s \o held)
         /\ Stream!Prefix(s, s \o held)
         /\ Unfinished(s \o held)
<1> DEFINE t == s \o held
<1>1. /\ t \in Seq(Event) /\ Len(t) = Len(s) + n
      /\ \A i \in DOMAIN s : t[i] = s[i]
      /\ \A i \in 1..n : t[Len(s) + i] = held[i]
      /\ DOMAIN s = 1..Len(s) /\ DOMAIN t = 1..(Len(s) + n)
      /\ Len(s) \in Nat
  <2>1. t \in Seq(Event) /\ Len(t) = Len(s) + n BY ConcatProperties
  <2>2. Len(s) \in Nat /\ DOMAIN s = 1..Len(s) OBVIOUS
  <2>3. DOMAIN t = 1..(Len(s) + n) BY <2>1
  <2>4. ASSUME NEW i \in DOMAIN s PROVE t[i] = s[i] BY <2>2
  <2>5. ASSUME NEW i \in 1..n PROVE t[Len(s) + i] = held[i] BY <2>2
  <2> HIDE DEF t
  <2> QED BY <2>1, <2>2, <2>3, <2>4, <2>5
<1> HIDE DEF t
<1>2. ASSUME NEW i \in DOMAIN t, i \notin DOMAIN s
      PROVE  t[i].type = "progress" /\ t[i].seq = i - 1 /\ t[i].by = b /\ i > Len(s)
  <2>1. i - Len(s) \in 1..n /\ i = Len(s) + (i - Len(s)) BY <1>1, <1>2
  <2>2. t[i] = held[i - Len(s)] BY <1>1, <2>1
  <2>3. t[i] = [type |-> "progress", seq |-> Len(s) + (i - Len(s)) - 1, by |-> b] BY <2>1, <2>2
  <2> QED BY <1>1, <2>1, <2>3
<1>3. Stream!Prefix(s, t) BY <1>1 DEF Stream!Prefix
<1>4. Stream!Numbered(t)
  BY <1>1, <1>2 DEF Stream!WellFormed, Stream!Numbered
<1>5. Stream!OneAnswer(t)
  <2> SUFFICES ASSUME NEW i \in DOMAIN t, t[i].type \in {"progress", "output"}
               PROVE  \E j \in 1..(i - 1) : t[j].type = "start" /\ t[j].by = t[i].by
    BY DEF Stream!OneAnswer
  <2>1. CASE i \in DOMAIN s
    <3>1. PICK j \in 1..(i - 1) : s[j].type = "start" /\ s[j].by = s[i].by
      BY <1>1, <2>1 DEF Stream!WellFormed, Stream!OneAnswer
    <3>2. i \in Nat /\ j \in DOMAIN s BY <1>1, <2>1
    <3>3. t[j] = s[j] /\ t[i] = s[i] BY <1>1, <2>1, <3>2
    <3> QED BY <3>1, <3>3
  <2>2. CASE i \notin DOMAIN s
    <3>1. PICK j \in DOMAIN s : s[j].type = "start" /\ s[j].by = b BY DEF HasStartBy
    <3>2. t[i].by = b /\ i > Len(s) BY <1>2, <2>2
    <3> QED BY <1>1, <3>1, <3>2
  <2> QED BY <2>1, <2>2
<1>6. Stream!StartOnce(t)
  BY <1>1, <1>2 DEF Stream!WellFormed, Stream!StartOnce
<1>7. Stream!SwitchesFirst(t)
  BY <1>1, <1>2 DEF Stream!WellFormed, Stream!SwitchesFirst
<1>8. Unfinished(t)
  BY <1>1, <1>2 DEF Unfinished, Has
<1>9. Stream!TerminalLast(t)
  BY <1>8 DEF Stream!TerminalLast, Stream!Terminals, Unfinished, Has
<1>10. Stream!DoneFollowsStart(t)
  BY <1>8 DEF Stream!DoneFollowsStart, Unfinished, Has
<1> QED BY <1>1, <1>3, <1>4, <1>5, <1>6, <1>7, <1>8, <1>9, <1>10 DEF Stream!WellFormed, t

-----------------------------------------------------------------------------
\* The sink would take another event.
Growable(e) == ~e.terminated /\ e.room > 0

\* Everything held is the attempt's that is being served.
HeldIsCurrent(e) ==
  /\ e.pendingStart \in {0, e.attempt}
  /\ \A i \in DOMAIN e.pending : e.pending[i] = e.attempt

\* The emitter's flags agree with the stream while it can still grow.
FlagsMatchStream(e) ==
  /\ Growable(e) => Len(e.out) = e.sequence
  /\ ~e.terminated => Unfinished(e.out)
  /\ ~e.started => ~Has(e.out, "start")
  /\ Growable(e) /\ e.started => Has(e.out, "start")
  /\ Growable(e) /\ e.started /\ e.attemptStarted => HasStartBy(e.out, e.attempt)
  /\ e.delivered => e.started /\ Has(e.out, "output")

\* The inductive invariant.
EmitterInv(e) ==
  /\ e \in EmitterState
  /\ Stream!WellFormed(e.out)
  /\ HeldIsCurrent(e)
  /\ FlagsMatchStream(e)

\* A write of an event that may come next.
LEMMA WriteStep ==
  ASSUME NEW e \in EmitterState, NEW type \in Types, NEW by \in Nat,
         Stream!WellFormed(e.out),
         Growable(e) => Len(e.out) = e.sequence,
         ~e.terminated => Unfinished(e.out),
         Growable(e) /\ type \in {"start", "switch"} => ~Has(e.out, "start"),
         Growable(e) /\ type \in {"progress", "output"} => HasStartBy(e.out, by),
         Growable(e) /\ type = "done" => Has(e.out, "start")
  PROVE  LET w  == Write(e, type, by)
             ev == [type |-> type, seq |-> e.sequence, by |-> by]
         IN  /\ w \in EmitterState
             /\ Stream!WellFormed(w.out)
             /\ Stream!Prefix(e.out, w.out)
             /\ Growable(e) => w.err = "none" /\ w.out = Append(e.out, ev)
                               /\ Len(w.out) = w.sequence
             /\ ~Growable(e) => w.err # "none" /\ w.out = e.out /\ ~Growable(w)
<1> DEFINE w  == Write(e, type, by)
           ev == [type |-> type, seq |-> e.sequence, by |-> by]
<1>1. w \in EmitterState BY WriteType
<1>2. CASE Growable(e)
  <2>1. WriteError(e) = "none" BY <1>2, FieldTypes DEF WriteError, Growable
  <2>2. w.err = "none" /\ w.out = Append(e.out, ev) /\ w.sequence = e.sequence + 1
    BY <2>1, WriteFields
  <2>3. ev \in Event BY FieldTypes DEF Event
  <2>4. ev.seq = Len(e.out) BY <1>2
  <2>5. e.out \in Seq(Event) /\ Unfinished(e.out) BY <1>2, FieldTypes DEF Growable
  <2>6. /\ Append(e.out, ev) \in Seq(Event)
        /\ Stream!WellFormed(Append(e.out, ev))
        /\ Stream!Prefix(e.out, Append(e.out, ev))
    <3>1. ev.type = type /\ ev.by = by OBVIOUS
    <3> HIDE DEF ev
    <3> QED BY <1>2, <2>3, <2>4, <2>5, <3>1, AppendOne
  <2>7. Len(w.out) = w.sequence
    <3>1. Len(Append(e.out, ev)) = Len(e.out) + 1 BY <2>5
    <3> QED BY <1>2, <2>2, <3>1
  <2> QED BY <1>1, <1>2, <2>2, <2>6, <2>7
<1>3. CASE ~Growable(e)
  <2>1. WriteError(e) # "none" BY <1>3, FieldTypes DEF WriteError, Growable
  <2>2. w.err # "none" /\ w.out = e.out /\ w.room = e.room /\ w.terminated = e.terminated
    BY <2>1, WriteFields
  <2>3. ~Growable(w) BY <1>3, <2>2 DEF Growable
  <2>4. Stream!Prefix(e.out, w.out) BY <2>2, FieldTypes, PrefixReflexive
  <2> QED BY <1>1, <1>3, <2>2, <2>3, <2>4
<1> QED BY <1>2, <1>3

\* commit's loop over the held events.
LEMMA DrainedStep ==
  ASSUME NEW e \in EmitterState,
         Stream!WellFormed(e.out), Unfinished(e.out),
         Len(e.out) = e.sequence,
         HasStartBy(e.out, e.attempt),
         \A i \in DOMAIN e.pending : e.pending[i] = e.attempt
  PROVE  LET d == Drained(e)
         IN  /\ d \in EmitterState
             /\ Stream!WellFormed(d.out)
             /\ Stream!Prefix(e.out, d.out)
             /\ Unfinished(d.out)
             /\ Growable(d) => Len(d.out) = d.sequence
<1> DEFINE d    == Drained(e)
           n    == IF e.room < Len(e.pending) THEN e.room ELSE Len(e.pending)
           held == [i \in 1..n |-> [type |-> "progress", seq |-> e.sequence + i - 1,
                                    by |-> e.pending[i]]]
<1>1. d \in EmitterState BY DrainedType
<1>2. n \in Nat /\ n <= e.room /\ n <= Len(e.pending) BY FieldTypes
<1>3. /\ d.sequence = e.sequence + (IF n = Len(e.pending) THEN n ELSE n + 1)
      /\ d.room = e.room - n
      /\ d.out = e.out \o held
  BY DrainedFields
<1>4. Growable(d) => n = Len(e.pending) BY <1>3, FieldTypes DEF Growable
<1>5. \A i \in 1..n : e.pending[i] = e.attempt BY <1>2, FieldTypes
<1> HIDE DEF n
<1>6. ASSUME NEW i \in 1..n
      PROVE  /\ [type |-> "progress", seq |-> e.sequence + i - 1, by |-> e.pending[i]] \in Event
             /\ held[i] = [type |-> "progress", seq |-> Len(e.out) + i - 1, by |-> e.attempt]
  <2>1. e.sequence + i - 1 \in Nat /\ e.pending[i] \in Nat BY <1>2, <1>5, FieldTypes
  <2> QED BY <1>5, <2>1 DEF Event, Types
<1>7. held \in [1..n -> Event] BY <1>6
<1>8. held \in Seq(Event) /\ Len(held) = n BY <1>2, <1>7
<1>9. e.out \in Seq(Event) /\ e.attempt \in Nat BY FieldTypes
<1>a. \A i \in 1..n : held[i] = [type |-> "progress", seq |-> Len(e.out) + i - 1,
                                 by |-> e.attempt]
  BY <1>6
<1> HIDE DEF held
<1>10. /\ Stream!WellFormed(e.out \o held)
       /\ Stream!Prefix(e.out, e.out \o held)
       /\ Unfinished(e.out \o held)
  BY <1>2, <1>8, <1>9, <1>a, AppendHeld, Zenon
<1>11. Len(e.out \o held) = Len(e.out) + n BY <1>8, <1>9
<1>12. Growable(d) => Len(d.out) = d.sequence BY <1>3, <1>4, <1>11
<1> QED BY <1>1, <1>3, <1>10, <1>12

-----------------------------------------------------------------------------
\* A call keeps the invariant and takes nothing back from the customer.
Keeps(e, f) == EmitterInv(f) /\ Stream!Prefix(e.out, f.out)

LEMMA KeepsTransitive ==
  ASSUME NEW e, NEW f, NEW g, EmitterInv(e), Keeps(e, f), Keeps(f, g)
  PROVE  Keeps(e, g)
<1>1. e.out \in Seq(Event) /\ f.out \in Seq(Event) /\ g.out \in Seq(Event)
  BY FieldTypes DEF EmitterInv, Keeps
<1> QED BY <1>1, PrefixTransitive DEF Keeps

LEMMA RefuseKeeps ==
  ASSUME NEW e, EmitterInv(e), NEW why \in Errors
  PROVE  Keeps(e, Refuse(e, why))
<1> DEFINE f == Refuse(e, why)
<1>0. e \in EmitterState BY DEF EmitterInv
<1>1. f \in EmitterState BY <1>0, RefuseType
<1>2. /\ f.started = e.started /\ f.attemptStarted = e.attemptStarted
      /\ f.pendingStart = e.pendingStart /\ f.pending = e.pending
      /\ f.sequence = e.sequence /\ f.terminated = e.terminated
      /\ f.delivered = e.delivered /\ f.attempt = e.attempt
      /\ f.room = e.room /\ f.out = e.out
  BY <1>0 DEF Refuse, EmitterState
<1>3. Stream!Prefix(e.out, f.out) BY <1>0, <1>2, FieldTypes, PrefixReflexive
<1> HIDE DEF f
<1>4. HeldIsCurrent(f) BY <1>2 DEF EmitterInv, HeldIsCurrent
<1>5. FlagsMatchStream(f) BY <1>2 DEF EmitterInv, FlagsMatchStream, Growable
<1>6. Keeps(e, f) BY <1>1, <1>2, <1>3, <1>4, <1>5 DEF Keeps, EmitterInv
<1> QED BY <1>6 DEF f

LEMMA ServingKeeps ==
  ASSUME NEW e, EmitterInv(e)
  PROVE  Keeps(e, Serving(e))
<1> DEFINE f == Serving(e)
<1>0. e \in EmitterState BY DEF EmitterInv
<1>1. f \in EmitterState BY <1>0, ServingType
<1>2. /\ f.started = e.started /\ f.attemptStarted = FALSE
      /\ f.pendingStart = 0 /\ f.pending = <<>>
      /\ f.sequence = e.sequence /\ f.terminated = e.terminated
      /\ f.delivered = e.delivered /\ f.room = e.room /\ f.out = e.out
  BY <1>0 DEF Serving, EmitterState
<1>3. Stream!Prefix(e.out, f.out) BY <1>0, <1>2, FieldTypes, PrefixReflexive
<1> HIDE DEF f
<1>4. HeldIsCurrent(f) BY <1>2 DEF HeldIsCurrent
<1>5. FlagsMatchStream(f) BY <1>2 DEF EmitterInv, FlagsMatchStream, Growable
<1>6. Keeps(e, f) BY <1>1, <1>2, <1>3, <1>4, <1>5 DEF Keeps, EmitterInv
<1> QED BY <1>6 DEF f

LEMMA StartKeeps ==
  ASSUME NEW e, EmitterInv(e)
  PROVE  Keeps(e, Start(e))
<1>0. e \in EmitterState BY DEF EmitterInv
<1>1. CASE e.started \/ e.attemptStarted
  BY <1>1, RefuseKeeps DEF Start, Errors
<1>2. CASE ~(e.started \/ e.attemptStarted)
  <2> DEFINE a  == e.attempt
             e1 == [e EXCEPT !.attemptStarted = TRUE]
             e2 == [e1 EXCEPT !.pendingStart = a]
             f  == [e2 EXCEPT !.err = "none"]
  <2>0. a \in Nat /\ "none" \in Errors BY <1>0, FieldTypes DEF Errors
  <2> HIDE DEF a
  <2>1. e1 \in EmitterState BY <1>0, SetAttemptStarted
  <2> HIDE DEF e1
  <2>2. e2 \in EmitterState BY <2>0, <2>1, SetPendingStart
  <2> HIDE DEF e2
  <2>3. f \in EmitterState BY <2>0, <2>2, SetErr
  <2>4. Start(e) = f BY <1>2 DEF Start, e2, e1, a
  <2>5. /\ f.started = e.started /\ f.pendingStart = e.attempt /\ f.pending = e.pending
        /\ f.sequence = e.sequence /\ f.terminated = e.terminated
        /\ f.delivered = e.delivered /\ f.attempt = e.attempt
        /\ f.room = e.room /\ f.out = e.out
    BY <1>0 DEF e2, e1, a, EmitterState
  <2>6. Stream!Prefix(e.out, f.out) BY <1>0, <2>5, FieldTypes, PrefixReflexive
  <2> HIDE DEF f
  <2>7. HeldIsCurrent(f) BY <2>5 DEF EmitterInv, HeldIsCurrent
  <2>8. FlagsMatchStream(f) BY <1>2, <2>5 DEF EmitterInv, FlagsMatchStream, Growable
  <2> QED BY <2>3, <2>4, <2>5, <2>6, <2>7, <2>8 DEF Keeps, EmitterInv
<1> QED BY <1>1, <1>2

\* A write of an event of the executor's or of a committed attempt.
LEMMA WriteKeeps ==
  ASSUME NEW e, EmitterInv(e), NEW type \in {"switch", "progress", "output"}, NEW by \in Nat,
         type = "switch" => ~e.started,
         type # "switch" => e.started /\ e.attemptStarted /\ by = e.attempt
  PROVE  Keeps(e, Write(e, type, by))
<1> DEFINE f == Write(e, type, by)
           ev == [type |-> type, seq |-> e.sequence, by |-> by]
<1>0. e \in EmitterState /\ type \in Types /\ e.out \in Seq(Event)
  BY FieldTypes DEF EmitterInv, Types
<1>1. /\ f \in EmitterState
      /\ Stream!WellFormed(f.out)
      /\ Stream!Prefix(e.out, f.out)
      /\ Growable(e) => f.out = Append(e.out, ev) /\ Len(f.out) = f.sequence
      /\ ~Growable(e) => f.out = e.out /\ ~Growable(f)
  BY <1>0, WriteStep DEF EmitterInv, FlagsMatchStream, Growable
<1>2. /\ f.started = e.started /\ f.attemptStarted = e.attemptStarted
      /\ f.pendingStart = e.pendingStart /\ f.pending = e.pending
      /\ f.terminated = e.terminated /\ f.delivered = e.delivered
      /\ f.attempt = e.attempt
  BY <1>0, WriteFields
<1>3. f.out \in Seq(Event) BY <1>1, FieldTypes
<1>4. ev.type = type OBVIOUS
<1> HIDE DEF f, ev
<1>5. HeldIsCurrent(f) BY <1>2 DEF EmitterInv, HeldIsCurrent
<1>6. \A t \in {"start", "done", "error"} : Has(f.out, t) => Has(e.out, t)
  BY <1>0, <1>1, <1>4 DEF Has
<1>7. \A t : Has(e.out, t) => Has(f.out, t) BY <1>0, <1>1, <1>3, PrefixHas
<1>8. \A b : HasStartBy(e.out, b) => HasStartBy(f.out, b)
  BY <1>0, <1>1, <1>3, PrefixHasStartBy
<1>9. Growable(f) => Growable(e) BY <1>1
<1>10. FlagsMatchStream(f)
  BY <1>1, <1>2, <1>6, <1>7, <1>8, <1>9 DEF EmitterInv, FlagsMatchStream, Unfinished
<1>11. Keeps(e, f) BY <1>1, <1>5, <1>10 DEF Keeps, EmitterInv
<1> QED BY <1>11 DEF f

\* A terminal event, after which nothing grows.
LEMMA TerminalKeeps ==
  ASSUME NEW e, EmitterInv(e), NEW type \in {"done", "error"},
         type = "done" => e.started
  PROVE  Keeps(e, [Write(e, type, 0) EXCEPT !.terminated = TRUE])
<1> DEFINE w  == Write(e, type, 0)
           f  == [w EXCEPT !.terminated = TRUE]
           ev == [type |-> type, seq |-> e.sequence, by |-> 0]
<1>0. e \in EmitterState /\ type \in Types /\ e.out \in Seq(Event)
  BY FieldTypes DEF EmitterInv, Types
<1>1. /\ w \in EmitterState
      /\ Stream!WellFormed(w.out)
      /\ Stream!Prefix(e.out, w.out)
      /\ Growable(e) => w.out = Append(e.out, ev)
      /\ ~Growable(e) => w.out = e.out
  BY <1>0, WriteStep DEF EmitterInv, FlagsMatchStream, Growable
<1>2. /\ w.started = e.started /\ w.attemptStarted = e.attemptStarted
      /\ w.pendingStart = e.pendingStart /\ w.pending = e.pending
      /\ w.delivered = e.delivered /\ w.attempt = e.attempt
  BY <1>0, WriteFields
<1> HIDE DEF w
<1>3. f \in EmitterState BY <1>1, SetTerminated
<1>4. /\ f.started = e.started /\ f.attemptStarted = e.attemptStarted
      /\ f.pendingStart = e.pendingStart /\ f.pending = e.pending
      /\ f.delivered = e.delivered /\ f.attempt = e.attempt
      /\ f.out = w.out /\ f.terminated = TRUE
  BY <1>1, <1>2 DEF EmitterState
<1>5. f.out \in Seq(Event) BY <1>3, FieldTypes
<1>6. ev.type = type OBVIOUS
<1> HIDE DEF f, ev
<1>7. HeldIsCurrent(f) BY <1>4 DEF EmitterInv, HeldIsCurrent
<1>8. Has(f.out, "start") => Has(e.out, "start") BY <1>0, <1>1, <1>4, <1>6 DEF Has
<1>9. Has(e.out, "output") => Has(f.out, "output") BY <1>0, <1>1, <1>4, <1>5, PrefixHas
<1>10. FlagsMatchStream(f)
  BY <1>4, <1>8, <1>9 DEF EmitterInv, FlagsMatchStream, Growable
<1>11. Keeps(e, f) BY <1>1, <1>3, <1>4, <1>7, <1>10 DEF Keeps, EmitterInv
<1> QED BY <1>11 DEF f, w

\* commit: the one place where the start and the held events reach the stream.
LEMMA CommitKeeps ==
  ASSUME NEW e, EmitterInv(e)
  PROVE  LET c == Commit(e)
         IN  /\ Keeps(e, c)
             /\ c.attempt = e.attempt /\ c.attemptStarted = e.attemptStarted
             /\ c.err = "none" => c.started
<1> DEFINE c == Commit(e)
<1>0. e \in EmitterState /\ e.out \in Seq(Event) BY FieldTypes DEF EmitterInv
<1>1. CASE e.started
  <2>1. c = Refuse(e, "none") BY <1>1 DEF Commit
  <2>2. c.attempt = e.attempt /\ c.attemptStarted = e.attemptStarted /\ c.started = e.started
    BY <1>0, <2>1 DEF Refuse, EmitterState
  <2> QED BY <1>1, <2>1, <2>2, RefuseKeeps DEF Errors
<1>2. CASE ~e.started /\ e.pendingStart = 0
  <2>1. c = Refuse(e, "refused") BY <1>2 DEF Commit
  <2>2. c.attempt = e.attempt /\ c.attemptStarted = e.attemptStarted /\ c.err = "refused"
    BY <1>0, <2>1 DEF Refuse, EmitterState
  <2> QED BY <2>1, <2>2, RefuseKeeps DEF Errors
<1>3. CASE ~e.started /\ e.pendingStart # 0
  <2> DEFINE b1    == [e EXCEPT !.started = TRUE]
             begun == [b1 EXCEPT !.pendingStart = 0]
             first == Write(begun, "start", e.pendingStart)
             ev    == [type |-> "start", seq |-> begun.sequence, by |-> e.pendingStart]
  <2>1. b1 \in EmitterState BY <1>0, SetStarted
  <2>2. begun \in EmitterState
    <3> HIDE DEF b1
    <3> QED BY <2>1, SetPendingStart
  <2>3. begun = [e EXCEPT !.started = TRUE, !.pendingStart = 0] OBVIOUS
  <2>4. /\ begun.started = TRUE /\ begun.attemptStarted = e.attemptStarted
        /\ begun.pendingStart = 0 /\ begun.pending = e.pending
        /\ begun.sequence = e.sequence /\ begun.terminated = e.terminated
        /\ begun.delivered = e.delivered /\ begun.attempt = e.attempt
        /\ begun.room = e.room /\ begun.out = e.out
    BY <1>0 DEF EmitterState
  <2>5. c = IF first.err = "none" THEN Drained(first) ELSE [first EXCEPT !.pending = <<>>]
    BY <1>3, <2>3 DEF Commit
  <2> HIDE DEF b1, begun
  <2>6. e.pendingStart = e.attempt /\ e.attempt \in Nat
    BY <1>0, <1>3, FieldTypes DEF EmitterInv, HeldIsCurrent
  <2>7. ~Has(e.out, "start") BY <1>3 DEF EmitterInv, FlagsMatchStream
  <2>8. /\ first \in EmitterState
        /\ Stream!WellFormed(first.out)
        /\ Stream!Prefix(e.out, first.out)
        /\ Growable(begun) => first.err = "none" /\ first.out = Append(e.out, ev)
                              /\ Len(first.out) = first.sequence
        /\ ~Growable(begun) => first.err # "none" /\ first.out = e.out /\ ~Growable(first)
    <3>1. "start" \in Types /\ Stream!WellFormed(begun.out) BY <2>4 DEF Types, EmitterInv
    <3>2. Growable(begun) => Len(begun.out) = begun.sequence
      BY <2>4 DEF EmitterInv, FlagsMatchStream, Growable
    <3>3. ~begun.terminated => Unfinished(begun.out)
      BY <2>4 DEF EmitterInv, FlagsMatchStream
    <3> QED BY <2>2, <2>4, <2>6, <2>7, <3>1, <3>2, <3>3, WriteStep
  <2>9. /\ first.started = TRUE /\ first.attemptStarted = e.attemptStarted
        /\ first.pendingStart = 0 /\ first.pending = e.pending
        /\ first.terminated = e.terminated /\ first.delivered = e.delivered
        /\ first.attempt = e.attempt
    <3>1. "start" \in Types BY DEF Types
    <3>2. e.pendingStart \in Nat BY <2>6
    <3>3. /\ first.started = begun.started /\ first.attemptStarted = begun.attemptStarted
          /\ first.pendingStart = begun.pendingStart /\ first.pending = begun.pending
          /\ first.terminated = begun.terminated /\ first.delivered = begun.delivered
          /\ first.attempt = begun.attempt
      BY <2>2, <3>1, <3>2, WriteFields
    <3> QED BY <2>4, <3>3
  <2>10. ~e.delivered BY <1>3 DEF EmitterInv, FlagsMatchStream
  <2>11. first.out \in Seq(Event) BY <2>8, FieldTypes
  <2> HIDE DEF first
  <2>12. CASE Growable(begun)
    <3>1. c = Drained(first) BY <2>5, <2>8, <2>12
    <3>2. ev.type = "start" /\ ev.by = e.attempt BY <2>6
    <3>3. HasStartBy(first.out, first.attempt)
      <4> HIDE DEF ev
      <4>1. first.out = Append(e.out, ev) BY <2>8, <2>12
      <4>2. Len(e.out) + 1 \in DOMAIN first.out /\ first.out[Len(e.out) + 1] = ev
        BY <1>0, <4>1
      <4> QED BY <2>9, <3>2, <4>2 DEF HasStartBy
    <3>4. Unfinished(first.out)
      <4> HIDE DEF ev
      <4>1. first.out = Append(e.out, ev) BY <2>8, <2>12
      <4>2. Unfinished(e.out) BY <2>4, <2>12 DEF Growable, EmitterInv, FlagsMatchStream
      <4> QED BY <1>0, <3>2, <4>1, <4>2 DEF Unfinished, Has
    <3>5. Len(first.out) = first.sequence BY <2>8, <2>12
    <3>6. \A i \in DOMAIN first.pending : first.pending[i] = first.attempt
      BY <2>9 DEF EmitterInv, HeldIsCurrent
    <3>7. /\ c \in EmitterState
          /\ Stream!WellFormed(c.out)
          /\ Stream!Prefix(first.out, c.out)
          /\ Unfinished(c.out)
          /\ Growable(c) => Len(c.out) = c.sequence
      BY <2>8, <3>1, <3>3, <3>4, <3>5, <3>6, DrainedStep
    <3>8. /\ c.started = TRUE /\ c.attemptStarted = e.attemptStarted
          /\ c.pendingStart = 0 /\ c.pending = <<>>
          /\ c.delivered = e.delivered /\ c.attempt = e.attempt
      BY <2>8, <2>9, <3>1, DrainedFields
    <3>9. c.out \in Seq(Event) BY <3>7, FieldTypes
    <3> HIDE DEF c
    <3>10. HasStartBy(c.out, c.attempt)
      BY <2>9, <2>11, <3>3, <3>7, <3>8, <3>9, PrefixHasStartBy
    <3>11. Has(c.out, "start") BY <3>10 DEF Has, HasStartBy
    <3>12. Stream!Prefix(e.out, c.out)
      BY <1>0, <2>8, <2>11, <3>7, <3>9, PrefixTransitive
    <3>13. HeldIsCurrent(c) BY <3>8 DEF HeldIsCurrent
    <3>14. FlagsMatchStream(c) BY <2>10, <3>7, <3>8, <3>10, <3>11 DEF FlagsMatchStream
    <3>15. Keeps(e, c) BY <3>7, <3>12, <3>13, <3>14 DEF Keeps, EmitterInv
    <3> QED BY <3>8, <3>15 DEF c
  <2>13. CASE ~Growable(begun)
    <3> DEFINE none == <<>>
               f == [first EXCEPT !.pending = none]
    <3>1. none \in Seq(Nat) OBVIOUS
    <3>2. c = f /\ first.err # "none" BY <2>5, <2>8, <2>13
    <3>3. none = <<>> OBVIOUS
    <3> HIDE DEF none, c
    <3>4. c \in EmitterState BY <2>8, <3>1, <3>2, SetPending
    <3>5. /\ c.started = TRUE /\ c.attemptStarted = e.attemptStarted
          /\ c.pendingStart = 0 /\ c.pending = none /\ c.delivered = e.delivered
          /\ c.attempt = e.attempt /\ c.terminated = first.terminated
          /\ c.room = first.room /\ c.out = e.out
      BY <2>8, <2>9, <2>13, <3>2 DEF EmitterState
    <3>6. ~Growable(c) BY <2>8, <2>13, <3>5 DEF Growable
    <3>7. HeldIsCurrent(c) BY <3>3, <3>5 DEF HeldIsCurrent
    <3>8. FlagsMatchStream(c)
      BY <2>9, <2>10, <3>5, <3>6 DEF EmitterInv, FlagsMatchStream
    <3>9. Stream!Prefix(e.out, c.out) BY <1>0, <3>5, PrefixReflexive
    <3>10. Keeps(e, c) BY <3>4, <3>5, <3>7, <3>8, <3>9 DEF Keeps, EmitterInv
    <3> QED BY <3>5, <3>10 DEF c
  <2> QED BY <2>12, <2>13
<1> QED BY <1>1, <1>2, <1>3

LEMMA OutputKeeps ==
  ASSUME NEW e, EmitterInv(e)
  PROVE  Keeps(e, Output(e))
<1> DEFINE c == Commit(e)
           w == Write(c, "output", e.attempt)
<1>1. CASE ~e.attemptStarted BY <1>1, RefuseKeeps DEF Output, Errors
<1>2. CASE e.attemptStarted
  <2>1. /\ Keeps(e, c)
        /\ c.attempt = e.attempt /\ c.attemptStarted = e.attemptStarted
        /\ c.err = "none" => c.started
    BY CommitKeeps
  <2>2. Output(e) = IF c.err # "none" THEN c
                    ELSE [w EXCEPT !.delivered = w.delivered \/ w.err = "none"]
    BY <1>2 DEF Output
  <2> HIDE DEF c
  <2>3. EmitterInv(c) /\ c \in EmitterState /\ c.attempt \in Nat
    BY <2>1, FieldTypes DEF Keeps, EmitterInv
  <2>4. CASE c.err # "none" BY <2>1, <2>2, <2>4
  <2>5. CASE c.err = "none"
    <3>1. Keeps(c, w) BY <1>2, <2>1, <2>3, <2>5, WriteKeeps
    <3>2. w \in EmitterState /\ w.started = c.started
      BY <2>1, <2>3, <3>1, WriteFields DEF Keeps, EmitterInv, Types
    <3>3. w.err = "none" => Has(w.out, "output")
      <4>1. SUFFICES ASSUME w.err = "none" PROVE Has(w.out, "output") OBVIOUS
      <4>2. w.out = Append(c.out, [type |-> "output", seq |-> c.sequence, by |-> e.attempt])
        <5>1. "output" \in Types /\ e.attempt \in Nat BY <2>1, <2>3 DEF Types
        <5>2. w.err = WriteError(c) BY <2>3, <5>1, WriteFields
        <5> QED BY <2>3, <4>1, <5>1, <5>2, WriteFields
      <4>3. c.out \in Seq(Event) BY <2>3, FieldTypes
      <4>4. Len(c.out) + 1 \in DOMAIN w.out /\ w.out[Len(c.out) + 1].type = "output"
        BY <4>2, <4>3
      <4> QED BY <4>4 DEF Has
    <3> DEFINE b == w.delivered \/ w.err = "none"
               f == [w EXCEPT !.delivered = b]
    <3>4. b \in BOOLEAN OBVIOUS
    <3>5. b => w.delivered \/ w.err = "none" OBVIOUS
    <3>6. Output(e) = f BY <2>2, <2>5
    <3> HIDE DEF w, b
    <3>7. f \in EmitterState BY <3>2, <3>4, SetDelivered
    <3>8. /\ f.started = w.started /\ f.attemptStarted = w.attemptStarted
          /\ f.pendingStart = w.pendingStart /\ f.pending = w.pending
          /\ f.sequence = w.sequence /\ f.terminated = w.terminated
          /\ f.delivered = b /\ f.attempt = w.attempt
          /\ f.room = w.room /\ f.out = w.out
      BY <3>2, <3>4 DEF EmitterState
    <3> HIDE DEF f
    <3>9. HeldIsCurrent(f) BY <3>1, <3>8 DEF Keeps, EmitterInv, HeldIsCurrent
    <3>10. f.delivered => f.started /\ Has(f.out, "output")
      BY <2>1, <2>5, <3>1, <3>2, <3>3, <3>5, <3>8
         DEF Keeps, EmitterInv, FlagsMatchStream
    <3>11. FlagsMatchStream(f)
      BY <3>1, <3>8, <3>10 DEF Keeps, EmitterInv, FlagsMatchStream, Growable
    <3>12. Keeps(c, f)
      BY <3>1, <3>7, <3>8, <3>9, <3>11 DEF Keeps, EmitterInv
    <3> QED BY <2>1, <3>6, <3>12, KeepsTransitive
  <2> QED BY <2>4, <2>5
<1> QED BY <1>1, <1>2

LEMMA ProgressKeeps ==
  ASSUME NEW e, EmitterInv(e)
  PROVE  Keeps(e, Progress(e))
<1>0. e \in EmitterState /\ e.attempt \in Nat /\ e.pending \in Seq(Nat)
  BY FieldTypes DEF EmitterInv
<1>1. CASE ~e.attemptStarted BY <1>1, RefuseKeeps DEF Progress, Errors
<1>2. CASE e.attemptStarted /\ e.started
  BY <1>0, <1>2, WriteKeeps DEF Progress
<1>3. CASE e.attemptStarted /\ ~e.started
  <2> DEFINE p  == Append(e.pending, e.attempt)
             e1 == [e EXCEPT !.pending = p]
             f  == [e1 EXCEPT !.err = "none"]
  <2>1. /\ p \in Seq(Nat) /\ "none" \in Errors
        /\ \A i \in DOMAIN p : p[i] = e.attempt
    BY <1>0 DEF Errors, EmitterInv, HeldIsCurrent
  <2>2. Progress(e) = f BY <1>3 DEF Progress
  <2> HIDE DEF p
  <2>3. e1 \in EmitterState BY <1>0, <2>1, SetPending
  <2>4. f \in EmitterState
    <3> HIDE DEF e1
    <3> QED BY <2>1, <2>3, SetErr
  <2>5. /\ f.started = e.started /\ f.attemptStarted = e.attemptStarted
        /\ f.pendingStart = e.pendingStart /\ f.pending = p
        /\ f.sequence = e.sequence /\ f.terminated = e.terminated
        /\ f.delivered = e.delivered /\ f.attempt = e.attempt
        /\ f.room = e.room /\ f.out = e.out
    BY <1>0 DEF EmitterState
  <2>6. Stream!Prefix(e.out, f.out) BY <1>0, <2>5, FieldTypes, PrefixReflexive
  <2> HIDE DEF f
  <2>7. HeldIsCurrent(f) BY <2>1, <2>5 DEF EmitterInv, HeldIsCurrent
  <2>8. FlagsMatchStream(f) BY <2>5 DEF EmitterInv, FlagsMatchStream, Growable
  <2> QED BY <2>2, <2>4, <2>5, <2>6, <2>7, <2>8 DEF Keeps, EmitterInv
<1> QED BY <1>1, <1>2, <1>3

LEMMA RouteSwitchKeeps ==
  ASSUME NEW e, EmitterInv(e)
  PROVE  Keeps(e, RouteSwitch(e))
<1>1. CASE e.started BY <1>1, RefuseKeeps DEF RouteSwitch, Errors
<1>2. CASE ~e.started BY <1>2, WriteKeeps DEF RouteSwitch
<1> QED BY <1>1, <1>2

LEMMA DoneKeeps ==
  ASSUME NEW e, EmitterInv(e)
  PROVE  Keeps(e, FinishWithDone(e))
<1> DEFINE c == Commit(e)
<1>1. CASE ~e.attemptStarted BY <1>1, RefuseKeeps DEF FinishWithDone, Errors
<1>2. CASE e.attemptStarted
  <2>1. Keeps(e, c) /\ (c.err = "none" => c.started) BY CommitKeeps
  <2>2. FinishWithDone(e) = IF c.err # "none" THEN c
                            ELSE [Write(c, "done", 0) EXCEPT !.terminated = TRUE]
    BY <1>2 DEF FinishWithDone
  <2> HIDE DEF c
  <2>3. CASE c.err # "none" BY <2>1, <2>2, <2>3
  <2>4. CASE c.err = "none"
    <3>1. Keeps(c, [Write(c, "done", 0) EXCEPT !.terminated = TRUE])
      BY <2>1, <2>4, TerminalKeeps DEF Keeps
    <3> QED BY <2>1, <2>2, <2>4, <3>1, KeepsTransitive
  <2> QED BY <2>3, <2>4
<1> QED BY <1>1, <1>2

LEMMA ErrorKeeps ==
  ASSUME NEW e, EmitterInv(e)
  PROVE  Keeps(e, FinishWithError(e))
<1>1. CASE e.terminated BY <1>1, RefuseKeeps DEF FinishWithError, Errors
<1>2. CASE ~e.terminated BY <1>2, TerminalKeeps DEF FinishWithError
<1> QED BY <1>1, <1>2

-----------------------------------------------------------------------------
LEMMA InitInv == Init => EmitterInv(em)
<1> SUFFICES ASSUME NEW room \in Rooms, em = NewEmitter(room)
             PROVE  EmitterInv(em)
  BY DEF Init
<1>1. room \in Nat BY EmitterAssumption
<1>2. em \in EmitterState BY <1>1 DEF NewEmitter, EmitterState, Errors
<1>3. em.out = <<>> /\ em.pending = <<>> /\ em.pendingStart = 0 /\ em.sequence = 0
      /\ em.started = FALSE /\ em.delivered = FALSE
  BY DEF NewEmitter
<1>4. Stream!WellFormed(em.out)
  BY <1>3 DEF Stream!WellFormed, Stream!Numbered, Stream!OneAnswer, Stream!StartOnce,
              Stream!SwitchesFirst, Stream!TerminalLast, Stream!DoneFollowsStart
<1>5. HeldIsCurrent(em) BY <1>3 DEF HeldIsCurrent
<1>6. FlagsMatchStream(em) BY <1>3 DEF FlagsMatchStream, Unfinished, Has
<1> QED BY <1>2, <1>4, <1>5, <1>6 DEF EmitterInv

\* Every call keeps the invariant and only extends the stream.
LEMMA NextKeeps == EmitterInv(em) /\ Next => Keeps(em, em')
<1> SUFFICES ASSUME EmitterInv(em), Next PROVE Keeps(em, em') OBVIOUS
<1>1. CASE DoServing BY <1>1, ServingKeeps DEF DoServing
<1>2. CASE DoStart BY <1>2, StartKeeps DEF DoStart
<1>3. CASE DoOutput BY <1>3, OutputKeeps DEF DoOutput
<1>4. CASE DoProgress BY <1>4, ProgressKeeps DEF DoProgress
<1>5. CASE DoSwitch BY <1>5, RouteSwitchKeeps DEF DoSwitch
<1>6. CASE DoDone BY <1>6, DoneKeeps DEF DoDone
<1>7. CASE DoError BY <1>7, ErrorKeeps DEF DoError
<1> QED BY <1>1, <1>2, <1>3, <1>4, <1>5, <1>6, <1>7 DEF Next

LEMMA EmitterInvariant == Spec => []EmitterInv(em)
<1>1. Init => EmitterInv(em) BY InitInv
<1>2. EmitterInv(em) /\ [Next]_em => EmitterInv(em)'
  <2>1. EmitterInv(em) /\ Next => EmitterInv(em)' BY NextKeeps DEF Keeps
  <2>2. EmitterInv(em) /\ UNCHANGED em => EmitterInv(em)' OBVIOUS
  <2> QED BY <2>1, <2>2
<1> QED BY <1>1, <1>2, PTL DEF Spec

\* The emitter's record is well formed whatever order its callers call in.
THEOREM EmitterTypeCorrect == Spec => []TypeOK
<1>1. EmitterInv(em) => TypeOK BY DEF EmitterInv, TypeOK
<1> QED BY <1>1, EmitterInvariant, PTL

\* Delivered output is committed output, and nothing of a discarded attempt is
\* ever held: the flag settlement trusts cannot lie.
THEOREM DeliveredCommitted == Spec => []DeliveredIsCommitted
<1>1. EmitterInv(em) => DeliveredIsCommitted
  BY DEF EmitterInv, FlagsMatchStream, HeldIsCurrent, DeliveredIsCommitted, Has
<1> QED BY <1>1, EmitterInvariant, PTL

\* The emitter implements the customer's stream: for any number of attempts and
\* events, wherever the sink breaks and in whatever order it is called.
THEOREM StreamImplemented == Spec => ImplementsCustomerStream
<1>1. Init => Stream!Init BY DEF Init, NewEmitter, Stream!Init
<1>2. EmitterInv(em) /\ [Next]_em => [Stream!Next]_(em.out)
  <2>1. ASSUME EmitterInv(em), Next PROVE Stream!Next
    <3>1. Keeps(em, em') BY <2>1, NextKeeps
    <3>2. em'.out \in Seq(Event) BY <3>1, FieldTypes DEF Keeps, EmitterInv
    <3>3. em'.out \in Seq(Stream!Event)
      BY <3>2 DEF Event, Types, Stream!Event, Stream!Types
    <3> QED BY <3>1, <3>3 DEF Keeps, EmitterInv, Stream!Next
  <2>2. UNCHANGED em => UNCHANGED em.out OBVIOUS
  <2> QED BY <2>1, <2>2
<1> QED BY <1>1, <1>2, EmitterInvariant, PTL DEF Spec, ImplementsCustomerStream, Stream!Spec

(***************************************************************************)
(* Hedged exchanges                                                        *)
(***************************************************************************)

\* Every nonempty set of natural numbers has a least element.
LEMMA LeastNatural ==
  ASSUME NEW T \in SUBSET Nat, T # {}
  PROVE  \E x \in T : \A y \in T : x <= y
<1> DEFINE R == {ss \in Nat \X Nat : ss[1] < ss[2]}
<1>1. IsWellFoundedOn(R, Nat)
  BY NatLessThanWellFounded, Zenon DEF OpToRel
<1> HIDE DEF R
<1>2. PICK x \in T : \A y \in T : ~ (<<y, x>> \in R)
  BY <1>1, WFMin
<1>3. ASSUME NEW y \in T
      PROVE  x <= y
  <2>1. x \in Nat /\ y \in Nat
    OBVIOUS
  <2>2. ~(<<y, x>> \in R)
    BY <1>2
  <2>3. QED
    BY <2>1, <2>2, SMT DEF R
<1>4. QED
  BY <1>2, <1>3, Zenon

\* The upstreams, and what is known of each.
Upstreams == ToSet(Pinned)
Scores == [Upstreams -> Int \cup {Unmeasured}]

LEMMA PinnedUpstreams ==
  /\ Len(Pinned) \in Nat \ {0} /\ DOMAIN Pinned = 1..Len(Pinned)
  /\ \A k \in 1..Len(Pinned) : Pinned[k] \in Upstreams
  /\ \A u \in Upstreams : \E k \in 1..Len(Pinned) : Pinned[k] = u
  /\ \A j, k \in 1..Len(Pinned) : Pinned[j] = Pinned[k] => j = k
BY HedgeAssumption DEF Upstreams, ToSet

\* A plan runs through every upstream once.
IsPlan(p) ==
  /\ p \in Seq(Upstreams) /\ Len(p) = Len(Pinned)
  /\ \A j, k \in 1..Len(Pinned) : p[j] = p[k] => j = k
  /\ \A u \in Upstreams : \E k \in 1..Len(Pinned) : p[k] = u

\* The score the order goes by, and the upstreams ahead of the k-th by it.
Standing(s, k) == IF s[Pinned[k]] = Unmeasured THEN 0 ELSE s[Pinned[k]]
AheadOf(s, k) ==
  {j \in DOMAIN Pinned : Standing(s, j) < Standing(s, k) \/ (Standing(s, j) = Standing(s, k) /\ j < k)}

LEMMA OrderIsByStanding ==
  ASSUME NEW s
  PROVE  order(s) = [i \in DOMAIN Pinned |-> Pinned[CHOOSE k \in DOMAIN Pinned : Cardinality(AheadOf(s, k)) = i - 1]]
BY Zenon DEF order, AheadOf, Standing

LEMMA StandingIsInt ==
  ASSUME NEW s \in Scores, NEW k \in 1..Len(Pinned)
  PROVE  Standing(s, k) \in Int
<1>1. Pinned[k] \in Upstreams
  BY PinnedUpstreams
<1>2. s[Pinned[k]] \in Int \cup {Unmeasured}
  BY <1>1 DEF Scores
<1>3. QED
  BY <1>2 DEF Standing

LEMMA AheadIsBounded ==
  ASSUME NEW s \in Scores, NEW k \in 1..Len(Pinned)
  PROVE  /\ IsFiniteSet(AheadOf(s, k))
         /\ Cardinality(AheadOf(s, k)) \in 0..(Len(Pinned) - 1)
<1> DEFINE n == Len(Pinned)
<1>1. n \in Nat \ {0} /\ DOMAIN Pinned = 1..n
  BY PinnedUpstreams
<1>2. IsFiniteSet(1..n) /\ Cardinality(1..n) = n
  BY <1>1, FS_Interval
<1>3. Standing(s, k) \in Int
  BY StandingIsInt
<1>4. AheadOf(s, k) \subseteq (1..n) \ {k}
  BY <1>1, <1>3 DEF AheadOf
<1>5. IsFiniteSet((1..n) \ {k}) /\ Cardinality((1..n) \ {k}) = n - 1
  BY <1>2, FS_RemoveElement
<1>6. IsFiniteSet(AheadOf(s, k)) /\ Cardinality(AheadOf(s, k)) <= n - 1
  BY <1>4, <1>5, FS_Subset
<1>7. Cardinality(AheadOf(s, k)) \in Nat
  BY <1>6, FS_CardinalityType
<1>8. QED
  BY <1>1, <1>6, <1>7

LEMMA AheadSeparates ==
  ASSUME NEW s \in Scores, NEW j \in 1..Len(Pinned), NEW k \in 1..Len(Pinned),
         j \in AheadOf(s, k)
  PROVE  Cardinality(AheadOf(s, j)) < Cardinality(AheadOf(s, k))
<1>1. \A l \in 1..Len(Pinned) : Standing(s, l) \in Int
  BY StandingIsInt
<1>2. DOMAIN Pinned = 1..Len(Pinned) /\ Len(Pinned) \in Nat
  BY PinnedUpstreams
<1>3. AheadOf(s, j) \subseteq AheadOf(s, k) /\ j \notin AheadOf(s, j)
  BY <1>1, <1>2 DEF AheadOf
<1>4. AheadOf(s, j) \in SUBSET AheadOf(s, k) /\ AheadOf(s, j) # AheadOf(s, k)
  BY <1>3
<1>5. IsFiniteSet(AheadOf(s, k)) /\ Cardinality(AheadOf(s, k)) \in Nat /\ Cardinality(AheadOf(s, j)) \in Nat
  BY AheadIsBounded
<1>6. /\ Cardinality(AheadOf(s, j)) <= Cardinality(AheadOf(s, k))
      /\ Cardinality(AheadOf(s, k)) # Cardinality(AheadOf(s, j))
  BY <1>4, <1>5, FS_Subset
<1>7. QED
  BY <1>5, <1>6

\* Whatever was measured, the order is a plan: sorting drops no upstream and
\* repeats none.
LEMMA OrderIsAPlan ==
  ASSUME NEW s \in Scores
  PROVE  IsPlan(order(s))
<1> DEFINE n == Len(Pinned)
           C(k) == Cardinality(AheadOf(s, k))
           f == [k \in 1..n |-> C(k) + 1]
           whose(i) == CHOOSE k \in DOMAIN Pinned : C(k) = i - 1
<1>1. n \in Nat \ {0} /\ DOMAIN Pinned = 1..n
  BY PinnedUpstreams
<1>2. \A k \in 1..n : C(k) \in 0..(n - 1)
  BY AheadIsBounded
<1>3. \A j, k \in 1..n : C(j) = C(k) => j = k
  <2>1. SUFFICES ASSUME NEW j \in 1..n, NEW k \in 1..n, j # k
                 PROVE  C(j) # C(k)
    OBVIOUS
  <2>2. Standing(s, j) \in Int /\ Standing(s, k) \in Int
    BY StandingIsInt
  <2>3. j \in AheadOf(s, k) \/ k \in AheadOf(s, j)
    BY <1>1, <2>1, <2>2 DEF AheadOf
  <2>4. C(j) < C(k) \/ C(k) < C(j)
    BY <2>3, AheadSeparates
  <2>5. QED
    BY <2>4, <1>2
<1> HIDE DEF C
<1>4. f \in [1..n -> 1..n]
  BY <1>1, <1>2
<1>5. f \in Injection(1..n, 1..n)
  BY <1>2, <1>3, <1>4 DEF Injection, IsInjective
<1>6. IsFiniteSet(1..n)
  BY <1>1, FS_Interval
<1>7. f \in Surjection(1..n, 1..n)
  BY <1>5, <1>6, FS_Injection
<1>8. \A i \in 1..n : \E k \in 1..n : C(k) = i - 1
  <2>1. SUFFICES ASSUME NEW i \in 1..n
                 PROVE  \E k \in 1..n : C(k) = i - 1
    OBVIOUS
  <2>2. PICK k \in 1..n : f[k] = i
    BY <1>7 DEF Surjection
  <2>3. C(k) = i - 1
    BY <2>2, <1>2
  <2>4. QED
    BY <2>3
<1>9. \A i \in 1..n : whose(i) \in 1..n /\ C(whose(i)) = i - 1
  BY <1>1, <1>8
<1>10. \A i \in 1..n : order(s)[i] = Pinned[whose(i)]
  BY <1>1, OrderIsByStanding DEF C
<1>11. DOMAIN order(s) = 1..n
  BY <1>1, OrderIsByStanding
<1>12. order(s) = [i \in 1..n |-> Pinned[whose(i)]]
  BY <1>1, OrderIsByStanding DEF C
<1> HIDE DEF whose
<1>13. \A i \in 1..n : Pinned[whose(i)] \in Upstreams
  BY <1>9, PinnedUpstreams
<1>14. order(s) \in Seq(Upstreams) /\ Len(order(s)) = n
  <2>1. order(s) \in [1..n -> Upstreams]
    BY <1>12, <1>13
  <2>2. QED
    BY <2>1, <1>1
<1>15. \A j, k \in 1..n : order(s)[j] = order(s)[k] => j = k
  <2>1. SUFFICES ASSUME NEW j \in 1..n, NEW k \in 1..n, Pinned[whose(j)] = Pinned[whose(k)]
                 PROVE  j = k
    BY <1>10
  <2>2. whose(j) = whose(k)
    BY <2>1, <1>9, PinnedUpstreams
  <2>3. QED
    BY <2>2, <1>9
<1>16. \A u \in Upstreams : \E k \in 1..n : order(s)[k] = u
  <2>1. SUFFICES ASSUME NEW u \in Upstreams
                 PROVE  \E k \in 1..n : order(s)[k] = u
    OBVIOUS
  <2>2. PICK l \in 1..n : Pinned[l] = u
    BY PinnedUpstreams
  <2>3. C(l) + 1 \in 1..n /\ C(l) \in Int
    BY <1>1, <1>2
  <2>4. C(whose(C(l) + 1)) = C(l) /\ whose(C(l) + 1) \in 1..n
    BY <2>3, <1>9
  <2>5. whose(C(l) + 1) = l
    BY <2>4, <1>3
  <2>6. QED
    BY <2>2, <2>3, <2>5, <1>10
<1>17. QED
  BY <1>14, <1>15, <1>16 DEF IsPlan

-----------------------------------------------------------------------------
\* A sample is folded into the score of its upstream and of no other.
LEMMA RecordKeepsScores ==
  ASSUME NEW s \in Scores, NEW u \in Upstreams, NEW x \in Int
  PROVE  record(s, u, x) \in Scores
<1>1. s[u] \in Int \cup {Unmeasured}
  BY DEF Scores
<1>2. s[u] \in Int => s[u] + (3 * (x - s[u])) \div 10 \in Int
  OBVIOUS
<1>3. (IF s[u] = Unmeasured THEN x ELSE s[u] + (3 * (x - s[u])) \div 10) \in Int
  BY <1>1, <1>2
<1>4. QED
  BY <1>3 DEF record, Scores

Results == {"pending", "success", "transient", "refused"}
ExchangeType == [upstream : Upstreams, age : Nat, result : Results]

\* What a success teaches is again a score for every upstream, however many
\* exchanges it overtook.
LEMMA MeasuredScores ==
  ASSUME scores \in Scores, NEW r, NEW i,
         r.exchanges \in Seq(ExchangeType), i \in 1..Len(r.exchanges)
  PROVE  measured(r, i) \in Scores
<1> DEFINE n == Len(r.exchanges)
           first == observe(scores, r.exchanges[i].upstream, r.exchanges[i].age)
           step(s, k) == IF k \in Pending(r) /\ r.exchanges[k].age > r.exchanges[i].age
                         THEN observe(s, r.exchanges[k].upstream, r.exchanges[k].age) ELSE s
           Upto(m, f) == f \in [0..m -> Scores] /\ f[0] = first /\ \A k \in 1..m : f[k] = step(f[k - 1], k)
           Bad == {m \in 0..n : ~ \E f : Upto(m, f)}
<1>1. n \in Nat /\ \A k \in 1..n : r.exchanges[k].upstream \in Upstreams /\ r.exchanges[k].age \in Nat
  <2>1. n \in Nat /\ \A k \in 1..n : r.exchanges[k] \in ExchangeType
    OBVIOUS
  <2>2. QED
    BY <2>1 DEF ExchangeType
<1>2. first \in Scores
  BY <1>1, RecordKeepsScores DEF observe
<1>3. \A s \in Scores, k \in 1..n : step(s, k) \in Scores
  BY <1>1, RecordKeepsScores DEF observe
<1> HIDE DEF first, step
<1>4. Bad = {}
  <2>1. SUFFICES ASSUME Bad # {}
                 PROVE  FALSE
    OBVIOUS
  <2>2. Bad \in SUBSET Nat
    OBVIOUS
  <2> HIDE DEF Bad
  <2>3. PICK m \in Bad : \A y \in Bad : m <= y
    BY <2>1, <2>2, LeastNatural
  <2> USE DEF Bad
  <2>4. m # 0
    <3>1. Upto(0, [k \in {0} |-> first])
      <4>1. 0..0 = {0} /\ 1..0 = {}
        OBVIOUS
      <4>2. QED
        BY <4>1, <1>2
    <3>2. QED
      BY <2>3, <3>1
  <2>5. m - 1 \in 0..n /\ m - 1 \notin Bad
    <3>1. m \in 0..n
      BY <2>3
    <3> HIDE DEF Bad
    <3>2. QED
      BY <3>1, <2>3, <2>4, <1>1
  <2>6. PICK f : Upto(m - 1, f)
    BY <2>5
  <2> DEFINE g == [k \in 0..m |-> IF k = m THEN step(f[m - 1], m) ELSE f[k]]
  <2>7. m \in 1..n /\ f[m - 1] \in Scores
    BY <2>3, <2>4, <2>6, <1>1
  <2>8. step(f[m - 1], m) \in Scores
    BY <2>7, <1>3
  <2>9. g \in [0..m -> Scores]
    BY <2>6, <2>7, <2>8
  <2>10. \A k \in 1..m : g[k] = step(g[k - 1], k)
    BY <2>6, <2>7
  <2>11. g[0] = first
    BY <2>6, <2>7
  <2>12. Upto(m, g)
    BY <2>9, <2>10, <2>11
  <2>13. QED
    BY <2>3, <2>12
<1>5. PICK f : Upto(n, f)
  <2>1. n \in 0..n
    BY <1>1
  <2>2. QED
    BY <2>1, <1>4
<1> DEFINE Law(g) == g = [k \in 0..n |-> IF k = 0 THEN first ELSE step(g[k - 1], k)]
           known == CHOOSE g : Law(g)
<1>6. Law(f)
  BY <1>1, <1>5
<1>7. Law(known)
  BY <1>6
<1>8. measured(r, i) = known[n]
  BY Zenon DEF measured, first, step
<1> HIDE DEF known
<1>9. \A k \in 0..n : known[k] = IF k = 0 THEN first ELSE step(known[k - 1], k)
  BY <1>7
<1> DEFINE Ill == {k \in 0..n : known[k] \notin Scores}
<1>10. Ill = {}
  <2>1. SUFFICES ASSUME Ill # {}
                 PROVE  FALSE
    OBVIOUS
  <2>2. Ill \in SUBSET Nat
    OBVIOUS
  <2> HIDE DEF Ill
  <2>3. PICK m \in Ill : \A y \in Ill : m <= y
    BY <2>1, <2>2, LeastNatural
  <2> USE DEF Ill
  <2>4. m # 0
    BY <2>3, <1>1, <1>2, <1>9
  <2>5. m \in 1..n /\ m - 1 \in 0..n /\ m - 1 \notin Ill
    BY <2>3, <2>4, <1>1
  <2>6. known[m - 1] \in Scores
    BY <2>5
  <2>7. step(known[m - 1], m) \in Scores
    BY <2>5, <2>6, <1>3
  <2>8. known[m] = step(known[m - 1], m)
    BY <2>4, <2>5, <1>9
  <2>9. QED
    BY <2>3, <2>7, <2>8
<1>11. QED
  BY <1>1, <1>8, <1>10

-----------------------------------------------------------------------------
Stages == {"idle", "racing", "won", "failed"}
RaceFields == {"run", "stage", "plan", "exchanges", "due", "launching", "answer", "abandoned", "live"}

\* The exchanges of a race go round its plan.
GoesRound(r) ==
  /\ IsPlan(r.plan)
  /\ \A k \in 1..Len(r.exchanges) : r.exchanges[k].upstream = r.plan[((k - 1) % Len(Pinned)) + 1]

\* A race that still runs has an exchange in flight and none that succeeded;
\* one that failed has neither; one that was won counts what it cut off.
Stands(r) ==
  /\ r.stage \in {"racing", "failed"} =>
       /\ r.abandoned = 0
       /\ \A k \in 1..Len(r.exchanges) : r.exchanges[k].result # "success"
  /\ r.stage = "racing" => Pending(r) # {}
  /\ r.stage = "failed" => Pending(r) = {}
  /\ r.stage = "won" => /\ \E k \in 1..Len(r.exchanges) : r.exchanges[k].result = "success"
                        /\ r.abandoned = Cardinality(Pending(r))

\* A well-formed race: what the actions read of it has its type.
WellFormed(r) ==
  /\ RaceFields \subseteq DOMAIN r
  /\ r.stage \in Stages
  /\ r.exchanges \in Seq(ExchangeType) /\ Len(r.exchanges) <= Limit
  /\ r.stage = "idle" => r.exchanges = <<>>
  /\ r.stage # "idle" => GoesRound(r)

HedgeInv == scores \in Scores /\ WellFormed(race) /\ Stands(race)

LEMMA HedgeStarts ==
  HedgeInit => HedgeInv
<1>1. SUFFICES ASSUME HedgeInit
               PROVE  HedgeInv
  OBVIOUS
<1>2. scores \in Scores
  BY <1>1 DEF HedgeInit, Scores, Upstreams
<1>3. race.exchanges = <<>> /\ race.stage = "idle" /\ RaceFields \subseteq DOMAIN race
  BY <1>1 DEF HedgeInit, RaceFields
<1>4. QED
  BY <1>2, <1>3, HedgeAssumption DEF HedgeInv, WellFormed, Stands, Stages

\* An exchange launched last.
LEMMA Appended ==
  ASSUME NEW q \in Seq(ExchangeType), NEW e \in ExchangeType
  PROVE  /\ Append(q, e) \in Seq(ExchangeType) /\ Len(Append(q, e)) = Len(q) + 1
         /\ \A k \in 1..Len(q) : Append(q, e)[k] = q[k]
         /\ Append(q, e)[Len(q) + 1] = e
OBVIOUS

\* The remainder of a division.
LEMMA ModBelow ==
  ASSUME NEW a \in Nat, NEW b \in Nat \ {0}
  PROVE  a % b \in 0..(b - 1) /\ (a < b => a % b = a)
OBVIOUS

\* Starting an exchange: one more, of the next upstream of the plan, pending.
LEMMA StartLaunches ==
  ASSUME NEW r, RaceFields \subseteq DOMAIN r, r.stage = "racing", r.abandoned = 0,
         r.exchanges \in Seq(ExchangeType), Len(r.exchanges) < Limit, GoesRound(r),
         \A k \in 1..Len(r.exchanges) : r.exchanges[k].result # "success"
  PROVE  WellFormed(start(r)) /\ Stands(start(r))
<1> DEFINE n == Len(Pinned)
           m == Len(r.exchanges)
           slot == (m % n) + 1
           e == Exchange(r.plan[slot])
<1>1. n \in Nat \ {0} /\ m \in Nat /\ Limit \in Nat
  BY PinnedUpstreams, HedgeAssumption
<1>2. slot \in 1..n
  <2>1. PICK q : q = m % n
    OBVIOUS
  <2>2. q \in 0..(n - 1)
    BY <1>1, <2>1, ModBelow
  <2>3. q + 1 \in 1..n
    BY <2>2, <1>1
  <2>4. QED
    BY <2>1, <2>3
<1>3. Len(r.plan) = n /\ r.plan[slot] \in Upstreams
  <2>1. r.plan \in Seq(Upstreams) /\ Len(r.plan) = n
    BY DEF GoesRound, IsPlan
  <2> HIDE DEF slot
  <2>2. QED
    BY <2>1, <1>2
<1>4. e \in ExchangeType /\ e.upstream = r.plan[slot] /\ e.result = "pending"
  BY <1>3 DEF Exchange, ExchangeType, Results
<1> HIDE DEF e
<1>5. PICK x : x = start(r)
  OBVIOUS
<1>6. x = [r EXCEPT !.exchanges = Append(r.exchanges, e), !.due = FALSE]
  BY <1>3, <1>5 DEF start, e
<1>7. /\ x.exchanges = Append(r.exchanges, e) /\ x.stage = "racing" /\ x.plan = r.plan /\ x.abandoned = 0
      /\ RaceFields \subseteq DOMAIN x
  BY <1>6 DEF RaceFields
<1>8. /\ x.exchanges \in Seq(ExchangeType) /\ Len(x.exchanges) = m + 1
      /\ \A k \in 1..m : x.exchanges[k] = r.exchanges[k]
      /\ x.exchanges[m + 1] = e
  BY <1>4, <1>7, Appended
<1>9. GoesRound(x)
  <2>1. ASSUME NEW k \in 1..Len(x.exchanges)
        PROVE  x.exchanges[k].upstream = x.plan[((k - 1) % n) + 1]
    <3>1. CASE k \in 1..m
      BY <3>1, <1>7, <1>8 DEF GoesRound
    <3>2. CASE k = m + 1
      <4>1. k - 1 = m
        BY <3>2, <1>1
      <4>2. QED
        BY <4>1, <3>2, <1>4, <1>7, <1>8
    <3>3. QED
      BY <2>1, <3>1, <3>2, <1>1, <1>8
  <2>2. QED
    BY <2>1, <1>7 DEF GoesRound
<1>10. m + 1 \in Pending(x)
  BY <1>1, <1>4, <1>8 DEF Pending
<1>11. \A k \in 1..Len(x.exchanges) : x.exchanges[k].result # "success"
  BY <1>1, <1>4, <1>8
<1>12. QED
  BY <1>1, <1>5, <1>7, <1>8, <1>9, <1>10, <1>11 DEF WellFormed, Stands, Stages

\* A race that is under way: Stands without an exchange in flight.
Runs(r) ==
  /\ RaceFields \subseteq DOMAIN r /\ r.stage = "racing" /\ r.abandoned = 0
  /\ r.exchanges \in Seq(ExchangeType) /\ Len(r.exchanges) <= Limit /\ GoesRound(r)
  /\ \A k \in 1..Len(r.exchanges) : r.exchanges[k].result # "success"

LEMMA RacingRuns ==
  ASSUME HedgeInv, race.stage = "racing"
  PROVE  Runs(race)
BY DEF HedgeInv, WellFormed, Stands, Runs

\* A failure leaves a race that runs on or one that failed.
LEMMA SettledStands ==
  ASSUME NEW r, Runs(r)
  PROVE  WellFormed(settled(r)) /\ Stands(settled(r))
<1>1. CASE Pending(r) = {}
  <2>1. PICK x : x = [r EXCEPT !.stage = "failed"]
    OBVIOUS
  <2>2. /\ x.stage = "failed" /\ x.exchanges = r.exchanges /\ x.plan = r.plan /\ x.abandoned = 0
        /\ RaceFields \subseteq DOMAIN x
    BY <2>1 DEF Runs, RaceFields
  <2>3. Pending(x) = {}
    BY <1>1, <2>2 DEF Pending
  <2>4. GoesRound(x)
    BY <2>2 DEF Runs, GoesRound
  <2>5. WellFormed(x) /\ Stands(x)
    BY <2>2, <2>3, <2>4 DEF Runs, WellFormed, Stands, Stages
  <2>6. settled(r) = x
    BY <1>1, <2>1 DEF settled
  <2>7. QED
    BY <2>5, <2>6
<1>2. CASE Pending(r) # {}
  <2>1. settled(r) = r
    BY <1>2 DEF settled
  <2>2. WellFormed(r) /\ Stands(r)
    BY <1>2 DEF Runs, WellFormed, Stands, Stages
  <2>3. QED
    BY <2>1, <2>2
<1>3. QED
  BY <1>1, <1>2

\* One exchange is answered; the others are as they were.
LEMMA AnsweredOne ==
  ASSUME NEW q \in Seq(ExchangeType), NEW i \in 1..Len(q), NEW res \in Results, NEW x,
         x = [q EXCEPT ![i].result = res]
  PROVE  /\ x \in Seq(ExchangeType) /\ Len(x) = Len(q)
         /\ \A k \in 1..Len(q) : x[k].upstream = q[k].upstream
         /\ \A k \in 1..Len(q) : k # i => x[k] = q[k]
         /\ x[i].result = res
<1>1. \A k \in 1..Len(q) : q[k] \in ExchangeType
  OBVIOUS
<1>2. Len(q) \in Nat /\ DOMAIN q = 1..Len(q)
  OBVIOUS
<1>3. [q[i] EXCEPT !.result = res] \in ExchangeType
  BY <1>1 DEF ExchangeType
<1>4. x = [q EXCEPT ![i] = [q[i] EXCEPT !.result = res]]
  OBVIOUS
<1>5. x \in Seq(ExchangeType) /\ Len(x) = Len(q) /\ x[i] = [q[i] EXCEPT !.result = res]
      /\ \A k \in 1..Len(q) : k # i => x[k] = q[k]
  BY <1>3, <1>4, <1>2
<1>6. x[i].result = res /\ x[i].upstream = q[i].upstream
  BY <1>1, <1>5 DEF ExchangeType
<1>7. QED
  BY <1>5, <1>6

LEMMA PendingIsLaunched ==
  ASSUME NEW r, r.exchanges \in Seq(ExchangeType)
  PROVE  /\ Pending(r) = {k \in 1..Len(r.exchanges) : r.exchanges[k].result = "pending"}
         /\ IsFiniteSet(Pending(r)) /\ Cardinality(Pending(r)) \in Nat
<1>1. Len(r.exchanges) \in Nat /\ DOMAIN r.exchanges = 1..Len(r.exchanges)
  OBVIOUS
<1>2. Pending(r) = {k \in 1..Len(r.exchanges) : r.exchanges[k].result = "pending"}
  BY <1>1 DEF Pending
<1>3. IsFiniteSet(1..Len(r.exchanges))
  BY <1>1, FS_Interval
<1>4. IsFiniteSet(Pending(r))
  BY <1>2, <1>3, FS_Subset
<1>5. QED
  BY <1>2, <1>4, FS_CardinalityType

\* A failed exchange leaves a race that runs, in every way the code records it.
LEMMA FailedRuns ==
  ASSUME HedgeInv, race.stage = "racing", NEW i \in Pending(race), NEW res \in {"transient", "refused"}, NEW x,
         x.exchanges = [race.exchanges EXCEPT ![i].result = res], x.stage = "racing", x.plan = race.plan,
         x.abandoned = race.abandoned, RaceFields \subseteq DOMAIN x
  PROVE  Runs(x) /\ Len(x.exchanges) = Len(race.exchanges)
<1>1. Runs(race)
  BY RacingRuns
<1>2. race.exchanges \in Seq(ExchangeType)
  BY <1>1 DEF Runs
<1>3. i \in 1..Len(race.exchanges) /\ res \in Results
  BY <1>2, PendingIsLaunched DEF Results
<1>4. /\ x.exchanges \in Seq(ExchangeType) /\ Len(x.exchanges) = Len(race.exchanges)
      /\ \A k \in 1..Len(race.exchanges) : x.exchanges[k].upstream = race.exchanges[k].upstream
      /\ \A k \in 1..Len(race.exchanges) : k # i => x.exchanges[k] = race.exchanges[k]
      /\ x.exchanges[i].result = res
  BY <1>2, <1>3, AnsweredOne
<1>5. GoesRound(x)
  BY <1>1, <1>4 DEF Runs, GoesRound
<1>6. \A k \in 1..Len(x.exchanges) : x.exchanges[k].result # "success"
  BY <1>1, <1>4 DEF Runs
<1>7. QED
  BY <1>1, <1>4, <1>5, <1>6 DEF Runs

-----------------------------------------------------------------------------
LEMMA RaceKeeps ==
  ASSUME HedgeInv, Race
  PROVE  HedgeInv'
<1>1. scores \in Scores /\ scores' = scores
  BY DEF HedgeInv, Race
<1>2. PICK r : r = [run |-> race.run + 1, stage |-> "racing", plan |-> order(scores), exchanges |-> <<>>, due |-> FALSE,
                    launching |-> TRUE, answer |-> "none", abandoned |-> 0, live |-> TRUE]
  OBVIOUS
<1>3. race' = start(r)
  BY <1>2 DEF Race
<1>4. IsPlan(order(scores))
  BY <1>1, OrderIsAPlan
<1>5. /\ RaceFields \subseteq DOMAIN r /\ r.stage = "racing" /\ r.abandoned = 0 /\ r.exchanges = <<>>
      /\ r.plan = order(scores)
  BY <1>2 DEF RaceFields
<1>6. r.exchanges \in Seq(ExchangeType) /\ Len(r.exchanges) = 0 /\ Len(r.exchanges) < Limit /\ 1..Len(r.exchanges) = {}
  BY <1>5, HedgeAssumption
<1>7. GoesRound(r)
  BY <1>4, <1>5, <1>6 DEF GoesRound
<1>8. WellFormed(start(r)) /\ Stands(start(r))
  BY <1>5, <1>6, <1>7, StartLaunches
<1>9. WellFormed(race') /\ Stands(race')
  BY <1>3, <1>8
<1>10. QED
  BY <1>1, <1>9 DEF HedgeInv, WellFormed, Stands, GoesRound, Pending

LEMMA FiresKeeps ==
  ASSUME HedgeInv, Fires
  PROVE  HedgeInv'
<1>1. scores \in Scores /\ scores' = scores /\ race.stage = "racing"
  BY DEF HedgeInv, Fires
<1>2. Runs(race)
  BY <1>1, RacingRuns
<1>3. race' = start(race) /\ Len(race.exchanges) < Limit
  BY DEF Fires
<1>4. WellFormed(start(race)) /\ Stands(start(race))
  BY <1>1, <1>2, <1>3, StartLaunches DEF Runs
<1>5. WellFormed(race') /\ Stands(race')
  BY <1>3, <1>4
<1>6. QED
  BY <1>1, <1>5 DEF HedgeInv, WellFormed, Stands, GoesRound, Pending

LEMMA AbandonsKeeps ==
  ASSUME HedgeInv, Abandons
  PROVE  HedgeInv'
<1>1. scores \in Scores /\ scores' = scores /\ race.stage = "racing"
  BY DEF HedgeInv, Abandons
<1>2. Runs(race) /\ Pending(race) # {}
  BY <1>1, RacingRuns DEF HedgeInv, Stands
<1>3. PICK x : x = [race EXCEPT !.live = FALSE]
  OBVIOUS
<1>4. race' = x
  BY <1>3 DEF Abandons
<1>5. /\ x.stage = "racing" /\ x.exchanges = race.exchanges /\ x.plan = race.plan /\ x.abandoned = 0
      /\ RaceFields \subseteq DOMAIN x
  BY <1>2, <1>3 DEF Runs, RaceFields
<1>6. Pending(x) # {}
  BY <1>2, <1>5 DEF Pending
<1>7. WellFormed(x) /\ Stands(x)
  BY <1>2, <1>5, <1>6 DEF Runs, WellFormed, Stands, GoesRound, Stages
<1>8. WellFormed(race') /\ Stands(race')
  BY <1>4, <1>7
<1>9. QED
  BY <1>1, <1>8 DEF HedgeInv, WellFormed, Stands, GoesRound, Pending

LEMMA PassesKeeps ==
  ASSUME HedgeInv, Passes
  PROVE  HedgeInv'
<1>1. scores \in Scores /\ scores' = scores /\ race.stage = "racing"
  BY DEF HedgeInv, Passes
<1>2. Runs(race) /\ Pending(race) # {} /\ race.exchanges \in Seq(ExchangeType)
  BY <1>1, RacingRuns DEF HedgeInv, Stands, Runs
<1> DEFINE q == race.exchanges
           old == aged(race)
<1>3. PICK x : x = [race EXCEPT !.due = TRUE, !.exchanges = aged(race)]
  OBVIOUS
<1>4. race' = x
  BY <1>3 DEF Passes
<1>5. /\ x.stage = "racing" /\ x.exchanges = old /\ x.plan = race.plan /\ x.abandoned = 0
      /\ RaceFields \subseteq DOMAIN x
  BY <1>2, <1>3 DEF Runs, RaceFields
<1>6. Len(q) \in Nat /\ DOMAIN q = 1..Len(q) /\ \A k \in 1..Len(q) : q[k] \in ExchangeType
  BY <1>2
<1>7. ASSUME NEW k \in 1..Len(q)
      PROVE  /\ old[k] \in ExchangeType /\ old[k].upstream = q[k].upstream /\ old[k].result = q[k].result
  <2>1. q[k] \in ExchangeType
    BY <1>6
  <2>2. PICK e : e = [q[k] EXCEPT !.age = @ + 1]
    OBVIOUS
  <2>3. e \in ExchangeType /\ e.upstream = q[k].upstream /\ e.result = q[k].result
    BY <2>1, <2>2 DEF ExchangeType
  <2>4. old[k] = e \/ old[k] = q[k]
    BY <1>6, <2>2 DEF aged
  <2>5. QED
    BY <2>1, <2>3, <2>4
<1>8. old \in Seq(ExchangeType) /\ Len(old) = Len(q)
  <2>1. old = [k \in 1..Len(q) |-> old[k]]
    BY <1>6 DEF aged
  <2>2. old \in [1..Len(q) -> ExchangeType]
    BY <2>1, <1>7
  <2>3. QED
    BY <2>2, <1>6
<1> HIDE DEF old
<1>9. Pending(x) = Pending(race)
  <2>1. Pending(x) = {k \in 1..Len(q) : old[k].result = "pending"}
    BY <1>5, <1>8, PendingIsLaunched
  <2>2. Pending(race) = {k \in 1..Len(q) : q[k].result = "pending"}
    BY <1>2, PendingIsLaunched
  <2>3. QED
    BY <2>1, <2>2, <1>7
<1>10. GoesRound(x)
  BY <1>2, <1>5, <1>7, <1>8 DEF Runs, GoesRound
<1>11. WellFormed(x) /\ Stands(x)
  BY <1>2, <1>5, <1>7, <1>8, <1>9, <1>10 DEF Runs, WellFormed, Stands, Stages
<1>12. WellFormed(race') /\ Stands(race')
  BY <1>4, <1>11
<1>13. QED
  BY <1>1, <1>12 DEF HedgeInv, WellFormed, Stands, GoesRound, Pending

LEMMA WinsKeeps ==
  ASSUME HedgeInv, NEW i \in 1..Limit, Wins(i)
  PROVE  HedgeInv'
<1>1. scores \in Scores /\ race.stage = "racing" /\ i \in Pending(race) /\ scores' = measured(race, i)
  BY DEF HedgeInv, Wins
<1>2. Runs(race) /\ race.exchanges \in Seq(ExchangeType)
  BY <1>1, RacingRuns DEF Runs
<1>3. i \in 1..Len(race.exchanges) /\ race.exchanges[i].result = "pending"
  BY <1>1, <1>2, PendingIsLaunched
<1>4. scores' \in Scores
  BY <1>1, <1>2, <1>3, MeasuredScores
<1> DEFINE q == race.exchanges
           won == [q EXCEPT ![i].result = "success"]
<1>5. PICK x : x = [race EXCEPT !.stage = "won", !.answer = "success", !.exchanges[i].result = "success",
                                !.abandoned = Cardinality(Pending(race)) - 1]
  OBVIOUS
<1>6. race' = x
  BY <1>5 DEF Wins
<1>7. /\ x.stage = "won" /\ x.exchanges = won /\ x.plan = race.plan /\ x.abandoned = Cardinality(Pending(race)) - 1
      /\ RaceFields \subseteq DOMAIN x
  BY <1>2, <1>5 DEF Runs, RaceFields
<1>8. /\ won \in Seq(ExchangeType) /\ Len(won) = Len(q)
      /\ \A k \in 1..Len(q) : won[k].upstream = q[k].upstream
      /\ \A k \in 1..Len(q) : k # i => won[k] = q[k]
      /\ won[i].result = "success"
  <2>1. "success" \in Results
    BY DEF Results
  <2>2. PICK w : w = won
    OBVIOUS
  <2>3. /\ w \in Seq(ExchangeType) /\ Len(w) = Len(q)
        /\ \A k \in 1..Len(q) : w[k].upstream = q[k].upstream
        /\ \A k \in 1..Len(q) : k # i => w[k] = q[k]
        /\ w[i].result = "success"
    BY <2>1, <2>2, <1>2, <1>3, AnsweredOne
  <2> HIDE DEF won
  <2>4. QED
    BY <2>2, <2>3
<1> HIDE DEF won
<1>9. Pending(x) = Pending(race) \ {i}
  <2>1. Pending(x) = {k \in 1..Len(q) : won[k].result = "pending"}
    BY <1>7, <1>8, PendingIsLaunched
  <2>2. Pending(race) = {k \in 1..Len(q) : q[k].result = "pending"}
    BY <1>2, PendingIsLaunched
  <2>3. QED
    BY <2>1, <2>2, <1>8
<1>10. x.abandoned = Cardinality(Pending(x))
  <2>1. IsFiniteSet(Pending(race))
    BY <1>2, PendingIsLaunched
  <2>2. QED
    BY <2>1, <1>1, <1>7, <1>9, FS_RemoveElement
<1>11. GoesRound(x)
  BY <1>2, <1>7, <1>8 DEF Runs, GoesRound
<1>12. WellFormed(x) /\ Stands(x)
  BY <1>2, <1>3, <1>7, <1>8, <1>10, <1>11 DEF Runs, WellFormed, Stands, Stages
<1>13. WellFormed(race') /\ Stands(race')
  BY <1>6, <1>12
<1>14. QED
  BY <1>4, <1>13 DEF HedgeInv, WellFormed, Stands, GoesRound, Pending

LEMMA FailsTransientlyKeeps ==
  ASSUME HedgeInv, NEW i \in 1..Limit, FailsTransiently(i)
  PROVE  HedgeInv'
<1>1. scores \in Scores /\ race.stage = "racing" /\ i \in Pending(race)
  BY DEF HedgeInv, FailsTransiently
<1>2. Runs(race) /\ race.exchanges \in Seq(ExchangeType)
  BY <1>1, RacingRuns DEF Runs
<1>3. i \in 1..Len(race.exchanges)
  BY <1>1, <1>2, PendingIsLaunched
<1>4. PICK x : x = [race EXCEPT !.exchanges[i].result = "transient", !.answer = "transient"]
  OBVIOUS
<1>5. PICK y : y = [x EXCEPT !.launching = FALSE]
  OBVIOUS
<1>6. /\ x.stage = "racing" /\ x.exchanges = [race.exchanges EXCEPT ![i].result = "transient"] /\ x.plan = race.plan
      /\ x.abandoned = race.abandoned /\ RaceFields \subseteq DOMAIN x
  BY <1>2, <1>4 DEF Runs, RaceFields
<1>7. /\ y.stage = "racing" /\ y.exchanges = x.exchanges /\ y.plan = x.plan
      /\ y.abandoned = x.abandoned /\ RaceFields \subseteq DOMAIN y
  BY <1>5, <1>6 DEF RaceFields
<1>8. Runs(x) /\ Len(x.exchanges) = Len(race.exchanges)
  BY <1>1, <1>6, FailedRuns
<1>9. Runs(y)
  BY <1>7, <1>8 DEF Runs, GoesRound
<1>10. CASE ~race.live
  <2>1. race' = settled(y) /\ scores' = scores
    BY <1>4, <1>5, <1>10 DEF FailsTransiently
  <2>2. WellFormed(race') /\ Stands(race')
    BY <2>1, <1>9, SettledStands
  <2>3. QED
    BY <1>1, <2>1, <2>2 DEF HedgeInv, WellFormed, Stands, GoesRound, Pending
<1>11. CASE race.live
  <2>1. /\ race' = IF Len(race.exchanges) < Limit THEN start(x) ELSE settled(x)
        /\ scores' = fail(scores, race.exchanges[i].upstream)
    BY <1>4, <1>11 DEF FailsTransiently
  <2>2. scores' \in Scores
    <3>1. race.exchanges[i] \in ExchangeType
      BY <1>2, <1>3
    <3>2. race.exchanges[i].upstream \in Upstreams
      BY <3>1 DEF ExchangeType
    <3>3. Limit * 100 \in Int
      BY HedgeAssumption
    <3>4. QED
      BY <2>1, <1>1, <3>2, <3>3, RecordKeepsScores DEF fail, upstreamFailurePenalty
  <2>3. Len(race.exchanges) < Limit => WellFormed(start(x)) /\ Stands(start(x))
    BY <1>8, StartLaunches DEF Runs
  <2>4. WellFormed(settled(x)) /\ Stands(settled(x))
    BY <1>8, SettledStands
  <2>5. WellFormed(race') /\ Stands(race')
    BY <2>1, <2>3, <2>4
  <2>6. QED
    BY <2>2, <2>5 DEF HedgeInv, WellFormed, Stands, GoesRound, Pending
<1>12. QED
  BY <1>10, <1>11

LEMMA IsRefusedKeeps ==
  ASSUME HedgeInv, NEW i \in 1..Limit, IsRefused(i)
  PROVE  HedgeInv'
<1>1. scores \in Scores /\ scores' = scores /\ race.stage = "racing" /\ i \in Pending(race)
  BY DEF HedgeInv, IsRefused
<1>2. Runs(race)
  BY <1>1, RacingRuns
<1>3. PICK x : x = [race EXCEPT !.exchanges[i].result = "refused", !.answer = "refused", !.launching = FALSE]
  OBVIOUS
<1>4. /\ x.stage = "racing" /\ x.exchanges = [race.exchanges EXCEPT ![i].result = "refused"] /\ x.plan = race.plan
      /\ x.abandoned = race.abandoned /\ RaceFields \subseteq DOMAIN x
  BY <1>2, <1>3 DEF Runs, RaceFields
<1>5. Runs(x)
  BY <1>1, <1>4, FailedRuns
<1>6. race' = settled(x)
  BY <1>3 DEF IsRefused
<1>7. WellFormed(race') /\ Stands(race')
  BY <1>5, <1>6, SettledStands
<1>8. QED
  BY <1>1, <1>7 DEF HedgeInv, WellFormed, Stands, GoesRound, Pending

LEMMA HedgeSteps ==
  ASSUME HedgeInv, [HedgeNext]_<<race, scores>>
  PROVE  HedgeInv'
<1>1. CASE UNCHANGED <<race, scores>>
  BY <1>1 DEF HedgeInv, WellFormed, Stands, GoesRound, Pending
<1>2. CASE Race
  BY <1>2, RaceKeeps
<1>3. CASE Passes
  BY <1>3, PassesKeeps
<1>4. CASE Fires
  BY <1>4, FiresKeeps
<1>5. CASE Abandons
  BY <1>5, AbandonsKeeps
<1>6. CASE \E i \in 1..Limit : Wins(i)
  BY <1>6, WinsKeeps
<1>7. CASE \E i \in 1..Limit : FailsTransiently(i)
  BY <1>7, FailsTransientlyKeeps
<1>8. CASE \E i \in 1..Limit : IsRefused(i)
  BY <1>8, IsRefusedKeeps
<1>9. QED
  BY <1>1, <1>2, <1>3, <1>4, <1>5, <1>6, <1>7, <1>8 DEF HedgeNext

\* Going round the plan comes back to an upstream only past all of them.
LEMMA RoundBeforeAgain ==
  ASSUME NEW r, WellFormed(r), r.stage # "idle",
         NEW i \in 1..Len(r.exchanges), NEW j \in 1..Len(r.exchanges), i < j,
         r.exchanges[i].upstream = r.exchanges[j].upstream
  PROVE  \A u \in Upstreams : \E k \in 1..Len(r.exchanges) : r.exchanges[k].upstream = u
<1> DEFINE n == Len(Pinned)
<1>1. GoesRound(r) /\ r.exchanges \in Seq(ExchangeType) /\ Len(r.exchanges) \in Nat
  BY DEF WellFormed
<1>2. n \in Nat \ {0}
  BY PinnedUpstreams
<1>3. PICK a, b : a = (i - 1) % n /\ b = (j - 1) % n
  OBVIOUS
<1>4. /\ a \in 0..(n - 1) /\ b \in 0..(n - 1)
      /\ i - 1 < n => a = i - 1
      /\ j - 1 < n => b = j - 1
  <2>1. i - 1 \in Nat /\ j - 1 \in Nat
    BY <1>1
  <2>2. QED
    BY <2>1, <1>2, <1>3, ModBelow
<1>5. r.plan[a + 1] = r.plan[b + 1]
  BY <1>1, <1>3 DEF GoesRound
<1>6. a + 1 \in 1..n /\ b + 1 \in 1..n
  BY <1>2, <1>4
<1>7. a + 1 = b + 1
  BY <1>1, <1>5, <1>6 DEF GoesRound, IsPlan
<1>8. a = b
  BY <1>4, <1>7, <1>2
<1>9. n <= Len(r.exchanges)
  BY <1>1, <1>2, <1>4, <1>8
<1>10. ASSUME NEW u \in Upstreams
       PROVE  \E k \in 1..Len(r.exchanges) : r.exchanges[k].upstream = u
  <2>1. PICK k \in 1..n : r.plan[k] = u
    BY <1>1 DEF GoesRound, IsPlan
  <2>2. k \in 1..Len(r.exchanges) /\ k - 1 \in Nat /\ k - 1 < n
    BY <1>1, <1>2, <1>9
  <2>3. (k - 1) % n = k - 1
    BY <2>2, <1>2, ModBelow
  <2>4. r.exchanges[k].upstream = r.plan[((k - 1) % n) + 1]
    BY <1>1, <2>2 DEF GoesRound
  <2>5. QED
    BY <2>1, <2>2, <2>3, <2>4
<1>11. QED
  BY <1>10

LEMMA HedgeDecides ==
  ASSUME HedgeInv
  PROVE  RaceIsDecided
<1> DEFINE q == race.exchanges
           launched == DOMAIN q
<1>1. q \in Seq(ExchangeType) /\ Len(q) \in Nat /\ launched = 1..Len(q) /\ Len(q) <= Limit
  BY DEF HedgeInv, WellFormed
<1>2. \A k \in launched : q[k].result \in Results /\ q[k].upstream \in Upstreams
  <2>1. \A k \in 1..Len(q) : q[k] \in ExchangeType
    BY <1>1
  <2>2. QED
    BY <1>1, <2>1 DEF ExchangeType
<1>3. Pending(race) = {k \in 1..Len(q) : q[k].result = "pending"}
  BY <1>1, PendingIsLaunched
<1>4. race.stage = "failed" => {q[k].result : k \in launched} \subseteq {"transient", "refused"} /\ race.abandoned = 0
  <2>1. SUFFICES ASSUME race.stage = "failed"
                 PROVE  (\A k \in launched : q[k].result \in {"transient", "refused"}) /\ race.abandoned = 0
    OBVIOUS
  <2>2. QED
    BY <2>1, <1>1, <1>2, <1>3 DEF HedgeInv, Stands, Results
<1>5. race.stage = "won" => /\ "success" \in {q[k].result : k \in launched}
                            /\ race.abandoned = Cardinality(Pending(race))
  BY <1>1 DEF HedgeInv, Stands
<1>6. race.stage = "racing" => Pending(race) # {}
  BY DEF HedgeInv, Stands
<1>7. ASSUME NEW i \in launched, NEW j \in launched, i # j, q[i].upstream = q[j].upstream
      PROVE  {q[k].upstream : k \in launched} = ToSet(Pinned)
  <2>1. WellFormed(race) /\ race.stage # "idle"
    <3>1. WellFormed(race)
      BY DEF HedgeInv
    <3>2. race.stage = "idle" => launched = {}
      BY <3>1 DEF WellFormed
    <3>3. QED
      BY <3>1, <3>2, <1>7
  <2>2. i < j \/ j < i
    BY <1>1, <1>7
  <2>3. \A u \in Upstreams : \E k \in 1..Len(q) : q[k].upstream = u
    BY <1>1, <1>7, <2>1, <2>2, RoundBeforeAgain
  <2>4. QED
    BY <1>1, <1>2, <2>3 DEF Upstreams
<1>8. QED
  BY <1>1, <1>4, <1>5, <1>6, <1>7, Zenon DEF RaceIsDecided

\* A hedged race answers with a failure only when every exchange failed, counts
\* exactly what a success cut off, launches no more than its limit and tries
\* every upstream before one again, whatever the scores earlier races left.
THEOREM RaceDecides ==
  HedgeSpec => []RaceIsDecided
<1>1. HedgeInit => HedgeInv
  BY HedgeStarts
<1>2. HedgeInv /\ [HedgeNext]_<<race, scores>> => HedgeInv'
  BY HedgeSteps
<1>3. HedgeInv => RaceIsDecided
  BY HedgeDecides
<1>4. QED
  BY <1>1, <1>2, <1>3, PTL DEF HedgeSpec

(***************************************************************************)
(* Provider streams                                                        *)
(***************************************************************************)

\* The fields that the proofs about a stream read.
AtFields == {"stage", "call", "ctx", "em", "ids", "told", "audio", "meter", "units", "source", "finish", "err", "failure", "q", "customer"}
SaidFields == {"begun", "calls", "closed", "texts", "counts", "final", "finished", "done", "lost", "cause"}

\* The counter after the first counts of the messages wire, and after its last.
Opened(c) == absorb(NoMeter, Opening(c), FALSE)
Closed(c) == absorb(Opened(c), Closing(c), TRUE)

LEMMA OpenedUnits ==
  ASSUME NEW c \in Counts
  PROVE  /\ meterUnits(Opened(c)).input + meterUnits(Opened(c)).cached = c.prompt
         /\ ~Opened(c).final
<1>1. c.prompt \in Nat /\ c.cached \in Nat /\ Unstated \notin Int
  BY StreamAssumption
<1>2. PICK o : o = Opening(c)
  OBVIOUS
<1>3. /\ o.input = c.prompt - c.cached /\ o.read = c.cached /\ o.created = 0 /\ o.output = 1 /\ o.thinking = Unstated
  BY <1>2 DEF Opening
<1>4. PICK m : m = Opened(c)
  OBVIOUS
<1>5. m = [input |-> Said(o.input, 0), read |-> Said(o.read, 0), created |-> Said(o.created, 0),
           output |-> Said(o.output, 0), thinking |-> Said(o.thinking, 0), seenAny |-> TRUE, final |-> FALSE \/ FALSE]
  BY <1>2, <1>4 DEF Opened, absorb, NoMeter
<1>6. m.seenAny = TRUE /\ m.input = c.prompt - c.cached /\ m.read = c.cached /\ m.created = 0 /\ ~m.final
  <2>1. m.input = Said(o.input, 0) /\ m.read = Said(o.read, 0) /\ m.created = Said(o.created, 0)
    BY <1>5
  <2>2. m.seenAny = TRUE /\ m.final = (FALSE \/ FALSE)
    BY <1>5, Zenon
  <2>3. m.input = c.prompt - c.cached /\ m.read = c.cached /\ m.created = 0
    BY <2>1, <1>1, <1>3 DEF Said
  <2>4. ~m.final
    BY <2>2, Zenon
  <2>5. QED
    BY <2>2, <2>3, <2>4, Zenon
<1>7. PICK u : u = meterUnits(m)
  OBVIOUS
<1>8. u.input = m.input + m.created /\ u.cached = m.read
  BY <1>6, <1>7 DEF meterUnits, Units
<1>9. QED
  BY <1>1, <1>4, <1>6, <1>7, <1>8

LEMMA ClosedUnits ==
  ASSUME NEW c \in Counts, Consistent(c)
  PROVE  /\ meterUnits(Closed(c)).input + meterUnits(Closed(c)).cached = c.prompt
         /\ Counted(meterUnits(Closed(c))) = c.prompt + c.completion
         /\ Closed(c).final
<1>1. c.prompt \in Nat /\ c.cached \in Nat /\ c.completion \in Nat /\ c.reasoning \in Nat /\ Unstated \notin Int
  BY StreamAssumption
<1>2. PICK o : o = Opening(c)
  OBVIOUS
<1>3. /\ o.input = c.prompt - c.cached /\ o.read = c.cached /\ o.created = 0
  BY <1>2 DEF Opening
<1>4. PICK m : m = Opened(c)
  OBVIOUS
<1>5. m = [input |-> Said(o.input, 0), read |-> Said(o.read, 0), created |-> Said(o.created, 0),
           output |-> Said(o.output, 0), thinking |-> Said(o.thinking, 0), seenAny |-> TRUE, final |-> FALSE \/ FALSE]
  BY <1>2, <1>4 DEF Opened, absorb, NoMeter
<1>6. m.input = c.prompt - c.cached /\ m.read = c.cached /\ m.created = 0
  BY <1>1, <1>3, <1>5 DEF Said
<1>7. PICK d : d = Closing(c)
  OBVIOUS
<1>8. d.input = Unstated /\ d.read = Unstated /\ d.created = Unstated /\ d.output = c.completion /\ d.thinking = c.reasoning
  BY <1>7 DEF Closing
<1>9. PICK f : f = Closed(c)
  OBVIOUS
<1>10. f = [input |-> Said(d.input, m.input), read |-> Said(d.read, m.read), created |-> Said(d.created, m.created),
            output |-> Said(d.output, m.output), thinking |-> Said(d.thinking, m.thinking), seenAny |-> TRUE,
            final |-> m.final \/ TRUE]
  BY <1>4, <1>7, <1>9 DEF Closed, absorb
<1>11. /\ f.seenAny = TRUE /\ f.input = c.prompt - c.cached /\ f.read = c.cached /\ f.created = 0
       /\ f.output = c.completion /\ f.thinking = c.reasoning /\ f.final
  <2>1. /\ f.input = Said(d.input, m.input) /\ f.read = Said(d.read, m.read) /\ f.created = Said(d.created, m.created)
        /\ f.output = Said(d.output, m.output) /\ f.thinking = Said(d.thinking, m.thinking)
    BY <1>10
  <2>2. f.seenAny = TRUE /\ f.final = (m.final \/ TRUE)
    BY <1>10, Zenon
  <2>3. /\ f.input = c.prompt - c.cached /\ f.read = c.cached /\ f.created = 0
        /\ f.output = c.completion /\ f.thinking = c.reasoning
    BY <2>1, <1>1, <1>6, <1>8 DEF Said
  <2>4. f.final
    BY <2>2, Zenon
  <2>5. QED
    BY <2>2, <2>3, <2>4, Zenon
<1>12. PICK u : u = meterUnits(f)
  OBVIOUS
<1>13. /\ u.input = f.input + f.created /\ u.cached = f.read /\ u.output = nonNegative(f.output - f.thinking)
       /\ u.reasoning = f.thinking
  BY <1>11, <1>12 DEF meterUnits, Units
<1>14. nonNegative(c.completion - c.reasoning) = c.completion - c.reasoning
  BY <1>1 DEF nonNegative, Consistent
<1>15. u.input = c.prompt - c.cached /\ u.cached = c.cached /\ u.output = c.completion - c.reasoning /\ u.reasoning = c.reasoning
  BY <1>1, <1>11, <1>13, <1>14
<1>16. QED
  BY <1>1, <1>9, <1>11, <1>12, <1>15 DEF Counted

LEMMA ChatUnits ==
  ASSUME NEW c \in Counts, Consistent(c)
  PROVE  /\ normalizeUsage(c).input + normalizeUsage(c).cached = c.prompt
         /\ Counted(normalizeUsage(c)) = c.prompt + c.completion
         /\ spokenUnits(c) = normalizeUsage(c)
<1>1. c.prompt \in Nat /\ c.cached \in Nat /\ c.completion \in Nat /\ c.reasoning \in Nat
  BY StreamAssumption
<1>2. PICK u : u = normalizeUsage(c)
  OBVIOUS
<1>3. u.input = c.prompt - c.cached /\ u.cached = c.cached /\ u.output = c.completion - c.reasoning /\ u.reasoning = c.reasoning
  BY <1>1, <1>2 DEF normalizeUsage, Units, nonNegative, Consistent
<1>4. Counted(u) = c.prompt + c.completion
  BY <1>1, <1>3 DEF Counted
<1>5. spokenUnits(c) = normalizeUsage(c)
  BY <1>1 DEF spokenUnits, Consistent
<1>6. QED
  BY <1>1, <1>2, <1>3, <1>4, <1>5

-----------------------------------------------------------------------------
\* What is measured of an answer is what the provider has said of it so far.
Measures(a, s) ==
  s.lost = 0 =>
    IF a.call.path = "messages"
    THEN /\ a.units = Unstated
         /\ \/ a.meter = NoMeter
            \/ s.counts \in Counts /\ a.meter = Opened(s.counts) /\ ~s.final
            \/ s.counts \in Counts /\ a.meter = Closed(s.counts) /\ s.final
    ELSE a.units # Unstated => /\ s.counts \in Counts /\ s.final /\ a.source = "reported"
                               /\ Consistent(s.counts) => a.units = normalizeUsage(s.counts)

\* While it is read, the counter has taken in each frame that was sent.
KeepsUp(a, s) ==
  s.lost = 0 /\ a.call.path = "messages" =>
    /\ ~s.begun => a.meter = NoMeter /\ ~s.final /\ ~s.finished
    /\ s.begun => s.counts \in Counts
    /\ s.begun /\ ~s.finished => a.meter = Opened(s.counts) /\ ~s.final
    /\ s.begun /\ s.finished => a.meter = Closed(s.counts) /\ s.final

\* UsageIsTheProviders, of an attempt that has ended.
Tallies(a, s) ==
  a.units # Unstated /\ s.lost = 0 /\ Consistent(s.counts) =>
    /\ a.units.input + a.units.cached = s.counts.prompt
    /\ IF a.source = "reported"
       THEN s.final /\ Counted(a.units) = s.counts.prompt + s.counts.completion
       ELSE ~s.final

Unasked(a, s) ==
  /\ a.meter = NoMeter /\ a.units = Unstated
  /\ s.counts = Unstated /\ ~s.final /\ ~s.begun /\ ~s.finished

UsageState(a, s) ==
  /\ AtFields \subseteq DOMAIN a /\ SaidFields \subseteq DOMAIN s /\ s.lost \in Nat
  /\ a.stage \in {"idle", "refused", "sent", "embedding", "reading", "ended"}
  /\ a.stage \notin {"reading", "ended"} => Unasked(a, s)
  /\ a.stage = "reading" => Measures(a, s) /\ KeepsUp(a, s)
  /\ a.stage = "ended" => Tallies(a, s)

LEMMA EndedFields ==
  ASSUME NEW a, AtFields \subseteq DOMAIN a, NEW err, NEW x, x = Ended(a, err)
  PROVE  /\ AtFields \subseteq DOMAIN x /\ x.stage = "ended" /\ x.em = a.em /\ x.call = a.call /\ x.finish = a.finish
         /\ a.call.path = "messages" =>
              /\ x.units = meterUnits(a.meter)
              /\ x.source = IF a.meter.final THEN "reported" ELSE "estimated"
         /\ a.call.path # "messages" => x.units = a.units /\ x.source = a.source
<1>1. PICK m : m = [a EXCEPT !.units = meterUnits(a.meter), !.source = IF a.meter.final THEN "reported" ELSE "estimated"]
  OBVIOUS
<1>2. PICK b : b = IF a.call.path = "messages" THEN m ELSE a
  OBVIOUS
<1>3. x = [b EXCEPT !.stage = "ended", !.err = err]
  BY <1>1, <1>2 DEF Ended
<1>4. /\ AtFields \subseteq DOMAIN m /\ m.units = meterUnits(a.meter)
      /\ m.source = IF a.meter.final THEN "reported" ELSE "estimated"
      /\ m.em = a.em /\ m.call = a.call /\ m.finish = a.finish
  BY <1>1 DEF AtFields
<1>5. /\ AtFields \subseteq DOMAIN b /\ b.em = a.em /\ b.call = a.call /\ b.finish = a.finish
      /\ a.call.path = "messages" => b.units = meterUnits(a.meter) /\ b.source = IF a.meter.final THEN "reported" ELSE "estimated"
      /\ a.call.path # "messages" => b.units = a.units /\ b.source = a.source
  BY <1>2, <1>4
<1>6. /\ AtFields \subseteq DOMAIN x /\ x.stage = "ended" /\ x.em = b.em /\ x.call = b.call /\ x.finish = b.finish
      /\ x.units = b.units /\ x.source = b.source
  BY <1>3, <1>5 DEF AtFields
<1>7. QED
  BY <1>5, <1>6

LEMMA NothingMeasured ==
  meterUnits(NoMeter) = Unstated
BY DEF meterUnits, NoMeter

\* An attempt that ends, whatever its end, is billed what was said.
LEMMA EndedTallies ==
  ASSUME NEW a, NEW s, AtFields \subseteq DOMAIN a, Measures(a, s), NEW err, NEW y, y = Ended(a, err),
         NEW x, x.units = y.units, x.source = y.source
  PROVE  Tallies(x, s)
<1>1. SUFFICES ASSUME x.units # Unstated, s.lost = 0, Consistent(s.counts)
               PROVE  /\ x.units.input + x.units.cached = s.counts.prompt
                      /\ IF x.source = "reported"
                         THEN s.final /\ Counted(x.units) = s.counts.prompt + s.counts.completion
                         ELSE ~s.final
  BY DEF Tallies
<1>3. x.units = y.units /\ x.source = y.source
  OBVIOUS
<1>4. /\ a.call.path = "messages" =>
           /\ y.units = meterUnits(a.meter)
           /\ y.source = IF a.meter.final THEN "reported" ELSE "estimated"
      /\ a.call.path # "messages" => y.units = a.units /\ y.source = a.source
  BY EndedFields
<1>5. CASE a.call.path # "messages"
  <2>1. x.units = a.units /\ x.source = a.source
    BY <1>3, <1>4, <1>5
  <2>2. /\ s.counts \in Counts /\ s.final /\ a.source = "reported" /\ a.units = normalizeUsage(s.counts)
    BY <1>1, <1>5, <2>1 DEF Measures
  <2>3. QED
    BY <1>1, <2>1, <2>2, ChatUnits
<1>6. CASE a.call.path = "messages"
  <2>1. x.units = meterUnits(a.meter) /\ x.source = IF a.meter.final THEN "reported" ELSE "estimated"
    BY <1>3, <1>4, <1>6
  <2>2. a.meter # NoMeter
    BY <1>1, <2>1, NothingMeasured
  <2>3. CASE s.counts \in Counts /\ a.meter = Opened(s.counts) /\ ~s.final
    <3>1. x.units.input + x.units.cached = s.counts.prompt /\ ~a.meter.final
      BY <2>1, <2>3, OpenedUnits
    <3>2. QED
      BY <3>1, <2>1, <2>3
  <2>4. CASE s.counts \in Counts /\ a.meter = Closed(s.counts) /\ s.final
    <3>1. /\ x.units.input + x.units.cached = s.counts.prompt /\ a.meter.final
          /\ Counted(x.units) = s.counts.prompt + s.counts.completion
      BY <1>1, <2>1, <2>4, ClosedUnits
    <3>2. QED
      BY <3>1, <2>1, <2>4
  <2>5. QED
    BY <1>1, <1>6, <2>2, <2>3, <2>4 DEF Measures
<1>7. QED
  BY <1>5, <1>6

\* What a step needs of the records it ends with.
Shaped(a, s) == AtFields \subseteq DOMAIN a /\ SaidFields \subseteq DOMAIN s /\ s.lost \in Nat

LEMMA EndedState ==
  ASSUME NEW a, NEW s, NEW err, Shaped(a, s), Measures(a, s)
  PROVE  UsageState(Ended(a, err), s)
<1>1. PICK y : y = Ended(a, err)
  OBVIOUS
<1>2. AtFields \subseteq DOMAIN y /\ y.stage = "ended"
  BY <1>1, EndedFields DEF Shaped
<1>3. Tallies(y, s)
  BY <1>1, EndedTallies DEF Shaped
<1>4. UsageState(y, s)
  BY <1>2, <1>3 DEF UsageState, Shaped
<1>5. QED
  BY <1>1, <1>4

LEMMA EndedStreamState ==
  ASSUME NEW a, NEW s, NEW err, Shaped(a, s), Measures(a, s)
  PROVE  UsageState(EndedStream(a, err), s)
<1>1. PICK e : e = IF a.call.path = "chat" /\ a.ctx = "stalled" /\ err # "none" THEN "provider_timeout" ELSE err
  OBVIOUS
<1>2. EndedStream(a, err) = Ended(a, e)
  BY <1>1 DEF EndedStream
<1>3. QED
  BY <1>2, EndedState

LEMMA FinishedState ==
  ASSUME NEW a, NEW s, NEW terminated, Shaped(a, s), Measures(a, s)
  PROVE  UsageState(finished(a, terminated), s) /\ finished(a, terminated).stage = "ended"
<1>0. ASSUME NEW err
      PROVE  EndedStream(a, err).stage = "ended"
  <2>1. PICK e : e = IF a.call.path = "chat" /\ a.ctx = "stalled" /\ err # "none" THEN "provider_timeout" ELSE err
    OBVIOUS
  <2>2. EndedStream(a, err) = Ended(a, e)
    BY <2>1 DEF EndedStream
  <2>3. QED
    BY <2>2, EndedFields DEF Shaped
<1>1. CASE a.ctx # "live"
  BY <1>0, <1>1, EndedStreamState DEF finished
<1>2. CASE a.ctx = "live" /\ ~terminated
  BY <1>0, <1>2, EndedStreamState DEF finished
<1>3. CASE a.ctx = "live" /\ terminated
  <2>1. PICK y : y = Ended(a, "none")
    OBVIOUS
  <2>2. AtFields \subseteq DOMAIN y /\ y.stage = "ended"
    BY <2>1, EndedFields DEF Shaped
  <2>3. PICK em2 : em2 = IF y.source = "reported" THEN Progress(y.em) ELSE y.em
    OBVIOUS
  <2>4. PICK x : x = [y EXCEPT !.em = em2, !.err = IF y.source = "reported" /\ em2.err # "none" THEN "sink" ELSE "none",
                               !.finish = IF y.finish = "none" THEN "stop" ELSE y.finish]
    OBVIOUS
  <2>5. finished(a, terminated) = x
    BY <1>3, <2>1, <2>3, <2>4 DEF finished
  <2>6. AtFields \subseteq DOMAIN x /\ x.stage = "ended" /\ x.units = y.units /\ x.source = y.source
    BY <2>2, <2>4 DEF AtFields
  <2>7. Tallies(x, s)
    BY <2>1, <2>6, EndedTallies DEF Shaped
  <2>8. UsageState(x, s)
    BY <2>6, <2>7 DEF UsageState, Shaped
  <2>9. QED
    BY <2>5, <2>6, <2>8
<1>4. QED
  BY <1>1, <1>2, <1>3

LEMMA AfterState ==
  ASSUME NEW a, NEW s, Shaped(a, s), Measures(a, s), KeepsUp(a, s), a.stage = "reading"
  PROVE  UsageState(after(a), s)
<1>1. CASE a.err = "none"
  <2>1. after(a) = a
    BY <1>1 DEF after
  <2>2. UsageState(a, s)
    BY DEF UsageState, Shaped
  <2>3. QED
    BY <2>1, <2>2
<1>2. CASE a.err # "none"
  <2>1. after(a) = EndedStream(a, a.err)
    BY <1>2 DEF after
  <2>2. QED
    BY <2>1, EndedStreamState
<1>3. QED
  BY <1>1, <1>2

-----------------------------------------------------------------------------
\* Writing to the emitter measures nothing.
Alike(a, b) ==
  /\ AtFields \subseteq DOMAIN b
  /\ b.stage = a.stage /\ b.call = a.call /\ b.ctx = a.ctx /\ b.meter = a.meter /\ b.units = a.units /\ b.source = a.source

LEMMA TellAlike ==
  ASSUME NEW a, AtFields \subseteq DOMAIN a, NEW event
  PROVE  Alike(a, tell(a, event))
<1>1. PICK w : w = Output(a.em)
  OBVIOUS
<1>2. PICK x : x = [a EXCEPT !.em = w, !.told = Append(@, event)]
  OBVIOUS
<1>3. PICK y : y = [a EXCEPT !.em = w, !.err = "sink"]
  OBVIOUS
<1>4. tell(a, event) = a \/ tell(a, event) = x \/ tell(a, event) = y
  BY <1>1, <1>2, <1>3 DEF tell
<1>5. Alike(a, a)
  BY DEF Alike
<1>6. Alike(a, x)
  BY <1>2 DEF Alike, AtFields
<1>7. Alike(a, y)
  BY <1>3 DEF Alike, AtFields
<1>8. QED
  BY <1>4, <1>5, <1>6, <1>7

LEMMA TellAllAlike ==
  ASSUME NEW a, AtFields \subseteq DOMAIN a, NEW events, NEW due
  PROVE  Alike(a, tellAll(a, events, due))
<1>1. \E w : tellAll(a, events, due) = [a EXCEPT !.em = w.em, !.told = w.told, !.err = w.err]
  BY Zenon DEF tellAll
<1>2. PICK w : tellAll(a, events, due) = [a EXCEPT !.em = w.em, !.told = w.told, !.err = w.err]
  BY <1>1
<1>3. PICK x : x = tellAll(a, events, due)
  OBVIOUS
<1>4. x = [a EXCEPT !.em = w.em, !.told = w.told, !.err = w.err]
  BY <1>2, <1>3
<1>5. Alike(a, x)
  BY <1>4 DEF Alike, AtFields
<1>6. QED
  BY <1>3, <1>5

LEMMA AlikeTrans ==
  ASSUME NEW a, NEW b, NEW c, Alike(a, b), Alike(b, c)
  PROVE  Alike(a, c)
BY DEF Alike

LEMMA CompleteAlike ==
  ASSUME NEW a, AtFields \subseteq DOMAIN a
  PROVE  Alike(a, complete(a))
<1>1. PICK events : events = [i \in 1..MaxCalls |-> Completed(a.ids[i])]
  OBVIOUS
<1>2. complete(a) = [tellAll(a, events, {i \in 1..MaxCalls : a.ids[i] # 0}) EXCEPT !.ids = [i \in 1..MaxCalls |-> 0]]
  BY <1>1, Zenon DEF complete
<1>3. PICK b : b = tellAll(a, events, {i \in 1..MaxCalls : a.ids[i] # 0})
  OBVIOUS
<1>4. Alike(a, b)
  BY <1>3, TellAllAlike
<1>5. PICK x : x = complete(a)
  OBVIOUS
<1>6. x = [b EXCEPT !.ids = [i \in 1..MaxCalls |-> 0]]
  BY <1>2, <1>3, <1>5
<1>7. Alike(b, x)
  BY <1>4, <1>6 DEF Alike, AtFields
<1>8. QED
  BY <1>4, <1>5, <1>7, AlikeTrans

LEMMA SpeakAlike ==
  ASSUME NEW a, AtFields \subseteq DOMAIN a, NEW n
  PROVE  Alike(a, speak(a, n))
<1>1. PICK b : b = tell(a, Audio(n))
  OBVIOUS
<1>2. Alike(a, b)
  BY <1>1, TellAlike
<1>3. PICK x : x = [a EXCEPT !.err = "provider_error"]
  OBVIOUS
<1>4. PICK y : y = [a EXCEPT !.err = ContextError(a)]
  OBVIOUS
<1>5. PICK z : z = [b EXCEPT !.audio = @ + 1]
  OBVIOUS
<1>6. speak(a, n) = a \/ speak(a, n) = x \/ speak(a, n) = y \/ speak(a, n) = z
  BY <1>1, <1>3, <1>4, <1>5 DEF speak
<1>7. Alike(a, a) /\ Alike(a, x) /\ Alike(a, y)
  BY <1>3, <1>4 DEF Alike, AtFields
<1>8. Alike(b, z)
  BY <1>2, <1>5 DEF Alike, AtFields
<1>9. QED
  BY <1>2, <1>6, <1>7, <1>8, AlikeTrans

\* Records alike measure the same.
LEMMA AlikeMeasures ==
  ASSUME NEW a, NEW b, NEW s, Alike(a, b), Measures(a, s), KeepsUp(a, s)
  PROVE  Measures(b, s) /\ KeepsUp(b, s) /\ b.stage = a.stage
BY DEF Alike, Measures, KeepsUp

\* What the provider says besides its counts changes none of it.
SameCounts(s, t) ==
  /\ SaidFields \subseteq DOMAIN t
  /\ t.lost = s.lost /\ t.counts = s.counts /\ t.final = s.final /\ t.begun = s.begun /\ t.finished = s.finished

LEMMA SameCountsMeasure ==
  ASSUME NEW a, NEW s, NEW t, SameCounts(s, t), Measures(a, s), KeepsUp(a, s)
  PROVE  Measures(a, t) /\ KeepsUp(a, t)
BY DEF SameCounts, Measures, KeepsUp

-----------------------------------------------------------------------------
UsageInv == UsageState(at, said)

LEMMA UsageStarts ==
  StreamInit => UsageInv
<1>1. SUFFICES ASSUME StreamInit
               PROVE  UsageInv
  OBVIOUS
<1>2. /\ AtFields \subseteq DOMAIN at /\ at.stage = "idle" /\ at.meter = NoMeter /\ at.units = Unstated
  BY <1>1 DEF StreamInit, AtFields
<1>3. /\ SaidFields \subseteq DOMAIN said /\ said.counts = Unstated /\ said.lost = 0
  BY <1>1 DEF StreamInit, SaidFields
<1>4. ~said.final /\ ~said.begun /\ ~said.finished
  BY <1>1, Zenon DEF StreamInit
<1>5. QED
  BY <1>2, <1>3, <1>4 DEF UsageInv, UsageState, Unasked

LEMMA ReadingState ==
  ASSUME UsageInv, Reading
  PROVE  at.stage = "reading" /\ Shaped(at, said) /\ Measures(at, said) /\ KeepsUp(at, said)
BY DEF UsageInv, UsageState, Shaped, Reading

\* Before the provider has answered there is nothing to measure.
LEMMA UnaskedState ==
  ASSUME UsageInv, at.stage \notin {"reading", "ended"}
  PROVE  Shaped(at, said) /\ Unasked(at, said) /\ Measures(at, said) /\ KeepsUp(at, said)
BY DEF UsageInv, UsageState, Shaped, Unasked, Measures, KeepsUp

\* A frame, or a frame lost: once one is lost nothing is claimed any more.
LEMMA ArrivesKeeps ==
  ASSUME UsageInv, NEW read, NEW sent, Reading, Arrives(read, sent),
         Shaped(read, sent), sent.lost = said.lost, read.stage = "reading", Measures(read, sent), KeepsUp(read, sent)
  PROVE  UsageInv'
<1>1. CASE Frame(read, sent)
  <2>1. said' = sent /\ at' = after(read)
    BY <1>1 DEF Frame
  <2>2. UsageState(after(read), sent)
    BY AfterState
  <2>3. UsageState(at', said')
    BY <2>1, <2>2
  <2>4. QED
    BY <2>3 DEF UsageInv, UsageState, Unasked, Measures, KeepsUp, Tallies
<1>2. CASE Lost(sent)
  <2>1. said' = [sent EXCEPT !.lost = @ + 1] /\ at' = lost(at)
    BY <1>2 DEF Lost
  <2>2. Shaped(at, said) /\ at.stage = "reading"
    BY ReadingState
  <2>3. PICK s : s = [sent EXCEPT !.lost = @ + 1]
    OBVIOUS
  <2>4. SaidFields \subseteq DOMAIN s /\ s.lost = said.lost + 1 /\ s.lost \in Nat /\ s.lost # 0
    BY <2>2, <2>3 DEF Shaped, SaidFields
  <2>5. Shaped(at, s) /\ Measures(at, s) /\ KeepsUp(at, s)
    BY <2>2, <2>4 DEF Shaped, Measures, KeepsUp
  <2>6. UsageState(at, s)
    BY <2>2, <2>5 DEF UsageState, Shaped
  <2>7. UsageState(EndedStream(at, "provider_error"), s)
    BY <2>5, EndedStreamState
  <2>8. UsageState(lost(at), s)
    BY <2>6, <2>7 DEF lost
  <2>9. UsageState(at', said')
    BY <2>1, <2>3, <2>8
  <2>10. QED
    BY <2>9 DEF UsageInv, UsageState, Unasked, Measures, KeepsUp, Tallies
<1>3. QED
  BY <1>1, <1>2 DEF Arrives

\* A frame that says nothing of the counts.
LEMMA TellingKeeps ==
  ASSUME UsageInv, NEW read, NEW sent, Reading, Arrives(read, sent), Alike(at, read), SameCounts(said, sent)
  PROVE  UsageInv'
<1>1. at.stage = "reading" /\ Shaped(at, said) /\ Measures(at, said) /\ KeepsUp(at, said)
  BY ReadingState
<1>2. Measures(read, said) /\ KeepsUp(read, said) /\ read.stage = "reading"
  BY <1>1, AlikeMeasures
<1>3. Measures(read, sent) /\ KeepsUp(read, sent)
  BY <1>2, SameCountsMeasure
<1>4. Shaped(read, sent) /\ sent.lost = said.lost
  BY <1>1 DEF Shaped, Alike, SameCounts
<1>5. QED
  BY <1>2, <1>3, <1>4, ArrivesKeeps

LEMMA ArrivesReads ==
  ASSUME NEW read, NEW sent, Arrives(read, sent)
  PROVE  Reading
BY DEF Arrives, Frame, Lost

-----------------------------------------------------------------------------
LEMMA SendsTextKeeps ==
  ASSUME UsageInv, SendsText
  PROVE  UsageInv'
<1>1. PICK n : n = said.texts + 1
  OBVIOUS
<1>2. PICK b : b = tell(at, Text(n))
  OBVIOUS
<1>3. PICK r : r = IF Wire = "spoken" THEN speak(b, n) ELSE b
  OBVIOUS
<1>4. PICK t : t = [said EXCEPT !.texts = n]
  OBVIOUS
<1>5. Arrives(r, t)
  BY <1>1, <1>2, <1>3, <1>4 DEF SendsText
<1>6. Reading
  BY <1>5, ArrivesReads
<1>7. Shaped(at, said)
  BY <1>6, ReadingState
<1>8. SameCounts(said, t)
  BY <1>4, <1>7 DEF SameCounts, Shaped, SaidFields
<1>9. Alike(at, b)
  BY <1>2, <1>7, TellAlike DEF Shaped
<1>10. Alike(b, speak(b, n))
  BY <1>9, SpeakAlike DEF Alike
<1>11. Alike(at, r)
  BY <1>3, <1>9, <1>10, AlikeTrans
<1>12. QED
  BY <1>5, <1>6, <1>8, <1>11, TellingKeeps

LEMMA OpensCallKeeps ==
  ASSUME UsageInv, OpensCall
  PROVE  UsageInv'
<1>1. PICK id : id = Len(said.calls) + 1
  OBVIOUS
<1>2. PICK b : b = [at EXCEPT !.ids[id] = id]
  OBVIOUS
<1>3. PICK r : r = tell(b, Fragment(id, 0))
  OBVIOUS
<1>4. PICK t : t = [said EXCEPT !.calls = Append(@, 0)]
  OBVIOUS
<1>5. Arrives(r, t)
  BY <1>1, <1>2, <1>3, <1>4 DEF OpensCall
<1>6. Reading
  BY <1>5, ArrivesReads
<1>7. Shaped(at, said)
  BY <1>6, ReadingState
<1>8. SameCounts(said, t)
  BY <1>4, <1>7 DEF SameCounts, Shaped, SaidFields
<1>9. Alike(at, b)
  BY <1>2, <1>7 DEF Alike, Shaped, AtFields
<1>10. Alike(b, r)
  BY <1>3, <1>9, TellAlike DEF Alike
<1>11. Alike(at, r)
  BY <1>9, <1>10, AlikeTrans
<1>12. QED
  BY <1>5, <1>6, <1>8, <1>11, TellingKeeps

LEMMA SendsArgumentsKeeps ==
  ASSUME UsageInv, NEW i \in 1..MaxCalls, SendsArguments(i)
  PROVE  UsageInv'
<1>1. PICK n : n = said.calls[i] + 1
  OBVIOUS
<1>2. PICK r : r = fragment(at, i, n)
  OBVIOUS
<1>3. PICK t : t = [said EXCEPT !.calls[i] = n]
  OBVIOUS
<1>4. Arrives(r, t)
  BY <1>1, <1>2, <1>3 DEF SendsArguments
<1>5. Reading
  BY <1>4, ArrivesReads
<1>6. Shaped(at, said)
  BY <1>5, ReadingState
<1>7. SameCounts(said, t)
  BY <1>3, <1>6 DEF SameCounts, Shaped, SaidFields
<1>8. Alike(at, tell(at, Fragment(at.ids[i], n))) /\ Alike(at, at)
  BY <1>6, TellAlike DEF Shaped, Alike
<1>9. Alike(at, r)
  BY <1>2, <1>8 DEF fragment
<1>10. QED
  BY <1>4, <1>5, <1>7, <1>9, TellingKeeps

LEMMA ClosesBlockKeeps ==
  ASSUME UsageInv, ClosesBlock
  PROVE  UsageInv'
<1>1. PICK i : i = said.closed + 1
  OBVIOUS
<1>2. PICK b : b = tell(at, Completed(at.ids[i]))
  OBVIOUS
<1>3. PICK c : c = [b EXCEPT !.ids[i] = 0]
  OBVIOUS
<1>4. PICK r : r = IF at.ids[i] = 0 THEN at ELSE c
  OBVIOUS
<1>5. PICK t : t = [said EXCEPT !.closed = i]
  OBVIOUS
<1>6. Arrives(r, t)
  BY <1>1, <1>2, <1>3, <1>4, <1>5 DEF ClosesBlock
<1>7. Reading
  BY <1>6, ArrivesReads
<1>8. Shaped(at, said)
  BY <1>7, ReadingState
<1>9. SameCounts(said, t)
  BY <1>5, <1>8 DEF SameCounts, Shaped, SaidFields
<1>10. Alike(at, b) /\ Alike(at, at)
  BY <1>2, <1>8, TellAlike DEF Shaped, Alike
<1>11. Alike(b, c)
  BY <1>3, <1>10 DEF Alike, AtFields
<1>12. Alike(at, r)
  BY <1>4, <1>10, <1>11, AlikeTrans
<1>13. QED
  BY <1>6, <1>7, <1>9, <1>12, TellingKeeps

\* message_start: the counter takes in the first counts.
LEMMA BeginsKeeps ==
  ASSUME UsageInv, NEW counts \in Counts, Begins(counts)
  PROVE  UsageInv'
<1>1. PICK r : r = [at EXCEPT !.meter = absorb(@, Opening(counts), FALSE)]
  OBVIOUS
<1>2. PICK t : t = [said EXCEPT !.begun = TRUE, !.counts = counts]
  OBVIOUS
<1>3. Arrives(r, t) /\ at.call.path = "messages" /\ ~said.begun
  BY <1>1, <1>2 DEF Begins, Wire
<1>4. Reading
  BY <1>3, ArrivesReads
<1>5. at.stage = "reading" /\ Shaped(at, said) /\ Measures(at, said) /\ KeepsUp(at, said)
  BY <1>4, ReadingState
<1>6. /\ AtFields \subseteq DOMAIN r /\ r.stage = "reading" /\ r.call = at.call /\ r.units = at.units
      /\ r.meter = absorb(at.meter, Opening(counts), FALSE)
  BY <1>1, <1>5 DEF Shaped, AtFields
<1>7. /\ SaidFields \subseteq DOMAIN t /\ t.lost = said.lost /\ t.counts = counts /\ t.final = said.final
      /\ t.finished = said.finished
  BY <1>2, <1>5 DEF Shaped, SaidFields
<1>8. t.begun
  BY <1>2, <1>5, Zenon DEF Shaped, SaidFields
<1>9. said.lost = 0 => r.meter = Opened(counts) /\ ~said.final /\ ~said.finished /\ at.units = Unstated
  BY <1>3, <1>5, <1>6 DEF KeepsUp, Measures, Opened
<1>10. Measures(r, t) /\ KeepsUp(r, t)
  BY <1>3, <1>6, <1>7, <1>8, <1>9 DEF Measures, KeepsUp
<1>11. Shaped(r, t)
  BY <1>5, <1>6, <1>7 DEF Shaped
<1>12. QED
  BY <1>3, <1>4, <1>6, <1>7, <1>10, <1>11, ArrivesKeeps

\* message_delta: the counter takes in the last counts; on the chat wires the
\* finish reason completes the tool calls.
LEMMA FinishesKeeps ==
  ASSUME UsageInv, NEW reason, Finishes(reason)
  PROVE  UsageInv'
<1> DEFINE finishOf == [messages |-> mapStopReason(reason), spoken |-> finishReason(reason), chat |-> mapFinishReason(reason)]
<1>1. PICK b : b = [at EXCEPT !.finish = finishOf[Wire]]
  OBVIOUS
<1>2. PICK c : c = [b EXCEPT !.meter = absorb(@, Closing(said.counts), TRUE)]
  OBVIOUS
<1>3. PICK r : r = IF Wire = "messages" THEN c ELSE complete(b)
  OBVIOUS
<1>4. PICK t : t = [said EXCEPT !.finished = TRUE, !.closed = Len(said.calls), !.final = @ \/ Wire = "messages"]
  OBVIOUS
<1>5. Arrives(r, t) /\ Ready /\ ~said.finished
  BY <1>1, <1>2, <1>3, <1>4 DEF Finishes
<1>6. Reading
  BY <1>5, ArrivesReads
<1>7. at.stage = "reading" /\ Shaped(at, said) /\ Measures(at, said) /\ KeepsUp(at, said)
  BY <1>6, ReadingState
<1>8. Alike(at, b)
  BY <1>1, <1>7 DEF Alike, Shaped, AtFields
<1>9. /\ SaidFields \subseteq DOMAIN t /\ t.lost = said.lost /\ t.counts = said.counts /\ t.begun = said.begun
  BY <1>4, <1>7 DEF Shaped, SaidFields
<1>10. t.finished /\ t.final = (said.final \/ Wire = "messages")
  BY <1>4, <1>7, Zenon DEF Shaped, SaidFields
<1>11. CASE Wire = "messages"
  <2>1. said.begun /\ at.call.path = "messages"
    BY <1>5, <1>11, Zenon DEF Ready, Wire
  <2>2. r = c
    BY <1>3, <1>11
  <2>3. /\ AtFields \subseteq DOMAIN c /\ c.stage = "reading" /\ c.call = at.call /\ c.units = at.units
        /\ c.meter = absorb(at.meter, Closing(said.counts), TRUE)
    BY <1>2, <1>7, <1>8 DEF Alike, AtFields
  <2>4. said.lost = 0 => said.counts \in Counts /\ at.meter = Opened(said.counts) /\ at.units = Unstated
    BY <1>5, <1>7, <2>1 DEF KeepsUp, Measures
  <2>5. said.lost = 0 => c.meter = Closed(said.counts)
    BY <2>3, <2>4 DEF Closed
  <2>6. t.final
    BY <1>10, <1>11, Zenon
  <2>7. Measures(c, t) /\ KeepsUp(c, t)
    BY <1>9, <1>10, <2>1, <2>3, <2>4, <2>5, <2>6 DEF Measures, KeepsUp
  <2>8. Shaped(c, t)
    BY <1>7, <1>9, <2>3 DEF Shaped
  <2>9. QED
    BY <1>5, <1>6, <1>9, <2>2, <2>3, <2>7, <2>8, ArrivesKeeps
<1>12. CASE Wire # "messages"
  <2>1. r = complete(b) /\ at.call.path # "messages"
    BY <1>3, <1>12 DEF Wire
  <2>2. Alike(at, r)
    BY <1>8, <2>1, CompleteAlike, AlikeTrans DEF Alike
  <2>3. t.final <=> said.final
    BY <1>10, <1>12, Zenon
  <2>4. r.stage = "reading" /\ r.call = at.call /\ r.units = at.units /\ r.source = at.source /\ AtFields \subseteq DOMAIN r
    BY <1>7, <2>2 DEF Alike
  <2>5. Measures(r, t) /\ KeepsUp(r, t)
    BY <1>7, <1>9, <2>1, <2>3, <2>4 DEF Measures, KeepsUp
  <2>6. Shaped(r, t)
    BY <1>7, <1>9, <2>4 DEF Shaped
  <2>7. QED
    BY <1>5, <1>6, <1>9, <2>4, <2>5, <2>6, ArrivesKeeps
<1>13. QED
  BY <1>11, <1>12

\* The chat wires' counts: as they are said, or refused.
LEMMA CountMeasures ==
  ASSUME NEW a, NEW s, NEW counts \in Counts, AtFields \subseteq DOMAIN a, a.call.path # "messages", a.units = Unstated,
         s.counts = counts, s.final
  PROVE  /\ Measures(count(a, counts), s) /\ KeepsUp(count(a, counts), s)
         /\ AtFields \subseteq DOMAIN count(a, counts)
         /\ count(a, counts).stage = a.stage /\ count(a, counts).ctx = a.ctx /\ count(a, counts).call = a.call
<1>1. PICK u : u = IF a.call.path = "spoken" THEN spokenUnits(counts) ELSE normalizeUsage(counts)
  OBVIOUS
<1>2. Consistent(counts) => u = normalizeUsage(counts)
  BY <1>1, ChatUnits
<1>3. PICK x : x = count(a, counts)
  OBVIOUS
<1>4. CASE u = Unstated
  <2>1. x = [a EXCEPT !.err = "provider_error"]
    BY <1>1, <1>3, <1>4 DEF count
  <2>2. AtFields \subseteq DOMAIN x /\ x.stage = a.stage /\ x.call = a.call /\ x.units = Unstated /\ x.ctx = a.ctx
    BY <2>1 DEF AtFields
  <2>3. Measures(x, s) /\ KeepsUp(x, s)
    BY <2>2 DEF Measures, KeepsUp
  <2>4. QED
    BY <1>3, <2>2, <2>3
<1>5. CASE u # Unstated
  <2>1. x = [a EXCEPT !.units = u, !.source = "reported"]
    BY <1>1, <1>3, <1>5 DEF count
  <2>2. /\ AtFields \subseteq DOMAIN x /\ x.stage = a.stage /\ x.call = a.call /\ x.units = u /\ x.source = "reported"
        /\ x.ctx = a.ctx
    BY <2>1 DEF AtFields
  <2>3. Measures(x, s) /\ KeepsUp(x, s)
    BY <1>2, <2>2 DEF Measures, KeepsUp
  <2>4. QED
    BY <1>3, <2>2, <2>3
<1>6. QED
  BY <1>4, <1>5

LEMMA SendsUsageKeeps ==
  ASSUME UsageInv, NEW counts \in Counts, SendsUsage(counts)
  PROVE  UsageInv'
<1>1. PICK r : r = count(at, counts)
  OBVIOUS
<1>2. PICK t : t = [said EXCEPT !.counts = counts, !.final = TRUE]
  OBVIOUS
<1>3. Arrives(r, t) /\ at.call.path # "messages" /\ said.counts = Unstated
  BY <1>1, <1>2 DEF SendsUsage, Wire
<1>4. Reading
  BY <1>3, ArrivesReads
<1>5. at.stage = "reading" /\ Shaped(at, said) /\ Measures(at, said)
  BY <1>4, ReadingState
<1>6. SaidFields \subseteq DOMAIN t /\ t.lost = said.lost /\ t.counts = counts
  BY <1>2, <1>5 DEF Shaped, SaidFields
<1>7. t.final
  BY <1>2, <1>5, Zenon DEF Shaped, SaidFields
<1>8. AtFields \subseteq DOMAIN at
  BY <1>5 DEF Shaped
<1>9. CASE said.lost = 0
  <2>1. at.units = Unstated
    BY <1>3, <1>5, <1>9, StreamAssumption DEF Measures
  <2>2. Measures(r, t) /\ KeepsUp(r, t) /\ AtFields \subseteq DOMAIN r /\ r.stage = "reading"
    BY <1>1, <1>3, <1>5, <1>6, <1>7, <1>8, <2>1, CountMeasures
  <2>3. Shaped(r, t)
    BY <1>5, <1>6, <2>2 DEF Shaped
  <2>4. QED
    BY <1>3, <1>4, <1>6, <2>2, <2>3, ArrivesKeeps
<1>10. CASE said.lost # 0
  <2>1. Measures(r, t) /\ KeepsUp(r, t)
    BY <1>6, <1>10 DEF Measures, KeepsUp
  <2>2. AtFields \subseteq DOMAIN r /\ r.stage = "reading"
    <3>1. PICK x : x = [at EXCEPT !.err = "provider_error"]
      OBVIOUS
    <3>2. PICK u : u = IF at.call.path = "spoken" THEN spokenUnits(counts) ELSE normalizeUsage(counts)
      OBVIOUS
    <3>3. PICK y : y = [at EXCEPT !.units = u, !.source = "reported"]
      OBVIOUS
    <3>4. r = x \/ r = y
      BY <1>1, <3>1, <3>2, <3>3 DEF count
    <3>5. AtFields \subseteq DOMAIN x /\ x.stage = "reading" /\ AtFields \subseteq DOMAIN y /\ y.stage = "reading"
      BY <1>5, <1>8, <3>1, <3>3 DEF AtFields
    <3>6. QED
      BY <3>4, <3>5
  <2>3. Shaped(r, t)
    BY <1>5, <1>6, <2>2 DEF Shaped
  <2>4. QED
    BY <1>3, <1>4, <1>6, <2>1, <2>2, <2>3, ArrivesKeeps
<1>11. QED
  BY <1>9, <1>10

LEMMA EndsStreamKeeps ==
  ASSUME UsageInv, EndsStream
  PROVE  UsageInv'
<1>1. Reading /\ said' = [said EXCEPT !.done = TRUE] /\ at' = finished(at, TRUE)
  BY DEF EndsStream
<1>2. Shaped(at, said) /\ Measures(at, said) /\ KeepsUp(at, said)
  BY <1>1, ReadingState
<1>3. PICK t : t = [said EXCEPT !.done = TRUE]
  OBVIOUS
<1>4. SameCounts(said, t)
  BY <1>2, <1>3 DEF SameCounts, Shaped, SaidFields
<1>5. Measures(at, t) /\ Shaped(at, t)
  BY <1>2, <1>4, SameCountsMeasure DEF Shaped, SameCounts
<1>6. UsageState(finished(at, TRUE), t)
  BY <1>5, FinishedState
<1>7. UsageState(at', said')
  BY <1>1, <1>3, <1>6
<1>8. QED
  BY <1>7 DEF UsageInv, UsageState, Unasked, Measures, KeepsUp, Tallies

LEMMA FailureAlike ==
  ASSUME NEW a, AtFields \subseteq DOMAIN a, NEW f
  PROVE  Alike(a, [a EXCEPT !.failure = f])
<1>1. PICK x : x = [a EXCEPT !.failure = f]
  OBVIOUS
<1>2. Alike(a, x)
  BY <1>1 DEF Alike, AtFields
<1>3. QED
  BY <1>1, <1>2

LEMMA BreaksKeeps ==
  ASSUME UsageInv, NEW r \in Refusals, Breaks(r)
  PROVE  UsageInv'
<1>1. PICK b : b = [at EXCEPT !.failure = Blame(at, r)]
  OBVIOUS
<1>2. PICK t : t = [said EXCEPT !.cause = r.cause]
  OBVIOUS
<1>3. Reading /\ at' = EndedStream(b, "upstream") /\ said' = t
  BY <1>1, <1>2 DEF Breaks
<1>4. Shaped(at, said) /\ Measures(at, said) /\ KeepsUp(at, said)
  BY <1>3, ReadingState
<1>5. SameCounts(said, t)
  BY <1>2, <1>4 DEF SameCounts, Shaped, SaidFields
<1>6. Alike(at, b)
  BY <1>1, <1>4, FailureAlike DEF Shaped
<1>7. Measures(b, said) /\ KeepsUp(b, said)
  BY <1>4, <1>6, AlikeMeasures
<1>8. Measures(b, t) /\ Shaped(b, t)
  BY <1>4, <1>5, <1>6, <1>7, SameCountsMeasure DEF Shaped, SameCounts, Alike
<1>9. UsageState(EndedStream(b, "upstream"), t)
  BY <1>8, EndedStreamState
<1>10. UsageState(at', said')
  BY <1>3, <1>9
<1>11. QED
  BY <1>10 DEF UsageInv, UsageState, Unasked, Measures, KeepsUp, Tallies

LEMMA CutKeeps ==
  ASSUME UsageInv, NEW clean, Cut(clean)
  PROVE  UsageInv'
<1>1. /\ Reading /\ said' = said
      /\ at' = IF clean THEN finished(at, FALSE) ELSE EndedStream(at, TransportFailure(at))
  BY DEF Cut
<1>2. Shaped(at, said) /\ Measures(at, said)
  BY <1>1, ReadingState
<1>3. UsageState(finished(at, FALSE), said)
  BY <1>2, FinishedState
<1>4. UsageState(EndedStream(at, TransportFailure(at)), said)
  BY <1>2, EndedStreamState
<1>5. UsageState(at', said')
  BY <1>1, <1>3, <1>4
<1>6. QED
  BY <1>5 DEF UsageInv, UsageState, Unasked, Measures, KeepsUp, Tallies

LEMMA WithdrawsKeeps ==
  ASSUME UsageInv, NEW how, Withdraws(how)
  PROVE  UsageInv'
<1>1. PICK x : x = [at EXCEPT !.ctx = how]
  OBVIOUS
<1>2. at' = x /\ said' = said
  BY <1>1 DEF Withdraws
<1>3. /\ AtFields \subseteq DOMAIN x /\ x.stage = at.stage /\ x.call = at.call /\ x.meter = at.meter
      /\ x.units = at.units /\ x.source = at.source
  BY <1>1 DEF UsageInv, UsageState, AtFields
<1>4. UsageState(x, said)
  BY <1>3 DEF UsageInv, UsageState, Unasked, Measures, KeepsUp, Tallies
<1>5. UsageState(at', said')
  BY <1>2, <1>4
<1>6. QED
  BY <1>5 DEF UsageInv, UsageState, Unasked, Measures, KeepsUp, Tallies

-----------------------------------------------------------------------------
LEMMA SendsKeeps ==
  ASSUME UsageInv, NEW q, Sends(q)
  PROVE  UsageInv'
<1>1. PICK c : c = Translate(q, q.route)
  OBVIOUS
<1>2. PICK st : st = IF c.refused # "no" THEN "refused" ELSE IF c.path = "embeddings" THEN "embedding" ELSE "sent"
  OBVIOUS
<1>3. PICK x : x = [at EXCEPT !.q = q, !.call = c, !.customer = q.customer, !.stage = st]
  OBVIOUS
<1>4. at.stage = "idle" /\ at' = x /\ said' = said
  BY <1>1, <1>2, <1>3 DEF Sends
<1>5. Shaped(at, said) /\ Unasked(at, said)
  BY <1>4, UnaskedState
<1>6. AtFields \subseteq DOMAIN x /\ x.stage = st /\ x.meter = at.meter /\ x.units = at.units
  BY <1>3, <1>5 DEF Shaped, AtFields
<1>7. st \in {"refused", "embedding", "sent"}
  BY <1>2
<1>8. UsageState(x, said)
  BY <1>5, <1>6, <1>7 DEF UsageState, Shaped, Unasked
<1>9. UsageState(at', said')
  BY <1>4, <1>8
<1>10. QED
  BY <1>9 DEF UsageInv, UsageState, Unasked, Measures, KeepsUp, Tallies

LEMMA RefusesKeeps ==
  ASSUME UsageInv, NEW r \in Refusals, Refuses(r)
  PROVE  UsageInv'
<1>1. PICK b : b = [at EXCEPT !.failure = Blame(at, r)]
  OBVIOUS
<1>2. PICK t : t = [said EXCEPT !.cause = r.cause]
  OBVIOUS
<1>3. at.stage \in {"sent", "embedding"} /\ at' = Ended(b, "upstream") /\ said' = t
  BY <1>1, <1>2 DEF Refuses
<1>4. Shaped(at, said) /\ Measures(at, said) /\ KeepsUp(at, said)
  BY <1>3, UnaskedState
<1>5. SameCounts(said, t)
  BY <1>2, <1>4 DEF SameCounts, Shaped, SaidFields
<1>6. Alike(at, b)
  BY <1>1, <1>4, FailureAlike DEF Shaped
<1>7. Measures(b, said) /\ KeepsUp(b, said)
  BY <1>4, <1>6, AlikeMeasures
<1>8. Measures(b, t) /\ Shaped(b, t)
  BY <1>4, <1>5, <1>6, <1>7, SameCountsMeasure DEF Shaped, SameCounts, Alike
<1>9. UsageState(Ended(b, "upstream"), t)
  BY <1>8, EndedState
<1>10. UsageState(at', said')
  BY <1>3, <1>9
<1>11. QED
  BY <1>10 DEF UsageInv, UsageState, Unasked, Measures, KeepsUp, Tallies

LEMMA UnansweredKeeps ==
  ASSUME UsageInv, Unanswered \/ CutWhole
  PROVE  UsageInv'
<1>1. PICK err : at.stage \in {"sent", "embedding"} /\ at' = Ended(at, err) /\ said' = said
  BY DEF Unanswered, CutWhole
<1>2. Shaped(at, said) /\ Measures(at, said)
  BY <1>1, UnaskedState
<1>3. UsageState(Ended(at, err), said)
  BY <1>2, EndedState
<1>4. UsageState(at', said')
  BY <1>1, <1>3
<1>5. QED
  BY <1>4 DEF UsageInv, UsageState, Unasked, Measures, KeepsUp, Tallies

LEMMA AnswersKeeps ==
  ASSUME UsageInv, Answers
  PROVE  UsageInv'
<1>1. PICK e : e = Start(at.em)
  OBVIOUS
<1>2. PICK x : x = [at EXCEPT !.em = e]
  OBVIOUS
<1>3. PICK y : y = [at EXCEPT !.em = e, !.stage = "reading"]
  OBVIOUS
<1>4. at.stage = "sent" /\ said' = said /\ at' = IF e.err # "none" THEN Ended(x, "sink") ELSE y
  BY <1>1, <1>2, <1>3 DEF Answers
<1>5. Shaped(at, said) /\ Unasked(at, said) /\ Measures(at, said) /\ KeepsUp(at, said)
  BY <1>4, UnaskedState
<1>6. Alike(at, x)
  BY <1>2, <1>5 DEF Alike, Shaped, AtFields
<1>7. Measures(x, said) /\ Shaped(x, said)
  BY <1>5, <1>6, AlikeMeasures DEF Shaped, Alike
<1>8. UsageState(Ended(x, "sink"), said)
  BY <1>7, EndedState
<1>9. AtFields \subseteq DOMAIN y /\ y.stage = "reading" /\ y.call = at.call /\ y.meter = at.meter /\ y.units = at.units
      /\ y.source = at.source
  BY <1>3, <1>5 DEF Shaped, AtFields
<1>10. UsageState(y, said)
  BY <1>5, <1>9 DEF UsageState, Shaped, Measures, KeepsUp
<1>11. UsageState(at', said')
  BY <1>4, <1>8, <1>10
<1>12. QED
  BY <1>11 DEF UsageInv, UsageState, Unasked, Measures, KeepsUp, Tallies

LEMMA AnswersVectorsKeeps ==
  ASSUME UsageInv, NEW valid, AnswersVectors(valid)
  PROVE  UsageInv'
<1>1. PICK a : a = Ended(at, "none")
  OBVIOUS
<1>2. PICK b : b = Ended(at, "provider_error")
  OBVIOUS
<1>3. PICK x : x = [a EXCEPT !.source = "reported", !.finish = "stop"]
  OBVIOUS
<1>4. PICK y : y = [b EXCEPT !.source = "reported"]
  OBVIOUS
<1>5. PICK t : t = [said EXCEPT !.done = valid]
  OBVIOUS
<1>6. at.stage = "embedding" /\ said' = t /\ at' = IF valid THEN x ELSE y
  BY <1>1, <1>2, <1>3, <1>4, <1>5 DEF AnswersVectors
<1>7. Shaped(at, said) /\ Unasked(at, said)
  BY <1>6, UnaskedState
<1>8. AtFields \subseteq DOMAIN a /\ a.stage = "ended" /\ a.units = Unstated
  BY <1>1, <1>7, EndedFields, NothingMeasured DEF Shaped, Unasked
<1>9. AtFields \subseteq DOMAIN b /\ b.stage = "ended" /\ b.units = Unstated
  BY <1>2, <1>7, EndedFields, NothingMeasured DEF Shaped, Unasked
<1>10. AtFields \subseteq DOMAIN x /\ x.stage = "ended" /\ x.units = Unstated
  BY <1>3, <1>8 DEF AtFields
<1>11. AtFields \subseteq DOMAIN y /\ y.stage = "ended" /\ y.units = Unstated
  BY <1>4, <1>9 DEF AtFields
<1>12. SaidFields \subseteq DOMAIN t /\ t.lost \in Nat
  BY <1>5, <1>7 DEF Shaped, SaidFields
<1>13. UsageState(x, t) /\ UsageState(y, t)
  BY <1>10, <1>11, <1>12 DEF UsageState, Tallies
<1>14. UsageState(at', said')
  BY <1>6, <1>13
<1>15. QED
  BY <1>14 DEF UsageInv, UsageState, Unasked, Measures, KeepsUp, Tallies

\* A document carries its counts whole.
LEMMA AnswersWholeKeeps ==
  ASSUME UsageInv, NEW readable, NEW calls, NEW counts \in Counts \cup {Unstated}, AnswersWhole(readable, calls, counts)
  PROVE  UsageInv'
<1>1. PICK a : a = [at EXCEPT !.em = Start(at.em)]
  OBVIOUS
<1>2. PICK b : b = [a EXCEPT !.meter = absorb(absorb(NoMeter, Opening(counts), FALSE), Closing(counts), TRUE)]
  OBVIOUS
<1>3. PICK c : c = IF counts = Unstated THEN a ELSE IF Wire = "messages" THEN b ELSE count(a, counts)
  OBVIOUS
<1>4. PICK w : w = tell(c, Text(1))
  OBVIOUS
<1>5. PICK d : d = tellAll(w, [i \in 1..calls |-> AtOnce(i)], 1..calls)
  OBVIOUS
<1>6. PICK e : e = [d EXCEPT !.ctx = "live"]
  OBVIOUS
<1>7. PICK f : f = [finished(e, TRUE) EXCEPT !.ctx = at.ctx]
  OBVIOUS
<1>8. PICK t : t = [said EXCEPT !.texts = 1, !.calls = [i \in 1..calls |-> 1], !.closed = calls,
                                !.counts = counts, !.final = counts # Unstated, !.finished = TRUE, !.done = TRUE]
  OBVIOUS
<1>9. at.stage = "sent"
  BY DEF AnswersWhole
<1>10. said' = IF readable THEN t ELSE said
  BY <1>8 DEF AnswersWhole
<1>11. at' = IF ~readable THEN Ended(at, "provider_error")
             ELSE IF a.em.err # "none" THEN Ended(a, "sink")
             ELSE IF d.err # "none" THEN Ended(d, d.err)
             ELSE f
  BY <1>1, <1>2, <1>3, <1>4, <1>5, <1>6, <1>7, Zenon DEF AnswersWhole
<1>12. Shaped(at, said) /\ Unasked(at, said) /\ Measures(at, said)
  BY <1>9, UnaskedState
<1>13. SaidFields \subseteq DOMAIN t /\ t.lost = said.lost /\ t.lost \in Nat /\ t.counts = counts
  BY <1>8, <1>12 DEF Shaped, SaidFields
<1>14. t.final = (counts # Unstated)
  BY <1>8, <1>12, Zenon DEF Shaped, SaidFields
<1>15. Alike(at, a)
  BY <1>1, <1>12 DEF Alike, Shaped, AtFields
<1>16. Measures(a, t) /\ Shaped(a, t)
  BY <1>12, <1>13, <1>15 DEF Measures, Shaped, Alike, Unasked
<1>17. Measures(c, t) /\ Shaped(c, t)
  <2>1. CASE counts = Unstated
    BY <1>3, <1>16, <2>1
  <2>2. CASE counts # Unstated /\ Wire = "messages"
    <3>1. c = b /\ counts \in Counts
      BY <1>3, <2>2
    <3>2. AtFields \subseteq DOMAIN b /\ b.call = at.call /\ b.units = Unstated /\ b.meter = Closed(counts)
      BY <1>2, <1>12, <1>15 DEF Alike, AtFields, Closed, Opened, Unasked
    <3>3. t.final /\ b.call.path = "messages"
      BY <1>14, <2>2, <3>2 DEF Wire
    <3>4. QED
      BY <1>13, <3>1, <3>2, <3>3 DEF Measures, Shaped
  <2>3. CASE counts # Unstated /\ Wire # "messages"
    <3>1. c = count(a, counts) /\ counts \in Counts
      BY <1>3, <2>3
    <3>2. t.final /\ a.call.path # "messages" /\ a.units = Unstated /\ AtFields \subseteq DOMAIN a
      BY <1>12, <1>14, <1>15, <2>3 DEF Wire, Alike, Unasked
    <3>3. QED
      BY <1>13, <3>1, <3>2, CountMeasures DEF Shaped
  <2>4. QED
    BY <2>1, <2>2, <2>3
<1>18. Alike(c, d)
  <2>1. Alike(c, w)
    BY <1>4, <1>17, TellAlike DEF Shaped
  <2>2. Alike(w, d)
    BY <1>5, <2>1, TellAllAlike DEF Alike
  <2>3. QED
    BY <2>1, <2>2, AlikeTrans
<1>19. Measures(d, t) /\ Shaped(d, t)
  BY <1>17, <1>18 DEF Measures, Shaped, Alike
<1>20. AtFields \subseteq DOMAIN e /\ e.call = d.call /\ e.meter = d.meter /\ e.units = d.units /\ e.source = d.source
  BY <1>6, <1>19 DEF Shaped, AtFields
<1>21. Measures(e, t) /\ Shaped(e, t)
  BY <1>19, <1>20 DEF Measures, Shaped
<1>22. PICK g : g = finished(e, TRUE)
  OBVIOUS
<1>23. UsageState(g, t) /\ g.stage = "ended"
  BY <1>21, <1>22, FinishedState
<1>24. f = [g EXCEPT !.ctx = at.ctx]
  BY <1>7, <1>22
<1>25. AtFields \subseteq DOMAIN f /\ f.stage = "ended" /\ f.units = g.units /\ f.source = g.source
  BY <1>23, <1>24 DEF UsageState, AtFields
<1>26. UsageState(f, t)
  BY <1>23, <1>25 DEF UsageState, Tallies
<1>27. UsageState(Ended(a, "sink"), t) /\ UsageState(Ended(d, d.err), t) /\ UsageState(Ended(at, "provider_error"), said)
  BY <1>12, <1>16, <1>19, EndedState
<1>28. UsageState(at', said')
  BY <1>10, <1>11, <1>26, <1>27
<1>29. QED
  BY <1>28 DEF UsageInv, UsageState, Unasked, Measures, KeepsUp, Tallies

-----------------------------------------------------------------------------
LEMMA UsageSteps ==
  ASSUME UsageInv, [StreamNext]_<<at, said>>
  PROVE  UsageInv'
<1>1. CASE UNCHANGED <<at, said>>
  BY <1>1 DEF UsageInv, UsageState, Unasked, Measures, KeepsUp, Tallies
<1>2. CASE \E q \in Requests : Sends(q)
  BY <1>2, SendsKeeps
<1>3. CASE \E r \in Refusals : Refuses(r) \/ Breaks(r)
  BY <1>3, RefusesKeeps, BreaksKeeps
<1>4. CASE Unanswered \/ CutWhole
  BY <1>4, UnansweredKeeps
<1>5. CASE Answers
  BY <1>5, AnswersKeeps
<1>6. CASE \E valid \in BOOLEAN : AnswersVectors(valid)
  BY <1>6, AnswersVectorsKeeps
<1>7. CASE \E readable \in BOOLEAN, calls \in 0..MaxCalls, counts \in Counts \cup {Unstated} : AnswersWhole(readable, calls, counts)
  BY <1>7, AnswersWholeKeeps
<1>8. CASE \E counts \in Counts : Begins(counts) \/ SendsUsage(counts)
  BY <1>8, BeginsKeeps, SendsUsageKeeps
<1>9. CASE SendsText \/ OpensCall \/ ClosesBlock \/ EndsStream
  BY <1>9, SendsTextKeeps, OpensCallKeeps, ClosesBlockKeeps, EndsStreamKeeps
<1>10. CASE \E i \in 1..MaxCalls : SendsArguments(i)
  BY <1>10, SendsArgumentsKeeps
<1>11. CASE \E reason \in {"tool_use", "refusal"} : Finishes(reason)
  BY <1>11, FinishesKeeps
<1>12. CASE \E clean \in BOOLEAN : Cut(clean)
  BY <1>12, CutKeeps
<1>13. CASE \E how \in {"canceled", "expired", "stalled"} : Withdraws(how)
  BY <1>13, WithdrawsKeeps
<1>14. QED
  BY <1>1, <1>2, <1>3, <1>4, <1>5, <1>6, <1>7, <1>8, <1>9, <1>10, <1>11, <1>12, <1>13 DEF StreamNext

\* An attempt is billed what its provider said: the units marked as reported add
\* up to the provider's last totals and an interrupted stream's are marked an
\* estimate with its input exact, for any counts, on every wire, wherever the
\* stream is cut, withdrawn from or refused.
THEOREM UsageIsBilled ==
  StreamSpec => []UsageIsTheProviders
<1>1. StreamInit => UsageInv
  BY UsageStarts
<1>2. UsageInv /\ [StreamNext]_<<at, said>> => UsageInv'
  BY UsageSteps
<1>3. UsageInv => UsageIsTheProviders
  BY DEF UsageInv, UsageState, Tallies, UsageIsTheProviders
<1>4. QED
  BY <1>1, <1>2, <1>3, PTL DEF StreamSpec

(***************************************************************************)
(* What the caller is told                                                 *)
(***************************************************************************)

Told == [id : Int, frag : Nat, complete : BOOLEAN]

LEMMA OpenEvent ==
  ASSUME NEW id \in Int, NEW n \in Nat, NEW x, x = [id |-> id, frag |-> n, complete |-> FALSE]
  PROVE  x \in Told /\ x.id = id /\ x.frag = n /\ ~x.complete
<1>1. x \in Told /\ x.id = id /\ x.frag = n
  BY DEF Told
<1>2. ~x.complete
  BY Zenon
<1>3. QED
  BY <1>1, <1>2, Zenon

LEMMA ClosingEvent ==
  ASSUME NEW id \in Int, NEW n \in Nat, NEW x, x = [id |-> id, frag |-> n, complete |-> TRUE]
  PROVE  x \in Told /\ x.id = id /\ x.frag = n /\ x.complete
<1>1. x \in Told /\ x.id = id /\ x.frag = n
  BY DEF Told
<1>2. x.complete
  BY Zenon
<1>3. QED
  BY <1>1, <1>2, Zenon

\* A write is made or it fails; nothing else of the record is touched.
LEMMA TellTold ==
  ASSUME NEW a, {"em", "told", "err"} \subseteq DOMAIN a, a.err = "none", NEW event, NEW x, x = tell(a, event)
  PROVE  /\ DOMAIN x = DOMAIN a
         /\ \/ x.err = "none" /\ x.told = Append(a.told, event)
            \/ x.err # "none" /\ x.told = a.told
<1>1. PICK w : w = Output(a.em)
  OBVIOUS
<1>2. x = IF w.err = "none" THEN [a EXCEPT !.em = w, !.told = Append(@, event)] ELSE [a EXCEPT !.em = w, !.err = "sink"]
  BY <1>1 DEF tell
<1>3. CASE w.err = "none"
  BY <1>2, <1>3
<1>4. CASE w.err # "none"
  BY <1>2, <1>4
<1>5. QED
  BY <1>3, <1>4

LEMMA TellAfterError ==
  ASSUME NEW a, a.err # "none", NEW event
  PROVE  tell(a, event) = a
BY DEF tell

\* The events a list of them has written of itself by its k-th.
WrittenBy(told, err, events, due, k, w) ==
  /\ {"em", "told", "err"} \subseteq DOMAIN w
  /\ w.told \in Seq(Told) /\ Len(told) <= Len(w.told)
  /\ \A i \in 1..Len(told) : w.told[i] = told[i]
  /\ \A i \in (Len(told) + 1)..Len(w.told) : \E j \in due : j <= k /\ w.told[i] = events[j]
  /\ \A i, j \in (Len(told) + 1)..Len(w.told) : i # j => w.told[i].id # w.told[j].id
  /\ w.err = "none" => err = "none" /\ \A j \in due : j <= k => \E i \in (Len(told) + 1)..Len(w.told) : w.told[i] = events[j]

LEMMA UpToLast ==
  ASSUME NEW n \in Nat, NEW m \in Nat, NEW i \in (n + 1)..(m + 1)
  PROVE  i \in (n + 1)..m \/ i = m + 1
OBVIOUS

LEMMA WrittenStep ==
  ASSUME NEW told \in Seq(Told), NEW err, NEW events \in Seq(Told), NEW due \in SUBSET (1..Len(events)), NEW k \in 1..Len(events), NEW w,
         \A i, j \in due : i # j => events[i].id # events[j].id,
         WrittenBy(told, err, events, due, k - 1, w)
  PROVE  WrittenBy(told, err, events, due, k, IF k \in due THEN tell(w, events[k]) ELSE w)
<1>1. Len(told) \in Nat /\ Len(events) \in Nat /\ w.told \in Seq(Told) /\ Len(w.told) \in Nat /\ events[k] \in Told
  BY DEF WrittenBy
<1>2. CASE k \notin due
  <2>1. \A j \in due : j <= k <=> j <= k - 1
    BY <1>1, <1>2
  <2>2. WrittenBy(told, err, events, due, k, w)
    BY <2>1 DEF WrittenBy
  <2>3. QED
    BY <1>2, <2>2
<1>3. CASE k \in due /\ w.err # "none"
  <2>1. tell(w, events[k]) = w
    BY <1>3, TellAfterError
  <2>2. \A j \in due : j <= k - 1 => j <= k
    BY <1>1
  <2>3. WrittenBy(told, err, events, due, k, w)
    BY <1>3, <2>2 DEF WrittenBy
  <2>4. QED
    BY <1>3, <2>1, <2>3
<1>4. CASE k \in due /\ w.err = "none"
  <2>1. PICK x : x = tell(w, events[k])
    OBVIOUS
  <2>2. /\ DOMAIN x = DOMAIN w
        /\ \/ x.err = "none" /\ x.told = Append(w.told, events[k])
           \/ x.err # "none" /\ x.told = w.told
    BY <1>4, <2>1, TellTold DEF WrittenBy
  <2>3. CASE x.err # "none" /\ x.told = w.told
    <3>1. \A j \in due : j <= k - 1 => j <= k
      BY <1>1
    <3>2. WrittenBy(told, err, events, due, k, x)
      <4>1. \A i \in (Len(told) + 1)..Len(w.told) : \E j \in due : j <= k /\ w.told[i] = events[j]
        BY <3>1 DEF WrittenBy
      <4>2. QED
        BY <2>2, <2>3, <4>1 DEF WrittenBy
    <3>3. QED
      BY <1>4, <2>1, <3>2
  <2>4. CASE x.err = "none" /\ x.told = Append(w.told, events[k])
    <3> DEFINE n == Len(told)
               m == Len(w.told)
    <3>1. /\ x.told \in Seq(Told) /\ Len(x.told) = m + 1 /\ x.told[m + 1] = events[k]
          /\ \A i \in 1..m : x.told[i] = w.told[i]
      BY <1>1, <2>4
    <3>2. n <= m /\ \A i \in 1..n : x.told[i] = told[i]
      BY <1>1, <3>1 DEF WrittenBy
    <3>3. \A i \in (n + 1)..m : \E j \in due : j <= k - 1 /\ x.told[i] = events[j]
      BY <1>1, <3>1 DEF WrittenBy
    <3>4. \A i \in (n + 1)..(m + 1) : \E j \in due : j <= k /\ x.told[i] = events[j]
      <4>1. SUFFICES ASSUME NEW i \in (n + 1)..(m + 1)
                     PROVE  \E j \in due : j <= k /\ x.told[i] = events[j]
        OBVIOUS
      <4>2. CASE i = m + 1
        BY <1>1, <1>4, <3>1, <4>2
      <4>3. CASE i # m + 1
        <5>1. i \in (n + 1)..m
          BY <1>1, <4>1, <4>3, UpToLast
        <5>2. PICK j \in due : j <= k - 1 /\ x.told[i] = events[j]
          BY <3>3, <5>1
        <5>3. j <= k
          BY <5>2, <1>1
        <5>4. QED
          BY <5>2, <5>3
      <4>4. QED
        BY <4>2, <4>3
    <3>5. \A i \in (n + 1)..m : x.told[i].id # x.told[m + 1].id
      <4>1. SUFFICES ASSUME NEW i \in (n + 1)..m
                     PROVE  x.told[i].id # x.told[m + 1].id
        OBVIOUS
      <4>2. PICK j \in due : j <= k - 1 /\ x.told[i] = events[j]
        BY <3>3
      <4>3. j # k
        BY <4>2, <1>1
      <4>4. QED
        BY <1>4, <3>1, <4>2, <4>3
    <3>6. \A i, j \in (n + 1)..(m + 1) : i # j => x.told[i].id # x.told[j].id
      <4>1. SUFFICES ASSUME NEW i \in (n + 1)..(m + 1), NEW j \in (n + 1)..(m + 1), i # j
                     PROVE  x.told[i].id # x.told[j].id
        OBVIOUS
      <4>2. i \in (n + 1)..m \/ i = m + 1
        BY <1>1, <4>1, UpToLast
      <4>3. j \in (n + 1)..m \/ j = m + 1
        BY <1>1, <4>1, UpToLast
      <4>4. CASE i \in (n + 1)..m /\ j \in (n + 1)..m
        <5>1. x.told[i] = w.told[i] /\ x.told[j] = w.told[j]
          BY <1>1, <3>1, <4>4
        <5>2. w.told[i].id # w.told[j].id
          BY <4>1, <4>4 DEF WrittenBy
        <5>3. QED
          BY <5>1, <5>2
      <4>5. QED
        BY <3>5, <4>1, <4>2, <4>3, <4>4
    <3>7. \A j \in due : j <= k => \E i \in (n + 1)..(m + 1) : x.told[i] = events[j]
      <4>1. SUFFICES ASSUME NEW j \in due, j <= k
                     PROVE  \E i \in (n + 1)..(m + 1) : x.told[i] = events[j]
        OBVIOUS
      <4>2. CASE j = k
        <5>1. m + 1 \in (n + 1)..(m + 1)
          BY <1>1, <3>2
        <5>2. QED
          BY <5>1, <3>1, <4>2
      <4>3. CASE j # k
        <5>1. j <= k - 1
          BY <1>1, <4>1, <4>3
        <5>2. PICK i \in (n + 1)..m : w.told[i] = events[j]
          BY <1>4, <4>1, <5>1 DEF WrittenBy
        <5>3. i \in (n + 1)..(m + 1) /\ x.told[i] = w.told[i]
          BY <1>1, <3>1
        <5>4. QED
          BY <5>2, <5>3
      <4>4. QED
        BY <4>2, <4>3
    <3>8. WrittenBy(told, err, events, due, k, x)
      BY <1>1, <1>4, <2>2, <3>1, <3>2, <3>4, <3>6, <3>7 DEF WrittenBy
    <3>9. QED
      BY <1>4, <2>1, <3>8
  <2>5. QED
    BY <2>2, <2>3, <2>4
<1>5. QED
  BY <1>2, <1>3, <1>4

LEMMA TellAllTold ==
  ASSUME NEW a, AtFields \subseteq DOMAIN a, a.told \in Seq(Told),
         NEW events \in Seq(Told), NEW due \in SUBSET (1..Len(events)),
         \A i, j \in due : i # j => events[i].id # events[j].id,
         NEW x, x = tellAll(a, events, due)
  PROVE  WrittenBy(a.told, a.err, events, due, Len(events), x) /\ x.ids = a.ids
<1> DEFINE n == Len(events)
           w0 == [em |-> a.em, told |-> a.told, err |-> a.err]
           step(w, k) == IF k \in due THEN tell(w, events[k]) ELSE w
           Law(m, g) == g = [k \in 0..m |-> IF k = 0 THEN w0 ELSE step(g[k - 1], k)]
           known == CHOOSE g : Law(n, g)
           Good(k, w) == WrittenBy(a.told, a.err, events, due, k, w)
<1>1. n \in Nat
  OBVIOUS
<1>2. Good(0, w0)
  <2>1. PICK w : w = w0
    OBVIOUS
  <2>2. w.told = a.told /\ w.err = a.err /\ {"em", "told", "err"} \subseteq DOMAIN w
    BY <2>1
  <2>3. Len(a.told) \in Nat /\ (Len(a.told) + 1)..Len(a.told) = {} /\ \A j \in due : ~(j <= 0)
    OBVIOUS
  <2>4. Good(0, w)
    BY <2>2, <2>3 DEF WrittenBy
  <2>5. QED
    BY <2>1, <2>4
<1>3. \A k \in 1..n : \A w : Good(k - 1, w) => Good(k, step(w, k))
  BY WrittenStep
<1>4. x = [a EXCEPT !.em = known[n].em, !.told = known[n].told, !.err = known[n].err]
  BY Zenon DEF tellAll
<1> HIDE DEF w0, step, Good
<1> DEFINE Bad == {m \in 0..n : ~ \E g : Law(m, g)}
<1>5. Bad = {}
  <2>1. SUFFICES ASSUME Bad # {}
                 PROVE  FALSE
    OBVIOUS
  <2>2. Bad \in SUBSET Nat
    OBVIOUS
  <2> HIDE DEF Bad
  <2>3. PICK m \in Bad : \A y \in Bad : m <= y
    BY <2>1, <2>2, LeastNatural
  <2> USE DEF Bad
  <2>4. m # 0
    <3>1. Law(0, [k \in 0..0 |-> w0])
      <4>1. \A k \in 0..0 : k = 0
        OBVIOUS
      <4>2. QED
        BY <4>1
    <3>2. QED
      BY <2>3, <3>1
  <2>5. m - 1 \in 0..n /\ m - 1 \notin Bad
    <3>1. m \in 0..n
      BY <2>3
    <3> HIDE DEF Bad
    <3>2. QED
      BY <3>1, <2>3, <2>4, <1>1
  <2>6. PICK f : Law(m - 1, f)
    BY <2>5
  <2>7. m \in 1..n
    BY <2>3, <2>4, <1>1
  <2>8. \A k \in 0..(m - 1) : f[k] = IF k = 0 THEN w0 ELSE step(f[k - 1], k)
    BY <2>6
  <2> DEFINE g == [k \in 0..m |-> IF k = m THEN step(f[m - 1], m) ELSE f[k]]
  <2>9. \A k \in 0..m : g[k] = IF k = 0 THEN w0 ELSE step(g[k - 1], k)
    BY <2>7, <2>8
  <2>10. Law(m, g)
    <3>1. DOMAIN g = 0..m /\ g = [k \in 0..m |-> g[k]]
      OBVIOUS
    <3> HIDE DEF g
    <3>2. QED
      BY <3>1, <2>9
  <2>11. QED
    BY <2>3, <2>10
<1>6. Law(n, known)
  <2>1. n \in 0..n
    BY <1>1
  <2>2. \E g : Law(n, g)
    BY <2>1, <1>5
  <2>3. QED
    BY <2>2
<1> HIDE DEF known
<1>7. \A k \in 0..n : known[k] = IF k = 0 THEN w0 ELSE step(known[k - 1], k)
  BY <1>6
<1> DEFINE Ill == {k \in 0..n : ~Good(k, known[k])}
<1>8. Ill = {}
  <2>1. SUFFICES ASSUME Ill # {}
                 PROVE  FALSE
    OBVIOUS
  <2>2. Ill \in SUBSET Nat
    OBVIOUS
  <2> HIDE DEF Ill
  <2>3. PICK m \in Ill : \A y \in Ill : m <= y
    BY <2>1, <2>2, LeastNatural
  <2>4. m \in 0..n /\ ~Good(m, known[m])
    BY <2>3 DEF Ill
  <2>5. m # 0
    BY <2>4, <1>1, <1>2, <1>7
  <2>6. m \in 1..n /\ m - 1 \in 0..n /\ m - 1 \notin Ill
    BY <2>3, <2>4, <2>5, <1>1
  <2>7. Good(m - 1, known[m - 1])
    BY <2>6 DEF Ill
  <2>8. Good(m, step(known[m - 1], m))
    BY <2>6, <2>7, <1>3
  <2>9. known[m] = step(known[m - 1], m)
    BY <2>4, <2>5, <1>7
  <2>10. QED
    BY <2>4, <2>8, <2>9
<1>9. PICK w : w = known[n]
  OBVIOUS
<1>10. Good(n, w)
  <2>1. n \in 0..n
    BY <1>1
  <2>2. QED
    BY <2>1, <1>8, <1>9
<1>11. x = [a EXCEPT !.em = w.em, !.told = w.told, !.err = w.err]
  BY <1>4, <1>9
<1>12. x.told = w.told /\ x.err = w.err /\ x.ids = a.ids /\ {"em", "told", "err"} \subseteq DOMAIN x
  BY <1>11 DEF AtFields
<1>13. QED
  BY <1>10, <1>12 DEF Good, WrittenBy

-----------------------------------------------------------------------------
\* How many pieces of a call, or (0) how many texts, the provider has sent.
SentOf(s, id) == IF id = 0 THEN s.texts ELSE IF id \in 1..Len(s.calls) THEN s.calls[id] ELSE 0

\* The pieces of one call arrive in order, and nothing after its end.
InOrder(T, i, j) == ~T[i].complete /\ (T[j].frag > 0 => T[i].frag < T[j].frag)
Orderly(T, s) ==
  /\ T \in Seq(Told)
  /\ \A i \in 1..Len(T) : T[i].id \in 0..MaxCalls =>
       /\ T[i].frag <= SentOf(s, T[i].id)
       /\ \A j \in 1..Len(T) : i < j /\ T[j].id = T[i].id => InOrder(T, i, j)

Heard(T, id, n) == \E i \in 1..Len(T) : T[i].id = id /\ T[i].frag = n
Ends(T, id) == \E i \in 1..Len(T) : T[i].id = id /\ T[i].complete

\* Everything the provider sent, each call with its end.
Entire(T, s) ==
  \A id \in 0..Len(s.calls) :
    /\ \A n \in 1..SentOf(s, id) : Heard(T, id, n)
    /\ id # 0 => Ends(T, id)

\* What the provider has sent is a list of calls, closed from the front.
Sane(s) ==
  /\ SaidFields \subseteq DOMAIN s /\ s.lost \in Nat
  /\ s.calls \in Seq(Nat) /\ Len(s.calls) <= MaxCalls /\ s.texts \in Nat
  /\ s.closed \in 0..Len(s.calls) /\ (s.finished => s.closed = Len(s.calls))

\* A reader names only calls that were opened, and none it has ended.
Knows(a, s) ==
  /\ a.ids \in [1..MaxCalls -> Nat]
  /\ \A i \in 1..MaxCalls : a.ids[i] # 0 => a.ids[i] = i /\ i <= Len(s.calls)
  /\ \A i \in 1..Len(a.told) : a.told[i].id <= Len(s.calls)
  /\ \A i \in 1..Len(a.told) : a.told[i].complete => a.told[i].id \in 1..MaxCalls /\ a.ids[a.told[i].id] = 0

\* A reader that lost nothing has passed on every piece, has ended the calls
\* that are closed and knows those that are open.
Passed(a, s) ==
  s.lost = 0 =>
    /\ \A id \in 0..Len(s.calls) : \A n \in 1..SentOf(s, id) : Heard(a.told, id, n)
    /\ \A id \in 1..s.closed : Ends(a.told, id)
    /\ \A id \in (s.closed + 1)..Len(s.calls) : a.ids[id] = id

Silent(a, s) ==
  /\ a.told = <<>> /\ a.err = "none" /\ a.ids = [i \in 1..MaxCalls |-> 0]
  /\ s.calls = <<>> /\ s.texts = 0 /\ s.closed = 0
  /\ a.stage = "embedding" => a.call.path = "embeddings"

AnswerState(a, s) ==
  /\ AtFields \subseteq DOMAIN a /\ Sane(s) /\ Orderly(a.told, s)
  /\ a.stage \in {"idle", "refused", "sent", "embedding", "reading", "ended"}
  /\ a.stage \notin {"reading", "ended"} => Silent(a, s)
  /\ a.stage = "reading" => a.err = "none" /\ Knows(a, s) /\ Passed(a, s)
  /\ a.stage = "ended" /\ a.err = "none" =>
       s.done /\ (s.lost = 0 /\ a.call.path # "embeddings" => Entire(a.told, s))

LEMMA OrderlyAppend ==
  ASSUME NEW T, NEW s, NEW e \in Told, Orderly(T, s),
         e.id \in 0..MaxCalls => e.frag <= SentOf(s, e.id),
         \A i \in 1..Len(T) : T[i].id = e.id /\ e.id \in 0..MaxCalls => ~T[i].complete /\ (e.frag > 0 => T[i].frag < e.frag)
  PROVE  Orderly(Append(T, e), s)
<1>1. PICK U : U = Append(T, e)
  OBVIOUS
<1>2. T \in Seq(Told) /\ Len(T) \in Nat
  BY DEF Orderly
<1>3. /\ U \in Seq(Told) /\ Len(U) = Len(T) + 1 /\ U[Len(T) + 1] = e
      /\ \A i \in 1..Len(T) : U[i] = T[i]
  BY <1>1, <1>2
<1>4. ASSUME NEW i \in 1..Len(U), U[i].id \in 0..MaxCalls
      PROVE  /\ U[i].frag <= SentOf(s, U[i].id)
             /\ \A j \in 1..Len(U) : i < j /\ U[j].id = U[i].id => InOrder(U, i, j)
  <2>1. CASE i = Len(T) + 1
    <3>1. U[i] = e
      BY <1>3, <2>1
    <3>2. \A j \in 1..Len(U) : ~(i < j)
      BY <1>2, <1>3, <2>1
    <3>3. QED
      BY <1>4, <3>1, <3>2
  <2>2. CASE i \in 1..Len(T)
    <3>1. U[i] = T[i]
      BY <1>3, <2>2
    <3>2. U[i].frag <= SentOf(s, U[i].id)
      BY <1>4, <2>2, <3>1 DEF Orderly
    <3>3. ASSUME NEW j \in 1..Len(U), i < j, U[j].id = U[i].id
          PROVE  InOrder(U, i, j)
      <4>1. CASE j = Len(T) + 1
        <5>1. U[j] = e
          BY <1>3, <4>1
        <5>2. T[i].id = e.id /\ e.id \in 0..MaxCalls
          BY <1>4, <3>1, <3>3, <5>1
        <5>3. ~T[i].complete /\ (e.frag > 0 => T[i].frag < e.frag)
          BY <2>2, <5>2
        <5>4. QED
          BY <3>1, <5>1, <5>3 DEF InOrder
      <4>2. CASE j \in 1..Len(T)
        <5>1. U[j] = T[j]
          BY <1>3, <4>2
        <5>2. InOrder(T, i, j)
          BY <1>4, <2>2, <3>1, <3>3, <4>2, <5>1 DEF Orderly
        <5>3. QED
          BY <3>1, <5>1, <5>2 DEF InOrder
      <4>3. QED
        BY <1>2, <1>3, <3>3, <4>1, <4>2
    <3>4. QED
      BY <3>2, <3>3
  <2>3. QED
    BY <1>2, <1>3, <1>4, <2>1, <2>2
<1>5. QED
  BY <1>1, <1>3, <1>4 DEF Orderly

\* The provider sends more: more texts, more pieces, more calls.
Grows(s, t) ==
  /\ Len(s.calls) <= Len(t.calls)
  /\ \A id \in 0..MaxCalls : SentOf(s, id) <= SentOf(t, id)

LEMMA SentIsNat ==
  ASSUME NEW s, Sane(s), NEW id
  PROVE  SentOf(s, id) \in Nat
BY DEF Sane, SentOf

LEMMA GrownOrderly ==
  ASSUME NEW T, NEW s, NEW t, Sane(s), Sane(t), Grows(s, t), Orderly(T, s)
  PROVE  Orderly(T, t)
<1>1. T \in Seq(Told)
  BY DEF Orderly
<1>2. ASSUME NEW i \in 1..Len(T), T[i].id \in 0..MaxCalls
      PROVE  /\ T[i].frag <= SentOf(t, T[i].id)
             /\ \A j \in 1..Len(T) : i < j /\ T[j].id = T[i].id => InOrder(T, i, j)
  <2>1. T[i] \in Told
    BY <1>1
  <2>2. T[i].frag \in Nat
    BY <2>1 DEF Told
  <2>3. /\ T[i].frag <= SentOf(s, T[i].id) /\ SentOf(s, T[i].id) <= SentOf(t, T[i].id)
        /\ SentOf(s, T[i].id) \in Nat /\ SentOf(t, T[i].id) \in Nat
    BY <1>2, SentIsNat DEF Orderly, Grows
  <2>4. QED
    BY <1>2, <2>2, <2>3 DEF Orderly
<1>3. QED
  BY <1>1, <1>2 DEF Orderly

-----------------------------------------------------------------------------
LEMMA EndedTold ==
  ASSUME NEW a, AtFields \subseteq DOMAIN a, NEW err, NEW x, x = Ended(a, err)
  PROVE  /\ AtFields \subseteq DOMAIN x /\ x.stage = "ended" /\ x.err = err
         /\ x.told = a.told /\ x.call = a.call /\ x.em = a.em /\ x.finish = a.finish
<1>1. PICK m : m = [a EXCEPT !.units = meterUnits(a.meter), !.source = IF a.meter.final THEN "reported" ELSE "estimated"]
  OBVIOUS
<1>2. PICK b : b = IF a.call.path = "messages" THEN m ELSE a
  OBVIOUS
<1>3. x = [b EXCEPT !.stage = "ended", !.err = err]
  BY <1>1, <1>2 DEF Ended
<1>4. AtFields \subseteq DOMAIN m /\ m.told = a.told /\ m.call = a.call /\ m.em = a.em /\ m.finish = a.finish
  BY <1>1 DEF AtFields
<1>5. AtFields \subseteq DOMAIN b /\ b.told = a.told /\ b.call = a.call /\ b.em = a.em /\ b.finish = a.finish
  BY <1>2, <1>4
<1>6. QED
  BY <1>3, <1>5 DEF AtFields

\* An attempt that ends in an error has passed on what it has in order.
LEMMA FailedAnswer ==
  ASSUME NEW a, NEW s, NEW err, AtFields \subseteq DOMAIN a, Sane(s), Orderly(a.told, s), err # "none"
  PROVE  AnswerState(Ended(a, err), s) /\ AnswerState(EndedStream(a, err), s)
<1>1. PICK e : e = IF a.call.path = "chat" /\ a.ctx = "stalled" /\ err # "none" THEN "provider_timeout" ELSE err
  OBVIOUS
<1>2. e # "none" /\ EndedStream(a, err) = Ended(a, e)
  BY <1>1 DEF EndedStream
<1>3. PICK x : x = Ended(a, err)
  OBVIOUS
<1>4. PICK y : y = Ended(a, e)
  OBVIOUS
<1>5. AtFields \subseteq DOMAIN x /\ x.stage = "ended" /\ x.err # "none" /\ x.told = a.told
  BY <1>3, EndedTold
<1>6. AtFields \subseteq DOMAIN y /\ y.stage = "ended" /\ y.err # "none" /\ y.told = a.told
  BY <1>2, <1>4, EndedTold
<1>7. AnswerState(x, s) /\ AnswerState(y, s)
  BY <1>5, <1>6 DEF AnswerState
<1>8. QED
  BY <1>2, <1>3, <1>4, <1>7

LEMMA FailuresAreErrors ==
  ASSUME NEW a
  PROVE  TransportFailure(a) # "none" /\ ContextError(a) # "none"
BY DEF TransportFailure, ContextError

\* The end of a stream that its provider ended, or did not.
LEMMA FinishedAnswer ==
  ASSUME NEW a, NEW s, NEW terminated, AtFields \subseteq DOMAIN a, Sane(s), Orderly(a.told, s),
         terminated => s.done /\ (s.lost = 0 /\ a.call.path # "embeddings" => Entire(a.told, s))
  PROVE  AnswerState(finished(a, terminated), s) /\ finished(a, terminated).stage = "ended"
<1>0. ASSUME NEW err
      PROVE  EndedStream(a, err).stage = "ended"
  <2>1. PICK e : e = IF a.call.path = "chat" /\ a.ctx = "stalled" /\ err # "none" THEN "provider_timeout" ELSE err
    OBVIOUS
  <2>2. EndedStream(a, err) = Ended(a, e)
    BY <2>1 DEF EndedStream
  <2>3. QED
    BY <2>2, EndedTold
<1>1. CASE a.ctx # "live"
  <2>1. finished(a, terminated) = EndedStream(a, ContextError(a))
    BY <1>1 DEF finished
  <2>2. QED
    BY <1>0, <2>1, FailuresAreErrors, FailedAnswer
<1>2. CASE a.ctx = "live" /\ ~terminated
  <2>1. finished(a, terminated) = EndedStream(a, TransportFailure(a))
    BY <1>2 DEF finished
  <2>2. QED
    BY <1>0, <2>1, FailuresAreErrors, FailedAnswer
<1>3. CASE a.ctx = "live" /\ terminated
  <2>1. PICK y : y = Ended(a, "none")
    OBVIOUS
  <2>2. AtFields \subseteq DOMAIN y /\ y.stage = "ended" /\ y.told = a.told /\ y.call = a.call
    BY <2>1, EndedTold
  <2>3. PICK em2 : em2 = IF y.source = "reported" THEN Progress(y.em) ELSE y.em
    OBVIOUS
  <2>4. PICK x : x = [y EXCEPT !.em = em2, !.err = IF y.source = "reported" /\ em2.err # "none" THEN "sink" ELSE "none",
                               !.finish = IF y.finish = "none" THEN "stop" ELSE y.finish]
    OBVIOUS
  <2>5. finished(a, terminated) = x
    BY <1>3, <2>1, <2>3, <2>4 DEF finished
  <2>6. AtFields \subseteq DOMAIN x /\ x.stage = "ended" /\ x.told = a.told /\ x.call = a.call
    BY <2>2, <2>4 DEF AtFields
  <2>7. AnswerState(x, s)
    BY <1>3, <2>6 DEF AnswerState
  <2>8. QED
    BY <2>5, <2>6, <2>7
<1>4. QED
  BY <1>1, <1>2, <1>3

LEMMA AfterAnswer ==
  ASSUME NEW a, NEW s, AtFields \subseteq DOMAIN a, a.stage = "reading", Sane(s), Orderly(a.told, s),
         a.err = "none" => Knows(a, s) /\ Passed(a, s)
  PROVE  AnswerState(after(a), s)
<1>1. CASE a.err = "none"
  <2>1. after(a) = a
    BY <1>1 DEF after
  <2>2. AnswerState(a, s)
    BY <1>1 DEF AnswerState
  <2>3. QED
    BY <2>1, <2>2
<1>2. CASE a.err # "none"
  <2>1. after(a) = EndedStream(a, a.err)
    BY <1>2 DEF after
  <2>2. QED
    BY <1>2, <2>1, FailedAnswer
<1>3. QED
  BY <1>1, <1>2

AnswerInv == AnswerState(at, said)

LEMMA AnswerPrimed ==
  ASSUME AnswerState(at', said')
  PROVE  AnswerInv'
BY DEF AnswerInv, AnswerState, Sane, Orderly, InOrder, Silent, Knows, Passed, Entire, SentOf, Heard, Ends

LEMMA AnswerStarts ==
  StreamInit => AnswerInv
<1>1. SUFFICES ASSUME StreamInit
               PROVE  AnswerInv
  OBVIOUS
<1>2. /\ AtFields \subseteq DOMAIN at /\ at.stage = "idle" /\ at.told = <<>> /\ at.err = "none"
      /\ at.ids = [i \in 1..MaxCalls |-> 0]
  BY <1>1 DEF StreamInit, AtFields
<1>3. /\ SaidFields \subseteq DOMAIN said /\ said.lost = 0 /\ said.calls = <<>> /\ said.texts = 0 /\ said.closed = 0
  BY <1>1 DEF StreamInit, SaidFields
<1>4. Sane(said)
  BY <1>3, StreamAssumption DEF Sane
<1>5. Orderly(at.told, said)
  BY <1>2 DEF Orderly
<1>6. QED
  BY <1>2, <1>3, <1>4, <1>5 DEF AnswerInv, AnswerState, Silent

LEMMA ReadingAnswer ==
  ASSUME AnswerInv, Reading
  PROVE  /\ AtFields \subseteq DOMAIN at /\ Sane(said) /\ Orderly(at.told, said)
         /\ at.stage = "reading" /\ at.err = "none" /\ Knows(at, said) /\ Passed(at, said)
BY DEF AnswerInv, AnswerState, Reading

LEMMA SilentAnswer ==
  ASSUME AnswerInv, at.stage \notin {"reading", "ended"}
  PROVE  AtFields \subseteq DOMAIN at /\ Sane(said) /\ Orderly(at.told, said) /\ Silent(at, said)
BY DEF AnswerInv, AnswerState

\* A frame, or a frame lost.
LEMMA ArrivesAnswer ==
  ASSUME AnswerInv, NEW read, NEW sent, Arrives(read, sent),
         AtFields \subseteq DOMAIN read, read.stage = "reading", Sane(sent), sent.lost = said.lost, Grows(said, sent),
         Orderly(read.told, sent), read.err = "none" => Knows(read, sent) /\ Passed(read, sent)
  PROVE  AnswerInv'
<1>0. Reading
  BY ArrivesReads
<1>1. CASE Frame(read, sent)
  <2>1. said' = sent /\ at' = after(read)
    BY <1>1 DEF Frame
  <2>2. AnswerState(after(read), sent)
    BY AfterAnswer
  <2>3. AnswerState(at', said')
    BY <2>1, <2>2
  <2>4. QED
    BY <2>3, AnswerPrimed
<1>2. CASE Lost(sent)
  <2>1. said' = [sent EXCEPT !.lost = @ + 1] /\ at' = lost(at)
    BY <1>2 DEF Lost
  <2>2. /\ AtFields \subseteq DOMAIN at /\ Sane(said) /\ Orderly(at.told, said)
        /\ at.stage = "reading" /\ at.err = "none" /\ Knows(at, said)
    BY <1>0, ReadingAnswer
  <2>3. PICK s : s = [sent EXCEPT !.lost = @ + 1]
    OBVIOUS
  <2>4. /\ SaidFields \subseteq DOMAIN s /\ s.lost = sent.lost + 1 /\ s.calls = sent.calls /\ s.texts = sent.texts
        /\ s.closed = sent.closed /\ s.finished = sent.finished
    BY <2>3 DEF Sane, SaidFields
  <2>5. Sane(s) /\ s.lost # 0 /\ \A id : SentOf(s, id) = SentOf(sent, id)
    BY <2>4 DEF Sane, SentOf
  <2>6. Grows(said, s)
    BY <2>4, <2>5 DEF Grows
  <2>7. Orderly(at.told, s)
    BY <2>2, <2>5, <2>6, GrownOrderly
  <2>8. Knows(at, s)
    <3>1. Len(said.calls) \in Nat /\ Len(s.calls) \in Nat /\ Len(said.calls) <= Len(s.calls)
      BY <2>2, <2>5, <2>6 DEF Sane, Grows
    <3>2. \A i \in 1..Len(at.told) : at.told[i].id \in Int
      <4>1. \A i \in 1..Len(at.told) : at.told[i] \in Told
        BY <2>2 DEF Orderly
      <4>2. QED
        BY <4>1 DEF Told
    <3>3. QED
      BY <2>2, <3>1, <3>2 DEF Knows
  <2>9. AnswerState(at, s)
    BY <2>2, <2>5, <2>7, <2>8 DEF AnswerState, Passed
  <2>10. AnswerState(EndedStream(at, "provider_error"), s)
    BY <2>2, <2>5, <2>7, FailedAnswer
  <2>11. AnswerState(lost(at), s)
    BY <2>9, <2>10 DEF lost
  <2>12. AnswerState(at', said')
    BY <2>1, <2>3, <2>11
  <2>13. QED
    BY <2>12, AnswerPrimed
<1>3. QED
  BY <1>1, <1>2 DEF Arrives

-----------------------------------------------------------------------------
LEMMA AppendHears ==
  ASSUME NEW T \in Seq(Told), NEW e \in Told, NEW U, U = Append(T, e)
  PROVE  /\ U \in Seq(Told)
         /\ \A id, n : Heard(T, id, n) => Heard(U, id, n)
         /\ \A id : Ends(T, id) => Ends(U, id)
         /\ Heard(U, e.id, e.frag)
         /\ e.complete => Ends(U, e.id)
<1>1. /\ U \in Seq(Told) /\ Len(U) = Len(T) + 1 /\ U[Len(T) + 1] = e /\ Len(T) \in Nat
      /\ \A i \in 1..Len(T) : U[i] = T[i]
  OBVIOUS
<1>2. 1..Len(T) \subseteq 1..Len(U) /\ Len(T) + 1 \in 1..Len(U)
  BY <1>1
<1>3. ASSUME NEW id, NEW n, Heard(T, id, n)
      PROVE  Heard(U, id, n)
  <2>1. PICK i \in 1..Len(T) : T[i].id = id /\ T[i].frag = n
    BY <1>3 DEF Heard
  <2>2. i \in 1..Len(U) /\ U[i] = T[i]
    BY <1>1, <1>2
  <2>3. QED
    BY <2>1, <2>2 DEF Heard
<1>4. ASSUME NEW id, Ends(T, id)
      PROVE  Ends(U, id)
  <2>1. PICK i \in 1..Len(T) : T[i].id = id /\ T[i].complete
    BY <1>4 DEF Ends
  <2>2. i \in 1..Len(U) /\ U[i] = T[i]
    BY <1>1, <1>2
  <2>3. QED
    BY <2>1, <2>2 DEF Ends
<1>5. Heard(U, e.id, e.frag) /\ (e.complete => Ends(U, e.id))
  BY <1>1, <1>2 DEF Heard, Ends
<1>6. QED
  BY <1>1, <1>3, <1>4, <1>5

LEMMA KnowsAppend ==
  ASSUME NEW y, NEW x, NEW t, NEW e \in Told, y.told \in Seq(Told), Knows(y, t), x.ids = y.ids, x.told = Append(y.told, e),
         e.id <= Len(t.calls), e.complete => e.id \in 1..MaxCalls /\ x.ids[e.id] = 0
  PROVE  Knows(x, t)
<1> DEFINE T == y.told
           U == x.told
<1>1. /\ Len(U) = Len(T) + 1 /\ U[Len(T) + 1] = e /\ Len(T) \in Nat
      /\ \A i \in 1..Len(T) : U[i] = T[i]
  OBVIOUS
<1>2. ASSUME NEW i \in 1..Len(U)
      PROVE  U[i].id <= Len(t.calls) /\ (U[i].complete => U[i].id \in 1..MaxCalls /\ x.ids[U[i].id] = 0)
  <2>1. CASE i = Len(T) + 1
    BY <1>1, <2>1
  <2>2. CASE i \in 1..Len(T)
    <3>1. U[i] = T[i]
      BY <1>1, <2>2
    <3>2. T[i].id <= Len(t.calls) /\ (T[i].complete => T[i].id \in 1..MaxCalls /\ y.ids[T[i].id] = 0)
      BY <2>2 DEF Knows
    <3>3. QED
      BY <3>1, <3>2
  <2>3. QED
    BY <1>1, <1>2, <2>1, <2>2
<1>3. QED
  BY <1>2 DEF Knows

\* What a reader knows stays true when the provider has opened more calls.
LEMMA KnowsMore ==
  ASSUME NEW a, NEW s, NEW t, Sane(s), Sane(t), Len(s.calls) <= Len(t.calls), Knows(a, s), a.told \in Seq(Told)
  PROVE  Knows(a, t)
<1>1. Len(s.calls) \in Nat /\ Len(t.calls) \in Nat
  BY DEF Sane
<1>2. \A i \in 1..Len(a.told) : a.told[i].id \in Int
  <2>1. \A i \in 1..Len(a.told) : a.told[i] \in Told
    OBVIOUS
  <2>2. QED
    BY <2>1 DEF Told
<1>3. QED
  BY <1>1, <1>2 DEF Knows

\* A reader that is told to write one more event of the call it names.
LEMMA TellIds ==
  ASSUME NEW a, AtFields \subseteq DOMAIN a, a.err = "none", NEW event, NEW x, x = tell(a, event)
  PROVE  /\ AtFields \subseteq DOMAIN x /\ x.ids = a.ids /\ x.stage = a.stage /\ x.call = a.call
         /\ \/ x.err = "none" /\ x.told = Append(a.told, event)
            \/ x.err # "none" /\ x.told = a.told
<1>1. PICK w : w = Output(a.em)
  OBVIOUS
<1>2. x = IF w.err = "none" THEN [a EXCEPT !.em = w, !.told = Append(@, event)] ELSE [a EXCEPT !.em = w, !.err = "sink"]
  BY <1>1 DEF tell
<1>3. CASE w.err = "none"
  BY <1>2, <1>3 DEF AtFields
<1>4. CASE w.err # "none"
  BY <1>2, <1>4 DEF AtFields
<1>5. QED
  BY <1>3, <1>4

\* The text, and on the spoken wire the audio behind it.
LEMMA SendsTextAnswer ==
  ASSUME AnswerInv, SendsText
  PROVE  AnswerInv'
<1>1. PICK n : n = said.texts + 1
  OBVIOUS
<1>2. PICK b : b = tell(at, Text(n))
  OBVIOUS
<1>3. PICK r : r = IF Wire = "spoken" THEN speak(b, n) ELSE b
  OBVIOUS
<1>4. PICK t : t = [said EXCEPT !.texts = n]
  OBVIOUS
<1>5. Arrives(r, t)
  BY <1>1, <1>2, <1>3, <1>4 DEF SendsText
<1>6. Reading
  BY <1>5, ArrivesReads
<1>7. /\ AtFields \subseteq DOMAIN at /\ Sane(said) /\ Orderly(at.told, said)
      /\ at.stage = "reading" /\ at.err = "none" /\ Knows(at, said) /\ Passed(at, said)
  BY <1>6, ReadingAnswer
<1>8. /\ SaidFields \subseteq DOMAIN t /\ t.lost = said.lost /\ t.calls = said.calls /\ t.texts = n
      /\ t.closed = said.closed /\ t.finished = said.finished /\ n \in Nat
  BY <1>1, <1>4, <1>7 DEF Sane, SaidFields
<1>9. Sane(t)
  BY <1>7, <1>8 DEF Sane
<1>10. SentOf(t, 0) = n /\ SentOf(said, 0) = said.texts /\ \A id : id # 0 => SentOf(t, id) = SentOf(said, id)
  BY <1>8 DEF SentOf
<1>11. Grows(said, t)
  <2>1. \A id : SentOf(said, id) \in Nat
    BY <1>7, SentIsNat
  <2>2. \A id \in 0..MaxCalls : SentOf(said, id) <= SentOf(t, id)
    BY <1>1, <1>10, <2>1
  <2>3. Len(said.calls) <= Len(t.calls)
    BY <1>7, <1>8 DEF Sane
  <2>4. QED
    BY <2>2, <2>3 DEF Grows
<1>12. Orderly(at.told, t) /\ at.told \in Seq(Told)
  BY <1>7, <1>9, <1>11, GrownOrderly DEF Orderly
<1>13. PICK e : e = Text(n)
  OBVIOUS
<1>14. e \in Told /\ e.id = 0 /\ e.frag = n /\ ~e.complete
  <2>1. e = [id |-> 0, frag |-> n, complete |-> FALSE]
    BY <1>13 DEF Text
  <2>2. QED
    BY <1>8, <2>1, OpenEvent
<1>15. PICK g : g = Audio(n)
  OBVIOUS
<1>16. g \in Told /\ g.id = -1 /\ ~g.complete
  <2>1. g = [id |-> -1, frag |-> n, complete |-> FALSE]
    BY <1>15 DEF Audio
  <2>2. -1 \in Int
    OBVIOUS
  <2>3. QED
    BY <1>8, <2>1, <2>2, OpenEvent
<1>17. Orderly(Append(at.told, e), t)
  <2>1. ASSUME NEW i \in 1..Len(at.told), at.told[i].id = e.id, e.id \in 0..MaxCalls
        PROVE  ~at.told[i].complete /\ (e.frag > 0 => at.told[i].frag < e.frag)
    <3>1. at.told[i] \in Told /\ at.told[i].id = 0
      BY <1>12, <1>14, <2>1
    <3>2. ~at.told[i].complete
      BY <1>7, <2>1, <3>1 DEF Knows
    <3>3. at.told[i].frag <= said.texts /\ at.told[i].frag \in Nat /\ said.texts \in Nat
      <4>1. at.told[i].frag <= SentOf(said, at.told[i].id)
        BY <1>7, <1>14, <2>1 DEF Orderly
      <4>2. QED
        BY <1>7, <1>10, <3>1, <4>1 DEF Told, Sane
    <3>4. QED
      BY <1>1, <1>14, <3>2, <3>3
  <2>2. e.frag <= SentOf(t, e.id)
    BY <1>8, <1>10, <1>14
  <2>3. QED
    BY <1>12, <1>14, <2>1, <2>2, OrderlyAppend
<1>18. Knows(at, t)
  BY <1>7, <1>9, <1>11, <1>12, KnowsMore DEF Grows
<1>19. /\ AtFields \subseteq DOMAIN b /\ b.ids = at.ids /\ b.stage = "reading"
       /\ \/ b.err = "none" /\ b.told = Append(at.told, e)
          \/ b.err # "none" /\ b.told = at.told
  BY <1>2, <1>7, <1>13, TellIds
<1>20. Orderly(b.told, t)
  BY <1>12, <1>17, <1>19
<1>21. ASSUME b.err = "none"
       PROVE  Knows(b, t) /\ Passed(b, t)
  <2>1. b.told = Append(at.told, e)
    BY <1>19, <1>21
  <2>2. e.id <= Len(t.calls)
    <3>1. Len(t.calls) \in Nat
      BY <1>9 DEF Sane
    <3>2. QED
      BY <1>14, <3>1
  <2>3. Knows(b, t)
    BY <1>12, <1>14, <1>18, <1>19, <2>1, <2>2, KnowsAppend
  <2>4. /\ \A id, k : Heard(at.told, id, k) => Heard(b.told, id, k)
        /\ \A id : Ends(at.told, id) => Ends(b.told, id)
        /\ Heard(b.told, 0, n)
    BY <1>12, <1>14, <2>1, AppendHears
  <2>5. ASSUME t.lost = 0, NEW id \in 0..Len(t.calls), NEW k \in 1..SentOf(t, id)
        PROVE  Heard(b.told, id, k)
    <3>1. CASE id # 0
      BY <1>7, <1>8, <1>10, <2>4, <2>5, <3>1 DEF Passed
    <3>2. CASE id = 0 /\ k # n
      <4>1. k \in 1..SentOf(said, 0)
        BY <1>1, <1>7, <1>10, <2>5, <3>2 DEF Sane
      <4>2. 0 \in 0..Len(said.calls)
        BY <1>7 DEF Sane
      <4>3. QED
        BY <1>7, <1>8, <2>4, <2>5, <3>2, <4>1, <4>2 DEF Passed
    <3>3. CASE id = 0 /\ k = n
      BY <2>4, <3>3
    <3>4. QED
      BY <3>1, <3>2, <3>3
  <2>6. Passed(b, t)
    BY <1>7, <1>8, <1>19, <2>4, <2>5 DEF Passed
  <2>7. QED
    BY <2>3, <2>6
<1>22. /\ AtFields \subseteq DOMAIN r /\ r.stage = "reading" /\ Orderly(r.told, t)
       /\ r.err = "none" => Knows(r, t) /\ Passed(r, t)
  <2>1. CASE r = b
    BY <1>19, <1>20, <1>21, <2>1
  <2>2. CASE r # b
    <3>1. r = speak(b, n)
      BY <1>3, <2>2
    <3>2. b.err = "none"
      BY <2>2, <3>1 DEF speak
    <3>3. Knows(b, t) /\ Passed(b, t) /\ Orderly(b.told, t) /\ b.told \in Seq(Told)
      BY <1>20, <1>21, <3>2 DEF Orderly
    <3>4. PICK c : c = tell(b, Audio(n))
      OBVIOUS
    <3>5. PICK u : u = [b EXCEPT !.err = "provider_error"]
      OBVIOUS
    <3>6. PICK v : v = [b EXCEPT !.err = ContextError(b)]
      OBVIOUS
    <3>7. PICK w : w = [c EXCEPT !.audio = @ + 1]
      OBVIOUS
    <3>8. r = u \/ r = v \/ r = w
      BY <3>1, <3>2, <3>4, <3>5, <3>6, <3>7 DEF speak
    <3>9. /\ AtFields \subseteq DOMAIN c /\ c.ids = b.ids /\ c.stage = "reading"
          /\ \/ c.err = "none" /\ c.told = Append(b.told, g)
             \/ c.err # "none" /\ c.told = b.told
      BY <1>15, <1>19, <3>2, <3>4, TellIds
    <3>10. AtFields \subseteq DOMAIN w /\ w.stage = "reading" /\ w.told = c.told /\ w.ids = c.ids /\ w.err = c.err
      BY <3>7, <3>9 DEF AtFields
    <3>11. /\ AtFields \subseteq DOMAIN u /\ u.stage = "reading" /\ u.told = b.told /\ u.ids = b.ids
           /\ AtFields \subseteq DOMAIN v /\ v.stage = "reading" /\ v.told = b.told /\ v.ids = b.ids
      BY <1>19, <3>5, <3>6 DEF AtFields
    <3>12. Knows(u, t) /\ Passed(u, t) /\ Knows(v, t) /\ Passed(v, t) /\ Orderly(u.told, t) /\ Orderly(v.told, t)
      BY <3>3, <3>11 DEF Knows, Passed
    <3>13. Orderly(c.told, t)
      <4>1. g.id \notin 0..MaxCalls
        BY <1>16
      <4>2. Orderly(Append(b.told, g), t)
        BY <1>16, <3>3, <4>1, OrderlyAppend
      <4>3. QED
        BY <3>3, <3>9, <4>2
    <3>14. w.err = "none" => Knows(w, t) /\ Passed(w, t)
      <4>1. SUFFICES ASSUME w.err = "none"
                     PROVE  Knows(w, t) /\ Passed(w, t)
        OBVIOUS
      <4>2. w.told = Append(b.told, g) /\ w.ids = b.ids
        BY <3>9, <3>10, <4>1
      <4>3. g.id <= Len(t.calls)
        <5>1. Len(t.calls) \in Nat
          BY <1>9 DEF Sane
        <5>2. QED
          BY <1>16, <5>1
      <4>4. Knows(w, t)
        BY <1>16, <3>3, <4>2, <4>3, KnowsAppend
      <4>5. /\ \A id, k : Heard(b.told, id, k) => Heard(w.told, id, k)
            /\ \A id : Ends(b.told, id) => Ends(w.told, id)
        BY <1>16, <3>3, <4>2, AppendHears
      <4>6. Passed(w, t)
        BY <3>3, <4>2, <4>5 DEF Passed
      <4>7. QED
        BY <4>4, <4>6
    <3>15. QED
      BY <3>8, <3>10, <3>11, <3>12, <3>13, <3>14
  <2>3. QED
    BY <2>1, <2>2
<1>23. QED
  BY <1>5, <1>8, <1>9, <1>11, <1>22, ArrivesAnswer

\* A new call is opened: its number is new, so nothing was said of it.
LEMMA OpensCallAnswer ==
  ASSUME AnswerInv, OpensCall
  PROVE  AnswerInv'
<1>1. PICK id : id = Len(said.calls) + 1
  OBVIOUS
<1>2. PICK b : b = [at EXCEPT !.ids[id] = id]
  OBVIOUS
<1>3. PICK r : r = tell(b, Fragment(id, 0))
  OBVIOUS
<1>4. PICK t : t = [said EXCEPT !.calls = Append(@, 0)]
  OBVIOUS
<1>5. Arrives(r, t) /\ Len(said.calls) < MaxCalls /\ ~said.finished
  BY <1>1, <1>2, <1>3, <1>4 DEF OpensCall
<1>6. Reading
  BY <1>5, ArrivesReads
<1>7. /\ AtFields \subseteq DOMAIN at /\ Sane(said) /\ Orderly(at.told, said)
      /\ at.stage = "reading" /\ at.err = "none" /\ Knows(at, said) /\ Passed(at, said)
  BY <1>6, ReadingAnswer
<1>8. /\ SaidFields \subseteq DOMAIN t /\ t.lost = said.lost /\ t.calls = Append(said.calls, 0) /\ t.texts = said.texts
      /\ t.closed = said.closed /\ t.finished = said.finished
  BY <1>4, <1>7 DEF Sane, SaidFields
<1>9. /\ said.calls \in Seq(Nat) /\ Len(said.calls) \in Nat /\ MaxCalls \in Nat /\ id \in 1..MaxCalls
      /\ t.calls \in Seq(Nat) /\ Len(t.calls) = id /\ t.calls[id] = 0
      /\ \A k \in 1..Len(said.calls) : t.calls[k] = said.calls[k]
  BY <1>1, <1>5, <1>7, <1>8, StreamAssumption DEF Sane
<1>10. Sane(t)
  BY <1>1, <1>5, <1>7, <1>8, <1>9 DEF Sane
<1>11. \A k : SentOf(t, k) = SentOf(said, k)
  <2>1. TAKE k
  <2>2. CASE k \in 1..Len(said.calls)
    BY <1>1, <1>8, <1>9, <2>2 DEF SentOf
  <2>3. CASE k = id
    BY <1>1, <1>8, <1>9, <2>3 DEF SentOf
  <2>4. CASE k \notin 1..Len(t.calls)
    BY <1>1, <1>8, <1>9, <2>4 DEF SentOf
  <2>5. k \in 1..Len(t.calls) => k \in 1..Len(said.calls) \/ k = id
    BY <1>1, <1>9
  <2>6. QED
    BY <2>2, <2>3, <2>4, <2>5
<1>12. \A k : SentOf(said, k) \in Nat
  BY <1>7, SentIsNat
<1>13. Grows(said, t)
  BY <1>1, <1>9, <1>11, <1>12 DEF Grows
<1>14. at.told \in Seq(Told) /\ \A i \in 1..Len(at.told) : at.told[i] \in Told /\ at.told[i].id \in Int /\ at.told[i].id # id
  <2>1. at.told \in Seq(Told)
    BY <1>7 DEF Orderly
  <2>2. \A i \in 1..Len(at.told) : at.told[i] \in Told /\ at.told[i].id <= Len(said.calls)
    BY <1>7, <2>1 DEF Knows
  <2>3. QED
    BY <1>1, <1>9, <2>1, <2>2 DEF Told
<1>15. /\ AtFields \subseteq DOMAIN b /\ b.stage = "reading" /\ b.told = at.told /\ b.err = "none"
       /\ b.ids = [at.ids EXCEPT ![id] = id]
  BY <1>2, <1>7 DEF AtFields
<1>16. at.ids \in [1..MaxCalls -> Nat] /\ b.ids \in [1..MaxCalls -> Nat]
       /\ b.ids[id] = id /\ \A k \in 1..MaxCalls : k # id => b.ids[k] = at.ids[k]
  BY <1>7, <1>9, <1>15 DEF Knows
<1>17. Knows(b, t)
  <2>1. \A k \in 1..MaxCalls : b.ids[k] # 0 => b.ids[k] = k /\ k <= Len(t.calls)
    <3>1. SUFFICES ASSUME NEW k \in 1..MaxCalls, b.ids[k] # 0
                   PROVE  b.ids[k] = k /\ k <= Len(t.calls)
      OBVIOUS
    <3>2. CASE k = id
      BY <1>9, <1>16, <3>2
    <3>3. CASE k # id
      <4>1. at.ids[k] = k /\ k <= Len(said.calls)
        BY <1>7, <1>16, <3>1, <3>3 DEF Knows
      <4>2. QED
        BY <1>1, <1>9, <1>16, <3>3, <4>1
    <3>4. QED
      BY <3>2, <3>3
  <2>2. \A i \in 1..Len(at.told) : at.told[i].id <= Len(t.calls)
    <3>1. \A i \in 1..Len(at.told) : at.told[i].id <= Len(said.calls)
      BY <1>7 DEF Knows
    <3>2. SUFFICES ASSUME NEW i \in 1..Len(at.told)
                   PROVE  at.told[i].id <= Len(t.calls)
      OBVIOUS
    <3>3. PICK z : z = at.told[i].id
      OBVIOUS
    <3>4. z \in Int /\ z <= Len(said.calls)
      BY <1>14, <3>1, <3>3
    <3>5. z <= id
      BY <1>1, <1>9, <3>4
    <3>6. QED
      BY <1>9, <3>3, <3>5
  <2>3. \A i \in 1..Len(at.told) : at.told[i].complete => at.told[i].id \in 1..MaxCalls /\ b.ids[at.told[i].id] = 0
    BY <1>7, <1>14, <1>16 DEF Knows
  <2>4. QED
    BY <1>15, <1>16, <2>1, <2>2, <2>3 DEF Knows
<1>18. Passed(b, t)
  <2>1. SUFFICES ASSUME t.lost = 0
                 PROVE  /\ \A k \in 0..Len(t.calls) : \A n \in 1..SentOf(t, k) : Heard(b.told, k, n)
                        /\ \A k \in 1..t.closed : Ends(b.told, k)
                        /\ \A k \in (t.closed + 1)..Len(t.calls) : b.ids[k] = k
    BY DEF Passed
  <2>2. /\ \A k \in 0..Len(said.calls) : \A n \in 1..SentOf(said, k) : Heard(at.told, k, n)
        /\ \A k \in 1..said.closed : Ends(at.told, k)
        /\ \A k \in (said.closed + 1)..Len(said.calls) : at.ids[k] = k
    BY <1>7, <1>8, <2>1 DEF Passed
  <2>3. SentOf(t, id) = 0
    BY <1>9 DEF SentOf
  <2>4. \A k \in 0..Len(t.calls) : k \in 0..Len(said.calls) \/ k = id
    BY <1>1, <1>9
  <2>5. ASSUME NEW k \in 0..Len(t.calls), NEW n \in 1..SentOf(t, k)
        PROVE  Heard(b.told, k, n)
    <3>1. CASE k = id
      BY <2>3, <2>5, <3>1
    <3>2. CASE k \in 0..Len(said.calls)
      BY <1>11, <1>15, <2>2, <2>5, <3>2
    <3>3. QED
      BY <2>4, <2>5, <3>1, <3>2
  <2>6. ASSUME NEW k \in (t.closed + 1)..Len(t.calls)
        PROVE  b.ids[k] = k
    <3>1. said.closed \in 0..Len(said.calls)
      BY <1>7 DEF Sane
    <3>2. k = id \/ (k \in (said.closed + 1)..Len(said.calls) /\ k \in 1..MaxCalls /\ k # id)
      BY <1>1, <1>8, <1>9, <2>6, <3>1
    <3>3. QED
      BY <1>16, <2>2, <3>2
  <2>7. QED
    BY <1>8, <1>15, <2>2, <2>5, <2>6
<1>19. PICK e : e = Fragment(id, 0)
  OBVIOUS
<1>20. e \in Told /\ e.id = id /\ e.frag = 0 /\ ~e.complete
  <2>1. e = [id |-> id, frag |-> 0, complete |-> FALSE]
    BY <1>19 DEF Fragment
  <2>2. id \in Int
    BY <1>9
  <2>3. QED
    BY <2>1, <2>2, OpenEvent
<1>21. Orderly(b.told, t) /\ Orderly(Append(b.told, e), t)
  <2>1. Orderly(b.told, t)
    BY <1>7, <1>10, <1>13, <1>15, GrownOrderly
  <2>2. e.frag <= SentOf(t, e.id)
    BY <1>11, <1>12, <1>20
  <2>3. QED
    BY <1>14, <1>15, <1>20, <2>1, <2>2, OrderlyAppend
<1>22. /\ AtFields \subseteq DOMAIN r /\ r.ids = b.ids /\ r.stage = "reading"
       /\ \/ r.err = "none" /\ r.told = Append(b.told, e)
          \/ r.err # "none" /\ r.told = b.told
  BY <1>3, <1>15, <1>19, TellIds
<1>23. ASSUME r.err = "none"
       PROVE  Knows(r, t) /\ Passed(r, t)
  <2>1. r.told = Append(b.told, e) /\ r.ids = b.ids
    BY <1>22, <1>23
  <2>2. e.id <= Len(t.calls)
    BY <1>9, <1>20
  <2>3. Knows(r, t)
    BY <1>14, <1>15, <1>17, <1>20, <2>1, <2>2, KnowsAppend
  <2>4. /\ \A k, n : Heard(b.told, k, n) => Heard(r.told, k, n)
        /\ \A k : Ends(b.told, k) => Ends(r.told, k)
    BY <1>14, <1>15, <1>20, <2>1, AppendHears
  <2>5. Passed(r, t)
    BY <1>18, <2>1, <2>4 DEF Passed
  <2>6. QED
    BY <2>3, <2>5
<1>24. QED
  BY <1>5, <1>8, <1>10, <1>13, <1>21, <1>22, <1>23, ArrivesAnswer

\* A piece of a call's arguments goes to the call of its index, after all the
\* pieces the reader has passed on of it.
LEMMA SendsArgumentsAnswer ==
  ASSUME AnswerInv, NEW k \in 1..MaxCalls, SendsArguments(k)
  PROVE  AnswerInv'
<1>1. PICK n : n = said.calls[k] + 1
  OBVIOUS
<1>2. PICK r : r = fragment(at, k, n)
  OBVIOUS
<1>3. PICK t : t = [said EXCEPT !.calls[k] = n]
  OBVIOUS
<1>4. Arrives(r, t) /\ k \in DOMAIN said.calls /\ k > said.closed
  BY <1>1, <1>2, <1>3 DEF SendsArguments
<1>5. Reading
  BY <1>4, ArrivesReads
<1>6. /\ AtFields \subseteq DOMAIN at /\ Sane(said) /\ Orderly(at.told, said)
      /\ at.stage = "reading" /\ at.err = "none" /\ Knows(at, said) /\ Passed(at, said)
  BY <1>5, ReadingAnswer
<1>7. /\ SaidFields \subseteq DOMAIN t /\ t.lost = said.lost /\ t.calls = [said.calls EXCEPT ![k] = n] /\ t.texts = said.texts
      /\ t.closed = said.closed /\ t.finished = said.finished
  BY <1>3, <1>6 DEF Sane, SaidFields
<1>8. /\ said.calls \in Seq(Nat) /\ Len(said.calls) \in Nat /\ k \in 1..Len(said.calls) /\ said.calls[k] \in Nat /\ n \in Nat
  BY <1>1, <1>4, <1>6 DEF Sane
<1>9. /\ t.calls \in Seq(Nat) /\ Len(t.calls) = Len(said.calls) /\ t.calls[k] = n
      /\ \A j \in 1..Len(said.calls) : j # k => t.calls[j] = said.calls[j]
  BY <1>7, <1>8
<1>10. Sane(t)
  BY <1>6, <1>7, <1>9 DEF Sane
<1>11. /\ SentOf(t, k) = n /\ SentOf(said, k) = said.calls[k]
       /\ \A j : j # k => SentOf(t, j) = SentOf(said, j)
  BY <1>7, <1>8, <1>9 DEF SentOf
<1>12. \A j : SentOf(said, j) \in Nat
  BY <1>6, SentIsNat
<1>13. Grows(said, t)
  <2>1. \A j \in 0..MaxCalls : SentOf(said, j) <= SentOf(t, j)
    BY <1>1, <1>8, <1>11, <1>12
  <2>2. QED
    BY <1>8, <1>9, <2>1 DEF Grows
<1>14. at.told \in Seq(Told) /\ Orderly(at.told, t)
  BY <1>6, <1>10, <1>13, GrownOrderly DEF Orderly
<1>15. Knows(at, t)
  BY <1>6, <1>9, <1>10, <1>14, <1>8, KnowsMore
<1>16. CASE at.ids[k] = 0
  <2>1. r = at
    BY <1>2, <1>16 DEF fragment
  <2>2. said.lost # 0
    <3>1. said.lost = 0 => at.ids[k] = k
      <4>1. k \in (said.closed + 1)..Len(said.calls)
        BY <1>4, <1>6, <1>8 DEF Sane
      <4>2. QED
        BY <1>6, <4>1 DEF Passed
    <3>2. QED
      BY <1>16, <3>1
  <2>3. Passed(at, t)
    BY <1>7, <2>2 DEF Passed
  <2>4. QED
    BY <1>4, <1>6, <1>7, <1>10, <1>13, <1>14, <1>15, <2>1, <2>3, ArrivesAnswer
<1>17. CASE at.ids[k] # 0
  <2>1. at.ids[k] = k
    BY <1>6, <1>17 DEF Knows
  <2>2. PICK e : e = Fragment(k, n)
    OBVIOUS
  <2>3. r = tell(at, e)
    BY <1>2, <1>17, <2>1, <2>2 DEF fragment
  <2>4. e \in Told /\ e.id = k /\ e.frag = n /\ ~e.complete
    <3>1. e = [id |-> k, frag |-> n, complete |-> FALSE]
      BY <2>2 DEF Fragment
    <3>2. QED
      BY <1>8, <3>1, OpenEvent
  <2>5. Orderly(Append(at.told, e), t)
    <3>1. ASSUME NEW i \in 1..Len(at.told), at.told[i].id = e.id, e.id \in 0..MaxCalls
          PROVE  ~at.told[i].complete /\ (e.frag > 0 => at.told[i].frag < e.frag)
      <4>1. at.told[i] \in Told /\ at.told[i].id = k
        BY <1>14, <2>4, <3>1
      <4>2. ~at.told[i].complete
        BY <1>6, <1>17, <3>1, <4>1 DEF Knows
      <4>3. at.told[i].frag <= SentOf(said, at.told[i].id)
        BY <1>6, <2>4, <3>1 DEF Orderly
      <4>4. at.told[i].frag <= said.calls[k] /\ at.told[i].frag \in Nat
        BY <1>11, <4>1, <4>3 DEF Told
      <4>5. QED
        BY <1>1, <1>8, <2>4, <4>2, <4>4
    <3>2. e.frag <= SentOf(t, e.id)
      BY <1>8, <1>11, <2>4
    <3>3. QED
      BY <1>14, <2>4, <3>1, <3>2, OrderlyAppend
  <2>6. /\ AtFields \subseteq DOMAIN r /\ r.ids = at.ids /\ r.stage = "reading"
        /\ \/ r.err = "none" /\ r.told = Append(at.told, e)
           \/ r.err # "none" /\ r.told = at.told
    BY <1>6, <2>3, TellIds
  <2>7. ASSUME r.err = "none"
        PROVE  Knows(r, t) /\ Passed(r, t)
    <3>1. r.told = Append(at.told, e) /\ r.ids = at.ids
      BY <2>6, <2>7
    <3>2. e.id <= Len(t.calls)
      BY <1>8, <1>9, <2>4
    <3>3. Knows(r, t)
      BY <1>14, <1>15, <2>4, <3>1, <3>2, KnowsAppend
    <3>4. /\ \A j, m : Heard(at.told, j, m) => Heard(r.told, j, m)
          /\ \A j : Ends(at.told, j) => Ends(r.told, j)
          /\ Heard(r.told, k, n)
      BY <1>14, <2>4, <3>1, AppendHears
    <3>5. ASSUME t.lost = 0, NEW j \in 0..Len(t.calls), NEW m \in 1..SentOf(t, j)
          PROVE  Heard(r.told, j, m)
      <4>1. CASE j # k
        BY <1>6, <1>7, <1>9, <1>11, <3>4, <3>5, <4>1 DEF Passed
      <4>2. CASE j = k /\ m # n
        <5>1. m \in 1..SentOf(said, k) /\ k \in 0..Len(said.calls)
          BY <1>1, <1>8, <1>11, <3>5, <4>2
        <5>2. QED
          BY <1>6, <1>7, <3>4, <3>5, <4>2, <5>1 DEF Passed
      <4>3. CASE j = k /\ m = n
        BY <3>4, <4>3
      <4>4. QED
        BY <4>1, <4>2, <4>3
    <3>6. Passed(r, t)
      BY <1>6, <1>7, <1>9, <3>1, <3>4, <3>5 DEF Passed
    <3>7. QED
      BY <3>3, <3>6
  <2>8. Orderly(r.told, t)
    BY <1>14, <2>5, <2>6
  <2>9. QED
    BY <1>4, <1>7, <1>10, <1>13, <2>6, <2>7, <2>8, ArrivesAnswer
<1>18. QED
  BY <1>16, <1>17

-----------------------------------------------------------------------------
\* Steps that say nothing to the caller, and that add nothing to the answer.
SameTalk(a, x) ==
  AtFields \subseteq DOMAIN x /\ x.told = a.told /\ x.ids = a.ids /\ x.stage = a.stage /\ x.call = a.call
SameCalls(s, t) ==
  /\ SaidFields \subseteq DOMAIN t /\ t.lost = s.lost /\ t.calls = s.calls /\ t.texts = s.texts
  /\ t.closed = s.closed /\ t.finished = s.finished

LEMMA SameCallsSane ==
  ASSUME NEW s, NEW t, Sane(s), SameCalls(s, t)
  PROVE  Sane(t) /\ Grows(s, t) /\ (\A id : SentOf(t, id) = SentOf(s, id))
<1>1. Sane(t) /\ \A id : SentOf(t, id) = SentOf(s, id)
  BY DEF Sane, SameCalls, SentOf
<1>2. \A id : SentOf(s, id) \in Nat
  BY SentIsNat
<1>3. Len(s.calls) <= Len(t.calls)
  BY DEF Sane, SameCalls
<1>4. Grows(s, t)
  BY <1>1, <1>2, <1>3 DEF Grows
<1>5. QED
  BY <1>1, <1>4

LEMMA SameTalkKept ==
  ASSUME NEW a, NEW x, NEW s, NEW t, Sane(s), Knows(a, s), Passed(a, s), SameTalk(a, x), SameCalls(s, t)
  PROVE  Knows(x, t) /\ Passed(x, t)
<1>1. \A id : SentOf(t, id) = SentOf(s, id)
  BY SameCallsSane
<1>2. QED
  BY <1>1 DEF Knows, Passed, SameTalk, SameCalls

\* A frame that only counts.
LEMMA CountingAnswer ==
  ASSUME AnswerInv, NEW r, NEW t, Arrives(r, t), SameTalk(at, r), SameCalls(said, t)
  PROVE  AnswerInv'
<1>1. Reading
  BY ArrivesReads
<1>2. /\ AtFields \subseteq DOMAIN at /\ Sane(said) /\ Orderly(at.told, said)
      /\ at.stage = "reading" /\ Knows(at, said) /\ Passed(at, said)
  BY <1>1, ReadingAnswer
<1>3. Sane(t) /\ Grows(said, t)
  BY <1>2, SameCallsSane
<1>4. Orderly(r.told, t)
  BY <1>2, <1>3, GrownOrderly DEF SameTalk
<1>5. Knows(r, t) /\ Passed(r, t)
  BY <1>2, SameTalkKept
<1>6. AtFields \subseteq DOMAIN r /\ r.stage = "reading" /\ t.lost = said.lost
  BY <1>2 DEF SameTalk, SameCalls
<1>7. QED
  BY <1>3, <1>4, <1>5, <1>6, ArrivesAnswer

LEMMA BeginsAnswer ==
  ASSUME AnswerInv, NEW counts, Begins(counts)
  PROVE  AnswerInv'
<1>1. PICK r : r = [at EXCEPT !.meter = absorb(@, Opening(counts), FALSE)]
  OBVIOUS
<1>2. PICK t : t = [said EXCEPT !.begun = TRUE, !.counts = counts]
  OBVIOUS
<1>3. Arrives(r, t)
  BY <1>1, <1>2 DEF Begins
<1>4. AtFields \subseteq DOMAIN at /\ SaidFields \subseteq DOMAIN said
  BY DEF AnswerInv, AnswerState, Sane
<1>5. SameTalk(at, r)
  BY <1>1, <1>4 DEF SameTalk, AtFields
<1>6. SameCalls(said, t)
  BY <1>2, <1>4 DEF SameCalls, SaidFields
<1>7. QED
  BY <1>3, <1>5, <1>6, CountingAnswer

LEMMA CountSame ==
  ASSUME NEW a, AtFields \subseteq DOMAIN a, NEW counts
  PROVE  SameTalk(a, count(a, counts))
<1>1. PICK u : u = IF a.call.path = "spoken" THEN spokenUnits(counts) ELSE normalizeUsage(counts)
  OBVIOUS
<1>2. PICK x : x = [a EXCEPT !.err = "provider_error"]
  OBVIOUS
<1>3. PICK y : y = [a EXCEPT !.units = u, !.source = "reported"]
  OBVIOUS
<1>4. count(a, counts) = IF u = Unstated THEN x ELSE y
  BY <1>1, <1>2, <1>3 DEF count
<1>5. SameTalk(a, x) /\ SameTalk(a, y)
  BY <1>2, <1>3 DEF SameTalk, AtFields
<1>6. QED
  BY <1>4, <1>5

LEMMA SendsUsageAnswer ==
  ASSUME AnswerInv, NEW counts, SendsUsage(counts)
  PROVE  AnswerInv'
<1>1. PICK r : r = count(at, counts)
  OBVIOUS
<1>2. PICK t : t = [said EXCEPT !.counts = counts, !.final = TRUE]
  OBVIOUS
<1>3. Arrives(r, t)
  BY <1>1, <1>2 DEF SendsUsage
<1>4. AtFields \subseteq DOMAIN at /\ SaidFields \subseteq DOMAIN said
  BY DEF AnswerInv, AnswerState, Sane
<1>5. SameTalk(at, r)
  BY <1>1, <1>4, CountSame
<1>6. SameCalls(said, t)
  BY <1>2, <1>4 DEF SameCalls, SaidFields
<1>7. QED
  BY <1>3, <1>5, <1>6, CountingAnswer

\* An answer its provider has finished and that was all read is entire.
LEMMA EndsStreamAnswer ==
  ASSUME AnswerInv, EndsStream
  PROVE  AnswerInv'
<1>1. PICK t : t = [said EXCEPT !.done = TRUE]
  OBVIOUS
<1>2. Reading /\ said.finished /\ said' = t /\ at' = finished(at, TRUE)
  BY <1>1 DEF EndsStream
<1>3. AtFields \subseteq DOMAIN at /\ Sane(said) /\ Orderly(at.told, said) /\ Passed(at, said)
  BY <1>2, ReadingAnswer
<1>4. SameCalls(said, t)
  BY <1>1, <1>3 DEF SameCalls, SaidFields, Sane
<1>5. t.done
  BY <1>1, <1>3, Zenon DEF SaidFields, Sane
<1>6. Sane(t) /\ Grows(said, t) /\ \A id : SentOf(t, id) = SentOf(said, id)
  BY <1>3, <1>4, SameCallsSane
<1>7. Orderly(at.told, t)
  BY <1>3, <1>6, GrownOrderly
<1>8. t.lost = 0 => Entire(at.told, t)
  <2>1. SUFFICES ASSUME t.lost = 0
                 PROVE  Entire(at.told, t)
    OBVIOUS
  <2>2. said.closed = Len(said.calls) /\ t.calls = said.calls /\ said.lost = 0 /\ Len(said.calls) \in Nat
    BY <1>2, <1>3, <1>4, <2>1 DEF Sane, SameCalls
  <2>3. \A id \in 0..Len(said.calls) : id # 0 => id \in 1..said.closed
    BY <2>2
  <2>4. QED
    BY <1>3, <1>6, <2>2, <2>3 DEF Passed, Entire
<1>9. AnswerState(finished(at, TRUE), t)
  BY <1>3, <1>5, <1>6, <1>7, <1>8, FinishedAnswer
<1>10. AnswerState(at', said')
  BY <1>2, <1>9
<1>11. QED
  BY <1>10, AnswerPrimed

LEMMA BreaksAnswer ==
  ASSUME AnswerInv, NEW r, Breaks(r)
  PROVE  AnswerInv'
<1>1. PICK b : b = [at EXCEPT !.failure = Blame(at, r)]
  OBVIOUS
<1>2. PICK t : t = [said EXCEPT !.cause = r.cause]
  OBVIOUS
<1>3. Reading /\ at' = EndedStream(b, "upstream") /\ said' = t
  BY <1>1, <1>2 DEF Breaks
<1>4. AtFields \subseteq DOMAIN at /\ Sane(said) /\ Orderly(at.told, said)
  BY <1>3, ReadingAnswer
<1>5. SameTalk(at, b)
  BY <1>1, <1>4 DEF SameTalk, AtFields
<1>6. SameCalls(said, t)
  BY <1>2, <1>4 DEF SameCalls, SaidFields, Sane
<1>7. Sane(t) /\ Grows(said, t)
  BY <1>4, <1>6, SameCallsSane
<1>8. Orderly(b.told, t) /\ AtFields \subseteq DOMAIN b
  BY <1>4, <1>5, <1>7, GrownOrderly DEF SameTalk
<1>9. AnswerState(EndedStream(b, "upstream"), t)
  BY <1>7, <1>8, FailedAnswer
<1>10. AnswerState(at', said')
  BY <1>3, <1>9
<1>11. QED
  BY <1>10, AnswerPrimed

LEMMA CutAnswer ==
  ASSUME AnswerInv, NEW clean, Cut(clean)
  PROVE  AnswerInv'
<1>1. /\ Reading /\ said' = said
      /\ at' = IF clean THEN finished(at, FALSE) ELSE EndedStream(at, TransportFailure(at))
  BY DEF Cut
<1>2. AtFields \subseteq DOMAIN at /\ Sane(said) /\ Orderly(at.told, said)
  BY <1>1, ReadingAnswer
<1>3. AnswerState(finished(at, FALSE), said)
  BY <1>2, FinishedAnswer
<1>4. AnswerState(EndedStream(at, TransportFailure(at)), said)
  BY <1>2, FailuresAreErrors, FailedAnswer
<1>5. AnswerState(at', said')
  <2>1. CASE clean
    BY <1>1, <1>3, <2>1
  <2>2. CASE ~clean
    BY <1>1, <1>4, <2>2
  <2>3. QED
    BY <2>1, <2>2
<1>6. QED
  BY <1>5, AnswerPrimed

LEMMA WithdrawsAnswer ==
  ASSUME AnswerInv, NEW how, Withdraws(how)
  PROVE  AnswerInv'
<1>1. PICK x : x = [at EXCEPT !.ctx = how]
  OBVIOUS
<1>2. at' = x /\ said' = said
  BY <1>1 DEF Withdraws
<1>3. SameTalk(at, x) /\ x.err = at.err
  BY <1>1 DEF AnswerInv, AnswerState, SameTalk, AtFields
<1>4. AnswerState(x, said)
  BY <1>3 DEF AnswerInv, AnswerState, SameTalk, Silent, Knows, Passed
<1>5. AnswerState(at', said')
  BY <1>2, <1>4
<1>6. QED
  BY <1>5, AnswerPrimed

LEMMA SendsAnswer ==
  ASSUME AnswerInv, NEW q, Sends(q)
  PROVE  AnswerInv'
<1>1. PICK c : c = Translate(q, q.route)
  OBVIOUS
<1>2. PICK st : st = IF c.refused # "no" THEN "refused" ELSE IF c.path = "embeddings" THEN "embedding" ELSE "sent"
  OBVIOUS
<1>3. PICK x : x = [at EXCEPT !.q = q, !.call = c, !.customer = q.customer, !.stage = st]
  OBVIOUS
<1>4. at.stage = "idle" /\ at' = x /\ said' = said
  BY <1>1, <1>2, <1>3 DEF Sends
<1>5. AtFields \subseteq DOMAIN at /\ Sane(said) /\ Orderly(at.told, said) /\ Silent(at, said)
  BY <1>4, SilentAnswer
<1>6. AtFields \subseteq DOMAIN x /\ x.stage = st /\ x.told = at.told /\ x.err = at.err /\ x.ids = at.ids /\ x.call = c
  BY <1>3, <1>5 DEF AtFields
<1>7. st \in {"refused", "embedding", "sent"} /\ (st = "embedding" => c.path = "embeddings")
  BY <1>2
<1>8. AnswerState(x, said)
  BY <1>5, <1>6, <1>7 DEF AnswerState, Silent
<1>9. AnswerState(at', said')
  BY <1>4, <1>8
<1>10. QED
  BY <1>9, AnswerPrimed

LEMMA RefusesAnswer ==
  ASSUME AnswerInv, NEW r, Refuses(r)
  PROVE  AnswerInv'
<1>1. PICK b : b = [at EXCEPT !.failure = Blame(at, r)]
  OBVIOUS
<1>2. PICK t : t = [said EXCEPT !.cause = r.cause]
  OBVIOUS
<1>3. at.stage \in {"sent", "embedding"} /\ at' = Ended(b, "upstream") /\ said' = t
  BY <1>1, <1>2 DEF Refuses
<1>4. AtFields \subseteq DOMAIN at /\ Sane(said) /\ Orderly(at.told, said)
  BY <1>3, SilentAnswer
<1>5. SameTalk(at, b)
  BY <1>1, <1>4 DEF SameTalk, AtFields
<1>6. SameCalls(said, t)
  BY <1>2, <1>4 DEF SameCalls, SaidFields, Sane
<1>7. Sane(t) /\ Grows(said, t)
  BY <1>4, <1>6, SameCallsSane
<1>8. Orderly(b.told, t) /\ AtFields \subseteq DOMAIN b
  BY <1>4, <1>5, <1>7, GrownOrderly DEF SameTalk
<1>9. AnswerState(Ended(b, "upstream"), t)
  BY <1>7, <1>8, FailedAnswer
<1>10. AnswerState(at', said')
  BY <1>3, <1>9
<1>11. QED
  BY <1>10, AnswerPrimed

LEMMA UnansweredAnswer ==
  ASSUME AnswerInv, Unanswered \/ CutWhole
  PROVE  AnswerInv'
<1>1. PICK err : at.stage \in {"sent", "embedding"} /\ at' = Ended(at, err) /\ said' = said /\ err # "none"
  <2>1. CASE Unanswered
    BY <2>1, FailuresAreErrors DEF Unanswered
  <2>2. CASE CutWhole
    <3>1. PICK e : e = IF at.ctx = "live" THEN "unclassified" ELSE ContextError(at)
      OBVIOUS
    <3>2. e # "none"
      BY <3>1, FailuresAreErrors
    <3>3. QED
      BY <2>2, <3>1, <3>2 DEF CutWhole
  <2>3. QED
    BY <2>1, <2>2
<1>2. AtFields \subseteq DOMAIN at /\ Sane(said) /\ Orderly(at.told, said)
  BY <1>1, SilentAnswer
<1>3. AnswerState(Ended(at, err), said)
  BY <1>1, <1>2, FailedAnswer
<1>4. AnswerState(at', said')
  BY <1>1, <1>3
<1>5. QED
  BY <1>4, AnswerPrimed

LEMMA AnswersAnswer ==
  ASSUME AnswerInv, Answers
  PROVE  AnswerInv'
<1>1. PICK e : e = Start(at.em)
  OBVIOUS
<1>2. PICK x : x = [at EXCEPT !.em = e]
  OBVIOUS
<1>3. PICK y : y = [at EXCEPT !.em = e, !.stage = "reading"]
  OBVIOUS
<1>4. at.stage = "sent" /\ said' = said /\ at' = IF e.err # "none" THEN Ended(x, "sink") ELSE y
  BY <1>1, <1>2, <1>3 DEF Answers
<1>5. AtFields \subseteq DOMAIN at /\ Sane(said) /\ Orderly(at.told, said) /\ Silent(at, said)
  BY <1>4, SilentAnswer
<1>6. AtFields \subseteq DOMAIN x /\ x.told = at.told
  BY <1>2, <1>5 DEF AtFields
<1>7. AnswerState(Ended(x, "sink"), said)
  BY <1>5, <1>6, FailedAnswer
<1>8. /\ AtFields \subseteq DOMAIN y /\ y.stage = "reading" /\ y.told = <<>> /\ y.ids = [i \in 1..MaxCalls |-> 0]
      /\ y.err = "none"
  BY <1>3, <1>5 DEF AtFields, Silent
<1>9. Orderly(y.told, said)
  BY <1>5, <1>8 DEF Silent
<1>10. Knows(y, said)
  BY <1>8 DEF Knows
<1>11. Passed(y, said)
  <2>1. said.closed = 0 /\ Len(said.calls) = 0 /\ \A id : SentOf(said, id) = 0
    BY <1>5 DEF Silent, SentOf
  <2>2. QED
    BY <2>1 DEF Passed
<1>12. AnswerState(y, said)
  BY <1>5, <1>8, <1>9, <1>10, <1>11 DEF AnswerState
<1>13. AnswerState(at', said')
  BY <1>4, <1>7, <1>12
<1>14. QED
  BY <1>13, AnswerPrimed

LEMMA AnswersVectorsAnswer ==
  ASSUME AnswerInv, NEW valid, AnswersVectors(valid)
  PROVE  AnswerInv'
<1>1. PICK a : a = Ended(at, "none")
  OBVIOUS
<1>2. PICK b : b = Ended(at, "provider_error")
  OBVIOUS
<1>3. PICK x : x = [a EXCEPT !.source = "reported", !.finish = "stop"]
  OBVIOUS
<1>4. PICK y : y = [b EXCEPT !.source = "reported"]
  OBVIOUS
<1>5. PICK t : t = [said EXCEPT !.done = valid]
  OBVIOUS
<1>6. at.stage = "embedding" /\ said' = t /\ at' = IF valid THEN x ELSE y
  BY <1>1, <1>2, <1>3, <1>4, <1>5 DEF AnswersVectors
<1>7. AtFields \subseteq DOMAIN at /\ Sane(said) /\ Orderly(at.told, said) /\ Silent(at, said)
  BY <1>6, SilentAnswer
<1>8. at.call.path = "embeddings"
  BY <1>6, <1>7 DEF Silent
<1>9. AtFields \subseteq DOMAIN a /\ a.stage = "ended" /\ a.told = at.told /\ a.call = at.call
  BY <1>1, <1>7, EndedTold
<1>10. AtFields \subseteq DOMAIN b /\ b.stage = "ended" /\ b.told = at.told /\ b.err = "provider_error"
  BY <1>2, <1>7, EndedTold
<1>11. AtFields \subseteq DOMAIN x /\ x.stage = "ended" /\ x.told = at.told /\ x.call.path = "embeddings"
  BY <1>3, <1>8, <1>9 DEF AtFields
<1>12. AtFields \subseteq DOMAIN y /\ y.stage = "ended" /\ y.told = at.told /\ y.err = "provider_error"
  BY <1>4, <1>10 DEF AtFields
<1>13. SameCalls(said, t)
  BY <1>5, <1>7 DEF SameCalls, SaidFields, Sane
<1>14. t.done = valid
  BY <1>5, <1>7, Zenon DEF SaidFields, Sane
<1>15. Sane(t) /\ Orderly(at.told, t)
  BY <1>7, <1>13, SameCallsSane, GrownOrderly
<1>16. AnswerState(y, t)
  BY <1>12, <1>15 DEF AnswerState
<1>17. valid => AnswerState(x, t)
  BY <1>11, <1>14, <1>15 DEF AnswerState
<1>18. AnswerState(at', said')
  BY <1>6, <1>16, <1>17
<1>19. QED
  BY <1>18, AnswerPrimed

-----------------------------------------------------------------------------
\* The end of a block completes its own call, which the reader then forgets.
LEMMA ClosesBlockAnswer ==
  ASSUME AnswerInv, ClosesBlock
  PROVE  AnswerInv'
<1>1. PICK k : k = said.closed + 1
  OBVIOUS
<1>2. PICK b : b = tell(at, Completed(at.ids[k]))
  OBVIOUS
<1>3. PICK c : c = [b EXCEPT !.ids[k] = 0]
  OBVIOUS
<1>4. PICK r : r = IF at.ids[k] = 0 THEN at ELSE c
  OBVIOUS
<1>5. PICK t : t = [said EXCEPT !.closed = k]
  OBVIOUS
<1>6. Arrives(r, t) /\ said.closed < Len(said.calls) /\ ~said.finished
  BY <1>1, <1>2, <1>3, <1>4, <1>5 DEF ClosesBlock
<1>7. Reading
  BY <1>6, ArrivesReads
<1>8. /\ AtFields \subseteq DOMAIN at /\ Sane(said) /\ Orderly(at.told, said)
      /\ at.stage = "reading" /\ at.err = "none" /\ Knows(at, said) /\ Passed(at, said)
  BY <1>7, ReadingAnswer
<1>9. /\ SaidFields \subseteq DOMAIN t /\ t.lost = said.lost /\ t.calls = said.calls /\ t.texts = said.texts
      /\ t.closed = k /\ t.finished = said.finished
  BY <1>5, <1>8 DEF Sane, SaidFields
<1>10. /\ said.closed \in Nat /\ Len(said.calls) \in Nat /\ MaxCalls \in Nat /\ Len(said.calls) <= MaxCalls
       /\ k \in 1..Len(said.calls) /\ k \in 1..MaxCalls
  BY <1>1, <1>6, <1>8, StreamAssumption DEF Sane
<1>11. Sane(t)
  BY <1>6, <1>8, <1>9, <1>10 DEF Sane
<1>12. \A id : SentOf(t, id) = SentOf(said, id) /\ SentOf(said, id) \in Nat
  BY <1>8, <1>9, SentIsNat DEF SentOf
<1>13. Grows(said, t)
  BY <1>9, <1>10, <1>12 DEF Grows
<1>14. at.told \in Seq(Told) /\ Orderly(at.told, t)
  BY <1>8, <1>11, <1>13, GrownOrderly DEF Orderly
<1>15. CASE at.ids[k] = 0
  <2>1. r = at
    BY <1>4, <1>15
  <2>2. k \in (said.closed + 1)..Len(said.calls)
    BY <1>1, <1>10
  <2>3. said.lost # 0
    BY <1>8, <1>10, <1>15, <2>2 DEF Passed
  <2>4. Passed(at, t)
    BY <1>9, <2>3 DEF Passed
  <2>5. Knows(at, t)
    BY <1>8, <1>9 DEF Knows
  <2>6. QED
    BY <1>6, <1>8, <1>9, <1>11, <1>13, <1>14, <2>1, <2>4, <2>5, ArrivesAnswer
<1>16. CASE at.ids[k] # 0
  <2>1. at.ids[k] = k
    BY <1>8, <1>10, <1>16 DEF Knows
  <2>2. PICK e : e = Completed(k)
    OBVIOUS
  <2>3. b = tell(at, e) /\ r = c
    BY <1>2, <1>4, <1>16, <2>1, <2>2
  <2>4. e \in Told /\ e.id = k /\ e.frag = 0 /\ e.complete
    <3>1. e = [id |-> k, frag |-> 0, complete |-> TRUE]
      BY <2>2 DEF Completed
    <3>2. k \in Int
      BY <1>10
    <3>3. QED
      BY <3>1, <3>2, ClosingEvent
  <2>5. /\ AtFields \subseteq DOMAIN b /\ b.ids = at.ids /\ b.stage = "reading"
        /\ \/ b.err = "none" /\ b.told = Append(at.told, e)
           \/ b.err # "none" /\ b.told = at.told
    BY <1>8, <2>3, TellIds
  <2>6. /\ AtFields \subseteq DOMAIN c /\ c.ids = [at.ids EXCEPT ![k] = 0] /\ c.stage = "reading"
        /\ c.err = b.err /\ c.told = b.told
    BY <1>3, <2>5 DEF AtFields
  <2>7. Orderly(Append(at.told, e), t)
    <3>1. ASSUME NEW i \in 1..Len(at.told), at.told[i].id = e.id
          PROVE  ~at.told[i].complete
      BY <1>8, <1>16, <2>4, <3>1 DEF Knows
    <3>2. e.frag <= SentOf(t, e.id) /\ ~(e.frag > 0)
      BY <1>12, <2>4
    <3>3. QED
      BY <1>14, <2>4, <3>1, <3>2, OrderlyAppend
  <2>8. Orderly(c.told, t)
    BY <1>14, <2>5, <2>6, <2>7
  <2>9. PICK y : y = [at EXCEPT !.ids[k] = 0]
    OBVIOUS
  <2>10. y.told = at.told /\ y.ids = [at.ids EXCEPT ![k] = 0]
    BY <1>8, <2>9 DEF AtFields
  <2>11. at.ids \in [1..MaxCalls -> Nat] /\ y.ids \in [1..MaxCalls -> Nat] /\ y.ids[k] = 0
         /\ \A j \in 1..MaxCalls : j # k => y.ids[j] = at.ids[j]
    BY <1>8, <1>10, <2>10 DEF Knows
  <2>12. Knows(y, t)
    BY <1>8, <1>9, <2>10, <2>11 DEF Knows
  <2>13. ASSUME c.err = "none"
         PROVE  Knows(c, t) /\ Passed(c, t)
    <3>1. c.told = Append(y.told, e) /\ c.ids = y.ids /\ c.told = Append(at.told, e)
      BY <2>5, <2>6, <2>10, <2>13
    <3>2. e.id <= Len(t.calls) /\ e.id \in 1..MaxCalls /\ c.ids[e.id] = 0 /\ y.told \in Seq(Told)
      BY <1>9, <1>10, <1>14, <2>4, <2>10, <2>11, <3>1
    <3>3. Knows(c, t)
      BY <2>4, <2>12, <3>1, <3>2, KnowsAppend
    <3>4. /\ \A j, m : Heard(at.told, j, m) => Heard(c.told, j, m)
          /\ \A j : Ends(at.told, j) => Ends(c.told, j)
          /\ Ends(c.told, k)
      BY <1>14, <2>4, <3>1, AppendHears
    <3>5. \A j \in 1..t.closed : j \in 1..said.closed \/ j = k
      BY <1>1, <1>9, <1>10
    <3>6. \A j \in (t.closed + 1)..Len(t.calls) : j \in (said.closed + 1)..Len(said.calls) /\ j # k /\ j \in 1..MaxCalls
      <4>1. PICK m : m = said.closed
        OBVIOUS
      <4>2. PICK l : l = Len(said.calls)
        OBVIOUS
      <4>3. m \in Nat /\ l \in Nat /\ l <= MaxCalls /\ k = m + 1 /\ t.closed = k /\ Len(t.calls) = l
        BY <1>1, <1>9, <1>10, <4>1, <4>2
      <4>4. \A j \in (k + 1)..l : j \in (m + 1)..l /\ j # k /\ j \in 1..MaxCalls
        BY <1>10, <4>3
      <4>5. QED
        BY <4>1, <4>2, <4>3, <4>4
    <3>7. Passed(c, t)
      BY <1>8, <1>9, <1>12, <2>11, <3>1, <3>4, <3>5, <3>6 DEF Passed
    <3>8. QED
      BY <3>3, <3>7
  <2>14. QED
    BY <1>6, <1>9, <1>11, <1>13, <2>3, <2>6, <2>8, <2>13, ArrivesAnswer
<1>17. QED
  BY <1>15, <1>16

\* A list of events keeps the order if each of them does.
LEMMA WrittenOrderly ==
  ASSUME NEW T, NEW s, NEW err, NEW events, NEW due, NEW k, NEW w, Orderly(T, s), WrittenBy(T, err, events, due, k, w),
         \A j \in due : events[j].frag <= SentOf(s, events[j].id),
         \A j \in due : \A i \in 1..Len(T) : T[i].id = events[j].id =>
            ~T[i].complete /\ (events[j].frag > 0 => T[i].frag < events[j].frag)
  PROVE  Orderly(w.told, s)
<1>1. PICK U : U = w.told
  OBVIOUS
<1>2. /\ T \in Seq(Told) /\ Len(T) \in Nat /\ U \in Seq(Told) /\ Len(U) \in Nat /\ Len(T) <= Len(U)
      /\ \A i \in 1..Len(T) : U[i] = T[i]
  BY <1>1 DEF Orderly, WrittenBy
<1>3. \A i \in 1..Len(U) : i \in 1..Len(T) \/ i \in (Len(T) + 1)..Len(U)
  BY <1>2
<1>4. \A i \in (Len(T) + 1)..Len(U) : \E j \in due : U[i] = events[j]
  BY <1>1 DEF WrittenBy
<1>5. \A i, j \in (Len(T) + 1)..Len(U) : i # j => U[i].id # U[j].id
  BY <1>1 DEF WrittenBy
<1>6. ASSUME NEW i \in 1..Len(U), U[i].id \in 0..MaxCalls
      PROVE  /\ U[i].frag <= SentOf(s, U[i].id)
             /\ \A j \in 1..Len(U) : i < j /\ U[j].id = U[i].id => InOrder(U, i, j)
  <2>1. CASE i \in (Len(T) + 1)..Len(U)
    <3>1. U[i].frag <= SentOf(s, U[i].id)
      BY <1>4, <2>1
    <3>2. \A j \in 1..Len(U) : i < j => j \in (Len(T) + 1)..Len(U) /\ i # j
      BY <1>2, <2>1
    <3>3. QED
      BY <1>5, <2>1, <3>1, <3>2
  <2>2. CASE i \in 1..Len(T)
    <3>1. U[i] = T[i]
      BY <1>2, <2>2
    <3>2. U[i].frag <= SentOf(s, U[i].id)
      BY <1>6, <2>2, <3>1 DEF Orderly
    <3>3. ASSUME NEW j \in 1..Len(U), i < j, U[j].id = U[i].id
          PROVE  InOrder(U, i, j)
      <4>1. CASE j \in 1..Len(T)
        <5>1. U[j] = T[j]
          BY <1>2, <4>1
        <5>2. InOrder(T, i, j)
          BY <1>6, <2>2, <3>1, <3>3, <4>1, <5>1 DEF Orderly
        <5>3. QED
          BY <3>1, <5>1, <5>2 DEF InOrder
      <4>2. CASE j \in (Len(T) + 1)..Len(U)
        <5>1. PICK m \in due : U[j] = events[m]
          BY <1>4, <4>2
        <5>2. ~T[i].complete /\ (events[m].frag > 0 => T[i].frag < events[m].frag)
          BY <2>2, <3>1, <3>3, <5>1
        <5>3. QED
          BY <3>1, <5>1, <5>2 DEF InOrder
      <4>3. QED
        BY <1>3, <3>3, <4>1, <4>2
    <3>4. QED
      BY <3>2, <3>3
  <2>3. QED
    BY <1>3, <1>6, <2>1, <2>2
<1>7. QED
  BY <1>1, <1>2, <1>6 DEF Orderly

LEMMA WrittenHears ==
  ASSUME NEW T, NEW err, NEW events, NEW due, NEW k, NEW w, T \in Seq(Told), WrittenBy(T, err, events, due, k, w)
  PROVE  /\ \A id, n : Heard(T, id, n) => Heard(w.told, id, n)
         /\ \A id : Ends(T, id) => Ends(w.told, id)
<1>1. PICK U : U = w.told
  OBVIOUS
<1>2. /\ Len(T) \in Nat /\ U \in Seq(Told) /\ Len(U) \in Nat /\ Len(T) <= Len(U)
      /\ \A i \in 1..Len(T) : U[i] = T[i]
  BY <1>1 DEF WrittenBy
<1>3. \A i \in 1..Len(T) : i \in 1..Len(U)
  BY <1>2
<1>4. (\A id, n : Heard(T, id, n) => Heard(U, id, n)) /\ \A id : Ends(T, id) => Ends(U, id)
  BY <1>2, <1>3 DEF Heard, Ends
<1>5. QED
  BY <1>1, <1>4

LEMMA WrittenAll ==
  ASSUME NEW T, NEW err, NEW events, NEW due, NEW k, NEW w, T \in Seq(Told), WrittenBy(T, err, events, due, k, w),
         w.err = "none", NEW j \in due, j <= k
  PROVE  /\ Heard(w.told, events[j].id, events[j].frag)
         /\ events[j].complete => Ends(w.told, events[j].id)
<1>1. PICK i \in (Len(T) + 1)..Len(w.told) : w.told[i] = events[j]
  BY DEF WrittenBy
<1>2. i \in 1..Len(w.told)
  <2>1. Len(T) \in Nat /\ Len(w.told) \in Nat
    BY DEF WrittenBy
  <2>2. QED
    BY <2>1
<1>3. QED
  BY <1>1, <1>2 DEF Heard, Ends

\* complete: every call the reader knows is ended, once.
LEMMA CompleteTold ==
  ASSUME NEW a, NEW s, AtFields \subseteq DOMAIN a, Sane(s), Orderly(a.told, s), Knows(a, s), NEW x, x = complete(a)
  PROVE  /\ AtFields \subseteq DOMAIN x /\ Orderly(x.told, s) /\ x.ids = [i \in 1..MaxCalls |-> 0]
         /\ \A id, n : Heard(a.told, id, n) => Heard(x.told, id, n)
         /\ \A id : Ends(a.told, id) => Ends(x.told, id)
         /\ x.err = "none" => \A i \in 1..MaxCalls : a.ids[i] # 0 => Ends(x.told, i)
         /\ \A i \in 1..Len(x.told) : x.told[i].id <= Len(s.calls) /\ (x.told[i].complete => x.told[i].id \in 1..MaxCalls)
<1>1. PICK events : events = [i \in 1..MaxCalls |-> Completed(a.ids[i])]
  OBVIOUS
<1>2. PICK due : due = {i \in 1..MaxCalls : a.ids[i] # 0}
  OBVIOUS
<1>3. PICK d : d = tellAll(a, events, due)
  OBVIOUS
<1>4. x = [d EXCEPT !.ids = [i \in 1..MaxCalls |-> 0]]
  BY <1>1, <1>2, <1>3, Zenon DEF complete
<1>5. AtFields \subseteq DOMAIN d
  BY <1>3, TellAllAlike DEF Alike
<1>6. AtFields \subseteq DOMAIN x /\ x.ids = [i \in 1..MaxCalls |-> 0] /\ x.told = d.told /\ x.err = d.err
  BY <1>4, <1>5 DEF AtFields
<1>7. a.told \in Seq(Told) /\ MaxCalls \in Nat /\ a.ids \in [1..MaxCalls -> Nat] /\ Len(s.calls) \in Nat
  BY StreamAssumption DEF Orderly, Knows, Sane
<1>8. ASSUME NEW i \in 1..MaxCalls
      PROVE  events[i] \in Told /\ events[i].id = a.ids[i] /\ events[i].frag = 0 /\ events[i].complete
  <2>1. PICK e : e = events[i]
    OBVIOUS
  <2>2. e = [id |-> a.ids[i], frag |-> 0, complete |-> TRUE] /\ a.ids[i] \in Int
    <3>1. e = Completed(a.ids[i])
      BY <1>1, <2>1
    <3>2. a.ids[i] \in Int
      BY <1>7
    <3>3. QED
      BY <3>1, <3>2, Zenon DEF Completed
  <2>3. e \in Told /\ e.id = a.ids[i] /\ e.frag = 0 /\ e.complete
    BY <2>2, ClosingEvent
  <2>4. QED
    BY <2>1, <2>3
<1>9. events \in Seq(Told) /\ Len(events) = MaxCalls
  <2>1. events \in [1..MaxCalls -> Told]
    BY <1>1, <1>8
  <2>2. QED
    BY <1>7, <2>1
<1>10. due \in SUBSET (1..Len(events)) /\ \A i \in due : i \in 1..MaxCalls /\ a.ids[i] # 0
  BY <1>2, <1>9
<1>11. \A i \in due : events[i].id = i /\ i <= Len(s.calls)
  BY <1>8, <1>10 DEF Knows
<1>12. \A i, j \in due : i # j => events[i].id # events[j].id
  BY <1>11
<1>13. WrittenBy(a.told, a.err, events, due, MaxCalls, d)
  BY <1>3, <1>7, <1>9, <1>10, <1>12, TellAllTold
<1>14. ASSUME NEW j \in due
       PROVE  /\ events[j].frag <= SentOf(s, events[j].id) /\ ~(events[j].frag > 0)
              /\ \A i \in 1..Len(a.told) : a.told[i].id = events[j].id => ~a.told[i].complete
  <2>1. events[j].frag = 0 /\ events[j].id = j /\ a.ids[j] # 0
    BY <1>8, <1>10, <1>11
  <2>2. events[j].frag <= SentOf(s, events[j].id) /\ ~(events[j].frag > 0)
    BY <2>1, SentIsNat
  <2>3. QED
    BY <2>1, <2>2 DEF Knows
<1>15. Orderly(d.told, s)
  BY <1>13, <1>14, WrittenOrderly
<1>16. (\A id, n : Heard(a.told, id, n) => Heard(d.told, id, n)) /\ \A id : Ends(a.told, id) => Ends(d.told, id)
  BY <1>7, <1>13, WrittenHears
<1>17. ASSUME d.err = "none", NEW i \in 1..MaxCalls, a.ids[i] # 0
       PROVE  Ends(d.told, i)
  <2>1. i \in due /\ i <= MaxCalls
    BY <1>2, <1>7, <1>17
  <2>2. events[i].complete => Ends(d.told, events[i].id)
    BY <1>7, <1>13, <1>17, <2>1, WrittenAll
  <2>3. QED
    BY <1>8, <1>11, <2>1, <2>2
<1>18. ASSUME NEW i \in 1..Len(d.told)
       PROVE  d.told[i].id <= Len(s.calls) /\ (d.told[i].complete => d.told[i].id \in 1..MaxCalls)
  <2>1. Len(a.told) \in Nat /\ Len(d.told) \in Nat
    BY <1>7, <1>13 DEF WrittenBy
  <2>2. i \in 1..Len(a.told) \/ i \in (Len(a.told) + 1)..Len(d.told)
    BY <2>1
  <2>3. CASE i \in 1..Len(a.told)
    <3>1. d.told[i] = a.told[i]
      BY <1>13, <2>3 DEF WrittenBy
    <3>2. QED
      BY <2>3, <3>1 DEF Knows
  <2>4. CASE i \in (Len(a.told) + 1)..Len(d.told)
    <3>1. PICK j \in due : d.told[i] = events[j]
      BY <1>13, <2>4 DEF WrittenBy
    <3>2. QED
      BY <1>10, <1>11, <3>1
  <2>5. QED
    BY <2>2, <2>3, <2>4
<1>19. QED
  BY <1>6, <1>15, <1>16, <1>17, <1>18

\* The finish reason ends every call that is open.
LEMMA FinishesAnswer ==
  ASSUME AnswerInv, NEW reason, Finishes(reason)
  PROVE  AnswerInv'
<1> DEFINE finishOf == [messages |-> mapStopReason(reason), spoken |-> finishReason(reason), chat |-> mapFinishReason(reason)]
<1>1. PICK b : b = [at EXCEPT !.finish = finishOf[Wire]]
  OBVIOUS
<1>2. PICK c : c = [b EXCEPT !.meter = absorb(@, Closing(said.counts), TRUE)]
  OBVIOUS
<1>3. PICK r : r = IF Wire = "messages" THEN c ELSE complete(b)
  OBVIOUS
<1>4. PICK t : t = [said EXCEPT !.finished = TRUE, !.closed = Len(said.calls), !.final = @ \/ Wire = "messages"]
  OBVIOUS
<1>5. Arrives(r, t) /\ (Wire = "messages" => said.closed = Len(said.calls))
  BY <1>1, <1>2, <1>3, <1>4 DEF Finishes
<1>6. Reading
  BY <1>5, ArrivesReads
<1>7. /\ AtFields \subseteq DOMAIN at /\ Sane(said) /\ Orderly(at.told, said)
      /\ at.stage = "reading" /\ at.err = "none" /\ Knows(at, said) /\ Passed(at, said)
  BY <1>6, ReadingAnswer
<1>8. /\ SaidFields \subseteq DOMAIN t /\ t.lost = said.lost /\ t.calls = said.calls /\ t.texts = said.texts
      /\ t.closed = Len(said.calls)
  BY <1>4, <1>7 DEF Sane, SaidFields
<1>9. /\ said.closed \in 0..Len(said.calls) /\ Len(said.calls) \in Nat /\ Len(said.calls) <= MaxCalls /\ MaxCalls \in Nat
  BY <1>7, StreamAssumption DEF Sane
<1>10. Sane(t)
  BY <1>7, <1>8, <1>9 DEF Sane
<1>11. \A id : SentOf(t, id) = SentOf(said, id) /\ SentOf(said, id) \in Nat
  BY <1>7, <1>8, SentIsNat DEF SentOf
<1>12. Grows(said, t)
  BY <1>8, <1>9, <1>11 DEF Grows
<1>13. SameTalk(at, b) /\ b.err = at.err
  BY <1>1, <1>7 DEF SameTalk, AtFields
<1>14. Knows(b, t)
  BY <1>7, <1>8, <1>13 DEF Knows, SameTalk
<1>15. Orderly(b.told, t)
  BY <1>7, <1>10, <1>12, <1>13, GrownOrderly DEF SameTalk
<1>16. CASE Wire = "messages"
  <2>1. r = c /\ said.closed = Len(said.calls)
    BY <1>3, <1>5, <1>16
  <2>2. SameTalk(b, c)
    BY <1>2, <1>13 DEF SameTalk, AtFields
  <2>3. AtFields \subseteq DOMAIN c /\ c.stage = "reading" /\ c.told = at.told /\ c.ids = at.ids
    BY <1>7, <1>13, <2>2 DEF SameTalk
  <2>4. Knows(c, t) /\ Orderly(c.told, t)
    BY <1>13, <1>14, <1>15, <2>3 DEF Knows, SameTalk
  <2>5. Passed(c, t)
    BY <1>7, <1>8, <1>11, <2>1, <2>3 DEF Passed
  <2>6. QED
    BY <1>5, <1>8, <1>10, <1>12, <2>1, <2>3, <2>4, <2>5, ArrivesAnswer
<1>17. CASE Wire # "messages"
  <2>1. r = complete(b)
    BY <1>3, <1>17
  <2>2. AtFields \subseteq DOMAIN b
    BY <1>13 DEF SameTalk
  <2>3. /\ AtFields \subseteq DOMAIN r /\ Orderly(r.told, t) /\ r.ids = [i \in 1..MaxCalls |-> 0]
        /\ \A id, n : Heard(b.told, id, n) => Heard(r.told, id, n)
        /\ \A id : Ends(b.told, id) => Ends(r.told, id)
        /\ r.err = "none" => \A i \in 1..MaxCalls : b.ids[i] # 0 => Ends(r.told, i)
        /\ \A i \in 1..Len(r.told) : r.told[i].id <= Len(t.calls) /\ (r.told[i].complete => r.told[i].id \in 1..MaxCalls)
    BY <1>10, <1>14, <1>15, <2>1, <2>2, CompleteTold
  <2>4. r.stage = "reading"
    BY <1>7, <1>13, <2>1, <2>2, CompleteAlike DEF Alike, SameTalk
  <2>5. Knows(r, t)
    BY <2>3 DEF Knows
  <2>6. ASSUME r.err = "none"
        PROVE  Passed(r, t)
    <3>1. SUFFICES ASSUME t.lost = 0
                   PROVE  /\ \A id \in 0..Len(t.calls) : \A n \in 1..SentOf(t, id) : Heard(r.told, id, n)
                          /\ \A id \in 1..t.closed : Ends(r.told, id)
                          /\ \A id \in (t.closed + 1)..Len(t.calls) : r.ids[id] = id
      BY DEF Passed
    <3>2. /\ \A id \in 0..Len(said.calls) : \A n \in 1..SentOf(said, id) : Heard(at.told, id, n)
          /\ \A id \in 1..said.closed : Ends(at.told, id)
          /\ \A id \in (said.closed + 1)..Len(said.calls) : at.ids[id] = id
      BY <1>7, <1>8, <3>1 DEF Passed
    <3>3. at.told = b.told /\ at.ids = b.ids
      BY <1>13 DEF SameTalk
    <3>4. ASSUME NEW id \in 1..t.closed
          PROVE  Ends(r.told, id)
      <4>1. CASE id \in 1..said.closed
        BY <2>3, <3>2, <3>3, <4>1
      <4>2. CASE id \notin 1..said.closed
        <5>1. id \in (said.closed + 1)..Len(said.calls) /\ id \in 1..MaxCalls /\ id # 0
          BY <1>8, <1>9, <3>4, <4>2
        <5>2. QED
          BY <2>3, <2>6, <3>2, <3>3, <5>1
      <4>3. QED
        BY <4>1, <4>2
    <3>5. (t.closed + 1)..Len(t.calls) = {}
      BY <1>8, <1>9
    <3>6. QED
      BY <1>8, <1>11, <2>3, <3>2, <3>3, <3>4, <3>5
  <2>7. QED
    BY <1>5, <1>8, <1>10, <1>12, <2>3, <2>4, <2>5, <2>6, ArrivesAnswer
<1>18. QED
  BY <1>16, <1>17

\* A document: its text and its calls, each told at once.
LEMMA AnswersWholeAnswer ==
  ASSUME AnswerInv, NEW readable \in BOOLEAN, NEW calls \in 0..MaxCalls, NEW counts, AnswersWhole(readable, calls, counts)
  PROVE  AnswerInv'
<1>1. PICK a : a = [at EXCEPT !.em = Start(at.em)]
  OBVIOUS
<1>2. PICK b : b = [a EXCEPT !.meter = absorb(absorb(NoMeter, Opening(counts), FALSE), Closing(counts), TRUE)]
  OBVIOUS
<1>3. PICK c : c = IF counts = Unstated THEN a ELSE IF Wire = "messages" THEN b ELSE count(a, counts)
  OBVIOUS
<1>4. PICK w : w = tell(c, Text(1))
  OBVIOUS
<1>5. PICK events : events = [i \in 1..calls |-> AtOnce(i)]
  OBVIOUS
<1>6. PICK d : d = tellAll(w, events, 1..calls)
  OBVIOUS
<1>7. PICK e : e = [d EXCEPT !.ctx = "live"]
  OBVIOUS
<1>8. PICK g : g = finished(e, TRUE)
  OBVIOUS
<1>9. PICK f : f = [g EXCEPT !.ctx = at.ctx]
  OBVIOUS
<1>10. PICK t : t = [said EXCEPT !.texts = 1, !.calls = [i \in 1..calls |-> 1], !.closed = calls,
                                !.counts = counts, !.final = counts # Unstated, !.finished = TRUE, !.done = TRUE]
  OBVIOUS
<1>11. at.stage = "sent" /\ said' = IF readable THEN t ELSE said
  BY <1>10 DEF AnswersWhole
<1>12. at' = IF ~readable THEN Ended(at, "provider_error")
             ELSE IF a.em.err # "none" THEN Ended(a, "sink")
             ELSE IF d.err # "none" THEN Ended(d, d.err)
             ELSE f
  BY <1>1, <1>2, <1>3, <1>4, <1>5, <1>6, <1>7, <1>8, <1>9, Zenon DEF AnswersWhole
<1>13. AtFields \subseteq DOMAIN at /\ Sane(said) /\ Orderly(at.told, said) /\ Silent(at, said)
  BY <1>11, SilentAnswer
<1>14. calls \in Nat /\ MaxCalls \in Nat /\ calls <= MaxCalls
  BY StreamAssumption
<1>15. /\ SaidFields \subseteq DOMAIN t /\ t.lost = said.lost /\ t.calls = [i \in 1..calls |-> 1] /\ t.texts = 1
       /\ t.closed = calls
  BY <1>10, <1>13 DEF Sane, SaidFields
<1>16. t.done
  BY <1>10, <1>13, Zenon DEF Sane, SaidFields
<1>17. t.calls \in Seq(Nat) /\ Len(t.calls) = calls /\ \A i \in 1..calls : t.calls[i] = 1
  BY <1>14, <1>15
<1>18. Sane(t)
  BY <1>13, <1>14, <1>15, <1>17 DEF Sane
<1>19. SentOf(t, 0) = 1 /\ \A i \in 1..calls : SentOf(t, i) = 1
  BY <1>14, <1>15, <1>17 DEF SentOf
<1>20. SameTalk(at, a)
  BY <1>1, <1>13 DEF SameTalk, AtFields
<1>21. SameTalk(a, b) /\ SameTalk(a, count(a, counts))
  BY <1>2, <1>20, CountSame DEF SameTalk, AtFields
<1>22. AtFields \subseteq DOMAIN c /\ c.told = <<>>
  BY <1>3, <1>13, <1>20, <1>21 DEF SameTalk, Silent
<1>23. AtFields \subseteq DOMAIN a /\ a.told = <<>>
  BY <1>13, <1>20 DEF SameTalk, Silent
<1>24. Orderly(<<>>, t)
  BY DEF Orderly
<1>25. PICK o : o = Text(1)
  OBVIOUS
<1>26. o \in Told /\ o.id = 0 /\ o.frag = 1 /\ ~o.complete
  <2>1. o = [id |-> 0, frag |-> 1, complete |-> FALSE]
    BY <1>25 DEF Text
  <2>2. QED
    BY <2>1, OpenEvent
<1>27. /\ AtFields \subseteq DOMAIN w
       /\ \/ w.err = "none" /\ w.told = Append(<<>>, o)
          \/ w.err # "none" /\ w.told = <<>>
  <2>1. CASE c.err = "none"
    BY <1>4, <1>22, <1>25, <2>1, TellIds
  <2>2. CASE c.err # "none"
    BY <1>4, <1>22, <2>2, TellAfterError
  <2>3. QED
    BY <2>1, <2>2
<1>28. Orderly(w.told, t) /\ w.told \in Seq(Told) /\ \A i \in 1..Len(w.told) : w.told[i].id = 0
  <2>1. o.frag <= SentOf(t, o.id)
    BY <1>19, <1>26
  <2>2. Orderly(Append(<<>>, o), t)
    <3>1. PICK T : T = <<>>
      OBVIOUS
    <3>2. Orderly(T, t) /\ 1..Len(T) = {}
      BY <1>24, <3>1
    <3>3. Orderly(Append(T, o), t)
      BY <1>26, <2>1, <3>2, OrderlyAppend
    <3>4. QED
      BY <3>1, <3>3
  <2>3. Orderly(w.told, t)
    BY <1>24, <1>27, <2>2
  <2>4. \A i \in 1..Len(w.told) : w.told[i].id = 0
    BY <1>26, <1>27
  <2>5. QED
    BY <2>3, <2>4 DEF Orderly
<1>29. ASSUME NEW i \in 1..calls
       PROVE  events[i] \in Told /\ events[i].id = i /\ events[i].frag = 1 /\ events[i].complete
  <2>1. PICK z : z = events[i]
    OBVIOUS
  <2>2. z = AtOnce(i)
    BY <1>5, <2>1
  <2>3. z = [id |-> i, frag |-> 1, complete |-> TRUE] /\ i \in Int
    <3>1. i \in Int
      OBVIOUS
    <3>2. QED
      BY <2>2, <3>1, Zenon DEF AtOnce
  <2>4. z \in Told /\ z.id = i /\ z.frag = 1 /\ z.complete
    BY <2>3, ClosingEvent
  <2>5. QED
    BY <2>1, <2>4
<1>30. events \in Seq(Told) /\ Len(events) = calls
  <2>1. events \in [1..calls -> Told]
    BY <1>5, <1>29
  <2>2. QED
    BY <1>14, <2>1
<1>31. \A i, j \in 1..calls : i # j => events[i].id # events[j].id
  BY <1>29
<1>32. WrittenBy(w.told, w.err, events, 1..calls, calls, d)
  <2>1. 1..calls \in SUBSET (1..Len(events))
    BY <1>30
  <2>2. QED
    BY <1>6, <1>27, <1>28, <1>30, <1>31, <2>1, TellAllTold
<1>33. AtFields \subseteq DOMAIN d
  BY <1>6, <1>27, TellAllAlike DEF Alike
<1>34. Orderly(d.told, t)
  <2>1. \A j \in 1..calls : events[j].frag <= SentOf(t, events[j].id)
    BY <1>19, <1>29
  <2>2. \A j \in 1..calls : \A i \in 1..Len(w.told) : w.told[i].id # events[j].id
    BY <1>28, <1>29
  <2>3. QED
    BY <1>28, <1>32, <2>1, <2>2, WrittenOrderly
<1>35. ASSUME d.err = "none"
       PROVE  Entire(d.told, t)
  <2>1. w.err = "none"
    BY <1>32, <1>35 DEF WrittenBy
  <2>2. Heard(w.told, 0, 1)
    <3>1. w.told = Append(<<>>, o)
      BY <1>27, <2>1
    <3>2. <<>> \in Seq(Told)
      OBVIOUS
    <3>3. Heard(w.told, o.id, o.frag)
      BY <1>26, <3>1, <3>2, AppendHears
    <3>4. QED
      BY <1>26, <3>3
  <2>3. Heard(d.told, 0, 1)
    BY <1>28, <1>32, <2>2, WrittenHears
  <2>4. ASSUME NEW i \in 1..calls
        PROVE  Heard(d.told, i, 1) /\ Ends(d.told, i)
    <3>1. i <= calls
      BY <1>14
    <3>2. /\ Heard(d.told, events[i].id, events[i].frag)
          /\ events[i].complete => Ends(d.told, events[i].id)
      BY <1>28, <1>32, <1>35, <3>1, WrittenAll
    <3>3. QED
      BY <1>29, <3>2
  <2>5. \A i \in 0..calls : i = 0 \/ i \in 1..calls
    BY <1>14
  <2>6. \A n \in 1..1 : n = 1
    OBVIOUS
  <2>7. QED
    BY <1>17, <1>19, <2>3, <2>4, <2>5, <2>6 DEF Entire
<1>36. AtFields \subseteq DOMAIN e /\ e.told = d.told
  BY <1>7, <1>33 DEF AtFields
<1>37. d.err = "none" => AnswerState(g, t) /\ g.stage = "ended"
  BY <1>8, <1>16, <1>18, <1>34, <1>35, <1>36, FinishedAnswer
<1>38. d.err = "none" => AnswerState(f, t)
  <2>1. SUFFICES ASSUME d.err = "none"
                 PROVE  AnswerState(f, t)
    OBVIOUS
  <2>2. AnswerState(g, t) /\ g.stage = "ended"
    BY <1>37, <2>1
  <2>3. AtFields \subseteq DOMAIN f /\ f.stage = "ended" /\ f.told = g.told /\ f.err = g.err /\ f.call = g.call
    BY <1>9, <2>2 DEF AnswerState, AtFields
  <2>4. QED
    BY <2>2, <2>3 DEF AnswerState
<1>39. AnswerState(Ended(at, "provider_error"), said) /\ AnswerState(Ended(a, "sink"), t)
  BY <1>13, <1>18, <1>23, <1>24, FailedAnswer
<1>40. d.err # "none" => AnswerState(Ended(d, d.err), t)
  BY <1>18, <1>33, <1>34, FailedAnswer
<1>41. AnswerState(at', said')
  BY <1>11, <1>12, <1>38, <1>39, <1>40
<1>42. QED
  BY <1>41, AnswerPrimed

-----------------------------------------------------------------------------
LEMMA AnswerSteps ==
  ASSUME AnswerInv, [StreamNext]_<<at, said>>
  PROVE  AnswerInv'
<1>1. CASE UNCHANGED <<at, said>>
  <2>1. AnswerState(at', said')
    BY <1>1 DEF AnswerInv
  <2>2. QED
    BY <2>1, AnswerPrimed
<1>2. CASE \E q \in Requests : Sends(q)
  BY <1>2, SendsAnswer
<1>3. CASE \E r \in Refusals : Refuses(r) \/ Breaks(r)
  BY <1>3, RefusesAnswer, BreaksAnswer
<1>4. CASE Unanswered \/ CutWhole
  BY <1>4, UnansweredAnswer
<1>5. CASE Answers
  BY <1>5, AnswersAnswer
<1>6. CASE \E valid \in BOOLEAN : AnswersVectors(valid)
  BY <1>6, AnswersVectorsAnswer
<1>7. CASE \E readable \in BOOLEAN, calls \in 0..MaxCalls, counts \in Counts \cup {Unstated} : AnswersWhole(readable, calls, counts)
  BY <1>7, AnswersWholeAnswer
<1>8. CASE \E counts \in Counts : Begins(counts) \/ SendsUsage(counts)
  BY <1>8, BeginsAnswer, SendsUsageAnswer
<1>9. CASE SendsText \/ OpensCall \/ ClosesBlock \/ EndsStream
  BY <1>9, SendsTextAnswer, OpensCallAnswer, ClosesBlockAnswer, EndsStreamAnswer
<1>10. CASE \E i \in 1..MaxCalls : SendsArguments(i)
  BY <1>10, SendsArgumentsAnswer
<1>11. CASE \E reason \in {"tool_use", "refusal"} : Finishes(reason)
  BY <1>11, FinishesAnswer
<1>12. CASE \E clean \in BOOLEAN : Cut(clean)
  BY <1>12, CutAnswer
<1>13. CASE \E how \in {"canceled", "expired", "stalled"} : Withdraws(how)
  BY <1>13, WithdrawsAnswer
<1>14. QED
  BY <1>1, <1>2, <1>3, <1>4, <1>5, <1>6, <1>7, <1>8, <1>9, <1>10, <1>11, <1>12, <1>13 DEF StreamNext

LEMMA WholeAnswer ==
  ASSUME AnswerInv
  PROVE  AnswerIsWhole
<1>1. /\ Sane(said) /\ Orderly(at.told, said)
      /\ at.stage = "ended" /\ at.err = "none" =>
           said.done /\ (said.lost = 0 /\ at.call.path # "embeddings" => Entire(at.told, said))
  BY DEF AnswerInv, AnswerState
<1>2. said.calls \in Seq(Nat) /\ at.told \in Seq(Told)
  BY <1>1 DEF Sane, Orderly
<1>3. DOMAIN said.calls = 1..Len(said.calls) /\ DOMAIN at.told = 1..Len(at.told)
  BY <1>2
<1>4. \A id : Sent(id) = SentOf(said, id)
  BY <1>3 DEF Sent, SentOf
<1>5. \A id : \A i : i \in Of(id) <=> i \in 1..Len(at.told) /\ at.told[i].id = id
  BY <1>3 DEF Of
<1>6. ASSUME NEW id \in 0..MaxCalls, NEW i \in Of(id)
      PROVE  /\ at.told[i].frag <= Sent(id)
             /\ \A j \in Of(id) : i < j => /\ ~at.told[i].complete
                                           /\ at.told[j].frag > 0 => at.told[i].frag < at.told[j].frag
  <2>1. i \in 1..Len(at.told) /\ at.told[i].id = id
    BY <1>5, <1>6
  <2>2. at.told[i].frag <= SentOf(said, id)
    BY <1>1, <1>6, <2>1 DEF Orderly
  <2>3. ASSUME NEW j \in Of(id), i < j
        PROVE  InOrder(at.told, i, j)
    <3>1. j \in 1..Len(at.told) /\ at.told[j].id = id
      BY <1>5, <2>3
    <3>2. QED
      BY <1>1, <1>6, <2>1, <2>3, <3>1 DEF Orderly
  <2>4. QED
    BY <1>4, <2>2, <2>3 DEF InOrder
<1>7. ASSUME at.stage = "ended", at.err = "none", said.lost = 0, Wire # "embeddings", NEW id \in 0..Len(said.calls)
      PROVE  /\ \A n \in 1..Sent(id) : \E i \in Of(id) : at.told[i].frag = n
             /\ id # 0 => \E i \in Of(id) : at.told[i].complete
  <2>1. Entire(at.told, said)
    BY <1>1, <1>7 DEF Wire
  <2>2. /\ \A n \in 1..Sent(id) : Heard(at.told, id, n)
        /\ id # 0 => Ends(at.told, id)
    BY <1>4, <1>7, <2>1 DEF Entire
  <2>3. QED
    BY <1>5, <2>2 DEF Heard, Ends
<1>8. QED
  BY <1>1, <1>6, <1>7 DEF AnswerIsWhole

\* An answer reaches its caller in order and, if it is reported as a success, was
\* ended by its provider and, with every frame readable, was passed on whole with
\* each tool call completed: for any number of calls, pieces and texts, on every
\* wire, wherever the stream is cut, withdrawn from or refused by the sink.
THEOREM AnswersArriveWhole ==
  StreamSpec => []AnswerIsWhole
<1>1. StreamInit => AnswerInv
  BY AnswerStarts
<1>2. AnswerInv /\ [StreamNext]_<<at, said>> => AnswerInv'
  BY AnswerSteps
<1>3. AnswerInv => AnswerIsWhole
  BY WholeAnswer
<1>4. QED
  BY <1>1, <1>2, <1>3, PTL DEF StreamSpec
=============================================================================

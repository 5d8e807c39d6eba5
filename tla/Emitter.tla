------------------------------ MODULE Emitter ------------------------------
(***************************************************************************)
(* The emitter of one request, called by its adapter and by the executor   *)
(* from one goroutine.  What the model leaves open is the order of their   *)
(* calls and the write at which the sink breaks.                           *)
(***************************************************************************)
EXTENDS EmitterOps

CONSTANTS
  Rooms,         \* how many events the sink may take before it breaks
  MaxAttempts,   \* bound: attempts served
  MaxSequence    \* bound: sequence numbers drawn

ASSUME EmitterAssumption ==
  /\ Rooms \subseteq Nat
  /\ MaxAttempts \in Nat
  /\ MaxSequence \in Nat

VARIABLE em

-----------------------------------------------------------------------------
Init == \E room \in Rooms : em = NewEmitter(room)

DoServing  == em.attempt < MaxAttempts /\ em' = Serving(em)
DoStart    == em.attempt > 0 /\ em' = Start(em)
DoOutput   == em' = Output(em)
DoProgress == Len(em.pending) < MaxSequence /\ em' = Progress(em)
DoSwitch   == em' = RouteSwitch(em)
DoDone     == em' = FinishWithDone(em)
DoError    == em' = FinishWithError(em)

\* Every order of calls: the emitter does not rely on its callers for the rules
\* it enforces.
Next ==
  /\ em.sequence < MaxSequence
  /\ \/ DoServing \/ DoStart \/ DoOutput \/ DoProgress
     \/ DoSwitch \/ DoDone \/ DoError

Spec == Init /\ [][Next]_em

-----------------------------------------------------------------------------
\* The emitter's record is well formed.
TypeOK == em \in EmitterState

Stream == INSTANCE CustomerStream WITH seen <- em.out

\* The customer sees a well-formed stream whatever order adapter and executor
\* call in, and wherever the sink breaks: numbered without a gap although
\* discarded attempts drew no number, one start, the output of one attempt
\* only, and nothing after a terminal event.
ImplementsCustomerStream == Stream!Spec

\* An attempt whose output reached the customer is the last one that can:
\* everything held is the current attempt's, and a delivered output's start is
\* on the stream.  This is what lets settlement mark the last cost row served.
DeliveredIsCommitted ==
  /\ em.delivered => em.started /\ \E i \in DOMAIN em.out : em.out[i].type = "output"
  /\ \A i \in DOMAIN em.pending : em.pending[i] = em.attempt
  /\ em.pendingStart \in {0, em.attempt}
=============================================================================

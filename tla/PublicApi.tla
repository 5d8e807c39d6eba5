----------------------------- MODULE PublicApi -----------------------------
(***************************************************************************)
(* One request of the public API from its first byte to its settlement:    *)
(* the handlers of internal/publicapi (text.go, speech.go,                 *)
(* transcription.go), admit and execute (pipeline.go), Oxy's authorization *)
(* (authorize.go) and the five ways an answer is put on the wire.          *)
(*                                                                         *)
(* The executor is here the stream it promises (CustomerStream): switches, *)
(* a start, output, one terminal event, and a result that agrees with it.  *)
(***************************************************************************)
EXTENDS PublicRequests

CONSTANTS
    Requests,   \* the requests a client may send
    Headers,    \* the headers it may send with them
    Plans,      \* what a grant may resolve to
    Snapshot,   \* the inventory served
    Published,  \* the audio facts of the lines of the public catalogue
    Oxy,        \* what Oxy answers an authorization with
    Framing,    \* the tokens a provider bills on every request
    Failures,   \* the codes an execution may fail with
    MaxOutput,  \* bound: output events of one execution
    MaxAudio    \* the audio events a whole answer may buffer

Endpoints == {"responses", "chat", "embeddings", "decisions", "speech", "transcriptions", "images"}

(* None is no error of the contract, and errors are the contract's. *)
ASSUME ApiAssumption ==
    /\ None \notin ErrorCode /\ None \notin [code : ErrorCode \cup {"ok"}, retryable : BOOLEAN]
    /\ \A r \in Requests : r.endpoint \in Endpoints
    /\ \A answer \in Oxy : /\ answer.kind \in {"refused", "unreachable", "unverified", "cancelled", "signed"}
                           /\ answer.kind = "refused" => answer.code \in ErrorCode \cup {None}
    /\ Failures \subseteq ErrorCode
    /\ MaxAudio \in Nat

VARIABLES
    phase,    \* where the handler is
    q,        \* the request being handled
    ask,      \* what Oxy is asked to grant
    plan,
    events,   \* the types of the events the executor has emitted
    folded,   \* collected: how many text, tool and audio events, and the finish
    broken,   \* the sink has refused an event
    result,   \* kaana.Result
    wire,     \* what the client was sent
    client,   \* the client is still reading
    grant     \* what becomes of Oxy's hold

apiVars == <<phase, q, ask, plan, events, folded, broken, result, wire, client, grant>>

OK == [code |-> "ok", retryable |-> FALSE]
Nothing == [status |-> None, frames |-> <<>>, closed |-> "open"]
Empty == [text |-> 0, tools |-> 0, audio |-> 0, finish |-> FALSE]
Final == {"done", "error"}

(***************************************************************************)
(* Headers                                                                 *)
(***************************************************************************)

(* bearerFrom, newCredential: Authorization, or the WebSocket subprotocol  *)
(* when there is no such header.                                           *)
newCredential(value) == IF value \in 1..MaxName THEN value ELSE None

bearerFrom(h) ==
    IF h.authorization # None
    THEN IF h.authorization.scheme = "bearer" THEN newCredential(h.authorization.value) ELSE None
    ELSE IF h.subprotocol # None THEN newCredential(h.subprotocol) ELSE None

(* onBehalfOf and idempotencyKey: absent, or bounded. *)
onBehalfOf(h) == Within(h.user, 1, MaxName)
idempotencyKey(h) == Within(h.key, 1, MaxName)

(* The user a body names; Responses and decisions have no such field. *)
bodyUser(r) == IF r.endpoint \in {"chat", "embeddings", "speech"} THEN r.user ELSE None

(* admit's checks before Oxy is asked, the local rate limit among them. *)
admitRefusal(r, h, allowed) ==
    FirstOf(<<When(bearerFrom(h) = None, "authentication_failed"), When(~allowed, "rate_limited"), Invalid(~onBehalfOf(h)),
              Invalid(bodyUser(r) # None /\ h.user \notin {None, bodyUser(r)}), Invalid(~idempotencyKey(h))>>)

(***************************************************************************)
(* The wire                                                                *)
(***************************************************************************)

(* How an answer is delivered. *)
Mode(r) ==
    CASE r.endpoint = "responses" /\ r.stream -> "events"
      [] r.endpoint = "chat" /\ r.stream      -> "chunks"
      [] r.endpoint = "speech" /\ r.stream    -> IF r.streamFormat = "sse" THEN "speech" ELSE "raw"
      [] OTHER                                -> "whole"

(* writeError, writeJSON: the status is only free while nothing was sent. *)
writeError(w, error) == IF w.status = None THEN [w EXCEPT !.status = error, !.closed = "end"] ELSE w
writeAnswer(w) == [w EXCEPT !.status = OK, !.frames = <<[type |-> "answer"]>>, !.closed = "end"]
writeFrame(w, frame) == [w EXCEPT !.status = OK, !.frames = Append(@, frame)]

Frame(type) == [type |-> type]
ErrorFrame(error) == [type |-> "error", error |-> error]

(* collected.fold. *)
fold(f, type) ==
    CASE type = "delta" -> [f EXCEPT !.text = @ + 1]
      [] type = "tool"  -> [f EXCEPT !.tools = @ + 1]
      [] type = "audio" -> [f EXCEPT !.audio = @ + 1]
      [] type = "done"  -> [f EXCEPT !.finish = TRUE]
      [] OTHER          -> f

(* What each sink writes for an event, <<>> for nothing.  A stream opens   *)
(* with its first frame, so a refusal before it is an HTTP error.          *)
streamSink(w, type, error) ==
    CASE type = "switch" -> <<>>
      [] type = "error"  -> IF w.frames = <<>> THEN <<>> ELSE <<ErrorFrame(PublicErrorFrom(error))>>
      [] OTHER           -> <<Frame(type)>>

chatStream(type) == IF type \in {"start", "delta", "tool"} THEN <<Frame(type)>> ELSE <<>>

speechAudio(type) == IF type = "audio" THEN <<Frame("audio")>> ELSE <<>>

Written(r, w, type, error) ==
    CASE Mode(r) = "events"            -> streamSink(w, type, error)
      [] Mode(r) = "chunks"            -> chatStream(type)
      [] Mode(r) \in {"raw", "speech"} -> speechAudio(type)
      [] OTHER                         -> <<>>

(* speechWhole and fold refuse audio past the buffer. *)
oversized(r, f, type) == Mode(r) = "whole" /\ type = "audio" /\ f.audio >= MaxAudio

(* failureOf. *)
failureOf(res) == IF res.failure # None THEN PublicErrorFrom(res.failure) ELSE NewPublicError("internal_error")

(* What handleDecisions makes of a retryable failure after an attempt. *)
decisionFailure(res) ==
    IF res.attempts > 0 /\ failureOf(res).retryable THEN NewPublicError("provider_error") ELSE failureOf(res)

(* The whole answers: a body, or the error of what is missing. *)
wholeAnswer(r, res, f, w) ==
    CASE r.endpoint = "decisions" ->
            IF res.failure # None \/ ~res.whole THEN writeError(w, decisionFailure(res)) ELSE writeAnswer(w)
      [] r.endpoint = "embeddings" ->
            IF res.failure # None \/ ~res.whole THEN writeError(w, failureOf(res)) ELSE writeAnswer(w)
      [] r.endpoint = "speech" ->
            IF f.audio > MaxAudio THEN writeError(w, NewPublicError("output_limit_exceeded"))
            ELSE IF res.failure # None THEN writeError(w, PublicErrorFrom(res.failure))
            ELSE IF ~res.report \/ f.audio = 0 THEN writeError(w, NewPublicError("provider_error"))
            ELSE writeAnswer(w)
      [] OTHER ->
            IF res.failure # None \/ ~res.report THEN writeError(w, failureOf(res)) ELSE writeAnswer(w)

(* The tails of the streamed handlers. *)
eventsTail(res, w) == IF w.frames = <<>> THEN writeError(w, failureOf(res)) ELSE [w EXCEPT !.closed = "end"]

chunksTail(res, w) ==
    IF w.frames = <<>> THEN writeError(w, failureOf(res))
    ELSE IF res.failure # None \/ ~res.report THEN [writeFrame(w, ErrorFrame(failureOf(res))) EXCEPT !.closed = "end"]
    ELSE [writeFrame(writeFrame(w, Frame("finish")), Frame("done")) EXCEPT !.closed = "end"]

noAudio(res) == PublicErrorFrom(IF res.failure # None THEN res.failure ELSE "provider_error")

(* Mutant: a failure after the first byte ends the body as if whole. *)
rawTailWhole(res, w) == IF w.frames = <<>> THEN writeError(w, noAudio(res)) ELSE [w EXCEPT !.closed = "end"]

(* speechRaw: after the first byte only a cut connection tells a failure. *)
rawTail(res, w) ==
    IF w.frames = <<>> THEN writeError(w, noAudio(res))
    ELSE [w EXCEPT !.closed = IF res.failure # None THEN "cut" ELSE "end"]

speechTail(res, w) ==
    IF w.frames = <<>> THEN writeError(w, noAudio(res))
    ELSE [writeFrame(w, IF res.failure # None \/ ~res.report THEN ErrorFrame(failureOf(res)) ELSE Frame("done")) EXCEPT !.closed = "end"]

answerOf(r, res, f, w) ==
    CASE Mode(r) = "events" -> eventsTail(res, w)
      [] Mode(r) = "chunks" -> chunksTail(res, w)
      [] Mode(r) = "raw"    -> rawTail(res, w)
      [] Mode(r) = "speech" -> speechTail(res, w)
      [] OTHER              -> wholeAnswer(r, res, f, w)

(***************************************************************************)
(* Actions                                                                 *)
(***************************************************************************)
ApiInit ==
    /\ phase = "idle" /\ q = None /\ ask = None /\ plan = None /\ events = <<>> /\ folded = Empty /\ broken = FALSE
    /\ result = None /\ wire = Nothing /\ client = TRUE /\ grant = "none"

Refuse(r, error) == phase' = "answered" /\ q' = r /\ wire' = writeError(Nothing, error)

audioOf(r) == IF r.target # None /\ r.target.line \in DOMAIN Published THEN Published[r.target.line] ELSE None

(* The facts a grant is sized by, and what it must echo. *)
estimateOf(r) ==
    CASE r.endpoint \in {"responses", "chat"} -> estimatedTokens(r.messages)
      [] r.endpoint = "embeddings" -> FoldLeft(LAMBDA n, t : n + t \div 4 + 1, 0, r.texts)
      [] r.endpoint = "decisions" -> decisionEstimate(r, Framing)
      [] r.endpoint = "speech" -> r.input
      [] OTHER -> r.milliseconds

askOf(r, h) == [request |-> 1, operation |-> r.endpoint, body |-> r.body, key |-> h.key, estimate |-> estimateOf(r)]

(* A handler reads and checks the body, then admit its headers. *)
Receive(r, h, allowed) ==
    /\ phase = "idle"
    /\ LET refused == FirstOf(<<Refusal(r, Snapshot, audioOf(r)), admitRefusal(r, h, allowed)>>)
       IN IF refused # None
          THEN Refuse(r, NewPublicError(refused)) /\ ask' = None
          ELSE phase' = "asking" /\ q' = r /\ wire' = wire /\ ask' = askOf(r, h)
    /\ UNCHANGED <<plan, events, folded, broken, result, client, grant>>

(* What Oxy signs for an ask (external): the ask's own fields, or one of   *)
(* them for something else.                                                *)
signed(a, other) ==
    [request |-> IF other = "request" THEN 2 ELSE a.request, operation |-> IF other = "operation" THEN "none" ELSE a.operation,
     body |-> IF other = "body" THEN None ELSE a.body, key |-> IF other = "key" THEN 9 ELSE a.key, executeBy |-> IF other = "window" THEN 0 ELSE 1]

(* OxyAuthorizer.Authorize without a grant to use: one that does not       *)
(* verify or bind to this request is not believed, and its hold is left to *)
(* expire, as is one whose answer was lost.                                *)
Authorize(answer) ==
    /\ phase = "asking"
    /\ answer.kind = "cancelled" => ~client
    /\ CASE answer.kind = "refused" -> Refuse(q, refusal(answer)) /\ grant' = "none"
         [] answer.kind \in {"unreachable", "unverified"} -> Refuse(q, NewPublicError("service_unavailable")) /\ grant' = "expires"
         [] answer.kind = "cancelled" -> Refuse(q, NewPublicError("cancelled")) /\ grant' = "expires"
         [] answer.kind = "signed" -> /\ ~checkGrant(signed(ask, answer.other), ask, 1)
                                      /\ Refuse(q, NewPublicError("service_unavailable")) /\ grant' = "expires"
    /\ UNCHANGED <<ask, plan, events, folded, broken, result, client>>

(* A grant for this request resolves to a plan, or to no route and nothing *)
(* is written.                                                             *)
Granted(answer, p) ==
    /\ phase = "asking" /\ answer.kind = "signed" /\ checkGrant(signed(ask, answer.other), ask, 1)
    /\ IF p = None
       THEN Refuse(q, NewPublicError("no_route_available")) /\ grant' = "expires" /\ plan' = None
       ELSE phase' = "executing" /\ q' = q /\ wire' = wire /\ grant' = "held" /\ plan' = p
    /\ UNCHANGED <<ask, events, folded, broken, result, client>>

(* One event through the handler's sink.  A gone client breaks a write;    *)
(* audio that does not fit stops the answer.                               *)
Deliver(type, error) ==
    LET frames == Written(q, wire, type, error)
        failed == oversized(q, folded, type) \/ (frames # <<>> /\ ~client)
    IN /\ events' = Append(events, type)
       /\ folded' = fold(folded, type)
       /\ broken' = failed
       /\ wire' = IF failed \/ frames = <<>> THEN wire ELSE writeFrame(wire, frames[1])

Executable == Validate(Envelope(q, plan))
Live == phase = "executing" /\ ~broken /\ result = None
Begun == Contains(events, "start")

(* What the executor emits: audio only where the envelope asks for it. *)
Outputs(r) == CASE r.endpoint = "speech" -> {"audio"} [] r.endpoint \in {"decisions", "embeddings"} -> {} [] OTHER -> {"delta", "tool"}

Emit(type) ==
    /\ Live /\ Executable
    /\ \/ type = "switch" /\ events = <<>> /\ q.endpoint # "decisions"
       \/ type = "start" /\ ~Begun
       \/ type \in Outputs(q) /\ Begun /\ Len(events) < MaxOutput + 1
    /\ Deliver(type, None)
    /\ UNCHANGED <<phase, q, ask, plan, result, client, grant>>

Outcome(failure, report, whole, attempts) == [failure |-> failure, report |-> report, whole |-> whole, attempts |-> attempts]

(* The executor returns, with the terminal event first where it writes     *)
(* one; execute hands the result to the settlement's goroutine.            *)
Succeed(whole) ==
    /\ Live /\ Executable
    /\ IF whole THEN q.endpoint \in {"decisions", "embeddings"} ELSE q.endpoint # "decisions"
    /\ IF whole THEN UNCHANGED <<events, folded, broken, wire>> ELSE Begun /\ Deliver("done", None)
    /\ result' = Outcome(IF broken' THEN "cancelled" ELSE None, TRUE, whole, 1)
    /\ phase' = "finished"
    /\ UNCHANGED <<q, ask, plan, client, grant>>

Fail(code, attempts) ==
    /\ Live
    /\ IF Executable THEN code \in Failures ELSE code = "invalid_request" /\ attempts = 0
    /\ Begun => attempts = 1
    /\ Deliver("error", code)
    /\ result' = Outcome(code, attempts = 1, FALSE, attempts)
    /\ phase' = "finished"
    /\ UNCHANGED <<q, ask, plan, client, grant>>

(* The client is gone or an event was refused: nothing more is written. *)
Cancel ==
    /\ phase = "executing" /\ result = None /\ Executable
    /\ broken \/ ~client
    /\ \E attempts \in {0, 1} :
          /\ Begun => attempts = 1
          /\ result' = Outcome("cancelled", attempts = 1, FALSE, attempts)
    /\ phase' = "finished"
    /\ UNCHANGED <<q, ask, plan, events, folded, broken, wire, client, grant>>

(* The handler's tail. *)
Answer ==
    /\ phase = "finished"
    /\ wire' = IF client THEN answerOf(q, result, folded, wire) ELSE [wire EXCEPT !.closed = "end"]
    /\ phase' = "answered"
    /\ UNCHANGED <<q, ask, plan, events, folded, broken, result, client, grant>>

(* Mutant: nothing is settled for a request no attempt served. *)
SettleServed ==
    /\ grant = "held" /\ result # None /\ result.report
    /\ grant' = "settled"
    /\ UNCHANGED <<phase, q, ask, plan, events, folded, broken, result, wire, client>>

(* execute's goroutine, beside the answer: the result's report, or the     *)
(* unserved one.                                                           *)
Settle ==
    /\ grant = "held" /\ result # None
    /\ grant' = "settled"
    /\ UNCHANGED <<phase, q, ask, plan, events, folded, broken, result, wire, client>>

ClientLeaves ==
    /\ client /\ phase \in {"asking", "executing", "finished"}
    /\ client' = FALSE
    /\ UNCHANGED <<phase, q, ask, plan, events, folded, broken, result, wire, grant>>

Again ==
    /\ phase = "answered" /\ grant # "held"
    /\ phase' = "idle" /\ q' = None /\ ask' = None /\ plan' = None /\ events' = <<>> /\ folded' = Empty /\ broken' = FALSE
    /\ result' = None /\ wire' = Nothing /\ client' = TRUE /\ grant' = "none"

ApiStep == \/ Answer \/ Settle \/ Cancel
           \/ \E whole \in BOOLEAN : Succeed(whole)
           \/ \E code \in Failures \cup {"invalid_request"}, n \in {0, 1} : Fail(code, n)

ApiNext ==
    \/ ApiStep \/ ClientLeaves \/ Again
    \/ \E r \in Requests, h \in Headers, allowed \in BOOLEAN : Receive(r, h, allowed)
    \/ \E answer \in Oxy : Authorize(answer)
    \/ \E answer \in Oxy, p \in Plans \cup {None} : Granted(answer, p)
    \/ \E type \in {"switch", "start", "delta", "tool", "audio"} : Emit(type)

(* The executor returns (its adapters' calls end with the request's        *)
(* context) and goroutines run.                                            *)
ApiFairness == WF_apiVars(ApiStep)
ApiSpec == ApiInit /\ [][ApiNext]_apiVars /\ ApiFairness

(***************************************************************************)
(* Properties                                                              *)
(***************************************************************************)
ToldFailure == wire.closed = "cut" \/ (wire.frames = <<>> /\ wire.status \notin {None, OK}) \/ (wire.frames # <<>> /\ Last(wire.frames).type = "error")

(* A client that reads to the end knows what happened: a failed execution  *)
(* is an HTTP error, an error frame or a cut connection, whichever the     *)
(* bytes already sent still allow; one that succeeded and produced         *)
(* something ends with the success its mode has; nothing follows either,   *)
(* no status changes once a frame was sent, and route switches never show. *)
AnswerIsTruthful ==
    /\ \A i \in 1..Len(wire.frames) : /\ wire.frames[i].type # "switch"
                                      /\ wire.frames[i].type \in Final => i = Len(wire.frames)
    /\ wire.frames # <<>> => wire.status = OK
    /\ phase = "answered" /\ client =>
          /\ wire.status # None /\ wire.closed # "open"
          /\ result # None /\ result.failure # None => ToldFailure
          /\ result # None /\ result.failure = None /\ ~ToldFailure =>
                IF Mode(q) \in {"raw", "whole"} THEN wire.closed = "end" /\ Len(wire.frames) > 0 ELSE Last(wire.frames).type = "done"
          /\ result # None /\ result.failure = None /\ ToldFailure => (q.endpoint = "speech" /\ folded.audio = 0) \/ (q.endpoint = "embeddings" /\ ~result.whole)

(* Every hold Kaana executed under is settled, also when the client left,  *)
(* the envelope was refused or no attempt was made.                        *)
HeldIsSettled == (grant = "held") ~> (grant = "settled")

=============================================================================

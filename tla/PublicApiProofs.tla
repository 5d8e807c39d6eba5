-------------------------- MODULE PublicApiProofs --------------------------
(***************************************************************************)
(* Proofs about the public API: that a client is told the truth about its  *)
(* request (PublicApi), that its gate holds (PublicGate), and that what is *)
(* executed keeps to the grant (GrantPlan, SnapshotStore).                 *)
(***************************************************************************)
EXTENDS SnapshotStore, PublicApi, PublicGate, FiniteSetTheorems, WellFoundedInduction, TLAPS

(***************************************************************************)
(* Refusals before Oxy is asked                                            *)
(***************************************************************************)

\* Every nonempty set of natural numbers has a least element.
LEMMA LeastNatural ==
  ASSUME NEW T \in SUBSET Nat, T # {}
  PROVE  Min(T) \in T /\ \A y \in T : Min(T) <= y
<1> DEFINE R == {ss \in Nat \X Nat : ss[1] < ss[2]}
<1>1. IsWellFoundedOn(R, Nat)
  BY NatLessThanWellFounded, Zenon DEF OpToRel
<1> HIDE DEF R
<1>2. PICK x \in T : \A y \in T : ~ (<<y, x>> \in R)
  BY <1>1, WFMin
<1>3. ASSUME NEW y \in T
      PROVE  x <= y
  <2>1. x \in Nat /\ y \in Nat
    OBVIOUS
  <2>2. ~(<<y, x>> \in R)
    BY <1>2
  <2>3. QED
    BY <2>1, <2>2, SMT DEF R
<1>4. QED
  BY <1>2, <1>3, Zenon DEF Min

\* The codes a handler's own checks refuse with.
Checks == {None, "invalid_request", "request_too_large", "model_not_found", "unsupported_modality", "authentication_failed", "rate_limited"}

\* The first failed check of a list of them is one of its codes.
LEMMA FirstOfChecks ==
  ASSUME NEW checks \in Seq(Checks)
  PROVE  FirstOf(checks) \in Checks
<1> DEFINE failed == {i \in 1..Len(checks) : checks[i] # None}
<1>1. failed \subseteq Nat
  OBVIOUS
<1>2. CASE failed = {}
  BY <1>2 DEF FirstOf, Checks
<1>3. CASE failed # {}
  <2>1. Min(failed) \in failed
    BY <1>1, <1>3, LeastNatural
  <2>2. checks[Min(failed)] \in Checks
    <3> HIDE DEF Checks
    <3>1. Min(failed) \in 1..Len(checks)
      BY <2>1
    <3> QED BY <3>1
  <2> QED BY <1>3, <2>2 DEF FirstOf
<1> QED BY <1>2, <1>3

LEMMA WhenChecks ==
  ASSUME NEW failed, NEW code \in Checks
  PROVE  When(failed, code) \in Checks
BY DEF When, Checks

LEMMA InvalidChecks ==
  ASSUME NEW failed
  PROVE  Invalid(failed) \in Checks
BY DEF When, Invalid, Checks

LEMMA CodeChecks ==
  /\ None \in Checks /\ "invalid_request" \in Checks /\ "request_too_large" \in Checks /\ "model_not_found" \in Checks
  /\ "unsupported_modality" \in Checks /\ "authentication_failed" \in Checks /\ "rate_limited" \in Checks
BY DEF Checks

\* A list of two to six checks refuses with one of their codes.
LEMMA TwoChecks ==
  ASSUME NEW a \in Checks, NEW b \in Checks
  PROVE  FirstOf(<<a, b>>) \in Checks
BY FirstOfChecks, <<a, b>> \in Seq(Checks)

LEMMA ThreeChecks ==
  ASSUME NEW a \in Checks, NEW b \in Checks, NEW c \in Checks
  PROVE  FirstOf(<<a, b, c>>) \in Checks
BY FirstOfChecks, <<a, b, c>> \in Seq(Checks)

LEMMA FourChecks ==
  ASSUME NEW a \in Checks, NEW b \in Checks, NEW c \in Checks, NEW d \in Checks
  PROVE  FirstOf(<<a, b, c, d>>) \in Checks
BY FirstOfChecks, <<a, b, c, d>> \in Seq(Checks)

LEMMA FiveChecks ==
  ASSUME NEW a \in Checks, NEW b \in Checks, NEW c \in Checks, NEW d \in Checks, NEW e \in Checks
  PROVE  FirstOf(<<a, b, c, d, e>>) \in Checks
BY FirstOfChecks, <<a, b, c, d, e>> \in Seq(Checks)

LEMMA SixChecks ==
  ASSUME NEW a \in Checks, NEW b \in Checks, NEW c \in Checks, NEW d \in Checks, NEW e \in Checks, NEW f \in Checks
  PROVE  FirstOf(<<a, b, c, d, e, f>>) \in Checks
BY FirstOfChecks, <<a, b, c, d, e, f>> \in Seq(Checks)

\* Each of a handler's steps refuses with one of these codes, or passes.
LEMMA requireJSONChecks ==
  ASSUME NEW body
  PROVE  requireJSON(body) \in Checks
BY InvalidChecks DEF requireJSON

LEMMA readBodyChecks ==
  ASSUME NEW body, NEW limit
  PROVE  readBody(body, limit) \in Checks
BY TwoChecks, InvalidChecks, WhenChecks, CodeChecks DEF readBody

LEMMA decodeRequestChecks ==
  ASSUME NEW body, NEW fields
  PROVE  decodeRequest(body, fields) \in Checks
BY FourChecks, InvalidChecks, rejectDuplicateKeys(body) \in Checks DEF decodeRequest, rejectDuplicateKeys

LEMMA readJSONChecks ==
  ASSUME NEW body, NEW fields
  PROVE  readJSON(body, fields) \in Checks
BY ThreeChecks, requireJSONChecks, readBodyChecks, decodeRequestChecks DEF readJSON

LEMMA validateResponsesChecks ==
  ASSUME NEW r
  PROVE  validateResponses(r) \in Checks
BY FiveChecks, InvalidChecks DEF validateResponses

LEMMA chatMessagesChecks ==
  ASSUME NEW r
  PROVE  chatMessages(r) \in Checks
<1>1. PICK a \in Checks : a = Invalid(r.messages = <<>>)
  BY InvalidChecks
<1>2. PICK b \in Checks : b = Invalid(r.maxTokens # None /\ r.maxCompletion # None)
  BY InvalidChecks
<1>3. PICK c \in Checks : c = Invalid(~(ToSet(r.modalities) \subseteq {"text", "audio"}))
  BY InvalidChecks
<1>4. PICK d \in Checks : d = Invalid(~Contains(r.modalities, "text"))
  BY InvalidChecks
<1>5. PICK e \in Checks : e = Invalid(Contains(r.modalities, "audio") # (r.audio # None))
  BY InvalidChecks
<1>6. PICK f \in Checks : f = Invalid(Contains(r.modalities, "audio") /\ r.stream /\ r.audio.format # "pcm16")
  BY InvalidChecks
<1>7. PICK g \in Checks : g = Invalid(r.choice /\ r.tools = <<>>)
  BY InvalidChecks
<1>8. PICK h \in Checks : h = Invalid(\E m \in ToSet(r.messages) : m.foreignCalls)
  BY InvalidChecks
<1>9. chatMessages(r) = FirstOf(<<a, b, c, d, e, f, g, h>>)
  BY <1>1, <1>2, <1>3, <1>4, <1>5, <1>6, <1>7, <1>8, Zenon DEF chatMessages
<1> QED BY <1>9, FirstOfChecks, <<a, b, c, d, e, f, g, h>> \in Seq(Checks)

LEMMA validateEmbeddingsChecks ==
  ASSUME NEW r
  PROVE  validateEmbeddings(r) \in Checks
BY FourChecks, InvalidChecks, userField(r.user) \in Checks DEF validateEmbeddings, userField

LEMMA validateDecisionsChecks ==
  ASSUME NEW r
  PROVE  validateDecisions(r) \in Checks
BY TwoChecks, InvalidChecks DEF validateDecisions

LEMMA checkSpeechChecks ==
  ASSUME NEW r, NEW audio
  PROVE  checkSpeech(r, audio) \in Checks
BY FourChecks, InvalidChecks DEF checkSpeech

LEMMA validateSpeechChecks ==
  ASSUME NEW r, NEW audio
  PROVE  validateSpeech(r, audio) \in Checks
<1>1. PICK a \in Checks : a = Invalid(~ValidTarget(r.target) \/ r.target.kind # "model")
  BY InvalidChecks, checkSpeechChecks, CodeChecks DEF userField
<1>2. PICK b \in Checks : b = Invalid(r.input \notin 1..MaxText)
  BY InvalidChecks, checkSpeechChecks, CodeChecks DEF userField
<1>3. PICK c \in Checks : c = Invalid(r.voice \notin 1..MaxName)
  BY InvalidChecks, checkSpeechChecks, CodeChecks DEF userField
<1>4. PICK d \in Checks : d = Invalid(speechFormatOf(r) \notin SpeechFormats)
  BY InvalidChecks, checkSpeechChecks, CodeChecks DEF userField
<1>5. PICK e \in Checks : e = Invalid(~Within(r.speed, 1, 4))
  BY InvalidChecks, checkSpeechChecks, CodeChecks DEF userField
<1>6. PICK f \in Checks : f = Invalid(r.streamFormat # None /\ ~r.stream)
  BY InvalidChecks, checkSpeechChecks, CodeChecks DEF userField
<1>7. PICK g \in Checks : g = Invalid(r.streamFormat \notin {None, "audio", "sse"})
  BY InvalidChecks, checkSpeechChecks, CodeChecks DEF userField
<1>8. PICK h \in Checks : h = Invalid(r.stream /\ speechFormatOf(r) \notin {"mp3", "pcm"})
  BY InvalidChecks, checkSpeechChecks, CodeChecks DEF userField
<1>9. PICK i \in Checks : i = userField(r.user)
  BY InvalidChecks, checkSpeechChecks, CodeChecks DEF userField
<1>10. PICK j \in Checks : j = IF audio = None THEN None ELSE checkSpeech(r, audio)
  BY InvalidChecks, checkSpeechChecks, CodeChecks DEF userField
<1>11. validateSpeech(r, audio) = FirstOf(<<a, b, c, d, e, f, g, h, i, j>>)
  BY <1>1, <1>2, <1>3, <1>4, <1>5, <1>6, <1>7, <1>8, <1>9, <1>10, Zenon DEF validateSpeech
<1> QED BY <1>11, FirstOfChecks, <<a, b, c, d, e, f, g, h, i, j>> \in Seq(Checks)

LEMMA parseTranscriptionMultipartChecks ==
  ASSUME NEW r
  PROVE  parseTranscriptionMultipart(r) \in Checks
BY FiveChecks, InvalidChecks DEF parseTranscriptionMultipart

LEMMA parseTranscriptionJSONChecks ==
  ASSUME NEW r
  PROVE  parseTranscriptionJSON(r) \in Checks
BY ThreeChecks, InvalidChecks, decodeRequestChecks, WhenChecks, CodeChecks DEF parseTranscriptionJSON

LEMMA validateTranscriptionChecks ==
  ASSUME NEW r
  PROVE  validateTranscription(r) \in Checks
BY SixChecks, InvalidChecks, WhenChecks, CodeChecks DEF validateTranscription

LEMMA checkTranscriptionChecks ==
  ASSUME NEW r, NEW inv
  PROVE  checkTranscription(r, inv) \in Checks
BY InvalidChecks, CodeChecks DEF checkTranscription

LEMMA measuredAudioChecks ==
  ASSUME NEW r
  PROVE  measuredAudio(r) \in Checks
BY TwoChecks, InvalidChecks, WhenChecks, CodeChecks DEF measuredAudio

LEMMA readTranscriptionChecks ==
  ASSUME NEW r
  PROVE  readTranscription(r) \in Checks
BY TwoChecks, readBodyChecks, parseTranscriptionMultipartChecks, parseTranscriptionJSONChecks, CodeChecks DEF readTranscription

LEMMA validateImagesChecks ==
  ASSUME NEW r
  PROVE  validateImages(r) \in Checks
BY FourChecks, InvalidChecks, CodeChecks DEF validateImages

LEMMA admitRefusalChecks ==
  ASSUME NEW r, NEW h, NEW allowed
  PROVE  admitRefusal(r, h, allowed) \in Checks
BY FiveChecks, InvalidChecks, WhenChecks, CodeChecks DEF admitRefusal

\* A handler refuses a request before it asks Oxy with a public error code.
LEMMA RefusalChecks ==
  ASSUME NEW r, NEW inv, NEW audio, r.endpoint \in Endpoints
  PROVE  Refusal(r, inv, audio) \in Checks
<1>1. CASE r.endpoint = "responses"
  BY <1>1, FiveChecks, readJSONChecks, InvalidChecks, validateResponsesChecks DEF Refusal, modelTarget, responsesInput, imageInput
<1>2. CASE r.endpoint = "chat"
  BY <1>2, FiveChecks, readJSONChecks, InvalidChecks, chatMessagesChecks DEF Refusal, modelTarget, chatStop, imageInput
<1>3. CASE r.endpoint = "embeddings"
  BY <1>3, ThreeChecks, readJSONChecks, InvalidChecks, validateEmbeddingsChecks DEF Refusal, embeddingsInput
<1>4. CASE r.endpoint = "decisions"
  BY <1>4, TwoChecks, readJSONChecks, validateDecisionsChecks DEF Refusal
<1>5. CASE r.endpoint = "speech"
  BY <1>5, TwoChecks, readJSONChecks, validateSpeechChecks DEF Refusal
<1>6. CASE r.endpoint = "transcriptions"
  BY <1>6, FourChecks, readTranscriptionChecks, validateTranscriptionChecks, checkTranscriptionChecks, measuredAudioChecks DEF Refusal
<1>7. CASE r.endpoint = "images"
  BY <1>7, TwoChecks, readJSONChecks, validateImagesChecks DEF Refusal
<1> QED BY <1>1, <1>2, <1>3, <1>4, <1>5, <1>6, <1>7 DEF Endpoints
(***************************************************************************)
(* The wire                                                                *)
(***************************************************************************)
Errors == [code : ErrorCode \cup {"ok"}, retryable : BOOLEAN]
EventTypes == {"switch", "start", "delta", "tool", "audio", "done", "error"}
FrameTypes == EventTypes \cup {"finish", "answer"}
Frames == [type : FrameTypes] \cup [type : FrameTypes, error : Errors]
Wires == [status : {None, OK} \cup Errors, frames : Seq(Frames), closed : {"open", "end", "cut"}]
Collected == [text : Nat, tools : Nat, audio : Nat, finish : BOOLEAN]
Modes == {"events", "chunks", "raw", "speech", "whole"}

\* The codes the handlers name are the contract's, and none is ok.
LEMMA CodesKnown ==
  /\ Checks \subseteq ErrorCode \cup {None}
  /\ {"service_unavailable", "internal_error", "cancelled", "no_route_available", "provider_error", "output_limit_exceeded", "invalid_request"}
        \subseteq ErrorCode
  /\ "ok" \notin ErrorCode
BY DEF Checks, ErrorCode, NonRetryable

\* A public error is a record of a code, and neither None nor OK.
LEMMA ErrorType ==
  ASSUME NEW code \in ErrorCode
  PROVE  /\ NewPublicError(code) \in Errors
         /\ NewPublicError(code) # None
         /\ NewPublicError(code) # OK
<1>1. (code \notin NonRetryable) \in BOOLEAN
  OBVIOUS
<1>2. PICK b \in BOOLEAN : b = (code \notin NonRetryable)
  BY <1>1
<1>3. NewPublicError(code) = [code |-> code, retryable |-> b]
  BY <1>2, Zenon DEF NewPublicError, Retryable
<1>4. NewPublicError(code) \in Errors
  BY <1>3 DEF Errors
<1>5. NewPublicError(code) # None
  BY <1>4, ApiAssumption DEF Errors
<1>6. NewPublicError(code) # OK
  <2>1. code # "ok"
    BY CodesKnown
  <2> QED BY <1>3, <2>1 DEF OK
<1> QED BY <1>4, <1>5, <1>6

\* What an execution fails with is told as an error that is not OK.
LEMMA PublicErrorType ==
  ASSUME NEW code \in ErrorCode
  PROVE  /\ PublicErrorFrom(code) \in Errors
         /\ PublicErrorFrom(code) # None
         /\ PublicErrorFrom(code) # OK
BY ErrorType, CodesKnown DEF PublicErrorFrom

LEMMA OKType == OK \in Errors /\ OK # None
<1>1. OK \in Errors
  BY DEF OK, Errors
<1> QED BY <1>1, ApiAssumption DEF Errors

\* A wire's writes.
LEMMA FrameType ==
  ASSUME NEW type \in FrameTypes
  PROVE  Frame(type) \in Frames /\ Frame(type).type = type
BY DEF Frame, Frames

LEMMA ErrorFrameType ==
  ASSUME NEW e \in Errors
  PROVE  ErrorFrame(e) \in Frames /\ ErrorFrame(e).type = "error"
<1>1. "error" \in FrameTypes
  BY DEF FrameTypes, EventTypes
<1> QED BY <1>1 DEF ErrorFrame, Frames

LEMMA NothingType ==
  /\ Nothing \in Wires
  /\ Nothing.status = None /\ Nothing.frames = <<>> /\ Nothing.closed = "open"
BY DEF Nothing, Wires

LEMMA WriteFrameType ==
  ASSUME NEW w \in Wires, NEW f \in Frames
  PROVE  /\ writeFrame(w, f) \in Wires
         /\ writeFrame(w, f).status = OK
         /\ writeFrame(w, f).frames = Append(w.frames, f)
         /\ writeFrame(w, f).closed = w.closed
<1>1. Append(w.frames, f) \in Seq(Frames)
  BY DEF Wires
<1> QED BY <1>1 DEF writeFrame, Wires

LEMMA WriteErrorType ==
  ASSUME NEW w \in Wires, NEW e \in Errors, w.status = None
  PROVE  /\ writeError(w, e) \in Wires
         /\ writeError(w, e).status = e
         /\ writeError(w, e).frames = w.frames
         /\ writeError(w, e).closed = "end"
BY DEF writeError, Wires

LEMMA WriteAnswerType ==
  ASSUME NEW w \in Wires
  PROVE  /\ writeAnswer(w) \in Wires
         /\ writeAnswer(w).status = OK
         /\ Len(writeAnswer(w).frames) = 1 /\ writeAnswer(w).frames[1].type = "answer"
         /\ writeAnswer(w).closed = "end"
<1>1. PICK f \in Frames : f = [type |-> "answer"]
  BY "answer" \in FrameTypes DEF Frames, FrameTypes
<1>2. PICK s : s = <<f>>
  OBVIOUS
<1>3. writeAnswer(w) = [w EXCEPT !.status = OK, !.frames = s, !.closed = "end"]
  BY <1>1, <1>2, Zenon DEF writeAnswer
<1>4. s \in Seq(Frames) /\ Len(s) = 1 /\ s[1] = f
  BY <1>1, <1>2
<1>5. /\ writeAnswer(w) \in Wires
      /\ writeAnswer(w).status = OK /\ writeAnswer(w).frames = s /\ writeAnswer(w).closed = "end"
  BY <1>3, <1>4 DEF Wires
<1> QED BY <1>1, <1>4, <1>5

LEMMA CloseType ==
  ASSUME NEW w \in Wires, NEW c \in {"end", "cut"}
  PROVE  /\ [w EXCEPT !.closed = c] \in Wires
         /\ [w EXCEPT !.closed = c].status = w.status
         /\ [w EXCEPT !.closed = c].frames = w.frames
         /\ [w EXCEPT !.closed = c].closed = c
BY DEF Wires

\* How an answer is delivered follows from its endpoint.
LEMMA ModeOf ==
  ASSUME NEW r
  PROVE  /\ Mode(r) \in Modes
         /\ Mode(r) = "events" => r.endpoint = "responses"
         /\ Mode(r) = "chunks" => r.endpoint = "chat"
         /\ Mode(r) \in {"raw", "speech"} => r.endpoint = "speech"
BY DEF Mode, Modes

\* What a sink writes for an event is nothing or one frame of its type.
LEMMA WrittenFrame ==
  ASSUME NEW r, NEW w, NEW type \in EventTypes, NEW error, type = "error" => error \in ErrorCode
  PROVE  \/ Written(r, w, type, error) = <<>>
         \/ \E f \in Frames : Written(r, w, type, error) = <<f>> /\ f.type = type /\ type # "switch" /\ (type = "error" => w.frames # <<>>)
<1> HIDE DEF Mode
<1>1. type \in FrameTypes
  BY DEF FrameTypes
<1>2. CASE Mode(r) = "events"
  <2>1. CASE type = "error" /\ w.frames # <<>>
    <3>1. ErrorFrame(PublicErrorFrom(error)) \in Frames /\ ErrorFrame(PublicErrorFrom(error)).type = "error"
      BY <2>1, PublicErrorType, ErrorFrameType
    <3> QED BY <1>2, <2>1, <3>1 DEF Written, streamSink
  <2>2. CASE type \notin {"error", "switch"}
    BY <1>1, <1>2, <2>2, FrameType DEF Written, streamSink
  <2> QED BY <1>2, <2>1, <2>2 DEF Written, streamSink
<1>3. CASE Mode(r) = "chunks"
  BY <1>1, <1>3, FrameType DEF Written, chatStream
<1>4. CASE Mode(r) \in {"raw", "speech"}
  BY <1>1, <1>4, FrameType DEF Written, speechAudio
<1>5. CASE Mode(r) \notin {"events", "chunks", "raw", "speech"}
  BY <1>5 DEF Written
<1> QED BY <1>2, <1>3, <1>4, <1>5

\* When it is nothing.
LEMMA WrittenWhen ==
  ASSUME NEW r, NEW w, NEW type \in EventTypes, NEW error
  PROVE  /\ Mode(r) = "whole" => Written(r, w, type, error) = <<>>
         /\ Mode(r) # "events" /\ type \in Final => Written(r, w, type, error) = <<>>
         /\ Mode(r) \in {"events", "chunks"} /\ type = "start" => Written(r, w, type, error) # <<>>
         /\ Mode(r) \in {"raw", "speech"} /\ type = "audio" => Written(r, w, type, error) # <<>>
         /\ Mode(r) = "events" /\ type = "done" => Written(r, w, type, error) # <<>>
         /\ Mode(r) = "events" /\ type = "error" /\ w.frames # <<>> => Written(r, w, type, error) # <<>>
<1> HIDE DEF Mode
<1>1. CASE Mode(r) = "events"
  BY <1>1 DEF Written, streamSink, Final
<1>2. CASE Mode(r) = "chunks"
  BY <1>2 DEF Written, chatStream, Final
<1>3. CASE Mode(r) \in {"raw", "speech"}
  BY <1>3 DEF Written, speechAudio, Final
<1>4. CASE Mode(r) = "whole"
  BY <1>4 DEF Written
<1> QED BY <1>1, <1>2, <1>3, <1>4, ModeOf DEF Modes
(***************************************************************************)
(* The inductive invariant                                                 *)
(***************************************************************************)
ApiTypeOK == wire \in Wires /\ folded \in Collected /\ events \in Seq(EventTypes)

\* No frame shows a route switch, none follows a final one, and none is sent
\* under another status than OK.
FramesInOrder ==
    /\ \A i \in 1..Len(wire.frames) : wire.frames[i].type # "switch" /\ (wire.frames[i].type \in Final => i = Len(wire.frames))
    /\ wire.frames # <<>> => wire.status = OK

NoFinal == \A i \in 1..Len(wire.frames) : wire.frames[i].type \notin Final

\* Nothing of an earlier request is left before execution.
Unstarted == phase \in {"idle", "asking"} => wire = Nothing /\ events = <<>> /\ folded = Empty /\ broken = FALSE /\ result = None

\* While the executor runs and after it returned, up to the handler's tail.
Streamed ==
    /\ wire.closed = "open" /\ (wire.frames = <<>> => wire.status = None)
    /\ Mode(q) = "whole" => wire.frames = <<>>
    /\ client /\ broken => Mode(q) = "whole"
    /\ client /\ Begun /\ Mode(q) \in {"events", "chunks"} => wire.frames # <<>>
    /\ client /\ folded.audio > 0 /\ Mode(q) \in {"raw", "speech"} => wire.frames # <<>>
    /\ ~broken /\ Mode(q) = "whole" => folded.audio <= MaxAudio

Streaming == phase \in {"executing", "finished"} => Streamed /\ (Mode(q) # "events" \/ phase = "executing" => NoFinal)

Running == phase = "executing" => result = None

\* The result agrees with what was streamed.
Returned ==
    phase = "finished" =>
        /\ result.failure \in ErrorCode \cup {None}
        /\ result.failure = None =>
              /\ result.report /\ ~broken /\ (q.endpoint = "decisions" => result.whole)
              /\ Mode(q) \in {"events", "chunks"} => Begun
        /\ client /\ Mode(q) = "events" /\ wire.frames # <<>> =>
              Last(wire.frames).type = IF result.failure = None THEN "done" ELSE "error"

\* What AnswerIsTruthful says of an answered request.
Told ==
    phase = "answered" /\ client =>
          /\ wire.status # None /\ wire.closed # "open"
          /\ result # None /\ result.failure # None => ToldFailure
          /\ result # None /\ result.failure = None /\ ~ToldFailure =>
                IF Mode(q) \in {"raw", "whole"} THEN wire.closed = "end" /\ Len(wire.frames) > 0 ELSE Last(wire.frames).type = "done"
          /\ result # None /\ result.failure = None /\ ToldFailure => (q.endpoint = "speech" /\ folded.audio = 0) \/ (q.endpoint = "embeddings" /\ ~result.whole)

ApiInv == ApiTypeOK /\ FramesInOrder /\ Unstarted /\ Streaming /\ Running /\ Returned /\ Told

LEMMA ApiInvInit == ApiInit => ApiInv
<1> SUFFICES ASSUME ApiInit PROVE ApiInv
  OBVIOUS
<1>1. wire = Nothing /\ wire.frames = <<>> /\ wire \in Wires /\ Len(wire.frames) = 0
  BY NothingType DEF ApiInit
<1>2. Empty \in Collected
  BY DEF Empty, Collected
<1>3. ApiTypeOK
  BY <1>1, <1>2 DEF ApiInit, ApiTypeOK
<1>4. FramesInOrder
  BY <1>1 DEF FramesInOrder
<1> QED BY <1>1, <1>3, <1>4 DEF ApiInit, ApiInv, Unstarted, Streaming, Running, Returned, Told

\* Nothing of the invariant depends on the variables it does not mention.
LEMMA ApiInvStutter ==
  ASSUME ApiInv, UNCHANGED <<phase, q, events, folded, broken, result, wire, client>>
  PROVE  ApiInv'
BY Zenon DEF ApiInv, ApiTypeOK, FramesInOrder, NoFinal, Unstarted, Streaming, Streamed, Running, Returned, Told, ToldFailure, Begun

\* A refusal before execution: an error, and nothing else on the wire.
LEMMA RefuseStep ==
  ASSUME ApiInv, phase \in {"idle", "asking"}, NEW r, NEW error \in Errors, error # None, Refuse(r, error),
         UNCHANGED <<events, folded, broken, result>>
  PROVE  ApiInv'
<1>1. wire'.frames = <<>> /\ wire'.status = error /\ wire'.closed = "end" /\ wire' \in Wires /\ Len(wire'.frames) = 0
  BY NothingType, WriteErrorType DEF Refuse
<1>2. result = None /\ phase' = "answered"
  BY DEF ApiInv, Unstarted, Refuse
<1>3. ApiTypeOK'
  BY <1>1 DEF ApiInv, ApiTypeOK
<1>4. FramesInOrder'
  BY <1>1 DEF FramesInOrder
<1>5. Told'
  BY <1>1, <1>2 DEF Told
<1> QED BY <1>2, <1>3, <1>4, <1>5 DEF ApiInv, Unstarted, Streaming, Running, Returned

\* A handler's checks, then admit's.
LEMMA ReceiveStep ==
  ASSUME ApiInv, NEW r \in Requests, NEW h \in Headers, NEW allowed \in BOOLEAN, Receive(r, h, allowed)
  PROVE  ApiInv'
<1>1. PICK refused0 : refused0 = FirstOf(<<Refusal(r, Snapshot, audioOf(r)), admitRefusal(r, h, allowed)>>)
  OBVIOUS
<1>2. refused0 \in Checks
  BY <1>1, TwoChecks, RefusalChecks, admitRefusalChecks, ApiAssumption
<1>3. CASE refused0 # None
  <2>1. NewPublicError(refused0) \in Errors /\ NewPublicError(refused0) # None
    BY <1>2, <1>3, CodesKnown, ErrorType
  <2>2. Refuse(r, NewPublicError(refused0)) /\ phase = "idle" /\ UNCHANGED <<events, folded, broken, result>>
    BY <1>1, <1>3 DEF Receive
  <2> QED BY <2>1, <2>2, RefuseStep
<1>4. CASE refused0 = None
  <2>1. phase = "idle" /\ phase' = "asking" /\ UNCHANGED <<wire, events, folded, broken, result, client>>
    BY <1>1, <1>4 DEF Receive
  <2> QED BY <2>1 DEF ApiInv, ApiTypeOK, FramesInOrder, Unstarted, Streaming, Running, Returned, Told
<1> QED BY <1>3, <1>4

LEMMA AuthorizeStep ==
  ASSUME ApiInv, NEW answer \in Oxy, Authorize(answer)
  PROVE  ApiInv'
<1>1. phase = "asking" /\ UNCHANGED <<events, folded, broken, result>>
  BY DEF Authorize
<1>2. NewPublicError("service_unavailable") \in Errors /\ NewPublicError("service_unavailable") # None
  BY CodesKnown, ErrorType
<1>3. NewPublicError("cancelled") \in Errors /\ NewPublicError("cancelled") # None
  BY CodesKnown, ErrorType
<1>4. NewPublicError("internal_error") \in Errors /\ NewPublicError("internal_error") # None
  BY CodesKnown, ErrorType
<1>5. answer.kind = "refused" => refusal(answer) \in Errors /\ refusal(answer) # None
  BY <1>2, <1>4, ApiAssumption, PublicErrorType DEF refusal
<1>6. CASE answer.kind = "refused"
  BY <1>1, <1>5, <1>6, RefuseStep DEF Authorize
<1>7. CASE answer.kind \in {"unreachable", "unverified"}
  BY <1>1, <1>2, <1>7, RefuseStep DEF Authorize
<1>8. CASE answer.kind = "cancelled"
  BY <1>1, <1>3, <1>8, RefuseStep DEF Authorize
<1>9. CASE answer.kind = "signed"
  BY <1>1, <1>2, <1>9, RefuseStep DEF Authorize
<1>10. answer.kind \in {"refused", "unreachable", "unverified", "cancelled", "signed"}
  BY ApiAssumption
<1> QED BY <1>6, <1>7, <1>8, <1>9, <1>10
\* A grant for this request starts the execution, or no route takes it.
LEMMA GrantedStep ==
  ASSUME ApiInv, NEW answer \in Oxy, NEW p \in Plans \cup {None}, Granted(answer, p)
  PROVE  ApiInv'
<1>1. phase = "asking" /\ UNCHANGED <<events, folded, broken, result, client>>
  BY DEF Granted
<1>2. CASE p = None
  <2>1. NewPublicError("no_route_available") \in Errors /\ NewPublicError("no_route_available") # None
    BY CodesKnown, ErrorType
  <2> QED BY <1>1, <1>2, <2>1, RefuseStep DEF Granted
<1>3. CASE p # None
  <2>1. phase' = "executing" /\ UNCHANGED <<wire, q>>
    BY <1>3 DEF Granted
  <2>2. wire = Nothing /\ events = <<>> /\ folded = Empty /\ broken = FALSE /\ result = None
    BY <1>1 DEF ApiInv, Unstarted
  <2>3. wire'.frames = <<>> /\ wire'.status = None /\ wire'.closed = "open" /\ Len(wire'.frames) = 0
    BY <2>1, <2>2, NothingType
  <2>4. folded'.audio = 0 /\ ~Begun'
    BY <1>1, <2>2 DEF Empty, Begun, Contains
  <2>5. Streamed' /\ NoFinal'
    BY <1>1, <2>2, <2>3, <2>4, ApiAssumption DEF Streamed, NoFinal
  <2>6. ApiTypeOK' /\ FramesInOrder'
    BY <1>1, <2>1 DEF ApiInv, ApiTypeOK, FramesInOrder
  <2> QED BY <1>1, <2>1, <2>2, <2>5, <2>6 DEF ApiInv, Unstarted, Streaming, Running, Returned, Told
<1> QED BY <1>2, <1>3

\* collected.fold counts audio events.
LEMMA FoldType ==
  ASSUME NEW f \in Collected, NEW type \in EventTypes
  PROVE  /\ fold(f, type) \in Collected
         /\ fold(f, type).audio = IF type = "audio" THEN f.audio + 1 ELSE f.audio
<1>1. CASE type = "done"
  <2>1. fold(f, type) = [f EXCEPT !.finish = TRUE]
    BY <1>1 DEF fold
  <2> QED BY <1>1, <2>1 DEF Collected
<1>2. CASE type # "done"
  BY <1>2 DEF fold, Collected, EventTypes
<1> QED BY <1>1, <1>2

\* One event through a sink, while the executor runs.
LEMMA DeliverStep ==
  ASSUME ApiInv, Live, NEW type \in EventTypes, NEW error, type = "error" => error \in ErrorCode, Deliver(type, error),
         UNCHANGED <<q, client>>
  PROVE  /\ ApiTypeOK' /\ FramesInOrder' /\ Streamed'
         /\ Mode(q) # "events" \/ type \notin Final => NoFinal'
         /\ client /\ Mode(q) = "events" /\ type \in Final /\ wire'.frames # <<>> => Last(wire'.frames).type = type
         /\ Begun => Begun'
<1>1. wire \in Wires /\ folded \in Collected /\ events \in Seq(EventTypes) /\ wire.frames \in Seq(Frames)
  BY DEF ApiInv, ApiTypeOK, Wires
<1>2. Streamed /\ NoFinal /\ FramesInOrder /\ ~broken
  BY DEF ApiInv, Streaming, Live
<1>3. PICK frames : frames = Written(q, wire, type, error)
  OBVIOUS
<1>4. PICK failed \in BOOLEAN : failed = (oversized(q, folded, type) \/ (frames # <<>> /\ ~client))
  OBVIOUS
<1>5. /\ events' = Append(events, type)
      /\ folded' = fold(folded, type)
      /\ broken' = failed
      /\ wire' = IF failed \/ frames = <<>> THEN wire ELSE writeFrame(wire, frames[1])
  BY <1>3, <1>4, Zenon DEF Deliver
<1>6. folded' \in Collected /\ folded'.audio = IF type = "audio" THEN folded.audio + 1 ELSE folded.audio
  BY <1>1, <1>5, FoldType
<1>7. folded.audio \in Nat /\ folded'.audio \in Nat
  BY <1>1, <1>6 DEF Collected
<1>8. events' \in Seq(EventTypes) /\ (Begun => Begun') /\ (Begun' => Begun \/ type = "start")
  BY <1>1, <1>5 DEF Begun, Contains
<1>9. \/ frames = <<>>
      \/ \E f \in Frames : frames = <<f>> /\ f.type = type /\ type # "switch" /\ (type = "error" => wire.frames # <<>>)
  BY <1>3, WrittenFrame
<1>10. /\ Mode(q) = "whole" => frames = <<>>
       /\ Mode(q) # "events" /\ type \in Final => frames = <<>>
       /\ Mode(q) \in {"events", "chunks"} /\ type = "start" => frames # <<>>
       /\ Mode(q) \in {"raw", "speech"} /\ type = "audio" => frames # <<>>
       /\ Mode(q) = "events" /\ type = "done" => frames # <<>>
       /\ Mode(q) = "events" /\ type = "error" /\ wire.frames # <<>> => frames # <<>>
  BY <1>3, WrittenWhen
<1>11. /\ failed /\ client => Mode(q) = "whole"
       /\ ~failed /\ Mode(q) = "whole" => folded'.audio <= MaxAudio
  <2>1. oversized(q, folded, type) <=> Mode(q) = "whole" /\ type = "audio" /\ folded.audio >= MaxAudio
    BY DEF oversized
  <2>2. failed => oversized(q, folded, type) \/ ~client
    BY <1>4
  <2>3. ~failed => ~oversized(q, folded, type)
    BY <1>4
  <2>4. MaxAudio \in Nat
    BY ApiAssumption
  <2>5. Mode(q) = "whole" => folded.audio <= MaxAudio
    BY <1>2 DEF Streamed
  <2> HIDE DEF Live, ApiInv
  <2>6. ~failed /\ Mode(q) = "whole" => folded'.audio <= MaxAudio
    BY <1>6, <1>7, <2>1, <2>3, <2>4, <2>5
  <2> QED BY <2>1, <2>2, <2>6
<1>12. CASE failed \/ frames = <<>>
  <2>1. wire' = wire
    BY <1>5, <1>12
  <2>2. ApiTypeOK' /\ FramesInOrder' /\ NoFinal'
    BY <1>1, <1>2, <1>6, <1>8, <2>1 DEF ApiTypeOK, FramesInOrder, NoFinal
  <2>3. client /\ ~failed => type # "start" \/ Mode(q) \notin {"events", "chunks"}
    BY <1>10, <1>12
  <2>4. client /\ ~failed => type # "audio" \/ Mode(q) \notin {"raw", "speech"}
    BY <1>10, <1>12
  <2>5. Streamed'
    <3>1. (wire.closed = "open" /\ (wire.frames = <<>> => wire.status = None))' /\ (Mode(q) = "whole" => wire.frames = <<>>)'
      BY <1>2, <2>1 DEF Streamed
    <3>2. (client /\ broken => Mode(q) = "whole")' /\ (~broken /\ Mode(q) = "whole" => folded.audio <= MaxAudio)'
      BY <1>5, <1>11
    <3>3. (client /\ Begun /\ Mode(q) \in {"events", "chunks"} => wire.frames # <<>>)'
      BY <1>2, <1>8, <1>11, <2>1, <2>3 DEF Streamed
    <3>4. (client /\ folded.audio > 0 /\ Mode(q) \in {"raw", "speech"} => wire.frames # <<>>)'
      BY <1>2, <1>6, <1>7, <1>11, <2>1, <2>4 DEF Streamed
    <3> QED BY <3>1, <3>2, <3>3, <3>4 DEF Streamed
  <2>6. client /\ Mode(q) = "events" /\ type \in Final => wire'.frames = <<>>
    BY <1>10, <1>11, <1>12, <2>1 DEF Final
  <2> QED BY <1>8, <2>2, <2>5, <2>6
<1>13. CASE ~failed /\ frames # <<>>
  <2>1. PICK f \in Frames : frames = <<f>> /\ f.type = type /\ type # "switch" /\ (type = "error" => wire.frames # <<>>)
    BY <1>9, <1>13
  <2>2. wire' = writeFrame(wire, f)
    BY <1>5, <1>13, <2>1
  <2>3. wire' \in Wires /\ wire'.status = OK /\ wire'.frames = Append(wire.frames, f) /\ wire'.closed = wire.closed
    BY <1>1, <2>2, WriteFrameType
  <2>4. /\ Len(wire'.frames) = Len(wire.frames) + 1 /\ Len(wire.frames) \in Nat /\ wire'.frames # <<>>
        /\ wire'.frames[Len(wire.frames) + 1] = f
        /\ \A i \in 1..Len(wire.frames) : wire'.frames[i] = wire.frames[i]
    BY <1>1, <2>3
  <2>5. ApiTypeOK' /\ FramesInOrder'
    BY <1>2, <1>6, <1>8, <2>1, <2>3, <2>4 DEF ApiTypeOK, FramesInOrder, NoFinal
  <2>6. type \notin Final => NoFinal'
    BY <1>2, <2>1, <2>4 DEF NoFinal
  <2>7. Last(wire'.frames).type = type
    BY <2>1, <2>4 DEF Last
  <2>8. Streamed'
    <3>1. wire'.closed = "open" /\ Mode(q) # "whole" /\ ~broken'
      BY <1>2, <1>5, <1>10, <1>13, <2>3 DEF Streamed
    <3> QED BY <2>4, <3>1 DEF Streamed
  <2> QED BY <1>8, <1>10, <1>13, <2>5, <2>6, <2>7, <2>8
<1> QED BY <1>12, <1>13
LEMMA EmitStep ==
  ASSUME ApiInv, NEW type \in {"switch", "start", "delta", "tool", "audio"}, Emit(type)
  PROVE  ApiInv'
<1>1. type \in EventTypes /\ type \notin Final /\ type # "error"
  BY DEF EventTypes, Final
<1>2. Live /\ Deliver(type, None) /\ UNCHANGED <<phase, q, result, client>>
  BY DEF Emit
<1>3. ApiTypeOK' /\ FramesInOrder' /\ Streamed' /\ NoFinal'
  BY <1>1, <1>2, DeliverStep
<1>4. phase' = "executing" /\ result' = None
  BY <1>2 DEF Live
<1> QED BY <1>3, <1>4 DEF ApiInv, Unstarted, Streaming, Running, Returned, Told

\* The executor returns with what its last event said.
LEMMA SucceedStep ==
  ASSUME ApiInv, NEW whole \in BOOLEAN, Succeed(whole)
  PROVE  ApiInv'
<1>1. Live /\ phase' = "finished" /\ UNCHANGED <<q, client>>
  BY DEF Succeed
<1>2. PICK failure : failure = IF broken' THEN "cancelled" ELSE None
  OBVIOUS
<1>3. failure \in ErrorCode \cup {None} /\ (failure = None => ~broken')
  BY <1>2, CodesKnown, ApiAssumption
<1>4. result' = Outcome(failure, TRUE, whole, 1)
  BY <1>2, Zenon DEF Succeed
<1>5. result'.failure = failure /\ result'.report = TRUE /\ result'.whole = whole
  BY <1>4 DEF Outcome
<1>6. CASE whole
  <2>1. q.endpoint \in {"decisions", "embeddings"} /\ UNCHANGED <<events, folded, broken, wire>>
    BY <1>6 DEF Succeed
  <2>2. Mode(q) = "whole"
    BY <2>1, ModeOf DEF Modes
  <2>3. ApiTypeOK' /\ FramesInOrder' /\ Streamed' /\ NoFinal'
    BY <1>1, <2>1 DEF ApiInv, Streaming, Live, ApiTypeOK, FramesInOrder, Streamed, NoFinal, Begun
  <2>4. Returned'
    BY <1>1, <1>3, <1>5, <1>6, <2>2 DEF Returned
  <2> QED BY <1>1, <2>3, <2>4 DEF ApiInv, Unstarted, Streaming, Running, Told
<1>7. CASE ~whole
  <2>1. q.endpoint # "decisions" /\ Begun /\ Deliver("done", None)
    BY <1>7 DEF Succeed
  <2>2. "done" \in EventTypes /\ "done" \in Final
    BY DEF EventTypes, Final
  <2>3. /\ ApiTypeOK' /\ FramesInOrder' /\ Streamed' /\ Begun'
        /\ Mode(q) # "events" => NoFinal'
        /\ client /\ Mode(q) = "events" /\ wire'.frames # <<>> => Last(wire'.frames).type = "done"
    BY <1>1, <2>1, <2>2, DeliverStep
  <2>4. client /\ Mode(q) = "events" => ~broken'
    BY <1>1, <2>3 DEF Streamed
  <2>5. client /\ Mode(q) = "events" => failure = None
    BY <1>2, <2>4
  <2>6. Returned'
    BY <1>1, <1>3, <1>5, <2>1, <2>3, <2>5 DEF Returned
  <2> QED BY <1>1, <2>3, <2>6 DEF ApiInv, Unstarted, Streaming, Running, Told
<1> QED BY <1>6, <1>7

LEMMA FailStep ==
  ASSUME ApiInv, NEW code \in Failures \cup {"invalid_request"}, NEW n \in {0, 1}, Fail(code, n)
  PROVE  ApiInv'
<1>1. Live /\ phase' = "finished" /\ UNCHANGED <<q, client>> /\ Deliver("error", code) /\ result' = Outcome(code, n = 1, FALSE, n)
  BY DEF Fail
<1>2. code \in ErrorCode /\ code # None
  BY ApiAssumption, CodesKnown
<1>3. result'.failure = code
  BY <1>1 DEF Outcome
<1>4. "error" \in EventTypes /\ "error" \in Final
  BY DEF EventTypes, Final
<1>5. /\ ApiTypeOK' /\ FramesInOrder' /\ Streamed'
      /\ Mode(q) # "events" => NoFinal'
      /\ client /\ Mode(q) = "events" /\ wire'.frames # <<>> => Last(wire'.frames).type = "error"
  BY <1>1, <1>2, <1>4, DeliverStep
<1>6. Returned'
  BY <1>1, <1>2, <1>3, <1>5 DEF Returned
<1> QED BY <1>1, <1>5, <1>6 DEF ApiInv, Unstarted, Streaming, Running, Told

\* Cancelled while the client still reads: only a whole answer that did not
\* fit, so no stream is left without its end.
LEMMA CancelStep ==
  ASSUME ApiInv, Cancel
  PROVE  ApiInv'
<1>1. PICK n \in {0, 1} : result' = Outcome("cancelled", n = 1, FALSE, n)
  BY DEF Cancel
<1>2. /\ phase = "executing" /\ phase' = "finished" /\ (broken \/ ~client)
      /\ UNCHANGED <<q, events, folded, broken, wire, client>>
  BY DEF Cancel
<1>3. result'.failure = "cancelled" /\ "cancelled" \in ErrorCode /\ "cancelled" # None
  BY <1>1, CodesKnown, ApiAssumption DEF Outcome
<1>4. ApiTypeOK' /\ FramesInOrder' /\ Streamed' /\ NoFinal'
  BY <1>2 DEF ApiInv, Streaming, ApiTypeOK, FramesInOrder, Streamed, NoFinal, Begun
<1>5. client => Mode(q) = "whole"
  BY <1>2 DEF ApiInv, Streaming, Streamed
<1>6. Returned'
  BY <1>2, <1>3, <1>5 DEF Returned
<1> QED BY <1>2, <1>4, <1>6 DEF ApiInv, Unstarted, Streaming, Running, Told

LEMMA ClientLeavesStep ==
  ASSUME ApiInv, ClientLeaves
  PROVE  ApiInv'
<1>1. client' = FALSE /\ UNCHANGED <<phase, q, events, folded, broken, result, wire>>
  BY DEF ClientLeaves
<1> QED
  BY <1>1 DEF ApiInv, ApiTypeOK, FramesInOrder, NoFinal, Unstarted, Streaming, Streamed, Running, Returned, Told, Begun

LEMMA AgainStep ==
  ASSUME ApiInv, Again
  PROVE  ApiInv'
<1>1. wire' = Nothing /\ wire'.frames = <<>> /\ wire' \in Wires /\ Len(wire'.frames) = 0
  BY NothingType DEF Again
<1>2. Empty \in Collected
  BY DEF Empty, Collected
<1>3. ApiTypeOK'
  BY <1>1, <1>2 DEF Again, ApiTypeOK
<1>4. FramesInOrder'
  BY <1>1 DEF FramesInOrder
<1> QED BY <1>1, <1>3, <1>4 DEF Again, ApiInv, Unstarted, Streaming, Running, Returned, Told
\* The error of an execution, when there is one to tell.
LEMMA FailureOfType ==
  ASSUME NEW res, res.failure \in ErrorCode \cup {None}
  PROVE  /\ failureOf(res) \in Errors \ {None, OK}
         /\ decisionFailure(res) \in Errors \ {None, OK}
         /\ noAudio(res) \in Errors \ {None, OK}
<1>1. failureOf(res) \in Errors \ {None, OK}
  BY ErrorType, PublicErrorType, CodesKnown DEF failureOf
<1>2. decisionFailure(res) \in Errors \ {None, OK}
  BY <1>1, ErrorType, CodesKnown DEF decisionFailure
<1>3. noAudio(res) \in Errors \ {None, OK}
  BY PublicErrorType, CodesKnown DEF noAudio
<1> QED BY <1>1, <1>2, <1>3

\* What AnswerIsTruthful says of an answer w to request r with result res.
TellsFailure(w) == w.closed = "cut" \/ (w.frames = <<>> /\ w.status \notin {None, OK}) \/ (w.frames # <<>> /\ Last(w.frames).type = "error")

Truthful(r, res, f, w) ==
    /\ w \in Wires
    /\ \A i \in 1..Len(w.frames) : w.frames[i].type # "switch" /\ (w.frames[i].type \in Final => i = Len(w.frames))
    /\ w.frames # <<>> => w.status = OK
    /\ w.status # None /\ w.closed # "open"
    /\ res.failure # None => TellsFailure(w)
    /\ res.failure = None /\ ~TellsFailure(w) =>
          IF Mode(r) \in {"raw", "whole"} THEN w.closed = "end" /\ Len(w.frames) > 0 ELSE Last(w.frames).type = "done"
    /\ res.failure = None /\ TellsFailure(w) => (r.endpoint = "speech" /\ f.audio = 0) \/ (r.endpoint = "embeddings" /\ ~res.whole)

\* An HTTP error is truthful wherever a failure is to be told.
LEMMA ErrorIsTruthful ==
  ASSUME NEW r, NEW res, NEW f, NEW w \in Wires, NEW e \in Errors \ {None, OK}, w.status = None, w.frames = <<>>,
         res.failure # None \/ (r.endpoint = "speech" /\ f.audio = 0) \/ (r.endpoint = "embeddings" /\ ~res.whole)
  PROVE  Truthful(r, res, f, writeError(w, e))
<1>1. PICK v : v = writeError(w, e)
  OBVIOUS
<1>2. v \in Wires /\ v.status = e /\ v.frames = <<>> /\ v.closed = "end" /\ Len(v.frames) = 0
  BY <1>1, WriteErrorType
<1>3. TellsFailure(v)
  BY <1>2 DEF TellsFailure
<1>4. Truthful(r, res, f, v)
  BY <1>2, <1>3 DEF Truthful
<1> QED BY <1>1, <1>4

\* A whole body is truthful for a success.
LEMMA BodyIsTruthful ==
  ASSUME NEW r, NEW res, NEW f, NEW w \in Wires, res.failure = None, Mode(r) = "whole"
  PROVE  Truthful(r, res, f, writeAnswer(w))
<1>1. PICK v : v = writeAnswer(w)
  OBVIOUS
<1>2. v \in Wires /\ v.status = OK /\ Len(v.frames) = 1 /\ v.frames[1].type = "answer" /\ v.closed = "end"
  BY <1>1, WriteAnswerType
<1>3. v.frames # <<>> /\ Last(v.frames).type = "answer"
  BY <1>2 DEF Last, Wires
<1>4. ~TellsFailure(v)
  BY <1>2, <1>3 DEF TellsFailure
<1>5. Truthful(r, res, f, v)
  BY <1>2, <1>3, <1>4, OKType DEF Truthful, Final
<1> QED BY <1>1, <1>5

\* A last frame ends a stream truthfully when it is the outcome's.
LEMMA StreamIsTruthful ==
  ASSUME NEW r, NEW res, NEW f, NEW w \in Wires, w.frames # <<>>, w.status = OK, w.closed = "end", Mode(r) \notin {"raw", "whole"},
         \A i \in 1..Len(w.frames) : w.frames[i].type # "switch" /\ (w.frames[i].type \in Final => i = Len(w.frames)),
         Last(w.frames).type = IF res.failure = None THEN "done" ELSE "error"
  PROVE  Truthful(r, res, f, w)
<1>1. TellsFailure(w) <=> res.failure # None
  BY DEF TellsFailure
<1> QED BY <1>1, OKType DEF Truthful

\* Another frame after frames none of which is final.
LEMMA AppendedFrame ==
  ASSUME NEW w \in Wires, NEW g \in Frames, g.type # "switch", w.frames # <<>>,
         \A i \in 1..Len(w.frames) : w.frames[i].type # "switch" /\ w.frames[i].type \notin Final
  PROVE  LET v == [writeFrame(w, g) EXCEPT !.closed = "end"]
         IN  /\ v \in Wires /\ v.frames # <<>> /\ v.status = OK /\ v.closed = "end" /\ Last(v.frames).type = g.type
             /\ \A i \in 1..Len(v.frames) : v.frames[i].type # "switch" /\ (v.frames[i].type \in Final => i = Len(v.frames))
<1>1. PICK u : u = writeFrame(w, g)
  OBVIOUS
<1>2. u \in Wires /\ u.status = OK /\ u.frames = Append(w.frames, g)
  BY <1>1, WriteFrameType
<1>3. PICK v : v = [u EXCEPT !.closed = "end"]
  OBVIOUS
<1>4. v \in Wires /\ v.status = OK /\ v.frames = Append(w.frames, g) /\ v.closed = "end"
  BY <1>2, <1>3, CloseType
<1>5. w.frames \in Seq(Frames)
  BY DEF Wires
<1>6. /\ Len(v.frames) = Len(w.frames) + 1 /\ Len(w.frames) \in Nat /\ v.frames # <<>>
      /\ v.frames[Len(w.frames) + 1] = g
      /\ \A i \in 1..Len(w.frames) : v.frames[i] = w.frames[i]
  BY <1>4, <1>5
<1>7. Last(v.frames).type = g.type
  BY <1>6 DEF Last
<1>8. \A i \in 1..Len(v.frames) : v.frames[i].type # "switch" /\ (v.frames[i].type \in Final => i = Len(v.frames))
  BY <1>6
<1> QED BY <1>1, <1>3, <1>4, <1>6, <1>7, <1>8
\* The tail of a handler: what the client is sent last is truthful.
LEMMA AnswerStep ==
  ASSUME ApiInv, Answer
  PROVE  ApiInv'
<1>1. /\ phase = "finished" /\ phase' = "answered" /\ UNCHANGED <<q, events, folded, broken, result, client>>
      /\ wire' = IF client THEN answerOf(q, result, folded, wire) ELSE [wire EXCEPT !.closed = "end"]
  BY DEF Answer
<1>2. /\ wire \in Wires /\ folded \in Collected /\ events \in Seq(EventTypes) /\ wire.frames \in Seq(Frames)
      /\ FramesInOrder /\ Streamed
      /\ Mode(q) # "events" => NoFinal
      /\ result.failure \in ErrorCode \cup {None}
      /\ result.failure = None =>
            /\ result.report /\ ~broken /\ (q.endpoint = "decisions" => result.whole)
            /\ Mode(q) \in {"events", "chunks"} => Begun
      /\ client /\ Mode(q) = "events" /\ wire.frames # <<>> =>
            Last(wire.frames).type = IF result.failure = None THEN "done" ELSE "error"
  BY <1>1 DEF ApiInv, ApiTypeOK, Wires, Streaming, Returned
<1>3. wire.frames = <<>> => wire.status = None
  BY <1>2 DEF Streamed
<1>4. wire.frames # <<>> => wire.status = OK
  BY <1>2 DEF FramesInOrder
<1>5. Mode(q) # "events" => \A i \in 1..Len(wire.frames) : wire.frames[i].type # "switch" /\ wire.frames[i].type \notin Final
  BY <1>2 DEF NoFinal, FramesInOrder
<1>6. failureOf(result) \in Errors \ {None, OK} /\ decisionFailure(result) \in Errors \ {None, OK} /\ noAudio(result) \in Errors \ {None, OK}
  BY <1>2, FailureOfType
<1>7. CASE ~client
  <2>1. wire' \in Wires /\ wire'.frames = wire.frames /\ wire'.status = wire.status
    BY <1>1, <1>2, <1>7, CloseType
  <2>2. ApiTypeOK' /\ FramesInOrder'
    BY <1>1, <1>2, <2>1 DEF ApiTypeOK, FramesInOrder
  <2> QED BY <1>1, <1>7, <2>2 DEF ApiInv, Unstarted, Streaming, Running, Returned, Told
<1>8. CASE client
  <2>1. ASSUME Truthful(q, result, folded, wire')
        PROVE  ApiInv'
    <3>1. ApiTypeOK' /\ FramesInOrder'
      BY <1>1, <1>2, <2>1 DEF Truthful, ApiTypeOK, FramesInOrder
    <3>2. Told'
      BY <1>1, <2>1 DEF Truthful, TellsFailure, Told, ToldFailure
    <3> QED BY <1>1, <3>1, <3>2 DEF ApiInv, Unstarted, Streaming, Running, Returned
  <2>2. wire' = answerOf(q, result, folded, wire)
    BY <1>1, <1>8
  <2>3. CASE Mode(q) = "events"
    <3>1. wire' = eventsTail(result, wire)
      BY <2>2, <2>3 DEF answerOf
    <3>2. CASE wire.frames = <<>>
      <4>1. wire' = writeError(wire, failureOf(result))
        BY <3>1, <3>2 DEF eventsTail
      <4>2. result.failure # None
        BY <1>2, <1>8, <2>3, <3>2 DEF Streamed
      <4>3. Truthful(q, result, folded, wire')
        BY <1>2, <1>3, <1>6, <3>2, <4>1, <4>2, ErrorIsTruthful
      <4> QED BY <2>1, <4>3
    <3>3. CASE wire.frames # <<>>
      <4>1. wire' = [wire EXCEPT !.closed = "end"]
        BY <3>1, <3>3 DEF eventsTail
      <4>2. wire' \in Wires /\ wire'.frames = wire.frames /\ wire'.status = OK /\ wire'.closed = "end"
        BY <1>2, <1>4, <3>3, <4>1, CloseType
      <4>3. /\ \A i \in 1..Len(wire'.frames) : wire'.frames[i].type # "switch" /\ (wire'.frames[i].type \in Final => i = Len(wire'.frames))
            /\ Last(wire'.frames).type = IF result.failure = None THEN "done" ELSE "error"
            /\ wire'.frames # <<>>
        BY <1>2, <1>8, <2>3, <3>3, <4>2 DEF FramesInOrder
      <4>4. Truthful(q, result, folded, wire')
        BY <2>3, <4>2, <4>3, StreamIsTruthful
      <4> QED BY <2>1, <4>4
    <3> QED BY <3>2, <3>3
  <2>4. CASE Mode(q) = "chunks"
    <3>1. wire' = chunksTail(result, wire)
      BY <2>2, <2>4 DEF answerOf
    <3>2. CASE wire.frames = <<>>
      <4>1. wire' = writeError(wire, failureOf(result))
        BY <3>1, <3>2 DEF chunksTail
      <4>2. result.failure # None
        BY <1>2, <1>8, <2>4, <3>2 DEF Streamed
      <4>3. Truthful(q, result, folded, wire')
        BY <1>2, <1>3, <1>6, <3>2, <4>1, <4>2, ErrorIsTruthful
      <4> QED BY <2>1, <4>3
    <3>3. CASE wire.frames # <<>> /\ result.failure # None
      <4>1. PICK g \in Frames : g = ErrorFrame(failureOf(result)) /\ g.type = "error"
        BY <1>6, ErrorFrameType
      <4>2. wire' = [writeFrame(wire, g) EXCEPT !.closed = "end"]
        BY <3>1, <3>3, <4>1 DEF chunksTail
      <4>3. /\ wire' \in Wires /\ wire'.frames # <<>> /\ wire'.status = OK /\ wire'.closed = "end" /\ Last(wire'.frames).type = "error"
            /\ \A i \in 1..Len(wire'.frames) : wire'.frames[i].type # "switch" /\ (wire'.frames[i].type \in Final => i = Len(wire'.frames))
        BY <1>2, <1>5, <2>4, <3>3, <4>1, <4>2, AppendedFrame
      <4>4. Truthful(q, result, folded, wire')
        BY <2>4, <3>3, <4>3, StreamIsTruthful
      <4> QED BY <2>1, <4>4
    <3>4. CASE wire.frames # <<>> /\ result.failure = None
      <4>1. PICK g \in Frames : g = Frame("finish") /\ g.type = "finish"
        BY "finish" \in FrameTypes, FrameType DEF FrameTypes
      <4>2. PICK d \in Frames : d = Frame("done") /\ d.type = "done"
        BY "done" \in FrameTypes, FrameType DEF FrameTypes, EventTypes
      <4>3. PICK u : u = writeFrame(wire, g)
        OBVIOUS
      <4>4. u \in Wires /\ u.frames = Append(wire.frames, g)
        BY <1>2, <4>3, WriteFrameType
      <4>5. u.frames # <<>> /\ \A i \in 1..Len(u.frames) : u.frames[i].type # "switch" /\ u.frames[i].type \notin Final
        <5>1. /\ Len(u.frames) = Len(wire.frames) + 1 /\ Len(wire.frames) \in Nat /\ u.frames # <<>>
              /\ u.frames[Len(wire.frames) + 1] = g
              /\ \A i \in 1..Len(wire.frames) : u.frames[i] = wire.frames[i]
          <6>1. wire.frames \in Seq(Frames) /\ g \in Frames /\ u.frames = Append(wire.frames, g)
            BY <1>2, <4>4
          <6> QED BY <6>1
        <5>2. g.type \notin Final /\ g.type # "switch"
          BY <4>1 DEF Final
        <5> QED BY <1>5, <2>4, <5>1, <5>2
      <4>6. wire' = [writeFrame(u, d) EXCEPT !.closed = "end"]
        BY <1>2, <3>1, <3>4, <4>1, <4>2, <4>3 DEF chunksTail
      <4>7. /\ wire' \in Wires /\ wire'.frames # <<>> /\ wire'.status = OK /\ wire'.closed = "end" /\ Last(wire'.frames).type = "done"
            /\ \A i \in 1..Len(wire'.frames) : wire'.frames[i].type # "switch" /\ (wire'.frames[i].type \in Final => i = Len(wire'.frames))
        BY <4>2, <4>4, <4>5, <4>6, AppendedFrame
      <4>8. Truthful(q, result, folded, wire')
        BY <2>4, <3>4, <4>7, StreamIsTruthful
      <4> QED BY <2>1, <4>8
    <3> QED BY <3>2, <3>3, <3>4
  <2>5. CASE Mode(q) \in {"raw", "speech"} /\ wire.frames = <<>>
    <3>1. wire' = writeError(wire, noAudio(result))
      BY <2>2, <2>5 DEF answerOf, rawTail, speechTail
    <3>2. q.endpoint = "speech" /\ folded.audio = 0
      <4>1. folded.audio \in Nat /\ ~(folded.audio > 0)
        BY <1>2, <1>8, <2>5 DEF Streamed, Collected
      <4> QED BY <2>5, <4>1, ModeOf
    <3>3. Truthful(q, result, folded, wire')
      BY <1>2, <1>3, <1>6, <2>5, <3>1, <3>2, ErrorIsTruthful
    <3> QED BY <2>1, <3>3
  <2>6. CASE Mode(q) = "raw" /\ wire.frames # <<>>
    <3>1. PICK c \in {"end", "cut"} : c = IF result.failure # None THEN "cut" ELSE "end"
      OBVIOUS
    <3>2. wire' = [wire EXCEPT !.closed = c]
      BY <2>2, <2>6, <3>1 DEF answerOf, rawTail
    <3>3. wire' \in Wires /\ wire'.frames = wire.frames /\ wire'.status = OK /\ wire'.closed = c
      BY <1>2, <1>4, <2>6, <3>2, CloseType
    <3>4. Len(wire.frames) > 0 /\ Last(wire.frames).type \notin Final
      BY <1>2, <1>5, <2>6 DEF Last
    <3>5. TellsFailure(wire') <=> result.failure # None
      BY <2>6, <3>1, <3>3, <3>4 DEF TellsFailure, Final
    <3>6. Truthful(q, result, folded, wire')
      BY <1>2, <1>5, <2>6, <3>1, <3>3, <3>4, <3>5, OKType DEF Truthful
    <3> QED BY <2>1, <3>6
  <2>7. CASE Mode(q) = "speech" /\ wire.frames # <<>>
    <3>1. PICK g \in Frames : /\ g = IF result.failure # None \/ ~result.report THEN ErrorFrame(failureOf(result)) ELSE Frame("done")
                              /\ g.type = IF result.failure = None THEN "done" ELSE "error"
      BY <1>2, <1>6, ErrorFrameType, "done" \in FrameTypes, FrameType DEF FrameTypes, EventTypes
    <3>2. wire' = [writeFrame(wire, g) EXCEPT !.closed = "end"]
      BY <2>2, <2>7, <3>1 DEF answerOf, speechTail
    <3>3. /\ wire' \in Wires /\ wire'.frames # <<>> /\ wire'.status = OK /\ wire'.closed = "end" /\ Last(wire'.frames).type = g.type
          /\ \A i \in 1..Len(wire'.frames) : wire'.frames[i].type # "switch" /\ (wire'.frames[i].type \in Final => i = Len(wire'.frames))
      BY <1>2, <1>5, <2>7, <3>1, <3>2, AppendedFrame
    <3>4. Truthful(q, result, folded, wire')
      BY <2>7, <3>1, <3>3, StreamIsTruthful
    <3> QED BY <2>1, <3>4
  <2>8. CASE Mode(q) = "whole"
    <3>1. wire' = wholeAnswer(q, result, folded, wire)
      BY <2>2, <2>8 DEF answerOf
    <3>2. wire.frames = <<>> /\ wire.status = None
      BY <1>2, <1>3, <2>8 DEF Streamed
    <3>3. Truthful(q, result, folded, wire')
      <4>1. CASE q.endpoint = "decisions"
        BY <1>2, <1>6, <2>8, <3>1, <3>2, <4>1, ErrorIsTruthful, BodyIsTruthful DEF wholeAnswer
      <4>2. CASE q.endpoint = "embeddings"
        BY <1>2, <1>6, <2>8, <3>1, <3>2, <4>2, ErrorIsTruthful, BodyIsTruthful DEF wholeAnswer
      <4>3. CASE q.endpoint = "speech"
        <5>1. /\ NewPublicError("output_limit_exceeded") \in Errors \ {None, OK}
              /\ NewPublicError("provider_error") \in Errors \ {None, OK}
              /\ result.failure # None => PublicErrorFrom(result.failure) \in Errors \ {None, OK}
          BY <1>2, ErrorType, PublicErrorType, CodesKnown
        <5>2. result.failure = None => ~(folded.audio > MaxAudio)
          <6>1. folded.audio \in Nat /\ MaxAudio \in Nat
            BY <1>2, ApiAssumption DEF Collected
          <6>2. result.failure = None => folded.audio <= MaxAudio
            BY <1>2, <2>8 DEF Streamed
          <6> QED BY <6>1, <6>2
        <5> QED BY <1>2, <2>8, <3>1, <3>2, <4>3, <5>1, <5>2, ErrorIsTruthful, BodyIsTruthful DEF wholeAnswer
      <4>4. CASE q.endpoint \notin {"decisions", "embeddings", "speech"}
        BY <1>2, <1>6, <2>8, <3>1, <3>2, <4>4, ErrorIsTruthful, BodyIsTruthful DEF wholeAnswer
      <4> QED BY <4>1, <4>2, <4>3, <4>4
    <3> QED BY <2>1, <3>3
  <2> QED BY <2>3, <2>4, <2>5, <2>6, <2>7, <2>8, ModeOf DEF Modes
<1> QED BY <1>7, <1>8

\* Every step of a request keeps the invariant.
LEMMA ApiInvNext ==
  ASSUME ApiInv, [ApiNext]_apiVars
  PROVE  ApiInv'
<1>1. CASE UNCHANGED apiVars
  BY <1>1, ApiInvStutter DEF apiVars
<1>2. CASE Settle
  BY <1>2, ApiInvStutter DEF Settle
<1>3. CASE \E whole \in BOOLEAN : Succeed(whole)
  BY <1>3, SucceedStep
<1>4. CASE \E code \in Failures \cup {"invalid_request"}, n \in {0, 1} : Fail(code, n)
  BY <1>4, FailStep
<1>5. CASE \E r \in Requests, h \in Headers, allowed \in BOOLEAN : Receive(r, h, allowed)
  BY <1>5, ReceiveStep
<1>6. CASE \E answer \in Oxy : Authorize(answer)
  BY <1>6, AuthorizeStep
<1>7. CASE \E answer \in Oxy, p \in Plans \cup {None} : Granted(answer, p)
  BY <1>7, GrantedStep
<1>8. CASE \E type \in {"switch", "start", "delta", "tool", "audio"} : Emit(type)
  BY <1>8, EmitStep
<1> HIDE DEF ApiInv
<1> QED
  BY <1>1, <1>2, <1>3, <1>4, <1>5, <1>6, <1>7, <1>8, AnswerStep, CancelStep, ClientLeavesStep, AgainStep DEF ApiNext, ApiStep

\* A client that reads to the end knows what happened (the handlers of
\* internal/publicapi and their sinks), for every request, header, plan,
\* answer of Oxy's, failure and buffer size.
THEOREM ClientKnows == ApiSpec => []AnswerIsTruthful
<1>1. ApiInv => AnswerIsTruthful
  BY DEF ApiInv, FramesInOrder, Told, AnswerIsTruthful
<1> QED BY <1>1, ApiInvInit, ApiInvNext, PTL DEF ApiSpec
(***************************************************************************)
(* The gate                                                                *)
(***************************************************************************)
Buckets == [tokens : 0..Burst, at : Nat]

\* The tokens a bucket has once it is refilled: a forgotten one is full.
Available(b, c, at) == IF c \in DOMAIN b THEN Least(Burst, b[c].tokens + (at - b[c].at) * Rate) ELSE Burst

GateTypeOK ==
    /\ clock \in Nat
    /\ buckets \in [DOMAIN buckets -> Buckets] /\ \A c \in DOMAIN buckets : buckets[c].at <= clock
    /\ reference \in [Credentials -> Int]

\* A bucket that is never forgotten has at least what the limiter grants.
NoSecondBurst == \A c \in Credentials : reference[c] >= Available(buckets, c, clock)

\* No cached access outlives its age or Oxy's own expiry.
CacheIsBounded ==
    \A c \in DOMAIN cached :
        /\ cached[c].asked \in Nat /\ cached[c].expires \in Int /\ cached[c].expires <= cached[c].asked + CatalogueTTL
        /\ cached[c].access.expires \in Nat \cup {None}
        /\ cached[c].access.expires # None => cached[c].expires <= cached[c].access.expires

AskedInTime == \A r \in asking : r.at \in Nat

GateInv == GateTypeOK /\ NoSecondBurst /\ CacheIsBounded /\ AskedInTime /\ CatalogueFresh

\* Time only refills.
LEMMA RefillGrows ==
  ASSUME NEW t \in Nat, NEW a \in Nat, NEW at \in Nat, a <= at
  PROVE  /\ t + (at - a) * Rate \in Nat
         /\ t + ((at + 1) - a) * Rate = t + (at - a) * Rate + Rate
         /\ Least(Burst, t + (at - a) * Rate) \in 0..Burst
<1>1. PICK n \in Nat : n = at - a
  OBVIOUS
<1>2. Rate \in Nat /\ Burst \in Nat
  BY RateAssumption
<1>3. n * Rate \in Nat /\ (n + 1) * Rate = n * Rate + Rate
  BY <1>2
<1>4. (at - a) * Rate = n * Rate /\ ((at + 1) - a) * Rate = (n + 1) * Rate
  BY <1>1
<1>5. PICK m \in Nat : m = n * Rate
  BY <1>3
<1> QED BY <1>2, <1>3, <1>4, <1>5 DEF Least

\* A bucket idle for longer than Idle is full.
LEMMA IdleIsFull ==
  ASSUME NEW t \in Nat, NEW a \in Nat, NEW at \in Nat, at - a > Idle
  PROVE  Least(Burst, t + (at - a) * Rate) = Burst
<1>1. Rate \in Nat /\ Burst \in Nat /\ Idle \in Nat /\ Rate * Idle >= Burst
  BY RateAssumption
<1>2. PICK n \in Nat : n = at - a /\ n > Idle
  BY <1>1
<1>3. PICK k \in Nat : n = Idle + k
  BY <1>1, <1>2, n - Idle \in Nat
<1>4. n * Rate = Rate * Idle + k * Rate /\ k * Rate \in Nat /\ Rate * Idle \in Nat
  BY <1>1, <1>3
<1>5. n * Rate >= Burst /\ n * Rate \in Nat
  BY <1>1, <1>4
<1>6. PICK m \in Nat : m = n * Rate /\ m >= Burst
  BY <1>5
<1> QED BY <1>1, <1>2, <1>6 DEF Least

LEMMA GateInvInit == GateInit => GateInv
<1> SUFFICES ASSUME GateInit PROVE GateInv
  OBVIOUS
<1>1. Burst \in Nat
  BY RateAssumption
<1>2. DOMAIN buckets = {} /\ DOMAIN cached = {} /\ asking = {} /\ shown = None /\ clock = 0
  BY DEF GateInit
<1>3. buckets \in [DOMAIN buckets -> Buckets]
  BY <1>2 DEF GateInit
<1>4. reference \in [Credentials -> Int] /\ \A c \in Credentials : reference[c] = Burst
  BY <1>1 DEF GateInit
<1>5. GateTypeOK /\ NoSecondBurst
  BY <1>1, <1>2, <1>3, <1>4 DEF GateTypeOK, NoSecondBurst, Available
<1> QED BY <1>2, <1>5 DEF GateInv, CacheIsBounded, AskedInTime, CatalogueFresh

\* The sweep and a new bucket change nothing of what is available.
LEMMA KnownBuckets ==
  ASSUME GateTypeOK, NEW c \in Credentials
  PROVE  LET b == known(buckets, c, clock)
         IN  /\ c \in DOMAIN b /\ b \in [DOMAIN b -> Buckets]
             /\ \A d \in DOMAIN b : b[d].at <= clock
             /\ \A d \in Credentials : Available(b, d, clock) = Available(buckets, d, clock)
<1> DEFINE b == known(buckets, c, clock)
<1>1. Burst \in Nat /\ Rate \in Nat /\ clock \in Nat
  BY RateAssumption DEF GateTypeOK
<1>2. CASE c \in DOMAIN buckets
  BY <1>2 DEF known, GateTypeOK
<1>3. CASE c \notin DOMAIN buckets
  <2>1. PICK kept : kept = IF Cardinality(DOMAIN buckets) >= BucketLimit THEN forget(buckets, clock) ELSE buckets
    OBVIOUS
  <2>2. /\ DOMAIN kept \subseteq DOMAIN buckets /\ kept \in [DOMAIN kept -> Buckets]
        /\ \A d \in DOMAIN kept : kept[d] = buckets[d]
        /\ \A d \in DOMAIN buckets \ DOMAIN kept : clock - buckets[d].at > Idle
    <3>1. Idle \in Nat /\ \A d \in DOMAIN buckets : buckets[d] \in Buckets /\ buckets[d].at \in Nat
      BY RateAssumption DEF GateTypeOK, Buckets
    <3>2. CASE Cardinality(DOMAIN buckets) >= BucketLimit
      <4>1. kept = [d \in {e \in DOMAIN buckets : clock - buckets[e].at <= Idle} |-> buckets[d]]
        BY <2>1, <3>2 DEF forget
      <4> QED BY <1>1, <3>1, <4>1
    <3>3. CASE ~(Cardinality(DOMAIN buckets) >= BucketLimit)
      BY <2>1, <3>3 DEF GateTypeOK
    <3> QED BY <3>2, <3>3
  <2>3. PICK fresh : fresh = [tokens |-> Burst, at |-> clock]
    OBVIOUS
  <2>4. b = [d \in DOMAIN kept \cup {c} |-> IF d = c THEN fresh ELSE kept[d]]
    BY <1>3, <2>1, <2>3, Zenon DEF known, With
  <2>5. fresh.tokens = Burst /\ fresh.at = clock /\ fresh \in Buckets
    BY <1>1, <2>3, Burst \in 0..Burst DEF Buckets
  <2> HIDE DEF b
  <2>6. DOMAIN b = DOMAIN kept \cup {c} /\ b[c] = fresh /\ \A d \in DOMAIN kept : b[d] = buckets[d]
    BY <1>3, <2>2, <2>4
  <2>7. c \in DOMAIN b /\ b \in [DOMAIN b -> Buckets]
    BY <2>2, <2>4, <2>5
  <2>8. \A d \in DOMAIN b : b[d].at <= clock
    BY <1>1, <2>2, <2>5, <2>6 DEF GateTypeOK
  <2>9. ASSUME NEW d \in Credentials
        PROVE  Available(b, d, clock) = Available(buckets, d, clock)
    <3>1. CASE d = c
      <4>1. b[c].tokens + (clock - b[c].at) * Rate = Burst
        BY <1>1, <2>5, <2>6
      <4> QED BY <1>1, <1>3, <2>6, <3>1, <4>1 DEF Available, Least
    <3>2. CASE d # c /\ d \in DOMAIN kept
      BY <2>2, <2>6, <3>2 DEF Available
    <3>3. CASE d # c /\ d \notin DOMAIN kept /\ d \in DOMAIN buckets
      <4>1. buckets[d].tokens \in Nat /\ buckets[d].at \in Nat
        BY <3>3 DEF GateTypeOK, Buckets
      <4>2. Least(Burst, buckets[d].tokens + (clock - buckets[d].at) * Rate) = Burst
        BY <1>1, <2>2, <3>3, <4>1, IdleIsFull
      <4> QED BY <2>6, <3>3, <4>2 DEF Available
    <3>4. CASE d \notin DOMAIN b /\ d \notin DOMAIN buckets
      BY <3>4 DEF Available
    <3> QED BY <2>6, <3>1, <3>2, <3>3, <3>4
  <2> QED BY <2>7, <2>8, <2>9 DEF b
<1> QED BY <1>2, <1>3
\* A bucket refilled holds what was available of it.
LEMMA RefilledBuckets ==
  ASSUME GateTypeOK, NEW c \in Credentials
  PROVE  LET b == refilled(buckets, c, clock)
         IN  /\ c \in DOMAIN b /\ b \in [DOMAIN b -> Buckets]
             /\ b[c].at = clock /\ b[c].tokens = Available(buckets, c, clock)
             /\ \A d \in DOMAIN b : b[d].at <= clock
             /\ \A d \in Credentials : d # c => Available(b, d, clock) = Available(buckets, d, clock)
<1>1. PICK k : k = known(buckets, c, clock)
  OBVIOUS
<1>2. /\ c \in DOMAIN k /\ k \in [DOMAIN k -> Buckets]
      /\ \A d \in DOMAIN k : k[d].at <= clock
      /\ \A d \in Credentials : Available(k, d, clock) = Available(buckets, d, clock)
  BY <1>1, KnownBuckets, Zenon
<1>3. PICK full : full = [tokens |-> Least(Burst, k[c].tokens + (clock - k[c].at) * Rate), at |-> clock]
  OBVIOUS
<1>4. PICK b : b = [k EXCEPT ![c] = full]
  OBVIOUS
<1>5. refilled(buckets, c, clock) = b
  BY <1>1, <1>3, <1>4 DEF refilled
<1>6. clock \in Nat /\ k[c].tokens \in Nat /\ k[c].at \in Nat /\ k[c].at <= clock
  BY <1>2 DEF GateTypeOK, Buckets
<1>7. full.at = clock /\ full.tokens = Available(buckets, c, clock)
  BY <1>2, <1>3 DEF Available
<1>8. Least(Burst, k[c].tokens + (clock - k[c].at) * Rate) \in 0..Burst
  BY <1>6, RefillGrows
<1>9. full \in Buckets
  BY <1>3, <1>6, <1>8 DEF Buckets
<1>10. DOMAIN b = DOMAIN k /\ b[c] = full /\ \A d \in DOMAIN k : d # c => b[d] = k[d]
  BY <1>2, <1>4
<1>11. b \in [DOMAIN b -> Buckets]
  BY <1>2, <1>4, <1>9
<1>12. \A d \in DOMAIN b : b[d].at <= clock
  BY <1>2, <1>6, <1>7, <1>10
<1>13. \A d \in Credentials : d # c => Available(b, d, clock) = Available(buckets, d, clock)
  BY <1>2, <1>10 DEF Available
<1> QED BY <1>2, <1>5, <1>7, <1>10, <1>11, <1>12, <1>13

\* limiter.allow takes one token of both, or none.
LEMMA AllowStep ==
  ASSUME GateTypeOK, NoSecondBurst, NEW c \in Credentials, allow(c), clock' = clock
  PROVE  GateTypeOK' /\ NoSecondBurst'
<1>1. PICK b : b = refilled(buckets, c, clock)
  OBVIOUS
<1>2. /\ c \in DOMAIN b /\ b \in [DOMAIN b -> Buckets]
      /\ b[c].at = clock /\ b[c].tokens = Available(buckets, c, clock)
      /\ \A d \in DOMAIN b : b[d].at <= clock
      /\ \A d \in Credentials : d # c => Available(b, d, clock) = Available(buckets, d, clock)
  BY <1>1, RefilledBuckets, Zenon
<1>3. /\ clock \in Nat /\ Burst \in Nat /\ Rate \in Nat /\ reference \in [Credentials -> Int]
      /\ \A d \in Credentials : reference[d] >= Available(buckets, d, clock)
  BY RateAssumption DEF GateTypeOK, NoSecondBurst
<1>4. b[c].tokens \in 0..Burst /\ b[c] = [tokens |-> b[c].tokens, at |-> b[c].at]
  BY <1>2 DEF Buckets
<1>5. CASE b[c].tokens >= 1
  <2>1. buckets' = [b EXCEPT ![c].tokens = @ - 1] /\ reference' = [reference EXCEPT ![c] = @ - 1]
    BY <1>1, <1>5, Zenon DEF allow
  <2>2. PICK left : left = [tokens |-> b[c].tokens - 1, at |-> clock]
    OBVIOUS
  <2>3. left \in Buckets /\ left.tokens = b[c].tokens - 1 /\ left.at = clock
    BY <1>3, <1>4, <1>5, <2>2, b[c].tokens - 1 \in 0..Burst DEF Buckets
  <2>4. buckets' = [b EXCEPT ![c] = left]
    <3>1. PICK e : e = b[c]
      OBVIOUS
    <3>2. e = [tokens |-> e.tokens, at |-> e.at] /\ e.at = clock
      BY <1>2, <1>4, <3>1
    <3>3. [e EXCEPT !.tokens = @ - 1] = left
      BY <2>2, <3>1, <3>2
    <3>4. buckets' = [b EXCEPT ![c] = [b[c] EXCEPT !.tokens = @ - 1]]
      BY <2>1
    <3> QED BY <3>1, <3>3, <3>4
  <2>5. DOMAIN buckets' = DOMAIN b /\ buckets'[c] = left /\ \A d \in DOMAIN b : d # c => buckets'[d] = b[d]
    BY <1>2, <2>4
  <2>6. buckets' \in [DOMAIN buckets' -> Buckets] /\ \A d \in DOMAIN buckets' : buckets'[d].at <= clock
    BY <1>2, <1>3, <2>3, <2>4, <2>5
  <2>7. reference' \in [Credentials -> Int] /\ reference'[c] = reference[c] - 1 /\ \A d \in Credentials : d # c => reference'[d] = reference[d]
    BY <1>3, <2>1
  <2>8. \A d \in Credentials : d # c => reference'[d] >= Available(buckets', d, clock)
    BY <1>2, <1>3, <2>5, <2>7 DEF Available
  <2>9. reference'[c] >= Available(buckets', c, clock)
    <3>1. left.tokens + (clock - left.at) * Rate = left.tokens
      BY <1>3, <1>4, <2>3
    <3>2. Available(buckets', c, clock) = Least(Burst, left.tokens)
      BY <1>2, <2>5, <3>1 DEF Available
    <3>3. reference[c] >= b[c].tokens /\ reference[c] \in Int
      BY <1>2, <1>3
    <3> QED BY <1>3, <1>4, <2>3, <2>7, <3>2, <3>3 DEF Least
  <2> QED BY <1>3, <2>6, <2>7, <2>8, <2>9 DEF GateTypeOK, NoSecondBurst
<1>6. CASE ~(b[c].tokens >= 1)
  <2>1. buckets' = b /\ reference' = reference
    BY <1>1, <1>6, Zenon DEF allow
  <2>2. Available(b, c, clock) = Available(buckets, c, clock)
    <3>1. b[c].tokens + (clock - b[c].at) * Rate = b[c].tokens
      BY <1>2, <1>3, <1>4
    <3> QED BY <1>2, <1>3, <1>4, <3>1 DEF Available, Least
  <2>3. \A d \in Credentials : reference'[d] >= Available(buckets', d, clock)
    BY <1>2, <1>3, <2>1, <2>2
  <2> QED BY <1>2, <1>3, <2>1, <2>3 DEF GateTypeOK, NoSecondBurst
<1> QED BY <1>5, <1>6

LEMMA AskStep ==
  ASSUME GateInv, NEW c \in Credentials, NEW origin, NEW preflight, Ask(c, origin, preflight)
  PROVE  GateInv'
<1>1. GateTypeOK' /\ NoSecondBurst' /\ UNCHANGED <<clock, cached>>
  BY AllowStep DEF Ask, GateInv
<1>2. clock \in Nat
  BY DEF GateInv, GateTypeOK
<1>3. CacheIsBounded'
  BY <1>1 DEF GateInv, CacheIsBounded
<1>4. \/ asking' = asking
      \/ asking' = asking \cup {[by |-> c, at |-> clock]}
  BY DEF Ask
<1>5. AskedInTime'
  BY <1>2, <1>4 DEF GateInv, AskedInTime
<1>6. ASSUME shown' = shown
      PROVE  CatalogueFresh'
  BY <1>6 DEF GateInv, CatalogueFresh
<1>7. ASSUME c \in DOMAIN cached, clock < cached[c].expires,
             shown' = [access |-> cached[c].access, asked |-> cached[c].asked, at |-> clock, hit |-> TRUE]
      PROVE  CatalogueFresh'
  <2>1. shown'.at = clock /\ shown'.asked = cached[c].asked /\ shown'.access = cached[c].access
    BY <1>7
  <2>2. /\ cached[c].asked \in Nat /\ cached[c].expires \in Int /\ cached[c].expires <= cached[c].asked + CatalogueTTL
        /\ cached[c].access.expires \in Nat \cup {None}
        /\ cached[c].access.expires # None => cached[c].expires <= cached[c].access.expires
    BY <1>7 DEF GateInv, CacheIsBounded
  <2>3. CatalogueTTL \in Nat
    BY AccessAssumption
  <2>4. clock < cached[c].asked + CatalogueTTL
    BY <1>2, <1>7, <2>2, <2>3
  <2>5. cached[c].access.expires # None => clock < cached[c].access.expires
    BY <1>2, <1>7, <2>2
  <2> QED BY <2>1, <2>4, <2>5 DEF CatalogueFresh
<1>8. \/ shown' = shown
      \/ /\ c \in DOMAIN cached /\ clock < cached[c].expires
         /\ shown' = [access |-> cached[c].access, asked |-> cached[c].asked, at |-> clock, hit |-> TRUE]
  BY Zenon DEF Ask
<1>9. CatalogueFresh'
  BY <1>6, <1>7, <1>8
<1> QED BY <1>1, <1>3, <1>5, <1>9 DEF GateInv

\* The expiry counts from before Oxy was asked, and never passes Oxy's own.
LEMMA CatalogueAnswerStep ==
  ASSUME GateInv, NEW r \in asking, NEW a \in Accesses \cup {None}, CatalogueAnswer(r, a)
  PROVE  GateInv'
<1>1. UNCHANGED <<clock, buckets, reference>> /\ asking' \subseteq asking
  BY DEF CatalogueAnswer
<1>2. GateTypeOK' /\ NoSecondBurst' /\ AskedInTime'
  BY <1>1 DEF GateInv, GateTypeOK, NoSecondBurst, AskedInTime
<1>3. CASE ~ValidAccess(a)
  <2>1. UNCHANGED <<cached, shown>>
    BY <1>3 DEF CatalogueAnswer
  <2> QED BY <1>2, <2>1 DEF GateInv, CacheIsBounded, CatalogueFresh
<1>4. CASE ValidAccess(a)
  <2>1. a \in Accesses /\ a.expires \in Nat \cup {None} /\ r.at \in Nat /\ CatalogueTTL \in Nat /\ None \notin Nat
    BY <1>4, AccessAssumption DEF ValidAccess, GateInv, AskedInTime
  <2>2. PICK kept : kept = IF Cardinality(DOMAIN cached) > BucketLimit THEN [d \in {} |-> None] ELSE cached
    OBVIOUS
  <2>3. PICK entry : entry = [access |-> a, asked |-> r.at, expires |-> expiry(a, r.at)]
    OBVIOUS
  <2>4. cached' = [k \in DOMAIN kept \cup {r.by} |-> IF k = r.by THEN entry ELSE kept[k]]
    BY <1>4, <2>2, <2>3, Zenon DEF CatalogueAnswer, With
  <2>5. /\ expiry(a, r.at) \in Int /\ expiry(a, r.at) <= r.at + CatalogueTTL
        /\ a.expires # None => expiry(a, r.at) <= a.expires
    BY <2>1 DEF expiry, Least
  <2>6. entry.access = a /\ entry.asked = r.at /\ entry.expires = expiry(a, r.at)
    BY <2>3
  <2>7. \A d \in DOMAIN kept : d \in DOMAIN cached /\ kept[d] = cached[d]
    BY <2>2
  <2>8. CacheIsBounded'
    BY <2>1, <2>4, <2>5, <2>6, <2>7 DEF GateInv, CacheIsBounded
  <2>9. shown' = [access |-> a, asked |-> r.at, at |-> clock, hit |-> FALSE]
    BY <1>4 DEF CatalogueAnswer
  <2>10. CatalogueFresh'
    BY <2>9 DEF CatalogueFresh
  <2> QED BY <1>2, <2>8, <2>10 DEF GateInv
<1> QED BY <1>3, <1>4

LEMMA GateTickStep ==
  ASSUME GateInv, GateTick
  PROVE  GateInv'
<1>1. /\ clock \in Nat /\ clock' = clock + 1 /\ UNCHANGED <<buckets, asking, cached, shown>>
      /\ reference \in [Credentials -> Int]
      /\ reference' = [c \in Credentials |-> Least(Burst, reference[c] + Rate)]
  BY DEF GateInv, GateTypeOK, GateTick
<1>2. Burst \in Nat /\ Rate \in Nat
  BY RateAssumption
<1>3. GateTypeOK'
  <2>1. reference' \in [Credentials -> Int]
    BY <1>1, <1>2 DEF Least
  <2>2. \A c \in DOMAIN buckets : buckets[c].at \in Nat /\ buckets[c].at <= clock
    BY DEF GateInv, GateTypeOK, Buckets
  <2>3. \A c \in DOMAIN buckets : buckets[c].at <= clock + 1
    BY <1>1, <2>2
  <2> QED BY <1>1, <2>1, <2>3 DEF GateInv, GateTypeOK
<1>4. ASSUME NEW c \in Credentials
      PROVE  reference'[c] >= Available(buckets', c, clock')
  <2>1. reference[c] \in Int /\ reference[c] >= Available(buckets, c, clock) /\ reference'[c] = Least(Burst, reference[c] + Rate)
    BY <1>1 DEF GateInv, NoSecondBurst
  <2>2. CASE c \in DOMAIN buckets
    <3>1. buckets[c].tokens \in Nat /\ buckets[c].at \in Nat /\ buckets[c].at <= clock
      BY <2>2 DEF GateInv, GateTypeOK, Buckets
    <3>2. PICK m \in Nat : m = buckets[c].tokens + (clock - buckets[c].at) * Rate
      BY <1>1, <3>1, RefillGrows
    <3>3. buckets[c].tokens + ((clock + 1) - buckets[c].at) * Rate = m + Rate
      BY <1>1, <3>1, <3>2, RefillGrows
    <3>4. Available(buckets, c, clock) = Least(Burst, m)
      BY <2>2, <3>2 DEF Available
    <3>5. Available(buckets', c, clock') = Available(buckets, c, clock + 1)
      BY <1>1
    <3>6. Available(buckets, c, clock + 1) = Least(Burst, m + Rate)
      BY <2>2, <3>3 DEF Available
    <3> QED BY <1>2, <2>1, <3>2, <3>4, <3>5, <3>6 DEF Least
  <2>3. CASE c \notin DOMAIN buckets
    <3>1. Available(buckets, c, clock) = Burst /\ Available(buckets', c, clock') = Burst
      BY <1>1, <2>3 DEF Available
    <3> QED BY <1>2, <2>1, <3>1 DEF Least
  <2> QED BY <2>2, <2>3
<1>5. NoSecondBurst'
  BY <1>1, <1>4 DEF NoSecondBurst
<1>6. CacheIsBounded' /\ AskedInTime' /\ CatalogueFresh'
  BY <1>1 DEF GateInv, CacheIsBounded, AskedInTime, CatalogueFresh
<1> QED BY <1>3, <1>5, <1>6 DEF GateInv

\* The rate of a credential and the age of a cached access are bounded
\* (limiter.allow with its sweep, OxyAuthorizer.Catalogue with concurrent
\* answers), for every rate, burst, map size, expiry and interleaving.
THEOREM GateIsKept == GateSpec => []GateHolds
<1>1. ASSUME GateInv, [GateNext]_gateVars
      PROVE  GateInv'
  <2>1. CASE UNCHANGED gateVars
    BY <1>1, <2>1 DEF gateVars, GateInv, GateTypeOK, NoSecondBurst, CacheIsBounded, AskedInTime, CatalogueFresh
  <2>2. CASE \E c \in Credentials, origin \in Origins \cup {None}, preflight \in BOOLEAN : Ask(c, origin, preflight)
    BY <1>1, <2>2, AskStep
  <2>3. CASE \E r \in asking, a \in Accesses \cup {None} : CatalogueAnswer(r, a)
    BY <1>1, <2>3, CatalogueAnswerStep
  <2>4. CASE GateTick
    BY <1>1, <2>4, GateTickStep
  <2> QED BY <1>1, <2>1, <2>2, <2>3, <2>4 DEF GateNext
<1>2. GateInv => GateHolds
  <2> SUFFICES ASSUME GateInv PROVE GateHolds
    OBVIOUS
  <2>1. ASSUME NEW c \in Credentials
        PROVE  reference[c] >= 0
    <3>1. Available(buckets, c, clock) \in Nat
      <4>1. CASE c \in DOMAIN buckets
        <5>1. buckets[c].tokens \in Nat /\ buckets[c].at \in Nat /\ clock \in Nat /\ buckets[c].at <= clock
          BY <4>1 DEF GateInv, GateTypeOK, Buckets
        <5>2. Least(Burst, buckets[c].tokens + (clock - buckets[c].at) * Rate) \in 0..Burst
          BY <5>1, RefillGrows
        <5> QED BY <4>1, <5>2, RateAssumption DEF Available
      <4>2. CASE c \notin DOMAIN buckets
        BY <4>2, RateAssumption DEF Available
      <4> QED BY <4>1, <4>2
    <3>2. reference[c] \in Int /\ reference[c] >= Available(buckets, c, clock)
      BY DEF GateInv, GateTypeOK, NoSecondBurst
    <3> QED BY <3>1, <3>2
  <2> QED BY <2>1 DEF GateInv, GateHolds, RateBound
<1> QED BY <1>1, <1>2, GateInvInit, PTL DEF GateSpec

(***************************************************************************)
(* From a grant to its plan                                                *)
(***************************************************************************)

\* Candidates whose keys are numbers and tell them apart.
Comparable(S) ==
  /\ IsFiniteSet(S)
  /\ \A c \in S : c.rank \in Int /\ c.line \in Int /\ c.position \in Int
  /\ \A c, d \in S : c.line = d.line /\ c.position = d.position => c = d

Before(S, c) == {d \in S : cheaper(d, c)}

LEMMA BeforeIsBounded ==
  ASSUME NEW S, Comparable(S), NEW c \in S
  PROVE  /\ IsFiniteSet(Before(S, c)) /\ Cardinality(S) \in Nat
         /\ Cardinality(Before(S, c)) \in 0..(Cardinality(S) - 1)
<1>1. IsFiniteSet(S) /\ c.rank \in Int /\ c.line \in Int /\ c.position \in Int
  BY DEF Comparable
<1>2. Before(S, c) \subseteq S \ {c}
  BY <1>1 DEF Before, cheaper
<1>3. IsFiniteSet(S \ {c}) /\ Cardinality(S \ {c}) = Cardinality(S) - 1
  BY <1>1, FS_RemoveElement
<1>4. IsFiniteSet(Before(S, c)) /\ Cardinality(Before(S, c)) <= Cardinality(S) - 1
  BY <1>2, <1>3, FS_Subset
<1>5. Cardinality(Before(S, c)) \in Nat /\ Cardinality(S) \in Nat
  BY <1>1, <1>4, FS_CardinalityType
<1> QED BY <1>4, <1>5

LEMMA BeforeSeparates ==
  ASSUME NEW S, Comparable(S), NEW c \in S, NEW d \in S, cheaper(c, d)
  PROVE  Cardinality(Before(S, c)) < Cardinality(Before(S, d))
<1>1. \A x \in S : x.rank \in Int /\ x.line \in Int /\ x.position \in Int
  BY DEF Comparable
<1>2. Before(S, c) \subseteq Before(S, d) /\ c \notin Before(S, c) /\ c \in Before(S, d)
  BY <1>1 DEF Before, cheaper
<1>3. Before(S, c) \in SUBSET Before(S, d) /\ Before(S, c) # Before(S, d)
  BY <1>2
<1>4. /\ IsFiniteSet(Before(S, d)) /\ Cardinality(S) \in Nat
      /\ Cardinality(Before(S, c)) \in 0..(Cardinality(S) - 1) /\ Cardinality(Before(S, d)) \in 0..(Cardinality(S) - 1)
  BY BeforeIsBounded
<1>5. /\ Cardinality(Before(S, c)) <= Cardinality(Before(S, d))
      /\ Cardinality(Before(S, d)) # Cardinality(Before(S, c))
  BY <1>3, <1>4, FS_Subset
<1> QED BY <1>4, <1>5

\* Sorting drops no candidate and repeats none.
LEMMA InOrderListsAll ==
  ASSUME NEW S, Comparable(S)
  PROVE  /\ inOrder(S) \in Seq(S)
         /\ \A j, k \in 1..Len(inOrder(S)) : inOrder(S)[j] = inOrder(S)[k] => j = k
<1> DEFINE n == Cardinality(S)
           C(c) == Cardinality(Before(S, c))
           f == [c \in S |-> C(c) + 1]
           whose(i) == CHOOSE c \in S : C(c) = i - 1
<1>1. IsFiniteSet(S) /\ n \in Nat
  BY FS_CardinalityType DEF Comparable
<1>2. \A c \in S : C(c) \in 0..(n - 1)
  BY BeforeIsBounded
<1>3. \A c, d \in S : C(c) = C(d) => c = d
  <2>1. SUFFICES ASSUME NEW c \in S, NEW d \in S, c # d
                 PROVE  C(c) # C(d)
    OBVIOUS
  <2>2. cheaper(c, d) \/ cheaper(d, c)
    BY <2>1 DEF Comparable, cheaper
  <2>3. C(c) < C(d) \/ C(d) < C(c)
    BY <2>2, BeforeSeparates
  <2>4. QED
    BY <2>3, <1>1, <1>2
<1>4. inOrder(S) = [i \in 1..n |-> whose(i)]
  BY Zenon DEF inOrder, Before
<1> HIDE DEF C
<1>5. f \in [S -> 1..n]
  BY <1>1, <1>2
<1>6. f \in Injection(S, 1..n)
  BY <1>2, <1>3, <1>5 DEF Injection, IsInjective
<1>7. IsFiniteSet(1..n) /\ Cardinality(1..n) = n
  BY <1>1, FS_Interval
<1>8. f \in Surjection(S, 1..n)
  BY <1>6, <1>7, FS_Injection
<1>9. \A i \in 1..n : \E c \in S : C(c) = i - 1
  <2>1. SUFFICES ASSUME NEW i \in 1..n
                 PROVE  \E c \in S : C(c) = i - 1
    OBVIOUS
  <2>2. PICK c \in S : f[c] = i
    BY <1>8 DEF Surjection
  <2>3. C(c) = i - 1
    BY <1>1, <2>2, <1>2
  <2>4. QED
    BY <2>3
<1>10. \A i \in 1..n : whose(i) \in S /\ C(whose(i)) = i - 1
  BY <1>9
<1> HIDE DEF whose
<1>11. inOrder(S) \in [1..n -> S]
  BY <1>4, <1>10
<1>12. inOrder(S) \in Seq(S) /\ Len(inOrder(S)) = n
  BY <1>1, <1>11
<1>13. \A j, k \in 1..n : inOrder(S)[j] = inOrder(S)[k] => j = k
  <2>1. SUFFICES ASSUME NEW j \in 1..n, NEW k \in 1..n, whose(j) = whose(k)
                 PROVE  j = k
    BY <1>4
  <2>2. QED
    BY <2>1, <1>1, <1>10
<1> QED BY <1>12, <1>13

-----------------------------------------------------------------------------
\* What Parse asked of the rows of an installed file.
LEMMA ParsedRows ==
  ASSUME NEW inv, Parse(inv) # None
  PROVE  /\ \A p \in 1..Len(inv.rows) : Pinned(inv.rows[p].ref)
         /\ \A p, o \in 1..Len(inv.rows) : inv.rows[p].id = inv.rows[o].id => p = o
BY DEF Parse, ValidRow

\* A reference resolves to rows of its line, a pinned one to its own.
LEMMA ResolvedRows ==
  ASSUME NEW inv, NEW ref, NEW at, NEW maxAge, NEW p \in Resolve(inv, ref, at, maxAge)
  PROVE  /\ p \in 1..Len(inv.rows) /\ inv.rows[p].ref.line = ref.line
         /\ Pinned(ref) => inv.rows[p].ref = ref
<1>1. CASE RouteSet(inv, ref) # {}
  BY <1>1 DEF Resolve, RouteSet
<1>2. CASE RouteSet(inv, ref) = {}
  <2>1. ~Pinned(ref) /\ currentOf(inv, ref.line) # {}
    BY <1>2 DEF Resolve
  <2>2. PICK r : r = CHOOSE x \in currentOf(inv, ref.line) : TRUE
    OBVIOUS
  <2>3. r \in currentOf(inv, ref.line)
    BY <2>1, <2>2
  <2>4. r.line = ref.line
    BY <2>3 DEF currentOf
  <2>5. p \in RouteSet(inv, r)
    BY <1>2, <2>2 DEF Resolve
  <2> QED BY <2>1, <2>4, <2>5 DEF RouteSet
<1> QED BY <1>1, <1>2

\* A rank is a number wherever it admits the deployment.
LEMMA RankIsNumber ==
  ASSUME NEW g, NEW pools, NEW route, NEW ceiling, RankOf(g, pools, route, ceiling) # None
  PROVE  RankOf(g, pools, route, ceiling) \in Int
<1>1. CASE g.byok
  BY <1>1 DEF RankOf
<1>2. CASE ~g.byok
  <2>1. PICK pool : pool = pools[route.id]
    OBVIOUS
  <2>2. PICK ranks : ranks = {TierRank(t) : t \in {u \in Tiers : WithinFunding(pool, u)}}
    OBVIOUS
  <2>3. CheapestTier(pool, ceiling) # None /\ RankOf(g, pools, route, ceiling) = CheapestTier(pool, ceiling)
    BY <1>2, <2>1 DEF RankOf
  <2>4. CheapestTier(pool, ceiling) = IF ranks = {} THEN 3 ELSE CHOOSE r \in ranks : \A s \in ranks : r <= s
    BY <2>2, <2>3 DEF CheapestTier
  <2>5. ranks \subseteq 0..3
    BY <2>2 DEF TierRank
  <2>6. ranks # {} => \E r \in ranks : \A s \in ranks : r <= s
    <3>1. ranks \in SUBSET Nat
      BY <2>5
    <3> QED BY <3>1, LeastNatural
  <2>7. ranks # {} => CheapestTier(pool, ceiling) \in ranks
    BY <2>4, <2>6
  <2>8. CheapestTier(pool, ceiling) \in 0..3
    <3>1. CASE ranks = {}
      BY <2>4, <3>1
    <3>2. CASE ranks # {}
      BY <2>5, <2>7, <3>2
    <3> QED BY <3>1, <3>2
  <2> QED BY <2>3, <2>8
<1> QED BY <1>1, <1>2

\* A reference is one of the line it is asked for.
LEMMA ReferenceOfLine ==
  ASSUME NEW step, NEW line, NEW routes
  PROVE  referenceOf(step, line, routes).line = line
<1>1. CASE Chosen(routes, line) # {}
  <2>1. PICK r : r = CHOOSE x \in Chosen(routes, line) : TRUE
    OBVIOUS
  <2>2. r \in Chosen(routes, line)
    BY <1>1, <2>1
  <2>3. referenceOf(step, line, routes) = r.ref
    BY <1>1, <2>1 DEF referenceOf
  <2> QED BY <2>2, <2>3 DEF Chosen
<1>2. CASE Chosen(routes, line) = {}
  BY <1>2 DEF referenceOf
<1> QED BY <1>1, <1>2

-----------------------------------------------------------------------------
\* What Admit resolves a grant against: an installed snapshot and a verified
\* grant.
Installed(inv) == inv \in Files /\ inv # None /\ Parse(inv) # None
Verified(g) == g \in Grants /\ ValidGrant(g)

\* The candidates of a step, with what is known of each.
CandidatesNow(g, i, routes) ==
  candidatesOf(g, g.steps[i], routes, serving, Pools(serving, generation), Kinds, now, MaxAge)

IsCandidate(g, i, routes, c) ==
  /\ c.rank \in Int
  /\ c.line \in 1..Len(g.steps[i].lines) /\ c.position \in 1..Len(serving.rows)
  /\ c.route = Route(serving.rows[c.position])
  /\ c.route.ref.line = g.steps[i].lines[c.line]
  /\ admitsRoute(g.steps[i], c.route)
  /\ \A r \in ToSet(routes) : r.id # c.route.id

LEMMA CandidateFacts ==
  ASSUME NEW g, NEW i, NEW routes, NEW c \in CandidatesNow(g, i, routes)
  PROVE  /\ IsCandidate(g, i, routes, c)
         /\ c = [route |-> c.route, rank |-> RankOf(g, Pools(serving, generation), c.route, g.steps[i].ceiling), line |-> c.line, position |-> c.position]
<1> DEFINE step == g.steps[i]
           pools == Pools(serving, generation)
<1>1. admissible(g, step, routes, Kinds, c)
  BY DEF CandidatesNow, candidatesOf
<1> DEFINE candidate(l, p) == [route |-> Route(serving.rows[p]), rank |-> RankOf(g, pools, Route(serving.rows[p]), step.ceiling), line |-> l, position |-> p]
<1>a. PICK l \in 1..Len(step.lines) : \E p \in Resolve(serving, referenceOf(step, step.lines[l], routes), now, MaxAge) : c = candidate(l, p)
  BY DEF CandidatesNow, candidatesOf
<1>2. PICK p \in Resolve(serving, referenceOf(step, step.lines[l], routes), now, MaxAge) : c = candidate(l, p)
  BY <1>a
<1>3. PICK row : row = serving.rows[p]
  OBVIOUS
<1>4. p \in 1..Len(serving.rows) /\ row.ref.line = step.lines[l]
  BY <1>3, ResolvedRows, ReferenceOfLine
<1>5. PICK route : route = Route(row)
  OBVIOUS
<1>6. route.ref = row.ref
  BY <1>5 DEF Route
<1> HIDE DEF pools
<1>7. PICK rank : rank = RankOf(g, pools, route, step.ceiling)
  OBVIOUS
<1>8. c = [route |-> route, rank |-> rank, line |-> l, position |-> p]
  BY <1>2, <1>3, <1>5, <1>7
<1>9. c.route = route /\ c.rank = rank /\ c.line = l /\ c.position = p
  BY <1>8
<1>10. rank \in Int
  BY <1>1, <1>7, <1>9, RankIsNumber DEF admissible
<1>11. IsCandidate(g, i, routes, c)
  BY <1>1, <1>3, <1>4, <1>5, <1>6, <1>9, <1>10 DEF IsCandidate, admissible
<1>12. c = [route |-> c.route, rank |-> RankOf(g, pools, c.route, step.ceiling), line |-> c.line, position |-> c.position]
  BY <1>7, <1>8, <1>9
<1> QED BY <1>11, <1>12 DEF pools

LEMMA VerifiedSteps ==
  ASSUME NEW g, Verified(g)
  PROVE  /\ g.steps \in Seq(ToSet(g.steps)) /\ Len(g.steps) \in Nat
         /\ \A i \in 1..Len(g.steps) :
              /\ g.steps[i].lines \in Seq(ToSet(g.steps[i].lines))
              /\ \A j, k \in 1..Len(g.steps[i].lines) : g.steps[i].lines[j] = g.steps[i].lines[k] => j = k
              /\ g.byok => g.steps[i].ceiling = "none"
BY StoreAssumption DEF Verified, ValidGrant, ValidStep

\* The candidates of a step are deployments, each once, and can be sorted.
LEMMA CandidatesAreComparable ==
  ASSUME Installed(serving), NEW g, Verified(g), NEW i \in 1..Len(g.steps), NEW routes
  PROVE  /\ Comparable(CandidatesNow(g, i, routes))
         /\ \A c, d \in CandidatesNow(g, i, routes) : c.route.id = d.route.id => c = d
<1> DEFINE S == CandidatesNow(g, i, routes)
           L == Len(g.steps[i].lines)
           N == Len(serving.rows)
           f == [c \in S |-> <<c.line, c.position>>]
<1>1. L \in Nat /\ N \in Nat
  <2>1. serving.rows \in Seq(ToSet(serving.rows))
    BY StoreAssumption DEF Installed
  <2> QED BY <2>1, VerifiedSteps
<1>2. \A c \in S : /\ c.line \in 1..L /\ c.position \in 1..N /\ c.rank \in Int
                   /\ c.route = Route(serving.rows[c.position]) /\ c.route.ref.line = g.steps[i].lines[c.line]
                   /\ c = [route |-> c.route, rank |-> RankOf(g, Pools(serving, generation), c.route, g.steps[i].ceiling), line |-> c.line, position |-> c.position]
  BY CandidateFacts DEF IsCandidate
<1> HIDE DEF S
<1>3. \A c, d \in S : c.line = d.line /\ c.position = d.position => c = d
  <2>1. SUFFICES ASSUME NEW c \in S, NEW d \in S, c.line = d.line, c.position = d.position
                 PROVE  c = d
    OBVIOUS
  <2>2. c.route = d.route
    BY <1>2, <2>1
  <2>3. QED
    BY <1>2, <2>1, <2>2
<1>4. IsFiniteSet((1..L) \X (1..N))
  <2> HIDE DEF L, N
  <2>0. 1 \in Int /\ L \in Int /\ N \in Int
    BY <1>1
  <2>1. IsFiniteSet(1..L) /\ IsFiniteSet(1..N)
    BY <2>0, FS_Interval
  <2> QED BY <2>1, FS_Product
<1>5. f \in Injection(S, (1..L) \X (1..N))
  <2>1. f \in [S -> (1..L) \X (1..N)]
    BY <1>2
  <2>2. \A c, d \in S : f[c] = f[d] => c = d
    BY <1>3
  <2> QED BY <2>1, <2>2 DEF Injection, IsInjective
<1>6. IsFiniteSet(S)
  BY <1>4, <1>5, FS_Injection
<1>7. Comparable(S)
  BY <1>1, <1>2, <1>3, <1>6 DEF Comparable
<1>8. ASSUME NEW c \in S, NEW d \in S, c.route.id = d.route.id
      PROVE  c = d
  <2>0. \A row : Route(row).id = row.id
    BY DEF Route
  <2>1. c.route.id = serving.rows[c.position].id /\ d.route.id = serving.rows[d.position].id
    BY <1>2, <2>0
  <2>2. c.position = d.position
    BY <1>2, <1>8, <2>1, ParsedRows DEF Installed
  <2>3. c.route = d.route
    BY <1>2, <2>2
  <2>4. g.steps[i].lines[c.line] = g.steps[i].lines[d.line]
    BY <1>2, <2>3
  <2>5. c.line = d.line
    BY <1>2, <2>4, VerifiedSteps
  <2> QED BY <1>3, <2>2, <2>5
<1> QED BY <1>7, <1>8 DEF S

-----------------------------------------------------------------------------
\* A route a step of the grant makes of a row of the snapshot.
RouteOf(g, i, row, substitution) ==
  [id |-> row.id, ref |-> row.ref, provider |-> row.provider, regions |-> ToSet(row.regions),
   ceiling |-> g.steps[i].ceiling, byok |-> g.byok, step |-> i, substitution |-> substitution]

RoutesOf(g) ==
  UNION {{RouteOf(g, i, serving.rows[p], s) : p \in 1..Len(serving.rows), s \in {"same_model", "cross_model"}} : i \in 1..Len(g.steps)}

\* What the plan says of its routes, as far as the i-th step.
WithinStep(g, r) == Contains(g.steps[r.step].lines, r.ref.line) /\ admitsRoute(g.steps[r.step], r)
Apart(g, r, s) ==
  /\ r.id # s.id
  /\ r.ref.line = s.ref.line => r.ref = s.ref /\ (r.step = s.step => g.steps[r.step].failover)
  /\ r.step <= s.step

PlanSoFar(g, i, routes) ==
  /\ routes \in Seq(RoutesOf(g))
  /\ \A j \in 1..Len(routes) : routes[j].step \in 1..i /\ WithinStep(g, routes[j])
  /\ \A j, k \in 1..Len(routes) : j < k => Apart(g, routes[j], routes[k])

\* The n-th candidate and those after it are still to come.
ToCome(cs, n, routes) == \A j \in 1..Len(routes) : \A m \in n..Len(cs) : routes[j].id # cs[m].route.id

\* The candidates in order.
IsListing(g, i, base, cs) ==
  /\ Len(cs) \in Nat
  /\ \A n \in 1..Len(cs) : IsCandidate(g, i, base, cs[n])
  /\ \A j, k \in 1..Len(cs) : cs[j].route.id = cs[k].route.id => j = k

LEMMA ListingNow ==
  ASSUME Installed(serving), NEW g, Verified(g), NEW i \in 1..Len(g.steps), NEW base,
         NEW cs, cs = inOrder(CandidatesNow(g, i, base))
  PROVE  IsListing(g, i, base, cs)
<1> DEFINE S == CandidatesNow(g, i, base)
<1>1. /\ Comparable(S)
      /\ \A c, d \in S : c.route.id = d.route.id => c = d
  BY CandidatesAreComparable
<1>2. \A c \in S : IsCandidate(g, i, base, c)
  BY CandidateFacts
<1> HIDE DEF S
<1>3. cs \in Seq(S) /\ \A j, k \in 1..Len(cs) : cs[j] = cs[k] => j = k
  BY <1>1, InOrderListsAll DEF S
<1>4. Len(cs) \in Nat /\ \A n \in 1..Len(cs) : cs[n] \in S
  BY <1>3
<1> QED BY <1>1, <1>2, <1>3, <1>4 DEF IsListing

\* One candidate has its turn.
LEMMA TakeKeeps ==
  ASSUME Installed(serving), NEW g, Verified(g), NEW i \in 1..Len(g.steps), NEW base, NEW cs, IsListing(g, i, base, cs)
  PROVE  \A n \in 1..Len(cs) : \A routes :
            PlanSoFar(g, i, routes) /\ ToCome(cs, n, routes) =>
               /\ PlanSoFar(g, i, take(g, g.steps[i], i, routes, cs[n]))
               /\ ToCome(cs, n + 1, take(g, g.steps[i], i, routes, cs[n]))
<1>1. SUFFICES ASSUME NEW n \in 1..Len(cs), NEW routes, PlanSoFar(g, i, routes), ToCome(cs, n, routes)
               PROVE  /\ PlanSoFar(g, i, take(g, g.steps[i], i, routes, cs[n]))
                      /\ ToCome(cs, n + 1, take(g, g.steps[i], i, routes, cs[n]))
  OBVIOUS
<1>2. PICK c : c = cs[n]
  OBVIOUS
<1>3. PICK step : step = g.steps[i]
  OBVIOUS
<1>4. IsCandidate(g, i, base, c) /\ Len(cs) \in Nat
  BY <1>1, <1>2 DEF IsListing
<1>5. routes \in Seq(RoutesOf(g)) /\ Len(routes) \in Nat
  BY <1>1 DEF PlanSoFar
<1>6. i \in Nat /\ Len(g.steps) \in Nat
  BY VerifiedSteps
<1>7. ToCome(cs, n + 1, routes)
  BY <1>1, <1>4 DEF ToCome
<1>8. CASE \E r \in Chosen(routes, c.route.ref.line) : r.ref # c.route.ref \/ (~step.failover /\ r.step = i)
  <2>1. take(g, step, i, routes, c) = routes
    BY <1>8 DEF take
  <2> QED BY <1>1, <1>2, <1>3, <1>7, <2>1
<1>9. CASE ~ \E r \in Chosen(routes, c.route.ref.line) : r.ref # c.route.ref \/ (~step.failover /\ r.step = i)
  <2>1. PICK sub : sub = IF routes # <<>> /\ c.route.ref.line # routes[1].ref.line THEN "cross_model" ELSE "same_model"
    OBVIOUS
  <2>2. sub \in {"same_model", "cross_model"}
    BY <2>1
  <2>3. PICK row : row = serving.rows[c.position]
    OBVIOUS
  <2>4. c.route = Route(row) /\ c.position \in 1..Len(serving.rows)
    BY <1>4, <2>3 DEF IsCandidate
  <2>5. c.route.id = row.id /\ c.route.ref = row.ref /\ c.route.provider = row.provider /\ c.route.regions = ToSet(row.regions)
    BY <2>4 DEF Route
  <2>6. PICK x : x = RouteOf(g, i, row, sub)
    OBVIOUS
  <2>7. take(g, step, i, routes, c) = Append(routes, x)
    BY <1>3, <1>9, <2>1, <2>5, <2>6 DEF take, RouteOf
  <2>8. x \in RoutesOf(g)
    BY <2>2, <2>3, <2>4, <2>6 DEF RoutesOf
  <2>9. x.id = c.route.id /\ x.ref = c.route.ref /\ x.provider = c.route.provider /\ x.regions = c.route.regions /\ x.step = i
    BY <2>5, <2>6 DEF RouteOf
  <2>10. PICK next : next = Append(routes, x)
    OBVIOUS
  <2>11. /\ next \in Seq(RoutesOf(g)) /\ Len(next) = Len(routes) + 1
         /\ \A j \in 1..Len(routes) : next[j] = routes[j]
         /\ next[Len(routes) + 1] = x
    BY <1>5, <2>8, <2>10
  <2>12. WithinStep(g, x)
    <3>1. Contains(step.lines, x.ref.line)
      BY <1>3, <1>4, <2>9 DEF IsCandidate, Contains
    <3>2. admitsRoute(step, x)
      BY <1>3, <1>4, <2>9 DEF IsCandidate, admitsRoute
    <3> QED BY <1>3, <2>9, <3>1, <3>2 DEF WithinStep
  <2>13. \A j \in 1..Len(routes) : Apart(g, routes[j], x)
    <3>1. SUFFICES ASSUME NEW j \in 1..Len(routes)
                   PROVE  Apart(g, routes[j], x)
      OBVIOUS
    <3>2. PICK r : r = routes[j]
      OBVIOUS
    <3>3. r.id # x.id
      <4>1. n \in n..Len(cs)
        BY <1>4
      <4> QED BY <1>1, <1>2, <2>9, <3>2, <4>1 DEF ToCome
    <3>4. r.step \in 1..i
      BY <1>1, <3>2 DEF PlanSoFar
    <3>5. r \in ToSet(routes)
      BY <1>5, <3>2 DEF ToSet
    <3>6. r.ref.line = x.ref.line => r.ref = x.ref /\ (r.step = i => step.failover)
      BY <1>9, <2>9, <3>5 DEF Chosen
    <3> QED BY <1>3, <1>6, <2>9, <3>2, <3>3, <3>4, <3>6 DEF Apart
  <2>14. PlanSoFar(g, i, next)
    <3>1. \A j \in 1..Len(next) : j \in 1..Len(routes) \/ j = Len(routes) + 1
      BY <1>5, <2>11
    <3>2. \A j \in 1..Len(next) : next[j].step \in 1..i /\ WithinStep(g, next[j])
      BY <1>1, <1>6, <2>9, <2>11, <2>12, <3>1 DEF PlanSoFar
    <3>3. \A j, k \in 1..Len(next) : j < k => Apart(g, next[j], next[k])
      <4>1. SUFFICES ASSUME NEW j \in 1..Len(next), NEW k \in 1..Len(next), j < k
                     PROVE  Apart(g, next[j], next[k])
        OBVIOUS
      <4>2. j \in 1..Len(routes)
        BY <1>5, <2>11, <4>1
      <4>3. CASE k \in 1..Len(routes)
        BY <1>1, <2>11, <4>1, <4>2, <4>3 DEF PlanSoFar
      <4>4. CASE k = Len(routes) + 1
        BY <2>11, <2>13, <4>2, <4>4
      <4> QED BY <3>1, <4>3, <4>4
    <3> QED BY <2>11, <3>2, <3>3 DEF PlanSoFar
  <2>15. ToCome(cs, n + 1, next)
    <3>1. \A m \in (n + 1)..Len(cs) : x.id # cs[m].route.id
      BY <1>2, <1>4, <2>9 DEF IsListing
    <3>2. \A j \in 1..Len(next) : j \in 1..Len(routes) \/ j = Len(routes) + 1
      BY <1>5, <2>11
    <3> QED BY <1>7, <2>11, <3>1, <3>2 DEF ToCome
  <2> QED BY <1>2, <1>3, <2>7, <2>10, <2>14, <2>15
<1> QED BY <1>8, <1>9

-----------------------------------------------------------------------------
\* A step keeps what the plan says: its routes come after those there are.
LEMMA TakeAllKeeps ==
  ASSUME Installed(serving), NEW g, Verified(g), NEW i \in 1..Len(g.steps),
         NEW base, PlanSoFar(g, i - 1, base), NEW cs, IsListing(g, i, base, cs)
  PROVE  PlanSoFar(g, i, takeAll(g, i, base, cs))
<1> DEFINE n == Len(cs)
           w0 == base
           turn(w, k) == take(g, g.steps[i], i, w, cs[k])
           Law(m, h) == h = [k \in 0..m |-> IF k = 0 THEN w0 ELSE turn(h[k - 1], k)]
           reached == CHOOSE h : Law(n, h)
           Good(k, w) == PlanSoFar(g, i, w) /\ ToCome(cs, k + 1, w)
<1>1. n \in Nat
  BY DEF IsListing
<1>2. Good(0, w0)
  <2>1. i \in Nat
    BY VerifiedSteps
  <2>2. PlanSoFar(g, i, base)
    BY <2>1 DEF PlanSoFar
  <2>3. base \in Seq(RoutesOf(g)) /\ \A j \in 1..Len(base) : base[j] \in ToSet(base)
    BY DEF PlanSoFar, ToSet
  <2>4. ToCome(cs, 1, base)
    BY <1>1, <2>3 DEF ToCome, IsListing, IsCandidate
  <2> QED BY <2>2, <2>4
<1>3. \A k \in 1..n : \A w : Good(k - 1, w) => Good(k, turn(w, k))
  <2>1. \A k \in 1..n : (k - 1) + 1 = k
    BY <1>1
  <2> QED BY <2>1, TakeKeeps
<1>4. takeAll(g, i, base, cs) = reached[n]
  BY Zenon DEF takeAll
<1> HIDE DEF w0, turn, Good
<1> DEFINE Bad == {m \in 0..n : ~ \E h : Law(m, h)}
<1>5. Bad = {}
  <2>1. SUFFICES ASSUME Bad # {}
                 PROVE  FALSE
    OBVIOUS
  <2>2. Bad \in SUBSET Nat
    OBVIOUS
  <2> HIDE DEF Bad
  <2>3. PICK m \in Bad : \A y \in Bad : m <= y
    BY <2>1, <2>2, LeastNatural
  <2> USE DEF Bad
  <2>4. m # 0
    <3>1. Law(0, [k \in 0..0 |-> w0])
      <4>1. \A k \in 0..0 : k = 0
        OBVIOUS
      <4>2. QED
        BY <4>1
    <3>2. QED
      BY <2>3, <3>1
  <2>5. m - 1 \in 0..n /\ m - 1 \notin Bad
    <3>1. m \in 0..n
      BY <2>3
    <3> HIDE DEF Bad
    <3>2. QED
      BY <3>1, <2>3, <2>4, <1>1
  <2>6. PICK f : Law(m - 1, f)
    BY <2>5
  <2>7. m \in 1..n
    BY <2>3, <2>4, <1>1
  <2>8. \A k \in 0..(m - 1) : f[k] = IF k = 0 THEN w0 ELSE turn(f[k - 1], k)
    BY <2>6
  <2> DEFINE h == [k \in 0..m |-> IF k = m THEN turn(f[m - 1], m) ELSE f[k]]
  <2>9. \A k \in 0..m : h[k] = IF k = 0 THEN w0 ELSE turn(h[k - 1], k)
    BY <2>7, <2>8
  <2>10. Law(m, h)
    <3>1. DOMAIN h = 0..m /\ h = [k \in 0..m |-> h[k]]
      OBVIOUS
    <3> HIDE DEF h
    <3>2. QED
      BY <3>1, <2>9
  <2>11. QED
    BY <2>3, <2>10
<1>6. Law(n, reached)
  <2>1. n \in 0..n
    BY <1>1
  <2>2. \E h : Law(n, h)
    BY <2>1, <1>5
  <2>3. QED
    BY <2>2
<1> HIDE DEF reached
<1>7. \A k \in 0..n : reached[k] = IF k = 0 THEN w0 ELSE turn(reached[k - 1], k)
  BY <1>6
<1> DEFINE Ill == {k \in 0..n : ~Good(k, reached[k])}
<1>8. Ill = {}
  <2>1. SUFFICES ASSUME Ill # {}
                 PROVE  FALSE
    OBVIOUS
  <2>2. Ill \in SUBSET Nat
    OBVIOUS
  <2> HIDE DEF Ill
  <2>3. PICK m \in Ill : \A y \in Ill : m <= y
    BY <2>1, <2>2, LeastNatural
  <2>4. m \in 0..n /\ ~Good(m, reached[m])
    BY <2>3 DEF Ill
  <2>5. m # 0
    BY <2>4, <1>1, <1>2, <1>7
  <2>6. m \in 1..n /\ m - 1 \in 0..n /\ m - 1 \notin Ill
    BY <2>3, <2>4, <2>5, <1>1
  <2>7. Good(m - 1, reached[m - 1])
    BY <2>6 DEF Ill
  <2>8. Good(m, turn(reached[m - 1], m))
    BY <2>6, <2>7, <1>3
  <2>9. reached[m] = turn(reached[m - 1], m)
    BY <2>4, <2>5, <1>7
  <2>10. QED
    BY <2>4, <2>8, <2>9
<1>9. Good(n, reached[n])
  <2>1. n \in 0..n
    BY <1>1
  <2>2. QED
    BY <2>1, <1>8
<1> QED BY <1>4, <1>9 DEF Good

\* The steps of a grant, one after another.
LEMMA ResolvedWithinGrant ==
  ASSUME Installed(serving), NEW g, Verified(g),
         NEW resolved, resolved = resolveGrant(g, serving, Pools(serving, generation), Kinds, now, MaxAge), resolved # None
  PROVE  resolved.routes # <<>> /\ PlanSoFar(g, Len(g.steps), resolved.routes)
<1> DEFINE n == Len(g.steps)
           w0 == <<>>
           turn(w, k) == takeAll(g, k, w, inOrder(CandidatesNow(g, k, w)))
           Law(m, h) == h = [k \in 0..m |-> IF k = 0 THEN w0 ELSE turn(h[k - 1], k)]
           reached == CHOOSE h : Law(n, h)
           Good(k, w) == PlanSoFar(g, k, w)
<1>1. n \in Nat
  BY VerifiedSteps
<1>2. Good(0, w0)
  BY DEF PlanSoFar
<1>3. \A k \in 1..n : \A w : Good(k - 1, w) => Good(k, turn(w, k))
  BY ListingNow, TakeAllKeeps
<1>4. resolved = IF reached[n] = <<>> THEN None ELSE [routes |-> reached[n], target |-> targetOf(g, reached[n])]
  BY Zenon DEF resolveGrant, CandidatesNow
<1> HIDE DEF w0, turn, Good
<1> DEFINE Bad == {m \in 0..n : ~ \E h : Law(m, h)}
<1>5. Bad = {}
  <2>1. SUFFICES ASSUME Bad # {}
                 PROVE  FALSE
    OBVIOUS
  <2>2. Bad \in SUBSET Nat
    OBVIOUS
  <2> HIDE DEF Bad
  <2>3. PICK m \in Bad : \A y \in Bad : m <= y
    BY <2>1, <2>2, LeastNatural
  <2> USE DEF Bad
  <2>4. m # 0
    <3>1. Law(0, [k \in 0..0 |-> w0])
      <4>1. \A k \in 0..0 : k = 0
        OBVIOUS
      <4>2. QED
        BY <4>1
    <3>2. QED
      BY <2>3, <3>1
  <2>5. m - 1 \in 0..n /\ m - 1 \notin Bad
    <3>1. m \in 0..n
      BY <2>3
    <3> HIDE DEF Bad
    <3>2. QED
      BY <3>1, <2>3, <2>4, <1>1
  <2>6. PICK f : Law(m - 1, f)
    BY <2>5
  <2>7. m \in 1..n
    BY <2>3, <2>4, <1>1
  <2>8. \A k \in 0..(m - 1) : f[k] = IF k = 0 THEN w0 ELSE turn(f[k - 1], k)
    BY <2>6
  <2> DEFINE h == [k \in 0..m |-> IF k = m THEN turn(f[m - 1], m) ELSE f[k]]
  <2>9. \A k \in 0..m : h[k] = IF k = 0 THEN w0 ELSE turn(h[k - 1], k)
    BY <2>7, <2>8
  <2>10. Law(m, h)
    <3>1. DOMAIN h = 0..m /\ h = [k \in 0..m |-> h[k]]
      OBVIOUS
    <3> HIDE DEF h
    <3>2. QED
      BY <3>1, <2>9
  <2>11. QED
    BY <2>3, <2>10
<1>6. Law(n, reached)
  <2>1. n \in 0..n
    BY <1>1
  <2>2. \E h : Law(n, h)
    BY <2>1, <1>5
  <2>3. QED
    BY <2>2
<1> HIDE DEF reached
<1>7. \A k \in 0..n : reached[k] = IF k = 0 THEN w0 ELSE turn(reached[k - 1], k)
  BY <1>6
<1> DEFINE Ill == {k \in 0..n : ~Good(k, reached[k])}
<1>8. Ill = {}
  <2>1. SUFFICES ASSUME Ill # {}
                 PROVE  FALSE
    OBVIOUS
  <2>2. Ill \in SUBSET Nat
    OBVIOUS
  <2> HIDE DEF Ill
  <2>3. PICK m \in Ill : \A y \in Ill : m <= y
    BY <2>1, <2>2, LeastNatural
  <2>4. m \in 0..n /\ ~Good(m, reached[m])
    BY <2>3 DEF Ill
  <2>5. m # 0
    BY <2>4, <1>1, <1>2, <1>7
  <2>6. m \in 1..n /\ m - 1 \in 0..n /\ m - 1 \notin Ill
    BY <2>3, <2>4, <2>5, <1>1
  <2>7. Good(m - 1, reached[m - 1])
    BY <2>6 DEF Ill
  <2>8. Good(m, turn(reached[m - 1], m))
    BY <2>6, <2>7, <1>3
  <2>9. reached[m] = turn(reached[m - 1], m)
    BY <2>4, <2>5, <1>7
  <2>10. QED
    BY <2>4, <2>8, <2>9
<1>9. Good(n, reached[n])
  <2>1. n \in 0..n
    BY <1>1
  <2>2. QED
    BY <2>1, <1>8
<1>10. PICK routes : routes = reached[n]
  OBVIOUS
<1>11. resolved = IF routes = <<>> THEN None ELSE [routes |-> routes, target |-> targetOf(g, routes)]
  BY <1>4, <1>10
<1>12. routes # <<>> /\ resolved.routes = routes
  BY <1>11
<1> QED BY <1>9, <1>10, <1>12 DEF Good

-----------------------------------------------------------------------------
\* PlanWithinGrant of any grant and list of routes.
Fits(g, routes) ==
  /\ validateRouteList(routes)
  /\ \A r \in ToSet(routes) :
        /\ Contains(g.steps[r.step].lines, r.ref.line) /\ admitsRoute(g.steps[r.step], r)
        /\ r.ceiling = g.steps[r.step].ceiling
  /\ \A r, s \in ToSet(routes) :
        /\ r.ref.line = s.ref.line => r.ref = s.ref
        /\ r.step = s.step /\ r.ref.line = s.ref.line /\ ~g.steps[r.step].failover => r = s
  /\ \A i, j \in 1..Len(routes) : i < j => routes[i].step <= routes[j].step

LEMMA FitsIsTheProperty == PlanWithinGrant <=> (request.plan # None => Fits(request.grant, request.plan.routes))
BY Zenon DEF PlanWithinGrant, Fits

LEMMA RouteOfFacts ==
  ASSUME Installed(serving), NEW g, Verified(g), NEW r \in RoutesOf(g)
  PROVE  /\ r.step \in 1..Len(g.steps) /\ r.ceiling = g.steps[r.step].ceiling /\ r.byok = g.byok
         /\ Pinned(r.ref)
<1>1. PICK i \in 1..Len(g.steps) : r \in {RouteOf(g, i, serving.rows[p], s) : p \in 1..Len(serving.rows), s \in {"same_model", "cross_model"}}
  BY DEF RoutesOf
<1>2. PICK p \in 1..Len(serving.rows), s \in {"same_model", "cross_model"} : r = RouteOf(g, i, serving.rows[p], s)
  BY <1>1
<1>3. r.step = i /\ r.ceiling = g.steps[i].ceiling /\ r.byok = g.byok /\ r.ref = serving.rows[p].ref
  BY <1>2 DEF RouteOf
<1> QED BY <1>3, ParsedRows DEF Installed

LEMMA PlanFits ==
  ASSUME Installed(serving), NEW g, Verified(g), NEW routes, routes # <<>>, PlanSoFar(g, Len(g.steps), routes)
  PROVE  Fits(g, routes)
<1>1. routes \in Seq(RoutesOf(g)) /\ Len(routes) \in Nat
  BY DEF PlanSoFar
<1>2. \A j \in 1..Len(routes) : routes[j] \in RoutesOf(g)
  BY <1>1
<1>3. \A j, k \in 1..Len(routes) : j = k \/ j < k \/ k < j
  BY <1>1
<1>4. \A j, k \in 1..Len(routes) : j < k => Apart(g, routes[j], routes[k])
  BY DEF PlanSoFar
<1>5. \A r \in ToSet(routes) : \E j \in 1..Len(routes) : routes[j] = r
  BY <1>1 DEF ToSet
<1>6. \A j \in 1..Len(routes) : /\ routes[j].step \in 1..Len(g.steps) /\ routes[j].ceiling = g.steps[routes[j].step].ceiling
                                /\ routes[j].byok = g.byok /\ Pinned(routes[j].ref)
  BY <1>2, RouteOfFacts
<1>7. validateRouteList(routes)
  <2>1. \A i, j \in 1..Len(routes) : i # j => routes[i].id # routes[j].id
    BY <1>3, <1>4 DEF Apart
  <2>2. ASSUME NEW j \in 1..Len(routes)
        PROVE  Pinned(routes[j].ref) /\ ~(routes[j].byok /\ routes[j].ceiling # "none")
    <3>1. PICK i \in 1..Len(g.steps) : i = routes[j].step
      BY <1>6
    <3>2. g.byok => g.steps[i].ceiling = "none"
      BY VerifiedSteps
    <3> QED BY <1>6, <3>1, <3>2
  <2> QED BY <2>1, <2>2 DEF validateRouteList
<1>8. ASSUME NEW r \in ToSet(routes)
      PROVE  /\ Contains(g.steps[r.step].lines, r.ref.line) /\ admitsRoute(g.steps[r.step], r)
             /\ r.ceiling = g.steps[r.step].ceiling
  BY <1>5, <1>6 DEF PlanSoFar, WithinStep
<1>9. ASSUME NEW r \in ToSet(routes), NEW s \in ToSet(routes)
      PROVE  /\ r.ref.line = s.ref.line => r.ref = s.ref
             /\ r.step = s.step /\ r.ref.line = s.ref.line /\ ~g.steps[r.step].failover => r = s
  <2>1. PICK j \in 1..Len(routes) : routes[j] = r
    BY <1>5
  <2>2. PICK k \in 1..Len(routes) : routes[k] = s
    BY <1>5
  <2>3. r = s \/ Apart(g, r, s) \/ Apart(g, s, r)
    BY <1>3, <1>4, <2>1, <2>2
  <2> QED BY <2>3 DEF Apart
<1>10. \A i, j \in 1..Len(routes) : i < j => routes[i].step <= routes[j].step
  BY <1>4 DEF Apart
<1> QED BY <1>7, <1>8, <1>9, <1>10 DEF Fits

\* What is executed is the list that was planned.
SameRoutes(routes, resolved) ==
  /\ Len(routes) = Len(resolved)
  /\ \A i \in 1..Len(routes) : routes[i].id = resolved[i].id /\ routes[i].provider = resolved[i].provider
                               /\ routes[i].ref = resolved[i].ref /\ routes[i].regions = resolved[i].regions

LEMMA AuthorizedAsPlanned ==
  ASSUME NEW inv, NEW resolved, NEW at, NEW maxAge, Len(resolved) \in Nat, \A i \in 1..Len(resolved) : Pinned(resolved[i].ref),
         NEW routes, routes = resolveAuthorizedRoutes(inv, resolved, at, maxAge), routes # <<>>
  PROVE  SameRoutes(routes, resolved)
<1> DEFINE matches(r) == {c \in Candidates(inv, Resolve(inv, r.ref, at, maxAge)) : c.id = r.id}
           match(r) == CHOOSE c \in matches(r) : TRUE
<1>1. /\ routes = [i \in 1..Len(resolved) |-> match(resolved[i])]
      /\ \A i \in 1..Len(resolved) : matches(resolved[i]) # {} /\ match(resolved[i]).provider = resolved[i].provider /\ match(resolved[i]).regions = resolved[i].regions
  BY Zenon DEF resolveAuthorizedRoutes
<1>2. ASSUME NEW i \in 1..Len(resolved)
      PROVE  match(resolved[i]).id = resolved[i].id /\ match(resolved[i]).ref = resolved[i].ref
  <2>1. match(resolved[i]) \in matches(resolved[i])
    BY <1>1
  <2>2. PICK c : c = match(resolved[i])
    OBVIOUS
  <2>3. c.id = resolved[i].id /\ c \in Candidates(inv, Resolve(inv, resolved[i].ref, at, maxAge))
    BY <2>1, <2>2
  <2>4. PICK p \in Resolve(inv, resolved[i].ref, at, maxAge) : c = Route(inv.rows[p])
    BY <2>3 DEF Candidates
  <2>5. c.ref = inv.rows[p].ref
    BY <2>4 DEF Route
  <2>6. inv.rows[p].ref = resolved[i].ref
    BY <2>4, ResolvedRows
  <2> QED BY <2>2, <2>3, <2>5, <2>6
<1> HIDE DEF match, matches
<1>3. Len(routes) = Len(resolved)
  BY <1>1
<1> QED BY <1>1, <1>2, <1>3 DEF SameRoutes

-----------------------------------------------------------------------------
\* A snapshot that is served was installed, and the request at hand keeps to
\* its grant and its plan.
StoreInv ==
  /\ file \in Files /\ (serving # None => Installed(serving))
  /\ DOMAIN request = {"st", "grant", "plan", "routes"}
  /\ request.plan # None => Len(request.plan.routes) \in Nat /\ Fits(request.grant, request.plan.routes)
  /\ request.st = "admitted" => request.plan # None
  /\ request.st = "executing" => SameRoutes(request.routes, request.plan.routes)

LEMMA AdmitStep ==
  ASSUME StoreInv, NEW g \in Grants, Admit(g)
  PROVE  StoreInv'
<1>1. PICK resolved : resolved = IF ValidGrant(g) THEN resolveGrant(g, serving, Pools(serving, generation), Kinds, now, MaxAge) ELSE None
  OBVIOUS
<1>2. request' = IF ~ValidGrant(g) THEN [NoRequest EXCEPT !.st = "refused"]
                 ELSE IF resolved = None THEN [NoRequest EXCEPT !.st = "unserved"]
                 ELSE [st |-> "admitted", grant |-> g, plan |-> resolved, routes |-> <<>>]
  BY <1>1 DEF Admit
<1>3. Installed(serving) /\ UNCHANGED <<file, serving>>
  BY DEF Admit, StoreInv
<1>4. (file \in Files /\ (serving # None => Installed(serving)))'
  BY <1>3 DEF StoreInv, Installed
<1>5. PICK held : held = request'
  OBVIOUS
<1>6. CASE ~ValidGrant(g) \/ resolved = None
  <2>1. DOMAIN held = {"st", "grant", "plan", "routes"} /\ held.plan = None /\ held.st \in {"refused", "unserved"}
    BY <1>2, <1>5, <1>6 DEF NoRequest
  <2> QED BY <1>4, <1>5, <2>1 DEF StoreInv
<1>7. CASE ValidGrant(g) /\ resolved # None
  <2>1. DOMAIN held = {"st", "grant", "plan", "routes"} /\ held.plan = resolved /\ held.grant = g /\ held.st = "admitted"
    BY <1>2, <1>5, <1>7
  <2>2. Verified(g) /\ resolved = resolveGrant(g, serving, Pools(serving, generation), Kinds, now, MaxAge)
    BY <1>1, <1>7 DEF Verified
  <2>3. resolved.routes # <<>> /\ PlanSoFar(g, Len(g.steps), resolved.routes)
    BY <1>3, <1>7, <2>2, ResolvedWithinGrant
  <2>4. Fits(g, resolved.routes) /\ Len(resolved.routes) \in Nat
    <3>1. resolved.routes \in Seq(RoutesOf(g))
      BY <2>3 DEF PlanSoFar
    <3> QED BY <1>3, <2>2, <2>3, <3>1, PlanFits
  <2> QED BY <1>4, <1>5, <1>7, <2>1, <2>4 DEF StoreInv, Fits, validateRouteList
<1> QED BY <1>6, <1>7

LEMMA ExecuteStep ==
  ASSUME StoreInv, Execute
  PROVE  StoreInv'
<1>1. PICK resolved : resolved = request.plan
  OBVIOUS
<1>2. PICK routes : routes = IF validateAuthorizedRoutes(resolved) /\ keepsPrimaryRevision(resolved)
                             THEN resolveAuthorizedRoutes(serving, resolved.routes, now, MaxAge) ELSE <<>>
  OBVIOUS
<1>3. request' = IF routes = <<>> THEN [request EXCEPT !.st = "invalid"] ELSE [request EXCEPT !.st = "executing", !.routes = routes]
  BY <1>1, <1>2 DEF Execute
<1>4. (file \in Files /\ (serving # None => Installed(serving)))'
  BY DEF Execute, StoreInv, Installed
<1>5. PICK held : held = request'
  OBVIOUS
<1>6. resolved # None /\ Len(resolved.routes) \in Nat /\ Fits(request.grant, resolved.routes) /\ DOMAIN request = {"st", "grant", "plan", "routes"}
  BY <1>1 DEF StoreInv, Execute
<1>7. CASE routes = <<>>
  <2>1. DOMAIN held = {"st", "grant", "plan", "routes"} /\ held.plan = resolved /\ held.grant = request.grant /\ held.st = "invalid"
    BY <1>1, <1>3, <1>5, <1>6, <1>7
  <2> QED BY <1>4, <1>5, <1>6, <2>1 DEF StoreInv, Fits, validateRouteList
<1>8. CASE routes # <<>>
  <2>1. DOMAIN held = {"st", "grant", "plan", "routes"} /\ held.plan = resolved /\ held.grant = request.grant /\ held.st = "executing" /\ held.routes = routes
    BY <1>1, <1>3, <1>5, <1>6, <1>8
  <2>2. \A i \in 1..Len(resolved.routes) : Pinned(resolved.routes[i].ref)
    BY <1>6 DEF Fits, validateRouteList
  <2>3. routes = resolveAuthorizedRoutes(serving, resolved.routes, now, MaxAge)
    BY <1>2, <1>8
  <2>4. SameRoutes(routes, resolved.routes)
    BY <1>6, <1>8, <2>2, <2>3, AuthorizedAsPlanned
  <2> QED BY <1>4, <1>5, <1>6, <2>1, <2>4 DEF StoreInv, Fits, validateRouteList, SameRoutes
<1> QED BY <1>7, <1>8

LEMMA OtherStoreSteps ==
  ASSUME StoreInv, \/ NewStore \/ Reload \/ Finish \/ StoreTick \/ UNCHANGED storeVars
                   \/ \E f \in Files : Publish(f)
                   \/ \E gen \in Generations : ReplaceGeneration(gen)
  PROVE  StoreInv'
<1>1. CASE NewStore \/ Reload \/ StoreTick \/ (\E f \in Files : Publish(f)) \/ (\E gen \in Generations : ReplaceGeneration(gen)) \/ UNCHANGED storeVars
  <2>1. UNCHANGED request
    BY <1>1 DEF NewStore, Reload, StoreTick, Publish, ReplaceGeneration, storeVars
  <2>2. file' \in Files
    BY <1>1 DEF NewStore, Reload, StoreTick, Publish, ReplaceGeneration, storeVars, StoreInv
  <2>3. serving' = serving \/ (serving' = file /\ Installable(file, generation))
    BY <1>1 DEF NewStore, Reload, StoreTick, Publish, ReplaceGeneration, storeVars
  <2>4. (serving # None => Installed(serving))'
    BY <2>3 DEF StoreInv, Installable, Installed
  <2> QED BY <2>1, <2>2, <2>4 DEF StoreInv, Fits, validateRouteList, SameRoutes
<1>2. CASE Finish
  <2>1. PICK held : held = request'
    OBVIOUS
  <2>2. DOMAIN held = {"st", "grant", "plan", "routes"} /\ held.plan = None /\ held.st = "none"
    BY <1>2, <2>1 DEF Finish, NoRequest
  <2> QED BY <1>2, <2>1, <2>2 DEF StoreInv, Finish, Installed
<1> QED BY <1>1, <1>2

\* From the grant to the execution nothing widens: a plan stays within its
\* grant (resolveGrant), and whatever snapshot or keys were reloaded since,
\* what runs is the plan (resolveAuthorizedRoutes), for every inventory, grant,
\* credential generation and order of reloads.
THEOREM PlansAreKept == StoreSpec => []PlanIsKept
<1>1. StoreInit => StoreInv
  <2>1. SUFFICES ASSUME StoreInit PROVE StoreInv
    OBVIOUS
  <2>2. DOMAIN request = {"st", "grant", "plan", "routes"} /\ request.plan = None /\ request.st = "none"
    BY <2>1 DEF StoreInit, NoRequest
  <2> QED BY <2>1, <2>2 DEF StoreInit, StoreInv
<1>2. StoreInv /\ [StoreNext]_storeVars => StoreInv'
  BY AdmitStep, ExecuteStep, OtherStoreSteps DEF StoreNext
<1>3. StoreInv => PlanIsKept
  <2>1. SUFFICES ASSUME StoreInv PROVE PlanIsKept
    OBVIOUS
  <2>2. PlanWithinGrant
    BY <2>1, FitsIsTheProperty DEF StoreInv
  <2>3. ExecutesAsPlanned
    BY <2>1 DEF StoreInv, SameRoutes, ExecutesAsPlanned
  <2> QED BY <2>2, <2>3 DEF PlanIsKept
<1> QED BY <1>1, <1>2, <1>3, PTL DEF StoreSpec
=============================================================================

--------------------------- MODULE PublicRequests ---------------------------
(***************************************************************************)
(* What the public API reads of a request before it asks Oxy for a grant   *)
(* (internal/publicapi: body.go, wire.go and the validate functions of the *)
(* endpoints), the envelope it builds for the executor, and what that      *)
(* envelope must satisfy there (contract.Request.Validate).                *)
(*                                                                         *)
(* A body is the keys of its JSON objects and the defects a decoder finds; *)
(* texts are lengths, 0 for an empty one; None is an absent field.  A      *)
(* check is None or the public code it refuses with.                       *)
(***************************************************************************)
EXTENDS GrantPlan

CONSTANTS
    MaxBody, MaxTools, MaxStops, MaxText, MaxName, MaxInputs, MaxQuestions, MaxImages, MaxImageBytes,
    MaxFileBytes, MaxAudioMs, EmbeddingDimension, TotalBudget, ContextBudget

When(refused, code) == IF refused THEN code ELSE None
Invalid(refused) == When(refused, "invalid_request")
FirstOf(checks) == LET failed == {i \in 1..Len(checks) : checks[i] # None} IN IF failed = {} THEN None ELSE checks[Min(failed)]

Within(n, low, high) == n # None => n >= low /\ n <= high
Distinct(seq) == \A i, j \in 1..Len(seq) : seq[i] = seq[j] => i = j

(***************************************************************************)
(* The body                                                                *)
(***************************************************************************)
requireJSON(body) == Invalid(body.type # "json")
readBody(body, limit) == FirstOf(<<When(body.size > limit, "request_too_large"), Invalid(body.cut)>>)

(* An object that names a key twice means two things. *)
rejectDuplicateKeys(body) == Invalid(\E keys \in body.objects : ~Distinct(keys))

(* decodeRequest: strict about keys, fields, types and what follows.       *)
decodeRequest(body, known) ==
    FirstOf(<<rejectDuplicateKeys(body), Invalid(UNION {ToSet(keys) : keys \in body.objects} \ known # {}),
              Invalid(body.mistyped), Invalid(body.trailing)>>)

readJSON(body, known) == FirstOf(<<requireJSON(body), readBody(body, MaxBody), decodeRequest(body, known)>>)

(* modelTarget: a power level, or a reference. *)
modelTarget(target) == Invalid(target # None /\ ~ValidTarget(target))

(* responsesInput, chatContent: at least one message. *)
responsesInput(messages) == Invalid(messages = <<>>)

(* embeddingsInput. *)
embeddingsInput(texts) == Invalid(Len(texts) \notin 1..MaxInputs \/ Contains(texts, 0))

(* chatStop. *)
chatStop(stops) == Invalid(stops > MaxStops)

(* The user OpenAI's field names, 1 to 64 characters. *)
userField(user) == Invalid(~Within(user, 1, MaxName))

(***************************************************************************)
(* Messages, images and tools                                              *)
(***************************************************************************)

(* ContentSource.validate, ContentPart.validate, Message.validate. *)
ValidSource(s) == CASE s.kind = "url" -> s.url [] s.kind = "inline" -> s.media # None /\ s.data # None [] OTHER -> FALSE

ValidPart(p) ==
    CASE p.type \in {"text", "refusal"} -> p.text # None
      [] p.type \in {"image", "audio", "file"} -> p.source # None /\ ValidSource(p.source)
      [] OTHER -> FALSE

ValidMessage(m) ==
    /\ m.role \in {"system", "developer", "user", "assistant", "tool"}
    /\ (m.role = "tool") = m.answers
    /\ m.role # "assistant" => m.calls = <<>>
    /\ \A i \in 1..Len(m.parts) : ValidPart(m.parts[i]) /\ (m.role # "assistant" => m.parts[i].type # "refusal")

(* CheckImageInput: images ride inline on a user or tool message.          *)
ImagesOf(m) == SelectSeq(m.parts, LAMBDA p : p.type = "image")

Base64DecodedLength(data) == IF data = None \/ data = 0 THEN None ELSE data

CheckImageInput(messages) ==
    LET fine(m, p) ==
            /\ m.role \in {"user", "tool"}
            /\ p.source # None /\ p.source.kind = "inline" /\ p.source.media = "image"
            /\ Base64DecodedLength(p.source.data) # None /\ Base64DecodedLength(p.source.data) <= MaxImageBytes
    IN /\ \A i \in 1..Len(messages) : \A k \in 1..Len(ImagesOf(messages[i])) : fine(messages[i], ImagesOf(messages[i])[k])
       /\ FoldLeft(LAMBDA n, m : n + Len(ImagesOf(m)), 0, messages) <= MaxImages

imageInput(messages) == Invalid(~CheckImageInput(messages))

(* estimatedTokens: a size for Oxy's hold, never of an image. *)
estimatedTokens(messages) ==
    LET partSize(n, p) == n + (IF p.text # None THEN p.text \div 4 + 1 ELSE 0)
                            + (IF p.type # "image" /\ p.source # None /\ p.source.data # None THEN p.source.data \div 16 ELSE 0)
        messageSize(n, m) == FoldLeft(LAMBDA k, c : k + c \div 4 + 1, FoldLeft(partSize, n + 4, m.parts), m.calls)
    IN FoldLeft(messageSize, 0, messages)

validateToolDeclarations(tools, choice) == ~(choice /\ tools = <<>>) /\ Distinct(tools)

(***************************************************************************)
(* Decisions                                                               *)
(***************************************************************************)

(* The larger of the two serialisations: shared instructions are repeated  *)
(* in every question the provider is sent.                                 *)
measure(d, questions) ==
    LET size(q) == q.size + Len(q.labels)
        shared == d.state + (IF d.instructions = None THEN 0 ELSE d.instructions)
        normalized == FoldLeft(LAMBDA n, q : n + size(q), shared, questions)
        wire == FoldLeft(LAMBDA n, q : n + size(q) + (IF d.instructions = None THEN 0 ELSE d.instructions), d.state, questions)
    IN IF normalized > wire THEN normalized ELSE wire

Budget(d) ==
    LET each == {measure(d, <<d.questions[i]>>) : i \in 1..Len(d.questions)} \cup {0}
    IN [total |-> measure(d, d.questions), context |-> CHOOSE n \in each : \A k \in each : k <= n]

ValidLabels(q) ==
    CASE q.kind = "choice" -> Len(q.labels) >= 2 /\ q.labelled = "options"
      [] q.kind = "score"  -> Len(q.labels) \in 2..10 /\ q.labelled = "levels"
      [] q.kind = "noul"   -> q.labels = <<>>
      [] OTHER             -> FALSE

(* DecisionInput.ValidatedBudget. *)
ValidatedBudget(d) ==
    /\ Len(d.questions) \in 1..MaxQuestions /\ d.state <= MaxText
    /\ d.effort \in {None, "low", "medium", "high"} /\ Within(d.instructions, 1, MaxText)
    /\ \A i, j \in 1..Len(d.questions) : i # j => d.questions[i].id # d.questions[j].id
    /\ \A i \in 1..Len(d.questions) :
          LET q == d.questions[i] IN q.size \in 1..MaxText /\ ValidLabels(q) /\ Distinct(q.labels) /\ ~Contains(q.labels, 0)
    /\ Budget(d).total <= TotalBudget /\ Budget(d).context <= ContextBudget

(* handleDecisions sizes the grant from what the provider may bill. *)
decisionEstimate(q, framing) ==
    LET total == Budget(q.decisions).total IN ((IF q.body.size > total THEN q.body.size ELSE total) + 3) \div 4 + framing

(* ValidateDecisionsEnvelope: typed, whole, without generation controls,   *)
(* and no route moves to another revision.                                 *)
ValidateDecisionsEnvelope(e) ==
    /\ e.api = "decisions" /\ e.format = "decisions" /\ e.modality = "text" /\ ~e.stream /\ ~e.controls
    /\ e.speech = None /\ ~e.transcription /\ e.audioOutput = None /\ e.messages = <<>> /\ e.texts = <<>>
    /\ \A r \in ToSet(e.routes) :
          /\ Pinned(r.ref)
          /\ e.target.kind = "model" =>
                r.substitution = "same_model" /\ r.ref = IF Pinned(e.target.ref) THEN e.target.ref ELSE e.routes[1].ref
    /\ ValidatedBudget(e.decisions)

(***************************************************************************)
(* The endpoints                                                           *)
(***************************************************************************)
validateResponses(q) ==
    FirstOf(<<Invalid(~Within(q.maxOutput, 1, MaxText)), Invalid(q.choice /\ q.tools = <<>>), Invalid(Len(q.tools) > MaxTools),
              Invalid(q.stops > MaxStops), Invalid(~Distinct(q.tools))>>)

(* chatMessages: modalities, audio and limits of the OpenAI wire. *)
chatMessages(q) ==
    LET spoken == Contains(q.modalities, "audio")
    IN FirstOf(<<Invalid(q.messages = <<>>), Invalid(q.maxTokens # None /\ q.maxCompletion # None),
                 Invalid(~(ToSet(q.modalities) \subseteq {"text", "audio"})), Invalid(~Contains(q.modalities, "text")),
                 Invalid(spoken # (q.audio # None)), Invalid(spoken /\ q.stream /\ q.audio.format # "pcm16"),
                 Invalid(q.choice /\ q.tools = <<>>), Invalid(\E m \in ToSet(q.messages) : m.foreignCalls)>>)

validateEmbeddings(q) ==
    FirstOf(<<Invalid(~ValidTarget(q.target) \/ q.target.kind # "model"), Invalid(q.encoding \notin {None, "float"}),
              Invalid(q.dimensions \notin {None, EmbeddingDimension}), userField(q.user)>>)

validateDecisions(q) ==
    FirstOf(<<Invalid(q.target # None /\ (q.target.kind # "model" \/ q.target.rev = 0)), Invalid(~ValidatedBudget(q.decisions))>>)

SpeechFormats == {"mp3", "opus", "aac", "flac", "wav", "pcm"}
speechFormatOf(q) == IF q.format = None THEN "mp3" ELSE q.format

(* checkSpeech: what the model publishes of its voices. *)
checkSpeech(q, audio) ==
    FirstOf(<<Invalid(audio.maxInput # None /\ q.input > audio.maxInput), Invalid(q.voice \notin audio.voices),
              Invalid(speechFormatOf(q) \notin audio.formats), Invalid(q.speed # None /\ (audio.speed = None \/ q.speed \notin audio.speed))>>)

validateSpeech(q, audio) ==
    FirstOf(<<Invalid(~ValidTarget(q.target) \/ q.target.kind # "model"), Invalid(q.input \notin 1..MaxText), Invalid(q.voice \notin 1..MaxName),
              Invalid(speechFormatOf(q) \notin SpeechFormats), Invalid(~Within(q.speed, 1, 4)),
              Invalid(q.streamFormat # None /\ ~q.stream), Invalid(q.streamFormat \notin {None, "audio", "sse"}),
              Invalid(q.stream /\ speechFormatOf(q) \notin {"mp3", "pcm"}), userField(q.user),
              IF audio = None THEN None ELSE checkSpeech(q, audio)>>)

(* parseTranscriptionMultipart, parseTranscriptionJSON: one file, each     *)
(* field once.                                                             *)
parseTranscriptionMultipart(q) ==
    FirstOf(<<Invalid(~q.boundary), Invalid(q.body.mistyped), Invalid(~Distinct(q.parts)),
              Invalid(~(ToSet(q.parts) \subseteq {"file", "model", "language", "prompt"})), Invalid(~Contains(q.parts, "file"))>>)

parseTranscriptionJSON(q) ==
    FirstOf(<<decodeRequest(q.body, q.known), When(q.bytes > MaxFileBytes, "request_too_large"), Invalid(q.badBase64)>>)

validateTranscription(q) ==
    FirstOf(<<Invalid(~ValidTarget(q.target) \/ q.target.kind # "model"), Invalid(q.media \notin 1..MaxName), Invalid(q.bytes = 0),
              When(q.bytes > MaxFileBytes, "request_too_large"), Invalid(~Within(q.language, 1, MaxName)), Invalid(~Within(q.prompt, 0, MaxText))>>)

(* checkTranscription: an upload format the line does not take. *)
checkTranscription(q, inv) ==
    IF q.target.line \notin Lines(inv) THEN "model_not_found"
    ELSE LET audio == Catalogue(inv)[q.target.line].entry.audio
         IN Invalid(audio # None /\ audio.uploads # None /\ ~Contains(audio.uploads, q.media))

(* The duration is measured before anything is held. *)
measuredAudio(q) == FirstOf(<<Invalid(q.milliseconds = None), When(q.milliseconds # None /\ q.milliseconds > MaxAudioMs, "request_too_large")>>)

readTranscription(q) ==
    CASE q.body.type = "multipart" -> FirstOf(<<readBody(q.body, MaxBody), parseTranscriptionMultipart(q)>>)
      [] q.body.type = "json"      -> FirstOf(<<readBody(q.body, MaxBody), parseTranscriptionJSON(q)>>)
      [] OTHER                     -> "invalid_request"

(* handleImages refuses every request, before a grant. *)
validateImages(q) ==
    FirstOf(<<Invalid(~ValidTarget(q.target) \/ q.target.kind # "model"), Invalid(q.prompt \notin 1..MaxText), Invalid(~Within(q.n, 1, 10)),
              "unsupported_modality">>)

(* The refusal of a request before Oxy is asked, in the handler's order. *)
Refusal(q, inv, audio) ==
    CASE q.endpoint = "responses"  -> FirstOf(<<readJSON(q.body, q.known), modelTarget(q.target), responsesInput(q.messages),
                                                validateResponses(q), imageInput(q.messages)>>)
      [] q.endpoint = "chat"       -> FirstOf(<<readJSON(q.body, q.known), modelTarget(q.target), chatStop(q.stops), chatMessages(q), imageInput(q.messages)>>)
      [] q.endpoint = "embeddings" -> FirstOf(<<readJSON(q.body, q.known), embeddingsInput(q.texts), validateEmbeddings(q)>>)
      [] q.endpoint = "decisions"  -> FirstOf(<<readJSON(q.body, q.known), validateDecisions(q)>>)
      [] q.endpoint = "speech"     -> FirstOf(<<readJSON(q.body, q.known), validateSpeech(q, audio)>>)
      [] q.endpoint = "transcriptions" ->
            FirstOf(<<readTranscription(q), validateTranscription(q), checkTranscription(q, inv), measuredAudio(q)>>)
      [] q.endpoint = "images"     -> FirstOf(<<readJSON(q.body, q.known), validateImages(q)>>)

(***************************************************************************)
(* The executor's envelope                                                 *)
(***************************************************************************)

(* admission.request: what every endpoint's envelope starts from. *)
envelopeOf(api, modality, format, plan) ==
    [api |-> api, modality |-> modality, format |-> format, target |-> plan.target, routes |-> plan.routes,
     messages |-> <<>>, texts |-> <<>>, text |-> None, decisions |-> None, stream |-> FALSE, maxOutput |-> None, tools |-> <<>>, choice |-> FALSE,
     controls |-> FALSE, speech |-> None, transcription |-> FALSE, audioOutput |-> None]

(* What each handler fills in. *)
Envelope(q, plan) ==
    CASE q.endpoint = "responses" ->
            [envelopeOf("responses", "text", "messages", plan) EXCEPT
                !.messages = q.messages, !.stream = q.stream, !.maxOutput = q.maxOutput, !.tools = q.tools, !.choice = q.choice]
      [] q.endpoint = "chat" ->
            [envelopeOf("chat", "text", "messages", plan) EXCEPT
                !.messages = q.messages, !.stream = q.stream, !.maxOutput = IF q.maxCompletion # None THEN q.maxCompletion ELSE q.maxTokens,
                !.tools = q.tools, !.choice = q.choice,
                !.audioOutput = IF q.audio = None THEN None ELSE [voice |-> q.audio.voice, format |-> IF q.audio.format = "pcm16" THEN "pcm" ELSE q.audio.format]]
      [] q.endpoint = "embeddings" -> [envelopeOf("embeddings", "embedding", "texts", plan) EXCEPT !.texts = q.texts]
      [] q.endpoint = "decisions" -> [envelopeOf("decisions", "text", "decisions", plan) EXCEPT !.decisions = q.decisions]
      [] q.endpoint = "speech" ->
            [envelopeOf("speech", "audio", "text", plan) EXCEPT
                !.text = q.input, !.speech = [voice |-> q.voice, format |-> speechFormatOf(q), speed |-> q.speed]]
      [] q.endpoint = "transcriptions" ->
            [envelopeOf("transcriptions", "audio", "messages", plan) EXCEPT
                !.messages = <<[role |-> "user", answers |-> FALSE, calls |-> <<>>, foreignCalls |-> FALSE,
                               parts |-> <<[type |-> "audio", text |-> None, source |-> [kind |-> "inline", url |-> FALSE, media |-> q.media, data |-> q.bytes]]>>]>>,
                !.transcription = q.language # None \/ q.prompt # None]

(* Input.validate, RoutingTarget.validate. *)
ValidInput(e) ==
    CASE e.format = "decisions" -> ValidatedBudget(e.decisions)
      [] e.format = "messages"  -> e.messages # <<>> /\ \A i \in 1..Len(e.messages) : ValidMessage(e.messages[i])
      [] e.format = "text"      -> e.text # None
      [] e.format = "texts"     -> e.texts # <<>>
      [] OTHER                  -> FALSE

ValidSpoken(e) ==
    /\ e.api = "chat" /\ e.modality = "audio" /\ e.format = "messages"
    /\ e.audioOutput.voice \in 1..MaxName /\ e.audioOutput.format \in {"wav", "mp3", "flac", "opus", "pcm"}
    /\ e.stream => e.audioOutput.format = "pcm"

ValidSpeech(e) ==
    /\ e.api = "speech" /\ e.modality = "audio" /\ e.format = "text"
    /\ e.speech.voice \in 1..MaxName /\ e.speech.format \in SpeechFormats /\ Within(e.speech.speed, 1, 4)

(* Request.Validate. *)
Validate(e) ==
    /\ e.format = "decisions" \/ e.api = "decisions" => ValidateDecisionsEnvelope(e)
    /\ e.audioOutput # None => ValidSpoken(e)
    /\ e.speech # None => ValidSpeech(e)
    /\ e.transcription => e.api = "transcriptions" /\ e.modality = "audio" /\ e.format = "messages"
    /\ ValidInput(e)
    /\ e.format = "messages" => CheckImageInput(e.messages)
    /\ Within(e.maxOutput, 1, MaxText)
    /\ validateToolDeclarations(e.tools, e.choice)
    /\ validateAuthorizedRoutes(e)

(***************************************************************************)
(* Public errors                                                           *)
(***************************************************************************)
NonRetryable ==
    {"invalid_request", "authentication_failed", "permission_denied", "insufficient_scope", "model_not_found", "unsupported_modality",
     "context_length_exceeded", "request_too_large", "output_limit_exceeded", "idempotency_conflict", "insufficient_balance",
     "spending_limit_exceeded", "quota_exceeded", "byok_credential_invalid", "policy_violation", "commercial_permission_denied",
     "no_route_available", "upstream_content_filtered", "cancelled", "provider_credential_invalid", "provider_billing_refused"}

(* The codes of the contract. *)
ErrorCode ==
    NonRetryable \cup {"rate_limited", "deployment_unavailable", "provider_error", "provider_timeout", "provider_overloaded",
                      "service_unavailable", "internal_error"}

(* NewPublicError, ErrorCode.Retryable: retryability follows the code. *)
Retryable(code) == code \notin NonRetryable
NewPublicError(code) == [code |-> code, retryable |-> Retryable(code)]

(* PublicErrorFrom: what is Kaana's own business with a provider is        *)
(* service_unavailable.                                                    *)
PublicErrorFrom(code) ==
    NewPublicError(IF code \in {"provider_credential_invalid", "provider_billing_refused", "deployment_unavailable"} THEN "service_unavailable" ELSE code)

(* OxyAuthorizer.refusal: a readable code is the caller's; anything else   *)
(* is Oxy turning Kaana away.                                              *)
refusal(answer) ==
    IF answer.code # None THEN PublicErrorFrom(answer.code)
    ELSE IF answer.status >= 500 \/ answer.status = 429 THEN NewPublicError("service_unavailable")
    ELSE NewPublicError("internal_error")
=============================================================================

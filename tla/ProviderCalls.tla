--------------------------- MODULE ProviderCalls ---------------------------
(***************************************************************************)
(* The pure half of the adapters provider/openaicompat, provider/anthropic *)
(* and provider/spokenchat: what a request becomes on a provider's wire    *)
(* (Translate), what a provider's refusal becomes in the contract's words  *)
(* (Refuse, streamFailure, classify) and what its token counts become in   *)
(* the contract's units.                                                   *)
(*                                                                         *)
(* A request names its controls by the contract's parameter words.  A      *)
(* message is its role, its parts and its tool calls (each whether its     *)
(* arguments are a JSON object); a part is its type, its source and a      *)
(* number that stands for its content.  A route is the provider, the       *)
(* family of its model, the parameters its row states and the efforts      *)
(* reviewed for it (Unstated: nobody said).                                *)
(***************************************************************************)
EXTENDS Integers, Sequences, FiniteSets, SequencesExt

CONSTANT Unstated    \* a value nobody stated; not in any of the sets below

\* The first refusal that applies, in the code's order.
FirstRefusal(refusals) ==
  LET due == SelectSeq(refusals, LAMBDA r : r.when)
  IN  IF due = <<>> THEN "no" ELSE due[1].code

\* The first message that is refused.
FirstOf(messages, refusal(_)) ==
  FirstRefusal([i \in DOMAIN messages |-> [when |-> refusal(messages[i]) # "no", code |-> refusal(messages[i])]])

Call(path, sent, messages, system) ==
  [refused |-> "no", path |-> path, sent |-> sent, messages |-> messages, system |-> system]
Unsupported(code) ==
  [refused |-> code, path |-> "none", sent |-> {}, messages |-> <<>>, system |-> <<>>]

-----------------------------------------------------------------------------
(* The conversation *)

\* translateContentPart: what the protocol has no form for.
chatPartRefused(p) ==
  \/ p.type = "audio" /\ (p.source # "inline" \/ p.media \notin {"wav", "mp3"})
  \/ p.type = "file" /\ p.source # "inline"
  \/ p.type = "refusal"

\* The text that stands for a tool result of images only.
toolImagesFollow == 0

withoutImages(m) ==
  LET kept == SelectSeq(m.parts, LAMBDA p : p.type # "image")
  IN  IF kept = <<>> /\ m.parts # <<>>
      THEN <<[type |-> "text", source |-> "none", media |-> "none", id |-> toolImagesFollow]>>
      ELSE kept

Ids(parts) == [i \in DOMAIN parts |-> parts[i].id]

\* translateConversation's flush: the images of the tool results so far.
flush(acc) ==
  IF acc.images = <<>> THEN acc
  ELSE [said |-> Append(acc.said, [role |-> "user", ids |-> acc.images]), images |-> <<>>]

\* Mutant of chatConversation: the images are sent as each tool result is.
chatConversationAtOnce(messages) ==
  FoldLeft(LAMBDA acc, m :
             LET kept == IF m.role = "tool" THEN withoutImages(m) ELSE m.parts
                 tail == IF m.role = "tool" THEN Ids(SelectSeq(m.parts, LAMBDA p : p.type = "image")) ELSE <<>>
             IN  flush([said |-> Append(acc.said, [role |-> m.role, ids |-> Ids(kept)]), images |-> tail]),
           [said |-> <<>>, images |-> <<>>], messages).said

\* openaicompat's translateConversation: the tool role takes text only, so a run
\* of tool results is followed by one user message with its images.
chatConversation(messages) ==
  LET step(acc, m) ==
        IF m.role = "tool"
        THEN [said   |-> Append(acc.said, [role |-> "tool", ids |-> Ids(withoutImages(m))]),
              images |-> acc.images \o Ids(SelectSeq(m.parts, LAMBDA p : p.type = "image"))]
        ELSE [flush(acc) EXCEPT !.said = Append(@, [role |-> m.role, ids |-> Ids(m.parts)])]
  IN  flush(FoldLeft(step, [said |-> <<>>, images |-> <<>>], messages)).said

Instructs(m) == m.role \in {"system", "developer"}

\* anthropic's plainText: the system prompt is text and nothing else.
plainText(m) == Ids(SelectSeq(m.parts, LAMBDA p : p.type = "text"))

\* anthropic's translateConversation: the instructions leave the list, a tool
\* result is a user message, and an empty message is left out.
systemOf(messages) ==
  FlattenSeq([i \in DOMAIN messages |-> IF Instructs(messages[i]) THEN plainText(messages[i]) ELSE <<>>])

messagesConversation(messages) ==
  LET kept == SelectSeq(messages, LAMBDA m : ~Instructs(m) /\ (m.role = "tool" \/ m.parts # <<>> \/ m.calls # <<>>))
  IN  [i \in DOMAIN kept |-> [role |-> IF kept[i].role = "tool" THEN "user" ELSE kept[i].role,
                              ids  |-> Ids(kept[i].parts)]]

\* translateContentPart and translateToolCall: what a message has no form for.
messageRefusal(m) ==
  FirstRefusal(
    <<[when |-> \E i \in DOMAIN m.parts : m.parts[i].type \in {"audio", "refusal"}, code |-> "unsupported_modality"],
      [when |-> \E i \in DOMAIN m.calls : ~m.calls[i], code |-> "invalid_request"]>>)

messagesRefusal(messages) ==
  LET said == SelectSeq(messages, LAMBDA m : ~Instructs(m))
  IN  IF FirstOf(said, messageRefusal) # "no" THEN FirstOf(said, messageRefusal)
      ELSE IF messagesConversation(messages) = <<>> THEN "invalid_request" ELSE "no"

-----------------------------------------------------------------------------
(* The controls *)

ToolChoiceValue == [none |-> "toolChoice.none", required |-> "toolChoice.required", function |-> "toolChoice.function"]
ToolChoiceValues == {ToolChoiceValue[c] : c \in DOMAIN ToolChoiceValue}

\* What a tool choice needs its route to accept: nothing for auto, the default.
ToolChoiceParameters(choice) ==
  IF choice \in {"none", "required", "function"} THEN {"toolChoice", ToolChoiceValue[choice]} ELSE {}

CanonicalSet(P) ==
  IF P \cap ToolChoiceValues # {} THEN P \cup {"toolChoice"}
  ELSE IF "toolChoice" \in P THEN P \cup ToolChoiceValues ELSE P

UnacceptedParameter(accepted, carried) == accepted # Unstated /\ carried \ CanonicalSet(accepted) # {}

\* What the caller asked for beyond the conversation.  A tool choice of auto and
\* a text response format are the defaults.
Asked(q) ==
  q.controls \cup ToolChoiceParameters(q.choice)
             \cup (IF q.effort = Unstated THEN {} ELSE {"reasoning.effort"})
             \cup (IF q.respond \in {"default", "text"} THEN {} ELSE {"responseFormat"})

Sampling == {"sampling.temperature", "sampling.topP", "sampling.stopSequences"}
Penalties == {"sampling.frequencyPenalty", "sampling.presencePenalty", "sampling.seed"}

\* The controls each wire has a field for.
ChatFields == Sampling \cup Penalties \cup ToolChoiceValues
                \cup {"maxOutputTokens", "reasoning.effort", "responseFormat", "tools", "toolChoice"}
SpokenFields == Sampling \cup Penalties \cup {"maxOutputTokens"}
MessagesControls == Sampling \cup ToolChoiceValues \cup {"maxOutputTokens", "reasoning.effort", "tools", "toolChoice"}
MessagesFields == MessagesControls \cup {"sampling.topK"}

-----------------------------------------------------------------------------
(* openaicompat's Translate *)

\* refuseUnstatedEffort and reasoningDialectFor.
EffortRefused(q, route) ==
  /\ q.effort # Unstated
  /\ \/ route.efforts # Unstated /\ q.effort \notin route.efforts
     \/ route.provider \notin {"openrouter", "openai", "groq", "cerebras", "xai"}

\* A conversation, as chat completions.
chatTranslate(q, route) ==
  LET sent    == Asked(q) \cap ChatFields
      refused == FirstRefusal(
        <<[when |-> q.modality # "text" \/ q.input # "messages", code |-> "unsupported_modality"],
          [when |-> \E i \in DOMAIN q.messages : \E j \in DOMAIN q.messages[i].parts :
                       chatPartRefused(q.messages[i].parts[j]), code |-> "unsupported_modality"],
          [when |-> EffortRefused(q, route), code |-> "invalid_request"],
          [when |-> "sampling.topK" \in q.controls, code |-> "invalid_request"],
          [when |-> q.respond = "schema_unnamed", code |-> "invalid_request"],
          [when |-> UnacceptedParameter(route.accepted, sent), code |-> "invalid_request"]>>)
  IN  IF refused # "no" THEN Unsupported(refused)
      ELSE Call("chat", sent, chatConversation(q.messages), <<>>)

\* An embedding: of a text, or of a batch.
embeddingTranslate(q, route) ==
  LET refused == FirstRefusal(
        <<[when |-> ~route.embeds \/ route.family \notin {Unstated, "embeddings"}, code |-> "unsupported_modality"],
          [when |-> q.stream, code |-> "invalid_request"],
          [when |-> q.input \notin {"text", "text_batch"}, code |-> "unsupported_modality"]>>)
  IN  IF refused # "no" THEN Unsupported(refused) ELSE Call("embeddings", {}, <<>>, <<>>)

\* spokenchat's translateMessage: text, and inline wav or mp3 of a user turn.
spokenTurnRefusal(m) ==
  FirstRefusal(
    <<[when |-> m.role = "tool" \/ m.calls # <<>> \/ m.parts = <<>>, code |-> "invalid_request"],
      [when |-> \E i \in DOMAIN m.parts :
                  \/ m.parts[i].type \notin {"text", "audio"}
                  \/ m.parts[i].type = "audio" /\ (m.role # "user" \/ chatPartRefused(m.parts[i])),
       code |-> "unsupported_modality"]>>)

\* A spoken chat; what the slug streams only is always streamed.
spokenTranslate(q, route) ==
  LET sent    == Asked(q) \cap SpokenFields
      refused == FirstRefusal(
        <<[when |-> ~route.speaks, code |-> "unsupported_modality"],
          [when |-> q.modality # "audio" \/ (q.stream /\ q.audio # "pcm"), code |-> "invalid_request"],
          [when |-> q.choice # "default" \/ Asked(q) \ SpokenFields # {}, code |-> "invalid_request"],
          [when |-> q.input # "messages" \/ q.messages = <<>>, code |-> "invalid_request"],
          [when |-> FirstOf(q.messages, spokenTurnRefusal) # "no", code |-> FirstOf(q.messages, spokenTurnRefusal)],
          [when |-> UnacceptedParameter(route.accepted, sent), code |-> "invalid_request"]>>)
  IN  IF refused # "no" THEN Unsupported(refused)
      ELSE Call("spoken", sent, [i \in DOMAIN q.messages |-> [role |-> q.messages[i].role, ids |-> Ids(q.messages[i].parts)]], <<>>)

\* The order in which the slug's endpoints are tried.
openaiTranslate(q, route) ==
  LET refused == FirstRefusal(
        <<[when |-> route.provider = "openai-decisions", code |-> "unsupported_modality"],
          [when |-> q.audio = Unstated /\ q.effort # Unstated /\ q.modality # "text", code |-> "invalid_request"],
          [when |-> q.audio = Unstated /\ route.family \in {"speech", "transcription"}, code |-> "unsupported_modality"]>>)
  IN  IF refused # "no" THEN Unsupported(refused)
      ELSE IF q.audio # Unstated THEN spokenTranslate(q, route)
      ELSE IF q.modality = "embedding" THEN embeddingTranslate(q, route) ELSE chatTranslate(q, route)

-----------------------------------------------------------------------------
(* anthropic's Translate *)

\* AcceptedParameters: what the model is reviewed to take.
Reviewed(route) == IF route.refuses = Unstated THEN Unstated ELSE MessagesControls \ route.refuses

messagesTranslate(q, route) ==
  LET carried == Asked(q) \cap MessagesControls
      refused == FirstRefusal(
        <<[when |-> q.modality # "text" \/ q.input # "messages", code |-> "unsupported_modality"],
          [when |-> "maxOutputTokens" \notin q.controls, code |-> "invalid_request"],
          [when |-> messagesRefusal(q.messages) # "no", code |-> messagesRefusal(q.messages)],
          [when |-> Asked(q) \ MessagesFields # {}, code |-> "invalid_request"],
          [when |-> UnacceptedParameter(Reviewed(route), carried) \/ UnacceptedParameter(route.accepted, carried),
           code |-> "invalid_request"]>>)
  IN  IF refused # "no" THEN Unsupported(refused)
      ELSE Call("messages", Asked(q) \cap MessagesFields, messagesConversation(q.messages), systemOf(q.messages))

Translate(q, route) ==
  IF route.provider = "anthropic" THEN messagesTranslate(q, route) ELSE openaiTranslate(q, route)

-----------------------------------------------------------------------------
(* What a provider's refusal says.  A refusal is the status it came with (0:  *)
(* inside a stream), the type and the code it names ("none": none) and        *)
(* whether it gives moderation reasons or is OpenRouter's policy message.     *)

Blamed(code, category) == [code |-> code, category |-> category, recurs |-> FALSE]
Billing    == Blamed("provider_billing_refused", "quota")
BadKey     == Blamed("provider_credential_invalid", "authentication")
Throttled  == Blamed("rate_limited", "rate_limit")
TimedOut   == Blamed("provider_timeout", "timeout")
Overloaded == Blamed("provider_overloaded", "overloaded")
Faulted    == Blamed("provider_error", "server_error")
Filtered   == Blamed("upstream_content_filtered", "content_filter")
Unreadable == Blamed("provider_error", "unknown")
BadRequest(code) == Blamed(code, "invalid_request")

\* Mutant of chatRefuse: OpenRouter's 403 is read as every other provider's.
chatRefuse403(slug, r) ==
  CASE r.status = 402 \/ (r.status = 429 /\ r.type = "insufficient_quota") -> Billing
    [] r.status = 429 -> Throttled
    [] r.status \in {401, 403} -> BadKey
    [] r.status = 404 -> BadRequest("model_not_found")
    [] r.status \in {408, 504} -> TimedOut
    [] r.status = 503 -> Overloaded
    [] r.status >= 500 -> Faulted
    [] OTHER -> BadRequest("invalid_request")

\* openaicompat's Refuse.
chatRefuse(slug, r) ==
  CASE r.status = 402 \/ (r.status = 429 /\ r.type = "insufficient_quota") -> Billing
    [] r.status = 429 /\ r.type # "insufficient_quota" -> Throttled
    [] r.status = 403 /\ slug = "openrouter" -> IF r.reasons THEN Filtered ELSE BadRequest("permission_denied")
    [] r.status = 401 \/ (r.status = 403 /\ slug # "openrouter") -> BadKey
    [] r.status = 404 -> BadRequest(IF slug = "openrouter" /\ r.policy THEN "invalid_request" ELSE "model_not_found")
    [] r.status \in {408, 504} -> TimedOut
    [] r.status = 503 -> Overloaded
    [] r.status >= 500 /\ r.status \notin {503, 504} -> Faulted
    [] r.status < 500 /\ r.status \notin {401, 402, 403, 404, 408, 429} ->
         IF r.type \in {"content_filter", "content_policy_violation"} THEN Filtered
         ELSE IF slug = "groq" /\ r.status = 413 /\ r.type = "tokens" /\ r.code = "rate_limit_exceeded"
              THEN [Throttled EXCEPT !.recurs = TRUE]
         ELSE BadRequest(IF r.status = 413 THEN "request_too_large" ELSE "invalid_request")

\* upstreamError.kind: the type, else OpenRouter's error_type, else the status
\* its numeric code names.
kind(r) ==
  IF r.type # "none" THEN r.type
  ELSE CASE r.code = "402" -> "billing_error"       [] r.code = "401" -> "authentication_error"
         [] r.code = "429" -> "rate_limit_exceeded" [] r.code = "502" -> "server_error"
         [] r.code = "503" -> "overloaded_error"    [] OTHER -> "none"

\* openaicompat's streamFailure: a refusal inside a stream that began with 200.
streamFailure(r) ==
  CASE kind(r) \in {"insufficient_quota", "billing_error"} -> Billing
    [] kind(r) \in {"authentication_error", "invalid_api_key", "invalid_api_key_error", "unauthorized"} -> BadKey
    [] kind(r) = "rate_limit_exceeded" -> Throttled
    [] kind(r) \in {"server_error", "internal_error", "overloaded_error", "provider_overloaded"} -> Faulted
    [] kind(r) \in {"content_filter", "content_policy_violation"} -> Filtered
    [] OTHER -> Unreadable

\* anthropic's classifyByStatus: a type this build does not know.
classifyByStatus(status) ==
  CASE status = 429 -> Throttled
    [] status \in {408, 504} -> TimedOut
    [] status >= 500 /\ status # 504 -> Faulted
    [] status \in 400..499 /\ status \notin {408, 429} -> BadRequest("invalid_request")
    [] status < 400 -> Unreadable

\* anthropic's classify: the provider's own type first.
classify(r) ==
  CASE r.type = "rate_limit_error" -> Throttled
    [] r.type = "billing_error" -> Billing
    [] r.type \in {"authentication_error", "permission_error"} -> BadKey
    [] r.type = "not_found_error" -> BadRequest("model_not_found")
    [] r.type = "request_too_large" -> BadRequest("request_too_large")
    [] r.type = "timeout_error" -> TimedOut
    [] r.type = "overloaded_error" -> Overloaded
    [] r.type = "api_error" -> Faulted
    [] r.type = "invalid_request_error" -> BadRequest("invalid_request")
    [] OTHER -> classifyByStatus(r.status)

\* What either adapter makes of a refusal.
Classified(slug, r) ==
  IF slug = "anthropic" THEN classify(r)
  ELSE IF r.status = 0 THEN streamFailure(r) ELSE chatRefuse(slug, r)

-----------------------------------------------------------------------------
(* Units *)

nonNegative(n) == IF n < 0 THEN 0 ELSE n
Units(input, cached, output, reasoning) ==
  [input |-> input, cached |-> cached, output |-> output, reasoning |-> reasoning]
Counted(u) == u.input + u.cached + u.output + u.reasoning

\* openaicompat's normalizeUsage: both counts nest, so both are taken apart.
normalizeUsage(u) ==
  Units(nonNegative(u.prompt - u.cached), u.cached, nonNegative(u.completion - u.reasoning), u.reasoning)

\* spokenchat's units: a partition that does not add up is refused.
spokenUnits(u) ==
  IF u.cached > u.prompt \/ u.reasoning > u.completion THEN Unstated ELSE normalizeUsage(u)

\* anthropic's usageMeter.
NoMeter == [input |-> 0, read |-> 0, created |-> 0, output |-> 0, thinking |-> 0, seenAny |-> FALSE, final |-> FALSE]

Said(field, before) == IF field = Unstated THEN before ELSE field

\* Mutant of absorb: the counts are added up.
absorbAdds(m, u, final) ==
  [input |-> m.input + Said(u.input, 0), read |-> m.read + Said(u.read, 0), created |-> m.created + Said(u.created, 0),
   output |-> m.output + Said(u.output, 0), thinking |-> m.thinking + Said(u.thinking, 0), seenAny |-> TRUE, final |-> m.final \/ final]

\* The counts are totals so far: the latest of each wins.
absorb(m, u, final) ==
  [input |-> Said(u.input, m.input), read |-> Said(u.read, m.read), created |-> Said(u.created, m.created),
   output |-> Said(u.output, m.output), thinking |-> Said(u.thinking, m.thinking), seenAny |-> TRUE, final |-> m.final \/ final]

\* Input is already apart from the cache, output holds the thinking.
meterUnits(m) ==
  IF ~m.seenAny THEN Unstated
  ELSE Units(m.input + m.created, m.read, nonNegative(m.output - m.thinking), m.thinking)

-----------------------------------------------------------------------------
(* Why an answer ended *)

mapFinishReason(reason) ==
  CASE reason \in {"length", "max_tokens"} -> "length"
    [] reason \in {"tool_calls", "function_call"} -> "tool_calls"
    [] reason = "content_filter" -> "content_filter"
    [] OTHER -> "stop"

\* spokenchat's.
finishReason(reason) == IF reason \in {"length", "content_filter"} THEN reason ELSE "stop"

mapStopReason(reason) ==
  CASE reason \in {"max_tokens", "model_context_window_exceeded"} -> "length"
    [] reason = "tool_use" -> "tool_calls"
    [] reason = "refusal" -> "refusal"
    [] OTHER -> "stop"
=============================================================================

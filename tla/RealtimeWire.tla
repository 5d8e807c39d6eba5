---------------------------- MODULE RealtimeWire ----------------------------
(***************************************************************************)
(* The conversions of a realtime adapter between the contract and a        *)
(* provider's wire (internal/provider/openairealtime: wire.go, dialect.go, *)
(* meter.go, and the classification of adapter.go).  A dialect D states    *)
(* what its provider's wire takes; a wire form is a record of what it      *)
(* carries, None for a field left out.                                     *)
(***************************************************************************)
EXTENDS RealtimeRequests

(***************************************************************************)
(* Contract to provider                                                    *)
(***************************************************************************)
wireFormat(format) ==
    CASE format = "pcm16_24khz" -> [type |-> "audio/pcm", rate |-> 24000]
      [] format = "g711_ulaw"   -> [type |-> "audio/pcmu", rate |-> None]
      [] format = "g711_alaw"   -> [type |-> "audio/pcma", rate |-> None]

(* clockBilled, billsClock, tokenUsage: what the statement says is metered. *)
Metered(D, unit) == {d \in D.parameters.detections : unit \in d.units}
clockBilled(D, type) == \E d \in Metered(D, "session_milliseconds") : d.type = type
billsClock(D) == Metered(D, "session_milliseconds") # {}
tokenUsage(D) == Metered(D, "output_tokens") # {}

(* wireTurnDetection: the threshold on the wire's own scale, a silence     *)
(* always stated, responses only where the wire can be told.               *)
scaled(range, value) == IF value = None \/ range = None THEN value ELSE range.min * 10 + value * (range.max - range.min)
wireTurnDetection(D, d) ==
    IF d.type = "none" THEN [type |-> "none"]
    ELSE LET served == CHOOSE x \in WireTurnDetection(D.parameters, d.type) : TRUE
             responses == IF served.fixed THEN [creates |-> None, interrupts |-> None] ELSE [creates |-> d.creates, interrupts |-> d.interrupts]
         IN IF served.type = "semantic_vad" THEN [type |-> "semantic_vad", eagerness |-> d.eagerness, responses |-> responses]
            ELSE [type |-> "server_vad", threshold |-> scaled(served.threshold, d.threshold), prefix |-> d.prefix,
                  silence |-> IF d.silence = None THEN D.silence ELSE d.silence, responses |-> responses]

(* withholdsTools: `none` where the wire has no choice. *)
withholdsTools(D, choice) == ~D.choiceField /\ choice = "none"
wireTools(tools) == IF tools = None THEN <<>> ELSE tools
wireToolChoice(D, choice) == IF D.choiceField THEN choice ELSE None

wireMaxOutputTokens(D, limit) == IF limit = None \/ D.parameters.cap = None \/ limit <= D.parameters.cap THEN limit ELSE D.parameters.cap

(* wireTranscription: a language the provider spells, or none. *)
wireTranscription(D, t) ==
    [prompt |-> IF D.parameters.prompt THEN t.prompt ELSE None, language |-> IF t.language \in D.languages THEN t.language ELSE None]

(* mergeUpdate: an update changes the fields it states. *)
Either(new, old) == IF new = None THEN old ELSE new
mergeUpdate(c, u) ==
    [c EXCEPT !.instructions = Either(u.instructions, @), !.modalities = Either(u.modalities, @), !.detection = Either(u.detection, @),
              !.transcription = Either(u.transcription, @), !.tools = Either(u.tools, @), !.choice = Either(u.choice, @),
              !.maxTokens = Either(u.maxTokens, @)]

(* sessionFields.wire: None when the provider cannot serve a field; the    *)
(* tools are the effective ones, since choosing none withholds them.       *)
fieldsWire(D, f, effective) ==
    IF Unservable(D.parameters, f.detection, f.choice, f.maxTokens, TRUE) \/ (f.transcription # None /\ ~D.transcribes) THEN None
    ELSE [instructions |-> f.instructions,
          modalities |-> IF D.sessionModalities THEN WireOutputModalities(D.parameters, f.modalities) ELSE None,
          detection |-> IF f.detection = None THEN None ELSE wireTurnDetection(D, f.detection),
          transcription |-> IF f.transcription = None THEN None ELSE wireTranscription(D, f.transcription),
          tools |-> IF f.tools # None \/ (f.choice # None /\ ~D.choiceField)
                    THEN (IF withholdsTools(D, effective.choice) THEN <<>> ELSE wireTools(effective.tools)) ELSE None,
          choice |-> wireToolChoice(D, f.choice),
          cap |-> wireMaxOutputTokens(D, f.maxTokens)]

wireUpdate(D, u, projected) == fieldsWire(D, u, mergeUpdate(projected, u))

(* wireOutputFormat, wireSession: the whole configuration, with formats. *)
wireOutputFormat(D, c) ==
    LET asked == WireOutputModalities(D.parameters, c.modalities)
    IN IF c.output # None THEN c.output ELSE IF asked # None /\ Contains(asked, "audio") THEN "pcm16_24khz" ELSE None

wireSession(D, c) ==
    LET fields == fieldsWire(D, c, c)
        output == wireOutputFormat(D, c)
    IN IF c.translation # None \/ fields = None THEN None
       ELSE [fields |-> fields, input |-> wireFormat(c.input), voice |-> c.voice, output |-> IF output = None THEN None ELSE wireFormat(output)]

(* wireItem: audio inline, in the session's format; never the assistant's. *)
wireItem(i, inputFormat) ==
    IF \E k \in 1..Len(i.content) :
          LET p == i.content[k] IN p.type = "output_audio" \/ (p.type = "input_audio" /\ (~p.hasData \/ p.format # inputFormat))
    THEN None ELSE i

(* What each provider's own classifier knows of the errors reported in a   *)
(* session; of any other it knows only that the provider failed.           *)
classifyOpenAIEvent ==
    [insufficient_quota |-> "provider_billing_refused", authentication_error |-> "provider_credential_invalid",
     rate_limit_error |-> "rate_limited", server_error |-> "provider_error", invalid_request_error |-> "invalid_request"]
classifyXAIEvent ==
    [invalid_request_error |-> "invalid_request", invalid_event |-> "invalid_request", internal_error |-> "provider_error",
     timeout |-> "provider_timeout", max_duration |-> "provider_timeout"]
classifyEvent(D, reported) ==
    IF reported \in DOMAIN D.classifies THEN D.classifies[reported] ELSE "provider_error"

(* Those that refuse one event of the client and leave the session open. *)
Refusals(D) == {reported \in DOMAIN D.classifies : D.classifies[reported] = "invalid_request"}

(* classifyRefusal: the failure a refused handshake means. *)

classifyRefusal(status, quota) ==
    CASE status = 402 \/ (status = 429 /\ quota) -> "provider_billing_refused"
      [] status = 429 /\ ~quota    -> "rate_limited"
      [] status \in {401, 403}     -> "provider_credential_invalid"
      [] status = 404              -> "model_not_found"
      [] status \in {408, 504}     -> "provider_timeout"
      [] status = 503              -> "provider_overloaded"
      [] status >= 500 /\ status \notin {503, 504} -> "provider_error"
      [] OTHER                     -> "invalid_request"

(***************************************************************************)
(* Provider to contract                                                    *)
(***************************************************************************)

(* usage.units: disjoint quantities that add up to what was reported, None *)
(* when the report is not such a partition.                                *)
unitsOverlapping(u) ==
    [input |-> u.input - u.audioIn, cachedInput |-> u.cached - u.cachedAudio, audioInput |-> u.audioIn - u.cachedAudio,
     cachedAudio |-> u.cachedAudio, output |-> u.output - u.audioOut, audioOutput |-> u.audioOut]

units(u) ==
    LET parts == [input |-> u.input - u.cached - (u.audioIn - u.cachedAudio), cachedInput |-> u.cached - u.cachedAudio,
                  audioInput |-> u.audioIn - u.cachedAudio, cachedAudio |-> u.cachedAudio,
                  output |-> u.output - u.audioOut, audioOutput |-> u.audioOut]
    IN IF \E unit \in DOMAIN parts : parts[unit] < 0 THEN None
       ELSE IF u.total # None /\ u.total # u.input + u.output THEN None ELSE parts

Total(parts) == parts.input + parts.cachedInput + parts.audioInput + parts.cachedAudio + parts.output + parts.audioOutput

(* responseStatus, finishReason. *)
finishReason(status, reason, calls) ==
    CASE status = "completed" -> IF calls THEN "tool_calls" ELSE "stop"
      [] status = "cancelled" -> "cancelled"
      [] status \in {"incomplete", "failed"} /\ reason = "max_output_tokens" -> "length"
      [] status \in {"incomplete", "failed"} /\ reason = "content_filter"    -> "content_filter"
      [] OTHER -> None

(***************************************************************************)
(* What Kaana measures for a provider billed by it (meter.go)              *)
(***************************************************************************)
bytesPerSecond(format) == IF format = "pcm16_24khz" THEN 6 ELSE 1
milliseconds(bytes, rate) == (bytes * 1000 + rate - 1) \div rate

(* measure: the audio or the text of one command, None when it is both. *)
measure(c) ==
    LET audio == commandInputAudio(c)
        says == c.type = "item.create" /\ c.item.type # "function_call_output"
        texts == says /\ \E k \in 1..Len(c.item.content) : c.item.content[k].type \in {"input_text", "output_text"}
    IN IF audio > 0 /\ texts THEN None ELSE [bytes |-> audio, texts |-> IF says /\ audio = 0 THEN 1 ELSE 0]

(* meter.units: the clock, or the audio of each direction, and the texts. *)
meterUnits(m, clock, formats) ==
    [session |-> IF clock THEN m.time ELSE 0,
     input |-> IF clock THEN 0 ELSE milliseconds(m.inBytes, bytesPerSecond(formats.input)),
     output |-> IF clock \/ formats.output = None THEN 0 ELSE milliseconds(m.outBytes, bytesPerSecond(formats.output)),
     requests |-> m.texts]
=============================================================================

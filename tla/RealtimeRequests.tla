-------------------------- MODULE RealtimeRequests --------------------------
(***************************************************************************)
(* What a realtime session may ask for (internal/contract/realtime.go and  *)
(* realtime_parameters.go) and what the public gate checks of it before a  *)
(* grant is asked for (internal/publicapi/realtime.go).                    *)
(*                                                                         *)
(* A text is its length, an audio frame its decoded size (None when it is  *)
(* no padded base64), None an absent field.  Durations are in seconds.     *)
(***************************************************************************)
EXTENDS Integers, Sequences, FiniteSets, SequencesExt

CONSTANTS
    None,
    MaxChars,       \* the longest text of any field
    MaxIdChars,     \* the longest id, 128 in the code
    MaxParts, MaxSessionTools,
    MaxFrameBytes,  \* of one audio frame
    MaxDuration,    \* of a session
    MaxAudio        \* bytes of a session in one direction

Optional(value, low, high) == value # None => value \in low..high

boundedText(value, low, high) == Optional(value, low, high)
boundedID(value) == value \in 1..MaxIdChars

Formats == {"pcm16_24khz", "g711_ulaw", "g711_alaw"}
Modalities == {"text", "audio"}
SessionKinds == {"conversation", "transcription", "translation"}
Untuned(d) == d.threshold = None /\ d.prefix = None /\ d.silence = None

(***************************************************************************)
(* Configuration                                                           *)
(***************************************************************************)

(* RealtimeTurnDetection.validate; the threshold is in tenths. *)
ValidTurnDetection(d) ==
    CASE d.type = "none" -> Untuned(d) /\ d.eagerness = None /\ d.creates = None /\ d.interrupts = None
      [] d.type = "server_vad" ->
            /\ d.eagerness = None /\ Optional(d.threshold, 0, 10) /\ Optional(d.prefix, 0, 5) /\ Optional(d.silence, 0, 10)
            /\ d.creates # None /\ d.interrupts # None
      [] d.type = "semantic_vad" ->
            Untuned(d) /\ d.eagerness \in {"low", "medium", "high", "auto"} /\ d.creates # None /\ d.interrupts # None
      [] OTHER -> FALSE

createsOrInterrupts(d) == d.creates = TRUE \/ d.interrupts = TRUE

(* RealtimeInputTranscription. *)
ValidTranscription(t) == boundedText(t.language, 2, MaxChars) /\ boundedText(t.prompt, 0, MaxChars)
WantsInterim(t) == t # None /\ t.interim = TRUE

validateOutputModalities(m) ==
    m # None => Len(m) \in 1..2 /\ ToSet(m) \subseteq Modalities /\ \A i, j \in 1..Len(m) : m[i] = m[j] => i = j

validateTuning(tools, maxTokens) == (tools # None => Len(tools) <= MaxSessionTools) /\ (maxTokens # None => maxTokens > 0)

validateSharedConfig(c) ==
    LET tools == IF c.tools = None THEN <<>> ELSE c.tools
    IN /\ validateTuning(c.tools, c.maxTokens)
       /\ ~(c.choice # None /\ tools = <<>>)
       /\ \A i, j \in 1..Len(tools) : tools[i] = tools[j] => i = j

(* RealtimeSessionConfig.validate. *)
ValidConfig(c) ==
    /\ boundedText(c.instructions, 0, MaxChars) /\ validateOutputModalities(c.modalities) /\ boundedText(c.voice, 1, MaxIdChars)
    /\ c.input \in Formats /\ c.output \in Formats \cup {None}
    /\ ValidTurnDetection(c.detection)
    /\ c.transcription # None => ValidTranscription(c.transcription)
    /\ boundedText(c.translation, 2, MaxChars)
    /\ validateSharedConfig(c)

(* RealtimeSessionRequest.ValidateSession: the limits, then what each kind *)
(* of session may and must state.                                          *)
ValidLimits(l) ==
    /\ l.duration \in 1..MaxDuration /\ l.idle \in 1..MaxDuration /\ l.idle <= l.duration
    /\ l.input \in 1..MaxAudio /\ l.output \in 1..MaxAudio /\ l.responses >= 1

ValidForKind(kind, c) ==
    /\ kind # "transcription" => ~WantsInterim(c.transcription)
    /\ CASE kind = "conversation" ->
                /\ c.modalities # None /\ c.translation = None
                /\ Contains(c.modalities, "audio") => c.voice # None /\ c.output # None
         [] kind = "transcription" ->
                /\ c.transcription # None /\ ~createsOrInterrupts(c.detection)
                /\ c.modalities = None /\ c.voice = None /\ c.output = None /\ c.translation = None
                /\ c.tools = None /\ c.choice = None /\ c.maxTokens = None
         [] kind = "translation" -> c.translation # None /\ c.output # None /\ c.tools = None /\ c.choice = None
         [] OTHER -> FALSE

ValidateSession(r) ==
    /\ r.line > 0 /\ r.kind \in SessionKinds /\ r.transport = "websocket"
    /\ ValidConfig(r.config) /\ ValidLimits(r.limits) /\ ValidForKind(r.kind, r.config)

(* validateRoutes: a session is never substituted. *)
validateRoutes(r) ==
    /\ r.routes # <<>>
    /\ \A i \in 1..Len(r.routes) :
          /\ r.routes[i].line = r.line /\ ~r.routes[i].substitute
          /\ r.rev # 0 => r.routes[i].rev = r.rev

ValidSessionRequest(r) == ValidateSession(r) /\ validateRoutes(r)

(***************************************************************************)
(* Commands                                                                *)
(***************************************************************************)
ValidateRealtimeAudioFrame(data) == data # None /\ data \in 1..MaxFrameBytes

DecodedRealtimeAudioBytes(data) == IF data = None THEN 0 ELSE data

(* RealtimeContentPart.validate: one field per variant. *)
ValidRealtimePart(p, role) ==
    /\ (role = "assistant") # (p.type \in {"input_text", "input_audio"})
    /\ role = "system" => p.type = "input_text"
    /\ CASE p.type \in {"input_text", "output_text"} ->
                p.text # None /\ p.format = None /\ ~p.hasData /\ (p.type = "input_text" => p.text <= MaxChars)
         [] p.type \in {"input_audio", "output_audio"} ->
                p.text = None /\ p.format \in Formats /\ (p.hasData => p.type = "input_audio" /\ ValidateRealtimeAudioFrame(p.data))
         [] OTHER -> FALSE

(* RealtimeConversationItem.Validate. *)
ValidItem(i) ==
    /\ i.id # None => boundedID(i.id)
    /\ CASE i.type = "message" ->
                /\ i.role \in {"system", "user", "assistant"} /\ Len(i.content) \in 1..MaxParts
                /\ i.call = None /\ i.name = None /\ i.output = None
                /\ \A k \in 1..Len(i.content) : ValidRealtimePart(i.content[k], i.role)
         [] i.type = "function_call" -> i.role = None /\ i.content = <<>> /\ i.output = None /\ boundedID(i.call) /\ boundedID(i.name)
         [] i.type = "function_call_output" ->
                i.role = None /\ i.content = <<>> /\ i.name = None /\ boundedID(i.call) /\ i.output # None /\ i.output <= MaxChars
         [] OTHER -> FALSE

CommandTypes ==
    {"session.update", "item.create", "item.delete", "item.truncate", "input_audio.append", "input_audio.commit", "input_audio.clear",
     "response.create", "response.cancel", "session.resume", "session.close"}

(* A session.update changes something; its tools are not declared against  *)
(* its choice.                                                             *)
ValidUpdate(u) ==
    /\ u.instructions # None \/ u.modalities # None \/ u.detection # None \/ u.transcription # None \/ u.tools # None
       \/ u.choice # None \/ u.maxTokens # None
    /\ boundedText(u.instructions, 0, MaxChars) /\ validateOutputModalities(u.modalities)
    /\ u.detection # None => ValidTurnDetection(u.detection)
    /\ u.transcription # None => ValidTranscription(u.transcription)
    /\ validateTuning(u.tools, u.maxTokens)

ValidResponse(r) ==
    r # None => boundedText(r.instructions, 0, MaxChars) /\ validateOutputModalities(r.modalities) /\ (r.maxTokens # None => r.maxTokens > 0)

(* validateRealtimeCommand. *)
validateRealtimeCommand(c, session) ==
    /\ c.session = session /\ c.version = 1 /\ boundedID(c.id)
    /\ CASE c.type = "session.update"     -> ValidUpdate(c.config)
         [] c.type = "item.create"        -> ValidItem(c.item)
         [] c.type = "item.delete"        -> boundedID(c.of)
         [] c.type = "item.truncate"      -> boundedID(c.of) /\ c.index >= 0 /\ c.audioEnd >= 0
         [] c.type = "input_audio.append" -> ValidateRealtimeAudioFrame(c.data)
         [] c.type = "response.create"    -> ValidResponse(c.response)
         [] c.type = "response.cancel"    -> c.of = None \/ boundedID(c.of)
         [] c.type = "session.resume"     -> c.after >= -1
         [] OTHER                         -> TRUE

(* DecodeRealtimeCommand: one strict JSON command. *)
DecodeRealtimeCommand(frame, session) ==
    /\ frame.json /\ frame.command.type \in CommandTypes /\ ~frame.unknownField /\ ~frame.trailing
    /\ validateRealtimeCommand(frame.command, session)

(* commandInputAudio: what a command adds to the input audio ceiling. *)
commandInputAudio(c) ==
    CASE c.type = "input_audio.append" -> DecodedRealtimeAudioBytes(c.data)
      [] c.type = "item.create" ->
            FoldLeft(LAMBDA n, p : n + (IF p.type = "input_audio" /\ p.hasData THEN DecodedRealtimeAudioBytes(p.data) ELSE 0), 0, c.item.content)
      [] OTHER -> 0

(***************************************************************************)
(* What a wire serves (RealtimeParameters)                                 *)
(***************************************************************************)
DetectionsOf(p, type) == {d \in p.detections : d.type = type}

(* WireTurnDetection: a semantic_vad the wire does not name is server_vad. *)
WireTurnDetection(p, type) ==
    IF DetectionsOf(p, type) = {} /\ type = "semantic_vad" THEN DetectionsOf(p, "server_vad") ELSE DetectionsOf(p, type)

ServesOutputModalities(p, asked) == ToSet(asked) \in p.modalities

(* WireOutputModalities: otherwise audio, whose frames the session filters. *)
WireOutputModalities(p, asked) == IF asked = None \/ ServesOutputModalities(p, asked) THEN asked ELSE <<"audio">>

(* Unservable: a configuration's or a response's fields no translation     *)
(* serves.  Only a session can withhold its tools.                         *)
Unservable(p, detection, choice, maxTokens, ofSession) ==
    \/ /\ detection # None
       /\ LET served == WireTurnDetection(p, detection.type)
          IN served = {} \/ \E d \in served : d.fixed /\ ~(detection.creates = TRUE /\ detection.interrupts = TRUE)
    \/ choice # None /\ choice \notin p.choices /\ ~(choice = "none" /\ ofSession)
    \/ maxTokens # None /\ p.cap = None

(***************************************************************************)
(* The public gate                                                         *)
(***************************************************************************)
lesser(a, b) == IF a < b THEN a ELSE b

(* realtimeLimits: the defaults, or less; None when it is refused. *)
realtimeLimits(asked, defaults) ==
    LET signed(field) == IF asked[field] = None THEN defaults[field] ELSE lesser(asked[field], defaults[field])
        limits == [field \in DOMAIN defaults |-> signed(field)]
    IN IF asked = None THEN defaults
       ELSE IF \/ asked.idle # None /\ asked.duration # None /\ asked.idle > asked.duration
               \/ \E field \in DOMAIN asked : asked[field] # None /\ asked[field] < 1
               \/ limits.duration < 1 \/ limits.idle < 1 THEN None
       ELSE [limits EXCEPT !.idle = lesser(limits.idle, limits.duration)]

(* checkRealtimeOpen: against the line's catalogue entry. *)
checkRealtimeOpen(entry, open) ==
    LET c == open.config IN
    IF entry = None THEN "model_not_found"
    ELSE IF /\ entry.realtime # None
            /\ open.kind \in entry.realtime.kinds /\ open.transport \in entry.realtime.transports
            /\ entry.realtime.inputs # {} => c.input \in entry.realtime.inputs
            /\ entry.realtime.outputs # {} /\ c.output # None => c.output \in entry.realtime.outputs
            /\ entry.voices # None /\ c.voice # None => c.voice \in entry.voices
            /\ c.transcription # None /\ open.kind = "conversation" => entry.realtime.transcribes
            /\ entry.realtime.parameters # None => ~Unservable(entry.realtime.parameters, c.detection, c.choice, c.maxTokens, TRUE)
         THEN None ELSE "invalid_request"

(* RealtimeGate.Admit, up to the grant: what it refuses with, or None. *)
AdmitOpen(open, entry, defaults) ==
    LET limits == realtimeLimits(open.limits, defaults)
        request == [line |-> open.line, kind |-> open.kind, transport |-> open.transport, config |-> open.config, limits |-> limits]
    IN IF open.otherQuery \/ open.line = 0 \/ ~open.decodes \/ open.type # "session.open" \/ limits = None \/ open.transport # "websocket"
       THEN "invalid_request"
       ELSE IF checkRealtimeOpen(entry, open) # None THEN checkRealtimeOpen(entry, open)
       ELSE IF ~ValidateSession(request) THEN "invalid_request" ELSE None

(* After it: a customer's credential holds no session, and the routes are  *)
(* the plan's of the one line.  <<>> when the grant is given back.         *)
SessionRoutes(plan, byok, line) ==
    IF byok THEN <<>>
    ELSE LET kept == SelectSeq(plan, LAMBDA r : r.line = line) IN [i \in 1..Len(kept) |-> [kept[i] EXCEPT !.substitute = FALSE]]
=============================================================================

----------------------------- MODULE MCRealtime -----------------------------
EXTENDS RealtimeSession, RealtimeUpstream, RealtimeTranscripts, SessionOwners

Detecting == [type |-> "server_vad", threshold |-> 5, prefix |-> 1, silence |-> None, eagerness |-> None, creates |-> TRUE, interrupts |-> TRUE]
NoDetection == [type |-> "none", threshold |-> None, prefix |-> None, silence |-> None, eagerness |-> None, creates |-> None, interrupts |-> None]
Config ==
    [instructions |-> 2, modalities |-> <<"text", "audio">>, voice |-> 1, input |-> "g711_ulaw", output |-> "pcm16_24khz", detection |-> Detecting,
     transcription |-> None, translation |-> None, tools |-> <<1>>, choice |-> "auto", maxTokens |-> None]
Transcribing == [language |-> 2, prompt |-> None, interim |-> FALSE]
Limits == [duration |-> 3, idle |-> 2, input |-> 2, output |-> 1, responses |-> 1]
SessionRoute(line, rev) == [line |-> line, rev |-> rev, substitute |-> FALSE]
SessionRequest(config, routes) ==
    [line |-> 1, rev |-> 0, kind |-> "conversation", transport |-> "websocket", config |-> config, limits |-> Limits, routes |-> routes]
NoAsked == [duration |-> None, idle |-> None, input |-> 1, output |-> None, responses |-> None]
Open(config) ==
    [line |-> 1, rev |-> 1, kind |-> "conversation", transport |-> "websocket", config |-> config, limits |-> NoAsked, otherQuery |-> FALSE,
     decodes |-> TRUE, type |-> "session.open"]
ServedParameters ==
    [detections |-> {[type |-> "server_vad", fixed |-> FALSE], [type |-> "none", fixed |-> FALSE]}, modalities |-> {{"text"}, {"audio"}},
     choices |-> {"auto", "none"}, cap |-> None]
Entry ==
    [realtime |-> [kinds |-> {"conversation"}, transports |-> {"websocket"}, inputs |-> {"g711_ulaw"}, outputs |-> {}, transcribes |-> TRUE,
                   parameters |-> ServedParameters], voices |-> {1, 2}]
Internal(request) == [public |-> FALSE, request |-> request, claimed |-> TRUE]
Public(open, entry, plan) == [public |-> TRUE, open |-> open, entry |-> entry, plan |-> plan, byok |-> FALSE, defaults |-> Limits, claimed |-> TRUE]
TwoRoutes == <<SessionRoute(1, 1), SessionRoute(1, 1)>>
Mixed == <<SessionRoute(2, 1), SessionRoute(1, 1)>>

MCArrivals ==
    {Internal(SessionRequest(Config, TwoRoutes)),
     Internal(SessionRequest([Config EXCEPT !.voice = None], TwoRoutes)),
     Internal(SessionRequest([Config EXCEPT !.tools = <<1, 1>>], TwoRoutes)),
     Internal(SessionRequest(Config, Mixed)),
     Internal(SessionRequest([Config EXCEPT !.transcription = Transcribing], TwoRoutes)),
     Internal([SessionRequest([Config EXCEPT !.modalities = None, !.voice = None, !.output = None, !.tools = None, !.choice = None,
                                             !.detection = NoDetection, !.transcription = Transcribing], <<SessionRoute(1, 1)>>)
                  EXCEPT !.kind = "transcription"]),
     Public(Open([Config EXCEPT !.transcription = Transcribing]), Entry, Mixed),
     Public(Open(Config), Entry, <<SessionRoute(1, 2)>>),
     [Public(Open(Config), Entry, Mixed) EXCEPT !.byok = TRUE],
     [Public(Open(Config), Entry, Mixed) EXCEPT !.claimed = FALSE],
     Public(Open(Config), None, Mixed),
     Public([Open(Config) EXCEPT !.limits.duration = 1, !.limits.idle = 2], Entry, Mixed),
     Public([Open(Config) EXCEPT !.kind = "translation"], Entry, Mixed),
     Public(Open([Config EXCEPT !.choice = "required"]), Entry, Mixed),
     Public(Open([Config EXCEPT !.detection.eagerness = "low"]), Entry, Mixed)}

Frame(kind, command) == [kind |-> kind, json |-> TRUE, unknownField |-> FALSE, trailing |-> FALSE, command |-> command]
Command(id, type) == [session |-> 1, version |-> 1, id |-> id, type |-> type]
Nothing == [instructions |-> None, modalities |-> None, detection |-> None, transcription |-> None, tools |-> None, choice |-> None, maxTokens |-> None]
Said(data) == [type |-> "input_audio", text |-> None, format |-> "g711_ulaw", hasData |-> TRUE, data |-> data]
Item == [type |-> "message", id |-> None, role |-> "user", content |-> <<Said(1)>>, call |-> None, name |-> None, output |-> None]
MCFrames ==
    {[kind |-> "end", command |-> [id |-> None]],
     [kind |-> "binary", command |-> [id |-> None]],
     Frame("text", Command(1, "input_audio.append") @@ [data |-> 1]),
     Frame("text", Command(2, "item.create") @@ [item |-> Item]),
     [Frame("text", Command(3, "item.create") @@ [item |-> [Item EXCEPT !.role = "system"]]) EXCEPT !.trailing = FALSE],
     Frame("text", Command(1, "response.create") @@ [response |-> None]),
     Frame("text", Command(3, "session.update") @@ [config |-> [Nothing EXCEPT !.transcription = Transcribing]]),
     Frame("text", Command(3, "session.resume") @@ [after |-> -1]),
     Frame("text", Command(3, "session.close"))}

(***************************************************************************)
(* Two dialects: one that bills tokens, one that bills minutes, drops an   *)
(* answer it is talked over without a word, and only speaks.               *)
(***************************************************************************)
Detection(type, fixed, threshold, units_) == [type |-> type, fixed |-> fixed, threshold |-> threshold, units |-> units_]
Tokens == {"input_tokens", "output_tokens"}
ByTokens ==
    [parameters |-> [detections |-> {Detection("server_vad", FALSE, None, Tokens), Detection("none", FALSE, None, Tokens)},
                     modalities |-> {{"text"}, {"audio"}}, choices |-> {"auto", "none"}, cap |-> 2, prompt |-> TRUE],
     choiceField |-> TRUE, sessionModalities |-> TRUE, transcribes |-> TRUE, languages |-> {2}, silence |-> 1, classifies |-> classifyOpenAIEvent, drops |-> FALSE]
ByMinutes ==
    [parameters |-> [detections |-> {Detection("server_vad", TRUE, [min |-> 1, max |-> 9], {"session_milliseconds"}),
                                     Detection("none", FALSE, None, {"audio_input_milliseconds"})},
                     modalities |-> {{"audio"}}, choices |-> {"auto"}, cap |-> None, prompt |-> FALSE],
     choiceField |-> FALSE, sessionModalities |-> FALSE, transcribes |-> TRUE, languages |-> {}, silence |-> 2, classifies |-> classifyXAIEvent, drops |-> TRUE]
MCDialects == {ByTokens, ByMinutes, [ByTokens EXCEPT !.parameters.detections = {Detection("none", FALSE, None, Tokens)}]}
MCSignedConfigs == {[Config EXCEPT !.modalities = <<"audio">>], [Config EXCEPT !.modalities = <<"audio">>, !.detection = NoDetection]}
Asks(modalities) == [instructions |-> None, modalities |-> modalities, choice |-> None, maxTokens |-> None]
MCUpCommands ==
    {[type |-> "session.update", config |-> [Nothing EXCEPT !.instructions = 1]],
     [type |-> "session.update", config |-> [Nothing EXCEPT !.detection = NoDetection, !.modalities = <<"text">>]],
     [type |-> "response.create", response |-> Asks(<<"text">>)],
     [type |-> "response.create", response |-> None],
     [type |-> "input_audio.append", data |-> 1]}
Usage(input, cached, audioIn, cachedAudio, output, audioOut) ==
    [input |-> input, cached |-> cached, audioIn |-> audioIn, cachedAudio |-> cachedAudio, output |-> output, audioOut |-> audioOut,
     total |-> input + output]
MCUsages == {None, Usage(4, 2, 2, 1, 2, 1), Usage(1, 2, 0, 0, 1, 0)}

VARIABLE part  \* which component runs

Parts == {"session", "upstream", "transcripts", "owners"}
MCInit ==
    /\ SessionInit /\ UpstreamInit /\ TranscriptInit /\ OwnersInit
    /\ part \in Parts
    /\ part # "upstream" => peer.dialect = ByTokens /\ peer.signed.detection = NoDetection
    /\ part # "transcripts" => tr.on
MCNext ==
    \/ part = "session" /\ SessionNext /\ UNCHANGED <<upstreamVars, transcriptVars, ownerVars, part>>
    \/ part = "upstream" /\ UpstreamNext /\ UNCHANGED <<sessionVars, transcriptVars, ownerVars, part>>
    \/ part = "transcripts" /\ TranscriptNext /\ UNCHANGED <<sessionVars, upstreamVars, ownerVars, part>>
    \/ part = "owners" /\ OwnersNext /\ UNCHANGED <<sessionVars, upstreamVars, transcriptVars, part>>
MCSpec == MCInit /\ [][MCNext]_<<sessionVars, upstreamVars, transcriptVars, ownerVars, part>> /\ SessionFairness
=============================================================================

-------------------------- MODULE RealtimeUpstream --------------------------
(***************************************************************************)
(* One provider session held by the realtime adapter                       *)
(* (internal/provider/openairealtime: adapter.go, session.go): it is       *)
(* dialled and configured, commands are sent upstream, and the provider's  *)
(* events are translated into the contract's.  Its commands are in flight  *)
(* to the provider (external) in the order they were sent; the provider    *)
(* confirms or refuses each, and may answer a turn it detected by itself.  *)
(***************************************************************************)
EXTENDS RealtimeWire

CONSTANTS
    Dialects,      \* what a provider's wire takes, one for each provider
    SignedConfigs, \* the configurations a session opens with
    UpCommands,    \* commands the client sends
    Usages,        \* token usages a response reports
    MaxCommands,   \* bound: commands sent
    MaxAnswers,    \* bound: responses created
    MaxSpoken      \* bound: bytes the provider speaks, and ticks of its clock

(* What a decoded command and a decoded usage count. *)
ASSUME CountsAssumption ==
    /\ \A c \in UpCommands : commandInputAudio(c) \in Nat
    /\ \A usage \in Usages :
          usage # None => {usage.input, usage.cached, usage.audioIn, usage.cachedAudio, usage.output, usage.audioOut} \subseteq Nat

VARIABLES
    u,     \* the adapter's session
    up,    \* commands in flight to the provider
    peer,  \* the provider (external)
    seen   \* what the client has been told, and what really happened

upstreamVars == <<u, up, peer, seen>>

Dialect == peer.dialect
SignedConfig == peer.signed

NoResponse == 0
AdapterSession ==
    [stage |-> "dialling", config |-> SignedConfig, pending |-> <<>>, expected |-> <<>>, asked |-> [r \in {} |-> None],
     open |-> NoResponse, failure |-> None, bytes |-> 0, outBytes |-> 0, texts |-> 0, sent |-> 0, settled |-> 0]

UpstreamInit ==
    /\ \E d \in Dialects, c \in SignedConfigs :
          peer = [dialect |-> d, signed |-> c, config |-> None, created |-> FALSE, response |-> NoResponse, asks |-> None, answers |-> 0,
                  heard |-> 0, spoken |-> 0, time |-> 0]
    /\ u = AdapterSession /\ up = <<>>
    /\ seen = [turn |-> NoResponse, unpaired |-> FALSE, reported |-> 0]

(***************************************************************************)
(* Opening: refuseOpen, Open, dial, configure                              *)
(***************************************************************************)
refuseOpen == wireSession(Dialect, SignedConfig) = None

End(stage, failure) == [AdapterSession EXCEPT !.stage = stage, !.failure = failure]

(* Dialled: the provider says session.created and takes the configuration, *)
(* or refuses the upgrade, or the configuration.                           *)
Dial(answer) ==
    /\ u.stage = "dialling"
    /\ IF refuseOpen THEN u' = End("refused", "unsupported") /\ UNCHANGED peer
       ELSE CASE answer = "created"  -> /\ u' = [u EXCEPT !.stage = "configuring"]
                                        /\ peer' = [peer EXCEPT !.created = TRUE]
              [] answer = "refused"  -> u' = End("refused", classifyRefusal(429, TRUE)) /\ UNCHANGED peer
              [] answer = "lost"     -> u' = End("refused", "provider_error") /\ UNCHANGED peer
    /\ UNCHANGED <<up, seen>>

Configure(answer) ==
    /\ u.stage = "configuring"
    /\ IF answer = "updated"
       THEN u' = [u EXCEPT !.stage = "open"] /\ peer' = [peer EXCEPT !.config = SignedConfig]
       ELSE u' = End("refused", classifyEvent(Dialect, answer)) /\ UNCHANGED peer
    /\ UNCHANGED <<up, seen>>

(***************************************************************************)
(* Commands                                                                *)
(***************************************************************************)

(* projectedConfig: what is in effect for the next command. *)
projectedConfig == FoldLeft(LAMBDA c, p : mergeUpdate(c, p.config), u.config, u.pending)

(* admitUpdate: billing does not change within a session. *)
admitUpdate(update) ==
    update.detection # None /\ billsClock(Dialect) =>
        clockBilled(Dialect, update.detection.type) = clockBilled(Dialect, projectedConfig.detection.type)

(* wireCommand, and what Send refuses before anything is written. *)
Parameters(c) == IF c.response = None THEN [modalities |-> None, choice |-> None, maxTokens |-> None] ELSE c.response
Servable(c) ==
    CASE c.type = "session.update"  -> wireUpdate(Dialect, c.config, projectedConfig) # None /\ admitUpdate(c.config)
      [] c.type = "response.create" -> ~Unservable(Dialect.parameters, None, Parameters(c).choice, Parameters(c).maxTokens, FALSE)
      [] c.type = "item.create"     -> wireItem(c.item, SignedConfig.input) # None
      [] OTHER                      -> TRUE

(* expectResponse: the modalities of a response.create, in order. *)
expectResponse(x, modalities) == [x EXCEPT !.expected = Append(@, [modalities |-> modalities])]

(* Recorded for the meter only once the provider has it. *)
record(x, c, written) ==
    IF written THEN [x EXCEPT !.bytes = @ + measure(c).bytes, !.texts = @ + measure(c).texts] ELSE x

(* Send: a write that does not complete in time ends the session. *)
Send(c, written) ==
    /\ u.stage = "open" /\ u.sent < MaxCommands
    /\ Servable(c) /\ (tokenUsage(Dialect) \/ measure(c) # None)
    /\ LET waiting == IF c.type = "session.update" THEN [u EXCEPT !.pending = Append(@, [id |-> u.sent + 1, config |-> c.config])]
                      ELSE IF c.type = "response.create" THEN expectResponse(u, Parameters(c).modalities)
                      ELSE u
           billed == IF tokenUsage(Dialect) THEN waiting ELSE record(waiting, c, written)
       IN IF written
          THEN /\ u' = [billed EXCEPT !.sent = @ + 1]
               /\ up' = Append(up, [id |-> u.sent + 1, command |-> c])
               /\ peer' = [peer EXCEPT !.heard = @ + commandInputAudio(c)]
          ELSE /\ u' = [billed EXCEPT !.stage = "ended", !.failure = "provider_timeout", !.pending = <<>>, !.expected = <<>>]
               /\ up' = <<>> /\ UNCHANGED peer
    /\ UNCHANGED seen

(***************************************************************************)
(* Events: translate                                                       *)
(***************************************************************************)

(* errorEvent: the command it names is no longer pending; what is not a    *)
(* refusal of one event is why the connection will have ended.             *)
refusedPending(x, id) == x.pending
afterRefusal(x, id) ==
    LET refused == {i \in 1..Len(x.pending) : x.pending[i].id = id}
    IN IF refused = {} THEN x.pending ELSE RemoveAt(x.pending, Min(refused))
errorEvent(x, id, reported) ==
    LET failure == classifyEvent(Dialect, reported)
    IN [x EXCEPT !.pending = afterRefusal(x, id), !.failure = IF failure = "invalid_request" THEN @ ELSE failure]

(* session.updated names no event: it confirms the oldest update. *)
sessionUpdated(x) ==
    IF x.pending = <<>> THEN x ELSE [x EXCEPT !.config = mergeUpdate(@, Head(x.pending).config), !.pending = Tail(@)]

(* response.created takes the oldest expectation, and ends a response the  *)
(* provider dropped without saying so (endedUnannounced).                  *)
responseCreated(x, r) ==
    [x EXCEPT !.open = r,
              !.asked = IF x.expected = <<>> THEN @ ELSE (r :> Head(x.expected).modalities) @@ @,
              !.expected = IF @ = <<>> THEN @ ELSE Tail(@)]

(* A response the provider dropped without a word when it began another. *)
endedUnannounced(ended, r) == ended # NoResponse /\ ended # r

(* What the client sees of a turn: created and done alternate. *)
ToldDone(x, r) == [x EXCEPT !.turn = NoResponse, !.unpaired = @ \/ x.turn # r]
ToldCreated(x, r) == [x EXCEPT !.turn = r, !.unpaired = @ \/ x.turn # NoResponse]

(* responseDone: None of the units when they are not billed by tokens. *)
responseDone(x, r, usage) ==
    [x EXCEPT !.open = IF @ = r THEN NoResponse ELSE @,
              !.settled = @ + (IF tokenUsage(Dialect) /\ usage # None THEN Total(units(usage)) ELSE 0)]

(* relayModalities: what a response asked for, else the session's. *)
relayModalities(x, r) == IF r \in DOMAIN x.asked /\ x.asked[r] # None THEN x.asked[r] ELSE x.config.modalities
relaysAudio(x, r) == relayModalities(x, r) = None \/ Contains(relayModalities(x, r), "audio")
emulated(x, r) == relayModalities(x, r) # None /\ ~ServesOutputModalities(Dialect.parameters, relayModalities(x, r))

(* outputTranscript: what of a spoken response reaches the client. *)
Relayed(x, r) ==
    [audio |-> relaysAudio(x, r),
     transcript |-> ~emulated(x, r) \/ relaysAudio(x, r),
     text |-> emulated(x, r) /\ Contains(relayModalities(x, r), "text")]

(***************************************************************************)
(* The provider (external) and the translation of what it says             *)
(***************************************************************************)

(* A response begins; asks is what its client asked for, None when the     *)
(* provider answers on its own or by the session's.                        *)
Begins(x, asks) ==
    LET r == peer.answers + 1
        ended == endedUnannounced(x.open, r)
    IN /\ peer.answers < MaxAnswers
       /\ u' = responseCreated(x, r)
       /\ peer' = [peer EXCEPT !.answers = r, !.response = r, !.asks = asks]
       /\ seen' = ToldCreated(IF ended THEN ToldDone(seen, x.open) ELSE seen, r)

Confirms ==
    /\ u.stage = "open" /\ up # <<>> /\ up' = Tail(up)
    /\ LET c == Head(up).command
       IN CASE c.type = "session.update" ->
                  /\ peer' = [peer EXCEPT !.config = mergeUpdate(@, c.config)]
                  /\ u' = sessionUpdated(u) /\ UNCHANGED seen
            [] c.type = "response.create" -> peer.response = NoResponse /\ Begins(u, Parameters(c).modalities)
            [] OTHER -> UNCHANGED <<u, peer, seen>>

Refuses ==
    /\ u.stage = "open" /\ up # <<>>
    /\ up' = Tail(up) /\ u' = errorEvent(u, Head(up).id, CHOOSE kind \in Refusals(Dialect) : TRUE)
    /\ UNCHANGED <<peer, seen>>

(* A detected turn; a provider that drops the answer it was giving says    *)
(* nothing of it.                                                          *)
Detects ==
    /\ u.stage = "open" /\ peer.config.detection.creates = TRUE
    /\ peer.response = NoResponse \/ Dialect.drops
    /\ Begins(u, None) /\ UNCHANGED up

Ends(usage) ==
    /\ u.stage = "open" /\ peer.response # NoResponse
    /\ IF tokenUsage(Dialect) /\ usage # None /\ units(usage) = None
       THEN u' = End("ended", "provider_error") /\ UNCHANGED seen
       ELSE /\ u' = responseDone(u, peer.response, usage)
            /\ seen' = [ToldDone(seen, peer.response) EXCEPT
                          !.reported = @ + (IF tokenUsage(Dialect) /\ usage # None THEN usage.input + usage.output ELSE 0)]
    /\ peer' = [peer EXCEPT !.response = NoResponse, !.asks = None]
    /\ UNCHANGED up

(* Output audio is metered as it arrives, whether or not it is relayed     *)
(* (audioFrames).                                                          *)
Speaks ==
    /\ u.stage = "open" /\ peer.response # NoResponse /\ peer.spoken < MaxSpoken
    /\ u' = IF tokenUsage(Dialect) THEN u ELSE [u EXCEPT !.outBytes = @ + 1]
    /\ peer' = [peer EXCEPT !.spoken = @ + 1]
    /\ UNCHANGED <<up, seen>>

Ticks ==
    /\ u.stage = "open" /\ billsClock(Dialect) /\ peer.time < MaxSpoken
    /\ peer' = [peer EXCEPT !.time = @ + 1] /\ UNCHANGED <<u, up, seen>>

(* What a session of a provider that reports no units settles, its clock   *)
(* stopped when the connection ended: Usage of the closed session.         *)
Measured ==
    meterUnits([time |-> peer.time, inBytes |-> u.bytes, outBytes |-> u.outBytes, texts |-> u.texts],
               clockBilled(Dialect, SignedConfig.detection.type),
               [input |-> SignedConfig.input, output |-> wireOutputFormat(Dialect, SignedConfig)])

(* An error about the session, then its close: ended. *)
Closes(reported) ==
    /\ u.stage = "open"
    /\ u' = [u EXCEPT !.stage = "ended", !.failure = IF reported = None THEN @ ELSE classifyEvent(Dialect, reported),
                      !.pending = <<>>, !.expected = <<>>]
    /\ up' = <<>>
    /\ UNCHANGED <<peer, seen>>

UpstreamNext ==
    \/ \E answer \in {"created", "refused", "lost"} : Dial(answer)
    \/ \E answer \in {"updated", "insufficient_quota", "invalid_request_error"} : Configure(answer)
    \/ \E c \in UpCommands, written \in BOOLEAN : Send(c, written)
    \/ Confirms \/ Refuses \/ Detects \/ Speaks \/ Ticks
    \/ \E usage \in Usages : Ends(usage)
    \/ \E reported \in {None, "insufficient_quota", "timeout"} : Closes(reported)

UpstreamSpec == UpstreamInit /\ [][UpstreamNext]_upstreamVars

(***************************************************************************)
(* Properties                                                              *)
(***************************************************************************)

(* With no update in flight, the configuration the adapter reads and       *)
(* reports is the provider's, although a confirmation names no update and  *)
(* any of them may be refused (session.updated, errorEvent).               *)
ConfigFollowsProvider ==
    u.stage = "open" /\ (\A i \in 1..Len(up) : up[i].command.type # "session.update") => u.config = peer.config /\ u.pending = <<>>

(* To the client, every response that was created is done before the next  *)
(* one is created, and nothing else is done, although a provider drops a   *)
(* response without a word (translate, endedUnannounced).                  *)
TurnsArePaired == ~seen.unpaired

(* What the client is told of its session follows what the provider did    *)
(* (openairealtime/session.go, translate).                                 *)
FollowsProvider == ConfigFollowsProvider /\ TurnsArePaired

(* The units settled for the responses are the tokens the provider         *)
(* reported, none twice; a provider that reports none is settled for what  *)
(* it heard and spoke or for its clock, never both, and for no command it  *)
(* did not get (usage.units, responseDone, meter).                         *)
SettlesWhatWasReported ==
    /\ u.stage = "open" => u.settled = seen.reported
    /\ u.stage = "ended" /\ ~tokenUsage(Dialect) =>
          LET clock == clockBilled(Dialect, SignedConfig.detection.type)
          IN /\ Measured.session = IF clock THEN peer.time ELSE 0
             /\ ~clock => /\ Measured.input * bytesPerSecond(SignedConfig.input) >= peer.heard * 1000
                          /\ (Measured.input - 1) * bytesPerSecond(SignedConfig.input) < peer.heard * 1000
             /\ clock => Measured.input = 0 /\ Measured.output = 0

(* What reaches the client of a response is what it was asked for, the     *)
(* session's modalities for one it did not ask for (session.expected).     *)
RelaysWhatWasAsked ==
    u.stage = "open" /\ peer.response # NoResponse =>
        LET asked == IF peer.asks = None THEN u.config.modalities ELSE peer.asks
        IN Relayed(u, peer.response).audio <=> (asked = None \/ Contains(asked, "audio"))
=============================================================================

---------------------------- MODULE MCPublicApi ----------------------------
EXTENDS SnapshotStore, PublicApi, PublicGate

Silent == [name |-> None, created |-> None, context |-> None, maxOutput |-> None, inputs |-> None, outputs |-> None,
           tools |-> None, efforts |-> None, parameters |-> None, price |-> None, realtime |-> None, audio |-> None]

Detection(type, min, max, units) == [type |-> type, fixed |-> FALSE, threshold |-> [min |-> min, max |-> max], units |-> units]

First ==
    [Silent EXCEPT !.name = 1, !.created = 2, !.context = 8, !.inputs = <<1, 2>>, !.outputs = <<1>>, !.tools = TRUE, !.efforts = {1, 2},
                   !.parameters = <<1, 5>>, !.price = 3,
                   !.realtime = [transports |-> <<1, 2>>, kinds |-> <<1>>, transcribes |-> TRUE, inputs |-> <<1>>, outputs |-> <<1>>,
                                 parameters |-> [detections |-> <<Detection(1, 0, 3, <<1>>)>>, modalities |-> <<1>>, choices |-> <<1, 2>>,
                                                 cap |-> 4, prompt |-> TRUE]],
                   !.audio = [languages |-> <<1, 2>>, uploads |-> <<1, 2>>, voices |-> <<[id |-> 1, languages |-> <<1, 2>>, gender |-> 1]>>]]

Second ==
    [Silent EXCEPT !.created = 1, !.context = 4, !.maxOutput = 2, !.inputs = <<2, 3>>, !.tools = FALSE, !.efforts = {2},
                   !.parameters = <<2, 5, 6>>,
                   !.realtime = [transports |-> <<2>>, kinds |-> <<1, 2>>, transcribes |-> FALSE, inputs |-> <<1, 2>>, outputs |-> <<>>,
                                 parameters |-> [detections |-> <<Detection(1, 1, 4, <<2>>), Detection(2, 0, 1, <<1>>)>>, modalities |-> <<1, 2>>,
                                                 choices |-> <<1>>, cap |-> None, prompt |-> FALSE]],
                   !.audio = [languages |-> <<2>>, uploads |-> None,
                              voices |-> <<[id |-> 1, languages |-> <<2>>, gender |-> 2], [id |-> 2, languages |-> <<>>, gender |-> 2]>>]]

Broken == [First EXCEPT !.inputs = <<2, 1>>]

Row(id, provider, line, rev, regions, current, observed) ==
    [id |-> id, provider |-> provider, ref |-> [line |-> line, rev |-> rev], upstream |-> id, regions |-> regions, current |-> current,
     observed |-> observed]

MCFiles ==
    {None,
     [id |-> 1, issuedAt |-> 0, rows |-> <<Row(2, 2, 1, 1, <<2>>, TRUE, First), Row(1, 1, 1, 1, <<1>>, TRUE, Second), Row(4, 1, 2, 1, <<1, 2>>, TRUE, None)>>],
     [id |-> 2, issuedAt |-> 1, rows |-> <<Row(1, 1, 1, 1, <<1>>, FALSE, First), Row(3, 2, 1, 2, <<>>, TRUE, Second), Row(4, 1, 2, 1, <<1>>, TRUE, Silent),
                                           Row(5, 3, 2, 1, <<>>, TRUE, None)>>],
     [id |-> 3, issuedAt |-> 1, rows |-> <<Row(1, 2, 1, 1, <<1>>, TRUE, Silent), Row(2, 2, 1, 1, <<2>>, TRUE, Second), Row(4, 1, 2, 1, <<>>, TRUE, First),
                                           Row(6, 2, 2, 1, <<1>>, TRUE, Second)>>],
     [id |-> 4, issuedAt |-> 1, rows |-> <<Row(1, 1, 1, 1, <<>>, TRUE, None), Row(2, 1, 1, 2, <<>>, TRUE, None)>>],
     [id |-> 5, issuedAt |-> 1, rows |-> <<Row(1, 1, 1, 1, <<>>, TRUE, Broken)>>]}

NoPins == [id \in {} |-> None]
MCGenerations ==
    {[keys |-> <<{"free"}, {"paid"}>>, pins |-> NoPins],
     [keys |-> <<{"unstated", "promotional"}, {"paid", "promotional"}>>, pins |-> [id \in {2} |-> [provider |-> 2, funding |-> "paid"]]],
     [keys |-> <<{"paid"}, {}>>, pins |-> [id \in {1} |-> [provider |-> 1, funding |-> "free"]]],
     [keys |-> <<{}, {"paid"}>>, pins |-> NoPins]}

MCKinds == <<[sessions |-> {}, requests |-> TRUE], [sessions |-> {"voice"}, requests |-> TRUE]>>

Model(line, rev) == [kind |-> "model", line |-> line, rev |-> rev]
Level == [kind |-> "level", line |-> 0, rev |-> 0]
Step(target, lines, ceiling, failover) ==
    [target |-> target, lines |-> lines, ceiling |-> ceiling, allow |-> {}, deny |-> {}, allowRegions |-> {}, denyRegions |-> {}, failover |-> failover]
Grant(steps) ==
    [request |-> 1, operation |-> "responses", body |-> 1, key |-> None, kind |-> None, firstParty |-> FALSE, lane |-> "user", scopes |-> FALSE,
     treatment |-> "metered", reservation |-> TRUE, byok |-> FALSE, issued |-> 0, executeBy |-> 1, steps |-> steps]

MCGrants ==
    {Grant(<<Step(Model(1, 0), <<1>>, "none", TRUE)>>),
     Grant(<<Step(Model(1, 1), <<1>>, "none", TRUE), Step(Level, <<2, 1>>, "none", FALSE)>>),
     Grant(<<Step(Level, <<1, 2>>, "credit", FALSE), Step(Model(1, 1), <<1>>, "none", TRUE)>>),
     Grant(<<[Step(Level, <<2, 1>>, "none", TRUE) EXCEPT !.deny = {2}, !.allowRegions = {1}], Step(Level, <<2, 1>>, "none", TRUE)>>),
     Grant(<<[Step(Level, <<1, 2>>, "none", TRUE) EXCEPT !.allow = {2, 3}, !.denyRegions = {2}]>>),
     [Grant(<<Step(Level, <<2, 1>>, "none", FALSE)>>) EXCEPT !.byok = TRUE, !.treatment = "platform_fee_only"],
     [Grant(<<Step(Level, <<1, 2>>, "none", TRUE)>>) EXCEPT !.operation = "realtime.session", !.kind = "voice"],
     Grant(<<Step(Model(1, 0), <<2>>, "none", TRUE)>>)}

(***************************************************************************)
(* Requests: for each endpoint one that is served, and its variants        *)
(***************************************************************************)
Body == [type |-> "json", size |-> 4, cut |-> FALSE, objects |-> {<<1, 2>>}, mistyped |-> FALSE, trailing |-> FALSE]
Request(endpoint) == [endpoint |-> endpoint, body |-> Body, known |-> {1, 2}, target |-> Model(1, 1)]
Text(n) == [type |-> "text", text |-> n, source |-> None]
Image(kind, media, data) == [type |-> "image", text |-> None, source |-> [kind |-> kind, url |-> TRUE, media |-> media, data |-> data]]
Message(role, parts) == [role |-> role, answers |-> FALSE, calls |-> <<>>, foreignCalls |-> FALSE, parts |-> parts]
Spoken == <<Message("user", <<Text(2), Image("inline", "image", 1)>>)>>

Responses ==
    Request("responses") @@ [messages |-> Spoken, maxOutput |-> 2, tools |-> <<1>>, choice |-> TRUE, stops |-> 1, stream |-> FALSE]
Chat ==
    Request("chat") @@ [messages |-> Spoken, maxTokens |-> 1, maxCompletion |-> None, modalities |-> <<"text">>, audio |-> None, stream |-> FALSE,
                    tools |-> <<>>, choice |-> FALSE, stops |-> 0, user |-> 1]
Embeddings == Request("embeddings") @@ [texts |-> <<1, 2>>, encoding |-> "float", dimensions |-> 3, user |-> None]
Question(id, kind, labels, labelled) == [id |-> id, kind |-> kind, size |-> 1, labels |-> labels, labelled |-> labelled]
Decisions ==
    Request("decisions") @@
    [decisions |-> [state |-> 1, instructions |-> 1, effort |-> None,
                    questions |-> <<Question(1, "choice", <<1, 2>>, "options"), Question(2, "noul", <<>>, None)>>]]
Speech ==
    Request("speech") @@ [input |-> 2, voice |-> 1, format |-> None, speed |-> 2, streamFormat |-> None, stream |-> FALSE, user |-> None]
Transcription ==
    Request("transcriptions") @@ [boundary |-> TRUE, parts |-> <<"file", "model">>, bytes |-> 1, badBase64 |-> FALSE, media |-> 1, language |-> 1,
                              prompt |-> None, milliseconds |-> 2]
Images == Request("images") @@ [prompt |-> 1, n |-> 1]

ServedRequests ==
    {Responses, [Responses EXCEPT !.stream = TRUE], Chat, [Chat EXCEPT !.stream = TRUE], Embeddings, Decisions, Speech,
     [Speech EXCEPT !.stream = TRUE], [Speech EXCEPT !.stream = TRUE, !.streamFormat = "sse"],
     [Transcription EXCEPT !.body.type = "multipart"],
     [Chat EXCEPT !.modalities = <<"text", "audio">>, !.audio = [voice |-> 1, format |-> "wav"]],
     [Responses EXCEPT !.messages = <<Message("tool", <<Text(1)>>)>>]}

Refused ==
    {[Responses EXCEPT !.body.type = "text"], [Responses EXCEPT !.body.size = 9], [Responses EXCEPT !.body.cut = TRUE],
     [Responses EXCEPT !.body.objects = {<<1, 2, 1>>}], [Responses EXCEPT !.body.objects = {<<3>>}], [Responses EXCEPT !.body.trailing = TRUE],
     [Responses EXCEPT !.messages = <<>>], [Responses EXCEPT !.tools = <<1, 1>>], [Responses EXCEPT !.tools = <<>>],
     [Responses EXCEPT !.messages = <<Message("system", <<Image("inline", "image", 1)>>)>>],
     [Responses EXCEPT !.messages = <<Message("user", <<Image("url", None, None)>>)>>],
     [Chat EXCEPT !.maxCompletion = 2], [Chat EXCEPT !.modalities = <<"audio">>],
     [Chat EXCEPT !.modalities = <<"text", "audio">>, !.stream = TRUE, !.audio = [voice |-> 1, format |-> "wav"]],
     [Embeddings EXCEPT !.dimensions = 2], [Embeddings EXCEPT !.texts = <<0>>],
     [Decisions EXCEPT !.target = Model(1, 0)], [Decisions EXCEPT !.decisions.state = 9],
     [Decisions EXCEPT !.decisions.questions = <<Question(1, "choice", <<1, 1>>, "options")>>],
     [Speech EXCEPT !.voice = 3], [Speech EXCEPT !.format = "opus", !.stream = TRUE], [Speech EXCEPT !.target = Level],
     [Transcription EXCEPT !.milliseconds = None], [Transcription EXCEPT !.milliseconds = 9], [Transcription EXCEPT !.media = 3],
     [Transcription EXCEPT !.target = Model(3, 0)], [Transcription EXCEPT !.bytes = 9], Images}

MCRequests == ServedRequests \cup Refused

Credential(value) == [scheme |-> "bearer", value |-> value]
MCHeaders ==
    {[authorization |-> Credential(1), subprotocol |-> None, user |-> None, key |-> 1],
     [authorization |-> None, subprotocol |-> None, user |-> None, key |-> None],
     [authorization |-> None, subprotocol |-> 1, user |-> 2, key |-> None],
     [authorization |-> Credential(1), subprotocol |-> None, user |-> 1, key |-> 9]}

MCSpeechLimits == [maxInput |-> 3, voices |-> {1, 2}, formats |-> {"mp3", "opus", "wav"}, speed |-> {2}]
Declaration(line, audience, class, prices, audio) ==
    [fields |-> Required \cup {"audience"}, line |-> line, audience |-> audience, powerClass |-> class, imageInput |-> 1, takesImages |-> TRUE,
     realtime |-> None, prices |-> prices, audio |-> audio]
MCMinuteOf == <<60, 6, 60>>
MCDeclared ==
    <<Declaration(1, None, "high", <<[amount |-> 1, per |-> 7], [amount |-> 2, per |-> 5], [amount |-> 1, per |-> 9]>>, MCSpeechLimits),
      Declaration(2, "platform_internal", "instant", None, None)>>
MCAccesses ==
    {[audience |-> "public", levels |-> {}, expires |-> None], [audience |-> "platform_internal", levels |-> {"xhigh", "instant"}, expires |-> 2],
     [audience |-> "none", levels |-> {}, expires |-> None]}

Inventory1 == CHOOSE f \in MCFiles : f # None /\ f.id = 1
MCPlans ==
    {resolveGrant(Grant(<<Step(Model(1, 1), <<1>>, "none", TRUE)>>), Inventory1, [id \in Deployments(Inventory1) |-> {"paid"}], MCKinds, 0, MaxAge)}
MCPublished == [line \in {1, 2} |-> Audio(ParsePublicCatalogue(MCDeclared), line)]
MCOxy ==
    {[kind |-> "refused", code |-> "insufficient_balance", status |-> 402], [kind |-> "refused", code |-> None, status |-> 429],
     [kind |-> "refused", code |-> None, status |-> 403], [kind |-> "unreachable"], [kind |-> "unverified"],
     [kind |-> "cancelled"], [kind |-> "signed", other |-> None], [kind |-> "signed", other |-> "body"], [kind |-> "signed", other |-> "key"],
     [kind |-> "signed", other |-> "window"]}
MCFailures == {"rate_limited", "provider_billing_refused"}

(***************************************************************************)
(* The two parts                                                           *)
(***************************************************************************)
VARIABLE part

MCInit == StoreInit /\ ApiInit /\ GateInit /\ part \in {"store", "api", "gate"}
          /\ (part # "store" => file = None /\ generation = CHOOSE gen \in Generations : TRUE)
MCNext ==
    \/ part = "store" /\ StoreNext /\ UNCHANGED <<apiVars, gateVars, part>>
    \/ part = "api" /\ ApiNext /\ UNCHANGED <<storeVars, gateVars, part>>
    \/ part = "gate" /\ GateNext /\ UNCHANGED <<storeVars, apiVars, part>>
MCSpec == MCInit /\ [][MCNext]_<<storeVars, apiVars, gateVars, part>> /\ ApiFairness

(* The catalogue says no more than its deployments keep: of each line of   *)
(* an inventory what all that report about it report                       *)
(* (aggregateObservations), and to each caller the models declared for it  *)
(* and served, at a price no deployment exceeds (catalogue.go, served).    *)
CatalogueIsHonest == CatalogueNarrows /\ ListingIsHonest
=============================================================================

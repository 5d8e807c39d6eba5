------------------------------ MODULE MCEmitter ------------------------------
(* The emitter alone, under every order of calls and every way a sink can     *)
(* break within six writes; an adapter that reads a provider's answer into    *)
(* it; and the races of a hedged embedding.                                   *)
EXTENDS Emitter, ProviderStreams, HedgedExchanges

MCRooms == 0..5 \cup {9}

Route(provider) ==
  [provider |-> provider, accepted |-> Unstated, efforts |-> Unstated, embeds |-> FALSE, family |-> Unstated, speaks |-> FALSE,
   refuses |-> Unstated]
Part(type, id) == [type |-> type, source |-> "inline", media |-> "wav", id |-> id]
Turn(role, parts, calls) == [role |-> role, parts |-> parts, calls |-> calls]
Asking ==
  [route |-> Route("openrouter"), customer |-> FALSE, modality |-> "text", input |-> "messages", stream |-> TRUE, audio |-> Unstated,
   controls |-> {"maxOutputTokens", "sampling.temperature"}, effort |-> Unstated, choice |-> "auto", respond |-> "default",
   messages |-> <<Turn("system", <<Part("text", 1)>>, <<>>), Turn("user", <<Part("text", 2), Part("image", 3)>>, <<>>)>>]
OnMessages(q) == [q EXCEPT !.route = Route("anthropic")]
Tooled ==
  [Asking EXCEPT !.controls = @ \cup {"tools"}, !.choice = "required",
                 !.messages = <<Turn("user", <<Part("text", 1)>>, <<>>), Turn("assistant", <<>>, <<TRUE, TRUE>>),
                                Turn("tool", <<Part("text", 2), Part("image", 3)>>, <<>>), Turn("tool", <<Part("image", 4)>>, <<>>)>>]
Spoken ==
  [Asking EXCEPT !.route.speaks = TRUE, !.modality = "audio", !.audio = "pcm", !.choice = "default",
                 !.messages = <<Turn("user", <<Part("audio", 1)>>, <<>>)>>]
Embedding == [Asking EXCEPT !.route.embeds = TRUE, !.modality = "embedding", !.input = "text", !.stream = FALSE]
Effort == [Asking EXCEPT !.effort = "low", !.respond = "json_schema", !.stream = FALSE]

Whole(q) == [q EXCEPT !.stream = FALSE]
Owned(q) == [q EXCEPT !.customer = TRUE]

\* What is sent, streamed on each wire and whole, and what each wire refuses.
MCRequests ==
  {Asking, OnMessages(Asking), Spoken, Embedding, Effort, Owned(Effort), Whole(Tooled), Whole(OnMessages(Tooled)),
   Whole(OnMessages(Asking)), Owned(Whole(OnMessages(Asking))),
   Whole([Asking EXCEPT !.route.provider = "groq"]), Owned(Whole([Asking EXCEPT !.route.provider = "groq"])),
   [Asking EXCEPT !.controls = @ \cup {"sampling.topK"}],
   Whole(OnMessages([Asking EXCEPT !.controls = @ \cup {"sampling.topK"}])),
   [Tooled EXCEPT !.route.accepted = {"tools", "toolChoice", "maxOutputTokens"}],
   [Tooled EXCEPT !.route.accepted = {"tools", "toolChoice.none", "maxOutputTokens", "sampling.temperature"}],
   OnMessages(Effort),
   [OnMessages(Tooled) EXCEPT !.route.refuses = {"toolChoice.required", "toolChoice.function"}],
   OnMessages([Tooled EXCEPT !.messages[2].calls = <<TRUE, FALSE>>]),
   OnMessages([Asking EXCEPT !.controls = {}]),
   OnMessages([Asking EXCEPT !.messages = <<Turn("developer", <<Part("text", 1)>>, <<>>)>>]),
   [Effort EXCEPT !.route.provider = "cohere"],
   [Effort EXCEPT !.route.provider = "xai", !.route.efforts = {"high"}],
   [Effort EXCEPT !.respond = "schema_unnamed"],
   [Asking EXCEPT !.messages[2].parts[2].type = "refusal"],
   [Spoken EXCEPT !.route.speaks = FALSE],
   [Spoken EXCEPT !.controls = @ \cup {"tools"}],
   [Spoken EXCEPT !.messages[1].role = "assistant"],
   [Embedding EXCEPT !.stream = TRUE],
   [Embedding EXCEPT !.route.family = "chat"],
   [Embedding EXCEPT !.effort = "low"],
   [Asking EXCEPT !.route.family = "speech"],
   [Asking EXCEPT !.route.provider = "openai-decisions"]}

Refusal(slug, cause, status, type, code) ==
  [slug |-> slug, cause |-> cause, status |-> status, type |-> type, code |-> code, reasons |-> FALSE, policy |-> FALSE]
MCRefusals ==
  {Refusal("openrouter", "account", 402, "none", "402"), Refusal("openrouter", "key", 401, "none", "401"),
   Refusal("openrouter", "request", 403, "none", "403"), [Refusal("openrouter", "request", 403, "none", "403") EXCEPT !.reasons = TRUE],
   [Refusal("openrouter", "request", 404, "none", "404") EXCEPT !.policy = TRUE], Refusal("openrouter", "fault", 503, "none", "503"),
   Refusal("openrouter", "throttle", 0, "none", "429"), Refusal("openrouter", "account", 0, "none", "402"),
   Refusal("openrouter", "fault", 0, "provider_overloaded", "none"), Refusal("openrouter", "request", 0, "content_filter", "none"),
   Refusal("openrouter", "unknown", 0, "none", "none"),
   Refusal("groq", "throttle", 413, "tokens", "rate_limit_exceeded"), Refusal("groq", "request", 413, "none", "none"),
   Refusal("groq", "throttle", 429, "none", "none"), Refusal("groq", "account", 429, "insufficient_quota", "none"),
   Refusal("groq", "key", 403, "none", "none"), Refusal("groq", "fault", 504, "none", "none"), Refusal("groq", "fault", 500, "none", "none"),
   Refusal("anthropic", "account", 400, "billing_error", "none"), Refusal("anthropic", "key", 403, "permission_error", "none"),
   Refusal("anthropic", "throttle", 429, "rate_limit_error", "none"), Refusal("anthropic", "request", 413, "request_too_large", "none"),
   Refusal("anthropic", "fault", 529, "new_type", "none"), Refusal("anthropic", "request", 422, "new_type", "none"),
   Refusal("anthropic", "fault", 0, "overloaded_error", "none"), Refusal("anthropic", "unknown", 0, "new_type", "none")}

MCCounts ==
  {[prompt |-> 5, cached |-> 2, completion |-> 4, reasoning |-> 1], [prompt |-> 1, cached |-> 2, completion |-> 1, reasoning |-> 0]}
MCSinkRooms == {2, 20}
MCPinned == <<"deepinfra", "nebius">>

VARIABLE part  \* which component runs

MCInit ==
  /\ Init /\ StreamInit /\ HedgeInit
  /\ part \in {"emitter", "stream", "hedge"}
  /\ part # "emitter" => em.room = 0
  /\ part # "stream" => at.em.room = 2
MCNext ==
  \/ part = "emitter" /\ Next /\ UNCHANGED <<at, said, race, scores, part>>
  \/ part = "stream" /\ StreamNext /\ UNCHANGED <<em, race, scores, part>>
  \/ part = "hedge" /\ HedgeNext /\ UNCHANGED <<em, at, said, part>>
MCSpec == MCInit /\ [][MCNext]_<<em, at, said, race, scores, part>>
=============================================================================

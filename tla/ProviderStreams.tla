--------------------------- MODULE ProviderStreams ---------------------------
(***************************************************************************)
(* One attempt at a provider: the request is translated, the provider      *)
(* refuses it or answers it, and the answer is read into the request's     *)
(* event stream.                                                           *)
(*                                                                         *)
(* at is the adapter's side, with the emitter it writes to.  said is what  *)
(* the provider really sent, for the properties: the fragments of each of  *)
(* its tool calls, its texts, its last counts and whether it ended its     *)
(* stream.  A frame may arrive unreadable, the stream may be cut between   *)
(* any two frames, the caller may withdraw and the stream may go quiet.    *)
(*                                                                         *)
(* Three wires: "chat" names a tool call by its index and ends with        *)
(* [DONE]; "messages" opens and closes every block and counts twice;       *)
(* "spoken" is chat with audio, and gives up at an unreadable frame.       *)
(***************************************************************************)
EXTENDS ProviderCalls, EmitterOps

CONSTANTS
  Requests,      \* requests as the executor hands them over, with their route
  Refusals,      \* refusals a provider sends: [slug, cause, status, type, code, reasons, policy]
  Counts,        \* token counts: [prompt, cached, completion, reasoning]
  SinkRooms,     \* how many events the sink takes before it breaks
  MaxCalls,      \* bound: tool calls of one answer
  MaxFragments,  \* bound: argument fragments of one call
  MaxTexts,      \* bound: texts of one answer that is not spoken
  MaxAudioHeld,  \* MaxAudioBytes, in pieces of audio
  MaxLost        \* bound: unreadable frames

ASSUME StreamAssumption ==
  /\ SinkRooms \subseteq Nat
  /\ MaxCalls \in Nat /\ MaxFragments \in Nat /\ MaxTexts \in Nat /\ MaxAudioHeld \in Nat /\ MaxLost \in Nat
  /\ Counts \subseteq [prompt : Nat, cached : Nat, completion : Nat, reasoning : Nat]
  /\ Unstated \notin Int /\ Unstated \notin Counts

VARIABLES at, said

Failures == INSTANCE FailureClasses WITH MaxRetriesPerRoute <- 0, Backoff <- 0, Budget <- 0

NoRequest == [route |-> [provider |-> "none"]]
StreamInit ==
  /\ \E room \in SinkRooms :
       at = [stage |-> "idle", q |-> NoRequest, call |-> Unsupported("no"), customer |-> FALSE, ctx |-> "live",
             em |-> Serving(NewEmitter(room)), ids |-> [i \in 1..MaxCalls |-> 0], told |-> <<>>, audio |-> 0,
             meter |-> NoMeter, units |-> Unstated, source |-> "estimated", finish |-> "none", err |-> "none", failure |-> Unstated]
  /\ said = [begun |-> FALSE, calls |-> <<>>, closed |-> 0, texts |-> 0, counts |-> Unstated, final |-> FALSE,
             finished |-> FALSE, done |-> FALSE, lost |-> 0, cause |-> "none"]

Wire == at.call.path
Reading == at.stage = "reading"

\* The attempt ends: measured, on the messages wire, whatever the end is.
Ended(a, err) ==
  LET metered == [a EXCEPT !.units = meterUnits(a.meter),
                           !.source = IF a.meter.final THEN "reported" ELSE "estimated"]
  IN  [(IF a.call.path = "messages" THEN metered ELSE a) EXCEPT !.stage = "ended", !.err = err]

\* Stream's last word on a streamed chat: a quiet stream's end is a timeout.
EndedStream(a, err) ==
  Ended(a, IF a.call.path = "chat" /\ a.ctx = "stalled" /\ err # "none" THEN "provider_timeout" ELSE err)

\* TransportFailure, and a context's own error.
TransportFailure(a) ==
  CASE a.ctx \in {"canceled", "stalled"} -> "canceled"
    [] a.ctx = "expired" -> "provider_timeout"
    [] OTHER -> "provider_error"
ContextError(a) == IF a.ctx = "expired" THEN "expired" ELSE "canceled"

Blame(a, r) ==
  LET b == Classified(a.q.route.provider, r)
  IN  Failures!CustomerCredentialFailure(Failures!Failure(b.code, b.category, b.recurs, 0), a.customer)

-----------------------------------------------------------------------------
(* Writing to the emitter *)

\* out.Delta, out.ToolCall and EmitAudio: the first failed write ends the read.
tell(a, event) ==
  LET written == Output(a.em)
  IN  IF a.err # "none" THEN a
      ELSE IF written.err = "none" THEN [a EXCEPT !.em = written, !.told = Append(@, event)]
      ELSE [a EXCEPT !.em = written, !.err = "sink"]

Text(n) == [id |-> 0, frag |-> n, complete |-> FALSE]
Audio(n) == [id |-> -1, frag |-> n, complete |-> FALSE]
Fragment(id, n) == [id |-> id, frag |-> n, complete |-> FALSE]
Completed(id) == [id |-> id, frag |-> 0, complete |-> TRUE]
AtOnce(id) == [id |-> id, frag |-> 1, complete |-> TRUE]

\* Mutant of fragment: a fragment without a name is the last call's.
fragmentOfLast(a, index, n) ==
  LET known == {a.ids[i] : i \in 1..MaxCalls}
      last  == CHOOSE id \in known : \A other \in known : other <= id
  IN  IF last = 0 THEN a ELSE tell(a, Fragment(last, n))

\* absorb and emitDelta: a fragment of a call whose name never came is dropped.
fragment(a, index, n) ==
  IF a.ids[index] = 0 THEN a ELSE tell(a, Fragment(a.ids[index], n))

\* Those of a list of events that are due, one after another.
tellAll(a, events, due) ==
  LET written[k \in 0..Len(events)] ==
        IF k = 0 THEN [em |-> a.em, told |-> a.told, err |-> a.err]
        ELSE IF k \in due THEN tell(written[k - 1], events[k]) ELSE written[k - 1]
      last == written[Len(events)]
  IN  [a EXCEPT !.em = last.em, !.told = last.told, !.err = last.err]

\* complete: every call the finish reason ends, by index.
complete(a) ==
  [tellAll(a, [i \in 1..MaxCalls |-> Completed(a.ids[i])], {i \in 1..MaxCalls : a.ids[i] # 0})
     EXCEPT !.ids = [i \in 1..MaxCalls |-> 0]]

\* write: one answer carries no more audio than the edge can fold.
speak(a, n) ==
  IF a.err # "none" THEN a
  ELSE IF a.audio >= MaxAudioHeld THEN [a EXCEPT !.err = "provider_error"]
  ELSE IF a.ctx # "live" THEN [a EXCEPT !.err = ContextError(a)]
  ELSE [tell(a, Audio(n)) EXCEPT !.audio = @ + 1]

\* applyUsage and normalizeUsage.
count(a, counts) ==
  LET units == IF a.call.path = "spoken" THEN spokenUnits(counts) ELSE normalizeUsage(counts)
  IN  IF units = Unstated THEN [a EXCEPT !.err = "provider_error"]
      ELSE [a EXCEPT !.units = units, !.source = "reported"]

\* The counts as the messages wire spells them, at its start and at its end.
Opening(c) == [input |-> c.prompt - c.cached, read |-> c.cached, created |-> 0, output |-> 1, thinking |-> Unstated]
Closing(c) == [input |-> Unstated, read |-> Unstated, created |-> Unstated, output |-> c.completion, thinking |-> c.reasoning]

\* The end of readStream: the caller's withdrawal and a missing end are
\* failures, and the provider's counts are the last thing written.
finished(a, terminated) ==
  IF a.ctx # "live" THEN EndedStream(a, ContextError(a))
  ELSE IF ~terminated THEN EndedStream(a, TransportFailure(a))
  ELSE LET counted  == Ended(a, "none")
           reported == counted.source = "reported"
           shown    == IF reported THEN Progress(counted.em) ELSE counted.em
       IN  [counted EXCEPT !.em = shown,
                           !.err = IF reported /\ shown.err # "none" THEN "sink" ELSE "none",
                           !.finish = IF @ = "none" THEN "stop" ELSE @]

\* After a frame: a failed write ends the attempt.
after(a) == IF a.err = "none" THEN a ELSE EndedStream(a, a.err)

-----------------------------------------------------------------------------
(* The attempt begins *)

\* Translate, then Walk's exchange: a request this wire cannot say costs nothing.
Sends(q) ==
  /\ at.stage = "idle"
  /\ LET call == Translate(q, q.route)
     IN  at' = [at EXCEPT !.q = q, !.call = call, !.customer = q.customer,
                          !.stage = IF call.refused # "no" THEN "refused"
                                    ELSE IF call.path = "embeddings" THEN "embedding" ELSE "sent"]
  /\ UNCHANGED said

\* The provider refuses: a status, or the whole exchange fails.
Refuses(r) ==
  /\ at.stage \in {"sent", "embedding"} /\ r.slug = at.q.route.provider /\ r.status # 0
  /\ at' = Ended([at EXCEPT !.failure = Blame(at, r)], "upstream")
  /\ said' = [said EXCEPT !.cause = r.cause]
Unanswered ==
  /\ at.stage \in {"sent", "embedding"}
  /\ at' = Ended(at, TransportFailure(at))
  /\ UNCHANGED said

\* The headers are in: the stream starts before its first frame.
Answers ==
  /\ at.stage = "sent" /\ (at.q.stream \/ at.call.path = "spoken")
  /\ LET started == Start(at.em)
     IN  at' = IF started.err # "none" THEN Ended([at EXCEPT !.em = started], "sink")
               ELSE [at EXCEPT !.em = started, !.stage = "reading"]
  /\ UNCHANGED said

\* readEmbedding: vectors, in their places, or nothing.
AnswersVectors(valid) ==
  /\ at.stage = "embedding"
  /\ at' = IF valid THEN [Ended(at, "none") EXCEPT !.source = "reported", !.finish = "stop"]
           ELSE [Ended(at, "provider_error") EXCEPT !.source = "reported"]
  /\ said' = [said EXCEPT !.done = valid]

\* readComplete: the same events from one document.
AnswersWhole(readable, calls, counts) ==
  /\ at.stage = "sent" /\ ~at.q.stream /\ at.call.path # "spoken"
  /\ LET started == [at EXCEPT !.em = Start(at.em)]
         counted == IF counts = Unstated THEN started
                    ELSE IF Wire = "messages"
                         THEN [started EXCEPT !.meter = absorb(absorb(NoMeter, Opening(counts), FALSE), Closing(counts), TRUE)]
                    ELSE count(started, counts)
         spoken  == tellAll(tell(counted, Text(1)), [i \in 1..calls |-> AtOnce(i)], 1..calls)
     IN  at' = IF ~readable THEN Ended(at, "provider_error")
               ELSE IF started.em.err # "none" THEN Ended(started, "sink")
               ELSE IF spoken.err # "none" THEN Ended(spoken, spoken.err)
               ELSE [finished([spoken EXCEPT !.ctx = "live"], TRUE) EXCEPT !.ctx = at.ctx]
  /\ said' = IF readable THEN [said EXCEPT !.texts = 1, !.calls = [i \in 1..calls |-> 1], !.closed = calls,
                                           !.counts = counts, !.final = counts # Unstated, !.finished = TRUE, !.done = TRUE]
             ELSE said

\* The document never came whole.
CutWhole ==
  /\ at.stage = "sent" /\ ~at.q.stream /\ at.call.path # "spoken"
  /\ at' = Ended(at, IF at.ctx = "live" THEN "unclassified" ELSE ContextError(at))
  /\ UNCHANGED said

-----------------------------------------------------------------------------
(* The frames of a stream.  Each is what the provider sends and what the      *)
(* reader makes of it; Loses is the same frame, unreadable.                   *)

\* json.Unmarshal fails: skipped, and on the spoken wire the end.
lost(a) == IF a.call.path = "spoken" THEN EndedStream(a, "provider_error") ELSE a
Frame(read, sent) ==
  /\ Reading /\ ~said.done /\ said' = sent
  /\ at' = after(read)
Lost(sent) ==
  /\ Reading /\ ~said.done /\ said.lost < MaxLost
  /\ said' = [sent EXCEPT !.lost = @ + 1]
  /\ at' = lost(at)
Arrives(read, sent) == Frame(read, sent) \/ Lost(sent)

\* message_start: the input's count, and the first of the output's.
Begins(counts) ==
  /\ Wire = "messages" /\ ~said.begun
  /\ Arrives([at EXCEPT !.meter = absorb(@, Opening(counts), FALSE)],
             [said EXCEPT !.begun = TRUE, !.counts = counts])
Ready == said.begun \/ Wire # "messages"

SendsText ==
  /\ Ready /\ ~said.finished /\ said.texts < IF Wire = "spoken" THEN MaxAudioHeld + 1 ELSE MaxTexts
  /\ LET n == said.texts + 1
     IN  Arrives(IF Wire = "spoken" THEN speak(tell(at, Text(n)), n) ELSE tell(at, Text(n)), [said EXCEPT !.texts = n])

OpensCall ==
  /\ Ready /\ Wire # "spoken" /\ ~said.finished /\ Len(said.calls) < MaxCalls
  /\ LET id == Len(said.calls) + 1
     IN  Arrives(tell([at EXCEPT !.ids[id] = id], Fragment(id, 0)), [said EXCEPT !.calls = Append(@, 0)])

SendsArguments(i) ==
  /\ ~said.finished /\ i \in DOMAIN said.calls /\ i > said.closed /\ said.calls[i] < MaxFragments
  /\ LET n == said.calls[i] + 1
     IN  Arrives(fragment(at, i, n), [said EXCEPT !.calls[i] = n])

\* content_block_stop completes its own call.
ClosesBlock ==
  /\ Wire = "messages" /\ ~said.finished /\ said.closed < Len(said.calls)
  /\ LET i == said.closed + 1
         closed == [tell(at, Completed(at.ids[i])) EXCEPT !.ids[i] = 0]
     IN  Arrives(IF at.ids[i] = 0 THEN at ELSE closed, [said EXCEPT !.closed = i])

\* finish_reason, or message_delta with the final counts.
Finishes(reason) ==
  /\ Ready /\ ~said.finished
  /\ Wire = "messages" => said.closed = Len(said.calls)
  /\ LET finishOf == [messages |-> mapStopReason(reason), spoken |-> finishReason(reason), chat |-> mapFinishReason(reason)]
         ends   == [at EXCEPT !.finish = finishOf[Wire]]
         counts == [ends EXCEPT !.meter = absorb(@, Closing(said.counts), TRUE)]
     IN  Arrives(IF Wire = "messages" THEN counts ELSE complete(ends),
                 [said EXCEPT !.finished = TRUE, !.closed = Len(said.calls), !.final = @ \/ Wire = "messages"])

\* The usage chunk of the chat wires, before their end.
SendsUsage(counts) ==
  /\ Wire # "messages" /\ said.finished /\ said.counts = Unstated
  /\ Arrives(count(at, counts), [said EXCEPT !.counts = counts, !.final = TRUE])

\* [DONE] or message_stop: nothing behind it is read.
EndsStream ==
  /\ Reading /\ said.finished /\ ~said.done
  /\ said' = [said EXCEPT !.done = TRUE]
  /\ at' = finished(at, TRUE)

\* An error object inside the stream.
Breaks(r) ==
  /\ Reading /\ ~said.done /\ r.slug = at.q.route.provider /\ r.status = 0
  /\ at' = EndedStream([at EXCEPT !.failure = Blame(at, r)], "upstream")
  /\ said' = [said EXCEPT !.cause = r.cause]

\* The connection ends: cleanly, or with an error.
Cut(clean) ==
  /\ Reading
  /\ at' = IF clean THEN finished(at, FALSE) ELSE EndedStream(at, TransportFailure(at))
  /\ UNCHANGED said

\* The caller withdraws, the request's deadline passes, or the watch finds the
\* stream quiet: the read learns of it when it next reads.
Withdraws(how) ==
  /\ at.stage \in {"sent", "reading"} /\ at.ctx = "live"
  /\ how = "stalled" => Reading /\ Wire = "chat"
  /\ at' = [at EXCEPT !.ctx = how]
  /\ UNCHANGED said

StreamNext ==
  \/ \E q \in Requests : Sends(q)
  \/ \E r \in Refusals : Refuses(r) \/ Breaks(r)
  \/ Unanswered \/ Answers \/ CutWhole
  \/ \E valid \in BOOLEAN : AnswersVectors(valid)
  \/ \E readable \in BOOLEAN, calls \in 0..MaxCalls, counts \in Counts \cup {Unstated} : AnswersWhole(readable, calls, counts)
  \/ \E counts \in Counts : Begins(counts) \/ SendsUsage(counts)
  \/ SendsText \/ OpensCall \/ ClosesBlock \/ EndsStream
  \/ \E i \in 1..MaxCalls : SendsArguments(i)
  \/ \E reason \in {"tool_use", "refusal"} : Finishes(reason)
  \/ \E clean \in BOOLEAN : Cut(clean)
  \/ \E how \in {"canceled", "expired", "stalled"} : Withdraws(how)

StreamSpec == StreamInit /\ [][StreamNext]_<<at, said>>

-----------------------------------------------------------------------------
\* Properties

\* Where the caller was told of one tool call, or (0) of the texts.
Of(id) == {i \in DOMAIN at.told : at.told[i].id = id}
Sent(id) == IF id = 0 THEN said.texts ELSE IF id \in DOMAIN said.calls THEN said.calls[id] ELSE 0

\* Joined by their call's name, the fragments a caller receives are that call's
\* own arguments in order, with nothing after the call is marked complete.  An
\* answer reported as a success was ended by its provider, and if every frame
\* could be read it was passed on whole, each tool call completed once.  The
\* readers keep the call of an index in toolCallAccumulator and blockTracker;
\* a cut, a withdrawal or a broken sink may come between any two frames.
AnswerIsWhole ==
  /\ \A id \in 0..MaxCalls : \A i \in Of(id) :
       /\ at.told[i].frag <= Sent(id)
       /\ \A j \in Of(id) : i < j => /\ ~at.told[i].complete
                                     /\ at.told[j].frag > 0 => at.told[i].frag < at.told[j].frag
  /\ at.stage = "ended" /\ at.err = "none" =>
       /\ said.done
       /\ said.lost = 0 /\ Wire # "embeddings" =>
            \A id \in 0..Len(said.calls) :
              /\ \A n \in 1..Sent(id) : \E i \in Of(id) : at.told[i].frag = n
              /\ id # 0 => \E i \in Of(id) : at.told[i].complete

Consistent(c) == c.cached <= c.prompt /\ c.reasoning <= c.completion

\* Units marked as the provider's add up to the provider's own last totals: no
\* nested count is billed twice and no running total is added to another
\* (normalizeUsage, usageMeter).  Units measured from a stream that broke before
\* its final counts are marked as an estimate, with the input exact.
UsageIsTheProviders ==
  at.stage = "ended" /\ at.units # Unstated /\ said.lost = 0 /\ Consistent(said.counts) =>
    /\ at.units.input + at.units.cached = said.counts.prompt
    /\ IF at.source = "reported"
       THEN said.final /\ Counted(at.units) = said.counts.prompt + said.counts.completion
       ELSE ~said.final

\* What a failure is blamed on: a platform key is given up only for what the
\* provider says of the key or its account, a deployment only for what is not
\* the request's own fault, and a customer's own key or throttle is never held
\* against the platform's deployment (Refuse, streamFailure, classify and
\* CustomerCredentialFailure).
BlameIsRight ==
  at.failure # Unstated =>
    /\ at.failure.code \in {"provider_billing_refused", "provider_credential_invalid"} <=> said.cause \in {"account", "key"}
    /\ said.cause = "request" => ~Failures!DeploymentAttributable(at.failure)
    /\ at.customer /\ said.cause \in {"account", "key", "throttle"} => ~Failures!DeploymentAttributable(at.failure)
    /\ ~at.customer /\ said.cause \in {"account", "key", "throttle", "fault"} => Failures!DeploymentAttributable(at.failure)

Parts(messages) == FlattenSeq([i \in DOMAIN messages |-> Ids(messages[i].parts)])
InstructionParts(messages) == FlattenSeq([i \in DOMAIN messages |-> IF Instructs(messages[i]) THEN Ids(messages[i].parts) ELSE <<>>])
SentParts == FlattenSeq([i \in DOMAIN at.call.messages |-> at.call.messages[i].ids]) \o at.call.system
Adjacent(s, a, b) == \E i \in 1..(Len(s) - 1) : s[i].role = a /\ s[i + 1].role = b

\* A request is sent as it was asked or not at all: every control has reached
\* the wire, every part of the conversation is in it once, and the results of
\* one round of tool calls still follow one another.  (The messages wire drops
\* what is not text from instructions.)
SentAsAsked ==
  at.call.path \in {"chat", "spoken", "messages"} =>
    /\ Asked(at.q) \subseteq at.call.sent
    /\ ToSet(Parts(at.q.messages)) \ ToSet(SentParts) \subseteq IF Wire = "messages" THEN ToSet(InstructionParts(at.q.messages)) ELSE {}
    /\ \A n \in ToSet(SentParts) \ {toolImagesFollow} : Cardinality({i \in DOMAIN SentParts : SentParts[i] = n}) = 1
    /\ Wire = "chat" /\ Adjacent(at.q.messages, "tool", "tool") => Adjacent(at.call.messages, "tool", "tool")
=============================================================================

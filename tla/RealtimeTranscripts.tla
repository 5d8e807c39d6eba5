------------------------ MODULE RealtimeTranscripts ------------------------
(***************************************************************************)
(* The transcripts of the caller's speech and the tool calls of a session  *)
(* the realtime adapter holds (internal/provider/openairealtime:           *)
(* session.go).  The provider's transcriber is external: it repeats        *)
(* itself, revises the spelling of what it heard, completes an item at     *)
(* every pause, and may carry the words of the item before into the next   *)
(* one.  A word is a number; the two spellings of one word differ by one.  *)
(***************************************************************************)
EXTENDS Integers, Sequences, SequencesExt, FiniteSets

CONSTANTS
    Unknown,
    Continues,     \* continuesInterruptedTurns: whether a transcriber may
    MaxItems,      \* bound: items the caller speaks
    MaxWords,      \* bound: words of an item
    MaxTold        \* bound: transcripts the provider sends

VARIABLES
    tr,     \* what the adapter keeps of the caller's items, and has relayed
    voice,  \* the caller and the provider's transcriber (external)
    call    \* one streamed tool call: the adapter's maps, and what it relayed

transcriptVars == <<tr, voice, call>>

Items == 1..MaxItems
NoItem == 0
InputItem == [committed |-> FALSE, transcribed |-> <<>>, carried |-> NoItem, text |-> <<>>, done |-> FALSE]

TranscriptInit ==
    /\ \E on \in BOOLEAN :
          tr = [on |-> on, items |-> [i \in Items |-> Unknown], awaiting |-> <<>>, last |-> NoItem, responseEnded |-> FALSE,
                finals |-> [i \in Items |-> <<>>]]
    /\ voice = [item |-> NoItem, said |-> [i \in Items |-> <<>>], carries |-> {}, ended |-> FALSE, committed |-> FALSE, told |-> 0, about |-> NoItem]
    /\ call = [name |-> FALSE, named |-> FALSE, streamed |-> FALSE, over |-> FALSE, sent |-> <<>>, names |-> 0, relayed |-> <<>>]

(***************************************************************************)
(* The adapter                                                             *)
(***************************************************************************)

(* inputItem: begun by the first event about it; it carries the last one's *)
(* words unless a response has ended since that began.                     *)
carriedInto(x) == IF Continues /\ ~x.responseEnded THEN x.last ELSE NoItem
inputItem(x, id) ==
    IF x.items[id] # Unknown THEN x
    ELSE [x EXCEPT !.items[id] = [InputItem EXCEPT !.carried = carriedInto(x)], !.last = id, !.responseEnded = FALSE]

inputBegun(x, id) == IF x.on THEN inputItem(x, id) ELSE x

wordKey(word) == word \div 2

(* ownText: what follows the words of the item it carried, all of it when  *)
(* it no longer starts with them.                                          *)
ownText(x, id) ==
    LET heard == x.items[id].transcribed
        carried == IF x.items[id].carried = NoItem THEN <<>> ELSE x.items[x.items[id].carried].transcribed
    IN IF \E i \in 1..Len(heard) : i <= Len(carried) /\ wordKey(heard[i]) # wordKey(carried[i]) THEN heard
       ELSE SubSeq(heard, Len(carried) + 1, Len(heard))

(* inputRunning: relayed when it extends what was relayed. *)
inputRunning(x, id, transcript) ==
    LET begun == inputItem(x, id)
        heard == [begun EXCEPT !.items[id].transcribed = transcript]
    IN IF begun.items[id].done THEN begun
       ELSE IF IsPrefix(heard.items[id].text, ownText(heard, id)) THEN [heard EXCEPT !.items[id].text = ownText(heard, id)]
       ELSE heard

(* A transcript.done: the item's one final transcript. *)
Final(x, id) == [x EXCEPT !.items[id].done = TRUE, !.finals[id] = Append(@, x.items[id].text)]

(* inputTranscript: the first completed one after the commit is final. *)
inputTranscriptAny(x, id, transcript) ==
    IF ~x.on THEN x
    ELSE LET running == inputRunning(x, id, transcript) IN IF running.items[id].committed THEN Final(running, id) ELSE running
inputTranscript(x, id, transcript) ==
    IF ~x.on THEN x
    ELSE LET running == inputRunning(x, id, transcript)
             whole == [running EXCEPT !.items[id].transcribed = transcript]
             final == [whole EXCEPT !.items[id].text = ownText(whole, id)]
         IN IF running.items[id].committed /\ ~running.items[id].done THEN Final(final, id) ELSE running

(* inputCommitted: an earlier item that still waits for its final          *)
(* transcript is given the one it has.                                     *)
inputCommitted(x, id) ==
    IF ~x.on THEN x
    ELSE LET waits(i) == ~x.items[i].done /\ (i = id \/ x.items[i].text = <<>>)
             given == FoldLeft(LAMBDA y, i : IF i # id /\ ~y.items[i].done /\ y.items[i].text # <<>> THEN Final(y, i) ELSE y, x, x.awaiting)
             left == [inputItem(given, id) EXCEPT !.awaiting = SelectSeq(x.awaiting, waits)]
         IN IF left.items[id].committed \/ left.items[id].done THEN left
            ELSE [left EXCEPT !.items[id].committed = TRUE, !.awaiting = Append(@, id)]

(* A confirmed session.update that asks for transcription. *)
transcribingInput(x) == [x EXCEPT !.on = TRUE]

(* transcriptionUnits: milliseconds of what was billed apart, rounded up;  *)
(* Unknown when the session ends over a charge it has no unit for.            *)
transcriptionUnits(billed, usage) ==
    CASE ~billed \/ usage = Unknown -> 0
      [] billed /\ usage # Unknown /\ usage.type = "duration" /\ usage.micros >= 0 -> (usage.micros + 999) \div 1000
      [] OTHER -> Unknown

(* toolCall: the name once, the arguments as they stream, the complete     *)
(* ones only when none were streamed before.                               *)
toolCall(x, text, complete) ==
    [x EXCEPT !.named = @ \/ x.name, !.names = @ + (IF x.name /\ ~x.named THEN 1 ELSE 0),
              !.relayed = IF complete /\ x.streamed THEN @ ELSE @ \o text,
              !.streamed = @ \/ (~complete /\ text # <<>>), !.over = complete]

(***************************************************************************)
(* The caller and the provider                                             *)
(***************************************************************************)

(* Heard[i]: the transcriber's whole transcript of item i. *)
Heard(v) ==
    LET heard[i \in 0..MaxItems] ==
            IF i = NoItem THEN <<>> ELSE (IF i \in v.carries THEN heard[i - 1] ELSE <<>>) \o v.said[i]
    IN heard
Spelled(words, v) == [i \in 1..Len(words) |-> words[i] + v]

Starts ==
    LET i == voice.item + 1 IN
    /\ i \in Items /\ (voice.item = NoItem \/ voice.committed)
    /\ voice' = [voice EXCEPT !.item = i, !.committed = FALSE, !.ended = FALSE, !.said[i] = <<20 * i>>,
                              !.carries = IF Continues /\ ~voice.ended /\ i > 1 THEN @ \union {i} ELSE @]
    /\ tr' = inputBegun(tr, i)
    /\ UNCHANGED call

Says ==
    /\ voice.item # NoItem /\ ~voice.committed /\ Len(voice.said[voice.item]) < MaxWords
    /\ voice' = [voice EXCEPT !.said[voice.item] = Append(@, 2 * (10 * voice.item + Len(@)))]
    /\ UNCHANGED <<tr, call>>

Commits ==
    /\ voice.item # NoItem /\ ~voice.committed
    /\ voice' = [voice EXCEPT !.committed = TRUE]
    /\ tr' = inputCommitted(tr, voice.item)
    /\ UNCHANGED call

(* A running or a completed transcript of an item, in either spelling; the *)
(* transcriber does not go back to an item once it is at the next, nor     *)
(* past one it has not transcribed.                                        *)
Transcribes(id, completed, spelling) ==
    LET words == Spelled(Heard(voice)[id], spelling) IN
    /\ voice.told < MaxTold /\ id \in 1..voice.item /\ id \in {voice.about, voice.about + 1} /\ words # <<>>
    /\ voice' = [voice EXCEPT !.told = @ + 1, !.about = id]
    /\ tr' = IF completed THEN inputTranscript(tr, id, words) ELSE IF tr.on THEN inputRunning(tr, id, words) ELSE tr
    /\ UNCHANGED call

(* responseDone: a response the provider ended itself restarts its         *)
(* transcriber.                                                            *)
ResponseEnds ==
    /\ ~voice.ended
    /\ voice' = [voice EXCEPT !.ended = TRUE] /\ tr' = [tr EXCEPT !.responseEnded = TRUE]
    /\ UNCHANGED call

TurnsOn == ~tr.on /\ voice.item = NoItem /\ tr' = transcribingInput(tr) /\ UNCHANGED <<voice, call>>

(* The call's item names its function (rememberToolName), its arguments    *)
(* stream, and the complete ones follow.                                   *)
NamesTool == ~call.over /\ ~call.name /\ call' = [call EXCEPT !.name = TRUE] /\ UNCHANGED <<tr, voice>>
Streams ==
    /\ ~call.over /\ Len(call.sent) < MaxWords
    /\ call' = [toolCall(call, <<Len(call.sent)>>, FALSE) EXCEPT !.sent = Append(@, Len(call.sent))]
    /\ UNCHANGED <<tr, voice>>
CompletesCall ==
    /\ ~call.over /\ call.name
    /\ call' = toolCall(call, IF call.sent = <<>> THEN <<0>> ELSE call.sent, TRUE)
    /\ UNCHANGED <<tr, voice>>

TranscriptNext ==
    \/ Starts \/ Says \/ Commits \/ ResponseEnds \/ TurnsOn
    \/ \E id \in Items, completed \in BOOLEAN, spelling \in {0, 1} : Transcribes(id, completed, spelling)
    \/ voice.item = NoItem /\ (NamesTool \/ Streams \/ CompletesCall)

(***************************************************************************)
(* Properties                                                              *)
(***************************************************************************)

Keys(words) == {wordKey(words[i]) : i \in 1..Len(words)}

(* The caller sees an item's final transcript at most once and no phrase   *)
(* in two items' transcripts, although the transcriber repeats itself,     *)
(* completes an item before it is committed and carries an interrupted     *)
(* item's words into the next (inputTranscript, ownText); and a tool       *)
(* call's name once and its arguments whole, once (toolCall).              *)
EachPhraseOnce ==
    /\ \A i \in Items : Len(tr.finals[i]) <= 1
    /\ \A i, j \in Items : i < j /\ tr.finals[i] # <<>> /\ tr.finals[j] # <<>> =>
          Keys(tr.finals[i][1]) \intersect Keys(tr.finals[j][1]) = {}
    /\ call.over => call.names = 1 /\ (call.relayed = call.sent \/ (call.sent = <<>> /\ call.relayed = <<0>>))
=============================================================================

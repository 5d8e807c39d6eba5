----------------------------- MODULE Inventory -----------------------------
(***************************************************************************)
(* The deployment inventory of internal/inventory: what a snapshot file    *)
(* must satisfy to be installed (Parse, Validate), how a model reference   *)
(* resolves to routes (Resolve, Candidates), and how the observations of a *)
(* line's deployments are folded into its catalogue entry                  *)
(* (aggregateObservations and the helpers of realtime.go).                 *)
(*                                                                         *)
(* Words are numbers, ordered as the code orders its strings; 0 is a word  *)
(* no grammar accepts, None an absent field.  A reference names a line and *)
(* a revision, 0 for an unpinned one.                                      *)
(***************************************************************************)
EXTENDS Naturals, Sequences, SequencesExt, FiniteSets

CONSTANT None   \* a model value: an absent field

Pinned(ref) == ref.rev # 0
Words == Nat \ {0}
Word(n) == n \in Words

(* sortedSet: at least `minimum' values, each one the field may hold, in   *)
(* order and once.                                                         *)
sortedSet(values, minimum, allowed) ==
    /\ Len(values) >= minimum
    /\ \A i \in 1..Len(values) : values[i] \in allowed /\ (i > 1 => values[i - 1] < values[i])

(* An absent list abstains; every other keeps the rule. *)
Stated(list, minimum) == list = None \/ sortedSet(list, minimum, Words)

(***************************************************************************)
(* Validation                                                              *)
(***************************************************************************)

(* RealtimeParameters.Validate: detections in order, each a range inside 0 *)
(* to 1 (here 0 to 4) and billed in something; a wire that responds names  *)
(* its modality sets, `auto' (the lowest choice) and a positive cap.       *)
ValidParameters(p) ==
    /\ p.detections # <<>> /\ sortedSet([i \in 1..Len(p.detections) |-> p.detections[i].type], 1, Words)
    /\ \A i \in 1..Len(p.detections) :
          LET d == p.detections[i]
          IN (d.threshold # None => d.threshold.min <= d.threshold.max /\ d.threshold.max <= 4) /\ Stated(d.units, 1)
    /\ (p.modalities = <<>> /\ p.choices = <<>> /\ p.cap = None) \/
          (sortedSet(p.modalities, 1, Words) /\ sortedSet(p.choices, 1, Words) /\ p.choices[1] = 1 /\ p.cap # 0)

(* RealtimeObservation.Validate. *)
ValidRealtime(r) ==
    /\ sortedSet(r.transports, 1, Words) /\ sortedSet(r.kinds, 1, Words)
    /\ sortedSet(r.inputs, 1, Words) /\ sortedSet(r.outputs, 0, Words)
    /\ r.parameters # None => ValidParameters(r.parameters)

(* AudioObservation.Validate: voices by id, each speaking only languages   *)
(* the model speaks.                                                       *)
ValidAudio(a) ==
    /\ sortedSet(a.languages, 0, Words) /\ Stated(a.uploads, 1)
    /\ sortedSet([i \in 1..Len(a.voices) |-> a.voices[i].id], 0, Words)
    /\ \A i \in 1..Len(a.voices) : sortedSet(a.voices[i].languages, 0, ToSet(a.languages))

(* Observed.Validate.  Efforts are a set: the code keeps their order free. *)
ValidObserved(o) ==
    /\ \A n \in {o.name, o.created, o.context, o.maxOutput, o.price} : n # 0
    /\ Stated(o.inputs, 1) /\ Stated(o.outputs, 1) /\ Stated(o.parameters, 0)
    /\ o.realtime # None => ValidRealtime(o.realtime)
    /\ o.audio # None => ValidAudio(o.audio)

(* One declared deployment: Parse's rules of a row. *)
ValidRow(row) ==
    /\ Word(row.id) /\ Word(row.provider) /\ Word(row.ref.line) /\ Pinned(row.ref) /\ Word(row.upstream)
    /\ row.observed # None => ValidObserved(row.observed)
    /\ \A i \in 1..Len(row.regions) : Word(row.regions[i]) /\ \A j \in 1..(i - 1) : row.regions[i] # row.regions[j]

(* Parse: None for a file that is refused whole, otherwise the rows in     *)
(* file order, with no id twice and no line with two current revisions.    *)
Parse(file) ==
    LET rows == file.rows
        accepted ==
            /\ rows # <<>> /\ Word(file.id) /\ file.issuedAt # None
            /\ \A i \in 1..Len(rows) : ValidRow(rows[i])
            /\ \A i, j \in 1..Len(rows) : i # j => rows[i].id # rows[j].id
            /\ \A i, j \in 1..Len(rows) :
                  rows[i].current /\ rows[j].current /\ rows[i].ref.line = rows[j].ref.line => rows[i].ref = rows[j].ref
    IN IF accepted THEN file ELSE None

(***************************************************************************)
(* Resolution                                                              *)
(***************************************************************************)

(* A route set: the places in the file of the rows of one pinned           *)
(* reference, which order them.                                            *)
RouteSet(inv, ref) == {p \in 1..Len(inv.rows) : inv.rows[p].ref = ref}

(* currentOf: the reference an unpinned name of the line means, if any. *)
currentOf(inv, line) == {row.ref : row \in {r \in ToSet(inv.rows) : r.current /\ r.ref.line = line}}

ServesUnpinned(inv, at, maxAge) == at <= inv.issuedAt + maxAge

(* Resolve: a pinned reference resolves to exactly that revision at any    *)
(* age; an unpinned one to the current revision of a fresh snapshot.       *)
Resolve(inv, ref, at, maxAge) ==
    IF RouteSet(inv, ref) # {} THEN RouteSet(inv, ref)
    ELSE IF Pinned(ref) \/ ~ServesUnpinned(inv, at, maxAge) \/ currentOf(inv, ref.line) = {} THEN {}
    ELSE RouteSet(inv, CHOOSE r \in currentOf(inv, ref.line) : TRUE)

(* Candidates: what a route carries of its row. *)
Route(row) ==
    [id |-> row.id, provider |-> row.provider, ref |-> row.ref, upstream |-> row.upstream, regions |-> ToSet(row.regions),
     accepted |-> IF row.observed = None THEN None ELSE row.observed.parameters]

Candidates(inv, set) == {Route(inv.rows[p]) : p \in set}

Deployments(inv) == {row.id : row \in ToSet(inv.rows)}

(* Deployment: the one route with this id. *)
Deployment(inv, id) == LET rows == {r \in ToSet(inv.rows) : r.id = id} IN IF rows = {} THEN None ELSE Route(CHOOSE r \in rows : TRUE)

(* PinnedOnlyReferences: the references no unpinned name resolves to. *)
PinnedOnlyReferences(inv) ==
    LET refs == {row.ref : row \in ToSet(inv.rows)} IN {ref \in refs : ref \notin currentOf(inv, ref.line)}

(***************************************************************************)
(* The catalogue: a deployment that says nothing abstains, one that says   *)
(* something can only narrow.                                              *)
(***************************************************************************)
minimum(current, reported) ==
    IF reported = None THEN current ELSE IF current = None \/ reported < current THEN reported ELSE current

intersectSorted(a, b) == SelectSeq(a, LAMBDA v : Contains(b, v))

(* Mutant: the first report wins. *)
intersectKeepsFirst(set, reported) == IF set = None THEN reported ELSE set

intersect(set, reported) == IF reported = None THEN set ELSE IF set = None THEN reported ELSE intersectSorted(reported, set)

(* The tool-choice vocabulary: 1 names the field, 2..4 its values. *)
CanonicalParameterSet(P) ==
    IF P \cap 2..4 # {} THEN P \cup {1} ELSE IF 1 \in P THEN P \cup 2..4 ELSE P

IntersectParameterSets(first, second) ==
    LET read(p) == CanonicalParameterSet(ToSet(p))
        both == IF first = None THEN read(second) ELSE IF second = None THEN read(first) ELSE read(first) \cap read(second)
        kept == IF both \cap 2..4 = {} THEN both \ {1} ELSE both
    IN IF first = None /\ second = None THEN None ELSE SetToSortSeq(kept, <)

tighterRange(a, b) ==
    IF a = None THEN b ELSE IF b = None THEN a
    ELSE [min |-> IF a.min > b.min THEN a.min ELSE b.min, max |-> IF a.max < b.max THEN a.max ELSE b.max]

lowerBound(a, b) == minimum(a, b)

TurnDetectionOf(p, kind) == SelectSeq(p.detections, LAMBDA d : d.type = kind)

(* A turn mode may meter what any of its deployments does. *)
meteredUnits(d, e) == SetToSortSeq(ToSet(d.units) \cup ToSet(e.units), <)

intersectParameters(a, b) ==
    IF a = None \/ b = None THEN None
    ELSE LET merge(d) == LET e == TurnDetectionOf(b, d.type)[1]
                         IN [type |-> d.type, fixed |-> d.fixed \/ e.fixed, threshold |-> tighterRange(d.threshold, e.threshold),
                             units |-> meteredUnits(d, e)]
             shared == SelectSeq(a.detections, LAMBDA d : TurnDetectionOf(b, d.type) # <<>>)
         IN [detections |-> [i \in 1..Len(shared) |-> merge(shared[i])],
             modalities |-> intersectSorted(a.modalities, b.modalities), choices |-> intersectSorted(a.choices, b.choices),
             cap |-> IF a.cap = None \/ b.cap = None THEN None ELSE lowerBound(a.cap, b.cap), prompt |-> a.prompt /\ b.prompt]

aggregateRealtime(current, reported) ==
    IF reported = None THEN current
    ELSE IF current = None THEN reported
    ELSE [transports |-> intersectSorted(current.transports, reported.transports),
          kinds |-> intersectSorted(current.kinds, reported.kinds),
          transcribes |-> current.transcribes /\ reported.transcribes,
          inputs |-> intersectSorted(current.inputs, reported.inputs),
          outputs |-> intersectSorted(current.outputs, reported.outputs),
          parameters |-> intersectParameters(current.parameters, reported.parameters)]

(* A voice every report offers: its first name, the languages all of them  *)
(* and the line give it, its gender only if they agree.                    *)
narrowVoice(voice, other, languages) ==
    [voice EXCEPT !.languages = intersectSorted(intersectSorted(@, other.languages), languages),
                  !.gender = IF @ = other.gender THEN @ ELSE None]

intersectMediaTypes(a, b) == IF a = None \/ b = None THEN None ELSE intersectSorted(a, b)

aggregateAudio(current, reported) ==
    IF reported = None THEN current
    ELSE IF current = None THEN reported
    ELSE LET languages == intersectSorted(current.languages, reported.languages)
             match(v) == SelectSeq(reported.voices, LAMBDA w : w.id = v.id)
             kept == SelectSeq(current.voices, LAMBDA v : match(v) # <<>>)
         IN [languages |-> languages, uploads |-> intersectMediaTypes(current.uploads, reported.uploads),
             voices |-> [i \in 1..Len(kept) |-> narrowVoice(kept[i], match(kept[i])[1], languages)]]

NoEntry ==
    [name |-> None, created |-> None, context |-> None, maxOutput |-> None, inputs |-> None, outputs |-> None, tools |-> None,
     efforts |-> None, parameters |-> None, realtime |-> None, audio |-> None, prices |-> <<>>]

(* One deployment's observation folded into the entry. *)
observe(entry, row) ==
    LET o == row.observed
    IN IF o = None THEN entry
       ELSE [name |-> IF entry.name = None THEN o.name ELSE entry.name,
             created |-> minimum(entry.created, o.created),
             context |-> minimum(entry.context, o.context), maxOutput |-> minimum(entry.maxOutput, o.maxOutput),
             inputs |-> intersect(entry.inputs, o.inputs), outputs |-> intersect(entry.outputs, o.outputs),
             tools |-> IF o.tools = None THEN entry.tools ELSE o.tools /\ (entry.tools = None \/ entry.tools),
             efforts |-> IF o.efforts = None THEN entry.efforts
                         ELSE IF entry.efforts = None THEN o.efforts ELSE o.efforts \cap entry.efforts,
             parameters |-> IntersectParameterSets(entry.parameters, o.parameters),
             realtime |-> aggregateRealtime(entry.realtime, o.realtime),
             audio |-> aggregateAudio(entry.audio, o.audio),
             prices |-> IF o.price = None THEN entry.prices ELSE Append(entry.prices, <<row.id, o.price>>)]

(* The deployments of the current revision, in id order. *)
aggregateObservations(rows) == FoldLeft(observe, NoEntry, SetToSortSeq(rows, LAMBDA a, b : a.id < b.id))

Lines(inv) == {line \in {row.ref.line : row \in ToSet(inv.rows)} : currentOf(inv, line) # {}}

(* Catalogue: one entry per line an unpinned reference can name. *)
Catalogue(inv) ==
    [line \in Lines(inv) |->
        LET ref == CHOOSE r \in currentOf(inv, line) : TRUE
            rows == {inv.rows[p] : p \in RouteSet(inv, ref)}
        IN [ref |-> ref, providers |-> {row.provider : row \in rows}, entry |-> aggregateObservations(rows)]]
=============================================================================

---------------------------- MODULE EdgeSurface ----------------------------
(***************************************************************************)
(* The signed surfaces Oxy calls: what a handler refuses before it acts    *)
(* (edgeauth.Verifier, httpapi.Server, credentialcontrol.Server), and the  *)
(* answers that are more than one value: the frames of an inference        *)
(* stream, the pages of the attempt feed, a batch of deployments.          *)
(*                                                                         *)
(* The feed is provider_cost_events in the order of its rows: the start of *)
(* the transaction that wrote them, the request, the attempt.  A row shows *)
(* once it is older than the settle window, so one that commits late may   *)
(* stand before a cursor that has been given out.                          *)
(*                                                                         *)
(* A signature is the record of what was signed, so it verifies exactly    *)
(* when that is what was received.  A body is the form its reader meets:   *)
(* "exact", "loose" (an unknown, repeated or trailing member), "garbled".  *)
(***************************************************************************)
EXTENDS Integers, Sequences, FiniteSets

CONSTANTS
  EdgeKeys,      \* key ids the verifiers know
  MaxSkew,       \* accepted drift between the clocks
  EdgeMessages,  \* what may arrive
  Deployments,   \* deployment ids
  MaxEvents,     \* bound: events of one inference
  FeedRequests,  \* requests whose attempts are recorded, in their order
  AttemptsOf,    \* the attempts each of them made
  SettleWindow,  \* how old a row must be to show, in ticks
  MaxNow         \* bound: how long the feed is watched

ASSUME SkewAssumption == MaxSkew \in Nat

ASSUME FeedAssumption ==
  /\ FeedRequests \subseteq Nat
  /\ AttemptsOf \in [FeedRequests -> Nat]
  /\ SettleWindow \in Nat

VARIABLES
  serving,    \* deployments of the current snapshot
  feed,       \* the database's clock, the writes under way and those committed
  stream,     \* the inference response being written
  reply,      \* the last answer of a surface that answers at once
  reader      \* Oxy following the feed: its cursor and the attempts it has

edgeVars == <<serving, feed, stream, reply, reader>>

NoStream == [open |-> FALSE, broken |-> FALSE, produced |-> 0, frames |-> <<>>]
Silence == [surface |-> "none", status |-> 0, ids |-> {}, asked |-> {}]

(* ------------------------------- admission ------------------------------ *)

\* Every surface is verified under the domain of its own purpose.
DomainOf(surface) ==
  CASE surface \in {"inference", "health", "models", "deployments"} -> "inference"
    [] surface = "validation"                                      -> "credential-validation"
    [] surface \in {"attempts", "economics"}                       -> "provider-telemetry"
    [] surface \in {"mutation", "outcome"}                         -> "credential-control"

Sign(domain, key, drift, body) == [domain |-> domain, key |-> key, drift |-> drift, body |-> body]

Verify(domain, m) ==
  /\ m.key \in EdgeKeys
  /\ m.readableStamp
  /\ m.drift \in -MaxSkew..MaxSkew
  /\ m.form = "versioned"
  /\ m.signature = Sign(domain, m.key, m.drift, m.body)

\* The first of the checks that fails gives the status; 0 lets the call on.
FirstStatus(checks) ==
  LET failing == {i \in DOMAIN checks : checks[i].refuses}
  IN IF failing = {} THEN 0 ELSE checks[CHOOSE i \in failing : \A j \in failing : i <= j].status

Refuses(status, condition) == [status |-> status, refuses |-> condition]

readSignedBody(m) == Refuses(401, m.oversized \/ ~Verify(DomainOf(m.surface), m))
noQuery(m) == Refuses(400, m.query)
strict(m) == Refuses(400, m.body.form # "exact")

\* An inference envelope may carry members this build does not know.
inferenceRefusal(m) ==
  FirstStatus(<<readSignedBody(m), Refuses(400, m.body.form = "garbled"), Refuses(400, m.body.version \notin {1, 2}),
                Refuses(400, m.body.requestId = ""), Refuses(400, m.body.decisions)>>)

deploymentsRefusal(m) == FirstStatus(<<readSignedBody(m), noQuery(m), strict(m), Refuses(400, m.body.batch > 64)>>)

telemetryRefusal(m) == FirstStatus(<<readSignedBody(m), noQuery(m), strict(m), Refuses(400, m.body.version # 1)>>)
feedRefusal(m) ==
  LET refused == telemetryRefusal(m)
  IN IF refused # 0 THEN refused
     ELSE FirstStatus(<<Refuses(400, m.body.limit \notin 1..500), Refuses(400, ~m.body.cursorReadable)>>)

\* Both take no query and look at it before they read the body.
validationRefusal(m) == FirstStatus(<<noQuery(m), readSignedBody(m), strict(m), Refuses(503, ~m.body.valid)>>)
controlRefusal(m) ==
  FirstStatus(<<noQuery(m), Refuses(400, m.oversized), Refuses(401, ~Verify(DomainOf(m.surface), m)),
                Refuses(400, m.body.form = "garbled"), Refuses(400, m.body.version # 1),
                Refuses(400, m.body.action \notin {"create", "rotate", "revoke"}), strict(m), Refuses(400, ~m.body.valid)>>)

(* -------------------------------- answers ------------------------------- *)

\* The exact deployments asked for, or none of them; an empty query asks for all.
selectExactDeploymentDescriptors(asked) ==
  IF asked = {} THEN [status |-> 200, ids |-> serving]
  ELSE IF asked \subseteq serving THEN [status |-> 200, ids |-> asked] ELSE [status |-> 404, ids |-> {}]

\* A cursor is the position of a row; the first page is read from before them all.
FeedStart == <<0, 0, 0>>
Before(p, q) ==
  \/ p[1] < q[1]
  \/ p[1] = q[1] /\ p[2] < q[2]
  \/ p[1] = q[1] /\ p[2] = q[2] /\ p[3] < q[3]

\* One transaction writes every attempt of a request.
RowsOf(writes) ==
  UNION {{<<w.started, w.request, i>> : i \in 0..(AttemptsOf[w.request] - 1)} : w \in writes}

\* Attempts after the cursor, oldest first, at most a page of them; a query is one
\* instant of the database's clock.
Settled == {p \in RowsOf(feed.kept) : p[1] + SettleWindow < feed.now}
FirstOf(rs, limit) == {p \in rs : Cardinality({q \in rs : Before(q, p)}) < limit}
ReadAttemptFeedAtOnce(after, limit) == FirstOf({p \in RowsOf(feed.kept) : Before(after, p)}, limit)
ReadAttemptFeed(after, limit) == FirstOf({p \in Settled : Before(after, p)}, limit)

\* A writer that failed once writes no more: what follows would leave a gap.
WriteEventAnyway(s, frame, arrives) ==
  IF arrives THEN [s EXCEPT !.frames = Append(@, frame)] ELSE [s EXCEPT !.broken = TRUE]
WriteEvent(s, frame, arrives) ==
  IF s.broken THEN s
  ELSE IF arrives THEN [s EXCEPT !.frames = Append(@, frame)] ELSE [s EXCEPT !.broken = TRUE]

(* -------------------------------- actions ------------------------------- *)

EdgeInit ==
  /\ serving = Deployments
  /\ feed = [now |-> 1, open |-> {}, kept |-> {}]
  /\ stream = NoStream
  /\ reply = Silence
  /\ reader = [cursor |-> FeedStart, has |-> {}]

\* A surface that answers with one value.
Answer(surface, status, ids, asked) ==
  reply' = [surface |-> surface, status |-> status, ids |-> ids, asked |-> asked]

handleDeployments(m) ==
  /\ m.surface = "deployments"
  /\ LET refused == deploymentsRefusal(m)
         found == selectExactDeploymentDescriptors(m.body.ids)
     IN Answer("deployments", IF refused # 0 THEN refused ELSE found.status, IF refused # 0 THEN {} ELSE found.ids, m.body.ids)
  /\ UNCHANGED <<serving, feed, stream, reader>>

\* Oxy resumes from the cursor it was last given; a lost answer leaves it there.
handleAttemptFeed(m, readable, arrives) ==
  /\ m.surface = "attempts"
  /\ LET refused == feedRefusal(m)
         page == ReadAttemptFeed(reader.cursor, m.body.limit)
         status == IF refused # 0 THEN refused ELSE IF readable THEN 200 ELSE 503
     IN /\ Answer("attempts", status, {}, {})
        /\ IF status = 200 /\ arrives /\ page # {}
           THEN \E last \in page :
                  /\ \A p \in page \ {last} : Before(p, last)
                  /\ reader' = [cursor |-> last, has |-> reader.has \cup page]
           ELSE UNCHANGED reader
  /\ UNCHANGED <<serving, feed, stream>>

handleCredentialEconomics(m, readable) ==
  /\ m.surface = "economics"
  /\ LET refused == telemetryRefusal(m)
     IN Answer("economics", IF refused # 0 THEN refused ELSE IF readable THEN 200 ELSE 503, {}, {})
  /\ UNCHANGED <<serving, feed, stream, reader>>

handleModels(m) ==
  /\ m.surface = "models"
  /\ LET refused == FirstStatus(<<readSignedBody(m)>>)
     IN Answer("models", IF refused # 0 THEN refused ELSE 200, IF refused # 0 THEN {} ELSE serving, {})
  /\ UNCHANGED <<serving, feed, stream, reader>>

handleHealth(m) ==
  /\ m.surface = "health"
  /\ LET refused == FirstStatus(<<readSignedBody(m)>>)
     IN Answer("health", IF refused # 0 THEN refused ELSE 200, IF refused # 0 THEN {} ELSE serving, {})
  /\ UNCHANGED <<serving, feed, stream, reader>>

\* An embedding is answered whole, everything else is a stream of frames.
handleInference(m, embedding) ==
  /\ m.surface = "inference"
  /\ ~stream.open
  /\ LET refused == inferenceRefusal(m)
     IN IF refused # 0 \/ m.body.embedding
        THEN /\ Answer("inference", IF refused # 0 THEN refused ELSE embedding, {}, {})
             /\ UNCHANGED stream
        ELSE /\ stream' = [NoStream EXCEPT !.open = TRUE]
             /\ UNCHANGED reply
  /\ UNCHANGED <<serving, feed, reader>>

\* The executor hands the sink its next event.
EventProduced(arrives) ==
  /\ stream.open /\ stream.produced < MaxEvents
  /\ stream' = [WriteEvent(stream, stream.produced + 1, arrives) EXCEPT !.produced = @ + 1]
  /\ UNCHANGED <<serving, feed, reply, reader>>

\* Execute returned; its report, if the work ran at all, is the last frame.
ExecuteReturned(reported, arrives) ==
  /\ stream.open
  /\ stream' = [IF reported THEN WriteEvent(stream, 0, arrives) ELSE stream EXCEPT !.open = FALSE]
  /\ UNCHANGED <<serving, feed, reply, reader>>

SnapshotSwapped(ids) ==
  /\ ids # serving
  /\ serving' = ids
  /\ UNCHANGED <<feed, stream, reply, reader>>

\* A task begins to record a request's attempts; it may do so again after an
\* answer that was lost, while the first write is still under way.
RecordBegins(q) ==
  /\ feed' = [feed EXCEPT !.open = @ \cup {[request |-> q, started |-> feed.now]}]
  /\ UNCHANGED <<serving, stream, reply, reader>>

\* The transaction commits, in no order, and keeps what is already recorded.
RecordCommits(w) ==
  /\ w \in feed.open
  /\ feed' = [feed EXCEPT
       !.open = @ \ {w},
       !.kept = IF \E k \in @ : k.request = w.request THEN @
                ELSE @ \cup {[request |-> w.request, started |-> w.started, ended |-> feed.now]}]
  /\ UNCHANGED <<serving, stream, reply, reader>>

\* The write fails or is given up, and its task may have crashed.
RecordAborts(w) ==
  /\ w \in feed.open
  /\ feed' = [feed EXCEPT !.open = @ \ {w}]
  /\ UNCHANGED <<serving, stream, reply, reader>>

FeedTick ==
  /\ feed.now < MaxNow
  /\ feed' = [feed EXCEPT !.now = @ + 1]
  /\ UNCHANGED <<serving, stream, reply, reader>>

SurfaceNext ==
  \/ \E m \in EdgeMessages :
       \/ handleDeployments(m)
       \/ \E readable \in BOOLEAN : handleCredentialEconomics(m, readable)
       \/ handleModels(m)
       \/ handleHealth(m)
       \/ \E embedding \in {200, 500, 502} : handleInference(m, embedding)
  \/ \E arrives \in BOOLEAN : EventProduced(arrives)
  \/ \E reported, arrives \in BOOLEAN : ExecuteReturned(reported, arrives)
  \/ \E ids \in SUBSET Deployments : SnapshotSwapped(ids)

FeedNext ==
  \/ \E m \in EdgeMessages, readable, arrives \in BOOLEAN : handleAttemptFeed(m, readable, arrives)
  \/ \E q \in FeedRequests : RecordBegins(q)
  \/ \E w \in feed.open : RecordCommits(w) \/ RecordAborts(w)
  \/ FeedTick

EdgeNext == SurfaceNext \/ FeedNext

EdgeSpec == EdgeInit /\ [][EdgeNext]_edgeVars

(* ------------------------------- properties ----------------------------- *)

\* Events arrive without a gap, and the report only after every event of the work.
FramesAreWhole ==
  LET n == Len(stream.frames)
      last == n > 0 /\ stream.frames[n] = 0
      events == IF last THEN n - 1 ELSE n
  IN /\ \A i \in 1..events : stream.frames[i] = i
     /\ last => events = stream.produced

\* Following the feed loses no attempt whose transaction ended within the settle
\* window of its start, and gives none whose write did not commit.
PagesAreWhole ==
  /\ reader.has \subseteq RowsOf(feed.kept)
  /\ \A p \in RowsOf({w \in feed.kept : w.ended - w.started <= SettleWindow}) :
       p \in reader.has \/ Before(reader.cursor, p)

\* What a signed surface gives in pieces is whole: the frames of a stream that
\* breaks at any write (sse.Writer.WriteEvent), the pages of a feed whose rows
\* commit out of order while it is read and whose answers get lost
\* (kaana_read_provider_attempt_feed), and a batch of deployments asked for while
\* snapshots are swapped (selectExactDeploymentDescriptors).
EdgeAnswersWhole ==
  /\ FramesAreWhole
  /\ PagesAreWhole
  /\ (reply.surface = "deployments" /\ reply.status = 200 /\ reply.asked # {}) => reply.ids = reply.asked

=============================================================================

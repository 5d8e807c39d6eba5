-------------------------- MODULE RealtimeSession --------------------------
(***************************************************************************)
(* One realtime session on one task (internal/realtime: session.go,        *)
(* replay.go, manager.go, public.go; internal/kaana/session.go): it is     *)
(* admitted, opened on the first signed route that opens, relays commands  *)
(* and events, survives its connections for a resume window, and settles.  *)
(*                                                                         *)
(* The record s is the session goroutine's state; its handlers are         *)
(* functions of it.  fails says whether writing to the client fails during *)
(* a handler: it may on a connection that is cut, and does once the        *)
(* session's context is cancelled.                                         *)
(***************************************************************************)
EXTENDS RealtimeRequests

CONSTANTS
    Arrivals,       \* the first frames of a connection, with what surrounds them
    Frames,         \* the client's later frames
    MaxHeld,        \* Manager.replayEvents
    MaxHeldBytes,   \* Manager.replayBytes
    MaxConnections, \* bound: connections of one session
    MaxSteps,       \* bound: client frames and upstream events
    MaxInbox        \* bound: frames read and not yet handled

VARIABLES
    s,        \* the session, NoSession before it is admitted
    inbox,    \* session.inbox
    cut,      \* the attached connection is broken
    draining, \* Manager.draining
    steps

sessionVars == <<s, inbox, cut, draining, steps>>

SessionId == 1
NoSession ==
    [stage |-> "none", public |-> FALSE, line |-> 0, rev |-> 0, routes |-> <<>>, limits |-> None, transcribes |-> FALSE,
     opening |-> None, cancelled |-> FALSE, attached |-> 0, connections |-> 0,
     sequence |-> 0, held |-> <<>>, seen |-> {}, responses |-> 0, input |-> 0, output |-> 0, measured |-> FALSE,
     expiry |-> FALSE, window |-> FALSE,
     told |-> -1, gap |-> FALSE, repeated |-> FALSE, applied |-> {}, reason |-> None, report |-> None]

(***************************************************************************)
(* Opening (kaana.OpenSession): an outcome for every signed route          *)
(***************************************************************************)
RouteOutcomes == {"out_of_rotation", "no_adapter", "over_ceiling", "not_sessions", "wrong_kind", "unsupported", "failed", "refused", "opened"}
Dialled == {"failed", "refused", "cancelled", "opened"}

(* The first route that opens, or that refuses the session whole, decides; *)
(* a route that is skipped or that failed leads to the next.  The route    *)
(* reported is the last that was asked to open, dialled or not.  A session *)
(* without the scope, with a customer's credential or with routes that do  *)
(* not resolve is refused as an invalid one is: nothing was tried.         *)
OpenSession(request, public, transcribes, outcomes) ==
    LET deciding == {i \in DOMAIN outcomes : outcomes[i] \notin {"out_of_rotation", "no_adapter", "over_ceiling", "failed"}}
        last == IF deciding = {} THEN Len(outcomes) ELSE CHOOSE i \in deciding : \A j \in deciding : i <= j
        tried == {i \in 1..last : outcomes[i] \in Dialled}
        reached == tried \cup {i \in 1..last : outcomes[i] = "unsupported"}
        opened == deciding # {} /\ outcomes[last] = "opened"
    IN IF ~validateRoutes(request) \/ (transcribes /\ ~public)
       THEN [opened |-> FALSE, route |-> 1, attempts |-> 0]
       ELSE [opened |-> opened,
             route |-> IF reached = {} THEN 1 ELSE CHOOSE i \in reached : \A j \in reached : j <= i,
             attempts |-> Cardinality(tried) - (IF opened THEN 1 ELSE 0)]

(* SettleSession: the report, None when it would not be settleable. *)
ValidReport(r) == r.outcome = "completed" => r.measured
SettleSession(opening, end) ==
    LET switches == IF opening.opened THEN opening.attempts ELSE IF opening.attempts = 0 THEN 0 ELSE opening.attempts - 1
        report == [outcome |-> end.outcome, measured |-> opening.opened /\ end.measured, route |-> opening.route, switches |-> switches]
    IN IF ValidReport(report) THEN report ELSE None

(* reportOutcome: a session that consumed nothing is never completed. *)
reportOutcomeNamed(reason, measured, opened) ==
    IF ~opened THEN "failed"
    ELSE IF reason = "upstream_error" THEN (IF measured THEN "partial" ELSE "failed")
    ELSE IF reason = "resume_expired" THEN "cancelled" ELSE "completed"

reportOutcome(reason, measured, opened) ==
    IF ~opened THEN "failed"
    ELSE IF reason = "upstream_error" THEN (IF measured THEN "partial" ELSE "failed")
    ELSE IF reason = "resume_expired" \/ ~measured THEN "cancelled" ELSE "completed"

(***************************************************************************)
(* The replay buffer and the connection                                    *)
(***************************************************************************)
Bytes(held) == FoldLeft(LAMBDA n, size : n + size, 0, held)
first(x) == x.sequence - Len(x.held)

(* replay.push: the oldest are forgotten, never the newest. *)
push(held, size) ==
    LET grown == Append(held, size)
        fits(k) == LET kept == SubSeq(grown, k, Len(grown)) IN Len(kept) = 1 \/ (Len(kept) <= MaxHeld /\ Bytes(kept) <= MaxHeldBytes)
        from == CHOOSE k \in 1..Len(grown) : fits(k) /\ \A j \in 1..(k - 1) : ~fits(j)
    IN SubSeq(grown, from, Len(grown))

(* replay.after: the buffered sequences after the one a client names, None *)
(* when one of them is forgotten.                                          *)
afterForgotten(x, named) ==
    IF named < -1 \/ named >= x.sequence THEN None
    ELSE [i \in 1..(x.sequence - (IF named + 1 < first(x) THEN first(x) ELSE named + 1)) |->
              (IF named + 1 < first(x) THEN first(x) ELSE named + 1) + i - 1]

after(x, named) ==
    IF named < -1 \/ named >= x.sequence THEN None
    ELSE IF named + 1 = x.sequence THEN <<>>
    ELSE IF x.held = <<>> \/ named + 1 < first(x) THEN None
    ELSE [i \in 1..(x.sequence - named - 1) |-> named + i]

(* detach: the session keeps running for the resume window. *)
detach(x) == [x EXCEPT !.attached = 0, !.told = -1, !.window = x.stage # "done"]

(* write: one that fails lets the connection go. *)
write(x, number, fails) ==
    IF x.attached = 0 THEN x
    ELSE IF fails THEN detach(x)
    ELSE [x EXCEPT !.told = number, !.gap = @ \/ number # x.told + 1]

(* emit: number, buffer, send. *)
emit(x, size, fails) == write([x EXCEPT !.held = push(@, size), !.sequence = @ + 1], x.sequence, fails)

connect(x) == [x EXCEPT !.attached = x.connections + 1, !.connections = @ + 1, !.window = FALSE]

(* finish, once: the fatal error, session.closed, the settlement, the      *)
(* report to a connection of the signed lane, the close.                   *)
finish(x, reason, fatal, fails) ==
    IF x.stage = "done" THEN x
    ELSE LET ended == [x EXCEPT !.stage = "done", !.expiry = FALSE, !.window = FALSE, !.reason = reason]
             told == IF fatal THEN emit(ended, 1, fails) ELSE ended
             closed == emit(told, 1, fails)
             end == [outcome |-> reportOutcome(reason, x.measured, x.opening.opened), measured |-> x.measured]
         IN [closed EXCEPT !.report = [x |-> SettleSession(x.opening, end)], !.attached = 0, !.told = -1]

(***************************************************************************)
(* Handlers of the session goroutine                                       *)
(***************************************************************************)

(* The commands a resend is recognised by. *)
remember(x, id) == [x EXCEPT !.seen = @ \cup {id}]

(* receive, for a frame of the attached connection: what is not a command, *)
(* names no new one, or would pass a ceiling is not applied.               *)
receive(x, frame, sent, fails) ==
    LET c == frame.command
        acked == emit(remember(x, c.id), 1, fails)
        applied == [acked EXCEPT !.repeated = @ \/ c.id \in acked.applied, !.applied = @ \cup {c.id}]
    IN IF frame.kind = "end" THEN detach(x)
       ELSE IF frame.kind = "binary" THEN finish(x, "client_closed", TRUE, fails)
       ELSE IF ~DecodeRealtimeCommand(frame, SessionId) THEN emit(x, 1, fails)
       ELSE IF c.type = "session.resume" THEN emit(x, 1, fails)
       ELSE IF c.type = "session.update" /\ c.config.transcription # None /\ ~x.public THEN emit(x, 1, fails)
       ELSE IF c.id \in x.seen THEN emit(x, 1, fails)
       ELSE IF x.input + commandInputAudio(c) > x.limits.input THEN finish(x, "limit_exceeded", TRUE, fails)
       ELSE IF c.type = "response.create" /\ x.responses >= x.limits.responses THEN finish(x, "limit_exceeded", TRUE, fails)
       ELSE IF c.type = "session.close" THEN finish(acked, "client_closed", FALSE, fails)
       ELSE IF sent = "unsupported" THEN emit(acked, 1, fails)
       ELSE IF sent = "failed" THEN finish(acked, "upstream_error", TRUE, fails)
       ELSE [applied EXCEPT !.input = @ + commandInputAudio(c)]

(* upstream: units first, then the ceilings of what is relayed. *)
UpstreamEvents == {"usage", "created", "audio", "text", "done", "closed", "failed"}
upstream(x, event, fails) ==
    LET y == [x EXCEPT !.measured = @ \/ event \in {"usage", "done"}]
    IN CASE event = "closed" -> finish(x, "upstream_closed", FALSE, fails)
         [] event = "failed" -> IF x.cancelled THEN finish(x, "server_shutdown", FALSE, fails) ELSE finish(x, "upstream_error", TRUE, fails)
         [] event = "usage"  -> y
         [] event = "created" /\ y.responses >= y.limits.responses -> finish(y, "limit_exceeded", TRUE, fails)
         [] event = "created" /\ y.responses < y.limits.responses  -> emit([y EXCEPT !.responses = @ + 1], 1, fails)
         [] event = "audio" /\ y.output + 1 > y.limits.output  -> finish(y, "limit_exceeded", TRUE, fails)
         [] event = "audio" /\ y.output + 1 <= y.limits.output -> emit([y EXCEPT !.output = @ + 1], 2, fails)
         [] OTHER -> emit(y, 1, fails)

(* Writes of one replay: the first that fails lets the connection go. *)
replay(x, numbers, fails) ==
    IF numbers = <<>> THEN x
    ELSE IF fails THEN detach(x)
    ELSE [x EXCEPT !.told = numbers[Len(numbers)],
                   !.gap = @ \/ \E i \in 1..Len(numbers) : numbers[i] # 1 + (IF i = 1 THEN x.told ELSE numbers[i - 1])]

(* resume: replay what was missed, in order, then session.resumed. *)
resume(x, named, fails) ==
    LET attached == [connect(detach(x)) EXCEPT !.told = named]
    IN emit(replay(attached, after(x, named), fails), 1, fails)

(***************************************************************************)
(* Actions                                                                 *)
(***************************************************************************)
SessionInit == s = NoSession /\ inbox = <<>> /\ cut = FALSE /\ draining = FALSE /\ steps = 0

Running == s.stage = "live"
Fails == IF s.cancelled THEN {TRUE} ELSE IF cut THEN BOOLEAN ELSE {FALSE}

(* Writing on the connection of this handler; a new connection is whole,   *)
(* and a session that is over holds nothing that matters.                  *)
Became(x) ==
    /\ s' = IF x.stage = "done"
            THEN [x EXCEPT !.held = <<>>, !.seen = {}, !.applied = {}, !.responses = 0, !.input = 0, !.output = 0, !.sequence = 0,
                          !.limits = None, !.opening = None, !.connections = 0, !.routes = <<>>]
            ELSE x
    /\ cut' = (cut /\ x.attached = s.attached /\ x.attached # 0)

(* ServeHTTP and open, or PublicHandler: a session that is refused is one  *)
(* whose grant, when Oxy held one for it, is settled unserved.             *)
Arrive(a) ==
    /\ s.stage = "none"
    /\ LET routes == IF a.public THEN SessionRoutes(a.plan, a.byok, a.open.line) ELSE a.request.routes
           refused == IF a.public THEN AdmitOpen(a.open, a.entry, a.defaults) # None ELSE ~ValidSessionRequest(a.request)
           limits == IF a.public THEN realtimeLimits(a.open.limits, a.defaults) ELSE a.request.limits
           asked == IF a.public THEN a.open ELSE a.request
       IN s' = IF draining \/ refused THEN [NoSession EXCEPT !.stage = "refused"]
               ELSE IF routes = <<>> \/ ~a.claimed
               THEN [NoSession EXCEPT !.stage = "refused", !.public = a.public, !.report = IF a.public THEN [x |-> "unserved"] ELSE None]
               ELSE [connect(NoSession) EXCEPT !.stage = "opening", !.public = a.public, !.line = asked.line, !.rev = asked.rev,
                                               !.routes = routes, !.limits = limits,
                                               !.transcribes = asked.config.transcription # None]
    /\ UNCHANGED <<inbox, cut, draining, steps>>

(* run: OpenSession returns. *)
OpenReturns(outcomes) ==
    /\ s.stage = "opening"
    /\ s.cancelled => \E i \in DOMAIN outcomes : outcomes[i] = "cancelled"
    /\ LET request == [line |-> s.line, rev |-> s.rev, routes |-> s.routes]
           x == [s EXCEPT !.opening = OpenSession(request, s.public, s.transcribes, outcomes)]
       IN \E fails \in Fails :
             IF x.opening.opened
             THEN Became([emit([x EXCEPT !.stage = "live"], 1, fails) EXCEPT !.expiry = TRUE])
             ELSE Became(finish(x, IF draining \/ s.cancelled THEN "server_shutdown" ELSE "no_route_available", TRUE, fails))
    /\ UNCHANGED <<inbox, draining, steps>>

(* A connection's reader. *)
ClientSends(frame) ==
    /\ s.stage \in {"opening", "live"} /\ s.attached # 0 /\ ~cut /\ steps < MaxSteps /\ Len(inbox) < MaxInbox
    /\ inbox' = Append(inbox, [connection |-> s.attached, frame |-> frame])
    /\ cut' = (frame.kind = "end")
    /\ steps' = steps + 1
    /\ UNCHANGED <<s, draining>>

Receive(sent) ==
    /\ Running /\ inbox # <<>>
    /\ sent = IF s.cancelled THEN "failed" ELSE sent
    /\ inbox' = Tail(inbox)
    /\ IF Head(inbox).connection # s.attached
       THEN UNCHANGED <<s, cut>>
       ELSE \E fails \in Fails : Became(receive(s, Head(inbox).frame, sent, fails))
    /\ UNCHANGED <<draining, steps>>

(* pump and upstream. *)
Upstream(event) ==
    /\ Running /\ steps < MaxSteps
    /\ s.cancelled => event = "failed"
    /\ \E fails \in Fails : Became(upstream(s, event, fails))
    /\ steps' = steps + 1
    /\ UNCHANGED <<inbox, draining>>

(* Manager.resume, publicResumeLocal: the lane and, on the public one, the *)
(* credential of the session; a resume that cannot be honoured is refused  *)
(* on its own connection.                                                  *)
Honours(x, by) == (by.lane = "public") = x.public /\ (x.public => by.opener)

Resume(by, named) ==
    /\ Running /\ s.connections < MaxConnections /\ Honours(s, by) /\ after(s, named) # None
    /\ \E fails \in IF s.cancelled THEN {TRUE} ELSE {FALSE} : Became(resume(s, named, fails))
    /\ UNCHANGED <<inbox, draining, steps>>

Timer(reason) ==
    /\ Running
    /\ \/ reason = "max_duration" /\ s.expiry
       \/ reason = "idle_timeout"
       \/ reason = "resume_expired" /\ s.window
    /\ \E fails \in Fails : Became(finish(s, reason, FALSE, fails))
    /\ UNCHANGED <<inbox, draining, steps>>

(* Shutdown closes the channel every session selects on. *)
Shutdown ==
    /\ ~draining /\ draining' = TRUE
    /\ UNCHANGED <<s, inbox, cut, steps>>

ObserveShutdown ==
    /\ Running /\ (draining \/ s.cancelled)
    /\ \E fails \in Fails : Became(finish(s, "server_shutdown", FALSE, fails))
    /\ UNCHANGED <<inbox, draining, steps>>

(* The drain deadline, or a lease that could not be renewed. *)
Cancel ==
    /\ s.stage \in {"opening", "live"} /\ ~s.cancelled
    /\ s' = [s EXCEPT !.cancelled = TRUE]
    /\ UNCHANGED <<inbox, cut, draining, steps>>

SessionNext ==
    \/ \E a \in Arrivals : Arrive(a)
    \/ \E outcomes \in [1..Len(s.routes) -> RouteOutcomes \cup {"cancelled"}] : OpenReturns(outcomes)
    \/ \E frame \in Frames : ClientSends(frame)
    \/ \E sent \in {"ok", "unsupported", "failed"} : Receive(sent)
    \/ \E event \in UpstreamEvents : Upstream(event)
    \/ \E by \in [lane : {"internal", "public"}, opener : BOOLEAN], named \in -1..s.sequence : Resume(by, named)
    \/ \E reason \in {"max_duration", "idle_timeout", "resume_expired"} : Timer(reason)
    \/ Shutdown \/ ObserveShutdown \/ Cancel

SessionSpec == SessionInit /\ [][SessionNext]_sessionVars

(* An open is bounded by the adapter's dial timeout, and the duration      *)
(* timer of a session is armed when it opens.                              *)
SessionFairness ==
    /\ WF_sessionVars(\E outcomes \in [1..Len(s.routes) -> RouteOutcomes \cup {"cancelled"}] : OpenReturns(outcomes))
    /\ WF_sessionVars(Timer("max_duration"))

(***************************************************************************)
(* Properties                                                              *)
(***************************************************************************)

(* Whatever connections come, go and replace each other, and whatever the  *)
(* buffer has forgotten: the events written to a connection are numbered   *)
(* without a gap or a repetition from the one its client named             *)
(* (replay.after, session.resume, session.emit).                           *)
ReplayIsGapless == ~s.gap

(* A command the client resends, on any connection, is sent to the         *)
(* provider at most once (session.receive).                                *)
AppliedOnce == ~s.repeated

(* A client that reconnects misses nothing and causes nothing twice, in    *)
(* either direction (session.resume, session.receive).                     *)
ResumesExactly == ReplayIsGapless /\ AppliedOnce

(* A session that was admitted ends, and hands over a report that can be   *)
(* settled, whatever its client and its provider do (session.finish,       *)
(* reportOutcome, SettleSession).                                          *)
SessionSettles == (s.stage = "opening") ~> (s.stage = "done" /\ s.report # None /\ s.report.x # None)
=============================================================================

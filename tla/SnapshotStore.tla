--------------------------- MODULE SnapshotStore ---------------------------
(***************************************************************************)
(* Requests between two moving parts of one task: the inventory snapshot   *)
(* (internal/inventory/store.go, reloaded by reloadSnapshots of cmd/kaana) *)
(* and the credential generation (reloadCredentialPools).  A public        *)
(* request resolves its grant against the snapshot and the key pools of    *)
(* one moment (resolveGrant) and is executed against those of a later one  *)
(* (Executor.resolve, resolveAuthorizedRoutes).                            *)
(***************************************************************************)
EXTENDS GrantPlan

CONSTANTS
    Files,        \* what the publisher may write: a file, or None for an unreadable one
    Generations,  \* credential generations: keys by provider, pins by deployment
    Grants,       \* the grants Oxy may sign
    Kinds,        \* what this process serves each of its providers with
    MaxAge,       \* KAANA_INVENTORY_MAX_AGE
    MaxNow        \* bound: the clock

(* A decoded file and a decoded grant hold lists. *)
ASSUME StoreAssumption ==
    /\ \A f \in Files : f # None => f.rows \in Seq(ToSet(f.rows))
    /\ \A g \in Grants : /\ g.steps \in Seq(ToSet(g.steps))
                         /\ \A i \in 1..Len(g.steps) : g.steps[i].lines \in Seq(ToSet(g.steps[i].lines))

VARIABLES
    file,        \* the snapshot file
    serving,     \* Store.current, None before the start and after a refused one
    reloadError, \* Store.lastReloadSummary is set
    generation,  \* the registry's bindings and pools
    now,
    request      \* one request: its grant, its plan and what it executed

storeVars == <<file, serving, reloadError, generation, now, request>>

(***************************************************************************)
(* Credentials                                                             *)
(***************************************************************************)

(* Registry.ResolveCredential: the fundings of the keys a deployment may   *)
(* spend, none when the resolution is refused.  A pin never falls back to  *)
(* the provider's pool.                                                    *)
ResolveCredential(gen, id, provider) ==
    IF provider \notin DOMAIN Kinds THEN {}
    ELSE IF id \in DOMAIN gen.pins
    THEN IF gen.pins[id].provider = provider /\ gen.pins[id].funding \in gen.keys[provider] THEN {gen.pins[id].funding} ELSE {}
    ELSE gen.keys[provider]

Pools(inv, gen) == [id \in Deployments(inv) |-> ResolveCredential(gen, id, Deployment(inv, id).provider)]

(* credentialCoverage: the deployments of providers this process serves,   *)
(* and those of them without a credential.                                 *)
served(inv) == {row.id : row \in {r \in ToSet(inv.rows) : r.provider \in DOMAIN Kinds}}
unroutable(inv, gen) == {id \in served(inv) : Pools(inv, gen)[id] = {}}

(* requireStartupDeploymentCredentials: the start's and the reload's gate. *)
requireStartupDeploymentCredentials(inv, gen) == 2 * Cardinality(unroutable(inv, gen)) <= Cardinality(served(inv))

Installable(f, gen) == f # None /\ Parse(f) # None /\ requireStartupDeploymentCredentials(f, gen)

(***************************************************************************)
(* Actions                                                                 *)
(***************************************************************************)
NoRequest == [st |-> "none", grant |-> None, plan |-> None, routes |-> <<>>]

StoreInit ==
    /\ file \in Files /\ serving = None /\ reloadError = FALSE
    /\ generation \in Generations /\ now = 0
    /\ request = NoRequest

(* NewStore and the start-up gate: without a first snapshot the task does  *)
(* not start.                                                              *)
NewStore ==
    /\ serving = None /\ Installable(file, generation)
    /\ serving' = file
    /\ UNCHANGED <<file, reloadError, generation, now, request>>

(* The publisher writes a snapshot, or the write is damaged (external). *)
Publish(f) ==
    /\ f # file
    /\ file' = f
    /\ UNCHANGED <<serving, reloadError, generation, now, request>>

(* ReloadValidated on reloadSnapshots' ticker: a file that cannot be read, *)
(* parsed or routed leaves the last good snapshot in place, whole.         *)
Reload ==
    /\ serving # None
    /\ IF Installable(file, generation)
       THEN serving' = file /\ reloadError' = FALSE
       ELSE serving' = serving /\ reloadError' = TRUE
    /\ UNCHANGED <<file, generation, now, request>>

(* Status: whether unpinned names still resolve, as the health surface     *)
(* tells it.                                                               *)
Status == [servesUnpinned |-> ServesUnpinned(serving, now, MaxAge), lastReloadError |-> reloadError]

(* Registry.ReplaceGeneration on reloadCredentialPools' ticker. *)
ReplaceGeneration(gen) ==
    /\ serving # None /\ gen # generation
    /\ generation' = gen
    /\ UNCHANGED <<file, serving, reloadError, now, request>>

(* admit: Oxy's grant is verified and resolved. *)
Admit(g) ==
    /\ serving # None /\ request.st = "none"
    /\ LET plan == IF ValidGrant(g) THEN resolveGrant(g, serving, Pools(serving, generation), Kinds, now, MaxAge) ELSE None
       IN request' = IF ~ValidGrant(g) THEN [NoRequest EXCEPT !.st = "refused"]
                     ELSE IF plan = None THEN [NoRequest EXCEPT !.st = "unserved"]
                     ELSE [st |-> "admitted", grant |-> g, plan |-> plan, routes |-> <<>>]
    /\ UNCHANGED <<file, serving, reloadError, generation, now>>

(* Executor.resolve: the envelope is checked, and its routes are looked up *)
(* again in the snapshot of this moment.                                   *)
Execute ==
    /\ request.st = "admitted"
    /\ LET plan == request.plan
           routes == IF validateAuthorizedRoutes(plan) /\ keepsPrimaryRevision(plan)
                     THEN resolveAuthorizedRoutes(serving, plan.routes, now, MaxAge) ELSE <<>>
       IN request' = IF routes = <<>> THEN [request EXCEPT !.st = "invalid"]
                     ELSE [request EXCEPT !.st = "executing", !.routes = routes]
    /\ UNCHANGED <<file, serving, reloadError, generation, now>>

(* The request is over; another one takes its place. *)
Finish ==
    /\ request.st \notin {"none", "admitted"}
    /\ request' = NoRequest
    /\ UNCHANGED <<file, serving, reloadError, generation, now>>

StoreTick ==
    /\ now < MaxNow
    /\ now' = now + 1
    /\ UNCHANGED <<file, serving, reloadError, generation, request>>

StoreNext ==
    \/ NewStore \/ Reload \/ Execute \/ Finish \/ StoreTick
    \/ \E f \in Files : Publish(f)
    \/ \E gen \in Generations : ReplaceGeneration(gen)
    \/ \E g \in Grants : Admit(g)

StoreSpec == StoreInit /\ [][StoreNext]_storeVars

(***************************************************************************)
(* Properties                                                              *)
(***************************************************************************)

(* No plan leaves its grant: each route serves a line its step admits,     *)
(* within the step's providers and regions, no deployment twice, no line   *)
(* at two revisions, one deployment of a line in a step without failover,  *)
(* and routes in the order of their steps.                                 *)
PlanWithinGrant ==
    request.plan # None =>
        LET routes == request.plan.routes
            step(r) == request.grant.steps[r.step]
        IN /\ validateRouteList(routes)
           /\ \A r \in ToSet(routes) : Contains(step(r).lines, r.ref.line) /\ admitsRoute(step(r), r) /\ r.ceiling = step(r).ceiling
           /\ \A r, s \in ToSet(routes) :
                 /\ r.ref.line = s.ref.line => r.ref = s.ref
                 /\ r.step = s.step /\ r.ref.line = s.ref.line /\ ~step(r).failover => r = s
           /\ \A i, j \in 1..Len(routes) : i < j => routes[i].step <= routes[j].step

(* Whatever was reloaded between the grant's resolution and the execution, *)
(* each route that is executed is the one that was planned: deployment,    *)
(* provider, revision and regions, in the planned order.                   *)
ExecutesAsPlanned ==
    request.st = "executing" =>
        /\ Len(request.routes) = Len(request.plan.routes)
        /\ \A i \in 1..Len(request.routes) :
              LET r == request.routes[i]
                  p == request.plan.routes[i]
              IN r.id = p.id /\ r.provider = p.provider /\ r.ref = p.ref /\ r.regions = p.regions

(* From the grant to the execution nothing widens: the plan stays within   *)
(* the grant and what runs is the plan (resolveGrant,                      *)
(* resolveAuthorizedRoutes).                                               *)
PlanIsKept == PlanWithinGrant /\ ExecutesAsPlanned

(* The catalogue promises of a line what every deployment that reports     *)
(* about it keeps, and nothing less: numbers are the least reported, lists *)
(* hold what all reports hold, a voice is offered by all in the languages  *)
(* all give it, and a deployment that is silent takes nothing away.        *)
Everyone(rows, field) == {row.observed[field] : row \in {r \in rows : r.observed # None /\ r.observed[field] # None}}

LeastOf(values) == IF values = {} THEN None ELSE CHOOSE v \in values : \A w \in values : v <= w

SharedBy(lists) == IF lists = {} THEN None ELSE {v \in UNION {ToSet(l) : l \in lists} : \A l \in lists : Contains(l, v)}

AsSet(list) == IF list = None THEN None ELSE ToSet(list)

CatalogueNarrows ==
    serving # None =>
        \A line \in DOMAIN Catalogue(serving) :
            LET e == Catalogue(serving)[line].entry
                rows == {serving.rows[p] : p \in RouteSet(serving, Catalogue(serving)[line].ref)}
                audio == Everyone(rows, "audio")
                realtime == Everyone(rows, "realtime")
            IN /\ e.context = LeastOf(Everyone(rows, "context")) /\ e.maxOutput = LeastOf(Everyone(rows, "maxOutput"))
               /\ e.created = LeastOf(Everyone(rows, "created"))
               /\ AsSet(e.inputs) = SharedBy(Everyone(rows, "inputs")) /\ AsSet(e.outputs) = SharedBy(Everyone(rows, "outputs"))
               /\ e.tools = IF Everyone(rows, "tools") = {} THEN None ELSE FALSE \notin Everyone(rows, "tools")
               /\ \A E \in Everyone(rows, "efforts") : e.efforts \subseteq E
               /\ \A P \in Everyone(rows, "parameters") : ToSet(e.parameters) \subseteq CanonicalParameterSet(ToSet(P))
               /\ \A a \in audio : \A v \in ToSet(e.audio.voices) :
                     \E w \in ToSet(a.voices) : w.id = v.id /\ ToSet(v.languages) \subseteq ToSet(w.languages) \cap ToSet(e.audio.languages)
               /\ \A r \in realtime : /\ ToSet(e.realtime.kinds) \subseteq ToSet(r.kinds) /\ (e.realtime.transcribes => r.transcribes)
                                      /\ e.realtime.parameters # None => r.parameters # None
=============================================================================

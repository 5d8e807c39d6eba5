----------------------------- MODULE GrantPlan -----------------------------
(***************************************************************************)
(* From a signed grant to the routes one request may take:                 *)
(* internal/publicapi/routes.go (resolveGrant), the grant's own rules in   *)
(* internal/contract/grant.go, the binding to the request in authorize.go  *)
(* (checkGrant), and what the executor requires of the envelope            *)
(* (validateAuthorizedRoutes, resolve, resolveAuthorizedRoutes).           *)
(*                                                                         *)
(* A grant's step names a target (a line with an optional revision, or a   *)
(* power level, whose line is 0) and limits.  `pools' gives the fundings   *)
(* of the keys a deployment may spend, `kinds' what this process serves a  *)
(* provider with.                                                          *)
(***************************************************************************)
EXTENDS Inventory, Funding

CONSTANTS MaxGrantSteps, GrantExecutionWindow

(***************************************************************************)
(* The grant                                                               *)
(***************************************************************************)

(* GrantTarget.Validate: a model names a line, a level names none. *)
ValidTarget(target) == IF target.kind = "model" THEN target.line > 0 ELSE target.line = 0 /\ target.rev = 0

(* GrantStep.validate: lines once each and the target among them, no       *)
(* provider or region both allowed and denied.                             *)
ValidStep(step) ==
    /\ ValidTarget(step.target)
    /\ step.lines # <<>>
    /\ \A i, j \in 1..Len(step.lines) : i # j => step.lines[i] # step.lines[j]
    /\ step.target.kind = "model" => Contains(step.lines, step.target.line)
    /\ step.allow \cap step.deny = {} /\ step.allowRegions \cap step.denyRegions = {}

(* Grant.Validate. *)
ValidGrant(g) ==
    /\ ~(g.firstParty /\ (g.lane = "machine_credential" \/ g.scopes))
    /\ Len(g.steps) \in 1..MaxGrantSteps
    /\ g.issued < g.executeBy /\ g.executeBy <= g.issued + GrantExecutionWindow
    /\ g.reservation = (g.treatment # "internal_metered")
    /\ g.byok = (g.treatment = "platform_fee_only")
    /\ \A i \in 1..Len(g.steps) : ValidStep(g.steps[i]) /\ (g.byok => g.steps[i].ceiling = "none")

(* checkGrant: the grant answers this request, body and key, in its window. *)
checkGrant(g, ask, at) ==
    /\ g.request = ask.request /\ g.operation = ask.operation /\ g.body = ask.body
    /\ at <= g.executeBy
    /\ g.key \in {None, ask.key}

(***************************************************************************)
(* Resolution into routes                                                  *)
(***************************************************************************)

(* admitsRoute: a region limit admits only a route that attests regions. *)
admitsRoute(step, route) ==
    /\ step.allow = {} \/ route.provider \in step.allow
    /\ route.provider \notin step.deny
    /\ step.allowRegions \cup step.denyRegions # {} =>
          /\ route.regions # {}
          /\ step.allowRegions = {} \/ route.regions \subseteq step.allowRegions
          /\ route.regions \cap step.denyRegions = {}

(* servesOperation: sessions by session adapters, requests by request      *)
(* adapters; a provider this process does not serve is left to the         *)
(* executor.                                                               *)
servesOperation(kinds, g, provider) ==
    \/ provider \notin DOMAIN kinds
    \/ IF g.operation = "realtime.session"
       THEN kinds[provider].sessions # {} /\ (g.kind = None \/ g.kind \in kinds[provider].sessions)
       ELSE kinds[provider].requests

WithinFunding(pool, ceiling) == \E f \in pool : Admits(ceiling, f)

(* RegistryFunding.CheapestTier: the rank of the cheapest stated key under *)
(* the ceiling, 3 when none states its funding, None when no key may be    *)
(* spent at all.                                                           *)
CheapestTier(pool, ceiling) ==
    IF pool = {} \/ ~WithinFunding(pool, ceiling) THEN None
    ELSE LET ranks == {TierRank(t) : t \in {u \in Tiers : WithinFunding(pool, u)}}
         IN IF ranks = {} THEN 3 ELSE CHOOSE r \in ranks : \A s \in ranks : r <= s

RankOf(g, pools, route, ceiling) == IF g.byok THEN 3 ELSE CheapestTier(pools[route.id], ceiling)

(* The reference a step resolves for one admitted line: a revision an      *)
(* earlier route of the line serves binds the rest of the request.         *)
Chosen(routes, line) == {r \in ToSet(routes) : r.ref.line = line}

referenceOf(step, line, routes) ==
    IF Chosen(routes, line) # {} THEN (CHOOSE r \in Chosen(routes, line) : TRUE).ref
    ELSE IF step.target.kind = "model" THEN [line |-> line, rev |-> step.target.rev]
    ELSE [line |-> line, rev |-> 0]

(* One step's candidates, each with the three keys it is ordered by: the   *)
(* cost, the grant's line and the place in the inventory.                  *)
admissible(g, step, routes, kinds, c) ==
    /\ admitsRoute(step, c.route) /\ servesOperation(kinds, g, c.route.provider)
    /\ \A r \in ToSet(routes) : r.id # c.route.id
    /\ c.rank # None

candidatesOf(g, step, routes, inv, pools, kinds, at, maxAge) ==
    LET lineRows(i) ==
            IF step.target.kind = "model" /\ step.lines[i] # step.target.line THEN {}
            ELSE Resolve(inv, referenceOf(step, step.lines[i], routes), at, maxAge)
        candidate(i, p) ==
            [route |-> Route(inv.rows[p]), rank |-> RankOf(g, pools, Route(inv.rows[p]), step.ceiling), line |-> i, position |-> p]
    IN {c \in UNION {{candidate(i, p) : p \in lineRows(i)} : i \in 1..Len(step.lines)} : admissible(g, step, routes, kinds, c)}

cheaper(a, b) ==
    \/ a.rank < b.rank
    \/ a.rank = b.rank /\ (a.line < b.line \/ (a.line = b.line /\ a.position < b.position))

(* The sort: the n-th candidate has n - 1 before it. *)
inOrder(candidates) ==
    [n \in 1..Cardinality(candidates) |->
        CHOOSE c \in candidates : Cardinality({d \in candidates : cheaper(d, c)}) = n - 1]

(* One candidate becomes a route of the plan, unless the line is served at *)
(* another revision, or the step forbids failover and already has a        *)
(* deployment of the line.                                                 *)
take(g, step, index, routes, c) ==
    IF \E r \in Chosen(routes, c.route.ref.line) : r.ref # c.route.ref \/ (~step.failover /\ r.step = index) THEN routes
    ELSE Append(routes, [id |-> c.route.id, ref |-> c.route.ref, provider |-> c.route.provider, regions |-> c.route.regions,
                         ceiling |-> step.ceiling, byok |-> g.byok, step |-> index,
                         substitution |-> IF routes # <<>> /\ c.route.ref.line # routes[1].ref.line THEN "cross_model" ELSE "same_model"])

(* The routes once every candidate of a step had its turn. *)
takeAll(g, index, routes, candidates) ==
    LET taken[n \in 0..Len(candidates)] ==
            IF n = 0 THEN routes ELSE take(g, g.steps[index], index, taken[n - 1], candidates[n])
    IN taken[Len(candidates)]

allOnLine(routes, line) == \A i \in 1..Len(routes) : routes[i].ref.line = line

(* The executor's target: the model, unless a later step may leave it. *)
targetOf(g, routes) ==
    LET first == g.steps[1].target
    IN IF first.kind = "model" /\ allOnLine(routes, first.line)
       THEN [kind |-> "model", ref |-> [line |-> first.line, rev |-> first.rev]]
       ELSE [kind |-> "profile", ref |-> [line |-> 0, rev |-> 0]]

(* resolveGrant: the routes of every step in order, None without one. *)
resolveGrant(g, inv, pools, kinds, at, maxAge) ==
    LET stepRoutes(i, routes) == takeAll(g, i, routes, inOrder(candidatesOf(g, g.steps[i], routes, inv, pools, kinds, at, maxAge)))
        after[i \in 0..Len(g.steps)] == IF i = 0 THEN <<>> ELSE stepRoutes(i, after[i - 1])
        routes == after[Len(g.steps)]
    IN IF routes = <<>> THEN None ELSE [routes |-> routes, target |-> targetOf(g, routes)]

(* plan.stepOf. *)
stepOf(plan, id) == LET of == SelectSeq(plan.routes, LAMBDA r : r.id = id) IN IF of = <<>> THEN None ELSE of[1].step

(***************************************************************************)
(* What the executor requires                                              *)
(***************************************************************************)

(* validateRouteList. *)
validateRouteList(routes) ==
    /\ routes # <<>>
    /\ \A i, j \in 1..Len(routes) : i # j => routes[i].id # routes[j].id
    /\ \A i \in 1..Len(routes) : Pinned(routes[i].ref) /\ ~(routes[i].byok /\ routes[i].ceiling # "none")

(* Request.validateAuthorizedRoutes. *)
validateAuthorizedRoutes(plan) ==
    LET routes == plan.routes
        primary == routes[1]
        target == plan.target
    IN /\ validateRouteList(routes)
       /\ primary.substitution = "same_model"
       /\ target.kind = "model" =>
             /\ IF Pinned(target.ref) THEN primary.ref = target.ref ELSE primary.ref.line = target.ref.line
             /\ Pinned(target.ref) => \A i \in 1..Len(routes) : routes[i].substitution = "same_model"
       /\ \A i \in 1..Len(routes) : (routes[i].substitution = "same_model") = (routes[i].ref.line = primary.ref.line)

(* Executor.resolve's own rules for a model target. *)
keepsPrimaryRevision(plan) ==
    plan.target.kind = "model" =>
        \A i \in 1..Len(plan.routes) :
            plan.routes[i].substitution = "same_model" /\ plan.routes[i].ref = plan.routes[1].ref

(* Mutant: a deployment is its id. *)
resolveById(inv, routes, at, maxAge) ==
    IF \A i \in 1..Len(routes) : routes[i].id \in Deployments(inv)
    THEN [i \in 1..Len(routes) |-> Deployment(inv, routes[i].id)] ELSE <<>>

(* resolveAuthorizedRoutes: inventory is an identity oracle, and a route   *)
(* it disagrees about refuses the whole list.                              *)
resolveAuthorizedRoutes(inv, routes, at, maxAge) ==
    LET matches(r) == {c \in Candidates(inv, Resolve(inv, r.ref, at, maxAge)) : c.id = r.id}
        match(r) == CHOOSE c \in matches(r) : TRUE
        agrees(r) == matches(r) # {} /\ match(r).provider = r.provider /\ match(r).regions = r.regions
        oneRevision == \A i, j \in 1..Len(routes) : routes[i].ref.line = routes[j].ref.line => routes[i].ref = routes[j].ref
    IN IF oneRevision /\ \A i \in 1..Len(routes) : agrees(routes[i])
       THEN [i \in 1..Len(routes) |-> match(routes[i])] ELSE <<>>
=============================================================================

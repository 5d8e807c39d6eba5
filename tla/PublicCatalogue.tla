-------------------------- MODULE PublicCatalogue --------------------------
(***************************************************************************)
(* The public catalogue (internal/publicapi/catalogue.go): the file an     *)
(* operator declares, joined with what the inventory serves.  An entry of  *)
(* the file is the set of its field names, its line and the values the     *)
(* code reads; a price is an amount per so many units.                     *)
(***************************************************************************)
EXTENDS PublicRequests

CONSTANTS
    MinuteOf,   \* minuteOf: how much of a unit one minute is, 0 for none
    ServerVAD   \* the turn detection a session starts with

Required == {"modelId", "publisher", "displayName", "capabilities", "license", "provenance", "dataPolicy", "deprecation"}
ServedFields == {"schemaVersion", "currentRevision", "availableRevisions"}
RouteFields == {"servingProviders", "availabilityScope", "commercialPermission"}
PowerClasses == <<"instant", "medium", "high", "pro", "ultra">>

(* validateImageInput: a positive bound on a model that takes images. *)
validateImageInput(m) == m.imageInput = None \/ (m.imageInput > 0 /\ m.takesImages)

(* ParsePublicCatalogue: refused whole, None, or a declaration per line. *)
ValidDeclaration(m) ==
    /\ Required \subseteq m.fields /\ m.fields \cap (ServedFields \cup RouteFields) = {}
    /\ m.line > 0 /\ m.audience \in {None, "public", "platform_internal"}
    /\ validateImageInput(m) /\ (m.powerClass # None => Contains(PowerClasses, m.powerClass))

ParsePublicCatalogue(models) ==
    IF (\A i \in 1..Len(models) : ValidDeclaration(models[i])) /\ Distinct([i \in 1..Len(models) |-> models[i].line])
    THEN [line \in {m.line : m \in ToSet(models)} |->
             LET m == CHOOSE d \in ToSet(models) : d.line = line
             IN [m EXCEPT !.audience = IF @ = None THEN "public" ELSE @, !.fields = @ \ {"audience", "imageInput"}]]
    ELSE None

(* Document: every declared model, with its audience and image bound. *)
Document(catalogue) ==
    {[line |-> line, audience |-> catalogue[line].audience, imageInput |-> catalogue[line].imageInput] : line \in DOMAIN catalogue}

(* declaredModel.visible. *)
visible(m, audience) == m.audience = "public" \/ audience = "platform_internal"

(* PublicCatalogue.Audio: the declared limits of a speech model. *)
Audio(catalogue, line) == IF line \in DOMAIN catalogue THEN catalogue[line].audio ELSE None

(* ceilDecimal on the sum of unit prices, in the smallest amount. *)
ceilDecimal(num, denom) == (num + denom - 1) \div denom

(* The price of a minute that meters these units, None when one of them    *)
(* has no declared price.                                                  *)
minutePrice(prices, units) ==
    LET billed == {u \in units : MinuteOf[u] > 0}
        denom == FoldSet(LAMBDA u, n : n * prices[u].per, 1, billed)
        num == FoldSet(LAMBDA u, n : n + prices[u].amount * MinuteOf[u] * (denom \div prices[u].per), 0, billed)
    IN IF billed \subseteq DOMAIN prices THEN ceilDecimal(num, denom) ELSE None

(* declaredModel.pricePerMinute: of a session under server_vad, or of      *)
(* transcribed audio.                                                      *)
pricePerMinute(m, entry) ==
    IF m.prices = None THEN None
    ELSE IF entry.realtime # None /\ entry.realtime.parameters # None
    THEN LET vad == TurnDetectionOf(entry.realtime.parameters, ServerVAD)
         IN IF vad = <<>> THEN None ELSE minutePrice(m.prices, ToSet(vad[1].units))
    ELSE IF entry.audio # None /\ entry.audio.uploads # None THEN minutePrice(m.prices, {3})
    ELSE None

(* render: the declaration, with what Kaana serves in place of it. *)
render(m, item, revisions) ==
    [line |-> m.line, fields |-> m.fields \cup ServedFields, revision |-> item.ref.rev, revisions |-> revisions,
     realtime |-> IF item.entry.realtime = None THEN m.realtime ELSE [kinds |-> item.entry.realtime.kinds, transports |-> item.entry.realtime.transports],
     voices |-> IF item.entry.audio = None THEN None ELSE item.entry.audio.voices,
     price |-> pricePerMinute(m, item.entry)]

(* Server.served: declared, visible to the audience and served now, with   *)
(* the revisions that have a deployment.                                   *)
servedModels(catalogue, inv, audience) ==
    LET items == Catalogue(inv)
        revisions(line) == {r.ref.rev : r \in {row \in ToSet(inv.rows) : row.ref.line = line}}
    IN {render(catalogue[line], items[line], revisions(line)) : line \in {l \in DOMAIN items \cap DOMAIN catalogue : visible(catalogue[l], audience)}}

(* handleModel: one line, and of a pinned reference only a served revision. *)
modelNamed(models, target) == {m \in models : m.line = target.line /\ (target.rev = 0 \/ target.rev \in m.revisions)}

(* handlePowerLevels: the lines a level draws from, for the levels the     *)
(* caller may use.                                                         *)
levelClasses(level) ==
    CASE level = "auto" -> {"instant", "medium", "high"} [] level = "xhigh" -> {"high"} [] OTHER -> {level}

Levels == {"auto", "instant", "medium", "high", "xhigh", "pro", "ultra"}

powerLevels(catalogue, models, allowed) ==
    [level \in IF allowed = {} THEN Levels ELSE Levels \cap allowed |->
        {m.line : m \in {n \in models : catalogue[n.line].powerClass \in levelClasses(level)}}]
=============================================================================

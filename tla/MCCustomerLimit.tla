-------------------------- MODULE MCCustomerLimit --------------------------
(***************************************************************************)
(* What guards a customer's own credential, on small instances: the limits *)
(* its use is held to, the operations and validations that change and      *)
(* judge it, and the signed surfaces Oxy reaches both through.             *)
(***************************************************************************)
EXTENDS CustomerLimit, CustomerCredentials

CONSTANTS k1, ada, h1, s1, s2, o1, o2, o3, t1

VARIABLE part

\* A message as Oxy signs it.
Signed(surface, body) ==
  [surface |-> surface, key |-> k1, readableStamp |-> TRUE, drift |-> 0, form |-> "versioned", oversized |-> FALSE,
   query |-> FALSE, body |-> body, signature |-> Sign(DomainOf(surface), k1, 0, body)]

Request(op, action, handle, expected, secret) ==
  [op |-> op, action |-> action, connection |-> ada, handle |-> handle, expected |-> expected, secret |-> secret]
Control(surface, request) ==
  Signed(surface, [form |-> "exact", version |-> 1, action |-> request.action, valid |-> TRUE, request |-> request])
Task(id, handle, revision) ==
  Signed("validation", [form |-> "exact", valid |-> TRUE,
                        task |-> [id |-> id, connection |-> ada, handle |-> handle, revision |-> revision]])

Created == Request(o1, "create", "none", 0, s1)
Rotated == Request(o2, "rotate", h1, 1, s2)

MCOrders ==
  {Control("mutation", q) :
     q \in {Created, [Created EXCEPT !.secret = s2], Rotated, Request(o3, "revoke", h1, 2, "none")}}
  \cup {Control("outcome", Created), [Control("mutation", Created) EXCEPT !.drift = MaxSkew + 1]}

MCTasks == {Task(t1, h1, 1), Task(t1, h1, 2), [Task(t1, h1, 1) EXCEPT !.query = TRUE]}

Inference == Signed("inference", [form |-> "loose", version |-> 2, requestId |-> "r", decisions |-> FALSE, embedding |-> FALSE])
Descriptors(ids) == Signed("deployments", [form |-> "exact", ids |-> ids, batch |-> Cardinality(ids)])
Feed(limit) == Signed("attempts", [form |-> "exact", version |-> 1, limit |-> limit, cursorReadable |-> TRUE])
Plain(surface) == Signed(surface, [form |-> "exact", version |-> 1])

MCEdgeMessages ==
  {Inference, Descriptors({}), Descriptors({"d1"}), Descriptors({"d1", "d2"}), Feed(1), Feed(2), Feed(0),
   Plain("economics"), Plain("models"), Plain("health"),
   Signed("inference", [Inference.body EXCEPT !.embedding = TRUE]),
   Signed("inference", [Inference.body EXCEPT !.version = 3]),
   Signed("inference", [Inference.body EXCEPT !.decisions = TRUE]),
   [Feed(1) EXCEPT !.signature = Sign("inference", k1, 0, Feed(1).body)],
   [Inference EXCEPT !.drift = -MaxSkew - 1],
   [Descriptors({"d1"}) EXCEPT !.query = TRUE],
   [Descriptors({"d1"}) EXCEPT !.body.ids = {"d1", "d2"}]}

\* The first request was retried.
MCAttemptsOf == [q \in FeedRequests |-> IF q = 1 THEN 2 ELSE 1]

allVars == <<part, vars, credentialVars, edgeVars>>

MCInit ==
  /\ part \in {"limit", "credential", "surfaces", "feed"}
  /\ Init /\ CredentialInit /\ EdgeInit

MCNext ==
  \/ part = "limit" /\ Next /\ UNCHANGED <<part, credentialVars, edgeVars>>
  \/ part = "credential" /\ CredentialNext /\ UNCHANGED <<part, vars, edgeVars>>
  \/ part = "surfaces" /\ SurfaceNext /\ UNCHANGED <<part, vars, credentialVars>>
  \/ part = "feed" /\ FeedNext /\ UNCHANGED <<part, vars, credentialVars>>

\* Where no limit is held, nothing of Fairness is enabled.
MCSpec == MCInit /\ [][MCNext]_allVars /\ Fairness

=============================================================================

----------------------------- MODULE MCKeyPool -----------------------------
\* Instances of KeyPool for TLC.
EXTENDS KeyPool, TLC

\* The second key is the cheaper one: a grant on a row nobody classified.
MCFunding ==
  [k \in Keys |-> IF k = 1 THEN FundingFor("paid", "none") ELSE FundingFor("unstated", "trial")]

\* The first request may use every key, the others are for a deployment pinned
\* to the first.
MCPins == [w \in Walks |-> IF w = 1 THEN {0} ELSE {1}]

\* Refusals: a spent key and a refused one, the request's fault, a throttle.
MCFailures ==
  {[code |-> "provider_billing_refused", throttled |-> FALSE],
   [code |-> "invalid_request", throttled |-> FALSE],
   [code |-> "rate_limited", throttled |-> TRUE]}
MCNone     == {}

\* Whether a response declares zero remaining credits that return in a tick: a
\* write of it that takes as long is over when it lands.
MCShort     == {NoHeader, 1}
MCNoHeaders == {NoHeader}
=============================================================================

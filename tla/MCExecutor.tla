---------------------------- MODULE MCExecutor ----------------------------
(* Small route lists and upstream failures for the executor.               *)
EXTENDS Executor

D(d) == [deployment |-> d, scope |-> Platform]
B(d, s) == [deployment |-> d, scope |-> s]

\* One platform route; two; a platform route with a customer's behind it.
MCRouteLists == {<<D("d1")>>, <<D("d1"), D("d2")>>, <<D("d1"), B("d2", "s1")>>}

\* A throttle with and without a hint, an exhausted account and a request the
\* provider refuses.
MCErrors == {Failure("rate_limited", "rate_limit", FALSE, 0),
             Failure("rate_limited", "rate_limit", FALSE, 3),
             Failure("provider_credential_invalid", "authentication", FALSE, 0)}

\* Every class of failure the executor tells apart.
MCAllErrors == {Failure("provider_error", "server_error", FALSE, 0),
                Failure("provider_billing_refused", "quota", FALSE, 0),
                Failure("provider_overloaded", "overloaded", TRUE, 0),
                Failure("invalid_request", "invalid_request", FALSE, 0),
                Other("unclassified")}

MCTwoRoutes == {<<D("d1"), B("d2", "s1")>>, <<B("d2", "s1"), D("d1")>>}

\* A throttle and a revoked key, for requests that meet on one deployment and
\* one customer credential.
MCFewErrors == {Failure("rate_limited", "rate_limit", FALSE, 0),
                Failure("provider_credential_invalid", "authentication", FALSE, 0)}
MCShared    == {<<D("d1")>>, <<B("d1", "s1")>>}
=============================================================================

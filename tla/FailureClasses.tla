--------------------------- MODULE FailureClasses ---------------------------
(***************************************************************************)
(* internal/provider/errors.go and the retry policy of                     *)
(* internal/kaana/executor.go: what a failed attempt says about the        *)
(* deployment, the customer's credential and the request, and how long the *)
(* executor waits before it tries the same route again.                    *)
(***************************************************************************)
EXTENDS Naturals

CONSTANTS
  MaxRetriesPerRoute,   \* RetryPolicy.MaxRetriesPerRoute
  Backoff,              \* RetryPolicy.Backoff, in ticks
  Budget                \* RetryPolicy.Budget, in ticks

\* What NewExecutor refuses to run without.
ASSUME RetryPolicyAssumption ==
  /\ MaxRetriesPerRoute \in Nat
  /\ Backoff \in Nat
  /\ Budget \in Nat

Kinds == {"none", "upstream", "customer_upstream", "customer_credential",
          "unclassified", "client_gone", "canceled"}

Categories == {"rate_limit", "quota", "timeout", "overloaded", "server_error",
               "authentication", "invalid_request", "content_filter", "unknown"}

Failure(code, category, recurs, retryAfter) ==
  [kind |-> "upstream", code |-> code, category |-> category,
   recurs |-> recurs, retryAfter |-> retryAfter]

Other(kind) ==
  [kind |-> kind, code |-> "provider_error", category |-> "unknown",
   recurs |-> FALSE, retryAfter |-> 0]

NoError == Other("none")

-----------------------------------------------------------------------------
AttributableCategory(category) ==
  category \in {"rate_limit", "quota", "timeout", "overloaded", "server_error",
                "authentication"}

\* DeploymentAttributable: an ErrCustomerUpstream also unwraps to ErrUpstream
\* but is the customer's.
DeploymentAttributable(err) ==
  err.kind = "upstream" /\ AttributableCategory(err.category)

\* CustomerCredentialFailure: what an adapter makes of a failure of a key the
\* customer owns.
CustomerCredentialFailure(err, customerOwned) ==
  IF ~customerOwned \/ err.kind # "upstream" THEN err
  ELSE IF err.code \in {"provider_credential_invalid", "provider_billing_refused"}
       THEN [err EXCEPT !.kind = "customer_credential"]
  ELSE IF err.code = "rate_limited" THEN [err EXCEPT !.kind = "customer_upstream"]
  ELSE err

TransientFailure(err) ==
  /\ DeploymentAttributable(err)
  /\ ~err.recurs
  /\ err.category \notin {"quota", "authentication"}
  /\ \/ err.code \in {"rate_limited", "provider_overloaded", "provider_timeout"}
     \/ err.code = "provider_error" /\ err.category = "server_error"

AtLeast(a, b) == IF a < b THEN b ELSE a

\* RetryPolicy.next's waits: the doubled backoff with equal jitter (any value
\* from half of it up), or the provider's hint where that is longer.
Waits(err, retried) ==
  LET wait == Backoff * 2^retried
      half == wait \div 2
  IN  {AtLeast(w, err.retryAfter) : w \in IF half > 0 THEN half..wait ELSE {wait}}

\* Mutant of RetryWaits: one retry too many.
RetryWaitsOnceMore(err, retried, waited) ==
  IF retried > MaxRetriesPerRoute \/ ~TransientFailure(err) THEN {}
  ELSE {wait \in 0..Budget : wait \in Waits(err, retried) /\ waited + wait <= Budget}

\* RetryPolicy.next: the waits with which the same route is retried.
RetryWaits(err, retried, waited) ==
  IF retried >= MaxRetriesPerRoute \/ ~TransientFailure(err) THEN {}
  ELSE {wait \in 0..Budget : wait \in Waits(err, retried) /\ waited + wait <= Budget}

\* When some jitter leaves the failure without a retry.
MayGiveUp(err, retried, waited) ==
  \/ retried >= MaxRetriesPerRoute
  \/ ~TransientFailure(err)
  \/ \E wait \in Waits(err, retried) : waited + wait > Budget
=============================================================================

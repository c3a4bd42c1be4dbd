---------------------------- MODULE RetryPolicy ----------------------------
(***************************************************************************)
(* internal/policy/retry.go: whether a failed test may be retried.         *)
(*                                                                         *)
(* MaxAttempts and Backoff, the other two fields of RetryPolicyResult, are *)
(* not read by any guard of the program and are left out.                  *)
(***************************************************************************)
EXTENDS Naturals

FlakyInfra == "flaky_infra"

(* Mutant: the budget is one too large.                                    *)
EvaluateOffByOne(failureClass, attempt) ==
  [retry  |-> failureClass = FlakyInfra /\ attempt <= 1,
   reason |-> IF failureClass # FlakyInfra THEN "retry_not_allowed"
              ELSE IF attempt <= 1 THEN "retryable_failure"
              ELSE "retry_budget_exhausted"]

(* DefaultRetryPolicy.Evaluate: attempt is the number of failures before   *)
(* the one being evaluated.                                                *)
Evaluate(failureClass, attempt) ==
  [retry  |-> failureClass = FlakyInfra /\ attempt < 1,
   reason |-> IF failureClass # FlakyInfra THEN "retry_not_allowed"
              ELSE IF attempt < 1 THEN "retryable_failure"
              ELSE "retry_budget_exhausted"]

ReasonCodes ==
  {"retry_not_allowed", "retryable_failure", "retry_budget_exhausted"}
=============================================================================

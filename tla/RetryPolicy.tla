---------------------------- MODULE RetryPolicy ----------------------------
(***************************************************************************)
(* Bounded automatic retries (retry.py): every retryable failure belongs   *)
(* to a category, a category has a short list of delays, and a chain of    *)
(* retries is counted from its first task, whatever the categories of the  *)
(* failures along it.                                                      *)
(*                                                                         *)
(* An error message is abstracted to the category its code normalises to;  *)
(* "unclassified" stands for every message without a category.             *)
(***************************************************************************)
EXTENDS Naturals, Sequences

CONSTANT MaxAutoRetries   \* MAX_AUTO_RETRIES, 3 in the program

ASSUME MaxAutoRetriesAssumption == MaxAutoRetries \in Nat

\* Seconds before the first, second and third automatic retry.
RetryDelays ==
    [interrupted      |-> <<0, 300>>,
     provider_network |-> <<60, 300, 1800>>,
     download_place   |-> <<120, 600, 3600>>,
     identity         |-> <<60, 300, 1800>>,
     timeline_quality |-> <<600, 21600, 86400>>,
     no_candidate     |-> <<21600, 86400, 259200>>]

RetryCategories ==
    {"interrupted", "provider_network", "download_place", "identity",
     "timeline_quality", "no_candidate"}

Errors == RetryCategories \cup {"unclassified", "none"}

\* The status decides before the error message does.
ClassifyRetryError(status, error) ==
    IF status = "interrupted" THEN "interrupted" ELSE error

IsRetryable(status, error) == ClassifyRetryError(status, error) \in RetryCategories

\* (mutant) The attempt about to be made is not counted.
RetryAllowedOffByOne(status, error, completedAutoRetries) ==
    /\ IsRetryable(status, error)
    /\ completedAutoRetries <= MaxAutoRetries
    /\ completedAutoRetries + 1 <=
         Len(RetryDelays[ClassifyRetryError(status, error)])

\* retry_decision returns a decision, and not None.
RetryAllowed(status, error, completedAutoRetries) ==
    /\ IsRetryable(status, error)
    /\ completedAutoRetries + 1 <= MaxAutoRetries
    /\ completedAutoRetries + 1 <=
         Len(RetryDelays[ClassifyRetryError(status, error)])

RetryDelay(status, error, completedAutoRetries) ==
    RetryDelays[ClassifyRetryError(status, error)][completedAutoRetries + 1]
=============================================================================

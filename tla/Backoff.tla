------------------------------- MODULE Backoff -------------------------------
(***************************************************************************)
(* internal/reconcile/backoff.go: how long a failed release waits before   *)
(* it is reconciled again, in seconds.                                     *)
(***************************************************************************)
EXTENDS Naturals

BackoffBaseDelay == 5
BackoffMaxDelay == 300
StalledRecheckInterval == 1800

\* Mutated: the cap is forgotten.
ComputeBackoffMutant(failureCount) ==
    IF failureCount <= 1
    THEN BackoffBaseDelay
    ELSE BackoffBaseDelay * 2 ^ (failureCount - 1)

\* The code compares with the cap in floating point, before it converts: a power
\* that is too large for an integer is above the cap as well.
ComputeBackoff(failureCount) ==
    IF failureCount <= 1
    THEN BackoffBaseDelay
    ELSE LET delay == BackoffBaseDelay * 2 ^ (failureCount - 1)
         IN  IF delay > BackoffMaxDelay THEN BackoffMaxDelay ELSE delay

=============================================================================

----------------------------- MODULE TierRecovery -----------------------------
(***************************************************************************)
(* How one logical call of a tier recovers from failed attempts:           *)
(*   services/dispatcher/recovery.go  RunTierInvocationWithRecovery        *)
(*   services/dispatcher/tier.go      the candidates of a tier             *)
(*   services/engines/debate/engine.go  shouldSplitBundleOnRecovery        *)
(* The decisions are pure; the module that makes the calls applies them.   *)
(***************************************************************************)
EXTENDS Naturals

CONSTANTS
    Resources,              \* number of candidates of the tier, in order
    MaxTotalAttempts,       \* the recovery configuration of the tier ...
    MaxAttemptsPerResource,
    MaxCandidateFailovers,
    RetryOn, ContractRepairOn, SplitOn, CandidateFailoverOn  \* ... classes

\* ErrorClass, invoker/errors.go.
ErrorClass == {"canceled", "timeout", "idle_timeout", "contract_mismatch",
               "rate_limited", "network_transient", "resource_busy",
               "resource_unavailable", "auth", "config", "content_filtered",
               "output_missing", "output_invalid", "json_invalid", "unknown"}
ASSUME RecoveryAssumption ==
    /\ {Resources, MaxTotalAttempts, MaxAttemptsPerResource} \subseteq Nat \ {0}
    /\ MaxCandidateFailovers \in Nat
    /\ RetryOn \cup ContractRepairOn \cup SplitOn \cup CandidateFailoverOn
          \subseteq ErrorClass

Contract == {"contract_mismatch", "json_invalid"}
Available == {"resource_unavailable", "resource_busy", "rate_limited",
              "network_transient", "output_missing"}
Reducible == {"timeout", "idle_timeout", "output_missing", "contract_mismatch"}

\* The attempt that is being made: its number, its number on the resource,
\* the resource, and how often the resource was changed before it.
Try == [n : 1 .. MaxTotalAttempts, on : Nat \ {0}, res : 1 .. Resources,
        failovers : 0 .. MaxCandidateFailovers]
FirstTry(r) == [n |-> 1, on |-> 1, res |-> r, failovers |-> 0]
MutRetried(t) == [t EXCEPT !.on = @ + 1]
Retried(t)    == [t EXCEPT !.n = @ + 1, !.on = @ + 1]
FailedOver(t) == [n |-> t.n + 1, on |-> 1, res |-> t.res + 1,
                  failovers |-> t.failovers + 1]

SameResourceRetryAllowed(class) ==
    class \in RetryOn \/ (class \in Contract /\ class \in ContractRepairOn)
MaxAttemptsFor(class) ==
    IF class = "unknown" /\ MaxAttemptsPerResource > 2 THEN 2
    ELSE MaxAttemptsPerResource
CanRetry(t, class) == /\ SameResourceRetryAllowed(class)
                      /\ t.n < MaxTotalAttempts
                      /\ t.on < MaxAttemptsFor(class)

\* Candidates are tried in their order and never twice, so the next one is
\* the one after the selected one.
CanFailOver(t, class) == /\ class \in Available \cap CandidateFailoverOn
                         /\ t.n < MaxTotalAttempts
                         /\ t.res < Resources
                         /\ t.failovers < MaxCandidateFailovers

\* What follows a failed attempt, in the order of the code; divisible: the
\* caller can split its work, and it is more than one file.
Decision(t, class, divisible) ==
    LET splits == divisible /\ class \in SplitOn \cap Reducible
    IN  IF splits /\ class # "output_missing" THEN "split"
        ELSE IF class = "resource_unavailable" /\ CanFailOver(t, class) THEN "failover"
        ELSE IF CanRetry(t, class) THEN "retry"
        ELSE IF CanFailOver(t, class) THEN "failover"
        ELSE IF splits THEN "split"
        ELSE "fail"
Following(t, decision) == IF decision = "retry" THEN Retried(t) ELSE FailedOver(t)
=============================================================================

---------------------------- MODULE PolicyEngine ----------------------------
(***************************************************************************)
(* The policy gate (policy_rules.py, policy_engine.py): seven rules in a   *)
(* fixed order, of which the first that objects decides; when none does    *)
(* the action is approved.                                                 *)
(***************************************************************************)
EXTENDS Domain

CONSTANTS MaxAutomaticRetries,   \* settings.max_automatic_retries
          RepeatedFailureLimit,  \* settings.repeated_failure_limit
          HighValueThreshold,    \* settings.high_value_escalation_threshold
          AllowHumanEscalation,  \* settings.allow_human_escalation
          SupportedActions       \* what the configured executor can perform

\* config.py declares the limits as counts, a threshold and a switch.
ASSUME PolicyAssumption ==
  /\ MaxAutomaticRetries \in Nat
  /\ RepeatedFailureLimit \in Nat
  /\ HighValueThreshold \in Nat
  /\ AllowHumanEscalation \in BOOLEAN
  /\ SupportedActions \subseteq ActionType

-----------------------------------------------------------------------------
(* d is what a rule is shown: the action proposed, the payment's status,    *)
(* reason, attempts and amount, and how often recovering it has failed.     *)

Automatic(d) == d.action \notin TerminalActions

InvalidPaymentState(d) == Automatic(d) /\ d.status \notin Unsuccessful
UnsupportedAction(d)   == d.action \notin SupportedActions
RetryLimitReached(d)   == /\ d.action \in RetryActions
                          /\ d.attempts >= MaxAutomaticRetries
\* Mutant: the budget counts only gateway retries, so it adds nothing.
BudgetOnRetriesOnly(d) == d.action \in {"RETRY_NOW"} /\ d.attempts >= MaxAutomaticRetries
RecoveryBudgetExhausted(d) == Automatic(d) /\ d.attempts >= MaxAutomaticRetries
\* Mutant: the backstop is off by one.
RepeatedFailureOffByOne(d) == d.failures > RepeatedFailureLimit
RepeatedFailure(d)      == d.failures >= RepeatedFailureLimit
UnknownFailure(d)       == d.reason = "UNKNOWN"
\* Mutant: only immediate retries are held to the threshold.
HighValueNowOnly(d)     == d.action = "RETRY_NOW" /\ d.amount > HighValueThreshold
HighValueTransaction(d) == d.amount > HighValueThreshold

RuleOrder == <<"invalid_payment_state", "unsupported_action",
               "retry_limit_reached", "recovery_budget_exhausted",
               "repeated_failure_limit", "unknown_failure",
               "high_value_transaction">>

\* The last two rules hand over to a human when one is available.
EscalationRules == {"unknown_failure", "high_value_transaction"}

Objections(d) ==
  <<InvalidPaymentState(d), UnsupportedAction(d), RetryLimitReached(d),
    RecoveryBudgetExhausted(d), RepeatedFailure(d), UnknownFailure(d),
    HighValueTransaction(d)>>

Objecting(d) == LET objections == Objections(d) IN {i \in 1..7 : objections[i]}

Evaluate(d) ==
  LET objecting == Objecting(d)
      first == CHOOSE i \in objecting : \A j \in objecting : i <= j
      rule  == RuleOrder[first]
  IN  IF objecting = {}
        THEN [outcome |-> "APPROVED", rule |-> "default_approve"]
        ELSE [outcome |-> IF rule \in EscalationRules /\ AllowHumanEscalation
                            THEN "ESCALATED" ELSE "BLOCKED",
              rule    |-> rule]
=============================================================================

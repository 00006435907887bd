------------------------------- MODULE Domain -------------------------------
(***************************************************************************)
(* The vocabulary the recovery system is written in: payment statuses,     *)
(* failure reasons, actions and case states (app/core/enums.py), the       *)
(* lifecycle table and its transition check (state_machine.py), the        *)
(* candidate table (candidate_generator.py) and the simulator's scripted   *)
(* outcomes (payment_simulator.py).  Constant-level only: no variables.    *)
(***************************************************************************)
EXTENDS Integers, Sequences

PaymentStatus == {"CREATED", "PENDING", "SUCCEEDED", "FAILED", "ABANDONED"}
Successful    == {"SUCCEEDED"}
Unsuccessful  == {"FAILED", "ABANDONED"}

FailureReason == {"BANK_TIMEOUT", "INSUFFICIENT_FUNDS", "EXPIRED_CARD",
                  "NETWORK_ERROR", "CHECKOUT_ABANDONMENT",
                  "SUBSCRIPTION_FAILURE", "UNKNOWN"}

ActionType == {"RETRY_NOW", "RETRY_LATER", "SEND_PAYMENT_LINK",
               "CHANGE_PAYMENT_METHOD", "SEND_REMINDER", "ESCALATE_HUMAN",
               "STOP", "VOICE_CALL"}
RetryActions    == {"RETRY_NOW", "RETRY_LATER", "CHANGE_PAYMENT_METHOD"}
TerminalActions == {"ESCALATE_HUMAN", "STOP"}

CaseState == {"DETECTED", "DIAGNOSING", "DIAGNOSED", "EVALUATING",
              "DECISION_READY", "POLICY_CHECK", "APPROVED", "BLOCKED",
              "SCHEDULED", "EXECUTING", "VERIFYING", "RECOVERED", "FAILED",
              "ESCALATED", "STOPPED"}
TerminalStates == {"RECOVERED", "ESCALATED", "STOPPED"}

\* Mutant: a failed case is not taken up again.
RunnableForgetsFailed == {"DETECTED", "SCHEDULED"}
RunnableStates == {"DETECTED", "FAILED", "SCHEDULED"}

-----------------------------------------------------------------------------
(* The lifecycle table.  StateMachine.transition raises on an edge that is *)
(* not in it, and the exception undoes the whole request; a chain of calls *)
(* therefore commits exactly when every edge along it is in the table.     *)

Transitions ==
  [s \in CaseState |->
     CASE s \in {"DETECTED", "FAILED"} -> {"DIAGNOSING"}
       [] s = "DIAGNOSING"     -> {"DIAGNOSED"}
       [] s = "DIAGNOSED"      -> {"EVALUATING"}
       [] s = "EVALUATING"     -> {"DECISION_READY"}
       [] s = "DECISION_READY" -> {"POLICY_CHECK"}
       [] s = "POLICY_CHECK"   -> {"APPROVED", "BLOCKED", "ESCALATED"}
       [] s = "APPROVED"       -> {"EXECUTING", "SCHEDULED"}
       [] s = "SCHEDULED"      -> {"EXECUTING"}
       [] s = "EXECUTING"      -> {"VERIFYING"}
       [] s = "VERIFYING"      -> {"RECOVERED", "FAILED"}
       [] s = "BLOCKED"        -> {"STOPPED"}
       [] s \in TerminalStates -> {}]

Legal(from, via, to) ==
  LET path == <<from>> \o via \o <<to>>
  IN  \A i \in 1..(Len(path) - 1) : path[i + 1] \in Transitions[path[i]]

\* The bookkeeping states of a full cycle, up to the policy gate.
ToPolicyGate == <<"DIAGNOSING", "DIAGNOSED", "EVALUATING", "DECISION_READY",
                  "POLICY_CHECK">>

-----------------------------------------------------------------------------
CandidatesByReason ==
  [r \in FailureReason |->
     CASE r = "BANK_TIMEOUT" ->
            {"RETRY_NOW", "RETRY_LATER", "SEND_PAYMENT_LINK"}
       [] r = "EXPIRED_CARD" ->
            {"CHANGE_PAYMENT_METHOD", "SEND_PAYMENT_LINK", "ESCALATE_HUMAN"}
       [] r = "INSUFFICIENT_FUNDS" ->
            {"RETRY_LATER", "SEND_PAYMENT_LINK", "SEND_REMINDER"}
       [] r = "CHECKOUT_ABANDONMENT" -> {"SEND_REMINDER", "SEND_PAYMENT_LINK"}
       [] r = "NETWORK_ERROR" -> {"RETRY_NOW", "RETRY_LATER"}
       [] r = "SUBSCRIPTION_FAILURE" ->
            {"RETRY_LATER", "SEND_REMINDER", "SEND_PAYMENT_LINK"}
       [] r = "UNKNOWN" -> {"ESCALATE_HUMAN", "STOP"}]

\* Actions already verified as failed are dropped, unless nothing would be left.
Candidates(reason, failedTypes) ==
  LET base   == CandidatesByReason[reason]
      viable == {t \in base : t \in TerminalActions \/ t \notin failedTypes}
  IN  IF viable # {} THEN viable ELSE base

\* What the simulated provider may answer: scripted pairs are certain, every
\* other pair is a seeded draw.
Draws(reason, type) ==
  CASE <<reason, type>> \in {<<"BANK_TIMEOUT", "RETRY_LATER">>,
                             <<"EXPIRED_CARD", "CHANGE_PAYMENT_METHOD">>} -> {TRUE}
    [] <<reason, type>> \in {"EXPIRED_CARD", "INSUFFICIENT_FUNDS"}
                              \X {"RETRY_NOW", "RETRY_LATER"} -> {FALSE}
    [] OTHER -> BOOLEAN
=============================================================================

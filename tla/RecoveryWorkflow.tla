-------------------------- MODULE RecoveryWorkflow --------------------------
(***************************************************************************)
(* The recovery core: payments that fail, the cases opened for them, and   *)
(* RevenueRecoveryWorkflow.run, which takes one case through decision,     *)
(* policy gate, execution and verification.  The variables are the         *)
(* committed database tables and the virtual clock; every handler is one   *)
(* transaction, so every handler is one action, and a handler that raises  *)
(* leaves nothing behind.                                                  *)
(*                                                                         *)
(* The predictor that ranks candidates by expected value is abstracted: it *)
(* may prefer any candidate.                                               *)
(***************************************************************************)
EXTENDS PolicyEngine, FiniteSets

CONSTANTS PaymentId, CaseId, ActionId, None,
          Delay,        \* settings.retry_later_delay_minutes, in clock units
          Amounts,      \* amounts a payment may be created with, all above nought
          Reasons,      \* failure reasons a caller may report
          AttemptCap,   \* bound: no outside failure beyond this many attempts
          TimeCap       \* bound: the clock stops here

ActionStatus == {"APPROVED", "BLOCKED", "ESCALATED", "SCHEDULED", "EXECUTED",
                 "FAILED"}
OutcomeKind  == {"RECOVERED", "UNRECOVERED"}

ASSUME WorkflowAssumption ==
  /\ Delay \in Nat \ {0} /\ AttemptCap \in Nat /\ TimeCap \in Nat
  /\ Amounts \subseteq Nat \ {0}
  /\ Reasons \subseteq FailureReason
  /\ None \notin PaymentId \cup CaseId \cup PaymentStatus \cup FailureReason
                 \cup ActionType \cup CaseState \cup Nat \cup ActionStatus
                 \cup OutcomeKind

VARIABLES payments,       \* table payments (attempts is attempt_count)
          cases,          \* table recovery_cases
          actions,        \* tables recovery_actions and recovery_outcomes
          clock,          \* VirtualClock.now()
          revenueEvents   \* REVENUE_RECOVERED rows in each case's audit trail

vars == <<payments, cases, actions, clock, revenueEvents>>

PaymentRow == [status : PaymentStatus \cup {None},
               reason : FailureReason \cup {None},
               amount : Nat, attempts : Nat]
CaseRow    == [state : CaseState \cup {None}, payment : PaymentId \cup {None}]
ActionRow  == [case : CaseId \cup {None}, payment : PaymentId \cup {None},
               type : ActionType \cup {None}, status : ActionStatus \cup {None},
               due : Nat \cup {None},          \* scheduled_at
               executedAt : Nat \cup {None},   \* executed_at
               outcome : OutcomeKind \cup {None}, credit : Nat]

AbsentPayment == [status |-> None, reason |-> None, amount |-> 0, attempts |-> 0]
AbsentCase    == [state |-> None, payment |-> None]
AbsentAction  == [case |-> None, payment |-> None, type |-> None,
                  status |-> None, due |-> None, executedAt |-> None,
                  outcome |-> None, credit |-> 0]

Init ==
  /\ payments = [p \in PaymentId |-> AbsentPayment]
  /\ cases = [c \in CaseId |-> AbsentCase]
  /\ actions = [a \in ActionId |-> AbsentAction]
  /\ clock = 0
  /\ revenueEvents = [c \in CaseId |-> 0]

-----------------------------------------------------------------------------
(* Reads shared by the handlers.                                           *)

OpenCases(p) == {c \in CaseId : /\ cases[c].payment = p
                                /\ cases[c].state \notin TerminalStates}
ActionsOf(p) == {a \in ActionId : actions[a].payment = p}
Unrecovered(p) == {a \in ActionsOf(p) : actions[a].outcome = "UNRECOVERED"}
FailedTypes(p) == {actions[a].type : a \in Unrecovered(p)}
Reason(p) == IF payments[p].reason = None THEN "UNKNOWN" ELSE payments[p].reason

\* Automatic attempts already carried out on a payment.
Charges(p) == {a \in ActionsOf(p) : actions[a].executedAt # None}

\* Scheduled but not executed: what a SCHEDULED case is waiting for.
Pending(c) == {a \in ActionId : /\ actions[a].case = c
                                /\ actions[a].due # None
                                /\ actions[a].executedAt = None}

\* What the policy engine sees of the context when it judges type t for case c.
InputFor(c, t) ==
  LET p == cases[c].payment
  IN  [action |-> t, status |-> payments[p].status, reason |-> Reason(p),
       attempts |-> payments[p].attempts, amount |-> payments[p].amount,
       failures |-> Cardinality(Unrecovered(p))]

-----------------------------------------------------------------------------
(* Payments: creation, outside failure, and risk detection.                *)

Created(s, r, amt) ==
  [status |-> s, amount |-> amt,
   reason |-> IF s \in Unsuccessful THEN r ELSE None,
   attempts |-> IF s \in Unsuccessful \cup Successful THEN 1 ELSE 0]

CreatePayment(p, s, r, amt) ==
  /\ payments[p] = AbsentPayment
  /\ payments' = [payments EXCEPT ![p] = Created(s, r, amt)]
  /\ UNCHANGED <<cases, actions, clock, revenueEvents>>

\* PaymentService.fail_payment: the status is overwritten whatever it was.
RecordFailure(p, r) ==
  /\ payments[p] # AbsentPayment
  /\ payments[p].attempts < AttemptCap
  /\ payments' = [payments EXCEPT ![p] =
        [@ EXCEPT !.status = "FAILED", !.reason = r,
                  !.attempts = payments[p].attempts + 1]]

\* Mutant: detection forgets to look for an open case.
OpenCaseBlindly(p, c) ==
  /\ cases[c] = AbsentCase
  /\ cases' = [cases EXCEPT ![c] = [state |-> "DETECTED", payment |-> p]]

\* RiskDetector.detect_and_open_case on an unsuccessful payment.
OpenCase(p, c) ==
  /\ OpenCases(p) = {}
  /\ cases[c] = AbsentCase
  /\ cases' = [cases EXCEPT ![c] = [state |-> "DETECTED", payment |-> p]]

ReuseOpenCase(p) == OpenCases(p) # {} /\ UNCHANGED cases

FailOpens(p, r, c) ==
  /\ RecordFailure(p, r)
  /\ OpenCase(p, c)
  /\ UNCHANGED <<actions, clock, revenueEvents>>

FailReuses(p, r) ==
  /\ RecordFailure(p, r)
  /\ ReuseOpenCase(p)
  /\ UNCHANGED <<actions, clock, revenueEvents>>

\* The handler commits the failure before it opens the case: a crash in
\* between leaves a failed payment that nothing looks at again.
FailInterrupted(p, r) ==
  /\ RecordFailure(p, r)
  /\ UNCHANGED <<cases, actions, clock, revenueEvents>>

-----------------------------------------------------------------------------
(* RevenueRecoveryWorkflow.run.                                            *)

Advance(c, via, to) ==
  /\ Legal(cases[c].state, via, to)
  /\ cases' = [cases EXCEPT ![c] = [@ EXCEPT !.state = to]]

\* A full cycle up to the verdict: the selected type and the row it is
\* proposed under.
Selects(c, a, t) ==
  /\ cases[c].state \in RunnableStates \ {"SCHEDULED"}
  /\ actions[a] = AbsentAction
  /\ t \in Candidates(Reason(cases[c].payment), FailedTypes(cases[c].payment))

Verdict(c, t) == Evaluate(InputFor(c, t)).outcome

Proposal(c, t) ==
  [AbsentAction EXCEPT !.case = c, !.payment = cases[c].payment, !.type = t,
                       !.status = Verdict(c, t)]

\* Where the verdict sends the case.
Disposition(c, t) ==
  CASE Verdict(c, t) = "BLOCKED" -> "stop"
    [] Verdict(c, t) = "ESCALATED" -> "escalate"
    [] Verdict(c, t) = "APPROVED" /\ t = "STOP" -> "stop"
    [] Verdict(c, t) = "APPROVED" /\ t = "ESCALATE_HUMAN" -> "escalate"
    [] Verdict(c, t) = "APPROVED" /\ t = "RETRY_LATER" -> "schedule"
    [] OTHER -> "execute"

\* Mutant: a blocked case is left where the gate put it.
RunLeavesBlocked(c, a, t) ==
  /\ Selects(c, a, t)
  /\ Disposition(c, t) = "stop"
  /\ Advance(c, ToPolicyGate, "BLOCKED")
  /\ actions' = [actions EXCEPT ![a] = Proposal(c, t)]
  /\ UNCHANGED <<payments, clock, revenueEvents>>

RunStops(c, a, t) ==
  /\ Selects(c, a, t)
  /\ Disposition(c, t) = "stop"
  /\ Advance(c, ToPolicyGate \o <<"BLOCKED">>, "STOPPED")
  /\ actions' = [actions EXCEPT ![a] = Proposal(c, t)]
  /\ UNCHANGED <<payments, clock, revenueEvents>>

RunEscalates(c, a, t) ==
  /\ Selects(c, a, t)
  /\ Disposition(c, t) = "escalate"
  /\ Advance(c, ToPolicyGate, "ESCALATED")
  /\ actions' = [actions EXCEPT ![a] = Proposal(c, t)]
  /\ UNCHANGED <<payments, clock, revenueEvents>>

Scheduled(row) == [row EXCEPT !.status = "SCHEDULED", !.due = clock + Delay]

RunSchedules(c, a, t) ==
  /\ Selects(c, a, t)
  /\ Disposition(c, t) = "schedule"
  /\ Advance(c, ToPolicyGate \o <<"APPROVED">>, "SCHEDULED")
  /\ actions' = [actions EXCEPT ![a] = Scheduled(Proposal(c, t))]
  /\ UNCHANGED <<payments, clock, revenueEvents>>

\* OutcomeVerifier.verify compares the payment before and after the attempt.
Recovered(p, success) == success /\ payments[p].status \notin Successful

\* PaymentService.record_recovery_attempt.
SettlePayment(p, success) ==
  payments' = [payments EXCEPT ![p] =
     [@ EXCEPT !.status = IF success THEN "SUCCEEDED" ELSE "FAILED",
               !.reason = IF success THEN None ELSE Reason(p),
               !.attempts = payments[p].attempts + 1]]

\* Mutant: the execution time is not recorded.
VerifiedUnstamped(row, success, recovered) ==
  [row EXCEPT
     !.status = IF success THEN "EXECUTED" ELSE "FAILED",
     !.outcome = IF recovered THEN "RECOVERED" ELSE "UNRECOVERED",
     !.credit = IF recovered THEN payments[row.payment].amount ELSE 0]

\* The action's row once it has been executed and its outcome recorded.
Verified(row, success, recovered) ==
  [row EXCEPT
     !.status = IF success THEN "EXECUTED" ELSE "FAILED",
     !.executedAt = clock,
     !.outcome = IF recovered THEN "RECOVERED" ELSE "UNRECOVERED",
     !.credit = IF recovered THEN payments[row.payment].amount ELSE 0]

\* Mutants: every attempt is reported as revenue; no recovery is.
ReportAttempts(c, recovered) == revenueEvents' = [revenueEvents EXCEPT ![c] = @ + 1]
ReportNothing(c, recovered) == UNCHANGED revenueEvents

ReportRevenue(c, recovered) ==
  revenueEvents' = IF recovered THEN [revenueEvents EXCEPT ![c] = @ + 1]
                                ELSE revenueEvents

\* _execute_and_verify: the simulated provider answers; the payment, the action
\* and the case change with the answer.
Execute(c, a, row, via, success) ==
  LET recovered == Recovered(row.payment, success)
  IN  /\ success \in Draws(Reason(row.payment), row.type)
      /\ SettlePayment(row.payment, success)
      /\ actions' = [actions EXCEPT ![a] = Verified(row, success, recovered)]
      /\ Advance(c, via \o <<"EXECUTING", "VERIFYING">>,
                 IF recovered THEN "RECOVERED" ELSE "FAILED")
      /\ ReportRevenue(c, recovered)
      /\ UNCHANGED clock

RunExecutes(c, a, t, success) ==
  /\ Selects(c, a, t)
  /\ Disposition(c, t) = "execute"
  /\ Execute(c, a, Proposal(c, t), ToPolicyGate \o <<"APPROVED">>, success)

\* Mutant: the due time is not checked.
ResumeAnytime(c, a, success) ==
  /\ cases[c].state = "SCHEDULED"
  /\ a \in Pending(c)
  /\ Execute(c, a, actions[a], <<>>, success)

\* _resume_scheduled once the pending action is due.  Before that the run
\* reports the wait and changes nothing.  There is no second policy check.
Resume(c, a, success) ==
  /\ cases[c].state = "SCHEDULED"
  /\ a \in Pending(c)
  /\ \A b \in Pending(c) : actions[a].due <= actions[b].due
  /\ actions[a].due <= clock
  /\ Execute(c, a, actions[a], <<>>, success)

Run(c) ==
  \E a \in ActionId :
    \/ \E t \in ActionType : \/ RunStops(c, a, t)
                             \/ RunEscalates(c, a, t)
                             \/ RunSchedules(c, a, t)
                             \/ \E success \in BOOLEAN : RunExecutes(c, a, t, success)
    \/ \E success \in BOOLEAN : Resume(c, a, success)

AdvanceClock(d) ==
  /\ clock + d <= TimeCap
  /\ clock' = clock + d
  /\ UNCHANGED <<payments, cases, actions, revenueEvents>>

-----------------------------------------------------------------------------
Pay(p) ==
  \/ \E s \in PaymentStatus, r \in Reasons \cup {None}, amt \in Amounts :
       CreatePayment(p, s, r, amt)
  \/ \E r \in Reasons : \/ FailReuses(p, r)
                        \/ FailInterrupted(p, r)
                        \/ \E c \in CaseId : FailOpens(p, r, c)

Tick == \E d \in 1..Delay : AdvanceClock(d)

Next ==
  \/ \E p \in PaymentId : Pay(p)
  \/ \E c \in CaseId : Run(c)
  \/ Tick

Spec == Init /\ [][Next]_vars

\* A worker, the autopilot or an operator keeps running open cases, and whoever
\* waits for a scheduled retry moves the clock.  Nothing is assumed of payments.
FairSpec == Spec /\ (\A c \in CaseId : WF_vars(Run(c))) /\ WF_vars(Tick)

-----------------------------------------------------------------------------
(* Properties.                                                             *)

\* Every table holds rows of its type, and a case at rest is either runnable or
\* finished: no commit leaves one in a state that run() refuses.  Foreign keys
\* hold, and an action is about its case's payment.
TypeOK ==
  /\ payments \in [PaymentId -> PaymentRow]
  /\ cases \in [CaseId -> CaseRow]
  /\ \A c \in CaseId :
        \/ cases[c] = AbsentCase
        \/ /\ cases[c].state \in RunnableStates \cup TerminalStates
           /\ cases[c].payment \in PaymentId
           /\ payments[cases[c].payment] # AbsentPayment
  /\ actions \in [ActionId -> ActionRow]
  /\ \A a \in ActionId :
        \/ actions[a] = AbsentAction
        \/ /\ actions[a].case \in CaseId
           /\ actions[a].payment = cases[actions[a].case].payment
           /\ actions[a].payment \in PaymentId
           /\ None \notin {actions[a].type, actions[a].status}
  /\ clock \in Nat
  /\ revenueEvents \in [CaseId -> Nat]

\* A SCHEDULED case waits for exactly one approved delayed retry, due within one
\* delay of now; no other case has anything pending.  The branch of
\* _resume_scheduled that finds no pending action is therefore dead, and no
\* approved retry is ever left behind by a case that moved on.
ScheduleConsistent ==
  \A c \in CaseId :
    IF cases[c].state = "SCHEDULED"
      THEN \E a \in ActionId : /\ Pending(c) = {a}
                               /\ actions[a].type = "RETRY_LATER"
                               /\ actions[a].status = "SCHEDULED"
                               /\ actions[a].due <= clock + Delay
      ELSE Pending(c) = {}

\* A delayed retry is carried out only once its time has come (_resume_scheduled
\* and VirtualClock.is_due).
NeverEarly ==
  \A a \in ActionId :
    actions[a].executedAt # None =>
      /\ actions[a].executedAt <= clock
      /\ actions[a].due # None => actions[a].due <= actions[a].executedAt

\* Concurrent detection and re-failure of one payment never leave it with two
\* open cases (find_open_case, and the partial unique index behind it).
OneOpenCase ==
  \A p \in PaymentId : \A c, d \in OpenCases(p) : c = d

\* Over all the cases a payment ever has, the system attempts it fewer times
\* than max_automatic_retries, even though a scheduled retry is not gated again
\* when it runs and outside failures use up the same count.
ChargeBudget ==
  \A p \in PaymentId :
    Charges(p) # {} => Cardinality(Charges(p)) < MaxAutomaticRetries

\* Over all its cases a payment has at most repeated_failure_limit outcomes
\* verified as unsuccessful (RepeatedFailureRule, "the backstop that guarantees
\* termination").
FailuresBounded ==
  \A p \in PaymentId : Cardinality(Unrecovered(p)) <= RepeatedFailureLimit

\* A case is RECOVERED exactly when one of its actions was verified as having
\* captured the payment; that outcome carries the payment's full amount, and its
\* audit trail reports recovered revenue exactly once.
RevenueVerified ==
  \A c \in CaseId :
    LET won == {a \in ActionId : /\ actions[a].case = c
                                 /\ actions[a].outcome = "RECOVERED"}
    IN  /\ (cases[c].state = "RECOVERED") <=> (won # {})
        /\ Cardinality(won) = revenueEvents[c]
        /\ revenueEvents[c] <= 1
        /\ \A a \in won : actions[a].credit = payments[cases[c].payment].amount

\* No payment above the escalation threshold is ever attempted automatically,
\* at once or later (HighValueTransactionRule).
HighValueNeverCharged ==
  \A p \in PaymentId :
    Charges(p) # {} => payments[p].amount <= HighValueThreshold

\* The case waits for a moment that the bounded clock never shows.
BeyondClock(c) == /\ cases[c].state = "SCHEDULED"
                  /\ \E a \in Pending(c) : actions[a].due > TimeCap

\* Every case that is opened reaches a terminal state: failures are bounded, a
\* scheduled retry becomes due, and no cycle repeats for ever.
EveryCaseSettles ==
  \A c \in CaseId :
    cases[c] # AbsentCase ~> (cases[c].state \in TerminalStates \/ BeyondClock(c))

-----------------------------------------------------------------------------
(* The workflow implements the promise.                                    *)

PhaseOf(c) ==
  CASE cases[c].state = None -> "absent"
    [] cases[c].state = "SCHEDULED" -> "deferred"
    [] cases[c].state = "RECOVERED" -> "recovered"
    [] cases[c].state = "ESCALATED" -> "handed over"
    [] cases[c].state = "STOPPED" -> "given up"
    [] OTHER -> "open"

Promise == INSTANCE RecoveryPromise WITH
  Nobody   <- None,
  Budget   <- MaxAutomaticRetries,
  phase    <- [c \in CaseId |-> PhaseOf(c)],
  owner    <- [c \in CaseId |-> cases[c].payment],
  charges  <- [p \in PaymentId |-> Cardinality(Charges(p))],
  credited <- revenueEvents

\* Every run of the workflow, seen through the states its cases are in, is one
\* the promise allows: finished cases stay finished, credit is given once and
\* only by the step that captures, attempts stay within the budget.
KeepsPromise == Promise!PromiseSpec
=============================================================================

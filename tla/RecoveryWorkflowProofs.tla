----------------------- MODULE RecoveryWorkflowProofs -----------------------
(***************************************************************************)
(* Theorems about the recovery core, for any payments, cases and actions   *)
(* and any configuration of the policy.                                    *)
(***************************************************************************)
EXTENDS RecoveryWorkflow, TLAPS, FiniteSetTheorems, WellFoundedInduction

-----------------------------------------------------------------------------
(* Facts about numbers and about the vocabulary.                           *)

\* Every non-empty set of naturals has a least member.
LEMMA LeastNatural ==
  ASSUME NEW S \in SUBSET Nat, S # {}
  PROVE  \E n \in S : \A m \in S : n <= m
<1> DEFINE less == {ss \in Nat \X Nat : ss[1] < ss[2]}
<1>1. IsWellFoundedOn(less, Nat)
  BY NatLessThanWellFounded DEF OpToRel
<1> HIDE DEF less
<1>2. PICK n \in S : \A m \in S : <<m, n>> \notin less
  BY <1>1, WFMin
<1>3. \A m \in S : ~(m < n)
  BY <1>2 DEF less
<1> QED
  BY <1>3

\* A set that has 0 and each successor of its members has every natural.
LEMMA Induction ==
  ASSUME NEW S, 0 \in S, \A n \in Nat : n \in S => n + 1 \in S
  PROVE  Nat \subseteq S
<1> SUFFICES ASSUME Nat \ S # {} PROVE FALSE
  OBVIOUS
<1>1. PICK n \in Nat \ S : \A m \in Nat \ S : n <= m
  BY LeastNatural
<1>2. n # 0 /\ n - 1 \in Nat /\ n - 1 \notin Nat \ S
  BY <1>1
<1> QED
  BY <1>1, <1>2

LEMMA ActionTypesFinite == IsFiniteSet(ActionType)
<1> DEFINE f == [i \in 1..8 |->
                   CASE i = 1 -> "RETRY_NOW" [] i = 2 -> "RETRY_LATER"
                     [] i = 3 -> "SEND_PAYMENT_LINK" [] i = 4 -> "CHANGE_PAYMENT_METHOD"
                     [] i = 5 -> "SEND_REMINDER" [] i = 6 -> "ESCALATE_HUMAN"
                     [] i = 7 -> "STOP" [] i = 8 -> "VOICE_CALL"]
<1>1. f \in Surjection(1..8, ActionType)
  BY DEF Surjection, ActionType
<1> HIDE DEF f
<1>2. IsFiniteSet(1..8)
  <2>1. 1 \in Int /\ 8 \in Int
    OBVIOUS
  <2> QED
    BY <2>1, FS_Interval, Zenon
<1> QED
  BY <1>1, <1>2, FS_Surjection

LEMMA ReasonsFinite == IsFiniteSet(FailureReason)
<1> DEFINE f == [i \in 1..7 |->
                   CASE i = 1 -> "BANK_TIMEOUT" [] i = 2 -> "INSUFFICIENT_FUNDS"
                     [] i = 3 -> "EXPIRED_CARD" [] i = 4 -> "NETWORK_ERROR"
                     [] i = 5 -> "CHECKOUT_ABANDONMENT" [] i = 6 -> "SUBSCRIPTION_FAILURE"
                     [] i = 7 -> "UNKNOWN"]
<1>1. f \in Surjection(1..7, FailureReason)
  BY DEF Surjection, FailureReason
<1> HIDE DEF f
<1>2. IsFiniteSet(1..7)
  <2>1. 1 \in Int /\ 7 \in Int
    OBVIOUS
  <2> QED
    BY <2>1, FS_Interval, Zenon
<1> QED
  BY <1>1, <1>2, FS_Surjection

-----------------------------------------------------------------------------
(* What an approval means, whatever the limits, the threshold and the      *)
(* executor are configured to be.                                          *)

Outcomes == {"APPROVED", "BLOCKED", "ESCALATED"}

LEMMA OutcomeIsOne == \A d : Evaluate(d).outcome \in Outcomes
  BY DEF Evaluate, Outcomes

LEMMA ApprovedIffSilent ==
  \A d : Evaluate(d).outcome = "APPROVED" <=> Objecting(d) = {}
  BY DEF Evaluate

\* An action the gate approves is objected to by none of the seven rules: the
\* order in which PolicyEngine.evaluate asks them never hides one.
THEOREM ApprovalIsUnanimous ==
  ASSUME NEW d, Evaluate(d).outcome = "APPROVED"
  PROVE  /\ ~InvalidPaymentState(d)
         /\ ~UnsupportedAction(d)
         /\ ~RetryLimitReached(d)
         /\ ~RecoveryBudgetExhausted(d)
         /\ ~RepeatedFailure(d)
         /\ ~UnknownFailure(d)
         /\ ~HighValueTransaction(d)
<1>1. \A i \in 1..7 : ~Objections(d)[i]
  BY ApprovedIffSilent DEF Objecting
<1> DEFINE objections == Objections(d)
<1>2. ~objections[1] /\ ~objections[2] /\ ~objections[3] /\ ~objections[4]
      /\ ~objections[5] /\ ~objections[6] /\ ~objections[7]
  BY <1>1
<1> QED
  BY <1>2 DEF Objections

\* An automatic action the gate approves is for an unsuccessful payment whose
\* attempts, outside failures included, are fewer than max_automatic_retries, and
\* whose amount is not above the escalation threshold.
THEOREM ApprovedAutomatic ==
  ASSUME NEW d, d.attempts \in Nat, d.amount \in Nat,
         Evaluate(d).outcome = "APPROVED", Automatic(d)
  PROVE  /\ d.status \in Unsuccessful
         /\ d.attempts < MaxAutomaticRetries
         /\ d.amount <= HighValueThreshold
<1>1. ~InvalidPaymentState(d) /\ ~RecoveryBudgetExhausted(d)
      /\ ~HighValueTransaction(d)
  BY ApprovalIsUnanimous
<1> QED
  BY <1>1, PolicyAssumption
  DEF InvalidPaymentState, RecoveryBudgetExhausted, HighValueTransaction

\* The first objection decides: when the escalation rules are the only ones that
\* object and people are available, the case is handed over; when any earlier
\* rule objects, the action is blocked, even if a person would have been asked.
THEOREM EarlierRulesBlock ==
  ASSUME NEW d, InvalidPaymentState(d) \/ UnsupportedAction(d)
                  \/ RetryLimitReached(d) \/ RecoveryBudgetExhausted(d)
                  \/ RepeatedFailure(d)
  PROVE  Evaluate(d).outcome = "BLOCKED"
<1> DEFINE first == CHOOSE i \in Objecting(d) : \A j \in Objecting(d) : i <= j
<1>1. PICK k \in 1..5 : Objections(d)[k]
  <2>1. \E k \in {1, 2, 3, 4, 5} : Objections(d)[k]
    BY DEF Objections
  <2> QED
    BY <2>1
<1>2. k \in Objecting(d) /\ Objecting(d) \subseteq 1..7
  BY <1>1 DEF Objecting
<1>3. \E i \in Objecting(d) : \A j \in Objecting(d) : i <= j
  <2>1. ASSUME NEW i \in 1..7, i \in Objecting(d),
               \A j \in 1..(i - 1) : j \notin Objecting(d)
        PROVE  \A j \in Objecting(d) : i <= j
    BY <1>2, <2>1
  <2>2. \E i \in {1, 2, 3, 4, 5, 6, 7} :
           i \in Objecting(d) /\ \A j \in 1..(i - 1) : j \notin Objecting(d)
    BY <1>2
  <2> QED
    BY <2>1, <2>2
<1>4. first \in Objecting(d) /\ first <= k
  BY <1>2, <1>3
<1>5. first \in {1, 2, 3, 4, 5}
  BY <1>1, <1>2, <1>4
<1>6. RuleOrder[first] \notin EscalationRules
  <2>1. \A i \in {1, 2, 3, 4, 5} : RuleOrder[i] \notin EscalationRules
    BY DEF RuleOrder, EscalationRules
  <2> QED
    BY <1>5, <2>1
<1> QED
  BY <1>2, <1>6 DEF Evaluate

-----------------------------------------------------------------------------
(* What the rows the handlers write contain.                               *)

LEMMA ProposalRow ==
  ASSUME TypeOK, NEW c \in CaseId, NEW t \in ActionType,
         cases[c].payment \in PaymentId
  PROVE  /\ Proposal(c, t) \in ActionRow
         /\ Proposal(c, t).case = c
         /\ Proposal(c, t).payment = cases[c].payment
         /\ Proposal(c, t).type = t
         /\ Proposal(c, t).status = Verdict(c, t)
         /\ Proposal(c, t).status \in {"APPROVED", "BLOCKED", "ESCALATED"}
         /\ Proposal(c, t).due = None
         /\ Proposal(c, t).executedAt = None
         /\ Proposal(c, t).outcome = None
<1>1. Verdict(c, t) \in {"APPROVED", "BLOCKED", "ESCALATED"}
  BY OutcomeIsOne DEF Verdict, Outcomes
<1> QED
  BY <1>1 DEF Proposal, AbsentAction, ActionRow, ActionStatus

LEMMA ScheduledRow ==
  ASSUME TypeOK, NEW row \in ActionRow
  PROVE  /\ Scheduled(row) \in ActionRow
         /\ Scheduled(row).case = row.case
         /\ Scheduled(row).payment = row.payment
         /\ Scheduled(row).type = row.type
         /\ Scheduled(row).status = "SCHEDULED"
         /\ Scheduled(row).due = clock + Delay
         /\ Scheduled(row).executedAt = row.executedAt
         /\ Scheduled(row).outcome = row.outcome
<1>1. clock + Delay \in Nat
  BY WorkflowAssumption DEF TypeOK
<1> QED
  BY <1>1 DEF Scheduled, ActionRow, ActionStatus

LEMMA VerifiedRow ==
  ASSUME TypeOK, NEW row \in ActionRow, row.payment \in PaymentId,
         NEW success \in BOOLEAN, NEW recovered \in BOOLEAN
  PROVE  /\ Verified(row, success, recovered) \in ActionRow
         /\ Verified(row, success, recovered).case = row.case
         /\ Verified(row, success, recovered).payment = row.payment
         /\ Verified(row, success, recovered).type = row.type
         /\ Verified(row, success, recovered).status \in {"EXECUTED", "FAILED"}
         /\ Verified(row, success, recovered).due = row.due
         /\ Verified(row, success, recovered).executedAt = clock
         /\ Verified(row, success, recovered).outcome
              = IF recovered THEN "RECOVERED" ELSE "UNRECOVERED"
         /\ recovered => Verified(row, success, recovered).credit
                           = payments[row.payment].amount
<1> DEFINE amount == payments[row.payment].amount
           status == IF success THEN "EXECUTED" ELSE "FAILED"
           outcome == IF recovered THEN "RECOVERED" ELSE "UNRECOVERED"
           credit == IF recovered THEN amount ELSE 0
           new == [row EXCEPT !.status = status, !.executedAt = clock,
                              !.outcome = outcome, !.credit = credit]
<1>1. amount \in Nat /\ clock \in Nat
  BY DEF TypeOK, PaymentRow
<1>2. /\ status \in {"EXECUTED", "FAILED"} /\ outcome \in OutcomeKind
      /\ credit \in Nat /\ (recovered => credit = amount)
  BY <1>1 DEF OutcomeKind
<1>3. outcome = IF recovered THEN "RECOVERED" ELSE "UNRECOVERED"
  OBVIOUS
<1>4. Verified(row, success, recovered) = new
  BY DEF Verified
<1> HIDE DEF status, outcome, credit
<1>5. new \in ActionRow
  BY <1>1, <1>2 DEF ActionRow, ActionStatus
<1>6. /\ new.case = row.case /\ new.payment = row.payment /\ new.type = row.type
      /\ new.status = status /\ new.due = row.due /\ new.executedAt = clock
      /\ new.outcome = outcome /\ new.credit = credit
  BY DEF ActionRow
<1> HIDE DEF new, amount
<1> QED
  BY <1>2, <1>3, <1>4, <1>5, <1>6 DEF amount

LEMMA ReasonTyped ==
  ASSUME TypeOK, NEW p \in PaymentId
  PROVE  Reason(p) \in FailureReason
  BY DEF TypeOK, Reason, PaymentRow, FailureReason

-----------------------------------------------------------------------------
\* A case that a run selects is one of the table's, with its payment.
LEMMA SelectedCase ==
  ASSUME TypeOK, NEW c \in CaseId, cases[c].state \in RunnableStates
  PROVE  /\ cases[c] # AbsentCase
         /\ cases[c].payment \in PaymentId
         /\ payments[cases[c].payment] # AbsentPayment
  BY WorkflowAssumption DEF TypeOK, AbsentCase, RunnableStates, CaseState

\* Taking one case to a state where it may rest, and writing one of its actions,
\* keeps the tables typed.
LEMMA RunTyped ==
  ASSUME TypeOK, NEW c \in CaseId, NEW a \in ActionId, NEW row \in ActionRow,
         cases[c].state \in RunnableStates,
         row.case = c, row.payment = cases[c].payment,
         row.type # None, row.status # None,
         actions' = [actions EXCEPT ![a] = row],
         NEW to \in RunnableStates \cup TerminalStates,
         cases' = [cases EXCEPT ![c] = [@ EXCEPT !.state = to]],
         payments' \in [PaymentId -> PaymentRow],
         \A p \in PaymentId : payments[p] # AbsentPayment => payments'[p] # AbsentPayment,
         clock' = clock, revenueEvents' \in [CaseId -> Nat]
  PROVE  TypeOK'
<1>1. /\ cases[c].payment \in PaymentId
      /\ payments[cases[c].payment] # AbsentPayment
  BY SelectedCase
<1>2. to \in CaseState
  BY DEF RunnableStates, TerminalStates, CaseState
<1>3. [cases[c] EXCEPT !.state = to] \in CaseRow
  BY <1>1, <1>2 DEF TypeOK, CaseRow
<1>4. \A d \in CaseId : /\ d # c => cases'[d] = cases[d]
                        /\ cases'[d].payment = cases[d].payment
  BY DEF TypeOK, CaseRow
<1>5. cases' \in [CaseId -> CaseRow] /\ cases'[c].state = to
  BY <1>3 DEF TypeOK, CaseRow
<1>6. \A d \in CaseId :
        \/ cases'[d] = AbsentCase
        \/ /\ cases'[d].state \in RunnableStates \cup TerminalStates
           /\ cases'[d].payment \in PaymentId
           /\ payments'[cases'[d].payment] # AbsentPayment
  BY <1>1, <1>4, <1>5 DEF TypeOK
<1>7. actions' \in [ActionId -> ActionRow]
  BY DEF TypeOK
<1>8. \A b \in ActionId :
        \/ actions'[b] = AbsentAction
        \/ /\ actions'[b].case \in CaseId
           /\ actions'[b].payment = cases'[actions'[b].case].payment
           /\ actions'[b].payment \in PaymentId
           /\ None \notin {actions'[b].type, actions'[b].status}
  BY <1>1, <1>4 DEF TypeOK
<1> QED
  BY <1>5, <1>6, <1>7, <1>8 DEF TypeOK
\* An attempt on a payment decides its status and uses up one attempt.
Settles(p) ==
  /\ payments' \in [PaymentId -> PaymentRow]
  /\ \A q \in PaymentId : /\ q # p => payments'[q] = payments[q]
                          /\ payments'[q].amount = payments[q].amount
  /\ payments'[p].status \in {"SUCCEEDED", "FAILED"}
  /\ payments'[p].attempts = payments[p].attempts + 1

\* What the provider's answer makes of a payment.
Answers(p, success) ==
  /\ payments'[p].status = IF success THEN "SUCCEEDED" ELSE "FAILED"
  /\ ~success => payments'[p].reason = Reason(p)

\* The effect of _execute_and_verify, in the terms the proofs use.
Effect(c, a, row, success, recovered) ==
  /\ actions' = [actions EXCEPT ![a] = Verified(row, success, recovered)]
  /\ cases' = [cases EXCEPT ![c] = [@ EXCEPT
                 !.state = IF recovered THEN "RECOVERED" ELSE "FAILED"]]
  /\ Settles(row.payment)
  /\ clock' = clock
  /\ revenueEvents' = IF recovered THEN [revenueEvents EXCEPT ![c] = @ + 1]
                                   ELSE revenueEvents

LEMMA ExecuteEffect ==
  ASSUME TypeOK, NEW c \in CaseId, NEW a \in ActionId, NEW row \in ActionRow,
         NEW via, NEW success \in BOOLEAN, row.payment \in PaymentId,
         Execute(c, a, row, via, success)
  PROVE  /\ Recovered(row.payment, success) \in BOOLEAN
         /\ Effect(c, a, row, success, Recovered(row.payment, success))
         /\ Answers(row.payment, success)
<1> DEFINE recovered == Recovered(row.payment, success)
           settled == [payments[row.payment] EXCEPT
                         !.status = IF success THEN "SUCCEEDED" ELSE "FAILED",
                         !.reason = IF success THEN None ELSE Reason(row.payment),
                         !.attempts = payments[row.payment].attempts + 1]
<1>1. recovered \in BOOLEAN
  BY DEF Recovered
<1>2. /\ payments[row.payment] \in PaymentRow
      /\ payments[row.payment].attempts + 1 \in Nat
      /\ Reason(row.payment) \in FailureReason
  BY ReasonTyped DEF TypeOK, PaymentRow
<1>3. /\ settled \in PaymentRow
      /\ settled.status = IF success THEN "SUCCEEDED" ELSE "FAILED"
      /\ ~success => settled.reason = Reason(row.payment)
      /\ settled.attempts = payments[row.payment].attempts + 1
      /\ settled.amount = payments[row.payment].amount
  BY <1>2 DEF PaymentRow, PaymentStatus
<1>4. payments' = [payments EXCEPT ![row.payment] = settled]
  BY DEF Execute, SettlePayment
<1>5. Settles(row.payment) /\ Answers(row.payment, success)
  <2> HIDE DEF settled
  <2> QED
    BY <1>3, <1>4 DEF TypeOK, Settles, Answers
<1>6. Effect(c, a, row, success, recovered)
  BY <1>5 DEF Effect, Execute, Advance, ReportRevenue
<1> QED
  BY <1>1, <1>5, <1>6

\* A row that has a status is not the absent row.
LEMMA SettledPresent ==
  ASSUME TypeOK, NEW p \in PaymentId, Settles(p)
  PROVE  \A q \in PaymentId : payments[q] # AbsentPayment => payments'[q] # AbsentPayment
<1>1. payments'[p] # AbsentPayment
  BY WorkflowAssumption DEF Settles, AbsentPayment, PaymentStatus
<1> QED
  BY <1>1 DEF Settles

LEMMA ExecuteTyped ==
  ASSUME TypeOK, NEW c \in CaseId, NEW a \in ActionId, NEW row \in ActionRow,
         NEW via, NEW success \in BOOLEAN, cases[c].state \in RunnableStates,
         row.case = c, row.payment = cases[c].payment, row.type # None,
         Execute(c, a, row, via, success)
  PROVE  TypeOK'
<1>1. cases[c].payment \in PaymentId
  BY SelectedCase
<1> DEFINE recovered == Recovered(row.payment, success)
<1>2. recovered \in BOOLEAN /\ Effect(c, a, row, success, recovered)
  BY <1>1, ExecuteEffect
<1> HIDE DEF recovered
<1> DEFINE verified == Verified(row, success, recovered)
           to == IF recovered THEN "RECOVERED" ELSE "FAILED"
<1>3. /\ verified \in ActionRow
      /\ verified.case = c /\ verified.payment = cases[c].payment
      /\ verified.type # None /\ verified.status \in {"EXECUTED", "FAILED"}
  BY <1>1, <1>2, VerifiedRow
<1>4. verified.status # None
  BY <1>3, WorkflowAssumption DEF ActionStatus
<1>5. to \in RunnableStates \cup TerminalStates
  BY DEF RunnableStates, TerminalStates
<1>6. /\ actions' = [actions EXCEPT ![a] = verified]
      /\ cases' = [cases EXCEPT ![c] = [@ EXCEPT !.state = to]]
  BY <1>2 DEF Effect
<1>7. /\ payments' \in [PaymentId -> PaymentRow]
      /\ \A p \in PaymentId : payments[p] # AbsentPayment
                                => payments'[p] # AbsentPayment
      /\ clock' = clock
      /\ revenueEvents' \in [CaseId -> Nat]
  <2>1. Settles(row.payment) /\ clock' = clock
    BY <1>2 DEF Effect
  <2>2. revenueEvents' \in [CaseId -> Nat]
    BY <1>2 DEF Effect, TypeOK
  <2> QED
    BY <1>1, <2>1, <2>2, SettledPresent DEF Settles
<1> HIDE DEF verified, to
<1> QED
  BY <1>3, <1>4, <1>5, <1>6, <1>7, RunTyped

\* A case the workflow may take up from the start is runnable.
LEMMA SelectsCase ==
  ASSUME TypeOK, NEW c \in CaseId, NEW a \in ActionId, NEW t \in ActionType,
         Selects(c, a, t)
  PROVE  /\ cases[c].state \in RunnableStates
         /\ cases[c].state # "SCHEDULED"
         /\ cases[c].payment \in PaymentId
         /\ actions[a] = AbsentAction
         /\ Proposal(c, t).type # None
         /\ Proposal(c, t).status # None
<1>1. cases[c].state \in RunnableStates /\ cases[c].state # "SCHEDULED"
      /\ actions[a] = AbsentAction
  BY DEF Selects
<1>2. cases[c].payment \in PaymentId
  BY <1>1, SelectedCase
<1>3. Proposal(c, t).type = t /\ Proposal(c, t).status \in ActionStatus
  BY <1>2, ProposalRow DEF ActionStatus
<1> QED
  BY <1>1, <1>2, <1>3, WorkflowAssumption

\* A pending action belongs to its scheduled case and to that case's payment.
LEMMA PendingRow ==
  ASSUME TypeOK, NEW c \in CaseId, NEW a \in Pending(c)
  PROVE  /\ a \in ActionId /\ actions[a] \in ActionRow
         /\ actions[a].case = c /\ actions[a].payment = cases[c].payment
         /\ actions[a].payment \in PaymentId
         /\ actions[a].type # None
         /\ actions[a].due \in Nat /\ actions[a].executedAt = None
<1>1. /\ a \in ActionId /\ actions[a].case = c
      /\ actions[a].due # None /\ actions[a].executedAt = None
  BY DEF Pending
<1>2. actions[a] # AbsentAction
  BY <1>1 DEF AbsentAction
<1> QED
  BY <1>1, <1>2 DEF TypeOK, ActionRow

-----------------------------------------------------------------------------
LEMMA InitTyped == Init => TypeOK
  BY WorkflowAssumption DEF Init, TypeOK, AbsentPayment, AbsentCase, AbsentAction,
     PaymentRow, CaseRow, ActionRow

LEMMA TypeStep == TypeOK /\ [Next]_vars => TypeOK'
<1> SUFFICES ASSUME TypeOK, [Next]_vars PROVE TypeOK'
  OBVIOUS
<1>1. ASSUME NEW p \in PaymentId, NEW s \in PaymentStatus, NEW r \in Reasons \cup {None},
             NEW amt \in Amounts, CreatePayment(p, s, r, amt)
      PROVE  TypeOK'
  <2>1. Created(s, r, amt) \in PaymentRow /\ Created(s, r, amt).status = s
    BY WorkflowAssumption DEF Created, PaymentRow
  <2>2. Created(s, r, amt) # AbsentPayment
    BY <2>1, WorkflowAssumption DEF AbsentPayment
  <2> QED
    BY <1>1, <2>1, <2>2 DEF CreatePayment, TypeOK
<1>2. ASSUME NEW p \in PaymentId, NEW r \in Reasons, RecordFailure(p, r)
      PROVE  /\ payments' \in [PaymentId -> PaymentRow]
             /\ \A q \in PaymentId : payments[q] # AbsentPayment
                                        => payments'[q] # AbsentPayment
  <2> DEFINE failed == [payments[p] EXCEPT !.status = "FAILED", !.reason = r,
                                           !.attempts = payments[p].attempts + 1]
  <2>1. payments[p].attempts + 1 \in Nat /\ payments[p] \in PaymentRow
        /\ r \in FailureReason
    BY WorkflowAssumption DEF TypeOK, PaymentRow
  <2>2. failed \in PaymentRow /\ failed.status = "FAILED"
    BY <2>1 DEF PaymentRow, PaymentStatus
  <2>3. failed # AbsentPayment
    BY <2>2, WorkflowAssumption DEF AbsentPayment, PaymentStatus
  <2>4. payments' = [payments EXCEPT ![p] = failed]
    BY <1>2 DEF RecordFailure
  <2> QED
    BY <2>2, <2>3, <2>4 DEF TypeOK
<1>3. ASSUME NEW p \in PaymentId, NEW r \in Reasons, NEW c \in CaseId,
             FailOpens(p, r, c)
      PROVE  TypeOK'
  <2> DEFINE opened == [state |-> "DETECTED", payment |-> p]
  <2>1. /\ RecordFailure(p, r) /\ payments[p] # AbsentPayment
        /\ cases[c] = AbsentCase /\ cases' = [cases EXCEPT ![c] = opened]
        /\ UNCHANGED <<actions, clock, revenueEvents>>
    BY <1>3 DEF FailOpens, RecordFailure, OpenCase
  <2>2. opened \in CaseRow /\ "DETECTED" \in RunnableStates
    BY DEF CaseRow, CaseState, RunnableStates
  <2>3. \A a \in ActionId : actions[a] # AbsentAction => actions[a].case # c
    BY <2>1, WorkflowAssumption DEF TypeOK, AbsentCase
  <2>4. /\ payments' \in [PaymentId -> PaymentRow]
        /\ \A q \in PaymentId : payments[q] # AbsentPayment
                                   => payments'[q] # AbsentPayment
    BY <1>2, <2>1
  <2>5. cases' \in [CaseId -> CaseRow]
    BY <2>1, <2>2 DEF TypeOK
  <2>6. \A d \in CaseId :
          \/ cases'[d] = AbsentCase
          \/ /\ cases'[d].state \in RunnableStates \cup TerminalStates
             /\ cases'[d].payment \in PaymentId
             /\ payments'[cases'[d].payment] # AbsentPayment
    BY <2>1, <2>2, <2>4 DEF TypeOK
  <2>7. \A a \in ActionId :
          actions[a] # AbsentAction
            => cases'[actions[a].case].payment = cases[actions[a].case].payment
    BY <2>1, <2>3 DEF TypeOK
  <2> QED
    BY <2>1, <2>4, <2>5, <2>6, <2>7 DEF TypeOK
<1>4. ASSUME NEW p \in PaymentId, NEW r \in Reasons,
             FailReuses(p, r) \/ FailInterrupted(p, r)
      PROVE  TypeOK'
  <2>1. RecordFailure(p, r) /\ UNCHANGED <<cases, actions, clock, revenueEvents>>
    BY <1>4 DEF FailReuses, FailInterrupted, ReuseOpenCase
  <2> QED
    BY <1>2, <2>1 DEF TypeOK
<1>5. ASSUME NEW c \in CaseId, NEW a \in ActionId, NEW t \in ActionType,
             Selects(c, a, t), NEW row \in {Proposal(c, t), Scheduled(Proposal(c, t))},
             NEW to \in RunnableStates \cup TerminalStates,
             cases' = [cases EXCEPT ![c] = [@ EXCEPT !.state = to]],
             actions' = [actions EXCEPT ![a] = row],
             UNCHANGED <<payments, clock, revenueEvents>>
      PROVE  TypeOK'
  <2>1. /\ cases[c].state \in RunnableStates /\ cases[c].payment \in PaymentId
        /\ Proposal(c, t).type # None /\ Proposal(c, t).status # None
    BY <1>5, SelectsCase
  <2>2. /\ Proposal(c, t) \in ActionRow /\ Proposal(c, t).case = c
        /\ Proposal(c, t).payment = cases[c].payment
    BY <2>1, ProposalRow
  <2>3. /\ row \in ActionRow /\ row.case = c /\ row.payment = cases[c].payment
        /\ row.type # None /\ row.status # None
    BY <1>5, <2>1, <2>2, ScheduledRow, WorkflowAssumption DEF ActionStatus
  <2>4. payments' \in [PaymentId -> PaymentRow] /\ revenueEvents' \in [CaseId -> Nat]
    BY <1>5 DEF TypeOK
  <2> QED
    BY <1>5, <2>1, <2>3, <2>4, RunTyped
<1>6. ASSUME NEW c \in CaseId, NEW a \in ActionId, NEW t \in ActionType,
             RunStops(c, a, t) \/ RunEscalates(c, a, t)
      PROVE  TypeOK'
  <2>1. \E to \in {"STOPPED", "ESCALATED"} :
          cases' = [cases EXCEPT ![c] = [@ EXCEPT !.state = to]]
    BY <1>6 DEF RunStops, RunEscalates, Advance
  <2>2. {"STOPPED", "ESCALATED"} \subseteq RunnableStates \cup TerminalStates
    BY DEF TerminalStates
  <2> QED
    BY <1>5, <1>6, <2>1, <2>2 DEF RunStops, RunEscalates
<1>7. ASSUME NEW c \in CaseId, NEW a \in ActionId, NEW t \in ActionType,
             RunSchedules(c, a, t)
      PROVE  TypeOK'
  <2>1. "SCHEDULED" \in RunnableStates \cup TerminalStates
    BY DEF RunnableStates
  <2> QED
    BY <1>5, <1>7, <2>1 DEF RunSchedules, Advance
<1>8. ASSUME NEW c \in CaseId, NEW a \in ActionId, NEW t \in ActionType,
             NEW success \in BOOLEAN, RunExecutes(c, a, t, success)
      PROVE  TypeOK'
  <2>1. /\ cases[c].state \in RunnableStates /\ cases[c].payment \in PaymentId
        /\ Proposal(c, t).type # None
    BY <1>8, SelectsCase DEF RunExecutes
  <2>2. /\ Proposal(c, t) \in ActionRow /\ Proposal(c, t).case = c
        /\ Proposal(c, t).payment = cases[c].payment
    BY <2>1, ProposalRow
  <2> QED
    BY <1>8, <2>1, <2>2, ExecuteTyped DEF RunExecutes
<1>9. ASSUME NEW c \in CaseId, NEW a \in ActionId, NEW success \in BOOLEAN,
             Resume(c, a, success)
      PROVE  TypeOK'
  <2>1. cases[c].state \in RunnableStates
    BY <1>9 DEF Resume, RunnableStates
  <2>2. /\ actions[a] \in ActionRow /\ actions[a].case = c
        /\ actions[a].payment = cases[c].payment /\ actions[a].type # None
    BY <1>9, PendingRow DEF Resume
  <2> QED
    BY <1>9, <2>1, <2>2, ExecuteTyped DEF Resume
<1>10. ASSUME NEW d \in 1..Delay, AdvanceClock(d) PROVE TypeOK'
  BY <1>10, WorkflowAssumption DEF AdvanceClock, TypeOK
<1>11. ASSUME UNCHANGED vars PROVE TypeOK'
  BY <1>11 DEF vars, TypeOK
<1> QED
  BY <1>1, <1>3, <1>4, <1>6, <1>7, <1>8, <1>9, <1>10, <1>11 DEF Next, Pay, Run, Tick

\* Every commit leaves the tables typed, the foreign keys intact and every case
\* either runnable or finished.
THEOREM TypeCorrect == Spec => []TypeOK
  BY InitTyped, TypeStep, PTL DEF Spec
-----------------------------------------------------------------------------
(* What a run does to the tables, in four shapes: it concludes the case,   *)
(* defers it, attempts the payment at once, or carries out the attempt it  *)
(* deferred.  The invariants below are proved once per shape.              *)

Fresh(c, a) == cases[c].state # "SCHEDULED" /\ actions[a] = AbsentAction

Waits(row) ==
  /\ row.executedAt = None /\ row.outcome = None
  /\ UNCHANGED <<payments, revenueEvents>>

Acts(c, row, to) ==
  /\ row.executedAt = clock
  /\ Settles(cases[c].payment)
  /\ \/ /\ to = "RECOVERED" /\ row.outcome = "RECOVERED"
        /\ row.credit = payments[cases[c].payment].amount
        /\ revenueEvents' = [revenueEvents EXCEPT ![c] = @ + 1]
     \/ /\ to = "FAILED" /\ row.outcome = "UNRECOVERED"
        /\ revenueEvents' = revenueEvents

Concludes(c, a, row, to) ==
  /\ Fresh(c, a)
  /\ to \in {"STOPPED", "ESCALATED"}
  /\ row.due = None
  /\ Waits(row)

Defers(c, a, row, to) ==
  /\ Fresh(c, a)
  /\ to = "SCHEDULED"
  /\ row.type = "RETRY_LATER" /\ row.status = "SCHEDULED"
  /\ row.due = clock + Delay
  /\ Verdict(c, "RETRY_LATER") = "APPROVED"
  /\ Waits(row)

Attempts(c, a, row, to) ==
  /\ Fresh(c, a)
  /\ row.due = None
  /\ row.type \in ActionType \ TerminalActions
  /\ Verdict(c, row.type) = "APPROVED"
  /\ Acts(c, row, to)

Resumes(c, a, row, to) ==
  /\ cases[c].state = "SCHEDULED"
  /\ a \in Pending(c)
  /\ actions[a].due <= clock
  /\ row.due = actions[a].due
  /\ Acts(c, row, to)

Moves(c, a, row, to) ==
  /\ cases[c].state \in RunnableStates
  /\ cases[c].payment \in PaymentId
  /\ cases' = [cases EXCEPT ![c] = [@ EXCEPT !.state = to]]
  /\ row \in ActionRow /\ row.case = c /\ row.payment = cases[c].payment
  /\ actions' = [actions EXCEPT ![a] = row]
  /\ clock' = clock
  /\ \/ Concludes(c, a, row, to)
     \/ Defers(c, a, row, to)
     \/ Attempts(c, a, row, to)
     \/ Resumes(c, a, row, to)

\* A run that ends the case leaves the proposal with its verdict.
LEMMA ConcludeMoves ==
  ASSUME TypeOK, NEW c \in CaseId, NEW a \in ActionId, NEW t \in ActionType,
         RunStops(c, a, t) \/ RunEscalates(c, a, t)
  PROVE  /\ Proposal(c, t) \in ActionRow
         /\ \E to \in CaseState : Moves(c, a, Proposal(c, t), to)
<1>1. /\ cases[c].state \in RunnableStates /\ Fresh(c, a)
      /\ cases[c].payment \in PaymentId
  BY SelectsCase DEF RunStops, RunEscalates, Fresh
<1>2. PICK to \in {"STOPPED", "ESCALATED"} :
        cases' = [cases EXCEPT ![c] = [@ EXCEPT !.state = to]]
  BY DEF RunStops, RunEscalates, Advance
<1>3. /\ Proposal(c, t) \in ActionRow /\ Proposal(c, t).case = c
      /\ Proposal(c, t).payment = cases[c].payment
      /\ Proposal(c, t).due = None /\ Proposal(c, t).executedAt = None
      /\ Proposal(c, t).outcome = None
  BY <1>1, ProposalRow
<1>4. Moves(c, a, Proposal(c, t), to)
  BY <1>1, <1>2, <1>3 DEF Moves, Concludes, Waits, RunStops, RunEscalates
<1>5. to \in CaseState
  BY DEF CaseState
<1> QED
  BY <1>3, <1>4, <1>5

\* A run that waits leaves the proposal with the time it waits for.
LEMMA DeferMoves ==
  ASSUME TypeOK, NEW c \in CaseId, NEW a \in ActionId, NEW t \in ActionType,
         RunSchedules(c, a, t)
  PROVE  /\ t = "RETRY_LATER" /\ Verdict(c, t) = "APPROVED"
         /\ Scheduled(Proposal(c, t)) \in ActionRow
         /\ Moves(c, a, Scheduled(Proposal(c, t)), "SCHEDULED")
<1>1. /\ cases[c].state \in RunnableStates /\ Fresh(c, a)
      /\ cases[c].payment \in PaymentId
  BY SelectsCase DEF RunSchedules, Fresh
<1>2. t = "RETRY_LATER" /\ Verdict(c, t) = "APPROVED"
  BY DEF RunSchedules, Disposition
<1>3. /\ Proposal(c, t) \in ActionRow /\ Proposal(c, t).case = c
      /\ Proposal(c, t).payment = cases[c].payment
      /\ Proposal(c, t).type = t /\ Proposal(c, t).executedAt = None
      /\ Proposal(c, t).outcome = None
  BY <1>1, ProposalRow
<1>4. /\ Scheduled(Proposal(c, t)) \in ActionRow
      /\ Scheduled(Proposal(c, t)).case = c
      /\ Scheduled(Proposal(c, t)).payment = cases[c].payment
      /\ Scheduled(Proposal(c, t)).type = "RETRY_LATER"
      /\ Scheduled(Proposal(c, t)).status = "SCHEDULED"
      /\ Scheduled(Proposal(c, t)).due = clock + Delay
      /\ Scheduled(Proposal(c, t)).executedAt = None
      /\ Scheduled(Proposal(c, t)).outcome = None
  BY <1>2, <1>3, ScheduledRow
<1>5. Moves(c, a, Scheduled(Proposal(c, t)), "SCHEDULED")
  BY <1>1, <1>2, <1>4 DEF Moves, Defers, Waits, RunSchedules, Advance
<1> QED
  BY <1>2, <1>4, <1>5

\* The row of an action that has been carried out, with the provider's answer.
Executed(c, a, row, success) ==
  \E to \in CaseState, new \in ActionRow :
    /\ Moves(c, a, new, to)
    /\ new.type = row.type /\ new.status \in {"EXECUTED", "FAILED"}
    /\ new.executedAt = clock
    /\ new.outcome = IF Recovered(row.payment, success) THEN "RECOVERED"
                                                        ELSE "UNRECOVERED"
    /\ Answers(row.payment, success)

LEMMA ExecuteMoves ==
  ASSUME TypeOK, NEW c \in CaseId, NEW a \in ActionId, NEW row \in ActionRow,
         NEW via, NEW success \in BOOLEAN, Execute(c, a, row, via, success),
         row.case = c, row.payment = cases[c].payment,
         cases[c].state \in RunnableStates,
         \/ /\ Fresh(c, a) /\ row.due = None
            /\ row.type \in ActionType \ TerminalActions
            /\ Verdict(c, row.type) = "APPROVED"
         \/ /\ cases[c].state = "SCHEDULED" /\ a \in Pending(c)
            /\ actions[a].due <= clock /\ row.due = actions[a].due
  PROVE  Executed(c, a, row, success)
<1>1. row.payment \in PaymentId
  BY SelectedCase
<1> DEFINE recovered == Recovered(row.payment, success)
<1>2. /\ recovered \in BOOLEAN /\ Effect(c, a, row, success, recovered)
      /\ Answers(row.payment, success)
  BY <1>1, ExecuteEffect
<1> HIDE DEF recovered
<1> DEFINE new == Verified(row, success, recovered)
           to == IF recovered THEN "RECOVERED" ELSE "FAILED"
<1>3. /\ new \in ActionRow /\ new.case = c /\ new.payment = cases[c].payment
      /\ new.type = row.type /\ new.due = row.due /\ new.executedAt = clock
      /\ new.status \in {"EXECUTED", "FAILED"}
      /\ new.outcome = IF recovered THEN "RECOVERED" ELSE "UNRECOVERED"
      /\ recovered => new.credit = payments[cases[c].payment].amount
  BY <1>1, <1>2, VerifiedRow
<1>4. to \in CaseState
  BY DEF CaseState
<1>5. /\ actions' = [actions EXCEPT ![a] = new]
      /\ cases' = [cases EXCEPT ![c] = [@ EXCEPT !.state = to]]
      /\ clock' = clock
  BY <1>2 DEF Effect
<1>6. Acts(c, new, to)
  <2>1. Settles(cases[c].payment)
    BY <1>2 DEF Effect
  <2>2. revenueEvents' = IF recovered THEN [revenueEvents EXCEPT ![c] = @ + 1]
                                      ELSE revenueEvents
    BY <1>2 DEF Effect
  <2> HIDE DEF new
  <2> QED
    BY <1>3, <2>1, <2>2 DEF Acts
<1> HIDE DEF new, to
<1>7. Attempts(c, a, new, to) \/ Resumes(c, a, new, to)
  BY <1>3, <1>6 DEF Attempts, Resumes
<1>8. Moves(c, a, new, to)
  BY <1>1, <1>3, <1>5, <1>7 DEF Moves
<1> QED
  BY <1>2, <1>3, <1>4, <1>8 DEF Executed, recovered

LEMMA AttemptMoves ==
  ASSUME TypeOK, NEW c \in CaseId, NEW a \in ActionId, NEW t \in ActionType,
         NEW success \in BOOLEAN, RunExecutes(c, a, t, success)
  PROVE  /\ t \notin TerminalActions /\ Verdict(c, t) = "APPROVED"
         /\ Proposal(c, t).type = t /\ Proposal(c, t).payment = cases[c].payment
         /\ Executed(c, a, Proposal(c, t), success)
<1>1. /\ cases[c].state \in RunnableStates /\ Fresh(c, a)
      /\ cases[c].payment \in PaymentId
  BY SelectsCase DEF RunExecutes, Fresh
<1>2. /\ Proposal(c, t) \in ActionRow /\ Proposal(c, t).case = c
      /\ Proposal(c, t).payment = cases[c].payment
      /\ Proposal(c, t).type = t /\ Proposal(c, t).due = None
  BY <1>1, ProposalRow
<1>3. Verdict(c, t) \in {"APPROVED", "BLOCKED", "ESCALATED"}
  BY OutcomeIsOne DEF Verdict, Outcomes
<1>4. Disposition(c, t) = "execute"
  BY DEF RunExecutes
<1>5. Verdict(c, t) = "APPROVED" /\ t \notin TerminalActions
  BY <1>3, <1>4 DEF Disposition, TerminalActions
<1>6. Execute(c, a, Proposal(c, t), ToPolicyGate \o <<"APPROVED">>, success)
  BY DEF RunExecutes
<1> QED
  BY <1>1, <1>2, <1>5, <1>6, ExecuteMoves

LEMMA ResumeMoves ==
  ASSUME TypeOK, NEW c \in CaseId, NEW a \in ActionId, NEW success \in BOOLEAN,
         Resume(c, a, success)
  PROVE  /\ cases[c].state = "SCHEDULED" /\ a \in Pending(c)
         /\ Executed(c, a, actions[a], success)
<1>1. /\ cases[c].state = "SCHEDULED" /\ a \in Pending(c)
      /\ actions[a].due <= clock
      /\ Execute(c, a, actions[a], <<>>, success)
  BY DEF Resume
<1>2. /\ actions[a] \in ActionRow /\ actions[a].case = c
      /\ actions[a].payment = cases[c].payment
  BY <1>1, PendingRow
<1>3. cases[c].state \in RunnableStates
  BY <1>1 DEF RunnableStates
<1> QED
  BY <1>1, <1>2, <1>3, ExecuteMoves

LEMMA RunMoves ==
  ASSUME TypeOK, NEW c \in CaseId, Run(c)
  PROVE  \E a \in ActionId, row \in ActionRow, to \in CaseState : Moves(c, a, row, to)
<1>1. ASSUME NEW a \in ActionId, NEW t \in ActionType,
             \/ RunStops(c, a, t) \/ RunEscalates(c, a, t) \/ RunSchedules(c, a, t)
      PROVE  \E row \in ActionRow, to \in CaseState : Moves(c, a, row, to)
  BY <1>1, ConcludeMoves, DeferMoves DEF CaseState
<1>2. ASSUME NEW a \in ActionId, NEW success \in BOOLEAN,
             \/ \E t \in ActionType : RunExecutes(c, a, t, success)
             \/ Resume(c, a, success)
      PROVE  \E row \in ActionRow, to \in CaseState : Moves(c, a, row, to)
  BY <1>2, AttemptMoves, ResumeMoves DEF Executed
<1> QED
  BY <1>1, <1>2 DEF Run

LEMMA MovedTables ==
  ASSUME TypeOK, NEW c \in CaseId, NEW a \in ActionId, NEW row, NEW to,
         Moves(c, a, row, to)
  PROVE  /\ \A d \in CaseId : cases'[d].payment = cases[d].payment
         /\ \A d \in CaseId : d # c => cases'[d] = cases[d]
         /\ cases'[c].state = to
         /\ \A b \in ActionId : actions'[b] = IF b = a THEN row ELSE actions[b]
         /\ \A d \in CaseId : d # c => Pending(d)' = Pending(d)
<1>1. /\ \A d \in CaseId : cases'[d].payment = cases[d].payment
      /\ \A d \in CaseId : d # c => cases'[d] = cases[d]
      /\ cases'[c].state = to
  BY DEF Moves, TypeOK, CaseRow
<1>2. \A b \in ActionId : actions'[b] = IF b = a THEN row ELSE actions[b]
  BY DEF Moves, TypeOK
<1>3. row.case = c /\ actions[a].case \in {c, None}
  BY PendingRow DEF Moves, Concludes, Defers, Attempts, Resumes, Fresh, AbsentAction
<1>4. \A d \in CaseId : d # c => Pending(d)' = Pending(d)
  BY <1>2, <1>3, WorkflowAssumption DEF Pending
<1> QED
  BY <1>1, <1>2, <1>4

\* The steps other than a run leave the actions and the case states alone, but
\* for the case a failure opens.
LEMMA OtherSteps ==
  ASSUME TypeOK, [Next]_vars, ~(\E c \in CaseId : Run(c))
  PROVE  /\ actions' = actions
         /\ clock' \in Nat /\ clock <= clock'
         /\ \A p \in PaymentId : payments[p] # AbsentPayment
                                   => payments'[p].amount = payments[p].amount
         /\ \/ cases' = cases
            \/ \E p \in PaymentId, c \in CaseId : OpenCase(p, c)
<1>1. ASSUME NEW p \in PaymentId, Pay(p)
      PROVE  /\ actions' = actions /\ clock' = clock
             /\ \A q \in PaymentId : payments[q] # AbsentPayment
                                       => payments'[q].amount = payments[q].amount
             /\ \/ cases' = cases
                \/ \E c \in CaseId : OpenCase(p, c)
  <2>1. ASSUME NEW s \in PaymentStatus, NEW r \in Reasons \cup {None}, NEW amt \in Amounts,
               CreatePayment(p, s, r, amt)
        PROVE  /\ UNCHANGED <<actions, clock, cases>>
               /\ \A q \in PaymentId : payments[q] # AbsentPayment
                                         => payments'[q] = payments[q]
    BY <2>1 DEF CreatePayment, TypeOK
  <2>2. ASSUME NEW r \in Reasons, RecordFailure(p, r)
        PROVE  \A q \in PaymentId : payments'[q].amount = payments[q].amount
    <3> DEFINE failed == [payments[p] EXCEPT !.status = "FAILED", !.reason = r,
                                             !.attempts = payments[p].attempts + 1]
    <3>1. failed.amount = payments[p].amount
      BY DEF TypeOK, PaymentRow
    <3>2. payments' = [payments EXCEPT ![p] = failed]
      BY <2>2 DEF RecordFailure
    <3> HIDE DEF failed
    <3> QED
      BY <3>1, <3>2 DEF TypeOK
  <2> QED
    BY <1>1, <2>1, <2>2
    DEF Pay, FailReuses, FailInterrupted, FailOpens, ReuseOpenCase
<1>2. ASSUME NEW d \in 1..Delay, AdvanceClock(d)
      PROVE  /\ UNCHANGED <<payments, cases, actions>>
             /\ clock' \in Nat /\ clock <= clock'
  BY <1>2, WorkflowAssumption DEF AdvanceClock, TypeOK
<1>3. clock \in Nat
  BY DEF TypeOK
<1> QED
  BY <1>1, <1>2, <1>3 DEF Next, Tick, vars

\* Amounts of existing payments never change, nor do cases that exist vanish.
LEMMA MovedAmounts ==
  ASSUME TypeOK, [Next]_vars
  PROVE  /\ \A p \in PaymentId : payments[p] # AbsentPayment
                                   => payments'[p].amount = payments[p].amount
         /\ \A c \in CaseId : cases[c] # AbsentCase => cases'[c] # AbsentCase
<1>1. ASSUME NEW c \in CaseId, Run(c)
      PROVE  /\ \A p \in PaymentId : payments'[p].amount = payments[p].amount
             /\ \A d \in CaseId : cases[d] # AbsentCase => cases'[d] # AbsentCase
  <2>1. PICK a \in ActionId, row \in ActionRow, to \in CaseState : Moves(c, a, row, to)
    BY <1>1, RunMoves
  <2>2. \A p \in PaymentId : payments'[p].amount = payments[p].amount
    BY <2>1 DEF Moves, Concludes, Defers, Attempts, Resumes, Waits, Acts, Settles
  <2>3. AbsentCase.state = None
    BY DEF AbsentCase
  <2> QED
    BY <2>1, <2>2, <2>3, MovedTables, WorkflowAssumption
<1>2. ASSUME ~(\E c \in CaseId : Run(c))
      PROVE  /\ \A p \in PaymentId : payments[p] # AbsentPayment
                                       => payments'[p].amount = payments[p].amount
             /\ \A c \in CaseId : cases[c] # AbsentCase => cases'[c] # AbsentCase
  BY <1>2, OtherSteps DEF OpenCase, TypeOK
<1> QED
  BY <1>1, <1>2

-----------------------------------------------------------------------------
\* A run never reopens a finished case, and detection opens one only for a
\* payment that has none open.
LEMMA OneOpenStep == TypeOK /\ OneOpenCase /\ [Next]_vars => OneOpenCase'
<1> SUFFICES ASSUME TypeOK, OneOpenCase, [Next]_vars PROVE OneOpenCase'
  OBVIOUS
<1>1. ASSUME NEW c \in CaseId, Run(c) PROVE OneOpenCase'
  <2>1. PICK a \in ActionId, row \in ActionRow, to \in CaseState : Moves(c, a, row, to)
    BY <1>1, RunMoves
  <2>2. /\ \A d \in CaseId : cases'[d].payment = cases[d].payment
        /\ \A d \in CaseId : d # c => cases'[d] = cases[d]
    BY <2>1, MovedTables
  <2>3. cases[c].state \notin TerminalStates
    BY <2>1 DEF Moves, RunnableStates, TerminalStates
  <2>4. \A p \in PaymentId : OpenCases(p)' \subseteq OpenCases(p)
    BY <2>2, <2>3 DEF OpenCases
  <2> QED
    BY <2>4 DEF OneOpenCase
<1>2. ASSUME cases' = cases PROVE OneOpenCase'
  BY <1>2 DEF OneOpenCase, OpenCases
<1>3. ASSUME NEW p \in PaymentId, NEW c \in CaseId, OpenCase(p, c) PROVE OneOpenCase'
  <2>1. \A d \in CaseId : cases'[d] = IF d = c
           THEN [state |-> "DETECTED", payment |-> p] ELSE cases[d]
    BY <1>3 DEF OpenCase, TypeOK
  <2>2. OpenCases(p) = {}
    BY <1>3 DEF OpenCase
  <2>3. \A q \in PaymentId : OpenCases(q)' \subseteq IF q = p THEN {c} ELSE OpenCases(q)
    BY <2>1, <2>2 DEF OpenCases
  <2> QED
    BY <2>3 DEF OneOpenCase
<1> QED
  BY <1>1, <1>2, <1>3, OtherSteps

\* However often a payment fails again, and whatever runs in between, it never
\* has two open cases.
THEOREM OneOpenCorrect == Spec => []OneOpenCase
<1>1. Init => OneOpenCase
  BY WorkflowAssumption DEF Init, OneOpenCase, OpenCases, AbsentCase
<1> QED
  BY <1>1, InitTyped, TypeStep, OneOpenStep, PTL DEF Spec

-----------------------------------------------------------------------------
LEMMA ScheduleStep ==
  TypeOK /\ ScheduleConsistent /\ [Next]_vars => ScheduleConsistent'
<1> SUFFICES ASSUME TypeOK, ScheduleConsistent, [Next]_vars PROVE ScheduleConsistent'
  OBVIOUS
<1>1. ASSUME NEW c \in CaseId, Run(c) PROVE ScheduleConsistent'
  <2>1. PICK a \in ActionId, row \in ActionRow, to \in CaseState : Moves(c, a, row, to)
    BY <1>1, RunMoves
  <2>2. /\ \A d \in CaseId : d # c => cases'[d] = cases[d] /\ Pending(d)' = Pending(d)
        /\ cases'[c].state = to
        /\ \A b \in ActionId : actions'[b] = IF b = a THEN row ELSE actions[b]
    BY <2>1, MovedTables
  <2>3. clock' = clock /\ clock \in Nat /\ row.case = c
    BY <2>1 DEF Moves, TypeOK
  <2>4. CASE Fresh(c, a)
    <3>1. Pending(c) = {}
      BY <2>4 DEF Fresh, ScheduleConsistent
    <3>2. Pending(c)' = IF row.due # None /\ row.executedAt = None THEN {a} ELSE {}
      BY <2>2, <2>3, <3>1 DEF Pending
    <3>3. clock + Delay # None
      BY <2>3, WorkflowAssumption
    <3>4. CASE Defers(c, a, row, to)
      <4>1. Pending(c)' = {a} /\ to = "SCHEDULED"
        BY <3>2, <3>3, <3>4 DEF Defers, Waits
      <4>2. /\ actions'[a].type = "RETRY_LATER" /\ actions'[a].status = "SCHEDULED"
            /\ actions'[a].due <= clock' + Delay
        BY <2>2, <2>3, <3>4, WorkflowAssumption DEF Defers
      <4>3. ASSUME NEW d \in CaseId
            PROVE  IF cases'[d].state = "SCHEDULED"
                     THEN \E b \in ActionId : /\ Pending(d)' = {b}
                                              /\ actions'[b].type = "RETRY_LATER"
                                              /\ actions'[b].status = "SCHEDULED"
                                              /\ actions'[b].due <= clock' + Delay
                     ELSE Pending(d)' = {}
        <5>1. CASE d = c
          BY <2>2, <4>1, <4>2, <5>1
        <5>2. CASE d # c
          <6>1. a \notin Pending(d)
            BY <2>4, WorkflowAssumption DEF Fresh, Pending, AbsentAction
          <6> QED
            BY <2>2, <2>3, <5>2, <6>1 DEF ScheduleConsistent
        <5> QED
          BY <5>1, <5>2
      <4> QED
        BY <4>3 DEF ScheduleConsistent
    <3>5. CASE Concludes(c, a, row, to) \/ Attempts(c, a, row, to)
      <4>1. Pending(c)' = {} /\ to # "SCHEDULED"
        BY <2>3, <3>2, <3>5, WorkflowAssumption DEF Concludes, Attempts, Waits, Acts
      <4>2. \A d \in CaseId : a \notin Pending(d)
        BY <2>4, WorkflowAssumption DEF Fresh, Pending, AbsentAction
      <4> QED
        BY <2>2, <2>3, <4>1, <4>2 DEF ScheduleConsistent
    <3> QED
      BY <2>1, <2>4, <3>4, <3>5 DEF Moves, Resumes, Fresh
  <2>5. CASE Resumes(c, a, row, to)
    <3>1. Pending(c) = {a}
      BY <2>5 DEF Resumes, ScheduleConsistent
    <3>2. row.executedAt # None
      BY <2>3, <2>5, WorkflowAssumption DEF Resumes, Acts
    <3>3. Pending(c)' = {} /\ to # "SCHEDULED"
      BY <2>2, <2>5, <3>1, <3>2 DEF Resumes, Acts, Pending
    <3>4. \A d \in CaseId : d # c => a \notin Pending(d)
      BY <3>1 DEF Pending
    <3> QED
      BY <2>2, <2>3, <3>3, <3>4 DEF ScheduleConsistent
  <2> QED
    BY <2>1, <2>4, <2>5 DEF Moves, Concludes, Defers, Attempts
<1>2. ASSUME ~(\E c \in CaseId : Run(c)) PROVE ScheduleConsistent'
  <2>1. /\ actions' = actions /\ clock' \in Nat /\ clock \in Nat /\ clock <= clock'
        /\ \A c \in CaseId : Pending(c)' = Pending(c)
    BY <1>2, OtherSteps DEF Pending, TypeOK
  <2>2. \A c \in CaseId : cases'[c].state = "SCHEDULED" <=> cases[c].state = "SCHEDULED"
    BY <1>2, OtherSteps, WorkflowAssumption DEF OpenCase, AbsentCase, TypeOK, CaseState
  <2>3. \A c \in CaseId : \A a \in Pending(c) :
          actions[a].due <= clock + Delay => actions[a].due <= clock' + Delay
    BY <2>1, PendingRow, WorkflowAssumption
  <2> QED
    BY <2>1, <2>2, <2>3 DEF ScheduleConsistent
<1> QED
  BY <1>1, <1>2

\* A SCHEDULED case always has exactly one delayed retry to resume, so resuming
\* never falls through to the branch that found none; no other case has one.
THEOREM ScheduleCorrect == Spec => []ScheduleConsistent
<1>1. Init => ScheduleConsistent
  BY WorkflowAssumption
  DEF Init, ScheduleConsistent, Pending, AbsentCase, AbsentAction, CaseState
<1> QED
  BY <1>1, InitTyped, TypeStep, ScheduleStep, PTL DEF Spec
-----------------------------------------------------------------------------
LEMMA EarlyStep == TypeOK /\ NeverEarly /\ [Next]_vars => NeverEarly'
<1> SUFFICES ASSUME TypeOK, NeverEarly, [Next]_vars PROVE NeverEarly'
  OBVIOUS
<1>1. ASSUME NEW c \in CaseId, Run(c) PROVE NeverEarly'
  <2>1. PICK a \in ActionId, row \in ActionRow, to \in CaseState : Moves(c, a, row, to)
    BY <1>1, RunMoves
  <2>2. \A b \in ActionId : actions'[b] = IF b = a THEN row ELSE actions[b]
    BY <2>1, MovedTables
  <2>3. clock' = clock /\ clock \in Nat
    BY <2>1 DEF Moves, TypeOK
  <2>4. row.executedAt # None =>
          /\ row.executedAt <= clock
          /\ row.due # None => row.due <= row.executedAt
    BY <2>1, <2>3 DEF Moves, Concludes, Defers, Attempts, Resumes, Waits, Acts
  <2> QED
    BY <2>2, <2>3, <2>4 DEF NeverEarly
<1>2. ASSUME ~(\E c \in CaseId : Run(c)) PROVE NeverEarly'
  <2>1. actions' = actions /\ clock' \in Nat /\ clock <= clock' /\ clock \in Nat
    BY <1>2, OtherSteps DEF TypeOK
  <2>2. \A a \in ActionId : actions[a].executedAt # None => actions[a].executedAt \in Nat
    BY DEF TypeOK, ActionRow
  <2> QED
    BY <2>1, <2>2 DEF NeverEarly
<1> QED
  BY <1>1, <1>2

\* Nothing is executed before its scheduled time, at whatever pace the clock is
\* advanced.
THEOREM NeverEarlyCorrect == Spec => []NeverEarly
<1>1. Init => NeverEarly
  BY DEF Init, NeverEarly, AbsentAction
<1> QED
  BY <1>1, InitTyped, TypeStep, EarlyStep, PTL DEF Spec

-----------------------------------------------------------------------------
(* A delayed retry is not gated again when it runs, so what the gate said  *)
(* when the retry was scheduled has to stay true until then.               *)

\* What the policy's approval of an automatic action says of the payment.
LEMMA ApprovedPayment ==
  ASSUME TypeOK, NEW c \in CaseId, NEW t \in ActionType \ TerminalActions,
         cases[c].payment \in PaymentId, Verdict(c, t) = "APPROVED"
  PROVE  /\ payments[cases[c].payment].status \in Unsuccessful
         /\ payments[cases[c].payment].attempts < MaxAutomaticRetries
         /\ payments[cases[c].payment].amount <= HighValueThreshold
<1> DEFINE d == InputFor(c, t)
<1>1. /\ d.action = t
      /\ d.status = payments[cases[c].payment].status
      /\ d.attempts = payments[cases[c].payment].attempts
      /\ d.amount = payments[cases[c].payment].amount
  BY DEF InputFor
<1>2. d.attempts \in Nat /\ d.amount \in Nat
  BY <1>1 DEF TypeOK, PaymentRow
<1>3. Evaluate(d).outcome = "APPROVED" /\ Automatic(d)
  BY <1>1 DEF Verdict, Automatic
<1> HIDE DEF d
<1> QED
  BY <1>1, <1>2, <1>3, ApprovedAutomatic

\* The invariant: approved for later counts as attempted already.
AmountGated ==
  \A a \in ActionId :
    actions[a].due # None \/ actions[a].executedAt # None
      => payments[actions[a].payment].amount <= HighValueThreshold

LEMMA AmountStep == TypeOK /\ AmountGated /\ [Next]_vars => AmountGated'
<1> SUFFICES ASSUME TypeOK, AmountGated, [Next]_vars PROVE AmountGated'
  OBVIOUS
<1>1. ASSUME NEW c \in CaseId, Run(c) PROVE AmountGated'
  <2>1. PICK a \in ActionId, row \in ActionRow, to \in CaseState : Moves(c, a, row, to)
    BY <1>1, RunMoves
  <2>2. \A b \in ActionId : actions'[b] = IF b = a THEN row ELSE actions[b]
    BY <2>1, MovedTables
  <2>3. \A p \in PaymentId : payments'[p].amount = payments[p].amount
    BY <2>1 DEF Moves, Concludes, Defers, Attempts, Resumes, Waits, Acts, Settles
  <2>4. /\ row.payment = cases[c].payment /\ row.payment \in PaymentId
    BY <2>1 DEF Moves
  <2>5. row.due # None \/ row.executedAt # None
          => payments[row.payment].amount <= HighValueThreshold
    <3>1. CASE Concludes(c, a, row, to)
      BY <3>1 DEF Concludes, Waits
    <3>2. CASE Defers(c, a, row, to)
      <4>1. "RETRY_LATER" \in ActionType \ TerminalActions
        BY DEF ActionType, TerminalActions
      <4> QED
        BY <2>4, <3>2, <4>1, ApprovedPayment DEF Defers
    <3>3. CASE Attempts(c, a, row, to)
      BY <2>4, <3>3, ApprovedPayment DEF Attempts
    <3>4. CASE Resumes(c, a, row, to)
      BY <2>4, <3>4, PendingRow DEF Resumes, AmountGated, Pending
    <3> QED
      BY <2>1, <3>1, <3>2, <3>3, <3>4 DEF Moves
  <2>6. \A b \in ActionId : actions[b] # AbsentAction => actions[b].payment \in PaymentId
    BY DEF TypeOK
  <2>7. AbsentAction.due = None /\ AbsentAction.executedAt = None
    BY DEF AbsentAction
  <2> QED
    BY <2>2, <2>3, <2>4, <2>5, <2>6, <2>7 DEF AmountGated
<1>2. ASSUME ~(\E c \in CaseId : Run(c)) PROVE AmountGated'
  <2>1. /\ actions' = actions
        /\ \A p \in PaymentId : payments[p] # AbsentPayment
                                   => payments'[p].amount = payments[p].amount
    BY <1>2, OtherSteps
  <2>2. ASSUME NEW a \in ActionId, actions[a] # AbsentAction
        PROVE  actions[a].payment \in PaymentId /\ payments[actions[a].payment] # AbsentPayment
    <3>1. /\ actions[a].case \in CaseId /\ actions[a].payment \in PaymentId
          /\ actions[a].payment = cases[actions[a].case].payment
      BY <2>2 DEF TypeOK
    <3>2. cases[actions[a].case] # AbsentCase
      BY <3>1, WorkflowAssumption DEF AbsentCase
    <3> QED
      BY <3>1, <3>2 DEF TypeOK
  <2>3. AbsentAction.due = None /\ AbsentAction.executedAt = None
    BY DEF AbsentAction
  <2> QED
    BY <2>1, <2>2, <2>3 DEF AmountGated
<1> QED
  BY <1>1, <1>2

\* No payment above the escalation threshold is attempted automatically, not
\* even by a retry that was approved earlier.
THEOREM HighValueCorrect == Spec => []HighValueNeverCharged
<1>1. Init => AmountGated
  BY DEF Init, AmountGated, AbsentAction
<1>2. AmountGated => HighValueNeverCharged
  BY DEF AmountGated, HighValueNeverCharged, Charges, ActionsOf
<1> QED
  BY <1>1, <1>2, InitTyped, TypeStep, AmountStep, PTL DEF Spec
-----------------------------------------------------------------------------
(* Recovered revenue.                                                      *)

Won(c) == {a \in ActionId : actions[a].case = c /\ actions[a].outcome = "RECOVERED"}

RevenueOf(c) ==
  /\ (cases[c].state = "RECOVERED") <=> (Won(c) # {})
  /\ Cardinality(Won(c)) = revenueEvents[c]
  /\ revenueEvents[c] <= 1
  /\ \A a \in Won(c) : actions[a].credit = payments[cases[c].payment].amount

\* A case that has been won has a payment, whose amount can no longer change.
LEMMA WonCase ==
  ASSUME TypeOK, NEW c \in CaseId, Won(c) # {}
  PROVE  cases[c].payment \in PaymentId /\ payments[cases[c].payment] # AbsentPayment
<1>1. PICK a \in ActionId : actions[a].case = c /\ actions[a].outcome = "RECOVERED"
  BY DEF Won
<1>2. actions[a] # AbsentAction
  BY <1>1, WorkflowAssumption DEF AbsentAction, OutcomeKind
<1>3. actions[a].payment = cases[c].payment /\ actions[a].payment \in PaymentId
  BY <1>1, <1>2 DEF TypeOK
<1>4. cases[c] # AbsentCase
  BY <1>3, WorkflowAssumption DEF AbsentCase
<1> QED
  BY <1>3, <1>4 DEF TypeOK

LEMMA RevenueStep == TypeOK /\ RevenueVerified /\ [Next]_vars => RevenueVerified'
<1> SUFFICES ASSUME TypeOK, RevenueVerified, [Next]_vars, NEW d \in CaseId
             PROVE  RevenueOf(d)'
  BY DEF RevenueVerified, RevenueOf, Won
<1>1. RevenueOf(d)
  BY DEF RevenueVerified, RevenueOf, Won
<1>2. ASSUME NEW c \in CaseId, Run(c) PROVE RevenueOf(d)'
  <2>1. PICK a \in ActionId, row \in ActionRow, to \in CaseState : Moves(c, a, row, to)
    BY <1>2, RunMoves
  <2>2. /\ \A b \in ActionId : actions'[b] = IF b = a THEN row ELSE actions[b]
        /\ cases'[d].payment = cases[d].payment
        /\ d # c => cases'[d] = cases[d]
        /\ cases'[c].state = to
    BY <2>1, MovedTables
  <2>3. /\ row.case = c /\ actions[a].case \in {c, None}
        /\ cases[c].state # "RECOVERED"
    BY <2>1, PendingRow
    DEF Moves, Concludes, Defers, Attempts, Resumes, Fresh, AbsentAction, RunnableStates
  <2>4. \A p \in PaymentId : payments'[p].amount = payments[p].amount
    BY <2>1 DEF Moves, Concludes, Defers, Attempts, Resumes, Waits, Acts, Settles
  <2>5. CASE d # c
    <3>1. Won(d)' = Won(d) /\ a \notin Won(d)
      BY <2>2, <2>3, <2>5, WorkflowAssumption DEF Won
    <3>2. revenueEvents'[d] = revenueEvents[d]
      BY <2>1, <2>5 DEF Moves, Concludes, Defers, Attempts, Resumes, Waits, Acts, TypeOK
    <3>3. \A b \in Won(d) : actions'[b] = actions[b]
      BY <2>2, <3>1 DEF Won
    <3> QED
      BY <1>1, <2>2, <2>4, <2>5, <3>1, <3>2, <3>3, WonCase DEF RevenueOf
  <2>6. CASE d = c
    <3>1. Won(c) = {} /\ revenueEvents[c] = 0
      BY <1>1, <2>3, <2>6, FS_EmptySet DEF RevenueOf
    <3>2. Won(c)' = IF row.outcome = "RECOVERED" THEN {a} ELSE {}
      BY <2>2, <2>3, <3>1 DEF Won
    <3>3. CASE Acts(c, row, to) /\ to = "RECOVERED"
      <4>1. /\ row.outcome = "RECOVERED"
            /\ row.credit = payments[cases[c].payment].amount
            /\ revenueEvents'[c] = 1
        BY <3>1, <3>3 DEF Acts, TypeOK
      <4>2. Won(c)' = {a} /\ Cardinality({a}) = 1
        BY <3>2, <4>1, FS_Singleton
      <4>3. cases[c].payment \in PaymentId
        BY <2>1 DEF Moves
      <4> QED
        BY <2>2, <2>4, <2>6, <3>3, <4>1, <4>2, <4>3 DEF RevenueOf
    <3>4. CASE (Acts(c, row, to) /\ to # "RECOVERED") \/ (Waits(row) /\ to # "RECOVERED")
      <4>1. row.outcome # "RECOVERED" /\ revenueEvents'[c] = 0
        BY <3>1, <3>4, WorkflowAssumption DEF Acts, Waits, OutcomeKind
      <4>2. Won(c)' = {} /\ Cardinality({}) = 0
        BY <3>2, <4>1, FS_EmptySet
      <4> QED
        BY <2>2, <2>6, <3>4, <4>1, <4>2 DEF RevenueOf
    <3> QED
      BY <2>1, <3>3, <3>4 DEF Moves, Concludes, Defers, Attempts, Resumes
  <2> QED
    BY <2>5, <2>6
<1>3. ASSUME ~(\E c \in CaseId : Run(c)) PROVE RevenueOf(d)'
  <2>1. /\ actions' = actions
        /\ \A p \in PaymentId : payments[p] # AbsentPayment
                                   => payments'[p].amount = payments[p].amount
        /\ \/ cases' = cases
           \/ \E p \in PaymentId, c \in CaseId : OpenCase(p, c)
    BY <1>3, OtherSteps
  <2>2. revenueEvents' = revenueEvents
    BY <1>3 DEF Next, Pay, Tick, CreatePayment, FailOpens, FailReuses, FailInterrupted,
       AdvanceClock, vars
  <2>3. Won(d)' = Won(d)
    BY <2>1 DEF Won
  <2>4. /\ (cases'[d].state = "RECOVERED") <=> (cases[d].state = "RECOVERED")
        /\ cases[d] # AbsentCase => cases'[d] = cases[d]
    BY <2>1, WorkflowAssumption DEF OpenCase, AbsentCase, TypeOK, CaseState
  <2>5. Won(d) # {} => cases[d] # AbsentCase
    BY WonCase, WorkflowAssumption DEF AbsentCase
  <2> QED
    BY <1>1, <2>1, <2>2, <2>3, <2>4, <2>5, WonCase DEF RevenueOf
<1> QED
  BY <1>2, <1>3

\* Recovered revenue is exactly what was verified: one outcome, one audit event
\* and the payment's full amount for each RECOVERED case, none for any other.
THEOREM RevenueCorrect == Spec => []RevenueVerified
<1>1. Init => RevenueVerified
  <2> SUFFICES ASSUME Init, NEW c \in CaseId PROVE RevenueOf(c)
    BY DEF RevenueVerified, RevenueOf, Won
  <2>1. Won(c) = {} /\ Cardinality({}) = 0
    BY WorkflowAssumption, FS_EmptySet DEF Init, Won, AbsentAction, OutcomeKind
  <2>2. cases[c].state # "RECOVERED" /\ revenueEvents[c] = 0
    BY WorkflowAssumption DEF Init, AbsentCase, CaseState
  <2> QED
    BY <2>1, <2>2 DEF RevenueOf
<1> QED
  BY <1>1, InitTyped, TypeStep, RevenueStep, PTL DEF Spec
-----------------------------------------------------------------------------
(* The attempt budget.  Attempts are counted on the payment, failures      *)
(* reported from outside included, and a retry that was approved for later *)
(* has its place in the budget reserved: nothing else can attempt the      *)
(* payment before it, because its case is the payment's only open one.     *)

Awaiting(p) == {a \in ActionsOf(p) : actions[a].due # None /\ actions[a].executedAt = None}

BudgetOf(p) ==
  /\ IsFiniteSet(Charges(p))
  /\ Cardinality(Charges(p)) <= payments[p].attempts
  /\ payments[p].status \in Unsuccessful
       => Cardinality(Charges(p)) < payments[p].attempts
  /\ Awaiting(p) # {} => /\ payments[p].status \in Unsuccessful
                         /\ Cardinality(Charges(p)) + 1 < MaxAutomaticRetries
  /\ Charges(p) # {} => Cardinality(Charges(p)) < MaxAutomaticRetries

BudgetInv == \A p \in PaymentId : BudgetOf(p)

\* A case that is open keeps every other case of its payment from waiting.
LEMMA AwaitingIsPending ==
  ASSUME TypeOK, ScheduleConsistent, OneOpenCase,
         NEW c \in CaseId, cases[c].state \in RunnableStates,
         cases[c].payment \in PaymentId
  PROVE  Awaiting(cases[c].payment) = Pending(c)
<1> DEFINE p == cases[c].payment
<1>1. ASSUME NEW a \in Awaiting(p) PROVE a \in Pending(c)
  <2>1. /\ a \in ActionId /\ actions[a].payment = p
        /\ actions[a].due # None /\ actions[a].executedAt = None
    BY <1>1 DEF Awaiting, ActionsOf
  <2>2. actions[a] # AbsentAction
    BY <2>1 DEF AbsentAction
  <2> DEFINE d == actions[a].case
  <2>3. d \in CaseId /\ cases[d].payment = p
    BY <2>1, <2>2 DEF TypeOK
  <2>4. a \in Pending(d)
    BY <2>1 DEF Pending
  <2>5. cases[d].state = "SCHEDULED"
    BY <2>3, <2>4 DEF ScheduleConsistent
  <2>6. c \in OpenCases(p) /\ d \in OpenCases(p)
    BY <2>3, <2>5 DEF OpenCases, RunnableStates, TerminalStates
  <2>7. d = c
    BY <2>6 DEF OneOpenCase
  <2> QED
    BY <2>4, <2>7
<1>2. ASSUME NEW a \in Pending(c) PROVE a \in Awaiting(p)
  BY <1>2, PendingRow DEF Awaiting, ActionsOf, Pending
<1> QED
  BY <1>1, <1>2

LEMMA BudgetStep ==
  TypeOK /\ ScheduleConsistent /\ OneOpenCase /\ BudgetInv /\ [Next]_vars => BudgetInv'
<1> SUFFICES ASSUME TypeOK, ScheduleConsistent, OneOpenCase, BudgetInv, [Next]_vars,
                    NEW p \in PaymentId
             PROVE  BudgetOf(p)'
  BY DEF BudgetInv
<1>1. BudgetOf(p) /\ payments[p].attempts \in Nat
  BY DEF BudgetInv, TypeOK, PaymentRow
<1>2. Cardinality(Charges(p)) \in Nat
  BY <1>1, FS_CardinalityType DEF BudgetOf
<1>3. ASSUME Charges(p)' = Charges(p), Awaiting(p)' = Awaiting(p),
             UNCHANGED payments
      PROVE  BudgetOf(p)'
  BY <1>1, <1>3 DEF BudgetOf
<1>4. ASSUME NEW c \in CaseId, Run(c) PROVE BudgetOf(p)'
  <2>1. PICK a \in ActionId, row \in ActionRow, to \in CaseState : Moves(c, a, row, to)
    BY <1>4, RunMoves
  <2>2. \A b \in ActionId : actions'[b] = IF b = a THEN row ELSE actions[b]
    BY <2>1, MovedTables
  <2>3. /\ cases[c].payment \in PaymentId /\ row.payment = cases[c].payment
        /\ cases[c].state \in RunnableStates
    BY <2>1 DEF Moves
  <2>4. actions[a].payment \in {None, cases[c].payment} /\ actions[a].executedAt = None
    BY <2>1, PendingRow
    DEF Moves, Concludes, Defers, Attempts, Resumes, Fresh, AbsentAction
  <2>5. CASE p # cases[c].payment
    <3>1. Charges(p)' = Charges(p) /\ Awaiting(p)' = Awaiting(p)
      BY <2>2, <2>3, <2>4, <2>5, WorkflowAssumption DEF Charges, Awaiting, ActionsOf
    <3>2. payments'[p] = payments[p]
      BY <2>1, <2>5 DEF Moves, Concludes, Defers, Attempts, Resumes, Waits, Acts, Settles
    <3> QED
      BY <1>1, <3>1, <3>2 DEF BudgetOf
  <2>6. CASE p = cases[c].payment
    <3>1. Awaiting(p) = Pending(c)
      BY <2>3, <2>6, AwaitingIsPending
    <3>2. Charges(p)' = IF row.executedAt # None THEN Charges(p) \cup {a} ELSE Charges(p)
      BY <2>2, <2>3, <2>4, <2>6 DEF Charges, ActionsOf
    <3>3. a \notin Charges(p)
      BY <2>4 DEF Charges
    <3>4. ASSUME Acts(c, row, to),
                 Cardinality(Charges(p)) < payments[p].attempts,
                 Cardinality(Charges(p)) + 1 < MaxAutomaticRetries,
                 Awaiting(p) \subseteq {a}
          PROVE  BudgetOf(p)'
      <4>1. row.executedAt # None
        BY <3>4, WorkflowAssumption DEF Acts, TypeOK
      <4>2. /\ Charges(p)' = Charges(p) \cup {a}
            /\ IsFiniteSet(Charges(p)')
            /\ Cardinality(Charges(p)') = Cardinality(Charges(p)) + 1
        BY <1>1, <3>2, <3>3, <4>1, FS_AddElement DEF BudgetOf
      <4>3. Awaiting(p)' = {}
        BY <2>2, <3>4, <4>1 DEF Awaiting, ActionsOf
      <4>4. payments'[p].attempts = payments[p].attempts + 1
        BY <2>6, <3>4 DEF Acts, Settles
      <4> QED
        BY <1>1, <1>2, <3>4, <4>2, <4>3, <4>4, PolicyAssumption DEF BudgetOf
    <3>5. CASE Concludes(c, a, row, to)
      <4>1. Charges(p)' = Charges(p) /\ UNCHANGED payments
        BY <3>2, <3>5 DEF Concludes, Waits
      <4>2. Awaiting(p)' = Awaiting(p)
        BY <2>2, <2>4, <3>5 DEF Concludes, Fresh, Waits, Awaiting, ActionsOf, AbsentAction
      <4> QED
        BY <1>3, <4>1, <4>2
    <3>6. CASE Defers(c, a, row, to)
      <4>1. Charges(p)' = Charges(p) /\ UNCHANGED payments
        BY <3>2, <3>6 DEF Defers, Waits
      <4>2. "RETRY_LATER" \in ActionType \ TerminalActions
        BY DEF ActionType, TerminalActions
      <4>3. /\ payments[p].status \in Unsuccessful
            /\ payments[p].attempts < MaxAutomaticRetries
        BY <2>3, <2>6, <3>6, <4>2, ApprovedPayment DEF Defers
      <4>4. Cardinality(Charges(p)) + 1 < MaxAutomaticRetries
        BY <1>1, <1>2, <4>3, PolicyAssumption DEF BudgetOf
      <4> QED
        BY <1>1, <4>1, <4>3, <4>4 DEF BudgetOf
    <3>7. CASE Attempts(c, a, row, to)
      <4>1. Pending(c) = {}
        BY <3>7 DEF Attempts, Fresh, ScheduleConsistent
      <4>2. /\ payments[p].status \in Unsuccessful
            /\ payments[p].attempts < MaxAutomaticRetries
        BY <2>3, <2>6, <3>7, ApprovedPayment DEF Attempts
      <4>3. /\ Cardinality(Charges(p)) < payments[p].attempts
            /\ Cardinality(Charges(p)) + 1 < MaxAutomaticRetries
        BY <1>1, <1>2, <4>2, PolicyAssumption DEF BudgetOf
      <4> QED
        BY <3>1, <3>4, <3>7, <4>1, <4>3 DEF Attempts
    <3>8. CASE Resumes(c, a, row, to)
      <4>1. Pending(c) = {a}
        BY <3>8 DEF Resumes, ScheduleConsistent
      <4>2. /\ Cardinality(Charges(p)) < payments[p].attempts
            /\ Cardinality(Charges(p)) + 1 < MaxAutomaticRetries
        BY <1>1, <3>1, <4>1 DEF BudgetOf
      <4> QED
        BY <3>1, <3>4, <3>8, <4>1, <4>2 DEF Resumes
    <3> QED
      BY <2>1, <3>5, <3>6, <3>7, <3>8 DEF Moves
  <2> QED
    BY <2>5, <2>6
<1>5. ASSUME ~(\E c \in CaseId : Run(c)) PROVE BudgetOf(p)'
  <2>1. actions' = actions
    BY <1>5, OtherSteps
  <2>2. Charges(p)' = Charges(p) /\ Awaiting(p)' = Awaiting(p)
    BY <2>1 DEF Charges, Awaiting, ActionsOf
  <2>3. ASSUME NEW r \in Reasons, RecordFailure(p, r) PROVE BudgetOf(p)'
    <3> DEFINE failed == [payments[p] EXCEPT !.status = "FAILED", !.reason = r,
                                             !.attempts = payments[p].attempts + 1]
    <3>1. /\ failed.status = "FAILED"
          /\ failed.attempts = payments[p].attempts + 1
      BY DEF TypeOK, PaymentRow
    <3>2. payments'[p] = failed
      BY <2>3 DEF RecordFailure, TypeOK
    <3>3. payments'[p].status = "FAILED"
          /\ payments'[p].attempts = payments[p].attempts + 1
      BY <3>1, <3>2
    <3> QED
      BY <1>1, <1>2, <2>2, <3>3 DEF BudgetOf, Unsuccessful
  <2>4. ASSUME NEW s \in PaymentStatus, NEW r \in Reasons \cup {None}, NEW amt \in Amounts,
               CreatePayment(p, s, r, amt)
        PROVE  BudgetOf(p)'
    <3>1. payments[p] = AbsentPayment /\ payments'[p] = Created(s, r, amt)
      BY <2>4 DEF CreatePayment, TypeOK
    <3>2. Charges(p) = {} /\ Cardinality(Charges(p)) = 0
      <4>1. payments[p].attempts = 0
        BY <3>1 DEF AbsentPayment
      <4> QED
        BY <1>1, <1>2, <4>1, FS_EmptySet DEF BudgetOf
    <3>3. Awaiting(p) = {}
      BY <1>1, <3>1, WorkflowAssumption
      DEF BudgetOf, AbsentPayment, Unsuccessful, PaymentStatus
    <3>4. /\ payments'[p].attempts \in Nat
          /\ payments'[p].status \in Unsuccessful => payments'[p].attempts = 1
      BY <3>1 DEF Created
    <3> QED
      BY <1>1, <2>2, <3>2, <3>3, <3>4 DEF BudgetOf
  <2>5. ASSUME payments'[p] = payments[p] PROVE BudgetOf(p)'
    BY <1>1, <2>2, <2>5 DEF BudgetOf
  <2>6. ASSUME NEW q \in PaymentId, Pay(q) PROVE BudgetOf(p)'
    <3>1. CASE q = p
      BY <2>3, <2>4, <2>6, <3>1 DEF Pay, FailOpens, FailReuses, FailInterrupted
    <3>2. CASE q # p
      <4>1. payments'[p] = payments[p]
        BY <2>6, <3>2 DEF Pay, FailOpens, FailReuses, FailInterrupted, RecordFailure,
           CreatePayment, TypeOK
      <4> QED
        BY <2>5, <4>1
    <3> QED
      BY <3>1, <3>2
  <2>7. ASSUME Tick \/ UNCHANGED vars PROVE BudgetOf(p)'
    BY <2>5, <2>7 DEF Tick, AdvanceClock, vars
  <2> QED
    BY <1>5, <2>6, <2>7 DEF Next
<1> QED
  BY <1>4, <1>5

LEMMA InitBudget == Init => BudgetInv
<1> SUFFICES ASSUME Init, NEW p \in PaymentId PROVE BudgetOf(p)
  BY DEF BudgetInv
<1>1. Charges(p) = {} /\ Awaiting(p) = {}
  BY DEF Init, Charges, Awaiting, ActionsOf, AbsentAction
<1>2. payments[p].attempts = 0 /\ payments[p].status \notin Unsuccessful
  BY WorkflowAssumption DEF Init, AbsentPayment, Unsuccessful, PaymentStatus
<1> QED
  BY <1>1, <1>2, FS_EmptySet DEF BudgetOf

\* Over all its cases, and with any number of failures reported from outside, a
\* payment is attempted automatically fewer times than max_automatic_retries.
THEOREM BudgetCorrect == Spec => []ChargeBudget
<1>1. BudgetInv => ChargeBudget
  BY DEF BudgetInv, BudgetOf, ChargeBudget
<1> QED
  BY <1>1, InitBudget, InitTyped, TypeStep, BudgetStep, ScheduleCorrect,
     OneOpenCorrect, PTL DEF Spec
-----------------------------------------------------------------------------
(* The backstop: RepeatedFailureRule bounds what a payment can fail, over  *)
(* all its cases and with retries that were approved before the last       *)
(* failure still to come.                                                  *)

\* What the policy's approval of any action says of the payment's failures.
LEMMA ApprovedFailures ==
  ASSUME NEW c \in CaseId, NEW t, Verdict(c, t) = "APPROVED",
         Cardinality(Unrecovered(cases[c].payment)) \in Nat
  PROVE  Cardinality(Unrecovered(cases[c].payment)) < RepeatedFailureLimit
<1> DEFINE d == InputFor(c, t)
<1>1. d.failures = Cardinality(Unrecovered(cases[c].payment))
  BY DEF InputFor
<1>2. Evaluate(d).outcome = "APPROVED"
  BY DEF Verdict
<1> HIDE DEF d
<1>3. ~RepeatedFailure(d)
  BY <1>2, ApprovalIsUnanimous
<1> QED
  BY <1>1, <1>3, PolicyAssumption DEF RepeatedFailure

\* The invariant: a retry that waits has its failure reserved.
FailuresOf(p) ==
  /\ IsFiniteSet(Unrecovered(p))
  /\ Cardinality(Unrecovered(p)) <= RepeatedFailureLimit
  /\ Awaiting(p) # {} => Cardinality(Unrecovered(p)) < RepeatedFailureLimit

FailuresInv == \A p \in PaymentId : FailuresOf(p)

LEMMA FailuresStep ==
  TypeOK /\ ScheduleConsistent /\ OneOpenCase /\ FailuresInv /\ [Next]_vars => FailuresInv'
<1> SUFFICES ASSUME TypeOK, ScheduleConsistent, OneOpenCase, FailuresInv, [Next]_vars,
                    NEW p \in PaymentId
             PROVE  FailuresOf(p)'
  BY DEF FailuresInv
<1>1. FailuresOf(p) /\ Cardinality(Unrecovered(p)) \in Nat
  BY FS_CardinalityType DEF FailuresInv, FailuresOf
<1>2. ASSUME Unrecovered(p)' = Unrecovered(p), Awaiting(p)' \subseteq Awaiting(p)
      PROVE  FailuresOf(p)'
  BY <1>1, <1>2 DEF FailuresOf
<1>3. ASSUME NEW c \in CaseId, Run(c) PROVE FailuresOf(p)'
  <2>1. PICK a \in ActionId, row \in ActionRow, to \in CaseState : Moves(c, a, row, to)
    BY <1>3, RunMoves
  <2>2. \A b \in ActionId : actions'[b] = IF b = a THEN row ELSE actions[b]
    BY <2>1, MovedTables
  <2>3. /\ cases[c].payment \in PaymentId /\ row.payment = cases[c].payment
        /\ cases[c].state \in RunnableStates
    BY <2>1 DEF Moves
  <2>4. actions[a].payment \in {None, cases[c].payment}
    BY <2>1, PendingRow
    DEF Moves, Concludes, Defers, Attempts, Resumes, Fresh, AbsentAction
  <2>5. CASE p # cases[c].payment
    <3>1. Unrecovered(p)' = Unrecovered(p) /\ Awaiting(p)' = Awaiting(p)
      BY <2>2, <2>3, <2>4, <2>5, WorkflowAssumption DEF Unrecovered, Awaiting, ActionsOf
    <3> QED
      BY <1>2, <3>1
  <2>6. CASE p = cases[c].payment
    <3>1. Awaiting(p) = Pending(c)
      BY <2>3, <2>6, AwaitingIsPending
    <3>2. Unrecovered(p)' \subseteq Unrecovered(p) \cup {a}
      BY <2>2 DEF Unrecovered, ActionsOf
    <3>3. ASSUME Acts(c, row, to), Awaiting(p) \subseteq {a},
                 Cardinality(Unrecovered(p)) < RepeatedFailureLimit
          PROVE  FailuresOf(p)'
      <4>1. /\ IsFiniteSet(Unrecovered(p) \cup {a})
            /\ Cardinality(Unrecovered(p) \cup {a}) \in Nat
            /\ Cardinality(Unrecovered(p) \cup {a}) <= Cardinality(Unrecovered(p)) + 1
        <5> DEFINE U == Unrecovered(p)
        <5>1. IsFiniteSet(U) /\ Cardinality(U) \in Nat
          BY <1>1 DEF FailuresOf
        <5> HIDE DEF U
        <5>2. /\ IsFiniteSet(U \cup {a})
              /\ Cardinality(U \cup {a}) = IF a \in U THEN Cardinality(U)
                                                      ELSE Cardinality(U) + 1
          BY <5>1, FS_AddElement
        <5>3. /\ IsFiniteSet(U \cup {a})
              /\ Cardinality(U \cup {a}) \in Nat
              /\ Cardinality(U \cup {a}) <= Cardinality(U) + 1
          BY <5>1, <5>2
        <5> QED
          BY <5>3 DEF U
      <4>2. /\ IsFiniteSet(Unrecovered(p)')
            /\ Cardinality(Unrecovered(p)') <= Cardinality(Unrecovered(p) \cup {a})
            /\ Cardinality(Unrecovered(p)') \in Nat
        BY <3>2, <4>1, FS_Subset, FS_CardinalityType
      <4>3. row.executedAt # None
        BY <3>3, WorkflowAssumption DEF Acts, TypeOK
      <4>4. Awaiting(p)' = {}
        BY <2>2, <3>3, <4>3 DEF Awaiting, ActionsOf
      <4> QED
        BY <1>1, <3>3, <4>1, <4>2, <4>4, PolicyAssumption DEF FailuresOf
    <3>4. ASSUME Fresh(c, a), Waits(row) PROVE Unrecovered(p)' = Unrecovered(p)
      BY <2>2, <3>4, WorkflowAssumption
      DEF Fresh, Waits, Unrecovered, ActionsOf, AbsentAction, OutcomeKind
    <3>5. CASE Concludes(c, a, row, to)
      <4>1. Awaiting(p)' \subseteq Awaiting(p)
        BY <2>2, <3>5 DEF Concludes, Awaiting, ActionsOf
      <4> QED
        BY <1>2, <3>4, <3>5, <4>1 DEF Concludes
    <3>6. CASE Defers(c, a, row, to)
      <4>1. Cardinality(Unrecovered(p)) < RepeatedFailureLimit
        BY <1>1, <2>6, <3>6, ApprovedFailures DEF Defers
      <4> QED
        BY <1>1, <3>4, <3>6, <4>1 DEF Defers, FailuresOf
    <3>7. CASE Attempts(c, a, row, to)
      <4>1. Pending(c) = {}
        BY <3>7 DEF Attempts, Fresh, ScheduleConsistent
      <4>2. Cardinality(Unrecovered(p)) < RepeatedFailureLimit
        BY <1>1, <2>6, <3>7, ApprovedFailures DEF Attempts
      <4> QED
        BY <3>1, <3>3, <3>7, <4>1, <4>2 DEF Attempts
    <3>8. CASE Resumes(c, a, row, to)
      <4>1. Pending(c) = {a}
        BY <3>8 DEF Resumes, ScheduleConsistent
      <4>2. Cardinality(Unrecovered(p)) < RepeatedFailureLimit
        BY <1>1, <3>1, <4>1 DEF FailuresOf
      <4> QED
        BY <3>1, <3>3, <3>8, <4>1, <4>2 DEF Resumes
    <3> QED
      BY <2>1, <3>5, <3>6, <3>7, <3>8 DEF Moves
  <2> QED
    BY <2>5, <2>6
<1>4. ASSUME ~(\E c \in CaseId : Run(c)) PROVE FailuresOf(p)'
  <2>1. actions' = actions
    BY <1>4, OtherSteps
  <2> QED
    BY <1>2, <2>1 DEF Unrecovered, Awaiting, ActionsOf
<1> QED
  BY <1>3, <1>4

LEMMA InitFailures == Init => FailuresInv
<1> SUFFICES ASSUME Init, NEW p \in PaymentId PROVE FailuresOf(p)
  BY DEF FailuresInv
<1>1. Unrecovered(p) = {} /\ Awaiting(p) = {}
  <2>1. \A a \in ActionId : actions[a].payment = None
    BY DEF Init, AbsentAction
  <2>2. ActionsOf(p) = {}
    BY <2>1, WorkflowAssumption DEF ActionsOf
  <2> QED
    BY <2>2 DEF Unrecovered, Awaiting
<1> QED
  BY <1>1, FS_EmptySet, PolicyAssumption DEF FailuresOf

\* Over all its cases a payment is verified as unrecovered at most
\* repeated_failure_limit times: a run, and a retry approved in an earlier run,
\* fails only while the count is below the limit.
THEOREM FailuresCorrect == Spec => []FailuresBounded
<1>1. FailuresInv => FailuresBounded
  BY DEF FailuresInv, FailuresOf, FailuresBounded
<1> QED
  BY <1>1, InitFailures, InitTyped, TypeStep, FailuresStep, ScheduleCorrect,
     OneOpenCorrect, PTL DEF Spec

-----------------------------------------------------------------------------
(* The workflow implements RecoveryPromise: each step is a step of the     *)
(* promise, or changes nothing the promise speaks of.                      *)

\* The state functions that the promise's variables stand for.
PhaseMap  == [c \in CaseId |-> PhaseOf(c)]
OwnerMap  == [c \in CaseId |-> cases[c].payment]
ChargeMap == [p \in PaymentId |-> Cardinality(Charges(p))]

LEMMA PhaseOfState ==
  ASSUME NEW c \in CaseId
  PROVE  /\ cases[c].state = None => PhaseOf(c) = "absent"
         /\ cases[c].state = "SCHEDULED" => PhaseOf(c) = "deferred"
         /\ cases[c].state = "RECOVERED" => PhaseOf(c) = "recovered"
         /\ cases[c].state = "ESCALATED" => PhaseOf(c) = "handed over"
         /\ cases[c].state = "STOPPED" => PhaseOf(c) = "given up"
         /\ cases[c].state \in {"DETECTED", "FAILED"} => PhaseOf(c) = "open"
  BY WorkflowAssumption DEF PhaseOf, CaseState

\* What a run does to the promise's variables.
LEMMA MovedMaps ==
  ASSUME TypeOK, BudgetInv, NEW c \in CaseId, NEW a \in ActionId, NEW row, NEW to,
         Moves(c, a, row, to)
  PROVE  /\ PhaseMap' = [PhaseMap EXCEPT ![c] = PhaseOf(c)']
         /\ cases'[c].state = to
         /\ OwnerMap' = OwnerMap
         /\ Waits(row) => ChargeMap' = ChargeMap /\ revenueEvents' = revenueEvents
         /\ Acts(c, row, to)
              => ChargeMap' = [ChargeMap EXCEPT ![cases[c].payment] = @ + 1]
<1>1. /\ \A d \in CaseId : cases'[d].payment = cases[d].payment
      /\ \A d \in CaseId : d # c => cases'[d] = cases[d]
      /\ cases'[c].state = to
      /\ \A b \in ActionId : actions'[b] = IF b = a THEN row ELSE actions[b]
  BY MovedTables
<1>2. /\ cases[c].payment \in PaymentId /\ row.payment = cases[c].payment
      /\ actions[a].payment \in {None, cases[c].payment} /\ actions[a].executedAt = None
  BY PendingRow DEF Moves, Concludes, Defers, Attempts, Resumes, Fresh, AbsentAction
<1>3. PhaseMap' = [PhaseMap EXCEPT ![c] = PhaseOf(c)']
  <2>1. \A d \in CaseId : d # c => PhaseOf(d)' = PhaseOf(d)
    BY <1>1 DEF PhaseOf
  <2> QED
    BY <2>1 DEF PhaseMap
<1>4. OwnerMap' = OwnerMap
  BY <1>1 DEF OwnerMap
<1>5. ASSUME Waits(row) PROVE ChargeMap' = ChargeMap /\ revenueEvents' = revenueEvents
  <2>1. \A p \in PaymentId : Charges(p)' = Charges(p)
    BY <1>1, <1>2, <1>5 DEF Waits, Charges, ActionsOf
  <2> QED
    BY <1>5, <2>1 DEF ChargeMap, Waits
<1>6. ASSUME Acts(c, row, to)
      PROVE  ChargeMap' = [ChargeMap EXCEPT ![cases[c].payment] = @ + 1]
  <2>1. row.executedAt # None
    BY <1>6, WorkflowAssumption DEF Acts, TypeOK
  <2>2. \A p \in PaymentId :
           Charges(p)' = IF p = cases[c].payment THEN Charges(p) \cup {a} ELSE Charges(p)
    BY <1>1, <1>2, <2>1, WorkflowAssumption DEF Charges, ActionsOf
  <2>3. a \notin Charges(cases[c].payment) /\ IsFiniteSet(Charges(cases[c].payment))
    BY <1>2 DEF Charges, BudgetInv, BudgetOf
  <2>4. Cardinality(Charges(cases[c].payment) \cup {a})
          = Cardinality(Charges(cases[c].payment)) + 1
    BY <2>3, FS_AddElement
  <2> QED
    BY <1>2, <2>2, <2>4 DEF ChargeMap
<1> QED
  BY <1>1, <1>3, <1>4, <1>5, <1>6

\* There is room in the budget whenever a run attempts or defers.
LEMMA RoomToMove ==
  ASSUME TypeOK, ScheduleConsistent, OneOpenCase, BudgetInv,
         NEW c \in CaseId, NEW a \in ActionId, NEW row, NEW to, Moves(c, a, row, to),
         Defers(c, a, row, to) \/ Attempts(c, a, row, to) \/ Resumes(c, a, row, to)
  PROVE  ChargeMap[cases[c].payment] < MaxAutomaticRetries
<1> DEFINE p == cases[c].payment
<1>1. /\ p \in PaymentId /\ BudgetOf(p) /\ payments[p].attempts \in Nat
      /\ cases[c].state \in RunnableStates
  BY DEF Moves, BudgetInv, TypeOK, PaymentRow
<1>2. Cardinality(Charges(p)) \in Nat
  BY <1>1, FS_CardinalityType DEF BudgetOf
<1>3. CASE Resumes(c, a, row, to)
  <2>1. Awaiting(p) # {}
    BY <1>1, <1>3, AwaitingIsPending DEF Resumes
  <2> QED
    BY <1>1, <1>2, <2>1, PolicyAssumption DEF BudgetOf, ChargeMap
<1>4. CASE Defers(c, a, row, to) \/ Attempts(c, a, row, to)
  <2>1. "RETRY_LATER" \in ActionType \ TerminalActions
    BY DEF ActionType, TerminalActions
  <2>2. payments[p].attempts < MaxAutomaticRetries
    BY <1>1, <1>4, <2>1, ApprovedPayment DEF Defers, Attempts
  <2> QED
    BY <1>1, <1>2, <2>2, PolicyAssumption DEF BudgetOf, ChargeMap
<1> QED
  BY <1>3, <1>4

LEMMA RunKeepsPromise ==
  ASSUME TypeOK, ScheduleConsistent, OneOpenCase, BudgetInv, NEW c \in CaseId, Run(c)
  PROVE  Promise!Defer(c) \/ Promise!Attempt(c) \/ Promise!Conclude(c)
<1>1. PICK a \in ActionId, row \in ActionRow, to \in CaseState : Moves(c, a, row, to)
  BY RunMoves
<1>2. /\ PhaseMap' = [PhaseMap EXCEPT ![c] = PhaseOf(c)']
      /\ cases'[c].state = to
      /\ OwnerMap' = OwnerMap
      /\ Waits(row) => ChargeMap' = ChargeMap /\ revenueEvents' = revenueEvents
      /\ Acts(c, row, to)
           => ChargeMap' = [ChargeMap EXCEPT ![cases[c].payment] = @ + 1]
  BY <1>1, MovedMaps
<1>3. /\ PhaseMap[c] = IF cases[c].state = "SCHEDULED" THEN "deferred" ELSE "open"
      /\ OwnerMap[c] = cases[c].payment
  BY <1>1, PhaseOfState DEF Moves, PhaseMap, OwnerMap, RunnableStates
<1>4. /\ to = "SCHEDULED" => PhaseOf(c)' = "deferred"
      /\ to = "RECOVERED" => PhaseOf(c)' = "recovered"
      /\ to = "ESCALATED" => PhaseOf(c)' = "handed over"
      /\ to = "STOPPED" => PhaseOf(c)' = "given up"
      /\ to = "FAILED" => PhaseOf(c)' = "open"
  BY <1>2, WorkflowAssumption DEF PhaseOf, CaseState
<1>5. CASE Concludes(c, a, row, to)
  <2>1. /\ PhaseMap[c] = "open" /\ PhaseOf(c)' \in {"handed over", "given up"}
        /\ ChargeMap' = ChargeMap /\ revenueEvents' = revenueEvents
    BY <1>2, <1>3, <1>4, <1>5 DEF Concludes, Fresh
  <2>2. Promise!Conclude(c)
    BY <1>2, <2>1 DEF Promise!Conclude, PhaseMap, OwnerMap, ChargeMap
  <2> QED
    BY <2>2
<1>6. CASE Defers(c, a, row, to)
  <2>1. /\ PhaseMap[c] = "open" /\ PhaseOf(c)' = "deferred"
        /\ ChargeMap' = ChargeMap /\ revenueEvents' = revenueEvents
        /\ ChargeMap[OwnerMap[c]] < MaxAutomaticRetries
    BY <1>1, <1>2, <1>3, <1>4, <1>6, RoomToMove DEF Defers, Fresh
  <2>2. Promise!Defer(c)
    BY <1>2, <2>1 DEF Promise!Defer, PhaseMap, OwnerMap, ChargeMap
  <2> QED
    BY <2>2
<1>7. CASE Attempts(c, a, row, to) \/ Resumes(c, a, row, to)
  <2>1. Acts(c, row, to) /\ ChargeMap[OwnerMap[c]] < MaxAutomaticRetries
    BY <1>1, <1>3, <1>7, RoomToMove DEF Attempts, Resumes
  <2>2. ChargeMap' = [ChargeMap EXCEPT ![OwnerMap[c]] = @ + 1]
    BY <1>2, <1>3, <2>1
  <2>3. \/ PhaseOf(c)' = "open" /\ revenueEvents' = revenueEvents
        \/ /\ PhaseOf(c)' = "recovered"
           /\ revenueEvents' = [revenueEvents EXCEPT ![c] = @ + 1]
    BY <1>4, <2>1 DEF Acts
  <2>4. PhaseMap[c] \in {"open", "deferred"}
    BY <1>3
  <2>5. Promise!Attempt(c)
    BY <1>2, <2>1, <2>2, <2>3, <2>4
    DEF Promise!Attempt, Promise!Working, PhaseMap, OwnerMap, ChargeMap
  <2> QED
    BY <2>5
<1> QED
  BY <1>1, <1>5, <1>6, <1>7 DEF Moves

\* Every behaviour of the recovery core is one the promise allows: a finished
\* case stays finished, a payment has one case in hand at a time, revenue is
\* credited only in the step that captures it, and the budget bounds attempts.
THEOREM PromiseKept == Spec => KeepsPromise
<1>1. Init => Promise!PromiseInit
  <2> SUFFICES ASSUME Init PROVE Promise!PromiseInit
    OBVIOUS
  <2>1. PhaseMap = [c \in CaseId |-> "absent"]
    BY PhaseOfState DEF Init, PhaseMap, AbsentCase
  <2>2. OwnerMap = [c \in CaseId |-> None]
    BY DEF Init, OwnerMap, AbsentCase
  <2>3. \A p \in PaymentId : Charges(p) = {}
    BY DEF Init, Charges, ActionsOf, AbsentAction
  <2>4. ChargeMap = [p \in PaymentId |-> 0]
    BY <2>3, FS_EmptySet DEF ChargeMap
  <2> QED
    BY <2>1, <2>2, <2>4 DEF Init, Promise!PromiseInit, PhaseMap, OwnerMap, ChargeMap
<1>2. TypeOK /\ ScheduleConsistent /\ OneOpenCase /\ BudgetInv /\ [Next]_vars
        => [Promise!PromiseNext]_(Promise!promiseVars)
  <2> SUFFICES ASSUME TypeOK, ScheduleConsistent, OneOpenCase, BudgetInv, [Next]_vars
               PROVE  Promise!PromiseNext \/ UNCHANGED Promise!promiseVars
    OBVIOUS
  <2>1. ASSUME NEW c \in CaseId, Run(c) PROVE Promise!PromiseNext
    BY <2>1, RunKeepsPromise DEF Promise!PromiseNext
  <2>2. ASSUME NEW p \in PaymentId, NEW c \in CaseId, OpenCase(p, c),
               actions' = actions, revenueEvents' = revenueEvents
        PROVE  Promise!Take(c, p)
    <3>1. /\ OpenCases(p) = {}
          /\ cases[c].state = None
          /\ cases'[c].state = "DETECTED" /\ cases'[c].payment = p
          /\ \A d \in CaseId : d # c => cases'[d] = cases[d]
      BY <2>2 DEF OpenCase, TypeOK, AbsentCase
    <3>2. PhaseMap[c] = "absent"
      BY <3>1, PhaseOfState DEF PhaseMap
    <3>3. ASSUME NEW d \in CaseId, OwnerMap[d] = p PROVE PhaseMap[d] \in Promise!Settled
      <4>1. cases[d].state \in TerminalStates
        BY <3>1, <3>3 DEF OwnerMap, OpenCases
      <4> QED
        BY <4>1, PhaseOfState DEF PhaseMap, TerminalStates, Promise!Settled
    <3>4. PhaseOf(c)' = "open" /\ \A d \in CaseId : d # c => PhaseOf(d)' = PhaseOf(d)
      BY <3>1, WorkflowAssumption DEF PhaseOf, CaseState
    <3>5. PhaseMap' = [PhaseMap EXCEPT ![c] = "open"]
      BY <3>4 DEF PhaseMap
    <3>6. OwnerMap' = [OwnerMap EXCEPT ![c] = p]
      BY <3>1 DEF OwnerMap
    <3>7. ChargeMap' = ChargeMap
      BY <2>2 DEF ChargeMap, Charges, ActionsOf
    <3> QED
      BY <2>2, <3>2, <3>3, <3>5, <3>6, <3>7
      DEF Promise!Take, PhaseMap, OwnerMap, ChargeMap
  <2>3. ASSUME cases' = cases, actions' = actions, revenueEvents' = revenueEvents
        PROVE  UNCHANGED Promise!promiseVars
    BY <2>3 DEF Promise!promiseVars, PhaseOf, Charges, ActionsOf
  <2>4. CASE ~(\E c \in CaseId : Run(c))
    <3>1. /\ actions' = actions
          /\ \/ cases' = cases
             \/ \E p \in PaymentId, c \in CaseId : OpenCase(p, c)
      BY <2>4, OtherSteps
    <3>2. revenueEvents' = revenueEvents
      BY <2>4 DEF Next, Pay, Tick, CreatePayment, FailOpens, FailReuses,
         FailInterrupted, AdvanceClock, vars
    <3> QED
      BY <2>2, <2>3, <3>1, <3>2 DEF Promise!PromiseNext
  <2> QED
    BY <2>1, <2>4
<1> QED
  BY <1>1, <1>2, InitBudget, InitTyped, TypeStep, ScheduleCorrect, OneOpenCorrect,
     BudgetStep, PTL DEF Spec, KeepsPromise, Promise!PromiseSpec
=============================================================================

--------------------------- MODULE ChannelsProofs ---------------------------
(***************************************************************************)
(* Theorems about the recovery core with the portal, the voice calls, the  *)
(* autopilot and the operators at work on it, for any tables and policy.   *)
(***************************************************************************)
EXTENDS RecoveryChannels, RecoveryWorkflowProofs, SequenceTheorems

-----------------------------------------------------------------------------
(* The invariant.                                                          *)

Rows == {a \in ActionId : actions[a] # AbsentAction}

Failures(c) == {a \in ActionId : /\ actions[a].case = c
                                 /\ actions[a].outcome = "UNRECOVERED"}

Present(c)    == cases[c] # AbsentCase
Unfinished(c) == Present(c) /\ cases[c].state \notin TerminalStates

\* A case that can still be run has failed no more often than the backstop
\* allows, and one that waits has its next failure reserved.  The portal rewrites
\* failures, but only those of a case that it finishes.
BackstopPart(c) ==
  Unfinished(c) =>
    /\ Cardinality(Failures(c)) <= RepeatedFailureLimit
    /\ cases[c].state = "SCHEDULED" => Cardinality(Failures(c)) < RepeatedFailureLimit

\* A failure is a failure of an attempt.
FailuresRan ==
  \A a \in ActionId : actions[a].outcome = "UNRECOVERED" => actions[a].executedAt # None

\* The wait of the autopilot's case is over, or about to be: its next run acts.
Awaited(c) ==
  /\ cases[c].state = "SCHEDULED"
  /\ batch.step = "advance" \/ \A a \in Pending(c) : actions[a].due <= clock

\* Each failure of the case in hand has cost it two runs at most, one that waited
\* and one that acted, and the wait it is in one.
Spent(c) == 2 * Cardinality(Failures(c)) + (IF Awaited(c) THEN 1 ELSE 0)

\* The case in hand, unless an operator has replaced its row, has had no more runs
\* than its failures account for, and is finished once the autopilot means to leave
\* it.  Every case begins with a refresh.
BatchPart ==
  /\ batch.current = None => batch.step = "refresh"
  /\ \A c \in CaseId : batch.current = c /\ c \notin batch.upset =>
       /\ Unfinished(c) => batch.runs <= Spent(c)
       /\ batch.step = "leave" => cases[c].state \in TerminalStates

\* What the workflow and the portal keep true of the tables they share.
TablesInv ==
  /\ TypeOK
  /\ ScheduleConsistent
  /\ OneOpenCase
  /\ IsFiniteSet(Rows)
  /\ RevenueReported
  /\ FailuresRan
  /\ \A c \in CaseId : BackstopPart(c)

ChannelsInv == ChannelsTypeOK /\ TablesInv /\ BatchPart

-----------------------------------------------------------------------------
(* What the portal does.                                                   *)

\* A path begins with the case's state and the first state it is walked through.
LEMMA PathHead ==
  ASSUME NEW S, NEW x \in S, NEW via \in Seq(S), NEW y \in S, 1 <= Len(via)
  PROVE  LET path == <<x>> \o via \o <<y>>
         IN  1 \in 1..(Len(path) - 1) /\ path[1] = x /\ path[2] = via[1]
<1> DEFINE front == <<x>> \o via
<1>1. /\ <<x>> \in Seq(S) /\ Len(<<x>>) = 1 /\ <<x>>[1] = x
      /\ <<y>> \in Seq(S) /\ Len(<<y>>) = 1 /\ Len(via) \in Nat
  OBVIOUS
<1>2. /\ front \in Seq(S) /\ Len(front) = 1 + Len(via)
      /\ front[1] = x /\ front[2] = via[1]
  <2>1. /\ front \in Seq(S)
        /\ Len(front) = Len(<<x>>) + Len(via)
        /\ \A i \in 1..(Len(<<x>>) + Len(via)) :
              front[i] = IF i <= Len(<<x>>) THEN <<x>>[i] ELSE via[i - Len(<<x>>)]
    BY <1>1, ConcatProperties
  <2> HIDE DEF front
  <2> QED
    BY <1>1, <2>1
<1> HIDE DEF front
<1> DEFINE path == front \o <<y>>
<1>3. /\ Len(path) = Len(front) + Len(<<y>>)
      /\ \A i \in 1..(Len(front) + Len(<<y>>)) :
            path[i] = IF i <= Len(front) THEN front[i] ELSE <<y>>[i - Len(front)]
  BY <1>1, <1>2, ConcatProperties
<1> HIDE DEF path
<1>4. 1 \in 1..(Len(path) - 1) /\ path[1] = x /\ path[2] = via[1]
  BY <1>1, <1>2, <1>3
<1> QED
  BY <1>4 DEF path, front

\* The table has no way from SCHEDULED to the portal's path.
LEMMA PortalRefusesWaiting == ~Legal("SCHEDULED", PortalPath, "RECOVERED")
<1> DEFINE path == <<"SCHEDULED">> \o PortalPath \o <<"RECOVERED">>
<1>1. /\ PortalPath \in Seq(CaseState) /\ 1 <= Len(PortalPath)
      /\ PortalPath[1] = "DIAGNOSING"
  <2> DEFINE last == <<"APPROVED", "EXECUTING", "VERIFYING">>
  <2>1. /\ ToPolicyGate \in Seq(CaseState) /\ Len(ToPolicyGate) = 5
        /\ ToPolicyGate[1] = "DIAGNOSING"
    BY DEF ToPolicyGate, CaseState
  <2>2. last \in Seq(CaseState) /\ Len(last) = 3
    BY DEF CaseState
  <2> HIDE DEF last
  <2>3. /\ ToPolicyGate \o last \in Seq(CaseState)
        /\ Len(ToPolicyGate \o last) = Len(ToPolicyGate) + Len(last)
        /\ \A i \in 1..(Len(ToPolicyGate) + Len(last)) : (ToPolicyGate \o last)[i]
              = IF i <= Len(ToPolicyGate) THEN ToPolicyGate[i]
                                          ELSE last[i - Len(ToPolicyGate)]
    BY <2>1, <2>2, ConcatProperties
  <2>4. PortalPath = ToPolicyGate \o last
    BY DEF PortalPath, last
  <2> QED
    BY <2>1, <2>2, <2>3, <2>4
<1>2. 1 \in 1..(Len(path) - 1) /\ path[1] = "SCHEDULED" /\ path[2] = "DIAGNOSING"
  <2>1. "SCHEDULED" \in CaseState /\ "RECOVERED" \in CaseState
    BY DEF CaseState
  <2> QED
    BY <1>1, <2>1, PathHead
<1>3. "DIAGNOSING" \notin Transitions["SCHEDULED"]
  BY DEF Transitions, CaseState, TerminalStates
<1> HIDE DEF path
<1>4. path[1 + 1] \notin Transitions[path[1]]
  BY <1>2, <1>3
<1>5. Legal("SCHEDULED", PortalPath, "RECOVERED")
        => path[1 + 1] \in Transitions[path[1]]
  BY <1>2 DEF Legal, path
<1> QED
  BY <1>4, <1>5

\* The outcome of an action, rewritten, is typed and waits for nothing new.
LEMMA CreditedRow ==
  ASSUME TypeOK, NEW row \in ActionRow, row.payment \in PaymentId
  PROVE  /\ Credited(row) \in ActionRow
         /\ Credited(row).case = row.case
         /\ Credited(row).payment = row.payment
         /\ Credited(row).type = row.type
         /\ Credited(row).due = row.due
         /\ Credited(row).executedAt = row.executedAt
         /\ Credited(row).outcome = "RECOVERED"
         /\ Credited(row).status = IF row.outcome = None THEN row.status ELSE "EXECUTED"
<1>1. payments[row.payment].amount \in Nat
  BY DEF TypeOK, PaymentRow
<1> QED
  BY <1>1 DEF Credited, ActionRow, ActionStatus, OutcomeKind

\* The effect of customer_complete_recovery, in the terms the proofs use.
Completes(c, latest) ==
  /\ Present(c) /\ cases[c].payment \in PaymentId
  /\ cases[c].state # "SCHEDULED"
  /\ cases' = [cases EXCEPT ![c].state = "RECOVERED"]
  /\ Settles(cases[c].payment)
  /\ payments'[cases[c].payment].status = "SUCCEEDED"
  /\ latest \subseteq {a \in ActionId : actions[a].case = c}
  /\ \E a : latest \subseteq {a}
  /\ actions' = [a \in ActionId |-> IF a \in latest THEN Credited(actions[a])
                                                     ELSE actions[a]]
  /\ revenueEvents' \in [CaseId -> Nat]
  /\ revenueEvents'[c] >= revenueEvents[c] + 1
  /\ \A d \in CaseId : d # c => revenueEvents'[d] = revenueEvents[d]
  /\ UNCHANGED <<clock, createdAt, batch>>

LEMMA PortalEffect ==
  ASSUME TypeOK, NEW c \in CaseId, NEW latest, PortalCompletes(c, latest),
         latest \subseteq {a \in ActionId : actions[a].case = c},
         NEW a, latest \subseteq {a}
  PROVE  Completes(c, latest)
<1>1. Present(c) /\ cases[c].payment \in PaymentId
  BY DEF PortalCompletes, TypeOK, Present
<1>2. cases[c].state # "SCHEDULED" /\ cases' = [cases EXCEPT ![c].state = "RECOVERED"]
  <2>1. CASE cases[c].state \in {"FAILED", "SCHEDULED"}
    <3>1. Legal(cases[c].state, PortalPath, "RECOVERED")
          /\ cases' = [cases EXCEPT ![c].state = "RECOVERED"]
      BY <2>1 DEF PortalCompletes, PortalSettlesCase, Advance
    <3> QED
      BY <3>1, PortalRefusesWaiting
  <2>2. CASE cases[c].state \notin {"FAILED", "SCHEDULED"}
    BY <2>2 DEF PortalCompletes, PortalSettlesCase
  <2> QED
    BY <2>1, <2>2
<1>3. Settles(cases[c].payment) /\ payments'[cases[c].payment].status = "SUCCEEDED"
  <2> DEFINE p == cases[c].payment
             settled == [payments[p] EXCEPT !.status = "SUCCEEDED", !.reason = None,
                                            !.attempts = payments[p].attempts + 1]
  <2>1. payments[p] \in PaymentRow /\ payments[p].attempts + 1 \in Nat
    BY <1>1 DEF TypeOK, PaymentRow
  <2>2. /\ settled \in PaymentRow
        /\ settled.status = "SUCCEEDED"
        /\ settled.attempts = payments[p].attempts + 1
        /\ settled.amount = payments[p].amount
    BY <2>1 DEF PaymentRow, PaymentStatus
  <2>3. payments' = [payments EXCEPT ![p] = settled]
    BY DEF PortalCompletes, SettlePayment
  <2> HIDE DEF settled
  <2> QED
    BY <1>1, <2>2, <2>3 DEF TypeOK, Settles
<1>4. /\ revenueEvents' \in [CaseId -> Nat]
      /\ revenueEvents'[c] >= revenueEvents[c] + 1
      /\ \A d \in CaseId : d # c => revenueEvents'[d] = revenueEvents[d]
  <2> DEFINE n == Cardinality({b \in latest : actions[b].outcome = None})
  <2>1. IsFiniteSet({a})
    BY FS_Singleton
  <2>2. {b \in latest : actions[b].outcome = None} \subseteq {a}
    OBVIOUS
  <2>3. n \in Nat
    BY <2>1, <2>2, FS_Subset, FS_CardinalityType
  <2>4. revenueEvents' = [revenueEvents EXCEPT ![c] = @ + 1 + n]
    BY DEF PortalCompletes, PortalReports
  <2> HIDE DEF n
  <2> QED
    BY <2>3, <2>4 DEF TypeOK
<1> QED
  BY <1>1, <1>2, <1>3, <1>4 DEF Completes, PortalCompletes

LEMMA CustomerEffect ==
  ASSUME TypeOK, NEW c \in CaseId, CustomerRecovers(c)
  PROVE  \E latest \in SUBSET ActionId : Completes(c, latest)
<1>1. CASE PortalCompletes(c, {})
  BY <1>1, PortalEffect
<1>2. CASE \E a \in Latest(c) : PortalCompletes(c, {a})
  <2>1. PICK a \in Latest(c) : PortalCompletes(c, {a})
    BY <1>2
  <2>2. a \in ActionId /\ actions[a].case = c
    BY DEF Latest
  <2> QED
    BY <2>1, <2>2, PortalEffect
<1> QED
  BY <1>1, <1>2 DEF CustomerRecovers
\* What the portal leaves of the tables, row by row.
LEMMA CompletedTables ==
  ASSUME TypeOK, NEW c \in CaseId, NEW latest, Completes(c, latest)
  PROVE  /\ \A d \in CaseId : cases'[d].payment = cases[d].payment
         /\ \A d \in CaseId : d # c => cases'[d] = cases[d]
         /\ cases'[c].state = "RECOVERED"
         /\ \A a \in ActionId : a \notin latest => actions'[a] = actions[a]
         /\ \A a \in latest :
              /\ actions[a] \in ActionRow /\ actions[a].case = c
              /\ actions[a].payment = cases[c].payment
              /\ actions'[a] = Credited(actions[a])
              /\ actions'[a] \in ActionRow
              /\ actions'[a].case = c
              /\ actions'[a].payment = cases[c].payment
              /\ actions'[a].type = actions[a].type
              /\ actions'[a].due = actions[a].due
              /\ actions'[a].executedAt = actions[a].executedAt
              /\ actions'[a].outcome = "RECOVERED"
              /\ None \notin {actions'[a].type, actions'[a].status}
<1>1. /\ \A d \in CaseId : cases'[d].payment = cases[d].payment
      /\ \A d \in CaseId : d # c => cases'[d] = cases[d]
      /\ cases'[c].state = "RECOVERED"
  BY DEF Completes, TypeOK, CaseRow
<1>2. \A a \in ActionId : a \notin latest => actions'[a] = actions[a]
  BY DEF Completes
<1>3. ASSUME NEW a \in latest
      PROVE  /\ actions[a] \in ActionRow /\ actions[a].case = c
             /\ actions[a].payment = cases[c].payment
             /\ actions'[a] = Credited(actions[a])
             /\ actions'[a] \in ActionRow
             /\ actions'[a].case = c
             /\ actions'[a].payment = cases[c].payment
             /\ actions'[a].type = actions[a].type
             /\ actions'[a].due = actions[a].due
             /\ actions'[a].executedAt = actions[a].executedAt
             /\ actions'[a].outcome = "RECOVERED"
             /\ None \notin {actions'[a].type, actions'[a].status}
  <2>1. a \in ActionId /\ actions[a].case = c /\ actions'[a] = Credited(actions[a])
    BY DEF Completes
  <2>2. actions[a] # AbsentAction
    BY <2>1, WorkflowAssumption DEF AbsentAction
  <2>3. /\ actions[a] \in ActionRow /\ actions[a].payment = cases[c].payment
        /\ actions[a].payment \in PaymentId
        /\ None \notin {actions[a].type, actions[a].status}
    BY <2>1, <2>2 DEF TypeOK
  <2> DEFINE row == actions[a]
  <2>4. /\ Credited(row) \in ActionRow
        /\ Credited(row).case = row.case
        /\ Credited(row).payment = row.payment
        /\ Credited(row).type = row.type
        /\ Credited(row).due = row.due
        /\ Credited(row).executedAt = row.executedAt
        /\ Credited(row).outcome = "RECOVERED"
        /\ Credited(row).status = IF row.outcome = None THEN row.status ELSE "EXECUTED"
    BY <2>3, CreditedRow
  <2>5. "EXECUTED" # None
    BY WorkflowAssumption DEF ActionStatus
  <2> QED
    BY <2>1, <2>3, <2>4, <2>5
<1> QED
  BY <1>1, <1>2, <1>3

LEMMA PortalTyped ==
  ASSUME TypeOK, NEW c \in CaseId, NEW latest, Completes(c, latest)
  PROVE  TypeOK'
<1>1. /\ \A d \in CaseId : cases'[d].payment = cases[d].payment
      /\ \A d \in CaseId : d # c => cases'[d] = cases[d]
      /\ cases'[c].state = "RECOVERED"
      /\ \A a \in ActionId : a \notin latest => actions'[a] = actions[a]
      /\ \A a \in latest : /\ actions'[a] \in ActionRow
                           /\ actions'[a].case = c
                           /\ actions'[a].payment = cases[c].payment
                           /\ None \notin {actions'[a].type, actions'[a].status}
  BY CompletedTables
<1>2. /\ Present(c) /\ cases[c].payment \in PaymentId
      /\ cases' = [cases EXCEPT ![c].state = "RECOVERED"]
      /\ Settles(cases[c].payment)
      /\ actions' = [a \in ActionId |-> IF a \in latest THEN Credited(actions[a])
                                                       ELSE actions[a]]
      /\ revenueEvents' \in [CaseId -> Nat] /\ clock' = clock
  BY DEF Completes
<1>3. /\ payments' \in [PaymentId -> PaymentRow]
      /\ \A p \in PaymentId : payments[p] # AbsentPayment => payments'[p] # AbsentPayment
  BY <1>2, SettledPresent DEF Settles
<1>4. cases' \in [CaseId -> CaseRow]
  BY <1>2 DEF TypeOK, CaseRow, CaseState
<1>5. \A d \in CaseId :
        \/ cases'[d] = AbsentCase
        \/ /\ cases'[d].state \in RunnableStates \cup TerminalStates
           /\ cases'[d].payment \in PaymentId
           /\ payments'[cases'[d].payment] # AbsentPayment
  <2>1. "RECOVERED" \in RunnableStates \cup TerminalStates
    BY DEF TerminalStates
  <2>2. payments[cases[c].payment] # AbsentPayment
    BY <1>2 DEF TypeOK, Present
  <2> QED
    BY <1>1, <1>2, <1>3, <2>1, <2>2 DEF TypeOK
<1>6. actions' \in [ActionId -> ActionRow]
  <2>1. \A a \in ActionId : actions'[a] \in ActionRow
    BY <1>1 DEF TypeOK
  <2>2. actions' = [a \in ActionId |-> actions'[a]]
    BY <1>2
  <2> QED
    BY <2>1, <2>2
<1>7. \A a \in ActionId :
        \/ actions'[a] = AbsentAction
        \/ /\ actions'[a].case \in CaseId
           /\ actions'[a].payment = cases'[actions'[a].case].payment
           /\ actions'[a].payment \in PaymentId
           /\ None \notin {actions'[a].type, actions'[a].status}
  <2>1. ASSUME NEW a \in latest
        PROVE  /\ actions'[a].case \in CaseId
               /\ actions'[a].payment = cases'[actions'[a].case].payment
               /\ actions'[a].payment \in PaymentId
               /\ None \notin {actions'[a].type, actions'[a].status}
    BY <1>1, <1>2
  <2>2. ASSUME NEW a \in ActionId, a \notin latest, actions[a] # AbsentAction
        PROVE  /\ actions'[a] = actions[a]
               /\ actions[a].case \in CaseId
               /\ actions[a].payment = cases'[actions[a].case].payment
               /\ actions[a].payment \in PaymentId
               /\ None \notin {actions[a].type, actions[a].status}
    BY <1>1, <2>2 DEF TypeOK
  <2> QED
    BY <1>1, <2>1, <2>2
<1>8. clock' \in Nat
  BY <1>2 DEF TypeOK
<1> QED
  BY <1>2, <1>3, <1>4, <1>5, <1>6, <1>7, <1>8 DEF TypeOK

\* Nothing starts or stops waiting when a customer pays.
LEMMA PortalWaits ==
  ASSUME TypeOK, ScheduleConsistent, NEW c \in CaseId, NEW latest, Completes(c, latest)
  PROVE  /\ \A d \in CaseId : Pending(d)' = Pending(d)
         /\ \A d \in CaseId : \A a \in Pending(d) : actions'[a] = actions[a]
         /\ \A d \in CaseId : cases'[d].state = "SCHEDULED" <=> cases[d].state = "SCHEDULED"
<1>1. /\ \A d \in CaseId : d # c => cases'[d] = cases[d]
      /\ cases'[c].state = "RECOVERED"
      /\ \A a \in ActionId : a \notin latest => actions'[a] = actions[a]
      /\ \A a \in latest : /\ actions'[a].case = c
                           /\ actions[a].case = c
                           /\ actions'[a].due = actions[a].due
                           /\ actions'[a].executedAt = actions[a].executedAt
  BY CompletedTables
<1>2. cases[c].state # "SCHEDULED"
  BY DEF Completes
<1>3. Pending(c) = {}
  BY <1>2 DEF ScheduleConsistent
<1>4. \A d \in CaseId : Pending(d)' = Pending(d)
  BY <1>1 DEF Pending
<1>5. \A d \in CaseId : \A a \in Pending(d) : a \notin latest
  BY <1>1, <1>3 DEF Pending
<1> QED
  BY <1>1, <1>2, <1>4, <1>5 DEF Pending

LEMMA PortalSchedule ==
  ASSUME TypeOK, ScheduleConsistent, NEW c \in CaseId, NEW latest, Completes(c, latest)
  PROVE  ScheduleConsistent'
<1>1. /\ \A d \in CaseId : Pending(d)' = Pending(d)
      /\ \A d \in CaseId : \A a \in Pending(d) : actions'[a] = actions[a]
      /\ \A d \in CaseId : cases'[d].state = "SCHEDULED" <=> cases[d].state = "SCHEDULED"
  BY PortalWaits
<1>2. clock' = clock
  BY DEF Completes
<1> QED
  BY <1>1, <1>2 DEF ScheduleConsistent

LEMMA PortalOneOpen ==
  ASSUME TypeOK, OneOpenCase, NEW c \in CaseId, NEW latest, Completes(c, latest)
  PROVE  OneOpenCase'
<1>1. /\ \A d \in CaseId : cases'[d].payment = cases[d].payment
      /\ \A d \in CaseId : d # c => cases'[d] = cases[d]
      /\ cases'[c].state = "RECOVERED"
  BY CompletedTables
<1>2. \A p \in PaymentId : OpenCases(p)' \subseteq OpenCases(p)
  BY <1>1 DEF OpenCases, TerminalStates
<1> QED
  BY <1>2 DEF OneOpenCase

-----------------------------------------------------------------------------
(* What the operators do.                                                  *)

\* Both empty the queue: no actions, no revenue, no batch, and at most the cases
\* that the demo is seeded with.
Rebuilt ==
  /\ payments' \in [PaymentId -> PaymentRow]
  /\ cases' \in [CaseId -> CaseRow]
  /\ \A c \in CaseId :
       \/ cases'[c] = AbsentCase
       \/ /\ cases'[c].state = "DETECTED" /\ clock' = 0
          /\ cases'[c].payment \in PaymentId
          /\ payments'[cases'[c].payment] # AbsentPayment
  /\ \A c, d \in CaseId :
       cases'[c] # AbsentCase /\ cases'[d] # AbsentCase
         /\ cases'[c].payment = cases'[d].payment => c = d
  /\ actions' = [a \in ActionId |-> AbsentAction]
  /\ revenueEvents' = [c \in CaseId |-> 0]
  /\ createdAt' = [a \in ActionId |-> 0]
  /\ RowsDeleted
  /\ clock' \in Nat

LEMMA AbsentRows ==
  /\ AbsentPayment \in PaymentRow /\ AbsentCase \in CaseRow /\ AbsentAction \in ActionRow
  BY DEF AbsentPayment, AbsentCase, AbsentAction, PaymentRow, CaseRow, ActionRow

LEMMA ClearRebuilds == TypeOK /\ ClearCases => Rebuilt
<1> SUFFICES ASSUME TypeOK, ClearCases PROVE Rebuilt
  OBVIOUS
<1>1. \A c \in CaseId : cases'[c] = AbsentCase
  BY DEF ClearCases
<1>2. /\ payments' \in [PaymentId -> PaymentRow] /\ cases' \in [CaseId -> CaseRow]
      /\ clock' \in Nat
  BY AbsentRows DEF ClearCases, TypeOK
<1> QED
  BY <1>1, <1>2 DEF ClearCases, Rebuilt

LEMMA SeedRowsPresent ==
  ASSUME NEW row \in SeedRows
  PROVE  row \in PaymentRow /\ row # AbsentPayment
<1>1. PICK r \in Reasons, amt \in Amounts, n \in {1, MaxAutomaticRetries} :
        row = Seeded(r, amt, n)
  BY DEF SeedRows
<1>2. r \in FailureReason /\ amt \in Nat /\ n \in Nat
  BY <1>1, WorkflowAssumption, PolicyAssumption
<1>3. row.status \in {"ABANDONED", "FAILED"}
  BY <1>1 DEF Seeded
<1>4. row \in PaymentRow
  BY <1>1, <1>2 DEF Seeded, PaymentRow, PaymentStatus
<1>5. None \notin {"ABANDONED", "FAILED"}
  BY WorkflowAssumption DEF PaymentStatus
<1> QED
  BY <1>3, <1>4, <1>5 DEF AbsentPayment

LEMMA ResetRebuilds ==
  ASSUME TypeOK, NEW seed \in [PaymentId -> SeedRows], NEW home \in [PaymentId -> CaseId],
         ResetDemo(seed, home)
  PROVE  Rebuilt
<1> DEFINE owner(c) == CHOOSE p \in PaymentId : home[p] = c
           homes == {c \in CaseId : \E p \in PaymentId : home[p] = c}
<1>1. \A c \in homes : owner(c) \in PaymentId /\ home[owner(c)] = c
  OBVIOUS
<1>2. \A c \in CaseId : cases'[c] = IF c \in homes
                                     THEN [state |-> "DETECTED", payment |-> owner(c)]
                                     ELSE AbsentCase
  BY DEF ResetDemo
<1>3. cases' = [c \in CaseId |-> cases'[c]]
  BY DEF ResetDemo
<1> HIDE DEF owner, homes
<1>4. /\ payments' \in [PaymentId -> PaymentRow]
      /\ \A p \in PaymentId : payments'[p] # AbsentPayment
  BY SeedRowsPresent DEF ResetDemo
<1>5. \A c \in CaseId : cases'[c] \in CaseRow
  <2>1. \A p \in PaymentId : [state |-> "DETECTED", payment |-> p] \in CaseRow
    BY DEF CaseRow, CaseState
  <2> QED
    BY <1>1, <1>2, <2>1, AbsentRows
<1>6. cases' \in [CaseId -> CaseRow]
  BY <1>3, <1>5
<1>7. \A c \in CaseId :
        \/ cases'[c] = AbsentCase
        \/ /\ c \in homes
           /\ cases'[c].state = "DETECTED" /\ clock' = 0
           /\ cases'[c].payment = owner(c)
           /\ cases'[c].payment \in PaymentId
           /\ payments'[cases'[c].payment] # AbsentPayment
  BY <1>1, <1>2, <1>4 DEF ResetDemo
<1>8. \A c, d \in CaseId :
        cases'[c] # AbsentCase /\ cases'[d] # AbsentCase
          /\ cases'[c].payment = cases'[d].payment => c = d
  BY <1>1, <1>7
<1> QED
  BY <1>4, <1>6, <1>7, <1>8 DEF ResetDemo, Rebuilt

LEMMA OperatorsRebuild == TypeOK /\ Operators => Rebuilt
  BY ClearRebuilds, ResetRebuilds DEF Operators

\* An emptied queue is in order.
LEMMA RebuiltTables == Rebuilt => TablesInv'
<1> SUFFICES ASSUME Rebuilt PROVE TablesInv'
  OBVIOUS
<1>1. ASSUME NEW a \in ActionId
      PROVE  /\ actions'[a] = AbsentAction /\ actions'[a].case = None
             /\ actions'[a].due = None /\ actions'[a].outcome = None
  BY DEF Rebuilt, AbsentAction
<1>2. None \notin CaseId /\ None \notin OutcomeKind
  BY WorkflowAssumption
<1>3. Rows' = {} /\ \A c \in CaseId : Failures(c)' = {} /\ Pending(c)' = {} /\ Won(c)' = {}
  BY <1>1, <1>2 DEF Rows, Failures, Pending, Won
<1>4. IsFiniteSet({}) /\ Cardinality({}) = 0
  BY FS_EmptySet
<1>5. \A c \in CaseId : cases'[c] = AbsentCase \/ cases'[c].state = "DETECTED"
  BY DEF Rebuilt
<1>6. TypeOK'
  BY <1>1, AbsentRows DEF Rebuilt, TypeOK, RunnableStates
<1>7. ScheduleConsistent'
  BY <1>3, <1>5, WorkflowAssumption DEF ScheduleConsistent, AbsentCase, CaseState
<1>8. OneOpenCase'
  <2>1. \A p \in PaymentId : \A c \in OpenCases(p)' :
           c \in CaseId /\ cases'[c] # AbsentCase /\ cases'[c].payment = p
    BY WorkflowAssumption DEF OpenCases, AbsentCase
  <2> QED
    BY <2>1 DEF Rebuilt, OneOpenCase
<1>9. RevenueReported'
  <2>1. \A c \in CaseId : Cardinality(Won(c)') <= revenueEvents'[c]
    BY <1>3, <1>4 DEF Rebuilt
  <2> QED
    BY <2>1 DEF RevenueReported, Won
<1>10. \A c \in CaseId : BackstopPart(c)'
  <2>1. \A c \in CaseId : Cardinality(Failures(c))' = 0
    BY <1>3, <1>4
  <2>2. \A c \in CaseId : Unfinished(c)' => cases'[c].state # "SCHEDULED"
    BY <1>5 DEF Unfinished, Present
  <2> QED
    BY <2>1, <2>2, PolicyAssumption DEF BackstopPart
<1>11. FailuresRan'
  BY <1>1, <1>2 DEF FailuresRan, OutcomeKind
<1> QED
  BY <1>3, <1>4, <1>6, <1>7, <1>8, <1>9, <1>10, <1>11 DEF TablesInv

-----------------------------------------------------------------------------
(* What a step does to the failures of a case.                             *)

LEMMA RowsFinite ==
  ASSUME IsFiniteSet(Rows)
  PROVE  /\ \A c \in CaseId : /\ IsFiniteSet(Failures(c)) /\ Cardinality(Failures(c)) \in Nat
                              /\ IsFiniteSet(Won(c)) /\ Cardinality(Won(c)) \in Nat
         /\ \A p \in PaymentId : /\ IsFiniteSet(Unrecovered(p))
                                 /\ Cardinality(Unrecovered(p)) \in Nat
<1>1. \A c \in CaseId : Failures(c) \subseteq Rows /\ Won(c) \subseteq Rows
  BY WorkflowAssumption DEF Failures, Won, Rows, AbsentAction
<1>2. \A p \in PaymentId : Unrecovered(p) \subseteq Rows
  BY WorkflowAssumption DEF Unrecovered, ActionsOf, Rows, AbsentAction
<1> QED
  BY <1>1, <1>2, FS_Subset, FS_CardinalityType

\* The backstop counts a payment's failures; a case has no more than its payment.
LEMMA FailuresOfCase ==
  ASSUME TypeOK, IsFiniteSet(Rows), NEW c \in CaseId, cases[c].payment \in PaymentId
  PROVE  Cardinality(Failures(c)) <= Cardinality(Unrecovered(cases[c].payment))
<1>1. ASSUME NEW a \in Failures(c) PROVE a \in Unrecovered(cases[c].payment)
  <2>1. a \in ActionId /\ actions[a].case = c /\ actions[a].outcome = "UNRECOVERED"
    BY DEF Failures
  <2>2. actions[a] # AbsentAction
    BY <2>1, WorkflowAssumption DEF AbsentAction
  <2> QED
    BY <2>1, <2>2 DEF TypeOK, Unrecovered, ActionsOf
<1> QED
  BY <1>1, RowsFinite, FS_Subset

\* No action of a case that does not exist.
LEMMA NoRowsOfAbsent ==
  ASSUME TypeOK, NEW c \in CaseId, ~Present(c)
  PROVE  \A a \in ActionId : actions[a].case # c
<1> SUFFICES ASSUME NEW a \in ActionId, actions[a].case = c PROVE FALSE
  OBVIOUS
<1>1. actions[a] # AbsentAction
  BY WorkflowAssumption DEF AbsentAction
<1>2. cases[c].payment \in PaymentId
  BY <1>1 DEF TypeOK
<1> QED
  BY <1>2, WorkflowAssumption DEF Present, AbsentCase

\* How a run may leave its case: finished, waiting, or failed once more.  Neither
\* of the last two happens once the backstop is reached.
Postpones(c) ==
  /\ cases[c].state # "SCHEDULED" /\ cases'[c].state = "SCHEDULED"
  /\ Failures(c)' = Failures(c)
  /\ Cardinality(Failures(c)) < RepeatedFailureLimit

FailsAgain(c) ==
  /\ cases'[c].state = "FAILED"
  /\ Cardinality(Failures(c)') = Cardinality(Failures(c)) + 1
  /\ Cardinality(Failures(c)) < RepeatedFailureLimit

LEMMA RunOutcome ==
  ASSUME TypeOK, ScheduleConsistent, IsFiniteSet(Rows), FailuresRan,
         NEW c \in CaseId, BackstopPart(c), Run(c)
  PROVE  /\ Unfinished(c) /\ cases'[c] # AbsentCase
         /\ cases'[c].state \in TerminalStates \/ Postpones(c) \/ FailsAgain(c)
         /\ \A d \in CaseId : d # c =>
              /\ cases'[d] = cases[d]
              /\ Failures(d)' = Failures(d)
              /\ Pending(d)' = Pending(d)
              /\ \A b \in Pending(d) : actions'[b] = actions[b]
         /\ FailuresRan'
         /\ IsFiniteSet(Rows')
         /\ clock' = clock
<1>1. PICK a \in ActionId, row \in ActionRow, to \in CaseState : Moves(c, a, row, to)
  BY RunMoves
<1>2. /\ \A d \in CaseId : cases'[d].payment = cases[d].payment
      /\ \A d \in CaseId : d # c => cases'[d] = cases[d]
      /\ cases'[c].state = to
      /\ \A b \in ActionId : actions'[b] = IF b = a THEN row ELSE actions[b]
      /\ \A d \in CaseId : d # c => Pending(d)' = Pending(d)
  BY <1>1, MovedTables
<1>3. /\ cases[c].state \in RunnableStates /\ cases[c].payment \in PaymentId
      /\ row.case = c /\ clock' = clock /\ clock \in Nat
  BY <1>1 DEF Moves, TypeOK
<1>4. /\ actions[a].case \in {c, None} /\ actions[a].outcome # "UNRECOVERED"
  <2>1. CASE Fresh(c, a)
    BY <2>1, WorkflowAssumption DEF Fresh, AbsentAction, OutcomeKind
  <2>2. CASE a \in Pending(c)
    BY <2>2 DEF Pending, FailuresRan
  <2>3. Fresh(c, a) \/ a \in Pending(c)
    BY <1>1 DEF Moves, Concludes, Defers, Attempts, Resumes
  <2> QED
    BY <2>1, <2>2, <2>3
<1>5. Unfinished(c) /\ cases'[c] # AbsentCase
  <2>1. cases[c].payment # None /\ cases'[c].payment # None
    BY <1>2, <1>3, WorkflowAssumption
  <2>2. AbsentCase.payment = None
    BY DEF AbsentCase
  <2> QED
    BY <1>3, <2>1, <2>2 DEF Unfinished, Present, RunnableStates, TerminalStates
<1>6. ASSUME NEW d \in CaseId, d # c
      PROVE  /\ Failures(d)' = Failures(d)
             /\ \A b \in Pending(d) : actions'[b] = actions[b]
  <2>1. actions[a].case # d /\ row.case # d
    BY <1>3, <1>4, <1>6, WorkflowAssumption
  <2> QED
    BY <1>2, <2>1 DEF Failures, Pending
<1>7. Cardinality(Failures(c)) \in Nat /\ IsFiniteSet(Failures(c))
      /\ Cardinality(Failures(c)) <= Cardinality(Unrecovered(cases[c].payment))
      /\ Cardinality(Unrecovered(cases[c].payment)) \in Nat
  BY <1>3, RowsFinite, FailuresOfCase
<1>8. ASSUME NEW t, Verdict(c, t) = "APPROVED"
      PROVE  Cardinality(Failures(c)) < RepeatedFailureLimit
  <2>1. Cardinality(Unrecovered(cases[c].payment)) < RepeatedFailureLimit
    BY <1>7, <1>8, ApprovedFailures
  <2> QED
    BY <1>7, <2>1, PolicyAssumption
<1>9. ASSUME row.outcome = "UNRECOVERED", to = "FAILED",
             Cardinality(Failures(c)) < RepeatedFailureLimit
      PROVE  FailsAgain(c)
  <2>1. Failures(c)' = Failures(c) \cup {a} /\ a \notin Failures(c)
    BY <1>2, <1>3, <1>4, <1>9 DEF Failures
  <2>2. Cardinality(Failures(c)') = Cardinality(Failures(c)) + 1
    BY <1>7, <2>1, FS_AddElement
  <2> QED
    BY <1>2, <1>9, <2>2 DEF FailsAgain
<1>10. to \in TerminalStates \/ Postpones(c) \/ FailsAgain(c)
  <2>1. CASE Concludes(c, a, row, to)
    BY <2>1 DEF Concludes, TerminalStates
  <2>2. CASE Defers(c, a, row, to)
    <3>1. /\ to = "SCHEDULED" /\ cases[c].state # "SCHEDULED" /\ row.outcome = None
          /\ Cardinality(Failures(c)) < RepeatedFailureLimit
      BY <1>8, <2>2 DEF Defers, Fresh, Waits
    <3>2. row.outcome # "UNRECOVERED"
      BY <3>1, WorkflowAssumption DEF OutcomeKind
    <3>3. Failures(c)' = Failures(c)
      BY <1>2, <1>4, <3>2 DEF Failures
    <3> QED
      BY <1>2, <3>1, <3>3 DEF Postpones
  <2>3. CASE Attempts(c, a, row, to)
    BY <1>8, <1>9, <2>3 DEF Attempts, Acts, TerminalStates
  <2>4. CASE Resumes(c, a, row, to)
    <3>1. Cardinality(Failures(c)) < RepeatedFailureLimit
      BY <1>5, <2>4 DEF Resumes, BackstopPart
    <3> QED
      BY <1>9, <2>4, <3>1 DEF Resumes, Acts, TerminalStates
  <2> QED
    BY <1>1, <2>1, <2>2, <2>3, <2>4 DEF Moves
<1>11. FailuresRan'
  <2>1. row.outcome = "UNRECOVERED" => row.executedAt # None
    BY <1>1, <1>3, WorkflowAssumption
    DEF Moves, Concludes, Defers, Attempts, Resumes, Waits, Acts, OutcomeKind
  <2> QED
    BY <1>2, <2>1 DEF FailuresRan
<1>12. IsFiniteSet(Rows')
  <2>1. Rows' \subseteq Rows \cup {a}
    BY <1>2 DEF Rows
  <2>2. IsFiniteSet(Rows \cup {a})
    BY FS_AddElement
  <2> QED
    BY <2>1, <2>2, FS_Subset
<1> QED
  BY <1>2, <1>3, <1>5, <1>6, <1>10, <1>11, <1>12

\* The steps of the workflow that run no case change no action and no case but
\* the one that a failure opens.
LEMMA OtherOutcome ==
  ASSUME TypeOK, [Next]_vars, ~(\E c \in CaseId : Run(c))
  PROVE  /\ actions' = actions /\ revenueEvents' = revenueEvents
         /\ clock' \in Nat /\ clock <= clock'
         /\ \A d \in CaseId : Present(d) => cases'[d] = cases[d]
         /\ \A d \in CaseId : ~Present(d) =>
              cases'[d] = AbsentCase \/ cases'[d].state = "DETECTED"
<1>1. /\ actions' = actions /\ clock' \in Nat /\ clock <= clock'
      /\ cases' = cases \/ \E p \in PaymentId, c \in CaseId : OpenCase(p, c)
  BY OtherSteps
<1>2. revenueEvents' = revenueEvents
  BY DEF Next, Pay, Tick, CreatePayment, FailOpens, FailReuses, FailInterrupted,
     AdvanceClock, vars
<1>3. ASSUME NEW p \in PaymentId, NEW c \in CaseId, OpenCase(p, c), NEW d \in CaseId
      PROVE  /\ Present(d) => cases'[d] = cases[d]
             /\ ~Present(d) => cases'[d] = AbsentCase \/ cases'[d].state = "DETECTED"
  <2>1. cases[c] = AbsentCase
        /\ cases'[d] = IF d = c THEN [state |-> "DETECTED", payment |-> p] ELSE cases[d]
    BY <1>3 DEF OpenCase, TypeOK
  <2> QED
    BY <2>1 DEF Present
<1> QED
  BY <1>1, <1>2, <1>3 DEF Present

-----------------------------------------------------------------------------
(* The tables' part of the invariant.                                      *)

LEMMA RevenueOfWon ==
  RevenueReported <=> \A c \in CaseId : Cardinality(Won(c)) <= revenueEvents[c]
  BY DEF RevenueReported, Won

\* At most one more outcome counts as recovered, and the audit trail says so.
LEMMA RevenueGrows ==
  ASSUME TypeOK, IsFiniteSet(Rows), NEW c \in CaseId, NEW a,
         Won(c)' \subseteq Won(c) \cup {a},
         Cardinality(Won(c)) <= revenueEvents[c],
         revenueEvents'[c] \in Nat, revenueEvents'[c] >= revenueEvents[c] + 1
  PROVE  Cardinality(Won(c)') <= revenueEvents'[c]
<1> DEFINE W == Won(c)
<1>1. IsFiniteSet(W) /\ Cardinality(W) \in Nat /\ revenueEvents[c] \in Nat
      /\ Cardinality(W) <= revenueEvents[c]
  BY RowsFinite DEF TypeOK
<1> HIDE DEF W
<1>2. /\ IsFiniteSet(W \cup {a})
      /\ Cardinality(W \cup {a}) = IF a \in W THEN Cardinality(W) ELSE Cardinality(W) + 1
  BY <1>1, FS_AddElement
<1>3. Won(c)' \subseteq W \cup {a}
  BY DEF W
<1>4. Cardinality(Won(c)') <= Cardinality(W \cup {a}) /\ Cardinality(Won(c)') \in Nat
  BY <1>2, <1>3, FS_Subset, FS_CardinalityType
<1> QED
  BY <1>1, <1>2, <1>4

LEMMA RevenueStays ==
  ASSUME TypeOK, IsFiniteSet(Rows), NEW c \in CaseId, Won(c)' \subseteq Won(c),
         Cardinality(Won(c)) <= revenueEvents[c], revenueEvents'[c] = revenueEvents[c]
  PROVE  Cardinality(Won(c)') <= revenueEvents'[c]
<1>1. IsFiniteSet(Won(c)) /\ Cardinality(Won(c)) \in Nat /\ revenueEvents[c] \in Nat
  BY RowsFinite DEF TypeOK
<1>2. Cardinality(Won(c)') <= Cardinality(Won(c)) /\ Cardinality(Won(c)') \in Nat
  BY <1>1, FS_Subset, FS_CardinalityType
<1> QED
  BY <1>1, <1>2

LEMMA RevenueOfRun ==
  ASSUME TypeOK, IsFiniteSet(Rows), RevenueReported, NEW c \in CaseId, Run(c),
         NEW d \in CaseId
  PROVE  Cardinality(Won(d)') <= revenueEvents'[d]
<1>1. PICK a \in ActionId, row \in ActionRow, to \in CaseState : Moves(c, a, row, to)
  BY RunMoves
<1>2. \A b \in ActionId : actions'[b] = IF b = a THEN row ELSE actions[b]
  BY <1>1, MovedTables
<1>3. row.case = c
  BY <1>1 DEF Moves
<1>4. Cardinality(Won(d)) <= revenueEvents[d] /\ revenueEvents[d] \in Nat
  BY RevenueOfWon DEF TypeOK
<1>5. ASSUME d # c \/ row.outcome # "RECOVERED", revenueEvents'[d] = revenueEvents[d]
      PROVE  Cardinality(Won(d)') <= revenueEvents'[d]
  <2>1. Won(d)' \subseteq Won(d)
    BY <1>2, <1>3, <1>5 DEF Won
  <2> QED
    BY <1>4, <1>5, <2>1, RevenueStays
<1>6. CASE Acts(c, row, to) /\ row.outcome = "RECOVERED"
  <2>1. revenueEvents' = [revenueEvents EXCEPT ![c] = @ + 1]
    BY <1>6 DEF Acts
  <2>2. CASE d = c
    <3>1. revenueEvents'[d] = revenueEvents[d] + 1
      BY <2>1, <2>2 DEF TypeOK
    <3>2. Won(d)' \subseteq Won(d) \cup {a}
      BY <1>2 DEF Won
    <3> QED
      BY <1>4, <3>1, <3>2, RevenueGrows
  <2>3. CASE d # c
    BY <1>5, <2>1, <2>3 DEF TypeOK
  <2> QED
    BY <2>2, <2>3
<1>7. CASE Acts(c, row, to) /\ row.outcome # "RECOVERED"
  BY <1>5, <1>7 DEF Acts
<1>8. CASE Waits(row)
  <2>1. row.outcome # "RECOVERED" /\ revenueEvents' = revenueEvents
    BY <1>8, WorkflowAssumption DEF Waits, OutcomeKind
  <2> QED
    BY <1>5, <2>1
<1> QED
  BY <1>1, <1>6, <1>7, <1>8 DEF Moves, Concludes, Defers, Attempts, Resumes

LEMMA TablesOfWorkflow == TablesInv /\ [Next]_vars => TablesInv'
<1> SUFFICES ASSUME TablesInv, [Next]_vars PROVE TablesInv'
  OBVIOUS
<1>1. /\ TypeOK /\ ScheduleConsistent /\ OneOpenCase /\ IsFiniteSet(Rows)
      /\ RevenueReported /\ FailuresRan /\ \A c \in CaseId : BackstopPart(c)
  BY DEF TablesInv
<1>2. TypeOK' /\ ScheduleConsistent' /\ OneOpenCase'
  BY <1>1, TypeStep, ScheduleStep, OneOpenStep
<1>3. ASSUME NEW c \in CaseId, Run(c)
      PROVE  /\ IsFiniteSet(Rows') /\ RevenueReported' /\ FailuresRan'
             /\ \A d \in CaseId : BackstopPart(d)'
  <2>1. /\ Unfinished(c)
        /\ cases'[c].state \in TerminalStates \/ Postpones(c) \/ FailsAgain(c)
        /\ \A d \in CaseId : d # c =>
             cases'[d] = cases[d] /\ Failures(d)' = Failures(d)
        /\ FailuresRan' /\ IsFiniteSet(Rows')
    BY <1>1, <1>3, RunOutcome
  <2>2. RevenueReported'
    <3>1. \A d \in CaseId : Cardinality(Won(d)') <= revenueEvents'[d]
      BY <1>1, <1>3, RevenueOfRun
    <3> QED
      BY <3>1 DEF RevenueReported, Won
  <2>3. ASSUME NEW d \in CaseId PROVE BackstopPart(d)'
    <3>1. CASE d # c
      BY <1>1, <2>1, <3>1 DEF BackstopPart, Unfinished, Present
    <3>2. CASE d = c
      <4>1. Cardinality(Failures(c)) \in Nat
        BY <1>1, RowsFinite
      <4>2. CASE cases'[c].state \in TerminalStates
        BY <3>2, <4>2 DEF BackstopPart, Unfinished
      <4>3. CASE Postpones(c)
        BY <3>2, <4>1, <4>3, PolicyAssumption DEF BackstopPart, Postpones
      <4>4. CASE FailsAgain(c)
        BY <3>2, <4>1, <4>4, PolicyAssumption DEF BackstopPart, FailsAgain
      <4> QED
        BY <2>1, <4>2, <4>3, <4>4
    <3> QED
      BY <3>1, <3>2
  <2> QED
    BY <2>1, <2>2, <2>3
<1>4. ASSUME ~(\E c \in CaseId : Run(c))
      PROVE  /\ IsFiniteSet(Rows') /\ RevenueReported' /\ FailuresRan'
             /\ \A d \in CaseId : BackstopPart(d)'
  <2>1. /\ actions' = actions /\ revenueEvents' = revenueEvents
        /\ \A d \in CaseId : Present(d) => cases'[d] = cases[d]
        /\ \A d \in CaseId : ~Present(d) =>
             cases'[d] = AbsentCase \/ cases'[d].state = "DETECTED"
    BY <1>1, <1>4, OtherOutcome
  <2>2. IsFiniteSet(Rows') /\ RevenueReported' /\ FailuresRan'
    BY <1>1, <2>1 DEF Rows, RevenueReported, FailuresRan
  <2>3. ASSUME NEW d \in CaseId PROVE BackstopPart(d)'
    <3>1. Failures(d)' = Failures(d)
      BY <2>1 DEF Failures
    <3>2. CASE Present(d)
      BY <1>1, <2>1, <3>1, <3>2 DEF BackstopPart, Unfinished
    <3>3. CASE ~Present(d)
      <4>1. Failures(d) = {} /\ Cardinality({}) = 0
        BY <1>1, <3>3, NoRowsOfAbsent, FS_EmptySet DEF Failures
      <4>2. Unfinished(d)' => cases'[d].state # "SCHEDULED"
        BY <2>1, <3>3 DEF Unfinished, Present
      <4> QED
        BY <3>1, <4>1, <4>2, PolicyAssumption DEF BackstopPart
    <3> QED
      BY <3>2, <3>3
  <2> QED
    BY <2>2, <2>3
<1> QED
  BY <1>2, <1>3, <1>4 DEF TablesInv

LEMMA TablesOfPortal ==
  ASSUME TablesInv, NEW c \in CaseId, NEW latest, Completes(c, latest)
  PROVE  TablesInv'
<1>1. /\ TypeOK /\ ScheduleConsistent /\ OneOpenCase /\ IsFiniteSet(Rows)
      /\ RevenueReported /\ FailuresRan /\ \A d \in CaseId : BackstopPart(d)
  BY DEF TablesInv
<1>2. TypeOK' /\ ScheduleConsistent' /\ OneOpenCase'
  BY <1>1, PortalTyped, PortalSchedule, PortalOneOpen
<1>3. /\ \A d \in CaseId : d # c => cases'[d] = cases[d]
      /\ cases'[c].state = "RECOVERED"
      /\ \A a \in ActionId : a \notin latest => actions'[a] = actions[a]
      /\ \A a \in latest : /\ actions[a].case = c /\ actions'[a].case = c
                           /\ actions'[a].outcome = "RECOVERED"
  BY <1>1, CompletedTables
<1>4. IsFiniteSet(Rows')
  <2>1. \A a \in latest : actions[a] # AbsentAction
    BY <1>3, WorkflowAssumption DEF AbsentAction
  <2>2. latest \subseteq ActionId
    BY DEF Completes
  <2>3. Rows' \subseteq Rows
    BY <1>3, <2>1 DEF Rows
  <2> QED
    BY <1>1, <2>3, FS_Subset
<1>5. FailuresRan'
  BY <1>1, <1>3 DEF FailuresRan
<1>6. ASSUME NEW d \in CaseId PROVE Cardinality(Won(d)') <= revenueEvents'[d]
  <2>1. Cardinality(Won(d)) <= revenueEvents[d]
    BY <1>1, RevenueOfWon
  <2>2. /\ revenueEvents' \in [CaseId -> Nat]
        /\ revenueEvents'[c] >= revenueEvents[c] + 1
        /\ d # c => revenueEvents'[d] = revenueEvents[d]
    BY DEF Completes
  <2>3. CASE d = c
    <3>1. PICK a : latest \subseteq {a}
      BY DEF Completes
    <3>2. Won(d)' \subseteq Won(d) \cup {a}
      BY <1>3, <3>1 DEF Won
    <3> QED
      BY <1>1, <2>1, <2>2, <2>3, <3>2, RevenueGrows
  <2>4. CASE d # c
    <3>1. Won(d)' \subseteq Won(d)
      BY <1>3, <2>4 DEF Won
    <3> QED
      BY <1>1, <2>1, <2>2, <2>4, <3>1, RevenueStays
  <2> QED
    BY <2>3, <2>4
<1>7. RevenueReported'
  BY <1>6 DEF RevenueReported, Won
<1>8. ASSUME NEW d \in CaseId PROVE BackstopPart(d)'
  <2>1. CASE d = c
    BY <1>3, <2>1 DEF BackstopPart, Unfinished, TerminalStates
  <2>2. CASE d # c
    <3>1. cases'[d] = cases[d] /\ Failures(d)' = Failures(d)
      BY <1>3, <2>2 DEF Failures
    <3> QED
      BY <1>1, <3>1 DEF BackstopPart, Unfinished, Present
  <2> QED
    BY <2>1, <2>2
<1> QED
  BY <1>2, <1>4, <1>5, <1>7, <1>8 DEF TablesInv

-----------------------------------------------------------------------------
(* What a call does.                                                       *)

\* A row nobody waits for and nobody has verified is added, nothing else.
Rings(c, a, row) ==
  /\ c \in CaseId /\ Present(c) /\ cases[c].state # "RECOVERED"
  /\ a \in ActionId /\ actions[a] = AbsentAction
  /\ row \in ActionRow /\ row.case = c
  /\ row.payment = cases[c].payment /\ cases[c].payment \in PaymentId
  /\ row.type = "VOICE_CALL" /\ row.status # None
  /\ row.due = None /\ row.outcome = None
  /\ actions' = [actions EXCEPT ![a] = row]
  /\ UNCHANGED <<payments, cases, clock, revenueEvents, batch>>

Rung == \E c \in CaseId, a \in ActionId, row \in ActionRow : Rings(c, a, row)

LEMMA CallEffect ==
  ASSUME TypeOK, NEW c \in CaseId, NEW a \in ActionId, NEW success \in BOOLEAN,
         VoiceCall(c, a, success)
  PROVE  Rung /\ Stamp
<1> DEFINE row == CallRow(c, success)
<1>1. Present(c) /\ cases[c].state # "RECOVERED" /\ cases[c].payment \in PaymentId
  BY DEF VoiceCall, TypeOK, Present, AbsentCase
<1>2. /\ row \in ActionRow /\ row.case = c /\ row.payment = cases[c].payment
      /\ row.type = "VOICE_CALL" /\ row.status \in {"EXECUTED", "FAILED"}
      /\ row.due = None /\ row.outcome = None
  BY <1>1 DEF CallRow, AbsentAction, ActionRow, ActionType, ActionStatus, TypeOK
<1>3. None \notin {"EXECUTED", "FAILED"}
  BY WorkflowAssumption DEF ActionStatus
<1>4. /\ actions[a] = AbsentAction /\ actions' = [actions EXCEPT ![a] = row]
      /\ UNCHANGED <<payments, cases, clock, revenueEvents, batch>> /\ Stamp
  BY DEF VoiceCall
<1> HIDE DEF row
<1>5. Rings(c, a, row)
  BY <1>1, <1>2, <1>3, <1>4 DEF Rings
<1> QED
  BY <1>2, <1>4, <1>5 DEF Rung

\* Nobody waits for a call, and no call has failed or won anything.
LEMMA RungTables ==
  ASSUME TypeOK, NEW c \in CaseId, NEW a \in ActionId, NEW row \in ActionRow,
         Rings(c, a, row)
  PROVE  /\ \A b \in ActionId : actions'[b] = IF b = a THEN row ELSE actions[b]
         /\ \A d \in CaseId : /\ Failures(d)' = Failures(d) /\ Won(d)' = Won(d)
                              /\ Pending(d)' = Pending(d)
                              /\ \A b \in Pending(d) : actions'[b] = actions[b]
         /\ Rows' \subseteq Rows \cup {a}
<1>1. \A b \in ActionId : actions'[b] = IF b = a THEN row ELSE actions[b]
  BY DEF Rings, TypeOK
<1>2. /\ actions[a].due = None /\ actions[a].outcome = None
      /\ row.due = None /\ row.outcome = None
  BY DEF Rings, AbsentAction
<1>3. None \notin {"RECOVERED", "UNRECOVERED"}
  BY WorkflowAssumption DEF OutcomeKind
<1> QED
  BY <1>1, <1>2, <1>3 DEF Failures, Won, Pending, Rows

LEMMA TablesOfCall == TablesInv /\ Rung => TablesInv'
<1> SUFFICES ASSUME TablesInv, NEW c \in CaseId, NEW a \in ActionId, NEW row \in ActionRow,
                    Rings(c, a, row)
             PROVE  TablesInv'
  BY DEF Rung
<1>1. /\ TypeOK /\ ScheduleConsistent /\ OneOpenCase /\ IsFiniteSet(Rows)
      /\ RevenueReported /\ FailuresRan /\ \A d \in CaseId : BackstopPart(d)
  BY DEF TablesInv
<1>2. /\ \A b \in ActionId : actions'[b] = IF b = a THEN row ELSE actions[b]
      /\ \A d \in CaseId : /\ Failures(d)' = Failures(d) /\ Won(d)' = Won(d)
                           /\ Pending(d)' = Pending(d)
                           /\ \A b \in Pending(d) : actions'[b] = actions[b]
      /\ Rows' \subseteq Rows \cup {a}
  BY <1>1, RungTables
<1>3. /\ row.case = c /\ row.payment = cases[c].payment /\ cases[c].payment \in PaymentId
      /\ row.type = "VOICE_CALL" /\ row.status # None /\ row.outcome = None
      /\ actions' = [actions EXCEPT ![a] = row]
      /\ UNCHANGED <<payments, cases, clock, revenueEvents>>
  BY DEF Rings
<1>4. TypeOK'
  <2>1. actions' \in [ActionId -> ActionRow]
    BY <1>1, <1>3 DEF TypeOK
  <2>2. row.type # None
    BY <1>3, WorkflowAssumption DEF ActionType
  <2> QED
    BY <1>1, <1>2, <1>3, <2>1, <2>2 DEF TypeOK
<1>5. ScheduleConsistent'
  BY <1>1, <1>2, <1>3 DEF ScheduleConsistent, Pending
<1>6. OneOpenCase'
  BY <1>1, <1>3 DEF OneOpenCase, OpenCases
<1>7. IsFiniteSet(Rows')
  <2>1. IsFiniteSet(Rows \cup {a})
    BY <1>1, FS_AddElement
  <2> QED
    BY <1>2, <2>1, FS_Subset
<1>8. RevenueReported'
  <2>1. \A d \in CaseId : Cardinality(Won(d)') <= revenueEvents'[d]
    BY <1>1, <1>2, <1>3, RevenueOfWon
  <2> QED
    BY <2>1 DEF RevenueReported, Won
<1>9. FailuresRan'
  <2>1. row.outcome # "UNRECOVERED"
    BY <1>3, WorkflowAssumption DEF OutcomeKind
  <2> QED
    BY <1>1, <1>2, <2>1 DEF FailuresRan
<1>10. \A d \in CaseId : BackstopPart(d)'
  BY <1>1, <1>2, <1>3 DEF BackstopPart, Unfinished, Present
<1> QED
  BY <1>4, <1>5, <1>6, <1>7, <1>8, <1>9, <1>10 DEF TablesInv

-----------------------------------------------------------------------------
(* The tables under all of them.                                           *)

\* To the tables, whatever the autopilot does is a step of the workflow.
LEMMA AutopilotWorks ==
  ASSUME Autopilot \/ Elsewhere \/ UNCHANGED channels
  PROVE  [Next]_vars
<1>1. ASSUME AdvanceForRetry PROVE Next
  <2>1. Delay \in 1..Delay
    BY WorkflowAssumption
  <2> QED
    BY <1>1, <2>1 DEF AdvanceForRetry, Next, Tick
<1>2. ASSUME NEW c \in CaseId, Drive(c) PROVE Next
  BY <1>2 DEF Drive, Next
<1>3. ASSUME BatchFails \/ \E some \in SUBSET CaseId : StartBatch(some)
      PROVE  UNCHANGED vars
  BY <1>3 DEF StartBatch, BatchFails
<1>4. ASSUME NEW c, TakeCase(c) \/ DriveWaits(c) \/ RunHalts(c) \/ LeaveCase(c)
      PROVE  UNCHANGED vars
  BY <1>4 DEF TakeCase, DriveWaits, RunHalts, LeaveCase
<1> QED
  BY <1>1, <1>2, <1>3, <1>4 DEF Autopilot, Elsewhere, channels

LEMMA TablesStep == TablesInv /\ [ChannelsNext]_channels => TablesInv'
<1> SUFFICES ASSUME TablesInv, [ChannelsNext]_channels PROVE TablesInv'
  OBVIOUS
<1>1. TypeOK
  BY DEF TablesInv
<1>2. CASE Autopilot \/ Elsewhere \/ UNCHANGED channels
  BY <1>2, AutopilotWorks, TablesOfWorkflow
<1>3. ASSUME NEW c \in CaseId, CustomerRecovers(c) PROVE TablesInv'
  BY <1>1, <1>3, CustomerEffect, TablesOfPortal
<1>4. CASE Operators
  BY <1>1, <1>4, OperatorsRebuild, RebuiltTables
<1>5. ASSUME NEW c \in CaseId, NEW a \in ActionId, NEW success \in BOOLEAN,
             VoiceCall(c, a, success)
      PROVE  TablesInv'
  BY <1>1, <1>5, CallEffect, TablesOfCall
<1> QED
  BY <1>2, <1>3, <1>4, <1>5 DEF ChannelsNext

-----------------------------------------------------------------------------
(* The autopilot's part.                                                   *)

BatchRow == [todo : SUBSET CaseId, left : SUBSET CaseId, upset : SUBSET CaseId,
             current : CaseId \cup {None}, runs : 0..MaxRunsPerCase,
             step : {"refresh", "advance", "leave"}]

\* The operators take the case in hand out of the claim.
LEMMA BatchUpset ==
  ASSUME batch \in BatchRow, RowsDeleted
  PROVE  batch' \in BatchRow /\ batch'.left = {} /\ (BatchPart => BatchPart')
<1>1. /\ batch'.left = {} /\ batch'.upset = {batch.current} \ {None}
      /\ batch'.current = batch.current /\ batch'.step = batch.step
  BY DEF RowsDeleted, BatchRow
<1>2. {batch.current} \ {None} \in SUBSET CaseId
  BY DEF BatchRow
<1>3. batch' \in BatchRow
  BY <1>2 DEF RowsDeleted, BatchRow
<1> QED
  BY <1>1, <1>3, WorkflowAssumption DEF BatchPart

LEMMA BatchTyped ==
  ASSUME batch \in BatchRow, Autopilot
  PROVE  batch' \in BatchRow
<1>1. ASSUME BatchFails \/ \E some \in SUBSET CaseId : StartBatch(some)
      PROVE  batch' \in BatchRow
  BY <1>1 DEF StartBatch, BatchFails, NoBatch, BatchRow, MaxRunsPerCase
<1>2. ASSUME NEW c \in CaseId, TakeCase(c) PROVE batch' \in BatchRow
  <2>1. batch.todo \ {c} \in SUBSET CaseId /\ 0 \in 0..MaxRunsPerCase
    BY DEF BatchRow, MaxRunsPerCase
  <2>2. batch' = [batch EXCEPT !.todo = batch.todo \ {c}, !.current = c, !.runs = 0]
    BY <1>2 DEF TakeCase
  <2> QED
    BY <2>1, <2>2 DEF BatchRow
<1>3. ASSUME NEW c \in CaseId, Drive(c) \/ DriveWaits(c) PROVE batch' \in BatchRow
  <2>1. batch.runs + 1 \in 0..MaxRunsPerCase
    <3>1. batch.runs \in 0..MaxRunsPerCase /\ batch.runs < MaxRunsPerCase
      BY <1>3 DEF Drive, DriveWaits, Driving, BatchRow
    <3> QED
      BY <3>1 DEF MaxRunsPerCase
  <2>2. PICK s \in {"refresh", "advance", "leave"} :
          batch' = [batch EXCEPT !.runs = batch.runs + 1, !.step = s]
    BY <1>3 DEF Drive, DriveWaits, AfterRun
  <2> QED
    BY <2>1, <2>2 DEF BatchRow
<1>4. ASSUME AdvanceForRetry PROVE batch' \in BatchRow
  BY <1>4 DEF AdvanceForRetry, BatchRow
<1>5. ASSUME NEW c \in CaseId, LeaveCase(c) \/ RunHalts(c) PROVE batch' \in BatchRow
  <2>1. /\ batch.left \cup {c} \in SUBSET CaseId /\ batch.upset \cup {c} \in SUBSET CaseId
        /\ 0 \in 0..MaxRunsPerCase
    BY DEF BatchRow, MaxRunsPerCase
  <2>2. CASE LeaveCase(c)
    BY <2>1, <2>2 DEF LeaveCase, BatchRow
  <2>3. CASE RunHalts(c)
    BY <2>1, <2>3 DEF RunHalts, BatchRow
  <2> QED
    BY <1>5, <2>2, <2>3
<1> QED
  BY <1>1, <1>2, <1>3, <1>4, <1>5 DEF Autopilot

LEMMA StampTyped ==
  ASSUME createdAt \in [ActionId -> Nat], clock \in Nat, Stamp
  PROVE  createdAt' \in [ActionId -> Nat]
  BY DEF Stamp

LEMMA ChannelsTypeStep ==
  ChannelsTypeOK /\ TablesInv /\ [ChannelsNext]_channels => ChannelsTypeOK'
<1> SUFFICES ASSUME ChannelsTypeOK, TablesInv, [ChannelsNext]_channels
             PROVE  ChannelsTypeOK'
  OBVIOUS
<1>1. /\ TypeOK /\ clock \in Nat /\ TypeOK'
      /\ createdAt \in [ActionId -> Nat] /\ batch \in BatchRow
  BY TablesStep DEF ChannelsTypeOK, TablesInv, TypeOK, BatchRow
<1>2. ASSUME createdAt' \in [ActionId -> Nat], batch' \in BatchRow PROVE ChannelsTypeOK'
  BY <1>1, <1>2 DEF ChannelsTypeOK, BatchRow
<1>3. CASE Autopilot
  <2>1. Stamp \/ createdAt' = createdAt
    BY <1>3 DEF Autopilot, StartBatch, TakeCase, Drive, DriveWaits, RunHalts, LeaveCase,
       AdvanceForRetry, BatchFails
  <2> QED
    BY <1>1, <1>2, <1>3, <2>1, BatchTyped, StampTyped
<1>4. CASE Elsewhere \/ UNCHANGED channels
  BY <1>1, <1>2, <1>4, StampTyped DEF Elsewhere, channels
<1>5. ASSUME NEW c \in CaseId, CustomerRecovers(c) PROVE ChannelsTypeOK'
  <2>1. createdAt' = createdAt /\ batch' = batch
    BY <1>5 DEF CustomerRecovers, PortalCompletes
  <2> QED
    BY <1>1, <1>2, <2>1
<1>6. CASE Operators
  <2>1. createdAt' \in [ActionId -> Nat] /\ RowsDeleted
    BY <1>1, <1>6, OperatorsRebuild DEF Rebuilt
  <2> QED
    BY <1>1, <1>2, <2>1, BatchUpset
<1>7. ASSUME NEW c \in CaseId, NEW a \in ActionId, NEW success \in BOOLEAN,
             VoiceCall(c, a, success)
      PROVE  ChannelsTypeOK'
  <2>1. Stamp /\ batch' = batch
    BY <1>7 DEF VoiceCall
  <2> QED
    BY <1>1, <1>2, <2>1, StampTyped
<1> QED
  BY <1>3, <1>4, <1>5, <1>6, <1>7 DEF ChannelsNext

\* The terms of the bound are numbers, and the allowance for a wait is one run.
LEMMA SpentNumber ==
  ASSUME IsFiniteSet(Rows), NEW c \in CaseId
  PROVE  /\ Cardinality(Failures(c)) \in Nat
         /\ Awaited(c) => Spent(c) = 2 * Cardinality(Failures(c)) + 1
         /\ ~Awaited(c) => Spent(c) = 2 * Cardinality(Failures(c))
         /\ Spent(c) \in Nat
  BY RowsFinite DEF Spent

\* Whoever runs a case, its failures make up for the runs it takes.
LEMMA SpentByRun ==
  ASSUME TablesInv, NEW c \in CaseId, Run(c), Unfinished(c)',
         NEW n \in Nat, n <= Spent(c)
  PROVE  /\ n <= Spent(c)'
         /\ ~Awaited(c) /\ (Awaited(c)' \/ cases'[c].state # "SCHEDULED")
              => n + 1 <= Spent(c)'
<1>1. /\ TypeOK /\ ScheduleConsistent /\ IsFiniteSet(Rows) /\ FailuresRan
      /\ BackstopPart(c)
  BY DEF TablesInv
<1>2. Postpones(c) \/ FailsAgain(c)
  BY <1>1, RunOutcome DEF Unfinished
<1>3. IsFiniteSet(Rows')
  BY TablesOfWorkflow DEF TablesInv, Next
<1>4. /\ Cardinality(Failures(c)) \in Nat
      /\ Awaited(c) => Spent(c) = 2 * Cardinality(Failures(c)) + 1
      /\ ~Awaited(c) => Spent(c) = 2 * Cardinality(Failures(c))
  BY <1>1, SpentNumber
<1>5. /\ Cardinality(Failures(c)') \in Nat /\ Spent(c)' \in Nat
      /\ Spent(c)' >= 2 * Cardinality(Failures(c)')
      /\ Awaited(c)' => Spent(c)' = 2 * Cardinality(Failures(c)') + 1
  <2>1. Cardinality(Failures(c)') \in Nat
    BY <1>3, RowsFinite, FS_Subset, FS_CardinalityType, WorkflowAssumption
    DEF Failures, Rows, AbsentAction
  <2> QED
    BY <2>1 DEF Spent
<1>6. CASE Postpones(c)
  <2>1. ~Awaited(c) /\ Cardinality(Failures(c)') = Cardinality(Failures(c))
    BY <1>6 DEF Postpones, Awaited
  <2>2. n <= Spent(c)'
    <3>1. Spent(c) = 2 * Cardinality(Failures(c))
      BY <1>4, <2>1
    <3> QED
      BY <1>4, <1>5, <2>1, <3>1
  <2>3. ASSUME Awaited(c)' PROVE n + 1 <= Spent(c)'
    <3>1. /\ Spent(c) = 2 * Cardinality(Failures(c))
          /\ Spent(c)' = 2 * Cardinality(Failures(c)') + 1
      BY <1>4, <1>5, <2>1, <2>3
    <3> QED
      BY <1>4, <2>1, <3>1
  <2>4. cases'[c].state = "SCHEDULED"
    BY <1>6 DEF Postpones
  <2> QED
    BY <2>2, <2>3, <2>4
<1>7. CASE FailsAgain(c)
  <2>1. Cardinality(Failures(c)') = Cardinality(Failures(c)) + 1
    BY <1>7 DEF FailsAgain
  <2>2. Spent(c) <= 2 * Cardinality(Failures(c)) + 1 /\ Spent(c) \in Nat
    BY <1>1, <1>4 DEF Spent
  <2>3. n + 1 <= Spent(c)' /\ n <= Spent(c)'
    BY <1>4, <1>5, <2>1, <2>2
  <2> QED
    BY <2>3
<1> QED
  BY <1>2, <1>6, <1>7

\* A case that is left alone may take as many runs as before, or one more once
\* the clock has moved.
LEMMA SpentKept ==
  ASSUME TablesInv, NEW d \in CaseId, cases'[d] = cases[d],
         Failures(d)' = Failures(d), Pending(d)' = Pending(d),
         \A b \in Pending(d) : actions'[b] = actions[b],
         clock' \in Nat, clock <= clock', batch'.step = batch.step,
         NEW n \in Nat, n <= Spent(d)
  PROVE  n <= Spent(d)'
<1>1. TypeOK /\ IsFiniteSet(Rows) /\ clock \in Nat
  BY DEF TablesInv, TypeOK
<1>2. Cardinality(Failures(d)) \in Nat /\ Cardinality(Failures(d)') = Cardinality(Failures(d))
  BY <1>1, SpentNumber
<1>3. Awaited(d) => Awaited(d)'
  <2>1. \A b \in Pending(d) : actions[b].due \in Nat
    BY <1>1, PendingRow
  <2>2. \A b \in Pending(d) : actions[b].due <= clock => actions[b].due <= clock'
    BY <1>1, <2>1
  <2> QED
    BY <2>2 DEF Awaited
<1>4. CASE Awaited(d)
  <2>1. /\ Spent(d) = 2 * Cardinality(Failures(d)) + 1
        /\ Spent(d)' = 2 * Cardinality(Failures(d)') + 1
    BY <1>3, <1>4 DEF Spent
  <2> QED
    BY <1>2, <2>1
<1>5. CASE ~Awaited(d)
  <2>1. Spent(d) = 2 * Cardinality(Failures(d))
    BY <1>2, <1>5 DEF Spent
  <2>2. Spent(d)' \in Nat /\ Spent(d)' >= 2 * Cardinality(Failures(d)')
    BY <1>2 DEF Spent
  <2> QED
    BY <1>2, <2>1, <2>2
<1> QED
  BY <1>4, <1>5

\* The cases of a batch do not disappear under the workflow's hands.
LEMMA PresentKept ==
  ASSUME TablesInv, [Next]_vars, NEW d \in CaseId, Present(d)
  PROVE  Present(d)'
<1>1. /\ TypeOK /\ ScheduleConsistent /\ IsFiniteSet(Rows) /\ FailuresRan
      /\ \A c \in CaseId : BackstopPart(c)
  BY DEF TablesInv
<1>2. ASSUME NEW c \in CaseId, Run(c) PROVE Present(d)'
  <2>1. cases'[c] # AbsentCase /\ (d # c => cases'[d] = cases[d])
    BY <1>1, <1>2, RunOutcome
  <2> QED
    BY <2>1 DEF Present
<1>3. ASSUME ~(\E c \in CaseId : Run(c)) PROVE Present(d)'
  BY <1>1, <1>3, OtherOutcome DEF Present
<1> QED
  BY <1>2, <1>3

\* Others may run, fail or open cases while the autopilot holds one.
LEMMA SpentElsewhere ==
  ASSUME TablesInv, [Next]_vars, batch'.step = batch.step, NEW d \in CaseId, Present(d),
         Unfinished(d)', NEW n \in Nat, Unfinished(d) => n <= Spent(d)
  PROVE  n <= Spent(d)'
<1>1. /\ TypeOK /\ ScheduleConsistent /\ IsFiniteSet(Rows) /\ FailuresRan
      /\ \A c \in CaseId : BackstopPart(c) /\ clock \in Nat
  BY DEF TablesInv, TypeOK
<1>2. ASSUME NEW c \in CaseId, Run(c) PROVE n <= Spent(d)'
  <2>1. /\ Unfinished(c)
        /\ clock' = clock
        /\ d # c => /\ cases'[d] = cases[d]
                    /\ Failures(d)' = Failures(d)
                    /\ Pending(d)' = Pending(d)
                    /\ \A b \in Pending(d) : actions'[b] = actions[b]
    BY <1>1, <1>2, RunOutcome
  <2>2. CASE d = c
    BY <1>2, <2>1, <2>2, SpentByRun
  <2>3. CASE d # c
    <3>1. Unfinished(d)
      BY <2>1, <2>3 DEF Unfinished, Present
    <3>2. clock' \in Nat /\ clock <= clock'
      BY <1>1, <2>1
    <3> QED
      BY <2>1, <2>3, <3>1, <3>2, SpentKept
  <2> QED
    BY <2>2, <2>3
<1>3. ASSUME ~(\E c \in CaseId : Run(c)) PROVE n <= Spent(d)'
  <2>1. /\ actions' = actions /\ clock' \in Nat /\ clock <= clock'
        /\ cases'[d] = cases[d]
    BY <1>1, <1>3, OtherOutcome
  <2>2. Failures(d)' = Failures(d) /\ Pending(d)' = Pending(d)
    BY <2>1 DEF Failures, Pending
  <2>3. Unfinished(d)
    BY <2>1 DEF Unfinished, Present
  <2> QED
    BY <2>1, <2>2, <2>3, SpentKept
<1> QED
  BY <1>2, <1>3

\* What BatchPart says of the case in hand.
LEMMA BatchOfCurrent ==
  ASSUME batch'.current = None => batch'.step = "refresh",
         \A c \in CaseId : batch'.current = c /\ c \notin batch'.upset =>
            /\ Unfinished(c)' => batch'.runs <= Spent(c)'
            /\ batch'.step = "leave" => cases'[c].state \in TerminalStates
  PROVE  BatchPart'
  BY DEF BatchPart

\* The workflow leaves a finished case finished.
LEMMA FinishedKept ==
  ASSUME TablesInv, [Next]_vars, NEW d \in CaseId, cases[d].state \in TerminalStates
  PROVE  cases'[d].state \in TerminalStates
<1>1. /\ TypeOK /\ ScheduleConsistent /\ IsFiniteSet(Rows) /\ FailuresRan
      /\ \A c \in CaseId : BackstopPart(c)
  BY DEF TablesInv
<1>2. Present(d)
  BY WorkflowAssumption DEF Present, AbsentCase, TerminalStates, CaseState
<1>3. ASSUME NEW c \in CaseId, Run(c) PROVE cases'[d].state \in TerminalStates
  BY <1>1, <1>3, RunOutcome DEF Unfinished
<1>4. ASSUME ~(\E c \in CaseId : Run(c)) PROVE cases'[d].state \in TerminalStates
  BY <1>1, <1>2, <1>4, OtherOutcome
<1> QED
  BY <1>3, <1>4

LEMMA BatchElsewhere ==
  ASSUME TablesInv, BatchPart, batch \in BatchRow, [Next]_vars, batch' = batch,
         FreshIds \/ cases' = cases
  PROVE  BatchPart'
<1>1. batch.runs \in Nat /\ (batch'.current = None => batch'.step = "refresh")
  BY DEF BatchRow, BatchPart
<1>2. ASSUME NEW c \in CaseId, batch'.current = c, c \notin batch'.upset
      PROVE  /\ Unfinished(c)' => batch'.runs <= Spent(c)'
             /\ batch'.step = "leave" => cases'[c].state \in TerminalStates
  <2>1. /\ Unfinished(c) => batch.runs <= Spent(c)
        /\ batch.step = "leave" => cases[c].state \in TerminalStates
    BY <1>2 DEF BatchPart
  <2>2. ASSUME Unfinished(c)' PROVE batch.runs <= Spent(c)'
    <3>1. Present(c)
      BY <1>2, <2>2 DEF FreshIds, Unfinished, Present
    <3> QED
      BY <1>1, <2>1, <2>2, <3>1, SpentElsewhere
  <2> QED
    BY <2>1, <2>2, FinishedKept
<1> QED
  BY <1>1, <1>2, BatchOfCurrent

LEMMA BatchDrive ==
  ASSUME TablesInv, BatchPart, batch \in BatchRow, NEW c \in CaseId, Drive(c)
  PROVE  BatchPart'
<1>1. /\ batch.runs \in Nat /\ batch.current = c
      /\ batch.step = "refresh" /\ c \in PendingCases
      /\ Run(c) /\ [Next]_vars
  BY DEF BatchRow, Drive, Driving, Next
<1>2. /\ batch'.upset = batch.upset /\ batch'.current = c
      /\ batch'.runs = batch.runs + 1
      /\ batch'.step = AfterRun(cases'[c].state)
  BY <1>1 DEF Drive, BatchRow
<1>3. batch'.step = "leave" => cases'[c].state \in TerminalStates
  BY <1>2 DEF AfterRun
<1> SUFFICES ASSUME c \notin batch.upset PROVE BatchPart'
  BY <1>2, WorkflowAssumption DEF BatchPart
<1>4. Unfinished(c) /\ batch.runs <= Spent(c)
  BY <1>1 DEF BatchPart, Unfinished, Present, PendingCases, AbsentCase
<1>5. ASSUME Unfinished(c)' PROVE batch'.runs <= Spent(c)'
  <2>1. Awaited(c)' \/ cases'[c].state # "SCHEDULED"
    BY <1>2 DEF Awaited, AfterRun
  <2>2. CASE ~Awaited(c)
    BY <1>1, <1>2, <1>4, <1>5, <2>1, <2>2, SpentByRun
  <2>3. CASE Awaited(c)
    <3>1. cases[c].state = "SCHEDULED" /\ IsFiniteSet(Rows)
      BY <2>3 DEF Awaited, TablesInv
    <3>2. FailsAgain(c)
      BY <1>1, <1>5, <3>1, RunOutcome DEF TablesInv, Unfinished, Postpones
    <3>3. Cardinality(Failures(c)') = Cardinality(Failures(c)) + 1
          /\ Cardinality(Failures(c)) \in Nat
      BY <3>1, <3>2, SpentNumber DEF FailsAgain
    <3>4. Spent(c) = 2 * Cardinality(Failures(c)) + 1
      BY <2>3 DEF Spent
    <3>5. Spent(c)' \in Nat /\ Spent(c)' >= 2 * Cardinality(Failures(c)')
      BY <3>3 DEF Spent
    <3> QED
      BY <1>1, <1>2, <1>4, <3>3, <3>4, <3>5
  <2> QED
    BY <2>2, <2>3
<1> QED
  BY <1>2, <1>3, <1>5, WorkflowAssumption, BatchOfCurrent

\* A run that only reports the wait is the one the bound allows for it.
LEMMA BatchWaits ==
  ASSUME TablesInv, BatchPart, batch \in BatchRow, NEW c \in CaseId, DriveWaits(c)
  PROVE  BatchPart'
<1>1. /\ TypeOK /\ ScheduleConsistent /\ IsFiniteSet(Rows) /\ clock \in Nat
      /\ batch.runs \in Nat /\ batch.current = c
      /\ batch.step = "refresh" /\ cases[c].state = "SCHEDULED"
      /\ \A a \in Pending(c) : actions[a].due > clock
      /\ UNCHANGED vars
  BY DEF BatchRow, DriveWaits, Driving, TablesInv, TypeOK
<1>2. /\ batch'.upset = batch.upset /\ batch'.current = c
      /\ batch'.runs = batch.runs + 1 /\ batch'.step = "advance"
  BY <1>1 DEF DriveWaits, BatchRow
<1> SUFFICES ASSUME c \notin batch.upset PROVE BatchPart'
  BY <1>2, WorkflowAssumption DEF BatchPart
<1>3. Failures(c)' = Failures(c) /\ cases'[c] = cases[c]
  BY <1>1 DEF vars, Failures
<1>4. ~Awaited(c)
  <2>1. PICK a \in ActionId : Pending(c) = {a}
    BY <1>1 DEF ScheduleConsistent
  <2>2. actions[a].due \in Nat /\ actions[a].due > clock
    BY <1>1, <2>1, PendingRow
  <2> QED
    BY <1>1, <2>1, <2>2 DEF Awaited
<1>5. Awaited(c)'
  BY <1>1, <1>2, <1>3 DEF Awaited
<1>6. Unfinished(c) => batch.runs <= Spent(c)
  BY <1>1 DEF BatchPart
<1>7. Unfinished(c)
  BY <1>1, WorkflowAssumption
  DEF Unfinished, Present, AbsentCase, TerminalStates, CaseState
<1>8. batch'.runs <= Spent(c)'
  <2>1. Cardinality(Failures(c)) \in Nat
    BY <1>1, SpentNumber
  <2>2. Spent(c) = 2 * Cardinality(Failures(c))
    BY <1>4, <2>1 DEF Spent
  <2>3. Spent(c)' = 2 * Cardinality(Failures(c)') + 1
    BY <1>5 DEF Spent
  <2> QED
    BY <1>1, <1>2, <1>3, <1>6, <1>7, <2>1, <2>2, <2>3
<1> QED
  BY <1>2, <1>8, WorkflowAssumption, BatchOfCurrent

\* Moving the clock by one delay makes the retry due, so the next run resumes it.
LEMMA BatchAdvances ==
  ASSUME TablesInv, BatchPart, batch \in BatchRow, AdvanceForRetry
  PROVE  BatchPart'
<1>1. /\ TypeOK /\ ScheduleConsistent /\ IsFiniteSet(Rows)
      /\ batch.runs \in Nat
      /\ clock' = clock + Delay /\ UNCHANGED <<cases, actions>>
  BY DEF BatchRow, AdvanceForRetry, AdvanceClock, TablesInv
<1>2. /\ batch'.upset = batch.upset /\ batch'.current = batch.current
      /\ batch'.runs = batch.runs /\ batch'.step = "refresh"
  BY DEF AdvanceForRetry, BatchRow
<1>3. \A d \in CaseId : /\ Present(d)' = Present(d) /\ Unfinished(d)' = Unfinished(d)
                        /\ Failures(d)' = Failures(d) /\ Pending(d)' = Pending(d)
  BY <1>1 DEF Present, Unfinished, Failures, Pending
<1>4. ASSUME NEW c \in CaseId, batch'.current = c, c \notin batch'.upset, Unfinished(c)'
      PROVE  batch'.runs <= Spent(c)'
  <2>1. batch.runs <= Spent(c)
    BY <1>2, <1>3, <1>4 DEF BatchPart
  <2>2. Cardinality(Failures(c)) \in Nat
    BY <1>1, SpentNumber
  <2>3. CASE cases[c].state = "SCHEDULED"
    <3>1. PICK a \in ActionId : Pending(c) = {a} /\ actions[a].due <= clock + Delay
      BY <1>1, <2>3 DEF ScheduleConsistent
    <3>2. Awaited(c)'
      BY <1>1, <1>3, <2>3, <3>1 DEF Awaited
    <3>3. Spent(c)' = 2 * Cardinality(Failures(c)') + 1
      BY <3>2 DEF Spent
    <3>4. Spent(c) <= 2 * Cardinality(Failures(c)) + 1 /\ Spent(c) \in Nat
      BY <2>2 DEF Spent
    <3> QED
      BY <1>1, <1>2, <1>3, <2>1, <2>2, <3>3, <3>4
  <2>4. CASE cases[c].state # "SCHEDULED"
    <3>1. ~Awaited(c)
      BY <2>4 DEF Awaited
    <3>2. Spent(c) = 2 * Cardinality(Failures(c))
      BY <2>2, <3>1 DEF Spent
    <3>3. Spent(c)' \in Nat /\ Spent(c)' >= 2 * Cardinality(Failures(c)')
      BY <1>3, <2>2 DEF Spent
    <3> QED
      BY <1>1, <1>2, <1>3, <2>1, <2>2, <3>2, <3>3
  <2> QED
    BY <2>3, <2>4
<1> QED
  BY <1>2, <1>4, BatchOfCurrent

LEMMA BatchPortal ==
  ASSUME TablesInv, BatchPart, batch \in BatchRow, NEW c \in CaseId, NEW latest,
         Completes(c, latest)
  PROVE  BatchPart'
<1>1. /\ TypeOK /\ ScheduleConsistent /\ clock \in Nat
      /\ batch.runs \in Nat
      /\ batch' = batch /\ clock' = clock
  BY DEF BatchRow, TablesInv, TypeOK, Completes
<1>2. /\ \A d \in CaseId : cases'[d].payment = cases[d].payment
      /\ \A d \in CaseId : d # c => cases'[d] = cases[d]
      /\ cases'[c].state = "RECOVERED"
      /\ \A a \in ActionId : a \notin latest => actions'[a] = actions[a]
      /\ \A a \in latest : actions[a].case = c /\ actions'[a].case = c
  BY <1>1, CompletedTables
<1>3. \A d \in CaseId : cases[d].state \in TerminalStates => cases'[d].state \in TerminalStates
  BY <1>2 DEF TerminalStates
<1>4. ASSUME NEW d \in CaseId, batch.current = d, d \notin batch.upset, Unfinished(d)'
      PROVE  batch.runs <= Spent(d)'
  <2>1. d # c /\ cases'[d] = cases[d]
    BY <1>2, <1>4 DEF Unfinished, TerminalStates
  <2>2. Unfinished(d) /\ batch.runs <= Spent(d)
    BY <1>4, <2>1 DEF Unfinished, Present, BatchPart
  <2>3. Failures(d)' = Failures(d)
    BY <1>2, <2>1 DEF Failures
  <2>4. Pending(d)' = Pending(d) /\ \A a \in Pending(d) : actions'[a] = actions[a]
    BY <1>1, PortalWaits
  <2>5. clock' \in Nat /\ clock <= clock' /\ batch'.step = batch.step
    BY <1>1
  <2> QED
    BY <1>1, <2>1, <2>2, <2>3, <2>4, <2>5, SpentKept
<1>5. \A d \in CaseId : batch'.current = d /\ d \notin batch'.upset =>
         /\ Unfinished(d)' => batch'.runs <= Spent(d)'
         /\ batch'.step = "leave" => cases'[d].state \in TerminalStates
  BY <1>1, <1>3, <1>4 DEF BatchPart
<1>6. batch'.current = None => batch'.step = "refresh"
  BY <1>1 DEF BatchPart
<1> QED
  BY <1>5, <1>6, BatchOfCurrent

\* A call leaves the case in hand as it was.
LEMMA BatchCall ==
  ASSUME TablesInv, BatchPart, batch \in BatchRow, Rung
  PROVE  BatchPart'
<1>1. PICK c \in CaseId, a \in ActionId, row \in ActionRow : Rings(c, a, row)
  BY DEF Rung
<1>2. /\ cases' = cases /\ clock' = clock /\ clock \in Nat /\ batch' = batch
      /\ batch.runs \in Nat /\ TypeOK
  BY <1>1 DEF Rings, TablesInv, TypeOK, BatchRow
<1>3. \A d \in CaseId : /\ Failures(d)' = Failures(d) /\ Pending(d)' = Pending(d)
                        /\ \A b \in Pending(d) : actions'[b] = actions[b]
  BY <1>1, <1>2, RungTables
<1>4. ASSUME NEW d \in CaseId, batch.current = d, d \notin batch.upset, Unfinished(d)'
      PROVE  batch.runs <= Spent(d)'
  <2>1. Unfinished(d) /\ batch.runs <= Spent(d)
    BY <1>2, <1>4 DEF Unfinished, Present, BatchPart
  <2>2. clock' \in Nat /\ clock <= clock' /\ batch'.step = batch.step /\ cases'[d] = cases[d]
    BY <1>2
  <2> QED
    BY <1>2, <1>3, <2>1, <2>2, SpentKept
<1> QED
  BY <1>2, <1>4, BatchOfCurrent DEF BatchPart

LEMMA BatchBookkeeping ==
  ASSUME batch \in BatchRow,
         \/ BatchFails \/ \E some \in SUBSET CaseId : StartBatch(some)
         \/ \E c \in CaseId : RunHalts(c) \/ LeaveCase(c)
  PROVE  BatchPart'
<1>1. CASE BatchFails \/ \E some \in SUBSET CaseId : StartBatch(some)
  <2>1. batch'.current = None /\ batch'.step = "refresh"
    BY <1>1 DEF StartBatch, BatchFails, NoBatch
  <2> QED
    BY <2>1, WorkflowAssumption DEF BatchPart
<1>2. ASSUME NEW c \in CaseId, RunHalts(c) \/ LeaveCase(c) PROVE BatchPart'
  <2>1. CASE RunHalts(c)
    <3>1. batch'.current = None /\ batch'.step = "refresh"
      BY <2>1 DEF RunHalts, Driving, BatchRow
    <3> QED
      BY <3>1, WorkflowAssumption DEF BatchPart
  <2>2. CASE LeaveCase(c)
    <3>1. batch'.current = None /\ batch'.step = "refresh"
      BY <2>2 DEF LeaveCase, BatchRow
    <3> QED
      BY <3>1, WorkflowAssumption DEF BatchPart
  <2> QED
    BY <1>2, <2>1, <2>2
<1> QED
  BY <1>1, <1>2

\* A case is taken up with no run spent.
LEMMA BatchTakes ==
  ASSUME TablesInv, BatchPart, batch \in BatchRow, NEW c \in CaseId, TakeCase(c)
  PROVE  BatchPart'
<1>1. IsFiniteSet(Rows) /\ Failures(c)' = Failures(c)
  BY DEF TakeCase, vars, Failures, TablesInv
<1>2. batch'.current = c /\ batch'.runs = 0 /\ batch'.step = "refresh"
  BY DEF TakeCase, BatchRow, BatchPart
<1>3. Spent(c)' \in Nat
  <2>1. Cardinality(Failures(c)') \in Nat
    BY <1>1, SpentNumber
  <2> QED
    BY <2>1 DEF Spent
<1>4. 0 <= Spent(c)'
  BY <1>3
<1> QED
  BY <1>2, <1>4, WorkflowAssumption, BatchOfCurrent

LEMMA BatchStep == ChannelsInv /\ [ChannelsNext]_channels => BatchPart'
<1> SUFFICES ASSUME ChannelsInv, [ChannelsNext]_channels PROVE BatchPart'
  OBVIOUS
<1>1. /\ TablesInv /\ BatchPart /\ batch \in BatchRow /\ TypeOK
  BY DEF ChannelsInv, ChannelsTypeOK, TablesInv, BatchRow
<1>2. CASE Autopilot
  BY <1>1, <1>2, BatchDrive, BatchWaits, BatchAdvances, BatchTakes, BatchBookkeeping
  DEF Autopilot
<1>3. CASE Elsewhere \/ UNCHANGED channels
  <2>1. batch' = batch /\ (FreshIds \/ cases' = cases)
    BY <1>3 DEF Elsewhere, channels, vars
  <2> QED
    BY <1>1, <1>3, <2>1, AutopilotWorks, BatchElsewhere
<1>4. ASSUME NEW c \in CaseId, CustomerRecovers(c) PROVE BatchPart'
  BY <1>1, <1>4, CustomerEffect, BatchPortal
<1>5. CASE Operators
  BY <1>1, <1>5, OperatorsRebuild, BatchUpset DEF Rebuilt
<1>6. ASSUME NEW c \in CaseId, NEW a \in ActionId, NEW success \in BOOLEAN,
             VoiceCall(c, a, success)
      PROVE  BatchPart'
  BY <1>1, <1>6, CallEffect, BatchCall
<1> QED
  BY <1>2, <1>3, <1>4, <1>5, <1>6 DEF ChannelsNext

-----------------------------------------------------------------------------
LEMMA ChannelsStart == ChannelsInit => ChannelsInv
<1> SUFFICES ASSUME ChannelsInit PROVE ChannelsInv
  OBVIOUS
<1>1. /\ Init /\ TypeOK /\ batch = NoBatch
      /\ createdAt = [a \in ActionId |-> 0]
  BY InitTyped DEF ChannelsInit
<1>2. /\ \A c \in CaseId : cases[c] = AbsentCase /\ revenueEvents[c] = 0
      /\ \A a \in ActionId : actions[a] = AbsentAction
  BY <1>1 DEF Init
<1>3. /\ AbsentCase.state = None /\ AbsentAction.case = None
      /\ AbsentAction.due = None /\ AbsentAction.outcome = None
  BY DEF AbsentCase, AbsentAction
<1>4. None \notin CaseId /\ None \notin OutcomeKind /\ None \notin CaseState
  BY WorkflowAssumption
<1>5. Rows = {} /\ \A c \in CaseId : Pending(c) = {} /\ Won(c) = {}
  BY <1>2, <1>3, <1>4 DEF Rows, Pending, Won
<1>6. IsFiniteSet({}) /\ Cardinality({}) = 0
  BY FS_EmptySet
<1>7. RevenueReported
  <2>1. \A c \in CaseId : Cardinality(Won(c)) <= revenueEvents[c]
    BY <1>2, <1>5, <1>6
  <2> QED
    BY <2>1, RevenueOfWon
<1>8. ScheduleConsistent
  BY <1>2, <1>3, <1>4, <1>5 DEF ScheduleConsistent, CaseState
<1>9. OneOpenCase
  BY <1>2, WorkflowAssumption DEF OneOpenCase, OpenCases, AbsentCase
<1>10. FailuresRan /\ \A c \in CaseId : BackstopPart(c)
  BY <1>2, <1>3, <1>4 DEF FailuresRan, OutcomeKind, BackstopPart, Unfinished, Present
<1>11. BatchPart
  BY <1>1, <1>4 DEF BatchPart, NoBatch
<1>12. ChannelsTypeOK
  BY <1>1 DEF ChannelsTypeOK, NoBatch, MaxRunsPerCase
<1> QED
  BY <1>1, <1>5, <1>6, <1>7, <1>8, <1>9, <1>10, <1>11, <1>12 DEF ChannelsInv, TablesInv

\* The workflow, the portal, the calls, the autopilot and the operators together
\* keep the tables in order, whatever the order in which they act.
THEOREM ChannelsInvariant == ChannelsSpec => []ChannelsInv
<1>1. ChannelsInv /\ [ChannelsNext]_channels => ChannelsInv'
  BY TablesStep, ChannelsTypeStep, BatchStep DEF ChannelsInv
<1> QED
  BY <1>1, ChannelsStart, PTL DEF ChannelsSpec

\* Whoever changes them, the tables hold rows of their types and no case rests in
\* a state that run() refuses, and the autopilot's runs stay within its ceiling.
THEOREM ChannelsTypes == ChannelsSpec => []ChannelsTypeOK
BY ChannelsInvariant, PTL DEF ChannelsInv

\* A waiting case has its one retry to wait for, with customers paying, operators
\* clearing the queue and batches in progress.
THEOREM ChannelsSchedule == ChannelsSpec => []ScheduleConsistent
BY ChannelsInvariant, PTL DEF ChannelsInv, TablesInv

\* No payment has two cases open, however often it fails while the portal and the
\* autopilot work on its case.
THEOREM ChannelsOneOpenCase == ChannelsSpec => []OneOpenCase
BY ChannelsInvariant, PTL DEF ChannelsInv, TablesInv

\* Every outcome that counts as recovered revenue is in its case's audit trail,
\* however often the customer comes back to the portal.
THEOREM RevenueIsReported == ChannelsSpec => []RevenueReported
BY ChannelsInvariant, PTL DEF ChannelsInv, TablesInv

-----------------------------------------------------------------------------
(* How a case comes to be RECOVERED.                                       *)

\* A run that ends in RECOVERED has settled the payment with a success.
LEMMA RunPays ==
  ASSUME TypeOK, NEW c \in CaseId, Run(c), cases'[c].state = "RECOVERED"
  PROVE  payments'[cases'[c].payment].status \in Successful
<1>1. ASSUME NEW a, NEW row, NEW via, NEW success \in BOOLEAN,
             row.payment = cases[c].payment, cases[c].payment \in PaymentId,
             Execute(c, a, row, via, success)
      PROVE  payments'[cases'[c].payment].status \in Successful
  <2>1. cases'[c].payment = cases[c].payment
        /\ cases'[c].state = IF Recovered(row.payment, success) THEN "RECOVERED"
                                                                 ELSE "FAILED"
    BY <1>1 DEF Execute, Advance, TypeOK, CaseRow
  <2>2. success
    BY <2>1 DEF Recovered
  <2>3. payments'[row.payment].status = IF success THEN "SUCCEEDED" ELSE "FAILED"
    BY <1>1 DEF Execute, SettlePayment, TypeOK, PaymentRow
  <2> QED
    BY <1>1, <2>1, <2>2, <2>3 DEF Successful
<1>2. ASSUME NEW a \in ActionId, NEW t \in ActionType,
             RunStops(c, a, t) \/ RunEscalates(c, a, t) \/ RunSchedules(c, a, t)
      PROVE  FALSE
  <2>1. cases'[c].state \in {"STOPPED", "ESCALATED", "SCHEDULED"}
    BY <1>2 DEF RunStops, RunEscalates, RunSchedules, Advance, TypeOK, CaseRow
  <2> QED
    BY <2>1
<1>3. ASSUME NEW a \in ActionId, NEW t \in ActionType, NEW success \in BOOLEAN,
             RunExecutes(c, a, t, success)
      PROVE  payments'[cases'[c].payment].status \in Successful
  <2>1. cases[c].payment \in PaymentId
    BY <1>3, SelectsCase DEF RunExecutes
  <2>2. Proposal(c, t).payment = cases[c].payment
    BY <2>1, ProposalRow
  <2> QED
    BY <1>1, <1>3, <2>1, <2>2 DEF RunExecutes
<1>4. ASSUME NEW a \in ActionId, NEW success \in BOOLEAN, Resume(c, a, success)
      PROVE  payments'[cases'[c].payment].status \in Successful
  <2>1. actions[a].payment = cases[c].payment /\ actions[a].payment \in PaymentId
    BY <1>4, PendingRow DEF Resume
  <2> QED
    BY <1>1, <1>4, <2>1 DEF Resume
<1> QED
  BY <1>2, <1>3, <1>4 DEF Run

LEMMA PaidStep ==
  TablesInv /\ [ChannelsNext]_channels => \A c \in CaseId : ChangesRightly(c)
<1> SUFFICES ASSUME TablesInv, [ChannelsNext]_channels, NEW d \in CaseId
             PROVE  ChangesRightly(d)
  OBVIOUS
<1>1. /\ TypeOK /\ ScheduleConsistent /\ IsFiniteSet(Rows) /\ FailuresRan
      /\ \A c \in CaseId : BackstopPart(c)
  BY DEF TablesInv
<1>2. ASSUME NEW c \in CaseId, Run(c) PROVE ChangesRightly(d)
  <2>1. CASE d = c
    <3>1. cases[d].state \notin TerminalStates
      BY <1>1, <1>2, <2>1, RunOutcome DEF Unfinished
    <3> QED
      BY <1>1, <1>2, <2>1, <3>1, RunPays DEF ChangesRightly
  <2>2. CASE d # c
    BY <1>1, <1>2, <2>2, RunOutcome DEF ChangesRightly
  <2> QED
    BY <2>1, <2>2
<1>3. ASSUME [Next]_vars, ~(\E c \in CaseId : Run(c)) PROVE ChangesRightly(d)
  <2>1. /\ Present(d) => cases'[d] = cases[d]
        /\ ~Present(d) => cases'[d] = AbsentCase \/ cases'[d].state = "DETECTED"
    BY <1>1, <1>3, OtherOutcome
  <2>2. ~Present(d) => cases[d].state \notin TerminalStates
    BY WorkflowAssumption DEF Present, AbsentCase, TerminalStates, CaseState
  <2> QED
    BY <2>1, <2>2 DEF ChangesRightly
<1>4. CASE Autopilot \/ Elsewhere \/ UNCHANGED channels
  BY <1>2, <1>3, <1>4, AutopilotWorks
<1>5. ASSUME NEW c \in CaseId, CustomerRecovers(c) PROVE ChangesRightly(d)
  <2>1. PICK latest \in SUBSET ActionId : Completes(c, latest)
    BY <1>1, <1>5, CustomerEffect
  <2>2. /\ cases'[c].payment = cases[c].payment
        /\ d # c => cases'[d] = cases[d]
        /\ cases'[c].state = "RECOVERED"
    BY <1>1, <2>1, CompletedTables
  <2>3. payments'[cases[c].payment].status = "SUCCEEDED"
    BY <2>1 DEF Completes
  <2> QED
    BY <2>2, <2>3 DEF ChangesRightly, Successful
<1>6. CASE Operators
  <2>1. /\ cases'[d] = AbsentCase \/ (cases'[d].state = "DETECTED" /\ clock' = 0)
        /\ \A a \in ActionId : actions'[a] = AbsentAction
    BY <1>1, <1>6, OperatorsRebuild DEF Rebuilt
  <2> QED
    BY <2>1 DEF ChangesRightly
<1>7. ASSUME NEW c \in CaseId, NEW a \in ActionId, NEW success \in BOOLEAN,
             VoiceCall(c, a, success)
      PROVE  ChangesRightly(d)
  BY <1>7 DEF VoiceCall, ChangesRightly
<1> QED
  BY <1>4, <1>5, <1>6, <1>7 DEF ChannelsNext

\* No step of anybody makes a case RECOVERED without leaving its payment captured,
\* and nobody but the operators' reset takes up a finished case again.
THEOREM OnlyPaidCasesRecover == ChannelsSpec => RecoveredOnlyWhenPaid
<1>1. ChannelsInv /\ [ChannelsNext]_channels => \A c \in CaseId : ChangesRightly(c)
  BY PaidStep DEF ChannelsInv
<1> QED
  BY <1>1, ChannelsInvariant, PTL DEF ChannelsSpec, RecoveredOnlyWhenPaid

-----------------------------------------------------------------------------
(* The autopilot's ceiling.  Its code asks for eight runs whatever the     *)
(* backstop is configured to be; they are enough while the backstop's      *)
(* failures, at two runs each, are fewer.                                  *)

\* The ceiling is not reached by a case that could still be run.
LEMMA EnoughRuns ==
  ASSUME 2 * RepeatedFailureLimit < MaxRunsPerCase,
         TablesInv, BatchPart, batch \in BatchRow, NEW c \in CaseId, batch.current = c,
         c \notin batch.upset, Present(c), batch.step = "refresh", ~Driving(c)
  PROVE  cases[c].state \in TerminalStates
<1> SUFFICES ASSUME cases[c].state \notin TerminalStates PROVE FALSE
  OBVIOUS
<1>1. /\ IsFiniteSet(Rows) /\ BackstopPart(c) /\ batch.runs \in Nat
  BY DEF TablesInv, BatchRow
<1>2. Unfinished(c) /\ batch.runs <= Spent(c)
  BY DEF BatchPart, Unfinished
<1>3. ~(batch.runs < MaxRunsPerCase)
  <2>1. cases[c].state # None
    BY WorkflowAssumption DEF Present, TablesInv, TypeOK, RunnableStates, TerminalStates,
       CaseState
  <2> QED
    BY <2>1 DEF Driving, PendingCases
<1>4. /\ Cardinality(Failures(c)) \in Nat
      /\ Cardinality(Failures(c)) <= RepeatedFailureLimit
      /\ Awaited(c) => Cardinality(Failures(c)) < RepeatedFailureLimit
  BY <1>1, <1>2, SpentNumber DEF BackstopPart, Awaited
<1>5. CASE Awaited(c)
  <2>1. Spent(c) = 2 * Cardinality(Failures(c)) + 1
        /\ Cardinality(Failures(c)) < RepeatedFailureLimit
    BY <1>4, <1>5 DEF Spent
  <2> QED
    BY <1>1, <1>2, <1>3, <1>4, <2>1, PolicyAssumption DEF MaxRunsPerCase
<1>6. CASE ~Awaited(c)
  <2>1. Spent(c) = 2 * Cardinality(Failures(c))
    BY <1>4, <1>6 DEF Spent
  <2> QED
    BY <1>1, <1>2, <1>3, <1>4, <2>1, PolicyAssumption DEF MaxRunsPerCase
<1> QED
  BY <1>5, <1>6

\* A finished case stays finished while the batch that left it is remembered.
LEMMA FinishedStays ==
  ASSUME TablesInv, [ChannelsNext]_channels, ~Operators, NEW c \in CaseId,
         cases[c].state \in TerminalStates
  PROVE  cases'[c].state \in TerminalStates
<1>1. ASSUME NEW d \in CaseId, CustomerRecovers(d) PROVE cases'[c].state \in TerminalStates
  BY <1>1, CustomerEffect, CompletedTables DEF TablesInv, TerminalStates
<1>2. ASSUME NEW d, NEW a, NEW success, VoiceCall(d, a, success)
      PROVE  cases'[c].state \in TerminalStates
  BY <1>2 DEF VoiceCall
<1> QED
  BY <1>1, <1>2, FinishedKept, AutopilotWorks DEF ChannelsNext

LEMMA FinishesStep ==
  ASSUME 2 * RepeatedFailureLimit < MaxRunsPerCase
  PROVE  ChannelsInv /\ AutopilotFinishesCases /\ [ChannelsNext]_channels
           => AutopilotFinishesCases'
<1> SUFFICES ASSUME ChannelsInv, AutopilotFinishesCases, [ChannelsNext]_channels
             PROVE  AutopilotFinishesCases'
  OBVIOUS
<1>1. /\ TablesInv /\ BatchPart /\ batch \in BatchRow /\ TypeOK
      /\ batch.left \subseteq CaseId
  BY DEF ChannelsInv, ChannelsTypeOK, TablesInv, BatchRow
<1> DEFINE through == batch.left \ batch.upset
<1>2. CASE Operators
  <2>1. batch'.left = {}
    BY <1>1, <1>2, OperatorsRebuild, BatchUpset DEF Rebuilt
  <2> QED
    BY <2>1 DEF AutopilotFinishesCases
<1>3. ASSUME ~Operators, batch'.left \ batch'.upset \subseteq through
      PROVE  AutopilotFinishesCases'
  BY <1>1, <1>3, FinishedStays DEF AutopilotFinishesCases
<1>4. ASSUME ~Operators, NEW c \in CaseId, LeaveCase(c) PROVE AutopilotFinishesCases'
  <2>1. c \in batch.upset \/ cases[c].state \in TerminalStates
    BY <1>1, <1>4, EnoughRuns DEF LeaveCase, BatchPart, Present
  <2>2. batch'.left = batch.left \cup {c} /\ batch'.upset = batch.upset /\ cases' = cases
    BY <1>1, <1>4 DEF LeaveCase, vars, BatchRow
  <2> QED
    BY <2>1, <2>2 DEF AutopilotFinishesCases
<1>5. ASSUME ~Operators, \A c \in CaseId : ~LeaveCase(c)
      PROVE  batch'.left \ batch'.upset \subseteq through
  <2>1. ASSUME NEW c \in CaseId, RunHalts(c) PROVE batch'.left \ batch'.upset \subseteq through
    <3>1. batch'.left = batch.left \cup {c} /\ batch'.upset = batch.upset \cup {c}
      BY <1>1, <2>1 DEF RunHalts, BatchRow
    <3> QED
      BY <3>1
  <2>2. ASSUME Autopilot, \A c \in CaseId : ~RunHalts(c)
        PROVE  batch'.left \ batch'.upset \subseteq through
    <3>1. CASE BatchFails \/ \E some \in SUBSET CaseId : StartBatch(some)
      BY <3>1 DEF StartBatch, BatchFails, NoBatch
    <3>2. ASSUME NEW c \in CaseId, TakeCase(c) \/ Drive(c) \/ DriveWaits(c)
          PROVE  batch'.left = batch.left /\ batch'.upset = batch.upset
      BY <1>1, <3>2 DEF TakeCase, Drive, DriveWaits, BatchRow
    <3>3. CASE AdvanceForRetry
      BY <1>1, <3>3 DEF AdvanceForRetry, BatchRow
    <3> QED
      BY <1>5, <2>2, <3>1, <3>2, <3>3 DEF Autopilot
  <2>3. ASSUME ~Autopilot PROVE batch' = batch
    BY <1>5, <2>3
    DEF ChannelsNext, Elsewhere, CustomerRecovers, PortalCompletes, VoiceCall, channels
  <2> QED
    BY <2>1, <2>2, <2>3
<1> QED
  BY <1>2, <1>3, <1>4, <1>5

\* The autopilot leaves no case unfinished, whoever runs, fails or pays it in the
\* meantime, as long as twice the configured backstop is below its ceiling (six
\* and eight as the system is configured); a case whose run raised is not claimed,
\* nor one whose row an operator deleted or seeded again while it was in hand.
THEOREM AutopilotFinishes ==
  ASSUME 2 * RepeatedFailureLimit < MaxRunsPerCase
  PROVE  ChannelsSpec => []AutopilotFinishesCases
<1>1. ChannelsInit => AutopilotFinishesCases
  BY DEF ChannelsInit, NoBatch, AutopilotFinishesCases
<1>2. ChannelsInv /\ AutopilotFinishesCases /\ [ChannelsNext]_channels
        => AutopilotFinishesCases'
  BY FinishesStep
<1> QED
  BY <1>1, <1>2, ChannelsInvariant, PTL DEF ChannelsSpec
=============================================================================

---------------------------- MODULE InsightsProofs ----------------------------
(***************************************************************************)
(* The benchmark rebuilds a case as it stood at detection from what is     *)
(* persisted, and projects from there.  The theorems say that the rebuilt  *)
(* context is the one the case was opened with, and that what is projected *)
(* from it is what the workflow did, for any portfolio, any policy, any    *)
(* economics and any seed.                                                 *)
(***************************************************************************)
EXTENDS RecoveryInsights, DecisionPipelineProofs

\* What the core and the pipeline guarantee of the tables the views read.
Tables == /\ Core /\ OneOpenCase /\ ScheduleConsistent /\ PipelineInv

\* Whatever the pipeline decides, the tables the views read are consistent.
THEOREM TablesHold == PipelineSpec => []Tables
  BY InitPipelineInv, PipelineInvStep, PipelineImplements, CoreHolds, OneOpenCorrect,
     ScheduleCorrect, PTL DEF PipelineSpec, Tables

-----------------------------------------------------------------------------
(* The history of a case, from the context it was opened with.             *)

Disturbed(c) == opened[c].disturbed
At(c) == opened[c].at
Owed(c) == cases[c].payment

ActionsIn(c)  == {a \in ActionId : actions[a].case = c}
CarriedOut(c) == {a \in ActionId : actions[a].case = c /\ actions[a].executedAt # None}
FirstIn(c, a) == a \in ActionsIn(c) /\ \A b \in ActionsIn(c) : a <= b

\* What was recorded when the case was opened, whatever happened since.
RecordPart(c) ==
  /\ At(c).amount = payments[Owed(c)].amount
  /\ At(c).who = ProfileOf[CustomerOf[Owed(c)]]
  /\ At(c).attempts \in Nat \ {0}
  /\ opened[c].first => At(c).failures = 0 /\ At(c).failed = {}
  /\ IsFiniteSet(CarriedOut(c))

\* Only the case's own runs have touched its payment.
QuietPart(c) ==
  /\ payments[Owed(c)].attempts = At(c).attempts + Cardinality(CarriedOut(c))
  /\ diagnosis[c] = IF cases[c].state = "DETECTED" THEN None ELSE At(c).reason
  /\ cases[c].state \notin TerminalStates =>
       Reason(Owed(c)) = At(c).reason /\ payments[Owed(c)].status = "FAILED"
  /\ \A d \in CaseId \ {c} : cases[d].payment = Owed(c) =>
       cases[d].state \in TerminalStates /\ ~opened[c].first

\* What the context at opening says about a type: the gate's verdict, and whether
\* the attempt would succeed.
VerdictThen(c, t) == Evaluate([action |-> t, status |-> "FAILED", reason |-> At(c).reason,
                               attempts |-> At(c).attempts, amount |-> At(c).amount,
                               failures |-> 0]).outcome
SuccessThen(c, t) == WouldSucceed(At(c).reason, t, Owed(c), At(c).attempts + 1)

\* The first action of the case went as the context at opening said; while it
\* waits, it is the only one.
ForetoldPart(c, a) ==
  /\ VerdictThen(c, actions[a].type)
       = IF actions[a].status \in {"BLOCKED", "ESCALATED"} THEN actions[a].status
                                                            ELSE "APPROVED"
  /\ actions[a].executedAt # None =>
       /\ actions[a].status \notin {"BLOCKED", "ESCALATED"}
       /\ SuccessThen(c, actions[a].type) = (actions[a].outcome = "RECOVERED")
  /\ a \in Pending(c) => ActionsIn(c) = {a}

HistoryOf(c) ==
  cases[c] # AbsentCase =>
    /\ RecordPart(c)
    /\ ~Disturbed(c) => /\ QuietPart(c)
                        /\ opened[c].first => \A a \in ActionId :
                             FirstIn(c, a) => ForetoldPart(c, a)

HistoryInv == \A c \in CaseId : HistoryOf(c)

-----------------------------------------------------------------------------
(* What a run writes, in the terms of the history.                         *)

\* The provider was asked, and the row keeps its answer.
Answered(c, row, success) ==
  /\ row.executedAt # None
  /\ row.status \notin {"BLOCKED", "ESCALATED"}
  /\ row.outcome = IF Recovered(Owed(c), success) THEN "RECOVERED" ELSE "UNRECOVERED"
  /\ Answers(Owed(c), success)

LEMMA ExecutedRow ==
  ASSUME TypeOK, NEW c \in CaseId, NEW a \in ActionId, NEW row, NEW success,
         Executed(c, a, row, success), row.payment = Owed(c)
  PROVE  \E new \in ActionRow, to \in CaseState :
           Moves(c, a, new, to) /\ new.type = row.type /\ Answered(c, new, success)
<1>1. PICK to \in CaseState, new \in ActionRow :
        /\ Moves(c, a, new, to)
        /\ new.type = row.type /\ new.status \in {"EXECUTED", "FAILED"}
        /\ new.executedAt = clock
        /\ new.outcome = IF Recovered(row.payment, success) THEN "RECOVERED"
                                                            ELSE "UNRECOVERED"
        /\ Answers(row.payment, success)
  BY DEF Executed
<1>2. new.executedAt # None /\ new.status \notin {"BLOCKED", "ESCALATED"}
  BY <1>1, WorkflowAssumption DEF TypeOK
<1>3. Answered(c, new, success)
  BY <1>1, <1>2 DEF Answered
<1> QED
  BY <1>1, <1>3

LEMMA CycleRow ==
  ASSUME TypeOK, NEW c \in CaseId, NEW a \in ActionId, NEW t \in ActionType,
         NEW success \in BOOLEAN,
         \/ RunStops(c, a, t) \/ RunEscalates(c, a, t) \/ RunSchedules(c, a, t)
         \/ RunExecutes(c, a, t, success)
  PROVE  \E row \in ActionRow, to \in CaseState :
           /\ Moves(c, a, row, to) /\ row.type = t
           /\ Verdict(c, t) = IF row.status \in {"BLOCKED", "ESCALATED"} THEN row.status
                                                                        ELSE "APPROVED"
           /\ row.executedAt = None \/ Answered(c, row, success)
<1>1. Owed(c) \in PaymentId
  BY DecidedMoves DEF Owed
<1>2. /\ Proposal(c, t) \in ActionRow /\ Proposal(c, t).type = t
      /\ Proposal(c, t).payment = Owed(c)
      /\ Proposal(c, t).status = Verdict(c, t)
      /\ Proposal(c, t).status \in {"APPROVED", "BLOCKED", "ESCALATED"}
      /\ Proposal(c, t).executedAt = None
  BY <1>1, ProposalRow DEF Owed
<1>3. CASE RunStops(c, a, t) \/ RunEscalates(c, a, t)
  BY <1>2, <1>3, ConcludeMoves
<1>4. CASE RunSchedules(c, a, t)
  <2>1. /\ Verdict(c, t) = "APPROVED"
        /\ Scheduled(Proposal(c, t)) \in ActionRow
        /\ Moves(c, a, Scheduled(Proposal(c, t)), "SCHEDULED")
    BY <1>4, DeferMoves
  <2>2. /\ Scheduled(Proposal(c, t)).type = t
        /\ Scheduled(Proposal(c, t)).status = "SCHEDULED"
        /\ Scheduled(Proposal(c, t)).executedAt = None
    BY <1>2, ScheduledRow
  <2>3. "SCHEDULED" \in CaseState
    BY DEF CaseState
  <2> QED
    BY <2>1, <2>2, <2>3
<1>5. CASE RunExecutes(c, a, t, success)
  <2>1. Verdict(c, t) = "APPROVED" /\ Executed(c, a, Proposal(c, t), success)
    BY <1>5, AttemptMoves
  <2>2. PICK new \in ActionRow, to \in CaseState :
          Moves(c, a, new, to) /\ new.type = t /\ Answered(c, new, success)
    BY <1>2, <2>1, ExecutedRow
  <2>3. new.status \notin {"BLOCKED", "ESCALATED"}
    BY <2>2 DEF Answered
  <2> QED
    BY <2>1, <2>2, <2>3
<1> QED
  BY <1>3, <1>4, <1>5

\* What a run does to the payment and to the actions of its case.
LEMMA MovedHistory ==
  ASSUME TypeOK, NEW c \in CaseId, NEW a \in ActionId, NEW row \in ActionRow, NEW to,
         Moves(c, a, row, to)
  PROVE  /\ cases[c].state \in RunnableStates /\ Owed(c) \in PaymentId
         /\ ActionsIn(c)' = ActionsIn(c) \cup {a}
         /\ a \notin CarriedOut(c)
         /\ \A d \in CaseId \ {c} : ActionsIn(d)' = ActionsIn(d) /\ a \notin ActionsIn(d)
         /\ \/ /\ row.executedAt = None /\ payments' = payments
               /\ CarriedOut(c)' = CarriedOut(c)
               /\ to \in {"STOPPED", "ESCALATED", "SCHEDULED"}
            \/ /\ row.executedAt # None /\ Settles(Owed(c))
               /\ CarriedOut(c)' = CarriedOut(c) \cup {a}
               /\ to = IF row.outcome = "RECOVERED" THEN "RECOVERED" ELSE "FAILED"
<1>1. /\ \A b \in ActionId : actions'[b] = IF b = a THEN row ELSE actions[b]
      /\ row.case = c /\ cases[c].state \in RunnableStates /\ Owed(c) \in PaymentId
  <2>1. row.case = c /\ cases[c].state \in RunnableStates /\ Owed(c) \in PaymentId
    BY DEF Moves, Owed
  <2> QED
    BY <2>1, MovedTables
<1>2. /\ actions[a].executedAt = None
      /\ actions[a].case = None \/ actions[a].case = c
  <2>1. CASE Fresh(c, a)
    BY <2>1 DEF Fresh, AbsentAction
  <2>2. CASE a \in Pending(c)
    BY <2>2 DEF Pending
  <2> QED
    BY <2>1, <2>2 DEF Moves, Concludes, Defers, Attempts, Resumes
<1>3. ActionsIn(c)' = ActionsIn(c) \cup {a} /\ a \notin CarriedOut(c)
  BY <1>1, <1>2 DEF ActionsIn, CarriedOut
<1>4. \A d \in CaseId \ {c} : ActionsIn(d)' = ActionsIn(d) /\ a \notin ActionsIn(d)
  BY <1>1, <1>2, WorkflowAssumption DEF ActionsIn
<1>5. CarriedOut(c)' = IF row.executedAt = None THEN CarriedOut(c) ELSE CarriedOut(c) \cup {a}
  BY <1>1, <1>2 DEF CarriedOut
<1>6. CASE Waits(row)
  <2>1. to \in {"STOPPED", "ESCALATED", "SCHEDULED"}
    <3>1. row.executedAt # clock
      BY <1>6, WorkflowAssumption DEF Waits, TypeOK
    <3> QED
      BY <3>1 DEF Moves, Concludes, Defers, Attempts, Resumes, Acts
  <2> QED
    BY <1>1, <1>3, <1>4, <1>5, <1>6, <2>1 DEF Waits
<1>7. CASE Acts(c, row, to)
  <2>1. row.executedAt # None
    BY <1>7, WorkflowAssumption DEF Acts, TypeOK
  <2> QED
    BY <1>1, <1>3, <1>4, <1>5, <1>7, <2>1 DEF Acts, Owed
<1> QED
  BY <1>6, <1>7 DEF Moves, Concludes, Defers, Attempts, Resumes

-----------------------------------------------------------------------------
(* The history is an invariant.                                            *)

LEMMA RecordKept ==
  ASSUME TypeOK, [Next]_vars, NEW c \in CaseId, cases[c] # AbsentCase,
         RecordPart(c), cases'[c].payment = cases[c].payment,
         opened'[c].at = opened[c].at, opened'[c].first = opened[c].first,
         IsFiniteSet(CarriedOut(c)')
  PROVE  RecordPart(c)'
<1>1. payments'[Owed(c)].amount = payments[Owed(c)].amount
  BY MovedAmounts DEF TypeOK, Owed
<1> QED
  BY <1>1 DEF RecordPart, At, Owed

LEMMA ForetoldKept ==
  ASSUME NEW c \in CaseId, NEW a \in ActionId, ForetoldPart(c, a),
         opened'[c] = opened[c], cases'[c].payment = cases[c].payment,
         actions'[a] = actions[a], seed' = seed,
         a \in Pending(c)' => ActionsIn(c)' = {a}
  PROVE  ForetoldPart(c, a)'
<1>1. \A t : VerdictThen(c, t)' = VerdictThen(c, t) /\ SuccessThen(c, t)' = SuccessThen(c, t)
  BY DEF VerdictThen, SuccessThen, WouldSucceed, At, Owed
<1> QED
  BY <1>1 DEF ForetoldPart

\* A case that a step does not concern.
LEMMA HistoryKept ==
  ASSUME TypeOK, [Next]_vars, NEW c \in CaseId, HistoryOf(c),
         cases'[c] = cases[c], opened'[c] = opened[c], diagnosis'[c] = diagnosis[c],
         seed' = seed, ActionsIn(c)' = ActionsIn(c),
         \A a \in ActionsIn(c) : actions'[a] = actions[a],
         cases[c] # AbsentCase /\ ~Disturbed(c) =>
           /\ payments'[Owed(c)] = payments[Owed(c)]
           /\ \A d \in CaseId \ {c} : cases'[d].payment = Owed(c) =>
                cases'[d].state \in TerminalStates /\ ~opened[c].first
  PROVE  HistoryOf(c)'
<1> SUFFICES ASSUME cases'[c] # AbsentCase PROVE HistoryOf(c)'
  BY DEF HistoryOf
<1>1. cases[c] # AbsentCase /\ RecordPart(c)
  BY DEF HistoryOf
<1>2. CarriedOut(c)' = CarriedOut(c) /\ Pending(c)' = Pending(c)
  BY DEF CarriedOut, ActionsIn, Pending
<1>3. RecordPart(c)'
  BY <1>1, <1>2, RecordKept DEF RecordPart
<1>4. Disturbed(c)' = Disturbed(c) /\ Owed(c)' = Owed(c) /\ At(c)' = At(c)
  BY DEF Disturbed, Owed, At
<1>5. ASSUME ~Disturbed(c) PROVE QuietPart(c)'
  <2>1. QuietPart(c) /\ payments'[Owed(c)] = payments[Owed(c)]
    BY <1>1, <1>5 DEF HistoryOf
  <2>2. Reason(Owed(c))' = Reason(Owed(c))
    BY <1>4, <2>1 DEF Reason
  <2> QED
    BY <1>1, <1>2, <1>4, <1>5, <2>1, <2>2 DEF QuietPart
<1>6. ASSUME ~Disturbed(c), opened[c].first, NEW a \in ActionId, FirstIn(c, a)'
      PROVE  ForetoldPart(c, a)'
  <2>1. FirstIn(c, a) /\ actions'[a] = actions[a]
    BY <1>6 DEF FirstIn
  <2>2. ForetoldPart(c, a)
    BY <1>1, <1>6, <2>1 DEF HistoryOf
  <2>3. a \in Pending(c)' => ActionsIn(c)' = {a}
    BY <1>2, <2>2 DEF ForetoldPart
  <2> QED
    BY <2>1, <2>2, <2>3, ForetoldKept
<1> QED
  BY <1>3, <1>4, <1>5, <1>6 DEF HistoryOf

LEMMA PaymentKeepsHistory ==
  ASSUME Tables, HistoryInv, [Next]_vars, NEW p \in PaymentId, PaymentEvent(p),
         NEW c \in CaseId
  PROVE  HistoryOf(c)'
<1>1. /\ Pay(p) /\ Disturb(p) /\ diagnosis' = diagnosis /\ seed' = seed
  BY DEF PaymentEvent
<1>2. /\ TypeOK /\ HistoryOf(c) /\ actions' = actions
      /\ \A d \in CaseId :
           \/ cases'[d] = cases[d]
           \/ /\ cases'[d] = [state |-> "DETECTED", payment |-> p]
              /\ payments'[p].status = "FAILED"
  BY <1>1, PayCases DEF Tables, Core, HistoryInv
<1>3. /\ ActionsIn(c)' = ActionsIn(c) /\ CarriedOut(c)' = CarriedOut(c)
      /\ Pending(c)' = Pending(c)
  BY <1>2 DEF ActionsIn, CarriedOut, Pending
<1>4. opened'[c] =
        CASE cases[c].payment = p -> [opened[c] EXCEPT !.disturbed = TRUE]
          [] cases[c].payment # p /\ cases'[c].payment = p ->
               [at |-> ContextOf(p)', first |-> \A d \in CaseId : cases[d].payment # p,
                disturbed |-> FALSE]
          [] OTHER -> opened[c]
  BY <1>1 DEF Disturb
<1>5. AbsentCase.payment = None /\ None # p
  BY WorkflowAssumption DEF AbsentCase
<1>6. CASE cases[c].payment = p
  <2>1. cases[c] # AbsentCase
    BY <1>5, <1>6
  <2>2. opened[c] \in Opening /\ RecordPart(c)
    BY <1>2, <2>1 DEF Tables, PipelineInv, CaseOf, HistoryOf
  <2>3. /\ opened'[c].at = opened[c].at /\ opened'[c].first = opened[c].first
        /\ opened'[c].disturbed
    BY <1>4, <1>6, <2>2 DEF Opening
  <2>4. cases'[c].payment = cases[c].payment
    BY <1>2, <1>6
  <2>5. RecordPart(c)'
    BY <1>2, <1>3, <2>1, <2>2, <2>3, <2>4, RecordKept DEF RecordPart
  <2> QED
    BY <2>3, <2>5 DEF HistoryOf, Disturbed
<1>7. CASE cases[c].payment # p /\ cases'[c].payment = p
  <2>1. /\ cases'[c] = [state |-> "DETECTED", payment |-> p]
        /\ payments'[p].status = "FAILED"
        /\ \E r \in Reasons, d \in CaseId : FailOpens(p, r, d)
    <3>1. cases' # cases
      BY <1>7
    <3> QED
      BY <1>1, <1>2, <1>7, <3>1 DEF Pay, CreatePayment, FailReuses, FailInterrupted,
        ReuseOpenCase
  <2>2. OpenCases(p) = {} /\ payments'[p].attempts \in Nat \ {0}
        /\ cases[c] = AbsentCase
    <3>1. PICK r \in Reasons, d \in CaseId : FailOpens(p, r, d)
      BY <2>1
    <3>2. payments[p].attempts \in Nat
      BY <1>2 DEF TypeOK, PaymentRow
    <3>3. OpenCases(p) = {} /\ cases[d] = AbsentCase
          /\ \A e \in CaseId : e # d => cases'[e] = cases[e]
      BY <1>2, <3>1 DEF FailOpens, OpenCase, TypeOK
    <3>4. payments'[p].attempts = payments[p].attempts + 1
      <4> DEFINE failed == [payments[p] EXCEPT !.status = "FAILED", !.reason = r,
                                               !.attempts = payments[p].attempts + 1]
      <4>1. failed.attempts = payments[p].attempts + 1
        BY <1>2 DEF TypeOK, PaymentRow
      <4>2. payments' = [payments EXCEPT ![p] = failed]
        BY <3>1 DEF FailOpens, RecordFailure
      <4> HIDE DEF failed
      <4> QED
        BY <1>2, <4>1, <4>2 DEF TypeOK
    <3> QED
      BY <1>7, <3>2, <3>3, <3>4
  <2>3. ActionsIn(c) = {} /\ CarriedOut(c) = {}
    BY <1>2, <2>2, ActionPayment, WorkflowAssumption
    DEF ActionsIn, CarriedOut, TypeOK, AbsentCase, AbsentAction
  <2> DEFINE first == \A d \in CaseId : cases[d].payment # p
  <2>4. /\ opened'[c].at = ContextOf(p)' /\ opened'[c].first = first
        /\ opened'[c].disturbed = FALSE
    <3>1. opened'[c] = [at |-> ContextOf(p)', first |-> first, disturbed |-> FALSE]
      BY <1>4, <1>7
    <3>2. first \in BOOLEAN
      OBVIOUS
    <3> HIDE DEF first
    <3> QED
      BY <3>1, <3>2
  <2>5. first => Unrecovered(p)' = {}
    <3>1. ASSUME first, NEW a \in ActionsOf(p) PROVE FALSE
      <4>1. a \in ActionId /\ actions[a].payment = p /\ actions[a] # AbsentAction
        BY <3>1, WorkflowAssumption DEF ActionsOf, AbsentAction
      <4> QED
        BY <1>2, <3>1, <4>1 DEF TypeOK
    <3> QED
      BY <1>2, <3>1 DEF Unrecovered, ActionsOf
  <2>6. /\ ContextOf(p)'.amount = payments'[p].amount
        /\ ContextOf(p)'.attempts = payments'[p].attempts
        /\ ContextOf(p)'.reason = Reason(p)'
        /\ ContextOf(p)'.who = ProfileOf[CustomerOf[p]]
        /\ Unrecovered(p)' = {} => ContextOf(p)'.failures = 0 /\ ContextOf(p)'.failed = {}
    BY FS_EmptySet DEF ContextOf, FailedTypes
  <2>7. cases'[c].payment = p /\ cases'[c].state = "DETECTED"
        /\ "DETECTED" \notin TerminalStates
    BY <2>1 DEF TerminalStates
  <2>8. RecordPart(c)'
    BY <1>3, <2>2, <2>3, <2>4, <2>5, <2>6, <2>7, FS_EmptySet DEF RecordPart, At, Owed
  <2>9. diagnosis'[c] = None
    BY <1>1, <2>2 DEF Tables, PipelineInv, CaseOf
  <2>10. \A d \in CaseId \ {c} : cases'[d].payment = p =>
           cases'[d].state \in TerminalStates /\ ~opened'[c].first
    <3>1. PICK r \in Reasons, e \in CaseId : FailOpens(p, r, e)
      BY <2>1
    <3>2. \A d \in CaseId \ {c} : cases'[d] = cases[d]
      BY <1>2, <1>7, <2>2, <3>1 DEF FailOpens, OpenCase, TypeOK
    <3> QED
      BY <2>2, <2>4, <3>2 DEF OpenCases
  <2>11. QuietPart(c)'
    <3>1. payments'[p].attempts = payments'[p].attempts + Cardinality({})
      BY <2>2, FS_EmptySet
    <3> QED
      BY <1>3, <2>1, <2>3, <2>4, <2>6, <2>7, <2>9, <2>10, <3>1 DEF QuietPart, At, Owed
  <2>12. \A a \in ActionId : ~FirstIn(c, a)'
    BY <1>3, <2>3 DEF FirstIn
  <2> QED
    BY <2>8, <2>11, <2>12 DEF HistoryOf
<1>8. CASE cases[c].payment # p /\ cases'[c].payment # p
  <2>1. cases'[c] = cases[c] /\ opened'[c] = opened[c]
    BY <1>2, <1>4, <1>8
  <2>2. ASSUME cases[c] # AbsentCase, ~Disturbed(c)
        PROVE  /\ payments'[Owed(c)] = payments[Owed(c)]
               /\ \A d \in CaseId \ {c} : cases'[d].payment = Owed(c) =>
                    cases'[d].state \in TerminalStates /\ ~opened[c].first
    <3>1. Owed(c) \in PaymentId /\ Owed(c) # p /\ QuietPart(c)
      BY <1>2, <1>8, <2>2 DEF TypeOK, Owed, HistoryOf
    <3>2. payments'[Owed(c)] = payments[Owed(c)]
      BY <1>1, <1>2, <3>1 DEF Pay, CreatePayment, FailReuses, FailInterrupted, FailOpens,
        RecordFailure, TypeOK
    <3> QED
      BY <1>2, <3>1, <3>2 DEF QuietPart
  <2> QED
    BY <1>1, <1>2, <1>3, <2>1, <2>2, HistoryKept
<1> QED
  BY <1>6, <1>7, <1>8

LEMMA OtherAfterRun ==
  ASSUME Tables, HistoryInv, [Next]_vars, NEW c \in CaseId, NEW a \in ActionId,
         NEW row \in ActionRow, NEW to, Moves(c, a, row, to),
         NEW d \in CaseId \ {c}, opened' = opened, seed' = seed,
         diagnosis'[d] = diagnosis[d]
  PROVE  HistoryOf(d)'
<1>1. TypeOK /\ HistoryOf(d)
  BY DEF Tables, Core, HistoryInv
<1>2. /\ \A e \in CaseId : e # c => cases'[e] = cases[e]
      /\ \A e \in CaseId : cases'[e].payment = cases[e].payment
      /\ \A b \in ActionId : b # a => actions'[b] = actions[b]
  BY <1>1, MovedTables
<1>3. /\ cases[c].state \in RunnableStates /\ Owed(c) \in PaymentId
      /\ ActionsIn(d)' = ActionsIn(d) /\ a \notin ActionsIn(d)
      /\ payments' = payments \/ Settles(Owed(c))
  BY <1>1, MovedHistory
<1>4. ASSUME cases[d] # AbsentCase, ~Disturbed(d)
      PROVE  /\ payments'[Owed(d)] = payments[Owed(d)]
             /\ \A e \in CaseId \ {d} : cases'[e].payment = Owed(d) =>
                  cases'[e].state \in TerminalStates /\ ~opened[d].first
  <2>1. QuietPart(d) /\ Owed(d) \in PaymentId
    BY <1>1, <1>4 DEF HistoryOf, TypeOK, Owed
  <2>2. \A e \in CaseId \ {d} : cases[e].payment = Owed(d) =>
          e # c /\ cases[e].state \in TerminalStates /\ ~opened[d].first
    BY <1>3, <2>1 DEF QuietPart, RunnableStates, TerminalStates
  <2>3. Owed(d) # Owed(c)
    BY <2>2 DEF Owed
  <2> QED
    BY <1>2, <1>3, <2>1, <2>2, <2>3 DEF Settles
<1>5. \A b \in ActionsIn(d) : actions'[b] = actions[b]
  BY <1>2, <1>3 DEF ActionsIn
<1> QED
  BY <1>1, <1>2, <1>3, <1>4, <1>5, HistoryKept

\* A run of a case adds to its history what it did to its payment.
LEMMA QuietAfterRun ==
  ASSUME Tables, HistoryInv, [Next]_vars, NEW c \in CaseId, NEW a \in ActionId,
         NEW row \in ActionRow, NEW to, Moves(c, a, row, to), NEW success \in BOOLEAN,
         row.executedAt = None \/ Answered(c, row, success), opened' = opened,
         \/ diagnosis'[c] = Reason(Owed(c))
         \/ diagnosis'[c] = diagnosis[c] /\ cases[c].state # "DETECTED"
  PROVE  RecordPart(c)' /\ (~Disturbed(c) => QuietPart(c)')
<1>1. TypeOK /\ HistoryOf(c)
  BY DEF Tables, Core, HistoryInv
<1>2. /\ \A e \in CaseId : e # c => cases'[e] = cases[e]
      /\ \A e \in CaseId : cases'[e].payment = cases[e].payment
      /\ cases'[c].state = to
  BY <1>1, MovedTables
<1>3. /\ cases[c].state \in RunnableStates /\ Owed(c) \in PaymentId
      /\ a \notin CarriedOut(c)
      /\ \/ /\ row.executedAt = None /\ payments' = payments
            /\ CarriedOut(c)' = CarriedOut(c)
            /\ to \in {"STOPPED", "ESCALATED", "SCHEDULED"}
         \/ /\ row.executedAt # None /\ Settles(Owed(c))
            /\ CarriedOut(c)' = CarriedOut(c) \cup {a}
            /\ to = IF row.outcome = "RECOVERED" THEN "RECOVERED" ELSE "FAILED"
  BY <1>1, MovedHistory
<1>4. cases[c] # AbsentCase /\ RecordPart(c)
  BY <1>1, <1>3, SelectedCase DEF HistoryOf
<1>5. IsFiniteSet(CarriedOut(c)) /\ Cardinality(CarriedOut(c)) \in Nat
      /\ IsFiniteSet(CarriedOut(c) \cup {a})
      /\ Cardinality(CarriedOut(c) \cup {a}) = Cardinality(CarriedOut(c)) + 1
  BY <1>3, <1>4, FS_AddElement, FS_CardinalityType DEF RecordPart
<1>6. RecordPart(c)'
  BY <1>1, <1>2, <1>3, <1>4, <1>5, RecordKept
<1>7. ASSUME ~Disturbed(c) PROVE QuietPart(c)'
  <2>1. QuietPart(c) /\ Reason(Owed(c)) = At(c).reason /\ payments[Owed(c)].status = "FAILED"
    BY <1>1, <1>3, <1>4, <1>7 DEF HistoryOf, QuietPart, RunnableStates, TerminalStates
  <2>2. Owed(c)' = Owed(c) /\ At(c)' = At(c) /\ At(c).attempts \in Nat
    BY <1>2, <1>4 DEF Owed, At, RecordPart
  <2>3. diagnosis'[c] = At(c).reason /\ to # "DETECTED"
    BY <1>3, <2>1 DEF QuietPart
  <2>4. \A d \in CaseId \ {c} : cases'[d].payment = Owed(c) =>
          cases'[d].state \in TerminalStates /\ ~opened'[c].first
    BY <1>2, <2>1 DEF QuietPart
  <2>5. payments'[Owed(c)].attempts = At(c).attempts + Cardinality(CarriedOut(c)')
    <3>1. payments[Owed(c)].attempts = At(c).attempts + Cardinality(CarriedOut(c))
      BY <2>1 DEF QuietPart
    <3> DEFINE before == Cardinality(CarriedOut(c))
               after == Cardinality(CarriedOut(c)')
    <3>2. \/ payments'[Owed(c)].attempts = payments[Owed(c)].attempts /\ after = before
          \/ payments'[Owed(c)].attempts = payments[Owed(c)].attempts + 1 /\ after = before + 1
      BY <1>3, <1>5 DEF Settles
    <3>3. before \in Nat /\ payments[Owed(c)].attempts = At(c).attempts + before
      BY <1>5, <3>1
    <3> HIDE DEF before, after
    <3>4. payments'[Owed(c)].attempts = At(c).attempts + after
      BY <2>2, <3>2, <3>3
    <3> QED
      BY <3>4 DEF after
  <2>6. ASSUME to \notin TerminalStates
        PROVE  Reason(Owed(c))' = At(c).reason /\ payments'[Owed(c)].status = "FAILED"
    <3>1. CASE payments' = payments
      BY <2>1, <2>2, <3>1 DEF Reason
    <3>2. CASE Settles(Owed(c)) /\ row.executedAt # None /\ row.outcome # "RECOVERED"
      <4>1. ~success /\ Answers(Owed(c), success)
        BY <2>1, <3>2 DEF Answered, Recovered, Successful
      <4>2. /\ payments'[Owed(c)].status = "FAILED"
            /\ payments'[Owed(c)].reason = At(c).reason
        BY <2>1, <4>1 DEF Answers
      <4>3. At(c).reason # None
        BY <1>1, <1>3, <2>1, ReasonTyped, WorkflowAssumption
      <4> QED
        BY <2>2, <4>2, <4>3 DEF Reason
    <3> QED
      BY <1>3, <2>6, <3>1, <3>2 DEF TerminalStates
  <2> QED
    BY <1>2, <2>2, <2>3, <2>4, <2>5, <2>6 DEF QuietPart
<1> QED
  BY <1>6, <1>7

\* A case that has carried nothing out finds its payment as it was at opening.
LEMMA UntouchedPayment ==
  ASSUME Tables, HistoryInv, NEW c \in CaseId, cases[c].state \in RunnableStates,
         ~Disturbed(c), CarriedOut(c) = {}
  PROVE  /\ Owed(c) \in PaymentId
         /\ payments[Owed(c)].status = "FAILED" /\ Reason(Owed(c)) = At(c).reason
         /\ payments[Owed(c)].attempts = At(c).attempts
         /\ payments[Owed(c)].amount = At(c).amount
<1>1. TypeOK /\ HistoryOf(c) /\ cases[c] # AbsentCase /\ Owed(c) \in PaymentId
  BY SelectedCase DEF Tables, Core, HistoryInv, Owed
<1>2. RecordPart(c) /\ QuietPart(c)
  BY <1>1 DEF HistoryOf
<1>3. At(c).attempts + Cardinality({}) = At(c).attempts
  BY <1>2, FS_EmptySet DEF RecordPart
<1> QED
  BY <1>1, <1>2, <1>3 DEF RecordPart, QuietPart, RunnableStates, TerminalStates

LEMMA CycleForetold ==
  ASSUME Tables, HistoryInv, NEW c \in CaseId, NEW a \in ActionId, NEW t \in ActionType,
         NEW success \in BOOLEAN, NEW row \in ActionRow, NEW to, Moves(c, a, row, to),
         Fresh(c, a), NextId(a), row.type = t,
         success = WouldSucceed(Reason(Owed(c)), t, Owed(c), payments[Owed(c)].attempts + 1),
         Verdict(c, t) = IF row.status \in {"BLOCKED", "ESCALATED"} THEN row.status
                                                                    ELSE "APPROVED",
         row.executedAt = None \/ Answered(c, row, success),
         opened' = opened, seed' = seed, ~Disturbed(c), opened[c].first,
         NEW b \in ActionId, FirstIn(c, b)'
  PROVE  ForetoldPart(c, b)'
<1>1. TypeOK /\ HistoryOf(c) /\ ScheduleConsistent
  BY DEF Tables, Core, HistoryInv
<1>2. /\ \A e \in ActionId : actions'[e] = IF e = a THEN row ELSE actions[e]
      /\ \A e \in CaseId : cases'[e].payment = cases[e].payment
  BY <1>1, MovedTables
<1>3. /\ cases[c].state \in RunnableStates /\ ActionsIn(c)' = ActionsIn(c) \cup {a}
      /\ cases[c] # AbsentCase
  BY <1>1, MovedHistory, SelectedCase
<1>4. \A e \in ActionsIn(c) : e \in ActionId /\ e < a
  <2>1. ASSUME NEW e \in ActionsIn(c) PROVE e \in ActionId /\ e < a
    <3>1. e \in ActionId /\ actions[e] # AbsentAction
      BY WorkflowAssumption DEF ActionsIn, AbsentAction
    <3>2. actions[a] = AbsentAction /\ ~(a < e)
      BY <3>1 DEF Fresh, Tables, PipelineInv, Numbered
    <3> QED
      BY <3>1, <3>2, CustomerAssumption
  <2> QED
    BY <2>1
<1>5. CASE b = a
  <2>1. ActionsIn(c) = {} /\ CarriedOut(c) = {}
    <3>1. \A e \in ActionsIn(c) : a <= e
      BY <1>3, <1>5 DEF FirstIn
    <3>2. ActionsIn(c) = {}
      BY <1>4, <3>1, CustomerAssumption
    <3> QED
      BY <3>2 DEF ActionsIn, CarriedOut
  <2>2. /\ Owed(c) \in PaymentId
        /\ payments[Owed(c)].status = "FAILED" /\ Reason(Owed(c)) = At(c).reason
        /\ payments[Owed(c)].attempts = At(c).attempts
        /\ payments[Owed(c)].amount = At(c).amount
    BY <1>3, <2>1, UntouchedPayment
  <2>3. Unrecovered(Owed(c)) = {}
    <3>1. ASSUME NEW e \in ActionsOf(Owed(c)) PROVE FALSE
      <4>1. e \in ActionId /\ actions[e].payment = Owed(c) /\ actions[e] # AbsentAction
        BY <2>2, <3>1, WorkflowAssumption DEF ActionsOf, AbsentAction
      <4>2. actions[e].case \in CaseId /\ cases[actions[e].case].payment = Owed(c)
        BY <1>1, <4>1 DEF TypeOK
      <4>3. actions[e].case # c
        BY <2>1, <4>1 DEF ActionsIn
      <4>4. QuietPart(c)
        BY <1>1, <1>3 DEF HistoryOf
      <4> QED
        BY <4>2, <4>3, <4>4 DEF QuietPart
    <3> QED
      BY <3>1 DEF Unrecovered
  <2>4. InputFor(c, t) = [action |-> t, status |-> "FAILED", reason |-> At(c).reason,
                          attempts |-> At(c).attempts, amount |-> At(c).amount,
                          failures |-> 0]
    BY <2>2, <2>3, FS_EmptySet DEF InputFor, Owed
  <2>5. VerdictThen(c, t) = Verdict(c, t)
    BY <2>4 DEF VerdictThen, Verdict
  <2>6. SuccessThen(c, t) = success
    BY <2>2 DEF SuccessThen
  <2>7. row.executedAt # None =>
          row.status \notin {"BLOCKED", "ESCALATED"} /\ (row.outcome = "RECOVERED") = success
    BY <2>2 DEF Answered, Recovered, Successful
  <2>8. VerdictThen(c, t)' = VerdictThen(c, t) /\ SuccessThen(c, t)' = SuccessThen(c, t)
    BY <1>2 DEF VerdictThen, SuccessThen, WouldSucceed, At, Owed
  <2>9. actions'[b] = row /\ ActionsIn(c)' = {b}
    BY <1>2, <1>3, <1>5, <2>1
  <2> QED
    BY <2>5, <2>6, <2>7, <2>8, <2>9 DEF ForetoldPart
<1>6. CASE b # a
  <2>1. b \in ActionsIn(c) /\ FirstIn(c, b) /\ actions'[b] = actions[b]
    BY <1>2, <1>3, <1>6 DEF FirstIn
  <2>2. ForetoldPart(c, b)
    BY <1>1, <1>3, <2>1 DEF HistoryOf
  <2>3. b \notin Pending(c)'
    BY <1>1, <2>1 DEF Fresh, ScheduleConsistent, Pending
  <2> QED
    BY <1>2, <2>1, <2>2, <2>3, ForetoldKept
<1> QED
  BY <1>5, <1>6

LEMMA ResumeForetold ==
  ASSUME Tables, HistoryInv, NEW c \in CaseId, NEW a \in Pending(c),
         cases[c].state = "SCHEDULED", NEW success \in BOOLEAN, NEW row \in ActionRow, NEW to,
         Moves(c, a, row, to), row.type = actions[a].type, Answered(c, row, success),
         success = WouldSucceed(Reason(Owed(c)), actions[a].type, Owed(c),
                                payments[Owed(c)].attempts + 1),
         opened' = opened, seed' = seed, ~Disturbed(c), opened[c].first,
         NEW b \in ActionId, FirstIn(c, b)'
  PROVE  ForetoldPart(c, b)'
<1>1. /\ TypeOK /\ HistoryOf(c) /\ ScheduleConsistent
      /\ a \in ActionId /\ a \in ActionsIn(c) /\ actions[a].executedAt = None
  BY DEF Tables, Core, HistoryInv, Pending, ActionsIn
<1>2. /\ \A e \in ActionId : actions'[e] = IF e = a THEN row ELSE actions[e]
      /\ \A e \in CaseId : cases'[e].payment = cases[e].payment
  BY <1>1, MovedTables
<1>3. /\ cases[c].state \in RunnableStates /\ ActionsIn(c)' = ActionsIn(c)
      /\ cases[c] # AbsentCase
  <2>1. cases[c].state \in RunnableStates /\ ActionsIn(c)' = ActionsIn(c) \cup {a}
    BY <1>1, MovedHistory
  <2>2. ActionsIn(c) \cup {a} = ActionsIn(c)
    BY <1>1
  <2>3. cases[c] # AbsentCase
    BY <1>1, <2>1, SelectedCase
  <2> QED
    BY <2>1, <2>2, <2>3
<1>4. FirstIn(c, b) /\ b \in ActionsIn(c) /\ ForetoldPart(c, b)
  BY <1>1, <1>3 DEF FirstIn, HistoryOf
<1>5. Pending(c) = {a} /\ actions[a].status = "SCHEDULED"
  BY <1>1 DEF ScheduleConsistent
<1>6. CASE b = a
  <2>1. ActionsIn(c) = {a} /\ VerdictThen(c, actions[a].type) = "APPROVED"
    BY <1>4, <1>5, <1>6 DEF ForetoldPart
  <2>2. CarriedOut(c) = {}
    BY <1>1, <2>1 DEF ActionsIn, CarriedOut
  <2>3. /\ payments[Owed(c)].status = "FAILED" /\ Reason(Owed(c)) = At(c).reason
        /\ payments[Owed(c)].attempts = At(c).attempts
    BY <1>3, <2>2, UntouchedPayment
  <2>4. SuccessThen(c, actions[a].type) = success
    BY <2>3 DEF SuccessThen
  <2>5. row.status \notin {"BLOCKED", "ESCALATED"} /\ (row.outcome = "RECOVERED") = success
    BY <2>3 DEF Answered, Recovered, Successful
  <2>6. \A t : VerdictThen(c, t)' = VerdictThen(c, t) /\ SuccessThen(c, t)' = SuccessThen(c, t)
    BY <1>2 DEF VerdictThen, SuccessThen, WouldSucceed, At, Owed
  <2>7. actions'[b] = row /\ ActionsIn(c)' = {b}
    BY <1>2, <1>3, <1>6, <2>1
  <2> QED
    BY <2>1, <2>4, <2>5, <2>6, <2>7 DEF ForetoldPart
<1>7. CASE b # a
  <2>1. actions'[b] = actions[b]
    BY <1>2, <1>7
  <2>2. b \notin Pending(c)'
    BY <1>5, <1>7, <2>1 DEF Pending
  <2> QED
    BY <1>2, <1>4, <2>1, <2>2, ForetoldKept
<1> QED
  BY <1>6, <1>7

LEMMA CycleKeepsHistory ==
  ASSUME Tables, HistoryInv, [Next]_vars, NEW c \in CaseId, NEW a \in ActionId,
         NEW found \in Diagnoses(ContextOf(cases[c].payment)), Cycle(c, a, found),
         NEW d \in CaseId
  PROVE  HistoryOf(d)'
<1>1. PICK t \in ActionType, success \in BOOLEAN :
        /\ \/ RunStops(c, a, t) \/ RunEscalates(c, a, t) \/ RunSchedules(c, a, t)
           \/ RunExecutes(c, a, t, success)
        /\ success = WouldSucceed(Reason(cases[c].payment), t, cases[c].payment,
                                  payments[cases[c].payment].attempts + 1)
        /\ NextId(a)
        /\ diagnosis' = [diagnosis EXCEPT ![c] = Reason(cases[c].payment)]
        /\ UNCHANGED <<opened, seed>>
  BY CycleDecides DEF Tables, Core
<1>2. TypeOK /\ Fresh(c, a)
  BY <1>1, DecidedMoves DEF Tables, Core
<1>3. PICK row \in ActionRow, to \in CaseState :
        /\ Moves(c, a, row, to) /\ row.type = t
        /\ Verdict(c, t) = IF row.status \in {"BLOCKED", "ESCALATED"} THEN row.status
                                                                     ELSE "APPROVED"
        /\ row.executedAt = None \/ Answered(c, row, success)
  BY <1>1, <1>2, CycleRow
<1>4. /\ diagnosis'[c] = Reason(Owed(c))
      /\ \A e \in CaseId \ {c} : diagnosis'[e] = diagnosis[e]
  BY <1>1 DEF Tables, PipelineInv, Owed
<1>5. CASE d # c
  BY <1>1, <1>3, <1>4, <1>5, OtherAfterRun
<1>6. CASE d = c
  <2>1. RecordPart(c)' /\ (~Disturbed(c) => QuietPart(c)')
    BY <1>1, <1>3, <1>4, QuietAfterRun
  <2>2. ASSUME ~Disturbed(c), opened[c].first, NEW b \in ActionId, FirstIn(c, b)'
        PROVE  ForetoldPart(c, b)'
    BY <1>1, <1>2, <1>3, <2>2, CycleForetold DEF Owed
  <2> QED
    BY <1>1, <1>6, <2>1, <2>2 DEF HistoryOf, Disturbed
<1> QED
  BY <1>5, <1>6

LEMMA ResumeKeepsHistory ==
  ASSUME Tables, HistoryInv, [Next]_vars, NEW c \in CaseId, NEW a \in ActionId,
         ResumeCase(c, a), NEW d \in CaseId
  PROVE  HistoryOf(d)'
<1> DEFINE success == WouldSucceed(Reason(Owed(c)), actions[a].type, Owed(c),
                                   payments[Owed(c)].attempts + 1)
<1>1. Resume(c, a, success) /\ UNCHANGED <<diagnosis, opened, seed>>
  BY DEF ResumeCase, Owed
<1>2. success \in BOOLEAN
  BY WouldSucceedTyped
<1>3. success = WouldSucceed(Reason(Owed(c)), actions[a].type, Owed(c),
                             payments[Owed(c)].attempts + 1)
  OBVIOUS
<1> HIDE DEF success
<1>4. /\ TypeOK /\ cases[c].state = "SCHEDULED" /\ a \in Pending(c)
      /\ Executed(c, a, actions[a], success)
  BY <1>1, <1>2, ResumeMoves DEF Tables, Core
<1>5. actions[a].payment = Owed(c)
  BY <1>4, PendingRow DEF Owed
<1>6. PICK row \in ActionRow, to \in CaseState :
        /\ Moves(c, a, row, to) /\ row.type = actions[a].type
        /\ Answered(c, row, success)
  BY <1>4, <1>5, ExecutedRow
<1>7. CASE d # c
  BY <1>1, <1>6, <1>7, OtherAfterRun
<1>8. CASE d = c
  <2>1. RecordPart(c)' /\ (~Disturbed(c) => QuietPart(c)')
    BY <1>1, <1>2, <1>4, <1>6, QuietAfterRun
  <2>2. ASSUME ~Disturbed(c), opened[c].first, NEW b \in ActionId, FirstIn(c, b)'
        PROVE  ForetoldPart(c, b)'
    BY <1>1, <1>2, <1>3, <1>4, <1>6, <2>2, ResumeForetold
  <2> QED
    BY <1>1, <1>8, <2>1, <2>2 DEF HistoryOf, Disturbed
<1> QED
  BY <1>7, <1>8

LEMMA HistoryStep ==
  Tables /\ HistoryInv /\ [PipelineNext]_pipeline => HistoryInv'
<1> SUFFICES ASSUME Tables, HistoryInv, [PipelineNext]_pipeline, NEW d \in CaseId
             PROVE  HistoryOf(d)'
  BY DEF HistoryInv
<1>1. TypeOK /\ [Next]_vars
  BY PipelineStep DEF Tables, Core
<1>2. ASSUME NEW c \in CaseId, DecidedRun(c) PROVE HistoryOf(d)'
  BY <1>1, <1>2, CycleKeepsHistory, ResumeKeepsHistory DEF DecidedRun
<1>3. ASSUME UNCHANGED <<payments, cases, actions, diagnosis, opened, seed>>
      PROVE  HistoryOf(d)'
  <2>1. HistoryOf(d) /\ ActionsIn(d)' = ActionsIn(d)
    BY <1>3 DEF HistoryInv, ActionsIn
  <2>2. cases[d] # AbsentCase /\ ~Disturbed(d) =>
          \A e \in CaseId \ {d} : cases[e].payment = Owed(d) =>
            cases[e].state \in TerminalStates /\ ~opened[d].first
    BY <2>1 DEF HistoryOf, QuietPart
  <2> QED
    BY <1>1, <1>3, <2>1, <2>2, HistoryKept
<1> QED
  BY <1>1, <1>2, <1>3, PaymentKeepsHistory
  DEF PipelineNext, PipelineTick, Tick, AdvanceClock, pipeline, vars

\* A case's rows tell how it stood when it was opened, as long as its payment has
\* not failed again from outside.
THEOREM HistoryHolds == PipelineSpec => [](Tables /\ HistoryInv)
<1>1. PipelineInit => HistoryInv
  BY DEF PipelineInit, Init, HistoryInv, HistoryOf
<1> QED
  BY <1>1, HistoryStep, TablesHold, PTL DEF PipelineSpec

-----------------------------------------------------------------------------
(* What the views rebuild is what the case was opened with.                *)

\* The context at opening as the views see it: a failed payment without history.
Then(c) == [At(c) EXCEPT !.succeeded = {}, !.status = "FAILED"]

\* Two contexts that agree on every field are the same context.
LEMMA SameContext ==
  ASSUME NEW x \in Context, NEW y \in Context,
         x.amount = y.amount, x.reason = y.reason, x.status = y.status,
         x.attempts = y.attempts, x.failures = y.failures, x.failed = y.failed,
         x.succeeded = y.succeeded, x.who = y.who
  PROVE  x = y
  BY DEF Context

LEMMA ThenFields ==
  ASSUME NEW c, At(c) \in Context
  PROVE  /\ Then(c) \in Context
         /\ Then(c).amount = At(c).amount /\ Then(c).reason = At(c).reason
         /\ Then(c).attempts = At(c).attempts /\ Then(c).failures = At(c).failures
         /\ Then(c).failed = At(c).failed /\ Then(c).who = At(c).who
         /\ Then(c).status = "FAILED" /\ Then(c).succeeded = {}
  BY DEF Then, Context, PaymentStatus

\* What the views rebuild it from.
LEMMA DetectedFields ==
  ASSUME NEW c
  PROVE  /\ AsDetected(c).amount = AtRisk(c) /\ AsDetected(c).reason = ResolvedReason(c)
         /\ AsDetected(c).attempts = AttemptsAtDetection(c)
         /\ AsDetected(c).failures = 0 /\ AsDetected(c).failed = {}
         /\ AsDetected(c).status = "FAILED" /\ AsDetected(c).succeeded = {}
         /\ AsDetected(c).who = ProfileOf[CustomerOf[Owed(c)]]
         /\ DOMAIN AsDetected(c) = {"amount", "reason", "status", "attempts", "failures",
                                    "failed", "succeeded", "who"}
  BY DEF AsDetected, ContextOf, Owed

\* The facts at opening, recovered from what is persisted.
LEMMA OpeningRecovered ==
  ASSUME Tables, HistoryInv, NEW c \in Opened, ~Disturbed(c)
  PROVE  /\ At(c) \in Context
         /\ AtRisk(c) = At(c).amount /\ ResolvedReason(c) = At(c).reason
         /\ AttemptsAtDetection(c) = At(c).attempts
         /\ At(c).who = ProfileOf[CustomerOf[Owed(c)]]
         /\ opened[c].first => At(c).failures = 0 /\ At(c).failed = {}
<1>1. c \in CaseId /\ cases[c] # AbsentCase
  BY DEF Opened
<1>2. RecordPart(c) /\ QuietPart(c)
  BY <1>1 DEF HistoryInv, HistoryOf
<1>3. At(c) \in Context
  BY <1>1 DEF Tables, PipelineInv, CaseOf, Opening, At
<1>4. AtRisk(c) = At(c).amount
  BY DEF AtRisk, At
<1>5. ResolvedReason(c) = At(c).reason
  <2>1. At(c).reason # None
    BY <1>3, WorkflowAssumption DEF Context
  <2>2. CASE cases[c].state = "DETECTED"
    BY <1>2, <2>2 DEF QuietPart, ResolvedReason, TerminalStates, Owed
  <2>3. CASE cases[c].state # "DETECTED"
    BY <1>2, <2>1, <2>3 DEF QuietPart, ResolvedReason
  <2> QED
    BY <2>2, <2>3
<1>6. AttemptsAtDetection(c) = At(c).attempts
  <2> DEFINE made == Cardinality(CarriedOut(c))
             now  == payments[Owed(c)].attempts
             then == At(c).attempts
  <2>1. now = then + made /\ then \in Nat \ {0} /\ made \in Nat
    BY <1>2, FS_CardinalityType DEF QuietPart, RecordPart
  <2>2. AttemptsAtDetection(c) = IF now - made > 1 THEN now - made ELSE 1
    BY DEF AttemptsAtDetection, CarriedOut, Owed
  <2> HIDE DEF made, now, then
  <2>3. AttemptsAtDetection(c) = then
    BY <2>1, <2>2
  <2> QED
    BY <2>3 DEF then
<1>7. /\ At(c).who = ProfileOf[CustomerOf[Owed(c)]]
      /\ opened[c].first => At(c).failures = 0 /\ At(c).failed = {}
  BY <1>2 DEF RecordPart
<1> QED
  BY <1>3, <1>4, <1>5, <1>6, <1>7

LEMMA DetectedIsThen ==
  ASSUME Tables, HistoryInv, NEW c \in Opened, ~Disturbed(c), opened[c].first
  PROVE  AsDetected(c) = Then(c)
<1>1. /\ At(c) \in Context /\ Then(c) \in Context
      /\ AtRisk(c) = At(c).amount /\ ResolvedReason(c) = At(c).reason
      /\ AttemptsAtDetection(c) = At(c).attempts
      /\ At(c).who = ProfileOf[CustomerOf[Owed(c)]]
      /\ At(c).failures = 0 /\ At(c).failed = {}
  BY OpeningRecovered, ThenFields
<1>2. AsDetected(c) \in Context
  <2>1. ContextOf(Owed(c)) \in Context
    <3>1. /\ TypeOK /\ FailuresInv /\ c \in CaseId /\ cases[c] # AbsentCase
      BY DEF Tables, Core, Opened
    <3>2. Owed(c) \in PaymentId /\ payments[Owed(c)] # AbsentPayment
      BY <3>1 DEF TypeOK, Owed
    <3>3. payments[Owed(c)].status # None
      BY <3>2 DEF Tables, PipelineInv
    <3> QED
      BY <3>1, <3>2, <3>3, ContextTyped DEF ContextsTyped
  <2>2. ASSUME NEW x \in Context, NEW amount \in Nat, NEW r \in FailureReason, NEW n \in Nat
        PROVE  [x EXCEPT !.amount = amount, !.status = "FAILED", !.reason = r, !.attempts = n,
                         !.failures = 0, !.failed = {}, !.succeeded = {}] \in Context
    BY DEF Context, PaymentStatus
  <2>3. AtRisk(c) \in Nat /\ ResolvedReason(c) \in FailureReason /\ AttemptsAtDetection(c) \in Nat
    BY <1>1 DEF Context
  <2> QED
    BY <2>1, <2>2, <2>3 DEF AsDetected, Owed
<1>3. /\ AsDetected(c).amount = Then(c).amount /\ AsDetected(c).reason = Then(c).reason
      /\ AsDetected(c).status = Then(c).status
      /\ AsDetected(c).attempts = Then(c).attempts
      /\ AsDetected(c).failures = Then(c).failures
      /\ AsDetected(c).failed = Then(c).failed
      /\ AsDetected(c).succeeded = Then(c).succeeded /\ AsDetected(c).who = Then(c).who
  BY <1>1, ThenFields, DetectedFields
<1> QED
  BY <1>1, <1>2, <1>3, SameContext

\* As long as a case's payment does not fail again from outside, the benchmark sees
\* the case as it stood when it was opened (strategy_lab.py rebuilds it from the
\* case, the payment and the executed actions), and projects for the first case of
\* a payment what it would have projected then.
THEOREM BenchmarkStableHolds == PipelineSpec => []BenchmarkStable
<1>1. Tables /\ HistoryInv => BenchmarkStable
  <2> SUFFICES ASSUME Tables, HistoryInv, NEW c \in Opened, ~Disturbed(c)
               PROVE  /\ <<AsDetected(c).amount, AsDetected(c).reason, AsDetected(c).attempts>>
                           = <<Then(c).amount, Then(c).reason, Then(c).attempts>>
                      /\ opened[c].first =>
                           /\ Projection(ByValue(AsDetected(c)), c, AsDetected(c))
                                = Projection(ByValue(Then(c)), c, Then(c))
                           /\ Projection(RetryAlways, c, AsDetected(c))
                                = Projection(RetryAlways, c, Then(c))
    BY DEF BenchmarkStable, Disturbed, Then, At
  <2>1. /\ AsDetected(c).amount = Then(c).amount /\ AsDetected(c).reason = Then(c).reason
        /\ AsDetected(c).attempts = Then(c).attempts
    BY OpeningRecovered, ThenFields, DetectedFields
  <2>2. opened[c].first => AsDetected(c) = Then(c)
    BY DetectedIsThen
  <2> QED
    BY <2>1, <2>2
<1> QED
  BY <1>1, HistoryHolds, PTL

\* What a view projects for an action is what the gate and the simulator say of it
\* in the context at opening.
LEMMA ProjectedThen ==
  ASSUME Tables, HistoryInv, NEW c \in Opened, ~Disturbed(c), opened[c].first,
         NEW t \in ActionType
  PROVE  /\ Projection(t, c, AsDetected(c)).verdict = VerdictThen(c, t)
         /\ Projection(t, c, AsDetected(c)).recovers
              <=> VerdictThen(c, t) = "APPROVED" /\ SuccessThen(c, t)
<1> DEFINE x == AsDetected(c)
<1>1. /\ x.amount = At(c).amount /\ x.reason = At(c).reason /\ x.status = "FAILED"
      /\ x.attempts = At(c).attempts /\ x.failures = 0
  BY OpeningRecovered, DetectedFields
<1> HIDE DEF x
<1>2. Evaluate(Proposed(x, t)).outcome = VerdictThen(c, t)
  <2>1. Proposed(x, t) = [action |-> t, status |-> "FAILED", reason |-> At(c).reason,
                          attempts |-> At(c).attempts, amount |-> At(c).amount,
                          failures |-> 0]
    BY <1>1 DEF Proposed
  <2> QED
    BY <2>1 DEF VerdictThen
<1>3. WouldSucceed(x.reason, t, cases[c].payment, x.attempts + 1) = SuccessThen(c, t)
  BY <1>1 DEF SuccessThen, Owed
<1>4. /\ Projection(t, c, x).verdict = Evaluate(Proposed(x, t)).outcome
      /\ Projection(t, c, x).recovers
           <=> /\ Evaluate(Proposed(x, t)).outcome = "APPROVED"
               /\ WouldSucceed(x.reason, t, cases[c].payment, x.attempts + 1)
  BY DEF Projection
<1> QED
  BY <1>2, <1>3, <1>4 DEF x

\* What is projected for the action that the workflow chose first came true:
\* policy said of it what the projection says, and once it was carried out it
\* recovered the payment exactly if the projection says so.
THEOREM ProjectionHolds == PipelineSpec => []ProjectionComesTrue
<1>1. Tables /\ HistoryInv => ProjectionComesTrue
  <2> SUFFICES ASSUME Tables, HistoryInv, NEW c \in Opened, NEW a \in Selected,
                      actions[a].case = c,
                      \A b \in Selected : actions[b].case = c => a <= b,
                      opened[c].first, ~Disturbed(c)
               PROVE  LET told == Projection(actions[a].type, c, AsDetected(c))
                      IN  /\ actions[a].status \in {"BLOCKED", "ESCALATED"}
                               => told.verdict = actions[a].status
                          /\ actions[a].executedAt # None
                               => told.recovers = (actions[a].outcome = "RECOVERED")
    BY DEF ProjectionComesTrue, Disturbed
  <2> DEFINE t == actions[a].type
             told == Projection(t, c, AsDetected(c))
  <2>1. /\ TypeOK /\ a \in ActionId /\ c \in CaseId /\ cases[c] # AbsentCase
        /\ t \in ActionType
    BY ActionPayment DEF Tables, Core, Selected, Opened
  <2>2. FirstIn(c, a)
    <3>1. \A b \in ActionsIn(c) : b \in Selected
      BY <2>1, WorkflowAssumption DEF ActionsIn, Selected, AbsentAction
    <3> QED
      BY <2>1, <3>1 DEF FirstIn, ActionsIn
  <2>3. ForetoldPart(c, a)
    BY <2>1, <2>2 DEF HistoryInv, HistoryOf
  <2>4. /\ told.verdict = VerdictThen(c, t)
        /\ told.recovers <=> VerdictThen(c, t) = "APPROVED" /\ SuccessThen(c, t)
    BY <2>1, ProjectedThen
  <2> HIDE DEF told
  <2>5. actions[a].status \in {"BLOCKED", "ESCALATED"} => told.verdict = actions[a].status
    BY <2>3, <2>4 DEF ForetoldPart
  <2>6. actions[a].executedAt # None => told.recovers = (actions[a].outcome = "RECOVERED")
    <3> SUFFICES ASSUME actions[a].executedAt # None
                 PROVE  told.recovers = (actions[a].outcome = "RECOVERED")
      OBVIOUS
    <3>1. VerdictThen(c, t) = "APPROVED" /\ SuccessThen(c, t) = (actions[a].outcome = "RECOVERED")
      BY <2>3 DEF ForetoldPart
    <3>2. told.recovers <=> actions[a].outcome = "RECOVERED"
      BY <2>4, <3>1
    <3>3. told.recovers \in BOOLEAN
      BY DEF told, Projection
    <3> QED
      BY <3>2, <3>3, Zenon
  <2> QED
    BY <2>5, <2>6 DEF told
<1> QED
  BY <1>1, HistoryHolds, PTL

-----------------------------------------------------------------------------
(* What-if questions.                                                      *)

\* The limits of w are nowhere tighter than those of o.
Looser(o, w) == /\ o.retries <= w.retries /\ o.failures <= w.failures
                /\ o.threshold <= w.threshold

LEMMA LooserGate ==
  ASSUME NEW o \in Overrides, NEW w \in Overrides, Looser(o, w),
         NEW d, d.attempts \in Nat, d.failures \in Nat, d.amount \in Nat,
         With(o)!Evaluate(d).outcome = "APPROVED"
  PROVE  With(w)!Evaluate(d).outcome = "APPROVED"
<1>1. \A i \in 1..7 : ~With(o)!Objections(d)[i]
  BY DEF With!Evaluate, With!Objecting
<1> DEFINE before == With(o)!Objections(d)
           after  == With(w)!Objections(d)
<1>2. ~before[1] /\ ~before[2] /\ ~before[3] /\ ~before[4] /\ ~before[5] /\ ~before[6]
      /\ ~before[7]
  BY <1>1
<1>3. /\ ~With(o)!InvalidPaymentState(d) /\ ~With(o)!UnsupportedAction(d)
      /\ ~With(o)!RetryLimitReached(d) /\ ~With(o)!RecoveryBudgetExhausted(d)
      /\ ~With(o)!RepeatedFailure(d) /\ ~With(o)!UnknownFailure(d)
      /\ ~With(o)!HighValueTransaction(d)
  BY <1>2 DEF With!Objections
<1>4. /\ ~With(w)!InvalidPaymentState(d) /\ ~With(w)!UnsupportedAction(d)
      /\ ~With(w)!RetryLimitReached(d) /\ ~With(w)!RecoveryBudgetExhausted(d)
      /\ ~With(w)!RepeatedFailure(d) /\ ~With(w)!UnknownFailure(d)
      /\ ~With(w)!HighValueTransaction(d)
  <2>1. /\ o.retries \in Nat /\ w.retries \in Nat /\ o.failures \in Nat /\ w.failures \in Nat
        /\ o.threshold \in Nat /\ w.threshold \in Nat
    BY InsightsAssumption
  <2> QED
    BY <1>3, <2>1 DEF Looser, With!InvalidPaymentState, With!UnsupportedAction,
      With!RetryLimitReached, With!RecoveryBudgetExhausted, With!RepeatedFailure,
      With!UnknownFailure, With!HighValueTransaction, With!Automatic,
      With!TerminalActions, With!Unsuccessful, With!RetryActions
<1>5. ~after[1] /\ ~after[2] /\ ~after[3] /\ ~after[4] /\ ~after[5] /\ ~after[6] /\ ~after[7]
  BY <1>4 DEF With!Objections
<1>6. With(w)!Objecting(d) = {}
  <2> HIDE DEF after
  <2>1. \A i \in 1..7 : i \in {1, 2, 3, 4, 5, 6, 7}
    OBVIOUS
  <2>2. \A i \in 1..7 : ~after[i]
    BY <1>5, <2>1
  <2> QED
    BY <2>2 DEF With!Objecting, after
<1> QED
  BY <1>6 DEF With!Evaluate

\* A bounded set of integers has a greatest member.
LEMMA GreatestMember ==
  ASSUME NEW S \in SUBSET Int, S # {}, NEW b \in Int, \A n \in S : n <= b
  PROVE  Max(S) \in S /\ \A n \in S : n <= Max(S)
<1> DEFINE below == {b - n : n \in S}
<1>1. below \in SUBSET Nat /\ below # {}
  <2>1. \A n \in S : b - n \in Nat
    OBVIOUS
  <2> QED
    BY <2>1
<1>2. PICK least \in below : \A m \in below : least <= m
  BY <1>1, LeastNatural
<1>3. PICK n \in S : least = b - n
  BY <1>2
<1>4. \A m \in S : n >= m
  BY <1>2, <1>3
<1> QED
  BY <1>4 DEF Max

\* Settings asked for change neither the scorer nor the shares of an amount.
LEMMA SameScorer ==
  ASSUME NEW o
  PROVE  /\ \A x, t : With(o)!Probability(x, t) = Probability(x, t)
         /\ \A n, p, scale : With(o)!Share(n, p, scale) = Share(n, p, scale)
         /\ \A k, l : With(o)!Precedes(k, l) = Precedes(k, l)
         /\ \A x, t : With(o)!Proposed(x, t) = Proposed(x, t)
<1>1. With(o)!AttemptDecay = AttemptDecay
  BY Zenon DEF With!AttemptDecay, AttemptDecay
<1>2. \A n, d : With(o)!Nearest(n, d) = Nearest(n, d)
  BY DEF With!Nearest, Nearest
<1>3. \A n, low, high : With(o)!Clamp(n, low, high) = Clamp(n, low, high)
  BY DEF With!Clamp, Clamp
<1>4. \A x, t : With(o)!HistoryFactor(x, t) = HistoryFactor(x, t)
  BY DEF With!HistoryFactor, HistoryFactor
<1>5. \A r, t : With(o)!BaseRate(r, t) = BaseRate(r, t)
  <2>1. With(o)!BaseRates = BaseRates
    BY DEF With!BaseRates, BaseRates
  <2> QED
    BY <2>1 DEF With!BaseRate, BaseRate, With!FallbackBaseRate, FallbackBaseRate
<1>6. \A who : With(o)!Subscriber(who) = Subscriber(who)
  BY DEF With!Subscriber, Subscriber
<1>7. \A x, t : With(o)!Probability(x, t) = Probability(x, t)
  <2> SUFFICES ASSUME NEW x, NEW t PROVE With(o)!Probability(x, t) = Probability(x, t)
    OBVIOUS
  <2> DEFINE base == BaseRate(x.reason, t)
             rate == 35 + 3 * x.who.rate
             subscribes == IF Subscriber(x.who) THEN 21 ELSE 20
             history == HistoryFactor(x, t)
             decay == AttemptDecay[x.attempts]
             baseW == With(o)!BaseRate(x.reason, t)
             subscribesW == IF With(o)!Subscriber(x.who) THEN 21 ELSE 20
             historyW == With(o)!HistoryFactor(x, t)
             decayW == With(o)!AttemptDecay[x.attempts]
  <2>1. baseW = base /\ subscribesW = subscribes /\ historyW = history /\ decayW = decay
    BY <1>1, <1>4, <1>5, <1>6
  <2>2. Probability(x, t) =
          Clamp(Nearest(decay.num * (base * rate * subscribes * history),
                        2000 * decay.den), 20, 970)
    BY Zenon DEF Probability
  <2>3. With(o)!Probability(x, t) =
          With(o)!Clamp(With(o)!Nearest(decayW.num * (baseW * rate * subscribesW * historyW),
                                        2000 * decayW.den), 20, 970)
    BY Zenon DEF With!Probability
  <2> HIDE DEF base, rate, subscribes, history, decay, baseW, subscribesW, historyW, decayW
  <2>4. With(o)!Probability(x, t) =
          With(o)!Clamp(With(o)!Nearest(decay.num * (base * rate * subscribes * history),
                                        2000 * decay.den), 20, 970)
    BY <2>1, <2>3
  <2>5. \A n, d : With(o)!Clamp(With(o)!Nearest(n, d), 20, 970) = Clamp(Nearest(n, d), 20, 970)
    BY <1>2, <1>3
  <2> DEFINE num == decay.num * (base * rate * subscribes * history)
             den == 2000 * decay.den
  <2> HIDE DEF num, den
  <2>6. With(o)!Clamp(With(o)!Nearest(num, den), 20, 970) = Clamp(Nearest(num, den), 20, 970)
    BY <2>5
  <2> QED
    BY <2>2, <2>4, <2>6 DEF num, den
<1>8. \A n, p, scale : With(o)!Share(n, p, scale) = Share(n, p, scale)
  BY <1>2 DEF With!Share, Share
<1>9. \A k, l : With(o)!Precedes(k, l) = Precedes(k, l)
  BY Zenon DEF With!Precedes, Precedes
<1>10. \A x, t : With(o)!Proposed(x, t) = Proposed(x, t)
  BY Zenon DEF With!Proposed, Proposed
<1> QED
  BY <1>7, <1>8, <1>9, <1>10

LEMMA AskedPrices ==
  ASSUME NEW o \in Overrides, NEW t \in ActionType
  PROVE  With(o)!InterventionCost(t) \in Nat /\ With(o)!FrictionPenalty(t) \in Nat
<1>1. /\ With(o)!DefaultCost[t] \in Nat /\ With(o)!DefaultFriction[t] \in Nat
      /\ t \in DOMAIN With(o)!DefaultCost /\ t \in DOMAIN With(o)!DefaultFriction
  BY DEF With!DefaultCost, With!DefaultFriction, ActionType
<1>2. /\ t \in DOMAIN CostOverrides => CostOverrides[t] \in Nat
      /\ t \in DOMAIN FrictionOverrides => FrictionOverrides[t] \in Nat
  BY EconomicsAssumption
<1>3. /\ t \in DOMAIN o.costs => o.costs[t] \in Nat
      /\ t \in DOMAIN o.frictions => o.frictions[t] \in Nat
  BY InsightsAssumption
<1> DEFINE costs == Overriding(o.costs, CostOverrides)
           frictions == Overriding(o.frictions, FrictionOverrides)
<1>4. t \in DOMAIN costs => costs[t] \in Nat
  BY <1>2, <1>3 DEF Overriding
<1>5. t \in DOMAIN frictions => frictions[t] \in Nat
  BY <1>2, <1>3 DEF Overriding
<1>6. /\ With(o)!InterventionCost(t) = With(o)!Overriding(costs, With(o)!DefaultCost)[t]
      /\ With(o)!FrictionPenalty(t) = With(o)!Overriding(frictions, With(o)!DefaultFriction)[t]
  BY DEF With!InterventionCost, With!FrictionPenalty
<1> HIDE DEF costs, frictions
<1> QED
  BY <1>1, <1>4, <1>5, <1>6 DEF With!Overriding

\* Cheaper or the same: what an action is worth is not lowered.
LEMMA WorthAsked ==
  ASSUME NEW o \in Overrides, NEW t \in ActionType, NEW amount, NEW p, NEW scale,
         Share(amount, p, scale) \in Int
  PROVE  /\ With(o)!Value(amount, p, scale, t) \in Int
         /\ With(o)!Value(amount, p, scale, t) <= Share(amount, p, scale)
         /\ \A w \in Overrides :
              /\ With(w)!InterventionCost(t) <= With(o)!InterventionCost(t)
              /\ o.frictions = w.frictions
              => With(o)!Value(amount, p, scale, t) <= With(w)!Value(amount, p, scale, t)
<1>1. ASSUME NEW w \in Overrides
      PROVE  /\ With(w)!InterventionCost(t) \in Nat /\ With(w)!FrictionPenalty(t) \in Nat
             /\ With(w)!Value(amount, p, scale, t)
                  = Share(amount, p, scale) - With(w)!InterventionCost(t)
                      - With(w)!FrictionPenalty(t)
  BY AskedPrices, SameScorer DEF With!Value
<1>2. \A w \in Overrides : o.frictions = w.frictions
                             => With(w)!FrictionPenalty(t) = With(o)!FrictionPenalty(t)
  BY DEF With!FrictionPenalty, With!Overriding, With!DefaultFriction
<1> QED
  BY <1>1, <1>2

LEMMA LooserEligible ==
  ASSUME NEW o \in Overrides, NEW w \in Overrides, Looser(o, w), NEW x \in Context
  PROVE  Eligible(o, x) \subseteq Eligible(w, x)
<1> SUFFICES ASSUME NEW t, With(o)!Evaluate(Proposed(x, t)).outcome = "APPROVED"
             PROVE  With(w)!Evaluate(Proposed(x, t)).outcome = "APPROVED"
  BY DEF Eligible
<1>1. /\ Proposed(x, t).attempts \in Nat /\ Proposed(x, t).failures \in Nat
      /\ Proposed(x, t).amount \in Nat
  BY DEF Proposed, Context
<1> QED
  BY <1>1, LooserGate

\* What the best eligible action is worth is at least what any is worth.
LEMMA BestValueIsBest ==
  ASSUME NEW o \in Overrides, NEW x \in Context, Eligible(o, x) # {}
  PROVE  /\ \E t \in Eligible(o, x) : BestValue(o, x) = With(o)!Erv(x, t)
         /\ \A t \in Eligible(o, x) : With(o)!Erv(x, t) \in Int
                                      /\ With(o)!Erv(x, t) <= BestValue(o, x)
<1> DEFINE worths == {With(o)!Erv(x, t) : t \in Eligible(o, x)}
<1>1. ASSUME NEW t \in Eligible(o, x)
      PROVE  With(o)!Erv(x, t) \in Int /\ With(o)!Erv(x, t) <= x.amount
  <2>1. t \in ActionType
    BY DEF Eligible, ComparableActions, ActionType
  <2>2. x.amount \in Nat /\ Probability(x, t) \in Nat /\ Probability(x, t) <= 1000
    BY <2>1, ProbabilityTyped DEF Context
  <2>3. /\ Share(x.amount, Probability(x, t), 1000) \in Int
        /\ Share(x.amount, Probability(x, t), 1000) <= x.amount
    BY <2>2, ShareBound
  <2>4. With(o)!Erv(x, t) = With(o)!Value(x.amount, Probability(x, t), 1000, t)
    BY SameScorer DEF With!Erv
  <2>5. /\ With(o)!Value(x.amount, Probability(x, t), 1000, t) \in Int
        /\ With(o)!Value(x.amount, Probability(x, t), 1000, t)
             <= Share(x.amount, Probability(x, t), 1000)
    BY <2>1, <2>3, WorthAsked
  <2> QED
    BY <2>2, <2>3, <2>4, <2>5
<1>2. worths \in SUBSET Int /\ worths # {} /\ \A n \in worths : n <= x.amount
  BY <1>1
<1>3. x.amount \in Int
  BY DEF Context
<1>4. Max(worths) \in worths /\ \A n \in worths : n <= Max(worths)
  <2> HIDE DEF worths
  <2> QED
    BY <1>2, <1>3, GreatestMember
<1>5. BestValue(o, x) = Max(worths)
  BY DEF BestValue
<1> QED
  BY <1>1, <1>4, <1>5

\* Looser limits or cheaper actions never lower what the lab recommends.
LEMMA LooserBest ==
  ASSUME NEW o \in Overrides, NEW w \in Overrides, Looser(o, w), o.frictions = w.frictions,
         \A t \in ActionType : With(w)!InterventionCost(t) <= With(o)!InterventionCost(t),
         NEW x \in Context, Eligible(o, x) # {}
  PROVE  BestValue(o, x) <= BestValue(w, x)
<1>1. PICK t \in Eligible(o, x) : BestValue(o, x) = With(o)!Erv(x, t)
  BY BestValueIsBest
<1>2. t \in Eligible(w, x) /\ t \in ActionType
  BY LooserEligible DEF Eligible, ComparableActions, ActionType
<1>3. With(o)!Erv(x, t) <= With(w)!Erv(x, t)
  <2>1. Share(x.amount, Probability(x, t), 1000) \in Int
    <3>1. Probability(x, t) \in 20..970
      BY <1>2, ProbabilityTyped
    <3>2. x.amount \in Nat /\ Probability(x, t) \in Nat /\ Probability(x, t) <= 1000
      BY <3>1 DEF Context
    <3> QED
      BY <3>2, ShareBound
  <2>2. With(o)!Value(x.amount, Probability(x, t), 1000, t)
          <= With(w)!Value(x.amount, Probability(x, t), 1000, t)
    BY <1>2, <2>1, WorthAsked
  <2> QED
    BY <2>2, SameScorer DEF With!Erv
<1>4. With(w)!Erv(x, t) \in Int /\ With(w)!Erv(x, t) <= BestValue(w, x)
  BY <1>2, BestValueIsBest
<1>5. With(o)!Erv(x, t) \in Int
  BY BestValueIsBest
<1>6. \E u \in Eligible(w, x) : BestValue(w, x) = With(w)!Erv(x, u) /\ With(w)!Erv(x, u) \in Int
  BY <1>2, BestValueIsBest
<1> QED
  BY <1>1, <1>3, <1>4, <1>5, <1>6

-----------------------------------------------------------------------------
(* The tables are finite, however many identifiers there are to give out.  *)

\* A run, seen as the one action row it writes.
LEMMA RunWrites ==
  ASSUME Tables, NEW c \in CaseId, DecidedRun(c)
  PROVE  /\ \E a \in ActionId, row \in ActionRow, to \in CaseState : Moves(c, a, row, to)
         /\ \A d \in CaseId \ {c} : diagnosis'[d] = diagnosis[d]
         /\ opened' = opened /\ seed' = seed
<1>1. TypeOK /\ DOMAIN diagnosis = CaseId
  BY DEF Tables, Core, PipelineInv
<1>2. ASSUME NEW a \in ActionId, NEW found \in Diagnoses(ContextOf(cases[c].payment)),
             Cycle(c, a, found)
      PROVE  /\ \E row \in ActionRow, to \in CaseState : Moves(c, a, row, to)
             /\ \A d \in CaseId \ {c} : diagnosis'[d] = diagnosis[d]
             /\ opened' = opened /\ seed' = seed
  <2>1. PICK t \in ActionType, success \in BOOLEAN :
          /\ \/ RunStops(c, a, t) \/ RunEscalates(c, a, t) \/ RunSchedules(c, a, t)
             \/ RunExecutes(c, a, t, success)
          /\ diagnosis' = [diagnosis EXCEPT ![c] = Reason(cases[c].payment)]
          /\ UNCHANGED <<opened, seed>>
    BY <1>1, <1>2, CycleDecides
  <2>2. \E row \in ActionRow, to \in CaseState : Moves(c, a, row, to)
    BY <1>1, <2>1, DecidedMoves
  <2> QED
    BY <1>1, <2>1, <2>2
<1>3. ASSUME NEW a \in ActionId, ResumeCase(c, a)
      PROVE  /\ \E row \in ActionRow, to \in CaseState : Moves(c, a, row, to)
             /\ \A d \in CaseId \ {c} : diagnosis'[d] = diagnosis[d]
             /\ opened' = opened /\ seed' = seed
  <2> DEFINE success == WouldSucceed(Reason(Owed(c)), actions[a].type, Owed(c),
                                     payments[Owed(c)].attempts + 1)
  <2>1. Resume(c, a, success) /\ UNCHANGED <<diagnosis, opened, seed>>
    BY <1>3 DEF ResumeCase, Owed
  <2>2. success \in BOOLEAN
    BY WouldSucceedTyped
  <2> HIDE DEF success
  <2>3. a \in Pending(c) /\ Executed(c, a, actions[a], success)
    BY <1>1, <2>1, <2>2, ResumeMoves
  <2>4. actions[a].payment = Owed(c)
    BY <1>1, <2>3, PendingRow DEF Owed
  <2> QED
    BY <1>1, <2>1, <2>3, <2>4, ExecutedRow
<1> QED
  BY <1>2, <1>3 DEF DecidedRun

FiniteTables == IsFiniteSet(Opened) /\ IsFiniteSet(Selected)

LEMMA FiniteStep == Tables /\ FiniteTables /\ [PipelineNext]_pipeline => FiniteTables'
<1> SUFFICES ASSUME Tables, FiniteTables, [PipelineNext]_pipeline PROVE FiniteTables'
  OBVIOUS
<1>1. TypeOK
  BY DEF Tables, Core
<1>2. ASSUME NEW p \in PaymentId, PaymentEvent(p) PROVE FiniteTables'
  <2>1. Pay(p) /\ actions' = actions
    BY <1>1, <1>2, PayCases DEF PaymentEvent
  <2>2. \E d : Opened' \subseteq Opened \cup {d}
    BY <1>1, <2>1 DEF Pay, CreatePayment, FailReuses, FailInterrupted, FailOpens, OpenCase,
      ReuseOpenCase, Opened, TypeOK
  <2>3. Selected' = Selected
    BY <2>1 DEF Selected
  <2> QED
    BY <2>2, <2>3, FS_AddElement, FS_Subset DEF FiniteTables
<1>3. ASSUME NEW c \in CaseId, DecidedRun(c) PROVE FiniteTables'
  <2>1. PICK a \in ActionId, row \in ActionRow, to \in CaseState : Moves(c, a, row, to)
    BY <1>3, RunWrites
  <2>2. Opened' \subseteq Opened /\ Selected' \subseteq Selected \cup {a}
    <3>1. /\ \A d \in CaseId : d # c => cases'[d] = cases[d]
          /\ \A b \in ActionId : actions'[b] = IF b = a THEN row ELSE actions[b]
      BY <1>1, <2>1, MovedTables
    <3>2. cases[c] # AbsentCase
      BY <1>1, <2>1, MovedHistory, SelectedCase
    <3> QED
      BY <3>1, <3>2 DEF Opened, Selected
  <2> QED
    BY <2>2, FS_AddElement, FS_Subset DEF FiniteTables
<1>4. ASSUME UNCHANGED <<cases, actions>> PROVE FiniteTables'
  BY <1>4 DEF FiniteTables, Opened, Selected
<1> QED
  BY <1>2, <1>3, <1>4 DEF PipelineNext, PipelineTick, Tick, AdvanceClock, pipeline, vars

\* Whatever the views range over is finite.
THEOREM FiniteHolds == PipelineSpec => []FiniteTables
<1>1. PipelineInit => FiniteTables
  <2>1. PipelineInit => Opened = {} /\ Selected = {}
    BY DEF PipelineInit, Init, Opened, Selected
  <2> QED
    BY <2>1, FS_EmptySet DEF FiniteTables
<1> QED
  BY <1>1, FiniteStep, TablesHold, PTL DEF PipelineSpec

\* What a view rebuilds is a context, disturbed or not.
LEMMA DetectedTyped ==
  ASSUME Tables, FiniteTables, NEW c \in Opened
  PROVE  AsDetected(c) \in Context
<1>1. /\ TypeOK /\ FailuresInv /\ c \in CaseId /\ cases[c] # AbsentCase
      /\ Owed(c) \in PaymentId /\ payments[Owed(c)].status # None
  BY DEF Tables, Core, Opened, TypeOK, PipelineInv, Owed
<1>2. ContextOf(Owed(c)) \in Context
  BY <1>1, ContextTyped DEF ContextsTyped
<1>3. ASSUME NEW x \in Context, NEW amount \in Nat, NEW r \in FailureReason, NEW n \in Nat
      PROVE  [x EXCEPT !.amount = amount, !.status = "FAILED", !.reason = r, !.attempts = n,
                       !.failures = 0, !.failed = {}, !.succeeded = {}] \in Context
  BY DEF Context, PaymentStatus
<1>4. AtRisk(c) \in Nat
  BY <1>1 DEF Tables, PipelineInv, CaseOf, Opening, Context, AtRisk
<1>5. ResolvedReason(c) \in FailureReason
  <2>1. Reason(Owed(c)) \in FailureReason
    BY <1>1, ReasonTyped
  <2> QED
    BY <1>1, <2>1 DEF Tables, PipelineInv, ResolvedReason, Owed
<1>6. AttemptsAtDetection(c) \in Nat
  <2> DEFINE made == Cardinality(CarriedOut(c))
             now  == payments[Owed(c)].attempts
  <2>1. CarriedOut(c) \subseteq Selected
    BY <1>1, WorkflowAssumption DEF CarriedOut, Selected, AbsentAction
  <2>2. made \in Nat /\ now \in Nat
    BY <1>1, <2>1, FS_Subset, FS_CardinalityType DEF FiniteTables, TypeOK, PaymentRow
  <2>3. AttemptsAtDetection(c) = IF now - made > 1 THEN now - made ELSE 1
    BY DEF AttemptsAtDetection, CarriedOut, Owed
  <2> HIDE DEF made, now
  <2> QED
    BY <2>2, <2>3
<1> QED
  BY <1>2, <1>3, <1>4, <1>5, <1>6 DEF AsDetected, Owed

-----------------------------------------------------------------------------
(* Learned scores are probabilities.                                       *)

LEMMA ImageFinite ==
  ASSUME NEW S, IsFiniteSet(S), NEW f, f = [x \in S |-> f[x]], NEW T, T = {f[x] : x \in S}
  PROVE  IsFiniteSet(T)
<1>1. f \in Surjection(S, T)
  BY DEF Surjection
<1> QED
  BY <1>1, FS_Surjection

LEMMA CandidatesFinite ==
  ASSUME NEW r \in FailureReason, NEW failed
  PROVE  IsFiniteSet(Candidates(r, failed))
<1>1. Candidates(r, failed) \subseteq ActionType
  BY CandidatesTyped
<1> QED
  BY <1>1, ActionTypesFinite, FS_Subset

LEMMA SamplesFinite ==
  ASSUME Tables, FiniteTables, NEW c \in CaseId
  PROVE  IsFiniteSet(SyntheticSamples(c)) /\ IsFiniteSet(VerifiedSamples)
<1>1. IsFiniteSet(VerifiedSamples)
  <2> DEFINE S == Recent(VerifiedOutcomes)
             f == [a \in S |->
                     [from |-> <<a>>, action |-> actions[a].type,
                      reason |-> diagnosis[actions[a].case],
                      segment |-> Segment(CustomerFor(actions[a].case)),
                      recovered |-> actions[a].outcome = "RECOVERED"]]
  <2>1. S \subseteq Selected
    BY WorkflowAssumption DEF Recent, VerifiedOutcomes, OutcomesOf, Selected, AbsentAction,
      OutcomeKind
  <2>2. IsFiniteSet(S)
    BY <2>1, FS_Subset DEF FiniteTables
  <2>3. VerifiedSamples = {f[a] : a \in S} /\ f = [a \in S |-> f[a]]
    BY DEF VerifiedSamples
  <2> HIDE DEF S, f
  <2> QED
    BY <2>2, <2>3, ImageFinite
<1>2. IsFiniteSet(SyntheticSamples(c))
  <2> DEFINE S == Opened \ {c}
             Of(d) == {[from |-> <<d, t>>, action |-> t, reason |-> AsDetected(d).reason,
                        segment |-> Segment(AsDetected(d).who),
                        recovered |-> WouldSucceed(AsDetected(d).reason, t, cases[d].payment,
                                                   AsDetected(d).attempts + 1)]
                         : t \in Candidates(AsDetected(d).reason, {}) \ TerminalActions}
             f == [d \in S |-> Of(d)]
             T == {f[d] : d \in S}
  <2>1. SyntheticSamples(c) = UNION T
    BY DEF SyntheticSamples
  <2>2. ASSUME NEW d \in S PROVE IsFiniteSet(Of(d))
    <3> DEFINE U == Candidates(AsDetected(d).reason, {}) \ TerminalActions
               g == [t \in U |->
                       [from |-> <<d, t>>, action |-> t, reason |-> AsDetected(d).reason,
                        segment |-> Segment(AsDetected(d).who),
                        recovered |-> WouldSucceed(AsDetected(d).reason, t, cases[d].payment,
                                                   AsDetected(d).attempts + 1)]]
    <3>1. AsDetected(d).reason \in FailureReason
      BY DetectedTyped DEF Context
    <3>2. IsFiniteSet(U)
      BY <3>1, CandidatesFinite, FS_Difference
    <3>3. Of(d) = {g[t] : t \in U} /\ g = [t \in U |-> g[t]]
      OBVIOUS
    <3> HIDE DEF U, g, Of
    <3> QED
      BY <3>2, <3>3, ImageFinite
  <2>3. IsFiniteSet(S)
    BY FS_Difference DEF FiniteTables
  <2>4. f = [d \in S |-> f[d]] /\ \A V \in T : IsFiniteSet(V)
    <3> HIDE DEF Of, S
    <3> QED
      BY <2>2
  <2> HIDE DEF S, f
  <2>5. IsFiniteSet(T)
    BY <2>3, <2>4, ImageFinite
  <2> HIDE DEF T
  <2> QED
    BY <2>1, <2>4, <2>5, FS_UNION
<1> QED
  BY <1>1, <1>2

LEMMA EvidenceFinite ==
  ASSUME Tables, FiniteTables, NEW c \in CaseId, NEW t
  PROVE  IsFiniteSet(Evidence(c, t))
<1> DEFINE samples == SyntheticSamples(c) \cup VerifiedSamples
<1>1. IsFiniteSet(samples)
  BY SamplesFinite, FS_Union
<1> HIDE DEF samples
<1>2. Matching(samples, AsDetected(c), t) \subseteq samples
  BY DEF Matching
<1>3. Evidence(c, t) = Matching(samples, AsDetected(c), t)
  BY DEF Evidence, samples
<1> QED
  BY <1>1, <1>2, <1>3, FS_Subset

\* A probability to four decimals.
Likelihood == {n \in Nat : n <= 10000}

\* A learned score is a probability.
LEMMA LearnedTyped ==
  ASSUME Tables, FiniteTables, NEW c \in Opened, NEW t \in ActionType
  PROVE  Learned(c, t) \in Likelihood
<1> DEFINE seen == Evidence(c, t)
           won  == {s \in seen : s.recovered}
           n == Cardinality(seen)
           k == Cardinality(won)
           p == Probability(AsDetected(c), t)
<1>1. n \in Nat /\ k \in Nat /\ k <= n
  <2>1. IsFiniteSet(seen) /\ won \subseteq seen
    BY EvidenceFinite DEF Opened
  <2> HIDE DEF seen, won
  <2> QED
    BY <2>1, FS_Subset, FS_CardinalityType
<1>2. p \in Nat /\ p <= 1000
  <2>1. p \in 20..970
    BY DetectedTyped, ProbabilityTyped
  <2> QED
    BY <2>1
<1>3. Learned(c, t) = IF seen = {} THEN 10 * p
                      ELSE Nearest(k * 10000 + 12 * 10 * p, n + 12)
  BY DEF Learned, PriorStrength
<1> HIDE DEF seen, won, n, k, p
<1>4. Nearest(k * 10000 + 12 * 10 * p, n + 12) \in Likelihood
  <2> DEFINE top == 2 * (k * 10000 + 12 * 10 * p) + (n + 12)
             bottom == 2 * (n + 12)
  <2>1. bottom \in Nat \ {0} /\ top \in Nat /\ top < 10001 * bottom
    BY <1>1, <1>2
  <2>2. Nearest(k * 10000 + 12 * 10 * p, n + 12) = top \div bottom
    BY DEF Nearest
  <2> HIDE DEF top, bottom
  <2>3. top \div bottom \in Likelihood
    BY <2>1 DEF Likelihood
  <2> QED
    BY <2>2, <2>3
<1>5. 10 * p \in Likelihood
  BY <1>2 DEF Likelihood
<1> QED
  BY <1>3, <1>4, <1>5

-----------------------------------------------------------------------------
(* The advised action is the one worth most.                               *)

LEMMA SmallestAt ==
  ASSUME NEW S, S # {}, NEW f, NEW b \in Int, \A s \in S : f[s] \in Int /\ b <= f[s]
  PROVE  \E s \in S : \A u \in S : f[s] <= f[u]
<1> DEFINE above == {f[s] - b : s \in S}
<1>1. above \in SUBSET Nat /\ above # {}
  <2>1. \A s \in S : f[s] - b \in Nat
    OBVIOUS
  <2> QED
    BY <2>1
<1>2. PICK least \in above : \A m \in above : least <= m
  BY <1>1, LeastNatural
<1>3. PICK s \in S : least = f[s] - b
  BY <1>2
<1>4. ASSUME NEW u \in S
      PROVE  f[s] <= f[u]
  <2>1. f[u] - b \in above
    OBVIOUS
  <2>2. f[s] - b <= f[u] - b
    BY <1>2, <1>3, <2>1
  <2>3. f[s] \in Int /\ f[u] \in Int
    OBVIOUS
  <2> HIDE DEF above
  <2> QED
    BY <2>2, <2>3
<1> QED
  BY <1>4

\* A ranking by four bounded keys of which the last tells any two apart has a first.
LEMMA RankingHasFirst ==
  ASSUME NEW S, S # {}, NEW k1, NEW k2, NEW k3, NEW k4, NEW b \in Int,
         \A s \in S : /\ k1[s] \in Int /\ b <= k1[s] /\ k2[s] \in Int /\ b <= k2[s]
                      /\ k3[s] \in Int /\ b <= k3[s] /\ k4[s] \in Int /\ b <= k4[s],
         \A s, u \in S : k4[s] = k4[u] => s = u
  PROVE  \E s \in S : \A u \in S \ {s} :
           Precedes(<<k1[s], k2[s], k3[s], k4[s]>>, <<k1[u], k2[u], k3[u], k4[u]>>)
<1>1. PICK s1 \in S : \A u \in S : k1[s1] <= k1[u]
  BY SmallestAt
<1> DEFINE S1 == {s \in S : k1[s] = k1[s1]}
<1>2. PICK s2 \in S1 : \A u \in S1 : k2[s2] <= k2[u]
  <2>1. S1 # {} /\ \A s \in S1 : k2[s] \in Int /\ b <= k2[s]
    OBVIOUS
  <2> HIDE DEF S1
  <2> QED
    BY <2>1, SmallestAt
<1> DEFINE S2 == {s \in S1 : k2[s] = k2[s2]}
<1>3. PICK s3 \in S2 : \A u \in S2 : k3[s3] <= k3[u]
  <2>1. S2 # {} /\ \A s \in S2 : k3[s] \in Int /\ b <= k3[s]
    OBVIOUS
  <2> HIDE DEF S2
  <2> QED
    BY <2>1, SmallestAt
<1> DEFINE S3 == {s \in S2 : k3[s] = k3[s3]}
<1>4. PICK s \in S3 : \A u \in S3 : k4[s] <= k4[u]
  <2>1. S3 # {} /\ \A u \in S3 : k4[u] \in Int /\ b <= k4[u]
    OBVIOUS
  <2> HIDE DEF S3
  <2> QED
    BY <2>1, SmallestAt
<1>5. s \in S /\ k1[s] = k1[s1] /\ k2[s] = k2[s2] /\ k3[s] = k3[s3]
  OBVIOUS
<1>6. ASSUME NEW u \in S, u # s
      PROVE  Precedes(<<k1[s], k2[s], k3[s], k4[s]>>, <<k1[u], k2[u], k3[u], k4[u]>>)
  <2>1. \/ k1[s] < k1[u]
        \/ k1[s] = k1[u] /\ k2[s] < k2[u]
        \/ k1[s] = k1[u] /\ k2[s] = k2[u] /\ k3[s] < k3[u]
        \/ k1[s] = k1[u] /\ k2[s] = k2[u] /\ k3[s] = k3[u] /\ k4[s] < k4[u]
    <3>1. k1[s] <= k1[u] /\ (k1[u] = k1[s] => u \in S1)
      BY <1>1, <1>5
    <3>2. u \in S1 => k2[s] <= k2[u] /\ (k2[u] = k2[s] => u \in S2)
      BY <1>2, <1>5
    <3>3. u \in S2 => k3[s] <= k3[u] /\ (k3[u] = k3[s] => u \in S3)
      BY <1>3, <1>5
    <3>4. u \in S3 => k4[s] <= k4[u]
      BY <1>4
    <3>5. k4[s] # k4[u]
      BY <1>5, <1>6
    <3> HIDE DEF S1, S2, S3
    <3> QED
      BY <1>5, <3>1, <3>2, <3>3, <3>4, <3>5
  <2> QED
    BY <2>1 DEF Precedes
<1> QED
  BY <1>5, <1>6

\* Candidates with their probabilities, one for each type.
Scores(scored) ==
  /\ \A s \in scored : s.action \in ActionType /\ s.probability \in Likelihood
  /\ \A s, u \in scored : s.action = u.action => s = u

LEMMA ScoredTyped ==
  ASSUME Tables, FiniteTables, NEW c \in Opened
  PROVE  Scores(Scored(c))
<1>1. AsDetected(c).reason \in FailureReason
  BY DetectedTyped DEF Context
<1>2. \A t \in Candidates(AsDetected(c).reason, {}) :
        t \in ActionType /\ Learned(c, t) \in Likelihood
  BY <1>1, CandidatesTyped, LearnedTyped
<1>3. \A s \in Scored(c) : \E t \in Candidates(AsDetected(c).reason, {}) :
        s = [action |-> t, probability |-> Learned(c, t)]
  BY DEF Scored
<1>4. \A s \in Scored(c) : s.action \in ActionType /\ s.probability \in Likelihood
  BY <1>2, <1>3
<1>5. \A s \in Scored(c) : s = [action |-> s.action, probability |-> Learned(c, s.action)]
  BY <1>3
<1>6. ASSUME NEW s \in Scored(c), NEW u \in Scored(c), s.action = u.action PROVE s = u
  <2>1. /\ s = [action |-> s.action, probability |-> Learned(c, s.action)]
        /\ u = [action |-> u.action, probability |-> Learned(c, u.action)]
    BY <1>5
  <2>2. [action |-> s.action, probability |-> Learned(c, s.action)]
          = [action |-> u.action, probability |-> Learned(c, u.action)]
    BY <1>6
  <2> QED
    BY <2>1, <2>2, Zenon
<1> QED
  BY <1>4, <1>6, Zenon DEF Scores

\* What the lab may advise for case x, and what each is worth there.
Permitted(o, x, scored) ==
  {s \in scored : With(o)!Evaluate(Proposed(x, s.action)).outcome = "APPROVED"}
Worth(o, x, s) == With(o)!Value(x.amount, s.probability, 10000, s.action)

LEMMA ShareOfLikely ==
  \A amount, p : amount \in Nat /\ p \in Likelihood =>
    Share(amount, p, 10000) \in Int /\ Share(amount, p, 10000) <= amount
<1> SUFFICES ASSUME NEW amount, NEW p, amount \in Nat, p \in Likelihood
             PROVE  Share(amount, p, 10000) \in Int /\ Share(amount, p, 10000) <= amount
  OBVIOUS
<1> p \in Nat /\ p <= 10000
  BY DEF Likelihood
<1>1. 10000 \in {1000, 10000}
  OBVIOUS
<1> DEFINE scale == 10000
<1>2. scale \in {1000, 10000} /\ p \in Nat /\ p <= scale
  BY <1>1
<1> HIDE DEF scale
<1>3. Share(amount, p, scale) \in Int /\ Share(amount, p, scale) <= amount
  BY <1>2, ShareBound
<1> QED
  BY <1>3 DEF scale

LEMMA WorthTyped ==
  ASSUME NEW o \in Overrides, NEW x \in Context, NEW s,
         s.action \in ActionType, s.probability \in Likelihood
  PROVE  /\ Worth(o, x, s) \in Int /\ Worth(o, x, s) <= x.amount
         /\ \A w \in Overrides :
              /\ \A t \in ActionType : With(w)!InterventionCost(t) <= With(o)!InterventionCost(t)
              /\ o.frictions = w.frictions
              => Worth(o, x, s) <= Worth(w, x, s)
<1>1. x.amount \in Nat
  BY DEF Context
<1>3. /\ Share(x.amount, s.probability, 10000) \in Int
      /\ Share(x.amount, s.probability, 10000) <= x.amount
  BY <1>1, ShareOfLikely
<1>4. ASSUME NEW w \in Overrides
      PROVE  /\ Worth(w, x, s) \in Int
             /\ Worth(w, x, s) <= Share(x.amount, s.probability, 10000)
             /\ \A v \in Overrides :
                  /\ With(v)!InterventionCost(s.action) <= With(w)!InterventionCost(s.action)
                  /\ w.frictions = v.frictions
                  => Worth(w, x, s) <= Worth(v, x, s)
  BY <1>3, WorthAsked DEF Worth
<1>5. /\ Worth(o, x, s) \in Int
      /\ Worth(o, x, s) <= Share(x.amount, s.probability, 10000)
      /\ \A v \in Overrides :
           /\ With(v)!InterventionCost(s.action) <= With(o)!InterventionCost(s.action)
           /\ o.frictions = v.frictions
           => Worth(o, x, s) <= Worth(v, x, s)
  BY <1>4
<1>6. Worth(o, x, s) <= x.amount
  BY <1>1, <1>3, <1>5
<1> QED
  BY <1>5, <1>6

LEMMA AdvisedIsBest ==
  ASSUME NEW o \in Overrides, NEW x \in Context, NEW scored, Scores(scored),
         Permitted(o, x, scored) # {}
  PROVE  \E s \in Permitted(o, x, scored) :
           /\ AdvisedValue(o, x, scored) = Worth(o, x, s)
           /\ \A u \in Permitted(o, x, scored) : Worth(o, x, u) <= Worth(o, x, s)
<1> DEFINE eligible == Permitted(o, x, scored)
           k1 == [s \in eligible |-> -Worth(o, x, s)]
           k2 == [s \in eligible |-> -s.probability]
           k3 == [s \in eligible |-> With(o)!InterventionCost(s.action)]
           k4 == [s \in eligible |-> DeclarationOrder[s.action]]
           Key(s) == <<-Worth(o, x, s), -s.probability, With(o)!InterventionCost(s.action),
                       DeclarationOrder[s.action]>>
           First(s) == \A u \in eligible \ {s} : Precedes(Key(s), Key(u))
           b == -(x.amount + 10000)
<1>1. \A s \in eligible : s \in scored /\ s.action \in ActionType /\ s.probability \in Likelihood
  BY DEF Permitted, Scores
<1>2. x.amount \in Nat /\ b \in Int
  BY DEF Context
<1>3. ASSUME NEW s \in eligible
      PROVE  /\ k1[s] \in Int /\ b <= k1[s] /\ k2[s] \in Int /\ b <= k2[s]
             /\ k3[s] \in Int /\ b <= k3[s] /\ k4[s] \in Int /\ b <= k4[s]
  <2>1. Worth(o, x, s) \in Int /\ Worth(o, x, s) <= x.amount
    BY <1>1, WorthTyped
  <2>2. s.probability \in Nat /\ s.probability <= 10000
    BY <1>1 DEF Likelihood
  <2>3. With(o)!InterventionCost(s.action) \in Nat
    BY <1>1, AskedPrices
  <2>4. DeclarationOrder[s.action] \in Nat
    BY <1>1 DEF DeclarationOrder, ActionType
  <2>5. /\ k1[s] = -Worth(o, x, s) /\ k2[s] = -s.probability
        /\ k3[s] = With(o)!InterventionCost(s.action) /\ k4[s] = DeclarationOrder[s.action]
    OBVIOUS
  <2> HIDE DEF k1, k2, k3, k4, eligible
  <2> DEFINE worth == Worth(o, x, s)
             likely == s.probability
             price == With(o)!InterventionCost(s.action)
             order == DeclarationOrder[s.action]
             most == x.amount
  <2>6. /\ k1[s] = -worth /\ k2[s] = -likely /\ k3[s] = price /\ k4[s] = order
        /\ worth \in Int /\ worth <= most /\ likely \in Nat /\ likely <= 10000
        /\ price \in Nat /\ order \in Nat /\ most \in Nat
    BY <1>2, <2>1, <2>2, <2>3, <2>4, <2>5
  <2>7. b = -(most + 10000)
    OBVIOUS
  <2> HIDE DEF worth, likely, price, order, most, b
  <2> QED
    BY <2>6, <2>7
<1>4. \A s, u \in eligible : k4[s] = k4[u] => s = u
  <2>1. \A t, v \in ActionType : DeclarationOrder[t] = DeclarationOrder[v] => t = v
    BY DEF DeclarationOrder, ActionType
  <2>2. \A s, u \in scored : s.action = u.action => s = u
    BY Zenon DEF Scores
  <2>3. \A s \in eligible : k4[s] = DeclarationOrder[s.action]
    OBVIOUS
  <2> HIDE DEF k4, eligible
  <2> QED
    BY <1>1, <2>1, <2>2, <2>3
<1>5. \A s \in eligible : Key(s) = <<k1[s], k2[s], k3[s], k4[s]>>
  OBVIOUS
<1>6. \E s \in eligible : \A u \in eligible \ {s} :
        Precedes(<<k1[s], k2[s], k3[s], k4[s]>>, <<k1[u], k2[u], k3[u], k4[u]>>)
  <2>1. eligible # {}
    OBVIOUS
  <2> HIDE DEF k1, k2, k3, k4, eligible, b
  <2> QED
    BY <1>2, <1>3, <1>4, <2>1, RankingHasFirst
<1>7. \E s \in eligible : First(s)
  <2> HIDE DEF k1, k2, k3, k4, eligible, Key
  <2> QED
    BY <1>5, <1>6
<1> DEFINE chosen == CHOOSE s \in eligible : First(s)
<1>8. chosen \in eligible /\ First(chosen)
  <2> HIDE DEF First, eligible
  <2> QED
    BY <1>7
<1>9. AdvisedValue(o, x, scored) = Worth(o, x, chosen)
  BY DEF AdvisedValue, Permitted, Worth
<1>10. ASSUME NEW u \in eligible PROVE Worth(o, x, u) <= Worth(o, x, chosen)
  <2>1. u = chosen \/ Precedes(Key(chosen), Key(u))
    <3> HIDE DEF eligible, Key, chosen
    <3> QED
      BY <1>8
  <2>2. k1[chosen] \in Int /\ k1[u] \in Int
    BY <1>3, <1>8
  <2>3. u = chosen \/ k1[chosen] <= k1[u]
    <3>1. ASSUME Precedes(<<k1[chosen], k2[chosen], k3[chosen], k4[chosen]>>,
                          <<k1[u], k2[u], k3[u], k4[u]>>)
          PROVE  k1[chosen] <= k1[u]
      <4> HIDE DEF k1, k2, k3, k4, eligible, chosen
      <4>1. k1[chosen] < k1[u] \/ k1[chosen] = k1[u]
        BY <3>1, SMT DEF Precedes
      <4> QED
        BY <2>2, <4>1
    <3> HIDE DEF k1, k2, k3, k4, eligible, chosen, Key
    <3> QED
      BY <1>5, <1>8, <2>1, <3>1
  <2>4. k1[chosen] = -Worth(o, x, chosen) /\ k1[u] = -Worth(o, x, u)
    BY <1>8
  <2>5. Worth(o, x, chosen) \in Int /\ Worth(o, x, u) \in Int
    <3> HIDE DEF chosen, eligible
    <3> QED
      BY <1>1, <1>8, WorthTyped
  <2> HIDE DEF k1, k2, k3, k4, eligible, chosen
  <2> QED
    BY <2>2, <2>3, <2>4, <2>5
<1> HIDE DEF chosen
<1> QED
  BY <1>8, <1>9, <1>10

LEMMA LooserAdvised ==
  ASSUME NEW o \in Overrides, NEW w \in Overrides, Looser(o, w), o.frictions = w.frictions,
         \A t \in ActionType : With(w)!InterventionCost(t) <= With(o)!InterventionCost(t),
         NEW x \in Context, NEW scored, Scores(scored)
  PROVE  AdvisedValue(o, x, scored) <= AdvisedValue(w, x, scored)
         \/ AdvisedValue(o, x, scored) = 0
<1>1. CASE Permitted(o, x, scored) = {}
  BY <1>1 DEF AdvisedValue, Permitted
<1>2. CASE Permitted(o, x, scored) # {}
  <2>1. PICK s \in Permitted(o, x, scored) : AdvisedValue(o, x, scored) = Worth(o, x, s)
    BY <1>2, AdvisedIsBest
  <2>2. s \in Permitted(w, x, scored)
    <3>1. /\ Proposed(x, s.action).attempts \in Nat /\ Proposed(x, s.action).failures \in Nat
          /\ Proposed(x, s.action).amount \in Nat
      BY DEF Proposed, Context
    <3>2. With(o)!Evaluate(Proposed(x, s.action)).outcome = "APPROVED"
      BY DEF Permitted
    <3>3. With(w)!Evaluate(Proposed(x, s.action)).outcome = "APPROVED"
      BY <3>1, <3>2, LooserGate
    <3> QED
      BY <3>3 DEF Permitted
  <2>3. PICK u \in Permitted(w, x, scored) :
          /\ AdvisedValue(w, x, scored) = Worth(w, x, u)
          /\ Worth(w, x, s) <= Worth(w, x, u)
    BY <2>2, AdvisedIsBest
  <2>4. /\ s.action \in ActionType /\ s.probability \in Likelihood
        /\ u.action \in ActionType /\ u.probability \in Likelihood
    BY DEF Permitted, Scores
  <2>5. /\ Worth(o, x, s) \in Int /\ Worth(w, x, s) \in Int /\ Worth(w, x, u) \in Int
        /\ Worth(o, x, s) <= Worth(w, x, s)
    BY <2>4, WorthTyped
  <2> QED
    BY <2>1, <2>3, <2>5
<1> QED
  BY <1>1, <1>2

\* Asking "what if the limits were looser, or the actions cheaper?" never takes
\* a permitted action away or lowers what the recommended or the advised one is
\* worth, for any settings the lab accepts.
THEOREM LooserLimitsHold == PipelineSpec => []LooserLimitsHelp
<1>1. ASSUME Tables, FiniteTables PROVE LooserLimitsHelp
  <2> SUFFICES ASSUME NEW c \in Opened, NEW o \in Overrides, NEW w \in Overrides,
                      o.retries <= w.retries, o.failures <= w.failures,
                      o.threshold <= w.threshold,
                      \A t \in ActionType :
                        With(w)!InterventionCost(t) <= With(o)!InterventionCost(t),
                      o.frictions = w.frictions
               PROVE  LET x == ContextOf(cases[c].payment)
                          then == AsDetected(c)
                      IN  /\ Eligible(o, x) \subseteq Eligible(w, x)
                          /\ Eligible(o, x) # {} => BestValue(o, x) <= BestValue(w, x)
                          /\ \/ AdvisedValue(o, then, Scored(c)) <= AdvisedValue(w, then, Scored(c))
                             \/ AdvisedValue(o, then, Scored(c)) = 0
    BY DEF LooserLimitsHelp
  <2> DEFINE x == ContextOf(cases[c].payment)
             then == AsDetected(c)
  <2>1. x \in Context
    <3>1. /\ cases[c].payment \in PaymentId /\ payments[cases[c].payment].status # None
          /\ TypeOK /\ FailuresInv
      BY <1>1 DEF Tables, Core, Opened, TypeOK, PipelineInv, Owed
    <3> QED
      BY <1>1, <3>1, ContextTyped DEF ContextsTyped
  <2>2. then \in Context /\ Scores(Scored(c))
    BY <1>1, DetectedTyped, ScoredTyped
  <2>3. Looser(o, w)
    BY DEF Looser
  <2> HIDE DEF x, then
  <2>4. Eligible(o, x) \subseteq Eligible(w, x)
    BY <2>1, <2>3, LooserEligible
  <2>5. Eligible(o, x) # {} => BestValue(o, x) <= BestValue(w, x)
    BY <2>1, <2>3, LooserBest
  <2>6. \/ AdvisedValue(o, then, Scored(c)) <= AdvisedValue(w, then, Scored(c))
        \/ AdvisedValue(o, then, Scored(c)) = 0
    BY <2>2, <2>3, LooserAdvised
  <2> QED
    BY <2>4, <2>5, <2>6 DEF x, then
<1> QED
  BY <1>1, TablesHold, FiniteHolds, PTL

-----------------------------------------------------------------------------
(* What a case is told about its cohort.                                   *)

\* An action is carried out exactly when its outcome is known, and then at a time.
OutcomesTimed == \A a \in ActionId :
  IF actions[a].outcome = None THEN actions[a].executedAt = None
                               ELSE actions[a].executedAt \in Nat

LEMMA TimedStep == Tables /\ OutcomesTimed /\ [PipelineNext]_pipeline => OutcomesTimed'
<1> SUFFICES ASSUME Tables, OutcomesTimed, [PipelineNext]_pipeline PROVE OutcomesTimed'
  OBVIOUS
<1>1. TypeOK
  BY DEF Tables, Core
<1>2. ASSUME NEW p \in PaymentId, PaymentEvent(p) PROVE OutcomesTimed'
  <2>1. actions' = actions
    BY <1>1, <1>2, PayCases DEF PaymentEvent
  <2> QED
    BY <2>1 DEF OutcomesTimed
<1>3. ASSUME NEW c \in CaseId, DecidedRun(c) PROVE OutcomesTimed'
  <2>1. PICK a \in ActionId, row \in ActionRow, to \in CaseState : Moves(c, a, row, to)
    BY <1>3, RunWrites
  <2>2. IF row.outcome = None THEN row.executedAt = None ELSE row.executedAt \in Nat
    <3>1. clock \in Nat
      BY <1>1 DEF TypeOK
    <3>2. Waits(row) \/ Acts(c, row, to)
      BY <2>1 DEF Moves, Concludes, Defers, Attempts, Resumes
    <3>3. Acts(c, row, to) => row.outcome # None /\ row.executedAt = clock
      BY WorkflowAssumption DEF Acts, OutcomeKind
    <3> QED
      BY <3>1, <3>2, <3>3 DEF Waits
  <2>3. \A b \in ActionId : actions'[b] = IF b = a THEN row ELSE actions[b]
    BY <1>1, <2>1, MovedTables
  <2> QED
    BY <2>2, <2>3 DEF OutcomesTimed
<1>4. ASSUME UNCHANGED actions PROVE OutcomesTimed'
  BY <1>4 DEF OutcomesTimed
<1> QED
  BY <1>2, <1>3, <1>4 DEF PipelineNext, PipelineTick, Tick, AdvanceClock, pipeline, vars

\* Outcomes are recorded when, and only when, an action is carried out.
THEOREM TimedHolds == PipelineSpec => []OutcomesTimed
<1>1. PipelineInit => OutcomesTimed
  BY DEF PipelineInit, Init, OutcomesTimed, AbsentAction
<1> QED
  BY <1>1, TimedStep, TablesHold, PTL DEF PipelineSpec

\* A run that changes what is verified adds the outcome of its own action.
LEMMA RunVerifies ==
  ASSUME Tables, OutcomesTimed, NEW c \in CaseId, NEW a \in ActionId, NEW row \in ActionRow,
         NEW to, Moves(c, a, row, to)
  PROVE  /\ a \notin VerifiedOutcomes
         /\ VerifiedOutcomes' = IF row.outcome = None THEN VerifiedOutcomes
                                                      ELSE VerifiedOutcomes \cup {a}
         /\ \A b \in ActionId \ {a} : actions'[b] = actions[b]
         /\ actions'[a] = row /\ row.case = c
<1>1. TypeOK
  BY DEF Tables, Core
<1>2. actions[a].outcome = None
  <2>1. actions[a].executedAt = None
    BY <1>1, PendingRow
    DEF Moves, Concludes, Defers, Attempts, Resumes, Fresh, AbsentAction
  <2> QED
    BY <2>1, WorkflowAssumption DEF OutcomesTimed
<1>3. /\ \A b \in ActionId : actions'[b] = IF b = a THEN row ELSE actions[b]
      /\ row.case = c
  <2>1. row.case = c
    BY DEF Moves
  <2> QED
    BY <1>1, <2>1, MovedTables
<1>4. row.outcome \in {"RECOVERED", "UNRECOVERED", None} /\ None \notin {"RECOVERED", "UNRECOVERED"}
  BY WorkflowAssumption DEF ActionRow, OutcomeKind
<1> QED
  BY <1>2, <1>3, <1>4 DEF VerifiedOutcomes, OutcomesOf

\* A set of outcomes that fits the window is all recent.
WindowHolds ==
  \A S \in SUBSET ActionId :
    /\ IsFiniteSet(S) /\ Cardinality(S) <= OutcomeWindow
    /\ \A a \in S : actions[a].executedAt \in Nat
    => Recent(S) = S

LEMMA RecentIsAll == WindowHolds
<1> SUFFICES ASSUME NEW S \in SUBSET ActionId,
                    IsFiniteSet(S), Cardinality(S) <= OutcomeWindow,
                    \A a \in S : actions[a].executedAt \in Nat
             PROVE  Recent(S) = S
  BY DEF WindowHolds
<1> DEFINE Later(b, a) == \/ actions[b].executedAt > actions[a].executedAt
                          \/ /\ actions[b].executedAt = actions[a].executedAt
                             /\ b > a
<1>1. ASSUME NEW a \in S PROVE Cardinality({b \in S : Later(b, a)}) < OutcomeWindow
  <2> DEFINE L == {b \in S : Later(b, a)}
  <2>1. L \subseteq S \ {a}
    <3>1. actions[a].executedAt \in Nat /\ a \in Nat
      BY CustomerAssumption
    <3>2. ~Later(a, a)
      BY <3>1
    <3> QED
      BY <3>2
  <2>2. /\ IsFiniteSet(S \ {a}) /\ Cardinality(S \ {a}) = Cardinality(S) - 1
        /\ Cardinality(S) \in Nat
    BY <1>1, FS_RemoveElement, FS_CardinalityType
  <2>3. Cardinality(L) \in Nat /\ Cardinality(L) <= Cardinality(S \ {a})
    <3> HIDE DEF L
    <3> QED
      BY <2>1, <2>2, FS_Subset, FS_CardinalityType
  <2> DEFINE l == Cardinality(L)
             n == Cardinality(S)
             m == Cardinality(S \ {a})
  <2>4. l \in Nat /\ n \in Nat /\ m = n - 1 /\ l <= m /\ n <= OutcomeWindow
        /\ OutcomeWindow \in Nat
    BY <2>2, <2>3, InsightsAssumption
  <2> HIDE DEF l, n, m
  <2>5. l < OutcomeWindow
    BY <2>4
  <2> QED
    BY <2>5 DEF l
<1>2. Recent(S) = {a \in S : Cardinality({b \in S : Later(b, a)}) < OutcomeWindow}
  BY DEF Recent
<1> HIDE DEF Later
<1> QED
  BY <1>1, <1>2

\* The rows of an insight.
Cohort(without, t, r, sub) ==
  {a \in Recent({b \in VerifiedOutcomes : actions[b].type = t}) :
     /\ actions[a].case # without
     /\ diagnosis[actions[a].case] = r
     /\ CustomerFor(actions[a].case).subscription = sub}

\* A step of a case leaves the cohort it is told about as it was.
LEMMA CohortKept ==
  ASSUME Tables, Tables', FiniteTables, FiniteTables', OutcomesTimed, OutcomesTimed',
         NEW c \in CaseId, NEW a \in ActionId, NEW row \in ActionRow, NEW to,
         Moves(c, a, row, to), \A d \in CaseId \ {c} : diagnosis'[d] = diagnosis[d],
         VerifiedOutcomes' # VerifiedOutcomes,
         NEW t, NEW r, NEW sub,
         Cardinality({b \in VerifiedOutcomes : actions[b].type = t}) < OutcomeWindow
  PROVE  /\ Cohort(c, t, r, sub)' = Cohort(c, t, r, sub)
         /\ Cohort(c, t, r, sub)' \cap OutcomesOf("RECOVERED")'
              = Cohort(c, t, r, sub) \cap OutcomesOf("RECOVERED")
<1> DEFINE S == {b \in VerifiedOutcomes : actions[b].type = t}
           T == {b \in VerifiedOutcomes' : actions'[b].type = t}
<1>1. /\ a \notin VerifiedOutcomes /\ VerifiedOutcomes' = VerifiedOutcomes \cup {a}
      /\ \A b \in ActionId \ {a} : actions'[b] = actions[b]
      /\ actions'[a] = row /\ row.case = c
  BY RunVerifies
<1>2. VerifiedOutcomes \subseteq Selected /\ VerifiedOutcomes \subseteq ActionId
      /\ \A b \in VerifiedOutcomes : actions[b].executedAt \in Nat
  <2>1. VerifiedOutcomes \subseteq ActionId
        /\ \A b \in VerifiedOutcomes : actions[b].outcome # None
    BY WorkflowAssumption DEF VerifiedOutcomes, OutcomesOf, OutcomeKind
  <2> QED
    BY <2>1 DEF OutcomesTimed, Selected, AbsentAction
<1>3. VerifiedOutcomes' \subseteq ActionId
      /\ \A b \in VerifiedOutcomes' : actions'[b].executedAt \in Nat
  <2>1. VerifiedOutcomes' \subseteq ActionId
        /\ \A b \in VerifiedOutcomes' : actions'[b].outcome # None
    BY WorkflowAssumption DEF VerifiedOutcomes, OutcomesOf, OutcomeKind
  <2> QED
    BY <2>1 DEF OutcomesTimed
<1>4. S \subseteq T /\ T \subseteq S \cup {a}
  BY <1>1, <1>2
<1>5. IsFiniteSet(S) /\ IsFiniteSet(S \cup {a}) /\ IsFiniteSet(T)
      /\ Cardinality(S) \in Nat /\ Cardinality(T) \in Nat
      /\ Cardinality(S \cup {a}) \in Nat
      /\ Cardinality(S \cup {a}) <= Cardinality(S) + 1
      /\ Cardinality(T) <= Cardinality(S \cup {a})
  <2>1. S \subseteq Selected
    BY <1>2
  <2> HIDE DEF S, T
  <2>2. IsFiniteSet(S) /\ Cardinality(S) \in Nat
    BY <2>1, FS_Subset, FS_CardinalityType DEF FiniteTables
  <2>3. /\ IsFiniteSet(S \cup {a})
        /\ Cardinality(S \cup {a}) = IF a \in S THEN Cardinality(S) ELSE Cardinality(S) + 1
    BY <2>2, FS_AddElement
  <2>4. Cardinality(S \cup {a}) <= Cardinality(S) + 1
    BY <2>2, <2>3
  <2> QED
    BY <1>4, <2>2, <2>3, <2>4, FS_Subset, FS_CardinalityType
<1>6. Cardinality(S) <= OutcomeWindow /\ Cardinality(T) <= OutcomeWindow
  <2> DEFINE s == Cardinality(S)
             u == Cardinality(S \cup {a})
             v == Cardinality(T)
  <2>1. s \in Nat /\ u \in Nat /\ v \in Nat /\ u <= s + 1 /\ v <= u /\ s < OutcomeWindow
        /\ OutcomeWindow \in Nat
    BY <1>5, InsightsAssumption
  <2> HIDE DEF s, u, v
  <2>2. s <= OutcomeWindow /\ v <= OutcomeWindow
    BY <2>1
  <2> QED
    BY <2>2 DEF s, v
<1>7. Recent(S) = S
  BY <1>2, <1>5, <1>6, RecentIsAll DEF WindowHolds
<1>8. Recent(S)' = T
  <2>1. WindowHolds'
    BY RecentIsAll, PTL
  <2> HIDE DEF T
  <2>2. T \in SUBSET ActionId /\ \A e \in T : actions'[e].executedAt \in Nat
    BY <1>3 DEF T
  <2> QED
    BY <1>5, <1>6, <2>1, <2>2 DEF WindowHolds, Recent, S, T
<1> DEFINE Keeps(b) == /\ actions[b].case # c /\ diagnosis[actions[b].case] = r
                       /\ CustomerFor(actions[b].case).subscription = sub
<1>9. \A b \in S : actions[b].case \in CaseId
  BY <1>2, ActionPayment DEF Tables, Core, Selected
<1>10. \A b \in T \ {a} : b \in S /\ actions'[b] = actions[b]
  BY <1>1, <1>4, <1>3
<1>11. \A b \in S : Keeps(b)' <=> Keeps(b)
  <2> SUFFICES ASSUME NEW b \in S PROVE Keeps(b)' <=> Keeps(b)
    OBVIOUS
  <2>1. actions'[b] = actions[b]
    BY <1>1, <1>2
  <2>2. CASE actions[b].case = c
    BY <2>1, <2>2
  <2>3. CASE actions[b].case # c
    <3>1. diagnosis'[actions[b].case] = diagnosis[actions[b].case]
          /\ cases'[actions[b].case].payment = cases[actions[b].case].payment
      BY <1>9, <2>3, MovedTables DEF Tables, Core
    <3> QED
      BY <2>1, <3>1 DEF CustomerFor
  <2> QED
    BY <2>2, <2>3
<1>12. ~Keeps(a)'
  BY <1>1
<1>13. /\ Cohort(c, t, r, sub) = {b \in S : Keeps(b)}
       /\ Cohort(c, t, r, sub)' = {b \in T : Keeps(b)'}
  BY <1>7, <1>8 DEF Cohort
<1>14. Cohort(c, t, r, sub)' = Cohort(c, t, r, sub)
  <2> HIDE DEF Keeps, S, T
  <2> QED
    BY <1>4, <1>10, <1>11, <1>12, <1>13
<1>15. \A b \in S : b \in OutcomesOf("RECOVERED")' <=> b \in OutcomesOf("RECOVERED")
  BY <1>1, <1>2 DEF OutcomesOf
<1> QED
  BY <1>13, <1>14, <1>15

\* Whatever a run of a case adds to the verified outcomes, the case is told the same
\* about every cohort as before, as long as the window has room: it skips its own
\* rows (historical_learning.py, excluded_case_id), and nothing else has changed.
THEOREM OwnOutcomeHolds == PipelineSpec => OwnOutcomeUnseen
<1>1. ASSUME Tables, Tables', FiniteTables, FiniteTables', OutcomesTimed, OutcomesTimed',
             [PipelineNext]_pipeline, VerifiedOutcomes' # VerifiedOutcomes,
             NEW c \in Opened,
             \A a \in VerifiedOutcomes' \ VerifiedOutcomes : actions'[a].case = c,
             NEW t \in ActionType, NEW r \in FailureReason, NEW sub \in SubscriptionStatus,
             Cardinality({a \in VerifiedOutcomes : actions[a].type = t}) < OutcomeWindow
      PROVE  Insight(c, t, r, sub)' = Insight(c, t, r, sub)
  <2>1. PICK d \in CaseId : DecidedRun(d)
    <3>1. ASSUME NEW p \in PaymentId, PaymentEvent(p) PROVE actions' = actions
      BY <1>1, <3>1, PayCases DEF PaymentEvent, Tables, Core
    <3>2. actions' # actions
      BY <1>1 DEF VerifiedOutcomes, OutcomesOf
    <3> QED
      BY <1>1, <3>1, <3>2 DEF PipelineNext, PipelineTick, Tick, AdvanceClock, pipeline, vars
  <2>2. PICK a \in ActionId, row \in ActionRow, to \in CaseState : Moves(d, a, row, to)
    BY <1>1, <2>1, RunWrites
  <2>3. \A e \in CaseId \ {d} : diagnosis'[e] = diagnosis[e]
    BY <1>1, <2>1, RunWrites
  <2>4. d = c
    BY <1>1, <2>2, RunVerifies
  <2>5. /\ Cohort(c, t, r, sub)' = Cohort(c, t, r, sub)
        /\ Cohort(c, t, r, sub)' \cap OutcomesOf("RECOVERED")'
             = Cohort(c, t, r, sub) \cap OutcomesOf("RECOVERED")
    BY <1>1, <2>2, <2>3, <2>4, CohortKept
  <2>6. Insight(c, t, r, sub) = [samples |-> Cardinality(Cohort(c, t, r, sub)),
          successes |-> Cardinality(Cohort(c, t, r, sub) \cap OutcomesOf("RECOVERED"))]
    BY DEF Insight, Cohort
  <2>7. Insight(c, t, r, sub)' = [samples |-> Cardinality(Cohort(c, t, r, sub)'),
          successes |-> Cardinality(Cohort(c, t, r, sub)' \cap OutcomesOf("RECOVERED")')]
    BY DEF Insight, Cohort
  <2> QED
    BY <2>5, <2>6, <2>7
<1>2. Tables /\ Tables' /\ FiniteTables /\ FiniteTables' /\ OutcomesTimed /\ OutcomesTimed'
      /\ [PipelineNext]_pipeline
      => [VerifiedOutcomes' # VerifiedOutcomes =>
            \A c \in Opened :
              (\A a \in VerifiedOutcomes' \ VerifiedOutcomes : actions'[a].case = c) =>
                \A t \in ActionType, r \in FailureReason, sub \in SubscriptionStatus :
                  Cardinality({a \in VerifiedOutcomes : actions[a].type = t}) < OutcomeWindow
                    => Insight(c, t, r, sub)' = Insight(c, t, r, sub)]_pipeline
  BY <1>1
<1> QED
  BY <1>2, TablesHold, FiniteHolds, TimedHolds, PTL DEF PipelineSpec, OwnOutcomeUnseen

-----------------------------------------------------------------------------
(* One more outcome.                                                       *)

LEMMA Quotient ==
  ASSUME NEW n \in Nat, NEW d \in Nat \ {0}
  PROVE  d * (n \div d) <= n /\ n < d * (n \div d) + d
  OBVIOUS

LEMMA Scaled ==
  ASSUME NEW b \in Nat, NEW m \in Nat, NEW n \in Nat
  PROVE  /\ b * m \in Nat /\ 2 * b * m = 2 * (b * m)
         /\ 2 * (b + 1) * m = 2 * (b * m) + 2 * m
         /\ n >= m + 771 => b * n >= b * m + 771 * b
<1>1. ASSUME n >= m + 771 PROVE b * n >= b * m + 771 * b
  <2>1. n - m - 771 \in Nat /\ n = m + 771 + (n - m - 771)
    BY <1>1
  <2>2. PICK k \in Nat : n = m + 771 + k
    BY <2>1
  <2>3. b * (m + 771 + k) = b * m + 771 * b + b * k /\ b * k \in Nat
    OBVIOUS
  <2> QED
    BY <2>2, <2>3
<1>2. b * m \in Nat /\ 2 * b * m = 2 * (b * m) /\ 2 * (b + 1) * m = 2 * (b * m) + 2 * m
  OBVIOUS
<1> QED
  BY <1>1, <1>2

\* What a sample adds to the numerator, and how far a score may then move.
Gain == {0, 10000}
Apart(q, r) == r <= q + 770 /\ q <= r + 770

\* Rounded to the nearest, the fractions n / b and (n + d) / (b + 1).
LEMMA NearestMoves ==
  ASSUME NEW n, NEW b, NEW d, n \in Nat, b \in Nat, b >= 13, d \in Gain,
         Nearest(n, b) \in Likelihood, Nearest(n + d, b + 1) \in Likelihood
  PROVE  Apart(Nearest(n, b), Nearest(n + d, b + 1))
<1> DEFINE top == 2 * n + b
           bottom == 2 * b
           top2 == 2 * (n + d) + (b + 1)
           bottom2 == 2 * (b + 1)
           q == Nearest(n, b)
           r == Nearest(n + d, b + 1)
<1>1. /\ top \in Nat /\ bottom \in Nat \ {0} /\ top2 \in Nat /\ bottom2 \in Nat \ {0}
  <2>1. d \in Nat
    BY DEF Gain
  <2> QED
    BY <2>1
<1>2. q = top \div bottom /\ r = top2 \div bottom2
  BY Zenon DEF Nearest
<1>3. q \in Likelihood /\ r \in Likelihood
  BY Zenon
<1> HIDE DEF q, r, top, bottom, top2, bottom2
<1>4. /\ bottom * q <= top /\ top < bottom * q + bottom
      /\ bottom2 * r <= top2 /\ top2 < bottom2 * r + bottom2
  BY <1>1, <1>2, Quotient
<1>5. q \in Nat /\ r \in Nat /\ q <= 10000 /\ r <= 10000
  BY <1>3 DEF Likelihood
<1> DEFINE bq == b * q
           br == b * r
<1>6. /\ bq \in Nat /\ br \in Nat
      /\ bottom * q = 2 * bq /\ bottom2 * r = 2 * br + 2 * r
      /\ r >= q + 771 => br >= bq + 771 * b
      /\ q >= r + 771 => bq >= br + 771 * b
  <2>1. q \in Nat /\ r \in Nat
    BY <1>5
  <2> QED
    BY <2>1, Scaled DEF bottom, bottom2
<1>7. /\ 2 * bq <= top /\ top < 2 * bq + bottom
      /\ 2 * br + 2 * r <= top2 /\ top2 < 2 * br + 2 * r + bottom2
  BY <1>4, <1>6
<1>8. d \in {0, 10000}
  BY DEF Gain
<1> HIDE DEF bq, br
<1>9. r <= q + 770 /\ q <= r + 770
  BY <1>5, <1>6, <1>7, <1>8 DEF top, bottom, top2, bottom2
<1>10. Apart(q, r)
  BY <1>9 DEF Apart
<1> QED
  BY <1>10, Zenon DEF q, r

\* Of one more sample, at most one more recovered.
Gained(samples) == {s \in samples : s.recovered}

LEMMA OneMoreWon ==
  ASSUME NEW S, NEW T, IsFiniteSet(S), IsFiniteSet(T), S \subseteq T,
         Cardinality(T) = Cardinality(S) + 1
  PROVE  /\ Cardinality(S) \in Nat /\ Cardinality(Gained(S)) \in 0..Cardinality(S)
         /\ \/ Cardinality(Gained(T)) = Cardinality(Gained(S))
            \/ Cardinality(Gained(T)) = Cardinality(Gained(S)) + 1
<1>1. Gained(S) \subseteq S /\ Gained(T) \subseteq T /\ Gained(S) \subseteq Gained(T)
      /\ Gained(T) \ Gained(S) \subseteq T \ S
      /\ T \cap S = S /\ Gained(T) \cap Gained(S) = Gained(S)
  BY Zenon DEF Gained
<1>2. /\ IsFiniteSet(Gained(S)) /\ IsFiniteSet(Gained(T))
      /\ Cardinality(Gained(S)) <= Cardinality(S)
      /\ Cardinality(S) \in Nat /\ Cardinality(Gained(S)) \in Nat /\ Cardinality(Gained(T)) \in Nat
  BY <1>1, FS_Subset, FS_CardinalityType
<1>3. /\ IsFiniteSet(T \ S) /\ Cardinality(T \ S) = Cardinality(T) - Cardinality(S)
      /\ Cardinality(Gained(T) \ Gained(S)) = Cardinality(Gained(T)) - Cardinality(Gained(S))
  BY <1>1, <1>2, FS_Difference
<1>4. /\ Cardinality(Gained(T) \ Gained(S)) <= Cardinality(T \ S)
      /\ Cardinality(Gained(T) \ Gained(S)) \in Nat
  BY <1>1, <1>3, FS_Subset, FS_CardinalityType
<1> DEFINE s == Cardinality(S)
           u == Cardinality(Gained(S))
           v == Cardinality(Gained(T))
           more == Cardinality(Gained(T) \ Gained(S))
<1>5. s \in Nat /\ u \in Nat /\ v \in Nat /\ more \in Nat /\ u <= s
      /\ more = v - u /\ more <= (s + 1) - s
  BY <1>2, <1>3, <1>4
<1> HIDE DEF s, u, v, more
<1>6. s \in Nat /\ u \in 0..s /\ (v = u \/ v = u + 1)
  BY <1>5
<1> QED
  BY <1>6 DEF s, u, v

\* In every state the samples are finite and the scores are probabilities.
Scoring == \A c \in Opened, t \in ActionType :
  IsFiniteSet(Evidence(c, t)) /\ Learned(c, t) \in Likelihood

LEMMA ScoringHolds == Tables /\ FiniteTables => Scoring
  BY EvidenceFinite, LearnedTyped DEF Scoring, Opened

\* The views see an undisturbed case as it was opened.
Rebuilt == \A c \in Opened : ~Disturbed(c) =>
  /\ AsDetected(c).reason = At(c).reason /\ AsDetected(c).attempts = At(c).attempts
  /\ AsDetected(c).failed = {} /\ AsDetected(c).succeeded = {}
  /\ AsDetected(c).who = At(c).who

LEMMA RebuiltHolds == Tables /\ HistoryInv => Rebuilt
  BY OpeningRecovered, DetectedFields DEF Rebuilt

\* A run leaves the prior of every undisturbed case as it was.
LEMMA PriorKept ==
  ASSUME Tables, HistoryInv, Tables', HistoryInv', opened' = opened,
         NEW c \in Opened, c \in Opened', ~Disturbed(c), NEW t
  PROVE  Probability(AsDetected(c), t)' = Probability(AsDetected(c), t)
<1> DEFINE x == AsDetected(c)
<1>1. Rebuilt /\ Rebuilt'
  BY RebuiltHolds, PTL
<1>2. Disturbed(c)' = Disturbed(c) /\ At(c)' = At(c)
  BY DEF Disturbed, At
<1>3. /\ x.reason = At(c).reason /\ x.attempts = At(c).attempts
      /\ x.failed = {} /\ x.succeeded = {} /\ x.who = At(c).who
      /\ x'.reason = At(c).reason /\ x'.attempts = At(c).attempts
      /\ x'.failed = {} /\ x'.succeeded = {} /\ x'.who = At(c).who
  BY <1>1, <1>2 DEF Rebuilt
<1> HIDE DEF x
<1>4. ASSUME NEW y, NEW z, y.reason = z.reason, y.attempts = z.attempts, y.failed = z.failed,
             y.succeeded = z.succeeded, y.who = z.who
      PROVE  Probability(y, t) = Probability(z, t)
  <2>1. HistoryFactor(y, t) = HistoryFactor(z, t)
    BY <1>4 DEF HistoryFactor
  <2> QED
    BY <1>4, <2>1 DEF Probability
<1>5. Probability(x', t) = Probability(x, t)
  BY <1>3, <1>4
<1> QED
  BY <1>5 DEF x

\* The scorer's probability, and the learned one when k of n samples recovered.
Prior == 20..970
Posterior(k, n, p) == Nearest(k * 10000 + PriorStrength * 10 * p, n + PriorStrength)

LEMMA PosteriorMoves ==
  ASSUME NEW k, NEW l, NEW m, NEW p, m \in Nat \ {0}, k \in 0..m, l = k \/ l = k + 1,
         p \in Prior,
         Posterior(k, m, p) \in Likelihood, Posterior(l, m + 1, p) \in Likelihood
  PROVE  Apart(Posterior(k, m, p), Posterior(l, m + 1, p))
<1> DEFINE n == k * 10000 + PriorStrength * 10 * p
           b == m + PriorStrength
           d == (l - k) * 10000
           n2 == l * 10000 + PriorStrength * 10 * p
           b2 == (m + 1) + PriorStrength
<1>1. n \in Nat /\ b \in Nat /\ b >= 13 /\ d \in Gain
  BY DEF PriorStrength, Gain, Prior
<1>2. n2 = n + d /\ b2 = b + 1
  BY DEF PriorStrength, Prior
<1>3. Posterior(k, m, p) = Nearest(n, b) /\ Posterior(l, m + 1, p) = Nearest(n2, b2)
  BY DEF Posterior
<1> HIDE DEF n, b, d, n2, b2
<1>4. Posterior(l, m + 1, p) = Nearest(n + d, b + 1)
  BY <1>2, <1>3, Zenon
<1>5. Nearest(n, b) \in Likelihood /\ Nearest(n + d, b + 1) \in Likelihood
  BY <1>3, <1>4, Zenon
<1>6. Apart(Nearest(n, b), Nearest(n + d, b + 1))
  BY <1>1, <1>5, NearestMoves, Zenon
<1> QED
  BY <1>3, <1>4, <1>6, Zenon

LEMMA LearnedMoves ==
  ASSUME NEW seen, NEW after, IsFiniteSet(seen), IsFiniteSet(after), seen # {},
         seen \subseteq after, Cardinality(after) = Cardinality(seen) + 1,
         NEW p, p \in Prior, NEW before, NEW now,
         before \in Likelihood, now \in Likelihood,
         before = Posterior(Cardinality(Gained(seen)), Cardinality(seen), p),
         now = Posterior(Cardinality(Gained(after)), Cardinality(after), p)
  PROVE  Apart(before, now)
<1> DEFINE k == Cardinality(Gained(seen))
           l == Cardinality(Gained(after))
           m == Cardinality(seen)
<1>1. /\ m \in Nat /\ k \in 0..m /\ (l = k \/ l = k + 1)
  BY OneMoreWon
<1>2. m # 0
  BY FS_EmptySet
<1>3. before = Posterior(k, m, p) /\ now = Posterior(l, m + 1, p)
  BY Zenon
<1> HIDE DEF k, l, m
<1>4. m \in Nat \ {0}
  BY <1>1, <1>2
<1>5. Posterior(k, m, p) \in Likelihood /\ Posterior(l, m + 1, p) \in Likelihood
  BY <1>3, Zenon
<1>6. Apart(Posterior(k, m, p), Posterior(l, m + 1, p))
  BY <1>1, <1>4, <1>5, PosteriorMoves, Zenon
<1> QED
  BY <1>3, <1>6, Zenon

\* A run that adds one sample to the cohort behind a score moves the score little.
LEMMA ScoreMoves ==
  ASSUME Tables, Tables', FiniteTables, FiniteTables', HistoryInv, HistoryInv',
         opened' = opened, NEW c \in Opened, c \in Opened', ~Disturbed(c),
         NEW t \in ActionType,
         Evidence(c, t) # {}, Evidence(c, t) \subseteq Evidence(c, t)',
         Cardinality(Evidence(c, t)') = Cardinality(Evidence(c, t)) + 1
  PROVE  /\ Learned(c, t)' <= Learned(c, t) + 770
         /\ Learned(c, t) <= Learned(c, t)' + 770
<1> DEFINE seen == Evidence(c, t)
           after == Evidence(c, t)'
           p == Probability(AsDetected(c), t)
           before == Learned(c, t)
           now == Learned(c, t)'
<1>1. Scoring /\ Scoring'
  BY ScoringHolds, PTL
<1>2. /\ IsFiniteSet(seen) /\ IsFiniteSet(after)
      /\ before \in Likelihood /\ now \in Likelihood
  BY <1>1 DEF Scoring
<1>3. p \in Prior
  BY DetectedTyped, ProbabilityTyped DEF Prior
<1>4. p' = p
  BY PriorKept
<1>5. after # {}
  OBVIOUS
<1>6. before = IF seen = {} THEN 10 * p
               ELSE Posterior(Cardinality(Gained(seen)), Cardinality(seen), p)
  BY DEF Learned, Gained, Posterior
<1>7. now = IF after = {} THEN 10 * p'
            ELSE Posterior(Cardinality(Gained(after)), Cardinality(after), p')
  BY DEF Learned, Gained, Posterior
<1>8. /\ seen # {} /\ seen \subseteq after /\ Cardinality(after) = Cardinality(seen) + 1
  OBVIOUS
<1>9. /\ before = Posterior(Cardinality(Gained(seen)), Cardinality(seen), p)
      /\ now = Posterior(Cardinality(Gained(after)), Cardinality(after), p)
  <2> HIDE DEF seen, after, p, before, now
  <2> QED
    BY <1>4, <1>5, <1>6, <1>7, <1>8
<1>10. Apart(before, now)
  <2> HIDE DEF seen, after, p, before, now
  <2> QED
    BY <1>2, <1>3, <1>8, <1>9, LearnedMoves
<1> QED
  BY <1>10 DEF Apart

\* One more outcome in the cohort behind a score moves it by at most a thirteenth:
\* the prior counts for twelve observations (historical_learning.py and
\* recovery_intelligence.py), and the case is seen as it was opened.
THEOREM OneOutcomeMoves == PipelineSpec => OneOutcomeMovesLittle
<1>1. ASSUME Tables, Tables', FiniteTables, FiniteTables', HistoryInv, HistoryInv',
             [PipelineNext]_pipeline, VerifiedOutcomes' # VerifiedOutcomes,
             NEW c \in Opened, ~opened[c].disturbed,
             NEW t \in CandidatesByReason[ResolvedReason(c)] \ TerminalActions,
             Evidence(c, t) # {}, Evidence(c, t) \subseteq Evidence(c, t)',
             Cardinality(Evidence(c, t)') = Cardinality(Evidence(c, t)) + 1
      PROVE  /\ Learned(c, t)' <= Learned(c, t) + 770
             /\ Learned(c, t) <= Learned(c, t)' + 770
  <2>1. PICK d \in CaseId : DecidedRun(d)
    <3>1. ASSUME NEW p \in PaymentId, PaymentEvent(p) PROVE actions' = actions
      BY <1>1, <3>1, PayCases DEF PaymentEvent, Tables, Core
    <3>2. actions' # actions
      BY <1>1 DEF VerifiedOutcomes, OutcomesOf
    <3> QED
      BY <1>1, <3>1, <3>2 DEF PipelineNext, PipelineTick, Tick, AdvanceClock, pipeline, vars
  <2>2. opened' = opened
    BY <1>1, <2>1, RunWrites
  <2>3. c \in Opened'
    <3>1. [Next]_vars
      BY <1>1, PipelineStep DEF Tables, Core
    <3> QED
      BY <1>1, <3>1, MovedAmounts DEF Opened, Tables, Core
  <2>4. t \in ActionType
    <3>1. ResolvedReason(c) \in FailureReason
      BY <1>1, DetectedTyped, DetectedFields DEF Context
    <3> QED
      BY <1>1, <3>1 DEF CandidatesByReason, FailureReason, ActionType
  <2> QED
    BY <1>1, <2>2, <2>3, <2>4, ScoreMoves DEF Disturbed
<1>2. Tables /\ Tables' /\ FiniteTables /\ FiniteTables' /\ HistoryInv /\ HistoryInv'
      /\ [PipelineNext]_pipeline
      => [VerifiedOutcomes' # VerifiedOutcomes =>
            \A c \in Opened : ~opened[c].disturbed =>
            \A t \in CandidatesByReason[ResolvedReason(c)] \ TerminalActions :
              LET seen   == Evidence(c, t)
                  before == Learned(c, t)
              IN  /\ seen # {} /\ seen \subseteq Evidence(c, t)'
                  /\ Cardinality(Evidence(c, t)') = Cardinality(seen) + 1
                  => /\ Learned(c, t)' <= before + 770
                     /\ before <= Learned(c, t)' + 770]_pipeline
  BY <1>1
<1> QED
  BY <1>2, HistoryHolds, FiniteHolds, PTL DEF PipelineSpec, OneOutcomeMovesLittle
=============================================================================

-------------------------- MODULE RecoveryChannels --------------------------
(***************************************************************************)
(* What else moves a recovery case or writes its actions: the customer's   *)
(* portal (routes/recovery.py), the outbound call (voice_recovery.py),     *)
(* which records an action that nobody verifies, the autopilot that drives *)
(* a batch of cases (autopilot.py), and the operators who clear the queue  *)
(* or reset the demo (routes/demo.py, scenario_generator.py).  They work   *)
(* on the tables of RecoveryWorkflow next to the runs it describes.        *)
(*                                                                         *)
(* The autopilot holds a list of cases over many transactions: each of its *)
(* runs commits, and between two of them anybody else may act.             *)
(***************************************************************************)
EXTENDS RecoveryWorkflow

CONSTANTS Window,     \* the duplicate-call guard's five minutes
          CallsApart  \* bound: no calls before or after a batch of the autopilot's

ASSUME ChannelsAssumption == Window \in Nat /\ CallsApart \in BOOLEAN

VARIABLES createdAt,  \* created_at of each action
          batch       \* the autopilot's progress

tables    == <<payments, cases, actions, revenueEvents, createdAt>>
channels  == <<vars, createdAt, batch>>

\* left are the cases it is through with; upset those whose run raised, or whose
\* row was deleted, and perhaps seeded again, while they were in hand.
NoBatch == [todo |-> {}, left |-> {}, upset |-> {},
            current |-> None, runs |-> 0, step |-> "refresh"]

ChannelsInit ==
  /\ Init
  /\ createdAt = [a \in ActionId |-> 0]
  /\ batch = NoBatch

\* A new action carries the time of its creation.
Stamp == createdAt' = [a \in ActionId |->
           IF actions[a] = AbsentAction /\ actions'[a] # AbsentAction
             THEN clock ELSE createdAt[a]]

-----------------------------------------------------------------------------
(* The customer pays at the portal.                                        *)

\* Recent actions are told apart by their random ids when the virtual clock did
\* not move between them.
Latest(c) == {a \in ActionId : /\ actions[a].case = c
                               /\ \A b \in ActionId :
                                    actions[b].case = c => createdAt[b] <= createdAt[a]}

PortalPath == ToPolicyGate \o <<"APPROVED", "EXECUTING", "VERIFYING">>

\* Mutant: a scheduled case is set to RECOVERED as well.
PortalSettlesAnyCase(c) == cases' = [cases EXCEPT ![c].state = "RECOVERED"]

\* A failed case is walked to RECOVERED through the table; so would a scheduled
\* one be, but the table has no such way and the request is refused.  Any other
\* case is simply set.
PortalSettlesCase(c) ==
  IF cases[c].state \in {"FAILED", "SCHEDULED"}
    THEN Advance(c, PortalPath, "RECOVERED")
    ELSE cases' = [cases EXCEPT ![c].state = "RECOVERED"]

\* The outcome of the latest action is rewritten, or made by the verifier.
Credited(row) ==
  [row EXCEPT !.outcome = "RECOVERED", !.credit = payments[row.payment].amount,
              !.status = IF row.outcome = None THEN @ ELSE "EXECUTED"]

\* Mutant: revenue is reported by the verifier alone.
PortalReportsByVerifier(c, latest) ==
  revenueEvents' = [revenueEvents EXCEPT ![c] =
     @ + Cardinality({a \in latest : actions[a].outcome = None})]

\* The verifier reports the recovery and the portal always does.
PortalReports(c, latest) ==
  revenueEvents' = [revenueEvents EXCEPT ![c] =
     @ + 1 + Cardinality({a \in latest : actions[a].outcome = None})]

\* Mutant: the case is settled without recording the payment.
PortalCreditsUnpaid(c, latest) ==
  /\ cases[c] # AbsentCase
  /\ UNCHANGED payments
  /\ cases' = [cases EXCEPT ![c].state = IF @ = "SCHEDULED" THEN @ ELSE "RECOVERED"]
  /\ actions' = [a \in ActionId |-> IF a \in latest THEN Credited(actions[a]) ELSE actions[a]]
  /\ PortalReports(c, latest)
  /\ UNCHANGED <<clock, createdAt, batch>>

\* customer_complete_recovery, which may be called again and again.
PortalCompletes(c, latest) ==
  /\ cases[c] # AbsentCase
  /\ payments[cases[c].payment].attempts < AttemptCap
  /\ SettlePayment(cases[c].payment, TRUE)
  /\ PortalSettlesCase(c)
  /\ actions' = [a \in ActionId |-> IF a \in latest THEN Credited(actions[a]) ELSE actions[a]]
  /\ PortalReports(c, latest)
  /\ UNCHANGED <<clock, createdAt, batch>>

CustomerRecovers(c) ==
  \/ /\ Latest(c) = {}
     /\ PortalCompletes(c, {})
  \/ \E a \in Latest(c) : PortalCompletes(c, {a})

-----------------------------------------------------------------------------
(* The outbound call, as one transaction (CaseSessions has its statements). *)

Calls == {a \in ActionId : actions[a].type = "VOICE_CALL"}

ActiveCall(c) == \E a \in Calls : /\ actions[a].case = c /\ actions[a].status = "EXECUTED"
                                  /\ clock <= createdAt[a] + Window

\* A call that was placed counts as executed.
CallRow(c, success) ==
  [AbsentAction EXCEPT !.case = c, !.payment = cases[c].payment, !.type = "VOICE_CALL",
                       !.status = IF success THEN "EXECUTED" ELSE "FAILED",
                       !.executedAt = IF success THEN clock ELSE None]

\* trigger_voice_recovery; the case stays in its state.
VoiceCall(c, a, success) ==
  /\ CallsApart => batch = NoBatch
  /\ cases[c].state \notin {None, "RECOVERED", "ESCALATED"}
  /\ payments[cases[c].payment].status \notin Successful
  /\ payments[cases[c].payment].attempts <= MaxAutomaticRetries
  /\ ~ActiveCall(c)
  /\ Verdict(c, "VOICE_CALL") = "APPROVED"
  /\ actions[a] = AbsentAction
  /\ actions' = [actions EXCEPT ![a] = CallRow(c, success)]
  /\ Stamp
  /\ UNCHANGED <<payments, cases, clock, revenueEvents, batch>>

-----------------------------------------------------------------------------
(* The autopilot.                                                          *)

\* Mutant: the ceiling is one run too low for a case found waiting.
MaxThreeRuns == 3

MaxRunsPerCase == 8

PendingCases == {c \in CaseId : cases[c].state \notin TerminalStates \cup {None}}

\* run_batch: the pending cases, or the oldest of them up to a limit.
StartBatch(some) ==
  /\ CallsApart => Calls = {}
  /\ batch.todo = {} /\ batch.current = None
  /\ some # {} /\ some \subseteq PendingCases
  /\ batch' = [NoBatch EXCEPT !.todo = some]
  /\ UNCHANGED <<vars, createdAt>>

TakeCase(c) ==
  /\ batch.current = None
  /\ c \in batch.todo
  /\ batch' = [batch EXCEPT !.todo = @ \ {c}, !.current = c, !.runs = 0]
  /\ UNCHANGED <<vars, createdAt>>

Driving(c) == /\ batch.current = c /\ batch.step = "refresh"
              /\ batch.runs < MaxRunsPerCase
              /\ c \in PendingCases

AfterRun(state) == IF state = "SCHEDULED" THEN "advance"
                   ELSE IF state \in TerminalStates THEN "leave" ELSE "refresh"

\* One run of the workflow on the case, committed.
Drive(c) ==
  /\ Driving(c)
  /\ Run(c)
  /\ Stamp
  /\ batch' = [batch EXCEPT !.runs = @ + 1, !.step = AfterRun(cases'[c].state)]

\* The run finds its scheduled retry not yet due.
DriveWaits(c) ==
  /\ Driving(c)
  /\ cases[c].state = "SCHEDULED"
  /\ \A a \in Pending(c) : actions[a].due > clock
  /\ batch' = [batch EXCEPT !.runs = @ + 1, !.step = "advance"]
  /\ UNCHANGED <<vars, createdAt>>

AdvanceForRetry ==
  /\ batch.step = "advance"
  /\ AdvanceClock(Delay)
  /\ batch' = [batch EXCEPT !.step = "refresh"]
  /\ UNCHANGED createdAt

\* The run raises an error of the system's own: a stage failed and run() put the
\* case back, or another session has finished it.  The autopilot notes the error
\* and turns to the next case.
RunHalts(c) ==
  /\ Driving(c)
  /\ batch' = [batch EXCEPT !.current = None, !.runs = 0,
                            !.left = @ \cup {c}, !.upset = @ \cup {c}]
  /\ UNCHANGED <<vars, createdAt>>

\* A run has finished the case, a refresh has found it finished, or its runs are
\* spent.
LeaveCase(c) ==
  /\ batch.current = c /\ cases[c] # AbsentCase
  /\ batch.step = "leave" \/ (batch.step = "refresh" /\ ~Driving(c))
  /\ batch' = [batch EXCEPT !.current = None, !.runs = 0, !.step = "refresh",
                            !.left = @ \cup {c}]
  /\ UNCHANGED <<vars, createdAt>>

\* Any other error, first of all a refresh of a case that is gone, ends the batch.
BatchFails ==
  /\ batch.current # None /\ batch.step # "advance"
  /\ batch' = NoBatch
  /\ UNCHANGED <<vars, createdAt>>

Autopilot ==
  \/ \E some \in SUBSET CaseId : StartBatch(some)
  \/ \E c \in CaseId :
       TakeCase(c) \/ Drive(c) \/ DriveWaits(c) \/ RunHalts(c) \/ LeaveCase(c)
  \/ AdvanceForRetry
  \/ BatchFails

-----------------------------------------------------------------------------
(* Operators.  A batch in progress is not told: it fails when it next      *)
(* refreshes a case that is gone, and goes on with one that was seeded     *)
(* again under its id, the runs of the old row spent.                      *)

\* The rows of the cases the batch has left are gone, and that of the one in hand.
RowsDeleted ==
  batch' = [batch EXCEPT !.left = {}, !.upset = {batch.current} \ {None}]

\* Mutant: the actions of the deleted cases stay.
ClearCasesOnly ==
  /\ payments' = [p \in PaymentId |-> AbsentPayment]
  /\ cases' = [c \in CaseId |-> AbsentCase]
  /\ UNCHANGED <<actions, revenueEvents, createdAt, clock, batch>>

ClearCases ==
  /\ payments' = [p \in PaymentId |-> AbsentPayment]
  /\ cases' = [c \in CaseId |-> AbsentCase]
  /\ actions' = [a \in ActionId |-> AbsentAction]
  /\ revenueEvents' = [c \in CaseId |-> 0]
  /\ createdAt' = [a \in ActionId |-> 0]
  /\ RowsDeleted
  /\ UNCHANGED clock

\* The seeded payments: failed once, or for want of funds as often as the retry
\* budget allows.
Seeded(r, amt, n) ==
  [status |-> IF r = "CHECKOUT_ABANDONMENT" THEN "ABANDONED" ELSE "FAILED",
   reason |-> r, amount |-> amt, attempts |-> n]

SeedRows ==
  {Seeded(r, amt, 1) : r \in Reasons, amt \in Amounts} \cup
  {Seeded(r, amt, MaxAutomaticRetries) :
      r \in Reasons \cap {"INSUFFICIENT_FUNDS"}, amt \in Amounts}

\* reset_demo rebuilds the tables, resets the clock, and seeds each payment with
\* a case of its own, under ids that a reset gives every time.
ResetDemo(seed, home) ==
  /\ payments' = seed
  /\ \A p, q \in PaymentId : home[p] = home[q] => p = q
  /\ cases' = [c \in CaseId |->
       IF \E p \in PaymentId : home[p] = c
         THEN [state |-> "DETECTED", payment |-> CHOOSE p \in PaymentId : home[p] = c]
         ELSE AbsentCase]
  /\ actions' = [a \in ActionId |-> AbsentAction]
  /\ revenueEvents' = [c \in CaseId |-> 0]
  /\ createdAt' = [a \in ActionId |-> 0]
  /\ RowsDeleted
  /\ clock' = 0

Operators ==
  \/ ClearCases
  \/ \E seed \in [PaymentId -> SeedRows], home \in [PaymentId -> CaseId] :
       ResetDemo(seed, home)

-----------------------------------------------------------------------------
\* A case opened by a detection has a random id, never that of one in the batch.
FreshIds == \A c \in CaseId : /\ c \in batch.todo \cup {batch.current}
                              /\ cases[c] = AbsentCase
                              => cases'[c] = AbsentCase

\* The handlers of RecoveryWorkflow, at anybody's request.
Elsewhere == Next /\ Stamp /\ UNCHANGED batch /\ FreshIds

ChannelsNext ==
  \/ Elsewhere
  \/ \E c \in CaseId : CustomerRecovers(c)
  \/ \E c \in CaseId, a \in ActionId, success \in BOOLEAN : VoiceCall(c, a, success)
  \/ Autopilot
  \/ Operators

ChannelsSpec == ChannelsInit /\ [][ChannelsNext]_channels

-----------------------------------------------------------------------------
(* Properties.                                                             *)

ChannelsTypeOK ==
  /\ TypeOK
  /\ createdAt \in [ActionId -> Nat]
  /\ batch \in [todo : SUBSET CaseId, left : SUBSET CaseId, upset : SUBSET CaseId,
                current : CaseId \cup {None}, runs : 0..MaxRunsPerCase,
                step : {"refresh", "advance", "leave"}]

\* Every outcome that counts as recovered revenue has been reported in the case's
\* audit trail, whether the workflow or the portal recovered it.  (The converse
\* fails: the portal reports more often than it recovers.)
RevenueReported ==
  \A c \in CaseId :
    Cardinality({a \in ActionId : actions[a].case = c /\ actions[a].outcome = "RECOVERED"})
      <= revenueEvents[c]

ChangesRightly(c) ==
  cases'[c] # cases[c] /\ cases'[c] # AbsentCase =>
    \/ cases[c].state \notin TerminalStates /\ cases'[c].state # "RECOVERED"
    \/ cases'[c].state = "RECOVERED" /\ payments'[cases'[c].payment].status \in Successful
    \/ /\ cases'[c].state = "DETECTED" /\ clock' = 0
       /\ \A a \in ActionId : actions'[a] = AbsentAction

\* A case becomes RECOVERED only in a step that leaves its payment captured, and
\* a finished case changes in no other way, apart from being deleted and from the
\* demo's reset, which starts it over with a table of actions that is empty.
RecoveredOnlyWhenPaid == [][\A c \in CaseId : ChangesRightly(c)]_channels

\* The autopilot leaves a case behind unfinished only when a run raised, whoever
\* else acts on the case meanwhile: eight runs are enough, delayed retries included
\* ("Drive every pending case to a terminal state").  It says nothing of a case
\* whose row was replaced while the autopilot had it in hand, and does of one that
\* a reset seeded again before its turn.
AutopilotFinishesCases ==
  \A c \in batch.left \ batch.upset : cases[c].state \in TerminalStates
=============================================================================

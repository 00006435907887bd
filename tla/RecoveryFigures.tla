-------------------------- MODULE RecoveryFigures --------------------------
(***************************************************************************)
(* The figures of the dashboard (analytics_service.py), over everything    *)
(* that writes the rows they are summed over: the workflow, the portal,    *)
(* the voice calls, the autopilot and the operators of RecoveryChannels.   *)
(***************************************************************************)
EXTENDS RecoveryChannels, FiniteSetsExt

VARIABLE diagnosis  \* recovery_cases.diagnosis: the diagnosed reason

figures == <<channels, diagnosis>>

FiguresInit == ChannelsInit /\ diagnosis = [c \in CaseId |-> None]

\* A run that proposes an action stores the cause it has diagnosed with the case.
StoreDiagnosis ==
  diagnosis' = [c \in CaseId |->
    IF \E a \in ActionId : actions[a] = AbsentAction /\ actions'[a].case = c
      THEN Reason(cases[c].payment) ELSE diagnosis[c]]

FiguresNext ==
  \/ (Elsewhere \/ Autopilot) /\ StoreDiagnosis
  \/ (\E c \in CaseId : CustomerRecovers(c)) /\ UNCHANGED diagnosis
  \/ /\ \E c \in CaseId, a \in ActionId, success \in BOOLEAN : VoiceCall(c, a, success)
     /\ UNCHANGED diagnosis
  \/ Operators /\ diagnosis' = [c \in CaseId |-> None]

FiguresSpec == FiguresInit /\ [][FiguresNext]_figures

-----------------------------------------------------------------------------
(* AnalyticsService.                                                       *)

Opened == {c \in CaseId : cases[c] # AbsentCase}
Selected == {a \in ActionId : actions[a] # AbsentAction}
InState(s) == {c \in Opened : cases[c].state = s}
OutcomesOf(kind) == {a \in ActionId : actions[a].outcome = kind}
Recoveries == OutcomesOf("RECOVERED")

\* recovery_cases.amount_at_risk is copied from the payment, whose amount stays.
AtRisk(c) == payments[cases[c].payment].amount
Credit(a) == actions[a].credit

Revenue ==
  [atRisk    |-> SumFunction([c \in Opened |-> AtRisk(c)]),
   recovered |-> SumFunction([a \in Recoveries |-> Credit(a)]),
   casesRecovered |-> Cardinality(InState("RECOVERED"))]

\* _resolve_failure_reason: the diagnosis, then the payment, then UNKNOWN.
ResolvedReason(c) == IF diagnosis[c] # None THEN diagnosis[c]
                                            ELSE Reason(cases[c].payment)

WonBy(c) == {a \in Recoveries : actions[a].case = c}

CreditOf(c) == SumFunction([a \in WonBy(c) |-> Credit(a)])

\* Mutant: the row of a case is lost when its payment's reason has been cleared.
ByPaymentReason(r) ==
  LET mine == {c \in Opened : payments[cases[c].payment].reason = r}
  IN  [cases |-> Cardinality(mine), atRisk |-> SumFunction([c \in mine |-> AtRisk(c)]),
       recovered |-> SumFunction([c \in mine |-> CreditOf(c)]),
       recoveredCases |-> Cardinality({c \in mine : CreditOf(c) > 0})]

ByFailureReason(r) ==
  LET mine == {c \in Opened : ResolvedReason(c) = r}
  IN  [cases |-> Cardinality(mine), atRisk |-> SumFunction([c \in mine |-> AtRisk(c)]),
       recovered |-> SumFunction([c \in mine |-> CreditOf(c)]),
       recoveredCases |-> Cardinality({c \in mine : CreditOf(c) > 0})]

ByAction(t) ==
  LET mine == {a \in Selected : actions[a].type = t}
  IN  [selected  |-> Cardinality(mine),
       executed  |-> Cardinality({a \in mine : actions[a].executedAt # None}),
       successes |-> Cardinality(mine \cap Recoveries),
       failures  |-> Cardinality(mine \cap OutcomesOf("UNRECOVERED")),
       recovered |-> SumFunction([a \in mine \cap Recoveries |-> Credit(a)])]

-----------------------------------------------------------------------------
(* Properties.                                                             *)

\* Placed calls that nobody has verified: a call is not a recovery.
Ringing == {a \in Calls : actions[a].executedAt # None /\ actions[a].outcome = None}

\* Actions never carried out, but credited with what the customer paid at the portal.
PaidInstead == {a \in Recoveries : /\ actions[a].executedAt = None
                                   /\ cases[actions[a].case].state = "RECOVERED"}

\* Cases recovered at the portal before anything was proposed for them.
NeverProposed == {c \in InState("RECOVERED") : \A a \in ActionId : actions[a].case # c}

\* The figures of the dashboard agree with each other in every state, whoever wrote
\* the rows.  Each breakdown adds up to the totals.  The cases that are RECOVERED are
\* those credited with revenue and those the customer paid for before any action was
\* proposed, and no others.  An action of each type is executed exactly when its outcome
\* was verified, but for calls that ring unverified and actions the portal is credited
\* to.  No more is recovered than was ever at risk, while no case has two recovered
\* outcomes: a payment at the portal for a case that is recovered already may give it
\* a second one.
FiguresAgree ==
  LET Reasonwise(field) == SumFunction([r \in FailureReason |-> ByFailureReason(r)[field]])
      Actionwise(field) == SumFunction([t \in ActionType |-> ByAction(t)[field]])
      OfType(t, S) == Cardinality({a \in S : actions[a].type = t})
  IN  /\ Reasonwise("cases") = Cardinality(Opened)
      /\ Reasonwise("atRisk") = Revenue.atRisk
      /\ Reasonwise("recovered") = Revenue.recovered
      /\ Revenue.casesRecovered = Reasonwise("recoveredCases") + Cardinality(NeverProposed)
      /\ Actionwise("selected") = Cardinality(Selected)
      /\ Actionwise("recovered") = Revenue.recovered
      /\ \A t \in ActionType :
           ByAction(t).executed + OfType(t, PaidInstead)
             = ByAction(t).successes + ByAction(t).failures + OfType(t, Ringing)
      /\ (\A c \in Opened : Cardinality(WonBy(c)) <= 1) => Revenue.recovered <= Revenue.atRisk
=============================================================================

-------------------------- MODULE RecoveryInsights --------------------------
(***************************************************************************)
(* The views that advise on a recovery portfolio: the strategy lab and its *)
(* benchmark (strategy_lab.py), and the learned scores and history         *)
(* summaries (recovery_intelligence.py, historical_learning.py).  A view   *)
(* is an operator on the tables of DecisionPipeline, and its properties    *)
(* relate what it reports to what happened, or to what it reported before. *)
(*                                                                         *)
(* DecisionPipeline has the workflow's own steps and the payments' events. *)
(* The portal and the voice calls, which write the same rows, are not in   *)
(* it: RecoveryFigures has them, under the analytics figures.              *)
(***************************************************************************)
EXTENDS DecisionPipeline, FiniteSetsExt

CONSTANTS OutcomeWindow,  \* MAX_VERIFIED_OUTCOMES, max_outcomes
          Overrides       \* ScenarioOverrides the lab may be asked about

\* What HistoricalRecoveryLearning and ScenarioOverridesRequest enforce; keys that
\* name no action are never read.
ASSUME InsightsAssumption ==
  /\ OutcomeWindow \in Nat \ {0}
  /\ \A o \in Overrides :
       /\ {o.retries, o.failures, o.threshold} \subseteq Nat
       /\ \A asked \in {o.costs, o.frictions} :
            /\ DOMAIN asked \subseteq ActionType
            /\ \A t \in DOMAIN asked : asked[t] \in Nat

Opened == {c \in CaseId : cases[c] # AbsentCase}

AtRisk(c) == opened[c].at.amount
Selected == {a \in ActionId : actions[a] # AbsentAction}

\* _resolve_failure_reason: the diagnosis, then the payment, then UNKNOWN.
ResolvedReason(c) == IF diagnosis[c] # None THEN diagnosis[c]
                                            ELSE Reason(cases[c].payment)

-----------------------------------------------------------------------------
(* The context as it stood at detection, rebuilt from what is persisted.   *)

\* Mutant: the attempts made since are not taken off.
AsDetectedLive(c) ==
  [ContextOf(cases[c].payment) EXCEPT !.amount = AtRisk(c), !.status = "FAILED",
     !.reason = ResolvedReason(c), !.failures = 0, !.failed = {}, !.succeeded = {}]

AttemptsAtDetection(c) ==
  LET executed == {a \in ActionId : actions[a].case = c /\ actions[a].executedAt # None}
      before   == payments[cases[c].payment].attempts - Cardinality(executed)
  IN  IF before > 1 THEN before ELSE 1

AsDetected(c) ==
  [ContextOf(cases[c].payment) EXCEPT !.amount = AtRisk(c), !.status = "FAILED",
     !.reason = ResolvedReason(c), !.attempts = AttemptsAtDetection(c),
     !.failures = 0, !.failed = {}, !.succeeded = {}]

-----------------------------------------------------------------------------
(* The strategy lab.                                                       *)

ComparableActions == {"RETRY_NOW", "RETRY_LATER", "SEND_PAYMENT_LINK",
                      "SEND_REMINDER", "CHANGE_PAYMENT_METHOD", "ESCALATE_HUMAN"}

\* The components under the settings that an override produces.
With(o) == INSTANCE Valuation WITH
  MaxAutomaticRetries <- o.retries, RepeatedFailureLimit <- o.failures,
  HighValueThreshold <- o.threshold, CostOverrides <- Overriding(o.costs, CostOverrides),
  FrictionOverrides <- Overriding(o.frictions, FrictionOverrides)

\* Mutant: a limit of nought reads as "no limit asked for" (x or default).
EligibleTruthy(o, x) ==
  LET used == IF o.failures = 0 THEN [o EXCEPT !.failures = RepeatedFailureLimit] ELSE o
  IN  {t \in ComparableActions : With(used)!Evaluate(Proposed(x, t)).outcome = "APPROVED"}

Eligible(o, x) == {t \in ComparableActions :
                     With(o)!Evaluate(Proposed(x, t)).outcome = "APPROVED"}

\* The lab's recommendation: what the best eligible action is worth, nothing
\* being worth anything when none is.
BestValue(o, x) ==
  LET eligible == Eligible(o, x)
  IN  IF eligible = {} THEN 0 ELSE Max({With(o)!Erv(x, t) : t \in eligible})

\* The benchmark's arms, and what becomes of the choice t of an arm for case c
\* seen as x.
RetryAlways == "RETRY_NOW"
ByValue(x) == Decide(x, Diagnosis(x.reason), Candidates(x.reason, x.failed))

Projection(t, c, x) ==
  LET verdict == Evaluate(Proposed(x, t)).outcome
      ok      == verdict = "APPROVED"
  IN  [action |-> t, verdict |-> verdict, value |-> IF ok THEN Erv(x, t) ELSE 0,
       recovers |-> /\ ok
                    /\ WouldSucceed(x.reason, t, cases[c].payment, x.attempts + 1)]

-----------------------------------------------------------------------------
(* Learning from outcomes.                                                 *)

Band(who) == CASE ~who.known -> "NO_HISTORY"
               [] who.known /\ who.rate >= 8 -> "RELIABLE"
               [] who.known /\ who.rate \in 5..7 -> "MIXED"
               [] OTHER -> "FRAGILE"
Segment(who) == <<who.subscription, Band(who)>>
CustomerFor(c) == ProfileOf[CustomerOf[cases[c].payment]]

\* The most recently verified outcomes among S, as many as the window holds.
Recent(S) ==
  LET Later(b, a) == \/ actions[b].executedAt > actions[a].executedAt
                     \/ /\ actions[b].executedAt = actions[a].executedAt
                        /\ b > a
  IN  {a \in S : Cardinality({b \in S : Later(b, a)}) < OutcomeWindow}

VerifiedOutcomes == OutcomesOf("RECOVERED") \cup OutcomesOf("UNRECOVERED")

\* A sample keeps its origin, so that equal observations count separately.
VerifiedSamples ==
  {[from |-> <<a>>, action |-> actions[a].type,
    reason |-> diagnosis[actions[a].case],
    segment |-> Segment(CustomerFor(actions[a].case)),
    recovered |-> actions[a].outcome = "RECOVERED"] : a \in Recent(VerifiedOutcomes)}

\* What the simulator would do for every candidate of every other case.
SyntheticSamples(without) ==
  UNION {LET x == AsDetected(c)
         IN  {[from |-> <<c, t>>, action |-> t, reason |-> x.reason,
               segment |-> Segment(x.who),
               recovered |-> WouldSucceed(x.reason, t, cases[c].payment, x.attempts + 1)]
                : t \in Candidates(x.reason, {}) \ TerminalActions}
         : c \in Opened \ {without}}

\* _matching_samples: the closest cohort that has any.
Matching(samples, x, t) ==
  LET byAction == {s \in samples : s.action = t}
      byReason == {s \in byAction : s.reason = x.reason}
      exact    == {s \in byReason : s.segment = Segment(x.who)}
  IN  IF exact # {} THEN exact ELSE IF byReason # {} THEN byReason ELSE byAction

PriorStrength == 12

Evidence(c, t) == Matching(SyntheticSamples(c) \cup VerifiedSamples, AsDetected(c), t)
\* Mutant: the observed rate replaces the prior.
ObservedRate(c, t) ==
  LET seen == Evidence(c, t)
      won  == {s \in seen : s.recovered}
  IN  IF seen = {} THEN 10 * Probability(AsDetected(c), t)
      ELSE Nearest(Cardinality(won) * 10000, Cardinality(seen))

\* The learned probability, to four decimals: the scorer's is the prior, and
\* stays where nothing comparable was seen.
Learned(c, t) ==
  LET seen  == Evidence(c, t)
      won   == {s \in seen : s.recovered}
      prior == PriorStrength * 10 * Probability(AsDetected(c), t)
  IN  IF seen = {} THEN 10 * Probability(AsDetected(c), t)
      ELSE Nearest(Cardinality(won) * 10000 + prior, Cardinality(seen) + PriorStrength)

\* RecoveryIntelligenceService: every candidate of the case as it was detected,
\* with its learned probability ...
Scored(c) == {[action |-> t, probability |-> Learned(c, t)] :
                t \in Candidates(AsDetected(c).reason, {})}

\* ... and what the advised one is worth under the settings asked for: the first
\* in the ranking of those that policy approves there.
AdvisedValue(o, x, scored) ==
  LET eligible == {s \in scored :
                     With(o)!Evaluate(Proposed(x, s.action)).outcome = "APPROVED"}
      worth(s) == With(o)!Value(x.amount, s.probability, 10000, s.action)
      key(s)   == <<-worth(s), -s.probability, With(o)!InterventionCost(s.action),
                    DeclarationOrder[s.action]>>
  IN  IF eligible = {} THEN 0
      ELSE worth(CHOOSE s \in eligible :
                   \A other \in eligible \ {s} : Precedes(key(s), key(other)))

\* Mutant: the case's own outcomes are part of its history.
InsightWithOwn(without, t, r, sub) ==
  LET rows == {a \in Recent({b \in VerifiedOutcomes : actions[b].type = t}) :
                 /\ diagnosis[actions[a].case] = r
                 /\ CustomerFor(actions[a].case).subscription = sub}
  IN  [samples |-> Cardinality(rows),
       successes |-> Cardinality(rows \cap OutcomesOf("RECOVERED"))]

\* HistoricalRecoveryLearning.insight: the window is taken first, the excluded
\* case is skipped in it.
Insight(without, t, r, sub) ==
  LET rows == {a \in Recent({b \in VerifiedOutcomes : actions[b].type = t}) :
                 /\ actions[a].case # without
                 /\ diagnosis[actions[a].case] = r
                 /\ CustomerFor(actions[a].case).subscription = sub}
  IN  [samples |-> Cardinality(rows),
       successes |-> Cardinality(rows \cap OutcomesOf("RECOVERED"))]

-----------------------------------------------------------------------------
(* Properties.                                                             *)

\* As long as a case's payment does not fail again from outside, the benchmark
\* sees the case as it stood when it was opened, whatever the workflow has done
\* to it since: same amount, cause and attempts, and, for the first case of a
\* payment, the very choice, verdict, value and result that both arms had before
\* them then (the regression that test_baseline_survives_a_completed_batch
\* guards).  It is the workflow's own steps that the benchmark undoes: a payment
\* at the portal, which counts an attempt, and a call, which counts as executed
\* without one, shift the attempts that it reads.
BenchmarkStable ==
  \A c \in Opened : ~opened[c].disturbed =>
    LET then == [opened[c].at EXCEPT !.succeeded = {}, !.status = "FAILED"]
        now  == AsDetected(c)
    IN  /\ <<now.amount, now.reason, now.attempts>>
             = <<then.amount, then.reason, then.attempts>>
        /\ opened[c].first =>
             /\ Projection(ByValue(now), c, now) = Projection(ByValue(then), c, then)
             /\ Projection(RetryAlways, c, now) = Projection(RetryAlways, c, then)

\* What is projected comes true: whichever action the workflow chose first for the
\* first case of an undisturbed payment, policy said of it what the projection
\* says, and once it has been carried out it recovered the payment exactly if the
\* projection says so.  Benchmark, lab, counterfactual and synthetic samples all
\* rest on this projection.
ProjectionComesTrue ==
  \A c \in Opened, a \in Selected :
    /\ actions[a].case = c /\ \A b \in Selected : actions[b].case = c => a <= b
    /\ opened[c].first /\ ~opened[c].disturbed
    => LET told == Projection(actions[a].type, c, AsDetected(c))
       IN  /\ actions[a].status \in {"BLOCKED", "ESCALATED"}
                => told.verdict = actions[a].status
           /\ actions[a].executedAt # None
                => told.recovers = (actions[a].outcome = "RECOVERED")

\* Asking "what if the limits were looser, or the actions cheaper?" never takes
\* a permitted action away or lowers what the recommended or the advised one is
\* worth, for any case in any state: three rules read the limits, the first that
\* objects decides, and the cost is a term of the value and a key of the ranking.
LooserLimitsHelp ==
  \A c \in Opened :
    LET x    == ContextOf(cases[c].payment)
        then == AsDetected(c)
        scored == Scored(c)
        asks == {[asked |-> o, permitted |-> Eligible(o, x), worth |-> BestValue(o, x),
                  advised |-> AdvisedValue(o, then, scored)] : o \in Overrides}
    IN  \A m, n \in asks :
          LET o == m.asked  w == n.asked
          IN  /\ o.retries <= w.retries /\ o.failures <= w.failures
              /\ o.threshold <= w.threshold
              /\ \A t \in ActionType : With(w)!InterventionCost(t) <= With(o)!InterventionCost(t)
              /\ o.frictions = w.frictions
              => /\ m.permitted \subseteq n.permitted
                 /\ m.permitted # {} => m.worth <= n.worth
                 /\ m.advised <= n.advised \/ m.advised = 0

\* One more outcome in the cohort a score is learned from moves the score by at
\* most a thirteenth ("preventing a single new outcome from changing the model
\* materially").  An outcome that opens a closer cohort is not covered: there
\* the score may jump.  Nor is a case whose payment has failed again from outside:
\* the attempts of a later case of the payment lower its prior as well.
OneOutcomeMovesLittle ==
  [][VerifiedOutcomes' # VerifiedOutcomes =>
       \A c \in Opened : ~opened[c].disturbed =>
       \A t \in CandidatesByReason[ResolvedReason(c)] \ TerminalActions :
         LET seen   == Evidence(c, t)
             before == Learned(c, t)
         IN  /\ seen # {} /\ seen \subseteq Evidence(c, t)'
             /\ Cardinality(Evidence(c, t)') = Cardinality(seen) + 1
             => /\ Learned(c, t)' <= before + 770
                /\ before <= Learned(c, t)' + 770]_pipeline

\* What a case is told about the history of its cohort never contains its own
\* outcomes: a run of the case changes nothing in it, until the window is full
\* and the case's rows push others out ("a payment can never contribute its own
\* label to a prediction or explanation").
OwnOutcomeUnseen ==
  [][VerifiedOutcomes' # VerifiedOutcomes =>
       \A c \in Opened :
         (\A a \in VerifiedOutcomes' \ VerifiedOutcomes : actions'[a].case = c) =>
           \A t \in ActionType, r \in FailureReason, sub \in SubscriptionStatus :
             Cardinality({a \in VerifiedOutcomes : actions[a].type = t}) < OutcomeWindow
               => Insight(c, t, r, sub)' = Insight(c, t, r, sub)]_pipeline
=============================================================================

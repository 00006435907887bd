----------------------------- MODULE Valuation -----------------------------
(***************************************************************************)
(* What a recovery action is worth: the diagnosis table                    *)
(* (diagnosis_engine.py, ai_diagnosis.py), the deterministic scorer with   *)
(* its tables (deterministic_scorer.py, scoring_tables.py), the expected   *)
(* recovery value (expected_value.py) and the ranking by it                *)
(* (decision_engine.py).  Constant-level: a context x is a record          *)
(*   [amount, reason, status, attempts, failures, failed, succeeded, who]  *)
(* where failed and succeeded are sets of action types and who is the      *)
(* customer's profile [rate, subscription, known].                         *)
(*                                                                         *)
(* Money is in minor units, a rate in tenths, a probability in thousandths *)
(* and a confidence in hundredths: the code rounds to exactly these, and a *)
(* tie in the last digit, which it leaves to binary floating point, is     *)
(* rounded up here.                                                        *)
(***************************************************************************)
EXTENDS PolicyEngine, Integers

CONSTANTS CostOverrides,      \* settings.intervention_cost_minor
          FrictionOverrides   \* settings.friction_penalty_minor

\* The settings may name any of the actions; the others keep their default.
ASSUME EconomicsAssumption ==
  \A overrides \in {CostOverrides, FrictionOverrides} :
    /\ DOMAIN overrides \subseteq ActionType
    /\ \A t \in DOMAIN overrides : overrides[t] \in Nat

SubscriptionStatus == {"NONE", "ACTIVE", "PAST_DUE", "CANCELLED"}
\* A missing customer row (CustomerSnapshot.unavailable) reads as the neutral
\* defaults [rate |-> 5, subscription |-> "NONE", known |-> FALSE].
Profile == [rate : 0..10, subscription : SubscriptionStatus, known : BOOLEAN]
Subscriber(who) == who.subscription \in {"ACTIVE", "PAST_DUE"}

\* Division rounded to the nearest integer.
Nearest(n, d) == (2 * n + d) \div (2 * d)

-----------------------------------------------------------------------------
(* Diagnosis.                                                              *)

Category(r) ==
  CASE r \in {"BANK_TIMEOUT", "NETWORK_ERROR"} -> "TRANSIENT"
    [] r = "EXPIRED_CARD" -> "CUSTOMER_ACTION"
    [] r = "INSUFFICIENT_FUNDS" -> "TIME_DEPENDENT"
    [] r \in {"CHECKOUT_ABANDONMENT", "SUBSCRIPTION_FAILURE"} -> "ENGAGEMENT"
    [] r = "UNKNOWN" -> "UNKNOWN"

Diagnosis(r) ==
  [reason |-> r, category |-> Category(r), requiresEscalation |-> r = "UNKNOWN",
   transient |-> r \in {"BANK_TIMEOUT", "NETWORK_ERROR", "INSUFFICIENT_FUNDS",
                        "SUBSCRIPTION_FAILURE"}]

PermitsHumanHandling(d) == d.category # "UNKNOWN" \/ d.requiresEscalation

\* What a diagnosis provider may answer: a root cause, or nothing usable.
Answer == FailureReason \cup {"INVALID"}

\* Mutant: the provider's root cause is believed.
DiagnoseAsTold(x, answer) ==
  IF answer = "INVALID" THEN Diagnosis(x.reason) ELSE Diagnosis(answer)

\* AIDiagnosisEngine.diagnose: an answer that does not validate, or disagrees
\* with the recorded reason, is dropped; one that agrees enriches the wording.
Diagnose(x, answer) == Diagnosis(x.reason)

-----------------------------------------------------------------------------
(* The scorer.                                                             *)

\* Baseline recovery rates in hundredths, per reason and action.
BaseRates ==
  LET Row(now, later, link, method, reminder, human) ==
        [RETRY_NOW |-> now, RETRY_LATER |-> later, SEND_PAYMENT_LINK |-> link,
         CHANGE_PAYMENT_METHOD |-> method, SEND_REMINDER |-> reminder,
         ESCALATE_HUMAN |-> human, STOP |-> 0]
  IN  [BANK_TIMEOUT         |-> Row(35, 78, 55, 45, 25, 30),
       NETWORK_ERROR        |-> Row(55, 70, 48, 40, 22, 30),
       INSUFFICIENT_FUNDS   |-> Row(12, 45, 40, 38, 35, 28),
       EXPIRED_CARD         |-> Row(5, 5, 58, 72, 30, 30),
       CHECKOUT_ABANDONMENT |-> Row(8, 10, 42, 15, 30, 20),
       SUBSCRIPTION_FAILURE |-> Row(25, 60, 48, 42, 35, 28),
       UNKNOWN              |-> Row(10, 12, 18, 15, 12, 25)]

FallbackBaseRate == 20
BaseRate(r, t) == IF t \in DOMAIN BaseRates[r] THEN BaseRates[r][t]
                                               ELSE FallbackBaseRate

\* A failure on this payment outweighs a success elsewhere (in twentieths).
HistoryFactor(x, t) == CASE t \in x.failed -> 12
                         [] t \in x.succeeded \ x.failed -> 23
                         [] OTHER -> 20

\* 0.75^n as a fraction: each attempt leaves three quarters.
AttemptDecay[n \in Nat] ==
  IF n = 0 THEN [num |-> 1, den |-> 1]
  ELSE LET before == AttemptDecay[n - 1]
       IN  [num |-> 3 * before.num, den |-> 4 * before.den]

Clamp(n, low, high) == IF n < low THEN low ELSE IF n > high THEN high ELSE n

\* base * decay * (0.70 + 0.60 rate) * 1.05 * history, to three decimals.
Probability(x, t) ==
  LET weight == BaseRate(x.reason, t) * (35 + 3 * x.who.rate)
                  * (IF Subscriber(x.who) THEN 21 ELSE 20) * HistoryFactor(x, t)
      decay  == AttemptDecay[x.attempts]
  IN  Clamp(Nearest(decay.num * weight, 2000 * decay.den), 20, 970)

Confidence(x) == 50 + (IF x.who.known THEN 20 ELSE 0)
                    + (IF x.attempts <= 2 THEN 15 ELSE 0)
                    + (IF x.reason # "UNKNOWN" THEN 15 ELSE 0)

-----------------------------------------------------------------------------
(* The expected recovery value.                                            *)

DefaultCost ==
  [RETRY_NOW |-> 500, RETRY_LATER |-> 2000, SEND_PAYMENT_LINK |-> 3000,
   CHANGE_PAYMENT_METHOD |-> 3000, SEND_REMINDER |-> 1000,
   ESCALATE_HUMAN |-> 50000, STOP |-> 0, VOICE_CALL |-> 2500]

DefaultFriction ==
  [RETRY_NOW |-> 2000, RETRY_LATER |-> 10000, SEND_PAYMENT_LINK |-> 15000,
   CHANGE_PAYMENT_METHOD |-> 20000, SEND_REMINDER |-> 8000,
   ESCALATE_HUMAN |-> 0, STOP |-> 0, VOICE_CALL |-> 12000]

\* What the overrides say of some actions, and the defaults of the others.
Overriding(overrides, default) ==
  [t \in DOMAIN overrides \cup DOMAIN default |->
     IF t \in DOMAIN overrides THEN overrides[t] ELSE default[t]]

InterventionCost(t) == Overriding(CostOverrides, DefaultCost)[t]
FrictionPenalty(t)  == Overriding(FrictionOverrides, DefaultFriction)[t]

\* round(p * amount), p in units of 1/scale, without leaving 32 bits.
Share(amount, p, scale) ==
  (amount \div scale) * p + Nearest((amount % scale) * p, scale)

Value(amount, p, scale, t) ==
  Share(amount, p, scale) - InterventionCost(t) - FrictionPenalty(t)

Erv(x, t) == Value(x.amount, Probability(x, t), 1000, t)

-----------------------------------------------------------------------------
(* The decision.                                                           *)

DeclarationOrder ==
  [RETRY_NOW |-> 1, RETRY_LATER |-> 2, SEND_PAYMENT_LINK |-> 3,
   CHANGE_PAYMENT_METHOD |-> 4, SEND_REMINDER |-> 5, ESCALATE_HUMAN |-> 6,
   STOP |-> 7, VOICE_CALL |-> 8]

\* RecoveryDecisionEngine._rank: the first component that differs decides.
RankKey(x, t) == <<-Erv(x, t), -Probability(x, t), InterventionCost(t),
                   DeclarationOrder[t]>>
Precedes(k, l) == \E i \in 1..4 : /\ k[i] < l[i]
                                  /\ \A j \in 1..(i - 1) : k[j] = l[j]

Best(x, types) == CHOOSE t \in types :
  \A u \in types \ {t} : Precedes(RankKey(x, t), RankKey(x, u))

RiskLevel(x, t) == CASE t \in TerminalActions -> "LOW"
                     [] t \notin TerminalActions /\ x.amount > HighValueThreshold -> "HIGH"
                     [] t \in RetryActions /\ x.amount <= HighValueThreshold -> "LOW"
                     [] OTHER -> "MEDIUM"

\* The disposition when nothing was proposed.
Fallback(d) == IF PermitsHumanHandling(d) /\ AllowHumanEscalation
                 THEN "ESCALATE_HUMAN" ELSE "STOP"

Decide(x, d, candidates) == IF candidates = {} THEN Fallback(d)
                                               ELSE Best(x, candidates)

\* What the policy engine is shown of a context and a proposal.
Proposed(x, t) ==
  [action |-> t, status |-> x.status, reason |-> x.reason,
   attempts |-> x.attempts, amount |-> x.amount, failures |-> x.failures]
=============================================================================

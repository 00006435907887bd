----------------------- MODULE DecisionPipelineProofs -----------------------
(***************************************************************************)
(* The decided workflow is a workflow: whatever the diagnosis provider     *)
(* answers and whatever the valuation prefers, every step of               *)
(* DecisionPipeline is one RecoveryWorkflow allows, so its theorems carry  *)
(* over to the code's actual decisions.                                    *)
(***************************************************************************)
EXTENDS DecisionPipeline, RecoveryWorkflowProofs

-----------------------------------------------------------------------------
(* Definitions by recursion on the naturals.                               *)

\* A function on the naturals may be defined by its first value and a step.
LEMMA RecursiveFunction ==
  ASSUME NEW V, NEW v0 \in V, NEW step \in [V -> V]
  PROVE  \E f \in [Nat -> V] : f[0] = v0 /\ \A n \in Nat : f[n + 1] = step[f[n]]
<1> DEFINE Upto(n, g) == /\ g \in [0..n -> V] /\ g[0] = v0
                         /\ \A i \in 1..n : g[i] = step[g[i - 1]]
           good == {n \in Nat : \E g : Upto(n, g)}
<1>1. ASSUME NEW n \in Nat, NEW g, Upto(n, g)
      PROVE  \E h : Upto(n + 1, h)
  <2> DEFINE h == [i \in 0..(n + 1) |-> IF i <= n THEN g[i] ELSE step[g[n]]]
  <2>1. \A i \in 0..(n + 1) : i \in 0..n \/ i = n + 1
    OBVIOUS
  <2>2. h \in [0..(n + 1) -> V] /\ h[0] = v0
    BY <1>1, <2>1
  <2>3. ASSUME NEW i \in 1..(n + 1) PROVE h[i] = step[h[i - 1]]
    <3>1. CASE i \in 1..n
      BY <1>1, <3>1
    <3>2. CASE i = n + 1
      BY <3>2
    <3> QED
      BY <3>1, <3>2
  <2> QED
    BY <2>2, <2>3
<1>2. Nat \subseteq good
  <2>1. 0 \in good
    <3>1. Upto(0, [i \in 0..0 |-> v0])
      OBVIOUS
    <3> QED
      BY <3>1
  <2> HIDE DEF Upto
  <2>2. \A n \in Nat : n \in good => n + 1 \in good
    BY <1>1
  <2> HIDE DEF good
  <2> QED
    BY <2>1, <2>2, Induction
<1>3. ASSUME NEW n \in Nat, NEW m \in Nat, NEW g, NEW h, Upto(n, g), Upto(m, h), n <= m
      PROVE  \A i \in 0..n : g[i] = h[i]
  <2> DEFINE same == {i \in Nat : i \in 0..n => g[i] = h[i]}
  <2>1. 0 \in same
    BY <1>3
  <2>2. ASSUME NEW i \in Nat, i \in same PROVE i + 1 \in same
    <3>1. CASE i + 1 \in 0..n
      <4>1. i \in 0..n /\ i + 1 \in 1..n /\ i + 1 \in 1..m
        BY <1>3, <3>1
      <4>2. g[i] = h[i] /\ g[i + 1] = step[g[i]] /\ h[i + 1] = step[h[i]]
        BY <1>3, <2>2, <4>1
      <4> QED
        BY <4>2
    <3> QED
      BY <3>1
  <2> HIDE DEF same
  <2>3. Nat \subseteq same
    BY <2>1, <2>2, Induction
  <2> QED
    BY <2>3 DEF same
<1> DEFINE upto(n) == CHOOSE g : Upto(n, g)
           f == [n \in Nat |-> upto(n)[n]]
<1>4. \A n \in Nat : Upto(n, upto(n))
  BY <1>2
<1> HIDE DEF Upto, upto
<1>5. \A n \in Nat : f[n] \in V
  BY <1>4 DEF Upto
<1>6. ASSUME NEW n \in Nat
      PROVE  f[n + 1] = step[f[n]]
  <2>1. n + 1 \in Nat /\ n <= n + 1 /\ n \in 0..n /\ n + 1 \in 1..(n + 1)
    OBVIOUS
  <2>2. upto(n)[n] = upto(n + 1)[n]
    BY <1>3, <1>4, <2>1
  <2>3. upto(n + 1)[n + 1] = step[upto(n + 1)[n]]
    BY <1>4, <2>1 DEF Upto
  <2> QED
    BY <2>1, <2>2, <2>3
<1>7. f \in [Nat -> V] /\ f[0] = v0
  BY <1>4, <1>5 DEF Upto
<1> HIDE DEF f
<1> QED
  BY <1>6, <1>7

-----------------------------------------------------------------------------
(* What the valuation returns, for any context and any settings.           *)

Positive == Nat \ {0}
Fraction == [num : Positive, den : Positive]
DecayStep(d) == [num |-> 3 * d.num, den |-> 4 * d.den]

LEMMA DecayStepTyped == \A d \in Fraction : DecayStep(d) \in Fraction
<1>1. \A k \in Positive : 3 * k \in Positive /\ 4 * k \in Positive
  BY DEF Positive
<1> QED
  BY <1>1 DEF Fraction, DecayStep

LEMMA DecayEquation ==
  /\ AttemptDecay[0] = [num |-> 1, den |-> 1]
  /\ \A n \in Nat : AttemptDecay[n + 1] = DecayStep(AttemptDecay[n])
<1> DEFINE start == [num |-> 1, den |-> 1]
           step == [d \in Fraction |-> DecayStep(d)]
           body(g) == [n \in Nat |->
                         IF n = 0 THEN [num |-> 1, den |-> 1]
                         ELSE LET before == g[n - 1]
                              IN  [num |-> 3 * before.num, den |-> 4 * before.den]]
<1>1. start \in Fraction /\ step \in [Fraction -> Fraction]
  BY DecayStepTyped DEF Fraction, Positive
<1>2. PICK f \in [Nat -> Fraction] : f[0] = start /\ \A n \in Nat : f[n + 1] = step[f[n]]
  <2> HIDE DEF start, step
  <2> QED
    BY <1>1, RecursiveFunction
<1>3. f = body(f)
  <2>1. ASSUME NEW n \in Nat, n # 0
        PROVE  f[n] = [num |-> 3 * f[n - 1].num, den |-> 4 * f[n - 1].den]
    <3>1. n - 1 \in Nat /\ (n - 1) + 1 = n /\ f[n - 1] \in Fraction
      BY <2>1
    <3>2. f[n] = step[f[n - 1]]
      BY <1>2, <3>1
    <3> QED
      BY <3>1, <3>2 DEF DecayStep
  <2> HIDE DEF step
  <2> QED
    BY <1>2, <2>1
<1>4. AttemptDecay = CHOOSE g : g = body(g)
  BY DEF AttemptDecay
<1>5. AttemptDecay = body(AttemptDecay)
  <2> HIDE DEF body
  <2> QED
    BY <1>3, <1>4
<1>6. ASSUME NEW n \in Nat
      PROVE  AttemptDecay[n + 1] = DecayStep(AttemptDecay[n])
  <2>1. n + 1 \in Nat /\ n + 1 # 0 /\ (n + 1) - 1 = n
    OBVIOUS
  <2> QED
    BY <1>5, <2>1 DEF DecayStep
<1> QED
  BY <1>5, <1>6

\* However many attempts a payment has seen, what they leave is a fraction.
LEMMA DecayTyped == \A n \in Nat : AttemptDecay[n] \in Fraction
<1> DEFINE good == {n \in Nat : AttemptDecay[n] \in Fraction}
<1>1. 0 \in good
  BY DecayEquation DEF Fraction, Positive
<1>2. \A n \in Nat : n \in good => n + 1 \in good
  BY DecayEquation, DecayStepTyped
<1>3. Nat \subseteq good
  <2> HIDE DEF good
  <2> QED
    BY <1>1, <1>2, Induction
<1> QED
  BY <1>3

LEMMA BaseRateTyped ==
  ASSUME NEW r \in FailureReason, NEW t \in ActionType
  PROVE  BaseRate(r, t) \in Nat
<1>1. /\ DOMAIN BaseRates[r] \subseteq ActionType \ {"VOICE_CALL"}
      /\ \A u \in DOMAIN BaseRates[r] : BaseRates[r][u] \in Nat
  BY DEF BaseRates, FailureReason, ActionType
<1> QED
  BY <1>1 DEF BaseRate, FallbackBaseRate

LEMMA ProbabilityTyped ==
  ASSUME NEW x \in Context, NEW t \in ActionType
  PROVE  Probability(x, t) \in 20..970
<1> DEFINE base == BaseRate(x.reason, t)
           rate == 35 + 3 * x.who.rate
           subscribes == IF Subscriber(x.who) THEN 21 ELSE 20
           history == HistoryFactor(x, t)
           weight == base * rate * subscribes * history
           decay == AttemptDecay[x.attempts]
           num == decay.num * weight
           den == decay.den
<1>1. base \in Nat /\ rate \in Nat /\ subscribes \in Nat /\ history \in Nat
  <2>1. base \in Nat
    BY BaseRateTyped DEF Context
  <2>2. rate \in Nat
    BY DEF Context, Profile
  <2>3. subscribes \in Nat /\ history \in Nat
    BY DEF HistoryFactor
  <2> QED
    BY <2>1, <2>2, <2>3
<1>2. decay.num \in Nat /\ den \in Nat \ {0}
  BY DecayTyped DEF Context, Fraction, Positive
<1>3. Probability(x, t) = Clamp(Nearest(num, 2000 * den), 20, 970)
  BY DEF Probability
<1> HIDE DEF base, rate, subscribes, history, decay, den
<1>4. \A i, j \in Nat : i * j \in Nat
  OBVIOUS
<1>5. weight \in Nat
  BY <1>1, <1>4
<1> HIDE DEF weight
<1>6. num \in Nat
  BY <1>2, <1>4, <1>5
<1> HIDE DEF num
<1>7. Nearest(num, 2000 * den) \in Int
  BY <1>2, <1>6 DEF Nearest
<1> QED
  BY <1>3, <1>7 DEF Clamp

LEMMA ConfidenceTyped ==
  ASSUME NEW x \in Context
  PROVE  Confidence(x) \in 50..100
<1> DEFINE known == IF x.who.known THEN 20 ELSE 0
           young == IF x.attempts <= 2 THEN 15 ELSE 0
           clear == IF x.reason # "UNKNOWN" THEN 15 ELSE 0
<1>1. known \in 0..20 /\ young \in 0..15 /\ clear \in 0..15
  OBVIOUS
<1>2. Confidence(x) = 50 + known + young + clear
  BY DEF Confidence
<1> HIDE DEF known, young, clear
<1> QED
  BY <1>1, <1>2

LEMMA CostTyped ==
  ASSUME NEW t \in ActionType
  PROVE  InterventionCost(t) \in Nat /\ FrictionPenalty(t) \in Nat
<1>1. DefaultCost[t] \in Nat /\ DefaultFriction[t] \in Nat
      /\ t \in DOMAIN DefaultCost /\ t \in DOMAIN DefaultFriction
  BY DEF DefaultCost, DefaultFriction, ActionType
<1>2. /\ t \in DOMAIN CostOverrides => CostOverrides[t] \in Nat
      /\ t \in DOMAIN FrictionOverrides => FrictionOverrides[t] \in Nat
  BY EconomicsAssumption
<1> QED
  BY <1>1, <1>2 DEF InterventionCost, FrictionPenalty, Overriding

\* A share of an amount is at most the amount.
LEMMA ShareBound ==
  ASSUME NEW amount, NEW p, NEW scale, scale \in {1000, 10000},
         amount \in Nat, p \in Nat, p <= scale
  PROVE  Share(amount, p, scale) \in Int /\ Share(amount, p, scale) <= amount
<1> DEFINE q == amount \div scale
           r == amount % scale
           gross == q * p
           rest == Nearest(r * p, scale)
<1>1. q \in Nat /\ r \in 0..(scale - 1) /\ amount = scale * q + r
  OBVIOUS
<1>2. Share(amount, p, scale) = gross + rest
  BY DEF Share
<1> HIDE DEF q, r
<1>3. gross \in Int /\ gross <= scale * q
  BY <1>1
<1>4. rest \in Int /\ rest <= r
  <2> DEFINE product == r * p
  <2>1. product \in Nat /\ product <= scale * r
    <3>1. \A k, m \in Nat : k <= m => k * r <= m * r
      BY <1>1
    <3> QED
      BY <1>1, <3>1
  <2> HIDE DEF product
  <2>2. CASE scale = 1000
    <3>1. Nearest(product, 1000) \in Int /\ Nearest(product, 1000) <= r
      BY <1>1, <2>1, <2>2 DEF Nearest
    <3> QED
      BY <2>2, <3>1 DEF product
  <2>3. CASE scale = 10000
    <3>1. Nearest(product, 10000) \in Int /\ Nearest(product, 10000) <= r
      BY <1>1, <2>1, <2>3 DEF Nearest
    <3> QED
      BY <2>3, <3>1 DEF product
  <2> QED
    BY <2>2, <2>3
<1> HIDE DEF gross, rest
<1> QED
  BY <1>1, <1>2, <1>3, <1>4

\* No action is ever worth more than the payment it is to recover, whatever the
\* customer, the history and the configured costs.
THEOREM WorthBound ==
  ASSUME NEW x \in Context, NEW t \in ActionType
  PROVE  Erv(x, t) \in Int /\ Erv(x, t) <= x.amount
<1>1. x.amount \in Nat /\ Probability(x, t) \in Nat /\ Probability(x, t) <= 1000
  BY ProbabilityTyped DEF Context
<1>2. /\ Share(x.amount, Probability(x, t), 1000) \in Int
      /\ Share(x.amount, Probability(x, t), 1000) <= x.amount
  BY <1>1, ShareBound
<1> QED
  <2> DEFINE share == Share(x.amount, Probability(x, t), 1000)
             cost == InterventionCost(t)
             friction == FrictionPenalty(t)
  <2>1. Erv(x, t) = share - cost - friction
    BY DEF Erv, Value
  <2>2. share \in Int /\ share <= x.amount
    BY <1>2
  <2>3. cost \in Nat /\ friction \in Nat
    BY CostTyped
  <2> HIDE DEF share, cost, friction
  <2> QED
    BY <1>1, <2>1, <2>2, <2>3

-----------------------------------------------------------------------------
(* The decided workflow.                                                   *)

LEMMA CandidatesTyped ==
  ASSUME NEW r \in FailureReason, NEW failed, NEW t \in Candidates(r, failed)
  PROVE  t \in ActionType
<1>1. CandidatesByReason[r] \subseteq ActionType
  BY DEF CandidatesByReason, FailureReason, ActionType
<1> QED
  BY <1>1 DEF Candidates

LEMMA WouldSucceedTyped ==
  ASSUME NEW r, NEW t, NEW p, NEW n
  PROVE  WouldSucceed(r, t, p, n) \in BOOLEAN
<1>1. (<<p, t, n>> \in seed) \in BOOLEAN /\ (Draws(r, t) = {TRUE}) \in BOOLEAN
  OBVIOUS
<1>2. CASE Draws(r, t) = BOOLEAN
  BY <1>1, <1>2, Zenon DEF WouldSucceed
<1>3. CASE Draws(r, t) # BOOLEAN
  BY <1>1, <1>3, Zenon DEF WouldSucceed
<1> QED
  BY <1>2, <1>3

\* A cycle selects an action type and proposes it under the next identifier, with
\* the valuation it was chosen for and the diagnosis of the recorded reason.
LEMMA CycleDecides ==
  ASSUME TypeOK, NEW c \in CaseId, NEW a \in ActionId,
         NEW found \in Diagnoses(ContextOf(cases[c].payment)), Cycle(c, a, found)
  PROVE  \E t \in ActionType, success \in BOOLEAN :
           /\ \/ RunStops(c, a, t) \/ RunEscalates(c, a, t) \/ RunSchedules(c, a, t)
              \/ RunExecutes(c, a, t, success)
           /\ success = WouldSucceed(Reason(cases[c].payment), t, cases[c].payment,
                                     payments[cases[c].payment].attempts + 1)
           /\ NextId(a)
           /\ diagnosis' = [diagnosis EXCEPT ![c] = Reason(cases[c].payment)]
           /\ StoreValue(a, ContextOf(cases[c].payment), t)
           /\ UNCHANGED <<opened, seed>>
<1> DEFINE p == cases[c].payment
           x == ContextOf(p)
           t == Decide(x, found, Candidates(found.reason, x.failed))
           success == WouldSucceed(x.reason, t, p, x.attempts + 1)
<1>1. /\ \/ RunStops(c, a, t) \/ RunEscalates(c, a, t) \/ RunSchedules(c, a, t)
         \/ RunExecutes(c, a, t, success)
      /\ NextId(a)
      /\ diagnosis' = [diagnosis EXCEPT ![c] = found.reason]
      /\ StoreValue(a, x, t)
      /\ UNCHANGED <<opened, seed>>
  BY DEF Cycle
<1>2. found.reason = Reason(p)
  BY DEF Diagnoses, Diagnose, Diagnosis, ContextOf
<1>3. Selects(c, a, t)
  BY <1>1 DEF RunStops, RunEscalates, RunSchedules, RunExecutes
<1>4. p \in PaymentId
  BY <1>3, SelectedCase DEF Selects
<1>5. t \in ActionType
  BY <1>3, <1>4, ReasonTyped, CandidatesTyped DEF Selects
<1>6. success \in BOOLEAN
  BY WouldSucceedTyped
<1>7. success = WouldSucceed(Reason(p), t, p, payments[p].attempts + 1)
  <2> HIDE DEF t
  <2> QED
    BY DEF ContextOf
<1> HIDE DEF t, success
<1> QED
  BY <1>1, <1>2, <1>5, <1>6, <1>7

\* What a run decides is a type the core lets it select.
LEMMA CycleRuns ==
  ASSUME TypeOK, NEW c \in CaseId, NEW a \in ActionId,
         NEW found \in Diagnoses(ContextOf(cases[c].payment)), Cycle(c, a, found)
  PROVE  Run(c)
  BY CycleDecides DEF Run

LEMMA ResumeRuns ==
  ASSUME NEW c \in CaseId, NEW a \in ActionId, ResumeCase(c, a)
  PROVE  Run(c)
<1> DEFINE success == WouldSucceed(Reason(cases[c].payment), actions[a].type,
                                   cases[c].payment,
                                   payments[cases[c].payment].attempts + 1)
<1>1. Resume(c, a, success)
  BY DEF ResumeCase
<1>2. success \in BOOLEAN
  BY WouldSucceedTyped
<1> HIDE DEF success
<1> QED
  BY <1>1, <1>2 DEF Run

LEMMA PipelineStep == TypeOK /\ [PipelineNext]_pipeline => [Next]_vars
<1> SUFFICES ASSUME TypeOK, [PipelineNext]_pipeline PROVE [Next]_vars
  OBVIOUS
<1>1. ASSUME NEW p \in PaymentId, PaymentEvent(p) PROVE Next
  BY <1>1 DEF PaymentEvent, Next
<1>2. ASSUME NEW c \in CaseId, DecidedRun(c) PROVE Next
  BY <1>2, CycleRuns, ResumeRuns DEF DecidedRun, Next
<1>3. ASSUME PipelineTick PROVE Next
  BY <1>3 DEF PipelineTick, Next
<1>4. ASSUME UNCHANGED pipeline PROVE UNCHANGED vars
  BY <1>4 DEF pipeline
<1> QED
  BY <1>1, <1>2, <1>3, <1>4 DEF PipelineNext

\* The pipeline implements the core: the ranking, the learned scores and the
\* diagnosis provider can choose among its behaviours, and never leave them.
THEOREM PipelineImplements == PipelineSpec => Spec
<1>1. PipelineInit => Init
  BY DEF PipelineInit
<1> QED
  BY <1>1, PipelineStep, InitTyped, TypeStep, PTL DEF PipelineSpec, Spec

\* However candidates are valued, a payment is attempted fewer times than the
\* budget allows, over all its cases.
THEOREM PipelineBudget == PipelineSpec => []ChargeBudget
  BY PipelineImplements, BudgetCorrect, PTL

\* However candidates are valued, the promise made about cases is kept.
THEOREM PipelineKeepsPromise == PipelineSpec => KeepsPromise
  BY PipelineImplements, PromiseKept, PTL

-----------------------------------------------------------------------------
(* Every row of the pipeline's own tables is typed, and says of the core's  *)
(* tables what it was computed from.                                       *)

\* What the core guarantees of the tables the pipeline reads.
Core == TypeOK /\ AmountGated /\ FailuresInv

\* Whoever decides, the tables stay typed, a payment above the threshold stays
\* unattempted and the verified failures stay bounded.
THEOREM CoreHolds == Spec => []Core
<1>1. Init => AmountGated
  BY DEF Init, AmountGated, AbsentAction
<1> QED
  BY <1>1, InitTyped, InitFailures, TypeStep, AmountStep, FailuresStep,
     ScheduleCorrect, OneOpenCorrect, PTL DEF Spec, Core

\* Action identifiers are given out in order.
Numbered == \A a, b \in ActionId :
  b < a /\ actions[a] # AbsentAction => actions[b] # AbsentAction

Opening == [at : Context, first : BOOLEAN, disturbed : BOOLEAN]

\* A rating of HIGH says that the amount is above the threshold, which AmountGated
\* says of no action that has been carried out.
ValueOf(a) ==
  IF actions[a] = AbsentAction
    THEN valued[a] = None
    ELSE /\ valued[a] \in Valued
         /\ valued[a].value <= payments[actions[a].payment].amount
         /\ valued[a].risk = "HIGH"
              => payments[actions[a].payment].amount > HighValueThreshold
         /\ \/ \E b \in ActionId : b > a /\ actions[b].case = actions[a].case
            \/ diagnosis[actions[a].case] = valued[a].reason

CaseOf(c) ==
  IF cases[c] = AbsentCase
    THEN diagnosis[c] = None /\ opened[c] = None
    ELSE /\ opened[c] \in Opening
         /\ opened[c].at.status \in Unsuccessful
         /\ diagnosis[c] \in FailureReason \cup {None}

PipelineInv ==
  /\ seed \in Seeds
  /\ \A p \in PaymentId : payments[p] # AbsentPayment => payments[p].status # None
  /\ diagnosis \in [CaseId -> FailureReason \cup {None}]
  /\ DOMAIN valued = ActionId
  /\ DOMAIN opened = CaseId
  /\ Numbered
  /\ \A a \in ActionId : ValueOf(a)
  /\ \A c \in CaseId : CaseOf(c)

\* An action that exists names a payment that exists.
LEMMA ActionPayment ==
  ASSUME TypeOK, NEW a \in ActionId, actions[a] # AbsentAction
  PROVE  /\ actions[a] \in ActionRow /\ actions[a].type \in ActionType
         /\ actions[a].case \in CaseId
         /\ actions[a].payment \in PaymentId
         /\ payments[actions[a].payment] # AbsentPayment
<1>1. /\ actions[a] \in ActionRow /\ actions[a].case \in CaseId
      /\ actions[a].payment \in PaymentId
      /\ actions[a].payment = cases[actions[a].case].payment
      /\ actions[a].type # None
  BY DEF TypeOK
<1>2. cases[actions[a].case] # AbsentCase
  BY <1>1, WorkflowAssumption DEF AbsentCase
<1>3. actions[a].type \in ActionType
  BY <1>1 DEF ActionRow
<1> QED
  BY <1>1, <1>2, <1>3 DEF TypeOK

\* What the context builder gathers is a context.
ContextsTyped ==
  \A p \in PaymentId : payments[p].status # None => ContextOf(p) \in Context

LEMMA ContextTyped == TypeOK /\ FailuresInv => ContextsTyped
<1> SUFFICES ASSUME TypeOK, FailuresInv, NEW p \in PaymentId, payments[p].status # None
             PROVE  ContextOf(p) \in Context
  BY DEF ContextsTyped
<1>1. /\ payments[p].amount \in Nat /\ payments[p].attempts \in Nat
      /\ payments[p].status \in PaymentStatus
  BY DEF TypeOK, PaymentRow
<1>2. Reason(p) \in FailureReason
  BY ReasonTyped
<1>3. Cardinality(Unrecovered(p)) \in Nat
  BY FS_CardinalityType DEF FailuresInv, FailuresOf
<1>4. \A a \in ActionId : actions[a].outcome # None => actions[a].type \in ActionType
  BY ActionPayment DEF AbsentAction
<1>5. FailedTypes(p) \in SUBSET ActionType
  BY <1>4, WorkflowAssumption DEF FailedTypes, Unrecovered, ActionsOf, OutcomeKind
<1>6. SucceededTypes(p) \in SUBSET ActionType
  BY <1>4, WorkflowAssumption DEF SucceededTypes, OutcomesOf, OutcomeKind
<1>7. ProfileOf[CustomerOf[p]] \in Profile
  BY CustomerAssumption
<1> QED
  BY <1>1, <1>2, <1>3, <1>5, <1>6, <1>7 DEF ContextOf, Context

\* The row a cycle writes: carried out only when the gate approved a type that is
\* not a disposition.
LEMMA DecidedMoves ==
  ASSUME TypeOK, NEW c \in CaseId, NEW a \in ActionId, NEW t \in ActionType,
         NEW success \in BOOLEAN,
         \/ RunStops(c, a, t) \/ RunEscalates(c, a, t) \/ RunSchedules(c, a, t)
         \/ RunExecutes(c, a, t, success)
  PROVE  /\ Fresh(c, a)
         /\ cases[c].state \in RunnableStates /\ cases[c].payment \in PaymentId
         /\ \E row \in ActionRow, to \in CaseState : Moves(c, a, row, to)
<1>1. Selects(c, a, t)
  BY DEF RunStops, RunEscalates, RunSchedules, RunExecutes
<1>2. \E row \in ActionRow, to \in CaseState : Moves(c, a, row, to)
  <2>1. "SCHEDULED" \in CaseState
    BY DEF CaseState
  <2> QED
    BY <2>1, ConcludeMoves, DeferMoves, AttemptMoves DEF Executed
<1> QED
  BY <1>1, <1>2, SelectsCase DEF Fresh

\* A payment that exists has a status, whatever happens to it.
LEMMA MovedStatus ==
  ASSUME TypeOK, [Next]_vars, NEW p \in PaymentId,
         payments[p] # AbsentPayment => payments[p].status # None,
         payments'[p] # AbsentPayment
  PROVE  payments'[p].status # None
<1>1. ASSUME NEW q \in PaymentId, Settles(q) PROVE payments'[p].status # None
  BY <1>1, WorkflowAssumption DEF Settles, PaymentStatus
<1>2. ASSUME NEW c \in CaseId, Run(c) PROVE payments'[p].status # None
  <2>1. PICK a \in ActionId, row \in ActionRow, to \in CaseState : Moves(c, a, row, to)
    BY <1>2, RunMoves
  <2>2. payments' = payments \/ \E q \in PaymentId : Settles(q)
    BY <2>1 DEF Moves, Concludes, Defers, Attempts, Resumes, Waits, Acts
  <2> QED
    BY <1>1, <2>2
<1>3. ASSUME NEW q \in PaymentId, NEW r \in Reasons, RecordFailure(q, r)
      PROVE  payments'[p].status # None
  <2> DEFINE failed == [payments[q] EXCEPT !.status = "FAILED", !.reason = r,
                                           !.attempts = payments[q].attempts + 1]
  <2>1. failed.status = "FAILED"
    BY DEF TypeOK, PaymentRow
  <2>2. payments' = [payments EXCEPT ![q] = failed]
    BY <1>3 DEF RecordFailure
  <2> HIDE DEF failed
  <2> QED
    BY <2>1, <2>2, WorkflowAssumption DEF TypeOK, PaymentStatus
<1>4. ASSUME NEW q \in PaymentId, NEW s \in PaymentStatus, NEW r \in Reasons \cup {None},
             NEW amt \in Amounts, CreatePayment(q, s, r, amt)
      PROVE  payments'[p].status # None
  BY <1>4, WorkflowAssumption DEF CreatePayment, Created, TypeOK
<1>5. ASSUME payments' = payments PROVE payments'[p].status # None
  BY <1>5
<1> QED
  BY <1>2, <1>3, <1>4, <1>5
  DEF Next, Pay, FailReuses, FailInterrupted, FailOpens, Tick, AdvanceClock, vars

\* What happens to a payment from outside opens at most one case, for a failure.
LEMMA PayCases ==
  ASSUME TypeOK, NEW p \in PaymentId, Pay(p)
  PROVE  /\ actions' = actions
         /\ \A c \in CaseId :
              \/ cases'[c] = cases[c]
              \/ /\ cases'[c] = [state |-> "DETECTED", payment |-> p]
                 /\ payments'[p].status = "FAILED"
<1>1. ASSUME NEW r \in Reasons, RecordFailure(p, r)
      PROVE  payments'[p].status = "FAILED"
  <2> DEFINE failed == [payments[p] EXCEPT !.status = "FAILED", !.reason = r,
                                           !.attempts = payments[p].attempts + 1]
  <2>1. failed.status = "FAILED"
    BY DEF TypeOK, PaymentRow
  <2>2. payments' = [payments EXCEPT ![p] = failed]
    BY <1>1 DEF RecordFailure
  <2> HIDE DEF failed
  <2> QED
    BY <2>1, <2>2 DEF TypeOK
<1>2. ASSUME NEW r \in Reasons, NEW d \in CaseId, FailOpens(p, r, d)
      PROVE  /\ actions' = actions
             /\ \A c \in CaseId :
                  \/ cases'[c] = cases[c]
                  \/ /\ cases'[c] = [state |-> "DETECTED", payment |-> p]
                     /\ payments'[p].status = "FAILED"
  BY <1>1, <1>2 DEF FailOpens, OpenCase, TypeOK
<1> QED
  BY <1>2 DEF Pay, CreatePayment, FailReuses, FailInterrupted, ReuseOpenCase

\* The valuation of an action stays true while its row keeps its case and payment.
LEMMA ValueKept ==
  ASSUME TypeOK, [Next]_vars, NEW a \in ActionId, ValueOf(a), valued'[a] = valued[a],
         actions'[a] = AbsentAction <=> actions[a] = AbsentAction,
         actions'[a].case = actions[a].case, actions'[a].payment = actions[a].payment,
         actions[a] # AbsentAction =>
           \/ \E b \in ActionId : b > a /\ actions'[b].case = actions[a].case
           \/ diagnosis'[actions[a].case] = valued[a].reason
  PROVE  ValueOf(a)'
<1>1. actions[a] # AbsentAction =>
        payments'[actions[a].payment].amount = payments[actions[a].payment].amount
  BY ActionPayment, MovedAmounts
<1> QED
  BY <1>1 DEF ValueOf

LEMMA PaymentKeepsInv ==
  ASSUME Core, Core', PipelineInv, [Next]_vars, NEW p \in PaymentId, PaymentEvent(p)
  PROVE  PipelineInv'
<1>1. /\ Pay(p) /\ Disturb(p) /\ diagnosis' = diagnosis /\ valued' = valued
      /\ seed' = seed
  BY DEF PaymentEvent
<1>2. /\ actions' = actions
      /\ \A c \in CaseId :
           \/ cases'[c] = cases[c]
           \/ /\ cases'[c] = [state |-> "DETECTED", payment |-> p]
              /\ payments'[p].status = "FAILED"
  BY <1>1, PayCases DEF Core
<1>3. \A a \in ActionId : ValueOf(a)'
  BY <1>1, <1>2, ValueKept DEF Core, PipelineInv, ValueOf
<1>4. \A q \in PaymentId : payments'[q] # AbsentPayment => payments'[q].status # None
  BY MovedStatus DEF Core, PipelineInv
<1>5. ASSUME NEW c \in CaseId PROVE CaseOf(c)'
  <2>1. CaseOf(c) /\ diagnosis'[c] \in FailureReason \cup {None}
    BY <1>1 DEF PipelineInv
  <2>2. opened'[c] =
          CASE cases[c].payment = p -> [opened[c] EXCEPT !.disturbed = TRUE]
            [] cases[c].payment # p /\ cases'[c].payment = p ->
                 [at |-> ContextOf(p)', first |-> \A d \in CaseId : cases[d].payment # p,
                  disturbed |-> FALSE]
            [] OTHER -> opened[c]
    BY <1>1 DEF Disturb
  <2>3. AbsentCase.payment = None /\ None # p
    BY WorkflowAssumption DEF AbsentCase
  <2>4. CASE cases[c].payment = p
    <3>1. cases[c] # AbsentCase /\ cases'[c] # AbsentCase
      BY <2>3, <2>4, MovedAmounts DEF Core
    <3>2. opened[c] \in Opening /\ opened'[c] = [opened[c] EXCEPT !.disturbed = TRUE]
      BY <2>1, <2>2, <2>4, <3>1 DEF CaseOf
    <3>3. opened'[c] \in Opening /\ opened'[c].at = opened[c].at
      BY <3>2 DEF Opening
    <3> QED
      BY <1>1, <2>1, <3>1, <3>3 DEF CaseOf
  <2>5. CASE cases[c].payment # p /\ cases'[c].payment = p
    <3>1. payments'[p].status = "FAILED" /\ cases'[c] # AbsentCase
      BY <1>2, <2>3, <2>5
    <3>2. ContextsTyped'
      BY ContextTyped, PTL DEF Core
    <3>3. ContextOf(p)' \in Context /\ ContextOf(p)'.status \in Unsuccessful
      <4>1. payments'[p].status # None
        BY <3>1, WorkflowAssumption DEF PaymentStatus
      <4> QED
        BY <3>1, <3>2, <4>1 DEF ContextsTyped, ContextOf, Unsuccessful
    <3>4. opened'[c] =
            [at |-> ContextOf(p)', first |-> \A d \in CaseId : cases[d].payment # p,
             disturbed |-> FALSE]
      BY <2>2, <2>5
    <3> DEFINE first == \A d \in CaseId : cases[d].payment # p
    <3>5. first \in BOOLEAN
      OBVIOUS
    <3> HIDE DEF first
    <3>6. opened'[c] \in Opening /\ opened'[c].at = ContextOf(p)'
      BY <3>3, <3>4, <3>5 DEF Opening, first
    <3> QED
      BY <2>1, <3>1, <3>3, <3>6 DEF CaseOf
  <2>6. CASE cases[c].payment # p /\ cases'[c].payment # p
    <3>1. opened'[c] = opened[c] /\ cases'[c] = cases[c]
      BY <1>2, <2>2, <2>6
    <3> QED
      BY <1>1, <2>1, <3>1 DEF CaseOf
  <2> QED
    BY <2>4, <2>5, <2>6
<1>6. DOMAIN opened' = CaseId
  BY <1>1 DEF Disturb
<1> QED
  BY <1>1, <1>2, <1>3, <1>4, <1>5, <1>6 DEF PipelineInv, Numbered

\* The valuation a cycle stores with the row it writes.
LEMMA StoredValue ==
  ASSUME Core, NEW c \in CaseId, NEW a \in ActionId, NEW t \in ActionType,
         NEW x, x = ContextOf(cases[c].payment), x \in Context,
         valued' = [valued EXCEPT ![a] = [probability |-> Probability(x, t),
                                          confidence |-> Confidence(x),
                                          value |-> Erv(x, t), risk |-> RiskLevel(x, t),
                                          reason |-> x.reason]],
         DOMAIN valued = ActionId
  PROVE  /\ DOMAIN valued' = ActionId
         /\ \A b \in ActionId \ {a} : valued'[b] = valued[b]
         /\ valued'[a] \in Valued
         /\ valued'[a].value <= payments[cases[c].payment].amount
         /\ valued'[a].risk = "HIGH"
              => payments[cases[c].payment].amount > HighValueThreshold
         /\ valued'[a].reason = Reason(cases[c].payment)
<1> DEFINE p == Probability(x, t)
           n == Confidence(x)
           v == Erv(x, t)
           k == RiskLevel(x, t)
<1>1. /\ DOMAIN valued' = ActionId
      /\ \A b \in ActionId \ {a} : valued'[b] = valued[b]
      /\ valued'[a] = [probability |-> p, confidence |-> n, value |-> v, risk |-> k,
                       reason |-> x.reason]
  OBVIOUS
<1>2. x.amount = payments[cases[c].payment].amount /\ x.reason = Reason(cases[c].payment)
  BY DEF ContextOf
<1>3. p \in 20..970 /\ n \in 50..100 /\ v \in Int /\ v <= x.amount
  <2>1. p \in 20..970
    BY ProbabilityTyped
  <2>2. n \in 50..100
    BY ConfidenceTyped
  <2>3. v \in Int /\ v <= x.amount
    BY WorthBound
  <2> QED
    BY <2>1, <2>2, <2>3
<1>4. k \in {"LOW", "MEDIUM", "HIGH"} /\ (k = "HIGH" => x.amount > HighValueThreshold)
  BY DEF RiskLevel
<1>5. x.reason \in FailureReason
  BY DEF Context
<1> HIDE DEF p, n, v, k
<1>6. valued'[a] \in Valued
  <2> DEFINE P == 20..970
             C == 50..100
  <2>1. p \in P /\ n \in C /\ v \in Int
    BY <1>3
  <2>2. Valued = [probability : P, confidence : C, value : Int,
                  risk : {"LOW", "MEDIUM", "HIGH"}, reason : FailureReason]
    BY DEF Valued
  <2> HIDE DEF P, C
  <2> QED
    BY <1>1, <1>4, <1>5, <2>1, <2>2
<1>7. /\ valued'[a].value <= payments[cases[c].payment].amount
      /\ valued'[a].risk = "HIGH" => payments[cases[c].payment].amount > HighValueThreshold
      /\ valued'[a].reason = Reason(cases[c].payment)
  BY <1>1, <1>2, <1>3, <1>4
<1> QED
  BY <1>1, <1>6, <1>7

LEMMA CycleKeepsInv ==
  ASSUME Core, PipelineInv, [Next]_vars, NEW c \in CaseId, NEW a \in ActionId,
         NEW found \in Diagnoses(ContextOf(cases[c].payment)), Cycle(c, a, found)
  PROVE  PipelineInv'
<1> DEFINE x == ContextOf(cases[c].payment)
<1>1. PICK t \in ActionType, success \in BOOLEAN :
        /\ \/ RunStops(c, a, t) \/ RunEscalates(c, a, t) \/ RunSchedules(c, a, t)
           \/ RunExecutes(c, a, t, success)
        /\ NextId(a)
        /\ diagnosis' = [diagnosis EXCEPT ![c] = Reason(cases[c].payment)]
        /\ StoreValue(a, x, t)
        /\ UNCHANGED <<opened, seed>>
  BY CycleDecides DEF Core
<1>2. /\ Fresh(c, a) /\ cases[c].state \in RunnableStates /\ cases[c].payment \in PaymentId
      /\ \E row \in ActionRow, to \in CaseState : Moves(c, a, row, to)
  BY <1>1, DecidedMoves DEF Core
<1>3. PICK row \in ActionRow, to \in CaseState : Moves(c, a, row, to)
  BY <1>2
<1>4. /\ \A b \in ActionId : actions'[b] = IF b = a THEN row ELSE actions[b]
      /\ \A d \in CaseId : d # c => cases'[d] = cases[d]
      /\ row.case = c /\ row.payment = cases[c].payment
  <2>1. TypeOK
    BY DEF Core
  <2>2. row.case = c /\ row.payment = cases[c].payment
    BY <1>3 DEF Moves
  <2> QED
    BY <1>3, <2>1, <2>2, MovedTables
<1>5. cases[c] # AbsentCase /\ cases'[c] # AbsentCase
      /\ payments[cases[c].payment] # AbsentPayment
  BY <1>2, SelectedCase, MovedAmounts DEF Core
<1>6. Reason(cases[c].payment) \in FailureReason
  BY <1>2, ReasonTyped DEF Core
<1>7. x \in Context /\ x = ContextOf(cases[c].payment)
  BY <1>2, <1>5, ContextTyped DEF Core, PipelineInv, ContextsTyped
<1> HIDE DEF x
<1>8. /\ DOMAIN valued' = ActionId
      /\ \A b \in ActionId \ {a} : valued'[b] = valued[b]
      /\ valued'[a] \in Valued
      /\ valued'[a].value <= payments[cases[c].payment].amount
      /\ valued'[a].risk = "HIGH"
           => payments[cases[c].payment].amount > HighValueThreshold
      /\ valued'[a].reason = Reason(cases[c].payment)
  BY <1>1, <1>7, StoredValue DEF PipelineInv, StoreValue
<1>9. /\ diagnosis' \in [CaseId -> FailureReason \cup {None}]
      /\ diagnosis'[c] = Reason(cases[c].payment)
      /\ \A d \in CaseId : d # c => diagnosis'[d] = diagnosis[d]
  BY <1>1, <1>6 DEF PipelineInv
<1>10. /\ actions[a] = AbsentAction /\ row # AbsentAction
       /\ \A b \in ActionId : b < a => actions[b] # AbsentAction
       /\ \A b \in ActionId : actions[b] # AbsentAction => a > b
  <2>1. actions[a] = AbsentAction /\ \A b \in ActionId : b < a => actions[b] # AbsentAction
    BY <1>1, <1>2 DEF NextId, Fresh
  <2>2. row # AbsentAction
    BY <1>4, WorkflowAssumption DEF AbsentAction
  <2>3. \A b \in ActionId : b \in Int /\ a \in Int
    BY CustomerAssumption
  <2> QED
    BY <2>1, <2>2, <2>3 DEF PipelineInv, Numbered
<1>11. Numbered'
  BY <1>4, <1>10 DEF PipelineInv, Numbered
<1>12. ASSUME NEW b \in ActionId PROVE ValueOf(b)'
  <2>1. CASE b = a
    <3>1. payments'[cases[c].payment].amount = payments[cases[c].payment].amount
      BY <1>2, <1>5, MovedAmounts DEF Core
    <3> QED
      BY <1>4, <1>8, <1>9, <1>10, <2>1, <3>1 DEF ValueOf
  <2>2. CASE b # a
    <3>1. valued'[b] = valued[b] /\ actions'[b] = actions[b] /\ ValueOf(b)
      BY <1>4, <1>8, <2>2 DEF PipelineInv
    <3>2. ASSUME actions[b] # AbsentAction
          PROVE  \/ \E e \in ActionId : e > b /\ actions'[e].case = actions[b].case
                 \/ diagnosis'[actions[b].case] = valued[b].reason
      <4>1. actions[b].case \in CaseId /\ a > b
        BY <1>10, <3>2, ActionPayment DEF Core
      <4>2. CASE actions[b].case = c
        BY <1>4, <4>1, <4>2
      <4>3. CASE actions[b].case # c
        <5>1. actions[a].case = None
          BY <1>10 DEF AbsentAction
        <5>2. \A e \in ActionId : actions[e].case = actions[b].case => actions'[e] = actions[e]
          BY <1>4, <4>1, <5>1, WorkflowAssumption
        <5>3. diagnosis'[actions[b].case] = diagnosis[actions[b].case]
          BY <1>9, <4>1, <4>3
        <5> QED
          BY <3>1, <3>2, <5>2, <5>3 DEF ValueOf
      <4> QED
        BY <4>2, <4>3
    <3> QED
      BY <3>1, <3>2, ValueKept DEF Core
  <2> QED
    BY <2>1, <2>2
<1>13. ASSUME NEW d \in CaseId PROVE CaseOf(d)'
  <2>1. opened'[d] = opened[d] /\ CaseOf(d)
    BY <1>1 DEF PipelineInv
  <2>2. CASE d = c
    BY <1>5, <1>6, <1>9, <2>1, <2>2 DEF CaseOf
  <2>3. CASE d # c
    BY <1>4, <1>9, <2>1, <2>3 DEF CaseOf
  <2> QED
    BY <2>2, <2>3
<1>14. \A q \in PaymentId : payments'[q] # AbsentPayment => payments'[q].status # None
  BY MovedStatus DEF Core, PipelineInv
<1> QED
  BY <1>1, <1>8, <1>9, <1>11, <1>12, <1>13, <1>14 DEF PipelineInv

LEMMA ResumeKeepsInv ==
  ASSUME Core, PipelineInv, [Next]_vars, NEW c \in CaseId, NEW a \in ActionId,
         ResumeCase(c, a)
  PROVE  PipelineInv'
<1> DEFINE success == WouldSucceed(Reason(cases[c].payment), actions[a].type,
                                   cases[c].payment,
                                   payments[cases[c].payment].attempts + 1)
<1>1. Resume(c, a, success) /\ UNCHANGED <<diagnosis, valued, opened, seed>>
  BY DEF ResumeCase
<1>2. success \in BOOLEAN
  BY WouldSucceedTyped
<1> HIDE DEF success
<1>3. /\ a \in Pending(c) /\ cases[c].state = "SCHEDULED"
      /\ \E row \in ActionRow, to \in CaseState : Moves(c, a, row, to)
  BY <1>1, <1>2, ResumeMoves DEF Core, Executed
<1>4. PICK row \in ActionRow, to \in CaseState : Moves(c, a, row, to)
  BY <1>3
<1>5. /\ \A b \in ActionId : actions'[b] = IF b = a THEN row ELSE actions[b]
      /\ \A d \in CaseId : d # c => cases'[d] = cases[d]
      /\ row.case = c /\ row.payment = cases[c].payment
  <2>1. TypeOK
    BY DEF Core
  <2>2. row.case = c /\ row.payment = cases[c].payment
    BY <1>4 DEF Moves
  <2> QED
    BY <1>4, <2>1, <2>2, MovedTables
<1>6. /\ actions[a].case = c /\ actions[a].payment = cases[c].payment
      /\ actions[a] # AbsentAction /\ row # AbsentAction
  BY <1>3, <1>5, PendingRow, WorkflowAssumption DEF Core, AbsentAction
<1>7. \A b \in ActionId : /\ actions'[b] = AbsentAction <=> actions[b] = AbsentAction
                          /\ actions'[b].case = actions[b].case
                          /\ actions'[b].payment = actions[b].payment
  BY <1>5, <1>6
<1>8. ASSUME NEW b \in ActionId PROVE ValueOf(b)'
  BY <1>1, <1>7, ValueKept DEF Core, PipelineInv, ValueOf
<1>9. cases[c] # AbsentCase /\ cases'[c] # AbsentCase
  BY <1>3, SelectedCase, MovedAmounts DEF Core, RunnableStates
<1>10. ASSUME NEW d \in CaseId PROVE CaseOf(d)'
  BY <1>1, <1>5, <1>9 DEF PipelineInv, CaseOf
<1>11. \A q \in PaymentId : payments'[q] # AbsentPayment => payments'[q].status # None
  BY MovedStatus DEF Core, PipelineInv
<1> QED
  BY <1>1, <1>7, <1>8, <1>10, <1>11 DEF PipelineInv, Numbered

LEMMA PipelineInvStep ==
  Core /\ Core' /\ PipelineInv /\ [PipelineNext]_pipeline => PipelineInv'
<1> SUFFICES ASSUME Core, Core', PipelineInv, [PipelineNext]_pipeline
             PROVE  PipelineInv'
  OBVIOUS
<1>1. [Next]_vars
  BY PipelineStep DEF Core
<1>2. ASSUME NEW c \in CaseId, DecidedRun(c) PROVE PipelineInv'
  BY <1>1, <1>2, CycleKeepsInv, ResumeKeepsInv DEF DecidedRun
<1>3. ASSUME UNCHANGED <<payments, cases, actions, diagnosis, valued, opened, seed>>
      PROVE  PipelineInv'
  BY <1>3 DEF PipelineInv, Numbered, ValueOf, CaseOf
<1> QED
  BY <1>1, <1>2, <1>3, PaymentKeepsInv
  DEF PipelineNext, PipelineTick, Tick, AdvanceClock, pipeline, vars

LEMMA InitPipelineInv == PipelineInit => PipelineInv
  BY WorkflowAssumption
  DEF PipelineInit, Init, PipelineInv, Numbered, ValueOf, CaseOf

\* Every action is stored with what it was chosen for, is never worth more than
\* its payment, and is never carried out when it was rated HIGH; every case keeps
\* the cause its latest action was scored for, whatever the diagnosis provider
\* answered and however the valuation is configured.
THEOREM PipelineTypeCorrect == PipelineSpec => []PipelineTypeOK
<1>1. ASSUME Core, PipelineInv PROVE PipelineTypeOK
  <2>1. ASSUME NEW a \in ActionId, actions[a] # AbsentAction, valued[a].risk = "HIGH"
        PROVE  actions[a].executedAt = None
    <3>1. payments[actions[a].payment].amount > HighValueThreshold
          /\ payments[actions[a].payment].amount \in Nat
      BY <1>1, <2>1, ActionPayment DEF Core, PipelineInv, ValueOf, TypeOK, PaymentRow
    <3> QED
      BY <1>1, <3>1, PolicyAssumption DEF Core, AmountGated
  <2>2. \A c \in CaseId : cases[c] # AbsentCase
          => opened[c].at \in Context /\ opened[c].at.status \in Unsuccessful
    BY <1>1 DEF PipelineInv, CaseOf, Opening
  <2> QED
    BY <1>1, <2>1, <2>2 DEF PipelineInv, PipelineTypeOK, ValueOf, CaseOf
<1> QED
  BY <1>1, InitPipelineInv, PipelineInvStep, PipelineImplements, CoreHolds, PTL
  DEF PipelineSpec
=============================================================================

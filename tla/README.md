# RevivePay: a verification project

TLA+ models of RevivePay's recovery system, checked with TLC on small instances
and, where it matters most, proved with TLAPS for every value of the constants.
Paths are relative to the repository root (`src/` here).

## 1. The system

RevivePay takes failed payments, opens a *recovery case* for each, and works on
the case one cycle at a time until the payment is captured, a person takes over,
or it gives up. It is a FastAPI application over SQLAlchemy (PostgreSQL in
production, SQLite elsewhere) with a simulated payment provider and a simulated
("virtual") clock. In production an API process enqueues runs and a worker
process carries them out.

| Component | State it keeps | Operations |
|---|---|---|
| Payment service (`app/services/payment_service.py`) | `payments`, `payment_attempts` | create, fail, record a recovery attempt, record an external checkout |
| Risk detection (`risk_detector.py`) | `recovery_cases` | open a case, or reuse the open one |
| Recovery workflow (`app/workflows/recovery_workflow.py`) | `recovery_cases`, `recovery_actions` | `run`: full cycle, or resumption of a scheduled retry; error branch |
| Lifecycle (`state_machine.py`) | none; guards every move of a case | `transition`, `advance` |
| Decision pipeline (context builder, diagnosis, candidates, expected value, decision engine) | none; reads the tables | candidates, ranking, selection |
| Policy gate (`policy_rules.py`, `policy_engine.py`) | none; writes the verdict on the action | seven rules, first objection decides |
| Simulated provider (`app/integrations/payment_simulator.py`) | `payments` through the payment service | `schedule`, `execute` |
| Outcome verifier (`outcome_verifier.py`) | `recovery_outcomes`, the `REVENUE_RECOVERED` event | `verify` |
| Virtual clock (`app/core/clock.py`) | a file per container | `now`, `is_due`, `advance`, `reset` |
| Job queue and workers (`job_service.py`, `scripts/run_worker.py`) | `background_jobs` | enqueue, claim, execute, complete, requeue |
| Outbox (`app/models/outbox_event.py`) | `outbox_events` | written with a job, read by nothing |
| Customer portal, voice channel, e-mail (`app/api/routes/recovery.py`, `voice_recovery.py`, `email_service.py`) | write cases, payments, actions, outcomes | settle a case from outside the workflow; call; notify |
| Gateway (`gateway_payment_service.py`, `app/api/routes/gateway.py`) | `gateway_payments`, webhook ledger | order, verify, webhook, simulated failure |
| Audit trail (`audit_service.py`) | `audit_events` | append with a per-case sequence number |
| Autopilot (`autopilot.py`) | none; a list of cases in one long request | drives every open case, at most eight runs each |
| Prediction (`app/ml/deterministic_scorer.py`, `scoring_tables.py`) | none | a probability and a confidence for a context and an action |
| Learned scoring (`recovery_intelligence.py`, `historical_learning.py`) | none; reads verified outcomes | posterior of a candidate, history of a cohort, an advised action |
| Analytics, strategy lab (`analytics_service.py`, `strategy_lab.py`) | none; read the tables | dashboard figures, "what if" under other settings, a benchmark of two strategies |
| Demo data (`scenario_generator.py`, `app/api/routes/demo.py`) | rebuilds all tables | reset |
| Rate limiter (`app/core/rate_limiter.py`) | a window per key, under a lock | `check` |
| Copilot, judge demo, logistic model, web client, scripts | read-only, or seed data | text, reports, training |

How they interact: a route opens one database session and calls the services in
it; the services call each other directly and share that transaction. `run()`
commits at its end, so one cycle is one transaction: diagnosis, selection, policy
verdict, execution, verification and every audit row appear together or not at
all. `fail_payment` is the exception, with two commits. The job service commits
the claim, lets `run()` commit by itself, and commits the completion afterwards.
The clock is read by the workflow and moved by an operator or the autopilot.

The gateway's webhooks, the browser's callback, the portal, voice requests and
runs of the workflow are separate requests in separate threads and processes, and
nothing but the database's unique indexes and conditional updates orders them.

What is hard in it: a scheduled retry is approved in one run and charged in a later
one without a second verdict; limits are compared before an attempt and counted
after it, across all the cases of a payment; several workers select the same job
before one claims it; the run and the job's completion are separate commits; a
worker may die between any two of them; portal, voice, gateway and workflow write
the same rows; a webhook is handled from rows read before the provider was asked;
audit numbers are read in one statement and used in another; a run's error branch
restores a state it read before; reports rebuild what a case looked like from rows
that have changed since. `PROJECT.json` lists each hazard at its line, with the
properties that would catch it, or why none does yet.

What makes each component correct:

* workflow and lifecycle: no commit leaves a case in a state `run()` refuses; every
  case settles; finished cases stay finished;
* scheduling: a scheduled case waits for exactly one retry, which is made once and
  not before its time;
* policy: budget, failure limit and value threshold hold for what is *charged*,
  not just for what is approved;
* detection: one open case per payment;
* verifier: revenue is credited once, in full, with the capture;
* queue: one worker per job, bounded attempts, one run per claim, finished jobs stay
  finished, submitted work eventually done;
* gateway: attempts stay numbered, a delivery acts once, a failure is taken up unless
  an operator's request died over it, a capture is overturned only for a reason that
  can be named, and is not charged;
* portal and operators: no case is RECOVERED without its payment, no scheduled retry
  is orphaned, what counts as recovered has been reported;
* autopilot: eight runs suffice for every case it keeps in hand, whoever else acts on it;
* audit trail: sequence numbers are a gap-free order that is the order of writing;
* voice: the trail tells how each call on record was approved, requested and answered,
  and nobody is rung twice;
* decisions: the stored valuation is the one the choice was made by; whatever is
  preferred, the core's promises hold;
* reports: figures agree with each other, whoever wrote the rows; what is projected
  comes true, looser limits never hurt, one outcome moves a learned score little, a
  case is not part of its own history.

## 2. Modules

| Module | Models | Correspondence |
|---|---|---|
| `Domain` | enums, lifecycle table, candidate table, scripted outcomes | constant-level operators; `Legal(from, via, to)` says whether a chain of `transition` calls goes through |
| `PolicyEngine` | the gate | one operator per rule, `Evaluate` takes the first objection; the configuration is CONSTANTS |
| `RecoveryWorkflow` | payments, detection, `run`, provider, verifier, clock | the variables are the committed tables; each handler is one action |
| `RecoveryPromise` | what the system promises about a case | abstract specification, no source of its own |
| `JobQueue` | queue and workers | one action per commit of a worker |
| `QueuePromise` | what the queue promises about a job | abstract specification, no source of its own |
| `RecoveryChannels` | portal, voice calls, autopilot, clearing, demo reset | extends `RecoveryWorkflow`: the same tables, further handlers |
| `RecoveryFigures` | the dashboard's figures | extends `RecoveryChannels`: sums over its tables, with the stored diagnosis |
| `Valuation` | diagnosis, scorer, expected value, ranking | pure operators in the integers the code rounds to |
| `DecisionPipeline` | the workflow with its decision made | extends `RecoveryWorkflow` and `Valuation`; each of its runs is one of the core's |
| `RecoveryInsights` | strategy lab, benchmark, learned scores | views on the tables of `DecisionPipeline` |
| `GatewayPayments` | orders, callbacks, webhooks, simulated failure, and the operator and the portal on the same payments | a request is several steps: read, fetch, read, commit |
| `CaseSessions` | runs, calls and reports on one case as database sessions | one action per statement, call and commit |
| `MCRecoveryWorkflow`, `MCRecoveryFigures`, `MCRecoveryInsights`, `MCGatewayPayments`, `MCCaseSessions` | instances for TLC | constants and symmetry only |
| `RecoveryWorkflowProofs`, `DecisionPipelineProofs`, `JobQueueProofs`, `CaseSessionsProofs`, `GatewayProofs`, `ChannelsProofs`, `InsightsProofs`, `FiguresProofs` | theorems | section 5 |

**RecoveryWorkflow.** A request is one transaction, so an action is a whole
handler: `RunStops`, `RunEscalates`, `RunSchedules`, `RunExecutes` are the ends a
full cycle can have, `Resume` is the scheduled resumption, `CreatePayment`,
`FailOpens`, `FailReuses` the payment routes, `FailInterrupted` a crash between
`fail_payment`'s two commits, `AdvanceClock` the clock route. `Advance` walks the
lifecycle table, so a handler whose chain of transitions is illegal cannot
commit. Runs that change nothing (not due yet, refused) are stuttering steps.

Abstractions of the core: the predictor may prefer any candidate (a superset of what its
scores select, ties included); a seeded draw of the provider may go either way;
an identifier is a model value; diagnosis is the failure reason; wording,
metadata and audit rows other than `REVENUE_RECOVERED` are left out; an outcome
row is kept with its action (there is at most one). A payment created as failed
without a reason has none, and is treated as UNKNOWN, as the context builder does.

**JobQueue.** `Pick` is the select of `claim_due`, `Claim` its conditional update,
`RunCommits` the commit inside `run()`, `Complete` the commit of the result,
`Raises` the except branch with its re-raise, which ends the process. `Crash` and
`Restart` are the environment. Time is relative: `wait` and `lease` count down, so
no clock has to be bounded. A run is abstracted to whether it raises and whether
it finishes the case.

**RecoveryChannels.** `CustomerRecovers` is the portal's completion: it walks a
failed case through the lifecycle table, refuses a scheduled one, because the table
has no such way, and sets any other case without a transition; then it rewrites the
outcome of the latest action (or has the verifier make one) and reports the
revenue. Which action is the latest is a choice when the clock stood still between
them. A call is one action here (`VoiceCall`): past its gates it leaves an
action that counts as executed if the call was placed and has no outcome; its statements
are in `CaseSessions`. The autopilot is a loop over transactions: `StartBatch`,
`TakeCase`, `Drive` (one committed run), `DriveWaits`, `AdvanceForRetry`, `LeaveCase`;
everybody else may act between two of its steps. A run that raises one of the system's
own errors ends the loop of its case, which may be left unfinished (`RunHalts`), and any
other error ends the batch (`BatchFails`). Nobody tells a batch that an operator has
cleared the queue or reset the demo: its next refresh fails if the row is gone, or finds
the case that the reset has seeded again under the same id and goes on with it, the runs
of the old row spent. `batch.left` and `batch.upset` remember, for a property only, which
cases it is through with and which were taken out of its hands by an error or a deletion.

**RecoveryFigures.** `Revenue`, `ByFailureReason` and `ByAction` are the reports of
`analytics_service.py` as operators, over the rows of `RecoveryChannels`, hence over
everything that writes them. It adds the one column they need, the stored diagnosis,
which a run writes when it proposes an action (`StoreDiagnosis`). Three of the rows'
writers do not go through the verifier, and the property accounts for each: the portal
settles cases for which nothing was proposed (`NeverProposed`) and credits actions that
were never carried out (`PaidInstead`), and a call is carried out and never verified
(`Ringing`). What does not hold is left out of it openly: a payment at the portal for a
case that is recovered already may credit a second action of the case, when another one
is the latest by then (a tie in `created_at`, or a call made while the retry waited), and
then more is recovered than was at risk.

**GatewayPayments.** The provider is external: `Pays` and `Moves` are what a
customer and a bank can do to its orders, and `Sent` is the set of webhooks there
have been, so a delivery may come late, again and in any order. A request begins
with the mapping it read (`BeginOrder`, `BeginCallback`, `BeginWebhook`), asks the
provider (`Fetch`), reads the payment (`ReadPayment`) and commits
(`CommitApplied`, `CommitNoChange`, `InsertOrder`) or leaves nothing (`Fails`). A
commit writes those columns whose value differs from the one that was *read*, as the
session does, which is how an old read overwrites a new row or leaves it alone. A
second handler of a delivery waits for the ledger row of the first. `RunCase` is a
cycle of the workflow reduced to what it can do to the payment. Four more handlers write
the rows of a gateway payment, and look at neither its status nor its origin: the
operator's `FailPayment` with its second commit, `OpenCase`; the portal's
`PortalCompletes`; and `ClearCases` and `ResetDemo`, which delete the rows under the
requests in flight.

**CaseSessions.** `Session` holds what each session read and what it still has to
write; sessions are not autoflushed until they append to the trail, so
`ReadNumber` and `InsertEvent` are the two statements of `AuditService.record`. An
insert waits while another session holds its number and is rejected once that one
has committed. `PlaceCall` is external to the transaction: a call that rang is not
rolled back, and its answer may be lost. The time of a call is read when it returns. `StageFails` and the two rejections lead
a run into `_handle_stage_error`, whose commit writes the state it entered with.
`Crash` ends a session anywhere. The database is PostgreSQL at READ COMMITTED, the
production set-up of the repository.

**DecisionPipeline.** `ContextOf` is the context builder; `Cycle` diagnoses, ranks
the candidates, lets the core's run happen with that action, and stores diagnosis and
valuation. Probabilities are thousandths and rates tenths, the precision of the
scoring tables; amounts are minor units with the code's rounding, computed without
leaving 32 bits. A provider of diagnoses may answer anything. `seed` says which
draws succeed. `opened` keeps the context at opening, for properties only.

**RecoveryInsights.** Every view is an operator: `AsDetected`, the reconstruction the benchmark starts from, and
`Projection`, what it makes of a choice; `Eligible`, `BestValue` and
`AdvisedValue` under the settings of an override (`With(o)` instantiates
`Valuation` with them); `Learned` and `Insight` over cohorts of samples.
`DecisionPipeline` has the workflow's own steps, the payment routes and the clock, and
neither portal nor calls, so what is said of these views is said of the workflow's own
writing; a call on record, for instance, would count as an attempt of its case in
`AttemptsAtDetection`.

`RecoveryPromise` sees only phases (absent, open, deferred, recovered, handed over,
given up), owners, attempts per payment and credits per case. The refinement
mapping is at the end of `RecoveryWorkflow`: the lifecycle states map to phases,
charges to the number of executed actions, credits to revenue events.

`QueuePromise` knows nothing of selects, leases and timers: a job is absent, waiting,
held by a worker, run, done, failed or lost with its worker. `Place` at the end of
`JobQueue` maps a row to this: a RUNNING job is held, run or lost by where its worker
is, any other is where its status says. Claims and holder are the columns `attempts`
and `owner`. A completion that does not wait for its run, a claim that takes a job from
its holder, a claim beyond the limit or one by a worker that holds a job are no steps of
the promise.

## 3. Runs

`tlc -workers 2 -config <cfg> <module>`; the names are those of `PROJECT.json`.

| Run | Instance | What it shows |
|---|---|---|
| `core_safety` | 1 payment, 2 cases, 5 actions, 2 amounts, 4 reasons, budget 3, failure limit 2, delay 2, clock to 4, outside failures up to 4 attempts | type and foreign-key consistency, one open case, the scheduling invariants, budget, threshold, revenue accounting, and that the workflow implements the promise |
| `core_liveness` | 1 payment, 1 case, 3 actions, budget 4, failure limit 2, delay 1, clock to 3 | the failure backstop bounds failures and every case settles |
| `jobs` | 2 jobs for 1 case, 2 workers, 3 attempts, 1 crash | exclusion, attempt counting, the run/completion gap, that the queue implements its promise, and that jobs finish unless a crash orphans them |
| `jobs_crash` | 1 job, 1 worker, 1 crash | violates `DurableWork`: a crash orphans a job for good |
| `jobs_compose` | 1 job, 1 worker, no crash, no restart | violates `DurableWork`: the first exception of a run ends the only worker |
| `channels` (`MCRecoveryFigures`) | 1 payment, 2 cases, 4 actions, 1 amount, 2 reasons, budget 3, failure limit 2, delay 1, attempts to 3, clock to 2, call window 1, calls and batches apart | schedules, revenue reports and finished cases survive portal, calls and resets, the autopilot finishes every case it keeps in hand, and the dashboard's figures agree |
| `gateway` | 1 order, 2 provider payments, 2 requests at a time, 1 idempotency key, a recognised cause, no attempt or news on a payment with 2 attempts | numbering, one effect per delivery, which failures are taken up, the reasons a capture can be overturned |
| `gateway_charge` | 1 order, 2 provider payments, 1 request at a time, attempts to 3 | violates `CapturedNeverCharged`: a scheduled retry charges a payment the customer has completed |
| `case_sessions` | 2 sessions, 3 transactions, guard window 0, attempts to 2, clock to 1 | the trail numbers serialise the sessions, the trail tells what happened, and no session waits for ever |
| `voice_double` | 2 sessions, 3 transactions, window 1, clock to 2 | violates `NoDuplicateOutreach`: two calls ring within the window |
| `lost_run` | 2 sessions, 3 transactions, attempts to 3 | violates `FinishedStaysFinished`: the loser's error handler overwrites RECOVERED |
| `decisions` | 2 payments of 1 customer, 2 cases, 4 actions, amounts 1 000 and 60 000 in major units around the default threshold, a cause or none, budget 3, failure limit 2, window of 3 outcomes, attempts to 3, clock to 1, 5 overrides, 2 seeds | stored valuations, reconstruction and projection, what-ifs, learned scores and histories |

Bounds of the core and the queue. Payments do not interact except through the
customer's statistics, which only feed the predictor, so one payment suffices. A
second case is needed because limits are per payment and cases are not; five actions
reach budget and failure limit in both cases. Four reasons cover one of each
behaviour: a retry that always works, retries that never do, a hand-over among the
candidates, an unknown cause. Two amounts straddle the threshold. Limits of 2 to 4
stand for 2 and 3 of `config.py`; the safety run has the budget bind first, the
liveness run the backstop. `AttemptCap`, `TimeCap` and `MaxCrashes` are bounds of
the model, not of the code. Two workers and two jobs give every pairwise race of the
claim; three attempts let a job fail for good; one crash suffices because nothing
recovers from it. `CHECK_DEADLOCK FALSE` is set where the system really stops: when
every case has settled and the bounded clock has run out, and when every job is
finished. `core_safety` identifies permutations of cases and actions, `channels` and
`gateway` of their identifiers, `decisions` of its two cases; runs with a liveness
property use no symmetry.

Bounds of the others. In `channels` the autopilot's ceiling of eight is the code's own
number and is tried against a failure limit of 2, one less than in `config.py`: at worst
two failed delayed retries take two runs each and a fifth run hands over. With
a ceiling of three (mutant `MaxThreeRuns`) cases are left behind, so long batches do
occur within the bounds; that three failures fit as well is a theorem. One reason is a
retry that always works, the other one that never does. `CallsApart` keeps calls out of
the behaviours in which a batch is run, which would otherwise be too many; the theorems
hold without it. In `gateway` two
provider payments of one order are what it takes for an earlier one to overwrite a
later one, and two requests for every race of callback, webhook and redelivery. Once two attempts are
recorded on a payment, no further news of it is taken up (`AttemptCap`), so a capture and
what overturns it fill the bound. `UNKNOWN` among the causes would show the rewording of
`Normalized` once more, and doubles the states. A
second order would reach the race of two orders for one idempotency key as well; it
multiplies the states and is left out.
`case_sessions` needs two sessions to race and a third transaction to find what
the two left; longer trails repeat the same two statements. With a window of 0 the
guard forbids a second call at the same minute and allows it at the next, so both
outcomes of the guard occur. In `decisions` the customer's two payments are
each other's history and cohort; one payment's draws succeed under one seed and none
under the other; the overrides lie below and above each limit, one at a time, and one
lowers a cost. Three attempts let a payment fail again after its first case has ended,
so that both cases can be one payment's, which is where reports part from what a case
was opened with.

Fairness. `FairSpec` assumes that someone keeps running open cases (a worker, the
autopilot or an operator pressing the button again) and that the clock keeps moving;
nothing is assumed of payments. The clock is simulated, so this is an assumption
about operation; without it a scheduled case rests for ever, as the code intends.
`EveryCaseSettles` lets a case off only while it waits for a moment later than the
bound on the clock. `ComposeSpec` assumes that live workers poll, which `main()`
does, and that time passes. `AttendedSpec` adds that dead workers are restarted,
which the compose file does not provide; `jobs` shows what holds with it,
`jobs_compose` what is lost without it.

`FairSpec` of `CaseSessions` assumes only that a session that is not waiting for another
one's audit number is scheduled again, which the server does; a session that crashes
has ended. No fairness is assumed of the gateway, the portal or the operators: their
properties are safety properties.

Every property of a passing run has a mutant: a definition changed the way a
plausible bug would change the code (a counter not incremented, a due time not
checked, a claim that ignores the status), under which the same run fails. Mutants
stand next to what they change and are used nowhere else.

## 4. Findings

* `claim_due` (`app/services/job_service.py:44`) reads `PENDING` and `RETRY` rows
  only. The lease test in the same query never applies to a `RUNNING` row, so the
  job of a worker that died is never taken up again, although
  `docs/deployment.md:7` calls the accepted work durable.
* `execute_claimed` re-raises (`job_service.py:78`) and `main()` in
  `scripts/run_worker.py` catches nothing: the first run that raises, for example
  on a case that was settled meanwhile, ends the "long-running" worker. The compose
  file gives it no restart policy, so the retry it scheduled is never made.
* `_resume_scheduled` (`app/workflows/recovery_workflow.py:268`) executes the retry
  approved a delay ago without looking at the payment again: a customer who has paid
  at the gateway meanwhile is charged once more. The rule that is skipped says
  "Recovering an already-successful payment would double-charge a customer, so this
  runs first" (`app/services/policy_rules.py:92`).
* The duplicate guard of `voice_recovery.py:113` reads committed calls, but a call is
  placed (line 200) before it is committed (line 264), and counts only if its answer
  arrived. Two requests, or one that dies and is repeated, ring twice; `README.md:85`
  promises a guard against "concurrent duplicate outreach".
* `_handle_stage_error` (`recovery_workflow.py:707`) writes the state the run entered
  with. Of two runs of one case the loser sets a case that is RECOVERED back to
  DETECTED, against "no transition out of a terminal state"
  (`app/services/state_machine.py:9`).

Smaller divergences met while modelling, followed by the models and without a run of
their own:

* `scoring_tables.py` says that the rate of STOP is exactly zero; the clamp makes its
  probability at least 0.02 (`Clamp` in `Probability`).
* The lab's comparable actions include `ESCALATE_HUMAN`, although their comment
  excludes terminal dispositions (`ComparableActions`).
* The benchmark is described as comparing policy-eligible actions, but its choice is
  made before policy is asked (`ByValue`); a choice that policy refuses is worth
  nothing (`Projection`).
* The learned score's verified samples include the case's own outcomes, which only the
  history summary leaves out (`VerifiedSamples` against `Insight`).
* One outcome that opens a closer cohort may change a learned score at once by more
  than the prior is meant to allow; `OneOutcomeMovesLittle` is stated for a cohort
  that exists. Nor is it stated for a case whose payment has failed again: attempts of a
  later case lower the older one's prior as well, without an outcome of its cohort.
* The reconstruction at detection is right for as long as a payment does not fail again
  from outside, and its verdict and choice for a payment's first case only:
  `BenchmarkStable` says so.
* `is_worth_attempting` is used by nothing: an action of negative expected value is
  proposed and carried out like any other. The decision engine's fallback cannot be
  reached, because the candidates are never empty.

## 5. Theorems

`tlapm <module>` checks them; all obligations are discharged by SMT, Zenon and the
temporal back end, and hold for any number of payments, cases, jobs, sessions,
requests and workers. Every property of a passing run is the statement of a theorem,
except the three liveness properties (see the end of this section).

Assumptions. `PolicyAssumption`, `WorkflowAssumption`, `QueueAssumption`,
`GatewayAssumption`, `SessionsAssumption` and `CustomerAssumption` say that constants
have their types, that `None` is no other value, that delays and attempt limits are
positive and that no payment is made for nothing (`gt=0` in `app/schemas/payment.py:22`
and `gateway.py:22`). `EconomicsAssumption` and `InsightsAssumption` say that costs, frictions and
limits given as overrides are not negative and name action types, as
`ScenarioOverridesRequest` enforces (`app/schemas/product.py:183`), and that the window
of outcomes has room for one (`historical_learning.py:39`). TLC evaluates each in a run.
Two theorems have a hypothesis of their own, named below. The inductive invariants were
model-checked on the instances of section 3 before they were proved.

* **Policy** (at the head of `RecoveryWorkflowProofs`): an approval means that none of the seven rules
  objects; hence budget, status and threshold for any approved automatic action;
  the blocking rules win over the escalating ones.
* **Core** (`RecoveryWorkflowProofs`): `TypeOK` is inductive because every chain of
  transitions ends in a runnable or terminal state. `OneOpenCase` follows from the
  guard of detection and from runs keeping a case's payment. `ScheduleConsistent`
  and `NeverEarly` rest on these and on due times being set only by
  `RunSchedules`. For the threshold, `AmountGated` extends the claim from charged
  to scheduled actions, because a resumption is not gated again.
  The budget needs most: `BudgetInv` says that a payment's charges never exceed
  its attempt count, are strictly fewer while it is unsuccessful (the failure
  itself was an attempt), and that a scheduled retry *reserves* one attempt
  (charges + 1 is below the budget while one waits). Outside failures raise the
  count, never the charges, so the reservation survives the delay; one open case
  means that nobody else can spend it. `FailuresBounded` is proved in the same way:
  while a retry waits, the payment's failures over all its cases are strictly below the
  limit (`FailuresInv`). Revenue: a case is RECOVERED with its one winning action,
  in one step. `PromiseKept` then maps every step to a step of `RecoveryPromise` or a
  stutter, using the budget reservation to justify a resumed attempt.
* **Queue** (`JobQueueProofs`): `SafeInv` (types, attempt counting by status, and one
  executor, the owner) is inductive for any number of workers and jobs; `RunsInv`
  adds that a worker past its run has one committed run to its job's name.
  `QueuePromiseKept` is the refinement of `QueuePromise`. `PlaceHolds` derives from
  `SafeInv` what a job's place says of row and worker, in both directions; then each
  action moves the place of one job and no other (`OneMoves`), since a worker has one
  job in hand, or none (`NoneMoves`). That a claim takes the job from nobody is
  exclusion, that it stays within the limit is attempt counting: both parts of `SafeInv`
  are needed.
* **Sessions** (`CaseSessionsProofs`): the unique index on the audit numbers acts as a
  lock. `SessionsInv` says why: a session's uncommitted events continue the committed
  ones without a gap, and a number it has read is either the next one or has been
  committed by somebody else since, so that its insert is refused (`NumberPart`). Since
  two sessions cannot both hold the next number, one at a time has uncommitted events
  (`OneWriter`), and gap-freeness and order of the trail follow. `ScriptPart` ties what a
  session has still to write to what it has written, `OwnerPart` and `OwnTransactions`
  say whose events they are. `VoicePart` follows a call through the rest: its verdict and
request precede it in its own transaction, its outcome comes last, so that the account is
committed as a whole and under consecutive numbers (`CallsAndTrailAgree`).
* **Gateway** (`GatewayProofs`): `GatewayInv` has a part for the provider's books
  (`ProviderPart`), one for an order's rows (`OrderPart`: attempts numbered 1 to
  `attempt_count`, one per delivery, each delivery acted on in the ledger, and a failure
  without a case the operator's last, `LastByOperator`), one for a
  request in flight (`RequestPart`: its news is not in the ledger yet, what it has
  read of a capture is still true at the provider, and the payment it has read has only
  counted on, `Counted`) and one for two of them (`Apart`: not
  both carry the same news). A request that counts on from an old read is
  refused by the unique index, which keeps the numbering. `CaptureSurvives`: a request that
  knows of a capture cannot carry older news of the same order, because a provider
  captures one payment of an order and never goes back; the steps that do
  overturn a capture are the five that `Excused` names. `FailuresAreTakenUp`: a failure
  under a new number comes with its case, unless it is the operator's (`FailPayment`).
* **Channels** (`ChannelsProofs`): which of the core's invariants survive the portal, voice
  calls, the operators and the autopilot. `ScheduleConsistent` and `OneOpenCase` do,
  `RevenueVerified` does not; what is left of it is `RevenueReported`, and that only a
  captured payment makes a case RECOVERED. For the autopilot `BatchPart` bounds the runs
  of the case in hand by `Spent`: two for each failure the case has had (one run that
  waited and one that acted), and one for the wait it is in. A case that a run's error or a
  deletion took out of its hands is in `upset`, and nothing is claimed of it; one that a
  reset seeded again before its turn starts with no failures and no runs. With the backstop's bound on
  failures this stays below the ceiling, so `AutopilotFinishes` needs the hypothesis
  `2 * RepeatedFailureLimit < MaxRunsPerCase`. The configuration has 3 and 8
  (`app/core/config.py`, `autopilot.py:37`), and nothing in the code ties the two.
* **Decisions** (`DecisionPipelineProofs`): `PipelineImplements`: whatever a provider
  of diagnoses answers, whatever costs, frictions, customers and seeds are, each step
  of `DecisionPipeline` is a step of the core or a stutter. It rests on the candidates
  being actions and a draw being a Boolean. Budget and promise follow for the
  code's actual choices (`PipelineBudget`, `PipelineKeepsPromise`), as would every
  other theorem of the core. `WorthBound`: no valuation exceeds the amount. `PipelineInv`
  types the pipeline's own tables and says what each row was computed from: identifiers
  are given out in order (`Numbered`), a rating of HIGH means an amount above the threshold
  (`ValueOf`), which by `AmountGated` is never carried out.
* **Reports** (`InsightsProofs`): the tables the views range over stay finite
  (`FiniteHolds`). `HistoryInv` says how an undisturbed case's rows follow from the
  context it was opened with: attempts grow by its own actions (`QuietPart`), and its
  first action went as verdict and draw foretold (`ForetoldPart`); reconstruction and
  projection follow (`BenchmarkStableHolds`, `ProjectionHolds`). What-ifs
  (`LooserLimitsHold`): a gate with looser limits permits no less, and cheaper actions
  are worth no less; an advised action exists because the ranking's last key tells any two
  candidates apart. `OwnOutcomeHolds`: a new outcome is the latest, hence enters the
  window of a cohort without pushing another out while there is room, and is left
  out of its own case's summary. `OneOutcomeMoves`: the prior of an undisturbed case never
  changes, one more sample is one more success at most, and a prior worth twelve samples
  makes the difference a thirteenth, rounding included.
* **Figures** (`FiguresProofs`): `FiguresHold` says that both breakdowns add up to the
  totals, and what is recovered and executed is accounted for, whoever wrote the rows:
  it is a theorem of `RecoveryFigures`, with portal, calls, autopilot and operators, for
  any finite set of payments (its one hypothesis: a reset seeds a case for each). Its
  first part is about sums. The community module chooses
  an element and recurs on the rest, as a function; `Additive` says what a sum
  is without choosing, `AdditiveExists` and `SumIsAdditive` that it exists and is the
  community's. The induction is over sets of numbers and not over predicates
  (`ShrinkInduction`), which is why the provers can instantiate it. From there:
  sums are monotone, a sum of ones is the cardinality, and adding up class by class is
  adding up (`SumPartition`). The second part is the invariant `Booked`, over the tables'
  invariant of `ChannelsProofs`: what is won belongs to a recovered case and is credited
  with the case's amount (`CreditsRight`), a recovered case has won something or nothing
  was ever proposed for it (`RecoveriesWon`), nothing but a call is carried out without
  being verified (`OnlyCallsRing`), and amounts are above nought: a case with nothing at
  risk would be RECOVERED without counting as such. The third part is about the
  breakdowns: one is complete because every opened case has a cause and every action a
  type; the recovered cases are those that won and those with nothing proposed
  (`WinnersRecovered`), and executed actions are counted against outcomes
  (`ExecutedVerified`).

Model-checked only: liveness (`EveryCaseSettles`, `JobsFinish`, `SessionsEnd`, and the
counterexamples to `DurableWork`), which rests on fairness and ENABLED.

## 6. What is not modelled, and the plan

Not modelled, and why:

* **Rate limiter**: a window in memory under one lock; no interleaving is left to it.
* **Outbox**: written with a job, read by nothing.
* **E-mail**: a message and an audit row; no recovery state depends on it.
* **Logistic model**: floating-point training and inference. The core lets a
  predictor prefer any candidate, so its theorems hold under this one as well.
* **Copilot, judge demo, command center, web client, scripts, authentication,
  migrations**: text, presentation and release checks over what the services return.
* **A clock per container**: API and worker each keep a clock file in production, so a
  worker may never see an advance. Which files are shared is a matter of deployment;
  the models have one clock.
* In modelled parts: wording, explanations, metadata, telephone numbers, signatures
  (a wrong one is a refusal that changes nothing), percentages and averages.

What a next step could take up:

1. A run with two orders, for the race of two orders under one idempotency key: the
   unique index that decides it is in the model, the run that reaches it is too long.
2. A clock file per container, once a deployment says which files are shared.
3. Detection as a promise: a crash between `fail_payment`'s commits leaves a failed
   payment without a case, and nothing in the repository says what should become of it.

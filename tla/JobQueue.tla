------------------------------ MODULE JobQueue ------------------------------
(***************************************************************************)
(* The database-backed job queue (job_service.py) and the workers that     *)
(* drain it (run_worker.py).  A worker selects a due job, claims it with a *)
(* conditional update, runs the recovery workflow, which commits on its    *)
(* own, and commits the job's completion afterwards.  Any number of        *)
(* workers interleave at each commit; a worker may die between commits.    *)
(*                                                                         *)
(* Time is relative: wait and lease count down to the moment a row becomes *)
(* available or its lease expires.  Rows due at once are picked in any     *)
(* order, which includes the code's order by available_at.  A recovery run *)
(* is abstracted to whether it raises and whether it finishes the case;    *)
(* RecoveryWorkflow models what it does.                                   *)
(***************************************************************************)
EXTENDS Integers, FiniteSets

CONSTANTS Job,          \* jobs, one per idempotency key
          CaseId, Worker, None,
          MaxAttempts,  \* settings.worker_max_attempts
          LeaseTime,    \* settings.worker_lease_seconds
          BackoffStep, BackoffCap,   \* the 5 and 60 of execute_claimed
          MaxCrashes    \* bound: worker deaths that no exception explains

\* The schema also allows CANCELLED, which nothing writes yet.
JobStatus == {"PENDING", "RUNNING", "RETRY", "COMPLETED", "FAILED"}

ASSUME QueueAssumption ==
  /\ MaxAttempts \in Nat \ {0}
  /\ LeaseTime \in Nat /\ BackoffStep \in Nat /\ BackoffCap \in Nat
  /\ MaxCrashes \in Nat
  /\ None \notin CaseId \cup Worker \cup Job \cup JobStatus \cup Nat

VARIABLES jobs,      \* table background_jobs
          worker,    \* where each worker process is, and with which job
          runs,      \* recovery runs committed on behalf of each job
          finished,  \* cases in a terminal state
          crashes    \* deaths so far

vars == <<jobs, worker, runs, finished, crashes>>

\* Mutant: a job to be retried is not selected again.
ClaimableOnce == {"PENDING"}
Claimable == {"PENDING", "RETRY"}
Final     == {"COMPLETED", "FAILED"}

JobRow == [status : JobStatus \cup {None}, case : CaseId \cup {None},
           attempts : Nat, wait : Nat, lease : Nat \cup {None},
           owner : Worker \cup {None}]
AbsentJob == [status |-> None, case |-> None, attempts |-> 0, wait |-> 0,
              lease |-> None, owner |-> None]

Idle == [pc |-> "idle", job |-> None]
Dead == [pc |-> "dead", job |-> None]
WorkerState == {Idle, Dead} \cup [pc : {"picked", "claimed", "ran"}, job : Job]

Init ==
  /\ jobs = [j \in Job |-> AbsentJob]
  /\ worker = [w \in Worker |-> Idle]
  /\ runs = [j \in Job |-> 0]
  /\ finished = {}
  /\ crashes = 0

-----------------------------------------------------------------------------
Submitted(c) == [AbsentJob EXCEPT !.status = "PENDING", !.case = c]

\* POST /jobs/recovery/{case}: a key that is already known changes nothing.
Enqueue(j, c) ==
  /\ jobs[j] = AbsentJob
  /\ jobs' = [jobs EXCEPT ![j] = Submitted(c)]
  /\ UNCHANGED <<worker, runs, finished, crashes>>

\* The direct endpoint, the portal or the autopilot finishes a case.
SettleElsewhere(c) ==
  /\ c \notin finished
  /\ finished' = finished \cup {c}
  /\ UNCHANGED <<jobs, worker, runs, crashes>>

-----------------------------------------------------------------------------
(* claim_due: a select, then a conditional update on the status alone.     *)

Due(j) == /\ jobs[j].status \in Claimable
          /\ jobs[j].wait = 0
          /\ jobs[j].lease \in {None, 0}

Pick(w, j) ==
  /\ worker[w] = Idle
  /\ Due(j)
  /\ worker' = [worker EXCEPT ![w] = [pc |-> "picked", job |-> j]]
  /\ UNCHANGED <<jobs, runs, finished, crashes>>

\* Mutant: the claim is not counted as an attempt.
ClaimedUncounted(row, w) ==
  [row EXCEPT !.status = "RUNNING", !.owner = w, !.lease = LeaseTime]

Claimed(row, w) ==
  [row EXCEPT !.status = "RUNNING", !.owner = w, !.lease = LeaseTime,
              !.attempts = row.attempts + 1]

\* Mutant: the update names the job only.
ClaimBlind(w, j) ==
  /\ worker[w] = [pc |-> "picked", job |-> j]
  /\ jobs' = [jobs EXCEPT ![j] = Claimed(@, w)]
  /\ worker' = [worker EXCEPT ![w] = [pc |-> "claimed", job |-> j]]
  /\ UNCHANGED <<runs, finished, crashes>>

Claim(w, j) ==
  /\ worker[w] = [pc |-> "picked", job |-> j]
  /\ jobs[j].status \in Claimable
  /\ jobs' = [jobs EXCEPT ![j] = Claimed(@, w)]
  /\ worker' = [worker EXCEPT ![w] = [pc |-> "claimed", job |-> j]]
  /\ UNCHANGED <<runs, finished, crashes>>

ClaimLost(w, j) ==
  /\ worker[w] = [pc |-> "picked", job |-> j]
  /\ jobs[j].status \notin Claimable
  /\ worker' = [worker EXCEPT ![w] = Idle]
  /\ UNCHANGED <<jobs, runs, finished, crashes>>

-----------------------------------------------------------------------------
(* execute_claimed: the run commits first, the job's completion second.    *)

\* The run commits; it may or may not bring the case to its end.
RunCommits(w, j) ==
  /\ worker[w] = [pc |-> "claimed", job |-> j]
  /\ jobs[j].case \notin finished
  /\ runs' = [runs EXCEPT ![j] = @ + 1]
  /\ finished' \in {finished, finished \cup {jobs[j].case}}
  /\ worker' = [worker EXCEPT ![w] = [pc |-> "ran", job |-> j]]
  /\ UNCHANGED <<jobs, crashes>>

Completed(row) ==
  [row EXCEPT !.status = "COMPLETED", !.owner = None, !.lease = None]

\* Mutant: the completion does not wait for the run.
CompleteUnrun(w, j) ==
  /\ worker[w] \in [pc : {"claimed", "ran"}, job : {j}]
  /\ jobs' = [jobs EXCEPT ![j] = Completed(@)]
  /\ worker' = [worker EXCEPT ![w] = Idle]
  /\ UNCHANGED <<runs, finished, crashes>>

Complete(w, j) ==
  /\ worker[w] = [pc |-> "ran", job |-> j]
  /\ jobs' = [jobs EXCEPT ![j] = Completed(@)]
  /\ worker' = [worker EXCEPT ![w] = Idle]
  /\ UNCHANGED <<runs, finished, crashes>>

Backoff(n) == IF n * BackoffStep < BackoffCap THEN n * BackoffStep ELSE BackoffCap

\* Mutant: one attempt too many.
RequeuedOffByOne(row) ==
  [row EXCEPT !.status = IF row.attempts > MaxAttempts THEN "FAILED" ELSE "RETRY",
              !.owner = None, !.lease = None, !.wait = Backoff(row.attempts)]

\* The except branch: a spent job fails, any other waits for another attempt.
Requeued(row) ==
  [row EXCEPT !.status = IF row.attempts >= MaxAttempts THEN "FAILED" ELSE "RETRY",
              !.owner = None, !.lease = None, !.wait = Backoff(row.attempts)]

\* Mutant: no except branch.
RaisesUnhandled(w, j) ==
  /\ worker[w] \in [pc : {"claimed", "ran"}, job : {j}]
  /\ worker' = [worker EXCEPT ![w] = Dead]
  /\ UNCHANGED <<jobs, runs, finished, crashes>>

\* The branch re-raises and main() catches nothing: the process ends with the
\* job.  A finished case always raises (CaseAlreadyTerminal), any stage may, and
\* so may the commit of the completion, when the run has already committed.
Raises(w, j) ==
  /\ worker[w] \in [pc : {"claimed", "ran"}, job : {j}]
  /\ jobs' = [jobs EXCEPT ![j] = Requeued(@)]
  /\ worker' = [worker EXCEPT ![w] = Dead]
  /\ UNCHANGED <<runs, finished, crashes>>

-----------------------------------------------------------------------------
Crash(w) ==
  /\ worker[w] # Dead
  /\ crashes < MaxCrashes
  /\ worker' = [worker EXCEPT ![w] = Dead]
  /\ crashes' = crashes + 1
  /\ UNCHANGED <<jobs, runs, finished>>

\* Whoever operates the containers starts the process again.
Restart(w) ==
  /\ worker[w] = Dead
  /\ worker' = [worker EXCEPT ![w] = Idle]
  /\ UNCHANGED <<jobs, runs, finished, crashes>>

\* Mutant: a timer runs through zero.
BeforeUnclamped(n) == IF n = None THEN n ELSE n - 1
Before(n) == IF n \in Nat \ {0} THEN n - 1 ELSE n

Elapsed(row) == IF row.status \in Final THEN row
                ELSE [row EXCEPT !.wait = Before(@), !.lease = Before(@)]

Tick ==
  /\ jobs' = [j \in Job |-> Elapsed(jobs[j])]
  /\ jobs' # jobs
  /\ UNCHANGED <<worker, runs, finished, crashes>>

Work(w) == \E j \in Job : \/ Pick(w, j)       \/ Claim(w, j)
                          \/ ClaimLost(w, j)  \/ RunCommits(w, j)
                          \/ Complete(w, j)   \/ Raises(w, j)

Next ==
  \/ \E j \in Job, c \in CaseId : Enqueue(j, c)
  \/ \E c \in CaseId : SettleElsewhere(c)
  \/ \E w \in Worker : Work(w) \/ Crash(w) \/ Restart(w)
  \/ Tick

Spec == Init /\ [][Next]_vars

\* Live workers keep polling and time passes.  compose starts one worker and
\* gives it no restart policy, so nothing brings a dead one back.
ComposeSpec == Spec /\ (\A w \in Worker : WF_vars(Work(w))) /\ WF_vars(Tick)

\* As above, with someone who restarts dead workers.
AttendedSpec == ComposeSpec /\ \A w \in Worker : WF_vars(Restart(w))

-----------------------------------------------------------------------------
(* Properties.                                                             *)

TypeOK ==
  /\ jobs \in [Job -> JobRow]
  /\ \A j \in Job : jobs[j].case = None => jobs[j] = AbsentJob
  /\ worker \in [Worker -> WorkerState]
  /\ runs \in [Job -> Nat]
  /\ finished \in SUBSET CaseId
  /\ crashes \in Nat

Executes(w, j) == worker[w] \in [pc : {"claimed", "ran"}, job : {j}]

\* The attempt counter follows the lifecycle through every interleaving of stale
\* selects, claims and failures, so that the claim never breaks the database's
\* bound on attempts; and a lease or an owner is set while a job runs, never
\* afterwards.
AttemptsBounded ==
  \A j \in Job :
    LET n == jobs[j].attempts
        s == jobs[j].status
    IN  /\ s \in {None, "PENDING"} => n = 0
        /\ s = "RETRY" => n \in 1..(MaxAttempts - 1)
        /\ s \in {"RUNNING", "COMPLETED"} => n \in 1..MaxAttempts
        /\ s = "FAILED" => n = MaxAttempts
        /\ (s = "RUNNING") <=> (jobs[j].owner # None)
        /\ (s = "RUNNING") <=> (jobs[j].lease # None)

\* A job is executed by one worker at a time, the one its row names ("Only one
\* worker claims a pending job"), although the claim looks at the status only
\* and the completion looks at nothing.
SingleRunner ==
  \A w \in Worker, j \in Job :
    Executes(w, j) =>
      /\ jobs[j].status = "RUNNING"
      /\ jobs[j].owner = w
      /\ \A v \in Worker : Executes(v, j) => v = w

\* The workflow commits at most once per claim, and a completed job's workflow
\* did commit, although the run and the job's completion are separate commits and
\* the second may fail after the first.
RunsCounted ==
  \A j \in Job :
    /\ runs[j] <= jobs[j].attempts
    /\ jobs[j].status = "COMPLETED" => runs[j] >= 1
    /\ (\E w \in Worker : worker[w] = [pc |-> "claimed", job |-> j])
         => runs[j] < jobs[j].attempts

\* A job left RUNNING with nobody executing it.
Orphaned(j) == jobs[j].status = "RUNNING" /\ \A w \in Worker : ~Executes(w, j)

\* Only a crash orphans a job: every exception path gives it back or fails it.
OrphansAreCrashes ==
  \A j \in Job : Orphaned(j) => crashes > 0

\* With workers that are restarted, every submitted job completes or fails,
\* unless a crash has orphaned it.
JobsFinish ==
  \A j \in Job : jobs[j].status # None ~> (jobs[j].status \in Final \/ Orphaned(j))

\* What the documentation says of every submitted job: "the API process accepts
\* durable work ... workers claim it" (docs/deployment.md).
DurableWork ==
  \A j \in Job : jobs[j].status # None ~> jobs[j].status \in Final

-----------------------------------------------------------------------------
(* The queue implements its promise.                                       *)

\* Where a running job stands depends on its worker.
Standing(j) ==
  IF Orphaned(j) THEN "lost"
  ELSE IF \E w \in Worker : worker[w] = [pc |-> "claimed", job |-> j]
  THEN "held" ELSE "run"

Place(j) ==
  CASE jobs[j].status = None -> "absent"
    [] jobs[j].status \in Claimable -> "waiting"
    [] jobs[j].status = "RUNNING" -> Standing(j)
    [] jobs[j].status = "COMPLETED" -> "done"
    [] jobs[j].status = "FAILED" -> "failed"

Promised == INSTANCE QueuePromise WITH
  Nobody  <- None,
  Claims  <- MaxAttempts,
  place   <- [j \in Job |-> Place(j)],
  holder  <- [j \in Job |-> jobs[j].owner],
  claimed <- [j \in Job |-> jobs[j].attempts],
  ran     <- runs

\* Whatever workers select, claim, raise and die in whatever order, each job goes
\* through the life the promise gives it: one worker at a time, one run per claim,
\* no claim beyond the limit, completed only after its run has committed, and
\* finished for good.
QueueKeepsPromise == Promised!QueueSpec
=============================================================================

--------------------------- MODULE JobQueueProofs ---------------------------
(***************************************************************************)
(* Theorems about the job queue, for any number of jobs and workers and    *)
(* any retry limit.                                                        *)
(***************************************************************************)
EXTENDS JobQueue, TLAPS

\* The rows the handlers write are rows, and carry the attempt count they should.
LEMMA ClaimedRow ==
  ASSUME NEW row \in JobRow, NEW w \in Worker
  PROVE  /\ Claimed(row, w) \in JobRow
         /\ Claimed(row, w).status = "RUNNING"
         /\ Claimed(row, w).case = row.case
         /\ Claimed(row, w).attempts = row.attempts + 1
         /\ Claimed(row, w).owner = w
         /\ Claimed(row, w).lease = LeaseTime
<1>1. row.attempts + 1 \in Nat /\ LeaseTime \in Nat
  BY QueueAssumption DEF JobRow
<1>2. /\ Claimed(row, w).status = "RUNNING"
      /\ Claimed(row, w).case = row.case
      /\ Claimed(row, w).attempts = row.attempts + 1
      /\ Claimed(row, w).owner = w
      /\ Claimed(row, w).lease = LeaseTime
  BY DEF Claimed, JobRow
<1>3. Claimed(row, w) \in JobRow
  BY <1>1 DEF Claimed, JobRow, JobStatus
<1> QED
  BY <1>2, <1>3

LEMMA CompletedRow ==
  ASSUME NEW row \in JobRow
  PROVE  /\ Completed(row) \in JobRow
         /\ Completed(row).status = "COMPLETED"
         /\ Completed(row).case = row.case
         /\ Completed(row).attempts = row.attempts
         /\ Completed(row).owner = None
         /\ Completed(row).lease = None
  BY QueueAssumption DEF Completed, JobRow, JobStatus

LEMMA RequeuedRow ==
  ASSUME NEW row \in JobRow
  PROVE  /\ Requeued(row) \in JobRow
         /\ Requeued(row).status = IF row.attempts >= MaxAttempts
                                     THEN "FAILED" ELSE "RETRY"
         /\ Requeued(row).case = row.case
         /\ Requeued(row).attempts = row.attempts
         /\ Requeued(row).owner = None
         /\ Requeued(row).lease = None
<1>1. Backoff(row.attempts) \in Nat
  BY QueueAssumption DEF Backoff, JobRow
<1> QED
  BY <1>1, QueueAssumption DEF Requeued, JobRow, JobStatus

LEMMA SubmittedRow ==
  ASSUME NEW c \in CaseId
  PROVE  /\ Submitted(c) \in JobRow
         /\ Submitted(c).status = "PENDING"
         /\ Submitted(c).case = c
         /\ Submitted(c).attempts = 0
         /\ Submitted(c).owner = None
         /\ Submitted(c).lease = None
  BY QueueAssumption DEF Submitted, AbsentJob, JobRow, JobStatus

\* Time changes the timers of a row and nothing else.
LEMMA ElapsedRow ==
  ASSUME NEW row \in JobRow
  PROVE  /\ Elapsed(row) \in JobRow
         /\ Elapsed(row).status = row.status
         /\ Elapsed(row).case = row.case
         /\ Elapsed(row).attempts = row.attempts
         /\ Elapsed(row).owner = row.owner
         /\ (Elapsed(row).lease = None) <=> (row.lease = None)
<1>1. /\ Before(row.wait) \in Nat
      /\ Before(row.lease) \in Nat \cup {None}
      /\ (Before(row.lease) = None) <=> (row.lease = None)
  BY QueueAssumption DEF Before, JobRow
<1> QED
  BY <1>1, QueueAssumption DEF Elapsed, JobRow, JobStatus
-----------------------------------------------------------------------------
(* The three invariants hold together: only the executing worker writes a  *)
(* running row (SingleRunner), which is what lets the completion and the   *)
(* except branch rely on the status and the attempt count they find.       *)

SafeInv == TypeOK /\ AttemptsBounded /\ SingleRunner

LEMMA InitSafe == Init => SafeInv
  BY QueueAssumption DEF Init, SafeInv, TypeOK, AttemptsBounded, SingleRunner,
     Executes, JobRow, AbsentJob, WorkerState, Idle, Dead, JobStatus

\* What a step that writes one row, and moves one worker, has to show.
LEMMA TypeStep ==
  ASSUME TypeOK, NEW j \in Job, NEW row \in JobRow, row.case # None,
         NEW w \in Worker, NEW state \in WorkerState,
         jobs' = [jobs EXCEPT ![j] = row],
         worker' = [worker EXCEPT ![w] = state],
         UNCHANGED <<runs, finished, crashes>>
  PROVE  TypeOK'
  BY DEF TypeOK

LEMMA SafeStep == SafeInv /\ [Next]_vars => SafeInv'
<1> SUFFICES ASSUME SafeInv, [Next]_vars PROVE SafeInv'
  OBVIOUS
<1> USE DEF SafeInv
<1>1. ASSUME NEW j \in Job, NEW c \in CaseId, Enqueue(j, c) PROVE SafeInv'
  <2>1. /\ jobs' = [jobs EXCEPT ![j] = Submitted(c)]
        /\ UNCHANGED <<worker, runs, finished, crashes>>
        /\ jobs[j].status = None
    BY <1>1 DEF Enqueue, AbsentJob
  <2>2. TypeOK'
    BY <2>1, SubmittedRow, QueueAssumption DEF TypeOK
  <2>3. AttemptsBounded'
    BY <2>1, SubmittedRow, QueueAssumption DEF AttemptsBounded, TypeOK, JobStatus
  <2>4. SingleRunner'
    BY <2>1, QueueAssumption DEF SingleRunner, Executes, TypeOK, JobStatus
  <2> QED
    BY <2>2, <2>3, <2>4
<1>2. ASSUME NEW c \in CaseId, SettleElsewhere(c) PROVE SafeInv'
  BY <1>2 DEF SettleElsewhere, TypeOK, AttemptsBounded, SingleRunner, Executes
<1>3. ASSUME NEW w \in Worker, NEW j \in Job, Pick(w, j) PROVE SafeInv'
  <2>1. TypeOK'
    BY <1>3 DEF Pick, TypeOK, WorkerState
  <2>2. AttemptsBounded'
    BY <1>3 DEF Pick, AttemptsBounded
  <2>3. SingleRunner'
    BY <1>3 DEF Pick, SingleRunner, Executes, TypeOK
  <2> QED
    BY <2>1, <2>2, <2>3
<1>4. ASSUME NEW w \in Worker, NEW j \in Job, Claim(w, j) PROVE SafeInv'
  <2>1. /\ jobs[j].status \in Claimable
        /\ jobs' = [jobs EXCEPT ![j] = Claimed(jobs[j], w)]
        /\ worker' = [worker EXCEPT ![w] = [pc |-> "claimed", job |-> j]]
        /\ worker[w] = [pc |-> "picked", job |-> j]
        /\ UNCHANGED <<runs, finished, crashes>>
    BY <1>4 DEF Claim
  <2>2. [pc |-> "claimed", job |-> j] \in WorkerState
    BY DEF WorkerState
  <2>3. jobs[j] \in JobRow /\ jobs[j].case # None
    BY <2>1, QueueAssumption DEF TypeOK, AbsentJob, Claimable, JobStatus
  <2>4. TypeOK'
    <3>1. Claimed(jobs[j], w) \in JobRow /\ Claimed(jobs[j], w).case # None
      BY <2>3, ClaimedRow
    <3> QED
      BY <2>1, <2>2, <3>1 DEF TypeOK
  <2>5. AttemptsBounded'
    <3>1. jobs[j].attempts \in 0..(MaxAttempts - 1)
      BY <2>1, <2>3, QueueAssumption DEF AttemptsBounded, Claimable, JobRow
    <3>2. ASSUME NEW i \in Job PROVE i # j => jobs'[i] = jobs[i]
      BY <2>1 DEF TypeOK
    <3>3. jobs'[j] = Claimed(jobs[j], w)
      BY <2>1 DEF TypeOK
    <3>4. /\ jobs'[j].status = "RUNNING"
          /\ jobs'[j].attempts \in 1..MaxAttempts
          /\ jobs'[j].owner # None /\ jobs'[j].lease # None
      BY <2>3, <3>1, <3>3, ClaimedRow, QueueAssumption
    <3> QED
      BY <3>2, <3>4, QueueAssumption DEF AttemptsBounded, JobStatus
  <2>6. SingleRunner'
    <3>1. \A v \in Worker : ~Executes(v, j)
      BY <2>1 DEF SingleRunner, Claimable
    <3>2. \A v \in Worker, i \in Job :
             Executes(v, i)' => Executes(v, i) \/ (v = w /\ i = j)
      BY <2>1 DEF Executes, TypeOK
    <3>3. \A i \in Job : jobs'[i] = IF i = j THEN Claimed(jobs[j], w) ELSE jobs[i]
      BY <2>1 DEF TypeOK
    <3>4. /\ Claimed(jobs[j], w).status = "RUNNING"
          /\ Claimed(jobs[j], w).owner = w
      BY <2>3, ClaimedRow
    <3>5. \A i \in Job : i # j => ~Executes(w, i)
      BY <2>1 DEF Executes
    <3> QED
      BY <3>1, <3>2, <3>3, <3>4, <3>5 DEF SingleRunner
  <2> QED
    BY <2>4, <2>5, <2>6
<1>5. ASSUME NEW w \in Worker, NEW j \in Job, ClaimLost(w, j) PROVE SafeInv'
  <2>1. TypeOK'
    BY <1>5 DEF ClaimLost, TypeOK, WorkerState
  <2>2. AttemptsBounded'
    BY <1>5 DEF ClaimLost, AttemptsBounded
  <2>3. SingleRunner'
    BY <1>5 DEF ClaimLost, SingleRunner, Executes, TypeOK, Idle
  <2> QED
    BY <2>1, <2>2, <2>3
<1>6. ASSUME NEW w \in Worker, NEW j \in Job, RunCommits(w, j) PROVE SafeInv'
  <2>1. /\ worker' = [worker EXCEPT ![w] = [pc |-> "ran", job |-> j]]
        /\ [pc |-> "ran", job |-> j] \in WorkerState
        /\ Executes(w, j)
    BY <1>6 DEF RunCommits, WorkerState, Executes
  <2>2. jobs[j].case \in CaseId
    BY <2>1, QueueAssumption
    DEF SingleRunner, TypeOK, AbsentJob, JobRow, JobStatus
  <2>3. TypeOK'
    BY <1>6, <2>1, <2>2 DEF RunCommits, TypeOK
  <2>4. AttemptsBounded'
    BY <1>6 DEF RunCommits, AttemptsBounded
  <2>5. \A v \in Worker, i \in Job : Executes(v, i)' <=> Executes(v, i)
    BY <1>6, <2>1 DEF RunCommits, Executes, TypeOK
  <2>6. SingleRunner'
    BY <1>6, <2>5 DEF RunCommits, SingleRunner
  <2> QED
    BY <2>3, <2>4, <2>6
<1>7. ASSUME NEW w \in Worker, NEW j \in Job, NEW row \in JobRow,
             Executes(w, j), NEW state \in {Idle, Dead},
             row.case = jobs[j].case, row.attempts = jobs[j].attempts,
             row.owner = None, row.lease = None,
             row.status = "COMPLETED"
               \/ row.status = IF row.attempts >= MaxAttempts THEN "FAILED" ELSE "RETRY",
             jobs' = [jobs EXCEPT ![j] = row],
             worker' = [worker EXCEPT ![w] = state],
             UNCHANGED <<runs, finished, crashes>>
      PROVE  SafeInv'
  <2>1. jobs[j].status = "RUNNING" /\ \A v \in Worker : Executes(v, j) => v = w
    BY <1>7 DEF SingleRunner
  <2>2. jobs[j].case # None
    BY <2>1, QueueAssumption DEF TypeOK, AbsentJob, JobStatus
  <2>3. TypeOK'
    BY <1>7, <2>2, TypeStep DEF WorkerState
  <2>4. jobs[j].attempts \in 1..MaxAttempts
    BY <2>1, QueueAssumption DEF AttemptsBounded, JobStatus
  <2>5. \A i \in Job : jobs'[i] = IF i = j THEN row ELSE jobs[i]
    BY <1>7 DEF TypeOK
  <2>6. AttemptsBounded'
    BY <1>7, <2>4, <2>5, QueueAssumption DEF AttemptsBounded, JobStatus
  <2>7. \A v \in Worker, i \in Job : Executes(v, i)' => v # w /\ Executes(v, i)
    BY <1>7, QueueAssumption DEF Executes, TypeOK, Idle, Dead
  <2>8. SingleRunner'
    BY <2>1, <2>5, <2>7 DEF SingleRunner
  <2> QED
    BY <2>3, <2>6, <2>8
<1>8. ASSUME NEW w \in Worker, NEW j \in Job, Complete(w, j) PROVE SafeInv'
  <2>1. Executes(w, j) /\ jobs[j] \in JobRow
    BY <1>8 DEF Complete, Executes, TypeOK
  <2> QED
    BY <1>7, <1>8, <2>1, CompletedRow DEF Complete
<1>9. ASSUME NEW w \in Worker, NEW j \in Job, Raises(w, j) PROVE SafeInv'
  <2>1. Executes(w, j) /\ jobs[j] \in JobRow
    BY <1>9 DEF Raises, Executes, TypeOK
  <2> QED
    BY <1>7, <1>9, <2>1, RequeuedRow DEF Raises
<1>10. ASSUME NEW w \in Worker, Crash(w) \/ Restart(w) PROVE SafeInv'
  <2>1. TypeOK'
    BY <1>10 DEF Crash, Restart, TypeOK, WorkerState
  <2>2. AttemptsBounded'
    BY <1>10 DEF Crash, Restart, AttemptsBounded
  <2>3. \A v \in Worker, i \in Job : Executes(v, i)' => Executes(v, i)
    BY <1>10 DEF Crash, Restart, Executes, TypeOK, Idle, Dead
  <2>4. SingleRunner'
    BY <1>10, <2>3 DEF Crash, Restart, SingleRunner
  <2> QED
    BY <2>1, <2>2, <2>4
<1>11. ASSUME Tick PROVE SafeInv'
  <2>1. \A i \in Job : jobs[i] \in JobRow /\ jobs'[i] = Elapsed(jobs[i])
    BY <1>11 DEF Tick, TypeOK
  <2>2. \A i \in Job : jobs[i] = AbsentJob => jobs'[i] = AbsentJob
    <3>1. Before(0) = 0 /\ Before(None) = None
      BY QueueAssumption DEF Before
    <3>2. Elapsed(AbsentJob) = AbsentJob
      BY <3>1 DEF Elapsed, AbsentJob
    <3> QED
      BY <2>1, <3>2
  <2>3. TypeOK'
    BY <1>11, <2>1, <2>2, ElapsedRow DEF Tick, TypeOK
  <2>4. AttemptsBounded'
    BY <2>1, ElapsedRow DEF AttemptsBounded
  <2>5. SingleRunner'
    BY <1>11, <2>1, ElapsedRow DEF Tick, SingleRunner, Executes
  <2> QED
    BY <2>3, <2>4, <2>5
<1>12. ASSUME UNCHANGED vars PROVE SafeInv'
  BY <1>12 DEF vars, TypeOK, AttemptsBounded, SingleRunner, Executes
<1> QED
  BY <1>1, <1>2, <1>3, <1>4, <1>5, <1>6, <1>8, <1>9, <1>10, <1>11, <1>12
  DEF Next, Work

\* Every table and every worker process keeps its type through every step of
\* claim_due and execute_claimed.
THEOREM TypeCorrect == Spec => []TypeOK
  BY InitSafe, SafeStep, PTL DEF Spec, SafeInv

\* The attempt counter never leaves the range the database check allows, however
\* workers interleave between the select and the conditional update.
THEOREM AttemptsCorrect == Spec => []AttemptsBounded
  BY InitSafe, SafeStep, PTL DEF Spec, SafeInv

\* No two workers ever execute the same job, and the row of a job names the one
\* that does.
THEOREM ExclusionCorrect == Spec => []SingleRunner
  BY InitSafe, SafeStep, PTL DEF Spec, SafeInv
-----------------------------------------------------------------------------
\* RunsCounted speaks of claims and completions; between the two, the worker
\* that ran the workflow knows it did.
RunsInv ==
  /\ RunsCounted
  /\ \A w \in Worker, j \in Job :
       worker[w] = [pc |-> "ran", job |-> j] => runs[j] >= 1

LEMMA InitRuns == Init => RunsInv
  BY QueueAssumption DEF Init, RunsInv, RunsCounted, AbsentJob, Idle, JobStatus

LEMMA RunsStep == SafeInv /\ RunsInv /\ [Next]_vars => RunsInv'
<1> SUFFICES ASSUME SafeInv, RunsInv, [Next]_vars PROVE RunsInv'
  OBVIOUS
<1> USE DEF SafeInv
<1>1. ASSUME NEW j \in Job, NEW c \in CaseId, Enqueue(j, c) PROVE RunsInv'
  <2>1. \A i \in Job : jobs'[i] = IF i = j THEN Submitted(c) ELSE jobs[i]
    BY <1>1 DEF Enqueue, TypeOK
  <2>2. jobs[j].attempts = 0
    BY <1>1 DEF Enqueue, AbsentJob
  <2> QED
    BY <1>1, <2>1, <2>2, SubmittedRow
    DEF Enqueue, RunsInv, RunsCounted
<1>2. ASSUME NEW w \in Worker, NEW j \in Job, Claim(w, j) PROVE RunsInv'
  <2>1. \A i \in Job : jobs'[i] = IF i = j THEN Claimed(jobs[j], w) ELSE jobs[i]
    BY <1>2 DEF Claim, TypeOK
  <2>2. /\ Claimed(jobs[j], w).status = "RUNNING"
        /\ Claimed(jobs[j], w).attempts = jobs[j].attempts + 1
        /\ jobs[j].attempts \in Nat /\ runs[j] \in Nat
    BY ClaimedRow DEF TypeOK, JobRow
  <2>3. \A v \in Worker : worker'[v] =
           IF v = w THEN [pc |-> "claimed", job |-> j] ELSE worker[v]
    BY <1>2 DEF Claim, TypeOK
  <2> QED
    BY <1>2, <2>1, <2>2, <2>3 DEF Claim, RunsInv, RunsCounted
<1>3. ASSUME NEW w \in Worker, NEW j \in Job, RunCommits(w, j) PROVE RunsInv'
  <2>1. \A i \in Job : runs'[i] = IF i = j THEN runs[j] + 1 ELSE runs[i]
    BY <1>3 DEF RunCommits, TypeOK
  <2>2. /\ runs[j] \in Nat /\ jobs[j].attempts \in Nat
        /\ runs[j] < jobs[j].attempts
    BY <1>3 DEF RunCommits, RunsInv, RunsCounted, TypeOK, JobRow
  <2>3. \A v \in Worker : worker'[v] =
           IF v = w THEN [pc |-> "ran", job |-> j] ELSE worker[v]
    BY <1>3 DEF RunCommits, TypeOK
  <2>4. \A v \in Worker : worker[v] = [pc |-> "claimed", job |-> j] => v = w
    BY <1>3 DEF RunCommits, SingleRunner, Executes
  <2> QED
    BY <1>3, <2>1, <2>2, <2>3, <2>4 DEF RunCommits, RunsInv, RunsCounted, TypeOK
<1>4. ASSUME NEW w \in Worker, NEW j \in Job, NEW row \in JobRow,
             row.attempts = jobs[j].attempts,
             row.status = "COMPLETED" => worker[w] = [pc |-> "ran", job |-> j],
             jobs' = [jobs EXCEPT ![j] = row],
             NEW state \in {Idle, Dead}, worker' = [worker EXCEPT ![w] = state],
             UNCHANGED runs
      PROVE  RunsInv'
  <2>1. \A i \in Job : jobs'[i] = IF i = j THEN row ELSE jobs[i]
    BY <1>4 DEF TypeOK
  <2>2. \A v \in Worker : worker'[v] = IF v = w THEN state ELSE worker[v]
    BY <1>4 DEF TypeOK
  <2>3. state.pc \notin {"claimed", "ran"}
    BY <1>4 DEF Idle, Dead
  <2> QED
    BY <1>4, <2>1, <2>2, <2>3 DEF RunsInv, RunsCounted
<1>5. ASSUME NEW w \in Worker, NEW j \in Job, Complete(w, j) PROVE RunsInv'
  <2>1. jobs[j] \in JobRow
    BY DEF TypeOK
  <2> QED
    BY <1>4, <1>5, <2>1, CompletedRow DEF Complete
<1>6. ASSUME NEW w \in Worker, NEW j \in Job, Raises(w, j) PROVE RunsInv'
  <2>1. jobs[j] \in JobRow
    BY DEF TypeOK
  <2>2. Requeued(jobs[j]).status # "COMPLETED"
    BY <2>1, RequeuedRow
  <2> QED
    BY <1>4, <1>6, <2>1, <2>2, RequeuedRow DEF Raises
<1>7. ASSUME Tick PROVE RunsInv'
  <2>1. \A i \in Job : jobs[i] \in JobRow /\ jobs'[i] = Elapsed(jobs[i])
    BY <1>7 DEF Tick, TypeOK
  <2> QED
    BY <1>7, <2>1, ElapsedRow DEF Tick, RunsInv, RunsCounted
<1>8. ASSUME NEW w \in Worker, NEW j \in Job,
             Pick(w, j) \/ ClaimLost(w, j)
      PROVE  RunsInv'
  BY <1>8 DEF Pick, ClaimLost, RunsInv, RunsCounted, TypeOK, Idle
<1>9. ASSUME NEW w \in Worker, Crash(w) \/ Restart(w) PROVE RunsInv'
  BY <1>9 DEF Crash, Restart, RunsInv, RunsCounted, TypeOK, Idle, Dead
<1>10. ASSUME NEW c \in CaseId, SettleElsewhere(c) PROVE RunsInv'
  BY <1>10 DEF SettleElsewhere, RunsInv, RunsCounted
<1>11. ASSUME UNCHANGED vars PROVE RunsInv'
  BY <1>11 DEF vars, RunsInv, RunsCounted
<1> QED
  BY <1>1, <1>2, <1>3, <1>5, <1>6, <1>7, <1>8, <1>9, <1>10, <1>11 DEF Next, Work

\* The workflow commits at most once per counted attempt, hence at most
\* max_attempts times for one job, and a completed job's workflow has committed.
THEOREM RunsCorrect == Spec => []RunsCounted
  BY InitSafe, SafeStep, InitRuns, RunsStep, PTL DEF Spec, RunsInv

-----------------------------------------------------------------------------
LEMMA OrphanStep == SafeInv /\ OrphansAreCrashes /\ [Next]_vars => OrphansAreCrashes'
<1> SUFFICES ASSUME SafeInv, OrphansAreCrashes, [Next]_vars,
                    NEW i \in Job, Orphaned(i)'
             PROVE  (crashes > 0)'
  BY DEF OrphansAreCrashes
<1> USE DEF SafeInv
<1>1. ASSUME Orphaned(i), UNCHANGED crashes PROVE (crashes > 0)'
  BY <1>1 DEF OrphansAreCrashes
<1>2. ASSUME NEW j \in Job, NEW c \in CaseId, Enqueue(j, c) PROVE (crashes > 0)'
  BY <1>1, <1>2, SubmittedRow DEF Enqueue, Orphaned, Executes, TypeOK
<1>3. ASSUME NEW w \in Worker, NEW j \in Job, Claim(w, j) PROVE (crashes > 0)'
  <2>1. Executes(w, j)' /\ i # j
    BY <1>3 DEF Claim, Executes, Orphaned, TypeOK
  <2> QED
    BY <1>1, <1>3, <2>1 DEF Claim, Orphaned, Executes, TypeOK
<1>4. ASSUME NEW w \in Worker, NEW j \in Job, Complete(w, j) \/ Raises(w, j)
      PROVE  (crashes > 0)'
  <2>1. jobs[j] \in JobRow
    BY DEF TypeOK
  <2>2. i # j
    BY <1>4, <2>1, CompletedRow, RequeuedRow DEF Complete, Raises, Orphaned, TypeOK
  <2> QED
    BY <1>1, <1>4, <2>2 DEF Complete, Raises, Orphaned, Executes, TypeOK
<1>5. ASSUME NEW w \in Worker, NEW j \in Job,
             Pick(w, j) \/ ClaimLost(w, j) \/ RunCommits(w, j)
      PROVE  (crashes > 0)'
  <2>1. \A v \in Worker : Executes(v, i) => Executes(v, i)'
    BY <1>5 DEF Pick, ClaimLost, RunCommits, Executes, TypeOK, Idle
  <2> QED
    BY <1>1, <1>5, <2>1 DEF Pick, ClaimLost, RunCommits, Orphaned
<1>6. ASSUME NEW w \in Worker, Crash(w) PROVE (crashes > 0)'
  BY <1>6 DEF Crash, TypeOK
<1>7. ASSUME NEW w \in Worker, Restart(w) PROVE (crashes > 0)'
  <2>1. \A v \in Worker : Executes(v, i) => Executes(v, i)'
    BY <1>7 DEF Restart, Executes, TypeOK, Dead
  <2> QED
    BY <1>1, <1>7, <2>1 DEF Restart, Orphaned
<1>8. ASSUME Tick PROVE (crashes > 0)'
  <2>1. jobs'[i].status = jobs[i].status
    BY <1>8, ElapsedRow DEF Tick, TypeOK
  <2> QED
    BY <1>1, <1>8, <2>1 DEF Tick, Orphaned, Executes
<1>9. ASSUME NEW c \in CaseId, SettleElsewhere(c) PROVE (crashes > 0)'
  BY <1>1, <1>9 DEF SettleElsewhere, Orphaned, Executes
<1>10. ASSUME UNCHANGED vars PROVE (crashes > 0)'
  BY <1>1, <1>10 DEF vars, Orphaned, Executes
<1> QED
  BY <1>2, <1>3, <1>4, <1>5, <1>6, <1>7, <1>8, <1>9, <1>10 DEF Next, Work

\* A RUNNING job that nobody executes is the trace of a crash: no path through
\* execute_claimed leaves one behind.
THEOREM OrphanCorrect == Spec => []OrphansAreCrashes
<1>1. Init => OrphansAreCrashes
  BY QueueAssumption DEF Init, OrphansAreCrashes, Orphaned, AbsentJob, JobStatus
<1> QED
  BY <1>1, InitSafe, SafeStep, OrphanStep, PTL DEF Spec

-----------------------------------------------------------------------------
(* The queue implements its promise.                                       *)

PlaceMap  == [j \in Job |-> Place(j)]
HolderMap == [j \in Job |-> jobs[j].owner]
ClaimMap  == [j \in Job |-> jobs[j].attempts]

\* What the place of a job says about its row and its worker.
PlaceInv == \A j \in Job :
  /\ jobs[j].status = None => Place(j) = "absent"
  /\ jobs[j].status \in Claimable => Place(j) = "waiting"
  /\ jobs[j].status = "COMPLETED" => Place(j) = "done"
  /\ jobs[j].status = "FAILED" => Place(j) = "failed"
  /\ \A w \in Worker :
       /\ worker[w] = [pc |-> "claimed", job |-> j] => Place(j) = "held"
       /\ worker[w] = [pc |-> "ran", job |-> j] => Place(j) = "run"
  /\ Orphaned(j) => Place(j) = "lost"
  /\ Place(j) \in {"held", "run"} => \E w \in Worker : Executes(w, j)

\* A worker that executes a job has claimed it, or has run it as well.
LEMMA ExecutesWhat ==
  \A w \in Worker, j \in Job :
    Executes(w, j) <=> \/ worker[w] = [pc |-> "claimed", job |-> j]
                       \/ worker[w] = [pc |-> "ran", job |-> j]
  BY DEF Executes

LEMMA PlaceHolds == SafeInv => PlaceInv
<1> SUFFICES ASSUME SafeInv, NEW j \in Job
             PROVE  /\ jobs[j].status = None => Place(j) = "absent"
                    /\ jobs[j].status \in Claimable => Place(j) = "waiting"
                    /\ jobs[j].status = "COMPLETED" => Place(j) = "done"
                    /\ jobs[j].status = "FAILED" => Place(j) = "failed"
                    /\ \A w \in Worker :
                         /\ worker[w] = [pc |-> "claimed", job |-> j] => Place(j) = "held"
                         /\ worker[w] = [pc |-> "ran", job |-> j] => Place(j) = "run"
                    /\ Orphaned(j) => Place(j) = "lost"
                    /\ Place(j) \in {"held", "run"} => \E w \in Worker : Executes(w, j)
  BY DEF PlaceInv
<1>1. jobs[j].status \in JobStatus \cup {None} /\ None \notin JobStatus
  BY QueueAssumption DEF SafeInv, TypeOK, JobRow
<1>2. CASE jobs[j].status # "RUNNING"
  BY <1>1, <1>2 DEF Place, SafeInv, SingleRunner, Executes, Orphaned, Claimable, JobStatus
<1>3. CASE jobs[j].status = "RUNNING"
  <2>1. Place(j) = IF Orphaned(j) THEN "lost"
                   ELSE IF \E w \in Worker : worker[w] = [pc |-> "claimed", job |-> j]
                   THEN "held" ELSE "run"
    BY <1>1, <1>3 DEF Place, Standing, Claimable, JobStatus
  <2>2. \A w, v \in Worker : Executes(w, j) /\ Executes(v, j) => v = w
    BY DEF SafeInv, SingleRunner
  <2>3. Orphaned(j) <=> \A w \in Worker : ~Executes(w, j)
    BY <1>3 DEF Orphaned
  <2> QED
    <3>1. ASSUME NEW w \in Worker, worker[w] = [pc |-> "claimed", job |-> j]
          PROVE  Place(j) = "held"
      BY <2>1, <2>3, <3>1, ExecutesWhat
    <3>2. ASSUME NEW w \in Worker, worker[w] = [pc |-> "ran", job |-> j]
          PROVE  Place(j) = "run"
      <4>1. Executes(w, j)
        BY <3>2, ExecutesWhat
      <4>2. ASSUME NEW v \in Worker PROVE worker[v] # [pc |-> "claimed", job |-> j]
        <5>1. [pc |-> "claimed", job |-> j] # [pc |-> "ran", job |-> j]
          OBVIOUS
        <5> QED
          BY <2>2, <3>2, <4>1, <5>1, ExecutesWhat
      <4> QED
        BY <2>1, <2>3, <4>1, <4>2
    <3>3. Orphaned(j) => Place(j) = "lost"
      BY <2>1
    <3>4. Place(j) \in {"held", "run"} => \E w \in Worker : Executes(w, j)
      BY <2>1, <2>3
    <3>5. jobs[j].status # None /\ jobs[j].status \notin Claimable
      BY <1>1, <1>3 DEF Claimable, JobStatus
    <3>6. jobs[j].status # "COMPLETED" /\ jobs[j].status # "FAILED"
      BY <1>3
    <3> QED
      BY <3>1, <3>2, <3>3, <3>4, <3>5, <3>6, Zenon
<1> QED
  BY <1>2, <1>3

\* A job that a worker executes is held, or its workflow has run.
LEMMA ExecutedPlace ==
  ASSUME PlaceInv, NEW w \in Worker, NEW j \in Job, Executes(w, j)
  PROVE  Place(j) \in {"held", "run"}
<1>1. CASE worker[w] = [pc |-> "claimed", job |-> j]
  <2>1. Place(j) = "held"
    BY <1>1, Zenon DEF PlaceInv
  <2> QED
    BY <2>1
<1>2. CASE worker[w] = [pc |-> "ran", job |-> j]
  <2>1. Place(j) = "run"
    BY <1>2, Zenon DEF PlaceInv
  <2> QED
    BY <2>1
<1> QED
  BY <1>1, <1>2, ExecutesWhat

\* A job keeps its place while its status and its worker stay.
LEMMA SamePlace ==
  ASSUME NEW j \in Job, jobs'[j].status = jobs[j].status,
         \A w \in Worker :
           /\ (worker'[w] = [pc |-> "claimed", job |-> j])
                <=> (worker[w] = [pc |-> "claimed", job |-> j])
           /\ (worker'[w] = [pc |-> "ran", job |-> j])
                <=> (worker[w] = [pc |-> "ran", job |-> j])
  PROVE  Place(j)' = Place(j)
  BY DEF Place, Standing, Orphaned, Executes

\* A step that concerns one job moves the promise at that job.
LEMMA OneMoves ==
  ASSUME SafeInv, NEW j \in Job, NEW w \in Worker,
         jobs' \in [Job -> JobRow], worker' \in [Worker -> WorkerState],
         \A k \in Job \ {j} : jobs'[k] = jobs[k],
         \A v \in Worker \ {w} : worker'[v] = worker[v],
         \A k \in Job \ {j} : ~Executes(w, k) /\ ~Executes(w, k)'
  PROVE  /\ PlaceMap' = [PlaceMap EXCEPT ![j] = Place(j)']
         /\ HolderMap' = [HolderMap EXCEPT ![j] = jobs'[j].owner]
         /\ ClaimMap' = [ClaimMap EXCEPT ![j] = jobs'[j].attempts]
<1>1. ASSUME NEW k \in Job \ {j} PROVE Place(k)' = Place(k)
  <2>1. ASSUME NEW v \in Worker
        PROVE  /\ (worker'[v] = [pc |-> "claimed", job |-> k])
                    <=> (worker[v] = [pc |-> "claimed", job |-> k])
               /\ (worker'[v] = [pc |-> "ran", job |-> k])
                    <=> (worker[v] = [pc |-> "ran", job |-> k])
    <3>1. CASE v = w
      BY <3>1 DEF Executes
    <3> QED
      BY <3>1
  <2> QED
    BY <2>1, SamePlace
<1> QED
  BY <1>1 DEF PlaceMap, HolderMap, ClaimMap

\* The rest of the queue's steps leave the promise where it was.
LEMMA NoneMoves ==
  ASSUME \A j \in Job : /\ jobs'[j].status = jobs[j].status
                        /\ jobs'[j].owner = jobs[j].owner
                        /\ jobs'[j].attempts = jobs[j].attempts,
         \A w \in Worker, j \in Job :
           /\ (worker'[w] = [pc |-> "claimed", job |-> j])
                <=> (worker[w] = [pc |-> "claimed", job |-> j])
           /\ (worker'[w] = [pc |-> "ran", job |-> j])
                <=> (worker[w] = [pc |-> "ran", job |-> j]),
         runs' = runs
  PROVE  UNCHANGED Promised!queueVars
<1>1. \A j \in Job : Place(j)' = Place(j)
  BY SamePlace
<1> QED
  BY <1>1 DEF Promised!queueVars

LEMMA EnqueueKeeps ==
  ASSUME SafeInv, SafeInv', NEW j \in Job, NEW c \in CaseId, Enqueue(j, c)
  PROVE  Promised!Submit(j)
<1>1. PlaceInv /\ PlaceInv'
  BY PlaceHolds, PTL
<1>2. /\ jobs[j].status = None /\ jobs[j].owner = None /\ jobs[j].attempts = 0
      /\ jobs'[j] = Submitted(c) /\ \A k \in Job \ {j} : jobs'[k] = jobs[k]
      /\ worker' = worker /\ runs' = runs
  BY DEF Enqueue, SafeInv, TypeOK, AbsentJob
<1>3. jobs'[j].status = "PENDING" /\ jobs'[j].owner = None /\ jobs'[j].attempts = 0
  BY <1>2, SubmittedRow
<1>4. Place(j) = "absent" /\ Place(j)' = "waiting"
  BY <1>1, <1>2, <1>3 DEF PlaceInv, Claimable
<1>5. \A k \in Job \ {j} : Place(k)' = Place(k)
  BY <1>2, SamePlace
<1>6. /\ PlaceMap' = [PlaceMap EXCEPT ![j] = "waiting"] /\ PlaceMap[j] = "absent"
      /\ HolderMap' = HolderMap /\ ClaimMap' = ClaimMap
  BY <1>2, <1>3, <1>4, <1>5 DEF PlaceMap, HolderMap, ClaimMap
<1> QED
  BY <1>2, <1>6 DEF Promised!Submit, Promised!Puts, PlaceMap, HolderMap, ClaimMap

LEMMA ClaimKeeps ==
  ASSUME SafeInv, SafeInv', NEW w \in Worker, NEW j \in Job, Claim(w, j)
  PROVE  Promised!Take(w, j)
<1>1. PlaceInv /\ PlaceInv'
  BY PlaceHolds, PTL
<1>2. /\ worker[w] = [pc |-> "picked", job |-> j] /\ jobs[j].status \in Claimable
      /\ jobs'[j] = Claimed(jobs[j], w) /\ \A k \in Job \ {j} : jobs'[k] = jobs[k]
      /\ worker'[w] = [pc |-> "claimed", job |-> j]
      /\ \A v \in Worker \ {w} : worker'[v] = worker[v]
      /\ runs' = runs
      /\ jobs[j] \in JobRow
  BY DEF Claim, SafeInv, TypeOK
<1>3. jobs'[j].owner = w /\ jobs'[j].attempts = jobs[j].attempts + 1
  BY <1>2, ClaimedRow
<1>4. Place(j) = "waiting" /\ Place(j)' = "held"
  BY <1>1, <1>2 DEF PlaceInv
<1>5. \A k \in Job : ~Executes(w, k)
  BY <1>2 DEF Executes
<1>6. jobs[j].attempts < MaxAttempts
  BY <1>2, QueueAssumption DEF SafeInv, AttemptsBounded, Claimable
<1>7. \A k \in Job : jobs[k].owner = w => Place(k) \notin {"held", "run"}
  <2> SUFFICES ASSUME NEW k \in Job, jobs[k].owner = w, Place(k) \in {"held", "run"}
               PROVE  FALSE
    OBVIOUS
  <2>1. PICK v \in Worker : Executes(v, k)
    BY <1>1 DEF PlaceInv
  <2>2. v = w
    BY <2>1 DEF SafeInv, SingleRunner
  <2> QED
    BY <1>5, <2>1, <2>2
<1>8. /\ PlaceMap' = [PlaceMap EXCEPT ![j] = "held"] /\ PlaceMap[j] = "waiting"
      /\ HolderMap' = [HolderMap EXCEPT ![j] = w]
      /\ ClaimMap' = [ClaimMap EXCEPT ![j] = @ + 1] /\ ClaimMap[j] < MaxAttempts
      /\ \A k \in Job : HolderMap[k] = w => PlaceMap[k] \notin {"held", "run"}
  <2>1. \A k \in Job \ {j} : ~Executes(w, k)'
    BY <1>2 DEF Executes
  <2>2. /\ PlaceMap' = [PlaceMap EXCEPT ![j] = Place(j)']
        /\ HolderMap' = [HolderMap EXCEPT ![j] = jobs'[j].owner]
        /\ ClaimMap' = [ClaimMap EXCEPT ![j] = jobs'[j].attempts]
    BY <1>2, <1>5, <2>1, OneMoves DEF SafeInv, TypeOK
  <2> QED
    BY <1>3, <1>4, <1>6, <1>7, <2>2 DEF PlaceMap, HolderMap, ClaimMap
<1> QED
  BY <1>2, <1>8
  DEF Promised!Take, Promised!Puts, Promised!Held, PlaceMap, HolderMap, ClaimMap

LEMMA CommitKeeps ==
  ASSUME SafeInv, SafeInv', NEW w \in Worker, NEW j \in Job, RunCommits(w, j)
  PROVE  Promised!Carry(j)
<1>1. PlaceInv /\ PlaceInv'
  BY PlaceHolds, PTL
<1>2. /\ worker[w] = [pc |-> "claimed", job |-> j] /\ jobs' = jobs
      /\ worker'[w] = [pc |-> "ran", job |-> j]
      /\ \A v \in Worker \ {w} : worker'[v] = worker[v]
      /\ runs' = [runs EXCEPT ![j] = @ + 1]
  BY DEF RunCommits, SafeInv, TypeOK
<1>3. Place(j) = "held" /\ Place(j)' = "run"
  BY <1>1, <1>2 DEF PlaceInv
<1>4. \A k \in Job \ {j} : ~Executes(w, k) /\ ~Executes(w, k)'
  BY <1>2 DEF Executes
<1>5. /\ PlaceMap' = [PlaceMap EXCEPT ![j] = "run"] /\ PlaceMap[j] = "held"
      /\ HolderMap' = HolderMap /\ ClaimMap' = ClaimMap
  <2>1. PlaceMap' = [PlaceMap EXCEPT ![j] = Place(j)']
    BY <1>2, <1>4, OneMoves DEF SafeInv, TypeOK
  <2> QED
    BY <1>2, <1>3, <2>1 DEF PlaceMap, HolderMap, ClaimMap
<1> QED
  BY <1>2, <1>5 DEF Promised!Carry, Promised!Puts, PlaceMap, HolderMap, ClaimMap

\* The completion and the except branch both let go of the job.
LEMMA LetGoKeeps ==
  ASSUME SafeInv, SafeInv', NEW w \in Worker, NEW j \in Job, Executes(w, j),
         NEW row \in JobRow, row.owner = None, row.attempts = jobs[j].attempts,
         jobs' = [jobs EXCEPT ![j] = row],
         worker' = [worker EXCEPT ![w] = Idle] \/ worker' = [worker EXCEPT ![w] = Dead]
  PROVE  /\ PlaceMap' = [PlaceMap EXCEPT ![j] = Place(j)']
         /\ HolderMap' = [HolderMap EXCEPT ![j] = None]
         /\ ClaimMap' = ClaimMap
<1>1. /\ jobs'[j] = row /\ \A k \in Job \ {j} : jobs'[k] = jobs[k]
      /\ \A v \in Worker \ {w} : worker'[v] = worker[v]
      /\ worker'[w] \in {Idle, Dead}
  BY DEF SafeInv, TypeOK
<1>2. \A k \in Job \ {j} : ~Executes(w, k) /\ ~Executes(w, k)'
  BY <1>1 DEF Executes, Idle, Dead
<1>3. /\ PlaceMap' = [PlaceMap EXCEPT ![j] = Place(j)']
      /\ HolderMap' = [HolderMap EXCEPT ![j] = jobs'[j].owner]
      /\ ClaimMap' = [ClaimMap EXCEPT ![j] = jobs'[j].attempts]
  BY <1>1, <1>2, OneMoves DEF SafeInv, TypeOK
<1> QED
  BY <1>1, <1>3 DEF ClaimMap

LEMMA CompleteKeeps ==
  ASSUME SafeInv, SafeInv', NEW w \in Worker, NEW j \in Job, Complete(w, j)
  PROVE  Promised!Finish(j)
<1>1. PlaceInv /\ PlaceInv'
  BY PlaceHolds, PTL
<1>2. /\ worker[w] = [pc |-> "ran", job |-> j] /\ Executes(w, j)
      /\ jobs' = [jobs EXCEPT ![j] = Completed(jobs[j])]
      /\ worker' = [worker EXCEPT ![w] = Idle] /\ runs' = runs
      /\ jobs[j] \in JobRow /\ jobs'[j] = Completed(jobs[j])
  BY DEF Complete, Executes, SafeInv, TypeOK
<1>3. Completed(jobs[j]) \in JobRow /\ Completed(jobs[j]).owner = None
      /\ Completed(jobs[j]).attempts = jobs[j].attempts
      /\ jobs'[j].status = "COMPLETED"
  BY <1>2, CompletedRow
<1>4. Place(j) = "run" /\ Place(j)' = "done"
  BY <1>1, <1>2, <1>3 DEF PlaceInv
<1>5. /\ PlaceMap' = [PlaceMap EXCEPT ![j] = "done"] /\ PlaceMap[j] = "run"
      /\ HolderMap' = [HolderMap EXCEPT ![j] = None] /\ ClaimMap' = ClaimMap
  <2>1. PlaceMap[j] = Place(j)
    BY DEF PlaceMap
  <2> QED
    BY <1>2, <1>3, <1>4, <2>1, LetGoKeeps
<1> QED
  BY <1>2, <1>5 DEF Promised!Finish, Promised!Puts, PlaceMap, HolderMap, ClaimMap

LEMMA RaiseKeeps ==
  ASSUME SafeInv, SafeInv', NEW w \in Worker, NEW j \in Job, Raises(w, j)
  PROVE  Promised!GiveUp(j)
<1>1. PlaceInv /\ PlaceInv'
  BY PlaceHolds, PTL
<1>2. /\ Executes(w, j) /\ jobs[j].status = "RUNNING"
      /\ jobs' = [jobs EXCEPT ![j] = Requeued(jobs[j])]
      /\ worker' = [worker EXCEPT ![w] = Dead] /\ runs' = runs
      /\ jobs[j] \in JobRow /\ jobs'[j] = Requeued(jobs[j])
  BY DEF Raises, Executes, SafeInv, SingleRunner, TypeOK
<1>3. /\ Requeued(jobs[j]) \in JobRow /\ Requeued(jobs[j]).owner = None
      /\ Requeued(jobs[j]).attempts = jobs[j].attempts
      /\ jobs'[j].status = IF jobs[j].attempts >= MaxAttempts THEN "FAILED" ELSE "RETRY"
  BY <1>2, RequeuedRow
<1>4. Place(j) \in {"held", "run"}
  BY <1>1, <1>2, ExecutedPlace
<1>5. Place(j)' = IF jobs[j].attempts < MaxAttempts THEN "waiting" ELSE "failed"
  <2>1. /\ jobs'[j].status = "RETRY" => Place(j)' = "waiting"
        /\ jobs'[j].status = "FAILED" => Place(j)' = "failed"
    BY <1>1 DEF PlaceInv, Claimable
  <2>2. jobs[j].attempts \in Nat /\ MaxAttempts \in Nat
    BY <1>2, QueueAssumption DEF JobRow
  <2> QED
    BY <1>3, <2>1, <2>2
<1>6. /\ PlaceMap' = [PlaceMap EXCEPT ![j] = IF ClaimMap[j] < MaxAttempts
                                               THEN "waiting" ELSE "failed"]
      /\ PlaceMap[j] \in {"held", "run"}
      /\ HolderMap' = [HolderMap EXCEPT ![j] = None] /\ ClaimMap' = ClaimMap
  <2>1. PlaceMap[j] = Place(j) /\ ClaimMap[j] = jobs[j].attempts
    BY DEF PlaceMap, ClaimMap
  <2> QED
    BY <1>2, <1>3, <1>4, <1>5, <2>1, LetGoKeeps
<1> QED
  BY <1>2, <1>6
  DEF Promised!GiveUp, Promised!Puts, Promised!Held, PlaceMap, HolderMap, ClaimMap

\* A worker that dies loses the job it executes, if any.
LEMMA CrashKeeps ==
  ASSUME SafeInv, SafeInv', NEW w \in Worker, Crash(w)
  PROVE  (\E j \in Job : Promised!Lose(j)) \/ UNCHANGED Promised!queueVars
<1>1. PlaceInv /\ PlaceInv'
  BY PlaceHolds, PTL
<1>2. /\ worker'[w] = Dead /\ \A v \in Worker \ {w} : worker'[v] = worker[v]
      /\ jobs' = jobs /\ runs' = runs
  BY DEF Crash, SafeInv, TypeOK
<1>3. \A k \in Job : ~Executes(w, k)'
  BY <1>2 DEF Executes, Dead
<1>4. ASSUME NEW j \in Job, Executes(w, j) PROVE Promised!Lose(j)
  <2>1. Place(j) \in {"held", "run"}
    BY <1>1, <1>4, ExecutedPlace
  <2>2. jobs[j].status = "RUNNING" /\ \A v \in Worker \ {w} : ~Executes(v, j)
    BY <1>4 DEF SafeInv, SingleRunner
  <2>3. \A v \in Worker \ {w} : ~Executes(v, j)'
    BY <1>2, <2>2 DEF Executes
  <2>4. Place(j)' = "lost"
    <3>1. jobs'[j].status = "RUNNING" /\ \A v \in Worker : ~Executes(v, j)'
      BY <1>2, <1>3, <2>2, <2>3
    <3>2. Orphaned(j)'
      BY <3>1 DEF Orphaned
    <3> QED
      BY <1>1, <3>2 DEF PlaceInv
  <2>5. \A k \in Job \ {j} : ~Executes(w, k)
    BY <1>4 DEF Executes
  <2>6. PlaceMap' = [PlaceMap EXCEPT ![j] = Place(j)']
    BY <1>2, <1>3, <2>5, OneMoves DEF SafeInv, TypeOK
  <2>7. /\ PlaceMap' = [PlaceMap EXCEPT ![j] = "lost"] /\ PlaceMap[j] \in {"held", "run"}
        /\ HolderMap' = HolderMap /\ ClaimMap' = ClaimMap
    BY <1>2, <2>1, <2>4, <2>6 DEF PlaceMap, HolderMap, ClaimMap
  <2> QED
    BY <1>2, <2>7
    DEF Promised!Lose, Promised!Puts, Promised!Held, PlaceMap, HolderMap, ClaimMap
<1>5. CASE \A j \in Job : ~Executes(w, j)
  <2>1. \A v \in Worker, j \in Job :
           /\ (worker'[v] = [pc |-> "claimed", job |-> j])
                <=> (worker[v] = [pc |-> "claimed", job |-> j])
           /\ (worker'[v] = [pc |-> "ran", job |-> j])
                <=> (worker[v] = [pc |-> "ran", job |-> j])
    BY <1>2, <1>3, <1>5 DEF Executes
  <2> QED
    BY <1>2, <2>1, NoneMoves
<1> QED
  BY <1>4, <1>5

\* The queue keeps its promise however workers, claims, failures, crashes and
\* restarts interleave: one worker at a time holds a job, one run is committed per
\* claim, no claim exceeds the limit, a job completes only after its run committed
\* and then stays completed (claim_due and execute_claimed).
THEOREM QueuePromiseKept == Spec => QueueKeepsPromise
<1>1. Init => Promised!QueueInit
  <2> SUFFICES ASSUME Init PROVE Promised!QueueInit
    OBVIOUS
  <2>1. PlaceMap = [j \in Job |-> "absent"]
    <3>1. \A j \in Job : jobs[j].status = None
      BY DEF Init, AbsentJob
    <3>2. \A j \in Job : Place(j) = "absent"
      BY <3>1, QueueAssumption DEF Place, Claimable, JobStatus
    <3> QED
      BY <3>2 DEF PlaceMap
  <2>2. HolderMap = [j \in Job |-> None] /\ ClaimMap = [j \in Job |-> 0]
    BY DEF Init, HolderMap, ClaimMap, AbsentJob
  <2> QED
    BY <2>1, <2>2 DEF Init, Promised!QueueInit, PlaceMap, HolderMap, ClaimMap
<1>2. SafeInv /\ SafeInv' /\ [Next]_vars => [Promised!QueueNext]_(Promised!queueVars)
  <2> SUFFICES ASSUME SafeInv, SafeInv', [Next]_vars
               PROVE  Promised!QueueNext \/ UNCHANGED Promised!queueVars
    OBVIOUS
  <2>1. ASSUME NEW j \in Job, NEW c \in CaseId, Enqueue(j, c) PROVE Promised!QueueNext
    BY <2>1, EnqueueKeeps DEF Promised!QueueNext
  <2>2. ASSUME NEW w \in Worker, NEW j \in Job, Claim(w, j) PROVE Promised!QueueNext
    BY <2>2, ClaimKeeps DEF Promised!QueueNext
  <2>3. ASSUME NEW w \in Worker, NEW j \in Job, RunCommits(w, j) PROVE Promised!QueueNext
    BY <2>3, CommitKeeps DEF Promised!QueueNext
  <2>4. ASSUME NEW w \in Worker, NEW j \in Job, Complete(w, j) PROVE Promised!QueueNext
    BY <2>4, CompleteKeeps DEF Promised!QueueNext
  <2>5. ASSUME NEW w \in Worker, NEW j \in Job, Raises(w, j) PROVE Promised!QueueNext
    BY <2>5, RaiseKeeps DEF Promised!QueueNext
  <2>6. ASSUME NEW w \in Worker, Crash(w)
        PROVE  Promised!QueueNext \/ UNCHANGED Promised!queueVars
    BY <2>6, CrashKeeps DEF Promised!QueueNext
  <2>7. ASSUME NEW w \in Worker, NEW j \in Job, Pick(w, j) \/ ClaimLost(w, j)
        PROVE  UNCHANGED Promised!queueVars
    <3>1. \A v \in Worker, i \in Job :
             /\ (worker'[v] = [pc |-> "claimed", job |-> i])
                  <=> (worker[v] = [pc |-> "claimed", job |-> i])
             /\ (worker'[v] = [pc |-> "ran", job |-> i])
                  <=> (worker[v] = [pc |-> "ran", job |-> i])
      BY <2>7 DEF Pick, ClaimLost, SafeInv, TypeOK, Idle, Dead
    <3>2. jobs' = jobs /\ runs' = runs
      BY <2>7 DEF Pick, ClaimLost
    <3> QED
      BY <3>1, <3>2, NoneMoves
  <2>8. ASSUME Tick PROVE UNCHANGED Promised!queueVars
    <3>1. \A i \in Job : jobs[i] \in JobRow /\ jobs'[i] = Elapsed(jobs[i])
      BY <2>8 DEF Tick, SafeInv, TypeOK
    <3>2. worker' = worker /\ runs' = runs
      BY <2>8 DEF Tick
    <3> QED
      BY <3>1, <3>2, ElapsedRow, NoneMoves
  <2>9. ASSUME jobs' = jobs, worker' = worker, runs' = runs
        PROVE  UNCHANGED Promised!queueVars
    BY <2>9, NoneMoves
  <2>10. ASSUME NEW w \in Worker, Restart(w) PROVE UNCHANGED Promised!queueVars
    <3>1. \A v \in Worker, i \in Job :
             /\ (worker'[v] = [pc |-> "claimed", job |-> i])
                  <=> (worker[v] = [pc |-> "claimed", job |-> i])
             /\ (worker'[v] = [pc |-> "ran", job |-> i])
                  <=> (worker[v] = [pc |-> "ran", job |-> i])
      BY <2>10 DEF Restart, SafeInv, TypeOK, Idle, Dead
    <3> QED
      BY <2>10, <3>1, NoneMoves DEF Restart
  <2> QED
    BY <2>1, <2>2, <2>3, <2>4, <2>5, <2>6, <2>7, <2>8, <2>9, <2>10
    DEF Next, Work, SettleElsewhere, vars
<1> QED
  BY <1>1, <1>2, InitSafe, SafeStep, PTL
  DEF Spec, QueueKeepsPromise, Promised!QueueSpec
=============================================================================

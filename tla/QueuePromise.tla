---------------------------- MODULE QueuePromise ----------------------------
(***************************************************************************)
(* What the job queue promises of each submitted job, with nothing of      *)
(* selects, leases and timers: one worker at a time holds it, runs the     *)
(* workflow at most once each time it holds it, and lays it down for good  *)
(* only when the workflow has run or its claims are used up.  A worker     *)
(* may be lost, and the job it holds with it.                              *)
(***************************************************************************)
EXTENDS Integers

CONSTANTS Job, Worker, Nobody, Claims

VARIABLES place,    \* where each job stands
          holder,   \* the worker that holds it
          claimed,  \* how often each job has been claimed
          ran       \* workflow runs committed for it

queueVars == <<place, holder, claimed, ran>>

Held == {"held", "run"}

QueueInit ==
  /\ place = [j \in Job |-> "absent"]
  /\ holder = [j \in Job |-> Nobody]
  /\ claimed = [j \in Job |-> 0]
  /\ ran = [j \in Job |-> 0]

Puts(j, to) == place' = [place EXCEPT ![j] = to]

Submit(j) ==
  /\ place[j] = "absent" /\ Puts(j, "waiting")
  /\ UNCHANGED <<holder, claimed, ran>>

\* A worker that holds a job takes no other.
Take(w, j) ==
  /\ place[j] = "waiting" /\ Puts(j, "held")
  /\ \A k \in Job : holder[k] = w => place[k] \notin Held
  /\ claimed[j] < Claims
  /\ claimed' = [claimed EXCEPT ![j] = @ + 1]
  /\ holder' = [holder EXCEPT ![j] = w]
  /\ UNCHANGED ran

Carry(j) ==
  /\ place[j] = "held" /\ Puts(j, "run")
  /\ ran' = [ran EXCEPT ![j] = @ + 1]
  /\ UNCHANGED <<holder, claimed>>

Finish(j) ==
  /\ place[j] = "run" /\ Puts(j, "done")
  /\ holder' = [holder EXCEPT ![j] = Nobody]
  /\ UNCHANGED <<claimed, ran>>

\* Back in the queue while claims are left, and only then.
GiveUp(j) ==
  /\ place[j] \in Held
  /\ Puts(j, IF claimed[j] < Claims THEN "waiting" ELSE "failed")
  /\ holder' = [holder EXCEPT ![j] = Nobody]
  /\ UNCHANGED <<claimed, ran>>

Lose(j) ==
  /\ place[j] \in Held /\ Puts(j, "lost")
  /\ UNCHANGED <<holder, claimed, ran>>

QueueNext ==
  \E j \in Job : \/ Submit(j)  \/ \E w \in Worker : Take(w, j)
                 \/ Carry(j)   \/ Finish(j)
                 \/ GiveUp(j)  \/ Lose(j)

QueueSpec == QueueInit /\ [][QueueNext]_queueVars
=============================================================================

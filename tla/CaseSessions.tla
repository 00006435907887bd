---------------------------- MODULE CaseSessions ----------------------------
(***************************************************************************)
(* Database sessions that work on one recovery case at the same time: runs *)
(* of the workflow, outbound voice calls (voice_recovery.py), and the call *)
(* provider's status reports (routes/recovery.py).  RecoveryWorkflow takes *)
(* each of them for one step; here a session is what it is, several        *)
(* statements and a commit, under PostgreSQL's READ COMMITTED.             *)
(*                                                                         *)
(* Every session appends to the case's audit trail (audit_service.py).  It *)
(* reads the highest number it can see, and inserts the next one; the      *)
(* unique index on case and number makes an insert wait for the session    *)
(* that holds its number, and fail if that session commits.                *)
(***************************************************************************)
EXTENDS PolicyEngine, FiniteSets

CONSTANTS Session,
          None,
          Window,          \* the duplicate-call guard's five minutes
          TransactionCap,  \* bound: transactions begun
          AttemptCap,      \* bound: no run on a payment with so many attempts
          TimeCap          \* bound: the clock stops here

ASSUME SessionsAssumption ==
  /\ Window \in Nat /\ TransactionCap \in Nat /\ AttemptCap \in Nat /\ TimeCap \in Nat
  /\ None \notin Nat

VARIABLES case,     \* committed state of the case
          payment,  \* committed status and attempt_count of its payment
          calls,    \* committed VOICE_CALL actions: time, and whether placed
          trail,    \* committed audit events of the case
          clock,    \* virtual time, in minutes
          placed,   \* external: the calls that really rang
          begun,    \* transactions begun
          session

tables == <<case, payment, calls, trail>>
vars   == <<tables, clock, placed, begun, session>>

EventType == {"DIAGNOSIS", "OUTCOME", "VOICE_POLICY_CHECKED",
              "VOICE_RECOVERY_REQUESTED", "VOICE_CALL_INITIATED",
              "VOICE_CALL_FAILED", "VOICE_CALL_REPORTED", "ACTION_FAILED"}
AuditRow  == [number : Nat, event : EventType, at : Nat, by : Nat]

\* What a session still has to do, in order; "CALL" is the provider's part.
RunScript   == <<"DIAGNOSIS", "OUTCOME">>
VoiceScript == <<"VOICE_POLICY_CHECKED", "VOICE_RECOVERY_REQUESTED", "CALL">>
Ended       == [kind |-> "none", step |-> "idle", script |-> <<>>, state |-> None,
                attempts |-> 0, next |-> 0, at |-> 0, called |-> 0, own |-> {}, by |-> 0]

Init ==
  /\ case = "DETECTED"
  /\ payment = [status |-> "FAILED", attempts |-> 1]
  /\ calls = {} /\ trail = {} /\ clock = 0 /\ placed = {} /\ begun = 0
  /\ session = [s \in Session |-> Ended]

-----------------------------------------------------------------------------
(* Sessions begin with what they read.                                     *)

Begin(s, kind, script) ==
  /\ session[s].step = "idle"
  /\ begun < TransactionCap
  /\ begun' = begun + 1
  /\ session' = [session EXCEPT ![s] =
       [Ended EXCEPT !.kind = kind, !.step = "append", !.script = script,
                     !.state = case, !.attempts = payment.attempts, !.by = begun]]
  /\ UNCHANGED <<tables, clock, placed>>

\* RevenueRecoveryWorkflow.run on a case that is not finished.
BeginRun(s) ==
  /\ case \in RunnableStates
  /\ payment.attempts < AttemptCap
  /\ Begin(s, "run", RunScript)

RecentCall == \E call \in calls : call.ok /\ clock <= call.at + Window

\* What the policy engine is shown for a call: an ordinary payment with a known
\* reason and no failed recovery yet.
CallInput == [action |-> "VOICE_CALL", status |-> payment.status,
              reason |-> "BANK_TIMEOUT", attempts |-> payment.attempts,
              amount |-> 0, failures |-> 0]

\* trigger_voice_recovery up to the policy gate.  A request that is refused, or
\* whose call is already active, leaves nothing: a refusal's audit event is
\* rolled back with it.
BeginVoice(s) ==
  /\ case \notin {"RECOVERED", "ESCALATED"} /\ payment.status \notin Successful
  /\ payment.attempts <= MaxAutomaticRetries
  /\ ~RecentCall
  /\ Evaluate(CallInput).outcome = "APPROVED"
  /\ Begin(s, "voice", VoiceScript)

\* exotel_voice_webhook.
BeginReport(s) == Begin(s, "report", <<"VOICE_CALL_REPORTED">>)

-----------------------------------------------------------------------------
(* AuditService.record.                                                    *)

Numbers(rows) == {r.number : r \in rows}
Highest(S) == CHOOSE n \in S \cup {0} : \A m \in S : m <= n

\* Mutant: no unique index, so two sessions may hold one number.
HeldByNobody(s, n) == FALSE

HeldByAnother(s, n) == \E t \in Session \ {s} : n \in Numbers(session[t].own)

\* Mutant: the number counts the events other sessions hold as well, as a database
\* sequence would.
NumberBySequence(s) ==
  /\ session[s].step = "append"
  /\ session[s].script # <<>> /\ Head(session[s].script) # "CALL"
  /\ session' = [session EXCEPT
       ![s].next = Highest(Numbers(trail \cup UNION {session[t].own : t \in Session})) + 1,
       ![s].at = clock, ![s].step = "insert"]
  /\ UNCHANGED <<tables, clock, placed, begun>>

\* _next_sequence, and the event's time.
ReadNumber(s) ==
  /\ session[s].step = "append"
  /\ session[s].script # <<>> /\ Head(session[s].script) # "CALL"
  /\ session' = [session EXCEPT
       ![s].next = Highest(Numbers(trail \cup session[s].own)) + 1,
       ![s].at = clock, ![s].step = "insert"]
  /\ UNCHANGED <<tables, clock, placed, begun>>

InsertEvent(s) ==
  LET x == session[s]
  IN  /\ x.step = "insert"
      /\ ~HeldByAnother(s, x.next)
      /\ x.next \notin Numbers(trail)
      /\ session' = [session EXCEPT
           ![s].own = @ \cup {[number |-> x.next, event |-> Head(x.script),
                               at |-> x.at, by |-> x.by]},
           ![s].script = Tail(@), ![s].step = "append"]
      /\ UNCHANGED <<tables, clock, placed, begun>>

\* _handle_stage_error: after the rollback the run records what failed.
HandleError(s) ==
  session' = [session EXCEPT ![s] =
     [@ EXCEPT !.kind = "error", !.step = "append", !.own = {},
               !.script = <<"ACTION_FAILED">>]]

Aborts(s) ==
  IF session[s].kind = "run" THEN HandleError(s)
                             ELSE session' = [session EXCEPT ![s] = Ended]

\* Mutant: the losing session is not told.
NeverRejected(s) == FALSE

\* The number was taken by a session that has committed.
InsertRejected(s) ==
  /\ session[s].step = "insert"
  /\ session[s].next \in Numbers(trail)
  /\ Aborts(s)
  /\ UNCHANGED <<tables, clock, placed, begun>>

-----------------------------------------------------------------------------
(* The call, and the commits.                                              *)

\* initiate_outbound_call: the provider may ring and its answer be lost, which
\* counts as a failed call.  The time of the call is read when it returns.
PlaceCall(s) ==
  /\ session[s].step = "append"
  /\ session[s].script = <<"CALL">>
  /\ \E rings, answered \in BOOLEAN :
       /\ placed' = IF rings THEN placed \cup {[at |-> clock, by |-> session[s].by]}
                             ELSE placed
       /\ session' = [session EXCEPT ![s].called = clock, ![s].script =
            <<IF rings /\ answered THEN "VOICE_CALL_INITIATED" ELSE "VOICE_CALL_FAILED">>]
  /\ UNCHANGED <<tables, clock, begun>>

Done(s) == session[s].step = "append" /\ session[s].script = <<>>

Save(s) ==
  /\ trail' = trail \cup session[s].own
  /\ session' = [session EXCEPT ![s] = Ended]
  /\ UNCHANGED <<clock, placed, begun>>

\* Mutant: the call is not recorded as an action.
CommitAuditOnly(s) ==
  /\ session[s].kind = "voice" /\ Done(s)
  /\ Save(s)
  /\ UNCHANGED <<case, payment, calls>>

CommitVoice(s) ==
  /\ session[s].kind = "voice" /\ Done(s)
  /\ calls' = calls \cup {[at |-> session[s].called, by |-> session[s].by,
       ok |-> \E r \in session[s].own : r.event = "VOICE_CALL_INITIATED"]}
  /\ Save(s)
  /\ UNCHANGED <<case, payment>>

CommitReport(s) ==
  /\ session[s].kind = "report" /\ Done(s)
  /\ Save(s)
  /\ UNCHANGED <<case, payment, calls>>

\* A run that attempted nothing stops, escalates or schedules the case; one that
\* resumes a scheduled retry never does.
CommitIdleRun(s, to) ==
  /\ session[s].kind = "run" /\ Done(s) /\ session[s].state # "SCHEDULED"
  /\ to \in {"STOPPED", "ESCALATED", "SCHEDULED"}
  /\ case' = to
  /\ Save(s)
  /\ UNCHANGED <<payment, calls>>

\* One that attempted the payment inserts the attempt under the next number, and
\* changes the case with the payment.
CommitAttempt(s, success) ==
  /\ session[s].kind = "run" /\ Done(s)
  /\ payment.attempts = session[s].attempts
  /\ payment' = [status |-> IF success THEN "SUCCEEDED" ELSE "FAILED",
                 attempts |-> session[s].attempts + 1]
  /\ case' = IF success THEN "RECOVERED" ELSE "FAILED"
  /\ Save(s)
  /\ UNCHANGED calls

\* Another run has inserted the attempt of that number.
AttemptRejected(s) ==
  /\ session[s].kind = "run" /\ Done(s)
  /\ payment.attempts # session[s].attempts
  /\ HandleError(s)
  /\ UNCHANGED <<tables, clock, placed, begun>>

\* A stage of the run raises.
StageFails(s) ==
  /\ session[s].kind = "run"
  /\ HandleError(s)
  /\ UNCHANGED <<tables, clock, placed, begun>>

\* Mutant: the handler leaves the case where the stage failed.
CommitMidway(s) ==
  /\ session[s].kind = "error" /\ Done(s)
  /\ case' = "DIAGNOSING"
  /\ Save(s)
  /\ UNCHANGED <<payment, calls>>

\* The handler commits the state the run entered with.
CommitError(s) ==
  /\ session[s].kind = "error" /\ Done(s)
  /\ case' = session[s].state
  /\ Save(s)
  /\ UNCHANGED <<payment, calls>>

\* The process dies: what is not committed is gone, a call is not taken back.
Crash(s) ==
  /\ session[s].step # "idle"
  /\ session' = [session EXCEPT ![s] = Ended]
  /\ UNCHANGED <<tables, clock, placed, begun>>

Tick ==
  /\ clock < TimeCap
  /\ clock' = clock + 1
  /\ UNCHANGED <<tables, placed, begun, session>>

-----------------------------------------------------------------------------
Commit(s) ==
  \/ CommitVoice(s) \/ CommitReport(s) \/ CommitError(s)
  \/ \E to \in CaseState : CommitIdleRun(s, to)
  \/ \E success \in BOOLEAN : CommitAttempt(s, success)

Works(s) == ReadNumber(s) \/ InsertEvent(s) \/ InsertRejected(s) \/ PlaceCall(s)
            \/ Commit(s) \/ AttemptRejected(s)

Starts(s) == BeginRun(s) \/ BeginVoice(s) \/ BeginReport(s)

Next == \/ \E s \in Session : Starts(s) \/ Works(s) \/ StageFails(s) \/ Crash(s)
        \/ Tick

Spec == Init /\ [][Next]_vars

\* A session that is not waiting for another one goes on.
FairSpec == Spec /\ \A s \in Session : WF_vars(Works(s))

-----------------------------------------------------------------------------
(* Properties.                                                             *)

SessionRow == [kind : {"none", "run", "voice", "report", "error"},
               step : {"idle", "append", "insert"},
               script : Seq(EventType \cup {"CALL"}),
               state : CaseState \cup {None}, attempts : Nat, next : Nat, at : Nat,
               called : Nat, own : SUBSET AuditRow, by : Nat]

\* Tables and sessions hold values of their types, and a committed case is
\* runnable or finished.
TypeOK ==
  /\ case \in RunnableStates \cup TerminalStates
  /\ payment \in [status : {"SUCCEEDED", "FAILED"}, attempts : Nat]
  /\ calls \subseteq [at : Nat, by : Nat, ok : BOOLEAN]
  /\ trail \subseteq AuditRow
  /\ clock \in Nat /\ begun \in Nat
  /\ placed \subseteq [at : Nat, by : Nat]
  /\ session \in [Session -> SessionRow]

\* A case's events are numbered from 1 without gap or repetition, counting those
\* some session has yet to commit, whatever order the sessions work in.
TrailGapFree ==
  LET all == trail \cup UNION {session[s].own : s \in Session}
  IN  /\ Numbers(all) = 1..Cardinality(all)
      /\ \A r, q \in all : r.number = q.number => r = q

\* At most one session has uncommitted events of the case.  All others wait for
\* it or fail, and nobody waits for two: the audit trail serialises the sessions
\* from their first event on.
OneWriter ==
  \A s, t \in Session : session[s].own # {} /\ session[t].own # {} => s = t

\* Readers sort the trail by time and then number: that is the order in which it
\* was written.  What one transaction wrote stands together in it.
TrailTellsOrder ==
  \A r, q \in trail :
    r.number < q.number =>
      /\ r.at <= q.at
      /\ r.by = q.by => \A m \in trail : r.number < m.number /\ m.number < q.number
                                            => m.by = r.by

\* Three events of one transaction, numbered in a row: approved and requested before
\* the call, and how it went after it.
TellsOf(a, b, c, call) ==
  /\ b.number = a.number + 1 /\ c.number = b.number + 1
  /\ a.by = call.by /\ b.by = call.by /\ c.by = call.by
  /\ a.event = "VOICE_POLICY_CHECKED" /\ b.event = "VOICE_RECOVERY_REQUESTED"
  /\ c.event = IF call.ok THEN "VOICE_CALL_INITIATED" ELSE "VOICE_CALL_FAILED"
  /\ b.at <= call.at /\ call.at <= c.at

\* The trail tells of every call on record, answered or failed, how it was approved
\* and requested and how it went, in one uninterrupted account; and the end of a
\* call that it tells of belongs to such an account of a call on record.
CallsAreTold ==
  /\ \A call \in calls : \E a, b, c \in trail : TellsOf(a, b, c, call)
  /\ \A c \in trail :
       c.event \in {"VOICE_CALL_INITIATED", "VOICE_CALL_FAILED"} =>
         \E call \in calls, a, b \in trail : TellsOf(a, b, c, call)

\* No session waits for ever: the waiting on numbers forms no cycle.
SessionsEnd == \A s \in Session : session[s].step # "idle" ~> session[s].step = "idle"

\* "Idempotency Guard: Prevents concurrent duplicate outreach on active cases"
\* (the README on voice_recovery.py): no customer is rung twice within five
\* minutes.
NoDuplicateOutreach ==
  \A a, b \in placed : a # b => a.at > b.at + Window \/ b.at > a.at + Window

\* "no transition out of a terminal state" (state_machine.py): a finished case
\* stays as it is.
FinishedStaysFinished == [][case' # case => case \notin TerminalStates]_vars
=============================================================================

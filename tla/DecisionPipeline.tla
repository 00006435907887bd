-------------------------- MODULE DecisionPipeline --------------------------
(***************************************************************************)
(* RecoveryWorkflow with its decision made: what the context builder       *)
(* gathers for a case, the diagnosis that is stored, the candidate with    *)
(* the highest expected value, the valuation stored with the proposed      *)
(* action, and a provider whose draws a seed determines.  Where the core   *)
(* lets the workflow prefer any candidate and any draw, this module says   *)
(* which.  As in the core, the steps are the payments' and the workflow's: *)
(* the portal, the calls and the operators are in RecoveryChannels.        *)
(***************************************************************************)
EXTENDS RecoveryWorkflow, Valuation

CONSTANTS Customer, CustomerOf,  \* who owes each payment
          ProfileOf,             \* the customer row, or the neutral defaults
          Seeds                  \* what simulation_seed makes of the draws

\* A seed says of every (payment, action, attempt number) whether the draw
\* falls under its threshold.
Draw == PaymentId \X ActionType \X Nat

ASSUME CustomerAssumption ==
  /\ CustomerOf \in [PaymentId -> Customer]
  /\ ProfileOf \in [Customer -> Profile]
  /\ ActionId \subseteq Nat \ {0}
  /\ Seeds \subseteq SUBSET Draw

VARIABLES diagnosis,  \* recovery_cases.diagnosis: the diagnosed reason
          valued,     \* recovery_actions: estimated_probability and the breakdown
          opened,     \* the context as it was when the case was opened
          seed        \* settings.simulation_seed

pipeline == <<vars, diagnosis, valued, opened, seed>>

Context == [amount : Nat, reason : FailureReason, status : PaymentStatus,
            attempts : Nat, failures : Nat, failed : SUBSET ActionType,
            succeeded : SUBSET ActionType, who : Profile]
Valued  == [probability : 20..970, confidence : 50..100, value : Int,
            risk : {"LOW", "MEDIUM", "HIGH"}, reason : FailureReason]

PipelineInit == /\ Init
                /\ diagnosis = [c \in CaseId |-> None]
                /\ valued = [a \in ActionId |-> None]
                /\ opened = [c \in CaseId |-> None]
                /\ seed \in Seeds

-----------------------------------------------------------------------------
(* RecoveryContextBuilder.build.                                           *)

OutcomesOf(kind) == {a \in ActionId : actions[a].outcome = kind}

\* On this payment, or on another one of the same customer.
SucceededTypes(p) ==
  {actions[a].type : a \in {b \in OutcomesOf("RECOVERED") :
                              CustomerOf[actions[b].payment] = CustomerOf[p]}}

ContextOf(p) ==
  [amount |-> payments[p].amount, reason |-> Reason(p),
   status |-> payments[p].status, attempts |-> payments[p].attempts,
   failures |-> Cardinality(Unrecovered(p)), failed |-> FailedTypes(p),
   succeeded |-> SucceededTypes(p), who |-> ProfileOf[CustomerOf[p]]]

\* _decide_outcome: a scripted pair is certain, any other pair is drawn.
WouldSucceed(r, t, p, n) ==
  IF Draws(r, t) = BOOLEAN THEN <<p, t, n>> \in seed ELSE Draws(r, t) = {TRUE}

-----------------------------------------------------------------------------
(* Payments.  The case row keeps the amount at risk; the rest of the        *)
(* context at opening is history that no row keeps.                         *)

\* Contexts of cases whose payment fails from outside are no longer comparable.
Disturb(p) == opened' = [c \in CaseId |->
  CASE cases[c].payment = p -> [opened[c] EXCEPT !.disturbed = TRUE]
    [] cases[c].payment # p /\ cases'[c].payment = p ->
         [at |-> ContextOf(p)', first |-> \A d \in CaseId : cases[d].payment # p,
          disturbed |-> FALSE]
    [] OTHER -> opened[c]]

PaymentEvent(p) ==
  /\ Pay(p)
  /\ Disturb(p)
  /\ UNCHANGED <<diagnosis, valued, seed>>

-----------------------------------------------------------------------------
(* A run.                                                                  *)

NextId(a) == /\ actions[a] = AbsentAction
             /\ \A b \in ActionId : b < a => actions[b] # AbsentAction

\* _persist_action; the explanation names the cause the action was scored for.
StoreValue(a, x, t) == valued' =
  [valued EXCEPT ![a] = [probability |-> Probability(x, t), confidence |-> Confidence(x),
                         value |-> Erv(x, t), risk |-> RiskLevel(x, t),
                         reason |-> x.reason]]

\* What the diagnosis may be, whatever the provider answers.
Diagnoses(x) == {Diagnose(x, answer) : answer \in Answer}

\* _full_cycle, with the diagnosis d.
Cycle(c, a, d) ==
  LET p == cases[c].payment
      x == ContextOf(p)
      t == Decide(x, d, Candidates(d.reason, x.failed))
  IN  /\ NextId(a)
      /\ \/ RunStops(c, a, t) \/ RunEscalates(c, a, t) \/ RunSchedules(c, a, t)
         \/ RunExecutes(c, a, t, WouldSucceed(x.reason, t, p, x.attempts + 1))
      /\ diagnosis' = [diagnosis EXCEPT ![c] = d.reason]
      /\ StoreValue(a, x, t)
      /\ UNCHANGED <<opened, seed>>

ResumeCase(c, a) ==
  /\ Resume(c, a, WouldSucceed(Reason(cases[c].payment), actions[a].type,
                               cases[c].payment,
                               payments[cases[c].payment].attempts + 1))
  /\ UNCHANGED <<diagnosis, valued, opened, seed>>

\* run() refuses a case in any other state.
DecidedRun(c) ==
  /\ cases[c].state \in RunnableStates
  /\ \E a \in ActionId : \/ \E d \in Diagnoses(ContextOf(cases[c].payment)) : Cycle(c, a, d)
                         \/ ResumeCase(c, a)

PipelineTick == Tick /\ UNCHANGED <<diagnosis, valued, opened, seed>>

PipelineNext == \/ \E p \in PaymentId : PaymentEvent(p)
                \/ \E c \in CaseId : DecidedRun(c)
                \/ PipelineTick

PipelineSpec == PipelineInit /\ [][PipelineNext]_pipeline

-----------------------------------------------------------------------------
(* Properties.                                                             *)

\* Every proposed action carries the valuation it was proposed with, never more
\* than its payment is worth, and one rated HIGH is never carried out.  The stored
\* diagnosis of a case is the cause its latest action was scored for, whatever
\* the diagnosis provider said.
PipelineTypeOK ==
  /\ seed \in Seeds
  /\ \A a \in ActionId :
       IF actions[a] = AbsentAction
         THEN valued[a] = None
         ELSE /\ valued[a] \in Valued
              /\ valued[a].value <= payments[actions[a].payment].amount
              /\ valued[a].risk = "HIGH" => actions[a].executedAt = None
              /\ \/ \E b \in ActionId : b > a /\ actions[b].case = actions[a].case
                 \/ diagnosis[actions[a].case] = valued[a].reason
  /\ \A c \in CaseId :
       IF cases[c] = AbsentCase
         THEN diagnosis[c] = None /\ opened[c] = None
         ELSE /\ opened[c].at \in Context
              /\ opened[c].at.status \in Unsuccessful
              /\ diagnosis[c] \in FailureReason \cup {None}
=============================================================================

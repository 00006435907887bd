--------------------------- MODULE RecoveryPromise ---------------------------
(***************************************************************************)
(* What the recovery system promises a merchant about each case, with      *)
(* nothing of how it decides: a case is worked on, possibly put off, until *)
(* the payment is captured, a person takes over, or the system gives up;   *)
(* a finished case stays finished, revenue is credited once, in the step   *)
(* that captures it, and a payment is attempted only while its budget      *)
(* lasts.                                                                  *)
(***************************************************************************)
EXTENDS Integers

CONSTANTS CaseId, PaymentId, Nobody, Budget

VARIABLES phase,     \* where each case stands
          owner,     \* the payment each case is about
          charges,   \* automatic attempts made on each payment
          credited   \* how often each case has been credited as recovered

promiseVars == <<phase, owner, charges, credited>>

Working == {"open", "deferred"}
Settled == {"recovered", "handed over", "given up"}

PromiseInit ==
  /\ phase = [c \in CaseId |-> "absent"]
  /\ owner = [c \in CaseId |-> Nobody]
  /\ charges = [p \in PaymentId |-> 0]
  /\ credited = [c \in CaseId |-> 0]

Take(c, p) ==
  /\ phase[c] = "absent"
  /\ \A d \in CaseId : owner[d] = p => phase[d] \in Settled
  /\ phase' = [phase EXCEPT ![c] = "open"]
  /\ owner' = [owner EXCEPT ![c] = p]
  /\ UNCHANGED <<charges, credited>>

Defer(c) ==
  /\ phase[c] = "open"
  /\ charges[owner[c]] < Budget
  /\ phase' = [phase EXCEPT ![c] = "deferred"]
  /\ UNCHANGED <<owner, charges, credited>>

Attempt(c) ==
  /\ phase[c] \in Working
  /\ charges[owner[c]] < Budget
  /\ charges' = [charges EXCEPT ![owner[c]] = @ + 1]
  /\ \/ /\ phase' = [phase EXCEPT ![c] = "open"]
        /\ UNCHANGED credited
     \/ /\ phase' = [phase EXCEPT ![c] = "recovered"]
        /\ credited' = [credited EXCEPT ![c] = @ + 1]
  /\ UNCHANGED owner

Conclude(c) ==
  /\ phase[c] = "open"
  /\ \E end \in {"handed over", "given up"} : phase' = [phase EXCEPT ![c] = end]
  /\ UNCHANGED <<owner, charges, credited>>

PromiseNext ==
  \E c \in CaseId : \/ \E p \in PaymentId : Take(c, p)
                    \/ Defer(c)
                    \/ Attempt(c)
                    \/ Conclude(c)

PromiseSpec == PromiseInit /\ [][PromiseNext]_promiseVars
=============================================================================

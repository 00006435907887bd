-------------------------- MODULE GatewayPayments --------------------------
(***************************************************************************)
(* Payments that a customer makes at the external gateway                  *)
(* (gateway_payment_service.py, routes/gateway.py): orders, the browser's  *)
(* callback, signed webhooks, and the simulated failure; and what the      *)
(* operator and the customer's portal do to the same rows.                 *)
(*                                                                         *)
(* Requests run in threads and processes of their own, so one request is   *)
(* several steps: it reads the mapping, asks the provider, reads the       *)
(* payment, and commits.  Until it commits it changes nothing that others  *)
(* see; a commit checks the unique indexes of the tables (PostgreSQL, READ *)
(* COMMITTED) and writes the columns whose value differs from the one the  *)
(* request read.  A local payment is named by its provider order, to which *)
(* it belongs for good.                                                    *)
(***************************************************************************)
EXTENDS Domain, FiniteSets

CONSTANTS Key,              \* idempotency keys of order requests
          Order,            \* provider order ids
          ProviderPayment,  \* provider payment ids
          Session,          \* requests in flight
          None,
          ErrorClass,       \* what the provider's error text speaks of
          AttemptCap        \* bound: no further attempt on a payment, nor news of it

VARIABLES mapping,    \* table gateway_payments, by provider order
          payment,    \* table payments, the rows made for an order
          attempts,   \* table payment_attempts of these payments
          ledger,     \* table gateway_webhook_events: deliveries dealt with
          recovery,   \* state of the payment's recovery case
          provider,   \* external: the gateway's orders and payments
          session     \* requests in flight

tables == <<mapping, payment, attempts, ledger, recovery>>
vars   == <<tables, provider, session>>

ProviderStatus == {"created", "authorized", "captured", "failed"}
Event          == {"authorized", "captured", "failed"}
Delivery       == ProviderPayment \X Event

\* "UNKNOWN" stands for an error text without any of the words looked for.
ASSUME GatewayAssumption ==
  /\ ErrorClass \subseteq FailureReason
  /\ AttemptCap \in Nat
  /\ None \notin Key \cup Order \cup ProviderPayment \cup PaymentStatus
                 \cup FailureReason \cup ProviderStatus

\* "none": no case yet; "closed": its last case is finished.
CaseStatus     == {"none", "open", "scheduled", "closed"}
\* Where an attempt came from: news of a provider payment, the simulated
\* failure, the operator's, the portal, or a recovery action.
Source         == [pp : ProviderPayment \cup {None},
                   event : Event \cup {"callback", "simulated", "operator", "portal",
                                       "recovery"}]

\* A row of the provider's own, and a request in flight.
ProviderRow == [order : Order \cup {None}, status : ProviderStatus \cup {None},
                why : ErrorClass \cup {None}]
MappingRow == [key : Key \cup {None}, pp : ProviderPayment \cup {None},
               status : ProviderStatus \cup {None}]
PaymentRow == [status : PaymentStatus \cup {None},
               reason : FailureReason \cup {None}, attempts : Nat]
AttemptRow == [number : Nat, status : PaymentStatus, source : Source]

Unmapped  == [key |-> None, pp |-> None, status |-> None]
NoPayment == [status |-> None, reason |-> None, attempts |-> 0]
NewOrder(k) == [key |-> k, pp |-> None, status |-> "created"]
NewPayment  == [status |-> "CREATED", reason |-> None, attempts |-> 0]

RequestRow  == [step : {"idle", "ordering", "begun", "fetched", "read", "failing"},
                event : Event \cup {"callback", None}, key : Key \cup {None},
                order : Order \cup {None}, pp : ProviderPayment \cup {None},
                map : MappingRow, got : ProviderStatus \cup {None}, row : PaymentRow]

Idle == [step |-> "idle", event |-> None, key |-> None, order |-> None,
         pp |-> None, map |-> Unmapped, got |-> None,
         row |-> NoPayment]

Init ==
  /\ mapping = [o \in Order |-> Unmapped]
  /\ payment = [o \in Order |-> NoPayment]
  /\ attempts = [o \in Order |-> {}]
  /\ ledger = {}
  /\ recovery = [o \in Order |-> "none"]
  /\ provider = [orders |-> {},
                 payments |-> [q \in ProviderPayment |->
                                 [order |-> None, status |-> None, why |-> None]]]
  /\ session = [s \in Session |-> Idle]

-----------------------------------------------------------------------------
(* The provider: an order takes several payments, of which one is captured *)
(* at most; every change of a payment is announced in a webhook.           *)

Paid(o) == \E q \in ProviderPayment : /\ provider.payments[q].order = o
                                      /\ provider.payments[q].status = "captured"

Pays(q, o) ==
  /\ provider.payments[q].order = None
  /\ o \in provider.orders /\ ~Paid(o)
  /\ provider' = [provider EXCEPT !.payments[q] =
                     [order |-> o, status |-> "created", why |-> None]]
  /\ UNCHANGED <<tables, session>>

Moves(q, to, why) ==
  LET row == provider.payments[q]
  IN  /\ <<row.status, to>> \in {<<"created", "authorized">>, <<"created", "failed">>,
                                 <<"authorized", "captured">>}
      /\ to = "captured" => ~Paid(row.order)
      /\ (why = None) <=> (to # "failed")
      /\ provider' = [provider EXCEPT !.payments[q] =
                        [row EXCEPT !.status = to, !.why = why]]
      /\ UNCHANGED <<tables, session>>

\* The webhooks there have been: a delivery may arrive at any later time, and
\* again.
Sent(q) == CASE provider.payments[q].status = "captured" -> {"authorized", "captured"}
             [] provider.payments[q].status \in {"authorized", "failed"} ->
                  {provider.payments[q].status}
             [] OTHER -> {}

-----------------------------------------------------------------------------
(* Orders.  The key is looked up, the provider makes an order, and the     *)
(* payment is inserted with its mapping; another request with the same key *)
(* may have done so meanwhile.                                             *)

KeyTaken(k) == \E o \in Order : mapping[o].key = k

BeginOrder(s, k, o) ==
  /\ session[s].step = "idle"
  /\ ~KeyTaken(k)
  /\ o \notin provider.orders
  /\ provider' = [provider EXCEPT !.orders = @ \cup {o}]
  /\ session' = [session EXCEPT ![s] = [Idle EXCEPT !.step = "ordering",
                                                   !.key = k, !.order = o]]
  /\ UNCHANGED tables

\* Mutant: the payment is committed before its mapping.
InsertPaymentOnly(s) ==
  /\ session[s].step = "ordering"
  /\ payment' = [payment EXCEPT ![session[s].order] = NewPayment]
  /\ session' = [session EXCEPT ![s] = Idle]
  /\ UNCHANGED <<mapping, attempts, ledger, recovery, provider>>

InsertOrder(s) ==
  /\ session[s].step = "ordering"
  /\ ~KeyTaken(session[s].key)
  /\ mapping' = [mapping EXCEPT ![session[s].order] = NewOrder(session[s].key)]
  /\ payment' = [payment EXCEPT ![session[s].order] = NewPayment]
  /\ session' = [session EXCEPT ![s] = Idle]
  /\ UNCHANGED <<attempts, ledger, recovery, provider>>

-----------------------------------------------------------------------------
(* News of a provider payment, from the browser or a webhook.              *)

Begin(s, q, event) ==
  LET o == provider.payments[q].order
  IN  /\ session[s].step = "idle"
      /\ payment[o].attempts < AttemptCap
      /\ session' = [session EXCEPT ![s] =
            [Idle EXCEPT !.step = "begun", !.event = event, !.order = o,
                         !.pp = q, !.map = mapping[o]]]

\* verify_checkout.  The provider signs the callback of a payment that went
\* through; nothing remembers that the callback was seen before.
BeginCallback(s, q) ==
  /\ provider.payments[q].status \in {"authorized", "captured"}
  /\ mapping[provider.payments[q].order] # Unmapped
  /\ Begin(s, q, "callback")
  /\ UNCHANGED <<tables, provider>>

\* The request that inserted the delivery's ledger row first holds the key until
\* it ends.
Holding(d) == {s \in Session : /\ session[s].step \in {"begun", "fetched", "read"}
                               /\ <<session[s].pp, session[s].event>> = d}

\* Mutant: the ledger is not consulted.
BeginAnyWebhook(s, d) ==
  /\ d[2] \in Sent(d[1])
  /\ mapping[provider.payments[d[1]].order] # Unmapped
  /\ Begin(s, d[1], d[2])
  /\ UNCHANGED <<tables, provider>>

\* process_webhook of a delivery not in the ledger, for a payment we know.
BeginWebhook(s, d) ==
  /\ d[2] \in Sent(d[1])
  /\ d \notin ledger /\ Holding(d) = {}
  /\ mapping[provider.payments[d[1]].order] # Unmapped
  /\ Begin(s, d[1], d[2])
  /\ UNCHANGED <<tables, provider>>

\* ... and for one we do not: the delivery is used up.
WebhookOfStranger(d) ==
  /\ d[2] \in Sent(d[1])
  /\ d \notin ledger /\ Holding(d) = {}
  /\ mapping[provider.payments[d[1]].order] = Unmapped
  /\ ledger' = ledger \cup {d}
  /\ UNCHANGED <<mapping, payment, attempts, recovery, provider, session>>

\* Mutant: the status the webhook announced is believed.
FetchNothing(s) ==
  /\ session[s].step = "begun"
  /\ session' = [session EXCEPT ![s] =
       [@ EXCEPT !.step = "fetched",
                 !.got = IF session[s].event = "callback" THEN "captured"
                                                          ELSE session[s].event]]
  /\ UNCHANGED <<tables, provider>>

\* _retrieve_authoritative_state: the provider's word at this moment.
Fetch(s) ==
  /\ session[s].step = "begun"
  /\ session' = [session EXCEPT ![s] =
       [@ EXCEPT !.step = "fetched",
                 !.got = provider.payments[session[s].pp].status]]
  /\ UNCHANGED <<tables, provider>>

\* mapping.payment is loaded when it is first used; it may have been deleted.
ReadPayment(s) ==
  /\ session[s].step = "fetched"
  /\ payment[session[s].order] # NoPayment
  /\ session' = [session EXCEPT ![s] =
       [@ EXCEPT !.step = "read", !.row = payment[session[s].order]]]
  /\ UNCHANGED <<tables, provider>>

\* normalize_razorpay_failure searches the event's name with the error text.
Normalized(why, event) ==
  IF why = "UNKNOWN" /\ event = "callback" THEN "CHECKOUT_ABANDONMENT" ELSE why

\* The local status and reason of a provider status.
Verdict(x) ==
  LET why == Normalized(provider.payments[x.pp].why, x.event)
  IN  CASE x.got = "captured" -> [status |-> "SUCCEEDED", reason |-> None]
        [] x.got = "failed" ->
             [status |-> IF why = "CHECKOUT_ABANDONMENT" THEN "ABANDONED" ELSE "FAILED",
              reason |-> why]
        [] OTHER -> [status |-> "PENDING", reason |-> None]

NoChange(x) == /\ x.map.pp = x.pp
               /\ x.map.status = x.got
               /\ x.row.status = Verdict(x).status

\* A column is written when its new value differs from the value read.
Written(seen, new, current) == IF new = seen THEN current ELSE new

\* record_external_checkout_attempt on the row that was read.
Applied(x) ==
  LET v    == Verdict(x)
      now  == payment[x.order]
      more == v.status \in Successful \cup Unsuccessful
  IN  [status |-> Written(x.row.status, v.status, now.status),
       reason |-> Written(x.row.reason, v.reason, now.reason),
       attempts |-> IF more THEN x.row.attempts + 1 ELSE now.attempts]

NumberTaken(o, n) == \E r \in attempts[o] : r.number = n

Recorded(x) ==
  IF Verdict(x).status \in Successful \cup Unsuccessful
    THEN attempts[x.order] \cup
           {[number |-> x.row.attempts + 1, status |-> Verdict(x).status,
             source |-> [pp |-> x.pp, event |-> x.event]]}
    ELSE attempts[x.order]

\* RiskDetector: an open case is reused.
Detected(c) == IF c \in {"open", "scheduled"} THEN c ELSE "open"

Settle(x) ==
  ledger' = ledger \cup ({<<x.pp, x.event>>} \cap Delivery)

CommitNoChange(s) ==
  /\ session[s].step = "read" /\ NoChange(session[s])
  /\ Settle(session[s])
  /\ session' = [session EXCEPT ![s] = Idle]
  /\ UNCHANGED <<mapping, payment, attempts, recovery, provider>>

\* The mapping's provider payment and its status.
Linked(row, x) == [row EXCEPT !.pp = Written(x.map.pp, x.pp, @),
                              !.status = Written(x.map.status, x.got, @)]

Apply(x) ==
  /\ mapping' = [mapping EXCEPT ![x.order] = Linked(@, x)]
  /\ payment' = [payment EXCEPT ![x.order] = Applied(x)]
  /\ attempts' = [attempts EXCEPT ![x.order] = Recorded(x)]

\* Mutant: two attempts of a payment may have one number.
ApplyUnnumbered(s) ==
  LET x == session[s]
  IN  /\ x.step = "read" /\ ~NoChange(x)
      /\ mapping[x.order] # Unmapped
      /\ x.row.attempts < AttemptCap
      /\ Apply(x)
      /\ recovery' = IF Verdict(x).status \in Unsuccessful
                       THEN [recovery EXCEPT ![x.order] = Detected(@)] ELSE recovery
      /\ Settle(x)
      /\ session' = [session EXCEPT ![s] = Idle]
      /\ UNCHANGED provider

\* Mutant: a failure is recorded and committed before its case is opened.
ApplyWithoutCase(s) ==
  LET x == session[s]
  IN  /\ x.step = "read" /\ ~NoChange(x)
      /\ mapping[x.order] # Unmapped
      /\ x.row.attempts < AttemptCap
      /\ ~NumberTaken(x.order, x.row.attempts + 1)
      /\ Apply(x)
      /\ Settle(x)
      /\ session' = [session EXCEPT ![s] = Idle]
      /\ UNCHANGED <<recovery, provider>>

\* _apply_authoritative_payment and the route's commit.  Rows that were deleted
\* meanwhile cannot be updated.
CommitApplied(s) ==
  LET x == session[s]
  IN  /\ x.step = "read" /\ ~NoChange(x)
      /\ mapping[x.order] # Unmapped
      /\ x.row.attempts < AttemptCap
      /\ Verdict(x).status # "PENDING" => ~NumberTaken(x.order, x.row.attempts + 1)
      /\ Apply(x)
      /\ recovery' = IF Verdict(x).status \in Unsuccessful
                       THEN [recovery EXCEPT ![x.order] = Detected(@)] ELSE recovery
      /\ Settle(x)
      /\ session' = [session EXCEPT ![s] = Idle]
      /\ UNCHANGED provider

\* The provider is unreachable, a unique index objects, a row is gone, or the
\* process dies: the request leaves nothing more, and a webhook will be delivered
\* again.
Fails(s) ==
  /\ session[s].step # "idle"
  /\ session' = [session EXCEPT ![s] = Idle]
  /\ UNCHANGED <<tables, provider>>

-----------------------------------------------------------------------------
(* Recovery of a payment, one cycle of the workflow at a time, reduced to  *)
(* what it can do to the payment and to the state of its case.             *)

Attempted(row, success) ==
  [row EXCEPT !.status = IF success THEN "SUCCEEDED" ELSE "FAILED",
              !.reason = IF success THEN None ELSE @,
              !.attempts = @ + 1]

\* What one run makes of a payment row and the state of its case.
Cycle(row, case) ==
  IF case = "scheduled"
    THEN {[row |-> Attempted(row, TRUE),
           case |-> IF row.status \in Successful THEN "open" ELSE "closed"],
          [row |-> Attempted(row, FALSE), case |-> "open"],
          [row |-> row, case |-> "scheduled"]}
    ELSE {[row |-> row, case |-> "closed"]} \cup
         IF row.status \notin Unsuccessful \/ row.reason \in {None, "UNKNOWN"}
           THEN {} ELSE
           {[row |-> row, case |-> "scheduled"],
            [row |-> Attempted(row, TRUE), case |-> "closed"],
            [row |-> Attempted(row, FALSE), case |-> "open"]}

ByRecovery(before, after) ==
  IF after.attempts = before.attempts THEN {}
  ELSE {[number |-> after.attempts, status |-> after.status,
         source |-> [pp |-> None, event |-> "recovery"]]}

RunCase(o) ==
  /\ recovery[o] \in {"open", "scheduled"}
  /\ payment[o].attempts < AttemptCap
  /\ \E end \in Cycle(payment[o], recovery[o]) :
       /\ payment' = [payment EXCEPT ![o] = end.row]
       /\ recovery' = [recovery EXCEPT ![o] = end.case]
       /\ attempts' = [attempts EXCEPT ![o] = @ \cup ByRecovery(payment[o], end.row)]
  /\ UNCHANGED <<mapping, ledger, provider, session>>

\* simulate_order_failure: the payment fails whatever its status, a case is
\* opened or reused, and one cycle runs, in one transaction.
SimulateFailure(o, r) ==
  LET n    == payment[o].attempts + 1
      st   == IF r = "CHECKOUT_ABANDONMENT" THEN "ABANDONED" ELSE "FAILED"
      row  == [status |-> st, reason |-> r, attempts |-> n]
      case == Detected(recovery[o])
  IN  /\ mapping[o] # Unmapped
      /\ payment[o].attempts < AttemptCap
      /\ \E end \in Cycle(row, case) :
           /\ payment' = [payment EXCEPT ![o] = end.row]
           /\ recovery' = [recovery EXCEPT ![o] = end.case]
           /\ attempts' = [attempts EXCEPT ![o] = @ \cup
                {[number |-> n, status |-> st,
                  source |-> [pp |-> None, event |-> "simulated"]]}
                \cup ByRecovery(row, end.row)]
      /\ UNCHANGED <<mapping, ledger, provider, session>>

-----------------------------------------------------------------------------
(* The operator's and the portal's writes of the same rows.                *)

\* POST /payments/{id}/fail: the payment fails whatever its status and whoever made
\* it, and the failure is committed ...
FailPayment(s, o, r) ==
  LET n == payment[o].attempts + 1
  IN  /\ session[s].step = "idle" /\ mapping[o] # Unmapped
      /\ payment[o].attempts < AttemptCap
      /\ payment' = [payment EXCEPT ![o] =
                       [status |-> "FAILED", reason |-> r, attempts |-> n]]
      /\ attempts' = [attempts EXCEPT ![o] = @ \cup
           {[number |-> n, status |-> "FAILED",
             source |-> [pp |-> None, event |-> "operator"]]}]
      /\ session' = [session EXCEPT ![s] = [Idle EXCEPT !.step = "failing", !.order = o]]
      /\ UNCHANGED <<mapping, ledger, recovery, provider>>

\* ... before its case is opened, unless the payment is no longer at risk then.
OpenCase(s) ==
  LET o == session[s].order
  IN  /\ session[s].step = "failing"
      /\ recovery' = IF payment[o].status \in Unsuccessful
                       THEN [recovery EXCEPT ![o] = Detected(@)] ELSE recovery
      /\ session' = [session EXCEPT ![s] = Idle]
      /\ UNCHANGED <<mapping, payment, attempts, ledger, provider>>

\* customer_complete_recovery: the portal takes the customer's word, for any case but
\* one with a scheduled retry.
PortalCompletes(o) ==
  /\ recovery[o] \in {"open", "closed"}
  /\ payment[o].attempts < AttemptCap
  /\ payment' = [payment EXCEPT ![o] = Attempted(@, TRUE)]
  /\ attempts' = [attempts EXCEPT ![o] = @ \cup
       {[number |-> payment[o].attempts + 1, status |-> "SUCCEEDED",
         source |-> [pp |-> None, event |-> "portal"]]}]
  /\ recovery' = [recovery EXCEPT ![o] = "closed"]
  /\ UNCHANGED <<mapping, ledger, provider, session>>

Emptied ==
  /\ mapping' = [o \in Order |-> Unmapped]
  /\ payment' = [o \in Order |-> NoPayment]
  /\ attempts' = [o \in Order |-> {}]
  /\ recovery' = [o \in Order |-> "none"]

\* clear_cases deletes payments, mappings and cases.  The ledger stays, and so do
\* the provider and the requests in flight.
ClearCases ==
  /\ \E o \in Order : mapping[o] # Unmapped
  /\ Emptied
  /\ UNCHANGED <<ledger, provider, session>>

\* reset_demo drops every table, the ledger too; it waits for open transactions.
ResetDemo ==
  /\ \A s \in Session : session[s].step = "idle"
  /\ Emptied
  /\ ledger' = {}
  /\ UNCHANGED <<provider, session>>

-----------------------------------------------------------------------------
Customer ==
  \E q \in ProviderPayment :
    \/ \E o \in Order : Pays(q, o)
    \/ \E to \in ProviderStatus, why \in ErrorClass \cup {None} : Moves(q, to, why)

Request(s) ==
  \/ \E k \in Key, o \in Order : BeginOrder(s, k, o)
  \/ InsertOrder(s)
  \/ \E q \in ProviderPayment : BeginCallback(s, q)
  \/ \E d \in Delivery : BeginWebhook(s, d)
  \/ Fetch(s)
  \/ ReadPayment(s)
  \/ CommitNoChange(s)
  \/ CommitApplied(s)
  \/ \E o \in Order, r \in ErrorClass : FailPayment(s, o, r)
  \/ OpenCase(s)
  \/ Fails(s)

Next ==
  \/ Customer
  \/ \E s \in Session : Request(s)
  \/ \E d \in Delivery : WebhookOfStranger(d)
  \/ \E o \in Order : \/ RunCase(o) \/ PortalCompletes(o)
                      \/ \E r \in ErrorClass : SimulateFailure(o, r)
  \/ ClearCases \/ ResetDemo

Spec == Init /\ [][Next]_vars

-----------------------------------------------------------------------------
(* Properties.                                                             *)

\* Tables, provider and requests hold rows of their types, and a payment exists
\* with its mapping.
TypeOK ==
  /\ mapping \in [Order -> MappingRow]
  /\ payment \in [Order -> PaymentRow]
  /\ attempts \in [Order -> SUBSET AttemptRow]
  /\ ledger \subseteq Delivery
  /\ recovery \in [Order -> CaseStatus]
  /\ provider \in [orders : SUBSET Order, payments : [ProviderPayment -> ProviderRow]]
  /\ session \in [Session -> RequestRow]
  /\ \A o \in Order : (mapping[o] = Unmapped) <=> (payment[o] = NoPayment)

\* The attempts of a payment are numbered 1 to attempt_count without gap or
\* repetition, although requests count on from a value read earlier
\* (attempt_count, and the unique index on payment and attempt number).
AttemptsNumbered ==
  \A o \in Order :
    /\ {r.number : r \in attempts[o]} = 1..payment[o].attempts
    /\ Cardinality(attempts[o]) = payment[o].attempts

\* A webhook delivery is acted on at most once, however often it arrives and
\* however many requests handle it at the same time (the inbound ledger).
DeliveryActsOnce ==
  \A o \in Order, d \in Delivery :
    Cardinality({r \in attempts[o] : <<r.source.pp, r.source.event>> = d}) <= 1

\* A failed payment without a recovery case was last failed by the operator, whose
\* request commits the failure first and may die then: whatever the gateway or a
\* recovery run reports, record and case are one transaction.
FailureIsTakenUp ==
  \A o \in Order : payment[o].status \in Unsuccessful /\ recovery[o] = "none" =>
    \A r \in attempts[o] : r.number = payment[o].attempts => r.source.event = "operator"

\* A payment that has succeeded is failed or pending again only by news of a provider
\* payment that is not captured, by a request that began before the capture was
\* applied, by the simulated failure, by the operator's, or by a recovery action: a
\* webhook that is merely late or delivered again does not undo the capture it
\* follows.  (clear_cases and reset_demo delete the payment; they overturn nothing.)
Overturned(o) ==
  /\ payment[o].status = "SUCCEEDED"
  /\ payment'[o] # NoPayment /\ payment'[o].status # "SUCCEEDED"

Excused(o) ==
  \/ \E s \in Session : /\ session[s].step = "read" /\ session[s].order = o
                        /\ session'[s] = Idle
                        /\ \/ provider.payments[session[s].pp].status # "captured"
                           \/ session[s].map.status # "captured"
  \/ \E r \in attempts'[o] \ attempts[o] :
       r.source.event \in {"simulated", "operator", "recovery"}

CaptureOverturnedOnlyBy == [][\A o \in Order : Overturned(o) => Excused(o)]_vars

\* "Recovering an already-successful payment would double-charge a customer"
\* (InvalidPaymentStateRule): no recovery action charges a payment that is captured.
CapturedNeverCharged ==
  [][\A o \in Order : \A r \in attempts'[o] \ attempts[o] :
        r.source.event = "recovery" /\ r.number = payment[o].attempts + 1 =>
          payment[o].status \notin Successful]_vars
=============================================================================

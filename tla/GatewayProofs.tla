--------------------------- MODULE GatewayProofs ---------------------------
(***************************************************************************)
(* Theorems about gateway payments, for any number of orders, provider     *)
(* payments, deliveries and requests in flight: the attempts of a payment  *)
(* are numbered without gap, a delivery is acted on once, a failure that  *)
(* the gateway reports has a recovery case, and late news does not undo a  *)
(* capture.                                                                *)
(***************************************************************************)
EXTENDS GatewayPayments, FiniteSetTheorems, TLAPS

Numbered(rows, n) ==
  /\ IsFiniteSet(rows) /\ Cardinality(rows) = n
  /\ {r.number : r \in rows} = 1..n

DeliveryOf(r) == <<r.source.pp, r.source.event>>

OncePerDelivery(rows) ==
  \A r, q \in rows : DeliveryOf(r) \in Delivery /\ DeliveryOf(r) = DeliveryOf(q) => r = q

\* One payment of an order is captured, in the provider's books p.
Captured(p, o) == \E q \in ProviderPayment : /\ p.payments[q].order = o
                                             /\ p.payments[q].status = "captured"

\* The provider's payments belong to orders, and it says why one failed.
ProviderPart(p) ==
  \A q \in ProviderPayment :
    /\ p.payments[q].status # None => p.payments[q].order # None
    /\ p.payments[q].status = "failed" => p.payments[q].why # None

\* The last of n attempts was the operator's.
LastByOperator(rows, n) == \A r \in rows : r.number = n => r.source.event = "operator"

\* What the tables hold for one order.
OrderPart(o, map, pay, rows, case, p, led) ==
  /\ (map = Unmapped) <=> (pay = NoPayment)
  /\ map = Unmapped => case = "none"
  /\ map # Unmapped => map.key \in Key /\ pay.status # None /\ o \in p.orders
  /\ map.status = "captured" => Captured(p, o)
  /\ pay.status \in Unsuccessful /\ case = "none" => LastByOperator(rows, pay.attempts)
  /\ Numbered(rows, pay.attempts)
  /\ OncePerDelivery(rows)
  /\ \A r \in rows : DeliveryOf(r) \in Delivery => DeliveryOf(r) \in led

HasNews(x) == x.step \in {"begun", "fetched", "read"}
News(x)    == <<x.pp, x.event>>

\* Idle, or between the two commits of the operator's failure.
Settled(x) == \/ x.step = "idle"
              \/ x.step = "failing" /\ x.order \in Order

\* A payment does not fail while its attempt count stays what it is.
Counted(old, new) ==
  /\ old.attempts <= new.attempts
  /\ new.attempts = old.attempts /\ old.status \notin Unsuccessful =>
       new.status \notin Unsuccessful

\* What a request in flight knows, and what cannot have changed since it knows it:
\* a payment that is still there counts on, and has not failed under the same count,
\* one that is captured or failed at the provider stays so, and another one of its
\* order is not captured after it.
RequestPart(x, maps, pays, p, led) ==
  /\ x.step = "failing" => x.order \in Order
  /\ x.step = "ordering" =>
       x.key \in Key /\ x.order \in p.orders /\ maps[x.order] = Unmapped
  /\ HasNews(x) =>
       /\ x.pp \in ProviderPayment /\ x.event \in Event \cup {"callback"}
       /\ x.order \in Order /\ x.order \in p.orders
       /\ p.payments[x.pp].order = x.order /\ p.payments[x.pp].status # None
       /\ News(x) \notin led
       /\ x.map.status = "captured" => Captured(p, x.order)
  /\ x.step \in {"fetched", "read"} =>
       /\ x.got \in ProviderStatus
       /\ x.got \in {"captured", "failed"} => p.payments[x.pp].status = x.got
       /\ x.map.status = "captured" /\ p.payments[x.pp].status = "captured" =>
            x.got = "captured"
  /\ x.step = "read" /\ maps[x.order] # Unmapped => Counted(x.row, pays[x.order])

\* Two requests make no order twice, there is no news of an order being made, and two
\* requests handle no delivery twice.
Apart(x, y) ==
  /\ x.step = "ordering" /\ (y.step = "ordering" \/ HasNews(y)) => x.order # y.order
  /\ HasNews(x) /\ HasNews(y) /\ News(x) \in Delivery => News(x) # News(y)

GatewayInv ==
  /\ TypeOK
  /\ ProviderPart(provider)
  /\ \A o \in Order : OrderPart(o, mapping[o], payment[o], attempts[o], recovery[o],
                                provider, ledger)
  /\ \A s \in Session : RequestPart(session[s], mapping, payment, provider, ledger)
  /\ \A s, t \in Session : s # t => Apart(session[s], session[t])
-----------------------------------------------------------------------------
(* Rows and the steps that write them.                                     *)

\* A row under the next number is the next row.
LEMMA NextAttempt ==
  ASSUME NEW rows \in SUBSET AttemptRow, NEW n \in Nat, Numbered(rows, n),
         NEW r \in AttemptRow, r.number = n + 1
  PROVE  Numbered(rows \cup {r}, n + 1) /\ r \notin rows
<1>1. r \notin rows
  <2>1. n + 1 \notin 1..n
    OBVIOUS
  <2> QED
    BY <2>1 DEF Numbered
<1>2. IsFiniteSet(rows \cup {r}) /\ Cardinality(rows \cup {r}) = n + 1
  BY <1>1, FS_AddElement DEF Numbered
<1>3. {q.number : q \in rows \cup {r}} = {q.number : q \in rows} \cup {n + 1}
  OBVIOUS
<1>4. (1..n) \cup {n + 1} = 1..(n + 1)
  OBVIOUS
<1> QED
  BY <1>1, <1>2, <1>3, <1>4 DEF Numbered

\* A row whose news has not been acted on keeps deliveries single.
LEMMA NextDelivery ==
  ASSUME NEW rows, NEW r, OncePerDelivery(rows),
         DeliveryOf(r) \in Delivery => \A q \in rows : DeliveryOf(q) # DeliveryOf(r)
  PROVE  OncePerDelivery(rows \cup {r})
BY DEF OncePerDelivery

LEMMA SettledRequest ==
  ASSUME NEW x, Settled(x)
  PROVE  /\ ~HasNews(x)
         /\ \A maps, pays, p, led : RequestPart(x, maps, pays, p, led)
         /\ \A y : Apart(x, y) /\ Apart(y, x)
BY DEF Settled, HasNews, RequestPart, Apart

LEMMA IdleRequest ==
  /\ Idle \in RequestRow /\ Idle.step = "idle" /\ Settled(Idle) /\ ~HasNews(Idle)
  /\ \A maps, pays, p, led : RequestPart(Idle, maps, pays, p, led)
  /\ \A x : Apart(Idle, x) /\ Apart(x, Idle)
<1>1. /\ Unmapped \in MappingRow /\ NoPayment \in PaymentRow
  BY DEF Unmapped, NoPayment, MappingRow, PaymentRow
<1>2. Idle \in RequestRow /\ Idle.step = "idle"
  BY <1>1 DEF Idle, RequestRow
<1>3. Settled(Idle)
  BY <1>2 DEF Settled
<1> QED
  BY <1>2, <1>3, SettledRequest

\* The status and reason a payment gets from the provider's word.
LEMMA VerdictRow ==
  ASSUME NEW x \in RequestRow, x.got \in ProviderStatus,
         x.got = "failed" => provider.payments[x.pp].why \in ErrorClass
  PROVE  /\ Verdict(x).status \in {"SUCCEEDED", "PENDING", "FAILED", "ABANDONED"}
         /\ Verdict(x).reason \in FailureReason \cup {None}
         /\ x.got = "captured" => Verdict(x).status = "SUCCEEDED"
<1>1. CASE x.got = "captured"
  BY <1>1 DEF Verdict
<1>2. CASE x.got = "failed"
  <2> DEFINE why == Normalized(provider.payments[x.pp].why, x.event)
  <2>1. why \in FailureReason
    BY <1>2, GatewayAssumption DEF Normalized, FailureReason
  <2>2. Verdict(x) = [status |-> IF why = "CHECKOUT_ABANDONMENT" THEN "ABANDONED"
                                                                 ELSE "FAILED",
                      reason |-> why]
    BY <1>2 DEF Verdict
  <2> QED
    BY <1>2, <2>1, <2>2
<1>3. CASE x.got \notin {"captured", "failed"}
  BY <1>3 DEF Verdict
<1> QED
  BY <1>1, <1>2, <1>3

\* An attempt of a recovery run, and what a run makes of a payment and its case: it
\* attempts the payment once or leaves it alone.
LEMMA CycleRow ==
  ASSUME NEW row \in PaymentRow, row.status \in PaymentStatus,
         NEW case \in CaseStatus, NEW end \in Cycle(row, case)
  PROVE  /\ end.row \in PaymentRow /\ end.row.status \in PaymentStatus
         /\ end.case \in CaseStatus \ {"none"}
         /\ end.row = row \/ end.row.attempts = row.attempts + 1
         /\ end.row.attempts \in Nat /\ row.attempts \in Nat
<1> DEFINE won  == Attempted(row, TRUE)
           lost == Attempted(row, FALSE)
<1>1. /\ row.attempts \in Nat /\ row.attempts + 1 \in Nat
      /\ {"SUCCEEDED", "FAILED"} \subseteq PaymentStatus
  BY DEF PaymentRow, PaymentStatus
<1>2. /\ won \in PaymentRow /\ won.attempts = row.attempts + 1
      /\ won.status = "SUCCEEDED"
      /\ lost \in PaymentRow /\ lost.attempts = row.attempts + 1
      /\ lost.status = "FAILED"
  BY <1>1 DEF Attempted, PaymentRow
<1>3. \/ end \in {[row |-> won,
                   case |-> IF row.status \in Successful THEN "open" ELSE "closed"],
                  [row |-> lost, case |-> "open"], [row |-> row, case |-> "scheduled"]}
      \/ end \in {[row |-> row, case |-> "closed"], [row |-> row, case |-> "scheduled"],
                  [row |-> won, case |-> "closed"], [row |-> lost, case |-> "open"]}
  BY Zenon DEF Cycle
<1> HIDE DEF won, lost
<1>4. /\ end.row \in {row, won, lost}
      /\ end.case \in {"open", "closed", "scheduled"}
  BY <1>3
<1> QED
  BY <1>1, <1>2, <1>4 DEF CaseStatus

\* The attempts after a run: one more row if it attempted the payment.
LEMMA CycleAttempts ==
  ASSUME NEW row \in PaymentRow, row.status \in PaymentStatus,
         NEW case \in CaseStatus, NEW end \in Cycle(row, case),
         NEW rows \in SUBSET AttemptRow, Numbered(rows, row.attempts),
         OncePerDelivery(rows),
         NEW all, all = rows \cup ByRecovery(row, end.row)
  PROVE  /\ all \in SUBSET AttemptRow
         /\ Numbered(all, end.row.attempts) /\ OncePerDelivery(all)
         /\ \A r \in all \ rows : DeliveryOf(r) \notin Delivery
         /\ end.row # row => \E r \in all \ rows : r.source.event = "recovery"
<1>1. CASE end.row = row
  <2>1. all = rows
    BY <1>1 DEF ByRecovery
  <2> QED
    BY <1>1, <2>1
<1>2. CASE end.row # row
  <2> DEFINE n == end.row.attempts
             r == [number |-> n, status |-> end.row.status,
                   source |-> [pp |-> None, event |-> "recovery"]]
  <2>1. /\ n = row.attempts + 1 /\ row.attempts \in Nat
        /\ end.row.status \in PaymentStatus
    BY <1>2, CycleRow
  <2>2. all = rows \cup {r}
    BY <2>1 DEF ByRecovery
  <2>3. /\ r \in AttemptRow /\ r.number = n /\ DeliveryOf(r) = <<None, "recovery">>
        /\ r.source.event = "recovery"
    BY <2>1 DEF AttemptRow, Source, DeliveryOf
  <2>4. DeliveryOf(r) \notin Delivery
    BY <2>3 DEF Delivery, Event
  <2> HIDE DEF r, n
  <2>5. Numbered(all, n) /\ r \notin rows
    BY <2>1, <2>2, <2>3, NextAttempt
  <2>6. OncePerDelivery(all)
    BY <2>2, <2>4, NextDelivery
  <2> QED
    BY <2>2, <2>3, <2>4, <2>5, <2>6 DEF n
<1> QED
  BY <1>1, <1>2
-----------------------------------------------------------------------------
(* What the steps have in common.                                          *)

\* A step of one request that changes no table.
LEMMA RequestMoves ==
  ASSUME GatewayInv, NEW s \in Session, NEW x \in RequestRow,
         UNCHANGED tables, session' = [session EXCEPT ![s] = x],
         provider' \in [orders : SUBSET Order, payments : [ProviderPayment -> ProviderRow]],
         provider'.payments = provider.payments, provider.orders \subseteq provider'.orders,
         RequestPart(x, mapping, payment, provider', ledger),
         \A t \in Session \ {s} : Apart(x, session[t]) /\ Apart(session[t], x)
  PROVE  GatewayInv'
<1> USE DEF tables
<1>1. /\ TypeOK /\ ProviderPart(provider)
      /\ \A o \in Order : OrderPart(o, mapping[o], payment[o], attempts[o], recovery[o],
                                    provider, ledger)
      /\ \A t \in Session : RequestPart(session[t], mapping, payment, provider, ledger)
      /\ \A t, u \in Session : t # u => Apart(session[t], session[u])
  BY DEF GatewayInv
<1>2. /\ session \in [Session -> RequestRow] /\ session' \in [Session -> RequestRow]
      /\ session'[s] = x /\ \A t \in Session \ {s} : session'[t] = session[t]
  BY <1>1 DEF TypeOK
<1>3. TypeOK' /\ ProviderPart(provider')
  BY <1>1, <1>2 DEF TypeOK, ProviderPart
<1>4. \A o : Captured(provider, o) <=> Captured(provider', o)
  BY DEF Captured
<1>5. \A o \in Order : OrderPart(o, mapping[o], payment[o], attempts[o], recovery[o],
                                 provider', ledger)
  BY <1>1, <1>4 DEF OrderPart
<1>6. \A t \in Session : RequestPart(session[t], mapping, payment, provider', ledger)
  BY <1>1, <1>4 DEF RequestPart
<1>7. \A t, u \in Session : t # u => Apart(session'[t], session'[u])
  BY <1>1, <1>2
<1>8. \A t \in Session : RequestPart(session'[t], mapping, payment, provider', ledger)
  BY <1>2, <1>6
<1> QED
  BY <1>3, <1>5, <1>7, <1>8 DEF GatewayInv

\* A request that ends without a commit leaves nothing.
LEMMA RequestEnds ==
  ASSUME GatewayInv, NEW s \in Session, session' = [session EXCEPT ![s] = Idle],
         UNCHANGED <<tables, provider>>
  PROVE  GatewayInv'
<1>1. /\ provider' = provider
      /\ provider \in [orders : SUBSET Order, payments : [ProviderPayment -> ProviderRow]]
  BY DEF GatewayInv, TypeOK
<1>2. UNCHANGED tables
  OBVIOUS
<1> QED
  BY <1>1, <1>2, IdleRequest, RequestMoves

\* A step of the provider, to books p: a payment keeps its order and goes on from its
\* status, captured and failed payments are final, and an order is paid once.
LEMMA ProviderMoves ==
  ASSUME GatewayInv, UNCHANGED <<tables, session>>,
         NEW p, provider' = p,
         p \in [orders : SUBSET Order, payments : [ProviderPayment -> ProviderRow]],
         ProviderPart(p), p.orders = provider.orders,
         \A q \in ProviderPayment :
           LET old == provider.payments[q]
               new == p.payments[q]
           IN  old.order # None =>
                 /\ new.order = old.order
                 /\ old.status # None => new.status # None
                 /\ old.status \in {"captured", "failed"} => new.status = old.status
                 /\ old.status # "captured" /\ Captured(provider, old.order)
                      => new.status # "captured"
  PROVE  GatewayInv'
<1> USE DEF tables
<1>1. /\ TypeOK
      /\ \A o \in Order : OrderPart(o, mapping[o], payment[o], attempts[o], recovery[o],
                                    provider, ledger)
      /\ \A t \in Session : RequestPart(session[t], mapping, payment, provider, ledger)
      /\ \A t, u \in Session : t # u => Apart(session[t], session[u])
  BY DEF GatewayInv
<1>2. TypeOK'
  BY <1>1 DEF TypeOK
<1>3. \A o \in Order : Captured(provider, o) => Captured(p, o)
  BY GatewayAssumption DEF Captured
<1>4. \A o \in Order : OrderPart(o, mapping[o], payment[o], attempts[o], recovery[o],
                                 p, ledger)
  BY <1>1, <1>3 DEF OrderPart
<1>5. ASSUME NEW t \in Session
      PROVE  RequestPart(session[t], mapping, payment, p, ledger)
  <2> DEFINE x == session[t]
  <2>1. RequestPart(x, mapping, payment, provider, ledger)
    BY <1>1
  <2> HIDE DEF x
  <2>2. /\ x.step = "failing" => x.order \in Order
        /\ x.step = "ordering" => x.key \in Key /\ x.order \in p.orders
                                 /\ mapping[x.order] = Unmapped
    BY <2>1 DEF RequestPart
  <2>3. ASSUME HasNews(x)
        PROVE  /\ x.pp \in ProviderPayment /\ x.event \in Event \cup {"callback"}
               /\ x.order \in Order /\ x.order \in p.orders
               /\ provider.payments[x.pp].order = x.order /\ x.order # None
               /\ p.payments[x.pp].order = x.order /\ p.payments[x.pp].status # None
               /\ News(x) \notin ledger
               /\ x.map.status = "captured" => Captured(provider, x.order)
               /\ x.map.status = "captured" => Captured(p, x.order)
    <3>1. /\ x.pp \in ProviderPayment /\ x.event \in Event \cup {"callback"}
          /\ x.order \in Order /\ x.order \in p.orders
          /\ provider.payments[x.pp].order = x.order
          /\ provider.payments[x.pp].status # None
          /\ News(x) \notin ledger
          /\ x.map.status = "captured" => Captured(provider, x.order)
      BY <2>1, <2>3 DEF RequestPart
    <3>2. x.order # None
      BY <3>1, GatewayAssumption
    <3> QED
      BY <1>3, <3>1, <3>2
  <2>4. ASSUME x.step \in {"fetched", "read"}
        PROVE  /\ x.got \in ProviderStatus
               /\ x.got \in {"captured", "failed"} => p.payments[x.pp].status = x.got
               /\ x.map.status = "captured" /\ p.payments[x.pp].status = "captured"
                    => x.got = "captured"
    <3>1. HasNews(x)
      BY <2>4 DEF HasNews
    <3>2. /\ x.got \in ProviderStatus
          /\ x.got \in {"captured", "failed"} => provider.payments[x.pp].status = x.got
          /\ x.map.status = "captured" /\ provider.payments[x.pp].status = "captured"
               => x.got = "captured"
      BY <2>1, <2>4 DEF RequestPart
    <3> QED
      BY <2>3, <3>1, <3>2
  <2>5. x.step = "read" /\ mapping[x.order] # Unmapped
          => Counted(x.row, payment[x.order])
    BY <2>1 DEF RequestPart
  <2> QED
    BY <2>2, <2>3, <2>4, <2>5 DEF RequestPart, x
<1> QED
  BY <1>1, <1>2, <1>4, <1>5 DEF GatewayInv

LEMMA CountsOn ==
  ASSUME NEW a \in PaymentRow, NEW b \in PaymentRow, NEW c \in PaymentRow,
         Counted(a, b), Counted(b, c)
  PROVE  Counted(a, c)
BY DEF Counted, PaymentRow

\* A commit for one order o, by a request that is settled then or by none.
LEMMA OrderMoves ==
  ASSUME GatewayInv, NEW o \in Order,
         NEW m \in MappingRow, NEW pay \in PaymentRow, NEW rows \in SUBSET AttemptRow,
         NEW c \in CaseStatus, NEW led \in SUBSET Delivery,
         mapping' = [mapping EXCEPT ![o] = m],
         payment' = [payment EXCEPT ![o] = pay],
         attempts' = [attempts EXCEPT ![o] = rows],
         recovery' = [recovery EXCEPT ![o] = c],
         ledger' = led, ledger \subseteq led, provider' = provider,
         session' \in [Session -> RequestRow],
         \A t \in Session : session'[t] = session[t] \/ Settled(session'[t]),
         OrderPart(o, m, pay, rows, c, provider, led),
         mapping[o] # Unmapped => Counted(payment[o], pay),
         mapping[o] = Unmapped /\ m # Unmapped =>
           \A t \in Session : HasNews(session'[t]) => session'[t].order # o,
         \A t \in Session : /\ session'[t].step = "ordering" /\ session'[t].order = o
                                  => m = Unmapped
                            /\ HasNews(session'[t]) => News(session'[t]) \notin led
  PROVE  GatewayInv'
<1>1. /\ TypeOK /\ ProviderPart(provider)
      /\ \A r \in Order : OrderPart(r, mapping[r], payment[r], attempts[r], recovery[r],
                                    provider, ledger)
      /\ \A t \in Session : RequestPart(session[t], mapping, payment, provider, ledger)
      /\ \A t, u \in Session : t # u => Apart(session[t], session[u])
  BY DEF GatewayInv
<1>2. /\ mapping \in [Order -> MappingRow] /\ payment \in [Order -> PaymentRow]
      /\ attempts \in [Order -> SUBSET AttemptRow] /\ recovery \in [Order -> CaseStatus]
      /\ session \in [Session -> RequestRow] /\ provider \in
           [orders : SUBSET Order, payments : [ProviderPayment -> ProviderRow]]
      /\ provider.orders \subseteq Order
      /\ \A r \in Order : (mapping[r] = Unmapped) <=> (payment[r] = NoPayment)
  BY <1>1 DEF TypeOK
<1>3. /\ mapping'[o] = m /\ payment'[o] = pay /\ attempts'[o] = rows /\ recovery'[o] = c
      /\ \A r \in Order \ {o} : /\ mapping'[r] = mapping[r] /\ payment'[r] = payment[r]
                                /\ attempts'[r] = attempts[r]
                                /\ recovery'[r] = recovery[r]
  BY <1>2
<1>4. (m = Unmapped) <=> (pay = NoPayment)
  BY DEF OrderPart
<1>5. TypeOK'
  <2>1. \A r \in Order : (mapping'[r] = Unmapped) <=> (payment'[r] = NoPayment)
    BY <1>2, <1>3, <1>4
  <2> QED
    BY <1>2, <2>1 DEF TypeOK
<1>6. ASSUME NEW r \in Order
      PROVE  OrderPart(r, mapping'[r], payment'[r], attempts'[r], recovery'[r],
                       provider, led)
  <2>1. CASE r = o
    BY <1>3, <2>1
  <2>2. CASE r # o
    <3>1. OrderPart(r, mapping[r], payment[r], attempts[r], recovery[r], provider, ledger)
      BY <1>1
    <3>2. OrderPart(r, mapping[r], payment[r], attempts[r], recovery[r], provider, led)
      BY <3>1 DEF OrderPart
    <3> QED
      BY <1>3, <2>2, <3>2
  <2> QED
    BY <2>1, <2>2
<1>7. ASSUME NEW t \in Session
      PROVE  RequestPart(session'[t], mapping', payment', provider, led)
  <2> DEFINE x == session[t]
  <2>1. CASE Settled(session'[t])
    BY <2>1, SettledRequest
  <2>2. CASE session'[t] = session[t]
    <3>1. /\ RequestPart(x, mapping, payment, provider, ledger) /\ x \in RequestRow
          /\ x.step = "ordering" /\ x.order = o => m = Unmapped
          /\ HasNews(x) => News(x) \notin led
      BY <1>1, <1>2, <2>2
    <3> HIDE DEF x
    <3>2. x.step = "ordering" => /\ x.key \in Key /\ x.order \in provider.orders
                                 /\ x.order \in Order /\ mapping'[x.order] = Unmapped
      BY <1>2, <1>3, <3>1 DEF RequestPart
    <3>3. HasNews(x) =>
            /\ x.pp \in ProviderPayment /\ x.event \in Event \cup {"callback"}
            /\ x.order \in Order /\ x.order \in provider.orders
            /\ provider.payments[x.pp].order = x.order
            /\ provider.payments[x.pp].status # None
            /\ News(x) \notin led
            /\ x.map.status = "captured" => Captured(provider, x.order)
      BY <1>3, <3>1 DEF RequestPart
    <3>4. ASSUME x.step = "read", mapping'[x.order] # Unmapped
          PROVE  Counted(x.row, payment'[x.order])
      <4>1. HasNews(x) /\ x.order \in Order /\ x.row \in PaymentRow
        BY <3>1, <3>4 DEF RequestPart, HasNews, RequestRow
      <4>2. mapping[x.order] # Unmapped
        BY <1>3, <2>2, <3>4, <4>1 DEF x
      <4>3. Counted(x.row, payment[x.order]) /\ payment[x.order] \in PaymentRow
        BY <1>2, <3>1, <3>4, <4>1, <4>2 DEF RequestPart
      <4>4. CASE x.order = o
        <5>1. payment'[x.order] = pay /\ Counted(payment[x.order], pay)
          BY <1>3, <4>2, <4>4
        <5> QED
          BY <4>1, <4>3, <5>1, CountsOn
      <4>5. CASE x.order # o
        BY <1>3, <4>1, <4>3, <4>5
      <4> QED
        BY <4>4, <4>5
    <3>5. RequestPart(x, mapping', payment', provider, led)
      BY <3>1, <3>2, <3>3, <3>4 DEF RequestPart
    <3> QED
      BY <2>2, <3>5 DEF x
  <2> QED
    BY <2>1, <2>2
<1>8. \A t, u \in Session : t # u => Apart(session'[t], session'[u])
  BY <1>1, SettledRequest
<1> QED
  BY <1>1, <1>5, <1>6, <1>7, <1>8 DEF GatewayInv
-----------------------------------------------------------------------------
(* The steps of the provider and of requests.                              *)

LEMMA PaysStep ==
  ASSUME GatewayInv, NEW q \in ProviderPayment, NEW o \in Order, Pays(q, o)
  PROVE  GatewayInv'
<1> DEFINE row == [order |-> o, status |-> "created", why |-> None]
           p   == [provider EXCEPT !.payments[q] = row]
<1>1. /\ provider \in
           [orders : SUBSET Order, payments : [ProviderPayment -> ProviderRow]]
      /\ ProviderPart(provider)
  BY DEF GatewayInv, TypeOK
<1>2. row \in ProviderRow /\ row.status = "created" /\ row.order = o
  BY DEF ProviderRow, ProviderStatus
<1>3. o # None
  BY GatewayAssumption
<1> HIDE DEF row
<1>4. /\ p \in [orders : SUBSET Order, payments : [ProviderPayment -> ProviderRow]]
      /\ p.orders = provider.orders /\ p.payments[q] = row
      /\ \A r \in ProviderPayment \ {q} : p.payments[r] = provider.payments[r]
  BY <1>1, <1>2
<1>5. provider' = p /\ UNCHANGED <<tables, session>> /\ provider.payments[q].order = None
  BY DEF Pays, row
<1> HIDE DEF p
<1>6. ProviderPart(p)
  BY <1>1, <1>2, <1>3, <1>4 DEF ProviderPart
<1> QED
  BY <1>4, <1>5, <1>6, ProviderMoves

LEMMA MovesStep ==
  ASSUME GatewayInv, NEW q \in ProviderPayment, NEW to \in ProviderStatus,
         NEW why \in ErrorClass \cup {None}, Moves(q, to, why)
  PROVE  GatewayInv'
<1> DEFINE old == provider.payments[q]
           new == [old EXCEPT !.status = to, !.why = why]
           p   == [provider EXCEPT !.payments[q] = new]
<1>1. /\ provider \in
           [orders : SUBSET Order, payments : [ProviderPayment -> ProviderRow]]
      /\ ProviderPart(provider) /\ old \in ProviderRow
  BY DEF GatewayInv, TypeOK
<1>2. /\ \/ old.status = "created" /\ to = "authorized"
         \/ old.status = "created" /\ to = "failed"
         \/ old.status = "authorized" /\ to = "captured"
      /\ to = "captured" => ~Captured(provider, old.order)
      /\ (why = None) <=> (to # "failed")
      /\ provider' = p /\ UNCHANGED <<tables, session>>
  BY DEF Moves, Paid, Captured
<1>3. new \in ProviderRow /\ new.order = old.order /\ new.status = to /\ new.why = why
  BY <1>1 DEF ProviderRow
<1>4. old.status # None /\ to # None
  BY <1>2, GatewayAssumption DEF ProviderStatus
<1> HIDE DEF new
<1>5. /\ p \in [orders : SUBSET Order, payments : [ProviderPayment -> ProviderRow]]
      /\ p.orders = provider.orders /\ p.payments[q] = new
      /\ \A r \in ProviderPayment \ {q} : p.payments[r] = provider.payments[r]
  BY <1>1, <1>3
<1> HIDE DEF p
<1>6. ProviderPart(p)
  BY <1>1, <1>2, <1>3, <1>4, <1>5 DEF ProviderPart
<1>7. old.status \notin {"captured", "failed"}
  BY <1>2
<1> QED
  BY <1>2, <1>3, <1>4, <1>5, <1>6, <1>7, ProviderMoves

LEMMA BeginOrderStep ==
  ASSUME GatewayInv, NEW s \in Session, NEW k \in Key, NEW o \in Order,
         BeginOrder(s, k, o)
  PROVE  GatewayInv'
<1> DEFINE x == [Idle EXCEPT !.step = "ordering", !.key = k, !.order = o]
<1>1. /\ provider \in
           [orders : SUBSET Order, payments : [ProviderPayment -> ProviderRow]]
      /\ OrderPart(o, mapping[o], payment[o], attempts[o], recovery[o], provider, ledger)
      /\ \A t \in Session : RequestPart(session[t], mapping, payment, provider, ledger)
  BY DEF GatewayInv, TypeOK
<1>2. /\ x \in RequestRow /\ x.step = "ordering" /\ x.key = k /\ x.order = o
  BY IdleRequest DEF RequestRow
<1>3. ~HasNews(x)
  BY <1>2 DEF HasNews
<1>4. /\ provider' = [provider EXCEPT !.orders = provider.orders \cup {o}]
      /\ session' = [session EXCEPT ![s] = x]
      /\ o \notin provider.orders /\ UNCHANGED tables
  BY <1>1 DEF BeginOrder
<1> HIDE DEF x
<1>5. /\ provider' \in
           [orders : SUBSET Order, payments : [ProviderPayment -> ProviderRow]]
      /\ provider'.payments = provider.payments
      /\ provider'.orders = provider.orders \cup {o}
  BY <1>1, <1>4
<1>6. mapping[o] = Unmapped
  BY <1>1, <1>4 DEF OrderPart
<1>7. RequestPart(x, mapping, payment, provider', ledger)
  BY <1>2, <1>3, <1>5, <1>6 DEF RequestPart, HasNews
<1>8. \A t \in Session \ {s} : Apart(x, session[t]) /\ Apart(session[t], x)
  BY <1>1, <1>2, <1>3, <1>4 DEF RequestPart, Apart
<1> QED
  BY <1>2, <1>4, <1>5, <1>7, <1>8, RequestMoves

\* Taking up news of a payment of a mapped order, which no request has taken up.
LEMMA BeginStep ==
  ASSUME GatewayInv, NEW s \in Session, NEW q \in ProviderPayment,
         NEW event \in Event \cup {"callback"}, Begin(s, q, event),
         provider.payments[q].status # None,
         mapping[provider.payments[q].order] # Unmapped,
         <<q, event>> \notin ledger,
         event = "callback" \/ Holding(<<q, event>>) = {},
         UNCHANGED <<tables, provider>>
  PROVE  GatewayInv'
<1> DEFINE o == provider.payments[q].order
           x == [Idle EXCEPT !.step = "begun", !.event = event, !.order = o,
                             !.pp = q, !.map = mapping[o]]
<1>1. /\ TypeOK
      /\ ProviderPart(provider) /\ mapping \in [Order -> MappingRow]
      /\ provider \in
           [orders : SUBSET Order, payments : [ProviderPayment -> ProviderRow]]
  BY DEF GatewayInv, TypeOK
<1>2. o \in Order /\ mapping[o] \in MappingRow
  BY <1>1 DEF ProviderPart, ProviderRow
<1>3. OrderPart(o, mapping[o], payment[o], attempts[o], recovery[o], provider, ledger)
  BY <1>2 DEF GatewayInv
<1>4. /\ x \in RequestRow /\ x.step = "begun" /\ x.event = event /\ x.order = o
      /\ x.pp = q /\ x.map = mapping[o]
  BY <1>2, IdleRequest DEF RequestRow
<1>5. session' = [session EXCEPT ![s] = x] /\ UNCHANGED tables /\ provider' = provider
  BY DEF Begin
<1> HIDE DEF x, o
<1>6. /\ provider.payments[q].order = o /\ News(x) = <<q, event>> /\ HasNews(x)
      /\ mapping[o] # Unmapped /\ x.step \notin {"ordering", "failing", "read"}
  BY <1>4 DEF o, News, HasNews
<1>7. RequestPart(x, mapping, payment, provider, ledger)
  BY <1>2, <1>3, <1>4, <1>6 DEF RequestPart, OrderPart, o
<1>8. ASSUME NEW t \in Session \ {s}
      PROVE  Apart(x, session[t]) /\ Apart(session[t], x)
  <2>1. x.step # "ordering"
    BY <1>4
  <2>2. <<q, event>> \in Delivery /\ HasNews(session[t]) => News(session[t]) # <<q, event>>
    BY DEF Delivery, Event, Holding, HasNews, News
  <2>3. session[t].step = "ordering" => session[t].order # x.order
    BY <1>4, <1>6 DEF GatewayInv, RequestPart
  <2> QED
    BY <1>6, <2>1, <2>2, <2>3 DEF Apart
<1> QED
  BY <1>1, <1>4, <1>5, <1>7, <1>8, RequestMoves

\* A request goes on with what it has learnt.
LEMMA RequestGoesOn ==
  ASSUME GatewayInv, NEW s \in Session, NEW x \in RequestRow,
         session' = [session EXCEPT ![s] = x], UNCHANGED <<tables, provider>>,
         HasNews(session[s]), HasNews(x), x.step # "ordering", News(x) = News(session[s]),
         x.order = session[s].order,
         RequestPart(x, mapping, payment, provider, ledger)
  PROVE  GatewayInv'
<1>1. /\ \A t \in Session \ {s} : /\ Apart(session[s], session[t])
                                  /\ Apart(session[t], session[s])
      /\ provider \in
           [orders : SUBSET Order, payments : [ProviderPayment -> ProviderRow]]
      /\ UNCHANGED tables /\ provider' = provider
  BY DEF GatewayInv, TypeOK
<1>2. \A t \in Session \ {s} : Apart(x, session[t]) /\ Apart(session[t], x)
  BY <1>1 DEF Apart
<1> QED
  BY <1>1, <1>2, RequestMoves

LEMMA FetchStep ==
  ASSUME GatewayInv, NEW s \in Session, Fetch(s)
  PROVE  GatewayInv'
<1> DEFINE y == session[s]
           x == [y EXCEPT !.step = "fetched", !.got = provider.payments[y.pp].status]
<1>1. /\ y \in RequestRow /\ y.step = "begun"
      /\ RequestPart(y, mapping, payment, provider, ledger)
      /\ provider.payments \in [ProviderPayment -> ProviderRow]
      /\ session \in [Session -> RequestRow]
  BY DEF GatewayInv, TypeOK, Fetch
<1>2. HasNews(y) /\ y.pp \in ProviderPayment
  BY <1>1 DEF HasNews, RequestPart
<1>3. /\ provider.payments[y.pp].status \in ProviderStatus
  BY <1>1, <1>2 DEF RequestPart, ProviderRow
<1>4. /\ x \in RequestRow /\ x.step = "fetched" /\ x.pp = y.pp /\ x.event = y.event
      /\ x.order = y.order /\ x.map = y.map /\ x.got = provider.payments[y.pp].status
  BY <1>1, <1>3 DEF RequestRow
<1>5. session' = [session EXCEPT ![s] = x] /\ UNCHANGED <<tables, provider>>
  BY <1>1 DEF Fetch
<1> HIDE DEF x
<1>6. HasNews(x) /\ News(x) = News(y)
  BY <1>4 DEF HasNews, News
<1>7. RequestPart(x, mapping, payment, provider, ledger)
  BY <1>1, <1>2, <1>3, <1>4, <1>6 DEF RequestPart
<1> QED
  BY <1>2, <1>4, <1>5, <1>6, <1>7, RequestGoesOn

LEMMA ReadPaymentStep ==
  ASSUME GatewayInv, NEW s \in Session, ReadPayment(s)
  PROVE  GatewayInv'
<1> DEFINE y == session[s]
           x == [y EXCEPT !.step = "read", !.row = payment[y.order]]
<1>1. /\ y \in RequestRow /\ y.step = "fetched"
      /\ RequestPart(y, mapping, payment, provider, ledger)
      /\ payment \in [Order -> PaymentRow] /\ session \in [Session -> RequestRow]
  BY DEF GatewayInv, TypeOK, ReadPayment
<1>2. HasNews(y) /\ y.order \in Order
  BY <1>1 DEF HasNews, RequestPart
<1>3. payment[y.order] \in PaymentRow /\ Counted(payment[y.order], payment[y.order])
  BY <1>1, <1>2 DEF PaymentRow, Counted
<1>4. /\ x \in RequestRow /\ x.step = "read" /\ x.pp = y.pp /\ x.event = y.event
      /\ x.order = y.order /\ x.map = y.map /\ x.got = y.got
      /\ x.row = payment[y.order]
  BY <1>1, <1>3 DEF RequestRow
<1>5. session' = [session EXCEPT ![s] = x] /\ UNCHANGED <<tables, provider>>
  BY <1>1 DEF ReadPayment
<1> HIDE DEF x
<1>6. HasNews(x) /\ News(x) = News(y)
  BY <1>4 DEF HasNews, News
<1>7. RequestPart(x, mapping, payment, provider, ledger)
  BY <1>1, <1>2, <1>3, <1>4, <1>6 DEF RequestPart
<1> QED
  BY <1>2, <1>4, <1>5, <1>6, <1>7, RequestGoesOn
-----------------------------------------------------------------------------
(* The commits.                                                            *)

\* What OrderMoves needs of an order's rows, in one place.
LEMMA OrderTypes ==
  ASSUME GatewayInv, NEW o \in Order
  PROVE  /\ mapping[o] \in MappingRow /\ payment[o] \in PaymentRow
         /\ attempts[o] \in SUBSET AttemptRow /\ recovery[o] \in CaseStatus
         /\ payment[o].attempts \in Nat /\ ledger \in SUBSET Delivery
         /\ Counted(payment[o], payment[o])
         /\ OrderPart(o, mapping[o], payment[o], attempts[o], recovery[o],
                      provider, ledger)
         /\ mapping = [mapping EXCEPT ![o] = mapping[o]]
         /\ payment = [payment EXCEPT ![o] = payment[o]]
         /\ attempts = [attempts EXCEPT ![o] = attempts[o]]
         /\ recovery = [recovery EXCEPT ![o] = recovery[o]]
         /\ payment[o].status # None => payment[o].status \in PaymentStatus
         /\ mapping[o] # Unmapped => payment[o].status \in PaymentStatus
BY DEF GatewayInv, TypeOK, PaymentRow, OrderPart, Counted

LEMMA InsertOrderStep ==
  ASSUME GatewayInv, NEW s \in Session, InsertOrder(s)
  PROVE  GatewayInv'
<1> DEFINE x == session[s]
           o == x.order
<1>1. /\ x \in RequestRow /\ x.step = "ordering"
      /\ RequestPart(x, mapping, payment, provider, ledger)
      /\ session \in [Session -> RequestRow] /\ provider.orders \subseteq Order
      /\ \A t \in Session : RequestPart(session[t], mapping, payment, provider, ledger)
      /\ \A t \in Session \ {s} : Apart(x, session[t])
  BY DEF GatewayInv, TypeOK, InsertOrder
<1>2. o \in Order /\ o \in provider.orders /\ x.key \in Key /\ mapping[o] = Unmapped
  BY <1>1 DEF RequestPart
<1>3. /\ attempts[o] \in SUBSET AttemptRow /\ recovery[o] \in CaseStatus
      /\ ledger \in SUBSET Delivery
      /\ OrderPart(o, mapping[o], payment[o], attempts[o], recovery[o],
                   provider, ledger)
      /\ attempts = [attempts EXCEPT ![o] = attempts[o]]
      /\ recovery = [recovery EXCEPT ![o] = recovery[o]]
  BY <1>2, OrderTypes
<1>4. /\ NewOrder(x.key) \in MappingRow /\ NewOrder(x.key) # Unmapped
      /\ NewOrder(x.key).key \in Key /\ NewOrder(x.key).status = "created"
      /\ NewPayment \in PaymentRow /\ NewPayment # NoPayment
      /\ NewPayment.status = "CREATED" /\ NewPayment.attempts = 0
      /\ NewPayment.status # None
  BY <1>2, GatewayAssumption
     DEF NewOrder, NewPayment, Unmapped, NoPayment, MappingRow, PaymentRow,
         ProviderStatus, PaymentStatus
<1>5. payment[o].attempts = 0
  BY <1>2, <1>3 DEF OrderPart, NoPayment
<1>6. /\ mapping' = [mapping EXCEPT ![o] = NewOrder(x.key)]
      /\ payment' = [payment EXCEPT ![o] = NewPayment]
      /\ session' = [session EXCEPT ![s] = Idle]
      /\ UNCHANGED <<attempts, ledger, recovery, provider>>
  BY DEF InsertOrder
<1>7. OrderPart(o, NewOrder(x.key), NewPayment, attempts[o], recovery[o], provider, ledger)
  BY <1>2, <1>3, <1>4, <1>5 DEF OrderPart, Unsuccessful
<1>8. /\ session' \in [Session -> RequestRow] /\ session'[s] = Idle
      /\ \A t \in Session \ {s} : session'[t] = session[t]
  BY <1>1, <1>6, IdleRequest
<1>9. \A t \in Session :
        /\ ~(session'[t].step = "ordering" /\ session'[t].order = o)
        /\ HasNews(session'[t]) => News(session'[t]) \notin ledger
        /\ HasNews(session'[t]) => session'[t].order # o
  BY <1>1, <1>8, IdleRequest DEF Apart, RequestPart
<1>10. \A t \in Session : session'[t] = session[t] \/ Settled(session'[t])
  BY <1>8, IdleRequest
<1>11. /\ mapping[o] = Unmapped
       /\ attempts' = [attempts EXCEPT ![o] = attempts[o]]
       /\ recovery' = [recovery EXCEPT ![o] = recovery[o]]
       /\ ledger' = ledger /\ provider' = provider
  BY <1>2, <1>3, <1>6
<1> DEFINE m == NewOrder(x.key)
<1>12. /\ m \in MappingRow /\ m # Unmapped /\ mapping' = [mapping EXCEPT ![o] = m]
       /\ OrderPart(o, m, NewPayment, attempts[o], recovery[o], provider, ledger)
  BY <1>4, <1>6, <1>7
<1>13. \A t \in Session :
         /\ session'[t].step = "ordering" /\ session'[t].order = o => m = Unmapped
         /\ HasNews(session'[t]) => News(session'[t]) \notin ledger
         /\ HasNews(session'[t]) => session'[t].order # o
  BY <1>9
<1>14. /\ NewPayment \in PaymentRow /\ session' \in [Session -> RequestRow]
       /\ payment' = [payment EXCEPT ![o] = NewPayment]
  BY <1>4, <1>6, <1>8
<1> HIDE DEF x, o, m
<1> QED
  BY <1>2, <1>3, <1>10, <1>11, <1>12, <1>13, <1>14, OrderMoves

\* What the commit of a request with news x leaves of the others.
LEMMA SettleStep ==
  ASSUME GatewayInv, NEW s \in Session, HasNews(session[s]),
         session' = [session EXCEPT ![s] = Idle], Settle(session[s])
  PROVE  /\ session[s].order \in Order
         /\ ledger' \in SUBSET Delivery /\ ledger \subseteq ledger'
         /\ News(session[s]) \in Delivery => News(session[s]) \in ledger'
         /\ session' \in [Session -> RequestRow] /\ session'[s] = Idle
         /\ \A t \in Session : session'[t] = session[t] \/ Settled(session'[t])
         /\ \A t \in Session : /\ session'[t].step = "ordering"
                                    => session'[t].order # session[s].order
                               /\ HasNews(session'[t]) => News(session'[t]) \notin ledger'
<1> DEFINE x == session[s]
<1>1. /\ \A t \in Session : RequestPart(session[t], mapping, payment, provider, ledger)
      /\ \A t \in Session \ {s} : Apart(x, session[t]) /\ Apart(session[t], x)
      /\ session \in [Session -> RequestRow] /\ ledger \subseteq Delivery
  BY DEF GatewayInv, TypeOK
<1>2. x.order \in Order
  BY <1>1 DEF RequestPart
<1>3. ledger' = ledger \cup ({News(x)} \cap Delivery)
  BY DEF Settle, News
<1>4. /\ session' \in [Session -> RequestRow] /\ session'[s] = Idle
      /\ \A t \in Session \ {s} : session'[t] = session[t]
  BY <1>1, IdleRequest
<1>5. ASSUME NEW t \in Session
      PROVE  /\ session'[t].step = "ordering" => session'[t].order # x.order
             /\ HasNews(session'[t]) => News(session'[t]) \notin ledger'
  <2>1. CASE t = s
    BY <1>4, <2>1, IdleRequest
  <2>2. CASE t # s
    <3>1. /\ session'[t] = session[t] /\ Apart(x, session[t]) /\ Apart(session[t], x)
          /\ RequestPart(session[t], mapping, payment, provider, ledger)
      BY <1>1, <1>4, <2>2
    <3> QED
      BY <1>2, <1>3, <3>1 DEF Apart, RequestPart
  <2> QED
    BY <2>1, <2>2
<1> QED
  BY <1>1, <1>2, <1>3, <1>4, <1>5, IdleRequest

LEMMA NoChangeStep ==
  ASSUME GatewayInv, NEW s \in Session, CommitNoChange(s)
  PROVE  GatewayInv'
<1> DEFINE o == session[s].order
<1>1. /\ HasNews(session[s]) /\ Settle(session[s])
      /\ session' = [session EXCEPT ![s] = Idle]
      /\ UNCHANGED <<mapping, payment, attempts, recovery, provider>>
  BY DEF CommitNoChange, HasNews
<1>2. /\ o \in Order /\ ledger' \in SUBSET Delivery /\ ledger \subseteq ledger'
      /\ session' \in [Session -> RequestRow]
      /\ \A t \in Session : session'[t] = session[t] \/ Settled(session'[t])
      /\ \A t \in Session :
           /\ session'[t].step = "ordering" => session'[t].order # o
           /\ HasNews(session'[t]) => News(session'[t]) \notin ledger'
  BY <1>1, SettleStep
<1> HIDE DEF o
<1>3. /\ mapping[o] \in MappingRow /\ payment[o] \in PaymentRow
      /\ attempts[o] \in SUBSET AttemptRow /\ recovery[o] \in CaseStatus
      /\ Counted(payment[o], payment[o])
      /\ OrderPart(o, mapping[o], payment[o], attempts[o], recovery[o], provider, ledger)
      /\ mapping' = [mapping EXCEPT ![o] = mapping[o]]
      /\ payment' = [payment EXCEPT ![o] = payment[o]]
      /\ attempts' = [attempts EXCEPT ![o] = attempts[o]]
      /\ recovery' = [recovery EXCEPT ![o] = recovery[o]]
  BY <1>1, <1>2, OrderTypes
<1>4. OrderPart(o, mapping[o], payment[o], attempts[o], recovery[o], provider, ledger')
  BY <1>2, <1>3 DEF OrderPart
<1>5. provider' = provider
  BY <1>1
<1> QED
  BY <1>2, <1>3, <1>4, <1>5, OrderMoves

LEMMA StrangerStep ==
  ASSUME GatewayInv, NEW d \in Delivery, WebhookOfStranger(d)
  PROVE  GatewayInv'
<1> DEFINE q == d[1]
           o == provider.payments[q].order
           led == ledger \cup {d}
<1>1. q \in ProviderPayment /\ d = <<q, d[2]>>
  BY DEF Delivery
<1>2. /\ \A t \in Session : RequestPart(session[t], mapping, payment, provider, ledger)
      /\ session \in [Session -> RequestRow] /\ ProviderPart(provider)
      /\ provider.payments \in [ProviderPayment -> ProviderRow]
  BY DEF GatewayInv, TypeOK
<1>3. provider.payments[q].status # None
  BY <1>1, GatewayAssumption DEF WebhookOfStranger, Sent, ProviderStatus
<1>4. o \in Order
  BY <1>1, <1>2, <1>3 DEF ProviderPart, ProviderRow
<1> HIDE DEF o
<1>5. /\ ledger' = led /\ Holding(d) = {}
      /\ UNCHANGED <<mapping, payment, attempts, recovery, provider, session>>
  BY DEF WebhookOfStranger
<1>6. /\ mapping[o] \in MappingRow /\ payment[o] \in PaymentRow
      /\ attempts[o] \in SUBSET AttemptRow /\ recovery[o] \in CaseStatus
      /\ Counted(payment[o], payment[o]) /\ ledger \in SUBSET Delivery
      /\ OrderPart(o, mapping[o], payment[o], attempts[o], recovery[o], provider, ledger)
      /\ mapping' = [mapping EXCEPT ![o] = mapping[o]]
      /\ payment' = [payment EXCEPT ![o] = payment[o]]
      /\ attempts' = [attempts EXCEPT ![o] = attempts[o]]
      /\ recovery' = [recovery EXCEPT ![o] = recovery[o]]
  BY <1>4, <1>5, OrderTypes
<1>7. led \in SUBSET Delivery /\ ledger \subseteq led
  BY <1>6
<1>8. OrderPart(o, mapping[o], payment[o], attempts[o], recovery[o], provider, led)
  BY <1>6, <1>7 DEF OrderPart
<1>9. \A t \in Session :
        /\ session'[t].step = "ordering" /\ session'[t].order = o => mapping[o] = Unmapped
        /\ HasNews(session'[t]) => News(session'[t]) \notin led
  BY <1>2, <1>5 DEF RequestPart, Holding, HasNews, News
<1>10. /\ session' \in [Session -> RequestRow] /\ provider' = provider /\ ledger' = led
       /\ \A t \in Session : session'[t] = session[t] \/ Settled(session'[t])
  BY <1>2, <1>5
<1> HIDE DEF led
<1> QED
  BY <1>4, <1>6, <1>7, <1>8, <1>9, <1>10, OrderMoves

\* What a commit writes of request x that has read its payment: one more attempt,
\* under the next number, when the provider's word is final.
LEMMA AppliedRows ==
  ASSUME GatewayInv, NEW x \in RequestRow, x.step = "read",
         RequestPart(x, mapping, payment, provider, ledger),
         mapping[x.order] # Unmapped,
         Verdict(x).status # "PENDING" => ~NumberTaken(x.order, x.row.attempts + 1)
  PROVE  /\ x.order \in Order
         /\ Verdict(x).status \in {"SUCCEEDED", "PENDING", "FAILED", "ABANDONED"}
         /\ x.got = "captured" => Verdict(x).status = "SUCCEEDED"
         /\ Applied(x) \in PaymentRow
         /\ Applied(x).status \in {Verdict(x).status, payment[x.order].status}
         /\ Applied(x).status \in PaymentStatus
         /\ x.got = "captured" /\ payment[x.order].status = "SUCCEEDED"
              => Applied(x).status = "SUCCEEDED"
         /\ Counted(payment[x.order], Applied(x))
         /\ Applied(x).status \in Unsuccessful /\ Verdict(x).status \notin Unsuccessful =>
              /\ payment[x.order].status \in Unsuccessful
              /\ Applied(x).attempts = payment[x.order].attempts
              /\ Recorded(x) = attempts[x.order]
         /\ Recorded(x) \in SUBSET AttemptRow
         /\ Numbered(Recorded(x), Applied(x).attempts)
         /\ OncePerDelivery(Recorded(x))
         /\ \A r \in Recorded(x) :
              r \in attempts[x.order] \/ DeliveryOf(r) = News(x)
<1> DEFINE v    == Verdict(x)
           o    == x.order
           now  == payment[o]
           rows == attempts[o]
           n    == x.row.attempts + 1
           r    == [number |-> n, status |-> v.status,
                    source |-> [pp |-> x.pp, event |-> x.event]]
           Final == v.status \in Successful \cup Unsuccessful
<1>1. /\ o \in Order /\ x.pp \in ProviderPayment /\ x.event \in Event \cup {"callback"}
      /\ mapping[o] # Unmapped /\ News(x) \notin ledger
      /\ x.got \in ProviderStatus
      /\ x.got = "failed" => provider.payments[x.pp].status = "failed"
      /\ x.row.attempts <= now.attempts
      /\ now.attempts = x.row.attempts /\ x.row.status \notin Unsuccessful =>
           now.status \notin Unsuccessful
  BY DEF RequestPart, HasNews, Counted
<1>2. /\ now \in PaymentRow /\ now.attempts \in Nat /\ rows \in SUBSET AttemptRow
      /\ OrderPart(o, mapping[o], now, rows, recovery[o], provider, ledger)
      /\ now.status \in PaymentStatus
  BY <1>1, OrderTypes
<1>3. x.got = "failed" => provider.payments[x.pp].why \in ErrorClass
  BY <1>1 DEF GatewayInv, TypeOK, ProviderPart, ProviderRow
<1>4. /\ v.status \in {"SUCCEEDED", "PENDING", "FAILED", "ABANDONED"}
      /\ v.reason \in FailureReason \cup {None}
      /\ x.got = "captured" => v.status = "SUCCEEDED"
  BY <1>1, <1>3, VerdictRow
<1>5. Final <=> v.status # "PENDING"
  BY <1>4 DEF Successful, Unsuccessful
<1>6. x.row \in PaymentRow /\ x.row.attempts \in Nat /\ n \in Nat
  BY DEF RequestRow, PaymentRow
<1>7. /\ Applied(x).status = Written(x.row.status, v.status, now.status)
      /\ Applied(x).reason = Written(x.row.reason, v.reason, now.reason)
      /\ Applied(x).attempts = IF Final THEN n ELSE now.attempts
      /\ Applied(x) = [status |-> Written(x.row.status, v.status, now.status),
                       reason |-> Written(x.row.reason, v.reason, now.reason),
                       attempts |-> IF Final THEN n ELSE now.attempts]
  BY DEF Applied
<1>8. Recorded(x) = IF Final THEN rows \cup {r} ELSE rows
  BY DEF Recorded
<1>9. /\ Applied(x).status \in {v.status, now.status}
      /\ now.status = "SUCCEEDED" /\ v.status = "SUCCEEDED"
           => Applied(x).status = "SUCCEEDED"
      /\ Applied(x).reason \in FailureReason \cup {None}
  BY <1>2, <1>4, <1>7 DEF Written, PaymentRow
<1>10. Applied(x).status \in PaymentStatus
  BY <1>2, <1>4, <1>9 DEF PaymentStatus
<1>11. Applied(x) \in PaymentRow
  <2>1. Applied(x).attempts \in Nat
    BY <1>2, <1>6, <1>7
  <2> QED
    BY <1>7, <1>9, <1>10, <2>1 DEF PaymentRow
<1>12. r \in AttemptRow /\ r.number = n /\ DeliveryOf(r) = News(x)
  <2>1. v.status \in PaymentStatus
    BY <1>4 DEF PaymentStatus
  <2> QED
    BY <1>1, <1>6, <2>1 DEF AttemptRow, Source, DeliveryOf, News
<1>13. Final => n = now.attempts + 1
  <2>1. SUFFICES ASSUME Final  PROVE n = now.attempts + 1
    OBVIOUS
  <2>2. n \notin {q.number : q \in rows}
    BY <1>5, <2>1 DEF NumberTaken
  <2>3. n \notin 1..now.attempts
    BY <1>2, <2>2 DEF OrderPart, Numbered
  <2> QED
    BY <1>1, <1>2, <1>6, <2>3
<1> HIDE DEF v, o, now, rows, n, r, Final
<1>14. Numbered(rows, now.attempts) /\ OncePerDelivery(rows)
       /\ \A q \in rows : DeliveryOf(q) \in Delivery => DeliveryOf(q) \in ledger
  BY <1>2 DEF OrderPart
<1>15. /\ Recorded(x) \in SUBSET AttemptRow
       /\ Numbered(Recorded(x), Applied(x).attempts)
       /\ OncePerDelivery(Recorded(x))
       /\ \A q \in Recorded(x) : q \in rows \/ DeliveryOf(q) = News(x)
  <2>1. CASE Final
    <3>1. Numbered(rows \cup {r}, n)
      BY <1>2, <1>12, <1>13, <1>14, <2>1, NextAttempt
    <3>2. OncePerDelivery(rows \cup {r})
      BY <1>1, <1>12, <1>14, NextDelivery
    <3> QED
      BY <1>2, <1>7, <1>8, <1>12, <2>1, <3>1, <3>2
  <2>2. CASE ~Final
    BY <1>2, <1>7, <1>8, <1>14, <2>2
  <2> QED
    BY <2>1, <2>2
<1>16. /\ now.attempts <= Applied(x).attempts
       /\ Final => Applied(x).attempts # now.attempts /\ x.row.attempts = now.attempts
       /\ ~Final => Applied(x).attempts = now.attempts /\ Recorded(x) = rows
  <2>1. CASE Final
    <3>1. n = x.row.attempts + 1 /\ n = now.attempts + 1
      BY <1>13, <2>1 DEF n
    <3> QED
      BY <1>2, <1>6, <1>7, <2>1, <3>1
  <2>2. CASE ~Final
    BY <1>2, <1>7, <1>8, <2>2
  <2> QED
    BY <2>1, <2>2
<1>17. Applied(x).status \in Unsuccessful /\ v.status \notin Unsuccessful =>
         ~Final /\ now.status \in Unsuccessful
  <2>1. SUFFICES ASSUME Applied(x).status \in Unsuccessful, v.status \notin Unsuccessful
                 PROVE  ~Final /\ now.status \in Unsuccessful
    OBVIOUS
  <2>2. Applied(x).status = now.status /\ v.status = x.row.status
    BY <1>7, <1>9, <2>1 DEF Written
  <2> QED
    BY <1>1, <1>16, <2>1, <2>2
<1>18. ~Final /\ Applied(x).status \in Unsuccessful => now.status \in Unsuccessful
  BY <1>4, <1>5, <1>9 DEF Unsuccessful
<1>19. Counted(now, Applied(x))
  BY <1>16, <1>18 DEF Counted
<1> QED
  BY <1>1, <1>4, <1>9, <1>10, <1>11, <1>15, <1>16, <1>17, <1>19 DEF v, o, now, rows

LEMMA AppliedStep ==
  ASSUME GatewayInv, NEW s \in Session, CommitApplied(s)
  PROVE  GatewayInv'
<1> DEFINE x == session[s]
           o == x.order
           m == Linked(mapping[o], x)
           c == IF Verdict(x).status \in Unsuccessful THEN Detected(recovery[o])
                                                      ELSE recovery[o]
<1>1. /\ x \in RequestRow /\ x.step = "read" /\ HasNews(x)
      /\ RequestPart(x, mapping, payment, provider, ledger)
      /\ mapping[o] # Unmapped
      /\ Verdict(x).status # "PENDING" => ~NumberTaken(o, x.row.attempts + 1)
      /\ Settle(x) /\ session' = [session EXCEPT ![s] = Idle] /\ provider' = provider
  BY DEF GatewayInv, TypeOK, CommitApplied, HasNews
<1>2. /\ o \in Order /\ mapping[o] # Unmapped
      /\ ledger' \in SUBSET Delivery /\ ledger \subseteq ledger'
      /\ News(x) \in Delivery => News(x) \in ledger'
      /\ session' \in [Session -> RequestRow]
      /\ \A t \in Session : session'[t] = session[t] \/ Settled(session'[t])
      /\ \A t \in Session :
           /\ session'[t].step = "ordering" => session'[t].order # o
           /\ HasNews(session'[t]) => News(session'[t]) \notin ledger'
  BY <1>1, SettleStep
<1>3. /\ mapping[o] \in MappingRow /\ payment[o] \in PaymentRow
      /\ attempts[o] \in SUBSET AttemptRow /\ recovery[o] \in CaseStatus
      /\ OrderPart(o, mapping[o], payment[o], attempts[o], recovery[o], provider, ledger)
      /\ recovery = [recovery EXCEPT ![o] = recovery[o]]
  BY <1>2, OrderTypes
<1>4. /\ Verdict(x).status \in {"SUCCEEDED", "PENDING", "FAILED", "ABANDONED"}
      /\ Applied(x) \in PaymentRow
      /\ Applied(x).status \in {Verdict(x).status, payment[o].status}
      /\ Applied(x).status \in PaymentStatus
      /\ Counted(payment[o], Applied(x))
      /\ Applied(x).status \in Unsuccessful /\ Verdict(x).status \notin Unsuccessful =>
           /\ payment[o].status \in Unsuccessful
           /\ Applied(x).attempts = payment[o].attempts
           /\ Recorded(x) = attempts[o]
      /\ Recorded(x) \in SUBSET AttemptRow
      /\ Numbered(Recorded(x), Applied(x).attempts)
      /\ OncePerDelivery(Recorded(x))
      /\ \A r \in Recorded(x) : r \in attempts[o] \/ DeliveryOf(r) = News(x)
  BY <1>1, AppliedRows
<1>5. /\ x.pp \in ProviderPayment /\ x.got \in ProviderStatus
      /\ x.got = "captured" => Captured(provider, o)
      /\ x.map \in MappingRow
  BY <1>1 DEF RequestPart, Captured, RequestRow
<1>6. /\ m \in MappingRow /\ m.key = mapping[o].key
      /\ m.status \in {x.got, mapping[o].status}
  <2>1. /\ Written(x.map.pp, x.pp, mapping[o].pp) \in ProviderPayment \cup {None}
        /\ Written(x.map.status, x.got, mapping[o].status) \in ProviderStatus \cup {None}
        /\ Written(x.map.status, x.got, mapping[o].status) \in {x.got, mapping[o].status}
    BY <1>3, <1>5 DEF Written, MappingRow
  <2> QED
    BY <1>3, <2>1 DEF MappingRow, Linked
<1>7. m # Unmapped /\ Applied(x) # NoPayment /\ Applied(x).status # None
  <2>1. /\ m.key \in Key /\ Unmapped.key = None /\ NoPayment.status = None
        /\ None \notin Key /\ None \notin PaymentStatus
    BY <1>2, <1>3, <1>6, GatewayAssumption DEF OrderPart, Unmapped, NoPayment
  <2> QED
    BY <1>4, <2>1
<1>8. /\ c \in CaseStatus
      /\ Verdict(x).status \in Unsuccessful => c # "none"
      /\ recovery[o] # "none" => c # "none"
  BY <1>3 DEF Detected, CaseStatus
<1>9. /\ mapping' = [mapping EXCEPT ![o] = m]
      /\ payment' = [payment EXCEPT ![o] = Applied(x)]
      /\ attempts' = [attempts EXCEPT ![o] = Recorded(x)]
      /\ recovery' = [recovery EXCEPT ![o] = c]
  <2>1. /\ mapping' = [mapping EXCEPT ![o] = Linked(@, x)]
        /\ payment' = [payment EXCEPT ![o] = Applied(x)]
        /\ attempts' = [attempts EXCEPT ![o] = Recorded(x)]
        /\ recovery' = IF Verdict(x).status \in Unsuccessful
                         THEN [recovery EXCEPT ![o] = Detected(@)] ELSE recovery
    BY DEF CommitApplied, Apply
  <2>2. recovery' = [recovery EXCEPT ![o] = c]
    BY <1>3, <2>1
  <2> QED
    BY <2>1, <2>2
<1>10. OrderPart(o, m, Applied(x), Recorded(x), c, provider, ledger')
  <2>1. (m = Unmapped) <=> (Applied(x) = NoPayment)
    BY <1>7
  <2>2. m.key \in Key /\ Applied(x).status # None /\ o \in provider.orders
    BY <1>2, <1>3, <1>6, <1>7 DEF OrderPart
  <2>3. m.status = "captured" => Captured(provider, o)
    BY <1>3, <1>5, <1>6 DEF OrderPart
  <2>4. Applied(x).status \in Unsuccessful /\ c = "none" =>
          LastByOperator(Recorded(x), Applied(x).attempts)
    BY <1>3, <1>4, <1>8 DEF OrderPart
  <2>5. \A r \in Recorded(x) : DeliveryOf(r) \in Delivery => DeliveryOf(r) \in ledger'
    BY <1>2, <1>3, <1>4 DEF OrderPart
  <2> QED
    BY <1>4, <1>7, <2>1, <2>2, <2>3, <2>4, <2>5 DEF OrderPart
<1> DEFINE pay == Applied(x)
           rows == Recorded(x)
<1>11. /\ pay \in PaymentRow /\ rows \in SUBSET AttemptRow
       /\ payment' = [payment EXCEPT ![o] = pay]
       /\ attempts' = [attempts EXCEPT ![o] = rows]
       /\ OrderPart(o, m, pay, rows, c, provider, ledger')
       /\ Counted(payment[o], pay)
       /\ m # Unmapped /\ c \in CaseStatus /\ provider' = provider
  BY <1>1, <1>4, <1>7, <1>8, <1>9, <1>10
<1>12. \A t \in Session :
         /\ session'[t].step = "ordering" /\ session'[t].order = o => m = Unmapped
         /\ HasNews(session'[t]) => News(session'[t]) \notin ledger'
  BY <1>2
<1> DEFINE led == ledger'
<1> HIDE DEF x, m, c, pay, rows
<1>13. /\ o \in Order /\ m \in MappingRow /\ pay \in PaymentRow
       /\ rows \in SUBSET AttemptRow /\ c \in CaseStatus /\ led \in SUBSET Delivery
       /\ mapping' = [mapping EXCEPT ![o] = m] /\ payment' = [payment EXCEPT ![o] = pay]
       /\ attempts' = [attempts EXCEPT ![o] = rows]
       /\ recovery' = [recovery EXCEPT ![o] = c]
       /\ ledger \subseteq led /\ provider' = provider
       /\ OrderPart(o, m, pay, rows, c, provider, led)
       /\ mapping[o] # Unmapped /\ Counted(payment[o], pay)
  BY <1>2, <1>6, <1>9, <1>11
<1> HIDE DEF o
<1>14. \A t \in Session :
         /\ session'[t].step = "ordering" /\ session'[t].order = o => m = Unmapped
         /\ HasNews(session'[t]) => News(session'[t]) \notin led
  BY <1>12
<1>15. /\ ledger' = led /\ session' \in [Session -> RequestRow]
       /\ \A t \in Session : session'[t] = session[t] \/ Settled(session'[t])
  BY <1>2
<1> HIDE DEF led
<1> QED
  BY <1>13, <1>14, <1>15, OrderMoves
-----------------------------------------------------------------------------
(* Recovery and the simulated failure.                                     *)

LEMMA RunCaseStep ==
  ASSUME GatewayInv, NEW o \in Order, RunCase(o)
  PROVE  /\ GatewayInv'
         /\ payment'[o] # payment[o] =>
              \E r \in attempts'[o] \ attempts[o] : r.source.event = "recovery"
<1>1. PICK end \in Cycle(payment[o], recovery[o]) :
        /\ payment' = [payment EXCEPT ![o] = end.row]
        /\ recovery' = [recovery EXCEPT ![o] = end.case]
        /\ attempts' = [attempts EXCEPT ![o] = @ \cup ByRecovery(payment[o], end.row)]
  BY DEF RunCase
<1> DEFINE all == attempts[o] \cup ByRecovery(payment[o], end.row)
<1>2. /\ mapping[o] \in MappingRow /\ payment[o] \in PaymentRow
      /\ attempts[o] \in SUBSET AttemptRow /\ recovery[o] \in CaseStatus
      /\ ledger \in SUBSET Delivery /\ mapping = [mapping EXCEPT ![o] = mapping[o]]
      /\ OrderPart(o, mapping[o], payment[o], attempts[o], recovery[o], provider, ledger)
  BY OrderTypes
<1>3. recovery[o] # "none" /\ mapping[o] # Unmapped /\ payment[o].status \in PaymentStatus
  BY <1>2, OrderTypes DEF RunCase, OrderPart
<1>4. /\ end.row \in PaymentRow /\ end.row.status \in PaymentStatus
      /\ end.case \in CaseStatus \ {"none"}
      /\ end.row = payment[o] \/ end.row.attempts = payment[o].attempts + 1
      /\ payment[o].attempts \in Nat
  BY <1>2, <1>3, CycleRow
<1>5. /\ all \in SUBSET AttemptRow
      /\ Numbered(all, end.row.attempts) /\ OncePerDelivery(all)
      /\ \A r \in all \ attempts[o] : DeliveryOf(r) \notin Delivery
      /\ end.row # payment[o] => \E r \in all \ attempts[o] : r.source.event = "recovery"
  BY <1>2, <1>3, CycleAttempts DEF OrderPart
<1>6. /\ mapping' = [mapping EXCEPT ![o] = mapping[o]]
      /\ payment' = [payment EXCEPT ![o] = end.row]
      /\ recovery' = [recovery EXCEPT ![o] = end.case]
      /\ attempts' = [attempts EXCEPT ![o] = all]
      /\ ledger' = ledger /\ provider' = provider /\ session' = session
  <2>1. attempts \in [Order -> SUBSET AttemptRow]
    BY DEF GatewayInv, TypeOK
  <2> QED
    BY <1>1, <1>2, <2>1 DEF RunCase
<1> HIDE DEF all
<1>7. OrderPart(o, mapping[o], end.row, all, end.case, provider, ledger)
  <2>1. end.row # NoPayment /\ end.row.status # None
    BY <1>4, GatewayAssumption DEF NoPayment
  <2> QED
    BY <1>2, <1>3, <1>4, <1>5, <2>1 DEF OrderPart
<1>8. Counted(payment[o], end.row)
  <2>1. CASE end.row = payment[o]
    BY <1>4, <2>1 DEF Counted
  <2>2. CASE end.row.attempts = payment[o].attempts + 1
    BY <1>4, <2>2 DEF Counted
  <2> QED
    BY <1>4, <2>1, <2>2
<1>9. /\ session' \in [Session -> RequestRow]
      /\ \A t \in Session : session'[t] = session[t] \/ Settled(session'[t])
      /\ \A t \in Session : RequestPart(session[t], mapping, payment, provider, ledger)
  BY <1>6 DEF GatewayInv, TypeOK
<1>10. \A t \in Session :
         /\ session'[t].step = "ordering" /\ session'[t].order = o
              => mapping[o] = Unmapped
         /\ HasNews(session'[t]) => News(session'[t]) \notin ledger
  BY <1>6, <1>9 DEF RequestPart
<1>11. GatewayInv'
  BY <1>2, <1>3, <1>4, <1>5, <1>6, <1>7, <1>8, <1>9, <1>10, OrderMoves
<1>12. payment'[o] = end.row /\ attempts'[o] = all
  BY <1>6 DEF GatewayInv, TypeOK
<1> QED
  BY <1>5, <1>11, <1>12

LEMMA SimulatedStep ==
  ASSUME GatewayInv, NEW o \in Order, NEW reason \in ErrorClass,
         SimulateFailure(o, reason)
  PROVE  /\ GatewayInv'
         /\ \E r \in attempts'[o] \ attempts[o] : r.source.event = "simulated"
<1> DEFINE n    == payment[o].attempts + 1
           st   == IF reason = "CHECKOUT_ABANDONMENT" THEN "ABANDONED" ELSE "FAILED"
           row  == [status |-> st, reason |-> reason, attempts |-> n]
           case == Detected(recovery[o])
           r    == [number |-> n, status |-> st,
                    source |-> [pp |-> None, event |-> "simulated"]]
           rows == attempts[o] \cup {r}
<1>1. PICK end \in Cycle(row, case) :
        /\ payment' = [payment EXCEPT ![o] = end.row]
        /\ recovery' = [recovery EXCEPT ![o] = end.case]
        /\ attempts' = [attempts EXCEPT ![o] = @ \cup {r} \cup ByRecovery(row, end.row)]
  BY DEF SimulateFailure
<1> DEFINE all == rows \cup ByRecovery(row, end.row)
<1>2. /\ mapping[o] \in MappingRow /\ payment[o].attempts \in Nat
      /\ attempts[o] \in SUBSET AttemptRow /\ recovery[o] \in CaseStatus
      /\ ledger \in SUBSET Delivery /\ mapping = [mapping EXCEPT ![o] = mapping[o]]
      /\ OrderPart(o, mapping[o], payment[o], attempts[o], recovery[o], provider, ledger)
  BY OrderTypes
<1>3. mapping[o] # Unmapped
  BY DEF SimulateFailure
<1>4. /\ n \in Nat /\ st \in PaymentStatus /\ reason \in FailureReason
      /\ case \in CaseStatus
  BY <1>2, GatewayAssumption DEF PaymentStatus, Detected, CaseStatus
<1>5. /\ row \in PaymentRow /\ row.status = st /\ row.attempts = n
      /\ r \in AttemptRow /\ r.number = n /\ r.source.event = "simulated"
      /\ DeliveryOf(r) \notin Delivery
  BY <1>4 DEF PaymentRow, AttemptRow, Source, DeliveryOf, Delivery, Event
<1>6. /\ mapping' = [mapping EXCEPT ![o] = mapping[o]]
      /\ payment' = [payment EXCEPT ![o] = end.row]
      /\ recovery' = [recovery EXCEPT ![o] = end.case]
      /\ attempts' = [attempts EXCEPT ![o] = all]
      /\ ledger' = ledger /\ provider' = provider /\ session' = session
  <2>1. attempts \in [Order -> SUBSET AttemptRow]
    BY DEF GatewayInv, TypeOK
  <2> QED
    BY <1>1, <1>2, <2>1 DEF SimulateFailure
<1> HIDE DEF st, row, case, r
<1>7. /\ rows \in SUBSET AttemptRow /\ Numbered(rows, n) /\ OncePerDelivery(rows)
      /\ r \notin attempts[o]
  BY <1>2, <1>5, NextAttempt, NextDelivery DEF OrderPart
<1> HIDE DEF rows, n
<1>8. /\ end.row \in PaymentRow /\ end.row.status \in PaymentStatus
      /\ end.case \in CaseStatus \ {"none"}
      /\ end.row = row \/ end.row.attempts = n + 1
  BY <1>4, <1>5, CycleRow
<1>9. /\ all \in SUBSET AttemptRow
      /\ Numbered(all, end.row.attempts) /\ OncePerDelivery(all)
      /\ \A q \in all \ rows : DeliveryOf(q) \notin Delivery
  BY <1>4, <1>5, <1>7, CycleAttempts
<1>10. r \in all /\ \A q \in all : q \in attempts[o] \/ DeliveryOf(q) \notin Delivery
  BY <1>5, <1>9 DEF all, rows
<1> HIDE DEF all
<1>11. OrderPart(o, mapping[o], end.row, all, end.case, provider, ledger)
  <2>1. end.row # NoPayment /\ end.row.status # None
    BY <1>8, GatewayAssumption DEF NoPayment
  <2> QED
    BY <1>2, <1>3, <1>8, <1>9, <1>10, <2>1 DEF OrderPart
<1>12. Counted(payment[o], end.row)
  <2>1. end.row.attempts \in {payment[o].attempts + 1, payment[o].attempts + 2}
    BY <1>2, <1>5, <1>8 DEF n
  <2> QED
    BY <1>2, <2>1 DEF Counted
<1>13. /\ session' \in [Session -> RequestRow]
       /\ \A t \in Session : session'[t] = session[t] \/ Settled(session'[t])
       /\ \A t \in Session : RequestPart(session[t], mapping, payment, provider, ledger)
  BY <1>6 DEF GatewayInv, TypeOK
<1>14. \A t \in Session :
         /\ session'[t].step = "ordering" /\ session'[t].order = o
              => mapping[o] = Unmapped
         /\ HasNews(session'[t]) => News(session'[t]) \notin ledger
  BY <1>6, <1>13 DEF RequestPart
<1>15. GatewayInv'
  BY <1>2, <1>3, <1>6, <1>8, <1>9, <1>11, <1>12, <1>13, <1>14, OrderMoves
<1>16. attempts'[o] = all
  BY <1>6 DEF GatewayInv, TypeOK
<1> QED
  BY <1>5, <1>7, <1>10, <1>15, <1>16
-----------------------------------------------------------------------------
(* The operator, the portal, and the two ways of emptying the tables.      *)

LEMMA FailPaymentStep ==
  ASSUME GatewayInv, NEW s \in Session, NEW o \in Order, NEW reason \in ErrorClass,
         FailPayment(s, o, reason)
  PROVE  /\ GatewayInv'
         /\ \A u \in Order : payment'[u] # payment[u] =>
              \E r \in attempts'[u] \ attempts[u] : r.source.event = "operator"
<1> DEFINE n    == payment[o].attempts + 1
           row  == [status |-> "FAILED", reason |-> reason, attempts |-> n]
           r    == [number |-> n, status |-> "FAILED",
                    source |-> [pp |-> None, event |-> "operator"]]
           rows == attempts[o] \cup {r}
           x    == [Idle EXCEPT !.step = "failing", !.order = o]
<1>1. /\ mapping[o] \in MappingRow /\ payment[o].attempts \in Nat
      /\ attempts[o] \in SUBSET AttemptRow /\ recovery[o] \in CaseStatus
      /\ ledger \in SUBSET Delivery /\ mapping = [mapping EXCEPT ![o] = mapping[o]]
      /\ recovery = [recovery EXCEPT ![o] = recovery[o]]
      /\ OrderPart(o, mapping[o], payment[o], attempts[o], recovery[o], provider, ledger)
  BY OrderTypes
<1>2. /\ mapping' = [mapping EXCEPT ![o] = mapping[o]] /\ mapping[o] # Unmapped
      /\ payment' = [payment EXCEPT ![o] = row]
      /\ recovery' = [recovery EXCEPT ![o] = recovery[o]]
      /\ attempts' = [attempts EXCEPT ![o] = rows]
      /\ ledger' = ledger /\ provider' = provider
      /\ session' = [session EXCEPT ![s] = x]
  BY <1>1 DEF FailPayment
<1>3. /\ n \in Nat /\ "FAILED" \in PaymentStatus /\ reason \in FailureReason
  BY <1>1, GatewayAssumption DEF PaymentStatus
<1>4. /\ row \in PaymentRow /\ row.status = "FAILED" /\ row.attempts = n
      /\ row.status # None
  BY <1>3, GatewayAssumption DEF PaymentRow
<1>5. /\ x \in RequestRow /\ Settled(x) /\ x.step = "failing"
  BY IdleRequest DEF RequestRow, Settled
<1> HIDE DEF x, row
<1>6. /\ rows \in SUBSET AttemptRow /\ Numbered(rows, n) /\ OncePerDelivery(rows)
      /\ r \notin attempts[o] /\ DeliveryOf(r) \notin Delivery
      /\ r.source.event = "operator" /\ r.number = n
  <2>1. r \in AttemptRow /\ r.number = n /\ r.source.event = "operator"
        /\ DeliveryOf(r) = <<None, "operator">>
    BY <1>3 DEF AttemptRow, Source, DeliveryOf
  <2>2. DeliveryOf(r) \notin Delivery
    BY <2>1 DEF Delivery, Event
  <2> HIDE DEF r
  <2> QED
    BY <1>1, <2>1, <2>2, NextAttempt, NextDelivery DEF OrderPart
<1>7. LastByOperator(rows, n)
  <2>1. \A q \in attempts[o] : q.number # n
    BY <1>1 DEF OrderPart, Numbered
  <2> QED
    BY <1>6, <2>1 DEF LastByOperator
<1> HIDE DEF r
<1>8. row # NoPayment
  BY <1>4 DEF NoPayment
<1>9. \A q \in rows : DeliveryOf(q) \in Delivery => DeliveryOf(q) \in ledger
  BY <1>1, <1>6 DEF OrderPart
<1> HIDE DEF rows
<1>10. OrderPart(o, mapping[o], row, rows, recovery[o], provider, ledger)
  BY <1>1, <1>2, <1>4, <1>6, <1>7, <1>8, <1>9 DEF OrderPart
<1>11. Counted(payment[o], row)
  BY <1>1, <1>4 DEF Counted
<1>12. /\ session \in [Session -> RequestRow] /\ session' \in [Session -> RequestRow]
       /\ \A t \in Session : session'[t] = session[t] \/ Settled(session'[t])
       /\ \A t \in Session : RequestPart(session[t], mapping, payment, provider, ledger)
  BY <1>2, <1>5 DEF GatewayInv, TypeOK
<1>13. \A t \in Session :
         /\ session'[t].step = "ordering" /\ session'[t].order = o
              => mapping[o] = Unmapped
         /\ HasNews(session'[t]) => News(session'[t]) \notin ledger
  BY <1>12, SettledRequest DEF RequestPart, Settled
<1> HIDE DEF n
<1>14. GatewayInv'
  <2>1. /\ mapping[o] \in MappingRow /\ row \in PaymentRow /\ rows \in SUBSET AttemptRow
        /\ recovery[o] \in CaseStatus /\ ledger \in SUBSET Delivery
        /\ mapping' = [mapping EXCEPT ![o] = mapping[o]]
        /\ payment' = [payment EXCEPT ![o] = row]
        /\ attempts' = [attempts EXCEPT ![o] = rows]
        /\ recovery' = [recovery EXCEPT ![o] = recovery[o]]
        /\ ledger' = ledger /\ ledger \subseteq ledger /\ provider' = provider
    BY <1>1, <1>2, <1>4, <1>6
  <2>2. /\ session' \in [Session -> RequestRow]
        /\ \A t \in Session : session'[t] = session[t] \/ Settled(session'[t])
    BY <1>12
  <2> QED
    BY <2>1, <2>2, <1>10, <1>11, <1>13, OrderMoves
<1>15. /\ attempts'[o] = rows
       /\ \A u \in Order \ {o} : payment'[u] = payment[u]
  BY <1>2 DEF GatewayInv, TypeOK
<1> QED
  BY <1>6, <1>14, <1>15 DEF rows

LEMMA OpenCaseStep ==
  ASSUME GatewayInv, NEW s \in Session, OpenCase(s)
  PROVE  GatewayInv'
<1> DEFINE o == session[s].order
           c == IF payment[o].status \in Unsuccessful THEN Detected(recovery[o])
                                                      ELSE recovery[o]
<1>1. /\ session \in [Session -> RequestRow]
      /\ \A t \in Session : RequestPart(session[t], mapping, payment, provider, ledger)
      /\ o \in Order
  BY DEF GatewayInv, TypeOK, OpenCase, RequestPart
<1>2. session' = [session EXCEPT ![s] = Idle]
  BY DEF OpenCase
<1>3. /\ session' \in [Session -> RequestRow]
      /\ \A t \in Session : session'[t] = session[t] \/ Settled(session'[t])
      /\ \A t \in Session :
           /\ session'[t].step = "ordering" /\ session'[t].order = o
                => mapping[o] = Unmapped
           /\ HasNews(session'[t]) => News(session'[t]) \notin ledger
  BY <1>1, <1>2, IdleRequest DEF RequestPart
<1>4. /\ mapping[o] \in MappingRow /\ payment[o] \in PaymentRow
      /\ attempts[o] \in SUBSET AttemptRow /\ recovery[o] \in CaseStatus
      /\ ledger \in SUBSET Delivery /\ mapping = [mapping EXCEPT ![o] = mapping[o]]
      /\ payment = [payment EXCEPT ![o] = payment[o]]
      /\ attempts = [attempts EXCEPT ![o] = attempts[o]]
      /\ recovery = [recovery EXCEPT ![o] = recovery[o]]
      /\ Counted(payment[o], payment[o])
      /\ OrderPart(o, mapping[o], payment[o], attempts[o], recovery[o], provider, ledger)
  BY <1>1, OrderTypes
<1>5. /\ mapping' = [mapping EXCEPT ![o] = mapping[o]]
      /\ payment' = [payment EXCEPT ![o] = payment[o]]
      /\ attempts' = [attempts EXCEPT ![o] = attempts[o]]
      /\ recovery' = [recovery EXCEPT ![o] = c]
      /\ ledger' = ledger /\ provider' = provider
  BY <1>4 DEF OpenCase
<1>6. /\ c \in CaseStatus
      /\ c = "none" => recovery[o] = "none"
      /\ payment[o].status \notin Unsuccessful => c = recovery[o]
  BY <1>4 DEF Detected, CaseStatus
<1>7. mapping[o] = Unmapped => payment[o].status \notin Unsuccessful
  BY <1>4, GatewayAssumption DEF OrderPart, NoPayment, Unsuccessful, PaymentStatus
<1> HIDE DEF o, c
<1>8. OrderPart(o, mapping[o], payment[o], attempts[o], c, provider, ledger)
  BY <1>4, <1>6, <1>7 DEF OrderPart
<1>9. /\ mapping[o] \in MappingRow /\ payment[o] \in PaymentRow
      /\ attempts[o] \in SUBSET AttemptRow /\ ledger \in SUBSET Delivery
      /\ ledger \subseteq ledger /\ c \in CaseStatus /\ o \in Order
      /\ Counted(payment[o], payment[o])
  BY <1>1, <1>4, <1>6
<1> QED
  BY <1>3, <1>5, <1>8, <1>9, OrderMoves

LEMMA PortalStep ==
  ASSUME GatewayInv, NEW o \in Order, PortalCompletes(o)
  PROVE  /\ GatewayInv' /\ payment'[o].status = "SUCCEEDED"
         /\ \A u \in Order \ {o} : payment'[u] = payment[u]
<1> DEFINE n    == payment[o].attempts
           row  == Attempted(payment[o], TRUE)
           r    == [number |-> n + 1, status |-> "SUCCEEDED",
                    source |-> [pp |-> None, event |-> "portal"]]
           rows == attempts[o] \cup {r}
<1>1. /\ mapping[o] \in MappingRow /\ payment[o] \in PaymentRow /\ n \in Nat
      /\ attempts[o] \in SUBSET AttemptRow
      /\ ledger \in SUBSET Delivery /\ mapping = [mapping EXCEPT ![o] = mapping[o]]
      /\ OrderPart(o, mapping[o], payment[o], attempts[o], recovery[o], provider, ledger)
  BY OrderTypes
<1>2. /\ mapping' = [mapping EXCEPT ![o] = mapping[o]] /\ recovery[o] # "none"
      /\ payment' = [payment EXCEPT ![o] = row]
      /\ recovery' = [recovery EXCEPT ![o] = "closed"]
      /\ attempts' = [attempts EXCEPT ![o] = rows]
      /\ ledger' = ledger /\ provider' = provider /\ session' = session
  BY <1>1 DEF PortalCompletes
<1>3. /\ "SUCCEEDED" \in PaymentStatus \ Unsuccessful /\ n + 1 \in Nat
      /\ "closed" \in CaseStatus
  BY <1>1 DEF PaymentStatus, Unsuccessful, CaseStatus
<1>4. /\ row \in PaymentRow /\ row.status = "SUCCEEDED" /\ row.attempts = n + 1
      /\ row.status # None
  BY <1>1, <1>3, GatewayAssumption DEF Attempted, PaymentRow
<1> HIDE DEF row
<1>5. /\ rows \in SUBSET AttemptRow /\ Numbered(rows, n + 1) /\ OncePerDelivery(rows)
      /\ DeliveryOf(r) \notin Delivery
  <2>1. r \in AttemptRow /\ r.number = n + 1 /\ DeliveryOf(r) = <<None, "portal">>
    BY <1>3 DEF AttemptRow, Source, DeliveryOf
  <2>2. DeliveryOf(r) \notin Delivery
    BY <2>1 DEF Delivery, Event
  <2> HIDE DEF r
  <2> QED
    BY <1>1, <2>1, <2>2, NextAttempt, NextDelivery DEF OrderPart
<1>6. row # NoPayment /\ mapping[o] # Unmapped
  BY <1>1, <1>2, <1>4 DEF NoPayment, OrderPart
<1>7. \A q \in rows : DeliveryOf(q) \in Delivery => DeliveryOf(q) \in ledger
  BY <1>1, <1>5 DEF OrderPart
<1> HIDE DEF r, rows
<1>8. OrderPart(o, mapping[o], row, rows, "closed", provider, ledger)
  BY <1>1, <1>3, <1>4, <1>5, <1>6, <1>7 DEF OrderPart
<1>9. Counted(payment[o], row)
  BY <1>1, <1>4 DEF Counted
<1>10. /\ session' \in [Session -> RequestRow]
       /\ \A t \in Session : session'[t] = session[t] \/ Settled(session'[t])
       /\ \A t \in Session : RequestPart(session[t], mapping, payment, provider, ledger)
  BY <1>2 DEF GatewayInv, TypeOK
<1>11. \A t \in Session :
         /\ session'[t].step = "ordering" /\ session'[t].order = o
              => mapping[o] = Unmapped
         /\ HasNews(session'[t]) => News(session'[t]) \notin ledger
  BY <1>2, <1>10 DEF RequestPart
<1> HIDE DEF n
<1>12. GatewayInv'
  BY <1>1, <1>2, <1>3, <1>4, <1>5, <1>6, <1>8, <1>9, <1>10, <1>11, OrderMoves
<1>13. /\ payment'[o] = row
       /\ \A u \in Order \ {o} : payment'[u] = payment[u]
  BY <1>2 DEF GatewayInv, TypeOK
<1> QED
  BY <1>4, <1>12, <1>13

LEMMA EmptyAttempts == Numbered({}, 0) /\ OncePerDelivery({})
<1>1. IsFiniteSet({}) /\ Cardinality({}) = 0 /\ 1..0 = {}
  BY FS_EmptySet
<1> QED
  BY <1>1 DEF Numbered, OncePerDelivery

\* Requests that knew of a payment now know of none, and one that is making an order
\* goes on making it.
LEMMA EmptiedStep ==
  ASSUME GatewayInv, Emptied, UNCHANGED <<provider, session>>,
         NEW led \in SUBSET ledger, ledger' = led
  PROVE  /\ GatewayInv'
         /\ \A o \in Order : payment'[o] = NoPayment
<1>1. /\ TypeOK /\ ProviderPart(provider)
      /\ \A t \in Session : RequestPart(session[t], mapping, payment, provider, ledger)
      /\ \A t, u \in Session : t # u => Apart(session[t], session[u])
  BY DEF GatewayInv
<1>2. \A o \in Order : /\ mapping'[o] = Unmapped /\ payment'[o] = NoPayment
                       /\ attempts'[o] = {} /\ recovery'[o] = "none"
  BY DEF Emptied
<1>3. /\ Unmapped \in MappingRow /\ NoPayment \in PaymentRow
      /\ Unmapped.status = None /\ NoPayment.status = None /\ NoPayment.attempts = 0
  BY DEF Unmapped, NoPayment, MappingRow, PaymentRow
<1>4. TypeOK'
  BY <1>1, <1>3 DEF TypeOK, Emptied, CaseStatus
<1>5. None # "captured" /\ None \notin Unsuccessful
  BY GatewayAssumption DEF ProviderStatus, Unsuccessful, PaymentStatus
<1>6. \A o \in Order : OrderPart(o, Unmapped, NoPayment, {}, "none", provider, led)
  BY <1>3, <1>5, EmptyAttempts DEF OrderPart
<1>7. ASSUME NEW t \in Session
      PROVE  RequestPart(session[t], mapping', payment', provider, led)
  <2>1. /\ RequestPart(session[t], mapping, payment, provider, ledger)
        /\ provider.orders \subseteq Order
    BY <1>1 DEF TypeOK
  <2>2. session[t].step = "read" => session[t].order \in Order
    BY <2>1 DEF RequestPart, HasNews
  <2> QED
    BY <1>2, <2>1, <2>2 DEF RequestPart
<1> QED
  BY <1>1, <1>2, <1>4, <1>6, <1>7 DEF GatewayInv

LEMMA EmptyingSteps ==
  ASSUME GatewayInv, ClearCases \/ ResetDemo
  PROVE  GatewayInv' /\ \A o \in Order : payment'[o] = NoPayment
BY EmptiedStep DEF ClearCases, ResetDemo

-----------------------------------------------------------------------------
LEMMA GatewayInit == Init => GatewayInv
<1>1. SUFFICES ASSUME Init  PROVE GatewayInv
  OBVIOUS
<1> DEFINE unpaid == [order |-> None, status |-> None, why |-> None]
<1>2. /\ Unmapped \in MappingRow /\ NoPayment \in PaymentRow /\ unpaid \in ProviderRow
      /\ Unmapped.status = None /\ NoPayment.status = None /\ NoPayment.attempts = 0
  BY DEF Unmapped, NoPayment, MappingRow, PaymentRow, ProviderRow
<1>3. /\ mapping = [o \in Order |-> Unmapped] /\ payment = [o \in Order |-> NoPayment]
      /\ attempts = [o \in Order |-> {}] /\ ledger = {}
      /\ recovery = [o \in Order |-> "none"]
      /\ provider = [orders |-> {}, payments |-> [q \in ProviderPayment |-> unpaid]]
      /\ session = [s \in Session |-> Idle]
  BY <1>1 DEF Init
<1> HIDE DEF unpaid
<1>4. TypeOK
  BY <1>2, <1>3, IdleRequest DEF TypeOK, CaseStatus
<1>5. ProviderPart(provider)
  <2>1. unpaid.status = None /\ None \notin ProviderStatus
    BY GatewayAssumption DEF unpaid
  <2> QED
    BY <1>3, <2>1 DEF ProviderPart, ProviderStatus
<1>6. Numbered({}, 0) /\ OncePerDelivery({})
  BY EmptyAttempts
<1>7. None # "captured" /\ None \notin Unsuccessful
  BY GatewayAssumption DEF ProviderStatus, Unsuccessful, PaymentStatus
<1>8. \A o \in Order : OrderPart(o, mapping[o], payment[o], attempts[o], recovery[o],
                                 provider, ledger)
  BY <1>2, <1>3, <1>6, <1>7 DEF OrderPart
<1>9. \A s \in Session : session[s] = Idle
  BY <1>3
<1> QED
  BY <1>4, <1>5, <1>8, <1>9, IdleRequest DEF GatewayInv

LEMMA StutterStep ==
  ASSUME GatewayInv, UNCHANGED vars  PROVE GatewayInv'
BY DEF GatewayInv, TypeOK, vars, tables

\* One delivery or callback at a time begins; everything they need is in the guard.
LEMMA NewsStep ==
  ASSUME GatewayInv, NEW s \in Session,
         \/ \E q \in ProviderPayment : BeginCallback(s, q)
         \/ \E d \in Delivery : BeginWebhook(s, d)
  PROVE  GatewayInv'
<1>1. ASSUME NEW q \in ProviderPayment, BeginCallback(s, q)
      PROVE  GatewayInv'
  <2>1. provider.payments[q].status # None
    BY <1>1, GatewayAssumption DEF BeginCallback, ProviderStatus
  <2>2. <<q, "callback">> \notin ledger
    BY DEF GatewayInv, TypeOK, Delivery, Event
  <2> QED
    BY <1>1, <2>1, <2>2, BeginStep DEF BeginCallback
<1>2. ASSUME NEW d \in Delivery, BeginWebhook(s, d)
      PROVE  GatewayInv'
  <2>1. d[1] \in ProviderPayment /\ d[2] \in Event /\ d = <<d[1], d[2]>>
    BY DEF Delivery
  <2>2. provider.payments[d[1]].status # None
    BY <1>2, GatewayAssumption DEF BeginWebhook, Sent, ProviderStatus
  <2> QED
    BY <1>2, <2>1, <2>2, BeginStep DEF BeginWebhook
<1> QED
  BY <1>1, <1>2

LEMMA GatewayNext == GatewayInv /\ [Next]_vars => GatewayInv'
<1>1. SUFFICES ASSUME GatewayInv, [Next]_vars  PROVE GatewayInv'
  OBVIOUS
<1>2. CASE Customer
  BY <1>1, <1>2, PaysStep, MovesStep DEF Customer
<1>3. ASSUME NEW s \in Session, Request(s)
      PROVE  GatewayInv'
  BY <1>1, <1>3, BeginOrderStep, InsertOrderStep, NewsStep, FetchStep, ReadPaymentStep,
     NoChangeStep, AppliedStep, FailPaymentStep, OpenCaseStep, RequestEnds
     DEF Request, Fails
<1>4. ASSUME NEW d \in Delivery, WebhookOfStranger(d)
      PROVE  GatewayInv'
  BY <1>1, <1>4, StrangerStep
<1>5. ASSUME NEW o \in Order, \/ RunCase(o) \/ PortalCompletes(o)
                              \/ \E r \in ErrorClass : SimulateFailure(o, r)
      PROVE  GatewayInv'
  BY <1>1, <1>5, RunCaseStep, PortalStep, SimulatedStep
<1>6. CASE ClearCases \/ ResetDemo
  BY <1>1, <1>6, EmptyingSteps
<1> QED
  BY <1>1, <1>2, <1>3, <1>4, <1>5, <1>6, StutterStep DEF Next

\* The invariant that the properties of gateway payments follow from.
THEOREM GatewayInvariant == Spec => []GatewayInv
BY GatewayInit, GatewayNext, PTL DEF Spec

\* Type correctness; a payment exists exactly with its mapping.
THEOREM GatewayTypes == Spec => []TypeOK
<1>1. GatewayInv => TypeOK
  BY DEF GatewayInv
<1> QED
  BY <1>1, GatewayInvariant, PTL

\* The attempts of a payment are numbered 1 to attempt_count, although a request
\* counts on from what it read: the unique index refuses every other number.
THEOREM AttemptsAreNumbered == Spec => []AttemptsNumbered
<1>1. GatewayInv => AttemptsNumbered
  BY DEF GatewayInv, OrderPart, Numbered, AttemptsNumbered
<1> QED
  BY <1>1, GatewayInvariant, PTL

\* However often a webhook is delivered, and however many requests handle it at
\* once, at most one attempt comes of it.
THEOREM DeliveriesActOnce == Spec => []DeliveryActsOnce
<1>1. GatewayInv => DeliveryActsOnce
  <2> SUFFICES ASSUME GatewayInv, NEW o \in Order, NEW d \in Delivery
               PROVE  Cardinality({r \in attempts[o] :
                                     <<r.source.pp, r.source.event>> = d}) <= 1
    BY DEF DeliveryActsOnce
  <2> DEFINE same == {r \in attempts[o] : <<r.source.pp, r.source.event>> = d}
  <2>1. \A r, q \in same : r = q
    BY DEF GatewayInv, OrderPart, OncePerDelivery, DeliveryOf
  <2>2. same = {} \/ \E r : same = {r}
    BY <2>1
  <2> HIDE DEF same
  <2>3. Cardinality(same) \in {0, 1}
    BY <2>2, FS_EmptySet, FS_Singleton
  <2> QED
    BY <2>3 DEF same
<1> QED
  BY <1>1, GatewayInvariant, PTL

\* A failed payment without a recovery case was last failed by the operator: no
\* failure that the gateway or a recovery run reports is left without one.
THEOREM FailuresAreTakenUp == Spec => []FailureIsTakenUp
<1>1. GatewayInv => FailureIsTakenUp
  BY DEF GatewayInv, OrderPart, LastByOperator, FailureIsTakenUp
<1> QED
  BY <1>1, GatewayInvariant, PTL

\* A request that knows of the capture, and brings news of a captured payment,
\* brings that capture: another payment of the order cannot have been captured
\* since, so the provider's word it holds is not an older one.
LEMMA LateNewsIsHarmless ==
  ASSUME GatewayInv, NEW s \in Session, CommitApplied(s), NEW o \in Order, Overturned(o)
  PROVE  Excused(o)
<1> DEFINE x == session[s]
<1>1. /\ x \in RequestRow /\ x.step = "read"
      /\ RequestPart(x, mapping, payment, provider, ledger)
      /\ mapping[x.order] # Unmapped
      /\ Verdict(x).status # "PENDING" => ~NumberTaken(x.order, x.row.attempts + 1)
      /\ session' = [session EXCEPT ![s] = Idle]
      /\ payment' = [payment EXCEPT ![x.order] = Applied(x)]
      /\ session \in [Session -> RequestRow] /\ payment \in [Order -> PaymentRow]
  BY DEF GatewayInv, TypeOK, CommitApplied, Apply
<1>2. /\ x.order \in Order
      /\ x.got = "captured" /\ payment[x.order].status = "SUCCEEDED"
           => Applied(x).status = "SUCCEEDED"
  BY <1>1, AppliedRows
<1>3. x.order = o
  BY <1>1, <1>2 DEF Overturned
<1>4. x.got # "captured"
  BY <1>1, <1>2, <1>3 DEF Overturned
<1>5. provider.payments[x.pp].status # "captured" \/ x.map.status # "captured"
  BY <1>1, <1>4 DEF RequestPart
<1>6. session'[s] = Idle
  BY <1>1
<1> QED
  BY <1>1, <1>3, <1>5, <1>6 DEF Excused

\* A payment that has succeeded is failed or pending again only by news of an
\* uncaptured payment, by a request from before the capture, by the simulated failure,
\* by the operator's (POST /payments/{id}/fail) or by a recovery action; the portal,
\* late news and the deletion of other rows do not overturn it.
THEOREM CaptureSurvives == Spec => CaptureOverturnedOnlyBy
<1>1. GatewayInv /\ [Next]_vars
        => [\A o \in Order : Overturned(o) => Excused(o)]_vars
  <2> SUFFICES ASSUME GatewayInv, Next, NEW o \in Order, Overturned(o)
               PROVE  Excused(o)
    OBVIOUS
  <2>1. payment'[o] # payment[o] /\ payment[o].status = "SUCCEEDED"
    BY DEF Overturned
  <2>2. CASE Customer
    BY <2>1, <2>2 DEF Customer, Pays, Moves, tables
  <2>3. ASSUME NEW s \in Session, Request(s)
        PROVE  Excused(o)
    <3>1. CASE InsertOrder(s)
      <4>1. /\ RequestPart(session[s], mapping, payment, provider, ledger)
            /\ payment \in [Order -> PaymentRow] /\ provider.orders \subseteq Order
            /\ session[s].step = "ordering"
            /\ payment' = [payment EXCEPT ![session[s].order] = NewPayment]
        BY <3>1 DEF GatewayInv, TypeOK, InsertOrder
      <4>2. session[s].order = o
        BY <2>1, <4>1
      <4>3. mapping[o] = Unmapped
        BY <4>1, <4>2 DEF RequestPart
      <4>4. payment[o] = NoPayment
        BY <4>3 DEF GatewayInv, OrderPart
      <4> QED
        BY <2>1, <4>4, GatewayAssumption DEF NoPayment, PaymentStatus
    <3>2. CASE CommitApplied(s)
      BY <3>2, LateNewsIsHarmless
    <3>3. ASSUME NEW u \in Order, NEW why \in ErrorClass, FailPayment(s, u, why)
          PROVE  Excused(o)
      BY <2>1, <3>3, FailPaymentStep DEF Excused
    <3>4. CASE ~InsertOrder(s) /\ ~CommitApplied(s)
                 /\ ~\E u \in Order, why \in ErrorClass : FailPayment(s, u, why)
      BY <2>1, <2>3, <3>4 DEF Request, BeginOrder, BeginCallback, BeginWebhook, Fetch,
                              ReadPayment, CommitNoChange, OpenCase, Fails, tables
    <3> QED
      BY <3>1, <3>2, <3>3, <3>4
  <2>4. ASSUME NEW d \in Delivery, WebhookOfStranger(d)
        PROVE  Excused(o)
    BY <2>1, <2>4 DEF WebhookOfStranger
  <2>5. ASSUME NEW r \in Order, RunCase(r)
        PROVE  Excused(o)
    <3>1. r = o
      BY <2>1, <2>5 DEF RunCase, GatewayInv, TypeOK
    <3> QED
      BY <2>1, <2>5, <3>1, RunCaseStep DEF Excused
  <2>6. ASSUME NEW r \in Order, NEW why \in ErrorClass, SimulateFailure(r, why)
        PROVE  Excused(o)
    <3>1. r = o
      BY <2>1, <2>6 DEF SimulateFailure, GatewayInv, TypeOK
    <3> QED
      BY <2>6, <3>1, SimulatedStep DEF Excused
  <2>7. ASSUME NEW r \in Order, PortalCompletes(r)
        PROVE  Excused(o)
    <3>1. payment'[o].status = "SUCCEEDED" \/ payment'[o] = payment[o]
      BY <2>7, PortalStep
    <3> QED
      BY <2>1, <3>1 DEF Overturned
  <2>8. CASE ClearCases \/ ResetDemo
    BY <2>8, EmptyingSteps DEF Overturned
  <2> QED
    BY <2>2, <2>3, <2>4, <2>5, <2>6, <2>7, <2>8 DEF Next
<1> QED
  BY <1>1, GatewayInvariant, PTL DEF Spec, CaptureOverturnedOnlyBy
=============================================================================

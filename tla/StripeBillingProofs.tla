------------------------ MODULE StripeBillingProofs ------------------------
(***************************************************************************)
(* Safety of StripeBilling for every set of checkouts and every bound, and *)
(* so for events delivered in any order, any number of times, with crashes *)
(* between the commits of a handler: no plan without a purchase, no event  *)
(* applied twice, no counter reset by an unrelated change.                 *)
(***************************************************************************)
EXTENDS StripeBilling, TLAPS

Org == [customer : Checkout \cup {None}, subscription : Checkout \cup {None},
        plan : Plan, used : Nat]

-----------------------------------------------------------------------------
(* What the handlers make of the organization. *)

LEMMA ApplyPlanResult ==
  ASSUME NEW o \in Org, NEW plan \in Plan
  PROVE  /\ _apply_plan_to_org(o, plan) \in Org
         /\ _apply_plan_to_org(o, plan).plan = plan
         /\ _apply_plan_to_org(o, plan).subscription = o.subscription
         /\ _apply_plan_to_org(o, plan).customer = o.customer
<1> DEFINE p == [o EXCEPT !.plan = plan]
<1>1. p \in Org /\ p.plan = plan /\ p.subscription = o.subscription /\ p.customer = o.customer
  BY DEF Org
<1>2. _apply_plan_to_org(o, plan) = [p EXCEPT !.used = 0]
  BY DEF _apply_plan_to_org, Org
<1> HIDE DEF p
<1>3. /\ [p EXCEPT !.used = 0] \in Org
      /\ [p EXCEPT !.used = 0].plan = p.plan
      /\ [p EXCEPT !.used = 0].subscription = p.subscription
      /\ [p EXCEPT !.used = 0].customer = p.customer
  BY <1>1 DEF Org
<1> QED
  BY <1>1, <1>2, <1>3

LEMMA LinkResult ==
  ASSUME NEW o \in Org, NEW s \in Checkout \cup {None}
  PROVE  /\ [o EXCEPT !.subscription = s] \in Org
         /\ [o EXCEPT !.subscription = s].subscription = s
         /\ [o EXCEPT !.subscription = s].plan = o.plan
         /\ [o EXCEPT !.subscription = s].used = o.used
         /\ [o EXCEPT !.subscription = s].customer = o.customer
BY DEF Org

(* A handler leaves the organization alone, or shows the subscription and   *)
(* the plan of its event, or puts it back on the free plan; and only a      *)
(* purchase or a cancellation touches the counter of an unchanged plan.     *)
LEMMA DispatchResult ==
  ASSUME org \in Org, NEW e \in Event
  PROVE  /\ Dispatch(e) \in Org
         /\ \/ Dispatch(e) = org
            \/ /\ e.kind \in {"completed", "updated"}
               /\ Dispatch(e).subscription = e.sub
               /\ Dispatch(e).plan = e.price
            \/ Dispatch(e).subscription = None /\ Dispatch(e).plan = "free"
         /\ e.kind \notin {"completed", "deleted"} /\ Dispatch(e).plan = org.plan
              => Dispatch(e).used = org.used
<1>1. /\ e.sub \in Checkout /\ e.kind \in EventKind
      /\ e.price \in Price
      /\ e.kind = "completed" => e.price \in PaidPlan
      /\ PaidPlan \subseteq Plan /\ "free" \in Plan
  BY DEF Event, EventKind, Price, Plan
<1>2. CASE e.kind = "completed"
  <2> DEFINE o == [org EXCEPT !.subscription = e.sub]
  <2>1. Dispatch(e) = _apply_plan_to_org(o, e.price)
    BY <1>2 DEF Dispatch, _on_checkout_completed
  <2>2. o \in Org /\ o.subscription = e.sub
    BY <1>1, LinkResult
  <2> HIDE DEF o
  <2> QED
    BY <1>1, <1>2, <2>1, <2>2, ApplyPlanResult
<1>3. CASE e.kind = "updated"
  <2> DEFINE o == IF e.price # org.plan THEN _apply_plan_to_org(org, e.price) ELSE org
  <2>1. Dispatch(e) = IF e.price \notin PaidPlan THEN org
                      ELSE [o EXCEPT !.subscription = e.sub]
    BY <1>3 DEF Dispatch, _on_subscription_updated
  <2>2. CASE e.price \notin PaidPlan
    BY <2>1, <2>2
  <2>3. CASE e.price \in PaidPlan
    <3>1. o \in Org /\ o.plan = e.price /\ (o.used = org.used \/ e.price # org.plan)
      BY <1>1, <2>3, ApplyPlanResult
    <3> HIDE DEF o
    <3> QED
      BY <1>1, <1>3, <2>1, <2>3, <3>1, LinkResult
  <2> QED
    BY <2>2, <2>3
<1>4. CASE e.kind = "deleted"
  <2>1. Dispatch(e) = [_apply_plan_to_org(org, "free") EXCEPT !.subscription = None]
    BY <1>4 DEF Dispatch, _on_subscription_deleted
  <2> QED
    BY <1>1, <1>4, <2>1, ApplyPlanResult, LinkResult
<1>5. CASE e.kind = "invoice"
  BY <1>5 DEF Dispatch
<1> QED
  BY <1>1, <1>2, <1>3, <1>4, <1>5 DEF EventKind

(* The handlers leave the customer alone, and show what a known price says. *)
LEMMA DispatchExact ==
  ASSUME org \in Org, NEW e \in Event
  PROVE  /\ Dispatch(e).customer = org.customer
         /\ e.price \in PaidPlan =>
              /\ e.kind \in {"completed", "updated"}
                   => Dispatch(e).subscription = e.sub /\ Dispatch(e).plan = e.price
              /\ e.kind = "deleted"
                   => Dispatch(e).subscription = None /\ Dispatch(e).plan = "free"
              /\ e.kind = "invoice" => Dispatch(e) = org
<1>1. /\ e.sub \in Checkout /\ e.kind \in EventKind
      /\ e.kind = "completed" => e.price \in PaidPlan
      /\ PaidPlan \subseteq Plan /\ "free" \in Plan
  BY DEF Event, EventKind, Plan
<1>2. CASE e.kind = "completed"
  <2> DEFINE o == [org EXCEPT !.subscription = e.sub]
  <2>1. Dispatch(e) = _apply_plan_to_org(o, e.price)
    BY <1>2 DEF Dispatch, _on_checkout_completed
  <2>2. o \in Org /\ o.subscription = e.sub /\ o.customer = org.customer
    BY <1>1, LinkResult
  <2> HIDE DEF o
  <2> QED
    BY <1>1, <1>2, <2>1, <2>2, ApplyPlanResult
<1>3. CASE e.kind = "updated"
  <2> DEFINE o == IF e.price # org.plan THEN _apply_plan_to_org(org, e.price) ELSE org
  <2>1. Dispatch(e) = IF e.price \notin PaidPlan THEN org
                      ELSE [o EXCEPT !.subscription = e.sub]
    BY <1>3 DEF Dispatch, _on_subscription_updated
  <2>2. ASSUME e.price \in PaidPlan
        PROVE  o \in Org /\ o.plan = e.price /\ o.customer = org.customer
    BY <1>1, <2>2, ApplyPlanResult
  <2> HIDE DEF o
  <2> QED
    BY <1>1, <1>3, <2>1, <2>2, LinkResult
<1>4. CASE e.kind = "deleted"
  <2>1. Dispatch(e) = [_apply_plan_to_org(org, "free") EXCEPT !.subscription = None]
    BY <1>4 DEF Dispatch, _on_subscription_deleted
  <2> QED
    BY <1>1, <1>4, <2>1, ApplyPlanResult, LinkResult
<1>5. CASE e.kind = "invoice"
  BY <1>5 DEF Dispatch
<1> QED
  BY <1>1, <1>2, <1>3, <1>4, <1>5 DEF EventKind

-----------------------------------------------------------------------------
(* Type correctness. *)

(* What has been recorded stays recorded when Stripe sends another event. *)
LEMMA SendType ==
  ASSUME TypeOK, NEW c \in Checkout, NEW kind \in EventKind, NEW price \in Price,
         kind = "completed" => price \in PaidPlan,
         Send(kind, c, price)
  PROVE  /\ events' \in Seq(Event)
         /\ recorded \in Seq(DOMAIN events')
         /\ \A i \in DOMAIN events : i \in DOMAIN events' /\ events'[i] = events[i]
<1>1. [kind |-> kind, sub |-> c, price |-> price] \in Event
  BY DEF Event, Price
<1>2. /\ events' = Append(events, [kind |-> kind, sub |-> c, price |-> price])
      /\ events \in Seq(Event) /\ recorded \in Seq(DOMAIN events)
  BY DEF Send, TypeOK
<1>3. events' \in Seq(Event) /\ Len(events') = Len(events) + 1
  BY <1>1, <1>2
<1>4. \A i \in DOMAIN events : i \in DOMAIN events' /\ events'[i] = events[i]
  BY <1>1, <1>2
<1>5. recorded \in Seq(DOMAIN events')
  <2>1. \A k \in 1 .. Len(recorded) : recorded[k] \in DOMAIN events'
    BY <1>2, <1>4
  <2> QED
    BY <1>2, <2>1
<1> QED
  BY <1>3, <1>4, <1>5

LEMMA RecordType ==
  ASSUME TypeOK, NEW i \in DOMAIN events, Record(i), UNCHANGED events
  PROVE  /\ recorded' \in Seq(DOMAIN events')
         /\ \A k \in DOMAIN recorded : k \in DOMAIN recorded' /\ recorded'[k] = recorded[k]
         /\ \E k \in DOMAIN recorded' : recorded'[k] = i
         /\ {recorded'[k] : k \in DOMAIN recorded'} = {recorded[k] : k \in DOMAIN recorded} \cup {i}
<1>1. recorded' = Append(recorded, i) /\ recorded \in Seq(DOMAIN events)
  BY DEF Record, TypeOK
<1>2. /\ DOMAIN recorded = 1 .. Len(recorded) /\ Len(recorded) \in Nat
      /\ recorded' \in Seq(DOMAIN events)
      /\ DOMAIN recorded' = 1 .. Len(recorded) + 1
      /\ \A k \in 1 .. Len(recorded) : recorded'[k] = recorded[k]
      /\ recorded'[Len(recorded) + 1] = i
  BY <1>1
<1> QED
  BY <1>2

LEMMA TypeStep == TypeOK /\ [Next]_vars => TypeOK'
<1> SUFFICES ASSUME TypeOK, [Next]_vars
             PROVE  TypeOK'
  OBVIOUS
<1>1. ASSUME NEW c \in Checkout, Arrive(c)
      PROVE  TypeOK'
  BY <1>1 DEF TypeOK, Arrive, Goto, Stripe, Webhook
<1>2. ASSUME NEW c \in Checkout, create_checkout_session(c)
      PROVE  TypeOK'
  BY <1>2 DEF TypeOK, create_checkout_session, ensure_customer, Goto, Stripe, Webhook
<1>3. ASSUME NEW c \in Checkout, billing_checkout(c)
      PROVE  TypeOK'
  BY <1>3 DEF TypeOK, billing_checkout, Goto, Stripe, Webhook
<1>4. ASSUME NEW c \in Checkout, CheckoutFails(c)
      PROVE  TypeOK'
  BY <1>4 DEF TypeOK, CheckoutFails, Goto, Stripe, Webhook
<1>5. ASSUME NEW c \in Checkout, Pay(c)
      PROVE  TypeOK'
  <2>1. PICK plan \in PaidPlan :
           /\ sub' = [sub EXCEPT ![c] = [state |-> "active", price |-> plan]]
           /\ Send("completed", c, plan)
    BY <1>5 DEF Pay
  <2>2. events' \in Seq(Event) /\ recorded \in Seq(DOMAIN events')
    BY <2>1, SendType DEF EventKind, Price
  <2> QED
    BY <1>5, <2>1, <2>2 DEF TypeOK, Pay, Goto, Webhook, Price
<1>6. ASSUME NEW c \in Checkout, Update(c)
      PROVE  TypeOK'
  <2>1. PICK price \in Price :
           /\ sub' = [sub EXCEPT ![c].price = price]
           /\ Send("updated", c, price)
    BY <1>6 DEF Update
  <2>2. events' \in Seq(Event) /\ recorded \in Seq(DOMAIN events')
    BY <2>1, SendType DEF EventKind
  <2> QED
    BY <1>6, <2>1, <2>2 DEF TypeOK, Update, Webhook, Route
<1>7. ASSUME NEW c \in Checkout, Cancel(c)
      PROVE  TypeOK'
  <2>1. sub[c].price \in Price /\ Send("deleted", c, sub[c].price)
    BY <1>7 DEF TypeOK, Cancel
  <2>2. events' \in Seq(Event) /\ recorded \in Seq(DOMAIN events')
    BY <2>1, SendType DEF EventKind
  <2> QED
    BY <1>7, <2>2 DEF TypeOK, Cancel, Webhook, Route
<1>8. ASSUME NEW c \in Checkout, Invoice(c)
      PROVE  TypeOK'
  <2>1. sub[c].price \in Price /\ Send("invoice", c, sub[c].price)
    BY <1>8 DEF TypeOK, Invoice
  <2>2. events' \in Seq(Event) /\ recorded \in Seq(DOMAIN events')
    BY <2>1, SendType DEF EventKind
  <2> QED
    BY <1>8, <2>2 DEF TypeOK, Invoice, Webhook, Route
<1>9. ASSUME NEW i \in DOMAIN events, handle_webhook(i)
      PROVE  TypeOK'
  <2>1. Record(i) /\ UNCHANGED events
    BY <1>9 DEF handle_webhook, Stripe
  <2>2. org' \in Org
    <3>1. org \in Org /\ events[i] \in Event
      BY DEF TypeOK, Org
    <3> QED
      BY <1>9, <3>1, DispatchResult DEF handle_webhook
  <2>3. processed' \subseteq {recorded'[k] : k \in DOMAIN recorded'}
    BY <1>9, <2>1, RecordType DEF TypeOK, handle_webhook
  <2>4. recorded' \in Seq(DOMAIN events')
    BY <2>1, RecordType
  <2>5. UNCHANGED <<pc, read, session, sub, events, faults>>
    BY <1>9 DEF handle_webhook, Route, Stripe
  <2> QED
    BY <2>2, <2>3, <2>4, <2>5 DEF TypeOK, Org
<1>10. ASSUME NEW i \in DOMAIN events, HandlerRaises(i) \/ CrashAfterRecord(i)
       PROVE  TypeOK'
  <2>1. Record(i) /\ UNCHANGED <<events, processed>>
    BY <1>10 DEF HandlerRaises, CrashAfterRecord, Stripe
  <2>2. processed' \subseteq {recorded'[k] : k \in DOMAIN recorded'}
    BY <2>1, RecordType DEF TypeOK
  <2> QED
    BY <1>10, <2>1, <2>2, RecordType
    DEF TypeOK, HandlerRaises, CrashAfterRecord, Route, Stripe
<1>11. ASSUME NEW i \in DOMAIN events, AlreadyProcessed(i)
       PROVE  TypeOK'
  BY <1>11 DEF TypeOK, AlreadyProcessed, vars
<1>12. ASSUME CounterWritten
       PROVE  TypeOK'
  <2>1. org' \in Org
    <3>1. PICK used \in 0 .. MaxUsed : org' = [org EXCEPT !.used = used]
      BY <1>12 DEF CounterWritten
    <3>2. org \in Org /\ used \in Nat
      BY BillingBounds DEF TypeOK, Org
    <3> QED
      BY <3>1, <3>2 DEF Org
  <2> QED
    BY <1>12, <2>1 DEF TypeOK, CounterWritten, Org, Route, Stripe, Webhook
<1>13. ASSUME UNCHANGED vars
       PROVE  TypeOK'
  BY <1>13 DEF TypeOK, vars
<1> QED
  BY <1>1, <1>2, <1>3, <1>4, <1>5, <1>6, <1>7, <1>8, <1>9, <1>10, <1>11, <1>12, <1>13
  DEF Next, Deliver

(* For any checkouts, events and crashes the state is well typed: no        *)
(* handler ever puts an unknown plan on the organization.                   *)
THEOREM BillingTypeCorrect == Spec => []TypeOK
<1>1. Init => TypeOK
  BY NoneAssumption DEF Init, TypeOK, Plan, Price
<1> QED
  BY <1>1, TypeStep, PTL DEF Spec

-----------------------------------------------------------------------------
(* No plan without a purchase. *)

(* Recorded events and what they say are never lost, so a purchase that     *)
(* explains the plan keeps explaining it.                                   *)
LEMMA PurchaseStays ==
  ASSUME PlanWasPaidFor, UNCHANGED <<org.plan, org.subscription>>,
         \A k \in DOMAIN recorded :
            /\ k \in DOMAIN recorded' /\ recorded'[k] = recorded[k]
            /\ events'[recorded[k]] = events[recorded[k]]
  PROVE  PlanWasPaidFor'
BY DEF PlanWasPaidFor

LEMMA PaidStep == TypeOK /\ PlanWasPaidFor /\ [Next]_vars => PlanWasPaidFor'
<1> SUFFICES ASSUME TypeOK, PlanWasPaidFor, [Next]_vars
             PROVE  PlanWasPaidFor'
  OBVIOUS
<1>0. \A k \in DOMAIN recorded : recorded[k] \in DOMAIN events
  BY DEF TypeOK
<1>1. ASSUME NEW c \in Checkout,
             Arrive(c) \/ create_checkout_session(c) \/ CheckoutFails(c)
      PROVE  PlanWasPaidFor'
  BY <1>1, PurchaseStays
  DEF Arrive, create_checkout_session, CheckoutFails, Stripe, Webhook
<1>2. ASSUME NEW c \in Checkout, billing_checkout(c)
      PROVE  PlanWasPaidFor'
  <2>1. UNCHANGED <<org.plan, org.subscription>>
    BY <1>2 DEF TypeOK, billing_checkout
  <2> QED
    BY <1>2, <2>1, PurchaseStays DEF billing_checkout, Stripe, Webhook
<1>3. ASSUME NEW c \in Checkout, Pay(c) \/ Update(c) \/ Cancel(c) \/ Invoice(c)
      PROVE  PlanWasPaidFor'
  <2>1. \E kind \in EventKind, price \in Price :
          /\ kind = "completed" => price \in PaidPlan
          /\ Send(kind, c, price)
    BY <1>3 DEF Pay, Update, Cancel, Invoice, TypeOK, EventKind, Price
  <2>2. \A i \in DOMAIN events : events'[i] = events[i]
    BY <2>1, SendType
  <2> QED
    BY <1>0, <1>3, <2>2, PurchaseStays DEF Pay, Update, Cancel, Invoice, Webhook
<1>4. ASSUME NEW i \in DOMAIN events, handle_webhook(i)
      PROVE  PlanWasPaidFor'
  <2>1. /\ Record(i) /\ UNCHANGED events
        /\ org \in Org /\ events[i] \in Event
    BY <1>4 DEF handle_webhook, Stripe, TypeOK, Org
  <2>2. CASE org' = org
    BY <2>1, <2>2, RecordType, PurchaseStays
  <2>3. CASE org' = Dispatch(events[i]) /\ org' # org
    <3>1. CASE /\ events[i].kind \in {"completed", "updated"}
               /\ org'.subscription = events[i].sub
               /\ org'.plan = events[i].price
      <4>1. events[i].sub # None
        BY <2>1, NoneAssumption DEF Event
      <4>2. PICK k \in DOMAIN recorded' : recorded'[k] = i
        BY <2>1, RecordType
      <4> QED
        BY <2>1, <3>1, <4>1, <4>2 DEF PlanWasPaidFor
    <3>2. CASE org'.subscription = None /\ org'.plan = "free"
      BY <3>2 DEF PlanWasPaidFor
    <3> QED
      BY <2>1, <2>3, <3>1, <3>2, DispatchResult
  <2> QED
    BY <1>4, <2>2, <2>3 DEF handle_webhook
<1>5. ASSUME NEW i \in DOMAIN events, HandlerRaises(i) \/ CrashAfterRecord(i)
      PROVE  PlanWasPaidFor'
  <2>1. Record(i) /\ UNCHANGED <<events, org>>
    BY <1>5 DEF HandlerRaises, CrashAfterRecord, Stripe
  <2> QED
    BY <2>1, RecordType, PurchaseStays
<1>6. ASSUME CounterWritten
      PROVE  PlanWasPaidFor'
  <2>1. UNCHANGED <<org.plan, org.subscription>>
    BY <1>6 DEF TypeOK, CounterWritten
  <2> QED
    BY <1>6, <2>1, PurchaseStays DEF CounterWritten, Stripe, Webhook
<1>7. ASSUME UNCHANGED vars
      PROVE  PlanWasPaidFor'
  BY <1>7, PurchaseStays DEF vars
<1> QED
  BY <1>1, <1>2, <1>3, <1>4, <1>5, <1>6, <1>7 DEF Next, Deliver, AlreadyProcessed

(* An organization on a paid plan is linked to a subscription that was      *)
(* bought with, or switched to, that plan, whatever order Stripe's events   *)
(* arrive in and wherever the process stops.                                *)
THEOREM NoPlanWithoutPurchase == Spec => []PlanWasPaidFor
<1>1. Init => PlanWasPaidFor
  BY DEF Init, PlanWasPaidFor
<1> QED
  BY <1>1, PaidStep, BillingTypeCorrect, PTL DEF Spec

-----------------------------------------------------------------------------
(* What a step may never do. *)

(* Only the handler of an event seen for the first time changes the plan or *)
(* the subscription, and of all webhooks only it moves the counter.         *)
LEMMA OnlyHandlersChangePlans ==
  ASSUME TypeOK, [Next]_vars,
         \/ <<org.plan, org.subscription>>' # <<org.plan, org.subscription>>
         \/ recorded' # recorded /\ org'.used # org.used
  PROVE  \E i \in DOMAIN events : handle_webhook(i) /\ org' = Dispatch(events[i])
<1>1. org \in Org
  BY DEF TypeOK, Org
<1>2. ASSUME UNCHANGED org
      PROVE  FALSE
  BY <1>1, <1>2 DEF Org
<1>3. ASSUME NEW c \in Checkout, billing_checkout(c)
      PROVE  FALSE
  <2>1. UNCHANGED <<org.plan, org.subscription, org.used>>
    BY <1>1, <1>3 DEF billing_checkout, Org
  <2> QED
    BY <1>1, <2>1 DEF Org
<1>4. ASSUME CounterWritten
      PROVE  FALSE
  <2>1. UNCHANGED <<org.plan, org.subscription, recorded>>
    BY <1>1, <1>4 DEF CounterWritten, Org, Webhook
  <2> QED
    BY <2>1
<1>5. ASSUME NEW i \in DOMAIN events, handle_webhook(i)
      PROVE  org' = Dispatch(events[i])
  BY <1>2, <1>5 DEF handle_webhook
<1> QED
  BY <1>2, <1>3, <1>4, <1>5
  DEF Next, Deliver, vars, Arrive, create_checkout_session, CheckoutFails, Pay,
      Update, Cancel, Invoice, HandlerRaises, AlreadyProcessed, CrashAfterRecord

(* A redelivered event changes nothing, under any interleaving and whatever *)
(* the pipeline writes to the counter meanwhile.                            *)
THEOREM RedeliveryChangesNothing == Spec => EventsApplyOnce
<1>1. TypeOK /\ [Next]_vars =>
        ((\/ <<org.plan, org.subscription>>' # <<org.plan, org.subscription>>
          \/ recorded' # recorded /\ org'.used # org.used)
          => \E i \in DOMAIN events :
                /\ \A k \in DOMAIN recorded : recorded[k] # i
                /\ recorded' = Append(recorded, i)
                /\ i \in processed')
  BY OnlyHandlersChangePlans DEF handle_webhook, Record, IntegrityError
<1> QED
  BY <1>1, BillingTypeCorrect, PTL DEF Spec, EventsApplyOnce

(* Of all webhooks that leave the plan as it is, only a purchase or the end  *)
(* of a subscription starts the counter afresh.                             *)
THEOREM RefillsAreBought == Spec => NoFreeRefill
<1>1. TypeOK /\ [Next]_vars =>
        (recorded' # recorded /\ org'.used < org.used /\ org'.plan = org.plan
          => \E i \in DOMAIN events :
                /\ recorded' = Append(recorded, i)
                /\ events[i].kind \in {"completed", "deleted"})
  <2> SUFFICES ASSUME TypeOK, [Next]_vars, recorded' # recorded, org'.used < org.used,
                      org'.plan = org.plan
               PROVE  \E i \in DOMAIN events :
                        /\ recorded' = Append(recorded, i)
                        /\ events[i].kind \in {"completed", "deleted"}
    OBVIOUS
  <2>0. org.used \in Nat /\ org'.used # org.used
    <3>1. org.used \in Nat
      BY DEF TypeOK, Org
    <3> QED
      BY <3>1
  <2>1. PICK i \in DOMAIN events : handle_webhook(i) /\ org' = Dispatch(events[i])
    BY <2>0, OnlyHandlersChangePlans
  <2>2. org \in Org /\ events[i] \in Event /\ org.used \in Nat
    BY DEF TypeOK, Org
  <2>3. events[i].kind \in {"completed", "deleted"}
    BY <2>1, <2>2, DispatchResult
  <2> QED
    BY <2>1, <2>3 DEF handle_webhook, Record
<1> QED
  BY <1>1, BillingTypeCorrect, PTL DEF Spec, NoFreeRefill

-----------------------------------------------------------------------------
(* The organization shows what Stripe bills.                                 *)
(*                                                                          *)
(* MirrorsStripe speaks of the end of a delivery; what is inductive speaks  *)
(* of every prefix of it.  Three invariants: which customers the sessions   *)
(* belong to, what Stripe's events say of its subscriptions, and what the   *)
(* organization shows once the first n events have been applied in order.   *)

Committed == {"open", "paid"}

(* A customer that a row, a copy or another checkout's session names was    *)
(* committed by the checkout that created it, once and for all.             *)
CustomerInv ==
  /\ org.customer # None => pc[org.customer] \in Committed
  /\ \A c \in Checkout :
       /\ read[c] # None => pc[read[c]] \in Committed
       /\ pc[c] = "opened" => session[c] = ensure_customer(c)
       /\ pc[c] \in Committed => session[c] \in Checkout
       /\ session[c] \notin {None, c} => pc[session[c]] \in Committed

Purchase(i, c) == events[i].sub = c /\ events[i].kind = "completed"
Ending(i, c)   == events[i].sub = c /\ events[i].kind = "deleted"

(* The subscription of c lives according to the first n events, and the     *)
(* last of them that is about it.                                           *)
Live(c, n) == /\ \E i \in 1 .. n : Purchase(i, c)
              /\ \A i \in 1 .. n : ~Ending(i, c)
Latest(i, c, n) == /\ i \in 1 .. n
                   /\ events[i].sub = c
                   /\ \A j \in 1 .. n : events[j].sub = c => j <= i

(* The events of a subscription start with its purchase and stop with its   *)
(* end, and the last one carries its price.                                 *)
StreamOf(c) ==
  /\ pc[c] = "paid" <=> sub[c].state # "none"
  /\ \A i \in DOMAIN events : events[i].sub = c =>
       /\ sub[c].state # "none"
       /\ \E j \in 1 .. i : Purchase(j, c)
       /\ \A j \in DOMAIN events : i < j /\ Ending(i, c) => events[j].sub # c
       /\ events[i].kind = "invoice"
            => \E j \in 1 .. i - 1 : Latest(j, c, i - 1) /\ events[j].price = events[i].price
  /\ sub[c].state = "active" =>
       /\ Live(c, Len(events))
       /\ \E i \in DOMAIN events : Latest(i, c, Len(events)) /\ events[i].price = sub[c].price
  /\ sub[c].state = "ended" => \E i \in DOMAIN events : Ending(i, c)

StreamInv == \A c \in Checkout : StreamOf(c)

(* The ideal conditions of MirrorsStripe, of the first n events. *)
Delivered(n) ==
  /\ recorded = [k \in 1 .. n |-> k]
  /\ 1 .. n \subseteq processed
  /\ \A i \in 1 .. n : session[events[i].sub] = org.customer /\ events[i].price \in PaidPlan
  /\ \A i, j \in 1 .. n :
       i < j /\ events[i].kind = "completed" /\ events[j].kind = "completed"
         => \E d \in i .. j : Ending(d, events[i].sub)

Mirror(n) ==
  /\ \A c \in Checkout : Live(c, n) =>
       /\ org.subscription = c
       /\ \A i \in 1 .. n : Latest(i, c, n) => org.plan = events[i].price
  /\ (\A c \in Checkout : ~Live(c, n)) => org.subscription = None /\ org.plan = "free"

MirrorInv == Delivered(Len(recorded)) => Mirror(Len(recorded))

LEMMA InitMirror == Init => CustomerInv /\ StreamInv /\ MirrorInv
<1> SUFFICES ASSUME Init PROVE CustomerInv /\ StreamInv /\ MirrorInv
  OBVIOUS
<1>1. CustomerInv
  BY NoneAssumption DEF Init, CustomerInv, Committed
<1>2. Len(recorded) = 0 /\ Len(events) = 0
  BY DEF Init
<1>3. StreamInv
  <2> SUFFICES ASSUME NEW c \in Checkout PROVE StreamOf(c)
    BY DEF StreamInv
  <2>1. DOMAIN events = {} /\ pc[c] = "idle" /\ sub[c].state = "none"
    BY DEF Init
  <2> QED
    BY <2>1 DEF StreamOf
<1>4. MirrorInv
  BY <1>2 DEF Init, MirrorInv, Mirror, Live
<1> QED
  BY <1>1, <1>3, <1>4

(* Only the checkout that created a customer commits it, at most once. *)
LEMMA CustomerStep == TypeOK /\ CustomerInv /\ [Next]_vars => CustomerInv'
<1> SUFFICES ASSUME TypeOK, CustomerInv, [Next]_vars PROVE CustomerInv'
  OBVIOUS
<1> USE NoneAssumption
<1>1. ASSUME NEW c \in Checkout, Arrive(c)
      PROVE  CustomerInv'
  BY <1>1 DEF Arrive, Goto, TypeOK, CustomerInv, Committed, ensure_customer
<1>2. ASSUME NEW c \in Checkout, create_checkout_session(c)
      PROVE  CustomerInv'
  BY <1>2 DEF create_checkout_session, Goto, TypeOK, CustomerInv, Committed, ensure_customer
<1>3. ASSUME NEW c \in Checkout, billing_checkout(c)
      PROVE  CustomerInv'
  BY <1>3 DEF billing_checkout, Goto, TypeOK, CustomerInv, Committed, ensure_customer
<1>4. ASSUME NEW c \in Checkout, CheckoutFails(c)
      PROVE  CustomerInv'
  BY <1>4 DEF CheckoutFails, Goto, TypeOK, CustomerInv, Committed, ensure_customer
<1>5. ASSUME NEW c \in Checkout, Pay(c)
      PROVE  CustomerInv'
  BY <1>5 DEF Pay, Goto, TypeOK, CustomerInv, Committed, ensure_customer
<1>6. ASSUME UNCHANGED <<pc, read, session>>, org'.customer = org.customer
      PROVE  CustomerInv'
  BY <1>6 DEF CustomerInv, ensure_customer
<1>7. ASSUME NEW c \in Checkout, Update(c) \/ Cancel(c) \/ Invoice(c)
      PROVE  CustomerInv'
  BY <1>6, <1>7 DEF Update, Cancel, Invoice, Route
<1>8. ASSUME NEW i \in DOMAIN events, handle_webhook(i)
      PROVE  CustomerInv'
  <2>1. org \in Org /\ events[i] \in Event
    BY DEF TypeOK, Org
  <2>2. Dispatch(events[i]).customer = org.customer
    BY <2>1, DispatchExact
  <2> QED
    BY <1>6, <1>8, <2>2 DEF handle_webhook, Route
<1>9. ASSUME NEW i \in DOMAIN events, HandlerRaises(i) \/ CrashAfterRecord(i) \/ AlreadyProcessed(i)
      PROVE  CustomerInv'
  BY <1>6, <1>9 DEF HandlerRaises, CrashAfterRecord, AlreadyProcessed, Route, vars
<1>10. CASE CounterWritten
  <2>1. org'.customer = org.customer
    BY <1>10 DEF CounterWritten, TypeOK
  <2> QED
    BY <1>6, <1>10, <2>1 DEF CounterWritten, Route
<1>11. CASE UNCHANGED vars
  BY <1>6, <1>11 DEF vars
<1> QED
  BY <1>1, <1>2, <1>3, <1>4, <1>5, <1>7, <1>8, <1>9, <1>10, <1>11 DEF Next, Deliver

(* What Stripe sends: a purchase opens a stream, an end closes it, and what *)
(* comes between carries the price as it is then.                           *)
LEMMA SendStream ==
  ASSUME TypeOK, StreamInv, NEW c \in Checkout, NEW kind \in EventKind, NEW price \in Price,
         Send(kind, c, price), kind = "completed" => price \in PaidPlan,
         \A d \in Checkout \ {c} : sub'[d] = sub[d] /\ pc'[d] = pc[d],
         pc'[c] = "paid",
         \/ /\ kind = "completed" /\ sub[c].state = "none"
            /\ sub'[c].state = "active" /\ sub'[c].price = price
         \/ /\ kind \in {"updated", "invoice"} /\ sub[c].state = "active"
            /\ sub'[c].state = "active" /\ sub'[c].price = price
            /\ kind = "invoice" => price = sub[c].price
         \/ /\ kind = "deleted" /\ sub[c].state = "active"
            /\ sub'[c].state = "ended"
  PROVE  StreamInv'
<1> DEFINE e == [kind |-> kind, sub |-> c, price |-> price]
<1>0. PICK n \in Nat : n = Len(events)
  BY DEF TypeOK
<1>1. /\ events' = Append(events, e) /\ events \in Seq(Event) /\ e \in Event
  BY DEF Send, TypeOK, Event, Price
<1>2. /\ n \in Nat /\ DOMAIN events = 1 .. n
      /\ Len(events') = n + 1 /\ DOMAIN events' = 1 .. n + 1
      /\ \A i \in 1 .. n : events'[i] = events[i]
      /\ events'[n + 1] = e
  BY <1>0, <1>1
<1>3. e.kind = kind /\ e.sub = c /\ e.price = price
  OBVIOUS
<1> HIDE DEF e
<1>4. ASSUME NEW m \in 0 .. n, NEW d \in Checkout
      PROVE  /\ Live(d, m)' <=> Live(d, m)
             /\ \A i \in 1 .. m : Latest(i, d, m)' <=> Latest(i, d, m)
  BY <1>2 DEF Live, Latest, Purchase, Ending
<1>5. ASSUME NEW d \in Checkout \ {c} PROVE StreamOf(d)'
  <2>1. StreamOf(d) /\ sub'[d] = sub[d] /\ pc'[d] = pc[d]
    BY DEF StreamInv
  <2>2. events'[n + 1].sub # d
    BY <1>2, <1>3
  <2>3. Live(d, n) => Live(d, n + 1)'
    BY <1>2, <2>2 DEF Live, Purchase, Ending
  <2>4. \A i \in 1 .. n : Latest(i, d, n) => Latest(i, d, n + 1)'
    BY <1>2, <2>2 DEF Latest
  <2>5. sub'[d].state = "active" =>
          /\ Live(d, Len(events))'
          /\ \E i \in DOMAIN events' : Latest(i, d, Len(events))' /\ events'[i].price = sub'[d].price
    BY <1>0, <1>2, <2>1, <2>3, <2>4 DEF StreamOf
  <2>6. sub'[d].state = "ended" => \E i \in DOMAIN events' : Ending(i, d)'
    BY <1>2, <2>1 DEF StreamOf, Ending
  <2>7. ASSUME NEW i \in DOMAIN events', events'[i].sub = d
        PROVE  /\ sub'[d].state # "none"
               /\ \E j \in 1 .. i : Purchase(j, d)'
               /\ \A j \in DOMAIN events' : i < j /\ Ending(i, d)' => events'[j].sub # d
               /\ events'[i].kind = "invoice"
                    => \E j \in 1 .. i - 1 : Latest(j, d, i - 1)' /\ events'[j].price = events'[i].price
    <3>1. i \in 1 .. n /\ events'[i] = events[i]
      BY <1>2, <2>2, <2>7
    <3>2. \E j \in 1 .. i : Purchase(j, d)'
      BY <1>2, <2>1, <2>7, <3>1 DEF StreamOf, Purchase
    <3>3. \A j \in DOMAIN events' : i < j /\ Ending(i, d)' => events'[j].sub # d
      BY <1>2, <2>1, <2>2, <2>7, <3>1 DEF StreamOf, Ending
    <3>4. events'[i].kind = "invoice"
            => \E j \in 1 .. i - 1 : Latest(j, d, i - 1)' /\ events'[j].price = events'[i].price
      BY <1>2, <1>4, <2>1, <2>7, <3>1 DEF StreamOf
    <3> QED
      BY <1>2, <2>1, <2>7, <3>1, <3>2, <3>3, <3>4 DEF StreamOf
  <2> QED
    BY <2>1, <2>5, <2>6, <2>7 DEF StreamOf
<1>6. StreamOf(c)'
  <2>1. StreamOf(c)
    BY DEF StreamInv
  <2>2. \A i \in 1 .. n : ~Ending(i, c)
    <3>1. CASE sub[c].state = "none"
      BY <1>0, <1>2, <2>1, <3>1 DEF StreamOf, Ending
    <3>2. CASE sub[c].state = "active"
      BY <1>0, <2>1, <3>2 DEF StreamOf, Live
    <3> QED
      BY <3>1, <3>2
  <2>3. Purchase(n + 1, c)' \/ \E j \in 1 .. n : Purchase(j, c) /\ Purchase(j, c)'
    BY <1>0, <1>2, <1>3, <2>1 DEF StreamOf, Live, Purchase
  <2>4. Latest(n + 1, c, n + 1)'
    BY <1>2, <1>3 DEF Latest
  <2>5. sub'[c].state = "active" =>
          /\ Live(c, Len(events))'
          /\ \E i \in DOMAIN events' : Latest(i, c, Len(events))' /\ events'[i].price = sub'[c].price
    <3>1. ASSUME sub'[c].state = "active" PROVE Live(c, n + 1)'
      BY <1>2, <1>3, <2>2, <2>3, <3>1 DEF Live, Purchase, Ending
    <3> QED
      BY <1>2, <1>3, <2>4, <3>1
  <2>6. sub'[c].state = "ended" => Ending(n + 1, c)'
    BY <1>2, <1>3 DEF Ending
  <2>7. ASSUME NEW i \in DOMAIN events', events'[i].sub = c
        PROVE  /\ \E j \in 1 .. i : Purchase(j, c)'
               /\ \A j \in DOMAIN events' : i < j /\ Ending(i, c)' => events'[j].sub # c
               /\ events'[i].kind = "invoice"
                    => \E j \in 1 .. i - 1 : Latest(j, c, i - 1)' /\ events'[j].price = events'[i].price
    <3>1. CASE i \in 1 .. n
      <4>1. events'[i] = events[i]
        BY <1>2, <3>1
      <4>2. \E j \in 1 .. i : Purchase(j, c)'
        BY <1>2, <2>1, <2>7, <3>1, <4>1 DEF StreamOf, Purchase
      <4>3. ~Ending(i, c)'
        BY <2>2, <3>1, <4>1 DEF Ending
      <4>4. events'[i].kind = "invoice"
              => \E j \in 1 .. i - 1 : Latest(j, c, i - 1)' /\ events'[j].price = events'[i].price
        <5>1. i - 1 \in 0 .. n
          BY <1>2, <3>1
        <5>2. ASSUME events[i].kind = "invoice"
              PROVE  \E j \in 1 .. i - 1 : Latest(j, c, i - 1) /\ events[j].price = events[i].price
          BY <1>2, <2>1, <2>7, <3>1, <4>1, <5>2 DEF StreamOf
        <5>3. \A j \in 1 .. i - 1 : /\ Latest(j, c, i - 1)' <=> Latest(j, c, i - 1)
                                    /\ events'[j] = events[j]
          BY <1>2, <1>4, <5>1
        <5> QED
          BY <4>1, <5>2, <5>3
      <4> QED
        BY <4>2, <4>3, <4>4
    <3>2. CASE i = n + 1
      <4>1. \E j \in 1 .. i : Purchase(j, c)'
        BY <1>2, <2>3, <3>2
      <4>2. \A j \in DOMAIN events' : ~(i < j)
        BY <1>2, <3>2
      <4>3. events'[i].kind = "invoice"
              => \E j \in 1 .. n : Latest(j, c, n)' /\ events'[j].price = events'[i].price
        BY <1>0, <1>2, <1>3, <1>4, <2>1, <3>2 DEF StreamOf
      <4>4. i - 1 = n
        BY <1>2, <3>2
      <4> QED
        BY <4>1, <4>2, <4>3, <4>4
    <3> QED
      BY <1>2, <3>1, <3>2
  <2>8. sub'[c].state # "none"
    OBVIOUS
  <2> QED
    BY <1>2, <2>5, <2>6, <2>7, <2>8 DEF StreamOf
<1> QED
  BY <1>5, <1>6 DEF StreamInv

LEMMA StreamStep == TypeOK /\ StreamInv /\ [Next]_vars => StreamInv'
<1> SUFFICES ASSUME TypeOK, StreamInv, [Next]_vars PROVE StreamInv'
  OBVIOUS
<1>1. ASSUME UNCHANGED <<sub, events>>,
             \A c \in Checkout : pc'[c] = "paid" <=> pc[c] = "paid"
      PROVE  StreamInv'
  <2>1. \A c \in Checkout : StreamOf(c)' <=> StreamOf(c)
    <3> SUFFICES ASSUME NEW c \in Checkout PROVE StreamOf(c)' <=> StreamOf(c)
      OBVIOUS
    <3>1. /\ events' = events /\ sub' = sub
          /\ \A k, l : /\ Purchase(k, l)' <=> Purchase(k, l)
                       /\ Ending(k, l)' <=> Ending(k, l)
      BY <1>1 DEF Purchase, Ending
    <3>2. /\ \A l, m : Live(l, m)' <=> Live(l, m)
          /\ \A k, l, m : Latest(k, l, m)' <=> Latest(k, l, m)
      BY <3>1 DEF Live, Latest
    <3> QED
      BY <1>1, <3>1, <3>2 DEF StreamOf
  <2> QED
    BY <2>1 DEF StreamInv
<1>2. ASSUME NEW c \in Checkout,
             \/ Arrive(c) \/ create_checkout_session(c)
             \/ billing_checkout(c) \/ CheckoutFails(c)
      PROVE  StreamInv'
  <2>1. UNCHANGED <<sub, events>>
        /\ \E l \in {"loaded", "opened", "open", "failed"} : pc[c] # "paid" /\ Goto(c, l)
    BY <1>2 DEF Arrive, create_checkout_session, billing_checkout, CheckoutFails, Stripe
  <2>2. \A d \in Checkout : pc'[d] = "paid" <=> pc[d] = "paid"
    BY <2>1 DEF Goto, TypeOK
  <2> QED
    BY <1>1, <2>1, <2>2
<1>3. ASSUME NEW c \in Checkout, Pay(c)
      PROVE  StreamInv'
  <2>1. PICK plan \in PaidPlan :
           /\ sub' = [sub EXCEPT ![c] = [state |-> "active", price |-> plan]]
           /\ Send("completed", c, plan)
    BY <1>3 DEF Pay
  <2>2. sub[c].state = "none"
    BY <1>3 DEF Pay, StreamInv, StreamOf
  <2>3. sub'[c].state = "active" /\ sub'[c].price = plan /\ pc'[c] = "paid"
    BY <1>3, <2>1 DEF Pay, Goto, TypeOK
  <2>4. \A d \in Checkout \ {c} : sub'[d] = sub[d] /\ pc'[d] = pc[d]
    BY <1>3, <2>1 DEF Pay, Goto, TypeOK
  <2>5. "completed" \in EventKind /\ plan \in Price
    BY DEF EventKind, Price
  <2> QED
    BY <2>1, <2>2, <2>3, <2>4, <2>5, SendStream
<1>4. ASSUME NEW c \in Checkout, sub[c].state = "active" PROVE pc[c] = "paid"
  BY <1>4 DEF StreamInv, StreamOf
<1>5. ASSUME NEW c \in Checkout, Update(c)
      PROVE  StreamInv'
  <2>1. PICK price \in Price :
           /\ sub' = [sub EXCEPT ![c].price = price]
           /\ Send("updated", c, price)
    BY <1>5 DEF Update
  <2>2. sub[c].state = "active" /\ pc' = pc
    BY <1>5 DEF Update, Route
  <2>3. sub'[c].state = "active" /\ sub'[c].price = price
    BY <2>1, <2>2 DEF TypeOK
  <2>4. \A d \in Checkout \ {c} : sub'[d] = sub[d]
    BY <2>1 DEF TypeOK
  <2>5. "updated" \in EventKind
    BY DEF EventKind
  <2> QED
    BY <1>4, <2>1, <2>2, <2>3, <2>4, <2>5, SendStream
<1>6. ASSUME NEW c \in Checkout, Cancel(c)
      PROVE  StreamInv'
  <2>1. sub' = [sub EXCEPT ![c].state = "ended"] /\ Send("deleted", c, sub[c].price)
    BY <1>6 DEF Cancel
  <2>2. sub[c].state = "active" /\ sub[c].price \in Price /\ pc' = pc
    BY <1>6 DEF Cancel, Route, TypeOK
  <2>3. sub'[c].state = "ended" /\ \A d \in Checkout \ {c} : sub'[d] = sub[d]
    BY <2>1 DEF TypeOK
  <2>4. "deleted" \in EventKind
    BY DEF EventKind
  <2> QED
    BY <1>4, <2>1, <2>2, <2>3, <2>4, SendStream
<1>7. ASSUME NEW c \in Checkout, Invoice(c)
      PROVE  StreamInv'
  <2>1. Send("invoice", c, sub[c].price) /\ sub' = sub /\ pc' = pc /\ sub[c].state = "active"
    BY <1>7 DEF Invoice, Route
  <2>2. sub[c].price \in Price /\ "invoice" \in EventKind
    BY DEF TypeOK, EventKind
  <2> QED
    BY <1>4, <2>1, <2>2, SendStream
<1>8. ASSUME NEW i \in DOMAIN events, Deliver(i) \/ CrashAfterRecord(i)
      PROVE  StreamInv'
  BY <1>1, <1>8
  DEF Deliver, handle_webhook, HandlerRaises, AlreadyProcessed, CrashAfterRecord, Route, Stripe, vars
<1>9. CASE CounterWritten
  BY <1>1, <1>9 DEF CounterWritten, Route, Stripe
<1>10. CASE UNCHANGED vars
  BY <1>1, <1>10 DEF vars
<1> QED
  BY <1>2, <1>3, <1>5, <1>6, <1>7, <1>8, <1>9, <1>10 DEF Next

(* The mirror stays as it is when nothing it speaks of moves. *)
LEMMA MirrorKeeps ==
  ASSUME TypeOK, MirrorInv, UNCHANGED <<recorded, processed>>,
         UNCHANGED <<org.plan, org.subscription>>,
         Delivered(Len(recorded))' =>
            1 .. Len(recorded) = {} \/ org'.customer = org.customer,
         \A i \in 1 .. Len(recorded) :
            events'[i] = events[i] /\ session'[events[i].sub] = session[events[i].sub]
  PROVE  MirrorInv'
<1>1. PICK n \in Nat : n = Len(recorded)
  <2>1. recorded \in Seq(DOMAIN events)
    BY DEF TypeOK
  <2> QED
    BY <2>1
<1> SUFFICES ASSUME Delivered(n)' PROVE Mirror(n)'
  BY <1>1 DEF MirrorInv
<1>2. \A c \in Checkout : /\ Live(c, n)' <=> Live(c, n)
                          /\ \A i \in 1 .. n : Latest(i, c, n)' <=> Latest(i, c, n)
  BY <1>1 DEF Live, Latest, Purchase, Ending
<1>3. Delivered(n)
  <2>1. /\ recorded = [k \in 1 .. n |-> k]
        /\ 1 .. n \subseteq processed
        /\ \A i \in 1 .. n : events[i].price \in PaidPlan
    BY <1>1 DEF Delivered
  <2>2. \A i \in 1 .. n : session[events[i].sub] = org.customer
    BY <1>1 DEF Delivered
  <2>3. \A i, j \in 1 .. n :
          i < j /\ events[i].kind = "completed" /\ events[j].kind = "completed"
            => \E d \in i .. j : Ending(d, events[i].sub)
    <3> SUFFICES ASSUME NEW i \in 1 .. n, NEW j \in 1 .. n, i < j,
                        events[i].kind = "completed", events[j].kind = "completed"
                 PROVE  \E d \in i .. j : Ending(d, events[i].sub)
      OBVIOUS
    <3>1. events'[i] = events[i] /\ events'[j] = events[j]
      BY <1>1
    <3>2. PICK d \in i .. j : events'[d].sub = events'[i].sub /\ events'[d].kind = "deleted"
      BY <3>1 DEF Delivered, Ending
    <3>3. events'[d] = events[d]
      BY <1>1
    <3> QED
      BY <3>1, <3>2, <3>3 DEF Ending
  <2> QED
    BY <2>1, <2>2, <2>3 DEF Delivered
<1>4. Mirror(n)
  BY <1>1, <1>3 DEF MirrorInv
<1> QED
  BY <1>1, <1>2, <1>4 DEF Mirror

(* A delivery that is in order once event i is recorded was so before, and  *)
(* i is the next event.                                                     *)
LEMMA NextInOrder ==
  ASSUME TypeOK, NEW i \in DOMAIN events, Record(i), UNCHANGED <<session, events>>,
         org'.customer = org.customer, processed' \subseteq processed \cup {i},
         NEW n \in Nat, n = Len(recorded), Delivered(n + 1)'
  PROVE  Delivered(n) /\ i = n + 1 /\ i \in processed'
<1>1. /\ recorded' = Append(recorded, i) /\ recorded \in Seq(DOMAIN events)
      /\ recorded' = [k \in 1 .. n + 1 |-> k]
  BY DEF Record, TypeOK, Delivered
<1>2. /\ recorded'[n + 1] = i
      /\ \A k \in 1 .. n : recorded'[k] = recorded[k]
  <2>1. Append(recorded, i)[n + 1] = i /\ \A k \in 1 .. n : Append(recorded, i)[k] = recorded[k]
    <3>1. recorded \in Seq(DOMAIN events) /\ n = Len(recorded)
      BY <1>1
    <3> QED
      BY <3>1
  <2>2. recorded' = Append(recorded, i)
    BY <1>1
  <2> QED
    BY <2>1, <2>2, Zenon
<1>3. i = n + 1 /\ i \in processed'
  BY <1>1, <1>2 DEF Delivered
<1>4. recorded = [k \in 1 .. n |-> k]
  <2>1. recorded \in [1 .. n -> DOMAIN events]
    BY <1>1
  <2>2. \A k \in 1 .. n : recorded'[k] = k
    BY <1>1
  <2>3. \A k \in 1 .. n : recorded[k] = k
    BY <1>2, <2>2
  <2> QED
    BY <2>1, <2>3
<1>5. 1 .. n \subseteq processed
  BY <1>3 DEF Delivered
<1>6. \A k \in 1 .. n : session[events[k].sub] = org.customer /\ events[k].price \in PaidPlan
  BY DEF Delivered
<1>7. \A k, j \in 1 .. n :
        k < j /\ events[k].kind = "completed" /\ events[j].kind = "completed"
          => \E d \in k .. j : Ending(d, events[k].sub)
  BY DEF Delivered, Ending
<1> QED
  BY <1>3, <1>4, <1>5, <1>6, <1>7 DEF Delivered

(* The next event in order, handled while the earlier ones are mirrored,    *)
(* is mirrored too.                                                         *)
LEMMA MirrorNext ==
  ASSUME TypeOK, StreamInv, NEW n \in Nat, Mirror(n), n + 1 \in DOMAIN events,
         UNCHANGED events, Delivered(n + 1)',
         org' = Dispatch(events[n + 1])
  PROVE  Mirror(n + 1)'
<1>0. PICK e \in Event : e = events[n + 1]
  BY DEF TypeOK
<1>1. PICK c \in Checkout : c = e.sub
  BY DEF Event
<1>2. /\ \A i \in 1 .. n : i \in DOMAIN events /\ i < n + 1
      /\ e.price \in PaidPlan /\ org \in Org
      /\ e.kind \in EventKind
  BY <1>0 DEF TypeOK, Delivered, Org, Event, EventKind
<1>3. /\ \A d \in Checkout : /\ Live(d, n + 1)' <=> Live(d, n + 1)
                             /\ \A i : Latest(i, d, n + 1)' <=> Latest(i, d, n + 1)
      /\ \A i \in 1 .. n + 1 : events'[i] = events[i]
  BY DEF Live, Latest, Purchase, Ending
<1>4. \A d \in Checkout : Live(d, n + 1) => d = c \/ Live(d, n)
  BY <1>0, <1>1 DEF Live, Purchase, Ending
<1>5. \A i \in 1 .. n + 1 : Latest(i, c, n + 1) => i = n + 1
  BY <1>0, <1>1 DEF Latest
<1>6. ASSUME NEW i \in 1 .. n PROVE ~Ending(i, c)
  <2>1. i \in DOMAIN events /\ i < n + 1 /\ events[n + 1].sub = c
    BY <1>0, <1>1, <1>2
  <2> QED
    BY <2>1 DEF StreamInv, StreamOf, Ending
<1>7. ASSUME e.kind # "completed" PROVE Live(c, n) /\ \A d \in Checkout : Live(d, n) => d = c
  <2>1. PICK j \in 1 .. n + 1 : Purchase(j, c)
    BY <1>0, <1>1 DEF StreamInv, StreamOf
  <2>2. j \in 1 .. n
    BY <1>0, <1>7, <2>1 DEF Purchase
  <2>3. Live(c, n)
    BY <1>6, <2>1, <2>2 DEF Live
  <2> QED
    BY <2>3 DEF Mirror
<1>8. CASE e.kind = "completed"
  <2>1. ASSUME NEW d \in Checkout, Live(d, n) PROVE FALSE
    <3>1. PICK i \in 1 .. n : Purchase(i, d)
      BY <2>1 DEF Live
    <3>2. i < n + 1 /\ events[i].kind = "completed" /\ events[n + 1].kind = "completed"
      BY <1>0, <1>8, <3>1 DEF Purchase
    <3>3. PICK k \in i .. n + 1 : Ending(k, events[i].sub)'
      BY <3>2 DEF Delivered
    <3>4. events[k].sub = d /\ events[k].kind = "deleted"
      BY <3>1, <3>3 DEF Ending, Purchase
    <3>5. k \in 1 .. n
      BY <1>0, <1>8, <3>4
    <3> QED
      BY <2>1, <3>4, <3>5 DEF Live, Ending
  <2>2. Live(c, n + 1)
    BY <1>0, <1>1, <1>6, <1>8 DEF Live, Purchase, Ending
  <2>3. org'.subscription = c /\ org'.plan = e.price
    BY <1>0, <1>1, <1>2, <1>8, DispatchExact
  <2> QED
    BY <1>0, <1>3, <1>4, <1>5, <2>1, <2>2, <2>3 DEF Mirror
<1>9. CASE e.kind = "updated"
  <2>1. Live(c, n + 1)
    BY <1>0, <1>6, <1>7, <1>9 DEF Live, Ending
  <2>2. org'.subscription = c /\ org'.plan = e.price
    BY <1>0, <1>1, <1>2, <1>9, DispatchExact
  <2> QED
    BY <1>0, <1>3, <1>4, <1>5, <1>7, <1>9, <2>1, <2>2 DEF Mirror
<1>10. CASE e.kind = "invoice"
  <2>1. Live(c, n + 1)
    BY <1>0, <1>6, <1>7, <1>10 DEF Live, Ending
  <2>2. org' = org /\ org.subscription = c
    BY <1>0, <1>2, <1>7, <1>10, DispatchExact DEF Mirror
  <2>3. PICK j \in 1 .. (n + 1) - 1 :
           Latest(j, c, (n + 1) - 1) /\ events[j].price = events[n + 1].price
    BY <1>0, <1>1, <1>10 DEF StreamInv, StreamOf
  <2>4. (n + 1) - 1 = n
    OBVIOUS
  <2>5. org.plan = e.price
    BY <1>0, <1>7, <1>10, <2>3, <2>4 DEF Mirror
  <2> QED
    BY <1>0, <1>3, <1>4, <1>5, <1>7, <1>10, <2>1, <2>2, <2>5 DEF Mirror
<1>11. CASE e.kind = "deleted"
  <2>1. \A d \in Checkout : ~Live(d, n + 1)
    <3>1. ~Live(c, n + 1)
      BY <1>0, <1>1, <1>11 DEF Live, Ending
    <3> QED
      BY <1>4, <1>7, <1>11, <3>1
  <2>2. org'.subscription = None /\ org'.plan = "free"
    BY <1>0, <1>2, <1>11, DispatchExact
  <2> QED
    BY <1>3, <2>1, <2>2 DEF Mirror
<1> QED
  BY <1>2, <1>8, <1>9, <1>10, <1>11 DEF EventKind

LEMMA MirrorStep ==
  TypeOK /\ CustomerInv /\ StreamInv /\ MirrorInv /\ [Next]_vars => MirrorInv'
<1> SUFFICES ASSUME TypeOK, CustomerInv, StreamInv, MirrorInv, [Next]_vars
             PROVE  MirrorInv'
  OBVIOUS
<1>0. /\ Len(recorded) \in Nat
      /\ org \in Org
  BY DEF TypeOK, Org
<1>1. ASSUME NEW i \in DOMAIN events
      PROVE  /\ events[i].sub \in Checkout
             /\ pc[events[i].sub] = "paid"
  BY <1>1 DEF TypeOK, Event, StreamInv, StreamOf
<1>2. ASSUME Delivered(Len(recorded))', UNCHANGED recorded
      PROVE  \A i \in 1 .. Len(recorded) : i \in DOMAIN events
  <2>1. recorded = [k \in 1 .. Len(recorded) |-> k] /\ recorded \in Seq(DOMAIN events)
    BY <1>2 DEF Delivered, TypeOK
  <2>2. \A i \in 1 .. Len(recorded) : recorded[i] = i /\ recorded[i] \in DOMAIN events
    BY <2>1
  <2> QED
    BY <2>2
<1>3. ASSUME NEW c \in Checkout, UNCHANGED <<events, recorded, processed, org.plan, org.subscription>>,
             pc[c] # "paid", \A d \in Checkout \ {c} : session'[d] = session[d],
             org'.customer = org.customer
      PROVE  MirrorInv'
  <2> SUFFICES ASSUME Delivered(Len(recorded))' PROVE MirrorInv'
    BY <1>3 DEF MirrorInv
  <2>1. \A i \in 1 .. Len(recorded) : session'[events[i].sub] = session[events[i].sub]
    BY <1>1, <1>2, <1>3
  <2> QED
    BY <1>3, <2>1, MirrorKeeps
<1>4. ASSUME NEW c \in Checkout, Arrive(c) \/ create_checkout_session(c) \/ CheckoutFails(c)
      PROVE  MirrorInv'
  <2>1. UNCHANGED <<org, events, recorded, processed>> /\ pc[c] # "paid"
    BY <1>4 DEF Arrive, create_checkout_session, CheckoutFails, Stripe, Webhook
  <2>2. \A d \in Checkout \ {c} : session'[d] = session[d]
    BY <1>4 DEF Arrive, create_checkout_session, CheckoutFails, TypeOK
  <2> QED
    BY <1>3, <2>1, <2>2
<1>5. ASSUME NEW c \in Checkout, billing_checkout(c)
      PROVE  MirrorInv'
  <2>1. /\ UNCHANGED <<session, events, recorded, processed>> /\ pc[c] = "opened"
        /\ UNCHANGED <<org.plan, org.subscription>>
        /\ org'.customer = IF read[c] = None THEN session[c] ELSE org.customer
    BY <1>0, <1>5 DEF billing_checkout, Stripe, Webhook, Org
  <2>2. CASE read[c] # None
    BY <1>3, <2>1, <2>2
  <2>3. CASE read[c] = None
    <3>1. org'.customer = c
      BY <2>1, <2>3 DEF CustomerInv, ensure_customer
    <3>2. ASSUME Delivered(Len(recorded))', NEW i \in 1 .. Len(recorded) PROVE FALSE
      <4>1. i \in DOMAIN events
        BY <1>2, <2>1, <3>2
      <4>2. session[events[i].sub] = c
        BY <2>1, <3>1, <3>2 DEF Delivered
      <4>3. events[i].sub # c /\ session[events[i].sub] \notin {None, events[i].sub}
        BY <1>1, <2>1, <4>1, <4>2, NoneAssumption
      <4> QED
        BY <1>1, <2>1, <4>1, <4>2, <4>3 DEF CustomerInv, Committed
    <3> QED
      BY <2>1, <3>2, MirrorKeeps
  <2> QED
    BY <2>2, <2>3
<1>6. ASSUME NEW c \in Checkout, Pay(c) \/ Update(c) \/ Cancel(c) \/ Invoice(c)
      PROVE  MirrorInv'
  <2>1. \E kind \in EventKind, price \in Price :
          /\ kind = "completed" => price \in PaidPlan
          /\ Send(kind, c, price)
    BY <1>6 DEF Pay, Update, Cancel, Invoice, TypeOK, EventKind, Price
  <2>2. \A i \in DOMAIN events : events'[i] = events[i]
    BY <2>1, SendType
  <2>3. UNCHANGED <<org, recorded, processed, session>>
    BY <1>6 DEF Pay, Update, Cancel, Invoice, Webhook, Route
  <2> SUFFICES ASSUME Delivered(Len(recorded))' PROVE MirrorInv'
    BY <2>3 DEF MirrorInv
  <2> QED
    BY <1>2, <2>2, <2>3, MirrorKeeps
<1>7. ASSUME NEW i \in DOMAIN events, handle_webhook(i) \/ HandlerRaises(i) \/ CrashAfterRecord(i)
      PROVE  MirrorInv'
  <2>1. PICK n \in Nat : n = Len(recorded)
    BY <1>0
  <2>2. Record(i) /\ UNCHANGED <<session, events>> /\ processed' \subseteq processed \cup {i}
    BY <1>7 DEF handle_webhook, HandlerRaises, CrashAfterRecord, Stripe, Route
  <2>3. Len(recorded') = n + 1
    BY <2>1, <2>2 DEF Record, TypeOK
  <2> SUFFICES ASSUME Delivered(n + 1)' PROVE Mirror(n + 1)'
    BY <2>3 DEF MirrorInv
  <2>4. org' \in {org, Dispatch(events[i])} /\ org'.customer = org.customer
    <3>1. events[i] \in Event
      BY DEF TypeOK
    <3>2. org' \in {org, Dispatch(events[i])}
      BY <1>7 DEF handle_webhook, HandlerRaises, CrashAfterRecord
    <3> QED
      BY <1>0, <3>1, <3>2, DispatchExact
  <2>5. Delivered(n) /\ i = n + 1 /\ i \in processed'
    BY <2>1, <2>2, <2>4, NextInOrder
  <2>6. i \notin processed
    BY <2>2 DEF TypeOK, Record, IntegrityError
  <2>7. handle_webhook(i)
    BY <1>7, <2>5, <2>6 DEF HandlerRaises, CrashAfterRecord
  <2>8. _find_org_by_customer(events[i])
    BY <2>2, <2>4, <2>5 DEF Delivered, _find_org_by_customer
  <2>9. org' = Dispatch(events[n + 1])
    BY <2>5, <2>7, <2>8 DEF handle_webhook
  <2>10. Mirror(n)
    BY <2>1, <2>5 DEF MirrorInv
  <2> QED
    BY <2>2, <2>5, <2>9, <2>10, MirrorNext
<1>8. CASE CounterWritten
  <2>1. UNCHANGED <<org.plan, org.subscription, org.customer>>
    BY <1>0, <1>8 DEF CounterWritten, Org
  <2> QED
    BY <1>8, <2>1, MirrorKeeps DEF CounterWritten, Route, Stripe, Webhook
<1>9. CASE UNCHANGED vars
  BY <1>9, MirrorKeeps DEF vars
<1> QED
  BY <1>4, <1>5, <1>6, <1>7, <1>8, <1>9 DEF Next, Deliver, AlreadyProcessed

(* For any number of checkouts, events, updates and crashes: if the events  *)
(* of the organization's one customer arrived in order and were all         *)
(* handled, nobody subscribed twice and the prices are known, the           *)
(* organization shows the live subscription and its plan, or free.          *)
THEOREM OrganizationMirrorsStripe == Spec => []MirrorsStripe
<1>1. TypeOK /\ StreamInv /\ MirrorInv => MirrorsStripe
  <2> SUFFICES ASSUME TypeOK, StreamInv, MirrorInv,
                      InOrder, OneCustomer, OneSubscription, KnownPrices
               PROVE  /\ \A c \in Checkout : sub[c].state = "active"
                           => org.subscription = c /\ org.plan = sub[c].price
                      /\ (\A c \in Checkout : sub[c].state # "active")
                           => org.subscription = None /\ org.plan = "free"
    BY DEF MirrorsStripe
  <2>1. PICK n \in Nat : n = Len(events)
    BY DEF TypeOK
  <2>2. recorded = [k \in 1 .. n |-> k] /\ Len(recorded) = n /\ DOMAIN events = 1 .. n
    BY <2>1 DEF InOrder, TypeOK
  <2>3. Delivered(n)
    BY <2>2 DEF Delivered, InOrder, OneCustomer, OneSubscription, KnownPrices, Ending
  <2>4. Mirror(n)
    BY <2>2, <2>3 DEF MirrorInv
  <2>5. ASSUME NEW c \in Checkout, sub[c].state = "active"
        PROVE  org.subscription = c /\ org.plan = sub[c].price
    <3>1. /\ Live(c, n)
          /\ \E i \in 1 .. n : Latest(i, c, n) /\ events[i].price = sub[c].price
      BY <2>1, <2>2, <2>5 DEF StreamInv, StreamOf
    <3> QED
      BY <2>4, <3>1 DEF Mirror
  <2>6. ASSUME NEW c \in Checkout, sub[c].state # "active"
        PROVE  ~Live(c, n)
    <3>1. CASE sub[c].state = "none"
      BY <2>2, <3>1 DEF StreamInv, StreamOf, Live, Purchase
    <3>2. CASE sub[c].state = "ended"
      BY <2>2, <3>2 DEF StreamInv, StreamOf, Live
    <3> QED
      BY <2>6, <3>1, <3>2 DEF TypeOK
  <2> QED
    BY <2>4, <2>5, <2>6 DEF Mirror
<1> QED
  BY <1>1, InitMirror, CustomerStep, StreamStep, MirrorStep, BillingTypeCorrect, PTL DEF Spec
============================================================================

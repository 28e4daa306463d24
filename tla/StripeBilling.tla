---------------------------- MODULE StripeBilling ----------------------------
(***************************************************************************)
(* How an organization gets, changes and loses a paid plan: the checkout   *)
(* route (backend/routes/billing.py), the customer it creates, and the     *)
(* webhooks Stripe sends back (backend/stripe_service.py).                 *)
(*                                                                         *)
(* Stripe delivers every event at least once, in any order.  The webhook   *)
(* is a coroutine that does not yield while it handles an event; checkouts *)
(* run in worker threads, so two of them may interleave.  Stripe itself    *)
(* is modelled from what the code asks of it and what its events carry.    *)
(***************************************************************************)
EXTENDS Naturals, Sequences

CONSTANTS Checkout,   \* the checkout requests; each opens at most one session
          None,       \* NULL
          MaxEvents,  \* bound: events Stripe sends
          MaxUsed,    \* bound: values of the counter
          MaxFaults   \* bound: process crashes

ASSUME NoneAssumption == None \notin Checkout
ASSUME BillingBounds == /\ MaxEvents \in Nat
                        /\ MaxUsed \in Nat
                        /\ MaxFaults \in Nat

PaidPlan == {"pro", "business"}
Plan     == PaidPlan \cup {"free"}
Price    == PaidPlan \cup {"other"}   \* a price may be unknown to the settings

(* The session a checkout opens, the subscription paid through it and, if   *)
(* it had to create one, the Stripe customer are all named by the checkout. *)
VARIABLES
  org,        \* the organizations row: customer, subscription, plan, used
  pc,         \* how far each checkout is
  read,       \* the customer id in the session's copy of the organization
  session,    \* the customer each Stripe checkout session belongs to
  sub,        \* Stripe's subscriptions: state and price
  events,     \* the events Stripe has created, in order
  recorded,   \* the webhook_events table, in order of received_at
  processed,  \* the events whose processed_at is stamped
  faults      \* how many times the process has crashed

vars == <<org, pc, read, session, sub, events, recorded, processed, faults>>

Stripe  == <<sub, events>>
Webhook == <<recorded, processed>>
Route   == <<pc, read, session>>

EventKind == {"completed", "updated", "deleted", "invoice"}
Event == [kind : EventKind, sub : Checkout, price : PaidPlan]
           \cup [kind : EventKind \ {"completed"}, sub : Checkout, price : {"other"}]

Init == /\ org = [customer |-> None, subscription |-> None, plan |-> "free", used |-> 0]
        /\ pc = [c \in Checkout |-> "idle"]
        /\ read = [c \in Checkout |-> None]
        /\ session = [c \in Checkout |-> None]
        /\ sub = [c \in Checkout |-> [state |-> "none", price |-> "other"]]
        /\ events = <<>>
        /\ recorded = <<>>
        /\ processed = {}
        /\ faults = 0

-----------------------------------------------------------------------------
(* POST /billing/checkout, in a worker thread.  Requests it turns away      *)
(* (unverified address, unknown plan, no price configured) touch nothing.   *)

Goto(c, label) == pc' = [pc EXCEPT ![c] = label]

Arrive(c) ==
  /\ pc[c] = "idle"
  /\ Goto(c, "loaded")
  /\ read' = [read EXCEPT ![c] = org.customer]
  /\ UNCHANGED <<org, session, Stripe, Webhook, faults>>

(* The customer the copy names, or a new one. *)
ensure_customer(c) == IF read[c] # None THEN read[c] ELSE c

create_checkout_session(c) ==
  /\ pc[c] = "loaded"
  /\ session' = [session EXCEPT ![c] = ensure_customer(c)]
  /\ Goto(c, "opened")
  /\ UNCHANGED <<org, read, Stripe, Webhook, faults>>

(* The commit writes the customer id only if this request set it; then the  *)
(* browser gets the address of the session.                                 *)
billing_checkout(c) ==
  /\ pc[c] = "opened"
  /\ org' = IF read[c] = None THEN [org EXCEPT !.customer = session[c]] ELSE org
  /\ Goto(c, "open")
  /\ read' = [read EXCEPT ![c] = None]
  /\ UNCHANGED <<session, Stripe, Webhook, faults>>

(* A call to Stripe fails, or the process dies: nothing is committed, a     *)
(* customer just created is forgotten, the session's address never reaches  *)
(* the browser.                                                             *)
CheckoutFails(c) ==
  /\ pc[c] \in {"loaded", "opened"}
  /\ Goto(c, "failed")
  /\ read' = [read EXCEPT ![c] = None]
  /\ session' = [session EXCEPT ![c] = None]
  /\ UNCHANGED <<org, Stripe, Webhook, faults>>

-----------------------------------------------------------------------------
(* Stripe. *)

Send(kind, c, price) ==
  /\ Len(events) < MaxEvents
  /\ events' = Append(events, [kind |-> kind, sub |-> c, price |-> price])

(* The user pays; the session's metadata carries the plan that was asked    *)
(* for, which matters only from now on.                                     *)
Pay(c) ==
  /\ pc[c] = "open"
  /\ Goto(c, "paid")
  /\ \E plan \in PaidPlan :
       /\ sub' = [sub EXCEPT ![c] = [state |-> "active", price |-> plan]]
       /\ Send("completed", c, plan)
  /\ UNCHANGED <<org, read, session, Webhook, faults>>

(* The plan is switched in the portal or the dashboard, or something else   *)
(* about the subscription changes.                                          *)
Update(c) ==
  /\ sub[c].state = "active"
  /\ \E price \in Price :
       /\ sub' = [sub EXCEPT ![c].price = price]
       /\ Send("updated", c, price)
  /\ UNCHANGED <<org, Route, Webhook, faults>>

(* Cancelled by the user, or by Stripe after failed payments. *)
Cancel(c) ==
  /\ sub[c].state = "active"
  /\ sub' = [sub EXCEPT ![c].state = "ended"]
  /\ Send("deleted", c, sub[c].price)
  /\ UNCHANGED <<org, Route, Webhook, faults>>

(* A payment succeeds or fails, or an event nothing is dispatched for. *)
Invoice(c) ==
  /\ sub[c].state = "active"
  /\ Send("invoice", c, sub[c].price)
  /\ UNCHANGED <<org, sub, Route, Webhook, faults>>

-----------------------------------------------------------------------------
(* POST /webhooks/stripe *)

(* The event belongs to the customer the organization is linked to. *)
_find_org_by_customer(e) == org.customer = session[e.sub]

(* Bug: the price of the checkout is ignored. *)
Bug_always_fallback(o, plan) == [o EXCEPT !.plan = "pro", !.used = 0]

_apply_plan_to_org(o, plan) == [o EXCEPT !.plan = plan, !.used = 0]

_on_checkout_completed(e) ==
  _apply_plan_to_org([org EXCEPT !.subscription = e.sub], e.price)

(* Bug: the plan is applied again whatever changed. *)
Bug_update_always_applies(e) ==
  IF e.price \notin PaidPlan THEN org
  ELSE _apply_plan_to_org([org EXCEPT !.subscription = e.sub], e.price)

(* Bug: the price is not looked up. *)
Bug_unknown_price_applied(e) ==
  [(IF e.price # org.plan THEN _apply_plan_to_org(org, e.price) ELSE org)
     EXCEPT !.subscription = e.sub]

(* A price the settings do not know is ignored; the same plan keeps its     *)
(* counter.                                                                 *)
_on_subscription_updated(e) ==
  IF e.price \notin PaidPlan THEN org
  ELSE [(IF e.price # org.plan THEN _apply_plan_to_org(org, e.price) ELSE org)
          EXCEPT !.subscription = e.sub]

(* Bug: the cancelled subscription stays linked. *)
Bug_deleted_keeps_plan(e) == [org EXCEPT !.subscription = None]

_on_subscription_deleted(e) ==
  [_apply_plan_to_org(org, "free") EXCEPT !.subscription = None]

(* What the handler of the event makes of the organization. *)
Dispatch(e) ==
  CASE e.kind = "completed" -> _on_checkout_completed(e)
    [] e.kind = "updated"   -> _on_subscription_updated(e)
    [] e.kind = "deleted"   -> _on_subscription_deleted(e)
    [] OTHER                -> org

(* Bug: the idempotency row is not keyed by the event. *)
Bug_no_event_key(i) == FALSE

(* The primary key of webhook_events. *)
IntegrityError(i) == \E k \in DOMAIN recorded : recorded[k] = i

(* The event is recorded, and the commit of the record is a step the rest   *)
(* of the handler may not follow.                                           *)
Record(i) == /\ ~IntegrityError(i)
             /\ recorded' = Append(recorded, i)

handle_webhook(i) ==
  /\ Record(i)
  /\ org' = IF _find_org_by_customer(events[i]) THEN Dispatch(events[i]) ELSE org
  /\ processed' = processed \cup {i}
  /\ UNCHANGED <<Route, Stripe, faults>>

(* The receipt cannot be sent: logged, acknowledged, not stamped. *)
HandlerRaises(i) ==
  /\ events[i].kind = "invoice"
  /\ _find_org_by_customer(events[i])
  /\ Record(i)
  /\ UNCHANGED <<org, processed, Route, Stripe, faults>>

(* A second delivery is acknowledged and does nothing. *)
AlreadyProcessed(i) ==
  /\ IntegrityError(i)
  /\ UNCHANGED vars

(* The process dies between the commit that records an event and the       *)
(* commit that applies it, or the second commit fails.                      *)
CrashAfterRecord(i) ==
  /\ faults < MaxFaults
  /\ faults' = faults + 1
  /\ Record(i)
  /\ UNCHANGED <<org, processed, Route, Stripe>>

(* The pipeline writes the counter meanwhile: a charge, a window that has    *)
(* elapsed, a refund, or a value computed from an older one                 *)
(* (ExtractionPipeline says which).                                         *)
CounterWritten ==
  /\ \E used \in 0 .. MaxUsed : org' = [org EXCEPT !.used = used]
  /\ UNCHANGED <<Route, Stripe, Webhook, faults>>

-----------------------------------------------------------------------------
Deliver(i) == handle_webhook(i) \/ HandlerRaises(i) \/ AlreadyProcessed(i)

Next == \/ \E c \in Checkout :
             \/ Arrive(c)
             \/ create_checkout_session(c)
             \/ billing_checkout(c)
             \/ CheckoutFails(c)
             \/ Pay(c)
             \/ Update(c)
             \/ Cancel(c)
             \/ Invoice(c)
        \/ \E i \in DOMAIN events : Deliver(i) \/ CrashAfterRecord(i)
        \/ CounterWritten

Spec == Init /\ [][Next]_vars

-----------------------------------------------------------------------------
(* Properties. *)

(* Every variable has its type; the events and their records are indexed    *)
(* consistently.                                                            *)
TypeOK == /\ org \in [customer : Checkout \cup {None}, subscription : Checkout \cup {None},
                      plan : Plan, used : Nat]
          /\ pc \in [Checkout -> {"idle", "loaded", "opened", "open", "paid", "failed"}]
          /\ read \in [Checkout -> Checkout \cup {None}]
          /\ session \in [Checkout -> Checkout \cup {None}]
          /\ sub \in [Checkout -> [state : {"none", "active", "ended"}, price : Price]]
          /\ events \in Seq(Event)
          /\ recorded \in Seq(DOMAIN events)
          /\ processed \subseteq {recorded[k] : k \in DOMAIN recorded}
          /\ faults \in Nat

(* Whatever order, duplicates and crashes: a paid plan is one for which the *)
(* linked subscription was bought or switched to, by a session of this      *)
(* organization, and an organization without a linked subscription is on    *)
(* the free plan.                                                           *)
PlanWasPaidFor ==
  IF org.subscription = None THEN org.plan = "free"
  ELSE \E k \in DOMAIN recorded :
          LET e == events[recorded[k]] IN
          /\ e.kind \in {"completed", "updated"}
          /\ e.sub = org.subscription
          /\ e.price = org.plan

(* A delivery of an event that was delivered before changes nothing: plan   *)
(* and subscription move, and a webhook moves the counter, only with an     *)
(* event seen for the first time.                                           *)
EventsApplyOnce ==
  [][(\/ <<org.plan, org.subscription>>' # <<org.plan, org.subscription>>
      \/ recorded' # recorded /\ org'.used # org.used)
       => \E i \in DOMAIN events :
             /\ \A k \in DOMAIN recorded : recorded[k] # i
             /\ recorded' = Append(recorded, i)
             /\ i \in processed']_vars

(* A webhook that leaves the plan as it is starts the counter afresh only   *)
(* for a purchase or the end of a subscription, never because something     *)
(* else about the subscription changed (stripe_service.py:249).             *)
NoFreeRefill ==
  [][recorded' # recorded /\ org'.used < org.used /\ org'.plan = org.plan
       => \E i \in DOMAIN events :
             /\ recorded' = Append(recorded, i)
             /\ events[i].kind \in {"completed", "deleted"}]_vars

(* Ideal conditions: every event of the organization's one customer was     *)
(* first delivered in order, every handler ran, nobody subscribed twice.    *)
InOrder == /\ recorded = [k \in 1 .. Len(events) |-> k]
           /\ DOMAIN events \subseteq processed
OneCustomer == \A i \in DOMAIN events : session[events[i].sub] = org.customer
OneSubscription ==
  \A i, j \in DOMAIN events :
     i < j /\ events[i].kind = "completed" /\ events[j].kind = "completed"
       => \E d \in i .. j : events[d].kind = "deleted" /\ events[d].sub = events[i].sub
KnownPrices == \A i \in DOMAIN events : events[i].price \in PaidPlan

(* Under those conditions, and none can be dropped, the organization shows  *)
(* what Stripe bills: the live subscription and its plan, or free.          *)
MirrorsStripe ==
  InOrder /\ OneCustomer /\ OneSubscription /\ KnownPrices
    => /\ \A c \in Checkout : sub[c].state = "active"
            => org.subscription = c /\ org.plan = sub[c].price
       /\ (\A c \in Checkout : sub[c].state # "active")
            => org.subscription = None /\ org.plan = "free"
=============================================================================

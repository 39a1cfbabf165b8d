------------------------------- MODULE Billing -------------------------------
(***************************************************************************)
(* A restaurant's subscription: modules/billing/billing.service.ts, the    *)
(* webhook app/api/webhooks/stripe/billing/route.ts, the owner's page and  *)
(* actions (dashboard/[tenantSlug]/billing) and the operator's plan change *)
(* (app/admin/actions.ts, plan-control.tsx, platform.repository.ts). One   *)
(* restaurant; Stripe is modelled from how the code uses it.               *)
(*                                                                         *)
(* Every SQL statement and every call to Stripe is a step of its own, so   *)
(* owners' calls, deliveries of events and the operator interleave between *)
(* them. The raw client sets no tenant: whether its statements find the    *)
(* restaurant's row at all depends on the role the server connects as,     *)
(* `bypass`, which is TRUE for docker-compose's superuser and FALSE for    *)
(* the role the row level security migration asks for.                     *)
(*                                                                         *)
(* Time is the number of writes to the row that subscriptions caused: it   *)
(* is what pastDueSince holds. A definition marked "mutant" is a wrong     *)
(* variant of the next one.                                                *)
(***************************************************************************)
EXTENDS Plans, Sequences, FiniteSets

CONSTANTS
    MaxSubs,        \* bound: subscriptions Stripe ever holds for the restaurant
    Call,           \* calls of the owner: a checkout or the billing portal
    Hook,           \* concurrent deliveries of webhook events
    StripeStatus,   \* statuses Stripe may move a subscription to
    HandPrice,      \* prices a subscription may be made at in the dashboard
    NewPrice,       \* prices a subscription may be moved to, there or in the portal
    None,           \* no setting of a transaction
    MaxEvents,      \* bound: events Stripe sends
    MaxInputs,      \* bound: events Stripe sends and calls of the owner together
    Grant,          \* plan and status pairs the operator may ask for
    MaxBusy,        \* bound: calls and deliveries the server handles at once
    MaxFailures,    \* bound: failed statements, failed API calls and crashes
    MaxTrouble      \* bound: failures and plan changes by the operator together

ASSUME BillingBounds == {MaxSubs, MaxEvents, MaxInputs, MaxBusy, MaxFailures, MaxTrouble} \subseteq Nat
ASSUME GrantType == Grant \subseteq PLAN_IDS \X {"ACTIVE", "TRIALING", "CANCELED"}

VARIABLES
    bypass,     \* the server's database role ignores row level security
    tenant,     \* the restaurant's row
    subs,       \* Stripe: every subscription
    customers,  \* Stripe: how many customers were made
    events,     \* Stripe: every event sent, oldest first
    acked,      \* Stripe: events answered with a 2xx
    claims,     \* webhook_events: "absent", "claimed", "processed" or "failed"
    hook,       \* every delivery in progress
    call,       \* every call of the owner
    failures,
    operator,   \* plan changes by the operator so far
    history     \* for the properties: what was applied, and whether calls overlapped

vars == <<bypass, tenant, subs, customers, events, acked, claims, hook, call,
                 failures, operator, history>>

RLS == INSTANCE RowLevelSecurity WITH Unset <- None

OurStatus == {"TRIALING", "ACTIVE", "PAST_DUE", "CANCELED", "INCOMPLETE", "PAUSED"}
Absent == "absent"                      \* neither at Stripe nor in webhook_events
Sub == 1..MaxSubs
NoSub == 0
Unknown == "unknown"                    \* a price that is none of the settings'
Untagged == "none"                      \* no metadata
Price == {"SMART", "PRO", Unknown}      \* a price by the plan it is configured for
Metadata == {"SMART", "PRO", Untagged}  \* what a checkout wrote: our id and its plan
ASSUME NewPriceType == HandPrice \cup NewPrice \subseteq Price
EventType == {"created", "updated", "deleted", "payment_failed"}
Kind == {"checkout", "portal"}

Idle == [at |-> "idle", event |-> 0]
NotCalled == [at |-> "unused", kind |-> "portal", plan |-> "FREE", offers |-> {},
              seen |-> 0, trial |-> FALSE]

InProgress == {"load", "create", "store", "reload"}
Free == Cardinality({c \in Call : call[c].at \in InProgress})
        + Cardinality({h \in Hook : hook[h].at # "idle"}) < MaxBusy

Inputs == Len(events) + Cardinality({c \in Call : call[c].at # "unused"})

Init ==
    /\ bypass \in BOOLEAN
    /\ tenant = [plan |-> "FREE", status |-> "TRIALING", customer |-> 0, sub |-> NoSub,
                 pastDueSince |-> 0]
    /\ subs = [s \in Sub |-> [status |-> Absent, price |-> Unknown, customer |-> 0, metadata |-> Untagged]]
    /\ customers = 0
    /\ events = <<>>
    /\ acked = {}
    /\ claims = [e \in 1..MaxEvents |-> Absent]
    /\ hook = [h \in Hook |-> Idle]
    /\ call = [c \in Call |-> NotCalled]
    /\ failures = 0
    /\ operator = 0
    /\ history = [applied |-> <<>>, overlapped |-> FALSE]

-----------------------------------------------------------------------------
(* The restaurant's row                                                     *)

\* A statement of the raw client on the row of tenants. It is narrowed to one
\* id, but no tenant is set, so the policies admit no row.
RawSees ==
    \/ bypass
    \/ RLS!TenantSelect(RLS!NoSettings, [id |-> "tenant", slug |-> "slug", deleted |-> FALSE], {})

\* An UPDATE by the raw client: no row matched is no error.
RawUpdate(new) == tenant' = IF RawSees THEN new ELSE tenant

\* normaliseStatus: what Stripe reports, in our words.
RawStatus(status) == status                             \* mutant
normaliseStatus(status) ==
    CASE status = "trialing" -> "TRIALING"
      [] status = "active" -> "ACTIVE"
      [] status \in {"past_due", "unpaid"} -> "PAST_DUE"
      [] status = "incomplete" -> "INCOMPLETE"
      [] status = "paused" -> "PAUSED"
      [] OTHER -> "CANCELED"

Now == Len(history.applied) + 1

\* The COALESCE: the grace period's clock starts once.
GraceClock(status) ==
    CASE status # "PAST_DUE" -> 0
      [] status = "PAST_DUE" /\ tenant.pastDueSince = 0 -> Now
      [] OTHER -> tenant.pastDueSince

\* planForPriceId, over a month's price and a year's; no plan for an unknown one.
planForPriceId(price) == {price} \ {Unknown}

\* applySubscription: the price decides, else the plan the checkout was for, else FREE.
PlanAsBought(e) ==                                      \* mutant
    IF e.metadata # Untagged THEN e.metadata
    ELSE IF planForPriceId(e.price) # {} THEN e.price ELSE "FREE"
PlanOf(e) ==
    IF planForPriceId(e.price) # {} THEN e.price
    ELSE IF e.metadata # Untagged THEN e.metadata ELSE "FREE"

\* applySubscriptionState
RestartClock(e) ==                                      \* mutant
    LET status == normaliseStatus(e.status) IN
    [tenant EXCEPT !.sub = e.sub, !.status = status, !.plan = PlanOf(e),
                   !.pastDueSince = IF status = "PAST_DUE" THEN Now ELSE @]
applySubscriptionState(e) ==
    LET status == normaliseStatus(e.status) IN
    [tenant EXCEPT !.sub = e.sub, !.status = status, !.plan = PlanOf(e),
                   !.pastDueSince = GraceClock(status)]

\* downgradeToFree leaves the subscription's id and every other row alone.
ForgetSubscription ==                                   \* mutant
    [tenant EXCEPT !.plan = "FREE", !.status = "CANCELED", !.pastDueSince = 0, !.sub = NoSub]
downgradeToFree ==
    [tenant EXCEPT !.plan = "FREE", !.status = "CANCELED", !.pastDueSince = 0]

\* FREE has no subscription to be active on.
setTenantPlan(plan, status) ==
    [tenant EXCEPT !.plan = plan, !.status = IF plan = "FREE" THEN "CANCELED" ELSE status,
                   !.pastDueSince = 0]

\* changeTenantPlanAction. Its transaction sets the tenant, which the policy admits.
OperatorChangesPlan ==
    /\ failures + operator < MaxTrouble
    /\ operator' = operator + 1
    /\ \E g \in Grant : tenant' = setTenantPlan(g[1], g[2])
    /\ UNCHANGED <<bypass, subs, customers, events, acked, claims, hook, call, failures, history>>

-----------------------------------------------------------------------------
(* The owner's calls. call[c].at is                                         *)
(*   unused  page     the page is rendered and call[c].offers what it shows *)
(*   load             ensureCustomer's read                                 *)
(*   create  store    Stripe makes the customer; its id is stored           *)
(*   reload           the checkout's second read, and its session           *)
(* and a call ends in session (a checkout's, until it is completed) or      *)
(* done. call[c].seen is the customer it works with; trial is the           *)
(* checkout's.                                                              *)

\* PlanCard: the button of a plan that is sold and not the current one.
PlanCards == {<<"checkout", plan>> : plan \in PLAN_IDS \ {"FREE", effectivePlan(tenant)}}

\* What the billing page offers an owner. It reads the row by the owner's
\* membership, which the policies admit.
Offers == PlanCards \cup (IF tenant.customer = 0 THEN {} ELSE {<<"portal", "FREE">>})

StripeUnchanged == UNCHANGED <<subs, events, acked>>
CallUnchanged == StripeUnchanged /\ UNCHANGED <<bypass, claims, hook, operator>>

OpenPage(c) ==
    /\ call[c].at = "unused" /\ Inputs < MaxInputs
    /\ \A d \in Call : call[d].at # "page"
    /\ call' = [call EXCEPT ![c].at = "page", ![c].offers = Offers]
    /\ CallUnchanged /\ UNCHANGED <<tenant, customers, failures, history>>

\* startSubscriptionAction and openBillingPortalAction.
Click(c) ==
    /\ call[c].at = "page" /\ Free
    /\ \E o \in call[c].offers :
         call' = [call EXCEPT ![c] = [NotCalled EXCEPT !.at = "load", !.kind = o[1], !.plan = o[2]]]
    /\ CallUnchanged /\ UNCHANGED <<tenant, customers, failures, history>>

\* A call that is over, and a call that has its customer.
Over == [NotCalled EXCEPT !.at = "done"]
Onward(c, customer) ==
    IF call[c].kind = "checkout" THEN [call[c] EXCEPT !.at = "reload", !.seen = customer] ELSE Over

\* ensureCustomer's loadTenant: "Restaurant not found" without a row.
Load(c) ==
    /\ call[c].at = "load"
    /\ call' = [call EXCEPT ![c] =
         CASE ~RawSees -> Over
           [] RawSees /\ tenant.customer # 0 -> Onward(c, tenant.customer)
           [] OTHER -> [@ EXCEPT !.at = "create"]]
    /\ history' = [history EXCEPT !.overlapped = @ \/
           (call'[c].at = "create" /\ \E d \in Call \ {c} : call[d].at \in {"create", "store"})]
    /\ CallUnchanged /\ UNCHANGED <<tenant, customers, failures>>

CreateCustomer(c) ==
    /\ call[c].at = "create"
    /\ customers' = customers + 1
    /\ call' = [call EXCEPT ![c].at = "store", ![c].seen = customers + 1]
    /\ CallUnchanged /\ UNCHANGED <<tenant, failures, history>>

\* The row with the customer's id.
StoredNowhere(c) == tenant                              \* mutant
Stored(c) == [tenant EXCEPT !.customer = call[c].seen]

StoreCustomer(c) ==
    /\ call[c].at = "store"
    /\ RawUpdate(Stored(c))
    /\ call' = [call EXCEPT ![c] = Onward(c, @.seen)]
    /\ CallUnchanged /\ UNCHANGED <<customers, failures, history>>

\* hasSubscribedBefore: a trial only for a restaurant that never subscribed.
\* The session is opened with what this read found; it then waits for the owner
\* for as long as it takes, so opening it is not a step apart.
OpenSession(c) ==
    /\ call[c].at = "reload"
    /\ call' = [call EXCEPT ![c].at = "session", ![c].trial = (tenant.sub = NoSub)]
    /\ CallUnchanged /\ UNCHANGED <<tenant, customers, failures, history>>

\* A statement or an API call of it throws, or the server dies.
CallFails(c) ==
    /\ call[c].at \in InProgress
    /\ failures < MaxFailures /\ failures + operator < MaxTrouble
    /\ failures' = failures + 1
    /\ call' = [call EXCEPT ![c] = Over]
    /\ CallUnchanged /\ UNCHANGED <<tenant, customers, history>>

CallStep(c) ==
    Load(c) \/ CreateCustomer(c) \/ StoreCustomer(c) \/ OpenSession(c)

-----------------------------------------------------------------------------
(* Stripe                                                                   *)

\* Subscription s becomes `new` and an event says so.
Send(type, s, new) ==
    /\ Len(events) < MaxEvents /\ Inputs < MaxInputs
    /\ subs' = [subs EXCEPT ![s] = new]
    /\ events' = Append(events, [type |-> type, sub |-> s, status |-> new.status,
                                 price |-> new.price, metadata |-> new.metadata,
                                 customer |-> new.customer])
    /\ UNCHANGED <<bypass, tenant, customers, acked, claims, hook, failures, operator, history>>

\* Stripe's next subscription.
Fresh(s) == subs[s].status = Absent /\ \A t \in 1..s-1 : subs[t].status # Absent

\* The owner completes the checkout's session: its subscription carries the
\* restaurant's id and the plan in its metadata.
CompleteCheckout(c) ==
    /\ call[c].at = "session"
    /\ call' = [call EXCEPT ![c] = Over]
    /\ \E s \in Sub :
         /\ Fresh(s)
         /\ Send("created", s, [status |-> IF call[c].trial THEN "trialing" ELSE "active",
                                price |-> call[c].plan,
                                customer |-> call[c].seen, metadata |-> call[c].plan])

\* Somebody makes one in the Stripe dashboard, on a customer and without metadata,
\* at one of the prices or at another.
MakeByHand(s) ==
    /\ Fresh(s)
    /\ \E customer \in 1..customers, price \in HandPrice :
         Send("created", s, [status |-> "active", price |-> price,
                             customer |-> customer, metadata |-> Untagged])
    /\ UNCHANGED call

Live(s) == subs[s].status \notin {Absent, "canceled"}

\* A renewal, a failed payment, or a change of the price in the portal or the
\* dashboard.
ChangeSubscription(s) ==
    /\ Live(s)
    /\ \E new \in {[subs[s] EXCEPT !.status = status] : status \in StripeStatus}
                \cup {[subs[s] EXCEPT !.price = price] : price \in NewPrice} :
         new # subs[s] /\ Send("updated", s, new)
    /\ UNCHANGED call

PaymentFails(s) ==
    /\ subs[s].status = "past_due"
    /\ Send("payment_failed", s, subs[s])
    /\ UNCHANGED call

CancelSubscription(s) ==
    /\ Live(s)
    /\ Send("deleted", s, [subs[s] EXCEPT !.status = "canceled"])
    /\ UNCHANGED call

StripeStep ==
    \/ \E c \in Call : CompleteCheckout(c)
    \/ \E s \in Sub : MakeByHand(s) \/ ChangeSubscription(s) \/ PaymentFails(s)
                      \/ CancelSubscription(s)

-----------------------------------------------------------------------------
(* The webhook. Stripe delivers every event until it gets a 2xx for it, and *)
(* may deliver one again while an earlier delivery is still being handled.  *)
(* hook[h].at is handle, apply, mark or record.                             *)

HookUnchanged == UNCHANGED <<bypass, subs, customers, events, call, operator>>

At(h, at) == hook' = [hook EXCEPT ![h].at = at]
Leave(h) == hook' = [hook EXCEPT ![h] = Idle]
Delivered(h) == events[hook[h].event]

\* claimEvent's INSERT .. ON CONFLICT DO NOTHING reported a row.
ClaimAlways(e) == TRUE                                  \* mutant
ClaimEvent(e) == claims[e] = Absent

\* A delivery begins with the claim; one that loses it is a duplicate.
Claim(h, e) ==
    /\ hook[h].at = "idle" /\ Free
    /\ e \in DOMAIN events /\ e \notin acked /\ ClaimEvent(e)
    /\ claims' = [claims EXCEPT ![e] = "claimed"]
    /\ hook' = [hook EXCEPT ![h] = [at |-> "handle", event |-> e]]
    /\ HookUnchanged /\ UNCHANGED <<tenant, acked, failures, history>>

AnswerDuplicate(e) ==
    /\ e \in DOMAIN events /\ e \notin acked /\ ~ClaimEvent(e)
    /\ acked' = acked \cup {e}
    /\ HookUnchanged /\ UNCHANGED <<tenant, claims, hook, failures, history>>

\* tenantForSubscription: the metadata, or else the stored customer.
Attributed(e) == e.metadata # Untagged \/ (RawSees /\ tenant.customer = e.customer)

Handle(h) ==
    /\ hook[h].at = "handle"
    /\ LET e == Delivered(h) IN
       At(h, CASE e.type = "payment_failed" -> "mark"
               [] Attributed(e) -> "apply"
               [] e.type = "deleted" -> "mark"
               [] OTHER -> "record")
    /\ HookUnchanged /\ UNCHANGED <<tenant, acked, claims, failures, history>>

Apply(h) ==
    /\ hook[h].at = "apply"
    /\ LET e == Delivered(h) IN
       RawUpdate(IF e.type = "deleted" THEN downgradeToFree ELSE applySubscriptionState(e))
    /\ history' = IF RawSees THEN [history EXCEPT !.applied = Append(@, hook[h].event)] ELSE history
    /\ At(h, "mark")
    /\ HookUnchanged /\ UNCHANGED <<acked, claims, failures>>

\* processedAt is set and the event answered, unless the answer is lost.
Mark(h) ==
    /\ hook[h].at = "mark"
    /\ claims' = [claims EXCEPT ![hook[h].event] = "processed"]
    /\ Leave(h)
    /\ \/ acked' = acked \cup {hook[h].event} /\ UNCHANGED failures
       \/ /\ failures < MaxFailures /\ failures + operator < MaxTrouble
          /\ failures' = failures + 1
          /\ UNCHANGED acked
    /\ HookUnchanged /\ UNCHANGED <<tenant, history>>

\* The catch: the error is recorded and the answer is 500.
RecordError(h) ==
    /\ hook[h].at = "record"
    /\ claims' = [claims EXCEPT ![hook[h].event] = "failed"]
    /\ Leave(h)
    /\ HookUnchanged /\ UNCHANGED <<tenant, acked, failures, history>>

\* A statement throws inside the try, or outside it, or the server dies.
HookFails(h) ==
    /\ failures < MaxFailures /\ failures + operator < MaxTrouble
    /\ failures' = failures + 1
    /\ \/ hook[h].at \in {"handle", "apply", "mark"} /\ At(h, "record")
       \/ hook[h].at # "idle" /\ Leave(h)
    /\ HookUnchanged /\ UNCHANGED <<tenant, acked, claims, history>>

HookStep(h) == Handle(h) \/ Apply(h) \/ Mark(h) \/ RecordError(h)

-----------------------------------------------------------------------------
Next ==
    \/ \E c \in Call : OpenPage(c) \/ Click(c) \/ CallStep(c) \/ CallFails(c)
    \/ StripeStep
    \/ \E e \in 1..MaxEvents : AnswerDuplicate(e) \/ \E h \in Hook : Claim(h, e)
    \/ \E h \in Hook : HookStep(h) \/ HookFails(h)
    \/ OperatorChangesPlan

Spec == Init /\ [][Next]_vars
=============================================================================

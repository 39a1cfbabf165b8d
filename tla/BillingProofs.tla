---------------------------- MODULE BillingProofs ----------------------------
(***************************************************************************)
(* Billing keeps its types and its promises for every number of calls,     *)
(* deliveries, events and failures, and whichever role the server connects *)
(* as.                                                                     *)
(***************************************************************************)
EXTENDS BillingProps, TLAPS

-----------------------------------------------------------------------------
(* Plans                                                                    *)

\* The fee is the plan's share of the total to the nearest cent, a half rounded
\* up, and never more than the total (platformFeeCents).
THEOREM FeeIsRounded ==
    ASSUME NEW t \in [plan : PLAN_IDS, status : OurStatus], NEW total \in Nat
    PROVE  LET fee == platformFeeCents(t, total)
               exact == total * PLANS[effectivePlan(t)].platformFeeBps
           IN /\ fee \in 0..total
              /\ 10000 * fee - exact <= 5000
              /\ exact - 10000 * fee < 5000
<1>1. effectivePlan(t) \in PLAN_IDS
    BY DEF effectivePlan, PLAN_IDS
<1>2. PLANS[effectivePlan(t)].platformFeeBps \in {0, 100}
    BY <1>1 DEF PLANS, PLAN_IDS
<1>3. CASE PLANS[effectivePlan(t)].platformFeeBps = 0
    BY <1>3 DEF platformFeeCents
<1>4. CASE PLANS[effectivePlan(t)].platformFeeBps = 100
    BY <1>4 DEF platformFeeCents
<1>5. QED
    BY <1>2, <1>3, <1>4

\* What the billing page calls within the limit is what a creation of one more is
\* allowed at (checkLimit and assertCanCreate).
THEOREM PageAndCheckAgree ==
    ASSUME NEW t \in [plan : PLAN_IDS, status : OurStatus], NEW count \in Nat,
           NEW limit \in {"locations", "menuItems", "tables", "staffAccounts"}
    PROVE  withinLimit(t, limit, count) <=> CanCreate(t, limit, count, 1)
<1>1. effectivePlan(t) \in PLAN_IDS
    BY DEF effectivePlan, PLAN_IDS
<1>2. limitFor(t, limit) \in Int
    BY <1>1 DEF limitFor, PLANS, PLAN_IDS, Unlimited
<1>3. QED
    BY <1>2 DEF withinLimit, CanCreate, Unlimited

-----------------------------------------------------------------------------
(* Types                                                                    *)

AnyStatus == StripeStatus \cup {Absent, "trialing", "active", "canceled"}
TenantRow == [plan : PLAN_IDS, status : OurStatus, customer : Nat, sub : Sub \cup {NoSub},
              pastDueSince : Nat]
AnyPrice == PLAN_IDS \cup {Unknown}
AnyTag == PLAN_IDS \cup {Untagged}
Subscription == [status : AnyStatus, price : AnyPrice, customer : Nat, metadata : AnyTag]
SentEvent == [type : EventType, sub : Sub, status : AnyStatus, price : AnyPrice,
              metadata : AnyTag, customer : Nat]
Delivery == [at : {"idle", "handle", "apply", "mark", "record"}, event : Nat]
OwnerCall == [at : {"unused", "page", "session", "done"} \cup InProgress, kind : Kind,
              plan : PLAN_IDS, offers : SUBSET (Kind \X PLAN_IDS), seen : Nat, trial : BOOLEAN]

RowType ==
    /\ bypass \in BOOLEAN
    /\ tenant \in TenantRow
StripeType ==
    /\ subs \in [Sub -> Subscription]
    /\ customers \in Nat
    /\ events \in Seq(SentEvent)
    /\ acked \subseteq DOMAIN events
HookType ==
    /\ claims \in [1..MaxEvents -> {Absent, "claimed", "processed", "failed"}]
    /\ hook \in [Hook -> Delivery]
    /\ \A h \in Hook : /\ hook[h].event \in 0..Len(events)
                       /\ hook[h].at # "idle" => hook[h].event # 0
CallType == call \in [Call -> OwnerCall]
BookType ==
    /\ failures \in Nat /\ operator \in Nat
    /\ history \in [applied : Seq(Nat), overlapped : BOOLEAN]
    /\ \A i \in DOMAIN history.applied : history.applied[i] \in DOMAIN events

Types == RowType /\ StripeType /\ HookType /\ CallType /\ BookType

LEMMA NormalStatus == \A s : normaliseStatus(s) \in OurStatus
BY DEF normaliseStatus, OurStatus

LEMMA PlansOf == \A e \in SentEvent : PlanOf(e) \in PLAN_IDS
BY DEF PlanOf, planForPriceId, SentEvent, AnyPrice, AnyTag, PLAN_IDS, Unknown, Untagged

\* What an event makes of the row.
LEMMA AppliedRow ==
    ASSUME RowType, BookType, NEW e \in SentEvent
    PROVE  LET new == applySubscriptionState(e) IN
           /\ new \in TenantRow
           /\ new.customer = tenant.customer /\ new.sub = e.sub
           /\ (new.pastDueSince # 0) <=> (new.status = "PAST_DUE")
           /\ tenant.pastDueSince # 0 => new.pastDueSince \in {0, tenant.pastDueSince}
<1> DEFINE status == normaliseStatus(e.status)
           new == applySubscriptionState(e)
<1>1. status \in OurStatus
    BY NormalStatus
<1>2. Now \in Nat \ {0}
    BY DEF Now, BookType
<1>3. /\ tenant \in TenantRow /\ tenant.pastDueSince \in Nat
      /\ DOMAIN tenant = {"plan", "status", "customer", "sub", "pastDueSince"}
    BY DEF RowType, TenantRow
<1>4. /\ new.plan = PlanOf(e) /\ new.status = status
      /\ new.customer = tenant.customer /\ new.sub = e.sub
    BY <1>3 DEF applySubscriptionState
<1>5. new.pastDueSince = GraceClock(status)
    BY <1>3 DEF applySubscriptionState
<1>6. /\ status # "PAST_DUE" => new.pastDueSince = 0
      /\ status = "PAST_DUE" /\ tenant.pastDueSince = 0 => new.pastDueSince = Now
      /\ status = "PAST_DUE" /\ tenant.pastDueSince # 0 => new.pastDueSince = tenant.pastDueSince
    BY <1>5 DEF GraceClock
<1>7. GraceClock(status) \in Nat
    BY <1>2, <1>3 DEF GraceClock
<1>8. e.sub \in Sub \cup {NoSub} /\ PlanOf(e) \in PLAN_IDS
    BY PlansOf DEF SentEvent
<1> HIDE DEF status
<1>9. new \in TenantRow
    BY <1>1, <1>3, <1>7, <1>8 DEF TenantRow, applySubscriptionState, status
<1>10. QED
    BY <1>2, <1>3, <1>4, <1>6, <1>9 DEF new

\* What a cancellation and the operator make of it.
LEMMA OtherRows ==
    ASSUME RowType
    PROVE  /\ downgradeToFree = [tenant EXCEPT !.plan = "FREE", !.status = "CANCELED",
                                               !.pastDueSince = 0]
           /\ downgradeToFree \in TenantRow
           /\ \A g \in Grant : /\ setTenantPlan(g[1], g[2]) \in TenantRow
                               /\ setTenantPlan(g[1], g[2]).status # "PAST_DUE"
                               /\ setTenantPlan(g[1], g[2]).pastDueSince = 0
                               /\ setTenantPlan(g[1], g[2]).sub = tenant.sub
                               /\ setTenantPlan(g[1], g[2]).customer = tenant.customer
<1>1. \A g \in Grant : g[1] \in PLAN_IDS /\ g[2] \in {"ACTIVE", "TRIALING", "CANCELED"}
    BY GrantType
<1>2. QED
    BY <1>1 DEF downgradeToFree, setTenantPlan, RowType, TenantRow, PLAN_IDS, OurStatus

LEMMA TypesInit == Init => Types
BY DEF Init, Types, RowType, StripeType, HookType, CallType, BookType, TenantRow, Subscription,
       OurStatus, PLAN_IDS, AnyStatus, Delivery, OwnerCall, NotCalled, Kind, Idle, NoSub, Absent,
       SentEvent, AnyPrice, AnyTag

-----------------------------------------------------------------------------
(* The steps of an owner's call                                             *)

\* Offers are of the type that a page keeps.
LEMMA OffersType == RowType => Offers \subseteq Kind \X PLAN_IDS
BY DEF RowType, Offers, PlanCards, Kind, PLAN_IDS

\* A step of a call leaves Stripe's events and the webhook alone.
LEMMA CallTypes ==
    ASSUME Types, NEW c \in Call,
           \/ OpenPage(c) \/ Click(c) \/ Load(c) \/ CreateCustomer(c) \/ StoreCustomer(c)
           \/ OpenSession(c) \/ CallFails(c)
    PROVE  Types'
<1> USE DEF Types, RowType, StripeType, HookType, CallType, BookType, CallUnchanged,
            StripeUnchanged
<1>0. /\ call \in [Call -> OwnerCall]
      /\ \A f \in [Call -> OwnerCall] : f[c] \in OwnerCall
      /\ NotCalled \in OwnerCall /\ Over \in OwnerCall
    BY DEF Over, NotCalled, OwnerCall, Kind, PLAN_IDS, InProgress
<1>1. CASE OpenPage(c)
    BY <1>0, <1>1, OffersType DEF OpenPage, OwnerCall
<1>2. CASE Click(c)
  <2>1. PICK o \in call[c].offers :
          call' = [call EXCEPT ![c] = [NotCalled EXCEPT !.at = "load", !.kind = o[1], !.plan = o[2]]]
      BY <1>2 DEF Click
  <2>2. o \in Kind \X PLAN_IDS
      BY <1>0, <2>1 DEF OwnerCall
  <2>3. [NotCalled EXCEPT !.at = "load", !.kind = o[1], !.plan = o[2]] \in OwnerCall
      BY <1>0, <2>2 DEF OwnerCall, InProgress
  <2>4. QED
      BY <1>2, <2>1, <2>3 DEF Click
<1>3. CASE Load(c)
  <2>1. Onward(c, tenant.customer) \in OwnerCall
      BY <1>0 DEF Onward, OwnerCall, InProgress, TenantRow
  <2>2. [call[c] EXCEPT !.at = "create"] \in OwnerCall
      BY <1>0 DEF OwnerCall, InProgress
  <2>3. \E j \in OwnerCall : call' = [call EXCEPT ![c] = j]
    <3> HIDE DEF Types, RowType, StripeType, HookType, CallType, BookType
    <3>1. QED
        BY <1>0, <1>3, <2>1, <2>2 DEF Load
  <2>4. call' \in [Call -> OwnerCall]
    <3> HIDE DEF Types, RowType, StripeType, HookType, CallType, BookType
    <3>1. QED
        BY <1>0, <2>3
  <2>5. QED
      BY <1>3, <2>4 DEF Load
<1>4. CASE CreateCustomer(c)
  <2>0. customers + 1 \in Nat /\ call[c] \in OwnerCall
      BY <1>0
  <2>1. [call[c] EXCEPT !.at = "store", !.seen = customers + 1] \in OwnerCall
    <3> HIDE DEF Types, RowType, StripeType, HookType, CallType, BookType
    <3>1. QED
        BY <2>0 DEF OwnerCall, InProgress
  <2>2. call' = [call EXCEPT ![c] = [call[c] EXCEPT !.at = "store", !.seen = customers + 1]]
      BY <1>0, <1>4 DEF CreateCustomer
  <2>3. QED
      BY <1>4, <2>1, <2>2 DEF CreateCustomer
<1>5. CASE StoreCustomer(c)
  <2>1. call[c].seen \in Nat
      BY <1>0 DEF OwnerCall
  <2>2. Onward(c, call[c].seen) \in OwnerCall
      BY <1>0, <2>1 DEF Onward, OwnerCall, InProgress
  <2>3. tenant' \in TenantRow
      BY <1>5, <2>1 DEF StoreCustomer, RawUpdate, Stored, TenantRow
  <2>4. QED
      BY <1>5, <2>2, <2>3 DEF StoreCustomer
<1>6. CASE OpenSession(c)
  <2>1. [call[c] EXCEPT !.at = "session", !.trial = (tenant.sub = NoSub)] \in OwnerCall
      BY <1>0 DEF OwnerCall
  <2>2. call' = [call EXCEPT ![c] = [call[c] EXCEPT !.at = "session", !.trial = (tenant.sub = NoSub)]]
      BY <1>0, <1>6 DEF OpenSession
  <2>3. QED
      BY <1>6, <2>1, <2>2 DEF OpenSession
<1>7. CASE CallFails(c)
    BY <1>0, <1>7 DEF CallFails
<1>8. QED
    BY <1>1, <1>2, <1>3, <1>4, <1>5, <1>6, <1>7

-----------------------------------------------------------------------------
(* Stripe's steps                                                           *)

\* Sending adds one event at the end.
LEMMA SendTypes ==
    ASSUME Types, NEW type \in EventType, NEW s \in Sub, NEW new \in Subscription,
           Send(type, s, new), call' \in [Call -> OwnerCall]
    PROVE  Types'
<1> DEFINE event == [type |-> type, sub |-> s, status |-> new.status, price |-> new.price,
                     metadata |-> new.metadata, customer |-> new.customer]
<1>1. event \in SentEvent
    BY DEF SentEvent, Subscription
<1> HIDE DEF event
<1>2. events' = Append(events, event) /\ events' \in Seq(SentEvent) /\ Len(events') = Len(events) + 1
    BY <1>1 DEF Send, event, Types, StripeType
<1>3. DOMAIN events \subseteq DOMAIN events'
    BY <1>2 DEF Types, StripeType
<1>4. StripeType'
    BY <1>2, <1>3 DEF Send, Types, StripeType
<1>5. HookType'
    BY <1>2 DEF Send, Types, HookType, StripeType
<1>6. BookType' /\ RowType'
    BY <1>3 DEF Send, Types, BookType, RowType
<1>7. QED
    BY <1>4, <1>5, <1>6 DEF Types, CallType

LEMMA StripeTypes ==
    ASSUME Types, StripeStep
    PROVE  Types'
<1>1. CASE \E c \in Call : CompleteCheckout(c)
  <2>1. PICK c \in Call : CompleteCheckout(c)
      BY <1>1
  <2>2. call[c] \in OwnerCall
      BY DEF Types, CallType
  <2>3. call' \in [Call -> OwnerCall]
      BY <2>1 DEF CompleteCheckout, Types, CallType, Over, NotCalled, OwnerCall, Kind, PLAN_IDS
  <2>4. PICK s \in Sub :
          Send("created", s, [status |-> IF call[c].trial THEN "trialing" ELSE "active",
                              price |-> call[c].plan, customer |-> call[c].seen, metadata |-> call[c].plan])
      BY <2>1 DEF CompleteCheckout
  <2>5. [status |-> IF call[c].trial THEN "trialing" ELSE "active",
         price |-> call[c].plan, customer |-> call[c].seen, metadata |-> call[c].plan] \in Subscription
      BY <2>2 DEF Subscription, AnyStatus, AnyPrice, AnyTag, OwnerCall
  <2>6. QED
      BY <2>3, <2>4, <2>5, SendTypes DEF EventType
<1>2. CASE \E s \in Sub : MakeByHand(s) \/ ChangeSubscription(s) \/ PaymentFails(s)
                          \/ CancelSubscription(s)
  <2>1. PICK s \in Sub : MakeByHand(s) \/ ChangeSubscription(s) \/ PaymentFails(s)
                          \/ CancelSubscription(s)
      BY <1>2
  <2>2. call' \in [Call -> OwnerCall] /\ subs[s] \in Subscription
      BY <2>1 DEF MakeByHand, ChangeSubscription, PaymentFails, CancelSubscription, Types,
                  CallType, StripeType
  <2>3. \E type \in EventType, new \in Subscription : Send(type, s, new)
    <3>1. CASE MakeByHand(s)
      <4>1. PICK customer \in 1..customers, price \in HandPrice :
              Send("created", s, [status |-> "active", price |-> price, customer |-> customer,
                                  metadata |-> Untagged])
          BY <3>1 DEF MakeByHand
      <4>2. [status |-> "active", price |-> price, customer |-> customer, metadata |-> Untagged]
              \in Subscription
          BY NewPriceType DEF Subscription, AnyStatus, AnyPrice, AnyTag, Price, PLAN_IDS, Types, StripeType
      <4>3. QED
          BY <4>1, <4>2 DEF EventType
    <3>2. CASE ChangeSubscription(s)
      <4>1. PICK new \in {[subs[s] EXCEPT !.status = status] : status \in StripeStatus}
                        \cup {[subs[s] EXCEPT !.price = price] : price \in NewPrice} :
              Send("updated", s, new)
          BY <3>2 DEF ChangeSubscription
      <4>2. new \in Subscription
          BY <2>2, NewPriceType DEF Subscription, AnyStatus, AnyPrice, Price, PLAN_IDS
      <4>3. QED
          BY <4>1, <4>2 DEF EventType
    <3>3. CASE PaymentFails(s)
        BY <2>2, <3>3 DEF PaymentFails, EventType
    <3>4. CASE CancelSubscription(s)
      <4>1. [subs[s] EXCEPT !.status = "canceled"] \in Subscription
          BY <2>2 DEF Subscription, AnyStatus
      <4>2. QED
          BY <3>4, <4>1 DEF CancelSubscription, EventType
    <3>5. QED
        BY <2>1, <3>1, <3>2, <3>3, <3>4
  <2>4. QED
      BY <2>2, <2>3, SendTypes
<1>3. QED
    BY <1>1, <1>2 DEF StripeStep

-----------------------------------------------------------------------------
(* The webhook's and the operator's steps                                   *)

\* A delivery moves on or is over, and what it wrote of its claim is typed.
LEMMA DeliveryTypes ==
    ASSUME HookType, NEW h \in Hook, hook[h].at # "idle", UNCHANGED events,
           claims' \in [1..MaxEvents -> {Absent, "claimed", "processed", "failed"}],
           Leave(h) \/ \E at \in {"handle", "apply", "mark", "record"} : At(h, at)
    PROVE  HookType'
<1>1. CASE Leave(h)
  <2>1. hook' = [hook EXCEPT ![h] = Idle] /\ Idle \in Delivery /\ Idle.at = "idle" /\ Idle.event = 0
      BY <1>1 DEF Leave, Idle, Delivery
  <2>2. 0 \in 0..Len(events)
      BY DEF HookType
  <2>3. QED
      BY <2>1, <2>2 DEF HookType
<1>2. CASE \E at \in {"handle", "apply", "mark", "record"} : At(h, at)
    BY <1>2 DEF At, HookType, Delivery
<1>3. QED
    BY <1>1, <1>2

LEMMA HookTypes ==
    ASSUME Types,
           \/ \E e \in 1..MaxEvents : AnswerDuplicate(e) \/ \E h \in Hook : Claim(h, e)
           \/ \E h \in Hook : HookStep(h) \/ HookFails(h)
    PROVE  Types'
<1> USE DEF Types, RowType, StripeType, HookType, CallType, BookType, HookUnchanged, Delivery
<1>1. CASE \E e \in 1..MaxEvents : AnswerDuplicate(e)
    BY <1>1 DEF AnswerDuplicate
<1>2. CASE \E e \in 1..MaxEvents, h \in Hook : Claim(h, e)
    BY <1>2 DEF Claim
<1>3. ASSUME NEW h \in Hook, Handle(h)
      PROVE  Types'
    BY <1>3 DEF Handle, At
<1>4. ASSUME NEW h \in Hook, Apply(h)
      PROVE  Types'
  <2>1. hook[h].event \in DOMAIN events /\ Delivered(h) \in SentEvent
      BY <1>4 DEF Apply, Delivered
  <2>2. tenant' \in TenantRow
      BY <1>4, <2>1, AppliedRow, OtherRows DEF Apply, RawUpdate
  <2>3. /\ history' \in [applied : Seq(Nat), overlapped : BOOLEAN]
        /\ \A i \in DOMAIN history'.applied : history'.applied[i] \in DOMAIN events
    <3>1. hook[h].event \in Nat
        BY <1>4
    <3>2. Append(history.applied, hook[h].event) \in Seq(Nat)
        BY <3>1
    <3>3. \A i \in DOMAIN Append(history.applied, hook[h].event) :
              Append(history.applied, hook[h].event)[i] \in DOMAIN events
        BY <2>1
    <3>4. QED
        BY <1>4, <3>2, <3>3 DEF Apply
  <2>4. HookType' /\ StripeType' /\ CallType'
      BY <1>4 DEF Apply, At
  <2>5. QED
      BY <1>4, <2>2, <2>3, <2>4 DEF Apply
<1>5. ASSUME NEW h \in Hook, Mark(h)
      PROVE  Types'
  <2>1. HookType'
      BY <1>5, DeliveryTypes DEF Mark
  <2>2. hook[h].event \in DOMAIN events
      BY <1>5 DEF Mark
  <2>3. QED
      BY <1>5, <2>1, <2>2 DEF Mark
<1>6. ASSUME NEW h \in Hook, RecordError(h)
      PROVE  Types'
  <2>1. HookType'
      BY <1>6, DeliveryTypes DEF RecordError
  <2>2. QED
      BY <1>6, <2>1 DEF RecordError
<1>7. ASSUME NEW h \in Hook, HookFails(h)
      PROVE  Types'
  <2>1. HookType'
      BY <1>7, DeliveryTypes DEF HookFails
  <2>2. QED
      BY <1>7, <2>1 DEF HookFails
<1>8. QED
    BY <1>1, <1>2, <1>3, <1>4, <1>5, <1>6, <1>7 DEF HookStep

LEMMA OperatorTypes ==
    ASSUME Types, OperatorChangesPlan
    PROVE  Types'
<1>1. tenant' \in TenantRow
    BY OtherRows DEF OperatorChangesPlan, Types
<1>2. QED
    BY <1>1 DEF OperatorChangesPlan, Types, RowType, StripeType, HookType, CallType, BookType

LEMMA TypesStep == Types /\ [Next]_vars => Types'
<1> SUFFICES ASSUME Types, [Next]_vars PROVE Types'
    OBVIOUS
<1>1. CASE UNCHANGED vars
    BY <1>1 DEF vars, Types, RowType, StripeType, HookType, CallType, BookType
<1>2. CASE Next
    BY <1>2, CallTypes, StripeTypes, HookTypes, OperatorTypes DEF Next, CallStep
<1>3. QED
    BY <1>1, <1>2

\* FREE is not sold: no page offers a checkout for it, so no call makes one and no
\* subscription is of it.
Sale(x) ==
    /\ \A o \in x.offers : o[1] = "checkout" => o[2] # "FREE"
    /\ x.kind = "checkout" => x.plan # "FREE"
    /\ x.at \in {"reload", "session"} => x.kind = "checkout"

Sold ==
    /\ \A c \in Call : Sale(call[c])
    /\ \A s \in Sub : subs[s].price # "FREE" /\ subs[s].metadata # "FREE"

LEMMA SoldCalls ==
    ASSUME Types, Sold, NEW c \in Call,
           \/ OpenPage(c) \/ Click(c) \/ CallStep(c) \/ CallFails(c)
    PROVE  Sold'
<1>1. /\ call \in [Call -> OwnerCall] /\ Sale(call[c])
      /\ \A f \in OwnerCall : DOMAIN f = {"at", "kind", "plan", "offers", "seen", "trial"}
    BY DEF Types, CallType, Sold, OwnerCall
<1>2. Sale(NotCalled) /\ Sale(Over)
    BY DEF Sale, NotCalled, Over
<1>3. ASSUME NEW x, Sale(x), call' = [call EXCEPT ![c] = x], subs' = subs PROVE Sold'
    BY <1>1, <1>3 DEF Sold
<1>4. subs' = subs
    BY DEF OpenPage, Click, CallStep, CallFails, Load, CreateCustomer, StoreCustomer, OpenSession,
           CallUnchanged, StripeUnchanged
<1>5. \A customer : Sale(Onward(c, customer))
    BY <1>1, <1>2 DEF Onward, Sale, OwnerCall
<1>6. CASE OpenPage(c)
  <2>1. Sale([call[c] EXCEPT !.at = "page", !.offers = Offers])
      BY <1>1 DEF Sale, Offers, PlanCards, OwnerCall
  <2>2. call' = [call EXCEPT ![c] = [call[c] EXCEPT !.at = "page", !.offers = Offers]]
      BY <1>1, <1>6 DEF OpenPage
  <2>3. QED
      BY <1>3, <1>4, <2>1, <2>2
<1>7. CASE Click(c)
  <2>1. PICK o \in call[c].offers :
          call' = [call EXCEPT ![c] = [NotCalled EXCEPT !.at = "load", !.kind = o[1], !.plan = o[2]]]
      BY <1>7 DEF Click
  <2>2. Sale([NotCalled EXCEPT !.at = "load", !.kind = o[1], !.plan = o[2]])
      BY <1>1, <2>1 DEF Sale, NotCalled
  <2>3. QED
      BY <1>3, <1>4, <2>1, <2>2
<1>8. CASE Load(c)
  <2>1. Sale([call[c] EXCEPT !.at = "create"])
      BY <1>1 DEF Sale, OwnerCall
  <2>2. \E x : Sale(x) /\ call' = [call EXCEPT ![c] = x]
      BY <1>2, <1>5, <1>8, <2>1 DEF Load
  <2>3. QED
      BY <1>3, <1>4, <2>2
<1>9. CASE CreateCustomer(c)
  <2>1. Sale([call[c] EXCEPT !.at = "store", !.seen = customers + 1])
      BY <1>1 DEF Sale, OwnerCall
  <2>2. call' = [call EXCEPT ![c] = [call[c] EXCEPT !.at = "store", !.seen = customers + 1]]
      BY <1>1, <1>9 DEF CreateCustomer
  <2>3. QED
      BY <1>3, <1>4, <2>1, <2>2
<1>10. CASE StoreCustomer(c)
    BY <1>3, <1>4, <1>5, <1>10 DEF StoreCustomer
<1>11. CASE OpenSession(c)
  <2>1. Sale([call[c] EXCEPT !.at = "session", !.trial = (tenant.sub = NoSub)])
      BY <1>1, <1>11 DEF Sale, OwnerCall, OpenSession
  <2>2. call' = [call EXCEPT ![c] = [call[c] EXCEPT !.at = "session", !.trial = (tenant.sub = NoSub)]]
      BY <1>1, <1>11 DEF OpenSession
  <2>3. QED
      BY <1>3, <1>4, <2>1, <2>2
<1>12. CASE CallFails(c)
    BY <1>2, <1>3, <1>4, <1>12 DEF CallFails
<1>13. QED
    BY <1>6, <1>7, <1>8, <1>9, <1>10, <1>11, <1>12 DEF CallStep

LEMMA SoldStripe ==
    ASSUME Types, Sold, StripeStep
    PROVE  Sold'
<1>0. subs \in [Sub -> Subscription] /\ call \in [Call -> OwnerCall]
    BY DEF Types, StripeType, CallType
<1>1. ASSUME NEW s \in Sub, NEW new, subs' = [subs EXCEPT ![s] = new],
             new.price # "FREE" /\ new.metadata # "FREE"
      PROVE  \A t \in Sub : subs'[t].price # "FREE" /\ subs'[t].metadata # "FREE"
    BY <1>0, <1>1 DEF Sold
<1>2. ASSUME NEW c \in Call, CompleteCheckout(c) PROVE Sold'
  <2>1. call[c].plan # "FREE"
      BY <1>2 DEF CompleteCheckout, Sold, Sale
  <2>2. PICK s \in Sub :
          subs' = [subs EXCEPT ![s] = [status |-> IF call[c].trial THEN "trialing" ELSE "active",
                                       price |-> call[c].plan, customer |-> call[c].seen,
                                       metadata |-> call[c].plan]]
      BY <1>2 DEF CompleteCheckout, Send
  <2> DEFINE new == [status |-> IF call[c].trial THEN "trialing" ELSE "active",
                     price |-> call[c].plan, customer |-> call[c].seen, metadata |-> call[c].plan]
  <2>6. new.price # "FREE" /\ new.metadata # "FREE" /\ subs' = [subs EXCEPT ![s] = new]
      BY <2>1, <2>2
  <2> HIDE DEF new
  <2>3. \A t \in Sub : subs'[t].price # "FREE" /\ subs'[t].metadata # "FREE"
      BY <1>1, <2>6
  <2>4. \A d \in Call : Sale(call'[d])
      BY <1>0, <1>2 DEF CompleteCheckout, Sold, Sale, Over, NotCalled
  <2>5. QED
      BY <2>3, <2>4 DEF Sold
<1>3. ASSUME NEW s \in Sub, MakeByHand(s) PROVE Sold'
  <2>1. PICK customer \in 1..customers, price \in HandPrice :
          subs' = [subs EXCEPT ![s] = [status |-> "active", price |-> price,
                                       customer |-> customer, metadata |-> Untagged]]
      BY <1>3 DEF MakeByHand, Send
  <2>2. price # "FREE" /\ Untagged # "FREE"
      BY NewPriceType DEF Price, Unknown, Untagged
  <2>3. QED
      BY <1>1, <1>3, <2>1, <2>2 DEF MakeByHand, Sold
<1>4. ASSUME NEW s \in Sub, ChangeSubscription(s) PROVE Sold'
  <2>1. PICK new \in {[subs[s] EXCEPT !.status = status] : status \in StripeStatus}
                    \cup {[subs[s] EXCEPT !.price = price] : price \in NewPrice} :
          subs' = [subs EXCEPT ![s] = new]
      BY <1>4 DEF ChangeSubscription, Send
  <2>2. new.price # "FREE" /\ new.metadata # "FREE"
      BY <1>0, NewPriceType DEF Sold, Subscription, Price, Unknown
  <2>3. QED
      BY <1>1, <1>4, <2>1, <2>2 DEF ChangeSubscription, Sold
<1>5. ASSUME NEW s \in Sub, PaymentFails(s) \/ CancelSubscription(s) PROVE Sold'
  <2>1. \E status : subs' = [subs EXCEPT ![s] = [subs[s] EXCEPT !.status = status]]
      BY <1>0, <1>5 DEF PaymentFails, CancelSubscription, Send, Subscription
  <2>2. QED
      BY <1>0, <1>1, <1>5, <2>1 DEF PaymentFails, CancelSubscription, Sold, Subscription
<1>6. QED
    BY <1>2, <1>3, <1>4, <1>5 DEF StripeStep

LEMMA SoldStep ==
    Types /\ Sold /\ [Next]_vars => Sold'
<1> SUFFICES ASSUME Types, Sold, [Next]_vars PROVE Sold'
    OBVIOUS
<1>1. CASE UNCHANGED <<call, subs>>
    BY <1>1 DEF Sold, Sale
<1>2. CASE \E c \in Call : OpenPage(c) \/ Click(c) \/ CallStep(c) \/ CallFails(c)
    BY <1>2, SoldCalls
<1>3. CASE StripeStep
    BY <1>3, SoldStripe
<1>4. QED
    BY <1>1, <1>2, <1>3 DEF Next, vars, AnswerDuplicate, Claim, HookStep, HookFails, Handle, Apply,
       Mark, RecordError, OperatorChangesPlan, HookUnchanged

\* Every variable keeps its type; no subscription is of FREE.
THEOREM BillingTypeCorrect == Spec => []TypeOK
<1>1. Init => Sold
    BY DEF Init, Sold, Sale, NotCalled, Unknown, Untagged
<1>2. Types /\ Sold => TypeOK
  <2>1. \A s \in Sub : Types /\ Sold => subs[s].price \in Price /\ subs[s].metadata \in Metadata
      BY DEF Types, StripeType, Sold, Subscription, AnyPrice, AnyTag, Price, Metadata, PLAN_IDS
  <2>2. QED
      BY <2>1 DEF Types, RowType, StripeType, HookType, CallType, TypeOK, TenantRow, Subscription,
                  AnyStatus, Delivery, OwnerCall
<1>3. Spec => [](Types /\ Sold)
    BY <1>1, TypesInit, TypesStep, SoldStep, PTL DEF Spec
<1>4. QED
    BY <1>2, <1>3, PTL

-----------------------------------------------------------------------------
(* The restaurant's row                                                     *)

\* The row is written by these steps alone; only a customer, an event or the
\* operator's plan goes into it.
LEMMA RowSteps ==
    ASSUME Types, [Next]_vars
    PROVE  \/ \E c \in Call : StoreCustomer(c)
           \/ \E h \in Hook : Apply(h)
           \/ OperatorChangesPlan
           \/ tenant' = tenant /\ history'.applied = history.applied
BY DEF Next, vars, OpenPage, Click, CallStep, CallFails, Load, CreateCustomer, OpenSession,
       StripeStep, CompleteCheckout, MakeByHand, ChangeSubscription, PaymentFails,
       CancelSubscription, Send, AnswerDuplicate, Claim, HookStep, HookFails, Handle, Mark,
       RecordError, CallUnchanged, HookUnchanged, StripeUnchanged, Types, BookType

\* A stored customer changes nothing else of the row.
LEMMA StoredRow ==
    ASSUME Types, NEW c \in Call, StoreCustomer(c)
    PROVE  /\ tenant'.sub = tenant.sub /\ tenant'.status = tenant.status
           /\ tenant'.pastDueSince = tenant.pastDueSince
           /\ tenant'.customer \in {tenant.customer, call[c].seen}
           /\ RawSees => tenant'.customer = call[c].seen
           /\ history' = history
BY DEF StoreCustomer, RawUpdate, Stored, Types, RowType, TenantRow

\* What is applied is the event of the delivery.
LEMMA AppliedStep ==
    ASSUME Types, NEW h \in Hook, Apply(h)
    PROVE  /\ hook[h].event \in DOMAIN events /\ Delivered(h) \in SentEvent
           /\ \/ tenant' = tenant /\ history' = history
              \/ /\ tenant' \in {downgradeToFree, applySubscriptionState(Delivered(h))}
                 /\ Delivered(h).type # "deleted" => tenant' = applySubscriptionState(Delivered(h))
                 /\ history'.applied = Append(history.applied, hook[h].event)
BY DEF Apply, RawUpdate, Delivered, Types, HookType, StripeType, BookType

LEMMA ClockInit == Init => ClockRunsWhilePastDue
BY DEF Init, ClockRunsWhilePastDue

LEMMA ClockStep ==
    ASSUME Types, ClockRunsWhilePastDue, [Next]_vars
    PROVE  ClockRunsWhilePastDue'
<1> USE DEF ClockRunsWhilePastDue
<1>1. CASE \E c \in Call : StoreCustomer(c)
    BY <1>1, StoredRow
<1>2. CASE \E h \in Hook : Apply(h)
  <2>1. PICK h \in Hook : Apply(h)
      BY <1>2
  <2>2. Delivered(h) \in SentEvent
      BY <2>1, AppliedStep
  <2>3. CASE tenant' = downgradeToFree
      BY <2>3, OtherRows DEF Types, RowType, TenantRow
  <2>4. CASE tenant' = applySubscriptionState(Delivered(h))
      BY <2>2, <2>4, AppliedRow DEF Types
  <2>5. QED
      BY <2>1, <2>3, <2>4, AppliedStep
<1>3. CASE OperatorChangesPlan
    BY <1>3, OtherRows DEF OperatorChangesPlan, Types
<1>4. QED
    BY <1>1, <1>2, <1>3, RowSteps

\* The grace period's clock is set exactly while the restaurant is past due.
THEOREM ClockRuns == Spec => []ClockRunsWhilePastDue
<1>1. Types /\ ClockRunsWhilePastDue /\ [Next]_vars => (Types /\ ClockRunsWhilePastDue)'
    BY TypesStep, ClockStep
<1>2. QED
    BY <1>1, TypesInit, ClockInit, PTL DEF Spec

LEMMA GraceStep ==
    ASSUME Types, [Next]_vars, tenant.pastDueSince # 0
    PROVE  tenant'.pastDueSince \in {0, tenant.pastDueSince}
<1>1. CASE \E c \in Call : StoreCustomer(c)
    BY <1>1, StoredRow
<1>2. CASE \E h \in Hook : Apply(h)
  <2>1. PICK h \in Hook : Apply(h)
      BY <1>2
  <2>2. Delivered(h) \in SentEvent
      BY <2>1, AppliedStep
  <2>3. CASE tenant' = downgradeToFree
      BY <2>3, OtherRows DEF Types, RowType, TenantRow
  <2>4. CASE tenant' = applySubscriptionState(Delivered(h))
      BY <2>2, <2>4, AppliedRow DEF Types
  <2>5. QED
      BY <2>1, <2>3, <2>4, AppliedStep
<1>3. CASE OperatorChangesPlan
    BY <1>3, OtherRows DEF OperatorChangesPlan, Types
<1>4. QED
    BY <1>1, <1>2, <1>3, RowSteps

\* A second failed payment does not extend the grace period.
THEOREM GraceNotExtended == Spec => GraceIsNotExtended
<1>1. Types /\ [Next]_vars
        => [tenant.pastDueSince # 0 => tenant'.pastDueSince \in {0, tenant.pastDueSince}]_vars
    BY GraceStep
<1>2. QED
    BY <1>1, TypesInit, TypesStep, PTL DEF Spec, GraceIsNotExtended

-----------------------------------------------------------------------------
(* One trial                                                                *)

\* A subscription was recorded: an event other than a deletion was applied.
Subscribed == \E i \in DOMAIN history.applied : events[history.applied[i]].type # "deleted"

\* The row remembers it for good.
Remembered == Subscribed => tenant.sub # NoSub

\* Events stay where they are.
LEMMA EventsStay ==
    ASSUME Types, [Next]_vars
    PROVE  \A e \in DOMAIN events : e \in DOMAIN events' /\ events'[e] = events[e]
<1>1. CASE UNCHANGED events
    BY <1>1
<1>2. CASE StripeStep
  <2>1. \E x : events' = Append(events, x)
      BY <1>2 DEF StripeStep, CompleteCheckout, MakeByHand, ChangeSubscription, PaymentFails,
                  CancelSubscription, Send
  <2>2. QED
      BY <2>1 DEF Types, StripeType
<1>3. QED
    BY <1>1, <1>2 DEF Next, vars, OpenPage, Click, CallStep, CallFails, Load, CreateCustomer,
       StoreCustomer, OpenSession, AnswerDuplicate, Claim, HookStep, HookFails, Handle, Apply,
       Mark, RecordError, OperatorChangesPlan, CallUnchanged, HookUnchanged, StripeUnchanged

LEMMA RememberedStep ==
    ASSUME Types, Remembered, [Next]_vars
    PROVE  Remembered'
<1>1. \A i \in DOMAIN history.applied : events'[history.applied[i]] = events[history.applied[i]]
    BY EventsStay DEF Types, BookType
<1>2. CASE \E h \in Hook : Apply(h)
  <2>1. PICK h \in Hook : Apply(h)
      BY <1>2
  <2>2. events' = events
      BY <2>1 DEF Apply, HookUnchanged
  <2>3. CASE tenant' = tenant /\ history' = history
      BY <2>2, <2>3 DEF Remembered, Subscribed
  <2>4. CASE Delivered(h).type # "deleted" /\ tenant' = applySubscriptionState(Delivered(h))
      BY <2>1, <2>4, AppliedStep, AppliedRow DEF Types, SentEvent, Remembered, NoSub, Sub
  <2>5. CASE /\ Delivered(h).type = "deleted"
             /\ tenant' = downgradeToFree
             /\ history'.applied = Append(history.applied, hook[h].event)
    <3>1. Subscribed' => Subscribed
        BY <2>2, <2>5 DEF Subscribed, Delivered, Types, BookType
    <3>2. tenant'.sub = tenant.sub
        BY <2>5, OtherRows DEF Types, RowType, TenantRow
    <3>3. QED
        BY <3>1, <3>2 DEF Remembered
  <2>6. QED
      BY <2>1, <2>3, <2>4, <2>5 DEF Apply, RawUpdate, Types, BookType
<1>3. CASE \E c \in Call : StoreCustomer(c)
    BY <1>1, <1>3, StoredRow DEF Remembered, Subscribed
<1>4. CASE OperatorChangesPlan
    BY <1>1, <1>4, OtherRows DEF OperatorChangesPlan, Types, Remembered, Subscribed
<1>5. CASE tenant' = tenant /\ history'.applied = history.applied
    BY <1>1, <1>5 DEF Remembered, Subscribed
<1>6. QED
    BY <1>2, <1>3, <1>4, <1>5, RowSteps

\* Cancelling and subscribing again starts no second trial.
THEOREM OneTrial == Spec => NoSecondTrial
<1>1. Init => Remembered
    BY DEF Init, Remembered, Subscribed
<1>2. Types /\ Remembered /\ [Next]_vars => (Types /\ Remembered)'
    BY TypesStep, RememberedStep
<1>3. Types /\ Remembered /\ [Next]_vars =>
        [\A c \in Call : (call[c].at = "reload" /\ call'[c].at = "session" /\ call'[c].trial)
            => ~\E i \in DOMAIN history.applied : events[history.applied[i]].type # "deleted"]_vars
  <2> SUFFICES ASSUME Types, Remembered, Next, NEW c \in Call,
                      call[c].at = "reload", call'[c].at = "session", call'[c].trial
               PROVE  ~Subscribed
      BY DEF Subscribed
  <2>1. OpenSession(c)
      BY DEF Next, OpenPage, Click, CallStep, CallFails, Load, CreateCustomer, StoreCustomer,
             OpenSession, StripeStep, CompleteCheckout, MakeByHand, ChangeSubscription,
             PaymentFails, CancelSubscription, Send, AnswerDuplicate, Claim, HookStep, HookFails,
             Handle, Apply, Mark, RecordError, OperatorChangesPlan, HookUnchanged,
             NotCalled, Over, Onward, Types, CallType, OwnerCall
  <2>2. QED
      BY <2>1 DEF OpenSession, Remembered, Types, CallType, OwnerCall
<1>4. QED
    BY <1>1, <1>2, <1>3, TypesInit, PTL DEF Spec, NoSecondTrial

-----------------------------------------------------------------------------
(* At most once                                                             *)

\* The claim is what makes an event one delivery's: nobody works on an event that
\* is not claimed, no two deliveries on the same, and one that may still apply its
\* event is the only trace of it.
Exclusive ==
    /\ \A h \in Hook : hook[h].at # "idle" => claims[hook[h].event] # Absent
    /\ \A i \in DOMAIN history.applied : claims[history.applied[i]] # Absent
    /\ \A h, g \in Hook :
         hook[h].at # "idle" /\ hook[g].at # "idle" /\ hook[h].event = hook[g].event => h = g
    /\ \A h \in Hook, i \in DOMAIN history.applied :
         hook[h].at \in {"handle", "apply"} => history.applied[i] # hook[h].event

\* Claims are of numbered events.
EventsBounded == Len(events) <= MaxEvents

LEMMA EventsBoundedStep ==
    ASSUME Types, EventsBounded, [Next]_vars
    PROVE  EventsBounded'
<1>1. CASE UNCHANGED events
    BY <1>1 DEF EventsBounded
<1>2. CASE StripeStep
  <2>1. Len(events) < MaxEvents /\ \E x : events' = Append(events, x)
      BY <1>2 DEF StripeStep, CompleteCheckout, MakeByHand, ChangeSubscription, PaymentFails,
                  CancelSubscription, Send
  <2>2. Len(events') = Len(events) + 1 /\ Len(events) \in Nat /\ MaxEvents \in Nat
      BY <2>1, BillingBounds DEF Types, StripeType
  <2>3. QED
      BY <2>1, <2>2 DEF EventsBounded
<1>3. QED
    BY <1>1, <1>2 DEF Next, vars, OpenPage, Click, CallStep, CallFails, Load, CreateCustomer,
       StoreCustomer, OpenSession, AnswerDuplicate, Claim, HookStep, HookFails, Handle, Apply,
       Mark, RecordError, OperatorChangesPlan, CallUnchanged, HookUnchanged, StripeUnchanged

\* The steps that touch deliveries, claims or what was applied.
LEMMA HookSteps ==
    ASSUME Types, [Next]_vars
    PROVE  \/ \E h \in Hook, e \in 1..MaxEvents : Claim(h, e)
           \/ \E h \in Hook : Handle(h) \/ Apply(h) \/ Mark(h) \/ RecordError(h) \/ HookFails(h)
           \/ hook' = hook /\ claims' = claims /\ history'.applied = history.applied
BY DEF Next, vars, OpenPage, Click, CallStep, CallFails, Load, CreateCustomer, StoreCustomer,
       OpenSession, StripeStep, CompleteCheckout, MakeByHand, ChangeSubscription, PaymentFails,
       CancelSubscription, Send, AnswerDuplicate, HookStep, OperatorChangesPlan, CallUnchanged,
       HookUnchanged, StripeUnchanged, Types, BookType

LEMMA ExclusiveStep ==
    ASSUME Types, EventsBounded, Exclusive, AppliedAtMostOnce, [Next]_vars
    PROVE  Exclusive' /\ AppliedAtMostOnce'
<1> USE DEF Exclusive, AppliedAtMostOnce
<1>0. /\ hook \in [Hook -> Delivery] /\ history.applied \in Seq(Nat)
      /\ \A h \in Hook : hook[h].at # "idle" => hook[h].event \in 1..MaxEvents
      /\ \A i \in DOMAIN history.applied : history.applied[i] \in 1..MaxEvents
      /\ DOMAIN claims = 1..MaxEvents
    BY BillingBounds DEF Types, HookType, BookType, StripeType, EventsBounded
<1>1. ASSUME NEW h \in Hook, NEW e \in 1..MaxEvents, Claim(h, e)
      PROVE  Exclusive' /\ AppliedAtMostOnce'
  <2>1. /\ claims[e] = Absent /\ claims' = [claims EXCEPT ![e] = "claimed"]
        /\ hook' = [hook EXCEPT ![h] = [at |-> "handle", event |-> e]]
        /\ history' = history
      BY <1>1 DEF Claim, ClaimEvent
  <2>2. "claimed" # Absent
      BY DEF Absent
  <2>3. QED
      BY <1>0, <2>1, <2>2 DEF Delivery
<1>2. ASSUME NEW h \in Hook, Apply(h)
      PROVE  Exclusive' /\ AppliedAtMostOnce'
  <2>1. /\ hook[h].at = "apply" /\ hook' = [hook EXCEPT ![h].at = "mark"]
        /\ claims' = claims
        /\ \/ history' = history
           \/ history'.applied = Append(history.applied, hook[h].event)
      BY <1>2 DEF Apply, At, Types, BookType
  <2>2. /\ hook'[h].at = "mark" /\ \A g \in Hook : hook'[g].event = hook[g].event
        /\ \A g \in Hook \ {h} : hook'[g] = hook[g]
      BY <1>0, <2>1 DEF Delivery
  <2>3. CASE history' = history
      BY <2>1, <2>2, <2>3
  <2>4. CASE history'.applied = Append(history.applied, hook[h].event)
    <3>1. \A i \in DOMAIN history'.applied :
            \/ i \in DOMAIN history.applied /\ history'.applied[i] = history.applied[i]
            \/ i = Len(history.applied) + 1 /\ history'.applied[i] = hook[h].event
        BY <1>0, <2>4
    <3>2. QED
        BY <2>1, <2>2, <3>1
  <2>5. QED
      BY <2>1, <2>3, <2>4
<1>3. ASSUME NEW h \in Hook, Handle(h) \/ Mark(h) \/ RecordError(h) \/ HookFails(h)
      PROVE  Exclusive' /\ AppliedAtMostOnce'
  <2>1. /\ history' = history /\ hook[h].at # "idle"
        /\ \A g \in Hook \ {h} : hook'[g] = hook[g]
      BY <1>0, <1>3 DEF Handle, Mark, RecordError, HookFails, At, Leave
  <2>2. \A e \in 1..MaxEvents : claims[e] # Absent => claims'[e] # Absent
      BY <1>0, <1>3 DEF Handle, Mark, RecordError, HookFails, Absent
  <2>3. \/ hook'[h].at = "idle"
        \/ /\ hook'[h].event = hook[h].event
           /\ hook'[h].at \in {"handle", "apply"} => hook[h].at \in {"handle", "apply"}
      BY <1>0, <1>3 DEF Handle, Mark, RecordError, HookFails, At, Leave, Idle, Delivery
  <2>4. QED
      BY <1>0, <2>1, <2>2, <2>3
<1>4. CASE hook' = hook /\ claims' = claims /\ history'.applied = history.applied
    BY <1>4
<1>5. QED
    BY <1>1, <1>2, <1>3, <1>4, HookSteps

\* However often an event is delivered, it is applied once.
THEOREM AppliedOnce == Spec => []AppliedAtMostOnce
<1>1. Init => EventsBounded /\ Exclusive /\ AppliedAtMostOnce
    BY BillingBounds DEF Init, EventsBounded, Exclusive, AppliedAtMostOnce, Idle
<1>2. Types /\ EventsBounded /\ Exclusive /\ AppliedAtMostOnce /\ [Next]_vars
        => (Types /\ EventsBounded /\ Exclusive /\ AppliedAtMostOnce)'
    BY TypesStep, EventsBoundedStep, ExclusiveStep
<1>3. QED
    BY <1>1, <1>2, TypesInit, PTL DEF Spec

-----------------------------------------------------------------------------
(* One customer                                                             *)

Creating == {c \in Call : call[c].at \in {"create", "store"}}

\* Until calls overlap or a step fails, at most one call is making a customer, and
\* only where there is none; a customer made is stored, or about to be.
AtMostOneMade ==
    ~history.overlapped /\ failures = 0 =>
        /\ \A c, d \in Creating : c = d
        /\ Creating # {} => RawSees
        /\ \A c \in Call : call[c].at = "create" => customers = 0
        /\ \A c \in Call : call[c].at = "store" => call[c].seen # 0
        /\ customers \in {0, 1}
        /\ customers = 1 => tenant.customer # 0 \/ \E c \in Call : call[c].at = "store"

\* Overlaps and failures are not forgotten.
LEMMA TroubleStays ==
    ASSUME Types, [Next]_vars
    PROVE  /\ history.overlapped => history'.overlapped
           /\ failures # 0 => failures' # 0
           /\ RawSees' <=> RawSees
<1>1. failures' \in {failures, failures + 1}
    BY DEF Next, vars, OpenPage, Click, CallStep, CallFails, Load, CreateCustomer, StoreCustomer,
           OpenSession, StripeStep, CompleteCheckout, MakeByHand, ChangeSubscription, PaymentFails,
           CancelSubscription, Send, AnswerDuplicate, Claim, HookStep, HookFails, Handle, Apply,
           Mark, RecordError, OperatorChangesPlan, CallUnchanged, HookUnchanged
<1>2. ASSUME NEW c \in Call, Load(c)
      PROVE  history.overlapped => history'.overlapped
    BY <1>2 DEF Load, Types, BookType
<1>3. ASSUME NEW h \in Hook, Apply(h)
      PROVE  history.overlapped => history'.overlapped
    BY <1>3 DEF Apply, Types, BookType
<1>5. history.overlapped => history'.overlapped
    BY <1>2, <1>3 DEF Next, vars, OpenPage, Click, CallStep, CallFails, CreateCustomer,
       StoreCustomer, OpenSession, StripeStep, CompleteCheckout, MakeByHand, ChangeSubscription,
       PaymentFails, CancelSubscription, Send, AnswerDuplicate, Claim, HookStep, HookFails,
       Handle, Mark, RecordError, OperatorChangesPlan
<1>6. bypass' = bypass
    BY DEF Next, vars, OpenPage, Click, CallStep, CallFails, Load, CreateCustomer, StoreCustomer,
           OpenSession, StripeStep, CompleteCheckout, MakeByHand, ChangeSubscription, PaymentFails,
           CancelSubscription, Send, AnswerDuplicate, Claim, HookStep, HookFails, Handle, Apply,
           Mark, RecordError, OperatorChangesPlan, CallUnchanged, HookUnchanged
<1>7. RawSees' <=> RawSees
    BY <1>6 DEF RawSees, RLS!TenantSelect, RLS!NoSettings, RLS!TenantIsolation
<1>8. QED
    BY <1>1, <1>5, <1>7 DEF Types, BookType

\* The steps that make customers, and what all others leave of it.
LEMMA CustomerSteps ==
    ASSUME Types, [Next]_vars
    PROVE  \/ \E c \in Call : Load(c) \/ CreateCustomer(c) \/ StoreCustomer(c) \/ CallFails(c)
           \/ /\ customers' = customers
              /\ \A c \in Call : \/ call'[c] = call[c]
                                \/ /\ call[c].at \notin {"create", "store"}
                                   /\ call'[c].at \notin {"create", "store"}
<1>1. CASE \E c \in Call : OpenPage(c) \/ Click(c) \/ OpenSession(c) \/ CompleteCheckout(c)
  <2>1. PICK c \in Call : OpenPage(c) \/ Click(c) \/ OpenSession(c) \/ CompleteCheckout(c)
      BY <1>1
  <2>2. customers' = customers /\ \A d \in Call \ {c} : call'[d] = call[d]
      BY <2>1 DEF OpenPage, Click, OpenSession, CompleteCheckout, Send, Types, CallType
  <2>3. call[c].at \in {"unused", "page", "reload", "session"}
      BY <2>1 DEF OpenPage, Click, OpenSession, CompleteCheckout
  <2>4. call'[c].at \in {"page", "load", "session", "done"}
      BY <2>1 DEF OpenPage, Click, OpenSession, CompleteCheckout, NotCalled, Over, Types,
                  CallType, OwnerCall
  <2>5. QED
      BY <2>2, <2>3, <2>4
<1>2. CASE UNCHANGED <<call, customers>>
    BY <1>2
<1>3. CASE StripeStep
    BY <1>1, <1>2, <1>3 DEF StripeStep, MakeByHand, ChangeSubscription, PaymentFails,
                            CancelSubscription, Send
<1>4. CASE \E e \in 1..MaxEvents : AnswerDuplicate(e) \/ \E h \in Hook : Claim(h, e)
    BY <1>2, <1>4 DEF AnswerDuplicate, Claim, HookUnchanged
<1>5. CASE \E h \in Hook : HookStep(h) \/ HookFails(h)
    BY <1>2, <1>5 DEF HookStep, HookFails, Handle, Apply, Mark, RecordError, HookUnchanged
<1>6. CASE OperatorChangesPlan \/ UNCHANGED vars
    BY <1>2, <1>6 DEF OperatorChangesPlan, vars
<1>7. CASE \E c \in Call : Load(c) \/ CreateCustomer(c) \/ StoreCustomer(c) \/ CallFails(c)
    BY <1>7
<1>8. QED
    BY <1>1, <1>3, <1>4, <1>5, <1>6, <1>7 DEF Next, CallStep

\* The row's customer is written by StoreCustomer alone.
LEMMA CustomerKept ==
    ASSUME Types, [Next]_vars, ~\E c \in Call : StoreCustomer(c)
    PROVE  tenant'.customer = tenant.customer
<1>1. CASE \E h \in Hook : Apply(h)
  <2>1. PICK h \in Hook : Apply(h)
      BY <1>1
  <2>2. CASE tenant' = downgradeToFree
      BY <2>2, OtherRows DEF Types, RowType, TenantRow
  <2>3. CASE tenant' = applySubscriptionState(Delivered(h))
      BY <2>1, <2>3, AppliedStep, AppliedRow DEF Types
  <2>4. QED
      BY <2>1, <2>2, <2>3, AppliedStep
<1>2. CASE OperatorChangesPlan
    BY <1>2, OtherRows DEF OperatorChangesPlan, Types
<1>3. QED
    BY <1>1, <1>2, RowSteps

LEMMA AtMostOneMadeStep ==
    ASSUME Types, AtMostOneMade, [Next]_vars
    PROVE  AtMostOneMade'
<1> SUFFICES ASSUME ~history'.overlapped, failures' = 0
             PROVE  AtMostOneMade'
    BY DEF AtMostOneMade
<1>0. /\ ~history.overlapped /\ failures = 0
      /\ call \in [Call -> OwnerCall] /\ customers \in Nat /\ tenant.customer \in Nat
    BY TroubleStays DEF Types, CallType, StripeType, RowType, TenantRow
<1> USE <1>0 DEF AtMostOneMade, Creating
<1>1. ASSUME NEW c \in Call, Load(c)
      PROVE  AtMostOneMade'
  <2>1. /\ call[c].at = "load" /\ customers' = customers /\ tenant' = tenant
        /\ \A d \in Call \ {c} : call'[d] = call[d]
      BY <1>1 DEF Load, CallUnchanged
  <2>2. CASE call'[c].at = "create"
    <3>1. RawSees /\ tenant.customer = 0
        BY <1>1, <2>2 DEF Load, Onward, Over, NotCalled
    <3>2. \A d \in Call : call[d].at \notin {"create", "store"}
        BY <1>1, <2>1, <2>2 DEF Load, Types, BookType
    <3>3. customers = 0
        BY <3>1, <3>2
    <3>4. QED
        BY <2>1, <2>2, <3>1, <3>2, <3>3, TroubleStays
  <2>3. CASE call'[c].at # "create"
    <3>1. call'[c].at \notin {"create", "store"}
        BY <1>1, <2>3 DEF Load, Onward, Over, NotCalled, OwnerCall
    <3>2. QED
        BY <2>1, <3>1, TroubleStays
  <2>4. QED
      BY <2>2, <2>3
<1>2. ASSUME NEW c \in Call, CreateCustomer(c)
      PROVE  AtMostOneMade'
  <2>1. /\ call[c].at = "create" /\ customers = 0 /\ customers' = 1 /\ tenant' = tenant
        /\ call'[c].at = "store" /\ call'[c].seen = 1
        /\ \A d \in Call \ {c} : call'[d] = call[d]
      BY <1>2 DEF CreateCustomer, OwnerCall
  <2>2. QED
      BY <2>1, TroubleStays
<1>3. ASSUME NEW c \in Call, StoreCustomer(c)
      PROVE  AtMostOneMade'
  <2>1. /\ call[c].at = "store" /\ customers' = customers
        /\ call'[c].at \notin {"create", "store"}
        /\ \A d \in Call \ {c} : call'[d] = call[d]
      BY <1>3 DEF StoreCustomer, CallUnchanged, Onward, Over, NotCalled, OwnerCall
  <2>2. tenant'.customer # 0
      BY <1>3, <2>1, StoredRow
  <2>3. QED
      BY <2>1, <2>2, TroubleStays
<1>4. ASSUME NEW c \in Call, CallFails(c)
      PROVE  AtMostOneMade'
    BY <1>4 DEF CallFails
<1>5. CASE /\ customers' = customers
           /\ \A c \in Call : \/ call'[c] = call[c]
                             \/ /\ call[c].at \notin {"create", "store"}
                                /\ call'[c].at \notin {"create", "store"}
  <2>1. CASE \E c \in Call : StoreCustomer(c)
      BY <1>3, <2>1
  <2>2. CASE ~\E c \in Call : StoreCustomer(c)
      BY <1>5, <2>2, CustomerKept, TroubleStays
  <2>3. QED
      BY <2>1, <2>2
<1>6. QED
    BY <1>1, <1>2, <1>3, <1>4, <1>5, CustomerSteps

\* One restaurant is one customer at Stripe until calls overlap or a step fails.
THEOREM OneCustomerMade == Spec => []OneCustomer
<1>1. Init => AtMostOneMade
    BY DEF Init, AtMostOneMade, Creating, NotCalled
<1>2. Types /\ AtMostOneMade => OneCustomer
    BY DEF AtMostOneMade, OneCustomer, Types, BookType
<1>3. Types /\ AtMostOneMade /\ [Next]_vars => (Types /\ AtMostOneMade)'
    BY TypesStep, AtMostOneMadeStep
<1>4. QED
    BY <1>1, <1>2, <1>3, TypesInit, PTL DEF Spec
-----------------------------------------------------------------------------
(* The last word                                                            *)

\* An event no later one of its subscription overrides says what Stripe has.
Current(e) ==
    /\ events[e].type # "payment_failed"
    /\ \A f \in DOMAIN events :
         f > e /\ events[f].type # "payment_failed" => events[f].sub # events[e].sub

EventsTellSubs ==
    \A e \in DOMAIN events :
        /\ Current(e) => /\ events[e].status = subs[events[e].sub].status
                         /\ events[e].price = subs[events[e].sub].price
        /\ events[e].type = "deleted" => events[e].status = "canceled"

\* Until the operator steps in, the row says what the event applied last said.
RowTellsApplied ==
    operator = 0 /\ history.applied # <<>> =>
        LET e == events[history.applied[Len(history.applied)]] IN
        IF e.type = "deleted" THEN tenant.plan = "FREE"
        ELSE tenant.plan = PlanOf(e) /\ tenant.status = normaliseStatus(e.status)

\* A subscription Stripe moves is announced by the event it sends.
LEMMA SentTells ==
    ASSUME Types, EventsTellSubs, NEW type \in EventType, NEW s \in Sub,
           NEW new \in Subscription, Send(type, s, new),
           type = "payment_failed" => new = subs[s],
           type = "deleted" => new.status = "canceled"
    PROVE  EventsTellSubs'
<1> DEFINE event == [type |-> type, sub |-> s, status |-> new.status, price |-> new.price,
                     metadata |-> new.metadata, customer |-> new.customer]
           n == Len(events) + 1
<1>1. /\ event.type = type /\ event.sub = s /\ event.status = new.status
      /\ event.price = new.price /\ event \in SentEvent
    BY DEF SentEvent, Subscription
<1>2. events' = Append(events, event) /\ subs' = [subs EXCEPT ![s] = new]
    BY DEF Send
<1> HIDE DEF event
<1>3. /\ events \in Seq(SentEvent) /\ subs \in [Sub -> Subscription]
      /\ \A e \in DOMAIN events : events[e] \in SentEvent /\ events[e].sub \in Sub
  <2>1. events \in Seq(SentEvent) /\ subs \in [Sub -> Subscription]
      BY DEF Types, StripeType
  <2>2. \A e \in DOMAIN events : events[e] \in SentEvent
      BY <2>1
  <2>3. \A x \in SentEvent : x.sub \in Sub
      BY DEF SentEvent
  <2>4. QED
      BY <2>1, <2>2, <2>3
<1>4. /\ DOMAIN events' = DOMAIN events \cup {n} /\ n \in Nat /\ events'[n] = event
      /\ \A e \in DOMAIN events : events'[e] = events[e] /\ e < n /\ e \in Nat
    BY <1>1, <1>2, <1>3
<1>5. subs'[s] = new /\ \A t \in Sub \ {s} : subs'[t] = subs[t]
    BY <1>2, <1>3
<1> SUFFICES ASSUME NEW e \in DOMAIN events'
             PROVE  /\ Current(e)' => /\ events'[e].status = subs'[events'[e].sub].status
                                      /\ events'[e].price = subs'[events'[e].sub].price
                    /\ events'[e].type = "deleted" => events'[e].status = "canceled"
    BY DEF EventsTellSubs
<1>6. CASE e = n
    BY <1>1, <1>4, <1>5, <1>6 DEF Current
<1>7. CASE e # n
  <2>1. e \in DOMAIN events /\ events'[e] = events[e] /\ e < n
      BY <1>4, <1>7
  <2>2. Current(e)' => Current(e)
      BY <1>4, <2>1 DEF Current
  <2>3. Current(e)' /\ type # "payment_failed" => events[e].sub # s
      BY <1>1, <1>4, <2>1 DEF Current
  <2>4. Current(e)' => subs'[events[e].sub] = subs[events[e].sub]
      BY <1>3, <1>5, <2>1, <2>3
  <2>5. QED
      BY <2>1, <2>2, <2>4 DEF EventsTellSubs
<1>8. QED
    BY <1>6, <1>7

\* Every step that sends an event says what became of the subscription.
LEMMA SubsTold ==
    ASSUME Types, EventsTellSubs, [Next]_vars
    PROVE  EventsTellSubs'
<1>1. CASE UNCHANGED <<events, subs>>
    BY <1>1 DEF EventsTellSubs, Current
<1>2. ASSUME NEW c \in Call, CompleteCheckout(c) PROVE EventsTellSubs'
  <2>1. call[c] \in OwnerCall
      BY DEF Types, CallType
  <2>2. PICK s \in Sub :
          Send("created", s, [status |-> IF call[c].trial THEN "trialing" ELSE "active",
                              price |-> call[c].plan, customer |-> call[c].seen, metadata |-> call[c].plan])
      BY <1>2 DEF CompleteCheckout
  <2>3. [status |-> IF call[c].trial THEN "trialing" ELSE "active",
         price |-> call[c].plan, customer |-> call[c].seen, metadata |-> call[c].plan] \in Subscription
      BY <2>1 DEF Subscription, AnyStatus, AnyPrice, AnyTag, OwnerCall
  <2>4. QED
      BY <2>2, <2>3, SentTells DEF EventType
<1>3. ASSUME NEW s \in Sub, MakeByHand(s) PROVE EventsTellSubs'
  <2>1. PICK customer \in 1..customers, price \in HandPrice :
          Send("created", s, [status |-> "active", price |-> price, customer |-> customer,
                              metadata |-> Untagged])
      BY <1>3 DEF MakeByHand
  <2>2. [status |-> "active", price |-> price, customer |-> customer, metadata |-> Untagged]
          \in Subscription
      BY NewPriceType DEF Subscription, AnyStatus, AnyPrice, AnyTag, Price, PLAN_IDS, Types, StripeType
  <2>3. QED
      BY <2>1, <2>2, SentTells DEF EventType
<1>4. ASSUME NEW s \in Sub, ChangeSubscription(s) PROVE EventsTellSubs'
  <2>1. subs[s] \in Subscription
      BY DEF Types, StripeType
  <2>2. PICK new \in {[subs[s] EXCEPT !.status = status] : status \in StripeStatus}
                    \cup {[subs[s] EXCEPT !.price = price] : price \in NewPrice} :
          Send("updated", s, new)
      BY <1>4 DEF ChangeSubscription
  <2>3. new \in Subscription
      BY <2>1, NewPriceType DEF Subscription, AnyStatus, AnyPrice, Price, PLAN_IDS
  <2>4. QED
      BY <2>2, <2>3, SentTells DEF EventType
<1>5. ASSUME NEW s \in Sub, PaymentFails(s) PROVE EventsTellSubs'
  <2>1. subs[s] \in Subscription
      BY DEF Types, StripeType
  <2>2. QED
      BY <1>5, <2>1, SentTells DEF PaymentFails, EventType
<1>6. ASSUME NEW s \in Sub, CancelSubscription(s) PROVE EventsTellSubs'
  <2>1. subs[s] \in Subscription
      BY DEF Types, StripeType
  <2>2. /\ [subs[s] EXCEPT !.status = "canceled"] \in Subscription
        /\ [subs[s] EXCEPT !.status = "canceled"].status = "canceled"
      BY <2>1 DEF Subscription, AnyStatus
  <2>3. QED
      BY <1>6, <2>2, SentTells DEF CancelSubscription, EventType
<1>7. QED
    BY <1>1, <1>2, <1>3, <1>4, <1>5, <1>6 DEF Next, vars, StripeStep, OpenPage, Click, CallStep,
       CallFails, Load, CreateCustomer, StoreCustomer, OpenSession, AnswerDuplicate, Claim,
       HookStep, HookFails, Handle, Apply, Mark, RecordError, OperatorChangesPlan,
       CallUnchanged, HookUnchanged, StripeUnchanged

\* A step that applies nothing leaves what was applied as it was said.
LEMMA AppliedStands ==
    ASSUME Types, RowTellsApplied, [Next]_vars,
           history'.applied = history.applied, operator' = 0 => operator = 0,
           tenant'.plan = tenant.plan, tenant'.status = tenant.status
    PROVE  RowTellsApplied'
<1> DEFINE n == Len(history.applied)
<1>1. history.applied # <<>> => n \in DOMAIN history.applied
    BY DEF Types, BookType
<1>2. history.applied # <<>> => events'[history.applied[n]] = events[history.applied[n]]
    BY <1>1, EventsStay DEF Types, BookType
<1>3. QED
    BY <1>2 DEF RowTellsApplied

LEMMA RowTold ==
    ASSUME Types, RowTellsApplied, [Next]_vars
    PROVE  RowTellsApplied'
<1>0. operator' = 0 => operator = 0
  <2>1. OperatorChangesPlan \/ operator' = operator
      BY DEF Next, vars, OpenPage, Click, CallStep, CallFails, Load, CreateCustomer,
         StoreCustomer, OpenSession, StripeStep, CompleteCheckout, MakeByHand,
         ChangeSubscription, PaymentFails, CancelSubscription, Send, AnswerDuplicate, Claim,
         HookStep, HookFails, Handle, Apply, Mark, RecordError, CallUnchanged, HookUnchanged
  <2>2. OperatorChangesPlan => operator' # 0
      BY DEF OperatorChangesPlan, Types, BookType
  <2>3. QED
      BY <2>1, <2>2
<1>1. CASE \E c \in Call : StoreCustomer(c)
  <2>1. /\ tenant'.plan = tenant.plan /\ tenant'.status = tenant.status
        /\ history' = history
      BY <1>1 DEF StoreCustomer, RawUpdate, Stored, Types, RowType, TenantRow
  <2>2. QED
      BY <1>0, <2>1, AppliedStands
<1>2. CASE \E h \in Hook : Apply(h)
  <2>1. PICK h \in Hook : Apply(h)
      BY <1>2
  <2>2. CASE tenant' = tenant /\ history' = history
      BY <1>0, <2>2, AppliedStands
  <2>3. CASE /\ tenant' = IF Delivered(h).type = "deleted" THEN downgradeToFree
                          ELSE applySubscriptionState(Delivered(h))
             /\ history'.applied = Append(history.applied, hook[h].event)
    <3>1. /\ history.applied \in Seq(Nat) /\ hook[h].event \in Nat /\ events' = events
          /\ Delivered(h) = events[hook[h].event]
        BY <2>1 DEF Apply, HookUnchanged, Types, BookType, HookType, Delivery, Delivered
    <3>2. history'.applied[Len(history'.applied)] = hook[h].event
        BY <2>3, <3>1
    <3>3. Delivered(h).type = "deleted" => tenant'.plan = "FREE"
        BY <2>3 DEF downgradeToFree, Types, RowType, TenantRow
    <3>4. Delivered(h).type # "deleted" =>
            /\ tenant'.plan = PlanOf(Delivered(h))
            /\ tenant'.status = normaliseStatus(Delivered(h).status)
        BY <2>3 DEF applySubscriptionState, Types, RowType, TenantRow
    <3>5. QED
        BY <3>1, <3>2, <3>3, <3>4 DEF RowTellsApplied
  <2>4. QED
      BY <2>1, <2>2, <2>3 DEF Apply, RawUpdate, Types, BookType
<1>3. CASE OperatorChangesPlan
  <2>1. operator' # 0
      BY <1>3 DEF OperatorChangesPlan, Types, BookType
  <2>2. QED
      BY <2>1 DEF RowTellsApplied
<1>4. CASE tenant' = tenant /\ history'.applied = history.applied
    BY <1>0, <1>4, AppliedStands
<1>5. QED
    BY <1>1, <1>2, <1>3, <1>4, RowSteps

\* Our words entitle exactly when Stripe's do.
LEMMA EntitledAlike ==
    ASSUME NEW status, NEW plan \in PLAN_IDS,
           NEW t, t.plan = plan, t.status = normaliseStatus(status)
    PROVE  effectivePlan(t) = IF status \in Entitling THEN plan ELSE "FREE"
<1>1. normaliseStatus(status) \in ENTITLED_STATUSES <=> status \in Entitling
    BY DEF normaliseStatus, ENTITLED_STATUSES, Entitling
<1>2. QED
    BY <1>1 DEF effectivePlan

\* Whatever deliveries overlapped, failed and came late before it, the last word
\* decides which plan the restaurant has.
THEOREM LastWordAlwaysDecides == Spec => []LastWordDecides
<1>1. Init => EventsTellSubs /\ RowTellsApplied
    BY DEF Init, EventsTellSubs, RowTellsApplied
<1>2. Types /\ EventsTellSubs /\ RowTellsApplied /\ [Next]_vars
        => (Types /\ EventsTellSubs /\ RowTellsApplied)'
    BY TypesStep, SubsTold, RowTold
<1>3. Types /\ EventsTellSubs /\ RowTellsApplied => LastWordDecides
  <2> SUFFICES ASSUME Types, EventsTellSubs, RowTellsApplied, NEW e \in DOMAIN events,
                      LastWord(e), operator = 0, history.applied # <<>>,
                      history.applied[Len(history.applied)] = e,
                      NEW paid, paid = subs[events[e].sub],
                      paid.status \in Entitling => paid.price # Unknown
               PROVE  effectivePlan(tenant)
                        = (IF paid.status \in Entitling THEN paid.price ELSE "FREE")
      BY DEF LastWordDecides, Alone
  <2>1. events[e].status = paid.status /\ events[e].price = paid.price
      BY DEF EventsTellSubs, LastWord, Current
  <2>2. events[e] \in SentEvent
      BY DEF Types, StripeType
  <2>3. CASE events[e].type = "deleted"
    <3>1. paid.status = "canceled" /\ tenant.plan = "FREE"
        BY <2>1, <2>3 DEF EventsTellSubs, RowTellsApplied
    <3>2. QED
        BY <3>1 DEF effectivePlan, Entitling
  <2>4. CASE events[e].type # "deleted"
    <3>1. tenant.plan = PlanOf(events[e]) /\ tenant.status = normaliseStatus(events[e].status)
        BY <2>4 DEF RowTellsApplied
    <3>2. PlanOf(events[e]) \in PLAN_IDS
        BY <2>2, PlansOf
    <3>3. effectivePlan(tenant)
            = IF paid.status \in Entitling THEN PlanOf(events[e]) ELSE "FREE"
        BY <2>1, <3>1, <3>2, EntitledAlike
    <3>4. paid.status \in Entitling => PlanOf(events[e]) = paid.price
        BY <2>1 DEF PlanOf, planForPriceId
    <3>5. QED
        BY <3>3, <3>4
  <2>5. QED
      BY <2>3, <2>4
<1>4. QED
    BY <1>1, <1>2, <1>3, TypesInit, PTL DEF Spec

=============================================================================

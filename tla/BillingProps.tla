----------------------------- MODULE BillingProps -----------------------------
(***************************************************************************)
(* What a restaurant's subscription and its limits promise.                *)
(***************************************************************************)
EXTENDS Billing

\* Every variable has its type.
TypeOK ==
    /\ bypass \in BOOLEAN
    /\ tenant \in [plan : PLAN_IDS, status : OurStatus, customer : Nat, sub : Sub \cup {NoSub},
                   pastDueSince : Nat]
    /\ \A s \in Sub : /\ subs[s].price \in Price /\ subs[s].metadata \in Metadata
                      /\ subs[s].status \in StripeStatus \cup {Absent, "trialing", "active", "canceled"}
    /\ acked \subseteq DOMAIN events
    /\ claims \in [1..MaxEvents -> {Absent, "claimed", "processed", "failed"}]
    /\ \A h \in Hook : /\ hook[h].at \in {"idle", "handle", "apply", "mark", "record"}
                       /\ hook[h].event \in 0..Len(events)
    /\ \A c \in Call : call[c].kind \in Kind /\ call[c].plan \in PLAN_IDS

\* However often Stripe delivers an event, and however the deliveries
\* overlap, fail and restart, it is applied to the restaurant once
\* (claimEvent's unique index, webhooks/stripe/billing/route.ts).
AppliedAtMostOnce ==
    \A i, j \in DOMAIN history.applied : history.applied[i] = history.applied[j] => i = j

\* The grace period's clock is set exactly while the restaurant is past due,
\* whoever wrote the row last: an event, a cancellation or the operator.
ClockRunsWhilePastDue == (tenant.pastDueSince # 0) <=> (tenant.status = "PAST_DUE")

\* A clock that runs is not moved: a second failed payment does not extend
\* the grace period (COALESCE in applySubscriptionState).
GraceIsNotExtended ==
    [][tenant.pastDueSince # 0 => tenant'.pastDueSince \in {0, tenant.pastDueSince}]_vars

Entitling == {"trialing", "active", "past_due", "unpaid"}

\* The last event Stripe sent that changes a restaurant: all after it only
\* announce a payment that failed.
LastWord(e) ==
    /\ events[e].type # "payment_failed"
    /\ \A f \in DOMAIN events : f > e => events[f].type = "payment_failed"

\* Nobody else's word is in force: the operator changed nothing, and no other
\* subscription of the restaurant is paid for.
Alone(e) == operator = 0 /\ \A s \in Sub \ {events[e].sub} : subs[s].status \notin Entitling

\* The last word decides: once the last event Stripe sent is the last one
\* applied, in whatever order and however often the others were, the restaurant gets
\* the plan it pays for: a checkout's price and the portal's, the grace period and the
\* end of the subscription included. Left out is what the code gets wrong or guesses.
\* With a second subscription paid for, the restaurant has the plan of whichever spoke
\* last: the end of one makes it FREE while it pays for the other (downgradeToFree asks
\* for no id). At a price that is none of the settings' it has the plan its checkout
\* was for, or FREE (applySubscription, webhooks/stripe/billing/route.ts:136-140).
LastWordDecides ==
    \A e \in DOMAIN events :
        LET paid == subs[events[e].sub] IN
        (/\ LastWord(e) /\ Alone(e)
         /\ paid.status \in Entitling => paid.price # Unknown
         /\ history.applied # <<>> /\ history.applied[Len(history.applied)] = e)
        => effectivePlan(tenant) = (IF paid.status \in Entitling THEN paid.price ELSE "FREE")

\* Cancelling and subscribing again does not start a second trial: no checkout
\* offers one once a subscription was recorded (createSubscriptionCheckout,
\* which relies on downgradeToFree keeping the subscription's id).
NoSecondTrial ==
    [][\A c \in Call :
         (call[c].at = "reload" /\ call'[c].at = "session" /\ call'[c].trial)
         => ~\E i \in DOMAIN history.applied : events[history.applied[i]].type # "deleted"]_vars

\* One restaurant is one customer at Stripe, unless two calls overlapped between
\* reading and storing it or a step failed in between (ensureCustomer).
OneCustomer ==
    customers > 1 => history.overlapped \/ failures > 0

=============================================================================

------------------------------- MODULE Payments --------------------------------
(***************************************************************************)
(* Diner payments of one order: modules/payments/payment.service.ts        *)
(* (startPayment, verifyAndRecord, recordOutcome, refundPayment,           *)
(* recordCounterPayment) and app/api/webhooks/stripe/orders/route.ts.      *)
(* Payments of different orders share no row, so the module follows one.   *)
(*                                                                         *)
(* Every database call is a transaction of its own, and every call to a    *)
(* provider is an await: whatever was read before it may be stale after.   *)
(* The provider is modelled from how the code uses it: a checkout is open, *)
(* approved (bKash, not captured yet), paid or closed; it reports what     *)
(* happened to a checkout when asked; Stripe also posts events until they  *)
(* are answered 200; it never gives back more than was paid.               *)
(*                                                                         *)
(* Three kinds of actors run concurrently:                                 *)
(*   start[p]   startPayment of payment p: none, checked, created,         *)
(*              ready (the diner was redirected), refused, lost            *)
(*   job[h]     a Handler runs one verifyAndRecord, refundPayment or       *)
(*              recordCounterPayment and is done                           *)
(*   job[e]     an Event <<p, outcome>> of the webhook: none, due, the     *)
(*              steps of its handler, acked                                *)
(* A recording passes recording (payment not read yet), writing (found     *)
(* not settled) and settling (payment written, order not). Every one of    *)
(* these writes ends by publishing the order, the notice of                *)
(* OrderLifecycle. A definition marked "mutant" is a wrong variant of the  *)
(* next one.                                                               *)
(***************************************************************************)
EXTENDS Naturals, FiniteSets

CONSTANTS
    Payment,        \* rows the payments table may get
    Handler,        \* verifications, refunds and counter payments
    Provider,       \* the online providers that are configured
    Amount,         \* what the order costs
    None,           \* no payment
    MaxEvents,      \* bound: events Stripe posts
    MaxFailures     \* bound: failed statements and crashes

ASSUME ProviderType == Provider \subseteq {"STRIPE", "BKASH"}
ASSUME AmountType == Amount \in Nat \ {0}
ASSUME NoneFresh == None \notin Payment
ASSUME MaxEventsType == MaxEvents \in Nat
ASSUME MaxFailuresType == MaxFailures \in Nat

VARIABLES
    orderStatus,    \* orders.paymentStatus
    pay,            \* payments and the total of their payment_refunds
    start,          \* startPayment of each payment
    charge,         \* the provider's side: state of the checkout, money given back
    job,            \* handlers and webhook deliveries
    claimed,        \* events with a row in webhook_events
    processed,      \* events whose row has processedAt
    failures,       \* failed statements and crashes so far
    (* History, which no action reads. *)
    declined,       \* payments the provider once said FAILED of
    overwritten     \* payments a refund wrote a total to that had changed since it read it

vars == <<orderStatus, pay, start, charge, job, claimed, processed, failures,
          declined, overwritten>>
history == <<declined, overwritten>>

Verdict == {"PAID", "FAILED", "CANCELLED"}
Event == Payment \X Verdict
Runner == Handler \cup Event

ASSUME HandlerFresh == Handler \cap Event = {}

Refunding == {"REFUNDED", "PARTIALLY_REFUNDED"}
PaidLike == {"PAID"} \cup Refunding
PaymentStatus == {"NONE", "PENDING", "FAILED", "CANCELLED"} \cup PaidLike
OrderStatus == {"PENDING", "FAILED"} \cup PaidLike

Row == [via : Provider \cup {"COUNTER", "NONE"}, status : PaymentStatus,
        ref : {"none", "session", "trx"}, refunded : 0..Amount, logged : Nat]

Step == {"asking", "recording", "writing", "settling", "marking",
         "refunding", "returned", "logged", "refunded", "counting", "counted"}

\* died: the step a failure ended it at, which is history too.
Job == [at : Step \cup {"idle", "none", "due", "acked", "done"},
        died : Step \cup {"no"}, pay : Payment \cup {None}, outcome : Verdict \cup {"PENDING"},
        ref : {"none", "session", "trx"}, amount : 0..Amount, seen : 0..Amount]

Blank(at) == [at |-> at, died |-> "no", pay |-> None, outcome |-> "PENDING", ref |-> "none",
              amount |-> 0, seen |-> 0]

\* A delivery of event e as it reaches the route.
Delivery(e, at) == [Blank(at) EXCEPT !.pay = e[1], !.outcome = e[2]]

Advance(r, at) == job' = [job EXCEPT ![r].at = at]

\* A recording returns to its caller: the page, or the route that still has
\* to mark the event.
Return(r) == job' = [job EXCEPT ![r] = IF r \in Event THEN [@ EXCEPT !.at = "marking"]
                                                     ELSE Blank("done")]

\* recordOutcome's guard: these payments never move again.
NeverTerminal(status) == FALSE                          \* mutant
Terminal(status) == status \in {"PAID", "REFUNDED"}

\* verifyPayment: the verdict and what the question makes of the checkout. Stripe
\* looks the session up.
StripeAnswers(p) ==
    LET verdict == CASE charge[p].state = "paid" -> "PAID"
                     [] charge[p].state = "closed" -> "CANCELLED"
                     [] OTHER -> "PENDING"
    IN  {<<verdict, charge[p].state>>}

\* bKash executes an approved payment, or says what became of it. An execute that
\* is not clearly Completed is followed by a query, and a query whose status is
\* none of three, or missing, as it is for a trxID, is recorded as FAILED,
\* whether the execute captured the money or not.
BkashAnswers(p, ref) ==
    LET state == charge[p].state
        clear == CASE state = "approved" -> {<<"PAID", "paid">>, <<"PENDING", "approved">>}
                   [] state = "paid" -> {<<"PAID", "paid">>}
                   [] state = "closed" -> {<<"CANCELLED", "closed">>}
                   [] OTHER -> {<<"PENDING", state>>}
        unclear == {"FAILED"} \X (IF state = "approved" THEN {"approved", "paid"} ELSE {state})
    IN  IF ref = "trx" THEN {<<"FAILED", state>>} ELSE clear \cup unclear

\* The payment's provider, asked about the reference the caller read.
AnswersTrusting(p, ref) == {<<"PAID", charge[p].state>>}    \* mutant
AnswersUnexecuted(p, ref) ==                                \* mutant
    IF charge[p].state = "approved" THEN {<<"PENDING", "paid">>} ELSE {<<"PAID", charge[p].state>>}
Answers(p, ref) == IF pay[p].via = "BKASH" THEN BkashAnswers(p, ref) ELSE StripeAnswers(p)

\* A verdict the order hears of: a cancellation leaves it alone.
SettlesDeclines(verdict) == verdict = "FAILED"          \* mutant
Settles(verdict) == verdict # "CANCELLED"

\* Nothing stands in the way of one more payment of the order.
OrderOpen == orderStatus # "PAID"

\* refundedTotal, from the refundedCents read before the provider was called.
RefundTotalWhole(r) == Amount                           \* mutant
RefundTotalDoubled(r) == job[r].seen + 2 * job[r].amount    \* mutant
RefundTotal(r) == job[r].seen + job[r].amount

\* paymentRefund.create: one more row.
Logged(r) == pay[job[r].pay].logged + job[r].amount

RefundStatus(total) == IF total >= Amount THEN "REFUNDED" ELSE "PARTIALLY_REFUNDED"

-------------------------------------------------------------------------------

Init ==
    /\ orderStatus = "PENDING"
    /\ pay = [p \in Payment |-> [via |-> "NONE", status |-> "NONE", ref |-> "none",
                                 refunded |-> 0, logged |-> 0]]
    /\ start = [p \in Payment |-> "none"]
    /\ charge = [p \in Payment |-> [state |-> "none", returned |-> 0]]
    /\ job = [r \in Runner |-> IF r \in Event THEN Delivery(r, "none") ELSE Blank("idle")]
    /\ claimed = {}
    /\ processed = {}
    /\ failures = 0
    /\ declined = {}
    /\ overwritten = {}

(* startPayment *)

\* The order is read; a paid one is refused.
StartCheck(p) ==
    /\ start[p] = "none" /\ pay[p].status = "NONE"
    /\ OrderOpen
    /\ start' = [start EXCEPT ![p] = "checked"]
    /\ UNCHANGED <<orderStatus, pay, charge, job, claimed, processed, failures, history>>

StartCreate(p) ==
    /\ start[p] = "checked" /\ pay[p].status = "NONE"
    /\ \E via \in Provider :
           pay' = [pay EXCEPT ![p].via = via, ![p].status = "PENDING"]
    /\ start' = [start EXCEPT ![p] = "created"]
    /\ UNCHANGED <<orderStatus, charge, job, claimed, processed, failures, history>>

\* provider.createPayment opens a checkout and its reference is stored; the
\* diner is sent there.
StartOpen(p) ==
    /\ start[p] = "created"
    /\ charge' = [charge EXCEPT ![p].state = "open"]
    /\ pay' = [pay EXCEPT ![p].ref = "session"]
    /\ start' = [start EXCEPT ![p] = "ready"]
    /\ UNCHANGED <<orderStatus, job, claimed, processed, failures, history>>

\* A checkout nobody was sent to may be left behind.
MaybeOpen(p) == \E state \in {"none", "open"} : charge' = [charge EXCEPT ![p].state = state]

\* createPayment, or storing what it returned, throws: the attempt is marked
\* FAILED and the diner is never redirected.
StartRefused(p) ==
    /\ start[p] = "created"
    /\ pay' = [pay EXCEPT ![p].status = "FAILED"]
    /\ start' = [start EXCEPT ![p] = "refused"]
    /\ MaybeOpen(p)
    /\ UNCHANGED <<orderStatus, job, claimed, processed, failures, history>>

\* The server dies on the way: the row stays PENDING.
StartLost(p) ==
    /\ start[p] = "created"
    /\ failures < MaxFailures
    /\ start' = [start EXCEPT ![p] = "lost"]
    /\ failures' = failures + 1
    /\ MaybeOpen(p)
    /\ UNCHANGED <<orderStatus, pay, job, claimed, processed, history>>

-------------------------------------------------------------------------------
(* The diner and the provider.                                             *)

\* Stripe will post this event about p.
Emit(p, verdict) ==
    /\ Cardinality({e \in Event : job[e].at # "none"}) < MaxEvents
    /\ job' = [job EXCEPT ![<<p, verdict>>].at = "due"]

\* The diner pays: a card is charged there and then, bKash waits for execute.
DinerPays(p) ==
    /\ start[p] = "ready" /\ charge[p].state = "open"
    /\ \/ /\ pay[p].via = "STRIPE"
          /\ charge' = [charge EXCEPT ![p].state = "paid"]
          /\ Emit(p, "PAID")
       \/ /\ pay[p].via = "BKASH"
          /\ charge' = [charge EXCEPT ![p].state = "approved"]
          /\ UNCHANGED job
    /\ UNCHANGED <<orderStatus, pay, start, claimed, processed, failures, history>>

\* A card is declined; the checkout stays open for another try.
CardDeclined(p) ==
    /\ start[p] = "ready" /\ charge[p].state = "open"
    /\ pay[p].via = "STRIPE"
    /\ job[<<p, "FAILED">>].at = "none"
    /\ Emit(p, "FAILED")
    /\ declined' = declined \cup {p}
    /\ UNCHANGED <<orderStatus, pay, start, charge, claimed, processed, failures, overwritten>>

\* Nobody paid: the checkout expires, or the diner cancels it at bKash.
CheckoutCloses(p) ==
    /\ charge[p].state = "open"
    /\ charge' = [charge EXCEPT ![p].state = "closed"]
    /\ IF pay[p].via = "STRIPE" THEN Emit(p, "CANCELLED") ELSE UNCHANGED job
    /\ UNCHANGED <<orderStatus, pay, start, claimed, processed, failures, history>>

-------------------------------------------------------------------------------
(* recordOutcome, called by verifyAndRecord and by the webhook.            *)

RecordRead(r) ==
    /\ job[r].at = "recording"
    /\ IF Terminal(pay[job[r].pay].status) \/ job[r].outcome = "PENDING"
         THEN Return(r)
         ELSE Advance(r, "writing")
    /\ UNCHANGED <<orderStatus, pay, start, charge, claimed, processed, failures, history>>

\* payment.update by id.
RecordPayment(r) ==
    /\ job[r].at = "writing"
    /\ LET p == job[r].pay IN
           pay' = [pay EXCEPT ![p].status = job[r].outcome,
                              ![p].ref = IF job[r].outcome # "PAID" THEN @
                                         ELSE IF pay[p].via = "BKASH" THEN "trx" ELSE "session"]
    /\ IF Settles(job[r].outcome) THEN Advance(r, "settling") ELSE Return(r)
    /\ UNCHANGED <<orderStatus, start, charge, claimed, processed, failures, history>>

\* order.update, in a transaction of its own.
RecordOrder(r) ==
    /\ job[r].at = "settling"
    /\ orderStatus' = job[r].outcome
    /\ Return(r)
    /\ UNCHANGED <<pay, start, charge, claimed, processed, failures, history>>

(* verifyAndRecord: the diner's browser comes back, or reloads the page. *)

\* A payment already PAID, or without a reference, is answered at once.
VerifyRead(h, p) ==
    /\ job[h].at = "idle"
    /\ pay[p].status \notin {"NONE", "PAID"} /\ pay[p].ref # "none"
    /\ job' = [job EXCEPT ![h] = [Blank("asking") EXCEPT !.pay = p, !.ref = pay[p].ref]]
    /\ UNCHANGED <<orderStatus, pay, start, charge, claimed, processed, failures, history>>

VerifyAsk(h) ==
    /\ job[h].at = "asking"
    /\ LET p == job[h].pay IN
           \E answer \in Answers(p, job[h].ref) :
               /\ job' = [job EXCEPT ![h].at = "recording", ![h].outcome = answer[1]]
               /\ charge' = [charge EXCEPT ![p].state = answer[2]]
               /\ declined' = IF answer[1] = "FAILED" THEN declined \cup {p} ELSE declined
    /\ UNCHANGED <<orderStatus, pay, start, claimed, processed, failures, overwritten>>

(* The webhook route. *)

\* The event is claimed by inserting its row; one that was claimed before is
\* answered 200 as a duplicate.
HookClaim(e) ==
    /\ job[e].at = "due"
    /\ Advance(e, IF e \in claimed THEN "acked" ELSE "recording")
    /\ claimed' = claimed \cup {e}
    /\ UNCHANGED <<orderStatus, pay, start, charge, processed, failures, history>>

HookProcessed(e) ==
    /\ job[e].at = "marking"
    /\ Advance(e, "acked")
    /\ processed' = processed \cup {e}
    /\ UNCHANGED <<orderStatus, pay, start, charge, claimed, failures, history>>

-------------------------------------------------------------------------------
(* refundPayment *)

\* Only a paid payment with a reference, and at most what the row says is left.
RefundCheck(h, p, amount) ==
    /\ job[h].at = "idle"
    /\ pay[p].status \in {"PAID", "PARTIALLY_REFUNDED"} /\ pay[p].ref # "none"
    /\ amount <= Amount - pay[p].refunded
    /\ job' = [job EXCEPT ![h] = [Blank("refunding") EXCEPT
                   !.pay = p, !.amount = amount, !.seen = pay[p].refunded]]
    /\ UNCHANGED <<orderStatus, pay, start, charge, claimed, processed, failures, history>>

\* provider.refund moves the money, or throws when that much is not there.
RefundCall(h) ==
    /\ job[h].at = "refunding"
    /\ LET p == job[h].pay
           total == charge[p].returned + job[h].amount
       IN  IF charge[p].state = "paid" /\ total <= Amount
             THEN /\ charge' = [charge EXCEPT ![p].returned = total]
                  /\ Advance(h, "returned")
             ELSE /\ job' = [job EXCEPT ![h] = Blank("done")]
                  /\ UNCHANGED charge
    /\ UNCHANGED <<orderStatus, pay, start, claimed, processed, failures, history>>

RefundLog(h) ==
    /\ job[h].at = "returned"
    /\ pay' = [pay EXCEPT ![job[h].pay].logged = Logged(h)]
    /\ Advance(h, "logged")
    /\ UNCHANGED <<orderStatus, start, charge, claimed, processed, failures, history>>

RefundPayment(h) ==
    /\ job[h].at = "logged"
    /\ pay' = [pay EXCEPT ![job[h].pay].refunded = RefundTotal(h),
                          ![job[h].pay].status = RefundStatus(RefundTotal(h))]
    /\ Advance(h, "refunded")
    /\ overwritten' = IF pay[job[h].pay].refunded = job[h].seen THEN overwritten
                      ELSE overwritten \cup {job[h].pay}
    /\ UNCHANGED <<orderStatus, start, charge, claimed, processed, failures, declined>>

RefundOrder(h) ==
    /\ job[h].at = "refunded"
    /\ orderStatus' = RefundStatus(RefundTotal(h))
    /\ job' = [job EXCEPT ![h] = Blank("done")]
    /\ UNCHANGED <<pay, start, charge, claimed, processed, failures, history>>

(* recordCounterPayment *)

CounterCheck(h) ==
    /\ job[h].at = "idle"
    /\ OrderOpen
    /\ Advance(h, "counting")
    /\ UNCHANGED <<orderStatus, pay, start, charge, claimed, processed, failures, history>>

\* A PAID payment with no provider reference.
CounterCreate(h, p) ==
    /\ job[h].at = "counting"
    /\ pay[p].status = "NONE" /\ start[p] = "none"
    /\ pay' = [pay EXCEPT ![p].via = "COUNTER", ![p].status = "PAID"]
    /\ job' = [job EXCEPT ![h].at = "counted", ![h].pay = p]
    /\ UNCHANGED <<orderStatus, start, charge, claimed, processed, failures, history>>

CounterOrder(h) ==
    /\ job[h].at = "counted"
    /\ orderStatus' = "PAID"
    /\ job' = [job EXCEPT ![h] = Blank("done")]
    /\ UNCHANGED <<pay, start, charge, claimed, processed, failures, history>>

-------------------------------------------------------------------------------

\* A statement fails or the server dies under a handler. The page shows an
\* error; the route answers 500, or nothing, and Stripe will post again.
Fail(r) ==
    /\ job[r].at \in Step
    /\ failures < MaxFailures
    /\ job' = [job EXCEPT ![r].at = IF r \in Event THEN "due" ELSE "done",
                          ![r].died = job[r].at]
    /\ failures' = failures + 1
    /\ UNCHANGED <<orderStatus, pay, start, charge, claimed, processed, history>>

Start(p) == StartCreate(p) \/ StartOpen(p) \/ StartRefused(p)

Diner(p) == StartCheck(p) \/ DinerPays(p) \/ CardDeclined(p) \/ CheckoutCloses(p)

Record(r) == RecordRead(r) \/ RecordPayment(r) \/ RecordOrder(r)

Hook(e) == HookClaim(e) \/ Record(e) \/ HookProcessed(e)

Serve(h) ==
    \/ VerifyAsk(h) \/ Record(h)
    \/ RefundCall(h) \/ RefundLog(h) \/ RefundPayment(h) \/ RefundOrder(h)
    \/ CounterOrder(h) \/ \E p \in Payment : CounterCreate(h, p)

Arrive(h) ==
    \/ CounterCheck(h)
    \/ \E p \in Payment : VerifyRead(h, p) \/ \E amount \in 1..Amount : RefundCheck(h, p, amount)

Next ==
    \/ \E p \in Payment : Diner(p) \/ Start(p) \/ StartLost(p)
    \/ \E e \in Event : Hook(e)
    \/ \E h \in Handler : Arrive(h) \/ Serve(h)
    \/ \E r \in Runner : Fail(r)

Spec == Init /\ [][Next]_vars

===============================================================================

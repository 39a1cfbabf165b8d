----------------------------- MODULE PaymentsProps -----------------------------
(***************************************************************************)
(* What taking and returning a diner's money must guarantee.               *)
(***************************************************************************)
EXTENDS Payments

\* Every variable holds a value of its kind.
TypeOK ==
    /\ orderStatus \in OrderStatus
    /\ pay \in [Payment -> Row]
    /\ start \in [Payment -> {"none", "checked", "created", "ready", "refused", "lost"}]
    /\ \A p \in Payment : /\ charge[p].state \in {"none", "open", "approved", "paid", "closed"}
                          /\ charge[p].returned \in 0..Amount
    /\ job \in [Runner -> Job]
    /\ claimed \subseteq Event /\ processed \subseteq claimed
    /\ failures \in 0..MaxFailures
    /\ declined \subseteq Payment /\ overwritten \subseteq Payment

\* "An order becomes PAID because the provider said so, never because a browser
\* came back to a success URL" (payment.service.ts:19-21): behind every payment
\* or order that counts as paid there is money, captured or taken at the counter.
PaidIsReal ==
    /\ \A p \in Payment : pay[p].status \in PaidLike =>
           pay[p].via = "COUNTER" \/ charge[p].state = "paid"
    /\ orderStatus \in PaidLike =>
           \E p \in Payment : pay[p].via = "COUNTER" \/ charge[p].state = "paid"

\* Paid or wholly refunded, and nobody is about to write what it decided before.
Settled(p) ==
    /\ pay[p].status \in {"PAID", "REFUNDED"}
    /\ \A r \in Runner : job[r].at = "writing" => job[r].pay # p

\* "A terminal state never moves again" (payment.service.ts:193-194), as far as
\* the code keeps it: the guard reads the row and the write does not, so a
\* recording that read the row earlier still overwrites it. Once none is left,
\* late, repeated and reordered events and reloads leave the payment settled,
\* for good or until part of it is refunded.
SettledStaysPaid ==
    [][\A p \in Payment :
           Settled(p) => Settled(p)' \/ pay'[p].status = "PARTIALLY_REFUNDED"]_vars

\* A refund of p is at this step, or a failure ended it there.
Stopped(h, p, step) == job[h].pay = p /\ (job[h].at = step \/ job[h].died = step)

\* The refunds of p stopped at a step, cent by cent.
Cents(p, step) ==
    {cent \in Handler \X (1..Amount) :
        Stopped(cent[1], p, step) /\ cent[2] <= job[cent[1]].amount}

Stuck(p, step) == Cardinality(Cents(p, step))

\* To the cent, however refunds overlap and fail: what the provider gave back is
\* in the payment_refunds rows, or in the hands of a refund that has not written
\* its row yet or died before it could (payment.service.ts:292-311); what those
\* rows add up to is what the payment says was refunded and what refunds have
\* still to write to it, or died before writing, unless one wrote its total over
\* another it had not seen; and the payment never claims more than was given back.
\* Two refunds that overlap are both made: only the provider refuses more than
\* was paid.
RefundsAreOnTheBooks ==
    \A p \in Payment :
        /\ charge[p].returned = pay[p].logged + Stuck(p, "returned")
        /\ p \notin overwritten => pay[p].logged = pay[p].refunded + Stuck(p, "logged")
        /\ pay[p].refunded <= charge[p].returned

\* Somebody is between writing p and writing its order, or died there.
HalfWritten(p) ==
    \E r \in Runner :
        /\ job[r].pay = p
        /\ {job[r].at, job[r].died} \cap {"settling", "refunded", "counted"} # {}

\* The order follows its payments over two separate writes (payment.service.ts:
\* 199-224, 313-329, 356-372), in any interleaving: it stays PENDING beside a
\* payment that was taken, declined or refunded only while that recording is
\* between its two writes, or because it died there, or the attempt never reached
\* the provider; it is FAILED only if a provider said so of an attempt, and
\* refunded only if a refund is on the books.
OrderFollowsPayments ==
    /\ orderStatus = "PENDING" =>
           \A p \in Payment :
               \/ pay[p].status \in {"NONE", "PENDING", "CANCELLED"}
               \/ start[p] = "refused"
               \/ HalfWritten(p)
    /\ orderStatus = "FAILED" => declined # {}
    /\ orderStatus \in Refunding => \E p \in Payment : pay[p].logged > 0

\* Somebody holds a verdict on p: the webhook's event, not yet answered as a
\* duplicate, or a reload that has the provider's answer.
OnItsWay(p, verdict) ==
    \E r \in Runner :
        /\ job[r].pay = p /\ job[r].outcome = verdict
        /\ \/ job[r].at \in {"recording", "writing"}
           \/ job[r].at = "due" /\ r \notin claimed

\* Money a provider captured is recorded as paid, or the news of it is on its
\* way: through a lost browser (the webhook), events in any order, reloads, and
\* bKash's capture on return, "the only check" (app/order/[trackToken]/paid/
\* page.tsx:14-18). Left out are statements that fail, and a provider that said
\* FAILED of the payment: a late decline can overwrite the success, and bKash's
\* unclear answers are recorded as FAILED (bkash.provider.ts:219-227). Captured
\* money is then recorded FAILED, or is about to be; it never stays PENDING and
\* is never CANCELLED.
CapturedIsRecorded ==
    \A p \in Payment : charge[p].state = "paid" =>
        \/ pay[p].status \in PaidLike
        \/ OnItsWay(p, "PAID")
        \/ p \in declined /\ (pay[p].status = "FAILED" \/ OnItsWay(p, "FAILED"))
        \/ failures > 0

\* "Never un-pays a paid order, however late the event arrives"
\* (src/modules/payments/__tests__/payment.test.ts:145).
NeverUnpaid == [][orderStatus = "PAID" => orderStatus' # "FAILED"]_vars

\* "500 so Stripe retries; the row stays unprocessed for the retry"
\* (app/api/webhooks/stripe/orders/route.ts:61): Stripe stops posting an event
\* only when it has been processed.
AckedIsProcessed == \A e \in Event : job[e].at = "acked" => e \in processed

\* As far as the code keeps AckedIsProcessed: until a statement of the route fails,
\* Stripe is never told to stop posting an event that was not processed.
AckedUnlessFailed == failures = 0 => AckedIsProcessed

===============================================================================

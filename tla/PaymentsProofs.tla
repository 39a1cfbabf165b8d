---------------------------- MODULE PaymentsProofs -----------------------------
(***************************************************************************)
(* Proofs about Payments, for any payments, handlers, amounts, events and  *)
(* failures. What the order of steps hides is in what a job carries: its   *)
(* news about a payment was true when it was learnt, and stays true. So    *)
(* the invariant says of every job what it knows (JobOK), and of every     *)
(* payment how its row, its attempt and its checkout agree (PaymentOK).    *)
(***************************************************************************)
EXTENDS PaymentsProps, FiniteSetTheorems, TLAPS

USE DEF history, Step

\* Attempts that reached the provider's answer, or died on the way.
Begun == {"ready", "refused", "lost"}

\* A job is about its payment.
Busy == {"asking", "recording", "writing", "settling", "marking", "refunding", "returned",
         "logged", "refunded", "due", "acked"}
HookPlaces == {"none", "due", "recording", "writing", "settling", "marking", "acked"}
PagePlaces == {"idle", "asking", "recording", "writing", "settling", "refunding", "returned",
               "logged", "refunded", "counting", "counted", "done"}

\* What an event says is so.
EventOK(e) ==
    /\ job[e].pay = e[1] /\ job[e].outcome = e[2] /\ job[e].at \in HookPlaces
    /\ job[e].at # "none" /\ e[2] = "PAID" => charge[e[1]].state = "paid"
    /\ job[e].at # "none" /\ e[2] = "CANCELLED" => charge[e[1]].state = "closed"
    /\ job[e].at # "none" /\ e[2] = "FAILED" => e[1] \in declined
    /\ job[e].died # "no" => e \in claimed
    /\ job[e].at = "none" => e \notin claimed
    /\ job[e].at \notin {"none", "due"} => e \in claimed
    /\ job[e].at = "due" /\ failures = 0 => e \notin claimed

\* What a recording is about to write is so.
NewsOK(r) ==
    LET j == job[r] IN
    /\ j.at \in {"writing", "settling"} => j.outcome # "PENDING"
    /\ j.at = "settling" => j.outcome # "CANCELLED"
    /\ j.at = "asking" => j.ref # "none"
    /\ j.at \in {"recording", "writing", "settling"} =>
         /\ j.outcome = "PAID" => charge[j.pay].state = "paid"
         /\ j.outcome = "CANCELLED" => charge[j.pay].state = "closed"
         /\ j.outcome = "FAILED" => j.pay \in declined

\* A refund saw no more than the provider had given back, and adds to that.
RefundOK(r) ==
    LET j == job[r] IN
    /\ j.at = "refunding" => j.seen <= charge[j.pay].returned /\ j.amount > 0
    /\ j.at \in {"returned", "logged", "refunded"} =>
         /\ j.seen + j.amount <= charge[j.pay].returned /\ j.amount > 0
         /\ charge[j.pay].state = "paid"
    /\ j.at \in {"logged", "refunded"} => pay[j.pay].logged > 0

JobOK(r) ==
    /\ job[r].at \in Busy => job[r].pay \in Payment /\ start[job[r].pay] \in Begun
    /\ r \in Event => EventOK(r)
    /\ r \in Handler => job[r].at \in PagePlaces
    /\ job[r].died # "no" => job[r].at \in {"done", "due", "acked"}
    /\ NewsOK(r) /\ RefundOK(r)

PaymentOK(p) ==
    /\ pay[p].status = "NONE" <=> pay[p].via = "NONE"
    /\ pay[p].ref # "none" => start[p] = "ready"
    /\ start[p] \in Begun => pay[p].status # "NONE"
    /\ pay[p].via = "COUNTER" => start[p] = "none"
    /\ start[p] = "created" => pay[p].status = "PENDING"
    /\ start[p] \notin Begun => charge[p].state = "none"
    /\ charge[p].state \in {"approved", "paid"} => start[p] = "ready"
    /\ charge[p].state = "approved" => pay[p].via = "BKASH"
    /\ pay[p].status \in PaidLike => pay[p].via = "COUNTER" \/ charge[p].state = "paid"
    /\ pay[p].refunded <= charge[p].returned

OrderOK ==
    /\ orderStatus \in PaidLike =>
         \E p \in Payment : pay[p].via = "COUNTER" \/ charge[p].state = "paid"
    /\ (\E h \in Handler : job[h].at = "counted") => \E p \in Payment : pay[p].via = "COUNTER"
    /\ orderStatus = "FAILED" => declined # {}
    /\ orderStatus \in Refunding => \E p \in Payment : pay[p].logged > 0

ChargeType == charge \in [Payment -> [state : {"none", "open", "approved", "paid", "closed"},
                                      returned : 0..Amount]]

Inv ==
    /\ TypeOK /\ ChargeType
    /\ \A r \in Runner : JobOK(r)
    /\ \A p \in Payment : PaymentOK(p)
    /\ OrderOK
-------------------------------------------------------------------------------
(* Records                                                                     *)

Places == HookPlaces \cup PagePlaces

LEMMA BlankIsJob ==
    ASSUME NEW at \in Places
    PROVE  /\ Blank(at) \in Job /\ Blank(at).at = at /\ Blank(at).died = "no"
           /\ Blank(at).outcome = "PENDING" /\ Blank(at).ref = "none"
BY AmountType DEF Blank, Job, Places, HookPlaces, PagePlaces, Verdict

\* A job moved on is the same job elsewhere.
LEMMA MovedJob ==
    ASSUME NEW j \in Job, NEW at \in Places
    PROVE  LET m == [j EXCEPT !.at = at] IN
           /\ m \in Job /\ m.at = at
           /\ m.pay = j.pay /\ m.outcome = j.outcome /\ m.ref = j.ref
           /\ m.amount = j.amount /\ m.seen = j.seen /\ m.died = j.died
BY DEF Job, Places, HookPlaces, PagePlaces

\* Of all jobs only r's is another one.
OnlyJob(r, j) ==
    /\ job' \in [Runner -> Job] /\ job'[r] = j
    /\ \A q \in Runner \ {r} : job'[q] = job[q]

LEMMA JobWritten ==
    ASSUME job \in [Runner -> Job], NEW r \in Runner, NEW j \in Job,
           job' = [job EXCEPT ![r] = j]
    PROVE  OnlyJob(r, j)
BY DEF OnlyJob

LEMMA JobAdvanced ==
    ASSUME job \in [Runner -> Job], NEW r \in Runner, NEW at \in Places, Advance(r, at)
    PROVE  OnlyJob(r, [job[r] EXCEPT !.at = at])
<1>1. [job[r] EXCEPT !.at = at] \in Job
    BY MovedJob
<1>2. job' = [job EXCEPT ![r] = [job[r] EXCEPT !.at = at]]
    BY DEF Advance
<1>3. QED
    BY <1>1, <1>2, JobWritten

LEMMA JobReturned ==
    ASSUME job \in [Runner -> Job], NEW r \in Runner, Return(r)
    PROVE  /\ r \in Event => OnlyJob(r, [job[r] EXCEPT !.at = "marking"])
           /\ r \notin Event => OnlyJob(r, Blank("done"))
<1>1. [job[r] EXCEPT !.at = "marking"] \in Job /\ Blank("done") \in Job
    BY MovedJob, BlankIsJob DEF Places, HookPlaces, PagePlaces
<1>2. /\ r \in Event => job' = [job EXCEPT ![r] = [job[r] EXCEPT !.at = "marking"]]
      /\ r \notin Event => job' = [job EXCEPT ![r] = Blank("done")]
    BY DEF Return
<1>3. QED
    BY <1>1, <1>2, JobWritten

-------------------------------------------------------------------------------
(* What no step takes back                                                     *)

Later ==
    /\ \A p \in Payment :
         /\ start[p] \in Begun => start'[p] \in Begun
         /\ start[p] = "ready" => start'[p] = "ready"
         /\ charge[p].state = "paid" => charge'[p].state = "paid"
         /\ charge[p].state = "closed" => charge'[p].state = "closed"
         /\ charge[p].returned <= charge'[p].returned
         /\ pay[p].via = "COUNTER" => pay'[p].via = "COUNTER"
         /\ pay[p].logged > 0 => pay'[p].logged > 0
    /\ \A e \in Event : job[e].at # "none" => job'[e].at # "none"
    /\ claimed \subseteq claimed' /\ failures <= failures' /\ declined \subseteq declined'

\* A payment nothing happened to.
Same(p) == pay'[p] = pay[p] /\ charge'[p] = charge[p] /\ start'[p] = start[p]

\* A job that did not move knows what it knew. An event's claim, only its own
\* delivery makes.
LEMMA JobStays ==
    ASSUME Inv, TypeOK', ChargeType', Later, NEW r \in Runner, job'[r] = job[r],
           r \in Event => (r \in claimed' => r \in claimed)
    PROVE  JobOK(r)'
<1> USE DEF Inv
<1>1. JobOK(r) /\ job[r] \in Job
    BY DEF TypeOK
<1>2. ASSUME r \in Event PROVE EventOK(r)'
  <2>1. r[1] \in Payment /\ EventOK(r)
      BY <1>1, <1>2 DEF Event, JobOK
  <2>2. failures \in Nat /\ failures' \in Nat
      BY MaxFailuresType DEF TypeOK
  <2>3. QED
      BY <1>2, <2>1, <2>2 DEF EventOK, Later
<1>3. NewsOK(r)'
  <2>1. ASSUME job[r].at \in {"asking", "recording", "writing", "settling"}
        PROVE  job[r].pay \in Payment
      BY <1>1, <2>1 DEF JobOK, Busy
  <2>2. QED
      BY <1>1, <2>1 DEF JobOK, NewsOK, Later
<1>4. RefundOK(r)'
  <2>1. ASSUME job[r].at \in {"refunding", "returned", "logged", "refunded"}
        PROVE  /\ job[r].pay \in Payment /\ job[r].seen \in Nat /\ job[r].amount \in Nat
               /\ charge[job[r].pay].returned \in Nat /\ charge'[job[r].pay].returned \in Nat
      BY <1>1, <2>1, AmountType DEF JobOK, Busy, Job, ChargeType
  <2>2. QED
      BY <1>1, <2>1 DEF JobOK, RefundOK, Later
<1>5. QED
    BY <1>1, <1>2, <1>3, <1>4 DEF JobOK, Later

LEMMA PaymentStays ==
    ASSUME Inv, Later, NEW p \in Payment, Same(p)
    PROVE  PaymentOK(p)'
BY DEF Inv, PaymentOK, Same, Later

\* The order goes on being paid by what it was paid by.
LEMMA OrderStays ==
    ASSUME Inv, Later, UNCHANGED orderStatus,
           \A h \in Handler : job'[h].at = "counted" => job[h].at = "counted"
    PROVE  OrderOK'
BY DEF Inv, OrderOK, Later

\* A step of one job and at most one payment.
LEMMA OneJobStep ==
    ASSUME Inv, TypeOK', ChargeType', Later, OrderOK', NEW r \in Runner, JobOK(r)',
           \A q \in Runner \ {r} : job'[q] = job[q],
           claimed' \subseteq claimed \cup {r},
           \A p \in Payment : Same(p) \/ PaymentOK(p)'
    PROVE  Inv' /\ Later
<1>1. \A q \in Runner : JobOK(q)'
    BY JobStays
<1>2. \A p \in Payment : PaymentOK(p)'
    BY PaymentStays
<1>3. QED
    BY <1>1, <1>2 DEF Inv

LEMMA NoJobStep ==
    ASSUME Inv, TypeOK', ChargeType', Later, UNCHANGED <<orderStatus, job, claimed>>,
           \A p \in Payment : Same(p) \/ PaymentOK(p)'
    PROVE  Inv' /\ Later
<1>1. \A q \in Runner : JobOK(q)'
    BY JobStays
<1>2. \A p \in Payment : PaymentOK(p)'
    BY PaymentStays
<1>3. QED
    BY <1>1, <1>2, OrderStays DEF Inv

LEMMA PayWritten ==
    ASSUME pay \in [Payment -> Row], NEW p \in Payment, NEW x \in Row,
           pay' = [pay EXCEPT ![p] = x]
    PROVE  /\ pay' \in [Payment -> Row] /\ pay'[p] = x
           /\ \A q \in Payment \ {p} : pay'[q] = pay[q]
OBVIOUS

Charge == [state : {"none", "open", "approved", "paid", "closed"}, returned : 0..Amount]

LEMMA ChargeWritten ==
    ASSUME ChargeType, NEW p \in Payment, NEW x \in Charge, charge' = [charge EXCEPT ![p] = x]
    PROVE  /\ ChargeType' /\ charge'[p] = x
           /\ \A q \in Payment \ {p} : charge'[q] = charge[q]
BY DEF ChargeType, Charge

\* What moving a checkout to another state makes of it.
LEMMA StateWritten ==
    ASSUME ChargeType, NEW p \in Payment,
           NEW state \in {"none", "open", "approved", "paid", "closed"},
           charge' = [charge EXCEPT ![p].state = state]
    PROVE  /\ ChargeType' /\ charge'[p].state = state /\ charge'[p].returned = charge[p].returned
           /\ \A q \in Payment \ {p} : charge'[q] = charge[q]
<1>1. charge[p] \in Charge
    BY DEF ChargeType, Charge
<1>2. [charge[p] EXCEPT !.state = state] \in Charge
    BY <1>1 DEF Charge
<1>3. charge' = [charge EXCEPT ![p] = [charge[p] EXCEPT !.state = state]]
    OBVIOUS
<1>4. /\ [charge[p] EXCEPT !.state = state].state = state
      /\ [charge[p] EXCEPT !.state = state].returned = charge[p].returned
    BY <1>1 DEF Charge
<1>5. QED
    BY <1>2, <1>3, <1>4, ChargeWritten

LEMMA StartStep ==
    ASSUME Inv, NEW p \in Payment, StartCheck(p) \/ Start(p) \/ StartLost(p)
    PROVE  Inv' /\ Later
<1> USE DEF Inv
<1>0. /\ pay \in [Payment -> Row] /\ pay[p] \in Row /\ PaymentOK(p) /\ ChargeType
      /\ start \in [Payment -> {"none", "checked", "created", "ready", "refused", "lost"}]
      /\ failures \in 0..MaxFailures /\ MaxFailures \in Nat
      /\ \A q \in Payment : charge[q].returned \in Nat
    BY MaxFailuresType, AmountType DEF TypeOK, ChargeType
<1>1. CASE StartCheck(p)
  <2>1. TypeOK' /\ ChargeType'
      BY <1>0, <1>1 DEF StartCheck, TypeOK, ChargeType
  <2>2. Later /\ \A q \in Payment \ {p} : Same(q)
      BY <1>0, <1>1 DEF StartCheck, Later, Same, Begun
  <2>3. PaymentOK(p)'
      BY <1>0, <1>1 DEF StartCheck, PaymentOK, Begun, PaidLike, Refunding
  <2>4. QED
      BY <1>1, <2>1, <2>2, <2>3, NoJobStep DEF StartCheck
<1>2. CASE StartCreate(p)
  <2>1. PICK via \in Provider : pay' = [pay EXCEPT ![p].via = via, ![p].status = "PENDING"]
      BY <1>2 DEF StartCreate
  <2> DEFINE x == [pay[p] EXCEPT !.via = via, !.status = "PENDING"]
  <2>2. /\ x \in Row /\ x.via = via /\ x.status = "PENDING" /\ x.ref = pay[p].ref
        /\ x.refunded = pay[p].refunded /\ x.logged = pay[p].logged
      BY <1>0 DEF Row, PaymentStatus
  <2>3. pay' = [pay EXCEPT ![p] = x]
      BY <1>0, <2>1
  <2> HIDE DEF x
  <2>4. pay' \in [Payment -> Row] /\ pay'[p] = x /\ \A q \in Payment \ {p} : pay'[q] = pay[q]
      BY <1>0, <2>2, <2>3, PayWritten
  <2>5. TypeOK' /\ ChargeType'
      BY <1>0, <1>2, <2>4 DEF StartCreate, TypeOK, ChargeType
  <2>6. Later /\ \A q \in Payment \ {p} : Same(q)
      BY <1>0, <1>2, <2>2, <2>4 DEF StartCreate, Later, Same, Begun, PaymentOK
  <2>7. via # "NONE" /\ via # "COUNTER"
      BY <2>1, ProviderType
  <2>8. PaymentOK(p)'
      BY <1>0, <1>2, <2>2, <2>4, <2>7 DEF StartCreate, PaymentOK, Begun, PaidLike, Refunding
  <2>9. QED
      BY <1>2, <2>5, <2>6, <2>8, NoJobStep DEF StartCreate
<1>3. CASE StartOpen(p)
  <2> DEFINE x == [pay[p] EXCEPT !.ref = "session"]
  <2>1. /\ x \in Row /\ x.via = pay[p].via /\ x.status = pay[p].status /\ x.ref = "session"
        /\ x.refunded = pay[p].refunded /\ x.logged = pay[p].logged
      BY <1>0 DEF Row
  <2>2. pay' = [pay EXCEPT ![p] = x]
      BY <1>0, <1>3 DEF StartOpen
  <2> HIDE DEF x
  <2>3. pay' \in [Payment -> Row] /\ pay'[p] = x /\ \A q \in Payment \ {p} : pay'[q] = pay[q]
      BY <1>0, <2>1, <2>2, PayWritten
  <2>4. /\ ChargeType' /\ charge'[p].state = "open" /\ charge'[p].returned = charge[p].returned
        /\ \A q \in Payment \ {p} : charge'[q] = charge[q]
      BY <1>0, <1>3, StateWritten DEF StartOpen
  <2>5. TypeOK'
      BY <1>0, <1>3, <2>3, <2>4 DEF StartOpen, TypeOK, ChargeType
  <2>6. Later /\ \A q \in Payment \ {p} : Same(q)
      BY <1>0, <1>3, <2>1, <2>3, <2>4 DEF StartOpen, Later, Same, Begun, PaymentOK
  <2>7. PaymentOK(p)'
      BY <1>0, <1>3, <2>1, <2>3, <2>4 DEF StartOpen, PaymentOK, Begun, PaidLike, Refunding
  <2>8. QED
      BY <1>3, <2>4, <2>5, <2>6, <2>7, NoJobStep DEF StartOpen
<1>4. CASE StartRefused(p)
  <2> DEFINE x == [pay[p] EXCEPT !.status = "FAILED"]
  <2>1. /\ x \in Row /\ x.via = pay[p].via /\ x.status = "FAILED" /\ x.ref = pay[p].ref
        /\ x.refunded = pay[p].refunded /\ x.logged = pay[p].logged
      BY <1>0 DEF Row, PaymentStatus
  <2>2. pay' = [pay EXCEPT ![p] = x]
      BY <1>0, <1>4 DEF StartRefused
  <2> HIDE DEF x
  <2>3. pay' \in [Payment -> Row] /\ pay'[p] = x /\ \A q \in Payment \ {p} : pay'[q] = pay[q]
      BY <1>0, <2>1, <2>2, PayWritten
  <2>4. /\ ChargeType' /\ charge'[p].state \in {"none", "open"}
        /\ charge'[p].returned = charge[p].returned
        /\ \A q \in Payment \ {p} : charge'[q] = charge[q]
      BY <1>0, <1>4, StateWritten DEF StartRefused, MaybeOpen
  <2>5. TypeOK'
      BY <1>0, <1>4, <2>3, <2>4 DEF StartRefused, TypeOK, ChargeType
  <2>6. Later /\ \A q \in Payment \ {p} : Same(q)
      BY <1>0, <1>4, <2>1, <2>3, <2>4 DEF StartRefused, Later, Same, Begun, PaymentOK
  <2>7. PaymentOK(p)'
      BY <1>0, <1>4, <2>1, <2>3, <2>4 DEF StartRefused, PaymentOK, Begun, PaidLike, Refunding
  <2>8. QED
      BY <1>4, <2>4, <2>5, <2>6, <2>7, NoJobStep DEF StartRefused
<1>5. CASE StartLost(p)
  <2>1. /\ ChargeType' /\ charge'[p].state \in {"none", "open"}
        /\ charge'[p].returned = charge[p].returned
        /\ \A q \in Payment \ {p} : charge'[q] = charge[q]
      BY <1>0, <1>5, StateWritten DEF StartLost, MaybeOpen
  <2>2. TypeOK'
      BY <1>0, <1>5, <2>1 DEF StartLost, TypeOK, ChargeType
  <2>3. Later /\ \A q \in Payment \ {p} : Same(q)
      BY <1>0, <1>5, <2>1 DEF StartLost, Later, Same, Begun, PaymentOK
  <2>4. PaymentOK(p)'
      BY <1>0, <1>5, <2>1 DEF StartLost, PaymentOK, Begun, PaidLike, Refunding
  <2>5. QED
      BY <1>5, <2>1, <2>2, <2>3, <2>4, NoJobStep DEF StartLost
<1>6. QED
    BY <1>1, <1>2, <1>3, <1>4, <1>5 DEF Start
\* Emitting an event makes its job due.
LEMMA Emitted ==
    ASSUME Inv, NEW p \in Payment, NEW verdict \in Verdict, Emit(p, verdict)
    PROVE  OnlyJob(<<p, verdict>>, [job[<<p, verdict>>] EXCEPT !.at = "due"])
<1>1. <<p, verdict>> \in Runner /\ job \in [Runner -> Job]
    BY DEF Inv, TypeOK, Runner, Event
<1>2. "due" \in Places
    BY DEF Places, HookPlaces
<1>3. [job[<<p, verdict>>] EXCEPT !.at = "due"] \in Job
    BY <1>1, <1>2, MovedJob
<1>4. job' = [job EXCEPT ![<<p, verdict>>] = [job[<<p, verdict>>] EXCEPT !.at = "due"]]
    BY DEF Emit
<1>5. QED
    BY <1>1, <1>3, <1>4, JobWritten

\* An event that says what is so of its payment may become due.
LEMMA EmitStep ==
    ASSUME Inv, TypeOK', ChargeType', NEW p \in Payment, NEW verdict \in Verdict,
           Emit(p, verdict), UNCHANGED <<orderStatus, pay, start, claimed, processed, failures>>,
           Later, PaymentOK(p)', \A q \in Payment \ {p} : Same(q), start[p] \in Begun,
           verdict = "PAID" => charge'[p].state = "paid",
           verdict = "CANCELLED" => charge'[p].state = "closed",
           verdict = "FAILED" => p \in declined',
           job[<<p, verdict>>].at = "none"
    PROVE  Inv' /\ Later
<1> DEFINE e == <<p, verdict>>
<1>1. e \in Runner /\ e \in Event /\ e \notin Handler /\ e[1] = p /\ e[2] = verdict
    BY HandlerFresh DEF Runner, Event
<1>2. JobOK(e) /\ job[e] \in Job
    BY <1>1 DEF Inv, TypeOK
<1>3. OnlyJob(e, [job[e] EXCEPT !.at = "due"])
    BY Emitted
<1> HIDE DEF e
<1>4. /\ job'[e].at = "due" /\ job'[e].pay = p /\ job'[e].outcome = verdict
      /\ \A q \in Runner \ {e} : job'[q] = job[q]
      /\ job'[e].died = job[e].died
    BY <1>1, <1>2, <1>3, MovedJob DEF OnlyJob, Places, HookPlaces, JobOK, EventOK
<1>5. e \notin claimed /\ job[e].died = "no"
    BY <1>1, <1>2 DEF JobOK, EventOK, e
<1>6. EventOK(e)'
    BY <1>1, <1>4, <1>5 DEF EventOK, HookPlaces
<1>7. JobOK(e)'
    BY <1>1, <1>4, <1>6 DEF JobOK, NewsOK, RefundOK, Busy
<1>8. \A h \in Handler : job'[h] = job[h]
    BY <1>1, <1>4 DEF Runner
<1>9. OrderOK'
    BY <1>8, OrderStays
<1>10. QED
    BY <1>1, <1>4, <1>7, <1>9, OneJobStep

LEMMA DinerStep ==
    ASSUME Inv, NEW p \in Payment, DinerPays(p) \/ CardDeclined(p) \/ CheckoutCloses(p)
    PROVE  Inv' /\ Later
<1> USE DEF Inv
<1>0. /\ pay \in [Payment -> Row] /\ pay[p] \in Row /\ PaymentOK(p) /\ ChargeType
      /\ job \in [Runner -> Job]
      /\ \A q \in Payment : charge[q].returned \in Nat
      /\ {"PAID", "FAILED", "CANCELLED"} = Verdict
    BY AmountType DEF TypeOK, ChargeType, Verdict
<1>1. \A verdict \in Verdict : <<p, verdict>> \in Event /\ EventOK(<<p, verdict>>)
    BY DEF JobOK, Event, Runner
<1>2. ASSUME NEW state \in {"paid", "approved", "closed"}, charge[p].state = "open",
             charge' = [charge EXCEPT ![p].state = state],
             UNCHANGED <<orderStatus, pay, start, claimed, processed, failures, history>>,
             \/ UNCHANGED job
             \/ \E verdict \in Verdict : Emit(p, verdict),
             state \in {"paid", "approved"} => start[p] = "ready",
             state = "approved" => pay[p].via = "BKASH"
      PROVE  /\ TypeOK' /\ ChargeType' /\ Later /\ PaymentOK(p)' /\ start[p] \in Begun
             /\ \A q \in Payment \ {p} : Same(q)
             /\ charge'[p].state = state
  <2>1. /\ ChargeType' /\ charge'[p].state = state /\ charge'[p].returned = charge[p].returned
        /\ \A q \in Payment \ {p} : charge'[q] = charge[q]
      BY <1>0, <1>2, StateWritten
  <2>2. job' \in [Runner -> Job] /\ \A e \in Event : job[e].at # "none" => job'[e].at # "none"
    <3>1. CASE UNCHANGED job
        BY <1>0, <3>1
    <3>2. ASSUME NEW verdict \in Verdict, Emit(p, verdict)
          PROVE  job' \in [Runner -> Job] /\ \A e \in Event : job[e].at # "none" => job'[e].at # "none"
      <4>1. OnlyJob(<<p, verdict>>, [job[<<p, verdict>>] EXCEPT !.at = "due"])
          BY <3>2, Emitted
      <4>2. [job[<<p, verdict>>] EXCEPT !.at = "due"].at = "due"
          BY <1>0, <1>1 DEF Job, Runner
      <4>3. QED
          BY <4>1, <4>2 DEF OnlyJob, Runner
    <3>3. QED
        BY <1>2, <3>1, <3>2
  <2>3. TypeOK'
      BY <1>0, <1>2, <2>1, <2>2 DEF TypeOK, ChargeType
  <2>4. Later /\ \A q \in Payment \ {p} : Same(q)
      BY <1>0, <1>2, <2>1, <2>2, MaxFailuresType DEF Later, Same, TypeOK
  <2>6. PaymentOK(p)'
      BY <1>0, <1>2, <2>1 DEF PaymentOK, Begun
  <2>7. QED
      BY <1>0, <1>2, <2>1, <2>3, <2>4, <2>6 DEF PaymentOK
<1>3. CASE DinerPays(p) /\ pay[p].via = "STRIPE"
  <2>1. /\ charge' = [charge EXCEPT ![p].state = "paid"] /\ Emit(p, "PAID")
        /\ start[p] = "ready" /\ charge[p].state = "open"
        /\ UNCHANGED <<orderStatus, pay, start, claimed, processed, failures, history>>
      BY <1>3 DEF DinerPays
  <2>2. job[<<p, "PAID">>].at = "none"
      BY <1>0, <1>1, <2>1 DEF EventOK
  <2>3. QED
      BY <1>0, <1>2, <2>1, <2>2, EmitStep
<1>4. CASE DinerPays(p) /\ pay[p].via # "STRIPE"
  <2>1. /\ charge' = [charge EXCEPT ![p].state = "approved"] /\ UNCHANGED job
        /\ start[p] = "ready" /\ charge[p].state = "open" /\ pay[p].via = "BKASH"
        /\ UNCHANGED <<orderStatus, pay, start, claimed, processed, failures, history>>
      BY <1>4 DEF DinerPays
  <2>2. QED
      BY <1>2, <2>1, NoJobStep
<1>5. CASE CardDeclined(p)
  <2>1. /\ Emit(p, "FAILED") /\ job[<<p, "FAILED">>].at = "none" /\ start[p] \in Begun
        /\ declined' = declined \cup {p}
        /\ UNCHANGED <<orderStatus, pay, start, charge, claimed, processed, failures, overwritten>>
      BY <1>5 DEF CardDeclined, Begun
  <2>2. OnlyJob(<<p, "FAILED">>, [job[<<p, "FAILED">>] EXCEPT !.at = "due"])
      BY <1>0, <2>1, Emitted
  <2>3. /\ job' \in [Runner -> Job]
        /\ \A e \in Event : job[e].at # "none" => job'[e].at # "none"
      BY <2>1, <2>2 DEF OnlyJob, Runner
  <2>4. TypeOK' /\ ChargeType'
      BY <2>1, <2>3 DEF TypeOK, ChargeType
  <2>5. Later /\ \A q \in Payment : Same(q)
      BY <1>0, <2>1, <2>3, MaxFailuresType DEF Later, Same, TypeOK
  <2>6. PaymentOK(p)'
      BY <2>5, PaymentStays
  <2>7. QED
      BY <1>0, <2>1, <2>4, <2>5, <2>6, EmitStep
<1>6. CASE CheckoutCloses(p)
  <2>1. /\ charge' = [charge EXCEPT ![p].state = "closed"] /\ charge[p].state = "open"
        /\ Emit(p, "CANCELLED") \/ UNCHANGED job
        /\ UNCHANGED <<orderStatus, pay, start, claimed, processed, failures, history>>
      BY <1>6 DEF CheckoutCloses
  <2>2. job[<<p, "CANCELLED">>].at = "none"
      BY <1>0, <1>1, <2>1 DEF EventOK
  <2>3. CASE Emit(p, "CANCELLED")
      BY <1>0, <1>2, <2>1, <2>2, <2>3, EmitStep
  <2>4. CASE UNCHANGED job
      BY <1>2, <2>1, <2>4, NoJobStep
  <2>5. QED
      BY <2>1, <2>3, <2>4
<1>7. QED
    BY <1>3, <1>4, <1>5, <1>6
\* What every step of a job starts from.
LEMMA JobFacts ==
    ASSUME Inv, NEW r \in Runner
    PROVE  /\ job \in [Runner -> Job] /\ job[r] \in Job /\ JobOK(r)
           /\ (r \notin Handler <=> r \in Event)
           /\ pay \in [Payment -> Row] /\ ChargeType
           /\ failures \in Nat /\ MaxFailures \in Nat /\ Amount \in Nat
           /\ \A p \in Payment : charge[p].returned \in Nat /\ pay[p].refunded \in Nat
BY HandlerFresh, MaxFailuresType, AmountType DEF Inv, TypeOK, Runner, ChargeType, Row

\* A recording that returns knows nothing any more.
LEMMA ReturnedOK ==
    ASSUME Inv, NEW r \in Runner, Return(r), job[r].at \in {"recording", "writing", "settling"},
           UNCHANGED <<claimed, failures>>, Later
    PROVE  /\ job' \in [Runner -> Job] /\ JobOK(r)'
           /\ \A q \in Runner \ {r} : job'[q] = job[q]
           /\ job'[r].at \in {"marking", "done"}
<1>1. job \in [Runner -> Job] /\ job[r] \in Job /\ JobOK(r) /\ (r \notin Handler <=> r \in Event)
    BY JobFacts
<1>2. CASE r \in Event
  <2>1. OnlyJob(r, [job[r] EXCEPT !.at = "marking"])
      BY <1>1, <1>2, JobReturned
  <2>2. /\ job'[r].at = "marking" /\ job'[r].pay = job[r].pay /\ job'[r].outcome = job[r].outcome
        /\ job'[r].died = job[r].died
        /\ job' \in [Runner -> Job] /\ \A q \in Runner \ {r} : job'[q] = job[q]
      BY <1>1, <2>1, MovedJob DEF OnlyJob, Places, HookPlaces
  <2>3. r[1] \in Payment
      BY <1>2 DEF Event
  <2>4. JobOK(r)'
      BY <1>1, <1>2, <2>2, <2>3 DEF JobOK, EventOK, NewsOK, RefundOK, Busy, HookPlaces, Later
  <2>5. QED
      BY <2>2, <2>4
<1>3. CASE r \notin Event
  <2>1. OnlyJob(r, Blank("done"))
      BY <1>1, <1>3, JobReturned
  <2>2. /\ job'[r].at = "done" /\ job'[r].died = "no"
        /\ job' \in [Runner -> Job] /\ \A q \in Runner \ {r} : job'[q] = job[q]
      BY <2>1, BlankIsJob DEF OnlyJob, Places, PagePlaces
  <2>3. JobOK(r)'
      BY <1>3, <2>2 DEF JobOK, NewsOK, RefundOK, Busy, PagePlaces
  <2>4. QED
      BY <2>2, <2>3
<1>4. QED
    BY <1>2, <1>3

LEMMA RecordStep ==
    ASSUME Inv, NEW r \in Runner, Record(r)
    PROVE  Inv' /\ Later
<1>0. /\ job \in [Runner -> Job] /\ job[r] \in Job /\ JobOK(r) /\ (r \notin Handler <=> r \in Event)
      /\ pay \in [Payment -> Row] /\ ChargeType
      /\ failures \in Nat /\ MaxFailures \in Nat /\ Amount \in Nat
      /\ \A p \in Payment : charge[p].returned \in Nat /\ pay[p].refunded \in Nat
    BY JobFacts
<1> SUFFICES ASSUME NEW CONSTANT p, p = job[r].pay PROVE Inv' /\ Later
    OBVIOUS
<1>1. CASE RecordRead(r)
  <2>1. /\ job[r].at = "recording"
        /\ Return(r) \/ (Advance(r, "writing") /\ job[r].outcome # "PENDING")
        /\ UNCHANGED <<orderStatus, pay, start, charge, claimed, processed, failures, history>>
      BY <1>1 DEF RecordRead
  <2>2. \A q \in Payment : Same(q)
      BY <2>1 DEF Same
  <2>3. CASE Return(r)
    <3>1. job'[r].at # "none" /\ job' \in [Runner -> Job] /\ \A q \in Runner \ {r} : job'[q] = job[q]
      <4>1. r \in Event => OnlyJob(r, [job[r] EXCEPT !.at = "marking"])
          BY <1>0, <2>3, JobReturned
      <4>2. r \notin Event => OnlyJob(r, Blank("done"))
          BY <1>0, <2>3, JobReturned
      <4>3. [job[r] EXCEPT !.at = "marking"].at = "marking" /\ Blank("done").at = "done"
          BY <1>0 DEF Job, Blank
      <4>4. QED
          BY <4>1, <4>2, <4>3 DEF OnlyJob
    <3>2. Later
        BY <1>0, <2>1, <3>1 DEF Later, Runner
    <3>3. JobOK(r)' /\ job'[r].at \in {"marking", "done"}
        BY <2>1, <2>3, <3>2, ReturnedOK
    <3>4. TypeOK' /\ ChargeType'
        BY <2>1, <3>1 DEF Inv, TypeOK, ChargeType
    <3>5. OrderOK'
        BY <2>1, <3>1, <3>2, <3>3, OrderStays DEF Runner
    <3>6. QED
        BY <2>1, <2>2, <3>1, <3>2, <3>3, <3>4, <3>5, OneJobStep
  <2>4. CASE Advance(r, "writing") /\ job[r].outcome # "PENDING"
    <3>1. OnlyJob(r, [job[r] EXCEPT !.at = "writing"])
        BY <1>0, <2>4, JobAdvanced DEF Places, HookPlaces
    <3>2. /\ job'[r].at = "writing" /\ job'[r].pay = p /\ job'[r].outcome = job[r].outcome
          /\ job'[r].died = job[r].died
          /\ job' \in [Runner -> Job] /\ \A q \in Runner \ {r} : job'[q] = job[q]
        BY <1>0, <3>1, MovedJob DEF OnlyJob, Places, HookPlaces
    <3>3. Later
        BY <1>0, <2>1, <3>2 DEF Later, Runner
    <3>4. p \in Payment
        BY <1>0, <2>1 DEF JobOK, Busy
    <3>5. r \in Event => EventOK(r)'
        BY <1>0, <2>1, <3>2 DEF JobOK, EventOK, HookPlaces
    <3>6. JobOK(r)'
        BY <1>0, <2>1, <2>4, <3>2, <3>4, <3>5 DEF JobOK, NewsOK, RefundOK, Busy, PagePlaces
    <3>7. TypeOK' /\ ChargeType'
        BY <2>1, <3>2 DEF Inv, TypeOK, ChargeType
    <3>8. OrderOK'
        BY <2>1, <3>2, <3>3, OrderStays DEF Runner
    <3>9. QED
        BY <2>1, <2>2, <3>2, <3>3, <3>6, <3>7, <3>8, OneJobStep
  <2>5. QED
      BY <2>1, <2>3, <2>4
<1>2. CASE RecordPayment(r)
  <2> DEFINE ref == IF job[r].outcome # "PAID" THEN pay[p].ref
                    ELSE IF pay[p].via = "BKASH" THEN "trx" ELSE "session"
             x == [pay[p] EXCEPT !.status = job[r].outcome, !.ref = ref]
  <2>1. /\ job[r].at = "writing" /\ p \in Payment /\ job[r].outcome \in Verdict
        /\ start[p] \in Begun
        /\ UNCHANGED <<orderStatus, start, charge, claimed, processed, failures, history>>
        /\ IF job[r].outcome = "CANCELLED" THEN Return(r) ELSE Advance(r, "settling")
      BY <1>0, <1>2 DEF RecordPayment, Settles, JobOK, NewsOK, Busy, Job
  <2>2. pay[p] \in Row /\ PaymentOK(p)
      BY <1>0, <2>1 DEF Inv
  <2>3. /\ x \in Row /\ x.via = pay[p].via /\ x.status = job[r].outcome /\ x.ref = ref
        /\ x.refunded = pay[p].refunded /\ x.logged = pay[p].logged
      BY <2>1, <2>2 DEF Row, PaymentStatus, PaidLike, Verdict
  <2>4. pay' = [pay EXCEPT ![p] = x]
      BY <1>0, <1>2, <2>1 DEF RecordPayment
  <2> HIDE DEF x
  <2>5. pay' \in [Payment -> Row] /\ pay'[p] = x /\ \A q \in Payment \ {p} : pay'[q] = pay[q]
      BY <1>0, <2>1, <2>3, <2>4, PayWritten
  <2>6. /\ job' \in [Runner -> Job] /\ \A q \in Runner \ {r} : job'[q] = job[q]
        /\ job'[r].at \in {"marking", "done", "settling"}
        /\ job'[r].at = "settling" => /\ job'[r].pay = p /\ job'[r].outcome = job[r].outcome
                                      /\ job[r].outcome # "CANCELLED" /\ job'[r].died = job[r].died
        /\ job'[r].at = "settling" \/ Return(r)
    <3>1. CASE job[r].outcome = "CANCELLED"
      <4>1. r \in Event => OnlyJob(r, [job[r] EXCEPT !.at = "marking"])
          BY <1>0, <2>1, <3>1, JobReturned
      <4>2. r \notin Event => OnlyJob(r, Blank("done"))
          BY <1>0, <2>1, <3>1, JobReturned
      <4>3. [job[r] EXCEPT !.at = "marking"].at = "marking" /\ Blank("done").at = "done"
          BY <1>0 DEF Job, Blank
      <4>4. QED
          BY <2>1, <3>1, <4>1, <4>2, <4>3 DEF OnlyJob
    <3>2. CASE job[r].outcome # "CANCELLED"
      <4>1. OnlyJob(r, [job[r] EXCEPT !.at = "settling"])
          BY <1>0, <2>1, <3>2, JobAdvanced DEF Places, HookPlaces
      <4>2. QED
          BY <1>0, <3>2, <4>1, MovedJob DEF OnlyJob, Places, HookPlaces
    <3>3. QED
        BY <3>1, <3>2
  <2>7. Later
      BY <1>0, <2>1, <2>3, <2>5, <2>6 DEF Later, Runner
  <2>9. JobOK(r)'
    <3>1. CASE job'[r].at = "settling"
      <4>1. r \in Event => EventOK(r)'
          BY <1>0, <2>1, <2>6, <3>1 DEF JobOK, EventOK, HookPlaces
      <4>2. QED
          BY <1>0, <2>1, <2>6, <3>1, <4>1
             DEF JobOK, NewsOK, RefundOK, Busy, PagePlaces, Verdict
    <3>2. CASE Return(r)
        BY <2>1, <2>7, <3>2, ReturnedOK
    <3>3. QED
        BY <2>6, <3>1, <3>2
  <2>10. PaymentOK(p)'
    <3>1. /\ job[r].outcome = "PAID" => charge[p].state = "paid"
          /\ job[r].outcome = "CANCELLED" => charge[p].state = "closed"
        BY <1>0, <2>1 DEF JobOK, NewsOK
    <3>2. x.status \in {"PAID", "FAILED", "CANCELLED"}
        BY <2>1, <2>3 DEF Verdict
    <3>4. x.ref # "none" => start[p] = "ready"
        BY <2>2, <2>3, <3>1 DEF PaymentOK
    <3>5. QED
        BY <2>1, <2>2, <2>3, <2>5, <3>1, <3>2, <3>4
           DEF PaymentOK, Begun, PaidLike, Refunding
  <2>11. TypeOK' /\ ChargeType'
      BY <2>1, <2>5, <2>6 DEF Inv, TypeOK, ChargeType
  <2>12. OrderOK'
      BY <2>1, <2>6, <2>7, OrderStays DEF Runner
  <2>13. \A q \in Payment \ {p} : Same(q)
      BY <2>1, <2>5 DEF Same
  <2>14. QED
      BY <2>1, <2>6, <2>7, <2>9, <2>10, <2>11, <2>12, <2>13, OneJobStep
<1>3. CASE RecordOrder(r)
  <2>1. /\ job[r].at = "settling" /\ p \in Payment /\ orderStatus' = job[r].outcome /\ Return(r)
        /\ job[r].outcome \in {"PAID", "FAILED"}
        /\ UNCHANGED <<pay, start, charge, claimed, processed, failures, history>>
      BY <1>0, <1>3 DEF RecordOrder, JobOK, NewsOK, Busy, Job, Verdict
  <2>2. job'[r].at # "none" /\ job' \in [Runner -> Job] /\ \A q \in Runner \ {r} : job'[q] = job[q]
    <3>1. r \in Event => OnlyJob(r, [job[r] EXCEPT !.at = "marking"])
        BY <1>0, <2>1, JobReturned
    <3>2. r \notin Event => OnlyJob(r, Blank("done"))
        BY <1>0, <2>1, JobReturned
    <3>3. [job[r] EXCEPT !.at = "marking"].at = "marking" /\ Blank("done").at = "done"
        BY <1>0 DEF Job, Blank
    <3>4. QED
        BY <3>1, <3>2, <3>3 DEF OnlyJob
  <2>3. Later
      BY <1>0, <2>1, <2>2 DEF Later, Runner
  <2>4. JobOK(r)' /\ job'[r].at \in {"marking", "done"}
      BY <2>1, <2>3, ReturnedOK
  <2>5. TypeOK' /\ ChargeType'
      BY <2>1, <2>2 DEF Inv, TypeOK, ChargeType, OrderStatus, PaidLike
  <2>6. OrderOK'
    <3>1. job[r].outcome = "PAID" => charge[p].state = "paid"
        BY <1>0, <2>1 DEF JobOK, NewsOK
    <3>2. \A h \in Handler : job'[h].at = "counted" => job[h].at = "counted"
        BY <2>2, <2>4 DEF Runner
    <3>3. job[r].outcome = "FAILED" => p \in declined
        BY <1>0, <2>1 DEF JobOK, NewsOK
    <3>4. QED
        BY <2>1, <3>1, <3>2, <3>3 DEF Inv, OrderOK, PaidLike, Refunding
  <2>7. \A q \in Payment : Same(q)
      BY <2>1 DEF Same
  <2>8. QED
      BY <2>1, <2>2, <2>3, <2>4, <2>5, <2>6, <2>7, OneJobStep
<1>4. QED
    BY <1>1, <1>2, <1>3 DEF Record

\* A step of one job that touches no payment.
LEMMA QuietStep ==
    ASSUME Inv, NEW r \in Runner,
           job' \in [Runner -> Job], \A q \in Runner \ {r} : job'[q] = job[q],
           job'[r].at \notin {"none", "counted"},
           UNCHANGED <<orderStatus, pay, start, charge, history>>,
           claimed \subseteq claimed', claimed' \subseteq claimed \cup {r}, claimed' \subseteq Event,
           processed' \subseteq claimed', failures' \in 0..MaxFailures, failures <= failures'
    PROVE  Later /\ (JobOK(r)' => Inv')
<1>0. /\ job \in [Runner -> Job] /\ pay \in [Payment -> Row] /\ ChargeType
      /\ \A p \in Payment : charge[p].returned \in Nat
    BY JobFacts
<1>1. Later
    BY <1>0 DEF Later, Runner
<1>2. TypeOK' /\ ChargeType'
    BY DEF Inv, TypeOK, ChargeType
<1>3. OrderOK'
    BY <1>1, OrderStays DEF Runner
<1>4. \A p \in Payment : Same(p)
    BY DEF Same
<1>5. QED
    BY <1>1, <1>2, <1>3, <1>4, OneJobStep

LEMMA VerifyReadStep ==
    ASSUME Inv, NEW h \in Handler, NEW p \in Payment, VerifyRead(h, p)
    PROVE  Inv' /\ Later
<1> DEFINE j == [Blank("asking") EXCEPT !.pay = p, !.ref = pay[p].ref]
<1>0. /\ h \in Runner /\ h \notin Event /\ job \in [Runner -> Job] /\ pay[p] \in Row
      /\ PaymentOK(p) /\ failures \in 0..MaxFailures /\ failures \in Nat
      /\ claimed \subseteq Event /\ processed \subseteq claimed
    BY JobFacts DEF Runner, Inv, TypeOK
<1>1. j \in Job /\ j.at = "asking" /\ j.pay = p /\ j.ref = pay[p].ref /\ j.died = "no"
  <2> DEFINE b == Blank("asking")
  <2>1. b \in Job /\ b.at = "asking" /\ b.died = "no"
      BY BlankIsJob DEF Places, PagePlaces
  <2>2. pay[p].ref \in {"none", "session", "trx"} /\ 0 \in 0..Amount
      BY <1>0, AmountType DEF Row
  <2>3. j = [b EXCEPT !.pay = p, !.ref = pay[p].ref]
      OBVIOUS
  <2> HIDE DEF b, j
  <2>4. QED
      BY <2>1, <2>2, <2>3 DEF Job
<1>2. job' = [job EXCEPT ![h] = j]
    BY DEF VerifyRead
<1> HIDE DEF j
<1>3. OnlyJob(h, j)
    BY <1>0, <1>1, <1>2, JobWritten
<1>4. /\ job' \in [Runner -> Job] /\ job'[h] = j /\ \A q \in Runner \ {h} : job'[q] = job[q]
    BY <1>3 DEF OnlyJob
<1>5. UNCHANGED <<orderStatus, pay, start, charge, claimed, processed, failures, history>>
    BY DEF VerifyRead
<1>6. Later /\ (JobOK(h)' => Inv')
    BY <1>0, <1>1, <1>4, <1>5, QuietStep
<1>7. start[p] \in Begun /\ pay[p].ref # "none"
    BY <1>0 DEF VerifyRead, PaymentOK, Begun
<1>9. JobOK(h)'
    BY <1>0, <1>1, <1>4, <1>5, <1>7 DEF JobOK, NewsOK, RefundOK, Busy, PagePlaces
<1>10. QED
    BY <1>6, <1>9

\* What the provider says of a checkout is so once it has said it.
LEMMA AnswerIsTrue ==
    ASSUME NEW p \in Payment, charge[p] \in Charge, NEW ref, NEW answer \in Answers(p, ref)
    PROVE  /\ answer[1] \in Verdict \cup {"PENDING"}
           /\ answer[2] \in {"none", "open", "approved", "paid", "closed"}
           /\ answer[1] = "PAID" => answer[2] = "paid"
           /\ answer[1] = "CANCELLED" => answer[2] = "closed"
           /\ \/ answer[2] = charge[p].state
              \/ /\ answer[2] = "paid" /\ charge[p].state = "approved"
                 /\ answer[1] \in {"PAID", "FAILED"}
<1>1. ASSUME answer \in StripeAnswers(p)
      PROVE  /\ answer[1] \in {"PAID", "CANCELLED", "PENDING"} /\ answer[2] = charge[p].state
             /\ answer[1] = "PAID" => answer[2] = "paid"
             /\ answer[1] = "CANCELLED" => answer[2] = "closed"
    BY <1>1 DEF StripeAnswers
<1>2. ASSUME answer \in BkashAnswers(p, ref)
      PROVE  \/ answer[2] = charge[p].state /\ answer[1] \in {"FAILED", "PENDING"}
             \/ answer[1] = "PAID" /\ answer[2] = "paid" /\ charge[p].state \in {"paid", "approved"}
             \/ answer[1] = "CANCELLED" /\ answer[2] = "closed" /\ charge[p].state = "closed"
             \/ answer[1] = "FAILED" /\ answer[2] = "paid" /\ charge[p].state = "approved"
    BY <1>2 DEF BkashAnswers
<1>3. QED
    BY <1>1, <1>2 DEF Answers, Verdict, Charge

LEMMA VerifyAskStep ==
    ASSUME Inv, NEW h \in Handler, VerifyAsk(h)
    PROVE  Inv' /\ Later
<1> SUFFICES ASSUME NEW CONSTANT p, p = job[h].pay PROVE Inv' /\ Later
    OBVIOUS
<1>0. /\ h \in Runner /\ h \notin Event /\ job \in [Runner -> Job] /\ job[h] \in Job /\ JobOK(h)
      /\ pay \in [Payment -> Row] /\ ChargeType /\ failures \in Nat
      /\ \A q \in Payment : charge[q].returned \in Nat
      /\ job[h].at = "asking" /\ declined \subseteq Payment
      /\ UNCHANGED <<orderStatus, pay, start, claimed, processed, failures, overwritten>>
    BY JobFacts DEF Runner, VerifyAsk, Inv, TypeOK
<1>1. p \in Payment /\ start[p] \in Begun /\ job[h].ref \in {"session", "trx"}
    BY <1>0 DEF JobOK, NewsOK, Busy, Job
<1>2. PaymentOK(p) /\ charge[p] \in Charge
    BY <1>0, <1>1 DEF Inv, ChargeType, Charge
<1>a. PICK answer \in Answers(p, job[h].ref) :
          /\ job' = [job EXCEPT ![h].at = "recording", ![h].outcome = answer[1]]
          /\ charge' = [charge EXCEPT ![p].state = answer[2]]
          /\ declined' = IF answer[1] = "FAILED" THEN declined \cup {p} ELSE declined
    BY DEF VerifyAsk
<1> DEFINE j == [job[h] EXCEPT !.at = "recording", !.outcome = answer[1]]
           state == answer[2]
<1>3. /\ answer[1] \in Verdict \cup {"PENDING"}
      /\ answer[1] = "PAID" => state = "paid"
      /\ answer[1] = "CANCELLED" => state = "closed"
      /\ state \in {"none", "open", "approved", "paid", "closed"}
      /\ state = charge[p].state \/ (state = "paid" /\ charge[p].state = "approved")
    BY <1>1, <1>2, AnswerIsTrue
<1>4. /\ j \in Job /\ j.at = "recording" /\ j.pay = p /\ j.outcome = answer[1]
      /\ j.ref = job[h].ref /\ j.died = job[h].died
    BY <1>0, <1>3 DEF Job
<1>5. job' = [job EXCEPT ![h] = j] /\ charge' = [charge EXCEPT ![p].state = state]
    BY <1>0, <1>a
<1>6. /\ declined \subseteq declined' /\ declined' \subseteq Payment
      /\ answer[1] = "FAILED" => p \in declined'
    BY <1>0, <1>1, <1>a
<1> HIDE DEF j, state
<1>8. /\ ChargeType' /\ charge'[p].state = state /\ charge'[p].returned = charge[p].returned
      /\ \A q \in Payment \ {p} : charge'[q] = charge[q]
    BY <1>0, <1>1, <1>3, <1>5, StateWritten
<1>9. /\ job' \in [Runner -> Job] /\ job'[h] = j /\ \A q \in Runner \ {h} : job'[q] = job[q]
    BY <1>0, <1>4, <1>5, JobWritten DEF OnlyJob
<1>10. Later /\ \A q \in Payment \ {p} : Same(q)
    BY <1>0, <1>1, <1>3, <1>6, <1>8, <1>9 DEF Later, Same, Runner
<1>12. JobOK(h)'
    BY <1>0, <1>1, <1>3, <1>4, <1>6, <1>8, <1>9
       DEF JobOK, NewsOK, RefundOK, Busy, PagePlaces
<1>13. PaymentOK(p)'
    BY <1>0, <1>1, <1>2, <1>3, <1>8 DEF PaymentOK, Begun
<1>14. TypeOK'
    BY <1>0, <1>6, <1>8, <1>9 DEF Inv, TypeOK, ChargeType
<1>15. OrderOK'
    BY <1>0, <1>4, <1>9, <1>10, OrderStays DEF Runner
<1>16. QED
    BY <1>0, <1>8, <1>9, <1>10, <1>12, <1>13, <1>14, <1>15, OneJobStep

LEMMA HookStep ==
    ASSUME Inv, NEW e \in Event, HookClaim(e) \/ HookProcessed(e)
    PROVE  Inv' /\ Later
<1>0. /\ e \in Runner /\ e \notin Handler /\ job \in [Runner -> Job] /\ job[e] \in Job /\ JobOK(e)
      /\ EventOK(e) /\ failures \in Nat /\ failures \in 0..MaxFailures
      /\ claimed \subseteq Event /\ processed \subseteq claimed
      /\ e[1] \in Payment /\ e[2] \in Verdict /\ e = <<e[1], e[2]>>
    BY JobFacts DEF Runner, Inv, TypeOK, JobOK, Event
<1>1. PICK at \in {"acked", "recording"} :
          /\ Advance(e, at) /\ UNCHANGED <<orderStatus, pay, start, charge, failures, history>>
          /\ claimed' = claimed \cup {e} /\ processed' \subseteq claimed'
          /\ job[e].at \in {"due", "marking"}
          /\ job[e].died # "no" => at = "acked"
  <2>1. CASE HookClaim(e)
      BY <1>0, <2>1 DEF HookClaim, EventOK
  <2>2. CASE HookProcessed(e)
      BY <1>0, <2>2 DEF HookProcessed, EventOK
  <2>3. QED
      BY <2>1, <2>2
<1>2. OnlyJob(e, [job[e] EXCEPT !.at = at])
    BY <1>0, <1>1, JobAdvanced DEF Places, HookPlaces
<1>3. /\ job' \in [Runner -> Job] /\ \A q \in Runner \ {e} : job'[q] = job[q]
      /\ job'[e].at = at /\ job'[e].pay = e[1] /\ job'[e].outcome = e[2]
      /\ job'[e].died = job[e].died
    BY <1>0, <1>1, <1>2, MovedJob DEF OnlyJob, Places, HookPlaces, EventOK
<1>4. Later /\ (JobOK(e)' => Inv')
    BY <1>0, <1>1, <1>3, QuietStep
<1>5. EventOK(e)'
    BY <1>0, <1>1, <1>3 DEF EventOK, HookPlaces
<1>6. start[e[1]] \in Begun
    BY <1>0, <1>1 DEF JobOK, Busy, EventOK
<1>7. e[2] = "FAILED" => e[1] \in declined'
    BY <1>0, <1>1 DEF EventOK
<1>8. JobOK(e)'
    BY <1>0, <1>1, <1>3, <1>5, <1>6, <1>7 DEF JobOK, EventOK, NewsOK, RefundOK, Verdict
<1>9. QED
    BY <1>4, <1>8

\* A page's job that is over knows nothing.
LEMMA DoneJob ==
    ASSUME Inv, NEW h \in Handler, job' = [job EXCEPT ![h] = Blank("done")]
    PROVE  /\ h \in Runner /\ job' \in [Runner -> Job] /\ job'[h].at = "done" /\ JobOK(h)'
           /\ \A q \in Runner \ {h} : job'[q] = job[q]
<1>1. h \in Runner /\ h \notin Event /\ job \in [Runner -> Job]
    BY JobFacts DEF Runner
<1>2. Blank("done") \in Job /\ Blank("done").at = "done" /\ Blank("done").died = "no"
    BY BlankIsJob DEF Places, PagePlaces
<1>3. OnlyJob(h, Blank("done"))
    BY <1>1, <1>2, JobWritten
<1>4. /\ job' \in [Runner -> Job] /\ job'[h].at = "done" /\ job'[h].died = "no"
      /\ \A q \in Runner \ {h} : job'[q] = job[q]
    BY <1>2, <1>3 DEF OnlyJob
<1>5. JobOK(h)'
    BY <1>1, <1>4 DEF JobOK, NewsOK, RefundOK, Busy, PagePlaces
<1>6. QED
    BY <1>1, <1>4, <1>5

LEMMA RefundCheckStep ==
    ASSUME Inv, NEW h \in Handler, NEW p \in Payment, NEW amount \in 1..Amount,
           RefundCheck(h, p, amount)
    PROVE  Inv' /\ Later
<1> DEFINE b == Blank("refunding")
           j == [b EXCEPT !.pay = p, !.amount = amount, !.seen = pay[p].refunded]
<1>0. /\ h \in Runner /\ h \notin Event /\ job \in [Runner -> Job] /\ pay[p] \in Row
      /\ PaymentOK(p) /\ failures \in 0..MaxFailures /\ failures \in Nat /\ Amount \in Nat
      /\ claimed \subseteq Event /\ processed \subseteq claimed
    BY JobFacts DEF Runner, Inv, TypeOK
<1>1. b \in Job /\ b.at = "refunding" /\ b.died = "no"
    BY BlankIsJob DEF Places, PagePlaces
<1>2. job' = [job EXCEPT ![h] = j]
    BY DEF RefundCheck
<1>3. pay[p].refunded \in 0..Amount /\ amount \in 0..Amount /\ amount > 0
    BY <1>0 DEF Row
<1> HIDE DEF b
<1>4. /\ j \in Job /\ j.at = "refunding" /\ j.pay = p /\ j.amount = amount
      /\ j.seen = pay[p].refunded /\ j.died = "no"
    BY <1>1, <1>3 DEF Job
<1> HIDE DEF j
<1>5. job' \in [Runner -> Job] /\ job'[h] = j /\ \A q \in Runner \ {h} : job'[q] = job[q]
    BY <1>0, <1>2, <1>4, JobWritten DEF OnlyJob
<1>6. UNCHANGED <<orderStatus, pay, start, charge, claimed, processed, failures, history>>
    BY DEF RefundCheck
<1>7. Later /\ (JobOK(h)' => Inv')
    BY <1>0, <1>4, <1>5, <1>6, QuietStep
<1>8. start[p] \in Begun /\ pay[p].refunded <= charge[p].returned
    BY <1>0 DEF RefundCheck, PaymentOK, Begun
<1>9. JobOK(h)'
    BY <1>0, <1>3, <1>4, <1>5, <1>6, <1>8 DEF JobOK, NewsOK, RefundOK, Busy, PagePlaces
<1>10. QED
    BY <1>7, <1>9

LEMMA RefundCallStep ==
    ASSUME Inv, NEW h \in Handler, RefundCall(h)
    PROVE  Inv' /\ Later
<1> SUFFICES ASSUME NEW CONSTANT p, p = job[h].pay PROVE Inv' /\ Later
    OBVIOUS
<1>0. /\ h \in Runner /\ h \notin Event /\ job \in [Runner -> Job] /\ job[h] \in Job /\ JobOK(h)
      /\ pay \in [Payment -> Row] /\ ChargeType /\ failures \in Nat /\ Amount \in Nat
      /\ \A q \in Payment : charge[q].returned \in Nat
      /\ failures \in 0..MaxFailures /\ claimed \subseteq Event /\ processed \subseteq claimed
      /\ job[h].at = "refunding"
      /\ UNCHANGED <<orderStatus, pay, start, claimed, processed, failures, history>>
    BY JobFacts DEF Runner, RefundCall, Inv, TypeOK
<1>1. /\ p \in Payment /\ start[p] \in Begun /\ job[h].amount \in Nat /\ job[h].seen \in Nat
      /\ job[h].seen <= charge[p].returned /\ job[h].amount > 0
    BY <1>0 DEF JobOK, RefundOK, Busy, Job
<1>2. PaymentOK(p) /\ charge[p] \in Charge /\ charge[p].returned \in Nat
    BY <1>0, <1>1 DEF Inv, ChargeType, Charge
<1> DEFINE total == charge[p].returned + job[h].amount
           c == [charge[p] EXCEPT !.returned = total]
<1>3. CASE charge[p].state = "paid" /\ total <= Amount
  <2>1. charge' = [charge EXCEPT ![p].returned = total] /\ Advance(h, "returned")
      BY <1>3 DEF RefundCall
  <2>2. c \in Charge /\ c.state = "paid" /\ c.returned = total
      BY <1>0, <1>1, <1>2, <1>3 DEF Charge
  <2>3. charge' = [charge EXCEPT ![p] = c]
      BY <1>0, <1>1, <2>1 DEF ChargeType
  <2> HIDE DEF c
  <2>4. ChargeType' /\ charge'[p] = c /\ \A q \in Payment \ {p} : charge'[q] = charge[q]
      BY <1>0, <1>1, <2>2, <2>3 DEF ChargeType, Charge
  <2>5. OnlyJob(h, [job[h] EXCEPT !.at = "returned"])
      BY <1>0, <2>1, JobAdvanced DEF Places, PagePlaces
  <2>6. /\ job' \in [Runner -> Job] /\ \A q \in Runner \ {h} : job'[q] = job[q]
        /\ job'[h].at = "returned" /\ job'[h].pay = p /\ job'[h].amount = job[h].amount
        /\ job'[h].seen = job[h].seen /\ job'[h].died = job[h].died
      BY <1>0, <2>5, MovedJob DEF OnlyJob, Places, PagePlaces
  <2>7. total \in Nat /\ total > charge[p].returned /\ job[h].seen + job[h].amount <= total
      BY <1>1, <1>2
  <2> HIDE DEF total
  <2>8. Later /\ \A q \in Payment \ {p} : Same(q)
      BY <1>0, <1>1, <1>2, <1>3, <2>2, <2>4, <2>6, <2>7 DEF Later, Same, Runner
  <2>10. JobOK(h)'
      BY <1>0, <1>1, <2>2, <2>4, <2>6, <2>7 DEF JobOK, NewsOK, RefundOK, Busy, PagePlaces
  <2>11. PaymentOK(p)'
    <3>1. pay[p].refunded \in Nat
        BY <1>1, JobFacts, <1>0
    <3>2. pay[p].refunded <= total
        BY <1>2, <2>7, <3>1 DEF PaymentOK
    <3>3. QED
        BY <1>0, <1>1, <1>2, <1>3, <2>2, <2>4, <3>2 DEF PaymentOK, Begun
  <2>12. TypeOK'
      BY <1>0, <2>4, <2>6 DEF Inv, TypeOK, ChargeType
  <2>13. OrderOK'
      BY <1>0, <2>6, <2>8, OrderStays DEF Runner
  <2>14. QED
      BY <1>0, <2>4, <2>6, <2>8, <2>10, <2>11, <2>12, <2>13, OneJobStep
<1>4. CASE ~(charge[p].state = "paid" /\ total <= Amount)
  <2>1. job' = [job EXCEPT ![h] = Blank("done")] /\ UNCHANGED charge
      BY <1>4 DEF RefundCall
  <2>2. /\ job' \in [Runner -> Job] /\ job'[h].at = "done" /\ JobOK(h)'
        /\ \A q \in Runner \ {h} : job'[q] = job[q]
      BY <2>1, DoneJob
  <2>3. QED
      BY <1>0, <2>1, <2>2, QuietStep
<1>5. QED
    BY <1>3, <1>4

LEMMA RefundLogStep ==
    ASSUME Inv, NEW h \in Handler, RefundLog(h)
    PROVE  Inv' /\ Later
<1> SUFFICES ASSUME NEW CONSTANT p, p = job[h].pay PROVE Inv' /\ Later
    OBVIOUS
<1>0. /\ h \in Runner /\ h \notin Event /\ job \in [Runner -> Job] /\ job[h] \in Job /\ JobOK(h)
      /\ pay \in [Payment -> Row] /\ ChargeType /\ failures \in Nat
      /\ \A q \in Payment : charge[q].returned \in Nat
      /\ job[h].at = "returned" /\ Advance(h, "logged")
      /\ UNCHANGED <<orderStatus, start, charge, claimed, processed, failures, history>>
    BY JobFacts DEF Runner, RefundLog
<1>1. p \in Payment /\ job[h].amount \in Nat
    BY <1>0, AmountType DEF JobOK, Busy, Job
<1>2. PaymentOK(p) /\ pay[p] \in Row
    BY <1>0, <1>1 DEF Inv
<1> DEFINE x == [pay[p] EXCEPT !.logged = Logged(h)]
<1>3. Logged(h) \in Nat /\ Logged(h) > 0 /\ Logged(h) >= pay[p].logged
    BY <1>0, <1>1, <1>2 DEF Logged, Row, JobOK, RefundOK
<1>4. /\ x \in Row /\ x.via = pay[p].via /\ x.status = pay[p].status /\ x.ref = pay[p].ref
      /\ x.refunded = pay[p].refunded /\ x.logged = Logged(h)
    BY <1>2, <1>3 DEF Row
<1>5. pay' = [pay EXCEPT ![p] = x]
    BY <1>0, <1>1 DEF RefundLog
<1> HIDE DEF x
<1>6. pay' \in [Payment -> Row] /\ pay'[p] = x /\ \A q \in Payment \ {p} : pay'[q] = pay[q]
    BY <1>0, <1>1, <1>4, <1>5, PayWritten
<1>7. OnlyJob(h, [job[h] EXCEPT !.at = "logged"])
    BY <1>0, JobAdvanced DEF Places, PagePlaces
<1>8. /\ job' \in [Runner -> Job] /\ \A q \in Runner \ {h} : job'[q] = job[q]
      /\ job'[h].at = "logged" /\ job'[h].pay = p /\ job'[h].amount = job[h].amount
      /\ job'[h].seen = job[h].seen /\ job'[h].died = job[h].died
    BY <1>0, <1>7, MovedJob DEF OnlyJob, Places, PagePlaces
<1>9. Later /\ \A q \in Payment \ {p} : Same(q)
    BY <1>0, <1>1, <1>3, <1>4, <1>6, <1>8 DEF Later, Same, Runner
<1>11. JobOK(h)'
    BY <1>0, <1>1, <1>3, <1>4, <1>6, <1>8 DEF JobOK, NewsOK, RefundOK, Busy, PagePlaces
<1>12. PaymentOK(p)'
    BY <1>0, <1>2, <1>4, <1>6 DEF PaymentOK
<1>13. TypeOK' /\ ChargeType'
    BY <1>0, <1>6, <1>8 DEF Inv, TypeOK, ChargeType
<1>14. OrderOK'
    BY <1>0, <1>8, <1>9, OrderStays DEF Runner
<1>15. QED
    BY <1>0, <1>8, <1>9, <1>11, <1>12, <1>13, <1>14, OneJobStep

\* A refund is booked on what it saw: money that went back, so never too much.
LEMMA RefundPaymentStep ==
    ASSUME Inv, NEW h \in Handler, RefundPayment(h)
    PROVE  Inv' /\ Later
<1> SUFFICES ASSUME NEW CONSTANT p, p = job[h].pay PROVE Inv' /\ Later
    OBVIOUS
<1> DEFINE total == RefundTotal(h)
           x == [pay[p] EXCEPT !.refunded = total, !.status = RefundStatus(total)]
<1>0. /\ h \in Runner /\ h \notin Event /\ job \in [Runner -> Job] /\ job[h] \in Job /\ JobOK(h)
      /\ pay \in [Payment -> Row] /\ ChargeType /\ failures \in Nat /\ Amount \in Nat
      /\ \A q \in Payment : charge[q].returned \in Nat
      /\ job[h].at = "logged" /\ Advance(h, "refunded")
      /\ UNCHANGED <<orderStatus, start, charge, claimed, processed, failures, declined>>
    BY JobFacts DEF Runner, RefundPayment
<1>1. /\ p \in Payment /\ job[h].amount \in Nat /\ job[h].seen \in Nat /\ start[p] \in Begun
      /\ job[h].amount > 0 /\ charge[p].state = "paid"
      /\ job[h].seen + job[h].amount <= charge[p].returned /\ pay[p].logged > 0
    BY <1>0 DEF JobOK, RefundOK, Busy, Job
<1>2. PaymentOK(p) /\ pay[p] \in Row /\ charge[p].returned \in 0..Amount
    BY <1>0, <1>1 DEF Inv, ChargeType
<1>3. total \in 1..Amount /\ total <= charge[p].returned
    BY <1>0, <1>1, <1>2 DEF RefundTotal
<1>4. RefundStatus(total) \in Refunding
    BY DEF RefundStatus, Refunding
<1>b. overwritten' \subseteq Payment
    BY <1>1 DEF RefundPayment, Inv, TypeOK
<1>5. pay' = [pay EXCEPT ![p] = x]
    BY <1>0, <1>1 DEF RefundPayment
<1> HIDE DEF total
<1>6. total \in 0..Amount /\ total > 0
    BY <1>0, <1>3
<1>7. /\ x \in Row /\ x.via = pay[p].via /\ x.status \in Refunding /\ x.ref = pay[p].ref
      /\ x.refunded = total /\ x.logged = pay[p].logged
    BY <1>2, <1>4, <1>6 DEF Row, PaymentStatus, PaidLike
<1> HIDE DEF x
<1>8. pay' \in [Payment -> Row] /\ pay'[p] = x /\ \A q \in Payment \ {p} : pay'[q] = pay[q]
    BY <1>0, <1>1, <1>5, <1>7, PayWritten
<1>9. OnlyJob(h, [job[h] EXCEPT !.at = "refunded"])
    BY <1>0, JobAdvanced DEF Places, PagePlaces
<1>10. /\ job' \in [Runner -> Job] /\ \A q \in Runner \ {h} : job'[q] = job[q]
       /\ job'[h].at = "refunded" /\ job'[h].pay = p /\ job'[h].amount = job[h].amount
       /\ job'[h].seen = job[h].seen /\ job'[h].died = job[h].died
    BY <1>0, <1>9, MovedJob DEF OnlyJob, Places, PagePlaces
<1>11. Later /\ \A q \in Payment \ {p} : Same(q)
    BY <1>0, <1>1, <1>6, <1>7, <1>8, <1>10 DEF Later, Same, Runner
<1>13. JobOK(h)'
    BY <1>0, <1>1, <1>7, <1>8, <1>10 DEF JobOK, NewsOK, RefundOK, Busy, PagePlaces
<1>14. PaymentOK(p)'
    BY <1>0, <1>1, <1>2, <1>3, <1>7, <1>8 DEF PaymentOK, Begun, Refunding, PaidLike
<1>15. TypeOK' /\ ChargeType'
    BY <1>0, <1>8, <1>10, <1>b DEF Inv, TypeOK, ChargeType
<1>16. OrderOK'
    BY <1>0, <1>10, <1>11, OrderStays DEF Runner
<1>17. QED
    BY <1>0, <1>10, <1>11, <1>13, <1>14, <1>15, <1>16, OneJobStep

\* A page's last write: the order's status, for which there is money.
LEMMA OrderWrittenStep ==
    ASSUME Inv, NEW h \in Handler, job[h].at # "none",
           job' = [job EXCEPT ![h] = Blank("done")], orderStatus' \in PaidLike,
           UNCHANGED <<pay, start, charge, claimed, processed, failures, history>>,
           \E p \in Payment : pay[p].via = "COUNTER" \/ charge[p].state = "paid",
           orderStatus' \in Refunding => \E p \in Payment : pay[p].logged > 0
    PROVE  Inv' /\ Later
<1>0. /\ failures \in Nat /\ \A q \in Payment : charge[q].returned \in Nat
      /\ job \in [Runner -> Job]
    BY JobFacts DEF Runner
<1>1. /\ h \in Runner /\ job' \in [Runner -> Job] /\ job'[h].at = "done" /\ JobOK(h)'
      /\ \A q \in Runner \ {h} : job'[q] = job[q]
    BY DoneJob
<1>2. Later /\ \A q \in Payment : Same(q)
    BY <1>0, <1>1 DEF Later, Same, Runner
<1>3. TypeOK' /\ ChargeType'
    BY <1>1 DEF Inv, TypeOK, ChargeType, OrderStatus
<1>4. OrderOK'
    BY <1>1 DEF Inv, OrderOK, Runner, PaidLike, Refunding
<1>5. QED
    BY <1>1, <1>2, <1>3, <1>4, OneJobStep

LEMMA RefundOrderStep ==
    ASSUME Inv, NEW h \in Handler, RefundOrder(h)
    PROVE  Inv' /\ Later
<1>1. h \in Runner /\ JobOK(h)
    BY JobFacts DEF Runner
<1>2. job[h].pay \in Payment /\ charge[job[h].pay].state = "paid" /\ pay[job[h].pay].logged > 0
    BY <1>1 DEF RefundOrder, JobOK, RefundOK, Busy
<1>3. orderStatus' \in PaidLike
    BY DEF RefundOrder, RefundStatus, PaidLike, Refunding
<1>4. QED
    BY <1>2, <1>3, OrderWrittenStep DEF RefundOrder

LEMMA CounterStep ==
    ASSUME Inv, NEW h \in Handler, CounterCheck(h) \/ CounterOrder(h)
    PROVE  Inv' /\ Later
<1>0. /\ h \in Runner /\ h \notin Event /\ job \in [Runner -> Job] /\ job[h] \in Job /\ JobOK(h)
      /\ failures \in Nat /\ failures \in 0..MaxFailures
      /\ claimed \subseteq Event /\ processed \subseteq claimed
    BY JobFacts DEF Runner, Inv, TypeOK
<1>1. CASE CounterCheck(h)
  <2>1. OnlyJob(h, [job[h] EXCEPT !.at = "counting"])
      BY <1>0, <1>1, JobAdvanced DEF CounterCheck, Places, PagePlaces
  <2>2. /\ job' \in [Runner -> Job] /\ \A q \in Runner \ {h} : job'[q] = job[q]
        /\ job'[h].at = "counting" /\ job'[h].died = job[h].died
      BY <1>0, <2>1, MovedJob DEF OnlyJob, Places, PagePlaces
  <2>3. UNCHANGED <<orderStatus, pay, start, charge, claimed, processed, failures, history>>
      BY <1>1 DEF CounterCheck
  <2>4. JobOK(h)'
      BY <1>0, <1>1, <2>2 DEF CounterCheck, JobOK, NewsOK, RefundOK, Busy, PagePlaces
  <2>5. QED
      BY <1>0, <2>2, <2>3, <2>4, QuietStep
<1>2. CASE CounterOrder(h)
  <2>1. \E p \in Payment : pay[p].via = "COUNTER"
      BY <1>2 DEF CounterOrder, Inv, OrderOK
  <2>2. QED
      BY <1>2, <2>1, OrderWrittenStep DEF CounterOrder, PaidLike, Refunding
<1>3. QED
    BY <1>1, <1>2

LEMMA CounterCreateStep ==
    ASSUME Inv, NEW h \in Handler, NEW p \in Payment, CounterCreate(h, p)
    PROVE  Inv' /\ Later
<1> DEFINE x == [pay[p] EXCEPT !.via = "COUNTER", !.status = "PAID"]
<1>0. /\ h \in Runner /\ h \notin Event /\ job \in [Runner -> Job] /\ job[h] \in Job /\ JobOK(h)
      /\ pay \in [Payment -> Row] /\ ChargeType /\ failures \in Nat
      /\ \A q \in Payment : charge[q].returned \in Nat
      /\ PaymentOK(p) /\ pay[p] \in Row
    BY JobFacts DEF Runner, Inv
<1>1. /\ job[h].at = "counting" /\ pay[p].status = "NONE" /\ start[p] = "none"
      /\ job' = [job EXCEPT ![h].at = "counted", ![h].pay = p]
      /\ UNCHANGED <<orderStatus, start, charge, claimed, processed, failures, history>>
    BY DEF CounterCreate
<1>2. /\ x \in Row /\ x.via = "COUNTER" /\ x.status = "PAID" /\ x.ref = pay[p].ref
      /\ x.refunded = pay[p].refunded /\ x.logged = pay[p].logged
    BY <1>0 DEF Row, PaymentStatus, PaidLike
<1>3. pay' = [pay EXCEPT ![p] = x]
    BY <1>0 DEF CounterCreate
<1> HIDE DEF x
<1>4. pay' \in [Payment -> Row] /\ pay'[p] = x /\ \A q \in Payment \ {p} : pay'[q] = pay[q]
    BY <1>0, <1>2, <1>3, PayWritten
<1>5. /\ [job[h] EXCEPT !.at = "counted", !.pay = p] \in Job
      /\ [job[h] EXCEPT !.at = "counted", !.pay = p].at = "counted"
      /\ [job[h] EXCEPT !.at = "counted", !.pay = p].died = job[h].died
    BY <1>0 DEF Job
<1>6. /\ job' \in [Runner -> Job] /\ \A q \in Runner \ {h} : job'[q] = job[q]
      /\ job'[h].at = "counted" /\ job'[h].died = job[h].died
    BY <1>0, <1>1, <1>5
<1>7. Later /\ \A q \in Payment \ {p} : Same(q)
    BY <1>0, <1>1, <1>2, <1>4, <1>6 DEF Later, Same, Runner
<1>8. JobOK(h)'
    BY <1>0, <1>1, <1>6 DEF JobOK, NewsOK, RefundOK, Busy, PagePlaces
<1>9. PaymentOK(p)'
    BY <1>0, <1>1, <1>2, <1>4 DEF PaymentOK, Begun
<1>10. TypeOK' /\ ChargeType'
    BY <1>0, <1>1, <1>4, <1>6 DEF Inv, TypeOK, ChargeType
<1>11. OrderOK'
    BY <1>1, <1>2, <1>4, <1>7 DEF Inv, OrderOK, Later
<1>12. QED
    BY <1>0, <1>1, <1>6, <1>7, <1>8, <1>9, <1>10, <1>11, OneJobStep

\* A failure loses what its job knew, or has Stripe post the same again.
LEMMA FailStep ==
    ASSUME Inv, NEW r \in Runner, Fail(r)
    PROVE  Inv' /\ Later
<1> DEFINE at == IF r \in Event THEN "due" ELSE "done"
           j == [job[r] EXCEPT !.at = at, !.died = job[r].at]
<1>0. /\ job \in [Runner -> Job] /\ job[r] \in Job /\ JobOK(r) /\ (r \notin Handler <=> r \in Event)
      /\ failures \in Nat /\ MaxFailures \in Nat
      /\ claimed \subseteq Event /\ processed \subseteq claimed
    BY JobFacts DEF Inv, TypeOK
<1>1. /\ job[r].at \in Step
      /\ failures' = failures + 1 /\ failures < MaxFailures
      /\ job' = [job EXCEPT ![r] = j]
      /\ UNCHANGED <<orderStatus, pay, start, charge, claimed, processed, history>>
    BY <1>0 DEF Fail
<1>2. failures' \in 0..MaxFailures /\ failures <= failures' /\ failures' # 0
    BY <1>0, <1>1
<1>3. /\ j \in Job /\ j.at = at /\ j.pay = job[r].pay /\ j.outcome = job[r].outcome
    BY <1>0, <1>1 DEF Job
<1> HIDE DEF j
<1>4. /\ job' \in [Runner -> Job] /\ \A q \in Runner \ {r} : job'[q] = job[q]
      /\ job'[r].at = at /\ job'[r].pay = job[r].pay /\ job'[r].outcome = job[r].outcome
    BY <1>0, <1>1, <1>3
<1>5. JobOK(r)'
  <2>1. CASE r \in Event
    <3>1. /\ EventOK(r) /\ job[r].at \in Busy /\ job[r].pay \in Payment
          /\ start[job[r].pay] \in Begun /\ r \in claimed
        BY <1>0, <1>1, <2>1 DEF JobOK, EventOK, HookPlaces, Busy
    <3>2. EventOK(r)'
        BY <1>1, <1>2, <1>4, <2>1, <3>1 DEF EventOK, HookPlaces
    <3>3. QED
        BY <1>0, <1>1, <1>4, <2>1, <3>1, <3>2 DEF JobOK, NewsOK, RefundOK
  <2>2. CASE r \notin Event
      BY <1>0, <1>4, <2>2 DEF JobOK, NewsOK, RefundOK, Busy, PagePlaces
  <2>3. QED
      BY <2>1, <2>2
<1>6. QED
    BY <1>0, <1>1, <1>2, <1>4, <1>5, QuietStep

-------------------------------------------------------------------------------
(* Types, and the money behind what counts as paid                             *)

LEMMA InvInit ==
    Init => Inv
<1> SUFFICES ASSUME Init PROVE Inv
    OBVIOUS
<1>0. Amount \in Nat /\ MaxFailures \in Nat /\ 0 \in 0..Amount /\ 0 \in 0..MaxFailures
    BY AmountType, MaxFailuresType
<1>1. \A r \in Runner : /\ r \in Event => job[r] = Delivery(r, "none")
                        /\ r \notin Event => job[r] = Blank("idle")
    BY DEF Init
<1>2. \A e \in Event : /\ Delivery(e, "none") \in Job /\ Delivery(e, "none").at = "none"
                       /\ Delivery(e, "none").pay = e[1] /\ Delivery(e, "none").outcome = e[2]
                       /\ Delivery(e, "none").died = "no"
  <2>1. Blank("none") \in Job /\ Blank("none").at = "none" /\ Blank("none").died = "no"
      BY BlankIsJob DEF Places, HookPlaces
  <2>2. QED
      BY <2>1 DEF Delivery, Job, Event
<1>3. Blank("idle") \in Job /\ Blank("idle").at = "idle" /\ Blank("idle").died = "no"
    BY BlankIsJob DEF Places, PagePlaces
<1>4. job \in [Runner -> Job]
    BY <1>1, <1>2, <1>3 DEF Init
<1>5. pay \in [Payment -> Row]
    BY <1>0 DEF Init, Row, PaymentStatus
<1>6. TypeOK /\ ChargeType
    BY <1>0, <1>4, <1>5 DEF Init, TypeOK, ChargeType, OrderStatus
<1>7. \A r \in Runner : JobOK(r)
  <2>1. SUFFICES ASSUME NEW r \in Runner PROVE JobOK(r)
      OBVIOUS
  <2>2. CASE r \in Event
      BY <1>1, <1>2, <2>2, HandlerFresh
         DEF Init, JobOK, EventOK, NewsOK, RefundOK, Busy, HookPlaces
  <2>3. CASE r \notin Event
      BY <1>1, <1>3, <2>3 DEF JobOK, NewsOK, RefundOK, Busy, PagePlaces
  <2>4. QED
      BY <2>2, <2>3
<1>8. \A p \in Payment : PaymentOK(p)
    BY DEF Init, PaymentOK, Begun, PaidLike, Refunding
<1>9. OrderOK
    BY <1>1, <1>3, HandlerFresh DEF Init, OrderOK, PaidLike, Refunding, Runner
<1>10. QED
    BY <1>6, <1>7, <1>8, <1>9 DEF Inv

LEMMA Stutter ==
    ASSUME Inv, UNCHANGED vars
    PROVE  Inv' /\ Later
<1> USE DEF vars
<1>1. TypeOK' /\ ChargeType' /\ OrderOK'
    BY DEF Inv, TypeOK, ChargeType, OrderOK
<1>2. \A p \in Payment : PaymentOK(p)'
    BY DEF Inv, PaymentOK
<1>3. \A r \in Runner : JobOK(r)'
    BY DEF Inv, JobOK, EventOK, NewsOK, RefundOK
<1>4. failures \in Nat /\ \A p \in Payment : charge[p].returned \in Nat
    BY MaxFailuresType, AmountType DEF Inv, TypeOK, ChargeType
<1>5. Later
    BY <1>4 DEF Later
<1>6. QED
    BY <1>1, <1>2, <1>3, <1>5 DEF Inv

LEMMA AnyStep ==
    ASSUME Inv, [Next]_vars
    PROVE  Inv' /\ Later
<1>1. ASSUME NEW p \in Payment, Diner(p) \/ Start(p) \/ StartLost(p) PROVE Inv' /\ Later
    BY <1>1, StartStep, DinerStep DEF Diner
<1>2. ASSUME NEW e \in Event, Hook(e) PROVE Inv' /\ Later
    BY <1>2, HookStep, RecordStep DEF Hook, Runner
<1>3. ASSUME NEW h \in Handler, Arrive(h) PROVE Inv' /\ Later
    BY <1>3, VerifyReadStep, RefundCheckStep, CounterStep DEF Arrive
<1>4. ASSUME NEW h \in Handler, Serve(h) PROVE Inv' /\ Later
    BY <1>4, VerifyAskStep, RecordStep, RefundCallStep, RefundLogStep, RefundPaymentStep,
       RefundOrderStep, CounterStep, CounterCreateStep DEF Serve, Runner
<1>5. ASSUME NEW r \in Runner, Fail(r) PROVE Inv' /\ Later
    BY <1>5, FailStep
<1>6. QED
    BY <1>1, <1>2, <1>3, <1>4, <1>5, Stutter DEF Next

LEMMA InvStep ==
    Inv /\ [Next]_vars => Inv'
BY AnyStep

LEMMA AlwaysInv ==
    Spec => []Inv
BY InvInit, InvStep, PTL DEF Spec

\* The rows, checkouts and jobs of Payments keep their types.
THEOREM PaymentTypeCorrect ==
    Spec => []TypeOK
<1>1. Inv => TypeOK
    BY DEF Inv
<1>2. QED
    BY <1>1, AlwaysInv, PTL

\* Whatever pages, events, refunds and failures interleave, what counts as paid has
\* money behind it (recordOutcome, refundPayment, recordCounterPayment).
THEOREM PaidAlwaysReal ==
    Spec => []PaidIsReal
<1>1. Inv => PaidIsReal
    BY DEF Inv, PaidIsReal, PaymentOK, OrderOK
<1>2. QED
    BY <1>1, AlwaysInv, PTL

-------------------------------------------------------------------------------
(* Who moves what                                                              *)

\* A job changes by a step of its own, or because its event is posted.
Own(r) ==
    \/ Record(r) \/ Fail(r)
    \/ r \in Event /\ (HookClaim(r) \/ HookProcessed(r))
    \/ r \in Handler /\ (Arrive(r) \/ Serve(r))

Posted(r) ==
    /\ r \in Event /\ job[r].at = "none" /\ job' = [job EXCEPT ![r].at = "due"]
    /\ UNCHANGED claimed

LEMMA OwnSteps ==
    ASSUME Inv, NEW r \in Runner, Own(r)
    PROVE  \A q \in Runner \ {r} : job'[q] = job[q] /\ (q \in claimed' => q \in claimed)
<1>0. job \in [Runner -> Job]
    BY JobFacts
<1>1. CASE Record(r)
    BY <1>0, <1>1 DEF Record, RecordRead, RecordPayment, RecordOrder, Return, Advance
<1>2. CASE Fail(r)
    BY <1>0, <1>2 DEF Fail
<1>3. CASE HookClaim(r) \/ HookProcessed(r)
    BY <1>0, <1>3 DEF HookClaim, HookProcessed, Advance
<1>4. CASE Arrive(r)
    BY <1>0, <1>4 DEF Arrive, CounterCheck, VerifyRead, RefundCheck, Advance
<1>5. CASE Serve(r)
    BY <1>0, <1>1, <1>5 DEF Serve, VerifyAsk, RefundCall, RefundLog, RefundPayment,
       RefundOrder, CounterOrder, CounterCreate, Advance
<1>6. QED
    BY <1>1, <1>2, <1>3, <1>4, <1>5 DEF Own

\* Every step is one of: nobody's job, an event that is posted, a job's own step.
LEMMA WhoMoves ==
    ASSUME Inv, [Next]_vars
    PROVE  \/ UNCHANGED <<job, claimed>>
           \/ \E r \in Runner : Posted(r)
           \/ \E r \in Runner : Own(r)
<1>1. ASSUME NEW p \in Payment, DinerPays(p) \/ CardDeclined(p) \/ CheckoutCloses(p)
      PROVE  UNCHANGED <<job, claimed>> \/ \E r \in Runner : Posted(r)
  <2>1. \A verdict \in {"PAID", "FAILED", "CANCELLED"} :
            <<p, verdict>> \in Event /\ <<p, verdict>> \in Runner /\ EventOK(<<p, verdict>>)
      BY DEF Inv, JobOK, Event, Runner, Verdict
  <2>2. CASE UNCHANGED <<job, claimed>>
      BY <2>2
  <2>3. CASE \E verdict \in {"PAID", "FAILED", "CANCELLED"} :
                 Emit(p, verdict) /\ job[<<p, verdict>>].at = "none" /\ UNCHANGED claimed
      BY <2>1, <2>3 DEF Posted, Emit
  <2>4. QED
    <3>1. CASE DinerPays(p)
        BY <1>1, <2>1, <2>2, <2>3, <3>1 DEF DinerPays, EventOK
    <3>2. CASE CardDeclined(p)
        BY <1>1, <2>1, <2>3, <3>2 DEF CardDeclined
    <3>3. CASE CheckoutCloses(p)
        BY <1>1, <2>1, <2>2, <2>3, <3>3 DEF CheckoutCloses, EventOK
    <3>4. QED
        BY <1>1, <3>1, <3>2, <3>3
<1>2. ASSUME NEW p \in Payment, StartCheck(p) \/ Start(p) \/ StartLost(p)
      PROVE  UNCHANGED <<job, claimed>>
    BY <1>2 DEF StartCheck, Start, StartLost, StartCreate, StartOpen, StartRefused
<1>3. ASSUME NEW e \in Event, Hook(e) PROVE Own(e) /\ e \in Runner
    BY <1>3 DEF Hook, Own, Runner
<1>4. ASSUME NEW h \in Handler, Arrive(h) \/ Serve(h) PROVE Own(h) /\ h \in Runner
    BY <1>4 DEF Own, Runner
<1>5. CASE UNCHANGED vars
    BY <1>5 DEF vars
<1>6. CASE Next
    BY <1>1, <1>2, <1>3, <1>4, <1>6 DEF Next, Diner, Own
<1>7. QED
    BY <1>5, <1>6

\* What moves a payment's status: its own start, a recording that is writing, a
\* refund, or the counter.
LEMMA StatusMoves ==
    ASSUME Inv, [Next]_vars, NEW p \in Payment
    PROVE  \/ pay'[p].status = pay[p].status
           \/ pay[p].status \in {"NONE", "PENDING"}
           \/ \E r \in Runner : /\ job[r].at = "writing" /\ job[r].pay = p
                                /\ pay'[p].status = job[r].outcome
           \/ pay'[p].status \in Refunding
<1>0. pay \in [Payment -> Row] /\ pay[p] \in Row /\ PaymentOK(p)
    BY DEF Inv, TypeOK
<1>1. ASSUME NEW r \in Runner, Record(r)
      PROVE  \/ pay'[p].status = pay[p].status
             \/ /\ job[r].at = "writing" /\ job[r].pay = p
                /\ pay'[p].status = job[r].outcome
  <2>1. CASE RecordPayment(r)
      BY <1>0, <2>1 DEF RecordPayment, Row
  <2>2. CASE RecordRead(r) \/ RecordOrder(r)
      BY <2>2 DEF RecordRead, RecordOrder
  <2>3. QED
      BY <1>1, <2>1, <2>2 DEF Record
<1>2. ASSUME NEW q \in Payment, Diner(q) \/ Start(q) \/ StartLost(q)
      PROVE  pay'[p].status = pay[p].status \/ pay[p].status \in {"NONE", "PENDING"}
  <2>1. CASE StartCreate(q)
      BY <1>0, <2>1 DEF StartCreate, Row
  <2>2. CASE StartOpen(q)
      BY <1>0, <2>2 DEF StartOpen, Row
  <2>3. CASE StartRefused(q)
    <3>1. q = p => pay[p].status = "PENDING"
        BY <1>0, <2>3 DEF StartRefused, PaymentOK
    <3>2. QED
        BY <1>0, <2>3, <3>1 DEF StartRefused, Row
  <2>4. CASE Diner(q) \/ StartLost(q)
      BY <2>4 DEF Diner, StartLost, StartCheck, DinerPays, CardDeclined, CheckoutCloses
  <2>5. QED
      BY <1>2, <2>1, <2>2, <2>3, <2>4 DEF Start
<1>3. ASSUME NEW e \in Event, HookClaim(e) \/ HookProcessed(e)
      PROVE  pay'[p].status = pay[p].status
    BY <1>3 DEF HookClaim, HookProcessed
<1>4. ASSUME NEW h \in Handler, Arrive(h) PROVE pay'[p].status = pay[p].status
    BY <1>4 DEF Arrive, CounterCheck, VerifyRead, RefundCheck
<1>5. ASSUME NEW h \in Handler, Serve(h), ~Record(h)
      PROVE  \/ pay'[p].status = pay[p].status
             \/ pay[p].status = "NONE" \/ pay'[p].status \in Refunding
  <2>1. CASE RefundLog(h)
      BY <1>0, <2>1 DEF RefundLog, Row
  <2>2. CASE RefundPayment(h)
      BY <1>0, <2>2 DEF RefundPayment, RefundStatus, Refunding, Row
  <2>3. CASE \E q \in Payment : CounterCreate(h, q)
      BY <1>0, <2>3 DEF CounterCreate, Row
  <2>4. CASE VerifyAsk(h) \/ RefundCall(h) \/ RefundOrder(h) \/ CounterOrder(h)
      BY <2>4 DEF VerifyAsk, RefundCall, RefundOrder, CounterOrder
  <2>5. QED
      BY <1>5, <2>1, <2>2, <2>3, <2>4 DEF Serve
<1>6. ASSUME NEW r \in Runner, Fail(r) PROVE pay'[p].status = pay[p].status
    BY <1>6 DEF Fail
<1>7. CASE UNCHANGED vars
    BY <1>7 DEF vars
<1>8. CASE Next
    BY <1>1, <1>2, <1>3, <1>4, <1>5, <1>6, <1>8 DEF Next, Hook, Runner
<1>9. QED
    BY <1>7, <1>8

\* Where the steps of a page lead.
LEMMA ArriveLeads ==
    ASSUME Inv, NEW h \in Handler, Arrive(h)
    PROVE  \/ CounterCheck(h) /\ job'[h].at = "counting"
           \/ job'[h].at \in {"asking", "refunding"}
<1>0. h \in Runner /\ job \in [Runner -> Job] /\ job[h] \in Job
    BY JobFacts DEF Runner
<1>1. CASE CounterCheck(h)
    BY <1>0, <1>1 DEF CounterCheck, Advance, Job
<1>2. ASSUME NEW p \in Payment, VerifyRead(h, p) PROVE job'[h].at = "asking"
  <2>1. job'[h] = [Blank("asking") EXCEPT !.pay = p, !.ref = pay[p].ref]
      BY <1>0, <1>2 DEF VerifyRead
  <2>2. QED
      BY <2>1 DEF Blank
<1>3. ASSUME NEW p \in Payment, NEW amount \in 1..Amount, RefundCheck(h, p, amount)
      PROVE  job'[h].at = "refunding"
  <2>1. job'[h] = [Blank("refunding") EXCEPT
                       !.pay = p, !.amount = amount, !.seen = pay[p].refunded]
      BY <1>0, <1>3 DEF RefundCheck
  <2>2. QED
      BY <2>1 DEF Blank
<1>4. QED
    BY <1>1, <1>2, <1>3 DEF Arrive

LEMMA ServeLeads ==
    ASSUME Inv, NEW h \in Handler, Serve(h), ~Record(h)
    PROVE  job'[h].at \in {"recording", "returned", "logged", "refunded", "done", "counted"}
<1>0. h \in Runner /\ job \in [Runner -> Job] /\ job[h] \in Job
    BY JobFacts DEF Runner
<1>1. CASE VerifyAsk(h)
    BY <1>0, <1>1 DEF VerifyAsk, Job
<1>2. CASE RefundCall(h) \/ RefundLog(h) \/ RefundPayment(h) \/ RefundOrder(h)
    BY <1>0, <1>2 DEF RefundCall, RefundLog, RefundPayment, RefundOrder, Advance, Blank, Job
<1>3. ASSUME NEW p \in Payment, CounterCreate(h, p) PROVE job'[h].at = "counted"
    BY <1>0, <1>3 DEF CounterCreate, Advance, Job
<1>4. CASE CounterOrder(h)
    BY <1>0, <1>4 DEF CounterOrder, Blank
<1>5. QED
    BY <1>1, <1>2, <1>3, <1>4 DEF Serve

\* A recording is about to write because it already was, or read the payment now.
LEMMA WritersRead ==
    ASSUME Inv, [Next]_vars, NEW r \in Runner, job'[r].at = "writing"
    PROVE  /\ job'[r].pay = job[r].pay
           /\ \/ job[r].at = "writing"
              \/ job[r].at = "recording" /\ ~Terminal(pay[job[r].pay].status)
<1>0. job \in [Runner -> Job] /\ job[r] \in Job
    BY JobFacts
<1>1. CASE job'[r] = job[r]
    BY <1>1
<1>2. ASSUME NEW q \in Runner, Posted(q) PROVE job'[r] = job[r]
  <2>1. q # r
      BY <1>0, <1>2 DEF Posted, Job
  <2>2. QED
      BY <1>0, <1>2, <2>1 DEF Posted
<1>3. CASE Own(r)
  <2>1. CASE Record(r)
      BY <1>0, <2>1, HandlerFresh DEF Record, RecordRead, RecordPayment, RecordOrder, Return,
         Advance, Blank, Job
  <2>2. CASE Fail(r)
      BY <1>0, <2>2 DEF Fail, Blank, Job
  <2>3. CASE HookClaim(r) \/ HookProcessed(r)
      BY <1>0, <2>3 DEF HookClaim, HookProcessed, Advance, Job
  <2>4. CASE r \in Handler /\ Arrive(r)
      BY <2>4, ArriveLeads
  <2>5. CASE r \in Handler /\ Serve(r)
      BY <2>1, <2>5, ServeLeads
  <2>6. QED
      BY <1>3, <2>1, <2>2, <2>3, <2>4, <2>5 DEF Own
<1>4. QED
    BY <1>1, <1>2, <1>3, WhoMoves, OwnSteps

\* However late, repeated or out of order outcomes arrive, a payment that is paid or
\* refunded stays so once nobody is left who read it before (recordOutcome).
THEOREM SettledAlwaysStays ==
    Spec => SettledStaysPaid
<1>1. ASSUME Inv, [Next]_vars, NEW p \in Payment, Settled(p)
      PROVE  Settled(p)' \/ pay'[p].status = "PARTIALLY_REFUNDED"
  <2>1. \/ pay'[p].status = pay[p].status \/ pay'[p].status \in Refunding
      BY <1>1, StatusMoves DEF Settled
  <2>2. \A r \in Runner : job'[r].at = "writing" => job'[r].pay # p
      BY <1>1, WritersRead DEF Settled, Terminal
  <2>3. QED
      BY <1>1, <2>1, <2>2 DEF Settled, Refunding
<1>2. Inv /\ [Next]_vars
      => [\A p \in Payment :
              Settled(p) => Settled(p)' \/ pay'[p].status = "PARTIALLY_REFUNDED"]_vars
    BY <1>1
<1>3. QED
    BY <1>2, AlwaysInv, PTL DEF Spec, SettledStaysPaid

-------------------------------------------------------------------------------
(* Captured money is recorded                                                  *)

\* Job r holds a verdict on p.
Holds(r, p, verdict) ==
    /\ job[r].pay = p /\ job[r].outcome = verdict
    /\ \/ job[r].at \in {"recording", "writing"}
       \/ job[r].at = "due" /\ r \notin claimed

\* A verdict that is held goes on being held until it is written, or is of no use.
LEMMA NewsIsKept ==
    ASSUME Inv, [Next]_vars, NEW r \in Runner, NEW p \in Payment,
           NEW verdict \in {"PAID", "FAILED"}, Holds(r, p, verdict),
           ~Terminal(pay[p].status), failures' = failures
    PROVE  Holds(r, p, verdict)' \/ pay'[p].status = verdict
<1>0. job \in [Runner -> Job] /\ job[r] \in Job /\ pay \in [Payment -> Row] /\ failures \in Nat
    BY JobFacts
<1>1. ASSUME job'[r] = job[r], r \in claimed' => r \in claimed PROVE Holds(r, p, verdict)'
    BY <1>1 DEF Holds
<1>2. ASSUME NEW q \in Runner, Posted(q) PROVE Holds(r, p, verdict)'
  <2>1. q # r
      BY <1>2 DEF Posted, Holds
  <2>2. QED
      BY <1>0, <1>1, <1>2, <2>1 DEF Posted
<1>3. CASE Own(r)
  <2>1. CASE RecordRead(r)
    <3>1. job' = [job EXCEPT ![r].at = "writing"]
        BY <2>1 DEF RecordRead, Holds, Advance
    <3>2. QED
        BY <1>0, <3>1 DEF Holds, Job
  <2>2. CASE RecordPayment(r)
    <3>1. pay'[p].status = verdict
        BY <1>0, <2>2 DEF RecordPayment, Holds, Row
    <3>2. QED
        BY <3>1
  <2>3. CASE r \in Event /\ HookClaim(r)
    <3>1. job' = [job EXCEPT ![r].at = "recording"]
        BY <2>3 DEF HookClaim, Holds, Advance
    <3>2. QED
        BY <1>0, <3>1 DEF Holds, Job
  <2>4. CASE Fail(r)
      BY <1>0, <2>4 DEF Fail
  <2>5. CASE RecordOrder(r) \/ HookProcessed(r)
      BY <2>5 DEF RecordOrder, HookProcessed, Holds
  <2>6. CASE r \in Handler /\ Arrive(r)
      BY <2>6 DEF Arrive, CounterCheck, VerifyRead, RefundCheck, Holds
  <2>7. CASE r \in Handler /\ Serve(r)
      BY <2>1, <2>2, <2>5, <2>7 DEF Serve, Record, VerifyAsk, RefundCall, RefundLog,
         RefundPayment, RefundOrder, CounterOrder, CounterCreate, Holds
  <2>8. QED
      BY <1>3, <2>1, <2>2, <2>3, <2>4, <2>5, <2>6, <2>7 DEF Own, Record
<1>4. CASE UNCHANGED <<job, claimed>>
    BY <1>1, <1>4
<1>5. CASE \E q \in Runner \ {r} : Own(q)
    BY <1>1, <1>5, OwnSteps
<1>6. QED
    BY <1>2, <1>3, <1>4, <1>5, WhoMoves

\* Whoever captures money holds a verdict on it: that it was paid, or bKash's
\* unclear answer.
LEMMA CaptureIsNews ==
    ASSUME Inv, [Next]_vars, NEW p \in Payment, charge[p].state # "paid", charge'[p].state = "paid"
    PROVE  \E r \in Runner :
               Holds(r, p, "PAID")' \/ (Holds(r, p, "FAILED")' /\ p \in declined')
<1>0. /\ job \in [Runner -> Job] /\ PaymentOK(p) /\ charge[p] \in Charge
      /\ charge \in [Payment -> Charge]
    BY DEF Inv, TypeOK, ChargeType, Charge
<1>1. CASE DinerPays(p)
  <2>1. /\ pay[p].via = "STRIPE" /\ Emit(p, "PAID")
        /\ UNCHANGED claimed
      BY <1>0, <1>1 DEF DinerPays, Charge
  <2>2. <<p, "PAID">> \in Event /\ <<p, "PAID">> \in Runner
      BY DEF Event, Runner, Verdict
  <2>3. EventOK(<<p, "PAID">>)
      BY <2>2 DEF Inv, JobOK
  <2>4. OnlyJob(<<p, "PAID">>, [job[<<p, "PAID">>] EXCEPT !.at = "due"])
      BY <1>0, <2>1, Emitted DEF Verdict
  <2>5. /\ job'[<<p, "PAID">>].at = "due" /\ job'[<<p, "PAID">>].pay = p
        /\ job'[<<p, "PAID">>].outcome = "PAID"
      BY <1>0, <2>2, <2>3, <2>4, MovedJob DEF OnlyJob, EventOK, Places, HookPlaces
  <2>6. <<p, "PAID">> \notin claimed
      BY <2>3 DEF EventOK
  <2>7. QED
      BY <2>1, <2>2, <2>5, <2>6 DEF Holds
<1>2. ASSUME NEW h \in Handler, VerifyAsk(h)
      PROVE  Holds(h, p, "PAID")' \/ (Holds(h, p, "FAILED")' /\ p \in declined')
  <2>1. PICK answer \in Answers(job[h].pay, job[h].ref) :
            /\ job' = [job EXCEPT ![h].at = "recording", ![h].outcome = answer[1]]
            /\ charge' = [charge EXCEPT ![job[h].pay].state = answer[2]]
            /\ answer[1] = "FAILED" => job[h].pay \in declined'
      BY <1>2 DEF VerifyAsk
  <2>2. h \in Runner /\ job[h] \in Job /\ job[h].pay = p /\ answer[2] = "paid"
      BY <1>0, <2>1, JobFacts DEF Runner, Charge
  <2>3. answer[1] \in {"PAID", "FAILED"}
      BY <1>0, <2>1, <2>2, AnswerIsTrue
  <2>4. job'[h].at = "recording" /\ job'[h].pay = p /\ job'[h].outcome = answer[1]
      BY <1>0, <2>1, <2>2 DEF Job
  <2>5. QED
      BY <2>1, <2>2, <2>3, <2>4 DEF Holds
<1>3. DinerPays(p) \/ \E h \in Handler : VerifyAsk(h)
  <2>1. ASSUME NEW q \in Payment, DinerPays(q), q # p PROVE FALSE
      BY <1>0, <2>1 DEF DinerPays
  <2>2. ASSUME NEW q \in Payment, CheckoutCloses(q) \/ Start(q) \/ StartLost(q) PROVE FALSE
      BY <1>0, <2>2 DEF CheckoutCloses, Start, StartCreate, StartOpen, StartRefused, StartLost,
         MaybeOpen, Charge
  <2>3. ASSUME NEW h \in Handler, RefundCall(h) PROVE FALSE
      BY <1>0, <2>3 DEF RefundCall, Charge
  <2>4. ASSUME UNCHANGED charge PROVE FALSE
      BY <2>4
  <2>5. QED
      BY <2>1, <2>2, <2>3, <2>4 DEF Next, vars, Diner, StartCheck, CardDeclined, Hook, HookClaim,
         HookProcessed, Record, RecordRead, RecordPayment, RecordOrder, Arrive, CounterCheck,
         VerifyRead, RefundCheck, Serve, RefundLog, RefundPayment, RefundOrder, CounterOrder,
         CounterCreate, Fail
<1>4. QED
    BY <1>1, <1>2, <1>3 DEF Runner

LEMMA CapturedInit ==
    Init => CapturedIsRecorded
BY DEF Init, CapturedIsRecorded

LEMMA CapturedStep ==
    Inv /\ CapturedIsRecorded /\ [Next]_vars => CapturedIsRecorded'
<1> DEFINE Told(p) == \/ pay[p].status \in PaidLike
                      \/ \E r \in Runner : Holds(r, p, "PAID")
                      \/ /\ p \in declined
                         /\ \/ pay[p].status = "FAILED"
                            \/ \E r \in Runner : Holds(r, p, "FAILED")
<1> SUFFICES ASSUME Inv, CapturedIsRecorded, [Next]_vars,
                    NEW p \in Payment, charge'[p].state = "paid", failures' = 0
             PROVE  Told(p)'
  <2>1. MaxFailures \in Nat /\ (Inv /\ [Next]_vars => failures' \in Nat)
      BY AnyStep, MaxFailuresType DEF Inv, TypeOK
  <2>2. QED
      BY <2>1 DEF CapturedIsRecorded, OnItsWay, Holds
<1>1. failures' = failures /\ (p \in declined => p \in declined')
  <2>1. Later /\ failures \in Nat
      BY AnyStep, JobFacts, MaxFailuresType DEF Inv, TypeOK
  <2>2. QED
      BY <2>1 DEF Later
<1>2. CASE charge[p].state # "paid"
    BY <1>2, CaptureIsNews
<1>3. ASSUME NEW r \in Runner, job[r].at = "writing", job[r].pay = p, charge[p].state = "paid"
      PROVE  job[r].outcome = "PAID" \/ (job[r].outcome = "FAILED" /\ p \in declined)
    BY <1>3 DEF Inv, TypeOK, JobOK, NewsOK, Job, Verdict
<1>4. CASE charge[p].state = "paid" /\ pay[p].status \in PaidLike \cup {"FAILED"}
           /\ (pay[p].status = "FAILED" => p \in declined)
  <2>1. \/ pay'[p].status = pay[p].status \/ pay'[p].status \in PaidLike
        \/ pay'[p].status = "FAILED" /\ p \in declined
      BY <1>3, <1>4, StatusMoves DEF PaidLike, Refunding
  <2>2. QED
      BY <1>1, <1>4, <2>1
<1>5. CASE charge[p].state = "paid" /\ pay[p].status \notin PaidLike
  <2>1. /\ failures = 0 /\ ~Terminal(pay[p].status)
        /\ \/ \E r \in Runner : Holds(r, p, "PAID")
           \/ p \in declined /\ pay[p].status = "FAILED"
           \/ p \in declined /\ \E r \in Runner : Holds(r, p, "FAILED")
      BY <1>1, <1>5 DEF CapturedIsRecorded, OnItsWay, Holds, Terminal, PaidLike, Refunding
  <2>2. ASSUME NEW r \in Runner, Holds(r, p, "PAID") PROVE Told(p)'
    <3>1. Holds(r, p, "PAID")' \/ pay'[p].status = "PAID"
        BY <1>1, <2>1, <2>2, NewsIsKept
    <3>2. QED
        BY <3>1 DEF PaidLike
  <2>3. ASSUME NEW r \in Runner, Holds(r, p, "FAILED"), p \in declined PROVE Told(p)'
    <3>1. Holds(r, p, "FAILED")' \/ pay'[p].status = "FAILED"
        BY <1>1, <2>1, <2>3, NewsIsKept
    <3>2. QED
        BY <1>1, <2>3, <3>1
  <2>4. QED
      BY <1>4, <1>5, <2>1, <2>2, <2>3
<1>6. QED
    BY <1>2, <1>4, <1>5 DEF PaidLike, Refunding

\* Money a provider captured is recorded or the news of it is on its way, for any
\* number of reloads, events and refunds in any order (verifyAndRecord, recordOutcome,
\* the webhook route).
THEOREM CapturedAlwaysRecorded ==
    Spec => []CapturedIsRecorded
BY AlwaysInv, InvInit, CapturedInit, CapturedStep, PTL DEF Spec
-------------------------------------------------------------------------------
(* The order follows its payments                                              *)

\* r is between the two writes of a recording of p, or died there.
Halfway(r, p) ==
    job[r].pay = p /\ {job[r].at, job[r].died} \cap {"settling", "refunded", "counted"} # {}

Unwritten(p) == pay[p].status \in {"NONE", "PENDING", "CANCELLED"} \/ start[p] = "refused"

\* Whoever is between the two writes writes the order, or dies there.
LEMMA HalfwayStays ==
    ASSUME Inv, [Next]_vars, orderStatus' = "PENDING", NEW p \in Payment, NEW r \in Runner,
           Halfway(r, p)
    PROVE  Halfway(r, p)'
<1>0. /\ job \in [Runner -> Job] /\ job[r] \in Job /\ JobOK(r)
      /\ (r \notin Handler <=> r \in Event)
    BY JobFacts
<1>1. CASE job'[r] = job[r]
    BY <1>1 DEF Halfway
<1>2. ASSUME NEW q \in Runner, Posted(q) PROVE job'[r] = job[r]
  <2>1. q # r
      BY <1>0, <1>2 DEF Posted, Halfway, JobOK
  <2>2. QED
      BY <1>0, <1>2, <2>1 DEF Posted
<1>3. ASSUME job[r].at \in {"settling", "refunded", "counted"}, Own(r) PROVE Halfway(r, p)'
  <2>1. ~RecordOrder(r) /\ (r \in Handler => ~RefundOrder(r) /\ ~CounterOrder(r))
    <3>1. orderStatus' # "PENDING" \/ ~RecordOrder(r)
        BY <1>0 DEF RecordOrder, JobOK, NewsOK, Job, Verdict
    <3>2. orderStatus' # "PENDING" \/ (~RefundOrder(r) /\ ~CounterOrder(r))
        BY DEF RefundOrder, CounterOrder, RefundStatus
    <3>3. QED
        BY <3>1, <3>2
  <2>2. Fail(r)
      BY <1>3, <2>1 DEF Own, Record, RecordRead, RecordPayment, HookClaim, HookProcessed, Arrive,
         CounterCheck, VerifyRead, RefundCheck, Serve, VerifyAsk, RefundCall, RefundLog,
         RefundPayment, CounterCreate
  <2>3. job'[r].pay = job[r].pay /\ job'[r].died = job[r].at
      BY <1>0, <2>2 DEF Fail, Job
  <2>4. QED
      BY <1>3, <2>3 DEF Halfway
<1>4. ASSUME job[r].died \in {"settling", "refunded", "counted"}, Own(r) PROVE Halfway(r, p)'
  <2>1. job[r].at \in {"done", "due", "acked"}
      BY <1>0, <1>4 DEF JobOK
  <2>2. r \in Event /\ HookClaim(r)
      BY <1>4, <2>1 DEF Own, Record, RecordRead, RecordPayment, RecordOrder, Fail, HookProcessed,
         Arrive, CounterCheck, VerifyRead, RefundCheck, Serve, VerifyAsk, RefundCall, RefundLog,
         RefundPayment, RefundOrder, CounterCreate, CounterOrder
  <2>3. job'[r].pay = job[r].pay /\ job'[r].died = job[r].died
      BY <1>0, <2>2 DEF HookClaim, Advance, Job
  <2>4. QED
      BY <1>4, <2>3 DEF Halfway
<1>5. job[r].at \in {"settling", "refunded", "counted"} \/ job[r].died \in {"settling", "refunded", "counted"}
    BY DEF Halfway
<1>6. QED
    BY <1>1, <1>2, <1>3, <1>4, <1>5, WhoMoves, OwnSteps

\* Whoever writes the payment first goes on to the order.
LEMMA WrittenIsHalfway ==
    ASSUME Inv, [Next]_vars, NEW p \in Payment, Unwritten(p), ~Unwritten(p)'
    PROVE  \E r \in Runner : Halfway(r, p)'
<1>0. /\ job \in [Runner -> Job] /\ pay \in [Payment -> Row] /\ pay[p] \in Row
      /\ start \in [Payment -> {"none", "checked", "created", "ready", "refused", "lost"}]
    BY DEF Inv, TypeOK
<1>1. ASSUME NEW r \in Runner, Record(r) PROVE Halfway(r, p)'
  <2>1. RecordPayment(r)
      BY <1>1 DEF Record, RecordRead, RecordOrder, Unwritten
  <2>2. job[r].pay = p /\ pay'[p].status = job[r].outcome /\ start' = start
      BY <1>0, <2>1 DEF RecordPayment, Unwritten, Row
  <2>3. job[r].outcome # "CANCELLED"
      BY <2>2 DEF Unwritten
  <2>4. job' = [job EXCEPT ![r].at = "settling"]
      BY <2>1, <2>3 DEF RecordPayment, Settles, Advance
  <2>5. job'[r].at = "settling" /\ job'[r].pay = p
      BY <1>0, <2>2, <2>4 DEF Job
  <2>6. QED
      BY <2>5 DEF Halfway
<1>2. ASSUME NEW q \in Payment, Diner(q) \/ Start(q) \/ StartLost(q) PROVE FALSE
  <2>1. CASE StartCreate(q)
      BY <1>0, <2>1 DEF StartCreate, Unwritten, Row
  <2>2. CASE StartOpen(q)
      BY <1>0, <2>2 DEF StartOpen, Unwritten, Row
  <2>3. CASE StartRefused(q)
      BY <1>0, <2>3 DEF StartRefused, Unwritten, Row
  <2>4. CASE Diner(q) \/ StartLost(q)
      BY <1>0, <2>4 DEF Diner, StartLost, StartCheck, DinerPays, CardDeclined, CheckoutCloses,
         Unwritten
  <2>5. QED
      BY <1>2, <2>1, <2>2, <2>3, <2>4 DEF Start
<1>3. ASSUME NEW h \in Handler, Serve(h), ~Record(h) PROVE h \in Runner /\ Halfway(h, p)'
  <2>0. h \in Runner /\ job[h] \in Job
      BY <1>0 DEF Runner
  <2>1. CASE RefundPayment(h)
    <3>1. job[h].pay = p
        BY <1>0, <2>1 DEF RefundPayment, Unwritten, Row
    <3>2. job'[h].at = "refunded" /\ job'[h].pay = p
        BY <1>0, <2>0, <2>1, <3>1 DEF RefundPayment, Advance, Job
    <3>3. QED
        BY <2>0, <3>2 DEF Halfway
  <2>2. ASSUME NEW q \in Payment, CounterCreate(h, q) PROVE Halfway(h, p)'
    <3>1. q = p
        BY <1>0, <2>2 DEF CounterCreate, Unwritten, Row
    <3>2. job'[h].at = "counted" /\ job'[h].pay = p
        BY <1>0, <2>0, <2>2, <3>1 DEF CounterCreate, Job
    <3>3. QED
        BY <3>2 DEF Halfway
  <2>3. CASE RefundLog(h)
      BY <1>0, <2>3 DEF RefundLog, Unwritten, Row
  <2>4. CASE VerifyAsk(h) \/ RefundCall(h) \/ RefundOrder(h) \/ CounterOrder(h)
      BY <2>4 DEF VerifyAsk, RefundCall, RefundOrder, CounterOrder, Unwritten
  <2>5. QED
      BY <1>3, <2>0, <2>1, <2>2, <2>3, <2>4 DEF Serve
<1>4. ASSUME UNCHANGED <<pay, start>> PROVE FALSE
    BY <1>4 DEF Unwritten
<1>5. QED
    BY <1>1, <1>2, <1>3, <1>4 DEF Next, vars, Hook, HookClaim, HookProcessed, Arrive, CounterCheck,
       VerifyRead, RefundCheck, Fail, Runner

\* Nothing makes an order PENDING again.
LEMMA NeverPendingAgain ==
    ASSUME Inv, [Next]_vars, orderStatus' = "PENDING"
    PROVE  orderStatus = "PENDING"
<1>1. ASSUME NEW r \in Runner, RecordOrder(r) PROVE FALSE
  <2>1. JobOK(r) /\ job[r] \in Job
      BY JobFacts
  <2>2. QED
      BY <1>1, <2>1 DEF RecordOrder, JobOK, NewsOK, Job, Verdict
<1>2. ASSUME NEW h \in Handler PROVE ~RefundOrder(h) /\ ~CounterOrder(h)
    BY DEF RefundOrder, CounterOrder, RefundStatus
<1>3. QED
    BY <1>1, <1>2 DEF Next, vars, Diner, Start, StartCheck, StartCreate, StartOpen,
       StartRefused, StartLost, DinerPays, CardDeclined, CheckoutCloses, Hook, HookClaim,
       HookProcessed, Record, RecordRead, RecordPayment, Arrive, CounterCheck, VerifyRead,
       RefundCheck, Serve, VerifyAsk, RefundCall, RefundLog, RefundPayment, CounterCreate,
       Fail, Runner

Follows == orderStatus = "PENDING" =>
               \A p \in Payment : Unwritten(p) \/ \E r \in Runner : Halfway(r, p)

\* In whatever order recordings, refunds and counter payments make their two writes,
\* and wherever they die, the order is left behind only by one that is between them,
\* and says FAILED or refunded only because something did (recordOutcome,
\* refundPayment, recordCounterPayment).
THEOREM OrderAlwaysFollows ==
    Spec => []OrderFollowsPayments
<1>1. Init => Follows
    BY DEF Init, Follows, Unwritten
<1>2. Inv /\ Follows /\ [Next]_vars => Follows'
  <2> SUFFICES ASSUME Inv, Follows, [Next]_vars, orderStatus' = "PENDING", NEW p \in Payment
               PROVE  Unwritten(p)' \/ \E r \in Runner : Halfway(r, p)'
      BY DEF Follows
  <2>1. CASE Unwritten(p)
      BY <2>1, WrittenIsHalfway
  <2>2. CASE ~Unwritten(p)
    <3>1. PICK r \in Runner : Halfway(r, p)
        BY <2>2, NeverPendingAgain DEF Follows
    <3>2. QED
        BY <3>1, HalfwayStays
  <2>3. QED
      BY <2>1, <2>2
<1>3. Inv /\ Follows => OrderFollowsPayments
    BY DEF Inv, OrderOK, Follows, Unwritten, Halfway, OrderFollowsPayments, HalfWritten
<1>4. QED
    BY <1>1, <1>2, <1>3, AlwaysInv, PTL DEF Spec

-------------------------------------------------------------------------------
(* The books                                                                   *)

\* The refunds under way are finitely many cents, and account for what the rows
\* do not say yet.
Books(p) ==
    /\ \A step \in {"returned", "logged"} : IsFiniteSet(Cents(p, step))
    /\ charge[p].returned = pay[p].logged + Stuck(p, "returned")
    /\ p \notin overwritten => pay[p].logged = pay[p].refunded + Stuck(p, "logged")

AllBooks == \A p \in Payment : Books(p)

\* A refund of n, cent by cent.
Share(h, n) == {h} \X (1..n)

LEMMA CentsCounted ==
    ASSUME NEW h, NEW n \in Nat
    PROVE  IsFiniteSet(Share(h, n)) /\ Cardinality(Share(h, n)) = n
<1> DEFINE f == [i \in 1..n |-> <<h, i>>]
<1>1. f \in Bijection(1..n, Share(h, n))
  <2>1. f \in [1..n -> Share(h, n)]
      BY DEF Share
  <2>2. \A i, k \in 1..n : f[i] = f[k] => i = k
      BY DEF Share
  <2>3. \A x \in Share(h, n) : \E i \in 1..n : f[i] = x
      BY DEF Share
  <2>4. QED
      BY <2>1, <2>2, <2>3 DEF Bijection, Injection, Surjection, IsInjective
<1>2. ExistsBijection(1..n, Share(h, n))
    BY <1>1 DEF ExistsBijection
<1>3. IsFiniteSet(1..n) /\ Cardinality(1..n) = n
    BY FS_Interval
<1>4. QED
    BY <1>2, <1>3, FS_Bijection

\* One handler's cents, beside those of others.
LEMMA CentsAdded ==
    ASSUME NEW S, IsFiniteSet(S), NEW h, NEW n \in Nat, \A x \in S : x[1] # h,
           NEW T, T = S \cup Share(h, n)
    PROVE  /\ IsFiniteSet(T) /\ Cardinality(S) \in Nat
           /\ Cardinality(T) = Cardinality(S) + n
<1>1. ASSUME NEW C, IsFiniteSet(C), Cardinality(C) = n, S \cap C = {}
      PROVE  /\ IsFiniteSet(S \cup C) /\ Cardinality(S) \in Nat
             /\ Cardinality(S \cup C) = Cardinality(S) + n
  <2>1. Cardinality({}) = 0 /\ Cardinality(S) \in Nat
      BY FS_EmptySet, FS_CardinalityType
  <2>2. /\ IsFiniteSet(S \cup C)
        /\ Cardinality(S \cup C) = Cardinality(S) + Cardinality(C) - Cardinality(S \cap C)
      BY <1>1, FS_Union
  <2>3. Cardinality(S \cap C) = 0
      BY <1>1, <2>1, Zenon
  <2>4. QED
      BY <1>1, <2>1, <2>2, <2>3
<1>2. IsFiniteSet(Share(h, n)) /\ Cardinality(Share(h, n)) = n
    BY CentsCounted
<1>3. S \cap Share(h, n) = {}
    BY DEF Share
<1>4. QED
    BY <1>1, <1>2, <1>3

\* The same refunds are stopped at a step of a refund of p.
AsStopped(p, step) ==
    \A q \in Handler : /\ Stopped(q, p, step)' <=> Stopped(q, p, step)
                       /\ Stopped(q, p, step) => job'[q].amount = job[q].amount

LEMMA StuckSame ==
    ASSUME NEW p, NEW step, AsStopped(p, step)
    PROVE  Cents(p, step)' = Cents(p, step) /\ Stuck(p, step)' = Stuck(p, step)
<1>1. \A h \in Handler : \A i \in 1..Amount :
          Stopped(h, p, step)' /\ i <= job'[h].amount <=> Stopped(h, p, step) /\ i <= job[h].amount
  <2> TAKE h \in Handler
  <2>1. \A q \in Handler :
            /\ (job'[q].pay = p /\ (job'[q].at = step \/ job'[q].died = step))
                  <=> (job[q].pay = p /\ (job[q].at = step \/ job[q].died = step))
            /\ (job[q].pay = p /\ (job[q].at = step \/ job[q].died = step))
                  => job'[q].amount = job[q].amount
      BY DEF AsStopped, Stopped
  <2>2. (job[h].pay = p /\ (job[h].at = step \/ job[h].died = step))
            => job'[h].amount = job[h].amount
      BY <2>1
  <2>3. QED
      BY <2>1, <2>2 DEF Stopped
<1>2. Cents(p, step)' = Cents(p, step)
  <2>1. \A x \in Handler \X (1..Amount) : x \in Cents(p, step)' <=> x \in Cents(p, step)
      BY <1>1 DEF Cents
  <2>2. Cents(p, step)' \subseteq Handler \X (1..Amount)
      BY DEF Cents
  <2>3. Cents(p, step) \subseteq Handler \X (1..Amount)
      BY DEF Cents
  <2>4. QED
      BY <2>1, <2>2, <2>3, Zenon
<1>3. QED
    BY <1>2 DEF Stuck

\* Everybody's but h's.
OthersStopped(h, p, step) ==
    \A q \in Handler \ {h} : /\ Stopped(q, p, step)' <=> Stopped(q, p, step)
                            /\ job'[q].amount = job[q].amount

\* One more refund stops there.
LEMMA StuckMore ==
    ASSUME NEW p, NEW step, NEW h \in Handler, NEW n \in Nat, n <= Amount, Amount \in Nat,
           OthersStopped(h, p, step), ~Stopped(h, p, step), Stopped(h, p, step)',
           job'[h].amount = n, IsFiniteSet(Cents(p, step))
    PROVE  /\ IsFiniteSet(Cents(p, step)') /\ Stuck(p, step) \in Nat
           /\ Stuck(p, step)' = Stuck(p, step) + n
<1>1. Cents(p, step)' = Cents(p, step) \cup Share(h, n)
  <2>1. \A x \in Handler \X (1..Amount) :
            x \in Cents(p, step)' <=> x \in Cents(p, step) \/ x \in Share(h, n)
    <3> SUFFICES ASSUME NEW q \in Handler, NEW i \in 1..Amount
                 PROVE  <<q, i>> \in Cents(p, step)' <=>
                            <<q, i>> \in Cents(p, step) \/ <<q, i>> \in Share(h, n)
        OBVIOUS
    <3>1. <<q, i>> \in Cents(p, step)' <=> Stopped(q, p, step)' /\ i <= job'[q].amount
        BY DEF Cents
    <3>2. <<q, i>> \in Cents(p, step) <=> Stopped(q, p, step) /\ i <= job[q].amount
        BY DEF Cents
    <3>3. <<q, i>> \in Share(h, n) <=> q = h /\ i <= n
        BY DEF Share
    <3>4. CASE q = h
        BY <3>1, <3>2, <3>3, <3>4
    <3>5. CASE q # h
        BY <3>1, <3>2, <3>3, <3>5 DEF OthersStopped
    <3>6. QED
        BY <3>4, <3>5
  <2>2. Share(h, n) \subseteq Handler \X (1..Amount)
      BY DEF Share
  <2>3. Cents(p, step)' \subseteq Handler \X (1..Amount)
      BY DEF Cents
  <2>4. Cents(p, step) \subseteq Handler \X (1..Amount)
      BY DEF Cents
  <2>5. QED
      BY <2>1, <2>2, <2>3, <2>4, Zenon
<1>2. \A x \in Cents(p, step) : x[1] # h
    BY DEF Cents
<1>3. /\ IsFiniteSet(Cents(p, step)') /\ Cardinality(Cents(p, step)) \in Nat
      /\ Cardinality(Cents(p, step)') = Cardinality(Cents(p, step)) + n
    BY <1>1, <1>2, CentsAdded
<1>4. QED
    BY <1>3 DEF Stuck

\* One refund goes on from there.
LEMMA StuckLess ==
    ASSUME NEW p, NEW step, NEW h \in Handler, NEW n \in Nat, n <= Amount, Amount \in Nat,
           OthersStopped(h, p, step), Stopped(h, p, step), ~Stopped(h, p, step)',
           job[h].amount = n, IsFiniteSet(Cents(p, step))
    PROVE  /\ IsFiniteSet(Cents(p, step)') /\ Stuck(p, step)' \in Nat
           /\ Stuck(p, step) = Stuck(p, step)' + n
<1>1. Cents(p, step) = Cents(p, step)' \cup Share(h, n)
  <2>1. \A x \in Handler \X (1..Amount) :
            x \in Cents(p, step) <=> x \in Cents(p, step)' \/ x \in Share(h, n)
    <3> SUFFICES ASSUME NEW q \in Handler, NEW i \in 1..Amount
                 PROVE  <<q, i>> \in Cents(p, step) <=>
                            <<q, i>> \in Cents(p, step)' \/ <<q, i>> \in Share(h, n)
        OBVIOUS
    <3>1. <<q, i>> \in Cents(p, step)' <=> Stopped(q, p, step)' /\ i <= job'[q].amount
        BY DEF Cents
    <3>2. <<q, i>> \in Cents(p, step) <=> Stopped(q, p, step) /\ i <= job[q].amount
        BY DEF Cents
    <3>3. <<q, i>> \in Share(h, n) <=> q = h /\ i <= n
        BY DEF Share
    <3>4. CASE q = h
        BY <3>1, <3>2, <3>3, <3>4
    <3>5. CASE q # h
        BY <3>1, <3>2, <3>3, <3>5 DEF OthersStopped
    <3>6. QED
        BY <3>4, <3>5
  <2>2. Share(h, n) \subseteq Handler \X (1..Amount)
      BY DEF Share
  <2>3. Cents(p, step)' \subseteq Handler \X (1..Amount)
      BY DEF Cents
  <2>4. Cents(p, step) \subseteq Handler \X (1..Amount)
      BY DEF Cents
  <2>5. QED
      BY <2>1, <2>2, <2>3, <2>4, Zenon
<1>2. \A x \in Cents(p, step)' : x[1] # h
    BY DEF Cents
<1>3. IsFiniteSet(Cents(p, step)')
    BY <1>1, FS_Subset
<1>4. /\ Cardinality(Cents(p, step)') \in Nat
      /\ Cardinality(Cents(p, step)) = Cardinality(Cents(p, step)') + n
    BY <1>1, <1>2, <1>3, CentsAdded
<1>5. QED
    BY <1>3, <1>4 DEF Stuck

\* Nobody's refund is made or written, and none forgotten.
BooksAlone(p) ==
    /\ AsStopped(p, "returned") /\ AsStopped(p, "logged")
    /\ pay'[p].logged = pay[p].logged /\ pay'[p].refunded = pay[p].refunded
    /\ charge'[p].returned = charge[p].returned /\ overwritten' = overwritten

LEMMA BooksQuiet ==
    ASSUME NEW p, BooksAlone(p), Books(p)
    PROVE  Books(p)'
<1>1. \A step \in {"returned", "logged"} :
          Cents(p, step)' = Cents(p, step) /\ Stuck(p, step)' = Stuck(p, step)
    BY StuckSame DEF BooksAlone
<1>2. QED
    BY <1>1 DEF Books, BooksAlone

\* What a step of a refund starts from.
LEMMA RefundFacts ==
    ASSUME Inv, NEW h \in Handler, NEW p \in Payment, Books(p),
           job[h].at \in {"refunding", "returned", "logged"}
    PROVE  /\ h \in Runner /\ job \in [Runner -> Job] /\ job[h] \in Job /\ job[h].pay \in Payment
           /\ job[h].died = "no" /\ job[h].amount \in Nat /\ job[h].seen \in Nat
           /\ job[h].amount <= Amount /\ Amount \in Nat
           /\ charge \in [Payment -> Charge] /\ charge[p].returned \in Nat
           /\ pay \in [Payment -> Row] /\ pay[p].logged \in Nat /\ pay[p].refunded \in Nat
           /\ \A step \in {"returned", "logged"} :
                  IsFiniteSet(Cents(p, step)) /\ Stuck(p, step) \in Nat
<1>1. h \in Runner
    BY DEF Runner
<1>2. /\ job \in [Runner -> Job] /\ job[h] \in Job /\ JobOK(h) /\ Amount \in Nat
      /\ pay \in [Payment -> Row] /\ ChargeType /\ charge[p].returned \in Nat
    BY <1>1, JobFacts
<1>3. /\ job[h].pay \in Payment /\ job[h].amount \in Nat /\ job[h].seen \in Nat
      /\ job[h].amount <= Amount /\ job[h].died = "no"
    BY <1>2 DEF JobOK, Busy, Job
<1>4. pay[p].logged \in Nat /\ pay[p].refunded \in Nat
    BY <1>2 DEF Row
<1>5. \A step \in {"returned", "logged"} :
          IsFiniteSet(Cents(p, step)) /\ Stuck(p, step) \in Nat
    BY FS_CardinalityType DEF Books, Stuck
<1>6. QED
    BY <1>1, <1>2, <1>3, <1>4, <1>5 DEF ChargeType, Charge

LEMMA BooksAfterCall ==
    ASSUME Inv, NEW h \in Handler, RefundCall(h), NEW p \in Payment, Books(p)
    PROVE  Books(p)'
<1> DEFINE amount == job[h].amount
<1>0. job[h].at = "refunding" /\ pay' = pay /\ overwritten' = overwritten
    BY DEF RefundCall
<1>1. /\ h \in Runner /\ job \in [Runner -> Job] /\ job[h] \in Job /\ job[h].pay \in Payment
      /\ job[h].died = "no" /\ amount \in Nat /\ amount <= Amount /\ Amount \in Nat
      /\ charge \in [Payment -> Charge] /\ charge[p].returned \in Nat
      /\ pay[p].logged \in Nat
      /\ \A step \in {"returned", "logged"} :
             IsFiniteSet(Cents(p, step)) /\ Stuck(p, step) \in Nat
    BY <1>0, RefundFacts
<1>2. CASE charge' = charge /\ job' = [job EXCEPT ![h] = Blank("done")]
  <2>1. job'[h].at = "done" /\ job'[h].died = "no" /\ \A q \in Handler \ {h} : job'[q] = job[q]
      BY <1>1, <1>2 DEF Blank, Runner
  <2>2. BooksAlone(p)
      BY <1>0, <1>1, <1>2, <2>1 DEF BooksAlone, AsStopped, Stopped
  <2>3. QED
      BY <2>2, BooksQuiet
<1>3. CASE /\ charge' = [charge EXCEPT ![job[h].pay].returned = charge[job[h].pay].returned + amount]
           /\ Advance(h, "returned")
  <2>1. /\ job'[h].at = "returned" /\ job'[h].pay = job[h].pay /\ job'[h].amount = amount
        /\ job'[h].died = "no" /\ \A q \in Handler \ {h} : job'[q] = job[q]
      BY <1>1, <1>3 DEF Advance, Job, Runner
  <2>2. AsStopped(p, "logged")
      BY <1>0, <1>1, <2>1 DEF AsStopped, Stopped
  <2>3. Cents(p, "logged")' = Cents(p, "logged") /\ Stuck(p, "logged")' = Stuck(p, "logged")
      BY <2>2, StuckSame
  <2>4. CASE job[h].pay # p
    <3>1. AsStopped(p, "returned")
        BY <1>0, <1>1, <2>1, <2>4 DEF AsStopped, Stopped
    <3>2. charge'[p] = charge[p]
        BY <1>1, <1>3, <2>4
    <3>3. QED
        BY <1>0, <2>2, <3>1, <3>2, BooksQuiet DEF BooksAlone
  <2>5. CASE job[h].pay = p
    <3>1. OthersStopped(h, p, "returned") /\ ~Stopped(h, p, "returned") /\ Stopped(h, p, "returned")'
        BY <1>0, <1>1, <2>1, <2>5 DEF OthersStopped, Stopped
    <3>2. /\ IsFiniteSet(Cents(p, "returned")')
          /\ Stuck(p, "returned")' = Stuck(p, "returned") + amount
        BY <1>1, <2>1, <3>1, StuckMore
    <3>3. charge'[p].returned = charge[p].returned + amount
        BY <1>1, <1>3, <2>5 DEF Charge
    <3>4. QED
        BY <1>0, <1>1, <2>3, <3>2, <3>3 DEF Books
  <2>6. QED
      BY <2>4, <2>5
<1>4. QED
    BY <1>2, <1>3 DEF RefundCall

LEMMA BooksAfterLog ==
    ASSUME Inv, NEW h \in Handler, RefundLog(h), NEW p \in Payment, Books(p)
    PROVE  Books(p)'
<1> DEFINE amount == job[h].amount
<1>0. /\ job[h].at = "returned" /\ charge' = charge /\ overwritten' = overwritten
      /\ pay' = [pay EXCEPT ![job[h].pay].logged = pay[job[h].pay].logged + amount]
      /\ Advance(h, "logged")
    BY DEF RefundLog, Logged
<1>1. /\ h \in Runner /\ job \in [Runner -> Job] /\ job[h] \in Job /\ job[h].pay \in Payment
      /\ job[h].died = "no" /\ amount \in Nat /\ amount <= Amount /\ Amount \in Nat
      /\ pay \in [Payment -> Row] /\ pay[p].logged \in Nat /\ pay[p].refunded \in Nat
      /\ charge[p].returned \in Nat
      /\ \A step \in {"returned", "logged"} :
             IsFiniteSet(Cents(p, step)) /\ Stuck(p, step) \in Nat
    BY <1>0, RefundFacts
<1>2. /\ job'[h].at = "logged" /\ job'[h].pay = job[h].pay /\ job'[h].amount = amount
      /\ job'[h].died = "no" /\ \A q \in Handler \ {h} : job'[q] = job[q]
    BY <1>0, <1>1 DEF Advance, Job, Runner
<1>3. CASE job[h].pay # p
  <2>1. AsStopped(p, "returned") /\ AsStopped(p, "logged")
      BY <1>0, <1>1, <1>2, <1>3 DEF AsStopped, Stopped
  <2>2. pay'[p] = pay[p]
      BY <1>0, <1>1, <1>3
  <2>3. QED
      BY <1>0, <2>1, <2>2, BooksQuiet DEF BooksAlone
<1>4. CASE job[h].pay = p
  <2>1. /\ OthersStopped(h, p, "returned") /\ Stopped(h, p, "returned") /\ ~Stopped(h, p, "returned")'
        /\ OthersStopped(h, p, "logged") /\ ~Stopped(h, p, "logged") /\ Stopped(h, p, "logged")'
      BY <1>0, <1>1, <1>2, <1>4 DEF OthersStopped, Stopped
  <2>2. /\ IsFiniteSet(Cents(p, "returned")') /\ Stuck(p, "returned")' \in Nat
        /\ Stuck(p, "returned") = Stuck(p, "returned")' + amount
      BY <1>1, <2>1, StuckLess
  <2>3. /\ IsFiniteSet(Cents(p, "logged")')
        /\ Stuck(p, "logged")' = Stuck(p, "logged") + amount
      BY <1>1, <1>2, <2>1, StuckMore
  <2>4. pay'[p].logged = pay[p].logged + amount /\ pay'[p].refunded = pay[p].refunded
      BY <1>0, <1>1, <1>4 DEF Row
  <2>5. QED
      BY <1>0, <1>1, <2>2, <2>3, <2>4 DEF Books
<1>5. QED
    BY <1>3, <1>4

LEMMA BooksAfterPayment ==
    ASSUME Inv, NEW h \in Handler, RefundPayment(h), NEW p \in Payment, Books(p)
    PROVE  Books(p)'
<1> DEFINE amount == job[h].amount
<1>0. /\ job[h].at = "logged" /\ charge' = charge /\ Advance(h, "refunded")
      /\ pay' = [pay EXCEPT ![job[h].pay].refunded = job[h].seen + amount,
                            ![job[h].pay].status = RefundStatus(job[h].seen + amount)]
      /\ overwritten' = IF pay[job[h].pay].refunded = job[h].seen THEN overwritten
                        ELSE overwritten \cup {job[h].pay}
    BY DEF RefundPayment, RefundTotal
<1>1. /\ h \in Runner /\ job \in [Runner -> Job] /\ job[h] \in Job /\ job[h].pay \in Payment
      /\ job[h].died = "no" /\ amount \in Nat /\ amount <= Amount /\ Amount \in Nat
      /\ pay \in [Payment -> Row] /\ pay[p].logged \in Nat /\ pay[p].refunded \in Nat
      /\ charge[p].returned \in Nat /\ job[h].seen \in Nat
      /\ \A step \in {"returned", "logged"} :
             IsFiniteSet(Cents(p, step)) /\ Stuck(p, step) \in Nat
    BY <1>0, RefundFacts
<1>2. /\ job'[h].at = "refunded" /\ job'[h].pay = job[h].pay /\ job'[h].amount = amount
      /\ job'[h].died = "no" /\ \A q \in Handler \ {h} : job'[q] = job[q]
    BY <1>0, <1>1 DEF Advance, Job, Runner
<1>3. AsStopped(p, "returned")
    BY <1>0, <1>1, <1>2 DEF AsStopped, Stopped
<1>4. Cents(p, "returned")' = Cents(p, "returned") /\ Stuck(p, "returned")' = Stuck(p, "returned")
    BY <1>3, StuckSame
<1>5. pay'[p].logged = pay[p].logged
    BY <1>0, <1>1 DEF Row
<1>6. CASE job[h].pay # p
  <2>1. AsStopped(p, "logged")
      BY <1>0, <1>1, <1>2, <1>6 DEF AsStopped, Stopped
  <2>2. Cents(p, "logged")' = Cents(p, "logged") /\ Stuck(p, "logged")' = Stuck(p, "logged")
      BY <2>1, StuckSame
  <2>3. pay'[p] = pay[p] /\ (p \in overwritten' <=> p \in overwritten)
      BY <1>0, <1>1, <1>6
  <2>4. QED
      BY <1>0, <1>4, <2>2, <2>3 DEF Books
<1>7. CASE job[h].pay = p
  <2>1. OthersStopped(h, p, "logged") /\ Stopped(h, p, "logged") /\ ~Stopped(h, p, "logged")'
      BY <1>0, <1>1, <1>2, <1>7 DEF OthersStopped, Stopped
  <2>2. /\ IsFiniteSet(Cents(p, "logged")') /\ Stuck(p, "logged")' \in Nat
        /\ Stuck(p, "logged") = Stuck(p, "logged")' + amount
      BY <1>1, <2>1, StuckLess
  <2>3. pay'[p].refunded = job[h].seen + amount
      BY <1>0, <1>1, <1>7 DEF Row
  <2>4. p \notin overwritten' => p \notin overwritten /\ pay[p].refunded = job[h].seen
      BY <1>0, <1>7
  <2>5. QED
      BY <1>0, <1>1, <1>4, <1>5, <2>2, <2>3, <2>4 DEF Books
<1>8. QED
    BY <1>6, <1>7

\* What died is still known to have been there.
LEMMA BooksAfterFail ==
    ASSUME Inv, NEW r \in Runner, Fail(r), NEW p \in Payment, Books(p)
    PROVE  Books(p)'
<1>0. /\ job \in [Runner -> Job] /\ job[r] \in Job /\ JobOK(r)
      /\ pay' = pay /\ charge' = charge /\ overwritten' = overwritten /\ job[r].at \in Step
      /\ r \in Handler => r \notin Event
    BY JobFacts DEF Fail
<1>1. /\ \A q \in Runner \ {r} : job'[q] = job[q]
      /\ job'[r].died = job[r].at /\ job'[r].at \in {"due", "done"}
      /\ job'[r].pay = job[r].pay /\ job'[r].amount = job[r].amount
    BY <1>0 DEF Fail, Job
<1>2. job[r].died = "no"
    BY <1>0 DEF JobOK
<1>3. BooksAlone(p)
    BY <1>0, <1>1, <1>2 DEF BooksAlone, AsStopped, Stopped, Runner
<1>4. QED
    BY <1>3, BooksQuiet

\* The steps of a job that is not a refund's.
LEMMA BooksAloneStep ==
    ASSUME Inv, NEW r \in Runner, Record(r) \/ (r \in Handler /\ (Arrive(r) \/ Serve(r))),
           ~RefundCall(r), ~RefundLog(r), ~RefundPayment(r), NEW p \in Payment
    PROVE  BooksAlone(p)
<1>0. /\ job \in [Runner -> Job] /\ job[r] \in Job /\ pay \in [Payment -> Row] /\ ChargeType
      /\ r \in Handler => r \notin Event
      /\ charge \in [Payment -> Charge] /\ JobOK(r)
      /\ \A h \in Handler : h \in Runner
    BY JobFacts DEF ChargeType, Charge, Runner
<1>1. \A q \in Runner \ {r} : job'[q] = job[q]
    BY OwnSteps DEF Own
<1>2. ASSUME r \in Handler => {job[r].at, job[r].died, job'[r].at, job'[r].died}
                                 \cap {"returned", "logged"} = {}
      PROVE  AsStopped(p, "returned") /\ AsStopped(p, "logged")
    BY <1>0, <1>1, <1>2 DEF AsStopped, Stopped
<1>3. CASE Record(r)
  <2>1. job[r].at \in {"recording", "writing", "settling"} /\ job[r].died = "no"
      BY <1>0, <1>3 DEF Record, RecordRead, RecordPayment, RecordOrder, JobOK
  <2>2. ASSUME r \in Handler
        PROVE  job'[r].at \in {"writing", "settling", "done"} /\ job'[r].died = "no"
      BY <1>0, <1>3, <2>1, <2>2 DEF Record, RecordRead, RecordPayment, RecordOrder, Return,
         Advance, Blank, Job
  <2>3. /\ charge' = charge /\ overwritten' = overwritten
        /\ pay'[p].logged = pay[p].logged /\ pay'[p].refunded = pay[p].refunded
      BY <1>0, <1>3 DEF Record, RecordRead, RecordPayment, RecordOrder, Row
  <2>4. QED
      BY <1>2, <2>1, <2>2, <2>3 DEF BooksAlone
<1>4. CASE r \in Handler /\ Arrive(r)
  <2>1. job[r].at = "idle" /\ job[r].died = "no"
      BY <1>0, <1>4 DEF Arrive, CounterCheck, VerifyRead, RefundCheck, JobOK
  <2>2. job'[r].at \in {"counting", "asking", "refunding"} /\ job'[r].died = "no"
    <3>1. CASE CounterCheck(r)
        BY <1>0, <2>1, <3>1 DEF CounterCheck, Advance, Job
    <3>2. ASSUME NEW q \in Payment, VerifyRead(r, q)
          PROVE  job'[r].at = "asking" /\ job'[r].died = "no"
      <4>1. job'[r] = [Blank("asking") EXCEPT !.pay = q, !.ref = pay[q].ref]
          BY <1>0, <3>2 DEF VerifyRead
      <4>2. QED
          BY <4>1 DEF Blank
    <3>3. ASSUME NEW q \in Payment, NEW amount \in 1..Amount, RefundCheck(r, q, amount)
          PROVE  job'[r].at = "refunding" /\ job'[r].died = "no"
      <4>1. job'[r] = [Blank("refunding") EXCEPT
                           !.pay = q, !.amount = amount, !.seen = pay[q].refunded]
          BY <1>0, <3>3 DEF RefundCheck
      <4>2. QED
          BY <4>1 DEF Blank
    <3>4. QED
        BY <1>4, <3>1, <3>2, <3>3 DEF Arrive
  <2>3. pay' = pay /\ charge' = charge /\ overwritten' = overwritten
      BY <1>4 DEF Arrive, CounterCheck, VerifyRead, RefundCheck
  <2>4. QED
      BY <1>2, <2>1, <2>2, <2>3 DEF BooksAlone
<1>5. CASE r \in Handler /\ Serve(r) /\ ~Record(r)
  <2>1. CASE VerifyAsk(r)
    <3>1. job[r].at = "asking" /\ pay' = pay /\ overwritten' = overwritten /\ job[r].died = "no"
        BY <1>0, <2>1 DEF VerifyAsk, JobOK
    <3>2. job'[r].at = "recording" /\ job'[r].died = "no"
        BY <1>0, <2>1, <3>1 DEF VerifyAsk, Job
    <3>3. charge'[p].returned = charge[p].returned
        BY <1>0, <2>1 DEF VerifyAsk, Charge
    <3>4. QED
        BY <1>2, <3>1, <3>2, <3>3 DEF BooksAlone
  <2>2. CASE RefundOrder(r) \/ CounterOrder(r)
    <3>1. /\ job[r].at \in {"refunded", "counted"} /\ pay' = pay /\ charge' = charge
          /\ overwritten' = overwritten /\ job[r].died = "no"
        BY <1>0, <2>2 DEF RefundOrder, CounterOrder, JobOK
    <3>2. job'[r].at = "done" /\ job'[r].died = "no"
        BY <1>0, <2>2 DEF RefundOrder, CounterOrder, Blank
    <3>3. QED
        BY <1>2, <3>1, <3>2 DEF BooksAlone
  <2>3. ASSUME NEW q \in Payment, CounterCreate(r, q) PROVE BooksAlone(p)
    <3>1. /\ job[r].at = "counting" /\ charge' = charge
          /\ overwritten' = overwritten /\ job[r].died = "no"
        BY <1>0, <2>3 DEF CounterCreate, JobOK
    <3>2. job'[r].at = "counted" /\ job'[r].died = "no"
        BY <1>0, <2>3, <3>1 DEF CounterCreate, Job
    <3>3. pay'[p].logged = pay[p].logged /\ pay'[p].refunded = pay[p].refunded
        BY <1>0, <2>3 DEF CounterCreate, Row
    <3>4. QED
        BY <1>2, <3>1, <3>2, <3>3 DEF BooksAlone
  <2>4. QED
      BY <1>5, <2>1, <2>2, <2>3 DEF Serve
<1>6. QED
    BY <1>3, <1>4, <1>5

LEMMA BooksStep ==
    Inv /\ [Next]_vars /\ AllBooks => AllBooks'
<1> SUFFICES ASSUME Inv, [Next]_vars, AllBooks, NEW p \in Payment PROVE Books(p)'
    BY DEF AllBooks
<1>0. /\ Books(p) /\ job \in [Runner -> Job] /\ pay \in [Payment -> Row] /\ ChargeType
      /\ \A h \in Handler : h \in Runner /\ h \notin Event
    BY HandlerFresh DEF AllBooks, Inv, TypeOK, Runner
<1>q. ASSUME BooksAlone(p) PROVE Books(p)'
    BY <1>q, <1>0, BooksQuiet
<1>1. ASSUME NEW q \in Payment, Diner(q) \/ Start(q) \/ StartLost(q) PROVE BooksAlone(p)
  <2>1. \A h \in Handler : job'[h] = job[h]
      BY <1>0, <1>1 DEF Diner, Start, StartLost, StartCheck, StartCreate, StartOpen,
         StartRefused, DinerPays, CardDeclined, CheckoutCloses, Emit, Event, Verdict
  <2>2. pay'[p].logged = pay[p].logged /\ pay'[p].refunded = pay[p].refunded
    <3>1. CASE StartCreate(q)
        BY <1>0, <3>1 DEF StartCreate, Row
    <3>2. CASE StartOpen(q) \/ StartRefused(q)
        BY <1>0, <3>2 DEF StartOpen, StartRefused, Row
    <3>3. CASE Diner(q) \/ StartLost(q)
        BY <3>3 DEF Diner, StartLost, StartCheck, DinerPays, CardDeclined, CheckoutCloses
    <3>4. QED
        BY <1>1, <3>1, <3>2, <3>3 DEF Start
  <2>3. charge'[p].returned = charge[p].returned
    <3>1. ASSUME NEW state, charge' = [charge EXCEPT ![q].state = state]
          PROVE  charge'[p].returned = charge[p].returned
        BY <1>0, <3>1 DEF ChargeType
    <3>2. \/ charge' = charge
          \/ \E state \in {"none", "open", "approved", "paid", "closed"} :
                 charge' = [charge EXCEPT ![q].state = state]
        BY <1>1 DEF Diner, Start, StartLost, StartCheck, StartCreate, StartOpen,
           StartRefused, MaybeOpen, DinerPays, CardDeclined, CheckoutCloses
    <3>3. QED
        BY <3>1, <3>2
  <2>4. overwritten' = overwritten
      BY <1>1 DEF Diner, Start, StartLost, StartCheck, StartCreate, StartOpen,
         StartRefused, DinerPays, CardDeclined, CheckoutCloses
  <2>5. QED
      BY <2>1, <2>2, <2>3, <2>4 DEF BooksAlone, AsStopped, Stopped
<1>2. ASSUME NEW e \in Event, HookClaim(e) \/ HookProcessed(e) PROVE BooksAlone(p)
    BY <1>0, <1>2 DEF BooksAlone, AsStopped, Stopped, HookClaim, HookProcessed, Advance
<1>3. ASSUME NEW r \in Runner, Record(r) \/ (r \in Handler /\ (Arrive(r) \/ Serve(r)))
      PROVE  Books(p)'
  <2>1. CASE r \in Event
    <3>1. Record(r) /\ ~RefundCall(r) /\ ~RefundLog(r) /\ ~RefundPayment(r)
      <4>1. JobOK(r) /\ Record(r)
          BY <1>0, <1>3, <2>1, JobFacts
      <4>2. job[r].at \in HookPlaces
          BY <2>1, <4>1 DEF JobOK, EventOK
      <4>3. QED
          BY <4>1, <4>2 DEF RefundCall, RefundLog, RefundPayment, HookPlaces
    <3>2. QED
        BY <1>q, <3>1, BooksAloneStep
  <2>2. CASE r \in Handler
    <3>1. CASE RefundCall(r)
        BY <1>0, <2>2, <3>1, BooksAfterCall
    <3>2. CASE RefundLog(r)
        BY <1>0, <2>2, <3>2, BooksAfterLog
    <3>3. CASE RefundPayment(r)
        BY <1>0, <2>2, <3>3, BooksAfterPayment
    <3>4. CASE ~RefundCall(r) /\ ~RefundLog(r) /\ ~RefundPayment(r)
        BY <1>q, <1>3, <3>4, BooksAloneStep
    <3>5. QED
        BY <3>1, <3>2, <3>3, <3>4
  <2>3. QED
      BY <2>1, <2>2 DEF Runner
<1>4. ASSUME NEW r \in Runner, Fail(r) PROVE Books(p)'
    BY <1>0, <1>4, BooksAfterFail
<1>5. ASSUME UNCHANGED vars PROVE BooksAlone(p)
    BY <1>5 DEF vars, BooksAlone, AsStopped, Stopped
<1>6. CASE Next
    BY <1>q, <1>1, <1>2, <1>3, <1>4, <1>6 DEF Next, Hook, Runner
<1>7. QED
    BY <1>q, <1>5, <1>6

\* To the cent, whatever refunds overlap and fail: what the provider gave back is in
\* the refund rows or in the hands of a refund, dead or alive, and what the rows say
\* is in the payment's total, unless a refund wrote over one it had not seen
\* (refundPayment).
THEOREM RefundsAlwaysOnTheBooks ==
    Spec => []RefundsAreOnTheBooks
<1>1. Init => AllBooks
  <2> SUFFICES ASSUME Init, NEW p \in Payment PROVE Books(p)
      BY DEF AllBooks
  <2>1. \A step \in {"returned", "logged"} : Cents(p, step) = {}
      BY HandlerFresh DEF Init, Cents, Stopped, Runner, Blank
  <2>2. QED
      BY <2>1, FS_EmptySet DEF Init, Books, Stuck
<1>2. Inv /\ AllBooks => RefundsAreOnTheBooks
    BY DEF Inv, PaymentOK, AllBooks, Books, RefundsAreOnTheBooks
<1>3. QED
    BY <1>1, <1>2, BooksStep, AlwaysInv, PTL DEF Spec

-------------------------------------------------------------------------------
(* What the code promises and keeps only so far                                *)

\* Failures and processed rows are never taken back.
LEMMA OnlyGrow ==
    ASSUME Inv, [Next]_vars
    PROVE  processed \subseteq processed' /\ (failures' = 0 => failures = 0)
<1>0. failures \in Nat
    BY MaxFailuresType DEF Inv, TypeOK
<1>1. CASE UNCHANGED vars
    BY <1>1 DEF vars
<1>2. ASSUME NEW p \in Payment, Diner(p) \/ Start(p) \/ StartLost(p)
      PROVE  UNCHANGED processed /\ failures' \in {failures, failures + 1}
    BY <1>2 DEF Diner, Start, StartCheck, DinerPays, CardDeclined, CheckoutCloses, StartCreate,
       StartOpen, StartRefused, StartLost
<1>3. ASSUME NEW r \in Runner, Record(r) \/ Fail(r)
      PROVE  UNCHANGED processed /\ failures' \in {failures, failures + 1}
    BY <1>3 DEF Record, RecordRead, RecordPayment, RecordOrder, Fail
<1>4. ASSUME NEW e \in Event, HookClaim(e) \/ HookProcessed(e)
      PROVE  processed \subseteq processed' /\ UNCHANGED failures
    BY <1>4 DEF HookClaim, HookProcessed
<1>5. ASSUME NEW h \in Handler, Arrive(h) \/ (Serve(h) /\ ~Record(h))
      PROVE  UNCHANGED <<processed, failures>>
    BY <1>5 DEF Arrive, CounterCheck, VerifyRead, RefundCheck, Serve, VerifyAsk, RefundCall,
       RefundLog, RefundPayment, RefundOrder, CounterOrder, CounterCreate
<1>6. QED
    BY <1>0, <1>1, <1>2, <1>3, <1>4, <1>5 DEF Next, Hook, Runner

LEMMA AckStep ==
    Inv /\ AckedUnlessFailed /\ [Next]_vars => AckedUnlessFailed'
<1> SUFFICES ASSUME Inv, AckedUnlessFailed, [Next]_vars, failures' = 0,
                    NEW e \in Event, job'[e].at = "acked"
             PROVE  e \in processed'
    BY DEF AckedUnlessFailed, AckedIsProcessed
<1>0. /\ e \in Runner /\ e \notin Handler /\ job \in [Runner -> Job] /\ job[e] \in Job
      /\ EventOK(e)
    BY JobFacts DEF Runner, JobOK
<1>1. processed \subseteq processed' /\ failures = 0
    BY OnlyGrow
<1>2. CASE job'[e] = job[e]
    BY <1>1, <1>2 DEF AckedUnlessFailed, AckedIsProcessed
<1>3. ASSUME NEW q \in Runner, Posted(q) PROVE job'[e] = job[e]
  <2>1. q # e
      BY <1>0, <1>3 DEF Posted, Job
  <2>2. QED
      BY <1>0, <1>3, <2>1 DEF Posted
<1>4. CASE Own(e)
  <2>1. ~Record(e) /\ ~Fail(e)
      BY <1>0 DEF Record, RecordRead, RecordPayment, RecordOrder, Fail, Return, Advance, Job
  <2>2. CASE HookClaim(e)
    <3>1. job[e].at = "due" /\ e \notin claimed
        BY <1>0, <1>1, <2>2 DEF HookClaim, EventOK
    <3>2. job'[e].at = "recording"
        BY <1>0, <2>2, <3>1 DEF HookClaim, Advance, Job
    <3>3. QED
        BY <3>2
  <2>3. CASE HookProcessed(e)
      BY <2>3 DEF HookProcessed
  <2>4. QED
      BY <1>0, <1>4, <2>1, <2>2, <2>3 DEF Own
<1>5. QED
    BY <1>0, <1>2, <1>3, <1>4, WhoMoves, OwnSteps

\* Until a statement fails, an event answered 200 was processed, however its
\* deliveries overlap (the route's claim and its processedAt).
THEOREM AckedWasProcessed ==
    Spec => []AckedUnlessFailed
<1>1. Init => AckedUnlessFailed
  <2> SUFFICES ASSUME Init, NEW e \in Event PROVE job[e].at # "acked"
      BY DEF AckedUnlessFailed, AckedIsProcessed
  <2>1. job[e] = Delivery(e, "none")
      BY DEF Init, Runner
  <2>2. QED
      BY <2>1 DEF Delivery, Blank
<1>2. QED
    BY <1>1, AckStep, AlwaysInv, PTL DEF Spec

=====

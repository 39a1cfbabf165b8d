# Scanly in TLA+

Scanly (`src/`) is a multi-tenant ordering system for restaurants: a diner scans
a QR code, orders and pays on a phone; staff see the order on a board in the
kitchen or on the floor and move it along; owners manage menus and tables and
subscribe to a plan; the platform's operator sets plans and settings. It is a
Next.js application over PostgreSQL (Prisma, with row-level security per tenant),
Redis publish/subscribe, Stripe and bKash.

This directory models its order path (numbering, lifecycle, payments, live
boards) and what surrounds it: subscriptions and plan limits, the storefront's
menu and checkout, the diner's tracking page, tables and locations, photos and
their sweeper, platform settings, and who may reach which restaurant's rows.
`tlc -config X.cfg M` checks a run, `tlapm M.tla` the proofs of a module.

Two facts of the code shape every module.

- `forTenant` (`server/db/tenant-client.ts`) wraps *each model operation* in a
  transaction of its own, to set the tenant for row-level security; this includes
  operations on a transaction handle `tx`. So two model calls in a row are two
  transactions, and other requests, timeouts and crashes come between them. One
  model operation, one raw statement and one call to a provider is one action here.
- Some code (billing, sweeping, sign-in) uses the raw client, which sets no
  tenant. What its statements find depends on the role the server connects as.
  `docker-compose.yml` gives a superuser, whom no policy binds; the migration
  `20260909183100_row_level_security` (lines 14-17) asks for a `NOSUPERUSER NOBYPASSRLS`
  role. The models take the role as a constant of the behaviour (`bypass`, `bypassed`)
  with both values.

## 1. Inventory

| Component | State it keeps | Operations | Talks to |
|---|---|---|---|
| Order placement and numbering (`modules/orders/order.service.ts`, `order-number.ts`) | `orders`, `order_counters`, the connection pool | `placeOrder`, `allocateOrderNumber` | tenant client, bus |
| Order lifecycle (`order.service.ts`, `order.repository.ts`) | `orders.status` and timestamps, `order_events` | `transitionMyOrder`, `rejectMyOrder` | bus |
| Diner payments (`modules/payments`, `api/webhooks/stripe/orders`) | `payments`, `payment_refunds`, `orders.paymentStatus`, `webhook_events` | `startPayment`, `verifyAndRecord`, `recordOutcome`, `refundPayment`, `recordCounterPayment`, the webhook | Stripe, bKash, bus |
| Boards and realtime bus (`lib/use-live-orders.ts`, three pages, `server/realtime`) | orders on screen, ids already announced, stream | stream, resync, optimistic update, reject dialog | SSE and resync routes, staff actions |
| Diner tracking page (`order/[trackToken]`) | the status shown, the timer, requests in flight | poll every 5 s, hide, show | status route |
| Tenant isolation (`server/db`, RLS migrations) | `app.tenant_id` of each transaction | `forTenant`, bootstrap lookups | every repository |
| Billing (`modules/billing`, `api/webhooks/stripe/billing`) | plan, status, `pastDueSince`, customer and subscription ids | checkout, portal, `applySubscriptionState`, `downgradeToFree`, `assertCanCreate`, the operator's plan change | Stripe |
| Menu, translations, media (`modules/menu`, `i18n`, `storage`) | dishes, categories, uploads | edits, duplication, uploads, the sweep script | file storage |
| Tables, zones, locations | tables, QR codes, zones | create one or a range, delete | plan limits |
| Accounts (`modules/auth`, `lib/auth.ts`) | users, memberships, staff PINs | sign-up, sign-in, PIN login | - |
| Platform settings (`modules/platform`) | settings rows, a snapshot cached 60 s per process | save, `loadSettings` | every reader |
| Storefront (`t/[publicCode]`) | one phone's cart, favourites, language, last order | browse, submit | `POST /api/orders` |
| Pages, layouts, marketing | none | rendering | - |

How they interact: `POST /api/orders` calls `placeOrder`, which publishes
`order.created` on the location's channel. Staff actions call
`transitionMyOrder`, and every payment write ends by re-reading the order; both
publish `order.updated`. The SSE routes hand the channel to the open boards.
Boards also fetch the open orders on every (re)connection and every 30 s.
Providers report payments twice, by webhook and through the page the diner
comes back to, and both end in `recordOutcome`. Stripe's subscription events
write the restaurant's plan, which `assertCanCreate` reads before tables and
locations are created. A server reads the settings rows at most once a minute.

What is hard: the split transactions above; a placement needing two pooled
connections at once while others queue behind it; check-then-write by id, in
transitions, payments, refunds and limits; webhooks that are late, repeated or
out of order, and retried after a failure; money moved by a call whose result
still has to be recorded; boards with three sources of truth that overtake each
other; a phone with two tabs on one local storage; rows that share files which
several saves and a sweeper delete; snapshots that are a minute old.
PROJECT.json lists these hazards, each at its line, with the properties aimed at
it.

What makes each part correct, in a sentence each:

- *Numbering*: the orders of a location and day are numbered 1, 2, 3, ... with no
  number used twice or skipped, and every valid order is placed.
- *Lifecycle*: a finished order stays finished, its history tells what happened
  to it, and every status reaches the channel.
- *Payments*: paid means that money was taken, money taken gets recorded, every
  cent given back is accounted for, and the order follows its payments.
- *Boards*: every new order is announced exactly once, and screens converge.
- *Tracking*: whoever keeps looking sees the order's status until it is ready, when
  the page stops asking.
- *Billing*: plan and status follow the events in their order, once each; the
  grace period runs once; one trial, one customer.
- *Limits*: no more tables and locations than the plan grants.
- *Checkout*: a basket is ordered once, at the price that was shown.
- *Menu*: while there is something to sell, the screen shows a dish.
- *Media*: no file a row refers to is deleted.
- *Settings*: servers come to agree, and masked secrets survive a save.
- *Isolation*: a request reaches one restaurant's rows, and only a member's.

## 2. Modules

| Module | Models |
|---|---|
| `OrderNumbers` | abstract specification: a location's stored orders are numbered 1, 2, 3, ... |
| `OrderNumbering` | `placeOrder` over the pool, the counter row lock and its two transactions |
| `OrderLifecycle` | `transitionMyOrder`, the announcement of a placement, payment notices |
| `Payments` | payments and refunds of one order, the Stripe webhook, the providers as used |
| `LiveBoards` | boards over the channel; extends `OrderLifecycle` |
| `Plans` | what each plan grants, the limit checks, the platform fee |
| `Billing` | a restaurant's subscription, the webhook, the owner's and the operator's calls; extends `Plans` |
| `FloorPlan` | tables and locations under the limits; extends `Plans` |
| `Checkout` | baskets in local storage, the checkout sheet, the order request and its checks |
| `MenuBrowsing` | tabs, filter pills, favourites and language of the storefront |
| `DinerTracking` | the diner's polling page |
| `PhotoLibrary` | editing sheets, uploads, copies, deletions and the sweeper |
| `PlatformSettings` | settings rows, each server's snapshot, the operator's form |
| `RowLevelSecurity` | the policies of the migrations, as predicates |
| `TenantAccess` | sign-up, sign-in, PINs, the dashboard's guard and the scoped client, over `RowLevelSecurity` |
| `Application` | the seven parts from `Checkout` to `TenantAccess`, side by side |
| `*Props` | properties of the larger modules; the others hold their own |
| `*Proofs` | theorems |
| `MC*` | instances for TLC |

**OrderNumbering.** `pc[r]` is where call `r` of `placeOrder` stands. The raw SQL
of `allocateOrderNumber` runs on the outer transaction (`EnsureCounterRow`,
`Allocate`); the counter's new value is visible only at `Commit`.
`tx.order.create` is a model operation, so it opens an inner transaction on a
second connection (`OpenInner`) and commits there (`InsertOrder`). `PoolFull`
compares the connections in use with `connection_limit`. `LoseOuter` is the 20 s
timeout or a dropped connection of the outer transaction, `LoseInner` the same
for the inner one, `Crash` the death of the process. Validation and the reads
before it are one step, since each holds a connection only for a moment; what
they check is in `Checkout`.

**OrderLifecycle.** `row` and `trail` are the order's row and its events,
`task[c]` a staff call or the tail of a payment write (a notice), and `feed`
everything the location's channel has carried. Each of the five model
operations of `transitionMyOrder` is an action (`Check`, `UpdateRow`,
`RecordEvent`, `Reread`, `Publish`). `Fail` ends a call where it stands.

**Payments.** Payments of different orders share no row, so one order is followed.
`start[p]` is `startPayment`; `job[h]` is a verification, a refund or a counter
payment; `job[<<p, outcome>>]` is one Stripe event, posted until it is answered
200. `charge[p]` is the provider's side and is external: a checkout is open,
approved (bKash, awaiting execute), paid or closed, and no more is given back than
was paid. `Answers` is `verifyPayment`: bKash captures the money there, and whatever
it does not answer clearly is recorded as FAILED (`bkash.provider.ts:219-227`): any
other or missing status, and always a stored transaction id, which replaces the
session once paid. `Settles` says which verdicts reach the order. `declined`,
`overwritten` and `job[r].died` are history, which no action reads: of which payments
the provider said FAILED, to which a refund wrote a total it had not read, and at which
step a failure ended a job.
Refund amounts are those `refundPayment` accepts; the owner's page only asks for
whole refunds.

**LiveBoards.** A page opens on a rendered snapshot (`OpenPage`); the stream
delivers what is published after it connected (`Connect`, `Deliver`) in any
order, because a server instance relays its own messages at once and the
others' when Redis brings them; a message may be lost on the bus (`Miss`), a
stream may drop (`Drop`). A resync reads at one moment (`Read`) and is applied at
a later one (`Resync`). `Tap` patches the screen and sends a call of
`OrderLifecycle`; `Revert` undoes the patch when that call fails. A resync has the
200 oldest open orders (`Window`, `InWindow`), and so has the first render of the
kitchen and the floor; the owner's first render has the 200 oldest of all orders
(`FirstOrders`). `Earlier` orders that were there first, and are settled one by one,
stand for the crowd that fills the window. `Pages` says
which of the pages a board may be: the owner's filtered list, the owner's full
list, the kitchen's queue with its reject dialog, or the floor's tiles, which
group by the tables known when the page opened. `Remote` calls come from devices
without a board in the model.

**Billing.** `tenant` is the restaurant's row, `call[c]` an owner's visit (checkout,
portal), `hook[h]` a delivery of one of the `events` Stripe posted, `claims` the
webhook's `webhook_events` rows. An event carries the subscription's price and what
its checkout wrote; `PlanOf` makes a plan of them, by `planForPriceId`, the metadata or
FREE. `applySubscriptionState`, `downgradeToFree`,
`normaliseStatus` and `ClaimEvent` carry the source's names. Stripe's side
(`subs`, `customers`, which events it sends) is external. `history` and `operator`
record what the properties need to name their exceptions. Time is the number of
writes to the row, which is all `pastDueSince` is compared for.

**Checkout.** Tabs share `cart` and `activeOrder` through local storage. `request[i]` is
a `POST /api/orders` in flight with what the sheet quoted; the server's answer may
be lost, or come after its sheet was closed. `Charged` is what
`placeOrder` computes from the owner's current menu. `doubt` names the cases in
which the code does not keep the promise.

**MenuBrowsing.** State of one page (`activeCategory`, `activeFilter`)
and the favourites and language another page of the phone may change under it.
`chosen` is the text kept of the language, with the quotation marks `setValue` writes
(`JSONText`) and `parseLocale` does not take off.
`CategoryChange`, `FilteredItems` and `currentCategory` are the component's derived
values.

**DinerTracking.** The order's status moves on its own; `poll[i]` is a request, or
its answer on the way; `visible` and `timer` are the page's.

**FloorPlan.** A `maker[m]` is an action call that read the plan, counted, and then
creates one row per transaction. Labels are unique, also against deleted tables.
`excuse` remembers overlapping calls, a changed plan, and a location made on the
page that does not count them.

**PhotoLibrary.** `row[r].photos` are a row's references, `file` what storage holds,
`sheet[s]` an editing sheet with what it loaded, uploaded and is saving; the sweeper
lists files and rows, then deletes. `cause` collects the ways in which the code
does lose a file.

**PlatformSettings.** `stored` is the table, `server[i]` an instance's snapshot with
the age of its trust, `form[o]` an operator's page through its save, one setting
per transaction. `blank` is what secrets the page had no value of to show.

**TenantAccess.** A request (dashboard, staff or diner) finds its restaurant by
the guards of the code, then runs one operation of the scoped client with
arbitrary arguments; `touched` is whose rows it reached and which restaurant its data
named. An update's data may name one too, and the client does not look at it.
Membership pairs and the rows of two models, one narrowed by the client and one not on its list, stand for all.

**Application.** Its seven parts share only the database and never one another's
rows, so interleaving them would add states and no behaviour: `part` is
the one that takes steps and the rest stay as they were at first. It exists to
check them in one run; each keeps its own variables, next-state relation and
properties.

## 3. What is checked

| Run | Instance | States | Shows |
|---|---|---|---|
| `numbering` | 4 calls, 3 of them on one of 2 counters, pools of 1, 3 and 6, 1 fault | 148,220 | numbering holds through faults; an ample pool loses no order; all calls are answered |
| `numbering_atomic` | same | - | **violated**: order and counter do not commit together |
| `lifecycle` | 3 calls on one order, 2 failures | 341,511 | true history, finished stays finished, no status goes untold |
| `lifecycle_events` | same | - | **violated**: a status without an event after a failure |
| `payments` | 2 payments, 2 handlers, 2 events, 1 failure | 1,207,268 | paid is real, captured is recorded, refunds add up, the order follows |
| `payments_retry` | same | - | **violated**: a retried event is answered as a duplicate, never processed |
| `payments_unpaid` | same | - | **violated**: a paid order becomes FAILED |
| `live_boards` | 1 kitchen board, 1 order behind an earlier one, a window of 1, a tap and a remote call, 1 failure, 1 loss | 528,745 | each order sounds once; open orders converge |
| `live_boards_closed` | the owner's full list, no earlier order | - | **violated**: a closed order stays on screen as ACCEPTED |
| `billing` | 2 subscriptions, 2 owner calls, 2 deliveries, 3 events, 4 inputs, 1 failure, either role | 1,824,998 | events are applied once, the grace clock runs once, one trial |
| `application` | see Bounds | 628,723 | seven parts, one at a time |
| `suspended` | 3 restaurants, 3 people, 3 models | - | **violated**: a suspended restaurant's codes still serve |

Properties that hold, and what they say (each run also checks its type invariant:
`TypeOK`, `BoardTypeOK` or `ApplicationTypeOK`):

- `numbering`: `ImplementsOrderNumbers` (numbering refines `OrderNumbers`),
  `NoDuplicateWithoutFault` (the row lock makes the unique index redundant while
  nothing is lost), `AcknowledgedIsDurable`, `AmplePoolSuffices` (calls + counters
  connections are enough), `WedgeIsPermanent`, `EveryCallAnswered`, `ValidOrdersArePlaced`.
- `lifecycle`: `SettledIsFinal`, `HistoryIsTrue`, `StampsAreExplained`, `UntoldIsOnItsWay`.
- `payments`: `PaidIsReal`, `CapturedIsRecorded`, `RefundsAreOnTheBooks`,
  `SettledStaysPaid`, `OrderFollowsPayments` (the order is behind its payments only
  between a recording's two writes, or because it died there).
- `live_boards`: `SeenIsAnnouncedOnce` (what a page has seen was there when it opened,
  sounded once, or came as an update), `NewOrdersChime`, `OpenOrdersConverge`.
- `billing`: `AppliedAtMostOnce` (the claim's unique index against overlapping
  deliveries), `ClockRunsWhilePastDue`, `GraceIsNotExtended`, `NoSecondTrial`,
  `LastWordDecides` (once Stripe's last event is the last applied, the plan is the one
  that is paid for, if its price is known and no other subscription is paid for),
  `OneCustomer`.
- `application`: `BasketIsOrderedOnce`, `QuotedIsCharged` (a property of the step that
  writes the order: if the menu then has the prices of its lines, the total is the one
  quoted), `ScreenIsNeverBlank`, `TrackerCatchesUp` (until the page shows READY),
  `WithinPlan`, `PhotosExist`, `ServersAgreeInTheEnd`, `SecretsSurvive` (a secret is
  emptied only by a page that showed no value of it), `RowsStayHome`.

Several have an exception in their statement, and the exception is the code's.
Transitions and recordings check in one transaction and write in another, so
"final" and "stays paid" hold once no call that read the row before is left.
`doubt` (Checkout), `excuse` (FloorPlan), `cause` (PhotoLibrary) and
`history.overlapped` (Billing) each collect the ways in which the code is known to
break the promise: two tabs that order one basket, a sheet closed before its
answer; creations that overlap between the count and the row, locations made on
the tables page, which does not count them; a copied dish, a sheet saved over
another's save, an upload that ends after the gallery changed, a sweeper that
row-level security blinds; two visits that each make a Stripe customer. The
property says that there is no other way. The comment above each names its own.

**Disagreements found** (PROJECT.json, `findings`), refuting in this order
`OrderCommitsWithCounter`, `NoStateWithoutEvent`, `AckedIsProcessed`, `NeverUnpaid`,
`ScreensConverge` and `SuspendedIsOffline`. (1) `order.service.ts:155`
says number and order commit in one transaction; they do not. If the outer
transaction is lost after the inner one committed, the counter stays behind a
stored order. From then on the unique index refuses every order of that location
and day (`WedgeIsPermanent`). (2) `order.repository.ts:60` says a status and
its event are one transaction; they are two. (3) The webhook claims an event
before processing it, so the retry asked for with a 500 is dropped as a
duplicate. (4) A FAILED outcome of one attempt overwrites the `PAID` another
payment gave the order. (5) Resyncs cover open orders only, so a card whose
READY was missed or overtaken never converges. (6) `platform.repository.ts` says
that setting `deletedAt` stops the storefront resolving; the lookup of a table's
code reads the table's own columns and never the restaurant's.

More disagreements are in the models and have no run of their own; where a property
names one as its exception, it is given in brackets:

- `live-status.ts:26-27` says that the poll stops because "nothing can change" after a
  final status; it stops at READY, which an order leaves when it is served or refused, and
  an open page goes on saying READY (`TrackerCatchesUp`).
- "A double-click must not refund twice" (`payment.service.ts:258-264`) holds for
  whole refunds, by the provider's limit; two overlapping partial refunds are both made,
  and `refundedCents` loses one of them (`overwritten` in `RefundsAreOnTheBooks`).
- A bKash payment may be captured and recorded FAILED, after an unclear answer, until
  a reload asks again; for good if the unclear answer is written over a PAID that
  overlapped it, whose transaction id no later question is answered about (`declined` in
  `CapturedIsRecorded`).
- A subscription at a price that is none of the settings' and has no plan in its metadata
  makes a paying restaurant FREE, and the end of one subscription does so while
  another is paid for (`LastWordDecides`).
- The language a diner picks never takes effect: it is stored with quotation marks
  (`use-local-storage.ts:75`) and compared without (`use-locale.ts:21-23`).
- Past 200 open orders a page neither announces nor keeps a new one that the stream did not
  bring, and each resync takes its PENDING card off the screen (`InWindow` in
  `NewOrdersChime` and `OpenOrdersConverge`).
- A page that shows no value of a stored secret deletes it by saving its group: one
  rendered before the secret was saved, from a snapshot that lacks it, or after
  `AUTH_SECRET` was changed (`SecretsSurvive`).
- `tenant-client.ts:195-207` narrows which rows an update finds and not the restaurant
  its data names; only row-level security's WITH CHECK does (`RowsStayHome`).

**Bounds.** In the numbering runs three calls share a counter and a fourth
has its own. Two would not do: the first of the day inserts the counter's row, and
that insert alone keeps the second waiting; only the second and third race for
`FOR UPDATE`. A pool of 1 starves each inner transaction, 3 allows the circular
wait, 6 is exactly ample. One fault is enough to wedge a counter, after which no
order of it is stored, so a second one adds nothing there; the theorems of
section 4 hold for any number. On one order, three calls give a reader,
a writer and an observer between any two steps of each; no step of the lifecycle
looks at two orders. Two payments are what a disagreement about one order needs,
two handlers what a race needs, two events a duplicate or a reordering; `Amount`
2 allows partial and whole refunds. One board suffices, since boards share no
state; one resync slot still lets a response be overtaken by messages. A window of one
order with one earlier order has the followed order outside the window, then in it, as 200
with 200 do. `live_boards` has a kitchen page, whose snapshot, resync and dialog are all
the code has of them; the theorems hold for every page, window and backlog. Two
deliveries overlap on one event, two owner calls race for the customer, and three
events with two subscriptions give an update, a failed payment and a cancellation
in any order; a subscription with or without metadata is made at a known price and moved
to another or to an unknown one, so each case of `PlanOf` occurs, and `active` and
`past_due` are those that move the grace clock differently; the theorems hold for every
status and price. In `application`: two tabs, two requests and a dish at two prices;
two dishes in two categories with one tag and two languages; one extra poll in
flight, three moves, one loss; two makers with three forms between them, from
none or nine tables on a plan with ten, ranges that fit, overflow and are empty;
two photos over two dishes and a category, two sheets; a plain and a secret setting
on two servers with two saves and one failure; two restaurants, a third to be
founded, three people, and two models, of which one is on the scoped client's list.
The `Max*` constants bound inputs and faults only in the guards of the actions that
count them. Calls, payments, handlers and deliveries are symmetric and are declared
so where a run has no liveness property. `Checkout` and `PhotoLibrary` take no step
after a doubt or a cause, since no property speaks of what follows.

**Deadlock** is checked except in the payments, billing, application and suspended
runs. There diners may walk away, owners and operators may do nothing, a pending
payment may stay pending for good, and the bounds on inputs run out. In
`OrderNumbering` and `OrderLifecycle` a stuttering step stands for "everything is
answered", so TLC reports any other stop.

**Fairness** is weak and stated per actor. In `OrderNumbering`, every step of every
call: Node's event loop runs each continuation, Prisma's `maxWait` and `timeout`
fire, and PostgreSQL queues waiters of a row. In `LiveBoards`: the server's
steps; the answer a call's page gets; the browser's reconnection (`EventSource`
retries by itself) and the delivery of what reached a live stream; the 30 s resync
with its response. In `DinerTracking`: the timer of a page in the foreground fires,
and requests that are not lost are read and answered. `TrackerCatchesUp` assumes
besides that the page is in the foreground again and again, as a premise of the
property. In `PlatformSettings`: a minute passes, some page of every server asks for
settings, and the query ends; saves are finitely many by their bound. Nothing
is assumed of diners, staff, owners or faults; no strong fairness is used.

## 4. What is proved

Theorems hold for any number of calls, orders, boards, payments, events,
restaurants, pool sizes and faults.

Every safety invariant and action property that a passing run checks is a theorem. For
three of the disagreements of section 3 a theorem says how far the code keeps the promise:
`CommitsUntilFault` (1), `StatesExplained` (2) and `AckedWasProcessed` (3).

`OrderNumberingProofs`, from the assumptions of `OrderNumbering` (calls and counters are
finitely many, each call has a counter, pools are positive): `TypeCorrect`,
`NumberingRefines`, `NoDuplicates`, `AcknowledgedDurable`, `WedgePermanent`,
`PoolSuffices`, `NeverWaitsForAWaiter`, `CommitsUntilFault`. The
inductive invariant adds to the types: an outer transaction is open only at the
steps inside it (`OpenWhere`); a call holding the row of a counter has the number
the counter will give (`HolderIsCurrent`); a counter's stored numbers are
`1..n` with the counter at `n` or `n+1` (`Contiguous`), which is what makes both the
refinement and the wedge provable; an inserted order is stored under its call's
number (`InsertedIsStored`). Without faults, `Healthy` adds that a counter is past
every stored number unless its row's holder is between insert and commit; with the
unique index (`DistinctNumbers`) that is `CommitsUntilFault`.
`PoolSuffices` counts connections: a call with two of them holds its counter's row, so
the map from such calls to counters is injective (`TwoConnectionsPerCounter`), and a call
about to ask leaves one free (`OneIsFree`). `NeverWaitsForAWaiter` is the part of
`EveryCallAnswered` that is safety: a row's holder has its transaction open and is past
every wait for a row (`HolderRuns`), so there is no circle of waits and no orphaned lock.

`OrderLifecycleProofs`: `LifecycleTypeCorrect`, `StampsExplained`, `UntoldOnItsWay`,
`SettledOrdersStay`, `HistoryAlwaysTrue`, `StatesExplained`. The type invariant carries the conditions
on a call's order, target and payload; `AbsentIsBlank` says that an order not placed
has no stamps. `UntoldStep` is the heart: whoever moves a row is itself a call that
owes the new status, and a call stops owing it only by publishing it, by failing, or
because somebody moved the row again. For the history, `StampedFirst` (a call stamps
the row before it writes its event) and `EventIsTrue` (an event's call is past
writing it) make it inductive: a call about to write has no event yet. A status is a
stamp or explained by the first event (`StatusStamped`), so `StampsExplained` gives
`StatesExplained` as long as no call failed.

`LiveBoardsProofs`: `BoardsKeepLifecycle` shows that the boards over the channel
implement `OrderLifecycle`, so its theorems hold beneath them; `BoardsTypeCorrect`
and `BoardsChimeOnce` rest on `LiveInv`. Its core is `Announced`: a chime was
followed by seeing the order, and a page that is not open has not chimed and waits for no
response. `Accounted` adds the converse: what a page has seen it loaded, announced, or
learnt from an update, and messages never leave the channel (`MessagesStay`). `CardsOK` is needed for the reject
dialog, which acts on an order without looking at its card.

`PaymentsProofs`: `PaymentTypeCorrect`, `PaidAlwaysReal`, `SettledAlwaysStays`,
`OrderAlwaysFollows`, `CapturedAlwaysRecorded`, `RefundsAlwaysOnTheBooks`,
`AckedWasProcessed`, assuming that handlers and events
have different names (`HandlerFresh`). `JobOK` says what each job knows of its payment
at each of its steps (`EventOK`, `NewsOK`, `RefundOK`), `PaymentOK` ties a payment's
row, its attempt and the provider's checkout. `Later` collects the facts no step takes
back, such as a captured charge, so a job that does not move keeps what it knows
whoever else moves. Then a row becomes paid only by a job that knows of the money
(`StatusMoves`), and news of a capture ends only in a recording (`NewsIsKept`), of what
the provider said last. The order is behind a payment only while `HalfWritten` says who
has to write it: the step that writes the payment puts its job there
(`WrittenIsHalfway`), and leaving there writes the order or dies (`HalfwayStays`). What is
owed to the books is a set of cents, a pair of handler and number each, so the sum over
overlapping and dead refunds is a cardinality and each step moves one handler's cents
(`Books`, `CentsCounted`, `CentsAdded`): no induction over the handlers. A refund that is
the only one of its payment since it read the total writes the right one
(`BooksAlone`); any other is in `overwritten`.

`BillingProofs`: `BillingTypeCorrect`, `AppliedOnce`, `ClockRuns`, `GraceNotExtended`,
`OneTrial`, `OneCustomerMade`, `LastWordAlwaysDecides`, and two lemmas about `Plans` worth a name: `FeeIsRounded`
and `PageAndCheckAgree` (the billing page's limit is the one the creation enforces).
An event past its claim belongs to the one delivery that made the claim, which is
why it is applied once. For the last word: what an event says of a subscription is what
Stripe has of it unless a later one said otherwise (`EventsTellSubs`), and the row has
what the last event applied wrote (`RowTellsApplied`).

`PhotoLibraryProofs` has the invariant of the photos, `MediaInv`, assuming that
there is a dish and a photo to start with, and that `NoRow` and `NoPhoto` are neither.
`PhotosExist` alone is not inductive, because a save deletes the photos its row had
and no longer has. So `PhotosKept` says whose every photo is: a row's photos are safe
and on no other row (`RowsApart`), what a sheet holds is safe and nobody else's unless
its own row has it (`HoldOK`), an upload's photo is nobody's yet (`UploadOK`), and a
save discards only what its row had and the sheet dropped (`SaveOK`).

`ApplicationProofs` is about `ApplicationSpec`. Every step of the application is a step
of one part (`StepsOfParts`), so each part has its own invariant:

- `AccessImplemented`: the application implements `TenantAccess`, so its theorems hold
  beneath the other parts.
- `BasketsOrderedOnce`, by `CheckoutInv`: one tab at most waits or confirms (`BusyOK`),
  and for the last request; an order that was made is of the current basket only
  while a tab is busy with it (`RequestsOK`); the phone's link is the last order of an
  earlier basket (`LinkOK`).
- `QuotesAreCharged`, by `QuotesInv`: a posted request's quote is the sum of the prices in
  its own lines (`RequestsQuoted`). Where those are the menu's, quote and charge sum the
  same function, and no induction over the sum is needed.
- `AlwaysWithinPlan`, by `FloorInv`: whoever creates rows is the only one, decided on
  the plan of today, and has room for all that is left of its range. Assumes that a
  restaurant starts within the free plan (`SettledFits`).
- `ScreenNeverBlank`, by `FilterHasDish`: a filter that is on has a dish in the open
  category. `Popular` and `Favourites` must not be categories (`TabNames`).
- `SecretsAlwaysSurvive`, by `FormOK`: what a form writes of a secret it has not edited is
  its mask, which is not written, or the nothing its page showed (`Unedited`).
- `PhotosAreKept`, by `MediaInv`.
- `TrackerKeepsAsking`, the part of `TrackerCatchesUp` that is safety: a page that says it
  updates has its timer or the timer's poll under way.
- `ApplicationTypeCorrect`, from one type lemma per part. Three need more than types:
  the phone's link and the tracked orders are of requests that were posted
  (`DinerTyped`), a snapshot never has a mask or an unreadable value because no load
  makes one (`SettingsTold`), and the least price of a dish is one of its prices
  (`LeastPrice`, from the well-founded order of the naturals).

`TenantAccessProofs`, about `AccessSpec`: `AccessTypeCorrect` and `RequestsStayHome`.
A lemma about the policies (`PoliciesIsolate`) and one about each operation of the
scoped client over them (`OperationStaysHome`) meet the guards of the requests;
memberships are never removed, so a session that was right stays right.

**Only model-checked.** Liveness (`EveryCallAnswered`, `ValidOrdersArePlaced`,
`NewOrdersChime`, `OpenOrdersConverge`, `TrackerCatchesUp`, `ServersAgreeInTheEnd`):
fairness and ENABLED are out of the prover's reach. `NeverWaitsForAWaiter`,
`BoardsChimeOnce` and `TrackerKeepsAsking` prove what three of them need of every state.

## 5. What is not modelled

- The data of an order (lines, modifiers, time zones of the business date) is
  computed before the first write. `Checkout` has the sum; nothing else reads it.
- Time itself: timeouts are steps that may happen when what they wait for has
  not, TTLs and poll intervals are fairness.
- The sequence numbers of the bus: no client reads them. The diner's channel
  `order:<token>` has no subscriber. `redisUnavailable`, once set, stays set: the
  model loses a bounded number of messages instead of all of them.
- Boards: an `order.updated` that arrives before its `order.created` silences the
  alert, which `SeenIsAnnouncedOnce` names as the one exception; `NewOrdersChime` is
  claimed for orders nobody has touched and that are among the 200 oldest open ones.
- Connect onboarding (`connect.service.ts`): it stores an account id and mirrors
  Stripe's flags, which only select a payment provider here.
- Zones, seats, printed QR sheets; names, prices, descriptions and the order of
  dishes: single-row edits no other state depends on.
- Byte-level sniffing, storage drivers, the upload rate limit, the service worker
  (static files only), password hashing and tokens, rendering and marketing pages.

Observations made while modelling, about code that is outside the runs or that
promises nothing:

- A diner may pay online and at the counter at once: both calls look at the order before
  either creates its payment (`payment.service.ts:74`).
- Under the role the migration asks for, `billing.service.ts:57` reads and writes
  `tenants` with no tenant set and finds no row; `sweep-uploads.mjs` (67-85) finds no
  references and would delete every photo older than a day. `bypass` and the cause
  `blind` stand for these.
- The floor view's page and its resync list PENDING and ACCEPTED orders, so one opened
  after an order became READY never shows it (`staff/floor/page.tsx:33-36`); it groups by
  the table labels of the time it was opened.
- `kitchen-display.tsx:70-81` counts waiting orders within the active tab only.
- The bKash token cache (`bkash.provider.ts:58-104`) is not keyed by credentials.
- `createLocationAction` of the tables page (`tables/actions.ts:20-29`) does not call
  `assertCanCreate`; the menu's does.
- `@@unique([locationId, label])` counts soft-deleted tables.
- Closing the sheet while an order is posted loses the link to that order
  (`storefront.tsx:924-930`); a line keeps the price it was first added with.
- `duplicateMenuItem` shares the original's files. `media-gallery.tsx:41` appends to the
  images of an earlier render. Deleting a category leaves its dishes live.
- The settings form saves every effective value of its group, which freezes defaults
  and environment values as rows.
- A sign-up retried with the same address after its slug was taken fails, against
  `signup.service.ts:16-25`; sign-in does not look at `user.deletedAt`.
- `forTenant` does not scope `upsert` and `createManyAndReturn`, and its list lacks
  `Payment`, `PaymentRefund`, `AuditLog` and `WebhookEvent`; row-level security is what
  keeps those home, and `RowsStayHome` says so.

## 6. Plan

Done: the order path (`OrderNumbering`, `OrderLifecycle`, `Payments`, `LiveBoards`) with
runs, refinement and proofs; `Billing` and `TenantAccess` with runs and proofs; the
other parts of `Application` with one run and a theorem for each of their safety
properties.

Left: Connect onboarding and zones would make their components whole; neither has a property yet that
several steps are needed to break.
